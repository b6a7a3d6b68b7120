------------------------------- MODULE Update -------------------------------
(***************************************************************************)
(* install_new_version (kernel/update/update.c), the `update` command of   *)
(* the shell, as a client of the FAT library: the file `new` is copied     *)
(* over the file `old`, and removed.  The shell runs one command at a      *)
(* time, so between the files being written (pc = "idle") and the return   *)
(* no other call is made; malloc may fail.                                 *)
(*   image    what the files held when the command was given               *)
(*   result   what install_new_version returns                             *)
(***************************************************************************)
EXTENDS Fat

CONSTANTS New, Old,      \* the files of cmdhandler.c:512
          Prepared       \* calls made before the command

VARIABLES pc, image, result
uvars == <<vars, pc, image, result>>

Goto(l)    == pc' = l /\ UNCHANGED <<image, result>>
Finish(r)  == pc' = "closing" /\ result' = r /\ UNCHANGED image
Handle(n)  == CHOOSE h \in held : file[h].name = n
IfOpened(l, otherwise) == IF held' # held THEN Goto(l) ELSE otherwise

\* the shell before: files are created and written (an empty new file is left out)
Prepare ==
  /\ pc = "idle" /\ calls < Prepared /\ UNCHANGED <<pc, image, result>>
  /\ \/ \E n \in Names : Open(n, "w")
     \/ \E h \in held : Close(h)
     \/ \E h \in held, k \in Lengths : Write(h, k)

Start ==
  /\ pc = "idle" /\ held = {} /\ fs.out = <<>> /\ {New, Old} \subseteq DOMAIN text /\ text[New] # <<>>
  /\ pc' = "check" /\ image' = text /\ UNCHANGED <<vars, result>>

\* is_valid_multiboot_header and, when its answer is 0, read_txt_section: each opens the
\* old file, reads, and closes it.  Neither answer ends the installation (update.c:123).
Check      == pc = "check" /\ Open(Old, "r") /\ IfOpened("checked", Goto("open_new"))
CheckClose == pc = "checked" /\ Close(Handle(Old)) /\ \E l \in {"check", "open_new"} : Goto(l)

OpenNew  == pc = "open_new" /\ Open(New, "r") /\ IfOpened("size", Finish(-1))
\* get_file_size leaves the position at the end, where find_aligned_data reads nothing
Size     == pc = "size" /\ Seek(Handle(New), file[Handle(New)].len) /\ (Goto("close_new") \/ Finish(-1))
CloseNew == pc = "close_new" /\ Close(Handle(New)) /\ Goto("open_old")
OpenOld  == pc = "open_old" /\ Open(Old, "w") /\ IfOpened("open_again", Finish(-1))
OpenAgain == pc = "open_again" /\ Open(New, "r") /\ IfOpened("read", Finish(-1))
\* the second malloc
NoMemory == pc = "read" /\ Finish(-1) /\ UNCHANGED vars
ReadNew  == pc = "read" /\ Read(Handle(New), Len(image[New])) /\ Goto("write")
\* the bytes that were read, written at the start of the old file
WriteOld == pc = "write" /\ WriteBytes(Handle(Old), reply.got) /\ Finish(0)


\* mutant: the new file is removed before the old one is closed
ClosingLate ==
  /\ pc = "closing" /\ UNCHANGED <<image, result>>
  /\ IF \E h \in held : file[h].name = New THEN Close(Handle(New)) /\ UNCHANGED pc
     ELSE IF result = 0 /\ New \in DOMAIN text THEN Delete(New) /\ UNCHANGED pc
     ELSE IF held # {} THEN Close(Handle(Old)) /\ UNCHANGED pc
     ELSE UNCHANGED vars /\ pc' = "done"

\* the files that are still open are closed, the new one first; after a success it is removed
Closing ==
  /\ pc = "closing"
  /\ \/ held # {} /\ UNCHANGED <<pc, image, result>>
        /\ Close(IF \E h \in held : file[h].name = New THEN Handle(New) ELSE Handle(Old))
     \/ held = {} /\ result = 0 /\ Delete(New) /\ Goto("done")
     \/ held = {} /\ result = -1 /\ UNCHANGED vars /\ Goto("done")

UInit == Init /\ pc = "idle" /\ image = <<>> /\ result = 0
UNext ==
  \/ Prepare \/ Start \/ Check \/ CheckClose \/ OpenNew \/ Size \/ CloseNew \/ OpenOld
  \/ OpenAgain \/ NoMemory \/ ReadNew \/ WriteOld \/ Closing
  \/ MediaWrite /\ UNCHANGED <<pc, image, result>>
USpec == UInit /\ [][UNext]_uvars

\* The old file is overwritten in place.  A stop at any moment of the installation leaves the
\* new version on the media all the same: in its own file or, from there removed only then,
\* at the start of the old one.
Holds(n, t) == \E e \in Live(media) : e.name = n /\ e.size >= Len(t) /\ IsPrefix(t, Stored(e))
NewVersionSafe ==
  pc # "idle" /\ ~fs.full => Holds(New, image[New]) \/ Holds(Old, image[New])

=============================================================================
