-------------------------------- MODULE Fat --------------------------------
(***************************************************************************)
(* The FAT library (fs/fat) on the IDE driver, as the kernel mounts it     *)
(* (kernel.c:398): FAT32, one FAT sector buffered, MaxOpen file objects    *)
(* with one sector buffer each, all files in the root directory.           *)
(*                                                                         *)
(*   fs      what the library sees: fat, dir and data, which are the media *)
(*           with every write issued so far; the sector of the FAT in the  *)
(*           buffer and whether it is dirty; hint (next_free_cluster is    *)
(*           still to be set); out, the media writes of the current call;  *)
(*           full, set once a cluster of the volume could not be had       *)
(*   media   the disk, which gets the writes of out one by one: its value  *)
(*           in any state is what a restart at that moment finds           *)
(*   lists, file   the file objects and the two lists they are on          *)
(*   held, text, lossy, busy, reply   the callers' side: the objects they  *)
(*           hold, the contents each file is owed, the files whose         *)
(*           contents the library has given up, the file of the current    *)
(*           call, the answer of the last read.                            *)
(***************************************************************************)
EXTENDS FatList, SequencesExt

CONSTANTS Names, SectorSize, SectorsPerCluster, EntriesPerSector, FatSectors,
          LastCluster,      \* the last cluster of the volume; the FAT may have entries after it
          DirSlots,         \* entries in a cluster of the directory
          Modes, Lengths,   \* the modes of fl_fopen and the sizes of reads and writes
          MaxLength, MaxCalls
ASSUME FatAssumption ==
  /\ {SectorSize, SectorsPerCluster, EntriesPerSector, FatSectors, DirSlots} \subseteq Nat \ {0}
  /\ LastCluster \in 2..(FatSectors * EntriesPerSector - 1)
  /\ Modes \subseteq {"r", "w", "a", "r+", "w+", "a+"} /\ Lengths \subseteq Nat \ {0}
  /\ MaxLength \in Nat /\ "" \notin Names

VARIABLES fs, media, lists, file, held, text, lossy, busy, reply, calls
vars == <<fs, media, lists, file, held, text, lossy, busy, reply, calls>>

Root      == 2
NoCluster == FatSectors * EntriesPerSector
Entries   == 0..(NoCluster - 1)
End       == -1                 \* FAT32_LAST_CLUSTER
None      == -1                 \* FAT32_INVALID_CLUSTER and the other 0xFFFFFFFF
NoEntry   == [name |-> "", start |-> 0, size |-> 0]
Least(S)  == CHOOSE x \in S : \A y \in S : x <= y
Least2(a, b) == IF a <= b THEN a ELSE b

-----------------------------------------------------------------------------
(* fat_table.c, on the one buffer *)
SectorOf(c)   == c \div EntriesPerSector
Issue(s, w)   == [s EXCEPT !.out = Append(@, w)]
Writeback(s)  ==
  IF s.dirty THEN [Issue(s, [kind |-> "fat", at |-> s.sec,
                             val |-> [c \in {d \in Entries : SectorOf(d) = s.sec} |-> s.fat[c]]])
                   EXCEPT !.dirty = FALSE]
  ELSE s
ReadFat(s, n)    == IF s.sec = n THEN s ELSE [Writeback(s) EXCEPT !.sec = n]
\* mutant: the buffer is not marked dirty
SetClean(s, c, v)   == [ReadFat(s, SectorOf(c)) EXCEPT !.fat[c] = v]
SetCluster(s, c, v) == [ReadFat(s, SectorOf(c)) EXCEPT !.fat[c] = v, !.dirty = TRUE]

\* the clusters met from c, as fatfs_find_next_cluster gives them
Chain(fat, c) ==
  LET run[k \in 0..NoCluster] ==
        IF k = 0 THEN <<c>>
        ELSE LET p == run[k - 1]
             IN  IF fat[Last(p)] \in {0, End} THEN p ELSE Append(p, fat[Last(p)])
  IN  run[NoCluster]

\* the loop of fatfs_free_cluster_chain, for the first n of the clusters q
FreeAlong(s, q, n) ==
  LET run[i \in 0..n] == IF i = 0 THEN s ELSE SetCluster(run[i - 1], q[i], 0)
  IN  run[n]
\* mutant: the loop ends before the last cluster is freed
FreeButLast(s, c) == FreeAlong(s, Chain(s.fat, c), Len(Chain(s.fat, c)) - 1)
FreeChain(s, c) == FreeAlong(s, Chain(s.fat, c), Len(Chain(s.fat, c)))

\* fatfs_find_blank_cluster: NoCluster when there is none.  It searches the whole
\* FAT, the entries after the end of the volume included.
Blank(s)    == Least({c \in Root..(NoCluster - 1) : s.fat[c] = 0} \cup {NoCluster})
Searched(s) ==
  [ReadFat(ReadFat(s, SectorOf(Root)), IF Blank(s) = NoCluster THEN FatSectors - 1 ELSE SectorOf(Blank(s)))
   EXCEPT !.full = @ \/ Blank(s) > LastCluster]

\* fatfs_set_fs_info_next_free_cluster: FSINFO goes through the FAT buffer, and out of it
ForgetHint(s) == IF s.hint THEN [Writeback(s) EXCEPT !.sec = None, !.hint = FALSE] ELSE s

-----------------------------------------------------------------------------
(* fat_write.c *)
\* mutant: the last cluster stays marked free
AddUnmarked(a, i) ==
  IF ~a.ok THEN a
  ELSE IF Blank(a.s) = NoCluster THEN [a EXCEPT !.s = Searched(a.s), !.ok = FALSE]
  ELSE [s |-> SetCluster(Searched(a.s), a.start, Blank(a.s)), ok |-> TRUE,
        start |-> Blank(a.s), first |-> IF i = 1 THEN Blank(a.s) ELSE a.first]

\* round i: one more cluster
AddCluster(a, i) ==
  IF ~a.ok THEN a
  ELSE IF Blank(a.s) = NoCluster THEN [a EXCEPT !.s = Searched(a.s), !.ok = FALSE]
  ELSE [s |-> SetCluster(SetCluster(Searched(a.s), a.start, Blank(a.s)), Blank(a.s), End), ok |-> TRUE,
        start |-> Blank(a.s), first |-> IF i = 1 THEN Blank(a.s) ELSE a.first]

\* n clusters after start; first is the first of them
AddFreeSpace(s, start, n) ==
  LET run[i \in 0..n] == IF i = 0 THEN [s |-> ForgetHint(s), ok |-> TRUE, start |-> start, first |-> None]
                         ELSE AddCluster(run[i - 1], i)
  IN  run[n]

Directory(s)    == Chain(s.fat, Root)
\* the table is read for the first n of the clusters q
ReadAlong(s, q, n) ==
  LET run[i \in 0..n] == IF i = 0 THEN s ELSE ReadFat(run[i - 1], SectorOf(q[i]))
  IN  run[n]
\* fatfs_sector_reader follows the chain from its head for each sector of cluster k
ReadDir(s, k)   == ReadAlong(s, Directory(s), k - 1)
ReadAllDir(s)   == ReadDir(s, Len(Directory(s)) + 1)
EntryAt(s, p)   == s.dir[Directory(s)[p[1]]][p[2]]
Places(s)       == (1..Len(Directory(s))) \X (1..DirSlots)
First(P)        == CHOOSE p \in P : \A q \in P : p[1] < q[1] \/ (p[1] = q[1] /\ p[2] <= q[2])
Found(s, n)     == {p \in Places(s) : EntryAt(s, p).name = n}
EntryOf(s, n)   == EntryAt(s, First(Found(s, n)))
PutEntry(s, c, i, e) ==
  IF c <= LastCluster THEN Issue([s EXCEPT !.dir[c][i] = e], [kind |-> "dir", at |-> <<c, i>>, val |-> e])
                      ELSE [s EXCEPT !.dir[c][i] = e]
WriteEntry(s, p, e) == PutEntry(ReadDir(s, p[1]), Directory(s)[p[1]], p[2], e)

\* fatfs_get_file_entry stops at the entry, or goes through the whole directory
LookUp(s, n) == IF Found(s, n) = {} THEN ReadAllDir(s) ELSE ReadDir(s, First(Found(s, n))[1])

\* fatfs_find_free_dir_offset, when every place is taken: cluster c is added to the directory
Linked(s, c) ==
  [SetCluster(SetCluster(ReadAlong(Searched(s), Directory(s), Len(Directory(s))),
                         Last(Directory(s)), c), c, End)
   EXCEPT !.dir[c] = [i \in 1..DirSlots |-> NoEntry]]
Extend(s, c) == IF c <= LastCluster THEN Issue(Linked(s, c), [kind |-> "erase", at |-> c]) ELSE Linked(s, c)

FreePlaces(s) == {p \in Places(s) : EntryAt(s, p) = NoEntry}
AddEntry(s, e) ==
  IF FreePlaces(s) # {}
  THEN [ok |-> TRUE, s |-> WriteEntry(ReadDir(s, First(FreePlaces(s))[1]), First(FreePlaces(s)), e)]
  ELSE IF Blank(s) = NoCluster THEN [ok |-> FALSE, s |-> Searched(ReadAllDir(s))]
  ELSE [ok |-> TRUE, s |-> WriteEntry(Extend(ReadAllDir(s), Blank(s)), <<Len(Directory(s)) + 1, 1>>, e)]

-----------------------------------------------------------------------------
(* The sectors of a file, fat_filelib.c.  The driver refuses a sector after the end of  *)
(* the device with an error code other than 0, which the library takes for success: the *)
(* buffer stays as it was, and nothing is written.                                      *)
ReadMedia(s, c, j, old) == IF c <= LastCluster THEN s.data[c][j] ELSE old
WriteMedia(s, c, j, v)  ==
  IF c <= LastCluster THEN Issue([s EXCEPT !.data[c][j] = v], [kind |-> "data", at |-> <<c, j>>, val |-> v]) ELSE s

\* mutant: the next cluster is taken from the last one looked up, whichever that is
FromAny(f, k)    == f.idx # None
FromCached(f, k) == k # 0 /\ k = f.idx + 1

\* n clusters on from c; prev is the cluster before the one reached
Follow(a) ==
  IF a.clu = End THEN a ELSE [s |-> ReadFat(a.s, SectorOf(a.clu)), clu |-> a.s.fat[a.clu], prev |-> a.clu]
FollowFrom(s, c, n) ==
  LET run[i \in 0..n] == IF i = 0 THEN [s |-> s, clu |-> c, prev |-> End] ELSE Follow(run[i - 1])
  IN  run[n]

\* the cluster of index k of file f, from the last one looked up where that helps
Locate(s, f, k) ==
  IF k = f.idx THEN [s |-> s, clu |-> f.clu, prev |-> End]
  ELSE IF FromCached(f, k) THEN FollowFrom(s, f.clu, 1)
  ELSE FollowFrom(s, f.start, k)

\* _read_sectors: up to want sectors from sector n on, of one cluster, which was located in l
ReadLocated(l, f, n, want, old) ==
  IF l.clu = End THEN [s |-> l.s, f |-> f, got |-> <<>>]
  ELSE [s |-> l.s, f |-> [f EXCEPT !.idx = n \div SectorsPerCluster, !.clu = l.clu],
        got |-> [i \in 1..Least2(want, SectorsPerCluster - (n % SectorsPerCluster)) |->
                   ReadMedia(l.s, l.clu, (n % SectorsPerCluster) + i, old)]]
ReadSectors(s, f, n, want, old) == ReadLocated(Locate(s, f, n \div SectorsPerCluster), f, n, want, old)

\* _write_sectors: as many of the sectors vals as the cluster c takes; a new cluster at the end
\* of the chain, with clusters for all of them
WriteAlong(s, c, j, vals, n) ==
  LET run[i \in 0..n] == IF i = 0 THEN s ELSE WriteMedia(run[i - 1], c, j + i, vals[i])
  IN  run[n]
WriteTo(s, c, f, n, vals) ==
  LET count == Least2(Len(vals), SectorsPerCluster - (n % SectorsPerCluster))
  IN  [f |-> [f EXCEPT !.idx = n \div SectorsPerCluster, !.clu = c], count |-> count,
       s |-> WriteAlong(s, c, n % SectorsPerCluster, vals, count)]
WriteGrown(a, f, n, vals) ==
  IF a.ok THEN WriteTo(a.s, a.first, f, n, vals) ELSE [s |-> a.s, f |-> f, count |-> 0]
WriteLocated(l, f, n, vals) ==
  IF l.clu # End THEN WriteTo(l.s, l.clu, f, n, vals)
  ELSE WriteGrown(AddFreeSpace(l.s, l.prev, (Len(vals) + SectorsPerCluster - 1) \div SectorsPerCluster),
                  f, n, vals)
WriteSectors(s, f, n, vals) == WriteLocated(Locate(s, f, n \div SectorsPerCluster), f, n, vals)

\* fl_fflush
Flushed(w)  == [s |-> w.s, f |-> [w.f EXCEPT !.dirty = (w.count = 0)]]
Flush(s, f) == IF f.dirty THEN Flushed(WriteSectors(s, f, f.addr, <<f.buf>>)) ELSE [s |-> s, f |-> f]

ZeroSector == [i \in 1..SectorSize |-> 0]

\* sector n in the buffer of f: one round of the buffered branch of fl_fread and fl_fwrite
Fetched(r, n) ==
  [s |-> r.s, ok |-> r.got # <<>>,
   f |-> IF r.got = <<>> THEN r.f ELSE [r.f EXCEPT !.buf = r.got[1], !.addr = n, !.dirty = FALSE]]
Fetch(b, n)       == Fetched(ReadSectors(b.s, b.f, n, 1, b.f.buf), n)
Buffered(s, f, n) == IF f.addr = n THEN [s |-> s, f |-> f, ok |-> TRUE] ELSE Fetch(Flush(s, f), n)

Offset(f)       == f.pos % SectorSize
SectorNo(f)     == f.pos \div SectorSize
Piece(f, count) == Least2(SectorSize - Offset(f), count)      \* of one sector

\* The rounds of the loop of fl_fwrite.  Whole sectors go to the media past the buffer, which
\* has been flushed to b and is dropped;
WroteSectors(a, w) ==
  [s |-> w.s, f |-> [w.f EXCEPT !.pos = @ + w.count * SectorSize],
   left |-> SubSeq(a.left, w.count * SectorSize + 1, Len(a.left)), stop |-> (w.count = 0)]
WritePast(a, b) ==
  WroteSectors(a, WriteSectors(b.s, [b.f EXCEPT !.addr = None, !.dirty = FALSE], SectorNo(a.f),
                               [k \in 1..(Len(a.left) \div SectorSize) |->
                                  SubSeq(a.left, (k - 1) * SectorSize + 1, k * SectorSize)]))
\* less than a sector goes into the buffer, where r has the sector or, behind the end, nothing.
WriteInto(a, r, copy) ==
  [s |-> r.s, left |-> SubSeq(a.left, copy + 1, Len(a.left)), stop |-> FALSE,
   f |-> [r.f EXCEPT !.addr = SectorNo(a.f), !.dirty = TRUE, !.pos = @ + copy,
                     !.buf = [k \in 1..SectorSize |->
                                IF k \in (Offset(a.f) + 1)..(Offset(a.f) + copy) THEN a.left[k - Offset(a.f)]
                                ELSE IF r.ok THEN r.f.buf[k] ELSE 0]]]
WriteRound(a) ==
  IF a.left = <<>> \/ a.stop THEN a
  ELSE IF Offset(a.f) = 0 /\ Len(a.left) >= SectorSize THEN WritePast(a, Flush(a.s, a.f))
  ELSE WriteInto(a, Buffered(a.s, a.f, SectorNo(a.f)), Piece(a.f, Len(a.left)))

\* at most one round for each byte
WriteRounds(a, n) ==
  LET run[i \in 0..n] == IF i = 0 THEN a ELSE WriteRound(run[i - 1])
  IN  run[n]

\* the rounds of the loop of fl_fread: d has whole sectors, r the buffer
ReadPast(a, d) ==
  [s |-> d.s, f |-> [d.f EXCEPT !.pos = @ + Len(d.got) * SectorSize], stop |-> (d.got = <<>>),
   left |-> a.left - Len(d.got) * SectorSize, got |-> a.got \o FlattenSeq(d.got)]
ReadFrom(a, r, copy) ==
  IF r.ok THEN [s |-> r.s, f |-> [r.f EXCEPT !.pos = @ + copy], stop |-> FALSE, left |-> a.left - copy,
                got |-> a.got \o SubSeq(r.f.buf, Offset(a.f) + 1, Offset(a.f) + copy)]
          ELSE [a EXCEPT !.s = r.s, !.f = r.f, !.stop = TRUE]
ReadRound(a) ==
  IF a.left = 0 \/ a.stop THEN a
  ELSE IF Offset(a.f) = 0 /\ a.left >= SectorSize
  THEN ReadPast(a, ReadSectors(a.s, a.f, SectorNo(a.f), a.left \div SectorSize, ZeroSector))
  ELSE ReadFrom(a, Buffered(a.s, a.f, SectorNo(a.f)), Piece(a.f, a.left))
ReadRounds(a, n) ==
  LET run[i \in 0..n] == IF i = 0 THEN a ELSE ReadRound(run[i - 1])
  IN  run[n]

-----------------------------------------------------------------------------
(* The calls.  o is what they pass on: fs, the lists, the file objects and the handle. *)
NoFile == [name |-> "", start |-> 0, pos |-> 0, len |-> 0, changed |-> FALSE, read |-> FALSE, write |-> FALSE,
           append |-> FALSE, buf |-> ZeroSector, addr |-> None, dirty |-> FALSE, idx |-> None, clu |-> None]

Refused(s, L) == [s |-> s, L |-> L, f |-> NoFile, h |-> Nil]
Opened(s, L, n, c, len) ==
  [s |-> Writeback(s), L |-> L, h |-> L.tail["open"], f |-> [NoFile EXCEPT !.name = n, !.start = c, !.len = len]]
\* _check_file_open
IsOpen(L, h, n) == \E o \in Walk(L, "open") \ {h} : file[o].name = n

\* _open_file; the object h is on the open list while it is looked at, and goes back to the
\* end of the free list when the call fails
OpenIn(s, M, h, n) ==
  IF IsOpen(M, h, n) THEN Refused(s, AfterFree(M, h))
  ELSE IF Found(s, n) = {} THEN Refused(LookUp(s, n), AfterFree(M, h))
  ELSE Opened(LookUp(s, n), M, n, EntryOf(s, n).start, EntryOf(s, n).size)
OpenFile(s, L, n) ==
  IF Allocated(L) = Nil THEN Refused(s, L) ELSE OpenIn(s, AfterAllocate(L), Allocated(L), n)

\* _create_file, with one cluster c from fatfs_allocate_free_space; a has the entry added
CreateDone(a, M, h, n, c) ==
  IF a.ok THEN Opened(a.s, M, n, c, 0) ELSE Refused(FreeChain(a.s, c), AfterFree(M, h))
CreateAt(s, M, h, n, c) ==
  IF c = NoCluster THEN Refused(Searched(s), AfterFree(M, h))
  ELSE CreateDone(AddEntry(ReadAllDir(SetCluster(Searched(s), c, End)), [name |-> n, start |-> c, size |-> 0]),
                  M, h, n, c)
CreateNew(s, M, h, n) == CreateAt(s, M, h, n, Blank(s))
CreateIn(s, M, h, n) ==
  IF IsOpen(M, h, n) THEN Refused(s, AfterFree(M, h))
  ELSE IF Found(s, n) # {} THEN Refused(LookUp(s, n), AfterFree(M, h))
  ELSE CreateNew(ForgetHint(LookUp(s, n)), M, h, n)
CreateFile(s, L, n) ==
  IF Allocated(L) = Nil THEN Refused(s, L) ELSE CreateIn(s, AfterAllocate(L), Allocated(L), n)

\* fl_fopen.  FILE_ERASE, which "w" sets, is read nowhere: an existing file keeps its contents.
OrCreate(o, n) == IF o.h # Nil THEN o ELSE CreateFile(o.s, o.L, n)
OrOpen(o, n)   == IF o.h # Nil THEN o ELSE OpenFile(o.s, o.L, n)
Fopen(n, m) ==
  CASE m \in {"r", "r+"}  -> OpenFile(fs, lists, n)
    [] m \in {"w+", "a+"} -> OrCreate(OpenFile(fs, lists, n), n)
    [] m \in {"w", "a"}   -> OrOpen(CreateFile(fs, lists, n), n)
Flagged(f, m) == [f EXCEPT !.read = m \in {"r", "r+", "w+", "a+"}, !.write = m # "r",
                           !.append = m \in {"a", "a+"}]

\* fl_fclose of the file f in object h
UpdateLength(s, f) ==
  IF f.changed /\ Found(s, f.name) # {}
  THEN WriteEntry(s, First(Found(s, f.name)), [EntryOf(s, f.name) EXCEPT !.size = f.len]) ELSE s
CloseFlushed(b, L, h) ==
  [s |-> Writeback(UpdateLength(b.s, b.f)), L |-> AfterFree(L, h),
   f |-> [b.f EXCEPT !.pos = 0, !.len = 0, !.start = 0, !.addr = None, !.dirty = FALSE, !.changed = FALSE]]
Fclose(s, L, f, h) == CloseFlushed(Flush(s, f), L, h)

NoReply == [got |-> <<>>, want |-> <<>>]
\* A call is taken up when the writes of the one before are done.  After the volume has run
\* out, only fl_fclose is followed further.
Call(n) ==
  /\ fs.out = <<>> /\ calls < MaxCalls
  /\ calls' = calls + 1 /\ busy' = n /\ UNCHANGED media
GivenUp(n) == lossy' = IF fs'.full THEN lossy \cup {n} ELSE lossy

Open(n, m) ==
  \E o \in {Fopen(n, m)} :
      /\ Call(n) /\ ~fs.full
      /\ fs' = o.s /\ lists' = o.L /\ held' = held \cup ({o.h} \ {Nil})
      /\ file' = IF o.h = Nil THEN file ELSE [file EXCEPT ![o.h] = Flagged(o.f, m)]
      /\ text' = IF o.h # Nil /\ n \notin DOMAIN text
                 THEN [x \in DOMAIN text \cup {n} |-> IF x = n THEN <<>> ELSE text[x]] ELSE text
      /\ GivenUp(n) /\ reply' = NoReply

Close(h) ==
  \E c \in {Fclose(fs, lists, file[h], h)} :
      /\ Call(file[h].name)
      /\ fs' = c.s /\ lists' = c.L /\ file' = [file EXCEPT ![h] = c.f] /\ held' = held \ {h}
      /\ GivenUp(file[h].name) /\ reply' = NoReply /\ UNCHANGED text

\* the caller's view of a write: the file with the bytes b from pos on
Overwritten(t, pos, b) == [i \in 1..(IF pos + Len(b) > Len(t) THEN pos + Len(b) ELSE Len(t)) |->
                            IF i \in (pos + 1)..(pos + Len(b)) THEN b[i - pos] ELSE t[i]]

\* Bound: the n bytes from pos on are written along the chain, no more than one cluster behind
\* its end at a time.  From FAT32_LAST_CLUSTER, which is reached two clusters behind the end
\* (after fl_fseek has dropped a sector, or when the volume runs out), _read_sectors would go on
\* with what the FAT buffer happens to hold.
ClusterAt(p)     == p \div (SectorSize * SectorsPerCluster)
Pending(s, f)    == f.dirty /\ f.addr \div SectorsPerCluster = Len(Chain(s.fat, f.start))
Along(s, f, pos, n) ==
  LET end == Len(Chain(s.fat, f.start))
  IN  /\ ClusterAt(pos) <= IF Pending(s, f) THEN end + 1 ELSE end
      /\ ClusterAt(pos + n - 1) <= end + Cardinality({c \in Root..(NoCluster - 1) : s.fat[c] = 0})

\* fl_fwrite of the bytes b
WriteBytes(h, b) ==
  LET f   == file[h]
      pos == IF f.append THEN f.len ELSE f.pos
  IN  /\ Call(f.name) /\ ~fs.full /\ f.write /\ pos + Len(b) <= MaxLength
      /\ Along(fs, f, pos, Len(b))
      /\ \E w \in {WriteRounds([s |-> fs, f |-> [f EXCEPT !.pos = pos], left |-> b, stop |-> FALSE], Len(b))} :
           /\ fs' = w.s
           /\ file' = [file EXCEPT ![h] = IF w.f.pos > w.f.len
                                          THEN [w.f EXCEPT !.len = w.f.pos, !.changed = TRUE] ELSE w.f]
      /\ text' = [text EXCEPT ![f.name] = Overwritten(@, pos, b)]
      /\ GivenUp(f.name) /\ reply' = NoReply /\ UNCHANGED <<lists, held>>
\* k bytes that differ from those of every other call
Write(h, k) == WriteBytes(h, [i \in 1..k |-> calls + 1])

\* fl_fread of k bytes; what a file that was given up holds is not known
Read(h, k) ==
  LET f == file[h]
      count == Least2(k, f.len - f.pos)
  IN  /\ Call(f.name) /\ ~fs.full /\ f.read /\ f.pos < f.len
      /\ \E r \in {ReadRounds([s |-> fs, f |-> f, left |-> count, got |-> <<>>, stop |-> FALSE], count)} :
           /\ fs' = r.s /\ file' = [file EXCEPT ![h] = r.f]
           /\ reply' = [got |-> r.got, want |-> IF f.name \in lossy THEN r.got
                                               ELSE SubSeq(text[f.name], f.pos + 1, f.pos + count)]
      /\ UNCHANGED <<lists, held, text, lossy>>

\* mutant: the position is not held below the length
SeekUnchecked(h, p) ==
  /\ Call(file[h].name) /\ ~fs.full
  /\ file' = [file EXCEPT ![h].addr = None, ![h].dirty = FALSE, ![h].pos = p]
  /\ lossy' = IF file[h].dirty THEN lossy \cup {file[h].name} ELSE lossy
  /\ reply' = NoReply /\ UNCHANGED <<fs, lists, held, text>>

\* fl_fseek to byte p: the buffer is dropped, and with it what was not flushed
Seek(h, p) ==
  /\ Call(file[h].name) /\ ~fs.full /\ p <= file[h].len
  /\ file' = [file EXCEPT ![h].addr = None, ![h].dirty = FALSE, ![h].pos = p]
  /\ lossy' = IF file[h].dirty THEN lossy \cup {file[h].name} ELSE lossy
  /\ reply' = NoReply /\ UNCHANGED <<fs, lists, held, text>>

Fflush(h) ==
  \E b \in {Flush(fs, file[h])} :
      /\ Call(file[h].name) /\ ~fs.full /\ file[h].dirty
      /\ fs' = b.s /\ file' = [file EXCEPT ![h] = b.f]
      /\ GivenUp(file[h].name) /\ reply' = NoReply /\ UNCHANGED <<lists, held, text>>

\* fl_remove: the chain is freed, then the entry is marked, then the file is closed
Removed(s, o, n) == Fclose(WriteEntry(s, First(Found(s, n)), NoEntry), o.L, o.f, o.h)
Delete(n) ==
  \E o \in {OpenFile(fs, lists, n)} :
      /\ Call(n) /\ ~fs.full
      /\ IF o.h = Nil
         THEN fs' = o.s /\ lists' = o.L /\ UNCHANGED <<file, text, lossy>>
         ELSE /\ \E c \in {Removed(FreeChain(o.s, o.f.start), o, n)} :
                   fs' = c.s /\ lists' = c.L /\ file' = [file EXCEPT ![o.h] = c.f]
              /\ text' = [x \in DOMAIN text \ {n} |-> text[x]] /\ lossy' = lossy \ {n}
      /\ reply' = NoReply /\ UNCHANGED held

-----------------------------------------------------------------------------
\* The driver does the next write of the call.
WriteDone(m, w) ==
  CASE w.kind = "fat"   -> [m EXCEPT !.fat = [c \in Entries |-> IF c \in DOMAIN w.val THEN w.val[c] ELSE @[c]]]
    [] w.kind = "dir"   -> [m EXCEPT !.dir[w.at[1]][w.at[2]] = w.val]
    [] w.kind = "erase" -> [m EXCEPT !.dir[w.at] = [i \in 1..DirSlots |-> NoEntry]]
    [] w.kind = "data"  -> [m EXCEPT !.data[w.at[1]][w.at[2]] = w.val]
MediaWrite ==
  /\ fs.out # <<>>
  /\ media' = WriteDone(media, Head(fs.out)) /\ fs' = [fs EXCEPT !.out = Tail(@)]
  /\ UNCHANGED <<lists, file, held, text, lossy, busy, reply, calls>>

\* an empty volume, mounted (fatfs_init)
Formatted == [fat  |-> [c \in Entries |-> IF c <= Root THEN End ELSE 0],
              dir  |-> [c \in Entries |-> [i \in 1..DirSlots |-> NoEntry]],
              data |-> [c \in Entries |-> [j \in 1..SectorsPerCluster |-> ZeroSector]]]
Init ==
  /\ media = Formatted
  /\ fs = [fat |-> Formatted.fat, dir |-> Formatted.dir, data |-> Formatted.data,
           sec |-> None, dirty |-> FALSE, hint |-> TRUE, out |-> <<>>, full |-> FALSE]
  /\ lists = AllFree /\ file = [h \in Slots |-> NoFile]
  /\ held = {} /\ text = <<>> /\ lossy = {} /\ busy = "" /\ reply = NoReply /\ calls = 0

\* each caller uses the objects it holds and closes each once
Next ==
  \/ \E n \in Names, m \in Modes : Open(n, m)
  \/ \E n \in Names : Delete(n)
  \/ \E h \in held : Close(h) \/ Fflush(h)
  \/ \E h \in held, k \in Lengths : Write(h, k)
  \/ \E h \in held, k \in Lengths : Read(h, k)
  \/ \E h \in held, p \in 0..MaxLength : Seek(h, p)
  \/ MediaWrite
Spec == Init /\ [][Next]_vars

-----------------------------------------------------------------------------
\* Every variable keeps the shape the code gives it.
TypeOK ==
  /\ fs.fat \in [Entries -> Entries \cup {End}] /\ media.fat \in [Entries -> Entries \cup {End}]
  /\ fs.sec \in {None} \cup 0..(FatSectors - 1) /\ fs.dirty => fs.sec # None
  /\ lists \in Lists /\ held \subseteq Slots
  /\ \A h \in Slots : file[h].pos <= file[h].len /\ file[h].len <= MaxLength /\ Len(file[h].buf) = SectorSize
  /\ DOMAIN text \subseteq Names /\ lossy \subseteq Names

\* No file object is lost or handed out twice, whatever calls fail on the way
\* (_allocate_file and _free_file, in every error path of _open_file and _create_file).
ListsOK == WellFormed(lists) /\ Walk(lists, "open") = held

Live(v) == {v.dir[c][i] : c \in Range(Chain(v.fat, Root)), i \in 1..DirSlots} \ {NoEntry}
Of(v, n) == CHOOSE e \in Live(v) : e.name = n

\* What fatfs_fat_set_cluster is used for keeps the table a table of files: the chains of
\* the directory and of the files end, share no cluster, and own every cluster that is
\* not free: nothing is lost, in create, extend, delete and in their error paths.
ChainsSound ==
  LET heads == {Root} \cup {e.start : e \in Live(fs)}
      owned(c) == Range(Chain(fs.fat, c))
  IN  /\ \A c \in heads : fs.fat[Last(Chain(fs.fat, c))] = End /\ IsInjective(Chain(fs.fat, c))
      /\ \A c, d \in heads : c # d => owned(c) \cap owned(d) = {}
      /\ UNION {owned(c) : c \in heads} = {c \in Root..(NoCluster - 1) : fs.fat[c] # 0}
      /\ \A e, d \in Live(fs) : e # d => e.start # d.start /\ e.name # d.name

\* A restart at any moment: no two files of the media share a cluster, and none has one of
\* the directory (the order of the writes of the FAT buffer and of the directory).
NoCrossLink ==
  LET used(e) == {c \in Range(Chain(media.fat, e.start)) : media.fat[c] # 0}
  IN  \A e \in Live(media) :
        /\ used(e) \cap Range(Chain(media.fat, Root)) = {}
        /\ \A d \in Live(media) : e # d => used(e) \cap used(d) = {}

Stored(e)  == FlattenSeq(FlattenSeq([k \in 1..Len(Chain(media.fat, e.start)) |->
                                        media.data[Chain(media.fat, e.start)[k]]]))
OnMedia(n) == SubSeq(Stored(Of(media, n)), 1, Of(media, n).size)
InUse(n) == n \in {file[h].name : h \in held} \/ (fs.out # <<>> /\ n = busy)

\* A closed file survives a restart at any moment, of any call on another file: its entry,
\* its chain and its sectors are on the media (fl_fclose: flush, length, FAT, in that order).
Durable ==
  \A n \in Names : ~InUse(n) /\ n \notin lossy =>
    /\ n \in DOMAIN text <=> \E e \in Live(media) : e.name = n
    /\ n \in DOMAIN text => OnMedia(n) = text[n]

\* A read gives what was written, through the sector buffer, the last cluster looked up and
\* the FAT buffer that all files share (fl_fread, fl_fwrite).
ReadsBack == reply.got = reply.want

\* An entry that appears in the directory of the media has a cluster that the table of the
\* media calls taken: fatfs_fat_set_cluster says "Immediate write", and _create_file takes
\* the cluster before it adds the entry.
CreatedMarked == [][\A e \in Live(media') \ Live(media) : media'.fat[e.start] # 0]_vars
=============================================================================
