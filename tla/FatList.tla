------------------------------ MODULE FatList ------------------------------
(***************************************************************************)
(* The two lists of file objects of the FAT library: the doubly linked     *)
(* lists of include/fat_list.h, node by node, and the two functions of     *)
(* fat_filelib.c that move an object between them.  A value L of Lists is  *)
(* the memory the code works on:                                           *)
(*   head, tail   the ends of _open_file_list and _free_file_list          *)
(*   prev, next   the two pointers of each object; Nil stands for NULL.    *)
(* A node that is removed keeps its pointers, as in the code, and nothing  *)
(* checks which list a node is on.                                         *)
(***************************************************************************)
EXTENDS Integers, Sequences, FiniteSets

CONSTANT MaxOpen    \* FATFS_MAX_OPEN_FILES
ASSUME MaxOpenAssumption == MaxOpen \in Nat \ {0}

Nil   == 0
Slots == 1..MaxOpen
Lists == [head : [{"open", "free"} -> {Nil} \cup Slots], tail : [{"open", "free"} -> {Nil} \cup Slots],
          prev : [Slots -> {Nil} \cup Slots], next : [Slots -> {Nil} \cup Slots]]

ListRemove(L, q, n) ==
  LET p == L.prev[n]
      x == L.next[n]
      M == IF p = Nil THEN [L EXCEPT !.head[q] = x] ELSE [L EXCEPT !.next[p] = x]
  IN  IF M.next[n] = Nil THEN [M EXCEPT !.tail[q] = M.prev[n]]
                         ELSE [M EXCEPT !.prev[M.next[n]] = M.prev[n]]

InsertAfter(L, q, node, new) ==
  LET M == [L EXCEPT !.prev[new] = node, !.next[new] = L.next[node]]
      K == IF M.next[node] = Nil THEN [M EXCEPT !.tail[q] = new] ELSE [M EXCEPT !.prev[M.next[node]] = new]
  IN  [K EXCEPT !.next[node] = new]

InsertBefore(L, q, node, new) ==
  LET M == [L EXCEPT !.prev[new] = L.prev[node], !.next[new] = node]
      K == IF M.prev[node] = Nil THEN [M EXCEPT !.head[q] = new] ELSE [M EXCEPT !.next[M.prev[node]] = new]
  IN  [K EXCEPT !.prev[node] = new]

InsertFirst(L, q, n) ==
  IF L.head[q] = Nil
  THEN [L EXCEPT !.head[q] = n, !.tail[q] = n, !.prev[n] = Nil, !.next[n] = Nil]
  ELSE InsertBefore(L, q, L.head[q], n)

InsertLast(L, q, n) ==
  IF L.tail[q] = Nil THEN InsertFirst(L, q, n) ELSE InsertAfter(L, q, L.tail[q], n)

\* fl_init: every object is free
Empty == [head |-> [q \in {"open", "free"} |-> Nil], tail |-> [q \in {"open", "free"} |-> Nil],
          prev |-> [n \in Slots |-> Nil], next |-> [n \in Slots |-> Nil]]
AllFree ==
  LET after[n \in 0..MaxOpen] == IF n = 0 THEN Empty ELSE InsertLast(after[n - 1], "free", n)
  IN  after[MaxOpen]

\* _allocate_file: the object handed out (Nil when none is free) and the lists after it
Allocated(L) == L.head["free"]
AfterAllocate(L) ==
  LET n == L.head["free"]
  IN  IF n = Nil THEN L ELSE InsertLast(ListRemove(L, "free", n), "open", n)

\* mutant: the object stays linked in the list it leaves
FreeLinked(L, n) == InsertLast(L, "free", n)

\* _free_file
AfterFree(L, n) == InsertLast(ListRemove(L, "open", n), "free", n)

-----------------------------------------------------------------------------
\* the nodes met when list q is followed from its head, cut after MaxOpen + 1
Walk(L, q) ==
  LET at[k \in 0..MaxOpen] == IF k = 0 THEN L.head[q]
                              ELSE LET n == at[k - 1] IN IF n = Nil THEN Nil ELSE L.next[n]
  IN  {at[k] : k \in 0..MaxOpen} \ {Nil}

\* Each object is on exactly one of the two lists, the lists end, and they read
\* the same from either end.
WellFormed(L) ==
  /\ Walk(L, "open") \cup Walk(L, "free") = Slots
  /\ Walk(L, "open") \cap Walk(L, "free") = {}
  /\ \A q \in {"open", "free"} :
       /\ (L.head[q] = Nil) = (L.tail[q] = Nil)
       /\ L.head[q] # Nil => L.prev[L.head[q]] = Nil /\ L.next[L.tail[q]] = Nil
       /\ \A n \in Walk(L, q) : L.next[n] # Nil => L.prev[L.next[n]] = n
=============================================================================
