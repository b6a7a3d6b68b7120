------------------------------ MODULE HeapApi ------------------------------
(***************************************************************************)
(* What callers of the kernel heap rely on, with no list, no header and no *)
(* break: a request yields memory that overlaps nobody else's, or nothing; *)
(* the caller's data survives a reallocation up to the smaller size; a     *)
(* caller's memory changes only by the caller's own calls.                 *)
(***************************************************************************)
EXTENDS Integers

CONSTANTS Handles, Addresses, Requests, Null

VARIABLES
    own,      \* the pointer each handle holds, or Null
    asked,    \* how many bytes the handle asked for when it got them
    filled    \* how many of them, from the first on, the handle may read back

vars == <<own, asked, filled>>

Region(h) == IF own[h] = Null THEN {} ELSE own[h] .. own[h] + asked[h] - 1

LesserOf(m, n) == IF m < n THEN m ELSE n

Init ==
    /\ own = [h \in Handles |-> Null]
    /\ asked = [h \in Handles |-> 0]
    /\ filled = [h \in Handles |-> 0]

(* h now holds n bytes at p, which are not Null and not anybody else's, or *)
(* the request failed *)
Grant(h, p, n) ==
    /\ own' = [own EXCEPT ![h] = p]
    /\ asked' = [asked EXCEPT ![h] = IF p = Null THEN 0 ELSE n]
    /\ p # Null => \A g \in Handles \ {h} : (p .. p + n - 1) \cap Region(g) = {}

Allocate(h, p, n) ==
    /\ own[h] = Null
    /\ Grant(h, p, n)
    /\ \E k \in {0, asked'[h]} : filled' = [filled EXCEPT ![h] = k]

Reallocate(h, p, n) ==
    /\ Grant(h, p, n)
    /\ filled' = [filled EXCEPT ![h] = IF p = Null THEN 0 ELSE LesserOf(filled[h], n)]

Fill(h) ==
    /\ own[h] # Null
    /\ filled' = [filled EXCEPT ![h] = asked[h]]
    /\ UNCHANGED <<own, asked>>

Release(h) ==
    /\ own' = [own EXCEPT ![h] = Null]
    /\ asked' = [asked EXCEPT ![h] = 0]
    /\ filled' = [filled EXCEPT ![h] = 0]

Next ==
    \E h \in Handles :
        \/ Fill(h)
        \/ Release(h)
        \/ \E n \in Requests, p \in Addresses \cup {Null} :
              Allocate(h, p, n) \/ Reallocate(h, p, n)

Spec == Init /\ [][Next]_vars
=============================================================================
