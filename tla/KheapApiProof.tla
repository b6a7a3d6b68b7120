---------------------------- MODULE KheapApiProof ----------------------------
(***************************************************************************)
(* The kernel heap implements HeapApi, for every heap, every set of sizes  *)
(* and any number of holders.  KheapProof's invariant says that memory     *)
(* just granted overlaps nobody else's; what a reallocation copies is not  *)
(* shorter than what HeapApi promises because nobody has filled more than  *)
(* was asked for, and a block is never smaller than that (FilledInv).      *)
(***************************************************************************)
EXTENDS KheapProof

FilledInv ==
    \A h \in Handles :
        /\ filled[h] <= asked[h]
        /\ own[h] = Null => asked[h] = 0

AddressesInv == \A h \in Handles : own[h] # Null => own[h] \in Start .. Start + used

LEMMA InvAddresses == IInv => AddressesInv
<1> SUFFICES ASSUME IInv, NEW h \in Handles, own[h] # Null
             PROVE  own[h] \in Start .. Start + used
  BY DEF AddressesInv
<1>1. /\ own[h] \in Nat /\ asked[h] \in Nat
      /\ blocks \in Seq(Block) /\ used \in Nat /\ Start \in Nat /\ HdrSize \in Nat
      /\ brks \subseteq [addr : Nat, size : Nat]
  <2>1. own[h] \in Nat /\ asked[h] \in Nat
    BY DEF IInv, TypeOK
  <2> QED
    BY <2>1, KheapConstants DEF IInv, TypeOK
<1>2. CASE InBrk(h)
  BY <1>1, <1>2 DEF InBrk, Extent, IInv, LayoutInv, Layout
<1>3. CASE \E i \in 1 .. N : InBlock(h, i)
  <2>1. PICK i \in 1 .. N : InBlock(h, i)
    BY <1>3
  <2>2. /\ blocks[i].data \in Nat /\ blocks[i].size \in Nat /\ blocks[i].hdr \in Nat
        /\ blocks[i].data <= own[h] /\ own[h] + asked[h] <= blocks[i].data + blocks[i].size
    BY <1>1, <2>1, BlockFields DEF InBlock, In, IInv, LayoutInv, Layout, N
  <2>3. /\ blocks[i].hdr >= Start /\ blocks[i].hdr + HdrSize <= blocks[i].data
        /\ blocks[i].data + blocks[i].size <= Start + used
    BY <2>1 DEF InBlock, In, IInv, LayoutInv, Layout, N
  <2> DEFINE p == own[h]
             n == asked[h]
             d == blocks[i].data
             z == blocks[i].size
             x == blocks[i].hdr
  <2>4. /\ p \in Nat /\ n \in Nat /\ d \in Nat /\ z \in Nat /\ x \in Nat
        /\ d <= p /\ p + n <= d + z
        /\ x >= Start /\ x + HdrSize <= d /\ d + z <= Start + used
    BY <1>1, <2>2, <2>3
  <2>5. p \in Start .. Start + used
    <3> HIDE DEF p, n, d, z, x
    <3> QED
      BY <1>1, <2>4
  <2> QED
    BY <2>5
<1> QED
  BY <1>2, <1>3 DEF IInv, OwnersInv

LEMMA NextInvBytes == IInv' => AddressesInv' /\ NoOverlap' /\ TypeOK'
<1>1. IInv => AddressesInv /\ NoOverlap /\ TypeOK
  BY InvAddresses, InvNoOverlap DEF IInv
<1> QED
  BY <1>1, PTL

(* What a call grants is at an address of the heap and overlaps nobody's. *)
LEMMA Granted ==
    ASSUME TypeOK, IInv', NEW h \in Handles, NEW p \in Nat \cup {Null}, NEW n \in Nat,
           NEW k, Holds(h, p, n, k), used' <= MaxUsed
    PROVE  /\ Api!Grant(h, p, n)
           /\ p \in (Start .. Start + MaxUsed) \cup {Null}
           /\ own'[h] = p /\ asked'[h] = IF p = Null THEN 0 ELSE n
           /\ filled' = [filled EXCEPT ![h] = k]
<1>1. /\ own' = [own EXCEPT ![h] = p]
      /\ asked' = [asked EXCEPT ![h] = IF p = Null THEN 0 ELSE n]
      /\ filled' = [filled EXCEPT ![h] = k]
  BY DEF Holds
<1>2. /\ own'[h] = p /\ asked'[h] = IF p = Null THEN 0 ELSE n
      /\ \A g \in Handles \ {h} : own'[g] = own[g] /\ asked'[g] = asked[g]
  BY <1>1 DEF TypeOK
<1>3. AddressesInv' /\ NoOverlap' /\ used' \in Nat
  BY NextInvBytes DEF TypeOK
<1>4. p # Null => p \in Start .. Start + MaxUsed
  BY <1>2, <1>3, KheapConstants DEF AddressesInv
<1>5. ASSUME p # Null, NEW g \in Handles \ {h}
      PROVE  (p .. p + n - 1) \cap Api!Region(g) = {}
  <2>1. Region(h)' \cap Region(g)' = {}
    BY <1>3 DEF NoOverlap
  <2>2. Region(h)' = p .. p + n - 1 /\ Region(g)' = Api!Region(g)
    BY <1>2, <1>5 DEF Region, Bytes, Api!Region
  <2> QED
    BY <2>1, <2>2
<1> QED
  BY <1>1, <1>2, <1>4, <1>5 DEF Api!Grant

LEMMA AllocateStep ==
    ASSUME TypeOK, IInv', NEW h \in Handles, NEW p \in Nat \cup {Null}, NEW n \in Sizes, NEW k,
           own[h] = Null, Holds(h, p, n, k), used' <= MaxUsed,
           k \in {0, IF p = Null THEN 0 ELSE n}
    PROVE  Api!Next
<1>1. /\ Api!Grant(h, p, n) /\ p \in (Start .. Start + MaxUsed) \cup {Null}
      /\ asked'[h] = IF p = Null THEN 0 ELSE n
      /\ filled' = [filled EXCEPT ![h] = k]
  BY Granted, KheapConstants
<1>2. Api!Allocate(h, p, n)
  BY <1>1 DEF Api!Allocate
<1> QED
  BY <1>1, <1>2 DEF Api!Next

LEMMA ReallocateStep ==
    ASSUME TypeOK, IInv', NEW h \in Handles, NEW p \in Nat \cup {Null}, NEW n \in Sizes, NEW k,
           Holds(h, p, n, k), used' <= MaxUsed,
           k = IF p = Null THEN 0 ELSE Api!LesserOf(filled[h], n)
    PROVE  Api!Next
<1>1. /\ Api!Grant(h, p, n) /\ p \in (Start .. Start + MaxUsed) \cup {Null}
      /\ filled' = [filled EXCEPT ![h] = k]
  BY Granted, KheapConstants
<1>2. Api!Reallocate(h, p, n)
  BY <1>1 DEF Api!Reallocate
<1> QED
  BY <1>1, <1>2 DEF Api!Next

----------------------------------------------------------------------------
(* One step per call *)

LEMMA HoldsFilled ==
    ASSUME TypeOK, FilledInv, NEW h \in Handles, NEW p \in Nat \cup {Null}, NEW n \in Nat, NEW k \in Nat,
           Holds(h, p, n, k), k <= IF p = Null THEN 0 ELSE n
    PROVE  FilledInv'
<1>1. /\ own'[h] = p /\ filled'[h] = k
      /\ asked'[h] = IF p = Null THEN 0 ELSE n
      /\ \A g \in Handles \ {h} : own'[g] = own[g] /\ asked'[g] = asked[g] /\ filled'[g] = filled[g]
  BY DEF Holds, TypeOK
<1> QED
  BY <1>1 DEF FilledInv

LEMMA InitApi == Init => FilledInv /\ Api!Init
  BY DEF Init, FilledInv, Api!Init

(* kmalloc, kcalloc and kbrk: the call fills nothing or everything *)
LEMMA AllocateCall ==
    ASSUME TypeOK, FilledInv, IInv', NEW h \in Handles, NEW p \in Nat \cup {Null}, NEW n \in Sizes, NEW k,
           own[h] = Null, Holds(h, p, n, k), used' <= MaxUsed,
           k \in {0, IF p = Null THEN 0 ELSE n}
    PROVE  FilledInv' /\ Api!Next
<1>1. n \in Nat
  BY KheapConstants
<1>2. k \in Nat /\ k <= IF p = Null THEN 0 ELSE n
  BY <1>1
<1> QED
  BY <1>1, <1>2, AllocateStep, HoldsFilled

LEMMA KreallocCall ==
    ASSUME IInv, FilledInv, IInv', NEW h \in Handles, NEW n \in Sizes, Krealloc(h, n), used <= MaxUsed
    PROVE  FilledInv' /\ Api!Next
<1> DEFINE i == FindData(own[h])
           r == NewBlock(n)
           k == IF r.ptr = Null THEN 0 ELSE Kept(h, Copied(i, n))
<1>1. /\ TypeOK /\ n \in Nat /\ filled[h] \in Nat /\ asked[h] \in Nat /\ blocks \in Seq(Block)
      /\ filled[h] <= asked[h]
      /\ own[h] = Null => asked[h] = 0
  BY KheapConstants DEF IInv, TypeOK, FilledInv
<1>2. CASE i = 0
  <2>1. Holds(h, Null, n, 0) /\ used' = used
    BY <1>2 DEF Krealloc, heap
  <2>2. FilledInv'
    <3>1. 0 <= IF Null = Null THEN 0 ELSE n
      OBVIOUS
    <3> QED
      BY <1>1, <2>1, <3>1, HoldsFilled
  <2>3. Api!Next
    BY <1>1, <2>1, ReallocateStep
  <2> QED
    BY <2>2, <2>3
<1>3. CASE i # 0
  <2>1. Holds(h, r.ptr, n, k) /\ used' <= MaxUsed
    BY <1>3 DEF Krealloc, SetHeap, Within, NewBlock
  <2>2. i \in 1 .. N /\ blocks[i].data = own[h]
    BY <1>3, FindDataIs
  <2>3. blocks[i].size \in Nat
    BY <1>1, <2>2, BlockFields DEF N
  <2>4. filled[h] <= blocks[i].size
    <3>1. CASE own[h] = Null
      BY <1>1, <2>3, <3>1
    <3>2. CASE own[h] # Null
      <4>1. own[h] \in Nat /\ own[h] + asked[h] <= own[h] + blocks[i].size
        BY <2>2, <3>2, HeldBlock DEF InBlock, In, IInv, TypeOK
      <4> QED
        BY <1>1, <2>3, <4>1
    <3> QED
      BY <3>1, <3>2
  <2>5. Kept(h, Copied(i, n)) = Api!LesserOf(filled[h], n)
    BY <1>1, <2>3, <2>4 DEF Kept, Copied, Api!LesserOf
  <2>6. r.ptr \in Nat \cup {Null}
    <3>1. HeapSize >= HdrSize + PtrSize
      BY <1>1, <2>2 DEF IInv, LayoutInv, Layout, N
    <3> QED
      BY <1>1, <3>1, NewBlockDoes DEF MallocDoes
  <2>7. k = (IF r.ptr = Null THEN 0 ELSE Api!LesserOf(filled[h], n)) /\ k \in Nat
        /\ k <= IF r.ptr = Null THEN 0 ELSE n
    BY <1>1, <2>5 DEF Api!LesserOf
  <2> HIDE DEF k, r
  <2> QED
    BY <1>1, <2>1, <2>6, <2>7, ReallocateStep, HoldsFilled
<1> QED
  BY <1>2, <1>3

(* The bound under which the calls of the model stop. *)
Bounded == used <= MaxUsed

LEMMA NextApi ==
    ASSUME IInv, FilledInv, Bounded, [Next]_vars, IInv'
    PROVE  FilledInv' /\ Bounded' /\ [Api!Next]_(Api!vars)
<1> USE KheapConstants
<1>0. TypeOK
  BY DEF IInv
<1>1. ASSUME NEW h \in Handles, Kfree(h)
      PROVE  FilledInv' /\ Bounded' /\ Api!Next
  <2>1. /\ own' = [own EXCEPT ![h] = Null] /\ asked' = [asked EXCEPT ![h] = 0]
        /\ filled' = [filled EXCEPT ![h] = 0] /\ used' = used
    BY <1>1 DEF Kfree
  <2>2. FilledInv'
    BY <1>0, <2>1 DEF FilledInv, TypeOK
  <2> QED
    BY <2>1, <2>2 DEF Bounded, Api!Next, Api!Release
<1>2. ASSUME NEW h \in Handles, Fill(h)
      PROVE  FilledInv' /\ Bounded' /\ Api!Next
  <2>1. /\ own[h] # Null /\ filled' = [filled EXCEPT ![h] = asked[h]]
        /\ own' = own /\ asked' = asked /\ used' = used
    BY <1>2 DEF Fill, heap
  <2>2. FilledInv'
    BY <1>0, <2>1 DEF FilledInv, TypeOK
  <2> QED
    BY <2>1, <2>2 DEF Bounded, Api!Next, Api!Fill
<1>3. ASSUME NEW h \in Handles, NEW n \in Sizes, Kbrk(h, n)
      PROVE  FilledInv' /\ Bounded' /\ Api!Next
  <2> DEFINE a == Brk(n, total, used)
  <2>1. own[h] = Null /\ Holds(h, a, n, 0) /\ used' <= MaxUsed
    BY <1>3 DEF Kbrk
  <2>2. a \in Nat \cup {Null}
    BY <1>0 DEF Brk, TypeOK
  <2> HIDE DEF a
  <2> QED
    BY <1>0, <2>1, <2>2, AllocateCall DEF Bounded
<1>4. ASSUME NEW h \in Handles, NEW n \in Sizes, Kmalloc(h, n) \/ Kcalloc(h, n)
      PROVE  FilledInv' /\ Bounded' /\ Api!Next
  <2> DEFINE p == Malloc(n).ptr
  <2>1. /\ own[h] = Null /\ used' <= MaxUsed
        /\ \E k \in {0, IF p = Null THEN 0 ELSE n} : Holds(h, p, n, k)
    BY <1>4 DEF Kmalloc, Kcalloc, SetHeap, Within
  <2>2. p \in Nat \cup {Null}
    BY MallocEffect DEF MallocDoes
  <2> HIDE DEF p
  <2> QED
    BY <1>0, <2>1, <2>2, AllocateCall DEF Bounded
<1>5. ASSUME NEW h \in Handles, NEW n \in Sizes, NEW a \in Aligns, MallocAligned(h, n, a)
      PROVE  FilledInv' /\ Bounded' /\ Api!Next
  <2> DEFINE r == Malloc(n + a - 1)
             p == IF r.ptr = Null THEN Null ELSE AlignUp(r.ptr, a)
  <2>1. own[h] = Null /\ used' <= MaxUsed /\ Holds(h, p, n, 0)
    BY <1>5 DEF MallocAligned, SetHeap, Within
  <2>2. n + a - 1 \in Nat /\ a \in Nat \ {0}
    OBVIOUS
  <2>3. r.ptr \in Nat \cup {Null}
    BY <2>2, MallocEffect DEF MallocDoes
  <2> HIDE DEF r
  <2>4. p \in Nat \cup {Null}
    <3>1. CASE r.ptr = Null
      BY <3>1
    <3>2. CASE r.ptr # Null
      <4>1. AlignUp(r.ptr, a) \in r.ptr .. r.ptr + a - 1
        BY <2>2, <2>3, <3>2, AlignUpBounds
      <4> QED
        BY <2>2, <2>3, <3>2, <4>1
    <3> QED
      BY <3>1, <3>2
  <2> HIDE DEF p
  <2> QED
    BY <1>0, <2>1, <2>4, AllocateCall DEF Bounded
<1>6. ASSUME NEW h \in Handles, NEW n \in Sizes, Krealloc(h, n)
      PROVE  FilledInv' /\ Bounded' /\ Api!Next
  <2>1. used' <= MaxUsed
    BY <1>6 DEF Bounded, Krealloc, heap, SetHeap, Within
  <2> QED
    BY <1>6, <2>1, KreallocCall DEF Bounded
<1>7. CASE UNCHANGED vars
  BY <1>7 DEF vars, Api!vars, FilledInv, Bounded
<1> QED
  BY <1>1, <1>2, <1>3, <1>4, <1>5, <1>6, <1>7 DEF Next

(* Together with its callers the heap implements HeapApi: every call       *)
(* grants memory nobody else has, or fails, and krealloc keeps the smaller *)
(* of the two sizes of the data (kheap.c:73-259).                          *)
THEOREM HeapImplementsApi == Spec => ApiSpec
<1>1. Init => IInv /\ FilledInv /\ Bounded /\ Api!Init
  BY InitInv, InitApi, KheapConstants DEF Init, Bounded
<1>2. IInv /\ [Next]_vars => IInv'
  BY StepInv
<1>3. IInv /\ FilledInv /\ Bounded /\ [Next]_vars /\ IInv'
        => FilledInv' /\ Bounded' /\ [Api!Next]_(Api!vars)
  BY NextApi
<1> QED
  BY <1>1, <1>2, <1>3, PTL DEF Spec, ApiSpec, Api!Spec
==============================================================================
