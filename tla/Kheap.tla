------------------------------- MODULE Kheap -------------------------------
(***************************************************************************)
(* The kernel heap of kernel/memory/kheap.c: a break that only moves up    *)
(* (kbrk), a linked list of blocks whose headers and data are both cut     *)
(* from the break, and first-fit reuse of freed blocks.                    *)
(*                                                                         *)
(* The list is the sequence `blocks', in list order.  Handles stand for    *)
(* the kernel's variables that hold a heap pointer; each holds at most one *)
(* pointer at a time and gives to kfree and krealloc only what it holds    *)
(* (kfree(NULL) and krealloc(NULL, n) included).  The kernel is            *)
(* monotasking and no interrupt handler allocates, so a call is one step.  *)
(***************************************************************************)
EXTENDS Integers, Sequences

CONSTANTS
    Start,     \* g_kheap_start_addr
    HeapSize,  \* end_addr - start_addr given to kheap_init
    HdrSize,   \* sizeof(KHEAP_BLOCK): 13, the struct is packed
    PtrSize,   \* sizeof(void*): 4
    Sizes,     \* sizes asked for, below 2^31
    Aligns,    \* alignments asked of malloc_aligned
    MaxUsed,   \* bound on g_total_used_size
    MaxList,   \* bound on the length of the list
    Handles,
    Null

ASSUME KheapConstants ==
    /\ Start \in Nat
    /\ HeapSize \in Nat
    /\ HdrSize \in Nat \ {0}
    /\ PtrSize \in Nat
    /\ Sizes \subseteq Nat
    /\ Aligns \subseteq Nat \ {0}
    /\ MaxUsed \in Nat
    /\ MaxList \in Nat
    /\ Null \notin Int

VARIABLES
    total,    \* g_total_size
    used,     \* g_total_used_size
    blocks,   \* the list from g_head on
    brks,     \* the extent kmain took with a call of kbrk of its own
    own,      \* the pointer each handle holds
    asked,    \* the size it asked for when it got the pointer
    filled    \* how many leading bytes of it hold what the handle stored

heap == <<total, used, blocks>>
vars == <<total, used, blocks, brks, own, asked, filled>>

----------------------------------------------------------------------------
(* kbrk(size) when the sizes are t and u: the address it returns ... *)
Brk(size, t, u) ==
    IF size <= 0 \/ t - u < size + PtrSize THEN Null ELSE Start + u

(* a break that moves down *)
MovedDown(size, a) == IF a = Null THEN 0 ELSE - (size + PtrSize)

(* ... and by how much it moves both sizes *)
Moved(size, a) == IF a = Null THEN 0 ELSE size + PtrSize

(* worst_fit: the first free block that is large enough, or 0 *)
WorstFit(size) ==
    LET fits == {i \in DOMAIN blocks : blocks[i].is_free /\ blocks[i].size >= size}
    IN  IF fits = {} THEN 0 ELSE CHOOSE i \in fits : \A j \in fits : i <= j

(* the first block whose data pointer is ptr, or 0 *)
FindData(ptr) ==
    LET found == {i \in DOMAIN blocks : blocks[i].data = ptr}
    IN  IF found = {} THEN 0 ELSE CHOOSE i \in found : \A j \in found : i <= j

(* data cut from the break before the header has moved it *)
NewBlockSwapped(size) ==
    LET hdr  == Brk(HdrSize, total, used)
        data == Brk(size, total, used)
    IN  [total  |-> total + Moved(HdrSize, hdr) + Moved(size, data),
         used   |-> used + Moved(HdrSize, hdr) + Moved(size, data),
         blocks |-> Append(blocks, [hdr |-> hdr, size |-> size, is_free |-> FALSE, data |-> data]),
         ptr    |-> data]

(***************************************************************************)
(* allocate_new_block: a header, then the data, appended to the list even  *)
(* when the data pointer is NULL.  kmalloc makes the first block the same  *)
(* way, except that it stops when there is no room for the header.         *)
(***************************************************************************)
NewBlock(size) ==
    LET hdr  == Brk(HdrSize, total, used)
        t    == total + Moved(HdrSize, hdr)
        u    == used + Moved(HdrSize, hdr)
        data == Brk(size, t, u)
    IN  [total  |-> t + Moved(size, data),
         used   |-> u + Moved(size, data),
         blocks |-> Append(blocks, [hdr |-> hdr, size |-> size, is_free |-> FALSE, data |-> data]),
         ptr    |-> data]

Unchanged(ptr) == [total |-> total, used |-> used, blocks |-> blocks, ptr |-> ptr]

(* a reused block that stays marked free *)
MallocKeepsFree(size) ==
    IF size = 0 THEN Unchanged(Null)
    ELSE IF blocks = <<>>
         THEN IF Brk(HdrSize, total, used) = Null THEN Unchanged(Null) ELSE NewBlock(size)
    ELSE LET w == WorstFit(size)
         IN  IF w = 0 THEN NewBlock(size) ELSE Unchanged(blocks[w].data)

(* what kmalloc(size) does and returns *)
Malloc(size) ==
    IF size = 0 THEN Unchanged(Null)
    ELSE IF blocks = <<>>
         THEN IF Brk(HdrSize, total, used) = Null THEN Unchanged(Null) ELSE NewBlock(size)
    ELSE LET w == WorstFit(size)
         IN  IF w = 0 THEN NewBlock(size)
             ELSE [Unchanged(blocks[w].data) EXCEPT !.blocks[w].is_free = FALSE]

(* a total that stays what kheap_init was given *)
SetHeapFixedTotal(r) ==
    /\ total' = total
    /\ used' = r.used
    /\ blocks' = r.blocks

SetHeap(r) ==
    /\ total' = r.total
    /\ used' = r.used
    /\ blocks' = r.blocks

Within(r) == r.used <= MaxUsed /\ Len(r.blocks) <= MaxList

Holds(h, p, n, k) ==
    /\ own' = [own EXCEPT ![h] = p]
    /\ asked' = [asked EXCEPT ![h] = IF p = Null THEN 0 ELSE n]
    /\ filled' = [filled EXCEPT ![h] = k]

----------------------------------------------------------------------------
(* kheap_init *)
Init ==
    /\ total = HeapSize
    /\ used = 0
    /\ blocks = <<>>
    /\ brks = {}
    /\ own = [h \in Handles |-> Null]
    /\ asked = [h \in Handles |-> 0]
    /\ filled = [h \in Handles |-> 0]

(* kmain's own kbrk(1024): it makes one *)
Kbrk(h, n) ==
    /\ own[h] = Null
    /\ brks = {}
    /\ LET a == Brk(n, total, used)
       IN  /\ used + Moved(n, a) <= MaxUsed
           /\ total' = total + Moved(n, a)
           /\ used' = used + Moved(n, a)
           /\ brks' = IF a = Null THEN brks ELSE brks \cup {[addr |-> a, size |-> n]}
           /\ Holds(h, a, n, 0)
    /\ UNCHANGED blocks

Kmalloc(h, n) ==
    /\ own[h] = Null
    /\ Within(Malloc(n))
    /\ SetHeap(Malloc(n))
    /\ Holds(h, Malloc(n).ptr, n, 0)
    /\ UNCHANGED brks

(* n is the product of kcalloc's arguments; memset zeroes all of it *)
Kcalloc(h, n) ==
    /\ own[h] = Null
    /\ Within(Malloc(n))
    /\ SetHeap(Malloc(n))
    /\ Holds(h, Malloc(n).ptr, n, IF Malloc(n).ptr = Null THEN 0 ELSE n)
    /\ UNCHANGED brks

AlignUp(m, a) == ((m + a - 1) \div a) * a

MallocAligned(h, n, a) ==
    LET r == Malloc(n + a - 1)
    IN  /\ own[h] = Null
        /\ Within(r)
        /\ SetHeap(r)
        /\ Holds(h, IF r.ptr = Null THEN Null ELSE AlignUp(r.ptr, a), n, 0)
        /\ UNCHANGED brks

(* memcpy of the larger of the two sizes *)
CopiedLarger(i, n) == IF blocks[i].size > n THEN blocks[i].size ELSE n

(* memcpy of the smaller of the two sizes; the copy keeps what it covers *)
Copied(i, n) == IF blocks[i].size > n THEN n ELSE blocks[i].size

Kept(h, k) == IF filled[h] < k THEN filled[h] ELSE k

Krealloc(h, n) ==
    LET i == FindData(own[h])
        r == NewBlock(n)
    IN  IF i = 0
        THEN /\ Holds(h, Null, n, 0)
             /\ UNCHANGED <<heap, brks>>
        ELSE /\ Within(r)
             /\ SetHeap([r EXCEPT !.blocks[i].is_free = TRUE])
             /\ Holds(h, r.ptr, n, IF r.ptr = Null THEN 0 ELSE Kept(h, Copied(i, n)))
             /\ UNCHANGED brks

Kfree(h) ==
    LET i == FindData(own[h])
    IN  /\ blocks' = IF i = 0 THEN blocks ELSE [blocks EXCEPT ![i].is_free = TRUE]
        /\ own' = [own EXCEPT ![h] = Null]
        /\ asked' = [asked EXCEPT ![h] = 0]
        /\ filled' = [filled EXCEPT ![h] = 0]
        /\ UNCHANGED <<total, used, brks>>

(* the holder stores data in all of its memory *)
Fill(h) ==
    /\ own[h] # Null
    /\ filled' = [filled EXCEPT ![h] = asked[h]]
    /\ UNCHANGED <<heap, brks, own, asked>>

Next ==
    \E h \in Handles :
        \/ Kfree(h)
        \/ Fill(h)
        \/ \E n \in Sizes :
              \/ Kbrk(h, n)
              \/ Kmalloc(h, n)
              \/ Kcalloc(h, n)
              \/ Krealloc(h, n)
              \/ \E a \in Aligns : MallocAligned(h, n, a)

Spec == Init /\ [][Next]_vars

----------------------------------------------------------------------------
Block == [hdr : Nat \cup {Null}, size : Nat, is_free : BOOLEAN, data : Nat \cup {Null}]

(* The ranges of the variables. *)
TypeOK ==
    /\ total \in Nat
    /\ used \in Nat
    /\ blocks \in Seq(Block)
    /\ brks \subseteq [addr : Nat, size : Nat]
    /\ own \in [Handles -> Nat \cup {Null}]
    /\ asked \in [Handles -> Nat]
    /\ filled \in [Handles -> Nat]

Bytes(addr, n) == IF addr = Null THEN {} ELSE addr .. addr + n - 1

HdrBytes(i) == Bytes(blocks[i].hdr, HdrSize)
DataBytes(i) == Bytes(blocks[i].data, blocks[i].size)
Region(h) == Bytes(own[h], asked[h])

(* allocate_new_block never writes a header through the NULL that an       *)
(* exhausted kbrk returns, although it does not test it (kheap.c:138-143): *)
(* every block of the list has a header.                                   *)
HeadersReal == \A i \in DOMAIN blocks : blocks[i].hdr # Null

(* What one handle stores never reaches another handle's memory or the     *)
(* header of a block of the list, however the heap was used before.        *)
NoOverlap ==
    \A h \in Handles :
        /\ \A g \in Handles \ {h} : Region(h) \cap Region(g) = {}
        /\ \A i \in DOMAIN blocks : Region(h) \cap HdrBytes(i) = {}

(* Memory somebody holds is never up for reuse: the block it lies in, if   *)
(* it lies in one, is not free and is held by nobody else (kheap.c:153-    *)
(* 245).                                                                   *)
HeldNotFree ==
    \A h \in Handles : \A i \in DOMAIN blocks :
        Region(h) \cap DataBytes(i) # {} =>
            /\ Region(h) \subseteq DataBytes(i)
            /\ ~ blocks[i].is_free

(* Together with its callers the heap behaves as HeapApi promises: in      *)
(* particular krealloc keeps the smaller of the two sizes of the data.     *)
Api == INSTANCE HeapApi WITH Addresses <- Start .. Start + MaxUsed, Requests <- Sizes
ApiSpec == Api!Spec

(* "Checks if there is enough free space in the heap for the requested     *)
(* size. If not, prints an error message and returns NULL" (kheap.c:67-68):*)
(* no block ends behind the end address given to kheap_init.               *)
WithinHeap ==
    \A i \in DOMAIN blocks : DataBytes(i) \subseteq Start .. Start + HeapSize - 1
=============================================================================
