-------------------------------- MODULE Pmm --------------------------------
(***************************************************************************)
(* The physical memory manager of kernel/memory/pmm.c: a bitmap of frames, *)
(* a count of frames in use, and the operations that take frames from it   *)
(* and give them back.  kmain (kernel/kernel.c) initialises it, takes the  *)
(* heap's frames, and on its way out gives some of them back.              *)
(*                                                                         *)
(* The bitmap is the set of its set bits.  It has MaxBlocks words of       *)
(* WordBits bits, because pmm_init sizes an array of uint32 by the number  *)
(* of frames.  A bit's number is that of a frame counted from address 0;   *)
(* the pointer handed out for it is its address plus memory_map_end.       *)
(***************************************************************************)
EXTENDS Integers, FiniteSets

CONSTANTS
    WordBits,       \* bits in a word of the bitmap (32 in the code)
    MaxBlocks,      \* available.size / PMM_BLOCK_SIZE
    Base,           \* available.start_addr / PMM_BLOCK_SIZE
    BlockSize,      \* PMM_BLOCK_SIZE, in bytes
    MapEnd,         \* g_pmm_info.memory_map_end, the address behind the bitmap
    U32,            \* the modulus of a uint32
    HeapBlocks,     \* frames kmain takes for the heap (4096 in the code)
    ReturnedBlocks, \* frames kmain gives back at the end (256 in the code)
    Sizes,          \* sizes clients ask pmm_alloc_blocks for
    Clients,        \* holders of one allocation each
    None            \* a client or a result without a frame: NULL

Bits == 0 .. WordBits * MaxBlocks - 1

ASSUME PmmConstants ==
    /\ WordBits \in Nat \ {0}
    /\ MaxBlocks \in Nat \ {0}
    /\ Base \in Nat
    /\ HeapBlocks \in Nat
    /\ ReturnedBlocks \in 0 .. MaxBlocks
    /\ Sizes \subseteq Nat
    /\ U32 \in Nat
    /\ WordBits * MaxBlocks < U32
    /\ Base + MaxBlocks < WordBits * MaxBlocks
    /\ BlockSize \in Nat \ {0}
    /\ MapEnd \in Nat
    /\ (Base + MaxBlocks) * BlockSize + MapEnd < U32
    /\ None \notin Nat
    /\ None \notin Clients

VARIABLES
    set_bits,     \* g_pmm_info.memory_map_array: the bits that are 1
    used_blocks,  \* g_pmm_info.used_blocks, a uint32
    heap,         \* kmain's start, an address, or None
    held,         \* the address each client was given last, or None
    size_of,      \* how many frames that allocation has
    phase         \* how far kmain is

vars == <<set_bits, used_blocks, heap, held, size_of, phase>>

----------------------------------------------------------------------------
(* a uint32 that is not reduced *)
WrapMissing(n) == n

(* uint32 arithmetic; operands are at most one modulus apart *)
Wrap(n) == IF n < 0 THEN n + U32 ELSE IF n >= U32 THEN n - U32 ELSE n

(* g_pmm_info.max_blocks - g_pmm_info.used_blocks *)
Available == Wrap(MaxBlocks - used_blocks)

FreeBits == Bits \ set_bits

Least(S) == CHOOSE x \in S : \A y \in S : x <= y

(* the first 0 bit *)
FirstFree(free) == IF free = {} THEN None ELSE Least(free)

(***************************************************************************)
(* The scan of pmm_mmap_first_free_by_size that starts at the free bit a   *)
(* counts the free bits of a's word from a on, and the count goes on into  *)
(* the scan that starts at the next free bit: `free' is never reset.       *)
(* Scanned(free, b) holds one pair, a scan's start and a bit it counted,   *)
(* for every increment up to and including b's scan; the first scan to     *)
(* bring the count to size decides.                                        *)
(***************************************************************************)
Scanned(free, b) ==
    {p \in free \X free :
        p[1] <= b /\ p[2] >= p[1] /\ p[2] \div WordBits = p[1] \div WordBits}

FirstFreeBySize(free, size) ==
    IF size = 0 THEN None
    ELSE IF size = 1 THEN FirstFree(free)
    ELSE FirstFree({b \in free : Cardinality(Scanned(free, b)) >= size})

Frames(f, n) == f .. f + n - 1

(* the bits the loops `while (blocks >= 0)' touch for a region of n frames *)
Touched(n) == Base .. Base + n

(* the pointer returned for the frame f, and the frame a pointer to free means *)
Address(f) == IF f = None THEN None ELSE Wrap(f * BlockSize + MapEnd)
FrameOf(p) == Wrap(p - MapEnd) \div BlockSize

----------------------------------------------------------------------------
(* Before pmm_init nothing is meaningful; pmm_init marks everything used. *)
Init ==
    /\ set_bits = Bits
    /\ used_blocks = MaxBlocks
    /\ heap = None
    /\ held = [c \in Clients |-> None]
    /\ size_of = [c \in Clients |-> 0]
    /\ phase = "init"

InitRegion ==
    /\ phase = "init"
    /\ set_bits' = set_bits \ Touched(MaxBlocks)
    /\ used_blocks' = Wrap(used_blocks - (MaxBlocks + 1))
    /\ phase' = "region"
    /\ UNCHANGED <<heap, held, size_of>>

(* what pmm_alloc_blocks(n) returns *)
AllocBlocksResult(n) ==
    IF Available <= n THEN None ELSE FirstFreeBySize(FreeBits, n)

(* an allocation that forgets pmm_mmap_set, and one that forgets the count *)
TakeFramesUnmarked(f, n) ==
    /\ set_bits' = set_bits
    /\ used_blocks' = IF f = None THEN used_blocks ELSE Wrap(used_blocks + n)

TakeFramesUncounted(f, n) ==
    /\ set_bits' = IF f = None THEN set_bits ELSE set_bits \cup Frames(f, n)
    /\ used_blocks' = used_blocks

(* the bits and the count after pmm_alloc_blocks(n) returned the frame f *)
TakeFrames(f, n) ==
    IF f = None
    THEN UNCHANGED <<set_bits, used_blocks>>
    ELSE /\ set_bits' = set_bits \cup Frames(f, n)
         /\ used_blocks' = Wrap(used_blocks + n)

(* kmain's pmm_alloc_blocks(initialHeapSize / PMM_BLOCK_SIZE), unchecked *)
AllocHeap ==
    /\ phase = "region"
    /\ LET f == AllocBlocksResult(HeapBlocks)
       IN  /\ TakeFrames(f, HeapBlocks)
           /\ heap' = Address(f)
    /\ phase' = "ready"
    /\ UNCHANGED <<held, size_of>>

AllocBlock(c) ==
    /\ phase = "ready"
    /\ held[c] = None
    /\ LET f == IF Available <= 0 THEN None ELSE FirstFree(FreeBits)
       IN  /\ TakeFrames(f, 1)
           /\ held' = [held EXCEPT ![c] = Address(f)]
           /\ size_of' = [size_of EXCEPT ![c] = 1]
    /\ UNCHANGED <<heap, phase>>

AllocBlocks(c, n) ==
    /\ phase = "ready"
    /\ held[c] = None
    /\ LET f == AllocBlocksResult(n)
       IN  /\ TakeFrames(f, n)
           /\ held' = [held EXCEPT ![c] = Address(f)]
           /\ size_of' = [size_of EXCEPT ![c] = n]
    /\ UNCHANGED <<heap, phase>>

(* a loop that frees one frame too few *)
GiveFramesShort(f, n) ==
    /\ set_bits' = set_bits \ Frames(f, n - 1)
    /\ used_blocks' = Wrap(used_blocks - n)

(* the bits and the count after pmm_free_blocks(f, n) *)
GiveFrames(f, n) ==
    /\ set_bits' = set_bits \ Frames(f, n)
    /\ used_blocks' = Wrap(used_blocks - n)

(* pmm_free_block and pmm_free_blocks: a client frees what it holds *)
FreeBlock(c) ==
    /\ phase = "ready"
    /\ held[c] # None
    /\ size_of[c] = 1
    /\ GiveFrames(FrameOf(held[c]), 1)
    /\ held' = [held EXCEPT ![c] = None]
    /\ UNCHANGED <<heap, size_of, phase>>

FreeBlocks(c) ==
    /\ phase = "ready"
    /\ held[c] # None
    /\ GiveFrames(FrameOf(held[c]), size_of[c])
    /\ held' = [held EXCEPT ![c] = None]
    /\ UNCHANGED <<heap, size_of, phase>>

(***************************************************************************)
(* The end of kmain: pmm_free_blocks(start, 256), whether or not start is  *)
(* NULL, then pmm_deinit_region(available.start_addr, 256 frames), which   *)
(* again does one frame more.                                              *)
(***************************************************************************)
FreeHeap ==
    /\ phase = "ready"
    /\ GiveFrames(FrameOf(IF heap = None THEN 0 ELSE heap), ReturnedBlocks)
    /\ phase' = "freed"
    /\ UNCHANGED <<heap, held, size_of>>

DeinitRegion ==
    /\ phase = "freed"
    /\ set_bits' = set_bits \cup Touched(ReturnedBlocks)
    /\ used_blocks' = Wrap(used_blocks + ReturnedBlocks + 1)
    /\ phase' = "done"
    /\ UNCHANGED <<heap, held, size_of>>

Next ==
    \/ InitRegion
    \/ AllocHeap
    \/ \E c \in Clients :
          \/ AllocBlock(c)
          \/ FreeBlock(c)
          \/ FreeBlocks(c)
          \/ \E n \in Sizes : AllocBlocks(c, n)
    \/ FreeHeap
    \/ DeinitRegion

Spec == Init /\ [][Next]_vars

----------------------------------------------------------------------------
(* The variables stay in their ranges: in particular every bit that is set *)
(* is a bit of the array pmm_init sized (pmm.c:92-102).  Bits that are     *)
(* cleared outside the array (kmain frees NULL) are not modelled.          *)
TypeOK ==
    /\ set_bits \subseteq Bits
    /\ used_blocks \in 0 .. U32 - 1
    /\ heap \in 0 .. U32 - 1 \cup {None}
    /\ held \in [Clients -> 0 .. U32 - 1 \cup {None}]
    /\ size_of \in [Clients -> Nat]
    /\ phase \in {"init", "region", "ready", "freed", "done"}

(* the frames of the available memory that kmain hands to pmm_init_region *)
Region == Base .. Base + MaxBlocks - 1

FramesOf(c) == IF held[c] = None THEN {} ELSE Frames(FrameOf(held[c]), size_of[c])
HeapFrames == IF heap = None THEN {} ELSE Frames(FrameOf(heap), HeapBlocks)
HandedOut == HeapFrames \cup UNION {FramesOf(c) : c \in Clients}

(* No frame belongs to two holders, the heap included, whatever was        *)
(* allocated and freed before: pmm_alloc_block never hands out a frame     *)
(* that pmm_alloc_blocks or an earlier call handed out (pmm.c:140-192).    *)
NoSharedFrame ==
    phase = "ready" =>
        \A c \in Clients :
            /\ FramesOf(c) \cap HeapFrames = {}
            /\ \A d \in Clients \ {c} : FramesOf(c) \cap FramesOf(d) = {}

(* The bitmap says exactly who holds what.  Of the frames that             *)
(* pmm_init_region has cleared, which are the region's and the one behind  *)
(* it, a bit is set if and only if a holder has the frame (no frame leaks  *)
(* and none is reported free while held); all other bits stay set.         *)
BitmapExact ==
    phase = "ready" => set_bits = (Bits \ Touched(MaxBlocks)) \cup HandedOut

(* The unsigned difference max_blocks - used_blocks, which every           *)
(* out-of-memory test uses, is the number of clear bits, although          *)
(* used_blocks itself has wrapped below 0 (pmm.c:107-119, 142, 177).       *)
CountExact ==
    phase \in {"init", "region", "ready"} => Available = Cardinality(FreeBits)

(* pmm_alloc_blocks returns frames that were free: "find first free number *)
(* of frames(size) and return its index" (pmm.c:48).                       *)
RangeWasFree ==
    [][\A c \in Clients : held[c] = None /\ held'[c] # None =>
            Frames(FrameOf(held'[c]), size_of'[c]) \subseteq FreeBits]_vars

(* Only frames of the region are handed out: pmm_init_region is to "make   *)
(* free the blocks associated with given address base to mark that region  *)
(* as free" (pmm.c:111), and no others.                                    *)
RegionOnly == phase = "ready" => HandedOut \subseteq Region
=============================================================================
