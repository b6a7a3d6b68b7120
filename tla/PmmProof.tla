------------------------------ MODULE PmmProof ------------------------------
(***************************************************************************)
(* What kernel/memory/pmm.c guarantees clients of single frames, for every *)
(* size of memory, region, heap and set of clients.                        *)
(***************************************************************************)
EXTENDS Pmm, FiniteSetTheorems, WellFoundedInduction, TLAPS

LEMMA NatLess == IsWellFoundedOn({ss \in Nat \X Nat : ss[1] < ss[2]}, Nat)
  BY NatLessThanWellFounded DEF OpToRel

LEMMA LeastOfNats ==
    ASSUME NEW S \in SUBSET Nat, S # {}
    PROVE  Least(S) \in S /\ \A y \in S : Least(S) <= y
<1> DEFINE R == {ss \in Nat \X Nat : ss[1] < ss[2]}
<1>1. PICK x \in S : \A y \in S : ~ (<<y, x>> \in R)
  BY NatLess, WFMin
<1>2. ASSUME NEW y \in S
      PROVE  x <= y
  <2>1. <<y, x>> \in Nat \X Nat /\ ~ (<<y, x>> \in R)
    BY <1>1
  <2>2. ~ (y < x)
    BY <2>1
  <2> QED
    BY <2>2
<1> QED
  BY <1>2 DEF Least

(* the frames pmm_init_region clears *)
Cleared == Touched(MaxBlocks)

LEMMA BitsFacts ==
    ASSUME PmmConstants
    PROVE  /\ WordBits * MaxBlocks \in Nat
           /\ Bits \subseteq Nat
           /\ IsFiniteSet(Bits)
           /\ Cleared \subseteq Bits
           /\ MaxBlocks \in 0 .. U32 - 1
           /\ MaxBlocks + 1 \in 0 .. U32 - 1
           /\ \A S \in SUBSET Bits : /\ IsFiniteSet(S)
                                     /\ Cardinality(S) \in 0 .. U32 - 1
<1>1. WordBits * MaxBlocks \in Nat
  BY DEF PmmConstants
<1>2. Bits \subseteq Nat /\ IsFiniteSet(Bits) /\ Cardinality(Bits) = WordBits * MaxBlocks
  BY <1>1, FS_Interval DEF Bits
<1>3. Cleared \subseteq Bits
  BY <1>1 DEF PmmConstants, Bits, Cleared, Touched
<1>4. MaxBlocks \in 0 .. U32 - 1 /\ MaxBlocks + 1 \in 0 .. U32 - 1
  BY <1>1 DEF PmmConstants
<1>5. ASSUME NEW S \in SUBSET Bits
      PROVE  IsFiniteSet(S) /\ Cardinality(S) \in 0 .. U32 - 1
  <2>1. IsFiniteSet(S) /\ Cardinality(S) <= Cardinality(Bits)
    BY <1>2, FS_Subset
  <2>2. Cardinality(S) \in Nat
    BY <2>1, FS_CardinalityType
  <2> QED
    BY <1>1, <1>2, <2>1, <2>2 DEF PmmConstants
<1> QED
  BY <1>1, <1>2, <1>3, <1>4, <1>5

LEMMA FramesFacts ==
    ASSUME NEW f \in Nat, NEW n \in Nat
    PROVE  Cardinality(Frames(f, n)) = n /\ Frames(f, 1) = {f}
<1>1. Cardinality(Frames(f, n)) = IF f > f + n - 1 THEN 0 ELSE (f + n - 1) - f + 1
  <2>1. f \in Int /\ f + n - 1 \in Int
    OBVIOUS
  <2> QED
    BY <2>1, FS_Interval DEF Frames
<1>2. Frames(f, 1) = {f}
  BY DEF Frames
<1> QED
  BY <1>1, <1>2

(* Division undoes multiplication, and a product grows with its factor. *)
LEMMA DivideBack ==
    ASSUME NEW b \in Nat \ {0}, NEW f \in Nat
    PROVE  (f * b) \div b = f
  OBVIOUS

LEMMA TimesGrows ==
    ASSUME NEW b \in Nat, NEW f \in Nat, NEW g \in Nat, f <= g
    PROVE  f * b \in Nat /\ g * b \in Nat /\ f * b <= g * b
<1>1. PICK d \in Nat : g = f + d
  <2>1. g - f \in Nat /\ g = f + (g - f)
    OBVIOUS
  <2> QED
    BY <2>1
<1>2. g * b = f * b + d * b /\ d * b \in Nat /\ f * b \in Nat
  BY <1>1
<1> QED
  BY <1>2

(* The pointer handed out for a cleared frame is a uint32 that means this  *)
(* frame when it is given back (pmm.c:152, 164-165).                       *)
LEMMA AddressFacts ==
    ASSUME PmmConstants, NEW f \in Cleared
    PROVE  /\ Address(f) \in 0 .. U32 - 1
           /\ Address(f) # None
           /\ FrameOf(Address(f)) = f
<1>1. f \in Nat /\ f <= Base + MaxBlocks /\ f # None /\ Base + MaxBlocks \in Nat
  BY DEF PmmConstants, Cleared, Touched
<1>2. f * BlockSize \in Nat /\ f * BlockSize <= (Base + MaxBlocks) * BlockSize
      /\ (Base + MaxBlocks) * BlockSize \in Nat
  BY <1>1, TimesGrows DEF PmmConstants
<1>3. f * BlockSize + MapEnd \in 0 .. U32 - 1
  BY <1>2 DEF PmmConstants
<1>4. Address(f) = f * BlockSize + MapEnd
  BY <1>1, <1>3 DEF Address, Wrap, PmmConstants
<1>5. FrameOf(Address(f)) = (f * BlockSize) \div BlockSize
  <2> DEFINE x == f * BlockSize
  <2>1. x \in Nat /\ x + MapEnd < U32 /\ MapEnd \in Nat /\ U32 \in Nat
    BY <1>2, <1>3 DEF PmmConstants
  <2> HIDE DEF x
  <2>2. Wrap((x + MapEnd) - MapEnd) = x
    BY <2>1 DEF Wrap
  <2> QED
    BY <1>4, <2>2 DEF FrameOf, x
<1>6. FrameOf(Address(f)) = f
  BY <1>1, <1>5, DivideBack DEF PmmConstants
<1> QED
  BY <1>3, <1>4, <1>6 DEF PmmConstants

(* Taking k of n available frames, in unsigned arithmetic. *)
LEMMA WrapTake ==
    ASSUME PmmConstants,
           NEW u \in 0 .. U32 - 1, NEW n \in 0 .. U32 - 1, NEW k \in 0 .. n,
           MaxBlocks \in 0 .. U32 - 1,
           Wrap(MaxBlocks - u) = n
    PROVE  /\ Wrap(u + k) \in 0 .. U32 - 1
           /\ Wrap(MaxBlocks - Wrap(u + k)) = n - k
  BY DEF PmmConstants, Wrap

(* Giving k frames back when the total stays below the modulus. *)
LEMMA WrapGive ==
    ASSUME PmmConstants,
           NEW u \in 0 .. U32 - 1, NEW n \in 0 .. U32 - 1, NEW k \in 0 .. U32 - 1,
           MaxBlocks \in 0 .. U32 - 1, n + k < U32,
           Wrap(MaxBlocks - u) = n
    PROVE  /\ Wrap(u - k) \in 0 .. U32 - 1
           /\ Wrap(MaxBlocks - Wrap(u - k)) = n + k
  BY DEF PmmConstants, Wrap

(* The searches of pmm.c:31-80 return a 0 bit of the bitmap, or fail. *)
LEMMA FirstFreeIsFree ==
    ASSUME PmmConstants, NEW free \in SUBSET Bits
    PROVE  FirstFree(free) \in free \cup {None}
  BY LeastOfNats, BitsFacts DEF FirstFree

LEMMA FirstFreeBySizeIsFree ==
    ASSUME PmmConstants, NEW free \in SUBSET Bits, NEW n \in Nat
    PROVE  FirstFreeBySize(free, n) \in free \cup {None}
<1> DEFINE enough == {b \in free : Cardinality(Scanned(free, b)) >= n}
<1>1. enough \in SUBSET Bits
  OBVIOUS
<1>2. FirstFree(enough) \in enough \cup {None}
  BY <1>1, FirstFreeIsFree
<1>3. FirstFree(free) \in free \cup {None}
  BY FirstFreeIsFree
<1> QED
  BY <1>2, <1>3 DEF FirstFreeBySize


----------------------------------------------------------------------------
(* Clients ask for single frames, and the heap's range is free at boot. *)
SingleFrames == Sizes \subseteq {0, 1}
HeapRangeFree ==
    LET s == FirstFreeBySize(Cleared, HeapBlocks)
    IN  s # None => Frames(s, HeapBlocks) \subseteq Cleared

NothingHeld == heap = None /\ held = [c \in Clients |-> None]

(* client c holds the frame b *)
Has(c, b) == held[c] # None /\ FrameOf(held[c]) = b

(* The bitmap and the holders, bit by bit. *)
ReadyInv ==
    /\ HeapFrames \subseteq Cleared
    /\ \A c \in Clients : held[c] # None =>
            /\ FrameOf(held[c]) \in Cleared \ HeapFrames
            /\ size_of[c] = 1
            /\ \A d \in Clients \ {c} : ~ Has(d, FrameOf(held[c]))
    /\ \A b \in Bits : b \in set_bits <=>
            \/ b \notin Cleared
            \/ b \in HeapFrames
            \/ \E c \in Clients : Has(c, b)

IInv ==
    /\ TypeOK
    /\ phase = "init" => set_bits = Bits /\ NothingHeld
    /\ phase = "region" => set_bits = Bits \ Cleared /\ NothingHeld
    /\ phase = "ready" => ReadyInv
    /\ CountExact

USE PmmConstants

LEMMA InitIInv == Init => IInv
<1> SUFFICES ASSUME Init PROVE IInv
  OBVIOUS
<1>1. TypeOK
  BY BitsFacts DEF Init, TypeOK
<1>2. FreeBits = {}
  BY DEF Init, FreeBits
<1>3. Available = Cardinality(FreeBits)
  BY <1>2, BitsFacts, FS_EmptySet DEF Init, Available, Wrap
<1> QED
  BY <1>1, <1>3 DEF Init, IInv, NothingHeld, CountExact

LEMMA InitRegionStep == IInv /\ InitRegion => IInv'
<1> SUFFICES ASSUME IInv, InitRegion PROVE IInv'
  OBVIOUS
<1>1. /\ set_bits = Bits
      /\ used_blocks = MaxBlocks
  <2>1. set_bits = Bits /\ Available = Cardinality(FreeBits) /\ FreeBits = {}
    BY DEF IInv, InitRegion, CountExact, FreeBits
  <2>2. Available = 0 /\ used_blocks \in 0 .. U32 - 1
    BY <2>1, FS_EmptySet DEF IInv, TypeOK
  <2> QED
    BY <2>1, <2>2, BitsFacts DEF Available, Wrap
<1>2. FreeBits' = Cleared
  BY <1>1, BitsFacts DEF InitRegion, FreeBits, Cleared, Touched
<1>3. Cardinality(Cleared) = MaxBlocks + 1
  BY FS_Interval DEF Cleared, Touched, PmmConstants
<1>4. /\ used_blocks' \in 0 .. U32 - 1
      /\ Available' = MaxBlocks + 1
  BY <1>1, BitsFacts DEF InitRegion, Available, Wrap
<1>5. TypeOK'
  BY <1>4 DEF IInv, TypeOK, InitRegion
<1> QED
  BY <1>1, <1>2, <1>3, <1>4, <1>5
     DEF IInv, InitRegion, CountExact, NothingHeld, Cleared, Touched

LEMMA AllocHeapStep == HeapRangeFree /\ IInv /\ AllocHeap => IInv'
<1> SUFFICES ASSUME HeapRangeFree, IInv, AllocHeap PROVE IInv'
  OBVIOUS
<1>1. FreeBits = Cleared
  BY BitsFacts DEF IInv, AllocHeap, FreeBits
<1>2. Available = Cardinality(Cleared) /\ Available \in 0 .. U32 - 1
  BY <1>1, BitsFacts DEF IInv, AllocHeap, CountExact
<1>3. HeapBlocks \in Nat /\ used_blocks \in 0 .. U32 - 1
  BY DEF PmmConstants, IInv, TypeOK
<1> DEFINE f == AllocBlocksResult(HeapBlocks)
<1>4. CASE f = None
  <2>0. heap' = None
    BY <1>4 DEF AllocHeap, Address
  <2>1. UNCHANGED <<set_bits, used_blocks, held, size_of>> /\ phase' = "ready"
    BY <1>4 DEF AllocHeap, TakeFrames
  <2>2. TypeOK'
    BY <2>0, <2>1 DEF IInv, TypeOK
  <2>3. FreeBits' = FreeBits /\ Available' = Available
    BY <2>1 DEF FreeBits, Available
  <2>4. ReadyInv'
    BY <2>0, <2>1 DEF Has, IInv, AllocHeap, ReadyInv, HeapFrames, NothingHeld, PmmConstants, Bits
  <2> QED
    BY <1>1, <1>2, <2>1, <2>2, <2>3, <2>4 DEF IInv, CountExact
<1>5. CASE f # None
  <2>1. /\ f = FirstFreeBySize(Cleared, HeapBlocks)
        /\ ~ (Available <= HeapBlocks)
    BY <1>1, <1>5 DEF AllocHeap, AllocBlocksResult
  <2>2. f \in Cleared
    BY <1>3, <1>5, <2>1, FirstFreeBySizeIsFree, BitsFacts
  <2>3. Frames(f, HeapBlocks) \subseteq Cleared
    BY <1>5, <2>1 DEF HeapRangeFree
  <2> HIDE DEF f
  <2>4. /\ heap' = Address(f) /\ heap' \in 0 .. U32 - 1
        /\ HeapFrames' = Frames(f, HeapBlocks)
    BY <1>5, <2>2, AddressFacts DEF AllocHeap, HeapFrames, f
  <2>5. /\ set_bits' = set_bits \cup Frames(f, HeapBlocks)
        /\ used_blocks' = Wrap(used_blocks + HeapBlocks)
        /\ phase' = "ready"
        /\ UNCHANGED <<held, size_of>>
    BY <1>5 DEF AllocHeap, TakeFrames, f
  <2>6. HeapBlocks \in 0 .. Available
    BY <1>2, <1>3, <2>1
  <2>7. /\ used_blocks' \in 0 .. U32 - 1
        /\ Available' = Available - HeapBlocks
    BY <1>2, <1>3, <2>5, <2>6, WrapTake, BitsFacts DEF Available
  <2>8. Cardinality(Frames(f, HeapBlocks)) = HeapBlocks
    BY <1>3, <2>2, FramesFacts, BitsFacts
  <2>9. /\ FreeBits' = Cleared \ Frames(f, HeapBlocks)
        /\ Cleared \cap Frames(f, HeapBlocks) = Frames(f, HeapBlocks)
    BY <1>1, <2>3, <2>5 DEF FreeBits
  <2>10. Cardinality(FreeBits') = Available - HeapBlocks
    BY <1>2, <2>8, <2>9, FS_Difference, BitsFacts
  <2>11. TypeOK'
    BY <2>3, <2>4, <2>5, <2>7, BitsFacts DEF IInv, TypeOK
  <2>12. ReadyInv'
    BY <2>3, <2>4, <2>5 DEF Has, IInv, AllocHeap, ReadyInv, NothingHeld, PmmConstants, Bits, Cleared, Touched
  <2> QED
    BY <2>5, <2>7, <2>10, <2>11, <2>12 DEF IInv, CountExact
<1> QED
  BY <1>4, <1>5

(* A client takes one frame f, or gets nothing. *)
LEMMA TakeOne ==
    ASSUME IInv, phase = "ready", NEW c \in Clients, held[c] = None,
           NEW f \in FreeBits \cup {None}, f # None => Available >= 1,
           NEW n \in Nat, f # None => n = 1,
           TakeFrames(f, n), held' = [held EXCEPT ![c] = Address(f)],
           size_of' = [size_of EXCEPT ![c] = n], UNCHANGED <<heap, phase>>
    PROVE  IInv'
<1>1. CASE f = None
  <2>1. UNCHANGED <<set_bits, used_blocks, heap, phase>> /\ held' = held
    BY <1>1 DEF TakeFrames, Address, IInv, TypeOK
  <2>2. FreeBits' = FreeBits /\ Available' = Available /\ HeapFrames' = HeapFrames
    BY <2>1 DEF FreeBits, Available, HeapFrames
  <2>3. TypeOK'
    BY <2>1 DEF IInv, TypeOK
  <2>4. ReadyInv'
    BY <1>1, <2>1, <2>2 DEF IInv, TypeOK, ReadyInv, Has
  <2> QED
    BY <2>1, <2>2, <2>3, <2>4 DEF IInv, CountExact
<1>2. CASE f # None
  <2>1. /\ f \in Bits /\ f \notin set_bits /\ f \in Nat /\ n = 1
        /\ Frames(f, n) = {f}
    BY <1>2, BitsFacts DEF FreeBits, Frames
  <2>2. set_bits' = set_bits \cup {f} /\ used_blocks' = Wrap(used_blocks + 1)
    BY <1>2, <2>1 DEF TakeFrames
  <2>3. FreeBits' = FreeBits \ {f} /\ f \in FreeBits
    BY <2>1, <2>2 DEF FreeBits
  <2>4. /\ Available = Cardinality(FreeBits)
        /\ Available \in 1 .. U32 - 1
        /\ used_blocks \in 0 .. U32 - 1
    <3>1. FreeBits \in SUBSET Bits
      BY DEF FreeBits
    <3> QED
      BY <1>2, <3>1, BitsFacts DEF IInv, TypeOK, CountExact
  <2>5. used_blocks' \in 0 .. U32 - 1 /\ Available' = Available - 1
    BY <2>2, <2>4, WrapTake, BitsFacts DEF Available
  <2>6. Cardinality(FreeBits') = Available - 1
    <3>1. IsFiniteSet(FreeBits)
      BY BitsFacts DEF FreeBits
    <3> QED
      BY <2>3, <2>4, <3>1, FS_RemoveElement
  <2>8. HeapFrames' = HeapFrames
    BY DEF HeapFrames
  <2>9. f \in Cleared \ HeapFrames /\ \A d \in Clients : ~ Has(d, f)
    BY <2>1 DEF IInv, ReadyInv
  <2>a. Address(f) \in 0 .. U32 - 1 /\ Address(f) # None /\ FrameOf(Address(f)) = f
    BY <2>9, AddressFacts
  <2>7. TypeOK'
    BY <2>1, <2>2, <2>5, <2>a DEF IInv, TypeOK
  <2>10. ReadyInv'
    <3>1. /\ held'[c] = Address(f) /\ size_of'[c] = 1
          /\ \A d \in Clients \ {c} : held'[d] = held[d] /\ size_of'[d] = size_of[d]
      BY <2>1 DEF IInv, TypeOK
    <3>2. ReadyInv
      BY DEF IInv
    <3>0. /\ \A b : Has(c, b)' <=> b = f
          /\ \A d \in Clients \ {c} : \A b : Has(d, b)' <=> Has(d, b)
          /\ \A b : ~ Has(c, b)
      BY <2>a, <3>1 DEF Has
    <3>3. \A e \in Clients : held'[e] # None =>
            /\ FrameOf(held'[e]) \in Cleared \ HeapFrames
            /\ size_of'[e] = 1
            /\ \A d \in Clients \ {e} : ~ Has(d, FrameOf(held[e]))'
      <4> SUFFICES ASSUME NEW e \in Clients, held'[e] # None
                   PROVE  /\ FrameOf(held'[e]) \in Cleared \ HeapFrames
                          /\ size_of'[e] = 1
                          /\ \A d \in Clients \ {e} : ~ Has(d, FrameOf(held[e]))'
        OBVIOUS
      <4>1. CASE e = c
        BY <2>9, <2>a, <3>0, <3>1, <4>1
      <4>2. CASE e # c
        <5>1. Has(e, FrameOf(held[e])) /\ held'[e] = held[e] /\ held[e] # None
          BY <3>1, <4>2 DEF Has
        <5>2. FrameOf(held[e]) # f
          BY <2>9, <5>1
        <5> QED
          BY <3>0, <3>1, <3>2, <4>2, <5>1, <5>2 DEF ReadyInv
      <4> QED
        BY <4>1, <4>2
    <3>4. \A b \in Bits : b \in set_bits' <=>
            b \notin Cleared \/ b \in HeapFrames \/ \E e \in Clients : Has(e, b)'
      <4> SUFFICES ASSUME NEW b \in Bits
                   PROVE  b \in set_bits' <=>
                            b \notin Cleared \/ b \in HeapFrames \/ \E e \in Clients : Has(e, b)'
        OBVIOUS
      <4>1. b \in set_bits' <=> b \in set_bits \/ b = f
        BY <2>2
      <4>2. b \in set_bits <=>
              b \notin Cleared \/ b \in HeapFrames \/ \E e \in Clients : Has(e, b)
        BY <3>2 DEF ReadyInv
      <4>4. (\E e \in Clients : Has(e, b)') <=> (\E e \in Clients : Has(e, b)) \/ b = f
        BY <3>0
      <4> QED
        BY <4>1, <4>2, <4>4
    <3> QED
      BY <2>8, <3>2, <3>3, <3>4 DEF ReadyInv
  <2> QED
    BY <2>5, <2>6, <2>7, <2>10 DEF IInv, CountExact
<1> QED
  BY <1>1, <1>2

(* A client gives back the one frame it holds. *)
LEMMA GiveOne ==
    ASSUME IInv, phase = "ready", NEW c \in Clients, held[c] # None,
           GiveFrames(FrameOf(held[c]), 1), held' = [held EXCEPT ![c] = None],
           UNCHANGED <<heap, size_of, phase>>
    PROVE  IInv'
<1> DEFINE f == FrameOf(held[c])
<1>1. f \in Cleared \ HeapFrames /\ f \in Bits /\ f \in Nat /\ f \in set_bits
  BY BitsFacts DEF IInv, ReadyInv, Has
<1>2. set_bits' = set_bits \ {f} /\ used_blocks' = Wrap(used_blocks - 1)
  BY <1>1 DEF GiveFrames, Frames
<1>3. FreeBits' = FreeBits \cup {f} /\ f \notin FreeBits /\ FreeBits \subseteq Bits
  BY <1>1, <1>2 DEF FreeBits
<1>4. /\ Available = Cardinality(FreeBits)
      /\ Available \in 0 .. U32 - 1
      /\ used_blocks \in 0 .. U32 - 1
      /\ IsFiniteSet(FreeBits)
  BY <1>3, BitsFacts DEF IInv, TypeOK, CountExact
<1>5. Cardinality(FreeBits') = Available + 1
  BY <1>3, <1>4, FS_AddElement
<1>6. Available + 1 < U32
  <2>1. FreeBits' \in SUBSET Bits
    BY <1>1, <1>3
  <2>2. Cardinality(FreeBits') \in 0 .. U32 - 1
    BY <2>1, BitsFacts
  <2> QED
    BY <1>4, <1>5, <2>2 DEF PmmConstants
<1>7. used_blocks' \in 0 .. U32 - 1 /\ Available' = Available + 1
  BY <1>2, <1>4, <1>6, WrapGive, BitsFacts DEF Available
<1>8. TypeOK'
  BY <1>2, <1>7 DEF IInv, TypeOK
<1>9. ReadyInv'
  <2>1. held'[c] = None /\ \A d \in Clients \ {c} : held'[d] = held[d]
    BY DEF IInv, TypeOK
  <2>2. HeapFrames' = HeapFrames
    BY DEF HeapFrames
  <2>3. /\ \A b : ~ Has(c, b)'
        /\ \A d \in Clients \ {c} : \A b : Has(d, b)' <=> Has(d, b)
        /\ \A b : Has(c, b) <=> b = f
        /\ \A d \in Clients \ {c} : ~ Has(d, f)
    BY <2>1 DEF IInv, ReadyInv, Has
  <2>4. \A e \in Clients : held'[e] # None =>
            /\ FrameOf(held'[e]) \in Cleared \ HeapFrames
            /\ size_of'[e] = 1
            /\ \A d \in Clients \ {e} : ~ Has(d, FrameOf(held[e]))'
    BY <2>1, <2>3 DEF IInv, ReadyInv
  <2>5. \A b \in Bits : b \in set_bits' <=>
            b \notin Cleared \/ b \in HeapFrames \/ \E e \in Clients : Has(e, b)'
    BY <1>1, <1>2, <2>3 DEF IInv, ReadyInv
  <2> QED
    BY <2>2, <2>4, <2>5 DEF IInv, ReadyInv
<1> QED
  BY <1>5, <1>7, <1>8, <1>9 DEF IInv, CountExact

LEMMA NextIInv == SingleFrames /\ HeapRangeFree /\ IInv /\ [Next]_vars => IInv'
<1> SUFFICES ASSUME SingleFrames, HeapRangeFree, IInv, [Next]_vars PROVE IInv'
  OBVIOUS
<1> USE DEF IInv
<1>0. FreeBits \in SUBSET Bits
  BY DEF FreeBits
<1>1. CASE InitRegion
  BY <1>1, InitRegionStep
<1>2. CASE AllocHeap
  BY <1>2, AllocHeapStep
<1>3. ASSUME NEW c \in Clients, AllocBlock(c)
      PROVE  IInv'
  <2> DEFINE f == IF Available <= 0 THEN None ELSE FirstFree(FreeBits)
  <2>1. f \in FreeBits \cup {None}
    BY <1>0, FirstFreeIsFree
  <2>2. f # None => Available >= 1
    BY <1>0, <1>3, BitsFacts DEF AllocBlock, CountExact
  <2> HIDE DEF f
  <2>3. /\ phase = "ready" /\ held[c] = None /\ TakeFrames(f, 1)
        /\ held' = [held EXCEPT ![c] = Address(f)] /\ size_of' = [size_of EXCEPT ![c] = 1]
        /\ UNCHANGED <<heap, phase>>
    BY <1>3 DEF AllocBlock, f
  <2> QED
    BY <2>1, <2>2, <2>3, TakeOne
<1>4. ASSUME NEW c \in Clients, NEW n \in Sizes, AllocBlocks(c, n)
      PROVE  IInv'
  <2> DEFINE f == AllocBlocksResult(n)
  <2>1. n \in Nat /\ (f # None => n = 1 /\ Available >= 1)
    <3>1. n \in {0, 1}
      BY DEF SingleFrames
    <3>2. Available \in 0 .. U32 - 1
      BY <1>0, <1>4, BitsFacts DEF AllocBlocks, CountExact
    <3> QED
      BY <3>1, <3>2 DEF AllocBlocksResult, FirstFreeBySize
  <2>2. f \in FreeBits \cup {None}
    BY <1>0, <2>1, FirstFreeBySizeIsFree DEF AllocBlocksResult
  <2> HIDE DEF f
  <2>3. /\ phase = "ready" /\ held[c] = None /\ TakeFrames(f, n)
        /\ held' = [held EXCEPT ![c] = Address(f)] /\ size_of' = [size_of EXCEPT ![c] = n]
        /\ UNCHANGED <<heap, phase>>
    BY <1>4 DEF AllocBlocks, f
  <2> QED
    BY <2>1, <2>2, <2>3, TakeOne
<1>5. ASSUME NEW c \in Clients, FreeBlock(c) \/ FreeBlocks(c)
      PROVE  IInv'
  <2>1. size_of[c] = 1
    BY <1>5 DEF FreeBlock, FreeBlocks, ReadyInv
  <2> QED
    BY <1>5, <2>1, GiveOne DEF FreeBlock, FreeBlocks
<1>6. CASE FreeHeap
  <2>1. used_blocks' \in 0 .. U32 - 1
    BY <1>6, BitsFacts DEF FreeHeap, GiveFrames, Wrap, TypeOK, PmmConstants
  <2> QED
    BY <1>6, <2>1 DEF FreeHeap, GiveFrames, TypeOK, CountExact
<1>7. CASE DeinitRegion
  <2>1. used_blocks' \in 0 .. U32 - 1
    BY <1>7, BitsFacts DEF DeinitRegion, Wrap, TypeOK, PmmConstants
  <2>2. Touched(ReturnedBlocks) \subseteq Bits
    BY BitsFacts DEF Bits, Touched, PmmConstants
  <2> QED
    BY <1>7, <2>1, <2>2 DEF DeinitRegion, TypeOK, CountExact
<1>8. CASE UNCHANGED vars
  BY <1>8 DEF vars, TypeOK, NothingHeld, ReadyInv, Has, CountExact, Available, FreeBits, HeapFrames
<1> QED
  BY <1>1, <1>2, <1>3, <1>4, <1>5, <1>6, <1>7, <1>8 DEF Next

LEMMA IInvSafe == IInv => TypeOK /\ NoSharedFrame /\ BitmapExact /\ CountExact
<1> SUFFICES ASSUME IInv PROVE TypeOK /\ NoSharedFrame /\ BitmapExact /\ CountExact
  OBVIOUS
<1>1. ASSUME phase = "ready", NEW c \in Clients
      PROVE  \A b : b \in FramesOf(c) <=> Has(c, b)
  <2>1. held[c] # None => size_of[c] = 1 /\ FrameOf(held[c]) \in Nat
    BY <1>1, BitsFacts DEF IInv, ReadyInv
  <2> QED
    BY <2>1, FramesFacts DEF FramesOf, Has
<1>2. NoSharedFrame
  BY <1>1 DEF IInv, ReadyInv, NoSharedFrame, Has
<1>3. BitmapExact
  <2> SUFFICES ASSUME phase = "ready"
               PROVE  set_bits = (Bits \ Cleared) \cup HandedOut
    BY DEF BitmapExact, Cleared
  <2>1. \A b : b \in UNION {FramesOf(c) : c \in Clients} <=> \E c \in Clients : Has(c, b)
    BY <1>1
  <2>2. /\ set_bits \subseteq Bits
        /\ HeapFrames \subseteq Bits
        /\ \A c \in Clients : \A b : Has(c, b) => b \in Bits
    BY BitsFacts DEF IInv, TypeOK, ReadyInv, Has
  <2>3. \A b \in Bits : b \in set_bits <=>
            b \notin Cleared \/ b \in HeapFrames \/ \E e \in Clients : Has(e, b)
    BY DEF IInv, ReadyInv
  <2> QED
    BY <2>1, <2>2, <2>3 DEF HandedOut
<1> QED
  BY <1>2, <1>3 DEF IInv

(* For clients that take one frame at a time, on any memory whose fresh    *)
(* bitmap has room where the heap's search lands: two holders never share  *)
(* a frame, the bitmap says exactly who holds what, and the unsigned       *)
(* difference the out-of-memory tests use is the number of free frames.    *)
THEOREM SingleFrameSafety ==
    ASSUME SingleFrames, HeapRangeFree
    PROVE  Spec => [](TypeOK /\ NoSharedFrame /\ BitmapExact /\ CountExact)
<1>1. Init => IInv
  BY InitIInv
<1>2. IInv /\ [Next]_vars => IInv'
  BY NextIInv
<1>3. IInv => TypeOK /\ NoSharedFrame /\ BitmapExact /\ CountExact
  BY IInvSafe
<1> QED
  BY <1>1, <1>2, <1>3, PTL DEF Spec

(* Two clients never hold one frame (pmm_alloc_block, pmm.c).              *)
THEOREM FramesNeverShared ==
    ASSUME SingleFrames, HeapRangeFree
    PROVE  Spec => []NoSharedFrame
<1>1. Spec => [](TypeOK /\ NoSharedFrame /\ BitmapExact /\ CountExact)
  BY SingleFrameSafety
<1> QED
  BY <1>1, PTL

(* Of the region's frames and the one behind it, which pmm_init_region     *)
(* clears too (pmm.c:112), a bit is set exactly when its frame is the      *)
(* heap's or a client's: no free is forgotten and none is done twice.  All *)
(* other bits stay set.                                                    *)
THEOREM BitmapAlwaysExact ==
    ASSUME SingleFrames, HeapRangeFree
    PROVE  Spec => []BitmapExact
<1>1. Spec => [](TypeOK /\ NoSharedFrame /\ BitmapExact /\ CountExact)
  BY SingleFrameSafety
<1> QED
  BY <1>1, PTL

(* The 32-bit counters, which wrap, differ by the number of free frames,   *)
(* so that the out-of-memory tests of pmm_alloc_block(s) are right.        *)
THEOREM CountAlwaysExact ==
    ASSUME SingleFrames, HeapRangeFree
    PROVE  Spec => []CountExact
<1>1. Spec => [](TypeOK /\ NoSharedFrame /\ BitmapExact /\ CountExact)
  BY SingleFrameSafety
<1> QED
  BY <1>1, PTL
=============================================================================
