----------------------------- MODULE KheapProof -----------------------------
(***************************************************************************)
(* The kernel heap keeps its holders apart, for every heap size, every     *)
(* sequence of calls and every set of sizes.  The argument: headers, data  *)
(* and kmain's own extent are cut from the break in order and never move   *)
(* (LayoutInv), and every held pointer lies in a block that is not free    *)
(* and in which nobody else holds anything (OwnersInv).                    *)
(***************************************************************************)
EXTENDS Kheap, WellFoundedInduction, TLAPS

N == Len(blocks)

(* Interval [a, a + m) ends before interval [b, ...) starts, or the other  *)
(* way round. *)
Apart(a, m, b, n) == a + m <= b \/ b + n <= a

(* The same with a gap in between, where the later one's header lies: what *)
(* malloc_aligned returns for a size of 0 can be the end of its block.     *)
WideApart(a, m, b, n) == a + m < b \/ b + n < a

Layout(bs, t, u, bk) ==
    /\ t = HeapSize + u
    /\ \A i \in 1 .. Len(bs) :
          /\ bs[i].hdr # Null
          /\ bs[i].hdr >= Start
          /\ bs[i].hdr + HdrSize <= Start + u
          /\ bs[i].data # Null =>
                /\ bs[i].size > 0
                /\ bs[i].hdr + HdrSize <= bs[i].data
                /\ bs[i].data + bs[i].size <= Start + u
    /\ \A i, j \in 1 .. Len(bs) : i < j =>
          /\ bs[i].hdr + HdrSize <= bs[j].hdr
          /\ bs[i].data # Null => bs[i].data + bs[i].size <= bs[j].hdr
    /\ \A b \in bk :
          /\ b.size > 0
          /\ b.addr >= Start
          /\ b.addr + b.size <= Start + u
          /\ \A i \in 1 .. Len(bs) :
                /\ Apart(b.addr, b.size, bs[i].hdr, HdrSize)
                /\ bs[i].data # Null => Apart(b.addr, b.size, bs[i].data, bs[i].size)
    /\ Len(bs) > 0 => HeapSize >= HdrSize + PtrSize

LayoutInv == Layout(blocks, total, used, brks)

(* p, n lies in block i of bs *)
In(bs, i, p, n) ==
    /\ bs[i].data # Null
    /\ bs[i].data <= p
    /\ p + n <= bs[i].data + bs[i].size

(* p, n is one of the extents in bk *)
Extent(bk, p, n) == \E b \in bk : p = b.addr /\ n = b.size

(* h's memory lies in the data of block i *)
InBlock(h, i) == In(blocks, i, own[h], asked[h])

InBrk(h) == Extent(brks, own[h], asked[h])

OwnersInv ==
    /\ \A h \in Handles : own[h] # Null =>
          \/ \E i \in 1 .. N : InBlock(h, i) /\ ~ blocks[i].is_free
          \/ InBrk(h)
    /\ \A g, h \in Handles : g # h /\ own[g] # Null /\ own[h] # Null =>
          /\ Apart(own[g], asked[g], own[h], asked[h])
          /\ \A i \in 1 .. N : ~ (InBlock(g, i) /\ InBlock(h, i))

IInv == TypeOK /\ LayoutInv /\ OwnersInv

USE KheapConstants

----------------------------------------------------------------------------
LEMMA DomainBlocks ==
    ASSUME TypeOK
    PROVE  DOMAIN blocks = 1 .. N /\ N \in Nat
  BY DEF TypeOK, N

LEMMA BlockFields ==
    ASSUME NEW bs \in Seq(Block), NEW i \in 1 .. Len(bs)
    PROVE  /\ bs[i].hdr \in Nat \cup {Null}
           /\ bs[i].size \in Nat
           /\ bs[i].is_free \in BOOLEAN
           /\ bs[i].data \in Nat \cup {Null}
<1>1. bs[i] \in Block
  OBVIOUS
<1> QED
  BY <1>1 DEF Block

(* What the layout says of data alone. *)
DataLayout(bs, u, bk) ==
    /\ \A i \in 1 .. Len(bs) : bs[i].data # Null =>
          /\ bs[i].data \in Nat
          /\ bs[i].size \in Nat \ {0}
          /\ bs[i].data + bs[i].size <= Start + u
          /\ \A j \in 1 .. Len(bs) : i # j /\ bs[j].data # Null =>
                WideApart(bs[i].data, bs[i].size, bs[j].data, bs[j].size)
          /\ \A b \in bk : Apart(b.addr, b.size, bs[i].data, bs[i].size)
    /\ \A b \in bk :
          /\ b.addr \in Nat
          /\ b.size \in Nat \ {0}
          /\ b.addr + b.size <= Start + u

LEMMA LayoutData ==
    ASSUME NEW bs \in Seq(Block), NEW t, NEW u \in Nat,
           NEW bk \in SUBSET [addr : Nat, size : Nat],
           Layout(bs, t, u, bk)
    PROVE  DataLayout(bs, u, bk)
<1>0. Start \in Nat /\ HdrSize \in Nat \ {0} /\ Len(bs) \in Nat /\ Null \notin Int
  BY DEF KheapConstants
<1>1. ASSUME NEW i \in 1 .. Len(bs), bs[i].data # Null
      PROVE  /\ bs[i].data \in Nat
             /\ bs[i].size \in Nat \ {0}
             /\ bs[i].data + bs[i].size <= Start + u
  BY <1>1, BlockFields DEF Layout
<1>2. ASSUME NEW i \in 1 .. Len(bs), NEW j \in 1 .. Len(bs), i < j,
             bs[i].data # Null, bs[j].data # Null
      PROVE  bs[i].data + bs[i].size < bs[j].data
  <2>1. bs[i].data + bs[i].size <= bs[j].hdr /\ bs[j].hdr + HdrSize <= bs[j].data
        /\ bs[j].hdr \in Nat
    BY <1>2, BlockFields DEF Layout
  <2> QED
    BY <1>0, <1>1, <1>2, <2>1
<1>3. ASSUME NEW b \in bk
      PROVE  b.addr \in Nat /\ b.size \in Nat \ {0} /\ b.addr + b.size <= Start + u
  BY DEF Layout
<1>4. ASSUME NEW b \in bk, NEW i \in 1 .. Len(bs), bs[i].data # Null
      PROVE  Apart(b.addr, b.size, bs[i].data, bs[i].size)
  BY <1>4 DEF Layout
<1>5. ASSUME NEW i \in 1 .. Len(bs), NEW j \in 1 .. Len(bs), i # j,
             bs[i].data # Null, bs[j].data # Null
      PROVE  WideApart(bs[i].data, bs[i].size, bs[j].data, bs[j].size)
  BY <1>0, <1>2, <1>5 DEF WideApart
<1> QED
  BY <1>1, <1>3, <1>4, <1>5 DEF DataLayout

(* The round-up of malloc_aligned stays within the slack it asked for. *)
LEMMA AlignUpBounds ==
    ASSUME NEW m \in Nat, NEW a \in Nat \ {0}
    PROVE  AlignUp(m, a) \in m .. m + a - 1
<1> DEFINE x == m + a - 1
           q == x \div a
<1>1. x \in Nat
  OBVIOUS
<1>2. q * a \in Nat /\ q * a <= x
  BY <1>1
<1>3. x < q * a + a
  BY <1>1
<1> HIDE DEF q
<1>4. q * a \in m .. m + a - 1
  BY <1>2, <1>3
<1> QED
  BY <1>4 DEF AlignUp, q

(* What NewBlock returns, block by block. *)
NewLayout(r, n) ==
    LET last == r.blocks[N + 1]
    IN  /\ r.blocks \in Seq(Block)
        /\ Len(r.blocks) = N + 1
        /\ \A i \in 1 .. N : r.blocks[i] = blocks[i]
        /\ last.hdr = Start + used
        /\ last.size = n
        /\ last.is_free = FALSE
        /\ last.data = r.ptr
        /\ r.total = HeapSize + r.used
        /\ \/ r.ptr = Null /\ r.used = used + HdrSize + PtrSize
           \/ /\ n > 0
              /\ r.ptr = Start + used + HdrSize + PtrSize
              /\ r.used = used + HdrSize + PtrSize + n + PtrSize

(* The header never meets an exhausted break: the free room, total - used, *)
(* is HeapSize for ever, and the first header fitted.                      *)
LEMMA NewBlockEffect ==
    ASSUME IInv, NEW n \in Nat, HeapSize >= HdrSize + PtrSize
    PROVE  NewLayout(NewBlock(n), n)
<1>1. /\ used \in Nat /\ total = HeapSize + used /\ HeapSize \in Nat
      /\ Start \in Nat /\ HdrSize \in Nat \ {0} /\ PtrSize \in Nat /\ Null \notin Int
      /\ blocks \in Seq(Block)
  BY DEF IInv, TypeOK, LayoutInv, Layout, KheapConstants
<1> DEFINE hdr  == Brk(HdrSize, total, used)
           t    == total + Moved(HdrSize, hdr)
           u    == used + Moved(HdrSize, hdr)
           data == Brk(n, t, u)
           b    == [hdr |-> hdr, size |-> n, is_free |-> FALSE, data |-> data]
           r    == NewBlock(n)
<1>2. hdr = Start + used /\ hdr # Null
  BY <1>1 DEF Brk
<1>3. t = HeapSize + used + HdrSize + PtrSize /\ u = used + HdrSize + PtrSize
  BY <1>1, <1>2 DEF Moved
<1>4. data = Null \/ (n > 0 /\ data = Start + used + HdrSize + PtrSize /\ data # Null)
  BY <1>1, <1>3 DEF Brk
<1>5. /\ r.total = t + Moved(n, data)
      /\ r.used = u + Moved(n, data)
      /\ r.blocks = Append(blocks, b)
      /\ r.ptr = data
  BY DEF NewBlock
<1>6. /\ b.hdr = hdr /\ b.size = n /\ b.is_free = FALSE /\ b.data = data
      /\ b \in Block
  <2>1. hdr \in Nat /\ data \in Nat \cup {Null}
    BY <1>1, <1>2, <1>4
  <2> QED
    BY <2>1 DEF Block
<1>7. r.total = HeapSize + r.used
  <2>1. Moved(n, data) \in Nat
    BY <1>1 DEF Moved
  <2> QED
    BY <1>1, <1>3, <1>5, <2>1
<1>8. \/ r.ptr = Null /\ r.used = used + HdrSize + PtrSize
      \/ /\ n > 0
         /\ r.ptr = Start + used + HdrSize + PtrSize
         /\ r.used = used + HdrSize + PtrSize + n + PtrSize
  BY <1>1, <1>3, <1>4, <1>5 DEF Moved
<1> HIDE DEF b, data, hdr, t, u, r
<1>9. /\ r.blocks \in Seq(Block) /\ Len(r.blocks) = N + 1
      /\ \A i \in 1 .. N : r.blocks[i] = blocks[i]
      /\ r.blocks[N + 1] = b
  BY <1>1, <1>5, <1>6 DEF N
<1> QED
  BY <1>2, <1>5, <1>6, <1>7, <1>8, <1>9 DEF NewLayout, r

----------------------------------------------------------------------------
SameExtent(b, c) == b.hdr = c.hdr /\ b.size = c.size /\ b.data = c.data

(* Freeing or reusing a block moves nothing. *)
LEMMA LayoutSame ==
    ASSUME IInv, UNCHANGED <<total, used, brks>>, N' = N,
           \A i \in 1 .. N : SameExtent(blocks'[i], blocks[i])
    PROVE  LayoutInv'
  BY DEF IInv, LayoutInv, Layout, SameExtent, N

(* A new block lies behind everything that was cut before. *)
LEMMA LayoutGrow ==
    ASSUME IInv, NEW n \in Nat, NEW r, NewLayout(r, n), HeapSize >= HdrSize + PtrSize,
           total' = r.total, used' = r.used, brks' = brks, N' = N + 1,
           \A i \in 1 .. N + 1 : SameExtent(blocks'[i], r.blocks[i])
    PROVE  LayoutInv'
<1>1. /\ used \in Nat /\ HeapSize \in Nat /\ Start \in Nat /\ N \in Nat
      /\ HdrSize \in Nat \ {0} /\ PtrSize \in Nat /\ Null \notin Int
  BY DomainBlocks DEF IInv, TypeOK, KheapConstants
<1>2. \A i \in 1 .. N : SameExtent(blocks'[i], blocks[i])
  BY <1>1 DEF NewLayout, SameExtent
<1>3. /\ blocks'[N + 1].hdr = Start + used
      /\ blocks'[N + 1].size = n
      /\ blocks'[N + 1].data = r.ptr
  BY <1>1 DEF NewLayout, SameExtent
<1>4. /\ used' >= used + HdrSize + PtrSize /\ used' \in Nat /\ total' = HeapSize + used'
      /\ r.ptr # Null => /\ n > 0
                         /\ r.ptr = Start + used + HdrSize + PtrSize
                         /\ r.ptr + n <= Start + used'
  BY <1>1 DEF NewLayout
<1>5. \A i \in 1 .. N + 1 :
          /\ blocks'[i].hdr # Null
          /\ blocks'[i].hdr >= Start
          /\ blocks'[i].hdr + HdrSize <= Start + used'
          /\ blocks'[i].data # Null =>
                /\ blocks'[i].size > 0
                /\ blocks'[i].hdr + HdrSize <= blocks'[i].data
                /\ blocks'[i].data + blocks'[i].size <= Start + used'
  <2> SUFFICES ASSUME NEW i \in 1 .. N + 1
               PROVE  /\ blocks'[i].hdr # Null
                      /\ blocks'[i].hdr >= Start
                      /\ blocks'[i].hdr + HdrSize <= Start + used'
                      /\ blocks'[i].data # Null =>
                            /\ blocks'[i].size > 0
                            /\ blocks'[i].hdr + HdrSize <= blocks'[i].data
                            /\ blocks'[i].data + blocks'[i].size <= Start + used'
    OBVIOUS
  <2>1. CASE i = N + 1
    BY <1>1, <1>3, <1>4, <2>1
  <2>2. CASE i \in 1 .. N
    <3>1. /\ blocks[i].size \in Nat /\ blocks[i].data \in Nat \cup {Null}
          /\ blocks[i].hdr \in Nat \cup {Null}
      BY <2>2, BlockFields DEF IInv, TypeOK, N
    <3>2. /\ blocks[i].hdr # Null
          /\ blocks[i].hdr >= Start
          /\ blocks[i].hdr + HdrSize <= Start + used
          /\ blocks[i].data # Null =>
                /\ blocks[i].size > 0
                /\ blocks[i].hdr + HdrSize <= blocks[i].data
                /\ blocks[i].data + blocks[i].size <= Start + used
      BY <2>2 DEF IInv, LayoutInv, Layout, N
    <3>3. used <= used' /\ used' \in Nat
      BY <1>1, <1>4
    <3>4. SameExtent(blocks'[i], blocks[i])
      BY <1>2, <2>2
    <3> QED
      BY <1>1, <3>1, <3>2, <3>3, <3>4 DEF SameExtent
  <2> QED
    BY <1>1, <2>1, <2>2
<1>6. \A i, j \in 1 .. N + 1 : i < j =>
          /\ blocks'[i].hdr + HdrSize <= blocks'[j].hdr
          /\ blocks'[i].data # Null => blocks'[i].data + blocks'[i].size <= blocks'[j].hdr
  <2> SUFFICES ASSUME NEW i \in 1 .. N + 1, NEW k \in 1 .. N + 1, i < k
               PROVE  /\ blocks'[i].hdr + HdrSize <= blocks'[k].hdr
                      /\ blocks'[i].data # Null =>
                            blocks'[i].data + blocks'[i].size <= blocks'[k].hdr
    OBVIOUS
  <2>1. i \in 1 .. N
    BY <1>1
  <2>2. CASE k = N + 1
    BY <1>1, <1>2, <1>3, <2>1, <2>2 DEF IInv, LayoutInv, Layout, SameExtent, N
  <2>3. CASE k \in 1 .. N
    BY <1>1, <1>2, <2>1, <2>3 DEF IInv, LayoutInv, Layout, SameExtent, N
  <2> QED
    BY <1>1, <2>2, <2>3
<1>7. \A b \in brks :
          /\ b.size > 0
          /\ b.addr >= Start
          /\ b.addr + b.size <= Start + used'
          /\ \A i \in 1 .. N + 1 :
                /\ Apart(b.addr, b.size, blocks'[i].hdr, HdrSize)
                /\ blocks'[i].data # Null =>
                      Apart(b.addr, b.size, blocks'[i].data, blocks'[i].size)
  <2> SUFFICES ASSUME NEW b \in brks
               PROVE  /\ b.size > 0
                      /\ b.addr >= Start
                      /\ b.addr + b.size <= Start + used'
                      /\ \A i \in 1 .. N + 1 :
                            /\ Apart(b.addr, b.size, blocks'[i].hdr, HdrSize)
                            /\ blocks'[i].data # Null =>
                                  Apart(b.addr, b.size, blocks'[i].data, blocks'[i].size)
    OBVIOUS
  <2>1. b.size \in Nat /\ b.addr \in Nat /\ b.size > 0 /\ b.addr >= Start
        /\ b.addr + b.size <= Start + used
    BY DEF IInv, TypeOK, LayoutInv, Layout
  <2>2. ASSUME NEW i \in 1 .. N + 1
        PROVE  /\ Apart(b.addr, b.size, blocks'[i].hdr, HdrSize)
               /\ blocks'[i].data # Null =>
                     Apart(b.addr, b.size, blocks'[i].data, blocks'[i].size)
    <3>1. CASE i = N + 1
      BY <1>1, <1>3, <1>4, <2>1, <3>1 DEF Apart
    <3>2. CASE i \in 1 .. N
      BY <1>2, <3>2 DEF IInv, LayoutInv, Layout, SameExtent, N
    <3> QED
      BY <1>1, <3>1, <3>2
  <2> QED
    BY <1>1, <1>4, <2>1, <2>2
<1>8. N' = N + 1 /\ brks' = brks
  OBVIOUS
<1> QED
  BY <1>1, <1>4, <1>5, <1>6, <1>7, <1>8 DEF LayoutInv, Layout, N


----------------------------------------------------------------------------
(* Memory inside one block is apart from memory inside another and from    *)
(* the extents, and lies in no other block.                                *)
LEMMA InOneBlock ==
    ASSUME NEW bs \in Seq(Block), NEW u \in Nat,
           NEW bk \in SUBSET [addr : Nat, size : Nat], DataLayout(bs, u, bk),
           NEW i \in 1 .. Len(bs), NEW p \in Nat, NEW n \in Nat, In(bs, i, p, n),
           NEW q \in Nat, NEW m \in Nat
    PROVE  /\ p + n <= Start + u
           /\ \A j \in 1 .. Len(bs) : In(bs, j, p, n) => j = i
           /\ \A j \in 1 .. Len(bs) : j # i /\ In(bs, j, q, m) => Apart(p, n, q, m)
           /\ Extent(bk, q, m) => Apart(p, n, q, m)
           /\ ~ Extent(bk, p, n)
<1>0. /\ bs[i].data \in Nat /\ bs[i].size \in Nat \ {0}
      /\ bs[i].data + bs[i].size <= Start + u
      /\ bs[i].data <= p /\ p + n <= bs[i].data + bs[i].size
  BY DEF DataLayout, In
<1>1. ASSUME NEW j \in 1 .. Len(bs), j # i, bs[j].data # Null
      PROVE  /\ bs[j].data \in Nat /\ bs[j].size \in Nat \ {0}
             /\ WideApart(bs[i].data, bs[i].size, bs[j].data, bs[j].size)
  BY <1>0, <1>1 DEF DataLayout, In
<1>2. ASSUME NEW j \in 1 .. Len(bs), j # i, NEW x \in Nat, NEW y \in Nat, In(bs, j, x, y)
      PROVE  Apart(p, n, x, y) /\ WideApart(p, n, x, y)
  <2>1. bs[j].data # Null /\ bs[j].data <= x /\ x + y <= bs[j].data + bs[j].size
    BY <1>2 DEF In
  <2>2. /\ bs[j].data \in Nat /\ bs[j].size \in Nat
        /\ WideApart(bs[i].data, bs[i].size, bs[j].data, bs[j].size)
    BY <1>1, <1>2, <2>1
  <2> DEFINE a == bs[i].data
             s == bs[i].size
             b == bs[j].data
             t == bs[j].size
  <2>3. /\ a \in Nat /\ s \in Nat /\ b \in Nat /\ t \in Nat /\ WideApart(a, s, b, t)
        /\ a <= p /\ p + n <= a + s /\ b <= x /\ x + y <= b + t
    BY <1>0, <2>1, <2>2
  <2> HIDE DEF a, s, b, t
  <2> QED
    BY <2>3, <1>2 DEF Apart, WideApart
<1>3. ASSUME NEW j \in 1 .. Len(bs), j # i, In(bs, j, p, n)
      PROVE  FALSE
  <2>1. WideApart(p, n, p, n)
    BY <1>2, <1>3
  <2> QED
    BY <2>1 DEF WideApart
<1>4. ASSUME NEW b \in bk
      PROVE  /\ b.addr \in Nat /\ b.size \in Nat \ {0}
             /\ Apart(b.addr, b.size, bs[i].data, bs[i].size)
  BY DEF DataLayout, In
<1>5. ASSUME NEW x \in Nat, NEW y \in Nat, Extent(bk, x, y)
      PROVE  Apart(p, n, x, y)
  <2>1. PICK b \in bk : x = b.addr /\ y = b.size
    BY <1>5 DEF Extent
  <2>2. Apart(bs[i].data, bs[i].size, b.addr, b.size)
    BY <1>0, <1>4 DEF Apart
  <2> DEFINE a == bs[i].data
             s == bs[i].size
  <2>3. /\ a \in Nat /\ s \in Nat /\ Apart(a, s, x, y)
        /\ a <= p /\ p + n <= a + s
    BY <1>0, <1>4, <2>1, <2>2
  <2> HIDE DEF a, s
  <2> QED
    BY <2>3, <1>5 DEF Apart
<1>6. ~ Extent(bk, p, n)
  <2>1. Extent(bk, p, n) => Apart(p, n, p, n) /\ n # 0
    BY <1>4, <1>5 DEF Extent
  <2> QED
    BY <2>1 DEF Apart
<1>7. p + n <= Start + u
  BY <1>0 DEF KheapConstants
<1> QED
  BY <1>2, <1>3, <1>5, <1>6, <1>7

LEMMA UniqueBlock ==
    ASSUME NEW bs \in Seq(Block), NEW u \in Nat,
           NEW bk \in SUBSET [addr : Nat, size : Nat], DataLayout(bs, u, bk),
           NEW i \in 1 .. Len(bs), NEW j \in 1 .. Len(bs),
           NEW p \in Nat, NEW n \in Nat, In(bs, i, p, n), In(bs, j, p, n)
    PROVE  i = j
<1>1. \A k \in 1 .. Len(bs) : In(bs, k, p, n) => k = i
  BY InOneBlock
<1> QED
  BY <1>1

LEMMA NotAnExtent ==
    ASSUME NEW bs \in Seq(Block), NEW u \in Nat,
           NEW bk \in SUBSET [addr : Nat, size : Nat], DataLayout(bs, u, bk),
           NEW i \in 1 .. Len(bs), NEW p \in Nat, NEW n \in Nat, In(bs, i, p, n)
    PROVE  ~ Extent(bk, p, n)
  BY InOneBlock

(***************************************************************************)
(* One handle h changes hands; the others keep what they hold.  What h     *)
(* gets, if anything, lies in a block nobody else lies in, or is kmain's   *)
(* extent; the only block that becomes free is one h lay in.               *)
(***************************************************************************)
LEMMA OwnersStep ==
    ASSUME IInv, TypeOK', LayoutInv', NEW h \in Handles,
           \A g \in Handles \ {h} : own'[g] = own[g] /\ asked'[g] = asked[g],
           N' >= N, brks \subseteq brks',
           \A i \in 1 .. N : SameExtent(blocks'[i], blocks[i]),
           \A i \in 1 .. N : blocks'[i].is_free =>
               \/ blocks[i].is_free
               \/ blocks[i].data = Null
               \/ own[h] # Null /\ InBlock(h, i),
           own'[h] # Null =>
               \/ \E i \in 1 .. N' :
                     /\ In(blocks', i, own'[h], asked'[h])
                     /\ ~ blocks'[i].is_free
                     /\ i \in 1 .. N => blocks[i].is_free
               \/ /\ Extent(brks', own'[h], asked'[h])
                  /\ own'[h] >= Start + used
    PROVE  OwnersInv'
<1> USE DEF InBlock, InBrk, N
<1>0. /\ \A g \in Handles : /\ own[g] \in Nat \cup {Null} /\ own'[g] \in Nat \cup {Null}
                            /\ asked[g] \in Nat /\ asked'[g] \in Nat
      /\ N \in Nat /\ N' \in Nat /\ used \in Nat /\ used' \in Nat
      /\ Null \notin Int /\ Start \in Nat
      /\ blocks \in Seq(Block) /\ blocks' \in Seq(Block)
      /\ brks \in SUBSET [addr : Nat, size : Nat] /\ brks' \in SUBSET [addr : Nat, size : Nat]
  BY DEF IInv, TypeOK, KheapConstants
<1>a. DataLayout(blocks, used, brks)
  BY <1>0, LayoutData DEF IInv, LayoutInv
<1>b. DataLayout(blocks', used', brks')
  BY <1>0, LayoutData DEF LayoutInv
<1>c. \A i \in 1 .. N : \A p, n : In(blocks', i, p, n) <=> In(blocks, i, p, n)
  BY DEF In, SameExtent
<1>1. ASSUME NEW g \in Handles \ {h}, own[g] # Null
      PROVE  /\ own[g] \in Nat /\ asked[g] \in Nat
             /\ own[g] + asked[g] <= Start + used
             /\ \/ \E j \in 1 .. N :
                      /\ In(blocks, j, own[g], asked[g])
                      /\ In(blocks', j, own[g], asked[g])
                      /\ ~ blocks[j].is_free
                      /\ ~ blocks'[j].is_free
                \/ /\ Extent(brks, own[g], asked[g])
                   /\ Extent(brks', own[g], asked[g])
  <2>0. own[g] \in Nat /\ asked[g] \in Nat
    BY <1>0, <1>1 DEF IInv, OwnersInv
  <2>1. CASE \E i \in 1 .. N : InBlock(g, i) /\ ~ blocks[i].is_free
    <3>1. PICK i \in 1 .. N : InBlock(g, i) /\ ~ blocks[i].is_free
      BY <2>1
    <3>2. ~ blocks'[i].is_free
      BY <1>1, <3>1 DEF IInv, OwnersInv, In
    <3>3. own[g] + asked[g] <= Start + used
      BY <1>0, <1>a, <2>0, <3>1, InOneBlock
    <3> QED
      BY <1>c, <2>0, <3>1, <3>2, <3>3
  <2>2. CASE InBrk(g)
    <3>1. own[g] + asked[g] <= Start + used
      BY <1>a, <2>2 DEF Extent, DataLayout
    <3>2. Extent(brks', own[g], asked[g])
      BY <2>2 DEF Extent
    <3> QED
      BY <2>0, <2>2, <3>1, <3>2
  <2> QED
    BY <1>1, <2>1, <2>2 DEF IInv, OwnersInv
<1>2. ASSUME NEW g \in Handles, own'[g] # Null
      PROVE  \/ \E i \in 1 .. N' : In(blocks', i, own'[g], asked'[g]) /\ ~ blocks'[i].is_free
             \/ Extent(brks', own'[g], asked'[g])
  <2>1. CASE g = h
    BY <1>2, <2>1
  <2>2. CASE g # h
    <3>1. own'[g] = own[g] /\ asked'[g] = asked[g] /\ own[g] # Null
      BY <1>2, <2>2
    <3>2. 1 .. N \subseteq 1 .. N'
      BY <1>0
    <3> QED
      BY <1>0, <1>1, <2>2, <3>1, <3>2
  <2> QED
    BY <2>1, <2>2
<1>3. ASSUME NEW g \in Handles \ {h}, own[g] # Null, own'[h] # Null
      PROVE  /\ Apart(own[g], asked[g], own'[h], asked'[h])
             /\ \A i \in 1 .. N' : ~ (/\ In(blocks', i, own[g], asked[g])
                                      /\ In(blocks', i, own'[h], asked'[h]))
  <2> DEFINE p == own[g]
             n == asked[g]
             q == own'[h]
             m == asked'[h]
  <2>0. p \in Nat /\ n \in Nat /\ q \in Nat /\ m \in Nat
    BY <1>0, <1>1, <1>3
  <2>1. CASE Extent(brks', q, m) /\ q >= Start + used
    <3>1. Apart(p, n, q, m)
      BY <1>0, <1>1, <1>3, <2>1 DEF Apart
    <3>2. \A i \in 1 .. N' : ~ In(blocks', i, q, m)
      BY <1>0, <1>b, <2>0, <2>1, NotAnExtent
    <3> QED
      BY <3>1, <3>2
  <2>2. CASE \E i \in 1 .. N' : /\ In(blocks', i, q, m)
                                /\ ~ blocks'[i].is_free
                                /\ i \in 1 .. N => blocks[i].is_free
    <3>1. PICK k \in 1 .. N' : In(blocks', k, q, m) /\ (k \in 1 .. N => blocks[k].is_free)
      BY <2>2
    <3>2. /\ \A i \in 1 .. N' : In(blocks', i, q, m) => i = k
          /\ \A j \in 1 .. N' : j # k /\ In(blocks', j, p, n) => Apart(q, m, p, n)
          /\ Extent(brks', p, n) => Apart(q, m, p, n)
      <4>1. \A i \in 1 .. N' : In(blocks', i, q, m) => i = k
        BY <1>0, <1>b, <2>0, <3>1, UniqueBlock
      <4>2. ASSUME NEW j \in 1 .. N', j # k, In(blocks', j, p, n)
            PROVE  Apart(q, m, p, n)
        <5> HIDE DEF p, n, q, m
        <5> QED
          BY <1>0, <1>b, <2>0, <3>1, <4>2, InOneBlock
      <4>3. ASSUME Extent(brks', p, n)
            PROVE  Apart(q, m, p, n)
        <5> HIDE DEF p, n, q, m
        <5> QED
          BY <1>0, <1>b, <2>0, <3>1, <4>3, InOneBlock
      <4> QED
        BY <4>1, <4>2, <4>3
    <3>3. CASE \E j \in 1 .. N : In(blocks', j, p, n) /\ ~ blocks[j].is_free
      <4>1. PICK j \in 1 .. N : In(blocks', j, p, n) /\ ~ blocks[j].is_free
        BY <3>3
      <4>2. j # k /\ j \in 1 .. N'
        BY <1>0, <3>1, <4>1
      <4>3. \A i \in 1 .. N' : In(blocks', i, p, n) => i = j
        BY <1>0, <1>b, <2>0, <4>1, <4>2, UniqueBlock
      <4> QED
        BY <2>0, <3>2, <4>1, <4>2, <4>3 DEF Apart
    <3>4. CASE Extent(brks', p, n)
      <4>1. \A i \in 1 .. N' : ~ In(blocks', i, p, n)
        BY <1>0, <1>b, <2>0, <3>4, NotAnExtent
      <4> QED
        BY <2>0, <3>2, <3>4, <4>1 DEF Apart
    <3> QED
      BY <1>1, <1>3, <3>3, <3>4
  <2> QED
    BY <1>3, <2>1, <2>2
<1>4. ASSUME NEW g \in Handles \ {h}, NEW f \in Handles \ {h}, g # f,
             own[g] # Null, own[f] # Null
      PROVE  /\ Apart(own[g], asked[g], own[f], asked[f])
             /\ \A i \in 1 .. N' : ~ (/\ In(blocks', i, own[g], asked[g])
                                      /\ In(blocks', i, own[f], asked[f]))
  <2>1. /\ Apart(own[g], asked[g], own[f], asked[f])
        /\ \A i \in 1 .. N : ~ (In(blocks, i, own[g], asked[g]) /\ In(blocks, i, own[f], asked[f]))
    BY <1>4 DEF IInv, OwnersInv
  <2>2. ASSUME NEW i \in 1 .. N', In(blocks', i, own[g], asked[g]),
               In(blocks', i, own[f], asked[f])
        PROVE  FALSE
    <3>1. ~ Extent(brks', own[g], asked[g])
      BY <1>0, <1>1, <1>4, <1>b, <2>2, NotAnExtent
    <3>2. PICK j \in 1 .. N : In(blocks', j, own[g], asked[g])
      BY <1>1, <1>4, <3>1
    <3>3. j \in 1 .. N'
      BY <1>0
    <3>4. i = j
      BY <1>0, <1>1, <1>4, <1>b, <2>2, <3>2, <3>3, UniqueBlock
    <3> QED
      BY <1>c, <2>1, <2>2, <3>4
  <2> QED
    BY <2>1, <2>2
<1>5. ASSUME NEW g \in Handles, NEW f \in Handles, g # f, own'[g] # Null, own'[f] # Null
      PROVE  /\ Apart(own'[g], asked'[g], own'[f], asked'[f])
             /\ \A i \in 1 .. N' : ~ (/\ In(blocks', i, own'[g], asked'[g])
                                      /\ In(blocks', i, own'[f], asked'[f]))
  <2>1. CASE g # h /\ f # h
    BY <1>4, <1>5, <2>1
  <2>2. CASE g # h /\ f = h
    BY <1>3, <1>5, <2>2
  <2>3. CASE g = h /\ f # h
    <3>1. Apart(own'[f], asked'[f], own'[g], asked'[g])
      BY <1>3, <1>5, <2>3
    <3> QED
      BY <1>0, <1>3, <1>5, <2>3, <3>1 DEF Apart
  <2> QED
    BY <1>5, <2>1, <2>2, <2>3
<1> QED
  BY <1>2, <1>5 DEF OwnersInv

----------------------------------------------------------------------------
(* What kmalloc(n) does to the heap: nothing; or it takes a free block;    *)
(* or it makes a new one.                                                  *)
Reuse(r, n) ==
    /\ r.total = total /\ r.used = used
    /\ r.blocks \in Seq(Block) /\ Len(r.blocks) = N
    /\ \A i \in 1 .. N : /\ SameExtent(r.blocks[i], blocks[i])
                         /\ r.blocks[i].is_free => blocks[i].is_free
    /\ r.ptr = Null \/ \E w \in 1 .. N : /\ blocks[w].is_free /\ ~ r.blocks[w].is_free
                                        /\ r.ptr = blocks[w].data
                                        /\ n <= blocks[w].size

MallocDoes(r, n) ==
    /\ r.ptr \in Nat \cup {Null}
    /\ r.total \in Nat /\ r.used \in Nat
    /\ r.blocks \in Seq(Block)
    /\ \/ Reuse(r, n)
       \/ NewLayout(r, n) /\ HeapSize >= HdrSize + PtrSize

LEMMA NewBlockDoes ==
    ASSUME IInv, NEW n \in Nat, HeapSize >= HdrSize + PtrSize
    PROVE  MallocDoes(NewBlock(n), n)
<1> DEFINE r == NewBlock(n)
<1>1. NewLayout(r, n)
  BY NewBlockEffect
<1>2. /\ used \in Nat /\ HeapSize \in Nat /\ Start \in Nat
      /\ HdrSize \in Nat \ {0} /\ PtrSize \in Nat
  BY DEF IInv, TypeOK, KheapConstants
<1> HIDE DEF r
<1>3. r.used \in Nat /\ r.ptr \in Nat \cup {Null}
  BY <1>1, <1>2 DEF NewLayout
<1>4. r.total \in Nat /\ r.blocks \in Seq(Block)
  BY <1>1, <1>2, <1>3 DEF NewLayout
<1> QED
  BY <1>1, <1>3, <1>4 DEF MallocDoes, r

LEMMA UnchangedDoes ==
    ASSUME IInv, NEW n
    PROVE  MallocDoes(Unchanged(Null), n)
<1>1. total \in Nat /\ used \in Nat /\ blocks \in Seq(Block)
  BY DEF IInv, TypeOK
<1> QED
  BY <1>1 DEF Unchanged, MallocDoes, Reuse, SameExtent, N

(* The choice of worst_fit, when it makes one: the least index it may      *)
(* return exists.                                                          *)
LEMMA LeastIndex ==
    ASSUME NEW S \in SUBSET Nat, S # {}
    PROVE  (CHOOSE i \in S : \A j \in S : i <= j) \in S
<1> DEFINE R == {ss \in Nat \X Nat : ss[1] < ss[2]}
<1>1. IsWellFoundedOn(R, Nat)
  BY NatLessThanWellFounded DEF OpToRel
<1>2. PICK i \in S : \A j \in S : ~ (<<j, i>> \in R)
  BY <1>1, WFMin
<1>3. ASSUME NEW j \in S
      PROVE  i <= j
  <2>1. i \in Nat /\ j \in Nat /\ ~ (<<j, i>> \in R)
    BY <1>2
  <2> QED
    BY <2>1
<1> QED
  BY <1>3

LEMMA WorstFitIs ==
    ASSUME IInv, NEW n \in Nat, WorstFit(n) # 0
    PROVE  /\ WorstFit(n) \in 1 .. N
           /\ blocks[WorstFit(n)].is_free
           /\ n <= blocks[WorstFit(n)].size
<1> DEFINE fits == {i \in DOMAIN blocks : blocks[i].is_free /\ blocks[i].size >= n}
<1>1. DOMAIN blocks = 1 .. N /\ N \in Nat /\ blocks \in Seq(Block)
  BY DomainBlocks DEF IInv, TypeOK
<1>2. fits \in SUBSET Nat /\ fits # {} /\ WorstFit(n) = CHOOSE i \in fits : \A j \in fits : i <= j
  BY <1>1 DEF WorstFit
<1>3. WorstFit(n) \in fits
  <2> HIDE DEF fits
  <2> QED
    BY <1>2, LeastIndex
<1>4. blocks[WorstFit(n)].size \in Nat
  BY <1>1, <1>3, BlockFields DEF N
<1> QED
  BY <1>1, <1>3, <1>4

LEMMA MallocEffect ==
    ASSUME IInv, NEW n \in Nat
    PROVE  MallocDoes(Malloc(n), n)
<1>0. /\ used \in Nat /\ total = HeapSize + used /\ HeapSize \in Nat /\ total \in Nat
      /\ Start \in Nat /\ HdrSize \in Nat \ {0} /\ PtrSize \in Nat /\ Null \notin Int
      /\ blocks \in Seq(Block)
  BY DEF IInv, TypeOK, LayoutInv, Layout, KheapConstants
<1>1. CASE n = 0
  BY <1>1, UnchangedDoes DEF Malloc
<1>2. CASE n # 0 /\ blocks = <<>>
  <2>1. CASE Brk(HdrSize, total, used) = Null
    BY <1>2, <2>1, UnchangedDoes DEF Malloc
  <2>2. CASE Brk(HdrSize, total, used) # Null
    <3>1. HeapSize >= HdrSize + PtrSize
      BY <1>0, <2>2 DEF Brk
    <3> QED
      BY <1>2, <2>2, <3>1, NewBlockDoes DEF Malloc
  <2> QED
    BY <2>1, <2>2
<1>3. CASE n # 0 /\ blocks # <<>>
  <2>0. HeapSize >= HdrSize + PtrSize
    <3>1. Len(blocks) > 0
      BY <1>0, <1>3
    <3> QED
      BY <3>1 DEF IInv, LayoutInv, Layout
  <2>1. CASE WorstFit(n) = 0
    BY <1>3, <2>0, <2>1, NewBlockDoes DEF Malloc
  <2>2. CASE WorstFit(n) # 0
    <3> DEFINE w == WorstFit(n)
               r == [Unchanged(blocks[w].data) EXCEPT !.blocks[w].is_free = FALSE]
               c == [blocks EXCEPT ![w].is_free = FALSE]
    <3>1. w \in 1 .. N /\ blocks[w].is_free /\ n <= blocks[w].size
      BY <2>2, WorstFitIs
    <3>2. Malloc(n) = r
      BY <1>3, <2>2 DEF Malloc
    <3>3. r.total = total /\ r.used = used /\ r.blocks = c /\ r.ptr = blocks[w].data
      BY DEF Unchanged
    <3>4. blocks[w] \in Block
      BY <1>0, <3>1 DEF N
    <3>5. [blocks[w] EXCEPT !.is_free = FALSE] \in Block
      BY <3>4 DEF Block
    <3> HIDE DEF w, r
    <3>6. c \in Seq(Block) /\ Len(c) = N
      BY <1>0, <3>1, <3>5 DEF N
    <3>7. \A i \in 1 .. N : /\ SameExtent(c[i], blocks[i])
                            /\ c[i].is_free => blocks[i].is_free
      <4>1. ASSUME NEW i \in 1 .. N
            PROVE  c[i] = IF i = w THEN [blocks[w] EXCEPT !.is_free = FALSE] ELSE blocks[i]
        BY <1>0, <3>1 DEF N
      <4> HIDE DEF c
      <4> QED
        BY <3>4, <4>1 DEF SameExtent, Block
    <3>8. ~ c[w].is_free
      BY <1>0, <3>1, <3>4 DEF Block, N
    <3>9. r.ptr \in Nat \cup {Null}
      BY <3>3, <3>4 DEF Block
    <3> HIDE DEF c
    <3>10. Reuse(r, n)
      BY <3>1, <3>3, <3>6, <3>7, <3>8 DEF Reuse
    <3> QED
      BY <1>0, <3>2, <3>3, <3>6, <3>9, <3>10 DEF MallocDoes
  <2> QED
    BY <2>1, <2>2
<1> QED
  BY <1>1, <1>2, <1>3

----------------------------------------------------------------------------
(***************************************************************************)
(* A call for h that does to the heap what kmalloc or allocate_new_block   *)
(* does, and may free blocks that h alone can lie in.                      *)
(***************************************************************************)
LEMMA HeapCall ==
    ASSUME IInv, TypeOK', NEW h \in Handles, NEW n \in Nat, NEW r, MallocDoes(r, n),
           total' = r.total, used' = r.used, brks' = brks, N' = Len(r.blocks),
           \A i \in 1 .. N' : SameExtent(blocks'[i], r.blocks[i]),
           \A i \in 1 .. N' : blocks'[i].is_free =>
               \/ r.blocks[i].is_free
               \/ /\ i \in 1 .. N
                  /\ ~ blocks[i].is_free
                  /\ blocks[i].data = Null \/ (own[h] # Null /\ InBlock(h, i)),
           \A g \in Handles \ {h} : own'[g] = own[g] /\ asked'[g] = asked[g],
           own'[h] # Null =>
               /\ r.ptr # Null
               /\ r.ptr <= own'[h]
               /\ own'[h] + asked'[h] <= r.ptr + n
    PROVE  IInv'
<1>0. /\ N \in Nat /\ own'[h] \in Nat \cup {Null} /\ asked'[h] \in Nat
      /\ r.ptr \in Nat \cup {Null}
      /\ blocks \in Seq(Block) /\ blocks' \in Seq(Block)
  BY DomainBlocks DEF IInv, TypeOK, MallocDoes
<1>1. CASE Reuse(r, n)
  <2>1. /\ N' = N
        /\ \A i \in 1 .. N : SameExtent(blocks'[i], blocks[i])
    BY <1>1 DEF Reuse, SameExtent
  <2>2. LayoutInv'
    BY <1>1, <2>1, LayoutSame DEF Reuse
  <2>3. \A i \in 1 .. N : blocks'[i].is_free =>
               \/ blocks[i].is_free
               \/ blocks[i].data = Null
               \/ own[h] # Null /\ InBlock(h, i)
    BY <1>1, <2>1 DEF Reuse
  <2>4. ASSUME own'[h] # Null
        PROVE  \E i \in 1 .. N' : /\ In(blocks', i, own'[h], asked'[h])
                                  /\ ~ blocks'[i].is_free
                                  /\ i \in 1 .. N => blocks[i].is_free
    <3>1. PICK w \in 1 .. N : /\ blocks[w].is_free /\ ~ r.blocks[w].is_free
                              /\ r.ptr = blocks[w].data /\ n <= blocks[w].size
      BY <1>1, <2>4 DEF Reuse
    <3>2. ~ blocks'[w].is_free
      BY <2>1, <3>1
    <3>3. blocks'[w].data = r.ptr /\ n <= blocks'[w].size /\ blocks'[w].size \in Nat
      BY <1>0, <2>1, <3>1, BlockFields DEF SameExtent, N
    <3>4. In(blocks', w, own'[h], asked'[h])
      <4> DEFINE q == own'[h]
                 m == asked'[h]
                 d == blocks'[w].data
                 s == blocks'[w].size
      <4>1. /\ q \in Nat /\ m \in Nat /\ d \in Nat /\ s \in Nat /\ d # Null
            /\ d <= q /\ q + m <= d + n /\ n <= s
        BY <1>0, <2>4, <3>3
      <4>2. d <= q /\ q + m <= d + s
        <5> HIDE DEF q, m, d, s
        <5> QED
          BY <4>1
      <4> QED
        BY <4>1, <4>2 DEF In
    <3> QED
      BY <2>1, <3>1, <3>2, <3>4
  <2>5. OwnersInv'
    <3>1. N' >= N /\ brks \subseteq brks'
      BY <1>0, <2>1
    <3>2. own'[h] # Null =>
               \/ \E i \in 1 .. N' :
                     /\ In(blocks', i, own'[h], asked'[h])
                     /\ ~ blocks'[i].is_free
                     /\ i \in 1 .. N => blocks[i].is_free
               \/ /\ Extent(brks', own'[h], asked'[h])
                  /\ own'[h] >= Start + used
      BY <2>4
    <3> QED
      BY <2>1, <2>2, <2>3, <3>1, <3>2, OwnersStep
  <2> QED
    BY <2>2, <2>5 DEF IInv
<1>2. CASE NewLayout(r, n) /\ HeapSize >= HdrSize + PtrSize
  <2>0. N' = N + 1
    BY <1>2 DEF NewLayout
  <2>1. ASSUME NEW i \in 1 .. N
        PROVE  /\ SameExtent(blocks'[i], blocks[i])
               /\ blocks'[i].is_free =>
                     \/ blocks[i].is_free
                     \/ blocks[i].data = Null
                     \/ own[h] # Null /\ InBlock(h, i)
    <3>1. i \in 1 .. N' /\ r.blocks[i] = blocks[i]
      BY <1>0, <1>2, <2>0 DEF NewLayout
    <3>2. SameExtent(blocks'[i], blocks[i])
      BY <3>1
    <3> QED
      BY <3>1, <3>2
  <2>2. LayoutInv'
    <3>1. \A i \in 1 .. N + 1 : SameExtent(blocks'[i], r.blocks[i])
      BY <2>0
    <3> QED
      BY <1>2, <2>0, <3>1, LayoutGrow
  <2>3. N + 1 \in 1 .. N' /\ N + 1 \notin 1 .. N
    BY <1>0, <2>0
  <2>4. /\ blocks'[N + 1].data = r.ptr
        /\ blocks'[N + 1].size = n
        /\ ~ blocks'[N + 1].is_free
    BY <1>2, <2>3 DEF NewLayout, SameExtent
  <2>5. ASSUME own'[h] # Null
        PROVE  In(blocks', N + 1, own'[h], asked'[h])
    BY <2>4, <2>5 DEF In
  <2>6. OwnersInv'
    <3>1. N' >= N /\ brks \subseteq brks'
      BY <1>0, <2>0
    <3> QED
      BY <2>1, <2>2, <2>3, <2>4, <2>5, <3>1, OwnersStep
  <2> QED
    BY <2>2, <2>6 DEF IInv
<1> QED
  BY <1>1, <1>2 DEF MallocDoes

LEMMA HoldsEffect ==
    ASSUME TypeOK, NEW h \in Handles, NEW p \in Nat \cup {Null}, NEW n \in Nat,
           NEW k \in Nat, Holds(h, p, n, k)
    PROVE  /\ own' \in [Handles -> Nat \cup {Null}]
           /\ asked' \in [Handles -> Nat]
           /\ filled' \in [Handles -> Nat]
           /\ own'[h] = p
           /\ asked'[h] = IF p = Null THEN 0 ELSE n
           /\ \A g \in Handles \ {h} : own'[g] = own[g] /\ asked'[g] = asked[g]
  BY DEF TypeOK, Holds

LEMMA MallocCall ==
    ASSUME IInv, NEW h \in Handles, NEW n \in Nat, NEW m \in Nat, NEW k \in Nat,
           NEW p \in Nat \cup {Null}, SetHeap(Malloc(n)), brks' = brks, Holds(h, p, m, k),
           p # Null => /\ Malloc(n).ptr # Null
                       /\ Malloc(n).ptr <= p
                       /\ p + m <= Malloc(n).ptr + n
    PROVE  IInv'
<1> DEFINE r == Malloc(n)
<1>1. MallocDoes(r, n)
  BY MallocEffect
<1>2. /\ own' \in [Handles -> Nat \cup {Null}]
      /\ asked' \in [Handles -> Nat]
      /\ filled' \in [Handles -> Nat]
      /\ own'[h] = p
      /\ asked'[h] = IF p = Null THEN 0 ELSE m
      /\ \A g \in Handles \ {h} : own'[g] = own[g] /\ asked'[g] = asked[g]
  BY HoldsEffect DEF IInv
<1>3. total' = r.total /\ used' = r.used /\ blocks' = r.blocks
  BY DEF SetHeap
<1>4. p # Null => r.ptr # Null /\ r.ptr <= p /\ p + m <= r.ptr + n
  OBVIOUS
<1> HIDE DEF r
<1>5. TypeOK'
  BY <1>1, <1>2, <1>3 DEF TypeOK, MallocDoes, IInv
<1>6. N' = Len(r.blocks) /\ \A i \in 1 .. N' : SameExtent(blocks'[i], r.blocks[i])
  BY <1>3 DEF N, SameExtent
<1>7. \A i \in 1 .. N' : blocks'[i].is_free => r.blocks[i].is_free
  BY <1>3
<1> QED
  BY <1>1, <1>2, <1>3, <1>4, <1>5, <1>6, <1>7, HeapCall

LEMMA KmallocStep ==
    ASSUME IInv, NEW h \in Handles, NEW n \in Nat, NEW k \in Nat, SetHeap(Malloc(n)),
           brks' = brks, Holds(h, Malloc(n).ptr, n, k)
    PROVE  IInv'
<1>1. Malloc(n).ptr \in Nat \cup {Null}
  BY MallocEffect DEF MallocDoes
<1>2. Malloc(n).ptr # Null => /\ Malloc(n).ptr <= Malloc(n).ptr
                              /\ Malloc(n).ptr + n <= Malloc(n).ptr + n
  BY <1>1 DEF KheapConstants
<1> QED
  BY <1>1, <1>2, MallocCall

LEMMA MallocAlignedStep ==
    ASSUME IInv, NEW h \in Handles, NEW n \in Nat, NEW a \in Nat \ {0}, MallocAligned(h, n, a)
    PROVE  IInv'
<1> DEFINE q == Malloc(n + a - 1).ptr
           p == IF q = Null THEN Null ELSE AlignUp(q, a)
<1>1. n + a - 1 \in Nat
  OBVIOUS
<1>2. q \in Nat \cup {Null}
  BY <1>1, MallocEffect DEF MallocDoes
<1>3. q # Null => AlignUp(q, a) \in q .. q + a - 1
  BY <1>2, AlignUpBounds
<1>4. p \in Nat \cup {Null}
  BY <1>2, <1>3
<1>5. SetHeap(Malloc(n + a - 1)) /\ brks' = brks /\ Holds(h, p, n, 0)
  BY DEF MallocAligned
<1>6. p # Null => q # Null /\ q <= p /\ p + n <= q + (n + a - 1)
  <2>1. CASE q = Null
    BY <2>1
  <2>2. CASE q # Null
    <3>1. q \in Nat /\ p \in q .. q + a - 1
      BY <1>2, <1>3, <2>2
    <3> HIDE DEF q, p
    <3> QED
      BY <2>2, <3>1
  <2> QED
    BY <2>1, <2>2
<1> HIDE DEF p
<1> QED
  BY <1>1, <1>4, <1>5, <1>6, MallocCall

(* kmain's extent is cut from the break like everything else. *)
LEMMA LayoutBrk ==
    ASSUME NEW bs \in Seq(Block), NEW t \in Nat, NEW u \in Nat, NEW n \in Nat \ {0},
           Layout(bs, t, u, {}), HeapSize \in Nat
    PROVE  Layout(bs, t + (n + PtrSize), u + (n + PtrSize), {[addr |-> Start + u, size |-> n]})
<1> DEFINE b == [addr |-> Start + u, size |-> n]
           v == u + (n + PtrSize)
<1>0. /\ Start \in Nat /\ PtrSize \in Nat /\ HdrSize \in Nat \ {0} /\ Null \notin Int
      /\ Len(bs) \in Nat
  BY DEF KheapConstants
<1>1. v \in Nat /\ v >= u + n /\ t + (n + PtrSize) = HeapSize + v
  BY <1>0 DEF Layout
<1>2. ASSUME NEW i \in 1 .. Len(bs)
      PROVE  /\ bs[i].hdr \in Nat /\ bs[i].hdr # Null /\ bs[i].hdr >= Start
             /\ bs[i].hdr + HdrSize <= Start + u
             /\ bs[i].size \in Nat
             /\ bs[i].data \in Nat \cup {Null}
             /\ bs[i].data # Null =>
                   /\ bs[i].size > 0
                   /\ bs[i].hdr + HdrSize <= bs[i].data
                   /\ bs[i].data + bs[i].size <= Start + u
  BY BlockFields DEF Layout
<1>3. b.addr = Start + u /\ b.size = n
  OBVIOUS
<1> HIDE DEF b, v
<1>4. ASSUME NEW i \in 1 .. Len(bs)
      PROVE  /\ bs[i].hdr # Null /\ bs[i].hdr >= Start
             /\ bs[i].hdr + HdrSize <= Start + v
             /\ bs[i].data # Null =>
                   /\ bs[i].size > 0
                   /\ bs[i].hdr + HdrSize <= bs[i].data
                   /\ bs[i].data + bs[i].size <= Start + v
             /\ Apart(b.addr, b.size, bs[i].hdr, HdrSize)
             /\ bs[i].data # Null => Apart(b.addr, b.size, bs[i].data, bs[i].size)
  <2> DEFINE x == bs[i].hdr
             d == bs[i].data
             z == bs[i].size
             ba == b.addr
             bz == b.size
  <2>1. /\ x \in Nat /\ x # Null /\ x >= Start /\ x + HdrSize <= Start + u
        /\ z \in Nat /\ d \in Nat \cup {Null}
        /\ d # Null => z > 0 /\ x + HdrSize <= d /\ d + z <= Start + u
    BY <1>2
  <2>2. ba = Start + u /\ bz = n
    BY <1>3
  <2> HIDE DEF x, d, z, ba, bz
  <2>3. /\ x # Null /\ x >= Start
        /\ x + HdrSize <= Start + v
        /\ d # Null => z > 0 /\ x + HdrSize <= d /\ d + z <= Start + v
    BY <1>0, <1>1, <2>1
  <2>4. /\ Apart(ba, bz, x, HdrSize)
        /\ d # Null => Apart(ba, bz, d, z)
    BY <1>0, <2>1, <2>2 DEF Apart
  <2> QED
    BY <2>3, <2>4 DEF x, d, z, ba, bz
<1>5. b.size > 0 /\ b.addr >= Start /\ b.addr + b.size <= Start + v
  BY <1>0, <1>1, <1>3
<1>6. Layout(bs, t + (n + PtrSize), v, {b})
  BY <1>1, <1>4, <1>5 DEF Layout
<1> QED
  BY <1>6 DEF b, v

LEMMA KbrkStep ==
    ASSUME IInv, NEW h \in Handles, NEW n \in Nat, Kbrk(h, n)
    PROVE  IInv'
<1> DEFINE a == Brk(n, total, used)
<1>0. /\ used \in Nat /\ total \in Nat /\ HeapSize \in Nat /\ Start \in Nat /\ PtrSize \in Nat
      /\ Null \notin Int /\ blocks \in Seq(Block) /\ N \in Nat
  BY DomainBlocks DEF IInv, TypeOK, KheapConstants
<1>1. /\ brks = {} /\ own[h] = Null
      /\ total' = total + Moved(n, a)
      /\ used' = used + Moved(n, a)
      /\ brks' = IF a = Null THEN {} ELSE {[addr |-> a, size |-> n]}
      /\ Holds(h, a, n, 0)
      /\ blocks' = blocks
  BY DEF Kbrk
<1>2. a = Null \/ (n > 0 /\ a = Start + used /\ a # Null)
  BY <1>0 DEF Brk
<1>3. /\ own' \in [Handles -> Nat \cup {Null}]
      /\ asked' \in [Handles -> Nat]
      /\ filled' \in [Handles -> Nat]
      /\ own'[h] = a
      /\ asked'[h] = IF a = Null THEN 0 ELSE n
      /\ \A g \in Handles \ {h} : own'[g] = own[g] /\ asked'[g] = asked[g]
  <2>1. a \in Nat \cup {Null}
    BY <1>0, <1>2
  <2> HIDE DEF a
  <2> QED
    BY <1>1, <2>1, HoldsEffect DEF IInv
<1> HIDE DEF a
<1>4. N' = N /\ \A i \in 1 .. N : SameExtent(blocks'[i], blocks[i])
  BY <1>1 DEF SameExtent, N
<1>5. TypeOK'
  <2>1. Moved(n, a) \in Nat
    BY <1>0 DEF Moved
  <2>2. brks' \subseteq [addr : Nat, size : Nat]
    BY <1>0, <1>1, <1>2
  <2> QED
    BY <1>0, <1>1, <1>3, <2>1, <2>2 DEF TypeOK
<1>6. LayoutInv'
  <2>1. CASE a = Null
    <3>1. UNCHANGED <<total, used, brks>>
      BY <1>0, <1>1, <2>1 DEF Moved
    <3> QED
      BY <1>4, <3>1, LayoutSame
  <2>2. CASE a # Null
    <3>1. /\ total' = total + (n + PtrSize)
          /\ used' = used + (n + PtrSize)
          /\ brks' = {[addr |-> Start + used, size |-> n]}
          /\ n \in Nat \ {0}
      BY <1>1, <1>2, <2>2 DEF Moved
    <3>2. Layout(blocks, total, used, {})
      BY <1>1 DEF IInv, LayoutInv
    <3>3. Layout(blocks, total + (n + PtrSize), used + (n + PtrSize),
                 {[addr |-> Start + used, size |-> n]})
      BY <1>0, <3>1, <3>2, LayoutBrk
    <3> QED
      BY <1>1, <3>1, <3>3 DEF LayoutInv
  <2> QED
    BY <2>1, <2>2
<1>7. own'[h] # Null => /\ Extent(brks', own'[h], asked'[h])
                        /\ own'[h] >= Start + used
  <2> SUFFICES ASSUME a # Null
               PROVE  /\ Extent(brks', own'[h], asked'[h])
                      /\ own'[h] >= Start + used
    BY <1>3
  <2> DEFINE b == [addr |-> a, size |-> n]
  <2>1. b \in brks' /\ b.addr = a /\ b.size = n
    BY <1>1
  <2>2. own'[h] = a /\ asked'[h] = n /\ n > 0 /\ a = Start + used
    BY <1>2, <1>3
  <2>3. Extent(brks', own'[h], asked'[h])
    <3> HIDE DEF b
    <3> QED
      BY <2>1, <2>2 DEF Extent
  <2> QED
    BY <1>0, <2>2, <2>3
<1>8. N' >= N /\ brks \subseteq brks'
  BY <1>0, <1>1, <1>4
<1>9. \A i \in 1 .. N : blocks'[i].is_free => blocks[i].is_free
  BY <1>1
<1>10. OwnersInv'
  BY <1>3, <1>4, <1>5, <1>6, <1>7, <1>8, <1>9, OwnersStep
<1> QED
  BY <1>5, <1>6, <1>10 DEF IInv

(* The block whose data pointer somebody holds: his memory lies in it. *)
LEMMA FindDataIs ==
    ASSUME IInv, NEW p, FindData(p) # 0
    PROVE  FindData(p) \in 1 .. N /\ blocks[FindData(p)].data = p
<1> DEFINE found == {i \in DOMAIN blocks : blocks[i].data = p}
<1>1. DOMAIN blocks = 1 .. N /\ N \in Nat
  BY DomainBlocks DEF IInv
<1>2. found \in SUBSET Nat /\ found # {} /\ FindData(p) = CHOOSE i \in found : \A j \in found : i <= j
  BY <1>1 DEF FindData
<1>3. FindData(p) \in found
  <2> HIDE DEF found
  <2> QED
    BY <1>2, LeastIndex
<1> QED
  BY <1>1, <1>3

LEMMA HeldBlock ==
    ASSUME IInv, NEW h \in Handles, own[h] # Null,
           NEW i \in 1 .. N, blocks[i].data = own[h]
    PROVE  InBlock(h, i) /\ ~ blocks[i].is_free
<1>0. /\ blocks \in Seq(Block) /\ used \in Nat /\ brks \in SUBSET [addr : Nat, size : Nat]
      /\ own[h] \in Nat /\ asked[h] \in Nat
  BY DEF IInv, TypeOK
<1>a. DataLayout(blocks, used, brks)
  BY <1>0, LayoutData DEF IInv, LayoutInv
<1>b. /\ blocks[i].data # Null /\ blocks[i].data \in Nat /\ blocks[i].size \in Nat \ {0}
      /\ blocks[i].data = own[h]
  BY <1>a DEF DataLayout, N
<1>1. ~ InBrk(h)
  <2> SUFFICES ASSUME NEW b \in brks, own[h] = b.addr, asked[h] = b.size
               PROVE  FALSE
    BY DEF InBrk, Extent
  <2>1. Apart(b.addr, b.size, blocks[i].data, blocks[i].size)
    BY <1>a, <1>b DEF DataLayout, N
  <2>2. Apart(own[h], asked[h], own[h], blocks[i].size) /\ asked[h] \in Nat \ {0}
    BY <1>a, <1>b, <2>1 DEF DataLayout
  <2> QED
    BY <1>0, <1>b, <2>2 DEF Apart
<1>2. PICK j \in 1 .. N : InBlock(h, j) /\ ~ blocks[j].is_free
  BY <1>1 DEF IInv, OwnersInv
<1>3. i = j
  <2> SUFFICES ASSUME i # j
               PROVE  FALSE
    OBVIOUS
  <2>1. /\ blocks[j].data \in Nat /\ blocks[j].size \in Nat \ {0}
        /\ blocks[j].data <= own[h]
        /\ own[h] + asked[h] <= blocks[j].data + blocks[j].size
    BY <1>a, <1>2 DEF DataLayout, InBlock, In, N
  <2>2. WideApart(blocks[i].data, blocks[i].size, blocks[j].data, blocks[j].size)
    BY <1>a, <1>b, <1>2 DEF DataLayout, InBlock, In, N
  <2> DEFINE p == own[h]
             n == asked[h]
             s == blocks[i].size
             d == blocks[j].data
             z == blocks[j].size
  <2>3. /\ p \in Nat /\ n \in Nat /\ s \in Nat \ {0} /\ d \in Nat /\ z \in Nat
        /\ d <= p /\ p + n <= d + z /\ WideApart(p, s, d, z)
    BY <1>0, <1>b, <2>1, <2>2
  <2> HIDE DEF p, n, s, d, z
  <2> QED
    BY <2>3 DEF WideApart
<1> QED
  BY <1>2, <1>3

LEMMA KfreeStep ==
    ASSUME IInv, NEW h \in Handles, Kfree(h)
    PROVE  IInv'
<1> DEFINE i == FindData(own[h])
           c == [blocks EXCEPT ![i].is_free = TRUE]
<1>0. blocks \in Seq(Block) /\ N \in Nat /\ own[h] \in Nat \cup {Null} /\ Null \notin Int
  BY DomainBlocks DEF IInv, TypeOK, KheapConstants
<1>1. /\ blocks' = IF i = 0 THEN blocks ELSE c
      /\ UNCHANGED <<total, used, brks>>
      /\ own' = [own EXCEPT ![h] = Null]
      /\ asked' = [asked EXCEPT ![h] = 0]
      /\ filled' = [filled EXCEPT ![h] = 0]
  BY DEF Kfree
<1>2. /\ own' \in [Handles -> Nat \cup {Null}]
      /\ asked' \in [Handles -> Nat]
      /\ filled' \in [Handles -> Nat]
      /\ own'[h] = Null
      /\ \A g \in Handles \ {h} : own'[g] = own[g] /\ asked'[g] = asked[g]
  BY <1>1 DEF IInv, TypeOK
<1>3. i # 0 => /\ i \in 1 .. N
               /\ own[h] = Null => blocks[i].data = Null
               /\ own[h] # Null => InBlock(h, i)
  BY FindDataIs, HeldBlock
<1> HIDE DEF i
<1>4. /\ blocks' \in Seq(Block) /\ N' = N
      /\ \A k \in 1 .. N : SameExtent(blocks'[k], blocks[k])
      /\ \A k \in 1 .. N : blocks'[k].is_free => blocks[k].is_free \/ k = i
  <2>1. CASE i = 0
    BY <1>0, <1>1, <2>1 DEF SameExtent, N
  <2>2. CASE i # 0
    <3>1. i \in 1 .. N /\ blocks[i] \in Block /\ blocks' = c
      BY <1>0, <1>1, <1>3, <2>2 DEF N
    <3>2. [blocks[i] EXCEPT !.is_free = TRUE] \in Block
      BY <3>1 DEF Block
    <3>3. c \in Seq(Block) /\ Len(c) = N
      BY <1>0, <3>1, <3>2 DEF N
    <3>4. ASSUME NEW k \in 1 .. N
          PROVE  c[k] = IF k = i THEN [blocks[i] EXCEPT !.is_free = TRUE] ELSE blocks[k]
      BY <1>0, <3>1 DEF N
    <3> HIDE DEF c
    <3>5. \A k \in 1 .. N : /\ SameExtent(c[k], blocks[k])
                            /\ c[k].is_free => blocks[k].is_free \/ k = i
      BY <3>1, <3>4 DEF SameExtent, Block
    <3> QED
      BY <3>1, <3>3, <3>5 DEF N
  <2> QED
    BY <2>1, <2>2
<1>a. UNCHANGED <<total, used, brks>>
  BY <1>1
<1>b. \A k \in 1 .. N : SameExtent(blocks'[k], blocks[k])
  BY <1>4 DEF SameExtent
<1>5. TypeOK'
  BY <1>1, <1>2, <1>4 DEF IInv, TypeOK
<1>6. LayoutInv'
  BY <1>4, <1>a, <1>b, LayoutSame
<1>7. \A k \in 1 .. N : blocks'[k].is_free =>
               \/ blocks[k].is_free
               \/ blocks[k].data = Null
               \/ own[h] # Null /\ InBlock(h, k)
  <2> SUFFICES ASSUME NEW k \in 1 .. N, blocks'[k].is_free, ~ blocks[k].is_free
               PROVE  blocks[k].data = Null \/ (own[h] # Null /\ InBlock(h, k))
    OBVIOUS
  <2>1. k = i /\ i # 0
    <3>1. k = i
      BY <1>4
    <3> QED
      BY <1>0, <3>1
  <2> QED
    BY <1>3, <2>1
<1>8. N' >= N /\ brks \subseteq brks'
  BY <1>0, <1>1, <1>4
<1>9. OwnersInv'
  BY <1>2, <1>5, <1>6, <1>7, <1>8, <1>b, OwnersStep
<1> QED
  BY <1>5, <1>6, <1>9 DEF IInv

LEMMA KreallocFreshStep ==
    ASSUME IInv, NEW h \in Handles, NEW n \in Nat, NEW k \in Nat,
           FindData(own[h]) # 0,
           SetHeap([NewBlock(n) EXCEPT !.blocks[FindData(own[h])].is_free = TRUE]),
           Holds(h, NewBlock(n).ptr, n, k), brks' = brks
    PROVE  IInv'
<1> DEFINE i == FindData(own[h])
           r == NewBlock(n)
           c == [r.blocks EXCEPT ![i].is_free = TRUE]
<1>0. blocks \in Seq(Block) /\ N \in Nat /\ own[h] \in Nat \cup {Null} /\ Null \notin Int
  BY DomainBlocks DEF IInv, TypeOK, KheapConstants
<1>1. /\ i \in 1 .. N
      /\ own[h] = Null => blocks[i].data = Null
      /\ own[h] # Null => InBlock(h, i) /\ ~ blocks[i].is_free
  BY FindDataIs, HeldBlock
<1>2. HeapSize >= HdrSize + PtrSize
  BY <1>0, <1>1 DEF IInv, LayoutInv, Layout, N
<1>3. MallocDoes(r, n) /\ NewLayout(r, n)
  BY <1>2, NewBlockDoes, NewBlockEffect
<1>4. total' = r.total /\ used' = r.used /\ blocks' = c
  BY DEF SetHeap, NewBlock
<1>5. r.ptr \in Nat \cup {Null}
  BY <1>3 DEF MallocDoes
<1>6. /\ own' \in [Handles -> Nat \cup {Null}]
      /\ asked' \in [Handles -> Nat]
      /\ filled' \in [Handles -> Nat]
      /\ own'[h] = r.ptr
      /\ asked'[h] = IF r.ptr = Null THEN 0 ELSE n
      /\ \A g \in Handles \ {h} : own'[g] = own[g] /\ asked'[g] = asked[g]
  BY <1>5, HoldsEffect DEF IInv
<1> HIDE DEF i, r
<1>7. i \in 1 .. Len(r.blocks) /\ r.blocks[i] = blocks[i] /\ r.blocks \in Seq(Block)
  BY <1>0, <1>1, <1>3 DEF NewLayout
<1>8. r.blocks[i] \in Block /\ [r.blocks[i] EXCEPT !.is_free = TRUE] \in Block
  <2>1. r.blocks[i] \in Block
    BY <1>7
  <2> QED
    BY <2>1 DEF Block
<1>9. c \in Seq(Block) /\ Len(c) = Len(r.blocks)
  BY <1>7, <1>8
<1>10. ASSUME NEW k1 \in 1 .. Len(r.blocks)
       PROVE  c[k1] = IF k1 = i THEN [r.blocks[i] EXCEPT !.is_free = TRUE] ELSE r.blocks[k1]
  BY <1>7
<1>11. N' = Len(r.blocks)
  BY <1>4, <1>9 DEF N
<1>12. \A k1 \in 1 .. N' : SameExtent(blocks'[k1], r.blocks[k1])
  <2>1. SameExtent([r.blocks[i] EXCEPT !.is_free = TRUE], r.blocks[i])
    BY <1>8 DEF SameExtent, Block
  <2>2. ASSUME NEW k1 \in 1 .. Len(r.blocks)
        PROVE  SameExtent(c[k1], r.blocks[k1])
    <3>1. CASE k1 = i
      BY <1>10, <2>1, <3>1
    <3>2. CASE k1 # i
      BY <1>10, <3>2 DEF SameExtent
    <3> QED
      BY <3>1, <3>2
  <2> QED
    BY <1>4, <1>11, <2>2
<1>13. \A k1 \in 1 .. N' : blocks'[k1].is_free =>
               \/ r.blocks[k1].is_free
               \/ /\ k1 \in 1 .. N
                  /\ ~ blocks[k1].is_free
                  /\ blocks[k1].data = Null \/ (own[h] # Null /\ InBlock(h, k1))
  <2> SUFFICES ASSUME NEW k1 \in 1 .. N', blocks'[k1].is_free, ~ r.blocks[k1].is_free
               PROVE  /\ k1 \in 1 .. N
                      /\ ~ blocks[k1].is_free
                      /\ blocks[k1].data = Null \/ (own[h] # Null /\ InBlock(h, k1))
    OBVIOUS
  <2>1. k1 = i
    <3> HIDE DEF c
    <3> QED
      BY <1>4, <1>10, <1>11
  <2>2. ~ blocks[i].is_free
    BY <1>7, <2>1
  <2> QED
    BY <1>1, <2>1, <2>2
<1>14. TypeOK'
  <2>1. blocks' \in Seq(Block)
    BY <1>4, <1>9
  <2> QED
    BY <1>3, <1>4, <1>6, <2>1 DEF TypeOK, MallocDoes, IInv
<1>15. own'[h] # Null => /\ r.ptr # Null
                         /\ r.ptr <= own'[h]
                         /\ own'[h] + asked'[h] <= r.ptr + n
  <2>1. r.ptr # Null => n > 0
    BY <1>3 DEF NewLayout
  <2> QED
    BY <1>5, <1>6, <2>1
<1> HIDE DEF c
<1> QED
  BY <1>3, <1>4, <1>6, <1>11, <1>12, <1>13, <1>14, <1>15, HeapCall

LEMMA SameHeap ==
    ASSUME IInv, NEW h \in Handles, UNCHANGED <<heap, brks>>,
           own' \in [Handles -> Nat \cup {Null}], asked' \in [Handles -> Nat],
           filled' \in [Handles -> Nat],
           \A g \in Handles \ {h} : own'[g] = own[g] /\ asked'[g] = asked[g],
           own'[h] = Null
    PROVE  IInv'
<1>1. UNCHANGED <<total, used, blocks, brks>>
  BY DEF heap
<1>2. TypeOK'
  BY <1>1 DEF IInv, TypeOK
<1>3. N' = N /\ N \in Nat
  BY <1>1, DomainBlocks DEF IInv, N
<1>4. \A i \in 1 .. N : SameExtent(blocks'[i], blocks[i])
  BY <1>1 DEF SameExtent
<1>5. LayoutInv'
  BY <1>1, <1>3, <1>4, LayoutSame
<1>6. N' >= N /\ brks \subseteq brks' /\ \A i \in 1 .. N : blocks'[i].is_free => blocks[i].is_free
  BY <1>1, <1>3
<1>7. OwnersInv'
  BY <1>2, <1>4, <1>5, <1>6, OwnersStep
<1> QED
  BY <1>2, <1>5, <1>7 DEF IInv

LEMMA KreallocStep ==
    ASSUME IInv, NEW h \in Handles, NEW n \in Nat, Krealloc(h, n)
    PROVE  IInv'
<1> DEFINE i == FindData(own[h])
<1>1. CASE i = 0
  <2>1. UNCHANGED <<heap, brks>> /\ Holds(h, Null, n, 0)
    BY <1>1 DEF Krealloc
  <2>2. /\ own' \in [Handles -> Nat \cup {Null}]
        /\ asked' \in [Handles -> Nat]
        /\ filled' \in [Handles -> Nat]
        /\ own'[h] = Null
        /\ \A g \in Handles \ {h} : own'[g] = own[g] /\ asked'[g] = asked[g]
    BY <2>1, HoldsEffect DEF IInv
  <2> QED
    BY <2>1, <2>2, SameHeap
<1>2. CASE i # 0
  <2> DEFINE k == IF NewBlock(n).ptr = Null THEN 0 ELSE Kept(h, Copied(i, n))
  <2>1. i \in 1 .. N
    BY <1>2, FindDataIs
  <2>2. blocks[i].size \in Nat /\ filled[h] \in Nat
    BY <2>1, BlockFields DEF IInv, TypeOK, N
  <2>3. k \in Nat
    BY <2>2 DEF Kept, Copied
  <2>4. /\ SetHeap([NewBlock(n) EXCEPT !.blocks[i].is_free = TRUE])
        /\ Holds(h, NewBlock(n).ptr, n, k)
        /\ brks' = brks
    BY <1>2 DEF Krealloc
  <2> HIDE DEF k
  <2> QED
    BY <1>2, <2>3, <2>4, KreallocFreshStep
<1> QED
  BY <1>1, <1>2

----------------------------------------------------------------------------
LEMMA InitInv == Init => IInv
<1> SUFFICES ASSUME Init
             PROVE  IInv
  OBVIOUS
<1>1. TypeOK
  BY DEF Init, TypeOK, KheapConstants
<1>2. LayoutInv
  BY DEF Init, LayoutInv, Layout, KheapConstants
<1>3. OwnersInv
  BY DEF Init, OwnersInv
<1> QED
  BY <1>1, <1>2, <1>3 DEF IInv

LEMMA StepInv == IInv /\ [Next]_vars => IInv'
<1> SUFFICES ASSUME IInv, [Next]_vars
             PROVE  IInv'
  OBVIOUS
<1> USE DEF KheapConstants
<1>1. ASSUME NEW h \in Handles, Kfree(h)
      PROVE  IInv'
  BY <1>1, KfreeStep
<1>2. ASSUME NEW h \in Handles, Fill(h)
      PROVE  IInv'
  BY <1>2 DEF Fill, heap, IInv, TypeOK, LayoutInv, OwnersInv, InBlock, InBrk, N
<1>3. ASSUME NEW h \in Handles, NEW n \in Sizes, Kbrk(h, n)
      PROVE  IInv'
  BY <1>3, KbrkStep
<1>4. ASSUME NEW h \in Handles, NEW n \in Sizes, Kmalloc(h, n)
      PROVE  IInv'
  <2>1. SetHeap(Malloc(n)) /\ brks' = brks /\ Holds(h, Malloc(n).ptr, n, 0)
    BY <1>4 DEF Kmalloc
  <2> QED
    BY <2>1, KmallocStep
<1>5. ASSUME NEW h \in Handles, NEW n \in Sizes, Kcalloc(h, n)
      PROVE  IInv'
  <2> DEFINE k == IF Malloc(n).ptr = Null THEN 0 ELSE n
  <2>1. SetHeap(Malloc(n)) /\ brks' = brks /\ Holds(h, Malloc(n).ptr, n, k) /\ k \in Nat
    BY <1>5 DEF Kcalloc
  <2> HIDE DEF k
  <2> QED
    BY <2>1, KmallocStep
<1>6. ASSUME NEW h \in Handles, NEW n \in Sizes, Krealloc(h, n)
      PROVE  IInv'
  BY <1>6, KreallocStep
<1>7. ASSUME NEW h \in Handles, NEW n \in Sizes, NEW a \in Aligns, MallocAligned(h, n, a)
      PROVE  IInv'
  BY <1>7, MallocAlignedStep
<1>8. CASE UNCHANGED vars
  BY <1>8 DEF vars, IInv, TypeOK, LayoutInv, OwnersInv, InBlock, InBrk, N
<1> QED
  BY <1>1, <1>2, <1>3, <1>4, <1>5, <1>6, <1>7, <1>8 DEF Next

(***************************************************************************)
(* What the invariant says of bytes.                                       *)
(***************************************************************************)
LEMMA ApartBytes ==
    ASSUME NEW a \in Nat \cup {Null}, NEW m \in Nat, NEW b \in Nat \cup {Null}, NEW n \in Nat,
           a # Null /\ b # Null => Apart(a, m, b, n)
    PROVE  Bytes(a, m) \cap Bytes(b, n) = {}
  BY DEF Apart, Bytes, KheapConstants

LEMMA InvHeadersReal == IInv => HeadersReal
  BY DomainBlocks DEF IInv, LayoutInv, Layout, HeadersReal, N

LEMMA InvNoOverlap == IInv => NoOverlap
<1> SUFFICES ASSUME IInv, NEW h \in Handles
             PROVE  /\ \A g \in Handles \ {h} : Region(h) \cap Region(g) = {}
                    /\ \A i \in DOMAIN blocks : Region(h) \cap HdrBytes(i) = {}
  BY DEF NoOverlap
<1>0. /\ \A g \in Handles : own[g] \in Nat \cup {Null} /\ asked[g] \in Nat
      /\ blocks \in Seq(Block) /\ used \in Nat /\ brks \in SUBSET [addr : Nat, size : Nat]
      /\ HdrSize \in Nat /\ Start \in Nat /\ Null \notin Int
      /\ DOMAIN blocks = 1 .. N /\ N \in Nat
  BY DomainBlocks DEF IInv, TypeOK, KheapConstants
<1>1. ASSUME NEW g \in Handles \ {h}
      PROVE  Region(h) \cap Region(g) = {}
  <2>1. own[h] # Null /\ own[g] # Null => Apart(own[h], asked[h], own[g], asked[g])
    BY DEF IInv, OwnersInv
  <2> QED
    BY <1>0, <2>1, ApartBytes DEF Region
<1>2. ASSUME NEW i \in DOMAIN blocks
      PROVE  Region(h) \cap HdrBytes(i) = {}
  <2>1. blocks[i].hdr \in Nat /\ i \in 1 .. N
    BY <1>0, BlockFields DEF IInv, LayoutInv, Layout, N
  <2>2. ASSUME own[h] # Null
        PROVE  Apart(own[h], asked[h], blocks[i].hdr, HdrSize)
    <3>1. CASE InBrk(h)
      BY <2>1, <3>1 DEF InBrk, Extent, IInv, LayoutInv, Layout, N
    <3>2. CASE \E j \in 1 .. N : InBlock(h, j)
      <4>1. PICK j \in 1 .. N : InBlock(h, j)
        BY <3>2
      <4>2. /\ blocks[j].data # Null
            /\ blocks[j].data <= own[h]
            /\ own[h] + asked[h] <= blocks[j].data + blocks[j].size
            /\ blocks[j].data \in Nat /\ blocks[j].size \in Nat /\ blocks[j].hdr \in Nat
        BY <1>0, <4>1, BlockFields DEF InBlock, In, IInv, LayoutInv, Layout, N
      <4>3. /\ blocks[j].hdr + HdrSize <= blocks[j].data
            /\ i > j => blocks[j].data + blocks[j].size <= blocks[i].hdr
            /\ i < j => blocks[i].hdr + HdrSize <= blocks[j].hdr
        BY <2>1, <4>1, <4>2 DEF IInv, LayoutInv, Layout, N
      <4> DEFINE p == own[h]
                 n == asked[h]
                 x == blocks[i].hdr
                 y == blocks[j].hdr
                 d == blocks[j].data
                 z == blocks[j].size
      <4>4. /\ p \in Nat /\ n \in Nat /\ x \in Nat /\ y \in Nat /\ d \in Nat /\ z \in Nat
            /\ d <= p /\ p + n <= d + z
            /\ y + HdrSize <= d
            /\ i > j => d + z <= x
            /\ i < j => x + HdrSize <= y
            /\ i = j => x = y
        BY <1>0, <2>1, <2>2, <4>2, <4>3
      <4> HIDE DEF p, n, x, y, d, z
      <4>5. Apart(p, n, x, HdrSize)
        BY <1>0, <2>1, <4>1, <4>4 DEF Apart
      <4> QED
        BY <4>5 DEF p, n, x
    <3> QED
      BY <2>2, <3>1, <3>2 DEF IInv, OwnersInv
  <2> QED
    BY <1>0, <2>1, <2>2, ApartBytes DEF Region, HdrBytes
<1> QED
  BY <1>1, <1>2

LEMMA InvHeldNotFree == IInv => HeldNotFree
<1> SUFFICES ASSUME IInv, NEW h \in Handles, NEW i \in DOMAIN blocks,
                    Region(h) \cap DataBytes(i) # {}
             PROVE  Region(h) \subseteq DataBytes(i) /\ ~ blocks[i].is_free
  BY DEF HeldNotFree
<1>0. /\ own[h] \in Nat \cup {Null} /\ asked[h] \in Nat
      /\ blocks \in Seq(Block) /\ used \in Nat /\ brks \in SUBSET [addr : Nat, size : Nat]
      /\ Null \notin Int
      /\ i \in 1 .. N /\ N \in Nat
      /\ blocks[i].data \in Nat \cup {Null} /\ blocks[i].size \in Nat
  BY DomainBlocks, BlockFields DEF IInv, TypeOK, KheapConstants, N
<1>a. DataLayout(blocks, used, brks)
  BY <1>0, LayoutData DEF IInv, LayoutInv
<1>1. own[h] # Null /\ blocks[i].data # Null
  BY DEF Region, DataBytes, Bytes
<1>2. ~ Apart(own[h], asked[h], blocks[i].data, blocks[i].size)
  BY <1>0, ApartBytes DEF Region, DataBytes
<1>3. ~ InBrk(h)
  BY <1>0, <1>1, <1>2, <1>a DEF InBrk, Extent, DataLayout, N
<1>4. PICK j \in 1 .. N : InBlock(h, j) /\ ~ blocks[j].is_free
  BY <1>1, <1>3 DEF IInv, OwnersInv
<1> DEFINE p == own[h]
           n == asked[h]
           d == blocks[j].data
           z == blocks[j].size
           e == blocks[i].data
           y == blocks[i].size
<1>5. /\ p \in Nat /\ n \in Nat /\ d \in Nat /\ z \in Nat /\ e \in Nat /\ y \in Nat
      /\ d <= p /\ p + n <= d + z
  BY <1>0, <1>1, <1>4, BlockFields DEF InBlock, In, N
<1>6. i # j => WideApart(e, y, d, z)
  BY <1>0, <1>1, <1>4, <1>a DEF DataLayout, InBlock, In, N
<1>7. ~ Apart(p, n, e, y)
  BY <1>2
<1>8. i = j
  <2> HIDE DEF p, n, d, z, e, y
  <2> QED
    BY <1>5, <1>6, <1>7 DEF Apart, WideApart
<1>9. Region(h) \subseteq DataBytes(i)
  <2>1. p .. p + n - 1 \subseteq d .. d + z - 1
    <3> HIDE DEF p, n, d, z
    <3> QED
      BY <1>5
  <2> QED
    BY <1>1, <1>8, <2>1 DEF Region, DataBytes, Bytes
<1> QED
  BY <1>4, <1>8, <1>9

(***************************************************************************)
(* For every heap, every set of sizes and any number of holders: headers   *)
(* are never written through NULL, memory two holders were given never     *)
(* overlaps and never contains a header, and held memory is never up for   *)
(* reuse (kheap.c:73-259).                                                 *)
(***************************************************************************)
THEOREM HeapSafety == Spec => [](TypeOK /\ HeadersReal /\ NoOverlap /\ HeldNotFree)
<1>1. Init => IInv
  BY InitInv
<1>2. IInv /\ [Next]_vars => IInv'
  BY StepInv
<1>3. IInv => TypeOK /\ HeadersReal /\ NoOverlap /\ HeldNotFree
  BY InvHeadersReal, InvNoOverlap, InvHeldNotFree DEF IInv
<1> QED
  BY <1>1, <1>2, <1>3, PTL DEF Spec

(* Every block a caller can be given has a header of its own, never NULL.   *)
THEOREM HeadersAlwaysReal == Spec => []HeadersReal
<1>1. Spec => [](TypeOK /\ HeadersReal /\ NoOverlap /\ HeldNotFree)
  BY HeapSafety
<1> QED
  BY <1>1, PTL

(* No two callers are given overlapping memory.                            *)
THEOREM MemoryNeverShared == Spec => []NoOverlap
<1>1. Spec => [](TypeOK /\ HeadersReal /\ NoOverlap /\ HeldNotFree)
  BY HeapSafety
<1> QED
  BY <1>1, PTL

(* Memory that is held is never in a block marked free, which the next     *)
(* search would give away.                                                 *)
THEOREM HeldNeverFree == Spec => []HeldNotFree
<1>1. Spec => [](TypeOK /\ HeadersReal /\ NoOverlap /\ HeldNotFree)
  BY HeapSafety
<1> QED
  BY <1>1, PTL
=============================================================================
