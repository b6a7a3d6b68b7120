--------------------------- MODULE FatChainsProof ---------------------------
(***************************************************************************)
(* The table of the FAT library, for every size of the volume: every call, *)
(* however it fails, keeps the variables in their types, keeps the table a *)
(* table of files, and writes the media in an order that leaves no cluster *)
(* in two files wherever the machine stops.  The calls are loops over the  *)
(* one FAT buffer; for each loop one lemma says what all its rounds        *)
(* together do (Loop, LoopStays), and the proof follows the layers of the  *)
(* library: the disk, the FAT buffer, chains, the directory, the sectors   *)
(* of a file, the calls.                                                   *)
(***************************************************************************)
EXTENDS FatProof, SequenceTheorems

(* What the constants are.                                                 *)
LEMMA Sizes ==
  /\ SectorSize \in Nat /\ SectorSize > 0 /\ SectorsPerCluster \in Nat /\ SectorsPerCluster > 0
  /\ EntriesPerSector \in Nat /\ EntriesPerSector > 0 /\ FatSectors \in Nat /\ FatSectors > 0
  /\ DirSlots \in Nat /\ DirSlots > 0 /\ MaxLength \in Nat
<1>1. /\ SectorSize \in Nat \ {0} /\ SectorsPerCluster \in Nat \ {0} /\ EntriesPerSector \in Nat \ {0}
      /\ FatSectors \in Nat \ {0} /\ DirSlots \in Nat \ {0} /\ MaxLength \in Nat
  BY FatAssumption, Zenon
<1> QED
  BY <1>1

LEMMA Clusters ==
  /\ NoCluster \in Nat /\ NoCluster > 2 /\ LastCluster \in Nat /\ LastCluster < NoCluster
  /\ Entries = 0 .. NoCluster - 1 /\ Root = 2 /\ Root \in Entries /\ 0 \in Entries
  /\ End = -1 /\ None = -1 /\ End \notin Entries /\ End # 0
<1>1. NoCluster \in Nat
  BY Sizes DEF NoCluster
<1>2. LastCluster \in 2 .. NoCluster - 1
  BY FatAssumption DEF NoCluster
<1> QED
  BY <1>1, <1>2 DEF Entries, Root, End, None

(* Division by a positive number.                                          *)
LEMMA Division ==
  ASSUME NEW a \in Nat, NEW b \in Nat, b > 0
  PROVE  /\ a \div b \in Nat /\ a % b \in 0 .. b - 1
         /\ a = b * (a \div b) + (a % b)
  BY SMT

LEMMA Monotone ==
  ASSUME NEW a \in Nat, NEW b \in Nat, NEW c \in Nat, a <= b
  PROVE  a * c <= b * c
<1>1. PICK d \in Nat : b = a + d
  BY b - a \in Nat, b = a + (b - a)
<1>2. d * c \in Nat /\ (a + d) * c = a * c + d * c /\ a * c \in Nat
  BY SMT
<1> QED
  BY <1>1, <1>2

LEMMA SectorOfType == \A c \in Entries : SectorOf(c) \in 0 .. FatSectors - 1
<1> TAKE c \in Entries
<1> DEFINE q == c \div EntriesPerSector
<1>1. c \in Nat /\ c < FatSectors * EntriesPerSector
  BY Clusters DEF NoCluster
<1>2. q \in Nat /\ c = EntriesPerSector * q + (c % EntriesPerSector) /\ c % EntriesPerSector \in Nat
  BY <1>1, Sizes, Division
<1> HIDE DEF q
<1>3. ASSUME q >= FatSectors PROVE FALSE
  <2>1. FatSectors * EntriesPerSector <= q * EntriesPerSector
    BY <1>2, <1>3, Sizes, Monotone
  <2>2. q * EntriesPerSector = EntriesPerSector * q /\ EntriesPerSector * q \in Nat
    BY <1>2, Sizes
  <2>3. FatSectors * EntriesPerSector \in Nat
    BY Sizes
  <2> QED
    BY <1>1, <1>2, <2>1, <2>2, <2>3
<1>4. q \in 0 .. FatSectors - 1
  BY <1>2, <1>3, Sizes
<1> QED
  BY <1>4 DEF q, SectorOf

----------------------------------------------------------------------------
(* Loops.  Induction over the rounds of a loop, as a statement about the   *)
(* set of rounds after which something holds.                              *)
LEMMA RoundInduction ==
  ASSUME NEW N \in Nat, NEW D, 0 \in D, \A i \in 1 .. N : i - 1 \in D => i \in D
  PROVE  \A i \in 0 .. N : i \in D
<1> DEFINE B == {i \in 0 .. N : i \notin D}
<1> SUFFICES ASSUME B # {} PROVE FALSE
  OBVIOUS
<1>1. B \subseteq Nat
  OBVIOUS
<1>2. PICK i \in B : \A j \in B : ~ (<<j, i>> \in OpToRel(<, Nat))
  BY <1>1, NatLessThanWellFounded, WFMin, Zenon
<1>3. \A j \in B : ~ (j < i)
  BY <1>1, <1>2 DEF OpToRel
<1>4. i # 0 /\ i - 1 \in 0 .. N /\ i - 1 < i /\ i \in 1 .. N
  OBVIOUS
<1>5. i - 1 \in D
  BY <1>3, <1>4
<1> QED
  BY <1>4, <1>5

(* Round i of a loop on values of S is F[t, i]: the function f is a run of *)
(* the loop from s, and f has in it what the loop says of a run.           *)
Run(f, n, S, s, F) ==
    f \in [0 .. n -> S] /\ f[0] = s /\ \A i \in 1 .. n : f[i] = F[<<f[i - 1], i>>]
Rounds(f, n, S, s, F) ==
    f[0] = s /\ \A i \in 1 .. n : f[i - 1] \in S => f[i] = F[<<f[i - 1], i>>]

(* The loop has a run.                                                     *)
LEMMA Loop ==
  ASSUME NEW n \in Nat, NEW S, NEW s \in S, NEW F \in [S \X (1 .. n) -> S]
  PROVE  \E f : Run(f, n, S, s, F)
<1> DEFINE D == {m \in 0 .. n : \E f : Run(f, m, S, s, F)}
<1>1. 0 \in D
  <2>1. Run([i \in 0 .. 0 |-> s], 0, S, s, F)
    BY DEF Run
  <2>2. 0 \in 0 .. n
    OBVIOUS
  <2> QED
    BY <2>1, <2>2
<1>2. ASSUME NEW m \in 1 .. n, m - 1 \in D PROVE m \in D
  <2>1. PICK f : Run(f, m - 1, S, s, F)
    BY <1>2
  <2> DEFINE x == F[<<f[m - 1], m>>]
             g == [i \in 0 .. m |-> IF i = m THEN x ELSE f[i]]
  <2>2. f[m - 1] \in S
    BY <2>1 DEF Run
  <2>3. x \in S
    BY <2>2
  <2>4. \A i \in 0 .. m - 1 : f[i] \in S
    BY <2>1 DEF Run
  <2>5. g \in [0 .. m -> S]
    <3> SUFFICES ASSUME NEW i \in 0 .. m PROVE (IF i = m THEN x ELSE f[i]) \in S
      OBVIOUS
    <3>1. i # m => i \in 0 .. m - 1
      OBVIOUS
    <3> QED
      BY <2>3, <2>4, <3>1
  <2>6. g[0] = s /\ g[m] = x /\ \A i \in 0 .. m - 1 : g[i] = f[i]
    BY <2>1 DEF Run
  <2> HIDE DEF g
  <2>7. ASSUME NEW i \in 1 .. m PROVE g[i] = F[<<g[i - 1], i>>]
    <3>1. i - 1 \in 0 .. m - 1 /\ g[i - 1] = f[i - 1]
      BY <2>6
    <3>2. CASE i = m
      BY <2>6, <3>1, <3>2
    <3>3. CASE i # m
      BY <2>1, <2>6, <3>1, <3>3 DEF Run
    <3> QED
      BY <3>2, <3>3
  <2>8. Run(g, m, S, s, F)
    BY <2>5, <2>6, <2>7 DEF Run
  <2> QED
    BY <2>8
<1> HIDE DEF D
<1>3. n \in D
  BY <1>1, <1>2, RoundInduction
<1> QED
  BY <1>3 DEF D

(* What runs from s and has these rounds stays in S.                       *)
LEMMA LoopStays ==
  ASSUME NEW n \in Nat, NEW S, NEW s \in S, NEW F \in [S \X (1 .. n) -> S],
         NEW f, Rounds(f, n, S, s, F)
  PROVE  \A i \in 0 .. n : f[i] \in S
<1> DEFINE D == {i \in 0 .. n : f[i] \in S}
<1>1. 0 \in D
  BY DEF Rounds
<1>2. ASSUME NEW i \in 1 .. n, i - 1 \in D PROVE i \in D
  <2>1. f[i - 1] \in S /\ f[i] = F[<<f[i - 1], i>>]
    BY <1>2 DEF Rounds
  <2>2. F[<<f[i - 1], i>>] \in S
    BY <2>1
  <2> QED
    BY <2>1, <2>2
<1> HIDE DEF D
<1>3. \A i \in 0 .. n : i \in D
  BY <1>1, <1>2, RoundInduction
<1> QED
  BY <1>3 DEF D

----------------------------------------------------------------------------
(* The types of what the library and the media hold.                       *)
Sector  == [1 .. SectorSize -> Nat]
Entry   == {NoEntry} \cup [name : Names, start : Entries, size : 0 .. MaxLength]
Link    == Entries \cup {End}
Table   == [Entries -> Link]
Dirs    == [Entries -> [1 .. DirSlots -> Entry]]
Datas   == [Entries -> [1 .. SectorsPerCluster -> Sector]]
Disks   == [fat : Table, dir : Dirs, data : Datas]

FatWrites  == [kind : {"fat"}, at : 0 .. FatSectors - 1, val : UNION {[D -> Link] : D \in SUBSET Entries}]
DirWrites  == [kind : {"dir"}, at : Entries \X (1 .. DirSlots), val : Entry]
Erasures   == [kind : {"erase"}, at : Entries]
DataWrites == [kind : {"data"}, at : Entries \X (1 .. SectorsPerCluster), val : Sector]
Writes     == FatWrites \cup DirWrites \cup Erasures \cup DataWrites

Buffers == {None} \cup 0 .. FatSectors - 1
Volume  == [fat : Table, dir : Dirs, data : Datas, sec : Buffers, dirty : BOOLEAN,
            hint : BOOLEAN, out : Seq(Writes), full : BOOLEAN]
Volumes == {s \in Volume : s.dirty => s.sec # None}

----------------------------------------------------------------------------
(* Chains.  The clusters after the two reserved entries of the table       *)
Cl == Root .. NoCluster - 1

(* s is the chain that begins with h.                                      *)
IsChain(fat, s, h) ==
    /\ s \in Seq(Cl) /\ s # <<>> /\ s[1] = h
    /\ \A i, j \in 1 .. Len(s) : s[i] = s[j] => i = j
    /\ \A i \in 1 .. Len(s) : fat[s[i]] = IF i = Len(s) THEN End ELSE s[i + 1]

Owned(fat, h) == {Chain(fat, h)[i] : i \in 1 .. Len(Chain(fat, h))}

(* The table holds the chains of the heads H, and nothing besides.         *)
SoundTable(fat, H) ==
    /\ fat \in Table
    /\ \A h \in H : IsChain(fat, Chain(fat, h), h)
    /\ \A g, h \in H : g # h => Owned(fat, g) \cap Owned(fat, h) = {}
    /\ UNION {Owned(fat, h) : h \in H} = {c \in Cl : fat[c] # 0}

LEMMA ClFacts == Cl \subseteq Entries /\ 0 \notin Cl /\ End \notin Cl /\ Root \in Cl
  BY Clusters DEF Cl

(* The last element of a sequence.                                         *)
LEMMA LastIs ==
  ASSUME NEW S, NEW s \in Seq(S), s # <<>>
  PROVE  Len(s) \in Nat /\ Len(s) > 0 /\ Last(s) = s[Len(s)] /\ Last(s) \in S
  BY DEF Last

(* A chain is no longer than the table.                                    *)
LEMMA ChainFits ==
  ASSUME NEW fat, NEW s, NEW h, IsChain(fat, s, h)
  PROVE  Len(s) \in Nat /\ Len(s) > 0 /\ Len(s) <= NoCluster
<1>1. s \in Seq(Cl) /\ s # <<>> /\ Len(s) \in Nat /\ Len(s) > 0
  BY LastIs DEF IsChain
<1>2. s \in Injection(1 .. Len(s), Cl)
  <2>1. s \in [1 .. Len(s) -> Cl]
    BY <1>1
  <2> QED
    BY <2>1 DEF IsChain, Injection, IsInjective
<1>3. IsFiniteSet(Cl) /\ Cardinality(Cl) = NoCluster - 2
  BY Clusters, FS_Interval DEF Cl
<1>4. Cardinality(1 .. Len(s)) = Len(s)
  BY <1>1, FS_Interval
<1>5. Cardinality(1 .. Len(s)) <= Cardinality(Cl)
  BY <1>1, <1>2, <1>3, FS_Injection
<1> QED
  BY <1>1, <1>3, <1>4, <1>5, Clusters

(* Following the table from h meets the chain of h, to its end.            *)
LEMMA ChainUnique ==
  ASSUME NEW fat, NEW s, NEW h, IsChain(fat, s, h)
  PROVE  Chain(fat, h) = s
<1> DEFINE N == NoCluster
           next(p) == IF fat[Last(p)] \in {0, End} THEN p ELSE Append(p, fat[Last(p)])
           run == CHOOSE f : f = [k \in 0 .. N |-> IF k = 0 THEN <<h>> ELSE next(f[k - 1])]
           m(k) == IF k + 1 <= Len(s) THEN k + 1 ELSE Len(s)
           g == [k \in 0 .. N |-> SubSeq(s, 1, m(k))]
<1>0. N \in Nat /\ Len(s) \in Nat /\ Len(s) > 0 /\ Len(s) <= N
  BY ChainFits, Clusters
<1>1. /\ s \in Seq(Cl) /\ s[1] = h
      /\ \A i \in 1 .. Len(s) : s[i] \in Cl /\ fat[s[i]] = IF i = Len(s) THEN End ELSE s[i + 1]
  BY DEF IsChain
<1>2. \A i \in 1 .. Len(s) : /\ SubSeq(s, 1, i) \in Seq(Cl) /\ Len(SubSeq(s, 1, i)) = i
                             /\ \A j \in 1 .. i : SubSeq(s, 1, i)[j] = s[j]
                             /\ Last(SubSeq(s, 1, i)) = s[i]
  <2> TAKE i \in 1 .. Len(s)
  <2>1. \A j \in 1 .. i : s[j] \in Cl
    BY <1>1
  <2>2. SubSeq(s, 1, i) \in Seq(Cl) /\ Len(SubSeq(s, 1, i)) = i
        /\ \A j \in 1 .. i : SubSeq(s, 1, i)[j] = s[j]
    BY <2>1, SubSeqProperties
  <2> QED
    BY <2>2 DEF Last
<1>3. SubSeq(s, 1, 1) = <<h>>
  <2>1. <<h>> \in Seq(Cl) /\ Len(<<h>>) = 1 /\ <<h>>[1] = h
    BY <1>0, <1>1
  <2>2. 1 \in 1 .. Len(s) /\ 1 \in 1 .. 1
    BY <1>0
  <2>3. SubSeq(s, 1, 1) \in Seq(Cl) /\ Len(SubSeq(s, 1, 1)) = 1 /\ SubSeq(s, 1, 1)[1] = s[1]
    BY <1>2, <2>2
  <2>4. \A i \in 1 .. Len(SubSeq(s, 1, 1)) : SubSeq(s, 1, 1)[i] = <<h>>[i]
    BY <1>1, <2>1, <2>3
  <2> QED
    BY <2>1, <2>3, <2>4, SeqEqual
<1>4. ASSUME NEW i \in 1 .. Len(s)
      PROVE  next(SubSeq(s, 1, i)) = IF i = Len(s) THEN SubSeq(s, 1, i) ELSE SubSeq(s, 1, i + 1)
  <2>1. CASE i = Len(s)
    BY <1>1, <1>2, <2>1
  <2>2. CASE i # Len(s)
    <3>1. fat[s[i]] = s[i + 1] /\ s[i + 1] \in Cl /\ i + 1 \in 1 .. Len(s)
      BY <1>0, <1>1, <2>2
    <3>2. next(SubSeq(s, 1, i)) = Append(SubSeq(s, 1, i), s[i + 1])
      BY <1>2, <3>1, ClFacts
    <3> DEFINE a == Append(SubSeq(s, 1, i), s[i + 1])
               b == SubSeq(s, 1, i + 1)
    <3>3. a \in Seq(Cl) /\ Len(a) = i + 1 /\ (\A j \in 1 .. i : a[j] = s[j]) /\ a[i + 1] = s[i + 1]
      BY <1>2, <3>1, AppendProperties
    <3>4. b \in Seq(Cl) /\ Len(b) = i + 1 /\ \A j \in 1 .. i + 1 : b[j] = s[j]
      BY <1>2, <3>1
    <3> HIDE DEF a, b
    <3>5. \A j \in 1 .. Len(a) : a[j] = b[j]
      BY <3>3, <3>4
    <3>6. a = b
      BY <3>3, <3>4, <3>5, SeqEqual
    <3> QED
      BY <2>2, <3>2, <3>6 DEF a, b
  <2> QED
    BY <2>1, <2>2
<1> HIDE DEF next
<1>5. g[0] = <<h>>
  BY <1>0, <1>3
<1>6. ASSUME NEW k \in 1 .. N PROVE g[k] = next(g[k - 1])
  <2>1. k - 1 \in 0 .. N /\ g[k - 1] = SubSeq(s, 1, m(k - 1)) /\ g[k] = SubSeq(s, 1, m(k))
    BY <1>0
  <2>2. m(k - 1) \in 1 .. Len(s) /\ m(k) = IF m(k - 1) = Len(s) THEN m(k - 1) ELSE m(k - 1) + 1
    BY <1>0
  <2> HIDE DEF g, m
  <2> QED
    BY <1>4, <2>1, <2>2
<1>7. g = [k \in 0 .. N |-> IF k = 0 THEN <<h>> ELSE next(g[k - 1])]
  <2> DEFINE r == [k \in 0 .. N |-> IF k = 0 THEN <<h>> ELSE next(g[k - 1])]
  <2>1. g = [k \in 0 .. N |-> g[k]] /\ r = [k \in 0 .. N |-> r[k]]
    OBVIOUS
  <2>2. r[0] = <<h>> /\ \A k \in 1 .. N : r[k] = next(g[k - 1])
    BY <1>0
  <2> HIDE DEF g, r
  <2>3. ASSUME NEW k \in 0 .. N PROVE g[k] = r[k]
    <3>1. k = 0 \/ k \in 1 .. N
      BY <1>0
    <3> QED
      BY <1>5, <1>6, <2>2, <3>1
  <2>4. g = r
    BY <2>1, <2>3
  <2> QED
    BY <2>4 DEF r
<1>8. g[N] = s
  <2>1. m(N) = Len(s)
    BY <1>0
  <2>2. g[N] = SubSeq(s, 1, Len(s))
    BY <1>0, <2>1
  <2> QED
    BY <1>1, <2>2, SubSeqFull
<1> HIDE DEF g, m
<1>9. run = [k \in 0 .. N |-> IF k = 0 THEN <<h>> ELSE next(run[k - 1])]
  BY <1>7
<1>10. Chain(fat, h) = run[N]
  BY DEF Chain, next
<1> HIDE DEF run
<1> DEFINE D == {k \in 0 .. N : run[k] = g[k]}
<1>11. 0 \in D
  BY <1>0, <1>5, <1>9
<1>12. ASSUME NEW k \in 1 .. N, k - 1 \in D PROVE k \in D
  <2>1. run[k] = next(run[k - 1])
    BY <1>0, <1>9
  <2> QED
    BY <1>6, <1>12, <2>1
<1> HIDE DEF D
<1>13. \A k \in 0 .. N : k \in D
  BY <1>0, <1>11, <1>12, RoundInduction
<1> QED
  BY <1>0, <1>8, <1>10, <1>13 DEF D

(* What is known of the chain of a head.                                   *)
LEMMA HeadFacts ==
  ASSUME NEW fat, NEW H, SoundTable(fat, H), NEW h \in H
  PROVE  /\ IsChain(fat, Chain(fat, h), h)
         /\ Chain(fat, h) \in Seq(Cl) /\ Len(Chain(fat, h)) \in Nat /\ Len(Chain(fat, h)) > 0
         /\ Chain(fat, h)[1] = h /\ h \in Owned(fat, h) /\ h \in Cl
         /\ Owned(fat, h) \subseteq Cl
         /\ \A c \in Owned(fat, h) : fat[c] # 0 /\ (fat[c] = End \/ fat[c] \in Owned(fat, h))
         /\ Last(Chain(fat, h)) = Chain(fat, h)[Len(Chain(fat, h))]
         /\ Last(Chain(fat, h)) \in Owned(fat, h) /\ fat[Last(Chain(fat, h))] = End
<1> DEFINE s == Chain(fat, h)
<1>1. IsChain(fat, s, h)
  BY DEF SoundTable
<1>2. Owned(fat, h) = {s[i] : i \in 1 .. Len(s)}
  BY DEF Owned
<1> HIDE DEF s
<1>3. s \in Seq(Cl) /\ s # <<>> /\ s[1] = h
  BY <1>1 DEF IsChain
<1>4. Len(s) \in Nat /\ Len(s) > 0 /\ Last(s) = s[Len(s)]
  BY <1>3, LastIs
<1>5. \A i \in 1 .. Len(s) : s[i] \in Cl /\ s[i] \in Owned(fat, h)
  BY <1>2, <1>3
<1>6. 1 \in 1 .. Len(s) /\ Len(s) \in 1 .. Len(s)
  BY <1>4
<1>7. ASSUME NEW c \in Owned(fat, h)
      PROVE  fat[c] # 0 /\ (fat[c] = End \/ fat[c] \in Owned(fat, h))
  <2>1. PICK i \in 1 .. Len(s) : c = s[i]
    BY <1>2
  <2>2. fat[c] = IF i = Len(s) THEN End ELSE s[i + 1]
    BY <1>1, <2>1 DEF IsChain
  <2>3. i # Len(s) => s[i + 1] \in Cl /\ s[i + 1] \in Owned(fat, h)
    BY <1>4, <1>5
  <2> QED
    BY <2>2, <2>3, ClFacts, Clusters
<1>8. fat[s[Len(s)]] = End
  BY <1>1, <1>6 DEF IsChain
<1>9. Owned(fat, h) \subseteq Cl
  BY <1>2, <1>5
<1> QED
  BY <1>1, <1>3, <1>4, <1>5, <1>6, <1>7, <1>8, <1>9 DEF s

(* A chain stays when none of its links changes.                           *)
LEMMA ChainStays ==
  ASSUME NEW fat, NEW g, NEW h, IsChain(fat, Chain(fat, h), h),
         \A c \in Owned(fat, h) : g[c] = fat[c]
  PROVE  IsChain(g, Chain(g, h), h) /\ Chain(g, h) = Chain(fat, h) /\ Owned(g, h) = Owned(fat, h)
<1> DEFINE s == Chain(fat, h)
<1>1. \A i \in 1 .. Len(s) : g[s[i]] = fat[s[i]]
  BY DEF Owned
<1>2. IsChain(g, s, h)
  BY <1>1 DEF IsChain
<1>3. Chain(g, h) = s
  BY <1>2, ChainUnique
<1> QED
  BY <1>2, <1>3 DEF Owned

(* The members of a chain that grows.                                      *)
LEMMA AppendMembers ==
  ASSUME NEW s \in Seq(Cl), NEW c \in Cl
  PROVE  LET t == Append(s, c)
         IN  {t[i] : i \in 1 .. Len(t)} = {s[i] : i \in 1 .. Len(s)} \cup {c}
<1> DEFINE t == Append(s, c)
<1>1. Len(t) = Len(s) + 1 /\ Len(s) \in Nat /\ (\A i \in 1 .. Len(s) : t[i] = s[i]) /\ t[Len(s) + 1] = c
  BY AppendProperties
<1> HIDE DEF t
<1>2. \A i \in 1 .. Len(t) : i \in 1 .. Len(s) \/ i = Len(s) + 1
  BY <1>1
<1>3. {t[i] : i \in 1 .. Len(t)} \subseteq {s[i] : i \in 1 .. Len(s)} \cup {c}
  BY <1>1, <1>2
<1>4. \A i \in 1 .. Len(s) : i \in 1 .. Len(t)
  BY <1>1
<1>5. Len(s) + 1 \in 1 .. Len(t)
  BY <1>1
<1>6. {s[i] : i \in 1 .. Len(s)} \cup {c} \subseteq {t[i] : i \in 1 .. Len(t)}
  BY <1>1, <1>4, <1>5
<1> QED
  BY <1>3, <1>6 DEF t

(* A free cluster is linked behind the last cluster of a chain.            *)
LEMMA TableGrows ==
  ASSUME NEW fat, NEW H, SoundTable(fat, H), NEW x \in H, NEW c \in Cl, fat[c] = 0,
         NEW g, g = [[fat EXCEPT ![Last(Chain(fat, x))] = c] EXCEPT ![c] = End]
  PROVE  /\ SoundTable(g, H) /\ Chain(g, x) = Append(Chain(fat, x), c)
         /\ Owned(g, x) = Owned(fat, x) \cup {c}
         /\ \A h \in H \ {x} : Chain(g, h) = Chain(fat, h)
<1> DEFINE s == Chain(fat, x)
           p == Last(s)
           t == Append(s, c)
<1>1. /\ IsChain(fat, s, x) /\ s \in Seq(Cl) /\ Len(s) \in Nat /\ Len(s) > 0 /\ p = s[Len(s)]
      /\ p \in Owned(fat, x) /\ fat[p] = End /\ p \in Cl
  BY HeadFacts
<1>2. fat \in [Entries -> Link] /\ c \in Entries /\ p \in Entries
  BY <1>1, ClFacts DEF SoundTable, Table
<1>3. \A h \in H : Owned(fat, h) \subseteq Cl /\ c \notin Owned(fat, h)
  BY HeadFacts
<1>4. p # c
  BY <1>1, <1>3
<1>5. g \in Table
  BY <1>2 DEF Table, Link
<1>6. g[p] = c /\ g[c] = End /\ \A d \in Entries \ {p, c} : g[d] = fat[d]
  BY <1>2, <1>4
<1>7. ASSUME NEW h \in H \ {x}
      PROVE  IsChain(g, Chain(g, h), h) /\ Chain(g, h) = Chain(fat, h) /\ Owned(g, h) = Owned(fat, h)
  <2>1. p \notin Owned(fat, h)
    BY <1>1 DEF SoundTable
  <2>2. \A d \in Owned(fat, h) : g[d] = fat[d]
    BY <1>3, <1>6, <2>1, ClFacts
  <2>3. IsChain(fat, Chain(fat, h), h)
    BY DEF SoundTable
  <2> QED
    BY <2>2, <2>3, ChainStays, ZenonT(60)
<1> HIDE DEF s, p
<1>8. t \in Seq(Cl) /\ t # <<>> /\ Len(t) = Len(s) + 1 /\ (\A i \in 1 .. Len(s) : t[i] = s[i]) /\ t[Len(s) + 1] = c
  BY <1>1, AppendProperties
<1>9. Owned(fat, x) = {s[i] : i \in 1 .. Len(s)}
  BY DEF Owned, s
<1>10. \A i \in 1 .. Len(s) : s[i] \in Cl /\ s[i] # c
  BY <1>1, <1>3, <1>9
<1>11. IsChain(g, t, x)
  <2> HIDE DEF t
  <2>1. t[1] = x
    BY <1>1, <1>8 DEF IsChain
  <2>2. \A i, j \in 1 .. Len(s) : s[i] = s[j] => i = j
    BY <1>1 DEF IsChain
  <2>3. \A i \in 1 .. Len(t) : i \in 1 .. Len(s) \/ i = Len(s) + 1
    BY <1>1, <1>8
  <2>4. \A i, j \in 1 .. Len(t) : t[i] = t[j] => i = j
    BY <1>8, <1>10, <2>2, <2>3
  <2>5. ASSUME NEW i \in 1 .. Len(t) PROVE g[t[i]] = IF i = Len(t) THEN End ELSE t[i + 1]
    <3>1. CASE i = Len(s) + 1
      BY <1>6, <1>8, <3>1
    <3>2. CASE i = Len(s)
      BY <1>1, <1>6, <1>8, <3>2
    <3>3. CASE i \in 1 .. Len(s) /\ i # Len(s)
      <4>1. t[i] = s[i] /\ s[i] # p /\ s[i] # c /\ s[i] \in Entries
        BY <1>1, <1>8, <1>10, <2>2, <3>3, ClFacts
      <4>2. g[s[i]] = fat[s[i]]
        BY <1>6, <4>1
      <4>3. fat[s[i]] = s[i + 1]
        BY <1>1, <3>3 DEF IsChain
      <4>4. i + 1 \in 1 .. Len(s) /\ t[i + 1] = s[i + 1] /\ i # Len(t)
        BY <1>1, <1>8, <3>3
      <4> QED
        BY <4>1, <4>2, <4>3, <4>4
    <3> QED
      BY <2>3, <3>1, <3>2, <3>3
  <2> QED
    BY <1>8, <2>1, <2>4, <2>5 DEF IsChain
<1>12. Chain(g, x) = t
  BY <1>11, ChainUnique
<1>13. Owned(g, x) = Owned(fat, x) \cup {c}
  <2>1. Owned(g, x) = {t[i] : i \in 1 .. Len(t)}
    BY <1>12 DEF Owned
  <2> QED
    BY <1>1, <1>9, <2>1, AppendMembers
<1> HIDE DEF t
<1>14. \A h \in H : IsChain(g, Chain(g, h), h)
  BY <1>7, <1>11, <1>12
<1>15. ASSUME NEW a \in H, NEW b \in H, a # b PROVE Owned(g, a) \cap Owned(g, b) = {}
  <2>1. Owned(fat, a) \cap Owned(fat, b) = {}
    BY <1>15 DEF SoundTable
  <2>2. c \notin Owned(fat, a) /\ c \notin Owned(fat, b)
    BY <1>3
  <2>3. a # x => Owned(g, a) = Owned(fat, a)
    BY <1>7
  <2>4. b # x => Owned(g, b) = Owned(fat, b)
    BY <1>7
  <2> QED
    BY <1>13, <1>15, <2>1, <2>2, <2>3, <2>4
<1>16. UNION {Owned(g, h) : h \in H} = {d \in Cl : g[d] # 0}
  <2>1. UNION {Owned(g, h) : h \in H} = (UNION {Owned(fat, h) : h \in H}) \cup {c}
    <3>1. \A h \in H : Owned(g, h) \subseteq Owned(fat, h) \cup {c} /\ Owned(fat, h) \subseteq Owned(g, h)
      BY <1>7, <1>13
    <3>2. c \in Owned(g, x)
      BY <1>13
    <3> QED
      BY <3>1, <3>2
  <2>2. UNION {Owned(fat, h) : h \in H} = {d \in Cl : fat[d] # 0}
    BY DEF SoundTable
  <2>3. \A d \in Cl : g[d] # 0 <=> (d = c \/ fat[d] # 0)
    <3> TAKE d \in Cl
    <3>1. d \in Entries
      BY ClFacts
    <3>2. CASE d = p
      BY <1>1, <1>6, <3>2, ClFacts, Clusters
    <3>3. CASE d = c
      BY <1>6, <3>3, Clusters
    <3>4. CASE d # p /\ d # c
      BY <1>6, <3>1, <3>4
    <3> QED
      BY <3>2, <3>3, <3>4
  <2>4. {d \in Cl : g[d] # 0} = {d \in Cl : fat[d] # 0} \cup {c}
    BY <2>3
  <2> QED
    BY <2>1, <2>2, <2>4, Zenon
<1>17. SoundTable(g, H)
  BY <1>5, <1>14, <1>15, <1>16 DEF SoundTable
<1>18. \A h \in H \ {x} : Chain(g, h) = Chain(fat, h)
  BY <1>7
<1> QED
  BY <1>12, <1>13, <1>17, <1>18 DEF t, s

(* A free cluster becomes a chain of its own.                              *)
LEMMA TableStarts ==
  ASSUME NEW fat, NEW H, SoundTable(fat, H), NEW c \in Cl, fat[c] = 0,
         NEW g, g = [fat EXCEPT ![c] = End]
  PROVE  /\ SoundTable(g, H \cup {c}) /\ c \notin H /\ Chain(g, c) = <<c>>
         /\ \A h \in H : Chain(g, h) = Chain(fat, h)
<1>1. fat \in [Entries -> Link] /\ c \in Entries
  BY ClFacts DEF SoundTable, Table
<1>2. g \in Table /\ g[c] = End /\ \A d \in Entries \ {c} : g[d] = fat[d]
  BY <1>1 DEF Table, Link
<1>3. \A h \in H : Owned(fat, h) \subseteq Cl /\ c \notin Owned(fat, h) /\ h \in Owned(fat, h)
  BY HeadFacts
<1>4. c \notin H
  BY <1>3
<1>5. ASSUME NEW h \in H
      PROVE  IsChain(g, Chain(g, h), h) /\ Chain(g, h) = Chain(fat, h) /\ Owned(g, h) = Owned(fat, h)
  <2>1. \A d \in Owned(fat, h) : g[d] = fat[d]
    BY <1>2, <1>3, ClFacts
  <2>2. IsChain(fat, Chain(fat, h), h)
    BY DEF SoundTable
  <2> QED
    BY <2>1, <2>2, ChainStays, ZenonT(60)
<1>6. IsChain(g, <<c>>, c)
  <2>1. <<c>> \in Seq(Cl) /\ <<c>> # <<>> /\ Len(<<c>>) = 1 /\ <<c>>[1] = c
    OBVIOUS
  <2> QED
    BY <1>2, <2>1 DEF IsChain
<1>7. Chain(g, c) = <<c>> /\ Owned(g, c) = {c}
  <2>1. Chain(g, c) = <<c>>
    BY <1>6, ChainUnique
  <2>2. {<<c>>[i] : i \in 1 .. Len(<<c>>)} = {c}
    OBVIOUS
  <2> QED
    BY <2>1, <2>2 DEF Owned
<1>8. \A h \in H \cup {c} : IsChain(g, Chain(g, h), h)
  BY <1>5, <1>6, <1>7
<1>9. ASSUME NEW a \in H \cup {c}, NEW b \in H \cup {c}, a # b
      PROVE  Owned(g, a) \cap Owned(g, b) = {}
  <2>1. CASE a \in H /\ b \in H
    <3>1. Owned(fat, a) \cap Owned(fat, b) = {}
      BY <1>9, <2>1 DEF SoundTable
    <3> QED
      BY <1>5, <2>1, <3>1
  <2>2. CASE a = c
    BY <1>3, <1>5, <1>7, <1>9, <2>2
  <2>3. CASE b = c
    BY <1>3, <1>5, <1>7, <1>9, <2>3
  <2> QED
    BY <2>1, <2>2, <2>3
<1>10. UNION {Owned(g, h) : h \in H \cup {c}} = {d \in Cl : g[d] # 0}
  <2>1. UNION {Owned(g, h) : h \in H \cup {c}} = (UNION {Owned(fat, h) : h \in H}) \cup {c}
    <3>1. \A h \in H : Owned(g, h) = Owned(fat, h)
      BY <1>5
    <3>2. ASSUME NEW h \in H \cup {c} PROVE Owned(g, h) \subseteq (UNION {Owned(fat, k) : k \in H}) \cup {c}
      <4>1. CASE h \in H
        BY <3>1, <4>1
      <4>2. CASE h = c
        BY <1>7, <4>2
      <4> QED
        BY <4>1, <4>2
    <3>3. UNION {Owned(fat, h) : h \in H} \subseteq UNION {Owned(g, h) : h \in H \cup {c}}
      BY <3>1
    <3>4. c \in UNION {Owned(g, h) : h \in H \cup {c}}
      BY <1>7
    <3> QED
      BY <3>2, <3>3, <3>4
  <2>2. UNION {Owned(fat, h) : h \in H} = {d \in Cl : fat[d] # 0}
    BY DEF SoundTable
  <2>3. \A d \in Cl : g[d] # 0 <=> (d = c \/ fat[d] # 0)
    BY <1>2, ClFacts, Clusters
  <2>4. {d \in Cl : fat[d] # 0} \cup {c} = {d \in Cl : g[d] # 0}
    BY <2>3
  <2> QED
    BY <2>1, <2>2, <2>4, Zenon
<1> QED
  BY <1>2, <1>4, <1>5, <1>7, <1>8, <1>9, <1>10 DEF SoundTable

(* A chain is freed.                                                       *)
LEMMA TableShrinks ==
  ASSUME NEW fat, NEW H, SoundTable(fat, H), NEW x \in H,
         NEW g, g = [c \in Entries |-> IF c \in Owned(fat, x) THEN 0 ELSE fat[c]]
  PROVE  /\ SoundTable(g, H \ {x})
         /\ \A h \in H \ {x} : Chain(g, h) = Chain(fat, h)
<1>1. fat \in [Entries -> Link] /\ 0 \in Link
  BY Clusters DEF SoundTable, Table, Link
<1>2. g \in Table
  BY <1>1 DEF Table
<1>3. \A d \in Entries : g[d] = IF d \in Owned(fat, x) THEN 0 ELSE fat[d]
  OBVIOUS
<1>4. \A h \in H : Owned(fat, h) \subseteq Cl
  BY HeadFacts
<1>5. ASSUME NEW h \in H \ {x}
      PROVE  IsChain(g, Chain(g, h), h) /\ Chain(g, h) = Chain(fat, h) /\ Owned(g, h) = Owned(fat, h)
  <2>1. Owned(fat, h) \cap Owned(fat, x) = {}
    BY DEF SoundTable
  <2>2. \A d \in Owned(fat, h) : g[d] = fat[d]
    BY <1>3, <1>4, <2>1, ClFacts
  <2>3. IsChain(fat, Chain(fat, h), h)
    BY DEF SoundTable
  <2> QED
    BY <2>2, <2>3, ChainStays, ZenonT(60)
<1>6. \A a, b \in H \ {x} : a # b => Owned(g, a) \cap Owned(g, b) = {}
  <2> SUFFICES ASSUME NEW a \in H \ {x}, NEW b \in H \ {x}, a # b
               PROVE  Owned(g, a) \cap Owned(g, b) = {}
    OBVIOUS
  <2>1. Owned(fat, a) \cap Owned(fat, b) = {}
    BY DEF SoundTable
  <2> QED
    BY <1>5, <2>1
<1>7. UNION {Owned(g, h) : h \in H \ {x}} = {d \in Cl : g[d] # 0}
  <2>1. UNION {Owned(g, h) : h \in H \ {x}} = (UNION {Owned(fat, h) : h \in H}) \ Owned(fat, x)
    <3>1. \A h \in H \ {x} : Owned(fat, h) \cap Owned(fat, x) = {} /\ Owned(g, h) = Owned(fat, h)
      BY <1>5 DEF SoundTable
    <3> QED
      BY <3>1
  <2>2. UNION {Owned(fat, h) : h \in H} = {d \in Cl : fat[d] # 0}
    BY DEF SoundTable
  <2>3. \A d \in Cl : g[d] # 0 <=> (d \notin Owned(fat, x) /\ fat[d] # 0)
    BY <1>3, ClFacts
  <2> QED
    BY <2>1, <2>2, <2>3
<1> QED
  BY <1>2, <1>5, <1>6, <1>7 DEF SoundTable

----------------------------------------------------------------------------
(* The media.  A write that the library issues leaves them a disk.         *)
LEMMA WriteDoneType ==
  ASSUME NEW m \in Disks, NEW w \in Writes
  PROVE  WriteDone(m, w) \in Disks
<1>1. m.fat \in Table /\ m.dir \in Dirs /\ m.data \in Datas
  BY DEF Disks
<1>2. CASE w \in FatWrites
  <2> DEFINE g == [c \in Entries |-> IF c \in DOMAIN w.val THEN w.val[c] ELSE m.fat[c]]
  <2>1. w.kind = "fat" /\ w.val \in UNION {[D -> Link] : D \in SUBSET Entries}
    BY <1>2 DEF FatWrites
  <2>2. PICK D \in SUBSET Entries : w.val \in [D -> Link]
    BY <2>1
  <2>3. \A c \in Entries : (IF c \in DOMAIN w.val THEN w.val[c] ELSE m.fat[c]) \in Link
    BY <1>1, <2>2 DEF Table
  <2>4. g \in Table
    BY <2>3 DEF Table
  <2>5. WriteDone(m, w) = [m EXCEPT !.fat = g]
    BY <2>1 DEF WriteDone
  <2> HIDE DEF g
  <2> QED
    BY <2>4, <2>5 DEF Disks
<1>3. CASE w \in DirWrites
  <2> DEFINE c == w.at[1]
             i == w.at[2]
             g == [m.dir EXCEPT ![c] = [m.dir[c] EXCEPT ![i] = w.val]]
  <2>1. w.kind = "dir" /\ w.at \in Entries \X (1 .. DirSlots) /\ w.val \in Entry
    BY <1>3 DEF DirWrites
  <2>2. c \in Entries /\ i \in 1 .. DirSlots
    BY <2>1
  <2>3. WriteDone(m, w) = [m EXCEPT !.dir[c][i] = w.val]
    BY <2>1 DEF WriteDone
  <2> HIDE DEF c, i
  <2>4. m.dir[c] \in [1 .. DirSlots -> Entry]
    BY <1>1, <2>2 DEF Dirs
  <2>5. g \in Dirs
    BY <1>1, <2>1, <2>2, <2>4 DEF Dirs
  <2>6. WriteDone(m, w) = [m EXCEPT !.dir = g]
    BY <2>3
  <2> HIDE DEF g
  <2> QED
    BY <2>5, <2>6 DEF Disks
<1>4. CASE w \in Erasures
  <2> DEFINE v == [i \in 1 .. DirSlots |-> NoEntry]
             g == [m.dir EXCEPT ![w.at] = v]
  <2>1. w.kind = "erase" /\ w.at \in Entries
    BY <1>4 DEF Erasures
  <2>2. v \in [1 .. DirSlots -> Entry]
    BY DEF Entry
  <2>3. WriteDone(m, w) = [m EXCEPT !.dir = g]
    BY <2>1 DEF WriteDone
  <2> HIDE DEF v
  <2>4. g \in Dirs
    BY <1>1, <2>1, <2>2 DEF Dirs
  <2> HIDE DEF g
  <2> QED
    BY <2>3, <2>4 DEF Disks
<1>5. CASE w \in DataWrites
  <2> DEFINE c == w.at[1]
             i == w.at[2]
             g == [m.data EXCEPT ![c] = [m.data[c] EXCEPT ![i] = w.val]]
  <2>1. w.kind = "data" /\ w.at \in Entries \X (1 .. SectorsPerCluster) /\ w.val \in Sector
    BY <1>5 DEF DataWrites
  <2>2. c \in Entries /\ i \in 1 .. SectorsPerCluster
    BY <2>1
  <2>3. WriteDone(m, w) = [m EXCEPT !.data[c][i] = w.val]
    BY <2>1 DEF WriteDone
  <2> HIDE DEF c, i
  <2>4. m.data[c] \in [1 .. SectorsPerCluster -> Sector]
    BY <1>1, <2>2 DEF Datas
  <2>5. g \in Datas
    BY <1>1, <2>1, <2>2, <2>4 DEF Datas
  <2>6. WriteDone(m, w) = [m EXCEPT !.data = g]
    BY <2>3
  <2> HIDE DEF g
  <2> QED
    BY <2>5, <2>6 DEF Disks
<1> QED
  BY <1>2, <1>3, <1>4, <1>5 DEF Writes

(* A restart at any moment: what NoCrossLink says, of a disk v.            *)
CrossFree(v) ==
  LET used(e) == {c \in Range(Chain(v.fat, e.start)) : v.fat[c] # 0}
  IN  \A e \in Live(v) :
        /\ used(e) \cap Range(Chain(v.fat, Root)) = {}
        /\ \A d \in Live(v) : e # d => used(e) \cap used(d) = {}

(* A table that is behind the table G of the chains of H: what is linked   *)
(* in a chain is linked within it, and what is free in G is not linked.    *)
Lags(fat, G, H) ==
    /\ fat \in Table
    /\ \A h \in H : \A c \in Owned(G, h) : fat[c] \in {0, End} \cup Owned(G, h)
    /\ \A c \in Cl : G[c] = 0 => fat[c] \in {0, End}

(* The entries of a directory are of different chains of H.                *)
Fit(dir, H) ==
    \A c, d \in Entries, i, j \in 1 .. DirSlots :
       dir[c][i] # NoEntry =>
         /\ dir[c][i].start \in H \ {Root}
         /\ dir[d][j] # NoEntry /\ (c # d \/ i # j) => dir[c][i].start # dir[d][j].start

(* Who follows such a table from h stays in the chain of h.                *)
LEMMA ChainWithin ==
  ASSUME NEW fat, NEW O \in SUBSET Cl, NEW h \in O, \A c \in O : fat[c] \in {0, End} \cup O
  PROVE  Range(Chain(fat, h)) \subseteq O
<1> DEFINE N == NoCluster
           S == {q \in Seq(O) : q # <<>>}
           next(p) == IF fat[Last(p)] \in {0, End} THEN p ELSE Append(p, fat[Last(p)])
           F == [p \in S \X (1 .. N) |-> next(p[1])]
           run == CHOOSE f : f = [k \in 0 .. N |-> IF k = 0 THEN <<h>> ELSE next(f[k - 1])]
<1>1. N \in Nat /\ <<h>> \in S
  BY Clusters
<1> HIDE DEF N
<1>2. ASSUME NEW p \in S PROVE next(p) \in S
  <2>1. Last(p) \in O /\ p \in Seq(O) /\ p # <<>>
    BY LastIs
  <2>2. CASE fat[Last(p)] \in {0, End}
    BY <2>1, <2>2
  <2>3. CASE fat[Last(p)] \notin {0, End}
    <3>1. fat[Last(p)] \in O
      BY <2>1, <2>3
    <3>2. Append(p, fat[Last(p)]) \in Seq(O) /\ Append(p, fat[Last(p)]) # <<>>
      BY <2>1, <3>1, AppendProperties
    <3> QED
      BY <2>3, <3>2
  <2> QED
    BY <2>2, <2>3
<1> HIDE DEF next
<1>3. F \in [S \X (1 .. N) -> S] /\ \A p \in S, i \in 1 .. N : F[<<p, i>>] = next(p)
  BY <1>2
<1> HIDE DEF S, F
<1>4. PICK f : Run(f, N, S, <<h>>, F)
  BY <1>1, <1>3, Loop
<1>5. f = [k \in 0 .. N |-> IF k = 0 THEN <<h>> ELSE next(f[k - 1])]
  <2>1. ASSUME NEW i \in 1 .. N PROVE f[i] = next(f[i - 1])
    <3>1. f[i - 1] \in S /\ f[i] = F[<<f[i - 1], i>>]
      BY <1>1, <1>4 DEF Run
    <3> QED
      BY <1>3, <3>1
  <2> QED
    BY <1>1, <1>4, <2>1 DEF Run
<1>6. run = [k \in 0 .. N |-> IF k = 0 THEN <<h>> ELSE next(run[k - 1])]
  BY <1>5
<1>7. Chain(fat, h) = run[N]
  BY DEF Chain, next, N
<1> HIDE DEF run
<1>8. Rounds(run, N, S, <<h>>, F)
  <2>1. run[0] = <<h>> /\ \A i \in 1 .. N : run[i] = next(run[i - 1])
    BY <1>1, <1>6
  <2> QED
    BY <1>3, <2>1 DEF Rounds
<1>9. run[N] \in S
  <2>1. \A i \in 0 .. N : run[i] \in S
    BY <1>1, <1>3, <1>8, LoopStays
  <2> QED
    BY <1>1, <2>1
<1>10. Chain(fat, h) \in Seq(O)
  BY <1>7, <1>9 DEF S
<1> QED
  BY <1>10 DEF Range

(* A disk whose table is behind a sound one has no cluster in two files.   *)
LEMMA SafeDisk ==
  ASSUME NEW v \in Disks, NEW G, NEW H, SoundTable(G, H), Root \in H, Lags(v.fat, G, H), Fit(v.dir, H)
  PROVE  CrossFree(v)
<1> DEFINE used(e) == {c \in Range(Chain(v.fat, e.start)) : v.fat[c] # 0}
<1>1. \A h \in H : Range(Chain(v.fat, h)) \subseteq Owned(G, h) /\ Owned(G, h) \subseteq Cl
  <2> TAKE h \in H
  <2>1. Owned(G, h) \in SUBSET Cl /\ h \in Owned(G, h)
    BY HeadFacts
  <2>2. \A c \in Owned(G, h) : v.fat[c] \in {0, End} \cup Owned(G, h)
    BY DEF Lags
  <2>3. Range(Chain(v.fat, h)) \subseteq Owned(G, h)
    BY <2>1, <2>2, ChainWithin
  <2> QED
    BY <2>1, <2>3
<1>2. \A e \in Live(v) : \E c \in Entries, i \in 1 .. DirSlots : e = v.dir[c][i] /\ e # NoEntry
  <2>1. Range(Chain(v.fat, Root)) \subseteq Entries
    BY <1>1, ClFacts
  <2> QED
    BY <2>1 DEF Live
<1>3. ASSUME NEW e \in Live(v)
      PROVE  /\ used(e) \cap Range(Chain(v.fat, Root)) = {}
             /\ \A d \in Live(v) : e # d => used(e) \cap used(d) = {}
  <2>1. PICK c \in Entries, i \in 1 .. DirSlots : e = v.dir[c][i] /\ e # NoEntry
    BY <1>2
  <2>2. e.start \in H \ {Root}
    BY <2>1 DEF Fit
  <2>3. used(e) \subseteq Owned(G, e.start)
    BY <1>1, <2>2
  <2>4. Owned(G, e.start) \cap Owned(G, Root) = {}
    BY <2>2 DEF SoundTable
  <2>5. ASSUME NEW d \in Live(v), e # d PROVE used(e) \cap used(d) = {}
    <3>1. PICK b \in Entries, j \in 1 .. DirSlots : d = v.dir[b][j] /\ d # NoEntry
      BY <1>2
    <3>2. d.start \in H \ {Root}
      BY <3>1 DEF Fit
    <3>3. c # b \/ i # j
      BY <2>1, <2>5, <3>1
    <3>4. e.start # d.start
      BY <2>1, <3>1, <3>3 DEF Fit
    <3>5. used(d) \subseteq Owned(G, d.start)
      BY <1>1, <3>2
    <3>6. Owned(G, e.start) \cap Owned(G, d.start) = {}
      BY <2>2, <3>2, <3>4 DEF SoundTable
    <3> QED
      BY <2>3, <3>5, <3>6
  <2> HIDE DEF used
  <2> QED
    BY <1>1, <2>3, <2>4, <2>5
<1> QED
  BY <1>3 DEF CrossFree

(* The writes q, done one after the other on disk m, end in disk D, and    *)
(* after each of them a restart finds no cluster in two files.             *)
Path(d, m, q) ==
    /\ d \in [0 .. Len(q) -> Disks] /\ d[0] = m
    /\ \A i \in 1 .. Len(q) : d[i] = WriteDone(d[i - 1], q[i])
    /\ \A i \in 0 .. Len(q) : CrossFree(d[i])
Reaches(m, q, D) == \E d : Path(d, m, q) /\ d[Len(q)] = D

LEMMA ReachesNone ==
  ASSUME NEW m \in Disks, CrossFree(m)
  PROVE  Reaches(m, <<>>, m)
<1> DEFINE d == [i \in 0 .. Len(<<>>) |-> m]
<1>1. Len(<<>>) = 0 /\ 0 \in 0 .. Len(<<>>)
  OBVIOUS
<1>2. Path(d, m, <<>>) /\ d[Len(<<>>)] = m
  BY <1>1 DEF Path
<1> QED
  BY <1>2 DEF Reaches

(* The library issues one more write;                                      *)
LEMMA ReachesMore ==
  ASSUME NEW m, NEW q \in Seq(Writes), NEW D, Reaches(m, q, D), NEW w \in Writes, CrossFree(WriteDone(D, w))
  PROVE  Reaches(m, Append(q, w), WriteDone(D, w)) /\ D \in Disks /\ WriteDone(D, w) \in Disks
<1> DEFINE n == Len(q)
           p == Append(q, w)
           E == WriteDone(D, w)
<1>1. PICK d : Path(d, m, q) /\ d[n] = D
  BY DEF Reaches
<1>2. n \in Nat /\ Len(p) = n + 1 /\ p[n + 1] = w /\ \A i \in 1 .. n : p[i] = q[i]
  BY AppendProperties
<1>3. d \in [0 .. n -> Disks] /\ D \in Disks /\ E \in Disks
  <2>1. d \in [0 .. n -> Disks] /\ n \in 0 .. n
    BY <1>1, <1>2 DEF Path
  <2>2. D \in Disks
    BY <1>1, <2>1
  <2> QED
    BY <2>1, <2>2, WriteDoneType
<1> DEFINE f == [i \in 0 .. n + 1 |-> IF i = n + 1 THEN E ELSE d[i]]
<1> HIDE DEF E, p, n
<1>4. \A i \in 0 .. n + 1 : i = n + 1 \/ i \in 0 .. n
  BY <1>2
<1>5. f \in [0 .. n + 1 -> Disks]
  BY <1>3, <1>4
<1>6. f[n + 1] = E /\ \A i \in 0 .. n : f[i] = d[i]
  BY <1>2
<1> HIDE DEF f
<1>7. ASSUME NEW i \in 1 .. n + 1 PROVE f[i] = WriteDone(f[i - 1], p[i])
  <2>1. CASE i = n + 1
    <3>1. i - 1 = n /\ n \in 0 .. n
      BY <1>2, <2>1
    <3> QED
      BY <1>1, <1>2, <1>6, <2>1, <3>1 DEF E
  <2>2. CASE i # n + 1
    <3>1. i \in 1 .. n /\ i \in 0 .. n /\ i - 1 \in 0 .. n
      BY <1>2, <2>2
    <3> QED
      BY <1>1, <1>2, <1>6, <3>1 DEF Path, n
  <2> QED
    BY <2>1, <2>2
<1>8. \A i \in 0 .. n + 1 : CrossFree(f[i])
  BY <1>1, <1>4, <1>6 DEF Path, n, E
<1>9. f[0] = m
  BY <1>1, <1>2, <1>6 DEF Path
<1>10. Path(f, m, p) /\ f[Len(p)] = E
  BY <1>2, <1>5, <1>6, <1>7, <1>8, <1>9 DEF Path
<1> QED
  BY <1>3, <1>10 DEF Reaches, p, E

(* the driver does the first one.                                          *)
LEMMA ReachesNext ==
  ASSUME NEW m, NEW q \in Seq(Writes), q # <<>>, NEW D, Reaches(m, q, D)
  PROVE  Reaches(WriteDone(m, Head(q)), Tail(q), D)
<1> DEFINE n == Len(q)
           p == Tail(q)
<1>1. PICK d : Path(d, m, q) /\ d[n] = D
  BY DEF Reaches
<1>2. n \in Nat /\ n > 0 /\ Len(p) = n - 1 /\ Head(q) = q[1] /\ \A i \in 1 .. n - 1 : p[i] = q[i + 1]
  BY HeadTailProperties
<1> DEFINE f == [i \in 0 .. n - 1 |-> d[i + 1]]
<1> HIDE DEF p
<1>3. /\ d \in [0 .. n -> Disks] /\ d[0] = m
      /\ \A i \in 1 .. n : d[i] = WriteDone(d[i - 1], q[i])
      /\ \A i \in 0 .. n : CrossFree(d[i])
  BY <1>1 DEF Path
<1> HIDE DEF n
<1>4. \A i \in 0 .. n - 1 : i + 1 \in 0 .. n /\ i + 1 \in 1 .. n /\ f[i] = d[i + 1]
  BY <1>2
<1>5. f \in [0 .. n - 1 -> Disks]
  BY <1>3, <1>4
<1> HIDE DEF f
<1>6. f[0] = WriteDone(m, Head(q))
  <2>1. 0 \in 0 .. n - 1 /\ 1 \in 1 .. n /\ 0 + 1 = 1 /\ 1 - 1 = 0
    BY <1>2
  <2>2. f[0] = d[1] /\ d[1] = WriteDone(d[0], q[1])
    BY <1>3, <1>4, <2>1
  <2> QED
    BY <1>2, <1>3, <2>2
<1>7. ASSUME NEW i \in 1 .. n - 1 PROVE f[i] = WriteDone(f[i - 1], p[i])
  <2>1. i \in 0 .. n - 1 /\ i - 1 \in 0 .. n - 1 /\ (i - 1) + 1 = i /\ i + 1 \in 1 .. n /\ (i + 1) - 1 = i
    BY <1>2
  <2>2. f[i] = d[i + 1] /\ f[i - 1] = d[i]
    BY <1>4, <2>1
  <2>3. d[i + 1] = WriteDone(d[i], q[i + 1])
    BY <1>3, <2>1
  <2> QED
    BY <1>2, <2>2, <2>3
<1>8. \A i \in 0 .. n - 1 : CrossFree(f[i])
  BY <1>3, <1>4
<1>9. f[n - 1] = D
  <2>1. n - 1 \in 0 .. n - 1 /\ (n - 1) + 1 = n
    BY <1>2
  <2> QED
    BY <1>1, <1>4, <2>1 DEF n
<1>10. Path(f, WriteDone(m, Head(q)), p) /\ f[Len(p)] = D
  BY <1>2, <1>5, <1>6, <1>7, <1>8, <1>9 DEF Path
<1> QED
  BY <1>10 DEF Reaches, p

(* The disk before the writes.                                             *)
LEMMA ReachesNow ==
  ASSUME NEW m, NEW q \in Seq(Writes), NEW D, Reaches(m, q, D)
  PROVE  CrossFree(m) /\ m \in Disks /\ D \in Disks
<1>1. PICK d : Path(d, m, q) /\ d[Len(q)] = D
  BY DEF Reaches
<1>2. Len(q) \in Nat /\ 0 \in 0 .. Len(q) /\ Len(q) \in 0 .. Len(q)
  OBVIOUS
<1> QED
  BY <1>1, <1>2 DEF Path


----------------------------------------------------------------------------
(* A volume and its disk.  Disk D is up to the volume s, but for what the  *)
(* FAT buffer still has to write and for the clusters after the end.       *)
Agrees(D, s) ==
    \A c \in Entries :
       /\ (s.dirty /\ SectorOf(c) = s.sec) \/ D.fat[c] = s.fat[c]
       /\ D.dir[c] = IF c <= LastCluster THEN s.dir[c] ELSE [i \in 1 .. DirSlots |-> NoEntry]

(* From disk m the writes of the call end in such a disk, and after each   *)
(* of them a restart finds no cluster in two files, because the tables of  *)
(* the disk and of the volume are behind G, the table of the chains of H.  *)
Covered(m, s, G, H) ==
    /\ SoundTable(G, H) /\ Root \in H /\ Lags(s.fat, G, H) /\ Fit(s.dir, H)
    /\ \E D \in Disks : Reaches(m, s.out, D) /\ Agrees(D, s) /\ Lags(D.fat, G, H)

(* The writes of the call leave nothing for the FAT buffer to write.       *)
Settled(m, s) == \E D \in Disks : Reaches(m, s.out, D) /\ Agrees(D, s) /\ D.fat = s.fat

LEMMA SettledCovers ==
  ASSUME NEW m, NEW s, Settled(m, s), NEW G, NEW H, SoundTable(G, H), Root \in H,
         Lags(s.fat, G, H), Fit(s.dir, H)
  PROVE  Covered(m, s, G, H)
  BY DEF Settled, Covered

(* The directory of the disk has no more than that of the volume.          *)
LEMMA FitOnDisk ==
  ASSUME NEW s, NEW H, Fit(s.dir, H), NEW D, Agrees(D, s)
  PROVE  Fit(D.dir, H)
<1>1. \A c \in Entries, i \in 1 .. DirSlots : D.dir[c][i] # NoEntry => D.dir[c][i] = s.dir[c][i]
  <2> SUFFICES ASSUME NEW c \in Entries, NEW i \in 1 .. DirSlots, D.dir[c][i] # NoEntry
               PROVE  D.dir[c][i] = s.dir[c][i]
    OBVIOUS
  <2>1. CASE c <= LastCluster
    BY <2>1 DEF Agrees
  <2>2. CASE ~(c <= LastCluster)
    BY <2>2 DEF Agrees
  <2> QED
    BY <2>1, <2>2
<1> SUFFICES ASSUME NEW a \in Entries, NEW b \in Entries, NEW j \in 1 .. DirSlots, NEW k \in 1 .. DirSlots,
                    D.dir[a][j] # NoEntry
             PROVE  /\ D.dir[a][j].start \in H \ {Root}
                    /\ D.dir[b][k] # NoEntry /\ (a # b \/ j # k) => D.dir[a][j].start # D.dir[b][k].start
  BY DEF Fit
<1>2. /\ s.dir[a][j] # NoEntry => s.dir[a][j].start \in H \ {Root}
      /\ s.dir[a][j] # NoEntry /\ s.dir[b][k] # NoEntry /\ (a # b \/ j # k) => s.dir[a][j].start # s.dir[b][k].start
  BY DEF Fit
<1> QED
  BY <1>1, <1>2

(* One more write that keeps the table behind and the entries apart.       *)
LEMMA OneMoreWrite ==
  ASSUME NEW m, NEW s \in Volumes, NEW D \in Disks, Reaches(m, s.out, D), NEW w \in Writes,
         NEW G, NEW H, SoundTable(G, H), Root \in H,
         Lags(WriteDone(D, w).fat, G, H), Fit(WriteDone(D, w).dir, H)
  PROVE  WriteDone(D, w) \in Disks /\ Reaches(m, Append(s.out, w), WriteDone(D, w))
<1>1. s.out \in Seq(Writes)
  BY DEF Volumes, Volume
<1>2. WriteDone(D, w) \in Disks
  BY WriteDoneType
<1>3. CrossFree(WriteDone(D, w))
  BY <1>2, SafeDisk
<1> QED
  BY <1>1, <1>2, <1>3, ReachesMore

(* An entry of the table that becomes free, an end, or what it is in G.    *)
LEMMA LagsSet ==
  ASSUME NEW G, NEW H, SoundTable(G, H), NEW fat, Lags(fat, G, H), NEW c \in Entries, NEW v \in {0, End, G[c]}
  PROVE  Lags([fat EXCEPT ![c] = v], G, H)
<1> DEFINE g == [fat EXCEPT ![c] = v]
<1>1. fat \in [Entries -> Link] /\ G \in [Entries -> Link] /\ 0 \in Link /\ End \in Link
  BY Clusters DEF Lags, SoundTable, Table, Link
<1>2. v \in Link
  BY <1>1
<1>3. g \in Table /\ g[c] = v /\ \A d \in Entries \ {c} : g[d] = fat[d]
  BY <1>1, <1>2 DEF Table
<1> HIDE DEF g
<1>4. ASSUME NEW h \in H, NEW d \in Owned(G, h) PROVE g[d] \in {0, End} \cup Owned(G, h)
  <2>1. d \in Entries /\ (G[d] = End \/ G[d] \in Owned(G, h))
    BY HeadFacts, ClFacts
  <2>2. fat[d] \in {0, End} \cup Owned(G, h)
    BY DEF Lags
  <2> QED
    BY <1>3, <2>1, <2>2
<1>5. ASSUME NEW d \in Cl, G[d] = 0 PROVE g[d] \in {0, End}
  <2>1. d \in Entries /\ fat[d] \in {0, End}
    BY <1>5, ClFacts DEF Lags
  <2> QED
    BY <1>3, <1>5, <2>1
<1>6. Lags(g, G, H)
  BY <1>3, <1>4, <1>5 DEF Lags
<1> QED
  BY <1>6 DEF g

(* What is behind a table is behind one whose chains have grown by free    *)
(* clusters.                                                               *)
LEMMA LagsGrows ==
  ASSUME NEW G, NEW H, SoundTable(G, H), NEW g, NEW K, SoundTable(g, K), H \subseteq K,
         \A h \in H : Owned(G, h) \subseteq Owned(g, h),
         \A k \in K : \A d \in Owned(g, k) : G[d] = 0 \/ (k \in H /\ d \in Owned(G, k)),
         NEW f, Lags(f, G, H)
  PROVE  Lags(f, g, K)
<1>1. ASSUME NEW k \in K, NEW d \in Owned(g, k) PROVE f[d] \in {0, End} \cup Owned(g, k)
  <2>1. d \in Cl
    BY HeadFacts
  <2>2. CASE G[d] = 0
    BY <2>1, <2>2 DEF Lags
  <2>3. CASE k \in H /\ d \in Owned(G, k)
    <3>1. f[d] \in {0, End} \cup Owned(G, k)
      BY <2>3 DEF Lags
    <3> QED
      BY <2>3, <3>1
  <2> QED
    BY <2>2, <2>3
<1>2. ASSUME NEW d \in Cl, g[d] = 0 PROVE f[d] \in {0, End}
  <2>1. ASSUME G[d] # 0 PROVE FALSE
    <3>1. d \in UNION {Owned(G, h) : h \in H}
      BY <2>1 DEF SoundTable
    <3>2. PICK h \in H : d \in Owned(G, h)
      BY <3>1
    <3>3. d \in Owned(g, h) /\ h \in K
      BY <3>2
    <3> QED
      BY <1>2, <3>3, HeadFacts
  <2> QED
    BY <2>1 DEF Lags
<1> QED
  BY <1>1, <1>2 DEF Lags

(* A table is behind itself.                                               *)
LEMMA LagsItself ==
  ASSUME NEW G, NEW H, SoundTable(G, H)
  PROVE  Lags(G, G, H)
<1>1. G \in Table /\ \A h \in H : \A c \in Owned(G, h) : G[c] = End \/ G[c] \in Owned(G, h)
  BY HeadFacts DEF SoundTable
<1> QED
  BY <1>1 DEF Lags

LEMMA FitMore ==
  ASSUME NEW dir, NEW H, Fit(dir, H), NEW K, H \subseteq K
  PROVE  Fit(dir, K)
  BY DEF Fit

(* What the tables are behind is behind a table with more chains.          *)
LEMMA Retarget ==
  ASSUME NEW m, NEW s, NEW G, NEW H, Covered(m, s, G, H), NEW g, NEW K, SoundTable(g, K), H \subseteq K,
         \A fat : Lags(fat, G, H) => Lags(fat, g, K)
  PROVE  Covered(m, s, g, K)
<1>1. Fit(s.dir, K) /\ Root \in K /\ Lags(s.fat, g, K)
  BY FitMore DEF Covered
<1>2. PICK D \in Disks : Reaches(m, s.out, D) /\ Agrees(D, s) /\ Lags(D.fat, G, H)
  BY DEF Covered
<1> QED
  BY <1>1, <1>2 DEF Covered

LEMMA CoveredGrows ==
  ASSUME NEW m, NEW s, NEW G, NEW H, Covered(m, s, G, H), NEW g, NEW x \in H, NEW c \in Cl, G[c] = 0,
         SoundTable(g, H), Owned(g, x) = Owned(G, x) \cup {c},
         \A h \in H \ {x} : Chain(g, h) = Chain(G, h)
  PROVE  Covered(m, s, g, H)
<1>1. SoundTable(G, H)
  BY DEF Covered
<1>2. \A h \in H \ {x} : Owned(g, h) = Owned(G, h)
  BY DEF Owned
<1>3. \A h \in H : Owned(G, h) \subseteq Owned(g, h)
  BY <1>2
<1>4. \A h \in H : \A d \in Owned(g, h) : G[d] = 0 \/ (h \in H /\ d \in Owned(G, h))
  BY <1>2
<1>5. \A f : Lags(f, G, H) => Lags(f, g, H)
  BY <1>1, <1>3, <1>4, LagsGrows
<1> QED
  BY <1>5, Retarget

LEMMA CoveredStarts ==
  ASSUME NEW m, NEW s, NEW G, NEW H, Covered(m, s, G, H), NEW g, NEW c \in Cl, G[c] = 0,
         SoundTable(g, H \cup {c}), Chain(g, c) = <<c>>,
         \A h \in H : Chain(g, h) = Chain(G, h)
  PROVE  Covered(m, s, g, H \cup {c})
<1>1. SoundTable(G, H)
  BY DEF Covered
<1>2. Owned(g, c) = {c} /\ \A h \in H : Owned(g, h) = Owned(G, h)
  <2>1. {<<c>>[i] : i \in 1 .. Len(<<c>>)} = {c}
    OBVIOUS
  <2>2. Owned(g, c) = {c}
    BY <2>1 DEF Owned
  <2> QED
    BY <2>2 DEF Owned
<1>3. \A h \in H : Owned(G, h) \subseteq Owned(g, h)
  BY <1>2
<1>4. \A h \in H \cup {c} : \A d \in Owned(g, h) : G[d] = 0 \/ (h \in H /\ d \in Owned(G, h))
  BY <1>2
<1>5. \A f : Lags(f, G, H) => Lags(f, g, H \cup {c})
  BY <1>1, <1>3, <1>4, LagsGrows
<1> QED
  BY <1>5, Retarget

----------------------------------------------------------------------------
(* What a step may do to a volume without losing what covers it.           *)
Carries(s, t) == \A m, G, H : Covered(m, s, G, H) => Covered(m, t, G, H)
(* The same, when the entries of the directory stay apart.                 *)
CarriesFit(s, t) == \A m, G, H : Covered(m, s, G, H) /\ Fit(t.dir, H) => Covered(m, t, G, H)

LEMMA CarriesTrans ==
  ASSUME NEW s, NEW t, NEW u, Carries(s, t), Carries(t, u)
  PROVE  Carries(s, u)
  BY DEF Carries

LEMMA CarriesSelf == \A s : Carries(s, s)
  BY DEF Carries

(* Only what the FAT buffer holds differs, and nothing waits in it.        *)
LEMMA CarriesSame ==
  ASSUME NEW s, NEW t, t.fat = s.fat, t.dir = s.dir, t.out = s.out,
         \/ ~s.dirty /\ ~t.dirty
         \/ t.dirty = s.dirty /\ t.sec = s.sec
  PROVE  Carries(s, t)
<1>1. \A D : Agrees(D, s) => Agrees(D, t)
  BY DEF Agrees
<1> SUFFICES ASSUME NEW m, NEW G, NEW H, Covered(m, s, G, H) PROVE Covered(m, t, G, H)
  BY DEF Carries
<1>2. PICK D \in Disks : Reaches(m, s.out, D) /\ Agrees(D, s) /\ Lags(D.fat, G, H)
  BY DEF Covered
<1> QED
  BY <1>1, <1>2 DEF Covered

(* Sectors of a file are written: the table and the directory stay.        *)
LEMMA CarriesData ==
  ASSUME NEW s \in Volumes, NEW t, NEW w \in DataWrites, t.fat = s.fat, t.dir = s.dir, t.dirty = s.dirty, t.sec = s.sec,
         t.out = Append(s.out, w)
  PROVE  Carries(s, t)
<1> SUFFICES ASSUME NEW m, NEW G, NEW H, Covered(m, s, G, H) PROVE Covered(m, t, G, H)
  BY DEF Carries
<1>1. PICK D \in Disks : Reaches(m, s.out, D) /\ Agrees(D, s) /\ Lags(D.fat, G, H)
  BY DEF Covered
<1> DEFINE E == WriteDone(D, w)
<1>2. w.kind = "data" /\ w \in Writes
  BY DEF DataWrites, Writes
<1>3. E.fat = D.fat /\ E.dir = D.dir
  BY <1>2 DEF WriteDone, Disks
<1>4. Fit(D.dir, H)
  BY <1>1, FitOnDisk DEF Covered
<1> HIDE DEF E
<1>5. E \in Disks /\ Reaches(m, t.out, E)
  BY <1>1, <1>2, <1>3, <1>4, OneMoreWrite DEF Covered, E
<1>6. Agrees(E, t)
  BY <1>1, <1>3 DEF Agrees
<1>7. Lags(E.fat, G, H) /\ Lags(t.fat, G, H) /\ Fit(t.dir, H)
  BY <1>1, <1>3 DEF Covered
<1> QED
  BY <1>5, <1>6, <1>7 DEF Covered

(* Row c of the directory becomes row; the disk gets it, if it has room.   *)
RowWritten(s, t, c, row, w) ==
    /\ c \in Entries /\ w \in Writes
    /\ t.fat = s.fat /\ t.dirty = s.dirty /\ t.sec = s.sec /\ t.dir = [s.dir EXCEPT ![c] = row]
    /\ t.out = IF c <= LastCluster THEN Append(s.out, w) ELSE s.out
    /\ \A D \in Disks : D.dir[c] = s.dir[c] =>
          WriteDone(D, w).fat = D.fat /\ WriteDone(D, w).dir = [D.dir EXCEPT ![c] = row]

LEMMA CarriesRow ==
  ASSUME NEW s \in Volumes, NEW t, NEW c, NEW row, NEW w, RowWritten(s, t, c, row, w)
  PROVE  CarriesFit(s, t)
<1>0. /\ c \in Entries /\ w \in Writes
      /\ t.fat = s.fat /\ t.dirty = s.dirty /\ t.sec = s.sec /\ t.dir = [s.dir EXCEPT ![c] = row]
      /\ t.out = IF c <= LastCluster THEN Append(s.out, w) ELSE s.out
      /\ \A D \in Disks : D.dir[c] = s.dir[c] =>
            WriteDone(D, w).fat = D.fat /\ WriteDone(D, w).dir = [D.dir EXCEPT ![c] = row]
  BY DEF RowWritten
<1> SUFFICES ASSUME NEW m, NEW G, NEW H, Covered(m, s, G, H), Fit(t.dir, H) PROVE Covered(m, t, G, H)
  BY DEF CarriesFit
<1>1. PICK D \in Disks : Reaches(m, s.out, D) /\ Agrees(D, s) /\ Lags(D.fat, G, H)
  BY DEF Covered
<1>2. DOMAIN s.dir = Entries /\ DOMAIN D.dir = Entries
  BY DEF Volumes, Volume, Disks, Dirs
<1>3. t.dir[c] = row /\ \A d \in Entries \ {c} : t.dir[d] = s.dir[d]
  BY <1>0, <1>2
<1>4. CASE c <= LastCluster
  <2> DEFINE E == WriteDone(D, w)
  <2>1. D.dir[c] = s.dir[c]
    BY <1>0, <1>1, <1>4 DEF Agrees
  <2>2. E.fat = D.fat /\ E.dir = [D.dir EXCEPT ![c] = row]
    BY <1>0, <2>1
  <2> HIDE DEF E
  <2>3. E.dir[c] = row /\ \A d \in Entries \ {c} : E.dir[d] = D.dir[d]
    BY <1>0, <1>2, <2>2
  <2>4. Agrees(E, t)
    <3> SUFFICES ASSUME NEW d \in Entries
                 PROVE  /\ (t.dirty /\ SectorOf(d) = t.sec) \/ E.fat[d] = t.fat[d]
                        /\ E.dir[d] = IF d <= LastCluster THEN t.dir[d] ELSE [i \in 1 .. DirSlots |-> NoEntry]
      BY DEF Agrees
    <3>1. /\ (s.dirty /\ SectorOf(d) = s.sec) \/ D.fat[d] = s.fat[d]
          /\ D.dir[d] = IF d <= LastCluster THEN s.dir[d] ELSE [i \in 1 .. DirSlots |-> NoEntry]
      BY <1>1 DEF Agrees
    <3> QED
      BY <1>0, <1>3, <1>4, <2>2, <2>3, <3>1
  <2>5. Fit(E.dir, H)
    BY <2>4, FitOnDisk
  <2>6. E \in Disks /\ Reaches(m, Append(s.out, w), E)
    BY <1>0, <1>1, <2>2, <2>5, OneMoreWrite DEF Covered, E
  <2> QED
    BY <1>0, <1>1, <1>4, <2>2, <2>4, <2>6 DEF Covered
<1>5. CASE ~(c <= LastCluster)
  <2>1. Agrees(D, t)
    <3> SUFFICES ASSUME NEW d \in Entries
                 PROVE  /\ (t.dirty /\ SectorOf(d) = t.sec) \/ D.fat[d] = t.fat[d]
                        /\ D.dir[d] = IF d <= LastCluster THEN t.dir[d] ELSE [i \in 1 .. DirSlots |-> NoEntry]
      BY DEF Agrees
    <3>1. /\ (s.dirty /\ SectorOf(d) = s.sec) \/ D.fat[d] = s.fat[d]
          /\ D.dir[d] = IF d <= LastCluster THEN s.dir[d] ELSE [i \in 1 .. DirSlots |-> NoEntry]
      BY <1>1 DEF Agrees
    <3> QED
      BY <1>0, <1>3, <1>5, <3>1
  <2> QED
    BY <1>0, <1>1, <1>5, <2>1 DEF Covered
<1> QED
  BY <1>4, <1>5

----------------------------------------------------------------------------
(* The entries of a directory, after place i of cluster c got e.           *)
RowSet(dir, g, c, i, e) ==
    \A a \in Entries, j \in 1 .. DirSlots : g[a][j] = IF a = c /\ j = i THEN e ELSE dir[a][j]

LEMMA FitNew ==
  ASSUME NEW dir, NEW H, NEW e, e.start \in H \ {Root}, Fit(dir, H \ {e.start}),
         NEW g, NEW c, NEW i, RowSet(dir, g, c, i, e)
  PROVE  Fit(g, H)
<1> SUFFICES ASSUME NEW a \in Entries, NEW b \in Entries, NEW j \in 1 .. DirSlots, NEW k \in 1 .. DirSlots,
                    g[a][j] # NoEntry
             PROVE  /\ g[a][j].start \in H \ {Root}
                    /\ g[b][k] # NoEntry /\ (a # b \/ j # k) => g[a][j].start # g[b][k].start
  BY DEF Fit
<1>1. /\ dir[a][j] # NoEntry => dir[a][j].start \in (H \ {e.start}) \ {Root}
      /\ dir[b][k] # NoEntry => dir[b][k].start \in (H \ {e.start}) \ {Root}
      /\ dir[a][j] # NoEntry /\ dir[b][k] # NoEntry /\ (a # b \/ j # k) => dir[a][j].start # dir[b][k].start
  BY DEF Fit
<1>2. /\ g[a][j] = IF a = c /\ j = i THEN e ELSE dir[a][j]
      /\ g[b][k] = IF b = c /\ k = i THEN e ELSE dir[b][k]
  BY DEF RowSet
<1> QED
  BY <1>1, <1>2

(* A new length;                                                           *)
LEMMA FitSame ==
  ASSUME NEW dir, NEW H, Fit(dir, H), NEW e, NEW c \in Entries, NEW i \in 1 .. DirSlots,
         dir[c][i] # NoEntry, e.start = dir[c][i].start, NEW g, RowSet(dir, g, c, i, e)
  PROVE  Fit(g, H)
<1> SUFFICES ASSUME NEW a \in Entries, NEW b \in Entries, NEW j \in 1 .. DirSlots, NEW k \in 1 .. DirSlots,
                    g[a][j] # NoEntry
             PROVE  /\ g[a][j].start \in H \ {Root}
                    /\ g[b][k] # NoEntry /\ (a # b \/ j # k) => g[a][j].start # g[b][k].start
  BY DEF Fit
<1>1. \A x \in Entries, l \in 1 .. DirSlots : g[x][l] # NoEntry => dir[x][l] # NoEntry /\ g[x][l].start = dir[x][l].start
  BY DEF RowSet
<1>2. /\ dir[a][j] # NoEntry => dir[a][j].start \in H \ {Root}
      /\ dir[a][j] # NoEntry /\ dir[b][k] # NoEntry /\ (a # b \/ j # k) => dir[a][j].start # dir[b][k].start
  BY DEF Fit
<1> QED
  BY <1>1, <1>2

(* no file any more.                                                       *)
LEMMA FitNone ==
  ASSUME NEW dir, NEW H, Fit(dir, H), NEW c \in Entries, NEW i \in 1 .. DirSlots,
         dir[c][i] # NoEntry, NEW g, RowSet(dir, g, c, i, NoEntry)
  PROVE  Fit(g, H \ {dir[c][i].start}) /\ Fit(g, H)
<1>1. \A x \in Entries, l \in 1 .. DirSlots : g[x][l] # NoEntry =>
         (x # c \/ l # i) /\ dir[x][l] # NoEntry /\ g[x][l].start = dir[x][l].start
  BY DEF RowSet
<1>2. Fit(g, H \ {dir[c][i].start})
  <2> SUFFICES ASSUME NEW a \in Entries, NEW b \in Entries, NEW j \in 1 .. DirSlots, NEW k \in 1 .. DirSlots,
                      g[a][j] # NoEntry
               PROVE  /\ g[a][j].start \in (H \ {dir[c][i].start}) \ {Root}
                      /\ g[b][k] # NoEntry /\ (a # b \/ j # k) => g[a][j].start # g[b][k].start
    BY DEF Fit
  <2>1. dir[a][j].start \in H \ {Root} /\ dir[a][j].start # dir[c][i].start
    BY <1>1 DEF Fit
  <2>2. dir[b][k] # NoEntry /\ (a # b \/ j # k) => dir[a][j].start # dir[b][k].start
    BY <1>1 DEF Fit
  <2> QED
    BY <1>1, <2>1, <2>2
<1>3. Fit(g, H)
  BY <1>2, FitMore
<1> QED
  BY <1>2, <1>3

(* a cluster that becomes one of the directory has no entries.             *)
LEMMA FitErased ==
  ASSUME NEW dir, NEW H, Fit(dir, H), NEW g,
         \A a \in Entries, j \in 1 .. DirSlots : g[a][j] \in {NoEntry, dir[a][j]}
  PROVE  Fit(g, H)
<1>1. \A x \in Entries, l \in 1 .. DirSlots : g[x][l] # NoEntry => g[x][l] = dir[x][l]
  OBVIOUS
<1> SUFFICES ASSUME NEW a \in Entries, NEW b \in Entries, NEW j \in 1 .. DirSlots, NEW k \in 1 .. DirSlots,
                    g[a][j] # NoEntry
             PROVE  /\ g[a][j].start \in H \ {Root}
                    /\ g[b][k] # NoEntry /\ (a # b \/ j # k) => g[a][j].start # g[b][k].start
  BY DEF Fit
<1>2. /\ dir[a][j] # NoEntry => dir[a][j].start \in H \ {Root}
      /\ dir[a][j] # NoEntry /\ dir[b][k] # NoEntry /\ (a # b \/ j # k) => dir[a][j].start # dir[b][k].start
  BY DEF Fit
<1> QED
  BY <1>1, <1>2
----------------------------------------------------------------------------
(* The FAT buffer.  t has the contents of s: only the buffer, and what is  *)
(* written, differ;                                                        *)
Looks(s, t) == t \in Volumes /\ t.fat = s.fat /\ t.dir = s.dir /\ t.data = s.data
(* and what is written is no danger to the disk.                           *)
Reads(s, t) == Looks(s, t) /\ Carries(s, t)

LEMMA ReadsTrans == \A s, t, u : Reads(s, t) /\ Reads(t, u) => Reads(s, u)
<1> SUFFICES ASSUME NEW s, NEW t, NEW u, Reads(s, t), Reads(t, u) PROVE Reads(s, u)
  OBVIOUS
<1>1. Looks(s, u)
  BY DEF Reads, Looks
<1>2. Carries(s, u)
  BY CarriesTrans DEF Reads
<1> QED
  BY <1>1, <1>2 DEF Reads

LEMMA ReadsSelf == \A s \in Volumes : Reads(s, s)
  BY CarriesSelf DEF Reads, Looks

LEMMA ReadsLooks ==
  ASSUME NEW s, NEW t, Reads(s, t)
  PROVE  t \in Volumes /\ t.fat = s.fat /\ t.dir = s.dir /\ t.data = s.data
  BY DEF Reads, Looks

(* A write is added to the writes of the call.                             *)
LEMMA IssueType ==
  ASSUME NEW s \in Volumes, NEW w \in Writes
  PROVE  /\ Looks(s, Issue(s, w)) /\ Issue(s, w).sec = s.sec /\ Issue(s, w).dirty = s.dirty
         /\ Issue(s, w).out = Append(s.out, w)
<1>1. s \in Volume /\ s.out \in Seq(Writes) /\ (s.dirty => s.sec # None)
  BY DEF Volumes, Volume
<1>2. Append(s.out, w) \in Seq(Writes)
  BY <1>1, AppendProperties
<1> DEFINE o == Append(s.out, w)
<1> HIDE DEF o
<1>3. [s EXCEPT !.out = o] \in Volume
  BY <1>1, <1>2 DEF Volume, o
<1>4. /\ [s EXCEPT !.out = o].fat = s.fat /\ [s EXCEPT !.out = o].dir = s.dir
      /\ [s EXCEPT !.out = o].data = s.data /\ [s EXCEPT !.out = o].dirty = s.dirty
      /\ [s EXCEPT !.out = o].sec = s.sec /\ [s EXCEPT !.out = o].out = o
  BY <1>1 DEF Volume
<1> QED
  BY <1>1, <1>3, <1>4 DEF Issue, Looks, Volumes, o

(* The sector of the table that the buffer writes.                         *)
SectorWrite(s) == [kind |-> "fat", at |-> s.sec, val |-> [c \in {d \in Entries : SectorOf(d) = s.sec} |-> s.fat[c]]]

LEMMA SectorWriteType ==
  ASSUME NEW s \in Volumes, s.dirty
  PROVE  SectorWrite(s) \in Writes
<1>1. s.sec \in 0 .. FatSectors - 1
  BY DEF Volumes, Volume, Buffers
<1>2. s.fat \in [Entries -> Link]
  BY DEF Volumes, Volume, Table
<1> DEFINE D == {d \in Entries : SectorOf(d) = s.sec}
           v == [c \in D |-> s.fat[c]]
<1>3. D \in SUBSET Entries
  OBVIOUS
<1>4. v \in [D -> Link]
  BY <1>2
<1> HIDE DEF D
<1>5. v \in UNION {[E -> Link] : E \in SUBSET Entries}
  BY <1>3, <1>4
<1> HIDE DEF v
<1>6. [kind |-> "fat", at |-> s.sec, val |-> v] \in FatWrites
  BY <1>1, <1>5 DEF FatWrites
<1> QED
  BY <1>6 DEF Writes, SectorWrite, v, D

(* fatfs_fat_writeback                                                     *)
LEMMA WritebackLooks ==
  ASSUME NEW s \in Volumes
  PROVE  /\ Looks(s, Writeback(s)) /\ ~Writeback(s).dirty /\ Writeback(s).sec = s.sec
         /\ Writeback(s).out = IF s.dirty THEN Append(s.out, SectorWrite(s)) ELSE s.out
<1>1. CASE s.dirty
  <2> DEFINE w == SectorWrite(s)
             t == Issue(s, w)
  <2>1. Looks(s, t) /\ t.sec = s.sec /\ t.out = Append(s.out, w)
    BY <1>1, SectorWriteType, IssueType
  <2>2. Writeback(s) = [t EXCEPT !.dirty = FALSE]
    BY <1>1 DEF Writeback, SectorWrite
  <2> HIDE DEF t, w
  <2>3. /\ Looks(s, Writeback(s)) /\ ~Writeback(s).dirty /\ Writeback(s).sec = s.sec
        /\ Writeback(s).out = t.out
    BY <2>1, <2>2 DEF Looks, Volumes, Volume
  <2> QED
    BY <1>1, <2>1, <2>3 DEF w
<1>2. CASE ~s.dirty
  BY <1>2 DEF Writeback, Looks
<1> QED
  BY <1>1, <1>2

LEMMA WritebackSettles ==
  ASSUME NEW s \in Volumes, NEW m, NEW G, NEW H, Covered(m, s, G, H)
  PROVE  Settled(m, Writeback(s))
<1> DEFINE t == Writeback(s)
           w == SectorWrite(s)
<1>1. PICK D \in Disks : Reaches(m, s.out, D) /\ Agrees(D, s) /\ Lags(D.fat, G, H)
  BY DEF Covered
<1>2. /\ t.fat = s.fat /\ t.dir = s.dir /\ ~t.dirty
      /\ t.out = IF s.dirty THEN Append(s.out, w) ELSE s.out
  BY WritebackLooks DEF Looks
<1> HIDE DEF t
<1>3. D.fat \in [Entries -> Link] /\ s.fat \in [Entries -> Link]
  BY DEF Disks, Volumes, Volume, Table
<1>4. CASE s.dirty
  <2> DEFINE E == WriteDone(D, w)
  <2>1. w \in Writes
    BY <1>4, SectorWriteType
  <2>2. /\ w.kind = "fat" /\ DOMAIN w.val = {d \in Entries : SectorOf(d) = s.sec}
        /\ \A c \in DOMAIN w.val : w.val[c] = s.fat[c]
    BY DEF SectorWrite
  <2> HIDE DEF w
  <2>3. E = [D EXCEPT !.fat = [c \in Entries |-> IF c \in DOMAIN w.val THEN w.val[c] ELSE D.fat[c]]]
    BY <2>2 DEF WriteDone
  <2>4. E.dir = D.dir /\ E.fat = [c \in Entries |-> IF c \in DOMAIN w.val THEN w.val[c] ELSE D.fat[c]]
    BY <2>3 DEF Disks
  <2>5. \A c \in Entries : (IF c \in DOMAIN w.val THEN w.val[c] ELSE D.fat[c]) = s.fat[c]
    BY <1>1, <1>4, <2>2 DEF Agrees
  <2> HIDE DEF E
  <2>6. E.fat = s.fat
    BY <1>3, <2>4, <2>5
  <2>7. Lags(E.fat, G, H) /\ Fit(E.dir, H) /\ SoundTable(G, H) /\ Root \in H
    BY <1>1, <2>4, <2>6, FitOnDisk DEF Covered
  <2>8. E \in Disks /\ Reaches(m, t.out, E)
    BY <1>1, <1>2, <1>4, <2>1, <2>7, OneMoreWrite DEF E
  <2>9. Agrees(E, t)
    BY <1>1, <1>2, <2>4, <2>6 DEF Agrees
  <2> QED
    BY <1>2, <2>6, <2>8, <2>9 DEF Settled, t
<1>5. CASE ~s.dirty
  <2>1. \A c \in Entries : D.fat[c] = s.fat[c]
    BY <1>1, <1>5 DEF Agrees
  <2>2. D.fat = s.fat
    BY <1>3, <2>1
  <2>3. Agrees(D, t)
    BY <1>1, <1>2, <2>2 DEF Agrees
  <2> QED
    BY <1>1, <1>2, <1>5, <2>2, <2>3 DEF Settled, t
<1> QED
  BY <1>4, <1>5

LEMMA WritebackReads ==
  ASSUME NEW s \in Volumes
  PROVE  Reads(s, Writeback(s)) /\ ~Writeback(s).dirty /\ Writeback(s).sec = s.sec
<1> DEFINE t == Writeback(s)
<1>1. Looks(s, t) /\ ~t.dirty /\ t.sec = s.sec
  BY WritebackLooks
<1>2. ASSUME NEW m, NEW G, NEW H, Covered(m, s, G, H) PROVE Covered(m, t, G, H)
  <2>1. Settled(m, t)
    BY <1>2, WritebackSettles
  <2>2. SoundTable(G, H) /\ Root \in H /\ Lags(t.fat, G, H) /\ Fit(t.dir, H)
    BY <1>1, <1>2 DEF Covered, Looks
  <2> HIDE DEF t
  <2> QED
    BY <2>1, <2>2, SettledCovers
<1> HIDE DEF t
<1>3. Carries(s, t)
  BY <1>2 DEF Carries
<1> QED
  BY <1>1, <1>3 DEF Reads, t

(* fatfs_fat_read_sector                                                   *)
LEMMA ReadFatReads ==
  ASSUME NEW s \in Volumes, NEW n \in 0 .. FatSectors - 1
  PROVE  Reads(s, ReadFat(s, n)) /\ ReadFat(s, n).sec = n
<1>1. CASE s.sec = n
  BY <1>1, ReadsSelf DEF ReadFat
<1>2. CASE s.sec # n
  <2> DEFINE t == Writeback(s)
             u == [t EXCEPT !.sec = n]
  <2>1. Reads(s, t) /\ ~t.dirty
    BY WritebackReads
  <2>2. ReadFat(s, n) = u
    BY <1>2 DEF ReadFat
  <2>3. n \in Buffers
    BY DEF Buffers
  <2>4. t \in Volume
    BY <2>1 DEF Reads, Looks, Volumes
  <2> HIDE DEF t
  <2>5. /\ u \in Volumes /\ u.fat = t.fat /\ u.dir = t.dir /\ u.data = t.data /\ u.out = t.out
        /\ ~u.dirty /\ u.sec = n
    BY <2>1, <2>3, <2>4 DEF Volumes, Volume
  <2> HIDE DEF u
  <2>6. Reads(t, u)
    BY <2>1, <2>5, CarriesSame DEF Reads, Looks
  <2>7. Reads(s, u)
    BY <2>1, <2>6, ReadsTrans
  <2> QED
    BY <2>2, <2>5, <2>7
<1> QED
  BY <1>1, <1>2

(* fatfs_fat_set_cluster                                                   *)
LEMMA SetClusterDoes ==
  ASSUME NEW s \in Volumes, NEW c \in Entries, NEW v \in Link
  PROVE  /\ SetCluster(s, c, v) \in Volumes
         /\ SetCluster(s, c, v).fat = [s.fat EXCEPT ![c] = v]
         /\ SetCluster(s, c, v).dir = s.dir /\ SetCluster(s, c, v).data = s.data
<1> DEFINE t == ReadFat(s, SectorOf(c))
           g == [s.fat EXCEPT ![c] = v]
<1>1. SectorOf(c) \in 0 .. FatSectors - 1 /\ SectorOf(c) # None
  BY SectorOfType, Clusters, Sizes
<1>2. Reads(s, t) /\ t.sec = SectorOf(c)
  BY <1>1, ReadFatReads
<1>3. SetCluster(s, c, v) = [t EXCEPT !.fat = g, !.dirty = TRUE]
  BY <1>2 DEF SetCluster, Reads, Looks, Volumes, Volume
<1>4. g \in Table
  BY DEF Volumes, Volume, Table
<1> HIDE DEF t, g
<1> QED
  <2>1. t \in Volume /\ t.sec # None /\ t.dir = s.dir /\ t.data = s.data
    BY <1>1, <1>2 DEF Reads, Looks, Volumes
  <2>2. /\ SetCluster(s, c, v) \in Volume /\ SetCluster(s, c, v).sec # None
        /\ SetCluster(s, c, v).fat = g
        /\ SetCluster(s, c, v).dir = s.dir /\ SetCluster(s, c, v).data = s.data
    BY <1>3, <1>4, <2>1 DEF Volume
  <2> QED
    BY <2>2 DEF Volumes, g

(* An entry that becomes free, an end, or what it is in G.                 *)
LEMMA SetClusterCovers ==
  ASSUME NEW s \in Volumes, NEW m, NEW G, NEW H, Covered(m, s, G, H), NEW c \in Entries, NEW v \in {0, End, G[c]}
  PROVE  Covered(m, SetCluster(s, c, v), G, H)
<1> DEFINE t == ReadFat(s, SectorOf(c))
           u == SetCluster(s, c, v)
           g == [s.fat EXCEPT ![c] = v]
<1>1. SectorOf(c) \in 0 .. FatSectors - 1
  BY SectorOfType
<1>2. Reads(s, t) /\ t.sec = SectorOf(c)
  BY <1>1, ReadFatReads
<1>3. t \in Volumes /\ t.fat = s.fat /\ t.dir = s.dir /\ Covered(m, t, G, H)
  BY <1>2 DEF Reads, Looks, Carries
<1>4. u = [t EXCEPT !.fat = g, !.dirty = TRUE]
  BY <1>3 DEF SetCluster, Volumes, Volume
<1> HIDE DEF t, u, g
<1>5. u.fat = g /\ u.dirty = TRUE /\ u.dir = t.dir /\ u.sec = SectorOf(c) /\ u.out = t.out
  BY <1>2, <1>3, <1>4 DEF Volumes, Volume
<1>6. SoundTable(G, H) /\ Root \in H /\ Lags(s.fat, G, H) /\ Fit(u.dir, H)
  BY <1>3, <1>5 DEF Covered
<1>7. Lags(u.fat, G, H)
  <2>1. Lags([s.fat EXCEPT ![c] = v], G, H)
    BY <1>6, LagsSet
  <2> QED
    BY <1>5, <2>1, Zenon DEF g
<1>8. PICK D \in Disks : Reaches(m, t.out, D) /\ Agrees(D, t) /\ Lags(D.fat, G, H)
  BY <1>3 DEF Covered
<1>9. Agrees(D, u)
  <2>1. \A d \in Entries \ {c} : u.fat[d] = t.fat[d]
    BY <1>3, <1>5 DEF g, Volumes, Volume, Table
  <2> SUFFICES ASSUME NEW d \in Entries
               PROVE  /\ (u.dirty /\ SectorOf(d) = u.sec) \/ D.fat[d] = u.fat[d]
                      /\ D.dir[d] = IF d <= LastCluster THEN u.dir[d] ELSE [i \in 1 .. DirSlots |-> NoEntry]
    BY DEF Agrees
  <2>2. /\ (t.dirty /\ SectorOf(d) = t.sec) \/ D.fat[d] = t.fat[d]
        /\ D.dir[d] = IF d <= LastCluster THEN t.dir[d] ELSE [i \in 1 .. DirSlots |-> NoEntry]
    BY <1>8 DEF Agrees
  <2> QED
    BY <1>2, <1>5, <2>1, <2>2
<1> QED
  BY <1>5, <1>6, <1>7, <1>8, <1>9 DEF Covered, u

LEMMA SetClusterCarries ==
  ASSUME NEW s \in Volumes, NEW c \in Entries, NEW v \in {0, End}
  PROVE  Carries(s, SetCluster(s, c, v))
<1>1. \A m, G, H : Covered(m, s, G, H) => Covered(m, SetCluster(s, c, v), G, H)
  <2> SUFFICES ASSUME NEW m, NEW G, NEW H, Covered(m, s, G, H) PROVE Covered(m, SetCluster(s, c, v), G, H)
    OBVIOUS
  <2>1. v \in {0, End, G[c]}
    OBVIOUS
  <2> QED
    BY <2>1, SetClusterCovers
<1> QED
  BY <1>1 DEF Carries

(* The least of a set of numbers is one of them.                           *)
LEMMA LeastIn ==
  ASSUME NEW S \in SUBSET Nat, S # {}
  PROVE  Least(S) \in S /\ \A y \in S : Least(S) <= y
<1>1. PICK x \in S : \A y \in S : ~ (<<y, x>> \in OpToRel(<, Nat))
  BY NatLessThanWellFounded, WFMin, Zenon
<1>2. \A y \in S : ~ (y < x)
  BY <1>1 DEF OpToRel
<1>3. \A y \in S : x <= y
  BY <1>2
<1> QED
  BY <1>3 DEF Least

(* fatfs_find_blank_cluster                                                *)
LEMMA BlankIs ==
  ASSUME NEW s \in Volumes
  PROVE  /\ Blank(s) \in Root .. NoCluster
         /\ Blank(s) # NoCluster => Blank(s) \in Entries /\ Blank(s) >= Root /\ s.fat[Blank(s)] = 0
<1> DEFINE S == {c \in Root .. (NoCluster - 1) : s.fat[c] = 0} \cup {NoCluster}
<1>1. S \in SUBSET Nat /\ S # {}
  BY Clusters
<1>2. Blank(s) \in S
  BY <1>1, LeastIn DEF Blank
<1> QED
  BY <1>2, Clusters

LEMMA SearchedReads ==
  ASSUME NEW s \in Volumes
  PROVE  Reads(s, Searched(s))
<1> DEFINE m == IF Blank(s) = NoCluster THEN FatSectors - 1 ELSE SectorOf(Blank(s))
           t == ReadFat(ReadFat(s, SectorOf(Root)), m)
<1>1. SectorOf(Root) \in 0 .. FatSectors - 1
  BY SectorOfType, Clusters
<1>2. m \in 0 .. FatSectors - 1
  <2>1. CASE Blank(s) = NoCluster
    BY <2>1, Sizes
  <2>2. CASE Blank(s) # NoCluster
    <3>1. Blank(s) \in Entries
      BY <2>2, BlankIs, Clusters
    <3> QED
      BY <2>2, <3>1, SectorOfType
  <2> QED
    BY <2>1, <2>2
<1> HIDE DEF m
<1>3. Reads(s, ReadFat(s, SectorOf(Root)))
  BY <1>1, ReadFatReads
<1>4. Reads(ReadFat(s, SectorOf(Root)), t)
  BY <1>2, <1>3, ReadFatReads, ReadsLooks
<1>5. Reads(s, t)
  BY <1>3, <1>4, ReadsTrans
<1> DEFINE b == t.full \/ Blank(s) > LastCluster
<1>6. b \in BOOLEAN
  OBVIOUS
<1>7. t \in Volume /\ (t.dirty => t.sec # None)
  BY <1>5 DEF Reads, Looks, Volumes
<1> HIDE DEF t
<1>8. Searched(s) = [t EXCEPT !.full = b]
  BY <1>7 DEF Searched, m, t, Volume
<1> HIDE DEF b
<1> DEFINE u == [t EXCEPT !.full = b]
<1>9. /\ u \in Volumes /\ u.fat = t.fat /\ u.dir = t.dir /\ u.data = t.data /\ u.out = t.out
      /\ u.dirty = t.dirty /\ u.sec = t.sec
  BY <1>6, <1>7 DEF Volumes, Volume
<1> HIDE DEF u
<1>10. Reads(t, u)
  BY <1>9, CarriesSame DEF Reads, Looks
<1>11. Reads(s, u)
  BY <1>5, <1>10, ReadsTrans
<1> QED
  BY <1>8, <1>11 DEF u

(* fatfs_set_fs_info_next_free_cluster                                     *)
LEMMA ForgetHintReads ==
  ASSUME NEW s \in Volumes
  PROVE  Reads(s, ForgetHint(s))
<1>1. CASE s.hint
  <2> DEFINE t == Writeback(s)
             u == [t EXCEPT !.sec = None, !.hint = FALSE]
  <2>1. Reads(s, t) /\ ~t.dirty
    BY WritebackReads
  <2>2. ForgetHint(s) = u
    BY <1>1 DEF ForgetHint
  <2>3. None \in Buffers
    BY DEF Buffers
  <2>4. t \in Volume
    BY <2>1 DEF Reads, Looks, Volumes
  <2> HIDE DEF t
  <2>5. u \in Volumes /\ u.fat = t.fat /\ u.dir = t.dir /\ u.data = t.data /\ u.out = t.out /\ ~u.dirty
    BY <2>1, <2>3, <2>4 DEF Volumes, Volume
  <2> HIDE DEF u
  <2>6. Reads(t, u)
    BY <2>1, <2>5, CarriesSame DEF Reads, Looks
  <2> QED
    BY <2>1, <2>2, <2>6, ReadsTrans
<1>2. CASE ~s.hint
  BY <1>2, ReadsSelf DEF ForgetHint
<1> QED
  BY <1>1, <1>2

(* The table is read along some clusters.                                  *)
LEMMA ReadAlongReads ==
  ASSUME NEW s \in Volumes, NEW n \in Nat, NEW q, \A i \in 1 .. n : q[i] \in Entries
  PROVE  Reads(s, ReadAlong(s, q, n))
<1> DEFINE S == {t \in Volumes : Reads(s, t)}
           F == [p \in S \X (1 .. n) |-> ReadFat(p[1], SectorOf(q[p[2]]))]
           run == CHOOSE f : f = [i \in 0 .. n |-> IF i = 0 THEN s ELSE ReadFat(f[i - 1], SectorOf(q[i]))]
<1>1. s \in S
  BY ReadsSelf
<1>2. \A t \in S, i \in 1 .. n : ReadFat(t, SectorOf(q[i])) \in S
  <2> TAKE t \in S, i \in 1 .. n
  <2>1. Reads(t, ReadFat(t, SectorOf(q[i])))
    BY SectorOfType, ReadFatReads
  <2> QED
    BY <2>1, ReadsTrans, ReadsLooks
<1>3. F \in [S \X (1 .. n) -> S]
  BY <1>2
<1>4. \A t \in S, i \in 1 .. n : F[<<t, i>>] = ReadFat(t, SectorOf(q[i]))
  OBVIOUS
<1> HIDE DEF S, F
<1>5. PICK f : Run(f, n, S, s, F)
  BY <1>1, <1>3, Loop
<1>6. f = [i \in 0 .. n |-> IF i = 0 THEN s ELSE ReadFat(f[i - 1], SectorOf(q[i]))]
  <2>1. ASSUME NEW i \in 1 .. n PROVE f[i] = ReadFat(f[i - 1], SectorOf(q[i]))
    <3>1. f[i - 1] \in S /\ f[i] = F[<<f[i - 1], i>>]
      BY <1>5 DEF Run
    <3> QED
      BY <1>4, <3>1
  <2> QED
    BY <1>5, <2>1 DEF Run
<1>7. run = [i \in 0 .. n |-> IF i = 0 THEN s ELSE ReadFat(run[i - 1], SectorOf(q[i]))]
  BY <1>6
<1>8. ReadAlong(s, q, n) = run[n]
  BY DEF ReadAlong
<1> HIDE DEF run
<1>9. Rounds(run, n, S, s, F)
  <2>1. run[0] = s /\ \A i \in 1 .. n : run[i] = ReadFat(run[i - 1], SectorOf(q[i]))
    BY <1>7
  <2> QED
    BY <1>4, <2>1 DEF Rounds
<1>10. \A i \in 0 .. n : run[i] \in S
  BY <1>1, <1>3, <1>9, LoopStays
<1> QED
  BY <1>8, <1>10 DEF S

----------------------------------------------------------------------------
(* What operations do to a volume whose table has the chains of H.         *)
Good(s, H) == s \in Volumes /\ SoundTable(s.fat, H) /\ Root \in H

(* What covers s with its own table covers t with the table of t.          *)
Follows(s, t, H) == \A m : Covered(m, s, s.fat, H) => Covered(m, t, t.fat, H)

(* At most the chain of x grows; the directory stays.                      *)
After(s, t, H, x) ==
    /\ t \in Volumes /\ t.dir = s.dir /\ SoundTable(t.fat, H) /\ Follows(s, t, H)
    /\ \A h \in H \ {x} : Chain(t.fat, h) = Chain(s.fat, h)
    /\ Owned(s.fat, x) \subseteq Owned(t.fat, x)

LEMMA FollowsTrans ==
  ASSUME NEW s, NEW t, NEW u, NEW H, Follows(s, t, H), Follows(t, u, H)
  PROVE  Follows(s, u, H)
  BY DEF Follows

LEMMA CarriesFollows ==
  ASSUME NEW s, NEW t, NEW H, Carries(s, t), t.fat = s.fat
  PROVE  Follows(s, t, H)
  BY DEF Follows, Carries

LEMMA AfterTrans ==
  ASSUME NEW s, NEW t, NEW u, NEW H, NEW x, After(s, t, H, x), After(t, u, H, x)
  PROVE  After(s, u, H, x)
<1>1. Follows(s, u, H)
  BY FollowsTrans DEF After
<1> QED
  BY <1>1 DEF After

LEMMA AfterReads ==
  ASSUME NEW s, NEW t, NEW H, NEW x, Good(s, H), Reads(s, t)
  PROVE  After(s, t, H, x) /\ Good(t, H)
<1>1. t \in Volumes /\ t.fat = s.fat /\ t.dir = s.dir
  BY ReadsLooks
<1>2. Follows(s, t, H)
  BY <1>1, CarriesFollows DEF Reads
<1> QED
  BY <1>1, <1>2 DEF After, Good

LEMMA AfterGood ==
  ASSUME NEW s, NEW t, NEW H, NEW x, Good(s, H), After(s, t, H, x)
  PROVE  Good(t, H)
  BY DEF After, Good

(* Nothing happens.                                                        *)
LEMMA AfterSame ==
  ASSUME NEW s, NEW H, NEW x, Good(s, H)
  PROVE  After(s, s, H, x)
  BY CarriesSelf, CarriesFollows DEF After, Good

(* fatfs_free_cluster_chain: each round of the loop frees one cluster.     *)
LEMMA FreeAlongDoes ==
  ASSUME NEW s \in Volumes, NEW n \in Nat, NEW q, \A i \in 1 .. n : q[i] \in Entries
  PROVE  LET t == FreeAlong(s, q, n)
         IN  /\ t \in Volumes /\ t.dir = s.dir /\ Carries(s, t)
             /\ t.fat = [c \in Entries |-> IF \E j \in 1 .. n : q[j] = c THEN 0 ELSE s.fat[c]]
<1> DEFINE S == {t \in Volumes : t.dir = s.dir /\ Carries(s, t)}
           F == [p \in S \X (1 .. n) |-> SetCluster(p[1], q[p[2]], 0)]
           run == CHOOSE f : f = [i \in 0 .. n |-> IF i = 0 THEN s ELSE SetCluster(f[i - 1], q[i], 0)]
           free(i) == [c \in Entries |-> IF \E j \in 1 .. i : q[j] = c THEN 0 ELSE s.fat[c]]
<1>0. 0 \in Link
  BY Clusters DEF Link
<1>1. s \in S
  BY CarriesSelf
<1>2. \A t \in S, i \in 1 .. n : /\ SetCluster(t, q[i], 0) \in S
                                 /\ SetCluster(t, q[i], 0).fat = [t.fat EXCEPT ![q[i]] = 0]
  <2> TAKE t \in S, i \in 1 .. n
  <2>1. Carries(s, SetCluster(t, q[i], 0))
    BY SetClusterCarries, CarriesTrans
  <2> QED
    BY <1>0, <2>1, SetClusterDoes
<1>3. F \in [S \X (1 .. n) -> S]
  BY <1>2
<1>4. \A t \in S, i \in 1 .. n : F[<<t, i>>] = SetCluster(t, q[i], 0)
  OBVIOUS
<1> HIDE DEF S, F
<1>5. PICK f : Run(f, n, S, s, F)
  BY <1>1, <1>3, Loop
<1>6. f = [i \in 0 .. n |-> IF i = 0 THEN s ELSE SetCluster(f[i - 1], q[i], 0)]
  <2>1. ASSUME NEW i \in 1 .. n PROVE f[i] = SetCluster(f[i - 1], q[i], 0)
    <3>1. f[i - 1] \in S /\ f[i] = F[<<f[i - 1], i>>]
      BY <1>5 DEF Run
    <3> QED
      BY <1>4, <3>1
  <2> QED
    BY <1>5, <2>1 DEF Run
<1>7. run = [i \in 0 .. n |-> IF i = 0 THEN s ELSE SetCluster(run[i - 1], q[i], 0)]
  BY <1>6
<1>8. FreeAlong(s, q, n) = run[n]
  BY DEF FreeAlong
<1> HIDE DEF run
<1>9. run[0] = s /\ \A i \in 1 .. n : run[i] = SetCluster(run[i - 1], q[i], 0)
  BY <1>7
<1>10. \A i \in 0 .. n : run[i] \in S
  <2>1. Rounds(run, n, S, s, F)
    BY <1>4, <1>9 DEF Rounds
  <2> QED
    BY <1>1, <1>3, <2>1, LoopStays
<1>11. s.fat \in [Entries -> Link]
  BY DEF Volumes, Volume, Table
<1> DEFINE D == {i \in 0 .. n : run[i].fat = free(i)}
<1>12. 0 \in D
  <2>1. free(0) = [c \in Entries |-> s.fat[c]]
    OBVIOUS
  <2> QED
    BY <1>9, <1>11, <2>1
<1>13. ASSUME NEW i \in 1 .. n, i - 1 \in D PROVE i \in D
  <2>1. run[i - 1] \in S /\ run[i] = SetCluster(run[i - 1], q[i], 0) /\ run[i - 1].fat = free(i - 1)
    BY <1>9, <1>10, <1>13
  <2>2. run[i].fat = [free(i - 1) EXCEPT ![q[i]] = 0]
    BY <1>2, <2>1
  <2>3. ASSUME NEW c \in Entries PROVE [free(i - 1) EXCEPT ![q[i]] = 0][c] = free(i)[c]
    <3>1. \A j \in 1 .. i : j \in 1 .. i - 1 \/ j = i
      OBVIOUS
    <3>2. CASE c = q[i]
      BY <3>2
    <3>3. CASE c # q[i]
      <4>1. (\E j \in 1 .. i - 1 : q[j] = c) <=> (\E j \in 1 .. i : q[j] = c)
        BY <3>1, <3>3
      <4> QED
        BY <3>3, <4>1
    <3> QED
      BY <3>2, <3>3
  <2>4. [free(i - 1) EXCEPT ![q[i]] = 0] = free(i)
    BY <2>3
  <2> QED
    BY <2>2, <2>4
<1> HIDE DEF D
<1>14. n \in D
  BY <1>12, <1>13, RoundInduction
<1> QED
  BY <1>8, <1>10, <1>14 DEF D, S

(* t is s without the chain of x.                                          *)
Freed(s, t, H, x) ==
    /\ Good(t, H \ {x}) /\ t.dir = s.dir /\ Carries(s, t)
    /\ \A c \in Entries : t.fat[c] = IF c \in Owned(s.fat, x) THEN 0 ELSE s.fat[c]
    /\ \A h \in H \ {x} : Chain(t.fat, h) = Chain(s.fat, h)

LEMMA FreeChainDoes ==
  ASSUME NEW s, NEW H, Good(s, H), NEW x \in H \ {Root}
  PROVE  Freed(s, FreeChain(s, x), H, x)
<1> DEFINE q == Chain(s.fat, x)
           t == FreeChain(s, x)
           g == [c \in Entries |-> IF c \in Owned(s.fat, x) THEN 0 ELSE s.fat[c]]
<1>1. s \in Volumes /\ SoundTable(s.fat, H) /\ Root \in H
  BY DEF Good
<1>2. q \in Seq(Cl) /\ Len(q) \in Nat
  BY <1>1, HeadFacts
<1>3. \A i \in 1 .. Len(q) : q[i] \in Entries
  BY <1>2, ClFacts
<1>4. Owned(s.fat, x) = {q[i] : i \in 1 .. Len(q)}
  BY DEF Owned
<1>5. t = FreeAlong(s, q, Len(q))
  BY DEF FreeChain
<1> HIDE DEF q, t
<1>6. t \in Volumes /\ t.dir = s.dir /\ Carries(s, t)
      /\ t.fat = [c \in Entries |-> IF \E j \in 1 .. Len(q) : q[j] = c THEN 0 ELSE s.fat[c]]
  BY <1>1, <1>2, <1>3, <1>5, FreeAlongDoes
<1>7. t.fat = g
  BY <1>4, <1>6
<1>8. SoundTable(t.fat, H \ {x}) /\ \A h \in H \ {x} : Chain(t.fat, h) = Chain(s.fat, h)
  <2>1. x \in H /\ g = [c \in Entries |-> IF c \in Owned(s.fat, x) THEN 0 ELSE s.fat[c]]
    OBVIOUS
  <2> HIDE DEF g
  <2>2. SoundTable(g, H \ {x}) /\ \A h \in H \ {x} : Chain(g, h) = Chain(s.fat, h)
    BY <1>1, <2>1, TableShrinks
  <2> QED
    BY <1>7, <2>2, Zenon
<1>9. \A c \in Entries : t.fat[c] = IF c \in Owned(s.fat, x) THEN 0 ELSE s.fat[c]
  BY <1>7
<1> QED
  BY <1>1, <1>6, <1>8, <1>9 DEF Good, Freed, t

(* A free cluster is linked behind x: what the two writes of the table do. *)
LEMMA LinkDoes ==
  ASSUME NEW s, NEW H, Good(s, H), NEW x \in H, NEW c \in Cl, s.fat[c] = 0
  PROVE  LET t == SetCluster(SetCluster(s, Last(Chain(s.fat, x)), c), c, End)
         IN  /\ After(s, t, H, x) /\ t.dir = s.dir /\ Chain(t.fat, x) = Append(Chain(s.fat, x), c)
             /\ Owned(t.fat, x) = Owned(s.fat, x) \cup {c} /\ Last(Chain(t.fat, x)) = c
<1> DEFINE p == Last(Chain(s.fat, x))
           v == SetCluster(s, p, c)
           t == SetCluster(v, c, End)
           g == [[s.fat EXCEPT ![p] = c] EXCEPT ![c] = End]
<1>1. s \in Volumes /\ SoundTable(s.fat, H)
  BY DEF Good
<1>2. p \in Entries /\ c \in Entries /\ c \in Link /\ End \in Link
  BY <1>1, HeadFacts, ClFacts DEF Link
<1>3. v \in Volumes /\ v.fat = [s.fat EXCEPT ![p] = c] /\ v.dir = s.dir
  BY <1>1, <1>2, SetClusterDoes
<1>4. t \in Volumes /\ t.fat = [v.fat EXCEPT ![c] = End] /\ t.dir = v.dir
  BY <1>2, <1>3, SetClusterDoes
<1>5. t.fat = g
  BY <1>3, <1>4
<1>6. g = [[s.fat EXCEPT ![Last(Chain(s.fat, x))] = c] EXCEPT ![c] = End]
  OBVIOUS
<1> HIDE DEF g, t, v
<1>7. /\ SoundTable(g, H) /\ Chain(g, x) = Append(Chain(s.fat, x), c)
      /\ Owned(g, x) = Owned(s.fat, x) \cup {c}
      /\ \A h \in H \ {x} : Chain(g, h) = Chain(s.fat, h)
  BY <1>1, <1>6, TableGrows
<1>8. p # c
  <2>1. p \in Owned(s.fat, x) /\ s.fat[p] = End
    BY <1>1, HeadFacts
  <2> QED
    BY <2>1, Clusters
<1>9. Follows(s, t, H)
  <2> SUFFICES ASSUME NEW m, Covered(m, s, s.fat, H) PROVE Covered(m, t, t.fat, H)
    BY DEF Follows
  <2>1. Covered(m, s, g, H)
    BY <1>7, CoveredGrows
  <2>2. c \in {0, End, g[p]} /\ End \in {0, End, g[c]}
    BY <1>1, <1>2, <1>8 DEF g, Volumes, Volume, Table
  <2>3. Covered(m, v, g, H)
    BY <1>1, <1>2, <2>1, <2>2, SetClusterCovers DEF v
  <2>4. Covered(m, t, g, H)
    BY <1>2, <1>3, <2>2, <2>3, SetClusterCovers DEF t
  <2> QED
    BY <1>5, <2>4
<1>10. After(s, t, H, x)
  BY <1>3, <1>4, <1>5, <1>7, <1>9 DEF After
<1>11. Last(Append(Chain(s.fat, x), c)) = c
  <2>1. Chain(s.fat, x) \in Seq(Cl)
    BY <1>1, HeadFacts
  <2>2. Append(Chain(s.fat, x), c) \in Seq(Cl) /\ Append(Chain(s.fat, x), c) # <<>>
        /\ Len(Append(Chain(s.fat, x), c)) = Len(Chain(s.fat, x)) + 1
        /\ Append(Chain(s.fat, x), c)[Len(Chain(s.fat, x)) + 1] = c
    BY <2>1, AppendProperties
  <2> QED
    BY <2>2, LastIs
<1> QED
  BY <1>3, <1>4, <1>5, <1>7, <1>10, <1>11 DEF t, v

(* fatfs_add_free_space, after some rounds: start is the last cluster of   *)
(* the chain of x, first one of its clusters.                              *)
Growth(s, H, x) ==
    {a \in [s : Volumes, ok : BOOLEAN, start : Cl, first : {None} \cup Cl] :
        After(s, a.s, H, x) /\ (a.ok => a.start = Last(Chain(a.s.fat, x)))}
Begun(a, x) == a.ok => a.first \in Owned(a.s.fat, x)

LEMMA AddClusterDoes ==
  ASSUME NEW s, NEW H, Good(s, H), NEW x \in H, NEW a \in Growth(s, H, x), NEW i \in Nat
  PROVE  /\ AddCluster(a, i) \in Growth(s, H, x)
         /\ i = 1 \/ Begun(a, x) => Begun(AddCluster(a, i), x)
<1> DEFINE b == AddCluster(a, i)
           c == Blank(a.s)
           u == Searched(a.s)
           T == [s : Volumes, ok : BOOLEAN, start : Cl, first : {None} \cup Cl]
<1>1. a \in T /\ After(s, a.s, H, x) /\ (a.ok => a.start = Last(Chain(a.s.fat, x)))
  BY DEF Growth
<1>2. Good(a.s, H)
  BY <1>1, AfterGood
<1>3. Reads(a.s, u)
  BY <1>1, SearchedReads
<1>4. After(a.s, u, H, x) /\ Good(u, H)
  BY <1>2, <1>3, AfterReads
<1>5. After(s, u, H, x)
  BY <1>1, <1>4, AfterTrans
<1>6. CASE ~a.ok
  BY <1>1, <1>6 DEF AddCluster, Begun
<1>7. CASE a.ok /\ c = NoCluster
  <2>1. b = [a EXCEPT !.s = u, !.ok = FALSE]
    BY <1>7 DEF AddCluster
  <2> HIDE DEF b, u
  <2>2. u \in Volumes
    BY <1>3, ReadsLooks
  <2>3. b \in T /\ b.s = u /\ ~b.ok
    BY <1>1, <2>1, <2>2
  <2> QED
    BY <1>5, <2>3 DEF Growth, Begun, b
<1>8. CASE a.ok /\ c # NoCluster
  <2> DEFINE w == SetCluster(SetCluster(u, Last(Chain(u.fat, x)), c), c, End)
             f == IF i = 1 THEN c ELSE a.first
  <2>1. c \in Cl /\ a.s.fat[c] = 0
    <3>1. c \in Root .. NoCluster /\ a.s.fat[c] = 0
      BY <1>1, <1>8, BlankIs
    <3> HIDE DEF c
    <3> QED
      BY <1>8, <3>1, Clusters DEF Cl
  <2>2. u.fat = a.s.fat
    BY <1>3, ReadsLooks
  <2>3. After(u, w, H, x) /\ Owned(w.fat, x) = Owned(u.fat, x) \cup {c} /\ Last(Chain(w.fat, x)) = c
    BY <1>4, <2>1, <2>2, LinkDoes
  <2>4. After(s, w, H, x) /\ w \in Volumes
    BY <1>5, <2>3, AfterTrans DEF After
  <2>5. b = [s |-> w, ok |-> TRUE, start |-> c, first |-> f]
    BY <1>1, <1>8, <2>2 DEF AddCluster
  <2>6. f \in {None} \cup Cl
    BY <1>1, <2>1
  <2>7. i = 1 \/ Begun(a, x) => f \in Owned(w.fat, x)
    BY <1>8, <2>2, <2>3 DEF Begun
  <2> HIDE DEF w, b, c, f, u
  <2>8. b \in T /\ b.s = w /\ b.ok /\ b.start = c /\ b.first = f
    BY <2>1, <2>4, <2>5, <2>6
  <2>9. b \in Growth(s, H, x)
    BY <2>3, <2>4, <2>8 DEF Growth
  <2>10. i = 1 \/ Begun(a, x) => Begun(b, x)
    BY <2>7, <2>8 DEF Begun
  <2> QED
    BY <2>9, <2>10 DEF b
<1> QED
  BY <1>6, <1>7, <1>8

(* fatfs_add_free_space                                                    *)
LEMMA AddFreeSpaceDoes ==
  ASSUME NEW s, NEW H, Good(s, H), NEW x \in H, NEW n \in Nat, n > 0
  PROVE  LET a == AddFreeSpace(s, Last(Chain(s.fat, x)), n)
         IN  /\ After(s, a.s, H, x) /\ a.ok \in BOOLEAN
             /\ a.ok => a.first \in Owned(a.s.fat, x)
<1> DEFINE p == Last(Chain(s.fat, x))
           z == [s |-> ForgetHint(s), ok |-> TRUE, start |-> p, first |-> None]
           S == Growth(s, H, x)
           F == [q \in S \X (1 .. n) |-> AddCluster(q[1], q[2])]
           run == CHOOSE f : f = [i \in 0 .. n |-> IF i = 0 THEN z ELSE AddCluster(f[i - 1], i)]
<1>1. s \in Volumes /\ SoundTable(s.fat, H)
  BY DEF Good
<1>2. z \in S
  <2>1. Reads(s, ForgetHint(s))
    BY <1>1, ForgetHintReads
  <2>2. After(s, ForgetHint(s), H, x) /\ ForgetHint(s) \in Volumes /\ ForgetHint(s).fat = s.fat
    BY <2>1, AfterReads, ReadsLooks
  <2>3. p \in Cl
    BY <1>1, HeadFacts
  <2> QED
    BY <2>2, <2>3 DEF Growth
<1>3. \A a \in S, i \in 1 .. n : AddCluster(a, i) \in S /\ (i = 1 \/ Begun(a, x) => Begun(AddCluster(a, i), x))
  BY AddClusterDoes
<1>4. F \in [S \X (1 .. n) -> S]
  BY <1>3
<1>5. \A a \in S, i \in 1 .. n : F[<<a, i>>] = AddCluster(a, i)
  OBVIOUS
<1> HIDE DEF S, F, z
<1>6. PICK f : Run(f, n, S, z, F)
  BY <1>2, <1>4, Loop
<1>7. f = [i \in 0 .. n |-> IF i = 0 THEN z ELSE AddCluster(f[i - 1], i)]
  <2>1. ASSUME NEW i \in 1 .. n PROVE f[i] = AddCluster(f[i - 1], i)
    <3>1. f[i - 1] \in S /\ f[i] = F[<<f[i - 1], i>>]
      BY <1>6 DEF Run
    <3> QED
      BY <1>5, <3>1
  <2> QED
    BY <1>6, <2>1 DEF Run
<1>8. run = [i \in 0 .. n |-> IF i = 0 THEN z ELSE AddCluster(run[i - 1], i)]
  BY <1>7
<1>9. AddFreeSpace(s, p, n) = run[n]
  BY DEF AddFreeSpace, z
<1> HIDE DEF run
<1>10. run[0] = z /\ \A i \in 1 .. n : run[i] = AddCluster(run[i - 1], i)
  BY <1>8
<1>11. \A i \in 0 .. n : run[i] \in S
  <2>1. Rounds(run, n, S, z, F)
    BY <1>5, <1>10 DEF Rounds
  <2> QED
    BY <1>2, <1>4, <2>1, LoopStays
<1> DEFINE D == {i \in 0 .. n : i = 0 \/ Begun(run[i], x)}
<1>12. 0 \in D
  OBVIOUS
<1>13. ASSUME NEW i \in 1 .. n, i - 1 \in D PROVE i \in D
  <2>1. run[i - 1] \in S /\ run[i] = AddCluster(run[i - 1], i)
    BY <1>10, <1>11
  <2>2. i = 1 \/ Begun(run[i - 1], x)
    BY <1>13
  <2>3. Begun(run[i], x)
    BY <1>3, <2>1, <2>2
  <2> QED
    BY <2>3
<1> HIDE DEF D
<1>14. n \in D
  BY <1>12, <1>13, RoundInduction
<1>15. run[n] \in S /\ Begun(run[n], x)
  BY <1>11, <1>14 DEF D
<1> QED
  BY <1>9, <1>15 DEF S, Growth, Begun

----------------------------------------------------------------------------
(* The sectors of a file.  Only the last cluster of a chain is followed by *)
(* the end mark.                                                           *)
LEMMA EndIsLast ==
  ASSUME NEW fat, NEW H, SoundTable(fat, H), NEW x \in H, NEW c \in Owned(fat, x), fat[c] = End
  PROVE  c = Last(Chain(fat, x))
<1> DEFINE q == Chain(fat, x)
<1>1. IsChain(fat, q, x) /\ q \in Seq(Cl) /\ Last(q) = q[Len(q)] /\ Len(q) \in Nat
  BY HeadFacts
<1>2. PICK i \in 1 .. Len(q) : c = q[i]
  BY DEF Owned
<1> HIDE DEF q
<1>3. i # Len(q) => i + 1 \in 1 .. Len(q) /\ q[i + 1] \in Cl
  BY <1>1
<1>4. fat[c] = IF i = Len(q) THEN End ELSE q[i + 1]
  BY <1>1, <1>2 DEF IsChain
<1>5. i = Len(q)
  BY <1>3, <1>4, ClFacts
<1> QED
  BY <1>1, <1>2, <1>5 DEF q

(* Where a search in the chain of x may be.                                *)
Searching(s, x) ==
    {a \in [s : Volumes, clu : Link, prev : Link] :
        /\ Reads(s, a.s)
        /\ a.clu \in Owned(s.fat, x) \/ (a.clu = End /\ a.prev = Last(Chain(s.fat, x)))}

(* fatfs_find_next_cluster                                                 *)
LEMMA FollowDoes ==
  ASSUME NEW s, NEW H, Good(s, H), NEW x \in H, NEW a \in Searching(s, x)
  PROVE  Follow(a) \in Searching(s, x)
<1>1. /\ a.s \in Volumes /\ a.clu \in Link /\ a.prev \in Link /\ Reads(s, a.s) /\ a.s.fat = s.fat
      /\ a.clu \in Owned(s.fat, x) \/ (a.clu = End /\ a.prev = Last(Chain(s.fat, x)))
  BY ReadsLooks DEF Searching
<1>2. SoundTable(s.fat, H) /\ s.fat \in [Entries -> Link]
  BY DEF Good, SoundTable, Table
<1>3. Owned(s.fat, x) \subseteq Cl
  BY <1>2, HeadFacts
<1>4. CASE a.clu = End
  BY <1>4 DEF Follow
<1>5. CASE a.clu # End
  <2> DEFINE t == ReadFat(a.s, SectorOf(a.clu))
             d == s.fat[a.clu]
  <2>1. a.clu \in Owned(s.fat, x) /\ a.clu \in Entries
    BY <1>1, <1>3, <1>5, ClFacts
  <2>2. Reads(a.s, t)
    BY <1>1, <2>1, SectorOfType, ReadFatReads
  <2>3. Reads(s, t) /\ t \in Volumes
    BY <1>1, <2>2, ReadsTrans, ReadsLooks
  <2>4. d \in Link /\ (d \in Owned(s.fat, x) \/ d = End)
    BY <1>2, <2>1, HeadFacts
  <2>5. d = End => a.clu = Last(Chain(s.fat, x))
    BY <1>2, <2>1, EndIsLast
  <2>6. Follow(a) = [s |-> t, clu |-> d, prev |-> a.clu]
    BY <1>1, <1>5 DEF Follow
  <2> HIDE DEF t, d
  <2> QED
    BY <1>1, <2>3, <2>4, <2>5, <2>6 DEF Searching
<1> QED
  BY <1>4, <1>5

LEMMA FollowFromDoes ==
  ASSUME NEW s, NEW H, Good(s, H), NEW x \in H, NEW c \in Owned(s.fat, x), NEW n \in Nat
  PROVE  FollowFrom(s, c, n) \in Searching(s, x)
<1> DEFINE z == [s |-> s, clu |-> c, prev |-> End]
           S == Searching(s, x)
           F == [q \in S \X (1 .. n) |-> Follow(q[1])]
           run == CHOOSE f : f = [i \in 0 .. n |-> IF i = 0 THEN z ELSE Follow(f[i - 1])]
<1>1. z \in S
  <2>1. s \in Volumes /\ Reads(s, s) /\ SoundTable(s.fat, H)
    BY ReadsSelf DEF Good
  <2>2. c \in Link /\ End \in Link
    BY <2>1, HeadFacts, ClFacts DEF Link
  <2> QED
    BY <2>1, <2>2 DEF Searching
<1>2. \A a \in S : Follow(a) \in S
  BY FollowDoes
<1>3. F \in [S \X (1 .. n) -> S]
  BY <1>2
<1>4. \A a \in S, i \in 1 .. n : F[<<a, i>>] = Follow(a)
  OBVIOUS
<1> HIDE DEF S, F, z
<1>5. PICK f : Run(f, n, S, z, F)
  BY <1>1, <1>3, Loop
<1>6. f = [i \in 0 .. n |-> IF i = 0 THEN z ELSE Follow(f[i - 1])]
  <2>1. ASSUME NEW i \in 1 .. n PROVE f[i] = Follow(f[i - 1])
    <3>1. f[i - 1] \in S /\ f[i] = F[<<f[i - 1], i>>]
      BY <1>5 DEF Run
    <3> QED
      BY <1>4, <3>1
  <2> QED
    BY <1>5, <2>1 DEF Run
<1>7. run = [i \in 0 .. n |-> IF i = 0 THEN z ELSE Follow(run[i - 1])]
  BY <1>6
<1>8. FollowFrom(s, c, n) = run[n]
  BY DEF FollowFrom, z
<1> HIDE DEF run
<1>9. Rounds(run, n, S, z, F)
  <2>1. run[0] = z /\ \A i \in 1 .. n : run[i] = Follow(run[i - 1])
    BY <1>7
  <2> QED
    BY <1>4, <2>1 DEF Rounds
<1>10. \A i \in 0 .. n : run[i] \in S
  BY <1>1, <1>3, <1>9, LoopStays
<1> QED
  BY <1>8, <1>10 DEF S

(* File objects, and what an object of the file that begins with x holds:  *)
(* the last cluster looked up is one of the file.                          *)
Files == [name : Names \cup {""}, start : Entries, pos : Nat, len : 0 .. MaxLength, changed : BOOLEAN,
          read : BOOLEAN, write : BOOLEAN, append : BOOLEAN, buf : Sector, addr : {None} \cup Nat,
          dirty : BOOLEAN, idx : {None} \cup Nat, clu : Link]
Cached(f, s)   == f.idx # None => f.clu \in Owned(s.fat, f.start)
Object(f, s, x) ==
    f \in Files /\ (f.dirty => f.addr # None) /\ f.start = x /\ Cached(f, s)

(* The same object later on, of the same file with the same length.        *)
Stays(f, g) == /\ g.name = f.name /\ g.start = f.start /\ g.len = f.len /\ g.changed = f.changed
               /\ g.read = f.read /\ g.write = f.write /\ g.append = f.append

LEMMA StaysTrans == \A f, g, h : Stays(f, g) /\ Stays(g, h) => Stays(f, h)
  BY DEF Stays

(* An object of x stays one while the chain of x grows.                    *)
LEMMA ObjectAfter ==
  ASSUME NEW f, NEW s, NEW t, NEW H, NEW x, Object(f, s, x), After(s, t, H, x)
  PROVE  Object(f, t, x)
  BY DEF Object, Cached, After

LEMMA LocateDoes ==
  ASSUME NEW s, NEW H, Good(s, H), NEW x \in H, NEW f, Object(f, s, x), NEW k \in Nat
  PROVE  Locate(s, f, k) \in Searching(s, x)
<1>1. s \in Volumes /\ Reads(s, s) /\ SoundTable(s.fat, H)
  BY ReadsSelf DEF Good
<1>2. f.idx \in {None} \cup Nat /\ f.clu \in Link /\ f.start = x /\ (f.idx # None => f.clu \in Owned(s.fat, x))
  BY DEF Object, Files, Cached
<1>3. None = -1 /\ End \in Link
  BY Clusters DEF Link
<1>4. CASE k = f.idx
  <2>1. Locate(s, f, k) = [s |-> s, clu |-> f.clu, prev |-> End]
    BY <1>4 DEF Locate
  <2>2. f.clu \in Owned(s.fat, x)
    BY <1>2, <1>3, <1>4
  <2> QED
    BY <1>1, <1>2, <1>3, <2>1, <2>2 DEF Searching
<1>5. CASE k # f.idx /\ FromCached(f, k)
  <2>1. f.clu \in Owned(s.fat, x)
    BY <1>2, <1>3, <1>5 DEF FromCached
  <2>2. Locate(s, f, k) = FollowFrom(s, f.clu, 1)
    BY <1>5 DEF Locate
  <2> QED
    BY <2>1, <2>2, FollowFromDoes
<1>6. CASE k # f.idx /\ ~FromCached(f, k)
  <2>1. x \in Owned(s.fat, x)
    BY <1>1, HeadFacts
  <2>2. Locate(s, f, k) = FollowFrom(s, x, k)
    BY <1>2, <1>6 DEF Locate
  <2> QED
    BY <2>1, <2>2, FollowFromDoes
<1> QED
  BY <1>4, <1>5, <1>6

(* Objects that differ in the last cluster looked up only.                 *)
Same(f, g) == Stays(f, g) /\ g.pos = f.pos /\ g.dirty = f.dirty /\ g.addr = f.addr /\ g.buf = f.buf

(* An object has looked up cluster c of its file.                          *)
LEMMA LookedUp ==
  ASSUME NEW f, NEW s, NEW x, Object(f, s, x), NEW k \in Nat, NEW c \in Link, c \in Owned(s.fat, x)
  PROVE  LET g == [f EXCEPT !.idx = k, !.clu = c] IN Object(g, s, x) /\ Same(f, g)
<1> DEFINE g == [f EXCEPT !.idx = k, !.clu = c]
<1>1. f \in Files /\ f.start = x /\ (f.dirty => f.addr # None)
  BY DEF Object
<1>2. g \in Files /\ Same(f, g) /\ g.clu = c
  BY <1>1 DEF Files, Same, Stays
<1> HIDE DEF g
<1>3. Object(g, s, x)
  BY <1>1, <1>2 DEF Object, Cached, Same, Stays
<1> QED
  BY <1>2, <1>3 DEF g

(* Where sector n lies: its cluster in the file, and its place in it.      *)
LEMMA Place ==
  ASSUME NEW n \in Nat, NEW m \in Nat
  PROVE  /\ n \div SectorsPerCluster \in Nat /\ n % SectorsPerCluster \in Nat
         /\ Least2(m, SectorsPerCluster - (n % SectorsPerCluster)) \in 0 .. m
         /\ \A i \in 1 .. Least2(m, SectorsPerCluster - (n % SectorsPerCluster)) :
               (n % SectorsPerCluster) + i \in 1 .. SectorsPerCluster
<1> DEFINE r == n % SectorsPerCluster
<1>1. n \div SectorsPerCluster \in Nat /\ r \in 0 .. SectorsPerCluster - 1
  BY Sizes, Division
<1> HIDE DEF r
<1>2. /\ r \in Nat /\ Least2(m, SectorsPerCluster - r) \in 0 .. m
      /\ \A i \in 1 .. Least2(m, SectorsPerCluster - r) : r + i \in 1 .. SectorsPerCluster
  BY <1>1, Sizes DEF Least2
<1> QED
  BY <1>1, <1>2 DEF r

(* _read_sectors                                                           *)
LEMMA ReadSectorsDoes ==
  ASSUME NEW s, NEW H, Good(s, H), NEW x \in H, NEW f, Object(f, s, x), NEW n \in Nat,
         NEW want \in Nat, NEW old \in Sector
  PROVE  LET r == ReadSectors(s, f, n, want, old)
         IN  /\ Reads(s, r.s) /\ Object(r.f, r.s, x) /\ Same(f, r.f)
             /\ r.got \in Seq(Sector) /\ Len(r.got) <= want
<1> DEFINE k == n \div SectorsPerCluster
           m == n % SectorsPerCluster
           l == Locate(s, f, k)
           r == ReadSectors(s, f, n, want, old)
           e == Least2(want, SectorsPerCluster - m)
<1>1. k \in Nat /\ m \in Nat /\ e \in 0 .. want /\ \A i \in 1 .. e : m + i \in 1 .. SectorsPerCluster
  BY Place
<1>2. l \in Searching(s, x)
  BY <1>1, LocateDoes
<1>3. r = ReadLocated(l, f, n, want, old)
  BY DEF ReadSectors
<1>4. /\ l.clu \in Link /\ Reads(s, l.s) /\ (l.clu # End => l.clu \in Owned(l.s.fat, x))
      /\ l.s \in Volumes
  BY <1>2, ReadsLooks DEF Searching
<1>5. Object(f, l.s, x) /\ Same(f, f)
  BY <1>4, ReadsLooks DEF Object, Cached, Same, Stays
<1> HIDE DEF k, m, e, l
<1>6. CASE l.clu = End
  <2>1. r = [s |-> l.s, f |-> f, got |-> <<>>]
    BY <1>3, <1>6 DEF ReadLocated
  <2>2. r.s = l.s /\ r.f = f /\ r.got = <<>>
    BY <2>1
  <2>3. <<>> \in Seq(Sector) /\ Len(<<>>) <= want
    OBVIOUS
  <2> QED
    BY <1>4, <1>5, <2>2, <2>3
<1>7. CASE l.clu # End
  <2> DEFINE g == [f EXCEPT !.idx = k, !.clu = l.clu]
             got == [i \in 1 .. e |-> ReadMedia(l.s, l.clu, m + i, old)]
  <2>1. r = [s |-> l.s, f |-> g, got |-> got]
    BY <1>3, <1>7 DEF ReadLocated, k, m, e
  <2>2. Object(g, l.s, x) /\ Same(f, g)
    BY <1>1, <1>4, <1>5, <1>7, LookedUp
  <2>3. l.clu \in Entries
    BY <1>4, <1>7 DEF Link
  <2>4. l.s.data \in [Entries -> [1 .. SectorsPerCluster -> Sector]]
    BY <1>4 DEF Volumes, Volume, Datas
  <2>5. \A i \in 1 .. e : ReadMedia(l.s, l.clu, m + i, old) \in Sector
    BY <1>1, <2>3, <2>4 DEF ReadMedia
  <2>6. e \in Nat /\ e <= want
    BY <1>1
  <2>7. got \in [1 .. e -> Sector]
    BY <2>5
  <2> HIDE DEF got, g
  <2>8. got \in Seq(Sector) /\ Len(got) = e
    BY <2>6, <2>7
  <2> QED
    BY <1>4, <2>1, <2>2, <2>6, <2>8
<1> QED
  BY <1>6, <1>7

(* A sector of the data is written.                                        *)
LEMMA WriteMediaDoes ==
  ASSUME NEW s, NEW H, Good(s, H), NEW x, NEW c \in Cl, NEW j \in 1 .. SectorsPerCluster, NEW v \in Sector
  PROVE  After(s, WriteMedia(s, c, j, v), H, x)
<1> DEFINE t == [s EXCEPT !.data[c][j] = v]
           w == [kind |-> "data", at |-> <<c, j>>, val |-> v]
<1>1. s \in Volume /\ (s.dirty => s.sec # None) /\ SoundTable(s.fat, H) /\ c \in Entries
  BY ClFacts DEF Good, Volumes
<1>2. CASE c <= LastCluster
  <2> DEFINE d == [s.data EXCEPT ![c][j] = v]
  <2>1. d \in Datas
    BY <1>1 DEF Volume, Datas
  <2>2. t = [s EXCEPT !.data = d]
    BY <1>1 DEF Volume
  <2> HIDE DEF d, t
  <2>3. t \in Volumes /\ t.fat = s.fat /\ t.dir = s.dir
    BY <1>1, <2>1, <2>2 DEF Volume, Volumes
  <2>4. w \in DataWrites /\ w \in Writes
    <3>1. w \in DataWrites
      BY <1>1 DEF DataWrites
    <3> QED
      BY <3>1 DEF Writes
  <2>5. WriteMedia(s, c, j, v) = Issue(t, w)
    BY <1>2 DEF WriteMedia, t
  <2> HIDE DEF w
  <2> DEFINE u == Issue(t, w)
  <2>6. Looks(t, u) /\ u.sec = t.sec /\ u.dirty = t.dirty /\ u.out = Append(t.out, w)
    BY <2>3, <2>4, IssueType
  <2>7. t.sec = s.sec /\ t.dirty = s.dirty /\ t.out = s.out
    BY <1>1, <2>2 DEF Volume
  <2> HIDE DEF u
  <2>8. u \in Volumes /\ u.fat = s.fat /\ u.dir = s.dir /\ u.sec = s.sec /\ u.dirty = s.dirty
        /\ u.out = Append(s.out, w)
    BY <2>3, <2>6, <2>7 DEF Looks
  <2>9. Carries(s, u)
    BY <2>4, <2>8, CarriesData DEF Good
  <2>10. Follows(s, u, H)
    BY <2>8, <2>9, CarriesFollows
  <2>11. After(s, u, H, x)
    BY <1>1, <2>8, <2>10 DEF After
  <2> QED
    BY <2>5, <2>11 DEF u
<1>3. CASE ~(c <= LastCluster)
  <2>1. WriteMedia(s, c, j, v) = s
    BY <1>3 DEF WriteMedia
  <2> QED
    BY <2>1, AfterSame
<1> QED
  BY <1>2, <1>3

(* Some sectors of a cluster are written.                                  *)
LEMMA WriteAlongDoes ==
  ASSUME NEW s, NEW H, Good(s, H), NEW x, NEW c \in Cl, NEW n \in Nat, NEW m \in Nat,
         \A i \in 1 .. n : m + i \in 1 .. SectorsPerCluster,
         NEW vals, \A i \in 1 .. n : vals[i] \in Sector
  PROVE  After(s, WriteAlong(s, c, m, vals, n), H, x)
<1> DEFINE S == {t \in Volumes : After(s, t, H, x)}
           F == [q \in S \X (1 .. n) |-> WriteMedia(q[1], c, m + q[2], vals[q[2]])]
           run == CHOOSE f : f = [i \in 0 .. n |-> IF i = 0 THEN s ELSE WriteMedia(f[i - 1], c, m + i, vals[i])]
<1>1. s \in S
  BY AfterSame DEF Good
<1>2. \A t \in S, i \in 1 .. n : WriteMedia(t, c, m + i, vals[i]) \in S
  <2> TAKE t \in S, i \in 1 .. n
  <2>1. Good(t, H) /\ After(s, t, H, x)
    BY AfterGood
  <2>2. After(t, WriteMedia(t, c, m + i, vals[i]), H, x)
    BY <2>1, WriteMediaDoes
  <2>3. After(s, WriteMedia(t, c, m + i, vals[i]), H, x)
    BY <2>1, <2>2, AfterTrans
  <2> QED
    BY <2>3 DEF After
<1>3. F \in [S \X (1 .. n) -> S]
  BY <1>2
<1>4. \A t \in S, i \in 1 .. n : F[<<t, i>>] = WriteMedia(t, c, m + i, vals[i])
  OBVIOUS
<1> HIDE DEF S, F
<1>5. PICK f : Run(f, n, S, s, F)
  BY <1>1, <1>3, Loop
<1>6. f = [i \in 0 .. n |-> IF i = 0 THEN s ELSE WriteMedia(f[i - 1], c, m + i, vals[i])]
  <2>1. ASSUME NEW i \in 1 .. n PROVE f[i] = WriteMedia(f[i - 1], c, m + i, vals[i])
    <3>1. f[i - 1] \in S /\ f[i] = F[<<f[i - 1], i>>]
      BY <1>5 DEF Run
    <3> QED
      BY <1>4, <3>1
  <2> QED
    BY <1>5, <2>1 DEF Run
<1>7. run = [i \in 0 .. n |-> IF i = 0 THEN s ELSE WriteMedia(run[i - 1], c, m + i, vals[i])]
  BY <1>6
<1>8. WriteAlong(s, c, m, vals, n) = run[n]
  BY DEF WriteAlong
<1> HIDE DEF run
<1>9. Rounds(run, n, S, s, F)
  <2>1. run[0] = s /\ \A i \in 1 .. n : run[i] = WriteMedia(run[i - 1], c, m + i, vals[i])
    BY <1>7
  <2> QED
    BY <1>4, <2>1 DEF Rounds
<1>10. \A i \in 0 .. n : run[i] \in S
  BY <1>1, <1>3, <1>9, LoopStays
<1> QED
  BY <1>8, <1>10 DEF S

(* _write_sectors: what it does to the volume and to the object.           *)
Wrote(s, f, H, x, w, m) ==
    /\ After(s, w.s, H, x) /\ Object(w.f, w.s, x) /\ Same(f, w.f) /\ w.count \in 0 .. m

LEMMA WriteToDoes ==
  ASSUME NEW s, NEW H, Good(s, H), NEW x \in H, NEW f, Object(f, s, x), NEW n \in Nat,
         NEW vals \in Seq(Sector), NEW c \in Owned(s.fat, x)
  PROVE  Wrote(s, f, H, x, WriteTo(s, c, f, n, vals), Len(vals))
<1> DEFINE k == n \div SectorsPerCluster
           m == n % SectorsPerCluster
           e == Least2(Len(vals), SectorsPerCluster - m)
           t == WriteAlong(s, c, m, vals, e)
           g == [f EXCEPT !.idx = k, !.clu = c]
<1>0. Len(vals) \in Nat
  OBVIOUS
<1>1. k \in Nat /\ m \in Nat /\ e \in 0 .. Len(vals) /\ \A i \in 1 .. e : m + i \in 1 .. SectorsPerCluster
  BY <1>0, Place
<1>2. c \in Cl /\ c \in Link
  BY HeadFacts, ClFacts DEF Good, Link
<1> HIDE DEF k, m, e
<1>3. \A i \in 1 .. e : vals[i] \in Sector
  BY <1>1
<1>4. e \in Nat
  BY <1>0, <1>1
<1>5. After(s, t, H, x)
  BY <1>1, <1>2, <1>3, <1>4, WriteAlongDoes
<1>6. Object(g, s, x) /\ Same(f, g)
  BY <1>1, <1>2, LookedUp
<1>7. Object(g, t, x)
  BY <1>5, <1>6, ObjectAfter
<1>8. WriteTo(s, c, f, n, vals) = [f |-> g, count |-> e, s |-> t]
  BY DEF WriteTo, k, m, e
<1> HIDE DEF t, g
<1> QED
  BY <1>1, <1>5, <1>6, <1>7, <1>8 DEF Wrote

LEMMA WriteSectorsDoes ==
  ASSUME NEW s, NEW H, Good(s, H), NEW x \in H, NEW f, Object(f, s, x), NEW n \in Nat,
         NEW vals \in Seq(Sector), vals # <<>>
  PROVE  Wrote(s, f, H, x, WriteSectors(s, f, n, vals), Len(vals))
<1> DEFINE l == Locate(s, f, n \div SectorsPerCluster)
           w == WriteSectors(s, f, n, vals)
           q == (Len(vals) + SectorsPerCluster - 1) \div SectorsPerCluster
           a == AddFreeSpace(l.s, l.prev, q)
<1>0. Len(vals) \in Nat /\ Len(vals) > 0
  OBVIOUS
<1>1. n \div SectorsPerCluster \in Nat
  BY Place
<1>2. l \in Searching(s, x)
  BY <1>1, LocateDoes
<1>3. w = WriteLocated(l, f, n, vals)
  BY DEF WriteSectors
<1>4. q \in Nat /\ q > 0
  <2> DEFINE b == Len(vals) + SectorsPerCluster - 1
  <2>1. b \in Nat /\ b >= SectorsPerCluster
    BY <1>0, Sizes
  <2>2. q \in Nat /\ b % SectorsPerCluster \in 0 .. SectorsPerCluster - 1
        /\ b = SectorsPerCluster * q + (b % SectorsPerCluster)
    BY <2>1, Sizes, Division
  <2> HIDE DEF b, q
  <2>3. q # 0
    BY <2>1, <2>2, Sizes
  <2> QED
    BY <2>2, <2>3
<1> HIDE DEF l, q
<1>5. Reads(s, l.s) /\ l.s.fat = s.fat
  BY <1>2, ReadsLooks DEF Searching
<1>6. After(s, l.s, H, x) /\ Good(l.s, H)
  BY <1>5, AfterReads
<1>7. Object(f, l.s, x)
  BY <1>6, ObjectAfter
<1>8. CASE l.clu # End
  <2>1. l.clu \in Owned(l.s.fat, x)
    BY <1>2, <1>5, <1>8 DEF Searching
  <2>2. w = WriteTo(l.s, l.clu, f, n, vals)
    BY <1>3, <1>8 DEF WriteLocated
  <2>3. Wrote(l.s, f, H, x, w, Len(vals))
    BY <1>6, <1>7, <2>1, <2>2, WriteToDoes
  <2> QED
    BY <1>6, <2>3, AfterTrans DEF Wrote
<1>9. CASE l.clu = End
  <2>1. l.prev = Last(Chain(l.s.fat, x))
    <3>1. Owned(s.fat, x) \subseteq Cl
      BY HeadFacts DEF Good
    <3> QED
      BY <1>2, <1>5, <1>9, <3>1, ClFacts DEF Searching
  <2>2. After(l.s, a.s, H, x) /\ a.ok \in BOOLEAN /\ (a.ok => a.first \in Owned(a.s.fat, x))
    BY <1>4, <1>6, <2>1, AddFreeSpaceDoes
  <2>3. Good(a.s, H) /\ Object(f, a.s, x) /\ After(s, a.s, H, x)
    BY <1>6, <1>7, <2>2, AfterGood, ObjectAfter, AfterTrans
  <2>4. w = WriteGrown(a, f, n, vals)
    BY <1>3, <1>9 DEF WriteLocated, q
  <2> HIDE DEF a
  <2>5. CASE a.ok
    <3>1. w = WriteTo(a.s, a.first, f, n, vals)
      BY <2>4, <2>5 DEF WriteGrown
    <3>2. Wrote(a.s, f, H, x, w, Len(vals))
      BY <2>2, <2>3, <2>5, <3>1, WriteToDoes
    <3> QED
      BY <2>3, <3>2, AfterTrans DEF Wrote
  <2>6. CASE ~a.ok
    <3>1. w = [s |-> a.s, f |-> f, count |-> 0]
      BY <2>4, <2>6 DEF WriteGrown
    <3>2. w.s = a.s /\ w.f = f /\ w.count = 0
      BY <3>1
    <3> QED
      BY <1>0, <2>3, <3>2 DEF Wrote, Same, Stays
  <2> QED
    BY <2>5, <2>6
<1> QED
  BY <1>8, <1>9

(* What the layers above a sector keep: the volume with at most a longer   *)
(* chain of x, an object of x, and where the object stands.                *)
Held(s, f, H, x, t, g) == After(s, t, H, x) /\ Object(g, t, x) /\ Stays(f, g) /\ g.pos = f.pos

LEMMA HeldTrans ==
  ASSUME NEW s, NEW t, NEW u, NEW f, NEW g, NEW h, NEW H, NEW x,
         Held(s, f, H, x, t, g), Held(t, g, H, x, u, h)
  PROVE  Held(s, f, H, x, u, h)
  BY AfterTrans, StaysTrans DEF Held

LEMMA HeldSame ==
  ASSUME NEW s, NEW f, NEW H, NEW x, Good(s, H), Object(f, s, x)
  PROVE  Held(s, f, H, x, s, f)
  BY AfterSame DEF Held, Stays

(* fl_fflush                                                               *)
LEMMA FlushDoes ==
  ASSUME NEW s, NEW H, Good(s, H), NEW x \in H, NEW f, Object(f, s, x)
  PROVE  Held(s, f, H, x, Flush(s, f).s, Flush(s, f).f)
<1>1. CASE f.dirty
  <2> DEFINE w == WriteSectors(s, f, f.addr, <<f.buf>>)
             b == w.count = 0
             g == [w.f EXCEPT !.dirty = b]
  <2>1. f.addr \in Nat /\ f.buf \in Sector
    BY <1>1 DEF Object, Files
  <2>2. <<f.buf>> \in Seq(Sector) /\ <<f.buf>> # <<>>
    BY <2>1
  <2>3. Wrote(s, f, H, x, w, Len(<<f.buf>>))
    BY <2>1, <2>2, WriteSectorsDoes
  <2>4. Flush(s, f) = [s |-> w.s, f |-> g]
    BY <1>1 DEF Flush, Flushed
  <2>5. b \in BOOLEAN
    OBVIOUS
  <2> HIDE DEF b, w
  <2>6. w.f \in Files /\ w.f.addr = f.addr /\ w.f.start = x /\ w.f.pos = f.pos /\ Stays(f, w.f)
        /\ Cached(w.f, w.s) /\ After(s, w.s, H, x)
    BY <2>3 DEF Wrote, Object, Same
  <2>7. g \in Files /\ g.addr = f.addr /\ Stays(w.f, g) /\ g.pos = f.pos /\ g.start = x
        /\ g.idx = w.f.idx /\ g.clu = w.f.clu
    BY <2>5, <2>6 DEF Files, Stays
  <2> HIDE DEF g
  <2>8. Stays(f, g)
    BY <2>6, <2>7, StaysTrans
  <2>9. Cached(g, w.s) /\ g.addr # None
    BY <1>1, <2>6, <2>7 DEF Cached, Object
  <2>10. Object(g, w.s, x)
    BY <2>7, <2>9 DEF Object
  <2>11. Flush(s, f).s = w.s /\ Flush(s, f).f = g
    BY <2>4
  <2> QED
    BY <2>6, <2>7, <2>8, <2>10, <2>11 DEF Held
<1>2. CASE ~f.dirty
  <2>1. Flush(s, f).s = s /\ Flush(s, f).f = f
    BY <1>2 DEF Flush
  <2> QED
    BY <2>1, HeldSame
<1> QED
  BY <1>1, <1>2

(* A sector comes into the buffer.                                         *)
LEMMA FetchDoes ==
  ASSUME NEW H, NEW x \in H, NEW b, Good(b.s, H), Object(b.f, b.s, x), NEW n \in Nat
  PROVE  LET r == Fetch(b, n)
         IN  Held(b.s, b.f, H, x, r.s, r.f) /\ r.ok \in BOOLEAN
<1> DEFINE d == ReadSectors(b.s, b.f, n, 1, b.f.buf)
           r == Fetch(b, n)
           g == [d.f EXCEPT !.buf = d.got[1], !.addr = n, !.dirty = FALSE]
           k == d.got # <<>>
<1>1. b.f.buf \in Sector
  BY DEF Object, Files
<1>2. /\ Reads(b.s, d.s) /\ Object(d.f, d.s, x) /\ Same(b.f, d.f)
      /\ d.got \in Seq(Sector)
  BY <1>1, ReadSectorsDoes
<1>3. After(b.s, d.s, H, x)
  BY <1>2, AfterReads
<1>4. r = [s |-> d.s, ok |-> k, f |-> IF d.got = <<>> THEN d.f ELSE g]
  BY DEF Fetch, Fetched
<1>5. k \in BOOLEAN
  OBVIOUS
<1> HIDE DEF r, d
<1>6. CASE d.got = <<>>
  <2>1. r.s = d.s /\ r.f = d.f /\ r.ok = k
    BY <1>4, <1>6
  <2> QED
    BY <1>2, <1>3, <1>5, <2>1 DEF Held, Same, r
<1>7. CASE d.got # <<>>
  <2>1. r.s = d.s /\ r.f = g /\ r.ok = k
    BY <1>4, <1>7
  <2>2. d.got[1] \in Sector
    BY <1>2, <1>7
  <2> DEFINE v == d.got[1]
  <2> HIDE DEF v
  <2>3. d.f \in Files /\ d.f.start = x /\ Cached(d.f, d.s) /\ Stays(b.f, d.f) /\ d.f.pos = b.f.pos
    BY <1>2 DEF Object, Same
  <2>4. g = [d.f EXCEPT !.buf = v, !.addr = n, !.dirty = FALSE] /\ v \in Sector
    BY <2>2 DEF v
  <2> HIDE DEF g
  <2>5. g \in Files /\ Stays(d.f, g) /\ g.pos = d.f.pos /\ ~g.dirty /\ g.start = x
        /\ g.idx = d.f.idx /\ g.clu = d.f.clu
    BY <2>3, <2>4 DEF Files, Stays
  <2>6. Object(g, d.s, x)
    BY <2>3, <2>5 DEF Object, Cached
  <2>7. Stays(b.f, g)
    BY <2>3, <2>5, StaysTrans
  <2> QED
    BY <1>3, <1>5, <2>1, <2>3, <2>5, <2>6, <2>7 DEF Held, r
<1> QED
  BY <1>6, <1>7

LEMMA BufferedDoes ==
  ASSUME NEW s, NEW H, Good(s, H), NEW x \in H, NEW f, Object(f, s, x), NEW n \in Nat
  PROVE  LET r == Buffered(s, f, n)
         IN  Held(s, f, H, x, r.s, r.f) /\ r.ok \in BOOLEAN
<1>1. CASE f.addr = n
  <2>1. Buffered(s, f, n) = [s |-> s, f |-> f, ok |-> TRUE]
    BY <1>1 DEF Buffered
  <2>2. Buffered(s, f, n).s = s /\ Buffered(s, f, n).f = f /\ Buffered(s, f, n).ok = TRUE
    BY <2>1
  <2> QED
    BY <2>2, HeldSame
<1>2. CASE f.addr # n
  <2> DEFINE b == Flush(s, f)
  <2>1. Held(s, f, H, x, b.s, b.f)
    BY FlushDoes
  <2>2. Buffered(s, f, n) = Fetch(b, n)
    BY <1>2 DEF Buffered
  <2> HIDE DEF b
  <2>3. Good(b.s, H) /\ Object(b.f, b.s, x)
    BY <2>1, AfterGood DEF Held
  <2>4. Held(b.s, b.f, H, x, Fetch(b, n).s, Fetch(b, n).f) /\ Fetch(b, n).ok \in BOOLEAN
    BY <2>3, FetchDoes
  <2> QED
    BY <2>1, <2>2, <2>4, HeldTrans
<1> QED
  BY <1>1, <1>2

----------------------------------------------------------------------------
(* The rounds of fl_fwrite and fl_fread.  The position of an object.       *)
LEMMA PositionIs ==
  ASSUME NEW f, f.pos \in Nat
  PROVE  SectorNo(f) \in Nat /\ Offset(f) \in 0 .. SectorSize - 1
  BY Sizes, Division DEF SectorNo, Offset

LEMMA PieceIs ==
  ASSUME NEW f, f.pos \in Nat, NEW n \in Nat, n > 0
  PROVE  /\ Piece(f, n) \in 1 .. n /\ Offset(f) + Piece(f, n) <= SectorSize
<1>1. Offset(f) \in 0 .. SectorSize - 1
  BY PositionIs
<1> QED
  BY <1>1, Sizes DEF Piece, Least2

(* Whole sectors of n bytes.                                               *)
LEMMA WholeSectors ==
  ASSUME NEW n \in Nat, n >= SectorSize
  PROVE  /\ n \div SectorSize \in Nat /\ n \div SectorSize > 0
         /\ \A k \in 1 .. n \div SectorSize :
               /\ k * SectorSize \in Nat /\ (k - 1) * SectorSize \in Nat
               /\ k * SectorSize = (k - 1) * SectorSize + SectorSize
               /\ k * SectorSize <= n
<1> DEFINE q == n \div SectorSize
<1>1. q \in Nat /\ n % SectorSize \in 0 .. SectorSize - 1 /\ n = SectorSize * q + (n % SectorSize)
  BY Sizes, Division
<1> HIDE DEF q
<1>2. q # 0
  BY <1>1, Sizes
<1>3. SectorSize * q = q * SectorSize /\ q * SectorSize \in Nat /\ q * SectorSize <= n
  BY <1>1, Sizes
<1>4. ASSUME NEW k \in 1 .. q
      PROVE  /\ k * SectorSize \in Nat /\ (k - 1) * SectorSize \in Nat
             /\ k * SectorSize = (k - 1) * SectorSize + SectorSize
             /\ k * SectorSize <= n
  <2>1. k \in Nat /\ k - 1 \in Nat /\ k <= q
    BY <1>1
  <2>2. k * SectorSize <= q * SectorSize
    BY <1>1, <2>1, Sizes, Monotone
  <2>3. k * SectorSize \in Nat /\ (k - 1) * SectorSize \in Nat
        /\ k * SectorSize = (k - 1) * SectorSize + SectorSize
    BY <2>1, Sizes
  <2> QED
    BY <1>3, <2>2, <2>3
<1> QED
  BY <1>1, <1>2, <1>4 DEF q

(* A position moves on by m of n bytes.                                    *)
LEMMA MovesOn ==
  ASSUME NEW p \in Nat, NEW n \in Nat, NEW m \in Nat, m <= n
  PROVE  p + m \in Nat /\ (p + m) + (n - m) = p + n
  OBVIOUS

(* What is left of some bytes after the first m.                           *)
LEMMA RestIs ==
  ASSUME NEW b \in Seq(Nat), NEW m \in Nat, m <= Len(b)
  PROVE  SubSeq(b, m + 1, Len(b)) \in Seq(Nat) /\ Len(SubSeq(b, m + 1, Len(b))) = Len(b) - m
<1>1. Len(b) \in Nat /\ m + 1 \in Int
  OBVIOUS
<1>2. \A i \in m + 1 .. Len(b) : b[i] \in Nat
  BY <1>1
<1>3. /\ SubSeq(b, m + 1, Len(b)) \in Seq(Nat)
      /\ Len(SubSeq(b, m + 1, Len(b))) = IF m + 1 <= Len(b) THEN Len(b) - (m + 1) + 1 ELSE 0
  BY <1>1, <1>2, SubSeqProperties
<1> QED
  BY <1>1, <1>3

(* fl_fwrite, after some rounds: every byte is behind it or still left.    *)
Writing(s, f, H, x, end) ==
    {a \in [s : Volumes, f : Files, left : Seq(Nat), stop : BOOLEAN] :
        /\ After(s, a.s, H, x) /\ Object(a.f, a.s, x) /\ Stays(f, a.f)
        /\ a.f.pos + Len(a.left) = end}

LEMMA WritePastDoes ==
  ASSUME NEW s, NEW H, Good(s, H), NEW x \in H, NEW f, NEW end, NEW a \in Writing(s, f, H, x, end),
         Offset(a.f) = 0, Len(a.left) >= SectorSize
  PROVE  WritePast(a, Flush(a.s, a.f)) \in Writing(s, f, H, x, end)
<1> DEFINE b == Flush(a.s, a.f)
           g == [b.f EXCEPT !.addr = None, !.dirty = FALSE]
           q == Len(a.left) \div SectorSize
           vals == [k \in 1 .. q |-> SubSeq(a.left, (k - 1) * SectorSize + 1, k * SectorSize)]
           w == WriteSectors(b.s, g, SectorNo(a.f), vals)
           m == w.count * SectorSize
           p == w.f.pos + m
           h == [w.f EXCEPT !.pos = p]
           r == SubSeq(a.left, m + 1, Len(a.left))
           st == w.count = 0
<1>1. /\ a.s \in Volumes /\ a.f \in Files /\ a.left \in Seq(Nat) /\ a.stop \in BOOLEAN
      /\ After(s, a.s, H, x) /\ Object(a.f, a.s, x) /\ Stays(f, a.f) /\ a.f.pos + Len(a.left) = end
  BY DEF Writing
<1>2. Good(a.s, H) /\ a.f.pos \in Nat /\ Len(a.left) \in Nat
  <2>1. Good(a.s, H)
    BY <1>1, AfterGood
  <2>2. a.f.pos \in Nat
    BY <1>1 DEF Files
  <2> QED
    BY <1>1, <2>1, <2>2
<1>3. Held(a.s, a.f, H, x, b.s, b.f)
  BY <1>1, <1>2, FlushDoes
<1>4. Good(b.s, H) /\ b.f \in Files /\ b.f.start = x /\ Cached(b.f, b.s) /\ b.f.pos = a.f.pos
      /\ Stays(f, b.f) /\ After(s, b.s, H, x)
  BY <1>1, <1>2, <1>3, AfterGood, AfterTrans, StaysTrans DEF Held, Object
<1>5. q \in Nat /\ q > 0 /\ \A k \in 1 .. q : /\ k * SectorSize \in Nat /\ (k - 1) * SectorSize \in Nat
                                             /\ k * SectorSize = (k - 1) * SectorSize + SectorSize
                                             /\ k * SectorSize <= Len(a.left)
  BY <1>2, WholeSectors
<1> HIDE DEF b, q
<1>6. g \in Files /\ Stays(b.f, g) /\ g.pos = b.f.pos /\ ~g.dirty /\ g.start = x
      /\ g.idx = b.f.idx /\ g.clu = b.f.clu
  <2>1. None \in {None} \cup Nat
    OBVIOUS
  <2> HIDE DEF b
  <2> QED
    BY <1>4, <2>1 DEF Files, Stays
<1> HIDE DEF g
<1>7. Object(g, b.s, x) /\ Stays(f, g)
  BY <1>4, <1>6, StaysTrans DEF Object, Cached
<1>8. vals \in Seq(Sector) /\ Len(vals) = q /\ vals # <<>>
  <2>1. ASSUME NEW k \in 1 .. q PROVE SubSeq(a.left, (k - 1) * SectorSize + 1, k * SectorSize) \in Sector
    <3> DEFINE i == (k - 1) * SectorSize + 1
               j == k * SectorSize
               v == SubSeq(a.left, i, j)
    <3>1. i \in Int /\ j \in Int /\ i >= 1 /\ j <= Len(a.left) /\ j - i + 1 = SectorSize /\ i <= j
      BY <1>5, Sizes
    <3> HIDE DEF i, j
    <3>2. \A l \in i .. j : a.left[l] \in Nat
      BY <1>1, <1>2, <3>1
    <3>3. v \in Seq(Nat) /\ Len(v) = IF i <= j THEN j - i + 1 ELSE 0
      BY <3>1, <3>2, SubSeqProperties
    <3>4. v \in Seq(Nat) /\ Len(v) = SectorSize
      BY <3>1, <3>3
    <3> HIDE DEF v
    <3>5. v \in Sector
      BY <3>4 DEF Sector
    <3> QED
      BY <3>5 DEF v, i, j
  <2>2. vals \in [1 .. q -> Sector]
    BY <2>1
  <2> HIDE DEF vals
  <2> QED
    BY <1>5, <2>2
<1> HIDE DEF vals
<1>9. SectorNo(a.f) \in Nat
  BY <1>2, PositionIs
<1>10. Wrote(b.s, g, H, x, w, q)
  BY <1>4, <1>7, <1>8, <1>9, WriteSectorsDoes
<1> HIDE DEF w
<1>11. After(s, w.s, H, x) /\ Object(w.f, w.s, x) /\ Stays(f, w.f) /\ w.f.pos = a.f.pos /\ w.count \in 0 .. q
  BY <1>4, <1>6, <1>7, <1>10, AfterTrans, StaysTrans DEF Wrote, Same
<1>12. m \in Nat /\ m <= Len(a.left)
  <2>1. CASE w.count = 0
    BY <1>2, <2>1, Sizes
  <2>2. CASE w.count # 0
    <3>1. w.count \in 1 .. q
      BY <1>5, <1>11, <2>2
    <3> QED
      BY <1>5, <3>1
  <2> QED
    BY <2>1, <2>2
<1>13. st \in BOOLEAN
  OBVIOUS
<1>14. WritePast(a, b) = [s |-> w.s, f |-> h, left |-> r, stop |-> st]
  BY DEF WritePast, WroteSectors, w, vals, g, q
<1> HIDE DEF m, st
<1>15. r \in Seq(Nat) /\ Len(r) = Len(a.left) - m
  BY <1>1, <1>12, RestIs
<1> HIDE DEF r
<1>16. p \in Nat /\ p + Len(r) = end
  <2>1. p = a.f.pos + m /\ a.f.pos + Len(a.left) = end
    BY <1>1, <1>11
  <2>2. m \in Nat /\ m <= Len(a.left) /\ a.f.pos \in Nat /\ Len(a.left) \in Nat
    BY <1>2, <1>12
  <2>3. Len(r) = Len(a.left) - m
    BY <1>15
  <2>4. a.f.pos + m \in Nat /\ (a.f.pos + m) + (Len(a.left) - m) = a.f.pos + Len(a.left)
    BY <2>2, MovesOn
  <2> HIDE DEF p
  <2> QED
    BY <2>1, <2>3, <2>4, Zenon
<1> HIDE DEF p
<1>17. h \in Files /\ Stays(w.f, h) /\ h.pos = p /\ h.start = x /\ h.dirty = w.f.dirty /\ h.addr = w.f.addr
       /\ h.idx = w.f.idx /\ h.clu = w.f.clu
  BY <1>11, <1>16 DEF Object, Files, Stays
<1> HIDE DEF h
<1>18. Object(h, w.s, x) /\ Stays(f, h)
  BY <1>11, <1>17, StaysTrans DEF Object, Cached
<1> DEFINE z == WritePast(a, b)
<1> HIDE DEF z
<1>19. z.s = w.s /\ z.f = h /\ z.left = r /\ z.stop = st
       /\ z \in [s : Volumes, f : Files, left : Seq(Nat), stop : BOOLEAN]
  BY <1>11, <1>13, <1>14, <1>15, <1>17 DEF z, After
<1>20. z \in Writing(s, f, H, x, end)
  BY <1>11, <1>16, <1>17, <1>18, <1>19 DEF Writing
<1> QED
  BY <1>20 DEF z, b

LEMMA WriteIntoDoes ==
  ASSUME NEW s, NEW H, Good(s, H), NEW x \in H, NEW f, NEW end, NEW a \in Writing(s, f, H, x, end),
         a.left # <<>>
  PROVE  WriteInto(a, Buffered(a.s, a.f, SectorNo(a.f)), Piece(a.f, Len(a.left))) \in Writing(s, f, H, x, end)
<1> DEFINE n == SectorNo(a.f)
           r == Buffered(a.s, a.f, n)
           o == Offset(a.f)
           copy == Piece(a.f, Len(a.left))
           p == r.f.pos + copy
           v == [k \in 1 .. SectorSize |-> IF k \in (o + 1) .. (o + copy) THEN a.left[k - o]
                                           ELSE IF r.ok THEN r.f.buf[k] ELSE 0]
           h == [r.f EXCEPT !.addr = n, !.dirty = TRUE, !.pos = p, !.buf = v]
           e == SubSeq(a.left, copy + 1, Len(a.left))
           z == WriteInto(a, r, copy)
<1>1. /\ a.s \in Volumes /\ a.f \in Files /\ a.left \in Seq(Nat) /\ a.stop \in BOOLEAN
      /\ After(s, a.s, H, x) /\ Object(a.f, a.s, x) /\ Stays(f, a.f) /\ a.f.pos + Len(a.left) = end
  BY DEF Writing
<1>2. Good(a.s, H) /\ a.f.pos \in Nat /\ Len(a.left) \in Nat /\ Len(a.left) > 0
  <2>1. Good(a.s, H)
    BY <1>1, AfterGood
  <2>2. a.f.pos \in Nat
    BY <1>1 DEF Files
  <2> QED
    BY <1>1, <2>1, <2>2
<1>3. n \in Nat /\ o \in 0 .. SectorSize - 1 /\ copy \in 1 .. Len(a.left) /\ o + copy <= SectorSize
  BY <1>2, PositionIs, PieceIs
<1>4. Held(a.s, a.f, H, x, r.s, r.f) /\ r.ok \in BOOLEAN
  BY <1>1, <1>2, <1>3, BufferedDoes
<1>5. After(s, r.s, H, x) /\ Object(r.f, r.s, x) /\ Stays(f, r.f) /\ r.f.pos = a.f.pos
  BY <1>1, <1>4, AfterTrans, StaysTrans DEF Held
<1>6. z = [s |-> r.s, left |-> e, stop |-> FALSE, f |-> h]
  BY DEF WriteInto
<1> HIDE DEF n, r, o, copy, z
<1>7. v \in Sector
  <2>1. r.f.buf \in [1 .. SectorSize -> Nat]
    BY <1>5 DEF Object, Files, Sector
  <2>2. ASSUME NEW k \in 1 .. SectorSize
        PROVE  (IF k \in (o + 1) .. (o + copy) THEN a.left[k - o] ELSE IF r.ok THEN r.f.buf[k] ELSE 0) \in Nat
    <3>1. k \in (o + 1) .. (o + copy) => k - o \in 1 .. Len(a.left)
      BY <1>2, <1>3, Sizes
    <3>2. k \in (o + 1) .. (o + copy) => a.left[k - o] \in Nat
      BY <1>1, <3>1, ElementOfSeq
    <3> QED
      BY <2>1, <3>2
  <2> QED
    BY <2>2 DEF Sector
<1>8. e \in Seq(Nat) /\ Len(e) = Len(a.left) - copy
  <2>1. copy \in Nat /\ copy <= Len(a.left)
    BY <1>2, <1>3
  <2> QED
    BY <1>1, <2>1, RestIs
<1> HIDE DEF e
<1>9. p \in Nat /\ p + Len(e) = end
  <2>1. p = a.f.pos + copy /\ a.f.pos + Len(a.left) = end
    BY <1>1, <1>5
  <2>2. copy \in Nat /\ copy <= Len(a.left)
    BY <1>2, <1>3
  <2>3. a.f.pos \in Nat /\ Len(a.left) \in Nat
    BY <1>2
  <2>4. Len(e) = Len(a.left) - copy
    BY <1>8
  <2>5. a.f.pos + copy \in Nat /\ (a.f.pos + copy) + (Len(a.left) - copy) = a.f.pos + Len(a.left)
    BY <2>2, <2>3, MovesOn
  <2> HIDE DEF p, copy
  <2> QED
    BY <2>1, <2>4, <2>5, Zenon
<1> HIDE DEF p, v
<1>10. n \in {None} \cup Nat /\ n # None
  BY <1>3, Clusters
<1>11. h \in Files /\ Stays(r.f, h) /\ h.pos = p /\ h.start = x /\ h.addr = n
       /\ h.idx = r.f.idx /\ h.clu = r.f.clu
  BY <1>5, <1>7, <1>9, <1>10 DEF Object, Files, Stays
<1> HIDE DEF h
<1>12. Object(h, r.s, x) /\ Stays(f, h)
  BY <1>5, <1>10, <1>11, StaysTrans DEF Object, Cached
<1>13. z.s = r.s /\ z.f = h /\ z.left = e /\ z.stop = FALSE
       /\ z \in [s : Volumes, f : Files, left : Seq(Nat), stop : BOOLEAN]
  BY <1>5, <1>6, <1>8, <1>11 DEF After
<1>14. z \in Writing(s, f, H, x, end)
  BY <1>5, <1>9, <1>11, <1>12, <1>13 DEF Writing
<1> QED
  BY <1>14 DEF z, r, n, copy

LEMMA WriteRoundsDo ==
  ASSUME NEW s, NEW H, Good(s, H), NEW x \in H, NEW f, NEW end, NEW a \in Writing(s, f, H, x, end), NEW n \in Nat
  PROVE  WriteRounds(a, n) \in Writing(s, f, H, x, end)
<1> DEFINE S == Writing(s, f, H, x, end)
           F == [q \in S \X (1 .. n) |-> WriteRound(q[1])]
           run == CHOOSE g : g = [i \in 0 .. n |-> IF i = 0 THEN a ELSE WriteRound(g[i - 1])]
<1>1. ASSUME NEW b \in S PROVE WriteRound(b) \in S
  <2>1. CASE b.left = <<>> \/ b.stop
    BY <2>1 DEF WriteRound
  <2>2. CASE ~(b.left = <<>> \/ b.stop) /\ Offset(b.f) = 0 /\ Len(b.left) >= SectorSize
    <3>1. WriteRound(b) = WritePast(b, Flush(b.s, b.f))
      BY <2>2 DEF WriteRound
    <3> QED
      BY <2>2, <3>1, WritePastDoes
  <2>3. CASE ~(b.left = <<>> \/ b.stop) /\ ~(Offset(b.f) = 0 /\ Len(b.left) >= SectorSize)
    <3>1. WriteRound(b) = WriteInto(b, Buffered(b.s, b.f, SectorNo(b.f)), Piece(b.f, Len(b.left)))
      BY <2>3 DEF WriteRound
    <3> QED
      BY <2>3, <3>1, WriteIntoDoes
  <2> QED
    BY <2>1, <2>2, <2>3
<1>2. F \in [S \X (1 .. n) -> S]
  BY <1>1
<1>3. \A b \in S, i \in 1 .. n : F[<<b, i>>] = WriteRound(b)
  OBVIOUS
<1> HIDE DEF S, F
<1>4. a \in S
  BY DEF S
<1>5. PICK g : Run(g, n, S, a, F)
  BY <1>2, <1>4, Loop
<1>6. g = [i \in 0 .. n |-> IF i = 0 THEN a ELSE WriteRound(g[i - 1])]
  <2>1. ASSUME NEW i \in 1 .. n PROVE g[i] = WriteRound(g[i - 1])
    <3>1. g[i - 1] \in S /\ g[i] = F[<<g[i - 1], i>>]
      BY <1>5 DEF Run
    <3> QED
      BY <1>3, <3>1
  <2> QED
    BY <1>5, <2>1 DEF Run
<1>7. run = [i \in 0 .. n |-> IF i = 0 THEN a ELSE WriteRound(run[i - 1])]
  BY <1>6
<1>8. WriteRounds(a, n) = run[n]
  BY DEF WriteRounds
<1> HIDE DEF run
<1>9. Rounds(run, n, S, a, F)
  <2>1. run[0] = a /\ \A i \in 1 .. n : run[i] = WriteRound(run[i - 1])
    BY <1>7
  <2> QED
    BY <1>3, <2>1 DEF Rounds
<1>10. \A i \in 0 .. n : run[i] \in S
  BY <1>2, <1>4, <1>9, LoopStays
<1> QED
  BY <1>8, <1>10 DEF S

(* The bytes of some sectors, one after the other.                         *)
LEMMA FlattenType ==
  ASSUME NEW q \in Seq(Seq(Nat))
  PROVE  FlattenSeq(q) \in Seq(Nat)
<1>1. CASE Len(q) = 0
  <2>1. FlattenSeq(q) = q /\ q = <<>>
    BY <1>1 DEF FlattenSeq
  <2> QED
    BY <2>1
<1>2. CASE Len(q) # 0
  <2> DEFINE n == Len(q) - 1
             S == Seq(Nat)
             F == [p \in S \X (1 .. n) |-> p[1] \o q[p[2] + 1]]
             flatten == CHOOSE f : f = [i \in 1 .. Len(q) |-> IF i = 1 THEN q[i] ELSE f[i - 1] \o q[i]]
  <2>1. n \in Nat /\ Len(q) = n + 1 /\ Len(q) \in Nat /\ \A i \in 1 .. Len(q) : q[i] \in S
    BY <1>2
  <2>2. \A i \in 1 .. n : i + 1 \in 1 .. Len(q)
    BY <2>1
  <2>3. \A t \in S, i \in 1 .. n : t \o q[i + 1] \in S
    <3> TAKE t \in S, i \in 1 .. n
    <3>1. q[i + 1] \in S
      BY <2>1, <2>2
    <3> QED
      BY <3>1, ConcatProperties
  <2>4. F \in [S \X (1 .. n) -> S] /\ q[1] \in S
    BY <2>1, <2>3
  <2>5. \A t \in S, i \in 1 .. n : F[<<t, i>>] = t \o q[i + 1]
    OBVIOUS
  <2> HIDE DEF n, S, F
  <2>6. PICK f : Run(f, n, S, q[1], F)
    BY <2>1, <2>4, Loop
  <2> DEFINE g == [i \in 1 .. Len(q) |-> f[i - 1]]
             r == [i \in 1 .. Len(q) |-> IF i = 1 THEN q[i] ELSE g[i - 1] \o q[i]]
  <2>7. g = [i \in 1 .. Len(q) |-> g[i]] /\ r = [i \in 1 .. Len(q) |-> r[i]]
    OBVIOUS
  <2>8. ASSUME NEW i \in 1 .. Len(q) PROVE g[i] = r[i]
    <3>1. CASE i = 1
      BY <2>6, <3>1 DEF Run
    <3>2. CASE i # 1
      <4>1. i - 1 \in 1 .. n /\ i - 1 \in 1 .. Len(q) /\ (i - 1) + 1 = i /\ f[(i - 1) - 1] \in S
        <5>1. i - 1 \in 1 .. n /\ i - 1 \in 1 .. Len(q) /\ (i - 1) + 1 = i /\ (i - 1) - 1 \in 0 .. n
          BY <2>1, <3>2
        <5> QED
          BY <2>6, <5>1 DEF Run
      <4>2. f[i - 1] = F[<<f[(i - 1) - 1], i - 1>>]
        BY <2>6, <4>1 DEF Run
      <4>3. f[i - 1] = f[(i - 1) - 1] \o q[i]
        BY <2>5, <4>1, <4>2
      <4>4. g[i] = f[i - 1] /\ g[i - 1] = f[(i - 1) - 1]
        BY <4>1
      <4> QED
        BY <3>2, <4>3, <4>4
    <3> QED
      BY <3>1, <3>2
  <2> HIDE DEF g, r
  <2>9. g = r
    BY <2>7, <2>8
  <2>10. flatten = [i \in 1 .. Len(q) |-> IF i = 1 THEN q[i] ELSE flatten[i - 1] \o q[i]]
    BY <2>9 DEF r
  <2>11. FlattenSeq(q) = flatten[Len(q)]
    BY <1>2 DEF FlattenSeq
  <2> HIDE DEF flatten
  <2> DEFINE D == {i \in 0 .. n : flatten[i + 1] \in S}
  <2>12. 0 \in D
    <3>1. flatten[1] = q[1]
      BY <2>1, <2>10
    <3> QED
      BY <2>1, <2>4, <3>1
  <2>13. ASSUME NEW i \in 1 .. n, i - 1 \in D PROVE i \in D
    <3>1. i + 1 \in 1 .. Len(q) /\ i + 1 # 1 /\ (i + 1) - 1 = i /\ (i - 1) + 1 = i /\ i \in 0 .. n
      BY <2>1
    <3>2. flatten[i] \in S
      BY <2>13, <3>1
    <3>3. flatten[i + 1] = flatten[i] \o q[i + 1]
      BY <2>10, <3>1
    <3>4. flatten[i] \o q[i + 1] \in S
      BY <2>3, <3>2
    <3> QED
      BY <3>1, <3>3, <3>4
  <2> HIDE DEF D
  <2>14. \A i \in 0 .. n : i \in D
    BY <2>1, <2>12, <2>13, RoundInduction
  <2>15. n \in D
    BY <2>1, <2>14
  <2> QED
    BY <2>1, <2>11, <2>15 DEF D, S
<1> QED
  BY <1>1, <1>2

LEMMA SectorIsSeq == Sector \subseteq Seq(Nat)
<1> SUFFICES ASSUME NEW v \in Sector PROVE v \in Seq(Nat)
  OBVIOUS
<1>1. v \in [1 .. SectorSize -> Nat] /\ SectorSize \in Nat
  BY Sizes DEF Sector
<1> QED
  BY <1>1

(* fl_fread, after some rounds.                                            *)
Reading(s, f, H, x, end) ==
    {a \in [s : Volumes, f : Files, left : Nat, got : Seq(Nat), stop : BOOLEAN] :
        /\ After(s, a.s, H, x) /\ Object(a.f, a.s, x) /\ Stays(f, a.f)
        /\ a.f.pos + a.left = end}

(* An object goes on by m bytes.                                           *)
LEMMA GoesOn ==
  ASSUME NEW f, NEW s, NEW x, Object(f, s, x), NEW m \in Nat
  PROVE  LET g == [f EXCEPT !.pos = @ + m] IN Object(g, s, x) /\ Stays(f, g) /\ g.pos = f.pos + m
<1> DEFINE p == f.pos + m
           g == [f EXCEPT !.pos = p]
<1>0. f \in Files /\ f.start = x /\ (f.dirty => f.addr # None) /\ Cached(f, s)
  BY DEF Object
<1>1. f \in Files /\ f.start = x /\ (f.dirty => f.addr # None) /\ Cached(f, s) /\ p \in Nat
  <2>1. f.pos \in Nat
    BY <1>0 DEF Files
  <2> QED
    BY <1>0, <2>1
<1> HIDE DEF p
<1>2. g \in Files /\ Stays(f, g) /\ g.pos = p /\ g.start = x /\ g.dirty = f.dirty /\ g.addr = f.addr
      /\ g.idx = f.idx /\ g.clu = f.clu
  BY <1>1 DEF Files, Stays
<1>3. [f EXCEPT !.pos = @ + m] = g
  BY <1>1 DEF Files, p
<1> HIDE DEF g
<1>4. Object(g, s, x)
  BY <1>1, <1>2 DEF Object, Cached
<1> QED
  BY <1>2, <1>3, <1>4 DEF p

LEMMA ReadPastDoes ==
  ASSUME NEW s, NEW H, Good(s, H), NEW x \in H, NEW f, NEW end, NEW a \in Reading(s, f, H, x, end),
         a.left >= SectorSize
  PROVE  ReadPast(a, ReadSectors(a.s, a.f, SectorNo(a.f), a.left \div SectorSize, ZeroSector))
            \in Reading(s, f, H, x, end)
<1> DEFINE q == a.left \div SectorSize
           d == ReadSectors(a.s, a.f, SectorNo(a.f), q, ZeroSector)
           m == Len(d.got) * SectorSize
           h == [d.f EXCEPT !.pos = @ + m]
           l == a.left - m
           b == a.got \o FlattenSeq(d.got)
           st == d.got = <<>>
           z == ReadPast(a, d)
<1>1. /\ a.s \in Volumes /\ a.f \in Files /\ a.left \in Nat /\ a.got \in Seq(Nat)
      /\ After(s, a.s, H, x) /\ Object(a.f, a.s, x) /\ Stays(f, a.f) /\ a.f.pos + a.left = end
  BY DEF Reading
<1>2. Good(a.s, H) /\ a.f.pos \in Nat
  <2>1. Good(a.s, H)
    BY <1>1, AfterGood
  <2> QED
    BY <1>1, <2>1 DEF Files
<1>3. SectorNo(a.f) \in Nat /\ ZeroSector \in Sector
  BY <1>2, PositionIs DEF ZeroSector, Sector
<1>4. q \in Nat /\ q > 0 /\ \A k \in 1 .. q : /\ k * SectorSize \in Nat /\ k * SectorSize <= a.left
  BY <1>1, WholeSectors
<1> HIDE DEF q
<1>5. Reads(a.s, d.s) /\ Object(d.f, d.s, x) /\ Same(a.f, d.f) /\ d.got \in Seq(Sector) /\ Len(d.got) <= q
  BY <1>1, <1>2, <1>3, <1>4, ReadSectorsDoes
<1>6. z = [s |-> d.s, f |-> h, stop |-> st, left |-> l, got |-> b]
  BY DEF ReadPast
<1> HIDE DEF d, z
<1>7. After(s, d.s, H, x) /\ Stays(f, d.f) /\ d.f.pos = a.f.pos
  <2>1. After(a.s, d.s, H, x)
    BY <1>2, <1>5, AfterReads
  <2> QED
    BY <1>1, <1>5, <2>1, AfterTrans, StaysTrans DEF Same
<1>8. m \in Nat /\ m <= a.left
  <2>1. Len(d.got) \in Nat
    BY <1>5
  <2>2. CASE Len(d.got) = 0
    BY <1>1, <2>2, Sizes
  <2>3. CASE Len(d.got) # 0
    <3>1. Len(d.got) \in 1 .. q
      BY <1>4, <1>5, <2>1, <2>3
    <3> QED
      BY <1>4, <3>1
  <2> QED
    BY <2>2, <2>3
<1>9. b \in Seq(Nat)
  <2>1. d.got \in Seq(Seq(Nat))
    BY <1>5, SectorIsSeq
  <2>2. FlattenSeq(d.got) \in Seq(Nat)
    BY <2>1, FlattenType
  <2> QED
    BY <1>1, <2>2, ConcatProperties
<1>10. st \in BOOLEAN
  OBVIOUS
<1> HIDE DEF m, b, st
<1>11. Object(h, d.s, x) /\ Stays(d.f, h) /\ h.pos = d.f.pos + m
  BY <1>5, <1>8, GoesOn
<1> HIDE DEF h
<1>12. Stays(f, h) /\ h \in Files
  BY <1>7, <1>11, StaysTrans DEF Object
<1>13. l \in Nat /\ h.pos + l = end
  BY <1>1, <1>2, <1>7, <1>8, <1>11
<1> HIDE DEF l
<1>14. z.s = d.s /\ z.f = h /\ z.left = l
       /\ z \in [s : Volumes, f : Files, left : Nat, got : Seq(Nat), stop : BOOLEAN]
  BY <1>6, <1>7, <1>9, <1>10, <1>12, <1>13 DEF After
<1>15. z \in Reading(s, f, H, x, end)
  BY <1>7, <1>11, <1>12, <1>13, <1>14 DEF Reading
<1> QED
  BY <1>15 DEF z, d, q

LEMMA ReadFromDoes ==
  ASSUME NEW s, NEW H, Good(s, H), NEW x \in H, NEW f, NEW end, NEW a \in Reading(s, f, H, x, end),
         a.left # 0
  PROVE  ReadFrom(a, Buffered(a.s, a.f, SectorNo(a.f)), Piece(a.f, a.left)) \in Reading(s, f, H, x, end)
<1> DEFINE n == SectorNo(a.f)
           r == Buffered(a.s, a.f, n)
           o == Offset(a.f)
           copy == Piece(a.f, a.left)
           h == [r.f EXCEPT !.pos = @ + copy]
           b == a.got \o SubSeq(r.f.buf, o + 1, o + copy)
           l == a.left - copy
           z == ReadFrom(a, r, copy)
           T == [s : Volumes, f : Files, left : Nat, got : Seq(Nat), stop : BOOLEAN]
<1>1. /\ a.s \in Volumes /\ a.f \in Files /\ a.left \in Nat /\ a.got \in Seq(Nat) /\ a \in T
      /\ After(s, a.s, H, x) /\ Object(a.f, a.s, x) /\ Stays(f, a.f) /\ a.f.pos + a.left = end
  BY DEF Reading
<1>2. Good(a.s, H) /\ a.f.pos \in Nat /\ a.left > 0
  <2>1. Good(a.s, H)
    BY <1>1, AfterGood
  <2>2. a.f.pos \in Nat
    BY <1>1 DEF Files
  <2> QED
    BY <1>1, <2>1, <2>2
<1>3. n \in Nat /\ o \in 0 .. SectorSize - 1 /\ copy \in 1 .. a.left /\ o + copy <= SectorSize
  BY <1>1, <1>2, PositionIs, PieceIs
<1>4. Held(a.s, a.f, H, x, r.s, r.f) /\ r.ok \in BOOLEAN
  BY <1>1, <1>2, <1>3, BufferedDoes
<1>5. After(s, r.s, H, x) /\ Object(r.f, r.s, x) /\ Stays(f, r.f) /\ r.f.pos = a.f.pos
      /\ r.s \in Volumes /\ r.f \in Files
  <2> HIDE DEF r
  <2>1. After(a.s, r.s, H, x) /\ Object(r.f, r.s, x) /\ Stays(a.f, r.f) /\ r.f.pos = a.f.pos
    BY <1>4 DEF Held
  <2>2. r.s \in Volumes /\ r.f \in Files
    BY <2>1 DEF After, Object
  <2>3. After(s, r.s, H, x) /\ Stays(f, r.f)
    BY <1>1, <2>1, AfterTrans, StaysTrans
  <2> QED
    BY <2>1, <2>2, <2>3
<1>6. CASE r.ok
  <2>1. z = [s |-> r.s, f |-> h, stop |-> FALSE, left |-> l, got |-> b]
    BY <1>6 DEF ReadFrom
  <2> HIDE DEF n, r, o, copy, z
  <2>2. copy \in Nat /\ copy <= a.left /\ l \in Nat
    BY <1>1, <1>3
  <2>3. b \in Seq(Nat)
    <3>1. r.f.buf \in [1 .. SectorSize -> Nat]
      BY <1>5 DEF Files, Sector
    <3>2. o + 1 \in Int /\ o + copy \in Int /\ (o + 1) .. (o + copy) \subseteq 1 .. SectorSize
      BY <1>3, <2>2, Sizes
    <3>3. \A i \in (o + 1) .. (o + copy) : r.f.buf[i] \in Nat
      BY <3>1, <3>2
    <3>4. SubSeq(r.f.buf, o + 1, o + copy) \in Seq(Nat)
      BY <3>2, <3>3, SubSeqProperties
    <3> QED
      BY <1>1, <3>4, ConcatProperties
  <2> HIDE DEF b
  <2>4. Object(h, r.s, x) /\ Stays(r.f, h) /\ h.pos = r.f.pos + copy
    BY <1>5, <2>2, GoesOn
  <2> HIDE DEF h
  <2>5. Stays(f, h) /\ h \in Files
    BY <1>5, <2>4, StaysTrans DEF Object
  <2>6. h.pos + l = end
    BY <1>1, <1>2, <1>5, <2>2, <2>4
  <2> HIDE DEF l
  <2>7. z.s = r.s /\ z.f = h /\ z.left = l /\ z \in T
    BY <1>5, <2>1, <2>2, <2>3, <2>5
  <2> QED
    BY <1>5, <2>4, <2>5, <2>6, <2>7 DEF Reading, z, r, n, copy
<1>7. CASE ~r.ok
  <2>1. z = [a EXCEPT !.s = r.s, !.f = r.f, !.stop = TRUE]
    BY <1>7 DEF ReadFrom
  <2> HIDE DEF n, r, o, copy, z
  <2>2. z.s = r.s /\ z.f = r.f /\ z.left = a.left /\ z \in T
    BY <1>1, <1>5, <2>1
  <2> QED
    BY <1>1, <1>5, <2>2 DEF Reading, z, r, n, copy
<1> QED
  BY <1>4, <1>6, <1>7

LEMMA ReadRoundsDo ==
  ASSUME NEW s, NEW H, Good(s, H), NEW x \in H, NEW f, NEW end, NEW a \in Reading(s, f, H, x, end), NEW n \in Nat
  PROVE  ReadRounds(a, n) \in Reading(s, f, H, x, end)
<1> DEFINE S == Reading(s, f, H, x, end)
           F == [q \in S \X (1 .. n) |-> ReadRound(q[1])]
           run == CHOOSE g : g = [i \in 0 .. n |-> IF i = 0 THEN a ELSE ReadRound(g[i - 1])]
<1>1. ASSUME NEW b \in S PROVE ReadRound(b) \in S
  <2>1. CASE b.left = 0 \/ b.stop
    BY <2>1 DEF ReadRound
  <2>2. CASE ~(b.left = 0 \/ b.stop) /\ Offset(b.f) = 0 /\ b.left >= SectorSize
    <3>1. ReadRound(b) = ReadPast(b, ReadSectors(b.s, b.f, SectorNo(b.f), b.left \div SectorSize, ZeroSector))
      BY <2>2 DEF ReadRound
    <3> QED
      BY <2>2, <3>1, ReadPastDoes
  <2>3. CASE ~(b.left = 0 \/ b.stop) /\ ~(Offset(b.f) = 0 /\ b.left >= SectorSize)
    <3>1. ReadRound(b) = ReadFrom(b, Buffered(b.s, b.f, SectorNo(b.f)), Piece(b.f, b.left))
      BY <2>3 DEF ReadRound
    <3> QED
      BY <2>3, <3>1, ReadFromDoes
  <2> QED
    BY <2>1, <2>2, <2>3
<1>2. F \in [S \X (1 .. n) -> S]
  BY <1>1
<1>3. \A b \in S, i \in 1 .. n : F[<<b, i>>] = ReadRound(b)
  OBVIOUS
<1> HIDE DEF S, F
<1>4. a \in S
  BY DEF S
<1>5. PICK g : Run(g, n, S, a, F)
  BY <1>2, <1>4, Loop
<1>6. g = [i \in 0 .. n |-> IF i = 0 THEN a ELSE ReadRound(g[i - 1])]
  <2>1. ASSUME NEW i \in 1 .. n PROVE g[i] = ReadRound(g[i - 1])
    <3>1. g[i - 1] \in S /\ g[i] = F[<<g[i - 1], i>>]
      BY <1>5 DEF Run
    <3> QED
      BY <1>3, <3>1
  <2> QED
    BY <1>5, <2>1 DEF Run
<1>7. run = [i \in 0 .. n |-> IF i = 0 THEN a ELSE ReadRound(run[i - 1])]
  BY <1>6
<1>8. ReadRounds(a, n) = run[n]
  BY DEF ReadRounds
<1> HIDE DEF run
<1>9. Rounds(run, n, S, a, F)
  <2>1. run[0] = a /\ \A i \in 1 .. n : run[i] = ReadRound(run[i - 1])
    BY <1>7
  <2> QED
    BY <1>3, <2>1 DEF Rounds
<1>10. \A i \in 0 .. n : run[i] \in S
  BY <1>2, <1>4, <1>9, LoopStays
<1> QED
  BY <1>8, <1>10 DEF S

----------------------------------------------------------------------------
(* The directory.  Its places in use, the chains it names, and what makes  *)
(* it a directory: no two places have the same file.                       *)
Slotted(s) == {p \in Places(s) : EntryAt(s, p) # NoEntry}
Heads(s)   == {Root} \cup {EntryAt(s, p).start : p \in Slotted(s)}
Named(s)   == {<<EntryAt(s, p).name, EntryAt(s, p).start>> : p \in Slotted(s)}
DirOK(s)   ==
    /\ \A p \in Slotted(s) : EntryAt(s, p).start # Root
    /\ \A p, q \in Slotted(s) : p # q => /\ EntryAt(s, p).start # EntryAt(s, q).start
                                         /\ EntryAt(s, p).name # EntryAt(s, q).name
FileEntry  == [name : Names, start : Entries, size : 0 .. MaxLength]

LEMMA EntryKinds == \A e \in Entry : (e # NoEntry <=> e \in FileEntry) /\ (e \in FileEntry <=> e.name \in Names)
<1>1. "" \notin Names
  BY FatAssumption
<1>2. NoEntry.name = ""
  BY DEF NoEntry
<1>3. \A e \in FileEntry : e.name \in Names
  BY DEF FileEntry
<1> QED
  BY <1>1, <1>2, <1>3 DEF Entry, FileEntry

(* The directory is the same in t.                                         *)
SameDir(s, t) == Directory(t) = Directory(s) /\ t.dir = s.dir

LEMMA SameDirSame ==
  ASSUME NEW s, NEW t, SameDir(s, t)
  PROVE  /\ Places(t) = Places(s) /\ (\A p : EntryAt(t, p) = EntryAt(s, p))
         /\ Slotted(t) = Slotted(s) /\ Heads(t) = Heads(s) /\ Named(t) = Named(s)
         /\ DirOK(t) <=> DirOK(s)
         /\ \A n : Found(t, n) = Found(s, n) /\ EntryOf(t, n) = EntryOf(s, n)
<1>1. Places(t) = Places(s) /\ \A p : EntryAt(t, p) = EntryAt(s, p)
  BY DEF SameDir, Places, EntryAt
<1>2. Slotted(t) = Slotted(s)
  BY <1>1 DEF Slotted
<1>3. Heads(t) = Heads(s) /\ Named(t) = Named(s)
  BY <1>1, <1>2 DEF Heads, Named
<1>4. DirOK(t) <=> DirOK(s)
  BY <1>1, <1>2 DEF DirOK
<1>5. \A n : Found(t, n) = Found(s, n)
  BY <1>1 DEF Found
<1>6. \A n : EntryOf(t, n) = EntryOf(s, n)
  BY <1>1, <1>5 DEF EntryOf
<1> QED
  BY <1>1, <1>2, <1>3, <1>4, <1>5, <1>6

LEMMA ReadsSameDir == \A s, t : Reads(s, t) => SameDir(s, t)
  BY ReadsLooks DEF SameDir, Directory

(* The places of the directory of a sound table.                           *)
LEMMA DirFacts ==
  ASSUME NEW s, NEW H, Good(s, H)
  PROVE  /\ Directory(s) \in Seq(Cl) /\ Len(Directory(s)) \in Nat /\ Len(Directory(s)) > 0
         /\ \A i \in 1 .. Len(Directory(s)) : Directory(s)[i] \in Cl /\ Directory(s)[i] \in Entries
                                              /\ Directory(s)[i] \in Owned(s.fat, Root)
         /\ \A i, j \in 1 .. Len(Directory(s)) : Directory(s)[i] = Directory(s)[j] => i = j
         /\ Places(s) \subseteq Nat \X Nat
         /\ \A p \in Places(s) : /\ p = <<p[1], p[2]>> /\ p[1] \in 1 .. Len(Directory(s)) /\ p[2] \in 1 .. DirSlots
                                 /\ EntryAt(s, p) \in Entry
<1>1. s \in Volumes /\ SoundTable(s.fat, H) /\ Root \in H
  BY DEF Good
<1>2. /\ IsChain(s.fat, Directory(s), Root) /\ Directory(s) \in Seq(Cl)
      /\ Len(Directory(s)) \in Nat /\ Len(Directory(s)) > 0
  BY <1>1, HeadFacts DEF Directory
<1>3. \A i \in 1 .. Len(Directory(s)) : Directory(s)[i] \in Cl /\ Directory(s)[i] \in Entries
  BY <1>2, ClFacts
<1>4. \A i \in 1 .. Len(Directory(s)) : Directory(s)[i] \in Owned(s.fat, Root)
  BY DEF Directory, Owned
<1>5. \A i, j \in 1 .. Len(Directory(s)) : Directory(s)[i] = Directory(s)[j] => i = j
  BY <1>2 DEF IsChain
<1>6. s.dir \in [Entries -> [1 .. DirSlots -> Entry]]
  BY <1>1 DEF Volumes, Volume, Dirs
<1>7. ASSUME NEW p \in Places(s)
      PROVE  /\ p = <<p[1], p[2]>> /\ p[1] \in 1 .. Len(Directory(s)) /\ p[2] \in 1 .. DirSlots
             /\ EntryAt(s, p) \in Entry /\ p \in Nat \X Nat
  <2>1. p = <<p[1], p[2]>> /\ p[1] \in 1 .. Len(Directory(s)) /\ p[2] \in 1 .. DirSlots
    BY DEF Places
  <2>2. p \in Nat \X Nat
    BY <2>1
  <2> QED
    BY <1>3, <1>6, <2>1, <2>2 DEF EntryAt
<1> QED
  BY <1>2, <1>3, <1>4, <1>5, <1>7

(* The first of some places is one of them.                                *)
LEMMA FirstIn ==
  ASSUME NEW P \in SUBSET (Nat \X Nat), P # {}
  PROVE  First(P) \in P
<1> DEFINE K == {p[1] : p \in P}
           k == Least(K)
           J == {p[2] : p \in {q \in P : q[1] = k}}
           j == Least(J)
<1>1. K \in SUBSET Nat /\ K # {}
  OBVIOUS
<1>2. k \in K /\ \A y \in K : k <= y
  BY <1>1, LeastIn
<1> HIDE DEF k
<1>3. J \in SUBSET Nat /\ J # {}
  BY <1>2
<1>4. j \in J /\ \A y \in J : j <= y
  BY <1>3, LeastIn
<1> HIDE DEF j
<1>5. <<k, j>> \in P
  <2>1. PICK p \in P : p[1] = k /\ p[2] = j
    BY <1>4
  <2> QED
    BY <2>1
<1>6. \A q \in P : k < q[1] \/ (k = q[1] /\ j <= q[2])
  <2> TAKE q \in P
  <2>1. k <= q[1] /\ k \in Nat /\ q[1] \in Nat
    BY <1>1, <1>2
  <2>2. k = q[1] => q[2] \in J
    OBVIOUS
  <2> QED
    BY <1>4, <2>1, <2>2
<1>7. \E p \in P : \A q \in P : p[1] < q[1] \/ (p[1] = q[1] /\ p[2] <= q[2])
  BY <1>5, <1>6
<1> QED
  BY <1>7 DEF First

(* fatfs_sector_reader, over the directory                                 *)
LEMMA ReadDirReads ==
  ASSUME NEW s, NEW H, Good(s, H)
  PROVE  /\ \A k \in 1 .. Len(Directory(s)) : Reads(s, ReadDir(s, k))
         /\ Reads(s, ReadAllDir(s))
<1>0. s \in Volumes /\ Len(Directory(s)) \in Nat
  BY DirFacts DEF Good
<1>1. ASSUME NEW k \in 1 .. Len(Directory(s)) + 1 PROVE Reads(s, ReadDir(s, k))
  <2>1. k - 1 \in Nat /\ 1 .. k - 1 \subseteq 1 .. Len(Directory(s))
    BY <1>0
  <2>2. \A i \in 1 .. k - 1 : Directory(s)[i] \in Entries
    BY <2>1, DirFacts
  <2>3. Reads(s, ReadAlong(s, Directory(s), k - 1))
    BY <1>0, <2>1, <2>2, ReadAlongReads
  <2> QED
    BY <2>3 DEF ReadDir
<1>2. Len(Directory(s)) + 1 \in 1 .. Len(Directory(s)) + 1
      /\ \A k \in 1 .. Len(Directory(s)) : k \in 1 .. Len(Directory(s)) + 1
  BY <1>0
<1> QED
  BY <1>1, <1>2 DEF ReadAllDir

(* The entry that is found for a name.                                     *)
LEMMA FoundIs ==
  ASSUME NEW s, NEW H, Good(s, H), NEW n \in Names
  PROVE  /\ Found(s, n) # {} =>
               /\ First(Found(s, n)) \in Slotted(s) /\ EntryAt(s, First(Found(s, n))) = EntryOf(s, n)
               /\ EntryOf(s, n) \in FileEntry /\ EntryOf(s, n).name = n
               /\ <<n, EntryOf(s, n).start>> \in Named(s) /\ EntryOf(s, n).start \in Heads(s)
         /\ Found(s, n) = {} => \A p \in Slotted(s) : EntryAt(s, p).name # n
<1>1. CASE Found(s, n) # {}
  <2> DEFINE p == First(Found(s, n))
  <2>1. Found(s, n) \in SUBSET (Nat \X Nat)
    BY DirFacts DEF Found
  <2>2. p \in Found(s, n)
    BY <1>1, <2>1, FirstIn
  <2>3. EntryAt(s, p) = EntryOf(s, n)
    BY DEF EntryOf
  <2> HIDE DEF p
  <2>4. p \in Places(s) /\ EntryAt(s, p).name = n /\ EntryAt(s, p) \in Entry
    BY <2>2, DirFacts DEF Found
  <2>5. EntryAt(s, p) \in FileEntry /\ EntryAt(s, p) # NoEntry
    BY <2>4, EntryKinds
  <2>6. p \in Slotted(s)
    BY <2>4, <2>5 DEF Slotted
  <2>7. <<n, EntryAt(s, p).start>> \in Named(s) /\ EntryAt(s, p).start \in Heads(s)
    BY <2>4, <2>6 DEF Named, Heads
  <2> QED
    BY <1>1, <2>3, <2>4, <2>5, <2>6, <2>7 DEF p
<1>2. CASE Found(s, n) = {}
  BY <1>2 DEF Found, Slotted
<1> QED
  BY <1>1, <1>2

(* fatfs_get_file_entry                                                    *)
LEMMA LookUpReads ==
  ASSUME NEW s, NEW H, Good(s, H), NEW n \in Names
  PROVE  Reads(s, LookUp(s, n))
<1>1. CASE Found(s, n) = {}
  BY <1>1, ReadDirReads DEF LookUp
<1>2. CASE Found(s, n) # {}
  <2>1. First(Found(s, n)) \in Places(s)
    BY <1>2, FoundIs DEF Slotted
  <2>2. First(Found(s, n))[1] \in 1 .. Len(Directory(s))
    BY <2>1, DirFacts
  <2> QED
    BY <1>2, <2>2, ReadDirReads DEF LookUp
<1> QED
  BY <1>1, <1>2

(* Place p of the directory gets e; the directory may have grown by blank  *)
(* places.                                                                 *)
Puts(s, t, p, e) ==
    /\ Places(s) \subseteq Places(t) /\ p \in Places(t) /\ EntryAt(t, p) = e
    /\ \A q \in Places(t) \ {p} : EntryAt(t, q) = IF q \in Places(s) THEN EntryAt(s, q) ELSE NoEntry

(* A new file.                                                             *)
LEMMA PutsNew ==
  ASSUME NEW s, NEW t, NEW p, NEW e \in FileEntry, Puts(s, t, p, e), DirOK(s),
         p \in Places(s) => EntryAt(s, p) = NoEntry, e # NoEntry,
         \A q \in Slotted(s) : EntryAt(s, q).name # e.name, e.start \notin Heads(s)
  PROVE  /\ DirOK(t) /\ Heads(t) = Heads(s) \cup {e.start}
         /\ Named(t) = Named(s) \cup {<<e.name, e.start>>}
<1>1. /\ Slotted(t) = Slotted(s) \cup {p} /\ p \notin Slotted(s) /\ EntryAt(t, p) = e
      /\ \A q \in Slotted(s) : EntryAt(t, q) = EntryAt(s, q)
  <2>1. p \notin Slotted(s)
    BY DEF Slotted
  <2>2. \A q \in Slotted(s) : EntryAt(t, q) = EntryAt(s, q)
    BY <2>1 DEF Puts, Slotted
  <2>3. \A q \in Slotted(t) : q = p \/ q \in Slotted(s)
    BY DEF Puts, Slotted
  <2>4. \A q \in Slotted(s) \cup {p} : q \in Slotted(t)
    BY <2>2 DEF Puts, Slotted
  <2> QED
    BY <2>1, <2>2, <2>3, <2>4 DEF Puts
<1>2. Heads(t) = Heads(s) \cup {e.start}
  BY <1>1 DEF Heads
<1>3. Named(t) = Named(s) \cup {<<e.name, e.start>>}
  BY <1>1 DEF Named
<1>4. \A q \in Slotted(s) : EntryAt(s, q).start # e.start /\ e.start # Root
  BY DEF Heads
<1>5. e.start # Root
  BY DEF Heads
<1>6. DirOK(t)
  <2>1. ASSUME NEW q \in Slotted(t) PROVE EntryAt(t, q).start # Root
    BY <1>1, <1>5 DEF DirOK
  <2>2. ASSUME NEW q \in Slotted(t), NEW r \in Slotted(t), q # r
        PROVE  EntryAt(t, q).start # EntryAt(t, r).start /\ EntryAt(t, q).name # EntryAt(t, r).name
    <3>1. CASE q = p
      BY <1>1, <1>4, <2>2, <3>1
    <3>2. CASE r = p
      BY <1>1, <1>4, <2>2, <3>2
    <3>3. CASE q # p /\ r # p
      BY <1>1, <2>2, <3>3 DEF DirOK
    <3> QED
      BY <3>1, <3>2, <3>3
  <2> QED
    BY <2>1, <2>2 DEF DirOK
<1> QED
  BY <1>2, <1>3, <1>6

(* A new length of a file.                                                 *)
LEMMA PutsSame ==
  ASSUME NEW s, NEW t, NEW p \in Slotted(s), NEW e, Puts(s, t, p, e), DirOK(s), e # NoEntry,
         e.name = EntryAt(s, p).name, e.start = EntryAt(s, p).start
  PROVE  DirOK(t) /\ Heads(t) = Heads(s) /\ Named(t) = Named(s)
<1>1. \A q \in Slotted(s) : EntryAt(t, q).start = EntryAt(s, q).start /\ EntryAt(t, q).name = EntryAt(s, q).name
  BY DEF Puts, Slotted
<1>2. Slotted(t) = Slotted(s)
  <2>1. \A q \in Slotted(t) : q \in Slotted(s)
    BY DEF Puts, Slotted
  <2>2. \A q \in Slotted(s) : q \in Slotted(t)
    BY DEF Puts, Slotted
  <2> QED
    BY <2>1, <2>2
<1>3. Heads(t) = Heads(s)
  BY <1>1, <1>2 DEF Heads
<1>4. Named(t) = Named(s)
  BY <1>1, <1>2 DEF Named
<1>5. DirOK(t)
  BY <1>1, <1>2 DEF DirOK
<1> QED
  BY <1>3, <1>4, <1>5

(* A file is taken out.                                                    *)
LEMMA PutsNone ==
  ASSUME NEW s, NEW t, NEW p \in Slotted(s), Puts(s, t, p, NoEntry), DirOK(s)
  PROVE  /\ DirOK(t) /\ Heads(t) = Heads(s) \ {EntryAt(s, p).start}
         /\ Named(t) = Named(s) \ {<<EntryAt(s, p).name, EntryAt(s, p).start>>}
<1>1. Slotted(t) = Slotted(s) \ {p} /\ \A q \in Slotted(s) \ {p} : EntryAt(t, q) = EntryAt(s, q)
  <2>1. \A q \in Slotted(s) \ {p} : EntryAt(t, q) = EntryAt(s, q)
    BY DEF Puts, Slotted
  <2>2. \A q \in Slotted(t) : q # p /\ q \in Slotted(s)
    BY DEF Puts, Slotted
  <2>3. \A q \in Slotted(s) \ {p} : q \in Slotted(t)
    BY DEF Puts, Slotted
  <2> QED
    BY <2>1, <2>2, <2>3
<1>2. \A q \in Slotted(s) \ {p} : EntryAt(s, q).start # EntryAt(s, p).start
  BY DEF DirOK
<1>3. EntryAt(s, p).start # Root
  BY DEF DirOK
<1>4. Heads(t) = Heads(s) \ {EntryAt(s, p).start}
  <2>1. \A x \in Heads(t) : x \in Heads(s) /\ x # EntryAt(s, p).start
    BY <1>1, <1>2, <1>3 DEF Heads
  <2>2. \A x \in Heads(s) \ {EntryAt(s, p).start} : x \in Heads(t)
    BY <1>1 DEF Heads
  <2> QED
    BY <2>1, <2>2
<1>5. Named(t) = Named(s) \ {<<EntryAt(s, p).name, EntryAt(s, p).start>>}
  <2>1. \A x \in Named(t) : x \in Named(s) /\ x # <<EntryAt(s, p).name, EntryAt(s, p).start>>
    BY <1>1, <1>2 DEF Named
  <2>2. \A x \in Named(s) \ {<<EntryAt(s, p).name, EntryAt(s, p).start>>} : x \in Named(t)
    BY <1>1 DEF Named
  <2> QED
    BY <2>1, <2>2
<1>6. DirOK(t)
  BY <1>1 DEF DirOK
<1> QED
  BY <1>4, <1>5, <1>6

(* fatfs_write_sector of a directory entry                                 *)
LEMMA PutEntryDoes ==
  ASSUME NEW s, NEW H, Good(s, H), NEW p \in Places(s), NEW e \in Entry
  PROVE  LET t == PutEntry(s, Directory(s)[p[1]], p[2], e)
         IN  /\ t \in Volumes /\ t.fat = s.fat /\ Puts(s, t, p, e)
             /\ CarriesFit(s, t) /\ RowSet(s.dir, t.dir, Directory(s)[p[1]], p[2], e)
<1> DEFINE c == Directory(s)[p[1]]
           i == p[2]
           row == [s.dir[c] EXCEPT ![i] = e]
           d == [s.dir EXCEPT ![c] = row]
           u == [s EXCEPT !.dir = d]
           w == [kind |-> "dir", at |-> <<c, i>>, val |-> e]
           t == PutEntry(s, c, i, e)
<1>1. /\ p = <<p[1], p[2]>> /\ p[1] \in 1 .. Len(Directory(s)) /\ i \in 1 .. DirSlots
      /\ c \in Entries /\ s \in Volume /\ (s.dirty => s.sec # None)
  BY DirFacts DEF Good, Volumes
<1>2. s.dir \in [Entries -> [1 .. DirSlots -> Entry]]
  BY <1>1 DEF Volume, Dirs
<1> HIDE DEF c, i
<1>3. d \in Dirs /\ \A a \in Entries, j \in 1 .. DirSlots : d[a][j] = IF a = c /\ j = i THEN e ELSE s.dir[a][j]
  BY <1>1, <1>2 DEF Dirs
<1>4. [s EXCEPT !.dir[c][i] = e] = u
  BY <1>1 DEF Volume
<1> HIDE DEF d
<1>5. u \in Volumes /\ u.fat = s.fat /\ u.dir = d /\ u.sec = s.sec /\ u.dirty = s.dirty /\ u.out = s.out
  BY <1>1, <1>3 DEF Volume, Volumes
<1>6. w \in Writes
  <2>1. w \in DirWrites
    BY <1>1 DEF DirWrites
  <2> QED
    BY <2>1 DEF Writes
<1> HIDE DEF u
<1>7. /\ Looks(u, Issue(u, w)) /\ Issue(u, w).sec = u.sec /\ Issue(u, w).dirty = u.dirty
      /\ Issue(u, w).out = Append(u.out, w)
  BY <1>5, <1>6, IssueType
<1>8. /\ t \in Volumes /\ t.fat = s.fat /\ t.dir = d /\ t.sec = s.sec /\ t.dirty = s.dirty
      /\ t.out = IF c <= LastCluster THEN Append(s.out, w) ELSE s.out
  <2> HIDE DEF w
  <2>1. CASE c <= LastCluster
    <3>1. t = Issue(u, w)
      BY <1>4, <2>1 DEF PutEntry, w
    <3> QED
      BY <1>5, <1>7, <2>1, <3>1 DEF Looks
  <2>2. CASE ~(c <= LastCluster)
    <3>1. t = u
      BY <1>4, <2>2 DEF PutEntry
    <3> QED
      BY <1>5, <2>2, <3>1
  <2> QED
    BY <2>1, <2>2
<1> HIDE DEF t
<1>9. Directory(t) = Directory(s) /\ Places(t) = Places(s)
  BY <1>8 DEF Directory, Places
<1>10. EntryAt(t, p) = e
  BY <1>1, <1>3, <1>8, <1>9 DEF EntryAt, c, i
<1>11. ASSUME NEW q \in Places(s) \ {p} PROVE EntryAt(t, q) = EntryAt(s, q)
  <2>1. q = <<q[1], q[2]>> /\ q[1] \in 1 .. Len(Directory(s)) /\ q[2] \in 1 .. DirSlots /\ Directory(s)[q[1]] \in Entries
    BY DirFacts
  <2>2. ~(Directory(s)[q[1]] = c /\ q[2] = i)
    BY <1>1, <2>1, DirFacts DEF c, i
  <2>3. d[Directory(s)[q[1]]][q[2]] = s.dir[Directory(s)[q[1]]][q[2]]
    BY <1>3, <2>1, <2>2
  <2> QED
    BY <1>8, <1>9, <2>3 DEF EntryAt
<1>12. Puts(s, t, p, e)
  BY <1>9, <1>10, <1>11 DEF Puts
<1>13. RowSet(s.dir, t.dir, c, i, e)
  BY <1>3, <1>8 DEF RowSet
<1>14. ASSUME NEW D \in Disks, D.dir[c] = s.dir[c]
       PROVE  WriteDone(D, w).fat = D.fat /\ WriteDone(D, w).dir = [D.dir EXCEPT ![c] = row]
  <2> DEFINE b == [D.dir EXCEPT ![c][i] = e]
  <2>1. WriteDone(D, w) = [D EXCEPT !.dir = b]
    BY <1>14 DEF WriteDone, Disks
  <2>2. b = [D.dir EXCEPT ![c] = row]
    BY <1>14
  <2> HIDE DEF b, row
  <2> QED
    BY <1>14, <2>1, <2>2 DEF Disks
<1>15. CarriesFit(s, t)
  <2>1. s \in Volumes /\ t.dir = [s.dir EXCEPT ![c] = row]
    BY <1>8 DEF Good, d
  <2> HIDE DEF row, w
  <2>2. RowWritten(s, t, c, row, w)
    BY <1>1, <1>6, <1>8, <1>14, <2>1 DEF RowWritten
  <2> QED
    BY <2>1, <2>2, CarriesRow
<1> QED
  BY <1>8, <1>12, <1>13, <1>15 DEF t, c, i

LEMMA WriteEntryDoes ==
  ASSUME NEW s, NEW H, Good(s, H), NEW p \in Places(s), NEW e \in Entry
  PROVE  LET t == WriteEntry(s, p, e)
         IN  /\ t \in Volumes /\ t.fat = s.fat /\ Puts(s, t, p, e)
             /\ CarriesFit(s, t) /\ RowSet(s.dir, t.dir, Directory(s)[p[1]], p[2], e)
<1> DEFINE u == ReadDir(s, p[1])
<1>1. p[1] \in 1 .. Len(Directory(s))
  BY DirFacts
<1>2. Reads(s, u)
  BY <1>1, ReadDirReads
<1>3. Good(u, H)
  BY <1>2, AfterReads
<1>4. WriteEntry(s, p, e) = PutEntry(u, Directory(s)[p[1]], p[2], e)
  BY DEF WriteEntry
<1> HIDE DEF u
<1>5. u.fat = s.fat /\ SameDir(s, u) /\ Carries(s, u)
  BY <1>2, ReadsSameDir, ReadsLooks DEF Reads
<1>6. Directory(u) = Directory(s) /\ Places(u) = Places(s) /\ \A q : EntryAt(u, q) = EntryAt(s, q)
  BY <1>5, SameDirSame DEF SameDir
<1> DEFINE t == PutEntry(u, Directory(u)[p[1]], p[2], e)
<1>7. /\ t \in Volumes /\ t.fat = u.fat /\ Puts(u, t, p, e)
      /\ CarriesFit(u, t) /\ RowSet(u.dir, t.dir, Directory(u)[p[1]], p[2], e)
  BY <1>3, <1>6, PutEntryDoes
<1>8. WriteEntry(s, p, e) = t
  BY <1>4, <1>6
<1> HIDE DEF t
<1>9. Puts(s, t, p, e)
  BY <1>6, <1>7 DEF Puts
<1>10. RowSet(s.dir, t.dir, Directory(s)[p[1]], p[2], e)
  BY <1>5, <1>6, <1>7 DEF SameDir
<1>11. CarriesFit(s, t)
  BY <1>5, <1>7 DEF Carries, CarriesFit
<1> QED
  BY <1>5, <1>7, <1>8, <1>9, <1>10, <1>11

(* Like After, but the directory may change.                               *)
Grown(s, t, H, x) ==
    /\ t \in Volumes /\ SoundTable(t.fat, H)
    /\ \A h \in H \ {x} : Chain(t.fat, h) = Chain(s.fat, h)
    /\ Owned(s.fat, x) \subseteq Owned(t.fat, x)

LEMMA GrownTrans ==
  ASSUME NEW s, NEW t, NEW u, NEW H, NEW x, Grown(s, t, H, x), Grown(t, u, H, x)
  PROVE  Grown(s, u, H, x)
  BY DEF Grown

LEMMA GrownWrite ==
  ASSUME NEW s, NEW H, Good(s, H), NEW t \in Volumes, t.fat = s.fat, NEW x
  PROVE  Grown(s, t, H, x) /\ Good(t, H)
  BY DEF Grown, Good

(* fatfs_find_free_dir_offset adds a blank cluster to the directory.       *)
LEMMA ExtendDoes ==
  ASSUME NEW s, NEW H, Good(s, H), NEW c \in Cl, s.fat[c] = 0
  PROVE  LET t == Extend(s, c)
         IN  /\ Grown(s, t, H, Root) /\ Places(s) \subseteq Places(t)
             /\ <<Len(Directory(s)) + 1, 1>> \in Places(t) \ Places(s)
             /\ \A p \in Places(t) : EntryAt(t, p) = IF p \in Places(s) THEN EntryAt(s, p) ELSE NoEntry
             /\ Follows(s, t, H) /\ \A K : Fit(s.dir, K) => Fit(t.dir, K)
<1> DEFINE n == Len(Directory(s))
           u == ReadAlong(Searched(s), Directory(s), n)
           v == SetCluster(SetCluster(u, Last(Directory(s)), c), c, End)
           blank == [i \in 1 .. DirSlots |-> NoEntry]
           d == [v.dir EXCEPT ![c] = blank]
           w == [v EXCEPT !.dir = d]
           t == Extend(s, c)
<1>1. s \in Volumes /\ Root \in H /\ n \in Nat /\ Directory(s) \in Seq(Cl)
      /\ \A i \in 1 .. n : Directory(s)[i] \in Entries
  BY DirFacts DEF Good
<1>2. Reads(s, u)
  <2>1. Reads(s, Searched(s)) /\ Searched(s) \in Volumes
    BY <1>1, SearchedReads, ReadsLooks
  <2>2. Reads(Searched(s), u)
    BY <1>1, <2>1, ReadAlongReads
  <2> QED
    BY <2>1, <2>2, ReadsTrans
<1>3. After(s, u, H, Root) /\ Good(u, H) /\ u.fat = s.fat /\ u.dir = s.dir
  BY <1>2, AfterReads, ReadsLooks
<1> HIDE DEF u
<1>4. /\ After(u, v, H, Root) /\ v.dir = u.dir /\ Chain(v.fat, Root) = Append(Chain(u.fat, Root), c)
  <2>1. v = SetCluster(SetCluster(u, Last(Chain(u.fat, Root)), c), c, End)
    BY <1>3 DEF Directory
  <2> HIDE DEF v
  <2> QED
    BY <1>1, <1>3, <2>1, LinkDoes
<1>5. After(s, v, H, Root)
  BY <1>3, <1>4, AfterTrans
<1>6. v \in Volume /\ (v.dirty => v.sec # None) /\ v.dir \in [Entries -> [1 .. DirSlots -> Entry]]
      /\ v.dir = s.dir /\ c \in Entries
  <2>1. v \in Volume /\ (v.dirty => v.sec # None)
    BY <1>5 DEF After, Volumes
  <2> QED
    BY <1>3, <1>4, <2>1, ClFacts DEF Volume, Dirs
<1>7. d \in Dirs /\ d[c] = blank /\ \A a \in Entries \ {c} : d[a] = s.dir[a]
  <2>1. blank \in [1 .. DirSlots -> Entry]
    BY DEF Entry
  <2> HIDE DEF v, blank
  <2> QED
    BY <1>6, <2>1 DEF Dirs
<1>8. [v EXCEPT !.dir[c] = [i \in 1 .. DirSlots |-> NoEntry]] = w
  BY <1>6 DEF Volume
<1>9. Linked(s, c) = w
  BY <1>8 DEF Linked, u
<1> HIDE DEF v, d, blank
<1>10. w \in Volumes /\ w.fat = v.fat /\ w.dir = d /\ w.sec = v.sec /\ w.dirty = v.dirty /\ w.out = v.out
  BY <1>6, <1>7 DEF Volume, Volumes
<1> DEFINE e == [kind |-> "erase", at |-> c]
<1>20. e \in Writes
  <2>1. e \in Erasures
    BY <1>6 DEF Erasures
  <2> QED
    BY <2>1 DEF Writes
<1>21. ASSUME NEW D \in Disks PROVE WriteDone(D, e).fat = D.fat /\ WriteDone(D, e).dir = [D.dir EXCEPT ![c] = blank]
  <2> DEFINE b == [D.dir EXCEPT ![c] = blank]
  <2>1. WriteDone(D, e) = [D EXCEPT !.dir = b]
    BY DEF WriteDone, blank
  <2> HIDE DEF b
  <2> QED
    BY <2>1 DEF Disks, b
<1>11. /\ t \in Volumes /\ t.fat = v.fat /\ t.dir = d /\ t.sec = v.sec /\ t.dirty = v.dirty
       /\ t.out = IF c <= LastCluster THEN Append(v.out, e) ELSE v.out
  <2>1. CASE c <= LastCluster
    <3>2. t = Issue(w, e)
      BY <1>9, <2>1 DEF Extend
    <3> HIDE DEF w, e
    <3>3. /\ Looks(w, Issue(w, e)) /\ Issue(w, e).sec = w.sec /\ Issue(w, e).dirty = w.dirty
          /\ Issue(w, e).out = Append(w.out, e)
      BY <1>10, <1>20, IssueType
    <3> QED
      BY <1>10, <2>1, <3>2, <3>3 DEF Looks
  <2>2. CASE ~(c <= LastCluster)
    BY <1>9, <1>10, <2>2 DEF Extend
  <2> QED
    BY <2>1, <2>2
<1> HIDE DEF t, w, e
<1>22. CarriesFit(v, t)
  <2>1. v \in Volumes /\ t.dir = [v.dir EXCEPT ![c] = blank]
    BY <1>5, <1>11 DEF After, d
  <2>2. RowWritten(v, t, c, blank, e)
    BY <1>6, <1>11, <1>20, <1>21, <2>1 DEF RowWritten
  <2> QED
    BY <2>1, <2>2, CarriesRow
<1>23. \A K : Fit(s.dir, K) => Fit(t.dir, K)
  <2>1. ASSUME NEW a \in Entries, NEW j \in 1 .. DirSlots PROVE t.dir[a][j] \in {NoEntry, s.dir[a][j]}
    <3>1. blank[j] = NoEntry
      BY DEF blank
    <3>2. d[a] = blank \/ d[a] = s.dir[a]
      BY <1>7
    <3> QED
      BY <1>11, <3>1, <3>2
  <2> TAKE K
  <2> HAVE Fit(s.dir, K)
  <2> QED
    BY <2>1, FitErased
<1>24. Follows(s, t, H)
  <2> SUFFICES ASSUME NEW m, Covered(m, s, s.fat, H) PROVE Covered(m, t, t.fat, H)
    BY DEF Follows
  <2>1. Covered(m, v, v.fat, H)
    BY <1>5 DEF After, Follows
  <2>2. Fit(t.dir, H)
    BY <1>23 DEF Covered
  <2> QED
    BY <1>11, <1>22, <2>1, <2>2 DEF CarriesFit
<1>12. Grown(s, t, H, Root)
  BY <1>5, <1>11 DEF Grown, After
<1>13. Directory(t) = Append(Directory(s), c)
  BY <1>3, <1>4, <1>11 DEF Directory
<1>14. Len(Directory(t)) = n + 1 /\ Directory(t)[n + 1] = c
       /\ \A i \in 1 .. n : Directory(t)[i] = Directory(s)[i]
  BY <1>1, <1>13, AppendProperties
<1>15. \A i \in 1 .. n : Directory(s)[i] # c
  <2>1. \A b \in Owned(s.fat, Root) : s.fat[b] # 0
    BY <1>1, HeadFacts DEF Good
  <2> QED
    BY <2>1, DirFacts
<1>16. Places(s) = (1 .. n) \X (1 .. DirSlots) /\ Places(t) = (1 .. n + 1) \X (1 .. DirSlots)
  BY <1>14 DEF Places
<1> HIDE DEF n
<1>17. Places(s) \subseteq Places(t) /\ <<n + 1, 1>> \in Places(t) \ Places(s)
  BY <1>1, <1>16, Sizes
<1>18. ASSUME NEW p \in Places(t) PROVE EntryAt(t, p) = IF p \in Places(s) THEN EntryAt(s, p) ELSE NoEntry
  <2>1. p = <<p[1], p[2]>> /\ p[1] \in 1 .. n + 1 /\ p[2] \in 1 .. DirSlots
    BY <1>16
  <2>2. CASE p[1] \in 1 .. n
    <3>1. p \in Places(s)
      BY <1>16, <2>1, <2>2
    <3>2. Directory(t)[p[1]] = Directory(s)[p[1]] /\ Directory(s)[p[1]] \in Entries \ {c}
      BY <1>1, <1>14, <1>15, <2>2
    <3>3. d[Directory(s)[p[1]]] = s.dir[Directory(s)[p[1]]]
      BY <1>7, <3>2
    <3> QED
      BY <1>11, <3>1, <3>2, <3>3 DEF EntryAt
  <2>3. CASE p[1] \notin 1 .. n
    <3>1. p[1] = n + 1
      BY <1>1, <2>1, <2>3
    <3>2. p \notin Places(s)
      BY <1>16, <2>1, <2>3
    <3>3. EntryAt(t, p) = blank[p[2]]
      BY <1>7, <1>11, <1>14, <3>1 DEF EntryAt
    <3> QED
      BY <2>1, <3>2, <3>3 DEF blank
  <2> QED
    BY <2>2, <2>3
<1> QED
  BY <1>12, <1>17, <1>18, <1>23, <1>24 DEF t, n

(* What covers s with its own table covers t with that of t; t may have an *)
(* entry for chain c, for which s has none.                                *)
Joins(s, t, H, c) == \A m : Covered(m, s, s.fat, H) /\ Fit(s.dir, H \ {c}) => Covered(m, t, t.fat, H)

LEMMA WriteJoins ==
  ASSUME NEW s, NEW H, NEW t, t.fat = s.fat, CarriesFit(s, t), NEW e, e.start \in H \ {Root},
         NEW c, NEW i, RowSet(s.dir, t.dir, c, i, e)
  PROVE  Joins(s, t, H, e.start)
<1> SUFFICES ASSUME NEW m, Covered(m, s, s.fat, H), Fit(s.dir, H \ {e.start}) PROVE Covered(m, t, t.fat, H)
  BY DEF Joins
<1>1. Fit(t.dir, H)
  BY FitNew
<1> QED
  BY <1>1 DEF CarriesFit

(* fatfs_add_file_entry: the entry is added, or nothing changes.           *)
LEMMA AddEntryDoes ==
  ASSUME NEW s, NEW H, Good(s, H), DirOK(s), NEW e \in FileEntry,
         \A q \in Slotted(s) : EntryAt(s, q).name # e.name, e.start \notin Heads(s)
  PROVE  LET a == AddEntry(s, e)
         IN  /\ a.ok \in BOOLEAN
             /\ ~a.ok => Reads(s, a.s)
             /\ a.ok => /\ Grown(s, a.s, H, Root) /\ DirOK(a.s) /\ Heads(a.s) = Heads(s) \cup {e.start}
                        /\ Named(a.s) = Named(s) \cup {<<e.name, e.start>>}
                        /\ e.start \in H \ {Root} => Joins(s, a.s, H, e.start)
<1> DEFINE a == AddEntry(s, e)
<1>0. e \in Entry /\ e # NoEntry /\ s \in Volumes
  BY EntryKinds DEF Entry, Good, FileEntry
<1>1. CASE FreePlaces(s) # {}
  <2> DEFINE p == First(FreePlaces(s))
             u == ReadDir(s, p[1])
             t == WriteEntry(u, p, e)
  <2>1. FreePlaces(s) \in SUBSET (Nat \X Nat)
    BY DirFacts DEF FreePlaces
  <2>2. p \in FreePlaces(s)
    BY <1>1, <2>1, FirstIn
  <2>3. a = [ok |-> TRUE, s |-> t]
    BY <1>1 DEF AddEntry
  <2> HIDE DEF p, a
  <2>4. p \in Places(s) /\ EntryAt(s, p) = NoEntry
    BY <2>2 DEF FreePlaces
  <2>5. Reads(s, u)
    BY <2>4, DirFacts, ReadDirReads
  <2> HIDE DEF u
  <2>6. Good(u, H) /\ u.fat = s.fat /\ SameDir(s, u)
    BY <2>5, AfterReads, ReadsSameDir, ReadsLooks
  <2>7. Places(u) = Places(s) /\ \A q : EntryAt(u, q) = EntryAt(s, q)
    BY <2>6, SameDirSame
  <2>8. /\ t \in Volumes /\ t.fat = u.fat /\ Puts(u, t, p, e)
        /\ CarriesFit(u, t) /\ RowSet(u.dir, t.dir, Directory(u)[p[1]], p[2], e)
    BY <1>0, <2>4, <2>6, <2>7, WriteEntryDoes
  <2> HIDE DEF t
  <2>9. Puts(s, t, p, e)
    BY <2>7, <2>8 DEF Puts
  <2>10. DirOK(t) /\ Heads(t) = Heads(s) \cup {e.start} /\ Named(t) = Named(s) \cup {<<e.name, e.start>>}
    BY <1>0, <2>4, <2>9, PutsNew
  <2>11. Grown(s, t, H, Root)
    BY <2>6, <2>8, GrownWrite
  <2>12. a.ok = TRUE /\ a.s = t
    BY <2>3
  <2>13. e.start \in H \ {Root} => Joins(s, t, H, e.start)
    <3>1. e.start \in H \ {Root} => Joins(u, t, H, e.start)
      BY <2>8, WriteJoins
    <3>2. u.dir = s.dir /\ \A m : Covered(m, s, s.fat, H) => Covered(m, u, u.fat, H)
      BY <2>5, <2>6 DEF SameDir, Reads, Carries
    <3> QED
      BY <3>1, <3>2 DEF Joins
  <2> QED
    BY <2>10, <2>11, <2>12, <2>13 DEF a
<1>2. CASE FreePlaces(s) = {} /\ Blank(s) = NoCluster
  <2>1. a = [ok |-> FALSE, s |-> Searched(ReadAllDir(s))]
    BY <1>2 DEF AddEntry
  <2>2. Reads(s, ReadAllDir(s))
    BY ReadDirReads
  <2>3. Reads(ReadAllDir(s), Searched(ReadAllDir(s)))
    BY <2>2, SearchedReads, ReadsLooks
  <2>4. Reads(s, Searched(ReadAllDir(s)))
    BY <2>2, <2>3, ReadsTrans
  <2> HIDE DEF a
  <2>5. a.ok = FALSE /\ a.s = Searched(ReadAllDir(s))
    BY <2>1
  <2> QED
    BY <2>4, <2>5 DEF a
<1>3. CASE FreePlaces(s) = {} /\ Blank(s) # NoCluster
  <2> DEFINE c == Blank(s)
             u == ReadAllDir(s)
             v == Extend(u, c)
             p == <<Len(Directory(s)) + 1, 1>>
             t == WriteEntry(v, p, e)
  <2>1. a = [ok |-> TRUE, s |-> t]
    BY <1>3 DEF AddEntry
  <2>2. c \in Cl /\ s.fat[c] = 0
    <3>1. c \in Root .. NoCluster /\ s.fat[c] = 0
      BY <1>0, <1>3, BlankIs
    <3> HIDE DEF c
    <3> QED
      BY <1>3, <3>1, Clusters DEF Cl, c
  <2>3. Reads(s, u)
    BY ReadDirReads
  <2> HIDE DEF a, c, u
  <2>4. Good(u, H) /\ u.fat = s.fat /\ SameDir(s, u) /\ Directory(u) = Directory(s)
    BY <2>3, AfterReads, ReadsSameDir, ReadsLooks DEF SameDir
  <2>5. Places(u) = Places(s) /\ \A q : EntryAt(u, q) = EntryAt(s, q)
    BY <2>4, SameDirSame
  <2>6. /\ Grown(u, v, H, Root) /\ Places(u) \subseteq Places(v)
        /\ <<Len(Directory(u)) + 1, 1>> \in Places(v) \ Places(u)
        /\ \A q \in Places(v) : EntryAt(v, q) = IF q \in Places(u) THEN EntryAt(u, q) ELSE NoEntry
        /\ Follows(u, v, H) /\ \A K : Fit(u.dir, K) => Fit(v.dir, K)
    BY <2>2, <2>4, ExtendDoes
  <2>7. /\ Places(s) \subseteq Places(v) /\ p \in Places(v) \ Places(s)
        /\ \A q \in Places(v) : EntryAt(v, q) = IF q \in Places(s) THEN EntryAt(s, q) ELSE NoEntry
    BY <2>4, <2>5, <2>6
  <2>8. Grown(s, v, H, Root)
    BY <2>4, <2>6 DEF Grown
  <2>9. Good(v, H)
    BY <2>8 DEF Grown, Good
  <2> HIDE DEF v, p
  <2>10. /\ t \in Volumes /\ t.fat = v.fat /\ Puts(v, t, p, e)
         /\ CarriesFit(v, t) /\ RowSet(v.dir, t.dir, Directory(v)[p[1]], p[2], e)
    BY <1>0, <2>7, <2>9, WriteEntryDoes
  <2> HIDE DEF t
  <2>11. Puts(s, t, p, e)
    BY <2>7, <2>10 DEF Puts
  <2>12. DirOK(t) /\ Heads(t) = Heads(s) \cup {e.start} /\ Named(t) = Named(s) \cup {<<e.name, e.start>>}
    BY <1>0, <2>7, <2>11, PutsNew
  <2>13. Grown(v, t, H, Root)
    BY <2>9, <2>10, GrownWrite
  <2>14. Grown(s, t, H, Root)
    BY <2>8, <2>13, GrownTrans
  <2>15. a.ok = TRUE /\ a.s = t
    BY <2>1
  <2>16. e.start \in H \ {Root} => Joins(s, t, H, e.start)
    <3>1. e.start \in H \ {Root} => Joins(v, t, H, e.start)
      BY <2>10, WriteJoins
    <3>2. u.dir = s.dir /\ \A m : Covered(m, s, s.fat, H) => Covered(m, u, u.fat, H)
      BY <2>3, <2>4 DEF SameDir, Reads, Carries
    <3>3. \A m : Covered(m, s, s.fat, H) => Covered(m, v, v.fat, H)
      BY <2>6, <3>2 DEF Follows
    <3>4. \A K : Fit(s.dir, K) => Fit(v.dir, K)
      BY <2>6, <3>2
    <3> QED
      BY <3>1, <3>3, <3>4 DEF Joins
  <2> QED
    BY <2>12, <2>14, <2>15, <2>16 DEF a
<1> QED
  BY <1>1, <1>2, <1>3

----------------------------------------------------------------------------
(* The calls.  A volume whose directory names exactly the chains of its    *)
(* table;                                                                  *)
Sound(s) == Good(s, Heads(s)) /\ DirOK(s)

(* t has the files of s, each with the clusters it had;                    *)
Holds(s, t) ==
    /\ Named(s) \subseteq Named(t)
    /\ \A x \in Heads(s) : Owned(s.fat, x) \subseteq Owned(t.fat, x)

(* disk m is covered by a volume with its own table and directory;         *)
Backed(m, s) == Covered(m, s, s.fat, Heads(s))
Backs(s, t)  == \A m : Backed(m, s) => Backed(m, t)

(* both.                                                                   *)
Kept(s, t) == Holds(s, t) /\ Backs(s, t)

LEMMA HeadsNamed == \A s : Heads(s) = {Root} \cup {q[2] : q \in Named(s)}
<1> TAKE s
<1> DEFINE K == {q[2] : q \in Named(s)}
           J == {EntryAt(s, p).start : p \in Slotted(s)}
<1>1. \A q \in Named(s) : q[2] \in J
  BY DEF Named
<1>2. ASSUME NEW p \in Slotted(s) PROVE EntryAt(s, p).start \in K
  <2>1. <<EntryAt(s, p).name, EntryAt(s, p).start>> \in Named(s)
    BY DEF Named
  <2>2. <<EntryAt(s, p).name, EntryAt(s, p).start>>[2] = EntryAt(s, p).start
    OBVIOUS
  <2> QED
    BY <2>1, <2>2, Zenon
<1>3. K = J
  BY <1>1, <1>2
<1> QED
  BY <1>3 DEF Heads

LEMMA KeptTrans ==
  ASSUME NEW s, NEW t, NEW u, Kept(s, t), Kept(t, u)
  PROVE  Kept(s, u)
<1>1. Heads(s) \subseteq Heads(t)
  BY HeadsNamed DEF Kept, Holds
<1>2. Holds(s, u)
  BY <1>1 DEF Kept, Holds
<1>3. Backs(s, u)
  BY DEF Kept, Backs
<1> QED
  BY <1>2, <1>3 DEF Kept

LEMMA KeptSelf == \A s : Kept(s, s)
  BY DEF Kept, Holds, Backs

(* The files of a sound volume.                                            *)
LEMMA NamedFacts ==
  ASSUME NEW s, Sound(s), NEW n, NEW x, <<n, x>> \in Named(s)
  PROVE  n \in Names /\ x \in Entries /\ x \in Heads(s) /\ x # Root
<1>1. PICK p \in Slotted(s) : <<EntryAt(s, p).name, EntryAt(s, p).start>> = <<n, x>>
  BY DEF Named
<1>2. EntryAt(s, p).name = n /\ EntryAt(s, p).start = x
  BY <1>1
<1>3. EntryAt(s, p) \in Entry /\ EntryAt(s, p) # NoEntry
  BY DirFacts DEF Sound, Slotted
<1>4. EntryAt(s, p) \in FileEntry
  BY <1>3, EntryKinds
<1>5. x # Root /\ x \in Heads(s)
  BY <1>2 DEF Sound, DirOK, Heads
<1> QED
  BY <1>2, <1>4, <1>5 DEF FileEntry

(* The chains and the directory are as before.                             *)
LEMMA SoundSame ==
  ASSUME NEW s, NEW t, Sound(s), Good(t, Heads(s)), SameDir(s, t),
         \A h \in Heads(s) : Chain(t.fat, h) = Chain(s.fat, h)
  PROVE  Sound(t) /\ Holds(s, t) /\ Heads(t) = Heads(s)
<1>1. Heads(t) = Heads(s) /\ Named(t) = Named(s) /\ (DirOK(t) <=> DirOK(s))
  BY SameDirSame
<1>2. \A h \in Heads(s) : Owned(s.fat, h) \subseteq Owned(t.fat, h)
  BY DEF Owned
<1> QED
  BY <1>1, <1>2 DEF Sound, Holds

LEMMA SoundLooks ==
  ASSUME NEW s, NEW t, Sound(s), Looks(s, t)
  PROVE  Sound(t) /\ Holds(s, t) /\ Heads(t) = Heads(s)
<1>1. SameDir(s, t) /\ t.fat = s.fat /\ Good(t, Heads(s))
  BY DEF Sound, Looks, Good, SameDir, Directory
<1> QED
  BY <1>1, SoundSame

LEMMA SoundReads ==
  ASSUME NEW s, NEW t, Sound(s), Reads(s, t)
  PROVE  Sound(t) /\ Kept(s, t)
<1>1. Sound(t) /\ Holds(s, t) /\ Heads(t) = Heads(s) /\ t.fat = s.fat
  BY SoundLooks, ReadsLooks DEF Reads
<1>2. Backs(s, t)
  BY <1>1 DEF Backs, Backed, Reads, Carries
<1> QED
  BY <1>1, <1>2 DEF Kept

(* The chain of one file has grown.                                        *)
LEMMA SoundAfter ==
  ASSUME NEW s, NEW t, Sound(s), NEW x \in Heads(s) \ {Root}, After(s, t, Heads(s), x)
  PROVE  Sound(t) /\ Kept(s, t)
<1>1. Root \in Heads(s) \ {x}
  BY DEF Heads
<1>2. SameDir(s, t)
  BY <1>1 DEF SameDir, After, Directory
<1>3. Good(t, Heads(s))
  BY AfterGood DEF Sound
<1>4. Heads(t) = Heads(s) /\ Named(t) = Named(s) /\ (DirOK(t) <=> DirOK(s))
  BY <1>2, SameDirSame
<1>5. \A h \in Heads(s) : Owned(s.fat, h) \subseteq Owned(t.fat, h)
  BY DEF Owned, After
<1>6. Backs(s, t)
  BY <1>4 DEF Backs, Backed, After, Follows
<1> QED
  BY <1>3, <1>4, <1>5, <1>6 DEF Sound, Kept, Holds

(* What a call that opens a file returns.                                  *)
Fresh(f, n) ==
    /\ f \in Files /\ f.name = n /\ f.pos = 0 /\ ~f.dirty /\ ~f.changed /\ f.idx = None
    /\ f.pos <= f.len
Opens(s, o, n) ==
    /\ Sound(o.s) /\ Kept(s, o.s)
    /\ o.h # Nil => /\ Fresh(o.f, n) /\ <<n, o.f.start>> \in Named(o.s)
                    /\ \A g \in held : file[g].name # n

LEMMA OpensAfter ==
  ASSUME NEW s, NEW t, NEW o, NEW n, Sound(s), Reads(s, t), Opens(t, o, n)
  PROVE  Opens(s, o, n)
  BY SoundReads, KeptTrans DEF Opens

LEMMA RefusedOpens ==
  ASSUME NEW s, NEW t, NEW n, NEW M, Sound(t), Kept(s, t)
  PROVE  Opens(s, Refused(t, M), n)
  BY DEF Opens, Refused

LEMMA NoFileType == NoFile \in Files
<1>1. "" \in Names \cup {""} /\ 0 \in Entries /\ 0 \in 0 .. MaxLength /\ None \in {None} \cup Nat /\ None \in Link
      /\ ZeroSector \in Sector /\ 0 \in Nat
  BY Sizes, Clusters DEF Link, ZeroSector, Sector
<1> QED
  BY <1>1 DEF NoFile, Files

LEMMA OpenedOpens ==
  ASSUME NEW s, NEW t, NEW n \in Names, NEW M, NEW c \in Entries, NEW len \in 0 .. MaxLength,
         Sound(t), Kept(s, t), <<n, c>> \in Named(t), \A g \in held : file[g].name # n
  PROVE  Opens(s, Opened(t, M, n, c, len), n)
<1> DEFINE f == [NoFile EXCEPT !.name = n, !.start = c, !.len = len]
           u == Writeback(t)
           o == Opened(t, M, n, c, len)
<1>1. NoFile \in Files /\ NoFile.pos = 0 /\ ~NoFile.dirty /\ ~NoFile.changed /\ NoFile.idx = None
  BY NoFileType DEF NoFile
<1>2. o.s = u /\ o.f = f
  BY DEF Opened
<1> HIDE DEF o
<1>3. /\ f \in Files /\ f.name = n /\ f.pos = 0 /\ ~f.dirty /\ ~f.changed /\ f.idx = None
      /\ f.start = c /\ f.len = len
  BY <1>1 DEF Files
<1>4. 0 <= len
  BY Sizes
<1> HIDE DEF f, u
<1>5. Fresh(f, n)
  BY <1>3, <1>4 DEF Fresh
<1>6. Reads(t, u)
  BY WritebackReads DEF Sound, Good, u
<1>7. Sound(u) /\ Kept(t, u)
  BY <1>6, SoundReads
<1>8. Kept(s, u)
  BY <1>7, KeptTrans
<1>9. <<n, c>> \in Named(u)
  BY <1>7 DEF Kept, Holds
<1> QED
  BY <1>2, <1>3, <1>5, <1>7, <1>8, <1>9 DEF Opens, o

(* _check_file_open looks at the objects that are held.                    *)
LEMMA IsOpenIs ==
  ASSUME NEW M, NEW H, NEW h, h \notin H, Split(M, H \cup {h}), NEW n
  PROVE  IsOpen(M, h, n) <=> \E g \in H : file[g].name = n
<1>1. Walk(M, "open") = H \cup {h}
  BY SplitIsWellFormed
<1> QED
  BY <1>1 DEF IsOpen

(* _open_file                                                              *)
LEMMA OpenFileDoes ==
  ASSUME NEW s, Sound(s), NEW L, Split(L, held), NEW n \in Names
  PROVE  LET o == OpenFile(s, L, n)
         IN  /\ Opens(s, o, n)
             /\ o.h # Nil => o.f.start = EntryOf(s, n).start /\ Found(s, n) # {}
             /\ Reads(s, o.s)
<1> DEFINE M == AfterAllocate(L)
           h == Allocated(L)
           o == OpenFile(s, L, n)
           t == LookUp(s, n)
<1>0. s \in Volumes /\ Reads(s, s) /\ Kept(s, s) /\ Good(s, Heads(s))
  BY ReadsSelf, KeptSelf DEF Sound, Good
<1>1. CASE h = Nil
  <2>1. o = Refused(s, L)
    BY <1>1 DEF OpenFile
  <2>2. Opens(s, Refused(s, L), n) /\ Refused(s, L).h = Nil /\ Refused(s, L).s = s
    BY <1>0, RefusedOpens DEF Refused
  <2> HIDE DEF o
  <2> QED
    BY <1>0, <2>1, <2>2 DEF o
<1>2. CASE h # Nil
  <2>1. h \in Slots \ held /\ Split(M, held \cup {h})
    BY <1>2, AllocateSplits
  <2>2. o = OpenIn(s, M, h, n)
    BY <1>2 DEF OpenFile
  <2>3. IsOpen(M, h, n) <=> \E g \in held : file[g].name = n
    BY <2>1, IsOpenIs
  <2>4. Reads(s, t)
    BY <1>0, LookUpReads
  <2>5. Sound(t) /\ Kept(s, t)
    BY <2>4, SoundReads
  <2> HIDE DEF o, M, h, t
  <2>6. CASE IsOpen(M, h, n)
    <3>1. o = Refused(s, AfterFree(M, h))
      BY <2>2, <2>6 DEF OpenIn
    <3>2. Opens(s, o, n) /\ o.h = Nil /\ o.s = s
      BY <1>0, <3>1, RefusedOpens DEF Refused
    <3> QED
      BY <1>0, <3>2 DEF o
  <2>7. CASE ~IsOpen(M, h, n) /\ Found(s, n) = {}
    <3>1. o = Refused(t, AfterFree(M, h))
      BY <2>2, <2>7 DEF OpenIn, t
    <3>2. Opens(s, o, n) /\ o.h = Nil /\ o.s = t
      BY <2>5, <3>1, RefusedOpens DEF Refused
    <3> QED
      BY <2>4, <3>2 DEF o
  <2>8. CASE ~IsOpen(M, h, n) /\ Found(s, n) # {}
    <3> DEFINE c == EntryOf(s, n).start
               l == EntryOf(s, n).size
    <3>1. o = Opened(t, M, n, c, l)
      BY <2>2, <2>8 DEF OpenIn, t
    <3>2. EntryOf(s, n) \in FileEntry /\ <<n, c>> \in Named(s)
      BY <1>0, <2>8, FoundIs
    <3>3. c \in Entries /\ l \in 0 .. MaxLength
      BY <3>2 DEF FileEntry
    <3> HIDE DEF c, l
    <3>4. <<n, c>> \in Named(t)
      BY <2>5, <3>2 DEF Kept, Holds
    <3>5. \A g \in held : file[g].name # n
      BY <2>3, <2>8
    <3>6. Opens(s, o, n)
      BY <2>5, <3>1, <3>3, <3>4, <3>5, OpenedOpens
    <3>7. o.f.start = c
      BY <3>1 DEF Opened, NoFile
    <3>8. Reads(t, Writeback(t)) /\ o.s = Writeback(t)
      BY <2>4, <3>1, WritebackReads, ReadsLooks DEF Opened
    <3>9. Reads(s, o.s)
      BY <2>4, <3>8, ReadsTrans
    <3> QED
      BY <2>8, <3>6, <3>7, <3>9 DEF o, c
  <2> QED
    BY <2>6, <2>7, <2>8
<1> QED
  BY <1>1, <1>2

(* _create_file, with its cluster c: the entry is added, or c is freed.    *)
LEMMA CreateAtDoes ==
  ASSUME NEW s, Sound(s), NEW M, NEW h, NEW n \in Names, \A g \in held : file[g].name # n,
         \A p \in Slotted(s) : EntryAt(s, p).name # n
  PROVE  Opens(s, CreateNew(s, M, h, n), n)
<1> DEFINE c == Blank(s)
           H == Heads(s)
           o == CreateNew(s, M, h, n)
           q == Searched(s)
<1>0. s \in Volumes /\ SoundTable(s.fat, H) /\ Root \in H /\ Good(s, H)
  BY DEF Sound, Good
<1>1. o = CreateAt(s, M, h, n, c)
  BY DEF CreateNew
<1>2. Reads(s, q)
  BY <1>0, SearchedReads
<1>3. Sound(q) /\ Kept(s, q)
  BY <1>2, SoundReads
<1>4. CASE c = NoCluster
  <2>1. o = Refused(q, AfterFree(M, h))
    BY <1>1, <1>4 DEF CreateAt
  <2> HIDE DEF o, q
  <2> QED
    BY <1>3, <2>1, RefusedOpens DEF o
<1>5. CASE c # NoCluster
  <2> DEFINE u == SetCluster(q, c, End)
             v == ReadAllDir(u)
             e == [name |-> n, start |-> c, size |-> 0]
             a == AddEntry(v, e)
             g == [s.fat EXCEPT ![c] = End]
             G == H \cup {c}
  <2>1. c \in Cl /\ s.fat[c] = 0 /\ c \in Entries /\ End \in Link
    <3>1. c \in Root .. NoCluster /\ s.fat[c] = 0
      BY <1>0, <1>5, BlankIs
    <3> HIDE DEF c
    <3> QED
      BY <1>5, <3>1, Clusters, ClFacts DEF Cl, Link
  <2>2. o = CreateDone(a, M, h, n, c)
    BY <1>1, <1>5 DEF CreateAt
  <2>3. u \in Volumes /\ u.fat = g /\ u.dir = s.dir
    BY <1>2, <2>1, SetClusterDoes, ReadsLooks
  <2>4. g = [s.fat EXCEPT ![c] = End]
    OBVIOUS
  <2>15. q \in Volumes /\ q.fat = s.fat /\ u = SetCluster(q, c, End)
    BY <1>2, ReadsLooks
  <2> HIDE DEF o, q, c, H, a, u, g
  <2>16. Carries(q, u)
    BY <2>1, <2>15, SetClusterCarries
  <2>5. SoundTable(g, H \cup {c}) /\ c \notin H /\ Chain(g, c) = <<c>> /\ \A x \in H : Chain(g, x) = Chain(s.fat, x)
    BY <1>0, <2>1, <2>4, TableStarts
  <2>6. Good(u, G) /\ SameDir(s, u)
    BY <1>0, <2>3, <2>5 DEF Good, SameDir, Directory
  <2>7. Reads(u, v)
    BY <2>6, ReadDirReads
  <2> HIDE DEF v
  <2>8. Good(v, G) /\ v.fat = g /\ SameDir(u, v)
    BY <2>3, <2>6, <2>7, AfterReads, ReadsSameDir, ReadsLooks
  <2>9. SameDir(s, v)
    BY <2>6, <2>8 DEF SameDir
  <2>10. /\ Slotted(v) = Slotted(s) /\ Heads(v) = H /\ Named(v) = Named(s) /\ DirOK(v)
         /\ \A p : EntryAt(v, p) = EntryAt(s, p)
    BY <2>9, SameDirSame DEF Sound, H
  <2>11. e \in FileEntry /\ e.name = n /\ e.start = c
    BY <2>1, Sizes DEF FileEntry
  <2> HIDE DEF e
  <2>12. /\ a.ok \in BOOLEAN /\ (~a.ok => Reads(v, a.s))
         /\ a.ok => /\ Grown(v, a.s, G, Root) /\ DirOK(a.s) /\ Heads(a.s) = Heads(v) \cup {c}
                    /\ Named(a.s) = Named(v) \cup {<<n, c>>}
                    /\ c \in G \ {Root} => Joins(v, a.s, G, c)
    BY <2>5, <2>8, <2>10, <2>11, AddEntryDoes DEF a
  <2>17. c \in G \ {Root} /\ G \ {c} = H
    BY <1>0, <2>5
  <2>13. CASE a.ok
    <3>1. /\ a.s \in Volumes /\ SoundTable(a.s.fat, G) /\ Owned(v.fat, Root) \subseteq Owned(a.s.fat, Root)
          /\ \A x \in G \ {Root} : Chain(a.s.fat, x) = Chain(v.fat, x)
      BY <2>12, <2>13 DEF Grown
    <3>2. Heads(a.s) = G
      BY <2>10, <2>12, <2>13
    <3>3. Sound(a.s)
      BY <1>0, <2>12, <2>13, <3>1, <3>2 DEF Sound, Good
    <3>4. \A x \in H : Owned(v.fat, x) = Owned(s.fat, x)
      BY <2>5, <2>8 DEF Owned
    <3>5. \A x \in H : Owned(s.fat, x) \subseteq Owned(a.s.fat, x)
      <4> TAKE x \in H
      <4>1. CASE x = Root
        BY <3>1, <3>4, <4>1
      <4>2. CASE x # Root
        <5>1. Owned(a.s.fat, x) = Owned(v.fat, x)
          BY <3>1, <4>2 DEF Owned
        <5> QED
          BY <3>4, <5>1
      <4> QED
        BY <4>1, <4>2
    <3>10. Backs(s, a.s)
      <4> SUFFICES ASSUME NEW m, Covered(m, s, s.fat, H) PROVE Covered(m, a.s, a.s.fat, G)
        BY <3>2 DEF Backs, Backed, H
      <4>1. Covered(m, q, s.fat, H) /\ Fit(s.dir, H)
        BY <1>2 DEF Reads, Carries, Covered
      <4>2. Covered(m, q, g, G)
        BY <2>1, <2>5, <4>1, CoveredStarts
      <4>3. Covered(m, u, g, G)
        BY <2>1, <2>15, <4>2, SetClusterCovers
      <4>4. Covered(m, v, v.fat, G)
        BY <2>7, <2>8, <4>3 DEF Reads, Carries
      <4>5. Fit(v.dir, G \ {c})
        BY <2>9, <2>17, <4>1 DEF SameDir
      <4> QED
        BY <2>12, <2>13, <2>17, <4>4, <4>5 DEF Joins
    <3>6. Kept(s, a.s) /\ <<n, c>> \in Named(a.s)
      BY <2>10, <2>12, <2>13, <3>5, <3>10 DEF Kept, Holds, H
    <3>7. o = Opened(a.s, M, n, c, 0)
      BY <2>2, <2>13 DEF CreateDone
    <3>8. 0 \in 0 .. MaxLength
      BY Sizes
    <3>9. Opens(s, o, n)
      BY <2>1, <3>3, <3>6, <3>7, <3>8, OpenedOpens
    <3> QED
      BY <3>9 DEF o
  <2>14. CASE ~a.ok
    <3> DEFINE t == FreeChain(a.s, c)
    <3>1. Good(a.s, G) /\ a.s.fat = g /\ SameDir(v, a.s)
      BY <2>8, <2>12, <2>14, AfterReads, ReadsSameDir, ReadsLooks
    <3>2. c \in G \ {Root} /\ G \ {c} = H
      BY <2>17
    <3> HIDE DEF G
    <3>3. /\ Good(t, G \ {c}) /\ t.dir = a.s.dir /\ Carries(a.s, t)
          /\ \A x \in Entries : t.fat[x] = IF x \in Owned(a.s.fat, c) THEN 0 ELSE a.s.fat[x]
          /\ \A x \in G \ {c} : Chain(t.fat, x) = Chain(a.s.fat, x)
      BY <3>1, <3>2, FreeChainDoes DEF Freed
    <3>4. o = Refused(t, AfterFree(M, h))
      BY <2>2, <2>14 DEF CreateDone
    <3> HIDE DEF t
    <3>5. Good(t, H) /\ \A x \in H : Chain(t.fat, x) = Chain(s.fat, x)
      BY <2>5, <3>1, <3>2, <3>3
    <3>6. SameDir(s, t)
      BY <1>0, <2>9, <3>1, <3>3, <3>5 DEF SameDir, Directory
    <3>9. t.fat = s.fat
      <4>1. s.fat \in [Entries -> Link]
        BY <1>0 DEF SoundTable, Table
      <4>2. Owned(g, c) = {c}
        BY <2>5 DEF Owned
      <4>3. \A x \in Entries : t.fat[x] = IF x = c THEN 0 ELSE g[x]
        BY <3>1, <3>3, <4>2
      <4>4. \A x \in Entries : (IF x = c THEN 0 ELSE g[x]) = s.fat[x]
        BY <2>1, <2>4, <4>1
      <4>5. t.fat \in [Entries -> Link]
        BY <3>3 DEF Good, SoundTable, Table
      <4> QED
        BY <4>1, <4>3, <4>4, <4>5
    <3>10. Carries(s, t)
      <4>1. Carries(s, q) /\ Carries(u, v) /\ Carries(v, a.s)
        BY <1>2, <2>7, <2>12, <2>14 DEF Reads
      <4> QED
        BY <2>16, <3>3, <4>1 DEF Carries
    <3>11. Sound(t) /\ Holds(s, t) /\ Heads(t) = Heads(s)
      BY <3>5, <3>6, SoundSame DEF H
    <3>12. Backs(s, t)
      BY <3>9, <3>10, <3>11 DEF Backs, Backed, Carries
    <3>7. Sound(t) /\ Kept(s, t)
      BY <3>11, <3>12 DEF Kept
    <3>8. Opens(s, o, n)
      BY <3>4, <3>7, RefusedOpens
    <3> QED
      BY <3>8 DEF o
  <2> QED
    BY <2>12, <2>13, <2>14
<1> QED
  BY <1>4, <1>5

(* _create_file                                                            *)
LEMMA CreateFileDoes ==
  ASSUME NEW s, Sound(s), NEW L, Split(L, held), NEW n \in Names
  PROVE  Opens(s, CreateFile(s, L, n), n)
<1> DEFINE M == AfterAllocate(L)
           h == Allocated(L)
           o == CreateFile(s, L, n)
           t == LookUp(s, n)
           u == ForgetHint(t)
<1>0. s \in Volumes /\ Reads(s, s) /\ Kept(s, s) /\ Good(s, Heads(s))
  BY ReadsSelf, KeptSelf DEF Sound, Good
<1>1. CASE h = Nil
  <2>1. o = Refused(s, L)
    BY <1>1 DEF CreateFile
  <2> HIDE DEF o
  <2> QED
    BY <1>0, <2>1, RefusedOpens DEF o
<1>2. CASE h # Nil
  <2>1. h \in Slots \ held /\ Split(M, held \cup {h})
    BY <1>2, AllocateSplits
  <2>2. o = CreateIn(s, M, h, n)
    BY <1>2 DEF CreateFile
  <2>3. IsOpen(M, h, n) <=> \E g \in held : file[g].name = n
    BY <2>1, IsOpenIs
  <2>4. Reads(s, t)
    BY <1>0, LookUpReads
  <2>5. Sound(t) /\ Kept(s, t)
    BY <2>4, SoundReads
  <2>6. Reads(t, u)
    BY <2>4, ForgetHintReads, ReadsLooks
  <2>7. Reads(s, u)
    BY <2>4, <2>6, ReadsTrans
  <2>8. Sound(u) /\ Kept(s, u)
    BY <2>7, SoundReads
  <2> HIDE DEF o, M, h
  <2>9. CASE IsOpen(M, h, n)
    <3>1. o = Refused(s, AfterFree(M, h))
      BY <2>2, <2>9 DEF CreateIn
    <3> QED
      BY <1>0, <3>1, RefusedOpens DEF o
  <2>10. CASE ~IsOpen(M, h, n) /\ Found(s, n) # {}
    <3>1. o = Refused(t, AfterFree(M, h))
      BY <2>2, <2>10 DEF CreateIn
    <3> HIDE DEF t
    <3> QED
      BY <2>5, <3>1, RefusedOpens DEF o
  <2>11. CASE ~IsOpen(M, h, n) /\ Found(s, n) = {}
    <3>1. o = CreateNew(u, M, h, n)
      BY <2>2, <2>11 DEF CreateIn
    <3> HIDE DEF t, u
    <3>2. \A p \in Slotted(s) : EntryAt(s, p).name # n
      BY <1>0, <2>11, FoundIs
    <3>3. SameDir(s, u)
      BY <2>7, ReadsSameDir
    <3>4. \A p \in Slotted(u) : EntryAt(u, p).name # n
      BY <3>2, <3>3, SameDirSame
    <3>5. \A g \in held : file[g].name # n
      BY <2>3, <2>11
    <3>6. Opens(u, o, n)
      BY <2>8, <3>1, <3>4, <3>5, CreateAtDoes
    <3> QED
      BY <2>7, <3>6, OpensAfter DEF o
  <2> QED
    BY <2>9, <2>10, <2>11
<1> QED
  BY <1>1, <1>2

(* fl_fopen in every mode                                                  *)
LEMMA FopenDoes ==
  ASSUME Sound(fs), Split(lists, held), NEW n \in Names, NEW m \in Modes
  PROVE  Opens(fs, Fopen(n, m), n)
<1>1. Opens(fs, OpenFile(fs, lists, n), n) /\ Opens(fs, CreateFile(fs, lists, n), n)
  BY OpenFileDoes, CreateFileDoes
<1>2. Passes(OpenFile(fs, lists, n), held) /\ Passes(CreateFile(fs, lists, n), held)
  BY OpenFilePasses, CreateFilePasses
<1>3. ASSUME NEW o, Opens(fs, o, n), Passes(o, held)
      PROVE  Opens(fs, OrCreate(o, n), n) /\ Opens(fs, OrOpen(o, n), n)
  <2>1. CASE o.h # Nil
    BY <1>3, <2>1 DEF OrCreate, OrOpen
  <2>2. CASE o.h = Nil
    <3>1. Split(o.L, held) /\ Sound(o.s) /\ Kept(fs, o.s)
      BY <1>3, <2>2, SlotFacts DEF Passes, Opens
    <3>2. Opens(o.s, CreateFile(o.s, o.L, n), n) /\ Opens(o.s, OpenFile(o.s, o.L, n), n)
      BY <3>1, OpenFileDoes, CreateFileDoes
    <3>3. \A r : Opens(o.s, r, n) => Opens(fs, r, n)
      BY <3>1, KeptTrans DEF Opens
    <3> QED
      BY <2>2, <3>2, <3>3 DEF OrCreate, OrOpen
  <2> QED
    BY <2>1, <2>2
<1>4. \/ Fopen(n, m) = OpenFile(fs, lists, n)
      \/ Fopen(n, m) = OrCreate(OpenFile(fs, lists, n), n)
      \/ Fopen(n, m) = OrOpen(CreateFile(fs, lists, n), n)
  <2>1. m \in {"r", "w", "a", "r+", "w+", "a+"}
    BY FatAssumption
  <2>2. CASE m \in {"r", "r+"}
    BY <2>2 DEF Fopen
  <2>3. CASE m \in {"w+", "a+"}
    BY <2>3 DEF Fopen
  <2>4. CASE m \in {"w", "a"}
    BY <2>4 DEF Fopen
  <2> QED
    BY <2>1, <2>2, <2>3, <2>4
<1> QED
  BY <1>1, <1>2, <1>3, <1>4

(* An object of a file of the directory.                                   *)
ObjectOf(f, s) == Object(f, s, f.start) /\ <<f.name, f.start>> \in Named(s)

LEMMA ObjectKept ==
  ASSUME NEW f, NEW s, NEW t, Sound(s), ObjectOf(f, s), Holds(s, t)
  PROVE  ObjectOf(f, t)
<1>1. f.start \in Heads(s)
  BY NamedFacts DEF ObjectOf
<1> QED
  BY <1>1 DEF ObjectOf, Object, Cached, Holds

(* Sectors are written to or read from the file of an object.              *)
LEMMA HeldSound ==
  ASSUME NEW s, Sound(s), NEW f, ObjectOf(f, s), NEW t, NEW g,
         After(s, t, Heads(s), f.start), Object(g, t, f.start), Stays(f, g)
  PROVE  Sound(t) /\ Kept(s, t) /\ ObjectOf(g, t)
<1>1. f.start \in Heads(s) \ {Root}
  BY NamedFacts DEF ObjectOf
<1>2. Sound(t) /\ Kept(s, t)
  BY <1>1, SoundAfter
<1>3. ObjectOf(g, t)
  BY <1>2 DEF ObjectOf, Kept, Holds, Stays
<1> QED
  BY <1>2, <1>3

(* fatfs_update_file_length                                                *)
LEMMA UpdateLengthDoes ==
  ASSUME NEW s, Sound(s), NEW f \in Files, f.name \in Names
  PROVE  Sound(UpdateLength(s, f)) /\ Kept(s, UpdateLength(s, f))
<1> DEFINE t == UpdateLength(s, f)
           n == f.name
           p == First(Found(s, n))
           e == [EntryOf(s, n) EXCEPT !.size = f.len]
<1>0. Good(s, Heads(s)) /\ DirOK(s)
  BY DEF Sound
<1>1. CASE f.changed /\ Found(s, n) # {}
  <2>1. t = WriteEntry(s, p, e)
    BY <1>1 DEF UpdateLength
  <2>2. p \in Slotted(s) /\ EntryAt(s, p) = EntryOf(s, n) /\ EntryOf(s, n) \in FileEntry
    BY <1>0, <1>1, FoundIs
  <2>3. f.len \in 0 .. MaxLength
    BY DEF Files
  <2>4. e \in FileEntry /\ e.name = EntryAt(s, p).name /\ e.start = EntryAt(s, p).start
    BY <2>2, <2>3 DEF FileEntry
  <2>5. e \in Entry /\ e # NoEntry /\ p \in Places(s)
    BY <2>2, <2>4, EntryKinds DEF Entry, FileEntry, Slotted
  <2> HIDE DEF t, p, e
  <2>6. /\ t \in Volumes /\ t.fat = s.fat /\ Puts(s, t, p, e)
        /\ CarriesFit(s, t) /\ RowSet(s.dir, t.dir, Directory(s)[p[1]], p[2], e)
    BY <1>0, <2>1, <2>5, WriteEntryDoes
  <2>7. DirOK(t) /\ Heads(t) = Heads(s) /\ Named(t) = Named(s)
    BY <1>0, <2>2, <2>4, <2>5, <2>6, PutsSame
  <2>8. Good(t, Heads(t))
    BY <1>0, <2>6, <2>7 DEF Good
  <2>10. ASSUME NEW H, Fit(s.dir, H) PROVE Fit(t.dir, H)
    <3>1. Directory(s)[p[1]] \in Entries /\ p[2] \in 1 .. DirSlots
      BY <1>0, <2>5, DirFacts
    <3>2. s.dir[Directory(s)[p[1]]][p[2]] # NoEntry /\ e.start = s.dir[Directory(s)[p[1]]][p[2]].start
      BY <2>2, <2>4 DEF EntryAt, Slotted
    <3> QED
      BY <2>6, <2>10, <3>1, <3>2, FitSame
  <2>11. Backs(s, t)
    <3> SUFFICES ASSUME NEW m, Covered(m, s, s.fat, Heads(s)) PROVE Covered(m, t, s.fat, Heads(s))
      BY <2>6, <2>7 DEF Backs, Backed
    <3>1. Fit(t.dir, Heads(s))
      BY <2>10 DEF Covered
    <3> QED
      BY <2>6, <3>1 DEF CarriesFit
  <2>9. Kept(s, t)
    BY <2>6, <2>7, <2>11 DEF Kept, Holds
  <2> QED
    BY <2>7, <2>8, <2>9 DEF Sound, t
<1>2. CASE ~(f.changed /\ Found(s, n) # {})
  <2>1. t = s
    BY <1>2 DEF UpdateLength
  <2>2. Kept(s, s)
    BY KeptSelf
  <2> HIDE DEF t
  <2> QED
    BY <2>1, <2>2 DEF t
<1> QED
  BY <1>1, <1>2

(* An object that was closed.                                              *)
Closed(f) == f \in Files /\ f.pos <= f.len

(* The end of fl_fclose.                                                   *)
LEMMA CloseFlushedDoes ==
  ASSUME NEW b, Sound(b.s), b.f \in Files, b.f.name \in Names, NEW L, NEW h
  PROVE  LET c == CloseFlushed(b, L, h)
         IN  Sound(c.s) /\ Kept(b.s, c.s) /\ Closed(c.f)
<1> DEFINE c == CloseFlushed(b, L, h)
           u == UpdateLength(b.s, b.f)
           t == Writeback(u)
           f == [b.f EXCEPT !.pos = 0, !.len = 0, !.start = 0, !.addr = None, !.dirty = FALSE, !.changed = FALSE]
<1>1. c.s = t /\ c.f = f
  BY DEF CloseFlushed
<1>2. Sound(u) /\ Kept(b.s, u)
  BY UpdateLengthDoes
<1>3. Reads(u, t)
  BY <1>2, WritebackReads DEF Sound, Good
<1> HIDE DEF c, t, u
<1>4. Sound(t) /\ Kept(u, t)
  BY <1>2, <1>3, SoundReads
<1>5. Kept(b.s, t)
  BY <1>2, <1>4, KeptTrans
<1>6. 0 \in Entries /\ 0 \in 0 .. MaxLength /\ 0 \in Nat /\ None \in {None} \cup Nat
  BY Sizes, Clusters
<1>7. f \in Files /\ f.pos = 0 /\ f.len = 0
  BY <1>6 DEF Files
<1> HIDE DEF f
<1>8. Closed(f)
  BY <1>7 DEF Closed
<1> QED
  BY <1>1, <1>4, <1>5, <1>8 DEF c

(* fl_fclose                                                               *)
LEMMA FcloseDoes ==
  ASSUME NEW s, Sound(s), NEW f, ObjectOf(f, s), NEW L, NEW h
  PROVE  LET c == Fclose(s, L, f, h)
         IN  Sound(c.s) /\ Kept(s, c.s) /\ Closed(c.f)
<1> DEFINE b == Flush(s, f)
           c == Fclose(s, L, f, h)
<1>1. f.start \in Heads(s) /\ f.name \in Names
  BY NamedFacts DEF ObjectOf
<1>2. Held(s, f, Heads(s), f.start, b.s, b.f)
  BY <1>1, FlushDoes DEF Sound, ObjectOf
<1>3. c = CloseFlushed(b, L, h)
  BY DEF Fclose
<1> HIDE DEF b, c
<1>4. Sound(b.s) /\ Kept(s, b.s) /\ b.f \in Files /\ b.f.name = f.name
  BY <1>2, HeldSound DEF Held, Object, Stays
<1>5. Sound(c.s) /\ Kept(b.s, c.s) /\ Closed(c.f)
  BY <1>1, <1>3, <1>4, CloseFlushedDoes
<1> QED
  BY <1>4, <1>5, KeptTrans DEF c

(* fl_remove: what is left is what the other files have.                   *)
LEMMA RemovedDoes ==
  ASSUME NEW s, Sound(s), NEW n \in Names, NEW o, Fresh(o.f, n), Reads(s, o.s), Found(s, n) # {},
         o.f.start = EntryOf(s, n).start
  PROVE  LET c == Removed(FreeChain(o.s, o.f.start), o, n)
             x == o.f.start
         IN  /\ Sound(c.s) /\ Closed(c.f) /\ Named(s) \ {<<n, x>>} \subseteq Named(c.s)
             /\ \A y \in Heads(s) \ {x} : Owned(s.fat, y) \subseteq Owned(c.s.fat, y)
             /\ Backs(s, c.s)
<1> DEFINE H == Heads(s)
           x == o.f.start
           u == FreeChain(o.s, x)
           p == First(Found(s, n))
           t == WriteEntry(u, p, NoEntry)
           c == Removed(u, o, n)
<1>1. Sound(o.s) /\ SameDir(s, o.s) /\ Good(s, H) /\ Good(o.s, H) /\ o.s.fat = s.fat /\ DirOK(s)
  BY SoundReads, ReadsSameDir, AfterReads, ReadsLooks DEF Sound
<1>2. p \in Slotted(s) /\ EntryAt(s, p).name = n /\ EntryAt(s, p).start = x /\ <<n, x>> \in Named(s)
  BY <1>1, FoundIs
<1>3. x \in H \ {Root} /\ Root \in H \ {x}
  BY <1>2, NamedFacts DEF Heads
<1>4. /\ Good(u, H \ {x}) /\ u.dir = o.s.dir /\ Carries(o.s, u)
      /\ \A y \in H \ {x} : Chain(u.fat, y) = Chain(o.s.fat, y)
  <2> DEFINE v == o.s
  <2>1. Good(v, H) /\ x \in H \ {Root} /\ u = FreeChain(v, x)
    BY <1>1, <1>3
  <2> HIDE DEF v, H, x, u
  <2>2. Freed(v, u, H, x)
    BY <2>1, FreeChainDoes
  <2> QED
    BY <2>2 DEF Freed, v
<1> HIDE DEF u
<1>5. SameDir(s, u)
  BY <1>1, <1>3, <1>4 DEF SameDir, Directory
<1>6. /\ Found(u, n) = Found(s, n) /\ Slotted(u) = Slotted(s) /\ Heads(u) = H /\ Named(u) = Named(s) /\ DirOK(u)
      /\ EntryAt(u, p) = EntryAt(s, p)
  BY <1>1, <1>5, SameDirSame
<1>7. c = Fclose(t, o.L, o.f, o.h)
  BY <1>6 DEF Removed
<1> HIDE DEF c, t, p, H
<1>8. NoEntry \in Entry /\ p \in Places(u) /\ p \in Slotted(u)
  BY <1>2, <1>6 DEF Entry, Slotted
<1>9. /\ t \in Volumes /\ t.fat = u.fat /\ Puts(u, t, p, NoEntry)
      /\ CarriesFit(u, t) /\ RowSet(u.dir, t.dir, Directory(u)[p[1]], p[2], NoEntry)
  BY <1>4, <1>8, WriteEntryDoes DEF t
<1>10. DirOK(t) /\ Heads(t) = H \ {x} /\ Named(t) = Named(s) \ {<<n, x>>}
  <2>1. /\ DirOK(t) /\ Heads(t) = Heads(u) \ {EntryAt(u, p).start}
        /\ Named(t) = Named(u) \ {<<EntryAt(u, p).name, EntryAt(u, p).start>>}
    BY <1>6, <1>8, <1>9, PutsNone
  <2> QED
    BY <1>2, <1>6, <2>1
<1>11. Sound(t)
  BY <1>4, <1>9, <1>10 DEF Sound, Good
<1>12. Flush(t, o.f) = [s |-> t, f |-> o.f]
  BY DEF Flush, Fresh
<1> DEFINE b == [s |-> t, f |-> o.f]
<1>13. c = CloseFlushed(b, o.L, o.h)
  BY <1>7, <1>12 DEF Fclose
<1>14. b.s = t /\ b.f = o.f /\ o.f \in Files /\ o.f.name = n
  BY DEF Fresh
<1> HIDE DEF b
<1>15. Sound(c.s) /\ Kept(t, c.s) /\ Closed(c.f)
  BY <1>11, <1>13, <1>14, CloseFlushedDoes
<1>16. \A y \in H \ {x} : Owned(s.fat, y) \subseteq Owned(c.s.fat, y)
  <2> TAKE y \in H \ {x}
  <2>1. Owned(t.fat, y) = Owned(s.fat, y)
    BY <1>1, <1>4, <1>9 DEF Owned
  <2> QED
    BY <1>10, <1>15, <2>1 DEF Kept, Holds
<1>17. ASSUME NEW m, Covered(m, s, s.fat, H) PROVE Backed(m, c.s)
  <2>1. Covered(m, u, s.fat, H)
    BY <1>4, <1>17 DEF Reads, Carries
  <2>2. Fit(u.dir, H)
    BY <2>1 DEF Covered
  <2>3. Fit(t.dir, H \ {x}) /\ Fit(t.dir, H)
    <3>1. Directory(u)[p[1]] \in Entries /\ p[2] \in 1 .. DirSlots
      BY <1>4, <1>8, DirFacts
    <3>2. u.dir[Directory(u)[p[1]]][p[2]] # NoEntry /\ u.dir[Directory(u)[p[1]]][p[2]].start = x
      BY <1>2, <1>6, <1>8 DEF EntryAt, Slotted
    <3> QED
      BY <1>9, <2>2, <3>1, <3>2, FitNone
  <2>4. Covered(m, t, s.fat, H)
    BY <1>9, <2>1, <2>3 DEF CarriesFit
  <2>5. c.s = Writeback(t)
    BY <1>13, <1>14 DEF CloseFlushed, UpdateLength, Fresh
  <2>6. Settled(m, c.s) /\ c.s.fat = t.fat /\ c.s.dir = t.dir
    BY <1>9, <2>4, <2>5, WritebackSettles, WritebackLooks DEF Looks
  <2>7. Directory(c.s) = Directory(t)
    BY <2>6 DEF Directory
  <2>8. Heads(c.s) = H \ {x}
    BY <1>10, <2>6, <2>7, SameDirSame DEF SameDir
  <2>9. SoundTable(c.s.fat, H \ {x}) /\ Root \in H \ {x}
    BY <1>4, <1>9, <2>6 DEF Good
  <2>10. Lags(c.s.fat, c.s.fat, H \ {x})
    BY <2>9, LagsItself
  <2>11. Covered(m, c.s, c.s.fat, H \ {x})
    BY <2>3, <2>6, <2>9, <2>10, SettledCovers
  <2> QED
    BY <2>8, <2>11 DEF Backed
<1>18. Backs(s, c.s)
  BY <1>17 DEF Backs, Backed, H
<1> QED
  BY <1>10, <1>15, <1>16, <1>18 DEF Kept, Holds, c, u, H

----------------------------------------------------------------------------
(* The file objects F, of which H are held, on volume s.                   *)
Objects(F, H, s) ==
    /\ F \in [Slots -> Files] /\ \A h \in Slots : Closed(F[h])
    /\ \A h \in H : ObjectOf(F[h], s)
    /\ \A g, h \in H : g # h => F[g].name # F[h].name

FatInv ==
    /\ Split(lists, held) /\ Sound(fs) /\ Objects(file, held, fs) /\ Backed(media, fs)
    /\ media \in Disks /\ calls \in Nat /\ DOMAIN text \subseteq Names /\ lossy \subseteq Names

LEMMA ObjectsKept ==
  ASSUME NEW F, NEW H, NEW s, NEW t, Sound(s), Objects(F, H, s), Holds(s, t)
  PROVE  Objects(F, H, t)
  BY ObjectKept DEF Objects

(* One object changes, and stays an object of its file.                    *)
LEMMA ObjectsUpdate ==
  ASSUME NEW F, NEW H \in SUBSET Slots, NEW s, NEW t, Sound(s), Objects(F, H, s), Kept(s, t),
         NEW h \in H, NEW g, Closed(g), ObjectOf(g, t), g.name = F[h].name
  PROVE  Objects([F EXCEPT ![h] = g], H, t)
<1> DEFINE G == [F EXCEPT ![h] = g]
<1>1. F \in [Slots -> Files] /\ h \in Slots /\ g \in Files
  BY DEF Objects, Closed
<1>2. G \in [Slots -> Files] /\ G[h] = g /\ \A k \in Slots \ {h} : G[k] = F[k]
  BY <1>1
<1> HIDE DEF G
<1>3. \A k \in H : ObjectOf(F[k], t)
  BY ObjectKept DEF Objects, Kept
<1>4. \A k \in H : ObjectOf(G[k], t) /\ G[k].name = F[k].name
  BY <1>2, <1>3
<1>5. \A k \in Slots : Closed(G[k])
  BY <1>2 DEF Objects
<1>6. \A k, l \in H : k # l => G[k].name # G[l].name
  BY <1>4 DEF Objects
<1> QED
  BY <1>2, <1>4, <1>5, <1>6 DEF Objects, G

(* What is known of the file that is held in h.                            *)
LEMMA HeldFacts ==
  ASSUME FatInv, NEW h \in held
  PROVE  /\ h \in Slots /\ held \in SUBSET Slots /\ file[h] \in Files /\ file[h].pos <= file[h].len
         /\ ObjectOf(file[h], fs) /\ Object(file[h], fs, file[h].start)
         /\ file[h].start \in Heads(fs) /\ file[h].name \in Names /\ Good(fs, Heads(fs))
<1>1. held \in SUBSET Slots /\ h \in Slots
  BY SplitIsWellFormed DEF FatInv
<1>2. file[h] \in Files /\ file[h].pos <= file[h].len /\ ObjectOf(file[h], fs)
  BY <1>1 DEF FatInv, Objects, Closed
<1>3. file[h].start \in Heads(fs) /\ file[h].name \in Names
  BY <1>2, NamedFacts DEF FatInv, ObjectOf
<1> QED
  BY <1>1, <1>2, <1>3 DEF ObjectOf, FatInv, Sound

(* What the invariant says of the volume and its objects, after a step.    *)
VolumeKept == Sound(fs') /\ Objects(file', held', fs') /\ Backed(media', fs')

(* The disk is covered by the volume t that a call leaves.                 *)
LEMMA StillBacked ==
  ASSUME FatInv, NEW t, Backs(fs, t), fs' = t, media' = media
  PROVE  Backed(media', fs')
  BY DEF FatInv, Backs

(* fl_fopen                                                                *)
LEMMA OpenKeeps ==
  ASSUME FatInv, NEW n \in Names, NEW m \in Modes, Open(n, m)
  PROVE  VolumeKept
<1> DEFINE o == Fopen(n, m)
           f == Flagged(o.f, m)
<1>1. /\ fs' = o.s /\ held' = held \cup ({o.h} \ {Nil})
      /\ file' = IF o.h = Nil THEN file ELSE [file EXCEPT ![o.h] = f]
      /\ media' = media
  BY DEF Open, Call
<1>2. Opens(fs, o, n)
  BY FopenDoes DEF FatInv
<1>3. Passes(o, held)
  BY FopenPasses DEF FatInv
<1>4. held \in SUBSET Slots
  BY SplitIsWellFormed DEF FatInv
<1> HIDE DEF o
<1>5. Sound(o.s) /\ Kept(fs, o.s) /\ Objects(file, held, o.s)
  BY <1>2, ObjectsKept DEF FatInv, Opens, Kept
<1>8. Backed(media', fs')
  BY <1>1, <1>5, StillBacked DEF Kept
<1>6. CASE o.h = Nil
  <2>1. held' = held /\ file' = file
    BY <1>1, <1>6
  <2> QED
    BY <1>1, <1>5, <1>8, <2>1 DEF VolumeKept
<1>7. CASE o.h # Nil
  <2>1. o.h \in Slots \ held /\ held' = held \cup {o.h} /\ file' = [file EXCEPT ![o.h] = f]
    BY <1>1, <1>3, <1>7 DEF Passes
  <2>2. Fresh(o.f, n) /\ <<n, o.f.start>> \in Named(o.s) /\ \A g \in held : file[g].name # n
    BY <1>2, <1>7 DEF Opens
  <2>3. o.f \in Files /\ o.f.name = n /\ o.f.pos <= o.f.len /\ ~o.f.dirty /\ o.f.idx = None
    BY <2>2 DEF Fresh
  <2>4. f \in Files /\ f.name = n /\ f.start = o.f.start /\ f.pos = o.f.pos /\ f.len = o.f.len
        /\ f.dirty = o.f.dirty /\ f.idx = o.f.idx
    <3> DEFINE a == m \in {"r", "r+", "w+", "a+"}
               b == m # "r"
               c == m \in {"a", "a+"}
    <3>1. a \in BOOLEAN /\ b \in BOOLEAN /\ c \in BOOLEAN
      OBVIOUS
    <3>2. f = [o.f EXCEPT !.read = a, !.write = b, !.append = c]
      BY DEF Flagged
    <3> HIDE DEF a, b, c, f
    <3>3. f \in Files
      BY <2>3, <3>1, <3>2, ZenonT(60) DEF Files
    <3>4. /\ f.name = o.f.name /\ f.start = o.f.start /\ f.pos = o.f.pos /\ f.len = o.f.len
          /\ f.dirty = o.f.dirty /\ f.idx = o.f.idx
      BY <3>2
    <3> QED
      BY <2>3, <3>3, <3>4
  <2> HIDE DEF f
  <2>5. Closed(f) /\ ObjectOf(f, o.s)
    BY <2>2, <2>3, <2>4 DEF Closed, ObjectOf, Object, Cached
  <2>6. file \in [Slots -> Files]
    BY DEF FatInv, Objects
  <2>7. file' \in [Slots -> Files] /\ file'[o.h] = f /\ \A k \in Slots \ {o.h} : file'[k] = file[k]
    BY <2>1, <2>4, <2>6
  <2>8. \A k \in Slots : Closed(file'[k])
    BY <2>5, <2>7 DEF FatInv, Objects
  <2>9. \A k \in held' : ObjectOf(file'[k], o.s)
    BY <1>4, <1>5, <2>1, <2>5, <2>7 DEF Objects
  <2>10. \A k, l \in held' : k # l => file'[k].name # file'[l].name
    <3> SUFFICES ASSUME NEW k \in held', NEW l \in held', k # l PROVE file'[k].name # file'[l].name
      OBVIOUS
    <3>1. CASE k = o.h
      BY <1>4, <2>1, <2>2, <2>4, <2>7, <3>1
    <3>2. CASE l = o.h
      BY <1>4, <2>1, <2>2, <2>4, <2>7, <3>2
    <3>3. CASE k # o.h /\ l # o.h
      BY <1>4, <1>5, <2>1, <2>7, <3>3 DEF Objects
    <3> QED
      BY <3>1, <3>2, <3>3
  <2>11. Objects(file', held', o.s)
    BY <2>7, <2>8, <2>9, <2>10 DEF Objects
  <2> QED
    BY <1>1, <1>5, <1>8, <2>11 DEF VolumeKept
<1> QED
  BY <1>6, <1>7

(* fl_remove                                                               *)
LEMMA DeleteKeeps ==
  ASSUME FatInv, NEW n \in Names, Delete(n)
  PROVE  VolumeKept
<1> DEFINE o == OpenFile(fs, lists, n)
           c == Removed(FreeChain(o.s, o.f.start), o, n)
           x == o.f.start
<1>1. held' = held /\ media' = media
  BY DEF Delete, Call
<1>2. o.h = Nil => fs' = o.s /\ file' = file
  BY DEF Delete
<1>3. o.h # Nil => fs' = c.s /\ file' = [file EXCEPT ![o.h] = c.f]
  BY DEF Delete
<1>4. /\ Opens(fs, o, n) /\ Reads(fs, o.s)
      /\ o.h # Nil => o.f.start = EntryOf(fs, n).start /\ Found(fs, n) # {}
  BY OpenFileDoes DEF FatInv
<1>5. Passes(o, held)
  BY OpenFilePasses DEF FatInv
<1>6. held \in SUBSET Slots /\ Sound(fs) /\ Objects(file, held, fs)
  BY SplitIsWellFormed DEF FatInv
<1> HIDE DEF o
<1>7. CASE o.h = Nil
  <2>1. Sound(o.s) /\ Objects(file, held, o.s) /\ Backs(fs, o.s)
    BY <1>4, <1>6, ObjectsKept DEF Opens, Kept
  <2>2. Backed(media', fs')
    BY <1>1, <1>2, <1>7, <2>1, StillBacked
  <2> QED
    BY <1>1, <1>2, <1>7, <2>1, <2>2 DEF VolumeKept
<1>8. CASE o.h # Nil
  <2>1. Fresh(o.f, n) /\ (\A g \in held : file[g].name # n) /\ o.h \in Slots \ held
    BY <1>4, <1>5, <1>8 DEF Opens, Passes
  <2>2. /\ Sound(c.s) /\ Closed(c.f) /\ Named(fs) \ {<<n, x>>} \subseteq Named(c.s)
        /\ \A y \in Heads(fs) \ {x} : Owned(fs.fat, y) \subseteq Owned(c.s.fat, y)
        /\ Backs(fs, c.s)
    BY <1>4, <1>6, <1>8, <2>1, RemovedDoes
  <2> HIDE DEF c
  <2>3. file' \in [Slots -> Files] /\ file'[o.h] = c.f /\ \A k \in Slots \ {o.h} : file'[k] = file[k]
    BY <1>3, <1>6, <1>8, <2>1, <2>2 DEF Objects, Closed
  <2>4. \A k \in Slots : Closed(file'[k])
    BY <1>6, <2>2, <2>3 DEF Objects
  <2>5. \A k \in held : file'[k] = file[k]
    BY <1>6, <2>1, <2>3
  <2>6. ASSUME NEW k \in held PROVE ObjectOf(file[k], c.s)
    <3>1. ObjectOf(file[k], fs) /\ file[k].name # n
      BY <1>6, <2>1 DEF Objects
    <3>2. <<file[k].name, file[k].start>> \in Named(c.s)
      BY <2>2, <3>1 DEF ObjectOf
    <3>3. file[k].start \in Heads(fs)
      BY <1>6, <3>1, NamedFacts DEF ObjectOf
    <3>4. file[k].start # x
      <4>1. PICK p \in Slotted(fs) : <<EntryAt(fs, p).name, EntryAt(fs, p).start>> = <<file[k].name, file[k].start>>
        BY <3>1 DEF ObjectOf, Named
      <4>2. EntryAt(fs, p).name = file[k].name /\ EntryAt(fs, p).start = file[k].start
        BY <4>1
      <4> DEFINE q == First(Found(fs, n))
      <4>3. q \in Slotted(fs) /\ EntryAt(fs, q).name = n /\ EntryAt(fs, q).start = x
        <5>1. Good(fs, Heads(fs)) /\ Found(fs, n) # {} /\ x = EntryOf(fs, n).start
          BY <1>4, <1>6, <1>8 DEF Sound
        <5>2. q \in Slotted(fs) /\ EntryAt(fs, q) = EntryOf(fs, n) /\ EntryOf(fs, n).name = n
          BY <5>1, FoundIs
        <5> QED
          BY <5>1, <5>2
      <4> HIDE DEF q
      <4>4. p # q
        BY <3>1, <4>2, <4>3
      <4>5. EntryAt(fs, p).start # EntryAt(fs, q).start
        BY <1>6, <4>3, <4>4 DEF Sound, DirOK
      <4> QED
        BY <4>2, <4>3, <4>5
    <3>5. Owned(fs.fat, file[k].start) \subseteq Owned(c.s.fat, file[k].start)
      BY <2>2, <3>3, <3>4
    <3> QED
      BY <3>1, <3>2, <3>5 DEF ObjectOf, Object, Cached
  <2>7. Objects(file', held, c.s)
    BY <1>6, <2>3, <2>4, <2>5, <2>6 DEF Objects
  <2>8. Backed(media', fs')
    BY <1>1, <1>3, <1>8, <2>2, StillBacked
  <2> QED
    BY <1>1, <1>3, <1>8, <2>2, <2>7, <2>8 DEF VolumeKept
<1> QED
  BY <1>7, <1>8

(* fl_fclose                                                               *)
LEMMA CloseKeeps ==
  ASSUME FatInv, NEW h \in held, Close(h)
  PROVE  VolumeKept
<1> DEFINE c == Fclose(fs, lists, file[h], h)
<1>1. fs' = c.s /\ file' = [file EXCEPT ![h] = c.f] /\ held' = held \ {h} /\ media' = media
  BY DEF Close, Call
<1>2. h \in Slots /\ held \in SUBSET Slots /\ ObjectOf(file[h], fs) /\ Sound(fs) /\ Objects(file, held, fs)
  BY HeldFacts DEF FatInv
<1>3. Sound(c.s) /\ Kept(fs, c.s) /\ Closed(c.f)
  BY <1>2, FcloseDoes
<1> HIDE DEF c
<1>4. Objects(file, held, c.s)
  BY <1>2, <1>3, ObjectsKept DEF Kept
<1>5. file' \in [Slots -> Files] /\ file'[h] = c.f /\ \A k \in Slots \ {h} : file'[k] = file[k]
  BY <1>1, <1>2, <1>3 DEF Objects, Closed
<1>6. \A k \in Slots : Closed(file'[k])
  BY <1>2, <1>3, <1>5 DEF Objects
<1>7. \A k \in held' : k \in held /\ file'[k] = file[k]
  BY <1>1, <1>2, <1>5
<1>8. Objects(file', held', c.s)
  BY <1>4, <1>5, <1>6, <1>7 DEF Objects
<1>9. Backed(media', fs')
  BY <1>1, <1>3, StillBacked DEF Kept
<1> QED
  BY <1>1, <1>3, <1>8, <1>9 DEF VolumeKept

----------------------------------------------------------------------------
(* The calls on an object that is held.  An object of file x at p.         *)
LEMMA ObjectAt ==
  ASSUME NEW f, NEW s, NEW x, Object(f, s, x), NEW p \in Nat
  PROVE  LET g == [f EXCEPT !.pos = p] IN Object(g, s, x) /\ Stays(f, g) /\ g.pos = p
<1> DEFINE g == [f EXCEPT !.pos = p]
<1>1. f \in Files /\ f.start = x /\ (f.dirty => f.addr # None) /\ Cached(f, s)
  BY DEF Object
<1>2. g \in Files /\ Stays(f, g) /\ g.pos = p /\ g.start = x /\ g.dirty = f.dirty /\ g.addr = f.addr
      /\ g.idx = f.idx /\ g.clu = f.clu
  BY <1>1 DEF Files, Stays
<1> HIDE DEF g
<1>3. Object(g, s, x)
  BY <1>1, <1>2 DEF Object, Cached
<1> QED
  BY <1>2, <1>3 DEF g

(* The length after a write that may have gone past the end.               *)
LEMMA LengthAfter ==
  ASSUME NEW f, NEW s, NEW x, Object(f, s, x), f.pos <= MaxLength
  PROVE  LET g == IF f.pos > f.len THEN [f EXCEPT !.len = f.pos, !.changed = TRUE] ELSE f
         IN  Object(g, s, x) /\ g.name = f.name /\ g.start = f.start /\ g.pos <= g.len
<1> DEFINE p == f.pos
           h == [f EXCEPT !.len = p, !.changed = TRUE]
           g == IF f.pos > f.len THEN h ELSE f
<1>0. f \in Files
  BY DEF Object
<1>1. f.start = x /\ (f.dirty => f.addr # None) /\ Cached(f, s)
  BY DEF Object
<1>2. f.pos \in Nat /\ f.len \in 0 .. MaxLength
  BY <1>0 DEF Files
<1>3. CASE f.pos > f.len
  <2>1. p \in 0 .. MaxLength /\ p = f.pos
    BY <1>2, Sizes
  <2> HIDE DEF p
  <2>2. h \in Files /\ h.pos = p /\ h.len = p /\ h.name = f.name /\ h.start = f.start /\ h.dirty = f.dirty
        /\ h.addr = f.addr /\ h.idx = f.idx /\ h.clu = f.clu
    BY <1>0, <2>1 DEF Files
  <2>3. g = h
    BY <1>3
  <2> HIDE DEF h, g
  <2>4. Object(h, s, x) /\ h.pos <= h.len
    BY <1>1, <1>2, <2>1, <2>2 DEF Object, Cached
  <2> QED
    BY <2>2, <2>3, <2>4 DEF g, h, p
<1>4. CASE ~(f.pos > f.len)
  <2>1. g = f /\ f.pos <= f.len
    BY <1>2, <1>4
  <2> QED
    BY <2>1
<1> QED
  BY <1>3, <1>4

(* The object h, of which the step did what the layers below keep.         *)
LEMMA HeldKeeps ==
  ASSUME FatInv, NEW h \in held, NEW f, Object(f, fs, file[h].start), f.start = file[h].start, f.name = file[h].name,
         NEW t, After(fs, t, Heads(fs), file[h].start), NEW g, Object(g, t, file[h].start), g.name = file[h].name,
         g.pos <= g.len,
         fs' = t, file' = [file EXCEPT ![h] = g], held' = held, media' = media
  PROVE  VolumeKept
<1>1. ObjectOf(file[h], fs) /\ Sound(fs) /\ Objects(file, held, fs) /\ held \in SUBSET Slots
  BY HeldFacts DEF FatInv
<1>2. file[h].start \in Heads(fs) \ {Root}
  BY <1>1, NamedFacts DEF ObjectOf
<1>3. Sound(t) /\ Kept(fs, t)
  BY <1>1, <1>2, SoundAfter
<1>4. <<g.name, g.start>> \in Named(t) /\ g.start = file[h].start /\ g \in Files
  BY <1>1, <1>3 DEF ObjectOf, Kept, Holds, Object
<1>5. ObjectOf(g, t) /\ Closed(g)
  BY <1>4 DEF ObjectOf, Closed
<1>6. Objects([file EXCEPT ![h] = g], held, t)
  BY <1>1, <1>3, <1>5, ObjectsUpdate
<1>7. Backed(media', fs')
  BY <1>3, StillBacked DEF Kept
<1> QED
  BY <1>3, <1>6, <1>7 DEF VolumeKept

(* fl_fwrite                                                               *)
LEMMA WriteKeeps ==
  ASSUME FatInv, NEW h \in held, NEW k \in Lengths, Write(h, k)
  PROVE  VolumeKept
<1> DEFINE b == [i \in 1 .. k |-> calls + 1]
           f == file[h]
           x == f.start
           pos == IF f.append THEN f.len ELSE f.pos
           f0 == [f EXCEPT !.pos = pos]
           a == [s |-> fs, f |-> f0, left |-> b, stop |-> FALSE]
           w == WriteRounds(a, Len(b))
           g == IF w.f.pos > w.f.len THEN [w.f EXCEPT !.len = w.f.pos, !.changed = TRUE] ELSE w.f
           end == pos + Len(b)
<1>1. WriteBytes(h, b)
  BY DEF Write
<1>2. fs' = w.s /\ file' = [file EXCEPT ![h] = g] /\ held' = held /\ end <= MaxLength /\ media' = media
  BY <1>1 DEF WriteBytes, Call
<1>3. k \in Nat /\ calls + 1 \in Nat
  <2>1. Lengths \subseteq Nat \ {0}
    BY FatAssumption, Zenon
  <2>2. calls \in Nat
    BY DEF FatInv
  <2> QED
    BY <2>1, <2>2
<1>4. b \in Seq(Nat) /\ Len(b) \in Nat
  BY <1>3, IsASeq
<1>5. x \in Heads(fs) /\ Object(f, fs, x) /\ f \in Files /\ Good(fs, Heads(fs))
  BY HeldFacts
<1>6. pos \in Nat
  <2>1. f.pos \in Nat /\ f.len \in 0 .. MaxLength
    BY <1>5 DEF Files
  <2> QED
    BY <2>1, Sizes
<1> HIDE DEF b, w, pos
<1>7. Object(f0, fs, x) /\ Stays(f, f0) /\ f0.pos = pos
  BY <1>5, <1>6, ObjectAt
<1>8. After(fs, fs, Heads(fs), x)
  BY <1>5, AfterSame
<1> HIDE DEF f0, x, f
<1>9. a \in Writing(fs, f0, Heads(fs), x, end)
  <2>1. fs \in Volumes /\ f0 \in Files /\ Stays(f0, f0)
    BY <1>5, <1>7 DEF Good, Object, Stays
  <2>2. a.s = fs /\ a.f = f0 /\ a.left = b /\ a.stop = FALSE /\ a \in [s : Volumes, f : Files, left : Seq(Nat), stop : BOOLEAN]
    BY <1>4, <2>1
  <2> HIDE DEF a
  <2> QED
    BY <1>7, <1>8, <2>1, <2>2 DEF Writing
<1> HIDE DEF a
<1>10. w \in Writing(fs, f0, Heads(fs), x, end)
  BY <1>4, <1>5, <1>9, WriteRoundsDo DEF w
<1>11. /\ After(fs, w.s, Heads(fs), x) /\ Object(w.f, w.s, x) /\ Stays(f0, w.f)
       /\ w.f.pos + Len(w.left) = end /\ Len(w.left) \in Nat /\ w.f.pos \in Nat
  <2>1. /\ w.left \in Seq(Nat) /\ w.f \in Files /\ After(fs, w.s, Heads(fs), x) /\ Object(w.f, w.s, x)
        /\ Stays(f0, w.f) /\ w.f.pos + Len(w.left) = end
    BY <1>10 DEF Writing
  <2>2. Len(w.left) \in Nat
    BY <2>1
  <2>3. w.f.pos \in Nat
    BY <2>1 DEF Files
  <2> QED
    BY <2>1, <2>2, <2>3
<1>12. w.f.pos <= MaxLength
  <2>1. w.f.pos + Len(w.left) = end /\ end <= MaxLength /\ end \in Nat
    BY <1>2, <1>4, <1>6, <1>11
  <2> HIDE DEF end
  <2> QED
    BY <1>11, <2>1, Sizes
<1>13. Object(g, w.s, x) /\ g.name = w.f.name /\ g.pos <= g.len
  BY <1>11, <1>12, LengthAfter
<1> HIDE DEF g
<1>14. g.name = f.name /\ f.start = x
  BY <1>7, <1>11, <1>13 DEF Stays, x
<1> QED
  BY <1>2, <1>5, <1>11, <1>13, <1>14, HeldKeeps DEF f, x

(* fl_fread                                                                *)
LEMMA ReadKeeps ==
  ASSUME FatInv, NEW h \in held, NEW k \in Lengths, Read(h, k)
  PROVE  VolumeKept
<1> DEFINE f == file[h]
           x == f.start
           count == Least2(k, f.len - f.pos)
           a == [s |-> fs, f |-> f, left |-> count, got |-> <<>>, stop |-> FALSE]
           r == ReadRounds(a, count)
<1>1. fs' = r.s /\ file' = [file EXCEPT ![h] = r.f] /\ held' = held /\ f.pos < f.len /\ media' = media
  BY DEF Read, Call
<1>2. k \in Nat
  <2>1. Lengths \subseteq Nat \ {0}
    BY FatAssumption, Zenon
  <2> QED
    BY <2>1
<1>3. x \in Heads(fs) /\ Object(f, fs, x) /\ f \in Files /\ Good(fs, Heads(fs))
  BY HeldFacts
<1>4. f.pos \in Nat /\ f.len \in Nat
  <2>1. f.pos \in Nat /\ f.len \in 0 .. MaxLength
    BY <1>3 DEF Files
  <2> QED
    BY <2>1, Sizes
<1>5. count \in Nat /\ f.pos + count <= f.len
  BY <1>1, <1>2, <1>4 DEF Least2
<1>6. After(fs, fs, Heads(fs), x)
  BY <1>3, AfterSame
<1> HIDE DEF count, x, f, r
<1>7. a \in Reading(fs, f, Heads(fs), x, f.pos + count)
  <2>1. fs \in Volumes /\ Stays(f, f) /\ <<>> \in Seq(Nat)
    BY <1>3 DEF Good, Stays
  <2>2. a.s = fs /\ a.f = f /\ a.left = count
        /\ a \in [s : Volumes, f : Files, left : Nat, got : Seq(Nat), stop : BOOLEAN]
    BY <1>3, <1>5, <2>1
  <2> HIDE DEF a
  <2> QED
    BY <1>3, <1>6, <2>1, <2>2 DEF Reading
<1> HIDE DEF a
<1>8. r \in Reading(fs, f, Heads(fs), x, f.pos + count)
  BY <1>3, <1>5, <1>7, ReadRoundsDo DEF r
<1>9. /\ After(fs, r.s, Heads(fs), x) /\ Object(r.f, r.s, x) /\ Stays(f, r.f)
      /\ r.f.pos + r.left = f.pos + count /\ r.left \in Nat /\ r.f.pos \in Nat
  BY <1>8 DEF Reading, Object, Files
<1>10. r.f.name = f.name /\ r.f.len = f.len
  BY <1>9 DEF Stays
<1>11. r.f.pos <= r.f.len
  BY <1>4, <1>5, <1>9, <1>10
<1>12. f.start = x
  BY DEF x
<1> QED
  BY <1>1, <1>3, <1>9, <1>10, <1>11, <1>12, HeldKeeps DEF f, x

(* fl_fseek                                                                *)
LEMMA SeekKeeps ==
  ASSUME FatInv, NEW h \in held, NEW p \in 0 .. MaxLength, Seek(h, p)
  PROVE  VolumeKept
<1> DEFINE f == file[h]
           x == f.start
           g == [f EXCEPT !.addr = None, !.dirty = FALSE, !.pos = p]
<1>1. x \in Heads(fs) /\ Object(f, fs, x) /\ f \in Files /\ Good(fs, Heads(fs)) /\ h \in Slots
  BY HeldFacts
<1>2. file \in [Slots -> Files]
  BY DEF FatInv, Objects
<1>3. fs' = fs /\ held' = held /\ p <= f.len /\ file' = [file EXCEPT ![h] = g] /\ media' = media
  BY <1>1, <1>2 DEF Seek, Call
<1>4. p \in Nat
  BY Sizes
<1>5. f \in Files /\ f.start = x /\ Cached(f, fs)
  BY <1>1 DEF Object
<1>6. g \in Files /\ g.name = f.name /\ g.start = x /\ g.pos = p /\ g.len = f.len /\ ~g.dirty
      /\ g.idx = f.idx /\ g.clu = f.clu
  BY <1>4, <1>5 DEF Files
<1> HIDE DEF g
<1>7. Object(g, fs, x) /\ g.pos <= g.len
  BY <1>3, <1>5, <1>6 DEF Object, Cached
<1>8. After(fs, fs, Heads(fs), x)
  BY <1>1, AfterSame
<1> QED
  BY <1>1, <1>3, <1>5, <1>6, <1>7, <1>8, HeldKeeps

(* fl_fflush                                                               *)
LEMMA FflushKeeps ==
  ASSUME FatInv, NEW h \in held, Fflush(h)
  PROVE  VolumeKept
<1> DEFINE f == file[h]
           x == f.start
           b == Flush(fs, f)
<1>1. fs' = b.s /\ file' = [file EXCEPT ![h] = b.f] /\ held' = held /\ media' = media
  BY DEF Fflush, Call
<1>2. /\ x \in Heads(fs) /\ Object(f, fs, x) /\ f \in Files /\ Good(fs, Heads(fs)) /\ f.start = x
      /\ f.pos <= f.len
  BY HeldFacts
<1>3. Held(fs, f, Heads(fs), x, b.s, b.f)
  BY <1>2, FlushDoes
<1> HIDE DEF b
<1>4. /\ After(fs, b.s, Heads(fs), x) /\ Object(b.f, b.s, x) /\ b.f.name = f.name
      /\ b.f.pos = f.pos /\ b.f.len = f.len
  BY <1>3 DEF Held, Stays
<1>5. b.f.pos <= b.f.len
  BY <1>2, <1>4
<1> QED
  BY <1>1, <1>2, <1>4, <1>5, HeldKeeps

(* The driver does the first write: the rest of the path is left.          *)
LEMMA CoveredNext ==
  ASSUME NEW m, NEW s \in Volumes, NEW G, NEW H, Covered(m, s, G, H), s.out # <<>>,
         NEW t, t.fat = s.fat, t.dir = s.dir, t.dirty = s.dirty, t.sec = s.sec, t.out = Tail(s.out)
  PROVE  Covered(WriteDone(m, Head(s.out)), t, G, H)
<1>1. PICK D \in Disks : Reaches(m, s.out, D) /\ Agrees(D, s) /\ Lags(D.fat, G, H)
  BY DEF Covered
<1>2. s.out \in Seq(Writes)
  BY DEF Volumes, Volume
<1>3. Reaches(WriteDone(m, Head(s.out)), t.out, D)
  BY <1>1, <1>2, ReachesNext
<1>4. Agrees(D, t)
  BY <1>1 DEF Agrees
<1> QED
  BY <1>1, <1>3, <1>4 DEF Covered

LEMMA MediaWriteKeeps ==
  ASSUME FatInv, MediaWrite
  PROVE  VolumeKept /\ media' \in Disks
<1> DEFINE o == Tail(fs.out)
           t == [fs EXCEPT !.out = o]
<1>1. fs \in Volumes /\ Sound(fs) /\ Objects(file, held, fs) /\ media \in Disks /\ Backed(media, fs)
  BY DEF FatInv, Sound, Good
<1>2. fs \in Volume /\ fs.out \in Seq(Writes) /\ fs.out # <<>> /\ (fs.dirty => fs.sec # None)
  BY <1>1 DEF Volumes, Volume, MediaWrite
<1>3. Head(fs.out) \in Writes /\ o \in Seq(Writes)
  BY <1>2, HeadTailProperties
<1>4. fs' = t /\ media' = WriteDone(media, Head(fs.out)) /\ file' = file /\ held' = held
  BY DEF MediaWrite
<1>5. o = Tail(fs.out)
  OBVIOUS
<1> HIDE DEF o
<1>6. /\ t \in Volume /\ t.fat = fs.fat /\ t.dir = fs.dir /\ t.data = fs.data /\ t.dirty = fs.dirty
      /\ t.sec = fs.sec /\ t.out = o
  BY <1>2, <1>3 DEF Volume
<1> HIDE DEF t
<1>7. Looks(fs, t)
  BY <1>2, <1>6 DEF Looks, Volumes
<1>8. Sound(t) /\ Holds(fs, t) /\ Heads(t) = Heads(fs)
  BY <1>1, <1>7, SoundLooks
<1>9. Objects(file, held, t)
  BY <1>1, <1>8, ObjectsKept
<1>10. Backed(media', t)
  <2>1. Covered(media, fs, fs.fat, Heads(fs))
    BY <1>1 DEF Backed
  <2>2. Covered(media', t, fs.fat, Heads(fs))
    BY <1>1, <1>2, <1>4, <1>5, <1>6, <2>1, CoveredNext
  <2> QED
    BY <1>6, <1>8, <2>2 DEF Backed
<1>11. media' \in Disks
  BY <1>1, <1>3, <1>4, WriteDoneType
<1> QED
  BY <1>4, <1>8, <1>9, <1>10, <1>11 DEF VolumeKept

----------------------------------------------------------------------------
(* What the callers know stays about files that have a name.               *)
CallersKept == media' \in Disks /\ calls' \in Nat /\ DOMAIN text' \subseteq Names /\ lossy' \subseteq Names

LEMMA CallKeeps ==
  ASSUME FatInv, NEW n, Call(n)
  PROVE  media' \in Disks /\ calls' \in Nat
<1>1. calls' = calls + 1 /\ media' = media
  BY DEF Call
<1> QED
  BY <1>1 DEF FatInv

LEMMA GivenUpKeeps ==
  ASSUME FatInv, NEW n \in Names, GivenUp(n)
  PROVE  lossy' \subseteq Names
  BY DEF FatInv, GivenUp

LEMMA OpenKeepsCallers ==
  ASSUME FatInv, NEW n \in Names, NEW m \in Modes, Open(n, m)
  PROVE  CallersKept
<1>1. Call(n) /\ GivenUp(n)
  BY DEF Open
<1>2. \/ text' = text
      \/ \E h : text' = [y \in DOMAIN text \cup {n} |-> IF y = n THEN <<>> ELSE text[y]]
  BY DEF Open
<1>3. DOMAIN text' \subseteq Names
  BY <1>2 DEF FatInv
<1> QED
  BY <1>1, <1>3, CallKeeps, GivenUpKeeps DEF CallersKept

LEMMA DeleteKeepsCallers ==
  ASSUME FatInv, NEW n \in Names, Delete(n)
  PROVE  CallersKept
<1>1. Call(n)
  BY DEF Delete
<1>2. \/ text' = text /\ lossy' = lossy
      \/ text' = [y \in DOMAIN text \ {n} |-> text[y]] /\ lossy' = lossy \ {n}
  BY DEF Delete
<1>3. DOMAIN text' \subseteq Names /\ lossy' \subseteq Names
  BY <1>2 DEF FatInv
<1> QED
  BY <1>1, <1>3, CallKeeps DEF CallersKept

(* The calls on an object that is held.                                    *)
LEMMA HeldKeepsCallers ==
  ASSUME FatInv, NEW h \in held,
         \/ Close(h) \/ Fflush(h)
         \/ \E k \in Lengths : Write(h, k)
         \/ \E k \in Lengths : Read(h, k)
         \/ \E p \in 0 .. MaxLength : Seek(h, p)
  PROVE  CallersKept
<1> DEFINE n == file[h].name
<1>1. n \in Names /\ DOMAIN text \subseteq Names /\ lossy \subseteq Names
  BY HeldFacts DEF FatInv
<1>2. Call(n)
  BY DEF Close, Fflush, Write, WriteBytes, Read, Seek
<1>3. DOMAIN text' \subseteq Names
  <2>1. CASE \E k \in Lengths : Write(h, k)
    <3>1. PICK k \in Lengths : WriteBytes(h, [i \in 1 .. k |-> calls + 1])
      BY <2>1 DEF Write
    <3> DEFINE v == Overwritten(text[n], IF file[h].append THEN file[h].len ELSE file[h].pos,
                                [i \in 1 .. k |-> calls + 1])
    <3>2. text' = [text EXCEPT ![n] = v]
      BY <3>1 DEF WriteBytes
    <3> HIDE DEF v
    <3>3. DOMAIN text' = DOMAIN text
      BY <3>2
    <3> QED
      BY <1>1, <3>3
  <2>2. CASE ~ \E k \in Lengths : Write(h, k)
    <3>1. text' = text
      BY <2>2 DEF Close, Fflush, Read, Seek
    <3> QED
      BY <1>1, <3>1
  <2> QED
    BY <2>1, <2>2
<1>4. lossy' \subseteq Names
  <2>1. lossy' \in {lossy, lossy \cup {n}}
    BY DEF Close, Fflush, Write, WriteBytes, Read, Seek, GivenUp
  <2> QED
    BY <1>1, <2>1
<1> QED
  BY <1>2, <1>3, <1>4, CallKeeps DEF CallersKept

(* Every step keeps the invariant.                                         *)
LEMMA FatInvNext == FatInv /\ [Next]_vars => FatInv'
<1> SUFFICES ASSUME FatInv, [Next]_vars PROVE FatInv'
  OBVIOUS
<1>1. VolumeKept /\ CallersKept
  <2>1. ASSUME NEW n \in Names, NEW m \in Modes, Open(n, m) PROVE VolumeKept /\ CallersKept
    BY <2>1, OpenKeeps, OpenKeepsCallers
  <2>2. ASSUME NEW n \in Names, Delete(n) PROVE VolumeKept /\ CallersKept
    BY <2>2, DeleteKeeps, DeleteKeepsCallers
  <2>3. ASSUME NEW h \in held, Close(h) PROVE VolumeKept /\ CallersKept
    BY <2>3, CloseKeeps, HeldKeepsCallers
  <2>4. ASSUME NEW h \in held, Fflush(h) PROVE VolumeKept /\ CallersKept
    BY <2>4, FflushKeeps, HeldKeepsCallers
  <2>5. ASSUME NEW h \in held, NEW k \in Lengths, Write(h, k) PROVE VolumeKept /\ CallersKept
    BY <2>5, WriteKeeps, HeldKeepsCallers
  <2>6. ASSUME NEW h \in held, NEW k \in Lengths, Read(h, k) PROVE VolumeKept /\ CallersKept
    BY <2>6, ReadKeeps, HeldKeepsCallers
  <2>7. ASSUME NEW h \in held, NEW p \in 0 .. MaxLength, Seek(h, p) PROVE VolumeKept /\ CallersKept
    BY <2>7, SeekKeeps, HeldKeepsCallers
  <2>8. CASE MediaWrite
    <3>1. calls' = calls /\ text' = text /\ lossy' = lossy
      BY <2>8 DEF MediaWrite
    <3> QED
      BY <2>8, <3>1, MediaWriteKeeps DEF CallersKept, FatInv
  <2>9. CASE UNCHANGED vars
    <3>1. /\ fs' = fs /\ file' = file /\ held' = held /\ media' = media /\ calls' = calls
          /\ text' = text /\ lossy' = lossy
      BY <2>9 DEF vars
    <3> QED
      BY <3>1 DEF VolumeKept, CallersKept, FatInv
  <2> QED
    BY <2>1, <2>2, <2>3, <2>4, <2>5, <2>6, <2>7, <2>8, <2>9 DEF Next
<1>2. Split(lists, held)'
  BY SplitNext DEF FatInv
<1>3. Sound(fs)' /\ Objects(file, held, fs)' /\ Backed(media, fs)'
  BY <1>1 DEF VolumeKept
<1> QED
  BY <1>1, <1>2, <1>3 DEF FatInv, CallersKept

----------------------------------------------------------------------------
(* The empty volume: the directory has the only chain.                     *)
LEMMA FormattedTable ==
  LET fat == Formatted.fat
  IN  /\ fat \in Table /\ Chain(fat, Root) = <<Root>> /\ SoundTable(fat, {Root})
<1> DEFINE fat == Formatted.fat
           s == <<Root>>
<1>1. fat = [c \in Entries |-> IF c <= Root THEN End ELSE 0]
  BY DEF Formatted
<1> HIDE DEF fat
<1>2. fat \in Table
  BY <1>1, Clusters DEF Table, Link
<1>3. /\ Root \in Cl /\ fat[Root] = End /\ fat[Root] # 0
      /\ \A c \in Cl : fat[c] # 0 => c = Root
  BY <1>1, Clusters DEF Cl
<1>4. s \in Seq(Cl) /\ Len(s) = 1 /\ s[1] = Root
  BY <1>3
<1>5. IsChain(fat, s, Root)
  BY <1>3, <1>4 DEF IsChain
<1>6. Chain(fat, Root) = s
  BY <1>5, ChainUnique
<1>7. Owned(fat, Root) = {Root}
  BY <1>4, <1>6 DEF Owned
<1>8. UNION {Owned(fat, h) : h \in {Root}} = {c \in Cl : fat[c] # 0}
  BY <1>3, <1>7
<1>9. SoundTable(fat, {Root})
  BY <1>2, <1>5, <1>6, <1>8 DEF SoundTable
<1> QED
  BY <1>2, <1>6, <1>9 DEF fat

LEMMA FormattedType == Formatted \in Disks
<1> DEFINE d == [c \in Entries |-> [i \in 1 .. DirSlots |-> NoEntry]]
           e == [c \in Entries |-> [j \in 1 .. SectorsPerCluster |-> ZeroSector]]
<1>1. ZeroSector \in Sector
  BY DEF ZeroSector, Sector
<1>2. d \in Dirs /\ e \in Datas
  BY <1>1 DEF Dirs, Datas, Entry
<1>3. Formatted = [fat |-> Formatted.fat, dir |-> d, data |-> e]
  BY DEF Formatted
<1>4. Formatted.fat \in Table
  BY FormattedTable
<1> HIDE DEF d, e
<1> QED
  BY <1>2, <1>3, <1>4 DEF Disks

LEMMA FatInvInit == Init => FatInv
<1> SUFFICES ASSUME Init PROVE FatInv
  OBVIOUS
<1>1. Split(lists, held)
  BY AllFreeSplits DEF Init
<1>2. /\ fs.fat = Formatted.fat /\ fs.dir = Formatted.dir /\ fs.data = Formatted.data
      /\ fs.sec = None /\ fs.dirty = FALSE /\ fs.out = <<>>
  BY DEF Init
<1>3. fs \in Volumes
  <2>1. Formatted.fat \in Table /\ Formatted.dir \in Dirs /\ Formatted.data \in Datas
    BY FormattedType DEF Disks
  <2>2. None \in Buffers /\ <<>> \in Seq(Writes)
    BY DEF Buffers
  <2>3. fs = [fat |-> Formatted.fat, dir |-> Formatted.dir, data |-> Formatted.data,
              sec |-> None, dirty |-> FALSE, hint |-> TRUE, out |-> <<>>, full |-> FALSE]
    BY DEF Init
  <2>4. fs \in Volume
    BY <2>1, <2>2, <2>3 DEF Volume
  <2> QED
    BY <1>2, <2>4 DEF Volumes
<1>4. Slotted(fs) = {}
  <2>1. fs.dir = [c \in Entries |-> [i \in 1 .. DirSlots |-> NoEntry]]
    BY <1>2 DEF Formatted
  <2>2. Directory(fs) = <<Root>>
    BY <1>2, FormattedTable DEF Directory
  <2>3. ASSUME NEW p \in Places(fs) PROVE EntryAt(fs, p) = NoEntry
    <3>1. p[1] \in 1 .. Len(<<Root>>) /\ p[2] \in 1 .. DirSlots
      BY <2>2 DEF Places
    <3>2. p[1] = 1 /\ Directory(fs)[p[1]] = Root
      BY <2>2, <3>1
    <3> QED
      BY <2>1, <3>1, <3>2, Clusters DEF EntryAt
  <2> QED
    BY <2>3 DEF Slotted
<1>5. Heads(fs) = {Root} /\ DirOK(fs)
  BY <1>4 DEF Heads, DirOK
<1>6. Sound(fs)
  BY <1>2, <1>3, <1>5, FormattedTable DEF Sound, Good
<1>7. Objects(file, held, fs)
  <2>1. file = [h \in Slots |-> NoFile] /\ held = {}
    BY DEF Init
  <2>2. NoFile \in Files /\ NoFile.pos <= NoFile.len
    <3>1. NoFile.pos = 0 /\ NoFile.len = 0
      BY DEF NoFile
    <3> QED
      BY <3>1, NoFileType
  <2> QED
    BY <2>1, <2>2 DEF Objects, Closed
<1>9. Backed(media, fs)
  <2>1. media = Formatted /\ media \in Disks /\ fs.fat = media.fat /\ fs.dir = media.dir
        /\ fs.out = <<>> /\ fs.dirty = FALSE
    BY <1>2, FormattedType DEF Init
  <2>2. SoundTable(fs.fat, {Root}) /\ Lags(fs.fat, fs.fat, {Root})
    BY <1>2, FormattedTable, LagsItself
  <2>3. \A c \in Entries : fs.dir[c] = [i \in 1 .. DirSlots |-> NoEntry]
    BY <1>2 DEF Formatted
  <2>4. Fit(fs.dir, {Root})
    <3>1. \A c \in Entries, i \in 1 .. DirSlots : fs.dir[c][i] = NoEntry
      BY <2>3
    <3> QED
      BY <3>1 DEF Fit
  <2>5. CrossFree(media)
    BY <2>1, <2>2, <2>4, SafeDisk
  <2>6. Reaches(media, fs.out, media)
    BY <2>1, <2>5, ReachesNone
  <2>7. Agrees(media, fs)
    BY <2>1, <2>3 DEF Agrees
  <2>8. Lags(media.fat, fs.fat, {Root})
    BY <2>1, <2>2
  <2>9. Covered(media, fs, fs.fat, {Root})
    BY <2>1, <2>2, <2>4, <2>6, <2>7, <2>8 DEF Covered
  <2> QED
    BY <1>5, <2>9 DEF Backed
<1>8. media \in Disks /\ calls \in Nat /\ DOMAIN text \subseteq Names /\ lossy \subseteq Names
  <2>1. media = Formatted /\ calls = 0 /\ text = <<>> /\ lossy = {}
    BY DEF Init
  <2>2. DOMAIN text = {}
    BY <2>1
  <2> QED
    BY <2>1, <2>2, FormattedType
<1> QED
  BY <1>1, <1>6, <1>7, <1>8, <1>9 DEF FatInv

----------------------------------------------------------------------------
(* What the invariant says.                                                *)
LEMMA SplitIsLists == \A L, H : Split(L, H) => L \in Lists
  BY DEF Split

LEMMA FatInvTypes == FatInv => TypeOK
<1> SUFFICES ASSUME FatInv PROVE TypeOK
  OBVIOUS
<1>1. fs \in Volumes /\ media \in Disks /\ held \subseteq Slots /\ lists \in Lists
  BY SplitIsWellFormed, SplitIsLists DEF FatInv, Sound, Good
<1>2. fs.fat \in [Entries -> Entries \cup {End}] /\ media.fat \in [Entries -> Entries \cup {End}]
  BY <1>1 DEF Volumes, Volume, Disks, Table, Link
<1>3. fs.sec \in {None} \cup 0 .. (FatSectors - 1) /\ (fs.dirty => fs.sec # None)
  BY <1>1 DEF Volumes, Volume, Buffers
<1>4. ASSUME NEW h \in Slots
      PROVE  file[h].pos <= file[h].len /\ file[h].len <= MaxLength /\ Len(file[h].buf) = SectorSize
  <2>1. file[h] \in Files /\ file[h].pos <= file[h].len
    BY DEF FatInv, Objects, Closed
  <2>2. file[h].len \in 0 .. MaxLength /\ file[h].buf \in [1 .. SectorSize -> Nat]
    BY <2>1 DEF Files, Sector
  <2>3. file[h].buf \in Seq(Nat) /\ Len(file[h].buf) = SectorSize
    BY <2>2, Sizes
  <2> QED
    BY <2>1, <2>2, <2>3, Sizes
<1>5. DOMAIN text \subseteq Names /\ lossy \subseteq Names
  BY DEF FatInv
<1> QED
  BY <1>1, <1>2, <1>3, <1>4, <1>5 DEF TypeOK

(* The entries of the directory are those of its places in use.            *)
LEMMA LiveIs ==
  ASSUME NEW s, NEW H, Good(s, H)
  PROVE  Live(s) = {EntryAt(s, p) : p \in Slotted(s)}
<1> DEFINE D == Directory(s)
<1>1. D \in Seq(Cl) /\ DOMAIN D = 1 .. Len(D) /\ Chain(s.fat, Root) = D
  BY DirFacts DEF Directory
<1>2. Range(D) = {D[i] : i \in 1 .. Len(D)}
  BY <1>1 DEF Range
<1>3. ASSUME NEW e \in Live(s) PROVE \E p \in Slotted(s) : e = EntryAt(s, p)
  <2>1. PICK c \in Range(D), i \in 1 .. DirSlots : e = s.dir[c][i]
    BY <1>1 DEF Live
  <2>2. PICK k \in 1 .. Len(D) : c = D[k]
    BY <1>2
  <2>3. <<k, i>> \in Places(s) /\ EntryAt(s, <<k, i>>) = e
    BY <2>1, <2>2 DEF Places, EntryAt
  <2>4. e # NoEntry
    BY DEF Live
  <2> QED
    BY <2>3, <2>4 DEF Slotted
<1>4. ASSUME NEW p \in Slotted(s) PROVE EntryAt(s, p) \in Live(s)
  <2>1. p \in Places(s) /\ EntryAt(s, p) # NoEntry
    BY DEF Slotted
  <2>2. p[1] \in 1 .. Len(D) /\ p[2] \in 1 .. DirSlots
    BY <2>1 DEF Places
  <2>3. D[p[1]] \in Range(D) /\ EntryAt(s, p) = s.dir[D[p[1]]][p[2]]
    BY <1>2, <2>2 DEF EntryAt
  <2> QED
    BY <1>1, <2>1, <2>2, <2>3 DEF Live
<1> QED
  BY <1>3, <1>4

LEMMA FatInvSound == FatInv => ChainsSound
<1> SUFFICES ASSUME FatInv PROVE ChainsSound
  OBVIOUS
<1> DEFINE heads == {Root} \cup {e.start : e \in Live(fs)}
           owned(c) == Range(Chain(fs.fat, c))
<1>1. Good(fs, Heads(fs)) /\ DirOK(fs) /\ SoundTable(fs.fat, Heads(fs))
  BY DEF FatInv, Sound, Good
<1>2. Live(fs) = {EntryAt(fs, p) : p \in Slotted(fs)}
  BY <1>1, LiveIs
<1>3. heads = Heads(fs)
  <2>1. {e.start : e \in Live(fs)} = {EntryAt(fs, p).start : p \in Slotted(fs)}
    BY <1>2
  <2> QED
    BY <2>1 DEF Heads
<1>4. ASSUME NEW c \in heads
      PROVE  /\ owned(c) = Owned(fs.fat, c)
             /\ fs.fat[Last(Chain(fs.fat, c))] = End /\ IsInjective(Chain(fs.fat, c))
  <2> DEFINE q == Chain(fs.fat, c)
  <2>1. IsChain(fs.fat, q, c) /\ q \in Seq(Cl) /\ Len(q) \in Nat /\ Len(q) > 0
    BY <1>1, <1>3, HeadFacts
  <2>2. DOMAIN q = 1 .. Len(q) /\ Len(q) \in 1 .. Len(q) /\ q # <<>>
    BY <2>1
  <2>3. owned(c) = Owned(fs.fat, c)
    BY <2>2 DEF Owned, Range
  <2> HIDE DEF q
  <2>4. Last(q) = q[Len(q)]
    BY <2>1, <2>2, LastIs
  <2>5. fs.fat[q[Len(q)]] = End
    BY <2>1, <2>2 DEF IsChain
  <2>6. IsInjective(q)
    BY <2>1, <2>2 DEF IsChain, IsInjective
  <2> QED
    BY <2>3, <2>4, <2>5, <2>6 DEF q
<1> HIDE DEF heads, owned
<1>5. \A c, d \in heads : c # d => owned(c) \cap owned(d) = {}
  BY <1>1, <1>3, <1>4 DEF SoundTable
<1>6. UNION {owned(c) : c \in heads} = {c \in Root .. (NoCluster - 1) : fs.fat[c] # 0}
  <2>1. {owned(c) : c \in heads} = {Owned(fs.fat, c) : c \in Heads(fs)}
    BY <1>3, <1>4
  <2> QED
    BY <1>1, <2>1 DEF SoundTable, Cl
<1>7. \A e, d \in Live(fs) : e # d => e.start # d.start /\ e.name # d.name
  <2> SUFFICES ASSUME NEW e \in Live(fs), NEW d \in Live(fs), e # d PROVE e.start # d.start /\ e.name # d.name
    OBVIOUS
  <2>1. PICK p \in Slotted(fs) : e = EntryAt(fs, p)
    BY <1>2
  <2>2. PICK q \in Slotted(fs) : d = EntryAt(fs, q)
    BY <1>2
  <2> QED
    BY <1>1, <2>1, <2>2 DEF DirOK
<1> QED
  BY <1>4, <1>5, <1>6, <1>7 DEF ChainsSound, heads, owned

(* The disk is where the path of its writes begins.                        *)
LEMMA FatInvNoCross == FatInv => NoCrossLink
<1> SUFFICES ASSUME FatInv PROVE NoCrossLink
  OBVIOUS
<1>1. fs.out \in Seq(Writes) /\ Backed(media, fs)
  BY DEF FatInv, Sound, Good, Volumes, Volume
<1>2. PICK D \in Disks : Reaches(media, fs.out, D)
  BY <1>1 DEF Backed, Covered
<1>3. CrossFree(media)
  BY <1>1, <1>2, ReachesNow
<1> QED
  BY <1>3 DEF CrossFree, NoCrossLink

(* Every variable keeps the shape the code gives it: the table has cluster *)
(* numbers and end marks, the FAT buffer holds a sector of the table       *)
(* whenever it is dirty, and no file object stands behind its length, on   *)
(* whatever path of fl_fopen, fl_fread, fl_fwrite or fl_remove.            *)
THEOREM TypesStay == Spec => []TypeOK
<1> QED
  BY FatInvInit, FatInvNext, FatInvTypes, PTL DEF Spec

(* In what the library sees, the chains of the directory and of the files  *)
(* end, share no cluster and own every cluster that is not free, whatever  *)
(* fatfs_fat_set_cluster is called for: creating, extending, deleting, and *)
(* giving back the cluster of a file that the directory had no place for.  *)
THEOREM ChainsStaySound == Spec => []ChainsSound
<1> QED
  BY FatInvInit, FatInvNext, FatInvSound, PTL DEF Spec

(* The machine may stop after any of the writes: no cluster of the media   *)
(* is then in two files, and none of a file in the directory, although the *)
(* FAT buffer writes a sector of the table only when another one is needed *)
(* or the call ends, in create, extend, delete and their error paths.      *)
THEOREM NoCrossLinkStays == Spec => []NoCrossLink
<1> QED
  BY FatInvInit, FatInvNext, FatInvNoCross, PTL DEF Spec

=============================================================================
