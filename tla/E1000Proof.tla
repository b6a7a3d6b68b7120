----------------------------- MODULE E1000Proof -----------------------------
(***************************************************************************)
(* The rings of the network card keep their promises for every number of   *)
(* descriptors, frames and sends.  The argument: on either ring, what has  *)
(* been put in and not taken out lies, in order, in the descriptors that   *)
(* follow the reader's position cyclically (ReceiveInv, SendInv), as long  *)
(* as nothing of `disturbed' happened; and what is still marked done was   *)
(* not passed on before, disturbed or not (OnceInv).                       *)
(***************************************************************************)
EXTENDS E1000, TLAPS

(* The place k places after i in a ring. *)
Cyc(i, k, size) == IF i + k < size THEN i + k ELSE i + k - size

Frames == 1 .. MaxFrames
Sent == {None} \cup {Own(n) : n \in Nat} \cup {Answer(n) : n \in Nat}
Descriptors == [body : Sent, length : Sent]

RxTypes ==
    /\ rxDescriptorList \in [Slots -> [done : BOOLEAN, frame : Frames \cup {None}]]
    /\ \A i \in Slots : rxDescriptorList[i].done => rxDescriptorList[i].frame \in 1 .. arrived
    /\ rdh \in Slots /\ lastReceiveTail \in Slots
    /\ rdt \in 0 .. RegisterRange - 1 /\ tail \in 0 .. RegisterRange - 1
    /\ icr \in BOOLEAN
    /\ isr \in {"idle", "test", "free", "advance", "clear", "return"}
    /\ arrived \in 0 .. MaxFrames
    /\ received \in Seq(Frames)
    /\ handed \in Seq(Frames)

TxTypes ==
    /\ txDescriptorList \in [TxSlots -> Descriptors]
    /\ tdh \in TxSlots /\ tdt \in TxSlots /\ index \in TxSlots
    /\ packetBuffer \in Sent
    /\ pc \in {"idle", "read_tail", "copy", "describe", "publish"}
    /\ sends \in Nat
    /\ queued \in Seq(Descriptors) /\ wire \in Seq(Descriptors)

Types == RxTypes /\ TxTypes /\ disturbed \subseteq {"lapped", "flooded", "raced"}

(* Frames still marked done are different from each other and, but for the *)
(* one being passed on, were not passed on before.                         *)
OnceInv ==
    /\ \A k \in 1 .. Len(handed) : handed[k] <= arrived
    /\ \A i, j \in Slots :
          rxDescriptorList[i].done /\ rxDescriptorList[j].done
             /\ rxDescriptorList[i].frame = rxDescriptorList[j].frame => i = j
    /\ \A i \in Slots : rxDescriptorList[i].done =>
          \A k \in 1 .. Len(handed) :
             handed[k] = rxDescriptorList[i].frame => isr = "free" /\ i = lastReceiveTail
    /\ HandedOnce

(* How many descriptors the handler has freed, and the one it frees next. *)
Freed == IF isr = "free" THEN Len(handed) - 1 ELSE Len(handed)
Oldest == IF isr = "advance" THEN Cyc(lastReceiveTail, 1, RX_DESCRIPTORS) ELSE lastReceiveTail
Waiting == Len(received) - Freed

ReceiveInv ==
    "lapped" \notin disturbed =>
        /\ isr \in {"free", "advance"} => Len(handed) > 0
        /\ Waiting \in 0 .. RX_DESCRIPTORS
        /\ isr = "free" => Waiting > 0
        /\ rdh = Cyc(Oldest, Waiting, RX_DESCRIPTORS)
        /\ \A j \in Slots :
              /\ rxDescriptorList[Cyc(Oldest, j, RX_DESCRIPTORS)].done <=> j < Waiting
              /\ j < Waiting =>
                    rxDescriptorList[Cyc(Oldest, j, RX_DESCRIPTORS)].frame = received[Freed + 1 + j]
        /\ Len(handed) <= Len(received)
        /\ \A k \in 1 .. Len(handed) : handed[k] = received[k]

Unsent == Len(queued) - Len(wire)

SendRing ==
    /\ Unsent \in 0 .. TX_DESCRIPTORS - 1
    /\ tdt = Cyc(tdh, Unsent, TX_DESCRIPTORS)
    /\ \A k \in 1 .. Len(wire) : wire[k] = queued[k]
    /\ \A j \in TxSlots : j < Unsent =>
          txDescriptorList[Cyc(tdh, j, TX_DESCRIPTORS)] = queued[Len(wire) + 1 + j]

(* What the sender has already written of the frame it is sending. *)
BuildInv ==
    /\ pc \in {"copy", "describe", "publish"} => index = tdt
    /\ pc \in {"read_tail", "copy"} => packetBuffer = Own(sends)
    /\ pc \in {"describe", "publish"} => txDescriptorList[index].body = Own(sends)
    /\ pc = "publish" => txDescriptorList[index].length = Own(sends)

SendInv == disturbed \cap {"flooded", "raced"} = {} => SendRing /\ BuildInv

IInv == Types /\ OnceInv /\ ReceiveInv /\ SendInv

----------------------------------------------------------------------------
(* Positions in a ring *)

LEMMA FollowingIsCyc ==
    ASSUME NEW size \in Nat \ {0}, NEW i \in 0 .. size - 1
    PROVE  /\ Following(i, size) = Cyc(i, 1, size)
           /\ Following(i, size) \in 0 .. size - 1
<1>1. CASE i + 1 < size
  BY <1>1 DEF Following, Cyc
<1>2. CASE i + 1 = size
  <2>1. size % size = 0
    OBVIOUS
  <2> QED
    BY <1>2, <2>1 DEF Following, Cyc
<1> QED
  BY <1>1, <1>2

LEMMA CycFacts ==
    ASSUME NEW size \in Nat \ {0}, NEW i \in 0 .. size - 1
    PROVE  /\ \A k \in 0 .. size : Cyc(i, k, size) \in 0 .. size - 1
           /\ \A j, k \in 0 .. size - 1 : Cyc(i, j, size) = Cyc(i, k, size) => j = k
           /\ Cyc(i, 0, size) = i
           /\ Cyc(i, size, size) = i
           /\ \A k \in 0 .. size - 1 : Cyc(Cyc(i, 1, size), k, size) = Cyc(i, k + 1, size)
           /\ \A k \in 0 .. size - 1 : Cyc(Cyc(i, k, size), 1, size) = Cyc(i, k + 1, size)
           /\ \A s \in 0 .. size - 1 : \E j \in 0 .. size - 1 : s = Cyc(i, j, size)
<1>1. \A s \in 0 .. size - 1 : \E j \in 0 .. size - 1 : s = Cyc(i, j, size)
  <2> SUFFICES ASSUME NEW s \in 0 .. size - 1
               PROVE  \E j \in 0 .. size - 1 : s = Cyc(i, j, size)
    OBVIOUS
  <2>1. CASE s >= i
    <3>1. s - i \in 0 .. size - 1 /\ s = Cyc(i, s - i, size)
      BY <2>1 DEF Cyc
    <3> QED
      BY <3>1
  <2>2. CASE s < i
    <3>1. s - i + size \in 0 .. size - 1 /\ s = Cyc(i, s - i + size, size)
      BY <2>2 DEF Cyc
    <3> QED
      BY <3>1
  <2> QED
    BY <2>1, <2>2
<1> QED
  BY <1>1 DEF Cyc

----------------------------------------------------------------------------
(* Types *)

LEMMA FollowingTypes ==
    /\ \A i \in Slots : Following(i, RX_DESCRIPTORS) \in Slots
    /\ \A i \in TxSlots : Following(i, TX_DESCRIPTORS) \in TxSlots
    /\ \A i \in 0 .. RegisterRange - 1 : Following(i, RegisterRange) \in 0 .. RegisterRange - 1
  BY RingConstants, FollowingIsCyc DEF Slots, TxSlots

LEMMA SentTypes ==
    \A n \in Nat : Own(n) \in Sent /\ Whole(Own(n)) \in Descriptors
  BY DEF Sent, Descriptors, Whole

LEMMA ReplyTypes ==
    ASSUME Types, NEW f \in Frames, Reply(f)
    PROVE  /\ txDescriptorList' \in [TxSlots -> Descriptors]
           /\ tdh' \in TxSlots /\ tdt' \in TxSlots /\ index' \in TxSlots
           /\ packetBuffer' \in Sent
           /\ pc' = pc /\ sends' = sends /\ wire' = wire
           /\ queued' \in Seq(Descriptors)
           /\ disturbed' \subseteq {"lapped", "flooded", "raced"}
           /\ disturbed \subseteq disturbed'
<1>1. Answer(f) \in Sent /\ Whole(Answer(f)) \in Descriptors
  BY DEF Sent, Descriptors, Whole, Frames
<1> QED
  <2>1. /\ packetBuffer' = Answer(f) /\ UNCHANGED <<tdh, index, pc, sends, wire>>
        /\ txDescriptorList' = [txDescriptorList EXCEPT ![tdt] = Whole(Answer(f))]
        /\ tdt' = Following(tdt, TX_DESCRIPTORS) /\ queued' = Append(queued, Whole(Answer(f)))
    BY DEF Reply, MoveTail
  <2>2. disturbed' \subseteq {"lapped", "flooded", "raced"} /\ disturbed \subseteq disturbed'
    BY DEF Reply, MoveTail, Types
  <2>3. TxTypes
    BY DEF Types
  <2>4. tdt' \in TxSlots
    BY <2>1, <2>3, FollowingTypes DEF TxTypes
  <2> QED
    BY <1>1, <2>1, <2>2, <2>3, <2>4 DEF TxTypes

LEMMA InitTypes == Init => Types
<1> SUFFICES ASSUME Init PROVE Types
  OBVIOUS
<1>1. 0 \in Slots /\ 0 \in TxSlots /\ None \in Sent /\ Whole(None) \in Descriptors
  BY RingConstants DEF Slots, TxSlots, Sent, Descriptors, Whole
<1>2. /\ rxDescriptorList \in [Slots -> [done : BOOLEAN, frame : Frames \cup {None}]]
      /\ \A i \in Slots : ~ rxDescriptorList[i].done
  BY DEF Init
<1>3. txDescriptorList \in [TxSlots -> Descriptors]
  BY <1>1 DEF Init
<1>4. rdt \in 0 .. RegisterRange - 1 /\ tail \in 0 .. RegisterRange - 1 /\ arrived \in 0 .. MaxFrames
  BY RingConstants DEF Init
<1>5. /\ received \in Seq(Frames) /\ handed \in Seq(Frames)
      /\ queued \in Seq(Descriptors) /\ wire \in Seq(Descriptors)
  BY DEF Init
<1>6. /\ rdh \in Slots /\ lastReceiveTail \in Slots /\ tdh \in TxSlots /\ tdt \in TxSlots
      /\ index \in TxSlots /\ packetBuffer \in Sent
  BY <1>1 DEF Init
<1>7. /\ icr = FALSE /\ isr = "idle" /\ pc = "idle" /\ sends = 0 /\ disturbed = {}
  BY DEF Init
<1> QED
  BY <1>2, <1>3, <1>4, <1>5, <1>6, <1>7 DEF Types, RxTypes, TxTypes

LEMMA DoneFrames ==
    ASSUME Types
    PROVE  \A i \in Slots : rxDescriptorList[i].done => rxDescriptorList[i].frame \in Frames
<1>1. arrived \in 0 .. MaxFrames /\ MaxFrames \in Nat
  BY RingConstants DEF Types, RxTypes
<1>2. 1 .. arrived \subseteq Frames
  BY <1>1 DEF Frames
<1> QED
  BY <1>2 DEF Types, RxTypes

LEMMA NextRxTypes ==
    ASSUME Types, [Next]_vars
    PROVE  RxTypes'
<1> USE RingConstants, FollowingTypes DEF RxTypes
<1>0. RxTypes
  BY DEF Types
<1>1. CASE UNCHANGED receiving
  BY <1>0, <1>1 DEF receiving
<1>2. CASE Enter \/ ClearIcr \/ NoMore \/ Return
  BY <1>0, <1>2 DEF Enter, ClearIcr, NoMore, Return, Handler
<1>3. CASE HandUp
  <2>0. rxDescriptorList[lastReceiveTail].done
    BY <1>3 DEF HandUp
  <2>1. rxDescriptorList[lastReceiveTail].frame \in Frames
    BY <1>0, <2>0, DoneFrames
  <2>2. handed' \in Seq(Frames)
    BY <1>0, <1>3, <2>1 DEF HandUp
  <2>3. /\ isr' = "free"
        /\ UNCHANGED <<rxDescriptorList, rdh, rdt, icr, lastReceiveTail, tail, arrived, received>>
    BY <1>3 DEF HandUp, Handler
  <2> QED
    BY <1>0, <2>2, <2>3
<1>4. CASE Free
  BY <1>0, <1>4 DEF Free, Handler
<1>5. CASE Advance
  BY <1>0, <1>5 DEF Advance, Handler
<1>6. CASE Arrive
  <2>1. /\ arrived' = arrived + 1 /\ arrived' \in 0 .. MaxFrames /\ arrived' \in Frames
        /\ \A n \in 1 .. arrived : n \in 1 .. arrived'
    <3>1. arrived' = arrived + 1 /\ arrived < MaxFrames
      BY <1>6 DEF Arrive
    <3>2. arrived \in 0 .. MaxFrames /\ MaxFrames \in Nat
      BY <1>0
    <3> QED
      BY <3>1, <3>2 DEF Frames
  <2>2. UNCHANGED <<rdt, lastReceiveTail, tail, isr, handed>>
    BY <1>6 DEF Arrive
  <2>3. CASE rdh = rdt
    BY <1>0, <1>6, <2>1, <2>2, <2>3 DEF Arrive
  <2>4. CASE rdh # rdt
    <3>1. Store
      BY <1>6, <2>4 DEF Arrive
    <3>2. /\ rxDescriptorList' \in [Slots -> [done : BOOLEAN, frame : Frames \cup {None}]]
          /\ \A i \in Slots : rxDescriptorList'[i].done => rxDescriptorList'[i].frame \in 1 .. arrived'
      <4> DEFINE d == [done |-> TRUE, frame |-> arrived']
      <4>1. rxDescriptorList' = [rxDescriptorList EXCEPT ![rdh] = d]
        BY <3>1 DEF Store
      <4>2. d \in [done : BOOLEAN, frame : Frames \cup {None}] /\ d.frame \in 1 .. arrived'
        BY <1>0, <2>1
      <4> HIDE DEF d
      <4>3. \A i \in Slots : rxDescriptorList'[i] = IF i = rdh THEN d ELSE rxDescriptorList[i]
        BY <1>0, <4>1
      <4>4. \A i \in Slots : rxDescriptorList[i].done => rxDescriptorList[i].frame \in 1 .. arrived'
        BY <1>0, <2>1
      <4> QED
        BY <1>0, <4>1, <4>2, <4>3, <4>4
    <3>3. rdh' \in Slots /\ icr' = TRUE /\ received' \in Seq(Frames)
      BY <1>0, <2>1, <3>1 DEF Store
    <3> QED
      BY <1>0, <2>1, <2>2, <3>2, <3>3
  <2> QED
    BY <2>3, <2>4
<1> QED
  BY <1>1, <1>2, <1>3, <1>4, <1>5, <1>6
  DEF Next, Handle, Build, ReadTail, Copy, Describe, Publish, Step, Transmit, vars

LEMMA NextTxTypes ==
    ASSUME Types, [Next]_vars
    PROVE  TxTypes'
<1> USE RingConstants, FollowingTypes DEF TxTypes
<1>0. TxTypes
  BY DEF Types
<1>1. CASE Build
  <2>1. sends + 1 \in Nat
    BY <1>0
  <2>2. Own(sends + 1) \in Sent
    BY <2>1, SentTypes
  <2> QED
    BY <1>0, <1>1, <2>1, <2>2 DEF Build, Step
<1>2. CASE ReadTail
  BY <1>0, <1>2 DEF ReadTail, Step
<1>3. CASE Copy
  BY <1>0, <1>3 DEF Copy, Step, Descriptors
<1>4. CASE Describe
  <2>1. Own(sends) \in Sent
    BY <1>0, SentTypes
  <2> QED
    BY <1>0, <1>4, <2>1 DEF Describe, Step, Descriptors
<1>5. CASE Publish
  <2>1. Whole(Own(sends)) \in Descriptors
    BY <1>0, SentTypes
  <2>2. queued' \in Seq(Descriptors) /\ tdt' \in TxSlots
    BY <1>0, <1>5, <2>1 DEF Publish, MoveTail
  <2>3. pc' = "idle" /\ UNCHANGED <<txDescriptorList, tdh, packetBuffer, index, sends, wire>>
    BY <1>5 DEF Publish, Step
  <2> QED
    BY <1>0, <2>2, <2>3
<1>6. CASE Transmit
  <2>1. wire' \in Seq(Descriptors) /\ tdh' \in TxSlots
    BY <1>0, <1>6 DEF Transmit
  <2>2. UNCHANGED <<txDescriptorList, tdt, packetBuffer, index, pc, sends, queued>>
    BY <1>6 DEF Transmit
  <2> QED
    BY <1>0, <2>1, <2>2
<1>7. CASE UNCHANGED sending
  BY <1>0, <1>7 DEF sending
<1>8. ASSUME HandUp, ~ UNCHANGED sending
      PROVE  TxTypes'
  <2> DEFINE f == rxDescriptorList[lastReceiveTail].frame
  <2>0. rxDescriptorList[lastReceiveTail].done /\ Reply(f)
    BY <1>8 DEF HandUp
  <2>1. Reply(f) /\ f \in Frames
    BY <2>0, DoneFrames DEF Types, RxTypes
  <2> QED
    BY <1>0, <2>1, ReplyTypes
<1> QED
  BY <1>1, <1>2, <1>3, <1>4, <1>5, <1>6, <1>7, <1>8
  DEF Next, Handle, Enter, Free, Advance, ClearIcr, NoMore, Return, Arrive, vars

LEMMA NextTypes ==
    ASSUME Types, [Next]_vars
    PROVE  Types'
<1>1. ASSUME disturbed' # disturbed
      PROVE  disturbed' \subseteq {"lapped", "flooded", "raced"}
  <2>1. disturbed \subseteq {"lapped", "flooded", "raced"}
    BY DEF Types
  <2>2. \/ Publish \/ Store
        \/ Reply(rxDescriptorList[lastReceiveTail].frame)
    BY <1>1 DEF Next, Handle, Build, ReadTail, Copy, Describe, Enter, HandUp, Free, Advance, ClearIcr,
                NoMore, Return, Arrive, Transmit, vars
  <2> QED
    BY <2>1, <2>2 DEF Publish, Store, Reply, MoveTail
<1> QED
  BY <1>1, NextRxTypes, NextTxTypes DEF Types

----------------------------------------------------------------------------
(* What was passed on is not passed on again. *)

LEMMA InitOnce == Init => OnceInv
  BY DEF Init, OnceInv, HandedOnce, IsInjective, Slots

LEMMA AppendOnce ==
    ASSUME NEW S, NEW s \in Seq(S), NEW e \in S, IsInjective(s), \A k \in 1 .. Len(s) : s[k] # e
    PROVE  IsInjective(Append(s, e))
<1> DEFINE t == Append(s, e)
<1>1. /\ Len(s) \in Nat /\ DOMAIN s = 1 .. Len(s) /\ DOMAIN t = 1 .. Len(s) + 1
      /\ t[Len(s) + 1] = e /\ \A k \in 1 .. Len(s) : t[k] = s[k]
  OBVIOUS
<1> HIDE DEF t
<1>2. ASSUME NEW a \in DOMAIN t, NEW b \in DOMAIN t, t[a] = t[b]
      PROVE  a = b
  <2>1. \A k \in DOMAIN t : k \in 1 .. Len(s) \/ k = Len(s) + 1
    BY <1>1
  <2>2. CASE a \in 1 .. Len(s) /\ b \in 1 .. Len(s)
    BY <1>1, <1>2, <2>2 DEF IsInjective
  <2>3. CASE a \in 1 .. Len(s) /\ b = Len(s) + 1
    BY <1>1, <1>2, <2>3
  <2>4. CASE a = Len(s) + 1 /\ b \in 1 .. Len(s)
    BY <1>1, <1>2, <2>4
  <2> QED
    BY <2>1, <2>2, <2>3, <2>4
<1> QED
  BY <1>2 DEF IsInjective, t

(* The descriptors' and the passed frames' numbers are at most `arrived'. *)
LEMMA Numbers ==
    ASSUME Types, OnceInv
    PROVE  /\ arrived \in Nat
           /\ \A k \in 1 .. Len(handed) : handed[k] \in Nat /\ handed[k] <= arrived
           /\ \A i \in Slots : rxDescriptorList[i].done =>
                 rxDescriptorList[i].frame \in Nat /\ rxDescriptorList[i].frame <= arrived
<1>1. /\ arrived \in 0 .. MaxFrames /\ handed \in Seq(Frames) /\ MaxFrames \in Nat
      /\ \A i \in Slots : rxDescriptorList[i].done => rxDescriptorList[i].frame \in 1 .. arrived
  BY RingConstants DEF Types, RxTypes
<1>2. \A k \in 1 .. Len(handed) : handed[k] \in Frames /\ handed[k] <= arrived
  BY <1>1 DEF OnceInv
<1> QED
  BY <1>1, <1>2 DEF Frames

LEMMA HandUpOnce ==
    ASSUME Types, OnceInv, HandUp
    PROVE  OnceInv'
<1> DEFINE f == rxDescriptorList[lastReceiveTail].frame
<1>1. /\ rxDescriptorList[lastReceiveTail].done /\ lastReceiveTail \in Slots
      /\ UNCHANGED <<rxDescriptorList, lastReceiveTail, arrived>>
      /\ isr = "test" /\ isr' = "free"
      /\ handed' = Append(handed, f) /\ handed \in Seq(Frames)
  BY DEF HandUp, Handler, Types, RxTypes
<1>2. f \in Frames /\ f <= arrived
  BY <1>1, DoneFrames, Numbers
<1>3. \A k \in 1 .. Len(handed) : handed[k] # f
  BY <1>1 DEF OnceInv
<1>4. HandedOnce'
  BY <1>1, <1>2, <1>3, AppendOnce DEF OnceInv, HandedOnce
<1>5. /\ Len(handed) \in Nat /\ Len(handed') = Len(handed) + 1
      /\ \A k \in 1 .. Len(handed) : handed'[k] = handed[k]
      /\ handed'[Len(handed) + 1] = f
  BY <1>1, <1>2
<1>6. \A k \in 1 .. Len(handed') : k \in 1 .. Len(handed) \/ k = Len(handed) + 1
  BY <1>5
<1>7. \A k \in 1 .. Len(handed') : handed'[k] <= arrived'
  BY <1>1, <1>2, <1>5, <1>6, Numbers
<1>8. ASSUME NEW i \in Slots, rxDescriptorList[i].done, NEW k \in 1 .. Len(handed'),
             handed'[k] = rxDescriptorList[i].frame
      PROVE  i = lastReceiveTail
  <2>1. CASE k \in 1 .. Len(handed)
    BY <1>1, <1>5, <1>8, <2>1 DEF OnceInv
  <2>2. CASE k = Len(handed) + 1
    BY <1>1, <1>5, <1>8, <2>2 DEF OnceInv
  <2> QED
    BY <1>6, <2>1, <2>2
<1> QED
  BY <1>1, <1>4, <1>7, <1>8 DEF OnceInv

LEMMA FreeOnce ==
    ASSUME Types, OnceInv, Free
    PROVE  OnceInv'
<1>1. /\ UNCHANGED <<lastReceiveTail, arrived, handed>>
      /\ \A i \in Slots : /\ rxDescriptorList'[i].done => i # lastReceiveTail /\ rxDescriptorList[i].done
                          /\ rxDescriptorList'[i].frame = rxDescriptorList[i].frame
  BY DEF Free, Handler, Types, RxTypes
<1>2. HandedOnce' /\ \A k \in 1 .. Len(handed') : handed'[k] <= arrived'
  BY <1>1 DEF OnceInv, HandedOnce
<1>3. \A i, j \in Slots :
         rxDescriptorList'[i].done /\ rxDescriptorList'[j].done
            /\ rxDescriptorList'[i].frame = rxDescriptorList'[j].frame => i = j
  BY <1>1 DEF OnceInv
<1>4. \A i \in Slots : rxDescriptorList'[i].done =>
         \A k \in 1 .. Len(handed) : handed[k] # rxDescriptorList'[i].frame
  BY <1>1 DEF OnceInv
<1> QED
  BY <1>1, <1>2, <1>3, <1>4 DEF OnceInv

LEMMA ArriveOnce ==
    ASSUME Types, OnceInv, Arrive
    PROVE  OnceInv'
<1>1. /\ arrived' = arrived + 1
      /\ UNCHANGED <<lastReceiveTail, isr, handed>>
      /\ rxDescriptorList' = rxDescriptorList \/ Store
  BY DEF Arrive
<1>2. HandedOnce' /\ \A k \in 1 .. Len(handed') : handed'[k] <= arrived'
  <2>1. \A k \in 1 .. Len(handed) : handed[k] <= arrived + 1
    BY Numbers
  <2> QED
    BY <1>1, <2>1 DEF OnceInv, HandedOnce
<1>3. CASE rxDescriptorList' = rxDescriptorList
  BY <1>1, <1>2, <1>3 DEF OnceInv
<1>4. CASE Store
  <2>1. \A i \in Slots : \/ i = rdh /\ rxDescriptorList'[i].frame = arrived'
                         \/ i # rdh /\ rxDescriptorList'[i] = rxDescriptorList[i]
    BY <1>4 DEF Store, Types, RxTypes
  <2>2. /\ \A i \in Slots : rxDescriptorList[i].done => rxDescriptorList[i].frame # arrived'
        /\ \A k \in 1 .. Len(handed) : handed[k] # arrived'
    BY <1>1, Numbers
  <2>3. \A i, j \in Slots :
           rxDescriptorList'[i].done /\ rxDescriptorList'[j].done
              /\ rxDescriptorList'[i].frame = rxDescriptorList'[j].frame => i = j
    BY <2>1, <2>2 DEF OnceInv
  <2>4. \A i \in Slots : rxDescriptorList'[i].done =>
           \A k \in 1 .. Len(handed) :
              handed[k] = rxDescriptorList'[i].frame => isr = "free" /\ i = lastReceiveTail
    BY <2>1, <2>2 DEF OnceInv
  <2> QED
    BY <1>1, <1>2, <2>3, <2>4 DEF OnceInv
<1> QED
  BY <1>1, <1>3, <1>4

LEMMA NextOnce ==
    ASSUME Types, OnceInv, [Next]_vars
    PROVE  OnceInv'
<1>1. CASE UNCHANGED receiving
  BY <1>1 DEF receiving, OnceInv, HandedOnce
<1>2. CASE Enter \/ ClearIcr \/ NoMore \/ Return \/ Advance
  <2>1. /\ UNCHANGED <<rxDescriptorList, arrived, handed>> /\ isr # "free"
    BY <1>2 DEF Enter, ClearIcr, NoMore, Return, Advance, Handler
  <2> QED
    BY <2>1 DEF OnceInv, HandedOnce
<1>3. CASE HandUp
  BY <1>3, HandUpOnce
<1>4. CASE Free
  BY <1>4, FreeOnce
<1>5. CASE Arrive
  BY <1>5, ArriveOnce
<1> QED
  BY <1>1, <1>2, <1>3, <1>4, <1>5
  DEF Next, Handle, Build, ReadTail, Copy, Describe, Publish, Step, Transmit, vars

----------------------------------------------------------------------------
(* The receive ring *)

LEMMA InitReceive == Init => ReceiveInv
<1> SUFFICES ASSUME Init PROVE ReceiveInv
  OBVIOUS
<1>1. \A j \in Slots : Cyc(0, j, RX_DESCRIPTORS) \in Slots
  BY RingConstants DEF Cyc, Slots
<1>2. Oldest = 0 /\ Freed = 0 /\ Waiting = 0
  BY DEF Init, Oldest, Freed, Waiting
<1>3. Cyc(0, 0, RX_DESCRIPTORS) = 0
  BY RingConstants DEF Cyc
<1>4. \A j \in Slots : ~ rxDescriptorList[Cyc(0, j, RX_DESCRIPTORS)].done /\ ~ (j < 0)
  BY <1>1 DEF Init, Slots
<1>5. Len(handed) = 0 /\ Len(received) = 0 /\ isr = "idle" /\ rdh = 0
  BY DEF Init
<1>6. Waiting \in 0 .. RX_DESCRIPTORS
  BY <1>2, RingConstants
<1> QED
  BY <1>2, <1>3, <1>4, <1>5, <1>6 DEF ReceiveInv

(* With the descriptor at the driver's position done, a frame is waiting there. *)
LEMMA DoneIsWaiting ==
    ASSUME Types, ReceiveInv, "lapped" \notin disturbed, isr = "test"
    PROVE  /\ rxDescriptorList[lastReceiveTail].done <=> Waiting > 0
           /\ Waiting > 0 => rxDescriptorList[lastReceiveTail].frame = received[Len(handed) + 1]
<1>1. Oldest = lastReceiveTail /\ Freed = Len(handed)
  BY DEF Oldest, Freed
<1>2. 0 \in Slots /\ Cyc(lastReceiveTail, 0, RX_DESCRIPTORS) = lastReceiveTail
  BY RingConstants DEF Types, RxTypes, TxTypes, Slots, Cyc
<1>3. Len(handed) \in Nat
  BY DEF Types, RxTypes, TxTypes
<1>4. Waiting \in 0 .. RX_DESCRIPTORS
  BY DEF ReceiveInv
<1> QED
  BY <1>1, <1>2, <1>3, <1>4, RingConstants DEF ReceiveInv

LEMMA HandUpReceive ==
    ASSUME Types, ReceiveInv, HandUp, "lapped" \notin disturbed
    PROVE  ReceiveInv'
<1> DEFINE f == rxDescriptorList[lastReceiveTail].frame
<1>1. /\ isr = "test" /\ isr' = "free" /\ rxDescriptorList[lastReceiveTail].done
      /\ UNCHANGED <<rxDescriptorList, lastReceiveTail, rdh, received>>
      /\ handed' = Append(handed, f)
  BY DEF HandUp, Handler
<1>2. Waiting > 0 /\ f = received[Len(handed) + 1] /\ Waiting \in 0 .. RX_DESCRIPTORS
  BY <1>1, DoneIsWaiting DEF ReceiveInv
<1>3. /\ Len(handed) \in Nat /\ Len(received) \in Nat /\ Len(handed') = Len(handed) + 1
      /\ \A k \in 1 .. Len(handed) : handed'[k] = handed[k]
      /\ handed'[Len(handed) + 1] = f
  BY <1>1 DEF Types, RxTypes, TxTypes
<1>4. Oldest' = Oldest /\ Freed = Len(handed) /\ Freed' = Freed /\ Waiting' = Waiting
  BY <1>1, <1>3 DEF Oldest, Freed, Waiting
<1>5. Len(handed') <= Len(received') /\ \A k \in 1 .. Len(handed') : handed'[k] = received'[k]
  BY <1>1, <1>2, <1>3, <1>4 DEF Waiting, ReceiveInv
<1> QED
  BY <1>1, <1>2, <1>3, <1>4, <1>5 DEF ReceiveInv

LEMMA FreeReceive ==
    ASSUME Types, ReceiveInv, Free, "lapped" \notin disturbed
    PROVE  ReceiveInv'
<1> USE RingConstants
<1>1. /\ isr = "free" /\ isr' = "advance"
      /\ UNCHANGED <<lastReceiveTail, rdh, received, handed>>
      /\ \A i \in Slots : rxDescriptorList'[i].done
             <=> (i # lastReceiveTail /\ rxDescriptorList[i].done)
      /\ \A i \in Slots : rxDescriptorList'[i].frame = rxDescriptorList[i].frame
      /\ lastReceiveTail \in Slots
  BY DEF Free, Handler, Types, RxTypes, TxTypes
<1>2. /\ Len(handed) \in Nat /\ Len(received) \in Nat /\ Len(handed) > 0
      /\ Waiting \in 1 .. RX_DESCRIPTORS
  BY <1>1 DEF Types, RxTypes, TxTypes, ReceiveInv
<1>3. /\ Oldest = lastReceiveTail /\ Oldest' = Cyc(lastReceiveTail, 1, RX_DESCRIPTORS)
      /\ Freed' = Freed + 1 /\ Waiting' = Waiting - 1 /\ Freed \in Nat
  BY <1>1, <1>2 DEF Oldest, Freed, Waiting
<1>4. rdh' = Cyc(Oldest', Waiting', RX_DESCRIPTORS)
  BY <1>1, <1>2, <1>3 DEF ReceiveInv, Cyc, Slots
<1>5. ASSUME NEW j \in Slots
      PROVE  /\ rxDescriptorList'[Cyc(Oldest', j, RX_DESCRIPTORS)].done <=> j < Waiting'
             /\ j < Waiting' =>
                   rxDescriptorList'[Cyc(Oldest', j, RX_DESCRIPTORS)].frame = received[Freed' + 1 + j]
  <2>1. CASE j + 1 = RX_DESCRIPTORS
    <3>1. Cyc(Oldest', j, RX_DESCRIPTORS) = lastReceiveTail
      BY <1>1, <1>3, <2>1 DEF Cyc, Slots
    <3>2. ~ (j < Waiting')
      BY <1>2, <1>3, <2>1 DEF Slots
    <3> QED
      BY <1>1, <3>1, <3>2
  <2>2. CASE j + 1 < RX_DESCRIPTORS
    <3>1. /\ Cyc(Oldest', j, RX_DESCRIPTORS) = Cyc(Oldest, j + 1, RX_DESCRIPTORS)
          /\ Cyc(Oldest, j + 1, RX_DESCRIPTORS) # lastReceiveTail
          /\ j + 1 \in Slots /\ Cyc(Oldest, j + 1, RX_DESCRIPTORS) \in Slots
      BY <1>1, <1>3, <2>2 DEF Cyc, Slots
    <3>2. /\ rxDescriptorList[Cyc(Oldest, j + 1, RX_DESCRIPTORS)].done <=> j + 1 < Waiting
          /\ j + 1 < Waiting => rxDescriptorList[Cyc(Oldest, j + 1, RX_DESCRIPTORS)].frame
                                  = received[Freed + 1 + (j + 1)]
      BY <3>1 DEF ReceiveInv
    <3>3. Freed' + 1 + j = Freed + 1 + (j + 1) /\ (j + 1 < Waiting <=> j < Waiting')
      BY <1>2, <1>3 DEF Slots
    <3> QED
      BY <1>1, <3>1, <3>2, <3>3
  <2> QED
    BY <2>1, <2>2 DEF Slots
<1> QED
  BY <1>1, <1>2, <1>3, <1>4, <1>5 DEF ReceiveInv

LEMMA StoreReceive ==
    ASSUME Types, ReceiveInv, Store, "lapped" \notin disturbed', arrived' \in Frames,
           UNCHANGED <<lastReceiveTail, isr, handed>>
    PROVE  ReceiveInv'
<1> USE RingConstants
<1>1. /\ "lapped" \notin disturbed /\ ~ rxDescriptorList[rdh].done /\ rdh \in Slots
      /\ rdh' = Following(rdh, RX_DESCRIPTORS)
      /\ received' = Append(received, arrived')
      /\ \A i \in Slots : rxDescriptorList'[i] = IF i = rdh THEN [done |-> TRUE, frame |-> arrived']
                                                             ELSE rxDescriptorList[i]
  BY DEF Store, Types, RxTypes, TxTypes
<1>2. /\ Oldest \in Slots /\ Oldest' = Oldest /\ Freed' = Freed /\ Freed \in Int
      /\ Freed + Waiting = Len(received) /\ Len(received) \in Nat
  <2>1. lastReceiveTail \in Slots /\ Len(handed) \in Nat /\ Len(received) \in Nat
    BY DEF Types, RxTypes, TxTypes
  <2>2. Oldest \in Slots
    BY <2>1 DEF Oldest, Cyc, Slots
  <2>3. Oldest' = Oldest /\ Freed' = Freed
    BY DEF Oldest, Freed
  <2>4. Freed \in Int
    BY <2>1 DEF Freed
  <2> QED
    BY <2>1, <2>2, <2>3, <2>4 DEF Waiting
<1>3. /\ Waiting \in 0 .. RX_DESCRIPTORS /\ rdh = Cyc(Oldest, Waiting, RX_DESCRIPTORS)
  BY <1>1 DEF ReceiveInv
<1>4. Waiting < RX_DESCRIPTORS
  <2>1. 0 \in Slots /\ Cyc(Oldest, 0, RX_DESCRIPTORS) = Oldest
        /\ Cyc(Oldest, RX_DESCRIPTORS, RX_DESCRIPTORS) = Oldest
    BY <1>2 DEF Cyc, Slots
  <2>2. Waiting > 0 => rxDescriptorList[Oldest].done
    BY <1>1, <2>1, <1>3 DEF ReceiveInv
  <2> QED
    BY <1>1, <1>3, <2>1, <2>2
<1>5. /\ Len(received') = Len(received) + 1 /\ received'[Len(received) + 1] = arrived'
      /\ \A k \in 1 .. Len(received) : received'[k] = received[k]
      /\ Waiting' = Waiting + 1
  BY <1>1, <1>2 DEF Types, RxTypes, TxTypes, Waiting
<1>6. rdh' = Cyc(Oldest', Waiting', RX_DESCRIPTORS)
  <2>1. Following(rdh, RX_DESCRIPTORS) = Cyc(rdh, 1, RX_DESCRIPTORS)
    BY <1>1, FollowingIsCyc DEF Slots
  <2>2. Cyc(Cyc(Oldest, Waiting, RX_DESCRIPTORS), 1, RX_DESCRIPTORS)
          = Cyc(Oldest, Waiting + 1, RX_DESCRIPTORS)
    <3>1. Oldest \in 0 .. RX_DESCRIPTORS - 1 /\ Waiting \in 0 .. RX_DESCRIPTORS - 1
      BY <1>2, <1>3, <1>4 DEF Slots
    <3> QED
      BY <3>1, CycFacts
  <2> QED
    BY <1>1, <1>2, <1>3, <1>5, <2>1, <2>2
<1>7. ASSUME NEW j \in Slots
      PROVE  /\ rxDescriptorList'[Cyc(Oldest', j, RX_DESCRIPTORS)].done <=> j < Waiting'
             /\ j < Waiting' =>
                   rxDescriptorList'[Cyc(Oldest', j, RX_DESCRIPTORS)].frame = received'[Freed' + 1 + j]
  <2>1. /\ Cyc(Oldest, j, RX_DESCRIPTORS) \in Slots
        /\ Cyc(Oldest, j, RX_DESCRIPTORS) = rdh <=> j = Waiting
    BY <1>2, <1>3, <1>4 DEF Cyc, Slots
  <2>2. CASE j = Waiting
    <3>1. Freed' + 1 + j = Len(received) + 1
      <4>1. Freed' + 1 + j = Freed + 1 + Waiting
        BY <1>2, <2>2
      <4> QED
        BY <1>2, <1>3, <4>1
    <3> QED
      BY <1>1, <1>2, <1>3, <1>5, <2>1, <2>2, <3>1
  <2>3. CASE j # Waiting
    <3>1. rxDescriptorList'[Cyc(Oldest', j, RX_DESCRIPTORS)] = rxDescriptorList[Cyc(Oldest, j, RX_DESCRIPTORS)]
      BY <1>1, <1>2, <2>1, <2>3
    <3>2. j < Waiting' <=> j < Waiting
      BY <1>3, <1>5, <2>3 DEF Slots
    <3>3. j < Waiting => Freed + 1 + j \in 1 .. Len(received) \/ Freed < 0
      BY <1>2, <1>3 DEF Slots
    <3>4. Freed >= 0
      BY <1>1 DEF ReceiveInv, Freed, Types, RxTypes, TxTypes
    <3> QED
      BY <1>1, <1>2, <1>5, <3>1, <3>2, <3>3, <3>4 DEF ReceiveInv
  <2> QED
    BY <2>2, <2>3
<1>8. Len(handed') <= Len(received') /\ \A k \in 1 .. Len(handed') : handed'[k] = received'[k]
  BY <1>1, <1>5 DEF ReceiveInv, Types, RxTypes, TxTypes
<1>9. Waiting' \in 0 .. RX_DESCRIPTORS /\ Waiting' > 0
  BY <1>3, <1>4, <1>5
<1>10. isr' \in {"free", "advance"} => Len(handed') > 0
  BY <1>1 DEF ReceiveInv
<1> QED
  BY <1>6, <1>7, <1>8, <1>9, <1>10 DEF ReceiveInv

LEMMA NextReceive ==
    ASSUME Types, ReceiveInv, [Next]_vars
    PROVE  ReceiveInv'
<1> SUFFICES ASSUME "lapped" \notin disturbed' PROVE ReceiveInv'
  BY DEF ReceiveInv
<1>1. "lapped" \notin disturbed
  BY DEF Next, Handle, Build, ReadTail, Copy, Describe, Publish, MoveTail, Enter, HandUp, Reply, Free,
         Advance, ClearIcr, NoMore, Return, Arrive, Store, Transmit, vars
<1>2. CASE UNCHANGED receiving
  BY <1>1, <1>2 DEF receiving, ReceiveInv, Oldest, Freed, Waiting
<1>3. CASE Enter \/ ClearIcr \/ NoMore \/ Return
  BY <1>1, <1>3 DEF Enter, ClearIcr, NoMore, Return, Handler, ReceiveInv, Oldest, Freed, Waiting
<1>4. CASE HandUp
  BY <1>1, <1>4, HandUpReceive
<1>5. CASE Free
  BY <1>1, <1>5, FreeReceive
<1>6. CASE Advance
  <2>1. /\ lastReceiveTail' = Cyc(lastReceiveTail, 1, RX_DESCRIPTORS)
        /\ isr = "advance" /\ isr' = "clear"
        /\ UNCHANGED <<rxDescriptorList, rdh, received, handed>>
    BY <1>6, RingConstants, FollowingIsCyc DEF Advance, Handler, Types, RxTypes, TxTypes, Slots
  <2>2. Oldest' = Oldest /\ Freed' = Freed /\ Waiting' = Waiting
    BY <2>1 DEF Oldest, Freed, Waiting
  <2> QED
    BY <1>1, <2>1, <2>2 DEF ReceiveInv
<1>7. CASE Arrive
  <2>1. UNCHANGED <<lastReceiveTail, isr, handed>> /\ arrived' \in Frames
    BY <1>7, RingConstants DEF Arrive, Frames, Types, RxTypes, TxTypes
  <2>2. CASE rdh = rdt
    BY <1>1, <1>7, <2>1, <2>2 DEF Arrive, ReceiveInv, Oldest, Freed, Waiting
  <2>3. CASE rdh # rdt
    BY <1>7, <2>1, <2>3, StoreReceive DEF Arrive
  <2> QED
    BY <2>2, <2>3
<1> QED
  BY <1>2, <1>3, <1>4, <1>5, <1>6, <1>7
  DEF Next, Handle, Build, ReadTail, Copy, Describe, Publish, Step, Transmit, vars

----------------------------------------------------------------------------
(* The send ring *)

LEMMA InitSend == Init => SendInv
<1> SUFFICES ASSUME Init PROVE SendRing /\ BuildInv
  BY DEF SendInv
<1>1. tdh = 0 /\ tdt = 0 /\ pc = "idle" /\ Len(queued) = 0 /\ Len(wire) = 0
  BY DEF Init
<1>2. Unsent = 0 /\ 0 \in 0 .. TX_DESCRIPTORS - 1
  BY <1>1, RingConstants DEF Unsent
<1>3. Cyc(0, 0, TX_DESCRIPTORS) = 0
  BY RingConstants DEF Cyc
<1> QED
  BY <1>1, <1>2, <1>3 DEF SendRing, BuildInv, TxSlots

LEMMA SendFacts ==
    ASSUME Types, SendRing
    PROVE  /\ Len(queued) \in Nat /\ Len(wire) \in Nat
           /\ Len(queued) = Len(wire) + Unsent
           /\ tdh \in TxSlots /\ tdt \in TxSlots
  BY DEF Types, RxTypes, TxTypes, SendRing, Unsent

LEMMA UnsentPlaces ==
    ASSUME Types, SendRing, NEW j \in TxSlots, j < Unsent
    PROVE  Cyc(tdh, j, TX_DESCRIPTORS) \in TxSlots \ {tdt}
<1>1. Len(queued) \in Nat /\ Len(wire) \in Nat /\ tdh \in TxSlots /\ tdt \in TxSlots
  BY DEF Types, RxTypes, TxTypes
<1>2. Unsent \in 0 .. TX_DESCRIPTORS - 1 /\ tdt = Cyc(tdh, Unsent, TX_DESCRIPTORS)
  BY DEF SendRing
<1> QED
  BY <1>1, <1>2, RingConstants DEF Unsent, Cyc, TxSlots

(* Writing the descriptor at the tail disturbs nothing that waits to be sent. *)
LEMMA WriteAtTail ==
    ASSUME Types, SendRing, UNCHANGED <<tdh, tdt, queued, wire>>,
           \A i \in TxSlots : i # tdt => txDescriptorList'[i] = txDescriptorList[i]
    PROVE  SendRing'
<1>1. Unsent' = Unsent
  BY DEF Unsent
<1>2. ASSUME NEW j \in TxSlots, j < Unsent
      PROVE  txDescriptorList'[Cyc(tdh, j, TX_DESCRIPTORS)] = queued[Len(wire) + 1 + j]
  <2>1. Cyc(tdh, j, TX_DESCRIPTORS) \in TxSlots \ {tdt}
    BY <1>2, UnsentPlaces
  <2>2. txDescriptorList[Cyc(tdh, j, TX_DESCRIPTORS)] = queued[Len(wire) + 1 + j]
    BY <1>2 DEF SendRing
  <2> QED
    BY <2>1, <2>2
<1> QED
  BY <1>1, <1>2 DEF SendRing

(* Moving the tail past a descriptor that holds d queues d. *)
LEMMA QueueAtTail ==
    ASSUME Types, SendRing, NEW d,
           \A i \in TxSlots : i # tdt => txDescriptorList'[i] = txDescriptorList[i],
           txDescriptorList'[tdt] = d, d \in Descriptors, queued' = Append(queued, d),
           tdt' = Following(tdt, TX_DESCRIPTORS), tdt' # tdh, UNCHANGED <<tdh, wire>>
    PROVE  SendRing'
<1>1. /\ Len(queued') = Len(queued) + 1 /\ queued'[Len(queued) + 1] = d
      /\ \A k \in 1 .. Len(queued) : queued'[k] = queued[k]
  BY DEF Types, RxTypes, TxTypes
<1>2. Unsent' = Unsent + 1 /\ Unsent \in 0 .. TX_DESCRIPTORS - 1
  BY <1>1, SendFacts DEF Unsent, SendRing
<1>3. tdt' = Cyc(tdt, 1, TX_DESCRIPTORS) /\ tdt = Cyc(tdh, Unsent, TX_DESCRIPTORS)
  BY SendFacts, RingConstants, FollowingIsCyc DEF SendRing, TxSlots
<1>4. tdt' = Cyc(tdh, Unsent', TX_DESCRIPTORS) /\ Unsent' \in 0 .. TX_DESCRIPTORS - 1
  <2>1. tdh \in 0 .. TX_DESCRIPTORS - 1 /\ TX_DESCRIPTORS \in Nat
    BY SendFacts, RingConstants DEF TxSlots
  <2>2. tdt' = Cyc(tdh, Unsent + 1, TX_DESCRIPTORS)
    BY <1>2, <1>3, <2>1 DEF Cyc
  <2>3. Unsent + 1 # TX_DESCRIPTORS
    BY <2>1, <2>2 DEF Cyc
  <2> QED
    BY <1>2, <2>1, <2>2, <2>3
<1>5. \A k \in 1 .. Len(wire') : wire'[k] = queued'[k]
  BY <1>1, <1>2, SendFacts DEF SendRing
<1>6. ASSUME NEW j \in TxSlots, j < Unsent'
      PROVE  txDescriptorList'[Cyc(tdh, j, TX_DESCRIPTORS)] = queued'[Len(wire) + 1 + j]
  <2>1. CASE j = Unsent
    <3>1. Len(wire) + 1 + j = Len(queued) + 1
      BY <2>1, <1>2, SendFacts
    <3> QED
      BY <1>1, <1>3, <2>1, <3>1
  <2>2. CASE j # Unsent
    <3>1. j < Unsent /\ Len(wire) + 1 + j \in 1 .. Len(queued)
      BY <1>2, <1>6, <2>2, SendFacts DEF TxSlots
    <3>2. txDescriptorList[Cyc(tdh, j, TX_DESCRIPTORS)] = queued[Len(wire) + 1 + j]
      BY <3>1 DEF SendRing
    <3>3. Cyc(tdh, j, TX_DESCRIPTORS) \in TxSlots \ {tdt}
      BY <3>1, UnsentPlaces
    <3> QED
      BY <1>1, <3>1, <3>2, <3>3
  <2> QED
    BY <2>1, <2>2
<1> QED
  BY <1>4, <1>5, <1>6 DEF SendRing

LEMMA TransmitSend ==
    ASSUME Types, SendRing, Transmit
    PROVE  SendRing'
<1>1. /\ tdh # tdt /\ wire' = Append(wire, txDescriptorList[tdh])
      /\ tdh' = Following(tdh, TX_DESCRIPTORS)
      /\ UNCHANGED <<tdt, queued, txDescriptorList>>
  BY DEF Transmit
<1>2. /\ Len(wire') = Len(wire) + 1 /\ wire'[Len(wire) + 1] = txDescriptorList[tdh]
      /\ \A k \in 1 .. Len(wire) : wire'[k] = wire[k]
  BY <1>1 DEF Types, RxTypes, TxTypes
<1>3. Unsent' = Unsent - 1 /\ Unsent \in 0 .. TX_DESCRIPTORS - 1
  BY <1>1, <1>2, SendFacts DEF Unsent, SendRing
<1>4. tdh' = Cyc(tdh, 1, TX_DESCRIPTORS) /\ tdt = Cyc(tdh, Unsent, TX_DESCRIPTORS)
  BY <1>1, SendFacts, RingConstants, FollowingIsCyc DEF SendRing, TxSlots
<1>5. 0 \in TxSlots /\ Cyc(tdh, 0, TX_DESCRIPTORS) = tdh
  BY SendFacts, RingConstants DEF Cyc, TxSlots
<1>6. Unsent > 0
  BY <1>1, <1>3, <1>4, <1>5
<1>7. tdt' = Cyc(tdh', Unsent', TX_DESCRIPTORS) /\ Unsent' \in 0 .. TX_DESCRIPTORS - 1
  <2>1. tdh \in 0 .. TX_DESCRIPTORS - 1 /\ TX_DESCRIPTORS \in Nat
    BY SendFacts, RingConstants DEF TxSlots
  <2>2. Cyc(tdh, Unsent, TX_DESCRIPTORS) = Cyc(Cyc(tdh, 1, TX_DESCRIPTORS), Unsent - 1, TX_DESCRIPTORS)
    BY <1>3, <1>6, <2>1 DEF Cyc
  <2> QED
    BY <1>1, <1>3, <1>4, <1>6, <2>1, <2>2
<1>8. \A k \in 1 .. Len(wire') : wire'[k] = queued'[k]
  <2>1. txDescriptorList[tdh] = queued[Len(wire) + 1 + 0]
    BY <1>5, <1>6 DEF SendRing
  <2> QED
    BY <1>1, <1>2, <2>1, SendFacts DEF SendRing
<1>9. ASSUME NEW j \in TxSlots, j < Unsent'
      PROVE  txDescriptorList'[Cyc(tdh', j, TX_DESCRIPTORS)] = queued'[Len(wire') + 1 + j]
  <2>1. j + 1 \in TxSlots /\ j + 1 < Unsent
    <3>1. j \in Nat /\ j < Unsent - 1 /\ Unsent \in 0 .. TX_DESCRIPTORS - 1 /\ TX_DESCRIPTORS \in Nat
      BY <1>3, <1>9, RingConstants DEF TxSlots
    <3> QED
      BY <3>1 DEF TxSlots
  <2>2. Cyc(tdh', j, TX_DESCRIPTORS) = Cyc(tdh, j + 1, TX_DESCRIPTORS)
    <3>1. tdh \in 0 .. TX_DESCRIPTORS - 1 /\ j \in 0 .. TX_DESCRIPTORS - 1 /\ TX_DESCRIPTORS \in Nat \ {0}
      BY SendFacts, RingConstants DEF TxSlots
    <3> QED
      BY <1>4, <3>1, CycFacts
  <2>3. txDescriptorList[Cyc(tdh, j + 1, TX_DESCRIPTORS)] = queued[Len(wire) + 1 + (j + 1)]
    BY <2>1 DEF SendRing
  <2>4. Len(wire') + 1 + j = Len(wire) + 1 + (j + 1)
    BY <1>2, SendFacts DEF TxSlots
  <2> QED
    BY <1>1, <2>2, <2>3, <2>4
<1> QED
  BY <1>7, <1>8, <1>9 DEF SendRing

LEMMA NextSend ==
    ASSUME Types, SendInv, [Next]_vars
    PROVE  SendInv'
<1> SUFFICES ASSUME disturbed' \cap {"flooded", "raced"} = {}
             PROVE  SendRing' /\ BuildInv'
  BY DEF SendInv
<1>1. SendRing /\ BuildInv
  BY DEF SendInv, Next, Handle, Build, ReadTail, Copy, Describe, Publish, MoveTail, Enter, HandUp, Reply,
         Free, Advance, ClearIcr, NoMore, Return, Arrive, Store, Transmit, vars
<1>2. CASE UNCHANGED sending
  BY <1>1, <1>2 DEF sending, SendRing, BuildInv, Unsent
<1>3. CASE Build
  <2>1. /\ pc' = "read_tail" /\ packetBuffer' = Own(sends')
        /\ UNCHANGED <<txDescriptorList, tdh, tdt, queued, wire>>
    BY <1>3 DEF Build, Step
  <2> QED
    BY <1>1, <2>1 DEF SendRing, BuildInv, Unsent
<1>4. CASE ReadTail
  <2>1. /\ pc = "read_tail" /\ pc' = "copy" /\ index' = tdt
        /\ UNCHANGED <<txDescriptorList, tdh, tdt, packetBuffer, sends, queued, wire>>
    BY <1>4 DEF ReadTail, Step
  <2> QED
    BY <1>1, <2>1 DEF SendRing, BuildInv, Unsent
<1>5. CASE Copy
  <2>1. /\ pc = "copy" /\ pc' = "describe"
        /\ txDescriptorList' = [txDescriptorList EXCEPT ![index].body = packetBuffer]
        /\ UNCHANGED <<tdh, tdt, index, sends, queued, wire>>
    BY <1>5 DEF Copy, Step
  <2>2. index = tdt /\ packetBuffer = Own(sends)
    BY <1>1, <2>1 DEF BuildInv
  <2>3. SendRing'
    BY <1>1, <2>1, <2>2, WriteAtTail DEF Types, RxTypes, TxTypes
  <2>4. txDescriptorList'[index].body = Own(sends)
    BY <2>1, <2>2 DEF Types, RxTypes, TxTypes, Descriptors
  <2> QED
    BY <2>1, <2>2, <2>3, <2>4 DEF BuildInv
<1>6. CASE Describe
  <2>1. /\ pc = "describe" /\ pc' = "publish"
        /\ txDescriptorList' = [txDescriptorList EXCEPT ![index].length = Own(sends)]
        /\ UNCHANGED <<tdh, tdt, index, sends, queued, wire>>
    BY <1>6 DEF Describe, Step
  <2>2. index = tdt /\ txDescriptorList[index].body = Own(sends)
    BY <1>1, <2>1 DEF BuildInv
  <2>3. SendRing'
    BY <1>1, <2>1, <2>2, WriteAtTail DEF Types, RxTypes, TxTypes
  <2>4. txDescriptorList'[index].body = Own(sends) /\ txDescriptorList'[index].length = Own(sends)
    BY <2>1, <2>2 DEF Types, RxTypes, TxTypes, Descriptors
  <2> QED
    BY <2>1, <2>2, <2>3, <2>4 DEF BuildInv
<1>7. CASE Publish
  <2>1. /\ pc = "publish" /\ pc' = "idle" /\ tdt' = Following(index, TX_DESCRIPTORS)
        /\ queued' = Append(queued, Whole(Own(sends)))
        /\ UNCHANGED <<txDescriptorList, tdh, wire>>
    BY <1>7 DEF Publish, Step, MoveTail
  <2>2. tdt' # tdh
    BY <1>7 DEF Publish, MoveTail
  <2>3. index = tdt /\ txDescriptorList[tdt].body = Own(sends) /\ txDescriptorList[tdt].length = Own(sends)
    BY <1>1, <2>1 DEF BuildInv
  <2>4. txDescriptorList[tdt] = Whole(Own(sends)) /\ Whole(Own(sends)) \in Descriptors
    BY <2>3, SentTypes DEF Types, RxTypes, TxTypes, Descriptors, Whole
  <2>5. SendRing'
    BY <1>1, <2>1, <2>2, <2>3, <2>4, QueueAtTail
  <2> QED
    BY <2>1, <2>5 DEF BuildInv
<1>8. CASE Transmit
  <2>1. SendRing'
    BY <1>1, <1>8, TransmitSend
  <2> QED
    BY <1>1, <1>8, <2>1 DEF Transmit, BuildInv
<1>9. ASSUME HandUp, ~ UNCHANGED sending
      PROVE  SendRing' /\ BuildInv'
  <2> DEFINE f == rxDescriptorList[lastReceiveTail].frame
  <2>1. Reply(f) /\ f \in Frames
    BY <1>9, RingConstants DEF HandUp, Handler, Types, RxTypes, TxTypes, Frames
  <2>2. pc = "idle" /\ pc' = "idle" /\ tdt' # tdh /\ tdt' = Following(tdt, TX_DESCRIPTORS)
    BY <2>1 DEF Reply, MoveTail
  <2>3. /\ txDescriptorList' = [txDescriptorList EXCEPT ![tdt] = Whole(Answer(f))]
        /\ queued' = Append(queued, Whole(Answer(f)))
        /\ UNCHANGED <<tdh, wire>>
    BY <2>1 DEF Reply, MoveTail
  <2>4. Whole(Answer(f)) \in Descriptors
    BY <2>1 DEF Descriptors, Whole, Sent, Frames
  <2>5. SendRing'
    BY <1>1, <2>2, <2>3, <2>4, QueueAtTail DEF Types, RxTypes, TxTypes
  <2> QED
    BY <2>2, <2>5 DEF BuildInv
<1> QED
  BY <1>2, <1>3, <1>4, <1>5, <1>6, <1>7, <1>8, <1>9
  DEF Next, Handle, Enter, Free, Advance, ClearIcr, NoMore, Return, Arrive, vars

----------------------------------------------------------------------------
(* The theorems *)

LEMMA PrefixByPlaces ==
    ASSUME NEW S, NEW s \in Seq(S), NEW t \in Seq(S), Len(s) <= Len(t),
           \A k \in 1 .. Len(s) : s[k] = t[k]
    PROVE  IsPrefix(s, t)
<1>1. SubSeq(t, 1, Len(s)) = s
  OBVIOUS
<1> QED
  BY <1>1 DEF IsPrefix

LEMMA IInvHolds == Spec => []IInv
<1>1. Init => IInv
  BY InitTypes, InitOnce, InitReceive, InitSend DEF IInv
<1>2. IInv /\ [Next]_vars => IInv'
  BY NextTypes, NextOnce, NextReceive, NextSend DEF IInv
<1> QED
  BY <1>1, <1>2, PTL DEF Spec

(* Positions and registers stay in their ranges: the tail register may     *)
(* leave the ring (e1000.c:344), the driver's own position does not (343). *)
THEOREM RegistersInRange == Spec => []TypeOK
<1>1. IInv => TypeOK
  <2> SUFFICES ASSUME IInv PROVE TypeOK
    OBVIOUS
  <2>1. 1 .. arrived \subseteq 1 .. MaxFrames
    BY RingConstants DEF IInv, Types, RxTypes, TxTypes
  <2> QED
    BY <2>1 DEF IInv, Types, RxTypes, TxTypes, TypeOK
<1> QED
  BY <1>1, IInvHolds, PTL

(* No frame is passed on twice, whatever the card overwrites meanwhile     *)
(* (e1000.c:337-343).                                                      *)
THEOREM NoFrameTwice == Spec => []HandedOnce
<1>1. IInv => HandedOnce
  BY DEF IInv, OnceInv
<1> QED
  BY <1>1, IInvHolds, PTL

(* Unless the card overtakes the handler by a whole ring, frames are       *)
(* passed on in the order in which they were stored and none is left out   *)
(* (e1000.c:327-351).                                                      *)
THEOREM FramesInOrder == Spec => []InOrder
<1>1. IInv => InOrder
  BY PrefixByPlaces DEF IInv, Types, RxTypes, TxTypes, ReceiveInv, InOrder
<1> QED
  BY <1>1, IInvHolds, PTL

(* Unless the ring is filled or a frame is answered in the middle of a     *)
(* send, the card sends whole frames, each once and in order               *)
(* (e1000.c:295-319).                                                      *)
THEOREM WireInOrder == Spec => []WireFifo
<1>1. IInv => WireFifo
  <2> SUFFICES ASSUME IInv, disturbed \cap {"flooded", "raced"} = {}
               PROVE  IsPrefix(wire, queued)
    BY DEF WireFifo
  <2>1. SendRing /\ Types
    BY DEF IInv, SendInv
  <2>2. Len(wire) <= Len(queued)
    BY <2>1, SendFacts DEF SendRing
  <2> QED
    BY <2>1, <2>2, PrefixByPlaces DEF SendRing, Types, RxTypes, TxTypes
<1> QED
  BY <1>1, IInvHolds, PTL
=============================================================================
