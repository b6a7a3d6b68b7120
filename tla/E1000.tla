------------------------------- MODULE E1000 -------------------------------
(***************************************************************************)
(* The descriptor rings of drivers/net/e1000.c, shared by the card, the    *)
(* interrupt handler and the code that sends.  The handler runs with       *)
(* interrupts off: the sender stands still while it runs, the card does    *)
(* not.  A frame that the handler passes on may be answered at once (a     *)
(* DHCP offer, a TFTP block), through the same e1000_SendPacket and from   *)
(* the same packetBuffer as the frames sent outside.                       *)
(*                                                                         *)
(* The card is not in the repository.  It stores an arriving frame at its  *)
(* head unless head and tail registers are equal, raises RXT0, and sends   *)
(* the descriptors from its head to the tail.  It does not look at the     *)
(* done bit before it stores, nor at whether the tail lies in the ring.    *)
(*                                                                         *)
(* `disturbed' records what the driver leaves to the environment:          *)
(*   lapped   a frame was stored over one that was not passed on yet;      *)
(*   flooded  the sender filled the ring, so that it looks empty;          *)
(*   raced    a frame was answered while one was being sent.               *)
(***************************************************************************)
EXTENDS Integers, SequencesExt

CONSTANTS
    RX_DESCRIPTORS, TX_DESCRIPTORS,
    RegisterRange,  \* the modulus of the tail register: 65536
    MaxFrames,      \* bound on the frames that arrive
    MaxSends,       \* bound on the frames sent outside the handler
    None

ASSUME RingConstants ==
    /\ RX_DESCRIPTORS \in Nat \ {0}
    /\ TX_DESCRIPTORS \in Nat \ {0, 1}
    /\ RegisterRange \in Nat \ {0}
    /\ RX_DESCRIPTORS < RegisterRange
    /\ MaxFrames \in Nat /\ MaxSends \in Nat

VARIABLES
    rxDescriptorList, rdh, rdt, icr, lastReceiveTail, tail, isr,
    txDescriptorList, tdh, tdt, packetBuffer, index, pc,
    arrived, received,  \* frames that came to the card, and those it stored
    handed,             \* frames passed to EthernetProcessReceivedPacket
    sends, queued,      \* frames sent outside, and all whose sending has ended
    wire,               \* what the card sent
    disturbed

receiving == <<rxDescriptorList, rdh, rdt, icr, lastReceiveTail, tail, isr, arrived, received, handed>>
sending == <<txDescriptorList, tdh, tdt, packetBuffer, index, pc, sends, queued, wire>>
vars == <<receiving, sending, disturbed>>

Slots == 0 .. RX_DESCRIPTORS - 1
TxSlots == 0 .. TX_DESCRIPTORS - 1

Own(n) == [from |-> "sender", number |-> n]
Answer(f) == [from |-> "handler", number |-> f]
Whole(frame) == [body |-> frame, length |-> frame]

Init ==
    /\ rxDescriptorList = [i \in Slots |-> [done |-> FALSE, frame |-> None]]
    /\ rdh = 0 /\ rdt = RX_DESCRIPTORS
    /\ icr = FALSE /\ lastReceiveTail = 0 /\ tail = 0 /\ isr = "idle"
    /\ txDescriptorList = [i \in TxSlots |-> Whole(None)]
    /\ tdh = 0 /\ tdt = 0
    /\ packetBuffer = None /\ index = 0 /\ pc = "idle"
    /\ arrived = 0 /\ received = << >> /\ handed = << >>
    /\ sends = 0 /\ queued = << >> /\ wire = << >>
    /\ disturbed = {}

\* mutant: no modulo
FollowingEnd(i, size) == i + 1

Following(i, size) == (i + 1) % size

----------------------------------------------------------------------------
(* e1000_SendPacket outside the handler *)

Step(from, to) ==
    /\ isr = "idle"
    /\ pc = from
    /\ pc' = to
    /\ UNCHANGED <<receiving, tdh, wire>>

Build ==
    /\ sends < MaxSends
    /\ Step("idle", "read_tail")
    /\ sends' = sends + 1
    /\ packetBuffer' = Own(sends')
    /\ UNCHANGED <<txDescriptorList, tdt, index, queued, disturbed>>

\* mutant: the tail is moved before the descriptor is filled
ReadTailAndMoveIt ==
    /\ Step("read_tail", "copy")
    /\ index' = tdt
    /\ tdt' = Following(tdt, TX_DESCRIPTORS)
    /\ UNCHANGED <<txDescriptorList, packetBuffer, sends, queued, disturbed>>

ReadTail ==
    /\ Step("read_tail", "copy")
    /\ index' = tdt
    /\ UNCHANGED <<txDescriptorList, tdt, packetBuffer, sends, queued, disturbed>>

Copy ==
    /\ Step("copy", "describe")
    /\ txDescriptorList' = [txDescriptorList EXCEPT ![index].body = packetBuffer]
    /\ UNCHANGED <<tdt, packetBuffer, index, sends, queued, disturbed>>

Describe ==
    /\ Step("describe", "publish")
    /\ txDescriptorList' = [txDescriptorList EXCEPT ![index].length = Own(sends)]
    /\ UNCHANGED <<tdt, packetBuffer, index, sends, queued, disturbed>>

(* to `newTail', in a ring whose occupied part begins at the card's head *)
MoveTail(newTail, frame, also) ==
    /\ tdt' = newTail
    /\ queued' = Append(queued, Whole(frame))
    /\ disturbed' = disturbed \cup also \cup IF newTail = tdh THEN {"flooded"} ELSE {}

Publish ==
    /\ Step("publish", "idle")
    /\ MoveTail(Following(index, TX_DESCRIPTORS), Own(sends), {})
    /\ UNCHANGED <<txDescriptorList, packetBuffer, index, sends>>

(* e1000_SendPacket in the handler *)
Reply(f) ==
    /\ packetBuffer' = Answer(f)
    /\ txDescriptorList' = [txDescriptorList EXCEPT ![tdt] = Whole(Answer(f))]
    /\ MoveTail(Following(tdt, TX_DESCRIPTORS), Answer(f), IF pc = "idle" THEN {} ELSE {"raced"})
    /\ UNCHANGED <<tdh, index, pc, sends, wire>>

----------------------------------------------------------------------------
(* e1000_InterruptHandler and e1000_ReceivePacket *)

Handler(from, to) ==
    /\ isr = from
    /\ isr' = to
    /\ UNCHANGED <<rdh, arrived, received>>

Enter ==
    /\ icr
    /\ Handler("idle", "test")
    /\ icr' = FALSE
    /\ tail' = rdt
    /\ UNCHANGED <<rxDescriptorList, rdt, lastReceiveTail, handed, sending, disturbed>>

\* mutant: the frame at the tail register is passed on
HandUpAtTail ==
    /\ rxDescriptorList[lastReceiveTail].done
    /\ Handler("test", "free")
    /\ LET f == rxDescriptorList[tail % RX_DESCRIPTORS].frame
       IN  /\ handed' = Append(handed, f)
           /\ Reply(f) \/ UNCHANGED <<sending, disturbed>>
    /\ UNCHANGED <<rxDescriptorList, rdt, icr, lastReceiveTail, tail>>

HandUp ==
    /\ rxDescriptorList[lastReceiveTail].done
    /\ Handler("test", "free")
    /\ LET f == rxDescriptorList[lastReceiveTail].frame
       IN  /\ handed' = Append(handed, f)
           /\ Reply(f) \/ UNCHANGED <<sending, disturbed>>
    /\ UNCHANGED <<rxDescriptorList, rdt, icr, lastReceiveTail, tail>>

\* mutant: the descriptor stays done
FreeNothing ==
    /\ Handler("free", "advance")
    /\ UNCHANGED <<rxDescriptorList, rdt, icr, lastReceiveTail, tail, handed, sending, disturbed>>

Free ==
    /\ Handler("free", "advance")
    /\ rxDescriptorList' = [rxDescriptorList EXCEPT ![lastReceiveTail].done = FALSE]
    /\ UNCHANGED <<rdt, icr, lastReceiveTail, tail, handed, sending, disturbed>>

Advance ==
    /\ Handler("advance", "clear")
    /\ lastReceiveTail' = Following(lastReceiveTail, RX_DESCRIPTORS)
    /\ tail' = Following(tail, RegisterRange)
    /\ rdt' = tail'
    /\ UNCHANGED <<rxDescriptorList, icr, handed, sending, disturbed>>

ClearIcr ==
    /\ Handler("clear", "test")
    /\ icr' = FALSE
    /\ UNCHANGED <<rxDescriptorList, rdt, lastReceiveTail, tail, handed, sending, disturbed>>

NoMore ==
    /\ ~ rxDescriptorList[lastReceiveTail].done
    /\ Handler("test", "return")
    /\ UNCHANGED <<rxDescriptorList, rdt, icr, lastReceiveTail, tail, handed, sending, disturbed>>

\* mutant: the interrupt is cleared when the loop has ended
ReturnCleared ==
    /\ Handler("return", "idle")
    /\ icr' = FALSE
    /\ UNCHANGED <<rxDescriptorList, rdt, lastReceiveTail, tail, handed, sending, disturbed>>

Return ==
    /\ Handler("return", "idle")
    /\ UNCHANGED <<rxDescriptorList, rdt, icr, lastReceiveTail, tail, handed, sending, disturbed>>

Handle == Enter \/ HandUp \/ Free \/ Advance \/ ClearIcr \/ NoMore \/ Return

----------------------------------------------------------------------------
(* The card *)

Store ==
    /\ rxDescriptorList' = [rxDescriptorList EXCEPT ![rdh] = [done |-> TRUE, frame |-> arrived']]
    /\ disturbed' = disturbed \cup IF rxDescriptorList[rdh].done THEN {"lapped"} ELSE {}
    /\ rdh' = Following(rdh, RX_DESCRIPTORS)
    /\ icr' = TRUE
    /\ received' = Append(received, arrived')

Arrive ==
    /\ arrived < MaxFrames
    /\ arrived' = arrived + 1
    /\ IF rdh = rdt THEN UNCHANGED <<rxDescriptorList, disturbed, rdh, icr, received>> ELSE Store
    /\ UNCHANGED <<rdt, lastReceiveTail, tail, isr, handed, sending>>

\* bound: all frames once, and after a race the ring once more
MaxWire == MaxSends + MaxFrames + TX_DESCRIPTORS

Transmit ==
    /\ tdh # tdt
    /\ Len(wire) < MaxWire
    /\ wire' = Append(wire, txDescriptorList[tdh])
    /\ tdh' = Following(tdh, TX_DESCRIPTORS)
    /\ UNCHANGED <<receiving, txDescriptorList, tdt, packetBuffer, index, pc, sends, queued, disturbed>>

Next ==
    \/ Build \/ ReadTail \/ Copy \/ Describe \/ Publish
    \/ Handle
    \/ Arrive \/ Transmit

(* An interrupt that stays raised is served, and the handler runs on. *)
Spec == Init /\ [][Next]_vars /\ WF_vars(Handle)

----------------------------------------------------------------------------
(* Positions and registers stay in their ranges. *)
TypeOK ==
    /\ lastReceiveTail \in Slots /\ rdh \in Slots
    /\ rdt \in 0 .. RegisterRange - 1 /\ tail \in 0 .. RegisterRange - 1
    /\ tdh \in TxSlots /\ tdt \in TxSlots /\ index \in TxSlots
    /\ \A i \in Slots : rxDescriptorList[i].done => rxDescriptorList[i].frame \in 1 .. MaxFrames
    /\ disturbed \subseteq {"lapped", "flooded", "raced"}

(* Frames are passed on in the order in which they were stored, none left  *)
(* out, although the driver keeps its own position and writes a tail that  *)
(* leaves the ring (e1000.c:327, 343, 344, 398), unless the card overtakes *)
(* the handler by a whole ring.                                            *)
InOrder == "lapped" \notin disturbed => IsPrefix(handed, received)

(* No frame is passed on twice, not even when the card stores a frame in   *)
(* the descriptor that is being passed on (e1000.c:337-343).               *)
HandedOnce == IsInjective(handed)

(* A stored frame is passed on: none that arrives while the handler clears *)
(* the interrupt is left to wait for the next one (e1000.c:333-351).       *)
HandedUp ==
    \A f \in 1 .. MaxFrames :
        (f \in Range(received)) ~> (f \in Range(handed) \/ "lapped" \in disturbed)

(* The card sends whole frames, each once and in the order in which their  *)
(* sending ended, as long as none is answered in the middle of a send and  *)
(* the ring is not filled (e1000.c:295-319: neither is looked at).         *)
WireFifo ==
    disturbed \cap {"flooded", "raced"} = {} => IsPrefix(wire, queued)
=============================================================================
