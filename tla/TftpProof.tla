------------------------------ MODULE TftpProof ------------------------------
(***************************************************************************)
(* What TFTP_GetFile and TFTP_GetFileSize promise, for every set of files  *)
(* and buffers, any number of calls, duplicates and losses.  The argument: *)
(* whatever the network does, a packet that belongs to the running call    *)
(* carries a block of the file that was asked for (NetInv); and as long as *)
(* no other packet is taken, the size counted is that of the blocks before *)
(* the one that is expected (CountInv).                                    *)
(***************************************************************************)
EXTENDS Tftp, TLAPS

Rrqs == [type : {"rrq"}, file : Files, req : Nat]
Acks == [type : {"ack"}, block : 0 .. U16 - 1, req : Nat]
Datas == [type : {"data"}, req : Nat, block : 0 .. U16 - 1, size : Nat]
Others == [type : {"error", "oack"}, req : Nat]

Sent == Rrqs \cup Acks
Answers == Datas \cup Others

Building == {"wait_old", "set_up", "start", "first_block", "no_size", "no_error", "create", "fill", "send"}
Phases == {"idle", "wait", "check", "read_size"} \cup Building

CallerTypes ==
    /\ pc \in Phases
    /\ call \in [by : {None, "TFTP_GetFile", "TFTP_GetFileSize"}, file : Files \cup {None},
                 limit : Limits \cup {0}, number : Nat]
    /\ pc # "idle" => call.by \in {"TFTP_GetFile", "TFTP_GetFileSize"} /\ call.file \in Files
    /\ result # None => result \in [ok : BOOLEAN, size : Nat]

TransferTypes ==
    /\ transferInProgress \in BOOLEAN /\ transferError \in BOOLEAN /\ determiningFileSize \in BOOLEAN
    /\ currentBlockNumber \in 0 .. U16 - 1 /\ virtualBoxBlockNumber \in 0 .. U16 - 1
    /\ tftpFileSize \in Nat
    /\ tftpFileBufferSize \in Limits \cup {0}
    /\ crossed \in BOOLEAN

NetTypes ==
    /\ packetBuffer \in [head : Sent \cup {None}, body : Sent \cup {None}]
    /\ pc = "send" => packetBuffer.body \in Sent
    /\ session # None => session \in [req : Nat, file : Files, block : Nat]
    /\ toServer \subseteq Sent
    /\ toClient \subseteq Answers

Types == CallerTypes /\ TransferTypes /\ NetTypes

(* Where the caller is once it has set its mode, and once it has set the    *)
(* size counted to zero.                                                    *)
Counting == {"no_error", "create", "fill", "send", "wait", "check", "read_size"}
SetUpDone == {"start", "first_block", "no_size"} \cup Counting

LimitInv ==
    /\ determiningFileSize => call.by = "TFTP_GetFileSize" /\ pc \in SetUpDone
    /\ pc \in {"check", "read_size"} => ~ determiningFileSize
    /\ call.by = "TFTP_GetFile" /\ pc \in SetUpDone => tftpFileBufferSize = call.limit
    /\ call.by = "TFTP_GetFile" /\ pc \in Counting => tftpFileSize <= call.limit
    /\ ReportedFits

(* The block number, which is 16 bits wide, never comes round in a file.    *)
SmallFiles == \A f \in Files : LastBlock(f) + 2 < U16

SizeAt(f, b) ==
    IF b < LastBlock(f) THEN BlockSize ELSE IF b = LastBlock(f) THEN SizeOf[f] % BlockSize ELSE 0

(* Number r may be that of the running call only once its request is sent. *)
Fresh(r) == r <= call.number /\ (pc \in Building => r < call.number)

OfCall(p) == p.req = call.number

ServerOK(p) == Fresh(p.req) /\ (p.type = "rrq" /\ OfCall(p) => p.file = call.file)

ClientOK(p) ==
    /\ Fresh(p.req)
    /\ p.type = "data" /\ OfCall(p) =>
          /\ p.block \in 1 .. LastBlock(call.file) + 1
          /\ p.size = SizeAt(call.file, p.block)

SessionOK(s) ==
    /\ Fresh(s.req)
    /\ OfCall(s) => s.file = call.file /\ s.block <= LastBlock(call.file)

BufferOK(p) ==
    /\ p.req <= call.number
    /\ p.type = "ack" => Fresh(p.req)
    /\ p.type = "rrq" /\ OfCall(p) => p.file = call.file

NetInv ==
    /\ \A p \in toServer : ServerOK(p)
    /\ \A p \in toClient : ClientOK(p)
    /\ session # None => SessionOK(session)
    /\ pc = "send" => BufferOK(packetBuffer.body)

(* Where the assignments of the call have taken effect, and where it counts. *)
Running == {"first_block", "no_size", "no_error", "create", "fill", "send"}
AtOne == Running \ {"first_block"}
AtZero == AtOne \ {"no_size"}
Receiving == {"wait", "check", "read_size"}

Started ==
    /\ pc \in Running => transferInProgress
    /\ pc \in AtOne => currentBlockNumber = 1
    /\ pc \in AtZero => tftpFileSize = 0

SizeBefore(f, b) == IF b <= LastBlock(f) THEN BlockSize * (b - 1) ELSE SizeOf[f]

Counted ==
    /\ currentBlockNumber \in 1 .. LastBlock(call.file) + 2
    /\ tftpFileSize = SizeBefore(call.file, currentBlockNumber)
    /\ transferInProgress => currentBlockNumber <= LastBlock(call.file)
    /\ transferInProgress \/ transferError \/ currentBlockNumber > LastBlock(call.file)

CountInv ==
    ~ crossed =>
        /\ Started
        /\ pc \in Receiving => Counted
        /\ pc \in {"check", "read_size"} => ~ transferInProgress
        /\ pc = "read_size" => currentBlockNumber > LastBlock(call.file)
        /\ WholeFile

(* No ack, and so no block the server is at, is ahead of what was counted.  *)
AckInv ==
    ~ crossed /\ pc = "wait" /\ transferInProgress =>
        /\ \A p \in toServer : p.type = "ack" /\ OfCall(p) => p.block < currentBlockNumber
        /\ session # None /\ OfCall(session) => session.block <= currentBlockNumber

----------------------------------------------------------------------------
(* Packets and numbers *)

LEMMA PacketTypes ==
    /\ \A p \in Rrqs : p.type = "rrq" /\ p.file \in Files /\ p.req \in Nat
    /\ \A p \in Acks : p.type = "ack" /\ p.block \in 0 .. U16 - 1 /\ p.req \in Nat
    /\ \A p \in Datas : p.type = "data" /\ p.block \in 0 .. U16 - 1 /\ p.req \in Nat /\ p.size \in Nat
    /\ \A p \in Others : p.type \in {"error", "oack"} /\ p.req \in Nat
  BY DEF Rrqs, Acks, Datas, Others

LEMMA Kinds ==
    /\ \A p \in Sent : /\ p.req \in Nat /\ p.type \in {"rrq", "ack"}
                       /\ p.type = "rrq" => p \in Rrqs
                       /\ p.type = "ack" => p \in Acks
    /\ \A p \in Answers : /\ p.req \in Nat /\ p.type \in {"data", "error", "oack"}
                          /\ p.type = "data" => p \in Datas
  BY PacketTypes DEF Sent, Answers

LEMMA AckTypes ==
    ASSUME NEW b \in 0 .. U16 - 1, NEW r \in Nat
    PROVE  Ack(b, r) \in Acks /\ Ack(b, r) \in Sent
  BY DEF Ack, Acks, Sent

LEMMA RrqTypes ==
    ASSUME CallerTypes, pc # "idle"
    PROVE  Rrq \in Rrqs /\ Rrq \in Sent
  BY DEF CallerTypes, Rrq, Rrqs, Sent

LEMMA Division ==
    ASSUME NEW m \in Nat, NEW n \in Nat \ {0}
    PROVE  /\ m \div n \in Nat /\ m % n \in 0 .. n - 1
           /\ m % n = m - n * (m \div n)
<1>1. m \div n \in Nat
  OBVIOUS
<1>2. m % n \in 0 .. n - 1
  OBVIOUS
<1>3. m % n = m - n * (m \div n)
  OBVIOUS
<1> QED
  BY <1>1, <1>2, <1>3

LEMMA DataTypes ==
    ASSUME NEW s \in [req : Nat, file : Files, block : Nat]
    PROVE  Data(s) \in Datas /\ Data(s) \in Answers
<1>1. /\ s.block % U16 \in 0 .. U16 - 1 /\ SizeOf[s.file] % BlockSize \in Nat /\ BlockSize \in Nat
      /\ s.req \in Nat
  <2>1. s.block \in Nat /\ s.req \in Nat /\ s.file \in Files
    OBVIOUS
  <2>2. U16 \in Nat \ {0} /\ BlockSize \in Nat \ {0} /\ SizeOf[s.file] \in Nat
    BY <2>1, TftpConstants
  <2>3. s.block % U16 \in 0 .. U16 - 1
    BY <2>1, <2>2, Division
  <2>4. SizeOf[s.file] % BlockSize \in 0 .. BlockSize - 1
    BY <2>2, Division
  <2> QED
    BY <2>1, <2>2, <2>3, <2>4
<1> DEFINE z == IF s.block < LastBlock(s.file) THEN BlockSize
                ELSE IF s.block = LastBlock(s.file) THEN SizeOf[s.file] % BlockSize ELSE 0
<1>2. z \in Nat
  BY <1>1
<1>3. Data(s) = [type |-> "data", req |-> s.req, block |-> s.block % U16, size |-> z]
  BY DEF Data
<1> HIDE DEF z
<1> QED
  BY <1>1, <1>2, <1>3 DEF Datas, Answers

----------------------------------------------------------------------------
(* Types *)

LEMMA InitTypes == Init => Types
<1> SUFFICES ASSUME Init PROVE Types
  OBVIOUS
<1> USE TftpConstants DEF Init
<1>1. CallerTypes
  BY DEF CallerTypes, Phases
<1>2. TransferTypes
  <2>1. 0 \in 0 .. U16 - 1
    OBVIOUS
  <2> QED
    BY <2>1 DEF TransferTypes
<1>3. NetTypes
  BY DEF NetTypes
<1> QED
  BY <1>1, <1>2, <1>3 DEF Types

LEMMA NextCallerTypes ==
    ASSUME Types, [Next]_vars
    PROVE  CallerTypes'
<1> USE DEF CallerTypes, Phases, Building
<1>0. CallerTypes /\ tftpFileSize \in Nat
  BY DEF Types, TransferTypes
<1>1. CASE UNCHANGED caller
  BY <1>0, <1>1 DEF caller
<1>2. ASSUME NEW f \in {"TFTP_GetFile", "TFTP_GetFileSize"}, NEW file \in Files,
             NEW limit \in Limits \cup {0}, Call(f, file, limit)
      PROVE  CallerTypes'
  <2>1. /\ pc' = "wait_old" /\ result' = None
        /\ call' = [by |-> f, file |-> file, limit |-> limit, number |-> call.number + 1]
    BY <1>2 DEF Call
  <2>2. call.number + 1 \in Nat
    BY <1>0
  <2> QED
    BY <1>0, <2>1, <2>2
<1>3. ASSUME NEW to \in Phases \ {"idle"}, pc' = to, pc # "idle", UNCHANGED <<call, result>>
      PROVE  CallerTypes'
  BY <1>0, <1>3
<1>4. CASE Main
  <2>1. CASE Fail \/ ReadSize
    <3>1. pc' = "idle" /\ UNCHANGED call /\ result' \in [ok : BOOLEAN, size : Nat]
      <4>1. CASE Fail
        BY <4>1 DEF Fail, Return
      <4>2. CASE ReadSize
        BY <1>0, <4>2 DEF ReadSize, Return
      <4> QED
        BY <2>1, <4>1, <4>2
    <3> QED
      BY <1>0, <3>1
  <2>2. CASE ~ (Fail \/ ReadSize)
    <3>1. pc' \in Phases \ {"idle"} /\ pc # "idle" /\ UNCHANGED <<call, result>>
      BY <1>4, <2>2 DEF Main, WaitOld, SetUp, Start, FirstBlock, NoSize, NoError, Create, Fill, Send,
                        Wait, Check, Step
    <3> QED
      BY <1>3, <3>1
  <2> QED
    BY <2>1, <2>2
<1>5. CASE Receive
  BY <1>1, <1>5 DEF Receive, ReceiveTooBig, ReceiveUnexpected, ReceiveBlock, ReceiveError,
                    ReceiveOptionAck, Take, caller
<1>6. CASE ServeRequest \/ ServeAck \/ Repeat \/ Lose
  BY <1>1, <1>6 DEF ServeRequest, ServeAck, Repeat, Lose, local, caller
<1>7. CASE UNCHANGED vars
  BY <1>1, <1>7 DEF vars
<1> QED
  BY <1>2, <1>4, <1>5, <1>6, <1>7 DEF Next

LEMMA NextTransferTypes ==
    ASSUME Types, [Next]_vars
    PROVE  TransferTypes'
<1> USE TftpConstants DEF TransferTypes
<1>0. TransferTypes /\ call.limit \in Limits \cup {0}
  BY DEF Types, CallerTypes
<1>1. CASE UNCHANGED <<transfer, setup>> /\ crossed' \in BOOLEAN
  BY <1>0, <1>1 DEF transfer, setup
<1>2. ASSUME NEW f, NEW file, NEW limit, Call(f, file, limit)
      PROVE  TransferTypes'
  BY <1>1, <1>2 DEF Call
<1>3. CASE WaitOld \/ Create \/ Fill \/ Send \/ Fail \/ Check \/ ReadSize
  BY <1>0, <1>1, <1>3 DEF WaitOld, Create, Fill, Send, Fail, Check, ReadSize, Return, Step
<1>4. CASE SetUp
  BY <1>0, <1>4 DEF SetUp, Step, transfer
<1>5. CASE Start \/ FirstBlock \/ NoSize \/ NoError
  <2>1. 1 \in 0 .. U16 - 1
    OBVIOUS
  <2>2. UNCHANGED setup /\ UNCHANGED crossed
    BY <1>5 DEF Start, FirstBlock, NoSize, NoError, Step
  <2>3. CASE Start
    BY <1>0, <2>2, <2>3 DEF Start, setup
  <2>4. CASE FirstBlock
    BY <1>0, <2>1, <2>2, <2>4 DEF FirstBlock, setup
  <2>5. CASE NoSize
    BY <1>0, <2>2, <2>5 DEF NoSize, setup
  <2>6. CASE NoError
    BY <1>0, <2>2, <2>6 DEF NoError, setup
  <2> QED
    BY <1>5, <2>3, <2>4, <2>5, <2>6
<1>6. CASE Wait
  BY <1>0, <1>6 DEF Wait, Step, transfer
<1>7. ASSUME NEW p \in toClient, Take(p)
      PROVE  UNCHANGED setup /\ crossed' \in BOOLEAN
  BY <1>0, <1>7 DEF Take
<1>8. CASE UNCHANGED setup /\ crossed' \in BOOLEAN /\ Abort
  BY <1>0, <1>8 DEF setup, Abort
<1>9. ASSUME NEW p \in toClient, ReceiveBlock(p)
      PROVE  TransferTypes'
  <2>1. p.size \in Nat
    BY <1>9, Kinds, PacketTypes DEF ReceiveBlock, Types, NetTypes
  <2>2. /\ tftpFileSize' = tftpFileSize + p.size
        /\ currentBlockNumber' = (currentBlockNumber + 1) % U16 /\ virtualBoxBlockNumber' = currentBlockNumber'
        /\ transferInProgress' \in BOOLEAN /\ UNCHANGED transferError
    BY <1>0, <1>9 DEF ReceiveBlock
  <2>3. currentBlockNumber' \in 0 .. U16 - 1
    BY <1>0, <2>2, Division
  <2>4. UNCHANGED setup /\ crossed' \in BOOLEAN
    BY <1>7, <1>9 DEF ReceiveBlock
  <2> QED
    BY <1>0, <2>1, <2>2, <2>3, <2>4 DEF setup
<1>10. CASE Receive
  BY <1>1, <1>7, <1>8, <1>9, <1>10
  DEF Receive, ReceiveTooBig, ReceiveUnexpected, ReceiveError, ReceiveOptionAck
<1>11. CASE ServeRequest \/ ServeAck \/ Repeat \/ Lose
  BY <1>0, <1>1, <1>11 DEF ServeRequest, ServeAck, Repeat, Lose, local
<1>12. CASE UNCHANGED vars
  BY <1>0, <1>1, <1>12 DEF vars
<1> QED
  BY <1>2, <1>3, <1>4, <1>5, <1>6, <1>10, <1>11, <1>12 DEF Next, Main

LEMMA NextNetTypes ==
    ASSUME Types, [Next]_vars
    PROVE  NetTypes'
<1> USE DEF NetTypes
<1>0. NetTypes /\ CallerTypes
  BY DEF Types
<1>1. CASE UNCHANGED <<packetBuffer, session, toServer, toClient>> /\ pc' # "send"
  BY <1>0, <1>1
<1>2. ASSUME NEW f, NEW file, NEW limit, Call(f, file, limit)
      PROVE  NetTypes'
  BY <1>1, <1>2 DEF Call, network
<1>3. CASE WaitOld \/ SetUp \/ Start \/ FirstBlock \/ NoSize \/ NoError \/ Wait \/ Check \/ Fail \/ ReadSize
  BY <1>1, <1>3 DEF WaitOld, SetUp, Start, FirstBlock, NoSize, NoError, Wait, Check, Fail, ReadSize,
                    Return, Step, network
<1>4. CASE Create
  <2>1. Rrq \in Sent
    BY <1>0, <1>4, RrqTypes DEF Create, Step
  <2>2. packetBuffer' = [packetBuffer EXCEPT !.head = Rrq] /\ pc' = "fill"
        /\ UNCHANGED <<session, toServer, toClient>>
    BY <1>4 DEF Create, Step, network
  <2> QED
    BY <1>0, <2>1, <2>2
<1>5. CASE Fill
  <2>1. Rrq \in Sent
    BY <1>0, <1>5, RrqTypes DEF Fill, Step
  <2>2. packetBuffer' = [packetBuffer EXCEPT !.body = Rrq]
        /\ UNCHANGED <<session, toServer, toClient>>
    BY <1>5 DEF Fill, Step, network
  <2> QED
    BY <1>0, <2>1, <2>2
<1>6. CASE Send
  <2>1. /\ toServer' \subseteq toServer \cup {packetBuffer.body} /\ packetBuffer.body \in Sent
        /\ pc' = "wait" /\ UNCHANGED <<packetBuffer, session, toClient>>
    BY <1>0, <1>6 DEF Send, Step
  <2> QED
    BY <1>0, <2>1
<1>7. ASSUME NEW p \in toClient, Take(p)
      PROVE  /\ toClient' \subseteq Answers /\ UNCHANGED <<session, pc>>
             /\ p \in Answers /\ p.req \in Nat
  BY <1>0, <1>7, Kinds DEF Take, caller
<1>8. ASSUME NEW b \in 0 .. U16 - 1, NEW r \in Nat, SendAck(b, r), UNCHANGED <<session, pc>>,
             toClient' \subseteq Answers
      PROVE  NetTypes'
  <2>1. Ack(b, r) \in Sent
    BY AckTypes
  <2> QED
    BY <1>0, <1>8, <2>1 DEF SendAck
<1>9. ASSUME NEW p \in toClient, ReceiveTooBig(p) \/ ReceiveBlock(p)
      PROVE  NetTypes'
  <2>1. Take(p) /\ SendAck(p.block, p.req) /\ p.type = "data"
    BY <1>9 DEF ReceiveTooBig, ReceiveBlock
  <2>2. p.block \in 0 .. U16 - 1
    BY <1>7, <2>1, Kinds, PacketTypes
  <2> QED
    BY <1>7, <1>8, <2>1, <2>2
<1>10. ASSUME NEW p \in toClient, ReceiveOptionAck(p)
       PROVE  NetTypes'
  <2>1. Take(p) /\ SendAck(0, p.req) /\ 0 \in 0 .. U16 - 1
    BY <1>10, TftpConstants DEF ReceiveOptionAck
  <2> QED
    BY <1>7, <1>8, <2>1
<1>11. ASSUME NEW p \in toClient, ReceiveUnexpected(p) \/ ReceiveError(p)
       PROVE  NetTypes'
  BY <1>0, <1>7, <1>11 DEF ReceiveUnexpected, ReceiveError
<1>12. CASE Receive
  BY <1>9, <1>10, <1>11, <1>12 DEF Receive
<1>13. CASE ServeRequest
  <2>1. PICK r \in {p \in toServer : p.type = "rrq"} :
           /\ Arrives(r)
           /\ LET first == [req |-> r.req, file |-> r.file, block |-> 1]
              IN  \/ session' = first /\ Reply({Data(first)})
                  \/ /\ session' = [first EXCEPT !.block = 0]
                     /\ Reply({[type |-> "oack", req |-> r.req]})
                  \/ session' = None /\ Reply({[type |-> "error", req |-> r.req]})
    BY <1>13 DEF ServeRequest
  <2> DEFINE first == [req |-> r.req, file |-> r.file, block |-> 1]
  <2>2. r.req \in Nat /\ r.file \in Files
    BY <1>0, Kinds, PacketTypes
  <2>3. first \in [req : Nat, file : Files, block : Nat]
        /\ [first EXCEPT !.block = 0] \in [req : Nat, file : Files, block : Nat]
    BY <2>2
  <2>4. /\ Data(first) \in Answers
        /\ [type |-> "oack", req |-> r.req] \in Answers /\ [type |-> "error", req |-> r.req] \in Answers
    BY <2>2, <2>3, DataTypes DEF Answers, Others
  <2>5. /\ toServer' \subseteq toServer /\ UNCHANGED <<packetBuffer, pc>>
    BY <1>13, <2>1 DEF Arrives, ServeRequest, local, caller
  <2> HIDE DEF first
  <2>6. (session' # None => session' \in [req : Nat, file : Files, block : Nat]) /\ toClient' \subseteq Answers
    BY <1>0, <2>1, <2>3, <2>4 DEF Reply, first
  <2> QED
    BY <1>0, <2>5, <2>6
<1>14. CASE ServeAck
  <2>1. PICK a \in {p \in toServer : p.type = "ack"} :
           /\ Arrives(a)
           /\ LET next == [session EXCEPT !.block = @ + 1]
              IN  IF ~ Matches(a)
                  THEN UNCHANGED <<session, toClient>>
                  ELSE IF session.block < LastBlock(session.file)
                  THEN session' = next /\ Reply({Data(next)})
                  ELSE session' = None /\ (Reply({}) \/ Reply({Data(next)}))
    BY <1>14 DEF ServeAck
  <2> DEFINE next == [session EXCEPT !.block = @ + 1]
  <2>2. /\ toServer' \subseteq toServer /\ UNCHANGED <<packetBuffer, pc>>
    BY <1>14, <2>1 DEF Arrives, ServeAck, local, caller
  <2>3. CASE ~ Matches(a)
    BY <1>0, <2>1, <2>2, <2>3
  <2>4. CASE Matches(a)
    <3>1. session \in [req : Nat, file : Files, block : Nat]
      BY <1>0, <2>4 DEF Matches
    <3>2. next \in [req : Nat, file : Files, block : Nat]
      BY <3>1
    <3>3. Data(next) \in Answers
      BY <3>2, DataTypes
    <3> HIDE DEF next
    <3>4. (session' # None => session' \in [req : Nat, file : Files, block : Nat]) /\ toClient' \subseteq Answers
      BY <1>0, <2>1, <2>4, <3>2, <3>3 DEF Reply, next
    <3> QED
      BY <1>0, <2>2, <3>4
  <2> QED
    BY <2>3, <2>4
<1>15. CASE Repeat
  <2>1. Data(session) \in Answers
    BY <1>0, <1>15, DataTypes DEF Repeat
  <2>2. toClient' = toClient \cup {Data(session)} /\ UNCHANGED <<packetBuffer, pc, session, toServer>>
    BY <1>15 DEF Repeat, Reply, local, caller
  <2> QED
    BY <1>0, <2>1, <2>2
<1>16. CASE Lose
  BY <1>0, <1>16 DEF Lose, local, caller
<1>17. CASE UNCHANGED vars
  BY <1>0, <1>17 DEF vars, caller, network
<1> QED
  BY <1>2, <1>3, <1>4, <1>5, <1>6, <1>12, <1>13, <1>14, <1>15, <1>16, <1>17 DEF Next, Main

LEMMA NextTypes ==
    ASSUME Types, [Next]_vars
    PROVE  Types'
  BY NextCallerTypes, NextTransferTypes, NextNetTypes DEF Types

----------------------------------------------------------------------------
(* The caller's buffer *)

LEMMA InitLimit == Init => LimitInv
  BY DEF Init, LimitInv, ReportedFits, SetUpDone, Counting

LEMMA CallFields ==
    ASSUME Types
    PROVE  /\ tftpFileSize \in Nat /\ call.limit \in Nat
           /\ pc # "idle" => call.by \in {"TFTP_GetFile", "TFTP_GetFileSize"}
<1>1. call.limit \in Limits \cup {0}
  BY DEF Types, CallerTypes
<1>2. call.limit \in Nat
  <2>1. \A l \in Limits : l \in Nat
    BY TftpConstants
  <2>2. 0 \in Nat
    OBVIOUS
  <2> QED
    BY <1>1, <2>1, <2>2
<1>3. tftpFileSize \in Nat
  BY DEF Types, TransferTypes
<1>4. pc # "idle" => call.by \in {"TFTP_GetFile", "TFTP_GetFileSize"}
  BY DEF Types, CallerTypes
<1> QED
  BY <1>2, <1>3, <1>4

LEMMA NextLimit ==
    ASSUME Types, LimitInv, [Next]_vars
    PROVE  LimitInv'
<1> USE DEF LimitInv, ReportedFits, SetUpDone, Counting
<1>0. /\ tftpFileSize \in Nat /\ call.limit \in Nat
      /\ pc # "idle" => call.by \in {"TFTP_GetFile", "TFTP_GetFileSize"}
  BY CallFields
<1>1. CASE UNCHANGED <<determiningFileSize, tftpFileBufferSize, tftpFileSize, pc, call, result>>
  BY <1>1
<1>2. ASSUME NEW f, NEW file, NEW limit, Call(f, file, limit)
      PROVE  LimitInv'
  <2>1. pc = "idle" /\ pc' = "wait_old" /\ result' = None /\ UNCHANGED determiningFileSize
    BY <1>2 DEF Call, setup
  <2> QED
    BY <2>1
<1>3. CASE WaitOld
  BY <1>3 DEF WaitOld, Step, setup, transfer
<1>4. CASE SetUp
  <2>1. pc = "set_up" /\ pc' = "start" /\ UNCHANGED <<tftpFileSize, call, result>>
    BY <1>4 DEF SetUp, Step, transfer
  <2>2. CASE call.by = "TFTP_GetFile"
    BY <1>0, <1>4, <2>1, <2>2 DEF SetUp
  <2>3. CASE call.by = "TFTP_GetFileSize"
    BY <1>0, <1>4, <2>1, <2>3 DEF SetUp
  <2> QED
    BY <1>0, <2>1, <2>2, <2>3
<1>5. CASE Start \/ FirstBlock \/ NoError \/ Create \/ Fill \/ Send
  BY <1>5 DEF Start, FirstBlock, NoError, Create, Fill, Send, Step, setup, transfer
<1>6. CASE NoSize
  BY <1>0, <1>6 DEF NoSize, Step, setup
<1>7. CASE Wait
  BY <1>7 DEF Wait, Step, transfer
<1>8. CASE Check
  BY <1>8 DEF Check, Step, setup, transfer
<1>9. CASE Fail
  <2>1. pc' = "idle" /\ pc = "check" /\ result' = [ok |-> FALSE, size |-> 0]
        /\ UNCHANGED <<determiningFileSize, tftpFileBufferSize, tftpFileSize, call>>
    BY <1>9 DEF Fail, Return, setup, transfer
  <2> QED
    BY <2>1
<1>10. CASE ReadSize
  <2>1. pc' = "idle" /\ pc = "read_size" /\ result' = [ok |-> TRUE, size |-> tftpFileSize]
        /\ UNCHANGED <<determiningFileSize, tftpFileBufferSize, tftpFileSize, call>>
    BY <1>10 DEF ReadSize, Return, setup, transfer
  <2> QED
    BY <2>1
<1>11. ASSUME NEW p \in toClient, ReceiveBlock(p)
       PROVE  LimitInv'
  <2>1. /\ tftpFileSize' = tftpFileSize + p.size
        /\ ~ determiningFileSize => ~ (tftpFileSize + p.size > tftpFileBufferSize)
        /\ UNCHANGED <<determiningFileSize, tftpFileBufferSize, pc, call, result>>
    BY <1>11 DEF ReceiveBlock, TooBig, Take, setup, caller
  <2>2. p.size \in Nat
    BY <1>11, Kinds, PacketTypes DEF ReceiveBlock, Types, NetTypes
  <2> QED
    BY <1>0, <2>1, <2>2
<1>12. CASE Receive
  BY <1>1, <1>11, <1>12
  DEF Receive, ReceiveTooBig, ReceiveUnexpected, ReceiveError, ReceiveOptionAck, Take, Abort, setup,
      caller, transfer
<1>13. CASE ServeRequest \/ ServeAck \/ Repeat \/ Lose
  BY <1>1, <1>13 DEF ServeRequest, ServeAck, Repeat, Lose, local, setup, caller, transfer
<1>14. CASE UNCHANGED vars
  BY <1>1, <1>14 DEF vars, setup, caller, transfer
<1> QED
  BY <1>2, <1>3, <1>4, <1>5, <1>6, <1>7, <1>8, <1>9, <1>10, <1>12, <1>13, <1>14 DEF Next, Main

----------------------------------------------------------------------------
(* What packets of the running call carry *)

LEMMA InitNet == Init => NetInv
<1> SUFFICES ASSUME Init PROVE NetInv
  OBVIOUS
<1>1. toServer = {} /\ toClient = {} /\ session = None /\ pc = "idle"
  BY DEF Init
<1> QED
  BY <1>1 DEF NetInv

LEMMA FileNumbers ==
    ASSUME NEW f \in Files
    PROVE  /\ LastBlock(f) \in Nat \ {0}
           /\ SizeOf[f] = BlockSize * (LastBlock(f) - 1) + (SizeOf[f] % BlockSize)
           /\ SizeOf[f] % BlockSize \in 0 .. BlockSize - 1
           /\ BlockSize \in Nat \ {0} /\ SizeOf[f] \in Nat
<1> DEFINE q == SizeOf[f] \div BlockSize
           r == SizeOf[f] % BlockSize
<1>1. SizeOf[f] \in Nat /\ BlockSize \in Nat \ {0}
  BY TftpConstants
<1>2. q \in Nat /\ r \in 0 .. BlockSize - 1 /\ r = SizeOf[f] - BlockSize * q
  BY <1>1, Division
<1>3. LastBlock(f) = q + 1
  BY DEF LastBlock
<1> HIDE DEF q, r
<1>4. LastBlock(f) - 1 = q
  BY <1>2, <1>3
<1>5. BlockSize * q \in Nat
  BY <1>1, <1>2
<1>6. SizeOf[f] = BlockSize * q + r
  BY <1>1, <1>2, <1>5
<1> QED
  BY <1>1, <1>2, <1>3, <1>4, <1>6 DEF r

LEMMA SmallMod ==
    ASSUME NEW b \in Nat, NEW m \in Nat \ {0}, b < m
    PROVE  b % m = b
  OBVIOUS

LEMMA KeepOK ==
    ASSUME UNCHANGED call, pc' \in Building => pc \in Building
    PROVE  /\ \A r : Fresh(r) => Fresh(r)'
           /\ \A p : ServerOK(p) => ServerOK(p)'
           /\ \A p : ClientOK(p) => ClientOK(p)'
           /\ \A p : SessionOK(p) => SessionOK(p)'
           /\ \A p : BufferOK(p) => BufferOK(p)'
  BY DEF Fresh, ServerOK, ClientOK, SessionOK, BufferOK, OfCall

(* A block of the file that was asked for. *)
LEMMA DataOK ==
    ASSUME SmallFiles, Types, NEW s \in [req : Nat, file : Files, block : Nat], Fresh(s.req),
           OfCall(s) => s.file = call.file /\ s.block \in 1 .. LastBlock(call.file) + 1
    PROVE  ClientOK(Data(s))
<1>1. Data(s).req = s.req /\ Data(s).block = s.block % U16 /\ Data(s).size = SizeAt(s.file, s.block)
  BY DEF Data, SizeAt
<1>2. ASSUME OfCall(s)
      PROVE  Data(s).block = s.block
  <2>1. s.file \in Files /\ s.block \in Nat /\ s.block <= LastBlock(s.file) + 1
    BY <1>2, FileNumbers
  <2>2. LastBlock(s.file) \in Nat /\ LastBlock(s.file) + 2 < U16 /\ U16 \in Nat \ {0}
    BY <2>1, FileNumbers, TftpConstants DEF SmallFiles
  <2>3. s.block < U16
    BY <2>1, <2>2
  <2> QED
    BY <1>1, <2>1, <2>2, <2>3, SmallMod
<1> QED
  BY <1>1, <1>2 DEF ClientOK, OfCall

LEMMA NextNet ==
    ASSUME SmallFiles, Types, NetInv, [Next]_vars
    PROVE  NetInv'
<1>0. NetTypes /\ CallerTypes /\ call.number \in Nat
  BY DEF Types, CallerTypes
<1>1. ASSUME UNCHANGED call, pc' \in Building => pc \in Building,
             toServer' \subseteq toServer, toClient' \subseteq toClient, UNCHANGED <<session, packetBuffer>>,
             pc' = "send" => pc = "send"
      PROVE  NetInv'
  BY <1>1, KeepOK DEF NetInv
<1>2. ASSUME NEW f, NEW file, NEW limit, Call(f, file, limit)
      PROVE  NetInv'
  <2>1. /\ call'.number = call.number + 1 /\ pc' # "send"
        /\ UNCHANGED <<session, packetBuffer, toServer, toClient>>
    BY <1>2 DEF Call, network
  <2>2. \A r \in Nat : r <= call.number => Fresh(r)' /\ r # call'.number
    BY <1>0, <2>1 DEF Fresh
  <2>3. /\ \A p \in toServer : p.req \in Nat /\ p.req <= call.number
        /\ \A p \in toClient : p.req \in Nat /\ p.req <= call.number
        /\ session # None => session.req \in Nat /\ session.req <= call.number
    BY <1>0, Kinds DEF NetTypes, NetInv, ServerOK, ClientOK, SessionOK, Fresh
  <2>4. /\ \A p \in toServer : ServerOK(p)'
        /\ \A p \in toClient : ClientOK(p)'
    BY <2>2, <2>3 DEF ServerOK, ClientOK, OfCall
  <2>5. session # None => SessionOK(session)'
    BY <2>1, <2>2, <2>3 DEF SessionOK, OfCall
  <2> QED
    BY <2>1, <2>4, <2>5 DEF NetInv
<1>3. CASE WaitOld \/ SetUp \/ Start \/ FirstBlock \/ NoSize \/ NoError \/ Wait \/ Check
  BY <1>1, <1>3 DEF WaitOld, SetUp, Start, FirstBlock, NoSize, NoError, Wait, Check, Step, network, Building
<1>4. CASE Fail \/ ReadSize
  BY <1>1, <1>4 DEF Fail, ReadSize, Return, network, Building
<1>5. CASE Create
  <2>1. /\ UNCHANGED <<call, session, toServer, toClient>> /\ pc \in Building
        /\ pc' = "fill"
    BY <1>5 DEF Create, Step, network, Building
  <2> QED
    BY <2>1, KeepOK DEF NetInv
<1>6. CASE Fill
  <2>1. /\ UNCHANGED <<call, session, toServer, toClient>> /\ pc \in Building
        /\ packetBuffer'.body = Rrq /\ pc' = "send"
    BY <1>0, <1>6 DEF Fill, Step, network, NetTypes, Building
  <2>2. BufferOK(Rrq)
    BY <1>0 DEF BufferOK, Rrq, OfCall
  <2>3. BufferOK(packetBuffer.body)'
    BY <2>1, <2>2 DEF BufferOK, OfCall, Rrq, Fresh
  <2> QED
    BY <2>1, <2>3, KeepOK DEF NetInv
<1>7. CASE Send
  <2>1. /\ UNCHANGED <<call, session, packetBuffer, toClient>> /\ pc' = "wait" /\ pc = "send"
        /\ toServer' \subseteq toServer \cup {packetBuffer.body}
    BY <1>7 DEF Send, Step
  <2>2. packetBuffer.body \in Sent /\ BufferOK(packetBuffer.body)
    BY <1>0, <2>1 DEF NetTypes, NetInv
  <2>3. ServerOK(packetBuffer.body)'
    BY <2>1, <2>2 DEF ServerOK, BufferOK, OfCall, Fresh, Building
  <2>4. pc' \in Building => pc \in Building
    BY <2>1 DEF Building
  <2> QED
    BY <2>1, <2>2, <2>3, <2>4, KeepOK DEF NetInv
<1>8. ASSUME NEW p \in toClient, Take(p), NEW b \in 0 .. U16 - 1, SendAck(b, p.req)
      PROVE  NetInv'
  <2>1. UNCHANGED <<call, pc, session>> /\ toClient' \subseteq toClient
    BY <1>8 DEF Take, caller
  <2>2. Fresh(p.req) /\ p.req \in Nat
    BY <1>0, Kinds DEF NetInv, ClientOK, NetTypes
  <2>3. ServerOK(Ack(b, p.req)) /\ BufferOK(Ack(b, p.req))
    BY <2>2 DEF ServerOK, BufferOK, Ack, OfCall, Fresh
  <2>4. toServer' = toServer \cup {Ack(b, p.req)} /\ packetBuffer'.body = Ack(b, p.req)
    BY <1>8 DEF SendAck
  <2>5. BufferOK(packetBuffer.body)'
    BY <2>1, <2>3, <2>4 DEF BufferOK, OfCall, Fresh
  <2> QED
    BY <2>1, <2>3, <2>4, <2>5, KeepOK DEF NetInv
<1>9. ASSUME NEW p \in toClient, ReceiveTooBig(p) \/ ReceiveBlock(p)
      PROVE  NetInv'
  <2>1. Take(p) /\ SendAck(p.block, p.req) /\ p.type = "data"
    BY <1>9 DEF ReceiveTooBig, ReceiveBlock
  <2>2. p.block \in 0 .. U16 - 1
    BY <1>0, <2>1, Kinds, PacketTypes DEF NetTypes
  <2> QED
    BY <1>8, <2>1, <2>2
<1>10. ASSUME NEW p \in toClient, ReceiveOptionAck(p)
       PROVE  NetInv'
  <2>1. Take(p) /\ SendAck(0, p.req) /\ 0 \in 0 .. U16 - 1
    BY <1>10, TftpConstants DEF ReceiveOptionAck
  <2> QED
    BY <1>8, <2>1
<1>11. ASSUME NEW p \in toClient, ReceiveUnexpected(p) \/ ReceiveError(p)
       PROVE  NetInv'
  BY <1>1, <1>11 DEF ReceiveUnexpected, ReceiveError, Take, caller
<1>12. CASE Receive
  BY <1>9, <1>10, <1>11, <1>12 DEF Receive
<1>13. CASE ServeRequest
  <2>1. PICK r \in {p \in toServer : p.type = "rrq"} :
           /\ Arrives(r)
           /\ LET first == [req |-> r.req, file |-> r.file, block |-> 1]
              IN  \/ session' = first /\ Reply({Data(first)})
                  \/ /\ session' = [first EXCEPT !.block = 0]
                     /\ Reply({[type |-> "oack", req |-> r.req]})
                  \/ session' = None /\ Reply({[type |-> "error", req |-> r.req]})
    BY <1>13 DEF ServeRequest
  <2> DEFINE first == [req |-> r.req, file |-> r.file, block |-> 1]
             zero == [first EXCEPT !.block = 0]
  <2>2. r.req \in Nat /\ r.file \in Files /\ Fresh(r.req) /\ (OfCall(r) => r.file = call.file)
    BY <1>0, Kinds, PacketTypes DEF NetTypes, NetInv, ServerOK
  <2>3. first \in [req : Nat, file : Files, block : Nat] /\ LastBlock(r.file) \in Nat \ {0}
    BY <2>2, FileNumbers
  <2>4. SessionOK(first) /\ SessionOK(zero)
    BY <2>2, <2>3 DEF SessionOK, OfCall
  <2>5. OfCall(first) => first.file = call.file /\ first.block \in 1 .. LastBlock(call.file) + 1
    BY <2>2, <2>3 DEF OfCall
  <2>6. ClientOK(Data(first))
    BY <2>2, <2>3, <2>5, DataOK
  <2>7. ClientOK([type |-> "oack", req |-> r.req]) /\ ClientOK([type |-> "error", req |-> r.req])
    BY <2>2 DEF ClientOK
  <2>8. /\ toServer' \subseteq toServer /\ UNCHANGED <<packetBuffer, pc, call>>
    BY <1>13, <2>1 DEF Arrives, ServeRequest, local, caller
  <2> HIDE DEF first, zero
  <2>9. (session' # None => SessionOK(session')) /\ \A p \in toClient' : ClientOK(p)
    BY <2>1, <2>4, <2>6, <2>7 DEF Reply, NetInv, first, zero
  <2>10. session' # None => SessionOK(session)'
    BY <2>8, <2>9 DEF SessionOK, Fresh, OfCall
  <2> QED
    BY <2>8, <2>9, <2>10, KeepOK DEF NetInv
<1>14. CASE ServeAck
  <2>1. PICK a \in {p \in toServer : p.type = "ack"} :
           /\ Arrives(a)
           /\ LET next == [session EXCEPT !.block = @ + 1]
              IN  IF ~ Matches(a)
                  THEN UNCHANGED <<session, toClient>>
                  ELSE IF session.block < LastBlock(session.file)
                  THEN session' = next /\ Reply({Data(next)})
                  ELSE session' = None /\ (Reply({}) \/ Reply({Data(next)}))
    BY <1>14 DEF ServeAck
  <2> DEFINE next == [session EXCEPT !.block = @ + 1]
  <2>2. /\ toServer' \subseteq toServer /\ UNCHANGED <<packetBuffer, pc, call>>
    BY <1>14, <2>1 DEF Arrives, ServeAck, local, caller
  <2>3. CASE ~ Matches(a)
    BY <1>1, <2>1, <2>2, <2>3
  <2>4. CASE Matches(a)
    <3>1. session \in [req : Nat, file : Files, block : Nat] /\ SessionOK(session)
      BY <1>0, <2>4 DEF Matches, NetTypes, NetInv
    <3>2. next \in [req : Nat, file : Files, block : Nat]
          /\ next.req = session.req /\ next.file = session.file /\ next.block = session.block + 1
      BY <3>1
    <3> HIDE DEF next
    <3>3. Fresh(next.req) /\ LastBlock(session.file) \in Nat /\ session.block \in Nat
      BY <3>1, <3>2, FileNumbers DEF SessionOK
    <3>4. OfCall(next) => next.file = call.file /\ next.block \in 1 .. LastBlock(call.file) + 1
      BY <3>1, <3>2, <3>3 DEF SessionOK, OfCall
    <3>5. ClientOK(Data(next))
      BY <3>2, <3>3, <3>4, DataOK
    <3>6. session.block < LastBlock(session.file) => SessionOK(next)
      BY <3>1, <3>2, <3>3 DEF SessionOK, OfCall
    <3>7. (session' # None => SessionOK(session')) /\ \A p \in toClient' : ClientOK(p)
      BY <2>1, <2>4, <3>5, <3>6 DEF Reply, NetInv, next
    <3>8. session' # None => SessionOK(session)'
      BY <2>2, <3>7 DEF SessionOK, Fresh, OfCall
    <3> QED
      BY <2>2, <3>7, <3>8, KeepOK DEF NetInv
  <2> QED
    BY <2>3, <2>4
<1>15. CASE Repeat
  <2>1. /\ session # None /\ session.block > 0 /\ toClient' = toClient \cup {Data(session)}
        /\ UNCHANGED <<packetBuffer, pc, call, session, toServer>>
    BY <1>15 DEF Repeat, Reply, local, caller
  <2>2. session \in [req : Nat, file : Files, block : Nat] /\ SessionOK(session)
    BY <1>0, <2>1 DEF NetTypes, NetInv
  <2>3. OfCall(session) => session.file = call.file /\ session.block \in 1 .. LastBlock(call.file) + 1
    <3>1. session.block \in Nat /\ LastBlock(session.file) \in Nat
      BY <2>2, FileNumbers
    <3> QED
      BY <2>1, <2>2, <3>1 DEF SessionOK
  <2>4. ClientOK(Data(session))
    BY <2>2, <2>3, DataOK DEF SessionOK
  <2> QED
    BY <2>1, <2>4, KeepOK DEF NetInv
<1>16. CASE Lose
  BY <1>1, <1>16 DEF Lose, local, caller
<1>17. CASE UNCHANGED vars
  BY <1>1, <1>17 DEF vars, caller, network
<1> QED
  BY <1>2, <1>3, <1>4, <1>5, <1>6, <1>7, <1>12, <1>13, <1>14, <1>15, <1>16, <1>17 DEF Next, Main

----------------------------------------------------------------------------
(* What is counted *)

LEMMA InitCount == Init => CountInv /\ AckInv
<1> SUFFICES ASSUME Init PROVE CountInv /\ AckInv
  OBVIOUS
<1>1. pc = "idle" /\ result = None
  BY DEF Init
<1> QED
  BY <1>1 DEF CountInv, AckInv, Started, Running, AtOne, AtZero, Receiving, WholeFile

(* What a call takes without being crossed is an answer to its own request, *)
(* and none comes while the request is being built.                         *)
LEMMA OwnPacket ==
    ASSUME Types, NetInv, NEW p \in toClient, Take(p), ~ crossed'
    PROVE  /\ ~ crossed /\ OfCall(p) /\ UNCHANGED <<pc, call, result, session>>
           /\ pc \notin Building
           /\ p.type = "data" => /\ p.block \in 1 .. LastBlock(call.file) + 1
                                 /\ p.size = SizeAt(call.file, p.block)
<1>1. ~ crossed /\ p.req = call.number /\ UNCHANGED <<pc, call, result, session>>
  BY DEF Take, caller
<1>2. ClientOK(p)
  BY DEF NetInv
<1>3. pc \notin Building
  <2>1. call.number \in Nat
    BY DEF Types, CallerTypes
  <2> QED
    BY <1>1, <1>2, <2>1 DEF ClientOK, Fresh
<1> QED
  BY <1>1, <1>2, <1>3 DEF ClientOK, OfCall

LEMMA ReceivingFile ==
    ASSUME Types, pc \in Receiving
    PROVE  call.file \in Files
  BY DEF Types, CallerTypes, Receiving

LEMMA KeepCount ==
    ASSUME CountInv, UNCHANGED <<transfer, caller>>, crossed => crossed'
    PROVE  CountInv'
  BY DEF CountInv, Started, Counted, WholeFile, transfer, caller

(* The next block of the file is counted as it is received. *)
LEMMA NextSize ==
    ASSUME NEW f \in Files, NEW c \in 1 .. LastBlock(f) + 1
    PROVE  /\ SizeBefore(f, c) + SizeAt(f, c) = SizeBefore(f, c + 1)
           /\ SizeAt(f, c) < BlockSize <=> c + 1 > LastBlock(f)
<1>1. /\ LastBlock(f) \in Nat \ {0} /\ SizeOf[f] \in Nat /\ BlockSize \in Nat \ {0}
      /\ SizeOf[f] = BlockSize * (LastBlock(f) - 1) + (SizeOf[f] % BlockSize)
      /\ SizeOf[f] % BlockSize \in 0 .. BlockSize - 1
  BY FileNumbers
<1>2. CASE c < LastBlock(f)
  <2>1. SizeBefore(f, c) = BlockSize * (c - 1) /\ SizeAt(f, c) = BlockSize
    BY <1>1, <1>2 DEF SizeBefore, SizeAt
  <2>2. SizeBefore(f, c + 1) = BlockSize * ((c + 1) - 1) /\ c + 1 <= LastBlock(f)
    BY <1>1, <1>2 DEF SizeBefore
  <2>3. BlockSize * ((c + 1) - 1) = BlockSize * (c - 1) + BlockSize
    BY <1>1
  <2>4. ~ (SizeAt(f, c) < BlockSize) /\ ~ (c + 1 > LastBlock(f))
    BY <1>1, <1>2, <2>1, <2>2
  <2> QED
    BY <2>1, <2>2, <2>3, <2>4
<1>3. CASE c = LastBlock(f)
  <2>1. SizeBefore(f, c) = BlockSize * (LastBlock(f) - 1) /\ SizeAt(f, c) = SizeOf[f] % BlockSize
    BY <1>1, <1>3 DEF SizeBefore, SizeAt
  <2>2. SizeBefore(f, c + 1) = SizeOf[f] /\ c + 1 > LastBlock(f)
    BY <1>1, <1>3 DEF SizeBefore
  <2>3. SizeOf[f] % BlockSize < BlockSize
    BY <1>1
  <2> QED
    BY <1>1, <2>1, <2>2, <2>3
<1>4. CASE c > LastBlock(f)
  <2>1. SizeBefore(f, c) = SizeOf[f] /\ SizeAt(f, c) = 0
    BY <1>1, <1>4 DEF SizeBefore, SizeAt
  <2>2. SizeBefore(f, c + 1) = SizeOf[f] /\ c + 1 > LastBlock(f)
    BY <1>1, <1>4 DEF SizeBefore
  <2> QED
    BY <1>1, <2>1, <2>2
<1> QED
  BY <1>1, <1>2, <1>3, <1>4

LEMMA AbortCount ==
    ASSUME Types, NetInv, CountInv, NEW p \in toClient, Take(p), Abort
    PROVE  CountInv'
<1> SUFFICES ASSUME ~ crossed' PROVE CountInv'
  BY DEF CountInv
<1>1. ~ crossed /\ pc \notin Building /\ UNCHANGED <<pc, call, result>>
  BY OwnPacket
<1>2. /\ transferInProgress' = FALSE /\ transferError' = TRUE
      /\ UNCHANGED <<currentBlockNumber, tftpFileSize>>
  BY DEF Abort
<1>3. Started'
  BY <1>1 DEF Started, Running, AtOne, AtZero, Building
<1>4. pc \in Receiving => Counted'
  BY <1>1, <1>2 DEF CountInv, Counted
<1> QED
  BY <1>1, <1>2, <1>3, <1>4 DEF CountInv, WholeFile

LEMMA BlockCount ==
    ASSUME SmallFiles, Types, NetInv, CountInv, NEW p \in toClient, ReceiveBlock(p)
    PROVE  CountInv'
<1> SUFFICES ASSUME ~ crossed' PROVE CountInv'
  BY DEF CountInv
<1>1. /\ ~ crossed /\ pc \notin Building /\ UNCHANGED <<pc, call, result>>
      /\ p.block \in 1 .. LastBlock(call.file) + 1 /\ p.size = SizeAt(call.file, p.block)
  BY OwnPacket DEF ReceiveBlock
<1>2. /\ p.block = currentBlockNumber
      /\ tftpFileSize' = tftpFileSize + p.size
      /\ currentBlockNumber' = (currentBlockNumber + 1) % U16
      /\ transferInProgress' = (transferInProgress /\ ~ (p.size < BlockSize))
      /\ UNCHANGED transferError
  BY DEF ReceiveBlock, Expected, IsLast
<1>3. Started'
  BY <1>1 DEF Started, Running, AtOne, AtZero, Building
<1>4. ASSUME pc \in Receiving
      PROVE  /\ Counted' /\ (currentBlockNumber > LastBlock(call.file) =>
                                currentBlockNumber' > LastBlock(call.file))
             /\ ~ transferInProgress => ~ transferInProgress'
  <2>1. call.file \in Files
    BY <1>4, ReceivingFile
  <2>2. /\ LastBlock(call.file) \in Nat /\ LastBlock(call.file) + 2 < U16 /\ U16 \in Nat \ {0}
        /\ currentBlockNumber \in 1 .. LastBlock(call.file) + 1
    BY <1>1, <1>2, <2>1, FileNumbers, TftpConstants DEF SmallFiles
  <2>3. currentBlockNumber + 1 \in Nat /\ currentBlockNumber + 1 < U16
    BY <2>2
  <2>4. currentBlockNumber' = currentBlockNumber + 1
    BY <1>2, <2>2, <2>3, SmallMod
  <2>5. /\ SizeBefore(call.file, currentBlockNumber) + p.size = SizeBefore(call.file, currentBlockNumber + 1)
        /\ p.size < BlockSize <=> currentBlockNumber + 1 > LastBlock(call.file)
    BY <1>1, <1>2, <2>1, <2>2, NextSize
  <2>6. Counted
    BY <1>1, <1>4 DEF CountInv
  <2>7. tftpFileSize' = SizeBefore(call.file, currentBlockNumber')
    BY <1>2, <2>4, <2>5, <2>6 DEF Counted
  <2> DEFINE c == currentBlockNumber
             last == LastBlock(call.file)
             short == p.size < BlockSize
  <2>12. /\ c \in Nat /\ last \in Nat /\ c \in 1 .. last + 1 /\ c' = c + 1
         /\ short \in BOOLEAN /\ transferInProgress \in BOOLEAN
         /\ transferInProgress' = (transferInProgress /\ ~ short)
         /\ short <=> c + 1 > last
         /\ c + 1 > last \/ c + 1 <= last
    BY <1>2, <2>2, <2>4, <2>5 DEF Types, TransferTypes
  <2>13. transferInProgress \/ transferError \/ c > last
    BY <2>6 DEF Counted
  <2> HIDE DEF short
  <2>8. c' \in 1 .. last + 2 /\ (transferInProgress' => c' <= last) /\ (c > last => c' > last)
    <3>1. c' \in 1 .. last + 2
      BY <2>12
    <3>2. transferInProgress' => ~ short
      BY <2>12
    <3>3. ~ short => c + 1 <= last
      BY <2>12
    <3>4. c > last => c' > last
      BY <2>12
    <3> QED
      BY <2>12, <3>1, <3>2, <3>3, <3>4
  <2>9. transferInProgress' \/ transferError' \/ c' > last
    <3>1. transferInProgress /\ ~ short => transferInProgress'
      BY <2>12
    <3>2. short => c' > last
      BY <2>12
    <3>3. transferError' = transferError
      BY <1>2
    <3> QED
      BY <2>8, <2>13, <3>1, <3>2, <3>3
  <2>10. call' = call
    BY <1>1
  <2>11. Counted'
    BY <2>7, <2>8, <2>9, <2>10 DEF Counted, SizeBefore, LastBlock
  <2>14. ~ transferInProgress => ~ transferInProgress'
    BY <2>12
  <2> QED
    BY <2>8, <2>11, <2>14
<1> QED
  BY <1>1, <1>3, <1>4 DEF CountInv, WholeFile, Receiving, LastBlock

LEMMA CallCount ==
    ASSUME NEW f, NEW file, NEW limit, Call(f, file, limit)
    PROVE  CountInv' /\ AckInv'
<1>1. pc' = "wait_old" /\ result' = None
  BY DEF Call
<1> QED
  BY <1>1 DEF CountInv, AckInv, Started, Running, AtOne, AtZero, Receiving, WholeFile

LEMMA MainCount ==
    ASSUME SmallFiles, Types, CountInv, Main
    PROVE  CountInv'
<1> SUFFICES ASSUME ~ crossed' PROVE CountInv'
  BY DEF CountInv
<1>0. ~ crossed /\ UNCHANGED call
  BY DEF Main, WaitOld, SetUp, Start, FirstBlock, NoSize, NoError, Create, Fill, Send, Wait, Fail, Check,
         ReadSize, Step, Return
<1>1. /\ Started /\ WholeFile
      /\ pc \in Receiving => Counted
      /\ pc \in {"check", "read_size"} => ~ transferInProgress
      /\ pc = "read_size" => currentBlockNumber > LastBlock(call.file)
  BY <1>0 DEF CountInv
<1>2. ASSUME pc' \notin Receiving, Started', UNCHANGED result
      PROVE  CountInv'
  BY <1>0, <1>1, <1>2 DEF CountInv, WholeFile, Receiving
<1>3. CASE WaitOld \/ SetUp
  <2>1. pc' \notin Receiving /\ pc' \notin Running /\ UNCHANGED result
    BY <1>3 DEF WaitOld, SetUp, Step, Receiving, Running
  <2> QED
    BY <1>2, <2>1 DEF Started, AtOne, AtZero
<1>4. CASE Start
  <2>1. pc' = "first_block" /\ transferInProgress' /\ UNCHANGED result
    BY <1>4 DEF Start, Step
  <2> QED
    BY <1>2, <2>1 DEF Started, AtOne, AtZero, Running, Receiving
<1>5. CASE FirstBlock
  <2>1. /\ pc' = "no_size" /\ pc = "first_block" /\ UNCHANGED <<transferInProgress, result>>
        /\ currentBlockNumber' = 1
    BY <1>5 DEF FirstBlock, Step
  <2> QED
    BY <1>1, <1>2, <2>1 DEF Started, AtOne, AtZero, Running, Receiving
<1>6. CASE NoSize
  <2>1. /\ pc' = "no_error" /\ pc = "no_size" /\ UNCHANGED <<transferInProgress, currentBlockNumber, result>>
        /\ tftpFileSize' = 0
    BY <1>6 DEF NoSize, Step
  <2> QED
    BY <1>1, <1>2, <2>1 DEF Started, AtOne, AtZero, Running, Receiving
<1>7. CASE NoError \/ Create \/ Fill
  <2>1. /\ pc' \in {"create", "fill", "send"} /\ pc \in {"no_error", "create", "fill"}
        /\ UNCHANGED <<transferInProgress, currentBlockNumber, tftpFileSize, result>>
    BY <1>7 DEF NoError, Create, Fill, Step, transfer
  <2> QED
    BY <1>1, <1>2, <2>1 DEF Started, AtOne, AtZero, Running, Receiving
<1>8. CASE Send
  <2>1. pc' = "wait" /\ pc = "send" /\ UNCHANGED <<call, result, transfer>>
    BY <1>8 DEF Send, Step
  <2>2. transferInProgress /\ currentBlockNumber = 1 /\ tftpFileSize = 0
    BY <1>1, <2>1 DEF Started, AtOne, AtZero, Running
  <2>3. call.file \in Files
    BY <2>1 DEF Types, CallerTypes
  <2>4. LastBlock(call.file) \in Nat \ {0} /\ BlockSize \in Nat
    BY <2>3, FileNumbers
  <2>5. Counted
    BY <2>2, <2>4 DEF Counted, SizeBefore
  <2>6. Counted'
    BY <2>1, <2>5 DEF Counted, SizeBefore, LastBlock, transfer
  <2>7. Started'
    BY <2>1 DEF Started, AtOne, AtZero, Running
  <2> QED
    BY <1>1, <1>0, <2>1, <2>6, <2>7 DEF CountInv, WholeFile
<1>9. CASE Wait \/ Check
  <2>1. /\ UNCHANGED <<call, result, transfer>> /\ pc \in Receiving
        /\ pc' \in {"check", "read_size"} /\ ~ transferInProgress
        /\ pc' = "read_size" => ~ transferError
    BY <1>1, <1>9 DEF Wait, Check, Step, Receiving
  <2>2. Counted
    BY <1>1, <2>1
  <2>3. Counted' /\ Started'
    BY <2>1, <2>2 DEF Counted, SizeBefore, LastBlock, transfer, Started, AtOne, AtZero, Running
  <2>4. pc' = "read_size" => currentBlockNumber > LastBlock(call.file)
    BY <2>1, <2>2 DEF Counted
  <2> QED
    BY <1>0, <1>1, <2>1, <2>3, <2>4 DEF CountInv, WholeFile, LastBlock, transfer
<1>10. CASE Fail
  <2>1. pc' = "idle" /\ result' = [ok |-> FALSE, size |-> 0]
    BY <1>10 DEF Fail, Return
  <2> QED
    BY <2>1 DEF CountInv, WholeFile, Started, AtOne, AtZero, Running, Receiving
<1>11. CASE ReadSize
  <2>1. pc = "read_size" /\ pc' = "idle" /\ result' = [ok |-> TRUE, size |-> tftpFileSize]
    BY <1>11 DEF ReadSize, Return
  <2>2. call.file \in Files
    BY <2>1, ReceivingFile DEF Receiving
  <2>3. Counted /\ currentBlockNumber > LastBlock(call.file) /\ LastBlock(call.file) \in Nat
    BY <1>1, <2>1, <2>2, FileNumbers DEF Receiving
  <2>4. tftpFileSize = SizeOf[call.file]
    BY <2>3 DEF Counted, SizeBefore
  <2> QED
    BY <1>0, <2>1, <2>4 DEF CountInv, WholeFile, Started, AtOne, AtZero, Running, Receiving
<1> QED
  BY <1>3, <1>4, <1>5, <1>6, <1>7, <1>8, <1>9, <1>10, <1>11 DEF Main

LEMMA NextCount ==
    ASSUME SmallFiles, Types, NetInv, CountInv, [Next]_vars
    PROVE  CountInv'
<1>1. ASSUME NEW p \in toClient, Take(p), UNCHANGED transfer
      PROVE  CountInv'
  BY <1>1, KeepCount DEF Take
<1>2. CASE Receive
  <2>1. PICK p \in toClient : \/ ReceiveTooBig(p) \/ ReceiveUnexpected(p) \/ ReceiveBlock(p)
                             \/ ReceiveError(p) \/ ReceiveOptionAck(p)
    BY <1>2 DEF Receive
  <2>2. CASE ReceiveBlock(p)
    BY <2>2, BlockCount
  <2>3. CASE Take(p) /\ Abort
    BY <2>3, AbortCount
  <2>4. CASE Take(p) /\ UNCHANGED transfer
    BY <1>1, <2>4
  <2>5. ReceiveBlock(p) \/ (Take(p) /\ Abort) \/ (Take(p) /\ UNCHANGED transfer)
    BY <2>1 DEF ReceiveTooBig, ReceiveUnexpected, ReceiveError, ReceiveOptionAck
  <2> QED
    BY <2>2, <2>3, <2>4, <2>5
<1>3. CASE ServeRequest \/ ServeAck \/ Repeat \/ Lose
  <2>1. UNCHANGED local /\ (crossed => crossed')
    <3>1. ServeRequest => UNCHANGED local /\ crossed' = crossed
      BY DEF ServeRequest
    <3>2. ServeAck => UNCHANGED local /\ (crossed => crossed')
      BY DEF ServeAck
    <3>3. Repeat \/ Lose => UNCHANGED local /\ crossed' = crossed
      BY DEF Repeat, Lose
    <3> QED
      BY <1>3, <3>1, <3>2, <3>3
  <2> QED
    BY <2>1, KeepCount DEF local
<1>4. CASE UNCHANGED vars
  BY <1>4, KeepCount DEF vars
<1> QED
  BY <1>2, <1>3, <1>4, CallCount, MainCount DEF Next

----------------------------------------------------------------------------
(* How far the server is *)

LEMMA NextAck ==
    ASSUME SmallFiles, Types, NetInv, CountInv, AckInv, [Next]_vars
    PROVE  AckInv'
<1> SUFFICES ASSUME ~ crossed', pc' = "wait", transferInProgress'
             PROVE  /\ \A p \in toServer' : p.type = "ack" /\ OfCall(p)' => p.block < currentBlockNumber'
                    /\ session' # None /\ OfCall(session)' => session'.block <= currentBlockNumber'
  BY DEF AckInv
<1>0. NetTypes /\ CallerTypes /\ call.number \in Nat
  BY DEF Types, CallerTypes
<1>1. ASSUME ~ crossed, pc = "wait", transferInProgress
      PROVE  /\ \A p \in toServer : p.type = "ack" /\ OfCall(p) => p.block < currentBlockNumber
             /\ session # None /\ OfCall(session) => session.block <= currentBlockNumber
             /\ currentBlockNumber \in 1 .. LastBlock(call.file) + 2
             /\ call.file \in Files /\ LastBlock(call.file) \in Nat
  <2>1. call.file \in Files
    BY <1>1, ReceivingFile DEF Receiving
  <2>2. Counted
    BY <1>1 DEF CountInv, Receiving
  <2> QED
    BY <1>1, <2>1, <2>2, FileNumbers DEF AckInv, Counted
<1>2. ASSUME ~ crossed, pc = "wait", transferInProgress, UNCHANGED <<call, session, currentBlockNumber>>,
             toServer' \subseteq toServer
      PROVE  AckInv'
  BY <1>1, <1>2 DEF AckInv, OfCall
<1>3. ASSUME NEW f, NEW file, NEW limit, Call(f, file, limit)
      PROVE  FALSE
  BY <1>3 DEF Call
<1>4. CASE Main
  <2>1. Send
    BY <1>4 DEF Main, WaitOld, SetUp, Start, FirstBlock, NoSize, NoError, Create, Fill, Wait, Fail, Check,
                ReadSize, Step, Return
  <2>2. /\ UNCHANGED <<call, session, packetBuffer>> /\ pc = "send"
        /\ toServer' \subseteq toServer \cup {packetBuffer.body}
    BY <2>1 DEF Send, Step
  <2>3. \A r \in Nat : Fresh(r) => r # call.number
    BY <1>0, <2>2 DEF Fresh, Building
  <2>4. \A p \in toServer : ~ OfCall(p)
    BY <1>0, <2>3, Kinds DEF NetTypes, NetInv, ServerOK, OfCall
  <2>5. session # None => ~ OfCall(session)
    BY <1>0, <2>3 DEF NetTypes, NetInv, SessionOK, OfCall
  <2>6. packetBuffer.body.type = "ack" => ~ OfCall(packetBuffer.body)
    BY <1>0, <2>2, <2>3, Kinds DEF NetTypes, NetInv, BufferOK, OfCall
  <2> QED
    BY <2>2, <2>4, <2>5, <2>6 DEF OfCall
<1>5. ASSUME NEW p \in toClient, Take(p)
      PROVE  /\ ~ crossed /\ OfCall(p) /\ UNCHANGED <<pc, call, result, session>>
             /\ pc = "wait"
  BY <1>5, OwnPacket
<1>6. ASSUME NEW p \in toClient, ReceiveTooBig(p) \/ ReceiveError(p)
      PROVE  FALSE
  BY <1>6 DEF ReceiveTooBig, ReceiveError, Abort
<1>7. ASSUME NEW p \in toClient, ReceiveUnexpected(p)
      PROVE  AckInv'
  <2>1. UNCHANGED transfer /\ UNCHANGED toServer
    BY <1>7 DEF ReceiveUnexpected, Abort
  <2> QED
    BY <1>2, <1>5, <1>7, <2>1 DEF ReceiveUnexpected, transfer
<1>8. ASSUME NEW p \in toClient, ReceiveOptionAck(p)
      PROVE  AckInv'
  <2>1. UNCHANGED transfer /\ toServer' = toServer \cup {Ack(0, p.req)} /\ Take(p)
    BY <1>8 DEF ReceiveOptionAck, SendAck
  <2>2. ~ crossed /\ pc = "wait" /\ transferInProgress /\ UNCHANGED <<call, session, currentBlockNumber>>
    BY <1>5, <2>1 DEF transfer
  <2>3. Ack(0, p.req).block = 0 /\ 0 < currentBlockNumber
    BY <1>1, <2>2 DEF Ack
  <2> QED
    BY <1>1, <2>1, <2>2, <2>3 DEF AckInv, OfCall
<1>9. ASSUME NEW p \in toClient, ReceiveBlock(p)
      PROVE  AckInv'
  <2>1. /\ Take(p) /\ toServer' = toServer \cup {Ack(p.block, p.req)} /\ p.block = currentBlockNumber
        /\ transferInProgress /\ currentBlockNumber' = (currentBlockNumber + 1) % U16
        /\ p.type = "data"
    BY <1>9 DEF ReceiveBlock, SendAck, Expected
  <2>2. ~ crossed /\ pc = "wait" /\ UNCHANGED <<call, session>>
    BY <1>5, <2>1
  <2>3. p.block <= LastBlock(call.file) + 1
    BY <2>1, OwnPacket
  <2>4. currentBlockNumber + 1 \in Nat /\ currentBlockNumber + 1 < U16 /\ U16 \in Nat \ {0}
    BY <1>1, <2>1, <2>2, <2>3, TftpConstants DEF SmallFiles
  <2>5. currentBlockNumber' = currentBlockNumber + 1
    BY <2>1, <2>4, SmallMod
  <2>6. Ack(p.block, p.req).block = currentBlockNumber
    BY <2>1 DEF Ack
  <2>7. \A a \in toServer : a.type = "ack" /\ OfCall(a) => a.block < currentBlockNumber + 1
    <3> SUFFICES ASSUME NEW a \in toServer, a.type = "ack", OfCall(a)
                 PROVE  a.block < currentBlockNumber + 1
      OBVIOUS
    <3>1. a.block \in Nat /\ a.block < currentBlockNumber /\ currentBlockNumber \in Nat
      BY <1>0, <1>1, <2>1, <2>2, Kinds, PacketTypes DEF NetTypes
    <3> QED
      BY <3>1
  <2>8. session # None /\ OfCall(session) => session.block <= currentBlockNumber + 1
    <3>1. session # None => session.block \in Nat
      BY <1>0 DEF NetTypes
    <3>2. currentBlockNumber \in Nat
      BY <1>1, <2>1, <2>2
    <3> QED
      BY <1>1, <2>1, <2>2, <3>1, <3>2
  <2>9. currentBlockNumber < currentBlockNumber + 1
    BY <1>1, <2>1, <2>2
  <2> QED
    BY <2>1, <2>2, <2>5, <2>6, <2>7, <2>8, <2>9 DEF AckInv, OfCall
<1>10. CASE Receive
  BY <1>6, <1>7, <1>8, <1>9, <1>10 DEF Receive, AckInv
<1>11. CASE ServeRequest
  <2>1. session' = None \/ session'.block \in {0, 1}
    BY <1>11 DEF ServeRequest
  <2>2. toServer' \subseteq toServer /\ UNCHANGED <<call, pc, transferInProgress, currentBlockNumber, crossed>>
    BY <1>11 DEF ServeRequest, Arrives, local, caller, transfer
  <2>3. currentBlockNumber >= 1 /\ currentBlockNumber \in Nat
    BY <1>1, <2>2
  <2> QED
    BY <1>1, <2>1, <2>2, <2>3 DEF OfCall
<1>12. CASE ServeAck
  <2>1. PICK a \in {p \in toServer : p.type = "ack"} :
           /\ Arrives(a)
           /\ LET next == [session EXCEPT !.block = @ + 1]
              IN  IF ~ Matches(a)
                  THEN UNCHANGED <<session, toClient>>
                  ELSE IF session.block < LastBlock(session.file)
                  THEN session' = next /\ Reply({Data(next)})
                  ELSE session' = None /\ (Reply({}) \/ Reply({Data(next)}))
           /\ crossed' = (crossed \/ (Matches(a) /\ a.req # session.req))
    BY <1>12 DEF ServeAck
  <2>2. /\ toServer' \subseteq toServer /\ UNCHANGED <<call, pc, transferInProgress, currentBlockNumber>>
        /\ ~ crossed
    BY <1>12, <2>1 DEF ServeAck, Arrives, local, caller, transfer
  <2>3. CASE UNCHANGED session
    BY <1>2, <2>2, <2>3 DEF AckInv
  <2>4. CASE Matches(a) /\ session' = [session EXCEPT !.block = @ + 1]
    <3>1. /\ session \in [req : Nat, file : Files, block : Nat] /\ SessionOK(session) /\ session # None
          /\ a.block = session.block % U16 /\ a.req = session.req
      BY <1>0, <2>1, <2>2, <2>4 DEF Matches, NetTypes, NetInv
    <3>2. session'.block = session.block + 1 /\ session'.req = session.req /\ session.block \in Nat
      BY <2>4, <3>1
    <3>3. ASSUME OfCall(session)
          PROVE  session.block + 1 <= currentBlockNumber
      <4>1. a.block < currentBlockNumber
        BY <1>1, <2>1, <2>2, <3>1, <3>3 DEF OfCall
      <4>2. session.block < U16 /\ U16 \in Nat \ {0}
        BY <1>1, <2>2, <3>1, <3>2, <3>3, TftpConstants DEF SessionOK, SmallFiles
      <4>3. a.block = session.block
        BY <3>1, <3>2, <4>2, SmallMod
      <4>4. currentBlockNumber \in Nat
        BY <1>1, <2>2
      <4> QED
        BY <3>2, <4>1, <4>3, <4>4
    <3>4. OfCall(session)' => OfCall(session)
      BY <2>2, <3>2 DEF OfCall
    <3>5. \A p \in toServer' : p.type = "ack" /\ OfCall(p)' => p.block < currentBlockNumber'
      BY <1>1, <2>2 DEF OfCall
    <3> QED
      BY <2>2, <3>2, <3>3, <3>4, <3>5
  <2>5. CASE session' = None
    <3>1. \A p \in toServer' : p.type = "ack" /\ OfCall(p)' => p.block < currentBlockNumber'
      BY <1>1, <2>2 DEF OfCall
    <3> QED
      BY <2>5, <3>1
  <2> QED
    BY <2>1, <2>3, <2>4, <2>5
<1>13. CASE Repeat \/ Lose
  BY <1>2, <1>13 DEF Repeat, Lose, local, caller, transfer, AckInv
<1>14. CASE UNCHANGED vars
  BY <1>2, <1>14 DEF vars, caller, transfer, network, AckInv
<1> QED
  BY <1>3, <1>4, <1>10, <1>11, <1>12, <1>13, <1>14 DEF Next, AckInv

----------------------------------------------------------------------------
(* The promises *)

LEMMA AlwaysTypes == Spec => []Types
  BY InitTypes, NextTypes, PTL DEF Spec

LEMMA AlwaysLimit == Spec => []LimitInv
  BY AlwaysTypes, InitLimit, NextLimit, PTL DEF Spec

(* Every variable stays in its range; in particular the mode that lets a    *)
(* block of any size through is only ever set for TFTP_GetFileSize, so it   *)
(* never leaks from that call into a TFTP_GetFile (TFTP.c:95-125).          *)
THEOREM TypesHold == Spec => []TypeOK
<1>1. Types /\ LimitInv => TypeOK
  <2> SUFFICES ASSUME Types, LimitInv PROVE TypeOK
    OBVIOUS
  <2>1. \A p \in toServer : p.type \in {"rrq", "ack"}
    BY Kinds DEF Types, NetTypes
  <2>2. \A p \in toClient : p.type \in {"data", "error", "oack"}
    BY Kinds DEF Types, NetTypes
  <2> QED
    BY <2>1, <2>2 DEF TypeOK, Types, TransferTypes, LimitInv
<1> QED
  BY <1>1, AlwaysTypes, AlwaysLimit, PTL

(* A TFTP_GetFile that returns true never reports more bytes than the       *)
(* buffer it was given holds, for files of any size and packets of earlier  *)
(* calls at any point, its own set-up included (TFTP.c:231).                *)
THEOREM NeverMoreThanBuffer == Spec => []ReportedFits
<1>1. LimitInv => ReportedFits
  BY DEF LimitInv
<1> QED
  BY <1>1, AlwaysLimit, PTL

LEMMA AlwaysCounted ==
    ASSUME SmallFiles
    PROVE  Spec => [](Types /\ NetInv /\ CountInv /\ AckInv)
<1> DEFINE Inv == Types /\ NetInv /\ CountInv /\ AckInv
<1>1. Init => Inv
  BY InitTypes, InitNet, InitCount
<1>2. Inv /\ [Next]_vars => Inv'
  BY SmallFiles, NextTypes, NextNet, NextCount, NextAck
<1> QED
  BY <1>1, <1>2, PTL DEF Spec

(* A call that no packet of an earlier request reached, and that returns    *)
(* true, returns the size of the whole file: no loss, repetition or         *)
(* reordering makes it skip or count twice a block (TFTP.c:36-125,          *)
(* 222-318).  Files are short enough for a 16-bit block number.             *)
THEOREM WholeFileReturned ==
    ASSUME SmallFiles
    PROVE  Spec => []WholeFile
<1>1. CountInv => WholeFile
  BY DEF CountInv, WholeFile
<1> QED
  BY <1>1, AlwaysCounted, SmallFiles, PTL

(* While a call that no packet of an earlier request reached is waiting,    *)
(* the size counted is that of the blocks before the expected one, and the  *)
(* server never runs ahead of it (TFTP.c:222-318).                          *)
THEOREM ServerInStep ==
    ASSUME SmallFiles
    PROVE  Spec => []Lockstep
<1>1. Types /\ CountInv /\ AckInv => Lockstep
  <2> SUFFICES ASSUME Types, CountInv, AckInv, pc = "wait", transferInProgress, ~ crossed
               PROVE  /\ tftpFileSize = BlockSize * (currentBlockNumber - 1)
                      /\ session # None /\ session.req = call.number =>
                            session.block <= currentBlockNumber
    BY DEF Lockstep
  <2>1. Counted
    BY DEF CountInv, Receiving
  <2> QED
    BY <2>1 DEF Counted, SizeBefore, AckInv, OfCall
<1> QED
  BY <1>1, AlwaysCounted, SmallFiles, PTL
==============================================================================
