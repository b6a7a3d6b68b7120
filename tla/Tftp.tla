-------------------------------- MODULE Tftp --------------------------------
(***************************************************************************)
(* The TFTP client of network/TFTP/TFTP.c: TFTP_GetFile and                *)
(* TFTP_GetFileSize set up a transfer in global variables, send a request  *)
(* and spin on transferInProgress; the packets of the answer are processed *)
(* in the network card's interrupt handler.  The handler runs with         *)
(* interrupts off and is one step; the caller's assignments are one step   *)
(* each.  Both build what they send in one packetBuffer (network/ethernet/ *)
(* Ethernet.c).                                                            *)
(*                                                                         *)
(* The server is not in the repository: it sends a block, waits for its    *)
(* ack, may repeat the block, may answer with an error or with an option   *)
(* acknowledgement, and may send an empty packet after the last ack, as    *)
(* the client's comments say VirtualBox does.  The network may lose,       *)
(* reorder and duplicate.  No packet says which request it belongs to;     *)
(* `req' is only for stating properties.                                   *)
(***************************************************************************)
EXTENDS Integers

CONSTANTS
    Files,      \* what the server has
    SizeOf,     \* their sizes
    Limits,     \* buffer sizes callers pass as maxFileSize
    BlockSize,  \* TFTP_MAX_BLOCK_SIZE: 512
    U16,        \* the modulus of a uint16: 65536
    MaxCalls,   \* bound on the calls made
    MaxDups,    \* bound on duplicated and repeated packets
    MaxLosses,  \* bound on lost packets
    None

ASSUME TftpConstants ==
    /\ SizeOf \in [Files -> Nat]
    /\ Limits \subseteq Nat
    /\ BlockSize \in Nat \ {0}
    /\ U16 \in Nat \ {0, 1}
    /\ MaxCalls \in Nat /\ MaxDups \in Nat /\ MaxLosses \in Nat
    /\ None \notin Files

VARIABLES
    transferInProgress, transferError, determiningFileSize,
    currentBlockNumber, virtualBoxBlockNumber, tftpFileSize, tftpFileBufferSize,
    packetBuffer,   \* what its headers and its contents are written for
    pc,             \* where the caller is
    call,           \* the call: which function, file, limit; its number
    result,         \* what the last call returned, or None
    session,        \* the server's transfer, or None
    toServer, toClient,
    dups, losses,
    crossed         \* a packet of an earlier request was taken for one of this call

transfer == <<transferInProgress, transferError, currentBlockNumber,
              virtualBoxBlockNumber, tftpFileSize>>
setup == <<determiningFileSize, tftpFileBufferSize>>
caller == <<pc, call, result>>
network == <<toServer, toClient, dups, losses>>
vars == <<transfer, setup, packetBuffer, caller, session, network, crossed>>

Rrq == [type |-> "rrq", file |-> call.file, req |-> call.number]
Ack(b, r) == [type |-> "ack", block |-> b, req |-> r]

Init ==
    /\ transferInProgress = FALSE
    /\ transferError = FALSE
    /\ determiningFileSize = FALSE
    /\ currentBlockNumber = 0
    /\ virtualBoxBlockNumber = 0
    /\ tftpFileSize = 0
    /\ tftpFileBufferSize = 0
    /\ packetBuffer = [head |-> None, body |-> None]
    /\ pc = "idle"
    /\ call = [by |-> None, file |-> None, limit |-> 0, number |-> 0]
    /\ result = None
    /\ session = None
    /\ toServer = {}
    /\ toClient = {}
    /\ dups = 0
    /\ losses = 0
    /\ crossed = FALSE

----------------------------------------------------------------------------
(* TFTP_GetFile, TFTP_GetFileSize and TFTP_RequestFile *)

Call(f, file, limit) ==
    /\ pc = "idle"
    /\ call.number < MaxCalls
    /\ call' = [by |-> f, file |-> file, limit |-> limit, number |-> call.number + 1]
    /\ pc' = "wait_old"
    /\ result' = None
    /\ crossed' = FALSE
    /\ UNCHANGED <<transfer, setup, packetBuffer, session, network>>

Step(from, to) ==
    /\ pc = from
    /\ pc' = to
    /\ UNCHANGED <<call, result, session, crossed>>

WaitOld ==
    /\ ~ transferInProgress
    /\ Step("wait_old", "set_up")
    /\ UNCHANGED <<transfer, setup, packetBuffer, network>>

SetUp ==
    /\ Step("set_up", "start")
    /\ IF call.by = "TFTP_GetFile"
       THEN tftpFileBufferSize' = call.limit /\ UNCHANGED determiningFileSize
       ELSE determiningFileSize' = TRUE /\ UNCHANGED tftpFileBufferSize
    /\ UNCHANGED <<transfer, packetBuffer, network>>

Start ==
    /\ Step("start", "first_block")
    /\ transferInProgress' = TRUE
    /\ UNCHANGED <<transferError, currentBlockNumber, virtualBoxBlockNumber, tftpFileSize>>
    /\ UNCHANGED <<setup, packetBuffer, network>>

FirstBlock ==
    /\ Step("first_block", "no_size")
    /\ currentBlockNumber' = 1
    /\ UNCHANGED <<transferInProgress, transferError, virtualBoxBlockNumber, tftpFileSize>>
    /\ UNCHANGED <<setup, packetBuffer, network>>

NoSize ==
    /\ Step("no_size", "no_error")
    /\ tftpFileSize' = 0
    /\ UNCHANGED <<transferInProgress, transferError, currentBlockNumber, virtualBoxBlockNumber>>
    /\ UNCHANGED <<setup, packetBuffer, network>>

NoError ==
    /\ Step("no_error", "create")
    /\ transferError' = FALSE
    /\ UNCHANGED <<transferInProgress, currentBlockNumber, virtualBoxBlockNumber, tftpFileSize>>
    /\ UNCHANGED <<setup, packetBuffer, network>>

(* UDP_Create_Packet writes the headers, then the contents are filled in *)
Create ==
    /\ Step("create", "fill")
    /\ packetBuffer' = [packetBuffer EXCEPT !.head = Rrq]
    /\ UNCHANGED <<transfer, setup, network>>

Fill ==
    /\ Step("fill", "send")
    /\ packetBuffer' = [packetBuffer EXCEPT !.body = Rrq]
    /\ UNCHANGED <<transfer, setup, network>>

(* The server makes nothing of contents under another packet's headers. *)
Send ==
    /\ Step("send", "wait")
    /\ toServer' = toServer \cup
          IF packetBuffer.head = packetBuffer.body THEN {packetBuffer.body} ELSE {}
    /\ UNCHANGED <<transfer, setup, packetBuffer, toClient, dups, losses>>

\* mutant: determiningFileSize stays set
WaitKeepsMode ==
    /\ ~ transferInProgress
    /\ Step("wait", "check")
    /\ UNCHANGED <<transfer, setup, packetBuffer, network>>

Wait ==
    /\ ~ transferInProgress
    /\ Step("wait", "check")
    /\ determiningFileSize' = FALSE
    /\ UNCHANGED <<transfer, tftpFileBufferSize, packetBuffer, network>>

Return(r) ==
    /\ pc' = "idle"
    /\ result' = r
    /\ UNCHANGED <<transfer, setup, packetBuffer, call, session, network, crossed>>

Fail == pc = "check" /\ transferError /\ Return([ok |-> FALSE, size |-> 0])

Check ==
    /\ ~ transferError
    /\ Step("check", "read_size")
    /\ UNCHANGED <<transfer, setup, packetBuffer, network>>

ReadSize == pc = "read_size" /\ Return([ok |-> TRUE, size |-> tftpFileSize])

Main ==
    \/ WaitOld \/ SetUp \/ Start \/ FirstBlock \/ NoSize \/ NoError
    \/ Create \/ Fill \/ Send \/ Wait \/ Fail \/ Check \/ ReadSize

----------------------------------------------------------------------------
(* TFTP_ProcessPacket in the interrupt handler *)

(* what is delivered is in the network once more *)
Copied ==
    /\ dups < MaxDups
    /\ dups' = dups + 1

Take(p) ==
    /\ p \in toClient
    /\ \/ toClient' = toClient \ {p} /\ UNCHANGED dups
       \/ Copied /\ UNCHANGED toClient
    /\ crossed' = (crossed \/ p.req # call.number)
    /\ UNCHANGED <<setup, caller, session, losses>>

SendAck(b, r) ==
    /\ toServer' = toServer \cup {Ack(b, r)}
    /\ packetBuffer' = [head |-> Ack(b, r), body |-> Ack(b, r)]

\* mutant: an error does not end the transfer
AbortGoesOn ==
    /\ transferError' = TRUE
    /\ UNCHANGED <<transferInProgress, currentBlockNumber, virtualBoxBlockNumber, tftpFileSize>>

Abort ==
    /\ transferInProgress' = FALSE
    /\ transferError' = TRUE
    /\ UNCHANGED <<currentBlockNumber, virtualBoxBlockNumber, tftpFileSize>>

(* mutant: the size of the block is left out of the test *)
TooBigAfterwards(p) == ~ determiningFileSize /\ tftpFileSize > tftpFileBufferSize

TooBig(p) == ~ determiningFileSize /\ tftpFileSize + p.size > tftpFileBufferSize

ReceiveTooBig(p) ==
    /\ p.type = "data"
    /\ TooBig(p)
    /\ Take(p)
    /\ Abort
    /\ SendAck(p.block, p.req)

(* mutant: the block number is not looked at *)
ExpectedAny(p) == TRUE

Expected(p) == p.block = currentBlockNumber

ReceiveUnexpected(p) ==
    /\ p.type = "data"
    /\ ~ TooBig(p)
    /\ ~ Expected(p)
    /\ Take(p)
    /\ IF p.block = virtualBoxBlockNumber THEN UNCHANGED transfer ELSE Abort
    /\ UNCHANGED <<packetBuffer, toServer>>

(* mutant: only an empty block ends the transfer *)
IsLastIfEmpty(p) == p.size = 0

IsLast(p) == p.size < BlockSize

ReceiveBlock(p) ==
    /\ p.type = "data"
    /\ ~ TooBig(p)
    /\ Expected(p)
    /\ Take(p)
    /\ tftpFileSize' = tftpFileSize + p.size
    /\ currentBlockNumber' = (currentBlockNumber + 1) % U16
    /\ virtualBoxBlockNumber' = currentBlockNumber'
    /\ transferInProgress' = (transferInProgress /\ ~ IsLast(p))
    /\ SendAck(p.block, p.req)
    /\ UNCHANGED transferError

ReceiveError(p) ==
    /\ p.type = "error"
    /\ Take(p)
    /\ Abort
    /\ UNCHANGED <<packetBuffer, toServer>>

ReceiveOptionAck(p) ==
    /\ p.type = "oack"
    /\ Take(p)
    /\ SendAck(0, p.req)
    /\ UNCHANGED transfer

Receive ==
    \E p \in toClient :
        \/ ReceiveTooBig(p) \/ ReceiveUnexpected(p) \/ ReceiveBlock(p)
        \/ ReceiveError(p) \/ ReceiveOptionAck(p)

----------------------------------------------------------------------------
(* The server and the network *)

LastBlock(file) == SizeOf[file] \div BlockSize + 1

Data(s) ==
    [type |-> "data", req |-> s.req, block |-> s.block % U16,
     size |-> IF s.block < LastBlock(s.file) THEN BlockSize
              ELSE IF s.block = LastBlock(s.file) THEN SizeOf[s.file] % BlockSize ELSE 0]

Reply(packets) == toClient' = toClient \cup packets

local == <<transfer, setup, packetBuffer, caller>>

Arrives(p) ==
    \/ toServer' = toServer \ {p} /\ UNCHANGED dups
    \/ Copied /\ UNCHANGED toServer

ServeRequest ==
    \E r \in {p \in toServer : p.type = "rrq"} :
        /\ Arrives(r)
        /\ LET first == [req |-> r.req, file |-> r.file, block |-> 1]
           IN  \/ session' = first /\ Reply({Data(first)})
               \/ /\ session' = [first EXCEPT !.block = 0]
                  /\ Reply({[type |-> "oack", req |-> r.req]})
               \/ session' = None /\ Reply({[type |-> "error", req |-> r.req]})
        /\ UNCHANGED <<local, losses, crossed>>

Matches(a) == session # None /\ a.block = session.block % U16

ServeAck ==
    \E a \in {p \in toServer : p.type = "ack"} :
        /\ Arrives(a)
        /\ LET next == [session EXCEPT !.block = @ + 1]
           IN  IF ~ Matches(a)
               THEN UNCHANGED <<session, toClient>>
               ELSE IF session.block < LastBlock(session.file)
               THEN session' = next /\ Reply({Data(next)})
               ELSE session' = None /\ (Reply({}) \/ Reply({Data(next)}))
        /\ crossed' = (crossed \/ (Matches(a) /\ a.req # session.req))
        /\ UNCHANGED <<local, losses>>

(* the server's timeout *)
Repeat ==
    /\ session # None
    /\ session.block > 0
    /\ dups < MaxDups
    /\ dups' = dups + 1
    /\ Reply({Data(session)})
    /\ UNCHANGED <<local, session, toServer, losses, crossed>>

Lose ==
    /\ losses < MaxLosses
    /\ losses' = losses + 1
    /\ \/ \E p \in toServer : toServer' = toServer \ {p} /\ UNCHANGED toClient
       \/ \E p \in toClient : toClient' = toClient \ {p} /\ UNCHANGED toServer
    /\ UNCHANGED <<local, session, dups, crossed>>

Next ==
    \/ \E file \in Files :
          \/ \E limit \in Limits : Call("TFTP_GetFile", file, limit)
          \/ Call("TFTP_GetFileSize", file, 0)
    \/ Main
    \/ Receive
    \/ ServeRequest \/ ServeAck \/ Repeat \/ Lose

(* The caller is never off the processor for ever, a packet that is not    *)
(* lost raises its interrupt, and the server answers what reaches it.      *)
Spec ==
    /\ Init /\ [][Next]_vars
    /\ WF_vars(Main) /\ WF_vars(Receive) /\ WF_vars(ServeRequest) /\ WF_vars(ServeAck)

----------------------------------------------------------------------------
(* The ranges of the variables. *)
TypeOK ==
    /\ currentBlockNumber \in 0 .. U16 - 1
    /\ virtualBoxBlockNumber \in 0 .. U16 - 1
    /\ tftpFileSize \in Nat
    /\ tftpFileBufferSize \in Limits \cup {0}
    /\ determiningFileSize => call.by = "TFTP_GetFileSize"
    /\ \A p \in toServer : p.type \in {"rrq", "ack"}
    /\ \A p \in toClient : p.type \in {"data", "error", "oack"}

(* A call that returns true returns the size of the whole file, whatever   *)
(* the network loses, repeats or reorders, as long as nothing of an        *)
(* earlier request arrives during the call (TFTP.c:36-125, 222-318).       *)
WholeFile ==
    result # None /\ ~ crossed =>
        (result.ok => result.size = SizeOf[call.file])

(* What TFTP_GetFile reports never exceeds the caller's buffer, not even   *)
(* when packets of an earlier request come while the new one is set up     *)
(* (TFTP.c:231: the test uses the size counted so far).                    *)
ReportedFits ==
    result # None /\ result.ok /\ call.by = "TFTP_GetFile" => result.size <= call.limit

(* While a transfer runs undisturbed the client has counted exactly the    *)
(* blocks before the one it expects, and the server is at that block or    *)
(* still at the one before: no ack runs ahead of what was counted.         *)
Lockstep ==
    pc = "wait" /\ transferInProgress /\ ~ crossed =>
        /\ tftpFileSize = BlockSize * (currentBlockNumber - 1)
        /\ session # None /\ session.req = call.number =>
              session.block <= currentBlockNumber

(* When nothing is lost and nothing of an earlier request interferes, the  *)
(* caller gets an answer: whatever is repeated, the loop ends (TFTP.c:63). *)
Answered == (pc # "idle") ~> (pc = "idle" \/ losses > 0 \/ crossed)

(* "return true on success / will block until the file is transacted"      *)
(* (TFTP.c:29-30): a call that returns true has received the file.         *)
TrueIsWhole ==
    result # None => (result.ok => result.size = SizeOf[call.file])
=============================================================================
