---------------------------- MODULE ModbusClient ----------------------------
(***************************************************************************)
(* A Modbus connection on which the PLC is the client (the master).        *)
(*                                                                         *)
(* Three parties run concurrently.  The PLC calls SFB 102 once per scan    *)
(* (call_modbus_client_process in connection.py).  A worker process        *)
(* (test_run_client_ip or test_run_client_serial in test_run.py) owns the  *)
(* socket or the serial device.  The peer answers requests, or does not.   *)
(* PLC and worker share four one-place mailboxes and nothing else: the     *)
(* worker reports a status in thread_resp_queue and waits for a command in *)
(* thread_cmd_queue; it hands over an answer in thread_resp_arr and waits  *)
(* for a command in thread_cmd_arr.                                        *)
(*                                                                         *)
(* A call is split where the worker can run between two accesses to the    *)
(* mailboxes: the branch on STATUS, the wait of join, get_updated_status,  *)
(* the fetch of an answer.  The output parameters that no part of the code *)
(* reads back (BUSY, STATUS_MODBUS, STATUS_CONN, ...) are left out.        *)
(***************************************************************************)
EXTENDS ModbusMail, Sequences

CONSTANTS
    Interface,    \* network_interface_type: "IP" or "SERIAL"
    Program,      \* how the user program drives ENQ_ENR, see EnqChoices
    Disconnects,  \* the values the user program gives to DISCONNECT
    Faults,       \* what may go wrong around the connection
    Stops,        \* when the CPU may be stopped, see Close
    FreshTI,      \* does the user program change TI for every request?
    MaxId,        \* requests are numbered 1 .. MaxId, cyclically
    WireCap       \* messages the medium holds in each direction

ASSUME InterfaceAssumption  == Interface \in {"IP", "SERIAL"}
ASSUME ProgramAssumption    == Program \in {"held", "acks", "free"}
ASSUME DisconnectAssumption == Disconnects \subseteq BOOLEAN /\ Disconnects # {}
ASSUME FaultsAssumption     ==
    Faults \subseteq {"refuse", "slow", "close", "reset", "reject"}
ASSUME StopsAssumption      == Stops \in {"never", "done", "anytime"}
ASSUME FreshTIAssumption    == FreshTI \in BOOLEAN
ASSUME BoundAssumption      == MaxId \in Nat \ {0} /\ WireCap \in Nat \ {0}

VARIABLES
    STATUS, read_finish_status, ERROR, CONN_ESTABLISHED, disconnect,
    DONE_NDR,            \* the output the user program polls
    scan,                \* where the PLC stands in the call
    sentId,              \* the request constructed last (mod_client.sent*)
    dataArea,            \* the request whose answer was stored last
    thread_resp_queue, thread_cmd_queue, thread_resp_arr, thread_cmd_arr,
    worker,              \* where the worker process stands
    msgId,               \* the request the worker holds (msg_to_send)
    late,                \* has conn_time passed since the worker started?
    toPeer, fromPeer,    \* messages on the socket or the serial line
    peerOpen             \* has the peer its end of the socket open?

fields  == <<STATUS, read_finish_status, ERROR, CONN_ESTABLISHED>>
mail    == <<thread_resp_queue, thread_cmd_queue, thread_resp_arr, thread_cmd_arr>>
process == <<worker, msgId, late>>
wire    == <<toPeer, fromPeer, peerOpen>>
plcVars == <<fields, disconnect, DONE_NDR, scan, sentId, dataArea>>
vars    == <<plcVars, mail, process, wire>>

Ids     == 1 .. MaxId
NextId  == IF sentId = MaxId THEN 1 ELSE sentId + 1

Init ==
    /\ STATUS = NOT_STARTED
    /\ read_finish_status = 1
    /\ ERROR = FALSE
    /\ CONN_ESTABLISHED = FALSE
    /\ disconnect = TRUE
    /\ DONE_NDR = TRUE
    /\ scan = "idle"
    /\ sentId = 0 /\ dataArea = 0
    /\ thread_resp_queue = Empty /\ thread_cmd_queue = Empty
    /\ thread_resp_arr = Empty /\ thread_cmd_arr = Empty
    /\ worker = "none" /\ msgId = 0 /\ late = FALSE
    /\ toPeer = <<>> /\ fromPeer = <<>> /\ peerOpen = FALSE

-----------------------------------------------------------------------------
(* The PLC: one call of SFB 102 per scan.                                  *)

\* The user program holds ENQ_ENR at 1, or lowers it for one scan when a
\* status other than a transfer is to be read, or does as it likes.
EnqChoices ==
    CASE Program = "held" -> {1}
      [] Program = "acks" -> IF STATUS # RUNNING /\ read_finish_status = 0
                             THEN IF CONN_ESTABLISHED THEN {1} ELSE {0}
                             ELSE {0, 1}
      [] OTHER            -> {0, 1}

\* SFB 102 sets the input parameters and calls the connection.
Call(ENQ_ENR) ==
    /\ scan = "idle"
    /\ ENQ_ENR \in EnqChoices
    /\ disconnect' \in Disconnects

\* The call returns and SFB 102 writes its outputs.
Return ==
    /\ scan' = "idle"
    /\ DONE_NDR' = (STATUS' # RUNNING /\ read_finish_status' = 1)

\* A variant: the request is not put.
PutNothing(mailbox) == sentId' = NextId /\ UNCHANGED mailbox

\* A request is constructed and put into a mailbox.
PutRequest(mailbox) ==
    /\ sentId' = NextId
    /\ Put(mailbox, Request(NextId))

Spawn ==
    /\ worker' = "starting"
    /\ msgId' = 0
    /\ late' = FALSE

CallStart ==
    /\ Call(1)
    /\ STATUS = NOT_STARTED
    /\ STATUS' = RUNNING
    /\ ERROR' = FALSE
    /\ Spawn
    /\ scan' = "status only"
    /\ UNCHANGED <<read_finish_status, CONN_ESTABLISHED, DONE_NDR, sentId,
                   dataArea, mail, wire>>

\* A status was adopted or a transfer ended in an earlier call; with ENQ_ENR
\* at 1 the connection goes on with the next request ...
CallNextRequest ==
    /\ Call(1)
    /\ STATUS # RUNNING
    /\ read_finish_status = 0
    /\ CONN_ESTABLISHED
    /\ PutRequest(thread_cmd_arr)
    /\ STATUS' = RUNNING
    /\ ERROR' = FALSE
    /\ read_finish_status' = 1
    /\ Return
    /\ UNCHANGED <<CONN_ESTABLISHED, dataArea, thread_resp_queue,
                   thread_cmd_queue, thread_resp_arr, process, wire>>

\* ... or, without a connection, acknowledges the status to the worker ...
CallAcknowledge ==
    /\ Call(1)
    /\ STATUS # RUNNING
    /\ read_finish_status = 0
    /\ ~CONN_ESTABLISHED
    /\ Put(thread_cmd_queue, DummyAck)
    /\ STATUS' = RUNNING
    /\ ERROR' = FALSE
    /\ read_finish_status' = 1
    /\ Return
    /\ UNCHANGED <<CONN_ESTABLISHED, sentId, dataArea, thread_resp_queue,
                   thread_resp_arr, thread_cmd_arr, process, wire>>

\* ... and with ENQ_ENR at 0 it tells the worker to quit.
CallQuit ==
    /\ Call(0)
    /\ STATUS # RUNNING
    /\ read_finish_status = 0
    /\ Put(thread_cmd_queue, Quit)
    /\ read_finish_status' = 1
    /\ UNCHANGED <<STATUS, ERROR, CONN_ESTABLISHED>>
    /\ Return
    /\ UNCHANGED <<sentId, dataArea, thread_resp_queue, thread_resp_arr,
                   thread_cmd_arr, process, wire>>

\* Nothing is asked for and nothing is left to report.
CallIdle ==
    /\ Call(0)
    /\ STATUS # RUNNING
    /\ read_finish_status = 1
    /\ UNCHANGED fields
    /\ Return
    /\ UNCHANGED <<sentId, dataArea, mail, process, wire>>

\* The connection stands (DISCONNECT was false): go on with it.
CallResume ==
    /\ Call(1)
    /\ STATUS = DONE /\ CONN_ESTABLISHED
    /\ read_finish_status = 1
    /\ STATUS' = RUNNING
    /\ scan' = "status only"
    /\ UNCHANGED <<read_finish_status, ERROR, CONN_ESTABLISHED, DONE_NDR,
                   sentId, dataArea, mail, process, wire>>

\* The worker is taken to have exited: wait for it, then start another one.
CallRestart ==
    /\ Call(1)
    /\ STATUS \notin {NOT_STARTED, RUNNING}
    /\ read_finish_status = 1
    /\ ~(STATUS = DONE /\ CONN_ESTABLISHED)
    /\ STATUS' = RUNNING
    /\ ERROR' = FALSE
    /\ scan' = "join"
    /\ UNCHANGED <<read_finish_status, CONN_ESTABLISHED, DONE_NDR, sentId,
                   dataArea, mail, process, wire>>

CallPoll ==
    /\ scan = "idle"
    /\ STATUS = RUNNING
    /\ disconnect' \in Disconnects
    /\ scan' = "status"
    /\ UNCHANGED <<fields, DONE_NDR, sentId, dataArea, mail, process, wire>>

\* join returns when the process has ended; the shared arrays are made anew.
Join ==
    /\ scan = "join"
    /\ worker \in {"exited", "crashed"}
    /\ thread_resp_queue' = Empty /\ thread_cmd_queue' = Empty
    /\ thread_resp_arr' = Empty /\ thread_cmd_arr' = Empty
    /\ Spawn
    /\ scan' = "status"
    /\ UNCHANGED <<fields, disconnect, DONE_NDR, sentId, dataArea, wire>>

\* get_updated_status is the last thing a starting or resuming call does; a
\* polling or restarting call goes on to look for an answer.
AfterStatus ==
    IF scan = "status" THEN scan' = "response" /\ UNCHANGED DONE_NDR ELSE Return

NoStatus ==
    /\ scan \in {"status", "status only"}
    /\ thread_resp_queue = Empty
    /\ UNCHANGED fields
    /\ AfterStatus
    /\ UNCHANGED <<disconnect, sentId, dataArea, mail, process, wire>>

\* The worker's status becomes the connection's.  Unless it has to be read
\* first, the worker stands ready and is given a request.
AdoptStatus ==
    /\ scan \in {"status", "status only"}
    /\ Get(thread_resp_queue)
    /\ STATUS' = thread_resp_queue.STATUS
    /\ read_finish_status' = thread_resp_queue.read_finish_status
    /\ ERROR' = thread_resp_queue.ERROR
    /\ CONN_ESTABLISHED' = thread_resp_queue.CONN_ESTABLISHED
    /\ IF thread_resp_queue.read_finish_status # 0
       THEN PutRequest(thread_cmd_queue)
       ELSE UNCHANGED <<sentId, thread_cmd_queue>>
    /\ AfterStatus
    /\ UNCHANGED <<disconnect, dataArea, thread_resp_arr, thread_cmd_arr,
                   process, wire>>

NoResponse ==
    /\ scan = "response"
    /\ thread_resp_arr = Empty
    /\ UNCHANGED fields
    /\ Return
    /\ UNCHANGED <<disconnect, sentId, dataArea, mail, process, wire>>

\* process_response_message returns NO_ERROR for a well formed answer that
\* carries the transaction identifier of the request constructed last.
Accepted(answer) == answer.ok /\ (FreshTI => answer.id = sentId)

\* Variant: the worker is not told.
DismissSilently == UNCHANGED thread_cmd_arr

\* The worker that waits for the next request is told to quit.
Dismiss == Put(thread_cmd_arr, Quit)

TakeResponse ==
    /\ scan = "response"
    /\ Get(thread_resp_arr)
    /\ STATUS' = DONE
    /\ UNCHANGED <<disconnect, sentId, thread_resp_queue, thread_cmd_queue,
                   process, wire>>

\* The answer is stored.  With DISCONNECT the worker is told to quit,
\* otherwise it waits for the next request.
AcceptResponse ==
    /\ TakeResponse
    /\ Accepted(thread_resp_arr)
    /\ ERROR' = FALSE
    /\ dataArea' = thread_resp_arr.id
    /\ IF disconnect
       THEN /\ read_finish_status' = 1
            /\ CONN_ESTABLISHED' = FALSE
            /\ Dismiss
       ELSE /\ read_finish_status' = 0
            /\ UNCHANGED <<CONN_ESTABLISHED, thread_cmd_arr>>
    /\ Return

RejectResponse ==
    /\ TakeResponse
    /\ ~Accepted(thread_resp_arr)
    /\ ERROR' = TRUE
    /\ read_finish_status' = 1
    /\ CONN_ESTABLISHED' = FALSE
    /\ Dismiss
    /\ Return
    /\ UNCHANGED dataArea

\* The CPU stops between two calls and the connection is closed: the worker is
\* told to quit, in thread_cmd_queue, wherever it stands.
Close ==
    /\ scan = "idle"
    /\ worker # "none"
    /\ \/ Stops = "anytime"
       \/ Stops = "done" /\ DONE_NDR
    /\ Put(thread_cmd_queue, Quit)
    /\ scan' = "closed"
    /\ UNCHANGED <<fields, disconnect, DONE_NDR, sentId, dataArea,
                   thread_resp_queue, thread_resp_arr, thread_cmd_arr, process, wire>>

PlcNext ==
    \/ CallStart \/ CallNextRequest \/ CallAcknowledge \/ CallQuit
    \/ CallIdle \/ CallResume \/ CallRestart \/ CallPoll \/ Join
    \/ NoStatus \/ AdoptStatus
    \/ NoResponse \/ AcceptResponse \/ RejectResponse

-----------------------------------------------------------------------------
(* The worker process.                                                     *)

\* Variant: the socket survives the worker's loop.
CloseMediumNot == UNCHANGED wire

\* The socket is closed, by close() or by the end of the process, and what
\* it held is gone.  What stands in a serial device stays there.
CloseMedium ==
    IF Interface = "IP"
    THEN toPeer' = <<>> /\ fromPeer' = <<>> /\ peerOpen' = FALSE
    ELSE UNCHANGED wire

\* Variant: the status is not put.
GiveUpSilently(status) ==
    /\ worker' = "leaving"
    /\ CloseMedium
    /\ UNCHANGED <<msgId, late, mail>>

\* The worker leaves its loop: it reports why and waits to be acknowledged.
GiveUp(status) ==
    /\ Put(thread_resp_queue, Status(0, status, TRUE, FALSE))
    /\ worker' = "leaving"
    /\ CloseMedium
    /\ UNCHANGED <<msgId, late, thread_cmd_queue, thread_resp_arr, thread_cmd_arr>>

\* The socket is connected, or the serial device is opened and linked to the
\* partner; the worker asks for a request.
Connect ==
    /\ worker = "starting"
    /\ worker' = "ready"
    /\ Put(thread_resp_queue, Status(1, RUNNING, FALSE, TRUE))
    /\ peerOpen' = (Interface = "IP")
    /\ UNCHANGED <<msgId, late, thread_cmd_queue, thread_resp_arr,
                   thread_cmd_arr, toPeer, fromPeer, plcVars>>

ConnTimePasses ==
    /\ Interface = "IP" /\ worker = "starting" /\ ~late
    /\ late' = TRUE
    /\ UNCHANGED <<worker, msgId, mail, wire, plcVars>>

\* An attempt fails after conn_time: report it and wait for a command.  (An
\* attempt that fails earlier is repeated after a pause and changes nothing.)
ConnectFails ==
    /\ Interface = "IP" /\ "refuse" \in Faults
    /\ worker = "starting" /\ late
    /\ worker' = "retrying"
    /\ Put(thread_resp_queue, Status(0, CONN_TIMEOUT_ERROR, TRUE, FALSE))
    /\ UNCHANGED <<msgId, late, thread_cmd_queue, thread_resp_arr,
                   thread_cmd_arr, wire, plcVars>>

\* The command after a failed attempt: QUIT ends the process, any other
\* message is leave to try again.
Retry ==
    /\ worker = "retrying"
    /\ Get(thread_cmd_queue)
    /\ worker' = IF thread_cmd_queue = Quit THEN "exited" ELSE "starting"
    /\ UNCHANGED <<msgId, late, thread_resp_queue, thread_resp_arr,
                   thread_cmd_arr, wire, plcVars>>

\* A command is either QUIT or the tuple of the next request, which is unpacked.
Obey(command) ==
    IF command = Quit
    THEN worker' = "exited" /\ CloseMedium /\ UNCHANGED msgId
    ELSE worker' = "sending" /\ msgId' = command.id /\ UNCHANGED wire

FirstCommand ==
    /\ worker = "ready"
    /\ Get(thread_cmd_queue)
    /\ Obey(thread_cmd_queue)
    /\ UNCHANGED <<late, thread_resp_queue, thread_resp_arr, thread_cmd_arr, plcVars>>

Send ==
    /\ worker = "sending"
    /\ Len(toPeer) < WireCap
    /\ worker' = "receiving"
    /\ toPeer' = IF Interface = "IP" /\ ~peerOpen THEN toPeer ELSE Append(toPeer, msgId)
    /\ UNCHANGED <<msgId, late, fromPeer, peerOpen, mail, plcVars>>

\* send raises an error on a socket whose peer is gone.
SendFails ==
    /\ Interface = "IP" /\ worker = "sending" /\ ~peerOpen
    /\ GiveUp(CLIENT_ERROR)
    /\ UNCHANGED plcVars

\* The serial device stays full for conn_time; the loop that writes is left,
\* and the worker goes on to wait for an answer.
WriteTimesOut ==
    /\ Interface = "SERIAL" /\ worker = "sending"
    /\ Len(toPeer) = WireCap
    /\ worker' = "receiving"
    /\ UNCHANGED <<msgId, late, wire, mail, plcVars>>

HandOver(answer) ==
    /\ Put(thread_resp_arr, answer)
    /\ worker' = "answered"
    /\ UNCHANGED <<msgId, late, thread_resp_queue, thread_cmd_queue, thread_cmd_arr>>

\* The answer that came first is handed to the PLC.  One read takes what
\* there is: answers that came right behind it are swallowed with it.
Receive ==
    /\ worker = "receiving"
    /\ \E n \in 1 .. Len(fromPeer), ok \in BOOLEAN :
          /\ n = 1 => ok = Head(fromPeer).ok
          /\ ok => Head(fromPeer).ok
          /\ HandOver(Bytes(Head(fromPeer).id, ok))
          /\ fromPeer' = SubSeq(fromPeer, n + 1, Len(fromPeer))
    /\ UNCHANGED <<toPeer, peerOpen, plcVars>>

\* The peer has closed: recv returns no bytes, which are handed over as they are.
ReceiveEnd ==
    /\ Interface = "IP" /\ worker = "receiving"
    /\ fromPeer = <<>> /\ ~peerOpen
    /\ HandOver(Bytes(0, FALSE))
    /\ UNCHANGED <<wire, plcVars>>

\* A reset is no timeout: recv raises it and nothing catches it.
ReceiveReset ==
    /\ Interface = "IP" /\ "reset" \in Faults
    /\ worker = "receiving" /\ ~peerOpen
    /\ worker' = "crashed"
    /\ CloseMedium
    /\ UNCHANGED <<msgId, late, mail, plcVars>>

\* No answer for recv_time.  On a socket the worker gives up; on a serial
\* line only the loop that reads is left, and an empty answer is handed over.
ReceiveTimesOut ==
    /\ "slow" \in Faults
    /\ worker = "receiving" /\ fromPeer = <<>>
    /\ IF Interface = "IP"
       THEN peerOpen /\ GiveUp(RECV_TIMEOUT_ERROR)
       ELSE HandOver(Bytes(0, FALSE)) /\ UNCHANGED wire
    /\ UNCHANGED plcVars

NextCommand ==
    /\ worker = "answered"
    /\ Get(thread_cmd_arr)
    /\ Obey(thread_cmd_arr)
    /\ UNCHANGED <<late, thread_resp_queue, thread_cmd_queue, thread_resp_arr, plcVars>>

\* Any message lets the process end.
Leave ==
    /\ worker = "leaving"
    /\ Get(thread_cmd_queue)
    /\ worker' = "exited"
    /\ UNCHANGED <<msgId, late, thread_resp_queue, thread_resp_arr,
                   thread_cmd_arr, wire, plcVars>>

WorkerNext ==
    \/ ConnTimePasses \/ ConnectFails \/ Retry \/ FirstCommand
    \/ Send \/ SendFails \/ WriteTimesOut
    \/ Receive \/ ReceiveEnd \/ ReceiveReset \/ ReceiveTimesOut
    \/ NextCommand \/ Leave

-----------------------------------------------------------------------------
(* The peer.                                                               *)

\* The peer answers the request that has waited longest.  A serial device
\* that is full drops the answer.
PeerAnswer ==
    /\ toPeer # <<>>
    /\ \E ok \in IF "reject" \in Faults THEN BOOLEAN ELSE {TRUE} :
          fromPeer' = IF Len(fromPeer) < WireCap
                      THEN Append(fromPeer, Bytes(Head(toPeer), ok))
                      ELSE fromPeer
    /\ toPeer' = Tail(toPeer)
    /\ UNCHANGED <<peerOpen, mail, process, plcVars>>

PeerCloses ==
    /\ "close" \in Faults
    /\ peerOpen
    /\ peerOpen' = FALSE
    /\ toPeer' = <<>>
    /\ UNCHANGED <<fromPeer, mail, process, plcVars>>

Next == PlcNext \/ Close \/ Connect \/ WorkerNext \/ PeerAnswer \/ PeerCloses

\* The scan cycle never stops, the processes are scheduled, timers expire,
\* and a server that is there accepts and answers.
Fairness ==
    /\ WF_vars(PlcNext)
    /\ WF_vars(ConnTimePasses)
    /\ WF_vars(WorkerNext)
    /\ WF_vars("refuse" \notin Faults /\ Connect)
    /\ WF_vars(PeerAnswer)

Spec == Init /\ [][Next]_vars /\ Fairness

-----------------------------------------------------------------------------
(* Properties.                                                             *)

PlcTypeOK ==
    /\ STATUS \in StatusCode
    /\ read_finish_status \in {0, 1}
    /\ ERROR \in BOOLEAN /\ CONN_ESTABLISHED \in BOOLEAN
    /\ disconnect \in BOOLEAN /\ DONE_NDR \in BOOLEAN
    /\ scan \in {"idle", "join", "status only", "status", "response", "closed"}
    /\ sentId \in 0 .. MaxId /\ dataArea \in 0 .. MaxId
MailTypeOK ==
    /\ thread_resp_queue \in StatusMessage \cup {Empty}
    /\ thread_cmd_queue \in RequestMessage(Ids) \cup {DummyAck, Quit, Empty}
    /\ thread_resp_arr \in BytesMessage(0 .. MaxId) \cup {Empty}
    /\ thread_cmd_arr \in RequestMessage(Ids) \cup {Quit, Empty}
ProcessTypeOK ==
    /\ worker \in {"none", "starting", "retrying", "ready", "sending",
                   "receiving", "answered", "leaving", "exited", "crashed"}
    /\ msgId \in 0 .. MaxId /\ late \in BOOLEAN
    /\ worker = "sending" => msgId \in Ids
WireTypeOK ==
    /\ toPeer \in Seq(Ids) /\ Len(toPeer) <= WireCap
    /\ fromPeer \in Seq(BytesMessage(Ids)) /\ Len(fromPeer) <= WireCap
    /\ peerOpen \in BOOLEAN
TypeOK == PlcTypeOK /\ MailTypeOK /\ ProcessTypeOK /\ WireTypeOK

\* A mailbox has one place and put does not look whether the message before
\* was read: the protocol alone must see to it that none is overwritten.
Kept(mailbox) == mailbox # Empty => mailbox' \in {mailbox, Empty}
NoMessageOverwritten ==
    [][Kept(thread_resp_queue) /\ Kept(thread_cmd_queue)
       /\ Kept(thread_resp_arr) /\ Kept(thread_cmd_arr)]_vars

\* The worker unpacks what it finds while it waits for a request: an
\* acknowledgement there would end it with an exception.
CommandFits ==
    /\ worker = "ready" => thread_cmd_queue # DummyAck
    /\ worker = "answered" => thread_cmd_arr # DummyAck

\* The worker has ended, or ends without another message from the PLC.
Ending ==
    \/ worker \in {"exited", "crashed"}
    \/ worker = "leaving" /\ thread_cmd_queue # Empty
    \/ worker \in {"ready", "retrying"} /\ thread_cmd_queue = Quit
    \/ worker = "answered" /\ thread_cmd_arr = Quit

\* "All these cases imply thread exited": the PLC joins the worker only when
\* the worker ends, otherwise the scan cycle stands still for good.
JoinedWorkerEnds == scan = "join" => Ending

\* How far an enquiry has got, as the PLC sees it: under way, reported but not
\* acknowledged, settled, or given up with a worker that is to be replaced.
Enquiring == /\ STATUS = RUNNING /\ read_finish_status = 1
             /\ scan \in {"idle", "status only", "status", "response"}
Reported  == /\ STATUS \notin {NOT_STARTED, RUNNING} /\ read_finish_status = 0
             /\ scan \in {"idle", "response"}
Settled   == /\ STATUS \notin {NOT_STARTED, RUNNING} /\ read_finish_status = 1
             /\ scan = "idle"
Replacing == STATUS = RUNNING /\ read_finish_status = 1 /\ scan = "join"

Quiet == /\ thread_resp_queue = Empty /\ thread_cmd_queue = Empty
         /\ thread_resp_arr = Empty /\ thread_cmd_arr = Empty
NoAnswer == thread_resp_arr = Empty /\ thread_cmd_arr = Empty

\* A worker without a connection waits in thread_cmd_queue until its status is
\* acknowledged.
AwaitsAcknowledgement ==
    /\ NoAnswer
    /\ \/ /\ thread_resp_queue # Empty /\ thread_cmd_queue = Empty
          /\ thread_resp_queue.read_finish_status = 0
          /\ thread_resp_queue.STATUS \notin {NOT_STARTED, RUNNING}
          /\ ~thread_resp_queue.CONN_ESTABLISHED
          /\ Enquiring /\ (CONN_ESTABLISHED <=> worker = "leaving")
       \/ /\ thread_resp_queue = Empty /\ ~CONN_ESTABLISHED
          /\ \/ thread_cmd_queue = Empty /\ Reported
             \/ thread_cmd_queue = DummyAck /\ Enquiring
             \/ thread_cmd_queue = Quit /\ (Settled \/ Replacing)

\* A worker that has connected asks for a request with its status.
AwaitsRequest ==
    /\ NoAnswer /\ Enquiring
    /\ \/ /\ thread_resp_queue = Status(1, RUNNING, FALSE, TRUE)
          /\ thread_cmd_queue = Empty /\ ~CONN_ESTABLISHED
       \/ /\ thread_resp_queue = Empty
          /\ thread_cmd_queue \in RequestMessage(Ids) /\ CONN_ESTABLISHED

\* A worker that has handed over an answer waits in thread_cmd_arr.  A QUIT put
\* into thread_cmd_queue stays there.
AwaitsCommand ==
    /\ thread_resp_queue = Empty
    /\ \/ /\ thread_cmd_queue = Empty /\ thread_cmd_arr = Empty
          /\ thread_resp_arr # Empty /\ Enquiring /\ CONN_ESTABLISHED
       \/ /\ thread_cmd_queue = Empty /\ NoAnswer
          /\ Reported /\ STATUS = DONE /\ CONN_ESTABLISHED
       \/ /\ thread_cmd_queue = Quit /\ NoAnswer
          /\ Enquiring \/ (Settled /\ STATUS = DONE)
          /\ CONN_ESTABLISHED
       \/ /\ thread_cmd_queue = Empty /\ thread_resp_arr = Empty
          /\ thread_cmd_arr \in RequestMessage(Ids) /\ Enquiring /\ CONN_ESTABLISHED
       \/ /\ thread_cmd_queue = Empty /\ thread_resp_arr = Empty
          /\ thread_cmd_arr = Quit
          /\ Settled \/ Replacing
          /\ ~CONN_ESTABLISHED

\* PLC and worker agree on how far they are: where the worker stands determines
\* what the mailboxes may hold and what the PLC may believe.
Agreement ==
    IF scan = "closed" THEN thread_cmd_queue \in {Quit, Empty}
    ELSE /\ worker = "none" => /\ Quiet /\ STATUS = NOT_STARTED /\ scan = "idle"
                               /\ read_finish_status = 1 /\ ~CONN_ESTABLISHED
         /\ worker = "starting" => Quiet /\ Enquiring /\ ~CONN_ESTABLISHED
         /\ worker \in {"retrying", "leaving"} => AwaitsAcknowledgement
         /\ worker = "ready" => AwaitsRequest
         /\ worker \in {"sending", "receiving", "crashed"} =>
                Quiet /\ Enquiring /\ CONN_ESTABLISHED
         /\ worker = "answered" => AwaitsCommand
         /\ worker = "exited" => /\ Quiet /\ ~CONN_ESTABLISHED
                                 /\ Enquiring \/ Settled \/ Replacing

\* Nobody waits for a message the other will not send: while the connection
\* is RUNNING there is a message to read or a worker that moves by itself.
NoMutualWait ==
    (STATUS = RUNNING /\ scan = "idle") =>
        \/ thread_resp_queue # Empty \/ thread_resp_arr # Empty
        \/ worker \in {"starting", "sending", "receiving"}
        \/ worker \in {"ready", "retrying", "leaving"} /\ thread_cmd_queue # Empty
        \/ worker = "answered" /\ thread_cmd_arr # Empty

\* CONN_ESTABLISHED tells the user program that the connection stands: there
\* is a worker that has not been told to leave, or a status not read yet says
\* that it leaves.
ConnectedHasWorker ==
    (CONN_ESTABLISHED /\ scan # "closed") =>
        /\ worker \notin {"none", "starting", "retrying", "exited"}
        /\ worker = "answered" => thread_cmd_arr # Quit
        /\ worker = "leaving" => thread_resp_queue # Empty

\* The connection implements the transfers it promises: a request is under way
\* while the connection is RUNNING on an established connection.
Transfer == INSTANCE ModbusTransfer WITH
    last <- sentId, stored <- dataArea,
    pending <- STATUS = RUNNING /\ CONN_ESTABLISHED
TransferSpec == Transfer!Spec
TransferSafety == Transfer!Init /\ [][Transfer!Next]_(Transfer!vars)

\* Every enquiry ends: the connection does not stay RUNNING.
EnquiryEnds == STATUS = RUNNING ~> STATUS # RUNNING

\* Once the connection is closed its worker ends, so that the PLC process,
\* which waits for its children, can end too.
ClosedWorkerEnds == scan = "closed" ~> worker \in {"exited", "crashed"}

\* What the test programs wait for: a transfer that succeeded is reported by
\* DONE_NDR, before the next one is.
DoneReported == (STATUS = DONE /\ ~ERROR) ~> DONE_NDR
=============================================================================
