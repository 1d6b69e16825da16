---------------------------- MODULE ModbusServer ----------------------------
(***************************************************************************)
(* A Modbus connection on which the PLC is the server (the slave): the PLC *)
(* calls SFB 102 once per scan (call_modbus_server_process), a worker      *)
(* process (test_run_server_ip or test_run_server_serial) listens on the   *)
(* medium, and a master connects and sends requests.                       *)
(*                                                                         *)
(* The mailboxes, and the way a call is split, are those of ModbusClient.  *)
(* Here thread_resp_arr carries requests to the PLC and thread_cmd_arr the *)
(* responses to the worker.                                                *)
(***************************************************************************)
EXTENDS ModbusMail, Sequences

CONSTANTS
    Interface,    \* network_interface_type: "IP" or "SERIAL"
    Program,      \* does the user program hold ENQ_ENR at 1 ("held")?
    Disconnects,  \* the values the user program gives to DISCONNECT
    Faults,       \* what may go wrong around the connection
    Stops,        \* when the CPU may be stopped, see Close
    MaxId,        \* the master's requests are numbered 1 .. MaxId, cyclically
    WireCap       \* messages the medium holds in each direction

ASSUME InterfaceAssumption  == Interface \in {"IP", "SERIAL"}
ASSUME ProgramAssumption    == Program \in {"held", "free"}
ASSUME DisconnectAssumption == Disconnects \subseteq BOOLEAN /\ Disconnects # {}
ASSUME FaultsAssumption     ==
    Faults \subseteq {"port", "slow", "close", "reset", "illegal"}
ASSUME StopsAssumption      == Stops \in {"never", "done", "anytime"}
ASSUME BoundAssumption      == MaxId \in Nat \ {0} /\ WireCap \in Nat \ {0}

VARIABLES
    STATUS, read_finish_status, ERROR, CONN_ESTABLISHED, disconnect,
    DONE_NDR,            \* the output the user program polls
    scan,                \* where the PLC stands in the call
    thread_resp_queue, thread_cmd_queue, thread_resp_arr, thread_cmd_arr,
    worker,              \* where the worker process stands
    workerDisconnect,    \* DISCONNECT as it was when the process was started
    heardId,             \* the request the worker received last
    answeredId,          \* the request the worker sent the last response to
    toServer, toMaster,  \* messages on the socket or the serial line
    masterOpen           \* is the socket open at the master's end?

fields  == <<STATUS, read_finish_status, ERROR, CONN_ESTABLISHED>>
mail    == <<thread_resp_queue, thread_cmd_queue, thread_resp_arr, thread_cmd_arr>>
process == <<worker, workerDisconnect, heardId, answeredId>>
wire    == <<toServer, toMaster, masterOpen>>
plcVars == <<fields, disconnect, DONE_NDR, scan>>
vars    == <<plcVars, mail, process, wire>>

Ids == 1 .. MaxId

Init ==
    /\ STATUS = NOT_STARTED
    /\ read_finish_status = 1
    /\ ERROR = FALSE
    /\ CONN_ESTABLISHED = FALSE
    /\ disconnect = TRUE
    /\ DONE_NDR = TRUE
    /\ scan = "idle"
    /\ thread_resp_queue = Empty /\ thread_cmd_queue = Empty
    /\ thread_resp_arr = Empty /\ thread_cmd_arr = Empty
    /\ worker = "none" /\ workerDisconnect = TRUE
    /\ heardId = 0 /\ answeredId = 0
    /\ toServer = <<>> /\ toMaster = <<>> /\ masterOpen = FALSE

-----------------------------------------------------------------------------
(* The PLC: one call of SFB 102 per scan.                                  *)

Call(ENQ_ENR) ==
    /\ scan = "idle"
    /\ ENQ_ENR = 0 => Program = "free"
    /\ disconnect' \in Disconnects

\* Variant: DONE_NDR is raised while the status is still to be read.
ReturnEarly ==
    /\ scan' = "idle"
    /\ DONE_NDR' = (STATUS' # RUNNING /\ read_finish_status' = 0)

Return ==
    /\ scan' = "idle"
    /\ DONE_NDR' = (STATUS' # RUNNING /\ read_finish_status' = 1)

\* The process is given the DISCONNECT of this call for its whole life.
Spawn(withDisconnect) ==
    /\ worker' = "starting"
    /\ workerDisconnect' = withDisconnect
    /\ UNCHANGED <<heardId, answeredId>>

CallStart ==
    /\ Call(1)
    /\ STATUS = NOT_STARTED
    /\ STATUS' = RUNNING
    /\ ERROR' = FALSE
    /\ Spawn(disconnect')
    /\ scan' = "status only"
    /\ UNCHANGED <<read_finish_status, CONN_ESTABLISHED, DONE_NDR, mail, wire>>

\* A status or the end of a transfer is still to be read: this call leaves
\* the outputs as they are.
CallReport ==
    /\ \E ENQ_ENR \in {0, 1} : Call(ENQ_ENR)
    /\ STATUS # RUNNING
    /\ read_finish_status = 0
    /\ read_finish_status' = 1
    /\ UNCHANGED <<STATUS, ERROR, CONN_ESTABLISHED>>
    /\ Return
    /\ UNCHANGED <<mail, process, wire>>

CallIdle ==
    /\ Call(0)
    /\ STATUS # RUNNING
    /\ read_finish_status = 1
    /\ UNCHANGED fields
    /\ Return
    /\ UNCHANGED <<mail, process, wire>>

\* The connection stands (DISCONNECT was false): wait for the next request.
CallResume ==
    /\ Call(1)
    /\ STATUS = DONE /\ CONN_ESTABLISHED
    /\ read_finish_status = 1
    /\ STATUS' = RUNNING
    /\ scan' = "status only"
    /\ UNCHANGED <<read_finish_status, ERROR, CONN_ESTABLISHED, DONE_NDR,
                   mail, process, wire>>

\* In all other cases the connection is enquired anew.  The process is taken
\* to have exited and is replaced, except on a serial line after a transfer.
CallAnew ==
    /\ Call(1)
    /\ STATUS \notin {NOT_STARTED, RUNNING}
    /\ read_finish_status = 1
    /\ ~(STATUS = DONE /\ CONN_ESTABLISHED)
    /\ STATUS' = RUNNING
    /\ ERROR' = FALSE
    /\ scan' = IF Interface = "IP" \/ STATUS # DONE THEN "join" ELSE "status"
    /\ UNCHANGED <<read_finish_status, CONN_ESTABLISHED, DONE_NDR, mail,
                   process, wire>>

CallPoll ==
    /\ scan = "idle"
    /\ STATUS = RUNNING
    /\ disconnect' \in Disconnects
    /\ scan' = "status"
    /\ UNCHANGED <<fields, DONE_NDR, mail, process, wire>>

\* join returns when the process has ended; the shared arrays are made anew.
Join ==
    /\ scan = "join"
    /\ worker \in {"exited", "crashed"}
    /\ thread_resp_queue' = Empty /\ thread_cmd_queue' = Empty
    /\ thread_resp_arr' = Empty /\ thread_cmd_arr' = Empty
    /\ Spawn(disconnect)
    /\ scan' = "status"
    /\ UNCHANGED <<fields, disconnect, DONE_NDR, wire>>

AfterStatus ==
    IF scan = "status" THEN scan' = "response" /\ UNCHANGED DONE_NDR ELSE Return

NoStatus ==
    /\ scan \in {"status", "status only"}
    /\ thread_resp_queue = Empty
    /\ UNCHANGED fields
    /\ AfterStatus
    /\ UNCHANGED <<disconnect, mail, process, wire>>

\* Variant: the status is not acknowledged.
AcknowledgeNothing == UNCHANGED thread_cmd_queue

\* send_dummy_ack_command
Acknowledge == Put(thread_cmd_queue, DummyAck)

\* The worker's status becomes the connection's and is acknowledged.
AdoptStatus ==
    /\ scan \in {"status", "status only"}
    /\ Get(thread_resp_queue)
    /\ STATUS' = thread_resp_queue.STATUS
    /\ read_finish_status' = thread_resp_queue.read_finish_status
    /\ ERROR' = thread_resp_queue.ERROR
    /\ CONN_ESTABLISHED' = thread_resp_queue.CONN_ESTABLISHED
    /\ Acknowledge
    /\ AfterStatus
    /\ UNCHANGED <<disconnect, thread_resp_arr, thread_cmd_arr, process, wire>>

NoRequest ==
    /\ scan = "response"
    /\ thread_resp_arr = Empty
    /\ UNCHANGED fields
    /\ Return
    /\ UNCHANGED <<disconnect, mail, process, wire>>

TakeRequest ==
    /\ scan = "response"
    /\ Get(thread_resp_arr)
    /\ STATUS' = DONE
    /\ UNCHANGED <<disconnect, thread_resp_queue, thread_cmd_queue, process, wire>>

\* A legal request is carried out and its response is handed to the worker.
ServeRequest ==
    /\ TakeRequest
    /\ thread_resp_arr.ok
    /\ ERROR' = FALSE
    /\ Put(thread_cmd_arr, Bytes(thread_resp_arr.id, TRUE))
    /\ read_finish_status' = IF disconnect THEN 1 ELSE 0
    /\ CONN_ESTABLISHED' = (~disconnect /\ Interface = "IP")
    /\ Return

\* For an illegal request the worker is told to quit; the response that names
\* the error is dropped.
RefuseRequest ==
    /\ TakeRequest
    /\ ~thread_resp_arr.ok
    /\ ERROR' = TRUE
    /\ Put(thread_cmd_arr, Quit)
    /\ read_finish_status' = 1
    /\ CONN_ESTABLISHED' = FALSE
    /\ Return

\* The CPU stops between two calls and the connection is closed: the worker is
\* told to quit, in thread_cmd_queue, wherever it stands.
Close ==
    /\ scan = "idle"
    /\ worker # "none"
    /\ \/ Stops = "anytime"
       \/ Stops = "done" /\ DONE_NDR
    /\ Put(thread_cmd_queue, Quit)
    /\ scan' = "closed"
    /\ UNCHANGED <<fields, disconnect, DONE_NDR, thread_resp_queue,
                   thread_resp_arr, thread_cmd_arr, process, wire>>

PlcNext ==
    \/ CallStart \/ CallReport \/ CallIdle \/ CallResume \/ CallAnew
    \/ CallPoll \/ Join \/ NoStatus \/ AdoptStatus
    \/ NoRequest \/ ServeRequest \/ RefuseRequest

-----------------------------------------------------------------------------
(* The worker process.                                                     *)

\* The sockets are closed and what they held is gone; what stands in a
\* serial device stays there.
CloseMedium ==
    IF Interface = "IP"
    THEN toServer' = <<>> /\ toMaster' = <<>> /\ masterOpen' = FALSE
    ELSE UNCHANGED wire

\* A variant: the status is not put.
LeaveSilently(status) ==
    /\ worker' = "leaving"
    /\ CloseMedium
    /\ UNCHANGED <<workerDisconnect, heardId, answeredId, mail, plcVars>>

\* The worker reports a status and waits for its acknowledgement, with the
\* sockets closed.
LeaveWith(status) ==
    /\ Put(thread_resp_queue, status)
    /\ worker' = "leaving"
    /\ CloseMedium
    /\ UNCHANGED <<workerDisconnect, heardId, answeredId, thread_cmd_queue,
                   thread_resp_arr, thread_cmd_arr, plcVars>>

\* The port is bound and listened to; on a serial line the device is opened
\* and there is nobody to wait for.
Listen ==
    /\ worker = "starting"
    /\ worker' = IF Interface = "IP" THEN "accepting" ELSE "receiving"
    /\ UNCHANGED <<workerDisconnect, heardId, answeredId, mail, wire, plcVars>>

\* The port cannot be bound: the process ends without a word.
BindFails ==
    /\ Interface = "IP" /\ "port" \in Faults
    /\ worker = "starting"
    /\ worker' = "exited"
    /\ UNCHANGED <<workerDisconnect, heardId, answeredId, mail, wire, plcVars>>

\* A master connects and accept returns; the new socket is empty.
Accept ==
    /\ worker = "accepting"
    /\ worker' = "greeting"
    /\ Put(thread_resp_queue, Status(1, RUNNING, FALSE, TRUE))
    /\ toServer' = <<>> /\ toMaster' = <<>> /\ masterOpen' = TRUE
    /\ UNCHANGED <<workerDisconnect, heardId, answeredId, thread_cmd_queue,
                   thread_resp_arr, thread_cmd_arr, plcVars>>

\* Nobody connects for conn_time.
AcceptTimesOut ==
    /\ "slow" \in Faults
    /\ worker = "accepting"
    /\ LeaveWith(Status(0, CONN_TIMEOUT_ERROR, TRUE, FALSE))

Greeted ==
    /\ worker = "greeting"
    /\ Get(thread_cmd_queue)
    /\ IF thread_cmd_queue = Quit
       THEN worker' = "exited" /\ CloseMedium
       ELSE worker' = "receiving" /\ UNCHANGED wire
    /\ UNCHANGED <<workerDisconnect, heardId, answeredId, thread_resp_queue,
                   thread_resp_arr, thread_cmd_arr, plcVars>>

\* The request that came first is handed to the PLC.  One read takes what
\* there is: requests that came right behind it are swallowed with it.
Receive ==
    /\ worker = "receiving"
    /\ toServer # <<>>
    /\ Put(thread_resp_arr, Head(toServer))
    /\ \E n \in 1 .. Len(toServer) : toServer' = SubSeq(toServer, n + 1, Len(toServer))
    /\ heardId' = Head(toServer).id
    /\ worker' = "asking"
    /\ UNCHANGED <<workerDisconnect, answeredId, thread_resp_queue,
                   thread_cmd_queue, thread_cmd_arr, toMaster, masterOpen,
                   plcVars>>

\* No request for recv_time.
ReceiveTimesOut ==
    /\ "slow" \in Faults
    /\ worker = "receiving" /\ toServer = <<>>
    /\ Interface = "IP" => masterOpen
    /\ LeaveWith(Status(0, IF Interface = "IP" THEN SERVER_ERROR
                                               ELSE RECV_TIMEOUT_ERROR, TRUE, FALSE))

\* The master has closed: recv returns no bytes and the loop is left with the
\* status of a connection that is running.
ReceiveEnd ==
    /\ Interface = "IP" /\ worker = "receiving"
    /\ toServer = <<>> /\ ~masterOpen
    /\ LeaveWith(Status(1, RUNNING, FALSE, FALSE))

\* A reset is no timeout: recv or send raises it and nothing catches it.
Reset ==
    /\ Interface = "IP" /\ "reset" \in Faults
    /\ ~masterOpen
    /\ \/ worker = "receiving" /\ UNCHANGED thread_cmd_arr
       \/ worker = "asking" /\ Get(thread_cmd_arr) /\ thread_cmd_arr # Quit
    /\ worker' = "crashed"
    /\ CloseMedium
    /\ UNCHANGED <<workerDisconnect, heardId, answeredId, thread_resp_queue,
                   thread_cmd_queue, thread_resp_arr, plcVars>>

Dismissed ==
    /\ worker = "asking"
    /\ Get(thread_cmd_arr)
    /\ thread_cmd_arr = Quit
    /\ worker' = "exited"
    /\ CloseMedium
    /\ UNCHANGED <<workerDisconnect, heardId, answeredId, thread_resp_queue,
                   thread_cmd_queue, thread_resp_arr, plcVars>>

\* The response is sent, or lost when the serial device stays full or the
\* master is gone.  With DISCONNECT the process ends and its socket closes;
\* the master can still read the response.
Respond ==
    /\ worker = "asking"
    /\ Get(thread_cmd_arr)
    /\ thread_cmd_arr # Quit
    /\ answeredId' = thread_cmd_arr.id
    /\ toMaster' = IF Len(toMaster) < WireCap /\ (Interface = "IP" => masterOpen)
                   THEN Append(toMaster, thread_cmd_arr) ELSE toMaster
    /\ IF workerDisconnect
       THEN /\ worker' = "exited"
            /\ masterOpen' = FALSE
            /\ toServer' = IF Interface = "IP" THEN <<>> ELSE toServer
       ELSE /\ worker' = "receiving"
            /\ UNCHANGED <<masterOpen, toServer>>
    /\ UNCHANGED <<workerDisconnect, heardId, thread_resp_queue, thread_cmd_queue,
                   thread_resp_arr, plcVars>>

\* Any message lets the process end.
Leave ==
    /\ worker = "leaving"
    /\ Get(thread_cmd_queue)
    /\ worker' = "exited"
    /\ UNCHANGED <<workerDisconnect, heardId, answeredId, thread_resp_queue,
                   thread_resp_arr, thread_cmd_arr, wire, plcVars>>

WorkerNext ==
    \/ Listen \/ BindFails \/ AcceptTimesOut \/ Greeted \/ Receive
    \/ ReceiveTimesOut \/ ReceiveEnd \/ Reset \/ Dismissed \/ Respond \/ Leave

-----------------------------------------------------------------------------
(* The master.                                                             *)

\* On a socket a master sends its next request when it has read the response
\* to the one before; on a serial line it may give up waiting and send again.
InFlight == toServer # <<>> \/ worker = "asking" \/ toMaster # <<>>
MasterSends ==
    /\ Len(toServer) < WireCap
    /\ IF Interface = "IP"
       THEN masterOpen /\ ~InFlight
       ELSE worker # "none" /\ (InFlight => "slow" \in Faults)
    /\ \E id \in Ids, ok \in IF "illegal" \in Faults THEN BOOLEAN ELSE {TRUE} :
          /\ id # heardId /\ \A i \in 1 .. Len(toServer) : id # toServer[i].id
          /\ toServer' = Append(toServer, Bytes(id, ok))
    /\ UNCHANGED <<toMaster, masterOpen, mail, process, plcVars>>

MasterReads ==
    /\ toMaster # <<>>
    /\ toMaster' = Tail(toMaster)
    /\ UNCHANGED <<toServer, masterOpen, mail, process, plcVars>>

MasterCloses ==
    /\ "close" \in Faults
    /\ masterOpen
    /\ masterOpen' = FALSE
    /\ UNCHANGED <<toServer, toMaster, mail, process, plcVars>>

Next ==
    \/ PlcNext \/ Close \/ Accept \/ WorkerNext
    \/ MasterSends \/ MasterReads \/ MasterCloses

\* The scan cycle never stops, the processes are scheduled, timers expire,
\* and a master that is not slow connects and sends its requests.
Fairness ==
    /\ WF_vars(PlcNext)
    /\ WF_vars(WorkerNext)
    /\ WF_vars(MasterReads)
    /\ WF_vars("slow" \notin Faults /\ (Accept \/ MasterSends))

Spec == Init /\ [][Next]_vars /\ Fairness

-----------------------------------------------------------------------------
(* Properties.                                                             *)

\* The worker has ended, or ends without another message from the PLC.
Ending ==
    \/ worker \in {"exited", "crashed"}
    \/ worker = "leaving" /\ thread_cmd_queue # Empty
    \/ worker = "asking" /\ thread_cmd_arr = Quit
    \/ worker = "asking" /\ thread_cmd_arr # Empty /\ workerDisconnect

\* "All these cases imply thread exited": the PLC joins the worker only when
\* the worker ends, otherwise the scan cycle stands still for good.
JoinedWorkerEnds == scan = "join" => Ending

\* Nobody waits for a message the other will not send: while the connection
\* is RUNNING there is a message to read or a worker that moves by itself.
NoMutualWait ==
    (STATUS = RUNNING /\ scan = "idle") =>
        \/ thread_resp_queue # Empty \/ thread_resp_arr # Empty
        \/ worker \in {"starting", "accepting", "receiving"}
        \/ worker \in {"greeting", "leaving"} /\ thread_cmd_queue # Empty
        \/ worker = "asking" /\ thread_cmd_arr # Empty

\* The connection implements the transfers it promises the master: the worker
\* hands over one request at a time, and the response it sends next, if any,
\* is the response to that request.
Service == INSTANCE ModbusTransfer WITH
    last <- heardId, pending <- worker = "asking", stored <- answeredId
ServiceSpec == Service!Spec

\* Every enquiry ends: the connection does not stay RUNNING.
EnquiryEnds == STATUS = RUNNING ~> STATUS # RUNNING

\* A transfer or an error is reported by DONE_NDR before the next enquiry.
DoneReported == (STATUS # RUNNING) ~> DONE_NDR
=============================================================================
