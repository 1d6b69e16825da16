------------------------- MODULE ModbusServerProofs -------------------------
(***************************************************************************)
(* The server connection of ModbusServer keeps its promises, for every     *)
(* numbering of the requests and every capacity of the medium.             *)
(*                                                                         *)
(* The inductive invariant IInv says in which mailbox a message may stand, *)
(* given where the worker stands: a worker that has put a status has its   *)
(* status or its acknowledgement in the queues (QueuesAgree), a worker     *)
(* that has handed over a request has the request or its response in the   *)
(* arrays (ArraysAgree), and the requests on the medium are none that was  *)
(* heard (RequestsFresh).  From it follow, whatever the user program and   *)
(* the master do and whatever goes wrong, that no message is overwritten   *)
(* and that the connection implements the transfers of ModbusTransfer.     *)
(*                                                                         *)
(* What the PLC believes of a worker it cannot see depends on DISCONNECT,  *)
(* which the worker keeps as it was when it was started.  With a DISCONNECT*)
(* that never changes two more invariants hold: EndBelieved, from which    *)
(* the PLC joins only workers that end, and LifeBelieved, from which it    *)
(* waits only for workers that live.                                       *)
(***************************************************************************)
EXTENDS ModbusServer, TLAPS

Errors == {CONN_TIMEOUT_ERROR, RECV_TIMEOUT_ERROR, SERVER_ERROR, CLIENT_ERROR}

\* Before the first enquiry there is no process; afterwards every state of the
\* call has its STATUS.
PlcTypeOK ==
    /\ STATUS \in StatusCode
    /\ read_finish_status \in {0, 1}
    /\ ERROR \in BOOLEAN /\ CONN_ESTABLISHED \in BOOLEAN
    /\ disconnect \in BOOLEAN /\ DONE_NDR \in BOOLEAN
    /\ scan \in {"idle", "join", "status only", "status", "response", "closed"}
    /\ scan \in {"join", "status only", "status"} => STATUS = RUNNING
    /\ STATUS = NOT_STARTED <=> worker = "none"
MailTypeOK ==
    /\ thread_resp_queue \in StatusMessage \cup {Empty}
    /\ thread_cmd_queue \in {DummyAck, Quit, Empty}
    /\ thread_resp_arr \in BytesMessage(Ids) \cup {Empty}
    /\ thread_cmd_arr \in BytesMessage(Ids) \cup {Quit, Empty}
ProcessTypeOK ==
    /\ worker \in {"none", "starting", "accepting", "greeting", "receiving",
                   "asking", "leaving", "exited", "crashed"}
    /\ workerDisconnect \in BOOLEAN
    /\ heardId \in 0 .. MaxId /\ answeredId \in 0 .. MaxId
WireTypeOK ==
    /\ toServer \in Seq(BytesMessage(Ids)) /\ toMaster \in Seq(BytesMessage(Ids))
    /\ masterOpen \in BOOLEAN
TypeOK == PlcTypeOK /\ MailTypeOK /\ ProcessTypeOK /\ WireTypeOK

\* A status that waits to be read is the one of a worker that waits for its
\* acknowledgement; nobody else leaves a message in the queues.
QueuesAgree ==
    /\ thread_resp_queue # Empty => thread_resp_queue.STATUS \in Errors \cup {RUNNING}
    /\ thread_resp_queue # Empty /\ worker = "greeting" => thread_resp_queue.STATUS = RUNNING
    /\ scan # "closed" =>
          /\ thread_cmd_queue # Quit
          /\ IF worker \in {"greeting", "leaving"}
             THEN (thread_resp_queue = Empty) <=> (thread_cmd_queue # Empty)
             ELSE thread_resp_queue = Empty /\ thread_cmd_queue = Empty

\* A worker that has handed over a request finds its response, or its end, in
\* thread_cmd_arr once the PLC has taken the request.
ArraysAgree ==
    IF worker = "asking"
    THEN /\ (thread_resp_arr = Empty) <=> (thread_cmd_arr # Empty)
         /\ thread_resp_arr # Empty => thread_resp_arr.id = heardId
         /\ thread_cmd_arr \notin {Empty, Quit} => thread_cmd_arr.id = heardId
         /\ heardId \in Ids
    ELSE thread_resp_arr = Empty /\ thread_cmd_arr = Empty

\* The master numbers its requests: none on the medium is the one heard last.
RequestsFresh ==
    \A i \in 1 .. Len(toServer) :
        /\ toServer[i].id # heardId
        /\ \A j \in 1 .. Len(toServer) : i # j => toServer[i].id # toServer[j].id

IInv == TypeOK /\ QueuesAgree /\ ArraysAgree /\ RequestsFresh

-----------------------------------------------------------------------------
\* The codes written out in the actions are codes of STATUS, and differ.
LEMMA Codes ==
    /\ {NOT_STARTED, RUNNING, DONE} \cup Errors = StatusCode
    /\ RUNNING # NOT_STARTED /\ DONE # NOT_STARTED /\ DONE # RUNNING
    /\ NOT_STARTED \notin Errors /\ RUNNING \notin Errors /\ DONE \notin Errors
<1> USE DEF Errors, NOT_STARTED, RUNNING, DONE, CONN_TIMEOUT_ERROR,
            RECV_TIMEOUT_ERROR, SERVER_ERROR, CLIENT_ERROR
<1>1. \A c : c \in StatusCode <=> c \in {NOT_STARTED, RUNNING, DONE} \cup Errors
  BY DEF StatusCode
<1>2. QED
  BY <1>1

\* What a worker says in the statuses it puts.
LEMMA Statuses ==
    /\ \A e \in Errors : /\ Status(0, e, TRUE, FALSE) \in StatusMessage
                         /\ Status(0, e, TRUE, FALSE).STATUS = e
    /\ Status(1, RUNNING, FALSE, TRUE) \in StatusMessage
    /\ Status(1, RUNNING, FALSE, FALSE) \in StatusMessage
    /\ \A c : Status(1, RUNNING, FALSE, c).STATUS = RUNNING
<1>1. \A e \in Errors : e \in StatusCode
  BY Codes
<1>2. RUNNING \in StatusCode
  BY Codes
<1>3. /\ \A e : Status(0, e, TRUE, FALSE).STATUS = e
      /\ \A c : Status(1, RUNNING, FALSE, c).STATUS = RUNNING
  BY DEF Status
<1>4. \A f \in {0, 1}, s \in StatusCode, e, c \in BOOLEAN : Status(f, s, e, c) \in StatusMessage
  BY StatusTypes
<1>5. \A e \in Errors : Status(0, e, TRUE, FALSE) \in StatusMessage
  BY <1>1, <1>4
<1>6. /\ Status(1, RUNNING, FALSE, TRUE) \in StatusMessage
      /\ Status(1, RUNNING, FALSE, FALSE) \in StatusMessage
  BY <1>2, <1>4
<1>7. QED
  BY <1>3, <1>5, <1>6

\* The requests are numbered from 1, and 0 is none of them.
LEMMA IdTypes == Ids \subseteq 0 .. MaxId /\ 0 \in 0 .. MaxId /\ 0 \notin Ids
BY BoundAssumption DEF Ids

\* The status a leaving worker puts.
LEMMA LeavingStatus ==
    ASSUME AcceptTimesOut \/ ReceiveTimesOut \/ ReceiveEnd
    PROVE  \E s \in StatusMessage :
              /\ LeaveWith(s)
              /\ worker \in {"accepting", "receiving"}
              /\ s.STATUS \in Errors \/ (s.STATUS = RUNNING /\ ~masterOpen
                                         /\ Interface = "IP" /\ worker = "receiving")
<1>1. CASE AcceptTimesOut
  <2>1. CONN_TIMEOUT_ERROR \in Errors
    BY DEF Errors
  <2>2. QED
    BY <1>1, <2>1, Statuses, Codes DEF AcceptTimesOut
<1>2. CASE ReceiveTimesOut
  <2> DEFINE e == IF Interface = "IP" THEN SERVER_ERROR ELSE RECV_TIMEOUT_ERROR
  <2>1. e \in Errors
    BY DEF Errors
  <2>2. LeaveWith(Status(0, e, TRUE, FALSE))
    BY <1>2 DEF ReceiveTimesOut
  <2>3. worker = "receiving"
    BY <1>2 DEF ReceiveTimesOut
  <2> HIDE DEF e
  <2>4. QED
    BY <2>1, <2>2, <2>3, Statuses, Codes
<1>3. CASE ReceiveEnd
  BY <1>3, Statuses, Codes DEF ReceiveEnd
<1>4. QED
  BY <1>1, <1>2, <1>3

-----------------------------------------------------------------------------
\* What the PLC keeps stays typed: a call sets it to constants or to what the
\* status it reads carries.
LEMMA PlcStep == IInv /\ [Next]_vars => PlcTypeOK'
<1> SUFFICES ASSUME IInv, [Next]_vars PROVE PlcTypeOK'
  OBVIOUS
<1> USE Codes DEF IInv, TypeOK, PlcTypeOK
<1>0. CASE UNCHANGED <<plcVars, worker>>
  BY <1>0 DEF plcVars, fields
<1>1. CASE CallStart
  BY <1>1, DisconnectAssumption DEF CallStart, Call, Spawn
<1>2. CASE CallReport \/ CallIdle
  BY <1>2, DisconnectAssumption DEF CallReport, CallIdle, Call, Return, fields,
     process
<1>3. CASE CallResume
  BY <1>3, DisconnectAssumption DEF CallResume, Call, process
<1>4. CASE CallAnew
  BY <1>4, DisconnectAssumption DEF CallAnew, Call, process
<1>5. CASE CallPoll
  BY <1>5, DisconnectAssumption DEF CallPoll, fields, process
<1>6. CASE Join
  BY <1>6 DEF Join, Spawn, fields
<1>7. CASE NoStatus
  BY <1>7 DEF NoStatus, AfterStatus, Return, fields, process
<1>8. CASE AdoptStatus
  <2>1. thread_resp_queue \in StatusMessage /\ thread_resp_queue.STATUS # NOT_STARTED
    BY <1>8 DEF AdoptStatus, Get, MailTypeOK, QueuesAgree
  <2>2. QED
    BY <1>8, <2>1, StatusTypes DEF AdoptStatus, AfterStatus, Return, process
<1>9. CASE NoRequest
  BY <1>9 DEF NoRequest, Return, fields, process
<1>10. CASE ServeRequest \/ RefuseRequest
  <2>1. worker = "asking"
    BY <1>10 DEF ServeRequest, RefuseRequest, TakeRequest, Get, ArraysAgree
  <2>2. QED
    BY <1>10, <2>1 DEF ServeRequest, RefuseRequest, TakeRequest, Return, process
<1>11. CASE Close
  BY <1>11 DEF Close, fields, process
<1>12. CASE Accept \/ WorkerNext
  <2>1. UNCHANGED plcVars /\ worker # "none" /\ worker' # "none"
    BY <1>12 DEF Accept, WorkerNext, Listen, BindFails, AcceptTimesOut,
       LeaveWith, Greeted, Receive, ReceiveTimesOut, ReceiveEnd, Reset,
       Dismissed, Respond, Leave
  <2>2. QED
    BY <2>1 DEF plcVars, fields
<1>13. CASE MasterSends \/ MasterReads \/ MasterCloses
  BY <1>0, <1>13 DEF MasterSends, MasterReads, MasterCloses, process
<1>14. QED
  BY <1>0, <1>1, <1>2, <1>3, <1>4, <1>5, <1>6, <1>7, <1>8, <1>9, <1>10, <1>11,
     <1>12, <1>13 DEF Next, PlcNext, vars, process

\* The mailboxes hold messages of their kind.
LEMMA MailStep == IInv /\ [Next]_vars => MailTypeOK'
<1> SUFFICES ASSUME IInv, [Next]_vars PROVE MailTypeOK'
  OBVIOUS
<1> USE DEF IInv, TypeOK, MailTypeOK
<1>0. CASE UNCHANGED mail
  BY <1>0 DEF mail
<1>1. CASE Join
  BY <1>1 DEF Join
<1>2. CASE AdoptStatus \/ Close \/ Greeted \/ Leave
  BY <1>2 DEF AdoptStatus, Acknowledge, Close, Greeted, Leave, Put, Get
<1>3. CASE ServeRequest
  <2>1. thread_resp_arr.id \in Ids
    BY <1>3, BytesTypes DEF ServeRequest, TakeRequest, Get
  <2>2. Bytes(thread_resp_arr.id, TRUE) \in BytesMessage(Ids)
    BY <2>1, BytesTypes
  <2>3. QED
    BY <1>3, <2>2 DEF ServeRequest, TakeRequest, Put, Get
<1>4. CASE RefuseRequest
  BY <1>4 DEF RefuseRequest, TakeRequest, Put, Get
<1>5. CASE Accept
  BY <1>5, Statuses DEF Accept, Put
<1>6. CASE AcceptTimesOut \/ ReceiveTimesOut \/ ReceiveEnd
  <2>1. PICK s \in StatusMessage : LeaveWith(s)
    BY <1>6, LeavingStatus
  <2>2. QED
    BY <2>1 DEF LeaveWith, Put
<1>7. CASE Receive
  <2>1. Head(toServer) \in BytesMessage(Ids)
    BY <1>7 DEF Receive, WireTypeOK
  <2>2. QED
    BY <1>7, <2>1 DEF Receive, Put
<1>8. CASE Reset \/ Dismissed \/ Respond
  BY <1>8 DEF Reset, Dismissed, Respond, Get
<1>9. CASE \/ CallStart \/ CallReport \/ CallIdle \/ CallResume \/ CallAnew
           \/ CallPoll \/ NoStatus \/ NoRequest \/ Listen \/ BindFails
           \/ MasterSends \/ MasterReads \/ MasterCloses
  BY <1>0, <1>9 DEF CallStart, CallReport, CallIdle, CallResume, CallAnew,
     CallPoll, NoStatus, NoRequest, Listen, BindFails, MasterSends,
     MasterReads, MasterCloses
<1>10. QED
  BY <1>0, <1>1, <1>2, <1>3, <1>4, <1>5, <1>6, <1>7, <1>8, <1>9
     DEF Next, PlcNext, WorkerNext, vars

\* What the worker keeps stays typed.
LEMMA ProcessStep == IInv /\ [Next]_vars => ProcessTypeOK'
<1> SUFFICES ASSUME IInv, [Next]_vars PROVE ProcessTypeOK'
  OBVIOUS
<1> USE DEF IInv, TypeOK, ProcessTypeOK
<1>0. CASE UNCHANGED process
  BY <1>0 DEF process
<1>1. CASE CallStart
  BY <1>1, DisconnectAssumption DEF CallStart, Call, Spawn
<1>2. CASE Join
  BY <1>2 DEF Join, Spawn, PlcTypeOK
<1>3. CASE Accept \/ Listen \/ BindFails \/ Greeted \/ Reset \/ Dismissed \/ Leave
  BY <1>3 DEF Accept, Listen, BindFails, Greeted, Reset, Dismissed, Leave
<1>4. CASE AcceptTimesOut \/ ReceiveTimesOut \/ ReceiveEnd
  BY <1>4, LeavingStatus DEF LeaveWith
<1>5. CASE Receive
  <2>1. Head(toServer).id \in Ids
    BY <1>5, BytesTypes DEF Receive, WireTypeOK
  <2>2. QED
    BY <1>5, <2>1, IdTypes DEF Receive
<1>6. CASE Respond
  <2>1. thread_cmd_arr.id \in Ids
    BY <1>6, BytesTypes DEF Respond, Get, MailTypeOK
  <2>2. QED
    BY <1>6, <2>1, IdTypes DEF Respond
<1>7. CASE \/ CallReport \/ CallIdle \/ CallResume \/ CallAnew
           \/ CallPoll \/ NoStatus \/ AdoptStatus \/ NoRequest
           \/ ServeRequest \/ RefuseRequest \/ Close
           \/ MasterSends \/ MasterReads \/ MasterCloses
  BY <1>0, <1>7 DEF CallReport, CallIdle, CallResume, CallAnew, CallPoll,
     NoStatus, AdoptStatus, NoRequest, ServeRequest, RefuseRequest, TakeRequest,
     Close, MasterSends, MasterReads, MasterCloses
<1>8. QED
  BY <1>0, <1>1, <1>2, <1>3, <1>4, <1>5, <1>6, <1>7
     DEF Next, PlcNext, WorkerNext, vars

\* What CloseMedium leaves of the medium: all of it, or nothing.
LEMMA MediumClosed ==
    ASSUME CloseMedium
    PROVE  \/ UNCHANGED <<toServer, toMaster, masterOpen>>
           \/ toServer' = <<>> /\ toMaster' = <<>> /\ masterOpen' = FALSE
BY DEF CloseMedium, wire

\* Messages are put on the medium whole.
LEMMA WireStep == IInv /\ [Next]_vars => WireTypeOK'
<1> SUFFICES ASSUME IInv, [Next]_vars PROVE WireTypeOK'
  OBVIOUS
<1> USE DEF IInv, TypeOK, WireTypeOK
<1>0. CASE UNCHANGED wire
  BY <1>0 DEF wire
<1>a. <<>> \in Seq(BytesMessage(Ids))
  OBVIOUS
<1>1. ASSUME CloseMedium PROVE WireTypeOK'
  BY <1>1, <1>a, MediumClosed
<1>2. CASE Accept
  BY <1>2, <1>a DEF Accept
<1>3. CASE AcceptTimesOut \/ ReceiveTimesOut \/ ReceiveEnd
  BY <1>1, <1>3, LeavingStatus DEF LeaveWith
<1>4. CASE Greeted \/ Reset \/ Dismissed
  BY <1>0, <1>1, <1>4 DEF Greeted, Reset, Dismissed
<1>5. CASE Receive
  <2>1. PICK n \in 1 .. Len(toServer) : toServer' = SubSeq(toServer, n + 1, Len(toServer))
    BY <1>5 DEF Receive
  <2>2. SubSeq(toServer, n + 1, Len(toServer)) \in Seq(BytesMessage(Ids))
    <3>1. Len(toServer) \in Nat
      OBVIOUS
    <3>2. QED
      BY <2>1, <3>1
  <2>3. QED
    BY <1>5, <2>1, <2>2 DEF Receive
<1>6. CASE Respond
  <2>1. thread_cmd_arr \in BytesMessage(Ids)
    BY <1>6 DEF Respond, Get, MailTypeOK
  <2>2. toMaster' \in Seq(BytesMessage(Ids))
    BY <1>6, <2>1 DEF Respond
  <2>3. QED
    BY <1>6, <1>a, <2>2 DEF Respond
<1>7. CASE MasterSends
  <2>1. PICK id \in Ids, ok \in BOOLEAN : toServer' = Append(toServer, Bytes(id, ok))
    BY <1>7 DEF MasterSends
  <2>2. Bytes(id, ok) \in BytesMessage(Ids)
    BY <2>1, BytesTypes
  <2>3. QED
    BY <1>7, <2>1, <2>2 DEF MasterSends
<1>8. CASE MasterReads
  <2>1. Tail(toMaster) \in Seq(BytesMessage(Ids))
    BY <1>8 DEF MasterReads
  <2>2. QED
    BY <1>8, <2>1 DEF MasterReads
<1>b. CASE MasterCloses
  BY <1>b DEF MasterCloses
<1>9. CASE PlcNext \/ Close \/ Listen \/ BindFails \/ Leave
  BY <1>0, <1>9 DEF PlcNext, CallStart, CallReport, CallIdle, CallResume,
     CallAnew, CallPoll, Join, NoStatus, AdoptStatus, NoRequest, ServeRequest,
     RefuseRequest, TakeRequest, Close, Listen, BindFails, Leave
<1>10. QED
  BY <1>0, <1>2, <1>3, <1>4, <1>5, <1>6, <1>7, <1>8, <1>b, <1>9
     DEF Next, WorkerNext, vars

\* A status and its acknowledgement follow each other through the queues.
LEMMA QueuesStep == IInv /\ [Next]_vars => QueuesAgree'
<1> SUFFICES ASSUME IInv, [Next]_vars PROVE QueuesAgree'
  OBVIOUS
<1> USE MessagesDiffer DEF IInv, TypeOK, QueuesAgree
<1>0. CASE UNCHANGED <<scan, worker, thread_resp_queue, thread_cmd_queue>>
  BY <1>0
<1>1. CASE CallStart \/ Join
  BY <1>1, Codes DEF CallStart, Call, Join, Spawn, mail, PlcTypeOK
<1>2. CASE \/ CallReport \/ CallIdle \/ CallResume \/ CallAnew \/ CallPoll
           \/ NoStatus \/ NoRequest
  <2>1. scan # "closed" /\ UNCHANGED <<worker, thread_resp_queue, thread_cmd_queue>>
    BY <1>2 DEF CallReport, CallIdle, CallResume, CallAnew, Call, CallPoll,
       NoStatus, NoRequest, mail, process
  <2>2. QED
    BY <2>1
<1>3. CASE AdoptStatus
  BY <1>3 DEF AdoptStatus, Acknowledge, Put, Get, process
<1>4. CASE ServeRequest \/ RefuseRequest
  <2>1. scan # "closed" /\ UNCHANGED <<worker, thread_resp_queue, thread_cmd_queue>>
    BY <1>4 DEF ServeRequest, RefuseRequest, TakeRequest, process
  <2>2. QED
    BY <2>1
<1>5. CASE Close
  BY <1>5 DEF Close, process
<1>6. CASE Accept
  BY <1>6, Statuses, Codes DEF Accept, Put, plcVars
<1>7. CASE AcceptTimesOut \/ ReceiveTimesOut \/ ReceiveEnd
  <2>1. PICK s \in StatusMessage : /\ LeaveWith(s) /\ s.STATUS \in Errors \cup {RUNNING}
                                  /\ worker \in {"accepting", "receiving"}
    BY <1>7, LeavingStatus
  <2>2. s # Empty
    BY StatusTypes
  <2>3. QED
    BY <2>1, <2>2 DEF LeaveWith, Put, plcVars
<1>8. CASE Greeted \/ Leave
  BY <1>8 DEF Greeted, Leave, Get, plcVars
<1>9. CASE Listen \/ BindFails \/ Receive \/ Reset \/ Dismissed \/ Respond
  <2>1. /\ worker \notin {"greeting", "leaving"} /\ worker' \notin {"greeting", "leaving"}
        /\ UNCHANGED <<scan, thread_resp_queue, thread_cmd_queue>>
    BY <1>9 DEF Listen, BindFails, Receive, Reset, Dismissed, Respond, plcVars, mail
  <2>2. QED
    BY <2>1
<1>10. CASE MasterSends \/ MasterReads \/ MasterCloses
  BY <1>0, <1>10 DEF MasterSends, MasterReads, MasterCloses, mail, process, plcVars
<1>11. QED
  BY <1>0, <1>1, <1>2, <1>3, <1>4, <1>5, <1>6, <1>7, <1>8, <1>9, <1>10
     DEF Next, PlcNext, WorkerNext, vars, mail, process, plcVars

\* A request and its response follow each other through the arrays.
LEMMA ArraysStep == IInv /\ [Next]_vars => ArraysAgree'
<1> SUFFICES ASSUME IInv, [Next]_vars PROVE ArraysAgree'
  OBVIOUS
<1> USE MessagesDiffer DEF IInv, TypeOK, ArraysAgree
<1>0. CASE UNCHANGED <<worker, heardId, thread_resp_arr, thread_cmd_arr>>
  BY <1>0
<1>1. CASE CallStart \/ Join
  BY <1>1, Codes DEF CallStart, Call, Join, Spawn, mail, PlcTypeOK
<1>2. CASE \/ CallReport \/ CallIdle \/ CallResume \/ CallAnew \/ CallPoll
           \/ NoStatus \/ AdoptStatus \/ NoRequest \/ Close
  BY <1>0, <1>2 DEF CallReport, CallIdle, CallResume, CallAnew, CallPoll,
     NoStatus, AdoptStatus, NoRequest, Close, mail, process
<1>3. CASE ServeRequest
  <2>1. Bytes(thread_resp_arr.id, TRUE).id = thread_resp_arr.id
    BY DEF Bytes
  <2>2. QED
    BY <1>3, <2>1 DEF ServeRequest, TakeRequest, Put, Get, process
<1>4. CASE RefuseRequest
  BY <1>4 DEF RefuseRequest, TakeRequest, Put, Get, process
<1>5. CASE Receive
  <2>1. Head(toServer) \in BytesMessage(Ids)
    BY <1>5 DEF Receive, WireTypeOK
  <2>2. Head(toServer) # Empty /\ Head(toServer).id \in Ids
    BY <2>1, BytesTypes
  <2>3. QED
    BY <1>5, <2>2 DEF Receive, Put
<1>6. CASE \/ Accept \/ AcceptTimesOut \/ ReceiveTimesOut \/ ReceiveEnd
           \/ Listen \/ BindFails \/ Greeted \/ Leave
  <2>1. worker # "asking" /\ worker' # "asking" /\ UNCHANGED <<thread_resp_arr, thread_cmd_arr>>
    BY <1>6 DEF Accept, AcceptTimesOut, ReceiveTimesOut, ReceiveEnd, LeaveWith,
       Listen, BindFails, Greeted, Leave, mail
  <2>2. QED
    BY <2>1
<1>7. CASE Reset \/ Dismissed \/ Respond
  <2>1. worker' # "asking" /\ thread_resp_arr' = Empty /\ thread_cmd_arr' = Empty
    BY <1>7 DEF Reset, Dismissed, Respond, Get
  <2>2. QED
    BY <2>1
<1>8. CASE MasterSends \/ MasterReads \/ MasterCloses
  BY <1>0, <1>8 DEF MasterSends, MasterReads, MasterCloses, mail, process
<1>9. QED
  BY <1>0, <1>1, <1>2, <1>3, <1>4, <1>5, <1>6, <1>7, <1>8
     DEF Next, PlcNext, WorkerNext, vars, mail, process

\* The requests on the medium stay different from the one heard and from each
\* other: reading takes them from the front, sending adds a new number.
LEMMA FreshStep == IInv /\ [Next]_vars => RequestsFresh'
<1> SUFFICES ASSUME IInv, [Next]_vars PROVE RequestsFresh'
  OBVIOUS
<1> USE DEF IInv, TypeOK, WireTypeOK
<1>0. CASE UNCHANGED <<toServer, heardId>>
  BY <1>0 DEF RequestsFresh
<1>1. CASE toServer' = <<>>
  BY <1>1 DEF RequestsFresh
<1>2. ASSUME CloseMedium, UNCHANGED heardId PROVE RequestsFresh'
  BY <1>0, <1>1, <1>2, MediumClosed
<1>3. CASE Accept
  BY <1>1, <1>3 DEF Accept
<1>4. CASE \/ AcceptTimesOut \/ ReceiveTimesOut \/ ReceiveEnd
           \/ Greeted \/ Reset \/ Dismissed
  BY <1>0, <1>2, <1>4, LeavingStatus DEF LeaveWith, Greeted, Reset, Dismissed, wire
<1>5. CASE Receive
  <2>1. PICK n \in 1 .. Len(toServer) : toServer' = SubSeq(toServer, n + 1, Len(toServer))
    BY <1>5 DEF Receive
  <2>2. heardId' = toServer[1].id /\ Len(toServer) \in Nat
    BY <1>5 DEF Receive
  <2>3. /\ Len(toServer') = Len(toServer) - n
        /\ \A i \in 1 .. Len(toServer') : /\ toServer'[i] = toServer[i + n]
                                        /\ i + n \in 2 .. Len(toServer)
    BY <2>1, <2>2
  <2>4. ASSUME NEW i \in 1 .. Len(toServer')
        PROVE  toServer'[i].id # heardId'
    <3>1. i + n \in 1 .. Len(toServer) /\ 1 \in 1 .. Len(toServer) /\ i + n # 1
      BY <2>2, <2>3
    <3>2. QED
      BY <2>2, <2>3, <3>1 DEF RequestsFresh
  <2>5. ASSUME NEW i \in 1 .. Len(toServer'), NEW j \in 1 .. Len(toServer'), i # j
        PROVE  toServer'[i].id # toServer'[j].id
    <3>1. /\ i + n \in 1 .. Len(toServer) /\ j + n \in 1 .. Len(toServer)
          /\ i + n # j + n
      BY <2>2, <2>3, <2>5
    <3>2. QED
      BY <2>3, <3>1 DEF RequestsFresh
  <2>6. QED
    BY <2>4, <2>5 DEF RequestsFresh
<1>6. CASE Respond
  BY <1>0, <1>1, <1>6 DEF Respond
<1>7. CASE MasterSends
  <2>1. PICK id \in Ids, ok \in BOOLEAN :
            /\ id # heardId /\ \A i \in 1 .. Len(toServer) : id # toServer[i].id
            /\ toServer' = Append(toServer, Bytes(id, ok))
    BY <1>7 DEF MasterSends
  <2>2. Bytes(id, ok).id = id
    BY DEF Bytes
  <2>3. UNCHANGED heardId
    BY <1>7 DEF MasterSends, process
  <2> DEFINE n == Len(toServer)
  <2>4. /\ n \in Nat /\ Len(toServer') = n + 1 /\ toServer'[n + 1] = Bytes(id, ok)
        /\ \A i \in 1 .. n : toServer'[i] = toServer[i]
    BY <2>1
  <2>5. \A i \in 1 .. n + 1 : i \in 1 .. n \/ i = n + 1
    BY <2>4
  <2>6. \A i \in 1 .. n : toServer'[i].id # toServer'[n + 1].id
    BY <2>1, <2>2, <2>4
  <2> HIDE DEF n
  <2>7. \A i \in 1 .. n : /\ toServer[i].id # heardId
                         /\ \A j \in 1 .. n : i # j => toServer[i].id # toServer[j].id
    BY DEF RequestsFresh, n
  <2>8. QED
    BY <2>1, <2>2, <2>3, <2>4, <2>5, <2>6, <2>7 DEF RequestsFresh
<1>8. CASE PlcNext \/ Close \/ Listen \/ BindFails \/ Leave \/ MasterReads \/ MasterCloses
  <2>1. UNCHANGED <<toServer, heardId>>
    BY <1>8 DEF PlcNext, CallStart, CallReport, CallIdle, CallResume, CallAnew,
       CallPoll, Join, Spawn, NoStatus, AdoptStatus, NoRequest, ServeRequest,
       RefuseRequest, TakeRequest, Close, Listen, BindFails, Leave, MasterReads,
       MasterCloses, wire, process
  <2>2. QED
    BY <1>0, <2>1
<1>9. QED
  BY <1>0, <1>3, <1>4, <1>5, <1>6, <1>7, <1>8 DEF Next, WorkerNext, vars, wire, process

\* Before the first call there is nothing in the mailboxes and on the medium.
LEMMA Initial == Init => IInv
<1> SUFFICES ASSUME Init PROVE IInv
  OBVIOUS
<1>1. PlcTypeOK
  BY DEF Init, PlcTypeOK, StatusCode
<1>2. MailTypeOK /\ QueuesAgree /\ ArraysAgree
  BY MessagesDiffer DEF Init, MailTypeOK, QueuesAgree, ArraysAgree
<1>3. ProcessTypeOK
  BY IdTypes DEF Init, ProcessTypeOK
<1>4. WireTypeOK
  <2>1. <<>> \in Seq(BytesMessage(Ids))
    OBVIOUS
  <2>2. QED
    BY <2>1 DEF Init, WireTypeOK
<1>5. RequestsFresh
  BY DEF Init, RequestsFresh
<1>6. QED
  BY <1>1, <1>2, <1>3, <1>4, <1>5 DEF IInv, TypeOK

\* The inductive invariant holds throughout.
THEOREM Invariance == Spec => []IInv
<1>1. IInv /\ [Next]_vars => IInv'
  BY PlcStep, MailStep, ProcessStep, WireStep, QueuesStep, ArraysStep, FreshStep
     DEF IInv, TypeOK
<1>2. QED
  BY Initial, <1>1, PTL DEF Spec

\* Every variable keeps its type: the statuses, requests and responses that
\* call_modbus_server_process and the workers exchange are of the kind the
\* receiver unpacks.
THEOREM TypeCorrectness == Spec => []TypeOK
<1>1. IInv => TypeOK
  BY DEF IInv
<1>2. QED
  BY Invariance, <1>1, PTL

-----------------------------------------------------------------------------
\* put does not look whether the message before was read.
Kept(mailbox) == mailbox # Empty => mailbox' \in {mailbox, Empty}
NoMessageOverwritten ==
    [][Kept(thread_resp_queue) /\ Kept(thread_cmd_queue)
       /\ Kept(thread_resp_arr) /\ Kept(thread_cmd_arr)]_vars

\* A CPU that is not stopped closes no connection.
LEMMA NeverClosed == ASSUME Stops = "never" PROVE Spec => [](scan # "closed")
<1>1. Init => scan # "closed"
  BY DEF Init
<1>2. scan # "closed" /\ [Next]_vars => (scan # "closed")'
  BY DEF vars, plcVars, Next, PlcNext, WorkerNext, CallStart, CallReport, CallIdle,
     CallResume, CallAnew, CallPoll, Join, NoStatus, AdoptStatus, AfterStatus,
     NoRequest, ServeRequest, RefuseRequest, TakeRequest, Return, Close, Listen,
     BindFails, Accept, AcceptTimesOut, LeaveWith, Greeted, Receive,
     ReceiveTimesOut, ReceiveEnd, Reset, Dismissed, Respond, Leave, MasterSends,
     MasterReads, MasterCloses
<1>3. QED
  BY <1>1, <1>2, PTL DEF Spec

\* As long as the CPU is not stopped, put never overwrites a message that was
\* not read, whatever DISCONNECT the user program gives and whatever goes wrong.
THEOREM NothingOverwritten ==
    ASSUME Stops = "never" PROVE Spec => NoMessageOverwritten
<1> DEFINE Keeps == /\ Kept(thread_resp_queue) /\ Kept(thread_cmd_queue)
                    /\ Kept(thread_resp_arr) /\ Kept(thread_cmd_arr)
<1>1. IInv /\ scan # "closed" /\ [Next]_vars => [Keeps]_vars
  <2> SUFFICES ASSUME IInv, scan # "closed", [Next]_vars PROVE Keeps
    OBVIOUS
  <2> USE DEF IInv, TypeOK, Kept
  <2>0. CASE UNCHANGED mail
    BY <2>0 DEF mail
  <2>1. CASE Close
    BY <2>1 DEF Close
  <2>2. CASE Join
    BY <2>2 DEF Join
  <2>3. CASE AdoptStatus
    BY <2>3, MessagesDiffer DEF AdoptStatus, Acknowledge, Put, Get, QueuesAgree
  <2>4. CASE ServeRequest \/ RefuseRequest
    BY <2>4 DEF ServeRequest, RefuseRequest, TakeRequest, Put, Get, ArraysAgree
  <2>5. CASE Accept
    BY <2>5 DEF Accept, Put, QueuesAgree
  <2>6. CASE AcceptTimesOut \/ ReceiveTimesOut \/ ReceiveEnd
    <3>1. PICK s \in StatusMessage : LeaveWith(s) /\ worker \in {"accepting", "receiving"}
      BY <2>6, LeavingStatus
    <3>2. QED
      BY <3>1 DEF LeaveWith, Put, QueuesAgree
  <2>7. CASE Receive
    BY <2>7 DEF Receive, Put, ArraysAgree
  <2>8. CASE Greeted \/ Reset \/ Dismissed \/ Respond \/ Leave
    BY <2>8 DEF Greeted, Reset, Dismissed, Respond, Leave, Get
  <2>9. CASE \/ CallStart \/ CallReport \/ CallIdle \/ CallResume \/ CallAnew
             \/ CallPoll \/ NoStatus \/ NoRequest \/ Listen \/ BindFails
             \/ MasterSends \/ MasterReads \/ MasterCloses
    BY <2>0, <2>9 DEF CallStart, CallReport, CallIdle, CallResume, CallAnew,
       CallPoll, NoStatus, NoRequest, Listen, BindFails, MasterSends,
       MasterReads, MasterCloses
  <2>10. QED
    BY <2>0, <2>1, <2>2, <2>3, <2>4, <2>5, <2>6, <2>7, <2>8, <2>9
       DEF Next, PlcNext, WorkerNext, vars
<1>2. QED
  BY Invariance, NeverClosed, <1>1, PTL DEF Spec, NoMessageOverwritten, Keeps

\* The safety part of ServiceSpec.
ServiceSafety == Service!Init /\ [][Service!Next]_(Service!vars)

\* Whatever the user program, the master and the medium do, the worker hands
\* over one request at a time and the response it sends next, if any, is the
\* response to that request.
THEOREM ImplementsService == Spec => ServiceSafety
<1> DEFINE
       pending   == worker = "asking"
       Making    == ~pending /\ pending' /\ heardId' \in Ids \ {heardId} /\ UNCHANGED answeredId
       Completing == pending /\ ~pending' /\ UNCHANGED heardId /\ answeredId' = heardId
       Failing   == pending /\ ~pending' /\ UNCHANGED <<heardId, answeredId>>
       Keeping   == (pending' <=> pending) /\ UNCHANGED <<heardId, answeredId>>
<1>1. Init => Service!Init
  BY DEF Init, Service!Init
<1>2. Making \/ Completing \/ Failing \/ Keeping => [Service!Next]_(Service!vars)
  BY DEF Service!Next, Service!Make, Service!Complete, Service!Fail,
     Service!vars, Ids
<1>3. IInv /\ [Next]_vars => Making \/ Completing \/ Failing \/ Keeping
  <2> SUFFICES ASSUME IInv, [Next]_vars
               PROVE  Making \/ Completing \/ Failing \/ Keeping
    OBVIOUS
  <2> USE DEF IInv, TypeOK
  <2>0. CASE UNCHANGED <<worker, heardId, answeredId>>
    BY <2>0
  <2>1. CASE CallStart
    <3>1. worker = "none"
      BY <2>1 DEF CallStart, PlcTypeOK
    <3>2. QED
      BY <2>1, <3>1 DEF CallStart, Spawn
  <2>2. CASE Join
    BY <2>2 DEF Join, Spawn
  <2>3. CASE Receive
    <3>1. Head(toServer) = toServer[1] /\ 1 \in 1 .. Len(toServer)
      BY <2>3 DEF Receive, WireTypeOK
    <3>2. heardId' # heardId
      BY <2>3, <3>1 DEF Receive, RequestsFresh
    <3>3. heardId' \in Ids
      <4>1. Head(toServer) \in BytesMessage(Ids)
        BY <2>3 DEF Receive, WireTypeOK
      <4>2. QED
        BY <2>3, <4>1, BytesTypes DEF Receive
    <3>4. QED
      BY <2>3, <3>2, <3>3 DEF Receive
  <2>4. CASE Respond
    <3>1. thread_cmd_arr.id = heardId
      BY <2>4 DEF Respond, Get, ArraysAgree
    <3>2. QED
      BY <2>4, <3>1 DEF Respond
  <2>5. CASE Reset \/ Dismissed
    BY <2>5 DEF Reset, Dismissed
  <2>6. CASE \/ Accept \/ AcceptTimesOut \/ ReceiveTimesOut \/ ReceiveEnd
             \/ Listen \/ BindFails \/ Greeted \/ Leave
    BY <2>6 DEF Accept, AcceptTimesOut, ReceiveTimesOut, ReceiveEnd, LeaveWith,
       Listen, BindFails, Greeted, Leave
  <2>7. CASE \/ CallReport \/ CallIdle \/ CallResume \/ CallAnew
             \/ CallPoll \/ NoStatus \/ AdoptStatus \/ NoRequest
             \/ ServeRequest \/ RefuseRequest \/ Close
             \/ MasterSends \/ MasterReads \/ MasterCloses
    BY <2>0, <2>7 DEF CallReport, CallIdle, CallResume, CallAnew, CallPoll,
       NoStatus, AdoptStatus, NoRequest, ServeRequest, RefuseRequest, TakeRequest,
       Close, MasterSends, MasterReads, MasterCloses, process
  <2>8. QED
    BY <2>0, <2>1, <2>2, <2>3, <2>4, <2>5, <2>6, <2>7
       DEF Next, PlcNext, WorkerNext, vars, process
<1>4. IInv /\ [Next]_vars => [Service!Next]_(Service!vars)
  BY <1>2, <1>3
<1>5. QED
  BY Invariance, <1>1, <1>4, PTL DEF Spec, ServiceSafety

-----------------------------------------------------------------------------
(* What the PLC believes of its worker.                                    *)

\* DISCONNECT is what the user program gives, now or when the worker started.
DisconnectsGiven ==
    worker # "none" => disconnect \in Disconnects /\ workerDisconnect \in Disconnects

\* The user program never changes DISCONNECT.
SteadyDisconnect == \A d, e \in Disconnects : d = e

\* Where the PLC takes the worker to have exited it ends by itself: after an
\* error, and on a socket after a transfer that does not keep the connection.
Acknowledged == \/ worker = "exited"
                \/ worker = "leaving" /\ thread_cmd_queue # Empty
EndBelieved ==
    scan # "closed" =>
        /\ STATUS \in Errors => Acknowledged
        /\ Interface = "IP" /\ STATUS = DONE /\ ~CONN_ESTABLISHED => Ending
        /\ scan = "join" => Ending

\* Both copies of DISCONNECT come from the user program.
LEMMA DisconnectsStep == IInv /\ DisconnectsGiven /\ [Next]_vars => DisconnectsGiven'
<1> SUFFICES ASSUME IInv, DisconnectsGiven, [Next]_vars PROVE DisconnectsGiven'
  OBVIOUS
<1> USE DEF DisconnectsGiven
<1>0. CASE UNCHANGED <<worker, disconnect, workerDisconnect>>
  BY <1>0
<1>1. CASE CallStart
  BY <1>1 DEF CallStart, Call, Spawn
<1>2. CASE CallReport \/ CallIdle \/ CallResume \/ CallAnew \/ CallPoll
  BY <1>2 DEF CallReport, CallIdle, CallResume, CallAnew, Call, CallPoll, process
<1>3. CASE Join
  BY <1>3 DEF Join, Spawn
<1>4. CASE Accept \/ WorkerNext
  <2>1. worker # "none" /\ UNCHANGED <<disconnect, workerDisconnect>>
    BY <1>4 DEF Accept, WorkerNext, Listen, BindFails, AcceptTimesOut,
       LeaveWith, Greeted, Receive, ReceiveTimesOut, ReceiveEnd, Reset,
       Dismissed, Respond, Leave, plcVars
  <2>2. QED
    BY <2>1
<1>5. CASE \/ NoStatus \/ AdoptStatus \/ NoRequest \/ ServeRequest
           \/ RefuseRequest \/ Close \/ MasterSends \/ MasterReads \/ MasterCloses
  BY <1>0, <1>5 DEF NoStatus, AdoptStatus, NoRequest, ServeRequest,
     RefuseRequest, TakeRequest, Close, MasterSends, MasterReads, MasterCloses,
     process, plcVars
<1>6. QED
  BY <1>0, <1>1, <1>2, <1>3, <1>4, <1>5 DEF Next, PlcNext, vars, process, plcVars

\* A worker that ends by itself is not held up by any step of its own.
LEMMA EndingStays ==
    ASSUME IInv, Accept \/ WorkerNext
    PROVE  (Ending => Ending') /\ (Acknowledged => Acknowledged')
<1> USE MessagesDiffer DEF IInv, TypeOK, Ending, Acknowledged
<1>1. CASE Accept \/ Listen \/ BindFails \/ Greeted \/ Receive
  BY <1>1 DEF Accept, Listen, BindFails, Greeted, Receive
<1>2. CASE AcceptTimesOut \/ ReceiveTimesOut \/ ReceiveEnd
  BY <1>2 DEF AcceptTimesOut, ReceiveTimesOut, ReceiveEnd
<1>3. CASE Reset \/ Dismissed
  BY <1>3 DEF Reset, Dismissed, Get
<1>4. CASE Respond
  BY <1>4 DEF Respond, Get
<1>5. CASE Leave
  BY <1>5 DEF Leave
<1>6. QED
  BY <1>1, <1>2, <1>3, <1>4, <1>5 DEF WorkerNext

\* Every step keeps what the PLC believes of the end of its worker.
LEMMA EndBelievedStep ==
    ASSUME Interface = "SERIAL" \/ SteadyDisconnect,
           IInv, DisconnectsGiven, EndBelieved, [Next]_vars
    PROVE  EndBelieved'
<1> USE Codes, MessagesDiffer DEF IInv, TypeOK, PlcTypeOK, EndBelieved
<1>0. CASE UNCHANGED <<STATUS, CONN_ESTABLISHED, scan, worker, workerDisconnect,
                       thread_cmd_queue, thread_cmd_arr>>
  BY <1>0 DEF Ending, Acknowledged
<1>1. CASE CallStart \/ CallResume \/ CallPoll \/ NoStatus \/ Join
  <2>1. scan' \notin {"join", "closed"} /\ STATUS' = RUNNING
    BY <1>1 DEF CallStart, CallResume, CallPoll, NoStatus, AfterStatus, Return, Join, fields
  <2>2. QED
    BY <2>1
<1>2. CASE CallReport \/ CallIdle \/ NoRequest
  <2>1. /\ scan # "closed" /\ scan' = "idle"
        /\ UNCHANGED <<STATUS, CONN_ESTABLISHED, worker, workerDisconnect,
                       thread_cmd_queue, thread_cmd_arr>>
    BY <1>2 DEF CallReport, CallIdle, NoRequest, Call, Return, fields, mail, process
  <2>2. QED
    BY <2>1 DEF Ending, Acknowledged
<1>3. CASE CallAnew
  <2>1. /\ scan = "idle" /\ STATUS' = RUNNING
        /\ UNCHANGED <<worker, workerDisconnect, thread_cmd_queue, thread_cmd_arr>>
        /\ scan' = "join" => Interface = "IP" \/ STATUS # DONE
        /\ STATUS \notin {NOT_STARTED, RUNNING} /\ ~(STATUS = DONE /\ CONN_ESTABLISHED)
    BY <1>3 DEF CallAnew, Call, mail, process
  <2>2. Acknowledged => Ending
    BY DEF Acknowledged, Ending
  <2>3. scan' = "join" => Ending
    BY <2>1, <2>2
  <2>4. QED
    BY <2>1, <2>3 DEF Ending
<1>4. CASE AdoptStatus
  <2>1. /\ worker \in {"greeting", "leaving"} /\ thread_resp_queue \in StatusMessage
        /\ scan' \notin {"join", "closed"} /\ STATUS' = thread_resp_queue.STATUS
        /\ worker' = worker /\ thread_cmd_queue' # Empty
        /\ thread_resp_queue # Empty
    BY <1>4 DEF AdoptStatus, Acknowledge, Put, Get, AfterStatus, Return, MailTypeOK,
       QueuesAgree, process
  <2>2. STATUS' \in Errors \cup {RUNNING} /\ (worker = "greeting" => STATUS' = RUNNING)
    BY <2>1 DEF QueuesAgree
  <2>3. QED
    BY <2>1, <2>2 DEF Acknowledged
<1>5. CASE ServeRequest
  <2>1. /\ worker = "asking" /\ UNCHANGED <<worker, workerDisconnect, disconnect>>
        /\ scan' = "idle" /\ STATUS' = DONE /\ thread_cmd_arr' # Empty
        /\ CONN_ESTABLISHED' = (~disconnect /\ Interface = "IP")
    BY <1>5 DEF ServeRequest, TakeRequest, Get, Put, Return, process, ArraysAgree
  <2>2. CASE Interface = "IP" /\ disconnect
    <3>1. SteadyDisconnect
      BY <2>2, InterfaceAssumption
    <3>2. workerDisconnect
      BY <2>1, <2>2, <3>1 DEF DisconnectsGiven, SteadyDisconnect
    <3>3. QED
      BY <2>1, <3>2 DEF Ending
  <2>3. CASE ~(Interface = "IP" /\ disconnect)
    BY <2>1, <2>3
  <2>4. QED
    BY <2>2, <2>3
<1>6. CASE RefuseRequest
  <2>1. /\ worker' = "asking" /\ thread_cmd_arr' = Quit
        /\ scan' = "idle" /\ STATUS' = DONE
    BY <1>6 DEF RefuseRequest, TakeRequest, Get, Put, Return, process, ArraysAgree
  <2>2. QED
    BY <2>1 DEF Ending
<1>7. CASE Close
  BY <1>7 DEF Close
<1>8. CASE Accept \/ WorkerNext
  <2>1. UNCHANGED <<STATUS, CONN_ESTABLISHED, scan>>
    BY <1>8 DEF Accept, WorkerNext, Listen, BindFails, AcceptTimesOut,
       LeaveWith, Greeted, Receive, ReceiveTimesOut, ReceiveEnd, Reset,
       Dismissed, Respond, Leave, plcVars, fields
  <2>2. QED
    BY <1>8, <2>1, EndingStays
<1>9. CASE MasterSends \/ MasterReads \/ MasterCloses
  BY <1>0, <1>9 DEF MasterSends, MasterReads, MasterCloses, mail, process, plcVars, fields
<1>10. QED
  BY <1>0, <1>1, <1>2, <1>3, <1>4, <1>5, <1>6, <1>7, <1>8, <1>9
     DEF Next, PlcNext, vars, mail, process, plcVars, fields

\* The PLC is right about the end of its worker.
LEMMA EndsAreBelieved ==
    ASSUME Interface = "SERIAL" \/ SteadyDisconnect
    PROVE  Spec => [](IInv /\ DisconnectsGiven /\ EndBelieved)
<1>1. Init => DisconnectsGiven /\ EndBelieved
  BY Codes DEF Init, DisconnectsGiven, EndBelieved
<1>2. IInv /\ DisconnectsGiven /\ EndBelieved /\ [Next]_vars
         => DisconnectsGiven' /\ EndBelieved'
  BY DisconnectsStep, EndBelievedStep
<1>3. QED
  BY Invariance, <1>1, <1>2, PTL DEF Spec

\* "All these cases imply thread exited": with a DISCONNECT that never changes,
\* or on a serial line, the scan cycle joins only a worker that ends without
\* another message.
THEOREM JoinReturns ==
    ASSUME Interface = "SERIAL" \/ SteadyDisconnect
    PROVE  Spec => []JoinedWorkerEnds
<1>1. EndBelieved => JoinedWorkerEnds
  BY DEF EndBelieved, JoinedWorkerEnds
<1>2. QED
  BY EndsAreBelieved, <1>1, PTL

\* Where the PLC waits for its worker, or will without starting another one,
\* there is a worker and it does not end by itself.
Awaited == \/ STATUS = RUNNING /\ scan # "join"
           \/ STATUS = DONE /\ (CONN_ESTABLISHED \/ Interface = "SERIAL")
LifeBelieved ==
    scan # "closed" =>
        /\ Awaited => worker \notin {"none", "crashed"} /\ ~Ending
        /\ worker = "leaving" /\ thread_resp_queue # Empty =>
               thread_resp_queue.STATUS \in Errors
        /\ Interface = "IP" /\ worker \in {"greeting", "receiving", "asking"} => masterOpen

\* A master that sends only legal requests: none on the way is illegal.
LegalRequests ==
    /\ \A i \in 1 .. Len(toServer) : toServer[i].ok
    /\ thread_resp_arr # Empty => thread_resp_arr.ok

\* The requests on the way are as legal as the master makes them.
LEMMA LegalStep ==
    ASSUME "illegal" \notin Faults, IInv, LegalRequests, [Next]_vars
    PROVE  LegalRequests'
<1> USE DEF IInv, TypeOK, WireTypeOK
<1>0. ASSUME UNCHANGED toServer, thread_resp_arr' \in {thread_resp_arr, Empty}
      PROVE  LegalRequests'
  BY <1>0 DEF LegalRequests
<1>1. ASSUME toServer' = <<>>, UNCHANGED thread_resp_arr PROVE LegalRequests'
  BY <1>1 DEF LegalRequests
<1>2. ASSUME CloseMedium, UNCHANGED thread_resp_arr PROVE LegalRequests'
  BY <1>0, <1>1, <1>2, MediumClosed
<1>3. CASE Accept
  BY <1>1, <1>3 DEF Accept
<1>4. CASE \/ AcceptTimesOut \/ ReceiveTimesOut \/ ReceiveEnd
           \/ Greeted \/ Reset \/ Dismissed
  BY <1>0, <1>2, <1>4, LeavingStatus DEF LeaveWith, Greeted, Reset, Dismissed, wire
<1>5. CASE Receive
  <2>1. PICK n \in 1 .. Len(toServer) : toServer' = SubSeq(toServer, n + 1, Len(toServer))
    BY <1>5 DEF Receive
  <2>2. /\ Len(toServer) \in Nat /\ Head(toServer) = toServer[1]
        /\ 1 \in 1 .. Len(toServer)
    BY <1>5 DEF Receive
  <2>3. \A i \in 1 .. Len(toServer') : /\ toServer'[i] = toServer[i + n]
                                      /\ i + n \in 1 .. Len(toServer)
    BY <2>1, <2>2
  <2>4. thread_resp_arr' = toServer[1]
    BY <1>5, <2>2 DEF Receive, Put
  <2>5. QED
    BY <2>2, <2>3, <2>4 DEF LegalRequests
<1>6. CASE Respond
  BY <1>0, <1>1, <1>6 DEF Respond
<1>7. CASE MasterSends
  <2>1. PICK m : m.ok /\ toServer' = Append(toServer, m)
    <3>1. PICK id \in Ids : toServer' = Append(toServer, Bytes(id, TRUE))
      BY <1>7 DEF MasterSends
    <3>2. Bytes(id, TRUE).ok
      BY DEF Bytes
    <3>3. QED
      BY <3>1, <3>2
  <2>2. UNCHANGED thread_resp_arr
    BY <1>7 DEF MasterSends, mail
  <2> DEFINE n == Len(toServer)
  <2>3. /\ n \in Nat /\ Len(toServer') = n + 1 /\ toServer'[n + 1] = m
        /\ \A i \in 1 .. n : toServer'[i] = toServer[i]
    BY <2>1
  <2>4. \A i \in 1 .. n + 1 : i \in 1 .. n \/ i = n + 1
    BY <2>3
  <2>5. QED
    BY <2>1, <2>2, <2>3, <2>4 DEF LegalRequests
<1>8. CASE PlcNext \/ Close \/ Listen \/ BindFails \/ Leave \/ MasterReads \/ MasterCloses
  <2>1. UNCHANGED toServer /\ thread_resp_arr' \in {thread_resp_arr, Empty}
    BY <1>8 DEF PlcNext, CallStart, CallReport, CallIdle, CallResume, CallAnew,
       CallPoll, Join, NoStatus, AdoptStatus, NoRequest, ServeRequest,
       RefuseRequest, TakeRequest, Get, Close, Listen, BindFails, Leave, MasterReads,
       MasterCloses, wire, mail
  <2>2. QED
    BY <1>0, <2>1
<1>9. QED
  BY <1>0, <1>3, <1>4, <1>5, <1>6, <1>7, <1>8 DEF Next, WorkerNext, vars, wire, mail

\* With legal requests only, none on the way is ever illegal.
LEMMA LegalAlways ==
    ASSUME "illegal" \notin Faults PROVE Spec => []LegalRequests
<1>1. Init => LegalRequests
  BY DEF Init, LegalRequests
<1>2. IInv /\ LegalRequests /\ [Next]_vars => LegalRequests'
  BY LegalStep
<1>3. QED
  BY Invariance, <1>1, <1>2, PTL DEF Spec

\* Every step keeps what the PLC believes of the life of its worker.
LEMMA LifeBelievedStep ==
    ASSUME Faults \cap {"port", "close", "reset"} = {}, SteadyDisconnect,
           Interface = "IP" \/ (LegalRequests /\ Disconnects = {FALSE}),
           IInv, DisconnectsGiven, LifeBelieved, [Next]_vars
    PROVE  LifeBelieved'
<1> USE Codes, MessagesDiffer DEF IInv, TypeOK, PlcTypeOK, LifeBelieved
<1>0. CASE UNCHANGED <<STATUS, CONN_ESTABLISHED, scan, worker, workerDisconnect,
                       thread_resp_queue, thread_cmd_queue, thread_cmd_arr, masterOpen>>
  BY <1>0 DEF Ending, Awaited
<1>1. CASE CallStart \/ Join
  <2>1. worker' = "starting"
    BY <1>1 DEF CallStart, Join, Spawn
  <2>2. QED
    BY <2>1 DEF Ending
<1>2. CASE CallReport \/ CallIdle \/ CallResume \/ CallAnew \/ CallPoll \/ NoStatus \/ NoRequest
  <2>1. /\ scan # "closed"
        /\ UNCHANGED <<worker, workerDisconnect, thread_resp_queue, thread_cmd_queue,
                       thread_cmd_arr, masterOpen>>
    BY <1>2 DEF CallReport, CallIdle, CallResume, CallAnew, CallPoll, NoStatus, NoRequest,
       Call, mail, process, wire
  <2>2. Awaited' => Awaited
    <3>1. CASE CallReport \/ CallIdle \/ NoRequest
      BY <3>1 DEF Awaited, CallReport, CallIdle, NoRequest, Call, Return, fields
    <3>2. CASE CallPoll \/ NoStatus
      BY <3>2 DEF Awaited, CallPoll, NoStatus, AfterStatus, Return, fields
    <3>3. CASE CallResume
      BY <3>3 DEF Awaited, CallResume, Call
    <3>4. CASE CallAnew
      BY <3>4, InterfaceAssumption DEF Awaited, CallAnew, Call
    <3>5. QED
      BY <1>2, <3>1, <3>2, <3>3, <3>4
  <2>3. QED
    BY <2>1, <2>2 DEF Ending
<1>3. CASE AdoptStatus
  <2>1. /\ worker \in {"greeting", "leaving"} /\ scan # "closed"
        /\ worker' = worker /\ thread_resp_queue' = Empty
        /\ STATUS' = thread_resp_queue.STATUS /\ UNCHANGED masterOpen
        /\ thread_resp_queue # Empty
    BY <1>3 DEF AdoptStatus, Get, MailTypeOK, QueuesAgree, process, wire
  <2>2. worker = "leaving" => STATUS' \in Errors
    BY <2>1
  <2>3. QED
    BY <2>1, <2>2 DEF Ending, Awaited
<1>4. CASE ServeRequest
  <2>1. /\ worker = "asking" /\ scan # "closed" /\ STATUS' = DONE
        /\ UNCHANGED <<worker, workerDisconnect, disconnect, thread_resp_queue, masterOpen>>
        /\ thread_cmd_arr' = Bytes(thread_resp_arr.id, TRUE)
        /\ CONN_ESTABLISHED' = (~disconnect /\ Interface = "IP")
    BY <1>4 DEF ServeRequest, TakeRequest, Get, Put, process, wire, ArraysAgree
  <2>2. Awaited' => ~workerDisconnect
    <3>1. CASE Interface = "IP"
      BY <2>1, <3>1 DEF Awaited, DisconnectsGiven, SteadyDisconnect
    <3>2. CASE Interface # "IP"
      BY <2>1, <3>2 DEF DisconnectsGiven
    <3>3. QED
      BY <3>1, <3>2
  <2>3. QED
    BY <2>1, <2>2 DEF Ending
<1>5. CASE RefuseRequest
  <2>1. /\ worker = "asking" /\ scan # "closed" /\ STATUS' = DONE
        /\ UNCHANGED <<worker, thread_resp_queue, masterOpen>>
        /\ CONN_ESTABLISHED' = FALSE
        /\ thread_resp_arr # Empty /\ ~thread_resp_arr.ok
    BY <1>5 DEF RefuseRequest, TakeRequest, Get, process, wire, ArraysAgree
  <2>2. Interface = "IP"
    BY <2>1 DEF LegalRequests
  <2>3. QED
    BY <2>1, <2>2 DEF Awaited
<1>6. CASE Close
  BY <1>6 DEF Close
<1>7. CASE Accept \/ WorkerNext
  <2>a. UNCHANGED <<STATUS, CONN_ESTABLISHED, scan>>
    BY <1>7 DEF Accept, WorkerNext, Listen, BindFails, AcceptTimesOut,
       LeaveWith, Greeted, Receive, ReceiveTimesOut, ReceiveEnd, Reset,
       Dismissed, Respond, Leave, plcVars, fields
  <2>1. UNCHANGED <<STATUS, CONN_ESTABLISHED, scan>> /\ (Awaited' <=> Awaited)
    BY <2>a DEF Awaited
  <2> SUFFICES ASSUME scan # "closed" PROVE LifeBelieved'
    BY <2>1
  <2>2. CASE Accept
    BY <2>1, <2>2 DEF Accept, Ending
  <2>3. CASE Listen
    BY <2>1, <2>3 DEF Listen, Ending
  <2>4. CASE BindFails \/ Reset
    BY <2>4 DEF BindFails, Reset
  <2>5. CASE AcceptTimesOut \/ ReceiveTimesOut \/ ReceiveEnd
    <3>1. PICK s \in StatusMessage :
             /\ LeaveWith(s) /\ worker \in {"accepting", "receiving"}
             /\ s.STATUS \in Errors \/ (s.STATUS = RUNNING /\ ~masterOpen
                                         /\ Interface = "IP" /\ worker = "receiving")
      BY <2>5, LeavingStatus
    <3>2. s.STATUS \in Errors
      BY <3>1
    <3>3. /\ worker' = "leaving" /\ thread_resp_queue' = s
          /\ thread_cmd_queue' = Empty
      BY <3>1 DEF LeaveWith, Put, QueuesAgree
    <3>4. QED
      BY <2>1, <3>2, <3>3 DEF Ending
  <2>6. CASE Greeted
    BY <2>1, <2>6 DEF Greeted, Get, wire, QueuesAgree, Ending
  <2>7. CASE Receive
    BY <2>1, <2>7 DEF Receive, ArraysAgree, Ending
  <2>8. CASE Dismissed
    <3>1. Ending /\ worker' = "exited"
      BY <2>8 DEF Dismissed, Ending
    <3>2. QED
      BY <2>1, <3>1
  <2>9. CASE Respond
    <3>1. workerDisconnect => Ending /\ worker' = "exited"
      BY <2>9 DEF Respond, Get, Ending
    <3>2. ~workerDisconnect => worker = "asking" /\ worker' = "receiving" /\ UNCHANGED masterOpen
      BY <2>9 DEF Respond
    <3>3. CASE workerDisconnect
      BY <2>1, <3>1, <3>3
    <3>4. CASE ~workerDisconnect
      BY <2>1, <3>2, <3>4 DEF Ending
    <3>5. QED
      BY <3>3, <3>4
  <2>10. CASE Leave
    <3>1. Ending /\ worker' = "exited"
      BY <2>10 DEF Leave, Get, Ending
    <3>2. QED
      BY <2>1, <3>1
  <2>11. QED
    BY <1>7, <2>2, <2>3, <2>4, <2>5, <2>6, <2>7, <2>8, <2>9, <2>10 DEF WorkerNext
<1>8. CASE MasterCloses
  BY <1>8 DEF MasterCloses
<1>9. CASE MasterSends \/ MasterReads
  BY <1>0, <1>9 DEF MasterSends, MasterReads, mail, process, plcVars, fields
<1>10. QED
  BY <1>0, <1>1, <1>2, <1>3, <1>4, <1>5, <1>6, <1>7, <1>8, <1>9
     DEF Next, PlcNext, vars, mail, process, plcVars, fields, wire

\* With a DISCONNECT that never changes, a port that can be had and a master
\* that neither closes nor resets the connection, PLC and worker never wait for
\* each other over a socket: while the connection is RUNNING there is a message
\* to be read or a worker at work.  Over a serial line this holds as well if the
\* connection is kept and no request is illegal.
THEOREM NobodyWaitsForBoth ==
    ASSUME Faults \cap {"port", "close", "reset"} = {}, SteadyDisconnect,
           Interface = "IP" \/ ("illegal" \notin Faults /\ Disconnects = {FALSE})
    PROVE  Spec => []NoMutualWait
<1>1. Init => LifeBelieved
  BY Codes DEF Init, LifeBelieved, Awaited
<1>2. IInv /\ LifeBelieved => NoMutualWait
  <2> SUFFICES ASSUME IInv, LifeBelieved, STATUS = RUNNING, scan = "idle" PROVE NoMutualWait
    BY DEF NoMutualWait
  <2>1. worker \notin {"none", "exited", "crashed"}
    BY DEF LifeBelieved, Awaited, Ending
  <2>2. QED
    BY <2>1 DEF NoMutualWait, IInv, TypeOK, ProcessTypeOK, QueuesAgree, ArraysAgree
<1>3. CASE Interface = "IP"
  <2>1. IInv /\ DisconnectsGiven /\ LifeBelieved /\ [Next]_vars => LifeBelieved'
    BY <1>3, LifeBelievedStep
  <2>2. QED
    BY EndsAreBelieved, <1>1, <1>2, <2>1, PTL DEF Spec
<1>4. CASE Interface # "IP"
  <2>1. "illegal" \notin Faults /\ Disconnects = {FALSE}
    BY <1>4
  <2>2. IInv /\ DisconnectsGiven /\ LegalRequests /\ LifeBelieved /\ [Next]_vars => LifeBelieved'
    BY <2>1, LifeBelievedStep
  <2>3. Spec => []LegalRequests
    BY <2>1, LegalAlways
  <2>4. QED
    BY EndsAreBelieved, <1>1, <1>2, <2>2, <2>3, PTL DEF Spec
<1>5. QED
  BY <1>3, <1>4
=============================================================================
