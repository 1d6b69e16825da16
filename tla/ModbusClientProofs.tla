------------------------- MODULE ModbusClientProofs -------------------------
(***************************************************************************)
(* The client connection of ModbusClient keeps its invariants, whatever    *)
(* the user program does and whatever goes wrong around the connection,    *)
(* for every number of requests and every capacity of the medium.          *)
(*                                                                         *)
(* The inductive invariant is TypeOK with Agreement.  Neither is inductive *)
(* alone: that a worker which unpacks a command finds a request there      *)
(* (ProcessTypeOK) needs the agreement of the two sides, and the agreement *)
(* needs to know what a status carries.  The five lemmas ...Step take the  *)
(* five parts of it through every action, FreePlaces reads off it which    *)
(* mailboxes are free when a side writes, and the theorems follow.         *)
(*                                                                         *)
(* Two theorems are about a user program that lowers ENQ_ENR to have a     *)
(* status read ("acks"): for it Acknowledged is invariant as well.         *)
(***************************************************************************)
EXTENDS ModbusClient, TLAPS

IInv == TypeOK /\ Agreement

\* With a user program that lowers ENQ_ENR a status is never acknowledged by
\* the dummy message, and a worker that has ended was told to.
Acknowledged ==
    scan # "closed" =>
        /\ thread_cmd_queue # DummyAck
        /\ worker = "answered" => thread_cmd_queue # Quit
        /\ worker = "exited" => ~Enquiring

\* The identifiers go round within their range.
LEMMA NextIdType == PlcTypeOK => NextId \in Ids /\ NextId \in 0 .. MaxId
<1> SUFFICES ASSUME sentId \in 0 .. MaxId PROVE NextId \in Ids /\ NextId \in 0 .. MaxId
  BY DEF PlcTypeOK
<1>1. MaxId \in Nat /\ MaxId >= 1
  BY BoundAssumption
<1>2. QED
  BY <1>1 DEF NextId, Ids

\* The codes written out in the actions are codes of STATUS.
LEMMA CodeTypes ==
    {NOT_STARTED, RUNNING, DONE, CONN_TIMEOUT_ERROR, RECV_TIMEOUT_ERROR,
     SERVER_ERROR, CLIENT_ERROR} = StatusCode
BY DEF StatusCode

\* What the PLC keeps stays typed: a call sets it to constants, to a fresh
\* identifier, or to what a status or an answer carries.
LEMMA PlcStep == TypeOK /\ [Next]_vars => PlcTypeOK'
<1> SUFFICES ASSUME TypeOK, [Next]_vars PROVE PlcTypeOK'
  OBVIOUS
<1> USE DEF TypeOK, PlcTypeOK
<1>0. CASE UNCHANGED plcVars
  BY <1>0 DEF plcVars, fields
<1>1. CASE CallStart
  BY <1>1, CodeTypes, DisconnectAssumption DEF CallStart, Call
<1>2. CASE CallNextRequest
  BY <1>2, CodeTypes, DisconnectAssumption, NextIdType DEF CallNextRequest, Call,
     Return, PutRequest
<1>3. CASE CallAcknowledge
  BY <1>3, CodeTypes, DisconnectAssumption DEF CallAcknowledge, Call, Return
<1>4. CASE CallQuit
  BY <1>4, CodeTypes, DisconnectAssumption DEF CallQuit, Call, Return
<1>5. CASE CallIdle
  BY <1>5, CodeTypes, DisconnectAssumption DEF CallIdle, Call, Return, fields
<1>6. CASE CallResume
  BY <1>6, CodeTypes, DisconnectAssumption DEF CallResume, Call
<1>7. CASE CallRestart
  BY <1>7, CodeTypes, DisconnectAssumption DEF CallRestart, Call
<1>8. CASE CallPoll
  BY <1>8, DisconnectAssumption DEF CallPoll, fields
<1>9. CASE Join
  BY <1>9 DEF Join, fields
<1>10. CASE NoStatus
  BY <1>10 DEF NoStatus, fields, AfterStatus, Return
<1>11. CASE AdoptStatus
  <2>1. thread_resp_queue \in StatusMessage
    BY <1>11 DEF AdoptStatus, Get, MailTypeOK
  <2>2. sentId' \in 0 .. MaxId
    BY <1>11, NextIdType DEF AdoptStatus, PutRequest
  <2>3. QED
    BY <1>11, <2>1, <2>2, StatusTypes DEF AdoptStatus, AfterStatus, Return
<1>12. CASE NoResponse
  BY <1>12 DEF NoResponse, fields, Return
<1>13. CASE AcceptResponse
  <2>1. dataArea' \in 0 .. MaxId
    BY <1>13, BytesTypes DEF AcceptResponse, TakeResponse, Get, MailTypeOK
  <2>2. QED
    BY <1>13, <2>1, CodeTypes DEF AcceptResponse, TakeResponse, Return
<1>14. CASE RejectResponse
  BY <1>14, CodeTypes DEF RejectResponse, TakeResponse, Return
<1>15. CASE Close
  BY <1>15 DEF Close, fields
<1>16. CASE Connect \/ WorkerNext \/ PeerAnswer \/ PeerCloses
  <2>1. UNCHANGED plcVars
    BY <1>16 DEF Connect, WorkerNext, ConnTimePasses, ConnectFails, Retry,
                 FirstCommand, Send, SendFails, WriteTimesOut, Receive,
                 ReceiveEnd, ReceiveReset, ReceiveTimesOut, NextCommand, Leave,
                 PeerAnswer, PeerCloses
  <2>2. QED
    BY <1>0, <2>1
<1>17. QED
  BY <1>0, <1>1, <1>2, <1>3, <1>4, <1>5, <1>6, <1>7, <1>8, <1>9, <1>10, <1>11,
     <1>12, <1>13, <1>14, <1>15, <1>16 DEF Next, PlcNext, vars

\* The mailboxes hold messages of their kind.
LEMMA MailStep == IInv /\ [Next]_vars => MailTypeOK'
<1> SUFFICES ASSUME TypeOK, [Next]_vars PROVE MailTypeOK'
  BY DEF IInv
<1> USE DEF TypeOK, MailTypeOK
<1>0. CASE UNCHANGED mail
  BY <1>0 DEF mail
<1>1. NextId \in Ids /\ Request(NextId) \in RequestMessage(Ids)
  BY NextIdType, RequestTypes
<1>2. ASSUME NEW f \in {0, 1}, NEW s \in StatusCode, NEW e \in BOOLEAN,
   NEW c \in BOOLEAN
      PROVE  Status(f, s, e, c) \in StatusMessage
  BY <1>2, StatusTypes
<1>3. Bytes(0, FALSE) \in BytesMessage(0 .. MaxId)
  <2>1. 0 \in 0 .. MaxId
    BY BoundAssumption
  <2>2. QED
    BY <2>1, BytesTypes
<1>4. CASE CallNextRequest
  BY <1>4, <1>1 DEF CallNextRequest, PutRequest, Put
<1>5. CASE CallAcknowledge \/ CallQuit \/ Close
  BY <1>5 DEF CallAcknowledge, CallQuit, Close, Put
<1>6. CASE Join
  BY <1>6 DEF Join
<1>7. CASE AdoptStatus
  BY <1>7, <1>1 DEF AdoptStatus, PutRequest, Put, Get
<1>8. CASE AcceptResponse \/ RejectResponse
  BY <1>8 DEF AcceptResponse, RejectResponse, TakeResponse, Dismiss, Put, Get
<1>9. CASE Connect
  BY <1>9, <1>2, CodeTypes DEF Connect, Put
<1>10. CASE ConnectFails
  BY <1>10, <1>2, CodeTypes DEF ConnectFails, Put
<1>11. CASE SendFails
  BY <1>11, <1>2, CodeTypes DEF SendFails, GiveUp, Put
<1>12. CASE ReceiveTimesOut
  BY <1>12, <1>2, <1>3, CodeTypes DEF ReceiveTimesOut, GiveUp, HandOver, Put
<1>13. CASE Receive
  <2>1. PICK n \in 1 .. Len(fromPeer), ok \in BOOLEAN :
           HandOver(Bytes(Head(fromPeer).id, ok))
    BY <1>13 DEF Receive
  <2>2. Head(fromPeer) \in BytesMessage(Ids)
    BY <2>1 DEF WireTypeOK
  <2>3. Head(fromPeer).id \in 0 .. MaxId
    BY <2>2, BytesTypes, BoundAssumption DEF Ids
  <2>4. QED
    BY <2>1, <2>3, BytesTypes DEF HandOver, Put
<1>14. CASE ReceiveEnd
  BY <1>14, <1>3 DEF ReceiveEnd, HandOver, Put
<1>15. CASE Retry \/ FirstCommand \/ NextCommand \/ Leave
  BY <1>15 DEF Retry, FirstCommand, NextCommand, Leave, Get
<1>16. CASE \/ CallStart \/ CallIdle \/ CallResume \/ CallRestart \/ CallPoll
            \/ NoStatus \/ NoResponse \/ ConnTimePasses \/ Send
            \/ WriteTimesOut \/ ReceiveReset \/ PeerAnswer \/ PeerCloses
  BY <1>0, <1>16 DEF CallStart, CallIdle, CallResume, CallRestart, CallPoll,
     NoStatus, NoResponse, ConnTimePasses, Send, WriteTimesOut, ReceiveReset,
     PeerAnswer, PeerCloses
<1>17. QED
  BY <1>0, <1>4, <1>5, <1>6, <1>7, <1>8, <1>9, <1>10, <1>11, <1>12, <1>13,
     <1>14, <1>15, <1>16 DEF Next, PlcNext, WorkerNext, vars

\* The worker that sends holds a request: what it unpacked was one.
LEMMA ProcessStep == IInv /\ [Next]_vars => ProcessTypeOK'
<1> SUFFICES ASSUME IInv, [Next]_vars PROVE ProcessTypeOK'
  OBVIOUS
<1> USE DEF IInv, TypeOK, ProcessTypeOK
<1>0. CASE UNCHANGED process
  BY <1>0 DEF process
<1>1. 0 \in 0 .. MaxId
  BY BoundAssumption
<1>2. ASSUME NEW c \in RequestMessage(Ids) PROVE c.id \in Ids /\ c.id \in 0 .. MaxId
  <2>1. c.id \in Ids
    BY <1>2, RequestTypes
  <2>2. QED
    BY <2>1, BoundAssumption DEF Ids
<1>3. CASE CallStart \/ Join
  BY <1>3, <1>1 DEF CallStart, Join, Spawn
<1>4. CASE FirstCommand
  <2>1. thread_cmd_queue \in RequestMessage(Ids) \cup {Quit}
    BY <1>4 DEF FirstCommand, Get, Agreement, AwaitsRequest
  <2>2. QED
    BY <1>4, <1>2, <2>1 DEF FirstCommand, Obey
<1>5. CASE NextCommand
  <2>1. thread_cmd_arr \in RequestMessage(Ids) \cup {Quit}
    BY <1>5 DEF NextCommand, Get, MailTypeOK
  <2>2. QED
    BY <1>5, <1>2, <2>1 DEF NextCommand, Obey
<1>6. CASE \/ Connect \/ ConnTimePasses \/ ConnectFails \/ Retry \/ Send
           \/ WriteTimesOut \/ ReceiveReset \/ Leave
  BY <1>6 DEF Connect, ConnectFails, Retry, Send, WriteTimesOut, ReceiveReset,
     Leave, ConnTimePasses
<1>7. CASE SendFails \/ Receive \/ ReceiveEnd \/ ReceiveTimesOut
  BY <1>7 DEF SendFails, Receive, ReceiveEnd, ReceiveTimesOut, GiveUp, HandOver
<1>8. CASE \/ CallNextRequest \/ CallAcknowledge \/ CallQuit
           \/ CallIdle \/ CallResume \/ CallRestart \/ CallPoll
           \/ NoStatus \/ AdoptStatus \/ Close
           \/ NoResponse \/ AcceptResponse \/ RejectResponse
           \/ PeerAnswer \/ PeerCloses
  BY <1>0, <1>8 DEF CallNextRequest, CallAcknowledge, CallQuit,
           CallIdle, CallResume, CallRestart, CallPoll,
           NoStatus, AdoptStatus, Close,
           NoResponse, AcceptResponse, RejectResponse, TakeResponse,
           PeerAnswer, PeerCloses
<1>9. QED
  BY <1>0, <1>3, <1>4, <1>5, <1>6, <1>7, <1>8
     DEF Next, PlcNext, WorkerNext, vars

\* The medium never holds more than it has room for.
LEMMA WireStep == IInv /\ [Next]_vars => WireTypeOK'
<1> SUFFICES ASSUME IInv, [Next]_vars PROVE WireTypeOK'
  OBVIOUS
<1> USE DEF IInv, TypeOK, WireTypeOK
<1>0. CASE UNCHANGED wire
  BY <1>0 DEF wire
<1>1. WireCap \in Nat /\ WireCap >= 1
  BY BoundAssumption
<1>a. /\ <<>> \in Seq(Ids) /\ <<>> \in Seq(BytesMessage(Ids))
      /\ Len(<<>>) = 0 /\ 0 <= WireCap
  BY <1>1
<1>2. CASE CloseMedium
  <2>1. CASE Interface = "IP"
    BY <1>a, <1>2, <2>1 DEF CloseMedium
  <2>2. QED
    BY <1>0, <1>2, <2>1 DEF CloseMedium
<1>3. CASE FirstCommand \/ NextCommand
  BY <1>0, <1>2, <1>3 DEF FirstCommand, NextCommand, Obey
<1>4. CASE SendFails \/ ReceiveTimesOut \/ ReceiveReset
  BY <1>0, <1>2, <1>4 DEF SendFails, ReceiveTimesOut, ReceiveReset, GiveUp
<1>5. CASE Connect
  BY <1>5 DEF Connect
<1>6. CASE Send
  <2>1. msgId \in Ids
    BY <1>6 DEF Send, ProcessTypeOK
  <2>2. Append(toPeer, msgId) \in Seq(Ids) /\ Len(Append(toPeer,
     msgId)) = Len(toPeer) + 1
    BY <2>1
  <2>3. QED
    BY <1>1, <1>6, <2>2 DEF Send
<1>7. CASE Receive
  <2>1. PICK n \in 1 .. Len(fromPeer) : fromPeer' = SubSeq(fromPeer, n + 1,
     Len(fromPeer))
    BY <1>7 DEF Receive
  <2>2. SubSeq(fromPeer, n + 1, Len(fromPeer)) \in Seq(BytesMessage(Ids))
        /\ Len(SubSeq(fromPeer, n + 1, Len(fromPeer))) <= Len(fromPeer)
    <3>1. Len(fromPeer) \in Nat
      OBVIOUS
    <3>2. QED
    BY <2>1, <3>1
  <2>3. QED
    BY <1>1, <1>7, <2>1, <2>2 DEF Receive
<1>8. CASE PeerAnswer
  <2>1. Head(toPeer) \in Ids /\ Tail(toPeer) \in Seq(Ids) /\ Len(Tail(toPeer)) = Len(toPeer) - 1
    BY <1>8 DEF PeerAnswer
  <2>2. PICK ok \in BOOLEAN : fromPeer' = IF Len(fromPeer) < WireCap
                      THEN Append(fromPeer, Bytes(Head(toPeer), ok))
                      ELSE fromPeer
    BY <1>8 DEF PeerAnswer
  <2>3. Bytes(Head(toPeer), ok) \in BytesMessage(Ids)
    BY <2>1, <2>2, BytesTypes
  <2>4. fromPeer' \in Seq(BytesMessage(Ids)) /\ Len(fromPeer') <= WireCap
    BY <1>1, <2>2, <2>3
  <2>5. QED
    BY <1>1, <1>8, <2>1, <2>4 DEF PeerAnswer
<1>9. CASE PeerCloses
  BY <1>a, <1>9 DEF PeerCloses
<1>10. CASE \/ PlcNext \/ Close \/ ConnTimePasses \/ ConnectFails \/ Retry
            \/ WriteTimesOut \/ ReceiveEnd \/ Leave
  BY <1>0, <1>10 DEF PlcNext, CallStart, CallNextRequest, CallAcknowledge, CallQuit,
           CallIdle, CallResume, CallRestart, CallPoll, Join,
           NoStatus, AdoptStatus, Close, ConnTimePasses, ConnectFails, Retry,
           WriteTimesOut, ReceiveEnd, Leave, 
           NoResponse, AcceptResponse, RejectResponse, TakeResponse
<1>11. QED
  BY <1>0, <1>3, <1>4, <1>5, <1>6, <1>7, <1>8, <1>9, <1>10 DEF Next, WorkerNext,
     vars

\* Every action of either side leaves the two sides in agreement.
LEMMA AgreementStep == IInv /\ [Next]_vars => Agreement'
<1> SUFFICES ASSUME IInv, [Next]_vars PROVE Agreement'
  OBVIOUS
<1> USE DEF IInv, TypeOK, ProcessTypeOK, Agreement, Enquiring, Reported, Settled,
   Replacing,
        Quiet, NoAnswer, NOT_STARTED, RUNNING, DONE
<1>c. /\ Quit # Empty /\ DummyAck # Empty /\ DummyAck # Quit
      /\ \A m \in RequestMessage(Ids) : m # Empty /\ m # Quit /\ m # DummyAck
  BY MessagesDiffer, RequestTypes
<1>f. ASSUME UNCHANGED <<fields, scan, mail, worker>> PROVE Agreement'
  BY <1>f DEF fields, mail, AwaitsAcknowledgement, AwaitsRequest, AwaitsCommand
<1>0. CASE UNCHANGED vars
  BY <1>f, <1>0 DEF vars, plcVars, process
<1>b. NextId \in Ids /\ Request(NextId) \in RequestMessage(Ids)
  BY NextIdType, RequestTypes
<1>d. \A status \in {CONN_TIMEOUT_ERROR, RECV_TIMEOUT_ERROR, CLIENT_ERROR} :
         /\ status \notin {NOT_STARTED, RUNNING}
         /\ Status(0, status, TRUE, FALSE) # Empty
         /\ Status(0, status, TRUE, FALSE).read_finish_status = 0
         /\ Status(0, status, TRUE, FALSE).STATUS = status
         /\ Status(0, status, TRUE, FALSE).CONN_ESTABLISHED = FALSE
  <2> TAKE status \in {CONN_TIMEOUT_ERROR, RECV_TIMEOUT_ERROR, CLIENT_ERROR}
  <2>1. status \in StatusCode
    BY CodeTypes
  <2>2. status \notin {NOT_STARTED, RUNNING}
    BY DEF CONN_TIMEOUT_ERROR, RECV_TIMEOUT_ERROR, CLIENT_ERROR
  <2>3. Status(0, status, TRUE, FALSE) # Empty
    BY MessagesDiffer
  <2>4. QED
    BY <2>1, <2>2, <2>3, StatusTypes
<1>1. CASE CallStart
  BY <1>1, <1>c DEF CallStart, Call, Spawn, mail, wire,
     AwaitsAcknowledgement, AwaitsRequest, AwaitsCommand
<1>2. CASE CallNextRequest
  <2>1. worker = "answered" /\ scan = "idle" /\ Quiet
    BY <1>2, <1>c DEF CallNextRequest, Call,
       AwaitsAcknowledgement, AwaitsRequest, AwaitsCommand
  <2>2. QED
    BY <1>2, <1>c, <2>1, <1>b DEF CallNextRequest, Return, PutRequest, Put,
       process, AwaitsCommand
<1>3. CASE CallAcknowledge
  <2>1. worker \in {"leaving", "retrying"} /\ scan = "idle" /\ Quiet
    BY <1>3, <1>c DEF CallAcknowledge, Call,
       AwaitsAcknowledgement, AwaitsRequest, AwaitsCommand
  <2>2. QED
    BY <1>3, <1>c, <2>1 DEF CallAcknowledge, Return, Put, process,
       AwaitsAcknowledgement
<1>4. CASE CallQuit
  <2>1. CASE CONN_ESTABLISHED
    <3>1. worker = "answered" /\ scan = "idle" /\ Quiet /\ STATUS = DONE
      BY <1>4, <1>c, <2>1 DEF CallQuit, Call, AwaitsAcknowledgement,
         AwaitsRequest, AwaitsCommand
    <3>2. QED
      BY <1>4, <1>c, <2>1, <3>1 DEF CallQuit, Return, Put, process, AwaitsCommand
  <2>2. CASE ~CONN_ESTABLISHED
    <3>1. worker \in {"leaving", "retrying"} /\ scan = "idle" /\ Quiet
      BY <1>4, <1>c, <2>2 DEF CallQuit, Call, AwaitsAcknowledgement,
         AwaitsRequest, AwaitsCommand
    <3>2. QED
      BY <1>4, <1>c, <2>2, <3>1 DEF CallQuit, Return, Put, process,
         AwaitsAcknowledgement
  <2>3. QED
    BY <2>1, <2>2
<1>5. CASE CallIdle
  BY <1>5, <1>c DEF CallIdle, Call, Return, fields, mail, process, 
     AwaitsAcknowledgement, AwaitsRequest, AwaitsCommand
<1>6. CASE CallResume
  <2>1. worker = "answered" /\ scan = "idle"
    BY <1>6, <1>c DEF CallResume, Call, AwaitsAcknowledgement, AwaitsRequest
  <2>2. CONN_ESTABLISHED /\ STATUS = DONE /\ read_finish_status = 1
    BY <1>6 DEF CallResume
  <2>3. ~Enquiring /\ ~Reported /\ ~Replacing
    BY <2>2
  <2>4. AwaitsCommand
    BY <2>1
  <2>5. thread_resp_queue = Empty /\ thread_cmd_queue = Quit /\ NoAnswer
    BY <2>2, <2>3, <2>4 DEF AwaitsCommand
  <2>6. QED
    BY <1>6, <1>c, <2>1, <2>5 DEF CallResume, mail, process, AwaitsCommand
<1>7. CASE CallRestart
  <2>1. Settled /\ ~(STATUS = DONE /\ CONN_ESTABLISHED) /\ Replacing'
    BY <1>7 DEF CallRestart, Call
  <2>2. UNCHANGED <<mail, worker, CONN_ESTABLISHED>>
    BY <1>7 DEF CallRestart, process
  <2>3. CASE worker \in {"retrying", "leaving"}
    BY <2>1, <2>2, <2>3, <1>c DEF mail, AwaitsAcknowledgement
  <2>4. CASE worker = "answered"
    BY <2>1, <2>2, <2>4, <1>c DEF mail, AwaitsCommand
  <2>5. CASE worker = "exited"
    BY <2>1, <2>2, <2>5, <1>c DEF mail
  <2>6. QED
    BY <2>1, <2>3, <2>4, <2>5 DEF AwaitsRequest
<1>8. CASE CallPoll
  BY <1>8, <1>c DEF CallPoll, fields, mail, process, 
     AwaitsAcknowledgement, AwaitsRequest, AwaitsCommand
<1>9. CASE Join
  BY <1>9, <1>c DEF Join, Spawn, fields, 
     AwaitsAcknowledgement, AwaitsRequest, AwaitsCommand
<1>10. CASE NoStatus
  BY <1>10, <1>c DEF NoStatus, AfterStatus, Return, fields, mail, process,
     AwaitsAcknowledgement, AwaitsRequest, AwaitsCommand
<1>11. CASE AdoptStatus
  <2>1. /\ Enquiring /\ scan \in {"status", "status only"} /\ NoAnswer
        /\ thread_cmd_queue = Empty /\ worker \in {"retrying", "leaving", "ready"}
    BY <1>11, <1>c DEF AdoptStatus, Get, AwaitsAcknowledgement, AwaitsRequest,
       AwaitsCommand
  <2>2. /\ thread_resp_queue' = Empty
        /\ UNCHANGED <<worker, thread_resp_arr, thread_cmd_arr>>
        /\ scan' \in {"idle", "response"}
    BY <1>11, <2>1 DEF AdoptStatus, Get, process, AfterStatus, Return
  <2>3. CASE worker \in {"retrying", "leaving"}
    <3>1. /\ thread_resp_queue.read_finish_status = 0
          /\ thread_resp_queue.STATUS \notin {NOT_STARTED, RUNNING}
          /\ ~thread_resp_queue.CONN_ESTABLISHED
      BY <1>11, <2>1, <2>3 DEF AdoptStatus, Get, AwaitsAcknowledgement
    <3>2. Reported' /\ ~CONN_ESTABLISHED' /\ thread_cmd_queue' = Empty
      BY <1>11, <2>1, <2>2, <3>1 DEF AdoptStatus
    <3>3. QED
      BY <2>1, <2>2, <2>3, <3>2 DEF AwaitsAcknowledgement
  <2>4. CASE worker = "ready"
    <3>1. thread_resp_queue = Status(1, RUNNING, FALSE, TRUE)
      BY <1>11, <2>4 DEF AdoptStatus, Get, AwaitsRequest
    <3>2. /\ thread_resp_queue.read_finish_status = 1
          /\ thread_resp_queue.STATUS = RUNNING
          /\ thread_resp_queue.CONN_ESTABLISHED = TRUE
      BY <3>1, StatusTypes, CodeTypes
    <3>3. Enquiring' /\ CONN_ESTABLISHED' /\ thread_cmd_queue' \in RequestMessage(Ids)
      <4>1. STATUS' = RUNNING /\ read_finish_status' = 1 /\ CONN_ESTABLISHED'
        BY <1>11, <3>2 DEF AdoptStatus
      <4>2. thread_resp_queue.read_finish_status # 0
        BY ONLY <3>2
      <4>3. thread_cmd_queue' = Request(NextId)
        BY <1>11, <4>2 DEF AdoptStatus, Get, PutRequest, Put, AfterStatus, Return,
           process
      <4>4. QED
        BY <1>b, <2>2, <4>1, <4>3
    <3>4. QED
      BY <2>1, <2>2, <2>4, <3>3 DEF AwaitsRequest
  <2>5. QED
    BY <2>1, <2>3, <2>4
<1>12. CASE NoResponse
  BY <1>12, <1>c DEF NoResponse, Return, fields, mail, process,
     AwaitsAcknowledgement, AwaitsRequest, AwaitsCommand
<1>13. CASE AcceptResponse
  <2>1. /\ worker = "answered" /\ Enquiring /\ CONN_ESTABLISHED /\ scan = "response"
        /\ thread_resp_queue = Empty /\ thread_cmd_queue = Empty /\ thread_cmd_arr = Empty
    BY <1>13, <1>c DEF AcceptResponse, TakeResponse, Get, AwaitsAcknowledgement,
       AwaitsRequest, AwaitsCommand
  <2>2. CASE disconnect
    BY <1>13, <1>c, <2>1, <2>2 DEF AcceptResponse, TakeResponse, Dismiss, Put,
       Get, Return, process, AwaitsCommand
  <2>3. CASE ~disconnect
    BY <1>13, <1>c, <2>1, <2>3 DEF AcceptResponse, TakeResponse, Put, Get, Return,
       process, AwaitsCommand
  <2>4. QED
    BY <2>2, <2>3
<1>14. CASE RejectResponse
  BY <1>14, <1>c DEF RejectResponse, TakeResponse, Dismiss, Put, Get, Return,
     process,
     AwaitsAcknowledgement, AwaitsRequest, AwaitsCommand
<1>15. CASE Close
  BY <1>15, <1>c DEF Close, Put
<1>16. CASE Connect
  BY <1>16, <1>c DEF Connect, Put, plcVars, fields,
     AwaitsAcknowledgement, AwaitsRequest, AwaitsCommand
<1>17. CASE ConnTimePasses
  BY <1>17, <1>f DEF ConnTimePasses, plcVars
<1>18. CASE ConnectFails
  <2>1. /\ worker' = "retrying"
        /\ UNCHANGED <<fields, scan, thread_cmd_queue, thread_resp_arr,
           thread_cmd_arr>>
        /\ thread_resp_queue' = Status(0, CONN_TIMEOUT_ERROR, TRUE, FALSE)
    BY <1>18 DEF ConnectFails, Put, plcVars
  <2>2. scan # "closed" => Quiet /\ Enquiring /\ ~CONN_ESTABLISHED
    BY <1>18 DEF ConnectFails
  <2>3. QED
    <3>1. CASE scan = "closed"
      BY <2>1, <3>1
    <3>2. CASE scan # "closed"
      <4>1. Quiet /\ Enquiring /\ ~CONN_ESTABLISHED
        BY <2>2, <3>2
      <4>2. AwaitsAcknowledgement'
        BY <1>d, <2>1, <4>1 DEF fields, AwaitsAcknowledgement
      <4>3. QED
        BY <2>1, <3>2, <4>2
    <3>3. QED
      BY <3>1, <3>2
<1>19. CASE Retry
  BY <1>19, <1>c DEF Retry, Get, plcVars, fields,
     AwaitsAcknowledgement, AwaitsRequest, AwaitsCommand
<1>20. CASE FirstCommand
  BY <1>20, <1>c, RequestTypes DEF FirstCommand, Get, Obey, plcVars, fields,
     AwaitsAcknowledgement, AwaitsRequest, AwaitsCommand
<1>21. CASE Send \/ WriteTimesOut \/ ReceiveReset
  <2>1. /\ worker \in {"sending", "receiving"}
        /\ worker' \in {"receiving", "crashed"}
        /\ UNCHANGED <<fields, scan, mail>>
    BY <1>21 DEF Send, WriteTimesOut, ReceiveReset, plcVars
  <2>2. QED
    BY <2>1 DEF fields, mail
<1>22. CASE SendFails
  BY <1>22, <1>c, <1>d DEF SendFails, GiveUp, Put, plcVars, fields,
     AwaitsAcknowledgement, AwaitsRequest, AwaitsCommand
<1>23. ASSUME worker = "receiving", worker' = "answered", thread_resp_arr' # Empty,
              UNCHANGED <<thread_resp_queue, thread_cmd_queue, thread_cmd_arr,
                 plcVars>>
       PROVE  Agreement'
  BY <1>23, <1>c DEF plcVars, fields, AwaitsCommand
<1>24. CASE Receive \/ ReceiveEnd
  BY <1>23, <1>24, MessagesDiffer DEF Receive, ReceiveEnd, HandOver, Put
<1>25. CASE ReceiveTimesOut
  <2>1. CASE Interface = "IP"
    BY <1>25, <1>c, <1>d, <2>1 DEF ReceiveTimesOut, GiveUp, Put, plcVars, fields,
       AwaitsAcknowledgement
  <2>2. CASE Interface # "IP"
    BY <1>23, <1>25, <2>2, MessagesDiffer DEF ReceiveTimesOut, HandOver, Put
  <2>3. QED
    BY <2>1, <2>2
<1>26. CASE NextCommand
  BY <1>26, <1>c, RequestTypes DEF NextCommand, Get, Obey, plcVars, fields,
     MailTypeOK,
     AwaitsAcknowledgement, AwaitsRequest, AwaitsCommand
<1>27. CASE Leave
  BY <1>27, <1>c DEF Leave, Get, plcVars, fields,
     AwaitsAcknowledgement, AwaitsRequest, AwaitsCommand
<1>28. CASE PeerAnswer \/ PeerCloses
  BY <1>28, <1>f DEF PeerAnswer, PeerCloses, process, plcVars
<1>29. QED
  BY <1>0, <1>1, <1>2, <1>3, <1>4, <1>5, <1>6, <1>7, <1>8, <1>9, <1>10, <1>11,
     <1>12, <1>13, <1>14, <1>15, <1>16, <1>17, <1>18, <1>19, <1>20, <1>21,
     <1>22, <1>24, <1>25, <1>26, <1>27, <1>28 DEF Next, PlcNext, WorkerNext

\* The two sides agree before the first call.
LEMMA Initial == Init => IInv
<1> SUFFICES ASSUME Init PROVE IInv
  OBVIOUS
<1>1. 0 \in 0 .. MaxId /\ 0 <= WireCap
  BY BoundAssumption
<1>2. PlcTypeOK /\ MailTypeOK /\ ProcessTypeOK
  BY <1>1 DEF Init, PlcTypeOK, MailTypeOK, ProcessTypeOK, StatusCode
<1>3. WireTypeOK
  <2>1. /\ <<>> \in Seq(Ids) /\ <<>> \in Seq(BytesMessage(Ids)) /\ Len(<<>>) = 0
    OBVIOUS
  <2>2. QED
    BY <1>1, <2>1 DEF Init, WireTypeOK
<1>4. Agreement
  BY DEF Init, Agreement, Quiet
<1>5. QED
  BY <1>2, <1>3, <1>4 DEF IInv, TypeOK

\* The inductive invariant holds throughout.
THEOREM Invariance == Spec => []IInv
<1>1. IInv /\ [Next]_vars => IInv'
  BY PlcStep, MailStep, ProcessStep, WireStep, AgreementStep DEF IInv, TypeOK
<1>2. QED
  BY Initial, <1>1, PTL DEF Spec

\* Every variable keeps its type: the requests, answers and statuses that
\* call_modbus_client_process and the workers exchange are of the kind the
\* receiver unpacks.
THEOREM TypeCorrectness == Spec => []TypeOK
<1>1. IInv => TypeOK
  BY DEF IInv
<1>2. QED
  BY Invariance, <1>1, PTL

\* PLC and worker agree on how far they are after every access to a mailbox,
\* although neither can see where the other one stands.
THEOREM SidesAgree == Spec => []Agreement
<1>1. IInv => Agreement
  BY DEF IInv
<1>2. QED
  BY Invariance, <1>1, PTL

\* Connection.process.join() is called only on a worker that ends without
\* another message, whatever the user program does: the scan cycle never
\* stands still there.
THEOREM JoinReturns == Spec => []JoinedWorkerEnds
<1>1. IInv => JoinedWorkerEnds
  <2> SUFFICES ASSUME IInv, scan = "join" PROVE Ending
    BY DEF JoinedWorkerEnds
  <2> USE DEF IInv, TypeOK, ProcessTypeOK, Agreement, Enquiring, Reported,
     Settled, Ending
  <2>1. CASE worker \in {"retrying", "leaving"}
    BY <2>1, MessagesDiffer DEF AwaitsAcknowledgement
  <2>2. CASE worker = "ready"
    BY <2>2 DEF AwaitsRequest
  <2>3. CASE worker = "answered"
    BY <2>3 DEF AwaitsCommand
  <2>4. CASE worker \in
          {"none", "starting", "sending", "receiving", "crashed", "exited"}
    BY <2>4
  <2>5. QED
    BY <2>1, <2>2, <2>3, <2>4
<1>2. QED
  BY Invariance, <1>1, PTL

\* The worker never unpacks an acknowledgement where it expects a request.
THEOREM CommandsFit == Spec => []CommandFits
<1>1. IInv => CommandFits
  <2> SUFFICES ASSUME IInv PROVE CommandFits
    OBVIOUS
  <2> USE DEF IInv, TypeOK, Agreement, CommandFits
  <2>1. worker = "ready" => thread_cmd_queue # DummyAck
    BY MessagesDiffer, RequestTypes DEF AwaitsRequest
  <2>2. thread_cmd_arr # DummyAck
    BY MessagesDiffer, RequestTypes DEF MailTypeOK
  <2>3. QED
    BY <2>1, <2>2
<1>2. QED
  BY Invariance, <1>1, PTL

\* While CONN_ESTABLISHED is true a worker has the connection, or a status
\* that says otherwise has not been read.
THEOREM ConnectionsHaveWorkers == Spec => []ConnectedHasWorker
<1>1. IInv => ConnectedHasWorker
  <2> SUFFICES ASSUME IInv, CONN_ESTABLISHED,
     scan # "closed" PROVE ConnectedHasWorker
    BY DEF ConnectedHasWorker
  <2> USE DEF IInv, Agreement, ConnectedHasWorker
  <2>1. worker \notin {"none", "starting", "retrying", "exited"}
    BY MessagesDiffer DEF AwaitsAcknowledgement
  <2>2. worker = "answered" => thread_cmd_arr # Quit
    BY MessagesDiffer, RequestTypes DEF AwaitsCommand, NoAnswer
  <2>3. worker = "leaving" => thread_resp_queue # Empty
    BY DEF AwaitsAcknowledgement
  <2>4. QED
    BY <2>1, <2>2, <2>3
<1>2. QED
  BY Invariance, <1>1, PTL

\* A CPU that is not stopped closes no connection.
LEMMA NeverClosed == ASSUME Stops = "never" PROVE Spec => [](scan # "closed")
<1>1. Init => scan # "closed"
  BY DEF Init
<1>2. scan # "closed" /\ [Next]_vars => (scan # "closed")'
  BY DEF vars, plcVars, fields, Next, PlcNext, WorkerNext, Close,
     CallStart, CallNextRequest, CallAcknowledge, CallQuit, CallIdle, CallResume,
     CallRestart, CallPoll, Join, NoStatus, AdoptStatus, AfterStatus, NoResponse,
     AcceptResponse, RejectResponse, TakeResponse, Return, Connect, ConnTimePasses,
     ConnectFails, Retry, FirstCommand, Send, SendFails, WriteTimesOut, Receive,
     ReceiveEnd, ReceiveReset, ReceiveTimesOut, NextCommand, Leave, PeerAnswer,
     PeerCloses
<1>3. QED
  BY <1>1, <1>2, PTL DEF Spec

\* Where each side writes, the mailbox it writes to is free.
LEMMA FreePlaces ==
    ASSUME TypeOK, Agreement, scan # "closed"
    PROVE  /\ STATUS # RUNNING /\ read_finish_status = 0 => Quiet
           /\ thread_resp_queue # Empty => thread_cmd_queue = Empty
           /\ thread_resp_arr # Empty => thread_cmd_arr = Empty
           /\ worker \in {"starting", "sending", "receiving"} => Quiet
<1> USE DEF TypeOK, ProcessTypeOK, Agreement, Enquiring, Reported, Settled,
   Replacing, Quiet, NoAnswer
<1>1. CASE worker \in {"retrying", "leaving"}
  <2>1. AwaitsAcknowledgement
    BY <1>1
  <2>2. NoAnswer /\ (thread_resp_queue # Empty => thread_cmd_queue = Empty)
    BY <2>1 DEF AwaitsAcknowledgement
  <2>3. read_finish_status = 0 => Quiet
    BY <2>1 DEF AwaitsAcknowledgement
  <2>4. QED
    BY <1>1, <2>2, <2>3
<1>2. CASE worker = "ready"
  BY <1>2, MessagesDiffer DEF AwaitsRequest
<1>3. CASE worker = "answered"
  <2>1. AwaitsCommand
    BY <1>3
  <2>2. /\ thread_resp_queue = Empty
        /\ thread_resp_arr # Empty => thread_cmd_arr = Empty
    BY <2>1 DEF AwaitsCommand
  <2>3. read_finish_status = 0 => Quiet
    BY <2>1 DEF AwaitsCommand
  <2>4. QED
    BY <1>3, <2>2, <2>3
<1>4. CASE worker \in
        {"none", "starting", "sending", "receiving", "crashed", "exited"}
  BY <1>4
<1>5. QED
  BY <1>1, <1>2, <1>3, <1>4

\* As long as the CPU is not stopped, put never overwrites a message that was
\* not read, although it does not look.
THEOREM NothingOverwritten ==
    ASSUME Stops = "never" PROVE Spec => NoMessageOverwritten
<1> DEFINE Keeps == /\ Kept(thread_resp_queue) /\ Kept(thread_cmd_queue)
                    /\ Kept(thread_resp_arr) /\ Kept(thread_cmd_arr)
<1>1. IInv /\ scan # "closed" /\ [Next]_vars => [Keeps]_vars
  <2> SUFFICES ASSUME IInv, scan # "closed", [Next]_vars PROVE Keeps
    OBVIOUS
  <2>a. TypeOK /\ Agreement
    BY DEF IInv
  <2> USE DEF Kept
  <2>0. CASE UNCHANGED mail
    BY <2>0 DEF mail
  <2>1. CASE CallNextRequest \/ CallAcknowledge \/ CallQuit
    <3>1. Quiet
      BY <2>1, <2>a, FreePlaces DEF CallNextRequest, CallAcknowledge, CallQuit
    <3>2. QED
      BY <2>1, <3>1 DEF CallNextRequest, CallAcknowledge, CallQuit, PutRequest,
         Put, Quiet
  <2>2. CASE Close
    BY <2>2 DEF Close
  <2>3. CASE Join
    BY <2>3 DEF Join
  <2>4. CASE AdoptStatus
    BY <2>4, <2>a, FreePlaces DEF AdoptStatus, PutRequest, Put, Get
  <2>5. CASE AcceptResponse \/ RejectResponse
    BY <2>5, <2>a, FreePlaces DEF AcceptResponse, RejectResponse, TakeResponse,
       Dismiss, Put, Get
  <2>6. CASE \/ Connect \/ ConnectFails \/ SendFails \/ Receive
             \/ ReceiveEnd \/ ReceiveTimesOut
    <3>1. Quiet
      BY <2>6, <2>a, FreePlaces DEF Connect, ConnectFails, SendFails, Receive,
         ReceiveEnd, ReceiveTimesOut
    <3>2. QED
      BY <2>6, <3>1 DEF Connect, ConnectFails, SendFails, Receive,
         ReceiveEnd, ReceiveTimesOut, GiveUp, HandOver, Put, Quiet
  <2>7. CASE Retry \/ FirstCommand \/ NextCommand \/ Leave
    BY <2>7 DEF Retry, FirstCommand, NextCommand, Leave, Get
  <2>8. CASE \/ CallStart \/ CallIdle \/ CallResume \/ CallRestart \/ CallPoll
             \/ NoStatus \/ NoResponse \/ ConnTimePasses \/ Send
             \/ WriteTimesOut \/ ReceiveReset \/ PeerAnswer \/ PeerCloses
    BY <2>0, <2>8 DEF CallStart, CallIdle, CallResume, CallRestart, CallPoll,
       NoStatus, NoResponse, ConnTimePasses, Send, WriteTimesOut, ReceiveReset,
       PeerAnswer, PeerCloses
  <2>9. QED
    BY <2>0, <2>1, <2>2, <2>3, <2>4, <2>5, <2>6, <2>7, <2>8
       DEF Next, PlcNext, WorkerNext, vars
<1>2. QED
  BY Invariance, NeverClosed, <1>1, PTL DEF Spec, NoMessageOverwritten, Keeps

\* Every step of the PLC and its worker keeps Acknowledged.
LEMMA AcknowledgedStep ==
    ASSUME Program = "acks", IInv, Acknowledged, [Next]_vars
    PROVE  Acknowledged'
<1> USE DEF IInv, TypeOK, ProcessTypeOK, Agreement, Acknowledged, Enquiring
<1>a. /\ Quit # Empty /\ DummyAck # Empty /\ DummyAck # Quit
      /\ \A i : Request(i) # Quit /\ Request(i) # DummyAck
  BY MessagesDiffer
<1>0. CASE UNCHANGED <<scan, fields, thread_cmd_queue, worker>>
  BY <1>0 DEF fields
<1>1. CASE CallStart \/ Join
  BY <1>1, <1>a DEF CallStart, Join, Spawn, mail
<1>2. CASE CallNextRequest
  BY <1>2, <1>a DEF CallNextRequest, Call, Return, process
<1>b. STATUS # RUNNING /\ read_finish_status = 0 =>
          EnqChoices = IF CONN_ESTABLISHED THEN {1} ELSE {0}
  BY DEF EnqChoices
<1>3. ~CallAcknowledge
  <2> SUFFICES ASSUME CallAcknowledge PROVE FALSE
    OBVIOUS
  <2>1. STATUS # RUNNING /\ read_finish_status = 0 /\ ~CONN_ESTABLISHED /\ 1 \in EnqChoices
    BY DEF CallAcknowledge, Call
  <2>2. QED
    BY ONLY <1>b, <2>1
<1>4. CASE CallQuit
  <2>1. ~CONN_ESTABLISHED /\ worker # "answered"
    <3>1. /\ STATUS # RUNNING /\ read_finish_status = 0 /\ 0 \in EnqChoices
          /\ scan = "idle"
      BY <1>4 DEF CallQuit, Call
    <3>2. ~CONN_ESTABLISHED
      BY ONLY <1>b, <3>1
    <3>3. QED
      BY <3>1, <3>2 DEF AwaitsCommand, Settled, Replacing
  <2>2. worker # "exited"
    BY <1>4 DEF CallQuit, Call, Settled, Replacing
  <2>3. QED
    BY <1>4, <1>a, <2>1, <2>2 DEF CallQuit, Put, process
<1>5. CASE CallIdle \/ CallPoll \/ NoStatus \/ NoResponse
  <2>1. /\ UNCHANGED <<fields, thread_cmd_queue, worker>>
        /\ scan \in {"idle", "status only", "status", "response"}
    BY <1>5 DEF CallIdle, Call, CallPoll, NoStatus, NoResponse, mail, process
  <2>2. QED
    BY <2>1 DEF fields
<1>17. CASE CallRestart
  BY <1>17, <1>a DEF CallRestart, Call, mail, process
<1>18. CASE AcceptResponse \/ RejectResponse
  <2>1. UNCHANGED <<thread_cmd_queue, worker>> /\ STATUS' = DONE /\ scan # "closed"
    BY <1>18 DEF AcceptResponse, RejectResponse, TakeResponse, process
  <2>2. QED
    BY <2>1 DEF RUNNING, DONE
<1>6. CASE CallResume
  <2>1. worker # "exited"
    BY <1>6 DEF CallResume, Call
  <2>2. QED
    BY <1>6, <2>1 DEF CallResume, Call, mail, process
<1>7. CASE AdoptStatus
  <2>1. worker \in {"retrying", "leaving", "ready"}
    BY <1>7 DEF AdoptStatus, Get, Quiet, AwaitsCommand
  <2>2. QED
    BY <1>7, <1>a, <2>1 DEF AdoptStatus, Get, PutRequest, Put, AfterStatus,
       Return, process
<1>8. CASE Close
  BY <1>8 DEF Close
<1>9. CASE \/ Connect \/ ConnTimePasses \/ ConnectFails \/ Send \/ SendFails
           \/ WriteTimesOut \/ Receive \/ ReceiveReset
           \/ ReceiveEnd \/ ReceiveTimesOut
  <2>1. /\ worker \in {"starting", "sending", "receiving"}
        /\ worker' # "exited" /\ UNCHANGED <<scan, fields, thread_cmd_queue>>
    BY <1>9 DEF Connect, ConnTimePasses, ConnectFails, Send, SendFails,
       WriteTimesOut, Receive, ReceiveReset, ReceiveEnd, ReceiveTimesOut,
       GiveUp, HandOver, plcVars, mail
  <2>2. scan # "closed" => thread_cmd_queue = Empty
    BY <2>1 DEF Quiet
  <2>3. QED
    BY <1>a, <2>1, <2>2 DEF fields
<1>10. CASE Retry
  <2>1. scan # "closed" /\ thread_cmd_queue = Quit => ~Enquiring
    BY <1>10, <1>a DEF Retry, AwaitsAcknowledgement, Settled, Replacing
  <2>2. QED
    BY <1>10, <1>a, <2>1 DEF Retry, Get, plcVars, fields
<1>11. CASE FirstCommand
  <2>1. scan # "closed" => thread_cmd_queue # Quit
    BY <1>11, <1>a, RequestTypes DEF FirstCommand, Get, AwaitsRequest
  <2>2. QED
    BY <1>11, <1>a, <2>1 DEF FirstCommand, Get, Obey, plcVars, fields
<1>12. CASE NextCommand
  <2>1. scan # "closed" /\ thread_cmd_arr = Quit => ~Enquiring
    BY <1>12, <1>a, RequestTypes DEF NextCommand, AwaitsCommand, NoAnswer,
       Settled, Replacing
  <2>2. QED
    BY <1>12, <1>a, <2>1 DEF NextCommand, Get, Obey, plcVars, fields
<1>13. CASE Leave
  <2>1. scan # "closed" => ~Enquiring
    BY <1>13, <1>a DEF Leave, Get, AwaitsAcknowledgement, Settled, Replacing
  <2>2. QED
    BY <1>13, <1>a, <2>1 DEF Leave, Get, plcVars, fields
<1>14. CASE PeerAnswer \/ PeerCloses
  BY <1>0, <1>14 DEF PeerAnswer, PeerCloses, plcVars, mail, process
<1>15. CASE UNCHANGED vars
  BY <1>0, <1>15 DEF vars, plcVars, mail, process
<1>16. QED
  BY <1>1, <1>2, <1>3, <1>4, <1>5, <1>6, <1>7, <1>8, <1>9, <1>10, <1>11, <1>12,
     <1>13, <1>14, <1>15, <1>17, <1>18 DEF Next, PlcNext, WorkerNext

\* Acknowledged holds throughout.
LEMMA AcknowledgedAlways ==
    ASSUME Program = "acks" PROVE Spec => []Acknowledged
<1>1. Init => Acknowledged
  BY MessagesDiffer DEF Init, Acknowledged
<1>2. IInv /\ Acknowledged /\ [Next]_vars => Acknowledged'
  BY AcknowledgedStep
<1>3. QED
  BY Invariance, <1>1, <1>2, PTL DEF Spec

\* With a user program that lowers ENQ_ENR to have a status read, and a peer
\* that resets no connection, the PLC and its worker never wait for each other:
\* an enquiry that is under way has a message to be read or a worker at work.
THEOREM NobodyWaitsForBoth ==
    ASSUME Program = "acks", "reset" \notin Faults PROVE Spec => []NoMutualWait
<1>1. Init => worker # "crashed"
  BY DEF Init
<1>2. worker # "crashed" /\ [Next]_vars => (worker # "crashed")'
  BY DEF vars, plcVars, mail, process, Next, PlcNext, WorkerNext, Close,
     CallStart, CallNextRequest, CallAcknowledge, CallQuit, CallIdle, CallResume,
     CallRestart, CallPoll, Join, Spawn, NoStatus, AdoptStatus, NoResponse,
     AcceptResponse, RejectResponse, TakeResponse, Connect, ConnTimePasses,
     ConnectFails, Retry, FirstCommand, Obey, Send, SendFails, GiveUp,
        WriteTimesOut,
     Receive, HandOver, ReceiveEnd, ReceiveReset, ReceiveTimesOut, NextCommand,
     Leave, PeerAnswer, PeerCloses
<1>3. IInv /\ Acknowledged /\ worker # "crashed" => NoMutualWait
  <2> SUFFICES ASSUME TypeOK, Agreement, Acknowledged, worker # "crashed",
                      STATUS = RUNNING, scan = "idle"
               PROVE  NoMutualWait
    BY DEF IInv, NoMutualWait
  <2> USE DEF TypeOK, ProcessTypeOK, PlcTypeOK, Agreement, Acknowledged,
     Enquiring, NoMutualWait
  <2>1. CASE worker \in {"retrying", "leaving"}
    BY <2>1 DEF AwaitsAcknowledgement, Reported, Settled, Replacing
  <2>2. CASE worker = "ready"
    BY <2>2, MessagesDiffer, RequestTypes DEF AwaitsRequest
  <2>3. CASE worker = "answered"
    BY <2>3, MessagesDiffer, RequestTypes DEF AwaitsCommand, Reported, Settled,
       Replacing
  <2>4. CASE worker \in {"none", "starting", "sending", "receiving", "exited"}
    BY <2>4 DEF Settled, Replacing, RUNNING, NOT_STARTED
  <2>5. QED
    BY <2>1, <2>2, <2>3, <2>4
<1>4. QED
  BY Invariance, AcknowledgedAlways, <1>1, <1>2, <1>3, PTL DEF Spec

\* With such a program that gives every request its own transaction identifier
\* the connection implements the transfers of ModbusTransfer: one at a time,
\* each completed by its own answer or failed.
THEOREM ImplementsTransfers ==
    ASSUME Program = "acks", FreshTI, MaxId > 1
    PROVE  Spec => TransferSafety
<1> DEFINE
       pending == STATUS = RUNNING /\ CONN_ESTABLISHED
           Making == ~pending /\ pending' /\ sentId' = NextId /\ UNCHANGED dataArea
           Completing == pending /\ ~pending' /\ UNCHANGED sentId /\ dataArea' = sentId
           Failing == pending /\ ~pending' /\ UNCHANGED <<sentId, dataArea>>
           Keeping == (pending' <=> pending) /\ UNCHANGED <<sentId, dataArea>>
<1>1. Init => Transfer!Init
  BY DEF Init, Transfer!Init
<1>2. IInv /\ (Making \/ Completing \/ Failing \/ Keeping) => [Transfer!Next]_(Transfer!vars)
  <2>1. IInv => NextId \in 1 .. MaxId /\ NextId # sentId
    <3> SUFFICES ASSUME sentId \in 0 .. MaxId PROVE NextId \in 1 .. MaxId /\ NextId # sentId
      BY DEF IInv, TypeOK, PlcTypeOK
    <3>1. MaxId \in Nat /\ MaxId > 1
      BY BoundAssumption
    <3>2. QED
      BY <3>1 DEF NextId
  <2>2. QED
    BY <2>1 DEF Transfer!Next, Transfer!Make, Transfer!Complete, Transfer!Fail,
       Transfer!vars
<1>3. IInv /\ Acknowledged /\ [Next]_vars => Making \/ Completing \/ Failing \/ Keeping
  <2> SUFFICES ASSUME TypeOK, Agreement, Acknowledged, [Next]_vars
               PROVE  Making \/ Completing \/ Failing \/ Keeping
    BY DEF IInv
  <2> USE DEF TypeOK, ProcessTypeOK, PlcTypeOK, Agreement, Acknowledged, Enquiring
  <2>0. CASE UNCHANGED <<fields, sentId, dataArea>>
    BY <2>0 DEF fields
  <2>1. CASE CallStart
    <3>1. ~CONN_ESTABLISHED
      <4>1. STATUS = NOT_STARTED /\ scan = "idle"
        BY <2>1 DEF CallStart, Call
      <4>2. ~Enquiring /\ ~Reported /\ ~Settled /\ ~Replacing
        BY <4>1 DEF Reported, Settled, Replacing, RUNNING, NOT_STARTED
      <4>3. worker = "none"
        BY <4>1, <4>2 DEF AwaitsAcknowledgement, AwaitsRequest, AwaitsCommand,
           RUNNING, NOT_STARTED
      <4>4. QED
        BY <4>1, <4>3
    <3>2. QED
      BY <2>1, <3>1 DEF CallStart
  <2>2. CASE CallNextRequest
    BY <2>2 DEF CallNextRequest, PutRequest
  <2>3. CASE CallAcknowledge
    BY <2>3 DEF CallAcknowledge
  <2>4. CASE CallQuit
    BY <2>4 DEF CallQuit
  <2>5. CASE CallResume \/ CallRestart
    <3>1. /\ STATUS \notin {NOT_STARTED, RUNNING} /\ read_finish_status = 1
          /\ scan = "idle" /\ UNCHANGED <<CONN_ESTABLISHED, sentId, dataArea>>
      BY <2>5 DEF CallResume, CallRestart, Call, DONE, RUNNING, NOT_STARTED
    <3>2. ~CONN_ESTABLISHED
      <4>1. ~Enquiring /\ ~Reported /\ ~Replacing
        BY <3>1 DEF Reported, Replacing
      <4>2. worker \in {"retrying", "leaving"} => AwaitsAcknowledgement
        BY <3>1
      <4>3. worker \in {"retrying", "leaving"} => ~CONN_ESTABLISHED
        BY <4>1, <4>2 DEF AwaitsAcknowledgement
      <4>4. worker = "answered" => ~CONN_ESTABLISHED
        BY <3>1, <4>1 DEF AwaitsCommand
      <4>5. worker \in {"retrying", "leaving", "answered", "exited"}
        BY <3>1, <4>1 DEF AwaitsRequest
      <4>6. QED
        BY <3>1, <4>3, <4>4, <4>5
    <3>3. QED
      BY <3>1, <3>2
  <2>6. CASE AdoptStatus
    <3>1. CASE worker \in {"retrying", "leaving"}
      <4>1. /\ thread_resp_queue.read_finish_status = 0
            /\ ~thread_resp_queue.CONN_ESTABLISHED
        BY <2>6, <3>1 DEF AdoptStatus, Get, AwaitsAcknowledgement
      <4>2. ~CONN_ESTABLISHED' /\ UNCHANGED <<sentId, dataArea>>
        BY <2>6, <4>1 DEF AdoptStatus
      <4>3. QED
        BY <4>2
    <3>2. CASE worker = "ready"
      <4>1. /\ thread_resp_queue = Status(1, RUNNING, FALSE, TRUE)
            /\ ~CONN_ESTABLISHED
        BY <2>6, <3>2 DEF AdoptStatus, Get, AwaitsRequest
      <4>2. /\ thread_resp_queue.read_finish_status = 1
            /\ thread_resp_queue.STATUS = RUNNING
            /\ thread_resp_queue.CONN_ESTABLISHED = TRUE
        <5>1. RUNNING \in StatusCode
          BY CodeTypes
        <5>2. QED
          BY <4>1, <5>1, StatusTypes
      <4>3. /\ STATUS' = RUNNING /\ CONN_ESTABLISHED'
            /\ sentId' = NextId /\ UNCHANGED dataArea
        <5>1. thread_resp_queue.read_finish_status # 0
          BY ONLY <4>2
        <5>2. QED
          BY <2>6, <4>2, <5>1 DEF AdoptStatus, Get, PutRequest, Put, AfterStatus,
             Return
      <4>4. QED
        BY <4>1, <4>3
    <3>3. worker \in {"retrying", "leaving", "ready"}
      BY <2>6 DEF AdoptStatus, Get, Quiet, AwaitsCommand
    <3>4. QED
      BY <3>1, <3>2, <3>3
  <2>7. CASE AcceptResponse
    <3>1. pending
      BY <2>7 DEF AcceptResponse, TakeResponse, Get, Quiet, AwaitsCommand,
         AwaitsAcknowledgement, AwaitsRequest, NoAnswer
    <3>2. QED
      BY <2>7, <3>1 DEF AcceptResponse, TakeResponse, Get, Accepted, DONE, RUNNING
  <2>8. CASE RejectResponse
    <3>1. pending
      BY <2>8 DEF RejectResponse, TakeResponse, Get, Quiet, AwaitsCommand,
         AwaitsAcknowledgement, AwaitsRequest, NoAnswer
    <3>2. QED
      BY <2>8, <3>1 DEF RejectResponse, TakeResponse, Get, DONE, RUNNING
  <2>9. CASE \/ CallIdle \/ CallPoll \/ Join \/ NoStatus \/ NoResponse \/ Close
             \/ Connect \/ WorkerNext \/ PeerAnswer \/ PeerCloses \/ UNCHANGED vars
    <3>1. UNCHANGED <<fields, sentId, dataArea>>
      BY <2>9 DEF vars, plcVars, WorkerNext, CallIdle, CallPoll, Join, NoStatus,
         NoResponse,
         Close, Connect, ConnTimePasses, ConnectFails, Retry, FirstCommand, Send,
         SendFails, WriteTimesOut, Receive, ReceiveEnd, ReceiveReset,
            ReceiveTimesOut,
         NextCommand, Leave, PeerAnswer, PeerCloses
    <3>2. QED
      BY <2>0, <3>1
  <2>10. QED
    BY <2>1, <2>2, <2>3, <2>4, <2>5, <2>6, <2>7, <2>8, <2>9 DEF Next, PlcNext
<1>4. IInv /\ Acknowledged /\ [Next]_vars => [Transfer!Next]_(Transfer!vars)
  BY <1>2, <1>3
<1>5. QED
  BY Invariance, AcknowledgedAlways, <1>1, <1>4, PTL DEF Spec, TransferSafety
=============================================================================
