----------------------------- MODULE ModbusMail -----------------------------
(***************************************************************************)
(* The vocabulary the PLC side of a Modbus connection (connection.py) and  *)
(* its worker process (test_run.py) share: the codes of STATUS, and the    *)
(* one-place mailboxes made of a shared array, written by put and read by  *)
(* get.                                                                    *)
(*                                                                         *)
(* A mailbox is a variable that holds a message or Empty.  Put does not    *)
(* look at what the mailbox holds, as put does not: an unread message is   *)
(* overwritten.  Module SharedArray models the two functions element by    *)
(* element and shows when one step of each is a fair account of them.      *)
(*                                                                         *)
(* At the end, what the proofs about the two sides of a connection cite of *)
(* the messages instead of expanding the records.                          *)
(***************************************************************************)
EXTENDS Naturals, TLAPS

\* The codes of Connection.STATUS.
NOT_STARTED        == "NOT_STARTED"
RUNNING            == "RUNNING"
DONE               == "DONE"
CONN_TIMEOUT_ERROR == "CONN_TIMEOUT_ERROR"
RECV_TIMEOUT_ERROR == "RECV_TIMEOUT_ERROR"
SERVER_ERROR       == "SERVER_ERROR"
CLIENT_ERROR       == "CLIENT_ERROR"

StatusCode == {NOT_STARTED, RUNNING, DONE, CONN_TIMEOUT_ERROR,
               RECV_TIMEOUT_ERROR, SERVER_ERROR, CLIENT_ERROR}

\* The four types of message a shared array carries.  A byte array is told
\* apart by the request it belongs to (id) and by whether the receiver finds
\* it well formed and legal (ok); the tuple of a client's request by its id.
Status(finish, status, error, established) ==
    [type |-> "status", read_finish_status |-> finish, STATUS |-> status,
     ERROR |-> error, CONN_ESTABLISHED |-> established]
Bytes(id, ok) == [type |-> "bytes", id |-> id, ok |-> ok]
Request(id)   == [type |-> "tuple", id |-> id]
Quit          == [type |-> "quit"]
Empty         == [type |-> "empty"]

\* The byte array [1] that acknowledges a status.
DummyAck == Bytes(0, FALSE)

\* put: the mailbox holds the message, whatever it held before.
Put(mailbox, message) == mailbox' = message

\* A get that does not mark the array as read.
GetKeeping(mailbox) == mailbox # Empty /\ UNCHANGED mailbox

\* get: a message is there; it is taken and the mailbox is marked as read.
Get(mailbox) == /\ mailbox # Empty
                /\ mailbox' = Empty

StatusMessage == {Status(f, s, e, c) : f \in {0, 1}, s \in StatusCode,
                                       e \in BOOLEAN, c \in BOOLEAN}
BytesMessage(ids)   == {Bytes(i, o) : i \in ids, o \in BOOLEAN}
RequestMessage(ids) == {Request(i) : i \in ids}
-----------------------------------------------------------------------------
(* Facts about the messages.                                               *)

\* The messages of the protocol are all different from each other.
LEMMA MessagesDiffer ==
    /\ Quit # Empty /\ DummyAck # Empty /\ DummyAck # Quit
    /\ \A i : Request(i) # Empty /\ Request(i) # Quit /\ Request(i) # DummyAck
    /\ \A i, o : Bytes(i, o) # Empty /\ Bytes(i, o) # Quit
    /\ \A f, s, e, c : Status(f, s, e, c) # Empty
BY DEF Quit, Empty, DummyAck, Request, Bytes, Status

\* What is in a status, and that a typed one is a status message.
LEMMA StatusTypes ==
    /\ \A f \in {0, 1}, s \in StatusCode, e, c \in BOOLEAN :
          /\ Status(f, s, e, c) \in StatusMessage
          /\ Status(f, s, e, c).read_finish_status = f
          /\ Status(f, s, e, c).STATUS = s
          /\ Status(f, s, e, c).ERROR = e
          /\ Status(f, s, e, c).CONN_ESTABLISHED = c
    /\ \A m \in StatusMessage :
          /\ m.read_finish_status \in {0, 1}
          /\ m.STATUS \in StatusCode
          /\ m.ERROR \in BOOLEAN /\ m.CONN_ESTABLISHED \in BOOLEAN
          /\ m # Empty
<1>1. \A m \in StatusMessage : \E f \in {0, 1}, s \in StatusCode, e, c \in BOOLEAN :
          m = Status(f, s, e, c)
  BY DEF StatusMessage
<1>2. \A f \in {0, 1}, s \in StatusCode, e, c \in BOOLEAN :
          Status(f, s, e, c) \in StatusMessage
  BY DEF StatusMessage
<1>3. \A f, s, e, c :
          /\ Status(f, s, e, c).read_finish_status = f
          /\ Status(f, s, e, c).STATUS = s
          /\ Status(f, s, e, c).ERROR = e
          /\ Status(f, s, e, c).CONN_ESTABLISHED = c
  BY DEF Status
<1>4. QED
  BY <1>1, <1>2, <1>3, MessagesDiffer

\* Typed byte arrays and requests are messages, and carry a typed id.
LEMMA BytesTypes ==
    ASSUME NEW S
    PROVE  /\ \A i \in S, o \in BOOLEAN : Bytes(i, o) \in BytesMessage(S)
           /\ \A m \in BytesMessage(S) : /\ m.id \in S /\ m.ok \in BOOLEAN
                                         /\ m # Empty /\ m # Quit
<1>1. \A m \in BytesMessage(S) : \E i \in S, o \in BOOLEAN : m = Bytes(i, o)
  BY DEF BytesMessage
<1>2. \A i \in S, o \in BOOLEAN : Bytes(i, o) \in BytesMessage(S)
  BY DEF BytesMessage
<1>3. \A i, o : Bytes(i, o).id = i /\ Bytes(i, o).ok = o
  BY DEF Bytes
<1>4. QED
  BY <1>1, <1>2, <1>3, MessagesDiffer

LEMMA RequestTypes ==
    ASSUME NEW S
    PROVE  /\ \A i \in S : Request(i) \in RequestMessage(S)
           /\ \A m \in RequestMessage(S) :
                 m.id \in S /\ m # Empty /\ m # Quit /\ m # DummyAck
<1>1. \A m \in RequestMessage(S) : \E i \in S : m = Request(i)
  BY DEF RequestMessage
<1>2. \A i \in S : Request(i) \in RequestMessage(S)
  BY DEF RequestMessage
<1>3. \A i : Request(i).id = i
  BY DEF Request
<1>4. QED
  BY <1>1, <1>2, <1>3, MessagesDiffer
=============================================================================
