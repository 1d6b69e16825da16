----------------------------- MODULE MailboxPair -----------------------------
(***************************************************************************)
(* What put and get of test_run.py are used as: two one-place mailboxes,   *)
(* one in each direction, in which a whole message is put in one step and  *)
(* got in one step.  This is the view ModbusClient and ModbusServer take.  *)
(***************************************************************************)
CONSTANTS Message, NoMessage, Side, Other(_)

VARIABLES
    box,    \* box[s]: the message side s has put and the other has not got
    heard   \* heard[s]: the message side s got last

vars == <<box, heard>>

Init ==
    /\ box = [s \in Side |-> NoMessage]
    /\ heard = [s \in Side |-> NoMessage]

Put(s) ==
    /\ box[s] = NoMessage
    /\ \E m \in Message : box' = [box EXCEPT ![s] = m]
    /\ UNCHANGED heard

Get(s) ==
    /\ box[Other(s)] # NoMessage
    /\ heard' = [heard EXCEPT ![s] = box[Other(s)]]
    /\ box' = [box EXCEPT ![Other(s)] = NoMessage]

Next == \E s \in Side : Put(s) \/ Get(s)

\* A message does not stay in its mailbox.
Spec == Init /\ [][Next]_vars /\ WF_vars(\E s \in Side : Get(s))
=============================================================================
