--------------------------- MODULE ModbusTransfer ---------------------------
(***************************************************************************)
(* What a Modbus connection promises the user program, without mailboxes,  *)
(* processes or a medium: transfers happen one at a time.  A request is    *)
(* made, and it is either completed, by the answer to that very request,   *)
(* or it fails; then the next one is made.                                 *)
(***************************************************************************)
EXTENDS Naturals

CONSTANT MaxId

VARIABLES
    last,     \* the request made last
    pending,  \* is it still under way?
    stored    \* the request whose answer was stored last

vars == <<last, pending, stored>>

Init == last = 0 /\ pending = FALSE /\ stored = 0

Make ==
    /\ ~pending
    /\ \E id \in 1 .. MaxId : id # last /\ last' = id
    /\ pending' = TRUE
    /\ UNCHANGED stored

Complete ==
    /\ pending
    /\ stored' = last
    /\ pending' = FALSE
    /\ UNCHANGED last

Fail ==
    /\ pending
    /\ pending' = FALSE
    /\ UNCHANGED <<last, stored>>

Next == Make \/ Complete \/ Fail

\* Requests need not be made, but one that is made does not stay under way.
Spec == Init /\ [][Next]_vars /\ WF_vars(Complete \/ Fail)
=============================================================================
