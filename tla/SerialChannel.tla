---------------------------- MODULE SerialChannel ----------------------------
(***************************************************************************)
(* What a serial line between two containers promises its programs: bytes  *)
(* arrive in the order in which they were written, none twice and none     *)
(* that was not written.  Bytes may be lost.  The bytes a host writes are  *)
(* numbered 1, 2, 3, ..., so that their order is that of their numbers.    *)
(***************************************************************************)
EXTENDS Naturals

CONSTANT Host

VARIABLES
    written,  \* written[h]: how many bytes h has written
    transit,  \* transit[h]: those under way to its partner
    got       \* got[h]: the last byte that arrived from h
vars == <<written, transit, got>>

Init ==
    /\ written = [h \in Host |-> 0]
    /\ transit = [h \in Host |-> {}]
    /\ got = [h \in Host |-> 0]

Write(h, n) ==
    /\ written' = [written EXCEPT ![h] = n]
    /\ transit' = [transit EXCEPT ![h] = @ \cup written[h] + 1 .. n]
    /\ UNCHANGED got

\* Only the bytes in kept go on.
Lose(h, kept) ==
    /\ transit' = [transit EXCEPT ![h] = kept]
    /\ UNCHANGED <<written, got>>

\* Byte b arrives; those before it have arrived with it, or never will.
Read(h, b) ==
    /\ got' = [got EXCEPT ![h] = b]
    /\ transit' = [transit EXCEPT ![h] = {c \in @ : c > b}]
    /\ UNCHANGED written

Next == \E h \in Host :
    \/ written'[h] > written[h] /\ Write(h, written'[h])
    \/ transit'[h] \subseteq transit[h] /\ Lose(h, transit'[h])
    \/ \E b \in transit[h] : Read(h, b)

Spec == Init /\ [][Next]_vars
=============================================================================
