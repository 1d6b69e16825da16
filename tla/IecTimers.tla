----------------------------- MODULE IecTimers ------------------------------
(***************************************************************************)
(* The IEC timers TP, TON and TOF (system_sfb_3.py .. system_sfb_5.py).    *)
(* Like the classic timers they act only when the program calls them.      *)
(* They take the time from a clock of 31 bits, now_TIME, that starts       *)
(* shortly before it wraps around (cpu.py).  calls is history, with a      *)
(* clock that does not wrap.                                               *)
(***************************************************************************)
EXTENDS Integers, SequencesExt

CONSTANTS
    Wrap,    \* the clock counts modulo Wrap (2^31 ms)
    PTs,     \* the values of PT
    Gaps,    \* the time between two calls
    IecCalls \* bound: the calls between two restarts

\* A program that leaves a running timer alone for longer than the clock can
\* count is left out.
ASSUME IecTimerAssumption ==
    /\ Wrap \in Nat \ {0} /\ PTs \subseteq Int /\ Gaps \subseteq Nat /\ IecCalls \in Nat
    /\ \A PT \in PTs, gap \in Gaps : PT + gap <= Wrap

VARIABLES
    timerBlock,  \* "TP", "TON" or "TOF"
    ATIME,       \* the clock, cpu.now_TIME
    inst,        \* the instance data; State is the set of bits of STATE
    BIE,         \* the status bit: was PT legal?
    timerCalls
iecVars == <<timerBlock, ATIME, inst, BIE, timerCalls>>

Cleared == [In |-> 0, Q |-> 0, ET |-> 0, State |-> {}, STIME |-> 0]

IecInit ==
    /\ timerBlock \in {"TP", "TON", "TOF"}
    /\ ATIME = Wrap - 1
    /\ inst = Cleared /\ BIE = 0 /\ timerCalls = <<>>
-----------------------------------------------------------------------------
\* Variant: the time since the start without the mask.
ElapsedUnmasked(d, at) == at - d.STIME

\* The time since the timer was started.
Elapsed(d, at) == (at - d.STIME) % Wrap

\* Start the timer if IN finds it neither running nor finished (TP, TON).
StartIfIdle(d, at) ==
    IF d.In = 1 /\ d.State = {}
    THEN [d EXCEPT !.STIME = at, !.State = {"RUNNING"}] ELSE d

\* A running timer shows its time and what Q is until, and when, it is over.
Proceed(d, PT, at, bit, finished, during, after) ==
    IF bit \notin d.State THEN d
    ELSE IF Elapsed(d, at) >= PT
    THEN [d EXCEPT !.ET = PT, !.Q = after, !.State = (@ \ {bit}) \cup finished]
    ELSE [d EXCEPT !.ET = Elapsed(d, at), !.Q = during]

RunTP(d, PT, at) ==
    LET r == Proceed(StartIfIdle(d, at), PT, at, "RUNNING", {"FINISHED"}, 1, 0)
    IN  IF d.In = 0 /\ "FINISHED" \in r.State
        THEN [r EXCEPT !.State = @ \ {"FINISHED"}, !.ET = 0] ELSE r

RunTON(d, PT, at) ==
    IF d.In = 0 THEN [d EXCEPT !.State = {}, !.ET = 0, !.Q = 0]
    ELSE Proceed(StartIfIdle(d, at), PT, at, "RUNNING", {"FINISHED"}, 0, 1)

RunTOF(d, PT, at) ==
    LET r == IF d.In = 1 THEN [d EXCEPT !.State = {"PREV_IN"}, !.ET = 0, !.Q = 1]
             ELSE IF "PREV_IN" \in d.State
             THEN [d EXCEPT !.STIME = at, !.State = {"DELAYING"}]
             ELSE d
    IN  Proceed(r, PT, at, "DELAYING", {}, 1, 0)

\* PT = 0 resets the timer, a negative one is an error; both clear it.
IllegalPT(d, PT) ==
    [d EXCEPT !.In = IF PT = 0 THEN 0 ELSE @, !.Q = 0, !.ET = 0, !.State = {}]

\* gap after the call before, the program calls the block with IN = In and PT.
TimerCall(In, PT, gap) ==
    /\ Len(timerCalls) < IecCalls
    /\ ATIME' = (ATIME + gap) % Wrap
    /\ LET d == [inst EXCEPT !.In = In]
       IN inst' = IF PT <= 0 THEN IllegalPT(d, PT)
                  ELSE CASE timerBlock = "TP" -> RunTP(d, PT, ATIME')
                         [] timerBlock = "TON" -> RunTON(d, PT, ATIME')
                         [] timerBlock = "TOF" -> RunTOF(d, PT, ATIME')
    /\ BIE' = IF PT < 0 THEN 0 ELSE 1
    /\ LET before == IF timerCalls = <<>> THEN 0 ELSE Last(timerCalls).time
       IN timerCalls' = Append(timerCalls, [In |-> In, PT |-> PT, time |-> before + gap])
    /\ UNCHANGED timerBlock

IecRestart ==
    /\ timerCalls # <<>>
    /\ ATIME' = Wrap - 1 /\ inst' = Cleared /\ timerCalls' = <<>>
    /\ UNCHANGED <<timerBlock, BIE>>

IecNext ==
    \/ \E In \in {0, 1}, PT \in PTs, gap \in Gaps : TimerCall(In, PT, gap)
    \/ IecRestart

IecSpec == IecInit /\ [][IecNext]_iecVars
-----------------------------------------------------------------------------
\* The reference reads the history.  Legal(i, n): no call from i to n cleared
\* the timer.  Past(i, j): at call j the time counted from call i is over.
Legal(i, n) == \A k \in i..n : timerCalls[k].PT > 0
Past(i, j) == timerCalls[j].time - timerCalls[i].time >= timerCalls[j].PT

\* TP: the pulse of call s was seen to be over, and IN to be 0 since.
PulseOver(s, n) ==
    \E j \in s..n : Past(s, j) /\ \E k \in j..n : timerCalls[k].In = 0

\* A call starts a pulse if IN is 1 and every earlier one is over.
PulseStarts(S) ==
    \A i \in 1..Len(timerCalls) :
       i \in S <=> /\ timerCalls[i].In = 1 /\ timerCalls[i].PT > 0
                  /\ \A s \in S : s < i /\ Legal(s, i) => PulseOver(s, i - 1)

RefTP(n) ==
    \E S \in SUBSET (1..n) :
       PulseStarts(S) /\ \E s \in S : Legal(s, n) /\ \A j \in s..n : ~Past(s, j)

\* TON: IN has been 1 for the time PT.
RefTON(n) ==
    \E i \in 1..n : \E j \in i..n :
       Legal(i, n) /\ Past(i, j) /\ \A k \in i..n : timerCalls[k].In = 1

\* TOF: IN is 1, or the time since it was seen to go to 0 is not over.
RefTOF(n) ==
    \E i \in 1..n :
       /\ timerCalls[i].In = 1 /\ Legal(i, n)
       /\ \A j \in i + 1..n : timerCalls[j].In = 0 /\ ~Past(i + 1, j)

\* However late the program calls a block, whatever it does to PT, and wherever
\* the clock wraps around, Q is what the history says, and a timer that is
\* running shows less than its time (run of SFB 3 to 5).
TimesPulses ==
    LET n == Len(timerCalls)
    IN  n > 0 => /\ inst.Q = 1 <=> CASE timerBlock = "TP" -> RefTP(n)
                                     [] timerBlock = "TON" -> RefTON(n)
                                     [] timerBlock = "TOF" -> RefTOF(n)
                 /\ inst.State \cap {"RUNNING", "DELAYING"} # {} /\ timerCalls[n].PT > 0 =>
                      inst.ET \in 0..timerCalls[n].PT - 1
=============================================================================
