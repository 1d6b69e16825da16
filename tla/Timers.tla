------------------------------- MODULE Timers -------------------------------
(***************************************************************************)
(* One classic timer of the CPU (core/timers.py), used by one of the five  *)
(* timer instructions SI, SV, SE, SS and SA, read by U, L and LC and reset *)
(* by R.  The timer is lazy: nothing happens when its time is up, the      *)
(* status changes when somebody looks (__checkDeadline).  rise, fall, over *)
(* and lost are history: what a timer that acts at once would go by.       *)
(*                                                                         *)
(* At the end, the clock memory byte of the CPU (core/cpu.py): eight bits  *)
(* that blink with periods from 0.1 s to 2 s, toggled by updateTimestamp,  *)
(* which is called now and then and makes up for at most one twentieth of  *)
(* a second in a call.  A program that writes to the byte is left out.     *)
(***************************************************************************)
EXTENDS Integers, FiniteSets, Sequences, FiniteSetsExt

CONSTANTS
    Base,       \* ticks in one unit of each timebase (10ms, 100ms, 1s, 10s in the code)
    MaxValue,   \* the largest value of a timer, in units of its timebase (999)
    Kinds,      \* the timer instructions the program may use
    Horizon,    \* bound: the last tick that is explored
    Halves,     \* half periods of the clock memory in units of 0.05 s: 1, 2, 4, 5, 8, 10, 16, 20
    MaxBehind   \* bound: how far the scan may fall behind

ASSUME TimerAssumption ==
    /\ Base \in Seq(Nat \ {0}) /\ Base # <<>>
    /\ MaxValue \in Nat /\ Horizon \in Nat
    /\ Kinds \subseteq {"SI", "SV", "SE", "SS", "SA"}

VARIABLES
    now,      \* cpu.now
    kind,     \* the instruction the program uses this timer with
    timer,    \* the Timer object
    duration, rise, fall, over, lost
timerVars == <<now, kind, timer, duration, rise, fall, over, lost>>

Never == -1
Max0(x) == IF x > 0 THEN x ELSE 0

\* An S5TIME operand: a timebase and a value in its units.
S5T == [timebase : DOMAIN Base, value : 0..MaxValue]
Seconds(s5t) == Base[s5t.timebase] * s5t.value
-----------------------------------------------------------------------------
\* Variant: the deadline is looked at but not acted on.
CheckDeadlineStill(t) ==
    [t EXCEPT !.remaining = IF t.running THEN Max0(t.deadline - now) ELSE t.remaining]

Remaining(t) == Max0(t.deadline - now)

StartTimer(t, s5t) ==
    LET d == now + Seconds(s5t)
    IN  [t EXCEPT !.timebase = s5t.timebase, !.deadline = d,
                  !.remaining = Max0(d - now), !.running = TRUE]

CheckDeadline(t) ==
    IF ~t.running THEN t
    ELSE IF Remaining(t) > 0 THEN [t EXCEPT !.remaining = Remaining(t)]
    ELSE [t EXCEPT !.remaining = Remaining(t), !.running = FALSE, !.status = t.callback]

\* What run_SI .. run_SA leave, for the result v of the logic operation;
\* callback is what the deadline makes of the status.
Rising(t, v) == v = 1 /\ t.prevVKE = 0
Falling(t, v) == v = 0 /\ t.prevVKE = 1

StopTimer(t) == [CheckDeadline(t) EXCEPT !.running = FALSE, !.status = 0]

RunSI(t, v, s5t) ==
    IF v = 0 THEN StopTimer(t)
    ELSE IF Rising(t, v) THEN StartTimer([t EXCEPT !.status = 1], s5t) ELSE t

RunSV(t, v, s5t) == IF Rising(t, v) THEN StartTimer([t EXCEPT !.status = 1], s5t) ELSE t

RunSE(t, v, s5t) ==
    IF v = 0 THEN StopTimer(t) ELSE IF Rising(t, v) THEN StartTimer(t, s5t) ELSE t

RunSS(t, v, s5t) == IF Rising(t, v) THEN StartTimer(t, s5t) ELSE t

RunSA(t, v, s5t) ==
    IF Rising(t, v) THEN [CheckDeadline(t) EXCEPT !.status = 1, !.running = FALSE]
    ELSE IF Falling(t, v) THEN StartTimer([t EXCEPT !.status = 1], s5t) ELSE t

Callback == IF kind \in {"SE", "SS"} THEN 1 ELSE 0

RunKind(t, v, s5t) ==
    CASE kind = "SI" -> RunSI(t, v, s5t)
      [] kind = "SV" -> RunSV(t, v, s5t)
      [] kind = "SE" -> RunSE(t, v, s5t)
      [] kind = "SS" -> RunSS(t, v, s5t)
      [] kind = "SA" -> RunSA(t, v, s5t)
-----------------------------------------------------------------------------
\* What U reads, and what L and LC make of the remaining time.  round() of an
\* exact half depends on the Python version.
Get == CheckDeadline(timer).status

RoundTo(x, unit) == {n \in 0..(x \div unit) + 1 : 2 * (x - n * unit) \in -unit..unit}
GetTimevalBin == RoundTo(CheckDeadline(timer).remaining, Base[timer.timebase])
GetTimevalS5T ==
    IF timer.timebase <= 2 THEN RoundTo(CheckDeadline(timer).remaining, Base[timer.timebase])
    ELSE {CheckDeadline(timer).remaining \div Base[timer.timebase]}
-----------------------------------------------------------------------------
TimerInit ==
    /\ now = 0
    /\ kind \in Kinds
    /\ timer = [prevVKE |-> 0, timebase |-> 1, callback |-> 0, deadline |-> 0,
                remaining |-> 0, status |-> 0, running |-> FALSE]
    /\ duration = 0 /\ rise = Never /\ fall = Never /\ over = FALSE /\ lost = FALSE

\* SI, SV, SE, SS or SA with VKE v and the S5TIME s5t in ACCU 1.
RunTimer(v, s5t) ==
    /\ timer' = [RunKind([timer EXCEPT !.callback = Callback], v, s5t) EXCEPT !.prevVKE = v]
    /\ rise' = IF Rising(timer, v) THEN now ELSE rise
    /\ fall' = IF Falling(timer, v) THEN now ELSE IF Rising(timer, v) THEN Never ELSE fall
    /\ duration' = IF Rising(timer, v) \/ (kind = "SA" /\ Falling(timer, v))
                   THEN Seconds(s5t) ELSE duration
    /\ over' = (over \/ (Rising(timer, v) /\ Seconds(s5t) = 0))
    /\ lost' = (lost \/ (Rising(timer, v) /\ timer.running /\ Remaining(timer) = 0))
    /\ UNCHANGED <<now, kind>>

\* U, UN, L, LC: everything that reads the timer looks at the deadline.
Look ==
    /\ timer' = CheckDeadline(timer)
    /\ UNCHANGED <<now, kind, duration, rise, fall, over, lost>>

\* R with VKE = 1.
ResetTimer ==
    /\ timer' = [timer EXCEPT !.running = FALSE, !.status = 0, !.remaining = 0]
    /\ rise' = Never /\ fall' = Never /\ over' = FALSE /\ lost' = FALSE
    /\ UNCHANGED <<now, kind, duration>>

Tick ==
    /\ now < Horizon
    /\ now' = now + 1
    /\ over' = (over \/ (rise # Never /\ now' >= rise + duration))
    /\ UNCHANGED <<kind, timer, duration, rise, fall, lost>>

TimerNext == (\E v \in {0, 1}, s5t \in S5T : RunTimer(v, s5t)) \/ Look \/ ResetTimer \/ Tick

TimerSpec == TimerInit /\ [][TimerNext]_timerVars
-----------------------------------------------------------------------------
\* Types of the timer object and of the history.
TimerTypeOK ==
    /\ timer \in [prevVKE : {0, 1}, timebase : DOMAIN Base, callback : {0, 1},
                  deadline : Nat, remaining : Nat, status : {0, 1}, running : BOOLEAN]
    /\ kind \in Kinds /\ now \in 0..Horizon /\ duration \in Nat
    /\ over \in BOOLEAN /\ lost \in BOOLEAN
    /\ rise \in Never..Horizon /\ fall \in Never..Horizon

\* The output a timer that acts the moment its time is up would have: a pulse
\* while the input is 1 (SI), a pulse (SV), a delayed on (SE), a delayed on that
\* stays until R (SS), a delayed off (SA).
Ideal ==
    CASE kind = "SI" -> timer.prevVKE = 1 /\ rise # Never /\ now < rise + duration
      [] kind = "SV" -> rise # Never /\ now < rise + duration
      [] kind = "SE" -> timer.prevVKE = 1 /\ rise # Never /\ now >= rise + duration
      [] kind = "SS" -> over
      [] kind = "SA" -> \/ timer.prevVKE = 1 /\ rise # Never
                        \/ fall # Never /\ now < fall + duration

\* The output read is that of the timer that acts at once; for SS as long as no
\* expiry was overwritten by a new start.
OutputAtOnce == (kind = "SS" /\ lost) \/ (Get = 1 <=> Ideal)

\* L and LC show the same time up to one unit of the timebase, and no reading
\* needs more than three digits (getTimevalBin rounds, getTimevalS5T truncates
\* from the timebase of one second on).
ReadingsFit ==
    \A b \in GetTimevalBin, s \in GetTimevalS5T : b - s \in {-1, 0, 1} /\ {b, s} \subseteq 0..MaxValue

\* Whenever a program looks at a timer it sees the output of the timer that acts
\* at once, however late it looks (timers.py: __checkDeadline), and a remaining
\* time that the two ways to read it agree on.
OutputIsIdeal == OutputAtOnce /\ ReadingsFit

\* tests/100-instructions/insn_SS.awl:55 ff.: an SS timer that has expired keeps
\* its output when it is started again.
ExpiryKept == kind = "SS" /\ over => Get = 1
-----------------------------------------------------------------------------
(* The clock memory.                                                       *)

ASSUME ClockAssumption ==
    /\ Halves \subseteq Nat \ {0} /\ MaxBehind \in Nat
    /\ \E n \in 1..1000 :   \* the least common multiple
         (\A k \in Halves : n % k = 0) /\ \A j \in 1..(n - 1) : \E k \in Halves : j % k # 0

VARIABLES
    behind,  \* the units of time that have passed and were not seen
    count,   \* __clockMemCount
    byte,    \* the bit of each half period
    elapsed  \* history: the units of time that were seen, in one double period
clockVars == <<behind, count, byte, elapsed>>

Lcm(S) == Min({n \in 1..1000 : \A k \in S : n % k = 0})

ClockInit == behind = 0 /\ count = 0 /\ byte = [k \in Halves |-> 0] /\ elapsed = 0

TimePasses ==
    /\ behind < MaxBehind
    /\ behind' = behind + 1
    /\ UNCHANGED <<count, byte, elapsed>>

\* Variant: the periods are looked up before the count goes on.
UpdateTimestampBefore ==
    /\ behind > 0
    /\ behind' = behind - 1
    /\ byte' = [k \in Halves |-> IF count % k = 0 THEN 1 - byte[k] ELSE byte[k]]
    /\ count' = IF count + 1 >= Lcm(Halves) THEN 0 ELSE count + 1
    /\ elapsed' = (elapsed + 1) % (2 * Lcm(Halves))

UpdateTimestamp ==
    /\ behind > 0
    /\ behind' = behind - 1
    /\ byte' = [k \in Halves |-> IF (count + 1) % k = 0 THEN 1 - byte[k] ELSE byte[k]]
    /\ count' = IF count + 1 >= Lcm(Halves) THEN 0 ELSE count + 1
    /\ elapsed' = (elapsed + 1) % (2 * Lcm(Halves))

ClockNext == TimePasses \/ UpdateTimestamp

ClockSpec == ClockInit /\ [][ClockNext]_clockVars
-----------------------------------------------------------------------------
\* Each bit keeps its own period for ever, although all are driven by one count
\* that starts again (cpu.py:829, 940).
BitsKeepTime == \A k \in Halves : byte[k] = (elapsed \div k) % 2
=============================================================================
