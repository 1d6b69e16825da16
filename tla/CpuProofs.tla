----------------------------- MODULE CpuProofs -----------------------------
(***************************************************************************)
(* Proofs about the emulated CPU: the clock memory and the classic timers  *)
(* (Timers), the call stack (Calls), the data areas of its Modbus blocks   *)
(* (ModbusAreas), the IEC timers (IecTimers), the counters (Counters), the *)
(* bit logic (BitLogic) and the blocks of the IEC library (IecLibrary).    *)
(***************************************************************************)
EXTENDS Timers, Calls, ModbusAreas, IecTimers, Counters, BitLogic, IecLibrary,
        FiniteSetTheorems, TLAPS

-----------------------------------------------------------------------------
(* The clock memory.                                                       *)

\* Multiples keep their order.
LEMMA Multiples ==
  ASSUME NEW k \in Nat \ {0}, NEW a \in Int, NEW b \in Int, a < b
  PROVE  k * a + k <= k * b
<1>1. k * (b - a - 1) >= 0
  <2>1. \A x, y \in Nat : x * y >= 0
    OBVIOUS
  <2> QED BY <2>1
<1>2. k * (b - a - 1) = k * b - k * a - k
  OBVIOUS
<1> QED BY <1>1, <1>2

\* A quotient is known by its remainder.
LEMMA Quotient ==
  ASSUME NEW k \in Nat \ {0}, NEW q \in Int, NEW r \in 0..(k - 1)
  PROVE  (k * q + r) \div k = q /\ (k * q + r) % k = r
<1> DEFINE n == k * q + r
           p == n \div k
           s == n % k
<1>0. n \in Int /\ p \in Int /\ s \in 0..(k - 1) /\ n = k * p + s
  OBVIOUS
<1>1. ~(p < q)
  BY <1>0, Multiples
<1>2. ~(q < p)
  BY <1>0, Multiples
<1> QED BY <1>0, <1>1, <1>2

\* The clock goes round after a common multiple of the half periods.
LEMMA CommonMultiple ==
  /\ Lcm(Halves) \in Nat \ {0}
  /\ \A k \in Halves : \E m \in Nat \ {0} : Lcm(Halves) = k * m
<1> DEFINE T == {n \in 1..1000 : \A k \in Halves : n % k = 0}
<1>1. PICK n \in T : \A j \in T : n <= j
  <2>1. PICK n \in 1..1000 : /\ \A k \in Halves : n % k = 0
                             /\ \A j \in 1..(n - 1) : \E k \in Halves : j % k # 0
    BY ClockAssumption, ZenonT(60)
  <2>2. n \in T
    BY <2>1
  <2>3. ASSUME NEW j \in T, j < n PROVE FALSE
    <3>1. j \in 1..(n - 1)
      BY <2>3
    <3>2. PICK k \in Halves : j % k # 0
      BY <2>1, <3>1
    <3>3. j % k = 0
      BY <2>3, <3>2
    <3> QED BY <3>2, <3>3
  <2> QED BY <2>2, <2>3, SMTT(60)
<1>2. Min(T) \in T
  <2> HIDE DEF T
  <2> QED BY <1>1 DEF Min
<1>3. Lcm(Halves) = Min(T)
  BY DEF Lcm
<1> DEFINE l == Lcm(Halves)
<1>4. l \in T
  <2> HIDE DEF T
  <2> QED BY <1>2, <1>3
<1> HIDE DEF l
<1>5. l \in 1..1000
  BY <1>4
<1>6. ASSUME NEW k \in Halves PROVE \E m \in Nat \ {0} : l = k * m
  <2>1. l % k = 0 /\ k \in Nat \ {0}
    BY <1>4, ClockAssumption
  <2>2. l = k * (l \div k) /\ l \div k \in Int
    BY <1>5, <2>1
  <2>3. l \div k \in Nat \ {0}
    BY <1>5, <2>1
  <2> QED BY <2>2, <2>3
<1> QED BY <1>5, <1>6 DEF l

\* A bit is turned exactly when its half period has passed, whether or not the
\* count has gone round in between.
LEMMA BitTurns ==
  ASSUME NEW k \in Nat \ {0}, NEW m \in Nat \ {0}, NEW c \in 0..(k * m - 1),
         NEW e \in {c, k * m + c}
  PROVE  (((e + 1) % (2 * (k * m))) \div k) % 2
           = IF (c + 1) % k = 0 THEN 1 - ((e \div k) % 2) ELSE (e \div k) % 2
<1> DEFINE q == (c + 1) \div k
           r == (c + 1) % k
<1>1. q \in Nat /\ r \in 0..(k - 1) /\ c + 1 = k * q + r
  OBVIOUS
<1>2. r = 0 => q >= 1 /\ c = k * (q - 1) + (k - 1)
  BY <1>1
<1>3. r # 0 => c = k * q + (r - 1)
  BY <1>1
<1> HIDE DEF q, r
<1>4. c \div k = IF r = 0 THEN q - 1 ELSE q
  BY <1>1, <1>2, <1>3, Quotient
<1>5. (c + 1) \div k = q
  BY DEF q
<1>6. q <= m
  BY <1>1, Multiples
<1> DEFINE p == k * m
<1>7. (p + c) \div k = m + c \div k
  <2> DEFINE x == c \div k
             y == c % k
  <2>1. c = k * x + y /\ y \in 0..(k - 1) /\ x \in Int
    OBVIOUS
  <2> HIDE DEF x, y
  <2>2. p + c = k * (m + x) + y
    BY <2>1
  <2>3. (p + c) \div k = m + x
    BY <2>1, <2>2, Quotient
  <2> QED BY <2>3 DEF x
<1>8. (p + (c + 1)) \div k = m + q
  <2>1. p + (c + 1) = k * (m + q) + r
    BY <1>1
  <2> QED BY <1>1, <2>1, Quotient
<1>9. p \in Nat \ {0} /\ c \in 0..(p - 1) /\ e \in {c, p + c}
  BY <1>1
<1>10. c + 1 = p => r = 0 /\ q = m
  <2>1. p = k * m + 0 /\ 0 \in 0..(k - 1)
    OBVIOUS
  <2>2. p \div k = m /\ p % k = 0
    BY <2>1, Quotient
  <2> QED BY <2>2 DEF q, r
<1>11. 0 \div k = 0
  OBVIOUS
<1> HIDE DEF p
<1>12. (e + 1) % (2 * p) = IF e + 1 = 2 * p THEN 0 ELSE e + 1
  BY <1>9
<1>13. ((e + 1) % (2 * p)) \div k = IF e + 1 = 2 * p THEN 0 ELSE IF e = c THEN q ELSE m + q
  BY <1>5, <1>8, <1>9, <1>11, <1>12
<1>14. e \div k = (IF e = c THEN 0 ELSE m) + (IF r = 0 THEN q - 1 ELSE q)
  BY <1>1, <1>4, <1>7, <1>9
<1>15. e + 1 = 2 * p => e # c /\ r = 0 /\ q = m
  BY <1>9, <1>10
<1> DEFINE z == e \div k
           w == ((e + 1) % (2 * p)) \div k
<1>16. w % 2 = IF r = 0 THEN 1 - (z % 2) ELSE z % 2
  <2> HIDE DEF z, w
  <2>1. w = IF e + 1 = 2 * p THEN 0 ELSE IF e = c THEN q ELSE m + q
    BY <1>13 DEF w
  <2>2. z = (IF e = c THEN 0 ELSE m) + (IF r = 0 THEN q - 1 ELSE q)
    BY <1>14 DEF z
  <2> QED BY <1>1, <1>2, <1>15, <2>1, <2>2
<1> QED BY <1>16 DEF p, r

\* The units that were seen, and what the count makes of them.
ClockInv ==
  /\ behind \in Nat
  /\ count \in 0..(Lcm(Halves) - 1)
  /\ elapsed \in {count, Lcm(Halves) + count}
  /\ byte \in [Halves -> {0, 1}]
  /\ BitsKeepTime

\* Every bit of the clock memory blinks with its own period, for ever, however far
\* the scan falls behind (updateTimestamp).
THEOREM BitsBlink == ClockSpec => []BitsKeepTime
<1> DEFINE l == Lcm(Halves)
<1>0. l \in Nat \ {0}
  BY CommonMultiple
<1>1. ClockInit => ClockInv
  <2> SUFFICES ASSUME ClockInit PROVE ClockInv
    OBVIOUS
  <2>1. \A k \in Halves : 0 \div k = 0
    BY ClockAssumption
  <2>2. BitsKeepTime
    BY <2>1 DEF ClockInit, BitsKeepTime
  <2> QED BY <1>0, <2>2 DEF ClockInit, ClockInv
<1>2. ClockInv /\ [ClockNext]_clockVars => ClockInv'
  <2> SUFFICES ASSUME ClockInv, [ClockNext]_clockVars PROVE ClockInv'
    OBVIOUS
  <2>1. CASE UNCHANGED clockVars
    BY <2>1 DEF clockVars, ClockInv, BitsKeepTime
  <2>2. CASE TimePasses
    BY <2>2 DEF TimePasses, ClockInv, BitsKeepTime
  <2>3. CASE UpdateTimestamp
    <3>1. behind' \in Nat
      BY <2>3 DEF UpdateTimestamp, ClockInv
    <3>2. /\ count \in 0..(l - 1) /\ elapsed \in {count, l + count}
          /\ count' = IF count + 1 >= l THEN 0 ELSE count + 1
          /\ elapsed' = (elapsed + 1) % (2 * l)
      BY <2>3 DEF UpdateTimestamp, ClockInv
    <3>3. count' \in 0..(l - 1) /\ elapsed' \in {count', l + count'}
      <4> HIDE DEF l
      <4>1. elapsed' = IF elapsed + 1 = 2 * l THEN 0 ELSE elapsed + 1
        <5> DEFINE e == elapsed
        <5>1. e \in 0..(2 * l - 1) /\ l \in Nat \ {0}
          BY <1>0, <3>2
        <5> HIDE DEF e
        <5>2. (e + 1) % (2 * l) = IF e + 1 = 2 * l THEN 0 ELSE e + 1
          BY <5>1
        <5> QED BY <3>2, <5>2 DEF e
      <4> QED BY <1>0, <3>2, <4>1
    <3>4. byte' = [k \in Halves |-> IF (count + 1) % k = 0 THEN 1 - byte[k] ELSE byte[k]]
      BY <2>3 DEF UpdateTimestamp
    <3>5. byte' \in [Halves -> {0, 1}]
      BY <3>4 DEF ClockInv
    <3>6. ASSUME NEW k \in Halves PROVE byte'[k] = (elapsed' \div k) % 2
      <4>1. PICK m \in Nat \ {0} : l = k * m
        BY CommonMultiple
      <4>2. k \in Nat \ {0}
        BY ClockAssumption
      <4>3. byte[k] = (elapsed \div k) % 2
        BY DEF ClockInv, BitsKeepTime
      <4>4. byte'[k] = IF (count + 1) % k = 0 THEN 1 - byte[k] ELSE byte[k]
        BY <3>4
      <4> HIDE DEF l
      <4>5. count \in 0..(k * m - 1) /\ elapsed \in {count, k * m + count}
        BY <3>2, <4>1
      <4>6. elapsed' = (elapsed + 1) % (2 * (k * m))
        BY <3>2, <4>1
      <4>7. (((elapsed + 1) % (2 * (k * m))) \div k) % 2
              = IF (count + 1) % k = 0 THEN 1 - ((elapsed \div k) % 2) ELSE (elapsed \div k) % 2
        BY <4>2, <4>5, BitTurns, Zenon
      <4> QED BY <4>3, <4>4, <4>6, <4>7, Zenon
    <3> QED BY <3>1, <3>3, <3>5, <3>6 DEF ClockInv, BitsKeepTime
  <2> QED BY <2>1, <2>2, <2>3 DEF ClockNext
<1>3. ClockInv => BitsKeepTime
  BY DEF ClockInv
<1> QED BY <1>1, <1>2, <1>3, PTL DEF ClockSpec

-----------------------------------------------------------------------------
(* The timers.  A timer is lazy, so what it is at a moment is what it was    *)
(* when the program last looked: the invariant says, for each instruction,   *)
(* what a running and a stopped timer know of the input's last edges.        *)

TimerRecord ==
  [prevVKE : {0, 1}, timebase : DOMAIN Base, callback : {0, 1}, deadline : Nat,
   remaining : Nat, status : {0, 1}, running : BOOLEAN]

Resting(status) == ~timer.running /\ timer.status = status
Counting(end, before, after) ==
  IF timer.running THEN timer.deadline = end /\ timer.status = before
                   ELSE timer.status = after /\ now >= end

Within ==
  /\ timer.remaining <= Base[timer.timebase] * MaxValue
  /\ timer.running => timer.deadline - now <= Base[timer.timebase] * MaxValue

Lazily ==
  /\ kind = "SI" => IF timer.prevVKE = 1 /\ rise # Never THEN Counting(rise + duration, 1, 0) ELSE Resting(0)
  /\ kind = "SV" => IF rise # Never THEN Counting(rise + duration, 1, 0) ELSE Resting(0)
  /\ kind = "SE" => IF timer.prevVKE = 1 /\ rise # Never THEN Counting(rise + duration, 0, 1) ELSE Resting(0)
  /\ kind = "SS" /\ ~lost =>
       IF rise = Never THEN Resting(0) /\ ~over
       ELSE IF timer.running
            THEN timer.deadline = rise + duration /\ (over <=> timer.status = 1 \/ now >= timer.deadline)
            ELSE timer.status = 1 /\ over
  /\ kind = "SA" =>
       IF timer.prevVKE = 1 THEN fall = Never /\ Resting(IF rise = Never THEN 0 ELSE 1)
       ELSE IF fall # Never THEN Counting(fall + duration, 1, 0) ELSE Resting(0)

TimerInv ==
  /\ TimerTypeOK
  /\ timer.running => timer.callback = Callback
  /\ Within
  /\ Lazily

LEMMA Units ==
  ASSUME NEW s5t \in S5T
  PROVE  Seconds(s5t) \in Nat /\ Seconds(s5t) <= Base[s5t.timebase] * MaxValue
<1> DEFINE u == Base[s5t.timebase]
           x == s5t.value
<1>1. u \in Nat \ {0} /\ x \in 0..MaxValue /\ MaxValue \in Nat
  BY TimerAssumption DEF S5T
<1> HIDE DEF u, x
<1>2. u * x \in Nat /\ u * (MaxValue - x) \in Nat
  <2>1. \A y, z \in Nat : y * z \in Nat
    OBVIOUS
  <2>2. MaxValue - x \in Nat /\ x \in Nat
    BY <1>1
  <2> QED BY <1>1, <2>1, <2>2
<1>3. u * (MaxValue - x) = u * MaxValue - u * x
  BY <1>1
<1>4. u * x <= u * MaxValue
  BY <1>1, <1>2, <1>3
<1> QED BY <1>2, <1>4 DEF Seconds, u, x

LEMMA Starting ==
  ASSUME NEW t \in TimerRecord, NEW s5t \in S5T, now \in Nat
  PROVE  LET n == StartTimer(t, s5t)
         IN  /\ n \in TimerRecord /\ n.prevVKE = t.prevVKE /\ n.callback = t.callback
             /\ n.status = t.status /\ n.running /\ n.deadline = now + Seconds(s5t)
             /\ n.timebase = s5t.timebase /\ n.remaining = Seconds(s5t)
<1> DEFINE d == now + Seconds(s5t)
           n == StartTimer(t, s5t)
<1>1. d \in Nat /\ Max0(d - now) = Seconds(s5t) /\ Seconds(s5t) \in Nat /\ s5t.timebase \in DOMAIN Base
  BY Units DEF Max0, S5T
<1>2. n = [t EXCEPT !.timebase = s5t.timebase, !.deadline = d, !.remaining = Seconds(s5t), !.running = TRUE]
  BY <1>1 DEF StartTimer
<1> HIDE DEF d, n
<1>3. n \in TimerRecord
  BY <1>1, <1>2 DEF TimerRecord
<1> QED BY <1>2, <1>3 DEF TimerRecord, n, d

LEMMA Checking ==
  ASSUME NEW t \in TimerRecord, now \in Nat
  PROVE  LET n == CheckDeadline(t)
         IN  /\ n \in TimerRecord /\ n.prevVKE = t.prevVKE /\ n.callback = t.callback
             /\ n.deadline = t.deadline /\ n.timebase = t.timebase
             /\ n.running <=> t.running /\ t.deadline > now
             /\ n.status = IF t.running /\ t.deadline <= now THEN t.callback ELSE t.status
             /\ n.remaining = IF t.running THEN Max0(t.deadline - now) ELSE t.remaining
<1> DEFINE n == CheckDeadline(t)
<1>1. CASE ~t.running
  <2>1. n = t
    BY <1>1 DEF CheckDeadline
  <2> QED BY <1>1, <2>1
<1>2. CASE t.running
  <2> DEFINE r == Remaining(t)
  <2>1. r \in Nat /\ r = Max0(t.deadline - now) /\ (r > 0 <=> t.deadline > now)
    BY DEF Remaining, Max0, TimerRecord
  <2>2. n = IF r > 0 THEN [t EXCEPT !.remaining = r]
            ELSE [t EXCEPT !.remaining = r, !.running = FALSE, !.status = t.callback]
    BY <1>2 DEF CheckDeadline, TimerRecord
  <2> HIDE DEF r, n
  <2>3. CASE r > 0
    <3>1. n = [t EXCEPT !.remaining = r]
      BY <2>2, <2>3
    <3>2. n \in TimerRecord
      BY <2>1, <3>1 DEF TimerRecord
    <3>3. /\ n.prevVKE = t.prevVKE /\ n.callback = t.callback /\ n.deadline = t.deadline
          /\ n.timebase = t.timebase /\ n.running = t.running /\ n.status = t.status /\ n.remaining = r
      BY <3>1 DEF TimerRecord
    <3>4. t.deadline > now /\ ~(t.deadline <= now)
      BY <2>1, <2>3 DEF TimerRecord
    <3> QED BY <1>2, <2>1, <3>2, <3>3, <3>4 DEF n
  <2>4. CASE ~(r > 0)
    <3>1. n = [t EXCEPT !.remaining = r, !.running = FALSE, !.status = t.callback]
      BY <2>2, <2>4
    <3>2. n \in TimerRecord
      BY <2>1, <3>1 DEF TimerRecord
    <3>3. /\ n.prevVKE = t.prevVKE /\ n.callback = t.callback /\ n.deadline = t.deadline
          /\ n.timebase = t.timebase /\ n.running = FALSE /\ n.status = t.callback /\ n.remaining = r
      BY <3>1 DEF TimerRecord
    <3>4. ~(t.deadline > now) /\ t.deadline <= now
      BY <2>1, <2>4 DEF TimerRecord
    <3> QED BY <1>2, <2>1, <3>2, <3>3, <3>4 DEF n
  <2> QED BY <2>3, <2>4
<1> QED BY <1>1, <1>2

\* What an instruction leaves of the timer: stopped, started anew or as it was.
SameTime(n, t) == n.deadline = t.deadline /\ n.timebase = t.timebase
Stopped(n, t, status) == ~n.running /\ n.status = status /\ n.timebase = t.timebase
Started(n, s5t, status) ==
  /\ n.running /\ n.status = status
  /\ n.deadline = now + Seconds(s5t) /\ n.timebase = s5t.timebase /\ n.remaining = Seconds(s5t)
Same(n, t) == /\ n.running = t.running /\ n.status = t.status /\ n.deadline = t.deadline
              /\ n.timebase = t.timebase /\ n.remaining = t.remaining

RemainingOf(t) == IF t.running THEN Max0(t.deadline - now) ELSE t.remaining

LEMMA Stopping ==
  ASSUME NEW t \in TimerRecord, now \in Nat, NEW status \in {0, 1},
         NEW n, n = [CheckDeadline(t) EXCEPT !.running = FALSE, !.status = status]
  PROVE  /\ n \in TimerRecord /\ n.callback = t.callback
         /\ Stopped(n, t, status) /\ n.remaining = RemainingOf(t)
<1> DEFINE c == CheckDeadline(t)
<1>1. c \in TimerRecord /\ c.callback = t.callback /\ c.timebase = t.timebase /\ c.remaining = RemainingOf(t)
  BY Checking DEF RemainingOf
<1> HIDE DEF c
<1>2. n = [c EXCEPT !.running = FALSE, !.status = status]
  BY DEF c
<1>3. n \in TimerRecord
  BY <1>1, <1>2 DEF TimerRecord
<1> QED BY <1>1, <1>2, <1>3 DEF TimerRecord, Stopped

LEMMA StartingWith ==
  ASSUME NEW t \in TimerRecord, now \in Nat, NEW s5t \in S5T, NEW status \in {0, 1},
         NEW n, n = StartTimer([t EXCEPT !.status = status], s5t)
  PROVE  n \in TimerRecord /\ n.callback = t.callback /\ Started(n, s5t, status)
<1> DEFINE c == [t EXCEPT !.status = status]
<1>1. c \in TimerRecord /\ c.callback = t.callback /\ c.status = status
  BY DEF TimerRecord
<1> HIDE DEF c
<1>2. n = StartTimer(c, s5t)
  BY DEF c
<1> QED BY <1>1, <1>2, Starting DEF Started

\* The effect of an instruction on the timer, kind by kind.
Effect(n, t, v, s5t) ==
  /\ kind \in {"SI", "SE"} /\ v = 0 => Stopped(n, t, 0) /\ n.remaining = RemainingOf(t)
  /\ kind = "SA" /\ Rising(t, v) => Stopped(n, t, 1) /\ n.remaining = RemainingOf(t)
  /\ kind \in {"SI", "SV"} /\ Rising(t, v) => Started(n, s5t, 1)
  /\ kind \in {"SE", "SS"} /\ Rising(t, v) => Started(n, s5t, t.status)
  /\ kind = "SA" /\ Falling(t, v) => Started(n, s5t, 1)
  /\ \/ kind \in {"SI", "SE"} /\ v = 1 /\ ~Rising(t, v)
     \/ kind \in {"SV", "SS"} /\ ~Rising(t, v)
     \/ kind = "SA" /\ ~Rising(t, v) /\ ~Falling(t, v)
     => Same(n, t)

LEMMA Instruction ==
  ASSUME NEW t \in TimerRecord, now \in Nat, kind \in {"SI", "SV", "SE", "SS", "SA"},
         NEW v \in {0, 1}, NEW s5t \in S5T
  PROVE  LET n == RunKind(t, v, s5t)
         IN  n \in TimerRecord /\ n.callback = t.callback /\ Effect(n, t, v, s5t)
<1> DEFINE n == RunKind(t, v, s5t)
           Goal == n \in TimerRecord /\ n.callback = t.callback /\ Effect(n, t, v, s5t)
<1>0. t = [t EXCEPT !.status = t.status] /\ t.status \in {0, 1} /\ t.prevVKE \in {0, 1}
  BY DEF TimerRecord
<1>1. ASSUME n = StopTimer(t), v = 0, kind \in {"SI", "SE"} PROVE Goal
  <2>1. n = [CheckDeadline(t) EXCEPT !.running = FALSE, !.status = 0]
    BY <1>1, SMTT(60) DEF StopTimer
  <2> HIDE DEF n
  <2>2. n \in TimerRecord /\ n.callback = t.callback /\ Stopped(n, t, 0) /\ n.remaining = RemainingOf(t)
    BY <2>1, Stopping
  <2> QED BY <1>1, <2>2 DEF Effect, Rising
<1>2. ASSUME n = [CheckDeadline(t) EXCEPT !.running = FALSE, !.status = 1], Rising(t, v), kind = "SA" PROVE Goal
  <2> HIDE DEF n
  <2>1. n \in TimerRecord /\ n.callback = t.callback /\ Stopped(n, t, 1) /\ n.remaining = RemainingOf(t)
    BY <1>2, Stopping
  <2> QED BY <1>2, <2>1, SMTT(60) DEF Effect, Rising, Falling
<1>3. ASSUME NEW status \in {0, 1}, n = StartTimer([t EXCEPT !.status = status], s5t),
             \/ kind \in {"SI", "SV"} /\ Rising(t, v) /\ status = 1
             \/ kind \in {"SE", "SS"} /\ Rising(t, v) /\ status = t.status
             \/ kind = "SA" /\ Falling(t, v) /\ status = 1
      PROVE  Goal
  <2> HIDE DEF n
  <2>1. n \in TimerRecord /\ n.callback = t.callback /\ Started(n, s5t, status)
    BY <1>3, StartingWith
  <2> QED BY <1>3, <2>1 DEF Effect, Rising, Falling
<1>4. ASSUME n = t, \/ kind \in {"SI", "SE"} /\ v = 1 /\ ~Rising(t, v)
                    \/ kind \in {"SV", "SS"} /\ ~Rising(t, v)
                    \/ kind = "SA" /\ ~Rising(t, v) /\ ~Falling(t, v)
      PROVE  Goal
  <2> HIDE DEF n
  <2> QED BY <1>4 DEF Effect, Same
<1>5. CASE kind = "SI"
  <2>1. n = RunSI(t, v, s5t)
    BY <1>5 DEF RunKind
  <2> QED BY <1>1, <1>3, <1>4, <1>5, <2>1 DEF RunSI
<1>6. CASE kind = "SV"
  <2>1. n = RunSV(t, v, s5t)
    BY <1>6 DEF RunKind
  <2> QED BY <1>3, <1>4, <1>6, <2>1 DEF RunSV
<1>7. CASE kind = "SE"
  <2>1. n = RunSE(t, v, s5t)
    BY <1>7 DEF RunKind
  <2> QED BY <1>0, <1>1, <1>3, <1>4, <1>7, <2>1 DEF RunSE
<1>8. CASE kind = "SS"
  <2>1. n = RunSS(t, v, s5t)
    BY <1>8 DEF RunKind
  <2> QED BY <1>0, <1>3, <1>4, <1>8, <2>1 DEF RunSS
<1>9. CASE kind = "SA"
  <2>1. n = RunSA(t, v, s5t)
    BY <1>9 DEF RunKind
  <2>2. [CheckDeadline(t) EXCEPT !.status = 1, !.running = FALSE]
          = [CheckDeadline(t) EXCEPT !.running = FALSE, !.status = 1]
    <3> DEFINE c == CheckDeadline(t)
    <3>1. c \in TimerRecord
      BY Checking
    <3> HIDE DEF c
    <3>2. [c EXCEPT !.status = 1, !.running = FALSE] = [c EXCEPT !.running = FALSE, !.status = 1]
      BY <3>1 DEF TimerRecord
    <3> QED BY <3>2 DEF c
  <2> QED BY <1>2, <1>3, <1>4, <1>9, <2>1, <2>2 DEF RunSA
<1> QED BY <1>5, <1>6, <1>7, <1>8, <1>9

LEMMA Ran ==
  ASSUME TimerInv, NEW v \in {0, 1}, NEW s5t \in S5T, RunTimer(v, s5t)
  PROVE  /\ timer' \in TimerRecord /\ timer'.prevVKE = v /\ timer'.callback = Callback
         /\ Effect(timer', timer, v, s5t)
<1> DEFINE t == [timer EXCEPT !.callback = Callback]
           m == RunKind(t, v, s5t)
<1>1. timer \in TimerRecord /\ now \in Nat /\ kind \in {"SI", "SV", "SE", "SS", "SA"} /\ Callback \in {0, 1}
  BY TimerAssumption DEF TimerInv, TimerTypeOK, TimerRecord, Callback
<1>2. /\ t \in TimerRecord /\ t.callback = Callback /\ t.prevVKE = timer.prevVKE /\ t.status = timer.status
      /\ t.running = timer.running /\ t.deadline = timer.deadline /\ t.timebase = timer.timebase
      /\ t.remaining = timer.remaining
  BY <1>1 DEF TimerRecord
<1>3. timer' = [m EXCEPT !.prevVKE = v]
  BY DEF RunTimer
<1> HIDE DEF t
<1>4. m \in TimerRecord /\ m.callback = t.callback /\ Effect(m, t, v, s5t)
  BY <1>1, <1>2, Instruction
<1> HIDE DEF m
<1>5. /\ timer' \in TimerRecord /\ timer'.prevVKE = v /\ timer'.callback = m.callback
      /\ timer'.status = m.status /\ timer'.running = m.running /\ timer'.deadline = m.deadline
      /\ timer'.timebase = m.timebase /\ timer'.remaining = m.remaining
  BY <1>3, <1>4 DEF TimerRecord
<1>6. Effect(timer', timer, v, s5t)
  <2>1. RemainingOf(t) = RemainingOf(timer)
    BY <1>2 DEF RemainingOf
  <2> QED BY <1>2, <1>4, <1>5, <2>1 DEF Effect, Stopped, Started, Same, Rising, Falling
<1> QED BY <1>2, <1>4, <1>5, <1>6

\* The times stay within what the timebase can show.
LEMMA WithinKept ==
  ASSUME TimerInv, timer' \in TimerRecord, now' \in Nat, now' >= now,
         \/ timer'.timebase = timer.timebase /\ timer'.remaining \in {timer.remaining, RemainingOf(timer), 0}
            /\ (timer'.running => timer.running /\ timer'.deadline = timer.deadline)
         \/ \E s5t \in S5T : Started(timer', s5t, timer'.status) /\ now' = now
  PROVE  Within'
<1>1. timer \in TimerRecord /\ now \in Nat /\ Within
  BY DEF TimerInv, TimerTypeOK, TimerRecord
<1>2. CASE /\ timer'.timebase = timer.timebase /\ timer'.remaining \in {timer.remaining, RemainingOf(timer), 0}
           /\ timer'.running => timer.running /\ timer'.deadline = timer.deadline
  <2> DEFINE limit == Base[timer.timebase] * MaxValue
  <2>1. limit \in Nat
    <3>1. Base[timer.timebase] \in Nat /\ MaxValue \in Nat
      BY <1>1, TimerAssumption DEF TimerRecord
    <3>2. \A x, y \in Nat : x * y \in Nat
      OBVIOUS
    <3> QED BY <3>1, <3>2
  <2>2. limit' = limit
    BY <1>2
  <2>3. timer.remaining <= limit /\ (timer.running => timer.deadline - now <= limit)
    BY <1>1 DEF Within
  <2> HIDE DEF limit
  <2>4. RemainingOf(timer) <= limit
    BY <1>1, <2>1, <2>3 DEF RemainingOf, Max0, TimerRecord
  <2>5. timer'.remaining <= limit
    BY <1>2, <2>1, <2>3, <2>4
  <2>6. timer'.running => timer'.deadline - now' <= limit
    BY <1>1, <1>2, <2>1, <2>3 DEF TimerRecord
  <2> QED BY <1>2, <2>5, <2>6 DEF Within, limit
<1>3. ASSUME NEW s5t \in S5T, Started(timer', s5t, timer'.status), now' = now PROVE Within'
  <2>1. Seconds(s5t) \in Nat /\ Seconds(s5t) <= Base[s5t.timebase] * MaxValue
    BY Units
  <2>2. timer'.timebase = s5t.timebase /\ timer'.remaining = Seconds(s5t) /\ timer'.deadline - now' = Seconds(s5t)
    BY <1>1, <1>3, <2>1 DEF Started
  <2> QED BY <2>1, <2>2 DEF Within
<1> QED BY <1>2, <1>3

LEMMA TimerPreserved == TimerInv /\ [TimerNext]_timerVars => TimerInv'
<1> SUFFICES ASSUME TimerInv, [TimerNext]_timerVars PROVE TimerInv'
  OBVIOUS
<1>1. /\ timer \in TimerRecord /\ now \in 0..Horizon /\ kind \in {"SI", "SV", "SE", "SS", "SA"} /\ kind \in Kinds
      /\ duration \in Nat /\ Horizon \in Nat
      /\ rise \in Never..Horizon /\ fall \in Never..Horizon /\ over \in BOOLEAN /\ lost \in BOOLEAN
  BY TimerAssumption DEF TimerInv, TimerTypeOK, TimerRecord
<1>2. Callback \in {0, 1} /\ Never = -1 /\ now \in Nat
  BY <1>1 DEF Callback, Never
<1>3. CASE UNCHANGED timerVars
  BY <1>3 DEF timerVars, TimerInv, TimerTypeOK, Callback, Within, Lazily, Counting, Resting
<1>4. ASSUME NEW v \in {0, 1}, NEW s5t \in S5T, RunTimer(v, s5t) PROVE TimerInv'
  <2>1. /\ timer' \in TimerRecord /\ timer'.prevVKE = v /\ timer'.callback = Callback
        /\ Effect(timer', timer, v, s5t) /\ Seconds(s5t) \in Nat
    BY <1>4, Ran, Units
  <2>2. /\ now' = now /\ kind' = kind
        /\ rise' = IF Rising(timer, v) THEN now ELSE rise
        /\ fall' = IF Falling(timer, v) THEN now ELSE IF Rising(timer, v) THEN Never ELSE fall
        /\ duration' = IF Rising(timer, v) \/ (kind = "SA" /\ Falling(timer, v)) THEN Seconds(s5t) ELSE duration
        /\ over' = (over \/ (Rising(timer, v) /\ Seconds(s5t) = 0))
        /\ lost' = (lost \/ (Rising(timer, v) /\ timer.running /\ Remaining(timer) = 0))
    BY <1>4 DEF RunTimer
  <2>3. TimerTypeOK'
    BY <1>1, <1>2, <2>1, <2>2 DEF TimerTypeOK, TimerRecord
  <2>4. Callback' = Callback
    BY <2>2 DEF Callback
  <2>5. Within'
    <3>1. now' \in Nat /\ now' >= now
      BY <1>2, <2>2
    <3>2. \/ Stopped(timer', timer, timer'.status) /\ timer'.remaining = RemainingOf(timer)
          \/ Started(timer', s5t, timer'.status)
          \/ Same(timer', timer)
      BY <1>1, <2>1 DEF Effect, Rising, Falling, Stopped, Started, TimerRecord
    <3> QED BY <2>1, <2>2, <3>1, <3>2, WithinKept DEF Stopped, Same
  <2>6. Lazily'
    <3>1. timer.prevVKE \in {0, 1} /\ timer.status \in {0, 1} /\ timer.running \in BOOLEAN /\ timer.deadline \in Nat
      BY <1>1 DEF TimerRecord
    <3>2. CASE kind = "SI"
      BY <1>1, <1>2, <2>1, <2>2, <3>1, <3>2
         DEF TimerInv, Lazily, Effect, Counting, Resting, Stopped, Started, Same, Rising
    <3>3. CASE kind = "SV"
      BY <1>1, <1>2, <2>1, <2>2, <3>1, <3>3
         DEF TimerInv, Lazily, Effect, Counting, Resting, Stopped, Started, Same, Rising
    <3>4. CASE kind = "SE"
      BY <1>1, <1>2, <2>1, <2>2, <3>1, <3>4
         DEF TimerInv, Lazily, Effect, Counting, Resting, Stopped, Started, Same, Rising
    <3>5. CASE kind = "SS"
      <4>1. Remaining(timer) = 0 <=> timer.deadline <= now
        BY <1>2, <3>1 DEF Remaining, Max0
      <4>2. ASSUME ~lost
            PROVE  IF rise = Never THEN ~timer.running /\ timer.status = 0 /\ ~over
                   ELSE IF timer.running
                        THEN timer.deadline = rise + duration /\ (over <=> timer.status = 1 \/ now >= timer.deadline)
                        ELSE timer.status = 1 /\ over
        BY <3>5, <4>2 DEF TimerInv, Lazily, Resting
      <4>3. CASE Rising(timer, v)
        <5>1. Started(timer', s5t, timer.status) /\ rise' = now /\ duration' = Seconds(s5t)
          BY <2>1, <2>2, <3>5, <4>3 DEF Effect
        <5>2. timer'.running /\ timer'.deadline = now + Seconds(s5t) /\ timer'.status = timer.status
          BY <5>1 DEF Started
        <5>3. over' = (over \/ Seconds(s5t) = 0) /\ lost' = (lost \/ (timer.running /\ Remaining(timer) = 0))
          BY <2>2, <4>3
        <5>4. ~lost' => (over <=> timer.status = 1)
          <6> SUFFICES ASSUME ~lost' PROVE over <=> timer.status = 1
            OBVIOUS
          <6>1. ~lost /\ ~(timer.running /\ Remaining(timer) = 0)
            BY <5>3, Zenon
          <6>2. CASE rise = Never
            BY <4>2, <6>1, <6>2
          <6>3. CASE rise # Never /\ timer.running
            BY <1>2, <3>1, <4>1, <4>2, <6>1, <6>3
          <6>4. CASE rise # Never /\ ~timer.running
            BY <4>2, <6>1, <6>4
          <6> QED BY <6>2, <6>3, <6>4
        <5>5. now >= now + Seconds(s5t) <=> Seconds(s5t) = 0
          BY <1>2, <2>1
        <5>6. rise' # Never
          BY <1>2, <5>1
        <5> QED BY <2>2, <3>5, <5>1, <5>2, <5>3, <5>4, <5>5, <5>6 DEF Lazily
      <4>4. CASE ~Rising(timer, v)
        <5>1. Same(timer', timer) /\ rise' = rise /\ duration' = duration /\ over' = over /\ lost' = lost
          BY <1>1, <2>1, <2>2, <3>5, <4>4 DEF Effect
        <5> QED BY <2>2, <3>5, <4>2, <5>1 DEF Lazily, Same, Resting
      <4> QED BY <4>3, <4>4
    <3>6. CASE kind = "SA"
      BY <1>1, <1>2, <2>1, <2>2, <3>1, <3>6
         DEF TimerInv, Lazily, Effect, Counting, Resting, Stopped, Started, Same, Rising, Falling
    <3> QED BY <1>1, <3>2, <3>3, <3>4, <3>5, <3>6
  <2> QED BY <2>1, <2>3, <2>4, <2>5, <2>6 DEF TimerInv
<1>5. CASE Look
  <2>1. timer' = CheckDeadline(timer) /\ UNCHANGED <<now, kind, duration, rise, fall, over, lost>>
    BY <1>5 DEF Look
  <2>2. /\ timer' \in TimerRecord /\ timer'.prevVKE = timer.prevVKE /\ timer'.callback = timer.callback
        /\ timer'.deadline = timer.deadline /\ timer'.timebase = timer.timebase
        /\ timer'.running <=> timer.running /\ timer.deadline > now
        /\ timer'.status = IF timer.running /\ timer.deadline <= now THEN timer.callback ELSE timer.status
        /\ timer'.remaining = RemainingOf(timer)
    BY <1>1, <1>2, <2>1, Checking DEF RemainingOf
  <2>3. TimerTypeOK'
    BY <1>1, <2>1, <2>2 DEF TimerTypeOK, TimerRecord
  <2>4. Callback' = Callback /\ (timer.running => timer.callback = Callback)
    BY <2>1 DEF Callback, TimerInv
  <2>5. Within'
    BY <1>2, <2>1, <2>2, WithinKept
  <2>6. Lazily'
    <3>1. timer.prevVKE \in {0, 1} /\ timer.status \in {0, 1} /\ timer.running \in BOOLEAN /\ timer.deadline \in Nat
      BY <1>1 DEF TimerRecord
    <3>2. Callback = IF kind \in {"SE", "SS"} THEN 1 ELSE 0
      BY DEF Callback
    <3> QED BY <1>1, <1>2, <2>1, <2>2, <2>4, <3>1, <3>2 DEF TimerInv, Lazily, Counting, Resting
  <2> QED BY <2>2, <2>3, <2>4, <2>5, <2>6 DEF TimerInv
<1>6. CASE ResetTimer
  <2>1. /\ timer' = [timer EXCEPT !.running = FALSE, !.status = 0, !.remaining = 0]
        /\ rise' = Never /\ fall' = Never /\ over' = FALSE /\ lost' = FALSE
        /\ UNCHANGED <<now, kind, duration>>
    BY <1>6 DEF ResetTimer
  <2>2. /\ timer' \in TimerRecord /\ timer'.prevVKE = timer.prevVKE /\ timer'.callback = timer.callback
        /\ timer'.timebase = timer.timebase /\ timer'.running = FALSE /\ timer'.status = 0
        /\ timer'.remaining = 0
    BY <1>1, <2>1 DEF TimerRecord
  <2>3. TimerTypeOK'
    <3>0. Never \in Never..Horizon
      BY <1>1, <1>2
    <3>1. rise' \in Never..Horizon /\ fall' \in Never..Horizon /\ over' \in BOOLEAN /\ lost' \in BOOLEAN
      BY <2>1, <3>0, Zenon
    <3>2. kind' \in Kinds /\ now' \in 0..Horizon /\ duration' \in Nat
      BY <1>1, <2>1
    <3> QED BY <2>2, <3>1, <3>2 DEF TimerTypeOK, TimerRecord
  <2>4. Within'
    BY <1>2, <2>1, <2>2, WithinKept
  <2>5. Lazily'
    BY <1>2, <2>1, <2>2 DEF Lazily, Resting
  <2> QED BY <2>2, <2>3, <2>4, <2>5 DEF TimerInv
<1>7. CASE Tick
  <2>1. /\ now < Horizon /\ now' = now + 1
        /\ over' = (over \/ (rise # Never /\ now' >= rise + duration))
        /\ UNCHANGED <<kind, timer, duration, rise, fall, lost>>
    BY <1>7 DEF Tick
  <2>2. TimerTypeOK'
    BY <1>1, <2>1 DEF TimerTypeOK, TimerRecord
  <2>3. Callback' = Callback
    BY <2>1 DEF Callback
  <2>4. Within'
    BY <1>1, <1>2, <2>1, WithinKept
  <2>5. Lazily'
    <3>1. timer.prevVKE \in {0, 1} /\ timer.status \in {0, 1} /\ timer.running \in BOOLEAN /\ timer.deadline \in Nat
      BY <1>1 DEF TimerRecord
    <3> QED BY <1>1, <1>2, <2>1, <3>1 DEF TimerInv, Lazily, Counting, Resting
  <2> QED BY <2>1, <2>2, <2>3, <2>4, <2>5 DEF TimerInv
<1> QED BY <1>3, <1>4, <1>5, <1>6, <1>7 DEF TimerNext

\* Two readings of one time, each rounded or cut, differ by at most a unit, and
\* what the timebase can show needs no more than MaxValue units.
LEMMA Readings ==
  ASSUME NEW u \in Nat \ {0}, NEW x \in Nat, x <= u * MaxValue,
         NEW b \in RoundTo(x, u), NEW s \in RoundTo(x, u) \cup {x \div u}
  PROVE  b - s \in {-1, 0, 1} /\ {b, s} \subseteq 0..MaxValue
<1> DEFINE Rounded(n) == n \in Nat /\ -u <= 2 * (x - u * n) /\ 2 * (x - u * n) < 2 * u
<1>1. \A n \in RoundTo(x, u) : Rounded(n)
  <2> SUFFICES ASSUME NEW n \in RoundTo(x, u) PROVE Rounded(n)
    OBVIOUS
  <2>1. x \div u \in Nat
    OBVIOUS
  <2>2. n \in Nat /\ 2 * (x - n * u) \in -u..u
    BY <2>1 DEF RoundTo
  <2>3. n * u = u * n /\ u * n \in Int
    BY <2>2
  <2> QED BY <2>2, <2>3
<1>2. Rounded(x \div u)
  <2>1. x \div u \in Nat /\ x % u \in 0..(u - 1) /\ x = u * (x \div u) + (x % u)
    OBVIOUS
  <2> DEFINE p == u * (x \div u)
  <2>2. p \in Int
    BY <2>1
  <2> HIDE DEF p
  <2>3. x = p + (x % u)
    BY <2>1 DEF p
  <2>4. -u <= 2 * (x - p) /\ 2 * (x - p) < 2 * u
    BY <2>1, <2>2, <2>3
  <2> QED BY <2>1, <2>4 DEF p
<1> HIDE DEF Rounded
<1>3. Rounded(b) /\ Rounded(s)
  BY <1>1, <1>2
<1>4. ASSUME NEW m, Rounded(m), NEW n, Rounded(n) PROVE ~(m + 1 < n)
  <2> SUFFICES ASSUME m + 1 < n PROVE FALSE
    OBVIOUS
  <2>1. m \in Nat /\ n \in Nat /\ m + 1 \in Int /\ n \in Int /\ m \in Int
    BY <1>4 DEF Rounded
  <2>2. u * (m + 1) + u <= u * n
    BY <1>4, <2>1, Multiples
  <2>3. u * (m + 1) = u * m + u /\ u * m \in Int /\ u * n \in Int
    BY <2>1
  <2>4. -u <= 2 * (x - u * n) /\ 2 * (x - u * m) < 2 * u
    BY <1>4 DEF Rounded
  <2> DEFINE p == u * m
             q == u * n
  <2>5. p \in Int /\ q \in Int /\ p + u + u <= q /\ -u <= 2 * (x - q) /\ 2 * (x - p) < 2 * u
    BY <2>2, <2>3, <2>4
  <2> HIDE DEF p, q
  <2> QED BY <2>5
<1>5. ASSUME NEW n, Rounded(n) PROVE n \in 0..MaxValue
  <2>1. n \in Nat /\ MaxValue \in Nat
    BY <1>5, TimerAssumption DEF Rounded
  <2>2. ASSUME MaxValue < n PROVE FALSE
    <3>1. u * MaxValue + u <= u * n
      BY <2>1, <2>2, Multiples
    <3>2. -u <= 2 * (x - u * n) /\ u * n \in Int /\ u * MaxValue \in Int
      BY <1>5, <2>1 DEF Rounded
    <3> DEFINE p == u * MaxValue
               q == u * n
    <3>3. p \in Int /\ q \in Int /\ p + u <= q /\ -u <= 2 * (x - q) /\ x <= p
      BY <3>1, <3>2
    <3> HIDE DEF p, q
    <3> QED BY <3>3
  <2> QED BY <2>1, <2>2
<1>6. b \in Nat /\ s \in Nat
  BY <1>3 DEF Rounded
<1>7. ~(b + 1 < s) /\ ~(s + 1 < b)
  BY <1>3, <1>4
<1> QED BY <1>3, <1>5, <1>6, <1>7

LEMMA TimerCorrect == TimerInv => OutputIsIdeal
<1> SUFFICES ASSUME TimerInv PROVE OutputIsIdeal
  OBVIOUS
<1> DEFINE n == CheckDeadline(timer)
<1>1. /\ timer \in TimerRecord /\ now \in Nat /\ kind \in {"SI", "SV", "SE", "SS", "SA"} /\ Horizon \in Nat
      /\ duration \in Nat /\ rise \in Never..Horizon /\ fall \in Never..Horizon
      /\ over \in BOOLEAN /\ lost \in BOOLEAN
  BY TimerAssumption DEF TimerInv, TimerTypeOK, TimerRecord
<1>2. /\ n \in TimerRecord /\ n.timebase = timer.timebase
      /\ n.status = IF timer.running /\ timer.deadline <= now THEN timer.callback ELSE timer.status
      /\ n.remaining = RemainingOf(timer)
  BY <1>1, Checking DEF RemainingOf
<1> HIDE DEF n
<1>3. OutputAtOnce
  <2>1. Get = IF timer.running /\ timer.deadline <= now THEN Callback ELSE timer.status
    BY <1>2 DEF Get, n, TimerInv
  <2>2. Callback = (IF kind \in {"SE", "SS"} THEN 1 ELSE 0) /\ Never = -1
    BY DEF Callback, Never
  <2>3. timer.prevVKE \in {0, 1} /\ timer.status \in {0, 1} /\ timer.running \in BOOLEAN /\ timer.deadline \in Nat
    BY <1>1 DEF TimerRecord
  <2>4. CASE kind = "SI"
    BY <1>1, <2>1, <2>2, <2>3, <2>4 DEF TimerInv, Lazily, Counting, Resting, OutputAtOnce, Ideal
  <2>5. CASE kind = "SV"
    BY <1>1, <2>1, <2>2, <2>3, <2>5 DEF TimerInv, Lazily, Counting, Resting, OutputAtOnce, Ideal
  <2>6. CASE kind = "SE"
    BY <1>1, <2>1, <2>2, <2>3, <2>6 DEF TimerInv, Lazily, Counting, Resting, OutputAtOnce, Ideal
  <2>7. CASE kind = "SS"
    BY <1>1, <2>1, <2>2, <2>3, <2>7 DEF TimerInv, Lazily, Resting, OutputAtOnce, Ideal
  <2>8. CASE kind = "SA"
    BY <1>1, <2>1, <2>2, <2>3, <2>8 DEF TimerInv, Lazily, Counting, Resting, OutputAtOnce, Ideal
  <2> QED BY <1>1, <2>4, <2>5, <2>6, <2>7, <2>8
<1>4. ReadingsFit
  <2> DEFINE u == Base[timer.timebase]
             x == n.remaining
  <2>1. u \in Nat \ {0} /\ x \in Nat
    BY <1>1, <1>2, TimerAssumption DEF TimerRecord
  <2>2. x <= u * MaxValue
    <3>1. u * MaxValue \in Nat
      <4>1. \A y, z \in Nat : y * z \in Nat
        OBVIOUS
      <4> QED BY <2>1, <4>1, TimerAssumption
    <3> DEFINE limit == u * MaxValue
    <3>2. timer.remaining <= limit /\ (timer.running => timer.deadline - now <= limit)
      BY DEF TimerInv, Within
    <3> HIDE DEF limit
    <3>3. RemainingOf(timer) <= limit
      BY <1>1, <3>1, <3>2 DEF RemainingOf, Max0, TimerRecord, limit
    <3> QED BY <1>2, <3>3 DEF limit
  <2>3. GetTimevalBin = RoundTo(x, u) /\ GetTimevalS5T \in {RoundTo(x, u), {x \div u}}
    BY DEF GetTimevalBin, GetTimevalS5T, n
  <2> HIDE DEF u, x
  <2>4. ASSUME NEW b \in GetTimevalBin, NEW s \in GetTimevalS5T
        PROVE  b - s \in {-1, 0, 1} /\ {b, s} \subseteq 0..MaxValue
    <3>1. b \in RoundTo(x, u) /\ s \in RoundTo(x, u) \cup {x \div u}
      BY <2>3
    <3> QED BY <2>1, <2>2, <3>1, Readings
  <2> QED BY <2>4 DEF ReadingsFit
<1> QED BY <1>3, <1>4 DEF OutputIsIdeal

\* Whatever the timebases are, whichever instruction drives the timer, however
\* its input changes and however seldom the program looks: what U reads is the
\* output of a timer that acts the moment its time is up, and L and LC agree on
\* the remaining time to a unit (timers.py: __checkDeadline, run_SI .. run_SA).
THEOREM OutputsAreIdeal == TimerSpec => []OutputIsIdeal
<1>1. TimerInit => TimerInv
  <2> SUFFICES ASSUME TimerInit PROVE TimerInv
    OBVIOUS
  <2> DEFINE t == [prevVKE |-> 0, timebase |-> 1, callback |-> 0, deadline |-> 0,
                   remaining |-> 0, status |-> 0, running |-> FALSE]
  <2>1. /\ timer = t /\ now = 0 /\ kind \in Kinds /\ duration = 0 /\ rise = Never /\ fall = Never
        /\ over = FALSE /\ lost = FALSE
    BY DEF TimerInit
  <2>2. 1 \in DOMAIN Base /\ Base[1] \in Nat /\ MaxValue \in Nat /\ Horizon \in Nat
    BY TimerAssumption
  <2>3. timer \in TimerRecord
    BY <2>1, <2>2 DEF TimerRecord
  <2>4. /\ timer.prevVKE = 0 /\ timer.timebase = 1 /\ timer.remaining = 0 /\ timer.status = 0
        /\ timer.running = FALSE
    BY <2>1
  <2>5. TimerTypeOK
    <3>1. Never \in Never..Horizon /\ now \in 0..Horizon /\ duration \in Nat
      BY <2>1, <2>2 DEF Never
    <3>2. over \in BOOLEAN /\ lost \in BOOLEAN /\ rise \in Never..Horizon /\ fall \in Never..Horizon
      BY <2>1, <3>1, Zenon
    <3> QED BY <2>1, <2>3, <3>1, <3>2 DEF TimerTypeOK, TimerRecord
  <2>6. Within
    <3>1. \A y, z \in Nat : y * z \in Nat
      OBVIOUS
    <3>2. Base[timer.timebase] * MaxValue \in Nat
      BY <2>2, <2>4, <3>1
    <3> QED BY <2>4, <3>2 DEF Within
  <2>7. Lazily
    BY <2>1, <2>4 DEF Lazily, Resting
  <2> QED BY <2>4, <2>5, <2>6, <2>7 DEF TimerInv
<1>2. TimerInv /\ [TimerNext]_timerVars => TimerInv'
  BY TimerPreserved
<1>3. TimerInv => OutputIsIdeal
  BY TimerCorrect
<1> QED BY <1>1, <1>2, <1>3, PTL DEF TimerSpec

-----------------------------------------------------------------------------
(* The call stack.                                                         *)

Operands == [area : {"M", "L", "VL", "DB", "DBX", "DI", "param", "none"}, nr : Nat, addr : Nat]
Blocks == {"OB"} \cup {s.callee : s \in Sites}
Frames ==
  [block : Blocks, raw : BOOLEAN, inst : Nat, base : Nat, ref : Operands,
   site : Sites \cup {[actual |-> NoOp]}, copies : BOOLEAN, prevDb : Nat, prevDi : Nat, prevAr2 : Nat,
   bytes : Nat, bits : 0..7, areas : SUBSET [from : Nat, to : Nat], touched : BOOLEAN, moved : BOOLEAN]

\* The scratch areas of a frame lie between its TEMP variables and the end of
\* what is allocated, one behind the other.
FrameDisjoint(f) ==
  /\ TempBytes <= f.bytes
  /\ \A r \in f.areas :
       /\ 8 * TempBytes <= r.from /\ r.to <= 8 * f.bytes + f.bits /\ r.to <= 8 * LocalBytes
       /\ \A q \in f.areas : q = r \/ q.to <= r.from \/ r.to <= q.from

\* The registers a frame sees, or will see again when those above it are gone.
DiAt(frames, d, top) == IF d = Len(frames) THEN top ELSE frames[d + 1].prevDi
Ar2At(frames, d, top) == IF d = Len(frames) THEN top ELSE frames[d + 1].prevAr2

\* An FB sees its instance; a block that was called raw sees what its caller saw.
FrameSees(f, d, instDb, origin) ==
  /\ IsFB(f.block) /\ ~f.raw => origin = f.base /\ (~f.touched => instDb = f.inst)
  /\ f.raw /\ d > 1 => origin = f.prevAr2 /\ (~f.touched => instDb = f.prevDi)

CallsInv ==
  /\ di \in Nat /\ ar2 \in Nat /\ db \in Nat
  /\ stack \in Seq(Frames)
  /\ \A d \in 1..Len(stack) :
       /\ FrameDisjoint(stack[d])
       /\ FrameSees(stack[d], d, DiAt(stack, d, di), Ar2At(stack, d, ar2))

LEMMA NewFrames ==
  ASSUME di \in Nat, ar2 \in Nat, db \in Nat,
         NEW b \in Blocks, NEW raw \in BOOLEAN, NEW instDb \in Nat, NEW origin \in Nat,
         NEW ref \in Operands, NEW site \in Sites \cup {[actual |-> NoOp]}, NEW copies \in BOOLEAN
  PROVE  LET f == NewFrame(b, raw, instDb, origin, ref, site, copies)
         IN  f \in Frames /\ FrameDisjoint(f)
BY CallsAssumption DEF NewFrame, Frames, FrameDisjoint

SameButAreas(f, g) ==
  /\ g.block = f.block /\ g.raw = f.raw /\ g.inst = f.inst /\ g.base = f.base
  /\ g.prevDi = f.prevDi /\ g.prevAr2 = f.prevAr2 /\ g.touched = f.touched

\* What is allocated is behind everything that was.
LEMMA Allocations ==
  ASSUME NEW f \in Frames, FrameDisjoint(f), NEW width \in Nat \ {0}
  PROVE  LET g == Allocated(f, width)
         IN  /\ g \in Frames /\ SameButAreas(f, g) /\ Offset(f, width) \in Nat
             /\ ~Exhausted(f, width) => FrameDisjoint(g) /\ Offset(f, width) < 8 * LocalBytes
<1> DEFINE start == Offset(f, width)
           size == IF width = 1 THEN 1 ELSE 8 * ((width + 7) \div 8)
           end == start + size
           g == Allocated(f, width)
<1>1. start \in Nat /\ 8 * f.bytes + f.bits <= start
  BY DEF Frames, Offset, Aligned
<1>2. size \in Nat \ {0}
  <2>1. width # 1 => (width + 7) \div 8 >= 1 /\ (width + 7) \div 8 \in Nat
    OBVIOUS
  <2> QED BY <2>1
<1> HIDE DEF size
<1>3. g = [f EXCEPT !.bytes = end \div 8, !.bits = end % 8, !.areas = @ \cup {[from |-> start, to |-> end]}]
  BY DEF Allocated, size
<1> HIDE DEF start, g
<1>4. end \in Nat /\ end \div 8 \in Nat /\ end % 8 \in 0..7 /\ end = 8 * (end \div 8) + (end % 8)
  BY <1>1, <1>2
<1>5. /\ g.bytes = end \div 8 /\ g.bits = end % 8
      /\ g.areas = f.areas \cup {[from |-> start, to |-> end]}
      /\ SameButAreas(f, g) /\ g \in Frames
  <2> DEFINE x == end \div 8
             y == end % 8
             z == [from |-> start, to |-> end]
  <2>1. x \in Nat /\ y \in 0..7 /\ z \in [from : Nat, to : Nat]
    BY <1>1, <1>4
  <2>2. g = [f EXCEPT !.bytes = x, !.bits = y, !.areas = @ \cup {z}]
    BY <1>3
  <2> HIDE DEF x, y, z, end
  <2>3. g.bytes = x /\ g.bits = y /\ g.areas = f.areas \cup {z} /\ SameButAreas(f, g)
    BY <2>2 DEF Frames, SameButAreas
  <2>4. g \in Frames
    BY <2>1, <2>2 DEF Frames
  <2> QED BY <2>3, <2>4 DEF x, y, z
<1>6. ASSUME ~Exhausted(f, width) PROVE FrameDisjoint(g) /\ start < 8 * LocalBytes
  <2>1. g.bytes < LocalBytes
    BY <1>4, <1>5, <1>6, CallsAssumption DEF Exhausted, g
  <2>2. end <= 8 * LocalBytes /\ 8 * TempBytes <= start /\ TempBytes <= g.bytes
    BY <1>1, <1>2, <1>4, <1>5, <2>1, CallsAssumption DEF FrameDisjoint, Frames
  <2>3. \A r \in f.areas : /\ 8 * TempBytes <= r.from /\ r.to <= start /\ r.to <= 8 * LocalBytes
                           /\ r.from \in Nat /\ r.to \in Nat
    BY <1>1, CallsAssumption DEF FrameDisjoint, Frames
  <2>4. /\ TempBytes \in Nat /\ LocalBytes \in Nat
        /\ \A r \in f.areas : \A q \in f.areas : q = r \/ q.to <= r.from \/ r.to <= q.from
    BY CallsAssumption DEF FrameDisjoint
  <2> QED BY <1>1, <1>2, <1>4, <1>5, <2>2, <2>3, <2>4 DEF FrameDisjoint
<1> QED BY <1>1, <1>5, <1>6 DEF g, start

LEMMA CallsInitially == CallInit => CallsInv
<1> SUFFICES ASSUME CallInit PROVE CallsInv
  OBVIOUS
<1> DEFINE f == NewFrame("OB", TRUE, 0, 0, NoOp, [actual |-> NoOp], FALSE)
<1>1. di = 0 /\ ar2 = 0 /\ db = 0 /\ stack = <<f>>
  BY DEF CallInit
<1>2. f \in Frames /\ FrameDisjoint(f)
  <2>1. NoOp \in Operands
    BY DEF NoOp, Op, Operands
  <2>2. "OB" \in Blocks
    BY DEF Blocks
  <2> HIDE DEF f
  <2> QED BY <1>1, <2>1, <2>2, NewFrames DEF f
<1>3. f.prevDi = 0 /\ f.prevAr2 = 0 /\ ~IsFB(f.block)
  BY <1>1 DEF NewFrame, IsFB
<1> HIDE DEF f
<1>4. stack \in Seq(Frames) /\ Len(stack) = 1 /\ stack[1] = f
  BY <1>1, <1>2
<1>5. DiAt(stack, 1, di) = 0 /\ Ar2At(stack, 1, ar2) = 0
  BY <1>1, <1>4 DEF DiAt, Ar2At
<1>6. FrameSees(f, 1, 0, 0)
  BY <1>3 DEF FrameSees
<1> QED BY <1>1, <1>2, <1>4, <1>5, <1>6 DEF CallsInv

LEMMA MarkedFrames ==
  ASSUME NEW f \in Frames, NEW s, NEW place
  PROVE  LET g == Marked(f, s, place) IN
           /\ g \in Frames /\ SameButAreas(f, g) /\ (FrameDisjoint(f) => FrameDisjoint(g))
           /\ g.ref = f.ref /\ g.site = f.site /\ g.copies = f.copies
           /\ f.moved \/ (f.copies /\ f.site = s /\ scratch[s] # place) => g.moved
<1> DEFINE b == f.moved \/ (f.copies /\ f.site = s /\ scratch[s] # place)
<1>1. b \in BOOLEAN
  BY DEF Frames
<1>2. Marked(f, s, place) = [f EXCEPT !.moved = b]
  BY DEF Marked
<1> HIDE DEF b
<1>3. LET g == [f EXCEPT !.moved = b] IN
        /\ g \in Frames /\ SameButAreas(f, g) /\ (FrameDisjoint(f) => FrameDisjoint(g))
        /\ g.ref = f.ref /\ g.site = f.site /\ g.copies = f.copies /\ g.moved = b
  BY <1>1 DEF Frames, SameButAreas, FrameDisjoint
<1> QED BY <1>2, <1>3 DEF b

\* The frames under a new one, as the call leaves them.
Underneath(under) ==
  /\ under \in Seq(Frames) /\ Len(under) = Top
  /\ \A d \in 1..Top : FrameDisjoint(under[d]) /\ SameButAreas(stack[d], under[d])

LEMMA StackUnderneath == CallsInv => Underneath(stack)
BY DEF CallsInv, Underneath, SameButAreas, Top

LEMMA Pushing ==
  ASSUME CallsInv, stack # <<>>, NEW under, Underneath(under),
         NEW f, f \in Frames, FrameDisjoint(f), f.prevDi = di, f.prevAr2 = ar2,
         stack' = Append(under, f),
         di' \in Nat, ar2' \in Nat, db' \in Nat, FrameSees(f, Top + 1, di', ar2')
  PROVE  CallsInv'
<1>1. stack \in Seq(Frames) /\ Top \in Nat \ {0} /\ Len(stack) = Top
  BY DEF CallsInv, Top
<1>2. /\ stack' \in Seq(Frames) /\ Len(stack') = Top + 1
      /\ stack'[Top + 1] = f /\ \A d \in 1..Top : stack'[d] = under[d]
  BY <1>1 DEF Underneath
<1>3. \A d \in 1..Top : FrameDisjoint(under[d]) /\ SameButAreas(stack[d], under[d])
  BY DEF Underneath
<1>4. ASSUME NEW d \in 1..(Top + 1)
      PROVE  /\ FrameDisjoint(stack'[d])
             /\ FrameSees(stack'[d], d, DiAt(stack', d, di'), Ar2At(stack', d, ar2'))
  <2>1. CASE d = Top + 1
    <3>1. stack'[d] = f /\ DiAt(stack', d, di') = di' /\ Ar2At(stack', d, ar2') = ar2'
      BY <1>2, <2>1 DEF DiAt, Ar2At
    <3> QED BY <2>1, <3>1
  <2>2. CASE d \in 1..Top
    <3>1. stack'[d] = under[d] /\ FrameDisjoint(under[d]) /\ SameButAreas(stack[d], under[d])
      BY <1>2, <1>3, <2>2
    <3>2. DiAt(stack', d, di') = DiAt(stack, d, di) /\ Ar2At(stack', d, ar2') = Ar2At(stack, d, ar2)
      <4>1. CASE d = Top
        BY <1>1, <1>2, <4>1 DEF DiAt, Ar2At
      <4>2. CASE d # Top
        <5>1. d + 1 \in 1..Top /\ d # Top + 1
          BY <1>1, <2>2, <4>2
        <5>2. stack'[d + 1].prevDi = stack[d + 1].prevDi /\ stack'[d + 1].prevAr2 = stack[d + 1].prevAr2
          BY <1>2, <1>3, <5>1 DEF SameButAreas
        <5> QED BY <1>1, <1>2, <4>2, <5>1, <5>2 DEF DiAt, Ar2At
      <4> QED BY <4>1, <4>2
    <3>3. FrameSees(stack[d], d, DiAt(stack, d, di), Ar2At(stack, d, ar2))
      BY <1>1, <2>2 DEF CallsInv
    <3> QED BY <3>1, <3>2, <3>3 DEF FrameSees, SameButAreas
  <2>3. d = Top + 1 \/ d \in 1..Top
    BY <1>1
  <2> QED BY <2>1, <2>2, <2>3, Zenon
<1> QED BY <1>2, <1>4 DEF CallsInv

\* A block that ends leaves its caller the registers it had found, or touched.
LEMMA Popping ==
  ASSUME CallsInv, stack # <<>>, Top > 1, NEW g,
         g \in Frames, FrameDisjoint(g), FrameSees(g, Top - 1, di', ar2'),
         g.prevDi = stack[Top - 1].prevDi, g.prevAr2 = stack[Top - 1].prevAr2,
         stack' = [Below EXCEPT ![Top - 1] = g],
         di' \in Nat, ar2' \in Nat, db' \in Nat
  PROVE  CallsInv'
<1>1. stack \in Seq(Frames) /\ Top \in Nat \ {0, 1}
  BY DEF CallsInv, Top
<1>2. Below \in Seq(Frames) /\ Len(Below) = Top - 1 /\ \A d \in 1..(Top - 1) : Below[d] = stack[d]
  BY <1>1 DEF Below, Top
<1>3. /\ stack' \in Seq(Frames) /\ Len(stack') = Top - 1
      /\ stack'[Top - 1] = g /\ \A d \in 1..(Top - 2) : stack'[d] = stack[d]
  BY <1>1, <1>2
<1>4. ASSUME NEW d \in 1..(Top - 1)
      PROVE  /\ FrameDisjoint(stack'[d])
             /\ FrameSees(stack'[d], d, DiAt(stack', d, di'), Ar2At(stack', d, ar2'))
  <2>1. CASE d = Top - 1
    <3>1. stack'[d] = g /\ DiAt(stack', d, di') = di' /\ Ar2At(stack', d, ar2') = ar2'
      BY <1>3, <2>1 DEF DiAt, Ar2At
    <3> QED BY <2>1, <3>1
  <2>2. CASE d \in 1..(Top - 2)
    <3>1. /\ stack'[d] = stack[d] /\ d \in 1..Len(stack) /\ d # Len(stack) /\ d # Len(stack')
          /\ stack'[d + 1].prevDi = stack[d + 1].prevDi /\ stack'[d + 1].prevAr2 = stack[d + 1].prevAr2
      <4>1. CASE d + 1 = Top - 1
        BY <1>1, <1>3, <2>2, <4>1 DEF Top
      <4>2. CASE d + 1 # Top - 1
        BY <1>1, <1>3, <2>2, <4>2, SMTT(60) DEF Top
      <4> QED BY <4>1, <4>2
    <3>2. DiAt(stack', d, di') = DiAt(stack, d, di) /\ Ar2At(stack', d, ar2') = Ar2At(stack, d, ar2)
      BY <3>1 DEF DiAt, Ar2At
    <3> QED BY <3>1, <3>2 DEF CallsInv
  <2> QED BY <1>1, <2>1, <2>2
<1> QED BY <1>3, <1>4 DEF CallsInv

LEMMA TopReplaced ==
  ASSUME stack \in Seq(Frames), stack # <<>>, NEW g, g \in Frames, stack' = [stack EXCEPT ![Top] = g]
  PROVE  /\ stack' \in Seq(Frames) /\ Len(stack') = Top /\ stack'[Top] = g
         /\ \A d \in 1..(Top - 1) : stack'[d] = stack[d]
BY DEF Top

\* The instructions that do not call.
LEMMA Opening ==
  ASSUME CallsInv, stack # <<>>, NEW touched \in BOOLEAN,
         stack' = IF touched THEN [stack EXCEPT ![Top].touched = TRUE] ELSE stack,
         ~touched => di' = di, ar2' = ar2, di' \in Nat, db' \in Nat
  PROVE  CallsInv'
<1>1. stack \in Seq(Frames) /\ Top \in Nat \ {0} /\ stack[Top] \in Frames /\ ar2 \in Nat
  BY DEF CallsInv, Top
<1> DEFINE f == stack[Top]
           g == [f EXCEPT !.touched = TRUE]
<1>2. CASE ~touched
  BY <1>2 DEF CallsInv
<1>3. CASE touched
  <2>1. g \in Frames /\ g.touched /\ g.areas = f.areas /\ g.bytes = f.bytes /\ g.bits = f.bits
        /\ g.block = f.block /\ g.raw = f.raw /\ g.base = f.base
        /\ g.prevDi = f.prevDi /\ g.prevAr2 = f.prevAr2
    BY <1>1 DEF Frames
  <2>2. stack' = [stack EXCEPT ![Top] = g]
    BY <1>3
  <2> HIDE DEF g
  <2>3. /\ stack' \in Seq(Frames) /\ Len(stack') = Top
        /\ stack'[Top] = g /\ \A d \in 1..(Top - 1) : stack'[d] = stack[d]
    BY <1>1, <2>1, <2>2, TopReplaced
  <2>4. ASSUME NEW d \in 1..Top
        PROVE  /\ FrameDisjoint(stack'[d])
               /\ FrameSees(stack'[d], d, DiAt(stack', d, di'), Ar2At(stack', d, ar2'))
    <3>1. d \in 1..Len(stack)
      BY DEF Top
    <3>2. FrameDisjoint(stack[d]) /\ FrameSees(stack[d], d, DiAt(stack, d, di), Ar2At(stack, d, ar2))
      BY <3>1 DEF CallsInv
    <3>3. CASE d = Top
      <4>1. FrameDisjoint(g)
        BY <2>1, <3>2, <3>3 DEF FrameDisjoint
      <4>2. FrameSees(g, d, di', ar2)
        BY <2>1, <3>2, <3>3 DEF FrameSees, Ar2At, Top
      <4> QED BY <2>3, <3>3, <4>1, <4>2 DEF DiAt, Ar2At
    <3>4. CASE d # Top
      <4>1. d # Len(stack) /\ d # Len(stack') /\ stack'[d] = stack[d]
            /\ stack'[d + 1].prevDi = stack[d + 1].prevDi /\ stack'[d + 1].prevAr2 = stack[d + 1].prevAr2
        <5>1. CASE d + 1 = Top
          BY <1>1, <2>1, <2>3, <3>4, <5>1 DEF Top
        <5>2. CASE d + 1 # Top
          BY <1>1, <2>3, <3>4, <5>2 DEF Top
        <5> QED BY <5>1, <5>2
      <4> QED BY <3>2, <4>1 DEF DiAt, Ar2At
    <3> QED BY <3>3, <3>4
  <2> QED BY <1>1, <2>3, <2>4 DEF CallsInv
<1> QED BY <1>2, <1>3

\* A call pushes a frame that has saved the registers the caller sees.
LEMMA Calling ==
  ASSUME CallsInv, stack # <<>>, NEW s \in Sites, NEW raw \in BOOLEAN, NEW instDb \in Nat, NEW origin \in Nat,
         NEW ref \in Operands, NEW copies \in BOOLEAN,
         NEW under, Underneath(under),
         NEW f, f = NewFrame(s.callee, raw, instDb, origin, ref, s, copies),
         stack' = Append(under, f),
         di' \in Nat, ar2' \in Nat, db' \in Nat,
         \/ raw /\ di' = di /\ ar2' = ar2
         \/ ~raw /\ (IsFB(s.callee) => di' = instDb /\ ar2' = origin)
  PROVE  CallsInv'
<1>1. di \in Nat /\ ar2 \in Nat /\ db \in Nat
  BY DEF CallsInv
<1>2. s.callee \in Blocks
  BY DEF Blocks
<1>3. f \in Frames /\ FrameDisjoint(f)
  BY <1>1, <1>2, NewFrames
<1>4. /\ f.prevDi = di /\ f.prevAr2 = ar2 /\ f.raw = raw /\ f.block = s.callee
      /\ f.inst = instDb /\ f.base = origin
  BY DEF NewFrame
<1>5. FrameSees(f, Top + 1, di', ar2')
  BY <1>4 DEF FrameSees
<1> QED BY <1>3, <1>4, <1>5, Pushing

LEMMA CallerFrame ==
  ASSUME CallsInv, stack # <<>>, Top > 1
  PROVE  /\ stack[Top - 1] \in Frames /\ FrameDisjoint(stack[Top - 1])
         /\ FrameSees(stack[Top - 1], Top - 1, Frame.prevDi, Frame.prevAr2)
<1>1. stack \in Seq(Frames) /\ Top \in Nat /\ Top - 1 \in 1..Len(stack) /\ Top - 1 # Len(stack)
  BY DEF CallsInv, Top
<1>2. /\ FrameDisjoint(stack[Top - 1])
      /\ FrameSees(stack[Top - 1], Top - 1, DiAt(stack, Top - 1, di), Ar2At(stack, Top - 1, ar2))
  BY <1>1 DEF CallsInv
<1>3. (Top - 1) + 1 = Top
  BY <1>1
<1> QED BY <1>1, <1>2, <1>3 DEF DiAt, Ar2At, Frame

LEMMA CallsPreserved == CallsInv /\ [CallNext]_callVars => CallsInv'
<1> SUFFICES ASSUME CallsInv, [CallNext]_callVars PROVE CallsInv'
  OBVIOUS
<1>1. di \in Nat /\ ar2 \in Nat /\ db \in Nat /\ stack \in Seq(Frames)
  BY DEF CallsInv
<1>2. ASSUME stack # <<>>
      PROVE  /\ Top \in Nat \ {0} /\ Frame \in Frames /\ FrameDisjoint(Frame)
             /\ FrameSees(Frame, Top, di, ar2) /\ Underneath(stack)
  <2>1. Top \in 1..Len(stack) /\ Top \in Nat \ {0}
    BY <1>1, <1>2 DEF Top
  <2>2. FrameDisjoint(Frame) /\ FrameSees(Frame, Top, di, ar2)
    BY <2>1 DEF CallsInv, Frame, DiAt, Ar2At, Top
  <2> QED BY <1>1, <2>1, <2>2, StackUnderneath DEF Frame
<1>3. CASE UNCHANGED callVars
  BY <1>3 DEF callVars, CallsInv
<1>4. ASSUME NEW n \in DbNumber, OpenDB(n) \/ OpenDI(n) PROVE CallsInv'
  <2>1. n \in Nat
    BY CallsAssumption
  <2>2. CASE OpenDB(n)
    BY <1>1, <2>1, <2>2 DEF OpenDB, CallsInv
  <2>3. CASE OpenDI(n)
    <3>1. /\ stack # <<>> /\ ar2' = ar2 /\ di' = n /\ db' = db
          /\ stack' = [stack EXCEPT ![Top].touched = TRUE]
      BY <2>3 DEF OpenDI, Running
    <3> QED BY <1>1, <2>1, <3>1, Opening
  <2> QED BY <1>4, <2>2, <2>3
<1>5. CASE SwapDBs
  <2>1. /\ stack # <<>> /\ ar2' = ar2 /\ di' = db /\ db' = di
        /\ stack' = [stack EXCEPT ![Top].touched = TRUE]
    BY <1>5 DEF SwapDBs, Running
  <2> QED BY <1>1, <2>1, Opening
<1>6. ASSUME NEW v \in Data, SetFormal(v) PROVE CallsInv'
  <2>1. UNCHANGED <<stack, db, di, ar2>>
    BY <1>6 DEF SetFormal, Fail
  <2> QED BY <2>1 DEF CallsInv
<1>7. ASSUME NEW s \in Sites, CallFB(s) PROVE CallsInv'
  <2> DEFINE instDb == IF s.kind = "fb" THEN s.inst ELSE di
             origin == IF s.kind = "fb" THEN 0 ELSE ar2 + s.inst
             f == NewFrame(s.callee, FALSE, instDb, origin, NoOp, s, TRUE)
  <2>1. instDb \in Nat /\ origin \in Nat /\ NoOp \in Operands /\ stack # <<>>
    BY <1>1, <1>7, CallsAssumption DEF Operands, NoOp, Op, CallFB, Callable, Running
  <2>2. CASE UNCHANGED <<stack, db, di, ar2>>
    BY <2>2 DEF CallsInv
  <2>3. CASE stack' = Append(stack, f) /\ ar2' = origin /\ db' = di /\ di' = instDb
    <3> HIDE DEF f, instDb, origin
    <3>1. f = NewFrame(s.callee, FALSE, instDb, origin, NoOp, s, TRUE)
      BY DEF f
    <3> QED BY <1>1, <1>2, <2>1, <2>3, <3>1, Calling
  <2> QED BY <1>7, <2>2, <2>3 DEF CallFB, Fail
<1>8. ASSUME NEW s \in Sites
      PROVE  /\ s.actual \in Operands /\ s.width \in Nat \ {0}
             /\ s.kind = "fc" => ~IsFB(s.callee)
             /\ stack # <<>> => Translated(Frame.ref, s.actual) \in Operands
  BY <1>2, CallsAssumption DEF Operands, IsFB, Translated, Frames
<1>9. ASSUME NEW s \in Sites, CallFCDirectly(s) PROVE CallsInv'
  <2> DEFINE o == Translated(Frame.ref, s.actual)
             ref == IF o.area = "L" THEN Op("VL", o.addr) ELSE o
             f == NewFrame(s.callee, FALSE, 0, 0, ref, s, FALSE)
  <2>1. stack # <<>> /\ o \in Operands /\ ~IsFB(s.callee)
    BY <1>8, <1>9 DEF CallFCDirectly, Callable, Running
  <2>2. ref \in Operands
    BY <2>1 DEF Op, Operands
  <2>3. \/ UNCHANGED <<stack, db, di, ar2>>
        \/ stack' = Append(stack, f) /\ di' = di /\ ar2' = ar2 /\ db' = db
    BY <1>9 DEF CallFCDirectly, Fail
  <2>4. CASE UNCHANGED <<stack, db, di, ar2>>
    BY <2>4 DEF CallsInv
  <2> HIDE DEF ref, f
  <2>5. f = NewFrame(s.callee, FALSE, 0, 0, ref, s, FALSE)
    BY DEF f
  <2> QED BY <1>1, <1>2, <2>1, <2>2, <2>3, <2>4, <2>5, Calling
<1>10. ASSUME NEW s \in Sites, CallFCByCopy(s) PROVE CallsInv'
  <2> DEFINE slot == Offset(Frame, s.width)
             g == Allocated(Frame, s.width)
             under == [d \in 1..Top |-> Marked(IF d = Top THEN g ELSE stack[d], s, slot)]
             ref == Op("VL", slot)
             f == NewFrame(s.callee, FALSE, 0, 0, ref, s, TRUE)
  <2>1. stack # <<>> /\ ~IsFB(s.callee) /\ s.width \in Nat \ {0}
    BY <1>8, <1>10 DEF CallFCByCopy, Callable, Running
  <2>2. CASE UNCHANGED <<stack, db, di, ar2>>
    BY <2>2 DEF CallsInv
  <2>3. CASE /\ ~Exhausted(Frame, s.width)
             /\ stack' = Append(under, f) /\ di' = di /\ ar2' = ar2
             /\ db' = IF s.actual.area = "DBX" THEN s.actual.nr ELSE db
    <3>1. /\ g \in Frames /\ SameButAreas(Frame, g) /\ FrameDisjoint(g) /\ slot \in Nat
      BY <1>2, <2>1, <2>3, Allocations
    <3>2. ref \in Operands /\ db' \in Nat
      BY <1>1, <1>8, <2>3, <3>1 DEF Op, Operands
    <3> HIDE DEF g, slot
    <3>3. Underneath(under)
      <4>1. ASSUME NEW d \in 1..Top
            PROVE  under[d] \in Frames /\ FrameDisjoint(under[d]) /\ SameButAreas(stack[d], under[d])
        <5> DEFINE e == IF d = Top THEN g ELSE stack[d]
        <5>1. stack[d] \in Frames /\ FrameDisjoint(stack[d])
          BY <1>1 DEF CallsInv, Top
        <5>2. e \in Frames /\ FrameDisjoint(e) /\ SameButAreas(stack[d], e)
          BY <3>1, <5>1 DEF SameButAreas, Frame
        <5>3. under[d] = Marked(e, s, slot)
          OBVIOUS
        <5> HIDE DEF e, under
        <5> QED BY <5>2, <5>3, MarkedFrames DEF SameButAreas
      <4>2. under \in [1..Top -> Frames] /\ Top \in Nat
        BY <1>2, <2>1, <4>1
      <4> HIDE DEF under
      <4>3. under \in Seq(Frames) /\ Len(under) = Top
        BY <4>2
      <4> QED BY <4>1, <4>3 DEF Underneath
    <3> HIDE DEF under, ref, f
    <3>4. f = NewFrame(s.callee, FALSE, 0, 0, ref, s, TRUE)
      BY DEF f
    <3> QED BY <1>1, <2>1, <2>3, <3>2, <3>3, <3>4, Calling
  <2> QED BY <1>10, <2>2, <2>3 DEF CallFCByCopy, Fail
<1>11. ASSUME NEW s \in Sites, CallRaw(s) PROVE CallsInv'
  <2> DEFINE f == NewFrame(s.callee, TRUE, 0, 0, NoOp, s, FALSE)
  <2>1. stack # <<>> /\ stack' = Append(stack, f) /\ di' = di /\ ar2' = ar2 /\ db' = db
    BY <1>11 DEF CallRaw, Callable, Running
  <2> HIDE DEF f
  <2>2. f = NewFrame(s.callee, TRUE, 0, 0, NoOp, s, FALSE)
    BY DEF f
  <2>3. NoOp \in Operands
    BY DEF Operands, NoOp, Op
  <2> QED BY <1>1, <1>2, <2>1, <2>2, <2>3, Calling
<1>12. CASE ReturnRaw
  <2>1. stack # <<>> /\ Frame.raw /\ UNCHANGED <<db, di, ar2>>
    BY <1>12 DEF ReturnRaw, Running
  <2>2. CASE Top = 1
    <3>1. stack' = <<>>
      BY <1>12, <2>2 DEF ReturnRaw
    <3> QED BY <1>1, <2>1, <3>1 DEF CallsInv
  <2>3. CASE Top > 1
    <3> DEFINE e == stack[Top - 1]
               g == [e EXCEPT !.touched = @ \/ Frame.touched]
    <3>1. stack' = [Below EXCEPT ![Top - 1] = g]
      <4>1. stack' = [Below EXCEPT ![Top - 1].touched = @ \/ Frame.touched]
        BY <1>12, <2>3 DEF ReturnRaw
      <4>2. Below \in Seq(Frames) /\ Top - 1 \in 1..Len(Below) /\ Below[Top - 1] = e
        BY <1>1, <1>2, <2>1, <2>3 DEF Below, Top
      <4> QED BY <4>1, <4>2
    <3>2. e \in Frames /\ FrameDisjoint(e) /\ FrameSees(e, Top - 1, Frame.prevDi, Frame.prevAr2)
      BY <1>1, <1>2, <2>1, <2>3, CallerFrame
    <3>3. /\ g \in Frames /\ g.touched = (e.touched \/ Frame.touched)
          /\ g.areas = e.areas /\ g.bytes = e.bytes /\ g.bits = e.bits
          /\ g.block = e.block /\ g.raw = e.raw /\ g.base = e.base /\ g.inst = e.inst
          /\ g.prevDi = e.prevDi /\ g.prevAr2 = e.prevAr2
      <4>1. Frame.touched \in BOOLEAN
        BY <1>2, <2>1 DEF Frames
      <4> QED BY <3>2, <4>1 DEF Frames
    <3> HIDE DEF g, e
    <3>4. FrameDisjoint(g)
      BY <3>2, <3>3 DEF FrameDisjoint
    <3>5. ar2 = Frame.prevAr2 /\ (~Frame.touched => di = Frame.prevDi)
      BY <1>2, <2>1, <2>3 DEF FrameSees
    <3>6. FrameSees(g, Top - 1, di, ar2)
      BY <3>2, <3>3, <3>5 DEF FrameSees
    <3>7. g.prevDi = stack[Top - 1].prevDi /\ g.prevAr2 = stack[Top - 1].prevAr2
      BY <3>3 DEF e
    <3> QED BY <1>1, <2>1, <2>3, <3>1, <3>3, <3>4, <3>6, <3>7, Popping
  <2> QED BY <1>2, <2>1, <2>2, <2>3
<1>13. CASE ReturnFB \/ ReturnFC
  <2>1. stack # <<>> /\ ~Frame.raw
    BY <1>13 DEF ReturnFB, ReturnFC, Running
  <2>2. CASE UNCHANGED <<stack, db, di, ar2>>
    BY <2>2 DEF CallsInv
  <2>3. CASE /\ stack' = Below /\ ar2' = Frame.prevAr2 /\ di' = Frame.prevDi
             /\ db' \in {Frame.inst, Frame.prevDb}
    <3>1. Frame.prevDi \in Nat /\ Frame.prevAr2 \in Nat /\ db' \in Nat
      BY <1>2, <2>1, <2>3 DEF Frames
    <3>2. CASE Top = 1
      <4>1. stack' = <<>>
        BY <1>1, <2>3, <3>2 DEF Below, Top
      <4> QED BY <2>3, <3>1, <4>1 DEF CallsInv
    <3>3. CASE Top > 1
      <4> DEFINE e == stack[Top - 1]
      <4>1. e \in Frames /\ FrameDisjoint(e) /\ FrameSees(e, Top - 1, Frame.prevDi, Frame.prevAr2)
        BY <2>1, <3>3, CallerFrame
      <4>2. stack' = [Below EXCEPT ![Top - 1] = e]
        <5>1. Below \in Seq(Frames) /\ Top - 1 \in 1..Len(Below) /\ Below[Top - 1] = e
          BY <1>1, <1>2, <2>1, <3>3 DEF Below, Top
        <5> QED BY <2>3, <5>1
      <4> QED BY <2>1, <2>3, <3>1, <3>3, <4>1, <4>2, Popping
    <3> QED BY <1>2, <2>1, <3>2, <3>3
  <2> QED BY <1>13, <2>2, <2>3 DEF ReturnFB, ReturnFC, Fail
<1> QED BY <1>3, <1>4, <1>5, <1>6, <1>7, <1>9, <1>10, <1>11, <1>12, <1>13 DEF CallNext

\* At every moment of every program, an FB that opened no instance itself sees
\* its own through DI and AR2, whatever it has called (cpu.py 1027-1076,
\* callstack.py 129-133, 347-389).
THEOREM InstancesSeen == CallSpec => []InstanceVisible
<1>1. CallInit => CallsInv
  BY CallsInitially
<1>2. CallsInv /\ [CallNext]_callVars => CallsInv'
  BY CallsPreserved
<1>3. CallsInv => InstanceVisible
  <2> SUFFICES ASSUME CallsInv, stack # <<>>, IsFB(Frame.block), ~Frame.raw, ~Frame.touched
               PROVE  di = Frame.inst /\ ar2 = Frame.base
    BY DEF InstanceVisible
  <2>1. Top \in 1..Len(stack)
    BY DEF CallsInv, Top
  <2>2. FrameSees(Frame, Top, di, ar2)
    BY <2>1 DEF CallsInv, Frame, DiAt, Ar2At, Top
  <2> QED BY <2>2 DEF FrameSees
<1> QED BY <1>1, <1>2, <1>3, PTL DEF CallSpec

\* No two scratch areas of a block on the call stack ever overlap, none lies
\* over its TEMP variables or beyond its L-stack (lstack.py 46-76), whatever
\* the widths of the parameters and the order of the calls.
THEOREM ScratchApart == CallSpec => []ScratchDisjoint
<1>1. CallInit => CallsInv
  BY CallsInitially
<1>2. CallsInv /\ [CallNext]_callVars => CallsInv'
  BY CallsPreserved
<1>3. CallsInv => ScratchDisjoint
  BY DEF CallsInv, ScratchDisjoint, FrameDisjoint
<1> QED BY <1>1, <1>2, <1>3, PTL DEF CallSpec

-----------------------------------------------------------------------------
(* The parameters of a call.  A CALL instruction keeps where it has copied   *)
(* its parameter (param.scratchSpaceOp): one place, whatever the depth.  It  *)
(* is the place of the call that returns unless that CALL has put another    *)
(* copy elsewhere since, which its frame says it has.                        *)

Variables == {<<"M", 0, 0>>} \cup {<<"DB", n, c>> : n \in DbNumber, c \in 0 .. DbSize - 1}
           \cup {<<"L", d, b>> : d \in 1 .. MaxDepth, b \in 0 .. 8 * LocalBytes - 1}

\* What a frame is called with, as far as its callees need to know.
SameCall(f, g) ==
  /\ g.block = f.block /\ g.raw = f.raw /\ g.ref = f.ref /\ g.site = f.site /\ g.copies = f.copies
  /\ f.moved => g.moved

\* The reference the caller of a frame has for its own parameter.
RefBelow(frames, d) == frames[d - 1].ref

Direct(o) == IF o.area = "L" THEN Op("VL", o.addr) ELSE o

References == {"M", "VL", "DB"}

\* What an FC refers to: the operand itself, or the copy of it.
Refers(frames, d, space) ==
  LET f == frames[d] IN
    /\ f.ref.area \in References
    /\ f.copies => f.ref.area = "VL" /\ (f.moved \/ f.ref = Op("VL", space[f.site]))
    /\ ~f.copies => /\ ~IsCopied(RefBelow(frames, d), f.site.actual)
                    /\ f.ref = Direct(Translated(RefBelow(frames, d), f.site.actual))

Linked(frames, d, space) ==
  LET f == frames[d] IN
    /\ d = 1 => f.raw /\ f.block = "OB"
    /\ d > 1 => /\ f.site \in Sites /\ f.site.in = frames[d - 1].block /\ f.site.callee = f.block
                /\ f.raw <=> f.site.kind = "raw"
                /\ ~f.raw /\ f.site.actual.area = "param" => ~frames[d - 1].raw
    /\ f.raw => f.ref = NoOp
    /\ ~f.raw /\ ~IsFB(f.block) => Refers(frames, d, space)

LinkInv ==
  /\ CallsInv
  /\ DOMAIN mem = Variables /\ DOMAIN scratch = Sites
  /\ \A d \in 1..Len(stack) : Linked(stack, d, scratch)

LEMMA LinkedStays ==
  ASSUME NEW frames, NEW after, NEW d \in Nat \ {0}, NEW space, NEW spaceAfter,
         Linked(frames, d, space), SameCall(frames[d], after[d]),
         d > 1 => SameCall(frames[d - 1], after[d - 1]),
         d > 1 /\ frames[d].copies =>
           after[d].moved \/ spaceAfter[frames[d].site] = space[frames[d].site]
  PROVE  Linked(after, d, spaceAfter)
<1>1. d > 1 => RefBelow(after, d) = RefBelow(frames, d)
  BY DEF RefBelow, SameCall
<1>2. ASSUME ~after[d].raw, ~IsFB(after[d].block) PROVE Refers(after, d, spaceAfter)
  <2>1. Refers(frames, d, space) /\ d > 1
    BY <1>2 DEF Linked, SameCall
  <2>2. CASE frames[d].copies
    BY <2>1, <2>2 DEF Refers, SameCall
  <2>3. CASE ~frames[d].copies
    BY <1>1, <2>1, <2>3 DEF Refers, SameCall
  <2> QED BY <2>2, <2>3
<1> QED BY <1>2 DEF Linked, SameCall

\* Whatever only returns, or changes what a frame is not called with.
LEMMA LinksKept ==
  ASSUME LinkInv, CallsInv', Len(stack') <= Len(stack),
         \A d \in 1..Len(stack') : SameCall(stack[d], stack'[d]),
         scratch' = scratch, DOMAIN mem' = DOMAIN mem
  PROVE  LinkInv'
<1>1. Len(stack) \in Nat /\ Len(stack') \in Nat
  BY DEF LinkInv, CallsInv
<1>2. ASSUME NEW d \in 1..Len(stack') PROVE Linked(stack', d, scratch')
  <2>1. d \in 1..Len(stack) /\ d \in Nat \ {0} /\ (d > 1 => d - 1 \in 1..Len(stack'))
    BY <1>1
  <2>2. Linked(stack, d, scratch)
    BY <2>1 DEF LinkInv
  <2> QED BY <2>1, <2>2, LinkedStays
<1> QED BY <1>2 DEF LinkInv

\* A call leaves the others as they are: if it moves the copy of one of them,
\* that one says so.
LEMMA LinksPushed ==
  ASSUME LinkInv, CallsInv', Len(stack) # 0,
         Len(stack') = Len(stack) + 1,
         \A d \in 1..Len(stack) : SameCall(stack[d], stack'[d]),
         \A d \in 2..Len(stack) :
           stack[d].copies => stack'[d].moved \/ scratch'[stack[d].site] = scratch[stack[d].site],
         NEW s \in Sites, s.in = stack[Len(stack)].block,
         NEW f, f = stack'[Len(stack')], f.site = s, f.block = s.callee, f.raw <=> s.kind = "raw",
         f.raw => f.ref = NoOp, ~f.raw /\ s.actual.area = "param" => ~stack[Len(stack)].raw,
         ~f.raw /\ ~IsFB(f.block) => Refers(stack', Len(stack'), scratch'),
         DOMAIN scratch' = DOMAIN scratch, DOMAIN mem' = DOMAIN mem
  PROVE  LinkInv'
<1> DEFINE n == Len(stack)
<1>1. n \in Nat \ {0} /\ stack \in Seq(Frames)
  BY DEF LinkInv, CallsInv
<1>2. ASSUME NEW d \in 1..n PROVE Linked(stack', d, scratch')
  <2>1. Linked(stack, d, scratch) /\ d \in Nat \ {0} /\ (d > 1 => d - 1 \in 1..n /\ d \in 2..n)
    BY <1>1 DEF LinkInv
  <2>2. SameCall(stack[d], stack'[d]) /\ (d > 1 => SameCall(stack[d - 1], stack'[d - 1]))
    BY <2>1
  <2>3. d > 1 /\ stack[d].copies => stack'[d].moved \/ scratch'[stack[d].site] = scratch[stack[d].site]
    BY <2>1
  <2> QED BY <2>1, <2>2, <2>3, LinkedStays
<1>3. Linked(stack', n + 1, scratch')
  <2>1. SameCall(stack[n], stack'[n]) /\ (n + 1) - 1 = n /\ n + 1 > 1 /\ n + 1 # 1
    BY <1>1
  <2> QED BY <2>1 DEF Linked, SameCall
<1>4. DOMAIN mem' = Variables /\ DOMAIN scratch' = Sites
  BY DEF LinkInv
<1>5. \A d \in 1..(n + 1) : d = n + 1 \/ d \in 1..n
  BY <1>1
<1> QED BY <1>2, <1>3, <1>4, <1>5 DEF LinkInv

LEMMA LinksInitially == CallInit => LinkInv
<1> SUFFICES ASSUME CallInit PROVE LinkInv
  OBVIOUS
<1>1. CallsInv
  BY CallsInitially
<1>2. DOMAIN mem = Variables /\ DOMAIN scratch = Sites
  BY DEF CallInit, Variables
<1>3. Len(stack) = 1 /\ stack[1].raw /\ stack[1].block = "OB" /\ stack[1].ref = NoOp
  BY DEF CallInit, NewFrame
<1> QED BY <1>1, <1>2, <1>3 DEF LinkInv, Linked

ParameterStep == ActualPassed /\ (Pops /\ RegistersAsGiven /\ ~Frame.moved => FormalReturned)

\* The frame on top, as the links describe it.
LEMMA TopLinked ==
  ASSUME LinkInv, stack # <<>>
  PROVE  /\ Top \in Nat \ {0} /\ Len(stack) = Top /\ Frame = stack[Top] /\ Frame \in Frames
         /\ Linked(stack, Top, scratch)
         /\ Top > 1 => Linked(stack, Top - 1, scratch) /\ stack[Top - 1] \in Frames
<1>1. stack \in Seq(Frames) /\ Top \in Nat \ {0} /\ Len(stack) = Top
  BY DEF LinkInv, CallsInv, Top
<1>2. Linked(stack, Top, scratch) /\ (Top > 1 => Linked(stack, Top - 1, scratch))
  BY <1>1 DEF LinkInv
<1> QED BY <1>1, <1>2 DEF Frame

\* A parameter that is passed on is one an FC was given, unless it was called raw.
LEMMA PassedOn ==
  ASSUME LinkInv, NEW d \in 1..Len(stack), NEW s \in Sites,
         s.in = stack[d].block, s.actual.area = "param", ~stack[d].raw
  PROVE  ~IsFB(stack[d].block) /\ Refers(stack, d, scratch)
<1>1. s.in \notin {"OB", "FB1", "FB2"}
  BY CallsAssumption
<1>2. Linked(stack, d, scratch)
  BY DEF LinkInv
<1> QED BY <1>1, <1>2 DEF Linked, IsFB

LEMMA PlaceOfReference ==
  ASSUME NEW frames, NEW d \in Nat, NEW op, NEW open, NEW instDb, NEW origin, op.area \in {"M", "L", "VL", "DB"}
  PROVE  Place(frames, d, op, open, instDb, origin)
           = CASE op.area = "M" -> <<"M", 0, op.addr>> [] op.area = "L" -> <<"L", d, op.addr>>
               [] op.area = "VL" -> <<"L", d - 1, op.addr>> [] op.area = "DB" -> <<"DB", open, op.addr>>
BY DEF Place, Translated

\* A reference is not itself a parameter: the place of a parameter is its place.
LEMMA PlaceTranslated ==
  ASSUME NEW frames, NEW d, NEW op, NEW open, NEW instDb, NEW origin,
         op.area = "param" => frames[d].ref.area # "param"
  PROVE  Place(frames, d, op, open, instDb, origin)
           = Place(frames, d, Translated(frames[d].ref, op), open, instDb, origin)
BY DEF Place, Translated

\* Only an operand in DI depends on DI, and only one in DB on DB.
LEMMA PlaceElsewhere ==
  ASSUME NEW frames, NEW d, NEW op, NEW open, NEW openThen, NEW instDb, NEW instThen, NEW origin,
         op.area \in {"M", "L", "VL", "DB", "DBX", "DI", "param"},
         op.area = "param" => frames[d].ref.area \in References,
         Translated(frames[d].ref, op).area = "DI" => instDb = instThen,
         Translated(frames[d].ref, op).area = "DB" => open = openThen
  PROVE  Place(frames, d, op, open, instDb, origin) = Place(frames, d, op, openThen, instThen, origin)
<1> DEFINE o == Translated(frames[d].ref, op)
<1>1. o.area \in {"M", "L", "VL", "DB", "DBX", "DI"}
  BY DEF Translated, References
<1> HIDE DEF o
<1>2. CASE o.area \in {"M", "L", "VL", "DBX"}
  BY <1>2 DEF Place, o
<1>3. CASE o.area = "DB"
  BY <1>3 DEF Place, o
<1>4. CASE o.area = "DI"
  BY <1>4 DEF Place, o
<1> QED BY <1>1, <1>2, <1>3, <1>4

LEMMA AppendIs ==
  ASSUME stack \in Seq(Frames), stack # <<>>, NEW f, stack' = Append(stack, f)
  PROVE  /\ stack'[Top + 1] = f /\ stack'[Top] = stack[Top] /\ Top \in Nat \ {0} /\ (Top + 1) - 1 = Top
<1>1. Top \in 1..Len(stack) /\ Top = Len(stack)
  BY DEF Top
<1> QED BY <1>1

LEMMA ParametersPreserved ==
  ASSUME LinkInv, [CallNext]_callVars
  PROVE  LinkInv' /\ [ParameterStep]_callVars
<1>1. CallsInv' /\ CallsInv
  BY CallsPreserved DEF LinkInv
<1>2. CASE UNCHANGED callVars
  BY <1>1, <1>2 DEF callVars, LinkInv
<1>3. Len(stack) \in Nat /\ Len(stack') \in Nat /\ Top = Len(stack)
  BY <1>1 DEF CallsInv, Top
\* The instructions that neither call nor return.
<1>4. ASSUME Len(stack') = Len(stack), \A d \in 1..Len(stack) : SameCall(stack[d], stack'[d]),
             scratch' = scratch, DOMAIN mem' = DOMAIN mem
      PROVE  LinkInv' /\ ParameterStep
  <2>1. LinkInv'
    BY <1>1, <1>3, <1>4, LinksKept
  <2> QED BY <1>3, <1>4, <2>1 DEF ParameterStep, ActualPassed, Pushes, Pops
<1>5. ASSUME UNCHANGED <<stack, scratch>>, DOMAIN mem' = DOMAIN mem PROVE LinkInv' /\ ParameterStep
  BY <1>4, <1>5 DEF SameCall
<1>6. ASSUME stack # <<>>, stack' = [stack EXCEPT ![Top].touched = TRUE], UNCHANGED <<scratch, mem>>
      PROVE  LinkInv' /\ ParameterStep
  <2> DEFINE g == [stack[Top] EXCEPT !.touched = TRUE]
  <2>1. stack \in Seq(Frames) /\ Top \in 1..Len(stack) /\ stack[Top] \in Frames
    BY <1>1, <1>3, <1>6 DEF CallsInv
  <2>2. g \in Frames /\ SameCall(stack[Top], g)
    BY <2>1 DEF Frames, SameCall
  <2>3. stack' = [stack EXCEPT ![Top] = g]
    BY <1>6
  <2> HIDE DEF g
  <2>4. Len(stack') = Top /\ stack'[Top] = g /\ \A d \in 1..(Top - 1) : stack'[d] = stack[d]
    BY <1>6, <2>1, <2>2, <2>3, TopReplaced
  <2>5. \A d \in 1..Len(stack) : d = Top \/ d \in 1..(Top - 1)
    BY <1>3
  <2>6. \A d \in 1..Len(stack) : SameCall(stack[d], stack'[d])
    BY <2>2, <2>4, <2>5 DEF SameCall
  <2> QED BY <1>3, <1>4, <1>6, <2>4, <2>6
<1>7. ASSUME NEW n \in DbNumber, OpenDB(n) \/ OpenDI(n) PROVE LinkInv' /\ ParameterStep
  BY <1>5, <1>6, <1>7 DEF OpenDB, OpenDI, Running
<1>8. CASE SwapDBs
  BY <1>6, <1>8 DEF SwapDBs, Running
<1>9. ASSUME NEW v \in Data, SetFormal(v) PROVE LinkInv' /\ ParameterStep
  BY <1>5, <1>9 DEF SetFormal, Fail
\* The calls: what is pushed, and where its parameter is.
<1>10. ASSUME NEW s \in Sites, stack # <<>>, s.in = Frame.block, NEW under, Underneath(under),
              \A d \in 1..Top : SameCall(stack[d], under[d]),
              \A d \in 2..Top :
                stack[d].copies => under[d].moved \/ scratch'[stack[d].site] = scratch[stack[d].site],
              NEW f, f.site = s, f.block = s.callee, f.raw <=> s.kind = "raw",
              f.raw => f.ref = NoOp, ~f.raw /\ s.actual.area = "param" => ~Frame.raw,
              stack' = Append(under, f),
              DOMAIN scratch' = DOMAIN scratch, DOMAIN mem' = DOMAIN mem,
              ~f.raw /\ ~IsFB(f.block) => Refers(stack', Top + 1, scratch'),
              ~f.raw /\ Exists(Place(stack, Top, s.actual, db, di, ar2)) =>
                mem'[Formal(stack', Top + 1, db', di', ar2')] = mem[Place(stack, Top, s.actual, db, di, ar2)]
       PROVE  LinkInv' /\ ParameterStep
  <2>1. stack \in Seq(Frames) /\ Top \in Nat \ {0}
    BY <1>1, <1>3, <1>10 DEF CallsInv
  <2>2. /\ Len(stack') = Top + 1 /\ stack'[Top + 1] = f /\ \A d \in 1..Top : stack'[d] = under[d]
    BY <1>3, <1>10, <2>1 DEF Underneath
  <2>3. LinkInv'
    <3>1. /\ Len(stack) # 0 /\ Len(stack') = Len(stack) + 1 /\ s.in = stack[Len(stack)].block
          /\ f = stack'[Len(stack')] /\ Len(stack') = Top + 1
          /\ ~f.raw /\ s.actual.area = "param" => ~stack[Len(stack)].raw
      BY <1>3, <1>10, <2>1, <2>2 DEF Frame
    <3>2. ~f.raw /\ ~IsFB(f.block) => Refers(stack', Len(stack'), scratch')
      BY <1>10, <3>1
    <3>3. \A d \in 1..Len(stack) : SameCall(stack[d], stack'[d])
      BY <1>3, <1>10, <2>2
    <3>4. \A d \in 2..Len(stack) :
            stack[d].copies => stack'[d].moved \/ scratch'[stack[d].site] = scratch[stack[d].site]
      BY <1>3, <1>10, <2>1, <2>2
    <3> QED BY <1>1, <1>10, <3>1, <3>2, <3>3, <3>4, LinksPushed
  <2>4. ParameterStep
    BY <1>3, <1>10, <2>2 DEF ParameterStep, ActualPassed, Pushes, Pops
  <2> QED BY <2>3, <2>4
\* A call that leaves every frame as it is.
<1>a. ASSUME NEW s \in Sites, stack # <<>>, s.in = Frame.block, UNCHANGED scratch,
             NEW f, f.site = s, f.block = s.callee, f.raw <=> s.kind = "raw",
             f.raw => f.ref = NoOp, ~f.raw /\ s.actual.area = "param" => ~Frame.raw,
             stack' = Append(stack, f), DOMAIN mem' = DOMAIN mem,
             ~f.raw /\ ~IsFB(f.block) => Refers(stack', Top + 1, scratch'),
             ~f.raw /\ Exists(Place(stack, Top, s.actual, db, di, ar2)) =>
               mem'[Formal(stack', Top + 1, db', di', ar2')] = mem[Place(stack, Top, s.actual, db, di, ar2)]
      PROVE  LinkInv' /\ ParameterStep
  <2>1. Underneath(stack) /\ \A d \in 1..Top : SameCall(stack[d], stack[d])
    BY <1>1, StackUnderneath DEF SameCall
  <2>2. \A d \in 2..Top :
          stack[d].copies => stack[d].moved \/ scratch'[stack[d].site] = scratch[stack[d].site]
    BY <1>a
  <2> QED BY <1>10, <1>a, <2>1, <2>2
\* What a raw call gives is nowhere.
<1>b. ASSUME NEW s \in Sites, stack # <<>>, s.actual.area = "param", Frame.raw
      PROVE  /\ Translated(Frame.ref, s.actual) = NoOp
             /\ ~Exists(Place(stack, Top, s.actual, db, di, ar2))
  <2>1. Frame.ref = NoOp /\ Frame = stack[Top]
    BY <1>b, TopLinked DEF Linked
  <2>2. Place(stack, Top, s.actual, db, di, ar2) = <<"none", 0, 0>>
    BY <1>b, <2>1 DEF Place, Translated, NoOp, Op
  <2>3. <<"none", 0, 0>> \notin Variables
    BY DEF Variables
  <2> QED BY <1>b, <2>1, <2>2, <2>3 DEF Translated, Exists, LinkInv
<1>11. ASSUME NEW s \in Sites, CallFB(s) PROVE LinkInv' /\ ParameterStep
  <2> DEFINE instDb == IF s.kind = "fb" THEN s.inst ELSE di
             origin == IF s.kind = "fb" THEN 0 ELSE ar2 + s.inst
             from == Place(stack, Top, s.actual, db, di, ar2)
             into == <<"DB", instDb, origin>>
             f == NewFrame(s.callee, FALSE, instDb, origin, NoOp, s, TRUE)
  <2>1. CASE UNCHANGED <<stack, scratch, mem>>
    BY <1>5, <2>1
  <2>2. CASE /\ Exists(from) /\ Exists(into) /\ mem' = [mem EXCEPT ![into] = mem[from]] /\ stack' = Append(stack, f)
             /\ ar2' = origin /\ di' = instDb /\ UNCHANGED scratch
    <3>1. f.site = s /\ f.block = s.callee /\ f.raw = FALSE
      BY DEF NewFrame
    <3>2. /\ stack # <<>> /\ s.in = Frame.block /\ s.kind # "raw" /\ IsFB(s.callee)
      BY <1>11, CallsAssumption DEF CallFB, Callable, Running, IsFB
    <3>3. stack'[Top + 1] = f
      <4> HIDE DEF f
      <4>1. stack \in Seq(Frames) /\ stack # <<>> /\ stack' = Append(stack, f)
        BY <1>1, <2>2, <3>2 DEF CallsInv
      <4> QED BY <4>1, AppendIs
    <3>4. Formal(stack', Top + 1, db', di', ar2') = into
      BY <2>2, <3>1, <3>2, <3>3 DEF Formal
    <3>5. mem'[into] = mem[from] /\ DOMAIN mem' = DOMAIN mem
      BY <2>2 DEF Exists
    <3> HIDE DEF f, instDb, origin, into
    <3>6. ~f.raw /\ (s.actual.area = "param" => ~Frame.raw)
      BY <1>b, <2>2, <3>1, <3>2
    <3> HIDE DEF from
    <3> QED BY <1>a, <2>2, <3>1, <3>2, <3>4, <3>5, <3>6 DEF from
  <2> QED BY <1>11, <2>1, <2>2 DEF CallFB, Fail
<1>12. ASSUME NEW s \in Sites, s.in = Frame.block, stack # <<>>, s.kind = "fc",
              s.actual.area = "param" => ~Frame.raw
       PROVE  LET o == Translated(Frame.ref, s.actual) IN
              /\ ~IsFB(s.callee) /\ o \in Operands
              /\ o.area \in {"M", "L", "VL", "DB", "DBX", "DI"}
              /\ Place(stack, Top, o, db, di, ar2) = Place(stack, Top, s.actual, db, di, ar2)
  <2>1. /\ s.actual \in Operands /\ ~IsFB(s.callee)
        /\ s.actual.area \in {"M", "L", "VL", "DB", "DBX", "DI", "param"}
    BY <1>12, CallsAssumption DEF Operands, IsFB
  <2>2. Frame = stack[Top] /\ Top \in 1..Len(stack) /\ Frame \in Frames
    BY <1>3, <1>12, TopLinked
  <2>3. CASE s.actual.area = "param"
    <3>1. Refers(stack, Top, scratch)
      BY <1>12, <2>2, <2>3, PassedOn
    <3>2. stack[Top].ref.area \in References /\ stack[Top].ref \in Operands
      BY <2>2, <3>1 DEF Refers, Frames
    <3>3. /\ Translated(Frame.ref, s.actual) = stack[Top].ref /\ stack[Top].ref.area # "param"
          /\ stack[Top].ref.area \in {"M", "L", "VL", "DB", "DBX", "DI"}
      BY <2>2, <2>3, <3>2 DEF Translated, References
    <3> QED BY <2>1, <2>2, <3>2, <3>3, PlaceTranslated
  <2>4. CASE s.actual.area # "param"
    BY <2>1, <2>4 DEF Translated
  <2> QED BY <2>3, <2>4
<1>13. ASSUME NEW s \in Sites, CallFCDirectly(s) PROVE LinkInv' /\ ParameterStep
  <2> DEFINE o == Translated(Frame.ref, s.actual)
             f == NewFrame(s.callee, FALSE, 0, 0, Direct(o), s, FALSE)
  <2>0. CASE UNCHANGED <<stack, scratch, mem>>
    BY <1>5, <2>0
  <2> SUFFICES ASSUME o.area # "none", stack' = Append(stack, f), UNCHANGED <<db, di, ar2, mem, scratch>>
               PROVE  LinkInv' /\ ParameterStep
    BY <1>13, <2>0 DEF CallFCDirectly, Fail, Direct
  <2>1. /\ stack # <<>> /\ s.in = Frame.block /\ s.kind = "fc" /\ ~IsCopied(Frame.ref, s.actual)
        /\ stack' = Append(stack, f) /\ UNCHANGED <<db, di, ar2, mem, scratch>>
    BY <1>13 DEF CallFCDirectly, Callable, Running
  <2>r. s.actual.area = "param" => ~Frame.raw
    BY <1>b, <2>1 DEF NoOp, Op
  <2>2. /\ f.site = s /\ f.block = s.callee /\ f.raw = FALSE /\ f.ref = Direct(o) /\ f.copies = FALSE
    BY DEF NewFrame
  <2>3. /\ ~IsFB(s.callee) /\ o \in Operands /\ o.area \in {"M", "L", "DB"}
        /\ Place(stack, Top, o, db, di, ar2) = Place(stack, Top, s.actual, db, di, ar2)
    BY <1>12, <2>1, <2>r DEF IsCopied
  <2> HIDE DEF f
  <2>4. /\ stack'[Top + 1] = f /\ stack'[Top] = stack[Top] /\ Top \in Nat \ {0} /\ (Top + 1) - 1 = Top
        /\ Frame = stack[Top]
    <3>1. stack \in Seq(Frames) /\ stack # <<>> /\ stack' = Append(stack, f)
      BY <1>1, <2>1 DEF CallsInv
    <3> QED BY <3>1, AppendIs DEF Frame
  <2>5. /\ Direct(o).area = (IF o.area = "L" THEN "VL" ELSE o.area) /\ Direct(o).addr = o.addr
    BY <2>3 DEF Direct, Op, Operands
  <2>6. Direct(o).area \in References
    BY <2>3, <2>5 DEF References
  <2>7. Refers(stack', Top + 1, scratch')
    <3>1. RefBelow(stack', Top + 1) = Frame.ref
      BY <2>4 DEF RefBelow
    <3> HIDE DEF o
    <3> QED BY <2>1, <2>2, <2>4, <2>6, <3>1 DEF Refers, o
  <2>8. Formal(stack', Top + 1, db', di', ar2') = Place(stack', Top + 1, Direct(o), db, di, ar2)
    BY <2>1, <2>2, <2>3, <2>4 DEF Formal
  <2>9. Place(stack', Top + 1, Direct(o), db, di, ar2) = Place(stack, Top, o, db, di, ar2)
    <3> HIDE DEF o
    <3>1. Top + 1 \in Nat /\ Top \in Nat /\ Direct(o).area \in {"M", "L", "VL", "DB"}
      BY <2>3, <2>4, <2>5
    <3>2. CASE o.area = "L"
      <4>1. Place(stack', Top + 1, Direct(o), db, di, ar2) = <<"L", Top, o.addr>>
        BY <2>4, <2>5, <3>1, <3>2, PlaceOfReference
      <4>2. Place(stack, Top, o, db, di, ar2) = <<"L", Top, o.addr>>
        BY <3>1, <3>2, PlaceOfReference
      <4> QED BY <4>1, <4>2
    <3>3. CASE o.area = "M"
      BY <2>5, <3>1, <3>3, PlaceOfReference
    <3>4. CASE o.area = "DB"
      BY <2>5, <3>1, <3>4, PlaceOfReference
    <3> QED BY <2>3, <3>2, <3>3, <3>4
  <2>10. s.kind # "raw" /\ DOMAIN mem' = DOMAIN mem
    BY <2>1
  <2> QED BY <1>a, <2>1, <2>2, <2>3, <2>7, <2>8, <2>9, <2>10, <2>r
<1>14. ASSUME NEW s \in Sites, CallFCByCopy(s) PROVE LinkInv' /\ ParameterStep
  <2> DEFINE from == Place(stack, Top, s.actual, db, di, ar2)
             slot == Offset(Frame, s.width)
             g == Allocated(Frame, s.width)
             under == [d \in 1..Top |-> Marked(IF d = Top THEN g ELSE stack[d], s, slot)]
             f == NewFrame(s.callee, FALSE, 0, 0, Op("VL", slot), s, TRUE)
  <2>1. CASE UNCHANGED <<stack, scratch, mem>>
    BY <1>5, <2>1
  <2>2. CASE /\ Exists(from) /\ ~Exhausted(Frame, s.width) /\ mem' = [mem EXCEPT ![<<"L", Top, slot>>] = mem[from]]
             /\ scratch' = [scratch EXCEPT ![s] = slot] /\ stack' = Append(under, f)
    <3>1. stack # <<>> /\ s.in = Frame.block /\ s.kind = "fc" /\ Top < MaxDepth
      BY <1>14 DEF CallFCByCopy, Callable, Running
    <3>2. /\ stack \in Seq(Frames) /\ Frame = stack[Top] /\ Top \in Nat \ {0} /\ (Top + 1) - 1 = Top
          /\ Frame \in Frames /\ FrameDisjoint(Frame)
      BY <1>1, <1>3, <3>1, TopLinked DEF CallsInv
    <3>3. /\ g \in Frames /\ SameButAreas(Frame, g) /\ FrameDisjoint(g)
          /\ slot \in Nat /\ slot < 8 * LocalBytes
      <4>1. s.width \in Nat \ {0}
        BY CallsAssumption
      <4> QED BY <2>2, <3>2, <4>1, Allocations
    <3>4. SameCall(stack[Top], g)
      BY <3>2 DEF SameCall, Allocated, Frames
    <3>5. <<"L", Top, slot>> \in DOMAIN mem /\ DOMAIN scratch = Sites
      <4> HIDE DEF slot
      <4>1. Top \in 1..MaxDepth /\ slot \in 0..(8 * LocalBytes - 1)
        BY <3>1, <3>2, <3>3, CallsAssumption
      <4> QED BY <4>1 DEF LinkInv, Variables
    <3>6. /\ mem'[<<"L", Top, slot>>] = mem[from] /\ DOMAIN mem' = DOMAIN mem /\ scratch'[s] = slot
          /\ DOMAIN scratch' = DOMAIN scratch /\ \A r \in Sites : r # s => scratch'[r] = scratch[r]
      <4> HIDE DEF slot
      <4> QED BY <2>2, <3>5
    <3>7. /\ f.site = s /\ f.block = s.callee /\ f.raw = FALSE /\ f.ref = Op("VL", slot) /\ f.copies = TRUE
      BY DEF NewFrame
    <3> HIDE DEF f, g, slot
    <3>8. ASSUME NEW d \in 1..Top
          PROVE  /\ under[d] \in Frames /\ FrameDisjoint(under[d]) /\ SameButAreas(stack[d], under[d])
                 /\ SameCall(stack[d], under[d])
                 /\ d > 1 /\ stack[d].copies =>
                      under[d].moved \/ scratch'[stack[d].site] = scratch[stack[d].site]
      <4> DEFINE e == IF d = Top THEN g ELSE stack[d]
      <4>1. stack[d] \in Frames /\ FrameDisjoint(stack[d]) /\ Linked(stack, d, scratch)
        BY <1>3 DEF LinkInv, CallsInv
      <4>2. e \in Frames /\ FrameDisjoint(e) /\ SameButAreas(stack[d], e) /\ SameCall(stack[d], e)
        BY <3>2, <3>3, <3>4, <4>1 DEF SameButAreas, SameCall
      <4>3. under[d] = Marked(e, s, slot)
        OBVIOUS
      <4> HIDE DEF e, under
      <4>4. /\ under[d] \in Frames /\ SameButAreas(e, under[d]) /\ FrameDisjoint(under[d])
            /\ under[d].ref = e.ref /\ under[d].site = e.site /\ under[d].copies = e.copies
            /\ e.moved \/ (e.copies /\ e.site = s /\ scratch[s] # slot) => under[d].moved
        BY <4>2, <4>3, MarkedFrames
      <4>5. SameButAreas(stack[d], under[d]) /\ SameCall(stack[d], under[d])
        BY <4>2, <4>4 DEF SameButAreas, SameCall
      <4>6. ASSUME d > 1, stack[d].copies
            PROVE  under[d].moved \/ scratch'[stack[d].site] = scratch[stack[d].site]
        <5>1. stack[d].site \in Sites /\ e.site = stack[d].site /\ e.copies
          BY <4>1, <4>2, <4>6 DEF Linked, SameCall
        <5>2. CASE stack[d].site = s
          BY <3>6, <4>4, <5>1, <5>2
        <5>3. CASE stack[d].site # s
          BY <3>6, <5>1, <5>3
        <5> QED BY <5>2, <5>3
      <4> QED BY <4>4, <4>5, <4>6
    <3>9. under \in Seq(Frames) /\ Len(under) = Top
      <4>1. under \in [1..Top -> Frames] /\ Top \in Nat
        BY <3>2, <3>8
      <4> HIDE DEF under
      <4> QED BY <4>1
    <3> HIDE DEF under
    <3>10. Underneath(under) /\ \A d \in 1..Top : SameCall(stack[d], under[d])
      BY <3>8, <3>9 DEF Underneath
    <3>11. \A d \in 2..Top :
             stack[d].copies => under[d].moved \/ scratch'[stack[d].site] = scratch[stack[d].site]
      <4>1. \A d \in 2..Top : d \in 1..Top /\ d > 1
        BY <3>2
      <4> QED BY <3>8, <4>1
    <3>12. stack'[Top + 1] = f
      BY <2>2, <3>2, <3>9
    <3>13. Refers(stack', Top + 1, scratch')
      BY <3>6, <3>7, <3>12 DEF Refers, References, Op
    <3>r. s.actual.area = "param" => ~Frame.raw
      BY <1>b, <2>2, <3>1
    <3>14. ~IsFB(s.callee) /\ s.kind # "raw"
      BY <1>12, <3>1, <3>r
    <3>15. Formal(stack', Top + 1, db', di', ar2') = Place(stack', Top + 1, Op("VL", slot), db', di', ar2')
      BY <3>7, <3>12, <3>14 DEF Formal
    <3>16. Place(stack', Top + 1, Op("VL", slot), db', di', ar2') = <<"L", Top, slot>>
      BY <3>2 DEF Place, Translated, Op
    <3>17. /\ stack' = Append(under, f) /\ ~IsFB(f.block) /\ (f.raw <=> s.kind = "raw")
           /\ mem'[Formal(stack', Top + 1, db', di', ar2')] = mem[from]
      BY <2>2, <3>6, <3>7, <3>14, <3>15, <3>16
    <3> HIDE DEF from
    <3>18. Exists(Place(stack, Top, s.actual, db, di, ar2)) =>
             mem'[Formal(stack', Top + 1, db', di', ar2')] = mem[Place(stack, Top, s.actual, db, di, ar2)]
      BY <3>17 DEF from
    <3> QED BY <1>10, <3>1, <3>6, <3>7, <3>10, <3>11, <3>13, <3>17, <3>18, <3>r
  <2> QED BY <1>14, <2>1, <2>2 DEF CallFCByCopy, Fail
<1>15. ASSUME NEW s \in Sites, CallRaw(s) PROVE LinkInv' /\ ParameterStep
  <2> DEFINE f == NewFrame(s.callee, TRUE, 0, 0, NoOp, s, FALSE)
  <2>1. /\ stack # <<>> /\ s.in = Frame.block /\ s.kind = "raw"
        /\ stack' = Append(stack, f) /\ UNCHANGED <<db, di, ar2, mem, scratch>>
    BY <1>15 DEF CallRaw, Callable, Running
  <2>2. f.site = s /\ f.block = s.callee /\ f.raw = TRUE /\ f.ref = NoOp
    BY DEF NewFrame
  <2> HIDE DEF f
  <2> QED BY <1>a, <2>1, <2>2
\* The returns: what is left, and where the parameter goes.
<1>16. ASSUME stack # <<>>, scratch' = scratch, DOMAIN mem' = DOMAIN mem,
              Len(stack') < Len(stack), \A d \in 1..Len(stack') : SameCall(stack[d], stack'[d]),
              Top > 1 /\ ~Frame.raw /\ RegistersAsGiven /\ ~Frame.moved => FormalReturned
       PROVE  LinkInv' /\ ParameterStep
  <2>1. LinkInv'
    BY <1>1, <1>3, <1>16, LinksKept
  <2> QED BY <1>3, <1>16, <2>1 DEF ParameterStep, ActualPassed, Pushes, Pops
<1>17. ASSUME stack # <<>>, stack' = Below
       PROVE  Len(stack') < Len(stack) /\ \A d \in 1..Len(stack') : SameCall(stack[d], stack'[d])
  <2>1. stack \in Seq(Frames) /\ Top \in Nat \ {0}
    BY <1>1, <1>3, <1>17 DEF CallsInv
  <2>2. Len(stack') = Top - 1 /\ \A d \in 1..(Top - 1) : stack'[d] = stack[d]
    BY <1>3, <1>17, <2>1 DEF Below
  <2> QED BY <1>3, <2>1, <2>2 DEF SameCall
<1>18. CASE ReturnRaw
  <2> DEFINE e == stack[Top - 1]
             g == [e EXCEPT !.touched = @ \/ Frame.touched]
  <2>1. stack # <<>> /\ Frame.raw /\ UNCHANGED <<scratch, mem>>
    BY <1>18 DEF ReturnRaw, Running
  <2>2. stack \in Seq(Frames) /\ Top \in Nat \ {0}
    BY <1>1, <1>3, <2>1 DEF CallsInv
  <2>3. CASE Top = 1
    <3>1. stack' = <<>>
      BY <1>18, <2>3 DEF ReturnRaw
    <3>2. Len(stack') < Len(stack) /\ \A d \in 1..Len(stack') : SameCall(stack[d], stack'[d])
      BY <1>3, <2>3, <3>1
    <3> QED BY <1>16, <2>1, <3>2
  <2>4. CASE Top > 1
    <3>1. Below \in Seq(Frames) /\ Len(Below) = Top - 1 /\ \A d \in 1..(Top - 1) : Below[d] = stack[d]
      BY <1>3, <2>2 DEF Below
    <3>2. stack' = [Below EXCEPT ![Top - 1] = g]
      <4>1. stack' = [Below EXCEPT ![Top - 1].touched = @ \/ Frame.touched]
        BY <1>18, <2>4 DEF ReturnRaw
      <4>2. Below[Top - 1] = e
        BY <2>2, <2>4, <3>1
      <4> QED BY <4>1, <4>2
    <3>3. SameCall(e, g)
      <4>1. e \in Frames
        BY <1>3, <2>2, <2>4
      <4> QED BY <4>1 DEF SameCall, Frames
    <3> HIDE DEF g
    <3>4. /\ Len(stack') = Top - 1 /\ stack'[Top - 1] = g
          /\ \A d \in 1..(Top - 1) : d # Top - 1 => stack'[d] = stack[d]
      <4>1. Top - 1 \in 1..Len(Below)
        BY <2>2, <2>4, <3>1
      <4> QED BY <3>1, <3>2, <4>1
    <3>5. Len(stack') < Len(stack) /\ \A d \in 1..Len(stack') : SameCall(stack[d], stack'[d])
      BY <1>3, <2>2, <3>3, <3>4 DEF SameCall
    <3> QED BY <1>16, <2>1, <3>5
  <2> QED BY <2>2, <2>3, <2>4
\* Where the caller has its actual, for a call that returns.
<1>19. ASSUME stack # <<>>, Top > 1, ~Frame.raw
       PROVE  LET a == Frame.site.actual IN
                /\ Linked(stack, Top, scratch) /\ Frame = stack[Top] /\ Top \in Nat
                /\ a \in Operands /\ a.area \in {"M", "L", "VL", "DB", "DBX", "DI", "param"}
                /\ a.area = "param" => stack[Top - 1].ref.area \in References
                /\ RegistersAsGiven => Place(stack, Top - 1, a, db, di, Frame.prevAr2) = ActualPlace
  <2> DEFINE a == Frame.site.actual
  <2>1. Linked(stack, Top, scratch) /\ Frame = stack[Top] /\ Top \in Nat /\ Top - 1 \in 1..Len(stack)
    BY <1>3, <1>19, TopLinked
  <2>2. Frame.site \in Sites /\ Frame.site.in = stack[Top - 1].block /\ Frame.site.kind # "raw"
    BY <1>19, <2>1 DEF Linked
  <2>3. a \in Operands /\ a.area \in {"M", "L", "VL", "DB", "DBX", "DI", "param"}
    BY <2>2, CallsAssumption DEF Operands
  <2>4. a.area = "param" => stack[Top - 1].ref.area \in References
    <3>1. a.area = "param" => Refers(stack, Top - 1, scratch)
      <4>1. a.area = "param" => ~stack[Top - 1].raw
        BY <1>19, <2>1 DEF Linked
      <4> QED BY <2>1, <2>2, <4>1, PassedOn
    <3> QED BY <3>1 DEF Refers
  <2>5. RegistersAsGiven => Place(stack, Top - 1, a, db, di, Frame.prevAr2) = ActualPlace
    BY <2>3, <2>4, PlaceElsewhere DEF RegistersAsGiven, ActualPlace
  <2> QED BY <2>1, <2>3, <2>4, <2>5
<1>20. CASE ReturnFB
  <2> DEFINE from == <<"DB", di, ar2>>
             to == Place(stack, Top - 1, Frame.site.actual, db, di, Frame.prevAr2)
  <2>1. stack # <<>> /\ ~Frame.raw /\ IsFB(Frame.block)
    BY <1>20 DEF ReturnFB, Running
  <2>2. CASE UNCHANGED <<stack, scratch, mem>>
    BY <1>5, <2>2
  <2>3. CASE Exists(to) /\ mem' = [mem EXCEPT ![to] = mem[from]] /\ stack' = Below /\ UNCHANGED scratch
    <3>1. mem'[to] = mem[from] /\ DOMAIN mem' = DOMAIN mem
      BY <2>3 DEF Exists
    <3>2. Top > 1 /\ RegistersAsGiven => FormalReturned
      <4>1. Frame = stack[Top]
        BY DEF Frame
      <4>2. Formal(stack, Top, db, di, ar2) = from
        BY <2>1, <4>1 DEF Formal
      <4> QED BY <1>19, <2>1, <3>1, <4>2 DEF FormalReturned
    <3> QED BY <1>16, <1>17, <2>1, <2>3, <3>1, <3>2
  <2> QED BY <1>20, <2>2, <2>3 DEF ReturnFB, Fail
<1>21. CASE ReturnFC
  <2> DEFINE from == <<"L", Top - 1, scratch[Frame.site]>>
             a == Frame.site.actual
             to == Place(stack, Top - 1, a, db, di, Frame.prevAr2)
  <2>1. stack # <<>> /\ ~Frame.raw /\ ~IsFB(Frame.block)
    BY <1>21 DEF ReturnFC, Running
  <2>2. CASE UNCHANGED <<stack, scratch, mem>>
    BY <1>5, <2>2
  <2>3. CASE /\ Frame.copies => Exists(to)
             /\ mem' = IF Frame.copies THEN [mem EXCEPT ![to] = mem[from]] ELSE mem
             /\ stack' = Below /\ UNCHANGED scratch
    <3>1. DOMAIN mem' = DOMAIN mem
      BY <2>3
    <3>2. ASSUME Top > 1, RegistersAsGiven, ~Frame.moved PROVE FormalReturned
      <4>1. /\ Linked(stack, Top, scratch) /\ Frame = stack[Top] /\ Top \in Nat /\ Top - 1 \in Nat
            /\ a \in Operands /\ a.area \in {"M", "L", "VL", "DB", "DBX", "DI", "param"}
            /\ a.area = "param" => stack[Top - 1].ref.area \in References
            /\ to = ActualPlace
        BY <1>19, <2>1, <3>2
      <4>2. /\ Refers(stack, Top, scratch)
            /\ Formal(stack, Top, db, di, ar2) = Place(stack, Top, Frame.ref, db, di, ar2)
        BY <2>1, <4>1 DEF Linked, Formal
      <4>3. CASE Frame.copies
        <5>1. Frame.ref = Op("VL", scratch[Frame.site])
          BY <3>2, <4>1, <4>2, <4>3 DEF Refers
        <5>2. Place(stack, Top, Frame.ref, db, di, ar2) = from
          BY <4>1, <5>1 DEF Place, Translated, Op
        <5>3. mem'[to] = mem[from]
          BY <2>3, <4>3 DEF Exists
        <5> QED BY <4>1, <4>2, <5>2, <5>3 DEF FormalReturned
      <4>4. CASE ~Frame.copies
        <5> DEFINE o == Translated(stack[Top - 1].ref, a)
        <5>1. ~IsCopied(stack[Top - 1].ref, a) /\ Frame.ref = Direct(o)
          BY <4>1, <4>2, <4>4 DEF Refers, RefBelow
        <5>2. o.area \in {"M", "L", "DB"}
          BY <4>1, <5>1 DEF IsCopied, Translated, References
        <5>3. ActualPlace = Place(stack, Top - 1, o, Frame.prevDb, Frame.prevDi, Frame.prevAr2)
          BY <4>1, PlaceTranslated DEF ActualPlace, References
        <5>4. o.area = "DB" => db = Frame.prevDb
          BY <3>2 DEF RegistersAsGiven
        <5> HIDE DEF o
        <5>5. Direct(o).area = (IF o.area = "L" THEN "VL" ELSE o.area) /\ Direct(o).addr = o.addr
          BY <5>2 DEF Direct, Op
        <5>6. Place(stack, Top, Direct(o), db, di, ar2)
                = Place(stack, Top - 1, o, Frame.prevDb, Frame.prevDi, Frame.prevAr2)
          <6>1. Direct(o).area \in {"M", "L", "VL", "DB"}
            BY <5>2, <5>5
          <6> QED BY <4>1, <5>2, <5>4, <5>5, <6>1, PlaceOfReference
        <5>7. mem' = mem
          BY <2>3, <4>4
        <5> QED BY <4>2, <5>1, <5>3, <5>6, <5>7 DEF FormalReturned
      <4> QED BY <4>3, <4>4
    <3> QED BY <1>16, <1>17, <2>1, <2>3, <3>1, <3>2
  <2> QED BY <1>21, <2>2, <2>3 DEF ReturnFC, Fail
<1> QED BY <1>2, <1>7, <1>8, <1>9, <1>11, <1>13, <1>14, <1>15, <1>18, <1>20, <1>21 DEF CallNext

\* Of every program, at every call: the callee finds the value of the actual in
\* its parameter, works on its own instance and its own scratch areas, and the
\* caller finds in its variable what the callee left in the parameter
\* (callstack.py 79-127, 265-308, 347-385), if the callee leaves the register
\* through which the actual is reached as it was given, and if no other call by
\* the same CALL has put a copy elsewhere meanwhile.
THEOREM ParametersAreActuals == CallSpec => ParameterIsActual
<1>1. CallInit => LinkInv
  BY LinksInitially
<1>2. LinkInv /\ [CallNext]_callVars => LinkInv' /\ [ParameterStep]_callVars
  BY ParametersPreserved
<1>3. LinkInv => CallsInv
  BY DEF LinkInv
<1>4. CallSpec => []InstanceVisible
  BY InstancesSeen
<1>5. CallSpec => []ScratchDisjoint
  BY ScratchApart
<1>6. CallSpec => [][ParameterStep]_callVars
  BY <1>1, <1>2, PTL DEF CallSpec
<1> QED BY <1>4, <1>5, <1>6, PTL DEF ParameterIsActual, ParameterStep

-----------------------------------------------------------------------------
(* The data areas of the Modbus blocks.                                    *)

\* A set of natural numbers has a least one: the intervals up to its members
\* have a smallest.
LEMMA LeastNumber ==
  ASSUME NEW T \in SUBSET Nat, T # {}
  PROVE  Min(T) \in T /\ \A n \in T : Min(T) <= n
<1> DEFINE Before == StrictSubsetOrdering(Nat)
           F == FiniteSubsetsOf(Nat)
           V == {1..n : n \in T}
<1>1. IsWellFoundedOn(Before, F)
  BY FS_StrictSubsetOrderingWellFounded
<1>2. V \subseteq F /\ V # {}
  <2>1. \A n \in T : 1..n \in SUBSET Nat /\ IsFiniteSet(1..n)
    BY FS_Interval
  <2> QED BY <2>1 DEF FiniteSubsetsOf
<1> HIDE DEF Before, F, V
<1>3. PICK v \in V : \A w \in V : ~(<<w, v>> \in Before)
  BY <1>1, <1>2, WFMin
<1>4. PICK m \in T : v = 1..m
  BY DEF V
<1>5. ASSUME NEW n \in T, ~(m <= n) PROVE FALSE
  <2>1. 1..n \in V
    BY DEF V
  <2>2. n < m /\ m \in Nat /\ n \in Nat
    BY <1>5
  <2>3. 1..n \subseteq 1..m /\ 1..n # 1..m
    <3>1. m \in 1..m /\ m \notin 1..n
      BY <2>2
    <3>2. 1..n \subseteq 1..m
      BY <2>2
    <3> QED BY <3>1, <3>2
  <2>4. 1..n \in SUBSET Nat /\ 1..m \in SUBSET Nat
    OBVIOUS
  <2>5. <<1..n, v>> \in Before
    BY <2>3, <2>4, <1>4 DEF Before, StrictSubsetOrdering
  <2> QED BY <1>3, <2>1, <2>5
<1>6. \E l \in T : \A n \in T : l <= n
  BY <1>5
<1> QED BY <1>6 DEF Min

\* An address is found in an area of its type, or in none.
LEMMA FoundAreas ==
  ASSUME NEW side \in Sides, NEW type, NEW a
  PROVE  \/ Find(side, type, a) = 0
         \/ /\ Find(side, type, a) \in DOMAIN Areas[side] /\ Find(side, type, a) # 0
            /\ Areas[side][Find(side, type, a)].type = type
<1> DEFINE fits == {i \in DOMAIN Areas[side] :
                   /\ Areas[side][i].type = type
                   /\ a \in Areas[side][i].start..Areas[side][i].end}
<1>1. Areas[side] \in Seq([type : 1..4, start : Int, end : Int])
  BY AreasAssumption DEF Sides
<1>2. fits \in SUBSET Nat /\ 0 \notin fits
  BY <1>1
<1>3. fits # {} => Min(fits) \in fits
  BY <1>2, LeastNumber
<1>4. Find(side, type, a) = IF fits = {} THEN 0 ELSE Min(fits)
  BY DEF Find
<1> QED BY <1>2, <1>3, <1>4

\* A cell lies in an area, and is the pair of it and its address.
LEMMA CellPairs ==
  ASSUME NEW side \in Sides, NEW c \in Cells(side)
  PROVE  c[1] \in DOMAIN Areas[side] /\ c[1] # 0 /\ c = <<c[1], c[2]>>
<1>1. PICK i \in DOMAIN Areas[side] : \E b : c = <<i, b>>
  BY DEF Cells
<1>2. Areas[side] \in Seq([type : 1..4, start : Int, end : Int])
  BY AreasAssumption DEF Sides
<1> QED BY <1>1, <1>2

\* What a cell of an area of some type holds.
ValuesOf(type) == IF IsBit(type) THEN {0, 1} ELSE CellValue

LEMMA CellTypes ==
  ASSUME NEW side \in Sides, NEW type, NEW a, HasCell(side, type, a)
  PROVE  /\ Find(side, type, a) # 0
         /\ Areas[side][Cell(side, type, a)[1]].type = type
         /\ Cell(side, type, a)[2] = a
         /\ CellValues(side, Cell(side, type, a)) = ValuesOf(type)
<1>1. Cell(side, type, a)[1] = Find(side, type, a) /\ Cell(side, type, a)[2] = a
  BY DEF Cell
<1>2. Find(side, type, a) # 0
  BY <1>1, CellPairs DEF HasCell
<1> QED BY <1>1, <1>2, FoundAreas DEF CellValues, ValuesOf

\* How far a loop over addresses comes.
LEMMA Reached ==
  ASSUME NEW side \in Sides, NEW type, NEW address \in Int, NEW n \in Nat
  PROVE  LET k == Reach(side, type, address, n)
         IN  /\ k \in 0..n
             /\ \A a \in address..address + k - 1 : HasCell(side, type, a)
             /\ k # n => ~HasCell(side, type, address + k)
<1> DEFINE ends == {k \in 0..n : k = n \/ ~HasCell(side, type, address + k)}
           k == Reach(side, type, address, n)
<1>1. ends \in SUBSET Nat /\ n \in ends
  OBVIOUS
<1>2. k = Min(ends)
  BY DEF Reach
<1>3. k \in ends /\ \A l \in ends : k <= l
  BY <1>1, <1>2, LeastNumber
<1>4. ASSUME NEW a \in address..address + k - 1 PROVE HasCell(side, type, a)
  <2>1. a - address \in 0..n /\ a - address < k /\ address + (a - address) = a
    BY <1>3
  <2>2. a - address \notin ends
    BY <2>1, <1>3
  <2> QED BY <2>1, <2>2
<1> QED BY <1>3, <1>4

\* What a request or a response carries for its addresses: each is a cell of an
\* area of its type on a side, and the value is the one held there at a moment.
Copied(r, side, held) ==
    LET type == AreaOf(r.fc)
    IN  /\ r.data \in [1..r.n -> ValuesOf(type)]
        /\ \A a \in Addressed(r) : /\ HasCell(side, type, a)
                                   /\ r.data[a - r.address + 1] = held[Cell(side, type, a)]

ServedCodes == 1..4 \cup {5, 6, 15, 16}

CellsTyped ==
    /\ DOMAIN memory = Sides
    /\ \A side \in Sides : /\ DOMAIN memory[side] = Cells(side)
                           /\ \A c \in Cells(side) : memory[side][c] \in CellValues(side, c)

RequestTyped ==
    /\ step \in {"idle", "asked", "served"}
    /\ step # "idle" => request \in [fc : ServedCodes, address : Int, n : Nat, data : Seq(CellValue)]

\* A request that was served has been carried out completely, or was refused for
\* an address without a cell.
Answered ==
    step = "served" =>
      IF response.fc # request.fc
      THEN \E a \in Addressed(request) : ~HasCell("server", AreaOf(request.fc), a)
      ELSE IF Reads(request.fc)
      THEN /\ response.address = request.address /\ response.n = request.n
           /\ Copied(response, "server", served)
           /\ request.n = 0 \/ ~IsBit(request.fc)
      ELSE /\ response = request
           /\ \A a \in Addressed(request) : HasCell("server", AreaOf(request.fc), a)

\* The master that still runs remembers an error exactly if a response strayed.
ErrorsStray ==
    /\ ERROR_CODE \in [Sides -> {NoError, "INVALID_COMBINATION"}]
    /\ stray \in BOOLEAN /\ down \subseteq Sides
    /\ "client" \in down \/ (stray <=> ERROR_CODE["client"] # NoError)

WritesCopied == step # "idle" /\ ~Reads(request.fc) => Copied(request, "client", asked)

AreasInv == CellsTyped /\ RequestTyped /\ WritesCopied /\ Answered /\ ErrorsStray

\* The values are in the cells of the addresses, and nothing else has changed.
Stored(m, side, type, address, n, data) ==
    /\ DOMAIN m = Sides
    /\ \A s \in Sides : /\ DOMAIN m[s] = Cells(s)
                        /\ \A c \in Cells(s) : m[s][c] \in CellValues(s, c)
    /\ \A a \in address..address + n - 1 : m[side][Cell(side, type, a)] = data[a - address + 1]
    /\ \A s \in Sides : \A c \in Cells(s) :
         m[s][c] # memory[s][c] =>
           s = side /\ Areas[s][c[1]].type = type /\ c[2] \in address..address + n - 1

LEMMA Storing ==
  ASSUME CellsTyped, NEW side \in Sides, NEW type, NEW address \in Int, NEW n \in Nat, NEW data,
         \A a \in address..address + n - 1 : HasCell(side, type, a),
         \A j \in 1..n : data[j] \in ValuesOf(type)
  PROVE  Stored(StoredCells(side, type, address, n, data), side, type, address, n, data)
<1> DEFINE m == StoredCells(side, type, address, n, data)
           hit(c) == \E j \in 1..n : c = Cell(side, type, address + j - 1)
<1>1. /\ DOMAIN m = Sides
      /\ \A s \in Sides : s # side => m[s] = memory[s]
      /\ m[side] = [c \in Cells(side) |-> IF hit(c) THEN data[c[2] - address + 1] ELSE memory[side][c]]
  BY DEF CellsTyped, StoredCells
<1>2. ASSUME NEW c \in Cells(side), hit(c)
      PROVE  /\ data[c[2] - address + 1] \in CellValues(side, c)
             /\ Areas[side][c[1]].type = type /\ c[2] \in address..address + n - 1
  <2>1. PICK j \in 1..n : c = Cell(side, type, address + j - 1)
    BY <1>2
  <2>2. address + j - 1 \in address..address + n - 1
    OBVIOUS
  <2>3. HasCell(side, type, address + j - 1)
    BY <2>2
  <2>4. /\ Areas[side][c[1]].type = type /\ c[2] = address + j - 1
        /\ CellValues(side, c) = ValuesOf(type)
    BY <2>1, <2>3, CellTypes
  <2>5. c[2] - address + 1 = j
    BY <2>4
  <2> QED BY <2>2, <2>4, <2>5
<1>3. ASSUME NEW a \in address..address + n - 1
      PROVE  m[side][Cell(side, type, a)] = data[a - address + 1]
  <2>1. HasCell(side, type, a)
    OBVIOUS
  <2>2. Cell(side, type, a) \in Cells(side) /\ Cell(side, type, a)[2] = a
    BY <2>1, CellTypes DEF HasCell
  <2>3. a - address + 1 \in 1..n /\ address + (a - address + 1) - 1 = a
    OBVIOUS
  <2>4. hit(Cell(side, type, a))
    BY <2>3
  <2> QED BY <1>1, <2>2, <2>4
<1> HIDE DEF m, hit
<1>4. \A s \in Sides : DOMAIN m[s] = Cells(s)
  BY <1>1 DEF CellsTyped
<1>5. ASSUME NEW s \in Sides, NEW c \in Cells(s)
      PROVE  /\ m[s][c] \in CellValues(s, c)
             /\ m[s][c] # memory[s][c] =>
                  s = side /\ Areas[s][c[1]].type = type /\ c[2] \in address..address + n - 1
  <2>1. CASE s # side
    BY <2>1, <1>1 DEF CellsTyped
  <2>2. CASE s = side /\ ~hit(c)
    BY <2>2, <1>1 DEF CellsTyped
  <2>3. CASE s = side /\ hit(c)
    BY <2>3, <1>1, <1>2
  <2> QED BY <2>1, <2>2, <2>3
<1> QED BY <1>1, <1>3, <1>4, <1>5 DEF m, Stored

\* What fetching gives.
LEMMA Fetching ==
  ASSUME CellsTyped, NEW side \in Sides, NEW type, NEW address \in Int, NEW n \in Nat,
         \A a \in address..address + n - 1 : HasCell(side, type, a)
  PROVE  LET d == Fetched(side, type, address, n)
         IN  /\ d \in [1..n -> ValuesOf(type)] /\ d \in Seq(CellValue)
             /\ \A a \in address..address + n - 1 :
                  d[a - address + 1] = memory[side][Cell(side, type, a)]
<1> DEFINE d == Fetched(side, type, address, n)
<1>1. ASSUME NEW a \in address..address + n - 1
      PROVE  memory[side][Cell(side, type, a)] \in ValuesOf(type)
  BY CellTypes DEF CellsTyped, HasCell
<1>2. d = [j \in 1..n |-> memory[side][Cell(side, type, address + j - 1)]]
  BY DEF Fetched
<1>3. \A j \in 1..n : address + j - 1 \in address..address + n - 1
  OBVIOUS
<1>4. d \in [1..n -> ValuesOf(type)]
  BY <1>1, <1>2, <1>3
<1>5. ValuesOf(type) \subseteq CellValue
  BY AreasAssumption DEF ValuesOf
<1>6. d \in Seq(CellValue)
  <2>1. d \in [1..n -> CellValue]
    BY <1>4, <1>5
  <2> QED BY <2>1
<1>7. ASSUME NEW a \in address..address + n - 1
      PROVE  d[a - address + 1] = memory[side][Cell(side, type, a)]
  <2>1. a - address + 1 \in 1..n /\ address + (a - address + 1) - 1 = a
    OBVIOUS
  <2> QED BY <1>2, <2>1
<1> QED BY <1>4, <1>6, <1>7

\* The function code of a request tells its data type.
LEMMA TypesOfCodes ==
  /\ \A fc \in 1..4 : fc \in ServedCodes /\ AreaOf(fc) = fc /\ Reads(fc)
  /\ \A fc \in {5, 15} : fc \in ServedCodes /\ AreaOf(fc) = 1 /\ ~Reads(fc)
  /\ \A fc \in {6, 16} : fc \in ServedCodes /\ AreaOf(fc) = 3 /\ ~Reads(fc)
BY DEF AreaOf, Reads, ServedCodes

LEMMA FunctionCodes ==
  ASSUME NEW dataType, NEW write \in BOOLEAN, NEW n \in Int, NEW single,
         FunctionCode(dataType, write, n, single) # 0
  PROVE  LET fc == FunctionCode(dataType, write, n, single)
         IN  /\ fc \in ServedCodes /\ n \in Nat /\ AreaOf(fc) = dataType
             /\ Reads(fc) <=> ~write
<1> DEFINE fc == FunctionCode(dataType, write, n, single)
<1>1. dataType \in 1..4 /\ n \in Nat
  BY DEF FunctionCode
<1>2. CASE ~write
  <2>1. fc = dataType
    BY <1>1, <1>2 DEF FunctionCode
  <2> QED BY <1>1, <1>2, <2>1 DEF AreaOf, Reads, ServedCodes
<1>3. CASE write
  <2>1. dataType \in {1, 3}
    BY <1>1, <1>3 DEF FunctionCode
  <2>2. fc \in (IF dataType = 1 THEN {5, 15} ELSE {6, 16})
    BY <1>1, <1>3, <2>1 DEF FunctionCode
  <2>3. CASE dataType = 1
    BY <1>1, <1>3, <2>2, <2>3, TypesOfCodes
  <2>4. CASE dataType = 3
    BY <1>1, <1>3, <2>2, <2>4, TypesOfCodes
  <2> QED BY <2>1, <2>3, <2>4
<1> QED BY <1>2, <1>3

LEMMA AreasInitially == AreasInit => AreasInv
<1> SUFFICES ASSUME AreasInit PROVE AreasInv
  OBVIOUS
<1>1. \A side \in Sides : \A c \in Cells(side) : 0 \in CellValues(side, c)
  BY AreasAssumption DEF CellValues
<1>2. CellsTyped
  BY <1>1 DEF AreasInit, CellsTyped
<1>3. ErrorsStray
  BY DEF AreasInit, ErrorsStray, Sides, NoError
<1> QED BY <1>2, <1>3 DEF AreasInit, AreasInv, RequestTyped, WritesCopied, Answered

\* A request asks for what its program means, and carries what it is to write.
LEMMA Constructing ==
  ASSUME AreasInv, NEW dataType, NEW write \in BOOLEAN, NEW address \in Addresses, NEW n \in Lengths,
         NEW single, Construct(dataType, write, address, n, single)
  PROVE  AreasInv'
<1> DEFINE fc == FunctionCode(dataType, write, n, single)
           fails == fc = 0 \/ (write /\ Reach("client", dataType, address, n) < n)
<1>1. address \in Int /\ n \in Int
  BY AreasAssumption
<1>2. step = "idle" /\ UNCHANGED <<memory, ERROR_CODE, stray>>
  BY DEF Construct
<1>3. CellsTyped'
  BY <1>2 DEF AreasInv, CellsTyped
<1>4. CASE fails
  <2>1. UNCHANGED <<step, request, asked>> /\ down' = down \cup {"client"}
    BY <1>4 DEF Construct
  <2> QED BY <1>2, <1>3, <2>1
          DEF AreasInv, RequestTyped, WritesCopied, Answered, ErrorsStray, Sides
<1>5. CASE ~fails
  <2>1. /\ request' = [fc |-> fc, address |-> address, n |-> n,
                       data |-> IF write THEN Fetched("client", dataType, address, n) ELSE <<>>]
        /\ step' = "asked" /\ asked' = (IF write THEN memory["client"] ELSE <<>>)
        /\ UNCHANGED down
    BY <1>5 DEF Construct
  <2>2. /\ fc \in ServedCodes /\ n \in Nat /\ AreaOf(fc) = dataType
        /\ Reads(fc) <=> ~write
    BY <1>1, <1>5, FunctionCodes
  <2>3. ASSUME write
        PROVE  /\ \A a \in address..address + n - 1 : HasCell("client", dataType, a)
               /\ Fetched("client", dataType, address, n) \in [1..n -> ValuesOf(dataType)]
               /\ Fetched("client", dataType, address, n) \in Seq(CellValue)
               /\ \A a \in address..address + n - 1 :
                    Fetched("client", dataType, address, n)[a - address + 1]
                      = memory["client"][Cell("client", dataType, a)]
    <3> DEFINE k == Reach("client", dataType, address, n)
    <3>1. /\ k \in 0..n
          /\ \A a \in address..address + k - 1 : HasCell("client", dataType, a)
      BY <1>1, <2>2, Reached DEF Sides
    <3>2. ~(k < n)
      BY <1>5, <2>3
    <3> HIDE DEF k
    <3>3. k = n
      BY <2>2, <3>1, <3>2
    <3>4. \A a \in address..address + n - 1 : HasCell("client", dataType, a)
      BY <3>1, <3>3
    <3>5. "client" \in Sides /\ CellsTyped
      BY DEF Sides, AreasInv
    <3> QED BY <1>1, <2>2, <3>4, <3>5, Fetching
  <2> HIDE DEF fc, fails
  <2>4. RequestTyped'
    <3>1. request'.data \in Seq(CellValue)
      BY <2>1, <2>3
    <3> QED BY <1>1, <2>1, <2>2, <3>1 DEF RequestTyped
  <2>5. WritesCopied'
    <3> SUFFICES ASSUME write PROVE Copied(request', "client", asked')
      BY <2>1, <2>2 DEF WritesCopied, Copied, Addressed
    <3>1. /\ request'.fc = fc /\ request'.address = address /\ request'.n = n
          /\ request'.data = Fetched("client", dataType, address, n) /\ asked' = memory["client"]
      BY <2>1
    <3>2. Addressed(request') = address..address + n - 1
      BY <3>1 DEF Addressed
    <3> QED BY <2>2, <2>3, <3>1, <3>2 DEF Copied
  <2>6. Answered' /\ ErrorsStray'
    BY <1>2, <2>1 DEF AreasInv, Answered, ErrorsStray
  <2> QED BY <1>3, <2>4, <2>5, <2>6 DEF AreasInv
<1> QED BY <1>4, <1>5

\* What TransferCopies says of a step that changes something, and
\* SucceedsExactlyWhen.
TransferStep ==
    /\ \A a \in Addressed(request) :
         LET type == AreaOf(request.fc)
             c == Cell("client", type, a)
             s == Cell("server", type, a)
         IN  /\ step = "asked" /\ step' = "served" /\ ~Reads(request.fc) =>
                  memory'["server"][s] = asked[c]
             /\ step = "served" /\ step' = "idle" /\ result' = NoError /\ Reads(request.fc) =>
                  memory'["client"][c] = served[s]
    /\ Serve \/ Process => OnlyAddressedChange

ExactStep ==
    step = "served" /\ step' = "idle" =>
      (result' = NoError <=>
         \/ request.n = 0
         \/ /\ ~IsBit(request.fc)
            /\ \A a \in Addressed(request), side \in Sides : HasCell(side, AreaOf(request.fc), a)
            /\ Reads(request.fc) => ~stray)

\* The data type of a read is its function code, and the others write.
LEMMA RequestTypes ==
  ASSUME RequestTyped, step # "idle"
  PROVE  /\ request.fc \in ServedCodes /\ request.address \in Int /\ request.n \in Nat
         /\ AreaOf(request.fc) \in 1..4
         /\ Reads(request.fc) => AreaOf(request.fc) = request.fc
         /\ ~Reads(request.fc) => ~IsBit(request.fc)
<1>1. request.fc \in ServedCodes /\ request.address \in Int /\ request.n \in Nat
  BY DEF RequestTyped
<1>2. \A fc \in {5, 6, 15, 16} : ~IsBit(fc) /\ AreaOf(fc) \in 1..4 /\ ~Reads(fc)
  BY DEF IsBit, AreaOf, Reads
<1> QED BY <1>1, <1>2, TypesOfCodes DEF ServedCodes

LEMMA ServingReads ==
  ASSUME AreasInv, Serve, ServeRead
  PROVE  AreasInv' /\ OnlyAddressedChange /\ Reads(request.fc)
<1> DEFINE type == AreaOf(request.fc)
           k == Reach("server", type, request.address, request.n)
           full == k = request.n /\ (k = 0 \/ ~IsBit(type))
           unfound == Find("server", type, request.address + k) = 0 /\ (k = 0 \/ ~IsBit(type))
<1>1. step = "asked" /\ UNCHANGED <<memory, ERROR_CODE, request, result, asked, stray>>
  BY DEF Serve, ServeRead
<1>2. Reads(request.fc) /\ served' = memory["server"]
  BY DEF Serve, ServeRead
<1>3. /\ request \in [fc : ServedCodes, address : Int, n : Nat, data : Seq(CellValue)]
      /\ request.fc \in ServedCodes /\ request.address \in Int /\ request.n \in Nat
      /\ type = request.fc
  BY <1>1, <1>2, RequestTypes DEF AreasInv, RequestTyped
<1>4. CellsTyped' /\ OnlyAddressedChange
  BY <1>1 DEF AreasInv, CellsTyped, OnlyAddressedChange
<1>5. /\ k \in 0..request.n
      /\ \A a \in request.address..request.address + k - 1 : HasCell("server", type, a)
      /\ k # request.n => ~HasCell("server", type, request.address + k)
  BY <1>3, Reached DEF Sides
<1>6. \/ full /\ Answer([request EXCEPT !.data = Fetched("server", type, request.address, k)])
      \/ ~full /\ unfound /\ Answer(ErrorResponse)
      \/ ~full /\ Crash("server")
  BY DEF ServeRead
<1> HIDE DEF k
<1>7. CASE full /\ Answer([request EXCEPT !.data = Fetched("server", type, request.address, k)])
  <2>1. step' = "served" /\ UNCHANGED down
        /\ response' = [request EXCEPT !.data = Fetched("server", type, request.address, k)]
    BY <1>7 DEF Answer
  <2> DEFINE d == Fetched("server", type, request.address, request.n)
  <2>2. /\ response'.fc = request.fc /\ response'.address = request.address
        /\ response'.n = request.n /\ response'.data = d
    BY <2>1, <1>3, <1>7
  <2>3. /\ d \in [1..request.n -> ValuesOf(type)]
        /\ \A a \in Addressed(request) : d[a - request.address + 1] = memory["server"][Cell("server", type, a)]
    BY <1>3, <1>5, <1>7, Fetching DEF AreasInv, Sides, Addressed
  <2> HIDE DEF d
  <2>4. Copied(response', "server", served')
    BY <1>2, <1>3, <1>5, <1>7, <2>2, <2>3 DEF Copied, Addressed
  <2>5. request.n = 0 \/ ~IsBit(request.fc)
    BY <1>3, <1>7
  <2>6. Answered'
    BY <1>1, <1>2, <2>2, <2>4, <2>5 DEF Answered
  <2> QED BY <1>1, <1>2, <1>4, <2>1, <2>6
          DEF AreasInv, RequestTyped, WritesCopied, ErrorsStray
<1>8. CASE ~full /\ unfound /\ Answer(ErrorResponse)
  <2>1. step' = "served" /\ UNCHANGED down /\ response'.fc = 129
    BY <1>8 DEF Answer, ErrorResponse, None
  <2>2. request.fc # 129
    BY <1>3 DEF ServedCodes
  <2>3. k # request.n
    BY <1>8
  <2>4. request.address + k \in Addressed(request)
    BY <1>3, <1>5, <2>3 DEF Addressed
  <2>5. ~HasCell("server", AreaOf(request.fc), request.address + k)
    BY <1>5, <2>3
  <2>6. Answered'
    BY <1>1, <2>1, <2>2, <2>4, <2>5 DEF Answered, Addressed
  <2> QED BY <1>1, <1>2, <1>4, <2>1, <2>6
          DEF AreasInv, RequestTyped, WritesCopied, ErrorsStray
<1>9. CASE Crash("server")
  <2>1. UNCHANGED <<response, step>> /\ down' = down \cup {"server"}
    BY <1>9 DEF Crash
  <2> QED BY <1>1, <1>2, <1>4, <2>1
          DEF AreasInv, RequestTyped, WritesCopied, Answered, ErrorsStray, Sides
<1> QED BY <1>2, <1>4, <1>6, <1>7, <1>8, <1>9

LEMMA ServingWrites ==
  ASSUME AreasInv, Serve, ServeWrite
  PROVE  AreasInv' /\ TransferStep /\ OnlyAddressedChange
<1> DEFINE type == AreaOf(request.fc)
           k == Reach("server", type, request.address, request.n)
<1>1. step = "asked" /\ ~Reads(request.fc) /\ UNCHANGED <<request, result, asked, stray>>
  BY DEF Serve, ServeWrite
<1>2. /\ request \in [fc : ServedCodes, address : Int, n : Nat, data : Seq(CellValue)]
      /\ request.fc \in ServedCodes /\ request.address \in Int /\ request.n \in Nat
  BY <1>1, RequestTypes DEF AreasInv, RequestTyped
<1>3. /\ k \in 0..request.n
      /\ \A a \in request.address..request.address + k - 1 : HasCell("server", type, a)
  BY <1>2, Reached DEF Sides
<1>4. memory' = StoredCells("server", type, request.address, k, request.data)
  BY DEF ServeWrite
<1>5. \/ k = request.n /\ Answer(request) /\ UNCHANGED ERROR_CODE
      \/ /\ k # request.n /\ Crash("server")
         /\ ERROR_CODE' = ERROR_CODE \/ ERROR_CODE' = [ERROR_CODE EXCEPT !["server"] = "INVALID_COMBINATION"]
  BY DEF ServeWrite
<1>6. Copied(request, "client", asked)
  BY <1>1 DEF AreasInv, WritesCopied
<1> HIDE DEF k
<1>7. Stored(memory', "server", type, request.address, k, request.data)
  <2>1. \A j \in 1..k : request.data[j] \in ValuesOf(type)
    BY <1>2, <1>3, <1>6 DEF Copied
  <2>2. CellsTyped /\ "server" \in Sides /\ k \in Nat
    BY <1>3 DEF AreasInv, Sides
  <2>3. \A a \in request.address..request.address + k - 1 : HasCell("server", type, a)
    BY <1>3
  <2> HIDE DEF type
  <2> QED BY <1>2, <1>4, <2>1, <2>2, <2>3, Storing
<1>8. CellsTyped'
  BY <1>7 DEF CellsTyped, Stored
<1>9. OnlyAddressedChange
  <2>1. request.address..request.address + k - 1 \subseteq Addressed(request)
    BY <1>2, <1>3 DEF Addressed
  <2> QED BY <1>1, <1>7, <2>1 DEF OnlyAddressedChange, Stored
<1>10. TransferStep
  <2> SUFFICES ASSUME step' = "served", NEW a \in Addressed(request)
               PROVE  memory'["server"][Cell("server", type, a)] = asked[Cell("client", type, a)]
    BY <1>1, <1>9 DEF TransferStep
  <2>1. k = request.n
    BY <1>1, <1>5 DEF Crash
  <2>2. a \in request.address..request.address + k - 1
    BY <2>1 DEF Addressed
  <2> QED BY <1>6, <1>7, <2>2 DEF Copied, Stored
<1>11. CASE k = request.n /\ Answer(request) /\ UNCHANGED ERROR_CODE
  <2>1. response' = request /\ step' = "served" /\ UNCHANGED down
    BY <1>11 DEF Answer
  <2>2. \A a \in Addressed(request) : HasCell("server", type, a)
    BY <1>3, <1>11 DEF Addressed
  <2>3. Answered'
    BY <1>1, <2>1, <2>2 DEF Answered, Addressed
  <2> QED BY <1>1, <1>8, <1>9, <1>10, <1>11, <2>1, <2>3
          DEF AreasInv, RequestTyped, WritesCopied, ErrorsStray, Copied, Addressed
<1>12. CASE /\ k # request.n /\ Crash("server")
            /\ ERROR_CODE' = ERROR_CODE \/ ERROR_CODE' = [ERROR_CODE EXCEPT !["server"] = "INVALID_COMBINATION"]
  <2>1. UNCHANGED <<response, step>> /\ down' = down \cup {"server"}
    BY <1>12 DEF Crash
  <2>2. ErrorsStray'
    BY <1>1, <1>12, <2>1 DEF AreasInv, ErrorsStray, Sides
  <2> QED BY <1>1, <1>8, <1>9, <1>10, <2>1, <2>2
          DEF AreasInv, RequestTyped, WritesCopied, Answered, Copied, Addressed
<1> QED BY <1>5, <1>11, <1>12

\* Once a response has been processed, the exchange is over or its client down.
LEMMA Refusing ==
  ASSUME AreasInv, Process, RejectFunction
  PROVE  AreasInv' /\ TransferStep /\ OnlyAddressedChange /\ ExactStep
<1>1. /\ step = "served" /\ response.fc # request.fc /\ UNCHANGED <<memory, ERROR_CODE, stray, down>>
      /\ result' = "INVALID_FUNCTION_CODE" /\ step' = "idle"
  BY DEF Process, RejectFunction, Finish
<1>2. AreasInv'
  BY <1>1 DEF AreasInv, CellsTyped, RequestTyped, WritesCopied, Answered, ErrorsStray
<1>3. TransferStep /\ OnlyAddressedChange
  BY <1>1 DEF TransferStep, OnlyAddressedChange, NoError
<1>4. PICK a \in Addressed(request) : ~HasCell("server", AreaOf(request.fc), a)
  BY <1>1 DEF AreasInv, Answered
<1>5. request.n # 0
  BY <1>1, <1>4, RequestTypes DEF AreasInv, Addressed
<1>6. ExactStep
  BY <1>1, <1>4, <1>5 DEF ExactStep, NoError, Sides
<1> QED BY <1>2, <1>3, <1>6

LEMMA AcceptingWrites ==
  ASSUME AreasInv, Process, AcceptWrite
  PROVE  AreasInv' /\ TransferStep /\ OnlyAddressedChange /\ ExactStep
<1>1. /\ step = "served" /\ response.fc = request.fc /\ ~Reads(request.fc)
      /\ UNCHANGED <<memory, ERROR_CODE, stray, down>> /\ step' = "idle"
      /\ result' = IF request.fc \in {5, 6} /\ response # request THEN "INVALID_MSG_ECHO" ELSE NoError
  BY DEF Process, AcceptWrite, Finish
<1>2. AreasInv'
  BY <1>1 DEF AreasInv, CellsTyped, RequestTyped, WritesCopied, Answered, ErrorsStray
<1>3. TransferStep /\ OnlyAddressedChange
  BY <1>1 DEF TransferStep, OnlyAddressedChange
<1>4. response = request /\ \A a \in Addressed(request) : HasCell("server", AreaOf(request.fc), a)
  BY <1>1 DEF AreasInv, Answered
<1>5. \A a \in Addressed(request) : HasCell("client", AreaOf(request.fc), a)
  BY <1>1 DEF AreasInv, WritesCopied, Copied
<1>6. ~IsBit(request.fc)
  BY <1>1, RequestTypes DEF AreasInv
<1>7. ExactStep
  BY <1>1, <1>4, <1>5, <1>6 DEF ExactStep, Sides
<1> QED BY <1>2, <1>3, <1>7

LEMMA LeastOfTwo ==
  ASSUME NEW a \in Nat, NEW b \in Nat
  PROVE  Min({a, b}) = IF a <= b THEN a ELSE b
<1>1. {a, b} \in SUBSET Nat /\ {a, b} # {}
  OBVIOUS
<1>2. Min({a, b}) \in {a, b} /\ \A n \in {a, b} : Min({a, b}) <= n
  BY <1>1, LeastNumber
<1> QED BY <1>2

LEMMA AcceptingReads ==
  ASSUME AreasInv, Process, AcceptRead
  PROVE  AreasInv' /\ TransferStep /\ OnlyAddressedChange /\ ExactStep
<1> DEFINE type == AreaOf(request.fc)
           address == request.address
           n == request.n
           stuck == ERROR_CODE["client"] # NoError
           limit == IF stuck THEN Min({1, n}) ELSE n
           reach == Reach("client", type, request.address, n)
           k == Min({limit, reach})
           unfound == k < limit /\ Find("client", type, request.address + k) = 0
           refused == IsBit(type) /\ Ceil(Len(response.data), 8) # 2 * n
           wrong == unfound \/ (stuck /\ k = limit /\ n > 0)
<1>1. /\ step = "served" /\ "client" \notin down
      /\ response.fc = request.fc /\ Reads(request.fc)
  BY DEF Process, AcceptRead
<1>2. /\ \/ refused /\ Finish("INVALID_REG_BIT_COUNT") /\ UNCHANGED <<memory, ERROR_CODE>>
         \/ /\ ~refused
            /\ memory' = StoredCells("client", type, request.address, k, response.data)
            /\ ERROR_CODE' = IF unfound THEN [ERROR_CODE EXCEPT !["client"] = "INVALID_COMBINATION"]
                             ELSE ERROR_CODE
            /\ \/ wrong /\ Finish("INVALID_COMBINATION")
               \/ ~wrong /\ k = limit /\ Finish(NoError)
               \/ /\ ~wrong /\ k # limit /\ down' = down \cup {"client"}
                  /\ UNCHANGED <<result, step, request, response, asked, served>>
      /\ stray' = (stray \/ \E a \in request.address..request.address + n - 1 :
                                Find("client", type, a) = 0)
  BY DEF AcceptRead
<1>3. /\ address \in Int /\ n \in Nat /\ type = request.fc
  BY <1>1, RequestTypes DEF AreasInv
<1>4. /\ response.address = address /\ response.n = n /\ Copied(response, "server", served)
      /\ n = 0 \/ ~IsBit(type)
  BY <1>1, <1>3 DEF AreasInv, Answered
<1>5. /\ reach \in 0..n
      /\ \A a \in address..address + reach - 1 : HasCell("client", type, a)
      /\ reach # n => ~HasCell("client", type, address + reach)
  BY <1>3, Reached DEF Sides
<1>6. limit \in 0..n /\ (n > 0 => limit > 0) /\ (~stuck => limit = n)
  BY <1>3, LeastOfTwo
<1>7. stray \in BOOLEAN /\ (stray <=> stuck)
  BY <1>1 DEF AreasInv, ErrorsStray
<1> HIDE DEF limit, reach, stuck
<1>8. k \in 0..limit /\ k <= reach /\ (k # limit => k = reach)
  BY <1>5, <1>6, LeastOfTwo
<1> HIDE DEF k
<1>9. \A a \in address..address + k - 1 : HasCell("client", type, a)
  BY <1>3, <1>5, <1>8
<1>10. ~refused
  <2>1. ASSUME n = 0 PROVE Len(response.data) = 0
    <3>1. response.n = 0
      BY <1>4, <2>1
    <3>2. response.data \in [1..0 -> ValuesOf(AreaOf(response.fc))]
      BY <1>4, <3>1 DEF Copied
    <3>3. response.data = <<>>
      BY <3>2
    <3> QED BY <3>3
  <2>2. Ceil(0, 8) = 0
    BY DEF Ceil
  <2>3. n = 0 => ~refused
    BY <2>1, <2>2
  <2> QED BY <1>4, <2>3
<1> HIDE DEF refused
<1>11. Stored(memory', "client", type, address, k, response.data)
  <2>1. memory' = StoredCells("client", type, address, k, response.data)
    BY <1>2, <1>10
  <2>2. \A j \in 1..k : response.data[j] \in ValuesOf(type)
    BY <1>1, <1>3, <1>4, <1>5, <1>6, <1>8 DEF Copied
  <2>3. CellsTyped /\ "client" \in Sides /\ k \in Nat
    BY <1>5, <1>6, <1>8 DEF AreasInv, Sides
  <2> HIDE DEF type, address
  <2> QED BY <1>3, <1>9, <2>1, <2>2, <2>3, Storing
<1>12. CellsTyped'
  BY <1>11 DEF CellsTyped, Stored
<1>13. OnlyAddressedChange
  <2>1. address..address + k - 1 \subseteq Addressed(request)
    BY <1>3, <1>5, <1>6, <1>8 DEF Addressed
  <2> QED BY <1>1, <1>11, <2>1 DEF OnlyAddressedChange, Stored
<1>14. ASSUME unfound
       PROVE  /\ n # 0 /\ address + k \in Addressed(request)
              /\ Find("client", type, address + k) = 0
              /\ ~stuck => ~HasCell("client", type, address + k)
  BY <1>3, <1>5, <1>6, <1>8, <1>14 DEF Addressed
<1>15. ASSUME ~wrong, k = limit, NEW a \in Addressed(request)
       PROVE  /\ ~stuck /\ a \in address..address + k - 1
              /\ HasCell("client", type, a) /\ Find("client", type, a) # 0
  <2>1. n > 0
    BY <1>3 DEF Addressed
  <2>2. ~stuck /\ k = n
    BY <1>6, <1>15, <2>1
  <2>3. a \in address..address + k - 1
    BY <2>2 DEF Addressed
  <2> QED BY <1>9, <2>2, <2>3, CellTypes DEF Sides
<1>16. CASE wrong /\ Finish("INVALID_COMBINATION")
  <2>1. step' = "idle" /\ result' = "INVALID_COMBINATION" /\ UNCHANGED down
    BY <1>16 DEF Finish
  <2>2. stray' /\ ERROR_CODE' \in [Sides -> {NoError, "INVALID_COMBINATION"}]
        /\ ERROR_CODE'["client"] # NoError
    <3>1. CASE unfound
      <4>1. stray'
        BY <1>2, <1>14, <3>1 DEF Addressed
      <4>2. ERROR_CODE' = [ERROR_CODE EXCEPT !["client"] = "INVALID_COMBINATION"]
        BY <1>2, <1>10, <3>1
      <4> QED BY <4>1, <4>2 DEF AreasInv, ErrorsStray, Sides, NoError
    <3>2. CASE ~unfound
      <4>1. stuck /\ ERROR_CODE' = ERROR_CODE
        BY <1>2, <1>10, <1>16, <3>2
      <4> QED BY <1>2, <1>7, <4>1 DEF AreasInv, ErrorsStray, stuck
    <3> QED BY <3>1, <3>2
  <2>3. ErrorsStray'
    BY <2>1, <2>2 DEF AreasInv, ErrorsStray
  <2>4. AreasInv'
    BY <1>12, <2>1, <2>3 DEF AreasInv, RequestTyped, WritesCopied, Answered
  <2>5. TransferStep
    BY <1>1, <1>13, <2>1 DEF TransferStep, NoError
  <2>6. n # 0
    BY <1>3, <1>14, <1>16
  <2>7. stray \/ \E a \in Addressed(request) : ~HasCell("client", type, a)
    BY <1>7, <1>14, <1>16
  <2>8. ExactStep
    BY <1>1, <2>1, <2>6, <2>7 DEF ExactStep, NoError, Sides
  <2> QED BY <1>13, <2>4, <2>5, <2>8
<1>17. CASE ~wrong /\ k = limit /\ Finish(NoError)
  <2>1. step' = "idle" /\ result' = NoError /\ UNCHANGED down
    BY <1>17 DEF Finish
  <2>2. UNCHANGED <<stray, ERROR_CODE>>
    <3>1. ~ \E a \in Addressed(request) : Find("client", type, a) = 0
      BY <1>15, <1>17
    <3> QED BY <1>2, <1>7, <1>10, <1>17, <3>1 DEF Addressed
  <2>3. AreasInv'
    BY <1>12, <2>1, <2>2 DEF AreasInv, RequestTyped, WritesCopied, Answered, ErrorsStray
  <2>4. TransferStep
    <3> SUFFICES ASSUME NEW a \in Addressed(request)
                 PROVE  memory'["client"][Cell("client", type, a)] = served[Cell("server", type, a)]
      BY <1>1, <1>13, <2>1 DEF TransferStep
    <3>1. a \in address..address + k - 1
      BY <1>15, <1>17
    <3>2. memory'["client"][Cell("client", type, a)] = response.data[a - address + 1]
      BY <1>11, <3>1 DEF Stored
    <3>3. a \in Addressed(response)
      BY <1>4 DEF Addressed
    <3> QED BY <1>1, <1>4, <3>2, <3>3 DEF Copied
  <2>5. ExactStep
    <3> SUFFICES ASSUME n # 0
                 PROVE  /\ ~IsBit(request.fc) /\ ~stray
                        /\ \A a \in Addressed(request), side \in Sides : HasCell(side, type, a)
      BY <2>1 DEF ExactStep
    <3>1. ~IsBit(request.fc)
      BY <1>3, <1>4
    <3>2. address \in Addressed(request)
      BY <1>3 DEF Addressed
    <3>3. ~stray
      BY <1>7, <1>15, <1>17, <3>2
    <3>4. \A a \in Addressed(request) : HasCell("server", type, a)
      BY <1>1, <1>4 DEF Copied, Addressed
    <3> QED BY <1>15, <1>17, <3>1, <3>3, <3>4 DEF Sides
  <2> QED BY <1>13, <2>3, <2>4, <2>5
<1>18. CASE /\ ~wrong /\ k # limit /\ down' = down \cup {"client"}
            /\ UNCHANGED <<result, step, request, response, asked, served>>
  <2>1. ERROR_CODE' = ERROR_CODE /\ stray' \in BOOLEAN
    BY <1>2, <1>7, <1>10, <1>18
  <2>2. AreasInv'
    BY <1>12, <1>18, <2>1
       DEF AreasInv, RequestTyped, WritesCopied, Answered, ErrorsStray, Copied, Addressed, Sides
  <2>3. TransferStep /\ ExactStep
    BY <1>1, <1>13, <1>18 DEF TransferStep, ExactStep
  <2> QED BY <1>13, <2>2, <2>3
<1> QED BY <1>2, <1>10, <1>16, <1>17, <1>18

\* The data block written by a program stays one of its type.
LEMMA Writing ==
  ASSUME AreasInv, NEW side \in Sides, NEW c \in Cells(side), NEW v \in CellValues(side, c),
         ProgramWrites(side, c, v)
  PROVE  AreasInv' /\ UNCHANGED step /\ UNCHANGED <<request, response, asked, served>>
<1>1. /\ memory' = [memory EXCEPT ![side][c] = v]
      /\ UNCHANGED <<step, request, response, ERROR_CODE, down, asked, served, stray>>
  BY DEF ProgramWrites
<1>2. CellsTyped'
  BY <1>1 DEF AreasInv, CellsTyped
<1> QED BY <1>1, <1>2 DEF AreasInv, RequestTyped, WritesCopied, Answered, ErrorsStray

LEMMA AreasKept ==
  AreasInv /\ [AreasNext]_areaVars => AreasInv' /\ [TransferStep]_areaVars /\ [ExactStep]_areaVars
<1> SUFFICES ASSUME AreasInv, [AreasNext]_areaVars
             PROVE  AreasInv' /\ [TransferStep]_areaVars /\ [ExactStep]_areaVars
  OBVIOUS
<1>1. ASSUME Serve
      PROVE  AreasInv' /\ TransferStep /\ ExactStep /\ OnlyAddressedChange
  <2>1. step = "asked"
    BY <1>1 DEF Serve
  <2>2. CASE ServeRead
    BY <1>1, <2>1, <2>2, ServingReads DEF TransferStep, ExactStep
  <2>3. CASE ServeWrite
    BY <1>1, <2>1, <2>3, ServingWrites DEF ExactStep
  <2> QED BY <1>1, <2>2, <2>3 DEF Serve
<1>2. ASSUME Process
      PROVE  AreasInv' /\ TransferStep /\ ExactStep /\ OnlyAddressedChange
  BY <1>2, Refusing, AcceptingWrites, AcceptingReads DEF Process
<1>3. ASSUME UNCHANGED step PROVE (Serve \/ Process) \/ (TransferStep /\ ExactStep)
  BY <1>3 DEF TransferStep, ExactStep
<1>4. CASE Serve
  BY <1>1, <1>4
<1>5. CASE Process
  BY <1>2, <1>5
<1>6. ASSUME NEW side \in Sides, NEW c \in Cells(side), NEW v \in CellValues(side, c),
             ProgramWrites(side, c, v)
      PROVE  AreasInv' /\ TransferStep /\ ExactStep
  BY <1>1, <1>2, <1>3, <1>6, Writing
<1>7. ASSUME NEW dataType \in DataTypes, NEW write \in BOOLEAN, NEW address \in Addresses,
             NEW n \in Lengths, NEW single \in SingleWrites,
             Construct(dataType, write, address, n, single)
      PROVE  AreasInv' /\ TransferStep /\ ExactStep
  <2>1. AreasInv'
    BY <1>7, Constructing
  <2>2. step = "idle"
    BY <1>7 DEF Construct
  <2>3. ~Serve /\ ~Process
    BY <2>2 DEF Serve, Process
  <2> QED BY <2>1, <2>2, <2>3 DEF TransferStep, ExactStep
<1>8. CASE UNCHANGED areaVars
  <2>1. AreasInv'
    BY <1>8 DEF areaVars, AreasInv, CellsTyped, RequestTyped, WritesCopied, Answered, ErrorsStray,
                Copied, Addressed
  <2> QED BY <1>8, <2>1
<1> QED BY <1>4, <1>5, <1>6, <1>7, <1>8 DEF AreasNext

\* Bits stay bits and registers registers at both ends, a request carries what the
\* client held, a response what the server held, and an error is remembered
\* exactly if a response strayed: the inductive invariant of the exchange.
THEOREM AreasStayTyped == AreasSpec => []AreasInv
BY AreasInitially, AreasKept, PTL DEF AreasSpec

\* For any areas, addresses and limits: a successful exchange copies every addressed
\* cell as it was at one moment, whatever the programs write in between, and even
\* one that fails half way changes no cell but the addressed ones of the right
\* type on the side it writes to (modbus_master.py, modbus_slave.py).
THEOREM TransfersCopy == AreasSpec => TransferCopies
<1>1. AreasSpec => [][TransferStep]_areaVars
  BY AreasInitially, AreasKept, PTL DEF AreasSpec
<1> QED BY <1>1 DEF TransferCopies, TransferStep

\* When exactly an exchange succeeds, of any areas and requests: never for bits that
\* are read, never at an address without a field at one of the ends, and once a
\* read has strayed from the areas of the client never again for a register that
\* is read (ERROR_CODE of modbus_master.py is never reset).
THEOREM SuccessIsExact == AreasSpec => SucceedsExactlyWhen
<1>1. AreasSpec => [][ExactStep]_areaVars
  BY AreasInitially, AreasKept, PTL DEF AreasSpec
<1> QED BY <1>1 DEF SucceedsExactlyWhen, ExactStep

-----------------------------------------------------------------------------
(* The IEC timers.                                                         *)

\* What the clock shows at a time of the history.
Phase(t) == (Wrap - 1 + t) % Wrap

\* The clock goes on, and the difference of what it shows at two times is that
\* of the times while it is less than a turn.
LEMMA ClockTurns ==
  ASSUME NEW s \in Nat, NEW t \in Nat
  PROVE  /\ Phase(t) \in 0..Wrap - 1
         /\ (Phase(s) + t) % Wrap = Phase(s + t)
         /\ t < Wrap => (Phase(s + t) - Phase(s)) % Wrap = t
<1> DEFINE W == Wrap
           a == W - 1 + s
           b == W - 1 + (s + t)
           p == a \div W
           q == b \div W
<1>1. W \in Nat \ {0}
  BY IecTimerAssumption
<1> HIDE DEF W
<1>2. p \in Int /\ a % W \in 0..W - 1 /\ a = W * p + (a % W)
  BY <1>1
<1>3. q \in Int /\ b % W \in 0..W - 1 /\ b = W * q + (b % W)
  BY <1>1
<1>4. (W - 1 + t) % W \in 0..W - 1
  BY <1>1
<1>5. ((a % W) + t) % W = b % W
  <2>1. (a % W) + t = W * (q - p) + (b % W)
    <3>1. W * (q - p) = W * q - W * p
      BY <1>1, <1>2, <1>3
    <3> QED BY <1>1, <1>2, <1>3, <3>1
  <2>2. q - p \in Int
    BY <1>2, <1>3
  <2> HIDE DEF a, b, p, q
  <2> QED BY <1>1, <1>3, <2>1, <2>2, Quotient
<1>6. ASSUME t < W PROVE ((b % W) - (a % W)) % W = t
  <2> DEFINE x == a % W
             y == b % W
  <2>1. b = a + t
    BY <1>1
  <2>2. x \in Int /\ y \in Int /\ a = W * p + x /\ b = W * q + y
    BY <1>2, <1>3
  <2>3. a \in Int /\ b \in Int /\ W * p \in Int /\ W * q \in Int
    BY <1>1, <1>2, <1>3
  <2>4. p - q \in Int /\ t \in 0..W - 1
    BY <1>1, <1>2, <1>3, <1>6
  <2> HIDE DEF a, b, p, q, x, y
  <2>5. W * (p - q) = W * p - W * q
    BY <1>1, <1>2, <1>3
  <2>6. y - x = W * (p - q) + t
    BY <2>1, <2>2, <2>3, <2>5
  <2>7. (W * (p - q) + t) % W = t
    <3>1. PICK z \in Int : z = p - q
      BY <2>4
    <3>2. (W * z + t) % W = t
      BY <1>1, <2>4, Quotient
    <3> QED BY <3>1, <3>2
  <2> QED BY <2>6, <2>7 DEF x, y
<1> QED BY <1>4, <1>5, <1>6 DEF Phase, W

\* The history.
CallRecord == [In : {0, 1}, PT : PTs, time : Nat]
TimeOf(n) == IF n = 0 THEN 0 ELSE timerCalls[n].time
CallsMade == Len(timerCalls)

States == {"RUNNING", "FINISHED", "PREV_IN", "DELAYING"}
Instance == [In : {0, 1}, Q : {0, 1}, ET : Int, State : SUBSET States, STIME : Int]

IecTyped ==
    /\ timerBlock \in {"TP", "TON", "TOF"}
    /\ inst \in Instance
    /\ timerCalls \in Seq(CallRecord)
    /\ \A i, j \in 1..CallsMade : i <= j => timerCalls[i].time <= timerCalls[j].time
    /\ ATIME = Phase(TimeOf(CallsMade))

\* The timer has been running since call s.
RunsSince(s) ==
    /\ s \in 1..CallsMade /\ inst.STIME = Phase(timerCalls[s].time)
    /\ Legal(s, CallsMade) /\ \A j \in s..CallsMade : ~Past(s, j)
    /\ inst.ET = timerCalls[CallsMade].time - timerCalls[s].time

OthersOver(pulses, s) == \A r \in pulses \ {s} : Legal(r, CallsMade) => PulseOver(r, CallsMade)

PulseInv ==
    \E pulses \in SUBSET (1..CallsMade) :
       /\ PulseStarts(pulses)
       /\ \/ /\ inst.State = {} /\ inst.Q = 0
             /\ \A r \in pulses : Legal(r, CallsMade) => PulseOver(r, CallsMade)
          \/ /\ inst.State = {"RUNNING"} /\ inst.Q = 1
             /\ \E s \in pulses : RunsSince(s) /\ OthersOver(pulses, s)
          \/ /\ inst.State = {"FINISHED"} /\ inst.Q = 0
             /\ \E s \in pulses : /\ OthersOver(pulses, s) /\ Legal(s, CallsMade)
                             /\ ~PulseOver(s, CallsMade)
                             /\ \E j \in s..CallsMade : Past(s, j)

\* Since call i and no longer, IN has been 1 and PT legal.
OnSince(i) ==
    /\ i \in 1..CallsMade /\ Legal(i, CallsMade)
    /\ \A k \in i..CallsMade : timerCalls[k].In = 1
    /\ i = 1 \/ timerCalls[i - 1].In = 0 \/ timerCalls[i - 1].PT <= 0

OnDelayInv ==
    \/ /\ inst.State = {} /\ inst.Q = 0
       /\ CallsMade # 0 => timerCalls[CallsMade].In = 0 \/ timerCalls[CallsMade].PT <= 0
    \/ /\ inst.State = {"RUNNING"} /\ inst.Q = 0
       /\ \E i \in 1..CallsMade : OnSince(i) /\ RunsSince(i)
    \/ /\ inst.State = {"FINISHED"} /\ inst.Q = 1
       /\ \E i \in 1..CallsMade : OnSince(i) /\ \E j \in i..CallsMade : Past(i, j)

\* IN went to 0 after call i.
OffAfter(i) ==
    /\ i \in 1..CallsMade /\ timerCalls[i].In = 1 /\ Legal(i, CallsMade)
    /\ \A j \in i + 1..CallsMade : timerCalls[j].In = 0

OffDelayInv ==
    \/ /\ inst.State = {} /\ inst.Q = 0
       /\ \A i \in 1..CallsMade : OffAfter(i) => \E j \in i + 1..CallsMade : Past(i + 1, j)
    \/ /\ inst.State = {"PREV_IN"} /\ inst.Q = 1
       /\ CallsMade # 0 /\ OffAfter(CallsMade)
    \/ /\ inst.State = {"DELAYING"} /\ inst.Q = 1
       /\ \E i \in 1..CallsMade : OffAfter(i) /\ i < CallsMade /\ RunsSince(i + 1)

IecInv ==
    /\ IecTyped
    /\ timerBlock = "TP" => PulseInv
    /\ timerBlock = "TON" => OnDelayInv
    /\ timerBlock = "TOF" => OffDelayInv

\* A call adds to the history: what was said of the calls before stays true.
LEMMA HistoryGrows ==
  ASSUME IecTyped, NEW c \in CallRecord, timerCalls' = Append(timerCalls, c),
         NEW n, n = CallsMade
  PROVE  /\ n \in Nat /\ CallsMade' = n + 1 /\ timerCalls'[n + 1] = c
         /\ \A i \in 1..n : timerCalls'[i] = timerCalls[i] /\ timerCalls[i] \in CallRecord
         /\ \A i, j \in 1..n : (Legal(i, j)' <=> Legal(i, j)) /\ (Past(i, j)' <=> Past(i, j))
         /\ \A i \in 1..n + 1 : Legal(i, n + 1)' <=> c.PT > 0 /\ (i = n + 1 \/ Legal(i, n))
         /\ \A i \in 1..n : Past(i, n + 1)' <=> c.time - timerCalls[i].time >= c.PT
         /\ Past(n + 1, n + 1)' <=> 0 >= c.PT
<1>1. /\ n \in Nat /\ CallsMade' = n + 1 /\ timerCalls'[n + 1] = c
      /\ \A i \in 1..n : timerCalls'[i] = timerCalls[i] /\ timerCalls[i] \in CallRecord
  BY DEF IecTyped, CallsMade
<1>2. c.PT \in Int /\ c.time \in Int
  <2>1. c.PT \in PTs /\ c.time \in Nat
    BY DEF CallRecord
  <2>2. PTs \subseteq Int
    BY IecTimerAssumption
  <2>3. c.PT \in Int
    BY <2>1, <2>2, Zenon
  <2> QED BY <2>1, <2>3
<1>3. ASSUME NEW i \in 1..n, NEW j \in 1..n
      PROVE  (Legal(i, j)' <=> Legal(i, j)) /\ (Past(i, j)' <=> Past(i, j))
  <2>1. i..j \subseteq 1..n
    BY <1>1
  <2> QED BY <1>1, <2>1 DEF Legal, Past
<1>4. ASSUME NEW i \in 1..n + 1
      PROVE  Legal(i, n + 1)' <=> c.PT > 0 /\ (i = n + 1 \/ Legal(i, n))
  <2>1. i..n + 1 = (i..n) \cup {n + 1} /\ i..n \subseteq 1..n
    BY <1>1
  <2>2. i = n + 1 => i..n = {}
    BY <1>1
  <2> QED BY <1>1, <2>1, <2>2 DEF Legal
<1>5. ASSUME NEW i \in 1..n PROVE Past(i, n + 1)' <=> c.time - timerCalls[i].time >= c.PT
  BY <1>1, <1>5 DEF Past
<1>6. Past(n + 1, n + 1)' <=> 0 >= c.PT
  BY <1>1, <1>2 DEF Past
<1> QED BY <1>1, <1>3, <1>4, <1>5, <1>6

\* The pulse of a call is over once it is past and IN was 0 then or later.
LEMMA OverGrows ==
  ASSUME IecTyped, NEW c \in CallRecord, timerCalls' = Append(timerCalls, c),
         NEW n, n = CallsMade
  PROVE  /\ \A s, j \in 1..n : PulseOver(s, j)' <=> PulseOver(s, j)
         /\ \A s \in 1..n :
              PulseOver(s, n + 1)' <=>
                \/ PulseOver(s, n)
                \/ c.In = 0 /\ (Past(s, n + 1)' \/ \E j \in s..n : Past(s, j))
<1>1. /\ n \in Nat /\ timerCalls'[n + 1] = c
      /\ \A i \in 1..n : timerCalls'[i] = timerCalls[i]
      /\ \A i, j \in 1..n : Past(i, j)' <=> Past(i, j)
  BY HistoryGrows
<1>2. ASSUME NEW s \in 1..n, NEW m \in 1..n PROVE PulseOver(s, m)' <=> PulseOver(s, m)
  <2>1. s..m \subseteq 1..n /\ \A j \in s..m : j..m \subseteq 1..n
    BY <1>1
  <2> QED BY <1>1, <2>1 DEF PulseOver
<1>3. ASSUME NEW s \in 1..n
      PROVE  PulseOver(s, n + 1)' <=>
               \/ PulseOver(s, n)
               \/ c.In = 0 /\ (Past(s, n + 1)' \/ \E j \in s..n : Past(s, j))
  <2>1. s..n + 1 = (s..n) \cup {n + 1} /\ s..n \subseteq 1..n
    BY <1>1
  <2>2. \A j \in s..n : j..n + 1 = (j..n) \cup {n + 1} /\ j..n \subseteq 1..n
    BY <1>1
  <2>3. n + 1..n + 1 = {n + 1}
    BY <1>1
  <2>4. PulseOver(s, n + 1)' <=>
          \/ \E j \in s..n : Past(s, j)' /\ \E k \in j..n + 1 : timerCalls'[k].In = 0
          \/ Past(s, n + 1)' /\ c.In = 0
    BY <1>1, <2>1, <2>3, ZenonT(60) DEF PulseOver
  <2>5. \A j \in s..n : (\E k \in j..n + 1 : timerCalls'[k].In = 0) <=>
                        (c.In = 0 \/ \E k \in j..n : timerCalls[k].In = 0)
    BY <1>1, <2>2, ZenonT(60)
  <2> QED BY <1>1, <2>1, <2>4, <2>5 DEF PulseOver
<1> QED BY <1>2, <1>3

\* The starts of the history so far are those of the longer one, with the new
\* call if it starts a pulse.
LEMMA StartsGrow ==
  ASSUME IecTyped, NEW c \in CallRecord, timerCalls' = Append(timerCalls, c),
         NEW n, n = CallsMade, NEW pulses \in SUBSET (1..n), PulseStarts(pulses)
  PROVE  LET starts == /\ c.In = 1 /\ c.PT > 0
                       /\ \A s \in pulses : Legal(s, n) => PulseOver(s, n)
         IN  /\ starts => PulseStarts(pulses \cup {n + 1})'
             /\ ~starts => PulseStarts(pulses)'
<1> DEFINE starts == /\ c.In = 1 /\ c.PT > 0
                     /\ \A s \in pulses : Legal(s, n) => PulseOver(s, n)
           found(i, more) == /\ timerCalls[i].In = 1 /\ timerCalls[i].PT > 0
                          /\ \A s \in more : s < i /\ Legal(s, i) => PulseOver(s, i - 1)
           found2(i, more) == /\ timerCalls'[i].In = 1 /\ timerCalls'[i].PT > 0
                           /\ \A s \in more : s < i /\ Legal(s, i)' => PulseOver(s, i - 1)'
<1>1. /\ n \in Nat /\ CallsMade' = n + 1 /\ timerCalls'[n + 1] = c
      /\ \A i \in 1..n : timerCalls'[i] = timerCalls[i]
      /\ \A i, j \in 1..n : Legal(i, j)' <=> Legal(i, j)
      /\ \A i \in 1..n : Legal(i, n + 1)' <=> c.PT > 0 /\ Legal(i, n)
      /\ \A i, j \in 1..n : PulseOver(i, j)' <=> PulseOver(i, j)
  <2>1. \A i \in 1..n : i \in 1..n + 1 /\ i # n + 1
    BY HistoryGrows
  <2> QED BY <2>1, HistoryGrows, OverGrows
<1>2. \A i \in 1..n : i \in pulses <=> found(i, pulses)
  BY DEF PulseStarts, CallsMade
<1>3. \A more : PulseStarts(more)' <=> \A i \in 1..n + 1 : i \in more <=> found2(i, more)
  BY <1>1 DEF PulseStarts, CallsMade
<1>4. pulses \subseteq 1..n /\ pulses \in SUBSET Int
  BY <1>1
<1>5. ASSUME NEW i \in 1..n, NEW more, more = pulses \/ more = pulses \cup {n + 1}
      PROVE  found2(i, more) <=> found(i, pulses)
  <2>1. \A s \in pulses : s < i => s \in 1..n /\ i - 1 \in 1..n
    BY <1>1, <1>4
  <2>2. ~(n + 1 < i)
    BY <1>1
  <2>3. \A s : (s \in more /\ s < i) <=> (s \in pulses /\ s < i)
    BY <1>5, <2>2
  <2>4. \A s \in pulses : s < i => ((Legal(s, i)' => PulseOver(s, i - 1)') <=> (Legal(s, i) => PulseOver(s, i - 1)))
    BY <1>1, <2>1
  <2>5. (\A s \in more : s < i /\ Legal(s, i)' => PulseOver(s, i - 1)')
          <=> (\A s \in pulses : s < i /\ Legal(s, i) => PulseOver(s, i - 1))
    BY <2>3, <2>4
  <2> QED BY <1>1, <2>5
<1>6. ASSUME NEW more, more = pulses \/ more = pulses \cup {n + 1}
      PROVE  found2(n + 1, more) <=> starts
  <2>1. \A s \in pulses : s < n + 1 /\ n + 1 - 1 = n /\ s \in 1..n /\ n \in 1..n
    BY <1>1, <1>4
  <2>2. ~(n + 1 < n + 1)
    BY <1>1
  <2>3. \A s : (s \in more /\ s < n + 1) <=> s \in pulses
    BY <1>6, <2>1, <2>2
  <2>4. \A s \in pulses : (Legal(s, n + 1)' <=> c.PT > 0 /\ Legal(s, n))
                     /\ (PulseOver(s, n + 1 - 1)' <=> PulseOver(s, n))
    <3>1. \A s : PulseOver(s, n + 1 - 1)' <=> PulseOver(s, n)'
      <4>1. n + 1 - 1 = n
        BY <1>1
      <4> QED BY <4>1 DEF PulseOver, Past
    <3>2. \A s \in pulses : PulseOver(s, n)' <=> PulseOver(s, n)
      BY <1>1, <2>1
    <3> QED BY <1>1, <2>1, <3>1, <3>2
  <2>5. ASSUME c.PT > 0
        PROVE  (\A s \in more : s < n + 1 /\ Legal(s, n + 1)' => PulseOver(s, n + 1 - 1)')
                 <=> (\A s \in pulses : Legal(s, n) => PulseOver(s, n))
    BY <2>3, <2>4, <2>5
  <2> QED BY <1>1, <2>5
<1> HIDE DEF found, found2, starts
<1>7. n + 1 \notin pulses
  BY <1>1, <1>4
<1>8. \A i \in 1..n + 1 : i \in 1..n \/ i = n + 1
  BY <1>1
<1>9. ASSUME starts PROVE PulseStarts(pulses \cup {n + 1})'
  <2>1. PICK more : more = pulses \cup {n + 1}
    OBVIOUS
  <2>2. \A i \in 1..n + 1 : i \in more <=> found2(i, more)
    BY <1>1, <1>2, <1>5, <1>6, <1>8, <1>9, <2>1
  <2>3. PulseStarts(more)'
    BY <1>3, <2>2
  <2> QED BY <2>1, <2>3 DEF PulseStarts
<1>10. ASSUME ~starts PROVE PulseStarts(pulses)'
  <2>1. \A i \in 1..n + 1 : i \in pulses <=> found2(i, pulses)
    BY <1>1, <1>2, <1>5, <1>6, <1>7, <1>8, <1>10
  <2> QED BY <1>3, <2>1
<1> QED BY <1>9, <1>10 DEF starts

\* What a call adds to the history, and what the clock shows then.
LEMMA CallMade ==
  ASSUME IecTyped, NEW In \in {0, 1}, NEW PT \in PTs, NEW gap \in Gaps, TimerCall(In, PT, gap),
         NEW n, n = CallsMade, NEW c, c = [In |-> In, PT |-> PT, time |-> TimeOf(n) + gap]
  PROVE  /\ c \in CallRecord /\ timerCalls' = Append(timerCalls, c)
         /\ ATIME' = Phase(c.time) /\ UNCHANGED timerBlock
         /\ \A i \in 1..n : timerCalls[i].time <= TimeOf(n) /\ timerCalls[i].time \in Nat
         /\ TimeOf(n) \in Nat /\ gap \in Nat /\ n \in Nat
         /\ n # 0 => TimeOf(n) = timerCalls[n].time /\ timerCalls[n].PT \in PTs
<1>1. n \in Nat /\ \A i \in 1..n : timerCalls[i] \in CallRecord
  BY DEF IecTyped, CallsMade
<1>2. gap \in Nat
  BY IecTimerAssumption
<1>3. \A i \in 1..n : timerCalls[i].time \in Nat /\ timerCalls[i].PT \in PTs
  BY <1>1 DEF CallRecord
<1>4. n # 0 => n \in 1..n
  BY <1>1
<1>5. TimeOf(n) \in Nat
  BY <1>3, <1>4 DEF TimeOf
<1>6. \A i \in 1..n : timerCalls[i].time <= TimeOf(n)
  <2>1. \A i \in 1..n : i <= n /\ n # 0
    BY <1>1
  <2> QED BY <1>4, <2>1 DEF IecTyped, TimeOf
<1>7. c \in CallRecord
  <2>1. TimeOf(n) + gap \in Nat
    BY <1>2, <1>5
  <2> QED BY <2>1 DEF CallRecord
<1>8. timerCalls' = Append(timerCalls, c) /\ UNCHANGED timerBlock
  <2>1. (IF timerCalls = <<>> THEN 0 ELSE Last(timerCalls).time) = TimeOf(n)
    BY <1>1 DEF IecTyped, CallsMade, TimeOf, Last
  <2> QED BY <2>1 DEF TimerCall
<1>9. ATIME' = Phase(c.time)
  <2>1. ATIME' = (Phase(TimeOf(n)) + gap) % Wrap
    BY DEF TimerCall, IecTyped
  <2> QED BY <1>2, <1>5, <2>1, ClockTurns
<1> QED BY <1>1, <1>2, <1>3, <1>4, <1>5, <1>6, <1>7, <1>8, <1>9 DEF TimeOf

\* The time of a running timer is that of the history, wherever the clock wraps.
LEMMA TimeElapsed ==
  ASSUME IecTyped, NEW In \in {0, 1}, NEW PT \in PTs, NEW gap \in Gaps, TimerCall(In, PT, gap),
         NEW n, n = CallsMade, NEW c, c = [In |-> In, PT |-> PT, time |-> TimeOf(n) + gap],
         NEW s, RunsSince(s)
  PROVE  /\ (ATIME' - inst.STIME) % Wrap = c.time - timerCalls[s].time
         /\ c.time - timerCalls[s].time \in Nat
<1>1. s \in 1..n /\ inst.STIME = Phase(timerCalls[s].time) /\ ~Past(s, n)
  <2>1. n \in s..n
    BY CallMade DEF RunsSince
  <2> QED BY <2>1 DEF RunsSince
<1>2. /\ n \in Nat /\ n # 0 /\ TimeOf(n) \in Nat /\ gap \in Nat
      /\ timerCalls[s].time <= TimeOf(n) /\ timerCalls[s].time \in Nat
      /\ TimeOf(n) = timerCalls[n].time /\ timerCalls[n].PT \in PTs
      /\ ATIME' = Phase(c.time) /\ c.time = TimeOf(n) + gap
  BY <1>1, CallMade
<1>3. timerCalls[n].PT \in Int /\ timerCalls[n].PT + gap <= Wrap /\ Wrap \in Nat
  BY <1>2, IecTimerAssumption
<1>4. TimeOf(n) - timerCalls[s].time < timerCalls[n].PT
  BY <1>1, <1>2, <1>3 DEF Past
<1>5. PICK e \in Nat : e = c.time - timerCalls[s].time
  BY <1>2
<1>6. e < Wrap /\ c.time = timerCalls[s].time + e
  BY <1>2, <1>3, <1>4, <1>5
<1>7. (Phase(timerCalls[s].time + e) - Phase(timerCalls[s].time)) % Wrap = e
  BY <1>2, <1>6, ClockTurns
<1> QED BY <1>1, <1>2, <1>5, <1>6, <1>7

\* What the actions of a block change.
LEMMA StartsOnlyIdle ==
  ASSUME NEW d \in Instance, NEW moment \in Int, NEW r, r = StartIfIdle(d, moment)
  PROVE  /\ r \in Instance /\ r.In = d.In /\ r.Q = d.Q /\ r.ET = d.ET
         /\ d.In = 1 /\ d.State = {} => r.State = {"RUNNING"} /\ r.STIME = moment
         /\ ~(d.In = 1 /\ d.State = {}) => r = d
<1>1. {"RUNNING"} \in SUBSET States
  BY DEF States
<1> HIDE DEF States
<1> QED BY <1>1 DEF Instance, StartIfIdle

LEMMA ProceedsRunning ==
  ASSUME NEW d \in Instance, NEW moment \in Int, NEW PT \in Int,
         NEW bit \in {"RUNNING", "DELAYING"}, NEW fin \in {{}, {"FINISHED"}},
         NEW during \in {0, 1}, NEW after \in {0, 1}, NEW e \in Int, e = Elapsed(d, moment),
         NEW r, r = Proceed(d, PT, moment, bit, fin, during, after)
  PROVE  /\ r \in Instance /\ r.In = d.In /\ r.STIME = d.STIME
         /\ bit \notin d.State => r = d
         /\ d.State = {bit} /\ e < PT => r.State = d.State /\ r.Q = during /\ r.ET = e
         /\ d.State = {bit} /\ e >= PT => r.State = fin /\ r.Q = after /\ r.ET = PT
<1> DEFINE z == (d.State \ {bit}) \cup fin
<1>1. z \in SUBSET States /\ d.State \in SUBSET States
  <2>1. d.State \in SUBSET States
    BY DEF Instance
  <2>2. fin \in SUBSET States
    BY DEF States
  <2> QED BY <2>1, <2>2
<1>2. d.State = {bit} => z = fin /\ bit \in d.State
  BY Zenon
<1>3. r = IF bit \notin d.State THEN d
          ELSE IF e >= PT THEN [d EXCEPT !.ET = PT, !.Q = after, !.State = z]
          ELSE [d EXCEPT !.ET = e, !.Q = during]
  BY DEF Proceed
<1> HIDE DEF States, z
<1>4. CASE bit \notin d.State
  BY <1>2, <1>3, <1>4
<1>5. CASE bit \in d.State /\ e >= PT
  <2>1. r = [d EXCEPT !.ET = PT, !.Q = after, !.State = z] /\ ~(e < PT)
    BY <1>3, <1>5
  <2> QED BY <1>1, <1>2, <1>5, <2>1 DEF Instance
<1>6. CASE bit \in d.State /\ ~(e >= PT)
  <2>1. r = [d EXCEPT !.ET = e, !.Q = during]
    BY <1>3, <1>6
  <2> QED BY <1>1, <1>2, <1>6, <2>1 DEF Instance
<1> QED BY <1>4, <1>5, <1>6

LEMMA IdleStarts ==
  ASSUME NEW d \in Instance, NEW moment \in Int
  PROVE  Elapsed(d, moment) \in Int /\ (d.STIME = moment => Elapsed(d, moment) = 0)
<1>1. Wrap \in Nat \ {0} /\ moment - moment = 0 /\ d.STIME \in Int
  BY IecTimerAssumption DEF Instance
<1>2. (moment - d.STIME) % Wrap \in Int
  BY <1>1
<1>3. (moment - moment) % Wrap = 0
  BY <1>1
<1> QED BY <1>1, <1>2, <1>3 DEF Elapsed

\* What TP does in each of its states.
LEMMA PulseCall ==
  ASSUME NEW d \in Instance, NEW moment \in Int, NEW PT \in Int, PT > 0,
         NEW e, e = Elapsed(d, moment), NEW r, r = RunTP(d, PT, moment)
  PROVE  /\ r \in Instance
         /\ d.State = {} =>
              IF d.In = 0 THEN r = d
              ELSE r.State = {"RUNNING"} /\ r.Q = 1 /\ r.ET = 0 /\ r.STIME = moment
         /\ d.State = {"RUNNING"} =>
              IF e < PT THEN r.State = {"RUNNING"} /\ r.Q = 1 /\ r.ET = e /\ r.STIME = d.STIME
              ELSE r.Q = 0 /\ r.State = IF d.In = 1 THEN {"FINISHED"} ELSE {}
         /\ d.State = {"FINISHED"} =>
              r.Q = d.Q /\ r.State = IF d.In = 1 THEN {"FINISHED"} ELSE {}
<1> DEFINE s == StartIfIdle(d, moment)
           f == Elapsed(s, moment)
           p == Proceed(s, PT, moment, "RUNNING", {"FINISHED"}, 1, 0)
<1>0. {"RUNNING"} # {"FINISHED"} /\ {"RUNNING"} # {} /\ {"FINISHED"} # {}
      /\ "RUNNING" \notin {} /\ "RUNNING" \notin {"FINISHED"} /\ "FINISHED" \notin {"RUNNING"}
      /\ "FINISHED" \in {"FINISHED"} /\ "FINISHED" \notin {} /\ "RUNNING" \in {"RUNNING"}
  OBVIOUS
<1> HIDE DEF s, f, p
<1>a. f = Elapsed(s, moment) /\ p = Proceed(s, PT, moment, "RUNNING", {"FINISHED"}, 1, 0)
  BY DEF f, p
<1>b. s = StartIfIdle(d, moment)
  BY DEF s
<1>1. /\ s \in Instance /\ s.In = d.In /\ s.Q = d.Q /\ s.ET = d.ET
      /\ d.In = 1 /\ d.State = {} => s.State = {"RUNNING"} /\ s.STIME = moment
      /\ ~(d.In = 1 /\ d.State = {}) => s = d
  <2>1. s \in Instance /\ s.In = d.In /\ s.Q = d.Q /\ s.ET = d.ET
    BY <1>b, StartsOnlyIdle, SMTT(60)
  <2>2. d.In = 1 /\ d.State = {} => s.STIME = moment
    BY <1>b, StartsOnlyIdle
  <2>4. d.In = 1 /\ d.State = {} => s.State = {"RUNNING"}
    <3>1. d.In = 1 /\ d.State = {} => s = [d EXCEPT !.STIME = moment, !.State = {"RUNNING"}]
      BY <1>b DEF StartIfIdle
    <3> QED BY <3>1 DEF Instance
  <2>3. ~(d.In = 1 /\ d.State = {}) => s = d
    BY <1>b, StartsOnlyIdle
  <2> QED BY <2>1, <2>2, <2>3, <2>4
<1>2. f \in Int /\ (s.STIME = moment => f = 0)
  BY <1>1, <1>a, IdleStarts
<1>3. /\ p \in Instance /\ p.In = s.In /\ p.STIME = s.STIME
      /\ "RUNNING" \notin s.State => p = s
      /\ s.State = {"RUNNING"} /\ f < PT => p.State = s.State /\ p.Q = 1 /\ p.ET = f
      /\ s.State = {"RUNNING"} /\ f >= PT => p.State = {"FINISHED"} /\ p.Q = 0 /\ p.ET = PT
  BY <1>1, <1>2, <1>a, ProceedsRunning
<1>4. r = IF d.In = 0 /\ "FINISHED" \in p.State
          THEN [p EXCEPT !.State = p.State \ {"FINISHED"}, !.ET = 0] ELSE p
  BY <1>a, <1>b DEF RunTP
<1> DEFINE z == p.State \ {"FINISHED"}
<1>5. /\ z \in SUBSET States
      /\ p.State = {"FINISHED"} => z = {}
  BY <1>3 DEF Instance
<1>6. r = IF d.In = 0 /\ "FINISHED" \in p.State THEN [p EXCEPT !.State = z, !.ET = 0] ELSE p
  BY <1>4
<1> HIDE DEF z, States
<1>7. /\ r \in Instance
      /\ d.In = 0 /\ "FINISHED" \in p.State => r.State = z /\ r.ET = 0 /\ r.Q = p.Q /\ r.STIME = p.STIME
      /\ ~(d.In = 0 /\ "FINISHED" \in p.State) => r = p
  <2>1. CASE d.In = 0 /\ "FINISHED" \in p.State
    <3>1. r = [p EXCEPT !.State = z, !.ET = 0]
      BY <1>6, <2>1
    <3>2. p \in [In : {0, 1}, Q : {0, 1}, ET : Int, State : SUBSET States, STIME : Int]
      BY <1>3 DEF Instance
    <3>3. r \in Instance
      <4>1. r = [In |-> p.In, Q |-> p.Q, ET |-> 0, State |-> z, STIME |-> p.STIME]
        BY <3>1, <3>2
      <4> QED BY <1>5, <3>2, <4>1 DEF Instance
    <3>4. r.State = z /\ r.ET = 0 /\ r.Q = p.Q /\ r.STIME = p.STIME
      BY <3>1, <3>2
    <3> QED BY <2>1, <3>3, <3>4
  <2>2. CASE ~(d.In = 0 /\ "FINISHED" \in p.State)
    BY <1>3, <1>6, <2>2
  <2> QED BY <2>1, <2>2
<1>8. d.In \in {0, 1}
  BY DEF Instance
<1>9. s = d => f = e
  BY <1>a, <1>b
<1>10. ASSUME d.State = {}
       PROVE  IF d.In = 0 THEN r = d
              ELSE r.State = {"RUNNING"} /\ r.Q = 1 /\ r.ET = 0 /\ r.STIME = moment
  <2>1. d.In = 1 => f < PT
    BY <1>1, <1>2, <1>10
  <2>2. d.In = 0 => s = d /\ p = s
    BY <1>0, <1>1, <1>3, <1>10
  <2> QED BY <1>0, <1>1, <1>2, <1>3, <1>7, <1>8, <1>10, <2>1, <2>2
<1>11. ASSUME d.State = {"RUNNING"}
       PROVE  IF e < PT THEN r.State = {"RUNNING"} /\ r.Q = 1 /\ r.ET = e /\ r.STIME = d.STIME
              ELSE r.Q = 0 /\ r.State = IF d.In = 1 THEN {"FINISHED"} ELSE {}
  <2>1. s = d /\ f = e
    BY <1>0, <1>1, <1>9, <1>11
  <2> HIDE DEF Instance
  <2>2. CASE e < PT
    BY <1>0, <1>3, <1>7, <1>11, <2>1, <2>2
  <2>3. CASE ~(e < PT)
    <3>1. p.State = {"FINISHED"} /\ p.Q = 0
      BY <1>2, <1>3, <1>11, <2>1, <2>3
    <3> QED BY <1>0, <1>5, <1>7, <1>8, <2>3, <3>1
  <2> QED BY <2>2, <2>3
<1>12. ASSUME d.State = {"FINISHED"}
       PROVE  r.Q = d.Q /\ r.State = IF d.In = 1 THEN {"FINISHED"} ELSE {}
  <2>1. s = d /\ p = d
    BY <1>0, <1>1, <1>3, <1>12
  <2> QED BY <1>0, <1>5, <1>7, <1>8, <1>12, <2>1
<1> QED BY <1>7, <1>10, <1>11, <1>12

\* What TON does in each of its states.
LEMMA OnDelayCall ==
  ASSUME NEW d \in Instance, NEW moment \in Int, NEW PT \in Int, PT > 0,
         NEW e, e = Elapsed(d, moment), NEW r, r = RunTON(d, PT, moment)
  PROVE  /\ r \in Instance
         /\ d.In = 0 => r.State = {} /\ r.Q = 0
         /\ d.In = 1 /\ d.State = {} =>
              r.State = {"RUNNING"} /\ r.Q = 0 /\ r.ET = 0 /\ r.STIME = moment
         /\ d.In = 1 /\ d.State = {"RUNNING"} =>
              IF e < PT THEN r.State = {"RUNNING"} /\ r.Q = 0 /\ r.ET = e /\ r.STIME = d.STIME
              ELSE r.State = {"FINISHED"} /\ r.Q = 1
         /\ d.In = 1 /\ d.State = {"FINISHED"} => r.State = {"FINISHED"} /\ r.Q = d.Q
<1> DEFINE s == StartIfIdle(d, moment)
           f == Elapsed(s, moment)
           p == Proceed(s, PT, moment, "RUNNING", {"FINISHED"}, 0, 1)
<1>0. {"RUNNING"} # {"FINISHED"} /\ {"RUNNING"} # {} /\ {"FINISHED"} # {}
      /\ "RUNNING" \notin {"FINISHED"}
  OBVIOUS
<1> HIDE DEF s, f, p
<1>a. f = Elapsed(s, moment) /\ p = Proceed(s, PT, moment, "RUNNING", {"FINISHED"}, 0, 1)
  BY DEF f, p
<1>b. s = StartIfIdle(d, moment)
  BY DEF s
<1>1. /\ s \in Instance /\ s.In = d.In /\ s.Q = d.Q /\ s.ET = d.ET
      /\ d.In = 1 /\ d.State = {} => s.State = {"RUNNING"} /\ s.STIME = moment
      /\ ~(d.In = 1 /\ d.State = {}) => s = d
  <2>1. s \in Instance /\ s.In = d.In /\ s.Q = d.Q /\ s.ET = d.ET
    BY <1>b, StartsOnlyIdle
  <2>2. d.In = 1 /\ d.State = {} => s.STIME = moment
    BY <1>b, StartsOnlyIdle
  <2>3. d.In = 1 /\ d.State = {} => s.State = {"RUNNING"}
    <3>1. d.In = 1 /\ d.State = {} => s = [d EXCEPT !.STIME = moment, !.State = {"RUNNING"}]
      BY <1>b DEF StartIfIdle
    <3> QED BY <3>1 DEF Instance
  <2>4. ~(d.In = 1 /\ d.State = {}) => s = d
    BY <1>b, StartsOnlyIdle
  <2> QED BY <2>1, <2>2, <2>3, <2>4
<1>2. f \in Int /\ (s.STIME = moment => f = 0)
  BY <1>1, <1>a, IdleStarts
<1>3. /\ p \in Instance /\ p.In = s.In /\ p.STIME = s.STIME
      /\ "RUNNING" \notin s.State => p = s
      /\ s.State = {"RUNNING"} /\ f < PT => p.State = s.State /\ p.Q = 0 /\ p.ET = f
      /\ s.State = {"RUNNING"} /\ f >= PT => p.State = {"FINISHED"} /\ p.Q = 1 /\ p.ET = PT
  BY <1>1, <1>2, <1>a, ProceedsRunning
<1>4. s = d => f = e
  BY <1>a, <1>b
<1>5. CASE d.In = 0
  <2>1. r = [d EXCEPT !.State = {}, !.ET = 0, !.Q = 0]
    BY <1>5 DEF RunTON
  <2>2. r = [In |-> d.In, Q |-> 0, ET |-> 0, State |-> {}, STIME |-> d.STIME]
    BY <2>1 DEF Instance
  <2>3. r \in Instance
    BY <2>2 DEF Instance
  <2> QED BY <1>5, <2>2, <2>3
<1>6. CASE d.In = 1
  <2>1. r = p
    BY <1>6, <1>a, <1>b DEF RunTON
  <2>2. ASSUME d.State = {}
        PROVE  r.State = {"RUNNING"} /\ r.Q = 0 /\ r.ET = 0 /\ r.STIME = moment
    BY <1>1, <1>2, <1>3, <1>6, <2>1, <2>2
  <2>3. ASSUME d.State = {"RUNNING"}
        PROVE  IF e < PT THEN r.State = {"RUNNING"} /\ r.Q = 0 /\ r.ET = e /\ r.STIME = d.STIME
               ELSE r.State = {"FINISHED"} /\ r.Q = 1
    <3>1. s = d /\ f = e
      BY <1>0, <1>1, <1>4, <2>3
    <3> QED BY <1>2, <1>3, <2>1, <2>3, <3>1
  <2>4. ASSUME d.State = {"FINISHED"} PROVE r.State = {"FINISHED"} /\ r.Q = d.Q
    <3>1. s = d /\ p = d
      BY <1>0, <1>1, <1>3, <2>4
    <3> QED BY <2>1, <2>4, <3>1
  <2> QED BY <1>3, <1>6, <2>1, <2>2, <2>3, <2>4
<1>7. d.In \in {0, 1}
  BY DEF Instance
<1> QED BY <1>5, <1>6, <1>7

\* What TOF does in each of its states.
LEMMA OffDelayCall ==
  ASSUME NEW d \in Instance, NEW moment \in Int, NEW PT \in Int, PT > 0,
         NEW e, e = Elapsed(d, moment), NEW r, r = RunTOF(d, PT, moment)
  PROVE  /\ r \in Instance
         /\ d.In = 1 => r.State = {"PREV_IN"} /\ r.Q = 1
         /\ d.In = 0 /\ d.State = {} => r.State = {} /\ r.Q = d.Q
         /\ d.In = 0 /\ d.State = {"PREV_IN"} =>
              r.State = {"DELAYING"} /\ r.Q = 1 /\ r.ET = 0 /\ r.STIME = moment
         /\ d.In = 0 /\ d.State = {"DELAYING"} =>
              IF e < PT THEN r.State = {"DELAYING"} /\ r.Q = 1 /\ r.ET = e /\ r.STIME = d.STIME
              ELSE r.State = {} /\ r.Q = 0
<1> DEFINE s == IF d.In = 1 THEN [d EXCEPT !.State = {"PREV_IN"}, !.ET = 0, !.Q = 1]
                ELSE IF "PREV_IN" \in d.State
                THEN [d EXCEPT !.STIME = moment, !.State = {"DELAYING"}]
                ELSE d
           f == Elapsed(s, moment)
           p == Proceed(s, PT, moment, "DELAYING", {}, 1, 0)
<1>0. "DELAYING" \notin {"PREV_IN"} /\ "DELAYING" \notin {} /\ "PREV_IN" \notin {"DELAYING"}
      /\ "PREV_IN" \notin {} /\ {"PREV_IN"} \in SUBSET States /\ {"DELAYING"} \in SUBSET States
  BY DEF States
<1>1. d = [In |-> d.In, Q |-> d.Q, ET |-> d.ET, State |-> d.State, STIME |-> d.STIME]
  BY DEF Instance
<1>2. d.In = 1 => s = [In |-> d.In, Q |-> 1, ET |-> 0, State |-> {"PREV_IN"}, STIME |-> d.STIME]
  <2>1. d.In = 1 => s = [d EXCEPT !.State = {"PREV_IN"}, !.ET = 0, !.Q = 1]
    OBVIOUS
  <2> HIDE DEF s
  <2> QED BY <2>1 DEF Instance
<1>3. d.In = 0 /\ "PREV_IN" \in d.State =>
        s = [In |-> d.In, Q |-> d.Q, ET |-> d.ET, State |-> {"DELAYING"}, STIME |-> moment]
  <2>1. d.In = 0 /\ "PREV_IN" \in d.State => s = [d EXCEPT !.STIME = moment, !.State = {"DELAYING"}]
    OBVIOUS
  <2> HIDE DEF s
  <2> QED BY <2>1 DEF Instance
<1>4. d.In = 0 /\ "PREV_IN" \notin d.State => s = d
  OBVIOUS
<1>r. r = p
  BY DEF RunTOF
<1> HIDE DEF s, f, p
<1>a. f = Elapsed(s, moment) /\ p = Proceed(s, PT, moment, "DELAYING", {}, 1, 0)
  BY DEF f, p
<1>5. s \in Instance /\ d.In \in {0, 1}
  <2> HIDE DEF States
  <2>1. d.In \in {0, 1} /\ d.Q \in {0, 1} /\ d.ET \in Int /\ d.STIME \in Int
    BY DEF Instance
  <2>2. d.In = 1 => s \in Instance
    BY <1>0, <1>2, <2>1 DEF Instance
  <2>3. d.In = 0 /\ "PREV_IN" \in d.State => s \in Instance
    BY <1>0, <1>3, <2>1 DEF Instance
  <2> QED BY <1>4, <2>1, <2>2, <2>3
<1>6. f \in Int /\ (s.STIME = moment => f = 0)
  BY <1>5, <1>a, IdleStarts
<1>7. /\ p \in Instance /\ p.In = s.In /\ p.STIME = s.STIME
      /\ "DELAYING" \notin s.State => p = s
      /\ s.State = {"DELAYING"} /\ f < PT => p.State = s.State /\ p.Q = 1 /\ p.ET = f
      /\ s.State = {"DELAYING"} /\ f >= PT => p.State = {} /\ p.Q = 0 /\ p.ET = PT
  BY <1>5, <1>6, <1>a, ProceedsRunning
<1>8. ASSUME d.In = 1 PROVE r.State = {"PREV_IN"} /\ r.Q = 1
  <2>1. s.State = {"PREV_IN"} /\ s.Q = 1
    BY <1>2, <1>8
  <2>2. p = s
    BY <1>0, <1>7, <2>1
  <2> QED BY <1>r, <2>1, <2>2
<1>9. ASSUME d.In = 0, d.State = {} PROVE r.State = {} /\ r.Q = d.Q
  <2>1. s = d
    BY <1>0, <1>4, <1>9
  <2>2. p = s
    BY <1>0, <1>7, <1>9, <2>1
  <2> QED BY <1>r, <1>9, <2>1, <2>2
<1>10. ASSUME d.In = 0, d.State = {"PREV_IN"}
       PROVE  r.State = {"DELAYING"} /\ r.Q = 1 /\ r.ET = 0 /\ r.STIME = moment
  <2>1. s.State = {"DELAYING"} /\ s.STIME = moment
    BY <1>3, <1>10
  <2>2. f = 0
    BY <1>6, <2>1
  <2> QED BY <1>7, <1>r, <2>1, <2>2
<1>11. ASSUME d.In = 0, d.State = {"DELAYING"}
       PROVE  IF e < PT THEN r.State = {"DELAYING"} /\ r.Q = 1 /\ r.ET = e /\ r.STIME = d.STIME
              ELSE r.State = {} /\ r.Q = 0
  <2>1. s = d
    BY <1>0, <1>4, <1>11
  <2>2. f = e
    BY <1>a, <2>1
  <2> QED BY <1>6, <1>7, <1>r, <1>11, <2>1, <2>2
<1> QED BY <1>7, <1>r, <1>8, <1>9, <1>10, <1>11

\* A call with a PT that is not positive clears the timer.
LEMMA IllegalCall ==
  ASSUME NEW d \in Instance, NEW PT \in Int, NEW r, r = IllegalPT(d, PT)
  PROVE  r \in Instance /\ r.State = {} /\ r.Q = 0
<1> DEFINE in == IF PT = 0 THEN 0 ELSE d.In
<1>1. d.In \in {0, 1} /\ d.STIME \in Int /\ in \in {0, 1}
  BY DEF Instance
<1>2. r = [d EXCEPT !.In = in, !.Q = 0, !.ET = 0, !.State = {}]
  BY DEF IllegalPT
<1> HIDE DEF in, States
<1>3. r = [In |-> in, Q |-> 0, ET |-> 0, State |-> {}, STIME |-> d.STIME]
  BY <1>2 DEF Instance
<1> QED BY <1>1, <1>3 DEF Instance

\* A timer that was running, or is started by the call, goes on to run.
LEMMA RunsOn ==
  ASSUME IecTyped, NEW In \in {0, 1}, NEW PT \in PTs, NEW gap \in Gaps, TimerCall(In, PT, gap),
         NEW n, n = CallsMade, NEW c, c = [In |-> In, PT |-> PT, time |-> TimeOf(n) + gap],
         PT > 0
  PROVE  /\ \A s : /\ RunsSince(s) /\ c.time - timerCalls[s].time < PT
                   /\ inst'.STIME = inst.STIME /\ inst'.ET = c.time - timerCalls[s].time
                   => RunsSince(s)'
         /\ inst'.STIME = ATIME' /\ inst'.ET = 0 => RunsSince(n + 1)'
<1>1. /\ c \in CallRecord /\ timerCalls' = Append(timerCalls, c) /\ ATIME' = Phase(c.time)
      /\ c.time \in Nat /\ PT \in Int /\ \A i \in 1..n : timerCalls[i].time \in Nat
  <2>1. PT \in Int
    BY IecTimerAssumption
  <2> QED BY <2>1, CallMade
<1>2. /\ n \in Nat /\ CallsMade' = n + 1 /\ timerCalls'[n + 1] = c
      /\ \A i \in 1..n : timerCalls'[i] = timerCalls[i]
      /\ \A i, j \in 1..n : Past(i, j)' <=> Past(i, j)
      /\ \A i \in 1..n + 1 : Legal(i, n + 1)' <=> c.PT > 0 /\ (i = n + 1 \/ Legal(i, n))
      /\ \A i \in 1..n : Past(i, n + 1)' <=> c.time - timerCalls[i].time >= c.PT
      /\ Past(n + 1, n + 1)' <=> 0 >= c.PT
  BY <1>1, HistoryGrows, ZenonT(60)
<1>3. \A s \in Int : Legal(s, CallsMade)' <=> Legal(s, n + 1)'
  BY <1>2 DEF Legal
<1>4. ASSUME NEW s, RunsSince(s), c.time - timerCalls[s].time < PT,
             inst'.STIME = inst.STIME, inst'.ET = c.time - timerCalls[s].time
      PROVE  RunsSince(s)'
  <2>1. s \in 1..n /\ s \in 1..n + 1 /\ s \in Int /\ timerCalls'[s] = timerCalls[s]
    BY <1>2, <1>4 DEF RunsSince
  <2>2. Legal(s, CallsMade)'
    BY <1>2, <1>3, <1>4, <2>1 DEF RunsSince
  <2>3. \A j \in s..n + 1 : ~Past(s, j)'
    <3>1. \A j \in s..n + 1 : (j \in s..n /\ j \in 1..n) \/ j = n + 1
      BY <1>2, <2>1
    <3>2. ~Past(s, n + 1)'
      BY <1>1, <1>2, <1>4, <2>1
    <3> QED BY <1>2, <1>4, <2>1, <3>1, <3>2 DEF RunsSince
  <2> QED BY <1>2, <1>4, <2>1, <2>2, <2>3 DEF RunsSince
<1>5. ASSUME inst'.STIME = ATIME', inst'.ET = 0 PROVE RunsSince(n + 1)'
  <2>1. Legal(n + 1, CallsMade)'
    BY <1>2, <1>3
  <2>2. n + 1..n + 1 = {n + 1} /\ ~(0 >= c.PT) /\ c.time - c.time = 0
    BY <1>1, <1>2
  <2>3. \A j \in n + 1..n + 1 : ~Past(n + 1, j)'
    <3>1. timerCalls'[n + 1] = c /\ PT = c.PT
      BY <1>2
    <3>2. ~(c.time - c.time >= c.PT)
      BY <2>2
    <3>3. \A j \in n + 1..n + 1 : j = n + 1
      BY <2>2
    <3> QED BY <3>1, <3>2, <3>3 DEF Past
  <2>4. n + 1 \in 1..n + 1 /\ inst'.STIME = Phase(timerCalls'[n + 1].time)
    <3>1. timerCalls'[n + 1] = c /\ n + 1 \in 1..n + 1
      BY <1>2
    <3>2. inst'.STIME = Phase(c.time)
      BY <1>1, <1>5, Zenon
    <3> QED BY <3>1, <3>2, Zenon
  <2>5. inst'.ET = timerCalls'[n + 1].time - timerCalls'[n + 1].time
    BY <1>2, <1>5, <2>2
  <2>6. CallsMade' = n + 1
    BY <1>2
  <2>7. (inst.STIME = Phase(timerCalls[n + 1].time))'
    BY <2>4 DEF Phase
  <2> HIDE DEF CallsMade
  <2> QED BY <2>1, <2>3, <2>4, <2>5, <2>6, <2>7 DEF RunsSince
<1> QED BY <1>4, <1>5

\* What a call finds.
LEMMA CallFinds ==
  ASSUME IecTyped, NEW In \in {0, 1}, NEW PT \in PTs, NEW gap \in Gaps, TimerCall(In, PT, gap),
         NEW n, n = CallsMade, NEW c, c = [In |-> In, PT |-> PT, time |-> TimeOf(n) + gap],
         NEW d, d = [inst EXCEPT !.In = In]
  PROVE  /\ d \in Instance /\ d.In = In /\ d.Q = inst.Q /\ d.State = inst.State
         /\ d.STIME = inst.STIME /\ PT \in Int /\ ATIME' \in Int
         /\ PT <= 0 => inst' = IllegalPT(d, PT)
         /\ PT > 0 => /\ timerBlock = "TP" => inst' = RunTP(d, PT, ATIME')
                      /\ timerBlock = "TON" => inst' = RunTON(d, PT, ATIME')
                      /\ timerBlock = "TOF" => inst' = RunTOF(d, PT, ATIME')
         /\ \A s : RunsSince(s) => /\ Elapsed(d, ATIME') = c.time - timerCalls[s].time
                                   /\ Elapsed(d, ATIME') \in Nat
<1>1. PT \in Int
  BY IecTimerAssumption
<1>2. ATIME' \in Int
  <2>1. c.time \in Nat /\ ATIME' = Phase(c.time)
    BY CallMade
  <2> QED BY <2>1, ClockTurns
<1>3. d \in Instance /\ d.In = In /\ d.Q = inst.Q /\ d.State = inst.State /\ d.STIME = inst.STIME
  <2> HIDE DEF States
  <2>1. inst \in Instance
    BY DEF IecTyped
  <2>2. d = [In |-> In, Q |-> inst.Q, ET |-> inst.ET, State |-> inst.State, STIME |-> inst.STIME]
    BY <2>1 DEF Instance
  <2> QED BY <2>1, <2>2 DEF Instance
<1>4. PT <= 0 => inst' = IllegalPT(d, PT)
  BY DEF TimerCall
<1>5. ASSUME PT > 0
      PROVE  /\ timerBlock = "TP" => inst' = RunTP(d, PT, ATIME')
             /\ timerBlock = "TON" => inst' = RunTON(d, PT, ATIME')
             /\ timerBlock = "TOF" => inst' = RunTOF(d, PT, ATIME')
  <2>0. ~(PT <= 0)
    BY <1>1, <1>5
  <2>1. timerBlock = "TP" => inst' = RunTP(d, PT, ATIME')
    BY <2>0 DEF TimerCall
  <2>2. timerBlock = "TON" => inst' = RunTON(d, PT, ATIME')
    BY <2>0 DEF TimerCall
  <2>3. timerBlock = "TOF" => inst' = RunTOF(d, PT, ATIME')
    BY <2>0 DEF TimerCall
  <2> QED BY <2>1, <2>2, <2>3
<1>6. \A s : RunsSince(s) => /\ Elapsed(d, ATIME') = c.time - timerCalls[s].time
                             /\ Elapsed(d, ATIME') \in Nat
  BY <1>3, TimeElapsed DEF Elapsed
<1> QED BY <1>1, <1>2, <1>3, <1>4, <1>5, <1>6

\* The types, and the times of the history.
LEMMA CallTyped ==
  ASSUME IecTyped, NEW In \in {0, 1}, NEW PT \in PTs, NEW gap \in Gaps, TimerCall(In, PT, gap)
  PROVE  IecTyped'
<1> DEFINE n == CallsMade
           c == [In |-> In, PT |-> PT, time |-> TimeOf(n) + gap]
           d == [inst EXCEPT !.In = In]
<1> HIDE DEF n, c, d
<1>0. n = CallsMade /\ c = [In |-> In, PT |-> PT, time |-> TimeOf(n) + gap]
  BY DEF n, c
<1>d. d = [inst EXCEPT !.In = In]
  BY DEF d
<1>1. PICK m : m = n
  OBVIOUS
<1>2. PICK k : k = [In |-> In, PT |-> PT, time |-> TimeOf(m) + gap]
  OBVIOUS
<1>3. /\ k \in CallRecord /\ timerCalls' = Append(timerCalls, k) /\ ATIME' = Phase(k.time)
      /\ UNCHANGED timerBlock /\ TimeOf(m) \in Nat /\ gap \in Nat /\ k.time = TimeOf(m) + gap
      /\ \A i \in 1..m : timerCalls[i].time <= TimeOf(m) /\ timerCalls[i].time \in Nat
  BY <1>0, <1>1, <1>2, CallMade
<1>4. /\ m \in Nat /\ CallsMade' = m + 1 /\ timerCalls'[m + 1] = k
      /\ \A i \in 1..m : timerCalls'[i] = timerCalls[i]
  BY <1>0, <1>1, <1>3, HistoryGrows, ZenonT(60)
<1>9. timerCalls'[m + 1].time = TimeOf(m) + gap /\ TimeOf(m) <= TimeOf(m) + gap
  BY <1>3, <1>4
<1>5. timerCalls' \in Seq(CallRecord)
  BY <1>3 DEF IecTyped
<1>6. \A i, j \in 1..m + 1 : i <= j => timerCalls'[i].time <= timerCalls'[j].time
  <2> SUFFICES ASSUME NEW i \in 1..m + 1, NEW j \in 1..m + 1, i <= j
               PROVE  timerCalls'[i].time <= timerCalls'[j].time
    OBVIOUS
  <2>1. CASE j \in 1..m
    <3>1. i \in 1..m
      BY <1>4, <2>1
    <3> QED BY <1>0, <1>1, <1>4, <2>1, <3>1 DEF IecTyped
  <2>2. CASE j = m + 1 /\ i \in 1..m
    <3>1. timerCalls[i].time <= TimeOf(m) /\ timerCalls[i].time \in Nat
      BY <1>3, <2>2
    <3>2. timerCalls'[i].time = timerCalls[i].time /\ timerCalls'[j].time = TimeOf(m) + gap
      BY <1>4, <1>9, <2>2
    <3>3. timerCalls[i].time <= TimeOf(m) + gap
      BY <1>3, <3>1
    <3> QED BY <3>2, <3>3
  <2>3. CASE j = m + 1 /\ i = m + 1
    <3>1. TimeOf(m) + gap <= TimeOf(m) + gap
      BY <1>3
    <3> QED BY <1>9, <2>3, <3>1
  <2> QED BY <1>4, <2>1, <2>2, <2>3
<1>7. ATIME' = Phase(TimeOf(CallsMade))'
  <2>1. TimeOf(CallsMade)' = k.time
    BY <1>4 DEF TimeOf
  <2> QED BY <1>3, <2>1 DEF Phase
<1>8. inst' \in Instance
  <2>1. /\ d \in Instance /\ PT \in Int /\ ATIME' \in Int
        /\ PT <= 0 => inst' = IllegalPT(d, PT)
        /\ PT > 0 => /\ timerBlock = "TP" => inst' = RunTP(d, PT, ATIME')
                     /\ timerBlock = "TON" => inst' = RunTON(d, PT, ATIME')
                     /\ timerBlock = "TOF" => inst' = RunTOF(d, PT, ATIME')
    BY <1>0, <1>1, <1>2, <1>d, CallFinds
  <2>2. PT <= 0 => inst' \in Instance
    BY <2>1, IllegalCall
  <2>3. PT > 0 /\ timerBlock = "TP" => inst' \in Instance
    BY <2>1, PulseCall
  <2>4. PT > 0 /\ timerBlock = "TON" => inst' \in Instance
    BY <2>1, OnDelayCall
  <2>5. PT > 0 /\ timerBlock = "TOF" => inst' \in Instance
    BY <2>1, OffDelayCall
  <2>6. PT <= 0 \/ PT > 0
    BY <2>1
  <2> QED BY <2>2, <2>3, <2>4, <2>5, <2>6 DEF IecTyped
<1> HIDE DEF Instance
<1> QED BY <1>3, <1>4, <1>5, <1>6, <1>7, <1>8 DEF IecTyped

\* A call of SFB 3.
LEMMA PulseStep ==
  ASSUME IecTyped, PulseInv, timerBlock = "TP",
         NEW In \in {0, 1}, NEW PT \in PTs, NEW gap \in Gaps, TimerCall(In, PT, gap)
  PROVE  PulseInv'
<1> DEFINE n0 == CallsMade
<1>1. PICK n : n = n0
  OBVIOUS
<1>2. PICK c : c = [In |-> In, PT |-> PT, time |-> TimeOf(n) + gap]
  OBVIOUS
<1>3. PICK d : d = [inst EXCEPT !.In = In]
  OBVIOUS
<1>4. PICK e : e = Elapsed(d, ATIME')
  OBVIOUS
<1> HIDE DEF n0
<1>n. n = CallsMade
  BY <1>1 DEF n0
<1>5. /\ d \in Instance /\ d.In = In /\ d.Q = inst.Q /\ d.State = inst.State
      /\ d.STIME = inst.STIME /\ PT \in Int /\ ATIME' \in Int
      /\ PT <= 0 => inst' = IllegalPT(d, PT)
      /\ PT > 0 => inst' = RunTP(d, PT, ATIME')
      /\ \A s : RunsSince(s) => e = c.time - timerCalls[s].time /\ e \in Nat
  BY <1>n, <1>2, <1>3, <1>4, CallFinds
<1>6. /\ c \in CallRecord /\ timerCalls' = Append(timerCalls, c)
  BY <1>n, <1>2, CallMade
<1>7. c.In = In /\ c.PT = PT
  BY <1>2
<1>8. /\ n \in Nat /\ CallsMade' = n + 1
      /\ \A i, j \in 1..n : Past(i, j)' <=> Past(i, j)
      /\ \A i \in 1..n + 1 : Legal(i, n + 1)' <=> PT > 0 /\ (i = n + 1 \/ Legal(i, n))
      /\ \A i \in 1..n : Past(i, n + 1)' <=> c.time - timerCalls[i].time >= PT
  BY <1>n, <1>6, <1>7, HistoryGrows
<1>9. \A s \in 1..n : PulseOver(s, n + 1)' <=>
        PulseOver(s, n) \/ (In = 0 /\ (Past(s, n + 1)' \/ \E j \in s..n : Past(s, j)))
  <2>1. \A s \in 1..n : PulseOver(s, n + 1)' <=>
          PulseOver(s, n) \/ (c.In = 0 /\ (Past(s, n + 1)' \/ \E j \in s..n : Past(s, j)))
    BY <1>n, <1>6, OverGrows, Zenon
  <2> QED BY <1>7, <2>1, Zenon
<1>10. PICK pulses \in SUBSET (1..n) :
         /\ PulseStarts(pulses)
         /\ \/ /\ inst.State = {} /\ inst.Q = 0
               /\ \A r \in pulses : Legal(r, n) => PulseOver(r, n)
            \/ /\ inst.State = {"RUNNING"} /\ inst.Q = 1
               /\ \E s \in pulses : RunsSince(s) /\ OthersOver(pulses, s)
            \/ /\ inst.State = {"FINISHED"} /\ inst.Q = 0
               /\ \E s \in pulses : /\ OthersOver(pulses, s) /\ Legal(s, n) /\ ~PulseOver(s, n)
                               /\ \E j \in s..n : Past(s, j)
  BY <1>n DEF PulseInv
<1> DEFINE starts == In = 1 /\ PT > 0 /\ \A s \in pulses : Legal(s, n) => PulseOver(s, n)
<1>11. /\ starts => PulseStarts(pulses \cup {n + 1})'
       /\ ~starts => PulseStarts(pulses)'
  <2> DEFINE found == c.In = 1 /\ c.PT > 0 /\ \A s \in pulses : Legal(s, n) => PulseOver(s, n)
  <2>1. /\ found => PulseStarts(pulses \cup {n + 1})'
        /\ ~found => PulseStarts(pulses)'
    BY <1>n, <1>6, <1>10, StartsGrow, Zenon
  <2>2. found <=> starts
    BY <1>7
  <2> HIDE DEF found, starts
  <2> QED BY <2>1, <2>2
<1>12. pulses \in SUBSET (1..n + 1) /\ pulses \cup {n + 1} \in SUBSET (1..n + 1) /\ n + 1 \notin pulses
       /\ \A r \in pulses : r \in 1..n /\ r \in 1..n + 1
  <2>1. 1..n \subseteq 1..n + 1 /\ n + 1 \in 1..n + 1 /\ n + 1 \notin 1..n
    BY <1>8
  <2> QED BY <1>10, <2>1
<1>13. ASSUME NEW more \in SUBSET (1..n + 1), PulseStarts(more)',
              \/ /\ inst'.State = {} /\ inst'.Q = 0
                 /\ \A r \in more : Legal(r, n + 1)' => PulseOver(r, n + 1)'
              \/ /\ inst'.State = {"RUNNING"} /\ inst'.Q = 1
                 /\ \E s \in more : RunsSince(s)' /\ OthersOver(more, s)'
              \/ /\ inst'.State = {"FINISHED"} /\ inst'.Q = 0
                 /\ \E s \in more : /\ OthersOver(more, s)' /\ Legal(s, n + 1)'
                                 /\ ~PulseOver(s, n + 1)'
                                 /\ \E j \in s..n + 1 : Past(s, j)'
       PROVE  PulseInv'
  <2>1. \A r : /\ Legal(r, CallsMade)' <=> Legal(r, n + 1)'
               /\ PulseOver(r, CallsMade)' <=> PulseOver(r, n + 1)'
    BY <1>8 DEF Legal, PulseOver, Past
  <2> QED BY <1>8, <1>13, <2>1 DEF PulseInv
\* The pulses of the others stay over.
<1>14. \A more, s : OthersOver(more, s)' <=> \A r \in more \ {s} : Legal(r, n + 1)' => PulseOver(r, n + 1)'
  <2>1. \A r : /\ Legal(r, CallsMade)' <=> Legal(r, n + 1)'
               /\ PulseOver(r, CallsMade)' <=> PulseOver(r, n + 1)'
    BY <1>8 DEF Legal, PulseOver, Past
  <2> QED BY <2>1 DEF OthersOver
<1>15. \A r \in pulses : (Legal(r, n) => PulseOver(r, n)) => (Legal(r, n + 1)' => PulseOver(r, n + 1)')
  <2> SUFFICES ASSUME NEW r \in pulses, Legal(r, n) => PulseOver(r, n), Legal(r, n + 1)'
               PROVE  PulseOver(r, n + 1)'
    OBVIOUS
  <2>1. r \in 1..n /\ r \in 1..n + 1 /\ r # n + 1
    BY <1>12
  <2>2. Legal(r, n)
    BY <1>8, <2>1
  <2> QED BY <1>9, <2>1, <2>2
<1>16. \A s \in pulses : OthersOver(pulses, s) => OthersOver(pulses, s)'
  BY <1>n, <1>14, <1>15 DEF OthersOver
<1>17. \A s : RunsSince(s) => ~PulseOver(s, n) /\ Legal(s, n) /\ \A j \in s..n : ~Past(s, j)
  BY <1>n DEF RunsSince, PulseOver
<1>18. PT > 0 =>
         /\ \A s : RunsSince(s) /\ e < PT /\ inst'.STIME = inst.STIME /\ inst'.ET = e => RunsSince(s)'
         /\ inst'.STIME = ATIME' /\ inst'.ET = 0 => RunsSince(n + 1)'
  <2>1. PT > 0 =>
         /\ \A s : /\ RunsSince(s) /\ c.time - timerCalls[s].time < PT
                   /\ inst'.STIME = inst.STIME /\ inst'.ET = c.time - timerCalls[s].time
                   => RunsSince(s)'
         /\ inst'.STIME = ATIME' /\ inst'.ET = 0 => RunsSince(n + 1)'
    BY <1>n, <1>2, RunsOn
  <2> QED BY <1>5, <2>1
<1> HIDE DEF Instance
<1>19. CASE PT <= 0
  <2>1. inst'.State = {} /\ inst'.Q = 0
    BY <1>5, <1>19, IllegalCall
  <2>2. \A r \in pulses : ~Legal(r, n + 1)'
    BY <1>5, <1>8, <1>12, <1>19
  <2>3. ~starts
    BY <1>5, <1>19
  <2> QED BY <1>11, <1>12, <1>13, <2>1, <2>2, <2>3
<1>20. CASE PT > 0
  <2>1. /\ inst.State = {} =>
             IF In = 0 THEN inst' = d
             ELSE inst'.State = {"RUNNING"} /\ inst'.Q = 1 /\ inst'.ET = 0 /\ inst'.STIME = ATIME'
        /\ inst.State = {"RUNNING"} =>
             IF e < PT THEN /\ inst'.State = {"RUNNING"} /\ inst'.Q = 1
                            /\ inst'.ET = e /\ inst'.STIME = inst.STIME
             ELSE inst'.Q = 0 /\ inst'.State = IF In = 1 THEN {"FINISHED"} ELSE {}
        /\ inst.State = {"FINISHED"} =>
             inst'.Q = inst.Q /\ inst'.State = IF In = 1 THEN {"FINISHED"} ELSE {}
    BY <1>4, <1>5, <1>20, PulseCall
  <2>2. CASE /\ inst.State = {} /\ inst.Q = 0
             /\ \A r \in pulses : Legal(r, n) => PulseOver(r, n)
    <3>1. CASE In = 1
      <4>1. PulseStarts(pulses \cup {n + 1})' /\ RunsSince(n + 1)'
        BY <1>11, <1>18, <1>20, <2>1, <2>2, <3>1
      <4>2. PICK more : more = pulses \cup {n + 1}
        OBVIOUS
      <4>3. PulseStarts(more)'
        BY <4>1, <4>2 DEF PulseStarts
      <4>4. OthersOver(more, n + 1)'
        BY <1>14, <1>15, <2>2, <4>2
      <4>5. inst'.State = {"RUNNING"} /\ inst'.Q = 1
        BY <2>1, <2>2, <3>1
      <4> QED BY <1>12, <1>13, <4>1, <4>2, <4>3, <4>4, <4>5
    <3>2. CASE In = 0
      <4>1. inst'.State = {} /\ inst'.Q = 0
        BY <1>5, <2>1, <2>2, <3>2
      <4>2. PulseStarts(pulses)'
        BY <1>11, <3>2
      <4> QED BY <1>12, <1>13, <1>15, <2>2, <4>1, <4>2
    <3> QED BY <3>1, <3>2
  <2>3. CASE /\ inst.State = {"RUNNING"} /\ inst.Q = 1
             /\ \E s \in pulses : RunsSince(s) /\ OthersOver(pulses, s)
    <3>1. PICK s \in pulses : RunsSince(s) /\ OthersOver(pulses, s)
      BY <2>3
    <3>2. PulseStarts(pulses)'
      BY <1>11, <1>17, <3>1
    <3>3. OthersOver(pulses, s)'
      BY <1>16, <3>1
    <3>4. CASE e < PT
      <4>1. RunsSince(s)' /\ inst'.State = {"RUNNING"} /\ inst'.Q = 1
        BY <1>18, <1>20, <2>1, <2>3, <3>1, <3>4
      <4> QED BY <1>12, <1>13, <3>2, <3>3, <4>1
    <3>5. CASE ~(e < PT)
      <4>1. Legal(s, n + 1)' /\ Past(s, n + 1)' /\ s \in 1..n
        BY <1>5, <1>8, <1>12, <1>17, <1>20, <3>1, <3>5
      <4>2. inst'.Q = 0 /\ inst'.State = IF In = 1 THEN {"FINISHED"} ELSE {}
        BY <2>1, <2>3, <3>5
      <4>3. CASE In = 1
        <5>1. ~PulseOver(s, n + 1)'
          BY <1>9, <1>17, <3>1, <4>1, <4>3
        <5>2. \E j \in s..n + 1 : Past(s, j)'
          <6>1. n + 1 \in s..n + 1
            BY <1>8, <4>1
          <6> QED BY <4>1, <6>1
        <5> QED BY <1>12, <1>13, <3>2, <3>3, <4>1, <4>2, <4>3, <5>1, <5>2
      <4>4. CASE In = 0
        <5>1. PulseOver(s, n + 1)'
          BY <1>9, <4>1, <4>4
        <5>2. \A r \in pulses : Legal(r, n + 1)' => PulseOver(r, n + 1)'
          BY <1>14, <3>3, <5>1
        <5>3. inst'.State = {}
          BY <4>2, <4>4
        <5> QED BY <1>12, <1>13, <3>2, <4>2, <5>2, <5>3
      <4> QED BY <4>3, <4>4
    <3> QED BY <3>4, <3>5
  <2>4. CASE /\ inst.State = {"FINISHED"} /\ inst.Q = 0
             /\ \E s \in pulses : /\ OthersOver(pulses, s) /\ Legal(s, n) /\ ~PulseOver(s, n)
                             /\ \E j \in s..n : Past(s, j)
    <3>1. PICK s \in pulses : /\ OthersOver(pulses, s) /\ Legal(s, n) /\ ~PulseOver(s, n)
                         /\ \E j \in s..n : Past(s, j)
      BY <2>4
    <3>2. PulseStarts(pulses)'
      BY <1>11, <3>1
    <3>3. OthersOver(pulses, s)'
      BY <1>16, <3>1
    <3>4. Legal(s, n + 1)' /\ s \in 1..n
      BY <1>8, <1>12, <1>20, <3>1
    <3>5. inst'.Q = 0 /\ inst'.State = IF In = 1 THEN {"FINISHED"} ELSE {}
      BY <2>1, <2>4
    <3>6. CASE In = 1
      <4>1. ~PulseOver(s, n + 1)'
        BY <1>9, <3>1, <3>4, <3>6
      <4>2. \E j \in s..n + 1 : Past(s, j)'
        <5>1. PICK j \in s..n : Past(s, j)
          BY <3>1
        <5>2. j \in 1..n /\ j \in s..n + 1
          BY <1>8, <3>4
        <5> QED BY <1>8, <3>4, <5>1, <5>2
      <4> QED BY <1>12, <1>13, <3>2, <3>3, <3>4, <3>5, <3>6, <4>1, <4>2
    <3>7. CASE In = 0
      <4>1. PulseOver(s, n + 1)'
        BY <1>9, <3>1, <3>4, <3>7
      <4>2. \A r \in pulses : Legal(r, n + 1)' => PulseOver(r, n + 1)'
        BY <1>14, <3>3, <4>1
      <4>3. inst'.State = {}
        BY <3>5, <3>7
      <4> QED BY <1>12, <1>13, <3>2, <3>5, <4>2, <4>3
    <3> QED BY <3>6, <3>7
  <2> QED BY <1>10, <2>2, <2>3, <2>4
<1> QED BY <1>5, <1>19, <1>20

\* A call of SFB 4.
LEMMA OnDelayStep ==
  ASSUME IecTyped, OnDelayInv, timerBlock = "TON",
         NEW In \in {0, 1}, NEW PT \in PTs, NEW gap \in Gaps, TimerCall(In, PT, gap)
  PROVE  OnDelayInv'
<1> DEFINE n0 == CallsMade
<1>1. PICK n : n = n0
  OBVIOUS
<1>2. PICK c : c = [In |-> In, PT |-> PT, time |-> TimeOf(n) + gap]
  OBVIOUS
<1>3. PICK d : d = [inst EXCEPT !.In = In]
  OBVIOUS
<1>4. PICK e : e = Elapsed(d, ATIME')
  OBVIOUS
<1> HIDE DEF n0
<1>n. n = CallsMade
  BY <1>1 DEF n0
<1>5. /\ d \in Instance /\ d.In = In /\ d.Q = inst.Q /\ d.State = inst.State
      /\ d.STIME = inst.STIME /\ PT \in Int /\ ATIME' \in Int
      /\ PT <= 0 => inst' = IllegalPT(d, PT)
      /\ PT > 0 => inst' = RunTON(d, PT, ATIME')
      /\ \A s : RunsSince(s) => e = c.time - timerCalls[s].time /\ e \in Nat
  BY <1>n, <1>2, <1>3, <1>4, CallFinds
<1>6. /\ c \in CallRecord /\ timerCalls' = Append(timerCalls, c)
  BY <1>n, <1>2, CallMade
<1>7. c.In = In /\ c.PT = PT
  BY <1>2
<1>8. /\ n \in Nat /\ CallsMade' = n + 1 /\ timerCalls'[n + 1] = c
      /\ \A i \in 1..n : timerCalls'[i] = timerCalls[i] /\ timerCalls[i] \in CallRecord
      /\ \A i, j \in 1..n : Past(i, j)' <=> Past(i, j)
      /\ \A i \in 1..n + 1 : Legal(i, n + 1)' <=> PT > 0 /\ (i = n + 1 \/ Legal(i, n))
      /\ \A i \in 1..n : Past(i, n + 1)' <=> c.time - timerCalls[i].time >= PT
  BY <1>n, <1>6, <1>7, HistoryGrows
<1>9. \A r : Legal(r, CallsMade)' <=> Legal(r, n + 1)'
  BY <1>8 DEF Legal
<1>10. PT > 0 =>
         /\ \A s : RunsSince(s) /\ e < PT /\ inst'.STIME = inst.STIME /\ inst'.ET = e => RunsSince(s)'
         /\ inst'.STIME = ATIME' /\ inst'.ET = 0 => RunsSince(n + 1)'
  <2>1. PT > 0 =>
         /\ \A s : /\ RunsSince(s) /\ c.time - timerCalls[s].time < PT
                   /\ inst'.STIME = inst.STIME /\ inst'.ET = c.time - timerCalls[s].time
                   => RunsSince(s)'
         /\ inst'.STIME = ATIME' /\ inst'.ET = 0 => RunsSince(n + 1)'
    BY <1>n, <1>2, RunsOn
  <2> QED BY <1>5, <2>1
<1> HIDE DEF Instance
<1>11. \A i : i \in 1..n + 1 <=> i \in 1..n \/ i = n + 1
  BY <1>8
\* Cleared by this call.
<1>12. ASSUME In = 0 \/ PT <= 0 PROVE OnDelayInv'
  <2>1. inst'.State = {} /\ inst'.Q = 0
    <3>1. PT <= 0 => inst'.State = {} /\ inst'.Q = 0
      BY <1>5, IllegalCall
    <3>2. PT > 0 /\ In = 0 => inst'.State = {} /\ inst'.Q = 0
      BY <1>4, <1>5, OnDelayCall
    <3>3. PT <= 0 \/ PT > 0
      BY <1>5
    <3> QED BY <1>12, <3>1, <3>2, <3>3
  <2>2. timerCalls'[n + 1].In = 0 \/ timerCalls'[n + 1].PT <= 0
    BY <1>7, <1>8, <1>12
  <2>3. (CallsMade # 0 => timerCalls[CallsMade].In = 0 \/ timerCalls[CallsMade].PT <= 0)'
    BY <1>8, <2>2
  <2> QED BY <2>1, <2>3 DEF OnDelayInv
<1>13. ASSUME In = 1, PT > 0 PROVE OnDelayInv'
  <2>1. /\ inst.State = {} =>
             inst'.State = {"RUNNING"} /\ inst'.Q = 0 /\ inst'.ET = 0 /\ inst'.STIME = ATIME'
        /\ inst.State = {"RUNNING"} =>
             IF e < PT THEN /\ inst'.State = {"RUNNING"} /\ inst'.Q = 0
                            /\ inst'.ET = e /\ inst'.STIME = inst.STIME
             ELSE inst'.State = {"FINISHED"} /\ inst'.Q = 1
        /\ inst.State = {"FINISHED"} => inst'.State = {"FINISHED"} /\ inst'.Q = inst.Q
    BY <1>4, <1>5, <1>13, OnDelayCall
  <2>2. \A i : OnSince(i) => OnSince(i)'
    <3> SUFFICES ASSUME NEW i, OnSince(i) PROVE OnSince(i)'
      OBVIOUS
    <3>1. i \in 1..n /\ i \in 1..n + 1 /\ Legal(i, n)
      BY <1>n, <1>11 DEF OnSince
    <3>2. Legal(i, CallsMade)'
      BY <1>8, <1>9, <1>13, <3>1
    <3>3. \A k \in i..n + 1 : timerCalls'[k].In = 1
      <4>1. \A k \in i..n + 1 : k = n + 1 \/ (k \in i..n /\ k \in 1..n)
        BY <1>8, <3>1
      <4> QED BY <1>n, <1>7, <1>8, <1>13, <4>1 DEF OnSince
    <3>4. i = 1 \/ timerCalls'[i - 1].In = 0 \/ timerCalls'[i - 1].PT <= 0
      <4>1. i # 1 => i - 1 \in 1..n
        BY <1>8, <3>1
      <4> QED BY <1>8, <4>1 DEF OnSince
    <3> QED BY <1>8, <3>1, <3>2, <3>3, <3>4 DEF OnSince
  <2>3. CASE /\ inst.State = {} /\ inst.Q = 0
             /\ n # 0 => timerCalls[n].In = 0 \/ timerCalls[n].PT <= 0
    <3>1. inst'.State = {"RUNNING"} /\ inst'.Q = 0 /\ RunsSince(n + 1)'
      BY <1>10, <1>13, <2>1, <2>3
    <3>2. OnSince(n + 1)'
      <4>1. Legal(n + 1, CallsMade)'
        BY <1>8, <1>9, <1>11, <1>13
      <4>2. \A k \in n + 1..n + 1 : k = n + 1
        BY <1>8
      <4>3. \A k \in n + 1..n + 1 : timerCalls'[k].In = 1
        BY <1>7, <1>8, <1>13, <4>2
      <4>4. n + 1 = 1 \/ timerCalls'[n + 1 - 1].In = 0 \/ timerCalls'[n + 1 - 1].PT <= 0
        <5>1. n + 1 - 1 = n /\ (n + 1 # 1 => n # 0 /\ n \in 1..n)
          BY <1>8
        <5> QED BY <1>8, <2>3, <5>1
      <4> QED BY <1>8, <1>11, <4>1, <4>3, <4>4 DEF OnSince
    <3> QED BY <1>8, <1>11, <3>1, <3>2 DEF OnDelayInv
  <2>4. CASE /\ inst.State = {"RUNNING"} /\ inst.Q = 0
             /\ \E i \in 1..n : OnSince(i) /\ RunsSince(i)
    <3>1. PICK i \in 1..n : OnSince(i) /\ RunsSince(i)
      BY <2>4
    <3>2. CASE e < PT
      <4>1. RunsSince(i)' /\ inst'.State = {"RUNNING"} /\ inst'.Q = 0
        BY <1>10, <1>13, <2>1, <2>4, <3>1, <3>2
      <4> QED BY <1>8, <1>11, <2>2, <3>1, <4>1 DEF OnDelayInv
    <3>3. CASE ~(e < PT)
      <4>1. inst'.State = {"FINISHED"} /\ inst'.Q = 1
        BY <2>1, <2>4, <3>3
      <4>2. Past(i, n + 1)'
        BY <1>5, <1>8, <3>1, <3>3
      <4>3. n + 1 \in i..n + 1
        BY <1>8, <3>1
      <4>4. (\E j \in i..CallsMade : Past(i, j))'
        BY <1>8, <4>2, <4>3
      <4> QED BY <1>8, <1>11, <2>2, <3>1, <4>1, <4>4 DEF OnDelayInv
    <3> QED BY <3>2, <3>3
  <2>5. CASE /\ inst.State = {"FINISHED"} /\ inst.Q = 1
             /\ \E i \in 1..n : OnSince(i) /\ \E j \in i..n : Past(i, j)
    <3>1. PICK i \in 1..n : OnSince(i) /\ \E j \in i..n : Past(i, j)
      BY <2>5
    <3>2. (\E j \in i..CallsMade : Past(i, j))'
      <4>1. PICK j \in i..n : Past(i, j)
        BY <3>1
      <4>2. j \in 1..n /\ j \in i..n + 1
        BY <1>8, <3>1
      <4> QED BY <1>8, <3>1, <4>1, <4>2
    <3> QED BY <1>8, <1>11, <2>1, <2>2, <2>5, <3>1, <3>2 DEF OnDelayInv
  <2> QED BY <1>n, <2>3, <2>4, <2>5 DEF OnDelayInv
<1>14. In \in {0, 1} /\ (PT <= 0 \/ PT > 0)
  BY <1>5
<1> QED BY <1>12, <1>13, <1>14

\* A call of SFB 5.
LEMMA OffDelayStep ==
  ASSUME IecTyped, OffDelayInv, timerBlock = "TOF",
         NEW In \in {0, 1}, NEW PT \in PTs, NEW gap \in Gaps, TimerCall(In, PT, gap)
  PROVE  OffDelayInv'
<1> DEFINE n0 == CallsMade
<1>1. PICK n : n = n0
  OBVIOUS
<1>2. PICK c : c = [In |-> In, PT |-> PT, time |-> TimeOf(n) + gap]
  OBVIOUS
<1>3. PICK d : d = [inst EXCEPT !.In = In]
  OBVIOUS
<1>4. PICK e : e = Elapsed(d, ATIME')
  OBVIOUS
<1> HIDE DEF n0
<1>n. n = CallsMade
  BY <1>1 DEF n0
<1>5. /\ d \in Instance /\ d.In = In /\ d.Q = inst.Q /\ d.State = inst.State
      /\ d.STIME = inst.STIME /\ PT \in Int /\ ATIME' \in Int
      /\ PT <= 0 => inst' = IllegalPT(d, PT)
      /\ PT > 0 => inst' = RunTOF(d, PT, ATIME')
      /\ \A s : RunsSince(s) => e = c.time - timerCalls[s].time /\ e \in Nat
  BY <1>n, <1>2, <1>3, <1>4, CallFinds
<1>6. /\ c \in CallRecord /\ timerCalls' = Append(timerCalls, c)
  BY <1>n, <1>2, CallMade
<1>7. c.In = In /\ c.PT = PT
  BY <1>2
<1>8. /\ n \in Nat /\ CallsMade' = n + 1 /\ timerCalls'[n + 1] = c
      /\ \A i \in 1..n : timerCalls'[i] = timerCalls[i] /\ timerCalls[i] \in CallRecord
      /\ \A i, j \in 1..n : Past(i, j)' <=> Past(i, j)
      /\ \A i \in 1..n + 1 : Legal(i, n + 1)' <=> PT > 0 /\ (i = n + 1 \/ Legal(i, n))
      /\ \A i \in 1..n : Past(i, n + 1)' <=> c.time - timerCalls[i].time >= PT
  BY <1>n, <1>6, <1>7, HistoryGrows
<1>9. \A r : Legal(r, CallsMade)' <=> Legal(r, n + 1)'
  BY <1>8 DEF Legal
<1>10. PT > 0 =>
         /\ \A s : RunsSince(s) /\ e < PT /\ inst'.STIME = inst.STIME /\ inst'.ET = e => RunsSince(s)'
         /\ inst'.STIME = ATIME' /\ inst'.ET = 0 => RunsSince(n + 1)'
  <2>1. PT > 0 =>
         /\ \A s : /\ RunsSince(s) /\ c.time - timerCalls[s].time < PT
                   /\ inst'.STIME = inst.STIME /\ inst'.ET = c.time - timerCalls[s].time
                   => RunsSince(s)'
         /\ inst'.STIME = ATIME' /\ inst'.ET = 0 => RunsSince(n + 1)'
    BY <1>n, <1>2, RunsOn
  <2> QED BY <1>5, <2>1
<1> HIDE DEF Instance
<1>11. \A i : i \in 1..n + 1 <=> i \in 1..n \/ i = n + 1
  BY <1>8
\* What it is after the call to have been switched off.
<1>12. \A i \in 1..n : OffAfter(i)' <=> OffAfter(i) /\ In = 0 /\ PT > 0
  <2> SUFFICES ASSUME NEW i \in 1..n PROVE OffAfter(i)' <=> OffAfter(i) /\ In = 0 /\ PT > 0
    OBVIOUS
  <2>1. OffAfter(i)' <=> /\ timerCalls'[i].In = 1 /\ Legal(i, n + 1)'
                         /\ \A j \in i + 1..n + 1 : timerCalls'[j].In = 0
    BY <1>8, <1>9, <1>11 DEF OffAfter
  <2>2. OffAfter(i) <=> /\ timerCalls[i].In = 1 /\ Legal(i, n)
                        /\ \A j \in i + 1..n : timerCalls[j].In = 0
    BY <1>n DEF OffAfter
  <2>3. \A j : j \in i + 1..n + 1 <=> j \in i + 1..n \/ j = n + 1
    BY <1>8
  <2>4. \A j \in i + 1..n : j \in 1..n
    BY <1>8
  <2>5. i \in 1..n + 1 /\ i # n + 1
    BY <1>8
  <2>6. (\A j \in i + 1..n + 1 : timerCalls'[j].In = 0)
          <=> (\A j \in i + 1..n : timerCalls[j].In = 0) /\ In = 0
    BY <1>7, <1>8, <2>3, <2>4
  <2>7. Legal(i, n + 1)' <=> Legal(i, n) /\ PT > 0
    BY <1>8, <2>5
  <2> QED BY <1>8, <2>1, <2>2, <2>6, <2>7
<1>13. OffAfter(n + 1)' <=> In = 1 /\ PT > 0
  <2>1. \A j : j \notin (n + 1) + 1..n + 1
    BY <1>8
  <2>2. Legal(n + 1, n + 1)' <=> PT > 0
    BY <1>8, <1>11
  <2> QED BY <1>7, <1>8, <1>9, <1>11, <2>1, <2>2 DEF OffAfter
<1>14. ASSUME PT <= 0 PROVE OffDelayInv'
  <2>1. inst'.State = {} /\ inst'.Q = 0
    BY <1>5, <1>14, IllegalCall
  <2>2. ~(PT > 0)
    BY <1>5, <1>14
  <2>3. \A i \in 1..n + 1 : ~OffAfter(i)'
    BY <1>11, <1>12, <1>13, <2>2
  <2> QED BY <1>8, <2>1, <2>3 DEF OffDelayInv
<1>15. ASSUME PT > 0, In = 1 PROVE OffDelayInv'
  <2>1. inst'.State = {"PREV_IN"} /\ inst'.Q = 1
    BY <1>4, <1>5, <1>15, OffDelayCall
  <2>2. OffAfter(CallsMade)'
    <3>1. OffAfter(CallsMade)' <=> OffAfter(n + 1)'
      BY <1>8 DEF OffAfter
    <3> QED BY <1>13, <1>15, <3>1
  <2>3. n + 1 # 0
    BY <1>8
  <2> QED BY <1>8, <2>1, <2>2, <2>3 DEF OffDelayInv
<1>16. ASSUME PT > 0, In = 0 PROVE OffDelayInv'
  <2>1. /\ inst.State = {} => inst'.State = {} /\ inst'.Q = inst.Q
        /\ inst.State = {"PREV_IN"} =>
             inst'.State = {"DELAYING"} /\ inst'.Q = 1 /\ inst'.ET = 0 /\ inst'.STIME = ATIME'
        /\ inst.State = {"DELAYING"} =>
             IF e < PT THEN /\ inst'.State = {"DELAYING"} /\ inst'.Q = 1
                            /\ inst'.ET = e /\ inst'.STIME = inst.STIME
             ELSE inst'.State = {} /\ inst'.Q = 0
    BY <1>4, <1>5, <1>16, OffDelayCall
  <2>2. \A i \in 1..n : OffAfter(i)' <=> OffAfter(i)
    BY <1>12, <1>16
  <2>3. ~OffAfter(n + 1)'
    BY <1>13, <1>16
  \* A delay that was over stays over.
  <2>4. \A i \in 1..n : (\E j \in i + 1..n : Past(i + 1, j)) => \E j \in i + 1..n + 1 : Past(i + 1, j)'
    <3> SUFFICES ASSUME NEW i \in 1..n, NEW j \in i + 1..n, Past(i + 1, j)
                 PROVE  \E k \in i + 1..n + 1 : Past(i + 1, k)'
      OBVIOUS
    <3>1. i + 1 \in 1..n /\ j \in 1..n /\ j \in i + 1..n + 1
      BY <1>8
    <3>2. Past(i + 1, j)'
      BY <1>8, <3>1
    <3> QED BY <3>1, <3>2
  <2>5. CASE /\ inst.State = {} /\ inst.Q = 0
             /\ \A i \in 1..n : OffAfter(i) => \E j \in i + 1..n : Past(i + 1, j)
    <3>1. inst'.State = {} /\ inst'.Q = 0
      BY <2>1, <2>5
    <3>2. \A i \in 1..n + 1 : OffAfter(i)' => \E j \in i + 1..n + 1 : Past(i + 1, j)'
      BY <1>11, <2>2, <2>3, <2>4, <2>5
    <3> QED BY <1>8, <3>1, <3>2 DEF OffDelayInv
  <2>6. CASE inst.State = {"PREV_IN"} /\ inst.Q = 1 /\ n # 0 /\ OffAfter(n)
    <3>1. inst'.State = {"DELAYING"} /\ inst'.Q = 1 /\ RunsSince(n + 1)'
      BY <1>10, <1>16, <2>1, <2>6
    <3>2. n \in 1..n /\ n \in 1..n + 1 /\ n < n + 1
      BY <1>8, <2>6
    <3>3. OffAfter(n)'
      BY <2>2, <2>6, <3>2
    <3>4. (\E i \in 1..CallsMade : OffAfter(i) /\ i < CallsMade /\ RunsSince(i + 1))'
      BY <1>8, <3>1, <3>2, <3>3
    <3> QED BY <3>1, <3>4 DEF OffDelayInv
  <2>7. CASE /\ inst.State = {"DELAYING"} /\ inst.Q = 1
             /\ \E i \in 1..n : OffAfter(i) /\ i < n /\ RunsSince(i + 1)
    <3>1. PICK i \in 1..n : OffAfter(i) /\ i < n /\ RunsSince(i + 1)
      BY <2>7
    <3>2. i + 1 \in 1..n /\ i \in 1..n + 1 /\ i < n + 1
      BY <1>8, <3>1
    <3>3. OffAfter(i)'
      BY <2>2, <3>1
    <3>4. CASE e < PT
      <4>1. RunsSince(i + 1)' /\ inst'.State = {"DELAYING"} /\ inst'.Q = 1
        BY <1>10, <1>16, <2>1, <2>7, <3>1, <3>4
      <4>2. (\E k \in 1..CallsMade : OffAfter(k) /\ k < CallsMade /\ RunsSince(k + 1))'
        BY <1>8, <3>2, <3>3, <4>1
      <4> QED BY <4>1, <4>2 DEF OffDelayInv
    <3>5. CASE ~(e < PT)
      <4>1. inst'.State = {} /\ inst'.Q = 0
        BY <2>1, <2>7, <3>5
      <4>2. Past(i + 1, n + 1)'
        BY <1>5, <1>8, <3>1, <3>2, <3>5
      <4>3. n + 1 \in i + 1..n + 1
        BY <1>8, <3>2
      \* No other call was the last with IN = 1.
      <4>4. \A k \in 1..n : OffAfter(k) => k = i
        <5> SUFFICES ASSUME NEW k \in 1..n, OffAfter(k), k # i PROVE FALSE
          OBVIOUS
        <5>1. CASE k < i
          <6>1. i \in k + 1..n
            BY <1>8, <5>1
          <6> QED BY <1>n, <3>1, <6>1 DEF OffAfter
        <5>2. CASE i < k
          <6>1. k \in i + 1..n
            BY <1>8, <5>2
          <6> QED BY <1>n, <3>1, <6>1 DEF OffAfter
        <5> QED BY <1>8, <5>1, <5>2
      <4>5. \A k \in 1..n + 1 : OffAfter(k)' => \E j \in k + 1..n + 1 : Past(k + 1, j)'
        <5> SUFFICES ASSUME NEW k \in 1..n + 1, OffAfter(k)'
                     PROVE  \E j \in k + 1..n + 1 : Past(k + 1, j)'
          OBVIOUS
        <5>1. k \in 1..n
          BY <1>11, <2>3
        <5>2. k = i
          BY <2>2, <4>4, <5>1
        <5> QED BY <4>2, <4>3, <5>2
      <4> QED BY <1>8, <4>1, <4>5 DEF OffDelayInv
    <3> QED BY <3>4, <3>5
  <2> QED BY <1>n, <2>5, <2>6, <2>7 DEF OffDelayInv
<1>17. In \in {0, 1} /\ (PT <= 0 \/ PT > 0)
  BY <1>5
<1> QED BY <1>14, <1>15, <1>16, <1>17

\* A history has one set of calls that start a pulse.
LEMMA OneSetOfStarts ==
  ASSUME NEW n, n = CallsMade, n \in Nat,
         NEW pulses \in SUBSET (1..n), PulseStarts(pulses), NEW more \in SUBSET (1..n), PulseStarts(more)
  PROVE  pulses = more
<1> DEFINE D == {i \in 1..n : ~(i \in pulses <=> i \in more)}
<1>1. SUFFICES ASSUME D # {} PROVE FALSE
  <2>1. \A i : i \in pulses => i \in 1..n
    OBVIOUS
  <2>2. \A i : i \in more => i \in 1..n
    OBVIOUS
  <2> QED BY <2>1, <2>2, <1>1
<1>2. D \in SUBSET Nat
  OBVIOUS
<1>3. PICK m \in D : \A i \in D : m <= i
  <2> HIDE DEF D
  <2> QED BY <1>1, <1>2, LeastNumber
<1>4. m \in 1..n /\ m \in Nat
  OBVIOUS
<1>5. \A s \in 1..n : s < m => (s \in pulses <=> s \in more)
  <2> SUFFICES ASSUME NEW s \in 1..n, s < m, ~(s \in pulses <=> s \in more) PROVE FALSE
    OBVIOUS
  <2>1. s \in D
    OBVIOUS
  <2>2. m <= s
    BY <1>3, <2>1
  <2> QED BY <1>4, <2>2
<1>6. (\A s \in pulses : s < m /\ Legal(s, m) => PulseOver(s, m - 1))
        <=> (\A s \in more : s < m /\ Legal(s, m) => PulseOver(s, m - 1))
  BY <1>5
<1>7. m \in pulses <=> /\ timerCalls[m].In = 1 /\ timerCalls[m].PT > 0
                  /\ \A s \in pulses : s < m /\ Legal(s, m) => PulseOver(s, m - 1)
  BY <1>4 DEF PulseStarts, CallsMade
<1>8. m \in more <=> /\ timerCalls[m].In = 1 /\ timerCalls[m].PT > 0
                  /\ \A s \in more : s < m /\ Legal(s, m) => PulseOver(s, m - 1)
  BY <1>4 DEF PulseStarts, CallsMade
<1>9. m \in pulses <=> m \in more
  BY <1>6, <1>7, <1>8
<1> QED BY <1>9

\* Q of TP is what the history says.
LEMMA PulseIsIdeal ==
  ASSUME IecTyped, PulseInv, NEW n, n = CallsMade, n \in Nat
  PROVE  inst.Q = 1 <=> RefTP(n)
<1>1. PICK pulses \in SUBSET (1..n) :
        /\ PulseStarts(pulses)
        /\ \/ /\ inst.State = {} /\ inst.Q = 0
              /\ \A r \in pulses : Legal(r, n) => PulseOver(r, n)
           \/ /\ inst.State = {"RUNNING"} /\ inst.Q = 1
              /\ \E s \in pulses : RunsSince(s) /\ OthersOver(pulses, s)
           \/ /\ inst.State = {"FINISHED"} /\ inst.Q = 0
              /\ \E s \in pulses : /\ OthersOver(pulses, s) /\ Legal(s, n) /\ ~PulseOver(s, n)
                              /\ \E j \in s..n : Past(s, j)
  BY DEF PulseInv
<1>2. RefTP(n) <=> \E s \in pulses : Legal(s, n) /\ \A j \in s..n : ~Past(s, j)
  <2>1. ASSUME RefTP(n) PROVE \E s \in pulses : Legal(s, n) /\ \A j \in s..n : ~Past(s, j)
    <3>1. PICK more \in SUBSET (1..n) :
            PulseStarts(more) /\ \E s \in more : Legal(s, n) /\ \A j \in s..n : ~Past(s, j)
      BY <2>1 DEF RefTP
    <3>2. more = pulses
      BY <1>1, <3>1, OneSetOfStarts
    <3> QED BY <3>1, <3>2
  <2> QED BY <1>1, <2>1 DEF RefTP
<1>3. \A s : PulseOver(s, n) => \E j \in s..n : Past(s, j)
  BY DEF PulseOver
<1>4. CASE /\ inst.State = {} /\ inst.Q = 0
           /\ \A r \in pulses : Legal(r, n) => PulseOver(r, n)
  BY <1>2, <1>3, <1>4
<1>5. CASE /\ inst.State = {"RUNNING"} /\ inst.Q = 1
           /\ \E s \in pulses : RunsSince(s) /\ OthersOver(pulses, s)
  BY <1>2, <1>5 DEF RunsSince
<1>6. CASE /\ inst.State = {"FINISHED"} /\ inst.Q = 0
           /\ \E s \in pulses : /\ OthersOver(pulses, s) /\ Legal(s, n) /\ ~PulseOver(s, n)
                           /\ \E j \in s..n : Past(s, j)
  <2>1. PICK s \in pulses : OthersOver(pulses, s) /\ \E j \in s..n : Past(s, j)
    BY <1>6
  <2>2. \A r \in pulses \ {s} : Legal(r, n) => \E j \in r..n : Past(r, j)
    BY <1>3, <2>1 DEF OthersOver
  <2> QED BY <1>2, <1>6, <2>1, <2>2
<1> QED BY <1>1, <1>4, <1>5, <1>6

\* Q of TON is what the history says.
LEMMA OnDelayIsIdeal ==
  ASSUME IecTyped, OnDelayInv, NEW n, n = CallsMade, n \in Nat, n # 0
  PROVE  inst.Q = 1 <=> RefTON(n)
<1>0. n \in 1..n /\ \A i \in 1..n : timerCalls[i].PT \in Int /\ timerCalls[i].time \in Int
  <2>1. \A i \in 1..n : timerCalls[i] \in CallRecord
    BY DEF IecTyped, CallsMade
  <2>2. \A i \in 1..n : timerCalls[i].PT \in PTs /\ timerCalls[i].time \in Int
    BY <2>1 DEF CallRecord
  <2>3. PTs \subseteq Int
    BY IecTimerAssumption
  <2>4. \A i \in 1..n : timerCalls[i].PT \in Int
    BY <2>2, <2>3
  <2> QED BY <2>2, <2>4
<1>1. CASE /\ inst.State = {} /\ inst.Q = 0
           /\ timerCalls[n].In = 0 \/ timerCalls[n].PT <= 0
  <2>1. ASSUME NEW i \in 1..n, Legal(i, n), \A k \in i..n : timerCalls[k].In = 1 PROVE FALSE
    <3>1. n \in i..n
      BY <1>0
    <3>2. timerCalls[n].PT > 0 /\ timerCalls[n].In = 1
      BY <2>1, <3>1 DEF Legal
    <3> QED BY <1>0, <1>1, <3>2
  <2> QED BY <1>1, <2>1 DEF RefTON
<1>2. CASE /\ inst.State = {"RUNNING"} /\ inst.Q = 0
           /\ \E i \in 1..n : OnSince(i) /\ RunsSince(i)
  <2>1. PICK i \in 1..n : OnSince(i) /\ RunsSince(i)
    BY <1>2
  <2>2. ASSUME NEW l \in 1..n, NEW j \in l..n, Legal(l, n), Past(l, j),
               \A k \in l..n : timerCalls[k].In = 1
        PROVE  FALSE
    <3>1. CASE l < i
      <4>1. i - 1 \in l..n /\ i # 1
        BY <3>1
      <4>2. timerCalls[i - 1].In = 1 /\ timerCalls[i - 1].PT > 0
        BY <2>2, <4>1 DEF Legal
      <4>3. timerCalls[i - 1].PT \in Int
        BY <1>0, <4>1
      <4> QED BY <2>1, <4>1, <4>2, <4>3 DEF OnSince
    <3>2. CASE i <= l
      <4>1. j \in 1..n /\ j \in i..n
        BY <3>2
      <4>2. timerCalls[i].time <= timerCalls[l].time
        BY <3>2 DEF IecTyped
      <4>3. timerCalls[j].time - timerCalls[l].time >= timerCalls[j].PT
        BY <2>2 DEF Past
      <4>4. timerCalls[j].time - timerCalls[i].time >= timerCalls[j].PT
        BY <1>0, <4>1, <4>2, <4>3
      <4> QED BY <2>1, <4>1, <4>4 DEF RunsSince, Past
    <3> QED BY <3>1, <3>2
  <2> QED BY <1>2, <2>2 DEF RefTON
<1>3. CASE /\ inst.State = {"FINISHED"} /\ inst.Q = 1
           /\ \E i \in 1..n : OnSince(i) /\ \E j \in i..n : Past(i, j)
  BY <1>3 DEF RefTON, OnSince
<1> QED BY <1>1, <1>2, <1>3 DEF OnDelayInv

\* Q of TOF is what the history says.
LEMMA OffDelayIsIdeal ==
  ASSUME IecTyped, OffDelayInv, NEW n, n = CallsMade, n \in Nat, n # 0
  PROVE  inst.Q = 1 <=> RefTOF(n)
<1>1. RefTOF(n) <=> \E i \in 1..n : OffAfter(i) /\ \A j \in i + 1..n : ~Past(i + 1, j)
  BY DEF RefTOF, OffAfter
<1>2. CASE /\ inst.State = {} /\ inst.Q = 0
           /\ \A i \in 1..n : OffAfter(i) => \E j \in i + 1..n : Past(i + 1, j)
  BY <1>1, <1>2
<1>3. CASE inst.State = {"PREV_IN"} /\ inst.Q = 1 /\ OffAfter(n)
  <2>1. n \in 1..n /\ \A j : j \notin n + 1..n
    OBVIOUS
  <2> QED BY <1>1, <1>3, <2>1
<1>4. CASE /\ inst.State = {"DELAYING"} /\ inst.Q = 1
           /\ \E i \in 1..n : OffAfter(i) /\ i < n /\ RunsSince(i + 1)
  BY <1>1, <1>4 DEF RunsSince
<1> QED BY <1>2, <1>3, <1>4 DEF OffDelayInv

\* A running timer shows less than its time.
LEMMA RunningShows ==
  ASSUME IecInv, NEW n, n = CallsMade, n \in Nat, n # 0,
         inst.State \cap {"RUNNING", "DELAYING"} # {}
  PROVE  inst.ET \in 0..timerCalls[n].PT - 1
<1>1. PICK s : RunsSince(s)
  <2>1. CASE timerBlock = "TP"
    BY <2>1 DEF IecInv, PulseInv
  <2>2. CASE timerBlock = "TON"
    BY <2>2 DEF IecInv, OnDelayInv
  <2>3. CASE timerBlock = "TOF"
    BY <2>3 DEF IecInv, OffDelayInv
  <2> QED BY <2>1, <2>2, <2>3 DEF IecInv, IecTyped
<1>2. s \in 1..n /\ n \in s..n /\ s <= n
  BY <1>1 DEF RunsSince
<1>3. timerCalls[s].time <= timerCalls[n].time
  BY <1>2 DEF IecInv, IecTyped
<1>4. \A i \in 1..n : timerCalls[i].PT \in Int /\ timerCalls[i].time \in Int
  <2>1. \A i \in 1..n : timerCalls[i] \in CallRecord
    BY DEF IecInv, IecTyped, CallsMade
  <2>2. \A i \in 1..n : timerCalls[i].PT \in PTs /\ timerCalls[i].time \in Int
    BY <2>1 DEF CallRecord
  <2>3. PTs \subseteq Int
    BY IecTimerAssumption
  <2>4. \A i \in 1..n : timerCalls[i].PT \in Int
    BY <2>2, <2>3
  <2> QED BY <2>2, <2>4
<1>5. /\ inst.ET = timerCalls[n].time - timerCalls[s].time
      /\ ~(timerCalls[n].time - timerCalls[s].time >= timerCalls[n].PT)
  BY <1>1, <1>2 DEF RunsSince, Past
<1> QED BY <1>2, <1>3, <1>4, <1>5

\* Before the first call.
ClearedState ==
    /\ timerCalls = <<>> /\ ATIME = Wrap - 1 /\ inst = Cleared
    /\ timerBlock \in {"TP", "TON", "TOF"}

LEMMA ClearedHolds == ClearedState => IecInv
<1> SUFFICES ASSUME ClearedState PROVE IecInv
  OBVIOUS
<1>1. CallsMade = 0 /\ timerCalls \in Seq(CallRecord)
  BY DEF ClearedState, CallsMade
<1>2. \A i : i \notin 1..CallsMade
  BY <1>1
<1>3. inst \in Instance /\ inst.State = {} /\ inst.Q = 0
  BY DEF ClearedState, Cleared, Instance
<1>4. ATIME = Phase(TimeOf(CallsMade))
  <2>1. Wrap \in Nat \ {0}
    BY IecTimerAssumption
  <2>2. Wrap - 1 \in 0..Wrap - 1 /\ (Wrap - 1) + 0 = Wrap - 1
    BY <2>1
  <2>3. (Wrap - 1 + 0) % Wrap = Wrap - 1
    BY <2>1
  <2> QED BY <1>1, <2>3 DEF ClearedState, TimeOf, Phase
<1>5. IecTyped
  BY <1>1, <1>2, <1>3, <1>4 DEF IecTyped, ClearedState
<1>6. PulseInv
  <2>1. {} \in SUBSET (1..CallsMade) /\ PulseStarts({})
    BY <1>2 DEF PulseStarts, CallsMade
  <2> QED BY <1>3, <2>1 DEF PulseInv
<1>7. OnDelayInv
  BY <1>1, <1>3 DEF OnDelayInv
<1>8. OffDelayInv
  BY <1>2, <1>3 DEF OffDelayInv
<1> QED BY <1>5, <1>6, <1>7, <1>8 DEF IecInv

\* The inductive invariant of the IEC timers.
THEOREM IecInvariant == IecSpec => []IecInv
<1>1. IecInit => IecInv
  BY ClearedHolds DEF IecInit, ClearedState
<1>2. IecInv /\ [IecNext]_iecVars => IecInv'
  <2> SUFFICES ASSUME IecInv, [IecNext]_iecVars PROVE IecInv'
    OBVIOUS
  <2>1. ASSUME NEW In \in {0, 1}, NEW PT \in PTs, NEW gap \in Gaps, TimerCall(In, PT, gap)
        PROVE  IecInv'
    <3>1. IecTyped' /\ timerBlock' = timerBlock
      BY <2>1, CallTyped DEF IecInv, TimerCall
    <3>2. timerBlock = "TP" => PulseInv'
      BY <2>1, PulseStep DEF IecInv
    <3>3. timerBlock = "TON" => OnDelayInv'
      BY <2>1, OnDelayStep DEF IecInv
    <3>4. timerBlock = "TOF" => OffDelayInv'
      BY <2>1, OffDelayStep DEF IecInv
    <3> QED BY <3>1, <3>2, <3>3, <3>4 DEF IecInv
  <2>2. CASE IecRestart
    <3>1. ClearedState'
      <4>1. timerCalls' = <<>> /\ ATIME' = Wrap - 1 /\ inst' = Cleared /\ timerBlock' = timerBlock
        BY <2>2 DEF IecRestart
      <4>2. timerBlock \in {"TP", "TON", "TOF"}
        BY DEF IecInv, IecTyped
      <4> QED BY <4>1, <4>2 DEF ClearedState, Cleared
    <3> QED BY <3>1, ClearedHolds, PTL
  <2>3. CASE UNCHANGED iecVars
    <3>1. /\ timerBlock' = timerBlock /\ ATIME' = ATIME /\ inst' = inst
          /\ timerCalls' = timerCalls /\ CallsMade' = CallsMade
      BY <2>3 DEF iecVars, CallsMade
    <3>2. /\ \A i, j : (Legal(i, j)' <=> Legal(i, j)) /\ (Past(i, j)' <=> Past(i, j))
          /\ \A i : Legal(i, CallsMade)' <=> Legal(i, CallsMade)
      BY <3>1 DEF Legal, Past
    <3>3. /\ \A s, j : PulseOver(s, j)' <=> PulseOver(s, j)
          /\ \A s : PulseOver(s, CallsMade)' <=> PulseOver(s, CallsMade)
      BY <3>1 DEF PulseOver, Past
    <3>4. \A pulses : PulseStarts(pulses)' <=> PulseStarts(pulses)
      <4>1. \A s, i : PulseOver(s, i - 1)' <=> PulseOver(s, i - 1)
        BY <3>1 DEF PulseOver, Past
      <4> QED BY <3>1, <3>2, <4>1 DEF PulseStarts
    <3>5. IecTyped'
      BY <3>1 DEF IecInv, IecTyped, TimeOf, Phase
    <3>6. \A s : RunsSince(s)' <=> RunsSince(s)
      BY <3>1, <3>2 DEF RunsSince, Phase
    <3>7. \A pulses, s : OthersOver(pulses, s)' <=> OthersOver(pulses, s)
      BY <3>2, <3>3 DEF OthersOver
    <3>8. \A i : OnSince(i)' <=> OnSince(i)
      BY <3>1, <3>2 DEF OnSince
    <3>9. \A i : OffAfter(i)' <=> OffAfter(i)
      BY <3>1, <3>2 DEF OffAfter
    <3>10. PulseInv' <=> PulseInv
      BY <3>1, <3>2, <3>3, <3>4, <3>6, <3>7 DEF PulseInv
    <3>11. OnDelayInv' <=> OnDelayInv
      BY <3>1, <3>2, <3>6, <3>8 DEF OnDelayInv
    <3>12. OffDelayInv' <=> OffDelayInv
      <4>1. \A i : RunsSince(i + 1)' <=> RunsSince(i + 1)
        BY <3>1, <3>2 DEF RunsSince, Phase, Legal, Past
      <4>2. \A i, j : Past(i + 1, j)' <=> Past(i + 1, j)
        BY <3>1 DEF Past
      <4>3. OffAfter(CallsMade)' <=> OffAfter(CallsMade)
        BY <3>1, <3>2 DEF OffAfter, Legal
      <4> QED BY <3>1, <3>9, <4>1, <4>2, <4>3 DEF OffDelayInv
    <3> QED BY <3>1, <3>5, <3>10, <3>11, <3>12 DEF IecInv
  <2> QED BY <2>1, <2>2, <2>3 DEF IecNext
<1> QED BY <1>1, <1>2, PTL DEF IecSpec

\* However late and with whatever PT the program calls SFB 3 to 5, however
\* often, and wherever the clock wraps around, Q is what the history of the
\* calls says.
THEOREM PulsesAreTimed == IecSpec => []TimesPulses
<1>1. IecInv => TimesPulses
  <2> SUFFICES ASSUME IecInv, CallsMade > 0
               PROVE  LET n == CallsMade
                      IN  /\ inst.Q = 1 <=> CASE timerBlock = "TP" -> RefTP(n)
                                              [] timerBlock = "TON" -> RefTON(n)
                                              [] timerBlock = "TOF" -> RefTOF(n)
                          /\ inst.State \cap {"RUNNING", "DELAYING"} # {} /\ timerCalls[n].PT > 0 =>
                               inst.ET \in 0..timerCalls[n].PT - 1
    BY DEF TimesPulses, CallsMade
  <2>0. PICK n : n = CallsMade
    OBVIOUS
  <2>1. n \in Nat /\ n # 0
    BY <2>0 DEF IecInv, IecTyped, CallsMade
  <2>2. /\ timerBlock = "TP" => (inst.Q = 1 <=> RefTP(n))
        /\ timerBlock = "TON" => (inst.Q = 1 <=> RefTON(n))
        /\ timerBlock = "TOF" => (inst.Q = 1 <=> RefTOF(n))
    BY <2>0, <2>1, PulseIsIdeal, OnDelayIsIdeal, OffDelayIsIdeal DEF IecInv
  <2>3. inst.State \cap {"RUNNING", "DELAYING"} # {} => inst.ET \in 0..timerCalls[n].PT - 1
    BY <2>0, <2>1, RunningShows
  <2>4. timerBlock \in {"TP", "TON", "TOF"}
    BY DEF IecInv, IecTyped
  <2> QED BY <2>0, <2>2, <2>3, <2>4
<1> QED BY <1>1, IecInvariant, PTL
-----------------------------------------------------------------------------
(* The counters.                                                           *)

ZCall ==
  [op : {"S"}, v : {0, 1}, preset : Int] \cup [op : {"R"}, v : {1}]
    \cup [op : {"FR", "ZV", "ZR"}, v : {0, 1}]
IecInputs == [CU : {0, 1}, CD : {0, 1}, R : {0, 1}, LOAD : {0, 1}, PV : MinCount..MaxCount]

CounterTyped ==
    /\ block \in {"Z", "CTU", "CTD", "CTUD"}
    /\ counter \in MinCount..MaxCount /\ (block = "Z" => counter >= 0)
    /\ prev \in [Stores -> {0, 1}]
    /\ Q \in [up : {0, 1}, down : {0, 1}]
    /\ failed \in BOOLEAN
    /\ calls \in Seq(IF block = "Z" THEN ZCall ELSE IecInputs)

\* The last time the instruction saw its input as 1, it has not let it go since.
Held(op, n, releases) ==
    \E j \in 1..n :
       /\ calls[j].op = op /\ calls[j].v = 1
       /\ \A k \in j + 1..n : k \notin releases /\ ~(calls[k].op = op /\ calls[k].v = 0)

\* What is stored is what the history says of it.
StoresKept ==
    /\ block = "Z" /\ ~failed =>
         /\ prev["FR"] = 1 <=> Held("FR", Len(calls), {})
         /\ \A op \in {"S", "ZV", "ZR"} : prev[op] = 1 <=> Held(op, Len(calls), EdgesOfFR)
    /\ block \in {"CTU", "CTUD"} => prev["CU"] = IF calls = <<>> THEN 0 ELSE calls[Len(calls)].CU
    /\ block \in {"CTD", "CTUD"} => prev["CD"] = IF calls = <<>> THEN 0 ELSE calls[Len(calls)].CD

RefStep(n, i) == IF block = "Z" THEN RefZ(n, i) ELSE RefIec(n, i)

\* f counts the calls.
CountedBy(f) ==
    /\ f \in [0..Len(calls) -> Int] /\ f[0] = 0
    /\ \A i \in 1..Len(calls) : f[i] = RefStep(f[i - 1], i)

CountInv ==
    /\ \E f : CountedBy(f) /\ counter = f[Len(calls)]
    /\ block \in {"CTU", "CTUD"} /\ calls # <<>> => (Q.up = 1 <=> counter >= calls[Len(calls)].PV)
    /\ block \in {"CTD", "CTUD"} /\ calls # <<>> => (Q.down = 1 <=> counter <= 0)

CounterInv == CounterTyped /\ StoresKept /\ CountInv

\* There is one way to count the calls.
LEMMA CountsAreUnique ==
  ASSUME NEW n, n = Len(calls), n \in Nat, NEW f, CountedBy(f)
  PROVE  RefCounts = f
<1> DEFINE stepOf(g, i) == IF i = 0 THEN 0
                         ELSE IF block = "Z" THEN RefZ(g[i - 1], i) ELSE RefIec(g[i - 1], i)
           Solves(g) == g = [i \in 0..n |-> stepOf(g, i)]
<1>1. RefCounts = CHOOSE g : Solves(g)
  BY DEF RefCounts
<1>2. Solves(f)
  <2>1. f = [i \in 0..n |-> f[i]]
    BY DEF CountedBy
  <2>2. \A i \in 0..n : f[i] = stepOf(f, i)
    BY DEF CountedBy, RefStep
  <2> HIDE DEF stepOf
  <2> QED BY <2>1, <2>2
<1>3. \A g : Solves(g) => g = f
  <2> SUFFICES ASSUME NEW g, Solves(g) PROVE g = f
    OBVIOUS
  <2>1. \A i \in 0..n : g[i] = stepOf(g, i) /\ f[i] = stepOf(f, i)
    <3> HIDE DEF stepOf
    <3> QED BY <1>2
  <2> DEFINE D == {i \in 0..n : g[i] # f[i]}
  <2>2. D = {}
    <3> SUFFICES ASSUME D # {} PROVE FALSE
      OBVIOUS
    <3>1. PICK m \in D : \A i \in D : m <= i
      <4>1. D \in SUBSET Nat
        OBVIOUS
      <4> HIDE DEF D
      <4> QED BY <4>1, LeastNumber
    <3>2. m # 0
      BY <2>1, <3>1
    <3>3. m - 1 \in 0..n /\ m - 1 \notin D
      BY <3>1, <3>2
    <3>4. g[m - 1] = f[m - 1]
      BY <3>3
    <3>5. stepOf(g, m) = stepOf(f, m)
      BY <3>4
    <3> HIDE DEF stepOf
    <3> QED BY <2>1, <3>1, <3>5
  <2>3. \A i \in 0..n : g[i] = f[i]
    BY <2>2
  <2>4. f = [i \in 0..n |-> f[i]] /\ g = [i \in 0..n |-> g[i]]
    <3> HIDE DEF stepOf
    <3> QED BY <1>2
  <2> HIDE DEF stepOf, Solves
  <2> QED BY <2>3, <2>4
<1> HIDE DEF Solves
<1> QED BY <1>1, <1>2, <1>3

\* What a call adds to the history of Z.
LEMMA EdgesGrow ==
  ASSUME NEW c, NEW n, n = Len(calls), n \in Nat, Len(calls)' = n + 1, calls'[n + 1] = c,
         \A i \in 1..n : calls'[i] = calls[i],
         NEW A, NEW B, \A k \in 1..n : k \in A <=> k \in B
  PROVE  /\ \A i \in 1..n : RisesAmong(i, A)' <=> RisesAmong(i, B)
         /\ RisesAmong(n + 1, A)' <=> c.v = 1 /\ ~Held(c.op, n, B)
         /\ \A op : Held(op, n + 1, A)' <=>
              \/ c.op = op /\ c.v = 1
              \/ Held(op, n, B) /\ n + 1 \notin A /\ ~(c.op = op /\ c.v = 0)
<1>1. ASSUME NEW i \in 1..n PROVE RisesAmong(i, A)' <=> RisesAmong(i, B)
  <2>1. \A j \in 1..i - 1 : j \in 1..n /\ \A k \in j + 1..i - 1 : k \in 1..n
    OBVIOUS
  <2> QED BY <2>1, ZenonT(60) DEF RisesAmong
<1>2. RisesAmong(n + 1, A)' <=> c.v = 1 /\ ~Held(c.op, n, B)
  <2>1. \A j : j \in 1..(n + 1) - 1 <=> j \in 1..n
    OBVIOUS
  <2>2. \A j \in 1..n : \A k : k \in j + 1..(n + 1) - 1 <=> k \in j + 1..n
    OBVIOUS
  <2>3. \A j \in 1..n : \A k \in j + 1..n : k \in 1..n
    OBVIOUS
  <2> QED BY <2>1, <2>2, <2>3 DEF RisesAmong, Held
<1>3. ASSUME NEW op
      PROVE  Held(op, n + 1, A)' <=>
               \/ c.op = op /\ c.v = 1
               \/ Held(op, n, B) /\ n + 1 \notin A /\ ~(c.op = op /\ c.v = 0)
  <2> DEFINE stays(j) == \A k \in j + 1..n + 1 : k \notin A /\ ~(calls'[k].op = op /\ calls'[k].v = 0)
             stayed(j) == \A k \in j + 1..n : k \notin B /\ ~(calls[k].op = op /\ calls[k].v = 0)
  <2>1. Held(op, n + 1, A)' <=> \E j \in 1..n + 1 : calls'[j].op = op /\ calls'[j].v = 1 /\ stays(j)
    BY DEF Held
  <2>2. \A j \in 1..n : stays(j) <=> stayed(j) /\ n + 1 \notin A /\ ~(c.op = op /\ c.v = 0)
    <3>1. \A j \in 1..n : \A k : k \in j + 1..n + 1 <=> (k \in j + 1..n \/ k = n + 1)
      OBVIOUS
    <3>2. \A j \in 1..n : \A k \in j + 1..n : k \in 1..n
      OBVIOUS
    <3> QED BY <3>1, <3>2
  <2>3. stays(n + 1)
    <3>1. \A k : k \notin (n + 1) + 1..n + 1
      OBVIOUS
    <3> QED BY <3>1
  <2>4. \A j : j \in 1..n + 1 <=> (j \in 1..n \/ j = n + 1)
    OBVIOUS
  <2>5. Held(op, n, B) <=> \E j \in 1..n : calls[j].op = op /\ calls[j].v = 1 /\ stayed(j)
    BY DEF Held
  <2> HIDE DEF stays, stayed
  <2> QED BY <2>1, <2>2, <2>3, <2>4, <2>5
<1> QED BY <1>1, <1>2, <1>3

\* A call does not change what was made of the calls before.
LEMMA StepsStay ==
  ASSUME CounterTyped, NEW c, calls' = Append(calls, c), UNCHANGED block, NEW n, n = Len(calls)
  PROVE  /\ n \in Nat /\ Len(calls)' = n + 1 /\ calls'[n + 1] = c
         /\ \A i \in 1..n : calls'[i] = calls[i]
         /\ block = "Z" => \A i \in 1..n : i \in EdgesOfFR' <=> i \in EdgesOfFR
         /\ \A i \in 1..n : \A m : RefStep(m, i)' = RefStep(m, i)
<1>1. /\ n \in Nat /\ Len(calls)' = n + 1 /\ calls'[n + 1] = c
      /\ \A i \in 1..n : calls'[i] = calls[i]
  BY DEF CounterTyped
<1>2. \A i \in 1..n : i \in EdgesOfFR' <=> i \in EdgesOfFR
  <2>1. \A i \in 1..n : RisesAmong(i, {})' <=> RisesAmong(i, {})
    BY <1>1, EdgesGrow
  <2>2. \A i \in 1..n : i \in 1..n + 1
    BY <1>1
  <2> QED BY <1>1, <2>1, <2>2 DEF EdgesOfFR
<1>3. \A i \in 1..n : RefEdge(i)' <=> RefEdge(i)
  <2>1. PICK A : A = EdgesOfFR'
    OBVIOUS
  <2>2. PICK B : B = EdgesOfFR
    OBVIOUS
  <2>3. \A i \in 1..n : RisesAmong(i, A)' <=> RisesAmong(i, B)
    BY <1>1, <1>2, <2>1, <2>2, EdgesGrow
  <2>4. \A i : RefEdge(i)' <=> RisesAmong(i, A)'
    BY <2>1 DEF RefEdge, RisesAmong
  <2>5. \A i : RefEdge(i) <=> RisesAmong(i, B)
    BY <2>2 DEF RefEdge
  <2> QED BY <2>3, <2>4, <2>5
<1>4. ASSUME NEW i \in 1..n, NEW m, block = "Z" PROVE RefZ(m, i)' = RefZ(m, i)
  <2>1. calls'[i] = calls[i] /\ (RefEdge(i)' <=> RefEdge(i)) /\ calls[i] \in ZCall
    BY <1>1, <1>3, <1>4 DEF CounterTyped
  <2>2. calls[i].op \in {"R", "S", "FR", "ZV", "ZR"}
    BY <2>1 DEF ZCall
  <2> QED BY <2>1, <2>2 DEF RefZ
<1>5. ASSUME NEW i \in 1..n, NEW m PROVE RefIec(m, i)' = RefIec(m, i)
  <2>1. calls'[i] = calls[i] /\ (i # 1 => calls'[i - 1] = calls[i - 1])
    BY <1>1
  <2> QED BY <2>1 DEF RefIec
<1>6. ASSUME NEW i \in 1..n, NEW m PROVE RefStep(m, i)' = RefStep(m, i)
  BY <1>4, <1>5 DEF RefStep
<1> QED BY <1>1, <1>2, <1>6

\* The count goes on with what the reference makes of the call.
LEMMA CountGrows ==
  ASSUME CounterTyped, CountInv, NEW c, calls' = Append(calls, c), UNCHANGED block,
         NEW n, n = Len(calls), NEW m, m = counter, counter' \in Int,
         counter' = RefStep(m, n + 1)'
  PROVE  (\E f : CountedBy(f) /\ counter = f[Len(calls)])'
<1>1. /\ n \in Nat /\ Len(calls)' = n + 1
      /\ \A i \in 1..n : \A k : RefStep(k, i)' = RefStep(k, i)
  BY StepsStay
<1>2. PICK f : CountedBy(f) /\ counter = f[n]
  BY DEF CountInv
<1>3. PICK e : e = counter'
  OBVIOUS
<1>4. PICK g : g = [i \in 0..n + 1 |-> IF i = n + 1 THEN e ELSE f[i]]
  OBVIOUS
<1>5. g \in [0..n + 1 -> Int] /\ g[0] = 0 /\ g[n + 1] = e /\ \A i \in 0..n : g[i] = f[i]
  <2>1. \A i \in 0..n + 1 : i = n + 1 \/ i \in 0..n
    BY <1>1
  <2>2. \A i \in 0..n : i \in 0..n + 1 /\ i # n + 1
    BY <1>1
  <2> QED BY <1>1, <1>2, <1>3, <1>4, <2>1, <2>2 DEF CountedBy
<1>6. \A i \in 1..n + 1 : g[i] = RefStep(g[i - 1], i)'
  <2> SUFFICES ASSUME NEW i \in 1..n + 1 PROVE g[i] = RefStep(g[i - 1], i)'
    OBVIOUS
  <2>1. CASE i = n + 1
    <3>1. g[i - 1] = m /\ g[i] = counter'
      BY <1>1, <1>2, <1>3, <1>5, <2>1
    <3>2. \A k, l : k = m /\ l = n + 1 => RefStep(k, l)' = RefStep(m, n + 1)'
      OBVIOUS
    <3> QED BY <2>1, <3>1, <3>2
  <2>2. CASE i \in 1..n
    <3>1. g[i - 1] = f[i - 1] /\ g[i] = f[i]
      BY <1>5, <2>2
    <3>2. f[i] = RefStep(f[i - 1], i)
      BY <1>2, <2>2 DEF CountedBy
    <3>3. RefStep(g[i - 1], i)' = RefStep(g[i - 1], i)
      BY <1>1, <2>2
    <3> QED BY <3>1, <3>2, <3>3
  <2> QED BY <1>1, <2>1, <2>2
<1>7. CountedBy(g)'
  BY <1>1, <1>5, <1>6 DEF CountedBy
<1> QED BY <1>1, <1>3, <1>5, <1>7

\* What an instruction of Z finds and leaves in the history.
LEMMA CallOfZ ==
  ASSUME CounterTyped, StoresKept, block = "Z", ~failed, NEW c \in ZCall,
         calls' = Append(calls, c), UNCHANGED block, NEW n, n = Len(calls)
  PROVE  /\ c.op \in {"S", "ZV", "ZR"} => (RefEdge(n + 1)' <=> RisingEdge(c.op, c.v))
         /\ Held("FR", Len(calls), {})' <=>
              \/ c.op = "FR" /\ c.v = 1
              \/ prev["FR"] = 1 /\ ~(c.op = "FR" /\ c.v = 0)
         /\ \A op \in {"S", "ZV", "ZR"} :
              Held(op, Len(calls), EdgesOfFR)' <=>
                \/ c.op = op /\ c.v = 1
                \/ prev[op] = 1 /\ ~(c.op = "FR" /\ RisingEdge("FR", c.v)) /\ ~(c.op = op /\ c.v = 0)
<1>1. /\ n \in Nat /\ Len(calls)' = n + 1 /\ calls'[n + 1] = c
      /\ \A i \in 1..n : calls'[i] = calls[i]
      /\ \A i \in 1..n : i \in EdgesOfFR' <=> i \in EdgesOfFR
  BY StepsStay
<1>2. PICK A : A = EdgesOfFR'
  OBVIOUS
<1>3. PICK B : B = EdgesOfFR
  OBVIOUS
<1>4. /\ RisesAmong(n + 1, {})' <=> c.v = 1 /\ ~Held(c.op, n, {})
      /\ \A op : Held(op, n + 1, {})' <=>
           \/ c.op = op /\ c.v = 1
           \/ Held(op, n, {}) /\ ~(c.op = op /\ c.v = 0)
  <2>1. PICK E : E = {}
    OBVIOUS
  <2>10. \A k \in 1..n : k \in E <=> k \in E
    OBVIOUS
  <2>11. calls'[n + 1] = c /\ \A i \in 1..n : calls'[i] = calls[i]
    BY <1>1
  <2>12. n \in Nat /\ Len(calls)' = n + 1
    BY <1>1
  <2>2. /\ RisesAmong(n + 1, E)' <=> c.v = 1 /\ ~Held(c.op, n, E)
        /\ \A op : Held(op, n + 1, E)' <=>
             \/ c.op = op /\ c.v = 1
             \/ Held(op, n, E) /\ n + 1 \notin E /\ ~(c.op = op /\ c.v = 0)
    BY <2>10, <2>11, <2>12, EdgesGrow, ZenonT(60)
  <2>3. /\ RisesAmong(n + 1, {})' <=> RisesAmong(n + 1, E)'
        /\ Held(c.op, n, {}) <=> Held(c.op, n, E)
    BY <2>1 DEF RisesAmong
  <2>4. \A op : Held(op, n + 1, {})' <=> Held(op, n + 1, E)'
    BY <2>1 DEF Held
  <2>5. \A op : Held(op, n, {}) <=> Held(op, n, E)
    BY <2>1 DEF Held
  <2>6. n + 1 \notin E
    BY <2>1
  <2>7. \A op : Held(op, n + 1, {})' <=>
             \/ c.op = op /\ c.v = 1
             \/ Held(op, n, {}) /\ ~(c.op = op /\ c.v = 0)
    BY <2>2, <2>4, <2>5, <2>6
  <2> QED BY <2>2, <2>3, <2>7
<1>5. /\ RisesAmong(n + 1, A)' <=> c.v = 1 /\ ~Held(c.op, n, B)
      /\ \A op : Held(op, n + 1, A)' <=>
           \/ c.op = op /\ c.v = 1
           \/ Held(op, n, B) /\ n + 1 \notin A /\ ~(c.op = op /\ c.v = 0)
  BY <1>1, <1>2, <1>3, EdgesGrow, ZenonT(60)
<1>6. /\ prev["FR"] = 1 <=> Held("FR", n, {})
      /\ \A op \in {"S", "ZV", "ZR"} : prev[op] = 1 <=> Held(op, n, B)
  BY <1>3 DEF StoresKept
<1>7. \A s \in Stores : prev[s] \in {0, 1}
  BY DEF CounterTyped
<1>8. {"FR", "S", "ZV", "ZR"} \subseteq Stores
  BY DEF Stores
<1>9. n + 1 \in A <=> c.op = "FR" /\ RisingEdge("FR", c.v)
  <2>1. n + 1 \in A <=> c.op = "FR" /\ RisesAmong(n + 1, {})'
    BY <1>1, <1>2 DEF EdgesOfFR
  <2>2. prev["FR"] \in {0, 1}
    BY <1>7, <1>8
  <2>3. c.op = "FR" => (RisesAmong(n + 1, {})' <=> c.v = 1 /\ prev["FR"] # 1)
    BY <1>4, <1>6
  <2> QED BY <2>1, <2>2, <2>3 DEF RisingEdge
<1>10. c.op \in {"S", "ZV", "ZR"} => (RefEdge(n + 1)' <=> RisingEdge(c.op, c.v))
  <2> SUFFICES ASSUME c.op \in {"S", "ZV", "ZR"} PROVE RefEdge(n + 1)' <=> RisingEdge(c.op, c.v)
    OBVIOUS
  <2>1. RefEdge(n + 1)' <=> RisesAmong(n + 1, A)'
    BY <1>2 DEF RefEdge, RisesAmong
  <2>2. prev[c.op] \in {0, 1}
    BY <1>7, <1>8
  <2>3. prev[c.op] = 1 <=> Held(c.op, n, B)
    BY <1>6
  <2> QED BY <1>5, <2>1, <2>2, <2>3 DEF RisingEdge
<1>11. Held("FR", Len(calls), {})' <=> Held("FR", n + 1, {})'
  BY <1>1 DEF Held
<1>12. \A op : Held(op, Len(calls), EdgesOfFR)' <=> Held(op, n + 1, A)'
  BY <1>1, <1>2 DEF Held
<1>13. Held("FR", n + 1, {})' <=>
         \/ c.op = "FR" /\ c.v = 1
         \/ prev["FR"] = 1 /\ ~(c.op = "FR" /\ c.v = 0)
  BY <1>4, <1>6
<1>14. \A op \in {"S", "ZV", "ZR"} :
         Held(op, n + 1, A)' <=>
           \/ c.op = op /\ c.v = 1
           \/ prev[op] = 1 /\ ~(c.op = "FR" /\ RisingEdge("FR", c.v)) /\ ~(c.op = op /\ c.v = 0)
  BY <1>5, <1>6, <1>9
<1> QED BY <1>10, <1>11, <1>12, <1>13, <1>14

\* The part of the invariant that is about Z, from what an instruction does.
LEMMA InstructionOfZ ==
  ASSUME CounterInv, block = "Z", ~failed, NEW c \in ZCall,
         calls' = Append(calls, c), UNCHANGED <<block, Q>>,
         NEW n, n = Len(calls), NEW m, m = counter,
         counter' \in 0..MaxCount, counter' = RefZ(m, n + 1)',
         prev' \in [Stores -> {0, 1}], failed' \in BOOLEAN,
         ~failed' =>
           /\ prev'["FR"] = IF c.op = "FR" THEN c.v ELSE prev["FR"]
           /\ \A op \in {"S", "ZV", "ZR"} :
                prev'[op] = IF c.op = op THEN c.v
                            ELSE IF c.op = "FR" /\ RisingEdge("FR", c.v) THEN 0 ELSE prev[op]
  PROVE  CounterInv'
<1>1. CounterTyped /\ StoresKept /\ CountInv
  BY DEF CounterInv
<1>2. /\ Held("FR", Len(calls), {})' <=>
           \/ c.op = "FR" /\ c.v = 1
           \/ prev["FR"] = 1 /\ ~(c.op = "FR" /\ c.v = 0)
      /\ \A op \in {"S", "ZV", "ZR"} :
           Held(op, Len(calls), EdgesOfFR)' <=>
             \/ c.op = op /\ c.v = 1
             \/ prev[op] = 1 /\ ~(c.op = "FR" /\ RisingEdge("FR", c.v)) /\ ~(c.op = op /\ c.v = 0)
  BY <1>1, CallOfZ
<1>3. c.v \in {0, 1}
  BY DEF ZCall
<1>4. CounterTyped'
  <2>1. calls' \in Seq(ZCall)
    BY <1>1 DEF CounterTyped
  <2>2. counter' \in MinCount..MaxCount /\ counter' >= 0
    BY CounterAssumption
  <2> QED BY <1>1, <2>1, <2>2 DEF CounterTyped
<1>5. StoresKept'
  <2>1. ASSUME ~failed' PROVE prev'["FR"] = 1 <=> Held("FR", Len(calls), {})'
    BY <1>2, <1>3, <2>1
  <2>2. ASSUME ~failed', NEW op \in {"S", "ZV", "ZR"}
        PROVE  prev'[op] = 1 <=> Held(op, Len(calls), EdgesOfFR)'
    <3>1. prev'[op] = IF c.op = op THEN c.v
                      ELSE IF c.op = "FR" /\ RisingEdge("FR", c.v) THEN 0 ELSE prev[op]
      BY <2>2
    <3>2. CASE c.op = op
      BY <1>2, <1>3, <3>1, <3>2
    <3>3. CASE c.op # op
      BY <1>2, <3>1, <3>3
    <3> QED BY <3>2, <3>3
  <2>3. block' = "Z"
    OBVIOUS
  <2> QED BY <2>1, <2>2, <2>3 DEF StoresKept
<1>6. CountInv'
  <2>1. counter' \in Int
    BY CounterAssumption
  <2>2. counter' = RefStep(m, n + 1)'
    BY DEF RefStep
  <2>3. (\E f : CountedBy(f) /\ counter = f[Len(calls)])'
    BY <1>1, <2>1, <2>2, CountGrows
  <2>4. block' \notin {"CTU", "CTD", "CTUD"}
    OBVIOUS
  <2> QED BY <2>3, <2>4 DEF CountInv
<1> QED BY <1>4, <1>5, <1>6 DEF CounterInv

LEMMA SetKeeps ==
  ASSUME CounterInv, NEW v \in {0, 1}, NEW preset \in (Presets \cap 0..MaxCount) \cup {Invalid},
         Set(v, preset)
  PROVE  CounterInv'
<1> DEFINE made == [op |-> "S", v |-> v, preset |-> preset]
<1>1. PICK c : c = made
  OBVIOUS
<1>2. preset \in Int /\ (preset # Invalid => preset \in 0..MaxCount)
  BY CounterAssumption DEF Invalid
<1>3. c \in ZCall /\ c.op = "S" /\ c.v = v /\ c.preset = preset
  BY <1>1, <1>2 DEF ZCall
<1>4. PICK n : n = Len(calls)
  OBVIOUS
<1>5. PICK m : m = counter
  OBVIOUS
<1>6. /\ block = "Z" /\ ~failed /\ calls' = Append(calls, c) /\ UNCHANGED <<block, Q>>
  BY <1>1 DEF Set, Called
<1>7. CounterTyped /\ StoresKept
  BY DEF CounterInv
<1>8. /\ counter \in 0..MaxCount /\ prev \in [Stores -> {0, 1}] /\ failed \in BOOLEAN
  BY <1>6, <1>7, CounterAssumption DEF CounterTyped
<1>9. (RefEdge(n + 1)' <=> RisingEdge("S", v)) /\ calls'[n + 1] = c
  BY <1>3, <1>4, <1>6, <1>7, CallOfZ, StepsStay
<1>10. RefZ(m, n + 1)' = IF RisingEdge("S", v) /\ preset # Invalid THEN preset ELSE m
  <2>1. RefZ(m, n + 1)' = IF RefEdge(n + 1)' /\ c.preset # Invalid THEN c.preset ELSE m
    BY <1>3, <1>9 DEF RefZ
  <2> QED BY <1>3, <1>9, <2>1
<1>11. /\ counter' = RefZ(m, n + 1)' /\ counter' \in 0..MaxCount
       /\ prev' \in [Stores -> {0, 1}] /\ failed' \in BOOLEAN
  <2>1. CASE RisingEdge("S", v) /\ preset = Invalid
    BY <1>5, <1>8, <1>10, <2>1 DEF Set
  <2>2. CASE ~(RisingEdge("S", v) /\ preset = Invalid)
    <3>1. /\ counter' = IF RisingEdge("S", v) THEN preset ELSE counter
          /\ prev' = [prev EXCEPT !["S"] = v] /\ failed' = failed
      BY <2>2 DEF Set
    <3> QED BY <1>2, <1>5, <1>8, <1>10, <2>2, <3>1
  <2> QED BY <2>1, <2>2
<1>12. ~failed' =>
         /\ prev'["FR"] = IF c.op = "FR" THEN c.v ELSE prev["FR"]
         /\ \A op \in {"S", "ZV", "ZR"} :
              prev'[op] = IF c.op = op THEN c.v
                          ELSE IF c.op = "FR" /\ RisingEdge("FR", c.v) THEN 0 ELSE prev[op]
  <2>1. ~failed' => prev' = [prev EXCEPT !["S"] = v]
    BY DEF Set
  <2> QED BY <1>3, <1>8, <2>1 DEF Stores
<1> QED BY <1>3, <1>4, <1>5, <1>6, <1>11, <1>12, InstructionOfZ

LEMMA ResetKeeps ==
  ASSUME CounterInv, Reset
  PROVE  CounterInv'
<1> DEFINE made == [op |-> "R", v |-> 1]
<1>1. PICK c : c = made
  OBVIOUS
<1>2. c \in ZCall /\ c.op = "R" /\ c.v = 1
  BY <1>1 DEF ZCall
<1>3. PICK n : n = Len(calls)
  OBVIOUS
<1>4. PICK m : m = counter
  OBVIOUS
<1>5. /\ block = "Z" /\ ~failed /\ calls' = Append(calls, c) /\ UNCHANGED <<block, Q>>
      /\ counter' = 0 /\ prev' = prev /\ failed' = failed
  BY <1>1 DEF Reset, Called
<1>6. CounterTyped
  BY DEF CounterInv
<1>7. calls'[n + 1] = c
  BY <1>3, <1>5, <1>6, StepsStay
<1>8. /\ counter' = RefZ(m, n + 1)' /\ counter' \in 0..MaxCount
  BY <1>2, <1>5, <1>7, CounterAssumption DEF RefZ
<1>9. prev' \in [Stores -> {0, 1}] /\ failed' \in BOOLEAN
  BY <1>5, <1>6 DEF CounterTyped
<1>10. /\ prev'["FR"] = IF c.op = "FR" THEN c.v ELSE prev["FR"]
       /\ \A op \in {"S", "ZV", "ZR"} :
            prev'[op] = IF c.op = op THEN c.v
                        ELSE IF c.op = "FR" /\ RisingEdge("FR", c.v) THEN 0 ELSE prev[op]
  BY <1>2, <1>5
<1> QED BY <1>2, <1>3, <1>4, <1>5, <1>8, <1>9, <1>10, InstructionOfZ

LEMMA RunFRKeeps ==
  ASSUME CounterInv, NEW v \in {0, 1}, RunFR(v)
  PROVE  CounterInv'
<1> DEFINE made == [op |-> "FR", v |-> v]
<1>1. PICK c : c = made
  OBVIOUS
<1>2. c \in ZCall /\ c.op = "FR" /\ c.v = v
  BY <1>1 DEF ZCall
<1>3. PICK n : n = Len(calls)
  OBVIOUS
<1>4. PICK m : m = counter
  OBVIOUS
<1>5. /\ block = "Z" /\ ~failed /\ calls' = Append(calls, c) /\ UNCHANGED <<block, Q>>
      /\ counter' = counter /\ failed' = failed
  BY <1>1 DEF RunFR, Called
<1>6. CounterTyped
  BY DEF CounterInv
<1>7. calls'[n + 1] = c
  BY <1>3, <1>5, <1>6, StepsStay
<1>8. counter' = RefZ(m, n + 1)' /\ counter' \in 0..MaxCount
  <2>1. counter \in 0..MaxCount
    BY <1>5, <1>6, CounterAssumption DEF CounterTyped
  <2> QED BY <1>2, <1>4, <1>5, <1>7, <2>1 DEF RefZ
<1>9. prev \in [Stores -> {0, 1}] /\ failed' \in BOOLEAN
  BY <1>5, <1>6 DEF CounterTyped
<1>10. /\ prev' \in [Stores -> {0, 1}]
       /\ prev'["FR"] = v
       /\ \A op \in {"S", "ZV", "ZR"} : prev'[op] = IF RisingEdge("FR", v) THEN 0 ELSE prev[op]
  <2>1. CASE RisingEdge("FR", v)
    <3>1. prev' = [prev EXCEPT !["FR"] = v, !["S"] = 0, !["ZV"] = 0, !["ZR"] = 0]
      BY <2>1 DEF RunFR
    <3> QED BY <1>9, <2>1, <3>1 DEF Stores
  <2>2. CASE ~RisingEdge("FR", v)
    <3>1. prev' = [prev EXCEPT !["FR"] = v]
      BY <2>2 DEF RunFR
    <3> QED BY <1>9, <2>2, <3>1 DEF Stores
  <2> QED BY <2>1, <2>2
<1>11. /\ prev'["FR"] = IF c.op = "FR" THEN c.v ELSE prev["FR"]
       /\ \A op \in {"S", "ZV", "ZR"} :
            prev'[op] = IF c.op = op THEN c.v
                        ELSE IF c.op = "FR" /\ RisingEdge("FR", c.v) THEN 0 ELSE prev[op]
  BY <1>2, <1>10
<1> QED BY <1>2, <1>3, <1>4, <1>5, <1>8, <1>9, <1>10, <1>11, InstructionOfZ

\* ZV and ZR: one store, and a count that goes one up or one down.
LEMMA RunZVKeeps ==
  ASSUME CounterInv, NEW v \in {0, 1}, RunZV(v)
  PROVE  CounterInv'
<1> DEFINE made == [op |-> "ZV", v |-> v]
<1>1. PICK c : c = made
  OBVIOUS
<1>2. c \in ZCall /\ c.op = "ZV" /\ c.v = v
  BY <1>1 DEF ZCall
<1>3. PICK n : n = Len(calls)
  OBVIOUS
<1>4. PICK m : m = counter
  OBVIOUS
<1>5. /\ block = "Z" /\ ~failed /\ calls' = Append(calls, c) /\ UNCHANGED <<block, Q>>
      /\ failed' = failed /\ prev' = [prev EXCEPT !["ZV"] = v]
      /\ counter' = IF RisingEdge("ZV", v) THEN CountUp(counter) ELSE counter
  BY <1>1 DEF RunZV, Called
<1>6. CounterTyped /\ StoresKept
  BY DEF CounterInv
<1>7. (RefEdge(n + 1)' <=> RisingEdge("ZV", v)) /\ calls'[n + 1] = c
  BY <1>2, <1>3, <1>5, <1>6, CallOfZ, StepsStay
<1>8. counter' = RefZ(m, n + 1)' /\ counter' \in 0..MaxCount
  <2>1. m \in 0..MaxCount
    BY <1>4, <1>5, <1>6, CounterAssumption DEF CounterTyped
  <2>2. RefZ(m, n + 1)' = IF RefEdge(n + 1)' /\ m < MaxCount THEN m + 1 ELSE m
    BY <1>2, <1>7 DEF RefZ
  <2>3. counter' = IF RisingEdge("ZV", v) /\ m < MaxCount THEN m + 1 ELSE m
    BY <1>4, <1>5 DEF CountUp
  <2> QED BY <1>7, <2>1, <2>2, <2>3, CounterAssumption
<1>9. prev \in [Stores -> {0, 1}] /\ failed' \in BOOLEAN
  BY <1>5, <1>6 DEF CounterTyped
<1>10. /\ prev' \in [Stores -> {0, 1}]
       /\ prev'["FR"] = IF c.op = "FR" THEN c.v ELSE prev["FR"]
       /\ \A op \in {"S", "ZV", "ZR"} :
            prev'[op] = IF c.op = op THEN c.v
                        ELSE IF c.op = "FR" /\ RisingEdge("FR", c.v) THEN 0 ELSE prev[op]
  BY <1>2, <1>5, <1>9 DEF Stores
<1> QED BY <1>2, <1>3, <1>4, <1>5, <1>8, <1>9, <1>10, InstructionOfZ

LEMMA RunZRKeeps ==
  ASSUME CounterInv, NEW v \in {0, 1}, RunZR(v)
  PROVE  CounterInv'
<1> DEFINE made == [op |-> "ZR", v |-> v]
<1>1. PICK c : c = made
  OBVIOUS
<1>2. c \in ZCall /\ c.op = "ZR" /\ c.v = v
  BY <1>1 DEF ZCall
<1>3. PICK n : n = Len(calls)
  OBVIOUS
<1>4. PICK m : m = counter
  OBVIOUS
<1>5. /\ block = "Z" /\ ~failed /\ calls' = Append(calls, c) /\ UNCHANGED <<block, Q>>
      /\ failed' = failed /\ prev' = [prev EXCEPT !["ZR"] = v]
      /\ counter' = IF RisingEdge("ZR", v) THEN CountDown(counter) ELSE counter
  BY <1>1 DEF RunZR, Called
<1>6. CounterTyped /\ StoresKept
  BY DEF CounterInv
<1>7. (RefEdge(n + 1)' <=> RisingEdge("ZR", v)) /\ calls'[n + 1] = c
  BY <1>2, <1>3, <1>5, <1>6, CallOfZ, StepsStay
<1>8. counter' = RefZ(m, n + 1)' /\ counter' \in 0..MaxCount
  <2>1. m \in 0..MaxCount
    BY <1>4, <1>5, <1>6, CounterAssumption DEF CounterTyped
  <2>2. RefZ(m, n + 1)' = IF RefEdge(n + 1)' /\ m > 0 THEN m - 1 ELSE m
    BY <1>2, <1>7 DEF RefZ
  <2>3. counter' = IF RisingEdge("ZR", v) /\ m > 0 THEN m - 1 ELSE m
    BY <1>4, <1>5 DEF CountDown, Lowest
  <2> QED BY <1>7, <2>1, <2>2, <2>3, CounterAssumption
<1>9. prev \in [Stores -> {0, 1}] /\ failed' \in BOOLEAN
  BY <1>5, <1>6 DEF CounterTyped
<1>10. /\ prev' \in [Stores -> {0, 1}]
       /\ prev'["FR"] = IF c.op = "FR" THEN c.v ELSE prev["FR"]
       /\ \A op \in {"S", "ZV", "ZR"} :
            prev'[op] = IF c.op = op THEN c.v
                        ELSE IF c.op = "FR" /\ RisingEdge("FR", c.v) THEN 0 ELSE prev[op]
  BY <1>2, <1>5, <1>9 DEF Stores
<1> QED BY <1>2, <1>3, <1>4, <1>5, <1>8, <1>9, <1>10, InstructionOfZ

\* What the reference makes of a call of an IEC block is what the block makes of it.
LEMMA IecReference ==
  ASSUME CounterTyped, StoresKept, block # "Z", NEW c \in IecInputs,
         calls' = Append(calls, c), UNCHANGED block, NEW n, n = Len(calls), NEW m \in Int,
         NEW more \in {0, 1}, more = 1 <=> block # "CTD" /\ RisingEdge("CU", c.CU),
         NEW less \in {0, 1}, less = 1 <=> block # "CTU" /\ RisingEdge("CD", c.CD),
         NEW moved, moved = m + more - less
  PROVE  RefIec(m, n + 1)' =
           IF block # "CTD" /\ c.R = 1 THEN 0
           ELSE IF block # "CTU" /\ c.LOAD = 1 THEN c.PV
           ELSE IF moved \in MinCount..MaxCount THEN moved ELSE m
<1>1. /\ n \in Nat /\ calls'[n + 1] = c /\ \A i \in 1..n : calls'[i] = calls[i]
  BY StepsStay
<1>2. calls = <<>> <=> n = 0
  BY DEF CounterTyped
<1> DEFINE risen(x) == calls'[n + 1][x] = 1 /\ (n + 1 = 1 \/ calls'[(n + 1) - 1][x] = 0)
<1>3. n # 0 => calls'[(n + 1) - 1] = calls[n]
  BY <1>1
<1>4. block # "CTD" => (risen("CU") <=> RisingEdge("CU", c.CU))
  <2>1. block # "CTD" => prev["CU"] = IF n = 0 THEN 0 ELSE calls[n].CU
    BY <1>2 DEF StoresKept, CounterTyped
  <2>2. calls'[n + 1]["CU"] = c.CU /\ (n # 0 => calls'[(n + 1) - 1]["CU"] = calls[n].CU)
    BY <1>1, <1>3
  <2>3. n + 1 = 1 <=> n = 0
    BY <1>1
  <2> QED BY <2>1, <2>2, <2>3 DEF RisingEdge
<1>5. block # "CTU" => (risen("CD") <=> RisingEdge("CD", c.CD))
  <2>1. block # "CTU" => prev["CD"] = IF n = 0 THEN 0 ELSE calls[n].CD
    BY <1>2 DEF StoresKept, CounterTyped
  <2>2. calls'[n + 1]["CD"] = c.CD /\ (n # 0 => calls'[(n + 1) - 1]["CD"] = calls[n].CD)
    BY <1>1, <1>3
  <2>3. n + 1 = 1 <=> n = 0
    BY <1>1
  <2> QED BY <2>1, <2>2, <2>3 DEF RisingEdge
<1> DEFINE ups == IF block # "CTD" /\ risen("CU") THEN 1 ELSE 0
           downs == IF block # "CTU" /\ risen("CD") THEN 1 ELSE 0
<1>6. ups = more /\ downs = less
  <2> HIDE DEF risen
  <2> QED BY <1>4, <1>5
<1>7. RefIec(m, n + 1)' =
        IF block # "CTD" /\ calls'[n + 1].R = 1 THEN 0
        ELSE IF block # "CTU" /\ calls'[n + 1].LOAD = 1 THEN calls'[n + 1].PV
        ELSE IF m + ups - downs \in MinCount..MaxCount THEN m + ups - downs ELSE m
  BY DEF RefIec
<1> HIDE DEF ups, downs
<1> QED BY <1>1, <1>6, <1>7

\* The count of a block follows the reference, from limits to limits.
LEMMA IecCountFollows ==
  ASSUME CounterTyped, StoresKept, block # "Z", NEW c \in IecInputs,
         calls' = Append(calls, c), UNCHANGED block, NEW n, n = Len(calls), NEW m, m = counter,
         counter' = CASE block = "CTU" -> NewCountCTU(c)
                      [] block = "CTD" -> NewCountCTD(c)
                      [] OTHER -> NewCountCTUD(c)
  PROVE  counter' = RefIec(m, n + 1)' /\ counter' \in MinCount..MaxCount
<1>1. m \in MinCount..MaxCount /\ m \in Int /\ MaxCount \in Nat /\ MinCount \in Int /\ MinCount <= 0
  BY CounterAssumption DEF CounterTyped
<1>2. /\ CountUp(counter) = IF m < MaxCount THEN m + 1 ELSE m
      /\ CountDown(counter) = IF m > MinCount THEN m - 1 ELSE m
  BY DEF CountUp, CountDown, Lowest
<1>3. c.PV \in MinCount..MaxCount
  BY DEF IecInputs
<1>4. PICK more \in {0, 1} : more = 1 <=> block # "CTD" /\ RisingEdge("CU", c.CU)
  OBVIOUS
<1>5. PICK less \in {0, 1} : less = 1 <=> block # "CTU" /\ RisingEdge("CD", c.CD)
  OBVIOUS
<1>10. PICK moved : moved = m + more - less
  OBVIOUS
<1>6. RefIec(m, n + 1)' =
        IF block # "CTD" /\ c.R = 1 THEN 0
        ELSE IF block # "CTU" /\ c.LOAD = 1 THEN c.PV
        ELSE IF moved \in MinCount..MaxCount THEN moved ELSE m
  BY <1>1, <1>4, <1>5, <1>10, IecReference
<1>7. CASE block = "CTU"
  <2>1. counter' = IF c.R = 1 THEN 0
                   ELSE IF RisingEdge("CU", c.CU) THEN CountUp(counter) ELSE m
    BY <1>7 DEF NewCountCTU
  <2> QED BY <1>1, <1>2, <1>4, <1>5, <1>6, <1>7, <1>10, <2>1
<1>8. CASE block = "CTD"
  <2>1. counter' = IF c.LOAD = 1 THEN c.PV
                   ELSE IF RisingEdge("CD", c.CD) THEN CountDown(counter) ELSE m
    BY <1>8 DEF NewCountCTD
  <2> QED BY <1>1, <1>2, <1>3, <1>4, <1>5, <1>6, <1>8, <1>10, <2>1
<1>9. CASE block = "CTUD"
  <2>1. counter' = IF c.R = 1 THEN 0
                   ELSE IF c.LOAD = 1 THEN c.PV
                   ELSE IF RisingEdge("CD", c.CD) /\ ~RisingEdge("CU", c.CU) THEN CountDown(counter)
                   ELSE IF RisingEdge("CU", c.CU) /\ ~RisingEdge("CD", c.CD) THEN CountUp(counter)
                   ELSE m
    BY <1>9 DEF NewCountCTUD
  <2> QED BY <1>1, <1>2, <1>3, <1>4, <1>5, <1>6, <1>9, <1>10, <2>1
<1> QED BY <1>7, <1>8, <1>9 DEF CounterTyped

LEMMA IecCallKeeps ==
  ASSUME CounterInv, NEW c \in Inputs, IecCall(c)
  PROVE  CounterInv'
<1>1. CounterTyped /\ StoresKept /\ CountInv
  BY DEF CounterInv
<1>2. PICK n : n = Len(calls)
  OBVIOUS
<1>3. PICK m : m = counter
  OBVIOUS
<1>4. c \in IecInputs
  BY CounterAssumption DEF Inputs, IecInputs
<1>5. /\ block # "Z" /\ block \in {"CTU", "CTD", "CTUD"} /\ calls' = Append(calls, c)
      /\ UNCHANGED <<block, failed>>
  BY <1>1 DEF IecCall, Called, CounterTyped
<1>6. /\ n \in Nat /\ Len(calls)' = n + 1 /\ calls'[n + 1] = c /\ calls' # <<>>
      /\ calls' \in Seq(IecInputs)
  BY <1>1, <1>2, <1>4, <1>5, StepsStay DEF CounterTyped
<1>7. c.CU \in {0, 1} /\ c.CD \in {0, 1}
  BY <1>4 DEF IecInputs
<1>8. \A b \in BOOLEAN : AsBit(b) \in {0, 1} /\ (AsBit(b) = 1 <=> b)
  BY DEF AsBit
<1>9. block = "CTU" =>
        /\ counter' = NewCountCTU(c) /\ prev' = [prev EXCEPT !["CU"] = c.CU]
        /\ Q' = [Q EXCEPT !.up = AsBit(counter' >= c.PV)]
  BY DEF IecCall
<1>10. block = "CTD" =>
        /\ counter' = NewCountCTD(c) /\ prev' = [prev EXCEPT !["CD"] = c.CD]
        /\ Q' = [Q EXCEPT !.down = AsBit(counter' <= 0)]
  BY DEF IecCall
<1>11. block = "CTUD" =>
        /\ counter' = NewCountCTUD(c) /\ prev' = [prev EXCEPT !["CU"] = c.CU, !["CD"] = c.CD]
        /\ Q' = [up |-> AsBit(counter' >= c.PV), down |-> AsBit(counter' <= 0)]
  BY DEF IecCall
<1>12. counter' = RefIec(m, n + 1)' /\ counter' \in MinCount..MaxCount
  <2>1. counter' = CASE block = "CTU" -> NewCountCTU(c)
                     [] block = "CTD" -> NewCountCTD(c)
                     [] OTHER -> NewCountCTUD(c)
    BY <1>5, <1>9, <1>10, <1>11
  <2> QED BY <1>1, <1>2, <1>3, <1>4, <1>5, <2>1, IecCountFollows
<1>13. prev \in [Stores -> {0, 1}] /\ {"CU", "CD"} \subseteq Stores
  BY <1>1 DEF CounterTyped, Stores
<1>14. Q \in [up : {0, 1}, down : {0, 1}]
  BY <1>1 DEF CounterTyped
<1>15. /\ prev' \in [Stores -> {0, 1}]
       /\ block \in {"CTU", "CTUD"} => prev'["CU"] = c.CU
       /\ block \in {"CTD", "CTUD"} => prev'["CD"] = c.CD
  BY <1>5, <1>7, <1>9, <1>10, <1>11, <1>13
<1>16. PICK above : above = AsBit(counter' >= c.PV)
  OBVIOUS
<1>17. PICK below : below = AsBit(counter' <= 0)
  OBVIOUS
<1>18. /\ above \in {0, 1} /\ (above = 1 <=> counter' >= c.PV)
       /\ below \in {0, 1} /\ (below = 1 <=> counter' <= 0)
  BY <1>16, <1>17 DEF AsBit
<1>19. /\ Q' \in [up : {0, 1}, down : {0, 1}]
       /\ block \in {"CTU", "CTUD"} => Q'.up = above
       /\ block \in {"CTD", "CTUD"} => Q'.down = below
  <2>1. CASE block = "CTU"
    BY <1>9, <1>14, <1>16, <1>18, <2>1
  <2>2. CASE block = "CTD"
    BY <1>10, <1>14, <1>17, <1>18, <2>2
  <2>3. CASE block = "CTUD"
    BY <1>11, <1>16, <1>17, <1>18, <2>3
  <2> QED BY <1>5, <2>1, <2>2, <2>3
<1>20. CounterTyped'
  <2>1. failed' \in BOOLEAN
    BY <1>1, <1>5 DEF CounterTyped
  <2> QED BY <1>5, <1>6, <1>12, <1>15, <1>19, <2>1 DEF CounterTyped
<1>21. StoresKept'
  BY <1>5, <1>6, <1>15 DEF StoresKept
<1>22. CountInv'
  <2>1. counter' \in Int
    BY <1>12, CounterAssumption
  <2>2. counter' = RefStep(m, n + 1)'
    BY <1>5, <1>12 DEF RefStep
  <2>3. (\E f : CountedBy(f) /\ counter = f[Len(calls)])'
    BY <1>1, <1>2, <1>3, <1>5, <2>1, <2>2, CountGrows
  <2>4. calls'[Len(calls')] = c
    BY <1>6
  <2>5. /\ block' \in {"CTU", "CTUD"} => (Q'.up = 1 <=> counter' >= c.PV)
        /\ block' \in {"CTD", "CTUD"} => (Q'.down = 1 <=> counter' <= 0)
    BY <1>5, <1>18, <1>19
  <2> QED BY <2>3, <2>4, <2>5 DEF CountInv
<1> QED BY <1>20, <1>21, <1>22 DEF CounterInv

\* A new counter: nothing stored, nothing counted.
FreshCounter ==
    /\ block \in {"Z", "CTU", "CTD", "CTUD"}
    /\ counter = 0 /\ prev = [s \in Stores |-> 0]
    /\ Q = [up |-> 0, down |-> 0] /\ failed = FALSE /\ calls = <<>>

LEMMA FreshIsRight == FreshCounter => CounterInv
<1> SUFFICES ASSUME FreshCounter PROVE CounterInv
  OBVIOUS
<1>1. CounterTyped
  <2>1. calls \in Seq(IF block = "Z" THEN ZCall ELSE IecInputs)
    BY DEF FreshCounter
  <2>2. counter \in MinCount..MaxCount /\ counter >= 0
    BY CounterAssumption DEF FreshCounter
  <2> QED BY <2>1, <2>2 DEF CounterTyped, FreshCounter
<1>2. StoresKept
  <2>1. \A op, releases : ~Held(op, Len(calls), releases)
    BY DEF Held, FreshCounter
  <2>2. \A s \in Stores : prev[s] = 0
    BY DEF FreshCounter
  <2>3. {"FR", "S", "ZV", "ZR", "CU", "CD"} \subseteq Stores
    BY DEF Stores
  <2>4. calls = <<>>
    BY DEF FreshCounter
  <2> QED BY <2>1, <2>2, <2>3, <2>4 DEF StoresKept
<1>3. CountInv
  <2>1. PICK f : f = [i \in 0..0 |-> 0]
    OBVIOUS
  <2>2. f \in [0..0 -> Int] /\ f[0] = 0
    BY <2>1
  <2>3. Len(calls) = 0 /\ calls = <<>> /\ counter = 0
    BY DEF FreshCounter
  <2>4. CountedBy(f) /\ counter = f[Len(calls)]
    BY <2>2, <2>3 DEF CountedBy
  <2> QED BY <2>3, <2>4 DEF CountInv
<1> QED BY <1>1, <1>2, <1>3 DEF CounterInv

LEMMA FreshAgain == FreshCounter' => CounterInv'
BY FreshIsRight, PTL

LEMMA CounterStep ==
  ASSUME CounterInv, [CounterNext]_counterVars
  PROVE  CounterInv'
<1>1. CASE CounterNext
  <2>1. ASSUME NEW v \in {0, 1}, RunFR(v) PROVE CounterInv'
    BY <2>1, RunFRKeeps
  <2>2. ASSUME NEW v \in {0, 1}, RunZV(v) PROVE CounterInv'
    BY <2>2, RunZVKeeps
  <2>3. ASSUME NEW v \in {0, 1}, RunZR(v) PROVE CounterInv'
    BY <2>3, RunZRKeeps
  <2>4. ASSUME NEW v \in {0, 1}, NEW preset \in (Presets \cap 0..MaxCount) \cup {Invalid},
               Set(v, preset)
        PROVE  CounterInv'
    BY <2>4, SetKeeps
  <2>5. ASSUME NEW c \in Inputs, IecCall(c) PROVE CounterInv'
    BY <2>5, IecCallKeeps
  <2>6. ASSUME Restart PROVE CounterInv'
    <3>1. FreshCounter'
      BY <2>6 DEF Restart, FreshCounter, CounterInv, CounterTyped
    <3> QED BY <3>1, FreshAgain
  <2> QED BY <1>1, <2>1, <2>2, <2>3, <2>4, <2>5, <2>6, ResetKeeps DEF CounterNext
<1>2. CASE UNCHANGED counterVars
  <2>1. UNCHANGED <<block, counter, prev, Q, failed, calls>>
    BY <1>2 DEF counterVars
  <2>2. CounterTyped'
    BY <2>1 DEF CounterInv, CounterTyped
  <2>3. \A i, A : RisesAmong(i, A)' <=> RisesAmong(i, A)
    BY <2>1 DEF RisesAmong
  <2>4. \A op, k, A : Held(op, k, A)' <=> Held(op, k, A)
    BY <2>1 DEF Held
  <2>5. EdgesOfFR' = EdgesOfFR
    BY <2>1 DEF EdgesOfFR, RisesAmong
  <2>6. StoresKept'
    BY <2>1, <2>5 DEF CounterInv, StoresKept, Held
  <2>7. CountInv'
    BY <2>1, <2>5 DEF CounterInv, CountInv, CountedBy, RefStep, RefZ, RefIec, RefEdge, RisesAmong
  <2> QED BY <2>2, <2>6, <2>7 DEF CounterInv
<1> QED BY <1>1, <1>2

\* What the counters store and what they show agrees with the whole history of
\* the calls: a stored input is 1 exactly while the instruction has not let go
\* of it, the count is a count of the calls (counters.py; SFB 0 to 2).
THEOREM CounterInvariant == CounterSpec => []CounterInv
<1>1. CounterInit => CounterInv
  BY FreshIsRight DEF CounterInit, FreshCounter
<1>2. CounterInv /\ [CounterNext]_counterVars => CounterInv'
  BY CounterStep
<1> QED BY <1>1, <1>2, PTL DEF CounterSpec

\* Every pulse is counted once, within the limits, and the outputs of the IEC
\* blocks compare that count (counters.py; run of SFB 0 to 2).
THEOREM PulsesAreCounted == CounterSpec => []CountsPulses
<1>1. CounterInv => CountsPulses
  <2> SUFFICES ASSUME CounterInv PROVE CountsPulses
    OBVIOUS
  <2>1. PICK f : CountedBy(f) /\ counter = f[Len(calls)]
    BY DEF CounterInv, CountInv
  <2>2. PICK n : n = Len(calls)
    OBVIOUS
  <2>3. n \in Nat /\ (n > 0 => calls # <<>>)
    BY <2>2 DEF CounterInv, CounterTyped
  <2>4. RefCounts = f
    BY <2>1, <2>2, <2>3, CountsAreUnique
  <2>5. counter = RefCounts[n]
    BY <2>1, <2>2, <2>4
  <2>6. /\ block \in {"CTU", "CTUD"} /\ n > 0 => (Q.up = 1 <=> counter >= calls[n].PV)
        /\ block \in {"CTD", "CTUD"} /\ n > 0 => (Q.down = 1 <=> counter <= 0)
    BY <2>2, <2>3 DEF CounterInv, CountInv
  <2> QED BY <2>2, <2>5, <2>6 DEF CountsPulses
<1> QED BY <1>1, CounterInvariant, PTL

-----------------------------------------------------------------------------
(* Bit logic: the value of a string.                                       *)

TextItem == [op : {"U", "O", "X", "sign"}, val : BOOLEAN]

\* The AND string, or the sign it waits for, that s ends with.
InGroup(s) == \E g \in 1..Len(s) : Behind(s, g, Len(s))
\* What the sign of that group has left to add.
Carried(b, s) == \E g \in 1..Len(s) : Behind(s, g, Len(s)) /\ Values(b, s)[g - 1]
Begun(s) == s # <<>> /\ s[Len(s)].op # "sign"

\* v lists the values of the prefixes of s.
ListsValues(b, v, s) ==
    /\ v \in [0..Len(s) -> BOOLEAN]
    /\ \A n \in 0..Len(s) : v[n] = Continued(b, v, s, n)

\* A value depends on the items before it only.
LEMMA ValuesLookBack ==
  ASSUME NEW b, NEW v, NEW w, NEW s, NEW t, NEW n \in Nat,
         \A i \in 0..n - 1 : v[i] = w[i], \A i \in 1..n : s[i] = t[i]
  PROVE  Continued(b, v, s, n) = Continued(b, w, t, n)
<1>1. CASE n = 0
  BY <1>1 DEF Continued
<1>2. CASE n = 1
  BY <1>2 DEF Continued
<1>3. CASE n # 0 /\ n # 1
  <2>1. \A g \in 1..n - 1 : Behind(s, g, n) <=> Behind(t, g, n)
    <3>1. \A g \in 1..n - 1 : g \in 1..n /\ \A i \in g + 1..n : i \in 1..n
      OBVIOUS
    <3> QED BY <3>1 DEF Behind
  <2>2. \A g \in 1..n - 1 : (v[g - 1] \/ \A i \in g + 1..n : s[i].val)
                              <=> (w[g - 1] \/ \A i \in g + 1..n : t[i].val)
    <3>1. \A g \in 1..n - 1 : g - 1 \in 0..n - 1 /\ \A i \in g + 1..n : i \in 1..n
      OBVIOUS
    <3> QED BY <3>1
  <2>3. v[n - 1] = w[n - 1] /\ s[n] = t[n]
    <3>1. n - 1 \in 0..n - 1 /\ n \in 1..n
      BY <1>3
    <3> QED BY <3>1
  <2> DEFINE inS == \E g \in 1..n - 1 : Behind(s, g, n)
             inT == \E g \in 1..n - 1 : Behind(t, g, n)
             groupS == \E g \in 1..n - 1 : Behind(s, g, n) /\ (v[g - 1] \/ \A i \in g + 1..n : s[i].val)
             groupT == \E g \in 1..n - 1 : Behind(t, g, n) /\ (w[g - 1] \/ \A i \in g + 1..n : t[i].val)
             restS == CASE s[n].op = "U" -> v[n - 1] /\ s[n].val
                        [] s[n].op = "O" -> v[n - 1] \/ s[n].val
                        [] s[n].op = "X" -> v[n - 1] # s[n].val
                        [] OTHER -> v[n - 1]
             restT == CASE t[n].op = "U" -> w[n - 1] /\ t[n].val
                        [] t[n].op = "O" -> w[n - 1] \/ t[n].val
                        [] t[n].op = "X" -> w[n - 1] # t[n].val
                        [] OTHER -> w[n - 1]
  <2>4. inS = inT
    BY <2>1
  <2>5. groupS = groupT
    BY <2>1, <2>2
  <2>6. restS = restT
    BY <2>3
  <2>7. /\ Continued(b, v, s, n) = IF inS THEN groupS ELSE restS
        /\ Continued(b, w, t, n) = IF inT THEN groupT ELSE restT
    BY <1>3 DEF Continued
  <2> HIDE DEF inS, inT, groupS, groupT, restS, restT
  <2> QED BY <2>4, <2>5, <2>6, <2>7
<1> QED BY <1>1, <1>2, <1>3

\* A value is a Boolean.
LEMMA ContinuedIsBoolean ==
  ASSUME NEW b \in BOOLEAN, NEW v, NEW s \in Seq(TextItem), NEW n \in 0..Len(s),
         \A i \in 0..n - 1 : v[i] \in BOOLEAN
  PROVE  Continued(b, v, s, n) \in BOOLEAN
<1>1. n # 0 => s[n] \in TextItem /\ s[n].val \in BOOLEAN /\ v[n - 1] \in BOOLEAN
  <2>1. n # 0 => n \in 1..Len(s) /\ n - 1 \in 0..n - 1
    OBVIOUS
  <2>2. n # 0 => s[n] \in TextItem
    BY <2>1
  <2>3. \A c \in TextItem : c.val \in BOOLEAN
    BY DEF TextItem
  <2> QED BY <2>1, <2>2, <2>3
<1>2. CASE n = 0
  BY <1>2 DEF Continued
<1>3. CASE n = 1
  BY <1>1, <1>3 DEF Continued
<1>4. CASE n # 0 /\ n # 1
  BY <1>1, <1>4 DEF Continued
<1> QED BY <1>2, <1>3, <1>4

\* Two lists of values are the same, as far as the strings are the same.
LEMMA ValuesAgree ==
  ASSUME NEW b \in BOOLEAN, NEW s \in Seq(TextItem), NEW t \in Seq(TextItem), NEW n \in Nat,
         n <= Len(s), n <= Len(t), \A i \in 1..n : s[i] = t[i],
         NEW v, ListsValues(b, v, s), NEW w, ListsValues(b, w, t)
  PROVE  \A i \in 0..n : v[i] = w[i]
<1> DEFINE D == {i \in 0..n : v[i] # w[i]}
<1>1. SUFFICES ASSUME D # {} PROVE FALSE
  OBVIOUS
<1>2. PICK m \in D : \A i \in D : m <= i
  <2>1. D \in SUBSET Nat
    OBVIOUS
  <2> HIDE DEF D
  <2> QED BY <1>1, <2>1, LeastNumber
<1>3. m \in 0..n /\ m \in Nat /\ m \in 0..Len(s) /\ m \in 0..Len(t)
  OBVIOUS
<1>4. \A i \in 0..m - 1 : v[i] = w[i]
  BY <1>2, <1>3
<1>5. \A i \in 1..m : s[i] = t[i]
  BY <1>3
<1>6. Continued(b, v, s, m) = Continued(b, w, t, m)
  BY <1>3, <1>4, <1>5, ValuesLookBack
<1>7. v[m] = w[m]
  BY <1>3, <1>6 DEF ListsValues
<1> QED BY <1>2, <1>7

\* There is a list of values for every string.
LEMMA ValuesExist ==
  ASSUME NEW b \in BOOLEAN, NEW s \in Seq(TextItem)
  PROVE  \E v : ListsValues(b, v, s)
<1> DEFINE Lists(v, n) == /\ v \in [0..n -> BOOLEAN]
                          /\ \A i \in 0..n : v[i] = Continued(b, v, s, i)
           D == {n \in 0..Len(s) : ~\E v : Lists(v, n)}
<1>1. D = {}
  <2> SUFFICES ASSUME D # {} PROVE FALSE
    OBVIOUS
  <2>1. PICK m \in D : \A i \in D : m <= i
    <3>1. D \in SUBSET Nat
      OBVIOUS
    <3> HIDE DEF D
    <3> QED BY <3>1, LeastNumber
  <2>2. m \in 0..Len(s) /\ ~\E v : Lists(v, m)
    BY <2>1
  <2>3. PICK w : /\ m # 0 => w \in [0..m - 1 -> BOOLEAN]
                 /\ \A i \in 0..m - 1 : w[i] \in BOOLEAN /\ w[i] = Continued(b, w, s, i)
    <3>1. CASE m = 0
      BY <3>1
    <3>2. CASE m # 0
      <4>1. m - 1 \in 0..Len(s) /\ m - 1 \notin D
        <5>1. m - 1 \in 0..Len(s) /\ ~(m <= m - 1)
          BY <2>2, <3>2
        <5> HIDE DEF D
        <5> QED BY <2>1, <5>1
      <4>2. PICK w : Lists(w, m - 1)
        BY <4>1
      <4> QED BY <4>2
    <3> QED BY <3>1, <3>2
  <2> DEFINE new == Continued(b, w, s, m)
             v == [i \in 0..m |-> IF i = m THEN new ELSE w[i]]
  <2>4. new \in BOOLEAN
    BY <2>2, <2>3, ContinuedIsBoolean
  <2>5. \A i \in 0..m - 1 : i \in 0..m /\ i # m
    BY <2>2
  <2>6. \A i \in 0..m : i = m \/ i \in 0..m - 1
    BY <2>2
  <2>7. m \in 0..m /\ m \in Nat
    BY <2>2
  <2>8. v[m] = new /\ \A i \in 0..m - 1 : v[i] = w[i]
    <3> HIDE DEF new
    <3> QED BY <2>5, <2>7
  <2>9. v \in [0..m -> BOOLEAN]
    <3> HIDE DEF new
    <3> QED BY <2>3, <2>4, <2>6
  <2> HIDE DEF v
  <2>10. ASSUME NEW i \in 0..m PROVE v[i] = Continued(b, v, s, i)
    <3>1. \A j \in 0..i - 1 : j \in 0..m - 1
      BY <2>2
    <3>2. \A j \in 0..i - 1 : v[j] = w[j]
      BY <2>8, <3>1
    <3>3. Continued(b, v, s, i) = Continued(b, w, s, i)
      <4>1. i \in Nat
        OBVIOUS
      <4> QED BY <3>2, <4>1, ValuesLookBack
    <3>4. v[i] = Continued(b, w, s, i)
      BY <2>3, <2>6, <2>8
    <3> QED BY <3>3, <3>4
  <2>11. Lists(v, m)
    BY <2>9, <2>10
  <2> QED BY <2>2, <2>11
<1>2. Len(s) \in 0..Len(s)
  OBVIOUS
<1>3. \E v : Lists(v, Len(s))
  BY <1>1, <1>2
<1> QED BY <1>3 DEF ListsValues

LEMMA ValuesAre ==
  ASSUME NEW b \in BOOLEAN, NEW s \in Seq(TextItem)
  PROVE  ListsValues(b, Values(b, s), s)
<1> DEFINE Solves(v) == v = [n \in 0..Len(s) |-> Continued(b, v, s, n)]
<1>1. Values(b, s) = CHOOSE v : Solves(v)
  BY DEF Values
<1>2. PICK f : ListsValues(b, f, s)
  BY ValuesExist
<1>3. Solves(f)
  <2>1. f = [n \in 0..Len(s) |-> f[n]]
    BY <1>2 DEF ListsValues
  <2>2. \A n \in 0..Len(s) : f[n] = Continued(b, f, s, n)
    BY <1>2 DEF ListsValues
  <2> QED BY <2>1, <2>2
<1>4. PICK v : v = Values(b, s)
  OBVIOUS
<1>5. Solves(v)
  <2> HIDE DEF Solves
  <2> QED BY <1>1, <1>3, <1>4
<1>6. \A n \in 0..Len(s) : v[n] = Continued(b, v, s, n)
  BY <1>5
<1>7. \A n \in 0..Len(s) : v[n] \in BOOLEAN
  <2> DEFINE D == {n \in 0..Len(s) : v[n] \notin BOOLEAN}
  <2>1. SUFFICES ASSUME D # {} PROVE FALSE
    OBVIOUS
  <2>2. PICK m \in D : \A i \in D : m <= i
    <3>1. D \in SUBSET Nat
      OBVIOUS
    <3> HIDE DEF D
    <3> QED BY <2>1, <3>1, LeastNumber
  <2>3. m \in 0..Len(s) /\ \A i \in 0..m - 1 : v[i] \in BOOLEAN
    BY <2>2
  <2>4. v[m] \in BOOLEAN
    <3> HIDE DEF Solves, D
    <3> QED BY <1>6, <2>3, ContinuedIsBoolean
  <2> QED BY <2>2, <2>4
<1>8. v \in [0..Len(s) -> BOOLEAN]
  <2>1. v = [n \in 0..Len(s) |-> v[n]]
    BY <1>5
  <2> HIDE DEF Solves
  <2> QED BY <1>7, <2>1
<1> HIDE DEF Solves
<1> QED BY <1>4, <1>6, <1>8 DEF ListsValues

\* t is s with the item c behind it.
Extends(t, s, c) ==
    /\ t \in Seq(TextItem) /\ Len(t) = Len(s) + 1 /\ t[Len(s) + 1] = c
    /\ \A i \in 1..Len(s) : t[i] = s[i]

\* What an item more makes of the values.
LEMMA ValuesGrow ==
  ASSUME NEW b \in BOOLEAN, NEW s \in Seq(TextItem), NEW c \in TextItem,
         NEW t, Extends(t, s, c), NEW n, n = Len(s), NEW v, v = Values(b, s), NEW w, w = Values(b, t)
  PROVE  /\ n \in Nat /\ t \in Seq(TextItem) /\ Len(t) = n + 1 /\ t[n + 1] = c
         /\ \A i \in 1..n : t[i] = s[i]
         /\ \A i \in 0..n : w[i] = v[i] /\ v[i] \in BOOLEAN
         /\ w[n + 1] = Continued(b, w, t, n + 1) /\ w[n + 1] \in BOOLEAN
<1>1. /\ n \in Nat /\ t \in Seq(TextItem) /\ Len(t) = n + 1 /\ t[n + 1] = c
      /\ \A i \in 1..n : t[i] = s[i]
  BY DEF Extends
<1>2. ListsValues(b, v, s) /\ ListsValues(b, w, t)
  BY <1>1, ValuesAre
<1>3. \A i \in 0..n : w[i] = v[i]
  <2>1. n <= Len(s) /\ n <= Len(t) /\ (\A i \in 1..n : s[i] = t[i]) /\ n \in Nat /\ t \in Seq(TextItem)
    BY <1>1
  <2>2. \A i \in 0..n : v[i] = w[i]
    BY <1>2, <2>1, ValuesAgree
  <2> QED BY <2>2
<1>4. \A i \in 0..n : v[i] \in BOOLEAN
  BY <1>2 DEF ListsValues
<1>5. w[n + 1] = Continued(b, w, t, n + 1) /\ w[n + 1] \in BOOLEAN
  <2>1. n + 1 \in 0..Len(t)
    BY <1>1
  <2> QED BY <1>2, <2>1 DEF ListsValues
<1> QED BY <1>1, <1>3, <1>4, <1>5

\* There is one sign a group is behind.
LEMMA OneSign ==
  ASSUME NEW s \in Seq(TextItem), NEW n \in Nat, NEW g \in 1..n, NEW h \in 1..n,
         Behind(s, g, n), Behind(s, h, n)
  PROVE  g = h
<1>1. ~(g < h)
  <2>1. g < h => h \in g + 1..n
    OBVIOUS
  <2> QED BY <2>1 DEF Behind
<1>2. ~(h < g)
  <2>1. h < g => g \in h + 1..n
    OBVIOUS
  <2> QED BY <2>1 DEF Behind
<1> QED BY <1>1, <1>2

\* The value of the string before an item that is appended.
ValueFrom(b, s) == Values(b, s)[Len(s)]

LEMMA AndGrows ==
  ASSUME NEW b \in BOOLEAN, NEW s \in Seq(TextItem), NEW c \in TextItem, c.op = "U",
         NEW t, Extends(t, s, c)
  PROVE  /\ Begun(t)
         /\ InGroup(t) <=> InGroup(s)
         /\ Carried(b, t) <=> Carried(b, s)
         /\ ValueFrom(b, t) <=> ((Begun(s) => ValueFrom(b, s)) /\ c.val) \/ Carried(b, s)
<1>1. PICK n : n = Len(s)
  OBVIOUS
<1>2. PICK v : v = Values(b, s)
  OBVIOUS
<1>3. PICK w : w = Values(b, t)
  OBVIOUS
<1>4. /\ n \in Nat /\ t \in Seq(TextItem) /\ Len(t) = n + 1 /\ t[n + 1] = c
      /\ \A i \in 1..n : t[i] = s[i]
      /\ \A i \in 0..n : w[i] = v[i] /\ v[i] \in BOOLEAN
      /\ w[n + 1] = Continued(b, w, t, n + 1) /\ w[n + 1] \in BOOLEAN
  BY <1>1, <1>2, <1>3, ValuesGrow
<1>5. \A g \in 1..n : Behind(t, g, n + 1) <=> Behind(s, g, n)
  <2>1. \A g \in 1..n : \A i : i \in g + 1..n + 1 <=> (i \in g + 1..n \/ i = n + 1)
    BY <1>4
  <2>2. \A g \in 1..n : \A i \in g + 1..n : i \in 1..n
    BY <1>4
  <2> QED BY <1>4, <2>1, <2>2 DEF Behind
<1>6. ~Behind(t, n + 1, n + 1)
  BY <1>4 DEF Behind
<1>7. \A g : g \in 1..n + 1 <=> (g \in 1..n \/ g = n + 1)
  BY <1>4
<1>8. InGroup(t) <=> InGroup(s)
  BY <1>1, <1>4, <1>5, <1>6, <1>7 DEF InGroup
<1>9. Carried(b, t) <=> Carried(b, s)
  <2>1. \A g \in 1..n : w[g - 1] = v[g - 1]
    <3>1. \A g \in 1..n : g - 1 \in 0..n
      BY <1>4
    <3> QED BY <1>4, <3>1
  <2>2. Carried(b, t) <=> \E g \in 1..n + 1 : Behind(t, g, n + 1) /\ w[g - 1]
    BY <1>3, <1>4 DEF Carried
  <2>3. Carried(b, s) <=> \E g \in 1..n : Behind(s, g, n) /\ v[g - 1]
    BY <1>1, <1>2 DEF Carried
  <2> QED BY <1>5, <1>6, <1>7, <2>1, <2>2, <2>3
<1>10. Begun(t)
  <2>1. t # <<>>
    BY <1>4
  <2> QED BY <1>4, <2>1 DEF Begun
<1>11. Begun(s) <=> n # 0 /\ s[n].op # "sign"
  <2>1. s = <<>> <=> n = 0
    BY <1>1
  <2> QED BY <1>1, <2>1 DEF Begun
<1>12. Carried(b, s) <=> \E g \in 1..n : Behind(s, g, n) /\ v[g - 1]
  BY <1>1, <1>2 DEF Carried
<1>13. w[n + 1] <=> ((Begun(s) => v[n]) /\ c.val) \/ Carried(b, s)
  <2>1. CASE n = 0
    <3>1. w[n + 1] = c.val
      BY <1>4, <2>1 DEF Continued
    <3>2. ~Carried(b, s)
      BY <1>12, <2>1
    <3> QED BY <1>11, <2>1, <3>1, <3>2
  <2>2. CASE n # 0 /\ ~\E g \in 1..n : Behind(s, g, n)
    <3>1. ~\E g \in 1..(n + 1) - 1 : Behind(t, g, n + 1)
      BY <1>4, <1>5, <2>2
    <3>2. w[n + 1] = (w[(n + 1) - 1] /\ t[n + 1].val)
      BY <1>4, <2>2, <3>1 DEF Continued
    <3>3. w[(n + 1) - 1] = v[n]
      BY <1>4
    <3>4. s[n].op # "sign"
      <4>1. n \in 1..n /\ \A i : i \notin n + 1..n
        BY <1>4, <2>2
      <4> QED BY <2>2, <4>1 DEF Behind
    <3> QED BY <1>4, <1>11, <1>12, <2>2, <3>2, <3>3, <3>4
  <2>3. CASE n # 0 /\ \E g \in 1..n : Behind(s, g, n)
    <3>1. PICK g \in 1..n : Behind(s, g, n)
      BY <2>3
    <3>2. \A h \in 1..n : Behind(s, h, n) <=> h = g
      BY <1>4, <3>1, OneSign
    <3>3. g \in 1..(n + 1) - 1 /\ Behind(t, g, n + 1)
      BY <1>4, <1>5, <3>1
    <3>4. \A h \in 1..(n + 1) - 1 : h \in 1..n
      BY <1>4
    <3>5. w[n + 1] <=> \E h \in 1..(n + 1) - 1 :
                         Behind(t, h, n + 1) /\ (w[h - 1] \/ \A i \in h + 1..n + 1 : t[i].val)
      <4>1. n + 1 # 0 /\ n + 1 # 1
        BY <1>4, <2>3
      <4> QED BY <1>4, <3>3, <4>1 DEF Continued
    <3>6. w[n + 1] <=> w[g - 1] \/ \A i \in g + 1..n + 1 : t[i].val
      BY <1>5, <3>2, <3>3, <3>4, <3>5
    <3>7. Carried(b, s) <=> v[g - 1]
      BY <1>12, <3>1, <3>2
    <3>8. w[g - 1] = v[g - 1]
      <4>1. g - 1 \in 0..n
        BY <1>4
      <4> QED BY <1>4, <4>1
    <3>9. (\A i \in g + 1..n + 1 : t[i].val) <=> (\A i \in g + 1..n : s[i].val) /\ c.val
      <4>1. \A i : i \in g + 1..n + 1 <=> (i \in g + 1..n \/ i = n + 1)
        BY <1>4
      <4>2. \A i \in g + 1..n : i \in 1..n
        BY <1>4
      <4> QED BY <1>4, <4>1, <4>2
    <3>10. CASE g = n
      <4>1. s[n].op = "sign"
        BY <3>1, <3>10 DEF Behind
      <4>2. \A i : i \notin g + 1..n
        BY <1>4, <3>10
      <4> QED BY <1>11, <3>6, <3>7, <3>8, <3>9, <4>1, <4>2
    <3>11. CASE g # n
      <4>1. n \in g + 1..n /\ n # 0 /\ n # 1 /\ g \in 1..n - 1
        BY <1>4, <3>11
      <4>2. s[n].op = "U"
        BY <3>1, <4>1 DEF Behind
      <4>3. v[n] = Continued(b, v, s, n)
        <5>1. ListsValues(b, v, s) /\ n \in 0..Len(s)
          BY <1>1, <1>2, <1>4, ValuesAre
        <5> QED BY <5>1 DEF ListsValues
      <4>4. v[n] <=> \E h \in 1..n - 1 : Behind(s, h, n) /\ (v[h - 1] \/ \A i \in h + 1..n : s[i].val)
        BY <3>1, <4>1, <4>3 DEF Continued
      <4>5. v[n] <=> v[g - 1] \/ \A i \in g + 1..n : s[i].val
        <5>1. \A h \in 1..n - 1 : h \in 1..n
          BY <1>4
        <5> QED BY <3>2, <4>1, <4>4, <5>1
      <4> QED BY <1>11, <2>3, <3>6, <3>7, <3>8, <3>9, <4>2, <4>5
    <3> QED BY <3>10, <3>11
  <2> QED BY <2>1, <2>2, <2>3
<1>14. ValueFrom(b, t) = w[n + 1] /\ ValueFrom(b, s) = v[n]
  BY <1>1, <1>2, <1>3, <1>4 DEF ValueFrom
<1> QED BY <1>8, <1>9, <1>10, <1>13, <1>14

LEMMA OrGrows ==
  ASSUME NEW b \in BOOLEAN, NEW s \in Seq(TextItem), NEW c \in TextItem,
         NEW t, Extends(t, s, c)
  PROVE  c.op \in {"O", "X", "sign"} /\ (s = <<>> => c.op # "sign") /\ (s # <<>> => Begun(s)) =>
         /\ Begun(t) <=> c.op # "sign"
         /\ InGroup(t) <=> c.op = "sign"
         /\ Carried(b, t) <=> c.op = "sign" /\ ValueFrom(b, s)
         /\ c.op = "O" => (ValueFrom(b, t) <=> (Begun(s) /\ ValueFrom(b, s)) \/ c.val)
         /\ c.op = "X" => (ValueFrom(b, t) <=> ~((Begun(s) /\ ValueFrom(b, s)) <=> c.val))
         /\ c.op = "sign" => (ValueFrom(b, t) <=> ValueFrom(b, s))
<1>1. PICK n : n = Len(s)
  OBVIOUS
<1>2. PICK v : v = Values(b, s)
  OBVIOUS
<1>3. PICK w : w = Values(b, t)
  OBVIOUS
<1>4. /\ n \in Nat /\ t \in Seq(TextItem) /\ Len(t) = n + 1 /\ t[n + 1] = c
      /\ \A i \in 1..n : t[i] = s[i]
      /\ \A i \in 0..n : w[i] = v[i] /\ v[i] \in BOOLEAN
      /\ w[n + 1] = Continued(b, w, t, n + 1) /\ w[n + 1] \in BOOLEAN
  BY <1>1, <1>2, <1>3, ValuesGrow
<1> HAVE c.op \in {"O", "X", "sign"} /\ (s = <<>> => c.op # "sign") /\ (s # <<>> => Begun(s))
<1>5. \A g \in 1..n : ~Behind(t, g, n + 1)
  <2>1. \A g \in 1..n : n + 1 \in g + 1..n + 1
    BY <1>4
  <2> QED BY <1>4, <2>1 DEF Behind
<1>6. Behind(t, n + 1, n + 1) <=> c.op = "sign"
  <2>1. \A i : i \notin (n + 1) + 1..n + 1
    BY <1>4
  <2> QED BY <1>4, <2>1 DEF Behind
<1>7. \A g : g \in 1..n + 1 <=> (g \in 1..n \/ g = n + 1)
  BY <1>4
<1>8. InGroup(t) <=> c.op = "sign"
  BY <1>4, <1>5, <1>6, <1>7 DEF InGroup
<1>9. Carried(b, t) <=> c.op = "sign" /\ v[n]
  <2>1. Carried(b, t) <=> \E g \in 1..n + 1 : Behind(t, g, n + 1) /\ w[g - 1]
    BY <1>3, <1>4 DEF Carried
  <2>2. w[(n + 1) - 1] = v[n]
    BY <1>4
  <2> QED BY <1>5, <1>6, <1>7, <2>1, <2>2
<1>10. Begun(t) <=> c.op # "sign"
  <2>1. t # <<>>
    BY <1>4
  <2> QED BY <1>4, <2>1 DEF Begun
<1>11. Begun(s) <=> n # 0
  <2>1. s = <<>> <=> n = 0
    BY <1>1
  <2> QED BY <2>1 DEF Begun
<1>12. CASE n = 0
  <2>1. w[n + 1] = c.val /\ c.op # "sign" /\ c.val \in BOOLEAN
    <3>1. n + 1 = 1 /\ n + 1 # 0
      BY <1>12
    <3>2. w[n + 1] = t[1].val
      BY <1>4, <3>1 DEF Continued
    <3>3. c.val \in BOOLEAN
      BY DEF TextItem
    <3>4. s = <<>>
      <4>1. s = <<>> <=> n = 0
        BY <1>1
      <4> QED BY <1>12, <4>1
    <3> QED BY <1>4, <3>1, <3>2, <3>3, <3>4
  <2>2. ValueFrom(b, t) = w[n + 1] /\ ValueFrom(b, s) = v[n]
    BY <1>1, <1>2, <1>3, <1>4 DEF ValueFrom
  <2> QED BY <1>8, <1>9, <1>10, <1>11, <1>12, <2>1, <2>2
<1>13. CASE n # 0
  <2>1. ~\E g \in 1..(n + 1) - 1 : Behind(t, g, n + 1)
    BY <1>4, <1>5
  <2>2. w[(n + 1) - 1] = v[n] /\ v[n] \in BOOLEAN /\ c.val \in BOOLEAN
    BY <1>4 DEF TextItem
  <2>3. n + 1 # 0 /\ n + 1 # 1
    BY <1>4, <1>13
  <2>4. /\ c.op = "O" => (w[n + 1] <=> v[n] \/ c.val)
        /\ c.op = "X" => (w[n + 1] <=> v[n] # c.val)
        /\ c.op = "sign" => (w[n + 1] <=> v[n])
    BY <1>4, <2>1, <2>2, <2>3 DEF Continued
  <2>5. ValueFrom(b, t) = w[n + 1] /\ ValueFrom(b, s) = v[n]
    BY <1>1, <1>2, <1>3, <1>4 DEF ValueFrom
  <2>6. c.op = "X" => (w[n + 1] <=> ~(v[n] <=> c.val))
    BY <2>2, <2>4
  <2> QED BY <1>8, <1>9, <1>10, <1>11, <1>13, <2>4, <2>5, <2>6
<1> QED BY <1>12, <1>13

(* Bit logic: the invariant.                                               *)

StatusWord == [VKE : BOOLEAN, OR : BOOLEAN, NER : BOOLEAN, BIE : BOOLEAN]
ParenTypes == {"UB", "UNB", "OB", "ONB", "XB", "XNB"}
ParenEntry == [type : ParenTypes, NER : BOOLEAN, VKE : BOOLEAN, OR : BOOLEAN]

\* The three bits say where the string s stands.
LevelRight(b, s, vke, or, ner) ==
    /\ or <=> Carried(b, s)
    /\ ner <=> Begun(s)
    /\ s # <<>> => (vke <=> ValueFrom(b, s))

BitTyped ==
    /\ sw \in StatusWord
    /\ parenStack \in Seq(ParenEntry)
    /\ text \in Seq(Seq(TextItem)) /\ Len(text) = Len(parenStack) + 1
    /\ base \in BOOLEAN

LevelsRight ==
    /\ LevelRight(base, Here, sw.VKE, sw.OR, sw.NER)
    /\ \A k \in 1..Len(parenStack) :
         /\ LevelRight(base, text[k], parenStack[k].VKE, parenStack[k].OR, parenStack[k].NER)
         /\ InGroup(text[k]) => Operator(parenStack[k].type) = "U"
    /\ Len(text) = 1 /\ Here = <<>> => sw.VKE = base

\* Zones, edge bit and BIE are what they stand for.
KeptRight ==
    /\ mcrActive \in BOOLEAN /\ mcrStack \in Seq(BOOLEAN) /\ zones = mcrStack
    /\ edge \in BOOLEAN /\ edge = seen
    /\ saved = sw.BIE

BitInv == BitTyped /\ LevelsRight /\ KeptRight /\ effect.did = effect.ought

LEMMA LastReplaced ==
  ASSUME NEW T, NEW t \in Seq(T), t # <<>>, NEW x \in T
  PROVE  /\ Front(t) \in Seq(T) /\ Len(Front(t)) = Len(t) - 1
         /\ \A k \in 1..Len(t) - 1 : Front(t)[k] = t[k]
         /\ Append(Front(t), x) \in Seq(T) /\ Len(Append(Front(t), x)) = Len(t)
         /\ Append(Front(t), x)[Len(t)] = x
         /\ \A k \in 1..Len(t) - 1 : Append(Front(t), x)[k] = t[k]
<1>1. Len(t) \in Nat \ {0}
  OBVIOUS
<1>2. /\ Front(t) \in Seq(T) /\ Len(Front(t)) = Len(t) - 1
      /\ \A k \in 1..Len(t) - 1 : Front(t)[k] = t[k]
  <2>1. PICK m : m = Len(t) - 1
    OBVIOUS
  <2>2. m \in Nat /\ m <= Len(t)
    BY <1>1, <2>1
  <2>3. SubSeq(t, 1, m) \in Seq(T) /\ Len(SubSeq(t, 1, m)) = m /\ \A k \in 1..m : SubSeq(t, 1, m)[k] = t[k]
    <3>1. \A i \in 1..m : t[i] \in T
      BY <2>2
    <3> QED BY <2>2, <3>1
  <2> QED BY <2>1, <2>3 DEF Front
<1> QED BY <1>1, <1>2

\* The string that is being written, and its value.
LEMMA HereIs ==
  ASSUME BitTyped
  PROVE  /\ Here = text[Len(text)] /\ Here \in Seq(TextItem) /\ text # <<>>
         /\ Len(text) \in Nat \ {0} /\ Len(parenStack) \in Nat
         /\ Value(Here) = ValueFrom(base, Here)
<1>1. Len(parenStack) \in Nat /\ Len(text) \in Nat \ {0}
  BY DEF BitTyped
<1>2. Here = text[Len(text)]
  BY DEF Here, Last
<1>3. Here \in Seq(TextItem) /\ text # <<>>
  BY <1>1, <1>2 DEF BitTyped
<1>4. Value(Here) = ValueFrom(base, Here)
  BY DEF Value, ValueFrom
<1> QED BY <1>1, <1>2, <1>3, <1>4

LEMMA ValueIsBoolean ==
  ASSUME NEW b \in BOOLEAN, NEW s \in Seq(TextItem)
  PROVE  ValueFrom(b, s) \in BOOLEAN /\ (s = <<>> => ValueFrom(b, s) = b)
<1>1. ListsValues(b, Values(b, s), s)
  BY ValuesAre
<1>2. Len(s) \in 0..Len(s)
  OBVIOUS
<1>3. Values(b, s)[Len(s)] \in BOOLEAN /\ Values(b, s)[Len(s)] = Continued(b, Values(b, s), s, Len(s))
  BY <1>1, <1>2 DEF ListsValues
<1>4. s = <<>> => Len(s) = 0
  OBVIOUS
<1>5. \A v : Continued(b, v, s, 0) = b
  BY DEF Continued
<1> QED BY <1>3, <1>4, <1>5 DEF ValueFrom

\* VKE is the value, wherever it is looked at.
LEMMA VkeIsTheValue ==
  ASSUME BitInv, Here # <<>> \/ Len(text) = 1
  PROVE  sw.VKE = Value(Here) /\ Value(Here) \in BOOLEAN
<1>1. /\ Value(Here) = ValueFrom(base, Here) /\ Here \in Seq(TextItem)
      /\ sw.VKE \in BOOLEAN /\ base \in BOOLEAN
  BY HereIs DEF BitInv, BitTyped, StatusWord
<1>2. ValueFrom(base, Here) \in BOOLEAN /\ (Here = <<>> => ValueFrom(base, Here) = base)
  BY <1>1, ValueIsBoolean
<1>3. Here # <<>> => (sw.VKE <=> ValueFrom(base, Here))
  BY DEF BitInv, LevelsRight, LevelRight
<1>4. CASE Here # <<>>
  BY <1>1, <1>2, <1>3, <1>4
<1>5. CASE Here = <<>>
  <2>1. sw.VKE = base
    BY <1>5 DEF BitInv, LevelsRight
  <2> QED BY <1>1, <1>2, <1>5, <2>1
<1> QED BY <1>4, <1>5

\* Where the string stands, and where its bits do.
LEMMA Standing ==
  ASSUME NEW b, NEW s \in Seq(TextItem)
  PROVE  /\ s # <<>> /\ ~Begun(s) => InGroup(s)
         /\ Carried(b, s) => InGroup(s)
         /\ s = <<>> => ~Carried(b, s) /\ ~Begun(s) /\ ~InGroup(s)
<1>1. s # <<>> => Len(s) \in 1..Len(s) /\ \A i : i \notin Len(s) + 1..Len(s)
  OBVIOUS
<1>2. s = <<>> => \A g : g \notin 1..Len(s)
  OBVIOUS
<1> QED BY <1>1, <1>2 DEF Begun, InGroup, Carried, Behind

\* A step that writes a new string at the same level.
LEMMA TopKeeps ==
  ASSUME BitInv, NEW s \in Seq(TextItem), s # <<>>, text' = Append(Front(text), s),
         UNCHANGED <<parenStack, base>>, sw' \in StatusWord,
         LevelRight(base, s, sw'.VKE, sw'.OR, sw'.NER),
         KeptRight', effect'.did = effect'.ought
  PROVE  BitInv'
<1>1. /\ Here = text[Len(text)] /\ text # <<>> /\ Len(text) \in Nat \ {0}
      /\ Len(text) = Len(parenStack) + 1 /\ text \in Seq(Seq(TextItem))
  BY HereIs DEF BitInv, BitTyped
<1>2. PICK n : n = Len(text)
  OBVIOUS
<1>3. PICK t : t = Append(Front(text), s)
  OBVIOUS
<1>4. t \in Seq(Seq(TextItem)) /\ Len(t) = n /\ t[n] = s /\ \A k \in 1..n - 1 : t[k] = text[k]
  <2>1. PICK T : T = Seq(TextItem)
    OBVIOUS
  <2>2. text \in Seq(T) /\ text # <<>> /\ s \in T
    BY <1>1, <2>1
  <2>3. t \in Seq(T) /\ Len(t) = Len(text) /\ t[Len(text)] = s /\ \A k \in 1..Len(text) - 1 : t[k] = text[k]
    BY <1>3, <2>2, LastReplaced
  <2> QED BY <1>2, <2>1, <2>3
<1>5. text' = t
  BY <1>3
<1>6. BitTyped'
  BY <1>1, <1>2, <1>4, <1>5 DEF BitInv, BitTyped
<1>7. Here' = s
  BY <1>4, <1>5 DEF Here, Last
<1>8. \A k \in 1..Len(parenStack) : text'[k] = text[k]
  BY <1>1, <1>2, <1>4, <1>5
<1>9. \A k \in 1..Len(parenStack) :
        /\ LevelRight(base, text[k], parenStack[k].VKE, parenStack[k].OR, parenStack[k].NER)
        /\ InGroup(text[k]) => Operator(parenStack[k].type) = "U"
  BY DEF BitInv, LevelsRight
<1>10. LevelsRight'
  BY <1>7, <1>8, <1>9 DEF LevelsRight
<1> QED BY <1>6, <1>10 DEF BitInv

\* A step that ends the string: the next one starts from what it leaves.
LEMMA EndKeeps ==
  ASSUME BitInv, Len(text) = 1, text' = <<<<>>>>, UNCHANGED parenStack, sw' \in StatusWord,
         sw'.OR = FALSE, sw'.NER = FALSE, base' \in BOOLEAN, sw'.VKE = base',
         KeptRight', effect'.did = effect'.ought
  PROVE  BitInv'
<1>1. parenStack \in Seq(ParenEntry) /\ Len(parenStack) = 0
  <2>1. Len(parenStack) \in Nat /\ Len(text) = Len(parenStack) + 1 /\ parenStack \in Seq(ParenEntry)
    BY DEF BitInv, BitTyped
  <2> QED BY <2>1
<1>2. PICK e : e = <<>>
  OBVIOUS
<1>3. e \in Seq(TextItem) /\ text' = <<e>>
  BY <1>2
<1>4. text' \in Seq(Seq(TextItem)) /\ Len(text') = 1 /\ text'[1] = e
  BY <1>3
<1>5. BitTyped'
  BY <1>1, <1>4 DEF BitTyped
<1>6. Here' = e
  BY <1>4 DEF Here, Last
<1>7. ~Carried(base', e) /\ ~Begun(e)
  BY <1>2, <1>3, Standing
<1>8. LevelRight(base', e, sw'.VKE, sw'.OR, sw'.NER)
  BY <1>2, <1>7 DEF LevelRight
<1>9. LevelsRight'
  BY <1>1, <1>6, <1>8 DEF LevelsRight
<1> QED BY <1>5, <1>9 DEF BitInv

\* What an item more makes of the string that is being written.
LEMMA HereGrows ==
  ASSUME BitInv, NEW c \in TextItem, text' = Appended(c), UNCHANGED <<parenStack, base>>,
         sw' \in StatusWord, KeptRight', effect'.did = effect'.ought,
         NEW t, t = Append(Here, c), LevelRight(base, t, sw'.VKE, sw'.OR, sw'.NER)
  PROVE  BitInv'
<1>1. Here \in Seq(TextItem)
  BY HereIs DEF BitInv
<1>2. t \in Seq(TextItem) /\ t # <<>>
  BY <1>1
<1>3. text' = Append(Front(text), t)
  BY DEF Appended
<1> QED BY <1>2, <1>3, TopKeeps

LEMMA Appending ==
  ASSUME NEW s \in Seq(TextItem), NEW c \in TextItem
  PROVE  Extends(Append(s, c), s, c)
BY DEF Extends

\* What the string, as it stands, says of the bits.
LEMMA HereStands ==
  ASSUME BitInv
  PROVE  /\ Here \in Seq(TextItem) /\ base \in BOOLEAN /\ sw \in StatusWord
         /\ sw.OR <=> Carried(base, Here)
         /\ sw.NER <=> Begun(Here)
         /\ Here # <<>> => (sw.VKE <=> ValueFrom(base, Here))
         /\ OpenGroup <=> InGroup(Here)
         /\ ~Dangling <=> (Here # <<>> => Begun(Here))
<1>1. /\ Here \in Seq(TextItem) /\ base \in BOOLEAN /\ sw \in StatusWord
  BY HereIs DEF BitInv, BitTyped
<1>2. LevelRight(base, Here, sw.VKE, sw.OR, sw.NER)
  BY DEF BitInv, LevelsRight
<1>3. OpenGroup <=> InGroup(Here)
  <2>1. DOMAIN Here = 1..Len(Here)
    BY <1>1
  <2> QED BY <2>1 DEF OpenGroup, InGroup
<1>4. ~Dangling <=> (Here # <<>> => Begun(Here))
  BY DEF Dangling, Begun, Last
<1> QED BY <1>1, <1>2, <1>3, <1>4 DEF LevelRight

LEMMA ItemIs ==
  ASSUME NEW op \in {"U", "O", "X", "sign"}, NEW x \in BOOLEAN
  PROVE  Item(op, x) \in TextItem /\ Item(op, x).op = op /\ Item(op, x).val = x
BY DEF Item, TextItem

LEMMA AndKeeps ==
  ASSUME BitInv, NEW x \in BOOLEAN, Operand(AndWith(x), "U", x)
  PROVE  BitInv'
<1>1. PICK c : c = Item("U", x)
  OBVIOUS
<1>2. c \in TextItem /\ c.op = "U" /\ c.val = x
  BY <1>1, ItemIs
<1>3. /\ sw' = AndWith(x) /\ text' = Appended(c) /\ effect' = NoEffect
      /\ UNCHANGED <<parenStack, mcrActive, mcrStack, edge, base, zones, seen, saved>>
  BY <1>1 DEF Operand
<1>4. PICK t : t = Append(Here, c)
  OBVIOUS
<1>5. PICK s : s = Here
  OBVIOUS
<1>6. /\ s \in Seq(TextItem) /\ base \in BOOLEAN /\ sw \in StatusWord
      /\ sw.OR <=> Carried(base, s)
      /\ sw.NER <=> Begun(s)
      /\ s # <<>> => (sw.VKE <=> ValueFrom(base, s))
  BY <1>5, HereStands
<1>7. /\ Begun(t) /\ (Carried(base, t) <=> Carried(base, s))
      /\ ValueFrom(base, t) <=> ((Begun(s) => ValueFrom(base, s)) /\ x) \/ Carried(base, s)
  <2>1. Extends(t, s, c)
    BY <1>2, <1>4, <1>5, <1>6, Appending
  <2> QED BY <1>2, <1>6, <2>1, AndGrows
<1>8. PICK new \in BOOLEAN : new <=> ((sw.NER => sw.VKE) /\ x) \/ sw.OR
  OBVIOUS
<1>9. sw' \in StatusWord /\ (sw'.VKE <=> new) /\ sw'.OR = sw.OR /\ sw'.NER = TRUE /\ sw'.BIE = sw.BIE
  <2>1. new = (((sw.NER => sw.VKE) /\ x) \/ sw.OR)
    BY <1>8
  <2>2. sw' = [sw EXCEPT !.VKE = new, !.NER = TRUE]
    BY <1>3, <2>1 DEF AndWith
  <2> QED BY <1>6, <2>2 DEF StatusWord
<1>10. LevelRight(base, t, sw'.VKE, sw'.OR, sw'.NER)
  <2>1. Begun(s) => s # <<>>
    BY DEF Begun
  <2> QED BY <1>6, <1>7, <1>8, <1>9, <2>1 DEF LevelRight
<1>11. KeptRight' /\ effect'.did = effect'.ought
  BY <1>3, <1>9 DEF BitInv, KeptRight, NoEffect
<1> QED BY <1>2, <1>3, <1>4, <1>9, <1>10, <1>11, HereGrows

LEMMA OrKeeps ==
  ASSUME BitInv, NEW x \in BOOLEAN, Operand(OrWith(x), "O", x)
  PROVE  BitInv'
<1>1. PICK c : c = Item("O", x)
  OBVIOUS
<1>2. c \in TextItem /\ c.op = "O" /\ c.val = x
  BY <1>1, ItemIs
<1>3. /\ sw' = OrWith(x) /\ text' = Appended(c) /\ effect' = NoEffect /\ ~Dangling
      /\ UNCHANGED <<parenStack, mcrActive, mcrStack, edge, base, zones, seen, saved>>
  BY <1>1 DEF Operand
<1>4. PICK t : t = Append(Here, c)
  OBVIOUS
<1>5. PICK s : s = Here
  OBVIOUS
<1>6. /\ s \in Seq(TextItem) /\ base \in BOOLEAN /\ sw \in StatusWord
      /\ sw.NER <=> Begun(s)
      /\ s # <<>> => (sw.VKE <=> ValueFrom(base, s))
      /\ s # <<>> => Begun(s)
  BY <1>3, <1>5, HereStands
<1>7. /\ Begun(t) /\ ~Carried(base, t)
      /\ ValueFrom(base, t) <=> (Begun(s) /\ ValueFrom(base, s)) \/ x
  <2>1. Extends(t, s, c)
    BY <1>2, <1>4, <1>5, <1>6, Appending
  <2> QED BY <1>2, <1>6, <2>1, OrGrows
<1>8. PICK new \in BOOLEAN : new <=> (sw.NER /\ sw.VKE) \/ x
  OBVIOUS
<1>9. sw' \in StatusWord /\ (sw'.VKE <=> new) /\ sw'.OR = FALSE /\ sw'.NER = TRUE /\ sw'.BIE = sw.BIE
  <2>1. new = ((sw.NER /\ sw.VKE) \/ x)
    BY <1>8
  <2>2. sw' = [sw EXCEPT !.VKE = new, !.OR = FALSE, !.NER = TRUE]
    BY <1>3, <2>1 DEF OrWith
  <2> QED BY <1>6, <2>2 DEF StatusWord
<1>10. LevelRight(base, t, sw'.VKE, sw'.OR, sw'.NER)
  <2>1. Begun(s) => s # <<>>
    BY DEF Begun
  <2> QED BY <1>6, <1>7, <1>8, <1>9, <2>1 DEF LevelRight
<1>11. KeptRight' /\ effect'.did = effect'.ought
  BY <1>3, <1>9 DEF BitInv, KeptRight, NoEffect
<1> QED BY <1>2, <1>3, <1>4, <1>9, <1>10, <1>11, HereGrows

LEMMA XorKeeps ==
  ASSUME BitInv, NEW x \in BOOLEAN, Operand(XorWith(x), "X", x)
  PROVE  BitInv'
<1>1. PICK c : c = Item("X", x)
  OBVIOUS
<1>2. c \in TextItem /\ c.op = "X" /\ c.val = x
  BY <1>1, ItemIs
<1>3. /\ sw' = XorWith(x) /\ text' = Appended(c) /\ effect' = NoEffect /\ ~Dangling
      /\ UNCHANGED <<parenStack, mcrActive, mcrStack, edge, base, zones, seen, saved>>
  BY <1>1 DEF Operand
<1>4. PICK t : t = Append(Here, c)
  OBVIOUS
<1>5. PICK s : s = Here
  OBVIOUS
<1>6. /\ s \in Seq(TextItem) /\ base \in BOOLEAN /\ sw \in StatusWord
      /\ sw.NER <=> Begun(s)
      /\ s # <<>> => (sw.VKE <=> ValueFrom(base, s))
      /\ s # <<>> => Begun(s)
  BY <1>3, <1>5, HereStands
<1>7. /\ Begun(t) /\ ~Carried(base, t)
      /\ ValueFrom(base, t) <=> ~((Begun(s) /\ ValueFrom(base, s)) <=> x)
  <2>1. Extends(t, s, c)
    BY <1>2, <1>4, <1>5, <1>6, Appending
  <2> QED BY <1>2, <1>6, <2>1, OrGrows
<1>8. PICK new \in BOOLEAN : new <=> ~((sw.NER /\ sw.VKE) <=> x)
  OBVIOUS
<1>9. sw' \in StatusWord /\ (sw'.VKE <=> new) /\ sw'.OR = FALSE /\ sw'.NER = TRUE /\ sw'.BIE = sw.BIE
  <2>1. new = ((sw.NER /\ sw.VKE) # x)
    BY <1>8
  <2>2. sw' = [sw EXCEPT !.VKE = new, !.OR = FALSE, !.NER = TRUE]
    BY <1>3, <2>1 DEF XorWith
  <2> QED BY <1>6, <2>2 DEF StatusWord
<1>10. LevelRight(base, t, sw'.VKE, sw'.OR, sw'.NER)
  <2>1. Begun(s) => s # <<>>
    BY DEF Begun
  <2> QED BY <1>6, <1>7, <1>8, <1>9, <2>1 DEF LevelRight
<1>11. KeptRight' /\ effect'.did = effect'.ought
  BY <1>3, <1>9 DEF BitInv, KeptRight, NoEffect
<1> QED BY <1>2, <1>3, <1>4, <1>9, <1>10, <1>11, HereGrows

LEMMA SignKeeps ==
  ASSUME BitInv, OSign
  PROVE  BitInv'
<1>1. PICK c : c = Item("sign", FALSE)
  OBVIOUS
<1>2. c \in TextItem /\ c.op = "sign"
  BY <1>1, ItemIs
<1>3. /\ sw' = AndBeforeOr(sw) /\ text' = Appended(c) /\ effect' = NoEffect /\ ~Dangling /\ Here # <<>>
      /\ UNCHANGED <<parenStack, mcrActive, mcrStack, edge, base, zones, seen, saved>>
  BY <1>1 DEF OSign
<1>4. PICK t : t = Append(Here, c)
  OBVIOUS
<1>5. PICK s : s = Here
  OBVIOUS
<1>6. /\ s \in Seq(TextItem) /\ base \in BOOLEAN /\ sw \in StatusWord /\ s # <<>>
      /\ sw.VKE <=> ValueFrom(base, s)
      /\ Begun(s)
  BY <1>3, <1>5, HereStands
<1>7. /\ ~Begun(t) /\ (Carried(base, t) <=> ValueFrom(base, s))
      /\ ValueFrom(base, t) <=> ValueFrom(base, s)
  <2>1. Extends(t, s, c)
    BY <1>2, <1>4, <1>5, <1>6, Appending
  <2> QED BY <1>2, <1>6, <2>1, OrGrows
<1>8. sw' \in StatusWord /\ sw'.VKE = sw.VKE /\ sw'.OR = sw.VKE /\ sw'.NER = FALSE /\ sw'.BIE = sw.BIE
  <2>1. sw.VKE \in BOOLEAN
    BY <1>6 DEF StatusWord
  <2>2. sw' = [sw EXCEPT !.OR = sw.VKE, !.NER = FALSE]
    BY <1>3 DEF AndBeforeOr
  <2> QED BY <1>6, <2>1, <2>2 DEF StatusWord
<1>9. LevelRight(base, t, sw'.VKE, sw'.OR, sw'.NER)
  BY <1>6, <1>7, <1>8 DEF LevelRight
<1>10. KeptRight' /\ effect'.did = effect'.ought
  BY <1>3, <1>8 DEF BitInv, KeptRight, NoEffect
<1> QED BY <1>2, <1>3, <1>4, <1>8, <1>9, <1>10, HereGrows

\* A step that writes nothing of the string and leaves its bits.
LEMMA SameKeeps ==
  ASSUME BitInv, UNCHANGED <<text, parenStack, base>>, sw' \in StatusWord,
         sw'.VKE = sw.VKE, sw'.OR = sw.OR, sw'.NER = sw.NER,
         KeptRight', effect'.did = effect'.ought
  PROVE  BitInv'
<1>1. BitTyped'
  BY DEF BitInv, BitTyped
<1>2. Here' = Here
  BY DEF Here, Last
<1>3. LevelsRight'
  BY <1>2 DEF BitInv, LevelsRight
<1> QED BY <1>1, <1>3 DEF BitInv

LEMMA RaiseKeeps ==
  ASSUME BitInv, Raise
  PROVE  BitInv'
<1>1. UNCHANGED <<sw, parenStack, mcrActive, mcrStack, edge, effect, text, base, zones, seen, saved>>
  BY DEF Raise, written
<1>2. KeptRight' /\ effect'.did = effect'.ought /\ sw' \in StatusWord
  BY <1>1 DEF BitInv, KeptRight, BitTyped
<1> QED BY <1>1, <1>2, SameKeeps

LEMMA OpenKeeps ==
  ASSUME BitInv, NEW type \in ParenTypes, Open(type)
  PROVE  BitInv'
<1> USE DEF ParenTypes
<1>1. CASE Raise
  BY <1>1, RaiseKeeps
<1>2. CASE ~Raise
  <2>1. /\ OpenGroup => Operator(type) = "U"
        /\ parenStack' = Pushed(type) /\ sw' = [sw EXCEPT !.OR = FALSE, !.NER = FALSE]
        /\ text' = Append(text, << >>) /\ effect' = NoEffect
        /\ UNCHANGED <<mcrActive, mcrStack, edge, base, zones, seen, saved>>
    BY <1>2 DEF Open
  <2>2. PICK m : m = Len(parenStack)
    OBVIOUS
  <2>3. PICK s : s = Here
    OBVIOUS
  <2>4. /\ s \in Seq(TextItem) /\ base \in BOOLEAN /\ sw \in StatusWord
        /\ LevelRight(base, s, sw.VKE, sw.OR, sw.NER)
        /\ InGroup(s) => Operator(type) = "U"
    BY <2>1, <2>3, HereStands DEF BitInv, LevelsRight
  <2>5. /\ m \in Nat /\ Len(text) = m + 1 /\ text[m + 1] = s
        /\ text \in Seq(Seq(TextItem)) /\ parenStack \in Seq(ParenEntry)
    BY <2>2, <2>3, HereIs DEF BitInv, BitTyped
  <2>6. PICK p : p = [type |-> type, NER |-> sw.NER, VKE |-> sw.VKE, OR |-> sw.OR]
    OBVIOUS
  <2>7. p \in ParenEntry /\ p.type = type /\ p.NER = sw.NER /\ p.VKE = sw.VKE /\ p.OR = sw.OR
    BY <2>4, <2>6 DEF ParenEntry, StatusWord
  <2>8. PICK e : e = <<>>
    OBVIOUS
  <2>9. e \in Seq(TextItem)
    BY <2>8
  <2>10. /\ text' \in Seq(Seq(TextItem)) /\ Len(text') = m + 2 /\ text'[m + 2] = e
         /\ \A k \in 1..m + 1 : text'[k] = text[k]
    <3>1. PICK T : T = Seq(TextItem)
      OBVIOUS
    <3>2. text \in Seq(T) /\ e \in T /\ text' = Append(text, e)
      BY <2>1, <2>5, <2>8, <2>9, <3>1
    <3> QED BY <2>5, <3>1, <3>2
  <2>11. /\ parenStack' \in Seq(ParenEntry) /\ Len(parenStack') = m + 1 /\ parenStack'[m + 1] = p
         /\ \A k \in 1..m : parenStack'[k] = parenStack[k]
    <3>1. parenStack' = Append(parenStack, p)
      BY <2>1, <2>6 DEF Pushed
    <3> QED BY <2>2, <2>5, <2>7, <3>1
  <2>12. sw' \in StatusWord /\ sw'.OR = FALSE /\ sw'.NER = FALSE /\ sw'.BIE = sw.BIE
    BY <2>1, <2>4 DEF StatusWord
  <2>13. BitTyped'
    BY <2>1, <2>4, <2>5, <2>10, <2>11, <2>12 DEF BitTyped
  <2>14. Here' = e
    <3>1. Here' = text'[Len(text')]
      BY DEF Here, Last
    <3> QED BY <2>10, <3>1
  <2>15. LevelRight(base, e, sw'.VKE, sw'.OR, sw'.NER)
    <3>1. ~Carried(base, e) /\ ~Begun(e)
      BY <2>8, <2>9, Standing
    <3> QED BY <2>8, <2>12, <3>1 DEF LevelRight
  <2>16. ASSUME NEW k \in 1..m + 1
         PROVE  /\ LevelRight(base, text'[k], parenStack'[k].VKE, parenStack'[k].OR, parenStack'[k].NER)
                /\ InGroup(text'[k]) => Operator(parenStack'[k].type) = "U"
    <3>1. CASE k = m + 1
      BY <2>4, <2>5, <2>7, <2>10, <2>11, <3>1
    <3>2. CASE k \in 1..m
      <4>1. /\ LevelRight(base, text[k], parenStack[k].VKE, parenStack[k].OR, parenStack[k].NER)
            /\ InGroup(text[k]) => Operator(parenStack[k].type) = "U"
        BY <2>2, <3>2 DEF BitInv, LevelsRight
      <4> QED BY <2>10, <2>11, <3>2, <4>1
    <3> QED BY <2>5, <3>1, <3>2
  <2>17. LevelsRight'
    <3>1. Len(text') # 1 /\ base' = base
      BY <2>1, <2>5, <2>10
    <3>2. LevelRight(base', Here', sw'.VKE, sw'.OR, sw'.NER)
      BY <2>14, <2>15, <3>1
    <3>3. \A k \in 1..Len(parenStack') :
            /\ LevelRight(base', text'[k], parenStack'[k].VKE, parenStack'[k].OR, parenStack'[k].NER)
            /\ InGroup(text'[k]) => Operator(parenStack'[k].type) = "U"
      BY <2>11, <2>16, <3>1
    <3> QED BY <3>1, <3>2, <3>3 DEF LevelsRight
  <2>18. KeptRight' /\ effect'.did = effect'.ought
    BY <2>1, <2>12 DEF BitInv, KeptRight, NoEffect
  <2> QED BY <2>13, <2>17, <2>18 DEF BitInv
<1> QED BY <1>1, <1>2

\* A parenthesis combines with the string around it as an operand does.
LEMMA ParenGrows ==
  ASSUME NEW b \in BOOLEAN, NEW s \in Seq(TextItem), NEW p \in ParenEntry,
         LevelRight(b, s, p.VKE, p.OR, p.NER), InGroup(s) => Operator(p.type) = "U",
         NEW x \in BOOLEAN, NEW c, c = Item(Operator(p.type), x),
         NEW t, Extends(t, s, c), NEW new \in BOOLEAN, new = Combined(p, x)
  PROVE  c \in TextItem /\ LevelRight(b, t, new, p.OR, TRUE)
<1>1. Operator(p.type) \in {"U", "O", "X"}
  BY DEF Operator
<1>2. c \in TextItem /\ c.op = Operator(p.type) /\ c.val = x
  BY <1>1, ItemIs
<1>3. /\ p.OR <=> Carried(b, s)
      /\ p.NER <=> Begun(s)
      /\ s # <<>> => (p.VKE <=> ValueFrom(b, s))
  BY DEF LevelRight
<1>4. p.OR \in BOOLEAN /\ p.NER \in BOOLEAN /\ p.VKE \in BOOLEAN
  BY DEF ParenEntry
<1>5. Begun(s) => s # <<>>
  BY DEF Begun
<1>6. CASE Operator(p.type) = "U"
  <2>1. /\ Begun(t) /\ (Carried(b, t) <=> Carried(b, s))
        /\ ValueFrom(b, t) <=> ((Begun(s) => ValueFrom(b, s)) /\ x) \/ Carried(b, s)
    BY <1>2, <1>6, AndGrows
  <2>2. new <=> (((p.NER => p.VKE) /\ x) \/ p.OR)
    BY <1>6 DEF Combined
  <2> QED BY <1>2, <1>3, <1>5, <2>1, <2>2 DEF LevelRight
<1>7. CASE Operator(p.type) # "U"
  <2>1. ~InGroup(s) /\ ~Carried(b, s) /\ (s # <<>> => Begun(s))
    BY <1>7, Standing
  <2>2. c.op \in {"O", "X"}
    BY <1>1, <1>2, <1>7
  <2>3. /\ Begun(t) /\ ~Carried(b, t)
        /\ c.op = "O" => (ValueFrom(b, t) <=> (Begun(s) /\ ValueFrom(b, s)) \/ x)
        /\ c.op = "X" => (ValueFrom(b, t) <=> ~((Begun(s) /\ ValueFrom(b, s)) <=> x))
    BY <1>2, <2>1, <2>2, OrGrows
  <2>4. c.op = "O" => (new <=> (p.NER /\ p.VKE) \/ x)
    BY <1>2 DEF Combined
  <2>5. c.op = "X" => (new <=> (p.NER /\ p.VKE) # x)
    BY <1>2 DEF Combined
  <2>6. c.op = "X" => (new <=> ~((p.NER /\ p.VKE) <=> x))
    BY <1>4, <2>5
  <2> QED BY <1>2, <1>3, <1>5, <2>1, <2>2, <2>3, <2>4, <2>6 DEF LevelRight
<1> QED BY <1>2, <1>6, <1>7

LEMMA CloseKeeps ==
  ASSUME BitInv, BEND
  PROVE  BitInv'
<1>1. CASE Raise
  BY <1>1, RaiseKeeps
<1>2. CASE ~Raise
  <2> DEFINE p0 == Last(parenStack)
             inner0 == Value(Here) # Negated(p0.type)
  <2>1. /\ Here # << >> /\ ~Dangling /\ parenStack # << >>
        /\ sw' = [sw EXCEPT !.VKE = Combined(p0, sw.VKE # Negated(p0.type)), !.OR = p0.OR, !.NER = TRUE]
        /\ text' = Append(Front(Front(text)), Append(Last(Front(text)), Item(Operator(p0.type), inner0)))
        /\ parenStack' = Front(parenStack) /\ effect' = NoEffect
        /\ UNCHANGED <<mcrActive, mcrStack, edge, base, zones, seen, saved>>
    BY <1>2 DEF BEND
  <2>2. PICK m : m = Len(parenStack)
    OBVIOUS
  <2>3. /\ m \in Nat \ {0} /\ Len(text) = m + 1 /\ parenStack \in Seq(ParenEntry)
        /\ text \in Seq(Seq(TextItem)) /\ text # <<>> /\ base \in BOOLEAN /\ sw \in StatusWord
    <3>1. Len(parenStack) # 0
      BY <2>1 DEF BitInv, BitTyped
    <3> QED BY <2>2, <3>1, HereIs DEF BitInv, BitTyped
  <2>4. PICK p : p = parenStack[m]
    OBVIOUS
  <2>5. p = p0 /\ p \in ParenEntry
    BY <2>2, <2>3, <2>4 DEF Last
  <2>6. PICK s : s = text[m]
    OBVIOUS
  <2>7. PICK rest : rest = Front(text)
    OBVIOUS
  <2>8. rest \in Seq(Seq(TextItem)) /\ Len(rest) = m /\ \A k \in 1..m : rest[k] = text[k]
    <3>1. PICK T : T = Seq(TextItem)
      OBVIOUS
    <3>2. text \in Seq(T) /\ text # <<>> /\ text[1] \in T
      BY <2>3, <3>1
    <3>3. Front(text) \in Seq(T) /\ Len(Front(text)) = Len(text) - 1 /\ \A k \in 1..Len(text) - 1 : Front(text)[k] = text[k]
      BY <3>2, LastReplaced
    <3> QED BY <2>3, <2>7, <3>1, <3>3
  <2>9. s \in Seq(TextItem) /\ rest # <<>> /\ Last(rest) = s
    BY <2>3, <2>6, <2>8 DEF Last
  <2>10. PICK x \in BOOLEAN : x = inner0
    OBVIOUS
  <2>11. x = (sw.VKE # Negated(p.type))
    <3>1. sw.VKE = Value(Here)
      BY <2>1, VkeIsTheValue
    <3> QED BY <2>5, <2>10, <3>1
  <2>12. PICK c : c = Item(Operator(p.type), x)
    OBVIOUS
  <2>13. /\ LevelRight(base, s, p.VKE, p.OR, p.NER) /\ (InGroup(s) => Operator(p.type) = "U")
    <3>1. m \in 1..Len(parenStack)
      BY <2>2, <2>3
    <3> QED BY <2>4, <2>6, <3>1 DEF BitInv, LevelsRight
  <2>14. c \in TextItem
    <3>1. Operator(p.type) \in {"U", "O", "X", "sign"}
      BY DEF Operator
    <3> QED BY <2>12, <3>1, ItemIs
  <2>15. PICK t : t = Append(s, c)
    OBVIOUS
  <2>16. Extends(t, s, c) /\ t \in Seq(TextItem) /\ t # <<>>
    BY <2>9, <2>14, <2>15, Appending
  <2>17. PICK new \in BOOLEAN : new = Combined(p, x)
    <3>1. Combined(p, x) \in BOOLEAN
      <4>1. Operator(p.type) \in {"U", "O", "X"}
        BY DEF Operator
      <4> QED BY <4>1 DEF Combined
    <3> QED BY <3>1
  <2>18. LevelRight(base, t, new, p.OR, TRUE)
    <3>1. p \in ParenEntry /\ base \in BOOLEAN /\ s \in Seq(TextItem)
      BY <2>3, <2>5, <2>9
    <3> QED BY <2>12, <2>13, <2>16, <2>17, <3>1, ParenGrows
  <2>19. sw' = [sw EXCEPT !.VKE = new, !.OR = p.OR, !.NER = TRUE]
    BY <2>1, <2>5, <2>11, <2>17
  <2>20. p.OR \in BOOLEAN
    BY <2>5 DEF ParenEntry
  <2>21. sw' \in StatusWord /\ sw'.VKE = new /\ sw'.OR = p.OR /\ sw'.NER = TRUE /\ sw'.BIE = sw.BIE
    BY <2>3, <2>19, <2>20 DEF StatusWord
  <2>22. text' = Append(Front(rest), t)
    BY <2>1, <2>5, <2>7, <2>9, <2>10, <2>12, <2>15
  <2>23. text' \in Seq(Seq(TextItem)) /\ Len(text') = m /\ text'[m] = t /\ \A k \in 1..m - 1 : text'[k] = text[k]
    <3>1. PICK T : T = Seq(TextItem)
      OBVIOUS
    <3>2. PICK u : u = Append(Front(rest), t)
      OBVIOUS
    <3>3. rest \in Seq(T) /\ rest # <<>> /\ t \in T
      BY <2>8, <2>9, <2>16, <3>1
    <3>4. u \in Seq(T) /\ Len(u) = Len(rest) /\ u[Len(rest)] = t /\ \A k \in 1..Len(rest) - 1 : u[k] = rest[k]
      BY <3>2, <3>3, LastReplaced
    <3>5. Len(rest) = m /\ text' = u
      BY <2>8, <2>22, <3>2
    <3>6. u \in Seq(T) /\ Len(u) = m /\ u[m] = t /\ \A k \in 1..m - 1 : u[k] = rest[k]
      BY <3>4, <3>5
    <3>7. \A k \in 1..m - 1 : rest[k] = text[k]
      BY <2>3, <2>8
    <3>8. \A k \in 1..m - 1 : u[k] = text[k]
      BY <3>6, <3>7
    <3> QED BY <3>1, <3>5, <3>6, <3>8
  <2>24. /\ parenStack' \in Seq(ParenEntry) /\ Len(parenStack') = m - 1
         /\ \A k \in 1..m - 1 : parenStack'[k] = parenStack[k]
    <3>1. parenStack # <<>> /\ parenStack[1] \in ParenEntry
      BY <2>1, <2>2, <2>3
    <3>2. /\ Front(parenStack) \in Seq(ParenEntry) /\ Len(Front(parenStack)) = Len(parenStack) - 1
          /\ \A k \in 1..Len(parenStack) - 1 : Front(parenStack)[k] = parenStack[k]
      BY <2>3, <3>1, LastReplaced
    <3> QED BY <2>1, <2>2, <3>2
  <2>25. BitTyped'
    BY <2>1, <2>3, <2>21, <2>23, <2>24 DEF BitTyped
  <2>26. Here' = t
    <3>1. Here' = text'[Len(text')]
      BY DEF Here, Last
    <3> QED BY <2>23, <3>1
  <2>27. ASSUME NEW k \in 1..m - 1
         PROVE  /\ LevelRight(base, text'[k], parenStack'[k].VKE, parenStack'[k].OR, parenStack'[k].NER)
                /\ InGroup(text'[k]) => Operator(parenStack'[k].type) = "U"
    <3>1. k \in 1..Len(parenStack)
      BY <2>2, <2>3
    <3>2. /\ LevelRight(base, text[k], parenStack[k].VKE, parenStack[k].OR, parenStack[k].NER)
          /\ InGroup(text[k]) => Operator(parenStack[k].type) = "U"
      BY <3>1 DEF BitInv, LevelsRight
    <3> QED BY <2>23, <2>24, <3>2
  <2>28. LevelsRight'
    <3>1. base' = base
      BY <2>1
    <3>2. LevelRight(base', Here', sw'.VKE, sw'.OR, sw'.NER)
      BY <2>18, <2>21, <2>26, <3>1
    <3>3. \A k \in 1..Len(parenStack') :
            /\ LevelRight(base', text'[k], parenStack'[k].VKE, parenStack'[k].OR, parenStack'[k].NER)
            /\ InGroup(text'[k]) => Operator(parenStack'[k].type) = "U"
      BY <2>24, <2>27, <3>1
    <3>4. Here' # <<>>
      BY <2>16, <2>26
    <3> QED BY <3>1, <3>2, <3>3, <3>4 DEF LevelsRight
  <2>29. KeptRight' /\ effect'.did = effect'.ought
    BY <2>1, <2>21 DEF BitInv, KeptRight, NoEffect
  <2> QED BY <2>25, <2>28, <2>29 DEF BitInv
<1> QED BY <1>1, <1>2

\* A value that replaces the string.
LEMMA SingleItem ==
  ASSUME NEW b \in BOOLEAN, NEW x \in BOOLEAN, NEW s, s = <<Item("U", x)>>
  PROVE  /\ s \in Seq(TextItem) /\ s # <<>>
         /\ \A vke, or, ner : (vke <=> x) /\ ~or /\ ner => LevelRight(b, s, vke, or, ner)
<1>1. PICK e : e = <<>>
  OBVIOUS
<1>2. PICK c : c = Item("U", x)
  OBVIOUS
<1>3. c \in TextItem /\ c.op = "U" /\ c.val = x
  BY <1>2, ItemIs
<1>4. e \in Seq(TextItem) /\ s = <<c>> /\ s \in Seq(TextItem) /\ s # <<>>
  BY <1>1, <1>2, <1>3
<1>5. Extends(s, e, c)
  BY <1>1, <1>3, <1>4 DEF Extends
<1>6. ~Carried(b, e) /\ ~Begun(e)
  BY <1>1, <1>4, Standing
<1>7. Begun(s) /\ (Carried(b, s) <=> Carried(b, e))
      /\ (ValueFrom(b, s) <=> ((Begun(e) => ValueFrom(b, e)) /\ x) \/ Carried(b, e))
  BY <1>3, <1>4, <1>5, AndGrows
<1> QED BY <1>4, <1>6, <1>7 DEF LevelRight

LEMMA NotKeeps ==
  ASSUME BitInv, NOT
  PROVE  BitInv'
<1>1. /\ Here # <<>> /\ ~OpenGroup /\ sw' = [sw EXCEPT !.VKE = ~sw.VKE]
      /\ text' = Replaced(~Value(Here)) /\ effect' = NoEffect
      /\ UNCHANGED <<parenStack, mcrActive, mcrStack, edge, base, zones, seen, saved>>
  BY DEF NOT
<1>2. PICK x \in BOOLEAN : x = ~Value(Here)
  OBVIOUS
<1>3. PICK s : s = <<Item("U", x)>>
  OBVIOUS
<1>4. /\ sw.VKE = Value(Here) /\ base \in BOOLEAN /\ sw \in StatusWord
      /\ Here \in Seq(TextItem)
      /\ ~sw.OR /\ sw.NER
  <2>1. sw.VKE = Value(Here)
    BY <1>1, VkeIsTheValue
  <2>2. /\ Here \in Seq(TextItem) /\ base \in BOOLEAN /\ sw \in StatusWord
        /\ sw.OR <=> Carried(base, Here)
        /\ sw.NER <=> Begun(Here)
        /\ OpenGroup <=> InGroup(Here)
    BY HereStands
  <2> QED BY <1>1, <2>1, <2>2, Standing
<1>5. sw.VKE \in BOOLEAN
  BY <1>4 DEF StatusWord
<1>6. x = ~sw.VKE
  BY <1>2, <1>4
<1>7. sw' \in StatusWord /\ sw'.VKE = x /\ sw'.OR = sw.OR /\ sw'.NER = sw.NER /\ sw'.BIE = sw.BIE
  BY <1>1, <1>4, <1>6 DEF StatusWord
<1>8. /\ s \in Seq(TextItem) /\ s # <<>>
      /\ LevelRight(base, s, sw'.VKE, sw'.OR, sw'.NER)
  BY <1>3, <1>4, <1>7, SingleItem
<1>9. text' = Append(Front(text), s)
  BY <1>1, <1>2, <1>3 DEF Replaced
<1>10. KeptRight' /\ effect'.did = effect'.ought
  BY <1>1, <1>7 DEF BitInv, KeptRight, NoEffect
<1> QED BY <1>1, <1>7, <1>8, <1>9, <1>10, TopKeeps

LEMMA EdgeKeeps ==
  ASSUME BitInv, NEW res \in BOOLEAN, NEW ought \in BOOLEAN, res = ought, Edge(res, ought)
  PROVE  BitInv'
<1>1. /\ Here # <<>> /\ sw' = [sw EXCEPT !.VKE = res, !.OR = FALSE, !.NER = TRUE]
      /\ text' = Replaced(ought) /\ effect' = NoEffect /\ edge' = sw.VKE /\ seen' = Value(Here)
      /\ UNCHANGED <<parenStack, mcrActive, mcrStack, base, zones, saved>>
  BY DEF Edge
<1>2. PICK s : s = <<Item("U", ought)>>
  OBVIOUS
<1>3. sw.VKE = Value(Here) /\ base \in BOOLEAN /\ sw \in StatusWord /\ sw.VKE \in BOOLEAN
  BY <1>1, VkeIsTheValue, HereStands DEF StatusWord
<1>4. sw' \in StatusWord /\ sw'.VKE = res /\ sw'.OR = FALSE /\ sw'.NER = TRUE /\ sw'.BIE = sw.BIE
  BY <1>1, <1>3 DEF StatusWord
<1>5. /\ s \in Seq(TextItem) /\ s # <<>>
      /\ LevelRight(base, s, sw'.VKE, sw'.OR, sw'.NER)
  BY <1>2, <1>3, <1>4, SingleItem
<1>6. text' = Append(Front(text), s)
  BY <1>1, <1>2 DEF Replaced
<1>7. KeptRight' /\ effect'.did = effect'.ought
  BY <1>1, <1>3, <1>4 DEF BitInv, KeptRight, NoEffect
<1> QED BY <1>1, <1>4, <1>5, <1>6, <1>7, TopKeeps

\* FP and FN compare with the same bit that the string was compared with.
LEMMA EdgesKeep ==
  ASSUME BitInv, FP \/ FN
  PROVE  BitInv'
<1>1. Here # <<>>
  BY DEF FP, FN, Edge
<1>2. sw.VKE = Value(Here) /\ edge = seen
  BY <1>1, VkeIsTheValue DEF BitInv, KeptRight
<1>3. CASE FP
  <2>1. PICK r \in BOOLEAN : r = (sw.VKE /\ ~edge)
    OBVIOUS
  <2>2. r = (Value(Here) /\ ~seen)
    BY <1>2, <2>1
  <2>3. Edge(r, r)
    BY <1>3, <2>1, <2>2 DEF FP
  <2> QED BY <2>3, EdgeKeeps
<1>4. CASE FN
  <2>1. PICK r \in BOOLEAN : r = (~sw.VKE /\ edge)
    OBVIOUS
  <2>2. r = (~Value(Here) /\ seen)
    BY <1>2, <2>1
  <2>3. Edge(r, r)
    BY <1>4, <2>1, <2>2 DEF FN
  <2> QED BY <2>3, EdgeKeeps
<1> QED BY <1>3, <1>4

LEMMA SaveKeeps ==
  ASSUME BitInv, SAVE
  PROVE  BitInv'
<1>1. /\ Here # <<>> \/ Len(text) = 1
      /\ sw' = [sw EXCEPT !.BIE = sw.VKE] /\ saved' = Value(Here) /\ effect' = NoEffect
      /\ UNCHANGED <<parenStack, mcrActive, mcrStack, edge, text, base, zones, seen>>
  BY DEF SAVE
<1>2. sw.VKE = Value(Here) /\ sw \in StatusWord /\ sw.VKE \in BOOLEAN
  BY <1>1, VkeIsTheValue, HereStands DEF StatusWord
<1>3. /\ sw' \in StatusWord /\ sw'.BIE = sw.VKE
      /\ sw'.VKE = sw.VKE /\ sw'.OR = sw.OR /\ sw'.NER = sw.NER
  BY <1>1, <1>2 DEF StatusWord
<1>4. KeptRight' /\ effect'.did = effect'.ought
  BY <1>1, <1>2, <1>3 DEF BitInv, KeptRight, NoEffect
<1> QED BY <1>1, <1>3, <1>4, SameKeeps

LEMMA ActiveKeeps ==
  ASSUME BitInv, NEW active \in BOOLEAN, SetMcrActive(active)
  PROVE  BitInv'
<1>1. /\ mcrActive' = active /\ effect' = NoEffect
      /\ UNCHANGED <<sw, parenStack, mcrStack, edge, text, base, zones, seen, saved>>
  BY DEF SetMcrActive, written
<1>2. sw' \in StatusWord
  BY <1>1 DEF BitInv, BitTyped
<1>3. KeptRight' /\ effect'.did = effect'.ought
  BY <1>1 DEF BitInv, KeptRight, NoEffect
<1> QED BY <1>1, <1>2, <1>3, SameKeeps

\* What the end of a string leaves, given what VKE becomes.
LEMMA EndedIs ==
  ASSUME BitInv, NEW status \in StatusWord, NEW left \in BOOLEAN, Ended(status, left), status.VKE = left,
         UNCHANGED parenStack, KeptRight', effect'.did = effect'.ought
  PROVE  BitInv'
<1>1. /\ Len(text) = 1 /\ sw' = [status EXCEPT !.OR = FALSE, !.NER = FALSE]
      /\ text' = << << >> >> /\ base' = left
  BY DEF Ended, MayEnd
<1>2. sw' \in StatusWord /\ sw'.OR = FALSE /\ sw'.NER = FALSE /\ sw'.VKE = left
  BY <1>1 DEF StatusWord
<1> QED BY <1>1, <1>2, EndKeeps

LEMMA EndedBie ==
  ASSUME NEW status \in StatusWord, NEW left, Ended(status, left)
  PROVE  sw'.BIE = status.BIE /\ Len(text) = 1
BY DEF Ended, MayEnd, StatusWord

\* At the end of a string VKE is its value, and the relay is what the zones are.
LEMMA EndValue ==
  ASSUME BitInv, MayEnd
  PROVE  /\ sw.VKE = Value(Here) /\ Value(Here) \in BOOLEAN /\ sw.VKE \in BOOLEAN
         /\ sw.BIE = saved /\ sw.BIE \in BOOLEAN /\ sw \in StatusWord
         /\ McrIsOn <=> ZonesAllow
<1>1. sw.VKE = Value(Here) /\ Value(Here) \in BOOLEAN
  BY VkeIsTheValue DEF MayEnd
<1>2. sw \in StatusWord /\ sw.VKE \in BOOLEAN /\ sw.BIE \in BOOLEAN
  BY DEF BitInv, BitTyped, StatusWord
<1>3. McrIsOn <=> ZonesAllow
  BY DEF BitInv, KeptRight, McrIsOn, ZonesAllow
<1> QED BY <1>1, <1>2, <1>3 DEF BitInv, KeptRight

LEMMA UseKeeps ==
  ASSUME BitInv, NEW did, NEW ought, did = ought, NEW status \in StatusWord, NEW left \in BOOLEAN,
         status.VKE = left, status.BIE = sw.BIE, Use(did, ought, status, left)
  PROVE  BitInv'
<1>1. /\ Ended(status, left) /\ effect' = [did |-> did, ought |-> ought]
      /\ UNCHANGED <<parenStack, mcrActive, mcrStack, edge, zones, seen, saved>>
  BY DEF Use
<1>2. sw'.BIE = sw.BIE
  BY <1>1, EndedBie
<1>3. effect'.did = effect'.ought
  BY <1>1
<1>4. KeptRight'
  BY <1>1, <1>2 DEF BitInv, KeptRight
<1> QED BY <1>1, <1>3, <1>4, EndedIs

\* What each instruction that uses the value does is what the string says.
LEMMA UsesKeep ==
  ASSUME BitInv, Assign \/ S \/ R \/ SPB \/ SPBN \/ BEB \/ SPBI \/ SPBIN \/ SET \/ CLR
  PROVE  BitInv'
<1>1. MayEnd
  BY DEF Assign, S, R, SPB, SPBN, BEB, SPBI, SPBIN, SET, CLR, Jump, Use, Ended
<1>2. PICK v \in BOOLEAN : v = Value(Here)
  BY <1>1, EndValue
<1>3. /\ sw.VKE = v /\ sw.BIE = saved /\ sw.BIE \in BOOLEAN /\ sw \in StatusWord
      /\ McrIsOn <=> ZonesAllow
  BY <1>1, <1>2, EndValue
<1>4. PICK m \in BOOLEAN : m <=> ZonesAllow
  OBVIOUS
<1>5. /\ [sw EXCEPT !.VKE = TRUE] \in StatusWord /\ [sw EXCEPT !.VKE = TRUE].VKE = TRUE
      /\ [sw EXCEPT !.VKE = TRUE].BIE = sw.BIE
      /\ [sw EXCEPT !.VKE = FALSE] \in StatusWord /\ [sw EXCEPT !.VKE = FALSE].VKE = FALSE
      /\ [sw EXCEPT !.VKE = FALSE].BIE = sw.BIE
  BY <1>3 DEF StatusWord
<1>6. (McrIsOn /\ sw.VKE) = (m /\ v) /\ (sw.VKE /\ McrIsOn) = (m /\ v) /\ (ZonesAllow /\ Value(Here)) = (m /\ v)
  BY <1>2, <1>3, <1>4
<1>7. CASE Assign
  <2>1. Use(m /\ v, m /\ v, sw, v)
    BY <1>2, <1>6, <1>7 DEF Assign
  <2> QED BY <1>3, <2>1, UseKeeps
<1>8. CASE S \/ R
  <2>1. Use(m /\ v, m /\ v, sw, v)
    BY <1>2, <1>6, <1>8 DEF S, R
  <2> QED BY <1>3, <2>1, UseKeeps
<1>9. CASE SPB \/ BEB
  <2>1. Use(v, v, [sw EXCEPT !.VKE = TRUE], TRUE)
    BY <1>2, <1>3, <1>9 DEF SPB, BEB, Jump
  <2> QED BY <1>5, <2>1, UseKeeps
<1>10. CASE SPBN
  <2>1. Use(~v, ~v, [sw EXCEPT !.VKE = TRUE], TRUE)
    BY <1>2, <1>3, <1>10 DEF SPBN, Jump
  <2> QED BY <1>5, <2>1, UseKeeps
<1>11. CASE SPBI
  <2>1. Use(saved, saved, sw, v)
    BY <1>2, <1>3, <1>11 DEF SPBI
  <2> QED BY <1>3, <2>1, UseKeeps
<1>12. CASE SPBIN
  <2>1. Use(~saved, ~saved, sw, v)
    BY <1>2, <1>3, <1>12 DEF SPBIN
  <2> QED BY <1>3, <2>1, UseKeeps
<1>13. CASE SET
  BY <1>5, <1>13, UseKeeps DEF SET
<1>14. CASE CLR
  BY <1>5, <1>14, UseKeeps DEF CLR
<1> QED BY <1>7, <1>8, <1>9, <1>10, <1>11, <1>12, <1>13, <1>14

\* SPBB and SPBNB save the value they jump by.
LEMMA SavingKeeps ==
  ASSUME BitInv, SPBB \/ SPBNB
  PROVE  BitInv'
<1>1. MayEnd
  BY DEF SPBB, SPBNB, JumpSaving, Ended
<1>2. PICK v \in BOOLEAN : v = Value(Here)
  BY <1>1, EndValue
<1>3. sw.VKE = v /\ sw \in StatusWord
  BY <1>1, <1>2, EndValue
<1>4. PICK d \in BOOLEAN : JumpSaving(d, d)
  <2>1. SPBB => JumpSaving(v, v)
    BY <1>2, <1>3 DEF SPBB
  <2>2. SPBNB => JumpSaving(~v, ~v)
    BY <1>2, <1>3 DEF SPBNB
  <2>3. v \in BOOLEAN /\ (~v) \in BOOLEAN
    OBVIOUS
  <2> QED BY <2>1, <2>2, <2>3
<1>5. PICK status : status = [sw EXCEPT !.BIE = sw.VKE, !.VKE = TRUE]
  OBVIOUS
<1>6. status \in StatusWord /\ status.VKE = TRUE /\ status.BIE = v
  BY <1>3, <1>5 DEF StatusWord
<1>7. /\ Ended(status, TRUE) /\ effect' = [did |-> d, ought |-> d] /\ saved' = v
      /\ UNCHANGED <<parenStack, mcrActive, mcrStack, edge, zones, seen>>
  BY <1>2, <1>4, <1>5 DEF JumpSaving
<1>8. sw'.BIE = v
  BY <1>6, <1>7, EndedBie
<1>9. KeptRight' /\ effect'.did = effect'.ought
  BY <1>7, <1>8 DEF BitInv, KeptRight
<1> QED BY <1>6, <1>7, <1>9, EndedIs

\* A zone is opened with the value of the string and closed in the same order.
LEMMA ZonesKeep ==
  ASSUME BitInv, MCRB \/ BMCR
  PROVE  BitInv'
<1>1. CASE Raise
  BY <1>1, RaiseKeeps
<1>2. CASE ~Raise
  <2>1. MayEnd
    BY DEF MCRB, BMCR
  <2>2. PICK v \in BOOLEAN : v = Value(Here)
    BY <2>1, EndValue
  <2>3. sw.VKE = v /\ sw \in StatusWord
    BY <2>1, <2>2, EndValue
  <2>4. /\ Ended(sw, v) /\ effect' = NoEffect
        /\ \/ mcrStack' = Append(mcrStack, v) /\ zones' = Append(zones, v)
           \/ mcrStack # <<>> /\ mcrStack' = Front(mcrStack) /\ zones' = Front(zones)
        /\ UNCHANGED <<parenStack, mcrActive, edge, seen, saved>>
    BY <1>2, <2>2, <2>3 DEF MCRB, BMCR
  <2>5. mcrStack \in Seq(BOOLEAN) /\ zones = mcrStack
    BY DEF BitInv, KeptRight
  <2>6. mcrStack' \in Seq(BOOLEAN) /\ zones' = mcrStack'
    <3>1. mcrStack # <<>> => Front(mcrStack) \in Seq(BOOLEAN)
      <4>1. TRUE \in BOOLEAN
        OBVIOUS
      <4> QED BY <2>5, <4>1, LastReplaced
    <3>2. Append(mcrStack, v) \in Seq(BOOLEAN)
      BY <2>5
    <3> QED BY <2>4, <2>5, <3>1, <3>2
  <2>7. sw'.BIE = sw.BIE
    BY <2>3, <2>4, EndedBie
  <2>8. KeptRight' /\ effect'.did = effect'.ought
    BY <2>4, <2>6, <2>7 DEF BitInv, KeptRight, NoEffect
  <2> QED BY <2>3, <2>4, <2>8, EndedIs
<1> QED BY <1>1, <1>2

LEMMA BitStarts == BitInit => BitInv
<1> SUFFICES ASSUME BitInit PROVE BitInv
  OBVIOUS
<1>1. PICK e : e = <<>>
  OBVIOUS
<1>2. e \in Seq(TextItem) /\ text = <<e>> /\ parenStack = <<>> /\ base = FALSE
  BY <1>1 DEF BitInit
<1>3. text \in Seq(Seq(TextItem)) /\ Len(text) = 1 /\ text[1] = e
  BY <1>2
<1>4. parenStack \in Seq(ParenEntry) /\ Len(parenStack) = 0
  BY <1>2
<1>5. sw \in StatusWord /\ sw.VKE = FALSE /\ sw.OR = FALSE /\ sw.NER = FALSE /\ sw.BIE = FALSE
  BY DEF BitInit, StatusWord
<1>6. BitTyped
  <2>1. base \in BOOLEAN
    BY <1>2
  <2>2. Len(text) = Len(parenStack) + 1
    BY <1>3, <1>4
  <2> QED BY <1>3, <1>4, <1>5, <2>1, <2>2 DEF BitTyped
<1>7. Here = e
  BY <1>3 DEF Here, Last
<1>8. ~Carried(base, e) /\ ~Begun(e)
  BY <1>1, <1>2, Standing
<1>9. LevelsRight
  <2>1. LevelRight(base, Here, sw.VKE, sw.OR, sw.NER)
    BY <1>1, <1>5, <1>7, <1>8 DEF LevelRight
  <2>2. sw.VKE = base
    BY <1>2, <1>5
  <2>3. \A k : k \notin 1..Len(parenStack)
    BY <1>4
  <2> QED BY <2>1, <2>2, <2>3 DEF LevelsRight
<1>10. KeptRight /\ effect.did = effect.ought
  <2>1. mcrStack = <<>> /\ zones = <<>> /\ <<>> \in Seq(BOOLEAN)
    BY DEF BitInit
  <2> QED BY <1>5, <2>1 DEF BitInit, KeptRight, NoEffect
<1> QED BY <1>6, <1>9, <1>10 DEF BitInv

LEMMA BitStep == BitInv /\ [BitNext]_bitVars => BitInv'
<1> SUFFICES ASSUME BitInv, [BitNext]_bitVars PROVE BitInv'
  OBVIOUS
<1>1. ASSUME NEW x \in BOOLEAN, U(x) \/ UN(x) \/ O(x) \/ ON(x) \/ X(x) \/ XN(x) PROVE BitInv'
  <2>1. (~x) \in BOOLEAN
    OBVIOUS
  <2>2. CASE U(x)
    BY <2>2, AndKeeps DEF U
  <2>3. CASE UN(x)
    BY <2>1, <2>3, AndKeeps DEF UN
  <2>4. CASE O(x)
    BY <2>4, OrKeeps DEF O
  <2>5. CASE ON(x)
    BY <2>1, <2>5, OrKeeps DEF ON
  <2>6. CASE X(x)
    BY <2>6, XorKeeps DEF X
  <2>7. CASE XN(x)
    BY <2>1, <2>7, XorKeeps DEF XN
  <2> QED BY <1>1, <2>2, <2>3, <2>4, <2>5, <2>6, <2>7
<1>2. CASE OSign
  BY <1>2, SignKeeps
<1>3. CASE UB \/ UNB \/ OB \/ ONB \/ XB \/ XNB
  <2>1. PICK type \in ParenTypes : Open(type)
    BY <1>3 DEF UB, UNB, OB, ONB, XB, XNB, ParenTypes
  <2> QED BY <2>1, OpenKeeps
<1>4. CASE BEND
  BY <1>4, CloseKeeps
<1>5. CASE NOT
  BY <1>5, NotKeeps
<1>6. CASE FP \/ FN
  BY <1>6, EdgesKeep
<1>7. CASE SAVE
  BY <1>7, SaveKeeps
<1>8. CASE MCRB \/ BMCR
  BY <1>8, ZonesKeep
<1>9. CASE MCRA \/ MCRD
  <2>1. PICK active \in BOOLEAN : SetMcrActive(active)
    BY <1>9 DEF MCRA, MCRD
  <2> QED BY <2>1, ActiveKeeps
<1>10. CASE Assign \/ S \/ R \/ SPB \/ SPBN \/ BEB \/ SPBI \/ SPBIN \/ SET \/ CLR
  BY <1>10, UsesKeep
<1>11. CASE SPBB \/ SPBNB
  BY <1>11, SavingKeeps
<1>12. CASE UNCHANGED bitVars
  <2>1. UNCHANGED <<sw, parenStack, mcrActive, mcrStack, edge, effect, text, base, zones, seen, saved>>
    BY <1>12 DEF bitVars, machine, written
  <2>2. KeptRight' /\ effect'.did = effect'.ought /\ sw' \in StatusWord
    BY <2>1 DEF BitInv, KeptRight, BitTyped
  <2> QED BY <2>1, <2>2, SameKeeps
<1>13. CASE BitNext
  BY <1>1, <1>2, <1>3, <1>4, <1>5, <1>6, <1>7, <1>8, <1>9, <1>10, <1>11, <1>13 DEF BitNext
<1> QED BY <1>12, <1>13

\* The status word keeps step with the string at every level of parentheses:
\* OR is what the O without operand has left to add, NER says whether the string
\* has begun, VKE is its value; the MCR stack is the list of the open zones.
THEOREM BitInvariant == BitSpec => []BitInv
<1> QED BY BitStarts, BitStep, PTL DEF BitSpec

LEMMA InvIsEffect == BitInv => EffectAsWritten
<1> SUFFICES ASSUME BitInv PROVE EffectAsWritten
  OBVIOUS
<1>1. /\ Len(parenStack) \in Nat /\ parenStack \in Seq(ParenEntry) /\ Len(text) = Len(parenStack) + 1
      /\ text \in Seq(Seq(TextItem)) /\ base \in BOOLEAN
  BY DEF BitInv, BitTyped
<1>2. ASSUME Here # <<>> \/ parenStack = <<>> PROVE sw.VKE = Value(Here)
  <2>1. parenStack = <<>> => Len(text) = 1
    BY <1>1
  <2> QED BY <1>2, <2>1, VkeIsTheValue
<1>3. ASSUME NEW k \in DOMAIN parenStack, text[k] # <<>> PROVE parenStack[k].VKE = Value(text[k])
  <2>1. k \in 1..Len(parenStack) /\ k \in 1..Len(text)
    BY <1>1
  <2>2. text[k] \in Seq(TextItem) /\ parenStack[k] \in ParenEntry
    BY <1>1, <2>1
  <2>3. LevelRight(base, text[k], parenStack[k].VKE, parenStack[k].OR, parenStack[k].NER)
    BY <2>1 DEF BitInv, LevelsRight
  <2>4. parenStack[k].VKE <=> ValueFrom(base, text[k])
    BY <1>3, <2>3 DEF LevelRight
  <2>5. parenStack[k].VKE \in BOOLEAN /\ ValueFrom(base, text[k]) \in BOOLEAN
    BY <1>1, <2>2, ValueIsBoolean DEF ParenEntry
  <2>6. Value(text[k]) = ValueFrom(base, text[k])
    BY DEF Value, ValueFrom
  <2> QED BY <2>4, <2>5, <2>6
<1>4. sw.BIE = saved /\ edge = seen /\ effect.did = effect.ought
  BY DEF BitInv, KeptRight
<1> QED BY <1>2, <1>3, <1>4 DEF EffectAsWritten, VkeIsValue

\* VKE is the value of the string as it is written so far, and every assignment,
\* set, reset, jump and conditional end does what the string and the enclosing
\* MCR zones say, for stacks and programs of any length.
THEOREM EffectsAreWritten == BitSpec => []EffectAsWritten
<1> QED BY BitInvariant, InvIsEffect, PTL

-----------------------------------------------------------------------------
(* The blocks of the library.                                              *)

StringBytes == 0 .. RetAt + MaxIn + 2
LibraryRegs == [AR1 : Int, AR2 : Int, MAX_COPY_LEN : Int, IN_END : Int,
                DEL_START : Int, DEL_END : Int, RET_VAL_START : Int]

\* How many characters DELETE copies in front of those it leaves out, how
\* many it leaves out, and how many it copies in all.
CopiesAll(len, L, P, room) == L = 0 \/ P = 0 \/ P > Smaller(room, len)
FrontOf(len, L, P, room) == IF CopiesAll(len, L, P, room) THEN Smaller(room, len) ELSE P - 1
Gone(len, L, P, room) == IF CopiesAll(len, L, P, room) THEN 0 ELSE Smaller(L, len - P + 1)
Count(len, L, P, room) == Smaller(room, len - Gone(len, L, P, room))

\* A call of DELETE, and what holds of the memory while it runs.
DeleteCall ==
    /\ call.fc = "DELETE" /\ call.L \in Int /\ call.P \in Int
    /\ call.len \in 0..MaxIn /\ call.retMax \in 0..MaxIn /\ call.retAt \in {InAt, RetAt}
NothingBeside ==
    \A i \in StringBytes \ (InAt .. InAt + 1 + MaxIn) :
        i \notin call.retAt .. call.retAt + 1 + call.retMax => bytes[i] = Unused
Positive == call.L >= 0 /\ call.P >= 0

CallFront == FrontOf(call.len, call.L, call.P, call.retMax)
CallGone == Gone(call.len, call.L, call.P, call.retMax)
CallCount == Count(call.len, call.L, call.P, call.retMax)

\* The characters of IN from a on are as they were, and the first k of
\* RET_VAL are those that belong there.
Unread(a) == \A j \in a + 1 .. call.len : bytes[InAt + 1 + j] = 100 + j
Taken(k) == \A j \in 1..k : bytes[call.retAt + 1 + j] = 100 + (IF j <= CallFront THEN j ELSE j + CallGone)

DeleteRuns == DeleteCall /\ bytes[call.retAt] = call.retMax /\ NothingBeside /\ reg.RET_VAL_START = Pointer(call.retAt)
DeleteStarted ==
    /\ bytes[InAt + 1] = call.len /\ Unread(0)
    /\ reg.AR1 = Pointer(InAt) /\ reg.AR2 = Pointer(call.retAt) /\ reg.IN_END = Pointer(InAt + 2 + call.len)
Limits ==
    /\ reg.DEL_START = Pointer(InAt + 2 + CallFront) /\ reg.DEL_END = Pointer(InAt + 2 + CallFront + CallGone)
    /\ reg.IN_END = Pointer(InAt + 2 + CallGone + CallCount)
AtCharacter(a, k) ==
    reg.AR1 = Pointer(InAt + 2 + a) /\ reg.AR2 = Pointer(call.retAt + 2 + k) /\ Unread(a) /\ Taken(k)

LibraryInv ==
    /\ bytes \in [StringBytes -> Int] /\ reg \in LibraryRegs
    /\ at \in {"idle", "CEND", "CPY1", "CPY2", "WLEN", "END"}
    /\ at \in {"CEND", "CPY1", "CPY2", "WLEN"} => DeleteRuns
    /\ at = "CEND" => DeleteStarted
    /\ at \in {"CPY1", "CPY2", "WLEN"} => Positive
    /\ at \in {"CPY1", "CPY2"} => Limits
    /\ at = "CPY1" => \E k \in 0 .. CallFront : AtCharacter(k, k)
    /\ at = "CPY2" => \E k \in CallFront .. CallCount : AtCharacter(CallGone + k, k)
    /\ at = "WLEN" => reg.AR2 = Pointer(call.retAt + 2 + CallCount) /\ Taken(CallCount)
    /\ LibraryDoes

\* A pointer to bits and the byte it points into.
LEMMA PointedByte ==
  \A n \in Int : Pointer(n) \in Int /\ Pointer(n) \div 8 = n
BY DEF Pointer

\* The characters DELETE copies are those that are to remain.
LEMMA Amounts ==
  ASSUME NEW len \in Nat, NEW L \in Nat, NEW P \in Nat, NEW room \in Nat
  PROVE  /\ FrontOf(len, L, P, room) \in Nat /\ Gone(len, L, P, room) \in Nat /\ Count(len, L, P, room) \in Nat
         /\ FrontOf(len, L, P, room) <= Count(len, L, P, room)
         /\ Count(len, L, P, room) <= room
         /\ Gone(len, L, P, room) + Count(len, L, P, room) <= len
BY DEF FrontOf, Gone, Count, CopiesAll, Smaller

IsKept(kept, front, gone, total) ==
    /\ DOMAIN kept = 1..total /\ Len(kept) = total
    /\ \A i \in 1..total : kept[i] = IF i <= front THEN i ELSE i + gone
LEMMA KeptCharacters ==
  ASSUME NEW len \in Nat, NEW L \in Nat, NEW P \in Nat, NEW room \in Nat
  PROVE  IsKept(Kept(len, L, P, room), FrontOf(len, L, P, room), Gone(len, L, P, room), Count(len, L, P, room))
<1> DEFINE none == L = 0 \/ P = 0 \/ P > len
           gone == IF none THEN 0 ELSE Smaller(L, len - P + 1)
           top  == Smaller(room, len - gone)
           kept == [i \in 1..top |-> IF none \/ i < P THEN i ELSE i + L]
<1>1. Kept(len, L, P, room) = kept
  BY DEF Kept
<1>2. top \in Nat /\ top = Count(len, L, P, room)
  BY DEF Count, Gone, CopiesAll, Smaller
<1>3. \A i \in 1..top : (IF none \/ i < P THEN i ELSE i + L)
                          = IF i <= FrontOf(len, L, P, room) THEN i ELSE i + Gone(len, L, P, room)
  BY DEF FrontOf, Gone, CopiesAll, Smaller
<1>4. \A i \in 1..top : kept[i] = IF none \/ i < P THEN i ELSE i + L
  OBVIOUS
<1>5. DOMAIN kept = 1..top /\ Len(kept) = top
  BY <1>2
<1> HIDE DEF none, gone, top, kept
<1> QED BY <1>1, <1>2, <1>3, <1>4, <1>5 DEF IsKept

LEMMA LibraryStarts == LibraryInit => LibraryInv
<1> SUFFICES ASSUME LibraryInit PROVE LibraryInv
  OBVIOUS
<1>1. bytes \in [StringBytes -> Int]
  BY DEF LibraryInit, StringBytes, Unused
<1>2. reg \in LibraryRegs
  BY DEF LibraryInit, NoRegs, LibraryRegs
<1>3. at = "idle"
  BY DEF LibraryInit
<1> QED BY <1>1, <1>2, <1>3 DEF LibraryInv, LibraryDoes

LEMMA CallDeleteStep ==
  ASSUME LibraryInv, at = "idle", NEW inMax \in 0..MaxIn, NEW inLen \in 0..inMax, NEW retMax \in RetMaxes,
         NEW inPlace \in BOOLEAN, NEW L \in Numbers, NEW P \in Numbers,
         CallDelete(inMax, inLen, retMax, inPlace, L, P)
  PROVE  LibraryInv'
<1> USE IecLibraryAssumption
<1> DEFINE ra == IF inPlace THEN InAt ELSE RetAt
           room == IF inPlace THEN inMax ELSE retMax
           Byte(i) == IF i \in InAt .. InAt + 1 + inMax THEN StringAt(InAt, inMax, inLen, i)
                      ELSE IF ~inPlace /\ i \in RetAt .. RetAt + 1 + retMax THEN StringAt(RetAt, retMax, 0, i)
                      ELSE Unused
<1>1. bytes \in [StringBytes -> Int] /\ reg \in LibraryRegs
  BY DEF LibraryInv
<1>2. /\ inMax \in Nat /\ inLen \in Nat /\ retMax \in Nat /\ L \in Int /\ P \in Int
      /\ inLen <= inMax /\ inMax <= MaxIn /\ retMax <= MaxIn
  OBVIOUS
<1>3. bytes' = [i \in StringBytes |-> Byte(i)]
  BY <1>1 DEF CallDelete
<1>4. \A i \in StringBytes : Byte(i) \in Int
  BY <1>2 DEF StringAt, Unused, StringBytes, InAt, RetAt
<1>5. bytes' \in [StringBytes -> Int] /\ \A i \in StringBytes : bytes'[i] = Byte(i)
  BY <1>3, <1>4
<1>6. call' = [fc |-> "DELETE", L |-> L, P |-> P, len |-> inLen, retAt |-> ra, retMax |-> room]
  BY DEF CallDelete
<1>7. /\ call'.fc = "DELETE" /\ call'.L = L /\ call'.P = P /\ call'.len = inLen
      /\ call'.retAt = ra /\ call'.retMax = room
  BY <1>6
<1>8. ra \in {InAt, RetAt} /\ room \in 0..MaxIn /\ ra \in Int
  BY <1>2 DEF InAt, RetAt
<1>9. DeleteCall'
  BY <1>2, <1>7, <1>8 DEF DeleteCall
<1>10. Byte(ra) = room /\ ra \in StringBytes
  <2>1. CASE inPlace
    BY <1>2, <2>1 DEF StringAt, StringBytes, InAt, RetAt
  <2>2. CASE ~inPlace
    <3>1. RetAt \notin InAt .. InAt + 1 + inMax /\ RetAt \in RetAt .. RetAt + 1 + retMax
      BY <1>2 DEF InAt, RetAt
    <3>2. Byte(RetAt) = StringAt(RetAt, retMax, 0, RetAt)
      BY <2>2, <3>1
    <3>3. StringAt(RetAt, retMax, 0, RetAt) = retMax
      BY DEF StringAt
    <3>4. RetAt \in StringBytes
      BY <1>2 DEF StringBytes, InAt, RetAt
    <3> QED BY <2>2, <3>2, <3>3, <3>4
  <2> QED BY <2>1, <2>2
<1>11. \A i \in StringBytes \ (InAt .. InAt + 1 + MaxIn) : i \notin ra .. ra + 1 + room => Byte(i) = Unused
  BY <1>2 DEF StringBytes, InAt, RetAt
<1>12. Byte(InAt + 1) = inLen /\ InAt + 1 \in StringBytes
  BY <1>2 DEF StringAt, StringBytes, InAt, RetAt
<1>13. ASSUME NEW j \in 1..inLen PROVE Byte(InAt + 1 + j) = 100 + j /\ InAt + 1 + j \in StringBytes
  <2>1. j \in Nat /\ j >= 1 /\ j <= inLen
    BY <1>2
  <2>2. InAt + 1 + j \in InAt .. InAt + 1 + inMax /\ InAt + 1 + j \in StringBytes
    BY <1>2, <2>1 DEF InAt, RetAt, StringBytes
  <2>3. StringAt(InAt, inMax, inLen, InAt + 1 + j) = 100 + j
    BY <1>2, <2>1 DEF StringAt, InAt
  <2> QED BY <2>2, <2>3
<1>14. reg' = [NoRegs EXCEPT !.AR1 = Pointer(InAt), !.AR2 = Pointer(ra), !.RET_VAL_START = Pointer(ra),
                             !.IN_END = Pointer(InAt + inLen + 2)]
  BY DEF CallDelete
<1>15. Pointer(InAt) \in Int /\ Pointer(ra) \in Int /\ Pointer(InAt + inLen + 2) \in Int
  BY <1>2, <1>8 DEF Pointer, InAt
<1>16. /\ reg' \in LibraryRegs /\ reg'.AR1 = Pointer(InAt) /\ reg'.AR2 = Pointer(ra)
       /\ reg'.RET_VAL_START = Pointer(ra) /\ reg'.IN_END = Pointer(InAt + inLen + 2)
  <2> DEFINE x == Pointer(InAt)
             y == Pointer(ra)
             z == Pointer(InAt + inLen + 2)
             new == [NoRegs EXCEPT !.AR1 = x, !.AR2 = y, !.RET_VAL_START = y, !.IN_END = z]
  <2>1. x \in Int /\ y \in Int /\ z \in Int /\ reg' = new
    BY <1>14, <1>15
  <2> HIDE DEF x, y, z
  <2>2. new \in LibraryRegs /\ new.AR1 = x /\ new.AR2 = y /\ new.RET_VAL_START = y /\ new.IN_END = z
    <3>1. NoRegs \in LibraryRegs
      BY DEF NoRegs, LibraryRegs
    <3>2. ASSUME NEW r \in LibraryRegs
          PROVE LET n == [r EXCEPT !.AR1 = x, !.AR2 = y, !.RET_VAL_START = y, !.IN_END = z]
                IN  n \in LibraryRegs /\ n.AR1 = x /\ n.AR2 = y /\ n.RET_VAL_START = y /\ n.IN_END = z
      BY <2>1 DEF LibraryRegs
    <3> QED BY <3>1, <3>2
  <2> HIDE DEF new
  <2>3. reg' \in LibraryRegs /\ reg'.AR1 = x /\ reg'.AR2 = y /\ reg'.RET_VAL_START = y /\ reg'.IN_END = z
    BY <2>1, <2>2
  <2> QED BY <2>3 DEF x, y, z
<1> HIDE DEF ra, room, Byte
<1>17. at' = "CEND"
  BY DEF CallDelete
<1>18. bytes'[ra] = room
  BY <1>5, <1>10
<1>19. NothingBeside'
  BY <1>5, <1>7, <1>11 DEF NothingBeside
<1>20. DeleteRuns'
  BY <1>7, <1>9, <1>16, <1>18, <1>19 DEF DeleteRuns
<1>21. Unread(0)'
  <2>1. \A j \in 1..inLen : bytes'[InAt + 1 + j] = 100 + j
    BY <1>5, <1>13
  <2> QED BY <1>7, <2>1 DEF Unread
<1>22. InAt + inLen + 2 = InAt + 2 + inLen
  BY <1>2 DEF InAt
<1>23. DeleteStarted'
  BY <1>5, <1>7, <1>12, <1>16, <1>21, <1>22 DEF DeleteStarted
<1>24. LibraryDoes'
  BY <1>17 DEF LibraryDoes
<1> QED BY <1>5, <1>16, <1>17, <1>20, <1>23, <1>24 DEF LibraryInv

\* A step of the copying loops takes the next character over.
LEMMA CharacterCopied ==
  ASSUME bytes \in [StringBytes -> Int], reg \in LibraryRegs, DeleteRuns, Positive,
         NEW a \in Int, NEW k \in Int, 0 <= k, k <= a, a < call.len, k < CallCount,
         a + 1 = IF k + 1 <= CallFront THEN k + 1 ELSE k + 1 + CallGone,
         AtCharacter(a, k), CopyCharacter, call' = call
  PROVE  /\ bytes' \in [StringBytes -> Int] /\ reg' \in LibraryRegs
         /\ DeleteRuns' /\ Positive' /\ AtCharacter(a + 1, k + 1)'
         /\ (Limits => Limits')
<1> USE IecLibraryAssumption
<1>1. PICK ra, n, room, F, G, C : ra = call.retAt /\ n = call.len /\ room = call.retMax
                                 /\ F = CallFront /\ G = CallGone /\ C = CallCount
  OBVIOUS
<1>2. ra \in {InAt, RetAt} /\ n \in 0..MaxIn /\ room \in 0..MaxIn /\ ra \in Int
  BY <1>1 DEF DeleteRuns, DeleteCall, InAt, RetAt
<1>3. F \in Nat /\ G \in Nat /\ C \in Nat /\ C <= room
  <2>1. call.L \in Nat /\ call.P \in Nat /\ call.len \in Nat /\ call.retMax \in Nat
    BY DEF Positive, DeleteRuns, DeleteCall
  <2>2. /\ FrontOf(call.len, call.L, call.P, call.retMax) \in Nat
        /\ Gone(call.len, call.L, call.P, call.retMax) \in Nat
        /\ Count(call.len, call.L, call.P, call.retMax) \in Nat
        /\ Count(call.len, call.L, call.P, call.retMax) <= call.retMax
    BY <2>1, Amounts
  <2> QED BY <1>1, <2>2 DEF CallFront, CallGone, CallCount
<1>4. a < n /\ k < C /\ a + 1 = IF k + 1 <= F THEN k + 1 ELSE k + 1 + G
  BY <1>1
<1>5. CallFront' = F /\ CallGone' = G /\ CallCount' = C /\ call'.retAt = ra /\ call'.len = n /\ call'.retMax = room
  BY <1>1 DEF CallFront, CallGone, CallCount
<1>6. reg.AR1 = Pointer(InAt + 2 + a) /\ reg.AR2 = Pointer(ra + 2 + k)
  BY <1>1 DEF AtCharacter
<1>7. InAt + 2 + a \in Int /\ ra + 2 + k \in Int
  BY <1>2 DEF InAt
<1>8. reg.AR1 \div 8 = InAt + 2 + a /\ reg.AR2 \div 8 = ra + 2 + k
  BY <1>6, <1>7, PointedByte
<1>9. bytes' = [bytes EXCEPT ![ra + 2 + k] = bytes[InAt + 2 + a]]
  BY <1>8 DEF CopyCharacter
<1>10. InAt + 2 + a \in StringBytes /\ ra + 2 + k \in StringBytes
  BY <1>2, <1>3, <1>4 DEF InAt, RetAt, StringBytes
<1>11. bytes[InAt + 2 + a] = 100 + (a + 1)
  <2>1. \A j \in a + 1 .. n : bytes[InAt + 1 + j] = 100 + j
    BY <1>1 DEF AtCharacter, Unread
  <2>2. a + 1 \in a + 1 .. n /\ InAt + 1 + (a + 1) = InAt + 2 + a
    BY <1>2, <1>4 DEF InAt
  <2> QED BY <2>1, <2>2
<1>12. bytes[InAt + 2 + a] \in Int
  BY <1>10
<1>13. /\ bytes' \in [StringBytes -> Int] /\ bytes'[ra + 2 + k] = 100 + (a + 1)
       /\ \A i \in StringBytes : i # ra + 2 + k => bytes'[i] = bytes[i]
  BY <1>9, <1>10, <1>11, <1>12
<1>14. reg' = [reg EXCEPT !.AR1 = @ + Pointer(1), !.AR2 = @ + Pointer(1)]
  BY DEF CopyCharacter
<1>15. /\ reg' \in LibraryRegs /\ reg'.AR1 = reg.AR1 + Pointer(1) /\ reg'.AR2 = reg.AR2 + Pointer(1)
       /\ reg'.DEL_START = reg.DEL_START /\ reg'.DEL_END = reg.DEL_END /\ reg'.IN_END = reg.IN_END
       /\ reg'.RET_VAL_START = reg.RET_VAL_START
  <2>1. reg.AR1 \in Int /\ reg.AR2 \in Int /\ Pointer(1) \in Int
    BY DEF Pointer, LibraryRegs
  <2>2. PICK x \in Int, y \in Int : x = reg.AR1 + Pointer(1) /\ y = reg.AR2 + Pointer(1)
    BY <2>1
  <2>3. reg' = [reg EXCEPT !.AR1 = x, !.AR2 = y]
    BY <1>14, <2>2
  <2>4. /\ reg' \in LibraryRegs /\ reg'.AR1 = x /\ reg'.AR2 = y
        /\ reg'.DEL_START = reg.DEL_START /\ reg'.DEL_END = reg.DEL_END /\ reg'.IN_END = reg.IN_END
        /\ reg'.RET_VAL_START = reg.RET_VAL_START
    BY <2>3, ZenonT(60) DEF LibraryRegs
  <2> QED BY <2>2, <2>4
<1>16. reg'.AR1 = Pointer(InAt + 2 + (a + 1)) /\ reg'.AR2 = Pointer(ra + 2 + (k + 1))
  BY <1>2, <1>6, <1>15 DEF Pointer, InAt
<1>17. \A j \in a + 2 .. n : bytes'[InAt + 1 + j] = 100 + j
  <2> TAKE j \in a + 2 .. n
  <2>1. InAt + 1 + j \in StringBytes /\ InAt + 1 + j # ra + 2 + k
    BY <1>2, <1>3, <1>4 DEF InAt, RetAt, StringBytes
  <2>2. j \in a + 1 .. n
    BY <1>2
  <2>3. bytes[InAt + 1 + j] = 100 + j
    BY <1>1, <2>2 DEF AtCharacter, Unread
  <2> QED BY <1>13, <2>1, <2>3
<1>18. \A j \in 1 .. k + 1 : bytes'[ra + 1 + j] = 100 + (IF j <= F THEN j ELSE j + G)
  <2> TAKE j \in 1 .. k + 1
  <2>1. CASE j = k + 1
    <3>1. ra + 1 + j = ra + 2 + k /\ 100 + (IF j <= F THEN j ELSE j + G) = 100 + (a + 1)
      BY <1>2, <1>3, <1>4, <2>1
    <3> QED BY <1>13, <3>1
  <2>2. CASE j # k + 1
    <3>1. j \in 1..k /\ ra + 1 + j # ra + 2 + k /\ ra + 1 + j \in StringBytes
      BY <1>2, <1>3, <1>4, <2>2 DEF InAt, RetAt, StringBytes
    <3>2. bytes[ra + 1 + j] = 100 + (IF j <= F THEN j ELSE j + G)
      BY <1>1, <3>1 DEF AtCharacter, Taken
    <3> QED BY <1>13, <3>1, <3>2
  <2> QED BY <2>1, <2>2
<1>19. AtCharacter(a + 1, k + 1)'
  <2>1. Unread(a + 1)'
    <3>1. (a + 1) + 1 = a + 2
      OBVIOUS
    <3> QED BY <1>5, <1>17, <3>1 DEF Unread
  <2>2. Taken(k + 1)'
    BY <1>5, <1>18 DEF Taken
  <2> QED BY <1>5, <1>16, <2>1, <2>2 DEF AtCharacter
<1>20. bytes'[ra] = room
  <2>1. ra \in StringBytes /\ ra # ra + 2 + k
    BY <1>2 DEF InAt, RetAt, StringBytes
  <2>2. bytes[ra] = room
    BY <1>1 DEF DeleteRuns
  <2> QED BY <1>13, <2>1, <2>2
<1>21. NothingBeside'
  <2>1. \A i \in StringBytes \ (InAt .. InAt + 1 + MaxIn) : i \notin ra .. ra + 1 + room => bytes'[i] = Unused
    <3> TAKE i \in StringBytes \ (InAt .. InAt + 1 + MaxIn)
    <3> HAVE i \notin ra .. ra + 1 + room
    <3>1. ra + 2 + k \in ra .. ra + 1 + room
      BY <1>2, <1>3, <1>4
    <3>2. bytes[i] = Unused
      BY <1>1 DEF DeleteRuns, NothingBeside
    <3> QED BY <1>13, <3>1, <3>2
  <2> QED BY <1>5, <2>1 DEF NothingBeside
<1>22. DeleteRuns' /\ Positive'
  <2>1. DeleteCall' /\ Positive'
    BY DEF DeleteRuns, DeleteCall, Positive
  <2>2. reg'.RET_VAL_START = Pointer(ra)
    BY <1>1, <1>15 DEF DeleteRuns
  <2> QED BY <1>5, <1>20, <1>21, <2>1, <2>2 DEF DeleteRuns
<1>23. Limits => Limits'
  BY <1>1, <1>5, <1>15 DEF Limits
<1> QED BY <1>13, <1>15, <1>19, <1>22, <1>23

\* The amounts of a running call with positive parameters.
LEMMA CallAmounts ==
  ASSUME DeleteRuns, Positive
  PROVE  /\ CallFront \in Nat /\ CallGone \in Nat /\ CallCount \in Nat
         /\ CallFront <= CallCount /\ CallCount <= call.retMax /\ CallGone + CallCount <= call.len
<1>1. call.L \in Nat /\ call.P \in Nat /\ call.len \in Nat /\ call.retMax \in Nat
  BY DEF Positive, DeleteRuns, DeleteCall
<1> QED BY <1>1, Amounts DEF CallFront, CallGone, CallCount

LEMMA CopyBeforeStep ==
  ASSUME LibraryInv, CopyBefore PROVE LibraryInv'
<1>1. /\ bytes \in [StringBytes -> Int] /\ reg \in LibraryRegs /\ DeleteRuns /\ Positive /\ Limits
      /\ at = "CPY1" /\ call' = call
  BY DEF LibraryInv, CopyBefore
<1>2. PICK k \in 0 .. CallFront : AtCharacter(k, k)
  BY <1>1 DEF LibraryInv
<1>3. /\ CallFront \in Nat /\ CallGone \in Nat /\ CallCount \in Nat
      /\ CallFront <= CallCount /\ CallCount <= call.retMax /\ CallGone + CallCount <= call.len
  BY <1>1, CallAmounts
<1>4. call.len \in Nat /\ call.retAt \in Int
  BY <1>1, IecLibraryAssumption DEF DeleteRuns, DeleteCall, InAt, RetAt
<1>5. (reg.AR1 >= reg.DEL_START) <=> k = CallFront
  BY <1>1, <1>2, <1>3 DEF AtCharacter, Limits, Pointer, InAt
<1>6. CASE k = CallFront
  <2>1. reg' = [reg EXCEPT !.AR1 = reg.DEL_END] /\ at' = "CPY2" /\ bytes' = bytes
    BY <1>5, <1>6 DEF CopyBefore
  <2>2. /\ reg' \in LibraryRegs /\ reg'.AR1 = reg.DEL_END /\ reg'.AR2 = reg.AR2
        /\ reg'.DEL_START = reg.DEL_START /\ reg'.DEL_END = reg.DEL_END /\ reg'.IN_END = reg.IN_END
        /\ reg'.RET_VAL_START = reg.RET_VAL_START
    BY <1>1, <2>1 DEF LibraryRegs
  <2>3. CallFront' = CallFront /\ CallGone' = CallGone /\ CallCount' = CallCount /\ Positive'
    BY <1>1 DEF CallFront, CallGone, CallCount, Positive
  <2>4. DeleteRuns'
    BY <1>1, <2>1, <2>2 DEF DeleteRuns, DeleteCall, NothingBeside
  <2>5. Limits'
    BY <1>1, <2>2, <2>3 DEF Limits
  <2>6. Unread(CallGone + CallFront)'
    BY <1>1, <1>2, <1>3, <1>4, <1>6, <2>1, <2>3 DEF AtCharacter, Unread
  <2>7. Taken(CallFront)'
    BY <1>1, <1>2, <1>6, <2>1, <2>3 DEF AtCharacter, Taken
  <2>8. reg'.AR1 = Pointer(InAt + 2 + (CallGone + CallFront))
    <3>1. InAt + 2 + CallFront + CallGone = InAt + 2 + (CallGone + CallFront)
      BY <1>3 DEF InAt
    <3> QED BY <1>1, <2>2, <3>1 DEF Limits
  <2>9. reg'.AR2 = Pointer(call.retAt + 2 + CallFront)
    BY <1>2, <1>6, <2>2 DEF AtCharacter
  <2>10. AtCharacter(CallGone + CallFront, CallFront)'
    BY <1>1, <2>3, <2>6, <2>7, <2>8, <2>9 DEF AtCharacter
  <2>11. CallFront' \in CallFront' .. CallCount'
    BY <1>3, <2>3
  <2>12. LibraryDoes'
    BY <2>1 DEF LibraryDoes
  <2>13. \E j \in CallFront' .. CallCount' : AtCharacter(CallGone + j, j)'
    BY <2>10, <2>11, <2>3
  <2>14. bytes' \in [StringBytes -> Int]
    BY <1>1, <2>1
  <2> QED BY <2>1, <2>2, <2>3, <2>4, <2>5, <2>12, <2>13, <2>14 DEF LibraryInv
<1>7. CASE k # CallFront
  <2>1. CopyCharacter /\ at' = at
    BY <1>5, <1>7 DEF CopyBefore, CopyCharacter
  <2>2. /\ 0 <= k /\ k <= k /\ k < call.len /\ k < CallCount /\ k + 1 <= CallFront /\ k \in Int
        /\ k + 1 = IF k + 1 <= CallFront THEN k + 1 ELSE k + 1 + CallGone
    BY <1>3, <1>4, <1>7
  <2>3. /\ bytes' \in [StringBytes -> Int] /\ reg' \in LibraryRegs
        /\ DeleteRuns' /\ Positive' /\ AtCharacter(k + 1, k + 1)' /\ (Limits => Limits')
    BY <1>1, <1>2, <2>1, <2>2, CharacterCopied
  <2>4. k + 1 \in 0 .. CallFront'
    <3>1. CallFront' = CallFront
      BY <1>1 DEF CallFront
    <3> QED BY <1>3, <2>2, <3>1
  <2>5. \E j \in 0 .. CallFront' : AtCharacter(j, j)'
    BY <2>3, <2>4
  <2>6. at' = "CPY1"
    BY <1>1, <2>1
  <2>7. LibraryDoes'
    BY <2>6 DEF LibraryDoes
  <2> QED BY <1>1, <2>3, <2>5, <2>6, <2>7 DEF LibraryInv
<1> QED BY <1>6, <1>7

LEMMA CopyBehindStep ==
  ASSUME LibraryInv, CopyBehind PROVE LibraryInv'
<1>1. /\ bytes \in [StringBytes -> Int] /\ reg \in LibraryRegs /\ DeleteRuns /\ Positive /\ Limits
      /\ at = "CPY2" /\ call' = call
  BY DEF LibraryInv, CopyBehind
<1>2. PICK k \in CallFront .. CallCount : AtCharacter(CallGone + k, k)
  BY <1>1 DEF LibraryInv
<1>3. /\ CallFront \in Nat /\ CallGone \in Nat /\ CallCount \in Nat
      /\ CallFront <= CallCount /\ CallCount <= call.retMax /\ CallGone + CallCount <= call.len
  BY <1>1, CallAmounts
<1>4. call.len \in Nat /\ call.retAt \in Int
  BY <1>1, IecLibraryAssumption DEF DeleteRuns, DeleteCall, InAt, RetAt
<1>5. (reg.AR1 >= reg.IN_END) <=> k = CallCount
  BY <1>1, <1>2, <1>3 DEF AtCharacter, Limits, Pointer, InAt
<1>6. CASE k = CallCount
  <2>1. reg' = reg /\ at' = "WLEN" /\ bytes' = bytes
    BY <1>5, <1>6 DEF CopyBehind
  <2>2. CallFront' = CallFront /\ CallGone' = CallGone /\ CallCount' = CallCount /\ Positive'
    BY <1>1 DEF CallFront, CallGone, CallCount, Positive
  <2>3. DeleteRuns'
    BY <1>1, <2>1 DEF DeleteRuns, DeleteCall, NothingBeside
  <2>4. reg'.AR2 = Pointer(call'.retAt + 2 + CallCount')
    BY <1>1, <1>2, <1>6, <2>1, <2>2 DEF AtCharacter
  <2>5. Taken(CallCount)'
    BY <1>1, <1>2, <1>6, <2>1, <2>2 DEF AtCharacter, Taken
  <2>6. LibraryDoes'
    BY <2>1 DEF LibraryDoes
  <2>7. bytes' \in [StringBytes -> Int] /\ reg' \in LibraryRegs
    BY <1>1, <2>1
  <2> QED BY <2>1, <2>2, <2>3, <2>4, <2>5, <2>6, <2>7 DEF LibraryInv
<1>7. CASE k # CallCount
  <2>1. CopyCharacter /\ at' = at
    BY <1>5, <1>7 DEF CopyBehind, CopyCharacter
  <2>a. PICK a : a = CallGone + k
    OBVIOUS
  <2>2. /\ 0 <= k /\ k <= a /\ a < call.len /\ k < CallCount /\ k \in Int /\ a \in Int
        /\ a + 1 = IF k + 1 <= CallFront THEN k + 1 ELSE k + 1 + CallGone
    BY <1>3, <1>4, <1>7, <2>a
  <2>3. AtCharacter(a, k)
    BY <1>2, <2>a
  <2>5. /\ bytes' \in [StringBytes -> Int] /\ reg' \in LibraryRegs
        /\ DeleteRuns' /\ Positive' /\ AtCharacter(a + 1, k + 1)' /\ (Limits => Limits')
    BY <1>1, <2>1, <2>2, <2>3, CharacterCopied
  <2>6. CallFront' = CallFront /\ CallGone' = CallGone /\ CallCount' = CallCount
    BY <1>1 DEF CallFront, CallGone, CallCount
  <2>7. k + 1 \in CallFront' .. CallCount'
    BY <1>3, <2>2, <2>6
  <2>4. a + 1 = CallGone' + (k + 1)
    BY <1>3, <2>a, <2>2, <2>6
  <2>8. \E j \in CallFront' .. CallCount' : AtCharacter(CallGone + j, j)'
    BY <2>4, <2>5, <2>7
  <2>9. at' = "CPY2"
    BY <1>1, <2>1
  <2>10. LibraryDoes'
    BY <2>9 DEF LibraryDoes
  <2> QED BY <1>1, <2>5, <2>8, <2>9, <2>10 DEF LibraryInv
<1> QED BY <1>6, <1>7

\* What the labels of DELETE leave in the registers.
LEMMA CutLimits ==
  ASSUME reg \in LibraryRegs, NEW x \in Int, NEW y \in Int, NEW m \in Int, MaxCopyLen = m,
         CutToRoom([start |-> x, end |-> y])
  PROVE  LET limit == reg.AR1 + Pointer(m + 2)
             start == IF limit >= x THEN x ELSE limit
             end   == IF limit >= x THEN y ELSE limit
         IN  /\ reg' \in LibraryRegs /\ reg'.DEL_START = start /\ reg'.DEL_END = end
             /\ reg'.IN_END = Smaller(reg.IN_END, limit + (end - start))
             /\ reg'.AR1 = reg.AR1 + Pointer(2) /\ reg'.AR2 = reg.AR2 + Pointer(2)
             /\ reg'.RET_VAL_START = reg.RET_VAL_START
<1>1. PICK limit : limit = reg.AR1 + Pointer(m + 2)
  OBVIOUS
<1>2. PICK start : start = IF limit >= x THEN x ELSE limit
  OBVIOUS
<1>3. PICK end : end = IF limit >= x THEN y ELSE limit
  OBVIOUS
<1>4. PICK top : top = Smaller(reg.IN_END, limit + (end - start))
  OBVIOUS
<1>5. PICK a, b : a = reg.AR1 + Pointer(2) /\ b = reg.AR2 + Pointer(2)
  OBVIOUS
<1>6. /\ reg.AR1 \in Int /\ reg.AR2 \in Int /\ reg.IN_END \in Int
      /\ Pointer(2) \in Int /\ Pointer(m + 2) \in Int
  BY DEF LibraryRegs, Pointer
<1>7. limit \in Int /\ start \in Int /\ end \in Int /\ a \in Int /\ b \in Int
  BY <1>1, <1>2, <1>3, <1>5, <1>6
<1>8. top \in Int
  BY <1>4, <1>6, <1>7 DEF Smaller
<1>9. PICK from : from = IF limit >= x THEN [start |-> x, end |-> y] ELSE [start |-> limit, end |-> limit]
  OBVIOUS
<1>10. from.start = start /\ from.end = end
  BY <1>2, <1>3, <1>9
<1>11. reg' = [reg EXCEPT !.MAX_COPY_LEN = m, !.DEL_START = start, !.DEL_END = end,
                          !.IN_END = top, !.AR1 = a, !.AR2 = b]
  <2>1. reg' = [reg EXCEPT !.MAX_COPY_LEN = MaxCopyLen, !.DEL_START = from.start, !.DEL_END = from.end,
                           !.IN_END = Smaller(reg.IN_END, limit + (from.end - from.start)),
                           !.AR1 = @ + Pointer(2), !.AR2 = @ + Pointer(2)]
    BY <1>1, <1>9 DEF CutToRoom
  <2>2. reg' = [reg EXCEPT !.MAX_COPY_LEN = m, !.DEL_START = start, !.DEL_END = end,
                           !.IN_END = top, !.AR1 = @ + Pointer(2), !.AR2 = @ + Pointer(2)]
    BY <1>4, <1>10, <2>1
  <2> QED BY <1>5, <2>2
<1>12. /\ reg' \in LibraryRegs /\ reg'.DEL_START = start /\ reg'.DEL_END = end /\ reg'.IN_END = top
       /\ reg'.AR1 = a /\ reg'.AR2 = b /\ reg'.RET_VAL_START = reg.RET_VAL_START
  BY <1>7, <1>8, <1>11 DEF LibraryRegs
<1> QED BY <1>1, <1>2, <1>3, <1>4, <1>5, <1>12

LEMMA PrepareStep ==
  ASSUME LibraryInv, Prepare PROVE LibraryInv'
<1>1. /\ bytes \in [StringBytes -> Int] /\ reg \in LibraryRegs /\ DeleteRuns /\ DeleteStarted
      /\ bytes' = bytes /\ call' = call /\ at' = "CPY1" /\ Positive
  BY DEF LibraryInv, Prepare, Positive
<1>2. PICK ra, n, room, L, P : /\ ra = call.retAt /\ n = call.len /\ room = call.retMax
                              /\ L = call.L /\ P = call.P
  OBVIOUS
<1>3. ra \in {InAt, RetAt} /\ n \in Nat /\ room \in Nat /\ L \in Nat /\ P \in Nat /\ ra \in Int
  BY <1>1, <1>2, IecLibraryAssumption DEF DeleteRuns, DeleteCall, Positive, InAt, RetAt
<1>4. PICK m \in Nat : m = Smaller(room, n)
  BY <1>3 DEF Smaller
<1>5. MaxCopyLen = m
  <2>1. reg.AR2 \div 8 = ra /\ reg.AR1 \div 8 = InAt
    BY <1>1, <1>2, <1>3, PointedByte DEF DeleteStarted, InAt
  <2>2. MaxLen(reg.AR2) = room
    BY <1>1, <1>2, <2>1 DEF MaxLen, DeleteRuns
  <2>3. ActLen(reg.AR1) = n
    BY <1>1, <1>2, <2>1 DEF ActLen, DeleteStarted
  <2> QED BY <1>4, <2>2, <2>3 DEF MaxCopyLen
<1>6. reg.AR1 = Pointer(InAt) /\ reg.AR2 = Pointer(ra) /\ reg.IN_END = Pointer(InAt + 2 + n)
  BY <1>1, <1>2 DEF DeleteStarted
<1>7. NothingDeleted <=> CopiesAll(n, L, P, room)
  BY <1>2, <1>4, <1>5 DEF NothingDeleted, CopiesAll
<1> DEFINE front == FrontOf(n, L, P, room)
           gone  == Gone(n, L, P, room)
           total == Count(n, L, P, room)
<1>8. /\ reg' \in LibraryRegs /\ reg'.RET_VAL_START = reg.RET_VAL_START
      /\ reg'.AR1 = reg.AR1 + Pointer(2) /\ reg'.AR2 = reg.AR2 + Pointer(2)
      /\ reg'.DEL_START = Pointer(InAt + 2 + front) /\ reg'.DEL_END = Pointer(InAt + 2 + front + gone)
      /\ reg'.IN_END = Pointer(InAt + 2 + gone + total)
  <2>1. CASE CopiesAll(n, L, P, room)
    <3>1. PICK x \in Int : x = Pointer(InAt + 2 + n)
      BY <1>3 DEF Pointer, InAt
    <3>2. CutToRoom([start |-> x, end |-> x])
      BY <1>6, <1>7, <2>1, <3>1 DEF Prepare
    <3>3. LET limit == reg.AR1 + Pointer(m + 2)
              start == IF limit >= x THEN x ELSE limit
              end   == IF limit >= x THEN x ELSE limit
          IN  /\ reg' \in LibraryRegs /\ reg'.DEL_START = start /\ reg'.DEL_END = end
              /\ reg'.IN_END = Smaller(reg.IN_END, limit + (end - start))
              /\ reg'.AR1 = reg.AR1 + Pointer(2) /\ reg'.AR2 = reg.AR2 + Pointer(2)
              /\ reg'.RET_VAL_START = reg.RET_VAL_START
      BY <1>1, <1>5, <3>2, CutLimits
    <3>4. front = m /\ gone = 0 /\ total = m
      BY <1>3, <1>4, <2>1 DEF FrontOf, Gone, Count, Smaller
    <3>5. LET limit == reg.AR1 + Pointer(m + 2)
              start == IF limit >= x THEN x ELSE limit
              end   == IF limit >= x THEN x ELSE limit
          IN  /\ start = Pointer(InAt + 2 + m) /\ end = Pointer(InAt + 2 + m + 0)
              /\ Smaller(reg.IN_END, limit + (end - start)) = Pointer(InAt + 2 + 0 + m)
      BY <1>3, <1>4, <1>6, <3>1 DEF Pointer, Smaller, InAt
    <3> QED BY <3>3, <3>4, <3>5
  <2>2. CASE ~CopiesAll(n, L, P, room)
    <3>1. PICK x \in Int : x = reg.AR1 + Pointer(P + 1)
      BY <1>3, <1>6 DEF Pointer, InAt
    <3>2. PICK y \in Int : y = Smaller(x + Pointer(L), reg.IN_END)
      BY <1>3, <1>6, <3>1 DEF Pointer, InAt, Smaller
    <3>3. CutToRoom([start |-> x, end |-> y])
      <4>1. CutToRoom(Deleted(reg.AR1 + Pointer(call.P + 1), reg.IN_END))
        BY <1>7, <2>2 DEF Prepare
      <4>2. Deleted(reg.AR1 + Pointer(call.P + 1), reg.IN_END) = [start |-> x, end |-> y]
        BY <1>2, <3>1, <3>2 DEF Deleted
      <4> QED BY <4>1, <4>2
    <3>4. LET limit == reg.AR1 + Pointer(m + 2)
              start == IF limit >= x THEN x ELSE limit
              end   == IF limit >= x THEN y ELSE limit
          IN  /\ reg' \in LibraryRegs /\ reg'.DEL_START = start /\ reg'.DEL_END = end
              /\ reg'.IN_END = Smaller(reg.IN_END, limit + (end - start))
              /\ reg'.AR1 = reg.AR1 + Pointer(2) /\ reg'.AR2 = reg.AR2 + Pointer(2)
              /\ reg'.RET_VAL_START = reg.RET_VAL_START
      BY <1>1, <1>5, <3>3, CutLimits
    <3>5. /\ front = P - 1 /\ gone = Smaller(L, n - P + 1) /\ total = Smaller(room, n - gone)
          /\ P >= 1 /\ P <= m /\ L >= 1
      BY <1>3, <1>4, <2>2 DEF FrontOf, Gone, Count, CopiesAll
    <3>6. PICK g \in Nat : g = gone
      BY <1>3, <1>4, <3>5 DEF Smaller
    <3>7. y = Pointer(InAt + 2 + (P - 1) + g) /\ x = Pointer(InAt + 2 + (P - 1))
      BY <1>3, <1>4, <1>6, <3>1, <3>2, <3>5, <3>6 DEF Pointer, Smaller, InAt
    <3>8. LET limit == reg.AR1 + Pointer(m + 2)
          IN  limit >= x /\ Smaller(reg.IN_END, limit + (y - x)) = Pointer(InAt + 2 + g + Smaller(room, n - g))
      BY <1>3, <1>4, <1>6, <3>5, <3>6, <3>7 DEF Pointer, Smaller, InAt
    <3> HIDE DEF front, gone, total
    <3> QED BY <3>4, <3>5, <3>6, <3>7, <3>8
  <2> QED BY <2>1, <2>2
<1>9. front = CallFront' /\ gone = CallGone' /\ total = CallCount'
  BY <1>1, <1>2 DEF CallFront, CallGone, CallCount
<1> HIDE DEF front, gone, total
<1>10. DeleteRuns' /\ Positive'
  BY <1>1, <1>8 DEF DeleteRuns, DeleteCall, NothingBeside, Positive
<1>11. Limits'
  BY <1>8, <1>9 DEF Limits
<1>12. AtCharacter(0, 0)'
  <2>1. reg'.AR1 = Pointer(InAt + 2 + 0) /\ reg'.AR2 = Pointer(ra + 2 + 0)
    BY <1>3, <1>6, <1>8 DEF Pointer, InAt
  <2>2. Unread(0)' /\ Taken(0)'
    BY <1>1 DEF DeleteStarted, Unread, Taken
  <2> QED BY <1>1, <1>2, <2>1, <2>2 DEF AtCharacter
<1>13. 0 \in 0 .. CallFront'
  <2>1. CallFront \in Nat /\ CallFront' = CallFront
    BY <1>1, CallAmounts DEF CallFront
  <2> QED BY <2>1
<1>14. \E k \in 0 .. CallFront' : AtCharacter(k, k)'
  BY <1>12, <1>13
<1>15. LibraryDoes'
  BY <1>1 DEF LibraryDoes
<1> QED BY <1>1, <1>8, <1>10, <1>11, <1>14, <1>15 DEF LibraryInv

LEMMA RefuseStep ==
  ASSUME LibraryInv, RefuseNegative PROVE LibraryInv'
<1> USE IecLibraryAssumption
<1>1. /\ bytes \in [StringBytes -> Int] /\ reg \in LibraryRegs /\ DeleteRuns /\ DeleteStarted
      /\ reg' = reg /\ call' = call /\ at' = "END" /\ ~Positive /\ bie' = FALSE
  BY DEF LibraryInv, RefuseNegative, Positive, DeleteRuns, DeleteCall
<1>2. PICK ra, room : ra = call.retAt /\ room = call.retMax
  OBVIOUS
<1>3. ra \in {InAt, RetAt} /\ ra \in Int /\ room \in 0..MaxIn
  BY <1>1, <1>2 DEF DeleteRuns, DeleteCall, InAt, RetAt
<1>4. reg.AR2 \div 8 = ra
  BY <1>1, <1>2, <1>3, PointedByte DEF DeleteStarted
<1>5. bytes' = [bytes EXCEPT ![ra + 1] = 0]
  BY <1>4 DEF RefuseNegative
<1>6. ra + 1 \in StringBytes /\ ra \in StringBytes /\ ra # ra + 1
  BY <1>3 DEF InAt, RetAt, StringBytes
<1>7. /\ bytes' \in [StringBytes -> Int] /\ bytes'[ra + 1] = 0 /\ bytes'[ra] = room
      /\ \A i \in StringBytes : i # ra + 1 => bytes'[i] = bytes[i]
  BY <1>1, <1>2, <1>5, <1>6 DEF DeleteRuns
<1>8. NothingBeside'
  <2>1. \A i \in StringBytes \ (InAt .. InAt + 1 + MaxIn) : i \notin ra .. ra + 1 + room => bytes'[i] = Unused
    BY <1>1, <1>2, <1>3, <1>7 DEF DeleteRuns, NothingBeside
  <2> QED BY <1>1, <1>2, <2>1 DEF NothingBeside
<1>9. DOMAIN bytes' = StringBytes
  BY <1>7
<1>10. DeleteDoes'
  <2>1. call'.L < 0 \/ call'.P < 0
    BY <1>1 DEF DeleteRuns, DeleteCall, Positive
  <2>2. bie' = (call'.L >= 0 /\ call'.P >= 0)
    BY <1>1 DEF Positive
  <2>3. Len(<<>>) = 0 /\ DOMAIN <<>> = {}
    OBVIOUS
  <2>4. bytes'[call'.retAt] = call'.retMax /\ bytes'[call'.retAt + 1] = Len(<<>>)
    BY <1>1, <1>2, <1>7, <2>3
  <2>5. \A i \in DOMAIN bytes' \ (InAt .. InAt + 1 + MaxIn) :
            i \notin call'.retAt .. call'.retAt + 1 + call'.retMax => bytes'[i] = Unused
    BY <1>8, <1>9 DEF NothingBeside
  <2> QED BY <2>1, <2>2, <2>3, <2>4, <2>5 DEF DeleteDoes
<1>11. call'.fc = "DELETE"
  BY <1>1 DEF DeleteRuns, DeleteCall
<1>12. LibraryDoes'
  BY <1>10, <1>11 DEF LibraryDoes
<1> QED BY <1>1, <1>7, <1>12 DEF LibraryInv

LEMMA WriteLengthStep ==
  ASSUME LibraryInv, WriteLength PROVE LibraryInv'
<1> USE IecLibraryAssumption
<1>1. /\ bytes \in [StringBytes -> Int] /\ reg \in LibraryRegs /\ DeleteRuns /\ Positive
      /\ reg.AR2 = Pointer(call.retAt + 2 + CallCount) /\ Taken(CallCount)
      /\ call' = call /\ at' = "END" /\ bie' = TRUE
  BY DEF LibraryInv, WriteLength
<1>2. PICK ra, n, room, L, P : /\ ra = call.retAt /\ n = call.len /\ room = call.retMax
                              /\ L = call.L /\ P = call.P
  OBVIOUS
<1>3. ra \in {InAt, RetAt} /\ ra \in Int /\ n \in Nat /\ room \in 0..MaxIn /\ L \in Nat /\ P \in Nat
  BY <1>1, <1>2 DEF DeleteRuns, DeleteCall, Positive, InAt, RetAt
<1>4. PICK F, G, C : F = CallFront /\ G = CallGone /\ C = CallCount
  OBVIOUS
<1>5. C \in Nat /\ C <= room
  BY <1>1, <1>2, <1>4, CallAmounts
<1>6. reg.RET_VAL_START = Pointer(ra) /\ reg.AR2 = Pointer(ra + 2 + C)
  BY <1>1, <1>2, <1>4 DEF DeleteRuns
<1>7. reg.RET_VAL_START \div 8 = ra
  BY <1>3, <1>6, PointedByte
<1>8. (reg.AR2 - reg.RET_VAL_START) \div 8 - 2 = C
  BY <1>3, <1>5, <1>6 DEF Pointer
<1>9. bytes' = [bytes EXCEPT ![ra + 1] = C]
  BY <1>7, <1>8 DEF WriteLength
<1>10. ra + 1 \in StringBytes /\ ra \in StringBytes /\ ra # ra + 1
  BY <1>3 DEF InAt, RetAt, StringBytes
<1>11. /\ bytes' \in [StringBytes -> Int] /\ bytes'[ra + 1] = C
       /\ \A i \in StringBytes : i # ra + 1 => bytes'[i] = bytes[i]
  BY <1>1, <1>5, <1>9, <1>10
<1>12. bytes'[ra] = room
  BY <1>1, <1>2, <1>10, <1>11 DEF DeleteRuns
<1>13. reg' \in LibraryRegs
  <2>1. reg' = [reg EXCEPT !.AR2 = reg.RET_VAL_START]
    BY DEF WriteLength
  <2> QED BY <1>1, <2>1 DEF LibraryRegs
<1>14. PICK expected : expected = Kept(n, L, P, room)
  OBVIOUS
<1>15. /\ DOMAIN expected = 1..C /\ Len(expected) = C
       /\ \A i \in 1..C : expected[i] = IF i <= F THEN i ELSE i + G
  <2>1. C = Count(n, L, P, room) /\ F = FrontOf(n, L, P, room) /\ G = Gone(n, L, P, room)
    BY <1>2, <1>4 DEF CallFront, CallGone, CallCount
  <2>2. room \in Nat
    BY <1>3
  <2>3. IsKept(Kept(n, L, P, room), FrontOf(n, L, P, room), Gone(n, L, P, room), Count(n, L, P, room))
    BY <1>3, <2>2, KeptCharacters
  <2>4. IsKept(expected, F, G, C)
    BY <1>14, <2>1, <2>3
  <2> QED BY <2>4 DEF IsKept
<1>16. \A i \in 1..C : bytes'[(ra + 2) + i - 1] = 100 + expected[i]
  <2> TAKE i \in 1..C
  <2>1. (ra + 2) + i - 1 = ra + 1 + i /\ ra + 1 + i \in StringBytes /\ ra + 1 + i # ra + 1
    BY <1>3, <1>5 DEF InAt, RetAt, StringBytes
  <2>2. bytes[ra + 1 + i] = 100 + (IF i <= F THEN i ELSE i + G)
    BY <1>1, <1>2, <1>4 DEF Taken
  <2> QED BY <1>11, <1>15, <2>1, <2>2
<1>17. \A i \in StringBytes \ (InAt .. InAt + 1 + MaxIn) : i \notin ra .. ra + 1 + room => bytes'[i] = Unused
  <2> TAKE i \in StringBytes \ (InAt .. InAt + 1 + MaxIn)
  <2> HAVE i \notin ra .. ra + 1 + room
  <2>1. i # ra + 1
    BY <1>3
  <2>2. bytes[i] = Unused
    BY <1>1, <1>2 DEF DeleteRuns, NothingBeside
  <2> QED BY <1>11, <2>1, <2>2
<1>18. DeleteDoes'
  <2>1. /\ call'.L = L /\ call'.P = P /\ call'.len = n /\ call'.retMax = room /\ call'.retAt = ra
    BY <1>1, <1>2
  <2>2. bie' = (call'.L >= 0 /\ call'.P >= 0) /\ ~(call'.L < 0 \/ call'.P < 0)
    <3>1. L >= 0 /\ P >= 0 /\ ~(L < 0 \/ P < 0)
      BY <1>3
    <3> QED BY <1>1, <2>1, <3>1
  <2>3. DOMAIN bytes' = StringBytes
    BY <1>11
  <2>4. Kept(call.len, call.L, call.P, call.retMax)' = expected
    BY <1>14, <2>1
  <2>5. bytes'[ra + 1] = Len(expected)
    BY <1>11, <1>15
  <2> QED BY <1>12, <1>15, <1>16, <1>17, <2>1, <2>2, <2>3, <2>4, <2>5 DEF DeleteDoes
<1>19. call'.fc = "DELETE"
  BY <1>1 DEF DeleteRuns, DeleteCall
<1>20. LibraryDoes'
  BY <1>18, <1>19 DEF LibraryDoes
<1> QED BY <1>1, <1>11, <1>13, <1>20 DEF LibraryInv

LEMMA CallLenStep ==
  ASSUME LibraryInv, NEW inMax \in 0..MaxIn, NEW inLen \in 0..inMax, CallLen(inMax, inLen)
  PROVE  LibraryInv'
<1> USE IecLibraryAssumption
<1> DEFINE Byte(i) == IF i \in InAt .. InAt + 1 + inMax THEN StringAt(InAt, inMax, inLen, i) ELSE Unused
<1>1. inMax \in Nat /\ inLen \in Nat /\ inMax <= MaxIn
  OBVIOUS
<1>2. bytes' = [i \in StringBytes |-> Byte(i)]
  BY DEF CallLen, LibraryInv
<1>3. \A i \in StringBytes : Byte(i) \in Int
  BY <1>1 DEF StringAt, Unused, StringBytes, InAt, RetAt
<1>4. Byte(InAt + 1) = inLen /\ InAt + 1 \in StringBytes
  BY <1>1 DEF StringAt, StringBytes, InAt, RetAt
<1> HIDE DEF Byte
<1>5. bytes' \in [StringBytes -> Int] /\ bytes'[InAt + 1] = inLen
  BY <1>2, <1>3, <1>4
<1>6. ret' = inLen /\ reg' = reg /\ at' = "END" /\ call' = [fc |-> "LEN", len |-> inLen]
  BY <1>5 DEF CallLen
<1>7. call'.fc = "LEN" /\ call'.len = inLen
  BY <1>6
<1>8. LibraryDoes'
  BY <1>6, <1>7 DEF LibraryDoes
<1> QED BY <1>5, <1>6, <1>8 DEF LibraryInv

\* Two bytes of decimal digits, and the order of the years they stand for.
YearOf(n) == (IF n >= 144 THEN 1900 ELSE 2000) + 10 * (n \div 16) + (n % 16)
InYears(a, b) ==
    /\ (Century(a) = Century(b)) <=> (YearOf(a) = YearOf(b))
    /\ (Century(a) > Century(b)) <=> (YearOf(a) > YearOf(b))
    /\ YearOf(a) = YearOf(b) => a = b
    /\ YearOf(a) \in Int /\ YearOf(b) \in Int
LEMMA YearsInOrder ==
  ASSUME NEW a \in 0..255, NEW b \in 0..255, IsBcd(a), IsBcd(b)
  PROVE  InYears(a, b)
<1>1. PICK t \in 0..9, u \in 0..9 : a = 16 * t + u /\ a \div 16 = t /\ a % 16 = u
  BY DEF IsBcd
<1>2. PICK v \in 0..9, w \in 0..9 : b = 16 * v + w /\ b \div 16 = v /\ b % 16 = w
  BY DEF IsBcd
<1> QED BY <1>1, <1>2 DEF Century, InYears, YearOf

\* Three bytes as one number are in order as the bytes are.
LEMMA ThreeInOrder ==
  ASSUME NEW a \in 0..255, NEW b \in 0..255, NEW c \in 0..255,
         NEW x \in 0..255, NEW y \in 0..255, NEW z \in 0..255
  PROVE  LET m == a * 65536 + b * 256 + c
             n == x * 65536 + y * 256 + z
         IN  /\ m = n => a = x /\ b = y /\ c = z
             /\ m > n <=> a > x \/ (a = x /\ b > y) \/ (a = x /\ b = y /\ c > z)
OBVIOUS

\* The first place where two dates differ decides.
LEMMA EarlierWhere ==
  ASSUME NEW d, NEW e, NEW i \in 1..8, \A j \in 1 .. i - 1 : Field(d, j) = Field(e, j),
         \A j \in 1..8 : Field(d, j) \in Int /\ Field(e, j) \in Int
  PROVE  /\ Field(d, i) < Field(e, i) => Earlier(d, e)
         /\ Field(d, i) > Field(e, i) => ~Earlier(d, e)
<1>1. ASSUME Field(d, i) < Field(e, i) PROVE Earlier(d, e)
  BY <1>1 DEF Earlier
<1>2. ASSUME Field(d, i) > Field(e, i), Earlier(d, e) PROVE FALSE
  <2>1. PICK k \in 1..8 : Field(d, k) < Field(e, k) /\ \A j \in 1 .. k - 1 : Field(d, j) = Field(e, j)
    BY <1>2 DEF Earlier
  <2> DEFINE x(j) == Field(d, j)
             y(j) == Field(e, j)
  <2>2. /\ \A j \in 1..8 : x(j) \in Int /\ y(j) \in Int
        /\ \A j \in 1 .. k - 1 : x(j) = y(j)
        /\ \A j \in 1 .. i - 1 : x(j) = y(j)
        /\ x(k) < y(k) /\ x(i) > y(i)
    BY <1>2, <2>1
  <2> HIDE DEF x, y
  <2>3. CASE k < i
    <3>1. k \in 1 .. i - 1
      BY <2>3
    <3> QED BY <2>2, <3>1
  <2>4. CASE i < k
    <3>1. i \in 1 .. k - 1
      BY <2>4
    <3> QED BY <2>2, <3>1
  <2>5. CASE i = k
    BY <2>2, <2>5
  <2> QED BY <2>3, <2>4, <2>5
<1> QED BY <1>1, <1>2

\* The comparison of dates is their order.
LEMMA GreaterIsNotEarlier ==
  ASSUME NEW d \in Dates, NEW e \in Dates, IsBcd(d[1]), IsBcd(e[1])
  PROVE  GreaterEqual(d, e) <=> ~Earlier(d, e)
<1>1. d \in [1..8 -> 0..255] /\ e \in [1..8 -> 0..255]
  BY IecLibraryAssumption
<1>2. \A i \in 1..8 : d[i] \in 0..255 /\ e[i] \in 0..255
  BY <1>1
<1>3. (\A i \in 1..7 : d[i] = e[i]) /\ d[8] \div 16 = e[8] \div 16 => d[8] = e[8]
  BY IecLibraryAssumption
<1> DEFINE yd == Year(d)
           ye == Year(e)
<1>4. /\ (Century(d[1]) = Century(e[1])) <=> (yd = ye)
      /\ (Century(d[1]) > Century(e[1])) <=> (yd > ye)
      /\ yd = ye => d[1] = e[1]
      /\ yd \in Int /\ ye \in Int
  <2>1. d[1] \in 0..255 /\ e[1] \in 0..255
    BY <1>2, SMTT(60)
  <2>2. InYears(d[1], e[1])
    BY <2>1, YearsInOrder, ZenonT(60)
  <2> QED BY <2>2 DEF Year, YearOf, InYears
<1>5. /\ Field(d, 1) = yd /\ Field(e, 1) = ye
      /\ \A i \in 2..7 : Field(d, i) = d[i] /\ Field(e, i) = e[i]
      /\ Field(d, 8) = d[8] \div 16 /\ Field(e, 8) = e[8] \div 16
  BY DEF Field
<1> HIDE DEF yd, ye
<1>6. \A i \in 1..8 : Field(d, i) \in Int /\ Field(e, i) \in Int
  <2> TAKE i \in 1..8
  <2>1. CASE i = 1
    BY <1>4, <1>5, <2>1
  <2>2. CASE i = 8
    BY <1>2, <1>5, <2>2, SMTT(60)
  <2>3. CASE i \in 2..7
    BY <1>2, <1>5, <2>3, SMTT(60)
  <2> QED BY <2>1, <2>2, <2>3
<1>7. CASE yd # ye
  <2>1. \A j \in 1 .. 1 - 1 : Field(d, j) = Field(e, j)
    OBVIOUS
  <2>2. (yd < ye => Earlier(d, e)) /\ (yd > ye => ~Earlier(d, e))
    BY <1>5, <1>6, <2>1, EarlierWhere
  <2>3. GreaterEqual(d, e) <=> yd > ye
    BY <1>4, <1>7 DEF GreaterEqual
  <2> QED BY <1>4, <1>7, <2>2, <2>3
<1>8. CASE yd = ye
  <2>1. d[1] = e[1] /\ Field(d, 1) = Field(e, 1) /\ Century(d[1]) = Century(e[1])
    BY <1>4, <1>5, <1>8
  <2>2. ASSUME NEW i \in 2..7, \A j \in 1 .. i - 1 : d[j] = e[j], d[i] # e[i]
        PROVE  (d[i] < e[i] => Earlier(d, e)) /\ (d[i] > e[i] => ~Earlier(d, e))
    <3>1. \A j \in 1 .. i - 1 : Field(d, j) = Field(e, j)
      <4> TAKE j \in 1 .. i - 1
      <4>1. CASE j = 1
        BY <2>1, <4>1
      <4>2. CASE j \in 2..7
        BY <1>5, <2>2, <4>2
      <4> QED BY <4>1, <4>2
    <3>2. i \in 1..8 /\ Field(d, i) = d[i] /\ Field(e, i) = e[i]
      BY <1>5
    <3> QED BY <1>6, <3>1, <3>2, EarlierWhere
  <2>3. PICK a1, a2, a3, b1, b2, b3 : /\ a1 = d[2] /\ a2 = d[3] /\ a3 = d[4]
                                      /\ b1 = e[2] /\ b2 = e[3] /\ b3 = e[4]
    OBVIOUS
  <2>4. /\ a1 \in 0..255 /\ a2 \in 0..255 /\ a3 \in 0..255
        /\ b1 \in 0..255 /\ b2 \in 0..255 /\ b3 \in 0..255
    BY <1>2, <2>3
  <2>5. /\ Three(d, 2) = a1 * 65536 + a2 * 256 + a3 /\ Three(e, 2) = b1 * 65536 + b2 * 256 + b3
    BY <2>3 DEF Three
  <2>6. /\ Three(d, 2) = Three(e, 2) => a1 = b1 /\ a2 = b2 /\ a3 = b3
        /\ Three(d, 2) > Three(e, 2) <=> a1 > b1 \/ (a1 = b1 /\ a2 > b2) \/ (a1 = b1 /\ a2 = b2 /\ a3 > b3)
    BY <2>4, <2>5
  <2>7. CASE Three(d, 2) # Three(e, 2)
    <3>1. GreaterEqual(d, e) <=> Three(d, 2) > Three(e, 2)
      BY <2>1, <2>7 DEF GreaterEqual
    <3>2. ~(a1 = b1 /\ a2 = b2 /\ a3 = b3)
      BY <2>5, <2>7
    <3>3. CASE a1 # b1
      <4>1. \A j \in 1 .. 2 - 1 : d[j] = e[j]
        BY <2>1
      <4>2. (a1 < b1 => Earlier(d, e)) /\ (a1 > b1 => ~Earlier(d, e))
        BY <2>2, <2>3, <3>3, <4>1
      <4> QED BY <2>4, <2>6, <3>1, <3>3, <4>2
    <3>4. CASE a1 = b1 /\ a2 # b2
      <4>1. \A j \in 1 .. 3 - 1 : d[j] = e[j]
        <5>1. d[1] = e[1] /\ d[2] = e[2]
          BY <2>1, <2>3, <3>4
        <5>2. \A j \in 1 .. 3 - 1 : j = 1 \/ j = 2
          OBVIOUS
        <5> QED BY <5>1, <5>2
      <4>2. (a2 < b2 => Earlier(d, e)) /\ (a2 > b2 => ~Earlier(d, e))
        BY <2>2, <2>3, <3>4, <4>1
      <4> QED BY <2>4, <2>6, <3>1, <3>4, <4>2
    <3>5. CASE a1 = b1 /\ a2 = b2 /\ a3 # b3
      <4>1. \A j \in 1 .. 4 - 1 : d[j] = e[j]
        <5>1. d[1] = e[1] /\ d[2] = e[2] /\ d[3] = e[3]
          BY <2>1, <2>3, <3>5
        <5>2. \A j \in 1 .. 4 - 1 : j = 1 \/ j = 2 \/ j = 3
          OBVIOUS
        <5> QED BY <5>1, <5>2
      <4>2. (a3 < b3 => Earlier(d, e)) /\ (a3 > b3 => ~Earlier(d, e))
        BY <2>2, <2>3, <3>5, <4>1
      <4> QED BY <2>4, <2>6, <3>1, <3>5, <4>2
    <3> QED BY <3>2, <3>3, <3>4, <3>5
  <2>8. CASE Three(d, 2) = Three(e, 2)
    <3>1. \A j \in 1..4 : d[j] = e[j]
      BY <2>1, <2>3, <2>6, <2>8
    <3>2. PICK x1, x2, x3, z1, z2, z3 : /\ x1 = d[5] /\ x2 = d[6] /\ x3 = d[7]
                                        /\ z1 = e[5] /\ z2 = e[6] /\ z3 = e[7]
      OBVIOUS
    <3>3. /\ x1 \in 0..255 /\ x2 \in 0..255 /\ x3 \in 0..255
          /\ z1 \in 0..255 /\ z2 \in 0..255 /\ z3 \in 0..255
      BY <1>2, <3>2
    <3>4. /\ Three(d, 5) = x1 * 65536 + x2 * 256 + x3 /\ Three(e, 5) = z1 * 65536 + z2 * 256 + z3
      BY <3>2 DEF Three
    <3>5. /\ Three(d, 5) = Three(e, 5) => x1 = z1 /\ x2 = z2 /\ x3 = z3
          /\ Three(d, 5) > Three(e, 5) <=> x1 > z1 \/ (x1 = z1 /\ x2 > z2) \/ (x1 = z1 /\ x2 = z2 /\ x3 > z3)
      BY <3>3, <3>4
    <3>6. CASE Three(d, 5) # Three(e, 5)
      <4>1. GreaterEqual(d, e) <=> Three(d, 5) > Three(e, 5)
        BY <2>1, <2>8, <3>6 DEF GreaterEqual
      <4>2. ~(x1 = z1 /\ x2 = z2 /\ x3 = z3)
        BY <3>4, <3>6
      <4>3. CASE x1 # z1
        <5>1. \A j \in 1 .. 5 - 1 : d[j] = e[j]
          BY <3>1
        <5>2. (x1 < z1 => Earlier(d, e)) /\ (x1 > z1 => ~Earlier(d, e))
          BY <2>2, <3>2, <4>3, <5>1
        <5> QED BY <3>3, <3>5, <4>1, <4>3, <5>2
      <4>4. CASE x1 = z1 /\ x2 # z2
        <5>1. \A j \in 1 .. 6 - 1 : d[j] = e[j]
          <6>1. d[5] = e[5]
            BY <3>2, <4>4
          <6>2. \A j \in 1 .. 6 - 1 : j \in 1..4 \/ j = 5
            OBVIOUS
          <6> QED BY <3>1, <6>1, <6>2
        <5>2. (x2 < z2 => Earlier(d, e)) /\ (x2 > z2 => ~Earlier(d, e))
          BY <2>2, <3>2, <4>4, <5>1
        <5> QED BY <3>3, <3>5, <4>1, <4>4, <5>2
      <4>5. CASE x1 = z1 /\ x2 = z2 /\ x3 # z3
        <5>1. \A j \in 1 .. 7 - 1 : d[j] = e[j]
          <6>1. d[5] = e[5] /\ d[6] = e[6]
            BY <3>2, <4>5
          <6>2. \A j \in 1 .. 7 - 1 : j \in 1..4 \/ j = 5 \/ j = 6
            OBVIOUS
          <6> QED BY <3>1, <6>1, <6>2
        <5>2. (x3 < z3 => Earlier(d, e)) /\ (x3 > z3 => ~Earlier(d, e))
          BY <2>2, <3>2, <4>5, <5>1
        <5> QED BY <3>3, <3>5, <4>1, <4>5, <5>2
      <4> QED BY <4>2, <4>3, <4>4, <4>5
    <3>7. CASE Three(d, 5) = Three(e, 5)
      <4>1. \A j \in 1..7 : d[j] = e[j]
        BY <3>1, <3>2, <3>5, <3>7
      <4>2. GreaterEqual(d, e) <=> d[8] >= e[8]
        BY <2>1, <2>8, <3>7 DEF GreaterEqual
      <4>3. \A j \in 1 .. 8 - 1 : Field(d, j) = Field(e, j)
        <5> TAKE j \in 1 .. 8 - 1
        <5>1. CASE j = 1
          BY <2>1, <5>1
        <5>2. CASE j \in 2..7
          BY <1>5, <4>1, <5>2
        <5> QED BY <5>1, <5>2
      <4>4. PICK p, q : p = d[8] /\ q = e[8]
        OBVIOUS
      <4>5. p \in 0..255 /\ q \in 0..255
        BY <1>2, <4>4
      <4>6. (p \div 16 < q \div 16 => Earlier(d, e)) /\ (p \div 16 > q \div 16 => ~Earlier(d, e))
        BY <1>5, <1>6, <4>3, <4>4, EarlierWhere
      <4>7. p \div 16 = q \div 16 => p = q
        BY <1>3, <4>1, <4>4
      <4>8. p \div 16 = q \div 16 => ~Earlier(d, e)
        <5>1. ASSUME p \div 16 = q \div 16, NEW k \in 1..8 PROVE Field(d, k) = Field(e, k)
          <6>1. CASE k = 8
            BY <1>5, <4>4, <5>1, <6>1
          <6>2. CASE k # 8
            BY <4>3, <6>2
          <6> QED BY <6>1, <6>2
        <5>2. \A u, v \in Int : u = v => ~(u < v)
          OBVIOUS
        <5> QED BY <1>6, <5>1, <5>2 DEF Earlier
      <4>9. /\ p \div 16 < q \div 16 => ~(p >= q)
            /\ p \div 16 > q \div 16 => p >= q
            /\ p = q => p >= q
            /\ p \div 16 < q \div 16 \/ p \div 16 > q \div 16 \/ p \div 16 = q \div 16
        BY <4>5
      <4> QED BY <4>2, <4>4, <4>6, <4>7, <4>8, <4>9
    <3> QED BY <3>6, <3>7
  <2> QED BY <2>7, <2>8
<1> QED BY <1>7, <1>8

LEMMA CallGEStep ==
  ASSUME LibraryInv, NEW d \in Dates, NEW e \in Dates, CallGE(d, e) PROVE LibraryInv'
<1>1. bytes' \in [StringBytes -> Int] /\ reg' \in LibraryRegs /\ at' = "END" /\ call' = [fc |-> "GE_DT", d1 |-> d, d2 |-> e]
  BY DEF LibraryInv, CallGE
<1>2. call'.fc = "GE_DT" /\ call'.d1 = d /\ call'.d2 = e
  BY <1>1
<1>3. bie' => ((ret' = 1) <=> ~Earlier(d, e))
  <2>1. CASE IsBcd(d[1]) /\ IsBcd(e[1])
    <3>1. ret' = IF GreaterEqual(d, e) THEN 1 ELSE 0
      BY <2>1 DEF CallGE
    <3>2. (ret' = 1) <=> GreaterEqual(d, e)
      BY <3>1
    <3> QED BY <2>1, <3>2, GreaterIsNotEarlier
  <2>2. CASE ~(IsBcd(d[1]) /\ IsBcd(e[1]))
    BY <2>2 DEF CallGE
  <2> QED BY <2>1, <2>2
<1>4. Earlier(d, e) \in BOOLEAN
  BY DEF Earlier
<1>5. bie' => (ret' = 1) = ~Earlier(d, e)
  BY <1>3, <1>4
<1>6. LibraryDoes'
  BY <1>1, <1>2, <1>5 DEF LibraryDoes, Earlier
<1> QED BY <1>1, <1>6 DEF LibraryInv

LEMMA BytesListed ==
  ASSUME NEW n \in Nat, NEW V, NEW f \in [1..n -> V]
  PROVE  f \in Seq(V) /\ Len(f) = n
OBVIOUS

LEMMA CallEQStep ==
  ASSUME LibraryInv, NEW d \in Dates, NEW e \in Dates, CallEQ(d, e) PROVE LibraryInv'
<1>1. bytes' \in [StringBytes -> Int] /\ reg' \in LibraryRegs /\ at' = "END" /\ call' = [fc |-> "EQ_DT", d1 |-> d, d2 |-> e]
  BY DEF LibraryInv, CallEQ
<1>2. call'.fc = "EQ_DT" /\ call'.d1 = d /\ call'.d2 = e
  BY <1>1
<1>3. d \in [1..8 -> 0..255] /\ e \in [1..8 -> 0..255]
  BY IecLibraryAssumption
<1>4. ASSUME SubSeq(d, 1, 4) = SubSeq(e, 1, 4), SubSeq(d, 5, 8) = SubSeq(e, 5, 8) PROVE d = e
  <2>1. d \in Seq(0..255) /\ e \in Seq(0..255) /\ Len(d) = 8 /\ Len(e) = 8
    <3>1. PICK n \in Nat : n = 8
      OBVIOUS
    <3>2. d \in [1..n -> 0..255] /\ e \in [1..n -> 0..255]
      BY <1>3, <3>1
    <3>3. d \in Seq(0..255) /\ e \in Seq(0..255) /\ Len(d) = n /\ Len(e) = n
      BY <3>2, BytesListed
    <3> QED BY <3>1, <3>3
  <2>2. ASSUME NEW s \in Seq(0..255), Len(s) = 8, NEW i \in 1..4
        PROVE  SubSeq(s, 1, 4)[i] = s[i] /\ SubSeq(s, 5, 8)[i] = s[i + 4]
    BY <2>2
  <2>3. ASSUME NEW i \in 1..8 PROVE d[i] = e[i]
    <3>1. CASE i \in 1..4
      BY <1>4, <2>1, <2>2, <3>1
    <3>2. CASE i \in 5..8
      <4>1. PICK j \in 1..4 : i = j + 4
        BY <3>2
      <4>2. d[j + 4] = e[j + 4]
        BY <1>4, <2>1, <2>2
      <4> QED BY <4>1, <4>2
    <3> QED BY <3>1, <3>2
  <2> QED BY <1>3, <2>3
<1>5. (ret' = 1) <=> (d = e)
  <2>1. ret' = IF SubSeq(d, 1, 4) = SubSeq(e, 1, 4) /\ SubSeq(d, 5, 8) = SubSeq(e, 5, 8) THEN 1 ELSE 0
    BY DEF CallEQ
  <2> QED BY <1>4, <2>1
<1>6. LibraryDoes'
  <2>1. (ret' = 1) = (call'.d1 = call'.d2)
    BY <1>2, <1>5
  <2> QED BY <1>1, <1>2, <2>1 DEF LibraryDoes
<1> QED BY <1>1, <1>6 DEF LibraryInv

LEMMA LibraryStep == LibraryInv /\ [LibraryNext]_libraryVars => LibraryInv'
<1> SUFFICES ASSUME LibraryInv, [LibraryNext]_libraryVars PROVE LibraryInv'
  OBVIOUS
<1>1. CASE at = "idle" /\ \E inMax \in 0..MaxIn : \E inLen \in 0..inMax :
              \E retMax \in RetMaxes, inPlace \in BOOLEAN, L, P \in Numbers :
                 CallDelete(inMax, inLen, retMax, inPlace, L, P)
  BY <1>1, CallDeleteStep
<1>2. CASE \E inMax \in 0..MaxIn : \E inLen \in 0..inMax : CallLen(inMax, inLen)
  BY <1>2, CallLenStep
<1>3. CASE \E d, e \in Dates : CallGE(d, e)
  BY <1>3, CallGEStep
<1>4. CASE \E d, e \in Dates : CallEQ(d, e)
  BY <1>4, CallEQStep
<1>5. CASE RefuseNegative
  BY <1>5, RefuseStep
<1>6. CASE Prepare
  BY <1>6, PrepareStep
<1>7. CASE CopyBefore
  BY <1>7, CopyBeforeStep
<1>8. CASE CopyBehind
  BY <1>8, CopyBehindStep
<1>9. CASE WriteLength
  BY <1>9, WriteLengthStep
<1>10. CASE UNCHANGED libraryVars
  <2>1. bytes' = bytes /\ call' = call /\ at' = at /\ reg' = reg /\ ret' = ret /\ bie' = bie
    BY <1>10 DEF libraryVars
  <2>2. DeleteRuns' = DeleteRuns /\ DeleteStarted' = DeleteStarted /\ Limits' = Limits /\ Positive' = Positive
    BY <2>1 DEF DeleteRuns, DeleteCall, NothingBeside, DeleteStarted, Limits, Positive, Unread,
                CallFront, CallGone, CallCount
  <2>3. CallFront' = CallFront /\ CallGone' = CallGone /\ CallCount' = CallCount
    BY <2>1 DEF CallFront, CallGone, CallCount
  <2>4. ASSUME NEW a, NEW k, AtCharacter(a, k) PROVE AtCharacter(a, k)'
    BY <2>1, <2>3, <2>4 DEF AtCharacter, Unread, Taken
  <2>5. Taken(CallCount) => Taken(CallCount)'
    BY <2>1, <2>3 DEF Taken
  <2>6. LibraryDoes'
    BY <2>1 DEF LibraryInv, LibraryDoes, DeleteDoes
  <2>7. (\E k \in 0 .. CallFront : AtCharacter(k, k)) => \E k \in 0 .. CallFront' : AtCharacter(k, k)'
    BY <2>3, <2>4
  <2>8. (\E k \in CallFront .. CallCount : AtCharacter(CallGone + k, k))
          => \E k \in CallFront' .. CallCount' : AtCharacter(CallGone + k, k)'
    <3>1. ASSUME NEW k \in CallFront .. CallCount, AtCharacter(CallGone + k, k)
          PROVE  \E j \in CallFront' .. CallCount' : AtCharacter(CallGone + j, j)'
      <4>1. PICK a : a = CallGone + k
        OBVIOUS
      <4>2. AtCharacter(a, k)'
        BY <2>4, <3>1, <4>1
      <4>3. a = CallGone' + k
        BY <2>3, <4>1
      <4> QED BY <2>3, <4>2, <4>3
    <3> QED BY <3>1
  <2> QED BY <2>1, <2>2, <2>3, <2>5, <2>6, <2>7, <2>8 DEF LibraryInv
<1> QED BY <1>1, <1>2, <1>3, <1>4, <1>5, <1>6, <1>7, <1>8, <1>9, <1>10 DEF LibraryNext

\* The blocks of the library do what their names say: what DELETE leaves of a
\* string is what is to remain of it, as far as there is room, also in place,
\* and dates are compared as points in time.
THEOREM LibraryWorks == LibraryInit /\ [][LibraryNext]_libraryVars => []LibraryDoes
<1>1. LibraryInv => LibraryDoes
  BY DEF LibraryInv
<1> QED BY <1>1, LibraryStarts, LibraryStep, PTL
=============================================================================
