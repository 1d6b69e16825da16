--------------------------- MODULE SimulatorProofs --------------------------
(***************************************************************************)
(* The network simulator: the serial line between containers and the       *)
(* parallel kernel, which share nothing here.                              *)
(*                                                                         *)
(* The serial line of SerialLine implements the channel of SerialChannel   *)
(* for every size of its buffers and every number of containers, and leave *)
(* to send means room, however many requests are under way.  The bytes     *)
(* under way from a container are in three places: the receive buffer of   *)
(* its partner, the wire, and its transmit buffer.  Ordered says that read *)
(* one after the other they increase.  Leave follows the conversation      *)
(* about the leave to send.                                                *)
(*                                                                         *)
(* The conservative synchronisation of Timelines never lets a timeline     *)
(* pass an event that can still arrive, for any number of timelines, any   *)
(* channels and delays and any processes.  Across windows it is the upper  *)
(* edge of the window that separates what is executed from what is left    *)
(* for later; within a window a timeline stops at a wait event for each    *)
(* partner it meets, which is never later than what the partner has        *)
(* promised, and whatever the partner still sends is not before its        *)
(* promise.                                                                *)
(***************************************************************************)
EXTENDS SerialLine, Timelines, FiniteSetTheorems, TLAPS

-----------------------------------------------------------------------------
(* The serial line.                                                        *)

Commands == {"RTS", "CTS", "DNS", "DATA"}
Messages == [command : Commands, data : Seq(Nat)]
Ring == [buf : [0..RxSize - 1 -> Nat], num_received_bytes : 0..RxSize, recv_start : 0..RxSize - 1]

TypeOK ==
    /\ linked \in [Host -> BOOLEAN] /\ rts_mask \in [Host -> BOOLEAN]
    /\ tx \in [Host -> [buf : [1..TxSize -> Nat], num_bytes_to_transmit : 0..TxSize]]
    /\ rx \in [Host -> Ring]
    /\ writing \in [Host -> [start : Nat, n : Nat]]
    /\ written \in [Host -> Nat] /\ got \in [Host -> Nat]
    /\ wire \in [Host -> Seq(Messages)]
    /\ popping \in [Host -> Seq(Nat)]

\* Two lock sections of a write agree on where the free part begins, unless the
\* buffer is emptied between them: then there is more room than the first saw.
WritesFit == \A h \in Host : writing[h] # None =>
    /\ tx[h].num_bytes_to_transmit <= writing[h].start
    /\ ~Overlap => writing[h].start = tx[h].num_bytes_to_transmit
    /\ writing[h].start + writing[h].n <= TxSize

\* Between the look at the space and the storing of the bytes the message stays
\* and no byte arrives.
SpaceStays == \A h \in Host : popping[h] # <<>> =>
    linked[h] /\ wire[Partner[h]] # <<>> /\ Head(popping[h]) <= Free(h)

Sound == TypeOK /\ WritesFit /\ SpaceStays

Increasing(s) == \A i, j \in DOMAIN s : i < j => s[i] < s[j]
Below(S, T) == \A x \in S, y \in T : x < y

\* The bytes in the messages V.
Carried(V) == UNION {Elements(V[k].data) : k \in DOMAIN V}

\* The bytes R in the receive buffer, those in the messages V on the wire, and
\* the bytes T in the transmit buffer follow each other, after the last one that
\* was read and up to the last one that was sent.
Placed(last, R, V, T, sent) ==
    /\ R \cup Carried(V) \cup T \subseteq last + 1 .. sent
    /\ Below(R, Carried(V)) /\ Below(R, T) /\ Below(Carried(V), T)
    /\ \A k, l \in DOMAIN V : k < l => Below(Elements(V[k].data), Elements(V[l].data))

InOrder(h) ==
    /\ Placed(got[Partner[h]], Elements(RxBytes(Partner[h])), wire[h], Elements(TxBytes(h)), written[h])
    /\ got[Partner[h]] <= written[h]
    /\ Increasing(RxBytes(Partner[h])) /\ Increasing(TxBytes(h))
    /\ \A k \in DOMAIN wire[h] : Increasing(wire[h][k].data)

-----------------------------------------------------------------------------
(* Messages on a wire.                                                     *)

LEMMA AppendCarried ==
    ASSUME NEW V \in Seq(Messages), NEW m \in Messages
    PROVE  /\ Append(V, m) \in Seq(Messages)
           /\ DOMAIN Append(V, m) = 1 .. Len(V) + 1
           /\ Append(V, m)[Len(V) + 1] = m
           /\ \A k \in DOMAIN V : k \in 1 .. Len(V) /\ Append(V, m)[k] = V[k]
           /\ Carried(Append(V, m)) = Carried(V) \cup Elements(m.data)
<1>1. /\ Append(V, m) \in Seq(Messages) /\ DOMAIN Append(V, m) = 1 .. Len(V) + 1
      /\ Append(V, m)[Len(V) + 1] = m /\ DOMAIN V = 1 .. Len(V) /\ Len(V) \in Nat
      /\ \A k \in 1 .. Len(V) : Append(V, m)[k] = V[k]
  OBVIOUS
<1>2. PICK W : W = Append(V, m)
  OBVIOUS
<1>3. PICK n \in Nat : n = Len(V)
  BY <1>1
<1>4. /\ DOMAIN W = 1 .. n + 1 /\ DOMAIN V = 1 .. n /\ W[n + 1] = m
      /\ \A k \in 1 .. n : W[k] = V[k]
  BY <1>1, <1>2, <1>3
<1>5. ASSUME NEW b PROVE b \in Carried(W) <=> b \in Carried(V) \cup Elements(m.data)
  <2>1. b \in Carried(W) <=> \E k \in 1 .. n + 1 : b \in Elements(W[k].data)
    BY <1>4 DEF Carried
  <2>2. b \in Carried(V) <=> \E k \in 1 .. n : b \in Elements(V[k].data)
    BY <1>4 DEF Carried
  <2>3. \A k \in 1 .. n + 1 : k \in 1 .. n \/ k = n + 1
    OBVIOUS
  <2>4. n + 1 \in 1 .. n + 1 /\ \A k \in 1 .. n : k \in 1 .. n + 1
    OBVIOUS
  <2>5. QED
    BY <1>4, <2>1, <2>2, <2>3, <2>4
<1>6. QED
  BY <1>1, <1>2, <1>5

LEMMA TailCarried ==
    ASSUME NEW V \in Seq(Messages), V # <<>>
    PROVE  /\ Tail(V) \in Seq(Messages) /\ Head(V) \in Messages /\ 1 \in DOMAIN V /\ Head(V) = V[1]
           /\ \A k \in DOMAIN Tail(V) : k + 1 \in DOMAIN V /\ Tail(V)[k] = V[k + 1] /\ k > 0
           /\ Carried(V) = Elements(Head(V).data) \cup Carried(Tail(V))
<1>1. /\ Tail(V) \in Seq(Messages) /\ Head(V) \in Messages /\ Head(V) = V[1]
      /\ Len(V) \in Nat /\ Len(V) > 0 /\ Len(Tail(V)) = Len(V) - 1
      /\ DOMAIN V = 1 .. Len(V) /\ DOMAIN Tail(V) = 1 .. Len(Tail(V))
      /\ \A k \in 1 .. Len(V) - 1 : Tail(V)[k] = V[k + 1]
  OBVIOUS
<1>2. PICK W : W = Tail(V)
  OBVIOUS
<1>3. PICK n \in Nat : n = Len(V) - 1
  <2>1. \A k \in Nat : k > 0 => k - 1 \in Nat
    OBVIOUS
  <2>2. QED
    BY <1>1, <2>1
<1>4. /\ DOMAIN V = 1 .. n + 1 /\ DOMAIN W = 1 .. n /\ Head(V) = V[1]
      /\ \A k \in 1 .. n : W[k] = V[k + 1]
  BY <1>1, <1>2, <1>3
<1>5. ASSUME NEW b PROVE b \in Carried(V) <=> b \in Elements(Head(V).data) \cup Carried(W)
  <2>1. b \in Carried(V) <=> \E k \in 1 .. n + 1 : b \in Elements(V[k].data)
    BY <1>4 DEF Carried
  <2>2. b \in Carried(W) <=> \E k \in 1 .. n : b \in Elements(W[k].data)
    BY <1>4 DEF Carried
  <2>3. \A k \in 1 .. n + 1 : k = 1 \/ k - 1 \in 1 .. n
    OBVIOUS
  <2>4. 1 \in 1 .. n + 1 /\ \A k \in 1 .. n : k + 1 \in 1 .. n + 1
    OBVIOUS
  <2>5. \A k \in 1 .. n + 1 : k # 1 => W[k - 1] = V[k]
    BY <1>4, <2>3
  <2>6. QED
    BY <1>4, <2>1, <2>2, <2>3, <2>4, <2>5
<1>6. QED
  BY <1>1, <1>2, <1>3, <1>4, <1>5

-----------------------------------------------------------------------------
(* The places of the bytes.                                                *)

\* A write adds the next bytes to the transmit buffer.
LEMMA PlacedWrite ==
    ASSUME NEW g \in Nat, NEW w \in Nat, NEW R, NEW V, NEW T, Placed(g, R, V, T, w), g <= w,
           NEW v \in Nat, w <= v, NEW S, S \subseteq w + 1 .. v
    PROVE  Placed(g, R, V, T \cup S, v)
<1>1. \A x \in S : x \in Int /\ w < x /\ x \in g + 1 .. v
  OBVIOUS
<1>2. \A x \in R \cup Carried(V) \cup T : x \in Int /\ x <= w /\ x \in g + 1 .. v
  BY DEF Placed
<1>3. Below(R, T \cup S) /\ Below(Carried(V), T \cup S)
  <2>1. \A x \in R \cup Carried(V), y \in S : x < y
    BY <1>1, <1>2
  <2>2. \A x \in R \cup Carried(V), y \in T : x < y
    BY DEF Placed, Below
  <2>3. QED
    BY <2>1, <2>2 DEF Below
<1>4. R \cup Carried(V) \cup (T \cup S) \subseteq g + 1 .. v
  BY <1>1, <1>2
<1>5. QED
  <2>1. Below(R, Carried(V)) /\ \A k, l \in DOMAIN V : k < l => Below(Elements(V[k].data), Elements(V[l].data))
    BY DEF Placed
  <2>2. QED
    BY <1>3, <1>4, <2>1 DEF Placed

\* A message takes all bytes of the transmit buffer with it.
LEMMA PlacedInject ==
    ASSUME NEW g \in Nat, NEW w \in Nat, NEW R, NEW V \in Seq(Messages), NEW T, Placed(g, R, V, T, w),
           NEW m \in Messages, Elements(m.data) = T
    PROVE  Placed(g, R, Append(V, m), {}, w)
<1>1. PICK W : W = Append(V, m)
  OBVIOUS
<1>2. PICK n \in Nat : n = Len(V)
  OBVIOUS
<1>3. /\ Carried(W) = Carried(V) \cup T /\ DOMAIN W = 1 .. n + 1 /\ DOMAIN V = 1 .. n
      /\ Elements(W[n + 1].data) = T /\ \A k \in 1 .. n : W[k] = V[k]
  BY <1>1, <1>2, AppendCarried
<1>4. \A k \in 1 .. n : Elements(V[k].data) \subseteq Carried(V)
  BY <1>3 DEF Carried
<1>5. ASSUME NEW k \in DOMAIN W, NEW l \in DOMAIN W, k < l
      PROVE  Below(Elements(W[k].data), Elements(W[l].data))
  <2>1. k \in 1 .. n /\ (l \in 1 .. n \/ l = n + 1)
    BY <1>3, <1>5
  <2>2. QED
    BY <1>3, <1>4, <1>5, <2>1 DEF Placed, Below
<1>6. R \cup Carried(W) \cup {} \subseteq g + 1 .. w
  BY <1>3 DEF Placed
<1>7. Below(R, Carried(W)) /\ Below(R, {}) /\ Below(Carried(W), {})
  BY <1>3 DEF Placed, Below
<1>8. QED
  BY <1>1, <1>5, <1>6, <1>7 DEF Placed

\* Any other message carries no bytes.
LEMMA PlacedPush ==
    ASSUME NEW g \in Nat, NEW w \in Nat, NEW R, NEW V \in Seq(Messages), NEW T, Placed(g, R, V, T, w),
           NEW m \in Messages, \A b : b \notin Elements(m.data)
    PROVE  Placed(g, R, Append(V, m), T, w)
<1>1. PICK W : W = Append(V, m)
  OBVIOUS
<1>2. PICK n \in Nat : n = Len(V)
  OBVIOUS
<1>3. /\ Carried(W) = Carried(V) /\ DOMAIN W = 1 .. n + 1 /\ DOMAIN V = 1 .. n
      /\ Elements(W[n + 1].data) = {} /\ \A k \in 1 .. n : W[k] = V[k]
  <2>1. /\ Carried(W) = Carried(V) \cup Elements(m.data)
        /\ DOMAIN W = 1 .. n + 1 /\ DOMAIN V = 1 .. n /\ W[n + 1] = m
        /\ \A k \in 1 .. n : W[k] = V[k]
    BY <1>1, <1>2, AppendCarried
  <2>2. QED
    BY <2>1
<1>4. ASSUME NEW k \in DOMAIN W, NEW l \in DOMAIN W, k < l
      PROVE  Below(Elements(W[k].data), Elements(W[l].data))
  <2>1. k \in 1 .. n /\ (l \in 1 .. n \/ l = n + 1)
    BY <1>3, <1>4
  <2>2. QED
    BY <1>3, <1>4, <2>1 DEF Placed, Below
<1>5. QED
  BY <1>1, <1>3, <1>4 DEF Placed

\* Of the message at the head of the wire some bytes go to the receive buffer.
LEMMA PlacedPop ==
    ASSUME NEW g \in Nat, NEW w \in Nat, NEW R, NEW V \in Seq(Messages), V # <<>>, NEW T,
           Placed(g, R, V, T, w), NEW S \in SUBSET Elements(Head(V).data)
    PROVE  Placed(g, R \cup S, Tail(V), T, w)
<1>1. PICK W : W = Tail(V)
  OBVIOUS
<1>2. PICK D : D = Elements(Head(V).data)
  OBVIOUS
<1>3. /\ Carried(V) = D \cup Carried(W) /\ 1 \in DOMAIN V /\ Elements(V[1].data) = D
      /\ \A k \in DOMAIN W : k + 1 \in DOMAIN V /\ W[k] = V[k + 1] /\ k > 0
      /\ DOMAIN W \subseteq Int
  BY <1>1, <1>2, TailCarried
<1>4. ASSUME NEW k \in DOMAIN W, NEW l \in DOMAIN W, k < l
      PROVE  Below(Elements(W[k].data), Elements(W[l].data))
  BY <1>3, <1>4 DEF Placed
<1>5. Below(D, Carried(W))
  <2>1. ASSUME NEW x \in D, NEW y \in Carried(W) PROVE x < y
    <3>1. PICK k \in DOMAIN W : y \in Elements(W[k].data)
      BY DEF Carried
    <3>2. k + 1 \in DOMAIN V /\ 1 < k + 1 /\ y \in Elements(V[k + 1].data)
      BY <1>3, <3>1
    <3>3. QED
      BY <1>3, <3>2 DEF Placed, Below
  <2>2. QED
    BY <2>1 DEF Below
<1>6. (R \cup S) \cup Carried(W) \cup T \subseteq g + 1 .. w
  BY <1>2, <1>3 DEF Placed
<1>7. Below(R \cup S, Carried(W)) /\ Below(R \cup S, T) /\ Below(Carried(W), T)
  BY <1>2, <1>3, <1>5 DEF Placed, Below
<1>8. QED
  BY <1>1, <1>4, <1>6, <1>7 DEF Placed

\* A read takes the bytes up to b.
AllAbove(b, S) == \A x \in S : b < x

LEMMA PlacedRead ==
    ASSUME NEW g \in Nat, NEW w \in Nat, NEW R, NEW V, NEW T, Placed(g, R, V, T, w),
           NEW b \in Nat, b \in R, NEW U, U \subseteq R, AllAbove(b, U)
    PROVE  Placed(b, U, V, T, w) /\ b <= w /\ AllAbove(b, Carried(V) \cup T)
<1>1. AllAbove(b, Carried(V) \cup T)
  BY DEF Placed, Below, AllAbove
<1>2. \A x \in R \cup Carried(V) \cup T : x \in g + 1 .. w
  BY DEF Placed
<1>3. \A x \in U \cup Carried(V) \cup T : x \in g + 1 .. w /\ b < x
  BY <1>1, <1>2 DEF AllAbove
<1>4. U \cup Carried(V) \cup T \subseteq b + 1 .. w
  <2>1. ASSUME NEW x \in U \cup Carried(V) \cup T PROVE x \in b + 1 .. w
    <3>1. PICK y \in g + 1 .. w : y = x
      BY <1>3
    <3>2. b < y
      BY <1>3, <3>1
    <3>3. y \in b + 1 .. w
      BY <3>2
    <3>4. QED
      BY <3>1, <3>3
  <2>2. QED
    BY <2>1
<1>5. Below(U, Carried(V)) /\ Below(U, T)
  BY DEF Placed, Below
<1>6. Below(Carried(V), T) /\ \A k, l \in DOMAIN V : k < l => Below(Elements(V[k].data), Elements(V[l].data))
  BY DEF Placed
<1>7. Placed(b, U, V, T, w)
  BY <1>4, <1>5, <1>6 DEF Placed
<1>8. b <= w
  BY <1>2
<1>9. QED
  BY <1>1, <1>7, <1>8

-----------------------------------------------------------------------------
(* The receive buffer is a ring.                                           *)

\* What a number below three times R is modulo R.
Wrapped(a, R) == IF a < R THEN a ELSE IF a < 2 * R THEN a - R ELSE a - 2 * R
LEMMA Mod ==
    \A R \in Nat \ {0}, a \in Nat : a < 3 * R => a % R = Wrapped(a, R) /\ Wrapped(a, R) \in 0 .. R - 1
  BY DEF Wrapped

\* Where byte j is in a ring of R places that starts at s, and which place from
\* e on place i is.
PlaceOf(R, s, j) == (s + j - 1) % R
PlaceFrom(R, e, i) == (i + 2 * R - e) % R

\* Where place j of a ring that starts at s is, and what place of the bytes that
\* are stored behind the first n this is.
LEMMA RingPlace ==
    ASSUME NEW R \in Nat \ {0}, NEW s \in 0 .. R - 1, NEW n \in 0 .. R, NEW l \in Nat, n + l <= R,
           NEW j \in 1 .. n + l
    PROVE  /\ PlaceOf(R, s, j) \in 0 .. R - 1
           /\ j <= n => ~(PlaceFrom(R, s + n, PlaceOf(R, s, j)) + 1 <= l)
           /\ j > n => PlaceFrom(R, s + n, PlaceOf(R, s, j)) + 1 = j - n
<1>1. PICK i \in 0 .. R - 1 : i = Wrapped(s + j - 1, R)
  <2>1. Wrapped(s + j - 1, R) \in 0 .. R - 1
    BY DEF Wrapped
  <2>2. QED
    BY <2>1
<1>2. s + j - 1 \in Nat /\ s + j - 1 < 3 * R
  OBVIOUS
<1>3. (s + j - 1) % R = i
  BY <1>1, <1>2, Mod
<1>4. i + 2 * R - (s + n) \in Nat /\ i + 2 * R - (s + n) < 3 * R
  BY <1>1 DEF Wrapped
<1>5. (i + 2 * R - (s + n)) % R = Wrapped(i + 2 * R - (s + n), R)
  BY <1>4, Mod
<1>6. Wrapped(i + 2 * R - (s + n), R) = IF j <= n THEN j - 1 - n + R ELSE j - 1 - n
  BY <1>1 DEF Wrapped
<1>7. /\ j <= n => ~(((i + 2 * R - (s + n)) % R) + 1 <= l)
      /\ j > n => ((i + 2 * R - (s + n)) % R) + 1 = j - n
  BY <1>5, <1>6
<1>8. PlaceOf(R, s, j) = i /\ PlaceFrom(R, s + n, i) = (i + 2 * R - (s + n)) % R
  BY <1>3 DEF PlaceOf, PlaceFrom
<1>9. QED
  BY <1>7, <1>8

LEMMA PlaceInside ==
    ASSUME NEW R \in Nat \ {0}, NEW e \in 0 .. 2 * R - 1, NEW i \in 0 .. R - 1
    PROVE  PlaceFrom(R, e, i) \in 0 .. R - 1
<1>1. i + 2 * R - e \in Nat /\ i + 2 * R - e < 3 * R
  OBVIOUS
<1>2. QED
  BY <1>1, Mod DEF PlaceFrom

\* When n of m bytes are taken, place j is the old place n + j.
RestStart(R, s, m, n) == IF n = m THEN 0 ELSE (s + n) % R
LEMMA RingRest ==
    ASSUME NEW R \in Nat \ {0}, NEW s \in 0 .. R - 1, NEW m \in 0 .. R, NEW n \in 1 .. m
    PROVE  /\ RestStart(R, s, m, n) \in 0 .. R - 1
           /\ \A j \in 1 .. m - n : PlaceOf(R, RestStart(R, s, m, n), j) = PlaceOf(R, s, n + j)
<1>1. s + n \in Nat /\ s + n < 3 * R
  OBVIOUS
<1>2. (s + n) % R = Wrapped(s + n, R)
  BY <1>1, Mod
<1>3. PICK t : t = IF n = m THEN 0 ELSE Wrapped(s + n, R)
  OBVIOUS
<1>4. t \in 0 .. R - 1
  BY <1>3 DEF Wrapped
<1>5. ASSUME NEW j \in 1 .. m - n PROVE (t + j - 1) % R = (s + (n + j) - 1) % R
  <2>1. t + j - 1 \in Nat /\ t + j - 1 < 3 * R /\ s + (n + j) - 1 \in Nat /\ s + (n + j) - 1 < 3 * R
    BY <1>4
  <2>2. (t + j - 1) % R = Wrapped(t + j - 1, R)
    BY <2>1, Mod
  <2>3. (s + (n + j) - 1) % R = Wrapped(s + (n + j) - 1, R)
    BY <2>1, Mod
  <2>4. Wrapped(t + j - 1, R) = Wrapped(s + (n + j) - 1, R)
    BY <1>3 DEF Wrapped
  <2>5. QED
    BY <2>2, <2>3, <2>4
<1>6. QED
  BY <1>2, <1>3, <1>4, <1>5 DEF PlaceOf, RestStart

\* The bytes of a receive buffer are those of its ring.
LEMMA RingBytes ==
    ASSUME NEW h \in Host, rx[h] \in Ring
    PROVE  /\ DOMAIN RxBytes(h) = 1 .. rx[h].num_received_bytes
           /\ \A j \in 1 .. rx[h].num_received_bytes :
                 RxBytes(h)[j] = rx[h].buf[PlaceOf(RxSize, rx[h].recv_start, j)]
           /\ RxBytes(h) \in [1 .. rx[h].num_received_bytes -> Nat]
<1>1. RxSize \in Nat \ {0}
  BY LineAssumption
<1>2. \A j \in 1 .. rx[h].num_received_bytes :
         PlaceOf(RxSize, rx[h].recv_start, j) \in 0 .. RxSize - 1
  <2>1. ASSUME NEW j \in 1 .. rx[h].num_received_bytes
        PROVE  PlaceOf(RxSize, rx[h].recv_start, j) \in 0 .. RxSize - 1
    <3>1. PICK a \in Nat : a = rx[h].recv_start + j - 1
      BY <1>1 DEF Ring
    <3>2. a % RxSize \in 0 .. RxSize - 1
      BY <1>1
    <3>3. QED
      BY <3>1, <3>2 DEF PlaceOf
  <2>2. QED
    BY <2>1
<1>3. QED
  BY <1>2 DEF RxBytes, PlaceOf, Ring

\* What is stored comes behind the bytes that are there.
LEMMA StoredBytes ==
    ASSUME NEW h \in Host, rx[h] \in Ring, NEW data \in Seq(Nat), Len(data) <= Free(h),
           rx'[h] = Stored(h, data)
    PROVE  /\ rx'[h] \in Ring
           /\ rx'[h].num_received_bytes = rx[h].num_received_bytes + Len(data)
           /\ \A j \in 1 .. rx'[h].num_received_bytes :
                 RxBytes(h)'[j] = IF j <= rx[h].num_received_bytes THEN RxBytes(h)[j]
                                  ELSE data[j - rx[h].num_received_bytes]
<1>1. RxSize \in Nat \ {0}
  BY LineAssumption
<1>2. PICK s \in 0 .. RxSize - 1, n \in 0 .. RxSize, l \in Nat :
         s = rx[h].recv_start /\ n = rx[h].num_received_bytes /\ l = Len(data)
  BY DEF Ring
<1>3. n + l <= RxSize
  BY <1>1, <1>2 DEF Free
<1>4. rx'[h] = [rx[h] EXCEPT
                 !.buf = [i \in 0..RxSize - 1 |->
                            LET k == PlaceFrom(RxSize, s + n, i) + 1
                            IN  IF k <= Len(data) THEN data[k] ELSE @[i]],
                 !.num_received_bytes = @ + Len(data)]
  BY <1>1, <1>2, <1>3 DEF Stored, Free, PlaceFrom
<1>5. /\ rx'[h].buf = [i \in 0..RxSize - 1 |->
                          IF PlaceFrom(RxSize, s + n, i) + 1 <= l
                          THEN data[PlaceFrom(RxSize, s + n, i) + 1] ELSE rx[h].buf[i]]
      /\ rx'[h].num_received_bytes = n + l /\ rx'[h].recv_start = s
      /\ rx'[h] = [buf |-> rx'[h].buf, num_received_bytes |-> n + l, recv_start |-> s]
  BY <1>2, <1>4 DEF Ring
<1>6. rx'[h].buf \in [0..RxSize - 1 -> Nat]
  <2>1. ASSUME NEW i \in 0..RxSize - 1,
               PlaceFrom(RxSize, s + n, i) + 1 <= l
        PROVE  data[PlaceFrom(RxSize, s + n, i) + 1] \in Nat
    <3>1. s + n \in 0 .. 2 * RxSize - 1
      BY <1>1
    <3>2. PlaceFrom(RxSize, s + n, i) \in 0 .. RxSize - 1
      BY <1>1, <3>1, PlaceInside
    <3>3. PICK k : k = PlaceFrom(RxSize, s + n, i) + 1
      OBVIOUS
    <3>4. k \in 1 .. Len(data)
      BY <1>1, <1>2, <2>1, <3>2, <3>3
    <3>5. data[k] \in Nat
      BY <3>4
    <3>6. QED
      BY <3>3, <3>5
  <2>2. ASSUME NEW i \in 0..RxSize - 1 PROVE rx[h].buf[i] \in Nat
    BY DEF Ring
  <2>3. QED
    BY <1>5, <2>1, <2>2
<1>7. rx'[h] \in Ring
  <2>1. n + l \in 0 .. RxSize
    BY <1>1, <1>3
  <2>2. QED
    BY <1>5, <1>6, <2>1 DEF Ring
<1>8. ASSUME NEW j \in 1 .. n + l
      PROVE  RxBytes(h)'[j] = IF j <= n THEN RxBytes(h)[j] ELSE data[j - n]
  <2>1. PICK i : i = PlaceOf(RxSize, s, j)
    OBVIOUS
  <2>2. /\ i \in 0 .. RxSize - 1
        /\ j <= n => ~(PlaceFrom(RxSize, s + n, i) + 1 <= l)
        /\ j > n => PlaceFrom(RxSize, s + n, i) + 1 = j - n
    BY <1>1, <1>3, <2>1, RingPlace
  <2>3. RxBytes(h)'[j] = rx'[h].buf[i]
    BY <1>5, <2>1 DEF RxBytes, PlaceOf
  <2>4. CASE j <= n
    <3>1. rx'[h].buf[i] = rx[h].buf[i]
      BY <1>5, <2>2, <2>4
    <3>2. RxBytes(h)[j] = rx[h].buf[i]
      BY <1>2, <2>1, <2>4 DEF RxBytes, PlaceOf
    <3>3. QED
      BY <2>3, <2>4, <3>1, <3>2
  <2>5. CASE j > n
    <3>1. j - n <= l
      BY <1>3
    <3>2. rx'[h].buf[i] = data[j - n]
      BY <1>5, <2>2, <2>5, <3>1
    <3>3. QED
      BY <2>3, <2>5, <3>2
  <2>6. QED
    BY <2>4, <2>5
<1>9. QED
  BY <1>2, <1>5, <1>7, <1>8

\* What is left of the bytes when the first n are taken.
LEMMA PoppedBytes ==
    ASSUME NEW h \in Host, rx[h] \in Ring, NEW n \in 1 .. rx[h].num_received_bytes,
           rx'[h] = Popped(h, n)
    PROVE  /\ rx'[h] \in Ring
           /\ rx'[h].num_received_bytes = rx[h].num_received_bytes - n
           /\ \A j \in 1 .. rx'[h].num_received_bytes : RxBytes(h)'[j] = RxBytes(h)[n + j]
<1>1. RxSize \in Nat \ {0}
  BY LineAssumption
<1>2. PICK s \in 0 .. RxSize - 1, m \in 0 .. RxSize :
         s = rx[h].recv_start /\ m = rx[h].num_received_bytes
  BY DEF Ring
<1>3. PICK t : t = RestStart(RxSize, s, m, n)
  OBVIOUS
<1>4. /\ rx'[h].buf = rx[h].buf /\ rx'[h].num_received_bytes = m - n /\ rx'[h].recv_start = t
      /\ rx'[h] = [buf |-> rx[h].buf, num_received_bytes |-> m - n, recv_start |-> t]
  BY <1>2, <1>3 DEF Popped, Ring, RestStart
<1>5. /\ t \in 0 .. RxSize - 1
      /\ \A j \in 1 .. m - n : PlaceOf(RxSize, t, j) = PlaceOf(RxSize, s, n + j)
  BY <1>1, <1>2, <1>3, RingRest, ZenonT(60)
<1>6. rx'[h] \in Ring
  BY <1>1, <1>2, <1>4, <1>5 DEF Ring
<1>7. ASSUME NEW j \in 1 .. m - n PROVE RxBytes(h)'[j] = RxBytes(h)[n + j]
  <2>1. RxBytes(h)'[j] = rx[h].buf[PlaceOf(RxSize, t, j)]
    BY <1>4, <1>7 DEF RxBytes, PlaceOf
  <2>2. n + j \in 1 .. m
    BY <1>2, <1>7
  <2>3. RxBytes(h)[n + j] = rx[h].buf[PlaceOf(RxSize, s, n + j)]
    BY <1>2, <2>2 DEF RxBytes, PlaceOf
  <2>4. QED
    BY <1>5, <2>1, <2>3
<1>8. QED
  BY <1>2, <1>4, <1>6, <1>7

-----------------------------------------------------------------------------
(* Types.                                                                  *)

LEMMA Partners ==
    \A h \in Host : Partner[h] \in Host /\ Partner[h] # h /\ Partner[Partner[h]] = h
  BY LineAssumption

LEMMA Appended ==
    ASSUME NEW V \in Seq(Messages), NEW m \in Messages
    PROVE  Append(V, m) \in Seq(Messages) /\ Append(V, m) # <<>>
<1>1. Append(V, m) \in Seq(Messages) /\ Len(Append(V, m)) = Len(V) + 1 /\ Len(V) \in Nat
  OBVIOUS
<1>2. Len(V) + 1 # 0 /\ Len(<<>>) = 0
  BY <1>1
<1>3. QED
  BY <1>1, <1>2

\* Which answer a message gets: leave for a request when there is space, a
\* refusal for another message when there is none.
Answers(m, command, space) ==
    /\ m.data = <<>>
    /\ \/ m.command = "CTS" /\ command = "RTS" /\ space >= TxSize
       \/ m.command = "DNS" /\ command # "RTS" /\ space < TxSize

LEMMA Replies ==
    ASSUME NEW V \in Seq(Messages), NEW command \in Commands, NEW space \in Nat
    PROVE  \/ V \o Reply(command, space) = V /\ (command = "RTS" => space < TxSize)
           \/ \E m \in Messages : /\ Answers(m, command, space)
                                  /\ V \o Reply(command, space) = Append(V, m)
<1>1. \A m \in Messages : V \o <<m>> = Append(V, m)
  OBVIOUS
<1>2. /\ Message("CTS", <<>>) \in Messages /\ Message("DNS", <<>>) \in Messages
      /\ Message("CTS", <<>>).data = <<>> /\ Message("DNS", <<>>).data = <<>>
      /\ Message("CTS", <<>>).command = "CTS" /\ Message("DNS", <<>>).command = "DNS"
  BY DEF Message, Messages, Commands
<1>3. V \o <<>> = V
  OBVIOUS
<1>4. TxSize \in Nat
  BY LineAssumption
<1>5. \/ Reply(command, space) = <<>> /\ (command = "RTS" => space < TxSize)
      \/ Reply(command, space) = <<Message("CTS", <<>>)>> /\ command = "RTS" /\ space >= TxSize
      \/ Reply(command, space) = <<Message("DNS", <<>>)>> /\ command # "RTS" /\ space < TxSize
  BY <1>4 DEF Reply
<1>6. QED
  BY <1>1, <1>2, <1>3, <1>5 DEF Answers

\* The bytes of a transmit buffer, and those of a message for which there is space.
LEMMA FirstBytes ==
    ASSUME NEW size \in Nat, NEW b \in [1..size -> Nat], NEW n \in 0..size
    PROVE  /\ SubSeq(b, 1, n) \in Seq(Nat) /\ DOMAIN SubSeq(b, 1, n) = 1 .. n
           /\ \A i \in 1 .. n : SubSeq(b, 1, n)[i] = b[i]
<1>1. b \in Seq(Nat) /\ Len(b) = size
  OBVIOUS
<1>2. QED
  BY <1>1

LEMMA SentBytes ==
    ASSUME NEW h \in Host, TypeOK
    PROVE  /\ TxBytes(h) \in Seq(Nat) /\ DOMAIN TxBytes(h) = 1 .. tx[h].num_bytes_to_transmit
           /\ \A i \in 1 .. tx[h].num_bytes_to_transmit : TxBytes(h)[i] = tx[h].buf[i]
<1>1. PICK b, n : b = tx[h].buf /\ n = tx[h].num_bytes_to_transmit
  OBVIOUS
<1>2. b \in [1..TxSize -> Nat] /\ n \in 0..TxSize /\ TxSize \in Nat
  BY <1>1, LineAssumption DEF TypeOK
<1>3. /\ SubSeq(b, 1, n) \in Seq(Nat) /\ DOMAIN SubSeq(b, 1, n) = 1 .. n
      /\ \A i \in 1 .. n : SubSeq(b, 1, n)[i] = b[i]
  BY <1>2, FirstBytes
<1>4. QED
  BY <1>1, <1>3 DEF TxBytes

LEMMA Fitting ==
    ASSUME NEW data \in Seq(Nat), NEW space \in Nat
    PROVE  LET fitting == SubSeq(data, 1, Least(Len(data), space))
           IN  /\ fitting \in Seq(Nat) /\ Len(fitting) <= space /\ Len(fitting) <= Len(data)
               /\ \A i \in 1 .. Len(fitting) : fitting[i] = data[i]
BY DEF Least

\* Before any device is opened nothing is stored, sent or believed.
THEOREM InitIsSound == Init => Sound
<1> SUFFICES ASSUME Init PROVE Sound
  OBVIOUS
<1> USE LineAssumption
<1>1. tx \in [Host -> [buf : [1..TxSize -> Nat], num_bytes_to_transmit : 0..TxSize]]
  BY DEF Init, Nil
<1>2. rx \in [Host -> Ring]
  BY DEF Init, Nil, Ring
<1>3. /\ wire \in [Host -> Seq(Messages)] /\ popping \in [Host -> Seq(Nat)]
      /\ writing \in [Host -> [start : Nat, n : Nat]]
  <2>1. <<>> \in Seq(Messages) /\ <<>> \in Seq(Nat)
    OBVIOUS
  <2>2. QED
    BY <2>1 DEF Init, None
<1>4. TypeOK
  <2>1. /\ linked \in [Host -> BOOLEAN] /\ rts_mask \in [Host -> BOOLEAN]
        /\ written \in [Host -> Nat] /\ got \in [Host -> Nat]
    BY DEF Init
  <2>2. QED
    BY <1>1, <1>2, <1>3, <2>1 DEF TypeOK
<1>5. WritesFit /\ SpaceStays
  BY DEF Init, WritesFit, SpaceStays
<1>6. QED
  BY <1>4, <1>5 DEF Sound

LEMMA LinkSound == ASSUME Sound, NEW h \in Host, Link(h) PROVE Sound'
<1>1. TypeOK'
  BY DEF Link, Sound, TypeOK
<1>2. WritesFit' /\ SpaceStays'
  BY DEF Link, Sound, TypeOK, WritesFit, SpaceStays, Free
<1>3. QED
  BY <1>1, <1>2 DEF Sound

LEMMA WriteLookSound ==
    ASSUME Sound, NEW h \in Host, NEW count \in 1..(Total[h] - written[h]), WriteLook(h, count)
    PROVE  Sound'
<1>1. PICK start \in Nat, n \in Nat :
        /\ start = tx[h].num_bytes_to_transmit /\ start + n <= TxSize
        /\ writing' = [writing EXCEPT ![h] = [start |-> start, n |-> n]]
  <2>1. /\ tx[h].num_bytes_to_transmit \in 0..TxSize /\ TxSize \in Nat
        /\ Total[h] \in Nat /\ written[h] \in Nat
    BY LineAssumption DEF Sound, TypeOK
  <2>2. PICK start : start = tx[h].num_bytes_to_transmit
    OBVIOUS
  <2>3. PICK n : n = Least(TxSize - start, count)
    OBVIOUS
  <2>4. n \in Nat /\ start \in Nat /\ start + n <= TxSize
    BY <2>1, <2>2, <2>3 DEF Least
  <2>5. writing' = [writing EXCEPT ![h] = [start |-> start, n |-> n]]
    BY <2>2, <2>3 DEF WriteLook
  <2>6. QED
    BY <2>2, <2>4, <2>5
<1>2. UNCHANGED <<linked, tx, rx, written, got, rts_mask, wire, popping>>
  BY DEF WriteLook
<1>3. TypeOK'
  BY <1>1, <1>2 DEF Sound, TypeOK
<1>4. WritesFit'
  BY <1>1, <1>2, SMTT(60) DEF Sound, TypeOK, WritesFit
<1>5. SpaceStays'
  BY <1>2 DEF Sound, SpaceStays, Free
<1>6. QED
  BY <1>3, <1>4, <1>5 DEF Sound

LEMMA WriteStoreSound == ASSUME Sound, NEW h \in Host, WriteStore(h) PROVE Sound'
<1>1. PICK start \in Nat, n \in Nat : writing[h] = [start |-> start, n |-> n]
  BY DEF Sound, TypeOK
<1>2. /\ writing[h] # None /\ TxSize \in Nat
      /\ tx[h].num_bytes_to_transmit \in 0..TxSize /\ tx[h].buf \in [1..TxSize -> Nat]
      /\ tx[h].num_bytes_to_transmit + n <= TxSize
      /\ written[h] \in Nat
  <2>1. /\ writing[h] # None /\ tx[h].num_bytes_to_transmit <= writing[h].start
        /\ writing[h].start + writing[h].n <= TxSize
    BY DEF Sound, WritesFit, WriteStore
  <2>2. /\ TxSize \in Nat /\ written[h] \in Nat
        /\ tx[h].num_bytes_to_transmit \in 0..TxSize /\ tx[h].buf \in [1..TxSize -> Nat]
    BY LineAssumption DEF Sound, TypeOK
  <2>3. QED
    BY <1>1, <2>1, <2>2
<1>3. PICK b : b = [i \in 1..TxSize |-> IF i \in start + 1 .. start + n
                                       THEN written[h] + i - start ELSE tx[h].buf[i]]
  OBVIOUS
<1>4. b \in [1..TxSize -> Nat]
  <2>1. \A i \in 1..TxSize : i \in start + 1 .. start + n => written[h] + i - start \in Nat
    BY <1>2, SMTT(60)
  <2>2. QED
    BY <1>2, <1>3, <2>1
<1>5. PICK t : t = tx[h].num_bytes_to_transmit + n
  OBVIOUS
<1>6. t \in 0..TxSize
  BY <1>2, <1>5
<1>7. /\ tx' = [tx EXCEPT ![h] = [buf |-> b, num_bytes_to_transmit |-> t]]
      /\ written' = [written EXCEPT ![h] = @ + n]
      /\ writing' = [writing EXCEPT ![h] = None]
      /\ UNCHANGED <<linked, rx, got, rts_mask, wire, popping>>
  BY <1>1, <1>3, <1>5 DEF WriteStore, Sound, TypeOK
<1>8. TypeOK'
  <2>1. tx' \in [Host -> [buf : [1..TxSize -> Nat], num_bytes_to_transmit : 0..TxSize]]
    BY <1>4, <1>6, <1>7 DEF Sound, TypeOK
  <2>2. written' \in [Host -> Nat] /\ writing' \in [Host -> [start : Nat, n : Nat]]
    BY <1>2, <1>7 DEF Sound, TypeOK, None
  <2>3. QED
    BY <1>7, <2>1, <2>2 DEF Sound, TypeOK
<1>9. WritesFit'
  BY <1>7 DEF Sound, TypeOK, WritesFit
<1>10. SpaceStays'
  BY <1>7 DEF Sound, SpaceStays, Free
<1>11. QED
  BY <1>8, <1>9, <1>10 DEF Sound

\* The number of bytes a read takes.
LEMMA ReadTakes ==
    ASSUME Sound, NEW h \in Host, NEW count \in ReadCounts, Read(h, count)
    PROVE  \E n \in 1 .. rx[h].num_received_bytes :
              /\ rx' = [rx EXCEPT ![h] = Popped(h, n)]
              /\ got' = [got EXCEPT ![h] = RxBytes(h)[n]]
<1>1. rx[h].num_received_bytes \in Nat /\ rx[h].num_received_bytes > 0 /\ count \in Nat \ {0}
  BY LineAssumption DEF Sound, TypeOK, Ring, Read
<1>2. Least(rx[h].num_received_bytes, count) \in 1 .. rx[h].num_received_bytes
  BY <1>1 DEF Least
<1>3. QED
  BY <1>2 DEF Read

LEMMA ReadSound ==
    ASSUME Sound, NEW h \in Host, NEW count \in ReadCounts, Read(h, count) PROVE Sound'
<1>1. PICK n \in 1 .. rx[h].num_received_bytes :
        /\ rx' = [rx EXCEPT ![h] = Popped(h, n)]
        /\ got' = [got EXCEPT ![h] = RxBytes(h)[n]]
  BY ReadTakes
<1>2. rx[h] \in Ring /\ rx'[h] = Popped(h, n)
  BY <1>1 DEF Sound, TypeOK
<1>3. rx'[h] \in Ring /\ rx'[h].num_received_bytes = rx[h].num_received_bytes - n
  BY <1>2, PoppedBytes
<1>4. RxBytes(h)[n] \in Nat
  BY <1>2, RingBytes
<1>5. UNCHANGED <<linked, tx, writing, written, rts_mask, wire, popping>>
  BY DEF Read
<1>6. TypeOK'
  <2>1. rx' \in [Host -> Ring] /\ got' \in [Host -> Nat]
    BY <1>1, <1>2, <1>3, <1>4 DEF Sound, TypeOK
  <2>2. QED
    BY <1>5, <2>1 DEF Sound, TypeOK
<1>7. WritesFit'
  BY <1>5 DEF Sound, WritesFit
<1>8. SpaceStays'
  <2>1. ASSUME NEW g \in Host PROVE Free(g)' >= Free(g) /\ Free(g) \in Int /\ Free(g)' \in Int
    <3>1. RxSize \in Nat /\ rx[g].num_received_bytes \in Nat
      BY LineAssumption DEF Sound, TypeOK, Ring
    <3>2. rx'[g].num_received_bytes \in Nat /\ rx'[g].num_received_bytes <= rx[g].num_received_bytes
      <4>1. CASE g = h
        BY <1>3, <3>1, <4>1 DEF Ring
      <4>2. CASE g # h
        <5>1. rx'[g] = rx[g]
          BY <1>1, <4>2 DEF Sound, TypeOK
        <5>2. QED
          BY <3>1, <5>1
      <4>3. QED
        BY <4>1, <4>2
    <3>3. QED
      BY <3>1, <3>2 DEF Free
  <2>2. \A g \in Host : popping[g] # <<>> => Head(popping[g]) \in Nat
    BY SMTT(60) DEF Sound, TypeOK
  <2>3. QED
    BY <1>5, <2>1, <2>2 DEF Sound, SpaceStays
<1>9. QED
  BY <1>6, <1>7, <1>8 DEF Sound

LEMMA InjectRtsSound == ASSUME Sound, NEW h \in Host, InjectRts(h) PROVE Sound'
<1>1. PICK m \in Messages : m = Message("RTS", <<>>)
  <2>1. <<>> \in Seq(Nat) /\ "RTS" \in Commands
    BY DEF Commands
  <2>2. QED
    BY <2>1 DEF Message, Messages
<1>2. wire' = [wire EXCEPT ![h] = Append(@, m)]
  BY <1>1 DEF InjectRts, Push
<1>3. UNCHANGED <<linked, tx, rx, writing, written, got, rts_mask, popping>>
  BY DEF InjectRts
<1>4. \A V \in Seq(Messages) : Append(V, m) \in Seq(Messages) /\ Append(V, m) # <<>>
  BY Appended
<1>5. TypeOK' /\ \A g \in Host : wire[g] # <<>> => wire'[g] # <<>>
  BY <1>2, <1>3, <1>4 DEF Sound, TypeOK
<1>6. WritesFit'
  BY <1>3 DEF Sound, WritesFit
<1>7. SpaceStays'
  BY <1>3, <1>5, Partners DEF Sound, SpaceStays, Free
<1>8. QED
  BY <1>5, <1>6, <1>7 DEF Sound

LEMMA InjectDataSound == ASSUME Sound, NEW h \in Host, InjectData(h) PROVE Sound'
<1>1. PICK m \in Messages : m = Message("DATA", TxBytes(h))
  <2>1. TxBytes(h) \in Seq(Nat)
    BY SentBytes DEF Sound
  <2>2. QED
    BY <2>1 DEF Message, Messages, Commands
<1>2. wire' = [wire EXCEPT ![h] = Append(@, m)]
  BY <1>1 DEF InjectData, Push
<1>3. /\ UNCHANGED <<linked, rx, writing, written, got, rts_mask, popping>>
      /\ tx' = [tx EXCEPT ![h] = [buf |-> [i \in 1..TxSize |-> Nil], num_bytes_to_transmit |-> 0]]
      /\ ~Overlap => writing[h] = None
  BY LineAssumption DEF InjectData
<1>4. \A V \in Seq(Messages) : Append(V, m) \in Seq(Messages) /\ Append(V, m) # <<>>
  BY Appended
<1>5. TypeOK' /\ \A g \in Host : wire[g] # <<>> => wire'[g] # <<>>
  <2>1. wire' \in [Host -> Seq(Messages)] /\ \A g \in Host : wire[g] # <<>> => wire'[g] # <<>>
    BY <1>2, <1>4 DEF Sound, TypeOK
  <2>2. [buf |-> [i \in 1..TxSize |-> Nil], num_bytes_to_transmit |-> 0]
          \in [buf : [1..TxSize -> Nat], num_bytes_to_transmit : 0..TxSize]
    BY LineAssumption DEF Nil
  <2>3. tx' \in [Host -> [buf : [1..TxSize -> Nat], num_bytes_to_transmit : 0..TxSize]]
    BY <1>3, <2>2 DEF Sound, TypeOK
  <2>4. QED
    BY <1>3, <2>1, <2>3 DEF Sound, TypeOK
<1>6. WritesFit'
  <2>1. ASSUME NEW g \in Host, writing[g] # None
        PROVE  /\ tx'[g].num_bytes_to_transmit <= writing[g].start
               /\ ~Overlap => writing[g].start = tx'[g].num_bytes_to_transmit
    <3>1. CASE g = h
      <4>1. tx'[g].num_bytes_to_transmit = 0 /\ writing[g].start \in Nat
        BY <1>3, <3>1 DEF Sound, TypeOK
      <4>2. QED
        BY <1>3, <2>1, <3>1, <4>1
    <3>2. CASE g # h
      <4>1. tx'[g] = tx[g]
        BY <1>3, <3>2 DEF Sound, TypeOK
      <4>2. QED
        BY <2>1, <4>1 DEF Sound, WritesFit
    <3>3. QED
      BY <3>1, <3>2
  <2>2. QED
    BY <1>3, <2>1 DEF Sound, WritesFit
<1>7. SpaceStays'
  BY <1>3, <1>5, Partners DEF Sound, SpaceStays, Free
<1>8. QED
  BY <1>5, <1>6, <1>7 DEF Sound

LEMMA PopUnknownSound == ASSUME Sound, NEW h \in Host, PopUnknown(h) PROVE Sound'
<1>1. PICK V \in Seq(Messages) : V = wire[Partner[h]] /\ V # <<>>
  BY Partners DEF PopUnknown, Sound, TypeOK
<1>2. Tail(V) \in Seq(Messages)
  BY <1>1
<1>3. /\ wire' = [wire EXCEPT ![Partner[h]] = Tail(V)] /\ ~linked[h]
      /\ UNCHANGED <<linked, tx, rx, writing, written, got, rts_mask, popping>>
  BY <1>1 DEF PopUnknown
<1>4. TypeOK'
  BY <1>2, <1>3 DEF Sound, TypeOK
<1>5. WritesFit'
  BY <1>3 DEF Sound, WritesFit
<1>6. SpaceStays'
  <2>1. ASSUME NEW g \in Host, popping[g] # <<>> PROVE wire'[Partner[g]] # <<>>
    <3>1. linked[g] /\ wire[Partner[g]] # <<>>
      BY <2>1 DEF Sound, SpaceStays
    <3>2. g # h /\ Partner[g] # Partner[h]
      BY <1>3, <3>1, Partners
    <3>3. QED
      BY <1>3, <3>1, <3>2, Partners DEF Sound, TypeOK
  <2>2. QED
    BY <1>3, <2>1 DEF Sound, SpaceStays, Free
<1>7. QED
  BY <1>4, <1>5, <1>6 DEF Sound

LEMMA PopLookSound == ASSUME Sound, NEW h \in Host, PopLook(h) PROVE Sound'
<1>1. PICK s \in Nat : s = Free(h)
  <2>1. Free(h) \in Nat
    BY LineAssumption, SMTT(60) DEF Sound, TypeOK, Ring, Free
  <2>2. QED
    BY <2>1
<1>2. /\ popping' = [popping EXCEPT ![h] = <<s>>]
      /\ wire[Partner[h]] # <<>> /\ linked[h]
      /\ UNCHANGED <<linked, tx, rx, writing, written, got, rts_mask, wire>>
  BY <1>1 DEF PopLook
<1>3. <<s>> \in Seq(Nat) /\ Head(<<s>>) = s
  OBVIOUS
<1>4. TypeOK'
  BY <1>2, <1>3 DEF Sound, TypeOK
<1>5. WritesFit'
  BY <1>2 DEF Sound, WritesFit
<1>6. SpaceStays'
  <2>1. \A g \in Host : Free(g)' = Free(g)
    BY <1>2 DEF Free
  <2>2. ASSUME NEW g \in Host, popping'[g] # <<>>
        PROVE  linked[g] /\ wire[Partner[g]] # <<>> /\ Head(popping'[g]) <= Free(g)
    <3>1. CASE g = h
      <4>1. popping'[g] = <<s>>
        BY <1>2, <3>1 DEF Sound, TypeOK
      <4>2. QED
        BY <1>1, <1>2, <1>3, <3>1, <4>1
    <3>2. CASE g # h
      BY <1>2, <2>2, <3>2, SMTT(60) DEF Sound, TypeOK, SpaceStays
    <3>3. QED
      BY <3>1, <3>2
  <2>3. QED
    BY <1>2, <2>1, <2>2 DEF SpaceStays
<1>7. QED
  BY <1>4, <1>5, <1>6 DEF Sound

\* What the end of pop does: the message V[1] leaves the wire of the partner, its
\* bytes or a part of them go to the receive buffer, an answer may go out.
PopDoes(h, V, W, fitting) ==
      /\ V = wire[Partner[h]] /\ V # <<>>
      /\ \/ W = wire[h] /\ (Head(V).command = "RTS" => Head(popping[h]) < TxSize)
         \/ \E m \in Messages : /\ Answers(m, Head(V).command, Head(popping[h]))
                                /\ W = Append(wire[h], m)
      /\ wire'[h] = W /\ wire'[Partner[h]] = Tail(V)
      /\ \A g \in Host \ {h, Partner[h]} : wire'[g] = wire[g]
      /\ Len(fitting) <= Free(h) /\ Len(fitting) <= Len(Head(V).data)
      /\ \A i \in 1 .. Len(fitting) : fitting[i] = Head(V).data[i]
      /\ wire' \in [Host -> Seq(Messages)]
      /\ Head(V).command = "DATA" => rx' = [rx EXCEPT ![h] = Stored(h, fitting)]
      /\ Head(V).command # "DATA" => rx' = rx

LEMMA PopEndDoes ==
    ASSUME Sound, NEW h \in Host, PopEnd(h)
    PROVE  \E V \in Seq(Messages), W \in Seq(Messages), fitting \in Seq(Nat) :
              PopDoes(h, V, W, fitting)
<1>1. PICK V \in Seq(Messages) : V = wire[Partner[h]] /\ V # <<>>
  BY Partners DEF PopEnd, Sound, TypeOK, SpaceStays
<1>2. PICK message \in Messages : message = Head(V)
  BY <1>1
<1>3. message = Incoming(h) /\ message.command \in Commands /\ message.data \in Seq(Nat)
  BY <1>1, <1>2 DEF Incoming, Messages
<1>4. PICK space \in Nat : space = Head(popping[h]) /\ space <= Free(h)
  <2>1. popping[h] \in Seq(Nat) /\ popping[h] # <<>>
    BY DEF PopEnd, Sound, TypeOK
  <2>2. QED
    BY <2>1 DEF Sound, SpaceStays
<1>5. PICK fitting \in Seq(Nat) :
        /\ fitting = SubSeq(message.data, 1, Least(Len(message.data), space))
        /\ Len(fitting) <= space /\ Len(fitting) <= Len(message.data)
        /\ \A i \in 1 .. Len(fitting) : fitting[i] = message.data[i]
  BY <1>3, Fitting
<1>6. PICK W \in Seq(Messages) :
        /\ W = wire[h] \o Reply(message.command, space)
        /\ \/ W = wire[h] /\ (message.command = "RTS" => space < TxSize)
           \/ \E m \in Messages : /\ Answers(m, message.command, space)
                                  /\ W = Append(wire[h], m)
  <2>1. wire[h] \in Seq(Messages)
    BY DEF Sound, TypeOK
  <2>2. \A m \in Messages : Append(wire[h], m) \in Seq(Messages)
    BY <2>1
  <2>3. QED
    BY <1>3, <2>1, <2>2, Replies
<1>7. wire' = [wire EXCEPT ![Partner[h]] = Tail(V), ![h] = W]
  BY <1>1, <1>3, <1>4, <1>6, Partners DEF PopEnd, Sound, TypeOK
<1>8. /\ wire'[h] = W /\ wire'[Partner[h]] = Tail(V) /\ Tail(V) \in Seq(Messages)
      /\ \A g \in Host \ {h, Partner[h]} : wire'[g] = wire[g]
      /\ wire' \in [Host -> Seq(Messages)]
  <2>1. PICK p \in Host : p = Partner[h] /\ p # h
    BY Partners
  <2>2. PICK U \in Seq(Messages) : U = Tail(V)
    BY <1>1, TailCarried
  <2>3. wire' = [wire EXCEPT ![p] = U, ![h] = W] /\ wire \in [Host -> Seq(Messages)]
    BY <1>7, <2>1, <2>2 DEF Sound, TypeOK
  <2>4. /\ wire'[h] = W /\ wire'[p] = U /\ \A g \in Host \ {h, p} : wire'[g] = wire[g]
        /\ wire' \in [Host -> Seq(Messages)]
    BY <2>1, <2>3
  <2>5. QED
    BY <2>1, <2>2, <2>4
<1>9. /\ message.command = "DATA" => rx' = [rx EXCEPT ![h] = Stored(h, fitting)]
      /\ message.command # "DATA" => rx' = rx
  BY <1>3, <1>4, <1>5 DEF PopEnd
<1>10. Len(fitting) <= Free(h)
  <2>1. Free(h) \in Int
    BY LineAssumption, SMTT(60) DEF Sound, TypeOK, Ring, Free
  <2>2. QED
    BY <1>4, <1>5, <2>1
<1> WITNESS V \in Seq(Messages), W \in Seq(Messages), fitting \in Seq(Nat)
<1>11. QED
  BY <1>1, <1>2, <1>4, <1>5, <1>6, <1>8, <1>9, <1>10, ZenonT(60) DEF PopDoes

LEMMA PopEndSound == ASSUME Sound, NEW h \in Host, PopEnd(h) PROVE Sound'
<1>1. PICK V \in Seq(Messages), W \in Seq(Messages), fitting \in Seq(Nat) :
        PopDoes(h, V, W, fitting)
  BY PopEndDoes
<1>2. /\ popping' = [popping EXCEPT ![h] = <<>>]
      /\ UNCHANGED <<linked, tx, writing, written, got>>
  BY DEF PopEnd
<1>3. rts_mask' \in [Host -> BOOLEAN]
  BY DEF PopEnd, Sound, TypeOK
<1>4. rx' \in [Host -> Ring] /\ \A g \in Host \ {h} : rx'[g] = rx[g]
  <2>1. CASE Head(V).command = "DATA"
    <3>1. rx[h] \in Ring /\ rx' = [rx EXCEPT ![h] = Stored(h, fitting)]
      BY <1>1, <2>1 DEF PopDoes, Sound, TypeOK
    <3>2. rx'[h] = Stored(h, fitting)
      BY <3>1 DEF Sound, TypeOK
    <3>3. rx'[h] \in Ring
      BY <1>1, <3>1, <3>2, StoredBytes DEF PopDoes
    <3>4. QED
      BY <3>1, <3>2, <3>3 DEF Sound, TypeOK
  <2>2. CASE Head(V).command # "DATA"
    BY <1>1, <2>2 DEF PopDoes, Sound, TypeOK
  <2>3. QED
    BY <2>1, <2>2
<1>5. TypeOK'
  <2>1. popping' \in [Host -> Seq(Nat)]
    <3>1. <<>> \in Seq(Nat)
      OBVIOUS
    <3>2. QED
      BY <1>2, <3>1 DEF Sound, TypeOK
  <2>2. QED
    BY <1>1, <1>2, <1>3, <1>4, <2>1 DEF PopDoes, Sound, TypeOK
<1>6. WritesFit'
  BY <1>2 DEF Sound, WritesFit
<1>7. SpaceStays'
  <2>1. ASSUME NEW g \in Host, popping'[g] # <<>>
        PROVE  linked[g] /\ wire'[Partner[g]] # <<>> /\ Head(popping'[g]) <= Free(g)'
    <3>1. g # h /\ popping'[g] = popping[g]
      BY <1>2, <2>1 DEF Sound, TypeOK
    <3>2. Free(g)' = Free(g)
      BY <1>4, <3>1 DEF Free
    <3>3. linked[g] /\ wire[Partner[g]] # <<>> /\ Head(popping[g]) <= Free(g)
      BY <2>1, <3>1 DEF Sound, SpaceStays
    <3>4. wire'[Partner[g]] # <<>>
      <4>1. PICK p \in Host : p = Partner[g] /\ p # Partner[h]
        BY <3>1, Partners
      <4>2. CASE p = h
        <5>1. \A m \in Messages : Append(wire[h], m) # <<>>
          BY Appended DEF Sound, TypeOK
        <5>2. QED
          BY <1>1, <3>3, <4>1, <4>2, <5>1 DEF PopDoes
      <4>3. CASE p # h
        BY <1>1, <3>3, <4>1, <4>3 DEF PopDoes
      <4>4. QED
        BY <4>2, <4>3
    <3>5. QED
      BY <3>1, <3>2, <3>3, <3>4
  <2>2. QED
    BY <1>2, <2>1 DEF SpaceStays
<1>8. QED
  BY <1>5, <1>6, <1>7 DEF Sound

LEMMA NextIsSound == Sound /\ [Next]_vars => Sound'
<1> SUFFICES ASSUME Sound, [Next]_vars PROVE Sound'
  OBVIOUS
<1>1. CASE UNCHANGED vars
  <2>1. TypeOK'
    BY <1>1 DEF vars, Sound, TypeOK
  <2>2. WritesFit' /\ SpaceStays'
    BY <1>1 DEF vars, Sound, WritesFit, SpaceStays, Free
  <2>3. QED
    BY <2>1, <2>2 DEF Sound
<1>2. ASSUME NEW h \in Host, Program(h) \/ Inject(h) \/ Pop(h) PROVE Sound'
  BY <1>2, LinkSound, WriteLookSound, WriteStoreSound, ReadSound, InjectRtsSound,
     InjectDataSound, PopUnknownSound, PopLookSound, PopEndSound DEF Program, Inject, Pop
<1>3. QED
  BY <1>1, <1>2 DEF Next

\* Type correctness of the line, whatever its sizes: with it the bytes of a write
\* stay inside the transmit buffer even when the simulator empties it between the
\* two lock sections, and what pop stores fits, for the space it saw is still there.
THEOREM TypeCorrectness == Spec => []Sound
<1>1. QED
  BY InitIsSound, NextIsSound, PTL DEF Spec

-----------------------------------------------------------------------------
(* The order of the bytes.                                                 *)

\* The bytes of h that are under way to its partner.
Under(h) == Elements(RxBytes(Partner[h])) \cup Carried(wire[h]) \cup Elements(TxBytes(h))

\* One sequence behind another, and what is left when a prefix is taken.
IsJoined(u, q, s, m, t, l) ==
    /\ DOMAIN s = 1 .. m /\ DOMAIN t = 1 .. l /\ DOMAIN u = 1 .. q /\ q = m + l
    /\ \A j \in 1 .. q : u[j] = IF j <= m THEN s[j] ELSE t[j - m]

LEMMA Joined ==
    ASSUME NEW m \in Nat, NEW l \in Nat, NEW q \in Nat, NEW s, NEW t, NEW u,
           IsJoined(u, q, s, m, t, l)
    PROVE  /\ Elements(u) = Elements(s) \cup Elements(t)
           /\ Increasing(s) /\ Increasing(t) /\ Below(Elements(s), Elements(t)) => Increasing(u)
<1> USE DEF IsJoined
<1>1. /\ \A j \in 1 .. m : j \in 1 .. q /\ u[j] = s[j]
      /\ \A j \in 1 .. l : m + j \in 1 .. q /\ u[m + j] = t[j]
  <2>1. ASSUME NEW j \in 1 .. l PROVE m + j \in 1 .. q /\ u[m + j] = t[j]
    <3>1. PICK k : k = m + j
      OBVIOUS
    <3>2. k \in 1 .. q /\ ~(k <= m) /\ k - m = j
      BY <3>1
    <3>3. QED
      BY <3>1, <3>2
  <2>2. QED
    BY <2>1
<1>2. \A j \in 1 .. q : j \in 1 .. m \/ j - m \in 1 .. l
  OBVIOUS
<1>3. \A b : b \in Elements(u) <=> b \in Elements(s) \cup Elements(t)
  <2>1. ASSUME NEW b \in Elements(u) PROVE b \in Elements(s) \cup Elements(t)
    <3>1. PICK j \in 1 .. q : b = u[j]
      BY DEF Elements
    <3>2. CASE j <= m
      BY <3>1, <3>2 DEF Elements
    <3>3. CASE j > m
      <4>1. PICK i \in 1 .. l : i = j - m
        BY <1>2, <3>3
      <4>2. b = t[i]
        BY <3>1, <3>3, <4>1
      <4>3. QED
        BY <4>2 DEF Elements
    <3>4. QED
      BY <3>2, <3>3
  <2>2. ASSUME NEW b \in Elements(s) PROVE b \in Elements(u)
    BY <1>1 DEF Elements
  <2>3. ASSUME NEW b \in Elements(t) PROVE b \in Elements(u)
    BY <1>1 DEF Elements
  <2>4. QED
    BY <2>1, <2>2, <2>3
<1>4. ASSUME Increasing(s), Increasing(t), Below(Elements(s), Elements(t)),
             NEW i \in 1 .. q, NEW j \in 1 .. q, i < j
      PROVE  u[i] < u[j]
  <2>1. CASE j <= m
    <3>1. i \in 1 .. m /\ j \in 1 .. m
      BY <1>4, <2>1
    <3>2. QED
      BY <1>1, <1>4, <3>1 DEF Increasing
  <2>2. CASE i > m
    <3>1. i - m \in 1 .. l /\ j - m \in 1 .. l /\ i - m < j - m
      BY <1>4, <2>2
    <3>2. u[i] = t[i - m] /\ u[j] = t[j - m]
      BY <1>4, <2>2
    <3>3. QED
      BY <1>4, <3>1, <3>2 DEF Increasing
  <2>3. CASE i <= m /\ j > m
    <3>1. i \in 1 .. m /\ j - m \in 1 .. l /\ u[i] = s[i] /\ u[j] = t[j - m]
      BY <1>4, <2>3
    <3>2. s[i] \in Elements(s) /\ t[j - m] \in Elements(t)
      BY <3>1 DEF Elements
    <3>3. QED
      BY <1>4, <3>1, <3>2 DEF Below
  <2>4. QED
    BY <2>1, <2>2, <2>3
<1>5. QED
  BY <1>3, <1>4 DEF Increasing

IsRest(u, s, m, n) == DOMAIN u = 1 .. m - n /\ \A j \in 1 .. m - n : u[j] = s[n + j]

LEMMA Rest ==
    ASSUME NEW m \in Nat, NEW n \in 1 .. m, NEW s \in [1 .. m -> Nat], NEW u,
           IsRest(u, s, m, n), Increasing(s)
    PROVE  /\ Increasing(u) /\ Elements(u) = {c \in Elements(s) : c > s[n]}
           /\ s[n] \in Elements(s)
<1> USE DEF IsRest
<1>1. \A j \in 1 .. m - n : n + j \in 1 .. m /\ u[j] = s[n + j] /\ n < n + j
  OBVIOUS
<1>2. Increasing(u)
  <2>1. ASSUME NEW i \in 1 .. m - n, NEW j \in 1 .. m - n, i < j PROVE s[n + i] < s[n + j]
    <3>1. n + i \in 1 .. m /\ n + j \in 1 .. m /\ n + i < n + j
      BY <2>1
    <3>2. QED
      BY <3>1 DEF Increasing
  <2>2. QED
    BY <1>1, <2>1 DEF Increasing
<1>3. ASSUME NEW c PROVE c \in Elements(u) <=> c \in Elements(s) /\ c > s[n]
  <2>1. ASSUME c \in Elements(u) PROVE c \in Elements(s) /\ c > s[n]
    <3>1. PICK j \in 1 .. m - n : c = s[n + j]
      BY <1>1, <2>1 DEF Elements
    <3>2. QED
      BY <1>1, <3>1 DEF Elements, Increasing
  <2>2. ASSUME c \in Elements(s), c > s[n] PROVE c \in Elements(u)
    <3>1. PICK i \in 1 .. m : c = s[i]
      BY <2>2 DEF Elements
    <3>2. i > n
      <4>1. CASE i = n
        BY <2>2, <3>1, <4>1
      <4>2. CASE i < n
        BY <2>2, <3>1, <4>2 DEF Increasing
      <4>3. QED
        BY <4>1, <4>2
    <3>3. PICK j \in 1 .. m - n : i = n + j
      <4>1. i - n \in 1 .. m - n /\ i = n + (i - n)
        BY <3>2
      <4>2. QED
        BY <4>1
    <3>4. u[j] = c
      BY <1>1, <3>1, <3>3
    <3>5. QED
      BY <3>4 DEF Elements
  <2>3. QED
    BY <2>1, <2>2
<1>4. QED
  BY <1>2, <1>3 DEF Elements

\* Nothing happens to the bytes of h when nothing happens where they are.
LEMMA Untouched ==
    ASSUME NEW h \in Host, InOrder(h), rx'[Partner[h]] = rx[Partner[h]], wire'[h] = wire[h],
           tx'[h] = tx[h], written'[h] = written[h], got'[Partner[h]] = got[Partner[h]]
    PROVE  InOrder(h)' /\ Under(h)' = Under(h)
<1>1. RxBytes(Partner[h])' = RxBytes(Partner[h]) /\ TxBytes(h)' = TxBytes(h)
  BY DEF RxBytes, TxBytes
<1>2. QED
  BY <1>1 DEF InOrder, Under

LEMMA WriteStoreOrder ==
    ASSUME Sound, ~Overlap, NEW h \in Host, InOrder(h), WriteStore(h)
    PROVE  /\ InOrder(h)'
           /\ \E n \in Nat : /\ written' = [written EXCEPT ![h] = written[h] + n]
                             /\ Under(h)' = Under(h) \cup written[h] + 1 .. written[h] + n
           /\ \A g \in Host \ {h} : tx'[g] = tx[g] /\ written'[g] = written[g]
<1>1. PICK k \in Nat, n \in Nat : writing[h] = [start |-> k, n |-> n]
  BY DEF Sound, TypeOK
<1>2. PICK w \in Nat : w = written[h]
  BY DEF Sound, TypeOK
<1>q. PICK q \in Nat : q = k + n
  OBVIOUS
<1>v. PICK v \in Nat : v = w + n
  OBVIOUS
<1>3. /\ k = tx[h].num_bytes_to_transmit /\ q \in 0 .. TxSize
      /\ TxSize \in Nat /\ tx[h].buf \in [1..TxSize -> Nat]
  <2>1. /\ writing[h] # None /\ writing[h].start = tx[h].num_bytes_to_transmit
        /\ writing[h].start + writing[h].n <= TxSize
    BY DEF Sound, WritesFit, WriteStore
  <2>2. TxSize \in Nat /\ tx[h].buf \in [1..TxSize -> Nat]
    BY LineAssumption DEF Sound, TypeOK
  <2>3. QED
    BY <1>1, <1>q, <2>1, <2>2
<1>4. PICK b : b = [i \in 1..TxSize |-> IF i \in k + 1 .. k + n THEN w + i - k ELSE tx[h].buf[i]]
  OBVIOUS
<1>5. /\ tx' = [tx EXCEPT ![h] = [buf |-> b, num_bytes_to_transmit |-> q]]
      /\ written' = [written EXCEPT ![h] = v]
      /\ UNCHANGED <<rx, got, wire>>
  BY <1>1, <1>q, <1>v, <1>2, <1>3, <1>4 DEF WriteStore, Sound, TypeOK
<1>6. tx'[h].buf = b /\ tx'[h].num_bytes_to_transmit = q /\ written'[h] = v
  BY <1>5 DEF Sound, TypeOK
<1>7. PICK s : s = TxBytes(h) /\ DOMAIN s = 1 .. k /\ \A i \in 1 .. k : s[i] = tx[h].buf[i]
  BY <1>3, SentBytes DEF Sound
<1>8. PICK u : u = TxBytes(h)' /\ DOMAIN u = 1 .. q /\ \A i \in 1 .. q : u[i] = b[i]
  <2>1. b \in [1..TxSize -> Nat]
    <3>1. \A i \in 1..TxSize : i \in k + 1 .. q => w + i - k \in Nat
      BY <1>3
    <3>2. QED
      BY <1>3, <1>4, <1>q, <3>1
  <2>2. TxBytes(h)' = SubSeq(b, 1, q)
    BY <1>6 DEF TxBytes
  <2>3. QED
    BY <1>3, <2>1, <2>2, FirstBytes
<1>9. PICK t : t = [i \in 1 .. n |-> w + i]
  OBVIOUS
<1>10. \A j \in 1 .. q : u[j] = IF j <= k THEN s[j] ELSE t[j - k]
  <2>1. ASSUME NEW j \in 1 .. q PROVE u[j] = IF j <= k THEN s[j] ELSE t[j - k]
    <3>1. j \in 1 .. TxSize
      BY <1>3
    <3>2. b[j] = IF j \in k + 1 .. k + n THEN w + j - k ELSE tx[h].buf[j]
      BY <1>4, <3>1
    <3>3. CASE j <= k
      <4>1. j \in 1 .. k /\ j \notin k + 1 .. k + n
        BY <3>3
      <4>2. QED
        BY <1>7, <1>8, <3>2, <3>3, <4>1
    <3>4. CASE j > k
      <4>1. j - k \in 1 .. n /\ w + j - k = w + (j - k) /\ j \in k + 1 .. k + n
        BY <1>q, <3>4
      <4>2. t[j - k] = w + j - k
        BY <1>9, <4>1
      <4>3. QED
        BY <1>8, <3>2, <3>4, <4>1, <4>2
    <3>5. QED
      BY <3>3, <3>4
  <2>2. QED
    BY <2>1
<1>11. Elements(t) = w + 1 .. v
  <2>1. DOMAIN t = 1 .. n /\ \A i \in 1 .. n : t[i] = w + i
    BY <1>9
  <2>2. \A c \in w + 1 .. v : c - w \in 1 .. n /\ c = w + (c - w)
    BY <1>v
  <2>3. \A i \in 1 .. n : w + i \in w + 1 .. v
    BY <1>v
  <2>4. \A c : c \in Elements(t) <=> \E i \in 1 .. n : c = w + i
    BY <2>1 DEF Elements
  <2>5. ASSUME NEW c \in w + 1 .. v PROVE \E i \in 1 .. n : c = w + i
    BY <2>2
  <2>6. QED
    BY <2>3, <2>4, <2>5
<1>12. /\ Elements(s) \subseteq got[Partner[h]] + 1 .. w /\ got[Partner[h]] \in Nat
       /\ Increasing(s)
  BY <1>2, <1>7, Partners DEF Sound, TypeOK, InOrder, Placed
<1>13. Increasing(t) /\ Below(Elements(s), Elements(t))
  BY <1>9, <1>11, <1>12 DEF Increasing, Below
<1>14. Elements(u) = Elements(s) \cup w + 1 .. v /\ Increasing(u)
  <2>1. DOMAIN s = 1 .. k /\ DOMAIN t = 1 .. n /\ DOMAIN u = 1 .. q
    BY <1>7, <1>8, <1>9
  <2>2. /\ Elements(u) = Elements(s) \cup Elements(t)
        /\ Increasing(s) /\ Increasing(t) /\ Below(Elements(s), Elements(t)) => Increasing(u)
    <3>1. IsJoined(u, q, s, k, t, n)
      BY <1>q, <1>10, <2>1 DEF IsJoined
    <3>2. QED
      BY <3>1, Joined
  <2>3. QED
    BY <1>11, <1>12, <1>13, <2>2
<1>15. RxBytes(Partner[h])' = RxBytes(Partner[h])
  BY <1>5 DEF RxBytes
<1>16. InOrder(h)'
  <2>0. PICK g \in Nat : g = got[Partner[h]]
    BY <1>12
  <2>1. PICK R, V, T : /\ R = Elements(RxBytes(Partner[h]))
                       /\ V = wire[h] /\ T = Elements(s)
    OBVIOUS
  <2>2. Placed(g, R, V, T, w) /\ g <= w
    BY <1>2, <1>7, <2>0, <2>1 DEF InOrder
  <2>3. Placed(g, R, V, T \cup w + 1 .. v, v) /\ g <= v
    <3>1. PICK S : S = w + 1 .. v
      OBVIOUS
    <3>2. w <= v /\ g <= v
      BY <1>v, <2>2
    <3>3. Placed(g, R, V, T \cup S, v)
      BY <2>2, <3>1, <3>2, PlacedWrite
    <3>4. QED
      BY <3>1, <3>2, <3>3
  <2>4. Placed(g, R, V, Elements(u), v)
    BY <1>14, <2>1, <2>3
  <2>5. Increasing(RxBytes(Partner[h])) /\ \A i \in DOMAIN wire[h] : Increasing(wire[h][i].data)
    BY DEF InOrder
  <2>6. QED
    BY <1>5, <1>6, <1>8, <1>14, <1>15, <2>0, <2>1, <2>3, <2>4, <2>5 DEF InOrder
<1>17. Under(h)' = Under(h) \cup w + 1 .. v
  BY <1>5, <1>7, <1>8, <1>14, <1>15 DEF Under
<1>18. \A g \in Host \ {h} : tx'[g] = tx[g] /\ written'[g] = written[g]
  BY <1>5 DEF Sound, TypeOK
<1>19. QED
  <2>1. \E i \in Nat : /\ written' = [written EXCEPT ![h] = written[h] + i]
                      /\ Under(h)' = Under(h) \cup written[h] + 1 .. written[h] + i
    <3> WITNESS n \in Nat
    <3>1. QED
      BY <1>v, <1>2, <1>5, <1>17
  <2>2. QED
    BY <1>16, <1>18, <2>1

\* A read takes what comes first.
LEMMA ReadOrder ==
    ASSUME Sound, NEW h \in Host, NEW count \in ReadCounts, Read(Partner[h], count), InOrder(h)
    PROVE  /\ InOrder(h)'
           /\ \E b \in Under(h) : /\ got' = [got EXCEPT ![Partner[h]] = b]
                                  /\ Under(h)' = {c \in Under(h) : c > b}
           /\ \A g \in Host \ {Partner[h]} : rx'[g] = rx[g]
<1>1. PICK p \in Host : p = Partner[h]
  BY Partners
<1>m. PICK m \in Nat : m = rx[p].num_received_bytes
  <2>1. rx[p] \in Ring /\ RxSize \in Nat
    BY LineAssumption DEF Sound, TypeOK
  <2>2. rx[p].num_received_bytes \in Nat
    BY <2>1 DEF Ring
  <2>3. QED
    BY <2>2
<1>2. PICK n \in 1 .. m :
        /\ rx' = [rx EXCEPT ![p] = Popped(p, n)]
        /\ got' = [got EXCEPT ![p] = RxBytes(p)[n]]
  BY <1>1, <1>m, ReadTakes
<1>3. rx[p] \in Ring /\ rx'[p] = Popped(p, n)
  BY <1>2 DEF Sound, TypeOK
<1>4. PICK s \in [1 .. m -> Nat] : s = RxBytes(p)
  BY <1>m, <1>3, RingBytes
<1>5. IsRest(RxBytes(p)', s, m, n)
  <2>1. /\ rx'[p].num_received_bytes = rx[p].num_received_bytes - n
        /\ \A j \in 1 .. rx'[p].num_received_bytes : RxBytes(p)'[j] = RxBytes(p)[n + j]
    BY <1>m, <1>2, <1>3, PoppedBytes
  <2>2. DOMAIN RxBytes(p)' = 1 .. rx'[p].num_received_bytes
    BY DEF RxBytes
  <2>3. QED
    BY <1>m, <1>4, <2>1, <2>2 DEF IsRest
<1>6. PICK u : u = RxBytes(p)' /\ IsRest(u, s, m, n)
  BY <1>5
<1>7. Increasing(s)
  BY <1>1, <1>4 DEF InOrder
<1>8. PICK b \in Nat : b = s[n]
  OBVIOUS
<1>9. Increasing(u) /\ Elements(u) = {c \in Elements(s) : c > b} /\ b \in Elements(s)
  BY <1>6, <1>7, <1>8, Rest
<1>r. PICK R, V, T : R = Elements(s) /\ V = wire[h] /\ T = Elements(TxBytes(h))
  OBVIOUS
<1>10. PICK g \in Nat, w \in Nat : g = got[p] /\ w = written[h]
  BY DEF Sound, TypeOK
<1>11. Placed(g, R, V, T, w) /\ b \in R
  BY <1>1, <1>4, <1>9, <1>r, <1>10 DEF InOrder
<1>12. /\ Placed(b, Elements(u), V, T, w) /\ b \in Nat /\ b <= w
       /\ AllAbove(b, Carried(V) \cup T)
  <2>1. PICK U : U = Elements(u)
    OBVIOUS
  <2>2. U \subseteq R /\ AllAbove(b, U)
    BY <1>9, <1>r, <2>1 DEF AllAbove
  <2>3. Placed(b, U, V, T, w) /\ b \in Nat /\ b <= w /\ AllAbove(b, Carried(V) \cup T)
    BY <1>11, <2>2, PlacedRead
  <2>4. QED
    BY <2>1, <2>3
<1>13. got'[p] = b /\ got' = [got EXCEPT ![p] = b] /\ UNCHANGED <<tx, wire, written>>
  BY <1>1, <1>2, <1>4, <1>8 DEF Read, Sound, TypeOK
<1>14. TxBytes(h)' = TxBytes(h)
  BY <1>13 DEF TxBytes
<1>15. InOrder(h)'
  <2>1. Increasing(TxBytes(h)) /\ \A k \in DOMAIN wire[h] : Increasing(wire[h][k].data)
    BY DEF InOrder
  <2>2. QED
    BY <1>1, <1>6, <1>9, <1>r, <1>10, <1>12, <1>13, <1>14, <2>1 DEF InOrder
<1>16. Under(h) = R \cup Carried(V) \cup T
  BY <1>1, <1>4, <1>r, <1>10 DEF Under
<1>17. Under(h)' = Elements(u) \cup Carried(V) \cup T
  BY <1>1, <1>6, <1>r, <1>10, <1>13, <1>14 DEF Under
<1>18. Under(h)' = {c \in Under(h) : c > b}
  <2>1. \A c \in Carried(V) \cup T : c > b
    BY <1>12 DEF AllAbove
  <2>2. QED
    BY <1>9, <1>r, <1>16, <1>17, <2>1
<1>19. b \in Under(h)
  BY <1>11, <1>16
<1>20. \A f \in Host \ {p} : rx'[f] = rx[f]
  BY <1>2 DEF Sound, TypeOK
<1>21. QED
  BY <1>1, <1>13, <1>15, <1>18, <1>19, <1>20

\* A message without bytes changes nothing.
LEMMA PushOrder ==
    ASSUME NEW h \in Host, Sound, InOrder(h), NEW m \in Messages, m.data = <<>>,
           wire'[h] = Append(wire[h], m), rx'[Partner[h]] = rx[Partner[h]], tx'[h] = tx[h],
           written'[h] = written[h], got'[Partner[h]] = got[Partner[h]]
    PROVE  InOrder(h)' /\ Under(h)' = Under(h)
<1>1. RxBytes(Partner[h])' = RxBytes(Partner[h]) /\ TxBytes(h)' = TxBytes(h)
  BY DEF RxBytes, TxBytes
<1>2. \A b : b \notin Elements(m.data)
  BY DEF Elements
<1>3. PICK V \in Seq(Messages), g \in Nat, w \in Nat :
        V = wire[h] /\ g = got[Partner[h]] /\ w = written[h]
  BY Partners DEF Sound, TypeOK
<1>4. PICK R, T : R = Elements(RxBytes(Partner[h])) /\ T = Elements(TxBytes(h))
  OBVIOUS
<1>5. PICK W : W = Append(V, m)
  OBVIOUS
<1>6. Placed(g, R, V, T, w)
  BY <1>3, <1>4 DEF InOrder
<1>7. Placed(g, R, W, T, w)
  BY <1>2, <1>5, <1>6, PlacedPush
<1>8. PICK n \in Nat : n = Len(V)
  BY <1>3
<1>9. /\ DOMAIN W = 1 .. n + 1 /\ W[n + 1] = m /\ DOMAIN V = 1 .. n
      /\ \A k \in 1 .. n : W[k] = V[k]
      /\ Carried(W) = Carried(V) \cup Elements(m.data)
  BY <1>5, <1>8, AppendCarried
<1>10. \A k \in DOMAIN W : Increasing(W[k].data)
  <2>1. Increasing(m.data)
    BY DEF Increasing
  <2>2. \A k \in 1 .. n + 1 : k \in 1 .. n \/ k = n + 1
    OBVIOUS
  <2>3. \A k \in DOMAIN V : Increasing(V[k].data)
    BY <1>3 DEF InOrder
  <2>4. QED
    BY <1>9, <2>1, <2>2, <2>3
<1>11. InOrder(h)'
  <2>1. /\ Increasing(RxBytes(Partner[h])) /\ Increasing(TxBytes(h)) /\ got[Partner[h]] <= written[h]
    BY DEF InOrder
  <2>2. wire'[h] = W
    BY <1>3, <1>5
  <2>3. QED
    BY <1>1, <1>3, <1>4, <1>7, <1>10, <2>1, <2>2 DEF InOrder
<1>12. Carried(W) = Carried(V)
  BY <1>2, <1>9
<1>13. QED
  BY <1>1, <1>3, <1>5, <1>11, <1>12 DEF Under

LEMMA InjectRtsOrder ==
    ASSUME Sound, NEW h \in Host, InOrder(h), InjectRts(h)
    PROVE  InOrder(h)' /\ Under(h)' = Under(h) /\ \A g \in Host \ {h} : wire'[g] = wire[g]
<1>1. PICK m \in Messages : m = Message("RTS", <<>>)
  <2>1. <<>> \in Seq(Nat) /\ "RTS" \in Commands
    BY DEF Commands
  <2>2. QED
    BY <2>1 DEF Message, Messages
<1>2. wire' = [wire EXCEPT ![h] = Append(@, m)] /\ UNCHANGED <<tx, rx, written, got>>
  BY <1>1 DEF InjectRts, Push
<1>3. /\ wire'[h] = Append(wire[h], m) /\ wire[h] \in Seq(Messages)
      /\ \A g \in Host \ {h} : wire'[g] = wire[g]
  BY <1>2 DEF Sound, TypeOK
<1>4. m.data = <<>>
  BY <1>1 DEF Message
<1>5. QED
  BY <1>2, <1>3, <1>4, PushOrder

LEMMA InjectDataOrder ==
    ASSUME Sound, NEW h \in Host, InOrder(h), InjectData(h)
    PROVE  /\ InOrder(h)' /\ Under(h)' = Under(h)
           /\ \A g \in Host \ {h} : wire'[g] = wire[g] /\ tx'[g] = tx[g]
<1>1. PICK t \in Seq(Nat) : t = TxBytes(h)
  BY SentBytes DEF Sound
<1>2. PICK m \in Messages : m = Message("DATA", TxBytes(h)) /\ m.data = TxBytes(h)
  <2>1. "DATA" \in Commands
    BY DEF Commands
  <2>2. Message("DATA", t) \in Messages /\ Message("DATA", t).data = t
    BY <2>1 DEF Message, Messages
  <2>3. QED
    BY <1>1, <2>2
<1>3. /\ wire' = [wire EXCEPT ![h] = Append(@, m)]
      /\ tx' = [tx EXCEPT ![h] = [buf |-> [i \in 1..TxSize |-> Nil], num_bytes_to_transmit |-> 0]]
      /\ UNCHANGED <<rx, written, got>>
  BY <1>2 DEF InjectData, Push
<1>4. /\ wire'[h] = Append(wire[h], m) /\ wire[h] \in Seq(Messages)
      /\ tx'[h].num_bytes_to_transmit = 0 /\ tx'[h].buf = [i \in 1..TxSize |-> 0]
      /\ \A g \in Host \ {h} : wire'[g] = wire[g] /\ tx'[g] = tx[g]
  BY <1>3 DEF Sound, TypeOK, Nil
<1>5. PICK u : u = TxBytes(h)' /\ DOMAIN u = 1 .. 0
  <2>1. PICK b : b = [i \in 1..TxSize |-> 0]
    OBVIOUS
  <2>2. b \in [1..TxSize -> Nat] /\ TxSize \in Nat /\ 0 \in 0..TxSize
    BY <2>1, LineAssumption
  <2>3. DOMAIN SubSeq(b, 1, 0) = 1 .. 0
    BY <2>2, FirstBytes
  <2>4. TxBytes(h)' = SubSeq(b, 1, 0)
    BY <1>4, <2>1 DEF TxBytes
  <2>5. QED
    BY <2>3, <2>4
<1>6. Elements(u) = {} /\ Increasing(u)
  BY <1>5 DEF Elements, Increasing
<1>7. RxBytes(Partner[h])' = RxBytes(Partner[h])
  BY <1>3 DEF RxBytes
<1>8. PICK V \in Seq(Messages), g \in Nat, w \in Nat :
        V = wire[h] /\ g = got[Partner[h]] /\ w = written[h]
  BY Partners DEF Sound, TypeOK
<1>9. PICK R, T : R = Elements(RxBytes(Partner[h])) /\ T = Elements(TxBytes(h))
  OBVIOUS
<1>10. PICK W : W = Append(V, m)
  OBVIOUS
<1>11. Placed(g, R, V, T, w) /\ Elements(m.data) = T
  BY <1>2, <1>8, <1>9 DEF InOrder
<1>12. Placed(g, R, W, {}, w)
  BY <1>10, <1>11, PlacedInject
<1>13. PICK n \in Nat : n = Len(V)
  BY <1>8
<1>14. /\ DOMAIN W = 1 .. n + 1 /\ W[n + 1] = m /\ DOMAIN V = 1 .. n
       /\ \A k \in 1 .. n : W[k] = V[k]
       /\ Carried(W) = Carried(V) \cup T
  BY <1>10, <1>11, <1>13, AppendCarried
<1>15. \A k \in DOMAIN W : Increasing(W[k].data)
  <2>1. Increasing(m.data)
    BY <1>2 DEF InOrder
  <2>2. \A k \in 1 .. n + 1 : k \in 1 .. n \/ k = n + 1
    OBVIOUS
  <2>3. \A k \in DOMAIN V : Increasing(V[k].data)
    BY <1>8 DEF InOrder
  <2>4. QED
    BY <1>14, <2>1, <2>2, <2>3
<1>16. InOrder(h)'
  <2>1. /\ Increasing(RxBytes(Partner[h])) /\ got[Partner[h]] <= written[h]
    BY DEF InOrder
  <2>2. wire'[h] = W /\ got'[Partner[h]] = g /\ written'[h] = w
    BY <1>3, <1>4, <1>8, <1>10
  <2>3. QED
    BY <1>5, <1>6, <1>7, <1>8, <1>9, <1>12, <1>15, <2>1, <2>2 DEF InOrder
<1>17. Under(h)' = Under(h)
  BY <1>4, <1>5, <1>6, <1>7, <1>8, <1>9, <1>10, <1>14 DEF Under
<1>18. QED
  BY <1>4, <1>16, <1>17

\* A message leaves the wire, and some of its bytes go to the receive buffer.
LEMMA TakeOrder ==
    ASSUME Sound, NEW h \in Host, InOrder(h), wire[h] # <<>>, wire'[h] = Tail(wire[h]),
           tx'[h] = tx[h], written'[h] = written[h], got'[Partner[h]] = got[Partner[h]],
           NEW S \in SUBSET Elements(Head(wire[h]).data),
           Elements(RxBytes(Partner[h]))' = Elements(RxBytes(Partner[h])) \cup S,
           Increasing(RxBytes(Partner[h]))'
    PROVE  InOrder(h)' /\ Under(h)' \subseteq Under(h)
<1>1. PICK V \in Seq(Messages), g \in Nat, w \in Nat :
        V = wire[h] /\ g = got[Partner[h]] /\ w = written[h] /\ V # <<>>
  BY Partners DEF Sound, TypeOK
<1>2. PICK R, T : R = Elements(RxBytes(Partner[h])) /\ T = Elements(TxBytes(h))
  OBVIOUS
<1>3. Placed(g, R, V, T, w)
  BY <1>1, <1>2 DEF InOrder
<1>4. PICK W : W = Tail(V)
  OBVIOUS
<1>5. Placed(g, R \cup S, W, T, w)
  BY <1>1, <1>3, <1>4, PlacedPop
<1>6. /\ Carried(V) = Elements(Head(V).data) \cup Carried(W)
      /\ \A k \in DOMAIN W : k + 1 \in DOMAIN V /\ W[k] = V[k + 1]
  BY <1>1, <1>4, TailCarried
<1>7. TxBytes(h)' = TxBytes(h)
  BY DEF TxBytes
<1>8. \A k \in DOMAIN W : Increasing(W[k].data)
  BY <1>1, <1>6 DEF InOrder
<1>9. InOrder(h)'
  <2>1. Increasing(TxBytes(h)) /\ got[Partner[h]] <= written[h]
    BY DEF InOrder
  <2>2. wire'[h] = W /\ got'[Partner[h]] = g /\ written'[h] = w
    BY <1>1, <1>4
  <2>3. Elements(RxBytes(Partner[h])') = R \cup S
    BY <1>2
  <2>4. QED
    BY <1>1, <1>2, <1>5, <1>7, <1>8, <2>1, <2>2, <2>3 DEF InOrder
<1>10. Under(h)' \subseteq Under(h)
  <2>1. Under(h) = R \cup Carried(V) \cup T
    BY <1>1, <1>2 DEF Under
  <2>2. Under(h)' = (R \cup S) \cup Carried(W) \cup T
    BY <1>1, <1>2, <1>4, <1>7 DEF Under
  <2>3. QED
    BY <1>1, <1>6, <2>1, <2>2
<1>11. QED
  BY <1>9, <1>10

LEMMA PopUnknownOrder ==
    ASSUME Sound, NEW h \in Host, InOrder(h), PopUnknown(Partner[h])
    PROVE  /\ InOrder(h)' /\ Under(h)' \subseteq Under(h)
           /\ \A g \in Host \ {h} : wire'[g] = wire[g]
<1>1. /\ wire[h] # <<>> /\ wire' = [wire EXCEPT ![h] = Tail(@)]
      /\ UNCHANGED <<tx, rx, written, got>>
  BY Partners DEF PopUnknown
<1>2. wire'[h] = Tail(wire[h]) /\ \A g \in Host \ {h} : wire'[g] = wire[g]
  BY <1>1 DEF Sound, TypeOK
<1>3. RxBytes(Partner[h])' = RxBytes(Partner[h])
  BY <1>1 DEF RxBytes
<1>4. PICK S \in SUBSET Elements(Head(wire[h]).data) : S = {}
  OBVIOUS
<1>5. /\ Elements(RxBytes(Partner[h]))' = Elements(RxBytes(Partner[h])) \cup S
      /\ Increasing(RxBytes(Partner[h]))'
  BY <1>3, <1>4 DEF InOrder
<1>6. InOrder(h)' /\ Under(h)' \subseteq Under(h)
  BY <1>1, <1>2, <1>5, TakeOrder
<1>7. QED
  BY <1>2, <1>6

\* The bytes of a message that end up behind those in the receive buffer.
LEMMA StoredOrder ==
    ASSUME NEW h \in Host, rx[h] \in Ring, NEW data \in Seq(Nat), NEW fitting \in Seq(Nat),
           Len(fitting) <= Free(h), Len(fitting) <= Len(data),
           \A i \in 1 .. Len(fitting) : fitting[i] = data[i],
           Increasing(RxBytes(h)), Increasing(data), Below(Elements(RxBytes(h)), Elements(data)),
           rx'[h] = Stored(h, fitting)
    PROVE  /\ Elements(fitting) \in SUBSET Elements(data)
           /\ Elements(RxBytes(h))' = Elements(RxBytes(h)) \cup Elements(fitting)
           /\ Increasing(RxBytes(h))'
<1>1. PICK m \in Nat : m = rx[h].num_received_bytes
  <2>1. RxSize \in Nat
    BY LineAssumption
  <2>2. rx[h].num_received_bytes \in Nat
    BY <2>1 DEF Ring
  <2>3. QED
    BY <2>2
<1>2. PICK l \in Nat, q \in Nat : l = Len(fitting) /\ q = m + l
  OBVIOUS
<1>3. PICK s : s = RxBytes(h) /\ DOMAIN s = 1 .. m
  BY <1>1, RingBytes
<1>t. PICK t : t = fitting
  OBVIOUS
<1>4. PICK u : u = RxBytes(h)' /\ IsJoined(u, q, s, m, t, l)
  <2>0. /\ rx'[h].num_received_bytes = rx[h].num_received_bytes + Len(fitting)
        /\ \A j \in 1 .. rx'[h].num_received_bytes :
              RxBytes(h)'[j] = IF j <= rx[h].num_received_bytes THEN RxBytes(h)[j]
                               ELSE fitting[j - rx[h].num_received_bytes]
    BY StoredBytes
  <2>1. /\ rx'[h].num_received_bytes = q
        /\ \A j \in 1 .. q : RxBytes(h)'[j] = IF j <= m THEN s[j] ELSE t[j - m]
    BY <1>1, <1>2, <1>3, <1>t, <2>0
  <2>2. DOMAIN RxBytes(h)' = 1 .. q
    BY <2>1 DEF RxBytes
  <2>3. DOMAIN t = 1 .. l
    BY <1>2, <1>t
  <2>4. QED
    BY <1>2, <1>3, <2>1, <2>2, <2>3 DEF IsJoined
<1>5. /\ \A i \in DOMAIN fitting : i \in DOMAIN data /\ fitting[i] = data[i]
  OBVIOUS
<1>6. Elements(fitting) \subseteq Elements(data) /\ Increasing(fitting)
  BY <1>5 DEF Elements, Increasing
<1>7. Below(Elements(s), Elements(fitting))
  BY <1>3, <1>6 DEF Below
<1>8. /\ Elements(u) = Elements(s) \cup Elements(t)
      /\ Increasing(s) /\ Increasing(t) /\ Below(Elements(s), Elements(t)) => Increasing(u)
  BY ONLY <1>4, Joined
<1>9. QED
  BY <1>3, <1>t, <1>4, <1>6, <1>7, <1>8

LEMMA PopEndTakes ==
    ASSUME Sound, NEW h \in Host, InOrder(h), PopEnd(Partner[h])
    PROVE  InOrder(h)' /\ Under(h)' \subseteq Under(h)
<1>1. PICK p \in Host : p = Partner[h] /\ Partner[p] = h /\ p # h
  BY Partners
<1>2. PICK V \in Seq(Messages), W \in Seq(Messages), fitting \in Seq(Nat) :
        PopDoes(p, V, W, fitting)
  BY <1>1, PopEndDoes
<1>3. /\ V = wire[h] /\ V # <<>> /\ wire'[h] = Tail(V)
      /\ Head(V).command = "DATA" => rx' = [rx EXCEPT ![p] = Stored(p, fitting)]
      /\ Head(V).command # "DATA" => rx' = rx
      /\ Len(fitting) <= Free(p) /\ Len(fitting) <= Len(Head(V).data)
      /\ \A i \in 1 .. Len(fitting) : fitting[i] = Head(V).data[i]
  BY <1>1, <1>2 DEF PopDoes
<1>4. UNCHANGED <<tx, written, got>>
  BY DEF PopEnd
<1>5. PICK D \in Seq(Nat) : D = Head(V).data
  BY <1>3, TailCarried DEF Messages
<1>6. /\ Below(Elements(RxBytes(p)), Elements(D))
      /\ Increasing(RxBytes(p)) /\ Increasing(D)
  <2>1. 1 \in DOMAIN V /\ Head(V) = V[1]
    BY <1>3, TailCarried
  <2>2. Elements(D) \subseteq Carried(V) /\ Increasing(D)
    BY <1>3, <1>5, <2>1 DEF Carried, InOrder
  <2>3. Below(Elements(RxBytes(p)), Carried(V)) /\ Increasing(RxBytes(p))
    BY <1>1, <1>3 DEF InOrder, Placed
  <2>4. QED
    BY <2>2, <2>3 DEF Below
<1>7. PICK S \in SUBSET Elements(D) :
        /\ Elements(RxBytes(p))' = Elements(RxBytes(p)) \cup S
        /\ Increasing(RxBytes(p))'
  <2>1. CASE Head(V).command = "DATA"
    <3>1. rx'[p] = Stored(p, fitting) /\ rx[p] \in Ring
      BY <1>3, <2>1 DEF Sound, TypeOK
    <3>2. /\ Elements(fitting) \in SUBSET Elements(D)
          /\ Elements(RxBytes(p))' = Elements(RxBytes(p)) \cup Elements(fitting)
          /\ Increasing(RxBytes(p))'
      BY <1>3, <1>5, <1>6, <3>1, StoredOrder
    <3>3. QED
      BY <3>2
  <2>2. CASE Head(V).command # "DATA"
    <3>1. RxBytes(p)' = RxBytes(p)
      BY <1>3, <2>2 DEF RxBytes
    <3>2. {} \in SUBSET Elements(D)
      OBVIOUS
    <3>3. QED
      BY <1>6, <3>1, <3>2
  <2>3. QED
    BY <2>1, <2>2
<1>8. QED
  BY <1>1, <1>3, <1>4, <1>5, <1>7, TakeOrder

LEMMA PopEndAnswers ==
    ASSUME Sound, NEW h \in Host, InOrder(h), PopEnd(h)
    PROVE  InOrder(h)' /\ Under(h)' = Under(h)
<1>1. PICK p \in Host : p = Partner[h] /\ p # h
  BY Partners
<1>2. PICK V \in Seq(Messages), W \in Seq(Messages), fitting \in Seq(Nat) :
        PopDoes(h, V, W, fitting)
  BY PopEndDoes
<1>3. /\ wire'[h] = W
      /\ W = wire[h] \/ \E m \in Messages : m.data = <<>> /\ W = Append(wire[h], m)
      /\ \/ rx' = [rx EXCEPT ![h] = Stored(h, fitting)]
         \/ rx' = rx
  BY <1>2 DEF PopDoes, Answers
<1>4. UNCHANGED <<tx, written, got>>
  BY DEF PopEnd
<1>5. rx'[p] = rx[p]
  BY <1>1, <1>3 DEF Sound, TypeOK
<1>6. CASE W = wire[h]
  BY <1>1, <1>3, <1>4, <1>5, <1>6, Untouched
<1>7. CASE \E m \in Messages : m.data = <<>> /\ W = Append(wire[h], m)
  BY <1>1, <1>3, <1>4, <1>5, <1>7, PushOrder
<1>8. QED
  BY <1>3, <1>6, <1>7

-----------------------------------------------------------------------------
(* The line implements the channel.                                        *)

Ordered == \A h \in Host : InOrder(h)

\* What the channel sees.
LEMMA Seen == Transit = [h \in Host |-> Under(h)] /\ Transit' = [h \in Host |-> Under(h)']
<1>1. \A h \in Host : OnWire(h) = Carried(wire[h]) /\ OnWire(h)' = Carried(wire[h])'
  BY DEF OnWire, Carried
<1>2. QED
  BY <1>1 DEF Transit, Under

Received == [h \in Host |-> got[Partner[h]]]

LEMMA SeenStays ==
    ASSUME \A h \in Host : Under(h)' = Under(h), UNCHANGED <<written, got>>
    PROVE  UNCHANGED Channel!vars
<1>1. Transit' = Transit
  BY Seen
<1>2. QED
  BY <1>1 DEF Channel!vars

LEMMA SeenLost ==
    ASSUME NEW h \in Host, \A g \in Host \ {h} : Under(g)' = Under(g),
           Under(h)' \subseteq Under(h), UNCHANGED <<written, got>>
    PROVE  Channel!Next
<1>1. Transit' = [Transit EXCEPT ![h] = Transit'[h]] /\ Transit'[h] \subseteq Transit[h]
  BY Seen
<1>2. QED
  BY <1>1 DEF Channel!Next, Channel!Lose

LEMMA SeenWritten ==
    ASSUME Sound, NEW h \in Host, \A g \in Host \ {h} : Under(g)' = Under(g), UNCHANGED got,
           NEW n \in Nat, written' = [written EXCEPT ![h] = written[h] + n],
           Under(h)' = Under(h) \cup written[h] + 1 .. written[h] + n
    PROVE  Channel!Next \/ UNCHANGED Channel!vars
<1>1. PICK w \in Nat, v \in Nat : w = written[h] /\ v = w + n
  BY DEF Sound, TypeOK
<1>2. written' = [written EXCEPT ![h] = v] /\ written'[h] = v
  BY <1>1 DEF Sound, TypeOK
<1>3. PICK B : B = w + 1 .. v
  OBVIOUS
<1>4. Under(h)' = Under(h) \cup B
  BY <1>1, <1>3
<1>5. CASE n = 0
  <2>1. B = {}
    BY <1>1, <1>3, <1>5
  <2>2. written' = written
    BY <1>1, <1>2, <1>5 DEF Sound, TypeOK
  <2>3. \A g \in Host : Under(g)' = Under(g)
    BY <1>4, <2>1
  <2>4. QED
    BY <2>2, <2>3, SeenStays
<1>6. CASE n # 0
  <2>1. v > w
    BY <1>1, <1>6
  <2>2. Transit' = [Transit EXCEPT ![h] = @ \cup B]
    BY <1>4, Seen
  <2>3. Channel!Write(h, v)
    BY <1>1, <1>2, <1>3, <2>2 DEF Channel!Write
  <2>4. QED
    BY <1>1, <1>2, <2>1, <2>3 DEF Channel!Next
<1>7. QED
  BY <1>5, <1>6

LEMMA SeenRead ==
    ASSUME Sound, NEW h \in Host, \A g \in Host \ {h} : Under(g)' = Under(g), UNCHANGED written,
           NEW b \in Under(h), got' = [got EXCEPT ![Partner[h]] = b],
           Under(h)' = {c \in Under(h) : c > b}
    PROVE  Channel!Next
<1>1. PICK U : U = {c \in Under(h) : c > b}
  OBVIOUS
<1>2. Transit' = [Transit EXCEPT ![h] = U] /\ Transit[h] = Under(h)
  BY <1>1, Seen
<1>3. Transit' = [Transit EXCEPT ![h] = {c \in @ : c > b}]
  BY <1>1, <1>2
<1>4. Received' = [Received EXCEPT ![h] = b]
  <2>1. \A g \in Host : got'[Partner[g]] = IF g = h THEN b ELSE got[Partner[g]]
    BY Partners DEF Sound, TypeOK
  <2>2. QED
    BY <2>1 DEF Received
<1>5. Channel!Read(h, b)
  BY <1>3, <1>4 DEF Channel!Read, Received
<1>6. QED
  BY <1>2, <1>5 DEF Channel!Next

LEMMA NextImplements ==
    ASSUME Sound, Ordered, ~Overlap, [Next]_vars
    PROVE  Ordered' /\ (Channel!Next \/ UNCHANGED Channel!vars)
<1> DEFINE Kept(h) == InOrder(h)' /\ Under(h)' = Under(h)
<1>1. ASSUME UNCHANGED <<tx, rx, written, got, wire>>
      PROVE  Ordered' /\ UNCHANGED Channel!vars
  <2>1. \A h \in Host : Kept(h)
    BY <1>1, Untouched, Partners DEF Ordered
  <2>2. QED
    BY <1>1, <2>1, SeenStays DEF Ordered
<1>2. CASE UNCHANGED vars
  BY <1>1, <1>2 DEF vars
<1>3. ASSUME NEW a \in Host, Link(a) \/ (\E count \in 1..(Total[a] - written[a]) : WriteLook(a, count)) \/ PopLook(a)
      PROVE  Ordered' /\ UNCHANGED Channel!vars
  BY <1>1, <1>3 DEF Link, WriteLook, PopLook
<1>4. ASSUME NEW a \in Host, WriteStore(a)
      PROVE  Ordered' /\ (Channel!Next \/ UNCHANGED Channel!vars)
  <2>1. InOrder(a)' /\ \A g \in Host \ {a} : tx'[g] = tx[g] /\ written'[g] = written[g]
    BY <1>4, WriteStoreOrder DEF Ordered
  <2>2. PICK n \in Nat : /\ written' = [written EXCEPT ![a] = written[a] + n]
                         /\ Under(a)' = Under(a) \cup written[a] + 1 .. written[a] + n
    BY <1>4, WriteStoreOrder DEF Ordered
  <2>3. UNCHANGED <<rx, wire, got>>
    BY <1>4 DEF WriteStore
  <2>4. \A g \in Host \ {a} : Kept(g)
    BY <2>1, <2>3, Untouched DEF Ordered
  <2>5. QED
    BY <2>1, <2>2, <2>3, <2>4, SeenWritten DEF Ordered
<1>5. ASSUME NEW a \in Host, NEW count \in ReadCounts, Read(a, count)
      PROVE  Ordered' /\ Channel!Next
  <2>1. PICK h \in Host : a = Partner[h] /\ h = Partner[a]
    BY Partners
  <2>2. InOrder(h)' /\ \A g \in Host \ {a} : rx'[g] = rx[g]
    BY <1>5, <2>1, ReadOrder DEF Ordered
  <2>3. PICK b \in Under(h) : /\ got' = [got EXCEPT ![Partner[h]] = b]
                              /\ Under(h)' = {c \in Under(h) : c > b}
    BY <1>5, <2>1, ReadOrder DEF Ordered
  <2>4. UNCHANGED <<tx, wire, written>>
    BY <1>5 DEF Read
  <2>5. ASSUME NEW g \in Host \ {h} PROVE Kept(g)
    <3>1. Partner[g] \in Host /\ Partner[g] # a
      BY <2>1, Partners
    <3>2. got'[Partner[g]] = got[Partner[g]] /\ rx'[Partner[g]] = rx[Partner[g]]
      BY <2>1, <2>2, <2>3, <3>1 DEF Sound, TypeOK
    <3>3. QED
      BY <2>4, <3>2, Untouched DEF Ordered
  <2>6. QED
    BY <2>2, <2>3, <2>4, <2>5, SeenRead DEF Ordered
<1>6. ASSUME NEW a \in Host, Inject(a)
      PROVE  Ordered' /\ UNCHANGED Channel!vars
  <2>1. /\ Kept(a) /\ \A g \in Host \ {a} : wire'[g] = wire[g] /\ tx'[g] = tx[g]
        /\ UNCHANGED <<rx, written, got>>
    <3>1. CASE InjectRts(a)
      BY <3>1, InjectRtsOrder DEF Ordered, InjectRts
    <3>2. CASE InjectData(a)
      BY <3>2, InjectDataOrder DEF Ordered, InjectData
    <3>3. QED
      BY <1>6, <3>1, <3>2 DEF Inject
  <2>2. \A g \in Host \ {a} : Kept(g)
    BY <2>1, Untouched DEF Ordered
  <2>3. QED
    BY <2>1, <2>2, SeenStays DEF Ordered
<1>7. ASSUME NEW a \in Host, PopUnknown(a)
      PROVE  Ordered' /\ Channel!Next
  <2>1. PICK h \in Host : a = Partner[h] /\ h = Partner[a]
    BY Partners
  <2>2. InOrder(h)' /\ Under(h)' \subseteq Under(h) /\ \A g \in Host \ {h} : wire'[g] = wire[g]
    BY <1>7, <2>1, PopUnknownOrder DEF Ordered
  <2>3. UNCHANGED <<tx, rx, written, got>>
    BY <1>7 DEF PopUnknown
  <2>4. \A g \in Host \ {h} : Kept(g)
    BY <2>2, <2>3, Untouched DEF Ordered
  <2>5. QED
    BY <2>2, <2>3, <2>4, SeenLost DEF Ordered
<1>8. ASSUME NEW a \in Host, PopEnd(a)
      PROVE  Ordered' /\ Channel!Next
  <2>1. PICK h \in Host : a = Partner[h] /\ h = Partner[a] /\ h # a
    BY Partners
  <2>2. InOrder(h)' /\ Under(h)' \subseteq Under(h)
    BY <1>8, <2>1, PopEndTakes DEF Ordered
  <2>3. Kept(a)
    BY <1>8, PopEndAnswers DEF Ordered
  <2>4. UNCHANGED <<tx, written, got>>
    BY <1>8 DEF PopEnd
  <2>5. ASSUME NEW g \in Host \ {a, h} PROVE Kept(g)
    <3>1. PICK V \in Seq(Messages), W \in Seq(Messages), fitting \in Seq(Nat) :
            PopDoes(a, V, W, fitting)
      BY <1>8, PopEndDoes, SMTT(60)
    <3>2. wire'[g] = wire[g]
      BY <2>1, <3>1, ZenonT(60) DEF PopDoes
    <3>3. Partner[g] \in Host /\ Partner[g] # a
      BY <2>1, Partners
    <3>4. rx'[Partner[g]] = rx[Partner[g]]
      BY <3>1, <3>3 DEF PopDoes, Sound, TypeOK
    <3>5. QED
      BY <2>4, <3>2, <3>4, Untouched DEF Ordered
  <2>6. \A g \in Host : g = a \/ g = h \/ g \in Host \ {a, h}
    OBVIOUS
  <2>7. QED
    BY <2>2, <2>3, <2>4, <2>5, <2>6, SeenLost DEF Ordered
<1>9. QED
  BY <1>2, <1>3, <1>4, <1>5, <1>6, <1>7, <1>8 DEF Next, Program, Pop

LEMMA InitImplements == Init => Ordered /\ Channel!Init
<1> SUFFICES ASSUME Init PROVE Ordered /\ Channel!Init
  OBVIOUS
<1>1. ASSUME NEW h \in Host
      PROVE  /\ Under(h) = {} /\ InOrder(h)
  <2>1. PICK u : u = TxBytes(h) /\ DOMAIN u = 1 .. 0
    <3>1. DOMAIN TxBytes(h) = 1 .. tx[h].num_bytes_to_transmit
      BY InitIsSound, SentBytes DEF Sound
    <3>2. QED
      BY <3>1 DEF Init
  <2>2. PICK r : r = RxBytes(Partner[h]) /\ DOMAIN r = 1 .. 0
    <3>1. PICK p \in Host : p = Partner[h]
      BY Partners
    <3>2. rx[p] \in Ring
      BY InitIsSound DEF Sound, TypeOK
    <3>3. DOMAIN RxBytes(p) = 1 .. rx[p].num_received_bytes
      BY <3>2, RingBytes
    <3>4. rx[p].num_received_bytes = 0
      BY DEF Init
    <3>5. QED
      BY <3>1, <3>3, <3>4
  <2>3. PICK V : V = wire[h] /\ V = <<>>
    BY DEF Init
  <2>4. DOMAIN V = {} /\ Carried(V) = {}
    BY <2>3 DEF Carried
  <2>5. Elements(u) = {} /\ Elements(r) = {} /\ Increasing(u) /\ Increasing(r)
    BY <2>1, <2>2 DEF Elements, Increasing
  <2>6. Placed(0, {}, V, {}, 0)
    BY <2>4 DEF Placed, Below
  <2>7. got[Partner[h]] = 0 /\ written[h] = 0
    BY Partners DEF Init
  <2>8. QED
    BY <2>1, <2>2, <2>3, <2>4, <2>5, <2>6, <2>7 DEF InOrder, Under
<1>2. Transit = [h \in Host |-> {}]
  BY <1>1, Seen
<1>3. Received = [h \in Host |-> 0]
  BY Partners DEF Init, Received
<1>4. QED
  BY <1>1, <1>2, <1>3 DEF Ordered, Channel!Init, Received, Init

\* The bytes a program reads are those its partner has written, in order, none
\* twice and none made up, whatever the line loses, for any number of containers,
\* buffers of any size and any number of requests under way, when the simulator
\* does not empty a buffer between the two lock sections of a write.
THEOREM ImplementsChannel == ASSUME ~Overlap PROVE Spec => ChannelSpec
<1>1. Init => Sound /\ Ordered /\ Channel!Init
  BY InitIsSound, InitImplements
<1>2. Sound /\ Ordered /\ [Next]_vars => (Sound /\ Ordered)' /\ [Channel!Next]_(Channel!vars)
  BY NextIsSound, NextImplements
<1>3. QED
  BY <1>1, <1>2, PTL DEF Spec, ChannelSpec, Channel!Spec

-----------------------------------------------------------------------------
(* The leave to send.  V are the messages from a container to its partner, *)
(* W those the other way.                                                  *)

Has(V, command) == \E i \in DOMAIN V : V[i].command = command
NoneBefore(V, i, command) == \A j \in DOMAIN V : j < i => V[j].command # command
NoneBehind(V, i, command) == \A j \in DOMAIN V : j > i => V[j].command # command

\* Who has leave to send and still has a request under way sent no bytes since he
\* got it, and nobody has taken his leave back.
Granted(V, W) ==
    /\ \A i \in DOMAIN V : V[i].command = "RTS" => ~Has(W, "DNS") /\ NoneBefore(V, i, "DATA")
    /\ \A i \in DOMAIN W : W[i].command = "CTS" => NoneBefore(W, i, "DNS")

\* Who has no leave sends no bytes behind a request; an answer on its way to him
\* finds all of them stored and is not taken back.
Refused(V, W) ==
    /\ \A i \in DOMAIN V : V[i].command = "RTS" => NoneBehind(V, i, "DATA")
    /\ \A i \in DOMAIN W : W[i].command = "CTS" => ~Has(V, "DATA") /\ NoneBehind(W, i, "DNS")

\* A whole transmit buffer fits, and the partner knows.
Room(h) ==
    /\ Free(Partner[h]) >= TxSize
    /\ popping[Partner[h]] # <<>> => Head(popping[Partner[h]]) >= TxSize

Leave(h) ==
    /\ rts_mask[h] => Granted(wire[h], wire[Partner[h]]) /\ (Has(wire[h], "RTS") => Room(h))
    /\ ~rts_mask[h] => Refused(wire[h], wire[Partner[h]]) /\ (Has(wire[Partner[h]], "CTS") => Room(h))

LEMMA AppendHas ==
    ASSUME NEW V \in Seq(Messages), NEW m \in Messages, NEW command
    PROVE  Has(Append(V, m), command) <=> Has(V, command) \/ m.command = command
<1>1. PICK U : U = Append(V, m)
  OBVIOUS
<1>2. PICK n \in Nat : n = Len(V)
  OBVIOUS
<1>3. /\ DOMAIN U = 1 .. n + 1 /\ U[n + 1] = m /\ DOMAIN V = 1 .. n
      /\ \A k \in 1 .. n : U[k] = V[k]
  BY <1>1, <1>2, AppendCarried
<1>4. /\ \A k \in 1 .. n + 1 : k \in 1 .. n \/ k = n + 1
      /\ \A k \in 1 .. n : k \in 1 .. n + 1
      /\ n + 1 \in 1 .. n + 1
  OBVIOUS
<1>5. QED
  BY <1>1, <1>3, <1>4 DEF Has

IsTail(W, V, n) ==
    /\ DOMAIN V = 1 .. n + 1 /\ DOMAIN W = 1 .. n /\ Head(V) = V[1]
    /\ \A k \in 1 .. n : W[k] = V[k + 1]

LEMMA TailPlaces ==
    ASSUME NEW V \in Seq(Messages), V # <<>>
    PROVE  \E n \in Nat : IsTail(Tail(V), V, n)
<1>1. /\ Head(V) = V[1] /\ Len(V) \in Nat /\ Len(V) > 0 /\ Len(Tail(V)) = Len(V) - 1
      /\ DOMAIN V = 1 .. Len(V) /\ DOMAIN Tail(V) = 1 .. Len(Tail(V))
      /\ \A k \in 1 .. Len(V) - 1 : Tail(V)[k] = V[k + 1]
  BY SMTT(60)
<1>2. PICK W : W = Tail(V)
  OBVIOUS
<1>3. PICK n \in Nat : n = Len(V) - 1
  <2>1. \A k \in Nat : k > 0 => k - 1 \in Nat
    OBVIOUS
  <2>2. QED
    BY <1>1, <2>1
<1>4. IsTail(W, V, n)
  BY <1>1, <1>2, <1>3 DEF IsTail
<1>5. QED
  BY <1>2, <1>4

LEMMA TailHas ==
    ASSUME NEW V \in Seq(Messages), V # <<>>, NEW command
    PROVE  Has(V, command) <=> Head(V).command = command \/ Has(Tail(V), command)
<1>1. PICK W : W = Tail(V)
  OBVIOUS
<1>2. PICK n \in Nat : IsTail(W, V, n)
  BY <1>1, TailPlaces
<1>3. Has(V, command) <=> \E k \in 1 .. n + 1 : V[k].command = command
  BY <1>2 DEF Has, IsTail
<1>4. Has(W, command) <=> \E k \in 1 .. n : V[k + 1].command = command
  BY <1>2 DEF Has, IsTail
<1>5. ASSUME NEW k \in 1 .. n + 1, k # 1 PROVE \E l \in 1 .. n : k = l + 1
  <2>1. k - 1 \in 1 .. n /\ k = (k - 1) + 1
    BY <1>5
  <2>2. QED
    BY <2>1
<1>6. 1 \in 1 .. n + 1 /\ \A k \in 1 .. n : k + 1 \in 1 .. n + 1
  OBVIOUS
<1>7. Head(V) = V[1]
  BY <1>2 DEF IsTail
<1>8. QED
  BY <1>1, <1>3, <1>4, <1>5, <1>6, <1>7

\* What a message behind V does to the leave.
LEMMA GrantedAppend ==
    ASSUME NEW V \in Seq(Messages), NEW W, NEW m \in Messages, Granted(V, W), m.command # "RTS"
    PROVE  Granted(Append(V, m), W)
<1>1. PICK U : U = Append(V, m)
  OBVIOUS
<1>2. PICK n \in Nat : n = Len(V)
  OBVIOUS
<1>3. /\ DOMAIN U = 1 .. n + 1 /\ U[n + 1] = m /\ DOMAIN V = 1 .. n
      /\ \A k \in 1 .. n : U[k] = V[k]
  BY <1>1, <1>2, AppendCarried
<1>4. ASSUME NEW i \in DOMAIN U, U[i].command = "RTS"
      PROVE  ~Has(W, "DNS") /\ NoneBefore(U, i, "DATA")
  <2>1. i \in 1 .. n
    BY <1>3, <1>4
  <2>2. ~Has(W, "DNS") /\ NoneBefore(V, i, "DATA")
    BY <1>3, <1>4, <2>1 DEF Granted
  <2>3. \A j \in 1 .. n + 1 : j < i => j \in 1 .. n
    BY <2>1
  <2>4. QED
    BY <1>3, <2>2, <2>3 DEF NoneBefore
<1>5. QED
  BY <1>1, <1>4 DEF Granted

LEMMA RefusedAppend ==
    ASSUME NEW V \in Seq(Messages), NEW W, NEW m \in Messages, Refused(V, W), m.command # "DATA"
    PROVE  Refused(Append(V, m), W)
<1>1. PICK U : U = Append(V, m)
  OBVIOUS
<1>2. PICK n \in Nat : n = Len(V)
  OBVIOUS
<1>3. /\ DOMAIN U = 1 .. n + 1 /\ U[n + 1] = m /\ DOMAIN V = 1 .. n
      /\ \A k \in 1 .. n : U[k] = V[k]
  BY <1>1, <1>2, AppendCarried
<1>4. ASSUME NEW i \in DOMAIN U, U[i].command = "RTS" PROVE NoneBehind(U, i, "DATA")
  <2>1. ASSUME NEW j \in 1 .. n + 1, j > i PROVE U[j].command # "DATA"
    <3>1. CASE j = n + 1
      BY <1>3, <3>1
    <3>2. CASE j # n + 1
      <4>1. i \in 1 .. n /\ j \in 1 .. n
        BY <1>3, <2>1, <3>2
      <4>2. QED
        BY <1>3, <1>4, <2>1, <4>1 DEF Refused, NoneBehind
    <3>3. QED
      BY <3>1, <3>2
  <2>2. QED
    BY <1>3, <2>1 DEF NoneBehind
<1>5. Has(U, "DATA") => Has(V, "DATA")
  BY <1>1, AppendHas
<1>6. QED
  BY <1>1, <1>4, <1>5 DEF Refused

\* What a message behind W does: a request or bytes nothing, leave and its refusal
\* what they must not.
LEMMA GrantedAnswer ==
    ASSUME NEW V, NEW W \in Seq(Messages), NEW m \in Messages, Granted(V, W),
           m.command = "CTS" => ~Has(W, "DNS"), m.command = "DNS" => ~Has(V, "RTS")
    PROVE  Granted(V, Append(W, m))
<1>1. PICK U : U = Append(W, m)
  OBVIOUS
<1>2. PICK n \in Nat : n = Len(W)
  OBVIOUS
<1>3. /\ DOMAIN U = 1 .. n + 1 /\ U[n + 1] = m /\ DOMAIN W = 1 .. n
      /\ \A k \in 1 .. n : U[k] = W[k]
  BY <1>1, <1>2, AppendCarried
<1>4. ASSUME NEW i \in DOMAIN U, U[i].command = "CTS" PROVE NoneBefore(U, i, "DNS")
  <2>1. ASSUME NEW j \in 1 .. n + 1, j < i PROVE U[j].command # "DNS"
    <3>1. j \in 1 .. n /\ U[j] = W[j]
      BY <1>3, <2>1
    <3>2. CASE i = n + 1
      BY <1>3, <1>4, <3>1, <3>2 DEF Has
    <3>3. CASE i # n + 1
      <4>1. i \in 1 .. n
        BY <1>3, <3>3
      <4>2. QED
        BY <1>3, <1>4, <2>1, <3>1, <4>1 DEF Granted, NoneBefore
    <3>4. QED
      BY <3>2, <3>3
  <2>2. QED
    BY <1>3, <2>1 DEF NoneBefore
<1>5. Has(U, "DNS") => Has(W, "DNS") \/ m.command = "DNS"
  BY <1>1, AppendHas
<1>6. \A i \in DOMAIN V : V[i].command = "RTS" => Has(V, "RTS")
  BY DEF Has
<1>7. QED
  BY <1>1, <1>4, <1>5, <1>6 DEF Granted

LEMMA RefusedAnswer ==
    ASSUME NEW V, NEW W \in Seq(Messages), NEW m \in Messages, Refused(V, W),
           m.command = "CTS" => ~Has(V, "DATA"), m.command = "DNS" => ~Has(W, "CTS")
    PROVE  Refused(V, Append(W, m))
<1>1. PICK U : U = Append(W, m)
  OBVIOUS
<1>2. PICK n \in Nat : n = Len(W)
  OBVIOUS
<1>3. /\ DOMAIN U = 1 .. n + 1 /\ U[n + 1] = m /\ DOMAIN W = 1 .. n
      /\ \A k \in 1 .. n : U[k] = W[k]
  BY <1>1, <1>2, AppendCarried
<1>4. ASSUME NEW i \in DOMAIN U, U[i].command = "CTS"
      PROVE  ~Has(V, "DATA") /\ NoneBehind(U, i, "DNS")
  <2>1. CASE i = n + 1
    <3>1. \A j \in 1 .. n + 1 : ~(j > n + 1)
      OBVIOUS
    <3>2. QED
      BY <1>3, <1>4, <2>1, <3>1 DEF NoneBehind
  <2>2. CASE i # n + 1
    <3>1. i \in 1 .. n
      BY <1>3, <2>2
    <3>2. W[i].command = "CTS" /\ ~Has(V, "DATA") /\ NoneBehind(W, i, "DNS")
      BY <1>3, <1>4, <3>1 DEF Refused
    <3>3. m.command # "DNS"
      BY <1>3, <3>1, <3>2 DEF Has
    <3>4. \A j \in 1 .. n + 1 : j \in 1 .. n \/ j = n + 1
      OBVIOUS
    <3>5. QED
      BY <1>3, <3>2, <3>3, <3>4 DEF NoneBehind
  <2>3. QED
    BY <2>1, <2>2
<1>5. QED
  BY <1>1, <1>4 DEF Refused

\* What a message that leaves a wire does.
LEMMA GrantedTail ==
    ASSUME NEW V \in Seq(Messages), V # <<>>, NEW W, Granted(V, W)
    PROVE  /\ Granted(Tail(V), W)
           /\ Head(V).command = "RTS" => ~Has(W, "DNS")
           /\ Head(V).command = "DATA" => ~Has(Tail(V), "RTS")
<1>1. PICK U : U = Tail(V)
  OBVIOUS
<1>2. PICK n \in Nat : IsTail(U, V, n)
  BY <1>1, TailPlaces
<1>3. ASSUME NEW i \in 1 .. n, U[i].command = "RTS"
      PROVE  ~Has(W, "DNS") /\ NoneBefore(U, i, "DATA") /\ V[1].command # "DATA"
  <2>1. i + 1 \in 1 .. n + 1 /\ V[i + 1].command = "RTS"
    BY <1>2, <1>3 DEF IsTail
  <2>2. PICK k \in 1 .. n + 1 : k = i + 1
    BY <2>1
  <2>3. ~Has(W, "DNS") /\ NoneBefore(V, k, "DATA")
    BY <1>2, <2>1, <2>2 DEF Granted, IsTail
  <2>4. \A j \in 1 .. n + 1 : j < k => V[j].command # "DATA"
    BY <1>2, <2>3 DEF NoneBefore, IsTail
  <2>5. V[1].command # "DATA"
    BY <2>2, <2>4
  <2>6. ASSUME NEW j \in 1 .. n, j < i PROVE U[j].command # "DATA"
    <3>1. PICK l \in 1 .. n + 1 : l = j + 1 /\ l < k
      BY <2>2, <2>6
    <3>2. U[j] = V[l]
      BY <1>2, <3>1 DEF IsTail
    <3>3. QED
      BY <2>4, <3>1, <3>2
  <2>7. NoneBefore(U, i, "DATA")
    BY <1>2, <2>6 DEF NoneBefore, IsTail
  <2>8. QED
    BY <2>3, <2>5, <2>7
<1>4. DOMAIN U = 1 .. n /\ Head(V) = V[1] /\ 1 \in DOMAIN V
  BY <1>2 DEF IsTail
<1>5. Granted(U, W)
  BY <1>3, <1>4 DEF Granted
<1>6. Head(V).command = "DATA" => ~Has(U, "RTS")
  BY <1>3, <1>4 DEF Has
<1>7. Head(V).command = "RTS" => ~Has(W, "DNS")
  BY <1>4 DEF Granted
<1>8. QED
  BY <1>1, <1>5, <1>6, <1>7

LEMMA RefusedTail ==
    ASSUME NEW V \in Seq(Messages), V # <<>>, NEW W, Refused(V, W)
    PROVE  /\ Refused(Tail(V), W)
           /\ Head(V).command = "RTS" => ~Has(Tail(V), "DATA")
           /\ Head(V).command = "DATA" => ~Has(W, "CTS")
<1>1. PICK U : U = Tail(V)
  OBVIOUS
<1>2. PICK n \in Nat : IsTail(U, V, n)
  BY <1>1, TailPlaces
<1>3. DOMAIN U = 1 .. n /\ DOMAIN V = 1 .. n + 1 /\ Head(V) = V[1] /\ 1 \in DOMAIN V
  BY <1>2 DEF IsTail
<1>4. ASSUME NEW i \in 1 .. n, U[i].command = "RTS" PROVE NoneBehind(U, i, "DATA")
  <2>1. PICK k \in 1 .. n + 1 : k = i + 1 /\ V[k].command = "RTS"
    BY <1>2, <1>4 DEF IsTail
  <2>2. NoneBehind(V, k, "DATA")
    BY <1>3, <2>1 DEF Refused
  <2>3. ASSUME NEW j \in 1 .. n, j > i PROVE U[j].command # "DATA"
    <3>1. PICK l \in 1 .. n + 1 : l = j + 1 /\ l > k
      BY <2>1, <2>3
    <3>2. U[j] = V[l]
      BY <1>2, <3>1 DEF IsTail
    <3>3. QED
      BY <1>3, <2>2, <3>1, <3>2 DEF NoneBehind
  <2>4. QED
    BY <1>3, <2>3 DEF NoneBehind
<1>5. Has(U, "DATA") => Has(V, "DATA")
  BY <1>1, TailHas
<1>6. Refused(U, W)
  BY <1>3, <1>4, <1>5 DEF Refused
<1>7. Head(V).command = "RTS" => ~Has(U, "DATA")
  <2>1. ASSUME Head(V).command = "RTS", NEW i \in 1 .. n PROVE U[i].command # "DATA"
    <3>1. PICK k \in 1 .. n + 1 : k = i + 1 /\ k > 1 /\ U[i] = V[k]
      BY <1>2 DEF IsTail
    <3>2. NoneBehind(V, 1, "DATA")
      BY <1>3, <2>1 DEF Refused
    <3>3. QED
      BY <1>3, <3>1, <3>2 DEF NoneBehind
  <2>2. QED
    BY <1>3, <2>1 DEF Has
<1>8. Head(V).command = "DATA" => ~Has(W, "CTS")
  BY <1>3 DEF Refused, Has
<1>9. QED
  BY <1>1, <1>6, <1>7, <1>8

\* What an answer that arrives does: leave is given, or taken back.
LEMMA GrantedHeard ==
    ASSUME NEW V, NEW W \in Seq(Messages), W # <<>>, Granted(V, W)
    PROVE  /\ Granted(V, Tail(W))
           /\ Head(W).command = "DNS" => Refused(V, Tail(W)) /\ ~Has(Tail(W), "CTS")
<1>1. PICK U : U = Tail(W)
  OBVIOUS
<1>2. PICK n \in Nat : IsTail(U, W, n)
  BY <1>1, TailPlaces
<1>3. DOMAIN U = 1 .. n /\ DOMAIN W = 1 .. n + 1 /\ Head(W) = W[1] /\ 1 \in DOMAIN W
  BY <1>2 DEF IsTail
<1>4. ASSUME NEW i \in 1 .. n, U[i].command = "CTS"
      PROVE  NoneBefore(U, i, "DNS") /\ W[1].command # "DNS"
  <2>1. PICK k \in 1 .. n + 1 : k = i + 1 /\ W[k].command = "CTS"
    BY <1>2, <1>4 DEF IsTail
  <2>2. NoneBefore(W, k, "DNS")
    BY <1>3, <2>1 DEF Granted
  <2>3. ASSUME NEW j \in 1 .. n, j < i PROVE U[j].command # "DNS"
    <3>1. PICK l \in 1 .. n + 1 : l = j + 1 /\ l < k
      BY <2>1, <2>3
    <3>2. U[j] = W[l]
      BY <1>2, <3>1 DEF IsTail
    <3>3. QED
      BY <1>3, <2>2, <3>1, <3>2 DEF NoneBefore
  <2>4. NoneBefore(U, i, "DNS")
    BY <1>3, <2>3 DEF NoneBefore
  <2>5. 1 < k
    BY <2>1
  <2>6. QED
    BY <1>3, <2>2, <2>4, <2>5 DEF NoneBefore
<1>5. Has(U, "DNS") => Has(W, "DNS")
  BY <1>1, TailHas
<1>6. Granted(V, U)
  BY <1>3, <1>4, <1>5 DEF Granted
<1>7. ASSUME Head(W).command = "DNS" PROVE Refused(V, U) /\ ~Has(U, "CTS")
  <2>1. ~Has(U, "CTS")
    BY <1>3, <1>4, <1>7 DEF Has
  <2>2. Has(W, "DNS")
    BY <1>3, <1>7 DEF Has
  <2>3. \A i \in DOMAIN V : V[i].command # "RTS"
    BY <2>2 DEF Granted
  <2>4. QED
    BY <2>1, <2>3 DEF Refused, Has
<1>8. QED
  BY <1>1, <1>6, <1>7

LEMMA RefusedHeard ==
    ASSUME NEW V, NEW W \in Seq(Messages), W # <<>>, Refused(V, W)
    PROVE  /\ Refused(V, Tail(W))
           /\ Head(W).command = "CTS" => Granted(V, Tail(W))
<1>1. PICK U : U = Tail(W)
  OBVIOUS
<1>2. PICK n \in Nat : IsTail(U, W, n)
  BY <1>1, TailPlaces
<1>3. DOMAIN U = 1 .. n /\ DOMAIN W = 1 .. n + 1 /\ Head(W) = W[1] /\ 1 \in DOMAIN W
  BY <1>2 DEF IsTail
<1>4. ASSUME NEW i \in 1 .. n, U[i].command = "CTS"
      PROVE  ~Has(V, "DATA") /\ NoneBehind(U, i, "DNS")
  <2>1. PICK k \in 1 .. n + 1 : k = i + 1 /\ W[k].command = "CTS"
    BY <1>2, <1>4 DEF IsTail
  <2>2. ~Has(V, "DATA") /\ NoneBehind(W, k, "DNS")
    BY <1>3, <2>1 DEF Refused
  <2>3. ASSUME NEW j \in 1 .. n, j > i PROVE U[j].command # "DNS"
    <3>1. PICK l \in 1 .. n + 1 : l = j + 1 /\ l > k
      BY <2>1, <2>3
    <3>2. U[j] = W[l]
      BY <1>2, <3>1 DEF IsTail
    <3>3. QED
      BY <1>3, <2>2, <3>1, <3>2 DEF NoneBehind
  <2>4. QED
    BY <1>3, <2>2, <2>3 DEF NoneBehind
<1>5. Refused(V, U)
  BY <1>3, <1>4 DEF Refused
<1>6. ASSUME Head(W).command = "CTS" PROVE Granted(V, U)
  <2>1. ~Has(V, "DATA") /\ NoneBehind(W, 1, "DNS")
    BY <1>3, <1>6 DEF Refused
  <2>2. ASSUME NEW j \in 1 .. n PROVE U[j].command # "DNS"
    <3>1. PICK l \in 1 .. n + 1 : l = j + 1 /\ l > 1 /\ U[j] = W[l]
      BY <1>2 DEF IsTail
    <3>2. QED
      BY <1>3, <2>1, <3>1 DEF NoneBehind
  <2>3. QED
    BY <1>3, <2>1, <2>2 DEF Granted, Has, NoneBefore
<1>7. QED
  BY <1>1, <1>5, <1>6

\* Steps that change none, or one, of the things the leave of h is about.
LEMMA LeaveStays ==
    ASSUME NEW h \in Host, Leave(h), Room(h) => Room(h)', rts_mask'[h] = rts_mask[h],
           wire'[h] = wire[h], wire'[Partner[h]] = wire[Partner[h]]
    PROVE  Leave(h)'
BY DEF Leave

LEMMA LeaveSends ==
    ASSUME NEW h \in Host, Sound, Leave(h), Room(h) => Room(h)', rts_mask'[h] = rts_mask[h],
           NEW m \in Messages, wire'[h] = Append(wire[h], m),
           wire'[Partner[h]] = wire[Partner[h]],
           IF rts_mask[h] THEN m.command # "RTS" ELSE m.command # "DATA"
    PROVE  Leave(h)'
<1>1. PICK V \in Seq(Messages), W \in Seq(Messages) : V = wire[h] /\ W = wire[Partner[h]]
  BY Partners DEF Sound, TypeOK
<1>2. PICK U : U = Append(V, m)
  OBVIOUS
<1>3. wire'[h] = U /\ wire'[Partner[h]] = W
  BY <1>1, <1>2
<1>4. CASE rts_mask[h]
  <2>1. Granted(V, W) /\ (Has(V, "RTS") => Room(h))
    BY <1>1, <1>4 DEF Leave
  <2>2. Granted(U, W)
    BY <1>2, <1>4, <2>1, GrantedAppend
  <2>3. Has(U, "RTS") => Has(V, "RTS")
    BY <1>2, <1>4, AppendHas
  <2>4. QED
    BY <1>3, <1>4, <2>1, <2>2, <2>3 DEF Leave
<1>5. CASE ~rts_mask[h]
  <2>1. Refused(V, W) /\ (Has(W, "CTS") => Room(h))
    BY <1>1, <1>5 DEF Leave
  <2>2. Refused(U, W)
    BY <1>2, <1>5, <2>1, RefusedAppend
  <2>3. QED
    BY <1>3, <1>5, <2>1, <2>2 DEF Leave
<1>6. QED
  BY <1>4, <1>5

LEMMA LeaveSees ==
    ASSUME NEW h \in Host, Sound, Leave(h), Room(h) => Room(h)', rts_mask'[h] = rts_mask[h],
           NEW m \in Messages, wire'[Partner[h]] = Append(wire[Partner[h]], m),
           wire'[h] = wire[h], m.command # "CTS", m.command # "DNS"
    PROVE  Leave(h)'
<1>1. PICK V \in Seq(Messages), W \in Seq(Messages) : V = wire[h] /\ W = wire[Partner[h]]
  BY Partners DEF Sound, TypeOK
<1>2. PICK U : U = Append(W, m)
  OBVIOUS
<1>3. wire'[Partner[h]] = U /\ wire'[h] = V
  BY <1>1, <1>2
<1>4. CASE rts_mask[h]
  <2>1. Granted(V, W) /\ (Has(V, "RTS") => Room(h))
    BY <1>1, <1>4 DEF Leave
  <2>2. Granted(V, U)
    BY <1>2, <2>1, GrantedAnswer
  <2>3. QED
    BY <1>3, <1>4, <2>1, <2>2 DEF Leave
<1>5. CASE ~rts_mask[h]
  <2>1. Refused(V, W) /\ (Has(W, "CTS") => Room(h))
    BY <1>1, <1>5 DEF Leave
  <2>2. Refused(V, U)
    BY <1>2, <2>1, RefusedAnswer
  <2>3. Has(U, "CTS") => Has(W, "CTS")
    BY <1>2, AppendHas
  <2>4. QED
    BY <1>3, <1>5, <2>1, <2>2, <2>3 DEF Leave
<1>6. QED
  BY <1>4, <1>5

LEMMA InjectLeave ==
    ASSUME Sound, NEW a \in Host, Inject(a), NEW h \in Host, Leave(h)
    PROVE  Leave(h)'
<1>1. PICK m \in Messages : /\ wire' = [wire EXCEPT ![a] = Append(@, m)]
                            /\ m.command # "CTS" /\ m.command # "DNS"
                            /\ IF rts_mask[a] THEN m.command # "RTS" ELSE m.command # "DATA"
  <2>1. CASE InjectRts(a)
    <3>1. PICK m \in Messages : m = Message("RTS", <<>>)
      <4>1. <<>> \in Seq(Nat) /\ "RTS" \in Commands
        BY DEF Commands
      <4>2. QED
        BY <4>1 DEF Message, Messages
    <3>2. m.command = "RTS"
      BY <3>1 DEF Message
    <3>3. wire' = [wire EXCEPT ![a] = Append(@, m)] /\ ~rts_mask[a]
      BY <2>1, <3>1 DEF InjectRts, Push
    <3>4. QED
      BY <3>2, <3>3
  <2>2. CASE InjectData(a)
    <3>1. PICK t \in Seq(Nat) : t = TxBytes(a)
      BY SentBytes DEF Sound
    <3>2. PICK m \in Messages : m = Message("DATA", t)
      <4>1. "DATA" \in Commands
        BY DEF Commands
      <4>2. QED
        BY <4>1 DEF Message, Messages
    <3>3. m.command = "DATA"
      BY <3>2 DEF Message
    <3>4. wire' = [wire EXCEPT ![a] = Append(@, m)] /\ rts_mask[a]
      BY <2>2, <3>1, <3>2 DEF InjectData, Push
    <3>5. QED
      BY <3>3, <3>4
  <2>3. QED
    BY <2>1, <2>2 DEF Inject
<1>2. UNCHANGED <<rts_mask, rx, popping>>
  BY DEF Inject, InjectRts, InjectData
<1>3. Room(h) => Room(h)'
  BY <1>2 DEF Room, Free
<1>4. wire'[a] = Append(wire[a], m) /\ \A g \in Host \ {a} : wire'[g] = wire[g]
  BY <1>1 DEF Sound, TypeOK
<1>5. CASE h = a
  BY <1>1, <1>2, <1>3, <1>4, <1>5, LeaveSends, Partners
<1>6. CASE h # a /\ Partner[h] = a
  BY <1>1, <1>2, <1>3, <1>4, <1>6, LeaveSees, Partners
<1>7. CASE h # a /\ Partner[h] # a
  BY <1>2, <1>3, <1>4, <1>7, LeaveStays, Partners
<1>8. QED
  BY <1>5, <1>6, <1>7

LEMMA PopUnknownLeave ==
    ASSUME Sound, NEW a \in Host, PopUnknown(a), NEW h \in Host, Leave(h)
    PROVE  Leave(h)'
<1>1. PICK p \in Host : p = Partner[a] /\ a = Partner[p] /\ a # p
  BY Partners
<1>2. /\ wire[p] # <<>> /\ wire' = [wire EXCEPT ![p] = Tail(@)]
      /\ UNCHANGED <<rts_mask, rx, popping>>
  BY <1>1 DEF PopUnknown
<1>3. Room(h) => Room(h)'
  BY <1>2 DEF Room, Free
<1>4. PICK V \in Seq(Messages), W \in Seq(Messages) : V = wire[p] /\ W = wire[a]
  BY DEF Sound, TypeOK
<1>5. PICK U : U = Tail(V)
  OBVIOUS
<1>6. wire'[p] = U /\ \A g \in Host \ {p} : wire'[g] = wire[g]
  BY <1>2, <1>4, <1>5 DEF Sound, TypeOK
<1>7. \A command : Has(U, command) => Has(V, command)
  BY <1>2, <1>4, <1>5, TailHas
<1>8. CASE h = p
  <2>1. wire'[h] = U /\ wire'[Partner[h]] = W /\ V = wire[h] /\ W = wire[Partner[h]]
    BY <1>1, <1>4, <1>6, <1>8
  <2>2. Granted(V, W) => Granted(U, W)
    BY <1>2, <1>4, <1>5, GrantedTail
  <2>3. Refused(V, W) => Refused(U, W)
    BY <1>2, <1>4, <1>5, RefusedTail
  <2>4. QED
    BY <1>2, <1>3, <1>7, <2>1, <2>2, <2>3 DEF Leave
<1>9. CASE h = a
  <2>1. wire'[h] = W /\ wire'[Partner[h]] = U /\ W = wire[h] /\ V = wire[Partner[h]]
    BY <1>1, <1>4, <1>6, <1>9
  <2>2. Granted(W, V) => Granted(W, U)
    BY <1>2, <1>4, <1>5, GrantedHeard
  <2>3. Refused(W, V) => Refused(W, U)
    BY <1>2, <1>4, <1>5, RefusedHeard
  <2>4. QED
    BY <1>2, <1>3, <1>7, <2>1, <2>2, <2>3 DEF Leave
<1>10. CASE h # p /\ h # a
  <2>1. Partner[h] \in Host /\ Partner[h] # p
    BY <1>1, <1>10, Partners
  <2>2. QED
    BY <1>2, <1>3, <1>6, <1>10, <2>1, LeaveStays
<1>11. QED
  BY <1>8, <1>9, <1>10

LEMMA OthersLeave ==
    ASSUME Sound, Sound', NEW h \in Host, Leave(h), UNCHANGED <<wire, rts_mask>>,
           Free(Partner[h])' >= Free(Partner[h]),
           \/ popping'[Partner[h]] = popping[Partner[h]]
           \/ popping'[Partner[h]] = <<Free(Partner[h])>>
    PROVE  Leave(h)'
<1>1. PICK p \in Host : p = Partner[h]
  BY Partners
<1>2. Free(p) \in Nat /\ Free(p)' \in Nat /\ TxSize \in Nat
  <2>1. \A r \in Ring : RxSize - r.num_received_bytes \in Nat
    BY LineAssumption DEF Ring
  <2>2. rx[p] \in Ring /\ rx'[p] \in Ring
    BY DEF Sound, TypeOK
  <2>3. QED
    BY <2>1, <2>2, LineAssumption DEF Free
<1>3. \A n \in Nat : Head(<<n>>) = n
  OBVIOUS
<1>4. Room(h) => Room(h)'
  BY <1>1, <1>2, <1>3 DEF Room
<1>5. QED
  BY <1>4, LeaveStays

LEMMA ReadLeave ==
    ASSUME Sound, NEW a \in Host, NEW count \in ReadCounts, Read(a, count), NEW h \in Host, Leave(h)
    PROVE  Leave(h)'
<1>1. PICK p \in Host : p = Partner[h]
  BY Partners
<1>2. UNCHANGED <<wire, rts_mask, popping>>
  BY DEF Read
<1>3. Sound'
  BY ReadSound
<1>4. PICK n \in 1 .. rx[a].num_received_bytes : rx' = [rx EXCEPT ![a] = Popped(a, n)]
  BY ReadTakes
<1>5. rx[a] \in Ring /\ rx'[a] = Popped(a, n) /\ \A g \in Host \ {a} : rx'[g] = rx[g]
  BY <1>4 DEF Sound, TypeOK
<1>6. rx'[a].num_received_bytes = rx[a].num_received_bytes - n
  BY <1>5, PoppedBytes
<1>7. rx[p].num_received_bytes \in Nat /\ RxSize \in Nat
  <2>1. rx[p] \in Ring /\ RxSize \in Nat
    BY LineAssumption DEF Sound, TypeOK
  <2>2. QED
    BY <2>1 DEF Ring
<1>8. Free(p)' >= Free(p)
  <2>1. CASE p = a
    BY <1>6, <1>7, <2>1 DEF Free
  <2>2. CASE p # a
    BY <1>5, <1>7, <2>2 DEF Free
  <2>3. QED
    BY <2>1, <2>2
<1>9. QED
  BY <1>1, <1>2, <1>3, <1>8, OthersLeave

\* The end of pop for the container the message came from.
LEMMA PopEndTakesLeave ==
    ASSUME Sound, NEW h \in Host, PopEnd(Partner[h]), Leave(h)
    PROVE  Leave(h)'
<1>1. PICK a \in Host : a = Partner[h] /\ h = Partner[a] /\ a # h
  BY Partners
<1>2. PICK V \in Seq(Messages), X \in Seq(Messages), fitting \in Seq(Nat) :
        PopDoes(a, V, X, fitting)
  BY <1>1, PopEndDoes
<1>3. PICK W \in Seq(Messages) : W = wire[a]
  BY DEF Sound, TypeOK
<1>4. PICK U : U = Tail(V)
  OBVIOUS
<1>5. PICK c : c = Head(V).command
  OBVIOUS
<1>6. PICK space \in Nat : space = Head(popping[a]) /\ space <= Free(a)
  <2>1. PICK q \in Seq(Nat) : q = popping[a] /\ q # <<>>
    BY <1>1 DEF PopEnd, Sound, TypeOK
  <2>2. Head(q) \in Nat
    BY <2>1
  <2>3. Head(popping[a]) <= Free(a)
    BY <2>1, SMTT(60) DEF Sound, SpaceStays
  <2>4. QED
    BY <2>1, <2>2, <2>3
<1>7. /\ V = wire[h] /\ V # <<>> /\ wire'[h] = U /\ wire'[a] = X
      /\ \/ X = W /\ (c = "RTS" => space < TxSize)
         \/ \E m \in Messages : Answers(m, c, space) /\ X = Append(W, m)
      /\ c # "DATA" => rx' = rx
  BY <1>1, <1>2, <1>3, <1>4, <1>5, <1>6, ZenonT(60) DEF PopDoes
<1>8. rts_mask'[h] = rts_mask[h] /\ popping'[a] = <<>> /\ popping[a] # <<>>
  BY <1>1 DEF PopEnd, Sound, TypeOK
<1>9. TxSize \in Nat /\ Free(a) \in Nat
  <2>1. rx[a] \in Ring /\ RxSize \in Nat
    BY LineAssumption DEF Sound, TypeOK
  <2>2. QED
    BY <2>1, LineAssumption DEF Ring, Free
<1>10. /\ Room(h) => space >= TxSize /\ Free(a) >= TxSize
       /\ c # "DATA" /\ Free(a) >= TxSize => Room(h)'
  BY <1>1, <1>6, <1>7, <1>8 DEF Room, Free
<1>11. Has(U, "RTS") => Has(V, "RTS")
  BY <1>4, <1>7, TailHas
<1>12. CASE rts_mask[h]
  <2>1. Granted(V, W) /\ (Has(V, "RTS") => Room(h))
    BY <1>1, <1>3, <1>7, <1>12 DEF Leave
  <2>2. /\ Granted(U, W) /\ (c = "RTS" => ~Has(W, "DNS"))
        /\ c = "DATA" => ~Has(U, "RTS")
    BY <1>4, <1>5, <1>7, <2>1, GrantedTail
  <2>3. Granted(U, X)
    <3>1. ASSUME NEW m \in Messages, Answers(m, c, space), X = Append(W, m) PROVE Granted(U, X)
      <4>1. m.command = "CTS" => ~Has(W, "DNS")
        BY <2>2, <3>1 DEF Answers
      <4>2. m.command = "DNS" => ~Has(U, "RTS")
        BY <1>9, <1>10, <1>11, <2>1, <3>1 DEF Answers
      <4>3. QED
        BY <2>2, <3>1, <4>1, <4>2, GrantedAnswer
    <3>2. QED
      BY <1>7, <2>2, <3>1
  <2>4. Has(U, "RTS") => Room(h)'
    BY <1>10, <1>11, <2>1, <2>2
  <2>5. QED
    BY <1>1, <1>7, <1>8, <1>12, <2>3, <2>4 DEF Leave
<1>13. CASE ~rts_mask[h]
  <2>1. Refused(V, W) /\ (Has(W, "CTS") => Room(h))
    BY <1>1, <1>3, <1>7, <1>13 DEF Leave
  <2>2. /\ Refused(U, W) /\ (c = "RTS" => ~Has(U, "DATA"))
        /\ c = "DATA" => ~Has(W, "CTS")
    BY <1>4, <1>5, <1>7, <2>1, RefusedTail
  <2>3. Refused(U, X) /\ (Has(X, "CTS") => Room(h)')
    <3>1. ASSUME NEW m \in Messages, Answers(m, c, space), X = Append(W, m)
          PROVE  Refused(U, X) /\ (Has(X, "CTS") => Room(h)')
      <4>1. m.command = "CTS" => ~Has(U, "DATA") /\ space >= TxSize /\ c = "RTS"
        BY <2>2, <3>1 DEF Answers
      <4>2. m.command = "DNS" => ~Has(W, "CTS")
        BY <1>9, <1>10, <2>1, <3>1 DEF Answers
      <4>3. Refused(U, X)
        BY <2>2, <3>1, <4>1, <4>2, RefusedAnswer
      <4>4. Has(X, "CTS") => Has(W, "CTS") \/ m.command = "CTS"
        BY <3>1, AppendHas
      <4>5. Has(W, "CTS") => Room(h)'
        BY <1>10, <2>1, <2>2
      <4>6. m.command = "CTS" => Room(h)'
        <5>1. space >= TxSize => Free(a) >= TxSize
          BY <1>6, <1>9
        <5>2. QED
          BY <1>10, <4>1, <5>1
      <4>7. QED
        BY <4>3, <4>4, <4>5, <4>6
    <3>2. CASE X = W
      BY <1>10, <2>1, <2>2, <3>2
    <3>3. QED
      BY <1>7, <3>1, <3>2
  <2>4. QED
    BY <1>1, <1>7, <1>8, <1>13, <2>3 DEF Leave
<1>14. QED
  BY <1>12, <1>13

\* The end of pop for the container the message was for.
LEMMA PopEndHearsLeave ==
    ASSUME Sound, NEW h \in Host, PopEnd(h), Leave(h)
    PROVE  Leave(h)' /\ (~rts_mask[h] /\ rts_mask'[h] => Room(h)')
<1>1. PICK p \in Host : p = Partner[h] /\ p # h
  BY Partners
<1>2. PICK X \in Seq(Messages), W \in Seq(Messages), fitting \in Seq(Nat) :
        PopDoes(h, X, W, fitting)
  BY PopEndDoes
<1>3. PICK V \in Seq(Messages) : V = wire[h]
  BY DEF Sound, TypeOK
<1>4. PICK U : U = Tail(X)
  OBVIOUS
<1>5. PICK c : c = Head(X).command
  OBVIOUS
<1>6. /\ X = wire[p] /\ X # <<>> /\ wire'[p] = U /\ wire'[h] = W
      /\ W = V \/ \E m \in Messages : m.command \in {"CTS", "DNS"} /\ W = Append(V, m)
      /\ rx' = rx \/ rx' = [rx EXCEPT ![h] = Stored(h, fitting)]
  BY <1>1, <1>2, <1>3, <1>4, <1>5 DEF PopDoes, Answers
<1>7. /\ c = "CTS" => rts_mask'[h] = TRUE
      /\ c = "DNS" => rts_mask'[h] = FALSE
      /\ c # "CTS" /\ c # "DNS" => rts_mask'[h] = rts_mask[h]
  <2>1. rts_mask' = CASE c = "CTS" -> [rts_mask EXCEPT ![h] = TRUE]
                      [] c = "DNS" -> [rts_mask EXCEPT ![h] = FALSE]
                      [] OTHER -> rts_mask
    BY <1>1, <1>5, <1>6 DEF PopEnd, Incoming
  <2>2. c = "CTS" => rts_mask' = [rts_mask EXCEPT ![h] = TRUE]
    BY <2>1
  <2>3. c = "DNS" => rts_mask' = [rts_mask EXCEPT ![h] = FALSE]
    BY <2>1
  <2>4. c # "CTS" /\ c # "DNS" => rts_mask' = rts_mask
    BY <2>1
  <2>5. QED
    BY <2>2, <2>3, <2>4 DEF Sound, TypeOK
<1>8. Room(h) => Room(h)'
  <2>1. popping'[p] = popping[p] /\ rx'[p] = rx[p]
    BY <1>1, <1>6 DEF PopEnd, Sound, TypeOK
  <2>2. QED
    BY <1>1, <2>1 DEF Room, Free
<1>9. Has(U, "CTS") => Has(X, "CTS")
  BY <1>4, <1>6, TailHas
<1>10. c = "CTS" => Has(X, "CTS")
  BY <1>5, <1>6, TailHas
<1>11. Has(W, "RTS") => Has(V, "RTS")
  <2>1. ASSUME NEW m \in Messages, m.command \in {"CTS", "DNS"}, W = Append(V, m)
        PROVE  Has(W, "RTS") => Has(V, "RTS")
    BY <2>1, AppendHas
  <2>2. QED
    BY <1>6, <2>1
<1>12. Granted(V, U) => Granted(W, U)
  <2>1. ASSUME NEW m \in Messages, m.command \in {"CTS", "DNS"}, W = Append(V, m), Granted(V, U)
        PROVE  Granted(W, U)
    BY <2>1, GrantedAppend
  <2>2. QED
    BY <1>6, <2>1
<1>13. Refused(V, U) => Refused(W, U)
  <2>1. ASSUME NEW m \in Messages, m.command \in {"CTS", "DNS"}, W = Append(V, m), Refused(V, U)
        PROVE  Refused(W, U)
    BY <2>1, RefusedAppend
  <2>2. QED
    BY <1>6, <2>1
<1>14. CASE rts_mask[h]
  <2>1. Granted(V, X) /\ (Has(V, "RTS") => Room(h))
    BY <1>1, <1>3, <1>6, <1>14 DEF Leave
  <2>2. Granted(V, U) /\ (c = "DNS" => Refused(V, U) /\ ~Has(U, "CTS"))
    BY <1>4, <1>5, <1>6, <2>1, GrantedHeard
  <2>3. QED
    BY <1>1, <1>6, <1>7, <1>8, <1>11, <1>12, <1>13, <1>14, <2>1, <2>2 DEF Leave
<1>15. CASE ~rts_mask[h]
  <2>1. Refused(V, X) /\ (Has(X, "CTS") => Room(h))
    BY <1>1, <1>3, <1>6, <1>15 DEF Leave
  <2>2. Refused(V, U) /\ (c = "CTS" => Granted(V, U))
    BY <1>4, <1>5, <1>6, <2>1, RefusedHeard
  <2>3. QED
    BY <1>1, <1>6, <1>7, <1>8, <1>9, <1>10, <1>11, <1>12, <1>13, <1>15, <2>1, <2>2 DEF Leave
<1>16. QED
  BY <1>14, <1>15

LEMMA PopEndLeave ==
    ASSUME Sound, NEW a \in Host, PopEnd(a), NEW h \in Host, Leave(h)
    PROVE  Leave(h)' /\ (~rts_mask[h] /\ rts_mask'[h] => Room(h)')
<1>1. PICK p \in Host : p = Partner[h] /\ h = Partner[p] /\ p # h
  BY Partners
<1>2. CASE h = a
  BY <1>2, PopEndHearsLeave
<1>3. CASE h # a
  <2>1. rts_mask'[h] = rts_mask[h] /\ popping'[h] = popping[h]
    BY <1>3 DEF PopEnd, Sound, TypeOK
  <2>2. CASE p = a
    BY <1>1, <2>1, <2>2, PopEndTakesLeave
  <2>3. CASE p # a
    <3>1. PICK V \in Seq(Messages), W \in Seq(Messages), fitting \in Seq(Nat) :
            PopDoes(a, V, W, fitting)
      BY PopEndDoes
    <3>2. h # Partner[a] /\ p # Partner[a]
      BY <1>1, <1>3, <2>3, Partners
    <3>3. wire'[h] = wire[h] /\ wire'[p] = wire[p]
      BY <1>3, <2>3, <3>1, <3>2 DEF PopDoes
    <3>4. rx'[p] = rx[p] /\ popping'[p] = popping[p]
      BY <2>3, <3>1 DEF PopDoes, PopEnd, Sound, TypeOK
    <3>5. Room(h) => Room(h)'
      BY <1>1, <3>4 DEF Room, Free
    <3>6. QED
      BY <1>1, <2>1, <3>3, <3>5, LeaveStays
  <2>4. QED
    BY <2>2, <2>3
<1>4. QED
  BY <1>2, <1>3

LeaveHolds == \A h \in Host : Leave(h)

LEMMA NextLeave ==
    ASSUME Sound, LeaveHolds, [Next]_vars
    PROVE  LeaveHolds' /\ \A h \in Host : ~rts_mask[h] /\ rts_mask'[h] => Room(h)'
<1>1. Sound'
  BY NextIsSound
<1>2. ASSUME NEW h \in Host, UNCHANGED <<rx, rts_mask, wire, popping>> PROVE Leave(h)'
  <2>1. Room(h) => Room(h)'
    BY <1>2 DEF Room, Free
  <2>2. QED
    BY <1>2, <2>1, LeaveStays DEF LeaveHolds
<1>3. ASSUME UNCHANGED <<rx, rts_mask, wire, popping>>
      PROVE  LeaveHolds' /\ \A h \in Host : ~rts_mask[h] /\ rts_mask'[h] => Room(h)'
  BY <1>2, <1>3 DEF LeaveHolds
<1>4. CASE UNCHANGED vars
  BY <1>3, <1>4 DEF vars
<1>5. ASSUME NEW a \in Host, Link(a) \/ (\E count \in 1..(Total[a] - written[a]) : WriteLook(a, count)) \/ WriteStore(a)
      PROVE  LeaveHolds' /\ \A h \in Host : ~rts_mask[h] /\ rts_mask'[h] => Room(h)'
  BY <1>3, <1>5 DEF Link, WriteLook, WriteStore
<1>6. ASSUME NEW a \in Host, NEW count \in ReadCounts, Read(a, count)
      PROVE  LeaveHolds' /\ UNCHANGED rts_mask
  BY <1>6, ReadLeave DEF LeaveHolds, Read
<1>7. ASSUME NEW a \in Host, Inject(a) PROVE LeaveHolds' /\ UNCHANGED rts_mask
  BY <1>7, InjectLeave DEF LeaveHolds, Inject, InjectRts, InjectData
<1>8. ASSUME NEW a \in Host, PopUnknown(a) PROVE LeaveHolds' /\ UNCHANGED rts_mask
  BY <1>8, PopUnknownLeave DEF LeaveHolds, PopUnknown
<1>9. ASSUME NEW a \in Host, PopLook(a) PROVE LeaveHolds' /\ UNCHANGED rts_mask
  <2>1. UNCHANGED <<wire, rts_mask, rx>> /\ popping' = [popping EXCEPT ![a] = <<Free(a)>>]
    BY <1>9 DEF PopLook
  <2>2. ASSUME NEW h \in Host PROVE Leave(h)'
    <3>1. PICK p \in Host : p = Partner[h]
      BY Partners
    <3>2. Free(p)' >= Free(p)
      <4>1. rx[p] \in Ring /\ RxSize \in Nat
        BY LineAssumption DEF Sound, TypeOK
      <4>2. rx[p].num_received_bytes \in Nat
        BY <4>1 DEF Ring
      <4>3. QED
        BY <2>1, <4>1, <4>2 DEF Free
    <3>3. popping'[p] = popping[p] \/ popping'[p] = <<Free(p)>>
      BY <2>1 DEF Sound, TypeOK
    <3>4. QED
      BY <1>1, <2>1, <3>1, <3>2, <3>3, OthersLeave DEF LeaveHolds
  <2>3. QED
    BY <2>1, <2>2 DEF LeaveHolds
<1>10. ASSUME NEW a \in Host, PopEnd(a)
       PROVE  LeaveHolds' /\ \A h \in Host : ~rts_mask[h] /\ rts_mask'[h] => Room(h)'
  BY <1>10, PopEndLeave DEF LeaveHolds
<1>11. QED
  BY <1>4, <1>5, <1>6, <1>7, <1>8, <1>9, <1>10 DEF Next, Program, Pop

LEMMA InitLeave == Init => LeaveHolds
<1> SUFFICES ASSUME Init, NEW h \in Host PROVE Leave(h)
  BY DEF LeaveHolds
<1>1. wire[h] = <<>> /\ wire[Partner[h]] = <<>> /\ ~rts_mask[h]
  BY Partners DEF Init
<1>2. Refused(<<>>, <<>>) /\ ~Has(<<>>, "CTS")
  BY DEF Refused, Has
<1>3. QED
  BY <1>1, <1>2 DEF Leave

\* A container gets leave to send only while a whole transmit buffer fits into its
\* partner's receive buffer, however many requests and answers are under way and
\* whatever programs write and read meanwhile.
THEOREM LeaveIsRoom == Spec => LeaveMeansRoom
<1>1. Init => Sound /\ LeaveHolds
  BY InitIsSound, InitLeave
<1>2. Sound /\ LeaveHolds /\ [Next]_vars => (Sound /\ LeaveHolds)'
  BY NextIsSound, NextLeave
<1>3. Sound /\ LeaveHolds /\ [Next]_vars
        => [\A h \in Host : ~rts_mask[h] /\ rts_mask'[h] => (Free(Partner[h]) >= TxSize)']_vars
  BY NextLeave DEF Room
<1>4. QED
  BY <1>1, <1>2, <1>3, PTL DEF Spec, LeaveMeansRoom

-----------------------------------------------------------------------------
(* The parallel kernel: delays.                                            *)

\* A set of numbers that is not empty has a least element.
LEMMA WellOrdered ==
  ASSUME NEW T \in SUBSET Nat, T # {}
  PROVE  \E m \in T : \A n \in T : m <= n
<1> DEFINE R == StrictSubsetOrdering(Nat)
           F == FiniteSubsetsOf(Nat)
           V == {1..n : n \in T}
<1>1. IsWellFoundedOn(R, F)
  BY FS_StrictSubsetOrderingWellFounded
<1>2. V \subseteq F /\ V # {}
  <2>1. \A n \in T : 1..n \in SUBSET Nat /\ IsFiniteSet(1..n)
    BY FS_Interval
  <2> QED BY <2>1 DEF FiniteSubsetsOf
<1> HIDE DEF R, F, V
<1>3. PICK v \in V : \A w \in V : ~(<<w, v>> \in R)
  BY <1>1, <1>2, WFMin
<1>4. PICK m \in T : v = 1..m
  BY DEF V
<1>5. ASSUME NEW n \in T, ~(m <= n) PROVE FALSE
  <2>1. 1..n \in V
    BY DEF V
  <2>2. n < m /\ m \in Nat /\ n \in Nat
    BY <1>5
  <2>3. 1..n \subseteq 1..m /\ 1..n # 1..m
    <3>1. m \in 1..m /\ m \notin 1..n
      BY <2>2
    <3>2. 1..n \subseteq 1..m
      BY <2>2
    <3> QED BY <3>1, <3>2
  <2>4. 1..n \in SUBSET Nat /\ 1..m \in SUBSET Nat
    BY <2>2
  <2>5. <<1..n, 1..m>> \in R
    BY <2>3, <2>4 DEF R, StrictSubsetOrdering
  <2> QED BY <1>3, <1>4, <2>1, <2>5
<1> QED BY <1>5

LEMMA LeastIsMin ==
  ASSUME NEW T \in SUBSET Nat, T # {}
  PROVE  Min(T) \in T /\ \A n \in T : Min(T) <= n
<1>1. \E m \in T : \A n \in T : m <= n
  BY WellOrdered
<1> QED BY <1>1 DEF Min

LEMMA DelaysArePositive ==
  ASSUME NEW i \in Timeline, NEW j \in Timeline
  PROVE  DelaysTo(i, j) \subseteq Nat \ {0}
<1> SUFFICES ASSUME NEW c \in OutChannels, j \in Crossing(c)
             PROVE  c.minWrite + c.transfer[j] \in Nat \ {0}
  BY DEF DelaysTo, ChannelsOf
<1>1. c.minWrite \in Nat /\ c.transfer[j] \in Nat /\ c.minWrite + c.transfer[j] > 0
  BY TimelinesAssumption DEF Crossing
<1> QED BY <1>1

LEMMA WindowIsPositive == WindowSize \in Nat /\ WindowSize > 0
<1> DEFINE D == UNION {CrossDelays(i) : i \in Timeline}
           P(d) == \A f \in D : d <= f
<1>1. D \subseteq Nat \ {0}
  BY DelaysArePositive DEF CrossDelays
<1>2. D # {}
  <2>1. PICK c \in OutChannels : Crossing(c) # {}
    BY TimelinesAssumption
  <2>2. PICK j : j \in Crossing(c)
    BY <2>1
  <2>3. c.owner \in Timeline /\ j \in Timeline
    BY <2>2, TimelinesAssumption DEF Crossing
  <2>4. c.minWrite + c.transfer[j] \in DelaysTo(c.owner, j)
    BY <2>2 DEF DelaysTo, ChannelsOf
  <2> QED BY <2>3, <2>4 DEF CrossDelays
<1>3. \E d \in D : P(d)
  BY <1>1, <1>2, WellOrdered
<1> DEFINE m == CHOOSE d \in D : P(d)
<1>4. m \in D
  BY <1>3
<1>5. m \in Nat /\ m > 0
  BY <1>1, <1>4
<1>6. Cardinality(Timeline) \in Nat /\ Cardinality(Timeline) > 1
  BY TimelinesAssumption, FS_CardinalityType
<1>7. WindowSize = Cardinality(Timeline) * m
  BY DEF WindowSize
<1> HIDE DEF m
<1>8. \A x, y \in Nat : x > 0 /\ y > 0 => x * y \in Nat /\ x * y > 0
  OBVIOUS
<1> QED BY <1>5, <1>6, <1>7, <1>8

LEMMA SyncBeyondWindow ==
  ASSUME NEW i \in Timeline
  PROVE  MinSync(i) = -1 \/ (MinSync(i) \in Nat /\ MinSync(i) >= WindowSize)
<1> DEFINE long == {d \in CrossDelays(i) : d >= WindowSize}
<1>1. long \subseteq Nat
  BY DelaysArePositive DEF CrossDelays
<1>2. CASE long = {}
  BY <1>2 DEF MinSync
<1>3. CASE long # {}
  <2>1. Min(long) \in long
    BY <1>1, <1>3, LeastIsMin
  <2>2. MinSync(i) = Min(long)
    BY <1>3 DEF MinSync
  <2> QED BY <1>1, <2>1, <2>2
<1> QED BY <1>2, <1>3

\* A message that goes by appointment takes at least the lookahead.
LEMMA AppointmentsAreMet ==
  /\ \A i, j \in Timeline : Meets(i, j) => Lookahead(i, j) \in Nat
  /\ \A c \in OutChannels : \A j \in Crossing(c) : Asynchronous(c, j) =>
       Meets(c.owner, j) /\ Lookahead(c.owner, j) <= c.minWrite + c.transfer[j]
<1>1. ASSUME NEW i \in Timeline, NEW j \in Timeline, DelaysTo(i, j) # {}
      PROVE  Lookahead(i, j) \in Nat /\ \A d \in DelaysTo(i, j) : Lookahead(i, j) <= d
  <2>1. DelaysTo(i, j) \in SUBSET Nat
    BY DelaysArePositive
  <2>2. Min(DelaysTo(i, j)) \in DelaysTo(i, j) /\ \A d \in DelaysTo(i, j) : Min(DelaysTo(i, j)) <= d
    BY <1>1, <2>1, LeastIsMin
  <2> QED BY <1>1, <2>1, <2>2 DEF Lookahead
<1>2. ASSUME NEW i \in Timeline, NEW j \in Timeline, Meets(i, j)
      PROVE  Lookahead(i, j) \in Nat
  <2>1. DelaysTo(i, j) # {}
    BY <1>2 DEF Meets, Lookahead
  <2> QED BY <1>1, <2>1
<1>3. ASSUME NEW c \in OutChannels, NEW j \in Crossing(c), Asynchronous(c, j)
      PROVE  Meets(c.owner, j) /\ Lookahead(c.owner, j) <= c.minWrite + c.transfer[j]
  <2> DEFINE d == c.minWrite + c.transfer[j]
  <2>1. c.owner \in Timeline /\ j \in Timeline /\ d \in Nat
    BY TimelinesAssumption DEF Crossing
  <2>2. d \in DelaysTo(c.owner, j)
    BY DEF DelaysTo, ChannelsOf
  <2>3. d < WindowSize
    BY <1>3 DEF Asynchronous
  <2> HIDE DEF d
  <2>4. Lookahead(c.owner, j) \in Nat /\ Lookahead(c.owner, j) <= d
    BY <1>1, <2>1, <2>2
  <2>5. Lookahead(c.owner, j) < WindowSize /\ Lookahead(c.owner, j) # -1
    BY <2>1, <2>3, <2>4, WindowIsPositive
  <2> QED BY <2>4, <2>5 DEF Meets, d
<1> QED BY <1>2, <1>3

-----------------------------------------------------------------------------
(* Bags of events.                                                         *)

Copies == {n \in Nat : n > 0}
BagsOver(S) == UNION {[D -> Copies] : D \in SUBSET S}

LEMMA BagElements ==
  ASSUME NEW S, NEW b \in BagsOver(S)
  PROVE  BagToSet(b) \subseteq S /\ b \in [BagToSet(b) -> Copies]
BY DEF BagsOver, BagToSet

LEMMA BagIsEmpty ==
  ASSUME NEW S
  PROVE  EmptyBag \in BagsOver(S) /\ BagToSet(EmptyBag) = {}
<1>1. EmptyBag \in [{} -> Copies]
  BY DEF EmptyBag, SetToBag
<1> QED BY <1>1 DEF BagsOver, BagToSet

LEMMA BagOfSet ==
  ASSUME NEW S, NEW T \in SUBSET S
  PROVE  SetToBag(T) \in BagsOver(S) /\ BagToSet(SetToBag(T)) = T
<1>1. SetToBag(T) \in [T -> Copies]
  BY DEF SetToBag, Copies
<1> QED BY <1>1 DEF BagsOver, BagToSet

LEMMA BagSum ==
  ASSUME NEW S, NEW a \in BagsOver(S), NEW b \in BagsOver(S)
  PROVE  a (+) b \in BagsOver(S) /\ BagToSet(a (+) b) = BagToSet(a) \cup BagToSet(b)
<1> DEFINE D == BagToSet(a) \cup BagToSet(b)
           count(e) == (IF e \in DOMAIN a THEN a[e] ELSE 0) + (IF e \in DOMAIN b THEN b[e] ELSE 0)
<1>1. /\ a \in [BagToSet(a) -> Copies] /\ BagToSet(a) \subseteq S
      /\ b \in [BagToSet(b) -> Copies] /\ BagToSet(b) \subseteq S
  BY BagElements
<1>2. \A e \in D : count(e) \in Copies
  BY <1>1 DEF BagToSet, Copies
<1>3. a (+) b = [e \in D |-> count(e)]
  BY DEF (+), BagToSet
<1> HIDE DEF count
<1>4. a (+) b \in [D -> Copies] /\ DOMAIN (a (+) b) = D
  BY <1>2, <1>3
<1>5. D \in SUBSET S
  BY <1>1
<1> QED BY <1>4, <1>5 DEF BagsOver, BagToSet

LEMMA BagAdded ==
  ASSUME NEW S, NEW b \in BagsOver(S), NEW e \in S
  PROVE  Added(b, e) \in BagsOver(S) /\ BagToSet(Added(b, e)) = BagToSet(b) \cup {e}
<1> DEFINE one == SetToBag({e})
<1>1. one \in BagsOver(S) /\ BagToSet(one) = {e}
  BY BagOfSet
<1>2. Added(b, e) = b (+) one
  BY DEF Added
<1> HIDE DEF one
<1>3. b (+) one \in BagsOver(S) /\ BagToSet(b (+) one) = BagToSet(b) \cup BagToSet(one)
  BY <1>1, BagSum
<1> QED BY <1>1, <1>2, <1>3

LEMMA BagTaken ==
  ASSUME NEW S, NEW b \in BagsOver(S), NEW e
  PROVE  /\ b (-) SetToBag({e}) \in BagsOver(S)
         /\ BagToSet(b (-) SetToBag({e})) \subseteq BagToSet(b)
         /\ BagToSet(b) \ {e} \subseteq BagToSet(b (-) SetToBag({e}))
<1> DEFINE one == SetToBag({e})
           B == [f \in DOMAIN b |-> IF f \in DOMAIN one THEN b[f] - one[f] ELSE b[f]]
           D == {f \in DOMAIN B : B[f] > 0}
<1>1. b \in [BagToSet(b) -> Copies] /\ BagToSet(b) \subseteq S
  BY BagElements
<1>2. DOMAIN one = {e} /\ one[e] = 1
  BY DEF SetToBag
<1>3. DOMAIN B = BagToSet(b) /\ \A f \in BagToSet(b) : B[f] \in Int /\ (f # e => B[f] = b[f])
  BY <1>1, <1>2 DEF BagToSet, Copies
<1>4. b (-) one = [f \in D |-> B[f]]
  BY DEF (-)
<1> HIDE DEF B, one
<1>5. \A f \in D : B[f] \in Copies
  BY <1>3 DEF Copies
<1>6. b (-) one \in [D -> Copies] /\ DOMAIN (b (-) one) = D
  BY <1>4, <1>5
<1>7. D \in SUBSET S /\ D \subseteq BagToSet(b)
  BY <1>1, <1>3
<1>8. \A f \in BagToSet(b) \ {e} : f \in D
  BY <1>1, <1>3 DEF Copies
<1>9. b (-) one \in BagsOver(S) /\ BagToSet(b (-) one) = D
  BY <1>6, <1>7 DEF BagsOver, BagToSet
<1>10. BagToSet(b) \ {e} \subseteq D
  BY <1>8
<1> HIDE DEF D
<1> QED BY <1>7, <1>9, <1>10 DEF one

-----------------------------------------------------------------------------
(* The inductive invariant.                                                *)

Moment == [time : Nat, kind : {"activate", "exec", "timeout", "make", "wait"}, peer : Timeline]
Delivery == {e \in Moment : e.kind = "activate"}

\* Appointments are made with, and waited for, only where two timelines meet.
Proper(i, e) == (e.kind = "make" => Meets(i, e.peer)) /\ (e.kind = "wait" => Meets(e.peer, i))

Inside == {"run", "blocked", "renew", "fetch", "ended"}
Places == Inside \cup {"idle", "collect", "offered", "exited"}

KernelTypeOK ==
  /\ events \in [Timeline -> BagsOver(Moment)]
  /\ windowList \in [Timeline -> BagsOver(Delivery)]
  /\ outAppt \in [Timeline -> [Timeline -> BagsOver(Delivery)]]
  /\ inAppt \in [Timeline -> [Timeline -> Nat \cup {-1}]]
  /\ time \in [Timeline -> Nat]
  /\ pc \in [Timeline -> Places] /\ partner \in [Timeline -> Timeline]
  /\ bottom \in Int /\ prevBottom \in Int /\ stopBefore \in Int /\ epochEnd \in Int /\ clock \in Int
  /\ offered \in [Timeline -> Int]
  /\ plan \in Seq(Nat)
  /\ \A i \in Timeline : \A e \in BagToSet(events[i]) : Proper(i, e)

\* The threads are on the same side of every barrier; what they agreed on lies
\* beyond the clock of each.
Phases ==
  /\ \/ \A i \in Timeline : pc[i] \in {"idle", "exited"}
     \/ \A i \in Timeline : pc[i] \in {"collect", "offered"}
     \/ \A i \in Timeline : pc[i] \in Inside
  /\ \A i \in Timeline : pc[i] \in Inside =>
       /\ time[i] < stopBefore
       /\ pc[i] = "ended" => time[i] = stopBefore - 1
       /\ \A e \in BagToSet(windowList[i]) : e.time >= stopBefore
  /\ \A i \in Timeline : pc[i] \notin Inside => \A j \in Timeline : time[j] = time[i]
  /\ \A i \in Timeline : pc[i] \in {"collect", "offered"} => time[i] + 1 < epochEnd
  /\ \A i \in Timeline : pc[i] = "offered" =>
       windowList[i] = EmptyBag /\ \A j \in Timeline : time[j] < bottom
  /\ bottom = prevBottom \/ \E i \in Timeline : pc[i] = "offered"

\* What i last promised j: nothing that i still sends it will be earlier.
Promised(i, j) == IF inAppt[j][i] = -1 THEN Lookahead(i, j) ELSE inAppt[j][i]

\* j has a wait event for i to stop at, or stands at one.
Stands(i, j) == pc[j] \in {"blocked", "renew"} /\ partner[j] = i
Stops(i, j, w) ==
  /\ w.kind = "wait" /\ w.peer = i /\ w.time <= Promised(i, j)
  /\ \/ pc[j] = "fetch" /\ partner[j] = i
     \/ \A m \in BagToSet(outAppt[i][j]) : w.time <= m.time

Met(i, j) ==
  /\ time[i] + Lookahead(i, j) >= Promised(i, j)
  /\ time[j] <= Promised(i, j)
  /\ Stands(i, j) \/ \E w \in BagToSet(events[j]) : Stops(i, j, w)
  /\ pc[j] = "renew" /\ partner[j] = i => time[j] <= inAppt[j][i]

Appointments ==
  /\ \A i, j \in Timeline : IF Meets(i, j) THEN Met(i, j) ELSE BagToSet(outAppt[i][j]) = {}
  /\ \A j \in Timeline : pc[j] \in {"blocked", "renew", "fetch"} => Meets(partner[j], j)

KernelInv == KernelTypeOK /\ NothingLate /\ Phases /\ Appointments

-----------------------------------------------------------------------------
(* What an event does that is executed inside a window.                    *)

LEMMA NobodyMeetsItself == \A i, j \in Timeline : Meets(i, j) => i # j
<1> SUFFICES ASSUME NEW i \in Timeline PROVE ~Meets(i, i)
  OBVIOUS
<1>1. DelaysTo(i, i) = {}
  BY DEF DelaysTo, ChannelsOf, Crossing
<1> QED BY <1>1 DEF Meets, Lookahead

\* The event is the first of the list; the events it adds are not before it.
Runs(i, e) ==
  /\ pc[i] = "run" /\ e \in BagToSet(events[i]) /\ e.time < stopBefore /\ e.kind # "wait"
  /\ \A f \in BagToSet(events[i]) : e.time <= f.time
  /\ time' = [time EXCEPT ![i] = e.time]
  /\ \E b \in BagsOver(Moment) :
       /\ events' = [events EXCEPT ![i] = b]
       /\ BagToSet(events[i]) \ {e} \subseteq BagToSet(b)
       /\ \A f \in BagToSet(b) : Proper(i, f) /\ e.time <= f.time

\* What it leaves for others lies beyond the window or beyond the lookahead.
Sends(i, e) ==
  /\ windowList' \in [Timeline -> BagsOver(Delivery)]
  /\ \A j \in Timeline : \A f \in BagToSet(windowList'[j]) :
       f \in BagToSet(windowList[j]) \/ f.time >= stopBefore
  /\ outAppt' \in [Timeline -> [Timeline -> BagsOver(Delivery)]]
  /\ \A h, j \in Timeline : \A f \in BagToSet(outAppt'[h][j]) :
       f \in BagToSet(outAppt[h][j]) \/ (h = i /\ Meets(i, j) /\ f.time >= e.time + Lookahead(i, j))

\* What it promises is the lookahead from its time, and is signalled.
Promises(i, e) ==
  /\ inAppt' \in [Timeline -> [Timeline -> Nat \cup {-1}]]
  /\ \A h, j \in Timeline :
       inAppt'[j][h] = inAppt[j][h] \/ (h = i /\ Meets(i, j) /\ inAppt'[j][h] = e.time + Lookahead(i, j))
  /\ pc' \in [Timeline -> Places]
  /\ \A j \in Timeline :
       \/ pc'[j] = pc[j]
       \/ /\ pc[j] = "blocked" /\ partner[j] = i /\ pc'[j] = "renew"
          /\ Meets(i, j) /\ inAppt'[j][i] = e.time + Lookahead(i, j)

Ran(i, e) ==
  Runs(i, e) /\ Sends(i, e) /\ Promises(i, e) /\ UNCHANGED <<partner, barrierVars>>

Onward == \A j \in Timeline : time'[j] >= time[j]

\* An event that is executed in order of its time keeps the invariant: the
\* timeline has not passed what its partners promised, and what it sends or
\* promises itself is not before its own promise.
LEMMA RanKeeps ==
  ASSUME KernelInv, NEW i \in Timeline, NEW e, Ran(i, e)
  PROVE  KernelInv' /\ Onward
<1> USE DEF KernelInv, Runs, Sends, Promises
<1>1. /\ events \in [Timeline -> BagsOver(Moment)] /\ windowList \in [Timeline -> BagsOver(Delivery)]
      /\ outAppt \in [Timeline -> [Timeline -> BagsOver(Delivery)]]
      /\ inAppt \in [Timeline -> [Timeline -> Nat \cup {-1}]]
      /\ time \in [Timeline -> Nat] /\ pc \in [Timeline -> Places]
      /\ stopBefore \in Int
  BY DEF KernelTypeOK
<1>2. \A j \in Timeline : /\ BagToSet(events[j]) \subseteq Moment
                          /\ BagToSet(windowList[j]) \subseteq Delivery
                          /\ \A h \in Timeline : BagToSet(outAppt[h][j]) \subseteq Delivery
  BY <1>1, BagElements
<1>3. e.time \in Nat /\ e.time >= time[i] /\ e.time < stopBefore
  <2>1. e \in Moment
    BY <1>2 DEF Ran
  <2>2. e.time >= time[i] /\ e.time < stopBefore
    BY DEF Ran, NothingLate
  <2> QED BY <2>1, <2>2 DEF Moment
<1>4. \A j \in Timeline : time'[j] = IF j = i THEN e.time ELSE time[j]
  BY <1>1 DEF Ran
<1>5. time' \in [Timeline -> Nat] /\ Onward
  BY <1>1, <1>3, <1>4 DEF Ran, Onward
<1>6. PICK b \in BagsOver(Moment) :
        /\ events' = [events EXCEPT ![i] = b]
        /\ BagToSet(events[i]) \ {e} \subseteq BagToSet(b)
        /\ \A f \in BagToSet(b) : Proper(i, f) /\ e.time <= f.time
  BY DEF Ran
<1>7. \A j \in Timeline : events'[j] = IF j = i THEN b ELSE events[j]
  BY <1>1, <1>6
<1>8. KernelTypeOK'
  <2>1. \A j \in Timeline : \A f \in BagToSet(events'[j]) : Proper(j, f)
    BY <1>6, <1>7 DEF KernelTypeOK
  <2>2. events' \in [Timeline -> BagsOver(Moment)]
    BY <1>1, <1>6
  <2>3. UNCHANGED <<partner, bottom, prevBottom, stopBefore, epochEnd, clock, offered, plan>>
    BY DEF Ran, barrierVars
  <2>4. windowList' \in [Timeline -> BagsOver(Delivery)]
    BY DEF Ran
  <2>5. outAppt' \in [Timeline -> [Timeline -> BagsOver(Delivery)]]
    BY DEF Ran
  <2>6. inAppt' \in [Timeline -> [Timeline -> Nat \cup {-1}]] /\ pc' \in [Timeline -> Places]
    BY DEF Ran
  <2>7. /\ partner \in [Timeline -> Timeline] /\ bottom \in Int /\ prevBottom \in Int /\ stopBefore \in Int
        /\ epochEnd \in Int /\ clock \in Int /\ offered \in [Timeline -> Int] /\ plan \in Seq(Nat)
    BY DEF KernelTypeOK
  <2> QED BY <1>5, <2>1, <2>2, <2>3, <2>4, <2>5, <2>6, <2>7 DEF KernelTypeOK, Proper
\* The others have promised no less than what i stops at.
<1>9. \A h \in Timeline : Meets(h, i) =>
        \E w \in BagToSet(events[i]) :
           /\ w.kind = "wait" /\ w.peer = h /\ w.time <= Promised(h, i) /\ w # e
           /\ e.time <= w.time
           /\ \A m \in BagToSet(outAppt[h][i]) : w.time <= m.time
  <2> SUFFICES ASSUME NEW h \in Timeline, Meets(h, i)
               PROVE  \E w \in BagToSet(events[i]) :
                        /\ w.kind = "wait" /\ w.peer = h /\ w.time <= Promised(h, i) /\ w # e
                        /\ e.time <= w.time
                        /\ \A m \in BagToSet(outAppt[h][i]) : w.time <= m.time
    OBVIOUS
  <2>1. pc[i] = "run" /\ e.kind # "wait"
    BY DEF Ran
  <2>2. Met(h, i)
    BY DEF Appointments
  <2>3. PICK w \in BagToSet(events[i]) : Stops(h, i, w)
    BY <2>1, <2>2 DEF Met, Stands
  <2> QED BY <2>1, <2>3 DEF Stops, Ran
<1>10. /\ pc[i] = "run" /\ \A j \in Timeline : pc[j] \in Inside /\ pc'[j] \in Inside
       /\ \A j \in Timeline : pc'[j] = "ended" => pc[j] = "ended"
       /\ \A j \in Timeline : pc'[j] = "run" => pc[j] = "run"
  <2>1. pc[i] = "run"
    BY DEF Ran
  <2>2. \A j \in Timeline : pc[j] \in Inside
    BY <2>1 DEF Phases, Inside
  <2> QED BY <2>1, <2>2 DEF Ran, Inside
<1>11. \A h, j \in Timeline : Meets(h, j) =>
         /\ Promised(h, j) \in Nat /\ Promised(h, j)' \in Nat
         /\ Promised(h, j) <= Promised(h, j)' /\ Lookahead(h, j) \in Nat
         /\ time'[h] + Lookahead(h, j) >= Promised(h, j)'
         /\ h = i => e.time + Lookahead(h, j) >= Promised(h, j)
  <2> SUFFICES ASSUME NEW h \in Timeline, NEW j \in Timeline, Meets(h, j)
               PROVE  /\ Promised(h, j) \in Nat /\ Promised(h, j)' \in Nat
                      /\ Promised(h, j) <= Promised(h, j)' /\ Lookahead(h, j) \in Nat
                      /\ time'[h] + Lookahead(h, j) >= Promised(h, j)'
                      /\ h = i => e.time + Lookahead(h, j) >= Promised(h, j)
    OBVIOUS
  <2>1. Lookahead(h, j) \in Nat
    BY AppointmentsAreMet
  <2>2. time[h] + Lookahead(h, j) >= Promised(h, j)
    BY DEF Appointments, Met
  <2>3. Promised(h, j) = (IF inAppt[j][h] = -1 THEN Lookahead(h, j) ELSE inAppt[j][h])
    BY DEF Promised
  <2>4. Promised(h, j)' = (IF inAppt'[j][h] = -1 THEN Lookahead(h, j) ELSE inAppt'[j][h])
    BY DEF Promised
  <2>5. inAppt'[j][h] = inAppt[j][h] \/ (h = i /\ inAppt'[j][h] = e.time + Lookahead(h, j))
    BY DEF Ran
  <2>6. inAppt[j][h] \in Nat \cup {-1} /\ time[h] \in Nat /\ time'[h] = IF h = i THEN e.time ELSE time[h]
    BY <1>1, <1>4
  <2> DEFINE L == Lookahead(h, j)
             p == Promised(h, j)
             q == Promised(h, j)'
             u == inAppt[j][h]
             v == inAppt'[j][h]
  <2> HIDE DEF L, p, q, u, v
  <2>7. /\ p \in Nat /\ q \in Nat /\ p <= q /\ L \in Nat
        /\ time'[h] + L >= q /\ (h = i => e.time + L >= p)
    BY <1>3, <2>1, <2>2, <2>3, <2>4, <2>5, <2>6 DEF L, p, q, u, v
  <2> QED BY <2>7 DEF L, p, q
<1>12. \A h, j \in Timeline : Meets(h, j) => time'[j] <= Promised(h, j)'
  <2> SUFFICES ASSUME NEW h \in Timeline, NEW j \in Timeline, Meets(h, j)
               PROVE  time'[j] <= Promised(h, j)'
    OBVIOUS
  <2>1. time[j] <= Promised(h, j)
    BY DEF Appointments, Met
  <2>2. j = i => e.time <= Promised(h, j)
    <3> SUFFICES ASSUME j = i PROVE e.time <= Promised(h, i)
      OBVIOUS
    <3>1. PICK w \in BagToSet(events[i]) : w.time <= Promised(h, i) /\ e.time <= w.time
      BY <1>9
    <3>2. w.time \in Nat /\ Promised(h, i) \in Nat
      BY <1>2, <1>11 DEF Moment
    <3> QED BY <1>3, <3>1, <3>2
  <2>3. Promised(h, j) \in Nat /\ Promised(h, j)' \in Nat /\ Promised(h, j) <= Promised(h, j)'
    BY <1>11
  <2>4. time'[j] = IF j = i THEN e.time ELSE time[j]
    BY <1>4
  <2>5. time[j] \in Nat
    BY <1>1
  <2> QED BY <1>3, <2>1, <2>2, <2>3, <2>4, <2>5
<1>13. \A h, j \in Timeline : \A m \in BagToSet(outAppt'[h][j]) :
         m.time \in Nat /\ (m \in BagToSet(outAppt[h][j])
                            \/ (h = i /\ h # j /\ Meets(h, j) /\ m.time >= Promised(h, j)))
  <2> SUFFICES ASSUME NEW h \in Timeline, NEW j \in Timeline, NEW m \in BagToSet(outAppt'[h][j])
               PROVE  m.time \in Nat /\ (m \in BagToSet(outAppt[h][j])
                        \/ (h = i /\ h # j /\ Meets(h, j) /\ m.time >= Promised(h, j)))
    OBVIOUS
  <2>1. outAppt'[h][j] \in BagsOver(Delivery)
    BY DEF Ran
  <2>2. m \in Delivery
    BY <2>1, BagElements
  <2>3. m.time \in Nat
    BY <2>2 DEF Delivery, Moment
  <2>4. CASE m \in BagToSet(outAppt[h][j])
    BY <2>3, <2>4
  <2>5. CASE h = i /\ Meets(i, j) /\ m.time >= e.time + Lookahead(i, j)
    <3>1. Promised(h, j) \in Nat /\ Lookahead(h, j) \in Nat /\ e.time + Lookahead(h, j) >= Promised(h, j)
      BY <1>11, <2>5
    <3>2. m.time >= Promised(h, j)
      BY <1>3, <2>3, <2>5, <3>1
    <3> QED BY <2>3, <2>5, <3>2, NobodyMeetsItself
  <2> QED BY <2>4, <2>5 DEF Ran
<1>14. NothingLate'
  <2>1. \A j \in Timeline : \A f \in BagToSet(events'[j]) : f.time >= time'[j]
    BY <1>4, <1>6, <1>7 DEF NothingLate
  <2>2. ASSUME NEW j \in Timeline, NEW f \in BagToSet(windowList'[j]) PROVE f.time >= time'[j]
    <3>1. f \in Delivery
      <4>1. windowList'[j] \in BagsOver(Delivery)
        BY DEF Ran
      <4> QED BY <4>1, BagElements
    <3>2. f.time \in Nat /\ time[j] \in Nat
      BY <1>1, <3>1 DEF Delivery, Moment
    <3>3. f.time >= stopBefore
      BY <1>10 DEF Ran, Phases
    <3>4. time[j] < stopBefore
      BY <1>10 DEF Phases
    <3>5. time'[j] = IF j = i THEN e.time ELSE time[j]
      BY <1>4
    <3> QED BY <1>1, <1>3, <3>2, <3>3, <3>4, <3>5
  <2>3. ASSUME NEW h \in Timeline, NEW j \in Timeline, NEW m \in BagToSet(outAppt'[h][j])
        PROVE  m.time >= time'[j]
    <3>1. m.time \in Nat /\ time[j] \in Nat /\ time'[j] = IF j = i THEN e.time ELSE time[j]
      BY <1>1, <1>4, <1>13
    <3>2. CASE m \in BagToSet(outAppt[h][j]) /\ j # i
      BY <1>4, <3>2 DEF NothingLate
    <3>3. CASE m \in BagToSet(outAppt[h][j]) /\ j = i
      <4>1. Meets(h, i)
        BY <3>3 DEF Appointments
      <4>2. PICK w \in BagToSet(events[i]) : e.time <= w.time /\ w.time <= m.time
        BY <1>9, <3>3, <4>1
      <4>3. w.time \in Nat
        BY <1>2 DEF Moment
      <4> QED BY <1>3, <3>1, <3>3, <4>2, <4>3
    <3>4. CASE h = i /\ h # j /\ Meets(h, j) /\ m.time >= Promised(h, j)
      <4>1. time[j] <= Promised(h, j)
        BY <3>4 DEF Appointments, Met
      <4>2. Promised(h, j) \in Nat
        BY <1>11, <3>4
      <4> QED BY <3>1, <3>4, <4>1, <4>2
    <3> QED BY <1>13, <3>2, <3>3, <3>4
  <2> QED BY <2>1, <2>2, <2>3 DEF NothingLate
<1>15. Phases'
  <2>1. UNCHANGED <<stopBefore, bottom, prevBottom, epochEnd>>
    BY DEF Ran, barrierVars
  <2>2. ASSUME NEW j \in Timeline
        PROVE  /\ time'[j] < stopBefore /\ (pc'[j] = "ended" => time'[j] = stopBefore - 1)
               /\ \A f \in BagToSet(windowList'[j]) : f.time >= stopBefore
    <3>1. /\ time[j] < stopBefore /\ (pc[j] = "ended" => time[j] = stopBefore - 1)
          /\ \A f \in BagToSet(windowList[j]) : f.time >= stopBefore
      BY <1>10 DEF Phases
    <3>2. pc'[j] = "ended" => pc[j] = "ended" /\ j # i
      BY <1>10
    <3> QED BY <1>3, <1>4, <3>1, <3>2 DEF Ran
  <2>3. \A j \in Timeline : pc'[j] # "offered" /\ pc[j] # "offered" /\ pc'[j] \notin {"collect", "offered"}
    BY <1>10 DEF Inside
  <2>4. bottom = prevBottom
    BY <2>3 DEF Phases
  <2> QED BY <1>10, <2>1, <2>2, <2>3, <2>4 DEF Phases
<1>16. Appointments'
  <2>1. ASSUME NEW h \in Timeline, NEW j \in Timeline, ~Meets(h, j)
        PROVE  BagToSet(outAppt'[h][j]) = {}
    BY <1>13, <2>1 DEF Appointments
  <2>2. ASSUME NEW h \in Timeline, NEW j \in Timeline, Meets(h, j)
        PROVE  Met(h, j)'
    <3>1. Met(h, j)
      BY <2>2 DEF Appointments
    <3>2. partner' = partner
      BY DEF Ran
    <3>3. Promised(h, j) \in Nat /\ Promised(h, j)' \in Nat /\ Promised(h, j) <= Promised(h, j)'
      BY <1>11, <2>2
    <3>4. Stands(h, j)' \/ \E w \in BagToSet(events'[j]) : Stops(h, j, w)'
      <4>1. CASE Stands(h, j)
        BY <3>2, <4>1 DEF Stands, Ran
      <4>2. CASE ~Stands(h, j)
        <5>1. PICK w \in BagToSet(events[j]) : Stops(h, j, w) /\ (j = i => w # e)
          BY <1>9, <2>2, <3>1, <4>2 DEF Met, Stops, Ran
        <5>2. w \in BagToSet(events'[j])
          BY <1>6, <1>7, <5>1
        <5>3. w.time \in Nat
          BY <1>2, <5>1 DEF Moment
        <5>4. w.kind = "wait" /\ w.peer = h /\ w.time <= Promised(h, j)'
          BY <3>3, <5>1, <5>3 DEF Stops
        <5>5. CASE pc[j] = "fetch" /\ partner[j] = h
          BY <3>2, <5>2, <5>4, <5>5 DEF Stops, Ran
        <5>6. CASE \A m \in BagToSet(outAppt[h][j]) : w.time <= m.time
          <6>1. ASSUME NEW m \in BagToSet(outAppt'[h][j]) PROVE w.time <= m.time
            <7>1. m.time \in Nat /\ w.time <= Promised(h, j)
              BY <1>13, <5>1 DEF Stops
            <7> QED BY <1>13, <3>3, <5>3, <5>6, <7>1
          <6> QED BY <5>2, <5>4, <6>1 DEF Stops
        <5> QED BY <5>1, <5>5, <5>6 DEF Stops
      <4> QED BY <4>1, <4>2
    <3>5. pc'[j] = "renew" /\ partner[j] = h => time'[j] <= inAppt'[j][h]
      <4> SUFFICES ASSUME pc'[j] = "renew", partner[j] = h PROVE time'[j] <= inAppt'[j][h]
        OBVIOUS
      <4>1. time'[j] <= Promised(h, j)' /\ time'[j] = time[j] /\ time[j] \in Nat
        <5>1. j # i
          BY DEF Ran
        <5> QED BY <1>1, <1>4, <1>12, <2>2, <5>1
      <4>2. inAppt'[j][h] # -1
        <5>1. inAppt[j][h] \in Nat \cup {-1} /\ Lookahead(h, j) \in Nat
          BY <1>1, <1>11, <2>2
        <5>2. CASE pc[j] = "renew"
          <6>1. time[j] <= inAppt[j][h]
            BY <3>1, <5>2 DEF Met
          <6>2. inAppt[j][h] \in Nat
            BY <4>1, <5>1, <6>1
          <6>3. inAppt'[j][h] = inAppt[j][h] \/ inAppt'[j][h] = e.time + Lookahead(h, j)
            BY DEF Ran
          <6> QED BY <1>3, <5>1, <6>2, <6>3
        <5>3. CASE inAppt'[j][h] = e.time + Lookahead(h, j)
          BY <1>3, <5>1, <5>3
        <5> QED BY <5>2, <5>3 DEF Ran
      <4> QED BY <4>1, <4>2 DEF Promised
    <3> QED BY <1>11, <1>12, <2>2, <3>2, <3>4, <3>5 DEF Met
  <2>3. ASSUME NEW j \in Timeline, pc'[j] \in {"blocked", "renew", "fetch"}
        PROVE  Meets(partner'[j], j)
    <3>1. partner' = partner /\ pc[j] \in {"blocked", "renew", "fetch"}
      BY <2>3 DEF Ran
    <3> QED BY <3>1 DEF Appointments
  <2> QED BY <2>1, <2>2, <2>3 DEF Appointments, Meets, Lookahead
<1> QED BY <1>5, <1>8, <1>14, <1>15, <1>16

\* Taking the first event of a list and adding later ones.
LEMMA TakenInOrder ==
  ASSUME KernelInv, NEW i \in Timeline, NEW e, NEW kinds, Taken(i, e, kinds), "wait" \notin kinds,
         NEW new \in SUBSET Moment, NEW b \in BagsOver(Moment),
         BagToSet(b) = BagToSet(Without(i, e)) \cup new, events' = [events EXCEPT ![i] = b],
         \A f \in new : Proper(i, f) /\ e.time <= f.time
  PROVE  Runs(i, e)
<1>1. events[i] \in BagsOver(Moment)
  BY DEF KernelInv, KernelTypeOK
<1>2. BagToSet(events[i]) \subseteq Moment /\ e \in BagToSet(events[i])
  BY <1>1, BagElements DEF Taken, Firsts
<1>3. \A f \in BagToSet(events[i]) : e.time <= f.time
  <2> SUFFICES ASSUME NEW f \in BagToSet(events[i]) PROVE e.time <= f.time
    OBVIOUS
  <2>1. ~Before(f, e)
    BY DEF Taken, Firsts
  <2>2. e.time \in Nat /\ f.time \in Nat
    BY <1>2 DEF Moment
  <2> QED BY <2>1, <2>2 DEF Before
<1>4. /\ BagToSet(Without(i, e)) \subseteq BagToSet(events[i])
      /\ BagToSet(events[i]) \ {e} \subseteq BagToSet(Without(i, e))
  BY <1>1, BagTaken DEF Without
<1>5. BagToSet(events[i]) \ {e} \subseteq BagToSet(b)
  BY <1>4
<1>6. \A f \in BagToSet(b) : Proper(i, f) /\ e.time <= f.time
  BY <1>3, <1>4 DEF KernelInv, KernelTypeOK
<1> QED BY <1>2, <1>3, <1>5, <1>6 DEF Taken, Runs

LEMMA RestOfList ==
  ASSUME KernelInv, NEW i \in Timeline, NEW e, NEW kinds, Taken(i, e, kinds)
  PROVE  /\ e \in Moment /\ e.time \in Nat /\ Without(i, e) \in BagsOver(Moment)
         /\ Proper(i, e) /\ e \in BagToSet(events[i])
<1>1. events[i] \in BagsOver(Moment) /\ e \in BagToSet(events[i])
  BY DEF KernelInv, KernelTypeOK, Taken, Firsts
<1>2. Without(i, e) \in BagsOver(Moment)
  BY <1>1, BagTaken DEF Without
<1>3. e \in Moment
  BY <1>1, BagElements
<1> QED BY <1>1, <1>2, <1>3 DEF Moment, KernelInv, KernelTypeOK

LEMMA NothingSent ==
  ASSUME KernelInv, NEW i \in Timeline, NEW e, UNCHANGED <<windowList, outAppt>>
  PROVE  Sends(i, e)
BY DEF KernelInv, KernelTypeOK, Sends

LEMMA NothingPromised ==
  ASSUME KernelInv, NEW i \in Timeline, NEW e, UNCHANGED <<inAppt, pc>>
  PROVE  Promises(i, e)
BY DEF KernelInv, KernelTypeOK, Promises

LEMMA ActivateRan ==
  ASSUME KernelInv, NEW i \in Timeline, NEW e, Activate(i, e)
  PROVE  Ran(i, e)
<1> DEFINE f == Event(e.time, "exec", i)
           b == Added(Without(i, e), f)
<1>1. Taken(i, e, {"activate"}) /\ events' = [events EXCEPT ![i] = b]
      /\ UNCHANGED <<windowList, outAppt, inAppt, pc, partner, barrierVars>>
  BY DEF Activate
<1>2. e.time \in Nat /\ Without(i, e) \in BagsOver(Moment)
  BY <1>1, RestOfList
<1>3. f \in Moment /\ Proper(i, f) /\ e.time <= f.time
  BY <1>2 DEF Event, Moment, Proper
<1> HIDE DEF f
<1>4. b \in BagsOver(Moment) /\ BagToSet(b) = BagToSet(Without(i, e)) \cup {f}
  BY <1>2, <1>3, BagAdded
<1> HIDE DEF b
<1> DEFINE new == {f}
<1>5. new \in SUBSET Moment /\ \A g \in new : Proper(i, g) /\ e.time <= g.time
  BY <1>3
<1>6. BagToSet(b) = BagToSet(Without(i, e)) \cup new
  BY <1>4
<1> HIDE DEF new
<1> DEFINE kinds == {"activate"}
<1>7. Taken(i, e, kinds) /\ "wait" \notin kinds
  BY <1>1
<1> HIDE DEF kinds
<1>8. Runs(i, e)
  BY <1>1, <1>4, <1>5, <1>6, <1>7, TakenInOrder
<1>9. Sends(i, e) /\ Promises(i, e)
  BY <1>1, NothingSent, NothingPromised
<1> QED BY <1>1, <1>8, <1>9 DEF Ran

LEMMA RunQuietlyRan ==
  ASSUME KernelInv, NEW i \in Timeline, NEW e, RunQuietly(i, e)
  PROVE  Ran(i, e)
<1> DEFINE b == Without(i, e)
           kinds == {"exec", "timeout"}
           new == {}
<1>1. Taken(i, e, kinds) /\ "wait" \notin kinds /\ events' = [events EXCEPT ![i] = b]
      /\ UNCHANGED <<windowList, outAppt, inAppt, pc, partner, barrierVars>>
  BY DEF RunQuietly
<1> HIDE DEF kinds
<1>2. b \in BagsOver(Moment)
  BY <1>1, RestOfList
<1>3. new \in SUBSET Moment /\ BagToSet(b) = BagToSet(Without(i, e)) \cup new
      /\ \A g \in new : Proper(i, g) /\ e.time <= g.time
  OBVIOUS
<1> HIDE DEF new, b
<1>8. Runs(i, e)
  BY <1>1, <1>2, <1>3, TakenInOrder
<1>9. Sends(i, e) /\ Promises(i, e)
  BY <1>1, NothingSent, NothingPromised
<1> QED BY <1>1, <1>8, <1>9 DEF Ran

LEMMA RunAndWaitRan ==
  ASSUME KernelInv, NEW i \in Timeline, NEW e, RunAndWait(i, e)
  PROVE  Ran(i, e)
<1> DEFINE kinds == {"exec", "timeout"}
<1>1. PICK d \in WaitDelays :
        events' = [events EXCEPT ![i] = Added(Without(i, e), Event(e.time + d, "timeout", i))]
  BY DEF RunAndWait
<1> DEFINE f == Event(e.time + d, "timeout", i)
           b == Added(Without(i, e), f)
           new == {f}
<1>2. Taken(i, e, kinds) /\ "wait" \notin kinds /\ events' = [events EXCEPT ![i] = b]
      /\ UNCHANGED <<windowList, outAppt, inAppt, pc, partner, barrierVars>>
  BY <1>1 DEF RunAndWait
<1> HIDE DEF kinds
<1>3. e.time \in Nat /\ d \in Nat /\ Without(i, e) \in BagsOver(Moment)
  BY <1>2, RestOfList, TimelinesAssumption
<1>4. f \in Moment /\ Proper(i, f) /\ e.time <= f.time
  BY <1>3 DEF Event, Moment, Proper
<1> HIDE DEF f
<1>5. b \in BagsOver(Moment) /\ BagToSet(b) = BagToSet(Without(i, e)) \cup new
  BY <1>3, <1>4, BagAdded
<1>6. new \in SUBSET Moment /\ \A g \in new : Proper(i, g) /\ e.time <= g.time
  BY <1>4
<1> HIDE DEF new, b
<1>8. Runs(i, e)
  BY <1>2, <1>5, <1>6, TakenInOrder
<1>9. Sends(i, e) /\ Promises(i, e)
  BY <1>2, NothingSent, NothingPromised
<1> QED BY <1>2, <1>8, <1>9 DEF Ran

\* Where a delivery goes: into a window list only beyond the window, and by
\* appointment only at or after the lookahead.
LEMMA RoutesAreInTime ==
  ASSUME KernelInv, NEW i \in Timeline, NEW c \in ChannelsOf(i), NEW j \in DOMAIN c.transfer,
         NEW now \in Nat, NEW d \in WriteDelays, NEW t, t = now + d + c.transfer[j] + c.minWrite
  PROVE  /\ j \in Timeline /\ t \in Nat /\ now <= t
         /\ Route(c, j, t) = "own" => j = i
         /\ Route(c, j, t) = "window" => t >= stopBefore
         /\ Route(c, j, t) = "appointment" => Meets(i, j) /\ t >= now + Lookahead(i, j)
<1>1. c \in OutChannels /\ c.owner = i
  BY DEF ChannelsOf
<1>2. c.minWrite \in Nat /\ c.transfer[j] \in Nat /\ d \in Nat /\ j \in Timeline
  BY <1>1, TimelinesAssumption
<1> DEFINE m == c.minWrite
           r == c.transfer[j]
<1> HIDE DEF m, r
<1>3. t \in Nat /\ now <= t /\ t = now + d + (m + r) /\ m \in Nat /\ r \in Nat
  BY <1>2 DEF m, r
<1>4. stopBefore \in Int
  BY DEF KernelInv, KernelTypeOK
<1>5. Route(c, j, t) = "own" => j = i
  BY <1>1 DEF Route
<1>6. Route(c, j, t) = "window" => stopBefore <= t
  BY <1>1 DEF Route
<1>7. ASSUME Route(c, j, t) = "appointment" PROVE Meets(i, j) /\ t >= now + Lookahead(i, j)
  <2>1. j # i /\ Asynchronous(c, j)
    BY <1>1, <1>7 DEF Route
  <2>2. j \in Crossing(c)
    BY <1>1, <2>1 DEF Crossing
  <2>3. Meets(i, j) /\ Lookahead(i, j) <= m + r
    BY <1>1, <2>1, <2>2, AppointmentsAreMet DEF m, r
  <2>4. Lookahead(i, j) \in Nat
    BY <1>2, <2>3, AppointmentsAreMet
  <2> QED BY <1>2, <1>3, <2>3, <2>4 DEF m, r
<1> QED BY <1>2, <1>3, <1>4, <1>5, <1>6, <1>7

LEMMA RunAndWriteRan ==
  ASSUME KernelInv, NEW i \in Timeline, NEW e, RunAndWrite(i, e)
  PROVE  Ran(i, e)
<1> DEFINE kinds == {"exec", "timeout"}
<1>1. Taken(i, e, kinds) /\ "wait" \notin kinds /\ UNCHANGED <<inAppt, pc, partner, barrierVars>>
  BY DEF RunAndWrite
<1> HIDE DEF kinds
<1>2. e.time \in Nat /\ Without(i, e) \in BagsOver(Moment)
  BY <1>1, RestOfList
<1>3. PICK c \in ChannelsOf(i), d \in WriteDelays :
       LET at(j) == e.time + d + c.transfer[j] + c.minWrite
           sent(bag, j, route) ==
             IF j \in DOMAIN c.transfer /\ Route(c, j, at(j)) = route
             THEN Added(bag, Event(at(j), "activate", j)) ELSE bag
       IN  /\ events' = [events EXCEPT ![i] = sent(Without(i, e), i, "own")]
           /\ windowList' = [j \in Timeline |-> sent(windowList[j], j, "window")]
           /\ outAppt' = [outAppt EXCEPT ![i] =
                [j \in Timeline |-> sent(outAppt[i][j], j, "appointment")]]
  BY DEF RunAndWrite
<1> DEFINE at(j) == e.time + d + c.transfer[j] + c.minWrite
           To(j, route) == j \in DOMAIN c.transfer /\ Route(c, j, at(j)) = route
           f(j) == Event(at(j), "activate", j)
           sent(bag, j, route) == IF To(j, route) THEN Added(bag, f(j)) ELSE bag
<1>4. /\ events' = [events EXCEPT ![i] = sent(Without(i, e), i, "own")]
      /\ windowList' = [j \in Timeline |-> sent(windowList[j], j, "window")]
      /\ outAppt' = [outAppt EXCEPT ![i] =
                [j \in Timeline |-> sent(outAppt[i][j], j, "appointment")]]
  BY <1>3
<1>5. \A j \in DOMAIN c.transfer :
        /\ j \in Timeline /\ at(j) \in Nat /\ e.time <= at(j)
        /\ Route(c, j, at(j)) = "own" => j = i
        /\ Route(c, j, at(j)) = "window" => at(j) >= stopBefore
        /\ Route(c, j, at(j)) = "appointment" => Meets(i, j) /\ at(j) >= e.time + Lookahead(i, j)
  BY <1>2, RoutesAreInTime
<1> HIDE DEF at
<1>6. \A j, route : To(j, route) =>
        /\ f(j) \in Delivery /\ f(j) \in Moment /\ f(j).time = at(j) /\ Proper(i, f(j))
  BY <1>5 DEF Event, Delivery, Moment, Proper
<1>7. \A j : To(j, "own") => e.time <= f(j).time
  BY <1>5, <1>6
<1>8. \A j : To(j, "window") => f(j).time >= stopBefore
  BY <1>5, <1>6
<1>9. \A j : To(j, "appointment") => Meets(i, j) /\ f(j).time >= e.time + Lookahead(i, j)
  BY <1>5, <1>6
<1> HIDE DEF f, To
<1>10. Runs(i, e)
  <2> DEFINE new == IF To(i, "own") THEN {f(i)} ELSE {}
             b == sent(Without(i, e), i, "own")
  <2>1. new \in SUBSET Moment /\ \A g \in new : Proper(i, g) /\ e.time <= g.time
    BY <1>6, <1>7
  <2>2. b \in BagsOver(Moment) /\ BagToSet(b) = BagToSet(Without(i, e)) \cup new
    BY <1>2, <1>6, BagAdded
  <2>3. events' = [events EXCEPT ![i] = b]
    BY <1>4
  <2> HIDE DEF new, b
  <2> QED BY <1>1, <2>1, <2>2, <2>3, TakenInOrder
<1>11. \A bag \in BagsOver(Delivery) : \A j, route :
         /\ sent(bag, j, route) \in BagsOver(Delivery)
         /\ \A g \in BagToSet(sent(bag, j, route)) : g \in BagToSet(bag) \/ (To(j, route) /\ g = f(j))
  <2> SUFFICES ASSUME NEW bag \in BagsOver(Delivery), NEW j, NEW route
               PROVE  /\ sent(bag, j, route) \in BagsOver(Delivery)
                      /\ \A g \in BagToSet(sent(bag, j, route)) :
                           g \in BagToSet(bag) \/ (To(j, route) /\ g = f(j))
    OBVIOUS
  <2>1. CASE ~To(j, route)
    BY <2>1
  <2>2. CASE To(j, route)
    <3> DEFINE g == f(j)
    <3>1. g \in Delivery
      BY <1>6, <2>2
    <3> HIDE DEF g
    <3>2. Added(bag, g) \in BagsOver(Delivery) /\ BagToSet(Added(bag, g)) = BagToSet(bag) \cup {g}
      BY <3>1, BagAdded
    <3> QED BY <2>2, <3>2 DEF g
  <2> QED BY <2>1, <2>2
<1> HIDE DEF sent
<1>12. Sends(i, e)
  <2>1. windowList \in [Timeline -> BagsOver(Delivery)]
        /\ outAppt \in [Timeline -> [Timeline -> BagsOver(Delivery)]]
    BY DEF KernelInv, KernelTypeOK
  <2>2. windowList' \in [Timeline -> BagsOver(Delivery)]
    BY <1>4, <1>11, <2>1
  <2>3. \A j \in Timeline : \A g \in BagToSet(windowList'[j]) :
          g \in BagToSet(windowList[j]) \/ g.time >= stopBefore
    BY <1>4, <1>8, <1>11, <2>1
  <2> DEFINE row == [j \in Timeline |-> sent(outAppt[i][j], j, "appointment")]
  <2>4. row \in [Timeline -> BagsOver(Delivery)]
    BY <1>11, <2>1
  <2>5. \A j \in Timeline : \A g \in BagToSet(row[j]) :
          g \in BagToSet(outAppt[i][j]) \/ (Meets(i, j) /\ g.time >= e.time + Lookahead(i, j))
    BY <1>9, <1>11, <2>1
  <2>6. outAppt' = [outAppt EXCEPT ![i] = row]
    BY <1>4
  <2> HIDE DEF row
  <2>7. outAppt' \in [Timeline -> [Timeline -> BagsOver(Delivery)]]
    BY <2>1, <2>4, <2>6
  <2>8. \A h, j \in Timeline : \A g \in BagToSet(outAppt'[h][j]) :
          g \in BagToSet(outAppt[h][j]) \/ (h = i /\ Meets(i, j) /\ g.time >= e.time + Lookahead(i, j))
    BY <2>1, <2>5, <2>6
  <2> QED BY <2>2, <2>3, <2>7, <2>8 DEF Sends
<1>13. Promises(i, e)
  BY <1>1, NothingPromised
<1> QED BY <1>1, <1>10, <1>12, <1>13 DEF Ran

LEMMA MakeApptRan ==
  ASSUME KernelInv, NEW i \in Timeline, NEW e, MakeAppt(i, e)
  PROVE  Ran(i, e)
<1> DEFINE kinds == {"make"}
           j == e.peer
           next == e.time + Lookahead(i, j)
           f == Event(next, "make", j)
           b == Added(Without(i, e), f)
           new == {f}
<1>1. /\ Taken(i, e, kinds) /\ "wait" \notin kinds /\ e.kind = "make"
      /\ inAppt' = [inAppt EXCEPT ![j][i] = next]
      /\ events' = [events EXCEPT ![i] = b]
      /\ pc' = [pc EXCEPT ![j] = IF pc[j] = "blocked" /\ partner[j] = i THEN "renew" ELSE pc[j]]
      /\ UNCHANGED <<windowList, outAppt, partner, barrierVars>>
  <2>1. pc' = [pc EXCEPT ![j] = IF @ = "blocked" /\ partner[j] = i THEN "renew" ELSE @]
    BY DEF MakeAppt
  <2> QED BY <2>1 DEF MakeAppt, Taken
<1> HIDE DEF kinds
<1>2. e \in Moment /\ e.time \in Nat /\ Without(i, e) \in BagsOver(Moment) /\ Proper(i, e)
  BY <1>1, RestOfList
<1>3. j \in Timeline /\ Meets(i, j) /\ Lookahead(i, j) \in Nat
  <2>1. j \in Timeline /\ Meets(i, j)
    BY <1>1, <1>2 DEF Moment, Proper
  <2> QED BY <2>1, AppointmentsAreMet
<1> HIDE DEF j
<1>4. next \in Nat /\ e.time <= next
  BY <1>2, <1>3
<1> HIDE DEF next
<1>5. f \in Moment /\ Proper(i, f) /\ e.time <= f.time
  BY <1>3, <1>4 DEF Event, Moment, Proper
<1> HIDE DEF f
<1>6. b \in BagsOver(Moment) /\ BagToSet(b) = BagToSet(Without(i, e)) \cup new
  BY <1>2, <1>5, BagAdded
<1>7. new \in SUBSET Moment /\ \A g \in new : Proper(i, g) /\ e.time <= g.time
  BY <1>5
<1> HIDE DEF new, b
<1>8. Runs(i, e)
  BY <1>1, <1>6, <1>7, TakenInOrder
<1>9. Sends(i, e)
  BY <1>1, NothingSent
<1>10. Promises(i, e)
  <2>1. inAppt \in [Timeline -> [Timeline -> Nat \cup {-1}]] /\ pc \in [Timeline -> Places]
    BY DEF KernelInv, KernelTypeOK
  <2>2. inAppt' \in [Timeline -> [Timeline -> Nat \cup {-1}]]
        /\ \A h, k \in Timeline : inAppt'[k][h] = IF k = j /\ h = i THEN next ELSE inAppt[k][h]
    BY <1>1, <1>3, <1>4, <2>1
  <2>3. pc' \in [Timeline -> Places]
        /\ \A k \in Timeline : pc'[k] = pc[k] \/
             (k = j /\ pc[k] = "blocked" /\ partner[k] = i /\ pc'[k] = "renew")
    BY <1>1, <1>3, <2>1 DEF Places, Inside
  <2>4. next = e.time + Lookahead(i, j)
    BY DEF next
  <2> QED BY <1>3, <2>2, <2>3, <2>4 DEF Promises
<1> QED BY <1>1, <1>8, <1>9, <1>10 DEF Ran

-----------------------------------------------------------------------------
(* Appointments.                                                           *)

\* What the parts of the invariant say of the lists.
LEMMA ListsTyped ==
  ASSUME KernelTypeOK
  PROVE  /\ events \in [Timeline -> BagsOver(Moment)] /\ windowList \in [Timeline -> BagsOver(Delivery)]
         /\ outAppt \in [Timeline -> [Timeline -> BagsOver(Delivery)]]
         /\ \A j \in Timeline :
              /\ time[j] \in Nat /\ \A f \in BagToSet(events[j]) : f \in Moment /\ f.time \in Nat
              /\ \A f \in BagToSet(windowList[j]) : f \in Delivery /\ f.time \in Nat
              /\ \A h \in Timeline : \A f \in BagToSet(outAppt[h][j]) : f \in Delivery /\ f.time \in Nat
<1>1. /\ events \in [Timeline -> BagsOver(Moment)] /\ windowList \in [Timeline -> BagsOver(Delivery)]
      /\ outAppt \in [Timeline -> [Timeline -> BagsOver(Delivery)]] /\ time \in [Timeline -> Nat]
  BY DEF KernelTypeOK
<1>2. \A f \in Moment : f.time \in Nat
  BY DEF Moment
<1>3. Delivery \subseteq Moment
  BY DEF Delivery
<1>4. \A j \in Timeline : /\ BagToSet(events[j]) \subseteq Moment
                          /\ BagToSet(windowList[j]) \subseteq Delivery
                          /\ \A h \in Timeline : BagToSet(outAppt[h][j]) \subseteq Delivery
  BY <1>1, BagElements
<1> QED BY <1>1, <1>2, <1>3, <1>4

\* A timeline that reaches a wait event stops there for its partner only.
LEMMA WaitApptKeeps ==
  ASSUME KernelInv, NEW i \in Timeline, NEW e, WaitAppt(i, e)
  PROVE  KernelInv' /\ Onward
<1> USE DEF KernelInv
<1> DEFINE p == e.peer
           kinds == {"wait"}
<1>1. /\ Taken(i, e, kinds) /\ e.kind = "wait"
      /\ events' = [events EXCEPT ![i] = Without(i, e)]
      /\ partner' = [partner EXCEPT ![i] = p]
      /\ pc' = [pc EXCEPT ![i] = IF e.time < inAppt[i][p] THEN "renew" ELSE "blocked"]
      /\ UNCHANGED <<windowList, outAppt, inAppt, barrierVars, acts, dropped>>
      /\ pc[i] = "run" /\ e.time < stopBefore /\ time' = [time EXCEPT ![i] = e.time]
  BY DEF WaitAppt, Taken
<1> HIDE DEF kinds
<1>2. e \in Moment /\ e.time \in Nat /\ Without(i, e) \in BagsOver(Moment) /\ Proper(i, e)
      /\ e \in BagToSet(events[i])
  BY <1>1, RestOfList
<1>3. p \in Timeline /\ Meets(p, i)
  BY <1>1, <1>2 DEF Moment, Proper
<1> HIDE DEF p
<1>4. /\ events \in [Timeline -> BagsOver(Moment)] /\ time \in [Timeline -> Nat]
      /\ partner \in [Timeline -> Timeline] /\ pc \in [Timeline -> Places] /\ stopBefore \in Int
  BY DEF KernelTypeOK
<1>5. /\ \A f \in BagToSet(events[i]) : e.time <= f.time
      /\ BagToSet(Without(i, e)) \subseteq BagToSet(events[i])
      /\ BagToSet(events[i]) \ {e} \subseteq BagToSet(Without(i, e))
  <2>1. \A f \in BagToSet(events[i]) : f.time \in Nat
    BY ListsTyped
  <2>2. \A f \in BagToSet(events[i]) : ~Before(f, e)
    BY <1>1 DEF Taken, Firsts
  <2>3. \A f \in BagToSet(events[i]) : e.time <= f.time
    BY <1>2, <2>1, <2>2 DEF Before
  <2>4. events[i] \in BagsOver(Moment)
    BY <1>4
  <2> QED BY <2>3, <2>4, BagTaken DEF Without
<1>6. /\ \A j \in Timeline : time'[j] = IF j = i THEN e.time ELSE time[j]
      /\ \A j \in Timeline : events'[j] = IF j = i THEN Without(i, e) ELSE events[j]
      /\ \A j \in Timeline : partner'[j] = IF j = i THEN p ELSE partner[j]
      /\ \A j \in Timeline : j # i => pc'[j] = pc[j]
      /\ pc'[i] = IF e.time < inAppt[i][p] THEN "renew" ELSE "blocked"
  BY <1>1, <1>4
<1>7. e.time >= time[i]
  BY <1>2 DEF NothingLate
<1>8. time' \in [Timeline -> Nat] /\ Onward
  BY <1>1, <1>2, <1>4, <1>6, <1>7 DEF Onward
<1>9. KernelTypeOK'
  <2>1. \A j \in Timeline : \A f \in BagToSet(events'[j]) : Proper(j, f)
    BY <1>5, <1>6 DEF KernelTypeOK
  <2>2. events' \in [Timeline -> BagsOver(Moment)] /\ partner' \in [Timeline -> Timeline]
    BY <1>1, <1>2, <1>3, <1>4
  <2>3. pc' \in [Timeline -> Places]
    BY <1>1, <1>4 DEF Places, Inside
  <2>4. UNCHANGED <<windowList, outAppt, inAppt, bottom, prevBottom, stopBefore, epochEnd, clock,
                    offered, plan>>
    BY <1>1 DEF barrierVars
  <2> QED BY <1>8, <2>1, <2>2, <2>3, <2>4 DEF KernelTypeOK, Proper
<1>10. \A h \in Timeline : Meets(h, i) =>
        /\ e.time <= Promised(h, i)
        /\ \A m \in BagToSet(outAppt[h][i]) : e.time <= m.time
        /\ h # p => \E w \in BagToSet(events'[i]) : Stops(h, i, w)
  <2> SUFFICES ASSUME NEW h \in Timeline, Meets(h, i)
               PROVE  /\ e.time <= Promised(h, i)
                      /\ \A m \in BagToSet(outAppt[h][i]) : e.time <= m.time
                      /\ h # p => \E w \in BagToSet(events'[i]) : Stops(h, i, w)
    OBVIOUS
  <2>1. PICK w \in BagToSet(events[i]) : Stops(h, i, w)
    BY <1>1 DEF Appointments, Met, Stands
  <2>2. w.time <= Promised(h, i) /\ w.peer = h /\ \A m \in BagToSet(outAppt[h][i]) : w.time <= m.time
    BY <1>1, <2>1 DEF Stops
  <2>3. e.time <= w.time /\ w.time \in Nat
    BY <1>5, ListsTyped
  <2>4. Promised(h, i) \in Nat \cup {-1} /\ \A m \in BagToSet(outAppt[h][i]) : m.time \in Nat
    <3>1. inAppt[i][h] \in Nat \cup {-1} /\ Lookahead(h, i) \in Nat
      BY AppointmentsAreMet DEF KernelTypeOK
    <3>2. Promised(h, i) \in Nat
      BY <3>1 DEF Promised
    <3> QED BY <3>2, ListsTyped
  <2>5. e.time <= Promised(h, i)
    BY <1>2, <2>2, <2>3, <2>4
  <2>6. \A m \in BagToSet(outAppt[h][i]) : e.time <= m.time
    BY <1>2, <2>2, <2>3, <2>4
  <2>7. ASSUME h # p PROVE w \in BagToSet(events'[i])
    <3>1. w # e
      BY <2>2, <2>7 DEF p
    <3> QED BY <1>5, <1>6, <3>1
  <2> QED BY <2>1, <2>5, <2>6, <2>7
<1>11. NothingLate'
  <2>1. \A j \in Timeline : \A f \in BagToSet(events'[j]) : f.time >= time'[j]
    BY <1>5, <1>6 DEF NothingLate
  <2>2. ASSUME NEW j \in Timeline, NEW f \in BagToSet(windowList'[j]) PROVE f.time >= time'[j]
    <3>1. windowList' = windowList /\ f \in BagToSet(windowList[j])
      BY <1>1
    <3>2. j = i => f.time >= stopBefore
      BY <1>1, <3>1 DEF Phases, Inside
    <3>3. f.time >= time[j] /\ f.time \in Nat
      BY <3>1, ListsTyped DEF NothingLate
    <3> QED BY <1>1, <1>2, <1>4, <1>6, <3>2, <3>3
  <2>3. ASSUME NEW h \in Timeline, NEW j \in Timeline, NEW m \in BagToSet(outAppt'[h][j])
        PROVE  m.time >= time'[j]
    <3>1. m \in BagToSet(outAppt[h][j])
      BY <1>1
    <3>2. j = i => e.time <= m.time
      BY <1>10, <3>1 DEF Appointments
    <3>3. m.time >= time[j] /\ m.time \in Nat
      BY <3>1, ListsTyped DEF NothingLate
    <3> QED BY <1>2, <1>6, <3>2, <3>3
  <2> QED BY <2>1, <2>2, <2>3 DEF NothingLate
<1>12. Phases'
  <2>1. UNCHANGED <<stopBefore, bottom, prevBottom, epochEnd, windowList>>
    BY <1>1 DEF barrierVars
  <2>2. \A j \in Timeline : pc[j] \in Inside
    BY <1>1 DEF Phases, Inside
  <2>3. \A j \in Timeline : pc'[j] \in Inside /\ (pc'[j] = "ended" => j # i /\ pc[j] = "ended")
    BY <1>6, <2>2 DEF Inside
  <2>4. \A j \in Timeline : /\ time'[j] < stopBefore
                            /\ pc'[j] = "ended" => time'[j] = stopBefore - 1
                            /\ \A f \in BagToSet(windowList[j]) : f.time >= stopBefore
    BY <1>1, <1>6, <2>2, <2>3 DEF Phases
  <2>5. \A j \in Timeline : pc'[j] \notin {"collect", "offered"} /\ pc[j] # "offered"
    BY <2>2, <2>3 DEF Inside
  <2>6. bottom = prevBottom
    BY <2>5 DEF Phases
  <2> QED BY <2>1, <2>3, <2>4, <2>5, <2>6 DEF Phases
<1>13. Appointments'
  <2>1. \A h, j \in Timeline : Promised(h, j)' = Promised(h, j)
    BY <1>1 DEF Promised
  <2>2. ASSUME NEW h \in Timeline, NEW j \in Timeline, ~Meets(h, j)
        PROVE  BagToSet(outAppt'[h][j]) = {}
    BY <1>1, <2>2 DEF Appointments
  <2>3. ASSUME NEW h \in Timeline, NEW j \in Timeline, Meets(h, j)
        PROVE  Met(h, j)'
    <3>1. Met(h, j)
      BY <2>3 DEF Appointments
    <3>2. time'[h] + Lookahead(h, j) >= Promised(h, j)
      <4> DEFINE L == Lookahead(h, j)
                 q == Promised(h, j)
      <4>1. L \in Nat /\ time[h] + L >= q /\ time'[h] >= time[h] /\ time[h] \in Nat /\ time'[h] \in Nat
        BY <1>4, <1>8, <2>3, <3>1, AppointmentsAreMet DEF Met, Onward
      <4>2. q \in Int
        <5>1. inAppt[j][h] \in Nat \cup {-1}
          BY DEF KernelTypeOK
        <5>2. L \in Nat
          BY <4>1
        <5> QED BY <5>1, <5>2 DEF Promised
      <4> HIDE DEF L, q
      <4>3. time'[h] + L >= q
        BY <4>1, <4>2
      <4> QED BY <4>3 DEF L, q
    <3>3. time'[j] <= Promised(h, j)
      BY <1>6, <1>10, <2>3, <3>1 DEF Met
    <3>4. Stands(h, j)' \/ \E w \in BagToSet(events'[j]) : Stops(h, j, w)'
      <4>1. CASE j # i
        BY <1>1, <1>6, <2>1, <3>1, <4>1 DEF Met, Stands, Stops
      <4>2. CASE j = i /\ h = p
        BY <1>6, <4>2 DEF Stands
      <4>3. CASE j = i /\ h # p
        <5>1. PICK w \in BagToSet(events'[i]) : Stops(h, i, w)
          BY <1>10, <2>3, <4>3
        <5>2. Stops(h, i, w)'
          BY <1>1, <2>1, <5>1 DEF Stops
        <5> QED BY <4>3, <5>1, <5>2
      <4> QED BY <4>1, <4>2, <4>3
    <3>5. pc'[j] = "renew" /\ partner'[j] = h => time'[j] <= inAppt[j][h]
      <4>1. CASE j # i
        BY <1>6, <3>1, <4>1 DEF Met
      <4>2. CASE j = i
        <5> SUFFICES ASSUME pc'[i] = "renew", h = p PROVE e.time <= inAppt[i][p]
          BY <1>6, <4>2
        <5>1. e.time < inAppt[i][p]
          BY <1>6
        <5>2. inAppt[i][p] \in Int
          BY <1>3 DEF KernelTypeOK
        <5> QED BY <1>2, <5>1, <5>2
      <4> QED BY <4>1, <4>2
    <3> QED BY <1>1, <2>1, <3>2, <3>3, <3>4, <3>5 DEF Met
  <2>4. ASSUME NEW j \in Timeline, pc'[j] \in {"blocked", "renew", "fetch"}
        PROVE  Meets(partner'[j], j)
    BY <1>3, <1>6, <2>4 DEF Appointments
  <2> QED BY <2>2, <2>3, <2>4 DEF Appointments, Meets, Lookahead
<1> QED BY <1>8, <1>9, <1>11, <1>12, <1>13

\* The new wait event is at what the partner promises now; it is there before
\* the partner's events are taken.
LEMMA RenewApptKeeps ==
  ASSUME KernelInv, NEW i \in Timeline, RenewAppt(i)
  PROVE  KernelInv' /\ Onward
<1> USE DEF KernelInv
<1> DEFINE p == partner[i]
           f == Event(inAppt[i][p], "wait", p)
           b == Added(events[i], f)
<1>1. /\ pc[i] = "renew" /\ events' = [events EXCEPT ![i] = b]
      /\ pc' = [pc EXCEPT ![i] = "fetch"]
      /\ UNCHANGED <<windowList, outAppt, inAppt, time, partner, barrierVars, acts, dropped>>
  BY DEF RenewAppt
<1>2. /\ events \in [Timeline -> BagsOver(Moment)] /\ time \in [Timeline -> Nat]
      /\ partner \in [Timeline -> Timeline] /\ pc \in [Timeline -> Places]
      /\ inAppt \in [Timeline -> [Timeline -> Nat \cup {-1}]]
  BY DEF KernelTypeOK
<1>3. p \in Timeline /\ Meets(p, i) /\ inAppt[i][p] \in Nat /\ time[i] <= inAppt[i][p]
  <2>1. p \in Timeline /\ Meets(p, i)
    BY <1>1, <1>2 DEF Appointments
  <2>2. time[i] <= inAppt[i][p]
    BY <1>1, <2>1 DEF Appointments, Met
  <2> QED BY <1>2, <2>1, <2>2
<1>4. f \in Moment /\ f.time = inAppt[i][p] /\ f.kind = "wait" /\ f.peer = p /\ Proper(i, f)
  BY <1>3 DEF Event, Moment, Proper
<1> HIDE DEF f
<1>5. b \in BagsOver(Moment) /\ BagToSet(b) = BagToSet(events[i]) \cup {f}
  BY <1>2, <1>4, BagAdded
<1> HIDE DEF b, p
<1>6. /\ \A j \in Timeline : events'[j] = IF j = i THEN b ELSE events[j]
      /\ \A j \in Timeline : pc'[j] = IF j = i THEN "fetch" ELSE pc[j]
  BY <1>1, <1>2
<1>7. Onward
  BY <1>1, <1>2 DEF Onward
<1>8. KernelTypeOK'
  <2>1. \A j \in Timeline : \A g \in BagToSet(events'[j]) : Proper(j, g)
    BY <1>4, <1>5, <1>6 DEF KernelTypeOK
  <2>2. events' \in [Timeline -> BagsOver(Moment)]
    BY <1>1, <1>2, <1>5
  <2>3. pc' \in [Timeline -> Places]
    BY <1>1, <1>2 DEF Places, Inside
  <2>4. UNCHANGED <<windowList, outAppt, inAppt, time, partner, bottom, prevBottom, stopBefore,
                    epochEnd, clock, offered, plan>>
    BY <1>1 DEF barrierVars
  <2> QED BY <2>1, <2>2, <2>3, <2>4 DEF KernelTypeOK, Proper
<1>9. NothingLate'
  BY <1>1, <1>2, <1>3, <1>4, <1>5, <1>6 DEF NothingLate
<1>10. Phases'
  <2>1. UNCHANGED <<stopBefore, bottom, prevBottom, epochEnd, windowList, time>>
    BY <1>1 DEF barrierVars
  <2>2. \A j \in Timeline : pc[j] \in Inside
    BY <1>1 DEF Phases, Inside
  <2>3. \A j \in Timeline : pc'[j] \in Inside /\ (pc'[j] = "ended" => pc[j] = "ended")
    BY <1>6, <2>2 DEF Inside
  <2>4. \A j \in Timeline : pc'[j] \notin {"collect", "offered"} /\ pc[j] # "offered"
    BY <2>2, <2>3 DEF Inside
  <2>5. bottom = prevBottom
    BY <2>4 DEF Phases
  <2> QED BY <2>1, <2>2, <2>3, <2>4, <2>5 DEF Phases
<1>11. Appointments'
  <2>1. \A h, j \in Timeline : Promised(h, j)' = Promised(h, j)
    BY <1>1 DEF Promised
  <2>2. ASSUME NEW h \in Timeline, NEW j \in Timeline, ~Meets(h, j)
        PROVE  BagToSet(outAppt'[h][j]) = {}
    BY <1>1, <2>2 DEF Appointments
  <2>3. ASSUME NEW h \in Timeline, NEW j \in Timeline, Meets(h, j)
        PROVE  Met(h, j)'
    <3>1. Met(h, j)
      BY <2>3 DEF Appointments
    <3>2. CASE j # i
      BY <1>1, <1>6, <2>1, <3>1, <3>2 DEF Met, Stands, Stops
    <3>3. CASE j = i
      <4>1. time'[h] + Lookahead(h, j) >= Promised(h, j)' /\ time'[j] <= Promised(h, j)'
        BY <1>1, <2>1, <3>1 DEF Met
      <4>2. \E w \in BagToSet(events'[i]) : Stops(h, i, w)'
        <5>1. CASE h = p
          <6>1. PICK w \in BagToSet(events'[i]) : w = f
            BY <1>5, <1>6
          <6>2. Promised(h, i)' = inAppt[i][p]
            BY <1>1, <1>3, <5>1 DEF Promised
          <6>3. w.kind = "wait" /\ w.peer = h /\ w.time <= Promised(h, i)'
            BY <1>3, <1>4, <5>1, <6>1, <6>2
          <6>4. pc'[i] = "fetch" /\ partner'[i] = h
            BY <1>1, <1>6, <5>1 DEF p
          <6>5. Stops(h, i, w)'
            BY <6>3, <6>4 DEF Stops
          <6> QED BY <6>1, <6>5
        <5>2. CASE h # p
          <6>1. PICK w \in BagToSet(events[i]) : Stops(h, i, w)
            BY <3>1, <3>3, <5>2 DEF Met, Stands, p
          <6>2. w \in BagToSet(events'[i])
            BY <1>5, <1>6
          <6>3. Stops(h, i, w)'
            BY <1>1, <2>1, <6>1 DEF Stops
          <6> QED BY <6>2, <6>3
        <5> QED BY <5>1, <5>2
      <4>3. pc'[j] # "renew"
        BY <1>6, <3>3
      <4> QED BY <3>3, <4>1, <4>2, <4>3 DEF Met
    <3> QED BY <3>2, <3>3
  <2>4. ASSUME NEW j \in Timeline, pc'[j] \in {"blocked", "renew", "fetch"}
        PROVE  Meets(partner'[j], j)
    BY <1>1, <1>6, <2>4 DEF Appointments
  <2> QED BY <2>2, <2>3, <2>4 DEF Appointments, Meets, Lookahead
<1> QED BY <1>7, <1>8, <1>9, <1>10, <1>11

LEMMA FetchKeeps ==
  ASSUME KernelInv, NEW i \in Timeline, Fetch(i)
  PROVE  KernelInv' /\ Onward
<1> USE DEF KernelInv
<1> DEFINE p == partner[i]
           fetched == outAppt[p][i]
           b == events[i] (+) fetched
<1>1. /\ pc[i] = "fetch" /\ events' = [events EXCEPT ![i] = b]
      /\ outAppt' = [outAppt EXCEPT ![p][i] = EmptyBag]
      /\ pc' = [pc EXCEPT ![i] = "run"]
      /\ partner' = [partner EXCEPT ![i] = i]
      /\ UNCHANGED <<windowList, inAppt, time, barrierVars, acts, dropped>>
  BY DEF Fetch
<1>2. /\ events \in [Timeline -> BagsOver(Moment)] /\ time \in [Timeline -> Nat]
      /\ outAppt \in [Timeline -> [Timeline -> BagsOver(Delivery)]]
      /\ partner \in [Timeline -> Timeline] /\ pc \in [Timeline -> Places]
  BY DEF KernelTypeOK
<1>3. p \in Timeline /\ Meets(p, i)
  BY <1>1, <1>2 DEF Appointments
<1>4. fetched \in BagsOver(Moment) /\ \A g \in BagToSet(fetched) : g \in Moment /\ g.kind = "activate"
  <2>1. fetched \in BagsOver(Delivery)
    BY <1>2, <1>3
  <2>2. BagsOver(Delivery) \subseteq BagsOver(Moment)
    BY DEF BagsOver, Delivery
  <2>3. BagToSet(fetched) \subseteq Delivery
    BY <2>1, BagElements
  <2> QED BY <2>1, <2>2, <2>3 DEF Delivery
<1> HIDE DEF p
<1>5. \A g \in BagToSet(fetched) : Proper(i, g) /\ g.time >= time[i]
  BY <1>3, <1>4 DEF Proper, NothingLate
<1> HIDE DEF fetched
<1>6. b \in BagsOver(Moment) /\ BagToSet(b) = BagToSet(events[i]) \cup BagToSet(fetched)
  BY <1>2, <1>4, BagSum
<1> HIDE DEF b
<1>7. /\ \A j \in Timeline : events'[j] = IF j = i THEN b ELSE events[j]
      /\ \A j \in Timeline : pc'[j] = IF j = i THEN "run" ELSE pc[j]
      /\ \A j \in Timeline : partner'[j] = IF j = i THEN i ELSE partner[j]
      /\ \A h, j \in Timeline : outAppt'[h][j] = IF h = p /\ j = i THEN EmptyBag ELSE outAppt[h][j]
  BY <1>1, <1>2, <1>3
<1>8. \A h, j \in Timeline : BagToSet(outAppt'[h][j]) \subseteq BagToSet(outAppt[h][j])
  <2>1. BagToSet(EmptyBag) = {}
    BY BagIsEmpty
  <2> QED BY <1>7, <2>1
<1>9. Onward
  BY <1>1, <1>2 DEF Onward
<1>10. KernelTypeOK'
  <2>1. \A j \in Timeline : \A g \in BagToSet(events'[j]) : Proper(j, g)
    BY <1>5, <1>6, <1>7 DEF KernelTypeOK
  <2>2. events' \in [Timeline -> BagsOver(Moment)] /\ partner' \in [Timeline -> Timeline]
    BY <1>1, <1>2, <1>6
  <2>3. pc' \in [Timeline -> Places]
    BY <1>1, <1>2 DEF Places, Inside
  <2>4. EmptyBag \in BagsOver(Delivery)
    BY BagIsEmpty
  <2>5. outAppt' \in [Timeline -> [Timeline -> BagsOver(Delivery)]]
    BY <1>1, <1>2, <1>3, <2>4
  <2>6. UNCHANGED <<windowList, inAppt, time, bottom, prevBottom, stopBefore,
                    epochEnd, clock, offered, plan>>
    BY <1>1 DEF barrierVars
  <2> QED BY <2>1, <2>2, <2>3, <2>5, <2>6 DEF KernelTypeOK, Proper
<1>11. NothingLate'
  <2>1. \A j \in Timeline : \A g \in BagToSet(events'[j]) : g.time >= time[j]
    BY <1>5, <1>6, <1>7 DEF NothingLate
  <2>2. \A h, j \in Timeline : \A g \in BagToSet(outAppt'[h][j]) : g.time >= time[j]
    BY <1>8 DEF NothingLate
  <2>3. \A j \in Timeline : \A g \in BagToSet(windowList[j]) : g.time >= time[j]
    BY DEF NothingLate
  <2>4. time' = time /\ windowList' = windowList
    BY <1>1
  <2> QED BY <2>1, <2>2, <2>3, <2>4 DEF NothingLate
<1>12. Phases'
  <2>1. UNCHANGED <<stopBefore, bottom, prevBottom, epochEnd, windowList, time>>
    BY <1>1 DEF barrierVars
  <2>2. \A j \in Timeline : pc[j] \in Inside
    BY <1>1 DEF Phases, Inside
  <2>3. \A j \in Timeline : pc'[j] \in Inside /\ (pc'[j] = "ended" => pc[j] = "ended")
    BY <1>7, <2>2 DEF Inside
  <2>4. \A j \in Timeline : pc'[j] \notin {"collect", "offered"} /\ pc[j] # "offered"
    BY <2>2, <2>3 DEF Inside
  <2>5. bottom = prevBottom
    BY <2>4 DEF Phases
  <2> QED BY <2>1, <2>2, <2>3, <2>4, <2>5 DEF Phases
<1>13. Appointments'
  <2>1. \A h, j \in Timeline : Promised(h, j)' = Promised(h, j)
    BY <1>1 DEF Promised
  <2>2. ASSUME NEW h \in Timeline, NEW j \in Timeline, ~Meets(h, j)
        PROVE  BagToSet(outAppt'[h][j]) = {}
    BY <1>8, <2>2 DEF Appointments
  <2>3. ASSUME NEW h \in Timeline, NEW j \in Timeline, Meets(h, j)
        PROVE  Met(h, j)'
    <3>1. Met(h, j)
      BY <2>3 DEF Appointments
    <3>2. CASE j # i
      <4>1. Stands(h, j) => Stands(h, j)'
        BY <1>7, <3>2 DEF Stands
      <4>2. \A w \in BagToSet(events[j]) : w \in BagToSet(events'[j]) /\ (Stops(h, j, w) => Stops(h, j, w)')
        BY <1>7, <1>8, <2>1, <3>2 DEF Stops
      <4> QED BY <1>1, <1>7, <2>1, <3>1, <3>2, <4>1, <4>2 DEF Met
    <3>3. CASE j = i
      <4>1. time'[h] + Lookahead(h, j) >= Promised(h, j)' /\ time'[j] <= Promised(h, j)'
        BY <1>1, <2>1, <3>1 DEF Met
      <4>2. PICK w \in BagToSet(events[i]) : Stops(h, i, w)
        BY <1>1, <3>1, <3>3 DEF Met, Stands
      <4>3. w \in BagToSet(events'[i])
        BY <1>6, <1>7
      <4>4. \A m \in BagToSet(outAppt'[h][i]) : w.time <= m.time
        <5>1. CASE h = p
          BY <1>7, <5>1, BagIsEmpty
        <5>2. CASE h # p
          BY <1>7, <4>2, <5>2 DEF Stops, p
        <5> QED BY <5>1, <5>2
      <4>5. Stops(h, i, w)'
        BY <2>1, <4>2, <4>4 DEF Stops
      <4>6. pc'[j] # "renew"
        BY <1>7, <3>3
      <4> QED BY <3>3, <4>1, <4>3, <4>5, <4>6 DEF Met
    <3> QED BY <3>2, <3>3
  <2>4. ASSUME NEW j \in Timeline, pc'[j] \in {"blocked", "renew", "fetch"}
        PROVE  Meets(partner'[j], j)
    BY <1>7, <2>4 DEF Appointments
  <2> QED BY <2>2, <2>3, <2>4 DEF Appointments, Meets, Lookahead
<1> QED BY <1>9, <1>10, <1>11, <1>12, <1>13

-----------------------------------------------------------------------------
(* Windows.                                                                *)

\* A list that is not empty has a first event.
LEMMA BagNotEmpty ==
  ASSUME NEW S, NEW b \in BagsOver(S), b # EmptyBag
  PROVE  BagToSet(b) # {}
<1>1. b \in [BagToSet(b) -> Copies]
  BY BagElements
<1>2. EmptyBag \in [{} -> Copies]
  BY DEF EmptyBag, SetToBag
<1> QED BY <1>1, <1>2

\* The edge that a timeline offers lies beyond its clock: the least delay that
\* a write across windows takes is not below the window size.
LEMMA BearableIsAhead ==
  ASSUME NEW i \in Timeline, NEW list \in BagsOver(Moment), time[i] \in Nat
  PROVE  Bearable(i, list) \in Int /\ time[i] < Bearable(i, list)
<1> DEFINE T == {e.time : e \in BagToSet(list)}
           next == IF list = EmptyBag THEN -1 ELSE Min(T)
           from == Larger(time[i], next)
           W == WindowSize
           S == MinSync(i)
<1>1. next \in Int
  <2>1. CASE list = EmptyBag
    BY <2>1
  <2>2. CASE list # EmptyBag
    <3>1. BagToSet(list) # {} /\ BagToSet(list) \subseteq Moment
      BY <2>2, BagNotEmpty, BagElements
    <3>2. T \in SUBSET Nat /\ T # {}
      BY <3>1 DEF Moment
    <3>3. Min(T) \in T
      BY <3>2, LeastIsMin
    <3> QED BY <2>2, <3>2, <3>3
  <2> QED BY <2>1, <2>2
<1>2. Bearable(i, list) = IF next < 0 \/ S < 0 THEN from + W ELSE from + S
  BY DEF Bearable
<1> HIDE DEF next
<1>3. from \in Int /\ time[i] <= from
  BY <1>1 DEF Larger
<1>4. W \in Nat /\ W > 0 /\ (S = -1 \/ (S \in Nat /\ S >= W))
  BY WindowIsPositive, SyncBeyondWindow
<1> HIDE DEF from, W, S
<1> QED BY <1>1, <1>2, <1>3, <1>4

\* A window that ends: whatever a timeline has not executed lies beyond it.
LEMMA EndWindowKeeps ==
  ASSUME KernelInv, NEW i \in Timeline, EndWindow(i)
  PROVE  KernelInv' /\ Onward
<1> USE DEF KernelInv
<1>1. /\ pc[i] = "run" /\ \A e \in BagToSet(events[i]) : e.time >= stopBefore
      /\ time' = [time EXCEPT ![i] = stopBefore - 1]
      /\ pc' = [pc EXCEPT ![i] = "ended"]
      /\ UNCHANGED <<events, windowList, outAppt, inAppt, partner, barrierVars, acts, dropped>>
  BY DEF EndWindow
<1>2. time \in [Timeline -> Nat] /\ pc \in [Timeline -> Places] /\ stopBefore \in Int
  BY DEF KernelTypeOK
<1>3. time[i] < stopBefore /\ stopBefore - 1 \in Nat /\ stopBefore - 1 >= time[i]
  <2>1. time[i] < stopBefore
    BY <1>1 DEF Phases, Inside
  <2> QED BY <1>2, <2>1
<1>4. /\ \A j \in Timeline : time'[j] = IF j = i THEN stopBefore - 1 ELSE time[j]
      /\ \A j \in Timeline : pc'[j] = IF j = i THEN "ended" ELSE pc[j]
  BY <1>1, <1>2
<1>5. time' \in [Timeline -> Nat] /\ Onward
  BY <1>1, <1>2, <1>3, <1>4 DEF Onward
<1>6. KernelTypeOK'
  <2>1. pc' \in [Timeline -> Places]
    BY <1>1, <1>2 DEF Places, Inside
  <2>2. UNCHANGED <<events, windowList, outAppt, inAppt, partner, bottom, prevBottom, stopBefore,
                    epochEnd, clock, offered, plan>>
    BY <1>1 DEF barrierVars
  <2> QED BY <1>5, <2>1, <2>2 DEF KernelTypeOK, Proper
<1>7. \A h \in Timeline : Meets(h, i) =>
        /\ stopBefore - 1 <= Promised(h, i)
        /\ \A m \in BagToSet(outAppt[h][i]) : stopBefore - 1 <= m.time
  <2> SUFFICES ASSUME NEW h \in Timeline, Meets(h, i)
               PROVE  /\ stopBefore - 1 <= Promised(h, i)
                      /\ \A m \in BagToSet(outAppt[h][i]) : stopBefore - 1 <= m.time
    OBVIOUS
  <2>1. PICK w \in BagToSet(events[i]) : Stops(h, i, w)
    BY <1>1 DEF Appointments, Met, Stands
  <2>2. w.time <= Promised(h, i) /\ \A m \in BagToSet(outAppt[h][i]) : w.time <= m.time
    BY <1>1, <2>1 DEF Stops
  <2>3. w.time \in Nat /\ w.time >= stopBefore
    BY <1>1, ListsTyped
  <2>4. Promised(h, i) \in Nat /\ \A m \in BagToSet(outAppt[h][i]) : m.time \in Nat
    <3>1. inAppt[i][h] \in Nat \cup {-1} /\ Lookahead(h, i) \in Nat
      BY AppointmentsAreMet DEF KernelTypeOK
    <3>2. Promised(h, i) \in Nat
      BY <3>1 DEF Promised
    <3> QED BY <3>2, ListsTyped
  <2>5. stopBefore - 1 <= Promised(h, i)
    BY <1>2, <2>2, <2>3, <2>4
  <2>6. ASSUME NEW m \in BagToSet(outAppt[h][i]) PROVE stopBefore - 1 <= m.time
    BY <1>2, <2>2, <2>3, <2>4
  <2> QED BY <2>5, <2>6
<1>8. NothingLate'
  <2>1. ASSUME NEW j \in Timeline, NEW f \in BagToSet(events[j]) \cup BagToSet(windowList[j])
        PROVE  f.time >= time'[j]
    <3>1. f.time \in Nat /\ f.time >= time[j]
      BY <1>2, ListsTyped DEF NothingLate
    <3>2. j = i => f.time >= stopBefore
      BY <1>1 DEF Phases, Inside
    <3> QED BY <1>2, <1>4, <3>1, <3>2
  <2>2. ASSUME NEW h \in Timeline, NEW j \in Timeline, NEW m \in BagToSet(outAppt[h][j])
        PROVE  m.time >= time'[j]
    <3>1. m.time \in Nat /\ m.time >= time[j]
      BY <1>2, ListsTyped DEF NothingLate
    <3>2. j = i => m.time >= stopBefore - 1
      BY <1>2, <1>7, <3>1 DEF Appointments
    <3> QED BY <1>2, <1>4, <3>1, <3>2
  <2> QED BY <1>1, <2>1, <2>2 DEF NothingLate
<1>9. Phases'
  <2>1. UNCHANGED <<stopBefore, bottom, prevBottom, epochEnd, windowList>>
    BY <1>1 DEF barrierVars
  <2>2. \A j \in Timeline : pc[j] \in Inside
    BY <1>1 DEF Phases, Inside
  <2>3. \A j \in Timeline : pc'[j] \in Inside
    BY <1>4, <2>2 DEF Inside
  <2>4. \A j \in Timeline : /\ time'[j] < stopBefore
                            /\ pc'[j] = "ended" => time'[j] = stopBefore - 1
                            /\ \A f \in BagToSet(windowList[j]) : f.time >= stopBefore
    BY <1>2, <1>4, <2>2 DEF Phases
  <2>5. \A j \in Timeline : pc'[j] \notin {"collect", "offered"} /\ pc[j] # "offered"
    BY <2>2, <2>3 DEF Inside
  <2>6. bottom = prevBottom
    BY <2>5 DEF Phases
  <2> QED BY <2>1, <2>3, <2>4, <2>5, <2>6 DEF Phases
<1>10. Appointments'
  <2>1. \A h, j \in Timeline : Promised(h, j)' = Promised(h, j)
    BY <1>1 DEF Promised
  <2>2. ASSUME NEW h \in Timeline, NEW j \in Timeline, Meets(h, j)
        PROVE  Met(h, j)'
    <3>1. Met(h, j)
      BY <2>2 DEF Appointments
    <3>2. time'[h] + Lookahead(h, j) >= Promised(h, j)
      <4> DEFINE L == Lookahead(h, j)
                 q == Promised(h, j)
      <4>1. L \in Nat /\ time[h] + L >= q /\ time'[h] >= time[h] /\ time[h] \in Nat /\ time'[h] \in Nat
        BY <1>2, <1>5, <2>2, <3>1, AppointmentsAreMet DEF Met, Onward
      <4>2. q \in Int
        <5>1. inAppt[j][h] \in Nat \cup {-1}
          BY DEF KernelTypeOK
        <5>2. L \in Nat
          BY <4>1
        <5> QED BY <5>1, <5>2 DEF Promised
      <4> HIDE DEF L, q
      <4>3. time'[h] + L >= q
        BY <4>1, <4>2
      <4> QED BY <4>3 DEF L, q
    <3>3. time'[j] <= Promised(h, j)
      BY <1>4, <1>7, <2>2, <3>1 DEF Met
    <3>4. Stands(h, j) => Stands(h, j)'
      BY <1>1, <1>4 DEF Stands
    <3>5. \A w \in BagToSet(events[j]) : Stops(h, j, w) => Stops(h, j, w)'
      BY <1>1, <1>4, <2>1 DEF Stops
    <3>6. pc'[j] = "renew" => j # i /\ pc[j] = "renew"
      BY <1>4
    <3>7. pc'[j] = "renew" /\ partner'[j] = h => time'[j] <= inAppt'[j][h]
      BY <1>1, <1>4, <3>1, <3>6 DEF Met
    <3>8. time'[h] + Lookahead(h, j) >= Promised(h, j)' /\ time'[j] <= Promised(h, j)'
      BY <2>1, <3>2, <3>3
    <3>9. Stands(h, j)' \/ \E w \in BagToSet(events'[j]) : Stops(h, j, w)'
      BY <1>1, <3>1, <3>4, <3>5 DEF Met
    <3> QED BY <3>7, <3>8, <3>9 DEF Met
  <2>3. ASSUME NEW j \in Timeline, pc'[j] \in {"blocked", "renew", "fetch"}
        PROVE  Meets(partner'[j], j)
    BY <1>1, <1>4, <2>3 DEF Appointments
  <2>4. \A h, j \in Timeline : ~Meets(h, j) => BagToSet(outAppt'[h][j]) = {}
    BY <1>1 DEF Appointments
  <2> QED BY <2>2, <2>3, <2>4 DEF Appointments, Meets, Lookahead
<1> QED BY <1>5, <1>6, <1>8, <1>9, <1>10

\* A timeline that takes what was left in its window list has passed none of it.
LEMMA OfferKeeps ==
  ASSUME KernelInv, NEW i \in Timeline, Offer(i)
  PROVE  KernelInv' /\ Onward
<1> USE DEF KernelInv
<1> DEFINE b == events[i] (+) windowList[i]
           edge == Bearable(i, events'[i])
<1>1. /\ pc[i] = "collect" /\ events' = [events EXCEPT ![i] = b]
      /\ windowList' = [windowList EXCEPT ![i] = EmptyBag]
      /\ offered' = [offered EXCEPT ![i] = edge]
      /\ bottom' = Reduced(offered'[i])
      /\ pc' = [pc EXCEPT ![i] = "offered"]
      /\ UNCHANGED <<outAppt, inAppt, time, partner, prevBottom, stopBefore, epochEnd, clock, plan,
                     acts, dropped>>
  BY DEF Offer
<1>2. /\ events \in [Timeline -> BagsOver(Moment)] /\ time \in [Timeline -> Nat]
      /\ windowList \in [Timeline -> BagsOver(Delivery)] /\ offered \in [Timeline -> Int]
      /\ pc \in [Timeline -> Places] /\ bottom \in Int /\ prevBottom \in Int
  BY DEF KernelTypeOK
<1>3. /\ windowList[i] \in BagsOver(Moment)
      /\ \A g \in BagToSet(windowList[i]) : g.kind = "activate" /\ Proper(i, g)
  <2>1. BagsOver(Delivery) \subseteq BagsOver(Moment)
    BY DEF BagsOver, Delivery
  <2>2. BagToSet(windowList[i]) \subseteq Delivery
    BY <1>2, BagElements
  <2> QED BY <1>2, <2>1, <2>2 DEF Delivery, Proper
<1>4. b \in BagsOver(Moment) /\ BagToSet(b) = BagToSet(events[i]) \cup BagToSet(windowList[i])
  BY <1>2, <1>3, BagSum
<1> HIDE DEF b
<1>5. /\ \A j \in Timeline : events'[j] = IF j = i THEN b ELSE events[j]
      /\ \A j \in Timeline : windowList'[j] = IF j = i THEN EmptyBag ELSE windowList[j]
      /\ \A j \in Timeline : pc'[j] = IF j = i THEN "offered" ELSE pc[j]
  BY <1>1, <1>2
<1>6. edge \in Int /\ time[i] < edge /\ bottom' = Reduced(edge)
  <2>1. events'[i] \in BagsOver(Moment) /\ time[i] \in Nat
    BY <1>2, <1>4, <1>5
  <2>2. edge \in Int /\ time[i] < edge
    BY <2>1, BearableIsAhead
  <2>3. offered'[i] = edge
    BY <1>1, <1>2
  <2> QED BY <1>1, <2>2, <2>3
<1> HIDE DEF edge
<1>7. \A j \in Timeline : time[j] = time[i] /\ pc[j] \in {"collect", "offered"}
  BY <1>1 DEF Phases, Inside
<1>8. bottom' \in Int /\ time[i] < bottom'
  <2>1. bottom # prevBottom => time[i] < bottom
    BY DEF Phases
  <2> QED BY <1>2, <1>6, <2>1 DEF Reduced
<1>9. Onward
  BY <1>1, <1>2 DEF Onward
<1>10. KernelTypeOK'
  <2>1. \A j \in Timeline : \A g \in BagToSet(events'[j]) : Proper(j, g)
    BY <1>3, <1>4, <1>5 DEF KernelTypeOK
  <2>2. events' \in [Timeline -> BagsOver(Moment)] /\ offered' \in [Timeline -> Int]
    BY <1>1, <1>2, <1>4, <1>6
  <2>3. windowList' \in [Timeline -> BagsOver(Delivery)]
    BY <1>1, <1>2, BagIsEmpty
  <2>4. pc' \in [Timeline -> Places]
    BY <1>1, <1>2 DEF Places, Inside
  <2>5. UNCHANGED <<outAppt, inAppt, time, partner, prevBottom, stopBefore, epochEnd, clock, plan>>
    BY <1>1
  <2> QED BY <1>8, <2>1, <2>2, <2>3, <2>4, <2>5 DEF KernelTypeOK, Proper
<1>11. NothingLate'
  <2>1. \A j \in Timeline : \A g \in BagToSet(events'[j]) : g.time >= time[j]
    BY <1>4, <1>5 DEF NothingLate
  <2>2. \A j \in Timeline : \A g \in BagToSet(windowList'[j]) : g.time >= time[j]
    BY <1>5, BagIsEmpty DEF NothingLate
  <2>3. time' = time /\ outAppt' = outAppt
    BY <1>1
  <2> QED BY <2>1, <2>2, <2>3 DEF NothingLate
<1>12. Phases'
  <2>1. \A j \in Timeline : pc'[j] \in {"collect", "offered"} /\ pc'[j] \notin Inside
    BY <1>5, <1>7 DEF Inside
  <2>2. \A j \in Timeline : pc'[j] = "offered" => windowList'[j] = EmptyBag
    BY <1>5 DEF Phases
  <2>3. \A j \in Timeline : time[j] + 1 < epochEnd /\ time[j] < bottom'
    BY <1>7, <1>8 DEF Phases
  <2>4. \A j, h \in Timeline : time[h] = time[j]
    BY <1>7
  <2>5. pc'[i] = "offered"
    BY <1>5
  <2>6. UNCHANGED <<time, epochEnd>>
    BY <1>1
  <2> QED BY <2>1, <2>2, <2>3, <2>4, <2>5, <2>6 DEF Phases
<1>13. Appointments'
  <2>1. \A h, j \in Timeline : Promised(h, j)' = Promised(h, j)
    BY <1>1 DEF Promised
  <2>2. ASSUME NEW h \in Timeline, NEW j \in Timeline, Meets(h, j)
        PROVE  Met(h, j)'
    <3>1. Met(h, j) /\ ~Stands(h, j) /\ pc'[j] # "renew"
      BY <1>5, <1>7, <2>2 DEF Appointments, Stands
    <3>2. PICK w \in BagToSet(events[j]) : Stops(h, j, w)
      BY <3>1 DEF Met
    <3>3. w \in BagToSet(events'[j])
      BY <1>4, <1>5
    <3>4. Stops(h, j, w)'
      BY <1>1, <1>7, <2>1, <3>2 DEF Stops
    <3> QED BY <1>1, <2>1, <3>1, <3>3, <3>4 DEF Met
  <2>3. \A j \in Timeline : pc'[j] \notin {"blocked", "renew", "fetch"}
    BY <1>5, <1>7
  <2>4. \A h, j \in Timeline : ~Meets(h, j) => BagToSet(outAppt'[h][j]) = {}
    BY <1>1 DEF Appointments
  <2> QED BY <2>2, <2>3, <2>4 DEF Appointments, Meets, Lookahead
<1> QED BY <1>9, <1>10, <1>11, <1>12, <1>13

\* At a barrier nobody is at an appointment, and nothing moves.
LEMMA NothingMoves ==
  ASSUME KernelInv, UNCHANGED <<events, windowList, outAppt, inAppt, time, partner>>,
         \A j \in Timeline : pc[j] \notin {"blocked", "renew", "fetch"},
         \A j \in Timeline : pc'[j] \notin {"blocked", "renew", "fetch"}
  PROVE  NothingLate' /\ Appointments' /\ Onward
<1> USE DEF KernelInv
<1>1. time \in [Timeline -> Nat]
  BY DEF KernelTypeOK
<1>2. NothingLate' /\ Onward
  BY <1>1 DEF NothingLate, Onward
<1>3. \A h, j \in Timeline : Promised(h, j)' = Promised(h, j)
  BY DEF Promised
<1>4. ASSUME NEW h \in Timeline, NEW j \in Timeline, Meets(h, j)
      PROVE  Met(h, j)'
  <2>1. Met(h, j) /\ ~Stands(h, j)
    BY <1>4 DEF Appointments, Stands
  <2>2. PICK w \in BagToSet(events[j]) : Stops(h, j, w)
    BY <2>1 DEF Met
  <2>3. Stops(h, j, w)'
    BY <1>3, <2>2 DEF Stops
  <2> QED BY <1>3, <2>1, <2>2, <2>3 DEF Met
<1>5. \A h, j \in Timeline : ~Meets(h, j) => BagToSet(outAppt'[h][j]) = {}
  BY DEF Appointments
<1> QED BY <1>2, <1>4, <1>5 DEF Appointments, Meets, Lookahead

LEMMA BottomBarrierKeeps ==
  ASSUME KernelInv, BottomBarrier
  PROVE  KernelInv' /\ Onward
<1> USE DEF KernelInv
<1>1. /\ \A i \in Timeline : pc[i] = "offered"
      /\ prevBottom' = bottom /\ stopBefore' = Smaller(bottom, epochEnd)
      /\ pc' = [i \in Timeline |-> "run"]
      /\ UNCHANGED <<events, windowList, outAppt, inAppt, time, partner, bottom, offered, epochEnd,
                     clock, plan, acts, dropped>>
  BY DEF BottomBarrier, Together
<1>2. /\ time \in [Timeline -> Nat] /\ bottom \in Int /\ epochEnd \in Int
  BY DEF KernelTypeOK
<1>3. stopBefore' \in Int /\ \A i \in Timeline : time[i] < stopBefore'
  <2>1. \A i \in Timeline : time[i] < bottom /\ time[i] + 1 < epochEnd
    BY <1>1 DEF Phases
  <2> QED BY <1>1, <1>2, <2>1 DEF Smaller
<1>4. KernelTypeOK'
  <2>1. pc' \in [Timeline -> Places]
    BY <1>1 DEF Places, Inside
  <2> QED BY <1>1, <1>3, <2>1 DEF KernelTypeOK, Proper
<1>5. NothingLate' /\ Appointments' /\ Onward
  BY <1>1, NothingMoves
<1>6. Phases'
  <2>1. \A i \in Timeline : pc'[i] = "run" /\ BagToSet(windowList'[i]) = {}
    BY <1>1, BagIsEmpty DEF Phases
  <2>2. bottom' = prevBottom'
    BY <1>1
  <2>3. \A i \in Timeline : time'[i] < stopBefore'
    BY <1>1, <1>3
  <2> QED BY <2>1, <2>2, <2>3 DEF Phases, Inside
<1> QED BY <1>4, <1>5, <1>6

LEMMA TopBarrierKeeps ==
  ASSUME KernelInv, TopBarrier
  PROVE  KernelInv' /\ Onward
<1> USE DEF KernelInv
<1>1. /\ \A i \in Timeline : pc[i] = "ended"
      /\ stopBefore < epochEnd
      /\ pc' = [i \in Timeline |-> "collect"]
      /\ UNCHANGED <<events, windowList, outAppt, inAppt, time, partner, bottom, prevBottom, offered,
                     stopBefore, epochEnd, clock, plan, acts, dropped>>
  BY DEF TopBarrier, Together, barrierVars
<1>2. /\ time \in [Timeline -> Nat] /\ stopBefore \in Int /\ epochEnd \in Int
  BY DEF KernelTypeOK
<1>3. KernelTypeOK'
  <2>1. pc' \in [Timeline -> Places]
    BY <1>1 DEF Places, Inside
  <2> QED BY <1>1, <2>1 DEF KernelTypeOK, Proper
<1>4. NothingLate' /\ Appointments' /\ Onward
  BY <1>1, NothingMoves
<1>5. Phases'
  <2>1. \A i \in Timeline : time[i] = stopBefore - 1
    BY <1>1 DEF Phases, Inside
  <2>2. \A i \in Timeline : time[i] + 1 < epochEnd /\ pc'[i] = "collect" /\ pc'[i] \notin Inside
    BY <1>1, <1>2, <2>1 DEF Inside
  <2>3. bottom' = prevBottom'
    BY <1>1 DEF Phases
  <2> QED BY <1>1, <2>1, <2>2, <2>3 DEF Phases
<1> QED BY <1>3, <1>4, <1>5

LEMMA WindowBarrierKeeps ==
  ASSUME KernelInv, WindowBarrier
  PROVE  KernelInv' /\ Onward
<1> USE DEF KernelInv
<1>1. /\ \A i \in Timeline : pc[i] = "ended"
      /\ clock' = epochEnd
      /\ pc' = [i \in Timeline |-> "idle"]
      /\ UNCHANGED <<events, windowList, outAppt, inAppt, time, partner, bottom, prevBottom, offered,
                     stopBefore, epochEnd, plan, acts, dropped>>
  BY DEF WindowBarrier, Together
<1>2. KernelTypeOK'
  <2>1. pc' \in [Timeline -> Places]
    BY <1>1 DEF Places, Inside
  <2> QED BY <1>1, <2>1 DEF KernelTypeOK, Proper
<1>3. NothingLate' /\ Appointments' /\ Onward
  BY <1>1, NothingMoves
<1>4. Phases'
  <2>1. \A i \in Timeline : time[i] = stopBefore - 1
    BY <1>1 DEF Phases, Inside
  <2>2. \A i \in Timeline : pc'[i] = "idle" /\ pc'[i] \notin Inside
    BY <1>1 DEF Inside
  <2>3. bottom' = prevBottom'
    BY <1>1 DEF Phases
  <2> QED BY <1>1, <2>1, <2>2, <2>3 DEF Phases
<1> QED BY <1>2, <1>3, <1>4

LEMMA AdvanceKeeps ==
  ASSUME KernelInv, Advance
  PROVE  KernelInv' /\ Onward
<1> USE DEF KernelInv
<1> DEFINE over == \E j \in Timeline : epochEnd' <= time[j] + 1
<1>1. /\ \A i \in Timeline : pc[i] = "idle"
      /\ plan # <<>> /\ epochEnd' = clock + Head(plan) /\ plan' = Tail(plan)
      /\ pc' = [i \in Timeline |-> IF over THEN "exited" ELSE "collect"]
      /\ UNCHANGED <<events, windowList, outAppt, inAppt, time, partner, bottom, prevBottom, offered,
                     stopBefore, clock, acts, dropped>>
  BY DEF Advance, Together
<1>2. time \in [Timeline -> Nat] /\ clock \in Int /\ plan \in Seq(Nat)
  BY DEF KernelTypeOK
<1>3. epochEnd' \in Int /\ plan' \in Seq(Nat)
  <2>1. Head(plan) \in Nat /\ Tail(plan) \in Seq(Nat)
    BY <1>1, <1>2
  <2> QED BY <1>1, <1>2, <2>1
<1>4. ~over => \A j \in Timeline : time[j] + 1 < epochEnd'
  BY <1>2, <1>3
<1> HIDE DEF over
<1>5. KernelTypeOK'
  <2>1. pc' \in [Timeline -> Places]
    BY <1>1 DEF Places, Inside
  <2> QED BY <1>1, <1>3, <2>1 DEF KernelTypeOK, Proper
<1>6. NothingLate' /\ Appointments' /\ Onward
  BY <1>1, NothingMoves
<1>7. Phases'
  <2>1. \A i, j \in Timeline : time[j] = time[i]
    BY <1>1 DEF Phases, Inside
  <2>2. bottom' = prevBottom'
    BY <1>1 DEF Phases
  <2>3. \A i \in Timeline : pc'[i] = (IF over THEN "exited" ELSE "collect") /\ pc'[i] \notin Inside
    BY <1>1 DEF Inside
  <2>4. \A i \in Timeline : pc'[i] = "collect" => time'[i] + 1 < epochEnd'
    BY <1>1, <1>4, <2>3
  <2> QED BY <1>1, <2>1, <2>2, <2>3, <2>4 DEF Phases
<1> QED BY <1>5, <1>6, <1>7

-----------------------------------------------------------------------------
(* The theorems.                                                           *)

LEMMA KernelInvAtInit ==
  ASSUME KernelInit
  PROVE  KernelInv
<1>1. PICK first \in [Timeline -> FirstTimeouts] :
       events = [i \in Timeline |->
         SetToBag({Event(first[i], "timeout", i)}
                  \cup {Event(Lookahead(i, j), "make", j) : j \in {k \in Timeline : Meets(i, k)}}
                  \cup {Event(Lookahead(j, i), "wait", j) : j \in {k \in Timeline : Meets(k, i)}})]
  BY DEF KernelInit
<1> DEFINE starts(i) == {Event(first[i], "timeout", i)}
             \cup {Event(Lookahead(i, j), "make", j) : j \in {k \in Timeline : Meets(i, k)}}
             \cup {Event(Lookahead(j, i), "wait", j) : j \in {k \in Timeline : Meets(k, i)}}
<1>2. events = [i \in Timeline |-> SetToBag(starts(i))]
  BY <1>1
<1>3. \A i, j \in Timeline : Meets(i, j) => Lookahead(i, j) \in Nat
  BY AppointmentsAreMet
<1>4. ASSUME NEW i \in Timeline, NEW e \in starts(i)
      PROVE  e \in Moment /\ Proper(i, e) /\ e.time >= 0
  <2>1. CASE e = Event(first[i], "timeout", i)
    <3>1. first[i] \in Nat
      BY TimelinesAssumption
    <3> QED BY <2>1, <3>1 DEF Event, Moment, Proper
  <2>2. ASSUME NEW j \in Timeline, Meets(i, j), e = Event(Lookahead(i, j), "make", j)
        PROVE  e \in Moment /\ Proper(i, e) /\ e.time >= 0
    BY <1>3, <2>2 DEF Event, Moment, Proper
  <2>3. ASSUME NEW j \in Timeline, Meets(j, i), e = Event(Lookahead(j, i), "wait", j)
        PROVE  e \in Moment /\ Proper(i, e) /\ e.time >= 0
    BY <1>3, <2>3 DEF Event, Moment, Proper
  <2> QED BY <2>1, <2>2, <2>3
<1>5. \A h, i \in Timeline : Meets(h, i) => Event(Lookahead(h, i), "wait", h) \in starts(i)
  OBVIOUS
<1> HIDE DEF starts
<1>6. \A i \in Timeline : starts(i) \in SUBSET Moment
  BY <1>4
<1>7. \A i \in Timeline : events[i] \in BagsOver(Moment) /\ BagToSet(events[i]) = starts(i)
  BY <1>2, <1>6, BagOfSet
<1>8. /\ windowList = [i \in Timeline |-> EmptyBag]
      /\ outAppt = [i \in Timeline |-> [j \in Timeline |-> EmptyBag]]
      /\ inAppt = [i \in Timeline |-> [j \in Timeline |-> -1]]
      /\ time = [i \in Timeline |-> 0] /\ pc = [i \in Timeline |-> "idle"]
      /\ partner = [i \in Timeline |-> i] /\ offered = [i \in Timeline |-> 0]
      /\ bottom = -1 /\ prevBottom = -1 /\ stopBefore = 0 /\ epochEnd = 0 /\ clock = 0
      /\ plan \in Plans
  BY DEF KernelInit
<1>9. EmptyBag \in BagsOver(Delivery) /\ BagToSet(EmptyBag) = {}
  BY BagIsEmpty
<1>10. KernelTypeOK
  <2>1. events \in [Timeline -> BagsOver(Moment)]
    BY <1>2, <1>7
  <2>2. windowList \in [Timeline -> BagsOver(Delivery)]
        /\ outAppt \in [Timeline -> [Timeline -> BagsOver(Delivery)]]
    BY <1>8, <1>9
  <2>3. inAppt \in [Timeline -> [Timeline -> Nat \cup {-1}]] /\ time \in [Timeline -> Nat]
    BY <1>8
  <2>4. pc \in [Timeline -> Places] /\ partner \in [Timeline -> Timeline] /\ offered \in [Timeline -> Int]
    BY <1>8 DEF Places, Inside
  <2>5. plan \in Seq(Nat)
    BY <1>8, TimelinesAssumption
  <2>6. \A i \in Timeline : \A e \in BagToSet(events[i]) : Proper(i, e)
    BY <1>4, <1>7
  <2> QED BY <1>8, <2>1, <2>2, <2>3, <2>4, <2>5, <2>6 DEF KernelTypeOK
<1>11. NothingLate
  BY <1>4, <1>7, <1>8, <1>9 DEF NothingLate
<1>12. Phases
  BY <1>8 DEF Phases, Inside
<1>13. Appointments
  <2>1. ASSUME NEW h \in Timeline, NEW j \in Timeline, Meets(h, j)
        PROVE  Met(h, j)
    <3> DEFINE L == Lookahead(h, j)
               w == Event(L, "wait", h)
    <3>1. Promised(h, j) = L /\ L \in Nat /\ time[h] = 0 /\ time[j] = 0
      BY <1>3, <1>8, <2>1 DEF Promised
    <3>2. w \in BagToSet(events[j])
      BY <1>5, <1>7, <2>1
    <3>3. w.kind = "wait" /\ w.peer = h /\ w.time = L
      BY DEF Event
    <3> HIDE DEF w, L
    <3>4. Stops(h, j, w)
      BY <1>8, <1>9, <3>1, <3>3 DEF Stops
    <3>5. time[h] + L >= Promised(h, j) /\ time[j] <= Promised(h, j) /\ pc[j] # "renew"
      BY <1>8, <3>1
    <3> QED BY <3>2, <3>4, <3>5 DEF Met, L
  <2>2. \A h, j \in Timeline : BagToSet(outAppt[h][j]) = {}
    BY <1>8, <1>9
  <2>3. \A j \in Timeline : pc[j] = "idle"
    BY <1>8
  <2> QED BY <2>1, <2>2, <2>3 DEF Appointments
<1> QED BY <1>10, <1>11, <1>12, <1>13 DEF KernelInv

LEMMA KernelInvKept ==
  ASSUME KernelInv, [KernelNext]_kernelVars
  PROVE  KernelInv' /\ Onward
<1>1. CASE Advance
  BY <1>1, AdvanceKeeps
<1>2. CASE Barrier
  BY <1>2, BottomBarrierKeeps, TopBarrierKeeps, WindowBarrierKeeps DEF Barrier
<1>3. ASSUME NEW i \in Timeline, Step(i)
      PROVE  KernelInv' /\ Onward
  <2>1. CASE Offer(i) \/ EndWindow(i) \/ RenewAppt(i) \/ Fetch(i)
    BY <2>1, OfferKeeps, EndWindowKeeps, RenewApptKeeps, FetchKeeps
  <2>2. ASSUME NEW e \in Firsts(i),
               Activate(i, e) \/ RunQuietly(i, e) \/ RunAndWait(i, e) \/ RunAndWrite(i, e)
                 \/ MakeAppt(i, e)
        PROVE  KernelInv' /\ Onward
    <3>1. Ran(i, e)
      BY <2>2, ActivateRan, RunQuietlyRan, RunAndWaitRan, RunAndWriteRan, MakeApptRan
    <3> QED BY <3>1, RanKeeps
  <2>3. ASSUME NEW e \in Firsts(i), WaitAppt(i, e)
        PROVE  KernelInv' /\ Onward
    BY <2>3, WaitApptKeeps
  <2> QED BY <1>3, <2>1, <2>2, <2>3 DEF Step
<1>4. CASE UNCHANGED kernelVars
  <2>1. UNCHANGED <<events, windowList, outAppt, inAppt, time, pc, partner, bottom, prevBottom,
                    offered, stopBefore, epochEnd, clock, plan>>
    BY <1>4 DEF kernelVars
  <2>2. KernelTypeOK'
    BY <2>1 DEF KernelInv, KernelTypeOK, Proper
  <2>3. NothingLate' /\ Phases'
    BY <2>1 DEF KernelInv, NothingLate, Phases
  <2>4. Appointments'
    BY <2>1, SMTT(60) DEF KernelInv, Appointments, Meets, Lookahead, Met, Stands, Stops, Promised
  <2>5. Onward
    <3>1. time \in [Timeline -> Nat]
      BY DEF KernelInv, KernelTypeOK
    <3> QED BY <2>1, <3>1 DEF Onward
  <2> QED BY <2>2, <2>3, <2>4, <2>5 DEF KernelInv
<1> QED BY <1>1, <1>2, <1>3, <1>4 DEF KernelNext

\* The threads agree on the phase they are in, appointments are kept, and the
\* state has its types (timeline.cc 491-956).
THEOREM KernelKeepsStep == KernelSpec => []KernelInv
<1>1. KernelInit => KernelInv
  BY KernelInvAtInit
<1>2. KernelInv /\ [KernelNext]_kernelVars => KernelInv'
  BY KernelInvKept
<1> QED BY <1>1, <1>2, PTL DEF KernelSpec

\* No timeline ever holds an event, or is left one by another timeline, that lies
\* before its clock: the conservative synchronisation never needs a rollback
\* (timeline.cc 548-570, where the clock is set to the time of the first event
\* without a test).  Events injected from outside are not part of it.
THEOREM NothingIsEverLate == KernelSpec => []NothingLate
<1>1. KernelInv => NothingLate
  BY DEF KernelInv
<1> QED BY <1>1, KernelKeepsStep, PTL

\* The clock of a timeline never goes back, whatever the other timelines deliver.
THEOREM ClocksNeverGoBack == KernelSpec => ClocksAdvance
<1>1. KernelInv /\ [KernelNext]_kernelVars =>
        [NothingLate' /\ \A i \in Timeline : time'[i] >= time[i]]_kernelVars
  BY KernelInvKept DEF KernelInv, Onward
<1> QED BY <1>1, KernelKeepsStep, PTL DEF KernelSpec, ClocksAdvance
=============================================================================
