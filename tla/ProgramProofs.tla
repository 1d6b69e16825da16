---------------------------- MODULE ProgramProofs ----------------------------
(***************************************************************************)
(* The program, in the project editor and in the core server: what the     *)
(* editor calls saved is on disk, for every number of tabs, files and      *)
(* projects (ProjectIsSaved); the sources that the server shows are those  *)
(* its blocks come from, for every number of sources, symbol tables and    *)
(* blocks (SourcesAreListed).                                              *)
(*                                                                         *)
(* What a project file makes of the tabs, and a build of the raw blocks,   *)
(* is a matter of sequences of any length: it is said by induction over    *)
(* sets of numbers.  The invariants are EditorInv and DownloadInv.         *)
(***************************************************************************)
EXTENDS ProjectEditor, Download, FiniteSetTheorems, SequenceTheorems, WellFoundedInduction, TLAPS

-----------------------------------------------------------------------------
(* Induction over the numbers up to a bound, for a set of numbers.         *)

\* A set of natural numbers that is not empty has a least one: the intervals up
\* to its members have a smallest.
LEMMA LeastNumber ==
  ASSUME NEW T \in SUBSET Nat, T # {}
  PROVE  \E l \in T : \A n \in T : l <= n
<1> DEFINE Before == StrictSubsetOrdering(Nat)
           F == FiniteSubsetsOf(Nat)
           V == {1..n : n \in T}
<1>1. IsWellFoundedOn(Before, F)
  BY FS_StrictSubsetOrderingWellFounded
<1>2. V \subseteq F /\ V # {}
  <2>1. \A n \in T : 1..n \in SUBSET Nat /\ IsFiniteSet(1..n)
    BY FS_Interval
  <2> QED BY <2>1 DEF FiniteSubsetsOf
<1> HIDE DEF Before, F, V
<1>3. PICK v \in V : \A w \in V : ~(<<w, v>> \in Before)
  BY <1>1, <1>2, WFMin
<1>4. PICK m \in T : v = 1..m
  BY DEF V
<1>5. ASSUME NEW n \in T, ~(m <= n) PROVE FALSE
  <2>1. 1..n \in V
    BY DEF V
  <2>2. n < m /\ m \in Nat /\ n \in Nat
    BY <1>5
  <2>3. 1..n \subseteq 1..m /\ 1..n # 1..m
    <3>1. m \in 1..m /\ m \notin 1..n
      BY <2>2
    <3>2. 1..n \subseteq 1..m
      BY <2>2
    <3> QED BY <3>1, <3>2
  <2>4. 1..n \in SUBSET Nat /\ 1..m \in SUBSET Nat
    OBVIOUS
  <2>5. <<1..n, v>> \in Before
    BY <2>3, <2>4, <1>4 DEF Before, StrictSubsetOrdering
  <2> QED BY <1>3, <2>1, <2>5
<1> QED BY <1>5

\* What holds of 0, and of n + 1 when it holds of n, holds of all.
LEMMA UpTo ==
  ASSUME NEW N \in Nat, NEW H, 0 \in H, \A n \in 0..N - 1 : n \in H => n + 1 \in H
  PROVE  \A n \in 0..N : n \in H
<1> DEFINE T == {n \in 0..N : n \notin H}
<1> SUFFICES ASSUME T # {} PROVE FALSE
  OBVIOUS
<1>1. PICK l \in T : \A n \in T : l <= n
  <2>1. T \in SUBSET Nat
    OBVIOUS
  <2> HIDE DEF T
  <2> QED BY <2>1, LeastNumber
<1>2. l # 0 /\ l \in 0..N
  OBVIOUS
<1>3. l - 1 \in 0..N - 1 /\ l - 1 \notin T /\ (l - 1) + 1 = l
  BY <1>1, <1>2
<1> QED BY <1>3

-----------------------------------------------------------------------------
(* The sources with and without a file of their own.                       *)

\* s is extended by a source t of the kind that is collected.
Taken(t, backed, s) == IF Backed(t) = backed THEN Append(s, t) ELSE s

\* v lists the first m ones of ts of one kind.
Listed(m, v) == v = [n \in 0 .. m |-> v[n]]
Follows(ts, backed, m, v) ==
  /\ v[0] = <<>>
  /\ \A n \in 1 .. m : v[n] = Taken(ts[n], backed, v[n - 1])

\* There is such a list: one for the first n exists, and is extended.
LEMMA ListsExist ==
  ASSUME NEW ts, NEW backed, NEW N \in Nat
  PROVE  \E v : Listed(N, v) /\ Follows(ts, backed, N, v)
<1> DEFINE H == {m \in Nat : \E v : Listed(m, v) /\ Follows(ts, backed, m, v)}
<1>1. 0 \in H
  <2> DEFINE v == [n \in 0..0 |-> <<>>]
  <2>1. v = [n \in 0..0 |-> v[n]] /\ v[0] = <<>>
    OBVIOUS
  <2>2. 1..0 = {}
    OBVIOUS
  <2>3. Listed(0, v) /\ Follows(ts, backed, 0, v)
    BY <2>1, <2>2 DEF Listed, Follows
  <2> QED BY <2>3
<1>2. ASSUME NEW m \in 0..N - 1, m \in H PROVE m + 1 \in H
  <2>1. PICK v : Listed(m, v) /\ Follows(ts, backed, m, v)
    BY <1>2
  <2> DEFINE w == [n \in 0..m + 1 |-> IF n = m + 1 THEN Taken(ts[m + 1], backed, v[m]) ELSE v[n]]
  <2>2. w[0] = <<>>
    BY <2>1 DEF Follows
  <2>3. ASSUME NEW n \in 1..m + 1 PROVE w[n] = Taken(ts[n], backed, w[n - 1])
    <3>1. CASE n = m + 1
      <4>1. w[n] = Taken(ts[n], backed, v[m]) /\ w[n - 1] = v[m]
        BY <3>1
      <4> QED BY <4>1
    <3>2. CASE n # m + 1
      <4>1. w[n] = v[n] /\ w[n - 1] = v[n - 1] /\ n \in 1..m
        BY <3>2
      <4> QED BY <4>1, <2>1 DEF Follows
    <3> QED BY <3>1, <3>2
  <2>4. w = [n \in 0..m + 1 |-> w[n]]
    OBVIOUS
  <2> HIDE DEF w
  <2>5. Listed(m + 1, w) /\ Follows(ts, backed, m + 1, w)
    BY <2>2, <2>3, <2>4 DEF Listed, Follows
  <2> QED BY <2>5
<1> HIDE DEF H
<1>3. \A m \in 0..N : m \in H
  BY <1>1, <1>2, UpTo
<1> QED BY <1>3 DEF H

\* The same from each number to the next.
Collects(ts, backed, m, v) ==
  v[0] = <<>> /\ \A n \in 0..m - 1 : v[n + 1] = Taken(ts[n + 1], backed, v[n])

LEMMA Collecting ==
  ASSUME NEW ts, NEW backed, NEW N \in Nat, NEW v, Follows(ts, backed, N, v)
  PROVE  Collects(ts, backed, N, v)
<1>1. v[0] = <<>>
  BY DEF Follows
<1>2. ASSUME NEW n \in 0..N - 1 PROVE v[n + 1] = Taken(ts[n + 1], backed, v[n])
  <2>1. n + 1 \in 1..N /\ (n + 1) - 1 = n
    OBVIOUS
  <2>2. v[n + 1] = Taken(ts[n + 1], backed, v[(n + 1) - 1])
    BY <2>1 DEF Follows
  <2> QED BY <2>1, <2>2
<1> QED BY <1>1, <1>2 DEF Collects

\* Those is the last entry of such a list.
LEMMA ThoseListed ==
  ASSUME NEW ts, NEW backed, Len(ts) \in Nat
  PROVE  \E v : Collects(ts, backed, Len(ts), v) /\ Those(ts, backed) = v[Len(ts)]
<1> DEFINE N == Len(ts)
           Solves(v) == v = [n \in 0 .. N |->
                        IF n = 0 THEN <<>>
                        ELSE IF Backed(ts[n]) = backed THEN Append(v[n - 1], ts[n]) ELSE v[n - 1]]
           those == CHOOSE v : Solves(v)
<1>1. Those(ts, backed) = those[N]
  BY DEF Those
<1>2. N \in Nat
  OBVIOUS
<1> HIDE DEF N
<1>3. \A v : Listed(N, v) /\ Follows(ts, backed, N, v) <=> Solves(v)
  <2> SUFFICES ASSUME NEW v PROVE Listed(N, v) /\ Follows(ts, backed, N, v) <=> Solves(v)
    OBVIOUS
  <2>1. ASSUME Listed(N, v), Follows(ts, backed, N, v) PROVE Solves(v)
    <3>1. ASSUME NEW n \in 0..N
          PROVE  v[n] = IF n = 0 THEN <<>>
                        ELSE IF Backed(ts[n]) = backed THEN Append(v[n - 1], ts[n]) ELSE v[n - 1]
      <4>1. n # 0 => n \in 1..N
        BY <1>2
      <4> QED BY <4>1, <2>1 DEF Follows, Taken
    <3> QED BY <3>1, <2>1 DEF Listed
  <2>2. ASSUME Solves(v) PROVE Listed(N, v) /\ Follows(ts, backed, N, v)
    <3>1. 0 \in 0..N /\ \A n \in 1..N : n \in 0..N /\ n # 0
      BY <1>2
    <3>2. v[0] = <<>>
      BY <2>2, <3>1
    <3>3. ASSUME NEW n \in 1..N PROVE v[n] = Taken(ts[n], backed, v[n - 1])
      BY <2>2, <3>1 DEF Taken
    <3>4. v = [n \in 0..N |-> v[n]]
      BY <2>2
    <3> QED BY <3>2, <3>3, <3>4 DEF Follows, Listed
  <2> QED BY <2>1, <2>2
<1>4. \E v : Listed(N, v) /\ Follows(ts, backed, N, v)
  BY <1>2, ListsExist
<1> HIDE DEF Solves
<1>5. \E v : Solves(v)
  BY <1>3, <1>4
<1>6. Solves(those)
  BY <1>5
<1>7. Follows(ts, backed, N, those)
  BY <1>3, <1>6
<1> HIDE DEF those
<1>8. Collects(ts, backed, N, those)
  BY <1>2, <1>7, Collecting
<1> QED BY <1>1, <1>8 DEF N
\* The first n sources of ts and us are known to S, and those with a file are at
\* the same places.
Known(ts, n, S) == \A i \in 1..n : ts[i] \in S
Match(ts, us, n) == \A i \in 1..n : Backed(us[i]) = Backed(ts[i])

\* Source i of ts and of us is source j of those collected in s and r.
From(ts, us, backed, s, r, j, i) == Backed(ts[i]) = backed /\ s[j] = ts[i] /\ r[j] = us[i]

\* So many lie in s and r, each of which is one of the first n of ts and us.
Alike(ts, us, backed, S, n, s, r) ==
  /\ s \in Seq(S) /\ r \in Seq(S) /\ Len(r) = Len(s)
  /\ \A j \in 1..Len(s) : \E i \in 1..n : From(ts, us, backed, s, r, j, i)

LEMMA AlikeExtended ==
  ASSUME NEW S, NEW backed, NEW n \in Nat, NEW ts, NEW us, NEW s, NEW r,
         Alike(ts, us, backed, S, n, s, r),
         ts[n + 1] \in S, us[n + 1] \in S, Backed(us[n + 1]) = Backed(ts[n + 1])
  PROVE  Alike(ts, us, backed, S, n + 1, Taken(ts[n + 1], backed, s), Taken(us[n + 1], backed, r))
<1> DEFINE s2 == Append(s, ts[n + 1])
           r2 == Append(r, us[n + 1])
<1>0. s \in Seq(S) /\ r \in Seq(S) /\ Len(r) = Len(s)
  BY DEF Alike
<1>1. CASE Backed(ts[n + 1]) = backed
  <2>1. Taken(ts[n + 1], backed, s) = s2 /\ Taken(us[n + 1], backed, r) = r2
    BY <1>1 DEF Taken
  <2>2. /\ s2 \in Seq(S) /\ r2 \in Seq(S) /\ Len(s2) = Len(s) + 1 /\ Len(r2) = Len(s) + 1
        /\ s2[Len(s) + 1] = ts[n + 1] /\ r2[Len(s) + 1] = us[n + 1]
        /\ \A j \in 1..Len(s) : s2[j] = s[j] /\ r2[j] = r[j]
    BY <1>0
  <2> HIDE DEF s2, r2
  <2>3. ASSUME NEW j \in 1..Len(s2) PROVE \E i \in 1..n + 1 : From(ts, us, backed, s2, r2, j, i)
    <3>1. CASE j = Len(s) + 1
      <4>1. From(ts, us, backed, s2, r2, j, n + 1)
        BY <1>1, <2>2, <3>1 DEF From
      <4> QED BY <4>1
    <3>2. CASE j # Len(s) + 1
      <4>1. j \in 1..Len(s)
        BY <1>0, <2>2, <3>2
      <4>2. PICK i \in 1..n : From(ts, us, backed, s, r, j, i)
        BY <4>1 DEF Alike
      <4>3. From(ts, us, backed, s2, r2, j, i) /\ i \in 1..n + 1
        BY <2>2, <4>1, <4>2 DEF From
      <4> QED BY <4>3
    <3> QED BY <3>1, <3>2
  <2>4. Alike(ts, us, backed, S, n + 1, s2, r2)
    BY <2>2, <2>3 DEF Alike
  <2> QED BY <2>1, <2>4
<1>2. CASE ~(Backed(ts[n + 1]) = backed)
  <2>1. Taken(ts[n + 1], backed, s) = s /\ Taken(us[n + 1], backed, r) = r
    BY <1>2 DEF Taken
  <2>2. \A i \in 1..n : i \in 1..n + 1
    OBVIOUS
  <2>3. Alike(ts, us, backed, S, n + 1, s, r)
    BY <2>2 DEF Alike
  <2> QED BY <2>1, <2>3
<1> QED BY <1>1, <1>2

LEMMA ListsAlike ==
  ASSUME NEW S, NEW N \in Nat, NEW ts, NEW us, NEW backed,
         Known(ts, N, S), Known(us, N, S), Match(ts, us, N),
         NEW v, Collects(ts, backed, N, v), NEW w, Collects(us, backed, N, w)
  PROVE  Alike(ts, us, backed, S, N, v[N], w[N])
<1>0. /\ v[0] = <<>> /\ \A n \in 0..N - 1 : v[n + 1] = Taken(ts[n + 1], backed, v[n])
      /\ w[0] = <<>> /\ \A n \in 0..N - 1 : w[n + 1] = Taken(us[n + 1], backed, w[n])
  <2>1. v[0] = <<>> /\ \A n \in 0..N - 1 : v[n + 1] = Taken(ts[n + 1], backed, v[n])
    BY DEF Collects
  <2>2. w[0] = <<>> /\ \A n \in 0..N - 1 : w[n + 1] = Taken(us[n + 1], backed, w[n])
    BY DEF Collects
  <2> QED BY <2>1, <2>2
<1> DEFINE H == {n \in Nat : Alike(ts, us, backed, S, n, v[n], w[n])}
<1>1. 0 \in H
  <2>1. Alike(ts, us, backed, S, 0, v[0], w[0])
    BY <1>0 DEF Alike
  <2> QED BY <2>1
<1>2. ASSUME NEW n \in 0..N - 1, n \in H PROVE n + 1 \in H
  <2>1. Alike(ts, us, backed, S, n, v[n], w[n]) /\ n \in Nat
    BY <1>2
  <2>2. ts[n + 1] \in S /\ us[n + 1] \in S /\ Backed(us[n + 1]) = Backed(ts[n + 1])
    <3>1. n + 1 \in 1..N
      OBVIOUS
    <3> QED BY <3>1 DEF Known, Match
  <2>3. Alike(ts, us, backed, S, n + 1, Taken(ts[n + 1], backed, v[n]), Taken(us[n + 1], backed, w[n]))
    BY <2>1, <2>2, AlikeExtended
  <2>4. Alike(ts, us, backed, S, n + 1, v[n + 1], w[n + 1])
    BY <1>0, <2>3
  <2> QED BY <2>1, <2>4
<1> HIDE DEF H
<1>3. \A n \in 0..N : n \in H
  BY <1>1, <1>2, UpTo
<1> QED BY <1>3 DEF H

\* Those(ts, backed) has sources of ts of the right kind, and two sequences with
\* files at the same places have them at the same places.
LEMMA ThoseAlike ==
  ASSUME NEW S, NEW ts, NEW us, NEW N \in Nat, Len(ts) = N, Len(us) = N, NEW backed,
         Known(ts, N, S), Known(us, N, S), Match(ts, us, N)
  PROVE  Alike(ts, us, backed, S, N, Those(ts, backed), Those(us, backed))
<1>1. PICK v : Collects(ts, backed, N, v) /\ Those(ts, backed) = v[N]
  BY ThoseListed
<1>2. PICK w : Collects(us, backed, N, w) /\ Those(us, backed) = w[N]
  BY ThoseListed
<1>3. Alike(ts, us, backed, S, N, v[N], w[N])
  BY <1>1, <1>2, ListsAlike
<1> QED BY <1>1, <1>2, <1>3

\* None is left out.
Fits(t, backed) == Backed(t) = backed
Holds(s, t) == \E j \in 1..Len(s) : s[j] = t

LEMMA AllThere ==
  ASSUME NEW S, NEW ts, NEW N \in Nat, Len(ts) = N, NEW backed, Known(ts, N, S),
         NEW i \in 1..N, Fits(ts[i], backed)
  PROVE  Holds(Those(ts, backed), ts[i])
<1>1. PICK v : Collects(ts, backed, N, v) /\ Those(ts, backed) = v[N]
  BY ThoseListed
<1>2. v[0] = <<>> /\ \A n \in 0..N - 1 : v[n + 1] = Taken(ts[n + 1], backed, v[n])
  BY <1>1 DEF Collects
<1> DEFINE There(n, s) == /\ s \in Seq(S)
                          /\ i <= n => \E j \in 1..Len(s) : s[j] = ts[i]
           H == {n \in Nat : There(n, v[n])}
<1>3. 0 \in H
  <2>1. There(0, v[0])
    BY <1>2
  <2> QED BY <2>1
<1>4. ASSUME NEW n \in 0..N - 1, n \in H PROVE n + 1 \in H
  <2>1. There(n, v[n]) /\ n \in Nat
    BY <1>4
  <2>2. v[n + 1] = Taken(ts[n + 1], backed, v[n])
    BY <1>2
  <2>3. ts[n + 1] \in S
    BY DEF Known
  <2>4. PICK s : s = v[n]
    OBVIOUS
  <2>5. s \in Seq(S) /\ (i <= n => \E j \in 1..Len(s) : s[j] = ts[i])
    BY <2>1, <2>4
  <2>6. There(n + 1, Taken(ts[n + 1], backed, s))
    <3>1. CASE Backed(ts[n + 1]) = backed
      <4>1. Taken(ts[n + 1], backed, s) = Append(s, ts[n + 1])
        BY <3>1 DEF Taken
      <4>2. PICK r : r = Append(s, ts[n + 1])
        OBVIOUS
      <4>3. /\ r \in Seq(S) /\ Len(r) = Len(s) + 1 /\ r[Len(s) + 1] = ts[n + 1]
            /\ \A j \in 1..Len(s) : j \in 1..Len(r) /\ r[j] = s[j]
        BY <2>3, <2>5, <4>2
      <4>4. i <= n + 1 => \E j \in 1..Len(r) : r[j] = ts[i]
        <5>1. CASE i = n + 1
          <6>1. Len(s) + 1 \in 1..Len(r)
            BY <2>5, <4>3
          <6> QED BY <4>3, <5>1, <6>1
        <5>2. CASE i # n + 1
          <6>1. i <= n + 1 => i <= n
            BY <2>1, <5>2
          <6> QED BY <2>5, <4>3, <6>1
        <5> QED BY <5>1, <5>2
      <4> QED BY <4>1, <4>2, <4>3, <4>4
    <3>2. CASE ~(Backed(ts[n + 1]) = backed)
      <4>1. Taken(ts[n + 1], backed, s) = s
        BY <3>2 DEF Taken
      <4>2. i # n + 1
        BY <3>2 DEF Fits
      <4>3. i <= n + 1 => i <= n
        BY <2>1, <4>2
      <4> QED BY <2>5, <4>1, <4>3
    <3> QED BY <3>1, <3>2
  <2> HIDE DEF There
  <2>7. There(n + 1, v[n + 1])
    BY <2>2, <2>4, <2>6
  <2> QED BY <2>1, <2>7
<1> HIDE DEF H
<1>5. \A n \in 0..N : n \in H
  BY <1>3, <1>4, UpTo
<1>6. N \in H /\ i <= N
  BY <1>5
<1> QED BY <1>1, <1>6 DEF H, Holds

\* Sources that are in their order already: m with a file, then those without.
InOrder(ts, n, m) ==
  /\ \A i \in 1..n : i <= m => Backed(ts[i])
  /\ \A i \in 1..n : m < i => ~Backed(ts[i])

\* The sources of ts behind the first k are the n in s.
Stretch(ts, k, n, s) == Len(s) = n /\ \A i \in 1..n : s[i] = ts[k + i]

LEMMA StretchExtended ==
  ASSUME NEW S, NEW ts, NEW k \in Nat, NEW n \in Nat, NEW s \in Seq(S), Stretch(ts, k, n, s),
         NEW t \in S, t = ts[k + n + 1]
  PROVE  Append(s, t) \in Seq(S) /\ Stretch(ts, k, n + 1, Append(s, t))
<1>1. Len(s) = n /\ \A i \in 1..n : s[i] = ts[k + i]
  BY DEF Stretch
<1>2. PICK r : r = Append(s, t)
  OBVIOUS
<1>3. /\ r \in Seq(S) /\ Len(r) = n + 1 /\ r[n + 1] = t
      /\ \A i \in 1..n : r[i] = s[i]
  BY <1>1, <1>2
<1>4. ASSUME NEW i \in 1..n + 1 PROVE r[i] = ts[k + i]
  <2>1. CASE i = n + 1
    <3>1. k + i = k + n + 1
      BY <2>1
    <3> QED BY <1>3, <2>1, <3>1
  <2>2. CASE i # n + 1
    <3>1. i \in 1..n
      BY <2>2
    <3> QED BY <1>1, <1>3, <3>1
  <2> QED BY <2>1, <2>2
<1> QED BY <1>2, <1>3, <1>4 DEF Stretch

\* Of sources that are in their order, those with a file are the first.
LEMMA ThoseInOrder ==
  ASSUME NEW S, NEW ts, NEW N \in Nat, Len(ts) = N, Known(ts, N, S), NEW m \in 0..N, InOrder(ts, N, m)
  PROVE  Stretch(ts, 0, m, Those(ts, TRUE)) /\ Stretch(ts, m, N - m, Those(ts, FALSE))
<1>1. PICK v : Collects(ts, TRUE, N, v) /\ Those(ts, TRUE) = v[N]
  BY ThoseListed
<1>2. PICK w : Collects(ts, FALSE, N, w) /\ Those(ts, FALSE) = w[N]
  BY ThoseListed
<1>3. v[0] = <<>> /\ \A n \in 0..N - 1 : v[n + 1] = Taken(ts[n + 1], TRUE, v[n])
  BY <1>1 DEF Collects
<1>4. w[0] = <<>> /\ \A n \in 0..N - 1 : w[n + 1] = Taken(ts[n + 1], FALSE, w[n])
  BY <1>2 DEF Collects
<1> DEFINE First(n) == IF n <= m THEN n ELSE m
           Sorted(n, s, r) == /\ s \in Seq(S) /\ r \in Seq(S)
                              /\ Stretch(ts, 0, First(n), s) /\ Stretch(ts, m, n - First(n), r)
           H == {n \in Nat : Sorted(n, v[n], w[n])}
<1>5. 0 \in H
  <2>1. First(0) = 0 /\ 0 - 0 = 0
    OBVIOUS
  <2>2. Stretch(ts, 0, 0, <<>>) /\ Stretch(ts, m, 0, <<>>)
    BY DEF Stretch
  <2>3. Sorted(0, v[0], w[0])
    BY <1>3, <1>4, <2>1, <2>2
  <2> QED BY <2>3
<1>6. ASSUME NEW n \in 0..N - 1, n \in H PROVE n + 1 \in H
  <2>1. Sorted(n, v[n], w[n]) /\ n \in Nat /\ n + 1 \in 1..N
    BY <1>6
  <2>2. PICK s, r : s = v[n] /\ r = w[n]
    OBVIOUS
  <2>3. /\ s \in Seq(S) /\ r \in Seq(S)
        /\ Stretch(ts, 0, First(n), s) /\ Stretch(ts, m, n - First(n), r)
    BY <2>1, <2>2
  <2>4. ts[n + 1] \in S
    BY <2>1 DEF Known
  <2>5. Sorted(n + 1, Taken(ts[n + 1], TRUE, s), Taken(ts[n + 1], FALSE, r))
    <3>1. CASE n + 1 <= m
      <4>1. First(n) = n /\ First(n + 1) = n + 1 /\ n - n = (n + 1) - (n + 1) /\ 0 + n + 1 = n + 1
        BY <2>1, <3>1
      <4>2. Backed(ts[n + 1])
        BY <2>1, <3>1 DEF InOrder
      <4>3. Taken(ts[n + 1], TRUE, s) = Append(s, ts[n + 1]) /\ Taken(ts[n + 1], FALSE, r) = r
        BY <4>2 DEF Taken
      <4>4. Append(s, ts[n + 1]) \in Seq(S) /\ Stretch(ts, 0, n + 1, Append(s, ts[n + 1]))
        BY <2>1, <2>3, <2>4, <4>1, StretchExtended
      <4> QED BY <2>3, <4>1, <4>3, <4>4
    <3>2. CASE ~(n + 1 <= m)
      <4>1. /\ First(n) = m /\ First(n + 1) = m /\ n - m \in Nat
            /\ (n - m) + 1 = (n + 1) - m /\ m + (n - m) + 1 = n + 1
        BY <2>1, <3>2
      <4>2. ~Backed(ts[n + 1])
        BY <2>1, <3>2 DEF InOrder
      <4>3. Taken(ts[n + 1], FALSE, r) = Append(r, ts[n + 1]) /\ Taken(ts[n + 1], TRUE, s) = s
        BY <4>2 DEF Taken
      <4>4. PICK l \in Nat : l = n - m
        BY <4>1
      <4>5. Append(r, ts[n + 1]) \in Seq(S) /\ Stretch(ts, m, l + 1, Append(r, ts[n + 1]))
        <5>1. Stretch(ts, m, l, r) /\ ts[n + 1] = ts[m + l + 1]
          BY <2>3, <4>1, <4>4
        <5>2. m \in Nat
          OBVIOUS
        <5> QED BY <2>3, <2>4, <5>1, <5>2, StretchExtended
      <4> QED BY <2>3, <4>1, <4>3, <4>4, <4>5
    <3> QED BY <3>1, <3>2
  <2> HIDE DEF Sorted
  <2>6. Sorted(n + 1, v[n + 1], w[n + 1])
    BY <1>3, <1>4, <2>2, <2>5
  <2> QED BY <2>1, <2>6
<1> HIDE DEF H
<1>7. \A n \in 0..N : n \in H
  BY <1>5, <1>6, UpTo
<1>8. N \in H /\ First(N) = m
  BY <1>7
<1> QED BY <1>1, <1>2, <1>8 DEF H

-----------------------------------------------------------------------------
(* What is kept of tabs in a project file.                                 *)

\* It is made of what is kept of the single ones.
LEMMA ToTextAlike ==
  ASSUME NEW S, NEW ts, NEW us, NEW N \in Nat, Len(ts) = N, Len(us) = N,
         Known(ts, N, S), Known(us, N, S), \A i \in 1..N : InProject(us[i]) = InProject(ts[i])
  PROVE  ToText(us) = ToText(ts)
<1>1. Match(ts, us, N)
  <2> SUFFICES ASSUME NEW i \in 1..N PROVE Backed(us[i]) = Backed(ts[i])
    BY DEF Match
  <2>1. InProject(us[i]).file = us[i].file /\ InProject(ts[i]).file = ts[i].file
    BY DEF InProject
  <2> QED BY <2>1 DEF Backed
<1>2. ASSUME NEW b \in BOOLEAN PROVE AllInProject(Those(us, b)) = AllInProject(Those(ts, b))
  <2>1. Alike(ts, us, b, S, N, Those(ts, b), Those(us, b))
    BY <1>1, ThoseAlike
  <2>2. PICK s, r : s = Those(ts, b) /\ r = Those(us, b)
    OBVIOUS
  <2>3. s \in Seq(S) /\ r \in Seq(S) /\ Len(r) = Len(s)
    BY <2>1, <2>2 DEF Alike
  <2>4. ASSUME NEW j \in 1..Len(s) PROVE InProject(r[j]) = InProject(s[j])
    <3>1. PICK i \in 1..N : From(ts, us, b, s, r, j, i)
      BY <2>1, <2>2 DEF Alike
    <3> QED BY <3>1 DEF From
  <2>5. DOMAIN r = 1..Len(s) /\ DOMAIN s = 1..Len(s)
    BY <2>3
  <2>6. AllInProject(r) = AllInProject(s)
    BY <2>4, <2>5 DEF AllInProject
  <2> QED BY <2>2, <2>6
<1> QED BY <1>2 DEF ToText

\* Entries that are in their order are written as they were.
LEMMA ToTextInOrder ==
  ASSUME NEW S, NEW ss, NEW ts, NEW N \in Nat, Len(ts) = N, Known(ts, N, S),
         NEW R, ss \in Seq(R), Len(ss) = N, NEW m \in 0..N, InOrder(ss, N, m),
         \A i \in 1..N : InProject(ts[i]) = ss[i]
  PROVE  ToText(ts) = ss
<1>1. InOrder(ts, N, m)
  <2>1. ASSUME NEW i \in 1..N PROVE Backed(ts[i]) = Backed(ss[i])
    <3>1. InProject(ts[i]).file = ts[i].file
      BY DEF InProject
    <3> QED BY <3>1 DEF Backed
  <2> QED BY <2>1 DEF InOrder
<1>2. Stretch(ts, 0, m, Those(ts, TRUE)) /\ Stretch(ts, m, N - m, Those(ts, FALSE))
  BY <1>1, ThoseInOrder
<1>3. PICK s, r : s = Those(ts, TRUE) /\ r = Those(ts, FALSE)
  OBVIOUS
<1>4. Stretch(ts, 0, m, s) /\ Stretch(ts, m, N - m, r) /\ s \in Seq(S) /\ r \in Seq(S)
  <2>1. Match(ts, ts, N)
    BY DEF Match
  <2>2. Alike(ts, ts, TRUE, S, N, s, s) /\ Alike(ts, ts, FALSE, S, N, r, r)
    BY <1>3, <2>1, ThoseAlike
  <2> QED BY <1>2, <1>3, <2>2 DEF Alike
<1>5. /\ DOMAIN s = 1..m /\ \A i \in 1..m : s[i] = ts[0 + i]
      /\ DOMAIN r = 1..N - m /\ \A i \in 1..N - m : r[i] = ts[m + i]
  BY <1>4 DEF Stretch
<1>6. PICK a, b : a = AllInProject(s) /\ b = AllInProject(r)
  OBVIOUS
<1>7. a = [i \in 1..m |-> ss[i]]
  <2>1. \A i \in 1..m : 0 + i = i /\ i \in 1..N
    OBVIOUS
  <2> QED BY <1>5, <1>6, <2>1 DEF AllInProject
<1>8. b = [i \in 1..N - m |-> ss[m + i]]
  <2>1. \A i \in 1..N - m : m + i \in 1..N
    OBVIOUS
  <2> QED BY <1>5, <1>6, <2>1 DEF AllInProject
<1>9. a \o b = ss
  <2>0. \A i \in 1..N : ss[i] \in R
    OBVIOUS
  <2>1. a \in Seq(R) /\ b \in Seq(R) /\ Len(a) = m /\ Len(b) = N - m
    <3>1. \A i \in 1..m : ss[i] \in R
      BY <2>0
    <3>2. \A i \in 1..N - m : ss[m + i] \in R
      BY <2>0
    <3> QED BY <1>7, <1>8, <3>1, <3>2
  <2>2. PICK c : c = a \o b
    OBVIOUS
  <2>3. c \in Seq(R) /\ Len(c) = N
    <3>1. PICK k \in Nat : k = N - m
      OBVIOUS
    <3>2. m \in Nat /\ Len(a) = m /\ Len(b) = k /\ m + k = N
      BY <2>1, <3>1
    <3>3. c \in Seq(R) /\ Len(c) = m + k
      BY <2>1, <2>2, <3>2
    <3> QED BY <3>2, <3>3
  <2>4. ASSUME NEW i \in 1..N PROVE c[i] = ss[i]
    <3>1. CASE i <= m
      <4>1. c[i] = a[i]
        BY <2>1, <2>2, <3>1
      <4> QED BY <1>7, <3>1, <4>1
    <3>2. CASE ~(i <= m)
      <4>1. c[i] = b[i - m]
        BY <2>1, <2>2, <3>2
      <4>2. i - m \in 1..N - m /\ m + (i - m) = i
        BY <3>2
      <4> QED BY <1>8, <4>1, <4>2
    <3> QED BY <3>1, <3>2
  <2> QED BY <2>2, <2>3, <2>4
<1> QED BY <1>3, <1>6, <1>9 DEF ToText

\* What is written is in order, and is not empty if there is a tab.
LEMMA ToTextOrdered ==
  ASSUME NEW S, NEW ts, NEW N \in Nat, Len(ts) = N, Known(ts, N, S),
         NEW R, \A t \in S : InProject(t) \in R
  PROVE  /\ ToText(ts) \in Seq(R)
         /\ N # 0 => ToText(ts) # <<>>
         /\ \E m \in 0..Len(ToText(ts)) : InOrder(ToText(ts), Len(ToText(ts)), m)
<1>1. PICK s, r : s = Those(ts, TRUE) /\ r = Those(ts, FALSE)
  OBVIOUS
<1>2. Alike(ts, ts, TRUE, S, N, s, s) /\ Alike(ts, ts, FALSE, S, N, r, r)
  <2>1. Match(ts, ts, N)
    BY DEF Match
  <2> QED BY <1>1, <2>1, ThoseAlike
<1>3. s \in Seq(S) /\ r \in Seq(S)
  BY <1>2 DEF Alike
<1>4. \A j \in 1..Len(s) : s[j] \in S /\ Backed(s[j])
  <2> SUFFICES ASSUME NEW j \in 1..Len(s) PROVE s[j] \in S /\ Backed(s[j])
    OBVIOUS
  <2>1. PICK i \in 1..N : From(ts, ts, TRUE, s, s, j, i)
    BY <1>2 DEF Alike
  <2> QED BY <1>3, <2>1 DEF From
<1>5. \A j \in 1..Len(r) : r[j] \in S /\ ~Backed(r[j])
  <2> SUFFICES ASSUME NEW j \in 1..Len(r) PROVE r[j] \in S /\ ~Backed(r[j])
    OBVIOUS
  <2>1. PICK i \in 1..N : From(ts, ts, FALSE, r, r, j, i)
    BY <1>2 DEF Alike
  <2> QED BY <1>3, <2>1 DEF From
<1>6. PICK a, b : a = AllInProject(s) /\ b = AllInProject(r)
  OBVIOUS
<1>7. PICK k \in Nat, l \in Nat : k = Len(s) /\ l = Len(r)
  BY <1>3
<1>8. a = [j \in 1..k |-> InProject(s[j])] /\ b = [j \in 1..l |-> InProject(r[j])]
  BY <1>3, <1>6, <1>7 DEF AllInProject
<1>9. \A t : Backed(InProject(t)) <=> Backed(t)
  BY DEF InProject, Backed
<1>10. \A j \in 1..k : a[j] \in R /\ Backed(a[j])
  BY <1>4, <1>7, <1>8, <1>9
<1>11. \A j \in 1..l : b[j] \in R /\ ~Backed(b[j])
  BY <1>5, <1>7, <1>8, <1>9
<1>12. a \in Seq(R) /\ b \in Seq(R) /\ Len(a) = k /\ Len(b) = l
  BY <1>8, <1>10, <1>11
<1>13. PICK c : c = a \o b
  OBVIOUS
<1>14. c \in Seq(R) /\ Len(c) = k + l
  BY <1>12, <1>13
<1>15. InOrder(c, k + l, k)
  <2>1. ASSUME NEW i \in 1..k + l, i <= k PROVE Backed(c[i])
    <3>1. c[i] = a[i] /\ i \in 1..k
      BY <1>12, <1>13, <2>1
    <3> QED BY <1>10, <3>1
  <2>2. ASSUME NEW i \in 1..k + l, k < i PROVE ~Backed(c[i])
    <3>1. PICK n \in 1..l : i = k + n
      <4>1. i - k \in 1..l /\ i = k + (i - k)
        BY <2>2
      <4> QED BY <4>1
    <3>2. k + n \in 1..k + l /\ ~(k + n <= k) /\ (k + n) - k = n
      OBVIOUS
    <3>3. (a \o b)[k + n] = b[n]
      BY <1>12, <3>2, SMTT(60)
    <3>4. c[i] = b[n]
      BY <1>13, <3>1, <3>3
    <3> QED BY <1>11, <3>4
  <2> QED BY <2>1, <2>2 DEF InOrder
<1>16. N # 0 => k + l # 0
  <2> SUFFICES ASSUME N # 0 PROVE k # 0 \/ l # 0
    OBVIOUS
  <2>1. 1 \in 1..N
    OBVIOUS
  <2>2. CASE Backed(ts[1]) = TRUE
    <3>1. Fits(ts[1], TRUE)
      BY <2>2 DEF Fits
    <3>2. Holds(Those(ts, TRUE), ts[1])
      BY <2>1, <3>1, AllThere
    <3>3. PICK j : j \in 1..k
      BY <1>1, <1>7, <3>2 DEF Holds
    <3> QED BY <3>3
  <2>3. CASE Backed(ts[1]) = FALSE
    <3>1. Fits(ts[1], FALSE)
      BY <2>3 DEF Fits
    <3>2. Holds(Those(ts, FALSE), ts[1])
      BY <2>1, <3>1, AllThere
    <3>3. PICK j : j \in 1..l
      BY <1>1, <1>7, <3>2 DEF Holds
    <3> QED BY <3>3
  <2> QED BY <2>2, <2>3 DEF Backed
<1>17. c # <<>> \/ k + l = 0
  BY <1>14
<1>18. k \in 0..k + l
  OBVIOUS
<1>19. ToText(ts) = c
  BY <1>1, <1>6, <1>13 DEF ToText
<1> QED BY <1>14, <1>15, <1>16, <1>17, <1>18, <1>19

-----------------------------------------------------------------------------
(* The project editor: a project that is not marked is on disk.            *)

Contents  == Text \cup {"", "project"}
Readable  == Contents \ {"foreign"}
FileNames == Files \cup {""}
Source    == [file : FileNames, text : Contents, bytes : Readable, stale : BOOLEAN]
Entry     == {e \in [file : FileNames, text : Readable] : Backed(e) => e.text = ""}
Selections == Seq({"FC9", "FC12"})
Settings  == {"none", "default", "changed"}
Project   == [awl : Seq(Entry), sym : Seq(Entry), libs : Selections, settings : Settings]

\* There is always a tab of each kind, and what is no symbol table can be written.
Writable(kind, t) == kind = "awl" => t.text # "foreign"
TabsTyped(T) ==
  /\ T \in [Kinds -> Seq(Source)]
  /\ \A k \in Kinds : T[k] # <<>> /\ \A i \in 1..Len(T[k]) : Writable(k, T[k][i])

\* No two tabs have a file in common, and what was asked for last is what is shown.
Settled(t) == t.text # "foreign" /\ (~t.stale => t.bytes = t.text)
Careful(T) == ~Shared(T) /\ \A k \in Kinds : \A i \in 1..Len(T[k]) : Settled(T[k][i])

\* To load the project p gives what is shown.
AllShown(ts) == [i \in DOMAIN ts |-> AsShown(ts[i])]
Reads(T, d, p) ==
  \A k \in Kinds :
    /\ p[k] = ToText(AllShown(T[k]))
    /\ \A i \in DOMAIN T[k] : T[k][i].file # "" => d[T[k][i].file] = T[k][i].text

\* The entries of a project are in the order in which they are written.
Sorted(ss) == ss # <<>> /\ \E m \in 0..Len(ss) : InOrder(ss, Len(ss), m)
ProjectKept(p) == p \in Project /\ (p # NoProject => \A k \in Kinds : Sorted(p[k]))

EditorTypes ==
  /\ TabsTyped(tabs)
  /\ disk \in [Files -> Readable]
  /\ DOMAIN saved = Projects /\ \A p \in Projects : ProjectKept(saved[p])
  /\ libs \in Selections /\ settings \in Settings
  /\ dirty \in BOOLEAN /\ adHoc \in BOOLEAN /\ careless \in BOOLEAN
  /\ filename \in Files \cup Projects \cup {""}

CarefulInv == ~careless => Careful(tabs)

\* An ad-hoc project is marked, and only such a one has the name of a source.
NameInv == (adHoc => dirty) /\ (filename \in Files => adHoc \/ careless)

CleanInv ==
  ~dirty /\ filename # "" /\ ~careless =>
    /\ filename \in Projects
    /\ Reads(tabs, disk, saved[filename])
    /\ saved[filename].libs = libs /\ saved[filename].settings = settings

EditorInv == EditorTypes /\ CarefulInv /\ NameInv /\ CleanInv

LEMMA CleanInvIsCleanMeansSaved == CleanInv <=> CleanMeansSaved
BY DEF CleanInv, CleanMeansSaved, Reads, AllShown

\* A step that marks the project, or that goes unnoticed, leaves little to be shown.
Touches ==
  /\ dirty' = TRUE \/ (dirty' = dirty /\ careless' = TRUE)
  /\ careless' \in BOOLEAN /\ (careless => careless')
  /\ UNCHANGED <<disk, saved, filename, adHoc>>
  /\ libs' \in Selections /\ settings' \in Settings

LEMMA TouchedKept ==
  ASSUME EditorInv, Touches, TabsTyped(tabs'), ~careless' => Careful(tabs')
  PROVE  EditorInv'
<1>1. EditorTypes'
  BY DEF EditorInv, EditorTypes, Touches
<1>2. CarefulInv'
  BY DEF CarefulInv
<1>3. NameInv'
  <2>1. NameInv /\ adHoc' = adHoc /\ filename' = filename
    BY DEF EditorInv, Touches
  <2>2. (dirty => dirty') /\ (careless => careless')
    BY DEF Touches
  <2>3. (adHoc => dirty) /\ (filename \in Files => adHoc \/ careless)
    BY <2>1 DEF NameInv
  <2> QED BY <2>1, <2>2, <2>3 DEF NameInv
<1>4. CleanInv'
  BY DEF EditorInv, EditorTypes, CleanInv, Touches
<1> QED BY <1>1, <1>2, <1>3, <1>4 DEF EditorInv

-----------------------------------------------------------------------------
(* Tabs that are changed.                                                  *)

\* One tab is changed.
LEMMA TabsPut ==
  ASSUME NEW T, TabsTyped(T), NEW k \in Kinds, NEW us \in Seq(Source), us # <<>>,
         \A i \in 1..Len(us) : Writable(k, us[i])
  PROVE  TabsTyped([T EXCEPT ![k] = us])
BY DEF TabsTyped

\* The tabs us are some of the tabs ts.
Among(us, ts, n, pick) ==
  /\ pick \in [1..Len(us) -> 1..n]
  /\ \A i, j \in 1..Len(us) : pick[i] = pick[j] => i = j
  /\ \A i \in 1..Len(us) : us[i] = ts[pick[i]]

LEMMA SomeOfThem ==
  ASSUME NEW T, TabsTyped(T), NEW k \in Kinds, NEW us, us # <<>>, us \in Seq(Source),
         NEW pick, Among(us, T[k], Len(T[k]), pick)
  PROVE  /\ TabsTyped([T EXCEPT ![k] = us])
         /\ Careful(T) => Careful([T EXCEPT ![k] = us])
<1>1. T \in [Kinds -> Seq(Source)]
  BY DEF TabsTyped
<1>2. \A i \in 1..Len(us) : pick[i] \in 1..Len(T[k]) /\ us[i] = T[k][pick[i]]
  BY DEF Among
<1>3. \A i \in 1..Len(us) : Writable(k, us[i])
  BY <1>2 DEF TabsTyped
<1>4. TabsTyped([T EXCEPT ![k] = us])
  BY <1>3, TabsPut
<1> DEFINE U == [T EXCEPT ![k] = us]
<1>5. ASSUME Careful(T) PROVE Careful(U)
  <2>1. /\ U \in [Kinds -> Seq(Source)] /\ U[k] = us
        /\ \A l \in Kinds : l # k => U[l] = T[l]
    BY <1>1
  <2> HIDE DEF U
  <2>2. \A l \in Kinds : \A i \in 1..Len(U[l]) : Settled(U[l][i])
    <3> SUFFICES ASSUME NEW l \in Kinds, NEW i \in 1..Len(U[l]) PROVE Settled(U[l][i])
      OBVIOUS
    <3>1. \A j \in 1..Len(T[l]) : Settled(T[l][j])
      BY <1>5 DEF Careful
    <3>2. CASE l = k
      BY <1>2, <2>1, <3>1, <3>2
    <3>3. CASE l # k
      BY <2>1, <3>1, <3>3
    <3> QED BY <3>2, <3>3
  <2>3. ASSUME Shared(U) PROVE FALSE
    <3>0. PICK l \in Kinds, r \in Kinds : \E i \in DOMAIN U[l] : \E j \in DOMAIN U[r] :
            <<l, i>> # <<r, j>> /\ U[l][i].file # "" /\ U[l][i].file = U[r][j].file
      BY <2>3 DEF Shared
    <3>1. PICK i \in DOMAIN U[l], j \in DOMAIN U[r] :
            <<l, i>> # <<r, j>> /\ U[l][i].file # "" /\ U[l][i].file = U[r][j].file
      BY <3>0
    <3> DEFINE Old(q, n) == IF q = k THEN pick[n] ELSE n
    <3>2. ASSUME NEW q \in Kinds, NEW n \in DOMAIN U[q]
          PROVE  Old(q, n) \in DOMAIN T[q] /\ U[q][n] = T[q][Old(q, n)]
      <4>1. DOMAIN T[q] = 1..Len(T[q]) /\ DOMAIN U[q] = 1..Len(U[q])
        BY <1>1, <2>1
      <4>2. CASE q = k
        BY <1>2, <2>1, <4>1, <4>2
      <4>3. CASE q # k
        BY <2>1, <4>1, <4>3
      <4> QED BY <4>2, <4>3
    <3>3. <<l, Old(l, i)>> # <<r, Old(r, j)>>
      <4> SUFFICES ASSUME l = r, Old(l, i) = Old(r, j) PROVE FALSE
        OBVIOUS
      <4>1. CASE l = k
        <5>1. pick[i] = pick[j] /\ i \in 1..Len(us) /\ j \in 1..Len(us)
          BY <2>1, <4>1
        <5>2. i = j
          BY <5>1 DEF Among
        <5> QED BY <3>1, <5>2
      <4>2. CASE l # k
        BY <3>1, <4>2
      <4> QED BY <4>1, <4>2
    <3>4. PICK x, y : x = Old(l, i) /\ y = Old(r, j)
      OBVIOUS
    <3>5. x \in DOMAIN T[l] /\ U[l][i] = T[l][x] /\ y \in DOMAIN T[r] /\ U[r][j] = T[r][y]
      BY <3>2, <3>4
    <3>6. <<l, x>> # <<r, y>>
      BY <3>3, <3>4
    <3>7. T[l][x].file # "" /\ T[l][x].file = T[r][y].file
      BY <3>1, <3>5
    <3>8. Shared(T)
      BY <3>5, <3>6, <3>7 DEF Shared
    <3> QED BY <1>5, <3>8 DEF Careful
  <2> QED BY <2>2, <2>3 DEF Careful
<1> QED BY <1>4, <1>5

\* Sequences.
LEMMA Concatenated ==
  ASSUME NEW S, NEW s \in Seq(S), NEW t \in Seq(S)
  PROVE  s \o t \in Seq(S) /\ Len(s \o t) = Len(s) + Len(t)
OBVIOUS

Joined(c, s, t) == \A i \in 1 .. Len(s) + Len(t) : c[i] = IF i <= Len(s) THEN s[i] ELSE t[i - Len(s)]
LEMMA JoinedIs ==
  ASSUME NEW S, NEW s \in Seq(S), NEW t \in Seq(S)
  PROVE  Joined(s \o t, s, t)
BY DEF Joined

LEMMA OneMore ==
  ASSUME NEW S, NEW s \in Seq(S), NEW t \in Seq(S), Len(t) = 1
  PROVE  (s \o t)[Len(s) + 1] = t[1]
<1>1. PICK c : c = s \o t
  OBVIOUS
<1>2. Joined(c, s, t)
  BY <1>1, JoinedIs
<1>3. PICK n \in Nat : n = Len(s)
  OBVIOUS
<1>4. \A i \in 1 .. n + 1 : c[i] = IF i <= n THEN s[i] ELSE t[i - n]
  BY <1>2, <1>3 DEF Joined
<1>5. n + 1 \in 1 .. n + 1 /\ n + 1 - n = 1 /\ ~(n + 1 <= n)
  OBVIOUS
<1>6. c[n + 1] = t[n + 1 - n]
  BY <1>4, <1>5
<1> QED BY <1>1, <1>3, <1>5, <1>6

LEMMA Listing ==
  ASSUME NEW S, NEW n \in Nat, NEW f \in [1..n -> S]
  PROVE  f \in Seq(S) /\ Len(f) = n
OBVIOUS

LEMMA DomainIs ==
  ASSUME NEW S, NEW ts \in Seq(S)
  PROVE  DOMAIN ts = 1..Len(ts) /\ Len(ts) \in Nat /\ \A i \in 1..Len(ts) : ts[i] \in S
OBVIOUS

\* One source is taken away.
Skip(i, m) == IF m < i THEN m ELSE m + 1
LEMMA Removed ==
  ASSUME NEW S, NEW ts \in Seq(S), NEW i \in 1..Len(ts)
  PROVE  /\ RemoveAt(ts, i) \in Seq(S) /\ Len(RemoveAt(ts, i)) = Len(ts) - 1
         /\ \A m \in 1..Len(ts) - 1 : RemoveAt(ts, i)[m] = ts[Skip(i, m)]
<1>1. PICK a, b : a = SubSeq(ts, 1, i - 1) /\ b = SubSeq(ts, i + 1, Len(ts))
  OBVIOUS
<1>2. PICK n \in Nat : n = Len(ts)
  OBVIOUS
<1>3. /\ a \in Seq(S) /\ Len(a) = i - 1 /\ \A m \in 1..i - 1 : a[m] = ts[m]
      /\ b \in Seq(S) /\ Len(b) = n - i /\ \A m \in 1..n - i : b[m] = ts[i + m]
  <2>1. a \in Seq(S) /\ Len(a) = i - 1 /\ \A m \in 1..i - 1 : a[m] = ts[m]
    BY <1>1
  <2>2. b \in Seq(S) /\ Len(b) = n - i /\ \A m \in 1..n - i : b[m] = ts[i + m]
    BY <1>1, <1>2
  <2> QED BY <2>1, <2>2
<1>4. PICK c : c = a \o b
  OBVIOUS
<1>5. c \in Seq(S) /\ Len(c) = n - 1
  BY <1>2, <1>3, <1>4
<1>6. ASSUME NEW m \in 1..n - 1 PROVE c[m] = ts[Skip(i, m)]
  <2>1. CASE m < i
    BY <1>3, <1>4, <2>1 DEF Skip
  <2>2. CASE ~(m < i)
    <3>1. c[m] = b[m - (i - 1)] /\ m - (i - 1) \in 1..n - i /\ i + (m - (i - 1)) = m + 1
      BY <1>2, <1>3, <1>4, <2>2, SMTT(60)
    <3> QED BY <1>3, <2>2, <3>1 DEF Skip
  <2> QED BY <2>1, <2>2
<1> QED BY <1>1, <1>2, <1>4, <1>5, <1>6 DEF RemoveAt

\* One source is put in between.
Between(us, ts, n, j, t) ==
  Len(us) = n + 1 /\ \A m \in 1..n + 1 : us[m] = IF m < j THEN ts[m] ELSE IF m = j THEN t ELSE ts[m - 1]
LEMMA Inserted ==
  ASSUME NEW S, NEW ts \in Seq(S), NEW n \in Nat, Len(ts) = n, NEW j \in 1..n + 1, NEW t \in S
  PROVE  InsertAt(ts, j, t) \in Seq(S) /\ Between(InsertAt(ts, j, t), ts, n, j, t)
<1>1. PICK a, b, e : a = SubSeq(ts, 1, j - 1) /\ b = SubSeq(ts, j, Len(ts)) /\ e = <<t>>
  OBVIOUS
<1>2. a \in Seq(S) /\ Len(a) = j - 1 /\ \A m \in 1..j - 1 : a[m] = ts[m]
  BY <1>1
<1>3. b \in Seq(S) /\ Len(b) = n + 1 - j /\ \A m \in 1..n + 1 - j : b[m] = ts[m + (j - 1)]
  BY <1>1
<1>4. e \in Seq(S) /\ Len(e) = 1 /\ e[1] = t
  BY <1>1
<1>5. PICK c : c = a \o e
  OBVIOUS
<1>6. c \in Seq(S) /\ Len(c) = j /\ \A m \in 1..j : c[m] = IF m < j THEN ts[m] ELSE t
  <2>1. c \in Seq(S) /\ Len(c) = j
    <3>1. PICK l \in Nat : l = j - 1
      OBVIOUS
    <3>2. a \in Seq(S) /\ e \in Seq(S) /\ Len(a) = l /\ Len(e) = 1
      BY <1>2, <1>4, <3>1
    <3>3. c \in Seq(S) /\ Len(c) = Len(a) + Len(e)
      BY <1>5, <3>2, Concatenated
    <3>4. l + 1 = j
      BY <3>1
    <3> QED BY <3>2, <3>3, <3>4
  <2>2. ASSUME NEW m \in 1..j PROVE c[m] = IF m < j THEN ts[m] ELSE t
    <3>1. CASE m < j
      <4>1. c[m] = a[m] /\ m \in 1..j - 1
        BY <1>2, <1>4, <1>5, <3>1
      <4> QED BY <1>2, <3>1, <4>1
    <3>2. CASE m = j
      <4>1. m = Len(a) + 1 /\ Len(e) = 1
        BY <1>2, <1>4, <3>2
      <4>2. (a \o e)[Len(a) + 1] = e[1]
        BY <1>2, <1>4, OneMore
      <4>3. c[m] = e[1]
        BY <1>5, <4>1, <4>2
      <4> QED BY <1>4, <3>2, <4>3
    <3> QED BY <3>1, <3>2
  <2> QED BY <2>1, <2>2
<1>7. PICK d : d = c \o b
  OBVIOUS
<1>8. d \in Seq(S) /\ Len(d) = n + 1
  BY <1>3, <1>6, <1>7
<1>9. ASSUME NEW m \in 1..n + 1 PROVE d[m] = IF m < j THEN ts[m] ELSE IF m = j THEN t ELSE ts[m - 1]
  <2>1. CASE m <= j
    <3>1. d[m] = c[m]
      BY <1>3, <1>6, <1>7, <2>1
    <3> QED BY <1>6, <2>1, <3>1
  <2>2. CASE ~(m <= j)
    <3>1. d[m] = b[m - j] /\ m - j \in 1..n + 1 - j /\ (m - j) + (j - 1) = m - 1
      BY <1>3, <1>6, <1>7, <2>2
    <3> QED BY <1>3, <2>2, <3>1
  <2> QED BY <2>1, <2>2
<1> QED BY <1>1, <1>5, <1>7, <1>8, <1>9 DEF InsertAt, Between

LEMMA RemovedAmong ==
  ASSUME NEW ts \in Seq(Source), Len(ts) > 1, NEW i \in 1..Len(ts)
  PROVE  /\ RemoveAt(ts, i) \in Seq(Source) /\ RemoveAt(ts, i) # <<>>
         /\ \E pick : Among(RemoveAt(ts, i), ts, Len(ts), pick)
<1>1. PICK us : us = RemoveAt(ts, i)
  OBVIOUS
<1>2. PICK n \in Nat : n = Len(ts)
  OBVIOUS
<1>3. us \in Seq(Source) /\ Len(us) = n - 1 /\ \A m \in 1..n - 1 : us[m] = ts[Skip(i, m)]
  BY <1>1, <1>2, Removed
<1> DEFINE pick == [m \in 1..Len(us) |-> Skip(i, m)]
<1>4. pick \in [1..Len(us) -> 1..n]
  BY <1>2, <1>3 DEF Skip
<1>5. \A a, b \in 1..Len(us) : pick[a] = pick[b] => a = b
  BY <1>2, <1>3 DEF Skip
<1>6. \A a \in 1..Len(us) : us[a] = ts[pick[a]]
  BY <1>3
<1> HIDE DEF pick
<1>7. Among(us, ts, n, pick)
  BY <1>4, <1>5, <1>6 DEF Among
<1>8. us # <<>>
  BY <1>2, <1>3
<1> QED BY <1>1, <1>2, <1>3, <1>7, <1>8

LEMMA MovedAmong ==
  ASSUME NEW ts \in Seq(Source), NEW i \in 1..Len(ts), NEW j \in 1..Len(ts)
  PROVE  LET us == InsertAt(RemoveAt(ts, i), j, ts[i])
         IN  us \in Seq(Source) /\ us # <<>> /\ \E pick : Among(us, ts, Len(ts), pick)
<1>1. PICK rs : rs = RemoveAt(ts, i)
  OBVIOUS
<1>2. PICK n \in Nat : n = Len(ts)
  OBVIOUS
<1>3. rs \in Seq(Source) /\ Len(rs) = n - 1 /\ \A m \in 1..n - 1 : rs[m] = ts[Skip(i, m)]
  BY <1>1, <1>2, Removed
<1>4. PICK l \in Nat : l = n - 1
  BY <1>2
<1>5. PICK us : us = InsertAt(rs, j, ts[i])
  OBVIOUS
<1>6. l + 1 = n /\ j \in 1..l + 1 /\ ts[i] \in Source /\ Len(rs) = l
  BY <1>2, <1>3, <1>4
<1>7. us \in Seq(Source) /\ Len(us) = l + 1
      /\ \A m \in 1..l + 1 : us[m] = IF m < j THEN rs[m] ELSE IF m = j THEN ts[i] ELSE rs[m - 1]
  <2>1. PICK t \in Source : t = ts[i]
    BY <1>6
  <2>2. InsertAt(rs, j, t) \in Seq(Source) /\ Between(InsertAt(rs, j, t), rs, l, j, t)
    BY <1>3, <1>6, Inserted
  <2>3. us \in Seq(Source) /\ Between(us, rs, l, j, t)
    BY <1>5, <2>1, <2>2
  <2> QED BY <2>1, <2>3 DEF Between
<1> DEFINE place(m) == IF m < j THEN Skip(i, m) ELSE IF m = j THEN i ELSE Skip(i, m - 1)
           pick == [m \in 1..Len(us) |-> place(m)]
<1>8. pick \in [1..Len(us) -> 1..n]
  BY <1>2, <1>6, <1>7 DEF Skip
<1>9. \A a, b \in 1..Len(us) : pick[a] = pick[b] => a = b
  BY <1>2, <1>6, <1>7 DEF Skip
<1>10. ASSUME NEW a \in 1..Len(us) PROVE us[a] = ts[pick[a]]
  <2>0. a \in 1..n /\ pick[a] = place(a) /\ us[a] = IF a < j THEN rs[a] ELSE IF a = j THEN ts[i] ELSE rs[a - 1]
    BY <1>6, <1>7
  <2>1. CASE a < j
    <3>1. a \in 1..n - 1
      BY <1>2, <2>0, <2>1
    <3> QED BY <1>3, <2>0, <2>1, <3>1
  <2>2. CASE a > j
    <3>1. a - 1 \in 1..n - 1 /\ ~(a < j) /\ a # j
      BY <1>2, <2>0, <2>2
    <3>2. us[a] = rs[a - 1] /\ pick[a] = Skip(i, a - 1)
      BY <2>0, <3>1
    <3>3. rs[a - 1] = ts[Skip(i, a - 1)]
      BY <1>3, <3>1
    <3> QED BY <3>2, <3>3
  <2>3. CASE a = j
    BY <2>0, <2>3
  <2> QED BY <2>0, <2>1, <2>2, <2>3
<1> HIDE DEF pick
<1>11. Among(us, ts, n, pick)
  BY <1>8, <1>9, <1>10 DEF Among
<1>12. us # <<>>
  BY <1>6, <1>7
<1> QED BY <1>1, <1>2, <1>5, <1>7, <1>11, <1>12

LEMMA Put ==
  ASSUME NEW S, NEW ts \in Seq(S), NEW i \in 1..Len(ts), NEW t \in S
  PROVE  /\ [ts EXCEPT ![i] = t] \in Seq(S) /\ Len([ts EXCEPT ![i] = t]) = Len(ts)
         /\ \A m \in 1..Len(ts) : [ts EXCEPT ![i] = t][m] = IF m = i THEN t ELSE ts[m]
OBVIOUS

\* One tab is replaced; it keeps its file or gives it up.
Retains(t, s) == t.file \in {s.file, ""}
LEMMA Replaced ==
  ASSUME NEW T, TabsTyped(T), NEW k \in Kinds, NEW i \in 1..Len(T[k]), NEW t \in Source,
         Writable(k, t), Retains(t, T[k][i])
  PROVE  /\ TabsTyped([T EXCEPT ![k] = [T[k] EXCEPT ![i] = t]])
         /\ Careful(T) /\ Settled(t) => Careful([T EXCEPT ![k] = [T[k] EXCEPT ![i] = t]])
<1>1. T \in [Kinds -> Seq(Source)] /\ T[k] \in Seq(Source)
  BY DEF TabsTyped
<1>2. PICK us : us = [T[k] EXCEPT ![i] = t]
  OBVIOUS
<1>3. us \in Seq(Source) /\ Len(us) = Len(T[k]) /\ \A m \in 1..Len(us) : us[m] = IF m = i THEN t ELSE T[k][m]
  <2>1. PICK ts \in Seq(Source) : ts = T[k]
    BY <1>1
  <2>2. i \in 1..Len(ts) /\ us = [ts EXCEPT ![i] = t]
    BY <1>2, <2>1
  <2>3. us \in Seq(Source) /\ Len(us) = Len(ts) /\ \A m \in 1..Len(us) : us[m] = IF m = i THEN t ELSE ts[m]
    BY <2>2, Put
  <2> QED BY <2>1, <2>3
<1>4. us # <<>> /\ DOMAIN us = 1..Len(us) /\ DOMAIN T[k] = 1..Len(T[k])
  BY <1>1, <1>3, DomainIs
<1>5. \A m \in 1..Len(us) : Writable(k, us[m])
  BY <1>3 DEF TabsTyped
<1>6. TabsTyped([T EXCEPT ![k] = us])
  BY <1>3, <1>4, <1>5, TabsPut
<1>7. PICK U : U = [T EXCEPT ![k] = us]
  OBVIOUS
<1>8. U \in [Kinds -> Seq(Source)] /\ U[k] = us /\ \A l \in Kinds : l # k => U[l] = T[l]
  BY <1>1, <1>3, <1>7
<1>9. ASSUME NEW l \in Kinds
      PROVE  /\ DOMAIN U[l] = DOMAIN T[l] /\ DOMAIN T[l] = 1..Len(T[l]) /\ Len(U[l]) = Len(T[l])
             /\ \A m \in DOMAIN T[l] : U[l][m] = T[l][m] \/ (l = k /\ m = i /\ U[l][m] = t)
  <2>1. CASE l = k
    <3>1. U[l] = us /\ T[l] = T[k]
      BY <1>8, <2>1
    <3> QED BY <1>3, <1>4, <2>1, <3>1
  <2>2. CASE l # k
    <3>1. U[l] = T[l] /\ T[l] \in Seq(Source)
      BY <1>1, <1>8, <2>2
    <3>2. DOMAIN T[l] = 1..Len(T[l])
      BY <3>1, DomainIs
    <3> QED BY <3>1, <3>2
  <2> QED BY <2>1, <2>2
<1>10. ASSUME Careful(T), Settled(t) PROVE Careful(U)
  <2>1. \A l \in Kinds : \A m \in 1..Len(U[l]) : Settled(U[l][m])
    <3> SUFFICES ASSUME NEW l \in Kinds, NEW m \in 1..Len(U[l]) PROVE Settled(U[l][m])
      OBVIOUS
    <3>1. m \in DOMAIN T[l] /\ m \in 1..Len(T[l])
      BY <1>9
    <3>2. U[l][m] = T[l][m] \/ U[l][m] = t
      BY <1>9, <3>1
    <3>3. Settled(T[l][m])
      BY <1>10, <3>1 DEF Careful
    <3> QED BY <1>10, <3>2, <3>3
  <2>2. ASSUME NEW l \in Kinds, NEW m \in DOMAIN U[l], U[l][m].file # ""
        PROVE  U[l][m].file = T[l][m].file /\ m \in DOMAIN T[l]
    BY <1>9, <2>2 DEF Retains
  <2>3. ASSUME Shared(U) PROVE FALSE
    <3>0. PICK l \in Kinds, r \in Kinds : \E x \in DOMAIN U[l] : \E y \in DOMAIN U[r] :
            <<l, x>> # <<r, y>> /\ U[l][x].file # "" /\ U[l][x].file = U[r][y].file
      BY <2>3 DEF Shared
    <3>1. PICK x \in DOMAIN U[l], y \in DOMAIN U[r] :
            <<l, x>> # <<r, y>> /\ U[l][x].file # "" /\ U[l][x].file = U[r][y].file
      BY <3>0
    <3>2. U[l][x].file = T[l][x].file /\ U[r][y].file = T[r][y].file /\ x \in DOMAIN T[l] /\ y \in DOMAIN T[r]
      BY <2>2, <3>1
    <3>3. <<l, x>> # <<r, y>> /\ T[l][x].file # "" /\ T[l][x].file = T[r][y].file
      BY <3>1, <3>2
    <3>4. Shared(T)
      BY <3>2, <3>3 DEF Shared
    <3> QED BY <1>10, <3>4 DEF Careful
  <2> QED BY <2>1, <2>3 DEF Careful
<1> QED BY <1>2, <1>6, <1>7, <1>10

\* One tab is added, whose file no other has.
LEMMA Added ==
  ASSUME NEW T, TabsTyped(T), NEW k \in Kinds, NEW t \in Source, Writable(k, t)
  PROVE  /\ TabsTyped([T EXCEPT ![k] = Append(T[k], t)])
         /\ /\ Careful(T) /\ Settled(t)
            /\ t.file # "" => \A l \in Kinds : \A i \in DOMAIN T[l] : T[l][i].file # t.file
            => Careful([T EXCEPT ![k] = Append(T[k], t)])
<1>1. T \in [Kinds -> Seq(Source)] /\ T[k] \in Seq(Source)
  BY DEF TabsTyped
<1>2. PICK us : us = Append(T[k], t)
  OBVIOUS
<1>3. PICK n \in Nat : n = Len(T[k])
  BY <1>1
<1>4. us \in Seq(Source) /\ Len(us) = n + 1 /\ us[n + 1] = t /\ \A m \in 1..n : us[m] = T[k][m]
  BY <1>1, <1>2, <1>3
<1>5. us # <<>>
  BY <1>4
<1>6. \A m \in 1..Len(us) : m = n + 1 \/ m \in 1..n
  BY <1>4
<1>7. \A m \in 1..Len(us) : Writable(k, us[m])
  BY <1>3, <1>4, <1>6 DEF TabsTyped
<1>8. TabsTyped([T EXCEPT ![k] = us])
  BY <1>4, <1>5, <1>7, TabsPut
<1>9. PICK U : U = [T EXCEPT ![k] = us]
  OBVIOUS
<1>10. U \in [Kinds -> Seq(Source)] /\ U[k] = us /\ \A l \in Kinds : l # k => U[l] = T[l]
  BY <1>1, <1>4, <1>9
<1>11. ASSUME NEW l \in Kinds, NEW m \in DOMAIN U[l]
      PROVE  \/ m \in DOMAIN T[l] /\ m \in 1..Len(T[l]) /\ U[l][m] = T[l][m]
             \/ l = k /\ m = n + 1 /\ U[l][m] = t
  <2>1. CASE l = k
    <3>1. m \in 1..Len(us)
      BY <1>4, <1>10, <2>1
    <3>2. DOMAIN T[k] = 1..n
      BY <1>1, <1>3
    <3> QED BY <1>3, <1>4, <1>6, <1>10, <2>1, <3>1, <3>2
  <2>2. CASE l # k
    BY <1>1, <1>10, <2>2
  <2> QED BY <2>1, <2>2
<1>12. ASSUME Careful(T), Settled(t), t.file # "" => \A l \in Kinds : \A i \in DOMAIN T[l] : T[l][i].file # t.file
       PROVE  Careful(U)
  <2>1. \A l \in Kinds : \A m \in 1..Len(U[l]) : Settled(U[l][m])
    <3> SUFFICES ASSUME NEW l \in Kinds, NEW m \in 1..Len(U[l]) PROVE Settled(U[l][m])
      OBVIOUS
    <3>1. m \in DOMAIN U[l]
      BY <1>10
    <3>2. \A j \in 1..Len(T[l]) : Settled(T[l][j])
      BY <1>12 DEF Careful
    <3> QED BY <1>11, <1>12, <3>1, <3>2
  <2>2. ASSUME Shared(U) PROVE FALSE
    <3>0. PICK l \in Kinds, r \in Kinds : \E x \in DOMAIN U[l] : \E y \in DOMAIN U[r] :
            <<l, x>> # <<r, y>> /\ U[l][x].file # "" /\ U[l][x].file = U[r][y].file
      BY <2>2 DEF Shared
    <3>1. PICK x \in DOMAIN U[l], y \in DOMAIN U[r] :
            <<l, x>> # <<r, y>> /\ U[l][x].file # "" /\ U[l][x].file = U[r][y].file
      BY <3>0
    <3>2. CASE U[l][x] = t /\ l = k /\ x = n + 1
      <4>1. t.file # "" /\ U[r][y].file = t.file
        BY <3>1, <3>2
      <4>2. ~(r = k /\ y = n + 1)
        BY <3>1, <3>2
      <4>3. y \in DOMAIN T[r] /\ U[r][y] = T[r][y]
        BY <1>11, <4>2
      <4> QED BY <1>12, <4>1, <4>3
    <3>3. CASE U[r][y] = t /\ r = k /\ y = n + 1
      <4>1. t.file # "" /\ U[l][x].file = t.file
        BY <3>1, <3>3
      <4>2. ~(l = k /\ x = n + 1)
        BY <3>1, <3>3
      <4>3. x \in DOMAIN T[l] /\ U[l][x] = T[l][x]
        BY <1>11, <4>2
      <4> QED BY <1>12, <4>1, <4>3
    <3>4. CASE x \in DOMAIN T[l] /\ U[l][x] = T[l][x] /\ y \in DOMAIN T[r] /\ U[r][y] = T[r][y]
      <4>1. <<l, x>> # <<r, y>> /\ T[l][x].file # "" /\ T[l][x].file = T[r][y].file
        BY <3>1, <3>4
      <4>2. Shared(T)
        BY <3>4, <4>1 DEF Shared
      <4> QED BY <1>12, <4>2 DEF Careful
    <3> QED BY <1>11, <3>2, <3>3, <3>4
  <2> QED BY <2>1, <2>2 DEF Careful
<1> QED BY <1>2, <1>8, <1>9, <1>12

-----------------------------------------------------------------------------
(* What is shown, and what a project file gives.                           *)

\* T and U show the same.
SameView(T, U) ==
  \A k \in Kinds : /\ Len(U[k]) = Len(T[k])
                   /\ \A i \in 1..Len(T[k]) : U[k][i].file = T[k][i].file /\ U[k][i].text = T[k][i].text

\* What a source is when it has been asked for.
Answered(ts) == [k \in Kinds |-> [i \in DOMAIN ts[k] |-> GetSource(k, ts[k][i])]]

LEMMA GotSource ==
  ASSUME NEW k \in Kinds, NEW t \in Source, Writable(k, t)
  PROVE  /\ GetSource(k, t) \in Source /\ Writable(k, GetSource(k, t))
         /\ GetSource(k, t).file = t.file /\ GetSource(k, t).text = t.text
         /\ Settled(t) => Settled(GetSource(k, t)) /\ GetSource(k, t).bytes = t.text
<1>1. CASE ~t.stale \/ (k = "sym" /\ t.text = "foreign")
  <2>1. GetSource(k, t) = t
    BY <1>1 DEF GetSource
  <2>2. t.file = t.file /\ t.text = t.text /\ (Settled(t) => Settled(t) /\ t.bytes = t.text)
    BY <1>1 DEF Settled
  <2> QED BY <2>1, <2>2
<1>2. CASE ~(~t.stale \/ (k = "sym" /\ t.text = "foreign"))
  <2>1. GetSource(k, t) = [t EXCEPT !.bytes = t.text, !.stale = FALSE]
    BY <1>2 DEF GetSource
  <2>2. t.text \in Readable
    BY <1>2 DEF Source, Readable, Writable, Kinds
  <2>3. PICK g : g = [t EXCEPT !.bytes = t.text, !.stale = FALSE]
    OBVIOUS
  <2>4. g \in Source /\ g.file = t.file /\ g.text = t.text /\ g.bytes = t.text /\ g.stale = FALSE
    BY <2>2, <2>3 DEF Source
  <2>5. Writable(k, g) /\ (Settled(t) => Settled(g))
    BY <2>4 DEF Writable, Settled
  <2> QED BY <2>1, <2>3, <2>4, <2>5
<1> QED BY <1>1, <1>2

LEMMA AnsweredSame ==
  ASSUME NEW T, TabsTyped(T)
  PROVE  /\ TabsTyped(Answered(T)) /\ SameView(T, Answered(T))
         /\ Careful(T) => /\ Careful(Answered(T))
                          /\ \A k \in Kinds : \A i \in 1..Len(T[k]) : Answered(T)[k][i].bytes = T[k][i].text
<1>1. PICK U : U = Answered(T)
  OBVIOUS
<1>2. \A k \in Kinds : T[k] \in Seq(Source) /\ T[k] # <<>>
  BY DEF TabsTyped
<1>3. \A k \in Kinds : U[k] = [i \in DOMAIN T[k] |-> GetSource(k, T[k][i])]
  BY <1>1 DEF Answered
<1>4. \A k \in Kinds : \A i \in 1..Len(T[k]) : T[k][i] \in Source /\ Writable(k, T[k][i])
  BY <1>2 DEF TabsTyped
<1>5. ASSUME NEW k \in Kinds
      PROVE  /\ U[k] \in Seq(Source) /\ Len(U[k]) = Len(T[k]) /\ U[k] # <<>>
             /\ DOMAIN U[k] = 1..Len(T[k]) /\ DOMAIN T[k] = 1..Len(T[k])
             /\ \A i \in 1..Len(T[k]) : U[k][i] = GetSource(k, T[k][i])
  <2>1. PICK n \in Nat : n = Len(T[k])
    BY <1>2
  <2>2. DOMAIN T[k] = 1..n
    BY <1>2, <2>1, DomainIs
  <2>3. U[k] = [i \in 1..n |-> GetSource(k, T[k][i])]
    BY <1>3, <2>2
  <2>4. \A i \in 1..n : GetSource(k, T[k][i]) \in Source
    BY <1>4, <2>1, GotSource
  <2>5. U[k] \in Seq(Source) /\ Len(U[k]) = n
    BY <2>3, <2>4
  <2>6. n # 0
    BY <1>2, <2>1
  <2>7. U[k] # <<>>
    BY <2>5, <2>6
  <2> QED BY <2>1, <2>2, <2>3, <2>5, <2>7
<1>6. U \in [Kinds -> Seq(Source)]
  BY <1>1, <1>5 DEF Answered
<1>7. \A k \in Kinds : \A i \in 1..Len(T[k]) :
        /\ Writable(k, U[k][i]) /\ U[k][i].file = T[k][i].file /\ U[k][i].text = T[k][i].text
        /\ Settled(T[k][i]) => Settled(U[k][i]) /\ U[k][i].bytes = T[k][i].text
  BY <1>4, <1>5, GotSource
<1>8. TabsTyped(U)
  BY <1>5, <1>6, <1>7 DEF TabsTyped
<1>9. SameView(T, U)
  BY <1>5, <1>7 DEF SameView
<1>10. ASSUME Careful(T) PROVE Careful(U) /\ \A k \in Kinds : \A i \in 1..Len(T[k]) : U[k][i].bytes = T[k][i].text
  <2>1. \A k \in Kinds : \A i \in 1..Len(T[k]) : Settled(T[k][i])
    BY <1>10 DEF Careful
  <2>2. \A k \in Kinds : \A i \in 1..Len(T[k]) : Settled(U[k][i]) /\ U[k][i].bytes = T[k][i].text
    BY <1>7, <2>1
  <2>3. ASSUME Shared(U) PROVE Shared(T)
    <3>0. PICK l \in Kinds, r \in Kinds : \E x \in DOMAIN U[l] : \E y \in DOMAIN U[r] :
            <<l, x>> # <<r, y>> /\ U[l][x].file # "" /\ U[l][x].file = U[r][y].file
      BY <2>3 DEF Shared
    <3>1. PICK x \in DOMAIN U[l], y \in DOMAIN U[r] :
            <<l, x>> # <<r, y>> /\ U[l][x].file # "" /\ U[l][x].file = U[r][y].file
      BY <3>0
    <3>2. x \in DOMAIN T[l] /\ y \in DOMAIN T[r] /\ x \in 1..Len(T[l]) /\ y \in 1..Len(T[r])
      BY <1>5, <3>1
    <3>3. U[l][x].file = T[l][x].file /\ U[r][y].file = T[r][y].file
      BY <1>7, <3>2
    <3>4. <<l, x>> # <<r, y>> /\ T[l][x].file # "" /\ T[l][x].file = T[r][y].file
      BY <3>1, <3>3
    <3> QED BY <3>2, <3>4 DEF Shared
  <2> QED BY <1>5, <1>10, <2>2, <2>3 DEF Careful
<1> QED BY <1>1, <1>8, <1>9, <1>10

\* A project that gives what is shown gives it as long as that, and the files, stay.
SameFiles(T, d, e) ==
  \A k \in Kinds : \A i \in 1..Len(T[k]) : T[k][i].file # "" => e[T[k][i].file] = d[T[k][i].file]
LEMMA ReadsSame ==
  ASSUME NEW T, TabsTyped(T), NEW U, TabsTyped(U), SameView(T, U), NEW d, NEW e, NEW p,
         Reads(T, d, p), SameFiles(T, d, e)
  PROVE  Reads(U, e, p)
<1>1. \A k \in Kinds : T[k] \in Seq(Source) /\ U[k] \in Seq(Source)
  BY DEF TabsTyped
<1>2. ASSUME NEW k \in Kinds
      PROVE  p[k] = ToText(AllShown(U[k])) /\ \A i \in DOMAIN U[k] : U[k][i].file # "" => e[U[k][i].file] = U[k][i].text
  <2>0. Len(T[k]) \in Nat /\ Len(U[k]) = Len(T[k])
    BY <1>1, DomainIs DEF SameView
  <2>1. PICK n \in Nat : n = Len(T[k]) /\ n = Len(U[k])
    BY <2>0
  <2>2. DOMAIN T[k] = 1..n /\ DOMAIN U[k] = 1..n
    BY <1>1, <2>1, DomainIs
  <2>3. PICK a, b : a = AllShown(T[k]) /\ b = AllShown(U[k])
    OBVIOUS
  <2>4. a = [i \in 1..n |-> AsShown(T[k][i])] /\ b = [i \in 1..n |-> AsShown(U[k][i])]
    BY <2>2, <2>3 DEF AllShown
  <2>5. Len(a) = n /\ Len(b) = n
    <3>1. PICK S : S = {AsShown(T[k][i]) : i \in 1..n} \cup {AsShown(U[k][i]) : i \in 1..n}
      OBVIOUS
    <3>2. a \in [1..n -> S] /\ b \in [1..n -> S]
      BY <2>4, <3>1
    <3> QED BY <3>2, Listing
  <2>6. ASSUME NEW i \in 1..n PROVE InProject(b[i]) = InProject(a[i])
    <3>1. a[i] = AsShown(T[k][i]) /\ b[i] = AsShown(U[k][i])
      BY <2>4
    <3>2. T[k][i] \in Source /\ U[k][i] \in Source
      BY <1>1, <2>1, DomainIs
    <3>3. U[k][i].file = T[k][i].file /\ U[k][i].text = T[k][i].text
      BY <2>1 DEF SameView
    <3>4. \A t \in Source : AsShown(t).file = t.file /\ AsShown(t).bytes = t.text
      BY DEF AsShown, Source
    <3>5. a[i].file = b[i].file /\ a[i].bytes = b[i].bytes
      BY <3>1, <3>2, <3>3, <3>4
    <3> QED BY <3>5 DEF InProject, Backed
  <2>7. PICK S : S = {a[i] : i \in 1..n} \cup {b[i] : i \in 1..n}
    OBVIOUS
  <2>8. Known(a, n, S) /\ Known(b, n, S)
    BY <2>7 DEF Known
  <2>9. ToText(b) = ToText(a)
    BY <2>5, <2>6, <2>8, ToTextAlike
  <2>10. p[k] = ToText(a)
    BY <2>3 DEF Reads
  <2>11. ASSUME NEW i \in 1..n, U[k][i].file # "" PROVE e[U[k][i].file] = U[k][i].text
    <3>1. U[k][i].file = T[k][i].file /\ U[k][i].text = T[k][i].text
      BY <2>1 DEF SameView
    <3>2. T[k][i].file # "" => d[T[k][i].file] = T[k][i].text
      BY <2>2 DEF Reads
    <3> QED BY <2>1, <2>11, <3>1, <3>2 DEF SameFiles
  <2> QED BY <2>2, <2>3, <2>9, <2>10, <2>11
<1> QED BY <1>2 DEF Reads

-----------------------------------------------------------------------------
(* Files are written.                                                      *)

LEMMA GreatestNumber ==
  ASSUME NEW n \in Nat, NEW T \in SUBSET (1..n), T # {}
  PROVE  \E g \in T : \A j \in T : j <= g
<1> DEFINE U == {n - j : j \in T}
<1>1. U \in SUBSET Nat /\ U # {}
  <2>1. \A j \in T : n - j \in Nat
    OBVIOUS
  <2>2. PICK j \in T : TRUE
    OBVIOUS
  <2>3. n - j \in U
    OBVIOUS
  <2> QED BY <2>1, <2>3
<1> HIDE DEF U
<1>2. PICK l \in U : \A u \in U : l <= u
  BY <1>1, LeastNumber
<1> USE DEF U
<1>3. PICK g \in T : l = n - g
  OBVIOUS
<1>4. ASSUME NEW j \in T PROVE j <= g
  <2>1. n - j \in U
    OBVIOUS
  <2>2. n - g <= n - j
    BY <1>2, <1>3, <2>1
  <2>3. n \in Int /\ g \in Int /\ j \in Int
    OBVIOUS
  <2>4. \A a, b, c \in Int : a - b <= a - c => c <= b
    OBVIOUS
  <2> QED BY <2>2, <2>3, <2>4
<1> QED BY <1>4

\* A file holds what one of its sources is, or what it held.
HasFile(t, f) == t.file = f
WrittenFrom(d, ss, e) ==
  /\ e \in [Files -> Readable]
  /\ \A f \in Files :
       \/ \E i \in 1..Len(ss) : HasFile(ss[i], f) /\ e[f] = ss[i].bytes
       \/ (\A i \in 1..Len(ss) : ~HasFile(ss[i], f)) /\ e[f] = d[f]
LEMMA WrittenIs ==
  ASSUME NEW d \in [Files -> Readable], NEW ss \in Seq(Source)
  PROVE  WrittenFrom(d, ss, Written(d, ss))
<1>1. DOMAIN ss = 1..Len(ss) /\ Len(ss) \in Nat /\ \A i \in 1..Len(ss) : ss[i] \in Source
  BY DomainIs
<1>2. PICK w : w = Written(d, ss)
  OBVIOUS
<1> DEFINE at(f) == {i \in DOMAIN ss : ss[i].file = f}
           last(f) == CHOOSE i \in at(f) : \A j \in at(f) : j <= i
<1>3. w = [f \in Files |-> IF at(f) = {} THEN d[f] ELSE ss[last(f)].bytes]
  BY <1>2 DEF Written
<1>4. ASSUME NEW f \in Files
      PROVE  /\ w[f] \in Readable
             /\ \/ \E i \in 1..Len(ss) : HasFile(ss[i], f) /\ w[f] = ss[i].bytes
                \/ (\A i \in 1..Len(ss) : ~HasFile(ss[i], f)) /\ w[f] = d[f]
  <2>1. CASE at(f) = {}
    <3>1. w[f] = d[f]
      BY <1>3, <2>1
    <3>2. \A i \in 1..Len(ss) : ~HasFile(ss[i], f)
      BY <1>1, <2>1 DEF HasFile
    <3> QED BY <3>1, <3>2
  <2>2. CASE at(f) # {}
    <3>1. PICK A : A = at(f)
      OBVIOUS
    <3>2. A \in SUBSET (1..Len(ss)) /\ A # {}
      BY <1>1, <2>2, <3>1
    <3>3. \E g \in A : \A j \in A : j <= g
      BY <1>1, <3>2, GreatestNumber
    <3>4. last(f) \in A
      BY <3>1, <3>3
    <3>5. PICK i \in 1..Len(ss) : i = last(f) /\ i \in A
      BY <3>2, <3>4
    <3>6. w[f] = ss[i].bytes
      BY <1>3, <2>2, <3>5
    <3>7. HasFile(ss[i], f)
      BY <3>1, <3>5 DEF HasFile
    <3>8. ss[i].bytes \in Readable
      BY <1>1 DEF Source
    <3> QED BY <3>6, <3>7, <3>8
  <2> QED BY <2>1, <2>2
<1>5. w \in [Files -> Readable]
  BY <1>3, <1>4
<1> QED BY <1>2, <1>4, <1>5 DEF WrittenFrom

\* The sources that are written are those of the tabs that have a file.
ListsBacked(T, B) ==
  /\ B \in Seq(Source)
  /\ \A i \in 1..Len(B) : \E k \in Kinds : \E j \in 1..Len(T[k]) : Backed(T[k][j]) /\ B[i] = T[k][j]
  /\ \A k \in Kinds : \A j \in 1..Len(T[k]) : Backed(T[k][j]) => \E i \in 1..Len(B) : B[i] = T[k][j]
LEMMA BackingOf ==
  ASSUME NEW T, TabsTyped(T)
  PROVE  ListsBacked(T, BackingFiles(T))
<1>1. "awl" \in Kinds /\ "sym" \in Kinds /\ \A k \in Kinds : k = "awl" \/ k = "sym"
  BY DEF Kinds
<1>2. ASSUME NEW k \in Kinds
      PROVE  /\ Those(T[k], TRUE) \in Seq(Source)
             /\ \A i \in 1..Len(Those(T[k], TRUE)) : \E j \in 1..Len(T[k]) :
                  Backed(T[k][j]) /\ Those(T[k], TRUE)[i] = T[k][j]
             /\ \A j \in 1..Len(T[k]) : Backed(T[k][j]) => Holds(Those(T[k], TRUE), T[k][j])
  <2>1. T[k] \in Seq(Source)
    BY DEF TabsTyped
  <2>2. PICK ts : ts = T[k]
    OBVIOUS
  <2>3. PICK N \in Nat : N = Len(ts)
    BY <2>1, <2>2, DomainIs
  <2>4. Known(ts, N, Source) /\ Match(ts, ts, N)
    BY <2>1, <2>2, <2>3, DomainIs DEF Known, Match
  <2>5. Alike(ts, ts, TRUE, Source, N, Those(ts, TRUE), Those(ts, TRUE))
    BY <2>3, <2>4, ThoseAlike
  <2>6. Those(ts, TRUE) \in Seq(Source)
    BY <2>5 DEF Alike
  <2>7. ASSUME NEW i \in 1..Len(Those(ts, TRUE))
        PROVE  \E j \in 1..N : Backed(ts[j]) /\ Those(ts, TRUE)[i] = ts[j]
    <3>1. PICK j \in 1..N : From(ts, ts, TRUE, Those(ts, TRUE), Those(ts, TRUE), i, j)
      BY <2>5 DEF Alike
    <3> QED BY <3>1 DEF From
  <2>8. ASSUME NEW j \in 1..N, Backed(ts[j]) PROVE Holds(Those(ts, TRUE), ts[j])
    <3>1. Fits(ts[j], TRUE)
      BY <2>8 DEF Fits, Backed
    <3> QED BY <2>3, <2>4, <3>1, AllThere
  <2> QED BY <2>2, <2>3, <2>6, <2>7, <2>8
<1>3. PICK a, b : a = Those(T["awl"], TRUE) /\ b = Those(T["sym"], TRUE)
  OBVIOUS
<1>4. a \in Seq(Source) /\ b \in Seq(Source)
  BY <1>1, <1>2, <1>3
<1>5. PICK m \in Nat, n \in Nat : m = Len(a) /\ n = Len(b)
  BY <1>4, DomainIs
<1>6. PICK c : c = a \o b
  OBVIOUS
<1>7. c \in Seq(Source) /\ Len(c) = m + n
  BY <1>4, <1>5, <1>6, Concatenated
<1>8. (\A i \in 1..m : c[i] = a[i]) /\ \A i \in 1..n : c[m + i] = b[i]
  BY <1>4, <1>5, <1>6
<1>9. ASSUME NEW i \in 1..Len(c)
      PROVE  \E k \in Kinds : \E j \in 1..Len(T[k]) : Backed(T[k][j]) /\ c[i] = T[k][j]
  <2>1. CASE i <= m
    <3>1. i \in 1..m /\ c[i] = a[i]
      BY <1>7, <1>8, <2>1
    <3>2. PICK j \in 1..Len(T["awl"]) : Backed(T["awl"][j]) /\ a[i] = T["awl"][j]
      BY <1>1, <1>2, <1>3, <1>5, <3>1
    <3> QED BY <1>1, <3>1, <3>2
  <2>2. CASE ~(i <= m)
    <3>1. PICK l \in 1..n : i = m + l
      <4>1. i - m \in 1..n /\ i = m + (i - m)
        BY <1>7, <2>2
      <4> QED BY <4>1
    <3>2. c[i] = b[l]
      BY <1>8, <3>1
    <3>3. PICK j \in 1..Len(T["sym"]) : Backed(T["sym"][j]) /\ b[l] = T["sym"][j]
      BY <1>1, <1>2, <1>3, <1>5, <3>1
    <3> QED BY <1>1, <3>2, <3>3
  <2> QED BY <2>1, <2>2
<1>10. ASSUME NEW k \in Kinds, NEW j \in 1..Len(T[k]), Backed(T[k][j])
       PROVE  \E i \in 1..Len(c) : c[i] = T[k][j]
  <2>1. Holds(Those(T[k], TRUE), T[k][j])
    BY <1>2, <1>10
  <2>2. CASE k = "awl"
    <3>1. PICK i \in 1..m : a[i] = T[k][j]
      BY <1>3, <1>5, <2>1, <2>2 DEF Holds
    <3>2. i \in 1..Len(c) /\ c[i] = a[i]
      BY <1>7, <1>8
    <3> QED BY <3>1, <3>2
  <2>3. CASE k = "sym"
    <3>1. PICK i \in 1..n : b[i] = T[k][j]
      BY <1>3, <1>5, <2>1, <2>3 DEF Holds
    <3>2. m + i \in 1..Len(c) /\ c[m + i] = b[i]
      BY <1>7, <1>8
    <3> QED BY <3>1, <3>2
  <2> QED BY <1>1, <2>2, <2>3
<1>11. BackingFiles(T) = c
  BY <1>3, <1>6 DEF BackingFiles
<1> QED BY <1>7, <1>9, <1>10, <1>11 DEF ListsBacked

\* A prefix.
LEMMA Prefix ==
  ASSUME NEW S, NEW ss \in Seq(S), NEW m \in 0..Len(ss)
  PROVE  /\ SubSeq(ss, 1, m) \in Seq(S) /\ Len(SubSeq(ss, 1, m)) = m
         /\ \A i \in 1..m : SubSeq(ss, 1, m)[i] = ss[i]
OBVIOUS

\* The first m sources are written: of a tab the file has the text, or what it had.
AllAnswered(T) == \A k \in Kinds : \A i \in 1..Len(T[k]) : T[k][i].bytes = T[k][i].text
WritesTabs(T, d, e, m) ==
  /\ e \in [Files -> Readable]
  /\ Careful(T) /\ AllAnswered(T) =>
       \A k \in Kinds : \A i \in 1..Len(T[k]) : Backed(T[k][i]) =>
         \/ e[T[k][i].file] = T[k][i].text
         \/ e[T[k][i].file] = d[T[k][i].file] /\ m # Len(BackingFiles(T))
LEMMA FilesWritten ==
  ASSUME NEW T, TabsTyped(T), NEW d \in [Files -> Readable],
         NEW m \in 0..Len(BackingFiles(T)), NEW e, e = Written(d, SubSeq(BackingFiles(T), 1, m))
  PROVE  WritesTabs(T, d, e, m)
<1>1. PICK B : B = BackingFiles(T)
  OBVIOUS
<1>2. /\ B \in Seq(Source)
      /\ \A i \in 1..Len(B) : \E k \in Kinds : \E j \in 1..Len(T[k]) : Backed(T[k][j]) /\ B[i] = T[k][j]
      /\ \A k \in Kinds : \A j \in 1..Len(T[k]) : Backed(T[k][j]) => \E i \in 1..Len(B) : B[i] = T[k][j]
  <2>1. ListsBacked(T, B)
    BY <1>1, BackingOf
  <2> QED BY <2>1 DEF ListsBacked
<1>3. PICK ss : ss = SubSeq(B, 1, m)
  OBVIOUS
<1>4. m \in 0..Len(B) /\ Len(B) \in Nat
  BY <1>1, <1>2, DomainIs
<1>5. ss \in Seq(Source) /\ Len(ss) = m /\ \A i \in 1..m : ss[i] = B[i]
  BY <1>2, <1>3, <1>4, Prefix
<1>6. e = Written(d, ss)
  BY <1>1, <1>3
<1>7. /\ e \in [Files -> Readable]
      /\ \A f \in Files : \/ \E i \in 1..Len(ss) : HasFile(ss[i], f) /\ e[f] = ss[i].bytes
                          \/ (\A i \in 1..Len(ss) : ~HasFile(ss[i], f)) /\ e[f] = d[f]
  <2>1. WrittenFrom(d, ss, e)
    BY <1>5, <1>6, WrittenIs
  <2> QED BY <2>1 DEF WrittenFrom
<1>8. ASSUME Careful(T), AllAnswered(T), NEW k \in Kinds, NEW i \in 1..Len(T[k]), Backed(T[k][i])
      PROVE  e[T[k][i].file] = T[k][i].text \/ (e[T[k][i].file] = d[T[k][i].file] /\ m # Len(B))
  <2>1. PICK f : f = T[k][i].file
    OBVIOUS
  <2>2. T[k] \in Seq(Source)
    BY DEF TabsTyped
  <2>3. f \in Files /\ f # ""
    <3>1. T[k][i] \in Source
      BY <2>2, DomainIs
    <3> QED BY <1>8, <2>1, <3>1 DEF Source, FileNames, Backed
  <2>4. CASE \E n \in 1..Len(ss) : HasFile(ss[n], f) /\ e[f] = ss[n].bytes
    <3>1. PICK n \in 1..m : HasFile(ss[n], f) /\ e[f] = ss[n].bytes /\ ss[n] = B[n]
      BY <1>5, <2>4
    <3>2. n \in 1..Len(B)
      BY <1>4
    <3>3. PICK l \in Kinds : \E j \in 1..Len(T[l]) : Backed(T[l][j]) /\ B[n] = T[l][j]
      BY <1>2, <3>2
    <3>4. PICK j \in 1..Len(T[l]) : Backed(T[l][j]) /\ B[n] = T[l][j]
      BY <3>3
    <3>5. T[l][j].file = f /\ e[f] = T[l][j].bytes
      BY <3>1, <3>4 DEF HasFile
    <3>6. <<k, i>> = <<l, j>>
      <4>1. i \in DOMAIN T[k] /\ j \in DOMAIN T[l]
        <5>1. T[l] \in Seq(Source)
          BY DEF TabsTyped
        <5> QED BY <2>2, <5>1, DomainIs
      <4>2. ASSUME <<k, i>> # <<l, j>> PROVE FALSE
        <5>1. T[k][i].file # "" /\ T[k][i].file = T[l][j].file
          BY <2>1, <2>3, <3>5
        <5>2. \E x \in DOMAIN T[k] : \E y \in DOMAIN T[l] :
                <<k, x>> # <<l, y>> /\ T[k][x].file # "" /\ T[k][x].file = T[l][y].file
          BY <4>1, <4>2, <5>1
        <5>3. Shared(T)
          BY <5>2 DEF Shared
        <5> QED BY <1>8, <5>3 DEF Careful
      <4> QED BY <4>2
    <3>7. T[k][i].bytes = T[k][i].text
      BY <1>8 DEF AllAnswered
    <3>8. k = l /\ i = j
      BY <3>6
    <3> QED BY <2>1, <3>5, <3>7, <3>8
  <2>5. CASE (\A n \in 1..Len(ss) : ~HasFile(ss[n], f)) /\ e[f] = d[f]
    <3>1. ASSUME m = Len(B) PROVE FALSE
      <4>1. PICK n \in 1..Len(B) : B[n] = T[k][i]
        BY <1>2, <1>8
      <4>2. n \in 1..Len(ss) /\ ss[n] = T[k][i]
        BY <1>5, <3>1, <4>1
      <4>3. HasFile(ss[n], f)
        BY <2>1, <4>2 DEF HasFile
      <4> QED BY <2>5, <4>2, <4>3
    <3> QED BY <2>1, <2>5, <3>1
  <2> QED BY <1>7, <2>3, <2>4, <2>5
<1> QED BY <1>1, <1>7, <1>8 DEF WritesTabs

-----------------------------------------------------------------------------
(* Saving.                                                                 *)

\* The project of the tabs T.
ProjectOf(T) == [awl |-> ToText(T["awl"]), sym |-> ToText(T["sym"]), libs |-> libs, settings |-> settings]

LEMMA StoredIsEntry == \A t \in Source : InProject(t) \in Entry
<1> SUFFICES ASSUME NEW t \in Source PROVE InProject(t) \in Entry
  OBVIOUS
<1>1. t.file \in FileNames /\ t.bytes \in Readable /\ "" \in Readable
  BY DEF Source, Readable, Contents
<1>2. PICK e : e = InProject(t)
  OBVIOUS
<1>3. e \in [file : FileNames, text : Readable] /\ e.file = t.file /\ (Backed(t) => e.text = "")
  BY <1>1, <1>2 DEF InProject
<1>4. Backed(e) => e.text = ""
  BY <1>3 DEF Backed
<1> QED BY <1>2, <1>3, <1>4 DEF Entry

LEMMA ProjectOfTabs ==
  ASSUME NEW T, TabsTyped(T), libs \in Selections, settings \in Settings
  PROVE  /\ ProjectKept(ProjectOf(T))
         /\ ProjectOf(T).libs = libs /\ ProjectOf(T).settings = settings
         /\ \A k \in Kinds : ProjectOf(T)[k] = ToText(T[k])
<1>1. PICK p : p = ProjectOf(T)
  OBVIOUS
<1>2. "awl" \in Kinds /\ "sym" \in Kinds /\ \A k \in Kinds : k = "awl" \/ k = "sym"
  BY DEF Kinds
<1>3. ASSUME NEW k \in Kinds PROVE ToText(T[k]) \in Seq(Entry) /\ Sorted(ToText(T[k]))
  <2>1. T[k] \in Seq(Source) /\ T[k] # <<>>
    BY DEF TabsTyped
  <2>2. PICK ts : ts = T[k]
    OBVIOUS
  <2>3. PICK N \in Nat : N = Len(ts)
    BY <2>1, <2>2, DomainIs
  <2>4. N # 0
    BY <2>1, <2>2, <2>3
  <2>5. Known(ts, N, Source)
    BY <2>1, <2>2, <2>3, DomainIs DEF Known
  <2>6. /\ ToText(ts) \in Seq(Entry)
        /\ N # 0 => ToText(ts) # <<>>
        /\ \E m \in 0..Len(ToText(ts)) : InOrder(ToText(ts), Len(ToText(ts)), m)
    BY <2>3, <2>5, StoredIsEntry, ToTextOrdered
  <2> QED BY <2>2, <2>4, <2>6 DEF Sorted
<1>4. /\ p \in Project /\ p.libs = libs /\ p.settings = settings
      /\ p["awl"] = ToText(T["awl"]) /\ p["sym"] = ToText(T["sym"])
  BY <1>1, <1>2, <1>3 DEF ProjectOf, Project
<1>5. \A k \in Kinds : p[k] = ToText(T[k])
  BY <1>2, <1>4
<1>6. ProjectKept(p)
  BY <1>3, <1>4, <1>5 DEF ProjectKept
<1> QED BY <1>1, <1>4, <1>5, <1>6

\* The tabs of an ad-hoc project are filled anew.
Refilled(T) == [k \in Kinds |-> [i \in DOMAIN T[k] |-> Tab(T[k][i].file, T[k][i].bytes)]]

LEMMA RefilledSame ==
  ASSUME NEW T, TabsTyped(T)
  PROVE  /\ TabsTyped(Refilled(T))
         /\ Careful(T) => Careful(Refilled(T))
         /\ AllAnswered(T) => SameView(T, Refilled(T))
<1>1. PICK U : U = Refilled(T)
  OBVIOUS
<1>2. \A k \in Kinds : T[k] \in Seq(Source) /\ T[k] # <<>>
  BY DEF TabsTyped
<1>3. ASSUME NEW t \in Source
      PROVE  LET u == Tab(t.file, t.bytes)
             IN  u \in Source /\ u.file = t.file /\ u.text = t.bytes /\ u.text # "foreign" /\ u.stale
  BY DEF Tab, Source, Contents, Readable
<1>4. ASSUME NEW k \in Kinds
      PROVE  /\ U[k] \in Seq(Source) /\ Len(U[k]) = Len(T[k]) /\ U[k] # <<>>
             /\ DOMAIN U[k] = 1..Len(T[k]) /\ DOMAIN T[k] = 1..Len(T[k])
             /\ \A i \in 1..Len(T[k]) : U[k][i].file = T[k][i].file /\ U[k][i].text = T[k][i].bytes
                                        /\ U[k][i].text # "foreign" /\ U[k][i].stale
  <2>1. PICK n \in Nat : n = Len(T[k])
    BY <1>2, DomainIs
  <2>2. DOMAIN T[k] = 1..n /\ \A i \in 1..n : T[k][i] \in Source
    BY <1>2, <2>1, DomainIs
  <2>3. U[k] = [i \in 1..n |-> Tab(T[k][i].file, T[k][i].bytes)]
    BY <1>1, <2>2 DEF Refilled
  <2>4. U[k] \in [1..n -> Source]
    BY <1>3, <2>2, <2>3
  <2>5. U[k] \in Seq(Source) /\ Len(U[k]) = n
    BY <2>4, Listing
  <2>6. U[k] # <<>>
    BY <1>2, <2>1, <2>5
  <2> QED BY <1>3, <2>1, <2>2, <2>3, <2>5, <2>6
<1>5. U \in [Kinds -> Seq(Source)]
  BY <1>1, <1>4 DEF Refilled
<1>6. TabsTyped(U)
  BY <1>4, <1>5 DEF TabsTyped, Writable
<1>7. ASSUME Careful(T) PROVE Careful(U)
  <2>1. \A k \in Kinds : \A i \in 1..Len(U[k]) : Settled(U[k][i])
    BY <1>4 DEF Settled
  <2>2. ASSUME Shared(U) PROVE Shared(T)
    <3>0. PICK l \in Kinds, r \in Kinds : \E x \in DOMAIN U[l] : \E y \in DOMAIN U[r] :
            <<l, x>> # <<r, y>> /\ U[l][x].file # "" /\ U[l][x].file = U[r][y].file
      BY <2>2 DEF Shared
    <3>1. PICK x \in DOMAIN U[l], y \in DOMAIN U[r] :
            <<l, x>> # <<r, y>> /\ U[l][x].file # "" /\ U[l][x].file = U[r][y].file
      BY <3>0
    <3>2. x \in DOMAIN T[l] /\ y \in DOMAIN T[r] /\ x \in 1..Len(T[l]) /\ y \in 1..Len(T[r])
      BY <1>4, <3>1
    <3>3. U[l][x].file = T[l][x].file /\ U[r][y].file = T[r][y].file
      BY <1>4, <3>2
    <3>4. <<l, x>> # <<r, y>> /\ T[l][x].file # "" /\ T[l][x].file = T[r][y].file
      BY <3>1, <3>3
    <3> QED BY <3>2, <3>4 DEF Shared
  <2> QED BY <1>7, <2>1, <2>2 DEF Careful
<1>8. ASSUME AllAnswered(T) PROVE SameView(T, U)
  BY <1>4, <1>8 DEF AllAnswered, SameView
<1> QED BY <1>1, <1>6, <1>7, <1>8

\* A project of tabs that were all asked for gives what they show.
LEMMA FreshReads ==
  ASSUME NEW T, TabsTyped(T), AllAnswered(T), NEW p, \A k \in Kinds : p[k] = ToText(T[k]),
         NEW d, \A k \in Kinds : \A i \in 1..Len(T[k]) : Backed(T[k][i]) => d[T[k][i].file] = T[k][i].text
  PROVE  Reads(T, d, p)
<1>1. ASSUME NEW k \in Kinds
      PROVE  p[k] = ToText(AllShown(T[k])) /\ \A i \in DOMAIN T[k] : T[k][i].file # "" => d[T[k][i].file] = T[k][i].text
  <2>1. T[k] \in Seq(Source)
    BY DEF TabsTyped
  <2>2. PICK ts : ts = T[k]
    OBVIOUS
  <2>3. PICK n \in Nat : n = Len(ts)
    BY <2>1, <2>2, DomainIs
  <2>4. DOMAIN ts = 1..n /\ \A i \in 1..n : ts[i] \in Source
    BY <2>1, <2>2, <2>3, DomainIs
  <2>5. PICK a : a = AllShown(ts)
    OBVIOUS
  <2>6. a = [i \in 1..n |-> AsShown(ts[i])]
    BY <2>4, <2>5 DEF AllShown
  <2>7. ASSUME NEW i \in 1..n PROVE InProject(a[i]) = InProject(ts[i])
    <3>1. \A t \in Source : AsShown(t).file = t.file /\ AsShown(t).bytes = t.text
      BY DEF AsShown, Source
    <3>2. a[i].file = ts[i].file /\ a[i].bytes = ts[i].text
      BY <2>4, <2>6, <3>1
    <3>3. ts[i].bytes = ts[i].text
      BY <2>2, <2>3 DEF AllAnswered
    <3> QED BY <3>2, <3>3 DEF InProject, Backed
  <2>8. Len(a) = n
    <3>1. PICK S : S = {AsShown(ts[i]) : i \in 1..n}
      OBVIOUS
    <3>2. a \in [1..n -> S]
      BY <2>6, <3>1
    <3> QED BY <3>2, Listing
  <2>9. PICK S : S = {a[i] : i \in 1..n} \cup {ts[i] : i \in 1..n}
    OBVIOUS
  <2>10. Known(ts, n, S) /\ Known(a, n, S)
    BY <2>9 DEF Known
  <2>12. ToText(a) = ToText(ts)
    BY <2>3, <2>7, <2>8, <2>10, ToTextAlike
  <2>13. \A i \in DOMAIN ts : ts[i].file # "" => d[ts[i].file] = ts[i].text
    BY <2>2, <2>3, <2>4 DEF Backed
  <2> QED BY <2>2, <2>5, <2>12, <2>13
<1> QED BY <1>1 DEF Reads

\* What is saved: n of the files are written, the project first.
Saves(name, T, n) ==
  LET Over == IF name \in Files THEN [disk EXCEPT ![name] = "project"] ELSE disk
  IN  /\ n \in 0 .. 1 + Len(BackingFiles(T))
      /\ saved' = IF n = 0 \/ name \notin Projects THEN saved ELSE [saved EXCEPT ![name] = ProjectOf(T)]
      /\ disk' = IF n = 0 THEN disk ELSE Written(Over, SubSeq(BackingFiles(T), 1, n - 1))
      /\ libs' = libs /\ settings' = settings
Succeeds(name, T) ==
  /\ filename' = name /\ dirty' = FALSE /\ adHoc' = FALSE
  /\ tabs' = IF ~adHoc THEN T ELSE Refilled(T)
Fails(T) == tabs' = T /\ filename' = filename /\ dirty' = dirty /\ adHoc' = adHoc

LEMMA SavingIs ==
  ASSUME NEW name, SaveProjectFile(name)
  PROVE  \E n : /\ Saves(name, Answered(tabs), n)
                /\ \/ n = 1 + Len(BackingFiles(Answered(tabs))) /\ Succeeds(name, Answered(tabs))
                   \/ Fails(Answered(tabs))
<1>1. Answered(tabs) = [k \in Kinds |-> GetSources(k)]
  BY DEF Answered, GetSources
<1>2. PICK T : T = Answered(tabs)
  OBVIOUS
<1>3. PICK n \in 0 .. 1 + Len(BackingFiles(T)) :
        /\ saved' = IF n = 0 \/ name \notin Projects THEN saved ELSE [saved EXCEPT ![name] = ProjectOf(T)]
        /\ disk' = IF n = 0 THEN disk
                   ELSE Written(IF name \in Files THEN [disk EXCEPT ![name] = "project"] ELSE disk,
                                SubSeq(BackingFiles(T), 1, n - 1))
        /\ Saved(name, T, n = 1 + Len(BackingFiles(T)))
        /\ libs' = libs /\ settings' = settings
  BY <1>1, <1>2 DEF SaveProjectFile, ProjectOf
<1>4. Saves(name, T, n)
  BY <1>3 DEF Saves
<1>5. n = 1 + Len(BackingFiles(T)) => Succeeds(name, T)
  BY <1>3 DEF Saved, Succeeds, Refilled
<1>6. n # 1 + Len(BackingFiles(T)) => Fails(T)
  BY <1>3 DEF Saved, Fails
<1> QED BY <1>2, <1>4, <1>5, <1>6

\* Nothing that is taken for saved is lost, whether all was written or not.
LEMMA SavedKept ==
  ASSUME EditorInv, NEW name \in Files \cup Projects, SaveProjectFile(name),
         careless' \in BOOLEAN, careless => careless', name \in Files => careless'
  PROVE  EditorInv'
<1>1. PICK T : T = Answered(tabs)
  OBVIOUS
<1>2. PICK n : /\ Saves(name, T, n)
               /\ (n = 1 + Len(BackingFiles(T)) /\ Succeeds(name, T)) \/ Fails(T)
  BY <1>1, SavingIs
<1>3. /\ TabsTyped(tabs) /\ disk \in [Files -> Readable]
      /\ DOMAIN saved = Projects /\ \A p \in Projects : ProjectKept(saved[p])
      /\ libs \in Selections /\ settings \in Settings
      /\ dirty \in BOOLEAN /\ adHoc \in BOOLEAN /\ careless \in BOOLEAN
      /\ filename \in Files \cup Projects \cup {""}
  BY DEF EditorInv, EditorTypes
<1>4. TabsTyped(T) /\ SameView(tabs, T) /\ (Careful(tabs) => Careful(T) /\ AllAnswered(T))
  <2>1. /\ TabsTyped(T) /\ SameView(tabs, T)
        /\ Careful(tabs) => /\ Careful(T)
                            /\ \A k \in Kinds : \A i \in 1..Len(tabs[k]) : T[k][i].bytes = tabs[k][i].text
    BY <1>1, <1>3, AnsweredSame, ZenonT(60)
  <2>2. ASSUME Careful(tabs) PROVE AllAnswered(T)
    <3>1. ASSUME NEW k \in Kinds, NEW i \in 1..Len(T[k]) PROVE T[k][i].bytes = T[k][i].text
      <4>1. Len(T[k]) = Len(tabs[k])
        BY <2>1 DEF SameView
      <4>2. i \in 1..Len(tabs[k])
        BY <4>1
      <4>3. T[k][i].text = tabs[k][i].text
        BY <2>1, <4>2 DEF SameView
      <4>4. T[k][i].bytes = tabs[k][i].text
        BY <2>1, <2>2, <4>2
      <4> QED BY <4>3, <4>4
    <3> QED BY <3>1 DEF AllAnswered
  <2> QED BY <2>1, <2>2
<1>5. TabsTyped(tabs') /\ (Careful(T) => Careful(tabs')) /\ (AllAnswered(T) => SameView(T, tabs'))
  <2>1. tabs' = T \/ tabs' = Refilled(T)
    BY <1>2 DEF Succeeds, Fails
  <2>2. SameView(T, T)
    BY DEF SameView
  <2> QED BY <1>4, <2>1, <2>2, RefilledSame
<1>6. PICK p : p = ProjectOf(T)
  OBVIOUS
<1>7. ProjectKept(p) /\ p.libs = libs /\ p.settings = settings /\ \A k \in Kinds : p[k] = ToText(T[k])
  BY <1>3, <1>4, <1>6, ProjectOfTabs
<1>8. /\ n \in 0 .. 1 + Len(BackingFiles(T))
      /\ saved' = IF n = 0 \/ name \notin Projects THEN saved ELSE [saved EXCEPT ![name] = p]
      /\ libs' = libs /\ settings' = settings
  BY <1>2, <1>6 DEF Saves
<1>9. DOMAIN saved' = Projects
      /\ \A q \in Projects : saved'[q] = saved[q] \/ (q = name /\ saved'[q] = p)
  BY <1>3, <1>8
<1>10. PICK B \in Nat : B = Len(BackingFiles(T))
  <2>1. BackingFiles(T) \in Seq(Source)
    BY <1>4, BackingOf DEF ListsBacked
  <2> QED BY <2>1, DomainIs
<1>10a. 1 + B # 0
  BY <1>10
<1>11. /\ disk' \in [Files -> Readable]
       /\ name \notin Files /\ Careful(T) /\ AllAnswered(T) =>
            \A k \in Kinds : \A i \in 1..Len(T[k]) : Backed(T[k][i]) =>
              \/ disk'[T[k][i].file] = T[k][i].text
              \/ disk'[T[k][i].file] = disk[T[k][i].file] /\ n # 1 + B
  <2>1. CASE n = 0
    <3>1. disk' = disk /\ n # 1 + B
      BY <1>2, <1>10, <2>1 DEF Saves
    <3> QED BY <1>3, <3>1
  <2>2. CASE n # 0
    <3>1. PICK m \in 0..B : m = n - 1 /\ (m # B <=> n # 1 + B)
      <4>1. n - 1 \in 0..B /\ (n - 1 # B <=> n # 1 + B)
        BY <1>8, <1>10, <2>2
      <4> QED BY <4>1
    <3>2. PICK d : d = IF name \in Files THEN [disk EXCEPT ![name] = "project"] ELSE disk
      OBVIOUS
    <3>3. d \in [Files -> Readable] /\ (name \notin Files => d = disk)
      <4>1. "project" \in Contents /\ "project" # "foreign"
        BY DEF Contents
      <4>2. "project" \in Readable
        BY <4>1 DEF Readable
      <4> QED BY <1>3, <3>2, <4>2
    <3>4. disk' = Written(d, SubSeq(BackingFiles(T), 1, m))
      BY <1>2, <2>2, <3>1, <3>2 DEF Saves
    <3>5. PICK e : e = disk'
      OBVIOUS
    <3>6. m \in 0..Len(BackingFiles(T)) /\ e = Written(d, SubSeq(BackingFiles(T), 1, m))
      BY <1>10, <3>4, <3>5
    <3>7. /\ e \in [Files -> Readable]
          /\ Careful(T) /\ AllAnswered(T) =>
              \A k \in Kinds : \A i \in 1..Len(T[k]) : Backed(T[k][i]) =>
                \/ e[T[k][i].file] = T[k][i].text
                \/ e[T[k][i].file] = d[T[k][i].file] /\ m # Len(BackingFiles(T))
      <4>1. WritesTabs(T, d, e, m)
        BY <1>4, <3>3, <3>6, FilesWritten
      <4> QED BY <4>1 DEF WritesTabs
    <3> QED BY <1>10, <3>1, <3>3, <3>5, <3>7
  <2> QED BY <2>1, <2>2
<1>12. EditorTypes'
  <2>1. \A q \in Projects : ProjectKept(saved'[q])
    BY <1>3, <1>7, <1>9
  <2>2. filename' \in Files \cup Projects \cup {""} /\ dirty' \in BOOLEAN /\ adHoc' \in BOOLEAN
    BY <1>2, <1>3 DEF Succeeds, Fails
  <2>3. libs' \in Selections /\ settings' \in Settings
    BY <1>3, <1>8
  <2> QED BY <1>5, <1>9, <1>11, <2>1, <2>2, <2>3 DEF EditorTypes
<1>13. CarefulInv'
  <2>1. ~careless' => Careful(tabs)
    BY DEF EditorInv, CarefulInv
  <2>2. ~careless' => Careful(tabs')
    BY <1>4, <1>5, <2>1
  <2> QED BY <2>2 DEF CarefulInv
<1>14. NameInv'
  <2>1. (adHoc => dirty) /\ (filename \in Files => adHoc \/ careless)
    BY DEF EditorInv, NameInv
  <2>2. CASE Succeeds(name, T)
    <3>1. filename' = name /\ adHoc' = FALSE
      BY <2>2 DEF Succeeds
    <3> QED BY <3>1 DEF NameInv
  <2>3. CASE Fails(T)
    <3>1. filename' = filename /\ adHoc' = adHoc /\ dirty' = dirty
      BY <2>3 DEF Fails
    <3>2. adHoc' => dirty'
      BY <2>1, <3>1
    <3>3. filename' \in Files => adHoc' \/ careless'
      BY <2>1, <3>1
    <3> QED BY <3>2, <3>3 DEF NameInv
  <2> QED BY <1>2, <2>2, <2>3
<1>15. CleanInv'
  <2> SUFFICES ASSUME ~dirty', filename' # "", ~careless'
               PROVE  /\ filename' \in Projects
                      /\ Reads(tabs', disk', saved'[filename'])
                      /\ saved'[filename'].libs = libs' /\ saved'[filename'].settings = settings'
    BY DEF CleanInv
  <2>1. name \in Projects /\ name \notin Files /\ ~careless
    OBVIOUS
  <2>2. Careful(T) /\ AllAnswered(T) /\ SameView(T, tabs')
    BY <1>4, <1>5, <2>1 DEF EditorInv, CarefulInv
  <2>3. PICK e, U : e = disk' /\ U = tabs'
    OBVIOUS
  <2>4. \A k \in Kinds : \A i \in 1..Len(T[k]) : Backed(T[k][i]) =>
              e[T[k][i].file] = T[k][i].text \/ (e[T[k][i].file] = disk[T[k][i].file] /\ n # 1 + B)
    BY <1>11, <2>1, <2>2, <2>3
  <2>5. ASSUME NEW q, Reads(T, e, q) PROVE Reads(U, e, q)
    <3>1. SameFiles(T, e, e)
      BY DEF SameFiles
    <3> QED BY <1>4, <1>5, <2>2, <2>3, <2>5, <3>1, ReadsSame
  <2>6. CASE n = 1 + Len(BackingFiles(T)) /\ Succeeds(name, T)
    <3>1. filename' = name /\ n # 0 /\ n = 1 + B
      <4>1. filename' = name
        BY <2>6 DEF Succeeds
      <4>2. n = 1 + B
        BY <1>10, <2>6
      <4>3. n # 0
        BY <1>10a, <4>2
      <4> QED BY <4>1, <4>2, <4>3
    <3>2. saved'[name] = p
      BY <1>3, <1>8, <2>1, <3>1
    <3>3. \A k \in Kinds : \A i \in 1..Len(T[k]) : Backed(T[k][i]) => e[T[k][i].file] = T[k][i].text
      BY <2>4, <3>1
    <3>4. Reads(T, e, p)
      BY <1>4, <1>7, <2>2, <3>3, FreshReads
    <3> QED BY <1>7, <1>8, <2>1, <2>3, <2>5, <3>1, <3>2, <3>4
  <2>7. CASE Fails(T)
    <3>1. filename' = filename /\ ~dirty
      BY <2>7 DEF Fails
    <3>2. /\ filename \in Projects /\ Reads(tabs, disk, saved[filename])
          /\ saved[filename].libs = libs /\ saved[filename].settings = settings
      BY <2>1, <3>1 DEF EditorInv, CleanInv
    <3>3. \A k \in Kinds : \A i \in 1..Len(T[k]) : Backed(T[k][i]) => disk[T[k][i].file] = T[k][i].text
      <4>1. Reads(T, disk, saved[filename])
        <5>1. PICK q : q = saved[filename]
          OBVIOUS
        <5>2. Reads(tabs, disk, q)
          BY <3>2, <5>1
        <5>3. SameFiles(tabs, disk, disk)
          BY DEF SameFiles
        <5> QED BY <1>3, <1>4, <5>1, <5>2, <5>3, ReadsSame
      <4>2. \A k \in Kinds : DOMAIN T[k] = 1..Len(T[k])
        BY <1>4, DomainIs DEF TabsTyped
      <4> QED BY <4>1, <4>2 DEF Reads, Backed
    <3>4. \A k \in Kinds : \A i \in 1..Len(T[k]) : Backed(T[k][i]) => e[T[k][i].file] = T[k][i].text
      BY <2>4, <3>3
    <3>5. saved'[filename] = p \/ saved'[filename] = saved[filename]
      BY <1>9, <3>2
    <3>6. CASE saved'[filename] = p
      <4>1. Reads(T, e, p)
        BY <1>4, <1>7, <2>2, <3>4, FreshReads
      <4> QED BY <1>7, <1>8, <2>3, <2>5, <3>1, <3>2, <3>6, <4>1
    <3>7. CASE saved'[filename] = saved[filename]
      <4>1. PICK q : q = saved[filename]
        OBVIOUS
      <4>2. Reads(tabs, disk, q)
        BY <3>2, <4>1
      <4>3. SameFiles(tabs, disk, e)
        <5> SUFFICES ASSUME NEW k \in Kinds, NEW i \in 1..Len(tabs[k]), tabs[k][i].file # ""
                     PROVE  e[tabs[k][i].file] = disk[tabs[k][i].file]
          BY DEF SameFiles
        <5>1. i \in 1..Len(T[k]) /\ T[k][i].file = tabs[k][i].file
          BY <1>4 DEF SameView
        <5>2. Backed(T[k][i])
          BY <5>1 DEF Backed
        <5> QED BY <3>3, <3>4, <5>1, <5>2
      <4>4. Reads(T, e, q)
        BY <1>3, <1>4, <4>2, <4>3, ReadsSame
      <4> QED BY <1>8, <2>3, <2>5, <3>1, <3>2, <3>7, <4>1, <4>4
    <3> QED BY <3>5, <3>6, <3>7
  <2> QED BY <1>2, <2>6, <2>7
<1> QED BY <1>12, <1>13, <1>14, <1>15 DEF EditorInv

-----------------------------------------------------------------------------
(* Loading.                                                                *)

\* The tab t into which the entry e of a project file is loaded, that is read as s.
Opens(k, e, s, t) ==
  /\ t \in Source /\ t.file = e.file /\ t.stale = TRUE /\ t.text # "foreign"
  /\ k = "awl" \/ s.text # "junk" =>
       /\ ~Backed(e) => t.text = e.text
       /\ Backed(e) => t.text = disk[e.file]

LEMMA OpenedTab ==
  ASSUME EditorTypes, NEW k \in Kinds, NEW e \in Entry,
         NEW s, s = IF e.file = "" THEN e ELSE [e EXCEPT !.text = disk[e.file]]
  PROVE  Opens(k, e, s, SetSource(k, s))
<1>1. disk \in [Files -> Readable] /\ "" \in Readable /\ Readable \subseteq Contents /\ "foreign" \notin Readable
  BY DEF EditorTypes, Readable, Contents
<1>2. e.file \in FileNames /\ e.text \in Readable /\ e \in [file : FileNames, text : Readable]
  BY DEF Entry
<1>3. s.file = e.file /\ s.text \in Readable /\ (~Backed(e) => s.text = e.text) /\ (Backed(e) => s.text = disk[e.file])
  <2>1. CASE e.file = ""
    BY <1>2, <2>1 DEF Backed
  <2>2. CASE e.file # ""
    <3>1. disk[e.file] \in Readable
      BY <1>1, <1>2, <2>2 DEF FileNames
    <3> QED BY <1>2, <2>2, <3>1 DEF Backed
  <2> QED BY <2>1, <2>2
<1> DEFINE x == IF k = "sym" /\ s.text = "junk" THEN "" ELSE s.text
<1>4. x \in Readable
  BY <1>1, <1>3
<1>5. k = "awl" \/ s.text # "junk" => x = s.text
  OBVIOUS
<1>6. PICK t : t = Tab(s.file, x)
  OBVIOUS
<1>7. t \in Source /\ t.file = e.file /\ t.stale = TRUE /\ t.text = x
  <2> HIDE DEF x
  <2> QED BY <1>1, <1>2, <1>3, <1>4, <1>6 DEF Tab, Source
<1>8. t = SetSource(k, s)
  BY <1>6 DEF SetSource
<1>9. t.text # "foreign"
  BY <1>1, <1>4, <1>7
<1> HIDE DEF x
<1> QED BY <1>3, <1>5, <1>7, <1>8, <1>9 DEF Opens

\* The project p is loaded: no two of its sources have a file in common, and
\* none of its symbol tables is unreadable.
Opened(p) == [k \in Kinds |-> SetSources(k, FromText(p[k]))]
Spoilt(p) == \E i \in DOMAIN p.sym : FromText(p.sym)[i].text = "junk"
LoadsWell(p) ==
  /\ TabsTyped(Opened(p))
  /\ ~Shared(p) => Careful(Opened(p))
  /\ ~Spoilt(p) => Reads(Opened(p), disk, p)

LEMMA ProjectOpened ==
  ASSUME EditorTypes, NEW p, ProjectKept(p), p # NoProject
  PROVE  LoadsWell(p)
<1>1. PICK U : U = Opened(p)
  OBVIOUS
<1>2. "awl" \in Kinds /\ "sym" \in Kinds /\ \A k \in Kinds : k = "awl" \/ k = "sym"
  BY DEF Kinds
<1>3. \A k \in Kinds : p[k] \in Seq(Entry) /\ Sorted(p[k]) /\ p[k] # <<>>
  <2>1. p["awl"] \in Seq(Entry) /\ p["sym"] \in Seq(Entry)
    BY DEF ProjectKept, Project
  <2>2. \A k \in Kinds : Sorted(p[k])
    BY DEF ProjectKept
  <2> QED BY <1>2, <2>1, <2>2 DEF Sorted
<1>4. ASSUME NEW k \in Kinds
      PROVE  /\ U[k] \in Seq(Source) /\ Len(U[k]) = Len(p[k]) /\ U[k] # <<>>
             /\ DOMAIN U[k] = 1..Len(p[k]) /\ DOMAIN p[k] = 1..Len(p[k])
             /\ \A i \in 1..Len(p[k]) : Opens(k, p[k][i], FromText(p[k])[i], U[k][i])
  <2>1. PICK ss : ss = p[k]
    OBVIOUS
  <2>2. ss \in Seq(Entry) /\ ss # <<>>
    BY <1>3, <2>1
  <2>3. PICK n \in Nat : n = Len(ss)
    BY <2>2, DomainIs
  <2>4. DOMAIN ss = 1..n /\ n # 0 /\ \A i \in 1..n : ss[i] \in Entry
    BY <2>2, <2>3, DomainIs
  <2>5. PICK r : r = FromText(ss)
    OBVIOUS
  <2>6. r = [i \in 1..n |-> IF ss[i].file = "" THEN ss[i] ELSE [ss[i] EXCEPT !.text = disk[ss[i].file]]]
    BY <2>4, <2>5 DEF FromText
  <2>7. r # <<>> /\ DOMAIN r = 1..n
    <3>1. DOMAIN r = 1..n
      BY <2>6
    <3>2. 1 \in 1..n
      BY <2>4
    <3> QED BY <3>1, <3>2
  <2>8. U[k] = [i \in 1..n |-> SetSource(k, r[i])]
    <3>1. U[k] = SetSources(k, r)
      BY <1>1, <2>1, <2>5 DEF Opened
    <3> QED BY <2>7, <3>1 DEF SetSources
  <2>9. ASSUME NEW i \in 1..n PROVE Opens(k, ss[i], r[i], U[k][i])
    <3>1. PICK e \in Entry : e = ss[i]
      BY <2>4
    <3>2. PICK s : s = r[i]
      OBVIOUS
    <3>3. s = IF e.file = "" THEN e ELSE [e EXCEPT !.text = disk[e.file]]
      BY <2>6, <3>1, <3>2
    <3>4. Opens(k, e, s, SetSource(k, s))
      BY <3>3, OpenedTab
    <3>5. U[k][i] = SetSource(k, s)
      BY <2>8, <3>2
    <3> QED BY <3>1, <3>2, <3>4, <3>5
  <2>10. U[k] \in [1..n -> Source]
    BY <2>8, <2>9 DEF Opens
  <2>11. U[k] \in Seq(Source) /\ Len(U[k]) = n /\ DOMAIN U[k] = 1..n
    BY <2>10, Listing
  <2>12. U[k] # <<>>
    BY <2>4, <2>11
  <2> QED BY <2>1, <2>3, <2>4, <2>5, <2>9, <2>11, <2>12
<1>5. U \in [Kinds -> Seq(Source)]
  BY <1>1, <1>4 DEF Opened
<1>6. ASSUME NEW k \in Kinds, NEW i \in 1..Len(p[k])
      PROVE  U[k][i].file = p[k][i].file /\ U[k][i].stale = TRUE /\ U[k][i].text # "foreign"
  BY <1>4 DEF Opens
<1>7. TabsTyped(U)
  BY <1>4, <1>5, <1>6 DEF TabsTyped, Writable
<1>8. ASSUME ~Shared(p) PROVE Careful(U)
  <2>1. \A k \in Kinds : \A i \in 1..Len(U[k]) : Settled(U[k][i])
    BY <1>4, <1>6 DEF Settled
  <2>2. ASSUME Shared(U) PROVE Shared(p)
    <3>0. PICK l \in Kinds, r \in Kinds : \E x \in DOMAIN U[l] : \E y \in DOMAIN U[r] :
            <<l, x>> # <<r, y>> /\ U[l][x].file # "" /\ U[l][x].file = U[r][y].file
      BY <2>2 DEF Shared
    <3>1. PICK x \in DOMAIN U[l], y \in DOMAIN U[r] :
            <<l, x>> # <<r, y>> /\ U[l][x].file # "" /\ U[l][x].file = U[r][y].file
      BY <3>0
    <3>2. x \in DOMAIN p[l] /\ y \in DOMAIN p[r] /\ x \in 1..Len(p[l]) /\ y \in 1..Len(p[r])
      BY <1>4, <3>1
    <3>3. U[l][x].file = p[l][x].file /\ U[r][y].file = p[r][y].file
      BY <1>6, <3>2
    <3>4. <<l, x>> # <<r, y>> /\ p[l][x].file # "" /\ p[l][x].file = p[r][y].file
      BY <3>1, <3>3
    <3> QED BY <3>2, <3>4 DEF Shared
  <2> QED BY <1>8, <2>1, <2>2 DEF Careful
<1>9. ASSUME ~Spoilt(p), NEW k \in Kinds
      PROVE  p[k] = ToText(AllShown(U[k])) /\ \A i \in DOMAIN U[k] : U[k][i].file # "" => disk[U[k][i].file] = U[k][i].text
  <2>1. PICK ss : ss = p[k]
    OBVIOUS
  <2>2. PICK n \in Nat : n = Len(ss)
    BY <1>3, <2>1, DomainIs
  <2>3. ss \in Seq(Entry) /\ \A i \in 1..n : ss[i] \in Entry
    BY <1>3, <2>1, <2>2, DomainIs
  <2>4. \A i \in 1..n : k = "awl" \/ FromText(ss)[i].text # "junk"
    <3>1. CASE k = "sym"
      <4>1. DOMAIN p["sym"] = 1..n
        BY <1>4, <2>1, <2>2, <3>1
      <4> QED BY <1>9, <2>1, <3>1, <4>1 DEF Spoilt
    <3> QED BY <1>2, <3>1
  <2>5. PICK us : us = U[k]
    OBVIOUS
  <2>6. DOMAIN us = 1..n /\ Len(us) = n /\ \A i \in 1..n : Opens(k, ss[i], FromText(ss)[i], us[i])
    BY <1>4, <2>1, <2>2, <2>5
  <2>7. ASSUME NEW i \in 1..n
        PROVE  /\ us[i] \in Source /\ us[i].file = ss[i].file
               /\ ~Backed(ss[i]) => us[i].text = ss[i].text
               /\ Backed(ss[i]) => us[i].text = disk[ss[i].file]
    BY <2>4, <2>6 DEF Opens
  <2>8. PICK a : a = AllShown(us)
    OBVIOUS
  <2>9. a = [i \in 1..n |-> AsShown(us[i])]
    BY <2>6, <2>8 DEF AllShown
  <2>10. ASSUME NEW i \in 1..n PROVE InProject(a[i]) = ss[i]
    <3>1. \A t \in Source : AsShown(t).file = t.file /\ AsShown(t).bytes = t.text
      BY DEF AsShown, Source
    <3>2. a[i].file = ss[i].file /\ a[i].bytes = us[i].text
      BY <2>7, <2>9, <3>1
    <3>3. PICK e \in Entry : e = ss[i]
      BY <2>3
    <3>4. InProject(a[i]) = [file |-> e.file, text |-> IF Backed(e) THEN "" ELSE us[i].text]
      BY <3>2, <3>3 DEF InProject, Backed
    <3>5. e.text = IF Backed(e) THEN "" ELSE us[i].text
      BY <2>7, <3>3 DEF Entry
    <3>6. e = [file |-> e.file, text |-> e.text]
      BY DEF Entry
    <3> QED BY <3>3, <3>4, <3>5, <3>6
  <2>11. PICK S : S = {a[i] : i \in 1..n}
    OBVIOUS
  <2>12. Len(a) = n /\ Known(a, n, S)
    <3>1. a \in [1..n -> S]
      BY <2>9, <2>11
    <3> QED BY <3>1, Listing DEF Known
  <2>13. PICK m \in 0..n : InOrder(ss, n, m)
    BY <1>3, <2>1, <2>2 DEF Sorted
  <2>14. ToText(a) = ss
    BY <2>2, <2>3, <2>10, <2>12, <2>13, ToTextInOrder
  <2>15. \A i \in 1..n : us[i].file # "" => disk[us[i].file] = us[i].text
    BY <2>7 DEF Backed
  <2> QED BY <2>1, <2>5, <2>6, <2>8, <2>14, <2>15
<1>10. ~Spoilt(p) => Reads(U, disk, p)
  BY <1>9 DEF Reads
<1> QED BY <1>1, <1>7, <1>8, <1>10 DEF LoadsWell

LEMMA LoadProjectKept ==
  ASSUME EditorInv, NEW name \in Projects, LoadProject(name), UNCHANGED <<disk, saved, failures>>
  PROVE  EditorInv'
<1>1. EditorTypes
  BY DEF EditorInv
<1>2. PICK p : p = saved[name]
  OBVIOUS
<1>3. ProjectKept(p) /\ p # NoProject
  BY <1>1, <1>2 DEF EditorTypes, LoadProject
<1>4. LoadsWell(p)
  BY <1>1, <1>3, ProjectOpened
<1>5. /\ tabs' = Opened(p) /\ libs' = p.libs /\ settings' = p.settings
      /\ filename' = name /\ dirty' = FALSE /\ adHoc' = FALSE /\ disk' = disk /\ saved' = saved
      /\ careless' = (Shared(p) \/ Spoilt(p))
  BY <1>2 DEF LoadProject, Opened, Spoilt
<1>6. p.libs \in Selections /\ p.settings \in Settings
  BY <1>3 DEF ProjectKept, Project
<1>7. PICK U : U = tabs'
  OBVIOUS
<1>8. TabsTyped(U) /\ (~careless' => Careful(U) /\ Reads(U, disk, p))
  BY <1>4, <1>5, <1>7 DEF LoadsWell
<1>9. EditorTypes'
  BY <1>1, <1>5, <1>6, <1>7, <1>8 DEF EditorTypes
<1>10. CarefulInv'
  BY <1>7, <1>8 DEF CarefulInv
<1>11. NameInv'
  BY <1>5, FilesAssumption DEF NameInv
<1>12. CleanInv'
  <2>1. saved'[filename'] = p
    BY <1>2, <1>5
  <2>2. ~careless' => Reads(tabs', disk', p)
    BY <1>5, <1>7, <1>8
  <2> QED BY <1>5, <2>1, <2>2 DEF CleanInv
<1> QED BY <1>9, <1>10, <1>11, <1>12 DEF EditorInv

LEMMA NothingChosen == <<>> \in Selections /\ "default" \in Settings
BY DEF Selections, Settings

\* One tab of each kind, of which no more than one has a file.
LEMMA FirstTabs ==
  ASSUME NEW t \in Source, t.text # "foreign", t.stale, NEW T,
         T = [awl |-> <<t>>, sym |-> <<EmptyTab>>]
  PROVE  TabsTyped(T) /\ Careful(T)
<1>1. EmptyTab \in Source /\ EmptyTab.file = "" /\ EmptyTab.text # "foreign" /\ EmptyTab.stale
  BY DEF EmptyTab, Tab, Source, FileNames, Contents, Readable
<1>2. \A k \in Kinds : k = "awl" \/ k = "sym"
  BY DEF Kinds
<1>3. PICK u \in Source : u = EmptyTab
  BY <1>1
<1>4. T["awl"] = <<t>> /\ T["sym"] = <<u>> /\ DOMAIN T = Kinds
  BY <1>3 DEF Kinds
<1>5. \A s \in Source : <<s>> \in Seq(Source) /\ <<s>> # <<>> /\ Len(<<s>>) = 1 /\ <<s>>[1] = s /\ DOMAIN <<s>> = {1}
  OBVIOUS
<1>6. ASSUME NEW k \in Kinds
      PROVE  /\ T[k] \in Seq(Source) /\ T[k] # <<>> /\ Len(T[k]) = 1 /\ DOMAIN T[k] = {1}
             /\ T[k][1].text # "foreign" /\ T[k][1].stale
             /\ k = "sym" => T[k][1].file = ""
  <2>1. T[k] = <<t>> \/ T[k] = <<u>>
    BY <1>2, <1>4
  <2>2. k = "sym" => T[k][1] = u
    BY <1>4, <1>5
  <2>3. T[k][1] \in {t, u}
    BY <1>5, <2>1
  <2> QED BY <1>1, <1>3, <1>5, <2>1, <2>2, <2>3
<1>7. T \in [Kinds -> Seq(Source)]
  <2>1. T = [k \in Kinds |-> T[k]]
    BY <1>4
  <2> QED BY <1>6, <2>1
<1>8. \A k \in Kinds : \A i \in 1..Len(T[k]) : i = 1
  <2> SUFFICES ASSUME NEW k \in Kinds PROVE \A i \in 1..Len(T[k]) : i = 1
    OBVIOUS
  <2>1. Len(T[k]) = 1
    BY <1>6
  <2>2. \A i \in 1..1 : i = 1
    OBVIOUS
  <2> QED BY <2>1, <2>2
<1>9. TabsTyped(T)
  BY <1>6, <1>7, <1>8 DEF TabsTyped, Writable
<1>10. \A k \in Kinds : \A i \in 1..Len(T[k]) : Settled(T[k][i])
  BY <1>6, <1>8 DEF Settled
<1>11. ASSUME Shared(T) PROVE FALSE
  <2>0. PICK l \in Kinds, r \in Kinds : \E x \in DOMAIN T[l] : \E y \in DOMAIN T[r] :
          <<l, x>> # <<r, y>> /\ T[l][x].file # "" /\ T[l][x].file = T[r][y].file
    BY <1>11 DEF Shared
  <2>1. PICK x \in DOMAIN T[l], y \in DOMAIN T[r] :
          <<l, x>> # <<r, y>> /\ T[l][x].file # "" /\ T[l][x].file = T[r][y].file
    BY <2>0
  <2>2. x = 1 /\ y = 1
    BY <1>6, <2>1
  <2>3. l = "awl" /\ r = "awl"
    BY <1>2, <1>6, <2>1, <2>2
  <2> QED BY <2>1, <2>2, <2>3
<1> QED BY <1>9, <1>10, <1>11 DEF Careful

LEMMA LoadPlainKept ==
  ASSUME EditorInv, NEW f \in Files, LoadPlainAwlSource(f), UNCHANGED <<disk, saved, failures>>
  PROVE  EditorInv'
<1>1. EditorTypes
  BY DEF EditorInv
<1>2. disk[f] \in Readable
  BY <1>1 DEF EditorTypes
<1>3. PICK t : t = Tab(f, disk[f])
  OBVIOUS
<1>4. t \in Source /\ t.text # "foreign" /\ t.stale
  BY <1>2, <1>3 DEF Tab, Source, FileNames, Contents, Readable
<1>5. /\ tabs' = [awl |-> <<t>>, sym |-> <<EmptyTab>>] /\ libs' = <<>> /\ settings' = "default"
      /\ filename' = f /\ dirty' = TRUE /\ adHoc' = TRUE /\ disk' = disk /\ saved' = saved /\ careless' = FALSE
  BY <1>3 DEF LoadPlainAwlSource
<1>6. PICK U : U = tabs'
  OBVIOUS
<1>7. TabsTyped(U) /\ Careful(U)
  BY <1>4, <1>5, <1>6, FirstTabs
<1>8. EditorTypes'
  BY <1>1, <1>5, <1>6, <1>7, NothingChosen DEF EditorTypes
<1> QED BY <1>5, <1>6, <1>7, <1>8 DEF EditorInv, CarefulInv, NameInv, CleanInv

\* There is nothing yet, or no longer.
LEMMA EmptyTabs ==
  ASSUME NEW T, T = [k \in Kinds |-> <<EmptyTab>>]
  PROVE  TabsTyped(T) /\ Careful(T)
<1>1. PICK t : t = EmptyTab
  OBVIOUS
<1>2. t \in Source /\ t.text # "foreign" /\ t.stale
  BY <1>1 DEF EmptyTab, Tab, Source, FileNames, Contents, Readable
<1>3. T = [awl |-> <<t>>, sym |-> <<EmptyTab>>]
  BY <1>1 DEF Kinds
<1> QED BY <1>2, <1>3, FirstTabs

LEMMA RestartKept ==
  ASSUME EditorInv, NEW answer, Restart(answer)
  PROVE  EditorInv'
<1>1. EditorTypes
  BY DEF EditorInv
<1>2. /\ tabs' = [k \in Kinds |-> <<EmptyTab>>] /\ libs' = <<>> /\ settings' = "default"
      /\ filename' = "" /\ dirty' = FALSE /\ adHoc' = FALSE /\ disk' = disk /\ saved' = saved /\ careless' = FALSE
  BY DEF Restart
<1>3. PICK U : U = tabs'
  OBVIOUS
<1>4. TabsTyped(U) /\ Careful(U)
  BY <1>2, <1>3, EmptyTabs
<1>5. EditorTypes'
  BY <1>1, <1>2, <1>3, <1>4, NothingChosen DEF EditorTypes
<1> QED BY <1>2, <1>3, <1>4, <1>5, FilesAssumption DEF EditorInv, CarefulInv, NameInv, CleanInv

LEMMA EditorStarts == EditorInit => EditorInv
<1> SUFFICES ASSUME EditorInit PROVE EditorInv
  OBVIOUS
<1>1. TabsTyped(tabs) /\ Careful(tabs)
  <2>1. PICK U : U = tabs
    OBVIOUS
  <2>2. U = [k \in Kinds |-> <<EmptyTab>>]
    BY <2>1 DEF EditorInit
  <2> QED BY <2>1, <2>2, EmptyTabs
<1>2. disk \in [Files -> Readable]
  <2>1. Text \ {"foreign"} \subseteq Readable
    BY DEF Readable, Contents
  <2> QED BY <2>1 DEF EditorInit
<1>3. DOMAIN saved = Projects /\ \A p \in Projects : ProjectKept(saved[p])
  <2>1. NoProject \in Project
    BY DEF NoProject, Project, Selections, Settings
  <2>2. ProjectKept(NoProject)
    BY <2>1 DEF ProjectKept
  <2> QED BY <2>2 DEF EditorInit
<1>4. /\ libs = <<>> /\ settings = "default" /\ filename = "" /\ dirty = FALSE /\ adHoc = FALSE /\ careless = FALSE
  BY DEF EditorInit
<1>5. EditorTypes
  BY <1>1, <1>2, <1>3, <1>4, NothingChosen DEF EditorTypes
<1> QED BY <1>1, <1>4, <1>5, FilesAssumption DEF EditorInv, CarefulInv, NameInv, CleanInv

-----------------------------------------------------------------------------
(* What the user does.                                                     *)

\* The text of the source i becomes another.
Retyped(ts, i, text, stale) == [ts EXCEPT ![i] = [ts[i] EXCEPT !.text = text, !.stale = stale]]
LEMMA RetypedTab ==
  ASSUME NEW ts \in Seq(Source), NEW i \in 1..Len(ts), NEW text \in Contents
  PROVE  /\ [ts EXCEPT ![i].text = text, ![i].stale = TRUE] = Retyped(ts, i, text, TRUE)
         /\ [ts EXCEPT ![i].text = text] = Retyped(ts, i, text, ts[i].stale)
<1>1. DOMAIN ts = 1..Len(ts) /\ ts[i] \in Source
  BY DomainIs
<1>2. [ts EXCEPT ![i].text = text, ![i].stale = TRUE] = Retyped(ts, i, text, TRUE)
  BY <1>1 DEF Retyped, Source
<1>3. [ts EXCEPT ![i].text = text] = Retyped(ts, i, text, ts[i].stale)
  BY <1>1 DEF Retyped, Source
<1> QED BY <1>2, <1>3

LEMMA RetypedKept ==
  ASSUME EditorInv, Touches, libs' = libs, settings' = settings,
         NEW k \in Kinds, NEW i \in 1..Len(tabs[k]), NEW text \in Contents, NEW stale \in BOOLEAN,
         tabs' = [tabs EXCEPT ![k] = Retyped(tabs[k], i, text, stale)],
         k = "awl" => text # "foreign", ~careless' => text # "foreign" /\ stale
  PROVE  EditorInv'
<1>1. PICK T : T = tabs
  OBVIOUS
<1>2. TabsTyped(T)
  BY <1>1 DEF EditorInv, EditorTypes
<1>3. T[k] \in Seq(Source)
  BY <1>2 DEF TabsTyped
<1>4. PICK s \in Source : s = T[k][i]
  BY <1>1, <1>3, DomainIs
<1>5. PICK t : t = [s EXCEPT !.text = text, !.stale = stale]
  OBVIOUS
<1>6. t \in Source /\ t.file = s.file /\ t.text = text /\ t.stale = stale
  BY <1>5 DEF Source
<1>7. Writable(k, t) /\ Retains(t, T[k][i]) /\ (~careless' => Settled(t))
  BY <1>4, <1>6 DEF Writable, Retains, Settled
<1>8. PICK U : U = [T EXCEPT ![k] = [T[k] EXCEPT ![i] = t]]
  OBVIOUS
<1>9. TabsTyped(U) /\ (Careful(T) /\ Settled(t) => Careful(U))
  BY <1>1, <1>2, <1>6, <1>7, <1>8, Replaced
<1>10. tabs' = U
  BY <1>1, <1>4, <1>5, <1>8 DEF Retyped
<1>11. ~careless' => Careful(tabs)
  BY DEF EditorInv, CarefulInv, Touches
<1> QED BY <1>1, <1>7, <1>9, <1>10, <1>11, TouchedKept

LEMMA EditKept ==
  ASSUME EditorInv, NEW k \in Kinds, NEW i \in DOMAIN tabs[k],
         NEW text \in Text \ {IF k = "sym" THEN "junk" ELSE "foreign"}, Edit(k, i, text)
  PROVE  EditorInv'
<1>1. tabs[k] \in Seq(Source)
  BY DEF EditorInv, EditorTypes, TabsTyped
<1>2. i \in 1..Len(tabs[k]) /\ text \in Contents
  BY <1>1, DomainIs DEF Contents
<1>3. /\ tabs' = [tabs EXCEPT ![k] = [tabs[k] EXCEPT ![i].text = text, ![i].stale = TRUE]]
      /\ libs' = libs /\ settings' = settings
      /\ careless' = (careless \/ (k = "sym" /\ text = "foreign"))
      /\ dirty' = TRUE /\ disk' = disk /\ saved' = saved /\ filename' = filename /\ adHoc' = adHoc
  BY DEF Edit, OnlyTabs, SomethingChanged, Careless
<1>4. tabs' = [tabs EXCEPT ![k] = Retyped(tabs[k], i, text, TRUE)]
  <2>1. PICK ts \in Seq(Source) : ts = tabs[k]
    BY <1>1
  <2>2. [ts EXCEPT ![i].text = text, ![i].stale = TRUE] = Retyped(ts, i, text, TRUE)
    BY <1>2, <2>1, RetypedTab
  <2> QED BY <1>3, <2>1, <2>2
<1>5. Touches
  BY <1>3 DEF EditorInv, EditorTypes, Touches
<1>6. (k = "awl" => text # "foreign") /\ (~careless' => text # "foreign")
  BY <1>3 DEF Kinds
<1> QED BY <1>2, <1>3, <1>4, <1>5, <1>6, RetypedKept

LEMMA EditRefusedKept ==
  ASSUME EditorInv, NEW i \in DOMAIN tabs["sym"], EditRefused(i)
  PROVE  EditorInv'
<1>1. "sym" \in Kinds
  BY DEF Kinds
<1>2. tabs["sym"] \in Seq(Source)
  BY <1>1 DEF EditorInv, EditorTypes, TabsTyped
<1>3. PICK text \in Text \ {"junk", "foreign"} : tabs' = [tabs EXCEPT !["sym"] = [tabs["sym"] EXCEPT ![i].text = text]]
  BY DEF EditRefused, OnlyTabs
<1>4. /\ libs' = libs /\ settings' = settings /\ careless' = TRUE
      /\ dirty' = dirty /\ disk' = disk /\ saved' = saved /\ filename' = filename /\ adHoc' = adHoc
  BY DEF EditRefused, OnlyTabs, Unnoticed
<1>5. i \in 1..Len(tabs["sym"]) /\ text \in Contents
  BY <1>2, DomainIs DEF Contents
<1>6. PICK ts \in Seq(Source) : ts = tabs["sym"]
  BY <1>2
<1>7. PICK stale : stale = ts[i].stale
  OBVIOUS
<1>8. stale \in BOOLEAN
  <2>1. PICK s \in Source : s = ts[i]
    BY <1>5, <1>6, DomainIs
  <2>2. s.stale \in BOOLEAN
    BY DEF Source
  <2> QED BY <1>7, <2>1, <2>2
<1>9. tabs' = [tabs EXCEPT !["sym"] = Retyped(tabs["sym"], i, text, stale)]
  <2>1. [ts EXCEPT ![i].text = text] = Retyped(ts, i, text, ts[i].stale)
    BY <1>5, <1>6, RetypedTab
  <2> QED BY <1>3, <1>6, <1>7, <2>1
<1>10. Touches
  BY <1>4 DEF EditorInv, EditorTypes, Touches
<1> QED BY <1>1, <1>4, <1>5, <1>8, <1>9, <1>10, RetypedKept

LEMMA PasteSymbolKept ==
  ASSUME EditorInv, NEW i \in DOMAIN tabs["sym"], PasteSymbol(i)
  PROVE  EditorInv'
<1>1. "sym" \in Kinds
  BY DEF Kinds
<1>2. tabs["sym"] \in Seq(Source)
  BY <1>1 DEF EditorInv, EditorTypes, TabsTyped
<1>3. PICK text \in Text \ {"junk", "foreign"} :
        tabs' = [tabs EXCEPT !["sym"] = [tabs["sym"] EXCEPT ![i].text = text, ![i].stale = TRUE]]
  BY DEF PasteSymbol, OnlyTabs
<1>4. /\ libs' = libs /\ settings' = settings /\ careless' = TRUE
      /\ dirty' = dirty /\ disk' = disk /\ saved' = saved /\ filename' = filename /\ adHoc' = adHoc
  BY DEF PasteSymbol, OnlyTabs, Unnoticed
<1>5. i \in 1..Len(tabs["sym"]) /\ text \in Contents
  BY <1>2, DomainIs DEF Contents
<1>6. tabs' = [tabs EXCEPT !["sym"] = Retyped(tabs["sym"], i, text, TRUE)]
  <2>1. PICK ts \in Seq(Source) : ts = tabs["sym"]
    BY <1>2
  <2>2. [ts EXCEPT ![i].text = text, ![i].stale = TRUE] = Retyped(ts, i, text, TRUE)
    BY <1>5, <2>1, RetypedTab
  <2> QED BY <1>3, <2>1, <2>2
<1>7. Touches
  BY <1>4 DEF EditorInv, EditorTypes, Touches
<1> QED BY <1>1, <1>4, <1>5, <1>6, <1>7, RetypedKept

\* A tab is added.
LEMMA AddedKept ==
  ASSUME EditorInv, Touches, NEW k \in Kinds, NEW t \in Source, Writable(k, t),
         tabs' = [tabs EXCEPT ![k] = Append(tabs[k], t)],
         ~careless' => Settled(t) /\ (t.file # "" => ~Backs(t.file))
  PROVE  EditorInv'
<1>1. PICK T : T = tabs
  OBVIOUS
<1>2. TabsTyped(T)
  BY <1>1 DEF EditorInv, EditorTypes
<1>3. PICK U : U = [T EXCEPT ![k] = Append(T[k], t)]
  OBVIOUS
<1>4. ~careless' => (t.file # "" => \A l \in Kinds : \A i \in DOMAIN T[l] : T[l][i].file # t.file)
  BY <1>1 DEF Backs
<1>5. /\ TabsTyped(U)
      /\ /\ Careful(T) /\ Settled(t)
         /\ t.file # "" => \A l \in Kinds : \A i \in DOMAIN T[l] : T[l][i].file # t.file
         => Careful(U)
  BY <1>2, <1>3, Added
<1>6. ~careless' => Careful(T)
  BY <1>1 DEF EditorInv, CarefulInv, Touches
<1>7. ~careless' => Careful(U)
  BY <1>4, <1>5, <1>6
<1>8. tabs' = U
  BY <1>1, <1>3
<1> QED BY <1>5, <1>7, <1>8, TouchedKept

LEMMA AddTabKept ==
  ASSUME EditorInv, NEW k \in Kinds, AddTab(k)
  PROVE  EditorInv'
<1>1. PICK t : t = EmptyTab
  OBVIOUS
<1>2. t \in Source /\ Writable(k, t) /\ Settled(t) /\ t.file = ""
  BY <1>1 DEF EmptyTab, Tab, Source, FileNames, Contents, Readable, Writable, Settled
<1>3. tabs' = [tabs EXCEPT ![k] = Append(tabs[k], t)]
  BY <1>1 DEF AddTab, OnlyTabs
<1>4. Touches
  BY DEF AddTab, OnlyTabs, SomethingChanged, EditorInv, EditorTypes, Touches
<1> QED BY <1>2, <1>3, <1>4, AddedKept

LEMMA ImportKept ==
  ASSUME EditorInv, NEW k \in Kinds, NEW f \in Files, NEW integrate \in BOOLEAN, Import(k, f, integrate)
  PROVE  EditorInv'
<1>1. disk[f] \in Readable
  BY DEF EditorInv, EditorTypes
<1>2. PICK name : name = IF integrate THEN "" ELSE f
  BY Zenon
<1>3. name \in FileNames /\ (name # "" => name = f /\ ~integrate)
  BY <1>2 DEF FileNames
<1>4. PICK t : t = SetSource(k, [file |-> name, text |-> disk[f]])
  OBVIOUS
<1>5. PICK text \in Readable : t = Tab(name, text)
  <2>1. "" \in Readable
    BY DEF Readable, Contents
  <2> QED BY <1>1, <1>4, <2>1 DEF SetSource
<1>6. t \in Source /\ Writable(k, t) /\ Settled(t) /\ t.file = name
  BY <1>3, <1>5 DEF Tab, Source, Contents, Readable, Writable, Settled
<1>7. tabs' = [tabs EXCEPT ![k] = Append(tabs[k], t)]
  BY <1>2, <1>4 DEF Import, OnlyTabs
<1>8. ~careless' => integrate \/ ~Backs(f)
  BY DEF Import, Careless
<1>9. Touches
  <2>1. careless \in BOOLEAN /\ libs \in Selections /\ settings \in Settings
    BY DEF EditorInv, EditorTypes
  <2>2. careless' \in BOOLEAN /\ (careless => careless')
    BY <2>1 DEF Import, Careless
  <2> QED BY <2>1, <2>2 DEF Import, OnlyTabs, SomethingChanged, Touches
<1>10. ~careless' => Settled(t) /\ (t.file # "" => ~Backs(t.file))
  BY <1>3, <1>6, <1>8
<1> QED BY <1>6, <1>7, <1>9, <1>10, AddedKept

\* Tabs are taken away or change places.
LEMMA SomeOfThemKept ==
  ASSUME EditorInv, Touches, NEW k \in Kinds, NEW us \in Seq(Source), us # <<>>,
         NEW pick, Among(us, tabs[k], Len(tabs[k]), pick), tabs' = [tabs EXCEPT ![k] = us]
  PROVE  EditorInv'
<1>1. PICK T : T = tabs
  OBVIOUS
<1>2. TabsTyped(T)
  BY <1>1 DEF EditorInv, EditorTypes
<1>3. PICK U : U = [T EXCEPT ![k] = us]
  OBVIOUS
<1>4. TabsTyped(U) /\ (Careful(T) => Careful(U))
  BY <1>1, <1>2, <1>3, SomeOfThem
<1>5. ~careless' => Careful(T)
  BY <1>1 DEF EditorInv, CarefulInv, Touches
<1>6. tabs' = U
  BY <1>1, <1>3
<1> QED BY <1>4, <1>5, <1>6, TouchedKept

LEMMA DeleteTabKept ==
  ASSUME EditorInv, NEW k \in Kinds, NEW i \in DOMAIN tabs[k], DeleteTab(k, i)
  PROVE  EditorInv'
<1>1. PICK ts \in Seq(Source) : ts = tabs[k]
  BY DEF EditorInv, EditorTypes, TabsTyped
<1>2. PICK us : us = RemoveAt(ts, i)
  OBVIOUS
<1>3. i \in 1..Len(ts) /\ Len(ts) > 1
  BY <1>1, DomainIs DEF DeleteTab
<1>4. us \in Seq(Source) /\ us # <<>> /\ \E pick : Among(us, ts, Len(ts), pick)
  BY <1>2, <1>3, RemovedAmong
<1>5. PICK pick : Among(us, tabs[k], Len(tabs[k]), pick)
  BY <1>1, <1>4
<1>6. Touches
  BY DEF DeleteTab, OnlyTabs, SomethingChanged, EditorInv, EditorTypes, Touches
<1>7. tabs' = [tabs EXCEPT ![k] = us]
  BY <1>1, <1>2 DEF DeleteTab, OnlyTabs
<1> QED BY <1>4, <1>5, <1>6, <1>7, SomeOfThemKept

LEMMA MoveTabKept ==
  ASSUME EditorInv, NEW k \in Kinds, NEW i \in DOMAIN tabs[k], NEW j \in DOMAIN tabs[k], MoveTab(k, i, j)
  PROVE  EditorInv'
<1>1. PICK ts \in Seq(Source) : ts = tabs[k]
  BY DEF EditorInv, EditorTypes, TabsTyped
<1>2. PICK us : us = InsertAt(RemoveAt(ts, i), j, ts[i])
  OBVIOUS
<1>3. i \in 1..Len(ts) /\ j \in 1..Len(ts)
  BY <1>1, DomainIs
<1>4. us \in Seq(Source) /\ us # <<>> /\ \E pick : Among(us, ts, Len(ts), pick)
  BY <1>2, <1>3, MovedAmong
<1>5. PICK pick : Among(us, tabs[k], Len(tabs[k]), pick)
  BY <1>1, <1>4
<1>6. Touches
  BY DEF MoveTab, OnlyTabs, SomethingChanged, EditorInv, EditorTypes, Touches
<1>7. tabs' = [tabs EXCEPT ![k] = us]
  BY <1>1, <1>2 DEF MoveTab, OnlyTabs
<1> QED BY <1>4, <1>5, <1>6, <1>7, SomeOfThemKept

\* The source was asked for, and its tab has its file no longer.
LEMMA IntegrateKept ==
  ASSUME EditorInv, NEW k \in Kinds, NEW i \in DOMAIN tabs[k], Integrate(k, i)
  PROVE  EditorInv'
<1>1. PICK T : T = tabs
  OBVIOUS
<1>2. TabsTyped(T) /\ (~careless' => Careful(T))
  BY <1>1 DEF EditorInv, EditorTypes, CarefulInv, Integrate
<1>3. T[k] \in Seq(Source)
  BY <1>2 DEF TabsTyped
<1>4. i \in 1..Len(T[k])
  BY <1>1, <1>3, DomainIs
<1>5. PICK s \in Source : s = T[k][i] /\ Writable(k, s)
  BY <1>2, <1>3, <1>4, DomainIs DEF TabsTyped
<1>6. PICK g : g = GetSource(k, s)
  OBVIOUS
<1>7. /\ g \in Source /\ Writable(k, g) /\ g.file = s.file /\ g.text = s.text
      /\ Settled(s) => Settled(g) /\ g.bytes = s.text
  BY <1>5, <1>6, GotSource
<1>8. PICK t : t = [g EXCEPT !.file = ""]
  OBVIOUS
<1>9. t \in Source /\ t.file = "" /\ t.text = g.text /\ t.bytes = g.bytes /\ t.stale = g.stale
  BY <1>7, <1>8 DEF Source, FileNames
<1>10. Writable(k, t) /\ Retains(t, T[k][i]) /\ (Settled(s) => Settled(t))
  BY <1>7, <1>9 DEF Writable, Retains, Settled
<1>11. PICK U : U = [T EXCEPT ![k] = [T[k] EXCEPT ![i] = t]]
  OBVIOUS
<1>12. TabsTyped(U) /\ (Careful(T) /\ Settled(t) => Careful(U))
  BY <1>2, <1>4, <1>9, <1>10, <1>11, Replaced
<1>13. ~careless' => Settled(t)
  BY <1>2, <1>4, <1>5, <1>10 DEF Careful
<1>14. tabs' = U
  <2>1. tabs' = [tabs EXCEPT ![k] = [tabs[k] EXCEPT ![i] = [GetSource(k, @) EXCEPT !.file = ""]]]
    BY DEF Integrate, OnlyTabs
  <2>2. [T[k] EXCEPT ![i] = [GetSource(k, @) EXCEPT !.file = ""]] = [T[k] EXCEPT ![i] = t]
    BY <1>5, <1>6, <1>8
  <2> QED BY <1>1, <1>11, <2>1, <2>2
<1>15. Touches
  BY DEF Integrate, OnlyTabs, SomethingChanged, EditorInv, EditorTypes, Touches
<1> QED BY <1>2, <1>12, <1>13, <1>14, <1>15, TouchedKept

\* The file that is written is that of no tab, or it is known that it may be.
LEMMA ExportKept ==
  ASSUME EditorInv, NEW k \in Kinds, NEW i \in DOMAIN tabs[k], NEW f \in Files, Export(k, i, f)
  PROVE  EditorInv'
<1>1. PICK T, d : T = tabs /\ d = disk
  OBVIOUS
<1>2. TabsTyped(T) /\ d \in [Files -> Readable] /\ careless \in BOOLEAN
  BY <1>1 DEF EditorInv, EditorTypes
<1>3. /\ careless' = (careless \/ Backs(f)) /\ libs' = libs /\ settings' = settings
      /\ saved' = saved /\ dirty' = dirty /\ filename' = filename /\ adHoc' = adHoc
  BY DEF Export, OnlyTabs, Careless
<1>4. T[k] \in Seq(Source)
  BY <1>2 DEF TabsTyped
<1>5. i \in 1..Len(T[k])
  BY <1>1, <1>4, DomainIs
<1>6. PICK s \in Source : s = T[k][i] /\ Writable(k, s)
  BY <1>2, <1>4, <1>5, DomainIs DEF TabsTyped
<1>7. PICK t : t = GetSource(k, s)
  OBVIOUS
<1>8. t \in Source /\ Writable(k, t) /\ t.file = s.file /\ t.text = s.text /\ (Settled(s) => Settled(t))
  BY <1>6, <1>7, GotSource
<1>9. PICK us : us = [T[k] EXCEPT ![i] = t]
  OBVIOUS
<1>10. PICK U, e : U = [T EXCEPT ![k] = us] /\ e = [d EXCEPT ![f] = t.bytes]
  OBVIOUS
<1>11. tabs' = U /\ disk' = e
  BY <1>1, <1>6, <1>7, <1>9, <1>10 DEF Export, OnlyTabs
<1>12. Retains(t, T[k][i])
  BY <1>6, <1>8 DEF Retains
<1>13. TabsTyped(U) /\ (Careful(T) /\ Settled(t) => Careful(U))
  BY <1>2, <1>5, <1>8, <1>9, <1>10, <1>12, Replaced
<1>14. ~careless' => Careful(T)
  BY <1>1, <1>3 DEF EditorInv, CarefulInv
<1>15. ~careless' => Careful(U)
  BY <1>5, <1>6, <1>8, <1>13, <1>14 DEF Careful
<1>16. e \in [Files -> Readable] /\ \A g \in Files : g # f => e[g] = d[g]
  <2>1. t.bytes \in Readable
    BY <1>8 DEF Source
  <2> QED BY <1>2, <1>10, <2>1
<1>17. SameView(T, U)
  <2>1. PICK ts \in Seq(Source) : ts = T[k]
    BY <1>4
  <2>2. Len(us) = Len(ts) /\ \A m \in 1..Len(ts) : us[m] = IF m = i THEN t ELSE ts[m]
    BY <1>5, <1>8, <1>9, <2>1, Put
  <2>3. U[k] = us /\ \A l \in Kinds : l # k => U[l] = T[l]
    BY <1>2, <1>10 DEF TabsTyped
  <2>4. ASSUME NEW l \in Kinds
        PROVE  /\ Len(U[l]) = Len(T[l])
               /\ \A m \in 1..Len(T[l]) : U[l][m].file = T[l][m].file /\ U[l][m].text = T[l][m].text
    <3>1. CASE l = k
      BY <1>6, <1>8, <2>1, <2>2, <2>3, <3>1
    <3>2. CASE l # k
      BY <2>3, <3>2
    <3> QED BY <3>1, <3>2
  <2> QED BY <2>4 DEF SameView
<1>18. EditorTypes'
  BY <1>2, <1>3, <1>11, <1>13, <1>16 DEF EditorInv, EditorTypes
<1>19. CarefulInv'
  BY <1>11, <1>15 DEF CarefulInv
<1>20. NameInv'
  <2>1. (adHoc => dirty) /\ (filename \in Files => adHoc \/ careless)
    BY DEF EditorInv, NameInv
  <2>2. adHoc' => dirty'
    BY <1>3, <2>1
  <2>3. filename' \in Files => adHoc' \/ careless'
    BY <1>3, <2>1
  <2> QED BY <2>2, <2>3 DEF NameInv
<1>21. CleanInv'
  <2> SUFFICES ASSUME ~dirty', filename' # "", ~careless'
               PROVE  /\ filename' \in Projects
                      /\ Reads(tabs', disk', saved'[filename'])
                      /\ saved'[filename'].libs = libs' /\ saved'[filename'].settings = settings'
    BY DEF CleanInv
  <2>1. ~dirty /\ filename # "" /\ ~careless /\ ~Backs(f)
    BY <1>3
  <2>2. PICK p : p = saved[filename]
    OBVIOUS
  <2>3. filename \in Projects /\ Reads(T, d, p) /\ p.libs = libs /\ p.settings = settings
    BY <1>1, <2>1, <2>2 DEF EditorInv, CleanInv
  <2>4. SameFiles(T, d, e)
    <3> SUFFICES ASSUME NEW l \in Kinds, NEW m \in 1..Len(T[l]), T[l][m].file # ""
                 PROVE  e[T[l][m].file] = d[T[l][m].file]
      BY DEF SameFiles
    <3>1. T[l] \in Seq(Source)
      BY <1>2 DEF TabsTyped
    <3>2. m \in DOMAIN T[l] /\ T[l][m] \in Source
      BY <3>1, DomainIs
    <3>3. T[l][m].file # f
      BY <1>1, <2>1, <3>2 DEF Backs
    <3>4. T[l][m].file \in Files
      BY <3>2 DEF Source, FileNames
    <3> QED BY <1>16, <3>3, <3>4
  <2>5. Reads(U, e, p)
    BY <1>2, <1>13, <1>17, <2>3, <2>4, ReadsSame
  <2> QED BY <1>3, <1>11, <2>2, <2>3, <2>5
<1> QED BY <1>18, <1>19, <1>20, <1>21 DEF EditorInv

LEMMA SelectLibsKept ==
  ASSUME EditorInv, SelectLibs
  PROVE  EditorInv'
<1>1. TabsTyped(tabs') /\ (~careless' => Careful(tabs'))
  BY DEF EditorInv, EditorTypes, CarefulInv, SelectLibs
<1>2. <<>> \in Selections /\ <<"FC9">> \in Selections /\ <<"FC12", "FC9">> \in Selections
  BY DEF Selections
<1>3. libs' \in Selections
  BY <1>2 DEF SelectLibs
<1>4. Touches
  BY <1>3 DEF SelectLibs, SomethingChanged, EditorInv, EditorTypes, Touches
<1> QED BY <1>1, <1>4, TouchedKept

LEMMA ConfigureKept ==
  ASSUME EditorInv, Configure
  PROVE  EditorInv'
<1>1. TabsTyped(tabs') /\ (~careless' => Careful(tabs'))
  BY DEF EditorInv, EditorTypes, CarefulInv, Configure
<1>2. settings' \in Settings
  BY DEF Configure, Settings
<1>3. Touches
  BY <1>2 DEF Configure, SomethingChanged, EditorInv, EditorTypes, Touches
<1> QED BY <1>1, <1>3, TouchedKept

LEMMA SaveAsKept ==
  ASSUME EditorInv, SaveAs
  PROVE  EditorInv'
<1>1. PICK name \in Projects : SaveProjectFile(name)
  BY DEF SaveAs
<1>2. careless' \in BOOLEAN /\ (careless => careless') /\ name \in Files \cup Projects
  BY DEF SaveAs, EditorInv, EditorTypes
<1>3. name \in Files => careless'
  BY FilesAssumption
<1> QED BY <1>1, <1>2, <1>3, SavedKept

\* Only an ad-hoc project is written over a source.
LEMMA SaveAgainKept ==
  ASSUME EditorInv, SaveAgain
  PROVE  EditorInv'
<1>1. filename # "" /\ SaveProjectFile(filename) /\ careless' = (careless \/ adHoc)
  BY DEF SaveAgain, Careless
<1>2. /\ filename \in Files \cup Projects \cup {""} /\ careless \in BOOLEAN /\ adHoc \in BOOLEAN
      /\ filename \in Files => adHoc \/ careless
  BY DEF EditorInv, EditorTypes, NameInv
<1>3. PICK name \in Files \cup Projects : name = filename
  BY <1>1, <1>2
<1>4. careless' \in BOOLEAN /\ (careless => careless')
  BY <1>1, <1>2
<1>5. name \in Files => careless'
  BY <1>1, <1>2, <1>3
<1> QED BY <1>1, <1>3, <1>4, <1>5, SavedKept

LEMMA LoadKept ==
  ASSUME EditorInv, NEW answer, Load(answer)
  PROVE  EditorInv'
<1>1. UNCHANGED <<disk, saved, failures>>
  BY DEF Load
<1>2. (\E name \in Projects : LoadProject(name)) \/ (\E f \in Files : LoadPlainAwlSource(f))
  BY DEF Load
<1> QED BY <1>1, <1>2, LoadProjectKept, LoadPlainKept

-----------------------------------------------------------------------------
(* The theorem.                                                            *)

LEMMA EditorUndisturbed ==
  ASSUME EditorInv, UNCHANGED editorVars
  PROVE  EditorInv'
<1>1. /\ tabs' = tabs /\ disk' = disk /\ saved' = saved /\ libs' = libs /\ settings' = settings
      /\ dirty' = dirty /\ filename' = filename /\ adHoc' = adHoc /\ careless' = careless
  BY DEF editorVars, shown
<1>2. EditorTypes'
  BY <1>1 DEF EditorInv, EditorTypes
<1>3. CarefulInv' /\ NameInv'
  BY <1>1 DEF EditorInv, CarefulInv, NameInv
<1>4. CleanInv'
  BY <1>1 DEF EditorInv, CleanInv
<1> QED BY <1>2, <1>3, <1>4 DEF EditorInv

LEMMA EditorSteps == EditorInv /\ [EditorNext]_editorVars => EditorInv'
<1> SUFFICES ASSUME EditorInv, [EditorNext]_editorVars PROVE EditorInv'
  OBVIOUS
<1>1. ASSUME NEW k \in Kinds, AddTab(k) PROVE EditorInv'
  BY <1>1, AddTabKept
<1>2. ASSUME NEW k \in Kinds, NEW f \in Files, NEW integrate \in BOOLEAN, Import(k, f, integrate) PROVE EditorInv'
  BY <1>2, ImportKept
<1>3. ASSUME NEW k \in Kinds, NEW i \in DOMAIN tabs[k],
             NEW text \in Text \ {IF k = "sym" THEN "junk" ELSE "foreign"}, Edit(k, i, text)
      PROVE  EditorInv'
  BY <1>3, EditKept
<1>4. ASSUME NEW k \in Kinds, NEW i \in DOMAIN tabs[k], DeleteTab(k, i) PROVE EditorInv'
  BY <1>4, DeleteTabKept
<1>5. ASSUME NEW k \in Kinds, NEW i \in DOMAIN tabs[k], Integrate(k, i) PROVE EditorInv'
  BY <1>5, IntegrateKept
<1>6. ASSUME NEW k \in Kinds, NEW i \in DOMAIN tabs[k], NEW j \in DOMAIN tabs[k], MoveTab(k, i, j)
      PROVE  EditorInv'
  BY <1>6, MoveTabKept
<1>7. ASSUME NEW k \in Kinds, NEW i \in DOMAIN tabs[k], NEW f \in Files, Export(k, i, f) PROVE EditorInv'
  BY <1>7, ExportKept
<1>8. ASSUME NEW i \in DOMAIN tabs["sym"], EditRefused(i) PROVE EditorInv'
  BY <1>8, EditRefusedKept
<1>9. ASSUME NEW i \in DOMAIN tabs["sym"], PasteSymbol(i) PROVE EditorInv'
  BY <1>9, PasteSymbolKept
<1>10. CASE SelectLibs
  BY <1>10, SelectLibsKept
<1>11. CASE Configure
  BY <1>11, ConfigureKept
<1>12. CASE SaveAs
  BY <1>12, SaveAsKept
<1>13. CASE SaveAgain
  BY <1>13, SaveAgainKept
<1>14. ASSUME NEW answer, Load(answer) PROVE EditorInv'
  BY <1>14, LoadKept
<1>15. ASSUME NEW answer, Restart(answer) PROVE EditorInv'
  BY <1>15, RestartKept
<1>16. CASE UNCHANGED editorVars
  BY <1>16, EditorUndisturbed
<1>17. ASSUME NEW k \in Kinds,
              \/ AddTab(k)
              \/ \E f \in Files : \E integrate \in BOOLEAN : Import(k, f, integrate)
              \/ \E i \in DOMAIN tabs[k] :
                   \/ \E text \in Text \ {IF k = "sym" THEN "junk" ELSE "foreign"} : Edit(k, i, text)
                   \/ DeleteTab(k, i) \/ Integrate(k, i)
                   \/ \E j \in DOMAIN tabs[k] : MoveTab(k, i, j)
                   \/ \E f \in Files : Export(k, i, f)
       PROVE  EditorInv'
  <2>1. CASE \E f \in Files : \E integrate \in BOOLEAN : Import(k, f, integrate)
    BY <1>2, <2>1, Zenon
  <2>2. ASSUME NEW i \in DOMAIN tabs[k],
               \/ \E text \in Text \ {IF k = "sym" THEN "junk" ELSE "foreign"} : Edit(k, i, text)
               \/ DeleteTab(k, i) \/ Integrate(k, i)
               \/ \E j \in DOMAIN tabs[k] : MoveTab(k, i, j)
               \/ \E f \in Files : Export(k, i, f)
        PROVE  EditorInv'
    BY <1>3, <1>4, <1>5, <1>6, <1>7, <2>2, Zenon
  <2> QED BY <1>1, <1>17, <2>1, <2>2, Zenon
<1>18. CASE \E i \in DOMAIN tabs["sym"] : EditRefused(i) \/ PasteSymbol(i)
  BY <1>8, <1>9, <1>18, Zenon
<1>19. CASE \E answer \in {"discard", "none"} : Load(answer) \/ Restart(answer)
  BY <1>14, <1>15, <1>19, Zenon
<1> QED BY <1>10, <1>11, <1>12, <1>13, <1>16, <1>17, <1>18, <1>19, Zenon DEF EditorNext

\* A project without the mark of unsaved changes is on disk as it is shown, however
\* many tabs, files and projects there are and however often saving failed in
\* between: loading its file shows the same sources, libraries and settings.
THEOREM ProjectIsSaved == EditorSpec => []CleanMeansSaved
<1>1. EditorInit => EditorInv
  BY EditorStarts
<1>2. EditorInv /\ [EditorNext]_editorVars => EditorInv'
  BY EditorSteps
<1>3. EditorInv => CleanMeansSaved
  BY CleanInvIsCleanMeansSaved DEF EditorInv
<1> QED BY <1>1, <1>2, <1>3, PTL DEF EditorSpec

-----------------------------------------------------------------------------
(* The downloaded program: its raw blocks, blocks and references.          *)

\* A record of the program, whatever its fields hold.
Fields == {"pending", "libs", "cpu", "refs", "dead", "listed", "ok", "crash"}
IsProgram(z) == z = [f \in Fields |-> z[f]]

\* The references to the first M managers, of raw blocks and of blocks of a kind.
Reference(of, kind, M) == [src : 1..M, of : {of}, kind : {kind}, at : Nat]

\* The raw blocks of a kind, and their references.
Place(z, kind) == 1..Len(z.pending[kind])
Raw(z, kind, i) == z.pending[kind][i].ref
IsList(p) == Len(p) \in Nat /\ p = [i \in 1..Len(p) |-> p[i]]

Shaped(z) ==
    /\ IsProgram(z) /\ z.ok \in BOOLEAN
    /\ z.pending = [k \in BlockKinds |-> z.pending[k]]
    /\ IsList(z.libs)
    /\ \A k \in BlockKinds : IsList(z.pending[k])

Typed(z, M) ==
    /\ \A k \in BlockKinds : \A i \in Place(z, k) : Raw(z, k, i) \in Reference("raw", k, M)
    /\ \A n \in DOMAIN z.cpu : z.cpu[n].ref = NoRef \/ z.cpu[n].ref \in Reference("block", n[1], M)
    /\ \A r \in z.refs : \E k \in BlockKinds : r \in Reference("raw", k, M) \/ r \in Reference("block", k, M)
    /\ z.dead \subseteq 1..M /\ z.listed \subseteq 1..M

\* A block of a source has a reference.
BlocksBacked(z) == \A n \in DOMAIN z.cpu : z.cpu[n].ref = NoRef \/ z.cpu[n].ref \in z.refs

\* A reference is that of a raw block, or that of a block of the CPU or of one
\* that was given up before it got there.
OfRaw(z, r) == \E k \in BlockKinds : \E i \in Place(z, k) : r = Raw(z, k, i)
OfBlock(z, r) == \E n \in DOMAIN z.cpu : r = z.cpu[n].ref
GivenUp(z, r) == \E k \in BlockKinds : \E i \in Place(z, k) : r = BlockRef(Raw(z, k, i))
Held(z) == \A r \in z.refs : OfRaw(z, r) \/ OfBlock(z, r) \/ GivenUp(z, r)

\* A raw block has its reference or has passed it on, the first ones first.
PassedOn(z) == \A k \in BlockKinds : \A i \in Place(z, k) :
    /\ Raw(z, k, i) \in z.refs <=> BlockRef(Raw(z, k, i)) \notin z.refs
    /\ \A j \in 1..i - 1 : Raw(z, k, i) \notin z.refs => Raw(z, k, j) \notin z.refs

\* No two blocks have the same reference; one that was passed on is where the
\* block belongs.
Distinct(z) ==
    /\ \A k \in BlockKinds : \A i, j \in Place(z, k) : Raw(z, k, i) = Raw(z, k, j) => i = j
    /\ \A n, l \in DOMAIN z.cpu : z.cpu[n].ref = z.cpu[l].ref => n = l \/ z.cpu[n].ref = NoRef
    /\ \A k \in BlockKinds : \A i \in Place(z, k) : \A n \in DOMAIN z.cpu :
          z.cpu[n].ref = BlockRef(Raw(z, k, i)) => n = <<k, z.pending[k][i].nr>>

\* The list agrees with the references: X are the managers that need not be
\* listed, E those of sources without blocks.
Told(z, X, E) ==
    /\ \A m \in z.listed : m \notin z.dead /\ (m \in E \/ HasReferences(z.refs, m))
    /\ \A r \in z.refs : r.src \notin z.dead /\ (r.src \in X \/ r.src \in z.listed)

Good(z, M, X, E) ==
    Shaped(z) /\ Typed(z, M) /\ BlocksBacked(z) /\ Held(z) /\ PassedOn(z) /\ Distinct(z) /\ Told(z, X, E)

-----------------------------------------------------------------------------
(* References, and what the operations do to the fields of the program.    *)

LEMMA References ==
  ASSUME NEW M \in Nat, NEW k \in BlockKinds, NEW r \in Reference("raw", k, M)
  PROVE  /\ BlockRef(r) \in Reference("block", k, M)
         /\ BlockRef(r).src = r.src /\ BlockRef(r) # r /\ BlockRef(r) # NoRef /\ r # NoRef
<1>1. BlockRef(r) = [src |-> r.src, of |-> "block", kind |-> k, at |-> r.at]
  BY DEF BlockRef, Reference
<1>2. r.src \in 1..M /\ r.of = "raw" /\ r.at \in Nat
  BY DEF Reference
<1>3. NoRef.of = "library"
  BY DEF NoRef
<1> QED BY <1>1, <1>2, <1>3 DEF Reference

LEMMA SameBlock ==
  ASSUME NEW M \in Nat, NEW k, NEW l, NEW r \in Reference("raw", k, M), NEW q \in Reference("raw", l, M),
         BlockRef(r) = BlockRef(q)
  PROVE  r = q
<1>1. r = [src |-> r.src, of |-> "raw", kind |-> k, at |-> r.at]
  BY DEF Reference
<1>2. q = [src |-> q.src, of |-> "raw", kind |-> l, at |-> q.at]
  BY DEF Reference
<1>3. BlockRef(r).src = r.src /\ BlockRef(r).kind = k /\ BlockRef(r).at = r.at
  BY <1>1 DEF BlockRef
<1>4. BlockRef(q).src = q.src /\ BlockRef(q).kind = l /\ BlockRef(q).at = q.at
  BY <1>2 DEF BlockRef
<1>5. r.src = q.src /\ k = l /\ r.at = q.at
  BY <1>3, <1>4
<1> QED BY <1>1, <1>2, <1>5

LEMMA Unlike ==
  ASSUME NEW M \in Nat, NEW k, NEW l
  PROVE  /\ Reference("raw", k, M) \cap Reference("block", l, M) = {}
         /\ NoRef \notin Reference("raw", k, M) \cup Reference("block", k, M)
         /\ \A r \in Reference("block", k, M) : r \in Reference("block", l, M) => k = l
         /\ \A r \in Reference("raw", k, M) : r \in Reference("raw", l, M) => k = l
<1>1. \A r \in Reference("raw", k, M) : r.of = "raw" /\ r.kind = k
  BY DEF Reference
<1>2. \A r \in Reference("block", k, M) : r.of = "block" /\ r.kind = k
  BY DEF Reference
<1>3. \A r \in Reference("block", l, M) : r.of = "block" /\ r.kind = l
  BY DEF Reference
<1>4. \A r \in Reference("raw", l, M) : r.kind = l
  BY DEF Reference
<1>5. NoRef.of = "library"
  BY DEF NoRef
<1> QED BY <1>1, <1>2, <1>3, <1>4, <1>5

\* y is z but for the references and the list, or for the blocks.
SameBlocks(y, z) == IsProgram(y) /\ y.pending = z.pending /\ y.libs = z.libs /\ y.cpu = z.cpu
SameRefs(y, z) == y.refs = z.refs /\ y.dead = z.dead /\ y.listed = z.listed
SameState(y, z) == y.ok = z.ok /\ y.crash = z.crash

LEMMA Made ==
  ASSUME NEW z, IsProgram(z), NEW r
  PROVE  LET y == MakeRef(z, r)
         IN  /\ SameBlocks(y, z) /\ SameState(y, z) /\ y.refs = z.refs \cup {r}
             /\ y.dead = z.dead /\ y.listed = z.listed
BY DEF MakeRef, IsProgram, Fields, SameBlocks, SameState

\* y is z with the reference given back.
GivenBack(y, z, r) ==
    /\ SameBlocks(y, z) /\ SameState(y, z) /\ y.refs = z.refs \ {r}
    /\ HasReferences(y.refs, r.src) => y.dead = z.dead /\ y.listed = z.listed
    /\ ~HasReferences(y.refs, r.src) => y.dead = z.dead \cup {r.src} /\ y.listed = z.listed \ {r.src}

LEMMA Destroyed ==
  ASSUME NEW z, IsProgram(z), NEW r
  PROVE  GivenBack(DestroyRef(z, r), z, r)
<1> DEFINE x == [z EXCEPT !.refs = @ \ {r}]
           w == AllRefsDestroyed(x, r.src)
<1>1. /\ SameBlocks(x, z) /\ SameState(x, z) /\ x.refs = z.refs \ {r}
      /\ x.dead = z.dead /\ x.listed = z.listed
  BY DEF IsProgram, Fields, SameBlocks, SameState
<1>2. DestroyRef(z, r) = IF HasReferences(x.refs, r.src) THEN x ELSE w
  BY DEF DestroyRef
<1> HIDE DEF x
<1>3. /\ SameBlocks(w, x) /\ SameState(w, x) /\ w.refs = x.refs
      /\ w.dead = x.dead \cup {r.src} /\ w.listed = x.listed \ {r.src}
  BY <1>1 DEF AllRefsDestroyed, IsProgram, Fields, SameBlocks, SameState
<1> HIDE DEF w
<1>4. CASE HasReferences(x.refs, r.src)
  <2>1. GivenBack(x, z, r)
    BY <1>1, <1>4 DEF GivenBack
  <2> QED BY <2>1, <1>2, <1>4
<1>5. CASE ~HasReferences(x.refs, r.src)
  <2>1. SameBlocks(w, z) /\ SameState(w, z)
    BY <1>1, <1>3 DEF SameBlocks, SameState
  <2>2. GivenBack(w, z, r)
    BY <2>1, <1>1, <1>3, <1>5 DEF GivenBack
  <2> QED BY <2>2, <1>2, <1>5
<1> QED BY <1>4, <1>5

\* The manager of a raw block has a reference while the block inherits its own.
LEMMA Inherited ==
  ASSUME NEW z, IsProgram(z), NEW r, BlockRef(r).src = r.src, BlockRef(r) # r
  PROVE  LET y == InheritRef(z, r)
         IN  /\ SameBlocks(y, z) /\ SameState(y, z) /\ y.refs = (z.refs \cup {BlockRef(r)}) \ {r}
             /\ y.dead = z.dead /\ y.listed = z.listed
<1> DEFINE b == BlockRef(r)
           x == MakeRef(z, b)
           y == DestroyRef(x, r)
<1>1. /\ SameBlocks(x, z) /\ SameState(x, z) /\ x.refs = z.refs \cup {b}
      /\ x.dead = z.dead /\ x.listed = z.listed
  BY Made
<1> HIDE DEF b, x
<1>2. IsProgram(x)
  BY <1>1 DEF SameBlocks
<1>3. /\ SameBlocks(y, x) /\ SameState(y, x) /\ y.refs = x.refs \ {r}
      /\ HasReferences(y.refs, r.src) => y.dead = x.dead /\ y.listed = x.listed
  BY <1>2, Destroyed DEF GivenBack
<1> HIDE DEF y
<1>4. b.src = r.src /\ b # r
  BY DEF b
<1>5. HasReferences(y.refs, r.src)
  BY <1>1, <1>3, <1>4 DEF HasReferences
<1>6. SameBlocks(y, z) /\ SameState(y, z)
  BY <1>1, <1>3 DEF SameBlocks, SameState
<1>7. /\ SameBlocks(y, z) /\ SameState(y, z) /\ y.refs = (z.refs \cup {b}) \ {r}
      /\ y.dead = z.dead /\ y.listed = z.listed
  BY <1>1, <1>3, <1>5, <1>6
<1> QED BY <1>7 DEF y, x, b, InheritRef

LEMMA Placed ==
  ASSUME NEW z, IsProgram(z), NEW name, NEW block
  PROVE  LET y == With(z, name, block)
         IN  /\ IsProgram(y) /\ SameRefs(y, z) /\ SameState(y, z)
             /\ y.pending = z.pending /\ y.libs = z.libs
             /\ DOMAIN y.cpu = DOMAIN z.cpu \cup {name}
             /\ y.cpu[name] = block /\ \A n \in DOMAIN z.cpu \ {name} : y.cpu[n] = z.cpu[n]
<1> DEFINE c == [n \in DOMAIN z.cpu \cup {name} |-> IF n = name THEN block ELSE z.cpu[n]]
           y == [z EXCEPT !.cpu = c]
<1>1. With(z, name, block) = y
  BY DEF With
<1>2. /\ DOMAIN c = DOMAIN z.cpu \cup {name}
      /\ c[name] = block /\ \A n \in DOMAIN z.cpu \ {name} : c[n] = z.cpu[n]
  OBVIOUS
<1> HIDE DEF c
<1>3. /\ IsProgram(y) /\ SameRefs(y, z) /\ SameState(y, z)
      /\ y.pending = z.pending /\ y.libs = z.libs /\ y.cpu = c
  BY DEF IsProgram, Fields, SameRefs, SameState
<1> QED BY <1>1, <1>2, <1>3

LEMMA Stopped ==
  ASSUME NEW z, IsProgram(z)
  PROVE  /\ SameBlocks(Fail(z), z) /\ SameRefs(Fail(z), z) /\ Fail(z).ok = FALSE
         /\ SameBlocks(Crash(z), z) /\ SameRefs(Crash(z), z) /\ Crash(z).ok = FALSE
<1>1. SameBlocks(Fail(z), z) /\ SameRefs(Fail(z), z) /\ Fail(z).ok = FALSE
  BY DEF Fail, IsProgram, Fields, SameBlocks, SameRefs
<1>2. SameBlocks(Crash(z), z) /\ SameRefs(Crash(z), z) /\ Crash(z).ok = FALSE
  BY DEF Crash, IsProgram, Fields, SameBlocks, SameRefs
<1> QED BY <1>1, <1>2

\* y is z without the library blocks, without the raw blocks of a kind, with other
\* blocks, and with other raw blocks and references.
NoLibs(z) == [z EXCEPT !.libs = <<>>]
NoRaws(z, k) == [z EXCEPT !.pending[k] = <<>>]
WithBlocks(z, c) == [z EXCEPT !.cpu = c]
WithRaws(z, p, rs) == [z EXCEPT !.pending = p, !.refs = rs]

OnlyLibs(y, z) ==
    /\ IsProgram(y) /\ SameRefs(y, z) /\ SameState(y, z)
    /\ y.pending = z.pending /\ y.libs = <<>> /\ y.cpu = z.cpu
OnlyRaws(y, z, k) ==
    /\ IsProgram(y) /\ SameRefs(y, z) /\ SameState(y, z)
    /\ y.pending = [z.pending EXCEPT ![k] = <<>>] /\ y.libs = z.libs /\ y.cpu = z.cpu
OnlyBlocks(y, z, c) ==
    /\ IsProgram(y) /\ SameRefs(y, z) /\ SameState(y, z)
    /\ y.pending = z.pending /\ y.libs = z.libs /\ y.cpu = c
RawsAndRefs(y, z, p, rs) ==
    /\ IsProgram(y) /\ SameState(y, z) /\ y.dead = z.dead /\ y.listed = z.listed
    /\ y.pending = p /\ y.libs = z.libs /\ y.cpu = z.cpu /\ y.refs = rs

LEMMA FieldsReplaced ==
  ASSUME NEW z, IsProgram(z)
  PROVE  /\ OnlyLibs(NoLibs(z), z)
         /\ \A k : OnlyRaws(NoRaws(z, k), z, k)
         /\ \A c : OnlyBlocks(WithBlocks(z, c), z, c)
         /\ \A p, rs : RawsAndRefs(WithRaws(z, p, rs), z, p, rs)
<1>1. OnlyLibs(NoLibs(z), z)
  BY DEF OnlyLibs, NoLibs, IsProgram, Fields, SameRefs, SameState
<1>2. ASSUME NEW k PROVE OnlyRaws(NoRaws(z, k), z, k)
  BY DEF OnlyRaws, NoRaws, IsProgram, Fields, SameRefs, SameState
<1>3. ASSUME NEW c PROVE OnlyBlocks(WithBlocks(z, c), z, c)
  BY DEF OnlyBlocks, WithBlocks, IsProgram, Fields, SameRefs, SameState
<1>4. ASSUME NEW p, NEW rs PROVE RawsAndRefs(WithRaws(z, p, rs), z, p, rs)
  BY DEF RawsAndRefs, WithRaws, IsProgram, Fields, SameState
<1> QED BY <1>1, <1>2, <1>3, <1>4

-----------------------------------------------------------------------------
(* Every operation of a build leaves the references and the list in order. *)

LEMMA SameGood ==
  ASSUME NEW M, NEW X, NEW E, NEW z, Good(z, M, X, E),
         NEW y, IsProgram(y), y.ok \in BOOLEAN, SameRefs(y, z),
         y.pending = z.pending, IsList(y.libs),
         DOMAIN y.cpu = DOMAIN z.cpu, \A n \in DOMAIN z.cpu : y.cpu[n].ref = z.cpu[n].ref
  PROVE  Good(y, M, X, E)
<1>0. y.refs = z.refs /\ y.dead = z.dead /\ y.listed = z.listed
  BY DEF SameRefs
<1>1. Shaped(y)
  BY DEF Good, Shaped
<1>2. Typed(y, M)
  BY <1>0 DEF Good, Typed, Place, Raw
<1>3. BlocksBacked(y)
  BY <1>0 DEF Good, BlocksBacked
<1>4. Held(y)
  BY <1>0 DEF Good, Held, OfRaw, OfBlock, GivenUp, Place, Raw
<1>5. PassedOn(y)
  BY <1>0 DEF Good, PassedOn, Place, Raw
<1>6. Distinct(y)
  BY DEF Good, Distinct, Place, Raw
<1>7. Told(y, X, E)
  BY <1>0 DEF Good, Told
<1> QED BY <1>1, <1>2, <1>3, <1>4, <1>5, <1>6, <1>7 DEF Good

LEMMA StoppedGood ==
  ASSUME NEW M, NEW X, NEW E, NEW z, Good(z, M, X, E)
  PROVE  Good(Fail(z), M, X, E) /\ Good(Crash(z), M, X, E)
<1>0. IsProgram(z) /\ IsList(z.libs)
  BY DEF Good, Shaped
<1>1. /\ SameBlocks(Fail(z), z) /\ SameRefs(Fail(z), z) /\ Fail(z).ok = FALSE
      /\ SameBlocks(Crash(z), z) /\ SameRefs(Crash(z), z) /\ Crash(z).ok = FALSE
  BY <1>0, Stopped
<1>2. ASSUME NEW y, SameBlocks(y, z), SameRefs(y, z), y.ok = FALSE PROVE Good(y, M, X, E)
  <2>1. IsProgram(y) /\ y.pending = z.pending /\ y.cpu = z.cpu /\ IsList(y.libs) /\ y.ok \in BOOLEAN
    BY <1>0, <1>2 DEF SameBlocks
  <2> QED BY <2>1, <1>2, SameGood
<1> QED BY <1>1, <1>2

\* What the reference of a raw block has to do with the others.
LEMMA RawFacts ==
  ASSUME NEW M \in Nat, NEW X, NEW E, NEW z, Good(z, M, X, E),
         NEW k \in BlockKinds, NEW i \in Place(z, k)
  PROVE  /\ Raw(z, k, i) \in Reference("raw", k, M)
         /\ BlockRef(Raw(z, k, i)) \in Reference("block", k, M)
         /\ BlockRef(Raw(z, k, i)).src = Raw(z, k, i).src
         /\ BlockRef(Raw(z, k, i)) # NoRef
         /\ \A l \in BlockKinds : \A j \in Place(z, l) :
               /\ Raw(z, l, j) # BlockRef(Raw(z, k, i))
               /\ Raw(z, l, j) = Raw(z, k, i) => l = k /\ j = i
               /\ BlockRef(Raw(z, l, j)) = BlockRef(Raw(z, k, i)) => l = k /\ j = i
         /\ \A n \in DOMAIN z.cpu : z.cpu[n].ref # Raw(z, k, i)
<1>1. \A l \in BlockKinds : \A j \in Place(z, l) : Raw(z, l, j) \in Reference("raw", l, M)
  BY DEF Good, Typed
<1> DEFINE r == Raw(z, k, i)
<1>2. r \in Reference("raw", k, M)
  BY <1>1
<1> HIDE DEF r
<1>3. BlockRef(r) \in Reference("block", k, M) /\ BlockRef(r).src = r.src /\ BlockRef(r) # NoRef
  BY <1>2, References
<1>4. ASSUME NEW l \in BlockKinds, NEW j \in Place(z, l)
      PROVE  /\ Raw(z, l, j) # BlockRef(r)
             /\ Raw(z, l, j) = r => l = k /\ j = i
             /\ BlockRef(Raw(z, l, j)) = BlockRef(r) => l = k /\ j = i
  <2> DEFINE q == Raw(z, l, j)
  <2>1. q \in Reference("raw", l, M)
    BY <1>1
  <2>2. q = r => l = k /\ j = i
    <3>1. SUFFICES ASSUME q = r PROVE l = k /\ j = i
      OBVIOUS
    <3>2. r \in Reference("raw", l, M)
      BY <2>1, <3>1
    <3>3. l = k
      BY <1>2, <3>2, Unlike
    <3> QED BY <3>1, <3>3 DEF Good, Distinct, r
  <2> HIDE DEF q
  <2>3. q # BlockRef(r)
    BY <2>1, <1>3, Unlike
  <2>4. BlockRef(q) = BlockRef(r) => q = r
    BY <2>1, <1>2, SameBlock
  <2> QED BY <2>2, <2>3, <2>4 DEF q
<1>5. ASSUME NEW n \in DOMAIN z.cpu PROVE z.cpu[n].ref # r
  <2>1. z.cpu[n].ref = NoRef \/ z.cpu[n].ref \in Reference("block", n[1], M)
    BY DEF Good, Typed
  <2> QED BY <2>1, <1>2, Unlike
<1> QED BY <1>2, <1>3, <1>4, <1>5 DEF r

\* A block inherits the reference of the first raw block that has one.
LEMMA InheritGood ==
  ASSUME NEW M \in Nat, NEW X, NEW E, NEW z, Good(z, M, X, E),
         NEW k \in BlockKinds, NEW i \in Place(z, k), Raw(z, k, i) \in z.refs,
         \A j \in 1..i - 1 : Raw(z, k, j) \notin z.refs,
         NEW y, SameBlocks(y, z), SameState(y, z), y.dead = z.dead, y.listed = z.listed,
         y.refs = (z.refs \cup {BlockRef(Raw(z, k, i))}) \ {Raw(z, k, i)}
  PROVE  Good(y, M, X, E)
<1> DEFINE r == Raw(z, k, i)
           b == BlockRef(r)
<1>0. /\ r \in Reference("raw", k, M) /\ b \in Reference("block", k, M) /\ b.src = r.src /\ b # NoRef
      /\ \A l \in BlockKinds : \A j \in Place(z, l) :
            /\ Raw(z, l, j) # b
            /\ Raw(z, l, j) = r => l = k /\ j = i
            /\ BlockRef(Raw(z, l, j)) = b => l = k /\ j = i
            /\ BlockRef(Raw(z, l, j)) # r
      /\ \A n \in DOMAIN z.cpu : z.cpu[n].ref # r
  <2>1. ASSUME NEW l \in BlockKinds, NEW j \in Place(z, l) PROVE BlockRef(Raw(z, l, j)) # r
    <3>1. BlockRef(Raw(z, l, j)) \in Reference("block", l, M)
      BY RawFacts
    <3>2. r \in Reference("raw", k, M)
      BY RawFacts
    <3> QED BY <3>1, <3>2, Unlike
  <2> QED BY <2>1, RawFacts
<1>1. /\ y.refs = (z.refs \cup {b}) \ {r} /\ r \in z.refs
      /\ \A j \in 1..i - 1 : Raw(z, k, j) \notin z.refs
  OBVIOUS
<1>2. IsProgram(y) /\ y.pending = z.pending /\ y.libs = z.libs /\ y.cpu = z.cpu /\ y.ok = z.ok
  BY DEF SameBlocks, SameState
<1>3. /\ \A l : Place(y, l) = Place(z, l)
      /\ \A l, j : Raw(y, l, j) = Raw(z, l, j)
  BY <1>2 DEF Place, Raw
<1>4. \A q : (OfRaw(y, q) <=> OfRaw(z, q)) /\ (OfBlock(y, q) <=> OfBlock(z, q)) /\ (GivenUp(y, q) <=> GivenUp(z, q))
  BY <1>2, <1>3 DEF OfRaw, OfBlock, GivenUp
<1>5. GivenUp(z, b)
  BY DEF GivenUp
<1> HIDE DEF r, b
<1>6. Shaped(y)
  BY <1>2 DEF Good, Shaped
<1>7. Typed(y, M)
  BY <1>0, <1>1, <1>2, <1>3 DEF Good, Typed
<1>8. BlocksBacked(y)
  BY <1>0, <1>1, <1>2 DEF Good, BlocksBacked
<1>9. Held(y)
  BY <1>1, <1>4, <1>5 DEF Good, Held
<1>10. PassedOn(y)
  <2> SUFFICES ASSUME NEW l \in BlockKinds, NEW j \in Place(z, l)
               PROVE  /\ Raw(z, l, j) \in y.refs <=> BlockRef(Raw(z, l, j)) \notin y.refs
                      /\ \A h \in 1..j - 1 : Raw(z, l, j) \notin y.refs => Raw(z, l, h) \notin y.refs
    BY <1>3 DEF PassedOn
  <2> DEFINE q == Raw(z, l, j)
  <2>1. /\ q \in z.refs <=> BlockRef(q) \notin z.refs
        /\ \A h \in 1..j - 1 : q \notin z.refs => Raw(z, l, h) \notin z.refs
    BY DEF Good, PassedOn
  <2>2. ASSUME NEW h \in 1..j - 1 PROVE h \in Place(z, l)
    BY DEF Place
  <2>3. /\ q # b /\ (q = r => l = k /\ j = i) /\ BlockRef(q) # r
        /\ BlockRef(q) = b => l = k /\ j = i
        /\ \A h \in 1..j - 1 : Raw(z, l, h) # b
    BY <1>0, <2>2
  <2>4. CASE q = r
    <3>1. q \notin y.refs /\ BlockRef(q) \in y.refs
      BY <1>1, <2>3, <2>4 DEF b
    <3>2. ASSUME NEW h \in 1..j - 1 PROVE Raw(z, l, h) \notin y.refs
      BY <1>1, <2>3, <2>4
    <3> QED BY <3>1, <3>2
  <2>5. CASE q # r
    <3>1. BlockRef(q) # b
      BY <2>3, <2>5 DEF r
    <3>2. q \in y.refs <=> q \in z.refs
      BY <1>1, <2>3, <2>5
    <3>3. BlockRef(q) \in y.refs <=> BlockRef(q) \in z.refs
      BY <1>1, <2>3, <3>1
    <3>4. ASSUME NEW h \in 1..j - 1, q \notin y.refs PROVE Raw(z, l, h) \notin y.refs
      BY <1>1, <2>1, <2>3, <3>2, <3>4
    <3> QED BY <2>1, <3>2, <3>3, <3>4
  <2> QED BY <2>4, <2>5
<1>11. Distinct(y)
  BY <1>2, <1>3 DEF Good, Distinct
<1>12. Told(y, X, E)
  <2>1. /\ \A m \in z.listed : m \notin z.dead /\ (m \in E \/ HasReferences(z.refs, m))
        /\ \A q \in z.refs : q.src \notin z.dead /\ (q.src \in X \/ q.src \in z.listed)
    BY DEF Good, Told
  <2>2. ASSUME NEW m, HasReferences(z.refs, m) PROVE HasReferences(y.refs, m)
    <3>1. PICK q \in z.refs : q.src = m
      BY <2>2 DEF HasReferences
    <3>2. b \in y.refs
      BY <1>0, <1>1 DEF b
    <3>3. CASE q = r
      BY <1>0, <3>1, <3>2, <3>3 DEF HasReferences
    <3>4. CASE q # r
      <4>1. q \in y.refs
        BY <1>1, <3>1, <3>4
      <4> QED BY <3>1, <4>1 DEF HasReferences
    <3> QED BY <3>3, <3>4
  <2>3. ASSUME NEW q \in y.refs PROVE q.src \notin z.dead /\ (q.src \in X \/ q.src \in z.listed)
    BY <1>0, <1>1, <2>1
  <2> QED BY <2>1, <2>2, <2>3 DEF Told
<1> QED BY <1>6, <1>7, <1>8, <1>9, <1>10, <1>11, <1>12 DEF Good

\* The block that was made from raw block i takes the place of the one of its
\* name, which is none of those made from the raw blocks of this kind.
Translated(z, k, i) == \E n \in DOMAIN z.cpu : z.cpu[n].ref = BlockRef(Raw(z, k, i))

OthersKept(y, z, k) == \A n \in DOMAIN z.cpu : n[1] # k => n \in DOMAIN y.cpu /\ y.cpu[n] = z.cpu[n]

\* y is z with the block at its place, and without the reference of the old one.
PutAt(y, z, name, b) ==
    /\ IsProgram(y) /\ y.pending = z.pending /\ y.libs = z.libs /\ y.ok = z.ok
    /\ DOMAIN y.cpu = DOMAIN z.cpu \cup {name} /\ y.cpu[name].ref = b
    /\ \A n \in DOMAIN z.cpu \ {name} : y.cpu[n] = z.cpu[n]
    /\ name \notin DOMAIN z.cpu => SameRefs(y, z)
    /\ name \in DOMAIN z.cpu =>
          /\ y.refs = z.refs \ {z.cpu[name].ref}
          /\ HasReferences(y.refs, z.cpu[name].ref.src) => y.dead = z.dead /\ y.listed = z.listed
          /\ ~HasReferences(y.refs, z.cpu[name].ref.src) =>
                /\ y.dead = z.dead \cup {z.cpu[name].ref.src}
                /\ y.listed = z.listed \ {z.cpu[name].ref.src}

LEMMA BlockPut ==
  ASSUME NEW z, IsProgram(z), NEW name, NEW block
  PROVE  PutAt(With(IF Defined(z, name) THEN DestroyRef(z, z.cpu[name].ref) ELSE z, name, block), z, name, block.ref)
<1> DEFINE old == z.cpu[name].ref
           x == IF Defined(z, name) THEN DestroyRef(z, old) ELSE z
           y == With(x, name, block)
<1>1. CASE name \notin DOMAIN z.cpu
  <2>1. x = z
    BY <1>1 DEF Defined
  <2> HIDE DEF x
  <2>2. /\ IsProgram(y) /\ SameRefs(y, x) /\ SameState(y, x)
        /\ y.pending = x.pending /\ y.libs = x.libs
        /\ DOMAIN y.cpu = DOMAIN x.cpu \cup {name}
        /\ y.cpu[name] = block /\ \A n \in DOMAIN x.cpu \ {name} : y.cpu[n] = x.cpu[n]
    BY <2>1, Placed
  <2> HIDE DEF y
  <2>3. PutAt(y, z, name, block.ref)
    BY <1>1, <2>1, <2>2 DEF PutAt, SameState
  <2> QED BY <2>3 DEF x, y
<1>2. CASE name \in DOMAIN z.cpu
  <2>1. x = DestroyRef(z, old)
    BY <1>2 DEF Defined
  <2>2. GivenBack(x, z, old)
    BY <2>1, Destroyed
  <2> HIDE DEF x
  <2>3. SameBlocks(x, z) /\ SameState(x, z) /\ IsProgram(x)
    BY <2>2 DEF GivenBack, SameBlocks
  <2>4. /\ IsProgram(y) /\ SameRefs(y, x) /\ SameState(y, x)
        /\ y.pending = x.pending /\ y.libs = x.libs
        /\ DOMAIN y.cpu = DOMAIN x.cpu \cup {name}
        /\ y.cpu[name] = block /\ \A n \in DOMAIN x.cpu \ {name} : y.cpu[n] = x.cpu[n]
    BY <2>3, Placed
  <2> HIDE DEF y
  <2>5. /\ y.pending = z.pending /\ y.libs = z.libs /\ y.ok = z.ok
        /\ DOMAIN y.cpu = DOMAIN z.cpu \cup {name} /\ y.cpu[name].ref = block.ref
        /\ \A n \in DOMAIN z.cpu \ {name} : y.cpu[n] = z.cpu[n]
    BY <2>3, <2>4 DEF SameBlocks, SameState
  <2>6. /\ y.refs = z.refs \ {old}
        /\ HasReferences(y.refs, old.src) => y.dead = z.dead /\ y.listed = z.listed
        /\ ~HasReferences(y.refs, old.src) => y.dead = z.dead \cup {old.src} /\ y.listed = z.listed \ {old.src}
    <3>1. y.refs = x.refs /\ y.dead = x.dead /\ y.listed = x.listed
      BY <2>4 DEF SameRefs
    <3> QED BY <2>2, <3>1 DEF GivenBack
  <2>7. PutAt(y, z, name, block.ref)
    BY <1>2, <2>4, <2>5, <2>6 DEF PutAt
  <2> QED BY <2>7 DEF x, y
<1> QED BY <1>1, <1>2

LEMMA PutGood ==
  ASSUME NEW M \in Nat, NEW X, NEW E, NEW z, Good(z, M, X, E),
         NEW k \in BlockKinds, NEW i \in Place(z, k), NEW name, name = <<k, z.pending[k][i].nr>>,
         BlockRef(Raw(z, k, i)) \in z.refs, ~Translated(z, k, i),
         \A j \in 1..i - 1 : Translated(z, k, j) /\ z.pending[k][j].nr # z.pending[k][i].nr,
         \A j \in Place(z, k) : j \notin 1..i => Raw(z, k, j) \in z.refs,
         name \in DOMAIN z.cpu => z.cpu[name].ref # NoRef,
         NEW y, PutAt(y, z, name, BlockRef(Raw(z, k, i)))
  PROVE  /\ Good(y, M, X, E) /\ OthersKept(y, z, k)
         /\ \A j \in 1..i : Translated(y, k, j)
<1> DEFINE b == BlockRef(Raw(z, k, i))
           old == z.cpu[name].ref
           H == name \in DOMAIN z.cpu
<1>0. /\ b \in z.refs /\ b \in Reference("block", k, M) /\ b # NoRef
      /\ \A n \in DOMAIN z.cpu : z.cpu[n].ref # b
      /\ \A l \in BlockKinds : \A j \in Place(z, l) :
            /\ Raw(z, l, j) # b
            /\ BlockRef(Raw(z, l, j)) = b => l = k /\ j = i
      /\ name[1] = k
  BY RawFacts DEF Translated
<1>1. /\ IsProgram(y) /\ y.pending = z.pending /\ y.libs = z.libs /\ y.ok = z.ok
      /\ DOMAIN y.cpu = DOMAIN z.cpu \cup {name} /\ y.cpu[name].ref = b
      /\ \A n \in DOMAIN z.cpu \ {name} : y.cpu[n] = z.cpu[n]
  BY SMTT(60) DEF PutAt
<1>2. ~H => y.refs = z.refs /\ y.dead = z.dead /\ y.listed = z.listed
  BY SMTT(60) DEF PutAt, SameRefs
<1>3. H => /\ y.refs = z.refs \ {old}
           /\ HasReferences(y.refs, old.src) => y.dead = z.dead /\ y.listed = z.listed
           /\ ~HasReferences(y.refs, old.src) => y.dead = z.dead \cup {old.src} /\ y.listed = z.listed \ {old.src}
  BY DEF PutAt
<1>4. /\ \A l : Place(y, l) = Place(z, l)
      /\ \A l, j : Raw(y, l, j) = Raw(z, l, j)
  BY <1>1, SMTT(60) DEF Place, Raw
\* What is known of the old block, if there is one.
<1>5. H => /\ old # NoRef /\ old \in z.refs /\ old \in Reference("block", k, M) /\ old # b
           /\ \A n \in DOMAIN z.cpu \ {name} : z.cpu[n].ref # old
  <2> SUFFICES ASSUME H PROVE /\ old # NoRef /\ old \in z.refs /\ old \in Reference("block", k, M) /\ old # b
                              /\ \A n \in DOMAIN z.cpu \ {name} : z.cpu[n].ref # old
    OBVIOUS
  <2>1. old # NoRef /\ old # b
    BY <1>0
  <2>2. old \in z.refs
    BY <2>1 DEF Good, BlocksBacked
  <2>3. old \in Reference("block", k, M)
    BY <1>0, <2>1 DEF Good, Typed
  <2>4. \A n \in DOMAIN z.cpu \ {name} : z.cpu[n].ref # old
    BY <2>1 DEF Good, Distinct
  <2> QED BY <2>1, <2>2, <2>3, <2>4, ZenonT(60)
<1>6. ASSUME H, NEW l \in BlockKinds, NEW j \in Place(z, l)
      PROVE  BlockRef(Raw(z, l, j)) # old /\ Raw(z, l, j) # old
  <2>1. Raw(z, l, j) # old
    BY <1>5, <1>6, Unlike DEF Good, Typed
  <2>2. ASSUME BlockRef(Raw(z, l, j)) = old PROVE FALSE
    <3>1. name = <<l, z.pending[l][j].nr>>
      BY <1>6, <2>2 DEF Good, Distinct
    <3>2. l = k /\ z.pending[k][j].nr = z.pending[k][i].nr
      BY <3>1
    <3>3. j \notin 1..i - 1 /\ j # i
      BY <1>0, <1>5, <1>6, <2>2, <3>2
    <3>4. j \notin 1..i
      BY <3>3 DEF Place
    <3>5. Raw(z, k, j) \in z.refs
      BY <3>2, <3>4
    <3>6. BlockRef(Raw(z, k, j)) \notin z.refs
      BY <3>2, <3>5, SMTT(60) DEF Good, PassedOn
    <3> QED BY <1>5, <1>6, <2>2, <3>2, <3>6
  <2> QED BY <2>1, <2>2, SMTT(60)
<1>7. /\ \A l \in BlockKinds : \A j \in Place(z, l) :
            /\ Raw(z, l, j) \in y.refs <=> Raw(z, l, j) \in z.refs
            /\ BlockRef(Raw(z, l, j)) \in y.refs <=> BlockRef(Raw(z, l, j)) \in z.refs
      /\ \A q \in y.refs : q \in z.refs /\ (H => q # old)
      /\ \A q \in z.refs : ~H \/ q # old => q \in y.refs
  BY <1>2, <1>3, <1>6
<1> HIDE DEF b, H, old
<1>8. Shaped(y)
  BY <1>1 DEF Good, Shaped
<1>9. Typed(y, M)
  <2>1. \A l \in BlockKinds : \A j \in Place(y, l) : Raw(y, l, j) \in Reference("raw", l, M)
    BY <1>4 DEF Good, Typed
  <2>2. \A n \in DOMAIN y.cpu : y.cpu[n].ref = NoRef \/ y.cpu[n].ref \in Reference("block", n[1], M)
    BY <1>0, <1>1 DEF Good, Typed
  <2>3. \A q \in y.refs : \E l \in BlockKinds : q \in Reference("raw", l, M) \/ q \in Reference("block", l, M)
    BY <1>7 DEF Good, Typed
  <2>4. H => old.src \in 1..M
    BY <1>5 DEF Reference
  <2>5. y.dead \subseteq 1..M /\ y.listed \subseteq 1..M
    BY <1>2, <1>3, <2>4 DEF Good, Typed
  <2> QED BY <2>1, <2>2, <2>3, <2>5 DEF Typed
<1>10. BlocksBacked(y)
  <2> SUFFICES ASSUME NEW n \in DOMAIN y.cpu, y.cpu[n].ref # NoRef PROVE y.cpu[n].ref \in y.refs
    BY DEF BlocksBacked
  <2>1. CASE n = name
    <3>1. b \in y.refs
      BY <1>0, <1>5, <1>7
    <3> QED BY <1>1, <2>1, <3>1
  <2>2. CASE n # name
    <3>1. n \in DOMAIN z.cpu /\ y.cpu[n].ref = z.cpu[n].ref
      BY <1>1, <2>2
    <3>2. z.cpu[n].ref \in z.refs
      BY <3>1 DEF Good, BlocksBacked
    <3>3. H => z.cpu[n].ref # old
      BY <1>5, <2>2, <3>1
    <3> QED BY <1>7, <3>1, <3>2, <3>3
  <2> QED BY <2>1, <2>2
<1>11. Held(y)
  <2> SUFFICES ASSUME NEW q \in y.refs PROVE OfRaw(y, q) \/ OfBlock(y, q) \/ GivenUp(y, q)
    BY DEF Held
  <2>1. (OfRaw(y, q) <=> OfRaw(z, q)) /\ (GivenUp(y, q) <=> GivenUp(z, q))
    BY <1>4 DEF OfRaw, GivenUp
  <2>2. q \in z.refs /\ (H => q # old)
    BY <1>7
  <2>3. OfRaw(z, q) \/ OfBlock(z, q) \/ GivenUp(z, q)
    BY <2>2 DEF Good, Held
  <2>4. ASSUME OfBlock(z, q) PROVE OfBlock(y, q)
    <3>1. PICK n \in DOMAIN z.cpu : q = z.cpu[n].ref
      BY <2>4 DEF OfBlock
    <3>2. n # name
      BY <2>2, <3>1 DEF H, old
    <3>3. n \in DOMAIN y.cpu /\ q = y.cpu[n].ref
      BY <1>1, <3>1, <3>2
    <3> QED BY <3>3 DEF OfBlock
  <2> QED BY <2>1, <2>3, <2>4
<1>12. PassedOn(y)
  <2> SUFFICES ASSUME NEW l \in BlockKinds, NEW j \in Place(z, l)
               PROVE  /\ Raw(z, l, j) \in y.refs <=> BlockRef(Raw(z, l, j)) \notin y.refs
                      /\ \A h \in 1..j - 1 : Raw(z, l, j) \notin y.refs => Raw(z, l, h) \notin y.refs
    BY <1>4 DEF PassedOn
  <2>1. /\ Raw(z, l, j) \in z.refs <=> BlockRef(Raw(z, l, j)) \notin z.refs
        /\ \A h \in 1..j - 1 : Raw(z, l, j) \notin z.refs => Raw(z, l, h) \notin z.refs
    BY DEF Good, PassedOn
  <2>2. \A h \in 1..j - 1 : h \in Place(z, l)
    BY DEF Place
  <2> QED BY <1>7, <2>1, <2>2
<1>13. Distinct(y)
  <2>1. \A l \in BlockKinds : \A h, j \in Place(y, l) : Raw(y, l, h) = Raw(y, l, j) => h = j
    BY <1>4 DEF Good, Distinct
  <2>2. ASSUME NEW n \in DOMAIN y.cpu, NEW m \in DOMAIN y.cpu, y.cpu[n].ref = y.cpu[m].ref
        PROVE  n = m \/ y.cpu[n].ref = NoRef
    BY <1>0, <1>1, <2>2 DEF Good, Distinct
  <2>3. ASSUME NEW l \in BlockKinds, NEW j \in Place(z, l), NEW n \in DOMAIN y.cpu,
               y.cpu[n].ref = BlockRef(Raw(z, l, j))
        PROVE  n = <<l, z.pending[l][j].nr>>
    <3>1. CASE n = name
      <4>1. l = k /\ j = i
        BY <1>0, <1>1, <2>3, <3>1
      <4> QED BY <3>1, <4>1
    <3>2. CASE n # name
      BY <1>1, <2>3, <3>2 DEF Good, Distinct
    <3> QED BY <3>1, <3>2
  <2> QED BY <1>1, <1>4, <2>1, <2>2, <2>3 DEF Distinct
<1>14. Told(y, X, E)
  <2>1. /\ \A m \in z.listed : m \notin z.dead /\ (m \in E \/ HasReferences(z.refs, m))
        /\ \A q \in z.refs : q.src \notin z.dead /\ (q.src \in X \/ q.src \in z.listed)
    BY DEF Good, Told
  <2>2. ASSUME NEW m, HasReferences(z.refs, m), ~H \/ m # old.src PROVE HasReferences(y.refs, m)
    <3>1. PICK q \in z.refs : q.src = m
      BY <2>2 DEF HasReferences
    <3>2. q \in y.refs
      BY <1>7, <2>2, <3>1
    <3> QED BY <3>1, <3>2 DEF HasReferences
  <2>3. CASE ~H
    <3>1. y.refs = z.refs /\ y.dead = z.dead /\ y.listed = z.listed
      BY <1>2, <2>3
    <3> QED BY <2>1, <3>1 DEF Told
  <2>4. CASE H /\ HasReferences(y.refs, old.src)
    <3>1. y.dead = z.dead /\ y.listed = z.listed
      BY <1>3, <2>4
    <3>2. \A m : HasReferences(z.refs, m) => HasReferences(y.refs, m)
      BY <2>2, <2>4
    <3> QED BY <1>7, <2>1, <3>1, <3>2 DEF Told
  <2>5. CASE H /\ ~HasReferences(y.refs, old.src)
    <3>1. y.dead = z.dead \cup {old.src} /\ y.listed = z.listed \ {old.src}
      BY <1>3, <2>5
    <3>2. \A q \in y.refs : q.src # old.src
      BY <2>5 DEF HasReferences
    <3>3. \A m \in y.listed : m \notin y.dead /\ (m \in E \/ HasReferences(y.refs, m))
      BY <2>1, <2>2, <3>1
    <3>4. \A q \in y.refs : q.src \notin y.dead /\ (q.src \in X \/ q.src \in y.listed)
      BY <1>7, <2>1, <3>1, <3>2
    <3> QED BY <3>3, <3>4 DEF Told
  <2> QED BY <2>3, <2>4, <2>5
<1>15. OthersKept(y, z, k)
  BY <1>0, <1>1 DEF OthersKept
<1>16. ASSUME NEW j \in 1..i PROVE Translated(y, k, j)
  <2>1. CASE j = i
    BY <1>1, <1>4, <2>1 DEF Translated, b
  <2>2. CASE j # i
    <3>1. j \in 1..i - 1 /\ j \in Place(z, k)
      BY <2>2 DEF Place
    <3>2. PICK n \in DOMAIN z.cpu : z.cpu[n].ref = BlockRef(Raw(z, k, j))
      BY <3>1 DEF Translated
    <3>3. n = <<k, z.pending[k][j].nr>>
      BY <3>1, <3>2 DEF Good, Distinct
    <3>4. n # name
      BY <3>1, <3>3
    <3>5. n \in DOMAIN y.cpu /\ y.cpu[n].ref = BlockRef(Raw(y, k, j))
      BY <1>1, <1>4, <3>2, <3>4
    <3> QED BY <3>5 DEF Translated
  <2> QED BY <2>1, <2>2
<1> QED BY <1>8, <1>9, <1>10, <1>11, <1>12, <1>13, <1>14, <1>15, <1>16 DEF Good

\* A step of the translation of a kind.
LEMMA RawTranslated ==
  ASSUME NEW M \in Nat, NEW X, NEW E, NEW z, Good(z, M, X, E), z.ok,
         NEW k \in BlockKinds, NEW i \in Place(z, k),
         \A j \in 1..i - 1 : Translated(z, k, j),
         NEW y, y = TranslateRaw(z, k, i)
  PROVE  /\ Good(y, M, X, E) /\ y.pending = z.pending /\ y.libs = z.libs
         /\ OthersKept(y, z, k) /\ (y.ok => \A j \in 1..i : Translated(y, k, j))
<1> DEFINE raws == z.pending[k]
           raw == raws[i]
           name == <<k, raw.nr>>
           refused == (\E j \in 1..i - 1 : raws[j].nr = raw.nr) \/ IsLibrary(z, name)
           made == InheritRef(z, raw.ref)
           block == [ref |-> BlockRef(raw.ref), uses |-> raw.uses, calls |-> raw.calls]
           put == With(IF Defined(made, name) THEN DestroyRef(made, made.cpu[name].ref) ELSE made, name, block)
<1>0. raw.ref = Raw(z, k, i)
  BY DEF Raw
<1>1. y = IF refused THEN Fail(z)
          ELSE IF raw.fault = "statement" THEN Fail(z)
          ELSE IF raw.ref \notin z.refs THEN Crash(z)
          ELSE IF raw.fault = "interface" THEN Fail(made) ELSE put
  BY DEF TranslateRaw, Translate
<1>2. IsProgram(z) /\ z.ok = TRUE
  BY DEF Good, Shaped
<1>3. ASSUME NEW x, x = Fail(z) \/ x = Crash(z)
      PROVE  /\ Good(x, M, X, E) /\ x.pending = z.pending /\ x.libs = z.libs
             /\ OthersKept(x, z, k) /\ x.ok = FALSE
  <2>1. Good(x, M, X, E)
    BY <1>3, StoppedGood
  <2>2. SameBlocks(x, z) /\ x.ok = FALSE
    BY <1>2, <1>3, Stopped
  <2> QED BY <2>1, <2>2 DEF SameBlocks, OthersKept
<1>4. CASE y = Fail(z) \/ y = Crash(z)
  BY <1>3, <1>4
<1>5. CASE ~refused /\ raw.ref \in z.refs /\ y \in {Fail(made), put}
  <2> DEFINE r == Raw(z, k, i)
             b == BlockRef(r)
  <2>1. /\ r \in Reference("raw", k, M) /\ b.src = r.src /\ b # r /\ b # NoRef
        /\ \A j \in Place(z, k) : Raw(z, k, j) = r => j = i
    BY RawFacts
  <2>2. /\ SameBlocks(made, z) /\ SameState(made, z) /\ made.refs = (z.refs \cup {b}) \ {r}
        /\ made.dead = z.dead /\ made.listed = z.listed
    BY <1>0, <1>2, <2>1, Inherited
  <2>3. r \in z.refs
    BY <1>0, <1>5
  <2>4. ASSUME NEW j \in 1..i - 1 PROVE Raw(z, k, j) \notin z.refs
    <3>1. j \in Place(z, k)
      BY DEF Place
    <3>2. PICK n \in DOMAIN z.cpu : z.cpu[n].ref = BlockRef(Raw(z, k, j))
      BY DEF Translated
    <3>3. BlockRef(Raw(z, k, j)) # NoRef
      BY <3>1, RawFacts
    <3>4. BlockRef(Raw(z, k, j)) \in z.refs
      BY <3>2, <3>3 DEF Good, BlocksBacked
    <3> QED BY <3>1, <3>4 DEF Good, PassedOn
  <2> HIDE DEF made
  <2>5. Good(made, M, X, E)
    BY <2>2, <2>3, <2>4, InheritGood
  <2>6. IsProgram(made) /\ made.pending = z.pending /\ made.libs = z.libs /\ made.cpu = z.cpu /\ made.ok = TRUE
    BY <1>2, <2>2 DEF SameBlocks, SameState
  <2>7. CASE y = Fail(made)
    <3>1. Good(y, M, X, E)
      BY <2>5, <2>7, StoppedGood
    <3>2. SameBlocks(y, made) /\ y.ok = FALSE
      BY <2>6, <2>7, Stopped
    <3> QED BY <2>6, <3>1, <3>2 DEF SameBlocks, OthersKept
  <2>8. CASE y = put
    <3>1. PutAt(put, made, name, block.ref)
      BY <2>6, BlockPut
    <3>2. block.ref = b
      BY <1>0, SMTT(60)
    <3>3. PutAt(y, made, name, b)
      BY <2>8, <3>1, <3>2, ZenonT(60)
    <3>4. i \in Place(made, k) /\ Raw(made, k, i) = r /\ name = <<k, made.pending[k][i].nr>>
      BY <2>6 DEF Place, Raw
    <3>5. b \in made.refs
      BY <2>1, <2>2
    <3>6. ~Translated(made, k, i)
      <4>1. b \notin z.refs
        BY <2>3 DEF Good, PassedOn
      <4>2. \A n \in DOMAIN z.cpu : z.cpu[n].ref # b
        BY <2>1, <4>1 DEF Good, BlocksBacked
      <4> QED BY <2>6, <3>4, <4>2 DEF Translated
    <3>7. ASSUME NEW j \in 1..i - 1 PROVE Translated(made, k, j) /\ made.pending[k][j].nr # made.pending[k][i].nr
      <4>1. Translated(z, k, j)
        OBVIOUS
      <4>2. Translated(made, k, j)
        BY <2>6, <4>1 DEF Translated, Raw
      <4>3. raws[j].nr # raw.nr
        BY <1>5
      <4> QED BY <2>6, <4>2, <4>3
    <3>8. ASSUME NEW j \in Place(made, k), j \notin 1..i PROVE Raw(made, k, j) \in made.refs
      <4>1. j \in Place(z, k) /\ Raw(made, k, j) = Raw(z, k, j)
        BY <2>6 DEF Place, Raw
      <4>2. i \in 1..j - 1
        BY <3>8, <4>1 DEF Place
      <4>3. Raw(z, k, j) \in z.refs
        BY <2>3, <4>1, <4>2 DEF Good, PassedOn
      <4>4. Raw(z, k, j) # r
        BY <2>1, <3>8, <4>1 DEF Place
      <4> QED BY <2>2, <4>1, <4>3, <4>4
    <3>9. name \in DOMAIN made.cpu => made.cpu[name].ref # NoRef
      BY <1>5, <2>6 DEF IsLibrary, Defined
    <3> HIDE DEF name, b
    <3>10. /\ Good(y, M, X, E) /\ OthersKept(y, made, k)
           /\ \A j \in 1..i : Translated(y, k, j)
      BY <2>5, <3>3, <3>4, <3>5, <3>6, <3>7, <3>8, <3>9, PutGood DEF b
    <3>11. OthersKept(y, z, k)
      BY <2>6, <3>10 DEF OthersKept
    <3>12. y.pending = z.pending /\ y.libs = z.libs
      BY <2>6, <3>3, SMTT(60) DEF PutAt
    <3> QED BY <3>10, <3>11, <3>12
  <2> QED BY <1>5, <2>7, <2>8
<1>6. (y = Fail(z) \/ y = Crash(z)) \/ (~refused /\ raw.ref \in z.refs /\ y \in {Fail(made), put})
  BY <1>1, ZenonT(60)
<1> QED BY <1>4, <1>5, <1>6

\* A library block takes the place of a library block, or a free one.
LEMMA LibraryGood ==
  ASSUME NEW M \in Nat, NEW X, NEW E, NEW z, Good(z, M, X, E), NEW name,
         NEW y, y = LoadLibrary(z, name)
  PROVE  Good(y, M, X, E) /\ y.pending = z.pending /\ y.libs = z.libs /\ SameRefs(y, z)
<1>0. IsProgram(z)
  BY DEF Good, Shaped
<1>1. CASE Defined(z, name) /\ ~IsLibrary(z, name)
  <2>1. y = Fail(z)
    BY <1>1 DEF LoadLibrary
  <2>2. Good(y, M, X, E)
    BY <2>1, StoppedGood
  <2>3. SameBlocks(y, z) /\ SameRefs(y, z)
    BY <1>0, <2>1, Stopped
  <2> QED BY <2>2, <2>3 DEF SameBlocks
<1>2. CASE ~(Defined(z, name) /\ ~IsLibrary(z, name))
  <2>1. y = With(z, name, LibraryBlock)
    BY <1>2 DEF LoadLibrary
  <2>2. /\ IsProgram(y) /\ SameRefs(y, z) /\ SameState(y, z)
        /\ y.pending = z.pending /\ y.libs = z.libs
        /\ DOMAIN y.cpu = DOMAIN z.cpu \cup {name}
        /\ y.cpu[name] = LibraryBlock /\ \A n \in DOMAIN z.cpu \ {name} : y.cpu[n] = z.cpu[n]
    BY <1>0, <2>1, Placed
  <2>3. y.cpu[name].ref = NoRef
    BY <2>2 DEF LibraryBlock
  <2>4. \A n \in DOMAIN z.cpu : z.cpu[n].ref # NoRef => n # name /\ n \in DOMAIN y.cpu /\ y.cpu[n] = z.cpu[n]
    BY <1>2, <2>2 DEF Defined, IsLibrary
  <2>5. \A n \in DOMAIN y.cpu : y.cpu[n].ref # NoRef => n \in DOMAIN z.cpu /\ y.cpu[n] = z.cpu[n]
    BY <2>2, <2>3
  <2>6. y.refs = z.refs /\ y.dead = z.dead /\ y.listed = z.listed
    BY <2>2 DEF SameRefs
  <2>7. /\ \A l : Place(y, l) = Place(z, l)
        /\ \A l, j : Raw(y, l, j) = Raw(z, l, j)
    BY <2>2 DEF Place, Raw
  <2>8. Shaped(y)
    BY <2>2 DEF Good, Shaped, SameState
  <2>9. Typed(y, M)
    <3>1. \A n \in DOMAIN y.cpu : y.cpu[n].ref = NoRef \/ y.cpu[n].ref \in Reference("block", n[1], M)
      BY <2>5 DEF Good, Typed
    <3> QED BY <2>6, <2>7, <3>1 DEF Good, Typed
  <2>10. BlocksBacked(y)
    BY <2>5, <2>6 DEF Good, BlocksBacked
  <2>11. Held(y)
    <3> SUFFICES ASSUME NEW q \in z.refs PROVE OfRaw(y, q) \/ OfBlock(y, q) \/ GivenUp(y, q)
      BY <2>6 DEF Held
    <3>1. (OfRaw(y, q) <=> OfRaw(z, q)) /\ (GivenUp(y, q) <=> GivenUp(z, q))
      BY <2>7 DEF OfRaw, GivenUp
    <3>2. OfRaw(z, q) \/ OfBlock(z, q) \/ GivenUp(z, q)
      BY DEF Good, Held
    <3>3. q # NoRef
      BY Unlike DEF Good, Typed
    <3>4. OfBlock(z, q) => OfBlock(y, q)
      BY <2>4, <3>3 DEF OfBlock
    <3> QED BY <3>1, <3>2, <3>4
  <2>12. PassedOn(y)
    BY <2>6, <2>7 DEF Good, PassedOn
  <2>13. Distinct(y)
    <3>1. \A l \in BlockKinds : \A h, j \in Place(y, l) : Raw(y, l, h) = Raw(y, l, j) => h = j
      BY <2>7 DEF Good, Distinct
    <3>2. ASSUME NEW n \in DOMAIN y.cpu, NEW m \in DOMAIN y.cpu, y.cpu[n].ref = y.cpu[m].ref
          PROVE  n = m \/ y.cpu[n].ref = NoRef
      BY <2>5, <3>2 DEF Good, Distinct
    <3>3. ASSUME NEW l \in BlockKinds, NEW j \in Place(z, l), NEW n \in DOMAIN y.cpu,
                 y.cpu[n].ref = BlockRef(Raw(z, l, j))
          PROVE  n = <<l, z.pending[l][j].nr>>
      <4>1. BlockRef(Raw(z, l, j)) # NoRef
        BY RawFacts
      <4>2. n \in DOMAIN z.cpu /\ y.cpu[n] = z.cpu[n]
        BY <2>5, <3>3, <4>1
      <4> QED BY <3>3, <4>2 DEF Good, Distinct
    <3> QED BY <2>2, <2>7, <3>1, <3>2, <3>3 DEF Distinct
  <2>14. Told(y, X, E)
    BY <2>6 DEF Good, Told
  <2> QED BY <2>2, <2>8, <2>9, <2>10, <2>11, <2>12, <2>13, <2>14 DEF Good
<1> QED BY <1>1, <1>2

-----------------------------------------------------------------------------
(* A build, kind by kind.                                                  *)

\* The step to the n-th raw block of a kind, or library block.
BuildStep(x, z, kind, n) ==
    IF ~x.ok THEN x
    ELSE IF kind \in BlockKinds THEN TranslateRaw(x, kind, n) ELSE LoadLibrary(x, z.libs[n])

\* v is what the first N steps make of the program.
Steps(z, kind, N, v) ==
    v = [n \in 0..N |-> IF n = 0 THEN z ELSE BuildStep(v[n - 1], z, kind, n)]

LEMMA StepsExist ==
  ASSUME NEW z, NEW kind, NEW N \in Nat
  PROVE  \E v : Steps(z, kind, N, v)
<1> DEFINE H == {m \in Nat : \E v : Steps(z, kind, m, v)}
<1>1. 0 \in H
  <2> DEFINE v == [n \in 0..0 |-> z]
  <2>1. Steps(z, kind, 0, v)
    BY DEF Steps
  <2> QED BY <2>1
<1>2. ASSUME NEW m \in 0..N - 1, m \in H PROVE m + 1 \in H
  <2>1. PICK v : Steps(z, kind, m, v)
    BY <1>2
  <2> DEFINE w == [n \in 0..m + 1 |-> IF n = m + 1 THEN BuildStep(v[m], z, kind, m + 1) ELSE v[n]]
  <2>2. ASSUME NEW n \in 0..m + 1
        PROVE  w[n] = IF n = 0 THEN z ELSE BuildStep(w[n - 1], z, kind, n)
    <3>1. CASE n = m + 1
      <4>1. w[n] = BuildStep(v[m], z, kind, m + 1) /\ w[n - 1] = v[m] /\ n # 0
        BY <3>1
      <4> QED BY <3>1, <4>1
    <3>2. CASE n # m + 1
      <4>1. n \in 0..m /\ w[n] = v[n]
        BY <3>2
      <4>2. n # 0 => w[n - 1] = v[n - 1]
        BY <4>1
      <4>3. v[n] = IF n = 0 THEN z ELSE BuildStep(v[n - 1], z, kind, n)
        BY <2>1, <4>1 DEF Steps
      <4> QED BY <4>1, <4>2, <4>3
    <3> QED BY <3>1, <3>2
  <2>3. w = [n \in 0..m + 1 |-> w[n]]
    OBVIOUS
  <2> HIDE DEF w
  <2>4. Steps(z, kind, m + 1, w)
    BY <2>2, <2>3 DEF Steps
  <2> QED BY <2>4
<1> HIDE DEF H
<1>3. \A m \in 0..N : m \in H
  BY <1>1, <1>2, UpTo
<1> QED BY <1>3 DEF H

\* From each step to the next.
InSteps(z, kind, N, v) == v[0] = z /\ \A n \in 0..N - 1 : v[n + 1] = BuildStep(v[n], z, kind, n + 1)

LEMMA StepByStep ==
  ASSUME NEW z, NEW kind, NEW N \in Nat, NEW v, Steps(z, kind, N, v)
  PROVE  InSteps(z, kind, N, v)
<1>1. v[0] = z
  BY DEF Steps
<1>2. ASSUME NEW n \in 0..N - 1 PROVE v[n + 1] = BuildStep(v[n], z, kind, n + 1)
  <2>1. n + 1 \in 0..N /\ n + 1 # 0 /\ (n + 1) - 1 = n
    OBVIOUS
  <2>2. v[n + 1] = BuildStep(v[(n + 1) - 1], z, kind, n + 1)
    BY <2>1 DEF Steps
  <2> QED BY <2>1, <2>2
<1> QED BY <1>1, <1>2 DEF InSteps

LEMMA KindInSteps ==
  ASSUME NEW z, NEW k \in BlockKinds, Len(z.pending[k]) \in Nat
  PROVE  \E v : /\ InSteps(z, k, Len(z.pending[k]), v)
                /\ TranslateKind(z, k) = IF v[Len(z.pending[k])].ok
                                         THEN [v[Len(z.pending[k])] EXCEPT !.pending[k] = <<>>]
                                         ELSE v[Len(z.pending[k])]
<1> DEFINE N == Len(z.pending[k])
           Solves(v) == v = [i \in 0..N |->
                               IF i = 0 THEN z
                               ELSE IF v[i - 1].ok THEN TranslateRaw(v[i - 1], k, i) ELSE v[i - 1]]
           built == CHOOSE v : Solves(v)
<1>1. TranslateKind(z, k) = IF built[N].ok THEN [built[N] EXCEPT !.pending[k] = <<>>] ELSE built[N]
  BY DEF TranslateKind
<1>2. N \in Nat
  OBVIOUS
<1> HIDE DEF N
<1>3. \A v : Steps(z, k, N, v) <=> Solves(v)
  <2> SUFFICES ASSUME NEW v PROVE Steps(z, k, N, v) <=> Solves(v)
    OBVIOUS
  <2>1. \A i : (IF i = 0 THEN z ELSE BuildStep(v[i - 1], z, k, i))
               = IF i = 0 THEN z
                 ELSE IF v[i - 1].ok THEN TranslateRaw(v[i - 1], k, i) ELSE v[i - 1]
    BY DEF BuildStep
  <2> QED BY <2>1 DEF Steps
<1>4. \E v : Steps(z, k, N, v)
  BY <1>2, StepsExist
<1> HIDE DEF Solves
<1>5. Solves(built)
  BY <1>3, <1>4
<1>6. Steps(z, k, N, built)
  BY <1>3, <1>5
<1> HIDE DEF built
<1>7. InSteps(z, k, N, built)
  BY <1>2, <1>6, StepByStep
<1> QED BY <1>1, <1>7 DEF N

LEMMA LibrariesInSteps ==
  ASSUME NEW z, Len(z.libs) \in Nat, "none" \notin BlockKinds
  PROVE  \E v : /\ InSteps(z, "none", Len(z.libs), v)
                /\ LoadLibraries(z) = IF v[Len(z.libs)].ok
                                      THEN [v[Len(z.libs)] EXCEPT !.libs = <<>>]
                                      ELSE v[Len(z.libs)]
<1> DEFINE N == Len(z.libs)
           Solves(v) == v = [n \in 0..N |->
                               IF n = 0 THEN z
                               ELSE IF v[n - 1].ok THEN LoadLibrary(v[n - 1], z.libs[n]) ELSE v[n - 1]]
           loaded == CHOOSE v : Solves(v)
<1>1. LoadLibraries(z) = IF loaded[N].ok THEN [loaded[N] EXCEPT !.libs = <<>>] ELSE loaded[N]
  BY DEF LoadLibraries
<1>2. N \in Nat
  OBVIOUS
<1> HIDE DEF N
<1>3. \A v : Steps(z, "none", N, v) <=> Solves(v)
  <2> SUFFICES ASSUME NEW v PROVE Steps(z, "none", N, v) <=> Solves(v)
    OBVIOUS
  <2>1. \A n : (IF n = 0 THEN z ELSE BuildStep(v[n - 1], z, "none", n))
               = IF n = 0 THEN z
                 ELSE IF v[n - 1].ok THEN LoadLibrary(v[n - 1], z.libs[n]) ELSE v[n - 1]
    BY DEF BuildStep
  <2> QED BY <2>1 DEF Steps
<1>4. \E v : Steps(z, "none", N, v)
  BY <1>2, StepsExist
<1> HIDE DEF Solves
<1>5. Solves(loaded)
  BY <1>3, <1>4
<1>6. Steps(z, "none", N, loaded)
  BY <1>3, <1>5
<1> HIDE DEF loaded
<1>7. InSteps(z, "none", N, loaded)
  BY <1>2, <1>6, StepByStep
<1> QED BY <1>1, <1>7 DEF N

\* Loading library blocks leaves all raw blocks and their references alone.
LEMMA LibrariesGood ==
  ASSUME NEW M \in Nat, NEW X, NEW E, NEW z, Good(z, M, X, E),
         NEW y, y = LoadLibraries(z)
  PROVE  Good(y, M, X, E) /\ y.pending = z.pending
<1> DEFINE N == Len(z.libs)
<1>0. N \in Nat
  BY DEF Good, Shaped, IsList
<1>1. "none" \notin BlockKinds
  BY DEF BlockKinds
<1>2. PICK v : InSteps(z, "none", N, v) /\ y = IF v[N].ok THEN [v[N] EXCEPT !.libs = <<>>] ELSE v[N]
  BY <1>0, <1>1, LibrariesInSteps
<1> HIDE DEF N
<1> DEFINE H == {n \in Nat : Good(v[n], M, X, E) /\ v[n].pending = z.pending}
<1>3. 0 \in H
  BY <1>2 DEF InSteps
<1>4. ASSUME NEW n \in 0..N - 1, n \in H PROVE n + 1 \in H
  <2>1. Good(v[n], M, X, E) /\ v[n].pending = z.pending
    BY <1>4
  <2>2. v[n + 1] = BuildStep(v[n], z, "none", n + 1)
    BY <1>2 DEF InSteps
  <2>3. v[n + 1] = v[n] \/ v[n + 1] = LoadLibrary(v[n], z.libs[n + 1])
    BY <1>1, <2>2 DEF BuildStep
  <2>4. ASSUME v[n + 1] = LoadLibrary(v[n], z.libs[n + 1])
        PROVE  Good(v[n + 1], M, X, E) /\ v[n + 1].pending = v[n].pending
    BY <2>1, <2>4, LibraryGood
  <2>5. Good(v[n + 1], M, X, E) /\ v[n + 1].pending = z.pending
    BY <2>1, <2>3, <2>4
  <2> QED BY <2>5
<1> HIDE DEF H
<1>5. N \in H
  <2>1. \A n \in 0..N : n \in H
    BY <1>0, <1>3, <1>4, UpTo
  <2> QED BY <1>0, <2>1
<1>6. Good(v[N], M, X, E) /\ v[N].pending = z.pending
  BY <1>5 DEF H
<1>7. CASE ~v[N].ok
  BY <1>2, <1>6, <1>7
<1>8. CASE v[N].ok
  <2>1. y = NoLibs(v[N])
    BY <1>2, <1>8 DEF NoLibs
  <2>2. IsProgram(v[N]) /\ v[N].ok \in BOOLEAN
    BY <1>6 DEF Good, Shaped
  <2>3. /\ IsProgram(y) /\ SameRefs(y, v[N]) /\ SameState(y, v[N])
        /\ y.pending = v[N].pending /\ y.libs = <<>> /\ y.cpu = v[N].cpu
    <3>1. OnlyLibs(y, v[N])
      BY <2>1, <2>2, FieldsReplaced
    <3> QED BY <3>1 DEF OnlyLibs
  <2>4. IsList(y.libs) /\ y.ok \in BOOLEAN
    BY <2>2, <2>3 DEF IsList, SameState
  <2>5. Good(y, M, X, E)
    BY <1>6, <2>3, <2>4, SameGood
  <2> QED BY <1>6, <2>3, <2>5
<1> QED BY <1>7, <1>8

OthersPend(y, z, k) == \A l \in BlockKinds \ {k} : y.pending[l] = z.pending[l]

\* The blocks of a kind that is done need their raw blocks no more.
LEMMA KindDone ==
  ASSUME NEW M \in Nat, NEW X, NEW E, NEW z, Good(z, M, X, E), NEW k \in BlockKinds,
         \A i \in Place(z, k) : Translated(z, k, i),
         NEW y, OnlyRaws(y, z, k)
  PROVE  Good(y, M, X, E) /\ OthersPend(y, z, k)
<1>13. /\ IsProgram(y) /\ SameRefs(y, z) /\ SameState(y, z) /\ y.libs = z.libs /\ y.cpu = z.cpu
      /\ y.pending = [z.pending EXCEPT ![k] = <<>>]
  BY DEF OnlyRaws
<1>0. z.pending = [l \in BlockKinds |-> z.pending[l]] /\ IsList(z.libs) /\ z.ok \in BOOLEAN
      /\ \A l \in BlockKinds : IsList(z.pending[l])
  BY DEF Good, Shaped
<1>1. /\ y.pending = [l \in BlockKinds |-> y.pending[l]]
      /\ y.pending[k] = <<>> /\ \A l \in BlockKinds \ {k} : y.pending[l] = z.pending[l]
  BY <1>0, <1>13
<1>2. Place(y, k) = {}
  BY <1>1 DEF Place
<1>3. ASSUME NEW l \in BlockKinds, l # k
      PROVE  Place(y, l) = Place(z, l) /\ \A i : Raw(y, l, i) = Raw(z, l, i)
  BY <1>1, <1>3 DEF Place, Raw
<1>4. y.refs = z.refs /\ y.dead = z.dead /\ y.listed = z.listed
  BY <1>13 DEF SameRefs
<1>5. ASSUME NEW i \in Place(z, k)
      PROVE  /\ OfBlock(z, BlockRef(Raw(z, k, i))) /\ Raw(z, k, i) \notin z.refs
  <2>1. PICK n \in DOMAIN z.cpu : z.cpu[n].ref = BlockRef(Raw(z, k, i))
    BY DEF Translated
  <2>2. BlockRef(Raw(z, k, i)) # NoRef
    BY RawFacts
  <2>3. BlockRef(Raw(z, k, i)) \in z.refs
    BY <2>1, <2>2 DEF Good, BlocksBacked
  <2>4. Raw(z, k, i) \notin z.refs
    BY <2>3 DEF Good, PassedOn
  <2> QED BY <2>1, <2>4 DEF OfBlock
<1>6. Shaped(y)
  <2>2. IsList(y.pending[k])
    BY <1>1 DEF IsList
  <2>1. \A l \in BlockKinds : IsList(y.pending[l])
    BY <1>0, <1>1, <2>2
  <2> QED BY <1>13, <1>0, <1>1, <2>1 DEF Shaped, SameState
<1>7. Typed(y, M)
  <2>1. \A l \in BlockKinds : \A i \in Place(y, l) : Raw(y, l, i) \in Reference("raw", l, M)
    BY <1>2, <1>3 DEF Good, Typed
  <2> QED BY <1>13, <1>4, <2>1 DEF Good, Typed
<1>8. BlocksBacked(y)
  BY <1>13, <1>4 DEF Good, BlocksBacked
<1>9. Held(y)
  <2> SUFFICES ASSUME NEW q \in z.refs PROVE OfRaw(y, q) \/ OfBlock(y, q) \/ GivenUp(y, q)
    BY <1>4 DEF Held
  <2>1. OfBlock(z, q) => OfBlock(y, q)
    BY <1>13 DEF OfBlock
  <2>2. OfRaw(z, q) => OfRaw(y, q)
    BY <1>3, <1>5 DEF OfRaw
  <2>3. GivenUp(z, q) => GivenUp(y, q) \/ OfBlock(z, q)
    BY <1>3, <1>5 DEF GivenUp
  <2> QED BY <2>1, <2>2, <2>3 DEF Good, Held
<1>10. PassedOn(y)
  <2> SUFFICES ASSUME NEW l \in BlockKinds, NEW j \in Place(y, l)
               PROVE  /\ Raw(y, l, j) \in y.refs <=> BlockRef(Raw(y, l, j)) \notin y.refs
                      /\ \A h \in 1..j - 1 : Raw(y, l, j) \notin y.refs => Raw(y, l, h) \notin y.refs
    BY DEF PassedOn
  <2>1. l # k
    BY <1>2
  <2> QED BY <1>3, <1>4, <2>1 DEF Good, PassedOn
<1>11. Distinct(y)
  <2>1. ASSUME NEW l \in BlockKinds, NEW h \in Place(y, l), NEW j \in Place(y, l), Raw(y, l, h) = Raw(y, l, j)
        PROVE  h = j
    BY <1>2, <1>3, <2>1 DEF Good, Distinct
  <2>2. ASSUME NEW l \in BlockKinds, NEW j \in Place(y, l), NEW n \in DOMAIN y.cpu,
               y.cpu[n].ref = BlockRef(Raw(y, l, j))
        PROVE  n = <<l, y.pending[l][j].nr>>
    BY <1>13, <1>1, <1>2, <1>3, <2>2 DEF Good, Distinct
  <2>3. \A n, m \in DOMAIN y.cpu : y.cpu[n].ref = y.cpu[m].ref => n = m \/ y.cpu[n].ref = NoRef
    BY <1>13 DEF Good, Distinct
  <2> QED BY <2>1, <2>2, <2>3 DEF Distinct
<1>12. Told(y, X, E)
  BY <1>4 DEF Good, Told
<1> QED BY <1>1, <1>6, <1>7, <1>8, <1>9, <1>10, <1>11, <1>12 DEF Good, OthersPend

\* The CPU holds a block with that reference.
HasBlock(y, q) == \E n \in DOMAIN y.cpu : n[1] = q.kind /\ y.cpu[n].ref = q

\* What a kind's turn makes of a program.
Turned(y, z, k) ==
    /\ \A l \in BlockKinds \ {k} : y.pending[l] = z.pending[l]
    /\ OthersKept(y, z, k)
    /\ y.ok => z.ok /\ \A i \in Place(z, k) : HasBlock(y, BlockRef(Raw(z, k, i)))

LEMMA KindTurned ==
  ASSUME NEW M \in Nat, NEW X, NEW E, NEW z, Good(z, M, X, E), NEW k \in BlockKinds,
         NEW y, y = InTurn(z, k)
  PROVE  Good(y, M, X, E) /\ Turned(y, z, k)
<1>1. CASE ~z.ok
  <2>1. y = z
    BY <1>1 DEF InTurn
  <2> QED BY <1>1, <2>1 DEF Turned, OthersKept
<1>2. CASE z.ok
  <2> DEFINE N == Len(z.pending[k])
  <2>0. y = TranslateKind(z, k)
    BY <1>2 DEF InTurn
  <2>1. N \in Nat
    BY DEF Good, Shaped, IsList
  <2>2. PICK v : InSteps(z, k, N, v) /\ y = IF v[N].ok THEN [v[N] EXCEPT !.pending[k] = <<>>] ELSE v[N]
    BY <2>0, <2>1, KindInSteps
  <2>3. Place(z, k) = 1..N
    BY DEF Place
  <2> HIDE DEF N
  <2> DEFINE P(n) == /\ Good(v[n], M, X, E) /\ v[n].pending = z.pending /\ v[n].libs = z.libs
                     /\ OthersKept(v[n], z, k) /\ (v[n].ok => \A j \in 1..n : Translated(v[n], k, j))
             H == {n \in Nat : P(n)}
  <2>4. 0 \in H
    <3>1. v[0] = z
      BY <2>2 DEF InSteps
    <3>2. 1..0 = {} /\ OthersKept(z, z, k)
      BY DEF OthersKept
    <3> QED BY <3>1, <3>2
  <2>5. ASSUME NEW n \in 0..N - 1, n \in H PROVE n + 1 \in H
    <3>1. P(n) /\ n + 1 \in Nat
      BY <2>5
    <3>2. v[n + 1] = BuildStep(v[n], z, k, n + 1)
      BY <2>2 DEF InSteps
    <3>3. v[n + 1] = IF ~v[n].ok THEN v[n] ELSE TranslateRaw(v[n], k, n + 1)
      BY <3>2 DEF BuildStep
    <3>4. CASE ~v[n].ok
      <4>1. v[n + 1] = v[n]
        BY <3>3, <3>4
      <4>2. P(n + 1)
        BY <3>1, <3>4, <4>1
      <4> QED BY <3>1, <4>2
    <3>5. CASE v[n].ok
      <4> DEFINE i == n + 1
                 x == v[n]
                 w == v[i]
      <4>1. w = TranslateRaw(x, k, i)
        BY <3>3, <3>5
      <4>2. Good(x, M, X, E) /\ x.pending = z.pending /\ x.libs = z.libs /\ OthersKept(x, z, k)
        BY <3>1
      <4>3. i \in Place(x, k) /\ i - 1 = n
        BY <2>1, <2>3, <4>2 DEF Place
      <4>4. \A j \in 1..i - 1 : Translated(x, k, j)
        BY <3>1, <3>5, <4>3
      <4> HIDE DEF i, w, x
      <4>5. /\ Good(w, M, X, E) /\ w.pending = x.pending /\ w.libs = x.libs
            /\ OthersKept(w, x, k) /\ (w.ok => \A j \in 1..i : Translated(w, k, j))
        BY <3>5, <4>1, <4>2, <4>3, <4>4, RawTranslated DEF x
      <4>6. OthersKept(w, z, k)
        BY <4>2, <4>5 DEF OthersKept
      <4>7. P(i)
        BY <4>2, <4>5, <4>6 DEF w
      <4> QED BY <3>1, <4>7 DEF i
    <3> QED BY <3>4, <3>5
  <2> HIDE DEF H
  <2>6. N \in H
    <3>1. \A n \in 0..N : n \in H
      BY <2>1, <2>4, <2>5, UpTo
    <3> QED BY <2>1, <3>1
  <2> DEFINE x == v[N]
  <2>7. /\ Good(x, M, X, E) /\ x.pending = z.pending /\ x.libs = z.libs
        /\ OthersKept(x, z, k) /\ (x.ok => \A j \in 1..N : Translated(x, k, j))
    BY <2>6 DEF H
  <2>8. y = IF x.ok THEN [x EXCEPT !.pending[k] = <<>>] ELSE x
    BY <2>2
  <2> HIDE DEF P, x
  <2>9. CASE ~x.ok
    <3>1. y = x
      BY <2>8, <2>9
    <3> QED BY <2>7, <2>9, <3>1 DEF Turned
  <2>10. CASE x.ok
    <3>1. y = NoRaws(x, k)
      BY <2>8, <2>10 DEF NoRaws
    <3>2. IsProgram(x)
      BY <2>7 DEF Good, Shaped
    <3>3. OnlyRaws(y, x, k)
      BY <3>1, <3>2, FieldsReplaced
    <3>4. \A i \in Place(x, k) : Translated(x, k, i)
      <4>1. Place(x, k) = Place(z, k)
        BY <2>7 DEF Place
      <4> QED BY <2>3, <2>7, <2>10, <4>1
    <3>5. Good(y, M, X, E) /\ OthersPend(y, x, k) /\ y.cpu = x.cpu
      BY <2>7, <3>3, <3>4, KindDone DEF OnlyRaws
    <3>6. OthersKept(y, z, k)
      BY <2>7, <3>5 DEF OthersKept
    <3>7. ASSUME NEW i \in Place(z, k) PROVE HasBlock(y, BlockRef(Raw(z, k, i)))
      <4>1. i \in Place(x, k) /\ Raw(x, k, i) = Raw(z, k, i)
        BY <2>7 DEF Place, Raw
      <4>2. PICK n \in DOMAIN x.cpu : x.cpu[n].ref = BlockRef(Raw(z, k, i))
        BY <3>4, <4>1 DEF Translated
      <4>3. BlockRef(Raw(z, k, i)) \in Reference("block", k, M) /\ BlockRef(Raw(z, k, i)) # NoRef
        BY RawFacts
      <4>4. BlockRef(Raw(z, k, i)) \in Reference("block", n[1], M)
        BY <2>7, <4>2, <4>3 DEF Good, Typed
      <4>5. n[1] = k
        BY <4>3, <4>4, Unlike
      <4>6. BlockRef(Raw(z, k, i)).kind = k
        BY <4>3 DEF Reference
      <4> QED BY <3>5, <4>2, <4>5, <4>6 DEF HasBlock
    <3> QED BY <1>2, <2>7, <3>5, <3>6, <3>7 DEF Turned, OthersPend
  <2> QED BY <2>9, <2>10
<1>3. z.ok \in BOOLEAN
  BY DEF Good, Shaped
<1> QED BY <1>1, <1>2, <1>3

\* Of the kinds K the build has had its turn: the others wait as they did, and
\* the blocks of these are in the CPU.
Left(y, z, K) == \A l \in BlockKinds \ K : y.pending[l] = z.pending[l]
Has(y, z, K) == \A k \in K : \A i \in Place(z, k) : HasBlock(y, BlockRef(Raw(z, k, i)))
Stage(y, z, K, M, X, E) == Good(y, M, X, E) /\ Left(y, z, K) /\ (y.ok => Has(y, z, K))

\* The turn of a kind takes no block of another kind out of the CPU.
LEMMA NextStage ==
  ASSUME NEW M \in Nat, NEW X, NEW E, NEW z, Good(z, M, X, E),
         NEW K \in SUBSET BlockKinds, NEW l \in BlockKinds \ K,
         NEW x, Stage(x, z, K, M, X, E), NEW y, y = InTurn(x, l)
  PROVE  Stage(y, z, K \cup {l}, M, X, E)
<1>0. Good(x, M, X, E) /\ Left(x, z, K) /\ (x.ok => Has(x, z, K))
  BY DEF Stage
<1>1. Good(y, M, X, E) /\ Turned(y, x, l)
  BY <1>0, KindTurned
<1>2. /\ \A k \in BlockKinds \ {l} : y.pending[k] = x.pending[k]
      /\ OthersKept(y, x, l)
      /\ y.ok => x.ok /\ \A i \in Place(x, l) : HasBlock(y, BlockRef(Raw(x, l, i)))
  BY <1>1 DEF Turned
<1>3. Left(y, z, K \cup {l})
  BY <1>0, <1>2 DEF Left
<1>4. ASSUME y.ok, NEW k \in K, NEW i \in Place(z, k)
      PROVE  HasBlock(y, BlockRef(Raw(z, k, i)))
  <2>1. HasBlock(x, BlockRef(Raw(z, k, i)))
    BY <1>0, <1>2, <1>4 DEF Has
  <2>2. PICK n \in DOMAIN x.cpu : n[1] = BlockRef(Raw(z, k, i)).kind /\ x.cpu[n].ref = BlockRef(Raw(z, k, i))
    BY <2>1 DEF HasBlock
  <2>3. BlockRef(Raw(z, k, i)) \in Reference("block", k, M)
    BY RawFacts
  <2>4. n[1] # l
    BY <2>2, <2>3 DEF Reference
  <2>5. n \in DOMAIN y.cpu /\ y.cpu[n] = x.cpu[n]
    BY <1>2, <2>4 DEF OthersKept
  <2> QED BY <2>2, <2>5 DEF HasBlock
<1>5. ASSUME y.ok, NEW i \in Place(z, l)
      PROVE  HasBlock(y, BlockRef(Raw(z, l, i)))
  <2>1. x.pending[l] = z.pending[l]
    BY <1>0 DEF Left
  <2>2. i \in Place(x, l) /\ Raw(x, l, i) = Raw(z, l, i)
    BY <2>1 DEF Place, Raw
  <2> QED BY <1>2, <1>5, <2>2
<1>6. y.ok => Has(y, z, K \cup {l})
  BY <1>4, <1>5 DEF Has
<1> QED BY <1>1, <1>3, <1>6 DEF Stage

LEMMA ResolveGood ==
  ASSUME NEW M \in Nat, NEW X, NEW E, NEW z, Good(z, M, X, E), NEW known,
         NEW y, y = Resolve(z, known)
  PROVE  Good(y, M, X, E) /\ \A q : y.ok /\ HasBlock(z, q) => HasBlock(y, q)
<1>0. IsProgram(z) /\ IsList(z.libs) /\ z.ok \in BOOLEAN
  BY DEF Good, Shaped
<1> DEFINE c == [n \in DOMAIN z.cpu |-> Resolved(z.cpu[n])]
<1>1. y = WithBlocks(z, c) \/ y = Fail(z)
  BY DEF Resolve, WithBlocks
<1>2. DOMAIN c = DOMAIN z.cpu /\ \A n \in DOMAIN z.cpu : c[n].ref = z.cpu[n].ref
  BY DEF Resolved
<1> HIDE DEF c
<1>3. ASSUME y = WithBlocks(z, c) PROVE Good(y, M, X, E) /\ \A q : HasBlock(z, q) => HasBlock(y, q)
  <2>1. OnlyBlocks(y, z, c)
    BY <1>0, <1>3, FieldsReplaced
  <2>2. /\ IsProgram(y) /\ SameRefs(y, z) /\ y.pending = z.pending /\ IsList(y.libs)
        /\ y.ok \in BOOLEAN /\ y.cpu = c
    BY <1>0, <2>1 DEF OnlyBlocks, SameState
  <2>3. Good(y, M, X, E)
    BY <1>2, <2>2, SameGood
  <2> QED BY <1>2, <2>2, <2>3 DEF HasBlock
<1>4. ASSUME y = Fail(z) PROVE Good(y, M, X, E) /\ y.ok = FALSE
  <2>1. Good(y, M, X, E)
    BY <1>4, StoppedGood
  <2>2. y.ok = FALSE
    BY <1>0, <1>4, Stopped
  <2> QED BY <2>1, <2>2
<1> QED BY <1>1, <1>3, <1>4

\* A build leaves a good program; one that succeeds has made a block of every raw
\* block, and no later kind replaced one of an earlier kind.
LEMMA BuildGood ==
  ASSUME NEW M \in Nat, NEW X, NEW E, NEW z, Good(z, M, X, E), NEW known,
         NEW y, y = Build(z, known)
  PROVE  Good(y, M, X, E) /\ (y.ok => Has(y, z, BlockKinds))
<1> DEFINE lib == LoadLibraries(z)
           udts == InTurn(lib, "UDT")
           obs  == InTurn(udts, "OB")
           fbs  == InTurn(obs, "FB")
           fcs  == InTurn(fbs, "FC")
           dbs  == InTurn(fcs, "DB")
<1>0. y = IF dbs.ok THEN Resolve(dbs, known) ELSE dbs
  BY DEF Build
<1>1. Stage(lib, z, {}, M, X, E)
  <2>1. Good(lib, M, X, E) /\ lib.pending = z.pending
    BY LibrariesGood
  <2> QED BY <2>1 DEF Stage, Left, Has
<1> HIDE DEF lib
<1>2. Stage(udts, z, {"UDT"}, M, X, E)
  <2>1. {} \in SUBSET BlockKinds /\ "UDT" \in BlockKinds \ {} /\ {} \cup {"UDT"} = {"UDT"}
    BY DEF BlockKinds
  <2> QED BY <1>1, <2>1, NextStage
<1> HIDE DEF udts
<1>3. Stage(obs, z, {"UDT", "OB"}, M, X, E)
  <2>1. {"UDT"} \in SUBSET BlockKinds /\ "OB" \in BlockKinds \ {"UDT"} /\ {"UDT"} \cup {"OB"} = {"UDT", "OB"}
    BY DEF BlockKinds
  <2> QED BY <1>2, <2>1, NextStage
<1> HIDE DEF obs
<1>4. Stage(fbs, z, {"UDT", "OB", "FB"}, M, X, E)
  <2>1. /\ {"UDT", "OB"} \in SUBSET BlockKinds /\ "FB" \in BlockKinds \ {"UDT", "OB"}
        /\ {"UDT", "OB"} \cup {"FB"} = {"UDT", "OB", "FB"}
    BY DEF BlockKinds
  <2> QED BY <1>3, <2>1, NextStage
<1> HIDE DEF fbs
<1>5. Stage(fcs, z, {"UDT", "OB", "FB", "FC"}, M, X, E)
  <2>1. /\ {"UDT", "OB", "FB"} \in SUBSET BlockKinds /\ "FC" \in BlockKinds \ {"UDT", "OB", "FB"}
        /\ {"UDT", "OB", "FB"} \cup {"FC"} = {"UDT", "OB", "FB", "FC"}
    BY DEF BlockKinds
  <2> QED BY <1>4, <2>1, NextStage
<1> HIDE DEF fcs
<1>6. Stage(dbs, z, BlockKinds, M, X, E)
  <2>1. /\ {"UDT", "OB", "FB", "FC"} \in SUBSET BlockKinds /\ "DB" \in BlockKinds \ {"UDT", "OB", "FB", "FC"}
        /\ {"UDT", "OB", "FB", "FC"} \cup {"DB"} = BlockKinds
    BY DEF BlockKinds
  <2> QED BY <1>5, <2>1, NextStage
<1> HIDE DEF dbs
<1>7. Good(dbs, M, X, E) /\ (dbs.ok => Has(dbs, z, BlockKinds))
  BY <1>6 DEF Stage
<1>8. CASE ~dbs.ok
  <2>1. y = dbs
    BY <1>0, <1>8
  <2> QED BY <1>7, <2>1
<1>9. CASE dbs.ok
  <2>1. y = Resolve(dbs, known)
    BY <1>0, <1>9
  <2>2. Good(y, M, X, E) /\ \A q : y.ok /\ HasBlock(dbs, q) => HasBlock(y, q)
    BY <1>7, <2>1, ResolveGood
  <2>3. y.ok => Has(y, z, BlockKinds)
    BY <1>7, <1>9, <2>2 DEF Has
  <2> QED BY <2>2, <2>3
<1> QED BY <1>8, <1>9

-----------------------------------------------------------------------------
(* What the messages make of the program.                                  *)

\* There may be more managers, more of them failed and more of them empty.
LEMMA MoreGood ==
  ASSUME NEW M \in Nat, NEW X, NEW E, NEW z, Good(z, M, X, E),
         NEW N \in Nat, M <= N, NEW Y, X \subseteq Y, NEW F, E \subseteq F
  PROVE  Good(z, N, Y, F)
<1>1. 1..M \subseteq 1..N
  OBVIOUS
<1>2. \A of, k : Reference(of, k, M) \subseteq Reference(of, k, N)
  BY <1>1 DEF Reference
<1>3. Typed(z, N)
  <2>1. \A k \in BlockKinds : \A i \in Place(z, k) : Raw(z, k, i) \in Reference("raw", k, N)
    BY <1>2 DEF Good, Typed
  <2>2. \A n \in DOMAIN z.cpu : z.cpu[n].ref = NoRef \/ z.cpu[n].ref \in Reference("block", n[1], N)
    BY <1>2 DEF Good, Typed
  <2>3. \A r \in z.refs : \E k \in BlockKinds : r \in Reference("raw", k, N) \/ r \in Reference("block", k, N)
    BY <1>2 DEF Good, Typed
  <2>4. z.dead \subseteq 1..N /\ z.listed \subseteq 1..N
    BY <1>1 DEF Good, Typed
  <2> QED BY <2>1, <2>2, <2>3, <2>4 DEF Typed
<1>4. Told(z, Y, F)
  BY DEF Good, Told
<1> QED BY <1>3, <1>4 DEF Good

\* Nothing is wrong with a program without blocks.
LEMMA NothingGood ==
  ASSUME NEW M, NEW X, NEW E, NEW z, IsProgram(z), z.ok = TRUE, z.pending = NoBlocks, z.libs = <<>>,
         z.cpu = <<>>, z.refs = {}, z.dead \subseteq 1..M, z.listed = {}
  PROVE  Good(z, M, X, E)
<1>1. \A k \in BlockKinds : z.pending[k] = <<>> /\ Place(z, k) = {}
  BY DEF NoBlocks, Place
<1>2. DOMAIN z.cpu = {}
  OBVIOUS
<1>3. Shaped(z)
  <2>1. IsList(<<>>)
    BY DEF IsList
  <2>2. z.pending = [k \in BlockKinds |-> z.pending[k]]
    BY DEF NoBlocks
  <2> QED BY <1>1, <2>1, <2>2 DEF Shaped
<1>4. Typed(z, M) /\ BlocksBacked(z) /\ Held(z)
  BY <1>1, <1>2 DEF Typed, BlocksBacked, Held
<1>5. PassedOn(z) /\ Distinct(z) /\ Told(z, X, E)
  BY <1>1, <1>2 DEF PassedOn, Distinct, Told
<1> QED BY <1>3, <1>4, <1>5 DEF Good

LEMMA SeqIsList ==
  ASSUME NEW S, NEW p \in Seq(S)
  PROVE  IsList(p)
<1>1. Len(p) \in Nat /\ p \in [1..Len(p) -> S]
  BY LenProperties
<1>2. p = [i \in 1..Len(p) |-> p[i]]
  <2> DEFINE N == Len(p)
  <2>1. p \in [1..N -> S]
    BY <1>1
  <2> HIDE DEF N
  <2>2. p = [i \in 1..N |-> p[i]]
    BY <2>1
  <2> QED BY <2>2 DEF N
<1> QED BY <1>1, <1>2 DEF IsList

\* Two lists in a row.
LEMMA ListsJoined ==
  ASSUME NEW p, IsList(p), NEW q, IsList(q)
  PROVE  /\ IsList(p \o q) /\ Len(p \o q) = Len(p) + Len(q)
         /\ \A i \in 1..Len(p) : (p \o q)[i] = p[i]
         /\ \A i \in 1..Len(q) : (p \o q)[Len(p) + i] = q[i]
<1> DEFINE S == {p[i] : i \in 1..Len(p)} \cup {q[i] : i \in 1..Len(q)}
<1>1. p \in Seq(S)
  <2>1. \A i \in 1..Len(p) : p[i] \in S
    OBVIOUS
  <2> HIDE DEF S
  <2>2. p \in [1..Len(p) -> S] /\ Len(p) \in Nat
    BY <2>1 DEF IsList
  <2> QED BY <2>2
<1>2. q \in Seq(S)
  <2>1. \A i \in 1..Len(q) : q[i] \in S
    OBVIOUS
  <2> HIDE DEF S
  <2>2. q \in [1..Len(q) -> S] /\ Len(q) \in Nat
    BY <2>1 DEF IsList
  <2> QED BY <2>2
<1> HIDE DEF S
<1>3. p \o q \in Seq(S) /\ Len(p \o q) = Len(p) + Len(q) /\ Len(p) \in Nat /\ Len(q) \in Nat
  BY <1>1, <1>2
<1>4. IsList(p \o q)
  BY <1>3, SeqIsList
<1>5. \A i \in 1..Len(p) : (p \o q)[i] = p[i]
  BY <1>1, <1>2
<1>6. ASSUME NEW i \in 1..Len(q) PROVE (p \o q)[Len(p) + i] = q[i]
  <2>1. Len(p) + i \in 1..Len(p) + Len(q) /\ ~(Len(p) + i <= Len(p)) /\ (Len(p) + i) - Len(p) = i
    BY <1>3
  <2> QED BY <1>1, <1>2, <1>3, <2>1
<1> QED BY <1>3, <1>4, <1>5, <1>6

\* What is a library block more to load.
LEMMA ListLonger ==
  ASSUME NEW p, IsList(p), NEW e
  PROVE  IsList(Append(p, e))
<1> DEFINE S == {p[i] : i \in 1..Len(p)} \cup {e}
<1>1. p \in Seq(S)
  <2>1. \A i \in 1..Len(p) : p[i] \in S
    OBVIOUS
  <2> HIDE DEF S
  <2>2. p \in [1..Len(p) -> S] /\ Len(p) \in Nat
    BY <2>1 DEF IsList
  <2> QED BY <2>2
<1>2. e \in S
  OBVIOUS
<1> HIDE DEF S
<1>3. Append(p, e) \in Seq(S)
  BY <1>1, <1>2
<1> QED BY <1>3, SeqIsList

-----------------------------------------------------------------------------
(* A source is added.                                                      *)

\* The references that the raw blocks of a source get.
NewRefs(source, m) == UNION {{RawRef(m, k, i) : i \in 1..Len(source[k])} : k \in BlockKinds}

\* A tree of blocks, kind by kind.
IsTree(source) == \A k \in BlockKinds : Len(source[k]) \in Nat

\* The raw blocks of y are those of z and after them those of a source.
Queued(y, z, source, m) ==
    /\ y.pending = [k \in BlockKinds |-> y.pending[k]]
    /\ \A k \in BlockKinds :
          /\ IsList(y.pending[k])
          /\ Len(y.pending[k]) = Len(z.pending[k]) + Len(source[k])
          /\ \A i \in Place(z, k) : y.pending[k][i] = z.pending[k][i]
          /\ \A i \in 1..Len(source[k]) : Raw(y, k, Len(z.pending[k]) + i) = RawRef(m, k, i)

LEMMA AllQueued ==
  ASSUME NEW z, Shaped(z), NEW source, IsTree(source), NEW m, NEW y, y = AddRaw(z, source, m)
  PROVE  /\ Queued(y, z, source, m)
         /\ IsProgram(y) /\ SameState(y, z) /\ y.dead = z.dead /\ y.listed = z.listed
         /\ y.libs = z.libs /\ y.cpu = z.cpu /\ y.refs = z.refs \cup NewRefs(source, m)
<1> DEFINE p == [k \in BlockKinds |-> z.pending[k] \o RawBlocks(source, m)[k]]
<1>1. y = WithRaws(z, p, z.refs \cup NewRefs(source, m))
  BY DEF AddRaw, WithRaws, NewRefs
<1>2. IsProgram(z)
  BY DEF Shaped
<1>3. \A k \in BlockKinds : p[k] = z.pending[k] \o RawBlocks(source, m)[k]
  OBVIOUS
<1>4. p = [k \in BlockKinds |-> p[k]]
  OBVIOUS
<1> HIDE DEF p
<1>5. RawsAndRefs(y, z, p, z.refs \cup NewRefs(source, m))
  BY <1>1, <1>2, FieldsReplaced
<1>6. ASSUME NEW k \in BlockKinds
      PROVE  /\ IsList(p[k]) /\ Len(p[k]) = Len(z.pending[k]) + Len(source[k])
             /\ \A i \in Place(z, k) : p[k][i] = z.pending[k][i]
             /\ \A i \in 1..Len(source[k]) : p[k][Len(z.pending[k]) + i].ref = RawRef(m, k, i)
  <2> DEFINE q == RawBlocks(source, m)[k]
  <2>1. q = [i \in 1..Len(source[k]) |-> RawBlock(source[k][i], RawRef(m, k, i))] /\ Len(source[k]) \in Nat
    BY DEF RawBlocks, IsTree
  <2> HIDE DEF q
  <2>2. Len(q) = Len(source[k]) /\ \A i \in 1..Len(source[k]) : q[i].ref = RawRef(m, k, i)
    BY <2>1 DEF RawBlock
  <2>3. IsList(q) /\ IsList(z.pending[k])
    BY <2>1, <2>2 DEF IsList, Shaped
  <2>4. /\ IsList(z.pending[k] \o q) /\ Len(z.pending[k] \o q) = Len(z.pending[k]) + Len(q)
        /\ \A i \in 1..Len(z.pending[k]) : (z.pending[k] \o q)[i] = z.pending[k][i]
        /\ \A i \in 1..Len(q) : (z.pending[k] \o q)[Len(z.pending[k]) + i] = q[i]
    BY <2>3, ListsJoined
  <2>5. p[k] = z.pending[k] \o q
    BY <1>3 DEF q
  <2> QED BY <2>2, <2>4, <2>5 DEF Place
<1>7. /\ y.pending = p /\ IsProgram(y) /\ SameState(y, z) /\ y.dead = z.dead /\ y.listed = z.listed
      /\ y.libs = z.libs /\ y.cpu = z.cpu /\ y.refs = z.refs \cup NewRefs(source, m)
  BY <1>5 DEF RawsAndRefs
<1>8. Queued(y, z, source, m)
  BY <1>4, <1>6, <1>7 DEF Queued, Raw
<1> QED BY <1>7, <1>8

\* The reference of a new raw block.
LEMMA NewRef ==
  ASSUME NEW M \in Nat, NEW k \in BlockKinds, NEW i \in Nat
  PROVE  /\ RawRef(M + 1, k, i) \in Reference("raw", k, M + 1)
         /\ RawRef(M + 1, k, i).src = M + 1 /\ RawRef(M + 1, k, i).at = i
         /\ RawRef(M + 1, k, i).of = "raw"
         /\ BlockRef(RawRef(M + 1, k, i)).src = M + 1
         /\ BlockRef(RawRef(M + 1, k, i)).of = "block"
BY DEF RawRef, Reference, BlockRef

\* Where a raw block is: among those that were there or among the new ones.
LEMMA OldOrNew ==
  ASSUME NEW M \in Nat, NEW X, NEW E, NEW z, Good(z, M, X, E), NEW source, IsTree(source),
         NEW y, Queued(y, z, source, M + 1), NEW k \in BlockKinds
  PROVE  /\ \A i \in Place(z, k) : i \in Place(y, k) /\ y.pending[k][i] = z.pending[k][i]
                                   /\ Raw(y, k, i) = Raw(z, k, i)
         /\ \A i \in Place(y, k) \ Place(z, k) :
               /\ i - Len(z.pending[k]) \in 1..Len(source[k])
               /\ Raw(y, k, i) = RawRef(M + 1, k, i - Len(z.pending[k]))
         /\ \A i \in 1..Len(source[k]) : \E j \in Place(y, k) : Raw(y, k, j) = RawRef(M + 1, k, i)
         /\ Len(z.pending[k]) \in Nat
<1> DEFINE P == Len(z.pending[k])
           N == Len(source[k])
<1>1. P \in Nat /\ N \in Nat /\ Len(y.pending[k]) = P + N
  BY DEF Good, Shaped, IsList, IsTree, Queued
<1>2. /\ \A i \in Place(z, k) : y.pending[k][i] = z.pending[k][i]
      /\ \A i \in 1..N : Raw(y, k, P + i) = RawRef(M + 1, k, i)
  BY DEF Queued
<1>3. Place(z, k) = 1..P /\ Place(y, k) = 1..P + N
  BY <1>1 DEF Place
<1> HIDE DEF P, N
<1>4. ASSUME NEW i \in Place(z, k)
      PROVE  i \in Place(y, k) /\ y.pending[k][i] = z.pending[k][i] /\ Raw(y, k, i) = Raw(z, k, i)
  BY <1>1, <1>2, <1>3 DEF Raw
<1>5. ASSUME NEW i \in Place(y, k) \ Place(z, k)
      PROVE  i - P \in 1..N /\ Raw(y, k, i) = RawRef(M + 1, k, i - P)
  <2>1. i - P \in 1..N /\ P + (i - P) = i
    BY <1>1, <1>3
  <2> QED BY <1>2, <2>1
<1>6. ASSUME NEW i \in 1..N
      PROVE  \E j \in Place(y, k) : Raw(y, k, j) = RawRef(M + 1, k, i)
  <2>1. P + i \in Place(y, k)
    BY <1>1, <1>3
  <2> QED BY <1>2, <2>1
<1> QED BY <1>1, <1>4, <1>5, <1>6 DEF P, N

\* The references of a good program are to its managers.
LEMMA OldRefs ==
  ASSUME NEW M \in Nat, NEW X, NEW E, NEW z, Good(z, M, X, E)
  PROVE  /\ \A r \in z.refs : r.src \in 1..M
         /\ \A n \in DOMAIN z.cpu : z.cpu[n].ref.src \in 0..M
         /\ \A k \in BlockKinds : \A i \in Place(z, k) :
               Raw(z, k, i).src \in 1..M /\ BlockRef(Raw(z, k, i)).src \in 1..M
<1>1. \A of, k : \A r \in Reference(of, k, M) : r.src \in 1..M
  BY DEF Reference
<1>2. \A r \in z.refs : r.src \in 1..M
  BY <1>1 DEF Good, Typed
<1>3. NoRef.src = 0
  BY DEF NoRef, NoSource
<1>4. ASSUME NEW n \in DOMAIN z.cpu PROVE z.cpu[n].ref.src \in 0..M
  <2>1. z.cpu[n].ref = NoRef \/ z.cpu[n].ref \in Reference("block", n[1], M)
    BY DEF Good, Typed
  <2> QED BY <1>1, <1>3, <2>1
<1>5. ASSUME NEW k \in BlockKinds, NEW i \in Place(z, k)
      PROVE  Raw(z, k, i).src \in 1..M /\ BlockRef(Raw(z, k, i)).src \in 1..M
  BY <1>1, RawFacts
<1> QED BY <1>2, <1>4, <1>5

LEMMA AddedGood ==
  ASSUME NEW M \in Nat, NEW X, NEW E, NEW z, Good(z, M, X, E), NEW source, IsTree(source),
         NEW y, y = AddRaw(z, source, M + 1)
  PROVE  Good(y, M + 1, X \cup {M + 1}, E) /\ y.ok = z.ok
<1> DEFINE m == M + 1
           New == NewRefs(source, m)
<1>0. m \in Nat /\ M <= m /\ m \notin 0..M
  OBVIOUS
<1>1. /\ Queued(y, z, source, m)
      /\ IsProgram(y) /\ SameState(y, z) /\ y.dead = z.dead /\ y.listed = z.listed
      /\ y.libs = z.libs /\ y.cpu = z.cpu /\ y.refs = z.refs \cup New
  <2>1. Shaped(z)
    BY DEF Good
  <2> QED BY <2>1, AllQueued
<1>2. ASSUME NEW k \in BlockKinds
      PROVE  /\ \A i \in Place(z, k) : i \in Place(y, k) /\ y.pending[k][i] = z.pending[k][i]
                                       /\ Raw(y, k, i) = Raw(z, k, i)
             /\ \A i \in Place(y, k) \ Place(z, k) :
                   /\ i - Len(z.pending[k]) \in 1..Len(source[k])
                   /\ Raw(y, k, i) = RawRef(m, k, i - Len(z.pending[k]))
             /\ \A i \in 1..Len(source[k]) : \E j \in Place(y, k) : Raw(y, k, j) = RawRef(m, k, i)
             /\ Len(z.pending[k]) \in Nat /\ Len(source[k]) \in Nat
  BY <1>1, OldOrNew DEF IsTree
<1>3. /\ \A r \in z.refs : r.src \in 1..M
      /\ \A n \in DOMAIN z.cpu : z.cpu[n].ref.src \in 0..M
      /\ \A k \in BlockKinds : \A i \in Place(z, k) :
            Raw(z, k, i).src \in 1..M /\ BlockRef(Raw(z, k, i)).src \in 1..M
  BY OldRefs
<1>4. Good(z, m, X \cup {m}, E)
  BY <1>0, MoreGood
\* The references of the new raw blocks.
<1>5. ASSUME NEW k \in BlockKinds, NEW i \in Place(y, k) \ Place(z, k)
      PROVE  /\ Raw(y, k, i) \in Reference("raw", k, m) /\ Raw(y, k, i) \in New
             /\ Raw(y, k, i).src = m /\ Raw(y, k, i).at = i - Len(z.pending[k])
             /\ BlockRef(Raw(y, k, i)).src = m /\ BlockRef(Raw(y, k, i)).of = "block"
  <2>1. /\ i - Len(z.pending[k]) \in 1..Len(source[k])
        /\ Raw(y, k, i) = RawRef(m, k, i - Len(z.pending[k]))
    BY <1>2
  <2> DEFINE j == i - Len(z.pending[k])
  <2>2. j \in Nat
    BY <1>2, <2>1
  <2> HIDE DEF j
  <2>3. RawRef(m, k, j) \in New
    BY <2>1 DEF NewRefs, j
  <2>4. /\ RawRef(m, k, j) \in Reference("raw", k, m)
        /\ RawRef(m, k, j).src = m /\ RawRef(m, k, j).at = j
        /\ BlockRef(RawRef(m, k, j)).src = m /\ BlockRef(RawRef(m, k, j)).of = "block"
    BY <2>2, NewRef
  <2> QED BY <2>1, <2>3, <2>4 DEF j
<1>6. ASSUME NEW r \in New
      PROVE  \E k \in BlockKinds : \E i \in 1..Len(source[k]) :
                r = RawRef(m, k, i) /\ r \in Reference("raw", k, m) /\ r.src = m /\ r.of = "raw"
  <2>1. PICK k \in BlockKinds : \E i \in 1..Len(source[k]) : r = RawRef(m, k, i)
    BY DEF NewRefs
  <2>3. PICK i \in 1..Len(source[k]) : r = RawRef(m, k, i)
    BY <2>1
  <2>2. i \in Nat
    BY <1>2
  <2> QED BY <2>3, <2>2, NewRef
<1> HIDE DEF m, New
<1>7. Shaped(y)
  <2>1. y.pending = [k \in BlockKinds |-> y.pending[k]] /\ \A k \in BlockKinds : IsList(y.pending[k])
    BY <1>1 DEF Queued
  <2>2. IsList(y.libs) /\ y.ok \in BOOLEAN
    BY <1>1 DEF Good, Shaped, SameState
  <2> QED BY <1>1, <2>1, <2>2 DEF Shaped
<1>8. Typed(y, m)
  <2>1. \A k \in BlockKinds : \A i \in Place(y, k) : Raw(y, k, i) \in Reference("raw", k, m)
    BY <1>2, <1>4, <1>5 DEF Good, Typed
  <2>2. \A r \in y.refs : \E k \in BlockKinds : r \in Reference("raw", k, m) \/ r \in Reference("block", k, m)
    BY <1>1, <1>4, <1>6 DEF Good, Typed
  <2> QED BY <1>1, <1>4, <2>1, <2>2 DEF Good, Typed
<1>9. BlocksBacked(y)
  BY <1>1 DEF Good, BlocksBacked
<1>10. Held(y)
  <2>1. ASSUME NEW r \in z.refs PROVE OfRaw(y, r) \/ OfBlock(y, r) \/ GivenUp(y, r)
    <3>1. OfRaw(z, r) \/ OfBlock(z, r) \/ GivenUp(z, r)
      BY DEF Good, Held
    <3>2. OfBlock(z, r) => OfBlock(y, r)
      BY <1>1 DEF OfBlock
    <3>3. OfRaw(z, r) => OfRaw(y, r)
      BY <1>2 DEF OfRaw
    <3>4. GivenUp(z, r) => GivenUp(y, r)
      BY <1>2 DEF GivenUp
    <3> QED BY <3>1, <3>2, <3>3, <3>4
  <2>2. ASSUME NEW r \in New PROVE OfRaw(y, r)
    BY <1>2, <1>6 DEF OfRaw
  <2> QED BY <1>1, <2>1, <2>2 DEF Held
\* An old reference is alive as before; none of the new ones is a block's.
<1>11. ASSUME NEW k \in BlockKinds, NEW i \in Place(z, k)
       PROVE  /\ Raw(y, k, i) \in y.refs <=> Raw(z, k, i) \in z.refs
              /\ BlockRef(Raw(y, k, i)) \in y.refs <=> BlockRef(Raw(z, k, i)) \in z.refs
  <2>1. Raw(z, k, i).src # m /\ BlockRef(Raw(z, k, i)).src # m
    BY <1>0, <1>3
  <2>2. Raw(z, k, i) \notin New /\ BlockRef(Raw(z, k, i)) \notin New
    BY <1>6, <2>1
  <2>3. Raw(y, k, i) = Raw(z, k, i)
    BY <1>2
  <2> QED BY <1>1, <2>2, <2>3
<1>12. ASSUME NEW k \in BlockKinds, NEW i \in Place(y, k) \ Place(z, k)
       PROVE  Raw(y, k, i) \in y.refs /\ BlockRef(Raw(y, k, i)) \notin y.refs
  <2>1. BlockRef(Raw(y, k, i)) \notin New
    BY <1>5, <1>6
  <2>2. BlockRef(Raw(y, k, i)) \notin z.refs
    BY <1>0, <1>3, <1>5
  <2> QED BY <1>1, <1>5, <2>1, <2>2
<1>13. PassedOn(y)
  <2> SUFFICES ASSUME NEW k \in BlockKinds, NEW i \in Place(y, k)
               PROVE  /\ Raw(y, k, i) \in y.refs <=> BlockRef(Raw(y, k, i)) \notin y.refs
                      /\ \A j \in 1..i - 1 : Raw(y, k, i) \notin y.refs => Raw(y, k, j) \notin y.refs
    BY DEF PassedOn
  <2>1. CASE i \notin Place(z, k)
    BY <1>12, <2>1
  <2>2. CASE i \in Place(z, k)
    <3>1. \A j \in 1..i - 1 : j \in Place(z, k)
      BY <1>2, <2>2 DEF Place
    <3>2. /\ Raw(z, k, i) \in z.refs <=> BlockRef(Raw(z, k, i)) \notin z.refs
          /\ \A j \in 1..i - 1 : Raw(z, k, i) \notin z.refs => Raw(z, k, j) \notin z.refs
      BY <2>2 DEF Good, PassedOn
    <3> QED BY <1>11, <2>2, <3>1, <3>2
  <2> QED BY <2>1, <2>2
<1>14. Distinct(y)
  <2>1. ASSUME NEW k \in BlockKinds, NEW i \in Place(y, k), NEW j \in Place(y, k), Raw(y, k, i) = Raw(y, k, j)
        PROVE  i = j
    <3>1. CASE i \in Place(z, k) /\ j \in Place(z, k)
      BY <1>2, <2>1, <3>1 DEF Good, Distinct
    <3>2. CASE i \notin Place(z, k) /\ j \notin Place(z, k)
      <4>1. i - Len(z.pending[k]) = j - Len(z.pending[k])
        BY <1>5, <2>1, <3>2
      <4>2. Len(z.pending[k]) \in Nat /\ i \in Int /\ j \in Int
        BY <1>2 DEF Place
      <4> QED BY <4>1, <4>2
    <3>3. CASE i \in Place(z, k) /\ j \notin Place(z, k)
      BY <1>0, <1>2, <1>3, <1>5, <2>1, <3>3
    <3>4. CASE i \notin Place(z, k) /\ j \in Place(z, k)
      BY <1>0, <1>2, <1>3, <1>5, <2>1, <3>4
    <3> QED BY <3>1, <3>2, <3>3, <3>4
  <2>2. \A n, l \in DOMAIN y.cpu : y.cpu[n].ref = y.cpu[l].ref => n = l \/ y.cpu[n].ref = NoRef
    BY <1>1 DEF Good, Distinct
  <2>3. ASSUME NEW k \in BlockKinds, NEW i \in Place(y, k), NEW n \in DOMAIN y.cpu,
               y.cpu[n].ref = BlockRef(Raw(y, k, i))
        PROVE  n = <<k, y.pending[k][i].nr>>
    <3>1. CASE i \in Place(z, k)
      BY <1>1, <1>2, <2>3, <3>1 DEF Good, Distinct
    <3>2. CASE i \notin Place(z, k)
      BY <1>0, <1>1, <1>3, <1>5, <2>3, <3>2
    <3> QED BY <3>1, <3>2
  <2> QED BY <2>1, <2>2, <2>3 DEF Distinct
<1>15. Told(y, X \cup {m}, E)
  <2>1. Told(z, X \cup {m}, E) /\ m \notin z.dead
    <3>1. z.dead \subseteq 1..M
      BY DEF Good, Typed
    <3> QED BY <1>0, <1>4, <3>1 DEF Good
  <2>2. \A q \in y.listed : q \notin y.dead /\ (q \in E \/ HasReferences(y.refs, q))
    BY <1>1, <2>1 DEF Told, HasReferences
  <2>3. ASSUME NEW r \in y.refs
        PROVE  r.src \notin y.dead /\ (r.src \in X \cup {m} \/ r.src \in y.listed)
    BY <1>1, <1>6, <2>1 DEF Told
  <2> QED BY <2>2, <2>3 DEF Told
<1>16. y.ok = z.ok
  BY <1>1 DEF SameState
<1> QED BY <1>7, <1>8, <1>9, <1>10, <1>13, <1>14, <1>15, <1>16 DEF Good, m

\* A source without blocks adds nothing.
LEMMA NothingAdded ==
  ASSUME NEW M \in Nat, NEW X, NEW E, NEW z, Good(z, M, X, E), NEW m,
         NEW y, y = AddRaw(z, NoBlocks, m)
  PROVE  Good(y, M, X, E)
<1>0. \A k \in BlockKinds : Len(NoBlocks[k]) = 0
  BY DEF NoBlocks
<1>1. Shaped(z) /\ IsTree(NoBlocks)
  BY <1>0 DEF Good, IsTree
<1>2. /\ Queued(y, z, NoBlocks, m)
      /\ IsProgram(y) /\ SameState(y, z) /\ y.dead = z.dead /\ y.listed = z.listed
      /\ y.libs = z.libs /\ y.cpu = z.cpu /\ y.refs = z.refs \cup NewRefs(NoBlocks, m)
  BY <1>1, AllQueued
<1>3. ASSUME NEW k \in BlockKinds PROVE y.pending[k] = z.pending[k]
  <2> DEFINE p == y.pending[k]
             q == z.pending[k]
  <2>1. IsList(p) /\ Len(p) = Len(q) + Len(NoBlocks[k]) /\ \A i \in 1..Len(q) : p[i] = q[i]
    BY <1>2 DEF Queued, Place
  <2>2. IsList(q)
    BY <1>1 DEF Shaped
  <2> HIDE DEF p, q
  <2>5. Len(NoBlocks[k]) = 0 /\ Len(q) \in Nat
    BY <1>0, <2>2 DEF IsList
  <2>3. Len(p) = Len(q)
    BY <2>1, <2>5
  <2>4. p = q
    BY <2>1, <2>2, <2>3 DEF IsList
  <2> QED BY <2>4 DEF p, q
<1>4. y.pending = z.pending
  <2>1. y.pending = [k \in BlockKinds |-> y.pending[k]] /\ z.pending = [k \in BlockKinds |-> z.pending[k]]
    BY <1>1, <1>2 DEF Queued, Shaped
  <2> QED BY <1>3, <2>1
<1>5. NewRefs(NoBlocks, m) = {}
  BY <1>0 DEF NewRefs
<1>6. SameRefs(y, z) /\ IsProgram(y) /\ y.cpu = z.cpu /\ IsList(y.libs) /\ y.ok \in BOOLEAN
  BY <1>1, <1>2, <1>5 DEF SameRefs, SameState, Shaped
<1> QED BY <1>4, <1>6, SameGood

\* The manager is listed, and may be.
LEMMA ListedGood ==
  ASSUME NEW m \in Nat \ {0}, NEW X, NEW E, NEW z, Good(z, m, X \cup {m}, E),
         m \notin z.dead, m \in E \/ HasReferences(z.refs, m),
         NEW y, IsProgram(y), y.ok = TRUE, y.pending = z.pending, y.libs = z.libs, y.cpu = z.cpu,
         y.refs = z.refs, y.dead = z.dead, y.listed = z.listed \cup {m}
  PROVE  Good(y, m, X, E)
<1>1. Shaped(y)
  BY DEF Good, Shaped
<1>2. Typed(y, m)
  <2>1. m \in 1..m
    OBVIOUS
  <2>2. \A k \in BlockKinds : \A i \in Place(y, k) : Raw(y, k, i) \in Reference("raw", k, m)
    BY DEF Good, Typed, Place, Raw
  <2>3. \A n \in DOMAIN y.cpu : y.cpu[n].ref = NoRef \/ y.cpu[n].ref \in Reference("block", n[1], m)
    BY DEF Good, Typed
  <2>4. \A r \in y.refs : \E k \in BlockKinds : r \in Reference("raw", k, m) \/ r \in Reference("block", k, m)
    BY DEF Good, Typed
  <2>5. y.dead \subseteq 1..m /\ y.listed \subseteq 1..m
    BY <2>1 DEF Good, Typed
  <2> QED BY <2>2, <2>3, <2>4, <2>5 DEF Typed
<1>3. BlocksBacked(y)
  BY DEF Good, BlocksBacked
<1>4. Held(y)
  BY DEF Good, Held, OfRaw, OfBlock, GivenUp, Place, Raw
<1>5. PassedOn(y)
  BY DEF Good, PassedOn, Place, Raw
<1>6. Distinct(y)
  BY DEF Good, Distinct, Place, Raw
<1>7. Told(y, X, E)
  BY DEF Good, Told
<1> QED BY <1>1, <1>2, <1>3, <1>4, <1>5, <1>6, <1>7 DEF Good

-----------------------------------------------------------------------------
(* The invariant.  The program of the server is good: the raw blocks and   *)
(* the blocks of the CPU hold the references there are, one each, and the  *)
(* list of the sources agrees with them.                                   *)

Empties == {m \in 1..Len(loads) : loads[m] = NoBlocks}

DownloadInv ==
    /\ loads \in Seq(Sources \cup {NoBlocks})
    /\ Good(Program, Len(loads), failed, Empties)

LEMMA TheProgram ==
  /\ IsProgram(Program) /\ Program.pending = pending /\ Program.libs = pendingLibs /\ Program.cpu = cpu
  /\ Program.refs = refs /\ Program.dead = dead /\ Program.listed = awlSources /\ Program.ok = TRUE
BY DEF Program, IsProgram, Fields

LEMMA TheNextProgram ==
  /\ IsProgram(Program') /\ Program'.pending = pending' /\ Program'.libs = pendingLibs'
  /\ Program'.cpu = cpu' /\ Program'.refs = refs' /\ Program'.dead = dead'
  /\ Program'.listed = awlSources' /\ Program'.ok = TRUE
BY DEF Program, IsProgram, Fields

LEMMA Becoming ==
  ASSUME NEW M \in Nat, NEW X, NEW E, NEW z, Good(z, M, X, E), Becomes(z), awlSources' = z.listed
  PROVE  Good(Program', M, X, E)
<1>1. /\ pending' = z.pending /\ pendingLibs' = z.libs /\ cpu' = z.cpu
      /\ refs' = z.refs /\ dead' = z.dead
  BY DEF Becomes
<1> DEFINE y == Program'
<1>2. /\ IsProgram(y) /\ y.pending = z.pending /\ y.libs = z.libs /\ y.cpu = z.cpu
      /\ y.refs = z.refs /\ y.dead = z.dead /\ y.listed = z.listed /\ y.ok = TRUE
  BY <1>1, TheNextProgram
<1> HIDE DEF y
<1>3. IsList(y.libs) /\ y.ok \in BOOLEAN /\ SameRefs(y, z)
  BY <1>2 DEF Good, Shaped, SameRefs
<1>4. Good(y, M, X, E)
  BY <1>2, <1>3, SameGood
<1> QED BY <1>4 DEF y

LEMMA LoadsGrow ==
  ASSUME loads \in Seq(Sources \cup {NoBlocks}), NEW s \in Sources \cup {NoBlocks}, NewLoad(s)
  PROVE  /\ loads' \in Seq(Sources \cup {NoBlocks}) /\ Len(loads) \in Nat
         /\ Len(loads') = Len(loads) + 1
         /\ Empties \subseteq Empties' /\ (s = NoBlocks => Len(loads) + 1 \in Empties')
<1>1. loads' = Append(loads, s)
  BY DEF NewLoad
<1>2. /\ loads' \in Seq(Sources \cup {NoBlocks}) /\ Len(loads) \in Nat
      /\ Len(loads') = Len(loads) + 1 /\ loads'[Len(loads) + 1] = s
      /\ \A i \in 1..Len(loads) : loads'[i] = loads[i]
  BY <1>1
<1>3. Empties' = {m \in 1..Len(loads') : loads'[m] = NoBlocks}
  BY DEF Empties
<1>4. Empties \subseteq Empties'
  BY <1>2, <1>3 DEF Empties
<1>5. s = NoBlocks => Len(loads) + 1 \in Empties'
  BY <1>2, <1>3
<1> QED BY <1>2, <1>4, <1>5

LEMMA InitDownload == DownloadInit => DownloadInv
<1> SUFFICES ASSUME DownloadInit PROVE DownloadInv
  OBVIOUS
<1>1. loads = <<>> /\ loads \in Seq(Sources \cup {NoBlocks})
  BY DEF DownloadInit
<1>2. /\ IsProgram(Program) /\ Program.pending = NoBlocks /\ Program.libs = <<>> /\ Program.cpu = <<>>
      /\ Program.refs = {} /\ Program.dead = {} /\ Program.listed = {} /\ Program.ok = TRUE
  BY TheProgram DEF DownloadInit
<1>3. Program.dead \subseteq 1..Len(loads)
  BY <1>2
<1>4. Good(Program, Len(loads), failed, Empties)
  BY <1>2, <1>3, NothingGood
<1> QED BY <1>1, <1>4 DEF DownloadInv

\* The blocks of a source that has some.
LEMMA SomeBlock ==
  ASSUME NEW source \in Sources, source # NoBlocks
  PROVE  \E k \in BlockKinds : 1 \in 1..Len(source[k])
<1>1. /\ source = [k \in BlockKinds |-> source[k]]
      /\ \A k \in BlockKinds : source[k] = [i \in 1..Len(source[k]) |-> source[k][i]] /\ Len(source[k]) \in Nat
  BY DownloadAssumption
<1>2. SUFFICES ASSUME \A k \in BlockKinds : 1 \notin 1..Len(source[k]) PROVE FALSE
  OBVIOUS
<1>3. ASSUME NEW k \in BlockKinds PROVE source[k] = <<>>
  <2> DEFINE q == source[k]
  <2>1. Len(q) = 0
    BY <1>1, <1>2
  <2>2. q = [i \in 1..Len(q) |-> q[i]]
    BY <1>1
  <2> HIDE DEF q
  <2>3. q = <<>>
    BY <2>1, <2>2
  <2> QED BY <2>3 DEF q
<1>4. source = NoBlocks
  BY <1>1, <1>3 DEF NoBlocks
<1> QED BY <1>4

\* After a build that succeeded a source has a reference, and is not given up.
LEMMA NewReferred ==
  ASSUME NEW M \in Nat, NEW X, NEW E, NEW x, Good(x, M, X, E), NEW source \in Sources, source # NoBlocks,
         NEW y, y = AddRaw(x, source, M + 1),
         NEW z, Good(z, M + 1, X \cup {M + 1}, E), z = y \/ Has(z, y, BlockKinds)
  PROVE  HasReferences(z.refs, M + 1) /\ M + 1 \notin z.dead
<1> DEFINE m == M + 1
<1>0. IsTree(source) /\ Shaped(x)
  BY DownloadAssumption DEF IsTree, Good
<1>1. PICK k \in BlockKinds : 1 \in 1..Len(source[k])
  BY SomeBlock
<1>2. RawRef(m, k, 1).src = m /\ BlockRef(RawRef(m, k, 1)).src = m /\ m # 0
  BY NewRef
<1>3. Queued(y, x, source, m) /\ y.refs = x.refs \cup NewRefs(source, m)
  BY <1>0, AllQueued
<1>4. \E j \in Place(y, k) : Raw(y, k, j) = RawRef(m, k, 1)
  <2>1. /\ \A i \in Place(x, k) : i \in Place(y, k) /\ y.pending[k][i] = x.pending[k][i]
                                   /\ Raw(y, k, i) = Raw(x, k, i)
        /\ \A i \in Place(y, k) \ Place(x, k) :
              /\ i - Len(x.pending[k]) \in 1..Len(source[k])
              /\ Raw(y, k, i) = RawRef(m, k, i - Len(x.pending[k]))
        /\ \A i \in 1..Len(source[k]) : \E j \in Place(y, k) : Raw(y, k, j) = RawRef(m, k, i)
        /\ Len(x.pending[k]) \in Nat
    BY <1>0, <1>3, OldOrNew
  <2> QED BY <1>1, <2>1
<1> HIDE DEF m
<1>5. \E r \in z.refs : r.src = m
  <2>1. CASE z = y
    <3>1. RawRef(m, k, 1) \in NewRefs(source, m)
      BY <1>1 DEF NewRefs
    <3> QED BY <1>2, <1>3, <2>1, <3>1
  <2>2. CASE Has(z, y, BlockKinds)
    <3>1. HasBlock(z, BlockRef(RawRef(m, k, 1)))
      BY <1>4, <2>2 DEF Has
    <3>2. PICK n \in DOMAIN z.cpu : z.cpu[n].ref = BlockRef(RawRef(m, k, 1))
      BY <3>1 DEF HasBlock
    <3>3. z.cpu[n].ref # NoRef
      BY <1>2, <3>2 DEF NoRef, NoSource
    <3>4. z.cpu[n].ref \in z.refs
      BY <3>3 DEF Good, BlocksBacked
    <3> QED BY <1>2, <3>2, <3>4
  <2> QED BY <2>1, <2>2
<1>6. m \notin z.dead
  BY <1>5 DEF Good, Told
<1> QED BY <1>5, <1>6 DEF HasReferences, m

-----------------------------------------------------------------------------
(* Each message keeps the invariant.                                       *)

LEMMA LoadAwlSourceKeeps ==
  ASSUME DownloadInv, NEW source \in Sources, LoadAwlSource(source)
  PROVE  DownloadInv'
<1> DEFINE M == Len(loads)
           m == M + 1
           added == AddRaw(Program, source, m)
           z == IF NeedRebuild THEN Build(added, symbolTable) ELSE added
           X == failed
           E == Empties
           F == Empties'
<1>1. /\ NewLoad(source) /\ Becomes(z)
      /\ z.ok => awlSources' = z.listed \cup {m} /\ failed' = failed
      /\ ~z.ok => awlSources' = z.listed /\ failed' = failed \cup {m}
  BY DEF LoadAwlSource
<1>2. Good(Program, M, X, E) /\ loads \in Seq(Sources \cup {NoBlocks})
  BY DEF DownloadInv
<1>3. /\ loads' \in Seq(Sources \cup {NoBlocks}) /\ M \in Nat /\ Len(loads') = m
      /\ E \subseteq F /\ (source = NoBlocks => m \in F)
  BY <1>1, <1>2, LoadsGrow
<1>4. IsTree(source)
  BY DownloadAssumption DEF IsTree
<1> HIDE DEF M, E, F, X
<1>5. Good(added, M + 1, X \cup {M + 1}, E) /\ added.ok = Program.ok
  BY <1>2, <1>3, <1>4, AddedGood
<1>6. added.ok = TRUE
  BY <1>5, TheProgram
<1>7. m \in Nat \ {0} /\ m \in Nat /\ m \notin 1..M
  BY <1>3
<1> HIDE DEF m
<1>8. Good(added, m, X \cup {m}, E)
  BY <1>5 DEF m
<1>13. added = AddRaw(Program, source, m)
  OBVIOUS
<1> HIDE DEF added
\* What the build, if there is one, makes of it.
<1>9. Good(z, m, X \cup {m}, E) /\ (z.ok => z = added \/ Has(z, added, BlockKinds))
  <2>1. CASE ~NeedRebuild
    <3>1. z = added
      BY <2>1
    <3> QED BY <1>8, <3>1
  <2>2. CASE NeedRebuild
    <3>1. z = Build(added, symbolTable)
      BY <2>2
    <3> HIDE DEF z
    <3>2. Good(z, m, X \cup {m}, E) /\ (z.ok => Has(z, added, BlockKinds))
      BY <1>7, <1>8, <3>1, BuildGood
    <3> QED BY <3>2
  <2> QED BY <2>1, <2>2
\* A source without blocks leaves the managers as they were.
<1>10. source = NoBlocks => Good(z, M, X, E)
  <2> SUFFICES ASSUME source = NoBlocks PROVE Good(z, M, X, E)
    OBVIOUS
  <2>1. Good(added, M, X, E)
    BY <1>2, <1>3, <1>13, NothingAdded
  <2>2. CASE ~NeedRebuild
    BY <2>1, <2>2
  <2>3. CASE NeedRebuild
    <3>1. z = Build(added, symbolTable)
      BY <2>3
    <3> HIDE DEF z
    <3> QED BY <1>3, <2>1, <3>1, BuildGood
  <2> QED BY <2>2, <2>3
<1> HIDE DEF z
<1>11. Good(z, m, X \cup {m}, F)
  BY <1>3, <1>7, <1>9, MoreGood
<1>12. Good(Program', m, failed', F)
  <2>1. CASE ~z.ok
    <3>1. Good(Program', m, X \cup {m}, F)
      BY <1>1, <1>7, <1>11, <2>1, Becoming
    <3> QED BY <1>1, <2>1, <3>1 DEF X
  <2>2. CASE z.ok
    <3>1. m \notin z.dead /\ (m \in F \/ HasReferences(z.refs, m))
      <4>1. CASE source = NoBlocks
        <5>1. z.dead \subseteq 1..M
          BY <1>10, <4>1 DEF Good, Typed
        <5> QED BY <1>3, <1>7, <4>1, <5>1
      <4>2. CASE source # NoBlocks
        <5>1. Good(z, M + 1, X \cup {M + 1}, E) /\ added = AddRaw(Program, source, M + 1)
          BY <1>9, <1>13 DEF m
        <5>2. z = added \/ Has(z, added, BlockKinds)
          BY <1>9, <2>2
        <5>3. HasReferences(z.refs, M + 1) /\ M + 1 \notin z.dead
          BY <1>2, <1>3, <4>2, <5>1, <5>2, NewReferred
        <5> QED BY <5>3 DEF m
      <4> QED BY <4>1, <4>2
    <3>2. /\ Program'.pending = z.pending /\ Program'.libs = z.libs /\ Program'.cpu = z.cpu
          /\ Program'.refs = z.refs /\ Program'.dead = z.dead /\ Program'.listed = z.listed \cup {m}
          /\ IsProgram(Program') /\ Program'.ok = TRUE
      BY <1>1, <2>2, TheNextProgram DEF Becomes
    <3>3. Good(Program', m, X, F)
      BY <1>7, <1>11, <3>1, <3>2, ListedGood
    <3> QED BY <1>1, <2>2, <3>3 DEF X
  <2> QED BY <2>1, <2>2
<1> QED BY <1>3, <1>12 DEF DownloadInv, F

\* What leaves the program, or all of it but the library blocks, as it is.
LEMMA SameProgramKeeps ==
  ASSUME DownloadInv, Program' = Program, loads' = loads, failed' = failed
  PROVE  DownloadInv'
BY DEF DownloadInv, Empties

LEMMA LoadSymTabSourceKeeps ==
  ASSUME DownloadInv, NEW table \in Tables, LoadSymTabSource(table)
  PROVE  DownloadInv'
<1>1. NewLoad(NoBlocks) /\ Program' = Program /\ failed \subseteq failed'
  BY DEF LoadSymTabSource, Program
<1>2. Good(Program, Len(loads), failed, Empties) /\ loads \in Seq(Sources \cup {NoBlocks})
  BY DEF DownloadInv
<1>3. /\ loads' \in Seq(Sources \cup {NoBlocks}) /\ Len(loads) \in Nat /\ Len(loads') = Len(loads) + 1
      /\ Empties \subseteq Empties'
  BY <1>1, <1>2, LoadsGrow
<1> DEFINE M == Len(loads)
           N == Len(loads')
           E == Empties
           F == Empties'
           X == failed
           Y == failed'
<1>4. M \in Nat /\ N \in Nat /\ M <= N /\ E \subseteq F /\ X \subseteq Y /\ Good(Program, M, X, E)
  BY <1>1, <1>2, <1>3
<1> HIDE DEF M, N, E, F, X, Y
<1>5. Good(Program, N, Y, F)
  BY <1>4, MoreGood
<1> QED BY <1>1, <1>3, <1>5 DEF DownloadInv, N, F, Y

LEMMA SelectLibraryBlockKeeps ==
  ASSUME DownloadInv, NEW name \in Libraries, SelectLibraryBlock(name)
  PROVE  DownloadInv'
<1> DEFINE M == Len(loads)
           E == Empties
           X == failed
           y == Program'
           z == Program
<1>1. Good(z, M, X, E) /\ loads' = loads /\ failed' = failed
  BY DEF DownloadInv, SelectLibraryBlock
<1>2. /\ pendingLibs' = Append(pendingLibs, name) /\ pending' = pending /\ cpu' = cpu /\ refs' = refs
      /\ dead' = dead /\ awlSources' = awlSources
  BY DEF SelectLibraryBlock
<1>3. IsList(y.libs)
  <2>1. IsList(pendingLibs)
    BY <1>1, TheProgram DEF Good, Shaped
  <2>2. IsList(Append(pendingLibs, name))
    BY <2>1, ListLonger
  <2> QED BY <1>2, <2>2, TheNextProgram
<1>4. /\ IsProgram(y) /\ y.ok \in BOOLEAN /\ SameRefs(y, z) /\ y.pending = z.pending /\ y.cpu = z.cpu
  BY <1>2, TheProgram, TheNextProgram DEF SameRefs
<1> HIDE DEF M, E, X, y, z
<1>5. Good(y, M, X, E)
  BY <1>1, <1>3, <1>4, SameGood
<1> QED BY <1>1, <1>5 DEF DownloadInv, Empties, M, E, X, y

LEMMA StartProgramKeeps ==
  ASSUME DownloadInv, StartProgram
  PROVE  DownloadInv'
<1> DEFINE z == IF needStartup THEN Build(Program, symbolTable) ELSE Program
           M == Len(loads)
           E == Empties
           X == failed
<1>1. Becomes(z) /\ awlSources' = z.listed /\ loads' = loads /\ failed' = failed
  BY DEF StartProgram
<1>2. Good(Program, M, X, E) /\ M \in Nat
  BY DEF DownloadInv
<1> HIDE DEF M, E, X
<1>3. Good(z, M, X, E)
  <2>1. CASE needStartup
    <3>1. z = Build(Program, symbolTable)
      BY <2>1
    <3> HIDE DEF z
    <3> QED BY <1>2, <3>1, BuildGood
  <2>2. CASE ~needStartup
    BY <1>2, <2>2
  <2> QED BY <2>1, <2>2
<1> HIDE DEF z
<1>4. Good(Program', M, X, E)
  BY <1>1, <1>2, <1>3, Becoming
<1> QED BY <1>1, <1>4 DEF DownloadInv, Empties, M, E, X

\* A reset that meets no reference twice leaves none: what a block has inherited
\* its raw block does not have.
LEMMA ResetProgramKeeps ==
  ASSUME DownloadInv, ResetProgram
  PROVE  DownloadInv'
<1> DEFINE raws == UNION {{pending[kind][i].ref : i \in DOMAIN pending[kind]} : kind \in BlockKinds}
           held == raws \cup {cpu[n].ref : n \in DOMAIN cpu}
           gone == {r.src : r \in {q \in refs : ~HasReferences(refs \ held, q.src)}}
           z == Program
           M == Len(loads)
<1>0. Good(z, M, failed, Empties) /\ loads' = loads /\ failed' = failed
  BY DEF DownloadInv, ResetProgram
<1>1. /\ z.pending = pending /\ z.cpu = cpu /\ z.refs = refs /\ z.dead = dead
  BY TheProgram
<1>2. CASE ~(raws \subseteq refs)
  <2>1. Program' = Program
    BY <1>2 DEF ResetProgram, Program
  <2> QED BY <1>0, <2>1, SameProgramKeeps
<1>3. CASE raws \subseteq refs
  <2>1. /\ refs' = refs \ held /\ dead' = dead \cup gone
        /\ pending' = NoBlocks /\ pendingLibs' = <<>> /\ cpu' = <<>> /\ awlSources' = {}
    BY <1>3 DEF ResetProgram
  <2>2. ASSUME NEW kind \in BlockKinds, NEW i \in Place(z, kind)
        PROVE  Raw(z, kind, i) \in raws
    <3>1. i \in DOMAIN pending[kind]
      BY <1>0, <1>1 DEF Place, Good, Shaped, IsList
    <3> QED BY <1>1, <3>1 DEF Raw
  <2>3. ASSUME NEW r \in refs PROVE r \in held
    <3>1. OfRaw(z, r) \/ OfBlock(z, r) \/ GivenUp(z, r)
      BY <1>0, <1>1 DEF Good, Held
    <3>2. ~GivenUp(z, r)
      <4> SUFFICES ASSUME NEW kind \in BlockKinds, NEW i \in Place(z, kind), r = BlockRef(Raw(z, kind, i))
                   PROVE  FALSE
        BY DEF GivenUp
      <4>1. Raw(z, kind, i) \in z.refs
        BY <1>1, <1>3, <2>2
      <4> QED BY <1>0, <1>1, <4>1 DEF Good, PassedOn
    <3>3. OfRaw(z, r) => r \in raws
      BY <2>2 DEF OfRaw
    <3>4. OfBlock(z, r) => r \in held
      BY <1>1 DEF OfBlock
    <3> QED BY <3>1, <3>2, <3>3, <3>4
  <2>4. refs' = {}
    BY <2>1, <2>3
  <2>5. dead' \subseteq 1..M
    <3>1. dead \subseteq 1..M
      BY <1>0, <1>1 DEF Good, Typed
    <3>2. M \in Nat
      BY DEF DownloadInv
    <3>3. \A r \in refs : r.src \in 1..M
      <4> HIDE DEF z, M
      <4> QED BY <1>0, <1>1, <3>2, OldRefs
    <3> QED BY <2>1, <3>1, <3>3
  <2>6. /\ IsProgram(Program') /\ Program'.ok = TRUE /\ Program'.pending = NoBlocks
        /\ Program'.libs = <<>> /\ Program'.cpu = <<>> /\ Program'.refs = {}
        /\ Program'.dead \subseteq 1..M /\ Program'.listed = {}
    BY <2>1, <2>4, <2>5, TheNextProgram
  <2> HIDE DEF M
  <2>7. Good(Program', M, failed', Empties')
    BY <2>6, NothingGood
  <2> QED BY <1>0, <2>7 DEF DownloadInv, M
<1> QED BY <1>2, <1>3

LEMMA DownloadKeeps == DownloadInv /\ [DownloadNext]_downloadVars => DownloadInv'
<1> SUFFICES ASSUME DownloadInv, [DownloadNext]_downloadVars PROVE DownloadInv'
  OBVIOUS
<1>1. CASE \E s \in Sources : LoadAwlSource(s)
  BY <1>1, LoadAwlSourceKeeps
<1>2. CASE \E t \in Tables : LoadSymTabSource(t)
  BY <1>2, LoadSymTabSourceKeeps
<1>3. CASE \E l \in Libraries : SelectLibraryBlock(l)
  BY <1>3, SelectLibraryBlockKeeps
<1>4. CASE StartProgram
  BY <1>4, StartProgramKeeps
<1>5. CASE StopProgram \/ Maintenance
  <2>1. Program' = Program /\ loads' = loads /\ failed' = failed
    BY <1>5 DEF StopProgram, Maintenance, Program
  <2> QED BY <2>1, SameProgramKeeps
<1>6. CASE ResetProgram
  BY <1>6, ResetProgramKeeps
<1>7. CASE UNCHANGED downloadVars
  <2>1. Program' = Program /\ loads' = loads /\ failed' = failed
    BY <1>7 DEF downloadVars, Program
  <2> QED BY <2>1, SameProgramKeeps
<1> QED BY <1>1, <1>2, <1>3, <1>4, <1>5, <1>6, <1>7 DEF DownloadNext

\* What the list shows follows from the references.
LEMMA ListedInUse == DownloadInv => SourcesListed
<1> SUFFICES ASSUME DownloadInv
             PROVE  /\ \A m \in awlSources : m \notin dead /\ (loads[m] = NoBlocks \/ m \in InUse)
                    /\ InUse \ ({NoSource} \cup failed) \subseteq awlSources
  BY DEF SourcesListed
<1> DEFINE z == Program
           M == Len(loads)
<1>0. Good(z, M, failed, Empties) /\ M \in Nat
  BY DEF DownloadInv
<1>1. z.pending = pending /\ z.cpu = cpu /\ z.refs = refs /\ z.dead = dead /\ z.listed = awlSources
  BY TheProgram
<1>2. \A k \in BlockKinds : DOMAIN pending[k] = Place(z, k) /\ \A i : pending[k][i].ref = Raw(z, k, i)
  BY <1>0, <1>1 DEF Place, Raw, Good, Shaped, IsList
<1> DEFINE ofCpu == {cpu[n].ref.src : n \in DOMAIN cpu}
           ofRaws == UNION {{pending[kind][i].ref.src : i \in DOMAIN pending[kind]} : kind \in BlockKinds}
<1>3. InUse = ofCpu \cup ofRaws
  BY DEF InUse
<1>4. \A k \in BlockKinds : \A i \in Place(z, k) :
         Raw(z, k, i).src \in ofRaws /\ BlockRef(Raw(z, k, i)).src = Raw(z, k, i).src
  <2> SUFFICES ASSUME NEW k \in BlockKinds, NEW i \in Place(z, k)
               PROVE  Raw(z, k, i).src \in ofRaws /\ BlockRef(Raw(z, k, i)).src = Raw(z, k, i).src
    OBVIOUS
  <2>1. Raw(z, k, i).src \in ofRaws
    BY <1>2
  <2> HIDE DEF z, M, ofRaws
  <2>2. BlockRef(Raw(z, k, i)).src = Raw(z, k, i).src
    BY <1>0, RawFacts
  <2> QED BY <2>1, <2>2
<1>5. \A s \in ofRaws : \E k \in BlockKinds : \E i \in Place(z, k) : s = Raw(z, k, i).src
  BY <1>2
<1>6. ASSUME NEW r \in z.refs PROVE r.src \in ofCpu \cup ofRaws
  <2>1. OfRaw(z, r) \/ OfBlock(z, r) \/ GivenUp(z, r)
    BY <1>0 DEF Good, Held
  <2>2. OfBlock(z, r) => r.src \in ofCpu
    BY <1>1 DEF OfBlock
  <2> HIDE DEF ofRaws
  <2>3. OfRaw(z, r) \/ GivenUp(z, r) => r.src \in ofRaws
    BY <1>4 DEF OfRaw, GivenUp
  <2> QED BY <2>1, <2>2, <2>3
<1>7. ASSUME NEW m \in awlSources PROVE m \notin dead /\ (loads[m] = NoBlocks \/ m \in InUse)
  <2>1. m \notin z.dead /\ (m \in Empties \/ \E r \in z.refs : r.src = m)
    BY <1>0, <1>1 DEF Good, Told, HasReferences
  <2>2. m \in Empties => loads[m] = NoBlocks
    BY DEF Empties
  <2> QED BY <1>1, <1>3, <1>6, <2>1, <2>2
<1>8. ASSUME NEW r \in z.refs, r.src \notin failed PROVE r.src \in awlSources
  BY <1>0, <1>1, <1>8 DEF Good, Told
<1>9. ASSUME NEW s \in ofCpu, s # NoSource, s \notin failed PROVE s \in awlSources
  <2>1. PICK n \in DOMAIN cpu : s = cpu[n].ref.src
    OBVIOUS
  <2>2. cpu[n].ref # NoRef
    BY <1>9, <2>1 DEF NoRef
  <2>3. cpu[n].ref \in z.refs
    BY <1>0, <1>1, <2>2 DEF Good, BlocksBacked
  <2> QED BY <1>8, <1>9, <2>1, <2>3
<1>10. ASSUME NEW s \in ofRaws, s \notin failed PROVE s \in awlSources
  <2>1. PICK k \in BlockKinds : \E i \in Place(z, k) : s = Raw(z, k, i).src
    BY <1>5
  <2>2. PICK i \in Place(z, k) : s = Raw(z, k, i).src
    BY <2>1
  <2>3. Raw(z, k, i) \in z.refs \/ BlockRef(Raw(z, k, i)) \in z.refs
    BY <1>0 DEF Good, PassedOn
  <2>4. BlockRef(Raw(z, k, i)).src = s
    BY <1>4, <2>2
  <2> QED BY <1>8, <1>10, <2>2, <2>3, <2>4
<1> HIDE DEF ofCpu, ofRaws
<1>11. InUse \ ({NoSource} \cup failed) \subseteq awlSources
  BY <1>3, <1>9, <1>10
<1> QED BY <1>7, <1>11

\* However often sources are loaded, built, refused half-way, replaced and reset,
\* and whatever blocks they hold: a source that a client is shown as loaded
\* still has its text and, unless it is empty, a block in the CPU or waiting to
\* be built, and every such block is of a source that is shown, unless the
\* client was told that its download failed (SourceManager, ObjRefManager).
THEOREM SourcesAreListed == DownloadInit /\ [][DownloadNext]_downloadVars => []SourcesListed
<1>1. DownloadInit => DownloadInv
  BY InitDownload
<1>2. DownloadInv /\ [DownloadNext]_downloadVars => DownloadInv'
  BY DownloadKeeps
<1>3. DownloadInv => SourcesListed
  BY ListedInUse
<1> QED BY <1>1, <1>2, <1>3, PTL
=============================================================================
