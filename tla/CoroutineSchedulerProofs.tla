---------------------- MODULE CoroutineSchedulerProofs ----------------------
(***************************************************************************)
(* Proofs about SignalBus and about CoroutineScheduler, which extends it.  *)
(*                                                                         *)
(* The bus, for any signals, listeners, queue size and number of           *)
(* emissions: no emission is lost uncounted, emissions are dispatched in   *)
(* the order they were accepted, one made during a flush waits for the     *)
(* next, and each callable that stays connected is called once. IInv is    *)
(* about the line of emissions, ListInv about the lists of listeners; both *)
(* hold of any use of the bus (BusUse), and so under the scheduler.        *)
(*                                                                         *)
(* The scheduler, for any coroutines: a coroutine ends once, no wake-up is *)
(* lost, and a listener always has somebody to disconnect it (CoroInv).    *)
(***************************************************************************)
EXTENDS CoroutineScheduler, FiniteSetTheorems, WellFoundedInduction, TLAPS

-----------------------------------------------------------------------------
(* Sequences of emissions *)

\* What Append() makes.
LEMMA Appended ==
  ASSUME NEW S, NEW s \in Seq(S), NEW e \in S
  PROVE  /\ Append(s, e) \in Seq(S) /\ Len(Append(s, e)) = Len(s) + 1
         /\ \A i \in 1..Len(s) : Append(s, e)[i] = s[i]
         /\ Append(s, e)[Len(s) + 1] = e
OBVIOUS

\* What Head() and Tail() leave.
LEMMA HeadTail ==
  ASSUME NEW S, NEW s \in Seq(S), s # <<>>
  PROVE  /\ Len(s) \in Nat \ {0}
         /\ Tail(s) \in Seq(S) /\ Len(Tail(s)) = Len(s) - 1
         /\ \A i \in 1..Len(s) - 1 : Tail(s)[i] = s[i + 1]
         /\ Head(s) = s[1] /\ s[1] \in S
OBVIOUS

\* What \o makes.
LEMMA Joined ==
  ASSUME NEW S, NEW s \in Seq(S), NEW t \in Seq(S)
  PROVE  /\ s \o t \in Seq(S) /\ Len(s \o t) = Len(s) + Len(t)
         /\ \A i \in 1..Len(s) : (s \o t)[i] = s[i]
         /\ \A i \in Len(s) + 1 .. Len(s) + Len(t) : (s \o t)[i] = t[i - Len(s)]
OBVIOUS

\* The numbers of s rise.
Rising(s) == \A i, j \in 1..Len(s) : i < j => s[i].no < s[j].no

\* Every number of s is below every number of t.
Before(s, t) == \A i \in 1..Len(s), j \in 1..Len(t) : s[i].no < t[j].no

Below(s, n) == \A i \in 1..Len(s) : s[i].no < n
From(s, n) == \A i \in 1..Len(s) : n <= s[i].no

\* Two rising sequences, one before the other, rise together.
LEMMA RisingJoined ==
  ASSUME NEW s \in Seq(Emission), NEW t \in Seq(Emission),
         Rising(s), Rising(t), Before(s, t)
  PROVE  Rising(s \o t)
<1>1. /\ Len(s) \in Nat /\ Len(t) \in Nat /\ Len(s \o t) = Len(s) + Len(t)
      /\ \A i \in 1..Len(s) : (s \o t)[i] = s[i]
      /\ \A i \in Len(s) + 1 .. Len(s) + Len(t) : (s \o t)[i] = t[i - Len(s)]
  BY Joined
<1> SUFFICES ASSUME NEW i \in 1..(Len(s) + Len(t)), NEW j \in 1..(Len(s) + Len(t)), i < j
             PROVE  (s \o t)[i].no < (s \o t)[j].no
  BY <1>1 DEF Rising
<1>2. CASE j \in 1..Len(s)
  BY <1>1, <1>2 DEF Rising
<1>3. CASE i \in 1..Len(s) /\ j \notin 1..Len(s)
  <2>1. j - Len(s) \in 1..Len(t) /\ (s \o t)[j] = t[j - Len(s)]
    BY <1>1, <1>3
  <2> QED BY <1>1, <1>3, <2>1 DEF Before
<1>4. CASE i \notin 1..Len(s)
  <2>1. /\ i - Len(s) \in 1..Len(t) /\ (s \o t)[i] = t[i - Len(s)]
        /\ j - Len(s) \in 1..Len(t) /\ (s \o t)[j] = t[j - Len(s)]
        /\ i - Len(s) < j - Len(s)
    BY <1>1, <1>4
  <2> QED BY <2>1 DEF Rising
<1> QED BY <1>1, <1>2, <1>3, <1>4

-----------------------------------------------------------------------------
(* What a filter keeps *)

\* A set of numbers has a least one.
LEMMA LeastNumber ==
  ASSUME NEW S, S \subseteq Nat, S # {}
  PROVE  \E m \in S : \A n \in S : m <= n
<1>1. PICK m \in S : \A n \in S : ~ (<<n, m>> \in OpToRel(<, Nat))
  BY NatLessThanWellFounded, WFMin
<1>2. OpToRel(<, Nat) = {p \in Nat \X Nat : p[1] < p[2]}
  BY DEF OpToRel
<1>3. \A n \in S : ~(n < m)
  BY <1>1, <1>2
<1> QED BY <1>3

\* Induction on a set of numbers.
LEMMA SetInduction ==
  ASSUME NEW S, 0 \in S, \A n \in Nat : n \in S => n + 1 \in S
  PROVE  Nat \subseteq S
<1> SUFFICES ASSUME Nat \ S # {} PROVE FALSE
  OBVIOUS
<1>1. PICK m \in Nat \ S : \A n \in Nat \ S : m <= n
  BY LeastNumber
<1>2. m - 1 \in Nat /\ m - 1 \in S
  BY <1>1
<1> QED BY <1>1, <1>2

\* g follows the loop of Kept for the first n elements of s.
Follows(g, s, K, n) ==
  /\ g[0] = <<>>
  /\ \A i \in 1..n : g[i] = IF s[i] \in K THEN Append(g[i - 1], s[i]) ELSE g[i - 1]

\* Such a function exists.
LEMMA LoopRuns ==
  ASSUME NEW S, NEW s \in Seq(S), NEW K, NEW n \in Nat, n <= Len(s)
  PROVE  \E g \in [0..n -> Seq(S)] : Follows(g, s, K, n)
<1> DEFINE M == {m \in Nat : m <= Len(s) => \E g \in [0..m -> Seq(S)] : Follows(g, s, K, m)}
<1>1. 0 \in M
  <2> DEFINE g == [i \in 0..0 |-> <<>>]
  <2>1. g \in [0..0 -> Seq(S)] /\ g[0] = <<>>
    OBVIOUS
  <2> HIDE DEF g
  <2>2. Follows(g, s, K, 0)
    BY <2>1 DEF Follows
  <2> QED BY <2>1, <2>2
<1>2. ASSUME NEW m \in Nat, m \in M PROVE m + 1 \in M
  <2> SUFFICES ASSUME m + 1 <= Len(s)
               PROVE  \E g \in [0..(m + 1) -> Seq(S)] : Follows(g, s, K, m + 1)
    OBVIOUS
  <2>1. PICK h \in [0..m -> Seq(S)] : Follows(h, s, K, m)
    BY <1>2
  <2> DEFINE last == IF s[m + 1] \in K THEN Append(h[m], s[m + 1]) ELSE h[m]
  <2>2. s[m + 1] \in S /\ h[m] \in Seq(S)
    OBVIOUS
  <2>3. last \in Seq(S)
    BY <2>2
  <2> DEFINE g == [i \in 0..(m + 1) |-> IF i = m + 1 THEN last ELSE h[i]]
  <2>4. g \in [0..(m + 1) -> Seq(S)] /\ g[m + 1] = last /\ \A i \in 0..m : g[i] = h[i]
    BY <2>3
  <2>5. Follows(g, s, K, m + 1)
    <3>1. g[0] = <<>>
      BY <2>1, <2>4 DEF Follows
    <3>2. ASSUME NEW i \in 1..m
          PROVE  g[i] = IF s[i] \in K THEN Append(g[i - 1], s[i]) ELSE g[i - 1]
      <4>1. g[i] = h[i] /\ g[i - 1] = h[i - 1]
        BY <2>4
      <4> QED BY <2>1, <4>1 DEF Follows
    <3>3. g[m + 1] = IF s[m + 1] \in K THEN Append(g[m + 1 - 1], s[m + 1]) ELSE g[m + 1 - 1]
      BY <2>4
    <3>4. \A i \in 1..(m + 1) : i \in 1..m \/ i = m + 1
      OBVIOUS
    <3> HIDE DEF g
    <3> QED BY <3>1, <3>2, <3>3, <3>4 DEF Follows
  <2> QED BY <2>4, <2>5
<1> HIDE DEF M
<1>3. n \in M
  BY <1>1, <1>2, SetInduction
<1> QED BY <1>3 DEF M

\* Kept(s, K) is what the loop leaves at the end of s.
LEMMA KeptIsLoop ==
  ASSUME NEW S, NEW s \in Seq(S), NEW K
  PROVE  \E g \in [0..Len(s) -> Seq(S)] : Follows(g, s, K, Len(s)) /\ Kept(s, K) = g[Len(s)]
<1> DEFINE Loop(g) == [i \in 0..Len(s) |->
                        IF i = 0 THEN <<>>
                        ELSE IF s[i] \in K THEN Append(g[i - 1], s[i]) ELSE g[i - 1]]
           f == CHOOSE g : g = Loop(g)
<1>1. Kept(s, K) = f[Len(s)]
  BY Zenon DEF Kept
<1> HIDE DEF f, Loop
<1>0. Len(s) \in Nat /\ Len(s) <= Len(s)
  OBVIOUS
<1>2. PICK h \in [0..Len(s) -> Seq(S)] : Follows(h, s, K, Len(s))
  BY <1>0, LoopRuns
<1> USE DEF Loop
<1>3. h = Loop(h)
  <2>1. \A i \in 0..Len(s) : h[i] = Loop(h)[i]
    <3> TAKE i \in 0..Len(s)
    <3>1. i = 0 \/ i \in 1..Len(s)
      OBVIOUS
    <3> QED BY <1>2, <3>1 DEF Follows
  <2> QED BY <2>1
<1> HIDE DEF Loop
<1>4. f = Loop(f)
  BY <1>3, Zenon DEF f
<1> USE DEF Loop
<1>5. f = h
  <2> DEFINE M == {m \in Nat : m <= Len(s) => f[m] = h[m]}
  <2>0. \A i \in 0..Len(s) : f[i] = Loop(f)[i] /\ h[i] = Loop(h)[i]
    BY <1>3, <1>4
  <2>1. 0 \in M
    BY <2>0
  <2>2. ASSUME NEW m \in Nat, m \in M PROVE m + 1 \in M
    <3> SUFFICES ASSUME m + 1 <= Len(s) PROVE f[m + 1] = h[m + 1]
      OBVIOUS
    <3>1. f[m] = h[m]
      BY <2>2
    <3>2. m + 1 \in 0..Len(s) /\ m + 1 # 0 /\ (m + 1) - 1 = m
      OBVIOUS
    <3>3. /\ f[m + 1] = IF s[m + 1] \in K THEN Append(f[m], s[m + 1]) ELSE f[m]
          /\ h[m + 1] = IF s[m + 1] \in K THEN Append(h[m], s[m + 1]) ELSE h[m]
      BY <2>0, <3>2
    <3> QED BY <3>1, <3>3
  <2> HIDE DEF M
  <2>3. Nat \subseteq M
    BY <2>1, <2>2, SetInduction
  <2>4. \A m \in 0..Len(s) : f[m] = h[m]
    BY <2>3 DEF M
  <2> QED BY <2>4, <1>4
<1> QED BY <1>1, <1>2, <1>5

\* What the loop has kept of the first n elements of s.
KeptSoFar(t, s, K, n) ==
  \E p \in [1..Len(t) -> 1..n] :
     /\ \A i, j \in 1..Len(t) : i < j => p[i] < p[j]
     /\ \A i \in 1..Len(t) : t[i] = s[p[i]] /\ s[p[i]] \in K
     /\ \A k \in 1..n : s[k] \in K => \E i \in 1..Len(t) : p[i] = k

\* Kept(s, K) has the elements of s in K, in their order.
LEMMA KeptInOrder ==
  ASSUME NEW S, NEW s \in Seq(S), NEW K
  PROVE  Kept(s, K) \in Seq(S) /\ KeptSoFar(Kept(s, K), s, K, Len(s))
<1>1. PICK g \in [0..Len(s) -> Seq(S)] : Follows(g, s, K, Len(s)) /\ Kept(s, K) = g[Len(s)]
  BY KeptIsLoop
<1> DEFINE M == {m \in Nat : m <= Len(s) => KeptSoFar(g[m], s, K, m)}
<1>2. 0 \in M
  <2>1. g[0] = <<>>
    BY <1>1 DEF Follows
  <2>2. [i \in 1..0 |-> 0] \in [1..0 -> 1..0]
    OBVIOUS
  <2>3. Len(g[0]) = 0 /\ \A i \in 1..0 : FALSE
    BY <2>1
  <2>4. KeptSoFar(g[0], s, K, 0)
    BY ONLY <2>2, <2>3 DEF KeptSoFar
  <2> QED BY <2>4
<1>3. ASSUME NEW m \in Nat, m \in M PROVE m + 1 \in M
  <2> SUFFICES ASSUME m + 1 <= Len(s) PROVE KeptSoFar(g[m + 1], s, K, m + 1)
    OBVIOUS
  <2>1. PICK p \in [1..Len(g[m]) -> 1..m] :
          /\ \A i, j \in 1..Len(g[m]) : i < j => p[i] < p[j]
          /\ \A i \in 1..Len(g[m]) : g[m][i] = s[p[i]] /\ s[p[i]] \in K
          /\ \A k \in 1..m : s[k] \in K => \E i \in 1..Len(g[m]) : p[i] = k
    BY <1>3 DEF KeptSoFar
  <2>0. m + 1 \in 1..Len(s)
    OBVIOUS
  <2>2. g[m + 1] = IF s[m + 1] \in K THEN Append(g[m], s[m + 1]) ELSE g[m]
    BY <1>1 DEF Follows
  <2>3. PICK t \in Seq(S) : t = g[m]
    OBVIOUS
  <2>7. p \in [1..Len(t) -> 1..m]
    BY <2>3
  <2>4. Len(t) \in Nat /\ s[m + 1] \in S
    OBVIOUS
  <2>5. CASE s[m + 1] \notin K
    <3>1. p \in [1..Len(t) -> 1..(m + 1)]
      BY <2>7
    <3>2. \A k \in 1..(m + 1) : s[k] \in K => \E i \in 1..Len(t) : p[i] = k
      <4>1. \A k \in 1..(m + 1) : k \in 1..m \/ k = m + 1
        OBVIOUS
      <4> QED BY <2>1, <2>3, <2>5, <4>1
    <3>3. g[m + 1] = t
      BY <2>2, <2>3, <2>5
    <3>4. KeptSoFar(t, s, K, m + 1)
      BY <2>1, <2>3, <3>1, <3>2 DEF KeptSoFar
    <3> QED BY <3>3, <3>4
  <2>6. CASE s[m + 1] \in K
    <3> DEFINE u == Append(t, s[m + 1])
               q == [i \in 1..(Len(t) + 1) |-> IF i = Len(t) + 1 THEN m + 1 ELSE p[i]]
    <3>1. /\ u \in Seq(S) /\ Len(u) = Len(t) + 1 /\ u[Len(t) + 1] = s[m + 1]
          /\ \A i \in 1..Len(t) : u[i] = t[i]
      BY <2>4
    <3>2. g[m + 1] = u
      BY <2>2, <2>3, <2>6
    <3>3. /\ \A i \in 1..Len(t) : q[i] = p[i] /\ p[i] \in 1..m
          /\ q[Len(t) + 1] = m + 1
          /\ q \in [1..(Len(t) + 1) -> 1..(m + 1)]
      <4>1. \A i \in 1..Len(t) : p[i] \in 1..m /\ i # Len(t) + 1 /\ i \in 1..(Len(t) + 1)
        BY <2>4, <2>7
      <4>2. \A i \in 1..(Len(t) + 1) :
               (IF i = Len(t) + 1 THEN m + 1 ELSE p[i]) \in 1..(m + 1)
        BY <2>4, <4>1
      <4>3. Len(t) + 1 \in 1..(Len(t) + 1)
        BY <2>4
      <4> QED BY <4>1, <4>2, <4>3
    <3>4. \A i \in 1..(Len(t) + 1) : i \in 1..Len(t) \/ i = Len(t) + 1
      BY <2>4
    <3> HIDE DEF u, q
    <3>5. \A i, j \in 1..Len(u) : i < j => q[i] < q[j]
      <4> SUFFICES ASSUME NEW i \in 1..Len(u), NEW j \in 1..Len(u), i < j PROVE q[i] < q[j]
        OBVIOUS
      <4>1. i \in 1..Len(t)
        BY <2>4, <3>1
      <4>2. CASE j \in 1..Len(t)
        BY <2>1, <2>3, <3>3, <4>1, <4>2
      <4>3. CASE j = Len(t) + 1
        BY <3>3, <4>1, <4>3
      <4> QED BY <3>1, <3>4, <4>2, <4>3
    <3>6. \A i \in 1..Len(u) : u[i] = s[q[i]] /\ s[q[i]] \in K
      BY <2>1, <2>3, <2>6, <3>1, <3>3, <3>4
    <3>7. \A k \in 1..(m + 1) : s[k] \in K => \E i \in 1..Len(u) : q[i] = k
      <4> SUFFICES ASSUME NEW k \in 1..(m + 1), s[k] \in K PROVE \E i \in 1..Len(u) : q[i] = k
        OBVIOUS
      <4>1. CASE k = m + 1
        <5>1. Len(t) + 1 \in 1..Len(u)
          BY <2>4, <3>1
        <5> QED BY <3>3, <4>1, <5>1
      <4>2. CASE k \in 1..m
        <5>1. PICK i \in 1..Len(t) : p[i] = k
          BY <2>1, <2>3, <4>2
        <5>2. i \in 1..Len(u)
          BY <2>4, <3>1
        <5> QED BY <3>3, <5>1, <5>2
      <4> QED BY <4>1, <4>2
    <3>8. q \in [1..Len(u) -> 1..(m + 1)]
      BY <3>1, <3>3
    <3>9. KeptSoFar(u, s, K, m + 1)
      BY <3>5, <3>6, <3>7, <3>8 DEF KeptSoFar
    <3> QED BY <3>2, <3>9
  <2> QED BY <2>5, <2>6
<1> HIDE DEF M
<1>4. Len(s) \in M
  BY <1>2, <1>3, SetInduction
<1>5. KeptSoFar(g[Len(s)], s, K, Len(s))
  BY <1>4 DEF M
<1> QED BY <1>1, <1>5

\* No element of s occurs twice.
Distinct(s) == \A i, j \in DOMAIN s : s[i] = s[j] => i = j

\* What matters of it here.
LEMMA KeptFacts ==
  ASSUME NEW S, NEW s \in Seq(S), NEW K
  PROVE  /\ Kept(s, K) \in Seq(S)
         /\ \A x : InSeq(x, Kept(s, K)) <=> InSeq(x, s) /\ x \in K
         /\ Distinct(s) => Distinct(Kept(s, K))
<1>1. PICK t \in Seq(S) : t = Kept(s, K) /\ KeptSoFar(t, s, K, Len(s))
  BY KeptInOrder
<1>2. PICK p \in [1..Len(t) -> 1..Len(s)] :
        /\ \A i, j \in 1..Len(t) : i < j => p[i] < p[j]
        /\ \A i \in 1..Len(t) : t[i] = s[p[i]] /\ s[p[i]] \in K
        /\ \A k \in 1..Len(s) : s[k] \in K => \E i \in 1..Len(t) : p[i] = k
  BY <1>1 DEF KeptSoFar
<1>3. DOMAIN s = 1..Len(s) /\ DOMAIN t = 1..Len(t) /\ Len(t) \in Nat
  OBVIOUS
<1>4. \A i \in 1..Len(t) : p[i] \in 1..Len(s)
  OBVIOUS
<1>5. ASSUME NEW x, InSeq(x, t) PROVE InSeq(x, s) /\ x \in K
  BY <1>2, <1>3, <1>4, <1>5 DEF InSeq
<1>6. ASSUME NEW x, InSeq(x, s), x \in K PROVE InSeq(x, t)
  <2>1. PICK k \in 1..Len(s) : s[k] = x
    BY <1>3, <1>6 DEF InSeq
  <2>2. PICK i \in 1..Len(t) : p[i] = k
    BY <1>2, <1>6, <2>1
  <2>3. t[i] = x
    BY <1>2, <2>1, <2>2
  <2> QED BY <1>3, <2>3 DEF InSeq
<1>7. ASSUME Distinct(s) PROVE Distinct(t)
  <2> SUFFICES ASSUME NEW i \in 1..Len(t), NEW j \in 1..Len(t), t[i] = t[j] PROVE i = j
    BY <1>3 DEF Distinct
  <2>1. s[p[i]] = s[p[j]]
    BY <1>2
  <2>2. p[i] = p[j]
    BY <1>3, <1>4, <1>7, <2>1 DEF Distinct
  <2>3. i \in Nat /\ j \in Nat /\ p[i] \in Nat /\ p[j] \in Nat
    BY <1>4
  <2>4. ~(i < j) /\ ~(j < i)
    BY <1>2, <2>2, <2>3
  <2> QED BY <2>3, <2>4
<1> QED BY <1>1, <1>5, <1>6, <1>7

-----------------------------------------------------------------------------
(* The bus: what stands in line *)

LineTypes ==
    /\ queue \in Seq(Emission) /\ batch \in Seq(Emission)
    /\ cur \in Emission \cup {NoEmission}
    /\ nextNo \in 1..(MaxEmissions + 1) /\ mark \in 1..(MaxEmissions + 1)
    /\ dropped \in Nat /\ dispatched \in Nat

\* The queue continues the batch, which continues what is being dispatched; the running
\* flush works on what was queued before it began.
Line ==
    /\ Rising(queue) /\ Rising(batch)
    /\ mark <= nextNo
    /\ From(queue, mark) /\ Below(queue, nextNo)
    /\ Below(batch, mark) /\ cur.no < mark
    /\ From(batch, cur.no + 1)
    /\ phase = "idle" => batch = <<>> /\ cur = NoEmission
    /\ phase = "flush" => cur = NoEmission

IInv == LineTypes /\ Line /\ EveryEmissionAccounted

lineVars == <<queue, dropped, phase, batch, cur, nextNo, mark, dispatched>>

USE BusAssumption DEF BusAssumption

\* The numbers of what stands in line.
LEMMA LineNumbers ==
  ASSUME LineTypes
  PROVE  /\ \A i \in 1..Len(queue) : queue[i].no \in 1..MaxEmissions
         /\ \A i \in 1..Len(batch) : batch[i].no \in 1..MaxEmissions
         /\ cur.no \in 0..MaxEmissions
         /\ Len(queue) \in Nat /\ Len(batch) \in Nat
<1>1. /\ \A i \in 1..Len(queue) : queue[i] \in Emission
      /\ \A i \in 1..Len(batch) : batch[i] \in Emission
      /\ Len(queue) \in Nat /\ Len(batch) \in Nat
  BY DEF LineTypes
<1>2. cur.no \in 0..MaxEmissions
  <2>1. CASE cur \in Emission
    BY <2>1 DEF Emission
  <2>2. CASE cur = NoEmission
    BY <2>2 DEF NoEmission
  <2> QED BY <2>1, <2>2 DEF LineTypes
<1> QED BY <1>1, <1>2 DEF Emission

LEMMA InitIInv == BusInit => IInv
<1> SUFFICES ASSUME BusInit PROVE IInv
  OBVIOUS
<1>1. LineTypes
  BY DEF BusInit, LineTypes
<1>2. Line
  BY DEF BusInit, Line, Rising, From, Below, NoEmission
<1>3. EveryEmissionAccounted
  BY DEF BusInit, EveryEmissionAccounted
<1> QED BY <1>1, <1>2, <1>3 DEF IInv

\* A step that leaves the line alone.
LEMMA AsideStep == IInv /\ UNCHANGED lineVars => IInv'
BY DEF IInv, lineVars, LineTypes, Line, Rising, From, Below, EveryEmissionAccounted

LEMMA EmitStep ==
  ASSUME IInv, NEW s \in Signals, Emit(s)
  PROVE  IInv'
<1> DEFINE e == [sig |-> s, no |-> nextNo]
<1>0. /\ Len(queue) \in Nat /\ Len(batch) \in Nat
      /\ dropped \in Nat /\ dispatched \in Nat /\ nextNo \in Nat
  BY DEF IInv, LineTypes
<1>1. /\ nextNo \in 1..MaxEmissions /\ nextNo' = nextNo + 1
      /\ UNCHANGED <<phase, batch, cur, mark, dispatched>>
  BY DEF Emit, flushVars, IInv, LineTypes
<1>2. CASE queue' = queue /\ dropped' = dropped + 1
  <2>1. LineTypes'
    BY <1>1, <1>2 DEF IInv, LineTypes
  <2>2. \A i \in 1..Len(queue) : queue[i].no < nextNo + 1
    BY <1>0, LineNumbers DEF IInv, Line, Below
  <2>3. Line'
    <3>1. From(queue, mark)' /\ Below(queue, nextNo)'
      BY <1>1, <1>2, <2>2 DEF IInv, Line, From, Below
    <3>2. mark' <= nextNo'
      BY <1>0, <1>1 DEF IInv, LineTypes, Line
    <3> QED BY <1>1, <1>2, <3>1, <3>2 DEF IInv, Line, Rising, From, Below
  <2>4. EveryEmissionAccounted'
    BY <1>1, <1>2, <1>0 DEF IInv, EveryEmissionAccounted
  <2> QED BY <2>1, <2>3, <2>4 DEF IInv
<1>3. CASE queue' = Append(queue, e) /\ dropped' = dropped
  <2>1. e \in Emission /\ e.no = nextNo
    BY <1>1 DEF Emission
  <2> HIDE DEF e
  <2>2. queue \in Seq(Emission) /\ Len(queue) \in Nat
    BY DEF IInv, LineTypes
  <2> DEFINE n == Len(queue)
  <2>3. /\ n \in Nat /\ queue' \in Seq(Emission) /\ Len(queue') = n + 1
        /\ \A i \in 1..n : queue'[i] = queue[i] /\ queue[i] \in Emission
        /\ queue'[n + 1] = e
    BY <1>3, <2>1, <2>2, Appended
  <2>4. \A i \in 1..n : queue[i].no < nextNo /\ mark <= queue[i].no /\ queue[i].no \in Nat
    BY <2>3 DEF IInv, Line, Below, From, Emission
  <2> HIDE DEF n
  <2>5. \A i \in 1..(n + 1) : i \in 1..n \/ i = n + 1
    BY <2>3
  <2>6. LineTypes'
    BY <1>1, <1>3, <2>3 DEF IInv, LineTypes
  <2>7. Rising(queue)'
    <3> SUFFICES ASSUME NEW i \in 1..(n + 1), NEW j \in 1..(n + 1), i < j
                 PROVE  queue'[i].no < queue'[j].no
      BY <2>3 DEF Rising
    <3>1. i \in 1..n
      BY <2>3
    <3>2. CASE j \in 1..n
      BY <3>1, <3>2, <2>3 DEF IInv, Line, Rising, n
    <3> QED BY <3>1, <3>2, <2>1, <2>3, <2>4, <2>5
  <2>8. From(queue, mark)' /\ Below(queue, nextNo)'
    <3> SUFFICES ASSUME NEW i \in 1..(n + 1)
                 PROVE  mark <= queue'[i].no /\ queue'[i].no < nextNo + 1
      BY <1>1, <2>3 DEF From, Below
    <3>1. mark \in Nat /\ nextNo \in Nat /\ mark <= nextNo
      BY DEF IInv, LineTypes, Line
    <3> QED BY <3>1, <2>1, <2>3, <2>4, <2>5
  <2>9. Line'
    BY <1>1, <2>7, <2>8 DEF IInv, LineTypes, Line, Rising, From, Below
  <2>10. EveryEmissionAccounted'
    <3>1. /\ Len(queue') = Len(queue) + 1 /\ Len(batch') = Len(batch)
          /\ dropped' = dropped /\ dispatched' = dispatched
      BY <1>1, <1>3, <2>3 DEF n
    <3>2. nextNo - 1 = dispatched + dropped + Len(batch) + Len(queue)
      BY DEF IInv, EveryEmissionAccounted
    <3> HIDE DEF n, e
    <3> QED BY <1>0, <1>1, <3>1, <3>2 DEF EveryEmissionAccounted
  <2> QED BY <2>6, <2>9, <2>10 DEF IInv
<1> QED BY <1>2, <1>3 DEF Emit, QueuedLast, DropCounted

\* A step inside a dispatch, between its callables and its listeners.
LEMMA DispatchingStep ==
  ASSUME IInv, phase \in {"callables", "natives"}, phase' \in {"callables", "natives"},
         UNCHANGED <<queue, dropped, batch, cur, nextNo, mark, dispatched>>
  PROVE  IInv'
BY DEF IInv, LineTypes, Line, Rising, From, Below, EveryEmissionAccounted

LEMMA FlushSwapStep ==
  ASSUME IInv, FlushSwap
  PROVE  IInv'
<1>1. /\ batch = <<>> /\ cur = NoEmission /\ batch' = queue /\ queue' = <<>>
      /\ mark' = nextNo /\ phase' = "flush"
      /\ UNCHANGED <<dropped, nextNo, cur, dispatched>>
  BY DEF FlushSwap, IInv, Line
<1>2. Len(batch) = 0 /\ Len(queue') = 0 /\ cur.no = 0 /\ Len(queue) \in Nat
  BY <1>1 DEF NoEmission, IInv, LineTypes
<1>3. LineTypes'
  BY <1>1 DEF IInv, LineTypes
<1>4. \A i \in 1..Len(queue) : queue[i].no >= 1 /\ queue[i].no \in Nat
  BY LineNumbers DEF IInv
<1>5. Line'
  <2>1. Rising(queue)' /\ From(queue, mark)' /\ Below(queue, nextNo)'
    BY <1>2 DEF Rising, From, Below
  <2>2. Rising(batch)' /\ Below(batch, mark)'
    BY <1>1 DEF IInv, Line, Rising, Below
  <2>3. From(batch, cur.no + 1)'
    BY <1>1, <1>2, <1>4 DEF From
  <2>4. mark' <= nextNo' /\ cur'.no < mark'
    BY <1>1, <1>2 DEF IInv, LineTypes
  <2> QED BY <1>1, <2>1, <2>2, <2>3, <2>4 DEF Line
<1>6. EveryEmissionAccounted'
  BY <1>1, <1>2 DEF IInv, LineTypes, EveryEmissionAccounted
<1> QED BY <1>3, <1>5, <1>6 DEF IInv

LEMMA DispatchNextStep ==
  ASSUME IInv, DispatchNext
  PROVE  IInv'
<1>1. /\ phase = "flush" /\ batch # <<>> /\ cur' = Head(batch) /\ batch' = Tail(batch)
      /\ phase' = "callables" /\ dispatched' = dispatched + 1
      /\ UNCHANGED <<queue, dropped, nextNo, mark>>
  BY DEF DispatchNext, queueVars
<1>2. /\ Len(batch) \in Nat \ {0} /\ batch' \in Seq(Emission) /\ Len(batch') = Len(batch) - 1
      /\ \A i \in 1..Len(batch) - 1 : batch'[i] = batch[i + 1]
      /\ cur' = batch[1] /\ batch[1] \in Emission
  BY <1>1, HeadTail DEF IInv, LineTypes
<1>3. LineTypes'
  BY <1>1, <1>2 DEF IInv, LineTypes
<1>4. \A i \in 1..Len(batch') :
         i \in Nat /\ i + 1 \in 1..Len(batch) /\ 1 < i + 1 /\ batch'[i] = batch[i + 1]
  BY <1>2
<1>5. \A i \in 1..Len(batch) : batch[i].no \in Nat /\ batch[i].no < mark
  BY LineNumbers DEF IInv, Line, Below
<1>6. Line'
  <2>1. Rising(queue)' /\ From(queue, mark)' /\ Below(queue, nextNo)' /\ mark' <= nextNo'
    BY <1>1 DEF IInv, Line, Rising, From, Below
  <2>2. Rising(batch)'
    <3> SUFFICES ASSUME NEW i \in 1..Len(batch'), NEW j \in 1..Len(batch'), i < j
                 PROVE  batch'[i].no < batch'[j].no
      BY DEF Rising
    <3>1. i + 1 < j + 1
      BY <1>4
    <3> QED BY <3>1, <1>4 DEF IInv, Line, Rising
  <2>3. Below(batch, mark)' /\ cur'.no < mark'
    BY <1>1, <1>2, <1>4, <1>5 DEF Below
  <2>4. From(batch, cur.no + 1)'
    <3> SUFFICES ASSUME NEW i \in 1..Len(batch')
                 PROVE  cur'.no + 1 <= batch'[i].no
      BY DEF From
    <3>1. 1 \in 1..Len(batch)
      BY <1>2
    <3>2. batch[1].no < batch[i + 1].no
      BY <3>1, <1>4 DEF IInv, Line, Rising
    <3> QED BY <3>1, <3>2, <1>2, <1>4, <1>5
  <2> QED BY <1>1, <2>1, <2>2, <2>3, <2>4 DEF Line
<1>7. EveryEmissionAccounted'
  BY <1>1, <1>2 DEF IInv, LineTypes, EveryEmissionAccounted
<1> QED BY <1>3, <1>6, <1>7 DEF IInv

LEMMA DispatchDoneStep ==
  ASSUME IInv, DispatchDone
  PROVE  IInv'
<1>1. /\ phase' = "flush" /\ cur' = NoEmission /\ cur'.no = 0
      /\ UNCHANGED <<queue, dropped, batch, nextNo, mark, dispatched>>
  BY DEF DispatchDone, queueVars, NoEmission
<1>2. \A i \in 1..Len(batch) : batch[i].no >= 1 /\ batch[i].no \in Nat
  BY LineNumbers DEF IInv
<1>3. LineTypes'
  BY <1>1 DEF IInv, LineTypes
<1>4. From(batch, cur.no + 1)' /\ cur'.no < mark'
  BY <1>1, <1>2 DEF From, IInv, LineTypes
<1>5. Line'
  BY <1>1, <1>4 DEF IInv, Line, Rising, From, Below
<1>6. EveryEmissionAccounted'
  BY <1>1 DEF IInv, EveryEmissionAccounted
<1> QED BY <1>3, <1>5, <1>6 DEF IInv

LEMMA FlushDoneStep ==
  ASSUME IInv, FlushDone
  PROVE  IInv'
<1>1. /\ batch = <<>> /\ cur = NoEmission /\ phase' = "idle"
      /\ UNCHANGED <<queue, dropped, batch, cur, nextNo, mark, dispatched>>
  BY DEF FlushDone, queueVars, IInv, Line
<1> QED BY <1>1 DEF IInv, LineTypes, Line, Rising, From, Below, EveryEmissionAccounted

-----------------------------------------------------------------------------
(* The bus: who listens *)

ListTypes ==
    /\ slots \in [Signals -> Seq(Callables)] /\ natives \in Seq(Listener)
    /\ nextListener \in 1..(MaxListeners + 1) /\ alive \in SUBSET Callables
    /\ phase \in {"idle", "flush", "callables", "natives"}
    /\ todo \in Seq(Callables) \cup Seq(Listener)
    /\ phase = "callables" => cur \in Emission /\ todo \in Seq(Callables)
    /\ phase = "natives" => cur \in Emission /\ todo \in Seq(Listener)
    /\ called \in SUBSET ((1..MaxEmissions) \X Callables)
    /\ owed \in SUBSET ((1..MaxEmissions) \X Callables)
    /\ Len(queue) <= QueueCap

\* A call was made for an emission that is no longer in line, and not for a callable
\* that the running dispatch has yet to come to.
OnceEach ==
    /\ \A s \in Signals : Distinct(slots[s])
    /\ \A o \in called : o[1] < mark /\ \A i \in 1..Len(batch) : o[1] < batch[i].no
    /\ phase = "callables" =>
          /\ Distinct(todo)
          /\ \A i \in DOMAIN todo : <<cur.no, todo[i]>> \notin called

\* The emission o is about waits in line, and its signal still has the callable.
Waits(line, o) == \E i \in 1..Len(line) : line[i].no = o[1] /\ InSeq(o[2], slots[line[i].sig])

Debts ==
    \A o \in owed :
        \/ Waits(queue, o)
        \/ Waits(batch, o)
        \/ phase = "callables" /\ cur.no = o[1] /\ InSeq(o[2], todo)

ListInv == ListTypes /\ OnceEach /\ Debts

LEMMA InitListInv == BusInit => ListInv
<1> SUFFICES ASSUME BusInit PROVE ListInv
  OBVIOUS
<1>1. ListTypes
  <2>1. slots \in [Signals -> Seq(Callables)] /\ natives \in Seq(Listener) /\ todo \in Seq(Callables)
    BY DEF BusInit
  <2>2. nextListener \in 1..(MaxListeners + 1) /\ Len(queue) = 0
    BY DEF BusInit
  <2> QED BY <2>1, <2>2 DEF BusInit, ListTypes
<1>2. OnceEach
  BY DEF BusInit, OnceEach, Distinct
<1>3. Debts
  BY DEF BusInit, Debts
<1> QED BY <1>1, <1>2, <1>3 DEF ListInv

\* Elements of a sequence.
LEMMA Elements ==
  ASSUME NEW S, NEW s \in Seq(S)
  PROVE  Len(s) \in Nat /\ DOMAIN s = 1..Len(s) /\ \A i \in 1..Len(s) : s[i] \in S
OBVIOUS

LEMMA EmitLists ==
  ASSUME IInv, ListInv, NEW s \in Signals, Emit(s)
  PROVE  ListInv'
<1>1. /\ nextNo \in 1..MaxEmissions
      /\ UNCHANGED <<phase, batch, cur, todo, mark, called, slots, natives, nextListener, alive>>
  BY DEF Emit, flushVars, listenerVars, IInv, LineTypes
<1>2. OnceEach'
  BY <1>1 DEF ListInv, OnceEach
<1>3. CASE QueueFull
  <2>1. queue' = queue /\ owed' = owed
    BY <1>3 DEF Emit
  <2> QED BY <1>1, <1>2, <2>1 DEF ListInv, ListTypes, Debts, Waits
<1>4. CASE ~QueueFull
  <2>1. PICK e : e = [sig |-> s, no |-> nextNo]
    OBVIOUS
  <2>2. /\ e \in Emission /\ e.sig = s /\ e.no = nextNo
        /\ queue' = Append(queue, e)
        /\ owed' = owed \cup {<<nextNo, c>> : c \in {d \in alive : InSeq(d, slots[s])}}
    BY <1>1, <1>4, <2>1 DEF Emit, QueuedLast, Emission
  <2>3. /\ Len(queue) \in Nat /\ Len(queue') = Len(queue) + 1
        /\ \A i \in 1..Len(queue) : queue'[i] = queue[i]
        /\ queue'[Len(queue) + 1] = e
    BY <2>2, Appended DEF IInv, LineTypes
  <2>4. Len(queue) < QueueCap
    BY <1>4, <2>3 DEF QueueFull
  <2>5. owed' \in SUBSET ((1..MaxEmissions) \X Callables)
    BY <1>1, <2>2 DEF ListInv, ListTypes
  <2>6. ListTypes'
    BY <1>1, <2>3, <2>4, <2>5 DEF ListInv, ListTypes
  <2>7. ASSUME NEW o \in owed', o \notin owed PROVE Waits(queue, o)'
    <3>1. PICK c \in alive : o = <<nextNo, c>> /\ InSeq(c, slots[s])
      BY <2>2, <2>7
    <3>2. Len(queue) + 1 \in 1..Len(queue')
      BY <2>3
    <3>3. queue'[Len(queue) + 1].no = o[1] /\ InSeq(o[2], slots'[queue'[Len(queue) + 1].sig])
      BY <1>1, <2>2, <2>3, <3>1
    <3> QED BY <3>2, <3>3 DEF Waits, InSeq
  <2>8. ASSUME NEW o, Waits(queue, o) PROVE Waits(queue, o)'
    <3>1. \A i \in 1..Len(queue) : i \in 1..Len(queue')
      BY <2>3
    <3>2. PICK i \in 1..Len(queue) : queue[i].no = o[1] /\ InSeq(o[2], slots[queue[i].sig])
      BY <2>8 DEF Waits
    <3>3. queue'[i] = queue[i] /\ slots' = slots
      BY <1>1, <2>3
    <3>4. queue'[i].no = o[1] /\ InSeq(o[2], slots'[queue'[i].sig])
      BY <3>2, <3>3
    <3> QED BY <3>1, <3>4 DEF Waits, InSeq
  <2>9. Debts'
    <3> SUFFICES ASSUME NEW o \in owed'
                 PROVE  \/ Waits(queue, o)' \/ Waits(batch, o)'
                        \/ phase' = "callables" /\ cur'.no = o[1] /\ InSeq(o[2], todo')
      BY DEF Debts
    <3>1. CASE o \in owed
      BY <1>1, <2>8, <3>1 DEF ListInv, Debts, Waits
    <3> QED BY <2>7, <3>1
  <2> QED BY <1>2, <2>6, <2>9 DEF ListInv
<1> QED BY <1>3, <1>4

\* Who is owed (in D) a call for an emission of s that waits in the line is in t if it
\* was in the list of s.
Spares(D, line, s, t) ==
    \A o \in D : \A i \in 1..Len(line) :
        line[i].no = o[1] /\ line[i].sig = s /\ InSeq(o[2], slots[s]) => InSeq(o[2], t)

\* The list of one signal is changed and no emission moves; who is owed a call for an
\* emission of that signal is still in its list.
LEMMA SlotsChanged ==
  ASSUME IInv, ListInv, NEW s \in Signals, NEW t \in Seq(Callables), Distinct(t),
         slots' = [slots EXCEPT ![s] = t], owed' \subseteq owed,
         Spares(owed', queue, s, t), Spares(owed', batch, s, t),
         UNCHANGED <<queue, phase, batch, cur, todo, mark, called, natives, nextListener, alive>>
  PROVE  ListInv'
<1>1. /\ slots' \in [Signals -> Seq(Callables)] /\ slots'[s] = t
      /\ \A r \in Signals : r # s => slots'[r] = slots[r]
  BY DEF ListInv, ListTypes
<1>2. ListTypes'
  BY <1>1 DEF ListInv, ListTypes
<1>3. OnceEach'
  <2>1. \A r \in Signals : Distinct(slots'[r])
    BY <1>1 DEF ListInv, OnceEach
  <2> QED BY <2>1 DEF ListInv, OnceEach
<1>5. ASSUME NEW o \in owed', NEW line \in Seq(Emission), Waits(line, o),
             Spares(owed', line, s, t)
      PROVE  \E i \in 1..Len(line) : line[i].no = o[1] /\ InSeq(o[2], slots'[line[i].sig])
  <2>1. \A i \in 1..Len(line) : line[i].sig \in Signals
    <3>1. \A i \in 1..Len(line) : line[i] \in Emission
      BY Elements
    <3> QED BY <3>1 DEF Emission
  <2>2. PICK i \in 1..Len(line) : line[i].no = o[1] /\ InSeq(o[2], slots[line[i].sig])
    BY <1>5 DEF Waits
  <2>3. InSeq(o[2], slots'[line[i].sig])
    <3>1. CASE line[i].sig = s
      BY <1>1, <1>5, <2>2, <3>1 DEF Spares
    <3>2. CASE line[i].sig # s
      BY <1>1, <2>1, <2>2, <3>2
    <3> QED BY <3>1, <3>2
  <2> QED BY <2>2, <2>3
<1>6. Debts'
  <2> SUFFICES ASSUME NEW o \in owed'
               PROVE  \/ Waits(queue, o)' \/ Waits(batch, o)'
                      \/ phase' = "callables" /\ cur'.no = o[1] /\ InSeq(o[2], todo')
    BY DEF Debts
  <2>1. queue \in Seq(Emission) /\ batch \in Seq(Emission)
    BY DEF IInv, LineTypes
  <2>2. CASE Waits(queue, o)
    BY <1>5, <2>1, <2>2 DEF Waits
  <2>3. CASE Waits(batch, o)
    BY <1>5, <2>1, <2>3 DEF Waits
  <2> QED BY <2>2, <2>3 DEF ListInv, Debts
<1> QED BY <1>2, <1>3, <1>6 DEF ListInv

LEMMA ConnectLists ==
  ASSUME IInv, ListInv, NEW s \in Signals, NEW c \in Callables, ConnectSignal(s, c)
  PROVE  ListInv'
<1>1. UNCHANGED <<queue, phase, batch, cur, todo, mark, called, natives, nextListener, alive, owed>>
  BY DEF ConnectSignal, flushVars, queueVars
<1>2. PICK l \in Seq(Callables) : l = slots[s]
  BY DEF ListInv, ListTypes
<1>3. Distinct(l)
  BY <1>2 DEF ListInv, OnceEach
<1>4. CASE InSeq(c, l)
  <2>1. slots' = slots
    BY <1>2, <1>4 DEF ConnectSignal, AlreadyConnected
  <2>2. slots' = [slots EXCEPT ![s] = l]
    BY <1>2, <2>1 DEF ListInv, ListTypes
  <2>3. Spares(owed', queue, s, l) /\ Spares(owed', batch, s, l)
    BY <1>2 DEF Spares
  <2> QED BY <1>1, <1>2, <1>3, <2>2, <2>3, SlotsChanged
<1>5. CASE ~InSeq(c, l)
  <2>1. PICK t : t = Append(l, c)
    OBVIOUS
  <2>2. slots' = [slots EXCEPT ![s] = t]
    BY <1>2, <1>5, <2>1 DEF ConnectSignal, AlreadyConnected
  <2>3. /\ t \in Seq(Callables) /\ Len(t) = Len(l) + 1 /\ Len(l) \in Nat
        /\ \A i \in 1..Len(l) : t[i] = l[i]
        /\ t[Len(l) + 1] = c
        /\ DOMAIN l = 1..Len(l) /\ DOMAIN t = 1..(Len(l) + 1)
    BY <2>1, Appended, Elements
  <2>4. \A i \in 1..(Len(l) + 1) : i \in 1..Len(l) \/ i = Len(l) + 1
    BY <2>3
  <2>5. Distinct(t)
    BY <1>3, <1>5, <2>3, <2>4 DEF Distinct, InSeq
  <2>6. ASSUME NEW d, InSeq(d, l) PROVE InSeq(d, t)
    BY <2>3, <2>6 DEF InSeq
  <2>7. Spares(owed', queue, s, t) /\ Spares(owed', batch, s, t)
    BY <1>2, <2>6 DEF Spares
  <2> QED BY <1>1, <2>2, <2>3, <2>5, <2>7, SlotsChanged
<1> QED BY <1>4, <1>5

LEMMA DisconnectLists ==
  ASSUME IInv, ListInv, NEW s \in Signals, NEW c \in Callables, DisconnectSignal(s, c)
  PROVE  ListInv'
<1>1. UNCHANGED <<queue, phase, batch, cur, todo, mark, called, natives, nextListener, alive>>
  BY DEF DisconnectSignal, flushVars, queueVars
<1>2. PICK l \in Seq(Callables) : l = slots[s]
  BY DEF ListInv, ListTypes
<1>3. Distinct(l)
  BY <1>2 DEF ListInv, OnceEach
<1>4. PICK t : t = Kept(l, Callables \ {c})
  OBVIOUS
<1>5. slots' = [slots EXCEPT ![s] = t] /\ owed' = {o \in owed : ~(o[2] = c /\ OfSignal(o[1], s))}
  BY <1>2, <1>4 DEF DisconnectSignal, OthersLeft
<1>6. /\ t \in Seq(Callables) /\ Distinct(t)
      /\ \A d : InSeq(d, t) <=> InSeq(d, l) /\ d \in Callables \ {c}
  BY <1>3, <1>4, KeptFacts
<1>7. /\ owed' \subseteq owed
      /\ \A o \in owed' : o[2] \in Callables /\ (o[2] = c => ~OfSignal(o[1], s))
  BY <1>5 DEF ListInv, ListTypes
<1>8. Spares(owed', queue, s, t)
  <2> SUFFICES ASSUME NEW o \in owed', NEW i \in 1..Len(queue), queue[i].no = o[1],
                      queue[i].sig = s, InSeq(o[2], l)
               PROVE  InSeq(o[2], t)
    BY <1>2 DEF Spares
  <2>1. DOMAIN queue = 1..Len(queue)
    BY Elements DEF IInv, LineTypes
  <2>2. o[2] # c
    BY <1>7, <2>1 DEF OfSignal
  <2> QED BY <1>6, <1>7, <2>2
<1>9. Spares(owed', batch, s, t)
  <2> SUFFICES ASSUME NEW o \in owed', NEW i \in 1..Len(batch), batch[i].no = o[1],
                      batch[i].sig = s, InSeq(o[2], l)
               PROVE  InSeq(o[2], t)
    BY <1>2 DEF Spares
  <2>1. DOMAIN batch = 1..Len(batch)
    BY Elements DEF IInv, LineTypes
  <2>2. o[2] # c
    BY <1>7, <2>1 DEF OfSignal
  <2> QED BY <1>6, <1>7, <2>2
<1> QED BY <1>1, <1>5, <1>6, <1>7, <1>8, <1>9, SlotsChanged

LEMMA FreedLists ==
  ASSUME IInv, ListInv, NEW c \in Callables, ReceiverFreed(c)
  PROVE  ListInv'
<1>1. /\ UNCHANGED <<queue, phase, batch, cur, todo, mark, called, slots, natives, nextListener>>
      /\ alive' = alive \ {c} /\ owed' \subseteq owed
  BY DEF ReceiverFreed, flushVars, queueVars
<1>2. ListTypes'
  BY <1>1 DEF ListInv, ListTypes
<1>3. OnceEach'
  BY <1>1 DEF ListInv, OnceEach
<1>4. Debts'
  BY <1>1 DEF ListInv, Debts, Waits
<1> QED BY <1>2, <1>3, <1>4 DEF ListInv

\* A step that touches the native listeners only.
LEMMA NativesLists ==
  ASSUME ListInv, natives' \in Seq(Listener), nextListener' \in 1..(MaxListeners + 1),
         UNCHANGED <<queue, phase, batch, cur, todo, mark, called, slots, alive, owed>>
  PROVE  ListInv'
BY DEF ListInv, ListTypes, OnceEach, Debts, Waits

LEMMA ConnectNativeLists ==
  ASSUME ListInv, NEW s \in Signals, NEW o \in Owners, ConnectNative(s, o)
  PROVE  ListInv'
<1>1. PICK l : l = [id |-> nextListener, sig |-> s, owner |-> o]
  OBVIOUS
<1>2. nextListener \in 1..MaxListeners /\ natives' = Append(natives, l) /\ nextListener' = nextListener + 1
  BY <1>1 DEF ConnectNative, ListInv, ListTypes
<1>3. l \in Listener
  BY <1>1, <1>2 DEF Listener
<1>4. natives' \in Seq(Listener)
  BY <1>2, <1>3, Appended DEF ListInv, ListTypes
<1> QED BY <1>2, <1>4, NativesLists DEF ConnectNative, flushVars, queueVars

LEMMA DisconnectNativeLists ==
  ASSUME ListInv, NEW gone, DisconnectNative(gone)
  PROVE  ListInv'
<1>1. natives' \in Seq(Listener)
  BY KeptFacts DEF DisconnectNative, Without, ListInv, ListTypes
<1> QED BY <1>1, NativesLists DEF DisconnectNative, flushVars, queueVars, ListInv, ListTypes

LEMMA FlushSwapLists ==
  ASSUME IInv, ListInv, FlushSwap
  PROVE  ListInv'
<1>1. /\ phase = "idle" /\ batch = <<>> /\ batch' = queue /\ queue' = <<>>
      /\ mark' = nextNo /\ phase' = "flush"
      /\ UNCHANGED <<cur, todo, called, slots, natives, nextListener, alive, owed>>
  BY DEF FlushSwap, listenerVars, IInv, Line
<1>2. ListTypes'
  <2>1. Len(queue') <= QueueCap
    BY <1>1
  <2> QED BY <1>1, <2>1 DEF ListInv, ListTypes
<1>3. OnceEach'
  <2>1. /\ mark \in Nat /\ nextNo \in Nat /\ mark <= nextNo
        /\ \A i \in 1..Len(queue) : queue[i].no \in Nat /\ mark <= queue[i].no
    BY LineNumbers DEF IInv, LineTypes, Line, From
  <2>2. \A o \in called : o[1] \in Nat /\ o[1] < mark
    BY DEF ListInv, ListTypes, OnceEach
  <2>3. \A o \in called : o[1] < nextNo /\ \A i \in 1..Len(queue) : o[1] < queue[i].no
    BY <2>1, <2>2
  <2> QED BY <1>1, <2>3 DEF ListInv, OnceEach
<1>4. Debts'
  <2>1. \A o \in owed : Waits(queue, o)
    <3>1. Len(batch) = 0
      BY <1>1
    <3> QED BY <1>1, <3>1 DEF ListInv, Debts, Waits
  <2> QED BY <1>1, <2>1 DEF Debts, Waits
<1> QED BY <1>2, <1>3, <1>4 DEF ListInv

LEMMA DispatchNextLists ==
  ASSUME IInv, ListInv, DispatchNext
  PROVE  ListInv'
<1>1. /\ phase = "flush" /\ batch # <<>> /\ cur' = Head(batch) /\ batch' = Tail(batch)
      /\ phase' = "callables" /\ todo' = slots[Head(batch).sig]
      /\ UNCHANGED <<queue, mark, called, slots, natives, nextListener, alive, owed>>
  BY DEF DispatchNext, queueVars, listenerVars
<1>2. PICK b \in Seq(Emission) : b = batch
  BY DEF IInv, LineTypes
<1>3. /\ Len(b) \in Nat \ {0} /\ Tail(b) \in Seq(Emission) /\ Len(Tail(b)) = Len(b) - 1
      /\ \A i \in 1..Len(b) - 1 : Tail(b)[i] = b[i + 1]
      /\ Head(b) = b[1] /\ b[1] \in Emission
  BY <1>1, <1>2, HeadTail
<1>4. /\ cur' = b[1] /\ cur'.sig \in Signals /\ cur'.no \in Nat /\ todo' = slots[cur'.sig]
      /\ batch' = Tail(b)
  BY <1>1, <1>2, <1>3 DEF Emission
<1>5. todo' \in Seq(Callables) /\ Distinct(todo')
  BY <1>4 DEF ListInv, ListTypes, OnceEach
<1>6. ListTypes'
  BY <1>1, <1>3, <1>4, <1>5 DEF ListInv, ListTypes
<1>7. \A i \in 1..Len(Tail(b)) : i + 1 \in 1..Len(b) /\ Tail(b)[i] = b[i + 1]
  BY <1>3
<1>8. OnceEach'
  <2>1. \A o \in called : \A i \in 1..Len(b) : o[1] < b[i].no
    BY <1>2 DEF ListInv, OnceEach
  <2>2. \A o \in called : \A i \in 1..Len(Tail(b)) : o[1] < Tail(b)[i].no
    BY <1>7, <2>1
  <2>3. \A o \in called : o[1] \in Nat /\ o[1] < cur'.no
    <3>1. 1 \in 1..Len(b)
      BY <1>3
    <3> QED BY <1>4, <2>1, <3>1 DEF ListInv, ListTypes
  <2>4. \A i \in DOMAIN todo' : <<cur'.no, todo'[i]>> \notin called
    BY <1>4, <2>3
  <2> QED BY <1>1, <1>4, <1>5, <2>2, <2>4 DEF ListInv, OnceEach
<1>9. Debts'
  <2> SUFFICES ASSUME NEW o \in owed
               PROVE  \/ Waits(queue, o)' \/ Waits(batch, o)'
                      \/ phase' = "callables" /\ cur'.no = o[1] /\ InSeq(o[2], todo')
    BY <1>1 DEF Debts
  <2>1. CASE Waits(queue, o)
    BY <1>1, <2>1 DEF Waits
  <2>2. CASE Waits(batch, o)
    <3>1. PICK i \in 1..Len(b) : b[i].no = o[1] /\ InSeq(o[2], slots[b[i].sig])
      BY <1>2, <2>2 DEF Waits
    <3>2. CASE i = 1
      BY <1>1, <1>4, <3>1, <3>2
    <3>3. CASE i # 1
      <4>1. i - 1 \in 1..Len(Tail(b)) /\ Tail(b)[i - 1] = b[i]
        BY <1>3, <3>3
      <4>2. Tail(b)[i - 1].no = o[1] /\ InSeq(o[2], slots'[Tail(b)[i - 1].sig])
        BY <1>1, <3>1, <4>1
      <4> QED BY <1>4, <4>1, <4>2 DEF Waits, InSeq
    <3> QED BY <3>2, <3>3
  <2> QED BY <1>1, <2>1, <2>2 DEF ListInv, Debts
<1> QED BY <1>6, <1>8, <1>9 DEF ListInv

LEMMA CallCallableLists ==
  ASSUME IInv, ListInv, CallCallable
  PROVE  ListInv'
<1>1. /\ phase = "callables" /\ todo # <<>> /\ todo' = Tail(todo) /\ cur \in Emission
      /\ called' \subseteq called \cup {<<cur.no, Head(todo)>>}
      /\ owed' = owed \ {<<cur.no, Head(todo)>>}
      /\ UNCHANGED <<queue, phase, batch, cur, mark, slots, natives, nextListener, alive>>
  BY DEF CallCallable, queueVars, listenerVars, ListInv, ListTypes
<1>2. PICK t \in Seq(Callables) : t = todo
  BY <1>1 DEF ListInv, ListTypes
<1>3. /\ Len(t) \in Nat \ {0} /\ Tail(t) \in Seq(Callables) /\ Len(Tail(t)) = Len(t) - 1
      /\ \A i \in 1..Len(t) - 1 : Tail(t)[i] = t[i + 1]
      /\ Head(t) = t[1] /\ t[1] \in Callables
      /\ DOMAIN t = 1..Len(t) /\ DOMAIN Tail(t) = 1..(Len(t) - 1)
  BY <1>1, <1>2, HeadTail, Elements
<1>4. /\ todo' = Tail(t)
      /\ called' \subseteq called \cup {<<cur.no, t[1]>>} /\ owed' = owed \ {<<cur.no, t[1]>>}
  BY <1>1, <1>2, <1>3
<1>5. \A i \in 1..(Len(t) - 1) : i + 1 \in 1..Len(t) /\ i + 1 # 1 /\ Tail(t)[i] = t[i + 1]
  BY <1>3
<1>6. Distinct(t) /\ \A i \in 1..Len(t) : <<cur.no, t[i]>> \notin called
  BY <1>1, <1>2, <1>3 DEF ListInv, OnceEach
<1>7. ListTypes'
  <2>1. cur.no \in 1..MaxEmissions
    BY <1>1 DEF Emission
  <2>2. /\ called' \in SUBSET ((1..MaxEmissions) \X Callables)
        /\ owed' \in SUBSET ((1..MaxEmissions) \X Callables)
    BY <1>3, <1>4, <2>1 DEF ListInv, ListTypes
  <2> QED BY <1>1, <1>3, <1>4, <2>2 DEF ListInv, ListTypes
<1>8. OnceEach'
  <2>1. Distinct(Tail(t))
    BY <1>3, <1>5, <1>6 DEF Distinct
  <2>2. \A i \in DOMAIN Tail(t) : <<cur.no, Tail(t)[i]>> \notin called'
    <3> TAKE i \in DOMAIN Tail(t)
    <3>1. Tail(t)[i] = t[i + 1] /\ i + 1 \in 1..Len(t) /\ 1 \in 1..Len(t) /\ i + 1 # 1
      BY <1>3, <1>5
    <3>2. t[i + 1] # t[1]
      BY <1>3, <1>6, <3>1 DEF Distinct
    <3> QED BY <1>4, <1>6, <3>1, <3>2
  <2>3. \A o \in called' : o[1] < mark /\ \A i \in 1..Len(batch) : o[1] < batch[i].no
    <3>1. cur.no < mark /\ \A i \in 1..Len(batch) : cur.no < batch[i].no
      BY LineNumbers DEF IInv, Line, From
    <3> QED BY <1>4, <3>1 DEF ListInv, OnceEach
  <2> QED BY <1>1, <1>4, <2>1, <2>2, <2>3 DEF ListInv, OnceEach
<1>9. Debts'
  <2> SUFFICES ASSUME NEW o \in owed'
               PROVE  \/ Waits(queue, o)' \/ Waits(batch, o)'
                      \/ phase' = "callables" /\ cur'.no = o[1] /\ InSeq(o[2], todo')
    BY DEF Debts
  <2>1. o \in owed /\ o # <<cur.no, t[1]>> /\ o = <<o[1], o[2]>>
    BY <1>4 DEF ListInv, ListTypes
  <2>2. CASE Waits(queue, o) \/ Waits(batch, o)
    BY <1>1, <2>2 DEF Waits
  <2>3. CASE cur.no = o[1] /\ InSeq(o[2], t)
    <3>1. PICK i \in 1..Len(t) : t[i] = o[2]
      BY <1>3, <2>3 DEF InSeq
    <3>2. i # 1
      BY <2>1, <2>3, <3>1
    <3>3. i - 1 \in 1..(Len(t) - 1) /\ Tail(t)[i - 1] = t[i]
      BY <1>3, <3>2
    <3>4. InSeq(o[2], Tail(t))
      BY <1>3, <3>1, <3>3 DEF InSeq
    <3> QED BY <1>1, <1>4, <2>3, <3>4
  <2> QED BY <1>2, <2>1, <2>2, <2>3 DEF ListInv, Debts
<1> QED BY <1>7, <1>8, <1>9 DEF ListInv

\* Once the callables have been called, what is done with the natives costs nobody a call.
LEMMA QuietLists ==
  ASSUME ListInv, phase # "callables" \/ todo = <<>>, phase' # "callables",
         phase' \in {"idle", "flush", "natives"},
         todo' \in Seq(Callables) \cup Seq(Listener),
         phase' = "natives" => cur' \in Emission /\ todo' \in Seq(Listener),
         UNCHANGED <<queue, batch, mark, called, slots, natives, nextListener, alive, owed>>
  PROVE  ListInv'
<1>1. ListTypes'
  BY DEF ListInv, ListTypes
<1>2. OnceEach'
  BY DEF ListInv, OnceEach
<1>3. Debts'
  <2>1. \A o : ~ (phase = "callables" /\ InSeq(o[2], todo))
    BY DEF InSeq
  <2> QED BY <2>1 DEF ListInv, Debts, Waits
<1> QED BY <1>1, <1>2, <1>3 DEF ListInv

LEMMA NativePartLists ==
  ASSUME ListInv, CopyNatives \/ CallNative \/ DispatchDone \/ FlushDone
  PROVE  ListInv'
<1>1. UNCHANGED <<queue, batch, mark, called, slots, natives, nextListener, alive, owed>>
  BY DEF CopyNatives, CallNative, DispatchDone, FlushDone, queueVars, listenerVars
<1>2. CASE CopyNatives
  <2>1. todo' \in Seq(Listener)
    BY <1>2, KeptFacts DEF CopyNatives, ListInv, ListTypes
  <2>2. todo = <<>> /\ phase = "callables" /\ phase' = "natives" /\ cur' = cur /\ cur \in Emission
    BY <1>2 DEF CopyNatives, ListInv, ListTypes
  <2> QED BY <1>1, <2>1, <2>2, QuietLists
<1>3. CASE CallNative
  <2>1. /\ todo # <<>> /\ phase = "natives" /\ phase' = "natives" /\ cur' = cur /\ cur \in Emission
        /\ todo' = Tail(todo) /\ todo \in Seq(Listener)
    BY <1>3 DEF CallNative, ListInv, ListTypes
  <2>2. todo' \in Seq(Listener)
    BY <2>1, HeadTail
  <2> QED BY <1>1, <2>1, <2>2, QuietLists
<1>4. CASE DispatchDone \/ FlushDone
  <2>1. phase \in {"natives", "flush"} /\ phase' \in {"flush", "idle"} /\ todo' = todo
    BY <1>4 DEF DispatchDone, FlushDone
  <2>2. todo \in Seq(Callables) \cup Seq(Listener)
    BY DEF ListInv, ListTypes
  <2> QED BY <1>1, <2>1, <2>2, QuietLists
<1> QED BY <1>2, <1>3, <1>4

-----------------------------------------------------------------------------
(* The bus: the theorems *)

\* What anybody may do with the bus.
BusUse == BusNext \/ \E gone : DisconnectNative(gone)

LEMMA NextIInv == IInv /\ [BusUse]_busVars => IInv'
<1> SUFFICES ASSUME IInv, [BusUse]_busVars PROVE IInv'
  OBVIOUS
<1>1. ASSUME NEW s \in Signals, Emit(s) PROVE IInv'
  BY <1>1, EmitStep
<1>2. ASSUME NEW s \in Signals, NEW c \in Callables,
             ConnectSignal(s, c) \/ DisconnectSignal(s, c)
      PROVE  IInv'
  BY <1>2, AsideStep DEF ConnectSignal, DisconnectSignal, lineVars, flushVars, queueVars
<1>3. ASSUME NEW c \in Callables, ReceiverFreed(c) PROVE IInv'
  BY <1>3, AsideStep DEF ReceiverFreed, lineVars, flushVars, queueVars
<1>4. ASSUME NEW s \in Signals, NEW o \in Owners, ConnectNative(s, o) PROVE IInv'
  BY <1>4, AsideStep DEF ConnectNative, lineVars, flushVars, queueVars
<1>5. ASSUME NEW gone, DisconnectNative(gone) PROVE IInv'
  BY <1>5, AsideStep DEF DisconnectNative, lineVars, flushVars, queueVars
<1>6. CASE CallCallable \/ CopyNatives \/ CallNative
  <2>1. /\ phase \in {"callables", "natives"} /\ phase' \in {"callables", "natives"}
        /\ UNCHANGED <<queue, dropped, batch, cur, nextNo, mark, dispatched>>
    BY <1>6 DEF CallCallable, CopyNatives, CallNative, queueVars
  <2> QED BY <2>1, DispatchingStep
<1>7. CASE UNCHANGED busVars
  BY <1>7, AsideStep DEF busVars, lineVars
<1>8. CASE BusClient
  BY <1>1, <1>2, <1>3, <1>4, <1>5, <1>8 DEF BusClient
<1>9. CASE BusFlush
  BY <1>6, <1>9, FlushSwapStep, DispatchNextStep, DispatchDoneStep, FlushDoneStep DEF BusFlush
<1> QED BY <1>5, <1>7, <1>8, <1>9 DEF BusNext, BusUse

LEMMA NextListInv == IInv /\ ListInv /\ [BusUse]_busVars => ListInv'
<1> SUFFICES ASSUME IInv, ListInv, [BusUse]_busVars PROVE ListInv'
  OBVIOUS
<1>1. ASSUME UNCHANGED busVars PROVE ListInv'
  <2>1. UNCHANGED <<queue, phase, batch, cur, todo, mark, called, slots, natives, nextListener, alive, owed>>
    BY <1>1 DEF busVars
  <2> QED BY <2>1 DEF ListInv, ListTypes, OnceEach, Debts, Waits
<1>2. ASSUME BusClient PROVE ListInv'
  BY <1>2, EmitLists, ConnectLists, DisconnectLists, FreedLists, ConnectNativeLists,
     DisconnectNativeLists DEF BusClient
<1>3. ASSUME BusFlush PROVE ListInv'
  BY <1>3, FlushSwapLists, DispatchNextLists, CallCallableLists, NativePartLists DEF BusFlush
<1> QED BY <1>1, <1>2, <1>3, DisconnectNativeLists DEF BusUse, BusNext

LEMMA InductiveLists == BusSpec => [](IInv /\ ListInv)
<1>1. BusInit => IInv /\ ListInv
  BY InitIInv, InitListInv
<1>2. IInv /\ ListInv /\ [BusNext]_busVars => (IInv /\ ListInv)'
  BY NextIInv, NextListInv DEF BusUse
<1> QED BY <1>1, <1>2, PTL DEF BusSpec

LEMMA TypesFollow == IInv /\ ListInv => BusTypeOK
<1> SUFFICES ASSUME IInv, ListInv PROVE BusTypeOK
  OBVIOUS
<1>1. Len(batch) \in Nat /\ Len(queue) \in Nat
  BY DEF IInv, LineTypes
<1>2. dropped \in 0..MaxEmissions /\ dispatched \in 0..MaxEmissions
  BY <1>1 DEF IInv, LineTypes, EveryEmissionAccounted
<1> QED BY <1>2 DEF IInv, LineTypes, ListInv, ListTypes, BusTypeOK

\* PLSignalBus: an emission is dispatched, waiting, or counted as dropped.
THEOREM Accounted == BusSpec => []EveryEmissionAccounted
<1>1. IInv => EveryEmissionAccounted
  BY DEF IInv
<1> QED BY <1>1, InductiveLists, PTL

\* PLSignalBus: emissions are dispatched in the order the queue accepted them, and
\* flush_queued() dispatches none that was made after it began.
THEOREM InOrder == BusSpec => []BusInOrder
<1>1. IInv => DispatchInOrder
  <2> SUFFICES ASSUME IInv PROVE DispatchInOrder
    OBVIOUS
  <2> DEFINE first == IF cur = NoEmission THEN <<>> ELSE <<cur>>
             rest == batch \o queue
  <2>1. /\ queue \in Seq(Emission) /\ batch \in Seq(Emission) /\ first \in Seq(Emission)
        /\ rest \in Seq(Emission)
    BY Joined DEF IInv, LineTypes
  <2>2. /\ \A i \in 1..Len(queue) : queue[i].no \in Nat /\ mark <= queue[i].no
        /\ \A i \in 1..Len(batch) :
               batch[i].no \in Nat /\ batch[i].no < mark /\ cur.no < batch[i].no
        /\ cur.no \in Nat /\ mark \in Nat /\ cur.no < mark
    BY LineNumbers DEF IInv, LineTypes, Line, From, Below
  <2>3. Rising(rest)
    BY <2>1, <2>2, RisingJoined DEF IInv, Line, Before
  <2>4. Rising(first) /\ Before(first, rest)
    <3>1. \A i \in 1..Len(rest) : cur.no < rest[i].no
      <4> TAKE i \in 1..Len(rest)
      <4>1. \/ i \in 1..Len(batch) /\ rest[i] = batch[i]
            \/ i - Len(batch) \in 1..Len(queue) /\ rest[i] = queue[i - Len(batch)]
        BY <2>1, Joined
      <4> QED BY <4>1, <2>2
    <3>2. CASE cur = NoEmission
      BY <3>2 DEF Rising, Before
    <3>3. CASE cur # NoEmission
      BY <3>1, <3>3 DEF Rising, Before
    <3> QED BY <3>2, <3>3
  <2>5. Rising(first \o rest) /\ first \o rest \in Seq(Emission)
    BY <2>1, <2>3, <2>4, RisingJoined, Joined
  <2> DEFINE line == first \o batch \o queue
  <2>6. first \o rest = line
    <3>1. \A s, t, u \in Seq(Emission) : s \o (t \o u) = s \o t \o u
      OBVIOUS
    <3> HIDE DEF first
    <3> QED BY <2>1, <3>1
  <2> HIDE DEF line
  <2>7. line \in Seq(Emission) /\ Rising(line)
    BY <2>5, <2>6
  <2> HIDE DEF first, rest
  <2>8. \A i, j \in DOMAIN line : i < j => line[i].no < line[j].no
    <3>1. DOMAIN line = 1..Len(line)
      BY <2>7
    <3> QED BY <2>7, <3>1 DEF Rising
  <2> QED BY <2>8 DEF DispatchInOrder, line, first
<1>2. IInv => NoDispatchOfOwnFlush
  BY DEF IInv, LineTypes, Line, Below, NoDispatchOfOwnFlush
<1> QED BY <1>1, <1>2, TypesFollow, InductiveLists, PTL DEF BusInOrder

\* PLSignalBus: whatever is connected and disconnected during a dispatch, a callable
\* is called at most once for an emission, and a callable that was connected when the
\* emission was accepted, and stays so, still has its call to come until it is made.
THEOREM CalledOnce == BusSpec => []EachCalledOnce
<1>1. IInv /\ ListInv => NoCallTwice
  BY DEF ListInv, OnceEach, Distinct, NoCallTwice
<1>2. IInv /\ ListInv => NoListenerSkipped
  <2> SUFFICES ASSUME IInv, ListInv, NEW o \in owed
               PROVE  \/ \E i \in DOMAIN queue : queue[i].no = o[1]
                      \/ \E i \in DOMAIN batch : batch[i].no = o[1]
                      \/ phase = "callables" /\ cur.no = o[1] /\ InSeq(o[2], todo)
    BY DEF NoListenerSkipped
  <2>1. DOMAIN queue = 1..Len(queue) /\ DOMAIN batch = 1..Len(batch)
    BY Elements DEF IInv, LineTypes
  <2> QED BY <2>1 DEF ListInv, Debts, Waits
<1> QED BY <1>1, <1>2, InductiveLists, PTL DEF EachCalledOnce

-----------------------------------------------------------------------------
(* The coroutines *)

USE DEF Coros

CoroTypes ==
    /\ where \in [Coros -> {"none", "pending", "active", "gone"}]
    /\ wake \in [Coros -> Wakes]
    /\ sleep \in [Coros -> 0..MaxSleep]
    /\ listener \in [Coros -> 0..MaxListeners]
    /\ fired \in [Coros -> BOOLEAN]
    /\ frees \in [Coros -> Nat]
    /\ spawn \in [Coros -> [step : SpawnSteps, by : {"main", "other"},
                            sig : Signals \cup {NoSignal}, id : 0..MaxListeners]]
    /\ main \in {"idle", "flush", "adoptPending", "adoptBoth", "adopted",
                 "resume", "finish", "shut", "stuck"}
    /\ visit \in SUBSET Coros
    /\ finished \in Seq([coro : Coros, id : 0..MaxListeners])
    /\ waiting \in SUBSET Coros
    /\ found \in SUBSET Coros
    /\ resumed \in SUBSET Coros
    /\ doneCalls \in [Coros -> Nat]

\* The spawn of a coroutine and the id it was given.
SpawnRight ==
    /\ \A c \in Coros :
          /\ where[c] = "none" <=> spawn[c].step = "unused"
          /\ where[c] = "pending" => spawn[c].step = "ready" /\ spawn[c].id = 0
          /\ spawn[c].step \in {"unused", "inserted"} => spawn[c].id = 0
          /\ spawn[c].step = "connected" => spawn[c].id # 0
          /\ spawn[c].step \in Spawning => spawn[c].sig \in Signals
          /\ spawn[c].id < nextListener
          /\ listener[c] \in {0, spawn[c].id}
    /\ \A c, d \in Coros : spawn[c].id = spawn[d].id => c = d \/ spawn[c].id = 0

\* While the main thread is inside spawn() it does not tick, so the entry stays.
SpawnsAlone ==
    \A c \in Coros : spawn[c].by = "main" /\ spawn[c].step \in Spawning =>
        /\ where[c] = "active"
        /\ main \in {"idle", "finish"} \/ (main = "flush" /\ phase = "callables")

\* A native listener belongs to the coroutine that was given its id.
NativesRight ==
    \A i \in 1..Len(natives) :
        LET c == natives[i].owner IN
        /\ spawn[c].step \in {"connected", "ready"}
        /\ spawn[c].id = natives[i].id /\ spawn[c].sig = natives[i].sig

FinishedRight ==
    /\ \A i \in 1..Len(finished) : finished[i].id \in {0, spawn[finished[i].coro].id}
    /\ main = "finish" => finished # <<>>

VisitsActive == main = "resume" => visit \subseteq Active

InFinished(c) == \E i \in 1..Len(finished) : finished[i].coro = c

DoneRight ==
    /\ \A i, j \in 1..Len(finished) : finished[i].coro = finished[j].coro => i = j
    /\ \A c \in Coros :
          /\ where[c] # "gone" => doneCalls[c] = 0 /\ ~InFinished(c) /\ c \notin found
          /\ c \in found \/ InFinished(c) => doneCalls[c] = 0
          /\ c \in found => ~InFinished(c)
          /\ where[c] = "gone" /\ c \notin found /\ main # "shut" /\ ~InFinished(c) => doneCalls[c] = 1
          /\ doneCalls[c] \in {0, 1}

WaitersListen ==
    \A c \in waiting :
        /\ where[c] = "active"
        /\ \E i \in 1..Len(natives) : natives[i].owner = c /\ natives[i].sig = spawn[c].sig

CoroInv ==
    /\ CoroTypes
    /\ SpawnRight /\ SpawnsAlone /\ NativesRight
    /\ FinishedRight /\ VisitsActive /\ DoneRight /\ WaitersListen
    /\ HandleFreedOnce /\ ListenersOwned /\ NoLostWakeup

USE SchedulerAssumption DEF SchedulerAssumption

LEMMA InitCoro == Init => CoroInv
<1> SUFFICES ASSUME Init PROVE CoroInv
  OBVIOUS
<1>1. CoroTypes
  BY DEF Init, CoroTypes, Wakes, SpawnSteps, Spawning
<1>2. SpawnRight /\ SpawnsAlone
  BY DEF Init, BusInit, SpawnRight, SpawnsAlone, Spawning
<1>3. NativesRight /\ WaitersListen /\ NoLostWakeup /\ ListenersOwned
  BY DEF Init, BusInit, NativesRight, WaitersListen, NoLostWakeup, ListenersOwned
<1>4. FinishedRight /\ VisitsActive
  BY DEF Init, FinishedRight, VisitsActive
<1>5. DoneRight /\ HandleFreedOnce
  BY DEF Init, DoneRight, HandleFreedOnce, InFinished
<1> QED BY <1>1, <1>2, <1>3, <1>4, <1>5 DEF CoroInv

\* The scheduler uses the bus as anybody may.
LEMMA BusUsed == CoroInv /\ [Next]_vars => [BusUse]_busVars
<1> SUFFICES ASSUME CoroInv, [Next]_vars PROVE [BusUse]_busVars
  OBVIOUS
<1>1. ASSUME UNCHANGED vars PROVE UNCHANGED busVars
  BY <1>1 DEF vars
<1>2. ASSUME Script PROVE [BusUse]_busVars
  <2>1. ASSUME NEW t \in Threads, NEW s \in Signals, EmitSignal(t, s) PROVE BusUse
    BY <2>1 DEF EmitSignal, BusUse, BusNext, BusClient
  <2>2. ASSUME NEW t \in Threads, NEW c \in Coros, NEW w \in Wakes, SpawnPending(t, c, w)
        PROVE UNCHANGED busVars
    BY <2>2 DEF SpawnPending
  <2>3. ASSUME NEW t \in Threads, NEW c \in Coros, NEW s \in Signals, SpawnInsert(t, c, s)
        PROVE UNCHANGED busVars
    BY <2>3 DEF SpawnInsert
  <2>4. ASSUME NEW t \in Threads, NEW c \in Coros, Cancel(t, c)
        PROVE UNCHANGED busVars \/ \E gone : DisconnectNative(gone)
    BY <2>4 DEF Cancel
  <2> QED BY <1>2, <2>1, <2>2, <2>3, <2>4 DEF Script, BusUse
<1>3. ASSUME SpawnRest PROVE [BusUse]_busVars
  <2>1. ASSUME NEW c \in Coros, SpawnConnect(c) PROVE BusUse
    <3>1. spawn[c].sig \in Signals /\ ConnectNative(spawn[c].sig, c)
      BY <2>1 DEF SpawnConnect, CoroInv, SpawnRight, Spawning
    <3> QED BY <3>1 DEF BusUse, BusNext, BusClient
  <2>2. ASSUME NEW c \in Coros, SpawnWriteBack(c) PROVE UNCHANGED busVars
    BY <2>2 DEF SpawnWriteBack
  <2> QED BY <1>3, <2>1, <2>2 DEF SpawnRest
<1>4. ASSUME Frame PROVE [BusUse]_busVars
  <2>1. ASSUME FrameFlush \/ FrameDispatch \/ FrameWakeListener \/ TickLockPending PROVE BusUse
    BY <2>1 DEF FrameFlush, FrameDispatch, FrameWakeListener, TickLockPending, BusUse, BusNext, BusFlush
  <2>2. ASSUME TickLockBoth \/ TickAdopt \/ TickLock \/ TickUnlock PROVE UNCHANGED busVars
    BY <2>2 DEF TickLockBoth, TickAdopt, TickLock, TickUnlock
  <2>3. ASSUME NEW c \in Coros, TickSkip(c) \/ ResumeSuspends(c) \/ ResumeEnds(c)
        PROVE UNCHANGED busVars
    BY <2>3 DEF TickSkip, ResumeSuspends, ResumeEnds
  <2>4. ASSUME TickFinish PROVE \E gone : DisconnectNative(gone)
    BY <2>4 DEF TickFinish
  <2> QED BY <1>4, <2>1, <2>2, <2>3, <2>4 DEF Frame, BusUse
<1>5. ASSUME SelfLock PROVE UNCHANGED busVars
  BY <1>5 DEF SelfLock, ResumeSelfLocks
<1>6. ASSUME Shutdown PROVE \E gone : DisconnectNative(gone)
  BY <1>6 DEF Shutdown
<1> QED BY <1>1, <1>2, <1>3, <1>4, <1>5, <1>6 DEF Next, BusUse

\* Away from where scripts run, the main thread is in no spawn().
LEMMA NotSpawning ==
  ASSUME CoroInv, main \notin {"idle", "finish"}, main = "flush" => phase # "callables"
  PROVE  ~MainSpawning
BY DEF CoroInv, SpawnsAlone, MainSpawning

\* A wake-up stays on its way when nothing takes it off it.
LEMMA WakeupsKept ==
  ASSUME CoroInv, waiting' \subseteq waiting,
         \A c \in waiting' : spawn'[c].sig = spawn[c].sig /\ (fired[c] => fired'[c]),
         UNCHANGED <<queue, batch, phase, cur, todo>>
  PROVE  NoLostWakeup'
BY DEF CoroInv, NoLostWakeup

\* A step that neither spawns nor ends a coroutine.
LEMMA Ticks ==
  ASSUME CoroInv, CoroTypes', main # "shut", main' # "shut",
         ~MainSpawning \/ UNCHANGED <<main, phase>>,
         main' = "finish" => finished # <<>>,
         main' = "resume" => visit' \subseteq Active,
         UNCHANGED <<where, listener, frees, spawn, finished, found, doneCalls, natives, nextListener>>
  PROVE  /\ SpawnRight' /\ SpawnsAlone' /\ NativesRight' /\ FinishedRight' /\ VisitsActive'
         /\ DoneRight' /\ HandleFreedOnce' /\ ListenersOwned'
         /\ waiting' \subseteq waiting => WaitersListen'
<1>1. SpawnRight'
  BY DEF CoroInv, SpawnRight
<1>2. SpawnsAlone'
  BY DEF CoroInv, SpawnsAlone, MainSpawning
<1>3. NativesRight' /\ (waiting' \subseteq waiting => WaitersListen')
  BY DEF CoroInv, NativesRight, WaitersListen
<1>4. FinishedRight' /\ VisitsActive'
  BY DEF CoroInv, FinishedRight, VisitsActive, Active
<1>5. DoneRight'
  BY DEF CoroInv, DoneRight, InFinished
<1>6. HandleFreedOnce' /\ ListenersOwned'
  BY DEF CoroInv, HandleFreedOnce, ListenersOwned
<1> QED BY <1>1, <1>2, <1>3, <1>4, <1>5, <1>6

\* The bus in full: its line, its lists.
BusInv == IInv /\ ListInv

LEMMA EmitSignalStep ==
  ASSUME BusInv, CoroInv, NEW t \in Threads, NEW s \in Signals, EmitSignal(t, s)
  PROVE  CoroInv'
<1>1. /\ Emit(s)
      /\ waiting' = IF QueueFull THEN waiting ELSE waiting \cup Listening(s)
      /\ UNCHANGED <<where, wake, sleep, listener, fired, frees, spawn, main, visit, finished,
                     resumed, found, doneCalls>>
      /\ UNCHANGED <<phase, batch, cur, todo, natives, nextListener>>
  BY DEF EmitSignal, coroVars, tickVars, Emit, flushVars, listenerVars
<1>2. main # "shut" /\ (main = "finish" => finished # <<>>) /\ (main = "resume" => visit \subseteq Active)
  BY DEF EmitSignal, MayCallWithoutActive, MayCall, MainRunsScript, CoroInv, FinishedRight, VisitsActive
<1>3. ASSUME NEW c \in Listening(s)
      PROVE  /\ c \in Coros /\ where[c] = "active"
             /\ \E i \in 1..Len(natives) : natives[i].owner = c /\ natives[i].sig = s
             /\ spawn[c].sig = s
  <2>1. natives \in Seq(Listener)
    BY DEF BusInv, ListInv, ListTypes
  <2>2. DOMAIN natives = 1..Len(natives) /\ \A i \in 1..Len(natives) : natives[i] \in Listener
    BY <2>1, Elements
  <2>3. PICK i \in 1..Len(natives) : natives[i].owner = c /\ natives[i].sig = s /\ where[c] # "gone"
    BY <2>2 DEF Listening, Listener
  <2>4. c \in Coros
    BY <2>2, <2>3 DEF Listener
  <2>5. spawn[c].step \in {"connected", "ready"} /\ spawn[c].sig = s /\ spawn[c].id = natives[i].id
    BY <2>3 DEF CoroInv, NativesRight
  <2>6. natives[i].id # 0
    BY <2>2 DEF Listener
  <2>7. where[c] \notin {"none", "pending"}
    BY <2>4, <2>5, <2>6 DEF CoroInv, SpawnRight
  <2> QED BY <2>3, <2>4, <2>5, <2>7 DEF CoroInv, CoroTypes
<1>4. CoroTypes'
  BY <1>1, <1>3 DEF CoroInv, CoroTypes
<1>5. WaitersListen'
  BY <1>1, <1>3 DEF CoroInv, WaitersListen
<1>6. NoLostWakeup'
  <2>1. CASE QueueFull
    BY <1>1, <2>1, WakeupsKept DEF Emit
  <2>2. CASE ~QueueFull
    <3>1. PICK e : e = [sig |-> s, no |-> nextNo]
      OBVIOUS
    <3>2. nextNo \in 1..MaxEmissions /\ e \in Emission /\ e.sig = s /\ queue' = Append(queue, e)
      BY <1>1, <2>2, <3>1 DEF Emit, QueuedLast, Emission, BusInv, IInv, LineTypes
    <3>3. queue \in Seq(Emission)
      BY DEF BusInv, IInv, LineTypes
    <3>4. /\ Len(queue) \in Nat /\ Len(queue') = Len(queue) + 1
          /\ \A i \in 1..Len(queue) : queue'[i] = queue[i]
          /\ queue'[Len(queue) + 1] = e
          /\ DOMAIN queue = 1..Len(queue) /\ DOMAIN queue' = 1..(Len(queue) + 1)
      BY <3>2, <3>3, Appended, Elements
    <3>5. \A i \in 1..Len(queue) : i \in 1..(Len(queue) + 1)
      BY <3>4
    <3>6. Len(queue) + 1 \in 1..(Len(queue) + 1)
      BY <3>4
    <3>7. \A c \in Listening(s) : \E i \in DOMAIN queue' : queue'[i].sig = spawn'[c].sig
      BY <1>1, <1>3, <3>2, <3>4, <3>6
    <3>8. ASSUME NEW c, \E i \in DOMAIN queue : queue[i].sig = spawn[c].sig
          PROVE  \E i \in DOMAIN queue' : queue'[i].sig = spawn'[c].sig
      BY <1>1, <3>4, <3>5, <3>8
    <3>9. waiting' = waiting \cup Listening(s)
      BY <1>1, <2>2
    <3> QED BY <1>1, <3>7, <3>8, <3>9 DEF CoroInv, NoLostWakeup
  <2> QED BY <2>1, <2>2
<1> QED BY <1>1, <1>2, <1>4, <1>5, <1>6, Ticks DEF CoroInv

LEMMA FrameFlushStep ==
  ASSUME BusInv, CoroInv, FrameFlush
  PROVE  CoroInv'
<1>1. /\ main = "idle" /\ ~MainSpawning /\ main' = "flush"
      /\ UNCHANGED <<where, wake, sleep, listener, fired, frees, spawn, visit, finished,
                     waiting, resumed, found, doneCalls>>
      /\ phase = "idle" /\ batch' = queue /\ queue' = <<>> /\ phase' = "flush"
      /\ UNCHANGED <<natives, nextListener>>
  BY DEF FrameFlush, FlushSwap, coroVars, historyVars, runVars, listenerVars
<1>2. CoroTypes'
  BY <1>1 DEF CoroInv, CoroTypes
<1>3. batch = <<>>
  BY <1>1 DEF BusInv, IInv, Line
<1>4. NoLostWakeup'
  BY <1>1, <1>3 DEF CoroInv, NoLostWakeup
<1> QED BY <1>1, <1>2, <1>4, Ticks DEF CoroInv

LEMMA DispatchNextWakes ==
  ASSUME BusInv, CoroInv, DispatchNext, UNCHANGED <<waiting, fired, spawn>>
  PROVE  NoLostWakeup'
<1>1. /\ phase = "flush" /\ batch # <<>> /\ cur' = Head(batch) /\ batch' = Tail(batch)
      /\ phase' = "callables" /\ queue' = queue
  BY DEF DispatchNext, queueVars
<1>2. PICK b \in Seq(Emission) : b = batch
  BY DEF BusInv, IInv, LineTypes
<1>3. /\ Len(b) \in Nat \ {0} /\ Len(Tail(b)) = Len(b) - 1
      /\ \A i \in 1..Len(b) - 1 : Tail(b)[i] = b[i + 1]
      /\ Head(b) = b[1]
      /\ DOMAIN b = 1..Len(b) /\ DOMAIN Tail(b) = 1..(Len(b) - 1)
  BY <1>1, <1>2, HeadTail, Elements
<1>4. ASSUME NEW x, \E i \in DOMAIN batch : batch[i].sig = x
      PROVE  cur'.sig = x \/ \E i \in DOMAIN batch' : batch'[i].sig = x
  <2>1. PICK i \in 1..Len(b) : b[i].sig = x
    BY <1>2, <1>3, <1>4
  <2>2. CASE i = 1
    BY <1>1, <1>2, <1>3, <2>1, <2>2
  <2>3. CASE i # 1
    <3>1. i - 1 \in 1..(Len(b) - 1) /\ Tail(b)[i - 1] = b[i]
      BY <1>3, <2>3
    <3> QED BY <1>1, <1>2, <1>3, <2>1, <3>1
  <2> QED BY <2>2, <2>3
<1>5. ASSUME NEW c \in waiting
      PROVE  \/ fired[c] \/ \E i \in DOMAIN queue : queue[i].sig = spawn[c].sig
             \/ cur'.sig = spawn[c].sig \/ \E i \in DOMAIN batch' : batch'[i].sig = spawn[c].sig
  <2>1. \/ fired[c] \/ \E i \in DOMAIN queue : queue[i].sig = spawn[c].sig
        \/ \E i \in DOMAIN batch : batch[i].sig = spawn[c].sig
    BY <1>1 DEF CoroInv, NoLostWakeup
  <2> QED BY <1>4, <2>1
<1> QED BY <1>1, <1>5 DEF NoLostWakeup

LEMMA CopyNativesWakes ==
  ASSUME BusInv, CoroInv, CopyNatives, UNCHANGED <<waiting, fired, spawn>>
  PROVE  NoLostWakeup'
<1>1. /\ phase = "callables" /\ phase' = "natives" /\ queue' = queue /\ batch' = batch
      /\ cur' = cur /\ todo' = Kept(natives, {l \in Listener : l.sig = cur.sig})
  BY DEF CopyNatives, queueVars
<1>2. natives \in Seq(Listener)
  BY DEF BusInv, ListInv, ListTypes
<1>3. \A l : InSeq(l, todo') <=> InSeq(l, natives) /\ l \in {k \in Listener : k.sig = cur.sig}
  BY <1>1, <1>2, KeptFacts
<1>4. DOMAIN natives = 1..Len(natives) /\ \A i \in 1..Len(natives) : natives[i] \in Listener
  BY <1>2, Elements
<1>5. ASSUME NEW c \in waiting, cur.sig = spawn[c].sig
      PROVE  \E i \in DOMAIN todo' : todo'[i].owner = c
  <2>1. PICK i \in 1..Len(natives) : natives[i].owner = c /\ natives[i].sig = spawn[c].sig
    BY DEF CoroInv, WaitersListen
  <2>2. InSeq(natives[i], natives)
    BY <1>4 DEF InSeq
  <2>3. InSeq(natives[i], todo')
    BY <1>3, <1>4, <1>5, <2>1, <2>2
  <2> QED BY <2>1, <2>3 DEF InSeq
<1> QED BY <1>1, <1>5 DEF CoroInv, NoLostWakeup

LEMMA FrameDispatchStep ==
  ASSUME BusInv, CoroInv, FrameDispatch
  PROVE  CoroInv'
<1>1. /\ main = "flush" /\ ~MainSpawning
      /\ UNCHANGED <<where, wake, sleep, listener, fired, frees, spawn, main, visit, finished,
                     waiting, resumed, found, doneCalls>>
      /\ DispatchNext \/ CallCallable \/ CopyNatives \/ DispatchDone
  BY DEF FrameDispatch, coroVars, historyVars, runVars, tickVars
<1>2. UNCHANGED <<natives, nextListener>>
  BY <1>1 DEF DispatchNext, CallCallable, CopyNatives, DispatchDone, listenerVars
<1>3. CoroTypes'
  BY <1>1 DEF CoroInv, CoroTypes
<1>4. NoLostWakeup'
  <2>1. CASE DispatchNext
    BY <1>1, <2>1, DispatchNextWakes
  <2>2. CASE CopyNatives
    BY <1>1, <2>2, CopyNativesWakes
  <2>3. CASE CallCallable
    <3>1. phase = "callables" /\ UNCHANGED <<queue, batch, phase, cur>>
      BY <2>3 DEF CallCallable, queueVars
    <3> QED BY <1>1, <3>1 DEF CoroInv, NoLostWakeup
  <2>4. CASE DispatchDone
    <3>1. phase = "natives" /\ todo = <<>> /\ phase' = "flush" /\ UNCHANGED <<queue, batch>>
      BY <2>4 DEF DispatchDone, queueVars
    <3> QED BY <1>1, <3>1 DEF CoroInv, NoLostWakeup
  <2> QED BY <1>1, <2>1, <2>2, <2>3, <2>4
<1> QED BY <1>1, <1>2, <1>3, <1>4, Ticks DEF CoroInv

LEMMA FrameWakeListenerStep ==
  ASSUME BusInv, CoroInv, FrameWakeListener
  PROVE  CoroInv'
<1>1. /\ main = "flush" /\ phase = "natives" /\ todo # <<>> /\ todo' = Tail(todo)
      /\ fired' = IF where[Head(todo).owner] = "active"
                    THEN [fired EXCEPT ![Head(todo).owner] = TRUE] ELSE fired
      /\ UNCHANGED <<where, wake, sleep, listener, frees, spawn, main, visit, finished,
                     waiting, resumed, found, doneCalls>>
      /\ UNCHANGED <<queue, batch, phase, cur, natives, nextListener>>
  BY DEF FrameWakeListener, CallNative, historyVars, runVars, tickVars, listenerVars, queueVars
<1>2. PICK t \in Seq(Listener) : t = todo
  BY <1>1 DEF BusInv, ListInv, ListTypes
<1>3. /\ Len(t) \in Nat \ {0} /\ Len(Tail(t)) = Len(t) - 1
      /\ \A i \in 1..Len(t) - 1 : Tail(t)[i] = t[i + 1]
      /\ Head(t) = t[1] /\ t[1] \in Listener
      /\ DOMAIN t = 1..Len(t) /\ DOMAIN Tail(t) = 1..(Len(t) - 1)
  BY <1>1, <1>2, HeadTail, Elements
<1>4. PICK d \in Coros : d = Head(todo).owner
  BY <1>2, <1>3 DEF Listener
<1>5. fired' = IF where[d] = "active" THEN [fired EXCEPT ![d] = TRUE] ELSE fired
  BY <1>1, <1>4
<1>6. CoroTypes'
  BY <1>1, <1>5 DEF CoroInv, CoroTypes
<1>7. NoLostWakeup'
  <2>1. ASSUME NEW c \in waiting, fired[c] PROVE fired'[c]
    BY <1>5, <2>1 DEF CoroInv, CoroTypes
  <2>2. ASSUME NEW c \in waiting, \E i \in DOMAIN todo : todo[i].owner = c
        PROVE  fired'[c] \/ \E i \in DOMAIN todo' : todo'[i].owner = c
    <3>1. PICK i \in 1..Len(t) : t[i].owner = c
      BY <1>2, <1>3, <2>2
    <3>2. CASE i = 1
      <4>1. c = d /\ where[c] = "active"
        BY <1>2, <1>3, <1>4, <3>1, <3>2 DEF CoroInv, WaitersListen
      <4> QED BY <1>5, <4>1 DEF CoroInv, CoroTypes
    <3>3. CASE i # 1
      <4>1. i - 1 \in 1..(Len(t) - 1) /\ Tail(t)[i - 1] = t[i]
        BY <1>3, <3>3
      <4> QED BY <1>1, <1>2, <1>3, <3>1, <4>1
    <3> QED BY <3>2, <3>3
  <2> QED BY <1>1, <2>1, <2>2 DEF CoroInv, NoLostWakeup
<1>8. ~MainSpawning
  BY <1>1, NotSpawning
<1> QED BY <1>1, <1>6, <1>7, <1>8, Ticks DEF CoroInv

LEMMA TickLockPendingStep ==
  ASSUME BusInv, CoroInv, TickLockPending
  PROVE  CoroInv'
<1>1. /\ main = "flush" /\ phase = "flush" /\ phase' = "idle" /\ main' = "adoptPending"
      /\ UNCHANGED <<where, wake, sleep, listener, fired, frees, spawn, visit, finished,
                     waiting, resumed, found, doneCalls>>
      /\ UNCHANGED <<queue, batch, cur, todo, natives, nextListener>>
  BY DEF TickLockPending, FlushDone, coroVars, historyVars, runVars, listenerVars, queueVars
<1>2. CoroTypes'
  BY <1>1 DEF CoroInv, CoroTypes
<1>3. NoLostWakeup'
  BY <1>1 DEF CoroInv, NoLostWakeup
<1>4. ~MainSpawning
  BY <1>1, NotSpawning
<1> QED BY <1>1, <1>2, <1>3, <1>4, Ticks DEF CoroInv

\* Steps of the tick that only move the main thread on, or one coroutine's clock.
LEMMA TickStep ==
  ASSUME CoroInv,
         \/ TickLockBoth \/ TickLock \/ TickUnlock
         \/ \E c \in Coros : TickSkip(c) \/ ResumeSuspends(c) \/ ResumeSelfLocks(c)
  PROVE  CoroInv'
<1>1. ASSUME TickLockBoth \/ TickLock PROVE CoroInv'
  <2>1. /\ main \in {"adoptPending", "adopted"}
        /\ \/ main' = "adoptBoth" /\ visit' = visit
           \/ main' = "resume" /\ visit' = Active
        /\ UNCHANGED <<where, wake, sleep, listener, fired, frees, spawn, finished,
                       waiting, resumed, found, doneCalls>>
        /\ UNCHANGED <<queue, batch, phase, cur, todo, natives, nextListener>>
    BY <1>1 DEF TickLockBoth, TickLock, coroVars, historyVars, runVars, busVars
  <2>2. Active \subseteq Coros
    BY DEF Active
  <2>3. CoroTypes'
    BY <2>1, <2>2 DEF CoroInv, CoroTypes
  <2>4. NoLostWakeup' /\ ~MainSpawning
    BY <2>1, WakeupsKept, NotSpawning
  <2> QED BY <2>1, <2>3, <2>4, Ticks DEF CoroInv
<1>2. ASSUME TickUnlock PROVE CoroInv'
  <2>1. /\ main = "resume" /\ main' = IF finished = <<>> THEN "idle" ELSE "finish"
        /\ UNCHANGED <<where, wake, sleep, listener, fired, frees, spawn, visit, finished,
                       waiting, resumed, found, doneCalls>>
        /\ UNCHANGED <<queue, batch, phase, cur, todo, natives, nextListener>>
    BY <1>2 DEF TickUnlock, coroVars, historyVars, runVars, busVars
  <2>2. CoroTypes'
    BY <2>1 DEF CoroInv, CoroTypes
  <2>3. NoLostWakeup' /\ ~MainSpawning
    BY <2>1, WakeupsKept, NotSpawning
  <2> QED BY <2>1, <2>2, <2>3, Ticks DEF CoroInv
<1>3. ASSUME NEW c \in Coros, TickSkip(c) PROVE CoroInv'
  <2>1. /\ main = "resume" /\ visit' = visit \ {c}
        /\ UNCHANGED <<where, wake, listener, fired, frees, spawn, main, finished,
                       waiting, resumed, found, doneCalls>>
        /\ UNCHANGED <<queue, batch, phase, cur, todo, natives, nextListener>>
    BY <1>3 DEF TickSkip, coroVars, historyVars, runVars, busVars
  <2>2. sleep' \in [Coros -> 0..MaxSleep]
    <3>1. SleepAfterTick(c) \in 0..MaxSleep
      BY DEF SleepAfterTick, CoroInv, CoroTypes
    <3> QED BY <1>3, <3>1 DEF TickSkip, CoroInv, CoroTypes
  <2>3. CoroTypes'
    BY <2>1, <2>2 DEF CoroInv, CoroTypes
  <2>4. NoLostWakeup' /\ visit \subseteq Active
    BY <2>1, WakeupsKept DEF CoroInv, VisitsActive
  <2> QED BY <2>1, <2>3, <2>4, Ticks DEF CoroInv
<1>4. ASSUME NEW c \in Coros, ResumeSuspends(c) PROVE CoroInv'
  <2>1. /\ main = "resume" /\ visit' = visit \ {c} /\ fired' = [fired EXCEPT ![c] = FALSE]
        /\ waiting' = waiting \ {c} /\ resumed' = resumed \cup {c}
        /\ UNCHANGED <<where, wake, listener, frees, spawn, main, finished, found, doneCalls>>
        /\ UNCHANGED <<queue, batch, phase, cur, todo, natives, nextListener>>
    BY <1>4 DEF ResumeSuspends, busVars
  <2>2. sleep' \in [Coros -> 0..MaxSleep]
    BY <1>4 DEF ResumeSuspends, CoroInv, CoroTypes
  <2>3. CoroTypes'
    BY <2>1, <2>2 DEF CoroInv, CoroTypes
  <2>4. \A d \in waiting' : spawn'[d].sig = spawn[d].sig /\ (fired[d] => fired'[d])
    BY <2>1 DEF CoroInv, CoroTypes
  <2>5. NoLostWakeup' /\ visit \subseteq Active
    BY <2>1, <2>4, WakeupsKept DEF CoroInv, VisitsActive
  <2> QED BY <2>1, <2>3, <2>5, Ticks DEF CoroInv
<1>5. ASSUME NEW c \in Coros, ResumeSelfLocks(c) PROVE CoroInv'
  <2>1. /\ main = "resume" /\ main' = "stuck"
        /\ UNCHANGED <<where, wake, sleep, listener, fired, frees, spawn, visit, finished,
                       waiting, resumed, found, doneCalls>>
        /\ UNCHANGED <<queue, batch, phase, cur, todo, natives, nextListener>>
    BY <1>5 DEF ResumeSelfLocks, coroVars, historyVars, runVars, busVars
  <2>2. CoroTypes'
    BY <2>1 DEF CoroInv, CoroTypes
  <2>3. NoLostWakeup' /\ ~MainSpawning
    BY <2>1, WakeupsKept, NotSpawning
  <2> QED BY <2>1, <2>2, <2>3, Ticks DEF CoroInv
<1> QED BY <1>1, <1>2, <1>3, <1>4, <1>5

SpawnRecord == [step : SpawnSteps, by : {"main", "other"}, sig : Signals \cup {NoSignal},
                id : 0..MaxListeners]

\* The listeners that are connected, one by one.
LEMMA EachNative ==
  ASSUME BusInv, CoroInv, NEW i \in 1..Len(natives)
  PROVE  /\ natives[i] \in Listener /\ natives[i].owner \in Coros
         /\ natives[i].id \in 1..MaxListeners
         /\ spawn[natives[i].owner].step \in {"connected", "ready"}
         /\ spawn[natives[i].owner].id = natives[i].id
         /\ spawn[natives[i].owner].sig = natives[i].sig
         /\ where[natives[i].owner] \in {"active", "gone"}
<1>1. natives[i] \in Listener
  BY Elements DEF BusInv, ListInv, ListTypes
<1>2. natives[i].owner \in Coros /\ natives[i].id \in 1..MaxListeners
  BY <1>1 DEF Listener
<1>3. /\ spawn[natives[i].owner].step \in {"connected", "ready"}
      /\ spawn[natives[i].owner].id = natives[i].id
      /\ spawn[natives[i].owner].sig = natives[i].sig
  BY DEF CoroInv, NativesRight
<1>4. where[natives[i].owner] \notin {"none", "pending"}
  BY <1>2, <1>3 DEF CoroInv, SpawnRight
<1> QED BY <1>1, <1>2, <1>3, <1>4 DEF CoroInv, CoroTypes

\* The entries whose on_done is still to come, one by one.
LEMMA EachFinished ==
  ASSUME CoroInv
  PROVE  /\ Len(finished) \in Nat /\ DOMAIN finished = 1..Len(finished)
         /\ \A i \in 1..Len(finished) :
               /\ finished[i] \in [coro : Coros, id : 0..MaxListeners]
               /\ finished[i].coro \in Coros /\ finished[i].id \in 0..MaxListeners
               /\ where[finished[i].coro] = "gone"
<1>1. finished \in Seq([coro : Coros, id : 0..MaxListeners])
  BY DEF CoroInv, CoroTypes
<1>2. /\ Len(finished) \in Nat /\ DOMAIN finished = 1..Len(finished)
      /\ \A i \in 1..Len(finished) : finished[i] \in [coro : Coros, id : 0..MaxListeners]
  BY <1>1, Elements
<1>3. \A i \in 1..Len(finished) : finished[i].coro \in Coros /\ finished[i].id \in 0..MaxListeners
  BY <1>2
<1>4. \A i \in 1..Len(finished) : where[finished[i].coro] = "gone"
  BY <1>3 DEF CoroInv, DoneRight, InFinished
<1> QED BY <1>2, <1>3, <1>4

\* A coroutine enters the scheduler.
LEMMA Begins ==
  ASSUME BusInv, CoroInv, NEW c \in Coros, where[c] = "none",
         NEW x \in {"pending", "active"}, where' = [where EXCEPT ![c] = x],
         NEW r \in SpawnRecord, spawn' = [spawn EXCEPT ![c] = r],
         r.step = IF x = "pending" THEN "ready" ELSE "inserted", r.id = 0,
         x = "active" => r.sig \in Signals,
         x = "active" /\ r.by = "main" =>
            main \in {"idle", "finish"} \/ (main = "flush" /\ phase = "callables"),
         wake' \in [Coros -> Wakes], sleep' \in [Coros -> 0..MaxSleep],
         UNCHANGED <<listener, fired, frees, main, visit, finished, waiting, resumed, found, doneCalls>>,
         UNCHANGED busVars
  PROVE  CoroInv'
<1>0. UNCHANGED <<natives, nextListener, queue, batch, phase, cur, todo>>
  BY DEF busVars
<1>1. /\ where \in [Coros -> {"none", "pending", "active", "gone"}] /\ spawn \in [Coros -> SpawnRecord]
      /\ where'[c] = x /\ spawn'[c] = r
      /\ \A d \in Coros : d # c => where'[d] = where[d] /\ spawn'[d] = spawn[d]
      /\ spawn' \in [Coros -> SpawnRecord]
      /\ where' \in [Coros -> {"none", "pending", "active", "gone"}]
  BY DEF CoroInv, CoroTypes, SpawnRecord
<1>2. CoroTypes'
  BY <1>1 DEF CoroInv, CoroTypes, SpawnRecord
<1>3. spawn[c].step = "unused" /\ spawn[c].id = 0 /\ listener[c] = 0
  BY DEF CoroInv, SpawnRight
<1>4. SpawnRight'
  <2>1. nextListener \in Nat /\ 0 < nextListener
    BY DEF BusInv, ListInv, ListTypes
  <2>2. \A d \in Coros : spawn'[d].id = spawn[d].id /\ listener'[d] = listener[d]
    BY <1>1, <1>3
  <2>3. \A d \in Coros : spawn'[d].id < nextListener' /\ listener'[d] \in {0, spawn'[d].id}
    BY <1>0, <2>2 DEF CoroInv, SpawnRight
  <2>4. \A d, e \in Coros : spawn'[d].id = spawn'[e].id => d = e \/ spawn'[d].id = 0
    BY <2>2 DEF CoroInv, SpawnRight
  <2>5. /\ where'[c] = "none" <=> spawn'[c].step = "unused"
        /\ where'[c] = "pending" => spawn'[c].step = "ready" /\ spawn'[c].id = 0
        /\ spawn'[c].step \in {"unused", "inserted"} => spawn'[c].id = 0
        /\ spawn'[c].step = "connected" => spawn'[c].id # 0
        /\ spawn'[c].step \in Spawning => spawn'[c].sig \in Signals
    BY <1>1 DEF Spawning
  <2>6. ASSUME NEW d \in Coros, d # c
        PROVE  /\ where'[d] = "none" <=> spawn'[d].step = "unused"
               /\ where'[d] = "pending" => spawn'[d].step = "ready" /\ spawn'[d].id = 0
               /\ spawn'[d].step \in {"unused", "inserted"} => spawn'[d].id = 0
               /\ spawn'[d].step = "connected" => spawn'[d].id # 0
               /\ spawn'[d].step \in Spawning => spawn'[d].sig \in Signals
    BY <1>1, <2>6 DEF CoroInv, SpawnRight
  <2> QED BY <2>3, <2>4, <2>5, <2>6 DEF SpawnRight
<1>5. SpawnsAlone'
  <2>1. c # c \/ (r.by = "main" /\ r.step \in Spawning => x = "active")
    BY DEF Spawning
  <2> QED BY <1>0, <1>1, <2>1 DEF CoroInv, SpawnsAlone
<1>6. \A i \in 1..Len(natives) : natives[i].owner \in Coros /\ natives[i].owner # c
  BY <1>3, EachNative
<1>7. NativesRight' /\ ListenersOwned'
  <2>1. DOMAIN natives = 1..Len(natives)
    BY Elements DEF BusInv, ListInv, ListTypes
  <2> QED BY <1>0, <1>1, <1>6, <2>1 DEF CoroInv, NativesRight, ListenersOwned
<1>8. \A d \in waiting : d \in Coros /\ d # c
  BY DEF CoroInv, CoroTypes, WaitersListen
<1>9. WaitersListen' /\ NoLostWakeup'
  <2>1. WaitersListen'
    <3>1. ASSUME NEW d \in waiting
          PROVE  /\ where[d] = "active"
                 /\ \E i \in 1..Len(natives) : natives[i].owner = d /\ natives[i].sig = spawn[d].sig
      BY DEF CoroInv, WaitersListen
    <3>2. ASSUME NEW d \in waiting PROVE where'[d] = where[d] /\ spawn'[d] = spawn[d]
      BY <1>0, <1>1, <1>8
    <3>3. waiting' = waiting /\ natives' = natives
      BY <1>0
    <3> QED BY <3>1, <3>2, <3>3 DEF WaitersListen
  <2>2. NoLostWakeup'
    BY <1>0, <1>1, <1>8, WakeupsKept
  <2> QED BY <2>1, <2>2
<1>10. FinishedRight'
  <2>1. \A i \in 1..Len(finished) : finished[i].coro \in Coros
    BY EachFinished
  <2>2. \A d \in Coros : spawn'[d].id = spawn[d].id
    BY <1>1, <1>3
  <2> QED BY <2>1, <2>2 DEF CoroInv, FinishedRight
<1>11. VisitsActive'
  <2>1. \A d \in Active : d \in Active'
    BY <1>1 DEF Active
  <2> QED BY <2>1 DEF CoroInv, VisitsActive
<1>12. DoneRight' /\ HandleFreedOnce'
  <2>1. DoneRight'
    BY <1>1 DEF CoroInv, DoneRight, InFinished
  <2>2. HandleFreedOnce'
    BY <1>1 DEF CoroInv, HandleFreedOnce
  <2> QED BY <2>1, <2>2
<1> QED BY <1>2, <1>4, <1>5, <1>7, <1>9, <1>10, <1>11, <1>12 DEF CoroInv

LEMMA SpawnPendingStep ==
  ASSUME BusInv, CoroInv, NEW t \in Threads, NEW c \in Coros, NEW w \in Wakes, SpawnPending(t, c, w)
  PROVE  CoroInv'
<1>1. PICK r : r = [spawn[c] EXCEPT !.step = "ready"]
  OBVIOUS
<1>2. /\ where[c] = "none" /\ where' = [where EXCEPT ![c] = "pending"]
      /\ spawn' = [spawn EXCEPT ![c] = r]
      /\ UNCHANGED <<listener, fired, frees, main, visit, finished, waiting, resumed, found, doneCalls>>
      /\ UNCHANGED busVars
  BY <1>1 DEF SpawnPending, tickVars, historyVars, runVars
<1>3. spawn[c] \in SpawnRecord /\ spawn[c].id = 0
  BY <1>2 DEF CoroInv, CoroTypes, SpawnRight, SpawnRecord
<1>4. r \in SpawnRecord /\ r.step = "ready" /\ r.id = 0
  BY <1>1, <1>3 DEF SpawnRecord, SpawnSteps
<1>5. wake' \in [Coros -> Wakes] /\ sleep' \in [Coros -> 0..MaxSleep]
  BY DEF SpawnPending, CoroInv, CoroTypes
<1> QED BY <1>2, <1>4, <1>5, Begins

LEMMA SpawnInsertStep ==
  ASSUME BusInv, CoroInv, NEW t \in Threads, NEW c \in Coros, NEW s \in Signals, SpawnInsert(t, c, s)
  PROVE  CoroInv'
<1>1. PICK r : r = [step |-> "inserted", by |-> t, sig |-> s, id |-> 0]
  OBVIOUS
<1>2. /\ where[c] = "none" /\ where' = [where EXCEPT ![c] = "active"]
      /\ spawn' = [spawn EXCEPT ![c] = r] /\ wake' = [wake EXCEPT ![c] = "signal"] /\ sleep' = sleep
      /\ UNCHANGED <<listener, fired, frees, main, visit, finished, waiting, resumed, found, doneCalls>>
      /\ UNCHANGED busVars
  BY <1>1 DEF SpawnInsert, InsertedInto, tickVars, historyVars, runVars
<1>3. r \in SpawnRecord /\ r.step = "inserted" /\ r.id = 0 /\ r.sig \in Signals /\ r.by = t
  BY <1>1 DEF SpawnRecord, SpawnSteps, Spawning, Threads
<1>4. t = "main" => main \in {"idle", "finish"} \/ (main = "flush" /\ phase = "callables")
  BY DEF SpawnInsert, MayCall, MainRunsScript
<1>5. wake' \in [Coros -> Wakes] /\ sleep' \in [Coros -> 0..MaxSleep]
  BY <1>2 DEF CoroInv, CoroTypes, Wakes
<1> QED BY <1>2, <1>3, <1>4, <1>5, Begins

LEMMA SpawnConnectStep ==
  ASSUME BusInv, CoroInv, NEW c \in Coros, SpawnConnect(c)
  PROVE  CoroInv'
<1>1. PICK l : l = [id |-> nextListener, sig |-> spawn[c].sig, owner |-> c]
  OBVIOUS
<1>2. PICK r : r = [spawn[c] EXCEPT !.step = "connected", !.id = nextListener]
  OBVIOUS
<1>3. /\ spawn[c].step = "inserted" /\ spawn' = [spawn EXCEPT ![c] = r]
      /\ nextListener <= MaxListeners /\ natives' = Append(natives, l) /\ nextListener' = nextListener + 1
      /\ UNCHANGED <<where, wake, sleep, listener, fired, frees, main, visit, finished,
                     waiting, resumed, found, doneCalls>>
      /\ UNCHANGED <<queue, batch, phase, cur, todo>>
  BY <1>1, <1>2 DEF SpawnConnect, ConnectNative, coroVars, tickVars, historyVars, runVars, flushVars, queueVars
<1>4. /\ nextListener \in 1..MaxListeners /\ natives \in Seq(Listener)
      /\ spawn \in [Coros -> SpawnRecord] /\ spawn[c].sig \in Signals
      /\ spawn[c].id = 0 /\ listener[c] = 0
  <2>1. nextListener \in 1..MaxListeners /\ natives \in Seq(Listener)
    BY <1>3 DEF BusInv, ListInv, ListTypes
  <2>2. /\ spawn \in [Coros -> SpawnRecord] /\ spawn[c].sig \in Signals
        /\ spawn[c].id = 0 /\ listener[c] = 0
    BY <1>3 DEF CoroInv, CoroTypes, SpawnRight, Spawning, SpawnRecord
  <2> QED BY <2>1, <2>2
<1>5. /\ r \in SpawnRecord /\ r.step = "connected" /\ r.id = nextListener
      /\ r.sig = spawn[c].sig /\ r.by = spawn[c].by
  <2>1. spawn[c] \in SpawnRecord /\ nextListener \in 0..MaxListeners /\ "connected" \in SpawnSteps
    BY <1>4 DEF SpawnSteps, Spawning
  <2> QED BY <1>2, <2>1 DEF SpawnRecord
<1>6. l \in Listener /\ l.id = nextListener /\ l.sig = spawn[c].sig /\ l.owner = c
  BY <1>1, <1>4 DEF Listener
<1>7. /\ spawn' \in [Coros -> SpawnRecord] /\ spawn'[c] = r
      /\ \A d \in Coros : d # c => spawn'[d] = spawn[d]
  BY <1>3, <1>4, <1>5
<1>8. PICK n \in Nat : n = Len(natives)
  BY <1>4
<1>9. /\ Len(natives') = n + 1 /\ natives'[n + 1] = l
      /\ \A i \in 1..n : natives'[i] = natives[i]
      /\ \A i \in 1..(n + 1) : i \in 1..n \/ i = n + 1
      /\ \A i \in 1..n : i \in 1..(n + 1)
      /\ DOMAIN natives = 1..n /\ DOMAIN natives' = 1..(n + 1)
  BY <1>3, <1>4, <1>6, <1>8, Appended, Elements
<1>10. \A i \in 1..n : natives[i].owner \in Coros /\ natives[i].owner # c
  BY <1>3, <1>8, EachNative
<1>11. CoroTypes'
  BY <1>3, <1>7 DEF CoroInv, CoroTypes, SpawnRecord
<1>12. SpawnRight'
  <2>1. \A d \in Coros : spawn[d].id \in 0..MaxListeners /\ spawn[d].id < nextListener
    BY <1>4 DEF CoroInv, SpawnRight, SpawnRecord
  <2>2. \A d, e \in Coros : spawn'[d].id = spawn'[e].id => d = e \/ spawn'[d].id = 0
    <3> SUFFICES ASSUME NEW d \in Coros, NEW e \in Coros, spawn'[d].id = spawn'[e].id, d # e
                 PROVE  spawn'[d].id = 0
      OBVIOUS
    <3>1. CASE d = c
      BY <1>5, <1>7, <2>1, <3>1
    <3>2. CASE e = c
      BY <1>5, <1>7, <2>1, <3>2
    <3>3. CASE d # c /\ e # c
      BY <1>7, <3>3 DEF CoroInv, SpawnRight
    <3> QED BY <3>1, <3>2, <3>3
  <2>3. /\ where'[c] = "none" <=> spawn'[c].step = "unused"
        /\ where'[c] = "pending" => spawn'[c].step = "ready" /\ spawn'[c].id = 0
        /\ spawn'[c].step \in {"unused", "inserted"} => spawn'[c].id = 0
        /\ spawn'[c].step = "connected" => spawn'[c].id # 0
        /\ spawn'[c].step \in Spawning => spawn'[c].sig \in Signals
        /\ spawn'[c].id < nextListener'
        /\ listener'[c] \in {0, spawn'[c].id}
    <3>1. where[c] # "none" /\ where[c] # "pending"
      BY <1>3 DEF CoroInv, SpawnRight
    <3> QED BY <1>3, <1>4, <1>5, <1>7, <3>1
  <2>4. ASSUME NEW d \in Coros, d # c
        PROVE  /\ where'[d] = "none" <=> spawn'[d].step = "unused"
               /\ where'[d] = "pending" => spawn'[d].step = "ready" /\ spawn'[d].id = 0
               /\ spawn'[d].step \in {"unused", "inserted"} => spawn'[d].id = 0
               /\ spawn'[d].step = "connected" => spawn'[d].id # 0
               /\ spawn'[d].step \in Spawning => spawn'[d].sig \in Signals
               /\ spawn'[d].id < nextListener'
               /\ listener'[d] \in {0, spawn'[d].id}
    <3>1. spawn[d].id < nextListener + 1
      BY <1>4, <2>1
    <3> QED BY <1>3, <1>7, <2>4, <3>1 DEF CoroInv, SpawnRight
  <2> QED BY <2>2, <2>3, <2>4 DEF SpawnRight
<1>13. SpawnsAlone'
  BY <1>3, <1>5, <1>7 DEF CoroInv, SpawnsAlone, Spawning
<1>14. NativesRight'
  <2> SUFFICES ASSUME NEW i \in 1..(n + 1)
               PROVE  /\ spawn'[natives'[i].owner].step \in {"connected", "ready"}
                      /\ spawn'[natives'[i].owner].id = natives'[i].id
                      /\ spawn'[natives'[i].owner].sig = natives'[i].sig
    BY <1>9 DEF NativesRight
  <2>1. CASE i \in 1..n
    BY <1>7, <1>8, <1>9, <1>10, <2>1 DEF CoroInv, NativesRight
  <2>2. CASE i = n + 1
    BY <1>5, <1>6, <1>7, <1>9, <2>2
  <2> QED BY <1>9, <2>1, <2>2
<1>15. ListenersOwned'
  <2> SUFFICES ASSUME NEW i \in 1..(n + 1), spawn'[natives'[i].owner].by = "main"
               PROVE  \/ /\ where'[natives'[i].owner] = "active"
                         /\ listener'[natives'[i].owner] = natives'[i].id
                      \/ spawn'[natives'[i].owner].step = "connected"
                      \/ \E j \in DOMAIN finished' : finished'[j].id = natives'[i].id
    BY <1>9 DEF ListenersOwned
  <2>1. CASE i \in 1..n
    BY <1>3, <1>7, <1>9, <1>10, <2>1 DEF CoroInv, ListenersOwned
  <2>2. CASE i = n + 1
    BY <1>5, <1>6, <1>7, <1>9, <2>2
  <2> QED BY <1>9, <2>1, <2>2
<1>16. \A d \in Coros : spawn'[d].sig = spawn[d].sig
  BY <1>5, <1>7
<1>17. waiting \subseteq Coros
  BY DEF CoroInv, CoroTypes
<1>18. WaitersListen' /\ NoLostWakeup'
  <2>1. WaitersListen'
    BY <1>3, <1>8, <1>9, <1>16, <1>17 DEF CoroInv, WaitersListen
  <2>2. NoLostWakeup'
    BY <1>3, <1>16, <1>17, WakeupsKept
  <2> QED BY <2>1, <2>2
<1>19. FinishedRight'
  <2>1. \A i \in 1..Len(finished) : finished[i].coro \in Coros
    BY EachFinished
  <2>2. ASSUME NEW i \in 1..Len(finished)
        PROVE  finished[i].id \in {0, spawn'[finished[i].coro].id}
    <3>1. finished[i].id \in {0, spawn[finished[i].coro].id}
      BY DEF CoroInv, FinishedRight
    <3> QED BY <1>4, <1>7, <2>1, <3>1
  <2> QED BY <1>3, <2>2 DEF CoroInv, FinishedRight
<1>20. VisitsActive' /\ DoneRight' /\ HandleFreedOnce'
  <2>1. VisitsActive' /\ DoneRight'
    BY <1>3 DEF CoroInv, VisitsActive, DoneRight, Active, InFinished
  <2>2. HandleFreedOnce'
    BY <1>3 DEF CoroInv, HandleFreedOnce
  <2> QED BY <2>1, <2>2
<1> QED BY <1>11, <1>12, <1>13, <1>14, <1>15, <1>18, <1>19, <1>20 DEF CoroInv

LEMMA SpawnWriteBackStep ==
  ASSUME BusInv, CoroInv, NEW c \in Coros, SpawnWriteBack(c)
  PROVE  CoroInv'
<1>1. PICK r : r = [spawn[c] EXCEPT !.step = "ready"]
  OBVIOUS
<1>2. /\ spawn[c].step = "connected" /\ spawn' = [spawn EXCEPT ![c] = r]
      /\ listener' = IF where[c] = "active" THEN [listener EXCEPT ![c] = spawn[c].id] ELSE listener
      /\ UNCHANGED <<where, wake, sleep, fired, frees, main, visit, finished,
                     waiting, resumed, found, doneCalls>>
      /\ UNCHANGED <<queue, batch, phase, cur, todo, natives, nextListener>>
  BY <1>1 DEF SpawnWriteBack, busVars, tickVars, historyVars, runVars
<1>3. spawn \in [Coros -> SpawnRecord] /\ spawn[c] \in SpawnRecord
  BY DEF CoroInv, CoroTypes, SpawnRecord
<1>4. /\ r \in SpawnRecord /\ r.step = "ready" /\ r.id = spawn[c].id
      /\ r.sig = spawn[c].sig /\ r.by = spawn[c].by
  BY <1>1, <1>3 DEF SpawnRecord, SpawnSteps
<1>5. /\ spawn' \in [Coros -> SpawnRecord] /\ spawn'[c] = r
      /\ \A d \in Coros : d # c => spawn'[d] = spawn[d]
  BY <1>2, <1>3, <1>4
<1>6. /\ \A d \in Coros : spawn'[d].id = spawn[d].id /\ spawn'[d].sig = spawn[d].sig
                          /\ spawn'[d].by = spawn[d].by
      /\ \A d \in Coros : d # c => listener'[d] = listener[d]
      /\ listener'[c] \in {listener[c], spawn[c].id}
      /\ where[c] = "active" => listener'[c] = spawn[c].id
  BY <1>2, <1>4, <1>5 DEF CoroInv, CoroTypes
<1>7. CoroTypes'
  <2>1. listener' \in [Coros -> 0..MaxListeners]
    BY <1>2, <1>3 DEF CoroInv, CoroTypes, SpawnRecord
  <2> QED BY <1>2, <1>5, <2>1 DEF CoroInv, CoroTypes, SpawnRecord
<1>8. SpawnRight'
  <2>1. where[c] # "none" /\ where[c] # "pending"
    BY <1>2 DEF CoroInv, SpawnRight
  <2>2. \A d \in Coros : spawn'[d].id < nextListener' /\ listener'[d] \in {0, spawn'[d].id}
    BY <1>2, <1>6 DEF CoroInv, SpawnRight
  <2>3. \A d, e \in Coros : spawn'[d].id = spawn'[e].id => d = e \/ spawn'[d].id = 0
    BY <1>6 DEF CoroInv, SpawnRight
  <2>4. /\ where'[c] = "none" <=> spawn'[c].step = "unused"
        /\ where'[c] = "pending" => spawn'[c].step = "ready" /\ spawn'[c].id = 0
        /\ spawn'[c].step \in {"unused", "inserted"} => spawn'[c].id = 0
        /\ spawn'[c].step = "connected" => spawn'[c].id # 0
        /\ spawn'[c].step \in Spawning => spawn'[c].sig \in Signals
    BY <1>2, <1>4, <1>5, <2>1 DEF Spawning
  <2>5. ASSUME NEW d \in Coros, d # c
        PROVE  /\ where'[d] = "none" <=> spawn'[d].step = "unused"
               /\ where'[d] = "pending" => spawn'[d].step = "ready" /\ spawn'[d].id = 0
               /\ spawn'[d].step \in {"unused", "inserted"} => spawn'[d].id = 0
               /\ spawn'[d].step = "connected" => spawn'[d].id # 0
               /\ spawn'[d].step \in Spawning => spawn'[d].sig \in Signals
    BY <1>2, <1>5, <2>5 DEF CoroInv, SpawnRight
  <2> QED BY <2>2, <2>3, <2>4, <2>5 DEF SpawnRight
<1>9. SpawnsAlone'
  BY <1>2, <1>4, <1>5 DEF CoroInv, SpawnsAlone, Spawning
<1>10. ASSUME NEW i \in 1..Len(natives)
       PROVE  /\ spawn'[natives[i].owner].step \in {"connected", "ready"}
              /\ spawn'[natives[i].owner].id = natives[i].id
              /\ spawn'[natives[i].owner].sig = natives[i].sig
  BY <1>4, <1>5, <1>6, EachNative
<1>11. NativesRight'
  BY <1>2, <1>10 DEF NativesRight
<1>12. ListenersOwned'
  <2>1. DOMAIN natives = 1..Len(natives)
    BY Elements DEF BusInv, ListInv, ListTypes
  <2> SUFFICES ASSUME NEW i \in 1..Len(natives), spawn'[natives[i].owner].by = "main"
               PROVE  \/ /\ where[natives[i].owner] = "active"
                         /\ listener'[natives[i].owner] = natives[i].id
                      \/ spawn'[natives[i].owner].step = "connected"
                      \/ \E j \in DOMAIN finished : finished[j].id = natives[i].id
    BY <1>2, <2>1 DEF ListenersOwned
  <2>2. natives[i].owner \in Coros /\ spawn[natives[i].owner].id = natives[i].id
    BY EachNative
  <2>3. CASE natives[i].owner = c
    <3>1. where[c] = "active"
      BY <1>2, <1>6, <2>2, <2>3 DEF CoroInv, SpawnsAlone, Spawning
    <3> QED BY <1>6, <2>2, <2>3, <3>1
  <2>4. CASE natives[i].owner # c
    BY <1>5, <1>6, <2>1, <2>2, <2>4 DEF CoroInv, ListenersOwned
  <2> QED BY <2>3, <2>4
<1>13. waiting \subseteq Coros
  BY DEF CoroInv, CoroTypes
<1>14. WaitersListen' /\ NoLostWakeup'
  <2>1. WaitersListen'
    BY <1>2, <1>6, <1>13 DEF CoroInv, WaitersListen
  <2>2. NoLostWakeup'
    BY <1>2, <1>6, <1>13, WakeupsKept
  <2> QED BY <2>1, <2>2
<1>15. FinishedRight'
  <2>1. \A i \in 1..Len(finished) : finished[i].coro \in Coros
    BY EachFinished
  <2> QED BY <1>2, <1>6, <2>1 DEF CoroInv, FinishedRight
<1>16. VisitsActive' /\ DoneRight' /\ HandleFreedOnce'
  <2>1. VisitsActive' /\ DoneRight'
    BY <1>2 DEF CoroInv, VisitsActive, DoneRight, Active, InFinished
  <2>2. HandleFreedOnce'
    BY <1>2 DEF CoroInv, HandleFreedOnce
  <2> QED BY <2>1, <2>2
<1> QED BY <1>7, <1>8, <1>9, <1>11, <1>12, <1>14, <1>15, <1>16 DEF CoroInv

\* Listeners are disconnected: those that stay are still somebody's.
LEMMA Disconnects ==
  ASSUME BusInv, CoroInv, NEW gone, DisconnectNative(gone),
         UNCHANGED spawn, waiting' \subseteq waiting,
         \A d \in waiting' : where'[d] = "active" /\ spawn[d].id \notin gone,
         \A d \in Coros : spawn[d].by = "main" /\ spawn[d].id \notin gone =>
            /\ where[d] = "active" /\ listener[d] = spawn[d].id =>
                  \/ where'[d] = "active" /\ listener'[d] = spawn[d].id
                  \/ \E j \in DOMAIN finished' : finished'[j].id = spawn[d].id
            /\ (\E j \in DOMAIN finished : finished[j].id = spawn[d].id) =>
                  \E j \in DOMAIN finished' : finished'[j].id = spawn[d].id
  PROVE  NativesRight' /\ WaitersListen' /\ ListenersOwned'
<1>1. natives \in Seq(Listener) /\ natives' = Kept(natives, {l \in Listener : l.id \notin gone})
  BY DEF BusInv, ListInv, ListTypes, DisconnectNative, Without
<1>2. /\ natives' \in Seq(Listener)
      /\ \A l : InSeq(l, natives') <=> InSeq(l, natives) /\ l \in {k \in Listener : k.id \notin gone}
  BY <1>1, KeptFacts
<1>3. /\ DOMAIN natives = 1..Len(natives) /\ DOMAIN natives' = 1..Len(natives')
  BY <1>1, <1>2, Elements
<1>4. ASSUME NEW i \in 1..Len(natives')
      PROVE  \E k \in 1..Len(natives) : natives[k] = natives'[i] /\ natives'[i].id \notin gone
  <2>1. InSeq(natives'[i], natives')
    BY <1>3 DEF InSeq
  <2>2. InSeq(natives'[i], natives) /\ natives'[i].id \notin gone
    BY <1>2, <2>1
  <2> QED BY <1>3, <2>2 DEF InSeq
<1>5. NativesRight'
  <2> SUFFICES ASSUME NEW i \in 1..Len(natives')
               PROVE  /\ spawn[natives'[i].owner].step \in {"connected", "ready"}
                      /\ spawn[natives'[i].owner].id = natives'[i].id
                      /\ spawn[natives'[i].owner].sig = natives'[i].sig
    BY DEF NativesRight
  <2> QED BY <1>4, EachNative
<1>6. WaitersListen'
  <2> SUFFICES ASSUME NEW d \in waiting'
               PROVE  \E i \in 1..Len(natives') : natives'[i].owner = d /\ natives'[i].sig = spawn[d].sig
    BY DEF WaitersListen
  <2>1. PICK k \in 1..Len(natives) : natives[k].owner = d /\ natives[k].sig = spawn[d].sig
    BY DEF CoroInv, WaitersListen
  <2>2. natives[k] \in Listener /\ natives[k].id \notin gone
    BY <2>1, EachNative
  <2>3. InSeq(natives[k], natives)
    BY <1>3 DEF InSeq
  <2>4. InSeq(natives[k], natives')
    BY <1>2, <2>2, <2>3
  <2> QED BY <1>3, <2>1, <2>4 DEF InSeq
<1>7. ListenersOwned'
  <2> SUFFICES ASSUME NEW i \in 1..Len(natives'), spawn[natives'[i].owner].by = "main"
               PROVE  \/ /\ where'[natives'[i].owner] = "active"
                         /\ listener'[natives'[i].owner] = natives'[i].id
                      \/ spawn[natives'[i].owner].step = "connected"
                      \/ \E j \in DOMAIN finished' : finished'[j].id = natives'[i].id
    BY <1>3 DEF ListenersOwned
  <2>1. PICK k \in 1..Len(natives) : natives[k] = natives'[i] /\ natives'[i].id \notin gone
    BY <1>4
  <2>2. PICK d \in Coros : d = natives[k].owner
    BY EachNative
  <2>3. natives[k].id = spawn[d].id /\ natives'[i].owner = d /\ natives'[i].id = spawn[d].id
    BY <2>1, <2>2, EachNative
  <2>4. \/ where[d] = "active" /\ listener[d] = spawn[d].id
        \/ spawn[d].step = "connected"
        \/ \E j \in DOMAIN finished : finished[j].id = spawn[d].id
    BY <1>3, <2>2, <2>3 DEF CoroInv, ListenersOwned
  <2>5. spawn[d].by = "main" /\ spawn[d].id \notin gone
    BY <2>1, <2>3
  <2> QED BY <2>3, <2>4, <2>5
<1> QED BY <1>5, <1>6, <1>7

\* The id of a coroutine that a wake-up waits for is that of its listener, nobody else's.
LEMMA WaiterId ==
  ASSUME BusInv, CoroInv, NEW d \in waiting
  PROVE  /\ d \in Coros /\ where[d] = "active" /\ spawn[d].id # 0
         /\ \A c \in Coros : c # d => spawn[c].id # spawn[d].id /\ listener[c] # spawn[d].id
<1>1. d \in Coros /\ where[d] = "active"
  BY DEF CoroInv, CoroTypes, WaitersListen
<1>2. PICK i \in 1..Len(natives) : natives[i].owner = d
  BY DEF CoroInv, WaitersListen
<1>3. spawn[d].id # 0
  BY <1>2, EachNative
<1> QED BY <1>1, <1>3 DEF CoroInv, SpawnRight

LEMMA CancelStep ==
  ASSUME BusInv, CoroInv, NEW t \in Threads, NEW c \in Coros, Cancel(t, c)
  PROVE  CoroInv'
<1>1. /\ ~ActiveHeld /\ spawn[c].step = "ready" /\ main # "shut"
      /\ UNCHANGED <<wake, sleep, listener, fired, spawn, main, visit, finished, resumed, doneCalls>>
  BY DEF Cancel, MayCall, MainRunsScript, tickVars
<1>2. CASE where[c] # "active"
  <2>1. UNCHANGED <<frees, where, found, waiting>>
        /\ UNCHANGED <<queue, batch, phase, cur, todo, natives, nextListener>>
    BY <1>2 DEF Cancel, busVars
  <2>2. CoroTypes'
    BY <1>1, <2>1 DEF CoroInv, CoroTypes
  <2>3. NoLostWakeup'
    BY <1>1, <2>1, WakeupsKept
  <2>4. (main = "finish" => finished # <<>>) /\ (main = "resume" => visit \subseteq Active)
    BY DEF CoroInv, FinishedRight, VisitsActive
  <2> QED BY <1>1, <2>1, <2>2, <2>3, <2>4, Ticks DEF CoroInv
<1>3. CASE where[c] = "active"
  <2>1. /\ DisconnectNative({listener[c]})
        /\ frees' = [frees EXCEPT ![c] = @ + 1] /\ where' = [where EXCEPT ![c] = "gone"]
        /\ found' = found \cup {c} /\ waiting' = waiting \ {c}
    BY <1>3 DEF Cancel, ListenerOf
  <2>2. UNCHANGED <<queue, batch, phase, cur, todo, nextListener>>
    BY <2>1 DEF DisconnectNative, flushVars, queueVars
  <2>3. /\ where'[c] = "gone" /\ \A d \in Coros : d # c => where'[d] = where[d]
    BY <2>1 DEF CoroInv, CoroTypes
  <2>4. CoroTypes'
    BY <1>1, <2>1 DEF CoroInv, CoroTypes
  <2>5. SpawnRight'
    BY <1>1, <1>3, <2>2, <2>3 DEF CoroInv, SpawnRight, Spawning
  <2>6. SpawnsAlone'
    BY <1>1, <2>2, <2>3 DEF CoroInv, SpawnsAlone, Spawning
  <2>7. NativesRight' /\ WaitersListen' /\ ListenersOwned'
    <3>1. \A d \in waiting' : where'[d] = "active" /\ spawn[d].id \notin {listener[c]}
      BY <2>1, <2>3, WaiterId
    <3>2. \A d \in Coros : spawn[d].by = "main" /\ spawn[d].id \notin {listener[c]} =>
            /\ where[d] = "active" /\ listener[d] = spawn[d].id =>
                  where'[d] = "active" /\ listener'[d] = spawn[d].id
            /\ (\E j \in DOMAIN finished : finished[j].id = spawn[d].id) =>
                  \E j \in DOMAIN finished' : finished'[j].id = spawn[d].id
      BY <1>1, <2>3
    <3> QED BY <1>1, <2>1, <3>1, <3>2, Disconnects
  <2>8. FinishedRight'
    BY <1>1 DEF CoroInv, FinishedRight
  <2>9. VisitsActive'
    BY <1>1 DEF VisitsActive, ActiveHeld
  <2>10. DoneRight' /\ HandleFreedOnce'
    <3>1. doneCalls[c] = 0 /\ ~InFinished(c) /\ c \notin found
      BY <1>3 DEF CoroInv, DoneRight
    <3>2. DoneRight'
      BY <1>1, <2>1, <2>3, <3>1 DEF CoroInv, DoneRight, InFinished
    <3>3. HandleFreedOnce'
      BY <1>3, <2>1, <2>3 DEF CoroInv, CoroTypes, HandleFreedOnce
    <3> QED BY <3>2, <3>3
  <2>11. NoLostWakeup'
    BY <1>1, <2>1, <2>2, WakeupsKept
  <2> QED BY <2>4, <2>5, <2>6, <2>7, <2>8, <2>9, <2>10, <2>11 DEF CoroInv
<1> QED BY <1>2, <1>3

LEMMA TickAdoptStep ==
  ASSUME BusInv, CoroInv, TickAdopt
  PROVE  CoroInv'
<1>1. /\ main \in {"adoptPending", "adoptBoth"} /\ main' = "adopted"
      /\ where' = [c \in Coros |-> IF c \in Pending THEN "active" ELSE where[c]]
      /\ UNCHANGED <<wake, sleep, listener, fired, frees, spawn, visit, finished,
                     waiting, resumed, found, doneCalls>>
      /\ UNCHANGED <<queue, batch, phase, cur, todo, natives, nextListener>>
  BY DEF TickAdopt, busVars, historyVars, runVars
<1>2. \A d \in Coros : where'[d] = IF where[d] = "pending" THEN "active" ELSE where[d]
  BY <1>1 DEF Pending
<1>3. CoroTypes'
  <2>1. where' \in [Coros -> {"none", "pending", "active", "gone"}]
    BY <1>1 DEF CoroInv, CoroTypes
  <2> QED BY <1>1, <2>1 DEF CoroInv, CoroTypes
<1>4. SpawnRight'
  BY <1>1, <1>2 DEF CoroInv, SpawnRight
<1>5. SpawnsAlone'
  BY <1>1, NotSpawning DEF SpawnsAlone, MainSpawning
<1>6. NativesRight' /\ FinishedRight' /\ VisitsActive'
  BY <1>1 DEF CoroInv, NativesRight, FinishedRight, VisitsActive
<1>7. DoneRight' /\ HandleFreedOnce'
  <2>1. DoneRight'
    BY <1>1, <1>2 DEF CoroInv, DoneRight, InFinished
  <2>2. HandleFreedOnce'
    BY <1>1, <1>2 DEF CoroInv, HandleFreedOnce
  <2> QED BY <2>1, <2>2
<1>8. WaitersListen'
  BY <1>1, <1>2, WaiterId DEF CoroInv, WaitersListen
<1>9. ListenersOwned'
  <2>1. DOMAIN natives = 1..Len(natives)
    BY Elements DEF BusInv, ListInv, ListTypes
  <2>2. \A i \in 1..Len(natives) : natives[i].owner \in Coros
    BY EachNative
  <2> QED BY <1>1, <1>2, <2>1, <2>2 DEF CoroInv, ListenersOwned
<1>10. NoLostWakeup'
  BY <1>1, WakeupsKept
<1> QED BY <1>3, <1>4, <1>5, <1>6, <1>7, <1>8, <1>9, <1>10 DEF CoroInv

LEMMA ResumeEndsStep ==
  ASSUME BusInv, CoroInv, NEW c \in Coros, ResumeEnds(c)
  PROVE  CoroInv'
<1>1. PICK e : e = [coro |-> c, id |-> listener[c]]
  OBVIOUS
<1>2. /\ main = "resume" /\ c \in visit /\ visit' = visit \ {c}
      /\ fired' = [fired EXCEPT ![c] = FALSE] /\ frees' = [frees EXCEPT ![c] = @ + 1]
      /\ where' = [where EXCEPT ![c] = "gone"] /\ finished' = Append(finished, e)
      /\ waiting' = waiting \ {c} /\ resumed' = resumed \cup {c}
      /\ UNCHANGED <<wake, sleep, listener, spawn, main, found, doneCalls>>
      /\ UNCHANGED <<queue, batch, phase, cur, todo, natives, nextListener>>
  BY <1>1 DEF ResumeEnds, Erased, ListenerOf, busVars
<1>3. where[c] = "active"
  BY <1>2 DEF CoroInv, VisitsActive, Active
<1>4. e \in [coro : Coros, id : 0..MaxListeners] /\ e.coro = c /\ e.id = listener[c]
  BY <1>1 DEF CoroInv, CoroTypes
<1>5. finished \in Seq([coro : Coros, id : 0..MaxListeners])
  BY DEF CoroInv, CoroTypes
<1>6. PICK n \in Nat : n = Len(finished)
  BY <1>5
<1>7. /\ finished' \in Seq([coro : Coros, id : 0..MaxListeners])
      /\ Len(finished') = n + 1 /\ finished'[n + 1] = e
      /\ \A i \in 1..n : finished'[i] = finished[i]
      /\ \A i \in 1..(n + 1) : i \in 1..n \/ i = n + 1
      /\ \A i \in 1..n : i \in 1..(n + 1)
      /\ n + 1 \in 1..(n + 1)
      /\ DOMAIN finished = 1..n /\ DOMAIN finished' = 1..(n + 1)
  BY <1>2, <1>4, <1>5, <1>6, Appended, Elements
<1>8. /\ where'[c] = "gone" /\ \A d \in Coros : d # c => where'[d] = where[d]
  BY <1>2 DEF CoroInv, CoroTypes
<1>9. CoroTypes'
  <2>1. /\ where' \in [Coros -> {"none", "pending", "active", "gone"}]
        /\ fired' \in [Coros -> BOOLEAN]
    BY <1>2 DEF CoroInv, CoroTypes
  <2>2. frees' \in [Coros -> Nat]
    <3>1. frees \in [Coros -> Nat] /\ frees[c] + 1 \in Nat
      BY DEF CoroInv, CoroTypes
    <3> QED BY <1>2, <3>1
  <2>3. visit' \in SUBSET Coros /\ waiting' \in SUBSET Coros /\ resumed' \in SUBSET Coros
    BY <1>2 DEF CoroInv, CoroTypes
  <2> QED BY <1>2, <1>7, <2>1, <2>2, <2>3 DEF CoroInv, CoroTypes
<1>10. ~MainSpawning
  BY <1>2, NotSpawning
<1>11. SpawnRight'
  BY <1>2, <1>3, <1>8 DEF CoroInv, SpawnRight
<1>12. SpawnsAlone'
  BY <1>2, <1>10 DEF SpawnsAlone, MainSpawning
<1>13. NativesRight'
  BY <1>2 DEF CoroInv, NativesRight
<1>14. WaitersListen'
  BY <1>2, <1>8, WaiterId DEF CoroInv, WaitersListen
<1>15. ListenersOwned'
  <2> SUFFICES ASSUME NEW i \in 1..Len(natives), spawn[natives[i].owner].by = "main"
               PROVE  \/ /\ where'[natives[i].owner] = "active"
                         /\ listener[natives[i].owner] = natives[i].id
                      \/ \E j \in 1..(n + 1) : finished'[j].id = natives[i].id
    <3>1. DOMAIN natives = 1..Len(natives)
      BY Elements DEF BusInv, ListInv, ListTypes
    <3>2. UNCHANGED <<natives, spawn, listener>> /\ DOMAIN finished' = 1..(n + 1)
      BY <1>2, <1>7
    <3> QED BY <3>1, <3>2 DEF ListenersOwned
  <2>1. natives[i].owner \in Coros /\ DOMAIN natives = 1..Len(natives)
    BY EachNative, Elements DEF BusInv, ListInv, ListTypes
  <2>2. \/ where[natives[i].owner] = "active" /\ listener[natives[i].owner] = natives[i].id
        \/ \E j \in 1..n : finished[j].id = natives[i].id
    BY <1>7, <1>10, <2>1 DEF CoroInv, ListenersOwned, MainSpawning, Spawning
  <2>3. CASE \E j \in 1..n : finished[j].id = natives[i].id
    BY <1>7, <2>3
  <2>4. CASE where[natives[i].owner] = "active" /\ listener[natives[i].owner] = natives[i].id
    <3>1. CASE natives[i].owner = c
      BY <1>4, <1>7, <2>4, <3>1
    <3>2. CASE natives[i].owner # c
      BY <1>8, <2>1, <2>4, <3>2
    <3> QED BY <3>1, <3>2
  <2> QED BY <2>2, <2>3, <2>4
<1>16. FinishedRight'
  <2>1. \A i \in 1..(n + 1) : finished'[i].id \in {0, spawn[finished'[i].coro].id}
    <3> TAKE i \in 1..(n + 1)
    <3>1. CASE i \in 1..n
      BY <1>6, <1>7, <3>1 DEF CoroInv, FinishedRight
    <3>2. CASE i = n + 1
      BY <1>4, <1>7, <3>2 DEF CoroInv, SpawnRight
    <3> QED BY <1>7, <3>1, <3>2
  <2> QED BY <1>2, <1>7, <2>1 DEF FinishedRight
<1>17. VisitsActive'
  BY <1>2, <1>8 DEF CoroInv, CoroTypes, VisitsActive, Active
<1>18. DoneRight'
  <2>1. doneCalls[c] = 0 /\ ~InFinished(c) /\ c \notin found
    BY <1>3 DEF CoroInv, DoneRight
  <2>2. \A d : InFinished(d)' <=> InFinished(d) \/ d = c
    BY <1>4, <1>6, <1>7 DEF InFinished
  <2>3. ASSUME NEW i \in 1..(n + 1), NEW j \in 1..(n + 1), finished'[i].coro = finished'[j].coro
        PROVE  i = j
    <3>1. \A k \in 1..n : finished[k].coro # c
      BY <1>6, <2>1 DEF InFinished
    <3>2. CASE i \in 1..n /\ j \in 1..n
      BY <1>6, <1>7, <2>3, <3>2 DEF CoroInv, DoneRight
    <3>3. CASE i = n + 1 \/ j = n + 1
      BY <1>4, <1>7, <2>3, <3>1, <3>3
    <3> QED BY <1>7, <3>2, <3>3
  <2>4. \A d \in Coros :
          /\ where'[d] # "gone" => doneCalls'[d] = 0 /\ ~InFinished(d)' /\ d \notin found'
          /\ d \in found' \/ InFinished(d)' => doneCalls'[d] = 0
          /\ d \in found' => ~InFinished(d)'
          /\ where'[d] = "gone" /\ d \notin found' /\ main' # "shut" /\ ~InFinished(d)' => doneCalls'[d] = 1
          /\ doneCalls'[d] \in {0, 1}
    <3> TAKE d \in Coros
    <3>1. CASE d = c
      BY <1>2, <1>8, <2>1, <2>2, <3>1
    <3>2. CASE d # c
      BY <1>2, <1>8, <2>2, <3>2 DEF CoroInv, DoneRight
    <3> QED BY <3>1, <3>2
  <2> QED BY <1>7, <2>3, <2>4 DEF DoneRight
<1>19. HandleFreedOnce'
  <2>1. frees \in [Coros -> Nat] /\ frees[c] = 0
    BY <1>3 DEF CoroInv, CoroTypes, HandleFreedOnce
  <2>2. frees'[c] = 1 /\ \A d \in Coros : d # c => frees'[d] = frees[d]
    BY <1>2, <2>1
  <2> QED BY <1>8, <2>2 DEF CoroInv, HandleFreedOnce
<1>20. NoLostWakeup'
  <2>1. \A d \in waiting' : spawn'[d].sig = spawn[d].sig /\ (fired[d] => fired'[d])
    BY <1>2 DEF CoroInv, CoroTypes
  <2> QED BY <1>2, <2>1, WakeupsKept
<1> QED BY <1>9, <1>11, <1>12, <1>13, <1>14, <1>15, <1>16, <1>17, <1>18, <1>19, <1>20 DEF CoroInv

LEMMA TickFinishStep ==
  ASSUME BusInv, CoroInv, TickFinish
  PROVE  CoroInv'
<1>1. finished \in Seq([coro : Coros, id : 0..MaxListeners]) /\ finished # <<>> /\ main = "finish"
  BY DEF TickFinish, CoroInv, CoroTypes, FinishedRight
<1>2. PICK n \in Nat : n + 1 = Len(finished)
  <2>1. Len(finished) \in Nat \ {0}
    BY <1>1, HeadTail
  <2>2. Len(finished) - 1 \in Nat /\ Len(finished) - 1 + 1 = Len(finished)
    BY <2>1
  <2> QED BY <2>2
<1>3. PICK e : e = finished[1]
  OBVIOUS
<1>4. /\ Head(finished) = e /\ e.coro \in Coros /\ where[e.coro] = "gone"
      /\ Tail(finished) \in Seq([coro : Coros, id : 0..MaxListeners])
      /\ Len(Tail(finished)) = n
      /\ \A i \in 1..n : Tail(finished)[i] = finished[i + 1] /\ i + 1 \in 1..(n + 1)
      /\ DOMAIN finished = 1..(n + 1) /\ DOMAIN Tail(finished) = 1..n
      /\ 1 \in 1..(n + 1)
  <2>1. 1 \in 1..(n + 1) /\ (n + 1) - 1 = n
    OBVIOUS
  <2>2. e.coro \in Coros /\ where[e.coro] = "gone"
    BY <1>2, <1>3, <2>1, EachFinished
  <2>3. /\ Head(finished) = e /\ Tail(finished) \in Seq([coro : Coros, id : 0..MaxListeners])
        /\ Len(Tail(finished)) = n /\ \A i \in 1..n : Tail(finished)[i] = finished[i + 1]
    BY <1>1, <1>2, <1>3, <2>1, HeadTail
  <2>4. DOMAIN finished = 1..(n + 1) /\ DOMAIN Tail(finished) = 1..n
    BY <1>1, <1>2, <2>3, Elements
  <2>5. \A i \in 1..n : i + 1 \in 1..(n + 1)
    OBVIOUS
  <2> QED BY <2>1, <2>2, <2>3, <2>4, <2>5
<1>5. PICK c \in Coros : c = e.coro
  BY <1>4
<1>6. /\ DisconnectNative({e.id}) /\ ~MainSpawning
      /\ doneCalls' = [doneCalls EXCEPT ![c] = @ + 1] /\ finished' = Tail(finished)
      /\ main' = IF finished' = <<>> THEN "idle" ELSE "finish"
      /\ UNCHANGED <<where, wake, sleep, listener, fired, frees, spawn, visit, waiting, resumed, found>>
  BY <1>4, <1>5 DEF TickFinish, coroVars, runVars
<1>7. UNCHANGED <<queue, batch, phase, cur, todo, nextListener>>
  BY <1>6 DEF DisconnectNative, flushVars, queueVars
<1>8. CoroTypes'
  <2>1. doneCalls' \in [Coros -> Nat]
    <3>1. doneCalls \in [Coros -> Nat] /\ doneCalls[c] + 1 \in Nat
      BY DEF CoroInv, CoroTypes
    <3> QED BY <1>6, <3>1
  <2>2. main' \in {"idle", "finish"} /\ finished' \in Seq([coro : Coros, id : 0..MaxListeners])
    BY <1>4, <1>6
  <2> QED BY <1>6, <2>1, <2>2 DEF CoroInv, CoroTypes
<1>9. SpawnRight' /\ SpawnsAlone' /\ VisitsActive'
  <2>1. SpawnRight'
    BY <1>6, <1>7 DEF CoroInv, SpawnRight
  <2>2. SpawnsAlone' /\ VisitsActive'
    BY <1>6 DEF SpawnsAlone, MainSpawning, VisitsActive
  <2> QED BY <2>1, <2>2
<1>10. e.id \in {0, spawn[c].id}
  BY <1>2, <1>3, <1>4, <1>5 DEF CoroInv, FinishedRight
<1>11. NativesRight' /\ WaitersListen' /\ ListenersOwned'
  <2>1. \A d \in waiting' : where'[d] = "active" /\ spawn[d].id \notin {e.id}
    <3> TAKE d \in waiting'
    <3>1. d \in waiting /\ where'[d] = where[d]
      BY <1>6
    <3>2. where[d] = "active" /\ spawn[d].id # 0 /\ (c # d => spawn[c].id # spawn[d].id)
      BY <3>1, WaiterId
    <3> QED BY <1>4, <1>5, <1>10, <3>1, <3>2
  <2>2. ASSUME NEW d \in Coros, spawn[d].id \notin {e.id}, NEW j \in DOMAIN finished,
               finished[j].id = spawn[d].id
        PROVE  \E k \in DOMAIN finished' : finished'[k].id = spawn[d].id
    <3>1. j \in 1..(n + 1) /\ j # 1
      BY <1>3, <1>4, <2>2
    <3>2. j - 1 \in 1..n /\ (j - 1) + 1 = j
      BY <3>1
    <3>3. Tail(finished)[j - 1] = finished[j]
      BY <1>4, <3>2
    <3> QED BY <1>4, <1>6, <2>2, <3>2, <3>3
  <2> QED BY <1>6, <2>1, <2>2, Disconnects
<1>12. FinishedRight'
  <2>1. \A i \in 1..n : finished'[i].id \in {0, spawn[finished'[i].coro].id}
    BY <1>2, <1>4, <1>6 DEF CoroInv, FinishedRight
  <2> QED BY <1>4, <1>6, <2>1 DEF FinishedRight
<1>13. HandleFreedOnce'
  BY <1>6 DEF CoroInv, HandleFreedOnce
<1>14. NoLostWakeup'
  BY <1>6, <1>7, WakeupsKept
<1>15. DoneRight'
  <2>1. InFinished(c) /\ c \notin found /\ doneCalls[c] = 0 /\ where[c] = "gone"
    <3>1. InFinished(c)
      BY <1>2, <1>3, <1>4, <1>5 DEF InFinished
    <3> QED BY <1>4, <1>5, <3>1 DEF CoroInv, DoneRight
  <2>2. \A i, j \in 1..(n + 1) : finished[i].coro = finished[j].coro => i = j
    BY <1>2 DEF CoroInv, DoneRight
  <2>3. \A i, j \in 1..n : finished'[i].coro = finished'[j].coro => i = j
    <3> TAKE i, j \in 1..n
    <3>1. finished[i + 1].coro = finished[j + 1].coro => i + 1 = j + 1
      BY <1>4, <2>2
    <3> QED BY <1>4, <1>6, <3>1
  <2>4. ~InFinished(c)'
    <3> SUFFICES ASSUME NEW i \in 1..n, finished'[i].coro = c PROVE FALSE
      BY <1>4, <1>6 DEF InFinished
    <3>1. finished[i + 1].coro = finished[1].coro /\ i + 1 \in 1..(n + 1) /\ i + 1 # 1
      BY <1>3, <1>4, <1>5, <1>6
    <3> QED BY <1>4, <2>2, <3>1
  <2>5. \A d : d # c => (InFinished(d)' <=> InFinished(d))
    <3> TAKE d
    <3>1. ASSUME NEW i \in 1..n, finished'[i].coro = d PROVE InFinished(d)
      BY <1>2, <1>4, <1>6, <3>1 DEF InFinished
    <3>2. ASSUME d # c, NEW j \in 1..(n + 1), finished[j].coro = d PROVE \E i \in 1..n : finished'[i].coro = d
      <4>1. j # 1
        BY <1>3, <1>5, <3>2
      <4>2. j - 1 \in 1..n /\ (j - 1) + 1 = j
        BY <4>1
      <4> QED BY <1>4, <1>6, <3>2, <4>2
    <3> QED BY <1>2, <1>4, <1>6, <3>1, <3>2 DEF InFinished
  <2>6. doneCalls'[c] = 1 /\ \A d \in Coros : d # c => doneCalls'[d] = doneCalls[d]
    BY <1>6, <2>1 DEF CoroInv, CoroTypes
  <2>7. \A d \in Coros :
          /\ where'[d] # "gone" => doneCalls'[d] = 0 /\ ~InFinished(d)' /\ d \notin found'
          /\ d \in found' \/ InFinished(d)' => doneCalls'[d] = 0
          /\ d \in found' => ~InFinished(d)'
          /\ where'[d] = "gone" /\ d \notin found' /\ main' # "shut" /\ ~InFinished(d)' => doneCalls'[d] = 1
          /\ doneCalls'[d] \in {0, 1}
    <3> TAKE d \in Coros
    <3>1. CASE d = c
      BY <1>6, <2>1, <2>4, <2>6, <3>1
    <3>2. CASE d # c
      BY <1>1, <1>6, <2>5, <2>6, <3>2 DEF CoroInv, DoneRight
    <3> QED BY <3>1, <3>2
  <2>8. Len(finished') = n
    BY <1>4, <1>6
  <2> QED BY <2>3, <2>7, <2>8 DEF DoneRight
<1> QED BY <1>8, <1>9, <1>11, <1>12, <1>13, <1>14, <1>15 DEF CoroInv

LEMMA ShutdownStep ==
  ASSUME BusInv, CoroInv, Shutdown
  PROVE  CoroInv'
<1>1. PICK gone : gone = {listener[c] : c \in Active}
  OBVIOUS
<1>2. /\ main = "idle" /\ main' = "shut" /\ DisconnectNative(gone)
      /\ \A c \in Coros : spawn[c].step \notin Spawning
      /\ frees' = [c \in Coros |-> IF c \in Active THEN frees[c] + 1 ELSE frees[c]]
      /\ where' = [c \in Coros |-> IF c \in Active THEN "gone" ELSE where[c]]
      /\ waiting' = {}
      /\ UNCHANGED <<wake, sleep, listener, fired, spawn, visit, finished, resumed, found, doneCalls>>
  BY <1>1 DEF Shutdown, ListenerOf
<1>3. UNCHANGED <<queue, batch, phase, cur, todo, nextListener>>
  BY <1>2 DEF DisconnectNative, flushVars, queueVars
<1>4. \A c \in Coros : /\ where'[c] = IF where[c] = "active" THEN "gone" ELSE where[c]
                       /\ frees'[c] = IF where[c] = "active" THEN frees[c] + 1 ELSE frees[c]
  BY <1>2 DEF Active
<1>5. CoroTypes'
  <2>1. where' \in [Coros -> {"none", "pending", "active", "gone"}] /\ frees' \in [Coros -> Nat]
    BY <1>2 DEF CoroInv, CoroTypes
  <2> QED BY <1>2, <2>1 DEF CoroInv, CoroTypes
<1>6. SpawnRight' /\ SpawnsAlone'
  <2>1. SpawnRight'
    BY <1>2, <1>3, <1>4 DEF CoroInv, SpawnRight
  <2>2. SpawnsAlone'
    BY <1>2 DEF SpawnsAlone
  <2> QED BY <2>1, <2>2
<1>7. NativesRight' /\ WaitersListen' /\ ListenersOwned'
  <2>1. \A d \in Coros : where[d] = "active" /\ listener[d] = spawn[d].id => spawn[d].id \in gone
    BY <1>1 DEF Active
  <2>2. \A d \in Coros : spawn[d].by = "main" /\ spawn[d].id \notin gone =>
          /\ where[d] = "active" /\ listener[d] = spawn[d].id =>
                where'[d] = "active" /\ listener'[d] = spawn[d].id
          /\ (\E j \in DOMAIN finished : finished[j].id = spawn[d].id) =>
                \E j \in DOMAIN finished' : finished'[j].id = spawn[d].id
    BY <1>2, <2>1
  <2> QED BY <1>2, <2>2, Disconnects
<1>8. FinishedRight' /\ VisitsActive'
  BY <1>2 DEF CoroInv, FinishedRight, VisitsActive
<1>9. DoneRight' /\ HandleFreedOnce'
  <2>1. DoneRight'
    BY <1>2, <1>4 DEF CoroInv, DoneRight, InFinished
  <2>2. HandleFreedOnce'
    <3> SUFFICES ASSUME NEW c \in Coros PROVE frees'[c] = IF where'[c] = "gone" THEN 1 ELSE 0
      BY DEF HandleFreedOnce
    <3>1. frees[c] = IF where[c] = "gone" THEN 1 ELSE 0
      BY DEF CoroInv, HandleFreedOnce
    <3> QED BY <1>4, <3>1
  <2> QED BY <2>1, <2>2
<1>10. NoLostWakeup'
  BY <1>2 DEF NoLostWakeup
<1> QED BY <1>5, <1>6, <1>7, <1>8, <1>9, <1>10 DEF CoroInv

LEMMA StutterStep ==
  ASSUME CoroInv, UNCHANGED vars
  PROVE  CoroInv'
<1>1. /\ UNCHANGED <<where, wake, sleep, listener, fired, frees, spawn, main, visit, finished,
                     waiting, resumed, found, doneCalls>>
      /\ UNCHANGED <<queue, batch, phase, cur, todo, natives, nextListener>>
  BY DEF vars, busVars, coroVars, tickVars, historyVars, runVars
<1>2. CoroTypes'
  BY <1>1 DEF CoroInv, CoroTypes
<1>3. SpawnRight' /\ SpawnsAlone' /\ NativesRight' /\ FinishedRight'
  BY <1>1 DEF CoroInv, SpawnRight, SpawnsAlone, NativesRight, FinishedRight
<1>4. VisitsActive' /\ DoneRight' /\ WaitersListen'
  BY <1>1 DEF CoroInv, VisitsActive, Active, DoneRight, InFinished, WaitersListen
<1>5. HandleFreedOnce' /\ ListenersOwned' /\ NoLostWakeup'
  BY <1>1 DEF CoroInv, HandleFreedOnce, ListenersOwned, NoLostWakeup
<1> QED BY <1>2, <1>3, <1>4, <1>5 DEF CoroInv

LEMMA NextCoroInv == BusInv /\ CoroInv /\ [Next]_vars => CoroInv'
<1> SUFFICES ASSUME BusInv, CoroInv, [Next]_vars PROVE CoroInv'
  OBVIOUS
<1>1. ASSUME Script PROVE CoroInv'
  BY <1>1, EmitSignalStep, SpawnPendingStep, SpawnInsertStep, CancelStep DEF Script
<1>2. ASSUME SpawnRest PROVE CoroInv'
  BY <1>2, SpawnConnectStep, SpawnWriteBackStep DEF SpawnRest
<1>3. ASSUME Frame PROVE CoroInv'
  <2>1. ASSUME \E c \in Coros : TickSkip(c) \/ ResumeSuspends(c) \/ ResumeEnds(c) PROVE CoroInv'
    BY <2>1, TickStep, ResumeEndsStep
  <2> QED BY <1>3, <2>1, FrameFlushStep, FrameDispatchStep, FrameWakeListenerStep,
             TickLockPendingStep, TickStep, TickAdoptStep, TickFinishStep DEF Frame
<1>4. ASSUME SelfLock PROVE CoroInv'
  BY <1>4, TickStep DEF SelfLock
<1> QED BY <1>1, <1>2, <1>3, <1>4, ShutdownStep, StutterStep DEF Next

LEMMA InductiveCoro == Spec => [](BusInv /\ CoroInv)
<1>1. Init => BusInv /\ CoroInv
  BY InitIInv, InitListInv, InitCoro DEF Init, BusInv
<1>2. BusInv /\ CoroInv /\ [Next]_vars => (BusInv /\ CoroInv)'
  BY BusUsed, NextIInv, NextListInv, NextCoroInv DEF BusInv
<1> QED BY <1>1, <1>2, PTL DEF Spec

-----------------------------------------------------------------------------
(* The coroutines: the theorems *)

\* PLCoroutineScheduler: a coroutine's handle is freed once, when it leaves the
\* scheduler, whether its body ends, cancel() finds it or shutdown() clears it; and
\* on_done is called once if the body ended, never if it was cancelled.
THEOREM EndsOnce == Spec => []EndedOnce
<1>1. BusInv /\ CoroInv => TypeOK
  BY TypesFollow DEF BusInv, CoroInv, CoroTypes, TypeOK
<1>2. BusInv /\ CoroInv => HandleFreedOnce
  BY DEF CoroInv
<1>3. BusInv /\ CoroInv => OnDoneOnce
  <2> SUFFICES ASSUME CoroInv, NEW c \in Coros
               PROVE  LET calls == doneCalls[c]
                                   + Cardinality({ i \in DOMAIN finished : finished[i].coro = c })
                      IN  /\ calls <= 1
                          /\ c \in found => calls = 0
                          /\ where[c] = "gone" /\ c \notin found /\ main # "shut" => calls = 1
    BY DEF OnDoneOnce
  <2> DEFINE Mine == { i \in DOMAIN finished : finished[i].coro = c }
  <2>1. DOMAIN finished = 1..Len(finished)
    BY EachFinished
  <2>2. CASE InFinished(c)
    <3>1. PICK k \in 1..Len(finished) : finished[k].coro = c
      BY <2>2 DEF InFinished
    <3>2. Mine = {k}
      BY <2>1, <3>1 DEF CoroInv, DoneRight
    <3>3. Cardinality(Mine) = 1
      BY <3>2, FS_Singleton
    <3>4. doneCalls[c] = 0 /\ c \notin found
      BY <2>2 DEF CoroInv, DoneRight
    <3> QED BY <3>3, <3>4
  <2>3. CASE ~InFinished(c)
    <3>1. Mine = {}
      BY <2>1, <2>3 DEF InFinished
    <3>2. Cardinality(Mine) = 0
      BY <3>1, FS_EmptySet
    <3>3. /\ doneCalls[c] \in {0, 1} /\ (c \in found => doneCalls[c] = 0)
          /\ where[c] = "gone" /\ c \notin found /\ main # "shut" => doneCalls[c] = 1
      BY <2>3 DEF CoroInv, DoneRight
    <3> QED BY <3>2, <3>3
  <2> QED BY <2>2, <2>3
<1> QED BY <1>1, <1>2, <1>3, InductiveCoro, PTL DEF EndedOnce

\* PLCoroutineScheduler with PLSignalBus: a coroutine that listened when an emission was
\* accepted, and has not been resumed since, is marked, or the emission is on its way.
THEOREM WakesUp == Spec => []NoLostWakeup
<1>1. CoroInv => NoLostWakeup
  BY DEF CoroInv
<1> QED BY <1>1, InductiveCoro, PTL

\* PLCoroutineScheduler: a listener of a coroutine spawned on the main thread always has
\* somebody who will disconnect it.
THEOREM NoStrayListener == Spec => []ListenersOwned
<1>1. CoroInv => ListenersOwned
  BY DEF CoroInv
<1> QED BY <1>1, InductiveCoro, PTL
=============================================================================
