------------------------------ MODULE ModLoaderProofs ------------------------------
(***************************************************************************)
(* Proofs about ModLoader: for any configurations and any dependency       *)
(* graph, on_loaded is called for a mod once and after what it depends on, *)
(* and all mods are loaded, or none because the graph cannot be sorted.    *)
(***************************************************************************)
EXTENDS ModLoader, TLAPS

-----------------------------------------------------------------------------
(* Sequences *)

\* What a prefix of a sequence is.
LEMMA Prefix ==
  ASSUME NEW S, NEW s \in Seq(S), NEW n \in 0..Len(s)
  PROVE  /\ SubSeq(s, 1, n) \in Seq(S) /\ Len(SubSeq(s, 1, n)) = n
         /\ \A i \in 1..n : SubSeq(s, 1, n)[i] = s[i]
OBVIOUS

\* What Front() and Last() of a sequence are.
LEMMA FrontLast ==
  ASSUME NEW S, NEW s \in Seq(S), s # <<>>
  PROVE  /\ Len(s) \in Nat \ {0}
         /\ Front(s) \in Seq(S) /\ Len(Front(s)) = Len(s) - 1
         /\ \A i \in 1..Len(s) - 1 : Front(s)[i] = s[i]
         /\ Last(s) = s[Len(s)] /\ Last(s) \in S
<1>1. Len(s) \in Nat \ {0} /\ Len(s) - 1 \in 0..Len(s)
  OBVIOUS
<1>2. Last(s) = s[Len(s)] /\ Last(s) \in S
  BY <1>1 DEF Last
<1>3. /\ Front(s) \in Seq(S) /\ Len(Front(s)) = Len(s) - 1
      /\ \A i \in 1..Len(s) - 1 : Front(s)[i] = s[i]
  BY <1>1, Prefix, Zenon DEF Front
<1> QED BY <1>1, <1>2, <1>3

\* What Append() makes.
LEMMA Appended ==
  ASSUME NEW S, NEW s \in Seq(S), NEW e \in S
  PROVE  /\ Append(s, e) \in Seq(S) /\ Len(Append(s, e)) = Len(s) + 1
         /\ \A i \in 1..Len(s) : Append(s, e)[i] = s[i]
         /\ Append(s, e)[Len(s) + 1] = e
OBVIOUS

\* What Head() and Tail() leave.
LEMMA HeadTail ==
  ASSUME NEW S, NEW s \in Seq(S), s # <<>>
  PROVE  /\ Len(s) \in Nat \ {0}
         /\ Tail(s) \in Seq(S) /\ Len(Tail(s)) = Len(s) - 1
         /\ \A i \in 1..Len(s) - 1 : Tail(s)[i] = s[i + 1]
         /\ Head(s) = s[1] /\ Head(s) \in S
OBVIOUS

-----------------------------------------------------------------------------
(* The inductive invariant *)

\* Nothing is sorted or loaded before it is time.
NotYet ==
    /\ phase = "scan" =>
           /\ visits = <<>> /\ order = <<>> /\ ~cycle
           /\ state = [n \in Nodes |-> 0]
    /\ phase \in {"scan", "sort"} => loaded = <<>>
    /\ phase = "aborted" => loaded = <<>> /\ order = <<>>

\* The nodes entered and not left are those of the visits v, one visit each.
OnStack(v) ==
    /\ \A k \in 1..Len(v) : state[v[k].node] = 1
    /\ \A k, l \in 1..Len(v) : v[k].node = v[l].node => k = l
    /\ \A n \in Nodes : state[n] = 1 => \E k \in 1..Len(v) : v[k].node = n

\* A dependency that a visit has looked at has been left, or is being visited next, or,
\* for the last visit, is one of E.
Looked(v, E) ==
    \A k \in 1..Len(v) : \A d \in DepsOf(v[k].node) \ v[k].rest :
        /\ d \in Nodes
        /\ \/ state[d] = 2
           \/ k < Len(v) /\ v[k + 1].node = d
           \/ k = Len(v) /\ d \in E

\* The nodes left are those in the order.
LeftInOrder ==
    /\ \A i \in 1..Len(order) : state[order[i]] = 2
    /\ \A n \in Nodes : state[n] = 2 => \E i \in 1..Len(order) : order[i] = n

Search ==
    phase = "sort" /\ ~cycle => OnStack(visits) /\ Looked(visits, {}) /\ LeftInOrder

\* What is still in the order comes after what it depends on, there or among the loaded.
OrderGood ==
    /\ \A i \in 1..Len(order) : \A d \in DepsOf(order[i]) \cap Known :
           \/ \E j \in 1..i - 1 : order[j] = d
           \/ \E j \in 1..Len(loaded) : loaded[j] = d
    /\ \A i, j \in 1..Len(order) : order[i] = order[j] => i = j
    /\ \A i \in 1..Len(order), j \in 1..Len(loaded) : order[i] # loaded[j]

\* Every mod is still to be visited, has been entered, or, later, is in the order or loaded.
Accounted ==
    /\ phase = "sort" /\ ~cycle => \A m \in Known \ roots : state[m] # 0
    /\ phase \in {"load", "done"} => \A m \in Known :
           \/ \E i \in 1..Len(order) : order[i] = m
           \/ \E i \in 1..Len(loaded) : loaded[i] = m
    /\ \A i \in 1..Len(loaded) : loaded[i] \in Known
    /\ phase = "done" => order = <<>>

IInv == TypeOK /\ NotYet /\ Search /\ OrderGood /\ DependenciesFirst /\ Accounted

USE LoaderAssumption DEF LoaderAssumption

LEMMA InitIInv == Init => IInv
<1> SUFFICES ASSUME Init PROVE IInv
  OBVIOUS
<1> USE DEF Init
<1>1. TypeOK
  <2>1. state \in [Nodes -> 0..2] /\ deps \in [Mods -> SUBSET DepNames]
    OBVIOUS
  <2>2. \A m \in Mods : configs[m] = NoFile
    OBVIOUS
  <2>3. visits \in Seq(Visit) /\ order \in Seq(Nodes) /\ loaded \in Seq(Mods)
    OBVIOUS
  <2> QED BY <2>1, <2>2, <2>3 DEF TypeOK
<1>2. NotYet /\ Search /\ OrderGood /\ DependenciesFirst
  BY DEF NotYet, Search, OrderGood, DependenciesFirst
<1>3. Accounted
  BY DEF Accounted
<1> QED BY <1>1, <1>2, <1>3 DEF IInv

\* While nothing is in the order or loaded, what is said about them holds.
LEMMA NothingYet ==
  ASSUME order' = <<>>, loaded' = <<>>
  PROVE  OrderGood' /\ DependenciesFirst' /\ \A i \in 1..Len(loaded') : loaded'[i] \in Known'
BY DEF OrderGood, DependenciesFirst

LEMMA ScanStep ==
  ASSUME IInv, NEW f \in Files,
         Skip(f) \/ \E boxes \in BOOLEAN : Accept(f, boxes)
  PROVE  IInv'
<1>1. order' = <<>> /\ loaded' = <<>> /\ phase' = "scan" /\ phase = "scan"
  BY DEF IInv, NotYet, Skip, Accept, sortVars
<1>2. TypeOK'
  <2>1. CASE Skip(f)
    BY <2>1 DEF IInv, TypeOK, Skip, sortVars
  <2>2. ASSUME NEW boxes \in BOOLEAN, Accept(f, boxes) PROVE TypeOK'
    BY <2>2 DEF IInv, TypeOK, Accept, sortVars
  <2> QED BY <2>1, <2>2
<1>3. NotYet'
  BY <1>1 DEF IInv, NotYet, Skip, Accept, sortVars
<1>4. Search' /\ Accounted'
  BY <1>1, NothingYet DEF Search, Accounted
<1> QED BY <1>1, <1>2, <1>3, <1>4, NothingYet DEF IInv

LEMMA SortBeginsStep ==
  ASSUME IInv, SortBegins
  PROVE  IInv'
<1>1. /\ order' = <<>> /\ loaded' = <<>> /\ phase' = "sort" /\ visits' = <<>>
      /\ state' = [n \in Nodes |-> 0] /\ ~cycle' /\ roots' = Known /\ configs' = configs
  BY DEF IInv, NotYet, SortBegins
<1>2. TypeOK'
  BY DEF IInv, TypeOK, SortBegins, Known
<1>3. NotYet'
  BY <1>1 DEF NotYet
<1>4. Search'
  BY <1>1 DEF Search, OnStack, Looked, LeftInOrder
<1>5. Accounted'
  BY <1>1, NothingYet DEF Accounted, Known
<1> QED BY <1>1, <1>2, <1>3, <1>4, <1>5, NothingYet DEF IInv

-----------------------------------------------------------------------------
(* The search *)

\* visit(n), with the visits `below' under way that have looked at n.
LEMMA Visiting ==
  ASSUME TypeOK, LeftInOrder, NEW n \in Nodes, NEW below \in Seq(Visit),
         OnStack(below), Looked(below, {n}), Visits(n, below), ~cycle,
         deps' = deps, order' = order
  PROVE  /\ visits' \in Seq(Visit) /\ state' \in [Nodes -> 0..2] /\ cycle' \in BOOLEAN
         /\ ~cycle' => OnStack(visits)' /\ Looked(visits, {})' /\ LeftInOrder' /\ state'[n] # 0
         /\ \A m \in Nodes : state[m] # 0 => state'[m] # 0
<1>1. CASE Left(n) /\ visits' = below /\ UNCHANGED <<state, cycle>>
  <2>1. OnStack(visits)' /\ LeftInOrder'
    BY <1>1 DEF OnStack, LeftInOrder
  <2>2. Looked(visits, {})'
    BY <1>1 DEF Left, Looked, DepsOf
  <2>3. state[n] = 2
    BY <1>1 DEF Left
  <2> QED BY <1>1, <2>1, <2>2, <2>3 DEF TypeOK
<1>2. CASE cycle' = TRUE /\ visits' = below /\ UNCHANGED state
  BY <1>2 DEF TypeOK
<1>3. CASE /\ state[n] = 0 /\ state' = [state EXCEPT ![n] = 1]
           /\ visits' = Append(below, [node |-> n, rest |-> DepsOf(n)])
           /\ UNCHANGED cycle
  <2> DEFINE e == [node |-> n, rest |-> DepsOf(n)]
  <2>1. e \in Visit /\ e.node = n /\ e.rest = DepsOf(n)
    BY DEF TypeOK, Visit, DepsOf, DepNames
  <2>2. \A k \in 1..Len(below) : below[k] \in Visit /\ below[k].node \in Nodes
    <3>1. \A k \in 1..Len(below) : below[k] \in Visit
      OBVIOUS
    <3>2. \A v \in Visit : v.node \in Nodes
      BY DEF Visit
    <3> QED BY <3>1, <3>2
  <2> HIDE DEF e
  <2>3. /\ visits' \in Seq(Visit) /\ Len(visits') = Len(below) + 1
        /\ \A k \in 1..Len(below) : visits'[k] = below[k]
        /\ visits'[Len(below) + 1] = e
    BY <1>3, <2>1, Appended DEF e
  <2>4. Len(below) \in Nat
    OBVIOUS
  <2>5. /\ state' \in [Nodes -> 0..2] /\ state'[n] = 1
        /\ \A m \in Nodes : m # n => state'[m] = state[m]
    BY <1>3 DEF TypeOK
  <2>6. \A k \in 1..Len(below) : below[k].node # n
    BY <1>3 DEF OnStack
  <2>7. OnStack(visits)'
    <3>1. \A k \in 1..Len(visits') : state'[visits'[k].node] = 1
      BY <2>1, <2>2, <2>3, <2>4, <2>5, <2>6 DEF OnStack
    <3>2. \A k, l \in 1..Len(visits') : visits'[k].node = visits'[l].node => k = l
      BY <2>1, <2>3, <2>4, <2>6 DEF OnStack
    <3>3. ASSUME NEW m \in Nodes, state'[m] = 1
          PROVE  \E k \in 1..Len(visits') : visits'[k].node = m
      <4>1. CASE m = n
        BY <4>1, <2>1, <2>3, <2>4
      <4>2. CASE m # n
        <5>1. PICK k \in 1..Len(below) : below[k].node = m
          BY <4>2, <3>3, <2>5 DEF OnStack
        <5> QED BY <5>1, <2>3, <2>4
      <4> QED BY <4>1, <4>2
    <3> QED BY <3>1, <3>2, <3>3 DEF OnStack
  <2>8. Looked(visits, {})'
    <3> SUFFICES ASSUME NEW k \in 1..Len(visits'),
                        NEW d \in DepsOf(visits'[k].node) \ visits'[k].rest
                 PROVE  /\ d \in Nodes
                        /\ state'[d] = 2 \/ (k < Len(visits') /\ visits'[k + 1].node = d)
      BY DEF Looked, DepsOf
    <3>1. k \in 1..Len(below)
      BY <2>1, <2>3, <2>4
    <3>2. /\ d \in Nodes
          /\ \/ state[d] = 2
             \/ k < Len(below) /\ below[k + 1].node = d
             \/ k = Len(below) /\ d = n
      BY <3>1, <2>3 DEF Looked
    <3>3. state[d] = 2 => state'[d] = 2
      BY <3>2, <2>5, <1>3
    <3>4. k < Len(below) => visits'[k + 1] = below[k + 1]
      BY <3>1, <2>3, <2>4
    <3> QED BY <3>1, <3>2, <3>3, <3>4, <2>1, <2>3, <2>4
  <2>9. LeftInOrder'
    <3>1. \A i \in 1..Len(order) : order[i] \in Nodes /\ order[i] # n
      BY <1>3 DEF LeftInOrder, TypeOK
    <3> QED BY <3>1, <2>5, <1>3 DEF LeftInOrder
  <2> QED BY <1>3, <2>3, <2>5, <2>7, <2>8, <2>9 DEF TypeOK
<1> QED BY <1>1, <1>2, <1>3 DEF Visits

\* A step of the search that leaves the order alone keeps what is said of it.
LEMMA OrderKept ==
  ASSUME IInv, phase' = "sort", phase = "sort", order' = order, loaded' = loaded,
         deps' = deps, configs' = configs
  PROVE  NotYet' /\ OrderGood' /\ DependenciesFirst' /\ Known' = Known
         /\ loaded' = <<>>
BY DEF IInv, NotYet, OrderGood, DependenciesFirst, DepsOf, Known

LEMMA VisitRootStep ==
  ASSUME IInv, NEW n \in Mods, VisitRoot(n)
  PROVE  IInv'
<1> USE DEF VisitRoot, Sorting
<1>1. n \in Nodes /\ visits \in Seq(Visit) /\ ~cycle
  BY DEF Nodes, IInv, TypeOK
<1>2. LeftInOrder /\ OnStack(visits) /\ Looked(visits, {n})
  BY DEF IInv, Search, Looked
<1>3. /\ visits' \in Seq(Visit) /\ state' \in [Nodes -> 0..2] /\ cycle' \in BOOLEAN
      /\ ~cycle' => OnStack(visits)' /\ Looked(visits, {})' /\ LeftInOrder' /\ state'[n] # 0
      /\ \A m \in Nodes : state[m] # 0 => state'[m] # 0
  BY <1>1, <1>2, Visiting DEF IInv
<1>4. TypeOK'
  BY <1>3 DEF IInv, TypeOK
<1>5. NotYet' /\ OrderGood' /\ DependenciesFirst' /\ Known' = Known /\ loaded' = <<>>
  BY OrderKept
<1>6. Search'
  BY <1>3 DEF Search
<1>7. Accounted'
  <2>1. \A m \in Known \ roots : state[m] # 0 /\ m \in Nodes
    BY <1>1 DEF IInv, Accounted, Known, Nodes
  <2>2. ~cycle' => \A m \in Known' \ roots' : state'[m] # 0
    BY <2>1, <1>3, <1>5
  <2> QED BY <2>2, <1>5 DEF Accounted
<1> QED BY <1>4, <1>5, <1>6, <1>7 DEF IInv

LEMMA VisitDepStep ==
  ASSUME IInv, NEW d \in DepNames, VisitDep(d)
  PROVE  IInv'
<1> USE DEF VisitDep, Sorting
<1>1. visits \in Seq(Visit) /\ visits # <<>> /\ ~cycle
  BY DEF IInv, TypeOK
<1>2. NotYet' /\ OrderGood' /\ DependenciesFirst' /\ Known' = Known /\ loaded' = <<>>
  BY OrderKept
<1>3. CASE d \in Bad
  <2>1. cycle' = TRUE /\ UNCHANGED <<state, visits>>
    BY <1>3
  <2>2. TypeOK'
    BY <2>1 DEF IInv, TypeOK
  <2>3. Search' /\ Accounted'
    BY <2>1, <1>2 DEF Search, Accounted
  <2> QED BY <1>2, <2>2, <2>3 DEF IInv
<1>4. CASE d \notin Bad
  <2> DEFINE t == visits[Len(visits)]
             e == [t EXCEPT !.rest = @ \ {d}]
             below == Past(d)
  <2>1. d \in Nodes /\ Visits(d, below)
    BY <1>4 DEF DepNames
  <2>2. t \in Visit /\ top = t /\ Len(visits) \in Nat \ {0}
    <3>1. Last(visits) = t /\ Last(visits) \in Visit /\ Len(visits) \in Nat \ {0}
      BY <1>1, FrontLast
    <3> QED BY <3>1 DEF top
  <2>3. e \in Visit /\ e.node = t.node /\ e.rest = t.rest \ {d}
    BY <2>2 DEF Visit
  <2>4. below = Append(Front(visits), e)
    BY <2>2 DEF Past
  <2> HIDE DEF e, below
  <2>5. /\ below \in Seq(Visit) /\ Len(below) = Len(visits)
        /\ \A k \in 1..Len(visits) - 1 : below[k] = visits[k]
        /\ below[Len(visits)] = e
    <3>1. /\ Front(visits) \in Seq(Visit) /\ Len(Front(visits)) = Len(visits) - 1
          /\ \A i \in 1..Len(visits) - 1 : Front(visits)[i] = visits[i]
      BY <1>1, FrontLast
    <3> QED BY <2>2, <2>3, <2>4, <3>1, Appended
  <2>6. \A k \in 1..Len(visits) :
            below[k].node = visits[k].node /\ (k < Len(visits) => below[k].rest = visits[k].rest)
    BY <2>2, <2>3, <2>5
  <2>7. OnStack(below)
    BY <2>5, <2>6 DEF IInv, Search, OnStack
  <2>8. Looked(below, {d})
    <3> SUFFICES ASSUME NEW k \in 1..Len(below),
                        NEW c \in DepsOf(below[k].node) \ below[k].rest
                 PROVE  /\ c \in Nodes
                        /\ \/ state[c] = 2
                           \/ k < Len(below) /\ below[k + 1].node = c
                           \/ k = Len(below) /\ c = d
      BY DEF Looked
    <3>1. Looked(visits, {})
      BY DEF IInv, Search
    <3>2. CASE k < Len(visits)
      <4>1. c \in DepsOf(visits[k].node) \ visits[k].rest
        BY <3>2, <2>5, <2>6
      <4>2. c \in Nodes /\ (state[c] = 2 \/ visits[k + 1].node = c)
        BY <3>1, <3>2, <4>1, <2>5 DEF Looked
      <4>3. below[k + 1].node = visits[k + 1].node
        BY <3>2, <2>2, <2>5, <2>6
      <4> QED BY <3>2, <4>2, <4>3, <2>5
    <3>3. CASE k = Len(visits)
      <4>1. c \in DepsOf(t.node) /\ c \notin t.rest \ {d}
        BY <3>3, <2>3, <2>5
      <4>2. CASE c = d
        BY <4>2, <3>3, <2>1, <2>5
      <4>3. CASE c # d
        BY <4>1, <4>3, <3>1, <3>3, <2>2 DEF Looked
      <4> QED BY <4>2, <4>3
    <3> QED BY <3>2, <3>3, <2>2, <2>5
  <2>9. LeftInOrder
    BY DEF IInv, Search
  <2>10. /\ visits' \in Seq(Visit) /\ state' \in [Nodes -> 0..2] /\ cycle' \in BOOLEAN
         /\ ~cycle' => OnStack(visits)' /\ Looked(visits, {})' /\ LeftInOrder' /\ state'[d] # 0
         /\ \A m \in Nodes : state[m] # 0 => state'[m] # 0
    BY <1>1, <2>1, <2>5, <2>7, <2>8, <2>9, Visiting DEF IInv
  <2>11. TypeOK'
    BY <2>10 DEF IInv, TypeOK
  <2>12. Search'
    BY <2>10 DEF Search
  <2>13. Accounted'
    <3>1. ~cycle' => \A m \in Known' \ roots' : state'[m] # 0
      BY <1>1, <1>2, <2>10 DEF IInv, Accounted, Known, Nodes
    <3> QED BY <3>1, <1>2 DEF Accounted
  <2> QED BY <1>2, <2>11, <2>12, <2>13 DEF IInv
<1> QED BY <1>3, <1>4

LEMMA LeaveStep ==
  ASSUME IInv, Leave
  PROVE  IInv'
<1> USE DEF Leave, Sorting
<1> DEFINE n == visits[Len(visits)].node
           L == Len(visits)
<1>1. /\ visits \in Seq(Visit) /\ visits # <<>> /\ ~cycle /\ order \in Seq(Nodes)
      /\ state \in [Nodes -> 0..2]
  BY DEF IInv, TypeOK, AllVisited
<1>2. /\ L \in Nat \ {0} /\ top = visits[L] /\ visits[L] \in Visit /\ n \in Nodes
      /\ visits[L].rest = {}
  <2>1. Last(visits) = visits[L] /\ Last(visits) \in Visit /\ L \in Nat \ {0}
    BY <1>1, FrontLast
  <2>2. \A v \in Visit : v.node \in Nodes
    BY DEF Visit
  <2> QED BY <2>1, <2>2 DEF top, AllVisited
<1> HIDE DEF n
<1>3. /\ visits' \in Seq(Visit) /\ Len(visits') = L - 1
      /\ \A k \in 1..L - 1 : visits'[k] = visits[k]
  BY <1>1, FrontLast
<1>4. /\ order' \in Seq(Nodes) /\ Len(order') = Len(order) + 1 /\ Len(order) \in Nat
      /\ \A i \in 1..Len(order) : order'[i] = order[i] /\ order[i] \in Nodes
      /\ order'[Len(order) + 1] = n
  BY <1>1, <1>2, Appended DEF n
<1>5. /\ state' \in [Nodes -> 0..2] /\ state'[n] = 2
      /\ \A m \in Nodes : m # n => state'[m] = state[m]
  BY <1>1, <1>2 DEF n
<1>6. OnStack(visits) /\ Looked(visits, {}) /\ LeftInOrder /\ state[n] = 1
  BY <1>2 DEF IInv, Search, OnStack, n
<1>7. /\ phase = "sort" /\ phase' = "sort" /\ ~cycle' /\ loaded = <<>> /\ loaded' = <<>>
      /\ deps' = deps /\ Known' = Known /\ roots' = roots
  BY <1>1 DEF IInv, NotYet, Known
<1>8. \A k \in 1..L : visits[k].node \in Nodes /\ (visits[k].node = n => k = L)
  <2>1. \A k \in 1..L : visits[k] \in Visit
    BY <1>1
  <2>2. \A v \in Visit : v.node \in Nodes
    BY DEF Visit
  <2> QED BY <1>2, <1>6, <2>1, <2>2 DEF OnStack, n
<1>9. TypeOK'
  BY <1>3, <1>4, <1>5 DEF IInv, TypeOK
<1>10. NotYet'
  BY <1>7 DEF NotYet
<1>11. OnStack(visits)'
  <2>1. \A k \in 1..Len(visits') : state'[visits'[k].node] = 1
    BY <1>2, <1>3, <1>5, <1>6, <1>8 DEF OnStack
  <2>2. \A k, l \in 1..Len(visits') : visits'[k].node = visits'[l].node => k = l
    BY <1>2, <1>3, <1>6 DEF OnStack
  <2>3. ASSUME NEW m \in Nodes, state'[m] = 1
        PROVE  \E k \in 1..Len(visits') : visits'[k].node = m
    <3>1. m # n /\ state[m] = 1
      BY <2>3, <1>5
    <3>2. PICK k \in 1..L : visits[k].node = m
      BY <3>1, <1>6 DEF OnStack
    <3>3. k # L
      BY <3>1, <3>2 DEF n
    <3> QED BY <3>2, <3>3, <1>2, <1>3
  <2> QED BY <2>1, <2>2, <2>3 DEF OnStack
<1>12. Looked(visits, {})'
  <2> SUFFICES ASSUME NEW k \in 1..Len(visits'),
                      NEW d \in DepsOf(visits'[k].node) \ visits'[k].rest
               PROVE  /\ d \in Nodes
                      /\ state'[d] = 2 \/ (k < Len(visits') /\ visits'[k + 1].node = d)
    BY <1>7 DEF Looked, DepsOf
  <2>1. k \in 1..L /\ k < L /\ visits'[k] = visits[k]
    BY <1>2, <1>3
  <2>2. d \in Nodes /\ (state[d] = 2 \/ visits[k + 1].node = d)
    BY <2>1, <1>6 DEF Looked
  <2>3. state[d] = 2 => state'[d] = 2
    BY <2>2, <1>5, <1>6
  <2>4. CASE k = L - 1
    <3>1. visits[k + 1].node = n
      BY <2>4, <1>2 DEF n
    <3> QED BY <2>2, <2>3, <3>1, <1>5
  <2>5. CASE k # L - 1
    <3>1. k < L - 1 /\ k + 1 \in 1..L - 1
      BY <2>1, <2>5, <1>2
    <3>2. visits'[k + 1] = visits[k + 1] /\ k < Len(visits')
      BY <3>1, <1>3
    <3> QED BY <2>2, <2>3, <3>2
  <2> QED BY <2>4, <2>5
<1>13. LeftInOrder'
  <2>1. \A i \in 1..Len(order') : state'[order'[i]] = 2
    BY <1>4, <1>5, <1>6 DEF LeftInOrder
  <2>2. ASSUME NEW m \in Nodes, state'[m] = 2
        PROVE  \E i \in 1..Len(order') : order'[i] = m
    <3>1. CASE m = n
      BY <3>1, <1>4
    <3>2. CASE m # n
      <4>1. PICK i \in 1..Len(order) : order[i] = m
        BY <3>2, <2>2, <1>5, <1>6 DEF LeftInOrder
      <4> QED BY <4>1, <1>4
    <3> QED BY <3>1, <3>2
  <2> QED BY <2>1, <2>2 DEF LeftInOrder
<1>14. OrderGood'
  <2>1. ASSUME NEW i \in 1..Len(order'), NEW d \in DepsOf(order'[i]) \cap Known
        PROVE  \E j \in 1..i - 1 : order'[j] = d
    <3>1. CASE i \in 1..Len(order)
      <4>1. PICK j \in 1..i - 1 : order[j] = d
        BY <2>1, <3>1, <1>4, <1>7 DEF IInv, OrderGood
      <4> QED BY <4>1, <3>1, <1>4
    <3>2. CASE i = Len(order) + 1
      <4>1. d \in DepsOf(n)
        BY <3>2, <2>1, <1>4
      <4>2. state[d] = 2 /\ d \in Nodes
        BY <4>1, <1>2, <1>6 DEF Looked, n
      <4>3. PICK j \in 1..Len(order) : order[j] = d
        BY <4>2, <1>6 DEF LeftInOrder
      <4> QED BY <4>3, <3>2, <1>4
    <3> QED BY <3>1, <3>2, <1>4
  <2>2. ASSUME NEW i \in 1..Len(order'), NEW j \in 1..Len(order'), order'[i] = order'[j]
        PROVE  i = j
    <3>1. \A k \in 1..Len(order) : order[k] # n
      BY <1>6 DEF LeftInOrder
    <3>2. \A k, l \in 1..Len(order) : order[k] = order[l] => k = l
      BY DEF IInv, OrderGood
    <3> QED BY <3>1, <3>2, <2>2, <1>4
  <2> QED BY <2>1, <2>2, <1>7 DEF OrderGood, DepsOf
<1>15. DependenciesFirst'
  BY <1>7 DEF DependenciesFirst
<1>16. Accounted'
  <2>1. \A m \in Known \ roots : state[m] # 0 /\ m \in Nodes
    BY <1>7, <1>1 DEF IInv, Accounted, Known, Nodes
  <2>2. \A m \in Known' \ roots' : state'[m] # 0
    BY <2>1, <1>5, <1>7
  <2> QED BY <2>2, <1>7 DEF Accounted
<1> QED BY <1>9, <1>10, <1>11, <1>12, <1>13, <1>14, <1>15, <1>16 DEF IInv, Search

LEMMA AbortStep ==
  ASSUME IInv, Abort
  PROVE  IInv'
<1>1. /\ order' = <<>> /\ loaded' = <<>> /\ phase' = "aborted" /\ visits' = <<>>
  BY DEF IInv, NotYet, Abort
<1>2. TypeOK'
  BY DEF IInv, TypeOK, Abort
<1>3. NotYet' /\ Search'
  BY <1>1 DEF NotYet, Search
<1>4. Accounted'
  BY <1>1, NothingYet DEF Accounted
<1> QED BY <1>1, <1>2, <1>3, <1>4, NothingYet DEF IInv

LEMMA SortedStep ==
  ASSUME IInv, Sorted
  PROVE  IInv'
<1> USE DEF Sorted, Sorting, sortVars
<1>1. TypeOK'
  BY DEF IInv, TypeOK
<1>2. NotYet' /\ Search' /\ phase' = "load"
  BY DEF NotYet, Search
<1>3. OrderGood' /\ DependenciesFirst'
  BY DEF IInv, OrderGood, DependenciesFirst, DepsOf, Known
<1>4. ASSUME NEW m \in Known
      PROVE  \E i \in 1..Len(order) : order[i] = m
  <2>1. m \in Nodes /\ state[m] # 0 /\ state[m] \in 0..2
    BY DEF IInv, Accounted, TypeOK, Known, Nodes
  <2>2. state[m] # 1
    BY <2>1 DEF IInv, Search, OnStack
  <2> QED BY <2>1, <2>2 DEF IInv, Search, LeftInOrder
<1>5. Accounted'
  BY <1>4 DEF IInv, Accounted, Known
<1> QED BY <1>1, <1>2, <1>3, <1>5 DEF IInv

LEMMA LoadNextStep ==
  ASSUME IInv, LoadNext
  PROVE  IInv'
<1> USE DEF LoadNext
<1> DEFINE h == order[1]
<1>1. order \in Seq(Nodes) /\ order # <<>> /\ loaded \in Seq(Mods) /\ Len(loaded) \in Nat
  BY DEF IInv, TypeOK
<1>2. /\ Len(order) \in Nat \ {0} /\ Head(order) = h /\ h \in Nodes
      /\ order' \in Seq(Nodes) /\ Len(order') = Len(order) - 1
      /\ \A i \in 1..Len(order') : order'[i] = order[i + 1]
  BY <1>1, HeadTail
<1> HIDE DEF h
<1>3. Known' = Known /\ Known \subseteq Mods /\ deps' = deps /\ phase = "load" /\ phase' = "load"
  BY DEF Known
<1>4. \A m : DepsOf(m)' = DepsOf(m)
  BY <1>3 DEF DepsOf
<1>5. /\ loaded' \in Seq(Mods) /\ Len(loaded') \in Nat /\ Len(loaded') >= Len(loaded)
      /\ \A j \in 1..Len(loaded) : loaded'[j] = loaded[j]
      /\ \A j \in 1..Len(loaded') : j \in 1..Len(loaded)
                                    \/ (j = Len(loaded) + 1 /\ loaded'[j] = h /\ h \in Known)
      /\ h \in Known => Len(loaded') = Len(loaded) + 1 /\ loaded'[Len(loaded) + 1] = h
  <2>1. CASE h \in Known
    BY <2>1, <1>1, <1>2, <1>3, Appended
  <2>2. CASE h \notin Known
    BY <2>2, <1>1, <1>2
  <2> QED BY <2>1, <2>2
<1>6. /\ \A i, j \in 1..Len(order) : order[i] = order[j] => i = j
      /\ \A i \in 1..Len(order), j \in 1..Len(loaded) : order[i] # loaded[j]
      /\ \A i \in 1..Len(order) : \A d \in DepsOf(order[i]) \cap Known :
             \/ \E j \in 1..i - 1 : order[j] = d
             \/ \E j \in 1..Len(loaded) : loaded[j] = d
  BY DEF IInv, OrderGood
<1>7. TypeOK'
  BY <1>2, <1>5 DEF IInv, TypeOK
<1>8. NotYet' /\ Search'
  BY <1>3 DEF NotYet, Search
<1>9. OrderGood'
  <2>1. ASSUME NEW i \in 1..Len(order'), NEW d \in DepsOf(order'[i]) \cap Known
        PROVE  \/ \E j \in 1..i - 1 : order'[j] = d
               \/ \E j \in 1..Len(loaded') : loaded'[j] = d
    <3>1. i + 1 \in 1..Len(order) /\ order'[i] = order[i + 1]
      BY <1>2
    <3>2. CASE \E j \in 1..Len(loaded) : loaded[j] = d
      BY <3>2, <1>5, <1>1
    <3>3. ASSUME NEW j \in 1..i, order[j] = d
          PROVE  \/ \E k \in 1..i - 1 : order'[k] = d
                 \/ \E k \in 1..Len(loaded') : loaded'[k] = d
      <4>1. CASE j = 1
        BY <4>1, <3>3, <2>1, <1>1, <1>5 DEF h
      <4>2. CASE j # 1
        <5>1. j - 1 \in 1..i - 1 /\ j - 1 \in 1..Len(order')
          BY <4>2, <1>2
        <5>2. order'[j - 1] = order[j]
          BY <5>1, <1>2
        <5> QED BY <5>1, <5>2, <3>3
      <4> QED BY <4>1, <4>2
    <3>4. \/ \E j \in 1..(i + 1) - 1 : order[j] = d
          \/ \E j \in 1..Len(loaded) : loaded[j] = d
      BY <3>1, <2>1, <1>6
    <3> QED BY <3>2, <3>3, <3>4
  <2>2. \A i, j \in 1..Len(order') : order'[i] = order'[j] => i = j
    BY <1>2, <1>6
  <2>3. ASSUME NEW i \in 1..Len(order'), NEW j \in 1..Len(loaded')
        PROVE  order'[i] # loaded'[j]
    <3>1. i + 1 \in 1..Len(order) /\ order'[i] = order[i + 1] /\ i + 1 # 1 /\ 1 \in 1..Len(order)
      BY <1>2
    <3>2. CASE j \in 1..Len(loaded)
      BY <3>1, <3>2, <1>5, <1>6
    <3>3. CASE loaded'[j] = h
      BY <3>1, <3>3, <1>6 DEF h
    <3> QED BY <3>2, <3>3, <1>5
  <2> QED BY <2>1, <2>2, <2>3, <1>3, <1>4 DEF OrderGood
<1>10. DependenciesFirst'
  <2>1. DependenciesFirst
    BY DEF IInv
  <2>2. ASSUME NEW i \in 1..Len(loaded'), NEW j \in 1..Len(loaded'), loaded'[j] = loaded'[i]
        PROVE  j = i
    <3>1. \A k \in 1..Len(loaded) : loaded[k] # h
      BY <1>2, <1>6 DEF h
    <3>2. \A k, l \in 1..Len(loaded) : loaded[k] = loaded[l] => k = l
      BY <2>1 DEF DependenciesFirst
    <3> QED BY <3>1, <3>2, <2>2, <1>5
  <2>3. ASSUME NEW i \in 1..Len(loaded'), NEW d \in DepsOf(loaded'[i]) \cap Known
        PROVE  \E j \in 1..i - 1 : loaded'[j] = d
    <3>1. CASE i \in 1..Len(loaded)
      <4>1. PICK j \in 1..i - 1 : loaded[j] = d
        BY <3>1, <2>1, <2>3, <1>5 DEF DependenciesFirst
      <4> QED BY <4>1, <3>1, <1>5
    <3>2. CASE i = Len(loaded) + 1 /\ loaded'[i] = h
      <4>1. d \in DepsOf(order[1]) \cap Known /\ 1 \in 1..Len(order)
        BY <3>2, <2>3, <1>2 DEF h
      <4>2. PICK j \in 1..Len(loaded) : loaded[j] = d
        BY <4>1, <1>6
      <4> QED BY <4>2, <3>2, <1>5, <1>1
    <3> QED BY <3>1, <3>2, <1>5
  <2>4. DOMAIN loaded' = 1..Len(loaded')
    BY <1>5
  <2> QED BY <2>2, <2>3, <2>4, <1>3, <1>4 DEF DependenciesFirst
<1>11. Accounted'
  <2>1. ASSUME NEW m \in Known
        PROVE  \/ \E i \in 1..Len(order') : order'[i] = m
               \/ \E i \in 1..Len(loaded') : loaded'[i] = m
    <3>1. CASE \E i \in 1..Len(loaded) : loaded[i] = m
      BY <3>1, <1>5, <1>1
    <3>2. ASSUME NEW i \in 1..Len(order), order[i] = m
          PROVE  \/ \E k \in 1..Len(order') : order'[k] = m
                 \/ \E k \in 1..Len(loaded') : loaded'[k] = m
      <4>1. CASE i = 1
        BY <4>1, <3>2, <1>1, <1>5 DEF h
      <4>2. CASE i # 1
        <5>1. i - 1 \in 1..Len(order')
          BY <4>2, <1>2
        <5>2. order'[i - 1] = m
          BY <5>1, <3>2, <1>2
        <5> QED BY <5>1, <5>2
      <4> QED BY <4>1, <4>2
    <3> QED BY <3>1, <3>2, <1>3 DEF IInv, Accounted
  <2>2. \A i \in 1..Len(loaded') : loaded'[i] \in Known
    BY <1>5 DEF IInv, Accounted
  <2> QED BY <2>1, <2>2, <1>3 DEF Accounted
<1> QED BY <1>7, <1>8, <1>9, <1>10, <1>11 DEF IInv

LEMMA LoadEndsStep ==
  ASSUME IInv, LoadEnds
  PROVE  IInv'
<1> USE DEF LoadEnds, sortVars
<1>1. TypeOK'
  BY DEF IInv, TypeOK
<1>2. NotYet' /\ Search'
  BY DEF NotYet, Search
<1>3. OrderGood' /\ DependenciesFirst'
  BY DEF IInv, OrderGood, DependenciesFirst, DepsOf, Known
<1>4. Accounted'
  BY DEF IInv, Accounted, Known
<1> QED BY <1>1, <1>2, <1>3, <1>4 DEF IInv

LEMMA NextIInv == IInv /\ [Next]_vars => IInv'
<1> SUFFICES ASSUME IInv, [Next]_vars PROVE IInv'
  OBVIOUS
<1>1. CASE UNCHANGED vars
  BY <1>1 DEF vars, sortVars, IInv, TypeOK, NotYet, Search, OnStack, Looked, LeftInOrder,
              OrderGood, DependenciesFirst, Accounted, DepsOf, Known
<1>2. ASSUME NEW f \in Files, Skip(f) \/ \E boxes \in BOOLEAN : Accept(f, boxes) PROVE IInv'
  BY <1>2, ScanStep
<1>3. CASE SortBegins
  BY <1>3, SortBeginsStep
<1>4. ASSUME NEW n \in Mods, VisitRoot(n) PROVE IInv'
  BY <1>4, VisitRootStep
<1>5. ASSUME NEW d \in DepNames, VisitDep(d) PROVE IInv'
  BY <1>5, VisitDepStep
<1>6. CASE Leave
  BY <1>6, LeaveStep
<1>7. CASE Abort
  BY <1>7, AbortStep
<1>8. CASE Sorted
  BY <1>8, SortedStep
<1>9. CASE LoadNext
  BY <1>9, LoadNextStep
<1>10. CASE LoadEnds
  BY <1>10, LoadEndsStep
<1> QED BY <1>1, <1>2, <1>3, <1>4, <1>5, <1>6, <1>7, <1>8, <1>9, <1>10 DEF Next

LEMMA Invariance == Spec => []IInv
BY InitIInv, NextIInv, PTL DEF Spec

-----------------------------------------------------------------------------
(* The theorems *)

\* The loader's variables keep their types.
THEOREM TypeCorrect == Spec => []TypeOK
<1>1. IInv => TypeOK
  BY DEF IInv
<1> QED BY <1>1, Invariance, PTL

\* on_loaded is called for a mod once and after what the mod depends on, for every
\* graph and every order in which the search meets it.
THEOREM LoadOrder == Spec => []DependenciesFirst
<1>1. IInv => DependenciesFirst
  BY DEF IInv
<1> QED BY <1>1, Invariance, PTL

-----------------------------------------------------------------------------
(* The search and reachability *)

\* A node reaches its dependencies, and with a node what that one depends on.
LEMMA ReachSteps ==
  ASSUME TypeOK, NEW n, NEW m, m = n \/ m \in Reach(n)
  PROVE  DepsOf(m) \subseteq Reach(n)
<1> SUFFICES ASSUME NEW d \in DepsOf(m)
             PROVE  d \in Reach(n)
  OBVIOUS
<1>1. d \in DepNames
  BY DEF TypeOK, DepsOf
<1>2. ASSUME NEW S \in SUBSET DepNames, DepsOf(n) \subseteq S, Closed(S)
      PROVE  d \in S
  BY <1>2 DEF Closed, Reach
<1> QED BY <1>1, <1>2 DEF Reach

\* It reaches nothing outside of a closed set that holds its dependencies.
LEMMA ReachLeast ==
  ASSUME NEW n, NEW S \in SUBSET DepNames, DepsOf(n) \subseteq S, Closed(S)
  PROVE  Reach(n) \subseteq S
BY DEF Reach

\* Reachability depends on the graph only, and the verdict on the graph and the mods.
LEMMA SameGraph ==
  ASSUME deps' = deps, configs' = configs
  PROVE  /\ \A n : Reach(n)' = Reach(n) /\ DepsOf(n)' = DepsOf(n)
         /\ Known' = Known /\ Unsortable' = Unsortable
<1>1. \A n : DepsOf(n)' = DepsOf(n)
  BY DEF DepsOf
<1>2. \A n : Reach(n)' = Reach(n)
  BY <1>1 DEF Reach, Closed
<1>3. Known' = Known
  BY DEF Known
<1> QED BY <1>1, <1>2, <1>3 DEF Unsortable

\* The sorted nodes come after everything they depend on, with a configuration or not.
OrderClosed ==
    phase = "sort" =>
        \A i \in 1..Len(order) : \A d \in DepsOf(order[i]) : \E j \in 1..i - 1 : order[j] = d

\* Along the visits v a later node is reached from an earlier one, and the first is a mod.
Path(v) ==
    /\ v # <<>> => v[1].node \in Known
    /\ \A i \in 1..Len(v) : v[i].rest \subseteq DepsOf(v[i].node)
    /\ \A i, j \in 1..Len(v) : i < j => v[j].node \in Reach(v[i].node)

\* Only what has a configuration has dependencies.
DepsKnown == \A m \in Mods \ Known : deps[m] = {}

Verdict ==
    /\ (phase = "sort" /\ cycle) \/ phase = "aborted" => Unsortable
    /\ phase \in {"load", "done"} => ~Unsortable

GraphInv ==
    /\ phase = "scan" => \A m \in Mods : deps[m] = {}
    /\ DepsKnown /\ OrderClosed /\ Verdict
    /\ phase = "sort" => roots \subseteq Known
    /\ phase = "sort" /\ ~cycle => Path(visits)

\* The step of a visit: the next node is a dependency of the last visit, or a mod when
\* there is none.
LEMMA VisitKeepsPath ==
  ASSUME IInv, GraphInv, phase = "sort", ~cycle, NEW n \in Nodes,
         NEW below \in Seq(Visit), Path(below), Len(below) = Len(visits),
         \A k \in 1..Len(below) : below[k].node = visits[k].node,
         IF below = <<>> THEN n \in Known ELSE n \in DepsOf(below[Len(below)].node),
         Visits(n, below), deps' = deps, configs' = configs
  PROVE  IF cycle' THEN Unsortable ELSE Path(visits)'
<1>1. TypeOK /\ OnStack(visits) /\ Len(below) \in Nat
  BY DEF IInv, Search
<1>3. ASSUME visits' = below
      PROVE  Path(visits)'
  BY <1>3, SameGraph DEF Path
<1>4. ASSUME NEW k \in 1..Len(below)
      PROVE  n \in Reach(below[k].node)
  <2> DEFINE t == below[Len(below)].node
  <2>1. n \in DepsOf(t)
    BY <1>4
  <2>2. t = below[k].node \/ t \in Reach(below[k].node)
    BY <1>1 DEF Path
  <2> HIDE DEF t
  <2> QED BY <1>1, <2>1, <2>2, ReachSteps
<1>5. CASE Left(n) /\ visits' = below /\ UNCHANGED <<state, cycle>>
  BY <1>3, <1>5
<1>6. CASE state[n] = 1 /\ cycle' = TRUE /\ visits' = below
  <2>1. PICK k \in 1..Len(below) : below[k].node = n
    BY <1>1, <1>6 DEF OnStack
  <2>2. n \in Reach(n)
    BY <1>4, <2>1
  <2>3. DepsOf(n) # {}
    <3>1. SUFFICES ASSUME DepsOf(n) = {} PROVE FALSE
      OBVIOUS
    <3>2. Reach(n) \subseteq {}
      BY <3>1, ReachLeast DEF Closed
    <3> QED BY <2>2, <3>2
  <2>4. n \in Known
    BY <2>3 DEF DepsOf, GraphInv, DepsKnown
  <2> QED BY <1>6, <2>2, <2>4 DEF Unsortable
<1>7. CASE /\ visits' = Append(below, [node |-> n, rest |-> DepsOf(n)])
           /\ UNCHANGED cycle
  <2> DEFINE e == [node |-> n, rest |-> DepsOf(n)]
             L == Len(below)
  <2>1. e \in Visit /\ e.node = n /\ e.rest = DepsOf(n)
    BY <1>1 DEF TypeOK, Visit, DepsOf, DepNames
  <2> HIDE DEF e
  <2>2. /\ visits' \in Seq(Visit) /\ Len(visits') = L + 1
        /\ \A k \in 1..L : visits'[k] = below[k]
        /\ visits'[L + 1] = e
    BY <1>7, <2>1, Appended DEF e
  <2>3. visits'[1].node \in Known
    <3>1. CASE below = <<>>
      BY <3>1, <2>1, <2>2
    <3>2. CASE below # <<>>
      <4>1. 1 \in 1..L
        BY <3>2, <1>1
      <4> QED BY <3>2, <4>1, <2>2 DEF Path
    <3> QED BY <3>1, <3>2
  <2>4. \A i \in 1..Len(visits') : visits'[i].rest \subseteq DepsOf(visits'[i].node)
    BY <1>1, <2>1, <2>2 DEF Path
  <2>5. ASSUME NEW i \in 1..Len(visits'), NEW j \in 1..Len(visits'), i < j
        PROVE  visits'[j].node \in Reach(visits'[i].node)
    <3>1. i \in 1..L /\ visits'[i] = below[i]
      BY <1>1, <2>2, <2>5
    <3>2. CASE j = L + 1
      BY <3>1, <3>2, <1>4, <2>1, <2>2
    <3>3. CASE j \in 1..L
      BY <3>1, <3>3, <2>2, <2>5 DEF Path
    <3> QED BY <3>2, <3>3, <1>1, <2>2
  <2>6. /\ \A m : Reach(m)' = Reach(m) /\ DepsOf(m)' = DepsOf(m)
        /\ Known' = Known
    BY SameGraph
  <2>7. Path(visits)'
    BY <2>3, <2>4, <2>5, <2>6 DEF Path
  <2> QED BY <1>7, <2>7
<1> QED BY <1>5, <1>6, <1>7 DEF Visits

LEMMA VisitGraph ==
  ASSUME IInv, GraphInv, NEW n \in DepNames, VisitDep(n) \/ (n \in Mods /\ VisitRoot(n))
  PROVE  GraphInv'
<1>1. /\ phase = "sort" /\ phase' = "sort" /\ ~cycle /\ deps' = deps /\ configs' = configs
      /\ order' = order
  BY DEF VisitDep, VisitRoot, Sorting
<1>2. TypeOK /\ visits \in Seq(Visit) /\ Path(visits)
  BY <1>1 DEF IInv, TypeOK, GraphInv
<1>3. SUFFICES IF cycle' THEN Unsortable ELSE Path(visits)'
  <2>1. DepsKnown' /\ OrderClosed'
    BY <1>1, SameGraph DEF GraphInv, DepsKnown, OrderClosed
  <2>3. roots' \subseteq Known'
    BY <1>1, SameGraph DEF GraphInv, VisitDep, VisitRoot
  <2>2. cycle' \in BOOLEAN
    BY <1>1, VisitRootStep, VisitDepStep DEF IInv, TypeOK
  <2> QED BY <1>1, <1>3, <2>1, <2>2, <2>3, SameGraph DEF GraphInv, Verdict
<1>4. CASE n \in Mods /\ VisitRoot(n)
  <2>1. visits = <<>> /\ n \in roots /\ Visits(n, visits) /\ n \in Nodes
    BY <1>4 DEF VisitRoot, Nodes
  <2>2. n \in Known
    BY <1>1, <2>1 DEF GraphInv
  <2> QED BY <1>1, <1>2, <2>1, <2>2, VisitKeepsPath
<1>5. CASE VisitDep(n)
  <2> DEFINE t == visits[Len(visits)]
             e == [t EXCEPT !.rest = @ \ {n}]
             below == Past(n)
  <2>1. visits # <<>> /\ n \in top.rest
    BY <1>5 DEF VisitDep
  <2>2. t \in Visit /\ top = t /\ Len(visits) \in Nat \ {0}
    <3>1. Last(visits) = t /\ Last(visits) \in Visit /\ Len(visits) \in Nat \ {0}
      BY <1>2, <2>1, FrontLast
    <3> QED BY <3>1 DEF top
  <2>3. n \in DepsOf(t.node)
    BY <1>2, <2>1, <2>2 DEF Path
  <2>4. CASE n \in Bad
    <3>1. cycle' = TRUE /\ visits' = visits
      BY <1>5, <2>4 DEF VisitDep
    <3> DEFINE r == visits[1].node
    <3>2. r \in Known /\ (t.node = r \/ t.node \in Reach(r))
      BY <1>2, <2>1, <2>2 DEF Path
    <3> HIDE DEF r, t
    <3>3. n \in Reach(r)
      BY <1>2, <2>3, <3>2, ReachSteps
    <3> QED BY <2>4, <3>1, <3>2, <3>3 DEF Unsortable
  <2>5. CASE n \notin Bad
    <3>1. n \in Nodes /\ Visits(n, below)
      BY <1>5, <2>5 DEF DepNames, VisitDep
    <3>2. e \in Visit /\ e.node = t.node /\ e.rest = t.rest \ {n}
      BY <2>2 DEF Visit
    <3>3. below = Append(Front(visits), e)
      BY <2>2 DEF Past
    <3> HIDE DEF e, below
    <3>4. /\ below \in Seq(Visit) /\ Len(below) = Len(visits)
          /\ \A k \in 1..Len(visits) - 1 : below[k] = visits[k]
          /\ below[Len(visits)] = e
      <4>1. /\ Front(visits) \in Seq(Visit) /\ Len(Front(visits)) = Len(visits) - 1
            /\ \A i \in 1..Len(visits) - 1 : Front(visits)[i] = visits[i]
        BY <1>2, <2>1, FrontLast
      <4> QED BY <2>2, <3>2, <3>3, <4>1, Appended
    <3>5. \A k \in 1..Len(visits) :
              below[k].node = visits[k].node /\ below[k].rest \subseteq visits[k].rest
      BY <2>2, <3>2, <3>4
    <3>6. Path(below) /\ below # <<>>
      BY <1>2, <2>1, <2>2, <3>4, <3>5 DEF Path
    <3>7. n \in DepsOf(below[Len(below)].node)
      BY <2>3, <3>2, <3>4
    <3> QED BY <1>1, <3>1, <3>4, <3>5, <3>6, <3>7, VisitKeepsPath
  <2> QED BY <2>4, <2>5
<1> QED BY <1>4, <1>5

LEMMA LeaveGraph ==
  ASSUME IInv, GraphInv, Leave
  PROVE  GraphInv'
<1> DEFINE L == Len(visits)
           n == visits[L].node
<1>1. /\ phase = "sort" /\ phase' = "sort" /\ ~cycle /\ ~cycle' /\ deps' = deps
      /\ configs' = configs /\ roots' = roots /\ visits \in Seq(Visit) /\ visits # <<>>
      /\ order \in Seq(Nodes)
  BY DEF Leave, Sorting, AllVisited, IInv, TypeOK
<1>2. top = visits[L] /\ L \in Nat \ {0} /\ n \in Nodes /\ visits[L].rest = {}
  <2>1. Last(visits) = visits[L] /\ Last(visits) \in Visit /\ L \in Nat \ {0}
    BY <1>1, FrontLast
  <2>2. \A v \in Visit : v.node \in Nodes
    BY DEF Visit
  <2> QED BY <2>1, <2>2 DEF top, Leave, AllVisited
<1> HIDE DEF n
<1>3. /\ visits' \in Seq(Visit) /\ Len(visits') = L - 1
      /\ \A k \in 1..L - 1 : visits'[k] = visits[k]
  BY <1>1, FrontLast DEF Leave
<1>4. /\ Len(order') = Len(order) + 1 /\ Len(order) \in Nat
      /\ \A i \in 1..Len(order) : order'[i] = order[i]
      /\ order'[Len(order) + 1] = n
  BY <1>1, <1>2, Appended DEF n, Leave
<1>5. Path(visits)'
  <2>1. visits' # <<>> => visits'[1] = visits[1]
    BY <1>2, <1>3
  <2> QED BY <1>1, <1>2, <1>3, <2>1, SameGraph DEF GraphInv, Path
<1>6. OrderClosed'
  <2> SUFFICES ASSUME NEW i \in 1..Len(order'), NEW d \in DepsOf(order'[i])
               PROVE  \E j \in 1..i - 1 : order'[j] = d
    BY <1>1 DEF OrderClosed, DepsOf
  <2>1. CASE i \in 1..Len(order)
    <3>1. PICK j \in 1..i - 1 : order[j] = d
      BY <1>1, <1>4, <2>1 DEF GraphInv, OrderClosed
    <3> QED BY <3>1, <2>1, <1>4
  <2>2. CASE i = Len(order) + 1
    <3>1. d \in DepsOf(n)
      BY <2>2, <1>4
    <3>2. state[d] = 2 /\ d \in Nodes
      BY <1>1, <1>2, <3>1 DEF IInv, Search, Looked, n
    <3>3. PICK j \in 1..Len(order) : order[j] = d
      BY <1>1, <3>2 DEF IInv, Search, LeftInOrder
    <3> QED BY <3>3, <2>2, <1>4
  <2> QED BY <2>1, <2>2, <1>4
<1> QED BY <1>1, <1>5, <1>6, SameGraph DEF GraphInv, DepsKnown, Verdict

\* A search that left every node went round no cycle.
LEMMA SortedGraph ==
  ASSUME IInv, GraphInv, Sorted
  PROVE  GraphInv'
<1>1. /\ phase = "sort" /\ phase' = "load" /\ ~cycle /\ roots = {} /\ visits = <<>>
      /\ deps' = deps /\ configs' = configs
  BY DEF Sorted, Sorting
<1>2. TypeOK /\ order \in Seq(Nodes) /\ Len(order) \in Nat
  BY DEF IInv, TypeOK
<1>3. ASSUME NEW n \in Known
      PROVE  n \notin Reach(n) /\ Reach(n) \cap Bad = {}
  <2>1. n \in Nodes /\ state[n] \in 0..2 /\ state[n] # 0 /\ state[n] # 1
    BY <1>1, <1>2 DEF IInv, Accounted, Search, OnStack, TypeOK, Known, Nodes
  <2>2. PICK i \in 1..Len(order) : order[i] = n
    BY <1>1, <2>1 DEF IInv, Search, LeftInOrder
  <2> DEFINE S == {order[j] : j \in 1..i - 1}
  <2>3. S \subseteq Nodes
    BY <1>2
  <2>4. \A k \in 1..i : DepsOf(order[k]) \subseteq S
    <3> SUFFICES ASSUME NEW k \in 1..i, NEW d \in DepsOf(order[k])
                 PROVE  d \in S
      OBVIOUS
    <3>1. PICK j \in 1..k - 1 : order[j] = d
      BY <1>1, <1>2 DEF GraphInv, OrderClosed
    <3> QED BY <3>1
  <2>5. n \notin S
    BY <1>2, <2>2 DEF IInv, OrderGood
  <2>6. DepsOf(n) \subseteq S /\ Closed(S)
    <3>1. i \in 1..i /\ \A j \in 1..i - 1 : j \in 1..i
      BY <1>2
    <3>2. DepsOf(n) \subseteq S
      BY <2>2, <2>4, <3>1
    <3>3. ASSUME NEW m \in S PROVE DepsOf(m) \subseteq S
      BY <2>4, <3>1, <3>3
    <3> QED BY <3>2, <3>3 DEF Closed
  <2> HIDE DEF S
  <2>7. Reach(n) \subseteq S
    BY <2>3, <2>6, ReachLeast DEF DepNames
  <2> QED BY <2>3, <2>5, <2>7 DEF Nodes
<1>4. ~Unsortable
  BY <1>3 DEF Unsortable
<1> QED BY <1>1, <1>4, SameGraph DEF GraphInv, DepsKnown, OrderClosed, Verdict

LEMMA GraphStep ==
  ASSUME IInv, GraphInv, [Next]_vars
  PROVE  GraphInv'
<1>1. CASE UNCHANGED vars
  <2>1. deps' = deps /\ configs' = configs
    BY <1>1 DEF vars
  <2> QED BY <1>1, <2>1, SameGraph DEF vars, sortVars, GraphInv, DepsKnown, OrderClosed,
             Verdict, Path
<1>2. ASSUME NEW f \in Files, Skip(f) \/ \E boxes \in BOOLEAN : Accept(f, boxes)
      PROVE  GraphInv'
  BY <1>2 DEF Skip, Accept, GraphInv, DepsKnown, OrderClosed, Verdict
<1>3. CASE SortBegins
  <2>1. /\ phase' = "sort" /\ order' = <<>> /\ visits' = <<>> /\ ~cycle' /\ roots' = Known
        /\ configs' = configs /\ Known' = Known
    BY <1>3 DEF SortBegins, IInv, NotYet, Known
  <2>2. DepsKnown'
    BY <1>3, <2>1 DEF SortBegins, DepsKnown
  <2> QED BY <2>1, <2>2 DEF GraphInv, OrderClosed, Verdict, Path
<1>4. ASSUME NEW n \in Mods, VisitRoot(n) PROVE GraphInv'
  <2>1. n \in DepNames
    BY DEF DepNames, Nodes
  <2> QED BY <1>4, <2>1, VisitGraph
<1>5. ASSUME NEW d \in DepNames, VisitDep(d) PROVE GraphInv'
  BY <1>5, VisitGraph
<1>6. CASE Abort
  <2>1. phase = "sort" /\ cycle /\ phase' = "aborted" /\ deps' = deps /\ configs' = configs
    BY <1>6 DEF Abort
  <2> QED BY <2>1, SameGraph DEF GraphInv, DepsKnown, OrderClosed, Verdict
<1>7. CASE LoadNext \/ LoadEnds
  <2>1. /\ phase = "load" /\ phase' \in {"load", "done"}
        /\ deps' = deps /\ configs' = configs
    BY <1>7 DEF LoadNext, LoadEnds
  <2> QED BY <2>1, SameGraph DEF GraphInv, DepsKnown, OrderClosed, Verdict
<1> QED BY <1>1, <1>2, <1>3, <1>4, <1>5, <1>6, <1>7, LeaveGraph, SortedGraph DEF Next

\* A directory is loaded as a whole or not at all: not at all exactly if some mod reaches
\* itself or a malformed name in the graph of the dependencies. The search agrees with
\* reachability, for every graph and every order in which it meets the nodes.
THEOREM WholeOrNone == Spec => []AllOrNothing
<1>1. Init => GraphInv
  BY DEF Init, GraphInv, DepsKnown, OrderClosed, Verdict
<1>2. IInv /\ GraphInv => AllOrNothing
  <2> SUFFICES ASSUME IInv, GraphInv PROVE AllOrNothing
    OBVIOUS
  <2>1. TypeOK /\ DOMAIN loaded = 1..Len(loaded)
    BY DEF IInv, TypeOK
  <2>2. phase = "done" => Range(loaded) = Known
    BY <2>1 DEF IInv, Accounted, Range
  <2> QED BY <2>1, <2>2 DEF IInv, NotYet, GraphInv, Verdict, AllOrNothing
<1> QED BY <1>1, <1>2, GraphStep, Invariance, PTL DEF Spec
=============================================================================
