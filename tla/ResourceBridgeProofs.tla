--------------------------- MODULE ResourceBridgeProofs ---------------------------
(***************************************************************************)
(* Proofs about ResourceBridge: for any threads, paths and number of       *)
(* fetches, whoever waits has its request with the main thread, nobody     *)
(* sleeps through its answer or the shutdown, and a thread that never      *)
(* timed out gets what it asked for.                                       *)
(***************************************************************************)
EXTENDS ResourceBridge, FiniteSetTheorems, TLAPS

-----------------------------------------------------------------------------
(* Sequences of requests *)

\* What Append() makes.
LEMMA Appended ==
  ASSUME NEW S, NEW s \in Seq(S), NEW e \in S
  PROVE  /\ Append(s, e) \in Seq(S) /\ Len(Append(s, e)) = Len(s) + 1
         /\ \A i \in 1..Len(s) : Append(s, e)[i] = s[i]
         /\ Append(s, e)[Len(s) + 1] = e
OBVIOUS

\* What Head() and Tail() leave.
LEMMA HeadTail ==
  ASSUME NEW S, NEW s \in Seq(S), s # <<>>
  PROVE  /\ Len(s) \in Nat \ {0}
         /\ Tail(s) \in Seq(S) /\ Len(Tail(s)) = Len(s) - 1
         /\ \A i \in 1..Len(s) - 1 : Tail(s)[i] = s[i + 1]
         /\ Head(s) = s[1] /\ s[1] \in S
OBVIOUS

-----------------------------------------------------------------------------
(* The inductive invariant *)

\* A request is of a fetch that was begun; while that fetch is under way, it is its own.
Reqs(q) ==
    \A i \in 1..Len(q) :
        /\ q[i].no <= fetches
        /\ \A t \in Threads : q[i].no = fetch[t].no =>
               q[i].thread = t /\ q[i].path = fetch[t].path /\ fetch[t].at # "asking"

\* No two requests of q have one number.
Unlike(q) == \A i, j \in 1..Len(q) : q[i].no = q[j].no => i = j

Numbers ==
    /\ Reqs(queue) /\ Reqs(batch) /\ Unlike(queue) /\ Unlike(batch)
    /\ \A i \in 1..Len(queue), j \in 1..Len(batch) : queue[i].no # batch[j].no
    /\ \A t \in Threads :
           /\ fetch[t].no <= fetches
           /\ fetch[t].at # "returned" => fetch[t].no # 0 /\ fetch[t].path \in Paths
           /\ \A u \in Threads : fetch[t].no = fetch[u].no /\ fetch[t].no # 0 => t = u

InQueue(t) == \E i \in 1..Len(queue) : queue[i].no = fetch[t].no
InBatch(t) == \E i \in 1..Len(batch) : batch[i].no = fetch[t].no

\* Who waits and has no answer has its request with the main thread; once shutdown() has
\* drained the queue, among those it is about to release.
Waits ==
    /\ shutdownFlag <=> stage \in {"drain", "release", "down"}
    /\ \A t \in Threads :
           /\ Waiting(t) /\ ~fetch[t].done => InQueue(t) \/ InBatch(t)
           /\ fetch[t].at \in {"checking", "asleep"} =>
                  /\ ~fetch[t].done /\ stage # "down"
                  /\ stage = "release" => InBatch(t)

\* The requests of a thread that never timed out are those of its present fetch.
Current(t, q) ==
    \A i \in 1..Len(q) : q[i].thread = t =>
        q[i].no = fetch[t].no /\ Waiting(t) /\ ~fetch[t].done

Owned ==
    ~shutdownFlag => \A t \in Threads \ late :
        /\ fetch[t].out \in {Nil, fetch[t].path}
        /\ Current(t, queue) /\ Current(t, batch)

IInv == TypeOK /\ Numbers /\ Waits /\ Owned

USE ResourceAssumption DEF ResourceAssumption

LEMMA InitIInv == Init => IInv
<1> SUFFICES ASSUME Init PROVE IInv
  OBVIOUS
<1> USE DEF Init, NoFrame
<1>1. TypeOK
  <2>1. NoFrame \in Frame
    BY DEF Frame
  <2>2. fetch \in [Threads -> Frame]
    BY <2>1
  <2>3. cache \in SUBSET Paths /\ late \subseteq Threads /\ fetches \in 0..MaxFetches
    OBVIOUS
  <2>4. queue \in Seq(Request) /\ batch \in Seq(Request) /\ stage = "idle"
    OBVIOUS
  <2> QED BY <2>2, <2>3, <2>4 DEF TypeOK
<1>2. Numbers
  BY DEF Numbers, Reqs, Unlike
<1>3. Waits
  BY DEF Waits, Waiting
<1>4. Owned
  BY DEF Owned, Current
<1> QED BY <1>1, <1>2, <1>3, <1>4 DEF IInv

-----------------------------------------------------------------------------
(* A fetch *)

LEMMA FetchStep ==
  ASSUME IInv, NEW t \in Threads, NEW path \in Paths, Fetch(t, path)
  PROVE  IInv'
<1> USE DEF Fetch, mainVars
<1>0. /\ fetches \in 0..MaxFetches /\ fetches' = fetches + 1 /\ fetches' \in 0..MaxFetches
      /\ \A i \in 1..Len(queue) : queue[i].no \in 1..MaxFetches /\ queue[i].no <= fetches
      /\ \A i \in 1..Len(batch) : batch[i].no \in 1..MaxFetches /\ batch[i].no <= fetches
      /\ \A u \in Threads : fetch[u].no \in 0..MaxFetches /\ fetch[u].no <= fetches
  <2>1. fetches \in 0..MaxFetches /\ fetches' \in 0..MaxFetches
    BY DEF IInv, TypeOK
  <2>2. /\ \A i \in 1..Len(queue) : queue[i] \in Request
        /\ \A i \in 1..Len(batch) : batch[i] \in Request
        /\ \A u \in Threads : fetch[u] \in Frame
    BY DEF IInv, TypeOK
  <2> QED BY <2>1, <2>2 DEF IInv, Numbers, Reqs, Request, Frame
<1>1. CASE fetch' = fetch
  <2>1. TypeOK'
    BY <1>0, <1>1 DEF IInv, TypeOK
  <2>2. Reqs(queue)' /\ Reqs(batch)'
    BY <1>0, <1>1 DEF IInv, Numbers, Reqs
  <2>3. Numbers'
    BY <1>0, <1>1, <2>2 DEF IInv, Numbers, Unlike
  <2>4. Waits'
    BY <1>1 DEF IInv, Waits, Waiting, InQueue, InBatch
  <2>5. Owned'
    <3> SUFFICES ASSUME ~shutdownFlag, NEW u \in Threads \ late
                 PROVE  /\ fetch'[u].out \in {Nil, fetch'[u].path}
                        /\ Current(u, queue)' /\ Current(u, batch)'
      BY DEF Owned
    <3>1. /\ fetch[u].out \in {Nil, fetch[u].path}
          /\ Current(u, queue) /\ Current(u, batch)
      BY DEF IInv, Owned
    <3> QED BY <3>1, <1>1 DEF Current, Waiting
  <2> QED BY <2>1, <2>3, <2>4, <2>5 DEF IInv
<1>2. CASE /\ ~shutdownFlag
           /\ fetch' = [fetch EXCEPT ![t] = [NoFrame EXCEPT !.at = "asking",
                                             !.no = fetches + 1, !.path = path]]
  <2> DEFINE f == [NoFrame EXCEPT !.at = "asking", !.no = fetches + 1, !.path = path]
  <2>1. /\ f \in Frame /\ f.at = "asking" /\ f.no = fetches + 1 /\ f.path = path
        /\ f.out = Nil /\ f.done = FALSE
    <3>1. NoFrame \in Frame
      BY DEF NoFrame, Frame
    <3>2. fetches + 1 \in 0..MaxFetches
      BY <1>0
    <3> QED BY <3>1, <3>2 DEF Frame, NoFrame
  <2> HIDE DEF f
  <2>2. /\ fetch' \in [Threads -> Frame] /\ fetch'[t] = f
        /\ \A u \in Threads : u # t => fetch'[u] = fetch[u]
    BY <1>2, <2>1 DEF IInv, TypeOK, f
  <2>3. TypeOK'
    BY <1>0, <2>2 DEF IInv, TypeOK
  <2>5. Reqs(queue)'
    BY <1>0, <2>1, <2>2 DEF IInv, Numbers, Reqs
  <2>6. Reqs(batch)'
    BY <1>0, <2>1, <2>2 DEF IInv, Numbers, Reqs
  <2>7. Numbers'
    BY <1>0, <2>1, <2>2, <2>5, <2>6 DEF IInv, Numbers, Unlike
  <2>8. Waits'
    BY <2>1, <2>2 DEF IInv, Waits, Waiting, InQueue, InBatch
  <2>9. Owned'
    <3> SUFFICES ASSUME NEW u \in Threads \ late
                 PROVE  /\ fetch'[u].out \in {Nil, fetch'[u].path}
                        /\ Current(u, queue)' /\ Current(u, batch)'
      BY DEF Owned
    <3>1. /\ fetch[u].out \in {Nil, fetch[u].path}
          /\ Current(u, queue) /\ Current(u, batch)
      BY <1>2 DEF IInv, Owned
    <3>2. CASE u = t
      BY <3>1, <3>2, <2>1, <2>2 DEF Current, Waiting
    <3>3. CASE u # t
      BY <3>1, <3>3, <2>2 DEF Current, Waiting
    <3> QED BY <3>2, <3>3
  <2> QED BY <2>3, <2>7, <2>8, <2>9 DEF IInv
<1> QED BY <1>1, <1>2

LEMMA PushStep ==
  ASSUME IInv, NEW t \in Threads, Push(t)
  PROVE  IInv'
<1> USE DEF Push
<1> DEFINE r == [thread |-> t, no |-> fetch[t].no, path |-> fetch[t].path]
           f == [fetch[t] EXCEPT !.at = "pushed", !.done = FALSE]
<1>1. fetch[t] \in Frame /\ fetch[t].at = "asking" /\ fetch[t].no \in 1..MaxFetches
      /\ fetch[t].path \in Paths
  BY DEF IInv, TypeOK, Numbers, Frame
<1>2. /\ r \in Request /\ r.thread = t /\ r.no = fetch[t].no /\ r.path = fetch[t].path
      /\ queue' = Append(queue, r)
  BY <1>1 DEF Request
<1>3. /\ f \in Frame /\ f.at = "pushed" /\ f.no = fetch[t].no /\ f.path = fetch[t].path
      /\ f.out = fetch[t].out /\ f.done = FALSE
  BY <1>1 DEF Frame
<1>4. /\ fetch' \in [Threads -> Frame] /\ fetch'[t] = f
      /\ \A u \in Threads : u # t => fetch'[u] = fetch[u]
  BY <1>3 DEF IInv, TypeOK
<1> HIDE DEF r, f
<1> DEFINE n == Len(queue)
<1>5. /\ n \in Nat /\ queue' \in Seq(Request) /\ Len(queue') = n + 1
      /\ \A i \in 1..n : queue'[i] = queue[i]
      /\ queue'[n + 1] = r
  BY <1>2, Appended DEF IInv, TypeOK
<1> HIDE DEF n
<1>6. \A i \in 1..(n + 1) : i \in 1..n \/ i = n + 1
  BY <1>5
<1>7. TypeOK'
  BY <1>4, <1>5 DEF IInv, TypeOK
<1>8. /\ \A i \in 1..n : queue[i].no # r.no
      /\ \A i \in 1..Len(batch) : batch[i].no # r.no
      /\ r.no <= fetches
  BY <1>1, <1>2 DEF IInv, Numbers, Reqs, n
<1>9. Numbers'
  <2>1. Reqs(queue)'
    <3> SUFFICES ASSUME NEW i \in 1..(n + 1)
                 PROVE  /\ queue'[i].no <= fetches
                        /\ \A u \in Threads : queue'[i].no = fetch'[u].no =>
                               /\ queue'[i].thread = u /\ queue'[i].path = fetch'[u].path
                               /\ fetch'[u].at # "asking"
      BY <1>5 DEF Reqs
    <3>1. CASE i \in 1..n
      BY <3>1, <1>2, <1>3, <1>4, <1>5, <1>8 DEF IInv, Numbers, Reqs, n
    <3>2. CASE i = n + 1
      BY <3>2, <1>1, <1>2, <1>3, <1>4, <1>5, <1>8 DEF IInv, Numbers
    <3> QED BY <3>1, <3>2, <1>6
  <2>2. Reqs(batch)'
    BY <1>2, <1>3, <1>4, <1>8 DEF IInv, Numbers, Reqs
  <2>3. Unlike(queue)'
    <3> SUFFICES ASSUME NEW i \in 1..(n + 1), NEW j \in 1..(n + 1),
                        queue'[i].no = queue'[j].no
                 PROVE  i = j
      BY <1>5 DEF Unlike
    <3>1. CASE i \in 1..n /\ j \in 1..n
      BY <3>1, <1>5 DEF IInv, Numbers, Unlike, n
    <3> QED BY <3>1, <1>5, <1>6, <1>8
  <2>4. \A i \in 1..(n + 1), j \in 1..Len(batch) : queue'[i].no # batch[j].no
    <3> SUFFICES ASSUME NEW i \in 1..(n + 1), NEW j \in 1..Len(batch)
                 PROVE  queue'[i].no # batch[j].no
      OBVIOUS
    <3>1. CASE i \in 1..n
      BY <3>1, <1>5 DEF IInv, Numbers, n
    <3> QED BY <3>1, <1>5, <1>6, <1>8
  <2>5. Unlike(batch)'
    BY DEF IInv, Numbers, Unlike
  <2>6. \A u \in Threads :
           /\ fetch'[u].no = fetch[u].no
           /\ fetch'[u].at # "returned" => fetch'[u].no # 0 /\ fetch'[u].path \in Paths
    BY <1>1, <1>3, <1>4 DEF IInv, Numbers
  <2>7. \A u \in Threads :
           /\ fetch'[u].no <= fetches'
           /\ \A v \in Threads : fetch'[u].no = fetch'[v].no /\ fetch'[u].no # 0 => u = v
    <3>1. /\ fetches' = fetches
          /\ \A u \in Threads :
                /\ fetch[u].no <= fetches
                /\ \A v \in Threads : fetch[u].no = fetch[v].no /\ fetch[u].no # 0 => u = v
      BY DEF IInv, Numbers
    <3>2. \A u \in Threads : fetch'[u].no = fetch[u].no
      BY <2>6
    <3> QED BY ONLY <3>1, <3>2
  <2>8. batch' = batch
    OBVIOUS
  <2>9. \A i \in 1..Len(queue'), j \in 1..Len(batch') : queue'[i].no # batch'[j].no
    BY <2>4, <2>8, <1>5
  <2> HIDE DEF Push
  <2> QED BY <2>1, <2>2, <2>3, <2>5, <2>6, <2>7, <2>9 DEF Numbers
<1>10. Waits'
  <2>1. InQueue(t)'
    BY <1>2, <1>3, <1>4, <1>5 DEF InQueue
  <2>2. \A u \in Threads : u # t =>
           /\ InQueue(u) => InQueue(u)'
           /\ InBatch(u) <=> InBatch(u)'
           /\ Waiting(u) <=> Waiting(u)'
    BY <1>4, <1>5 DEF InQueue, InBatch, Waiting, n
  <2> QED BY <2>1, <2>2, <1>3, <1>4 DEF IInv, Waits
<1>11. Owned'
  <2> SUFFICES ASSUME ~shutdownFlag, NEW u \in Threads \ late
               PROVE  /\ fetch'[u].out \in {Nil, fetch'[u].path}
                      /\ Current(u, queue)' /\ Current(u, batch)'
    BY DEF Owned
  <2>1. /\ fetch[u].out \in {Nil, fetch[u].path}
        /\ Current(u, queue) /\ Current(u, batch)
    BY DEF IInv, Owned
  <2>2. CASE u = t
    <3>1. /\ \A i \in 1..n : queue[i].thread # t
          /\ \A i \in 1..Len(batch) : batch[i].thread # t
      BY <2>1, <2>2, <1>1 DEF Current, Waiting, n
    <3> QED BY <3>1, <2>1, <2>2, <1>2, <1>3, <1>4, <1>5, <1>6 DEF Current, Waiting
  <2>3. CASE u # t
    BY <2>1, <2>3, <1>2, <1>4, <1>5, <1>6 DEF Current, Waiting, n
  <2> QED BY <2>2, <2>3
<1> QED BY <1>7, <1>9, <1>10, <1>11 DEF IInv

-----------------------------------------------------------------------------
(* What the other steps do to the numbers *)

\* They begin no fetch, and end at most the first request of the batch.
KeepsNumbers ==
    /\ fetches' = fetches /\ queue' = queue
    /\ \/ batch' = batch
       \/ batch # <<>> /\ batch' = Tail(batch)
    /\ \A u \in Threads :
           /\ fetch'[u].no = fetch[u].no /\ fetch'[u].path = fetch[u].path
           /\ \/ fetch'[u].at = fetch[u].at
              \/ fetch'[u].at # "asking" /\ fetch[u].at # "returned"

LEMMA NumbersKept == TypeOK /\ Numbers /\ KeepsNumbers => Numbers'
<1> SUFFICES ASSUME TypeOK, Numbers, KeepsNumbers PROVE Numbers'
  OBVIOUS
<1> USE DEF Numbers, KeepsNumbers
<1>1. Reqs(queue)'
  BY DEF Reqs
<1>2. CASE batch' = batch
  <2>1. Reqs(batch)'
    BY <1>2 DEF Reqs
  <2> QED BY <1>1, <1>2, <2>1 DEF Unlike
<1>3. CASE batch # <<>> /\ batch' = Tail(batch)
  <2>1. /\ Len(batch) \in Nat \ {0} /\ Len(batch') = Len(batch) - 1
        /\ \A i \in 1..Len(batch') :
               i \in Nat /\ i + 1 \in 1..Len(batch) /\ batch'[i] = batch[i + 1]
    BY <1>3, HeadTail DEF TypeOK
  <2> DEFINE m == Len(batch')
  <2>2. Reqs(batch)'
    <3> SUFFICES ASSUME NEW i \in 1..m
                 PROVE  /\ batch'[i].no <= fetches
                        /\ \A u \in Threads : batch'[i].no = fetch'[u].no =>
                               /\ batch'[i].thread = u /\ batch'[i].path = fetch'[u].path
                               /\ fetch'[u].at # "asking"
      BY DEF Reqs
    <3>1. PICK k \in 1..Len(batch) : batch'[i] = batch[k]
      BY <2>1
    <3> QED BY <3>1 DEF Reqs
  <2>3. Unlike(batch)'
    <3> SUFFICES ASSUME NEW i \in 1..m, NEW j \in 1..m, batch'[i].no = batch'[j].no
                 PROVE  i = j
      BY DEF Unlike
    <3> HIDE DEF Numbers, KeepsNumbers
    <3>1. /\ i \in Nat /\ j \in Nat
          /\ i + 1 \in 1..Len(batch) /\ j + 1 \in 1..Len(batch)
          /\ batch[i + 1].no = batch[j + 1].no
      <4>1. /\ i \in Nat /\ i + 1 \in 1..Len(batch) /\ batch'[i] = batch[i + 1]
        BY <2>1
      <4>2. /\ j \in Nat /\ j + 1 \in 1..Len(batch) /\ batch'[j] = batch[j + 1]
        BY <2>1
      <4> QED BY <4>1, <4>2
    <3>2. i + 1 = j + 1
      BY <3>1 DEF Numbers, Unlike
    <3> QED BY <3>1, <3>2
  <2>4. ASSUME NEW i \in 1..Len(queue), NEW j \in 1..m
        PROVE  queue[i].no # batch'[j].no
    <3>1. PICK k \in 1..Len(batch) : batch'[j] = batch[k]
      BY <2>1
    <3> QED BY <3>1
  <2> QED BY <1>1, <2>2, <2>3, <2>4 DEF Unlike
<1> QED BY <1>2, <1>3

\* A step of one thread that waits or wakes: its frame keeps its number, its answer and its
\* done flag, and it sleeps only on.
LEMMA WaitStep ==
  ASSUME IInv, NEW t \in Threads, NEW f \in Frame,
         fetch' = [fetch EXCEPT ![t] = f],
         f.no = fetch[t].no, f.path = fetch[t].path, f.out = fetch[t].out,
         f.done = fetch[t].done,
         Waiting(t), f.at \in {"checking", "asleep", "awake"},
         f.at # "awake" => /\ ~fetch[t].done
                           /\ ~shutdownFlag \/ fetch[t].at = "checking",
         f.at = "awake" => shutdownFlag \/ fetch[t].done \/ t \in late',
         late \subseteq late', late' \subseteq Threads,
         UNCHANGED <<fetches, cache, mainVars>>
  PROVE  IInv'
<1> USE DEF mainVars
<1>1. /\ fetch' \in [Threads -> Frame] /\ fetch'[t] = f
      /\ \A u \in Threads : u # t => fetch'[u] = fetch[u]
  BY DEF IInv, TypeOK
<1>2. TypeOK'
  BY <1>1 DEF IInv, TypeOK
<1>3. Numbers'
  <2>1. KeepsNumbers
    BY <1>1 DEF KeepsNumbers, Waiting
  <2> QED BY <2>1, NumbersKept DEF IInv
<1>4. Waits'
  <2>1. /\ InQueue(t)' <=> InQueue(t)
        /\ InBatch(t)' <=> InBatch(t)
    BY <1>1 DEF InQueue, InBatch
  <2>2. \A u \in Threads : u # t =>
           /\ InQueue(u)' <=> InQueue(u)
           /\ InBatch(u)' <=> InBatch(u)
           /\ Waiting(u)' <=> Waiting(u)
    BY <1>1 DEF InQueue, InBatch, Waiting
  <2> QED BY <1>1, <2>1, <2>2 DEF IInv, Waits, Waiting
<1>5. Owned'
  <2> SUFFICES ASSUME ~shutdownFlag, NEW u \in Threads \ late'
               PROVE  /\ fetch'[u].out \in {Nil, fetch'[u].path}
                      /\ Current(u, queue)' /\ Current(u, batch)'
    BY DEF Owned
  <2>1. /\ fetch[u].out \in {Nil, fetch[u].path}
        /\ Current(u, queue) /\ Current(u, batch)
    BY DEF IInv, Owned
  <2> QED BY <2>1, <1>1 DEF Current, Waiting
<1> QED BY <1>2, <1>3, <1>4, <1>5 DEF IInv

LEMMA WaitChecksStep ==
  ASSUME IInv, NEW t \in Threads, WaitChecks(t)
  PROVE  IInv'
<1> DEFINE f == [fetch[t] EXCEPT !.at = IF Released(t) THEN "awake" ELSE "checking",
                                 !.completed = Released(t)]
<1>1. fetch[t] \in Frame /\ fetch[t].at = "pushed" /\ fetch' = [fetch EXCEPT ![t] = f]
  BY DEF WaitChecks, IInv, TypeOK
<1>2. Released(t) \in BOOLEAN
  BY <1>1 DEF Released, Frame, IInv, TypeOK
<1>3. /\ f \in Frame
      /\ f.no = fetch[t].no /\ f.path = fetch[t].path /\ f.out = fetch[t].out
      /\ f.done = fetch[t].done /\ f.at = IF Released(t) THEN "awake" ELSE "checking"
  BY <1>1, <1>2 DEF Frame
<1>4. UNCHANGED <<fetches, cache, mainVars>> /\ late' = late /\ late \subseteq Threads
  BY DEF WaitChecks, IInv, TypeOK
<1> HIDE DEF f
<1> QED BY <1>1, <1>3, <1>4, WaitStep DEF Released, Waiting

LEMMA WaitSleepsStep ==
  ASSUME IInv, NEW t \in Threads, WaitSleeps(t)
  PROVE  IInv'
<1> DEFINE f == [fetch[t] EXCEPT !.at = "asleep"]
<1>1. fetch[t] \in Frame /\ fetch[t].at = "checking" /\ fetch' = [fetch EXCEPT ![t] = f]
  BY DEF WaitSleeps, IInv, TypeOK
<1>2. /\ f \in Frame /\ f.at = "asleep"
      /\ f.no = fetch[t].no /\ f.path = fetch[t].path /\ f.out = fetch[t].out
      /\ f.done = fetch[t].done
  BY <1>1 DEF Frame
<1>3. UNCHANGED <<fetches, cache, mainVars>> /\ late' = late /\ late \subseteq Threads
  BY DEF WaitSleeps, IInv, TypeOK
<1>4. ~fetch[t].done
  BY <1>1 DEF IInv, Waits
<1> HIDE DEF f
<1> QED BY <1>1, <1>2, <1>3, <1>4, WaitStep DEF Waiting

LEMMA TimeOutStep ==
  ASSUME IInv, NEW t \in Threads, TimeOut(t)
  PROVE  IInv'
<1> DEFINE f == [fetch[t] EXCEPT !.at = "awake", !.completed = Released(t)]
<1>1. fetch[t] \in Frame /\ fetch[t].at = "asleep" /\ fetch' = [fetch EXCEPT ![t] = f]
  BY DEF TimeOut, IInv, TypeOK
<1>2. Released(t) \in BOOLEAN
  BY <1>1 DEF Released, Frame, IInv, TypeOK
<1>3. /\ f \in Frame /\ f.at = "awake"
      /\ f.no = fetch[t].no /\ f.path = fetch[t].path /\ f.out = fetch[t].out
      /\ f.done = fetch[t].done
  BY <1>1, <1>2 DEF Frame
<1>4. /\ UNCHANGED <<fetches, cache, mainVars>>
      /\ late \subseteq late' /\ late' \subseteq Threads
      /\ Released(t) \/ t \in late'
  BY DEF TimeOut, IInv, TypeOK
<1> HIDE DEF f
<1> QED BY <1>1, <1>3, <1>4, WaitStep DEF Released, Waiting

LEMMA ReturnStep ==
  ASSUME IInv, NEW t \in Threads, Return(t)
  PROVE  IInv'
<1> USE DEF Return, mainVars
<1>1. /\ NoFrame \in Frame /\ NoFrame.no = 0 /\ NoFrame.at = "returned"
      /\ NoFrame.out = Nil /\ NoFrame.done = FALSE
  BY DEF NoFrame, Frame
<1>2. /\ fetch' \in [Threads -> Frame] /\ fetch'[t] = NoFrame
      /\ \A u \in Threads : u # t => fetch'[u] = fetch[u]
  BY <1>1 DEF IInv, TypeOK
<1>3. TypeOK'
  BY <1>2 DEF IInv, TypeOK
<1>4. Numbers'
  <2>1. /\ \A i \in 1..Len(queue) : queue[i] \in Request /\ queue[i].no # 0
        /\ \A i \in 1..Len(batch) : batch[i] \in Request /\ batch[i].no # 0
        /\ fetches \in Nat
    <3>1. /\ \A i \in 1..Len(queue) : queue[i] \in Request
          /\ \A i \in 1..Len(batch) : batch[i] \in Request
          /\ fetches \in 0..MaxFetches
      BY DEF IInv, TypeOK
    <3> QED BY <3>1 DEF Request
  <2>2. Reqs(queue)' /\ Reqs(batch)'
    BY <1>1, <1>2, <2>1 DEF IInv, Numbers, Reqs
  <2>3. Unlike(queue)' /\ Unlike(batch)'
    BY DEF IInv, Numbers, Unlike
  <2>4. \A u \in Threads :
           /\ fetch'[u].no <= fetches'
           /\ fetch'[u].at # "returned" => fetch'[u].no # 0 /\ fetch'[u].path \in Paths
           /\ \A v \in Threads : fetch'[u].no = fetch'[v].no /\ fetch'[u].no # 0 => u = v
    BY <1>1, <1>2, <2>1 DEF IInv, Numbers
  <2>5. \A i \in 1..Len(queue'), j \in 1..Len(batch') : queue'[i].no # batch'[j].no
    BY DEF IInv, Numbers
  <2> HIDE DEF Return
  <2> QED BY <2>2, <2>3, <2>4, <2>5 DEF Numbers
<1>5. Waits'
  <2>1. \A u \in Threads : u # t =>
           /\ InQueue(u)' <=> InQueue(u)
           /\ InBatch(u)' <=> InBatch(u)
           /\ Waiting(u)' <=> Waiting(u)
    BY <1>2 DEF InQueue, InBatch, Waiting
  <2> QED BY <1>1, <1>2, <2>1 DEF IInv, Waits, Waiting
<1>6. Owned'
  <2> SUFFICES ASSUME ~shutdownFlag, NEW u \in Threads \ late
               PROVE  /\ fetch'[u].out \in {Nil, fetch'[u].path}
                      /\ Current(u, queue)' /\ Current(u, batch)'
    BY DEF Owned
  <2>1. /\ fetch[u].out \in {Nil, fetch[u].path}
        /\ Current(u, queue) /\ Current(u, batch)
    BY DEF IInv, Owned
  <2>2. CASE u = t
    BY <2>1, <2>2, <1>1, <1>2 DEF Current, Waiting
  <2>3. CASE u # t
    BY <2>1, <2>3, <1>2 DEF Current, Waiting
  <2> QED BY <2>2, <2>3
<1> QED BY <1>3, <1>4, <1>5, <1>6 DEF IInv

-----------------------------------------------------------------------------
(* The main thread *)

\* A step that leaves the fetches and the requests where they are.
LEMMA StageStep ==
  ASSUME IInv, UNCHANGED <<fetch, fetches, queue, batch, late>>,
         cache' \in SUBSET Paths, shutdownFlag' \in BOOLEAN,
         stage' \in {"idle", "load", "answer", "drain", "release", "down"},
         stage' \in {"idle", "drain", "down"} => batch = <<>>,
         stage' = "answer" => batch # <<>>,
         shutdownFlag' <=> stage' \in {"drain", "release", "down"},
         shutdownFlag => shutdownFlag',
         stage' = "release" => stage = "release",
         stage' = "down" => stage \in {"release", "down"}
  PROVE  IInv'
<1>1. TypeOK'
  BY DEF IInv, TypeOK
<1>2. KeepsNumbers
  BY DEF KeepsNumbers
<1>3. Numbers'
  BY <1>2, NumbersKept DEF IInv
<1>4. Waits'
  <2>1. \A u \in Threads :
           /\ InQueue(u)' <=> InQueue(u)
           /\ InBatch(u)' <=> InBatch(u)
           /\ Waiting(u)' <=> Waiting(u)
    BY DEF InQueue, InBatch, Waiting
  <2>2. ASSUME stage' = "down", NEW u \in Threads, fetch[u].at \in {"checking", "asleep"}
        PROVE  FALSE
    <3>1. ~InBatch(u)
      BY <2>2 DEF InBatch
    <3> QED BY <2>2, <3>1 DEF IInv, Waits
  <2> QED BY <2>1, <2>2 DEF IInv, Waits
<1>5. Owned'
  <2> SUFFICES ASSUME ~shutdownFlag', NEW u \in Threads \ late
               PROVE  /\ fetch'[u].out \in {Nil, fetch'[u].path}
                      /\ Current(u, queue)' /\ Current(u, batch)'
    BY DEF Owned
  <2>1. ~shutdownFlag
    OBVIOUS
  <2>2. /\ fetch[u].out \in {Nil, fetch[u].path}
        /\ Current(u, queue) /\ Current(u, batch)
    BY <2>1 DEF IInv, Owned
  <2> QED BY <2>2 DEF Current, Waiting
<1> QED BY <1>1, <1>3, <1>4, <1>5 DEF IInv

LEMMA MainFetchStep ==
  ASSUME IInv, NEW path \in Paths, MainFetch(path)
  PROVE  IInv'
<1>1. cache' \in SUBSET Paths
  BY DEF MainFetch, IInv, TypeOK
<1>2. /\ UNCHANGED <<fetch, fetches, queue, batch, late>> /\ stage' = "idle" /\ stage = "idle"
      /\ shutdownFlag' = shutdownFlag /\ shutdownFlag \in BOOLEAN /\ batch = <<>>
      /\ ~shutdownFlag
  BY DEF MainFetch, mainVars, IInv, TypeOK
<1> QED BY <1>1, <1>2, StageStep

\* flush() and shutdown() take over the whole queue.
LEMMA SwapStep ==
  ASSUME IInv, batch = <<>>, batch' = queue, queue' = <<>>,
         UNCHANGED <<fetch, fetches, cache, shutdownFlag, late>>,
         \/ stage = "idle" /\ stage' = "load"
         \/ stage = "drain" /\ stage' = "release"
  PROVE  IInv'
<1>1. TypeOK'
  <2>1. queue' \in Seq(Request) /\ batch' \in Seq(Request)
    BY DEF IInv, TypeOK
  <2> QED BY <2>1 DEF IInv, TypeOK
<1>2. Len(queue') = 0 /\ Len(batch) = 0
  OBVIOUS
<1>3. Numbers'
  <2>1. Reqs(queue)' /\ Unlike(queue)'
    BY <1>2 DEF Reqs, Unlike
  <2>2. Reqs(batch)' /\ Unlike(batch)'
    BY DEF IInv, Numbers, Reqs, Unlike
  <2>3. \A i \in 1..Len(queue'), j \in 1..Len(batch') : queue'[i].no # batch'[j].no
    BY <1>2
  <2> QED BY <2>1, <2>2, <2>3 DEF IInv, Numbers
<1>4. Waits'
  <2>1. \A u \in Threads :
           ~InBatch(u) /\ (InQueue(u) => InBatch(u)')
    BY <1>2 DEF InQueue, InBatch
  <2>2. \A u \in Threads : Waiting(u)' <=> Waiting(u)
    BY DEF Waiting
  <2>3. \A u \in Threads : fetch[u].at \in {"checking", "asleep"} => Waiting(u)
    BY DEF Waiting
  <2> QED BY <2>1, <2>2, <2>3 DEF IInv, Waits
<1>5. Owned'
  <2> SUFFICES ASSUME ~shutdownFlag, NEW u \in Threads \ late
               PROVE  /\ fetch'[u].out \in {Nil, fetch'[u].path}
                      /\ Current(u, queue)' /\ Current(u, batch)'
    BY DEF Owned
  <2>1. fetch[u].out \in {Nil, fetch[u].path} /\ Current(u, queue)
    BY DEF IInv, Owned
  <2> QED BY <2>1, <1>2 DEF Current, Waiting
<1> QED BY <1>1, <1>3, <1>4, <1>5 DEF IInv

\* The first request of the batch.
LEMMA FirstOfBatch ==
  ASSUME IInv, batch # <<>>
  PROVE  /\ Head(batch) \in Request /\ Head(batch).thread \in Threads
         /\ Head(batch) = batch[1] /\ 1 \in 1..Len(batch) /\ Len(batch) \in Nat
         /\ Tail(batch) \in Seq(Request)
         /\ \A i \in 1..Len(batch) :
                \/ i = 1
                \/ i - 1 \in 1..Len(Tail(batch)) /\ Tail(batch)[i - 1] = batch[i]
         /\ \A i \in 1..Len(Tail(batch)) :
                i + 1 \in 1..Len(batch) /\ Tail(batch)[i] = batch[i + 1]
<1>1. batch \in Seq(Request)
  BY DEF IInv, TypeOK
<1>2. /\ Len(batch) \in Nat \ {0} /\ Tail(batch) \in Seq(Request)
      /\ Len(Tail(batch)) = Len(batch) - 1
      /\ \A i \in 1..Len(batch) - 1 : Tail(batch)[i] = batch[i + 1]
      /\ Head(batch) = batch[1] /\ batch[1] \in Request
  BY <1>1, HeadTail
<1>3. Head(batch).thread \in Threads
  BY <1>2 DEF Request
<1>4. \A i \in 1..Len(batch) :
          \/ i = 1
          \/ i - 1 \in 1..Len(batch) - 1 /\ (i - 1) + 1 = i
  BY <1>2
<1>5. \A i \in 1..Len(batch) - 1 : i + 1 \in 1..Len(batch)
  BY <1>2
<1> QED BY <1>2, <1>3, <1>4, <1>5

LEMMA FlushLoadsStep ==
  ASSUME IInv, FlushLoads
  PROVE  IInv'
<1> DEFINE r == Head(batch)
           t == r.thread
<1>1. /\ stage = "load" /\ batch # <<>> /\ stage' = "answer"
      /\ UNCHANGED <<fetches, queue, batch, shutdownFlag, late>>
  BY DEF FlushLoads
<1>2. r \in Request /\ t \in Threads /\ r = batch[1] /\ 1 \in 1..Len(batch) /\ r.path \in Paths
  BY <1>1, FirstOfBatch DEF Request
<1>3. PICK v \in {Nil, r.path} : Answered(r, v)
  BY DEF FlushLoads
<1>4. cache' \in SUBSET Paths
  BY <1>2 DEF FlushLoads, IInv, TypeOK
<1>5. CASE fetch' = fetch
  <2>1. shutdownFlag \in BOOLEAN /\ ~shutdownFlag /\ shutdownFlag' = shutdownFlag
    BY <1>1 DEF IInv, TypeOK, Waits
  <2>2. UNCHANGED <<fetch, fetches, queue, batch, late>>
    BY <1>1, <1>5
  <2> HIDE DEF r, t
  <2> QED BY <1>1, <1>4, <2>1, <2>2, StageStep
<1>6. CASE fetch' = [fetch EXCEPT ![t].out = v]
  <2> DEFINE f == [fetch[t] EXCEPT !.out = v]
  <2>1. fetch[t] \in Frame
    BY <1>2 DEF IInv, TypeOK
  <2>2. /\ f \in Frame /\ f.at = fetch[t].at /\ f.no = fetch[t].no /\ f.path = fetch[t].path
        /\ f.done = fetch[t].done /\ f.out = v
    BY <2>1, <1>2, <1>3 DEF Frame
  <2>3. /\ fetch' \in [Threads -> Frame] /\ fetch'[t] = f
        /\ \A u \in Threads : u # t => fetch'[u] = fetch[u]
    BY <1>2, <1>6, <2>2 DEF IInv, TypeOK
  <2> HIDE DEF f, r, t
  <2>4. \A u \in Threads :
           /\ fetch'[u].at = fetch[u].at /\ fetch'[u].no = fetch[u].no
           /\ fetch'[u].path = fetch[u].path /\ fetch'[u].done = fetch[u].done
    BY <2>2, <2>3
  <2>5. TypeOK'
    BY <1>1, <1>4, <2>3 DEF IInv, TypeOK
  <2>6. KeepsNumbers
    BY <1>1, <2>4 DEF KeepsNumbers
  <2>7. Numbers'
    BY <2>6, NumbersKept DEF IInv
  <2>8. Waits'
    <3>1. \A u \in Threads :
             /\ InQueue(u)' <=> InQueue(u)
             /\ InBatch(u)' <=> InBatch(u)
             /\ Waiting(u)' <=> Waiting(u)
      BY <1>1, <2>4 DEF InQueue, InBatch, Waiting
    <3> QED BY <1>1, <2>4, <3>1 DEF IInv, Waits
  <2>9. Owned'
    <3> SUFFICES ASSUME ~shutdownFlag, NEW u \in Threads \ late
                 PROVE  /\ fetch'[u].out \in {Nil, fetch'[u].path}
                        /\ Current(u, queue)' /\ Current(u, batch)'
      BY <1>1 DEF Owned
    <3>1. /\ fetch[u].out \in {Nil, fetch[u].path}
          /\ Current(u, queue) /\ Current(u, batch)
      BY DEF IInv, Owned
    <3>2. Current(u, queue)' /\ Current(u, batch)'
      BY <1>1, <2>4, <3>1 DEF Current, Waiting
    <3>3. CASE u = t
      <4>1. r.path = fetch[u].path
        BY <1>2, <3>1, <3>3 DEF Current, IInv, Numbers, Reqs, t
      <4> QED BY <1>3, <2>2, <2>3, <3>2, <3>3, <4>1
    <3> QED BY <2>3, <3>1, <3>2, <3>3
  <2> QED BY <2>5, <2>7, <2>8, <2>9 DEF IInv
<1> QED BY <1>3, <1>5, <1>6 DEF Answered

\* An answer, or a release: the first request of the batch is done.
LEMMA SignalStep ==
  ASSUME IInv, batch # <<>>, Signal(Head(batch)), batch' = Tail(batch),
         UNCHANGED <<fetches, cache, queue, shutdownFlag, late>>,
         \/ stage = "answer" /\ stage' = "load"
         \/ stage = "release" /\ stage' = "release"
  PROVE  IInv'
<1> DEFINE r == Head(batch)
           t == r.thread
           f == Notified(fetch[t])
<1>1. /\ r \in Request /\ t \in Threads /\ r = batch[1] /\ 1 \in 1..Len(batch)
      /\ batch' \in Seq(Request)
      /\ \A i \in 1..Len(batch) :
             \/ i = 1
             \/ i - 1 \in 1..Len(batch') /\ batch'[i - 1] = batch[i]
      /\ \A i \in 1..Len(batch') : i + 1 \in 1..Len(batch) /\ batch'[i] = batch[i + 1]
  BY FirstOfBatch
<1>2. fetch[t] \in Frame
  BY <1>1 DEF IInv, TypeOK
<1>3. /\ f \in Frame /\ f.no = fetch[t].no /\ f.path = fetch[t].path /\ f.out = fetch[t].out
      /\ f.done = TRUE
      /\ f.at = IF fetch[t].at = "asleep" THEN "awake" ELSE fetch[t].at
  BY <1>2 DEF Frame, Notified
<1>4. /\ fetch[t].at # "checking"
      /\ \/ fetch' = fetch /\ ~Live(r)
         \/ fetch' = [fetch EXCEPT ![t] = f]
  BY DEF Signal, MayHit
<1> HIDE DEF r, f
<1>5. /\ fetch' \in [Threads -> Frame]
      /\ \A u \in Threads : u # t => fetch'[u] = fetch[u]
      /\ fetch'[t] = f \/ (fetch'[t] = fetch[t] /\ fetch[t].no # r.no)
  BY <1>1, <1>3, <1>4 DEF IInv, TypeOK, Live
<1> HIDE DEF t
<1>6. \A u \in Threads :
         /\ fetch'[u].no = fetch[u].no /\ fetch'[u].path = fetch[u].path
         /\ fetch'[u].out = fetch[u].out
         /\ \/ fetch'[u].at = fetch[u].at
            \/ fetch'[u].at = "awake" /\ fetch[u].at = "asleep"
         /\ fetch[u].done => fetch'[u].done
         /\ fetch'[u].at = "asleep" => fetch'[u] = fetch[u]
  <2> TAKE u \in Threads
  <2>1. CASE u = t
    BY <2>1, <1>3, <1>5
  <2>2. CASE u # t
    BY <2>2, <1>5
  <2> QED BY <2>1, <2>2
<1>7. TypeOK'
  BY <1>1, <1>5 DEF IInv, TypeOK
<1>8. KeepsNumbers
  BY <1>6 DEF KeepsNumbers
<1>9. Numbers'
  BY <1>8, NumbersKept DEF IInv
\* Only the request of a fetch that is done now has gone.
<1>10. ASSUME NEW u \in Threads, InBatch(u), ~fetch'[u].done
       PROVE  InBatch(u)'
  <2>1. PICK i \in 1..Len(batch) : batch[i].no = fetch[u].no
    BY <1>10 DEF InBatch
  <2>2. i # 1
    <3> SUFFICES ASSUME i = 1 PROVE FALSE
      OBVIOUS
    <3>1. r.no = fetch[u].no /\ u = r.thread
      BY <2>1, <1>1 DEF IInv, Numbers, Reqs
    <3> QED BY <3>1, <1>3, <1>5, <1>10 DEF t
  <2>3. i - 1 \in 1..Len(batch') /\ batch'[i - 1].no = fetch'[u].no
    BY <1>1, <1>6, <2>1, <2>2
  <2> QED BY <2>3 DEF InBatch
<1>11. Waits'
  <2>1. \A u \in Threads :
           /\ InQueue(u)' <=> InQueue(u)
           /\ Waiting(u)' => Waiting(u)
    BY <1>6 DEF InQueue, Waiting
  <2>2. ASSUME NEW u \in Threads, fetch'[u].at \in {"checking", "asleep"}
        PROVE  ~fetch'[u].done
    <3>1. fetch[u].at = fetch'[u].at /\ ~fetch[u].done
      BY <2>2, <1>6 DEF IInv, Waits
    <3>2. CASE fetch[u].at = "asleep"
      BY <3>1, <3>2, <1>6
    <3>3. CASE fetch[u].at = "checking"
      BY <3>1, <3>3, <1>4, <1>5
    <3> QED BY <2>2, <3>1, <3>2, <3>3
  <2>3. ASSUME NEW u \in Threads, Waiting(u)', ~fetch'[u].done
        PROVE  InQueue(u)' \/ InBatch(u)'
    BY <2>1, <2>3, <1>6, <1>10 DEF IInv, Waits
  <2>4. ASSUME NEW u \in Threads, fetch'[u].at \in {"checking", "asleep"}, stage' = "release"
        PROVE  InBatch(u)'
    <3>1. fetch[u].at = fetch'[u].at
      BY <2>4, <1>6
    <3> QED BY <2>2, <2>4, <3>1, <1>10 DEF IInv, Waits
  <2>5. shutdownFlag' <=> stage' \in {"drain", "release", "down"}
    BY DEF IInv, Waits
  <2>6. stage' # "down"
    OBVIOUS
  <2> QED BY <2>2, <2>3, <2>4, <2>5, <2>6 DEF Waits
<1>12. Owned'
  <2> SUFFICES ASSUME ~shutdownFlag, NEW u \in Threads \ late
               PROVE  /\ fetch'[u].out \in {Nil, fetch'[u].path}
                      /\ Current(u, queue)' /\ Current(u, batch)'
    BY DEF Owned
  <2>1. /\ fetch[u].out \in {Nil, fetch[u].path}
        /\ Current(u, queue) /\ Current(u, batch)
    BY DEF IInv, Owned
  <2>2. CASE u = t
    <3>1. r.no = fetch[u].no
      BY <1>1, <2>1, <2>2 DEF Current, t
    <3>2. \A i \in 1..Len(queue) : queue[i].thread # u
      BY <1>1, <2>1, <3>1 DEF Current, IInv, Numbers
    <3>3. ASSUME NEW i \in 1..Len(batch')
          PROVE  batch'[i].thread # u
      <4> SUFFICES ASSUME batch'[i].thread = u PROVE FALSE
        OBVIOUS
      <4>1. i \in Nat /\ i + 1 \in 1..Len(batch) /\ batch'[i] = batch[i + 1]
        BY <1>1
      <4>2. batch[i + 1].no = batch[1].no
        BY <4>1, <1>1, <2>1, <3>1 DEF Current
      <4>3. i + 1 = 1
        BY <4>1, <4>2, <1>1 DEF IInv, Numbers, Unlike
      <4> QED BY <4>1, <4>3
    <3> QED BY <2>1, <3>2, <3>3, <1>6 DEF Current
  <2>3. CASE u # t
    <3>1. fetch'[u] = fetch[u]
      BY <2>3, <1>5
    <3>2. Current(u, queue)'
      BY <2>1, <3>1 DEF Current, Waiting
    <3>3. Current(u, batch)'
      <4> SUFFICES ASSUME NEW i \in 1..Len(batch'), batch'[i].thread = u
                   PROVE  /\ batch'[i].no = fetch'[u].no
                          /\ Waiting(u)' /\ ~fetch'[u].done
        BY DEF Current
      <4>1. PICK k \in 1..Len(batch) : batch'[i] = batch[k]
        BY <1>1
      <4> QED BY <4>1, <3>1, <2>1 DEF Current, Waiting
    <3> QED BY <2>1, <3>1, <3>2, <3>3
  <2> QED BY <2>2, <2>3
<1> QED BY <1>7, <1>9, <1>11, <1>12 DEF IInv

-----------------------------------------------------------------------------
(* The theorems *)

LEMMA NextIInv == IInv /\ [Next]_vars => IInv'
<1> SUFFICES ASSUME IInv, [Next]_vars PROVE IInv'
  OBVIOUS
<1>1. ASSUME NEW t \in Threads, NEW path \in Paths, Fetch(t, path) PROVE IInv'
  BY <1>1, FetchStep
<1>2. ASSUME NEW t \in Threads, InFetch(t) \/ TimeOut(t) PROVE IInv'
  BY <1>2, PushStep, WaitChecksStep, WaitSleepsStep, ReturnStep, TimeOutStep DEF InFetch
<1>3. ASSUME NEW path \in Paths, MainFetch(path) PROVE IInv'
  BY <1>3, MainFetchStep
<1>4. /\ cache \in SUBSET Paths /\ shutdownFlag \in BOOLEAN
      /\ stage \in {"idle", "drain", "down"} => batch = <<>>
      /\ stage = "answer" => batch # <<>>
      /\ shutdownFlag <=> stage \in {"drain", "release", "down"}
  BY DEF IInv, TypeOK, Waits
<1>5. CASE FlushSwap \/ ShutdownSwap
  BY <1>4, <1>5, SwapStep DEF FlushSwap, ShutdownSwap
<1>6. CASE FlushLoads
  BY <1>6, FlushLoadsStep
<1>7. CASE FlushAnswers \/ ShutdownReleases
  BY <1>4, <1>7, SignalStep DEF FlushAnswers, ShutdownReleases
<1>8. CASE FlushDone \/ ShutdownBegins \/ ShutdownDone
  <2>1. CASE FlushDone
    BY <1>4, <2>1, StageStep DEF FlushDone
  <2>2. CASE ShutdownBegins
    BY <1>4, <2>2, StageStep DEF ShutdownBegins
  <2>3. CASE ShutdownDone
    BY <1>4, <2>3, StageStep DEF ShutdownDone
  <2> QED BY <1>8, <2>1, <2>2, <2>3
<1>9. CASE UNCHANGED vars
  <2>1. UNCHANGED <<fetch, fetches, cache, queue, batch, stage, shutdownFlag, late>>
    BY <1>9 DEF vars, mainVars
  <2>2. stage \in {"idle", "load", "answer", "drain", "release", "down"}
    BY DEF IInv, TypeOK
  <2> QED BY <2>1, <2>2, <1>4, StageStep
<1> QED BY <1>1, <1>2, <1>3, <1>5, <1>6, <1>7, <1>8, <1>9 DEF Next, Flush, Shutdown

LEMMA Inductive == Spec => []IInv
<1> QED BY InitIInv, NextIInv, PTL DEF Spec

\* A request is in one place: there is one index, in the queue or in the batch.
LEMMA OnePlace ==
  ASSUME IInv, NEW t \in Threads, Waiting(t), ~Released(t)
  PROVE  Cardinality({<<"queue", i>> : i \in {i \in DOMAIN queue :
                         queue[i].thread = t /\ queue[i].no = fetch[t].no}}
             \cup {<<"batch", i>> : i \in {i \in DOMAIN batch :
                         batch[i].thread = t /\ batch[i].no = fetch[t].no}}) = 1
<1> DEFINE InQ == {i \in DOMAIN queue : queue[i].thread = t /\ queue[i].no = fetch[t].no}
           InB == {i \in DOMAIN batch : batch[i].thread = t /\ batch[i].no = fetch[t].no}
           Places == {<<"queue", i>> : i \in InQ} \cup {<<"batch", i>> : i \in InB}
<1>1. DOMAIN queue = 1..Len(queue) /\ DOMAIN batch = 1..Len(batch)
  BY DEF IInv, TypeOK
<1>2. /\ \A i \in 1..Len(queue) : i \in InQ <=> queue[i].no = fetch[t].no
      /\ \A i \in 1..Len(batch) : i \in InB <=> batch[i].no = fetch[t].no
      /\ InQ \subseteq 1..Len(queue) /\ InB \subseteq 1..Len(batch)
  BY <1>1 DEF IInv, Numbers, Reqs
<1> HIDE DEF InQ, InB
<1>3. \/ \E i \in 1..Len(queue) : InQ = {i} /\ InB = {}
      \/ \E i \in 1..Len(batch) : InB = {i} /\ InQ = {}
  <2>1. InQueue(t) \/ InBatch(t)
    BY DEF IInv, Waits, Released
  <2>2. /\ \A i, j \in InQ : i = j
        /\ \A i, j \in InB : i = j
        /\ InQ = {} \/ InB = {}
    BY <1>2 DEF IInv, Numbers, Unlike
  <2>3. CASE InQueue(t)
    <3>1. PICK i \in 1..Len(queue) : i \in InQ
      BY <2>3, <1>2 DEF InQueue
    <3>2. InQ = {i} /\ InB = {}
      BY <3>1, <2>2
    <3> QED BY <3>2
  <2>4. CASE InBatch(t)
    <3>1. PICK i \in 1..Len(batch) : i \in InB
      BY <2>4, <1>2 DEF InBatch
    <3>2. InB = {i} /\ InQ = {}
      BY <3>1, <2>2
    <3> QED BY <3>2
  <2> QED BY <2>1, <2>3, <2>4
<1>4. \E p : Places = {p}
  <2>1. ASSUME NEW i \in 1..Len(queue), InQ = {i}, InB = {}
        PROVE  Places = {<<"queue", i>>}
    BY <2>1
  <2>2. ASSUME NEW i \in 1..Len(batch), InB = {i}, InQ = {}
        PROVE  Places = {<<"batch", i>>}
    BY <2>2
  <2> QED BY <1>3, <2>1, <2>2
<1> QED BY <1>4, FS_Singleton DEF InQ, InB

\* The fetches, the cache and the requests keep their shape.
THEOREM TypeCorrect == Spec => []TypeOK
<1>1. IInv => TypeOK
  BY DEF IInv
<1> QED BY <1>1, Inductive, PTL

\* pl_resource_fetch_impl(): whoever waits has its request with flush() or shutdown(), in
\* one place, and nobody sleeps once its answer is in or shutdown() has returned.
THEOREM WaitersKept == Spec => []WaitersAccounted
<1>1. IInv => WaitersAccounted
  <2> SUFFICES ASSUME IInv PROVE WaitersAccounted
    OBVIOUS
  <2>1. TypeOK
    BY DEF IInv
  <2>2. NobodyForgotten
    BY OnePlace DEF NobodyForgotten
  <2>3. NoLostWakeup
    BY DEF IInv, Waits, NoLostWakeup
  <2> QED BY <2>1, <2>2, <2>3 DEF WaitersAccounted
<1> QED BY <1>1, Inductive, PTL

\* flush(): a fetch that succeeds returns what it asked for, on every thread that never
\* timed out.
THEOREM OwnAnswers == Spec => []AnswerInTimeIsOwn
<1>1. IInv => AnswerInTimeIsOwn
  BY DEF IInv, Owned, AnswerInTimeIsOwn, Own, Succeeds
<1> QED BY <1>1, Inductive, PTL
=============================================================================
