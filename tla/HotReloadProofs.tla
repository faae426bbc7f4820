------------------------------ MODULE HotReloadProofs ------------------------------
(***************************************************************************)
(* Proofs about HotReload. First, whatever disturbs the reloads: types,    *)
(* the bookkeeping of jobs, and that a failed job is never applied. That   *)
(* there is a number for every job is a matter of counting: each job comes *)
(* from a reload that was asked for (Counted). Second, reloads that        *)
(* nothing disturbs (Allowed = {}): old code is freed when nobody uses it, *)
(* all instances are swapped, and no handle is lost. CalmInv says of each  *)
(* script who holds which handle at every stage of its one reload.         *)
(***************************************************************************)
EXTENDS HotReload, FiniteSetTheorems, TLAPS

-----------------------------------------------------------------------------
(* Sequences *)

\* What Append() makes.
LEMMA Appended ==
  ASSUME NEW S, NEW s \in Seq(S), NEW e \in S
  PROVE  /\ Append(s, e) \in Seq(S) /\ Len(Append(s, e)) = Len(s) + 1
         /\ \A i \in 1..Len(s) : Append(s, e)[i] = s[i]
         /\ Append(s, e)[Len(s) + 1] = e
OBVIOUS

\* What Head() and Tail() leave.
LEMMA HeadTail ==
  ASSUME NEW S, NEW s \in Seq(S), s # <<>>
  PROVE  /\ Len(s) \in Nat \ {0}
         /\ Tail(s) \in Seq(S) /\ Len(Tail(s)) = Len(s) - 1
         /\ \A i \in 1..Len(s) - 1 : Tail(s)[i] = s[i + 1]
         /\ Head(s) = s[1] /\ Head(s) \in S
OBVIOUS

\* What \o makes.
LEMMA Joined ==
  ASSUME NEW S, NEW s \in Seq(S), NEW t \in Seq(S)
  PROVE  /\ s \o t \in Seq(S) /\ Len(s \o t) = Len(s) + Len(t)
         /\ \A i \in 1..Len(s) : (s \o t)[i] = s[i]
         /\ \A i \in 1..Len(t) : (s \o t)[Len(s) + i] = t[i]
OBVIOUS

-----------------------------------------------------------------------------
(* The inductive invariant *)

Job == [script : Paths \cup {NoScript}, new : Handles \cup {NoHandle},
        old : Handles \cup {NoHandle}, snapshot : Seq(Insts), swapped : Nat,
        failed : BOOLEAN, missed : SUBSET Insts]

StageEntry == [inst : Insts, job : JobIds]

StateTyped ==
    /\ disk \in [Paths -> Sources] /\ text \in [Paths -> Sources]
    /\ compiled \in [Paths -> Handles \cup {NoHandle}]
    /\ loaded \subseteq Paths
    /\ script \in [Insts -> Paths \cup {NoScript}]
    /\ foreign \in [Insts -> Handles \cup {NoHandle}]
    /\ wanted \in Insts \cup {NoInst}
    /\ tasks \in [Paths -> Nat] /\ asked \in 0..MaxReloads
    /\ \A s \in Paths : tasks[s] <= asked
    /\ seen \in [Workers -> 0..Unread]
    /\ main \in {"idle", "adopt", "stage"}

\* A thread in the cache knows what it asks for, and what it stores.
CallsKnow ==
    \A c \in Callers :
        /\ call[c].at # "out" => call[c].key \in Keys /\ call[c].text \in Sources
        /\ call[c].at = "storing" => call[c].handle \in Handles

SeenReturned ==
    \A w \in Workers : seen[w] # Unread => call[w].at = "returned" /\ call[w].handle # NoHandle

CacheGood == CacheTypeOK /\ CallsKnow

\* Every reload asked for is a task, in a worker, a job, or given up.
Tasks == {e \in Paths \X Nat : e[2] \in 1..tasks[e[1]]}
Busy == {w \in Workers : call[w].at # "out"}
Instances == {i \in Insts : script[i] # NoScript}

Counted ==
    /\ IsFiniteSet(Tasks) /\ IsFiniteSet(Busy)
    /\ lastJob \in Nat
    /\ lastJob + Cardinality(Tasks) + Cardinality(Busy) <= asked

\* Jobs are numbered in the order of their making; those queued are not begun.
JobsNumbered ==
    /\ jobs \in [JobIds -> Job] /\ lastJob \in 0..MaxReloads
    /\ active \subseteq 1..lastJob
    /\ pending \in Seq(JobIds) /\ stage \in Seq(StageEntry)
    /\ \A n \in 1..Len(pending) : pending[n] \in 1..lastJob /\ jobs[pending[n]].swapped = 0
    /\ \A m, n \in 1..Len(pending) : pending[m] = pending[n] => m = n
    /\ \A j \in 1..lastJob : jobs[j].script \in Paths
    /\ \A j \in JobIds :
          /\ jobs[j].swapped <= Len(jobs[j].snapshot)
          /\ jobs[j].missed # {} => jobs[j].failed

IInv ==
    /\ StateTyped /\ CacheGood /\ SeenReturned /\ IsFiniteSet(Instances)
    /\ Counted /\ JobsNumbered /\ JobsAccounted

USE CacheAssumption, ReloadAssumption DEF CacheAssumption, ReloadAssumption

LEMMA InitIInv == Init => IInv
<1> SUFFICES ASSUME Init PROVE IInv
  OBVIOUS
<1>1. StateTyped
  BY DEF Init, StateTyped, Unread, NoHandle, Workers
<1>2. CacheGood
  BY DEF Init, CacheInit, CacheGood, CacheTypeOK, EntriesTyped, NoEntries, CallsKnow, Idle,
         Call, NoHandle
<1>3. SeenReturned
  BY DEF Init, SeenReturned
<1>4. Instances = {} /\ Tasks = {} /\ Busy = {}
  BY DEF Init, CacheInit, Idle, Instances, Tasks, Busy, Workers
<1>5. Counted /\ IsFiniteSet(Instances)
  BY <1>4, FS_EmptySet DEF Init, Counted
<1>6. JobsNumbered
  <2>1. NoJob \in Job /\ NoJob.swapped = 0 /\ NoJob.snapshot = <<>> /\ NoJob.missed = {}
    BY DEF NoJob, Job, NoHandle
  <2> QED BY <2>1 DEF Init, JobsNumbered, JobIds
<1>7. JobsAccounted
  BY DEF Init, JobsAccounted, ToSet
<1> QED BY <1>1, <1>2, <1>3, <1>5, <1>6, <1>7 DEF IInv

-----------------------------------------------------------------------------
(* The cache *)

LEMMA AskGood ==
  ASSUME CacheGood, NEW c \in Callers, NEW s \in Paths, NEW t \in Sources, Ask(c, KeyOf(s), t)
  PROVE  CacheGood'
<1>1. KeyOf(s) \in Keys
  BY DEF KeyOf, CacheKey, Keys
<1> DEFINE k == KeyOf(s)
<1> HIDE DEF k
<1>2. call' = [call EXCEPT ![c] = [at |-> "asked", key |-> k, text |-> t, handle |-> NoHandle]]
  BY DEF Ask, k
<1> QED BY <1>1, <1>2 DEF k, Ask, CacheGood, CacheTypeOK, EntriesTyped, CallsKnow, Call

LEMMA LeaveGood ==
  ASSUME CacheGood, NEW c \in Callers, Leave(c), UNCHANGED <<entries, made>>,
         frees' \in [Handles -> Nat]
  PROVE  CacheGood'
BY DEF Leave, Idle, CacheGood, CacheTypeOK, EntriesTyped, CallsKnow, Call

LEMMA FreedTyped ==
  ASSUME frees \in [Handles -> Nat], NEW h
  PROVE  Freed(h) \in [Handles -> Nat]
<1>1. CASE h \in Handles
  <2>1. frees[h] + 1 \in Nat
    BY <1>1
  <2> QED BY <2>1 DEF Freed
<1>2. CASE h \notin Handles
  BY <1>2 DEF Freed
<1> QED BY <1>1, <1>2

LEMMA ReleaseGood ==
  ASSUME CacheGood, NEW k, Release(k), UNCHANGED call
  PROVE  CacheGood'
<1> USE DEF CacheGood, CacheTypeOK
<1>1. EntriesTyped'
  <2>1. CASE ~Known(k)
    BY <2>1 DEF Release, EntriesReleased, EntriesTyped
  <2>2. CASE Known(k) /\ Remaining(k) <= 0
    BY <2>2 DEF Release, EntriesReleased, Erased, EntriesTyped
  <2>3. CASE Known(k) /\ ~(Remaining(k) <= 0)
    <3>1. entries' = [entries EXCEPT ![k].refs = @ - 1] /\ k \in DOMAIN entries
      BY <2>3 DEF Release, EntriesReleased, Known
    <3>2. entries[k].refs \in Nat /\ entries[k].refs - 1 \in Nat
      BY <2>3, <3>1 DEF EntriesTyped, Entry, Remaining
    <3>3. [entries[k] EXCEPT !.refs = @ - 1] \in Entry
      BY <3>1, <3>2 DEF EntriesTyped, Entry
    <3> QED BY <3>1, <3>3 DEF EntriesTyped
  <2> QED BY <2>1, <2>2, <2>3
<1>2. frees' \in [Handles -> Nat]
  BY FreedTyped DEF Release, FreesReleased
<1> QED BY <1>1, <1>2 DEF Release, CallsKnow

\* What a step of a call leaves of it.
CallStepped(c) ==
    /\ call' \in [Callers -> Call]
    /\ call'[c].key = call[c].key /\ call'[c].text = call[c].text
    /\ \A d \in Callers \ {c} : call'[d] = call[d]

LEMMA CallMoved ==
  ASSUME call \in [Callers -> Call], NEW c \in Callers,
         NEW a \in {"asked", "compiling", "storing", "returned"},
         NEW h \in Handles \cup {NoHandle},
         call' = [call EXCEPT ![c].at = a, ![c].handle = h]
  PROVE  CallStepped(c) /\ call'[c].at = a /\ call'[c].handle = h
<1> DEFINE e == [call[c] EXCEPT !.at = a, !.handle = h]
<1>1. /\ e \in Call /\ e.at = a /\ e.handle = h /\ e.key = call[c].key
      /\ e.text = call[c].text
  <2>1. PICK b \in Call : b = call[c]
    OBVIOUS
  <2>2. PICK f : f = [b EXCEPT !.at = a, !.handle = h]
    OBVIOUS
  <2>3. f.at = a /\ f.handle = h /\ f.key = b.key /\ f.text = b.text
    BY <2>2 DEF Call
  <2>4. f \in Call
    BY <2>2 DEF Call
  <2> QED BY <2>1, <2>2, <2>3, <2>4
<1>2. call' = [call EXCEPT ![c] = e]
  OBVIOUS
<1> HIDE DEF e
<1>3. call' \in [Callers -> Call] /\ call'[c] = e /\ \A d \in Callers \ {c} : call'[d] = call[d]
  <2>1. e \in Call
    BY <1>1
  <2> QED BY ONLY call \in [Callers -> Call], c \in Callers, <1>2, <2>1
<1> QED BY <1>1, <1>3 DEF CallStepped

LEMMA InCacheGood ==
  ASSUME CacheGood, NEW c \in Callers, InCache(c)
  PROVE  /\ CacheGood' /\ CallStepped(c)
         /\ call'[c].at # "out" /\ call[c].at \notin {"out", "returned"}
<1> USE DEF CacheGood, CacheTypeOK
<1>1. call[c] \in Call
  OBVIOUS
<1>2. CASE LookupHit(c)
  <2>1. call[c].key \in DOMAIN entries
    BY <1>2 DEF LookupHit, Hit, Known
  <2>2. EntriesTyped' /\ entries[call[c].key].handle \in Handles
    <3>1. [entries[call[c].key] EXCEPT !.refs = @ + 1] \in Entry
      BY <2>1 DEF EntriesTyped, Entry
    <3> QED BY <2>1, <3>1, <1>2 DEF LookupHit, RefTaken, EntriesTyped, Entry
  <2>3. CallStepped(c) /\ call'[c].at = "returned"
    BY <1>2, <2>1, <2>2, CallMoved DEF LookupHit, Return
  <2> QED BY <1>2, <2>2, <2>3 DEF LookupHit, CallsKnow, CallStepped
<1>3. CASE LookupMiss(c)
  <2>1. call[c].at = "asked" /\ call' = [call EXCEPT ![c].at = "compiling"]
        /\ UNCHANGED <<entries, made, frees>>
    BY <1>3 DEF LookupMiss
  <2>2. CallStepped(c) /\ call'[c].at = "compiling"
    BY <1>1, <2>1 DEF CallStepped, Call
  <2> QED BY <2>1, <2>2 DEF CallsKnow, CallStepped, EntriesTyped
<1>4. CASE CompileFails(c)
  <2>1. CallStepped(c) /\ call'[c].at = "returned"
    BY <1>4, CallMoved DEF CompileFails, Return
  <2> QED BY <1>4, <2>1 DEF CompileFails, CallsKnow, CallStepped, EntriesTyped
<1>5. CASE CompileSucceeds(c)
  <2>1. made + 1 \in Handles /\ made + 1 \in 0..MaxHandles
    BY <1>5 DEF CompileSucceeds, Handles
  <2>2. CallStepped(c) /\ call'[c].at = "storing" /\ call'[c].handle = made + 1
    BY <1>5, <2>1, CallMoved DEF CompileSucceeds
  <2> QED BY <1>5, <2>1, <2>2 DEF CompileSucceeds, CallsKnow, CallStepped, EntriesTyped
<1>6. CASE StoreAgrees(c)
  <2>1. call[c].key \in DOMAIN entries
    BY <1>6 DEF StoreAgrees, Hit, Known
  <2>2. EntriesTyped' /\ entries[call[c].key].handle \in Handles
    <3>1. [entries[call[c].key] EXCEPT !.refs = @ + 1] \in Entry
      BY <2>1 DEF EntriesTyped, Entry
    <3> QED BY <2>1, <3>1, <1>6 DEF StoreAgrees, RefTaken, EntriesTyped, Entry
  <2>3. frees' \in [Handles -> Nat]
    BY <1>6, FreedTyped DEF StoreAgrees, LoserFreed
  <2>4. CallStepped(c) /\ call'[c].at = "returned"
    BY <1>6, <2>2, CallMoved DEF StoreAgrees, Return
  <2> QED BY <1>6, <2>2, <2>3, <2>4 DEF StoreAgrees, CallsKnow, CallStepped
<1>7. CASE StoreAnew(c)
  <2> DEFINE k == call[c].key
             e == [handle |-> call[c].handle, hash |-> call[c].text, refs |-> 1]
  <2>1. e \in Entry /\ k \in Keys /\ call[c].handle \in Handles
    BY <1>7 DEF StoreAnew, CallsKnow, Entry
  <2>2. entries' = [j \in DOMAIN entries \cup {k} |-> IF j = k THEN e ELSE entries[j]]
    BY <1>7 DEF StoreAnew, Stored
  <2> HIDE DEF e, k
  <2>3. EntriesTyped'
    BY <2>1, <2>2 DEF EntriesTyped
  <2>4. frees' \in [Handles -> Nat]
    BY <1>7 DEF StoreAnew
  <2>5. CallStepped(c) /\ call'[c].at = "returned"
    BY <1>7, <2>1, CallMoved DEF StoreAnew, Return
  <2> QED BY <1>7, <2>3, <2>4, <2>5 DEF StoreAnew, CallsKnow, CallStepped
<1> QED BY <1>2, <1>3, <1>4, <1>5, <1>6, <1>7 DEF InCache

-----------------------------------------------------------------------------
(* What a step leaves alone *)

LEMMA JobsKept ==
  ASSUME JobsNumbered, JobsAccounted, UNCHANGED jobVars
  PROVE  JobsNumbered' /\ JobsAccounted'
<1>1. UNCHANGED <<jobs, lastJob, pending, active, stage>>
  BY DEF jobVars
<1>2. JobsNumbered'
  BY <1>1 DEF JobsNumbered
<1>3. JobsAccounted'
  BY <1>1 DEF JobsAccounted, StagedFrom
<1> QED BY <1>2, <1>3

LEMMA WorkersKept ==
  ASSUME SeenReturned, seen' = seen, \A w \in Workers : call'[w] = call[w]
  PROVE  SeenReturned' /\ Busy' = Busy
BY DEF SeenReturned, Busy

LEMMA CountKept ==
  ASSUME Counted, tasks' = tasks, asked' = asked, lastJob' = lastJob, Busy' = Busy
  PROVE  Counted'
<1>1. Tasks' = Tasks
  BY DEF Tasks
<1> QED BY <1>1 DEF Counted

LEMMA InstancesKept ==
  ASSUME IsFiniteSet(Instances), script' = script
  PROVE  IsFiniteSet(Instances)'
<1>1. Instances' = Instances
  BY DEF Instances
<1> QED BY <1>1

LEMMA Instantiating ==
  ASSUME IsFiniteSet(Instances), StateTyped, NEW i \in Insts, NEW s \in Paths,
         NEW h \in Handles, Instantiated(i, s, h)
  PROVE  /\ IsFiniteSet(Instances)'
         /\ script' \in [Insts -> Paths \cup {NoScript}]
         /\ foreign' \in [Insts -> Handles \cup {NoHandle}]
<1>1. Instances' = Instances \cup {i}
  BY DEF Instances, Instantiated, StateTyped, NoScript
<1>2. IsFiniteSet(Instances')
  BY <1>1, FS_AddElement
<1> QED BY <1>2 DEF Instantiated, StateTyped

-----------------------------------------------------------------------------
(* Main thread: scripts and instances *)

LEMMA MainWorker == Main \notin Workers /\ Main \in Callers /\ Workers \subseteq Callers
BY DEF Workers

LEMMA CompileStep ==
  ASSUME IInv, NEW s \in Paths, NEW i \in Insts \cup {NoInst}, Compile(s, i)
  PROVE  IInv'
<1> USE DEF IInv
<1>1. CacheGood'
  BY AskGood, MainWorker DEF Compile, StateTyped
<1>2. \A w \in Workers : call'[w] = call[w]
  BY MainWorker DEF Compile, Ask
<1>3. StateTyped'
  BY DEF Compile, StateTyped, scriptVars, workVars
<1> QED BY <1>1, <1>2, <1>3, JobsKept, WorkersKept, CountKept, InstancesKept
        DEF Compile, workVars, jobVars

LEMMA CompileReturnsStep ==
  ASSUME IInv, CompileReturns
  PROVE  IInv'
<1> USE DEF IInv
<1> DEFINE s == call[Main].key[1]
           h == call[Main].handle
           handle == IF h = NoHandle THEN compiled[s] ELSE h
<1>1. s \in Paths /\ h \in Handles \cup {NoHandle}
  BY MainWorker DEF CompileReturns, CacheGood, CallsKnow, CacheTypeOK, Keys, Call
<1>2. handle \in Handles \cup {NoHandle}
  BY <1>1 DEF StateTyped
<1>3. /\ compiled' = [compiled EXCEPT ![s] = handle]
      /\ Leave(Main) /\ wanted' = NoInst
      /\ \/ wanted # NoInst /\ handle # NoHandle /\ Instantiated(wanted, s, handle)
         \/ UNCHANGED <<script, foreign>>
      /\ UNCHANGED <<entries, made, frees, disk, text, loaded, workVars, jobVars, main>>
  BY DEF CompileReturns
<1> HIDE DEF s, h, handle
<1>4. CacheGood'
  BY <1>3, LeaveGood, MainWorker DEF CacheGood, CacheTypeOK
<1>5. \A w \in Workers : call'[w] = call[w]
  BY <1>3, MainWorker DEF Leave
<1>6. /\ IsFiniteSet(Instances)'
      /\ script' \in [Insts -> Paths \cup {NoScript}]
      /\ foreign' \in [Insts -> Handles \cup {NoHandle}]
  <2>1. CASE UNCHANGED <<script, foreign>>
    BY <2>1, InstancesKept DEF StateTyped
  <2>2. CASE wanted # NoInst /\ handle # NoHandle /\ Instantiated(wanted, s, handle)
    <3>1. wanted \in Insts /\ handle \in Handles
      BY <1>2, <2>2 DEF StateTyped
    <3> QED BY <1>1, <2>2, <3>1, Instantiating
  <2> QED BY <1>3, <2>1, <2>2
<1>7. StateTyped'
  BY <1>1, <1>2, <1>3, <1>6 DEF StateTyped, workVars
<1> QED BY <1>3, <1>4, <1>5, <1>6, <1>7, JobsKept, WorkersKept, CountKept
        DEF workVars, jobVars

LEMMA InstanceStep ==
  ASSUME IInv,
         \/ \E s \in Paths, i \in Insts : CreateInstance(s, i)
         \/ \E i \in Insts : FreeInstance(i)
  PROVE  IInv'
<1> USE DEF IInv
<1>1. ASSUME NEW s \in Paths, NEW i \in Insts, CreateInstance(s, i)
      PROVE  /\ IsFiniteSet(Instances)' /\ StateTyped'
  <2>1. compiled[s] \in Handles
    BY <1>1 DEF CreateInstance, StateTyped
  <2> QED BY <1>1, <2>1, Instantiating DEF CreateInstance, StateTyped, scriptVars, workVars
<1>2. ASSUME NEW i \in Insts, FreeInstance(i)
      PROVE  /\ IsFiniteSet(Instances)' /\ StateTyped'
  <2>1. Instances' = Instances \ {i}
    BY <1>2 DEF FreeInstance, Instances, StateTyped
  <2>2. IsFiniteSet(Instances')
    BY <2>1, FS_RemoveElement
  <2>3. StateTyped'
    BY <1>2 DEF FreeInstance, StateTyped, scriptVars, workVars
  <2> QED BY <2>2, <2>3
<1>3. UNCHANGED cacheVars /\ UNCHANGED workVars /\ UNCHANGED jobVars
  BY DEF CreateInstance, FreeInstance
<1>4. CacheGood' /\ UNCHANGED <<call, seen, tasks, asked, lastJob>>
  BY <1>3 DEF cacheVars, workVars, jobVars, CacheGood, CacheTypeOK, EntriesTyped, CallsKnow
<1> QED BY <1>1, <1>2, <1>3, <1>4, JobsKept, WorkersKept, CountKept

LEMMA FreeScriptStep ==
  ASSUME IInv, NEW s \in Paths, FreeScript(s)
  PROVE  IInv'
<1> USE DEF IInv
<1>1. CacheGood'
  <2>1. CASE compiled[s] = NoHandle
    BY <2>1 DEF FreeScript, CacheGood, CacheTypeOK, EntriesTyped, CallsKnow
  <2>2. CASE compiled[s] # NoHandle
    BY <2>2, ReleaseGood DEF FreeScript
  <2> QED BY <2>1, <2>2
<1>2. StateTyped'
  BY DEF FreeScript, StateTyped, instVars, workVars
<1>3. UNCHANGED <<call, seen, tasks, asked, lastJob, script>> /\ UNCHANGED jobVars
  BY DEF FreeScript, instVars, workVars, jobVars
<1> QED BY <1>1, <1>2, <1>3, JobsKept, WorkersKept, CountKept, InstancesKept

\* One more task.
LEMMA ReloadStep ==
  ASSUME IInv, NEW s \in Paths, Reload(s)
  PROVE  IInv'
<1> USE DEF IInv
<1>1. /\ tasks' = [tasks EXCEPT ![s] = @ + 1] /\ asked' = asked + 1 /\ asked < MaxReloads
      /\ tasks \in [Paths -> Nat] /\ asked \in 0..MaxReloads
      /\ UNCHANGED <<call, seen, script, lastJob>> /\ UNCHANGED jobVars
  BY DEF Reload, cacheVars, instVars, jobVars, StateTyped
<1>2. CacheGood'
  BY DEF Reload, cacheVars, CacheGood, CacheTypeOK, EntriesTyped, CallsKnow
<1>3. StateTyped'
  <2>1. asked' \in 0..MaxReloads /\ tasks' \in [Paths -> Nat]
    BY <1>1
  <2> QED BY <2>1 DEF Reload, StateTyped, instVars
<1>4. SeenReturned' /\ Busy' = Busy
  BY <1>1, WorkersKept
<1>5. Counted'
  <2> DEFINE e == <<s, tasks[s] + 1>>
  <2>1. Tasks' = Tasks \cup {e} /\ e \notin Tasks
    BY <1>1 DEF Tasks
  <2>2. /\ IsFiniteSet(Tasks') /\ Cardinality(Tasks') = Cardinality(Tasks) + 1
        /\ Cardinality(Tasks) \in Nat /\ Cardinality(Busy) \in Nat
    BY <2>1, FS_AddElement, FS_CardinalityType DEF Counted
  <2> QED BY <1>1, <1>4, <2>2 DEF Counted
<1> QED BY <1>1, <1>2, <1>3, <1>4, <1>5, JobsKept, InstancesKept

-----------------------------------------------------------------------------
(* Workers *)

\* One task less, and at most one worker more.
LEMMA WorkerStartsStep ==
  ASSUME IInv, NEW w \in Workers, NEW s \in Paths, WorkerStarts(w, s)
  PROVE  IInv'
<1> USE DEF IInv
<1>1. /\ tasks' = [tasks EXCEPT ![s] = @ - 1] /\ tasks[s] > 0 /\ call[w].at = "out"
      /\ tasks \in [Paths -> Nat] /\ asked \in 0..MaxReloads /\ w \in Callers
      /\ UNCHANGED <<seen, script, lastJob, asked>> /\ UNCHANGED jobVars
  BY MainWorker DEF WorkerStarts, instVars, jobVars, StateTyped
<1>2. Ask(w, KeyOf(s), disk[s]) \/ UNCHANGED cacheVars
  BY DEF WorkerStarts
<1>3. CacheGood' /\ \A d \in Callers \ {w} : call'[d] = call[d]
  <2>1. CASE Ask(w, KeyOf(s), disk[s])
    <3>1. disk[s] \in Sources
      BY DEF StateTyped
    <3>2. CacheGood'
      BY <1>1, <2>1, <3>1, AskGood
    <3>3. \A d \in Callers \ {w} : call'[d] = call[d]
      BY <1>1, <2>1 DEF Ask, CacheGood, CacheTypeOK
    <3> QED BY <3>2, <3>3
  <2>2. CASE UNCHANGED cacheVars
    BY <2>2 DEF cacheVars, CacheGood, CacheTypeOK, EntriesTyped, CallsKnow
  <2> QED BY <1>2, <2>1, <2>2
<1>4. StateTyped'
  <2>1. tasks' \in [Paths -> Nat]
    BY <1>1
  <2> QED BY <2>1 DEF WorkerStarts, StateTyped, scriptVars, instVars
<1>5. SeenReturned'
  BY <1>1, <1>3, MainWorker DEF SeenReturned
<1>6. Counted'
  <2> DEFINE e == <<s, tasks[s]>>
  <2>1. Tasks' = Tasks \ {e} /\ e \in Tasks
    BY <1>1 DEF Tasks
  <2>2. /\ IsFiniteSet(Tasks') /\ Cardinality(Tasks') = Cardinality(Tasks) - 1
        /\ Cardinality(Tasks) \in Nat /\ Cardinality(Busy) \in Nat
    BY <2>1, FS_RemoveElement, FS_CardinalityType DEF Counted
  <2>3. Busy' \in {Busy, Busy \cup {w}} /\ w \notin Busy
    BY <1>1, <1>2, <1>3, MainWorker DEF Busy, cacheVars
  <2>4. /\ IsFiniteSet(Busy') /\ Cardinality(Busy') <= Cardinality(Busy) + 1
        /\ Cardinality(Busy') \in Nat
    <3>1. IsFiniteSet(Busy) /\ Cardinality(Busy) <= Cardinality(Busy) + 1
      BY <2>2 DEF Counted
    <3>2. CASE Busy' = Busy
      BY <2>2, <3>1, <3>2
    <3>3. CASE Busy' = Busy \cup {w}
      <4>1. /\ IsFiniteSet(Busy \cup {w})
            /\ Cardinality(Busy \cup {w}) = Cardinality(Busy) + 1
        BY <2>3, <3>1, FS_AddElement
      <4> QED BY <2>2, <3>3, <4>1
    <3> QED BY <2>3, <3>2, <3>3
  <2> QED BY <1>1, <2>2, <2>4 DEF Counted
<1> QED BY <1>1, <1>3, <1>4, <1>5, <1>6, JobsKept, InstancesKept

\* A worker leaves.
LEMMA WorkerLeaves ==
  ASSUME Counted, NEW w \in Workers, call[w].at # "out", call \in [Callers -> Call], Leave(w)
  PROVE  /\ IsFiniteSet(Busy') /\ Cardinality(Busy') = Cardinality(Busy) - 1
         /\ Cardinality(Busy) \in Nat /\ Cardinality(Busy') \in Nat
         /\ Cardinality(Tasks) \in Nat
         /\ call'[w].at = "out" /\ \A d \in Callers \ {w} : call'[d] = call[d]
<1>1. Busy' = Busy \ {w} /\ w \in Busy
  BY MainWorker DEF Busy, Leave, Idle
<1>2. call'[w].at = "out" /\ \A d \in Callers \ {w} : call'[d] = call[d]
  BY MainWorker DEF Leave, Idle
<1> QED BY <1>1, <1>2, FS_RemoveElement, FS_CardinalityType DEF Counted

LEMMA CompileFailedStep ==
  ASSUME IInv, NEW w \in Workers, CompileFailed(w)
  PROVE  IInv'
<1> USE DEF IInv
<1>1. /\ call[w].at = "returned" /\ call[w].handle = NoHandle /\ Leave(w) /\ w \in Callers
      /\ UNCHANGED <<seen, tasks, script, lastJob, asked>> /\ UNCHANGED jobVars
  BY MainWorker DEF CompileFailed, instVars, workVars, jobVars
<1>2. CacheGood'
  BY <1>1, LeaveGood DEF CompileFailed, CacheGood, CacheTypeOK
<1>3. StateTyped'
  BY DEF CompileFailed, StateTyped, scriptVars, instVars, workVars
<1>4. /\ IsFiniteSet(Busy') /\ Cardinality(Busy') = Cardinality(Busy) - 1
      /\ Cardinality(Busy) \in Nat /\ Cardinality(Busy') \in Nat
      /\ Cardinality(Tasks) \in Nat
      /\ call'[w].at = "out" /\ \A d \in Callers \ {w} : call'[d] = call[d]
  BY <1>1, WorkerLeaves DEF CacheGood, CacheTypeOK
<1>5. SeenReturned'
  BY <1>1, <1>4, MainWorker DEF SeenReturned
<1>6. Counted'
  <2>1. Tasks' = Tasks
    BY <1>1 DEF Tasks
  <2> QED BY <1>1, <1>4, <2>1 DEF Counted, StateTyped
<1> QED BY <1>1, <1>2, <1>3, <1>5, <1>6, JobsKept, InstancesKept

LEMMA ReadOldStep ==
  ASSUME IInv, NEW w \in Workers, ReadOld(w)
  PROVE  IInv'
<1> USE DEF IInv
<1>1. /\ call[w].at = "returned" /\ call[w].handle # NoHandle /\ w \in Callers
      /\ seen' = [seen EXCEPT ![w] = compiled[call[w].key[1]]]
      /\ UNCHANGED <<call, tasks, script, lastJob, asked>> /\ UNCHANGED jobVars
  BY MainWorker DEF ReadOld, cacheVars, instVars, jobVars
<1>2. compiled[call[w].key[1]] \in 0..Unread
  <2>1. call[w].key[1] \in Paths
    BY <1>1 DEF CacheGood, CallsKnow, Keys
  <2>2. compiled[call[w].key[1]] \in Handles \cup {NoHandle}
    BY <2>1 DEF StateTyped
  <2> QED BY <2>2 DEF Handles, NoHandle, Unread
<1>3. CacheGood'
  BY DEF ReadOld, cacheVars, CacheGood, CacheTypeOK, EntriesTyped, CallsKnow
<1>4. StateTyped'
  BY <1>1, <1>2 DEF ReadOld, StateTyped, scriptVars, instVars
<1>5. SeenReturned' /\ Busy' = Busy
  BY <1>1 DEF SeenReturned, StateTyped, Busy
<1> QED BY <1>1, <1>3, <1>4, <1>5, JobsKept, CountKept, InstancesKept

LEMMA InCacheStep ==
  ASSUME IInv, NEW c \in Callers, InCacheOnly(c)
  PROVE  IInv'
<1> USE DEF IInv
<1>1. InCache(c) /\ UNCHANGED <<seen, tasks, script, lastJob, asked>> /\ UNCHANGED jobVars
  BY DEF InCacheOnly, workVars, instVars, jobVars
<1>2. /\ CacheGood' /\ CallStepped(c)
      /\ call'[c].at # "out" /\ call[c].at \notin {"out", "returned"}
  BY <1>1, InCacheGood
<1>3. StateTyped'
  BY DEF InCacheOnly, StateTyped, scriptVars, instVars, workVars
<1>4. SeenReturned' /\ Busy' = Busy
  BY <1>1, <1>2, MainWorker DEF SeenReturned, Busy, CallStepped
<1> QED BY <1>1, <1>2, <1>3, <1>4, JobsKept, CountKept, InstancesKept

\* The instances of a script in some order.
LEMMA Snapshot ==
  ASSUME IsFiniteSet(Instances), NEW s \in Paths, NEW order \in SetToSeqs(InstancesOf(s))
  PROVE  /\ order \in Seq(Insts) /\ Len(order) = Cardinality(InstancesOf(s))
         /\ Len(order) \in Nat /\ \A n \in 1..Len(order) : order[n] \in InstancesOf(s)
         /\ \A m, n \in 1..Len(order) : order[m] = order[n] => m = n
<1>1. InstancesOf(s) \subseteq Instances
  BY DEF InstancesOf, Instances, NoScript
<1>2. Cardinality(InstancesOf(s)) \in Nat
  BY <1>1, FS_Subset, FS_CardinalityType
<1> DEFINE N == Cardinality(InstancesOf(s))
<1>3. order \in [1..N -> InstancesOf(s)] /\ \A m, n \in 1..N : m # n => order[m] # order[n]
  BY DEF SetToSeqs
<1>4. InstancesOf(s) \subseteq Insts
  BY DEF InstancesOf
<1> HIDE DEF N
<1>5. N \in Nat
  BY <1>2 DEF N
<1>6. order \in Seq(Insts) /\ Len(order) = N
  BY <1>3, <1>4, <1>5
<1> QED BY <1>3, <1>5, <1>6 DEF N

LEMMA QueueJobStep ==
  ASSUME IInv, NEW w \in Workers, QueueJob(w)
  PROVE  IInv'
<1> USE DEF IInv
<1> DEFINE s == call[w].key[1]
           l == lastJob + 1
<1>1. call[w].at = "returned" /\ call[w].handle # NoHandle /\ w \in Callers
  BY MainWorker DEF QueueJob, SeenReturned
<1>2. PICK order \in SetToSeqs(InstancesOf(s)) :
          jobs' = [jobs EXCEPT ![l] =
                      [script |-> s, new |-> call[w].handle, old |-> seen[w],
                       snapshot |-> order, swapped |-> 0, failed |-> FALSE, missed |-> {}]]
  BY DEF QueueJob
<1> DEFINE e == [script |-> s, new |-> call[w].handle, old |-> seen[w],
                 snapshot |-> order, swapped |-> 0, failed |-> FALSE, missed |-> {}]
<1>3. /\ seen[w] # Unread /\ lastJob' = l /\ pending' = Append(pending, l) /\ Leave(w)
      /\ seen' = [seen EXCEPT ![w] = Unread]
      /\ UNCHANGED <<tasks, script, asked, active, stage>>
  BY DEF QueueJob, instVars
<1>4. s \in Paths /\ call[w].handle \in Handles /\ seen[w] \in Handles \cup {NoHandle}
  BY <1>1, <1>3 DEF CacheGood, CallsKnow, CacheTypeOK, Call, Keys, StateTyped, Unread,
                    Handles, NoHandle
<1>5. /\ e \in Job /\ e.swapped = 0 /\ e.missed = {} /\ e.snapshot = order
      /\ Len(order) \in Nat
  BY <1>4, Snapshot DEF Job
<1>6. jobs' = [jobs EXCEPT ![l] = e]
  BY <1>2
<1> HIDE DEF s, e
<1>7. /\ IsFiniteSet(Busy') /\ Cardinality(Busy') = Cardinality(Busy) - 1
      /\ Cardinality(Busy) \in Nat /\ Cardinality(Busy') \in Nat
      /\ Cardinality(Tasks) \in Nat
      /\ call'[w].at = "out" /\ \A d \in Callers \ {w} : call'[d] = call[d]
  BY <1>1, <1>3, WorkerLeaves DEF CacheGood, CacheTypeOK
<1>8. CacheGood'
  BY <1>1, <1>3, LeaveGood DEF QueueJob, CacheGood, CacheTypeOK
<1>9. StateTyped'
  <2>1. seen' \in [Workers -> 0..Unread]
    BY <1>3 DEF StateTyped, Unread
  <2> QED BY <2>1 DEF QueueJob, StateTyped, scriptVars, instVars
<1>10. SeenReturned'
  BY <1>3, <1>7, MainWorker DEF SeenReturned, StateTyped
<1>11. Counted'
  <2>1. Tasks' = Tasks
    BY <1>3 DEF Tasks
  <2> QED BY <1>3, <1>7, <2>1 DEF Counted
<1>12. l \in JobIds /\ l \in 0..MaxReloads /\ lastJob \in Nat
  BY <1>7 DEF Counted, StateTyped, JobIds
<1>13. jobs' \in [JobIds -> Job] /\ jobs'[l] = e
       /\ \A j \in JobIds : j # l => jobs'[j] = jobs[j]
  BY <1>5, <1>6, <1>12 DEF JobsNumbered
<1> HIDE DEF l
<1>14. /\ pending' \in Seq(JobIds) /\ Len(pending') = Len(pending) + 1
       /\ Len(pending) \in Nat
       /\ \A n \in 1..Len(pending) : pending'[n] = pending[n] /\ pending[n] \in JobIds
       /\ pending'[Len(pending) + 1] = l
  BY <1>3, <1>12, Appended DEF JobsNumbered
<1>15. /\ \A j \in 1..lastJob : j \in 1..l /\ j # l
       /\ l \in 1..l
  BY <1>12 DEF l
<1>16. JobsNumbered'
  <2>1. \A n \in 1..Len(pending') : pending'[n] \in 1..lastJob' /\ jobs'[pending'[n]].swapped = 0
    BY <1>3, <1>5, <1>13, <1>14, <1>15 DEF JobsNumbered
  <2>2. \A m, n \in 1..Len(pending') : pending'[m] = pending'[n] => m = n
    <3>1. \A n \in 1..Len(pending) : pending[n] # l
      BY <1>15 DEF JobsNumbered
    <3>2. \A m, n \in 1..Len(pending) : pending[m] = pending[n] => m = n
      BY DEF JobsNumbered
    <3> QED BY <1>14, <3>1, <3>2
  <2>3. \A j \in JobIds : /\ jobs'[j].swapped <= Len(jobs'[j].snapshot)
                          /\ jobs'[j].missed # {} => jobs'[j].failed
    <3> SUFFICES ASSUME NEW j \in JobIds
                 PROVE  /\ jobs'[j].swapped <= Len(jobs'[j].snapshot)
                        /\ jobs'[j].missed # {} => jobs'[j].failed
      OBVIOUS
    <3>1. CASE j = l
      BY <1>5, <1>13, <3>1
    <3>2. CASE j # l
      BY <1>13, <3>2 DEF JobsNumbered
    <3> QED BY <3>1, <3>2
  <2>4. active' \subseteq 1..lastJob'
    BY <1>3, <1>15 DEF JobsNumbered
  <2>5. \A j \in 1..lastJob' : jobs'[j].script \in Paths
    <3>1. \A j \in 1..l : j = l \/ j \in 1..lastJob
      BY <1>12 DEF l
    <3>2. e.script \in Paths
      BY <1>4 DEF e
    <3> SUFFICES ASSUME NEW j \in 1..l PROVE jobs'[j].script \in Paths
      BY <1>3
    <3>3. CASE j = l
      BY <1>13, <3>2, <3>3
    <3>4. CASE j \in 1..lastJob
      <4>1. jobs[j].script \in Paths /\ j \in JobIds /\ j # l
        BY <1>15, <3>4 DEF JobsNumbered, JobIds
      <4> QED BY <1>13, <4>1
    <3> QED BY <3>1, <3>3, <3>4
  <2> QED BY <1>3, <1>12, <1>13, <1>14, <2>1, <2>2, <2>3, <2>4, <2>5 DEF JobsNumbered
<1>17. JobsAccounted'
  <2>1. \A j \in active : j # l /\ j \in JobIds
    BY <1>15 DEF JobsNumbered, JobIds
  <2>2. active' \cap ToSet(pending') = {}
    BY <1>3, <1>14, <2>1 DEF JobsAccounted, ToSet
  <2>3. \A j \in active : \A first : StagedFrom(j, first)' <=> StagedFrom(j, first)
    <3> SUFFICES ASSUME NEW j \in active, NEW first
                 PROVE  StagedFrom(j, first)' <=> StagedFrom(j, first)
      OBVIOUS
    <3>1. jobs'[j] = jobs[j]
      BY <1>13, <2>1
    <3> QED BY <1>3, <3>1 DEF StagedFrom
  <2> QED BY <1>3, <2>2, <2>3 DEF JobsAccounted
<1> QED BY <1>3, <1>8, <1>9, <1>10, <1>11, <1>16, <1>17, InstancesKept

-----------------------------------------------------------------------------
(* flush_frame() *)

LEMMA HandOver ==
  ASSUME IInv, NEW j \in JobIds, jobs[j].script \in Paths
  PROVE  /\ OldFreed(j) \in [Handles -> Nat]
         /\ Applied(j) \in [Paths -> Handles \cup {NoHandle}]
<1>1. jobs[j].new \in Handles \cup {NoHandle}
  BY DEF IInv, JobsNumbered, Job
<1>2. frees \in [Handles -> Nat] /\ compiled \in [Paths -> Handles \cup {NoHandle}]
  BY DEF IInv, CacheGood, CacheTypeOK, StateTyped
<1> QED BY <1>1, <1>2, FreedTyped DEF OldFreed, Applied

\* What adopting a job stages.
Entries(j) == [n \in DOMAIN jobs[j].snapshot |-> [inst |-> jobs[j].snapshot[n], job |-> j]]

LEMMA StagedEntries ==
  ASSUME JobsNumbered, NEW j \in JobIds
  PROVE  /\ Entries(j) \in Seq(StageEntry)
         /\ Len(Entries(j)) = Len(jobs[j].snapshot)
         /\ Len(jobs[j].snapshot) \in Nat
         /\ \A n \in 1..Len(jobs[j].snapshot) :
                Entries(j)[n].job = j /\ Entries(j)[n].inst = jobs[j].snapshot[n]
<1>1. jobs[j].snapshot \in Seq(Insts)
  BY DEF JobsNumbered, Job
<1> DEFINE q == jobs[j].snapshot
<1>2. q \in Seq(Insts) /\ Len(q) \in Nat /\ DOMAIN q = 1..Len(q)
  BY <1>1
<1>3. \A n \in 1..Len(q) : [inst |-> q[n], job |-> j] \in StageEntry
  BY <1>2 DEF StageEntry
<1>4. Entries(j) = [n \in 1..Len(q) |-> [inst |-> q[n], job |-> j]]
  BY <1>2 DEF Entries
<1> HIDE DEF q
<1> QED BY <1>2, <1>3, <1>4 DEF q

\* A queued job joins the active ones behind everything staged before.
LEMMA Adopting ==
  ASSUME JobsNumbered, JobsAccounted, pending # <<>>, Entries(Head(pending)) # <<>>,
         pending' = Tail(pending), active' = active \cup {Head(pending)},
         stage' = stage \o Entries(Head(pending)), UNCHANGED <<jobs, lastJob>>
  PROVE  JobsNumbered' /\ JobsAccounted'
<1>a. PICK j : j = Head(pending)
  OBVIOUS
<1>b. PICK E : E = Entries(j)
  OBVIOUS
<1>c. PICK L : L = Len(stage)
  OBVIOUS
<1>d. PICK N : N = Len(jobs[j].snapshot)
  OBVIOUS
<1>1. /\ Len(pending) \in Nat \ {0} /\ j = pending[1] /\ j \in JobIds
      /\ pending' \in Seq(JobIds) /\ Len(pending') = Len(pending) - 1
      /\ \A n \in 1..Len(pending') : pending'[n] = pending[n + 1]
  <2>1. pending \in Seq(JobIds)
    BY DEF JobsNumbered
  <2> QED BY <1>a, <2>1, HeadTail
<1>2. j \in 1..lastJob /\ jobs[j].swapped = 0
  BY <1>1 DEF JobsNumbered
<1>3. j \notin active
  <2>1. j \in ToSet(pending)
    <3>1. pending \in Seq(JobIds)
      BY DEF JobsNumbered
    <3>2. DOMAIN pending = 1..Len(pending)
      BY <3>1
    <3>3. 1 \in 1..Len(pending)
      BY <1>1
    <3> QED BY <1>1, <3>2, <3>3 DEF ToSet
  <2> QED BY <2>1 DEF JobsAccounted
<1>4. /\ E \in Seq(StageEntry) /\ Len(E) = N /\ N \in Nat
      /\ \A n \in 1..N : E[n].job = j /\ E[n].inst = jobs[j].snapshot[n]
  BY <1>1, <1>b, <1>d, StagedEntries
<1>5. N > 0 /\ stage' = stage \o E /\ active' = active \cup {j}
  BY <1>4, <1>a, <1>b
<1>6. stage \in Seq(StageEntry) /\ L \in Nat
  BY <1>c DEF JobsNumbered
<1>7. /\ stage' \in Seq(StageEntry) /\ Len(stage') = L + N
      /\ \A n \in 1..L : stage'[n] = stage[n]
      /\ \A n \in 1..N : stage'[L + n] = E[n]
  <2>1. /\ stage \o E \in Seq(StageEntry) /\ Len(stage \o E) = Len(stage) + Len(E)
        /\ \A n \in 1..Len(stage) : (stage \o E)[n] = stage[n]
        /\ \A n \in 1..Len(E) : (stage \o E)[Len(stage) + n] = E[n]
    <3>1. stage \in Seq(StageEntry) /\ E \in Seq(StageEntry)
      BY <1>4, <1>6
    <3> QED BY ONLY <3>1, Joined
  <2> QED BY <1>4, <1>5, <1>c, <2>1
<1>8. \A n \in 1..L + N : n \in 1..L \/ (n - L \in 1..N /\ n = L + (n - L))
  BY <1>4, <1>6
<1>9. /\ \A n \in 1..L : stage'[n].job \in active /\ stage'[n] = stage[n]
      /\ \A n \in L + 1..L + N : stage'[n].job = j
      /\ DOMAIN stage' = 1..L + N /\ DOMAIN stage = 1..L
  <2>1. \A n \in 1..L : stage'[n].job \in active /\ stage'[n] = stage[n]
    BY <1>6, <1>7, <1>c DEF JobsAccounted
  <2>2. \A n \in L + 1..L + N : n - L \in 1..N /\ n = L + (n - L)
    BY <1>4, <1>6
  <2>3. ASSUME NEW n \in L + 1..L + N PROVE stage'[n].job = j
    <3>1. PICK k \in 1..N : n = L + k
      BY <2>2
    <3> QED BY <1>4, <1>7, <3>1
  <2> QED BY <1>4, <1>6, <1>7, <1>c, <2>1, <2>3
<1>10. \E first \in DOMAIN stage' : StagedFrom(j, first)'
  <2>1. {n \in DOMAIN stage' : stage'[n].job = j} = (L + 1)..((L + 1) + N - 1)
    <3>1. (L + 1) + N - 1 = L + N /\ \A n \in 1..L + N : n \in 1..L \/ n \in L + 1..L + N
      BY <1>4, <1>6
    <3>2. L + 1..L + N \subseteq 1..L + N
      BY <1>4, <1>6
    <3>3. \A n \in 1..L : stage'[n].job # j
      BY <1>3, <1>9
    <3>4. \A n \in 1..L + N : stage'[n].job = j <=> n \in L + 1..L + N
      BY <1>9, <3>1, <3>3
    <3> QED BY <1>9, <3>1, <3>2, <3>4
  <2>2. \A n \in 1..N : stage'[(L + 1) + n - 1].inst = jobs[j].snapshot[0 + n]
    <3> SUFFICES ASSUME NEW n \in 1..N
                 PROVE  stage'[(L + 1) + n - 1].inst = jobs[j].snapshot[0 + n]
      OBVIOUS
    <3>1. (L + 1) + n - 1 = L + n /\ 0 + n = n
      BY <1>4, <1>6
    <3>2. stage'[L + n].inst = jobs[j].snapshot[n]
      BY <1>4, <1>7
    <3> QED BY <3>1, <3>2
  <2>3. jobs'[j] = jobs[j] /\ N - 0 = N
    BY <1>4
  <2>4. L + 1 \in DOMAIN stage'
    BY <1>4, <1>5, <1>6, <1>9
  <2>5. StagedFrom(j, L + 1)'
    BY <1>2, <1>5, <1>d, <2>1, <2>2, <2>3 DEF StagedFrom
  <2> QED BY <2>4, <2>5
<1>11. ASSUME NEW i \in active
       PROVE  \E first \in DOMAIN stage' : StagedFrom(i, first)'
  <2>1. PICK first \in DOMAIN stage : StagedFrom(i, first)
    BY DEF JobsAccounted
  <2>2. i # j
    BY <1>3
  <2>3. {n \in DOMAIN stage' : stage'[n].job = i} = {n \in DOMAIN stage : stage[n].job = i}
    <3>1. 1..L \subseteq 1..L + N /\ \A n \in 1..L + N : n \in 1..L \/ n \in L + 1..L + N
      BY <1>4, <1>6
    <3>2. \A n \in L + 1..L + N : stage'[n].job # i
      BY <1>9, <2>2
    <3>3. \A n \in DOMAIN stage' : stage'[n].job = i => n \in DOMAIN stage
      BY <1>9, <3>1, <3>2
    <3>4. \A n \in DOMAIN stage : n \in DOMAIN stage' /\ stage'[n].job = stage[n].job
      BY <1>9, <3>1
    <3> QED BY <3>3, <3>4
  <2> DEFINE left == Len(jobs[i].snapshot) - jobs[i].swapped
  <2>4. left \in Int
    <3>1. i \in JobIds
      BY <1>1, <1>2 DEF JobsNumbered, JobIds
    <3> QED BY <3>1 DEF JobsNumbered, Job
  <2>5. \A n \in 1..left : first + n - 1 \in DOMAIN stage
    <3>1. \A n \in 1..left : first + n - 1 \in first..first + left - 1
      BY <1>6, <1>9, <2>1, <2>4
    <3> QED BY <2>1, <3>1 DEF StagedFrom
  <2>6. StagedFrom(i, first)'
    <3>1. \A n \in 1..left : stage'[first + n - 1] = stage[first + n - 1]
      BY <1>9, <2>5
    <3> HIDE DEF left
    <3> QED BY <2>1, <2>3, <3>1 DEF StagedFrom, left
  <2> QED BY <1>4, <1>6, <1>9, <2>6
<1>12. JobsNumbered'
  <2>1. \A n \in 1..Len(pending') : n + 1 \in 1..Len(pending)
    BY <1>1
  <2>2. \A n \in 1..Len(pending') : pending'[n] \in 1..lastJob /\ jobs[pending'[n]].swapped = 0
    BY <1>1, <2>1 DEF JobsNumbered
  <2>3. \A m, n \in 1..Len(pending') : pending'[m] = pending'[n] => m = n
    <3>1. \A m, n \in 1..Len(pending) : pending[m] = pending[n] => m = n
      BY DEF JobsNumbered
    <3> TAKE m, n \in 1..Len(pending')
    <3>2. pending[m + 1] = pending[n + 1] => m + 1 = n + 1
      BY <2>1, <3>1
    <3> QED BY <1>1, <3>2
  <2>4. active' \subseteq 1..lastJob
    BY <1>2, <1>5 DEF JobsNumbered
  <2>5. UNCHANGED <<jobs, lastJob>> /\ pending' \in Seq(JobIds) /\ stage' \in Seq(StageEntry)
    BY <1>1, <1>7
  <2> QED BY <2>2, <2>3, <2>4, <2>5 DEF JobsNumbered
<1>13. JobsAccounted'
  <2>1. \A n \in DOMAIN stage' : stage'[n].job \in active'
    BY <1>4, <1>5, <1>6, <1>9
  <2>2. ASSUME NEW n \in 1..Len(pending') PROVE pending'[n] \notin active'
    <3>1. n + 1 \in 1..Len(pending) /\ n + 1 # 1 /\ 1 \in 1..Len(pending)
      BY <1>1
    <3>2. pending[n + 1] # j
      BY <1>1, <3>1 DEF JobsNumbered
    <3>3. pending[n + 1] \notin active
      BY <3>1 DEF JobsAccounted, ToSet, JobsNumbered
    <3> QED BY <1>1, <1>5, <3>2, <3>3
  <2>3. active' \cap ToSet(pending') = {}
    BY <1>1, <2>2 DEF ToSet
  <2> QED BY <1>5, <1>10, <1>11, <2>1, <2>3 DEF JobsAccounted
<1> QED BY <1>12, <1>13

LEMMA AdoptStep ==
  ASSUME IInv, Adopt
  PROVE  IInv'
<1> USE DEF IInv
<1> DEFINE j == Head(pending)
<1>1. /\ pending # <<>> /\ pending' = Tail(pending)
      /\ IF Entries(j) = <<>>
         THEN compiled' = Applied(j) /\ frees' = OldFreed(j) /\ UNCHANGED <<active, stage>>
         ELSE /\ active' = active \cup {j} /\ stage' = stage \o Entries(j)
              /\ UNCHANGED <<compiled, frees>>
      /\ UNCHANGED <<entries, call, made, seen, tasks, asked, script, jobs, lastJob>>
  BY DEF Adopt, Entries, instVars, workVars
<1>2. /\ Len(pending) \in Nat \ {0} /\ j = pending[1] /\ j \in JobIds
      /\ pending' \in Seq(JobIds) /\ Len(pending') = Len(pending) - 1
      /\ \A n \in 1..Len(pending') : pending'[n] = pending[n + 1]
  BY <1>1, HeadTail DEF JobsNumbered
<1>3. jobs[j].script \in Paths
  BY <1>2 DEF JobsNumbered
<1>4. /\ compiled' \in [Paths -> Handles \cup {NoHandle}]
      /\ frees' \in [Handles -> Nat]
  BY <1>1, <1>2, <1>3, HandOver DEF StateTyped, CacheGood, CacheTypeOK
<1>5. StateTyped'
  BY <1>4 DEF Adopt, StateTyped, instVars, workVars
<1>6. CacheGood'
  BY <1>1, <1>4 DEF CacheGood, CacheTypeOK, EntriesTyped, CallsKnow
<1>7. SeenReturned' /\ Busy' = Busy
  BY <1>1 DEF SeenReturned, Busy
<1>8. JobsNumbered' /\ JobsAccounted'
  <2>1. CASE Entries(j) # <<>>
    BY <1>1, <2>1, Adopting
  <2>2. CASE Entries(j) = <<>>
    <3>1. UNCHANGED <<active, stage, jobs, lastJob>>
      BY <1>1, <2>2
    <3>2. \A n \in 1..Len(pending') : n + 1 \in 1..Len(pending)
      BY <1>2
    <3>3. \A n \in 1..Len(pending') : pending'[n] \in 1..lastJob /\ jobs[pending'[n]].swapped = 0
      <4>1. \A n \in 1..Len(pending) : pending[n] \in 1..lastJob /\ jobs[pending[n]].swapped = 0
        BY DEF JobsNumbered
      <4> HIDE DEF j
      <4> QED BY <1>2, <3>2, <4>1
    <3>4. \A m, n \in 1..Len(pending') : pending'[m] = pending'[n] => m = n
      <4>1. \A m, n \in 1..Len(pending) : pending[m] = pending[n] => m = n
        BY DEF JobsNumbered
      <4> TAKE m, n \in 1..Len(pending')
      <4>2. pending[m + 1] = pending[n + 1] => m + 1 = n + 1
        BY <3>2, <4>1
      <4> QED BY <1>2, <4>2
    <3>5. JobsNumbered'
      BY <1>2, <3>1, <3>3, <3>4 DEF JobsNumbered
    <3>6. active \cap ToSet(pending') = {}
      BY <1>2, <3>2 DEF JobsAccounted, ToSet
    <3> QED BY <3>1, <3>5, <3>6 DEF JobsAccounted, StagedFrom
  <2> QED BY <2>1, <2>2
<1> QED BY <1>1, <1>5, <1>6, <1>7, <1>8, CountKept, InstancesKept

\* A step of the swap: the head of the stage queue is the first that is left of its job.
LEMMA Swapping ==
  ASSUME JobsNumbered, JobsAccounted, NEW ok \in BOOLEAN, Stage(ok)
  PROVE  /\ JobsNumbered' /\ JobsAccounted'
         /\ Head(stage).job \in active /\ Head(stage).inst \in Insts
         /\ \A j \in active \ active' :
                jobs'[j].missed # {} => AnyFailed(jobs[j].failed, ok) /\ j = Head(stage).job
         /\ \A j : j = Head(stage).job =>
                /\ jobs[j].swapped + 1 <= Len(jobs[j].snapshot)
                /\ Head(stage).inst = jobs[j].snapshot[jobs[j].swapped + 1]
<1>a. PICK j : j = Head(stage).job
  OBVIOUS
<1>b. PICK i : i = Head(stage).inst
  OBVIOUS
<1>c. PICK L : L = Len(stage)
  OBVIOUS
<1>1. /\ L \in Nat \ {0} /\ stage' \in Seq(StageEntry) /\ Len(stage') = L - 1
      /\ \A n \in 1..L - 1 : stage'[n] = stage[n + 1]
      /\ Head(stage) = stage[1] /\ Head(stage) \in StageEntry
      /\ DOMAIN stage = 1..L /\ DOMAIN stage' = 1..L - 1
  <2>1. stage \in Seq(StageEntry) /\ stage # <<>> /\ stage' = Tail(stage)
    BY DEF JobsNumbered, Stage
  <2>2. DOMAIN stage = 1..Len(stage) /\ DOMAIN Tail(stage) = 1..Len(Tail(stage))
    BY <2>1, HeadTail
  <2> QED BY <1>c, <2>1, <2>2, HeadTail
<1>2. i \in Insts /\ j \in JobIds /\ j \in active /\ stage[1].job = j /\ stage[1].inst = i
  BY <1>1, <1>a, <1>b DEF StageEntry, JobsAccounted
<1>3. PICK J \in Job : J = jobs[j]
  BY <1>2 DEF JobsNumbered
<1>4. PICK N : N = Len(J.snapshot)
  OBVIOUS
<1>5. /\ N \in Nat /\ J.swapped \in Nat /\ J.swapped <= N /\ J.snapshot \in Seq(Insts)
      /\ J.missed \subseteq Insts /\ J.failed \in BOOLEAN
  BY <1>2, <1>3, <1>4 DEF Job, JobsNumbered
<1>6. /\ StagedFrom(j, 1) /\ N - J.swapped > 0
      /\ {n \in 1..L : stage[n].job = j} = 1..N - J.swapped
      /\ \A n \in 1..N - J.swapped : stage[n].inst = J.snapshot[J.swapped + n]
  <2>1. PICK first \in 1..L : StagedFrom(j, first)
    BY <1>1, <1>2 DEF JobsAccounted
  <2>2. first = 1
    <3>1. 1 \in first..first + (N - J.swapped) - 1
      BY <1>1, <1>2, <1>3, <1>4, <2>1 DEF StagedFrom
    <3> QED BY <1>1, <1>5, <2>1, <3>1
  <2>3. \A n : 1 + n - 1 = n \/ n \notin Int
    OBVIOUS
  <2>4. \A n \in 1..N - J.swapped : stage[n].inst = J.snapshot[J.swapped + n]
    <3> SUFFICES ASSUME NEW n \in 1..N - J.swapped
                 PROVE  stage[n].inst = J.snapshot[J.swapped + n]
      OBVIOUS
    <3>1. stage[1 + n - 1].inst = J.snapshot[J.swapped + n]
      BY <1>3, <1>4, <2>1, <2>2 DEF StagedFrom
    <3> QED BY <1>5, <3>1
  <2>5. 1 + (N - J.swapped) - 1 = N - J.swapped
    BY <1>5
  <2> QED BY <1>1, <1>3, <1>4, <2>1, <2>2, <2>4, <2>5 DEF StagedFrom
<1>7. PICK K : /\ K \in Job /\ K.swapped = J.swapped + 1 /\ K.snapshot = J.snapshot
               /\ K.script = J.script
               /\ K.failed = AnyFailed(J.failed, ok)
               /\ K.missed = IF ok THEN J.missed ELSE J.missed \cup {i}
               /\ jobs' = [jobs EXCEPT ![j] = K]
  <2>1. PICK b \in BOOLEAN : b = AnyFailed(J.failed, ok)
    BY <1>5 DEF AnyFailed
  <2>2. PICK m \in SUBSET Insts : m = IF ok THEN J.missed ELSE J.missed \cup {i}
    BY <1>2, <1>5
  <2>3. PICK d \in Nat : d = J.swapped + 1
    BY <1>5
  <2> DEFINE K == [J EXCEPT !.swapped = d, !.failed = b, !.missed = m]
  <2>4. jobs' = [jobs EXCEPT ![j] = K]
    BY <1>3, <1>a, <1>b, <2>1, <2>2, <2>3 DEF Stage
  <2>5. /\ K \in Job /\ K.swapped = d /\ K.snapshot = J.snapshot /\ K.script = J.script
        /\ K.failed = b /\ K.missed = m
    BY <1>3 DEF Job
  <2> HIDE DEF K
  <2> QED BY <2>1, <2>2, <2>3, <2>4, <2>5
<1>8. /\ jobs' \in [JobIds -> Job] /\ jobs'[j] = K
      /\ \A k \in JobIds : k # j => jobs'[k] = jobs[k]
  BY <1>2, <1>7 DEF JobsNumbered
<1>9. /\ active' = IF J.swapped + 1 >= N THEN active \ {j} ELSE active
      /\ UNCHANGED <<lastJob, pending>>
  BY <1>3, <1>4, <1>a DEF Stage, IsLast
<1>10. active \subseteq JobIds
  BY DEF JobsNumbered, JobIds
<1>11. K.missed # {} => K.failed
  BY <1>2, <1>3, <1>7 DEF JobsNumbered, AnyFailed
<1>12. JobsNumbered'
  <2>1. \A n \in 1..Len(pending') : pending'[n] \in 1..lastJob' /\ jobs'[pending'[n]].swapped = 0
    <3> SUFFICES ASSUME NEW n \in 1..Len(pending)
                 PROVE  pending[n] \in 1..lastJob /\ jobs'[pending[n]].swapped = 0
      BY <1>9
    <3>1. /\ pending[n] \in 1..lastJob /\ pending[n] \in JobIds
          /\ jobs[pending[n]].swapped = 0 /\ pending[n] # j
      BY <1>2 DEF JobsNumbered, JobsAccounted, ToSet, JobIds
    <3> QED BY <1>8, <3>1
  <2>2. \A m, n \in 1..Len(pending') : pending'[m] = pending'[n] => m = n
    BY <1>9 DEF JobsNumbered
  <2>3. \A k \in 1..lastJob' : jobs'[k].script \in Paths
    <3> SUFFICES ASSUME NEW k \in 1..lastJob PROVE jobs'[k].script \in Paths
      BY <1>9
    <3>1. k \in JobIds /\ jobs[k].script \in Paths
      BY DEF JobsNumbered, JobIds
    <3> QED BY <1>3, <1>7, <1>8, <3>1
  <2>4. ASSUME NEW k \in JobIds
        PROVE  /\ jobs'[k].swapped <= Len(jobs'[k].snapshot)
               /\ jobs'[k].missed # {} => jobs'[k].failed
    <3>1. CASE k = j
      <4>1. jobs'[k] = K /\ K.swapped = J.swapped + 1 /\ Len(K.snapshot) = N
        BY <1>4, <1>7, <1>8, <3>1
      <4>2. J.swapped + 1 <= N
        BY <1>5, <1>6
      <4> QED BY <1>11, <4>1, <4>2
    <3>2. CASE k # j
      BY <1>8, <3>2 DEF JobsNumbered
    <3> QED BY <3>1, <3>2
  <2>5. active' \subseteq 1..lastJob' /\ pending' \in Seq(JobIds) /\ lastJob' \in 0..MaxReloads
    BY <1>9 DEF JobsNumbered
  <2> QED BY <1>1, <1>8, <2>1, <2>2, <2>3, <2>4, <2>5 DEF JobsNumbered
<1>13. ASSUME NEW k \in active, k # j
       PROVE  \E first \in DOMAIN stage' : StagedFrom(k, first)'
  <2>1. PICK f \in 1..L : StagedFrom(k, f)
    BY <1>1 DEF JobsAccounted
  <2>2. PICK left : left = Len(jobs[k].snapshot) - jobs[k].swapped
    OBVIOUS
  <2>3. left \in Int /\ left > 0
    <3>1. jobs[k].swapped \in Nat /\ jobs[k].snapshot \in Seq(Insts)
      BY <1>10 DEF JobsNumbered, Job
    <3> QED BY <2>1, <2>2, <3>1 DEF StagedFrom
  <2>4. {n \in 1..L : stage[n].job = k} = f..f + left - 1
    BY <1>1, <2>1, <2>2 DEF StagedFrom
  <2>5. f # 1
    <3>1. f \in f..f + left - 1
      BY <2>3
    <3> QED BY <1>2, <1>13, <2>4, <3>1
  <2>6. f - 1 \in 1..L - 1
    BY <1>1, <2>5
  <2>7. {n \in 1..L - 1 : stage'[n].job = k} = (f - 1)..(f - 1) + left - 1
    <3>1. \A n \in 1..L - 1 : n + 1 \in 1..L /\ stage'[n] = stage[n + 1]
      BY <1>1
    <3>2. \A n \in 1..L - 1 : stage'[n].job = k <=> n + 1 \in f..f + left - 1
      BY <2>4, <3>1
    <3>3. f..f + left - 1 \subseteq 1..L
      BY <2>4
    <3>4. \A n \in (f - 1)..(f - 1) + left - 1 : n + 1 \in f..f + left - 1 /\ n \in Int
      BY <2>3
    <3>5. \A n \in (f - 1)..(f - 1) + left - 1 : n \in 1..L - 1
      BY <1>1, <2>5, <3>3, <3>4
    <3>6. \A n \in 1..L - 1 :
              n + 1 \in f..f + left - 1 => n \in (f - 1)..(f - 1) + left - 1
      BY <1>1, <2>3
    <3> QED BY <3>2, <3>4, <3>5, <3>6
  <2>8. \A n \in 1..left :
            stage'[(f - 1) + n - 1].inst = jobs[k].snapshot[jobs[k].swapped + n]
    <3> SUFFICES ASSUME NEW n \in 1..left
                 PROVE  stage'[(f - 1) + n - 1].inst = jobs[k].snapshot[jobs[k].swapped + n]
      OBVIOUS
    <3>1. stage[f + n - 1].inst = jobs[k].snapshot[jobs[k].swapped + n]
      BY <2>1, <2>2 DEF StagedFrom
    <3>2. (f - 1) + n - 1 \in (f - 1)..(f - 1) + left - 1
      BY <2>3
    <3>3. (f - 1) + n - 1 \in 1..L - 1
      BY <2>7, <3>2
    <3>4. stage'[(f - 1) + n - 1] = stage[((f - 1) + n - 1) + 1]
      BY <1>1, <3>3
    <3>5. ((f - 1) + n - 1) + 1 = f + n - 1
      BY <2>3
    <3> QED BY <3>1, <3>4, <3>5
  <2>9. jobs'[k] = jobs[k]
    BY <1>8, <1>10, <1>13
  <2>10. StagedFrom(k, f - 1)'
    BY <1>1, <2>2, <2>3, <2>7, <2>8, <2>9 DEF StagedFrom
  <2> QED BY <1>1, <2>6, <2>10
<1>14. J.swapped + 1 <= N /\ i = J.snapshot[J.swapped + 1]
  <2>1. 1 \in 1..N - J.swapped
    BY <1>5, <1>6
  <2> QED BY <1>2, <1>5, <1>6, <2>1
<1>15. CASE J.swapped + 1 >= N
  <2>1. N - J.swapped = 1 /\ active' = active \ {j}
    BY <1>5, <1>6, <1>9, <1>15
  <2>2. ASSUME NEW n \in 1..L - 1 PROVE stage'[n].job \in active'
    <3>1. n + 1 \in 1..L /\ n + 1 \notin 1..1
      BY <1>1
    <3>2. stage[n + 1].job # j
      BY <1>6, <2>1, <3>1
    <3> QED BY <1>1, <2>1, <3>1, <3>2 DEF JobsAccounted
  <2>3. active' \cap ToSet(pending') = {}
    BY <1>9, <2>1 DEF JobsAccounted, ToSet
  <2>4. JobsAccounted'
    BY <1>1, <1>13, <2>1, <2>2, <2>3 DEF JobsAccounted
  <2>5. \A k \in active \ active' :
            jobs'[k].missed # {} => AnyFailed(jobs[k].failed, ok) /\ k = j
    BY <1>3, <1>7, <1>8, <1>11, <2>1
  <2> QED BY <1>2, <1>3, <1>4, <1>12, <1>14, <1>a, <1>b, <2>1, <2>4, <2>5
<1>16. CASE ~(J.swapped + 1 >= N)
  <2>1. active' = active /\ N - J.swapped > 1 /\ N - (J.swapped + 1) = N - J.swapped - 1
    BY <1>5, <1>9, <1>16
  <2>2. \A n \in 1..L - 1 : n + 1 \in 1..L /\ stage'[n] = stage[n + 1]
    BY <1>1
  <2>3. \A n \in 1..L - 1 : stage'[n].job \in active'
    BY <1>1, <2>1, <2>2 DEF JobsAccounted
  <2>4. active' \cap ToSet(pending') = {}
    BY <1>9, <2>1 DEF JobsAccounted, ToSet
  <2>5. {n \in 1..L - 1 : stage'[n].job = j} = 1..N - J.swapped - 1
    <3>1. \A n \in 1..L - 1 : stage'[n].job = j <=> n + 1 \in 1..N - J.swapped
      BY <1>6, <2>2
    <3>2. 1..N - J.swapped \subseteq 1..L
      BY <1>6
    <3>3. \A n \in 1..N - J.swapped - 1 : n + 1 \in 1..N - J.swapped
      BY <1>5
    <3>4. ASSUME NEW n \in 1..N - J.swapped - 1 PROVE n \in 1..L - 1
      <4>1. n \in Nat /\ n > 0 /\ n + 1 \in 1..L
        BY <1>5, <3>2, <3>3
      <4> QED BY <1>1, <4>1
    <3>5. \A n \in 1..L - 1 : n + 1 \in 1..N - J.swapped => n \in 1..N - J.swapped - 1
      BY <1>1, <1>5
    <3> QED BY <3>1, <3>3, <3>4, <3>5
  <2>6. \A n \in 1..N - J.swapped - 1 :
            stage'[1 + n - 1].inst = J.snapshot[J.swapped + 1 + n]
    <3> SUFFICES ASSUME NEW n \in 1..N - J.swapped - 1
                 PROVE  stage'[1 + n - 1].inst = J.snapshot[J.swapped + 1 + n]
      OBVIOUS
    <3>1. n + 1 \in 1..N - J.swapped /\ 1 + n - 1 = n /\ J.swapped + 1 + n = J.swapped + (n + 1)
      BY <1>5
    <3>2. n \in 1..L - 1
      BY <2>5
    <3>3. stage'[n] = stage[n + 1]
      BY <2>2, <3>2
    <3>4. stage[n + 1].inst = J.snapshot[J.swapped + (n + 1)]
      BY <1>6, <3>1
    <3> QED BY <3>1, <3>3, <3>4
  <2>7. StagedFrom(j, 1)' /\ 1 \in DOMAIN stage'
    <3>1. 1 \in 1..N - J.swapped - 1
      BY <1>5, <2>1
    <3>2. 1 \in 1..L - 1
      BY <2>5, <3>1
    <3>3. 1..1 + (N - (J.swapped + 1)) - 1 = 1..N - J.swapped - 1
      BY <1>5
    <3>4. jobs'[j].swapped = J.swapped + 1 /\ Len(jobs'[j].snapshot) = N
          /\ jobs'[j].snapshot = J.snapshot
      BY <1>4, <1>7, <1>8
    <3>5. N - (J.swapped + 1) > 0
      BY <1>5, <2>1
    <3> QED BY <1>1, <2>1, <2>5, <2>6, <3>2, <3>3, <3>4, <3>5 DEF StagedFrom
  <2>8. JobsAccounted'
    BY <1>1, <1>13, <2>1, <2>3, <2>4, <2>7 DEF JobsAccounted
  <2> QED BY <1>2, <1>3, <1>4, <1>12, <1>14, <1>a, <1>b, <2>1, <2>8
<1> QED BY <1>15, <1>16

LEMMA StageStep ==
  ASSUME IInv, NEW ok \in BOOLEAN, Stage(ok)
  PROVE  IInv'
<1> USE DEF IInv
<1>a. PICK j : j = Head(stage).job
  OBVIOUS
<1>b. PICK i : i = Head(stage).inst
  OBVIOUS
<1>1. JobsNumbered' /\ JobsAccounted' /\ j \in active /\ i \in Insts
  BY <1>a, <1>b, Swapping
<1>2. j \in JobIds /\ jobs[j].script \in Paths /\ jobs[j].new \in Handles \cup {NoHandle}
  BY <1>1 DEF JobsNumbered, JobIds, Job
<1>3. /\ UNCHANGED <<call, disk, text, loaded, script, wanted, main>>
      /\ UNCHANGED <<tasks, asked, seen, lastJob, pending>>
      /\ foreign' \in {foreign, [foreign EXCEPT ![i] = jobs[j].new]}
      /\ \/ Release(KeyOf(jobs[j].script)) /\ UNCHANGED compiled
         \/ compiled' = Applied(j) /\ frees' = OldFreed(j) /\ UNCHANGED <<entries, made>>
         \/ UNCHANGED <<entries, made, frees, compiled>>
  BY <1>a, <1>b DEF Stage, workVars
<1>4. compiled' \in [Paths -> Handles \cup {NoHandle}]
  BY <1>2, <1>3, HandOver DEF StateTyped
<1>5. foreign' \in [Insts -> Handles \cup {NoHandle}]
  BY <1>1, <1>2, <1>3 DEF StateTyped
<1>6. CacheGood'
  <2>1. CASE Release(KeyOf(jobs[j].script))
    BY <1>3, <2>1, ReleaseGood
  <2>2. CASE compiled' = Applied(j) /\ frees' = OldFreed(j) /\ UNCHANGED <<entries, made>>
    <3>1. frees' \in [Handles -> Nat]
      BY <1>2, <2>2, HandOver
    <3> QED BY <1>3, <2>2, <3>1 DEF CacheGood, CacheTypeOK, EntriesTyped, CallsKnow
  <2>3. CASE UNCHANGED <<entries, made, frees, compiled>>
    BY <1>3, <2>3 DEF CacheGood, CacheTypeOK, EntriesTyped, CallsKnow
  <2> QED BY <1>3, <2>1, <2>2, <2>3
<1>7. StateTyped'
  BY <1>3, <1>4, <1>5 DEF StateTyped
<1>8. SeenReturned' /\ Busy' = Busy
  BY <1>3 DEF SeenReturned, Busy
<1> QED BY <1>1, <1>3, <1>6, <1>7, <1>8, CountKept, InstancesKept

\* Saving a file, and the turns of a frame.
LEMMA TurnStep ==
  ASSUME IInv, (\E s \in Paths : Save(s)) \/ FlushBegins \/ AdoptEnds \/ FlushEnds
  PROVE  IInv'
<1> USE DEF IInv
<1>1. /\ UNCHANGED <<text, compiled, loaded>> /\ UNCHANGED <<script, foreign, wanted>>
      /\ UNCHANGED <<tasks, asked, seen>> /\ UNCHANGED jobVars /\ UNCHANGED <<entries, made, frees>>
      /\ UNCHANGED <<call, lastJob>>
  BY DEF Save, FlushBegins, AdoptEnds, FlushEnds, cacheVars, scriptVars, instVars, workVars,
         jobVars
<1>2. disk' \in [Paths -> Sources] /\ main' \in {"idle", "adopt", "stage"}
  <2>1. CASE \E s \in Paths : Save(s)
    BY <2>1 DEF StateTyped, Save
  <2>2. CASE FlushBegins \/ AdoptEnds \/ FlushEnds
    BY <2>2 DEF StateTyped, FlushBegins, AdoptEnds, FlushEnds, scriptVars
  <2> QED BY <2>1, <2>2
<1>3. StateTyped' /\ CacheGood'
  BY <1>1, <1>2 DEF StateTyped, CacheGood, CacheTypeOK, EntriesTyped, CallsKnow
<1>4. SeenReturned' /\ Busy' = Busy
  BY <1>1 DEF SeenReturned, Busy
<1> QED BY <1>1, <1>3, <1>4, JobsKept, CountKept, InstancesKept

LEMMA NextIInv == IInv /\ [Next]_vars => IInv'
<1> SUFFICES ASSUME IInv, [Next]_vars PROVE IInv'
  OBVIOUS
<1>1. CASE UNCHANGED vars
  <2>1. /\ UNCHANGED <<entries, call, made, frees, disk, text, compiled, loaded>>
        /\ UNCHANGED <<script, foreign, wanted, tasks, asked, seen, main, lastJob>>
        /\ UNCHANGED jobVars
    BY <1>1 DEF vars, cacheVars, scriptVars, instVars, workVars, jobVars
  <2>2. StateTyped' /\ CacheGood'
    BY <2>1 DEF IInv, StateTyped, CacheGood, CacheTypeOK, EntriesTyped, CallsKnow
  <2>3. SeenReturned' /\ Busy' = Busy
    BY <2>1 DEF IInv, SeenReturned, Busy
  <2> QED BY <2>1, <2>2, <2>3, JobsKept, CountKept, InstancesKept DEF IInv
<1>2. CASE MainNext
  BY <1>2, CompileStep, CompileReturnsStep, InstanceStep, FreeScriptStep, ReloadStep, AdoptStep,
     StageStep, TurnStep DEF MainNext
<1>3. ASSUME NEW w \in Workers, WorkerNext(w) PROVE IInv'
  BY <1>3, WorkerStartsStep, CompileFailedStep, ReadOldStep, QueueJobStep DEF WorkerNext
<1>4. CASE \E s \in Paths : Save(s)
  BY <1>4, TurnStep
<1>5. ASSUME NEW c \in Callers, InCacheOnly(c) PROVE IInv'
  BY <1>5, InCacheStep
<1> QED BY <1>1, <1>2, <1>3, <1>4, <1>5 DEF Next

THEOREM Invariance == Spec => []IInv
BY InitIInv, NextIInv, PTL DEF Spec

LEMMA IInvTypeOK == IInv => TypeOK
<1> SUFFICES ASSUME IInv PROVE TypeOK
  OBVIOUS
<1>1. tasks \in [Paths -> 0..MaxReloads]
  BY DEF IInv, StateTyped
<1>2. ASSUME NEW j \in JobIds
      PROVE  /\ jobs[j].script \in Paths \cup {NoScript}
             /\ jobs[j].new \in Handles \cup {NoHandle}
             /\ jobs[j].old \in Handles \cup {NoHandle}
             /\ jobs[j].swapped \in 0..Len(jobs[j].snapshot)
             /\ jobs[j].missed \subseteq Insts
  <2>1. jobs[j] \in Job /\ jobs[j].swapped <= Len(jobs[j].snapshot)
    BY DEF IInv, JobsNumbered
  <2>2. Len(jobs[j].snapshot) \in Nat
    BY <2>1 DEF Job
  <2> QED BY <2>1, <2>2 DEF Job
<1>3. active \subseteq JobIds
  BY DEF IInv, JobsNumbered, JobIds
<1> QED BY <1>1, <1>2, <1>3
        DEF IInv, StateTyped, CacheGood, JobsNumbered, StageEntry, TypeOK

\* Types of the reload, whatever disturbs it: there is a job number for every reload.
THEOREM TypeCorrect == Spec => []TypeOK
BY Invariance, IInvTypeOK, PTL

\* Whatever disturbs it, for any number of scripts, instances, workers and reloads, what is
\* left to swap of a job is in the stage queue in the order of its snapshot, without a gap
\* and without an end too many, and nothing there refers to a job deleted or still queued.
THEOREM JobsWellKept == Spec => []JobsAccounted
<1>1. IInv => JobsAccounted
  BY DEF IInv
<1> QED BY <1>1, Invariance, PTL

\* Whatever disturbs it, a job one of whose instances could not be made never becomes the
\* script's code: the failure is remembered until the last instance, and the step that ends
\* the job then leaves compiled_handle_ alone.
THEOREM FailedRolledBack == Spec => FailedNeverApplied
<1> DEFINE A == \A j \in active \ active' : jobs'[j].missed # {} => compiled' = compiled
<1>1. ASSUME IInv, [Next]_vars PROVE [A]_vars
  <2> SUFFICES ASSUME NEW j \in active \ active', jobs'[j].missed # {}
               PROVE  compiled' = compiled
    OBVIOUS
  <2>1. PICK ok \in BOOLEAN : Stage(ok)
    BY <1>1 DEF Next, MainNext, WorkerNext, Save, InCacheOnly, Compile, CompileReturns,
                CreateInstance, FreeInstance, FreeScript, Reload, WorkerStarts, CompileFailed,
                ReadOld, QueueJob, FlushBegins, Adopt, AdoptEnds, FlushEnds, vars, jobVars
  <2>2. AnyFailed(jobs[j].failed, ok) /\ j = Head(stage).job
    BY <1>1, <2>1, Swapping DEF IInv
  <2>3. active' = active \/ IsLast(jobs[j].swapped + 1, Len(jobs[j].snapshot))
    BY <2>1, <2>2 DEF Stage
  <2> QED BY <2>1, <2>2, <2>3 DEF Stage
<1> QED BY <1>1, Invariance, PTL DEF Spec, FailedNeverApplied

-----------------------------------------------------------------------------
(* Undisturbed reloads (Allowed = {}). A script then has one task, or one thread that
   compiles it, or one job, and never two of them (OneAtATime). From that follow a line of
   custody for the handles of each script, and where its instances are. *)

Asks(c, s) == call[c].at # "out" /\ call[c].key[1] = s
Live == active \cup ToSet(pending)
JobsOf(s) == {j \in Live : jobs[j].script = s}

OneAtATime(s) ==
    /\ tasks[s] \in {0, 1}
    /\ \A c \in Callers : Asks(c, s) =>
           tasks[s] = 0 /\ JobsOf(s) = {} /\ \A d \in Callers : Asks(d, s) => d = c
    /\ \A j \in JobsOf(s) : tasks[s] = 0 /\ JobsOf(s) = {j}

\* Whoever has not had the cache's answer will find nothing there.
Missing(s) ==
    /\ tasks[s] > 0 => ~Hit(KeyOf(s), disk[s])
    /\ \A c \in Callers : Asks(c, s) =>
           /\ call[c].key = KeyOf(s)
           /\ call[c].at # "returned" => ~Hit(KeyOf(s), call[c].text)
    /\ Asks(Main, s) => compiled[s] = NoHandle

\* h has been compiled for s and is not its handle yet.
HasNew(s, h) ==
    \/ \E c \in Callers : Asks(c, s) /\ call[c].at = "returned" /\ call[c].handle = h
    \/ \E j \in JobsOf(s) : jobs[j].new = h
Cached(s, h) == Known(KeyOf(s)) /\ entries[KeyOf(s)].handle = h
Stores(s, h) == \E c \in Callers : Asks(c, s) /\ call[c].at = "storing" /\ call[c].handle = h

\* The cache has the new handle of a script, or else the handle the script has.
CacheRight(s) ==
    /\ Known(KeyOf(s)) => entries[KeyOf(s)].refs = 1
    /\ \A h \in Handles : HasNew(s, h) => Cached(s, h) /\ compiled[s] # h
    /\ (\A h \in Handles : ~HasNew(s, h)) =>
           IF compiled[s] = NoHandle THEN ~Known(KeyOf(s)) ELSE Cached(s, compiled[s])

\* A reload replaces the handle that the script has.
OldRight(s) ==
    /\ \A w \in Workers : Asks(w, s) /\ seen[w] # Unread => seen[w] = compiled[s]
    /\ \A j \in JobsOf(s) : jobs[j].old = compiled[s] /\ jobs[j].new # NoHandle
                            /\ ~jobs[j].failed

\* A job has every instance of its script in its snapshot, once.
SnapshotRight(s) ==
    \A j \in JobsOf(s) :
        /\ {jobs[j].snapshot[n] : n \in 1..Len(jobs[j].snapshot)} = InstancesOf(s)
        /\ \A m, n \in 1..Len(jobs[j].snapshot) :
               jobs[j].snapshot[m] = jobs[j].snapshot[n] => m = n

\* An instance runs its script's handle, or the new one once it has been swapped.
Swapped(j, i) == \E n \in 1..jobs[j].swapped : jobs[j].snapshot[n] = i
InstancesRight(s) ==
    \A i \in InstancesOf(s) :
        /\ compiled[s] # NoHandle
        /\ \A j \in JobsOf(s) : foreign[i] = IF Swapped(j, i) THEN jobs[j].new ELSE compiled[s]
        /\ JobsOf(s) = {} => foreign[i] = compiled[s]

ScriptRight(s) ==
    /\ OneAtATime(s) /\ Missing(s) /\ CacheRight(s) /\ OldRight(s) /\ SnapshotRight(s)
    /\ InstancesRight(s)

\* A handle that has not been freed is held for exactly one script.
Holds(s, h) == compiled[s] = h \/ Cached(s, h) \/ Stores(s, h)
HandlesRight ==
    \A h \in Handles :
        /\ frees[h] <= 1
        /\ h > made => frees[h] = 0
        /\ h <= made /\ frees[h] = 0 => \E s \in Paths : Holds(s, h)
        /\ \A s \in Paths : Holds(s, h) => h <= made /\ frees[h] = 0
        /\ \A s, t \in Paths : Holds(s, h) /\ Holds(t, h) => s = t
        /\ \A s \in Paths : Stores(s, h) => compiled[s] # h /\ ~Cached(s, h)

Keyed == \A k \in DOMAIN entries : \E s \in Paths : k = KeyOf(s)

\* The main thread compiles for an instance that does not exist yet.
WantedRight ==
    /\ call[Main].at = "out" => wanted = NoInst
    /\ wanted # NoInst => script[wanted] = NoScript

GoneRight == \A i \in Insts : script[i] = NoScript => foreign[i] = NoHandle

CalmInv ==
    /\ HandlesRight /\ Keyed /\ WantedRight /\ GoneRight
    /\ \A s \in Paths : ScriptRight(s)

-----------------------------------------------------------------------------
(* What a step leaves alone *)

\* What the variables of CalmInv are typed as.
LEMMA CalmTypes ==
  ASSUME IInv
  PROVE  /\ call \in [Callers -> Call] /\ made \in 0..MaxHandles
         /\ frees \in [Handles -> Nat] /\ EntriesTyped
         /\ compiled \in [Paths -> Handles \cup {NoHandle}]
         /\ tasks \in [Paths -> Nat] /\ jobs \in [JobIds -> Job]
         /\ script \in [Insts -> Paths \cup {NoScript}]
         /\ foreign \in [Insts -> Handles \cup {NoHandle}]
         /\ seen \in [Workers -> 0..Unread]
         /\ Live \subseteq 1..lastJob /\ Live \subseteq JobIds
         /\ \A j \in Live : jobs[j].script \in Paths /\ jobs[j] \in Job
         /\ \A c \in Callers : call[c].at # "out" => call[c].key[1] \in Paths
<1>1. /\ call \in [Callers -> Call] /\ made \in 0..MaxHandles
      /\ frees \in [Handles -> Nat] /\ EntriesTyped
      /\ compiled \in [Paths -> Handles \cup {NoHandle}]
      /\ tasks \in [Paths -> Nat] /\ jobs \in [JobIds -> Job]
      /\ script \in [Insts -> Paths \cup {NoScript}]
      /\ foreign \in [Insts -> Handles \cup {NoHandle}]
      /\ seen \in [Workers -> 0..Unread]
  BY DEF IInv, CacheGood, CacheTypeOK, StateTyped, JobsNumbered
<1>2. Live \subseteq 1..lastJob
  <2>1. /\ active \subseteq 1..lastJob /\ pending \in Seq(JobIds)
        /\ \A n \in 1..Len(pending) : pending[n] \in 1..lastJob
    BY DEF IInv, JobsNumbered
  <2>2. ToSet(pending) \subseteq 1..lastJob
    BY <2>1 DEF ToSet
  <2> QED BY <2>1, <2>2 DEF Live
<1>3. 1..lastJob \subseteq JobIds
  BY DEF IInv, JobsNumbered, JobIds
<1>4. \A j \in Live : jobs[j].script \in Paths /\ jobs[j] \in Job
  BY <1>1, <1>2, <1>3 DEF IInv, JobsNumbered
<1>5. \A c \in Callers : call[c].at # "out" => call[c].key[1] \in Paths
  BY DEF IInv, CacheGood, CallsKnow, Keys
<1> QED BY <1>1, <1>2, <1>3, <1>4, <1>5

LEMMA KeysDiffer ==
  ASSUME NEW s \in Paths, NEW t \in Paths, KeyOf(s) = KeyOf(t)
  PROVE  s = t
BY DEF KeyOf, CacheKey

LEMMA QuietScript ==
  ASSUME IInv, NEW s \in Paths, ~OnItsWay(s), MainFree
  PROVE  /\ tasks[s] = 0 /\ \A c \in Callers : ~Asks(c, s)
         /\ JobsOf(s) = {}
         /\ \A h : ~HasNew(s, h) /\ ~Stores(s, h)
<1>1. tasks[s] = 0
  BY CalmTypes DEF OnItsWay
<1>2. \A c \in Callers : ~Asks(c, s)
  BY DEF OnItsWay, MainFree, Asks, Workers
<1>3. JobsOf(s) = {}
  BY DEF OnItsWay, Live, JobsOf
<1> QED BY <1>1, <1>2, <1>3 DEF HasNew, Stores

\* A thread that asks for a script is alone with it.
LEMMA Alone ==
  ASSUME NEW c \in Callers, NEW s \in Paths, OneAtATime(s), Asks(c, s)
  PROVE  /\ tasks[s] = 0 /\ JobsOf(s) = {}
         /\ \A d \in Callers \ {c} : ~Asks(d, s)
         /\ \A h : HasNew(s, h) <=> (call[c].at = "returned" /\ call[c].handle = h)
         /\ \A h : Stores(s, h) <=> (call[c].at = "storing" /\ call[c].handle = h)
<1>1. /\ tasks[s] = 0 /\ JobsOf(s) = {} /\ \A d \in Callers \ {c} : ~Asks(d, s)
  BY DEF OneAtATime
<1> QED BY <1>1 DEF HasNew, Stores

SameCalls(s) ==
    \A c \in Callers : (Asks(c, s)' <=> Asks(c, s)) /\ (Asks(c, s) => call'[c] = call[c])
SameEntry(s) ==
    /\ KeyOf(s) \in DOMAIN entries' <=> KeyOf(s) \in DOMAIN entries
    /\ KeyOf(s) \in DOMAIN entries => entries'[KeyOf(s)] = entries[KeyOf(s)]
SameJobs(s) == JobsOf(s)' = JobsOf(s) /\ \A j \in JobsOf(s) : jobs'[j] = jobs[j]
SameInstances(s) ==
    InstancesOf(s)' = InstancesOf(s) /\ \A i \in InstancesOf(s) : foreign'[i] = foreign[i]

\* A step that has nothing to do with script s.
Elsewhere(s) ==
    /\ SameCalls(s) /\ SameEntry(s) /\ SameJobs(s) /\ SameInstances(s)
    /\ tasks'[s] = tasks[s] /\ (tasks[s] = 0 \/ disk'[s] = disk[s])
    /\ compiled'[s] = compiled[s]
    /\ \A w \in Workers : Asks(w, s) => seen'[w] = seen[w]

LEMMA CachedKept ==
  ASSUME NEW s \in Paths, SameEntry(s)
  PROVE  /\ Known(KeyOf(s))' <=> Known(KeyOf(s))
         /\ \A h : Cached(s, h)' <=> Cached(s, h)
         /\ \A x : Hit(KeyOf(s), x)' <=> Hit(KeyOf(s), x)
BY DEF SameEntry, Cached, Known, Hit

LEMMA NewKept ==
  ASSUME NEW s \in Paths, SameCalls(s), SameJobs(s)
  PROVE  \A h : HasNew(s, h)' <=> HasNew(s, h)
BY DEF SameCalls, SameJobs, HasNew

LEMMA StoresKept ==
  ASSUME NEW s \in Paths, SameCalls(s)
  PROVE  \A h : Stores(s, h)' <=> Stores(s, h)
BY DEF SameCalls, Stores

LEMMA HoldsKept ==
  ASSUME NEW s \in Paths, Elsewhere(s)
  PROVE  \A h : Holds(s, h)' <=> Holds(s, h)
BY CachedKept, StoresKept DEF Elsewhere, Holds

LEMMA OneKept ==
  ASSUME NEW s \in Paths, OneAtATime(s), SameCalls(s), JobsOf(s)' = JobsOf(s),
         tasks'[s] = tasks[s]
  PROVE  OneAtATime(s)'
BY DEF OneAtATime, SameCalls

LEMMA MissingKept ==
  ASSUME NEW s \in Paths, Missing(s), SameCalls(s), SameEntry(s), compiled'[s] = compiled[s],
         tasks'[s] = tasks[s], tasks[s] = 0 \/ disk'[s] = disk[s]
  PROVE  Missing(s)'
<1>1. \A x : Hit(KeyOf(s), x)' <=> Hit(KeyOf(s), x)
  BY CachedKept
<1> QED BY <1>1, MainWorker DEF Missing, SameCalls, Hit, Known

LEMMA CacheKept ==
  ASSUME NEW s \in Paths, CacheRight(s), SameCalls(s), SameEntry(s), SameJobs(s),
         compiled'[s] = compiled[s]
  PROVE  CacheRight(s)'
<1>1. \A h : (HasNew(s, h)' <=> HasNew(s, h)) /\ (Cached(s, h)' <=> Cached(s, h))
  BY NewKept, CachedKept
<1>2. Cached(s, compiled[s])' <=> Cached(s, compiled[s])
  BY CachedKept DEF Cached, Known
<1> QED BY <1>1, <1>2 DEF CacheRight, SameEntry, Known

LEMMA SeenKept ==
  ASSUME NEW s \in Paths, OldRight(s), SameCalls(s), SameJobs(s), compiled'[s] = compiled[s],
         \A w \in Workers : Asks(w, s) => seen'[w] = seen[w]
  PROVE  OldRight(s)'
BY MainWorker DEF OldRight, SameCalls, SameJobs

LEMMA SnapshotKept ==
  ASSUME NEW s \in Paths, SnapshotRight(s), JobsOf(s)' = JobsOf(s),
         \A j \in JobsOf(s) : jobs'[j].snapshot = jobs[j].snapshot,
         InstancesOf(s)' = InstancesOf(s)
  PROVE  SnapshotRight(s)'
BY DEF SnapshotRight

LEMMA RunningKept ==
  ASSUME NEW s \in Paths, InstancesRight(s), SameJobs(s), SameInstances(s),
         compiled'[s] = compiled[s]
  PROVE  InstancesRight(s)'
BY DEF InstancesRight, SameJobs, SameInstances, Swapped

LEMMA ScriptKept ==
  ASSUME NEW s \in Paths, ScriptRight(s), Elsewhere(s)
  PROVE  ScriptRight(s)'
<1>1. OneAtATime(s)' /\ SnapshotRight(s)'
  BY OneKept, SnapshotKept DEF ScriptRight, Elsewhere, SameJobs, SameInstances
<1>2. Missing(s)'
  BY MissingKept DEF ScriptRight, Elsewhere
<1>3. CacheRight(s)'
  BY CacheKept DEF ScriptRight, Elsewhere
<1>4. OldRight(s)' /\ InstancesRight(s)'
  BY SeenKept, RunningKept DEF ScriptRight, Elsewhere
<1> QED BY <1>1, <1>2, <1>3, <1>4 DEF ScriptRight

\* The steps that neither compile nor free a handle nor hand one on.
LEMMA HandlesKept ==
  ASSUME HandlesRight, UNCHANGED <<made, frees>>,
         \A s \in Paths, h \in Handles :
             /\ Holds(s, h)' <=> Holds(s, h)
             /\ Stores(s, h)' => Stores(s, h) /\ SameEntry(s) /\ compiled'[s] = compiled[s]
  PROVE  HandlesRight'
<1>1. \A s \in Paths, h \in Handles : Stores(s, h)' => ~Cached(s, h)'
  BY CachedKept DEF HandlesRight
<1> QED BY <1>1 DEF HandlesRight

\* The steps of one script that free what it no longer holds.
LEMMA HandlesMoved ==
  ASSUME IInv, HandlesRight, NEW s \in Paths, made' = made,
         \A t \in Paths \ {s} : Elsewhere(t),
         \A h \in Handles : Holds(s, h)' => Holds(s, h),
         \A h \in Handles : ~Stores(s, h)',
         \A h \in Handles :
             frees'[h] = IF Holds(s, h) /\ ~Holds(s, h)' THEN frees[h] + 1 ELSE frees[h]
  PROVE  HandlesRight'
<1> SUFFICES ASSUME NEW h \in Handles
             PROVE  /\ frees'[h] <= 1
                    /\ h > made => frees'[h] = 0
                    /\ h <= made /\ frees'[h] = 0 => \E t \in Paths : Holds(t, h)'
                    /\ \A t \in Paths : Holds(t, h)' => h <= made /\ frees'[h] = 0
                    /\ \A r, t \in Paths : Holds(r, h)' /\ Holds(t, h)' => r = t
                    /\ \A t \in Paths : Stores(t, h)' => compiled'[t] # h /\ ~Cached(t, h)'
  BY DEF HandlesRight
<1>1. \A t \in Paths \ {s} : Holds(t, h)' <=> Holds(t, h)
  BY HoldsKept
<1>2. /\ frees[h] \in Nat /\ frees[h] <= 1
      /\ h > made => frees[h] = 0
      /\ h <= made /\ frees[h] = 0 => \E t \in Paths : Holds(t, h)
      /\ \A t \in Paths : Holds(t, h) => h <= made /\ frees[h] = 0
      /\ \A r, t \in Paths : Holds(r, h) /\ Holds(t, h) => r = t
  BY CalmTypes DEF HandlesRight
<1>3. ASSUME NEW t \in Paths, Stores(t, h)' PROVE compiled'[t] # h /\ ~Cached(t, h)'
  <2>1. t # s
    BY <1>3
  <2>2. Elsewhere(t)
    BY <2>1
  <2>3. Stores(t, h) /\ compiled[t] # h /\ ~Cached(t, h)
    BY <1>3, <2>2, StoresKept DEF Elsewhere, HandlesRight
  <2> QED BY <2>2, <2>3, CachedKept DEF Elsewhere
<1>4. CASE Holds(s, h) /\ ~Holds(s, h)'
  <2>1. frees[h] = 0 /\ h <= made /\ frees'[h] = 1
    BY <1>2, <1>4
  <2>2. \A t \in Paths : ~Holds(t, h)'
    BY <1>1, <1>2, <1>4
  <2>3. made \in Nat /\ h \in Nat /\ ~(h > made)
    BY <2>1, CalmTypes DEF Handles
  <2> QED BY <1>3, <2>1, <2>2, <2>3
<1>5. CASE ~(Holds(s, h) /\ ~Holds(s, h)')
  <2>1. Holds(s, h)' <=> Holds(s, h)
    BY <1>5
  <2>2. \A t \in Paths : Holds(t, h)' <=> Holds(t, h)
    BY <1>1, <2>1
  <2> QED BY <1>2, <1>3, <1>5, <2>2
<1> QED BY <1>4, <1>5

\* A step of one script.
LEMMA OneScript ==
  ASSUME CalmInv, NEW s \in Paths, \A t \in Paths \ {s} : Elsewhere(t), ScriptRight(s)',
         HandlesRight', Keyed', WantedRight', GoneRight'
  PROVE  CalmInv'
<1>1. \A t \in Paths \ {s} : ScriptRight(t)'
  BY ScriptKept DEF CalmInv
<1> QED BY <1>1 DEF CalmInv

LEMMA Alike ==
  ASSUME NEW s \in Paths
  PROVE  /\ call' = call => SameCalls(s)
         /\ entries' = entries => SameEntry(s)
         /\ UNCHANGED <<jobs, active, pending>> => SameJobs(s)
         /\ UNCHANGED <<script, foreign>> => SameInstances(s)
BY DEF SameCalls, SameEntry, SameJobs, SameInstances, Asks, JobsOf, Live, InstancesOf

\* A step of thread c, for a script it has nothing to do with.
LEMMA OtherCaller ==
  ASSUME NEW s \in Paths, NEW c \in Callers, ~Asks(c, s), ~Asks(c, s)',
         \A d \in Callers \ {c} : call'[d] = call[d]
  PROVE  SameCalls(s)
BY DEF SameCalls, Asks

LEMMA AllElsewhere ==
  ASSUME CalmInv, \A s \in Paths : Elsewhere(s), UNCHANGED <<made, frees>>,
         Keyed', WantedRight', GoneRight'
  PROVE  CalmInv'
<1>1. \A s \in Paths : ScriptRight(s)'
  BY ScriptKept DEF CalmInv
<1>2. HandlesRight'
  <2>1. \A s \in Paths, h \in Handles :
             /\ Holds(s, h)' <=> Holds(s, h)
             /\ Stores(s, h)' => Stores(s, h) /\ SameEntry(s) /\ compiled'[s] = compiled[s]
    BY HoldsKept, StoresKept DEF Elsewhere
  <2> QED BY <2>1, HandlesKept DEF CalmInv
<1> QED BY <1>1, <1>2 DEF CalmInv

LEMMA CalmInit == Init => CalmInv
<1> SUFFICES ASSUME Init PROVE CalmInv
  OBVIOUS
<1>1. \A c \in Callers : call[c].at = "out"
  BY DEF Init, CacheInit, Idle
<1>2. Live = {}
  BY DEF Init, Live, ToSet
<1>3. ASSUME NEW s \in Paths
      PROVE  /\ \A c \in Callers : ~Asks(c, s)
             /\ JobsOf(s) = {} /\ InstancesOf(s) = {} /\ tasks[s] = 0 /\ ~Known(KeyOf(s))
             /\ compiled[s] = NoHandle
  BY <1>1, <1>2 DEF Asks, JobsOf, InstancesOf, Init, CacheInit, NoEntries, Known, NoScript
<1>4. ASSUME NEW s \in Paths, NEW h \in Handles
      PROVE  ~HasNew(s, h) /\ ~Stores(s, h) /\ ~Cached(s, h) /\ ~Holds(s, h)
  BY <1>3 DEF HasNew, Stores, Cached, Holds, Handles, NoHandle
<1>5. \A s \in Paths : ScriptRight(s)
  BY <1>3, <1>4, MainWorker DEF ScriptRight, OneAtATime, Missing, CacheRight, OldRight,
     SnapshotRight, InstancesRight
<1>6. HandlesRight
  BY <1>4 DEF HandlesRight, Init, CacheInit, Handles
<1>7. Keyed /\ WantedRight /\ GoneRight
  BY DEF Keyed, WantedRight, GoneRight, Init, CacheInit, NoEntries
<1> QED BY <1>5, <1>6, <1>7 DEF CalmInv

-----------------------------------------------------------------------------
(* Undisturbed: the main thread *)

\* Saving a file, and the turns of a frame.
LEMMA CalmTurns ==
  ASSUME Allowed = {}, IInv, CalmInv,
         (\E s \in Paths : Save(s)) \/ FlushBegins \/ AdoptEnds \/ FlushEnds \/ UNCHANGED vars
  PROVE  CalmInv'
<1>1. /\ UNCHANGED <<entries, call, made, frees, compiled, script, foreign, wanted, tasks>>
      /\ UNCHANGED <<seen, jobs, active, pending>>
  BY DEF Save, FlushBegins, AdoptEnds, FlushEnds, vars, cacheVars, scriptVars, instVars,
         workVars, jobVars
<1>2. ASSUME NEW t \in Paths PROVE tasks[t] = 0 \/ disk'[t] = disk[t]
  <2>1. CASE \E s \in Paths : Save(s)
    <3>1. PICK s \in Paths : Save(s)
      BY <2>1
    <3>2. tasks[s] = 0
      BY <3>1, CalmTypes DEF Save, May, OnItsWay
    <3>3. t # s => disk'[t] = disk[t]
      BY <3>1 DEF Save, IInv, StateTyped
    <3> QED BY <3>2, <3>3
  <2>2. CASE FlushBegins \/ AdoptEnds \/ FlushEnds \/ UNCHANGED vars
    BY <2>2 DEF FlushBegins, AdoptEnds, FlushEnds, vars, scriptVars
  <2> QED BY <2>1, <2>2
<1>3. \A t \in Paths : Elsewhere(t)
  BY <1>1, <1>2, Alike DEF Elsewhere
<1>4. Keyed' /\ WantedRight' /\ GoneRight'
  BY <1>1 DEF CalmInv, Keyed, WantedRight, GoneRight
<1> QED BY <1>1, <1>3, <1>4, AllElsewhere

\* A script that is quiet and has no handle is unknown to the cache.
LEMMA Unknown ==
  ASSUME NEW s \in Paths, ScriptRight(s), \A h \in Handles : ~HasNew(s, h)
  PROVE  IF compiled[s] = NoHandle THEN ~Known(KeyOf(s)) ELSE Cached(s, compiled[s])
BY DEF ScriptRight, CacheRight

LEMMA CalmCompile ==
  ASSUME Allowed = {}, IInv, CalmInv, NEW s \in Paths, NEW i \in Insts \cup {NoInst},
         Compile(s, i)
  PROVE  CalmInv'
<1>1. /\ MainFree /\ ~OnItsWay(s) /\ compiled[s] = NoHandle
      /\ i # NoInst => script[i] = NoScript
      /\ call[Main].at = "out"
      /\ call' = [call EXCEPT ![Main] = [at |-> "asked", key |-> KeyOf(s), text |-> text[s],
                                         handle |-> NoHandle]]
      /\ wanted' = i
      /\ UNCHANGED <<entries, made, frees, compiled, script, foreign, tasks, disk>>
      /\ UNCHANGED <<seen, jobs, active, pending>>
  BY DEF Compile, May, MainFree, Ask, scriptVars, workVars, jobVars
<1>2. /\ call'[Main].at = "asked" /\ call'[Main].key = KeyOf(s)
      /\ \A d \in Callers \ {Main} : call'[d] = call[d]
  BY <1>1, MainWorker, CalmTypes
<1>3. /\ tasks[s] = 0 /\ \A c \in Callers : ~Asks(c, s)
      /\ JobsOf(s) = {} /\ \A h : ~HasNew(s, h) /\ ~Stores(s, h)
  BY <1>1, QuietScript
<1>4. /\ Asks(Main, s)' /\ \A t \in Paths \ {s} : ~Asks(Main, t)' /\ ~Asks(Main, t)
      /\ \A d \in Callers \ {Main} : ~Asks(d, s)'
  BY <1>1, <1>2, <1>3 DEF Asks, KeyOf, CacheKey
<1>5. \A t \in Paths \ {s} : Elsewhere(t)
  BY <1>1, <1>2, <1>4, Alike, OtherCaller, MainWorker DEF Elsewhere
<1>6. ScriptRight(s) /\ SameEntry(s) /\ SameJobs(s) /\ SameInstances(s) /\ JobsOf(s)' = {}
  BY <1>1, <1>3, Alike DEF CalmInv, SameJobs
<1>7. ~Known(KeyOf(s)) /\ ~Known(KeyOf(s))'
  BY <1>1, <1>3, <1>6, Unknown, CachedKept
<1>8. \A h : ~HasNew(s, h)' /\ ~Stores(s, h)'
  BY <1>2, <1>4, <1>6 DEF HasNew, Stores
<1>9. ScriptRight(s)'
  <2>1. OneAtATime(s)'
    BY <1>1, <1>3, <1>4, <1>6 DEF OneAtATime
  <2>2. Missing(s)'
    BY <1>1, <1>2, <1>3, <1>4, <1>7 DEF Missing, Hit
  <2>3. CacheRight(s)'
    BY <1>1, <1>7, <1>8 DEF CacheRight
  <2>4. OldRight(s)' /\ SnapshotRight(s)'
    BY <1>4, <1>6, MainWorker DEF OldRight, SnapshotRight
  <2>5. InstancesRight(s)'
    BY <1>1, <1>6, RunningKept DEF ScriptRight
  <2> QED BY <2>1, <2>2, <2>3, <2>4, <2>5 DEF ScriptRight
<1>10. HandlesRight'
  <2>1. ASSUME NEW t \in Paths, NEW h \in Handles
        PROVE  /\ Holds(t, h)' <=> Holds(t, h)
               /\ Stores(t, h)' => Stores(t, h) /\ SameEntry(t) /\ compiled'[t] = compiled[t]
    <3>1. CASE t = s
      BY <1>1, <1>3, <1>6, <1>8, <3>1, CachedKept DEF Holds
    <3>2. CASE t # s
      BY <1>5, <3>2, HoldsKept, StoresKept DEF Elsewhere
    <3> QED BY <3>1, <3>2
  <2> QED BY <1>1, <2>1, HandlesKept DEF CalmInv
<1>11. Keyed' /\ WantedRight' /\ GoneRight'
  BY <1>1, <1>2 DEF CalmInv, Keyed, WantedRight, GoneRight
<1> QED BY <1>5, <1>9, <1>10, <1>11, OneScript

\* The script gets its first handle, and perhaps its first instance.
LEMMA CalmReturns ==
  ASSUME IInv, CalmInv, CompileReturns
  PROVE  CalmInv'
<1>a. PICK s : s = call[Main].key[1]
  OBVIOUS
<1>b. PICK h : h = call[Main].handle
  OBVIOUS
<1>1. /\ call[Main].at = "returned" /\ Asks(Main, s) /\ s \in Paths
      /\ h \in Handles \cup {NoHandle}
  <2>1. call[Main].at = "returned"
    BY DEF CompileReturns
  <2> QED BY <1>a, <1>b, <2>1, CalmTypes, MainWorker DEF Asks, Call
<1>2. /\ call' = [call EXCEPT ![Main] = Idle] /\ wanted' = NoInst
      /\ UNCHANGED <<entries, made, frees, tasks, seen, jobs, active, pending, disk>>
  BY DEF CompileReturns, Leave, workVars, jobVars
<1>3. ScriptRight(s) /\ compiled[s] = NoHandle
  BY <1>1 DEF CalmInv, ScriptRight, Missing
<1>4. compiled' = [compiled EXCEPT ![s] = h]
  <2>1. CASE h = NoHandle
    BY <1>3, <1>a, <1>b, <2>1 DEF CompileReturns
  <2>2. CASE h # NoHandle
    BY <1>a, <1>b, <2>2 DEF CompileReturns
  <2> QED BY <2>1, <2>2
<1>5. compiled'[s] = h /\ \A t \in Paths \ {s} : compiled'[t] = compiled[t]
  BY <1>1, <1>4, CalmTypes
<1>6. InstancesOf(s) = {}
  BY <1>3 DEF ScriptRight, InstancesRight
<1>7. \/ UNCHANGED <<script, foreign>>
      \/ /\ wanted \in Insts /\ h # NoHandle /\ script[wanted] = NoScript
         /\ script' = [script EXCEPT ![wanted] = s]
         /\ foreign' = [foreign EXCEPT ![wanted] = h]
  <2>1. wanted \in Insts \cup {NoInst}
    BY DEF IInv, StateTyped
  <2>2. \/ UNCHANGED <<script, foreign>>
        \/ wanted # NoInst /\ compiled'[s] # NoHandle /\ Instantiated(wanted, s, compiled'[s])
    <3> DEFINE handle == IF h = NoHandle THEN compiled[s] ELSE h
    <3>1. handle = h
      BY <1>3
    <3>2. \/ UNCHANGED <<script, foreign>>
          \/ wanted # NoInst /\ handle # NoHandle /\ Instantiated(wanted, s, handle)
      BY <1>a, <1>b DEF CompileReturns
    <3> QED BY <1>5, <3>1, <3>2
  <2> QED BY <1>5, <2>1, <2>2 DEF Instantiated, CalmInv, WantedRight
<1>8. /\ tasks[s] = 0 /\ JobsOf(s) = {} /\ \A d \in Callers \ {Main} : ~Asks(d, s)
      /\ \A g : HasNew(s, g) <=> h = g
      /\ \A g : ~Stores(s, g)
  BY <1>1, <1>3, <1>b, Alone, MainWorker DEF ScriptRight
<1>9. /\ call'[Main].at = "out" /\ \A d \in Callers \ {Main} : call'[d] = call[d]
      /\ \A t : ~Asks(Main, t)'
  BY <1>2, MainWorker, CalmTypes DEF Idle, Asks
<1>10. \A c \in Callers : ~Asks(c, s)'
  BY <1>8, <1>9 DEF Asks
<1>11. JobsOf(s)' = {} /\ SameEntry(s)
  BY <1>1, <1>2, <1>8, Alike DEF SameJobs
<1>12. \A g : ~HasNew(s, g)' /\ ~Stores(s, g)'
  BY <1>10, <1>11 DEF HasNew, Stores
<1>13. \A t \in Paths \ {s} : SameInstances(t)
  BY <1>1, <1>7, CalmTypes DEF SameInstances, InstancesOf, NoScript
<1>14. \A t \in Paths \ {s} : Elsewhere(t)
  <2>1. \A t \in Paths \ {s} : ~Asks(Main, t)
    BY <1>1 DEF Asks
  <2> QED BY <1>2, <1>5, <1>9, <1>13, <2>1, Alike, OtherCaller, MainWorker DEF Elsewhere
<1>15. \A i \in InstancesOf(s)' : foreign'[i] = h /\ h # NoHandle
  BY <1>1, <1>6, <1>7, CalmTypes DEF InstancesOf
<1>16. IF h = NoHandle THEN ~Known(KeyOf(s)) ELSE Cached(s, h)
  <2>1. CASE h = NoHandle
    BY <1>1, <1>3, <1>8, <2>1, Unknown DEF Handles, NoHandle
  <2>2. CASE h # NoHandle
    BY <1>1, <1>3, <1>8, <2>2 DEF ScriptRight, CacheRight
  <2> QED BY <2>1, <2>2
<1>17. ScriptRight(s)'
  <2>1. OneAtATime(s)' /\ Missing(s)' /\ OldRight(s)' /\ SnapshotRight(s)'
    BY <1>2, <1>8, <1>10, <1>11, MainWorker
       DEF OneAtATime, Missing, OldRight, SnapshotRight
  <2>2. CacheRight(s)'
    <3>1. Known(KeyOf(s))' => entries'[KeyOf(s)].refs = 1
      BY <1>2, <1>3 DEF ScriptRight, CacheRight, Known
    <3>2. IF compiled'[s] = NoHandle THEN ~Known(KeyOf(s))' ELSE Cached(s, compiled[s])'
      BY <1>2, <1>5, <1>16 DEF Cached, Known
    <3> QED BY <1>12, <3>1, <3>2 DEF CacheRight
  <2>3. InstancesRight(s)'
    BY <1>5, <1>11, <1>15 DEF InstancesRight
  <2> QED BY <2>1, <2>2, <2>3 DEF ScriptRight
<1>18. HandlesRight'
  <2>1. \A g : Cached(s, g)' <=> Cached(s, g)
    BY <1>1, <1>11, CachedKept
  <2>2. \A g \in Handles : Holds(s, g)' <=> Holds(s, g)
    BY <1>3, <1>5, <1>8, <1>12, <1>16, <2>1 DEF Holds, Handles, NoHandle
  <2>3. ASSUME NEW t \in Paths, NEW g \in Handles
        PROVE  /\ Holds(t, g)' <=> Holds(t, g)
               /\ Stores(t, g)' => Stores(t, g) /\ SameEntry(t) /\ compiled'[t] = compiled[t]
    <3>1. CASE t = s
      BY <1>12, <2>2, <3>1
    <3>2. CASE t # s
      BY <1>14, <3>2, HoldsKept, StoresKept DEF Elsewhere
    <3> QED BY <3>1, <3>2
  <2> QED BY <1>2, <2>3, HandlesKept DEF CalmInv
<1>19. Keyed' /\ WantedRight' /\ GoneRight'
  <2>1. GoneRight'
    BY <1>1, <1>7, CalmTypes DEF CalmInv, GoneRight, NoScript
  <2> QED BY <1>2, <2>1 DEF CalmInv, Keyed, WantedRight
<1> QED BY <1>1, <1>14, <1>17, <1>18, <1>19, OneScript

\* An instance of a quiet script comes or goes.
LEMMA CalmInstances ==
  ASSUME Allowed = {}, IInv, CalmInv, NEW s \in Paths, NEW i \in Insts,
         CreateInstance(s, i) \/ (FreeInstance(i) /\ s = script[i])
  PROVE  CalmInv'
<1>1. /\ MainFree /\ ~OnItsWay(s)
      /\ UNCHANGED <<entries, call, made, frees, compiled, disk, wanted, tasks, seen>>
      /\ UNCHANGED <<jobs, active, pending>>
  BY DEF CreateInstance, FreeInstance, May, cacheVars, scriptVars, workVars, jobVars
<1>2. \/ /\ compiled[s] # NoHandle /\ script[i] = NoScript
         /\ script' = [script EXCEPT ![i] = s] /\ foreign' = [foreign EXCEPT ![i] = compiled[s]]
      \/ /\ script[i] = s
         /\ script' = [script EXCEPT ![i] = NoScript]
         /\ foreign' = [foreign EXCEPT ![i] = NoHandle]
  BY DEF CreateInstance, FreeInstance, Instantiated
<1>3. \A t \in Paths : SameCalls(t) /\ SameEntry(t) /\ SameJobs(t)
  BY <1>1, Alike
<1>4. /\ \A t \in Paths \ {s} : SameInstances(t)
      /\ \A k \in InstancesOf(s)' :
             \/ k = i /\ compiled[s] # NoHandle /\ foreign'[k] = compiled[s]
             \/ k \in InstancesOf(s) /\ foreign'[k] = foreign[k]
      /\ GoneRight'
  BY <1>2, CalmTypes DEF SameInstances, InstancesOf, NoScript, CalmInv, GoneRight
<1>5. \A t \in Paths \ {s} : Elsewhere(t)
  BY <1>1, <1>3, <1>4 DEF Elsewhere
<1>6. ScriptRight(s) /\ JobsOf(s) = {} /\ JobsOf(s)' = {} /\ tasks[s] = 0
  BY <1>1, <1>3, QuietScript DEF CalmInv, SameJobs
<1>7. ScriptRight(s)'
  <2>1. OneAtATime(s)' /\ Missing(s)' /\ CacheRight(s)' /\ OldRight(s)'
    BY <1>1, <1>3, <1>6, OneKept, MissingKept, CacheKept, SeenKept DEF ScriptRight
  <2>2. SnapshotRight(s)'
    BY <1>6 DEF SnapshotRight
  <2>3. InstancesRight(s)'
    BY <1>1, <1>4, <1>6 DEF ScriptRight, InstancesRight
  <2> QED BY <2>1, <2>2, <2>3 DEF ScriptRight
<1>8. HandlesRight'
  <2>1. \A t \in Paths, h \in Handles :
             /\ Holds(t, h)' <=> Holds(t, h)
             /\ Stores(t, h)' => Stores(t, h) /\ SameEntry(t) /\ compiled'[t] = compiled[t]
    BY <1>1, <1>3, CachedKept, StoresKept DEF Holds
  <2> QED BY <1>1, <2>1, HandlesKept DEF CalmInv
<1>9. Keyed' /\ WantedRight'
  <2>1. wanted = NoInst
    BY <1>1 DEF CalmInv, WantedRight, MainFree
  <2> QED BY <1>1, <2>1 DEF CalmInv, Keyed, WantedRight
<1> QED BY <1>4, <1>5, <1>7, <1>8, <1>9, OneScript

LEMMA CalmReload ==
  ASSUME Allowed = {}, IInv, CalmInv, NEW s \in Paths, Reload(s)
  PROVE  CalmInv'
<1>1. /\ MainFree /\ ~OnItsWay(s) /\ ~Hit(KeyOf(s), disk[s])
      /\ tasks' = [tasks EXCEPT ![s] = @ + 1]
      /\ UNCHANGED <<entries, call, made, frees, compiled, script, foreign, wanted, disk>>
      /\ UNCHANGED <<seen, jobs, active, pending>>
  BY DEF Reload, May, cacheVars, instVars, jobVars
<1>2. /\ tasks[s] = 0 /\ \A c \in Callers : ~Asks(c, s)
      /\ JobsOf(s) = {} /\ \A h : ~HasNew(s, h) /\ ~Stores(s, h)
  BY <1>1, QuietScript
<1>3. tasks'[s] = 1 /\ \A t \in Paths \ {s} : tasks'[t] = tasks[t]
  BY <1>1, <1>2, CalmTypes
<1>4. \A t \in Paths : SameCalls(t) /\ SameEntry(t) /\ SameJobs(t) /\ SameInstances(t)
  BY <1>1, Alike
<1>5. \A t \in Paths \ {s} : Elsewhere(t)
  BY <1>1, <1>3, <1>4 DEF Elsewhere
<1>6. ScriptRight(s) /\ JobsOf(s)' = {} /\ \A c \in Callers : ~Asks(c, s)'
  BY <1>2, <1>4 DEF CalmInv, SameJobs, SameCalls
<1>7. ScriptRight(s)'
  <2>1. OneAtATime(s)'
    BY <1>3, <1>6 DEF OneAtATime
  <2>2. Missing(s)'
    <3>1. ~Hit(KeyOf(s), disk[s])'
      BY <1>1 DEF Hit, Known
    <3> QED BY <1>6, <3>1, MainWorker DEF Missing
  <2>3. CacheRight(s)' /\ OldRight(s)' /\ InstancesRight(s)' /\ SnapshotRight(s)'
    BY <1>1, <1>4, <1>6, CacheKept, SeenKept, RunningKept, SnapshotKept
       DEF ScriptRight, SameInstances, SameJobs
  <2> QED BY <2>1, <2>2, <2>3 DEF ScriptRight
<1>8. HandlesRight'
  <2>1. \A t \in Paths, h \in Handles :
             /\ Holds(t, h)' <=> Holds(t, h)
             /\ Stores(t, h)' => Stores(t, h) /\ SameEntry(t) /\ compiled'[t] = compiled[t]
    BY <1>1, <1>4, CachedKept, StoresKept DEF Holds
  <2> QED BY <1>1, <2>1, HandlesKept DEF CalmInv
<1>9. Keyed' /\ WantedRight' /\ GoneRight'
  BY <1>1 DEF CalmInv, Keyed, WantedRight, GoneRight
<1> QED BY <1>5, <1>7, <1>8, <1>9, OneScript

\* Erases the entry of the script and frees the handle that it had.
LEMMA CalmFreeScript ==
  ASSUME Allowed = {}, IInv, CalmInv, NEW s \in Paths, FreeScript(s)
  PROVE  CalmInv'
<1>1. /\ MainFree /\ ~OnItsWay(s) /\ InstancesOf(s) = {}
      /\ compiled' = [compiled EXCEPT ![s] = NoHandle]
      /\ UNCHANGED <<call, made, disk, tasks, seen, jobs, active, pending>>
      /\ UNCHANGED <<script, foreign, wanted>>
  BY DEF FreeScript, May, Release, instVars, workVars, jobVars
<1>2. /\ tasks[s] = 0 /\ \A c \in Callers : ~Asks(c, s)
      /\ JobsOf(s) = {} /\ \A h : ~HasNew(s, h) /\ ~Stores(s, h)
  BY <1>1, QuietScript
<1>3. ScriptRight(s) /\ HandlesRight
  BY DEF CalmInv
<1>4. compiled[s] \in Handles \cup {NoHandle}
      /\ IF compiled[s] = NoHandle THEN ~Known(KeyOf(s)) ELSE Cached(s, compiled[s])
  BY <1>2, <1>3, Unknown, CalmTypes
<1>5. /\ entries' = IF compiled[s] = NoHandle THEN entries ELSE Erased(entries, KeyOf(s))
      /\ frees' = IF compiled[s] = NoHandle THEN frees ELSE Freed(compiled[s])
  <2>1. CASE compiled[s] = NoHandle
    BY <2>1 DEF FreeScript
  <2>2. CASE compiled[s] # NoHandle
    <3>1. Known(KeyOf(s)) /\ entries[KeyOf(s)].handle = compiled[s]
          /\ entries[KeyOf(s)].refs = 1
      BY <1>3, <1>4, <2>2 DEF ScriptRight, CacheRight, Cached
    <3>2. Remaining(KeyOf(s)) <= 0
      BY <3>1 DEF Remaining
    <3>3. Release(KeyOf(s))
      BY <2>2 DEF FreeScript
    <3> QED BY <2>2, <3>1, <3>2, <3>3 DEF Release, EntriesReleased, FreesReleased
  <2> QED BY <2>1, <2>2
<1>6. ~Known(KeyOf(s))' /\ \A t \in Paths \ {s} : SameEntry(t)
  <2>1. \A t \in Paths \ {s} : KeyOf(t) # KeyOf(s)
    BY KeysDiffer
  <2> QED BY <1>4, <1>5, <2>1 DEF Known, SameEntry, Erased
<1>7. compiled'[s] = NoHandle /\ \A t \in Paths \ {s} : compiled'[t] = compiled[t]
  BY <1>1, CalmTypes
<1>8. \A t \in Paths : SameCalls(t) /\ SameJobs(t) /\ SameInstances(t)
  BY <1>1, Alike
<1>9. \A t \in Paths \ {s} : Elsewhere(t)
  BY <1>1, <1>6, <1>7, <1>8 DEF Elsewhere
<1>10. /\ \A c \in Callers : ~Asks(c, s)'
       /\ JobsOf(s)' = {} /\ InstancesOf(s)' = {} /\ tasks'[s] = 0
       /\ \A h : ~HasNew(s, h)' /\ ~Stores(s, h)' /\ ~Cached(s, h)'
  <2>1. \A c \in Callers : ~Asks(c, s)'
    BY <1>2, <1>8 DEF SameCalls
  <2>2. JobsOf(s)' = {} /\ InstancesOf(s)' = {} /\ tasks'[s] = 0
    BY <1>1, <1>2, <1>8 DEF SameJobs, SameInstances
  <2> QED BY <1>6, <2>1, <2>2 DEF HasNew, Stores, Cached
<1>11. ScriptRight(s)'
  BY <1>6, <1>7, <1>10, MainWorker DEF ScriptRight, OneAtATime, Missing, CacheRight, OldRight,
     SnapshotRight, InstancesRight
<1>12. HandlesRight'
  <2>1. \A h \in Handles : ~Holds(s, h)'
    BY <1>7, <1>10 DEF Holds, Handles, NoHandle
  <2>2. \A h \in Handles : Holds(s, h) <=> compiled[s] = h
    BY <1>2, <1>4 DEF Holds, Cached, Handles, NoHandle
  <2>3. ASSUME NEW h \in Handles
        PROVE  frees'[h] = IF Holds(s, h) /\ ~Holds(s, h)' THEN frees[h] + 1 ELSE frees[h]
    BY <1>5, <2>1, <2>2, CalmTypes DEF Freed, Handles, NoHandle
  <2> QED BY <1>1, <1>3, <1>9, <1>10, <2>1, <2>3, HandlesMoved
<1>13. Keyed' /\ WantedRight' /\ GoneRight'
  BY <1>1, <1>5 DEF CalmInv, Keyed, WantedRight, GoneRight, Erased
<1> QED BY <1>9, <1>11, <1>12, <1>13, OneScript

-----------------------------------------------------------------------------
(* Undisturbed: the workers *)

LEMMA CalmStarts ==
  ASSUME IInv, CalmInv, NEW w \in Workers, NEW s \in Paths, WorkerStarts(w, s)
  PROVE  CalmInv'
<1>1. /\ tasks[s] > 0 /\ call[w].at = "out" /\ w \in Callers /\ w # Main
      /\ tasks' = [tasks EXCEPT ![s] = @ - 1]
      /\ UNCHANGED <<entries, made, frees, compiled, script, foreign, wanted, disk>>
      /\ UNCHANGED <<seen, jobs, active, pending>>
  BY MainWorker DEF WorkerStarts, Ask, cacheVars, scriptVars, instVars, jobVars
<1>2. ScriptRight(s)
  BY DEF CalmInv
<1>3. /\ tasks[s] = 1 /\ JobsOf(s) = {} /\ \A c \in Callers : ~Asks(c, s)
      /\ ~Hit(KeyOf(s), disk[s])
  BY <1>1, <1>2 DEF ScriptRight, OneAtATime, Missing
<1>4. tasks'[s] = 0 /\ \A t \in Paths \ {s} : tasks'[t] = tasks[t]
  BY <1>1, <1>3, CalmTypes
<1>5. \/ call' = call
      \/ /\ call'[w].at = "asked" /\ call'[w].key = KeyOf(s) /\ call'[w].text = disk[s]
         /\ \A d \in Callers \ {w} : call'[d] = call[d]
  <2>1. CASE UNCHANGED cacheVars
    BY <2>1 DEF cacheVars
  <2>2. CASE Ask(w, KeyOf(s), disk[s])
    BY <1>1, <2>2, CalmTypes DEF Ask
  <2> QED BY <2>1, <2>2 DEF WorkerStarts
<1>6. \A t \in Paths : SameEntry(t) /\ SameJobs(t) /\ SameInstances(t)
  BY <1>1, Alike
<1>7. \A t \in Paths \ {s} : SameCalls(t)
  <2>1. CASE call' = call
    BY <2>1, Alike
  <2>2. CASE call' # call
    <3>1. \A t \in Paths \ {s} : ~Asks(w, t) /\ ~Asks(w, t)'
      BY <1>1, <1>5, <2>2 DEF Asks, KeyOf, CacheKey
    <3> QED BY <1>1, <1>5, <2>2, <3>1, OtherCaller
  <2> QED BY <2>1, <2>2
<1>8. \A t \in Paths \ {s} : Elsewhere(t)
  BY <1>1, <1>4, <1>6, <1>7 DEF Elsewhere
<1>9. /\ \A c \in Callers : Asks(c, s)' => c = w /\ call'[c].at = "asked"
             /\ call'[c].key = KeyOf(s) /\ call'[c].text = disk[s]
      /\ JobsOf(s)' = {}
  BY <1>3, <1>5, <1>6 DEF Asks, SameJobs
<1>10. \A h : ~HasNew(s, h)' /\ ~Stores(s, h)' /\ ~HasNew(s, h) /\ ~Stores(s, h)
  BY <1>3, <1>9 DEF HasNew, Stores
<1>11. \A h : Cached(s, h)' <=> Cached(s, h)
  BY <1>6, CachedKept
<1>12. ScriptRight(s)'
  <2>1. OneAtATime(s)'
    BY <1>4, <1>9 DEF OneAtATime
  <2>2. Missing(s)'
    <3>1. ~Hit(KeyOf(s), disk[s])'
      BY <1>1, <1>3 DEF Hit, Known
    <3>2. \A c \in Callers : Asks(c, s)' => ~Hit(KeyOf(s), call[c].text)'
      BY <1>9, <3>1, <1>1 DEF Hit, Known
    <3> QED BY <1>1, <1>4, <1>9, <3>2, MainWorker DEF Missing
  <2>3. CacheRight(s)'
    <3>1. Known(KeyOf(s))' <=> Known(KeyOf(s))
      BY <1>6, CachedKept
    <3>2. Cached(s, compiled[s])' <=> Cached(s, compiled[s])
      BY <1>1 DEF Cached, Known
    <3> QED BY <1>1, <1>2, <1>10, <3>1, <3>2 DEF ScriptRight, CacheRight
  <2>4. OldRight(s)'
    <3>1. seen[w] = Unread
      BY <1>1 DEF IInv, SeenReturned
    <3> QED BY <1>1, <1>9, <3>1, MainWorker DEF OldRight
  <2>5. SnapshotRight(s)' /\ InstancesRight(s)'
    BY <1>1, <1>2, <1>6, <1>9, RunningKept DEF ScriptRight, SnapshotRight
  <2> QED BY <2>1, <2>2, <2>3, <2>4, <2>5 DEF ScriptRight
<1>13. HandlesRight'
  <2>1. ASSUME NEW t \in Paths, NEW h \in Handles
        PROVE  /\ Holds(t, h)' <=> Holds(t, h)
               /\ Stores(t, h)' => Stores(t, h) /\ SameEntry(t) /\ compiled'[t] = compiled[t]
    <3>1. CASE t = s
      BY <1>1, <1>10, <1>11, <3>1 DEF Holds
    <3>2. CASE t # s
      BY <1>8, <3>2, HoldsKept, StoresKept DEF Elsewhere
    <3> QED BY <3>1, <3>2
  <2> QED BY <1>1, <2>1, HandlesKept DEF CalmInv
<1>14. Keyed' /\ WantedRight' /\ GoneRight'
  BY <1>1, <1>5, MainWorker DEF CalmInv, Keyed, WantedRight, GoneRight
<1> QED BY <1>8, <1>12, <1>13, <1>14, OneScript

LEMMA CalmFailed ==
  ASSUME IInv, CalmInv, NEW w \in Workers, CompileFailed(w)
  PROVE  CalmInv'
<1>a. PICK s : s = call[w].key[1]
  OBVIOUS
<1>1. /\ call[w].at = "returned" /\ call[w].handle = NoHandle /\ w \in Callers /\ w # Main
      /\ call' = [call EXCEPT ![w] = Idle]
      /\ UNCHANGED <<entries, made, frees, compiled, script, foreign, wanted, disk>>
      /\ UNCHANGED <<seen, tasks, jobs, active, pending>>
  BY MainWorker DEF CompileFailed, Leave, scriptVars, instVars, workVars, jobVars
<1>2. s \in Paths /\ Asks(w, s) /\ ScriptRight(s)
  BY <1>1, <1>a, CalmTypes DEF Asks, CalmInv
<1>3. /\ tasks[s] = 0 /\ JobsOf(s) = {} /\ \A d \in Callers \ {w} : ~Asks(d, s)
      /\ \A h \in Handles : ~HasNew(s, h) /\ ~Stores(s, h)
  BY <1>1, <1>2, Alone DEF ScriptRight, Handles, NoHandle
<1>4. /\ call'[w].at = "out" /\ \A d \in Callers \ {w} : call'[d] = call[d]
      /\ \A t : ~Asks(w, t)'
  BY <1>1, CalmTypes DEF Idle, Asks
<1>5. \A t \in Paths : SameEntry(t) /\ SameJobs(t) /\ SameInstances(t)
  BY <1>1, Alike
<1>6. \A t \in Paths \ {s} : Elsewhere(t)
  <2>1. \A t \in Paths \ {s} : ~Asks(w, t)
    BY <1>2 DEF Asks
  <2> QED BY <1>1, <1>4, <1>5, <2>1, OtherCaller DEF Elsewhere
<1>7. (\A c \in Callers : ~Asks(c, s)') /\ JobsOf(s)' = {}
  BY <1>2, <1>3, <1>4, <1>5 DEF Asks, SameJobs
<1>8. \A h : ~HasNew(s, h)' /\ ~Stores(s, h)'
  BY <1>7 DEF HasNew, Stores
<1>9. ScriptRight(s)'
  <2>1. OneAtATime(s)' /\ Missing(s)' /\ OldRight(s)' /\ SnapshotRight(s)'
    BY <1>1, <1>3, <1>7, MainWorker DEF OneAtATime, Missing, OldRight, SnapshotRight
  <2>2. CacheRight(s)'
    <3>1. Known(KeyOf(s))' <=> Known(KeyOf(s))
      BY <1>2, <1>5, CachedKept
    <3>2. Cached(s, compiled[s])' <=> Cached(s, compiled[s])
      BY <1>1 DEF Cached, Known
    <3> QED BY <1>1, <1>2, <1>3, <1>8, <3>1, <3>2 DEF ScriptRight, CacheRight
  <2>3. InstancesRight(s)'
    BY <1>1, <1>2, <1>5, RunningKept DEF ScriptRight
  <2> QED BY <2>1, <2>2, <2>3 DEF ScriptRight
<1>10. HandlesRight'
  <2>1. ASSUME NEW t \in Paths, NEW h \in Handles
        PROVE  /\ Holds(t, h)' <=> Holds(t, h)
               /\ Stores(t, h)' => Stores(t, h) /\ SameEntry(t) /\ compiled'[t] = compiled[t]
    <3>1. CASE t = s
      BY <1>1, <1>3, <1>5, <1>8, <3>1, CachedKept DEF Holds
    <3>2. CASE t # s
      BY <1>6, <3>2, HoldsKept, StoresKept DEF Elsewhere
    <3> QED BY <3>1, <3>2
  <2> QED BY <1>1, <2>1, HandlesKept DEF CalmInv
<1>11. Keyed' /\ WantedRight' /\ GoneRight'
  BY <1>1, <1>4, MainWorker DEF CalmInv, Keyed, WantedRight, GoneRight
<1> QED BY <1>2, <1>6, <1>9, <1>10, <1>11, OneScript

LEMMA CalmReads ==
  ASSUME IInv, CalmInv, NEW w \in Workers, ReadOld(w)
  PROVE  CalmInv'
<1>a. PICK s : s = call[w].key[1]
  OBVIOUS
<1>1. /\ call[w].at = "returned" /\ w \in Callers
      /\ seen' = [seen EXCEPT ![w] = compiled[s]]
      /\ UNCHANGED <<entries, call, made, frees, compiled, script, foreign, wanted, disk>>
      /\ UNCHANGED <<tasks, jobs, active, pending>>
  BY <1>a, MainWorker DEF ReadOld, cacheVars, scriptVars, instVars, jobVars
<1>2. s \in Paths /\ Asks(w, s) /\ ScriptRight(s) /\ JobsOf(s) = {}
  <2>1. s \in Paths /\ Asks(w, s) /\ ScriptRight(s)
    BY <1>1, <1>a, CalmTypes DEF Asks, CalmInv
  <2> QED BY <1>1, <2>1, Alone DEF ScriptRight
<1>3. \A t \in Paths : SameCalls(t) /\ SameEntry(t) /\ SameJobs(t) /\ SameInstances(t)
  BY <1>1, Alike
<1>4. \A v \in Workers : seen'[v] = IF v = w THEN compiled[s] ELSE seen[v]
  BY <1>1, CalmTypes
<1>5. \A t \in Paths \ {s} : Elsewhere(t)
  BY <1>1, <1>2, <1>3, <1>4 DEF Elsewhere, Asks
<1>6. ScriptRight(s)'
  <2>1. OneAtATime(s)' /\ Missing(s)' /\ CacheRight(s)' /\ InstancesRight(s)'
    BY <1>1, <1>2, <1>3, OneKept, MissingKept, CacheKept, RunningKept DEF ScriptRight, SameJobs
  <2>2. SnapshotRight(s)'
    BY <1>2, <1>3 DEF SnapshotRight, SameJobs
  <2>3. OldRight(s)'
    BY <1>1, <1>2, <1>3, <1>4, MainWorker DEF ScriptRight, OldRight, SameJobs, SameCalls
  <2> QED BY <2>1, <2>2, <2>3 DEF ScriptRight
<1>7. HandlesRight'
  <2>1. \A t \in Paths, h \in Handles :
             /\ Holds(t, h)' <=> Holds(t, h)
             /\ Stores(t, h)' => Stores(t, h) /\ SameEntry(t) /\ compiled'[t] = compiled[t]
    BY <1>1, <1>3, CachedKept, StoresKept DEF Holds
  <2> QED BY <1>1, <2>1, HandlesKept DEF CalmInv
<1>8. Keyed' /\ WantedRight' /\ GoneRight'
  BY <1>1 DEF CalmInv, Keyed, WantedRight, GoneRight
<1> QED BY <1>2, <1>5, <1>6, <1>7, <1>8, OneScript

\* An undisturbed call of the cache finds nothing there and stores what it compiled.
LEMMA CalmInCache ==
  ASSUME IInv, CalmInv, NEW c \in Callers, InCacheOnly(c)
  PROVE  CalmInv'
<1>a. PICK s : s = call[c].key[1]
  OBVIOUS
<1>b. PICK g : g = call[c].handle
  OBVIOUS
<1>1. /\ InCache(c)
      /\ UNCHANGED <<compiled, script, foreign, wanted, disk, seen, tasks, jobs, active, pending>>
  BY DEF InCacheOnly, scriptVars, instVars, workVars, jobVars
<1>2. /\ CallStepped(c) /\ call'[c].at # "out" /\ call[c].at \notin {"out", "returned"}
  BY <1>1, InCacheGood DEF IInv
<1>3. s \in Paths /\ Asks(c, s) /\ ScriptRight(s)
  BY <1>2, <1>a, CalmTypes DEF Asks, CalmInv
<1>4. call[c].key = KeyOf(s) /\ ~Hit(KeyOf(s), call[c].text)
  BY <1>2, <1>3 DEF ScriptRight, Missing
<1>5. /\ tasks[s] = 0 /\ JobsOf(s) = {} /\ \A d \in Callers \ {c} : ~Asks(d, s)
      /\ \A h : ~HasNew(s, h)
      /\ \A h : Stores(s, h) <=> (call[c].at = "storing" /\ call[c].handle = h)
  BY <1>2, <1>3, Alone DEF ScriptRight
<1>6. /\ call'[c].key = KeyOf(s) /\ call'[c].text = call[c].text /\ Asks(c, s)'
      /\ \A d \in Callers \ {c} : call'[d] = call[d]
  BY <1>2, <1>3, <1>4 DEF CallStepped, Asks
<1>7. \A t \in Paths : SameJobs(t) /\ SameInstances(t)
  BY <1>1, Alike
<1>8. \A t \in Paths \ {s} : SameCalls(t)
  <2>1. \A t \in Paths \ {s} : ~Asks(c, t) /\ ~Asks(c, t)'
    BY <1>3, <1>6 DEF Asks
  <2> QED BY <1>6, <2>1, OtherCaller
<1>9. JobsOf(s)' = {} /\ \A d \in Callers \ {c} : ~Asks(d, s)'
  BY <1>3, <1>5, <1>6, <1>7 DEF SameJobs, Asks
<1>10. /\ \A h : HasNew(s, h)' <=> (call'[c].at = "returned" /\ call'[c].handle = h)
       /\ \A h : Stores(s, h)' <=> (call'[c].at = "storing" /\ call'[c].handle = h)
  BY <1>6, <1>9 DEF HasNew, Stores
<1>11. OneAtATime(s)' /\ SnapshotRight(s)' /\ InstancesRight(s)' /\ OldRight(s)'
  <2>1. OneAtATime(s)' /\ SnapshotRight(s)'
    BY <1>1, <1>5, <1>9 DEF OneAtATime, SnapshotRight
  <2>2. InstancesRight(s)'
    BY <1>1, <1>3, <1>7, RunningKept DEF ScriptRight
  <2>3. OldRight(s)'
    <3>1. seen[c] = Unread \/ c \notin Workers
      BY <1>2 DEF IInv, SeenReturned
    <3> QED BY <1>1, <1>9, <3>1, MainWorker DEF OldRight
  <2> QED BY <2>1, <2>2, <2>3
<1>12. WantedRight' /\ GoneRight'
  <2>1. call[Main].at = "out" <=> call'[Main].at = "out"
    BY <1>2, <1>6, MainWorker
  <2> QED BY <1>1, <2>1 DEF CalmInv, WantedRight, GoneRight
<1>13. ASSUME (call'[c].at # "returned") => ~Hit(KeyOf(s), call[c].text)'
       PROVE  Missing(s)'
  <2>1. tasks'[s] = 0 /\ (Asks(Main, s)' => compiled'[s] = NoHandle)
    BY <1>1, <1>3, <1>5, <1>6, <1>9, MainWorker DEF ScriptRight, Missing
  <2> QED BY <1>6, <1>9, <1>13, <2>1 DEF Missing
<1>14. ASSUME UNCHANGED entries, ~\E h \in Handles : HasNew(s, h)'
       PROVE  /\ ScriptRight(s)' /\ Keyed' /\ \A t \in Paths \ {s} : Elsewhere(t)
  <2>1. CacheRight(s)'
    <3>1. Known(KeyOf(s))' <=> Known(KeyOf(s))
      BY <1>14 DEF Known
    <3>2. Cached(s, compiled[s])' <=> Cached(s, compiled[s])
      BY <1>1, <1>14 DEF Cached, Known
    <3> QED BY <1>1, <1>3, <1>5, <1>14, <3>1, <3>2 DEF ScriptRight, CacheRight
  <2>2. Missing(s)'
    <3>1. ~Hit(KeyOf(s), call[c].text)'
      BY <1>4, <1>6, <1>14 DEF Hit, Known
    <3> QED BY <1>13, <3>1
  <2>3. \A t \in Paths \ {s} : Elsewhere(t)
    BY <1>1, <1>7, <1>8, <1>14, Alike DEF Elsewhere
  <2> QED BY <1>11, <1>14, <2>1, <2>2, <2>3 DEF ScriptRight, CalmInv, Keyed
<1>15. CASE LookupMiss(c) \/ CompileFails(c)
  <2>1. /\ UNCHANGED <<entries, made, frees>> /\ call[c].at # "storing"
        /\ \/ call'[c].at = "compiling"
           \/ call'[c].at = "returned" /\ call'[c].handle = NoHandle
    BY <1>15, CalmTypes DEF LookupMiss, CompileFails, Return, Call
  <2>2. ~\E h \in Handles : HasNew(s, h)'
    BY <1>10, <2>1 DEF Handles, NoHandle
  <2>3. \A t \in Paths \ {s} : Elsewhere(t)
    BY <1>14, <2>1, <2>2
  <2>4. \A h : (Cached(s, h)' <=> Cached(s, h)) /\ ~Stores(s, h) /\ ~Stores(s, h)'
    BY <1>5, <1>10, <2>1 DEF Cached, Known
  <2>5. ASSUME NEW t \in Paths, NEW h \in Handles
        PROVE  /\ Holds(t, h)' <=> Holds(t, h)
               /\ Stores(t, h)' => Stores(t, h) /\ SameEntry(t) /\ compiled'[t] = compiled[t]
    <3>1. CASE t = s
      BY <1>1, <2>4, <3>1 DEF Holds
    <3>2. CASE t # s
      BY <2>3, <3>2, HoldsKept, StoresKept DEF Elsewhere
    <3> QED BY <3>1, <3>2
  <2>6. HandlesRight'
    BY <2>1, <2>5, HandlesKept DEF CalmInv
  <2> QED BY <1>3, <1>12, <1>14, <2>1, <2>2, <2>6, OneScript
<1>16. CASE CompileSucceeds(c)
  <2>1. /\ call'[c].at = "storing" /\ call'[c].handle = made + 1 /\ call[c].at = "compiling"
        /\ made' = made + 1 /\ made + 1 \in Handles /\ UNCHANGED <<entries, frees>>
    BY <1>16, CalmTypes DEF CompileSucceeds, Call, Handles
  <2>2. ~\E h \in Handles : HasNew(s, h)'
    BY <1>10, <2>1
  <2>3. \A t \in Paths \ {s} : Elsewhere(t)
    BY <1>14, <2>1, <2>2
  <2>4. \A t \in Paths, h \in Handles : Cached(t, h)' <=> Cached(t, h)
    BY <2>1 DEF Cached, Known
  <2>5. \A t \in Paths \ {s}, h \in Handles : Stores(t, h)' <=> Stores(t, h)
    BY <1>8, StoresKept
  <2>6. \A h : ~Stores(s, h) /\ (Stores(s, h)' <=> h = made + 1)
    BY <1>5, <1>10, <2>1
  <2>7. \A t \in Paths, h \in Handles :
            Holds(t, h)' <=> (Holds(t, h) \/ (t = s /\ h = made + 1))
    BY <1>1, <2>4, <2>5, <2>6 DEF Holds
  <2>8. HandlesRight'
    <3>1. made \in Nat /\ frees \in [Handles -> Nat]
      BY CalmTypes
    <3> SUFFICES ASSUME NEW h \in Handles
                 PROVE  /\ frees'[h] <= 1
                        /\ h > made' => frees'[h] = 0
                        /\ h <= made' /\ frees'[h] = 0 => \E t \in Paths : Holds(t, h)'
                        /\ \A t \in Paths : Holds(t, h)' => h <= made' /\ frees'[h] = 0
                        /\ \A r, t \in Paths : Holds(r, h)' /\ Holds(t, h)' => r = t
                        /\ \A t \in Paths : Stores(t, h)' => compiled'[t] # h /\ ~Cached(t, h)'
      BY DEF HandlesRight
    <3>2. h \in Nat
      BY DEF Handles
    <3>3. /\ frees[h] <= 1
          /\ h > made => frees[h] = 0
          /\ h <= made /\ frees[h] = 0 => \E t \in Paths : Holds(t, h)
          /\ \A t \in Paths : Holds(t, h) => h <= made /\ frees[h] = 0
          /\ \A r, t \in Paths : Holds(r, h) /\ Holds(t, h) => r = t
          /\ \A t \in Paths : Stores(t, h) => compiled[t] # h /\ ~Cached(t, h)
      BY DEF CalmInv, HandlesRight
    <3>4. CASE h = made + 1
      <4>1. \A t \in Paths : ~Holds(t, h)
        BY <3>1, <3>2, <3>3, <3>4
      <4>2. frees[h] = 0 /\ h <= made' /\ ~(h > made')
        BY <2>1, <3>1, <3>3, <3>4
      <4>3. \A t \in Paths : compiled'[t] # h /\ ~Cached(t, h)'
        BY <1>1, <2>4, <4>1 DEF Holds
      <4> QED BY <1>3, <2>1, <2>7, <3>4, <4>1, <4>2, <4>3
    <3>5. CASE h # made + 1
      <4>1. (h <= made' <=> h <= made) /\ (h > made' <=> h > made)
        BY <2>1, <3>1, <3>2, <3>5
      <4>2. \A t \in Paths : Holds(t, h)' <=> Holds(t, h)
        BY <2>7, <3>5
      <4>3. \A t \in Paths : Stores(t, h)' => compiled'[t] # h /\ ~Cached(t, h)'
        BY <1>1, <2>4, <2>5, <2>6, <3>3, <3>5
      <4> QED BY <2>1, <3>3, <4>1, <4>2, <4>3
    <3> QED BY <3>4, <3>5
  <2> QED BY <1>3, <1>12, <1>14, <2>1, <2>2, <2>8, OneScript
<1>17. CASE StoreAnew(c)
  <2>1. /\ call[c].at = "storing" /\ call'[c].at = "returned" /\ call'[c].handle = g
        /\ made' = made /\ g \in Handles
    BY <1>17, <1>b, CalmTypes DEF StoreAnew, Return, Call, IInv, CacheGood, CallsKnow
  <2>2. IF compiled[s] = NoHandle THEN ~Known(KeyOf(s)) ELSE Cached(s, compiled[s])
    BY <1>3, <1>5, Unknown
  <2>3. Known(KeyOf(s)) => entries[KeyOf(s)].refs = 1
    BY <1>3 DEF ScriptRight, CacheRight
  <2>4. UnreferencedAt(KeyOf(s)) = {}
    BY <2>3 DEF UnreferencedAt, Known
  <2>5. frees' = frees
    BY <1>4, <1>17, <2>4, CalmTypes DEF StoreAnew
  <2>6. entries' = [k \in DOMAIN entries \cup {KeyOf(s)} |->
                        IF k = KeyOf(s) THEN [handle |-> g, hash |-> call[c].text, refs |-> 1]
                        ELSE entries[k]]
    BY <1>4, <1>17, <1>b DEF StoreAnew, Stored
  <2>7. /\ Known(KeyOf(s))' /\ entries'[KeyOf(s)].refs = 1
        /\ \A h : Cached(s, h)' <=> h = g
    BY <2>6 DEF Known, Cached
  <2>8. \A t \in Paths \ {s} : SameEntry(t)
    <3>1. \A t \in Paths \ {s} : KeyOf(t) # KeyOf(s)
      BY <1>3, KeysDiffer
    <3> QED BY <2>6, <3>1 DEF SameEntry
  <2>9. \A t \in Paths \ {s} : Elsewhere(t)
    BY <1>1, <1>7, <1>8, <2>8 DEF Elsewhere
  <2>10. compiled[s] # g /\ ~Cached(s, g)
    BY <1>3, <1>5, <1>b, <2>1 DEF CalmInv, HandlesRight
  <2>11. ScriptRight(s)'
    <3>1. Missing(s)'
      BY <1>13, <2>1
    <3>2. CacheRight(s)'
      BY <1>1, <1>10, <2>1, <2>7, <2>10 DEF CacheRight
    <3> QED BY <1>11, <3>1, <3>2 DEF ScriptRight
  <2>12. HandlesRight'
    <3>1. \A h \in Handles : Cached(s, h) => compiled[s] = h
      BY <2>2 DEF Cached
    <3>2. \A h : Stores(s, h) <=> h = g
      BY <1>5, <1>b, <2>1
    <3>3. \A h : ~Stores(s, h)'
      BY <1>10, <2>1
    <3>4. \A h \in Handles : Holds(s, h)' <=> Holds(s, h)
      BY <1>1, <2>7, <3>1, <3>2, <3>3 DEF Holds
    <3> QED BY <1>3, <2>1, <2>5, <2>9, <3>3, <3>4, HandlesMoved DEF CalmInv
  <2>13. Keyed'
    BY <1>3, <2>6 DEF CalmInv, Keyed
  <2> QED BY <1>3, <1>12, <2>9, <2>11, <2>12, <2>13, OneScript
<1>18. ~LookupHit(c) /\ ~StoreAgrees(c)
  BY <1>4 DEF LookupHit, StoreAgrees
<1> QED BY <1>1, <1>15, <1>16, <1>17, <1>18 DEF InCache

\* A snapshot has every instance of the script.
LEMMA WholeSnapshot ==
  ASSUME IsFiniteSet(Instances), NEW s \in Paths, NEW order \in SetToSeqs(InstancesOf(s))
  PROVE  {order[n] : n \in 1..Len(order)} = InstancesOf(s)
<1> DEFINE T == InstancesOf(s)
           N == Cardinality(T)
<1>1. /\ Len(order) = N /\ N \in Nat /\ \A n \in 1..N : order[n] \in T
      /\ \A m, n \in 1..N : order[m] = order[n] => m = n
  BY Snapshot
<1>2. order \in [1..N -> T]
  BY DEF SetToSeqs
<1>3. IsFiniteSet(T)
  <2>1. T \subseteq Instances
    BY DEF InstancesOf, Instances, NoScript
  <2> QED BY <2>1, FS_Subset
<1> HIDE DEF T, N
<1>4. N = Cardinality(T) /\ IsFiniteSet(1..N) /\ Cardinality(1..N) = N
  BY <1>1, FS_Interval DEF N
<1>5. order \in Injection(1..N, T)
  BY <1>1, <1>2 DEF Injection, IsInjective
<1>6. order \in Surjection(1..N, T)
  BY <1>3, <1>4, <1>5, FS_Injection
<1>7. \A i \in T : \E n \in 1..N : order[n] = i
  BY <1>6 DEF Surjection
<1> QED BY <1>1, <1>7 DEF T

LEMMA CalmQueues ==
  ASSUME IInv, IInv', CalmInv, NEW w \in Workers, QueueJob(w)
  PROVE  CalmInv'
<1>a. PICK s : s = call[w].key[1]
  OBVIOUS
<1>b. PICK h : h = call[w].handle
  OBVIOUS
<1>c. PICK l : l = lastJob + 1
  OBVIOUS
<1>1. /\ call[w].at = "returned" /\ h # NoHandle /\ w \in Callers /\ seen[w] # Unread
      /\ w # Main
  BY <1>b, MainWorker DEF QueueJob, IInv, SeenReturned
<1>2. s \in Paths /\ Asks(w, s) /\ ScriptRight(s) /\ h \in Handles
  BY <1>1, <1>a, <1>b, CalmTypes DEF Asks, CalmInv, Call
<1>3. PICK order \in SetToSeqs(InstancesOf(s)) :
          jobs' = [jobs EXCEPT ![l] =
                      [script |-> s, new |-> h, old |-> seen[w],
                       snapshot |-> order, swapped |-> 0, failed |-> FALSE, missed |-> {}]]
  BY <1>a, <1>b, <1>c DEF QueueJob
<1> DEFINE e == [script |-> s, new |-> h, old |-> seen[w],
                 snapshot |-> order, swapped |-> 0, failed |-> FALSE, missed |-> {}]
<1>4. /\ e.script = s /\ e.new = h /\ e.old = seen[w] /\ e.snapshot = order /\ e.swapped = 0
      /\ e.failed = FALSE /\ jobs' = [jobs EXCEPT ![l] = e]
  BY <1>3
<1> HIDE DEF e
<1>5. /\ pending' = Append(pending, l) /\ seen' = [seen EXCEPT ![w] = Unread]
      /\ call' = [call EXCEPT ![w] = Idle] /\ lastJob' = l
      /\ UNCHANGED <<entries, made, frees, compiled, script, foreign, wanted, disk, tasks>>
      /\ active' = active
  BY <1>c DEF QueueJob, Leave, scriptVars, instVars
<1>6. l \in JobIds /\ l \notin Live
  <2>1. lastJob \in Nat /\ l \in 0..MaxReloads
    BY <1>5 DEF IInv, JobsNumbered
  <2> QED BY <1>c, <2>1, CalmTypes DEF JobIds
<1>7. jobs'[l] = e /\ \A j \in Live : jobs'[j] = jobs[j] /\ j # l
  BY <1>4, <1>6, CalmTypes
<1>8. Live' = Live \cup {l}
  <2>1. pending \in Seq(JobIds)
    BY DEF IInv, JobsNumbered
  <2>2. /\ Len(pending) \in Nat /\ Len(pending') = Len(pending) + 1
        /\ \A n \in 1..Len(pending) : pending'[n] = pending[n]
        /\ pending'[Len(pending) + 1] = l
    BY <1>5, <1>6, <2>1, Appended
  <2>3. \A n \in 1..Len(pending') : n \in 1..Len(pending) \/ n = Len(pending) + 1
    BY <2>2
  <2>4. 1..Len(pending) \subseteq 1..Len(pending')
    BY <2>2
  <2>5. Len(pending) + 1 \in 1..Len(pending')
    BY <2>2
  <2>6. pending' \in Seq(JobIds)
    BY DEF IInv, JobsNumbered
  <2>7. DOMAIN pending = 1..Len(pending) /\ DOMAIN pending' = 1..Len(pending')
    BY <2>1, <2>6
  <2>8. ToSet(pending') = ToSet(pending) \cup {l}
    BY <2>2, <2>3, <2>4, <2>5, <2>7 DEF ToSet
  <2> QED BY <1>5, <2>8 DEF Live
<1>9. /\ tasks[s] = 0 /\ JobsOf(s) = {} /\ \A d \in Callers \ {w} : ~Asks(d, s)
      /\ \A g : HasNew(s, g) <=> h = g
      /\ \A g : ~Stores(s, g)
  BY <1>1, <1>2, <1>b, Alone DEF ScriptRight
<1>10. JobsOf(s)' = {l} /\ \A t \in Paths \ {s} : SameJobs(t)
  BY <1>2, <1>4, <1>7, <1>8, <1>9 DEF JobsOf, SameJobs
<1>11. /\ call'[w].at = "out" /\ \A d \in Callers \ {w} : call'[d] = call[d]
       /\ \A t : ~Asks(w, t)'
  BY <1>1, <1>5, CalmTypes DEF Idle, Asks
<1>12. \A t \in Paths : SameEntry(t) /\ SameInstances(t)
  BY <1>5, Alike
<1>13. \A t \in Paths \ {s} : Elsewhere(t)
  <2>1. \A t \in Paths \ {s} : ~Asks(w, t)
    BY <1>2 DEF Asks
  <2>2. \A v \in Workers \ {w} : seen'[v] = seen[v]
    BY <1>5, CalmTypes
  <2> QED BY <1>1, <1>5, <1>10, <1>11, <1>12, <2>1, <2>2, OtherCaller DEF Elsewhere
<1>14. \A c \in Callers : ~Asks(c, s)'
  BY <1>2, <1>9, <1>11 DEF Asks
<1>15. \A g : (HasNew(s, g)' <=> h = g) /\ ~Stores(s, g)'
  BY <1>4, <1>7, <1>10, <1>14 DEF HasNew, Stores
<1>16. InstancesOf(s)' = InstancesOf(s) /\ \A i \in InstancesOf(s) : foreign'[i] = foreign[i]
  BY <1>2, <1>12 DEF SameInstances
<1>17. ScriptRight(s)'
  <2>1. OneAtATime(s)' /\ Missing(s)'
    BY <1>5, <1>9, <1>10, <1>14, MainWorker DEF OneAtATime, Missing
  <2>2. CacheRight(s)'
    <3>1. Known(KeyOf(s))' <=> Known(KeyOf(s))
      BY <1>2, <1>12, CachedKept
    <3>2. \A g : Cached(s, g)' <=> Cached(s, g)
      BY <1>2, <1>12, CachedKept
    <3> QED BY <1>2, <1>5, <1>9, <1>15, <3>1, <3>2 DEF ScriptRight, CacheRight
  <2>3. OldRight(s)'
    <3>1. seen[w] = compiled[s]
      BY <1>1, <1>2 DEF ScriptRight, OldRight
    <3> QED BY <1>1, <1>4, <1>5, <1>7, <1>10, <1>14, <3>1, MainWorker DEF OldRight
  <2>4. SnapshotRight(s)'
    <3>1. IsFiniteSet(Instances)
      BY DEF IInv
    <3>2. {order[n] : n \in 1..Len(order)} = InstancesOf(s)
      BY <1>2, <3>1, WholeSnapshot
    <3>3. \A m, n \in 1..Len(order) : order[m] = order[n] => m = n
      BY <1>2, <3>1, Snapshot
    <3> QED BY <1>4, <1>7, <1>10, <1>16, <3>2, <3>3 DEF SnapshotRight
  <2>5. InstancesRight(s)'
    <3>1. \A i : ~Swapped(l, i)'
      BY <1>4, <1>7 DEF Swapped
    <3> QED BY <1>2, <1>5, <1>9, <1>10, <1>16, <3>1 DEF ScriptRight, InstancesRight
  <2> QED BY <2>1, <2>2, <2>3, <2>4, <2>5 DEF ScriptRight
<1>18. HandlesRight'
  <2>1. ASSUME NEW t \in Paths, NEW g \in Handles
        PROVE  /\ Holds(t, g)' <=> Holds(t, g)
               /\ Stores(t, g)' => Stores(t, g) /\ SameEntry(t) /\ compiled'[t] = compiled[t]
    <3>1. CASE t = s
      BY <1>5, <1>9, <1>12, <1>15, <3>1, CachedKept DEF Holds
    <3>2. CASE t # s
      BY <1>13, <3>2, HoldsKept, StoresKept DEF Elsewhere
    <3> QED BY <3>1, <3>2
  <2> QED BY <1>5, <2>1, HandlesKept DEF CalmInv
<1>19. Keyed' /\ WantedRight' /\ GoneRight'
  BY <1>1, <1>5, <1>11, MainWorker DEF CalmInv, Keyed, WantedRight, GoneRight
<1> QED BY <1>2, <1>13, <1>17, <1>18, <1>19, OneScript

-----------------------------------------------------------------------------
(* Undisturbed: flush_frame() *)

\* The end of a job: every instance has its new handle, the script gets it too, and the
\* old one is freed.
LEMMA Finishing ==
  ASSUME IInv, CalmInv, NEW j \in Live, NEW s \in Paths, s = jobs[j].script,
         compiled' = Applied(j), frees' = OldFreed(j),
         UNCHANGED <<entries, call, made, script, wanted, disk, tasks, seen>>,
         Live' = Live \ {j}, \A k \in Live \ {j} : jobs'[k] = jobs[k],
         \A i \in Insts \ InstancesOf(s) : foreign'[i] = foreign[i],
         \A i \in InstancesOf(s) : foreign'[i] = jobs[j].new
  PROVE  CalmInv'
<1>1. ScriptRight(s) /\ JobsOf(s) = {j} /\ tasks[s] = 0 /\ jobs[j].new \in Handles
  <2>1. ScriptRight(s) /\ j \in JobsOf(s) /\ jobs[j] \in Job
    BY CalmTypes DEF CalmInv, JobsOf
  <2> QED BY <2>1 DEF ScriptRight, OneAtATime, OldRight, Job
<1>2. PICK new \in Handles : new = jobs[j].new
  BY <1>1
<1>3. \A c \in Callers : ~Asks(c, s)
  BY <1>1 DEF ScriptRight, OneAtATime
<1>4. /\ \A h : HasNew(s, h) <=> h = new
      /\ \A h : ~Stores(s, h)
  BY <1>1, <1>2, <1>3 DEF HasNew, Stores
<1>5. Cached(s, new) /\ compiled[s] # new /\ entries[KeyOf(s)].refs = 1
  BY <1>1, <1>2, <1>4 DEF ScriptRight, CacheRight, Cached
<1>6. /\ compiled'[s] = new /\ \A t \in Paths \ {s} : compiled'[t] = compiled[t]
      /\ frees' = IF compiled[s] = NoHandle THEN frees ELSE Freed(compiled[s])
  <2>1. jobs[j].old = compiled[s]
    BY <1>1 DEF ScriptRight, OldRight
  <2> QED BY <1>2, <2>1, CalmTypes DEF Applied, OldFreed
<1>7. \A t \in Paths : SameCalls(t) /\ SameEntry(t)
  BY Alike
<1>8. \A t \in Paths \ {s} : SameJobs(t) /\ SameInstances(t)
  <2>1. \A t \in Paths \ {s} : JobsOf(t)' = JobsOf(t) /\ \A k \in JobsOf(t) : jobs'[k] = jobs[k]
    BY DEF JobsOf
  <2>2. \A t \in Paths \ {s} : SameInstances(t)
    BY DEF SameInstances, InstancesOf
  <2> QED BY <2>1, <2>2 DEF SameJobs
<1>9. \A t \in Paths \ {s} : Elsewhere(t)
  BY <1>6, <1>7, <1>8 DEF Elsewhere
<1>10. JobsOf(s)' = {}
  <2>1. \A k \in Live \ {j} : jobs[k].script # s
    BY <1>1 DEF JobsOf
  <2> QED BY <2>1 DEF JobsOf
<1>11. \A c \in Callers : ~Asks(c, s)'
  BY <1>3, <1>7 DEF SameCalls
<1>12. \A h : ~HasNew(s, h)' /\ ~Stores(s, h)' /\ (Cached(s, h)' <=> Cached(s, h))
  BY <1>7, <1>10, <1>11, CachedKept DEF HasNew, Stores
<1>13. ScriptRight(s)'
  <2>1. OneAtATime(s)' /\ Missing(s)' /\ OldRight(s)' /\ SnapshotRight(s)'
    BY <1>1, <1>10, <1>11, MainWorker DEF OneAtATime, Missing, OldRight, SnapshotRight
  <2>2. CacheRight(s)'
    <3>1. Cached(s, compiled[s])' /\ new # NoHandle
      BY <1>5, <1>6 DEF Cached, Known, Handles, NoHandle
    <3> QED BY <1>5, <1>6, <1>12, <3>1 DEF CacheRight
  <2>3. InstancesRight(s)'
    <3>1. InstancesOf(s)' = InstancesOf(s) /\ new # NoHandle
      BY DEF InstancesOf, Handles, NoHandle
    <3> QED BY <1>2, <1>6, <1>10, <3>1 DEF InstancesRight
  <2> QED BY <2>1, <2>2, <2>3 DEF ScriptRight
<1>14. HandlesRight'
  <2>1. \A h : Holds(s, h)' <=> h = new
    BY <1>5, <1>6, <1>12 DEF Holds, Cached
  <2>2. \A h : Holds(s, h) <=> (h = new \/ h = compiled[s])
    BY <1>4, <1>5 DEF Holds, Cached
  <2>3. ASSUME NEW h \in Handles
        PROVE  frees'[h] = IF Holds(s, h) /\ ~Holds(s, h)' THEN frees[h] + 1 ELSE frees[h]
    BY <1>5, <1>6, <2>1, <2>2, CalmTypes DEF Freed, Handles, NoHandle
  <2> QED BY <1>9, <1>12, <2>1, <2>2, <2>3, HandlesMoved DEF CalmInv
<1>15. Keyed' /\ WantedRight'
  BY DEF CalmInv, Keyed, WantedRight
<1>16. GoneRight'
  BY DEF CalmInv, GoneRight, InstancesOf, NoScript
<1> QED BY <1>9, <1>13, <1>14, <1>15, <1>16, OneScript

LEMMA CalmAdopts ==
  ASSUME IInv, CalmInv, Adopt
  PROVE  CalmInv'
<1>a. PICK j : j = Head(pending)
  OBVIOUS
<1>1. /\ pending # <<>> /\ pending' = Tail(pending)
      /\ IF Entries(j) = <<>>
         THEN compiled' = Applied(j) /\ frees' = OldFreed(j) /\ UNCHANGED active
         ELSE active' = active \cup {j} /\ UNCHANGED <<compiled, frees>>
      /\ UNCHANGED <<entries, call, made, disk, seen, tasks, script, foreign, wanted, jobs>>
  BY <1>a DEF Adopt, Entries, instVars, workVars
<1>2. /\ Len(pending) \in Nat \ {0} /\ j = pending[1] /\ j \in JobIds
      /\ pending \in Seq(JobIds) /\ pending' \in Seq(JobIds)
      /\ Len(pending') = Len(pending) - 1
      /\ \A n \in 1..Len(pending') : pending'[n] = pending[n + 1]
  BY <1>1, <1>a, HeadTail DEF IInv, JobsNumbered
<1>3. ToSet(pending) = ToSet(pending') \cup {j} /\ j \notin ToSet(pending')
  <2>1. DOMAIN pending = 1..Len(pending) /\ DOMAIN pending' = 1..Len(pending')
    BY <1>2
  <2>2. \A n \in 1..Len(pending') : n + 1 \in 1..Len(pending) /\ n + 1 # 1
    BY <1>2
  <2>3. 1 \in 1..Len(pending)
        /\ \A n \in 1..Len(pending) : n = 1 \/ (n - 1 \in 1..Len(pending') /\ n = (n - 1) + 1)
    BY <1>2
  <2>4. \A m, n \in 1..Len(pending) : pending[m] = pending[n] => m = n
    BY DEF IInv, JobsNumbered
  <2>5. j \notin ToSet(pending')
    BY <1>2, <2>1, <2>2, <2>3, <2>4 DEF ToSet
  <2>6. ToSet(pending') \subseteq ToSet(pending) /\ j \in ToSet(pending)
    <3>1. \A n \in 1..Len(pending') : pending'[n] \in ToSet(pending)
      <4>1. \A n \in 1..Len(pending) : pending[n] \in ToSet(pending)
        BY <2>1 DEF ToSet
      <4> QED BY <1>2, <2>2, <4>1
    <3>2. j \in ToSet(pending)
      BY <1>2, <2>1, <2>3 DEF ToSet
    <3> QED BY <2>1, <3>1, <3>2 DEF ToSet
  <2>7. ASSUME NEW n \in 1..Len(pending), n # 1 PROVE pending[n] \in ToSet(pending')
    <3>1. PICK m \in 1..Len(pending') : n = m + 1
      BY <2>3, <2>7
    <3>2. pending[n] = pending'[m]
      BY <1>2, <3>1
    <3> QED BY <2>1, <3>2 DEF ToSet
  <2>8. ToSet(pending) \subseteq ToSet(pending') \cup {j}
    BY <1>2, <2>1, <2>7 DEF ToSet
  <2> QED BY <2>5, <2>6, <2>8
<1>4. j \in Live /\ j \notin active
  BY <1>3 DEF Live, IInv, JobsAccounted
<1>5. CASE Entries(j) = <<>>
  <2>1. PICK s \in Paths : s = jobs[j].script
    BY <1>4, CalmTypes
  <2>2. Live' = Live \ {j}
    BY <1>1, <1>3, <1>4, <1>5 DEF Live
  <2>3. InstancesOf(s) = {}
    <3>1. Len(jobs[j].snapshot) = 0
      BY <1>2, <1>5, StagedEntries DEF IInv
    <3>2. j \in JobsOf(s) /\ SnapshotRight(s)
      BY <1>4, <2>1 DEF JobsOf, CalmInv, ScriptRight
    <3> QED BY <3>1, <3>2 DEF SnapshotRight
  <2> QED BY <1>1, <1>4, <1>5, <2>1, <2>2, <2>3, Finishing
<1>6. CASE Entries(j) # <<>>
  <2>1. Live' = Live
    BY <1>1, <1>3, <1>6 DEF Live
  <2>2. \A t \in Paths : SameJobs(t)
    BY <1>1, <2>1 DEF SameJobs, JobsOf
  <2>3. \A t \in Paths : Elsewhere(t)
    BY <1>1, <1>6, <2>2, Alike DEF Elsewhere
  <2>4. Keyed' /\ WantedRight' /\ GoneRight'
    BY <1>1 DEF CalmInv, Keyed, WantedRight, GoneRight
  <2> QED BY <1>1, <1>6, <2>3, <2>4, AllElsewhere
<1> QED BY <1>5, <1>6

\* One instance is swapped, and with the last one the job ends.
LEMMA CalmStages ==
  ASSUME Allowed = {}, IInv, CalmInv, NEW ok \in BOOLEAN, Stage(ok)
  PROVE  CalmInv'
<1>a. PICK j : j = Head(stage).job
  OBVIOUS
<1>b. PICK i : i = Head(stage).inst
  OBVIOUS
<1>1. /\ j \in active /\ i \in Insts
      /\ jobs[j].swapped + 1 <= Len(jobs[j].snapshot)
      /\ i = jobs[j].snapshot[jobs[j].swapped + 1]
  BY <1>a, <1>b, Swapping DEF IInv
<1>2. j \in Live /\ j \in JobIds
  BY <1>1, CalmTypes DEF Live
<1>3. PICK J \in Job : J = jobs[j]
  BY <1>2, CalmTypes
<1>4. PICK s \in Paths : s = J.script
  BY <1>2, <1>3, CalmTypes
<1>5. ScriptRight(s) /\ j \in JobsOf(s)
  BY <1>2, <1>3, <1>4 DEF JobsOf, CalmInv
<1>6. /\ JobsOf(s) = {j} /\ tasks[s] = 0
      /\ J.old = compiled[s] /\ J.new # NoHandle /\ J.failed = FALSE
      /\ {J.snapshot[n] : n \in 1..Len(J.snapshot)} = InstancesOf(s)
      /\ \A m, n \in 1..Len(J.snapshot) : J.snapshot[m] = J.snapshot[n] => m = n
      /\ \A k \in InstancesOf(s) : foreign[k] = IF Swapped(j, k) THEN J.new ELSE compiled[s]
      /\ compiled[s] # NoHandle \/ InstancesOf(s) = {}
  <2>1. JobsOf(s) = {j} /\ tasks[s] = 0
    BY <1>5 DEF ScriptRight, OneAtATime
  <2>2. J.old = compiled[s] /\ J.new # NoHandle /\ J.failed = FALSE
    BY <1>3, <1>5 DEF ScriptRight, OldRight, Job
  <2>3. /\ {J.snapshot[n] : n \in 1..Len(J.snapshot)} = InstancesOf(s)
        /\ \A m, n \in 1..Len(J.snapshot) : J.snapshot[m] = J.snapshot[n] => m = n
    BY <1>3, <1>5 DEF ScriptRight, SnapshotRight
  <2>4. /\ \A k \in InstancesOf(s) : foreign[k] = IF Swapped(j, k) THEN J.new ELSE compiled[s]
        /\ compiled[s] # NoHandle \/ InstancesOf(s) = {}
    BY <1>3, <1>5 DEF ScriptRight, InstancesRight
  <2> QED BY <2>1, <2>2, <2>3, <2>4
<1>7. PICK d \in Nat, N \in Nat : d = J.swapped + 1 /\ N = Len(J.snapshot)
  BY DEF Job
<1>8. /\ d \in 1..N /\ i = J.snapshot[d] /\ i \in InstancesOf(s) /\ J.swapped = d - 1
      /\ J.swapped \in Nat
  <2>1. d \in 1..N /\ i = J.snapshot[d] /\ J.swapped = d - 1 /\ J.swapped \in Nat
    BY <1>1, <1>3, <1>7 DEF Job
  <2> QED BY <1>6, <1>7, <2>1
<1>9. ok = TRUE
  BY DEF Stage
<1>10. PICK K : /\ K.swapped = d /\ K.snapshot = J.snapshot /\ K.script = J.script
                /\ K.old = J.old /\ K.new = J.new /\ K.failed = FALSE
                /\ jobs' = [jobs EXCEPT ![j] = K]
  <2>1. AnyFailed(J.failed, ok) = FALSE
    BY <1>6, <1>9 DEF AnyFailed
  <2>2. PICK m : m = J.missed
    OBVIOUS
  <2> DEFINE K == [J EXCEPT !.swapped = d, !.failed = FALSE, !.missed = m]
  <2>3. jobs' = [jobs EXCEPT ![j] = K]
    BY <1>3, <1>7, <1>9, <1>a, <2>1, <2>2 DEF Stage
  <2>4. /\ K.swapped = d /\ K.snapshot = J.snapshot /\ K.script = J.script
        /\ K.old = J.old /\ K.new = J.new /\ K.failed = FALSE
    BY DEF Job
  <2> HIDE DEF K
  <2> QED BY <2>3, <2>4
<1>11. jobs'[j] = K /\ \A k \in JobIds \ {j} : jobs'[k] = jobs[k]
  BY <1>2, <1>10, CalmTypes
<1>12. /\ UNCHANGED <<call, disk, tasks, seen, script, wanted, pending, made, entries>>
       /\ foreign' = [foreign EXCEPT ![i] = J.new]
       /\ active' = IF d >= N THEN active \ {j} ELSE active
       /\ IF d >= N THEN compiled' = Applied(j) /\ frees' = OldFreed(j)
          ELSE UNCHANGED <<compiled, frees>>
  <2>1. script[i] # NoScript
    BY <1>8 DEF InstancesOf, NoScript
  <2>2. AnyFailed(jobs[j].failed, ok) = FALSE
    BY <1>3, <1>6, <1>9 DEF AnyFailed
  <2>3. /\ UNCHANGED <<call, disk, tasks, seen, script, wanted, pending>>
        /\ foreign' = [foreign EXCEPT ![i] = J.new]
        /\ active' = IF d >= N THEN active \ {j} ELSE active
    BY <1>3, <1>7, <1>9, <1>a, <1>b, <2>1 DEF Stage, workVars, IsLast
  <2>4. CASE d >= N
    BY <1>3, <1>7, <1>a, <2>2, <2>3, <2>4 DEF Stage, IsLast
  <2>5. CASE ~(d >= N)
    BY <1>3, <1>7, <1>a, <2>2, <2>3, <2>5 DEF Stage, IsLast
  <2> QED BY <2>3, <2>4, <2>5
<1>13. \A k \in Insts : foreign'[k] = IF k = i THEN J.new ELSE foreign[k]
  BY <1>12, CalmTypes
<1>14. CASE d >= N
  <2>1. d = N
    BY <1>8, <1>14
  <2>2. Live' = Live \ {j}
    <3>1. j \notin ToSet(pending)
      BY <1>1 DEF IInv, JobsAccounted
    <3> QED BY <1>12, <1>14, <3>1 DEF Live
  <2>3. \A k \in InstancesOf(s) : foreign'[k] = J.new
    <3> SUFFICES ASSUME NEW k \in InstancesOf(s), k # i PROVE foreign[k] = J.new
      BY <1>13 DEF InstancesOf
    <3>1. PICK n \in 1..N : J.snapshot[n] = k
      BY <1>6, <1>7
    <3>2. n # d
      BY <1>8, <3>1
    <3>3. n \in 1..J.swapped
      BY <1>8, <2>1, <3>2
    <3>4. Swapped(j, k)
      BY <1>3, <3>1, <3>3 DEF Swapped
    <3> QED BY <1>6, <3>4
  <2>4. \A k \in Insts \ InstancesOf(s) : foreign'[k] = foreign[k]
    BY <1>8, <1>13
  <2>5. \A k \in Live \ {j} : jobs'[k] = jobs[k]
    BY <1>11, CalmTypes
  <2> QED BY <1>2, <1>3, <1>4, <1>12, <1>14, <2>2, <2>3, <2>4, <2>5, Finishing
<1>15. CASE ~(d >= N)
  <2>1. Live' = Live
    BY <1>12, <1>15 DEF Live
  <2>2. /\ JobsOf(s)' = {j} /\ \A t \in Paths \ {s} : SameJobs(t)
    <3>1. \A k \in Live : jobs'[k].script = jobs[k].script /\ (k = j \/ jobs'[k] = jobs[k])
      BY <1>3, <1>10, <1>11, CalmTypes
    <3>2. \A t \in Paths : JobsOf(t)' = JobsOf(t)
      BY <2>1, <3>1 DEF JobsOf
    <3>3. \A t \in Paths \ {s} : \A k \in JobsOf(t) : k # j /\ k \in Live
      BY <1>3, <1>4 DEF JobsOf
    <3> QED BY <1>6, <3>1, <3>2, <3>3 DEF SameJobs
  <2>3. /\ UNCHANGED <<compiled, frees>>
        /\ \A t \in Paths : SameCalls(t) /\ SameEntry(t) /\ InstancesOf(t)' = InstancesOf(t)
    BY <1>12, <1>15, Alike DEF InstancesOf
  <2>4. \A t \in Paths \ {s} : SameInstances(t)
    <3>1. \A t \in Paths \ {s} : i \notin InstancesOf(t)
      BY <1>8 DEF InstancesOf
    <3> QED BY <1>13, <2>3, <3>1 DEF SameInstances, InstancesOf
  <2>5. \A t \in Paths \ {s} : Elsewhere(t)
    BY <1>12, <2>2, <2>3, <2>4 DEF Elsewhere
  <2>6. \A k : Swapped(j, k)' <=> (Swapped(j, k) \/ k = i)
    <3>1. \A n \in 1..d : n \in 1..J.swapped \/ n = d
      BY <1>8
    <3>2. d \in 1..d /\ 1..J.swapped \subseteq 1..d
      BY <1>8
    <3> QED BY <1>3, <1>8, <1>10, <1>11, <3>1, <3>2 DEF Swapped
  <2>7. \A c \in Callers : ~Asks(c, s) /\ ~Asks(c, s)'
    BY <1>5, <1>6, <2>3 DEF ScriptRight, OneAtATime, SameCalls
  <2>8. \A g : /\ HasNew(s, g)' <=> HasNew(s, g)
               /\ Stores(s, g)' <=> Stores(s, g)
               /\ Cached(s, g)' <=> Cached(s, g)
    BY <1>3, <1>6, <1>10, <1>11, <2>2, <2>3, <2>7, CachedKept DEF HasNew, Stores
  <2>9. ScriptRight(s)'
    <3>1. OneAtATime(s)' /\ Missing(s)'
      BY <1>6, <1>12, <2>2, <2>7, MainWorker DEF OneAtATime, Missing
    <3>2. CacheRight(s)'
      <4>1. HasNew(s, J.new)' /\ J.new \in Handles
        BY <1>3, <1>6, <2>8 DEF HasNew, Job
      <4> QED BY <1>5, <1>12, <2>3, <2>8, <4>1 DEF ScriptRight, CacheRight, Known
    <3>3. OldRight(s)'
      BY <1>6, <1>10, <1>11, <2>2, <2>3, <2>7, MainWorker DEF OldRight
    <3>4. SnapshotRight(s)'
      <4>1. JobsOf(s)' = JobsOf(s)
            /\ \A k \in JobsOf(s) : jobs'[k].snapshot = jobs[k].snapshot
        BY <1>3, <1>6, <1>10, <1>11, <2>2
      <4> QED BY <1>5, <2>3, <4>1, SnapshotKept DEF ScriptRight
    <3>5. InstancesRight(s)'
      BY <1>6, <1>8, <1>10, <1>11, <1>13, <2>2, <2>3, <2>6 DEF InstancesRight, InstancesOf
    <3> QED BY <3>1, <3>2, <3>3, <3>4, <3>5 DEF ScriptRight
  <2>10. HandlesRight'
    <3>1. ASSUME NEW t \in Paths, NEW g \in Handles
          PROVE  /\ Holds(t, g)' <=> Holds(t, g)
                 /\ Stores(t, g)' => Stores(t, g) /\ SameEntry(t) /\ compiled'[t] = compiled[t]
      BY <2>3, CachedKept, StoresKept DEF Holds
    <3> QED BY <1>12, <2>3, <3>1, HandlesKept DEF CalmInv
  <2>11. Keyed' /\ WantedRight' /\ GoneRight'
    <3>1. script[i] # NoScript
      BY <1>8 DEF InstancesOf, NoScript
    <3> QED BY <1>12, <1>13, <3>1 DEF CalmInv, Keyed, WantedRight, GoneRight
  <2> QED BY <2>5, <2>9, <2>10, <2>11, OneScript
<1> QED BY <1>14, <1>15

LEMMA CalmNext ==
  ASSUME Allowed = {}, IInv, IInv', CalmInv, [Next]_vars
  PROVE  CalmInv'
<1>1. CASE UNCHANGED vars
  BY <1>1, CalmTurns
<1>2. CASE MainNext
  <2>1. ASSUME NEW i \in Insts, FreeInstance(i) PROVE CalmInv'
    <3>1. script[i] \in Paths
      BY <2>1, CalmTypes DEF FreeInstance
    <3> QED BY <2>1, <3>1, CalmInstances
  <2>2. ASSUME NEW s \in Paths, NEW i \in Insts, CreateInstance(s, i) PROVE CalmInv'
    BY <2>2, CalmInstances
  <2> QED BY <1>2, <2>1, <2>2, CalmCompile, CalmReturns, CalmFreeScript, CalmReload,
             CalmAdopts, CalmStages, CalmTurns DEF MainNext
<1>3. ASSUME NEW w \in Workers, WorkerNext(w) PROVE CalmInv'
  BY <1>3, CalmStarts, CalmFailed, CalmReads, CalmQueues DEF WorkerNext
<1>4. CASE \E s \in Paths : Save(s)
  BY <1>4, CalmTurns
<1>5. ASSUME NEW c \in Callers, InCacheOnly(c) PROVE CalmInv'
  BY <1>5, CalmInCache
<1> QED BY <1>1, <1>2, <1>3, <1>4, <1>5 DEF Next

LEMMA Calm == ASSUME Allowed = {} PROVE Spec => []CalmInv
<1>1. Init => CalmInv
  BY CalmInit
<1>2. IInv /\ IInv' /\ CalmInv /\ [Next]_vars => CalmInv'
  BY CalmNext
<1> QED BY <1>1, <1>2, Invariance, PTL DEF Spec

\* Without disturbances, for any number of scripts, instances, threads and reloads, no handle
\* is freed that a script, an instance, a job or the cache still uses.
THEOREM NothingFreedInUse == ASSUME Allowed = {} PROVE Spec => []NothingInUseFreed
<1>1. ASSUME IInv, CalmInv PROVE NothingInUseFreed
  <2>1. ASSUME NEW s \in Paths, NEW h \in Handles, Holds(s, h) PROVE frees[h] = 0
    BY <1>1, <2>1 DEF CalmInv, HandlesRight
  <2>2. ASSUME NEW j \in Live PROVE frees[jobs[j].new] = 0
    <3>1. PICK s \in Paths : s = jobs[j].script
      BY <1>1, CalmTypes
    <3>2. j \in JobsOf(s) /\ jobs[j].new \in Handles /\ ScriptRight(s)
      <4>1. j \in JobsOf(s) /\ ScriptRight(s) /\ jobs[j] \in Job
        BY <1>1, <3>1, CalmTypes DEF JobsOf, CalmInv
      <4> QED BY <4>1 DEF ScriptRight, OldRight, Job
    <3>3. Cached(s, jobs[j].new)
      BY <3>2 DEF HasNew, ScriptRight, CacheRight
    <3> QED BY <2>1, <3>2, <3>3 DEF Holds
  <2>3. \A s \in Paths : compiled[s] # NoHandle => frees[compiled[s]] = 0
    BY <1>1, <2>1, CalmTypes DEF Holds
  <2>4. ASSUME NEW i \in Insts, foreign[i] # NoHandle PROVE frees[foreign[i]] = 0
    <3>1. script[i] # NoScript
      BY <1>1, <2>4 DEF CalmInv, GoneRight
    <3>2. PICK s \in Paths : i \in InstancesOf(s) /\ ScriptRight(s)
      BY <1>1, <3>1, CalmTypes DEF InstancesOf, CalmInv
    <3>3. CASE JobsOf(s) = {}
      BY <2>3, <3>2, <3>3 DEF ScriptRight, InstancesRight
    <3>4. ASSUME NEW j \in JobsOf(s) PROVE frees[foreign[i]] = 0
      BY <2>2, <2>3, <3>2 DEF ScriptRight, InstancesRight, JobsOf
    <3> QED BY <3>3, <3>4
  <2>5. EntriesLive
    <3>1. ASSUME NEW k \in DOMAIN entries
          PROVE  \E s \in Paths : /\ k = KeyOf(s) /\ entries[k].handle \in Handles
                                  /\ Holds(s, entries[k].handle)
      BY <1>1, CalmTypes DEF CalmInv, Keyed, EntriesTyped, Entry, Holds, Cached, Known
    <3>2. \A h \in Handles : \A s, t \in Paths : Holds(s, h) /\ Holds(t, h) => s = t
      BY <1>1 DEF CalmInv, HandlesRight
    <3> QED BY <2>1, <3>1, <3>2 DEF EntriesLive
  <2> QED BY <2>2, <2>3, <2>4, <2>5 DEF NothingInUseFreed, Live
<1> QED BY <1>1, Calm, Invariance, PTL

\* Without disturbances, each instance of a script that is not being reloaded runs the
\* script's code: no snapshot misses one, and no swap is left out.
THEOREM EverySwapped == ASSUME Allowed = {} PROVE Spec => []AllSwapped
<1>1. ASSUME IInv, CalmInv PROVE AllSwapped
  <2> SUFFICES ASSUME NEW i \in Insts, script[i] # NoScript, ~OnItsWay(script[i])
               PROVE  foreign[i] = compiled[script[i]]
    BY DEF AllSwapped
  <2>1. PICK s \in Paths : s = script[i]
    BY <1>1, CalmTypes
  <2>2. JobsOf(s) = {} /\ i \in InstancesOf(s) /\ InstancesRight(s)
    BY <1>1, <2>1 DEF OnItsWay, JobsOf, Live, InstancesOf, CalmInv, ScriptRight
  <2> QED BY <2>1, <2>2 DEF InstancesRight
<1> QED BY <1>1, Calm, Invariance, PTL

\* Without disturbances, a handle out of use has been freed, once: what is not freed is the
\* handle of a script, an entry of the cache, or on its way there.
THEOREM HandlesSettled == ASSUME Allowed = {} PROVE Spec => []HandlesAccounted
<1>1. ASSUME IInv, CalmInv PROVE FreedOnce /\ NothingLeaks
  <2>1. FreedOnce
    BY <1>1 DEF CalmInv, HandlesRight, FreedOnce
  <2>2. NothingLeaks
    <3> SUFFICES ASSUME NEW h \in 1..made, ~(frees[h] > 0)
                 PROVE  \/ \E s \in Paths : compiled[s] = h
                        \/ \E k \in DOMAIN entries : entries[k].handle = h
                        \/ \E c \in Callers : call[c].handle = h
      BY DEF NothingLeaks
    <3>1. h \in Handles /\ h <= made /\ frees[h] = 0
      BY <1>1, CalmTypes DEF Handles
    <3>2. PICK s \in Paths : Holds(s, h)
      BY <1>1, <3>1 DEF CalmInv, HandlesRight
    <3> QED BY <3>2 DEF Holds, Cached, Stores, Known
  <2> QED BY <2>1, <2>2
<1>2. IInv /\ CalmInv => HandlesAccounted
  BY <1>1, IInvTypeOK DEF HandlesAccounted
<1> QED BY <1>2, Calm, Invariance, PTL
=============================================================================
