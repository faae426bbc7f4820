------------------------------- MODULE HotReload -------------------------------
(***************************************************************************)
(* Hot reload: PolyLangScript, its instances and HotReloadScheduler around *)
(* the compile cache.                                                      *)
(*                                                                         *)
(* The main thread loads scripts, makes and frees instances, asks for      *)
(* reloads and runs flush_frame() once a frame. A reload is a task on a    *)
(* worker thread: it compiles through the cache, reads the script's handle *)
(* and its list of instances, and queues a job. flush_frame() adopts the   *)
(* queued jobs and swaps instances, one per step, until its budget ends.   *)
(* The last swap of a job finalizes it or rolls it back.                   *)
(*                                                                         *)
(* A foreign object is stood for by the compiled handle it was made from.  *)
(* Allowed names what may happen to a script while a reload of it is in    *)
(* flight; the code lets all of it happen.                                 *)
(***************************************************************************)
EXTENDS CompileCache, SequencesExt

CONSTANTS
    Main,          \* the main thread, among Callers
    Insts,         \* script instances
    NoInst,
    Policy,        \* the sandbox policy of each script
    MaxReloads,    \* bound on the reloads of a run
    Allowed        \* disturbances of a reload in flight

Disturbances ==
    {"overlap",     \* another save, load or reload of the same script
     "unchanged",   \* a reload of a text the cache has an entry for
     "fail",        \* pl_instantiate_class returns null during the swap
     "create",      \* a new instance
     "delete",      \* an instance is freed
     "drop",        \* the script itself is freed
     "recompile"}   \* trigger_compile() of a script that has a handle

ASSUME ReloadAssumption ==
    /\ Main \in Callers
    /\ NoInst \notin Insts
    /\ Policy \in [Paths -> Caps]
    /\ MaxReloads \in Nat
    /\ Allowed \subseteq Disturbances
    /\ "none" \notin Paths      \* NoScript

VARIABLES
    disk,          \* the script's file
    text,          \* source_code_
    compiled,      \* compiled_handle_
    loaded,        \* scripts that exist
    script,        \* the script of each instance, NoScript if it does not exist
    foreign,       \* what handle foreign_instance_ was made from
    wanted,        \* instance a running _instance_create() is compiling for
    tasks,         \* reload tasks the worker pool has not started
    asked,         \* history: reloads asked for
    seen,          \* the old handle a worker has read, Unread before
    jobs, lastJob, \* ReloadJob objects, numbered in the order of creation
    pending,       \* pending_jobs_
    active,        \* active_jobs_
    stage,         \* stage_queue_
    main           \* where flush_frame() is

scriptVars == <<disk, text, compiled, loaded>>
instVars == <<script, foreign, wanted>>
workVars == <<tasks, asked, seen>>
jobVars == <<jobs, lastJob, pending, active, stage>>
vars == <<cacheVars, scriptVars, instVars, workVars, jobVars, main>>

Workers == Callers \ {Main}
NoScript == "none"
Unread == MaxHandles + 1
JobIds == 1..MaxReloads
KeyOf(s) == CacheKey(s, Policy[s])
InstancesOf(s) == {i \in Insts : script[i] = s}

NoJob == [script |-> NoScript, new |-> NoHandle, old |-> NoHandle, snapshot |-> <<>>,
          swapped |-> 0, failed |-> FALSE, missed |-> {}]

TypeOK ==
    /\ CacheTypeOK
    /\ disk \in [Paths -> Sources] /\ text \in [Paths -> Sources]
    /\ compiled \in [Paths -> Handles \cup {NoHandle}]
    /\ loaded \subseteq Paths
    /\ script \in [Insts -> Paths \cup {NoScript}]
    /\ foreign \in [Insts -> Handles \cup {NoHandle}]
    /\ wanted \in Insts \cup {NoInst}
    /\ tasks \in [Paths -> 0..MaxReloads] /\ asked \in 0..MaxReloads
    /\ seen \in [Workers -> 0..Unread]
    /\ lastJob \in 0..MaxReloads
    /\ \A j \in JobIds :
          /\ jobs[j].script \in Paths \cup {NoScript}
          /\ jobs[j].new \in Handles \cup {NoHandle}
          /\ jobs[j].old \in Handles \cup {NoHandle}
          /\ jobs[j].swapped \in 0..Len(jobs[j].snapshot)
          /\ jobs[j].missed \subseteq Insts
    /\ pending \in Seq(JobIds) /\ active \subseteq JobIds
    /\ stage \in Seq([inst : Insts, job : JobIds])
    /\ main \in {"idle", "adopt", "stage"}

Init ==
    /\ CacheInit
    /\ disk \in [Paths -> Sources] /\ text = disk
    /\ compiled = [s \in Paths |-> NoHandle] /\ loaded = Paths
    /\ script = [i \in Insts |-> NoScript] /\ foreign = [i \in Insts |-> NoHandle]
    /\ wanted = NoInst
    /\ tasks = [s \in Paths |-> 0] /\ asked = 0
    /\ seen = [w \in Workers |-> Unread]
    /\ jobs = [j \in JobIds |-> NoJob] /\ lastJob = 0
    /\ pending = <<>> /\ active = {} /\ stage = <<>>
    /\ main = "idle"

-----------------------------------------------------------------------------
(* What is in flight, and what may happen meanwhile. *)

OnItsWay(s) ==
    \/ tasks[s] > 0
    \/ \E w \in Workers : call[w].at # "out" /\ call[w].key[1] = s
    \/ \E j \in active \cup ToSet(pending) : jobs[j].script = s

May(what, s) == what \in Allowed \/ ~OnItsWay(s)
MainFree == main = "idle" /\ call[Main].at = "out"

-----------------------------------------------------------------------------
(* Main thread: scripts and instances. *)

Save(s) ==
    /\ May("overlap", s)
    /\ \E t \in Sources \ {disk[s]} : disk' = [disk EXCEPT ![s] = t]
    /\ UNCHANGED <<cacheVars, text, compiled, loaded, instVars, workVars, jobVars, main>>

\* compile_internal(): for trigger_compile(), or for the instance i that
\* _instance_create() is making of a script that has no handle yet.
Compile(s, i) ==
    /\ MainFree /\ s \in loaded /\ May("overlap", s)
    /\ compiled[s] = NoHandle \/ (i = NoInst /\ "recompile" \in Allowed)
    /\ i # NoInst => script[i] = NoScript
    /\ Ask(Main, KeyOf(s), text[s])
    /\ wanted' = i
    /\ UNCHANGED <<scriptVars, script, foreign, workVars, jobVars, main>>

Instantiated(i, s, h) ==
    /\ script' = [script EXCEPT ![i] = s]
    /\ foreign' = [foreign EXCEPT ![i] = h]

\* The compilation has returned; _instance_create() goes on with the handle.
CompileReturns ==
    LET s == call[Main].key[1]
        h == call[Main].handle
        handle == IF h = NoHandle THEN compiled[s] ELSE h IN
    /\ call[Main].at = "returned"
    /\ compiled' = [compiled EXCEPT ![s] = handle]
    /\ Leave(Main)
    /\ wanted' = NoInst
    /\ \/ wanted # NoInst /\ handle # NoHandle /\ Instantiated(wanted, s, handle)
       \/ UNCHANGED <<script, foreign>>       \* nothing to instantiate, or it failed
    /\ UNCHANGED <<entries, made, frees, disk, text, loaded, workVars, jobVars, main>>

\* _instance_create() of a script that has a handle.
CreateInstance(s, i) ==
    /\ MainFree /\ s \in loaded /\ May("create", s)
    /\ compiled[s] # NoHandle
    /\ script[i] = NoScript
    /\ Instantiated(i, s, compiled[s])
    /\ UNCHANGED <<cacheVars, scriptVars, wanted, workVars, jobVars, main>>

\* Unregisters the instance and frees its foreign object.
FreeInstance(i) ==
    /\ MainFree /\ script[i] # NoScript /\ May("delete", script[i])
    /\ script' = [script EXCEPT ![i] = NoScript]
    /\ foreign' = [foreign EXCEPT ![i] = NoHandle]
    /\ UNCHANGED <<cacheVars, scriptVars, wanted, workVars, jobVars, main>>

\* ~PolyLangScript, once the last instance is gone.
FreeScript(s) ==
    /\ MainFree /\ s \in loaded /\ May("drop", s)
    /\ InstancesOf(s) = {}
    /\ loaded' = loaded \ {s}
    /\ IF compiled[s] = NoHandle
       THEN UNCHANGED <<entries, made, frees>>
       ELSE Release(KeyOf(s))
    /\ compiled' = [compiled EXCEPT ![s] = NoHandle]
    /\ UNCHANGED <<call, disk, text, instVars, workVars, jobVars, main>>

\* _reload() and enqueue_reload(): a task for the worker pool.
Reload(s) ==
    /\ MainFree /\ s \in loaded /\ asked < MaxReloads
    /\ May("overlap", s)
    /\ "unchanged" \in Allowed \/ ~Hit(KeyOf(s), disk[s])
    /\ text' = [text EXCEPT ![s] = disk[s]]
    /\ tasks' = [tasks EXCEPT ![s] = @ + 1]
    /\ asked' = asked + 1
    /\ UNCHANGED <<cacheVars, disk, compiled, loaded, instVars, seen, jobVars, main>>

-----------------------------------------------------------------------------
(* Worker threads: compile_and_enqueue(). *)

\* The worker reads the file and calls the cache, or finds it has no adapter or
\* cannot open the file.
WorkerStarts(w, s) ==
    /\ tasks[s] > 0 /\ call[w].at = "out"
    /\ tasks' = [tasks EXCEPT ![s] = @ - 1]
    /\ \/ Ask(w, KeyOf(s), disk[s])
       \/ UNCHANGED cacheVars
    /\ UNCHANGED <<scriptVars, instVars, asked, seen, jobVars, main>>

InCacheOnly(c) ==
    /\ InCache(c)
    /\ UNCHANGED <<scriptVars, instVars, workVars, jobVars, main>>

CompileFailed(w) ==
    /\ call[w].at = "returned" /\ call[w].handle = NoHandle
    /\ Leave(w)
    /\ UNCHANGED <<entries, made, frees, scriptVars, instVars, workVars, jobVars, main>>

ReadOld(w) ==
    /\ call[w].at = "returned" /\ call[w].handle # NoHandle /\ seen[w] = Unread
    /\ seen' = [seen EXCEPT ![w] = compiled[call[w].key[1]]]
    /\ UNCHANGED <<cacheVars, scriptVars, instVars, tasks, asked, jobVars, main>>

\* snapshot_instances() walks a hash set: any order.
QueueJob(w) ==
    LET s == call[w].key[1] IN
    /\ seen[w] # Unread
    /\ main # "adopt"                            \* pending_mutex_
    /\ lastJob' = lastJob + 1
    /\ \E order \in SetToSeqs(InstancesOf(s)) :
          jobs' = [jobs EXCEPT ![lastJob'] =
                      [script |-> s, new |-> call[w].handle, old |-> seen[w],
                       snapshot |-> order, swapped |-> 0, failed |-> FALSE, missed |-> {}]]
    /\ pending' = Append(pending, lastJob')
    /\ seen' = [seen EXCEPT ![w] = Unread]
    /\ Leave(w)
    /\ UNCHANGED <<entries, made, frees, scriptVars, instVars, tasks, asked, active, stage,
                   main>>

-----------------------------------------------------------------------------
(* Main thread: flush_frame(). *)

\* Fault: the new handle is never given to the script.
NotApplied(j) == compiled
\* apply_new_compiled_handle()
Applied(j) == [compiled EXCEPT ![jobs[j].script] = jobs[j].new]

\* Fault: the old handle is left to the cache, which no longer knows it.
OldKept(j) == frees
OldFreed(j) == IF jobs[j].old = NoHandle THEN frees ELSE Freed(jobs[j].old)

FlushBegins ==
    /\ MainFree
    /\ main' = "adopt"
    /\ UNCHANGED <<cacheVars, scriptVars, instVars, workVars, jobVars>>

\* One queued job, under pending_mutex_; a job without instances ends at once.
Adopt ==
    LET j == Head(pending)
        staged == [n \in DOMAIN jobs[j].snapshot |-> [inst |-> jobs[j].snapshot[n], job |-> j]] IN
    /\ main = "adopt" /\ pending # <<>>
    /\ pending' = Tail(pending)
    /\ IF staged = <<>>
       THEN /\ compiled' = Applied(j)
            /\ frees' = OldFreed(j)
            /\ UNCHANGED <<active, stage>>
       ELSE /\ active' = active \cup {j}
            /\ stage' = stage \o staged
            /\ UNCHANGED <<compiled, frees>>
    /\ UNCHANGED <<entries, call, made, disk, text, loaded, instVars, workVars, jobs, lastJob,
                   main>>

AdoptEnds ==
    /\ main = "adopt" /\ pending = <<>>
    /\ main' = "stage"
    /\ UNCHANGED <<cacheVars, scriptVars, instVars, workVars, jobVars>>

\* Fault: the job ends with the first instance.
FirstIsLast(done, total) == done >= 1
\* Fault: the count is compared before it is incremented.
NeverLast(done, total) == done - 1 >= total
IsLast(done, total) == done >= total

\* Fault: a later success forgets an earlier failure.
LastCounts(failed, ok) == ~ok
AnyFailed(failed, ok) == failed \/ ~ok

\* The head of the stage queue: instantiate, hot_swap(), and on the last instance
\* of the job finalize_job() or rollback_job(). An instance that was freed since the
\* snapshot is swapped through its raw pointer; the outcome modelled does no harm.
Stage(ok) ==
    LET i == Head(stage).inst
        j == Head(stage).job
        done == jobs[j].swapped + 1
        failed == AnyFailed(jobs[j].failed, ok)
        last == IsLast(done, Len(jobs[j].snapshot)) IN
    /\ main = "stage" /\ stage # <<>>
    /\ ok \/ "fail" \in Allowed
    /\ stage' = Tail(stage)
    /\ jobs' = [jobs EXCEPT ![j].swapped = done, ![j].failed = failed,
                            ![j].missed = IF ok THEN @ ELSE @ \cup {i}]
    /\ foreign' = IF ok /\ script[i] # NoScript THEN [foreign EXCEPT ![i] = jobs[j].new]
                  ELSE foreign
    /\ active' = IF last THEN active \ {j} ELSE active
    /\ CASE last /\ failed ->                    \* rollback_job()
              Release(KeyOf(jobs[j].script)) /\ UNCHANGED compiled
         [] last /\ ~failed ->                   \* finalize_job()
              /\ compiled' = Applied(j)
              /\ frees' = OldFreed(j)
              /\ UNCHANGED <<entries, made>>
         [] OTHER -> UNCHANGED <<entries, made, frees, compiled>>
    /\ UNCHANGED <<call, disk, text, loaded, script, wanted, workVars, lastJob, pending, main>>

\* The queue is empty or the budget of the frame is used up.
FlushEnds ==
    /\ main = "stage"
    /\ main' = "idle"
    /\ UNCHANGED <<cacheVars, scriptVars, instVars, workVars, jobVars>>

-----------------------------------------------------------------------------
MainNext ==
    \/ \E s \in Paths :
          \/ FreeScript(s) \/ Reload(s)
          \/ \E i \in Insts \cup {NoInst} : Compile(s, i)
          \/ \E i \in Insts : CreateInstance(s, i)
    \/ \E i \in Insts : FreeInstance(i)
    \/ CompileReturns
    \/ FlushBegins \/ Adopt \/ AdoptEnds \/ (\E ok \in BOOLEAN : Stage(ok)) \/ FlushEnds

WorkerNext(w) ==
    \/ \E s \in Paths : WorkerStarts(w, s)
    \/ CompileFailed(w) \/ ReadOld(w) \/ QueueJob(w)

Next ==
    \/ \E s \in Paths : Save(s)
    \/ MainNext
    \/ \E w \in Workers : WorkerNext(w)
    \/ \E c \in Callers : InCacheOnly(c)

Spec == Init /\ [][Next]_vars

\* Threads run, adapters finish compiling, frames come, a worker gets pending_mutex_
\* some time between frames, and a frame's 2 ms do not run out before the first
\* instance every time.
FairSpec ==
    /\ Spec
    /\ \A w \in Workers : WF_vars(WorkerNext(w)) /\ SF_vars(QueueJob(w))
    /\ \A c \in Callers : WF_vars(InCacheOnly(c))
    /\ WF_vars(CompileReturns)
    /\ SF_vars(FlushBegins) /\ WF_vars(Adopt) /\ WF_vars(AdoptEnds) /\ WF_vars(FlushEnds)
    /\ SF_vars(\E ok \in BOOLEAN : Stage(ok))

-----------------------------------------------------------------------------
\* What is left to swap of j fills the stage queue from `first' on without a gap, in the
\* order of the snapshot, and is found nowhere else.
StagedFrom(j, first) ==
    LET left == Len(jobs[j].snapshot) - jobs[j].swapped IN
    /\ left > 0
    /\ {n \in DOMAIN stage : stage[n].job = j} = first..first + left - 1
    /\ \A n \in 1..left : stage[first + n - 1].inst = jobs[j].snapshot[jobs[j].swapped + n]

\* Whatever disturbs it, a job that is being swapped has exactly the instances of
\* its snapshot that are not swapped yet in the stage queue, at least one, and a
\* staged entry never refers to a job that is deleted or still queued.
JobsAccounted ==
    /\ \A n \in DOMAIN stage : stage[n].job \in active
    /\ active \cap ToSet(pending) = {}
    /\ \A j \in active : \E first \in DOMAIN stage : StagedFrom(j, first)

\* Whatever disturbs it, a job one of whose instances could not be made never
\* becomes the script's code.
FailedNeverApplied ==
    [][\A j \in active \ active' : jobs'[j].missed # {} => compiled' = compiled]_vars

\* An undisturbed reload frees no handle that a script, an instance's foreign
\* object, a queued job or the cache still uses.
NothingInUseFreed ==
    /\ \A s \in Paths : compiled[s] # NoHandle => frees[compiled[s]] = 0
    /\ \A i \in Insts : foreign[i] # NoHandle => frees[foreign[i]] = 0
    /\ \A j \in active \cup ToSet(pending) : frees[jobs[j].new] = 0
    /\ EntriesLive

\* After undisturbed reloads, each instance runs the code its script runs.
AllSwapped ==
    \A i \in Insts :
        script[i] # NoScript /\ ~OnItsWay(script[i]) => foreign[i] = compiled[script[i]]

\* Undisturbed reloads leak no compiled handle, not even when scripts are freed.
NothingLeaks ==
    \A h \in 1..made :
        \/ frees[h] > 0
        \/ \E s \in Paths : compiled[s] = h
        \/ \E k \in DOMAIN entries : entries[k].handle = h
        \/ \E c \in Callers : call[c].handle = h
        \/ \E j \in active \cup ToSet(pending) : h \in {jobs[j].new, jobs[j].old}

\* Undisturbed reloads free every handle that is out of use, and none twice.
HandlesAccounted == TypeOK /\ FreedOnce /\ NothingLeaks

\* A reload that was asked for is applied, rolled back or given up.
ReloadSettles == \A s \in Paths : OnItsWay(s) ~> ~OnItsWay(s)
=============================================================================
