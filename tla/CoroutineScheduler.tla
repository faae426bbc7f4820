-------------------------- MODULE CoroutineScheduler --------------------------
(***************************************************************************)
(* PLCoroutineScheduler composed with the signal bus it listens on.        *)
(*                                                                         *)
(* The main thread runs frames: flush_queued() of the bus, then tick().    *)
(* Scripts call the scheduler from the main thread between frames, from    *)
(* signal handlers and from on_done (MainRunsScript), and from other       *)
(* threads at any time. active_mutex_ is held by tick() from before the    *)
(* first resume to after the last one, so this region has steps of its own *)
(* (main = "resume"); every other critical section is one step.            *)
(*                                                                         *)
(* Coroutines are the bus's listener owners; time is counted in frames,    *)
(* because tick() is always called with 1/60 s.                            *)
(***************************************************************************)
EXTENDS SignalBus

CONSTANT MaxSleep      \* longest sleep, in frames

ASSUME SchedulerAssumption == MaxSleep \in Nat

Coros == Owners        \* coroutine ids; they own the native listeners

VARIABLES
    where,       \* which container holds the coroutine
    wake,        \* mc.wake
    sleep,       \* mc.sleep_remaining, in frames
    listener,    \* mc.signal_listener_id, 0 for none
    fired,       \* mc.signal_fired
    frees,       \* how often pl_coroutine_free was called on the handle
    spawn,       \* progress of spawn() for a signal coroutine, and on which thread
    main,        \* where the main thread is
    visit,       \* coroutines this tick has not visited yet
    finished,    \* finished: entries whose on_done is still to be called
    waiting,     \* history: coroutines an accepted emission must still wake
    found,       \* history: coroutines that a cancel() found
    resumed,     \* history: coroutines whose body has run
    doneCalls    \* history: how often on_done was called

coroVars == <<where, wake, sleep, listener, fired, frees>>
tickVars == <<main, visit, finished>>
runVars == <<waiting, resumed>>
historyVars == <<runVars, found, doneCalls>>
vars == <<busVars, coroVars, spawn, tickVars, historyVars>>

Wakes == {"frame", "sleep", "signal"}
NoSignal == "none"
Spawning == {"inserted", "connected"}
SpawnSteps == {"unused", "ready"} \cup Spawning
Threads == {"main", "other"}

TypeOK ==
    /\ BusTypeOK
    /\ where \in [Coros -> {"none", "pending", "active", "gone"}]
    /\ wake \in [Coros -> Wakes]
    /\ sleep \in [Coros -> 0..MaxSleep]
    /\ listener \in [Coros -> 0..MaxListeners]
    /\ fired \in [Coros -> BOOLEAN]
    /\ frees \in [Coros -> Nat]
    /\ spawn \in [Coros -> [step : SpawnSteps, by : {"main", "other"},
                            sig : Signals \cup {NoSignal}, id : 0..MaxListeners]]
    /\ main \in {"idle", "flush", "adoptPending", "adoptBoth", "adopted",
                 "resume", "finish", "shut", "stuck"}
    /\ visit \in SUBSET Coros
    /\ finished \in Seq([coro : Coros, id : 0..MaxListeners])
    /\ waiting \in SUBSET Coros
    /\ found \in SUBSET Coros
    /\ resumed \in SUBSET Coros
    /\ doneCalls \in [Coros -> Nat]

Init ==
    /\ BusInit
    /\ where = [c \in Coros |-> "none"]
    /\ wake = [c \in Coros |-> "frame"]
    /\ sleep = [c \in Coros |-> 0]
    /\ listener = [c \in Coros |-> 0]
    /\ fired = [c \in Coros |-> FALSE]
    /\ frees = [c \in Coros |-> 0]
    /\ spawn = [c \in Coros |->
                  [step |-> "unused", by |-> "main", sig |-> NoSignal, id |-> 0]]
    /\ main = "idle"
    /\ visit = {}
    /\ finished = <<>>
    /\ waiting = {}
    /\ found = {}
    /\ resumed = {}
    /\ doneCalls = [c \in Coros |-> 0]

-------------------------------------------------------------------------------
(* Who holds the scheduler's mutexes, and who may call it.                 *)

PendingHeld == main \in {"adoptPending", "adoptBoth"}
ActiveHeld == main \in {"adoptBoth", "resume", "stuck"}

(* The main thread is inside spawn() for a signal coroutine. *)
MainSpawning == \E c \in Coros : spawn[c].by = "main" /\ spawn[c].step \in Spawning

MainRunsScript ==
    /\ ~MainSpawning
    /\ \/ main \in {"idle", "finish"}
       \/ main = "flush" /\ phase = "callables"

MayCall(t) == IF t = "main" THEN MainRunsScript ELSE main # "shut"

(* Inside a coroutine's body the main thread may use whatever does not     *)
(* need active_mutex_.                                                     *)
MayCallWithoutActive(t) == MayCall(t) \/ (t = "main" /\ main = "resume")

Active == { c \in Coros : where[c] = "active" }

(* The coroutines a listener for s is registered for. *)
Listening(s) ==
    { natives[i].owner : i \in { j \in DOMAIN natives : natives[j].sig = s } }
        \ { c \in Coros : where[c] = "gone" }

-------------------------------------------------------------------------------
(* Script calls. *)

(* A script emits a signal. Every coroutine already listening for it must  *)
(* be woken by it, if the bus accepts it.                                  *)
EmitSignal(t, s) ==
    /\ MayCallWithoutActive(t)
    /\ Emit(s)
    /\ waiting' = IF QueueFull THEN waiting ELSE waiting \cup Listening(s)
    /\ UNCHANGED <<coroVars, spawn, tickVars, resumed, found, doneCalls>>

(* spawn() of anything but a named-signal coroutine: queued under          *)
(* pending_mutex_. An on-signal coroutine without a signal name also ends  *)
(* up here.                                                                *)
SpawnPending(t, c, w) ==
    /\ MayCallWithoutActive(t)
    /\ ~PendingHeld
    /\ where[c] = "none"
    /\ where' = [where EXCEPT ![c] = "pending"]
    /\ wake' = [wake EXCEPT ![c] = w]
    /\ \E n \in 0..MaxSleep :
          /\ w # "sleep" => n = 0
          /\ sleep' = [sleep EXCEPT ![c] = n]
    /\ spawn' = [spawn EXCEPT ![c].step = "ready"]
    /\ UNCHANGED <<busVars, listener, fired, frees, tickVars, historyVars>>

QueuedFirstly == "pending"                                      \* fault
InsertedInto == "active"

(* spawn() on a named signal, step 1: the entry goes into active_ first ... *)
SpawnInsert(t, c, s) ==
    /\ MayCall(t)
    /\ ~ActiveHeld
    /\ where[c] = "none"
    /\ where' = [where EXCEPT ![c] = InsertedInto]
    /\ wake' = [wake EXCEPT ![c] = "signal"]
    /\ spawn' = [spawn EXCEPT ![c] =
                   [step |-> "inserted", by |-> t, sig |-> s, id |-> 0]]
    /\ UNCHANGED <<busVars, sleep, listener, fired, frees, tickVars, historyVars>>

(* ... step 2: the listener is registered on the bus ...                   *)
SpawnConnect(c) ==
    /\ spawn[c].step = "inserted"
    /\ spawn' = [spawn EXCEPT ![c].step = "connected", ![c].id = nextListener]
    /\ ConnectNative(spawn[c].sig, c)
    /\ UNCHANGED <<coroVars, tickVars, historyVars>>

(* ... step 3: its id is written back, if the entry is still there.        *)
SpawnWriteBack(c) ==
    /\ spawn[c].step = "connected"
    /\ ~ActiveHeld
    /\ listener' = IF where[c] = "active"
                     THEN [listener EXCEPT ![c] = spawn[c].id] ELSE listener
    /\ spawn' = [spawn EXCEPT ![c].step = "ready"]
    /\ UNCHANGED <<busVars, where, wake, sleep, fired, frees, tickVars, historyVars>>

(* cancel() looks only in active_; the caller has the id only once spawn() *)
(* has returned.                                                           *)
ListenerForgotten(c) == 0                                       \* fault
ListenerOf(c) == listener[c]

Cancel(t, c) ==
    /\ MayCall(t)
    /\ ~ActiveHeld
    /\ spawn[c].step = "ready"
    /\ IF where[c] = "active"
         THEN /\ DisconnectNative({ListenerOf(c)})
              /\ frees' = [frees EXCEPT ![c] = @ + 1]
              /\ where' = [where EXCEPT ![c] = "gone"]
              /\ found' = found \cup {c}
              /\ waiting' = waiting \ {c}
         ELSE UNCHANGED <<busVars, frees, where, found, waiting>>
    /\ UNCHANGED <<wake, sleep, listener, fired, spawn, tickVars, resumed,
                   doneCalls>>

-------------------------------------------------------------------------------
(* A frame: the bus first. *)

FrameFlush ==
    /\ main = "idle"
    /\ ~MainSpawning
    /\ FlushSwap
    /\ main' = "flush"
    /\ UNCHANGED <<coroVars, spawn, visit, finished, historyVars>>

FrameDispatch ==
    /\ main = "flush"
    /\ ~MainSpawning
    /\ \/ DispatchNext \/ CallCallable \/ CopyNatives \/ DispatchDone
    /\ UNCHANGED <<coroVars, spawn, tickVars, historyVars>>

(* The listener's lambda: it locks active_mutex_ and marks the entry, if   *)
(* the entry is there. (The value sent is not modelled.)                   *)
FrameWakeListener ==
    /\ main = "flush"
    /\ CallNative
    /\ LET c == Head(todo).owner
       IN  fired' = IF where[c] = "active" THEN [fired EXCEPT ![c] = TRUE] ELSE fired
    /\ UNCHANGED <<where, wake, sleep, listener, frees, spawn, tickVars,
                   historyVars>>

(* tick(): pending_mutex_ is taken ... *)
TickLockPending ==
    /\ main = "flush"
    /\ FlushDone
    /\ main' = "adoptPending"
    /\ UNCHANGED <<coroVars, spawn, visit, finished, historyVars>>

Pending == { c \in Coros : where[c] = "pending" }

(* ... and, while it is held, active_mutex_ as well, if there is anything  *)
(* to adopt.                                                               *)
TickLockBoth ==
    /\ main = "adoptPending"
    /\ Pending # {}
    /\ main' = "adoptBoth"
    /\ UNCHANGED <<busVars, coroVars, spawn, visit, finished, historyVars>>

(* The pending coroutines are adopted and both mutexes released.           *)
TickAdopt ==
    /\ \/ main = "adoptBoth"
       \/ main = "adoptPending" /\ Pending = {}
    /\ where' = [c \in Coros |-> IF c \in Pending THEN "active" ELSE where[c]]
    /\ main' = "adopted"
    /\ UNCHANGED <<busVars, wake, sleep, listener, fired, frees, spawn, visit,
                   finished, historyVars>>

(* active_mutex_ is taken for the whole loop of resumes. *)
TickLock ==
    /\ main = "adopted"
    /\ visit' = Active
    /\ main' = "resume"
    /\ UNCHANGED <<busVars, coroVars, spawn, finished, historyVars>>

ClockStopped(c) == sleep[c]                                     \* fault
SleepAfterTick(c) == IF sleep[c] > 1 THEN sleep[c] - 1 ELSE 0

ShouldResume(c) ==
    \/ wake[c] = "frame"
    \/ wake[c] = "sleep" /\ SleepAfterTick(c) = 0
    \/ wake[c] = "signal" /\ fired[c]

TickSkip(c) ==
    /\ main = "resume"
    /\ c \in visit
    /\ ~ShouldResume(c)
    /\ visit' = visit \ {c}
    /\ sleep' = IF wake[c] = "sleep"
                  THEN [sleep EXCEPT ![c] = SleepAfterTick(c)] ELSE sleep
    /\ UNCHANGED <<busVars, where, wake, listener, fired, frees, spawn, main,
                   finished, historyVars>>

(* The body runs and suspends again; a sleeper may yield its next sleep.   *)
ResumeSuspends(c) ==
    /\ main = "resume"
    /\ c \in visit
    /\ ShouldResume(c)
    /\ visit' = visit \ {c}
    /\ fired' = [fired EXCEPT ![c] = FALSE]
    /\ \E n \in 0..MaxSleep :
          /\ wake[c] # "sleep" => n = sleep[c]
          /\ sleep' = [sleep EXCEPT ![c] = n]
    /\ waiting' = waiting \ {c}
    /\ resumed' = resumed \cup {c}
    /\ UNCHANGED <<busVars, where, wake, listener, frees, spawn, main, finished,
                   found, doneCalls>>

StillListed(c) == where                                         \* fault
Erased(c) == [where EXCEPT ![c] = "gone"]

(* The body ends (or fails): the handle is freed, the entry leaves active_ *)
(* before the mutex is released, and on_done waits for the release.        *)
ResumeEnds(c) ==
    /\ main = "resume"
    /\ c \in visit
    /\ ShouldResume(c)
    /\ visit' = visit \ {c}
    /\ fired' = [fired EXCEPT ![c] = FALSE]
    /\ frees' = [frees EXCEPT ![c] = @ + 1]
    /\ where' = Erased(c)
    /\ finished' = Append(finished, [coro |-> c, id |-> ListenerOf(c)])
    /\ waiting' = waiting \ {c}
    /\ resumed' = resumed \cup {c}
    /\ UNCHANGED <<busVars, wake, sleep, listener, spawn, main, found, doneCalls>>

(* The body calls (through call_super, say) a script that calls cancel(),  *)
(* is_running() or spawn_on_signal(): the thread locks active_mutex_ a     *)
(* second time and never returns.                                          *)
ResumeSelfLocks(c) ==
    /\ main = "resume"
    /\ c \in visit
    /\ ShouldResume(c)
    /\ main' = "stuck"
    /\ UNCHANGED <<busVars, coroVars, spawn, visit, finished, historyVars>>

TickUnlock ==
    /\ main = "resume"
    /\ visit = {}
    /\ main' = IF finished = <<>> THEN "idle" ELSE "finish"
    /\ UNCHANGED <<busVars, coroVars, spawn, visit, finished, historyVars>>

(* After the release: the listener is disconnected and on_done called.     *)
TickFinish ==
    /\ main = "finish"
    /\ ~MainSpawning
    /\ DisconnectNative({Head(finished).id})
    /\ doneCalls' = [doneCalls EXCEPT ![Head(finished).coro] = @ + 1]
    /\ finished' = Tail(finished)
    /\ main' = IF Tail(finished) = <<>> THEN "idle" ELSE "finish"
    /\ UNCHANGED <<coroVars, spawn, visit, runVars, found>>

(* shutdown(): the engine's script threads are not inside spawn() any      *)
(* more. Only active_ is emptied.                                          *)
Shutdown ==
    /\ main = "idle"
    /\ \A c \in Coros : spawn[c].step \notin Spawning
    /\ DisconnectNative({ ListenerOf(c) : c \in Active })
    /\ frees' = [c \in Coros |-> IF c \in Active THEN frees[c] + 1 ELSE frees[c]]
    /\ where' = [c \in Coros |-> IF c \in Active THEN "gone" ELSE where[c]]
    /\ waiting' = {}
    /\ main' = "shut"
    /\ UNCHANGED <<wake, sleep, listener, fired, spawn, visit, finished,
                   resumed, found, doneCalls>>

-------------------------------------------------------------------------------
Script ==
    \E t \in Threads :
        \/ \E s \in Signals : EmitSignal(t, s)
        \/ \E c \in Coros, w \in Wakes : SpawnPending(t, c, w)
        \/ \E c \in Coros, s \in Signals : SpawnInsert(t, c, s)
        \/ \E c \in Coros : Cancel(t, c)

SpawnRest == \E c \in Coros : SpawnConnect(c) \/ SpawnWriteBack(c)

Frame ==
    \/ FrameFlush \/ FrameDispatch \/ FrameWakeListener
    \/ TickLockPending \/ TickLockBoth \/ TickAdopt \/ TickLock
    \/ \E c \in Coros : TickSkip(c) \/ ResumeSuspends(c) \/ ResumeEnds(c)
    \/ TickUnlock \/ TickFinish

SelfLock == \E c \in Coros : ResumeSelfLocks(c)

Next == Script \/ SpawnRest \/ Frame \/ SelfLock \/ Shutdown

Spec == Init /\ [][Next]_vars

(* The engine runs a frame after the other, bodies and handlers return, a  *)
(* started spawn() is completed. Nobody must emit, spawn, cancel or shut   *)
(* down.                                                                   *)
FairSpec == Spec /\ WF_vars(Frame) /\ WF_vars(SpawnRest)

-------------------------------------------------------------------------------
(* Every coroutine handle is owned by exactly one of the two containers    *)
(* until it is freed, and freed once, whichever of cancel(), the end of    *)
(* the body and shutdown() does it.                                        *)
HandleFreedOnce ==
    \A c \in Coros :
        frees[c] = IF where[c] = "gone" THEN 1 ELSE 0

(* No wakeup is lost (VLN-05): a coroutine that was listening when an      *)
(* emission was accepted and has not been resumed since is marked, or the  *)
(* emission is still on its way to it. This must survive spawns, cancels   *)
(* and emissions between any two steps of the flush and the tick.          *)
NoLostWakeup ==
    \A c \in waiting :
        \/ fired[c]
        \/ \E i \in DOMAIN queue : queue[i].sig = spawn[c].sig
        \/ \E i \in DOMAIN batch : batch[i].sig = spawn[c].sig
        \/ phase = "callables" /\ cur.sig = spawn[c].sig
        \/ phase = "natives" /\ \E i \in DOMAIN todo : todo[i].owner = c

(* A listener on the bus whose coroutine was spawned on the main thread    *)
(* always has somebody who will disconnect it: the coroutine is active and *)
(* knows its id, or is about to be told, or it is in the finished list.    *)
ListenersOwned ==
    \A i \in DOMAIN natives :
        LET l == natives[i] IN
        spawn[l.owner].by = "main" =>
            \/ where[l.owner] = "active" /\ listener[l.owner] = l.id
            \/ spawn[l.owner].step = "connected"
            \/ \E j \in DOMAIN finished : finished[j].id = l.id

(* on_done is called once for a coroutine whose body ended, and never for  *)
(* one that a cancel() found.                                              *)
OnDoneOnce ==
    \A c \in Coros :
        LET calls == doneCalls[c]
                     + Cardinality({ i \in DOMAIN finished : finished[i].coro = c })
        IN  /\ calls <= 1
            /\ c \in found => calls = 0
            /\ where[c] = "gone" /\ c \notin found /\ main # "shut" => calls = 1

(* A coroutine ends once: its handle is freed once, when it leaves the     *)
(* scheduler, and its on_done called at most once.                         *)
EndedOnce == TypeOK /\ HandleFreedOnce /\ OnDoneOnce

(* The main thread is gone: shut down, or waiting for a mutex it holds     *)
(* since a coroutine's body reached the scheduler again.                   *)
NoMoreTicks == main \in {"shut", "stuck"}

(* A coroutine spawned for the next frame or after some time does run,     *)
(* unless it is cancelled or the ticks end first.                          *)
SpawnedRuns ==
    \A c \in Coros :
        (where[c] = "pending" /\ wake[c] # "signal")
            ~> (c \in resumed \cup found \/ NoMoreTicks)

(* A coroutine that an accepted emission must wake is resumed or cancelled,*)
(* or the ticks end.                                                       *)
EmissionWakes == \A c \in Coros : c \in waiting ~> (c \notin waiting \/ NoMoreTicks)

(* What is due is resumed: after its time, or after an emission.           *)
DueIsResumed == SpawnedRuns /\ EmissionWakes

===============================================================================
