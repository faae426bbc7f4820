----------------------------- MODULE ResourceBridge -----------------------------
(***************************************************************************)
(* PLResourceBridge: resources are loaded on the main thread only. A fetch *)
(* from another thread queues a request that points into its own stack     *)
(* frame (out, the mutex, the condition variable and the done flag) and    *)
(* waits; flush(), once a frame, answers the requests; shutdown() releases *)
(* the waiters. The wait ends after two seconds when nobody answers.       *)
(*                                                                         *)
(* A request that outlives its fetch points into a dead frame. What a      *)
(* write through it does is undefined; the outcomes modelled are that it   *)
(* does no harm, or that it lands in the frame of the same thread's next   *)
(* fetch, which lies at the same addresses.                                *)
(*                                                                         *)
(* Every caller in the plugin fetches with the trusted tier, to which      *)
(* check_access() denies nothing, so tiers are left out. A resource is     *)
(* its path.                                                               *)
(***************************************************************************)
EXTENDS Naturals, Sequences, FiniteSets

CONSTANTS
    Threads,      \* threads other than the main thread
    Paths,        \* resource paths
    MaxFetches    \* bound on the fetches of a run

ASSUME ResourceAssumption == MaxFetches \in Nat \ {0}

VARIABLES
    fetch,        \* each thread's fetch: its stack frame, and its number
    fetches,      \* history: how many there were
    cache,        \* cache_: the paths whose resource is held
    queue,        \* deferred_queue_
    batch,        \* the requests flush() or shutdown() swapped out
    stage,        \* where the main thread is
    shutdownFlag, \* shutdown_flag_
    late          \* history: threads one of whose fetches timed out

mainVars == <<queue, batch, stage, shutdownFlag>>
vars == <<fetch, fetches, cache, mainVars, late>>

Nil == "nil"      \* PL_TYPE_NIL

Frame ==
    [at : {"returned", "asking", "pushed", "checking", "asleep", "awake"},
     no : 0..MaxFetches, path : Paths \cup {Nil}, out : Paths \cup {Nil},
     done : BOOLEAN, completed : BOOLEAN]
Request == [thread : Threads, no : 1..MaxFetches, path : Paths]

NoFrame == [at |-> "returned", no |-> 0, path |-> Nil, out |-> Nil,
            done |-> FALSE, completed |-> FALSE]

TypeOK ==
    /\ fetch \in [Threads -> Frame]
    /\ fetches \in 0..MaxFetches
    /\ cache \in SUBSET Paths
    /\ queue \in Seq(Request)
    /\ batch \in Seq(Request)
    /\ stage \in {"idle", "load", "answer", "drain", "release", "down"}
    /\ shutdownFlag \in BOOLEAN
    /\ late \subseteq Threads
    /\ stage \in {"idle", "drain", "down"} => batch = <<>>
    /\ stage = "answer" => batch # <<>>

Init ==
    /\ fetch = [t \in Threads |-> NoFrame]
    /\ fetches = 0
    /\ cache = {}
    /\ queue = <<>> /\ batch = <<>>
    /\ stage = "idle"
    /\ shutdownFlag = FALSE
    /\ late = {}

-----------------------------------------------------------------------------
(* pl_resource_fetch_impl() off the main thread. *)

\* A fetch returns at once when the bridge is shut down or the path is cached. The
\* flag is read before the cache; once it is set the cache changes no more, so the
\* two reads are one step.
Fetch(t, path) ==
    /\ fetch[t].at = "returned"
    /\ fetches < MaxFetches
    /\ fetches' = fetches + 1
    /\ fetch' = IF shutdownFlag \/ path \in cache THEN fetch
                ELSE [fetch EXCEPT ![t] = [NoFrame EXCEPT !.at = "asking", !.no = fetches + 1,
                                                          !.path = path]]
    /\ UNCHANGED <<cache, mainVars, late>>

Push(t) ==
    /\ fetch[t].at = "asking"
    /\ queue' = Append(queue, [thread |-> t, no |-> fetch[t].no, path |-> fetch[t].path])
    /\ fetch' = [fetch EXCEPT ![t].at = "pushed", ![t].done = FALSE]
    /\ UNCHANGED <<fetches, cache, batch, stage, shutdownFlag, late>>

\* The predicate of the wait.
Released(t) == fetch[t].done \/ shutdownFlag

\* wait_for() evaluates its predicate with done_mtx held ("checking") and gives
\* the mutex up as it falls asleep.
WaitChecks(t) ==
    /\ fetch[t].at = "pushed"
    /\ fetch' = [fetch EXCEPT ![t].at = IF Released(t) THEN "awake" ELSE "checking",
                              ![t].completed = Released(t)]
    /\ UNCHANGED <<fetches, cache, mainVars, late>>

\* Fault: a wait without a predicate, which may return spuriously.
SleepsWithoutPredicate(t) ==
    /\ fetch[t].at = "checking"
    /\ fetch' = [fetch EXCEPT ![t].at = "awake", ![t].completed = TRUE]
    /\ UNCHANGED <<fetches, cache, mainVars, late>>

WaitSleeps(t) ==
    /\ fetch[t].at = "checking"
    /\ fetch' = [fetch EXCEPT ![t].at = "asleep"]
    /\ UNCHANGED <<fetches, cache, mainVars, late>>

\* Fault: the wait without a timeout (before VLN-08).
WaitsOn(t) ==
    /\ fetch[t].at = "asleep" /\ Released(t)
    /\ fetch' = [fetch EXCEPT ![t].at = "awake", ![t].completed = TRUE]
    /\ UNCHANGED <<fetches, cache, mainVars, late>>

\* The two seconds are over; the predicate is evaluated once more.
TimeOut(t) ==
    /\ fetch[t].at = "asleep"
    /\ fetch' = [fetch EXCEPT ![t].at = "awake", ![t].completed = Released(t)]
    /\ late' = IF Released(t) THEN late ELSE late \cup {t}
    /\ UNCHANGED <<fetches, cache, mainVars>>

\* What the fetch returns when it goes on from here: PL_OK and out, or an error.
Succeeds(t) ==
    /\ fetch[t].at = "awake" /\ fetch[t].completed
    /\ ~shutdownFlag
    /\ fetch[t].out # Nil

\* The return ends the frame.
Return(t) ==
    /\ fetch[t].at = "awake"
    /\ fetch' = [fetch EXCEPT ![t] = NoFrame]
    /\ UNCHANGED <<fetches, cache, mainVars, late>>

-----------------------------------------------------------------------------
(* The main thread. *)

\* A request still points into the frame of its fetch.
Live(r) == fetch[r.thread].no = r.no

\* The frame a write through request r may land in.
MayHit(r) ==
    IF Live(r) THEN {TRUE}
    ELSE IF fetch[r.thread].at # "returned" THEN BOOLEAN ELSE {FALSE}

Answered(r, value) ==
    \E hit \in MayHit(r) :
        fetch' = IF hit THEN [fetch EXCEPT ![r.thread].out = value] ELSE fetch

\* done_flag is set and the sleeper, if it sleeps, woken: its predicate now holds.
Notified(f) ==
    [f EXCEPT !.done = TRUE,
              !.at = IF f.at = "asleep" THEN "awake" ELSE @,
              !.completed = f.completed \/ f.at = "asleep"]

\* *done_flag = true; notify_all(), with the waiter's done_mtx held.
Signal(r) ==
    /\ fetch[r.thread].at # "checking"
    /\ \E hit \in MayHit(r) :
           fetch' = IF hit THEN [fetch EXCEPT ![r.thread] = Notified(@)] ELSE fetch

\* A fetch on the main thread (load_resource) loads directly.
MainFetch(path) ==
    /\ stage = "idle"
    /\ ~shutdownFlag /\ path \notin cache
    /\ cache' = cache \cup {path}
    /\ UNCHANGED <<fetch, fetches, mainVars, late>>

FlushSwap ==
    /\ stage = "idle" /\ queue # <<>>
    /\ batch' = queue /\ queue' = <<>>
    /\ stage' = "load"
    /\ UNCHANGED <<fetch, fetches, cache, shutdownFlag, late>>

FlushLoads ==
    /\ stage = "load" /\ batch # <<>>
    /\ LET r == Head(batch) IN
       \/ /\ cache' = cache \cup {r.path}
          /\ Answered(r, r.path)
       \/ /\ Answered(r, Nil)           \* the file does not load
          /\ UNCHANGED cache
    /\ stage' = "answer"
    /\ UNCHANGED <<fetches, queue, batch, shutdownFlag, late>>

FlushAnswers ==
    /\ stage = "answer"
    /\ Signal(Head(batch))
    /\ batch' = Tail(batch)
    /\ stage' = "load"
    /\ UNCHANGED <<fetches, cache, queue, shutdownFlag, late>>

\* Fault: flush() answers one request a frame and forgets the others it swapped out.
OnePerFrame ==
    /\ stage = "load"
    /\ stage' = "idle"
    /\ UNCHANGED <<fetch, fetches, cache, queue, batch, shutdownFlag, late>>

FlushDone ==
    /\ stage = "load" /\ batch = <<>>
    /\ stage' = "idle"
    /\ UNCHANGED <<fetch, fetches, cache, queue, batch, shutdownFlag, late>>

ShutdownBegins ==
    /\ stage = "idle"
    /\ shutdownFlag' = TRUE
    /\ stage' = "drain"
    /\ UNCHANGED <<fetch, fetches, cache, queue, batch, late>>

ShutdownSwap ==
    /\ stage = "drain"
    /\ batch' = queue /\ queue' = <<>>
    /\ stage' = "release"
    /\ UNCHANGED <<fetch, fetches, cache, shutdownFlag, late>>

ShutdownReleases ==
    /\ stage = "release" /\ batch # <<>>
    /\ Signal(Head(batch))
    /\ batch' = Tail(batch)
    /\ UNCHANGED <<fetches, cache, queue, stage, shutdownFlag, late>>

ShutdownDone ==
    /\ stage = "release" /\ batch = <<>>
    /\ stage' = "down"
    /\ UNCHANGED <<fetch, fetches, cache, queue, batch, shutdownFlag, late>>

Flush == FlushSwap \/ FlushLoads \/ FlushAnswers \/ FlushDone
Shutdown == ShutdownBegins \/ ShutdownSwap \/ ShutdownReleases \/ ShutdownDone
InFetch(t) == Push(t) \/ WaitChecks(t) \/ WaitSleeps(t) \/ Return(t)

Next ==
    \/ \E t \in Threads :
          \/ \E path \in Paths : Fetch(t, path)
          \/ InFetch(t)
          \/ TimeOut(t)
    \/ \E path \in Paths : MainFetch(path)
    \/ Flush
    \/ Shutdown

Spec == Init /\ [][Next]_vars

\* Threads run and the clock advances, but frames may stop coming.
ClockSpec ==
    /\ Spec
    /\ \A t \in Threads : WF_vars(InFetch(t)) /\ WF_vars(TimeOut(t))

-----------------------------------------------------------------------------
Waiting(t) == fetch[t].at \in {"pushed", "checking", "asleep"}

Requests == {queue[i] : i \in DOMAIN queue} \cup {batch[i] : i \in DOMAIN batch}

\* A thread that waits for an answer will get one: its request is still with the
\* main thread, in one place, unless the bridge has been shut down.
NobodyForgotten ==
    \A t \in Threads : Waiting(t) /\ ~Released(t) =>
        Cardinality({<<"queue", i>> : i \in {i \in DOMAIN queue :
                         queue[i].thread = t /\ queue[i].no = fetch[t].no}}
             \cup {<<"batch", i>> : i \in {i \in DOMAIN batch :
                         batch[i].thread = t /\ batch[i].no = fetch[t].no}}) = 1

\* No wake-up is lost: nobody sleeps once its answer is in, or once shutdown() has
\* returned. shutdown_flag_ is set without the waiters' mutexes, so this rests on the
\* flag coming before the drain and the drain notifying under each mutex.
NoLostWakeup ==
    \A t \in Threads : fetch[t].at \in {"checking", "asleep"} =>
        ~fetch[t].done /\ stage # "down"

\* Whoever waits has its request somewhere, or its answer and no need to sleep.
WaitersAccounted == TypeOK /\ NobodyForgotten /\ NoLostWakeup

Own(t) == Succeeds(t) => fetch[t].out = fetch[t].path

\* A fetch that succeeds returns the resource it asked for, on every thread none of
\* whose fetches timed out, whatever is still queued when shutdown() comes.
AnswerInTimeIsOwn == \A t \in Threads \ late : Own(t)

\* Every fetch returns, even if frames stop coming (VLN-08): the timeout or shutdown()
\* ends a wait that flush() does not.
EveryFetchReturns ==
    \A t \in Threads : fetch[t].at # "returned" ~> fetch[t].at = "returned"
=============================================================================
