----------------------------- MODULE AsyncRuntime -----------------------------
(***************************************************************************)
(* PLAsyncRuntime: script futures polled by a background thread, their     *)
(* results handed to the main thread through a callback queue.             *)
(*                                                                         *)
(* Three kinds of actor:                                                   *)
(*   - client threads, which submit and cancel (each call is one critical  *)
(*     section of futures_mutex_, so the thread's identity is irrelevant); *)
(*   - the poll thread, whose program counter is pc;                       *)
(*   - the main thread (main), which runs start(), tick_main_thread() once *)
(*     a frame, and stop().                                                *)
(*                                                                         *)
(* pl_async_poll runs outside every lock, so pc = "poll" is a state of its *)
(* own: the poll thread is inside the adapter with a copied handle.        *)
(***************************************************************************)
EXTENDS Naturals, Sequences

CONSTANT MaxFutures      \* bound on the futures a run submits

ASSUME MaxFuturesAssumption == MaxFutures \in Nat \ {0}

VARIABLES
    nextId,      \* id_counter_
    futures,     \* keys of futures_
    frees,       \* how often pl_async_free was called on the future's handle
    answer,      \* what the adapter would answer to a poll of the handle
    running,     \* running_
    pc,          \* where the poll thread is
    ids,         \* ids: the snapshot still to be visited in this pass
    cur,         \* the future whose copied handle the poll thread holds
    done,        \* done_ids
    cbQueue,     \* main_thread_callbacks_
    main,        \* where the main thread is
    local,       \* the batch tick_main_thread() swapped out
    reported,    \* history: callbacks dispatched on the main thread
    cancelled    \* history: futures a cancel() found and erased

vars == <<nextId, futures, frees, answer, running, pc, ids, cur, done,
          cbQueue, main, local, reported, cancelled>>

pollVars == <<pc, ids, cur, done>>
mainVars == <<main, local, reported, cancelled>>

Futures == 1..MaxFutures
NoFuture == 0
Results == {"value", "nil"}
Callback == [id : Futures, result : Results]
Submitted == 1..(nextId - 1)

TypeOK ==
    /\ nextId \in 1..(MaxFutures + 1)
    /\ futures \in SUBSET Futures
    /\ frees \in [Futures -> Nat]
    /\ answer \in [Futures -> {"pending", "ok", "error"}]
    /\ running \in BOOLEAN
    /\ pc \in {"none", "wait", "snapshot", "visit", "poll", "exited"}
    /\ ids \in SUBSET Futures
    /\ cur \in Futures \cup {NoFuture}
    /\ done \in SUBSET Futures
    /\ cbQueue \in Seq(Callback)
    /\ main \in {"boot", "idle", "tick", "join", "stopped"}
    /\ local \in Seq(Callback)
    /\ reported \in Seq(Callback)
    /\ cancelled \in SUBSET Futures

Init ==
    /\ nextId = 1
    /\ futures = {}
    /\ frees = [f \in Futures |-> 0]
    /\ answer = [f \in Futures |-> "pending"]
    /\ running = FALSE
    /\ pc = "none"
    /\ ids = {}
    /\ cur = NoFuture
    /\ done = {}
    /\ cbQueue = <<>>
    /\ main = "boot"
    /\ local = <<>>
    /\ reported = <<>>
    /\ cancelled = {}

(* pl_async_free on the handle of every future in S. *)
FreeHandles(S) ==
    frees' = [f \in Futures |-> IF f \in S THEN frees[f] + 1 ELSE frees[f]]

-------------------------------------------------------------------------------
(* The adapter: a future's work ends by itself, well or badly. *)

AdapterSettles(f) ==
    /\ f \in futures
    /\ answer[f] = "pending"
    /\ \E a \in {"ok", "error"} : answer' = [answer EXCEPT ![f] = a]
    /\ UNCHANGED <<nextId, futures, frees, running, pollVars, cbQueue, mainVars>>

-------------------------------------------------------------------------------
(* Client threads. *)

(* submit(): it does not look at running_, so it also succeeds before      *)
(* start() and after stop().                                               *)
Submit ==
    /\ nextId <= MaxFutures
    /\ nextId' = nextId + 1
    /\ futures' = futures \cup {nextId}
    /\ UNCHANGED <<frees, answer, running, pollVars, cbQueue, mainVars>>

(* cancel(): frees the handle under futures_mutex_, whoever is using it. *)
Cancel(f) ==
    /\ f \in futures
    /\ FreeHandles({f})
    /\ futures' = futures \ {f}
    /\ cancelled' = cancelled \cup {f}
    /\ UNCHANGED <<nextId, answer, running, pollVars, cbQueue, main, local,
                   reported>>

-------------------------------------------------------------------------------
(* The poll thread. *)

(* The 10 ms wait ends (its predicate is only "not running") and running_  *)
(* is tested again.                                                        *)
AfterWaitIgnoringStop == "snapshot"                             \* fault
AfterWait == IF running THEN "snapshot" ELSE "exited"

PollWake ==
    /\ pc = "wait"
    /\ pc' = AfterWait
    /\ UNCHANGED <<nextId, futures, frees, answer, running, ids, cur, done,
                   cbQueue, mainVars>>

PollSnapshot ==
    /\ pc = "snapshot"
    /\ ids' = futures
    /\ pc' = "visit"
    /\ UNCHANGED <<nextId, futures, frees, answer, running, cur, done,
                   cbQueue, mainVars>>

SnapshotTrusted(f) == TRUE                                      \* fault
StillThere(f) == f \in futures

(* The next id of the snapshot is looked up again; one that is gone since  *)
(* is skipped. futures_ is an unordered map: any order.                    *)
PollLookup(f) ==
    /\ pc = "visit"
    /\ f \in ids
    /\ ids' = ids \ {f}
    /\ IF StillThere(f)
         THEN cur' = f /\ pc' = "poll"
         ELSE UNCHANGED <<cur, pc>>
    /\ UNCHANGED <<nextId, futures, frees, answer, running, done, cbQueue,
                   mainVars>>

(* pl_async_poll answers. Polling a handle that has been freed is          *)
(* undefined: any answer.                                                  *)
PollAnswers == IF frees[cur] = 0 THEN {answer[cur]} ELSE {"pending", "ok", "error"}

(* An error is reported to on_done with an empty result, and retires the   *)
(* future like a success does.                                             *)
OnlySuccess == {"ok"}                                           \* fault
NotifiedCodes == {"ok", "error"}
RetiredCodes == {"ok", "error"}

PollCall ==
    /\ pc = "poll"
    /\ \E rc \in PollAnswers :
         /\ cbQueue' = IF rc \in NotifiedCodes
              THEN Append(cbQueue, [id |-> cur,
                                    result |-> IF rc = "ok" THEN "value" ELSE "nil"])
              ELSE cbQueue
         /\ done' = IF rc \in RetiredCodes THEN done \cup {cur} ELSE done
    /\ pc' = "visit"
    /\ cur' = NoFuture
    /\ UNCHANGED <<nextId, futures, frees, answer, running, ids, mainVars>>

DoneUnchecked == done                                           \* fault
DoneStillThere == done \cap futures

(* One critical section frees and erases every future of done_ids that is  *)
(* still there, and ends the pass.                                         *)
PollCleanup ==
    /\ pc = "visit"
    /\ ids = {}
    /\ FreeHandles(DoneStillThere)
    /\ futures' = futures \ done
    /\ done' = {}
    /\ pc' = "wait"
    /\ UNCHANGED <<nextId, answer, running, ids, cur, cbQueue, mainVars>>

Poll ==
    \/ PollWake
    \/ PollSnapshot
    \/ \E f \in Futures : PollLookup(f)
    \/ PollCall
    \/ PollCleanup

-------------------------------------------------------------------------------
(* The main thread. *)

Start ==
    /\ main = "boot"
    /\ ~running
    /\ running' = TRUE
    /\ pc' = "wait"
    /\ main' = "idle"
    /\ UNCHANGED <<nextId, futures, frees, answer, ids, cur, done, cbQueue,
                   local, reported, cancelled>>

QueueCopied == cbQueue                                          \* fault
QueueAfterSwap == <<>>

(* tick_main_thread() swaps the queue out under cb_mutex_ ... *)
TickSwap ==
    /\ main = "idle"
    /\ cbQueue # <<>>
    /\ local' = cbQueue
    /\ cbQueue' = QueueAfterSwap
    /\ main' = "tick"
    /\ UNCHANGED <<nextId, futures, frees, answer, running, pollVars, reported,
                   cancelled>>

(* ... and dispatches each entry without a lock: the bus emission and the  *)
(* on_done call, which may itself submit or cancel.                        *)
TickReport ==
    /\ main = "tick"
    /\ local # <<>>
    /\ reported' = Append(reported, Head(local))
    /\ local' = Tail(local)
    /\ main' = IF Tail(local) = <<>> THEN "idle" ELSE "tick"
    /\ UNCHANGED <<nextId, futures, frees, answer, running, pollVars, cbQueue,
                   cancelled>>

(* stop(): running_ is cleared and the thread is woken ... *)
StopRequest ==
    /\ main = "idle"
    /\ running
    /\ running' = FALSE
    /\ main' = "join"
    /\ UNCHANGED <<nextId, futures, frees, answer, pollVars, cbQueue, local,
                   reported, cancelled>>

(* ... joined, and then every future is freed and every callback dropped   *)
(* under both mutexes.                                                     *)
StopDrain ==
    /\ main = "join"
    /\ pc = "exited"
    /\ FreeHandles(futures)
    /\ futures' = {}
    /\ cbQueue' = <<>>
    /\ main' = "stopped"
    /\ UNCHANGED <<nextId, answer, running, pollVars, local, reported, cancelled>>

Main == Start \/ TickSwap \/ TickReport \/ StopRequest \/ StopDrain

-------------------------------------------------------------------------------
Next ==
    \/ Poll
    \/ Main
    \/ Submit
    \/ \E f \in Futures : Cancel(f) \/ AdapterSettles(f)

Spec == Init /\ [][Next]_vars

(* The poll loop is a thread of its own whose adapter calls return, and    *)
(* _frame() runs tick_main_thread() every frame; join returns once the     *)
(* thread has exited. Nobody is obliged to submit, cancel or stop, and an  *)
(* adapter need not settle.                                                *)
Fairness ==
    /\ WF_vars(Poll)
    /\ WF_vars(TickSwap \/ TickReport \/ StopDrain)

FairSpec == Spec /\ Fairness

-------------------------------------------------------------------------------
(* Every submitted handle is owned by futures_ and not yet freed, or has   *)
(* been freed exactly once, whichever of cancel(), the poll thread's       *)
(* cleanup and stop() got to it: no double free and no leak.               *)
HandlesFreedOnce ==
    \A f \in Submitted : frees[f] = IF f \in futures THEN 0 ELSE 1

Ids(s) == { s[i].id : i \in DOMAIN s }
Distinct(s) == \A i, j \in DOMAIN s : s[i].id = s[j].id => i = j

(* No future is reported twice, although its callback is queued before it  *)
(* leaves futures_ and three threads touch the two containers: each future *)
(* has at most one entry in the callback queue, the batch being dispatched *)
(* and the dispatched callbacks together.                                  *)
ReportedOnce ==
    /\ Distinct(cbQueue) /\ Distinct(local) /\ Distinct(reported)
    /\ Ids(cbQueue) \cap Ids(local) = {}
    /\ Ids(cbQueue) \cap Ids(reported) = {}
    /\ Ids(local) \cap Ids(reported) = {}

(* An adapter future that has answered is never polled again: the thread   *)
(* holds no handle whose future already has a callback anywhere. A handle  *)
(* that has been freed is polled only if it was cancel() that freed it:    *)
(* the thread's own cleanup and stop() never pull one from under it.       *)
NoPollAfterEnd ==
    pc = "poll" =>
        /\ cur \notin Ids(cbQueue) \cup Ids(local) \cup Ids(reported)
        /\ frees[cur] = 0 \/ cur \in cancelled

(* The refinement: a future the poll thread is inside of stays pending     *)
(* even when cancel() has already erased it, because the poll may still    *)
(* produce a callback.                                                     *)
Promise ==
    [f \in Futures |->
        IF f \notin Submitted THEN "none"
        ELSE IF f \in Ids(reported) THEN "notified"
        ELSE IF f \in Ids(local) \cup Ids(cbQueue) THEN "settled"
        ELSE IF f \in futures \/ (pc = "poll" /\ cur = f) THEN "pending"
        ELSE "dropped"]

Contract == INSTANCE FutureContract WITH promise <- Promise

(* The runtime keeps its promise to scripts: every step of the three       *)
(* threads is a step of the contract or changes nothing a script can see.  *)
(* A cancel() between the push of the callback and the cleanup of the poll *)
(* round succeeds and the future is reported all the same: it had settled, *)
(* and a settled future is either notified or left behind by stop().       *)
KeepsContract == Contract!Spec

(* A future the adapter has finished, well or badly, is reported, unless a *)
(* cancel() found it or the runtime is stopping.                           *)
SettledIsReported ==
    \A f \in Futures :
        (Promise[f] = "pending" /\ answer[f] # "pending" /\ running)
            ~> (Promise[f] = "notified" \/ f \in cancelled \/ ~running)

(* stop() returns: the poll thread always notices that running_ is false   *)
(* and the join ends, whatever it was doing.                               *)
StopReturns == (main = "join") ~> (main = "stopped")

===============================================================================
