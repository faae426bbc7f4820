# A TLA+ development of PolyLang

PolyLang is a Godot extension that lets scripts in seventeen languages run in one
engine. Its core (`src/polylang plugin/src/`, about 8 400 lines of C++) sits between the
engine's main thread, the engine's worker threads, threads of its own, and foreign
runtimes reached through a table of C functions (`include/pl_adapter_vtable.h`).
These modules specify the concurrent part of that core, check it with TLC on small
instances, and prove some of it with TLAPS for all instances. Paths below are relative to
`src/polylang plugin/src/` unless they start with `src/`.

## 1. The system

### Components

| Component (files) | State | Operations | Hard behaviour | What makes it correct |
|---|---|---|---|---|
| Async runtime (`pl_async_runtime`) | `futures_`, callback queue, `running_`, poll thread | submit, cancel, poll loop, tick, start, stop | polls outside the lock; acts on a snapshot | each handle freed once, each answer reported once, no polling after the answer; stop ends |
| Signal bus (`pl_signal_bus`) | bounded emission queue, callables, native listeners | emit, connect, disconnect, flush | calls copies of its lists without a lock; listeners emit, connect and disconnect | order; nothing lost uncounted; nobody skipped or called twice; a flush ends |
| Coroutine scheduler (`pl_coroutine_scheduler`) | `pending_spawn_`, `active_`, two mutexes | spawn, cancel, tick, shutdown | bodies run under a mutex; the listener of a coroutine is connected in three steps | no lost wake-up; handles freed once; on_done once; no listener left behind |
| Compile cache (`compile_cache`) | entries by path and sandbox policy, with reference counts | get_or_compile, release, invalidate, clear | compiles outside the lock; entries are replaced while owned | no double free, no freed handle handed out, no leak |
| Hot reload (`hot_reload_scheduler`, `polylang_script`) | jobs, queue of staged instances, the script's handle and instances | reload, compile on a worker, flush, swap, finalize, roll back | raw pointers and handles read on a worker and used frames later | old code freed once and only when unused; all or none of the instances swapped |
| Resource bridge (`pl_resource_bridge`) | resource cache, queue of requests that point into stack frames | fetch, flush, shutdown | waits with a timeout; the flag and the queue are separate | everyone is answered, with its own answer; no request outlives its fetch |
| Runtime manager (`runtime_manager`) | loaded adapters, sandboxed paths, health thread | load, unload, register | loading from several threads; vtables cleared in place | an adapter is loaded once; a policy never loosens |
| Script registry and bridge (`pl_bridge`) | live instances by path and owner, call depth | register, unregister, call | raw pointers used after the lock | calls reach live instances; depth is bounded |
| Cross-language inheritance (`pl_cross_inherit`) | base of each script | register, resolve, call/get/set on a base | cycles; every base asked walks its own bases | the first of the chain that has the member answers; the recursion ends |
| Mod loader (`mod_loader`) | none of its own | parse, sort, register, load | cycles, failures half way | dependencies first; all or nothing |
| Polyglot scripts (`pl_polyglot_script`, `pl_polyglot_parser`) | blocks and block instances | compile, reload, call | reload under live instances | instances use blocks that exist |
| Profiler (`pl_profiler`) | scope stack per thread, capped table | begin, end, record, reset | switched on and off between begin and end | scopes nest; every drop is counted |
| Script instances and state transfer (`polylang_script_instance`, `pl_state_transfer`) | the foreign object, `instance_lock_` | call, get, set, hot_swap, save, restore, delete | foreign code runs under the lock and calls back; the swap spans several critical sections | no object freed under a call; state kept; no caller waits for itself |
| Engine API bridge (`pl_engine_api_bridge`) | a table, a queue nobody fills | call, flush | runs on the caller's thread | access follows the tier |
| Conversions (`variant_bridge`, `pl_export_parser`) | none | convert, parse | ownership of strings | what is allocated is freed |
| Language and entry points (`polylang_language`, `register_types`) | singletons | frame, start-up, tear-down | order of the tear-down | nothing used after it is deleted |
| Adapters (`adapters/`) | foreign runtimes | the vtable | third-party runtimes | the vtable's contract |

The editor addon, tests, build trees and vendored sources are not part of the core.
`PROJECT.json` says of each component whether it is modelled and why not.

### How they interact

Once a frame `PolyLangLanguage::_frame` (`polylang_language.cpp:108`) runs, on the main
thread: the hot reload's flush, the bus's flush, the coroutine tick, the async tick, the
resource flush. Scripts run between these and inside them, as listeners, coroutine
bodies and on_done callables. Other threads reach the core through the engine's worker pool (hot
reload, scripts on threads), the poll thread of the async runtime, and adapters' own
threads. The coroutine scheduler listens on the bus; the async runtime announces results
on it; the hot reload compiles through the cache; scripts own cache references.

## 2. The modules

| Module | Models | Extends |
|---|---|---|
| `FutureContract` | what the async runtime promises about one future | |
| `AsyncRuntime` | `PLAsyncRuntime` | (refines `FutureContract`) |
| `AsyncRuntimeProofs` | proofs | `AsyncRuntime` |
| `SignalBus` | `PLSignalBus` | |
| `CoroutineScheduler` | `PLCoroutineScheduler` and the frame order | `SignalBus` |
| `CoroutineSchedulerProofs` | proofs, of the bus too | `CoroutineScheduler` |
| `CompileCache` | `CompileCache`, without clients | |
| `CacheClients` | scripts that own handles of the cache | `CompileCache` |
| `CompileCacheProofs` | proofs | `CacheClients` |
| `HotReload` | `HotReloadScheduler`, `PolyLangScript`, `PolyLangScriptInstance` | `CompileCache` |
| `HotReloadProofs` | proofs | `HotReload` |
| `ResourceBridge` | `PLResourceBridge` | |
| `ResourceBridgeProofs` | proofs | `ResourceBridge` |
| `ScriptInstance` | `PolyLangScriptInstance` and `StateTransfer` | |
| `ScriptInstanceProofs` | proofs | `ScriptInstance` |
| `CrossInherit` | `PLCrossInherit`, `PolyLangBridge` and the fall-back of an instance to its bases | |
| `SandboxPolicy` | the sandbox registrations of `RuntimeManager` and how a compilation is routed | |
| `CrossInheritProofs` | proofs, of the sandbox policy too | `CrossInherit`, `SandboxPolicy` |
| `ModLoader` | `ModLoader` | |
| `ModLoaderProofs` | proofs | `ModLoader` |
| `MC*` | instances for TLC | |

A mutex's critical section is one step unless something slow or foreign runs inside it;
then its region has steps of its own and the others are blocked by a guard
(`active_mutex_` in the coroutine tick, `pending_mutex_` in the adoption of reload jobs,
`done_mtx` of a waiter in the resource bridge). What runs outside the locks always has
steps of its own. Variables named "history" only record what happened. Operators commented "Fault" are what an
action would be with a plausible bug; nothing uses them, and putting one in the place of the definition it
imitates makes a property fail.

**AsyncRuntime.** `Poll*` are the steps of the poll loop: it wakes, takes a snapshot of
the ids, looks each up under the lock (`PollLookup`), polls the copied handle outside it
(`PollCall`), and removes what is done (`PollCleanup`). `Submit` and `Cancel` are one
critical section each. `AdapterSettles` is the foreign future finishing. `TickSwap` and
`TickReport` are the main thread's tick, one callback at a time because on_done may
submit and cancel. `StopRequest` and `StopDrain` surround the join. The poll of a handle that a
cancel has freed may return anything. The number a submit draws and its insertion are
one step: an id that is drawn and not inserted is known to nobody. The order in which
`done_ids` is cleaned up cannot be seen from outside the lock, so it is a set.

**SignalBus.** A flush swaps the queue out (`FlushSwap`) and takes one emission at a time
(`DispatchNext`); the copies of the callables and natives are `todo`, and each call is a
step, between which any client action may happen (`BusClient`), a listener's or another
thread's. Emissions carry a number that properties refer to; arguments are left out.
`owed` records which callables must still be called for which emission; a disconnection takes a callable off the
debts of its signal only. `Kept` is what erasing from
a list leaves (`std::remove_if`), written as a recursive function so that it can be proved about.

**CoroutineScheduler.** Coroutines own the bus's native listeners. `SpawnInsert`,
`SpawnConnect`, `SpawnWriteBack` are the three critical sections of a spawn on a signal;
`SpawnPending` is any other spawn. The tick's steps are `TickLockPending`, `TickLockBoth`,
`TickAdopt`, `TickLock`, a step per coroutine (`TickSkip`, `ResumeSuspends`,
`ResumeEnds`), `TickUnlock` and `TickFinish`. Time is in frames because the tick is always given 1/60 s.
The value that a signal carries is left out. `ResumeSelfLocks` is a body that calls the
scheduler on the thread that holds its mutex; the main thread never moves again. `Shutdown` is
taken when no other thread is inside spawn().

**CompileCache, CacheClients.** A call of get_or_compile is `Ask`, `LookupHit` or
`LookupMiss`, the compilation outside the lock, and `StoreAgrees` or `StoreAnew`. A
source text is an abstract value and equal hashes mean equal texts. Handles are numbered
in the order they are made; `frees` counts pl_free_compiled. A client is a script on its thread: it keeps
the handle of its last compilation and gives it back by key, once, in its destructor, when it is not compiling. Scripts may call
`trigger_compile()` again: compile_internal() does not look at what they hold, so each such call takes one more reference that nobody
returns. `repeats` bounds these calls and `extra` counts them by key. `edited` records that a source was changed or
invalidated since the start: what holds only of unchanged sources is stated under `~edited`. The guard against circular imports is thread-local
and no adapter calls back into the cache while it compiles, so it never trips.

**HotReload.** The main thread loads, instantiates, frees and reloads scripts between the
steps of a flush; workers compile through the cache, read the script's handle (`ReadOld`), and take the
snapshot and queue the job (`QueueJob`). `FlushBegins`, `Adopt`, `AdoptEnds` are the part under the mutex;
`Stage` swaps one instance and, if it is the job's last, finalizes or rolls back;
`FlushEnds` may come at any time, since the frame's two milliseconds may be over. A foreign
object is stood for by the handle it was made from. hot_swap() is one step: the main
thread does all of it; what concurrent calls of the instance see is the module
`ScriptInstance`.
`Allowed` names the disturbances of a run. Some are about a script *while a reload of it is in flight*: overlapping
saves and reloads, failing instantiation, new instances, freed instances, freed scripts. Two are forbidden at any time unless they are named:
a second `trigger_compile()` of a script that has a handle (`"recompile"`), and a reload of a text that has not changed (`"unchanged"`). The code forbids none of it; the constant says
which disturbances a run studies, so that a run which forbids all shows what the code
does guarantee, and a run that allows one shows what that one breaks.

**ResourceBridge.** A fetch looks at the shutdown flag and the cache (`Fetch`), queues a request
(`Push`), tests its predicate holding its mutex (`WaitChecks`), sleeps (`WaitSleeps`), is woken or
times out, and returns. The main thread's flush and shutdown take the queue as a whole and
serve it one request at a time, the load and the answer being two steps. Requests refer to a stack frame:
a write through a request whose fetch has returned either does nothing or lands in the same
thread's next fetch, at the same addresses. `late` records the threads one of whose fetches
timed out. A resource is identified with its path; sandbox tiers are left out, since every
caller in the plugin passes the trusted one.

**ScriptInstance.** The reload's view of an instance, turned inside out: here the swap is
many steps and the reload only the hand that starts it (`SwapBegins`). A call of any of
the four entry points is `Ask` (it reaches `instance_lock_`), `Enter` (the shared lock is
granted and the pointer read) and `Return`; foreign code that is running may `Ask` again
on the same thread, which is how a script calls back into itself. `Resolve` is `resolve_method_target()`, by which the coroutine scheduler
and the async runtime get at the foreign object: it drops the lock before foreign code runs on what it
read (`target`), until `Finish`. That code may call back, write properties, and be overtaken by a swap. `hot_swap()` reads the
old object, saves property by property (`SaveProp`, foreign code, no lock), waits for the
exclusive lock (`SwapWaits`), exchanges the pointer (`SwapStores`), frees the old object under
the lock (`FreeOld`) and restores (`RestoreProp`). The main thread may be inside foreign code
of its own call (`MainBack`) only where the code lets it. `Destroy` is the destructor, which takes no lock and asks nothing: any
thread, at any stage of a swap; `torn` records that a swap was under way. C++ leaves it to the platform whether
a waiting writer holds back new readers; `writersFirst` draws one or the other. A value is
the number of the write that made it, so that a property can say which writes a swap may
lose: those between a save and its restore (`raced`), and containers, which
`pl_to_variant` turns into nil unless the adapter serializes by itself.

**CrossInherit.** One thread's access to one member name, as a stack of activations. The
A method that the script has may call other scripts and super, and return a value or any error code of its own (`Outcomes`). The
point is that `call_on_base` and `get_on_base` do not ask a base's foreign object but the base's
*instance*, which walks its own bases when it lacks the member: a walk of n bases asks each of
them about 2^(n-1) times, and error codes travel through the nested walks. `Seen` is what each kind of
caller makes of a result: the bridge turns every failure into nil with PL_OK, the engine
asks its own class. `by` stays the script that decided the result, so that a nil which stands for a method's failure
is told from one that nobody produced. Registrations of other threads may come at any moment (`Register`). A
base relation is any function on three scripts, one of which is a `.poly`, plus a `.gd` file.
`Server` is the reference definition, which looks at the chain only.

**SandboxPolicy.** `compile_internal` looks the path up (`Begin`), reads the file beside the
script and, failing that, the one of its directory (`ReadOwn`, `ReadDir`), registers
(`RegisterPath`), asks whether the path is sandboxed (`Route`) and then for its capabilities
(`ReadCaps`): five critical sections or file accesses, interleaved with other threads, with mods that
register paths (`ModRegisters`) and with a user who edits the files (`Edit`). Files are sequences of
lines, and the parser is a fold over them, because the order of lines matters.

**ModLoader.** The scan accepts or skips each configuration; two configurations may name the same
mod. The dependency graph is drawn freely when the sort begins. The search is the code's, with its
recursion as a stack of visits and the three marks in `state`; the dependencies of a node are
looked at in any order, which covers the order of a list. `Reach`, in the properties, is
the least set of mods closed under dependencies, and shares nothing with the search.

## 3. The runs

Runs that must pass:

| Run | Question and bound |
|---|---|
| `async` | Two futures, so that one may be cancelled or new while the other is polled: handles freed once, answers reported once, no poll after the end unless cancel() freed the handle, every step a step of `FutureContract`; a settled future is reported unless dropped, and stop() returns. |
| `bus` | One signal, two callables, one native listener, a queue of two and three emissions, so the cap is met: order, accounting, a flush never serves its own emissions, no listener skipped or called twice, and every debt to a connected callable is paid. |
| `coroutines` | Two coroutines, one signal, a queue of one and two emissions, scripts on two threads, re-entrant bodies: handles freed once, no wake-up lost, on_done once, listeners of coroutines spawned on the main thread owned; spawned coroutines run and accepted emissions wake who listened, unless the main thread locks itself out. |
| `cache` | Three threads (a winner and two losers of a race), one path, two policies, two sources that change and are invalidated, three handles, so that an entry is replaced more than once, one repeated compilation: no double free, nothing freed is handed out; until a source changes, counts are the holders, the answers on their way and the references of repeated compilations, and no handle is lost. |
| `reload_calm` | Two scripts, one sandboxed, two instances, two workers, two reloads, no disturbance: old code is freed once and when nobody uses it, all instances are swapped, nothing leaks. |
| `reload_disturbed` | One script, two instances, two reloads that may overlap and fail while the script is freed: the jobs' bookkeeping, no failed job is applied, every reload settles. |
| `resource` | Two threads and three fetches (so that one thread fetches again after a timeout while the other waits), two paths, a shutdown at any time: nobody forgotten, no wake-up lost, own answers for who never timed out; the timeout alone ends every fetch. |
| `instance` | The main thread and a worker, two nested calls each, two swaps (so that a swapped-in object is swapped out again), two writes, a scalar and a container property, starts of coroutines without the lock, a deletion at any moment: nothing freed under a locked call, no freed object handed out, nothing leaked or freed twice unless the deletion falls within a swap, state kept but for races and containers; a callback from save or restore gets the lock, and a lock that prefers writers lets the swap through unless a reader re-enters. |
| `calls` | All base relations of three scripts and a `.gd` file, cycles included, at most one quarantined or dead script and two that have the member, one registration during the access, calls, gets and sets, bodies that call any script or super and may fail; a depth limit of two and a stack of six frames, which is what two bridge calls with super between them need. |
| `policy` | Two threads, two scripts in one directory, one capability, files that are missing, trust, or quarantine and then grant a capability, one edit. |
| `mods` | Three configurations, two of them of the same mod, two dependencies each, a missing and a malformed name: every graph on these. |

Two of each actor and one more item than a bound holds show every pairwise
interleaving; nothing in the code counts to three, save the cache's race, where a loser
may find a winner that has already lost its entry, hence three threads there. One signal
is what the run of the bus has: its lists are separate by signal and nothing relates two of them but
the queue, which does not look at names; the proofs of its three safety properties are for any number of signals.

One run must find a violation, a disagreement between the code and a comment beside it, listed
under "findings" in `PROJECT.json`: `reload_unchanged`, in which the reload of a file that has not changed
frees the handle in use. The run's trace is the shortest, a script without instances: flush_frame() frees the handle it has just applied
(`hot_reload_scheduler.cpp:144`), although the comment two lines above says "release old handle via correct cache key". With
instances, finalize_job() frees it in the same way (`hot_reload_scheduler.cpp:191`).

### Bounds

`MaxFutures`, `MaxEmissions`, `MaxListeners`, `MaxSleep`, `MaxHandles`, `MaxReloads`, `MaxFetches`, `MaxSwaps`, `MaxRepeats`,
`MaxWrites`, `MaxChanges` and `MaxEdits` end a run's supply of new objects or events; `MaxDepth` and `MaxStack` bound
nesting, `MaxDeps` the dependencies of a mod. `QueueCap` is the code's 4096, `PL_BRIDGE_MAX_CALL_DEPTH` its
limit of the same name, `MaxChain` the 16 steps of a chain (here more than there are scripts, so it never
binds: a chain that long is cut, and the base after the cut is then never asked). Only creating actions look
at the supplies, so a run that has spent them still finishes what it began. Where spent bounds,
a shutdown or a deadlock of the code itself leave nothing to do, the configuration sets
`CHECK_DEADLOCK FALSE`; the cache, hot reload and policy runs check for deadlock.

### Fairness

Weak fairness is assumed of steps of a thread that is inside a function of this code, of
adapter calls (they return), and of frames (the engine calls `_frame` for as long as it
runs). Nothing obliges a script to act, an adapter's future to finish, or the engine to
shut down. Strong fairness is assumed in `HotReload` only: of taking `pending_mutex_`, which the frame holds again and
again, of the frame itself, whose main thread may be busy compiling in between, and of a
frame's budget being enough for an instance infinitely often. `ClockSpec` of `ResourceBridge` assumes no
frames at all, only that threads run and time passes. `ScriptInstance` assumes that foreign calls return, that a lock that
can be granted is granted to each reader, and that the main thread goes on with a swap; nothing obliges a thread to call.
`CrossInherit` assumes only that the accessing thread runs.

## 4. What is proved

`AsyncRuntimeProofs`, for any number of futures: type correctness (`TypeCorrect`), a handle is freed
once and exactly when its future has left `futures_` (`FreedOnce`), at most one report
(`AtMostOneReport`), no poll after the end (`NoPollAfter`), and that the runtime
implements `FutureContract` (`Refinement`). None of the properties is inductive: that a cleanup
frees a handle only once rests on `done_ids` holding answered futures only, that a
future is reported once on the callback queue, the running batch and the reported ones
being disjoint, and so on. `IInv` joins these: what a pass of the poll loop may hold at each of
its steps, that answered futures are done, that a freed handle in the poll thread's hands was cancelled,
that only submitted ids occur anywhere, and that the
ids in the queue and the batch are distinct. There is one lemma per action; the refinement
cites the same lemmas and maps each step to a step of the contract or a stutter.

`CompileCacheProofs`, for any scripts, policies, sources, callers and handles: types (`CacheTypeCorrect`), no handle is
freed twice (`CacheFreesOnce`), the cache never holds a freed handle
(`CacheEntriesLive`). The invariant adds that a handle being stored is private to
its caller, that entries and calls only refer to handles that were made, and that two entries never
share a handle; it is preserved by the cache's own steps and by each client action, and so holds of any
client that uses the cache by its operations. Until a source changes, `CacheCountsClaims` (`RefsAreClaims`) and
`CacheLosesNothing` (`NothingLost`): `Calm` says that an entry counts the set of its owners (`Owners`), which are slots, two for each client:
the handle it holds and the answer that is on its way to it; that the count exceeds them by `extra`; and that a handle
which is not freed is in the cache or with the
caller that stores it. Each step adds one slot to one such set or takes one away, or moves none, or, when a client that holds a handle collects another,
replaces a slot by one more in `extra`, which is what the cardinalities need.

`ScriptInstanceProofs`, for any threads, nesting, swaps, properties and values: types (`TypeCorrect`), no locked call is
inside a freed object while the instance lives, and an unlocked one is handed none (`SwapSafe`), every replaced object is freed once
unless the instance is deleted during a swap (`NoLeak`), and a swap carries over every property that survives a conversion and was not written meanwhile (`StateCarried`, which states `StateKept`). The invariant adds who owns which object in each stage of the swap (`Custody`): the object read in the first
critical section is still the current one in the third, because only the main thread swaps, and unless the instance was deleted meanwhile (`torn`);
and that every locked call
under way is one of the current object, none being under way while the exclusive lock is held (`CallsCurrent`). An object that was handed out without the
lock was current then, and every swap since has put a higher number in its place.

Of `SandboxPolicy`, in the last part of `CrossInheritProofs`, for any threads, paths, files and edits: types (`PolicyTypeCorrect`), `KeyFound` and `Routed`. What
carries them is that registrations are never removed or changed, and, for `Routed`, what a thread knows of the files at each step
as long as none was edited: which of them it has passed over, and that one that restricts has led to a registration.

`ModLoaderProofs`, for any configurations and any dependency graph: types (`TypeCorrect`), `LoadOrder`, which states
`DependenciesFirst`, and `WholeOrNone`, which states `AllOrNothing`: a finished load has called on_loaded for every mod and an aborted one for none,
and then the graph has a cycle or a name in it is malformed. The argument is
the one for a depth-first search: the nodes marked 1 are those of the visits under way (`OnStack`), those marked 2 are those in the order
(`LeftInOrder`), and a dependency a visit has looked at is marked 2 or is the next visit's node (`Looked`), so that when a visit ends all its
dependencies are in the order. `OrderGood` then carries the order through the loading. That the search reports only
real cycles follows from the stack being a path: the dependency that closes it reaches itself in every closed set.

`ResourceBridgeProofs`, for any threads, paths and number of fetches: types (`TypeCorrect`), `WaitersKept`, which states `WaitersAccounted`,
and `OwnAnswers`, which states `AnswerInTimeIsOwn`. A request is known by its number: no two have one, and one that has the
number of a fetch under way is that fetch's (`Numbers`). So who waits without an answer is found in the queue or the batch, and
after shutdown's drain in the batch (`Waits`), which is empty when shutdown() returns; and a thread that never timed
out has no other requests than its present fetch's, so no write through an older one reaches its frame (`Owned`).

`CoroutineSchedulerProofs`, of the bus, for any signals, listeners, queue size and number of emissions: `Accounted`, which states
`EveryEmissionAccounted`, `InOrder`, which states `BusInOrder`, and `CalledOnce`, which states `EachCalledOnce`. `IInv`
orders the line of emissions (`Line`): what is being dispatched comes before the batch, all of that before the number the flush
began at (`mark`), and the queue after it. `ListInv` is about the lists: no callable is in a list twice, nor in the copy
a dispatch works through, ids of native listeners are distinct, and what is owed for an emission is in the copy or still in the queue.
Disconnecting erases from a list; that what it leaves (`Kept`) has the elements it should, each once, is an induction over the positions of the
list, which the proofs make through a least counterexample (`SetInduction`, from the library's theorems on well-founded relations). Both invariants
hold under any use of the bus (`BusUse`), and the scheduler's steps are such uses (`BusUsed`).

Of the scheduler, for any coroutines, threads and signals: `EndsOnce` (`EndedOnce`), `WakesUp` (`NoLostWakeup`), `NoStrayListener`
(`ListenersOwned`). `CoroInv` joins them, and adds: the stages of a spawn and what is known at each (`SpawnRight`), among them that no two coroutines have one listener id;
that the main thread does not tick while it is inside spawn(), so that a half-spawned coroutine is not adopted or ended under it (`SpawnsAlone`); that a native listener
belongs to the coroutine that was given its id (`NativesRight`), so that a disconnection takes nobody else's; that a coroutine which
waits for an accepted emission is active and listened for (`WaitersListen`), so that the copy a dispatch makes of the
natives has it; and the count of on_done by stage of a coroutine's end (`DoneRight`).

`HotReloadProofs`, first for any scripts, instances, workers and reloads, whatever disturbs them: types (`TypeCorrect`), a job's staged instances are one block of the queue,
in order and as many as its count says (`JobsWellKept`, which states `JobsAccounted`), and a job in which an instance
failed is never finalized (`FailedRolledBack`, `FailedNeverApplied`). There is a number for every job because each comes from a reload that was
asked for, one that a worker has or that was turned into a job (`Counted`). Then for reloads that nothing disturbs, that is with the constant `Allowed = {}` that the run
`reload_calm` has: nothing is freed in use (`NothingFreedInUse`), every instance is swapped (`EverySwapped`), no handle is leaked or
freed twice (`HandlesSettled`). Without that hypothesis these three are false: section 5 lists what each disturbance breaks. `CalmInv` says it script by script: at most one compilation or reload of a script is on its way
(`OneAtATime`), who compiles will not find its text cached (`Missing`), the cache holds the new handle if there is one and else the script's
(`CacheRight`), a job replaces the handle the script has (`OldRight`) in all its instances (`SnapshotRight`), each of which runs the old
handle until its turn and the new one after (`InstancesRight`); and a handle that is not freed is held for exactly one script (`HandlesRight`). A step
about one script leaves all that alone for the others (`OneScript`).

`CrossInheritProofs`, for any scripts, bases, languages, depth limit and number of registrations: `StackRight`, which states `StackWellFormed`,
`OverflowsByLoop`, which states `OverflowOnlyByLoop`, and `FirstAnswers`, which states `FirstServes`. None of the three looks inductive, and the
proof has five layers.

- What `resolve_chain` returns: its loop ends because a chain has at most `MaxChain` steps and is then a sequence of different paths, each the
  base of the one before it (`ChainFacts`); if no chain closes a cycle or is cut, the chain of a script in it is the rest of it
  (`ChainSuffix`). The loop is a recursive function; that a function it leaves as it is exists, and that a property of longer chains passes to shorter ones
  (`ChainInduction`), is again a least counterexample. The library's induction theorems are not needed.
- `Right`: types, every frame one that its caller can have made (its `todo` is part of the chain of its script, or begins one), and no loop in the entries if `loops` is
  empty. The steps are sorted into three kinds, by what they do to the top of the stack: `Turn`, `Leave` and `Enter` (`StepCases`).
- `Counted`: `tl_call_depth` is the number of frames that the bridge called, and between two of those there is at most one super(), so the depth limit bounds a
  stack of calls by `2 * (PL_BRIDGE_MAX_CALL_DEPTH + 1)`.
- `Grouped`, for reads and writes, which no limit stops: every frame belongs to an epoch, the time between two registrations; within
  an epoch no script is on the stack twice, nor in the `todo` of a frame above its own, because without a cycle the chains are an order. So there are at most
  `Cardinality(Scripts) * (MaxChanges + 1)` frames.
- `Reads` and `Calls`, for an access nobody disturbs. A frame of a read has asked a front of its chain and nobody there has the
  member (`Asked`, `NoneOf`), and what a frame returns is the first of its own chain, hence of its caller's (`FirstUp`). A call has a spine: its lowest frames walk down the root's
  chain past scripts that have no such method (`Spine`); the one above the spine is already the script that is to answer,
  so that whatever it calls, its result is the root's, or the walk ends there with nothing. An error code that is not the
  root's own is lost on the way up (`OwnError`).

`OverflowsByLoop` has a hypothesis, `StackHolds`: there are finitely many scripts and a thread's stack holds the two numbers of frames above. The code assumes as much (its
limit of 64 calls is meant to stop a recursion before the stack does), and it is what the property means: a smaller stack overflows without any loop.
The run's instance satisfies it with equality, 6 for both.

The assumptions are the modules' named `ASSUME`s (bounds are naturals, those of supplies that must not be empty positive; the trusted policy is
a policy; the main thread is a thread; `"none"` is not the path of a script). Every invariant that a passing run checks is stated by a theorem, and so are the
action properties. Model-checked only: the liveness properties (`SettledIsReported`, `StopReturns`, `DebtsPaid`, `DueIsResumed`, `ReloadSettles`, `EveryFetchReturns`,
`CallbackAnswered`, `WriterServed`, `EveryAccessEnds`), for which TLAPS has no rule here.

## 5. What is not modelled, and what is modelled without a property

Arguments, return values and the contents of source texts; data races as such (a torn
read of `stage_queue_`); hash collisions; wrap-around of 64-bit counters; the
deletion of singletons while other threads are still inside them; start-up and tear-down
order. Of the components in section 1: the profiler (a display), the engine API bridge (stateless), conversions and
the export parser (text), polyglot compilation and reload, adapter loading and Odin builds, the entry points, the adapters, whose
runtimes are third-party, and the editor addon. By lines, nearly all of the repository is generated bindings of
the engine and vendored or built copies of them (`build_win/godot-cpp`, `build/`): none of that is PolyLang's own code, and a
model of it would say nothing about PolyLang.

Some of what the models do was seen while they were written and is plain from the code,
so no run is spent on it:

*Lifetimes*

- tick() locks `active_mutex_` inside the scope of `pending_mutex_`
  (`pl_coroutine_scheduler.cpp:180`) although the comment at line 173 says the two are never
  held together (`TickLockBoth`); no other path nests them, so nothing deadlocks on it.
- A coroutine body that reaches cancel(), is_running() or a spawn on a signal locks
  `active_mutex_` a second time (`ResumeSelfLocks`); the liveness properties of the
  coroutines except this outcome.
- A coroutine is resumed whether or not the object it was begun on still exists.
- With disturbances that `reload_disturbed` does not allow or does not ask about: two
  overlapping reloads free the same old handle; an instance made after the snapshot keeps
  running on the freed code (`"create"`); a rollback leaves the instances swapped before
  the failure on the new code (`"fail"`); an instance freed after the snapshot is
  swapped through its raw pointer (`"delete"`).
- cancel() of the async runtime frees a handle under `futures_mutex_` while the poll thread may be inside `pl_async_poll` on its
  copy (`pl_async_runtime.cpp:125`); `src/docs/THREAT_MODEL.md:24` promises to prevent use after free. `NoPollAfterEnd` excepts this case and no other.
- A coroutine cancelled between connect_native() and the write-back of its listener id leaves the listener connected for
  good (`pl_coroutine_scheduler.cpp:124`), shutdown() included; `src/polylang plugin/VULNERABILITY_REPORT.md:73` says shutdown disconnects all. `ListenersOwned` excepts it.
- release() finds its entry by key alone (`compile_cache.cpp:203`): the owner of a replaced handle gives back a reference to the newer entry
  and may free the newer handle under its owner.
- The request of a fetch that timed out stays queued, with pointers into its stack frame (`pl_resource_bridge.cpp:206`); the answer may land in
  the thread's next fetch.
- `resolve_method_target()` returns the raw foreign object without the lock (`polylang_script_instance.cpp:205`), and
  `pl_coroutine_create` (`pl_coroutine_scheduler.cpp:311`) or `pl_async_begin` (`pl_async_runtime.cpp:252`) runs on it: a hot swap on the main
  thread may free it under them. `NoFreeUnderCall` forbids that of locked calls only; of these it says that the object was current when it was handed out.
- The destructor of an instance takes no lock (`polylang_script_instance.cpp:100`), so the deletion may free the object under a call of another
  thread (`Destroy`); `NoFreeUnderCall` is about living instances. A deletion while the instance is being swapped, by foreign code that save or restore run or by another
  thread, frees the old object which hot_swap() will free again, and leaves the new one to nobody; `ExactlyCurrentLeft` excepts it (`torn`).
- A script that calls `trigger_compile()` again takes another reference to its handle (`polylang_script.cpp:106`), and its destructor gives back one
  (`polylang_script.cpp:48`): the entry stays in the cache until shutdown. `RefsAreClaims` counts the excess.
- A script compiled unrestricted whose path is registered later gives back, in its destructor, a sandboxed key it does not hold
  (`polylang_script.cpp:53`): its own reference leaks.
- A fetch that sees the shutdown flag may return before shutdown() has followed the
  pointers of its request (`resource`: `Return` with the request still queued).

*Deadlocks of a thread with itself*
- `pl_free_instance` of the replaced object runs under the exclusive lock (`polylang_script_instance.cpp:140`): a destructor in the script that calls
  back into its instance waits for ever.
- A method that calls back into its own instance takes the shared lock twice; where a waiting writer goes first, it waits for hot_swap() and hot_swap() for it.

*Calls, bases and state*
- A `.gd` base is never loaded: call_on_base asks the owner, whose script instance is asked first and walks to the same base again, until the
  stack is exhausted (`pl_cross_inherit.cpp:131`); `pl_cross_inherit.hpp:10` says the method is looked up in the loaded GDScript. Gets and sets around
  a cycle of bases recurse in the same way, since only calls count their depth. `OverflowOnlyByLoop` says that nothing else does.
- A PolyLang base without a method answers a call with PL_OK and nil (`pl_cross_inherit.cpp:127`), which ends the walk.
- Built-in callbacks do not fall back to bases, and polyglot instances never do.
- Containers become nil over a hot swap unless the adapter serializes its state (`pl_state_transfer.cpp:21`).

*Policies and mods*
- `allowed_caps` below `sandbox=quarantined` grants capabilities to a quarantined script; above it, it does not (`runtime_manager.cpp:374`).
- Sidecars are opened with std::ifstream under the script's resource path (`runtime_manager.cpp:411`); `res://` is not a place in the file system, so
  for such a path no file is found. The model is of the paths for which one is.
- The mod loader and the sidecar parser read files of the same name in two formats.
- Two mods whose entries agree up to the first dot are one mod; the configuration read last wins and both scripts are registered.
- The registrations of a load that is aborted for a cycle stay.

## 6. Plan

Left to model: `Polyglot` (compilation, reload under live instances, ownership of block handles); `Lifecycle`, start-up and tear-down of all
singletons with threads still running; `Frame`, the async runtime, the bus and the resource bridge in one frame (results
dropped by a full queue, a join that waits for a fetch); adapter loading from several threads.

Proofs to come: that each scheduler step of `HotReload` implements a swap in one step (see below). A new module takes its place among the runs by being joined to the run nearest to it, or
replaces a run that shows less. Abstract specifications worth stating: a bus that delivers each accepted emission
once per connected callable; a reload that swaps a script's code in one step, which
undisturbed reloads implement; a resource service that answers a call.
