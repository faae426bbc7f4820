------------------------------ MODULE ScriptInstance ------------------------------
(***************************************************************************)
(* PolyLangScriptInstance: the foreign object behind a script instance,    *)
(* called from any thread under a shared lock (instance_lock_) and         *)
(* exchanged by hot_swap() on the main thread, with the state carried over *)
(* by StateTransfer outside the lock.                                      *)
(*                                                                         *)
(* A foreign method runs with the shared lock held and may call back into  *)
(* the instance, through the bridge or the owner. std::shared_mutex leaves *)
(* the order of readers and a waiting writer to the platform: both are     *)
(* modelled (writersFirst). Spawning a coroutine and submitting an async   *)
(* method only fetch the foreign object under the lock and run foreign     *)
(* code on it after the lock is gone (target).                             *)
(*                                                                         *)
(* The names of the properties are those of the export declarations. A     *)
(* value is the number of the write that made it.                          *)
(***************************************************************************)
EXTENDS Naturals

CONSTANTS
    Threads, Main,       \* callers; Main also swaps and deletes
    Props, Scalars,      \* exported properties; those of a scalar type
    MaxSwaps, MaxDepth, MaxWrites  \* bounds on swaps, nested calls, writes

ASSUME InstanceAssumption ==
    /\ Main \in Threads
    /\ Scalars \subseteq Props
    /\ MaxSwaps \in Nat /\ MaxWrites \in Nat /\ MaxDepth \in Nat \ {0}

VARIABLES
    foreign,      \* foreign_instance_, or None
    made,         \* history: how many foreign objects there were
    freed, twice, \* history: those freed, and whether one was freed again
    alive, torn,  \* the instance has not been deleted; history: it was, during a swap
    frame, depth, \* the foreign objects each thread is inside calls of
    wants,        \* threads waiting in lk(instance_lock_) for the shared lock
    target,       \* the object each thread runs foreign code on without the lock
    stage, old,   \* where hot_swap() is, and the object it replaces
    snap, left,   \* the snapshot, and the properties not yet saved or restored
    val,          \* the state of the foreign objects
    written, writes, raced, \* history: last write of each property, their number,
                  \* and the properties last written between their save and restore
    native, writersFirst  \* the adapter has pl_serialize_state; the platform's lock

objVars == <<foreign, made, freed, twice, alive, torn>>
callVars == <<frame, depth, wants, target>>
swapVars == <<stage, old, snap, left>>
stateVars == <<val, written, writes, raced>>
vars == <<objVars, callVars, swapVars, stateVars, native, writersFirst>>

None == 0
Objects == 1..MaxSwaps + 1
Nil == MaxWrites + 1     \* the value nil; 0 is what a new object starts with
Values == 0..Nil

\* Every variable has its type; that includes that a scalar property never turns nil.
TypeOK ==
    /\ foreign \in Objects \cup {None} /\ old \in Objects \cup {None}
    /\ made \in Objects /\ freed \subseteq Objects
    /\ twice \in BOOLEAN /\ alive \in BOOLEAN /\ torn \in BOOLEAN
    /\ frame \in [Threads -> [1..MaxDepth -> Objects \cup {None}]]
    /\ depth \in [Threads -> 0..MaxDepth]
    /\ wants \in [Threads -> BOOLEAN] /\ target \in [Threads -> Objects \cup {None}]
    /\ stage \in {"idle", "saving", "waiting", "freeing", "restoring"}
    /\ snap \in [Props -> Values] /\ left \subseteq Props
    /\ val \in [Objects -> [Props -> Values]]
    /\ \A p \in Scalars : snap[p] # Nil /\ \A o \in Objects : val[o][p] # Nil
    /\ written \in [Props -> Values] /\ writes \in 0..MaxWrites /\ raced \subseteq Props
    /\ native \in BOOLEAN /\ writersFirst \in BOOLEAN

Init ==
    /\ foreign = 1 /\ made = 1 /\ freed = {} /\ twice = FALSE
    /\ alive = TRUE /\ torn = FALSE
    /\ frame = [t \in Threads |-> [i \in 1..MaxDepth |-> None]]
    /\ depth = [t \in Threads |-> 0] /\ wants = [t \in Threads |-> FALSE]
    /\ target = [t \in Threads |-> None]
    /\ stage = "idle" /\ old = None
    /\ snap = [p \in Props |-> 0] /\ left = {}
    /\ val = [o \in Objects |-> [p \in Props |-> 0]]
    /\ written = [p \in Props |-> 0] /\ writes = 0 /\ raced = {}
    /\ native \in BOOLEAN /\ writersFirst \in BOOLEAN

-----------------------------------------------------------------------------
(* Calls, under the shared lock or on an object fetched under it. *)

\* Fault: the snapshot is taken under the exclusive lock too (before VLN-13).
HeldWhileSaving == stage \in {"saving", "freeing"}

\* hot_swap() holds instance_lock_ exclusively.
HeldExclusively == stage = "freeing"

\* Fault: readers that do not look at the lock.
NeverRefused == TRUE

SharedGranted == ~HeldExclusively /\ ~(writersFirst /\ stage = "waiting")

\* The calls a thread is inside of, those that run without the lock included.
Nested(t) == depth[t] + (IF target[t] = None THEN 0 ELSE 1)

\* call_builtin(), call_method(), get_property_direct() or set_property_direct()
\* reaches the lock. The main thread gets there from the engine, or from foreign code
\* that hot_swap() runs.
Ask(t) ==
    /\ alive /\ ~wants[t] /\ Nested(t) < MaxDepth
    /\ t = Main => stage # "waiting"
    /\ wants' = [wants EXCEPT ![t] = TRUE]
    /\ UNCHANGED <<objVars, frame, depth, target, swapVars, stateVars, native, writersFirst>>

\* The lock is granted and foreign_instance_ read: the foreign code runs. When the
\* instance was deleted meanwhile, the outcome modelled is that the call fails.
Enter(t) ==
    /\ wants[t] /\ SharedGranted
    /\ wants' = [wants EXCEPT ![t] = FALSE]
    /\ IF foreign = None THEN UNCHANGED <<frame, depth>>
       ELSE /\ depth' = [depth EXCEPT ![t] = @ + 1]
            /\ frame' = [frame EXCEPT ![t][depth[t] + 1] = foreign]
    /\ UNCHANGED <<objVars, target, swapVars, stateVars, native, writersFirst>>

\* The foreign code returns and the lock is released; what a base script does after
\* that is outside the lock.
Return(t) ==
    /\ depth[t] > 0 /\ ~wants[t]
    /\ depth' = [depth EXCEPT ![t] = @ - 1]
    /\ frame' = [frame EXCEPT ![t][depth[t]] = None]
    /\ UNCHANGED <<objVars, wants, target, swapVars, stateVars, native, writersFirst>>

\* resolve_method_target(): foreign_instance_ is read under the shared lock, the lock
\* dropped, and pl_coroutine_create() or pl_async_begin() runs on what was read. The
\* main thread gets there as in Ask. From inside a locked call the outer lock still
\* covers the object: that is the nested call of Enter.
Resolve(t) ==
    /\ alive /\ foreign # None /\ SharedGranted
    /\ target[t] = None /\ depth[t] = 0 /\ ~wants[t]
    /\ t = Main => stage # "waiting"
    /\ target' = [target EXCEPT ![t] = foreign]
    /\ UNCHANGED <<objVars, frame, depth, wants, swapVars, stateVars, native, writersFirst>>

\* The foreign code called without the lock returns.
Finish(t) ==
    /\ target[t] # None /\ depth[t] = 0 /\ ~wants[t]
    /\ target' = [target EXCEPT ![t] = None]
    /\ UNCHANGED <<objVars, frame, depth, wants, swapVars, stateVars, native, writersFirst>>

\* The object whose foreign code a thread is running: that of its innermost call.
Running(t) == IF depth[t] > 0 THEN frame[t][depth[t]] ELSE target[t]

\* p has been saved and not been restored yet.
InFlight(p) ==
    \/ stage = "saving" /\ p \notin left
    \/ stage \in {"waiting", "freeing"}
    \/ stage = "restoring" /\ p \in left

\* The foreign code changes a property of its object.
Write(t, p) ==
    /\ Running(t) # None /\ ~wants[t] /\ writes < MaxWrites
    /\ Running(t) \notin freed
    /\ writes' = writes + 1
    /\ written' = [written EXCEPT ![p] = writes + 1]
    /\ val' = [val EXCEPT ![Running(t)][p] = writes + 1]
    /\ raced' = IF InFlight(p) THEN raced \cup {p} ELSE raced \ {p}
    /\ UNCHANGED <<objVars, callVars, swapVars, native, writersFirst>>

-----------------------------------------------------------------------------
(* hot_swap(), on the main thread. *)

\* The main thread is not inside foreign code of the instance, nor of a callback into it.
MainBack == depth[Main] = 0 /\ ~wants[Main] /\ target[Main] = None

\* The scheduler hands over a new object; the old one is read under the shared lock.
SwapBegins ==
    /\ stage = "idle" /\ alive /\ MainBack /\ made <= MaxSwaps
    /\ stage' = "saving" /\ old' = foreign
    /\ made' = made + 1
    /\ left' = Props
    /\ UNCHANGED <<foreign, freed, twice, alive, torn, callVars, snap, stateVars, native, writersFirst>>

\* A value survives as a Variant of a scalar type, or inside the adapter's own string.
Transferable(p) == native \/ p \in Scalars

\* Fault: read the new object instead of the old.
SavedOfNew(p) == [snap EXCEPT ![p] = val[made][p]]

\* pl_get_property() of the old object, by way of pl_to_variant().
Saved(p) == [snap EXCEPT ![p] = IF Transferable(p) THEN val[old][p] ELSE Nil]

SaveProp(p) ==
    /\ stage = "saving" /\ MainBack /\ p \in left
    /\ snap' = Saved(p)
    /\ left' = left \ {p}
    /\ UNCHANGED <<objVars, callVars, stage, old, stateVars, native, writersFirst>>

SwapWaits ==
    /\ stage = "saving" /\ MainBack /\ left = {}
    /\ stage' = "waiting"
    /\ UNCHANGED <<objVars, callVars, old, snap, left, stateVars, native, writersFirst>>

\* Fault: the exclusive lock does not wait for the readers of other threads.
MainOnlyOut == depth[Main] = 0

NoReaders == \A t \in Threads : depth[t] = 0

\* unique_lock: foreign_instance_ is exchanged.
SwapStores ==
    /\ stage = "waiting" /\ NoReaders
    /\ foreign' = made
    /\ stage' = "freeing"
    /\ UNCHANGED <<made, freed, twice, alive, torn, callVars, old, snap, left, stateVars, native, writersFirst>>

\* Fault: frees what foreign_instance_ points to now.
Replaced == made

\* The object hot_swap() frees: the one it read in its first step.
Discarded == old

\* pl_free_instance() of the old object, with the lock held exclusively: foreign code
\* that calls back into the instance from here waits for ever.
FreeOld ==
    /\ stage = "freeing" /\ MainBack
    /\ freed' = freed \cup {Discarded}
    /\ twice' = (twice \/ Discarded \in freed)
    /\ stage' = "restoring" /\ left' = Props
    /\ UNCHANGED <<foreign, made, alive, torn, callVars, old, snap, stateVars, native, writersFirst>>

RestoreProp(p) ==
    /\ stage = "restoring" /\ MainBack /\ p \in left
    /\ val' = [val EXCEPT ![made][p] = snap[p]]
    /\ left' = left \ {p}
    /\ UNCHANGED <<objVars, callVars, stage, old, snap, written, writes, raced, native, writersFirst>>

SwapEnds ==
    /\ stage = "restoring" /\ MainBack /\ left = {}
    /\ stage' = "idle" /\ old' = None /\ snap' = [p \in Props |-> 0]
    /\ UNCHANGED <<objVars, callVars, left, stateVars, native, writersFirst>>

Swap ==
    \/ SwapBegins \/ SwapWaits \/ SwapStores \/ FreeOld \/ SwapEnds
    \/ \E p \in Props : SaveProp(p) \/ RestoreProp(p)

\* _free_trampoline(), on any thread: the destructor takes no lock, so callers may still
\* be inside, and hot_swap() may be under way: it goes on with the old object it read.
Destroy ==
    /\ alive
    /\ alive' = FALSE /\ foreign' = None
    /\ torn' = (stage # "idle")
    /\ freed' = freed \cup {foreign}
    /\ twice' = (twice \/ foreign \in freed)
    /\ UNCHANGED <<made, callVars, swapVars, stateVars, native, writersFirst>>

Next ==
    \/ \E t \in Threads :
           \/ Ask(t) \/ Enter(t) \/ Return(t)
           \/ Resolve(t) \/ Finish(t)
           \/ \E p \in Props : Write(t, p)
    \/ Swap
    \/ Destroy

\* Foreign calls return, a lock that can be granted is granted, and the main thread
\* goes on with a swap it has begun.
Fairness ==
    /\ \A t \in Threads : WF_vars(Enter(t)) /\ WF_vars(Return(t)) /\ WF_vars(Finish(t))
    /\ WF_vars(Swap)

Spec == Init /\ [][Next]_vars
FairSpec == Spec /\ Fairness

-----------------------------------------------------------------------------
(* Properties *)

\* While the instance lives: no thread is inside a call that holds the lock on a foreign
\* object that was freed, although the swap frees a pointer it read two critical
\* sections earlier. A call that runs without the lock (resolve_method_target()) is not
\* protected: its object may be freed under it, but only by a swap that replaced it after
\* it was handed out. It is never handed an object that had been freed, nor one still to
\* be installed.
NoFreeUnderCall ==
    alive => \A t \in Threads :
        /\ \A i \in 1..depth[t] : frame[t][i] \notin freed
        /\ target[t] \in freed => target[t] < foreign

\* Unless the instance is deleted while a swap of it is under way: between swaps every
\* foreign object but the current one has been freed, and no object was freed twice, so
\* neither a swap nor the deletion leaks or repeats.
ExactlyCurrentLeft ==
    ~torn =>
        /\ ~twice
        /\ stage = "idle" => freed = 1..made \ {foreign}

\* A property holds what was last written to it, across any number of swaps, unless
\* that write fell between its save and its restore, or its value cannot be carried.
StateKept ==
    alive /\ stage = "idle" =>
        \A p \in Props \ raced : Transferable(p) => val[foreign][p] = written[p]

\* Foreign code that hot_swap() runs to save or to restore and that calls back into
\* the instance gets the lock (the deadlock VLN-13 removed).
CallbackAnswered == (stage \in {"saving", "restoring"} /\ wants[Main]) ~> ~wants[Main]

\* A thread that already holds the lock waits for it behind the waiting hot_swap().
Reentered == \E t \in Threads : depth[t] > 0 /\ wants[t]

\* Where the lock lets a waiting writer go first, hot_swap() gets it, unless a call
\* re-enters the instance while hot_swap() waits.
WriterServed == (writersFirst /\ stage = "waiting") ~> (stage # "waiting" \/ Reentered)
=============================================================================
