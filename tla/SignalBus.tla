------------------------------- MODULE SignalBus -------------------------------
(***************************************************************************)
(* PLSignalBus: script signals are queued from any thread and dispatched   *)
(* once a frame on the main thread (flush_queued), first to the callables  *)
(* connected to the signal, then to its native listeners.                  *)
(*                                                                         *)
(* The queue, the callables and the native listeners have a mutex each,    *)
(* held for one operation; the dispatch copies each list under its mutex   *)
(* and calls the copies without a lock, so every call is a step of its own *)
(* between which a listener or another thread may change the lists.        *)
(*                                                                         *)
(* The module is both a system of its own (Spec) and the bus half of       *)
(* CoroutineScheduler, which extends it.                                   *)
(***************************************************************************)
EXTENDS Naturals, Sequences, FiniteSets

CONSTANTS
    Signals,        \* signal names
    Callables,      \* script callables that may be connected
    Owners,         \* who registers native listeners (coroutines)
    QueueCap,       \* PL_SIGNAL_QUEUE_HARD_CAP, 4096 in the code
    MaxEmissions,   \* bound on the emissions of a run
    MaxListeners    \* bound on the native listeners of a run

ASSUME BusAssumption ==
    /\ QueueCap \in Nat \ {0}
    /\ MaxEmissions \in Nat
    /\ MaxListeners \in Nat

VARIABLES
    queue,          \* emission_queue_
    dropped,        \* dropped_emissions_
    slots,          \* callable_map_
    natives,        \* native_listeners_
    nextListener,   \* next_native_id_
    alive,          \* callables whose receiver still exists
    phase,          \* where flush_queued() is
    batch,          \* the emissions flush_queued() swapped out
    cur,            \* the emission being dispatched
    todo,           \* its copied listeners still to be called
    nextNo,         \* history: number the next emission gets
    mark,           \* history: nextNo when the running flush began
    dispatched,     \* history: emissions whose dispatch has begun
    called,         \* history: <<emission number, callable>> calls made
    owed            \* history: calls the bus owes its connected callables

busVars == <<queue, dropped, slots, natives, nextListener, alive, phase, batch,
             cur, todo, nextNo, mark, dispatched, called, owed>>
flushVars == <<phase, batch, cur, todo, mark, dispatched, called>>
listenerVars == <<slots, natives, nextListener, alive>>
queueVars == <<queue, dropped, nextNo>>

Emission == [sig : Signals, no : 1..MaxEmissions]
Listener == [id : 1..MaxListeners, sig : Signals, owner : Owners]
NoEmission == [sig |-> "none", no |-> 0]

InSeq(x, s) == \E i \in DOMAIN s : s[i] = x

(* What erasing the elements outside K leaves of s, in its order.          *)
Kept(s, K) ==
    LET kept[i \in 0..Len(s)] == IF i = 0 THEN <<>>
                                 ELSE IF s[i] \in K THEN Append(kept[i - 1], s[i])
                                 ELSE kept[i - 1]
    IN  kept[Len(s)]

BusTypeOK ==
    /\ queue \in Seq(Emission) /\ Len(queue) <= QueueCap
    /\ dropped \in 0..MaxEmissions
    /\ slots \in [Signals -> Seq(Callables)]
    /\ natives \in Seq(Listener)
    /\ nextListener \in 1..(MaxListeners + 1)
    /\ alive \in SUBSET Callables
    /\ phase \in {"idle", "flush", "callables", "natives"}
    /\ batch \in Seq(Emission)
    /\ cur \in Emission \cup {NoEmission}
    /\ todo \in Seq(Callables) \cup Seq(Listener)
    /\ nextNo \in 1..(MaxEmissions + 1)
    /\ mark \in 1..(MaxEmissions + 1)
    /\ dispatched \in 0..MaxEmissions
    /\ called \in SUBSET ((1..MaxEmissions) \X Callables)
    /\ owed \in SUBSET ((1..MaxEmissions) \X Callables)

BusInit ==
    /\ queue = <<>>
    /\ dropped = 0
    /\ slots = [s \in Signals |-> <<>>]
    /\ natives = <<>>
    /\ nextListener = 1
    /\ alive = Callables
    /\ phase = "idle"
    /\ batch = <<>>
    /\ cur = NoEmission
    /\ todo = <<>>
    /\ nextNo = 1
    /\ mark = 1
    /\ dispatched = 0
    /\ called = {}
    /\ owed = {}

-------------------------------------------------------------------------------
(* Operations any thread may call. *)

QueueFull == Len(queue) >= QueueCap

DropUncounted == dropped                                        \* fault
DropCounted == dropped + 1

QueuedFirst(e) == <<e>> \o queue                                \* fault
QueuedLast(e) == Append(queue, e)

(* emit_signal_pl() and emit_native(): an emission that finds the queue    *)
(* full is counted and dropped.                                            *)
Emit(s) ==
    /\ nextNo <= MaxEmissions
    /\ nextNo' = nextNo + 1
    /\ IF QueueFull
         THEN /\ dropped' = DropCounted
              /\ UNCHANGED <<queue, owed>>
         ELSE /\ queue' = QueuedLast([sig |-> s, no |-> nextNo])
              /\ owed' = owed \cup
                    { <<nextNo, c>> : c \in {d \in alive : InSeq(d, slots[s])} }
              /\ UNCHANGED dropped
    /\ UNCHANGED <<flushVars, listenerVars>>

AlreadyConnected(s, c) == InSeq(c, slots[s])

(* connect_signal(): a callable already in the list is not added again. *)
ConnectSignal(s, c) ==
    /\ slots' = IF AlreadyConnected(s, c) THEN slots
                ELSE [slots EXCEPT ![s] = Append(@, c)]
    /\ UNCHANGED <<natives, nextListener, alive, flushVars, queueVars, owed>>

NobodyLeft(s, c) == <<>>                                        \* fault
OthersLeft(s, c) == Kept(slots[s], Callables \ {c})

\* The emission numbered n is one of signal s that waits or is being dispatched.
OfSignal(n, s) ==
    \/ \E i \in DOMAIN queue : queue[i].no = n /\ queue[i].sig = s
    \/ \E i \in DOMAIN batch : batch[i].no = n /\ batch[i].sig = s
    \/ cur.no = n /\ cur.sig = s

(* disconnect_signal() removes the callable from one signal: it is owed no *)
(* more calls for that signal, those for other signals stay owed.          *)
DisconnectSignal(s, c) ==
    /\ slots' = [slots EXCEPT ![s] = OthersLeft(s, c)]
    /\ owed' = { o \in owed : ~(o[2] = c /\ OfSignal(o[1], s)) }
    /\ UNCHANGED <<natives, nextListener, alive, flushVars, queueVars>>

(* The receiver of a callable is freed by the engine; nothing disconnects  *)
(* it, is_valid() turns false.                                             *)
ReceiverFreed(c) ==
    /\ alive' = alive \ {c}
    /\ owed' = { o \in owed : o[2] # c }
    /\ UNCHANGED <<slots, natives, nextListener, flushVars, queueVars>>

(* connect_native() returns the id nextListener had. *)
ConnectNative(s, o) ==
    /\ nextListener <= MaxListeners
    /\ natives' = Append(natives, [id |-> nextListener, sig |-> s, owner |-> o])
    /\ nextListener' = nextListener + 1
    /\ UNCHANGED <<slots, alive, flushVars, queueVars, owed>>

Without(ls, gone) == Kept(ls, {l \in Listener : l.id \notin gone})

(* disconnect_native() of every listener id in gone. *)
DisconnectNative(gone) ==
    /\ natives' = Without(natives, gone)
    /\ UNCHANGED <<slots, nextListener, alive, flushVars, queueVars, owed>>

-------------------------------------------------------------------------------
(* flush_queued(), on the main thread. *)

FlushSwap ==
    /\ phase = "idle"
    /\ batch' = queue
    /\ queue' = <<>>
    /\ mark' = nextNo
    /\ phase' = "flush"
    /\ UNCHANGED <<dropped, nextNo, listenerVars, cur, todo, dispatched, called,
                   owed>>

(* dispatch_emission() of the next emission: the callables connected to    *)
(* its signal are copied.                                                  *)
DispatchNext ==
    /\ phase = "flush"
    /\ batch # <<>>
    /\ cur' = Head(batch)
    /\ batch' = Tail(batch)
    /\ todo' = slots[Head(batch).sig]
    /\ phase' = "callables"
    /\ dispatched' = dispatched + 1
    /\ UNCHANGED <<queueVars, listenerVars, mark, called, owed>>

CallCallable ==
    /\ phase = "callables"
    /\ todo # <<>>
    /\ called' = IF Head(todo) \in alive THEN called \cup {<<cur.no, Head(todo)>>}
                                         ELSE called
    /\ owed' = owed \ {<<cur.no, Head(todo)>>}
    /\ todo' = Tail(todo)
    /\ UNCHANGED <<queueVars, listenerVars, phase, batch, cur, mark, dispatched>>

(* Only now are the native listeners of the signal copied. *)
CopyNatives ==
    /\ phase = "callables"
    /\ todo = <<>>
    /\ todo' = Kept(natives, {l \in Listener : l.sig = cur.sig})
    /\ phase' = "natives"
    /\ UNCHANGED <<queueVars, listenerVars, batch, cur, mark, dispatched, called,
                   owed>>

(* One native callback; what it does is the business of its owner. *)
CallNative ==
    /\ phase = "natives"
    /\ todo # <<>>
    /\ todo' = Tail(todo)
    /\ UNCHANGED <<queueVars, listenerVars, phase, batch, cur, mark, dispatched,
                   called, owed>>

DispatchDone ==
    /\ phase = "natives"
    /\ todo = <<>>
    /\ phase' = "flush"
    /\ cur' = NoEmission
    /\ UNCHANGED <<queueVars, listenerVars, batch, todo, mark, dispatched, called,
                   owed>>

FlushDone ==
    /\ phase = "flush"
    /\ batch = <<>>
    /\ phase' = "idle"
    /\ UNCHANGED <<queueVars, listenerVars, batch, cur, todo, mark, dispatched,
                   called, owed>>

-------------------------------------------------------------------------------
BusClient ==
    \/ \E s \in Signals : Emit(s)
    \/ \E s \in Signals, c \in Callables :
          ConnectSignal(s, c) \/ DisconnectSignal(s, c)
    \/ \E c \in Callables : ReceiverFreed(c)
    \/ \E s \in Signals, o \in Owners : ConnectNative(s, o)
    \/ \E i \in 1..(nextListener - 1) : DisconnectNative({i})

BusFlush ==
    \/ FlushSwap \/ DispatchNext \/ CallCallable \/ CopyNatives
    \/ CallNative \/ DispatchDone \/ FlushDone

BusNext == BusClient \/ BusFlush

BusSpec == BusInit /\ [][BusNext]_busVars

(* _frame() flushes the bus every frame and listeners return. *)
BusFairSpec == BusSpec /\ WF_busVars(BusFlush)

-------------------------------------------------------------------------------
(* Emissions are dispatched in the order the queue accepted them, across   *)
(* frames: what is being dispatched, the rest of the batch and the queue   *)
(* carry increasing numbers.                                               *)
DispatchInOrder ==
    LET line == (IF cur = NoEmission THEN <<>> ELSE <<cur>>) \o batch \o queue
    IN  \A i, j \in DOMAIN line : i < j => line[i].no < line[j].no

(* No emission disappears without being counted: each one was dispatched,  *)
(* or is waiting, or is in get_dropped_emissions().                        *)
EveryEmissionAccounted ==
    nextNo - 1 = dispatched + dropped + Len(batch) + Len(queue)

(* An emission made by a listener during a flush waits for the next frame, *)
(* so a signal that re-emits itself cannot keep a frame from ending.       *)
NoDispatchOfOwnFlush ==
    phase # "idle" =>
        /\ cur.no < mark
        /\ \A i \in DOMAIN batch : batch[i].no < mark

(* A callable is called at most once for an emission, however often it was *)
(* connected and whatever connects and disconnects during the dispatch.    *)
NoCallTwice ==
    phase = "callables" =>
        /\ \A i \in DOMAIN todo : <<cur.no, todo[i]>> \notin called
        /\ \A i, j \in DOMAIN todo : todo[i] = todo[j] => i = j

(* A callable that was connected when an emission was accepted, and has    *)
(* stayed connected and alive, is called for it: the debt is always backed *)
(* by an emission still to be dispatched or by the copy being called.      *)
NoListenerSkipped ==
    \A o \in owed :
        \/ \E i \in DOMAIN queue : queue[i].no = o[1]
        \/ \E i \in DOMAIN batch : batch[i].no = o[1]
        \/ phase = "callables" /\ cur.no = o[1] /\ InSeq(o[2], todo)

(* The queues hold what they should, and are worked off in order.         *)
BusInOrder == BusTypeOK /\ DispatchInOrder /\ NoDispatchOfOwnFlush

(* Who is owed a call gets it, once.                                       *)
EachCalledOnce == NoListenerSkipped /\ NoCallTwice

(* Every debt is paid or forgiven: with the flush run every frame, an      *)
(* accepted emission reaches each callable that stays connected.           *)
DebtsPaid ==
    \A n \in 1..MaxEmissions, c \in Callables :
        (<<n, c>> \in owed) ~> (<<n, c>> \notin owed)

===============================================================================
