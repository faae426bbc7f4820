------------------------------ MODULE CompileCache ------------------------------
(***************************************************************************)
(* CompileCache: one compiled handle per script path and sandbox policy,   *)
(* shared by reference counting between everyone who asks for it.          *)
(*                                                                         *)
(* A call (get_or_compile, get_or_compile_sandboxed) looks the key up      *)
(* under the shared lock, compiles without a lock, and stores the result   *)
(* under the exclusive lock, where another caller may have been faster.    *)
(* Each of these is a step. Source texts are compared by their SHA-256     *)
(* digest, which stands for the text here.                                 *)
(*                                                                         *)
(* The module is the cache alone: CacheClients puts clients that acquire   *)
(* and release handles around it, HotReload scripts and reload workers.    *)
(***************************************************************************)
EXTENDS Naturals, Sequences, FiniteSets

CONSTANTS
    Paths,        \* script resource paths
    Caps,         \* sandbox policies, Trusted for the unsandboxed one
    Trusted,
    Sources,      \* source texts a script may have
    Callers,      \* threads that call the cache
    MaxHandles    \* bound on the handles compiled in a run

ASSUME CacheAssumption ==
    /\ Trusted \in Caps
    /\ MaxHandles \in Nat
    /\ Sources # {}

VARIABLES
    entries,      \* entries_
    call,         \* how far each thread's call has got
    made,         \* handles compiled so far: 1..made
    frees         \* how often pl_free_compiled was called on each handle

cacheVars == <<entries, call, made, frees>>

Keys == Paths \X Caps
\* The path itself for a trusted script, sandboxed_key() for any other.
CacheKey(path, caps) == <<path, caps>>
Handles == 1..MaxHandles
NoHandle == 0
Cleared == "cleared"          \* the hash invalidate() leaves
NoEntries == [k \in {} |-> NoHandle]
Idle == [at |-> "out", key |-> <<>>, text |-> Cleared, handle |-> NoHandle]
Entry == [handle : Handles, hash : Sources \cup {Cleared}, refs : Nat]
Call == [at : {"out", "asked", "compiling", "storing", "returned"},
         key : Keys \cup {<<>>}, text : Sources \cup {Cleared},
         handle : Handles \cup {NoHandle}]
Known(k) == k \in DOMAIN entries

EntriesTyped ==
    /\ DOMAIN entries \subseteq Keys
    /\ entries \in [DOMAIN entries -> Entry]

CacheTypeOK ==
    /\ EntriesTyped
    /\ call \in [Callers -> Call]
    /\ made \in 0..MaxHandles
    /\ frees \in [Handles -> Nat]

CacheInit ==
    /\ entries = NoEntries
    /\ call = [c \in Callers |-> Idle]
    /\ made = 0
    /\ frees = [h \in Handles |-> 0]

-----------------------------------------------------------------------------
(* entries_ as values. *)

Stored(es, k, e) == [j \in DOMAIN es \cup {k} |-> IF j = k THEN e ELSE es[j]]
Erased(es, k) == [j \in DOMAIN es \ {k} |-> es[j]]

\* Fault: a hit hands the handle out without counting it.
RefForgotten(es, k) == es
RefTaken(es, k) == [es EXCEPT ![k].refs = @ + 1]

Freed(h) == [frees EXCEPT ![h] = @ + 1]

-----------------------------------------------------------------------------
(* get_or_compile and get_or_compile_sandboxed. *)

Ask(c, k, text) ==
    /\ call[c].at = "out"
    /\ call' = [call EXCEPT ![c] = [at |-> "asked", key |-> k, text |-> text,
                                    handle |-> NoHandle]]
    /\ UNCHANGED <<entries, made, frees>>

Return(c, h) == call' = [call EXCEPT ![c].at = "returned", ![c].handle = h]

Hit(k, text) == Known(k) /\ entries[k].hash = text

\* The fast path, under the shared lock.
LookupHit(c) ==
    /\ call[c].at = "asked"
    /\ Hit(call[c].key, call[c].text)
    /\ entries' = RefTaken(entries, call[c].key)
    /\ Return(c, entries[call[c].key].handle)
    /\ UNCHANGED <<made, frees>>

LookupMiss(c) ==
    /\ call[c].at = "asked"
    /\ ~Hit(call[c].key, call[c].text)
    /\ call' = [call EXCEPT ![c].at = "compiling"]
    /\ UNCHANGED <<entries, made, frees>>

\* The adapter reports an error, or cannot sandbox.
CompileFails(c) ==
    /\ call[c].at = "compiling"
    /\ Return(c, NoHandle)
    /\ UNCHANGED <<entries, made, frees>>

CompileSucceeds(c) ==
    /\ call[c].at = "compiling"
    /\ made < MaxHandles
    /\ made' = made + 1
    /\ call' = [call EXCEPT ![c].at = "storing", ![c].handle = made + 1]
    /\ UNCHANGED <<entries, frees>>

\* Fault: the handle that came second is dropped without freeing it.
LoserKept(h) == frees
LoserFreed(h) == Freed(h)

\* Another caller stored the same source first: its handle is shared, ours freed.
StoreAgrees(c) ==
    LET k == call[c].key IN
    /\ call[c].at = "storing"
    /\ Hit(k, call[c].text)
    /\ entries' = RefTaken(entries, k)
    /\ frees' = LoserFreed(call[c].handle)
    /\ Return(c, entries[k].handle)
    /\ UNCHANGED made

\* What storing over another source frees: the old handle, if nobody refers to it.
UnreferencedAt(k) ==
    {entries[j].handle : j \in {i \in DOMAIN entries \cap {k} : entries[i].refs = 0}}

StoreAnew(c) ==
    LET k == call[c].key IN
    /\ call[c].at = "storing"
    /\ ~Hit(k, call[c].text)
    /\ entries' = Stored(entries, k, [handle |-> call[c].handle, hash |-> call[c].text,
                                      refs |-> 1])
    /\ frees' = [h \in Handles |->
                    IF h \in UnreferencedAt(k) THEN frees[h] + 1 ELSE frees[h]]
    /\ Return(c, call[c].handle)
    /\ UNCHANGED made

InCache(c) ==
    \/ LookupHit(c) \/ LookupMiss(c)
    \/ CompileFails(c) \/ CompileSucceeds(c)
    \/ StoreAgrees(c) \/ StoreAnew(c)

\* The caller has its answer.
Leave(c) == call' = [call EXCEPT ![c] = Idle]

-----------------------------------------------------------------------------
(* release, invalidate, clear_all: each one critical section. *)

Remaining(k) == entries[k].refs - 1

\* entries_ and the free counts after release(k).
EntriesReleased(k) ==
    IF ~Known(k) THEN entries
    ELSE IF Remaining(k) <= 0 THEN Erased(entries, k)
    ELSE [entries EXCEPT ![k].refs = @ - 1]

\* Fault: the last reference but one already frees the handle.
FreesReleasedEarly(k) ==
    IF Known(k) /\ Remaining(k) <= 1 THEN Freed(entries[k].handle) ELSE frees
FreesReleased(k) ==
    IF Known(k) /\ Remaining(k) <= 0 THEN Freed(entries[k].handle) ELSE frees

Release(k) ==
    /\ entries' = EntriesReleased(k)
    /\ frees' = FreesReleased(k)
    /\ UNCHANGED made

Invalidate(path) ==
    /\ entries' = [k \in DOMAIN entries |->
                      IF k[1] = path THEN [entries[k] EXCEPT !.hash = Cleared] ELSE entries[k]]
    /\ UNCHANGED <<call, made, frees>>

ClearAll ==
    /\ frees' = [h \in Handles |->
                    IF \E k \in DOMAIN entries : entries[k].handle = h
                    THEN frees[h] + 1 ELSE frees[h]]
    /\ entries' = NoEntries
    /\ UNCHANGED <<call, made>>

-----------------------------------------------------------------------------
\* No compiled handle is freed twice, whichever of several concurrent
\* compilations of a script wins the store.
FreedOnce == \A h \in Handles : frees[h] <= 1

\* What the cache would hand out next is a handle that has not been freed, and
\* no two keys share one.
EntriesLive ==
    \A k \in DOMAIN entries :
        /\ frees[entries[k].handle] = 0
        /\ \A j \in DOMAIN entries \ {k} : entries[j].handle # entries[k].handle
=============================================================================
