------------------------------ MODULE CacheClients ------------------------------
(***************************************************************************)
(* The compile cache with its clients: scripts, each on a thread of its    *)
(* own, that keep the handle of their last compilation and give it back    *)
(* once, by its cache key, as PolyLangScript does. A script that holds a   *)
(* handle may compile again (trigger_compile() is bound to scripts): it    *)
(* then has two references and still gives back one. The source of a       *)
(* script may change, or be invalidated, while somebody holds a handle     *)
(* compiled from it.                                                       *)
(***************************************************************************)
EXTENDS CompileCache

CONSTANT MaxRepeats   \* bound on the compilations by scripts that hold a handle

ASSUME ClientsAssumption == MaxRepeats \in Nat

VARIABLES
    source,       \* the text of each script
    claim,        \* the handle each client holds
    repeats,      \* compilations begun by scripts that held a handle
    extra,        \* history: references of each key whose script compiled again since
    edited        \* history: some source was changed or invalidated

vars == <<cacheVars, source, claim, repeats, extra, edited>>

NoClaim == [key |-> <<>>, handle |-> NoHandle]

TypeOK ==
    /\ CacheTypeOK
    /\ source \in [Paths -> Sources]
    /\ claim \in [Callers -> [key : Keys \cup {<<>>}, handle : Handles \cup {NoHandle}]]
    /\ repeats \in 0..MaxRepeats
    /\ extra \in [Keys -> Nat]
    /\ edited \in BOOLEAN

Init ==
    /\ CacheInit
    /\ source \in [Paths -> Sources]
    /\ claim = [c \in Callers |-> NoClaim]
    /\ repeats = 0 /\ extra = [k \in Keys |-> 0]
    /\ edited = FALSE

\* compile_internal(): also by a script that holds a handle, then of its own path; a
\* policy may have been registered for the path meanwhile.
Acquire(c) ==
    /\ \E p \in Paths, caps \in Caps :
           /\ claim[c] # NoClaim => p = claim[c].key[1]
           /\ Ask(c, CacheKey(p, caps), source[p])
    /\ IF claim[c] = NoClaim THEN UNCHANGED repeats
       ELSE repeats < MaxRepeats /\ repeats' = repeats + 1
    /\ UNCHANGED <<source, claim, extra, edited>>

\* compiled_handle_ is overwritten, without a release() of what it held.
Collect(c) ==
    /\ call[c].at = "returned"
    /\ IF call[c].handle = NoHandle THEN UNCHANGED <<claim, extra>>
       ELSE /\ claim' = [claim EXCEPT ![c] = [key |-> call[c].key, handle |-> call[c].handle]]
            /\ extra' = [k \in Keys |-> IF claim[c].key = k THEN extra[k] + 1 ELSE extra[k]]
    /\ Leave(c)
    /\ UNCHANGED <<entries, made, frees, source, repeats, edited>>

\* ~PolyLangScript: not while the script compiles.
GiveBack(c) ==
    /\ claim[c] # NoClaim /\ call[c].at = "out"
    /\ Release(claim[c].key)
    /\ claim' = [claim EXCEPT ![c] = NoClaim]
    /\ UNCHANGED <<call, source, repeats, extra, edited>>

Edit(p) ==
    /\ \E s \in Sources \ {source[p]} : source' = [source EXCEPT ![p] = s]
    /\ edited' = TRUE
    /\ UNCHANGED <<cacheVars, claim, repeats, extra>>

ClientInvalidates(p) ==
    /\ Invalidate(p)
    /\ edited' = TRUE
    /\ UNCHANGED <<source, claim, repeats, extra>>

\* ~CompileCache: the handles still held go with it.
Destroy ==
    /\ \A c \in Callers : call[c].at = "out"
    /\ ClearAll
    /\ claim' = [c \in Callers |-> NoClaim]
    /\ extra' = [k \in Keys |-> 0]
    /\ UNCHANGED <<source, repeats, edited>>

Next ==
    \/ \E c \in Callers :
          \/ Acquire(c)
          \/ InCache(c) /\ UNCHANGED <<source, claim, repeats, extra, edited>>
          \/ Collect(c)
          \/ GiveBack(c)
    \/ \E p \in Paths : Edit(p) \/ ClientInvalidates(p)
    \/ Destroy

Spec == Init /\ [][Next]_vars

-----------------------------------------------------------------------------
(* What a reference is for: a script that holds the handle, or an answer that is on its
   way to a script. *)
Slots == Callers \X {"held", "due"}
Owned(s) ==
    CASE s[2] = "held" -> claim[s[1]]
      [] s[2] = "due" /\ call[s[1]].at = "returned" ->
             [key |-> call[s[1]].key, handle |-> call[s[1]].handle]
      [] OTHER -> NoClaim
Owners(k) == {s \in Slots : Owned(s).handle # NoHandle /\ Owned(s).key = k}

\* References taken for key k.
References(k) == IF Known(k) THEN entries[k].refs ELSE 0

\* As long as no source changes: an entry counts the scripts that hold its handle, the
\* answers on their way, and one more for each time a script that held its handle has
\* compiled again. That excess is what the code leaks: the destructor gives back one
\* reference, so an entry compiled again is never freed by release(). Nothing else is
\* counted or forgotten, and everyone who asked for a key holds the same handle.
RefsAreClaims ==
    ~edited => \A k \in Keys :
        /\ References(k) = Cardinality(Owners(k)) + extra[k]
        /\ \A s \in Owners(k) : Known(k) /\ Owned(s).handle = entries[k].handle

\* As long as no source changes, no handle leaks: one that is not freed is in the
\* cache, or its compiler has yet to store it.
NothingLost ==
    ~edited => \A h \in 1..made :
        \/ frees[h] > 0
        \/ \E k \in DOMAIN entries : entries[k].handle = h
        \/ \E c \in Callers : call[c].at = "storing" /\ call[c].handle = h
=============================================================================
