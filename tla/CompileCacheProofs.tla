--------------------------- MODULE CompileCacheProofs ---------------------------
(***************************************************************************)
(* CacheClients for any scripts, policies, sources and threads, however    *)
(* sources change: type correctness, no handle is freed twice, and the     *)
(* cache never holds a freed handle.                                       *)
(*                                                                         *)
(* Neither of the last two is inductive: a handle also exists outside the  *)
(* cache, between its compilation and its storing. CacheInv adds that such *)
(* a handle is live and that nobody else knows it (StoringPrivate), and    *)
(* that handles not made yet have not been freed (UnmadeLive). These need  *)
(* no count of references: an entry leaves the cache in the step that      *)
(* frees its handle. The counts, and that nothing is lost, follow further  *)
(* down, for sources that do not change under a cached text (CalmInv).     *)
(***************************************************************************)
EXTENDS CacheClients, FiniteSetTheorems, TLAPS

UnmadeLive == \A h \in Handles : h > made => frees[h] = 0

StoringPrivate ==
    \A c \in Callers : call[c].at = "storing" =>
        /\ call[c].handle \in Handles
        /\ call[c].handle <= made
        /\ frees[call[c].handle] = 0
        /\ call[c].key \in Keys /\ call[c].text \in Sources
        /\ \A k \in DOMAIN entries : entries[k].handle # call[c].handle
        /\ \A d \in Callers \ {c} : call[d].at = "storing" => call[d].handle # call[c].handle

EntriesMade == \A k \in DOMAIN entries : entries[k].handle <= made

\* Threads between asking and storing know what they ask for.
AskersKnow ==
    \A c \in Callers : call[c].at \in {"asked", "compiling"} =>
        call[c].key \in Keys /\ call[c].text \in Sources

CacheInv ==
    /\ CacheTypeOK /\ AskersKnow
    /\ UnmadeLive /\ EntriesMade /\ StoringPrivate /\ EntriesLive /\ FreedOnce

IInv == TypeOK /\ CacheInv

-----------------------------------------------------------------------------
(* One lemma per operation of the cache. *)

LEMMA ReturnTyped ==
    ASSUME call \in [Callers -> Call], NEW c \in Callers, NEW h \in Handles \cup {NoHandle},
           Return(c, h)
    PROVE  call' \in [Callers -> Call]
<1>1. [call[c] EXCEPT !.at = "returned", !.handle = h] \in Call
  BY DEF Call
<1> QED BY <1>1 DEF Return

LEMMA RefTyped ==
    ASSUME EntriesTyped, NEW k \in DOMAIN entries, entries' = RefTaken(entries, k)
    PROVE  EntriesTyped'
<1>1. [entries[k] EXCEPT !.refs = @ + 1] \in Entry
  BY DEF EntriesTyped, Entry
<1> QED BY <1>1 DEF EntriesTyped, RefTaken

LEMMA InitInv == ASSUME Init PROVE IInv
<1> USE CacheAssumption
<1>1. CacheTypeOK
  BY DEF Init, CacheInit, CacheTypeOK, EntriesTyped, Call, Idle, NoEntries, Handles, NoHandle, Cleared
<1>2. TypeOK
  <2>1. extra \in [Keys -> Nat] /\ repeats \in 0..MaxRepeats
    BY ClientsAssumption DEF Init
  <2>2. source \in [Paths -> Sources] /\ edited \in BOOLEAN
        /\ claim \in [Callers -> [key : Keys \cup {<<>>}, handle : Handles \cup {NoHandle}]]
    BY DEF Init, NoClaim
  <2> QED BY <1>1, <2>1, <2>2 DEF TypeOK
<1>3. CacheInv
  BY <1>1 DEF Init, CacheInit, TypeOK, CacheInv, AskersKnow, UnmadeLive, EntriesMade, StoringPrivate,
     EntriesLive, FreedOnce, NoEntries, Idle, Handles
<1> QED BY <1>2, <1>3 DEF IInv

LEMMA AskInv ==
    ASSUME CacheInv, NEW c \in Callers, NEW k \in Keys, NEW text \in Sources, Ask(c, k, text)
    PROVE  CacheInv'
BY CacheAssumption DEF CacheInv, Ask, CacheTypeOK, EntriesTyped, AskersKnow, UnmadeLive, EntriesMade, StoringPrivate,
   EntriesLive, FreedOnce, Handles, NoHandle, Call, Entry

LEMMA LeaveInv ==
    ASSUME CacheInv, NEW c \in Callers, Leave(c), UNCHANGED <<entries, made, frees>>
    PROVE  CacheInv'
BY CacheAssumption DEF CacheInv, Leave, Idle, CacheTypeOK, EntriesTyped, AskersKnow, UnmadeLive, EntriesMade, StoringPrivate,
   EntriesLive, FreedOnce, Handles, NoHandle, Call, Entry

LEMMA LookupHitInv ==
    ASSUME CacheInv, NEW c \in Callers, LookupHit(c) PROVE CacheInv'
<1> USE CacheAssumption DEF CacheInv, Handles, NoHandle, Entry
<1>1. CacheTypeOK'
  <2>1. EntriesTyped'
    BY RefTyped DEF LookupHit, Hit, Known, CacheTypeOK
  <2>2. call' \in [Callers -> Call]
    BY ReturnTyped DEF LookupHit, Hit, Known, CacheTypeOK, EntriesTyped
  <2>3. made' \in 0..MaxHandles /\ frees' \in [Handles -> Nat]
    BY DEF LookupHit, CacheTypeOK
  <2> QED BY <2>1, <2>2, <2>3 DEF CacheTypeOK
<1>2. AskersKnow'
  BY DEF LookupHit, Hit, Known, RefTaken, Return, CacheTypeOK, EntriesTyped, AskersKnow
<1>3. UnmadeLive'
  BY DEF LookupHit, Hit, Known, RefTaken, Return, CacheTypeOK, EntriesTyped, UnmadeLive, EntriesMade, StoringPrivate
<1>4. EntriesMade'
  BY DEF LookupHit, Hit, Known, RefTaken, Return, CacheTypeOK, EntriesTyped, EntriesMade, StoringPrivate
<1>5. StoringPrivate'
  BY DEF LookupHit, Hit, Known, RefTaken, Return, CacheTypeOK, EntriesTyped, StoringPrivate, EntriesMade
<1>6. EntriesLive'
  BY DEF LookupHit, Hit, Known, RefTaken, Return, CacheTypeOK, EntriesTyped, EntriesLive, StoringPrivate
<1>7. FreedOnce'
  BY DEF LookupHit, Hit, Known, RefTaken, Return, CacheTypeOK, EntriesTyped, FreedOnce, EntriesLive, StoringPrivate
<1> QED BY <1>1, <1>2, <1>3, <1>4, <1>5, <1>6, <1>7

LEMMA LookupMissInv ==
    ASSUME CacheInv, NEW c \in Callers, LookupMiss(c) PROVE CacheInv'
BY CacheAssumption DEF CacheInv, LookupMiss, CacheTypeOK, EntriesTyped, AskersKnow, UnmadeLive,
   EntriesMade, StoringPrivate, EntriesLive, FreedOnce, Handles, NoHandle, Call, Entry

LEMMA CompileFailsInv ==
    ASSUME CacheInv, NEW c \in Callers, CompileFails(c) PROVE CacheInv'
<1>1. call' \in [Callers -> Call]
  BY ReturnTyped DEF CompileFails, CacheInv, CacheTypeOK
<1> QED
  BY <1>1, CacheAssumption DEF CacheInv, CompileFails, Return, CacheTypeOK, EntriesTyped, AskersKnow,
     UnmadeLive, EntriesMade, StoringPrivate, EntriesLive, FreedOnce, Handles, Entry

LEMMA CompileSucceedsInv ==
    ASSUME CacheInv, NEW c \in Callers, CompileSucceeds(c) PROVE CacheInv'
<1> USE CacheAssumption DEF CacheInv, Handles, NoHandle, Entry
<1>1. CacheTypeOK'
  <2>1. made + 1 \in Handles
    BY DEF CompileSucceeds, CacheTypeOK
  <2>2. [call[c] EXCEPT !.at = "storing", !.handle = made + 1] \in Call
    BY <2>1 DEF CacheTypeOK, Call
  <2> QED BY <2>1, <2>2 DEF CompileSucceeds, CacheTypeOK, EntriesTyped
<1>2. AskersKnow'
  BY DEF CompileSucceeds, CacheTypeOK, EntriesTyped, AskersKnow
<1>3. UnmadeLive'
  BY DEF CompileSucceeds, CacheTypeOK, EntriesTyped, UnmadeLive, EntriesMade, StoringPrivate
<1>4. EntriesMade'
  BY DEF CompileSucceeds, CacheTypeOK, EntriesTyped, EntriesMade, StoringPrivate
<1>5. StoringPrivate'
  <2>1. made + 1 \in Handles /\ frees[made + 1] = 0 /\ call[c].key \in Keys /\ call[c].text \in Sources
    BY DEF CompileSucceeds, CacheTypeOK, UnmadeLive, AskersKnow
  <2>2. /\ call'[c].at = "storing" /\ call'[c].handle = made + 1
        /\ call'[c].key = call[c].key /\ call'[c].text = call[c].text
    BY DEF CompileSucceeds, CacheTypeOK, Call
  <2>3. \A d \in Callers \ {c} : call'[d] = call[d]
    BY DEF CompileSucceeds, CacheTypeOK
  <2>4. \A k \in DOMAIN entries : entries[k].handle \in Handles /\ entries[k].handle # made + 1
    BY DEF CacheTypeOK, EntriesTyped, EntriesMade
  <2> QED BY <2>1, <2>2, <2>3, <2>4 DEF CompileSucceeds, CacheTypeOK, StoringPrivate
<1>6. EntriesLive'
  BY DEF CompileSucceeds, CacheTypeOK, EntriesTyped, EntriesLive, StoringPrivate
<1>7. FreedOnce'
  BY DEF CompileSucceeds, CacheTypeOK, EntriesTyped, FreedOnce, EntriesLive, StoringPrivate
<1> QED BY <1>1, <1>2, <1>3, <1>4, <1>5, <1>6, <1>7

LEMMA StoreAgreesInv ==
    ASSUME CacheInv, NEW c \in Callers, StoreAgrees(c) PROVE CacheInv'
<1> USE CacheAssumption DEF CacheInv, Handles, NoHandle, Entry
<1>1. CacheTypeOK'
  <2>1. EntriesTyped'
    BY RefTyped DEF StoreAgrees, Hit, Known, CacheTypeOK
  <2>2. call' \in [Callers -> Call]
    BY ReturnTyped DEF StoreAgrees, Hit, Known, CacheTypeOK, EntriesTyped
  <2>3. made' \in 0..MaxHandles /\ frees' \in [Handles -> Nat]
    BY DEF StoreAgrees, LoserFreed, Freed, CacheTypeOK, EntriesTyped, StoringPrivate
  <2> QED BY <2>1, <2>2, <2>3 DEF CacheTypeOK
<1>2. AskersKnow'
  BY DEF StoreAgrees, Hit, Known, RefTaken, LoserFreed, Freed, Return, CacheTypeOK, EntriesTyped, AskersKnow
<1>3. UnmadeLive'
  BY DEF StoreAgrees, Hit, Known, RefTaken, LoserFreed, Freed, Return, CacheTypeOK, EntriesTyped, UnmadeLive, EntriesMade, StoringPrivate
<1>4. EntriesMade'
  BY DEF StoreAgrees, Hit, Known, RefTaken, LoserFreed, Freed, Return, CacheTypeOK, EntriesTyped, EntriesMade, StoringPrivate
<1>5. StoringPrivate'
  BY DEF StoreAgrees, Hit, Known, RefTaken, LoserFreed, Freed, Return, CacheTypeOK, EntriesTyped, StoringPrivate, EntriesMade
<1>6. EntriesLive'
  BY DEF StoreAgrees, Hit, Known, RefTaken, LoserFreed, Freed, Return, CacheTypeOK, EntriesTyped, EntriesLive, StoringPrivate
<1>7. FreedOnce'
  BY DEF StoreAgrees, Hit, Known, RefTaken, LoserFreed, Freed, Return, CacheTypeOK, EntriesTyped, FreedOnce, EntriesLive, StoringPrivate
<1> QED BY <1>1, <1>2, <1>3, <1>4, <1>5, <1>6, <1>7

LEMMA StoreAnewInv ==
    ASSUME CacheInv, NEW c \in Callers, StoreAnew(c) PROVE CacheInv'
<1> USE CacheAssumption DEF CacheInv, Handles, NoHandle, Entry
<1>1. CacheTypeOK'
  <2>1. EntriesTyped'
    BY DEF StoreAnew, Stored, CacheTypeOK, EntriesTyped, StoringPrivate
  <2>2. call' \in [Callers -> Call]
    BY ReturnTyped DEF StoreAnew, CacheTypeOK, EntriesTyped, StoringPrivate
  <2>3. made' \in 0..MaxHandles /\ frees' \in [Handles -> Nat]
    BY DEF StoreAnew, CacheTypeOK
  <2> QED BY <2>1, <2>2, <2>3 DEF CacheTypeOK
<1>2. AskersKnow'
  BY DEF StoreAnew, Hit, Known, Stored, UnreferencedAt, Return, CacheTypeOK, EntriesTyped, AskersKnow
<1>3. UnmadeLive'
  BY DEF StoreAnew, Hit, Known, Stored, UnreferencedAt, Return, CacheTypeOK, EntriesTyped, UnmadeLive, EntriesMade, StoringPrivate
<1>4. EntriesMade'
  BY DEF StoreAnew, Hit, Known, Stored, UnreferencedAt, Return, CacheTypeOK, EntriesTyped, EntriesMade, StoringPrivate
<1>5. StoringPrivate'
  BY DEF StoreAnew, Hit, Known, Stored, UnreferencedAt, Return, CacheTypeOK, EntriesTyped, StoringPrivate, EntriesMade
<1>6. EntriesLive'
  <2> DEFINE k == call[c].key
  <2>1. /\ DOMAIN entries' = DOMAIN entries \cup {k}
        /\ entries'[k].handle = call[c].handle
        /\ \A j \in DOMAIN entries \ {k} : entries'[j] = entries[j]
    BY DEF StoreAnew, Stored
  <2>2. \A h \in Handles : h \notin UnreferencedAt(k) => frees'[h] = frees[h]
    BY DEF StoreAnew
  <2>3. call[c].handle \in Handles /\ call[c].handle \notin UnreferencedAt(k)
    BY DEF StoreAnew, StoringPrivate, UnreferencedAt
  <2>4. \A j \in DOMAIN entries \ {k} :
            entries[j].handle \in Handles /\ entries[j].handle \notin UnreferencedAt(k)
    BY DEF UnreferencedAt, EntriesLive, CacheTypeOK, EntriesTyped
  <2>5. /\ frees[call[c].handle] = 0
        /\ \A j \in DOMAIN entries : entries[j].handle # call[c].handle
    BY DEF StoreAnew, StoringPrivate
  <2> HIDE DEF k
  <2> QED BY <2>1, <2>2, <2>3, <2>4, <2>5 DEF EntriesLive
<1>7. FreedOnce'
  <2>1. \A h \in UnreferencedAt(call[c].key) : frees[h] = 0
    BY DEF UnreferencedAt, EntriesLive
  <2>2. frees \in [Handles -> Nat]
    BY DEF CacheTypeOK
  <2>3. frees' = [h \in Handles |-> IF h \in UnreferencedAt(call[c].key) THEN frees[h] + 1 ELSE frees[h]]
    BY DEF StoreAnew
  <2> QED BY <2>1, <2>2, <2>3 DEF FreedOnce
<1> QED BY <1>1, <1>2, <1>3, <1>4, <1>5, <1>6, <1>7

LEMMA ReleaseInv ==
    ASSUME CacheInv, NEW k, Release(k), UNCHANGED call PROVE CacheInv'
<1> USE CacheAssumption DEF CacheInv, Handles, NoHandle, Entry
<1>1. CacheTypeOK'
  <2>1. EntriesTyped'
    <3>1. CASE ~Known(k)
      BY <3>1 DEF Release, EntriesReleased, CacheTypeOK, EntriesTyped
    <3>2. CASE Known(k) /\ Remaining(k) <= 0
      BY <3>2 DEF Release, EntriesReleased, Erased, CacheTypeOK, EntriesTyped
    <3>3. CASE Known(k) /\ ~(Remaining(k) <= 0)
      <4>1. entries[k] \in Entry
        BY <3>3 DEF Known, CacheTypeOK, EntriesTyped
      <4>2. entries[k].refs - 1 \in Nat
        BY <3>3, <4>1 DEF Remaining
      <4>3. [entries[k] EXCEPT !.refs = @ - 1] \in Entry
        BY <4>1, <4>2
      <4> QED BY <3>3, <4>3 DEF Release, EntriesReleased, Known, CacheTypeOK, EntriesTyped
    <3> QED BY <3>1, <3>2, <3>3
  <2>2. made' \in 0..MaxHandles /\ frees' \in [Handles -> Nat]
    BY DEF Release, FreesReleased, Freed, Known, CacheTypeOK, EntriesTyped
  <2> QED BY <2>1, <2>2 DEF CacheTypeOK
<1>2. AskersKnow'
  BY DEF Release, EntriesReleased, FreesReleased, Remaining, Known, Erased, Freed, CacheTypeOK, EntriesTyped, AskersKnow
<1>3. UnmadeLive'
  BY DEF Release, EntriesReleased, FreesReleased, Remaining, Known, Erased, Freed, CacheTypeOK, EntriesTyped, UnmadeLive, EntriesMade, StoringPrivate
<1>4. EntriesMade'
  BY DEF Release, EntriesReleased, FreesReleased, Remaining, Known, Erased, Freed, CacheTypeOK, EntriesTyped, EntriesMade, StoringPrivate
<1>5. StoringPrivate'
  BY DEF Release, EntriesReleased, FreesReleased, Remaining, Known, Erased, Freed, CacheTypeOK, EntriesTyped, StoringPrivate, EntriesMade
<1>6. EntriesLive'
  BY DEF Release, EntriesReleased, FreesReleased, Remaining, Known, Erased, Freed, CacheTypeOK, EntriesTyped, EntriesLive, StoringPrivate
<1>7. FreedOnce'
  BY DEF Release, EntriesReleased, FreesReleased, Remaining, Known, Erased, Freed, CacheTypeOK, EntriesTyped, FreedOnce, EntriesLive, StoringPrivate
<1> QED BY <1>1, <1>2, <1>3, <1>4, <1>5, <1>6, <1>7

LEMMA InvalidateInv ==
    ASSUME CacheInv, NEW p \in Paths, Invalidate(p) PROVE CacheInv'
<1> USE CacheAssumption DEF CacheInv, Handles, NoHandle, Call, Entry
<1>1. CacheTypeOK'
  <2>1. ASSUME NEW k \in DOMAIN entries PROVE entries'[k] \in Entry
    <3>1. PICK e \in Entry : e = entries[k]
      BY DEF CacheTypeOK, EntriesTyped
    <3> QED BY <3>1 DEF Invalidate
  <2>2. DOMAIN entries' = DOMAIN entries
    BY DEF Invalidate
  <2>3. EntriesTyped'
    BY <2>1, <2>2 DEF Invalidate, CacheTypeOK, EntriesTyped
  <2> QED BY <2>3 DEF Invalidate, CacheTypeOK
<1>2. AskersKnow'
  BY DEF Invalidate, CacheTypeOK, EntriesTyped, AskersKnow
<1>3. UnmadeLive'
  BY DEF Invalidate, CacheTypeOK, EntriesTyped, UnmadeLive, EntriesMade, StoringPrivate
<1>4. EntriesMade'
  BY DEF Invalidate, CacheTypeOK, EntriesTyped, EntriesMade, StoringPrivate
<1>5. StoringPrivate'
  BY DEF Invalidate, CacheTypeOK, EntriesTyped, StoringPrivate, EntriesMade
<1>6. EntriesLive'
  BY DEF Invalidate, CacheTypeOK, EntriesTyped, EntriesLive, StoringPrivate
<1>7. FreedOnce'
  BY DEF Invalidate, CacheTypeOK, EntriesTyped, FreedOnce, EntriesLive, StoringPrivate
<1> QED BY <1>1, <1>2, <1>3, <1>4, <1>5, <1>6, <1>7

LEMMA ClearAllInv ==
    ASSUME CacheInv, ClearAll, \A c \in Callers : call[c].at = "out" PROVE CacheInv'
<1> USE CacheAssumption DEF CacheInv, Handles, NoHandle, Call, Entry
<1>1. CacheTypeOK'
  BY DEF ClearAll, NoEntries, CacheTypeOK, EntriesTyped, AskersKnow, StoringPrivate
<1>2. AskersKnow'
  BY DEF ClearAll, NoEntries, CacheTypeOK, EntriesTyped, AskersKnow
<1>3. UnmadeLive'
  BY DEF ClearAll, NoEntries, CacheTypeOK, EntriesTyped, UnmadeLive, EntriesMade, StoringPrivate
<1>4. EntriesMade'
  BY DEF ClearAll, NoEntries, CacheTypeOK, EntriesTyped, EntriesMade, StoringPrivate
<1>5. StoringPrivate'
  BY DEF ClearAll, NoEntries, CacheTypeOK, EntriesTyped, StoringPrivate, EntriesMade
<1>6. EntriesLive'
  BY DEF ClearAll, NoEntries, CacheTypeOK, EntriesTyped, EntriesLive, StoringPrivate
<1>7. FreedOnce'
  BY DEF ClearAll, NoEntries, CacheTypeOK, EntriesTyped, FreedOnce, EntriesLive, StoringPrivate
<1> QED BY <1>1, <1>2, <1>3, <1>4, <1>5, <1>6, <1>7

-----------------------------------------------------------------------------
(* The clients around it. *)

LEMMA InCacheInv == ASSUME CacheInv, NEW c \in Callers, InCache(c) PROVE CacheInv'
BY LookupHitInv, LookupMissInv, CompileFailsInv, CompileSucceedsInv, StoreAgreesInv, StoreAnewInv
   DEF InCache

\* CacheInv speaks of the cache alone.
LEMMA CacheIdle == ASSUME CacheInv, UNCHANGED cacheVars PROVE CacheInv'
BY DEF cacheVars, CacheInv, CacheTypeOK, EntriesTyped, AskersKnow, UnmadeLive, EntriesMade,
   StoringPrivate, EntriesLive, FreedOnce

LEMMA StepInv == ASSUME IInv, [Next]_vars PROVE IInv'
<1> USE DEF IInv
<1>1. CacheInv'
  <2>1. ASSUME NEW c \in Callers, Acquire(c) PROVE CacheInv'
    <3>1. PICK p \in Paths, caps \in Caps : Ask(c, CacheKey(p, caps), source[p])
      BY <2>1 DEF Acquire
    <3>2. CacheKey(p, caps) \in Keys /\ source[p] \in Sources
      BY DEF CacheKey, Keys, TypeOK
    <3> QED BY <3>1, <3>2, AskInv
  <2>2. ASSUME NEW c \in Callers, InCache(c) PROVE CacheInv'
    BY <2>2, InCacheInv
  <2>3. ASSUME NEW c \in Callers, Collect(c) PROVE CacheInv'
    BY <2>3, LeaveInv DEF Collect
  <2>4. ASSUME NEW c \in Callers, GiveBack(c) PROVE CacheInv'
    BY <2>4, ReleaseInv DEF GiveBack
  <2>5. ASSUME NEW p \in Paths, ClientInvalidates(p) PROVE CacheInv'
    BY <2>5, InvalidateInv DEF ClientInvalidates
  <2>6. ASSUME Destroy PROVE CacheInv'
    BY <2>6, ClearAllInv DEF Destroy
  <2>7. ASSUME NEW p \in Paths, Edit(p) PROVE CacheInv'
    BY <2>7, CacheIdle DEF Edit
  <2>8. CASE UNCHANGED vars
    BY <2>8, CacheIdle DEF vars, cacheVars
  <2> QED BY <2>1, <2>2, <2>3, <2>4, <2>5, <2>6, <2>7, <2>8 DEF Next
<1>2. TypeOK'
  <2>1. CacheTypeOK'
    BY <1>1 DEF CacheInv
  <2>2. source' \in [Paths -> Sources]
    BY DEF TypeOK, Next, vars, Acquire, Collect, GiveBack, Edit, ClientInvalidates, Destroy
  <2>3. claim' \in [Callers -> [key : Keys \cup {<<>>}, handle : Handles \cup {NoHandle}]]
    <3>1. NoClaim \in [key : Keys \cup {<<>>}, handle : Handles \cup {NoHandle}]
      BY DEF NoClaim
    <3>2. ASSUME NEW c \in Callers, Collect(c)
          PROVE  claim' \in [Callers -> [key : Keys \cup {<<>>}, handle : Handles \cup {NoHandle}]]
      <4>1. call[c].key \in Keys \cup {<<>>} /\ call[c].handle \in Handles \cup {NoHandle}
        BY DEF CacheInv, CacheTypeOK, Call
      <4> QED BY <3>2, <4>1 DEF Collect, TypeOK
    <3> QED BY <3>1, <3>2 DEF TypeOK, Next, vars, Acquire, GiveBack, Edit, ClientInvalidates, Destroy
  <2>4. edited' \in BOOLEAN
    BY DEF TypeOK, Next, vars, Acquire, Collect, GiveBack, Edit, ClientInvalidates, Destroy
  <2>5. repeats' \in 0..MaxRepeats
    BY ClientsAssumption DEF TypeOK, Next, vars, Acquire, Collect, GiveBack, Edit, ClientInvalidates, Destroy
  <2>6. extra' \in [Keys -> Nat]
    BY DEF TypeOK, Next, vars, Acquire, Collect, GiveBack, Edit, ClientInvalidates, Destroy
  <2> QED BY <2>1, <2>2, <2>3, <2>4, <2>5, <2>6 DEF TypeOK
<1> QED BY <1>1, <1>2

-------

-----------------------------------------------------------------------------
(* Counting references, as long as no source changes. *)

\* Who holds something knows its key, and an answer belongs to a key.
OneClaim ==
    \A c \in Callers :
        /\ claim[c] # NoClaim => claim[c].key \in Keys /\ claim[c].handle # NoHandle
        /\ call[c].at = "returned" => call[c].key \in Keys

\* Entries and calls carry the present source of their script.
Current ==
    /\ \A k \in DOMAIN entries : entries[k].hash = source[k[1]]
    /\ \A c \in Callers : call[c].at \in {"asked", "compiling", "storing"} =>
           call[c].text = source[call[c].key[1]]

\* An entry counts its owners and the references its owners will not give back, one at
\* least of the two; the owners hold its handle.
Counted ==
    \A k \in Keys :
        /\ IsFiniteSet(Owners(k))
        /\ Known(k) => entries[k].refs = Cardinality(Owners(k)) + extra[k] /\ entries[k].refs > 0
        /\ ~Known(k) => extra[k] = 0
        /\ \A s \in Owners(k) : Known(k) /\ Owned(s).handle = entries[k].handle

\* A handle that is not freed is in the cache or on its way there.
Somewhere(h) ==
    \/ frees[h] > 0
    \/ \E k \in DOMAIN entries : entries[k].handle = h
    \/ \E c \in Callers : call[c].at = "storing" /\ call[c].handle = h

Calm == Current /\ Counted /\ \A h \in 1..made : Somewhere(h)

CalmInv == IInv /\ OneClaim /\ (~edited => Calm)

\* The step changes nobody's handle.
SameOwners ==
    \A s \in Slots : /\ Owned(s)'.handle = Owned(s).handle
                     /\ Owned(s).handle # NoHandle => Owned(s)'.key = Owned(s).key

\* Slot s gets the handle of key k, the others keep theirs.
Gains(s, k) ==
    /\ Owned(s).handle = NoHandle /\ Owned(s)'.handle # NoHandle /\ Owned(s)'.key = k
    /\ \A r \in Slots \ {s} : Owned(r)' = Owned(r)
    /\ Known(k)' /\ entries'[k].handle = Owned(s)'.handle
    /\ Known(k) => /\ entries'[k].handle = entries[k].handle
                   /\ entries'[k].refs = entries[k].refs + 1
    /\ ~Known(k) => entries'[k].refs = 1
    /\ \A j \in Keys \ {k} : (Known(j)' <=> Known(j)) /\ (Known(j) => entries'[j] = entries[j])

LEMMA SlotForm ==
    \A s \in Slots : /\ s[1] \in Callers /\ s[2] \in {"held", "due"}
                     /\ s = <<s[1], s[2]>>
BY DEF Slots

\* A client has two slots, and a step of its call is no step of the others.
LEMMA OtherSlots ==
    ASSUME NEW c \in Callers, claim' = claim, \A d \in Callers \ {c} : call'[d] = call[d]
    PROVE  \A s \in Slots \ {<<c, "due">>} : Owned(s)' = Owned(s)
<1> SUFFICES ASSUME NEW s \in Slots, s # <<c, "due">> PROVE Owned(s)' = Owned(s)
  OBVIOUS
<1>1. s[1] \in Callers /\ s[2] \in {"held", "due"} /\ (s[1] # c \/ s[2] # "due")
  BY SlotForm
<1> QED BY <1>1 DEF Owned

LEMMA SameOwnersCounted ==
    ASSUME Counted, SameOwners, entries' = entries, extra' = extra PROVE Counted'
<1>1. ASSUME NEW k PROVE Owners(k)' = Owners(k)
  <2>1. ASSUME NEW s \in Slots PROVE s \in Owners(k)' <=> s \in Owners(k)
    <3>1. /\ Owned(s)'.handle = Owned(s).handle
          /\ Owned(s).handle # NoHandle => Owned(s)'.key = Owned(s).key
      BY DEF SameOwners
    <3> QED BY <3>1 DEF Owners
  <2> QED BY <2>1 DEF Owners
<1>2. \A k : Known(k)' <=> Known(k)
  BY DEF Known
<1>3. ASSUME NEW k, NEW s \in Owners(k) PROVE Owned(s)'.handle = Owned(s).handle
  <2>1. s \in Slots
    BY DEF Owners
  <2> QED BY <2>1 DEF SameOwners
<1> QED BY <1>1, <1>2, <1>3 DEF Counted

LEMMA GainsCounted ==
    ASSUME Counted, NEW s \in Slots, NEW k \in Keys, Gains(s, k), extra \in [Keys -> Nat],
           extra' = extra
    PROVE  Counted'
<1>1. s \notin Owners(k) /\ Owners(k)' = Owners(k) \cup {s}
  BY DEF Gains, Owners
<1>2. \A j \in Keys \ {k} : Owners(j)' = Owners(j)
  BY DEF Gains, Owners
<1>3. IsFiniteSet(Owners(k)) /\ Cardinality(Owners(k)) \in Nat /\ extra[k] \in Nat
  BY FS_CardinalityType DEF Counted
<1>4. /\ Known(k)' /\ entries'[k].refs = Cardinality(Owners(k)) + extra[k] + 1
      /\ \A r \in Owners(k)' : Owned(r)'.handle = entries'[k].handle
  <2>1. CASE Known(k)
    BY <1>1, <1>3, <2>1 DEF Gains, Counted, Owners
  <2>2. CASE ~Known(k)
    <3>1. Owners(k) = {} /\ extra[k] = 0
      BY <2>2 DEF Counted
    <3>2. Cardinality(Owners(k)) = 0
      BY <3>1, FS_EmptySet
    <3> QED BY <1>1, <2>2, <3>1, <3>2 DEF Gains
  <2> QED BY <2>1, <2>2
<1>5. IsFiniteSet(Owners(k)') /\ Cardinality(Owners(k)') = Cardinality(Owners(k)) + 1
  BY <1>1, <1>3, FS_AddElement
<1>6. /\ entries'[k].refs = Cardinality(Owners(k)') + extra'[k]
      /\ entries'[k].refs > 0
  BY <1>3, <1>4, <1>5
<1>7. ASSUME NEW j \in Keys \ {k}
      PROVE  /\ IsFiniteSet(Owners(j)')
             /\ Known(j)' => /\ entries'[j].refs = Cardinality(Owners(j)') + extra'[j]
                             /\ entries'[j].refs > 0
             /\ ~Known(j)' => extra'[j] = 0
             /\ \A r \in Owners(j)' : Known(j)' /\ Owned(r)'.handle = entries'[j].handle
  <2>1. /\ (Known(j)' <=> Known(j)) /\ (Known(j) => entries'[j] = entries[j])
        /\ Owners(j)' = Owners(j)
    BY <1>2, <1>7 DEF Gains
  <2>2. \A r \in Owners(j) : Owned(r)' = Owned(r)
    BY <1>7 DEF Gains, Owners
  <2> QED BY <2>1, <2>2, <1>7 DEF Counted
<1> QED BY <1>4, <1>5, <1>6, <1>7 DEF Counted

LEMMA ClaimsStep == ASSUME IInv, OneClaim, [Next]_vars PROVE OneClaim'
<1> USE DEF OneClaim
<1>0. call \in [Callers -> Call] /\ claim \in [Callers -> [key : Keys \cup {<<>>}, handle : Handles \cup {NoHandle}]]
  BY DEF IInv, TypeOK, CacheTypeOK
<1>1. ASSUME NEW c \in Callers, Acquire(c) PROVE OneClaim'
  BY <1>0, <1>1 DEF Acquire, Ask
<1>2. ASSUME NEW c \in Callers, InCache(c), UNCHANGED claim PROVE OneClaim'
  <2>1. call[c].at # "out" /\ call[c].key \in Keys
    BY <1>2 DEF InCache, LookupHit, LookupMiss, CompileFails, CompileSucceeds, StoreAgrees,
            StoreAnew, IInv, CacheInv, AskersKnow, StoringPrivate
  <2>2. /\ call'[c].key = call[c].key
        /\ \A d \in Callers \ {c} : call'[d] = call[d]
    BY <1>0, <1>2 DEF InCache, LookupHit, LookupMiss, CompileFails, CompileSucceeds, StoreAgrees,
            StoreAnew, Return, Call
  <2> QED BY <1>2, <2>1, <2>2
<1>3. ASSUME NEW c \in Callers, Collect(c) PROVE OneClaim'
  BY <1>0, <1>3 DEF Collect, Leave, Idle, NoClaim
<1>4. ASSUME NEW c \in Callers, GiveBack(c) PROVE OneClaim'
  BY <1>0, <1>4 DEF GiveBack
<1>5. ASSUME NEW p \in Paths, Edit(p) \/ ClientInvalidates(p) PROVE OneClaim'
  BY <1>5 DEF Edit, ClientInvalidates, cacheVars, Invalidate
<1>6. ASSUME Destroy PROVE OneClaim'
  BY <1>6 DEF Destroy, ClearAll
<1>7. CASE UNCHANGED vars
  BY <1>7 DEF vars, cacheVars
<1> QED BY <1>1, <1>2, <1>3, <1>4, <1>5, <1>6, <1>7 DEF Next

\* The types the steps below need.
LEMMA Typed ==
    ASSUME IInv
    PROVE  /\ call \in [Callers -> Call] /\ EntriesTyped /\ made \in 0..MaxHandles
           /\ frees \in [Handles -> Nat] /\ source \in [Paths -> Sources]
           /\ claim \in [Callers -> [key : Keys \cup {<<>>}, handle : Handles \cup {NoHandle}]]
           /\ extra \in [Keys -> Nat]
           /\ \A k \in DOMAIN entries : k \in Keys /\ entries[k] \in Entry /\ entries[k].handle \in 1..made
BY DEF IInv, TypeOK, CacheInv, CacheTypeOK, EntriesTyped, EntriesMade, Entry, Handles

\* A step of a call that is under way, and gives its client nothing yet.
LEMMA UnderWayCalm ==
    ASSUME IInv, OneClaim, Calm, NEW c \in Callers,
           Acquire(c) \/ ((LookupMiss(c) \/ CompileFails(c) \/ CompileSucceeds(c))
                             /\ UNCHANGED <<source, claim, repeats, extra, edited>>)
    PROVE  Calm'
<1>1. /\ entries' = entries /\ frees' = frees /\ source' = source /\ claim' = claim
      /\ extra' = extra /\ call[c].at # "storing"
      /\ \A d \in Callers \ {c} : call'[d] = call[d]
  BY Typed DEF Acquire, Ask, LookupMiss, CompileFails, CompileSucceeds, Return
<1>2. Owned(<<c, "due">>).handle = NoHandle /\ Owned(<<c, "due">>)'.handle = NoHandle
  <2>1. call[c].at # "returned"
    BY DEF Acquire, Ask, LookupMiss, CompileFails, CompileSucceeds
  <2>2. call'[c].at = "returned" => call'[c].handle = NoHandle
    BY Typed DEF Acquire, Ask, LookupMiss, CompileFails, CompileSucceeds, Return, Call
  <2> QED BY <2>1, <2>2 DEF Owned, NoClaim
<1>3. SameOwners
  BY <1>1, <1>2, OtherSlots DEF SameOwners
<1>4. Counted'
  BY <1>1, <1>3, SameOwnersCounted DEF Calm
<1>5. Current'
  <2>1. ASSUME call'[c].at \in {"asked", "compiling", "storing"}
        PROVE  call'[c].text = source[call'[c].key[1]]
    <3>1. CASE Acquire(c)
      <4>1. PICK p \in Paths, caps \in Caps : Ask(c, CacheKey(p, caps), source[p])
        BY <3>1 DEF Acquire
      <4> QED BY <4>1, Typed DEF Ask, CacheKey
    <3>2. CASE LookupMiss(c) \/ CompileFails(c) \/ CompileSucceeds(c)
      <4>1. call[c].at \in {"asked", "compiling"} /\ call[c] \in Call
        BY <3>2, Typed DEF LookupMiss, CompileFails, CompileSucceeds
      <4>2. call'[c].key = call[c].key /\ call'[c].text = call[c].text
        BY <3>2, <4>1, Typed DEF LookupMiss, CompileFails, CompileSucceeds, Return, Call
      <4> QED BY <4>1, <4>2 DEF Calm, Current
    <3> QED BY <3>1, <3>2
  <2> QED BY <1>1, <2>1 DEF Calm, Current
<1>6. \A h \in 1..made : Somewhere(h)'
  BY <1>1 DEF Calm, Somewhere
<1>7. ASSUME NEW h \in 1..made', h \notin 1..made PROVE Somewhere(h)'
  <2>1. made' # made
    BY <1>7
  <2>2. CompileSucceeds(c) /\ call[c] \in Call
    BY <2>1, Typed DEF Acquire, Ask, LookupMiss, CompileFails
  <2>3. h = made + 1
    BY <1>7, <2>2, Typed DEF CompileSucceeds
  <2>4. call'[c].at = "storing" /\ call'[c].handle = h
    BY <2>2, <2>3, Typed DEF CompileSucceeds, Call
  <2> QED BY <2>4 DEF Somewhere
<1>8. \A h \in 1..made' : Somewhere(h)'
  BY <1>6, <1>7
<1> QED BY <1>4, <1>5, <1>8 DEF Calm

\* The call returns a handle of the cache.
LEMMA AnsweredCalm ==
    ASSUME IInv, OneClaim, Calm, NEW c \in Callers,
           LookupHit(c) \/ StoreAgrees(c) \/ StoreAnew(c),
           UNCHANGED <<source, claim, repeats, extra, edited>>
    PROVE  Calm'
<1>0. PICK k : k = call[c].key
  OBVIOUS
<1> DEFINE h == IF StoreAnew(c) THEN call[c].handle ELSE entries[k].handle
<1>1. /\ k \in Keys /\ call[c].text = source[k[1]] /\ call[c] \in Call
      /\ call[c].at \in {"asked", "storing"} /\ made' = made
  BY <1>0, Typed DEF LookupHit, StoreAgrees, StoreAnew, Calm, Current, IInv, CacheInv,
     AskersKnow, StoringPrivate
<1>2. StoreAnew(c) => ~Known(k)
  BY <1>0, <1>1 DEF StoreAnew, Hit, Known, Calm, Current
<1>3. LookupHit(c) \/ StoreAgrees(c) =>
         /\ Known(k) /\ entries' = RefTaken(entries, k) /\ h = entries[k].handle
  <2>1. LookupHit(c) \/ StoreAgrees(c) => Known(k) /\ entries' = RefTaken(entries, k)
    BY <1>0 DEF LookupHit, StoreAgrees, Hit
  <2> QED BY <2>1, <1>2
<1>4. StoreAnew(c) => entries' = Stored(entries, k, [handle |-> h, hash |-> call[c].text, refs |-> 1])
  BY <1>0 DEF StoreAnew
<1>5. h \in Handles /\ call' = [call EXCEPT ![c].at = "returned", ![c].handle = h]
  <2>1. CASE StoreAnew(c)
    BY <2>1 DEF StoreAnew, Return, IInv, CacheInv, StoringPrivate
  <2>2. CASE LookupHit(c) \/ StoreAgrees(c)
    BY <1>0, <1>3, <2>2, Typed DEF LookupHit, StoreAgrees, Return, Known, Entry
  <2> QED BY <2>1, <2>2
<1>6. /\ call'[c].at = "returned" /\ call'[c].handle = h /\ call'[c].key = k
      /\ \A d \in Callers \ {c} : call'[d] = call[d]
  BY <1>0, <1>1, <1>5, Typed DEF Call
<1> HIDE DEF h
<1>7. /\ Known(k)' /\ entries'[k].handle = h /\ entries'[k].hash = call[c].text
      /\ Known(k) => /\ entries[k].handle = h
                     /\ entries'[k].refs = entries[k].refs + 1
      /\ ~Known(k) => entries'[k].refs = 1
      /\ DOMAIN entries' = DOMAIN entries \cup {k}
      /\ \A j \in DOMAIN entries \ {k} : entries'[j] = entries[j]
  <2>1. CASE StoreAnew(c)
    <3> DEFINE e == [handle |-> h, hash |-> call[c].text, refs |-> 1]
    <3>1. e.handle = h /\ e.hash = call[c].text /\ e.refs = 1
      OBVIOUS
    <3> HIDE DEF e
    <3>2. entries' = [j \in DOMAIN entries \cup {k} |-> IF j = k THEN e ELSE entries[j]]
      BY <1>4, <2>1 DEF Stored, e
    <3>3. /\ DOMAIN entries' = DOMAIN entries \cup {k} /\ entries'[k] = e
          /\ \A j \in DOMAIN entries \ {k} : entries'[j] = entries[j]
      BY <3>2
    <3> QED BY <1>2, <2>1, <3>1, <3>3 DEF Known
  <2>2. CASE LookupHit(c) \/ StoreAgrees(c)
    <3>1. entries[k] \in Entry /\ entries \in [DOMAIN entries -> Entry] /\ entries[k].hash = call[c].text
      BY <1>1, <1>3, <2>2, Typed DEF Known, EntriesTyped, Calm, Current
    <3> DEFINE e == [entries[k] EXCEPT !.refs = @ + 1]
    <3>2. e.handle = entries[k].handle /\ e.hash = entries[k].hash /\ e.refs = entries[k].refs + 1
      BY <3>1 DEF Entry
    <3>3. k \in DOMAIN entries /\ entries' = [entries EXCEPT ![k] = e]
      BY <1>3, <2>2 DEF RefTaken, Known
    <3> HIDE DEF e
    <3>4. /\ DOMAIN entries' = DOMAIN entries /\ entries'[k] = e
          /\ \A j \in DOMAIN entries \ {k} : entries'[j] = entries[j]
      BY <3>1, <3>3
    <3> QED BY <1>3, <2>2, <3>1, <3>2, <3>3, <3>4 DEF Known
  <2> QED BY <2>1, <2>2
<1>8. Counted'
  <2> DEFINE s == <<c, "due">>
  <2>1. s \in Slots /\ s[1] = c /\ s[2] = "due"
    BY DEF Slots
  <2>2. Owned(s).handle = NoHandle /\ Owned(s)'.handle = h /\ Owned(s)'.key = k /\ h # NoHandle
    BY <1>1, <1>5, <1>6 DEF Owned, NoClaim, Handles, NoHandle
  <2>3. \A q \in Slots \ {s} : Owned(q)' = Owned(q)
    BY <1>6, OtherSlots
  <2> HIDE DEF s
  <2>4. Gains(s, k)
    BY <1>7, <2>2, <2>3 DEF Gains, Known
  <2> QED BY <1>1, <2>1, <2>4, GainsCounted, Typed DEF Calm
<1>9. Current'
  BY <1>1, <1>6, <1>7 DEF Calm, Current
<1>10. \A g \in 1..made' : Somewhere(g)'
  <2>1. ASSUME NEW g \in 1..made
        PROVE  Somewhere(g)'
    <3>0. g \in Handles
      BY <2>1, Typed, CacheAssumption DEF Handles
    <3>1. frees'[g] >= frees[g] /\ frees[g] \in Nat /\ frees'[g] \in Nat
      <4>1. CASE LookupHit(c)
        BY <4>1, <3>0, Typed DEF LookupHit
      <4>2. CASE StoreAgrees(c)
        BY <4>2, <3>0, Typed DEF StoreAgrees, LoserFreed, Freed
      <4>3. CASE StoreAnew(c)
        BY <4>3, <3>0, Typed DEF StoreAnew
      <4> QED BY <4>1, <4>2, <4>3
    <3>2. CASE frees[g] > 0
      BY <3>1, <3>2 DEF Somewhere
    <3>3. CASE \E j \in DOMAIN entries : entries[j].handle = g
      <4>1. PICK j \in DOMAIN entries : entries[j].handle = g
        BY <3>3
      <4>2. entries'[j].handle = g /\ j \in DOMAIN entries'
        BY <1>7, <4>1 DEF Known
      <4> QED BY <4>2 DEF Somewhere
    <3>4. CASE \E d \in Callers \ {c} : call[d].at = "storing" /\ call[d].handle = g
      BY <1>6, <3>4 DEF Somewhere
    <3>5. CASE call[c].at = "storing" /\ call[c].handle = g
      <4>1. CASE StoreAnew(c)
        BY <4>1, <3>5, <1>7 DEF h, Somewhere, Known
      <4>2. CASE StoreAgrees(c)
        <5>1. frees'[g] = frees[g] + 1
          BY <4>2, <3>5, <3>0, Typed DEF StoreAgrees, LoserFreed, Freed
        <5> QED BY <3>1, <5>1 DEF Somewhere
      <4> QED BY <4>1, <4>2, <3>5 DEF LookupHit
    <3> QED BY <3>2, <3>3, <3>4, <3>5 DEF Calm, Somewhere
  <2> QED BY <1>1, <2>1
<1> QED BY <1>8, <1>9, <1>10 DEF Calm

\* An answer becomes a claim; what the client held before is in excess from now on.
LEMMA CollectCounted ==
    ASSUME IInv, OneClaim, Counted, NEW c \in Callers, Collect(c), NEW k \in Keys,
           k = call[c].key, call[c].handle # NoHandle, entries' = entries,
           NEW held \in Slots, NEW due \in Slots, held # due,
           Owned(held) = claim[c], Owned(held)' = claim'[c],
           Owned(due) = [key |-> k, handle |-> call[c].handle],
           Owned(due)' = NoClaim, NoClaim.handle = NoHandle,
           \A s \in Slots \ {held, due} : Owned(s)' = Owned(s)
    PROVE  Counted'
<1>1. /\ claim'[c] = [key |-> k, handle |-> call[c].handle]
      /\ extra \in [Keys -> Nat]
      /\ extra' = [j \in Keys |-> IF claim[c].key = j THEN extra[j] + 1 ELSE extra[j]]
  BY Typed DEF Collect
<1>2. claim[c].key \in Keys => claim[c].handle # NoHandle
  <2>1. <<>> \notin Keys
    BY DEF Keys
  <2> QED BY <2>1 DEF OneClaim, NoClaim
<1>3. /\ due \in Owners(k) /\ \A j \in Keys : held \in Owners(j) <=> claim[c].key = j
      /\ \A j \in Keys \ {k} : due \notin Owners(j)
  BY <1>2 DEF Owners
<1>4. /\ Owners(k)' = (Owners(k) \ {due}) \cup {held}
      /\ \A j \in Keys \ {k} : Owners(j)' = Owners(j) \ {held}
  BY <1>1, <1>3 DEF Owners
<1>5. Known(k) /\ call[c].handle = entries[k].handle /\ \A j : Known(j)' <=> Known(j)
  BY <1>3 DEF Counted, Known
<1>6. ASSUME NEW j \in Keys
      PROVE  /\ IsFiniteSet(Owners(j)')
             /\ Cardinality(Owners(j)') + extra'[j] = Cardinality(Owners(j)) + extra[j]
             /\ ~Known(j) => extra'[j] = 0
  <2>1. IsFiniteSet(Owners(j)) /\ Cardinality(Owners(j)) \in Nat /\ extra[j] \in Nat
    BY <1>1, FS_CardinalityType DEF Counted
  <2>2. CASE j = k /\ claim[c].key = k
    <3>1. Owners(k)' = Owners(k) \ {due}
      BY <1>3, <1>4, <2>2
    <3>2. IsFiniteSet(Owners(k)') /\ Cardinality(Owners(k)') = Cardinality(Owners(k)) - 1
      BY <1>3, <2>1, <2>2, <3>1, FS_RemoveElement
    <3>3. extra'[k] = extra[k] + 1
      BY <1>1, <2>2
    <3> QED BY <1>5, <2>1, <2>2, <3>2, <3>3
  <2>3. CASE j = k /\ claim[c].key # k
    <3> DEFINE T == Owners(k) \ {due}
    <3>1. IsFiniteSet(T) /\ Cardinality(T) = Cardinality(Owners(k)) - 1 /\ held \notin T
      BY <1>3, <2>1, <2>3, FS_RemoveElement
    <3>2. Owners(k)' = T \cup {held}
      BY <1>4
    <3> HIDE DEF T
    <3>3. IsFiniteSet(Owners(k)') /\ Cardinality(Owners(k)') = Cardinality(T) + 1
      BY <3>1, <3>2, FS_AddElement
    <3> QED BY <1>1, <1>5, <2>1, <2>3, <3>1, <3>3
  <2>4. CASE j # k /\ claim[c].key = j
    <3>1. Owners(j)' = Owners(j) \ {held} /\ held \in Owners(j)
      BY <1>3, <1>4, <2>4
    <3>2. Known(j)
      BY <3>1 DEF Counted
    <3>3. IsFiniteSet(Owners(j)') /\ Cardinality(Owners(j)') = Cardinality(Owners(j)) - 1
      BY <2>1, <3>1, FS_RemoveElement
    <3>4. extra'[j] = extra[j] + 1
      BY <1>1, <2>4
    <3> QED BY <2>1, <3>2, <3>3, <3>4
  <2>5. CASE j # k /\ claim[c].key # j
    <3>1. Owners(j)' = Owners(j)
      BY <1>3, <1>4, <2>5
    <3> QED BY <1>1, <2>1, <2>5, <3>1 DEF Counted
  <2> QED BY <2>2, <2>3, <2>4, <2>5
<1>7. ASSUME NEW j \in Keys, NEW s \in Owners(j)'
      PROVE  Known(j)' /\ Owned(s)'.handle = entries'[j].handle
  <2>1. CASE s = held
    <3>1. j = k
      BY <1>4, <1>7, <2>1
    <3> QED BY <1>1, <1>5, <2>1, <3>1
  <2>2. CASE s # held
    <3>1. s \in Owners(j) /\ s # due /\ s \in Slots
      BY <1>3, <1>4, <1>7, <2>2 DEF Owners
    <3>2. Owned(s)' = Owned(s)
      BY <2>2, <3>1
    <3> QED BY <1>5, <3>1, <3>2 DEF Counted
  <2> QED BY <2>1, <2>2
<1> QED BY <1>5, <1>6, <1>7 DEF Counted

LEMMA CollectCalm ==
    ASSUME IInv, OneClaim, Calm, NEW c \in Callers, Collect(c)
    PROVE  Calm'
<1> DEFINE held == <<c, "held">>
           due == <<c, "due">>
<1>0. PICK k : k = call[c].key
  OBVIOUS
<1>1. /\ UNCHANGED <<entries, made, frees, source>>
      /\ call' = [call EXCEPT ![c] = Idle] /\ call[c].at = "returned" /\ k \in Keys
  BY <1>0 DEF Collect, Leave, OneClaim
<1>2. /\ held \in Slots /\ due \in Slots /\ held # due
      /\ Owned(held) = claim[c] /\ Owned(held)' = claim'[c]
      /\ Owned(due) = [key |-> k, handle |-> call[c].handle]
      /\ Owned(due)' = NoClaim /\ NoClaim.handle = NoHandle
  BY <1>0, <1>1, Typed DEF Slots, Owned, Idle, NoClaim
<1>3. \A s \in Slots \ {held, due} : Owned(s)' = Owned(s)
  <2> SUFFICES ASSUME NEW s \in Slots, s # held, s # due PROVE Owned(s)' = Owned(s)
    OBVIOUS
  <2>1. s[1] \in Callers \ {c}
    BY SlotForm
  <2>2. call'[s[1]] = call[s[1]] /\ claim'[s[1]] = claim[s[1]]
    BY <1>1, <2>1, Typed DEF Collect
  <2> QED BY <2>2 DEF Owned
<1>4. Counted'
  <2>1. CASE call[c].handle = NoHandle
    <3>1. claim' = claim /\ extra' = extra
      BY <2>1 DEF Collect
    <3>2. SameOwners
      BY <1>2, <1>3, <2>1, <3>1 DEF SameOwners
    <3> QED BY <1>1, <3>1, <3>2, SameOwnersCounted DEF Calm
  <2>2. CASE call[c].handle # NoHandle
    BY <1>0, <1>1, <1>2, <1>3, <2>2, CollectCounted DEF Calm
  <2> QED BY <2>1, <2>2
<1>5. Current'
  BY <1>1, Typed DEF Calm, Current, Idle
<1>6. \A h \in 1..made' : Somewhere(h)'
  BY <1>1, Typed DEF Calm, Somewhere, Idle
<1> QED BY <1>4, <1>5, <1>6 DEF Calm

LEMMA GiveBackCalm ==
    ASSUME IInv, OneClaim, Calm, NEW c \in Callers, GiveBack(c)
    PROVE  Calm'
<1>0. PICK k : k = claim[c].key
  OBVIOUS
<1> DEFINE s == <<c, "held">>
<1>1. /\ claim[c] # NoClaim /\ UNCHANGED <<made, call, source, extra>>
      /\ entries' = EntriesReleased(k) /\ frees' = FreesReleased(k)
      /\ claim' = [claim EXCEPT ![c] = NoClaim]
  BY <1>0 DEF GiveBack, Release
<1>2. k \in Keys /\ s \in Slots /\ Owned(s).handle # NoHandle /\ Owned(s).key = k /\ s \in Owners(k)
  BY <1>0, <1>1 DEF OneClaim, Slots, Owned, Owners
<1>3. /\ Known(k) /\ IsFiniteSet(Owners(k))
      /\ entries[k].refs = Cardinality(Owners(k)) + extra[k] /\ extra[k] \in Nat
      /\ entries[k] \in Entry /\ entries \in [DOMAIN entries -> Entry]
  BY <1>2, Typed DEF Calm, Counted, Known, EntriesTyped
<1>4. Owned(s)'.handle = NoHandle
  BY <1>1, Typed DEF Owned, NoClaim
<1>5. \A r \in Slots \ {s} : Owned(r)' = Owned(r)
  <2> SUFFICES ASSUME NEW r \in Slots, r # s PROVE Owned(r)' = Owned(r)
    OBVIOUS
  <2>1. r[1] \in Callers /\ r[2] \in {"held", "due"} /\ (r[1] # c \/ r[2] # "held")
    BY SlotForm
  <2>2. r[2] = "held" => claim'[r[1]] = claim[r[1]]
    BY <1>1, <2>1, Typed
  <2> QED BY <1>1, <2>1, <2>2 DEF Owned
<1> HIDE DEF s
<1>6. /\ Owners(k)' = Owners(k) \ {s}
      /\ \A j \in Keys \ {k} : Owners(j)' = Owners(j)
  BY <1>2, <1>4, <1>5 DEF Owners
<1> DEFINE Gone == entries[k].refs - 1 <= 0
<1>7. /\ IsFiniteSet(Owners(k)') /\ Cardinality(Owners(k)') + extra[k] = entries[k].refs - 1
      /\ Gone => Owners(k)' = {} /\ extra[k] = 0
  <2>1. /\ IsFiniteSet(Owners(k)') /\ Cardinality(Owners(k)') = Cardinality(Owners(k)) - 1
        /\ Cardinality(Owners(k)) \in Nat /\ Cardinality(Owners(k)') \in Nat
    BY <1>2, <1>3, <1>6, FS_RemoveElement, FS_CardinalityType
  <2>2. Gone => Cardinality(Owners(k)') = 0 /\ extra[k] = 0
    BY <1>3, <2>1
  <2> QED BY <1>3, <2>1, <2>2, FS_EmptySet
\* The entry goes with its last owner, and its handle is freed; else it counts one less.
<1>8. \/ /\ Gone /\ DOMAIN entries' = DOMAIN entries \ {k}
         /\ frees' = [frees EXCEPT ![entries[k].handle] = @ + 1]
      \/ /\ ~Gone /\ DOMAIN entries' = DOMAIN entries /\ frees' = frees
         /\ entries'[k].refs = entries[k].refs - 1
         /\ entries'[k].handle = entries[k].handle /\ entries'[k].hash = entries[k].hash
  <2>1. CASE Gone
    BY <1>1, <1>3, <1>7, <2>1
    DEF EntriesReleased, FreesReleased, Remaining, Erased, Freed
  <2>2. CASE ~Gone
    <3> DEFINE e == [entries[k] EXCEPT !.refs = @ - 1]
    <3>1. /\ e.refs = entries[k].refs - 1
          /\ e.handle = entries[k].handle /\ e.hash = entries[k].hash
      BY <1>3 DEF Entry
    <3>2. entries' = [entries EXCEPT ![k] = e] /\ frees' = frees
      BY <1>1, <1>3, <1>7, <2>2 DEF EntriesReleased, FreesReleased, Remaining
    <3> HIDE DEF e
    <3>3. DOMAIN entries' = DOMAIN entries /\ entries'[k] = e
      BY <1>3, <3>2 DEF Known
    <3> QED BY <2>2, <3>1, <3>2, <3>3
  <2> QED BY <2>1, <2>2
<1>9. \A j \in DOMAIN entries \ {k} : entries'[j] = entries[j]
  BY <1>1, <1>3 DEF EntriesReleased, Erased
<1>10. Counted'
  <2>1. /\ IsFiniteSet(Owners(k)')
        /\ Known(k)' => /\ entries'[k].refs = Cardinality(Owners(k)') + extra'[k]
                        /\ entries'[k].refs > 0
        /\ ~Known(k)' => extra'[k] = 0
    <3>1. entries[k].refs \in Nat
      BY <1>3 DEF Entry
    <3> QED BY <1>1, <1>3, <1>7, <1>8, <3>1 DEF Known
  <2>2. \A r \in Owners(k)' : Known(k)' /\ Owned(r)'.handle = entries'[k].handle
    <3>1. \A r \in Owners(k)' : r \in Owners(k) /\ Owned(r)' = Owned(r)
      BY <1>5, <1>6 DEF Owners
    <3> QED BY <1>2, <1>3, <1>6, <1>7, <1>8, <3>1 DEF Known, Calm, Counted
  <2>3. ASSUME NEW j \in Keys \ {k}
        PROVE  /\ IsFiniteSet(Owners(j)')
               /\ Known(j)' => /\ entries'[j].refs = Cardinality(Owners(j)') + extra'[j]
                               /\ entries'[j].refs > 0
               /\ ~Known(j)' => extra'[j] = 0
               /\ \A r \in Owners(j)' : Known(j)' /\ Owned(r)'.handle = entries'[j].handle
    <3>1. (Known(j)' <=> Known(j)) /\ (Known(j) => entries'[j] = entries[j])
      BY <1>8, <1>9, <2>3 DEF Known
    <3>2. \A r \in Owners(j) : Owned(r)' = Owned(r)
      BY <1>5, <1>2, <2>3 DEF Owners
    <3> QED BY <1>1, <1>6, <2>3, <3>1, <3>2 DEF Calm, Counted
  <2> QED BY <2>1, <2>2, <2>3 DEF Counted
<1>11. Current'
  BY <1>1, <1>8, <1>9 DEF Calm, Current
<1>12. ASSUME NEW g \in 1..made' PROVE Somewhere(g)'
  <2>1. g \in Handles /\ frees[g] \in Nat /\ Somewhere(g)
    BY <1>1, Typed, CacheAssumption DEF Handles, Calm
  <2>2. frees'[g] >= frees[g] /\ frees'[g] \in Nat
    BY <1>8, <2>1, Typed
  <2>3. CASE \E j \in DOMAIN entries : entries[j].handle = g
    <3>1. PICK j \in DOMAIN entries : entries[j].handle = g
      BY <2>3
    <3>2. CASE j # k
      BY <1>8, <1>9, <3>1, <3>2 DEF Somewhere
    <3>3. CASE j = k
      <4>1. CASE Gone
        BY <1>8, <2>1, <3>1, <3>3, <4>1, Typed DEF Somewhere
      <4>2. CASE ~Gone
        BY <1>8, <3>1, <3>3, <4>2 DEF Somewhere
      <4> QED BY <4>1, <4>2
    <3> QED BY <3>2, <3>3
  <2> QED BY <1>1, <2>1, <2>2, <2>3 DEF Somewhere
<1> QED BY <1>10, <1>11, <1>12 DEF Calm

LEMMA DestroyCalm ==
    ASSUME IInv, OneClaim, Calm, Destroy
    PROVE  Calm'
<1>1. /\ UNCHANGED <<made, call, source>> /\ entries' = NoEntries
      /\ claim' = [c \in Callers |-> NoClaim] /\ \A c \in Callers : call[c].at = "out"
      /\ extra' = [k \in Keys |-> 0]
      /\ frees' = [h \in Handles |-> IF \E k \in DOMAIN entries : entries[k].handle = h
                                     THEN frees[h] + 1 ELSE frees[h]]
  BY DEF Destroy, ClearAll
<1>2. \A k : Owners(k)' = {}
  <2>1. \A s \in Slots : Owned(s)' = NoClaim
    BY <1>1, SlotForm DEF Owned
  <2>2. \A s \in Slots : Owned(s)'.handle = NoHandle
    BY <2>1 DEF NoClaim
  <2> QED BY <2>2 DEF Owners
<1>3. Counted' /\ Current'
  BY <1>1, <1>2, FS_EmptySet DEF Counted, Current, Known, NoEntries
<1>4. ASSUME NEW g \in 1..made' PROVE Somewhere(g)'
  <2>1. g \in Handles /\ frees[g] \in Nat /\ Somewhere(g)
    BY <1>1, Typed, CacheAssumption DEF Handles, Calm
  <2> QED BY <1>1, <2>1 DEF Somewhere
<1> QED BY <1>3, <1>4 DEF Calm

LEMMA InitCalm == ASSUME Init PROVE CalmInv
<1> USE DEF Init, CacheInit
<1>1. IInv
  BY InitInv
<1>2. OneClaim
  BY DEF OneClaim, Idle
<1>3. \A k : Owners(k) = {}
  <2>1. \A s \in Slots : Owned(s) = NoClaim
    BY SlotForm DEF Owned, Idle
  <2>2. \A s \in Slots : Owned(s).handle = NoHandle
    BY <2>1 DEF NoClaim
  <2> QED BY <2>2 DEF Owners
<1>4. \A k \in Keys : extra[k] = 0
  OBVIOUS
<1>5. Counted
  BY <1>3, <1>4, FS_EmptySet DEF Counted, Known, NoEntries
<1>6. Calm
  BY <1>5 DEF Calm, Current, NoEntries, Idle
<1> QED BY <1>1, <1>2, <1>6 DEF CalmInv

LEMMA CalmStep == ASSUME CalmInv, [Next]_vars PROVE CalmInv'
<1> USE DEF CalmInv
<1>1. IInv' /\ OneClaim'
  BY StepInv, ClaimsStep
<1>2. ASSUME ~edited' PROVE Calm'
  <2>1. ~edited /\ Calm
    BY <1>2 DEF Next, vars, Acquire, Collect, GiveBack, Edit, ClientInvalidates, Destroy
  <2>2. ASSUME NEW c \in Callers, Acquire(c) PROVE Calm'
    BY <2>1, <2>2, UnderWayCalm
  <2>3. ASSUME NEW c \in Callers, InCache(c), UNCHANGED <<source, claim, repeats, extra, edited>>
        PROVE  Calm'
    BY <2>1, <2>3, UnderWayCalm, AnsweredCalm DEF InCache
  <2>4. ASSUME NEW c \in Callers, Collect(c) \/ GiveBack(c) PROVE Calm'
    BY <2>1, <2>4, CollectCalm, GiveBackCalm
  <2>5. ASSUME Destroy PROVE Calm'
    BY <2>1, <2>5, DestroyCalm
  <2>6. ASSUME UNCHANGED vars PROVE Calm'
    <3>1. UNCHANGED <<entries, call, made, frees, source, claim, extra>>
      BY <2>6 DEF vars, cacheVars
    <3>2. SameOwners
      BY <3>1 DEF SameOwners, Owned
    <3>3. Counted'
      BY <2>1, <3>1, <3>2, SameOwnersCounted DEF Calm
    <3> QED BY <2>1, <3>1, <3>3 DEF Calm, Current, Somewhere
  <2> QED BY <1>2, <2>2, <2>3, <2>4, <2>5, <2>6 DEF Next, Edit, ClientInvalidates
<1> QED BY <1>1, <1>2

----------------------------------------------------------------------
\* The inductive invariant holds in every reachable state of cache and clients.
THEOREM CacheInvariance == Spec => []IInv
<1>1. Init => IInv BY InitInv
<1>2. IInv /\ [Next]_vars => IInv' BY StepInv
<1> QED BY <1>1, <1>2, PTL DEF Spec

\* The cache and its clients keep their types (compile_cache.hpp, Entry).
THEOREM CacheTypeCorrect == Spec => []TypeOK
BY CacheInvariance, PTL DEF IInv

\* compile_into_cache(), release() and clear_all() free no handle twice, whatever
\* threads compile at once and however sources change.
THEOREM CacheFreesOnce == Spec => []FreedOnce
<1>1. IInv => FreedOnce BY DEF IInv, CacheInv
<1> QED BY <1>1, CacheInvariance, PTL

\* get_or_compile() never hands out a handle that was already freed, and keeps the
\* handles of different keys apart.
THEOREM CacheEntriesLive == Spec => []EntriesLive
<1>1. IInv => EntriesLive BY DEF IInv, CacheInv
<1> QED BY <1>1, CacheInvariance, PTL

LEMMA CalmInvariance == Spec => []CalmInv
<1>1. Init => CalmInv BY InitCalm
<1>2. CalmInv /\ [Next]_vars => CalmInv' BY CalmStep
<1> QED BY <1>1, <1>2, PTL DEF Spec

\* get_or_compile(), release() and the scripts around them: as long as no source changes, an
\* entry counts the scripts that hold its handle, the answers on their way and exactly the
\* references that a repeated trigger_compile() took beyond them; all hold the same handle.
THEOREM CacheCountsClaims == Spec => []RefsAreClaims
<1>1. CalmInv => RefsAreClaims
  <2> SUFFICES ASSUME CalmInv, ~edited, NEW k \in Keys
               PROVE  /\ References(k) = Cardinality(Owners(k)) + extra[k]
                      /\ \A s \in Owners(k) : Known(k) /\ Owned(s).handle = entries[k].handle
    BY DEF RefsAreClaims
  <2>1. Counted
    BY DEF CalmInv, Calm
  <2>2. CASE Known(k)
    BY <2>1, <2>2 DEF Counted, References
  <2>3. CASE ~Known(k)
    <3>1. Owners(k) = {} /\ extra[k] = 0
      BY <2>1, <2>3 DEF Counted
    <3> QED BY <2>3, <3>1, FS_EmptySet DEF References
  <2> QED BY <2>2, <2>3
<1> QED BY <1>1, CalmInvariance, PTL

\* CompileCache: as long as no source changes, a handle that is not freed is in the cache or
\* on its way there.
THEOREM CacheLosesNothing == Spec => []NothingLost
<1>1. CalmInv => NothingLost
  BY DEF CalmInv, Calm, Somewhere, NothingLost
<1> QED BY <1>1, CalmInvariance, PTL
=============================================================================
