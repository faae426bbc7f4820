--------------------------- MODULE ScriptInstanceProofs ---------------------------
(***************************************************************************)
(* Proofs about ScriptInstance: whatever the number of threads, swaps and  *)
(* nested calls, no thread is inside a freed foreign object, every object  *)
(* a swap replaced is freed exactly once, and a property keeps what was    *)
(* last written to it unless a write raced with its transfer.              *)
(***************************************************************************)
EXTENDS ScriptInstance, TLAPS

\* What an assignment to one property of one object does to the state.
LEMMA PutValue ==
  ASSUME NEW A, NEW P, NEW V, NEW v \in [A -> [P -> V]], NEW o, NEW p, NEW n \in V,
         NEW w, w = [v EXCEPT ![o][p] = n]
  PROVE  /\ w \in [A -> [P -> V]]
         /\ \A b \in A : \A q \in P : w[b][q] = IF b = o /\ q = p THEN n ELSE v[b][q]
<1>1. \A b \in A : b # o => w[b] = v[b]
  OBVIOUS
<1>2. o \in A => w[o] = [v[o] EXCEPT ![p] = n]
  OBVIOUS
<1>3. \A b \in A : w[b] \in [P -> V]
  BY <1>1, <1>2
<1>4. w = [b \in A |-> w[b]]
  OBVIOUS
<1> QED BY <1>1, <1>2, <1>3, <1>4

USE InstanceAssumption DEF InstanceAssumption, None, Objects, Nil, Values

\* What is freed, and what the swap holds, in each stage, unless the instance was deleted
\* during a swap.
Custody ==
    /\ alive => ~torn /\ foreign \in 1..made
    /\ stage # "idle" => old \in 1..(made - 1)
    /\ ~torn =>
           /\ ~alive => foreign = None /\ stage = "idle"
           /\ stage = "idle" => freed = 1..made \ {foreign}
           /\ stage \in {"saving", "waiting"} =>
                  /\ foreign < made /\ old = foreign
                  /\ freed = 1..(made - 1) \ {foreign}
           /\ stage = "freeing" =>
                  /\ foreign = made
                  /\ freed = 1..(made - 1) \ {old}
           /\ stage = "restoring" => foreign = made /\ freed = 1..(made - 1)
           /\ ~twice

\* While the instance lives, every locked call under way is one of the current object,
\* and the exclusive lock keeps them all out; what runs without the lock was handed out
\* when it was current.
CallsCurrent ==
    /\ alive => \A t \in Threads : \A i \in 1..depth[t] : frame[t][i] = foreign
    /\ alive => \A t \in Threads : target[t] <= foreign
    /\ stage = "freeing" => \A t \in Threads : depth[t] = 0
    /\ \A t \in Threads : wants[t] => depth[t] < MaxDepth

IInv == TypeOK /\ Custody /\ CallsCurrent

LEMMA InitIInv == Init => IInv
<1> SUFFICES ASSUME Init PROVE IInv
  OBVIOUS
<1>1. TypeOK
  <2>1. 0 \in Values /\ 0 # Nil /\ 1 \in Objects
    OBVIOUS
  <2>2. val \in [Objects -> [Props -> Values]] /\ snap \in [Props -> Values]
    BY <2>1 DEF Init
  <2>3. \A p \in Scalars : snap[p] # Nil /\ \A o \in Objects : val[o][p] # Nil
    BY <2>1 DEF Init
  <2>4. /\ frame \in [Threads -> [1..MaxDepth -> Objects \cup {None}]]
        /\ depth \in [Threads -> 0..MaxDepth] /\ wants \in [Threads -> BOOLEAN]
        /\ target \in [Threads -> Objects \cup {None}]
    BY DEF Init
  <2>5. /\ foreign \in Objects /\ old = None /\ made \in Objects /\ freed = {}
        /\ twice \in BOOLEAN /\ alive \in BOOLEAN /\ torn \in BOOLEAN
        /\ stage = "idle" /\ left = {}
        /\ native \in BOOLEAN /\ writersFirst \in BOOLEAN
    BY <2>1 DEF Init
  <2>6. written \in [Props -> Values] /\ writes \in 0..MaxWrites /\ raced = {}
    BY <2>1 DEF Init
  <2> HIDE DEF Objects, Nil, Values
  <2> QED BY <2>2, <2>3, <2>4, <2>5, <2>6 DEF TypeOK
<1>2. Custody
  BY DEF Init, Custody
<1>3. CallsCurrent
  BY DEF Init, CallsCurrent
<1> QED BY <1>1, <1>2, <1>3 DEF IInv

LEMMA CallStep ==
  ASSUME IInv, NEW t \in Threads,
         Ask(t) \/ Enter(t) \/ Return(t) \/ Resolve(t) \/ Finish(t)
         \/ \E p \in Props : Write(t, p)
  PROVE  IInv'
<1> USE DEF IInv
<1>1. CASE Ask(t)
  <2> USE <1>1 DEF Ask, objVars, swapVars, stateVars
  <2>1. TypeOK'
    BY DEF TypeOK
  <2>2. Custody'
    BY DEF Custody
  <2>3. CallsCurrent'
    <3>1. depth[t] < MaxDepth
      BY DEF Nested, TypeOK
    <3> QED BY <3>1 DEF CallsCurrent, TypeOK
  <2> QED BY <2>1, <2>2, <2>3
<1>2. CASE Enter(t)
  <2> USE <1>2 DEF Enter, objVars, swapVars, stateVars
  <2>1. Custody'
    BY DEF Custody
  <2>2. wants[t] /\ depth[t] \in 0..MaxDepth /\ depth[t] < MaxDepth
    BY DEF TypeOK, CallsCurrent
  <2>3. CASE foreign = None
    <3>1. TypeOK'
      BY <2>3 DEF TypeOK
    <3>2. CallsCurrent'
      BY <2>3 DEF CallsCurrent, TypeOK
    <3> QED BY <2>1, <3>1, <3>2
  <2>4. CASE foreign # None
    <3> DEFINE d == depth[t] + 1
    <3>1. d \in 1..MaxDepth /\ foreign \in Objects
      BY <2>2, <2>4 DEF TypeOK
    <3>2. /\ depth' = [depth EXCEPT ![t] = d]
          /\ frame' = [frame EXCEPT ![t][d] = foreign]
          /\ wants' = [wants EXCEPT ![t] = FALSE]
          /\ UNCHANGED <<foreign, made, freed, twice, alive, torn, stage, old, snap, left, target>>
          /\ UNCHANGED <<val, written, writes, raced, native, writersFirst>>
      BY <2>4
    <3>3. stage # "freeing"
      BY DEF SharedGranted, HeldExclusively
    <3> HIDE <1>2 DEF d
    <3>4. TypeOK'
      <4>1. /\ frame' \in [Threads -> [1..MaxDepth -> Objects \cup {None}]]
            /\ depth' \in [Threads -> 0..MaxDepth] /\ wants' \in [Threads -> BOOLEAN]
        BY <3>1, <3>2 DEF TypeOK
      <4> HIDE DEF Objects, Nil, Values
      <4> QED BY <3>2, <4>1 DEF TypeOK
    <3>5. CallsCurrent'
      BY <2>2, <2>4, <3>1, <3>2, <3>3 DEF CallsCurrent, TypeOK, d
    <3> QED BY <2>1, <3>4, <3>5
  <2> QED BY <2>3, <2>4
<1>3. CASE Return(t)
  <2> USE <1>3 DEF Return, objVars, swapVars, stateVars
  <2>1. TypeOK'
    BY DEF TypeOK
  <2>2. Custody'
    BY DEF Custody
  <2>3. CallsCurrent'
    BY DEF CallsCurrent, TypeOK
  <2> QED BY <2>1, <2>2, <2>3
<1>5. CASE Resolve(t)
  <2> USE <1>5 DEF Resolve, objVars, swapVars, stateVars
  <2>1. TypeOK'
    BY DEF TypeOK
  <2>2. Custody'
    BY DEF Custody
  <2>3. CallsCurrent'
    BY DEF CallsCurrent, TypeOK
  <2> QED BY <2>1, <2>2, <2>3
<1>6. CASE Finish(t)
  <2> USE <1>6 DEF Finish, objVars, swapVars, stateVars
  <2>1. TypeOK'
    BY DEF TypeOK
  <2>2. Custody'
    BY DEF Custody
  <2>3. CallsCurrent'
    BY DEF CallsCurrent, Custody, TypeOK
  <2> QED BY <2>1, <2>2, <2>3
<1>4. ASSUME NEW p \in Props, Write(t, p) PROVE IInv'
  <2> USE <1>4 DEF Write, objVars, callVars, swapVars
  <2>1. TypeOK'
    <3> DEFINE o == Running(t)
               n == writes + 1
    <3>1. n \in Values /\ n # Nil /\ n \in 0..MaxWrites
      BY DEF TypeOK
    <3>2. /\ val' = [val EXCEPT ![o][p] = n]
          /\ written' = [written EXCEPT ![p] = n] /\ writes' = n
          /\ raced' \in SUBSET Props
          /\ UNCHANGED <<foreign, made, freed, twice, alive, torn, frame, depth, wants, target>>
          /\ UNCHANGED <<stage, old, snap, left, native, writersFirst>>
      BY DEF TypeOK
    <3> HIDE <1>4 DEF o, n, Objects, Nil, Values
    <3>3. val \in [Objects -> [Props -> Values]]
      BY DEF TypeOK
    <3>4. val' \in [Objects -> [Props -> Values]]
      BY <3>1, <3>2, <3>3, PutValue
    <3>5. \A b \in Objects : \A q \in Props :
              val'[b][q] = n \/ val'[b][q] = val[b][q]
      BY <3>1, <3>2, <3>3, PutValue
    <3> QED BY <3>1, <3>2, <3>3, <3>4, <3>5 DEF TypeOK
  <2>2. Custody'
    BY DEF Custody
  <2>3. CallsCurrent'
    BY DEF CallsCurrent
  <2> QED BY <2>1, <2>2, <2>3
<1> QED BY <1>1, <1>2, <1>3, <1>4, <1>5, <1>6

LEMMA SwapStep ==
  ASSUME IInv, Swap
  PROVE  IInv'
<1> USE DEF IInv
<1>1. CASE SwapBegins
  <2> USE <1>1 DEF SwapBegins, callVars, stateVars
  <2>1. TypeOK'
    BY DEF TypeOK
  <2>2. Custody'
    BY DEF Custody, TypeOK
  <2>3. CallsCurrent'
    BY DEF CallsCurrent
  <2> QED BY <2>1, <2>2, <2>3
<1>2. CASE SwapWaits
  <2> USE <1>2 DEF SwapWaits, objVars, callVars, stateVars
  <2>1. TypeOK'
    BY DEF TypeOK
  <2>2. Custody'
    BY DEF Custody
  <2>3. CallsCurrent'
    BY DEF CallsCurrent
  <2> QED BY <2>1, <2>2, <2>3
<1>3. CASE SwapStores
  <2> USE <1>3 DEF SwapStores, NoReaders, callVars, stateVars
  <2>1. TypeOK'
    BY DEF TypeOK
  <2>2. Custody'
    BY DEF Custody, TypeOK
  <2>3. CallsCurrent'
    <3>1. alive => foreign \in Nat /\ made \in Nat /\ foreign <= made
      BY DEF Custody, TypeOK
    <3>2. \A t \in Threads : target[t] \in Nat
      BY DEF TypeOK
    <3>3. \A t \in Threads : depth[t] = 0 /\ \A i \in 1..depth[t] : FALSE
      OBVIOUS
    <3> QED BY <3>1, <3>2, <3>3 DEF CallsCurrent
  <2> QED BY <2>1, <2>2, <2>3
<1>4. CASE FreeOld
  <2> USE <1>4 DEF FreeOld, Discarded, callVars, stateVars
  <2>1. TypeOK'
    BY DEF TypeOK, Custody
  <2>2. Custody'
    BY DEF Custody, TypeOK
  <2>3. CallsCurrent'
    BY DEF CallsCurrent
  <2> QED BY <2>1, <2>2, <2>3
<1>5. CASE SwapEnds
  <2> USE <1>5 DEF SwapEnds, objVars, callVars, stateVars
  <2>1. TypeOK'
    BY DEF TypeOK
  <2>2. Custody'
    BY DEF Custody, TypeOK
  <2>3. CallsCurrent'
    BY DEF CallsCurrent
  <2> QED BY <2>1, <2>2, <2>3
<1>6. ASSUME NEW p \in Props, SaveProp(p) PROVE IInv'
  <2> USE <1>6 DEF SaveProp, objVars, callVars, stateVars
  <2>1. TypeOK'
    <3>1. snap' \in [Props -> Values] /\ \A q \in Scalars : snap'[q] # Nil
      BY DEF TypeOK, Custody, Saved, Transferable
    <3> QED BY <3>1 DEF TypeOK
  <2>2. Custody'
    BY DEF Custody
  <2>3. CallsCurrent'
    BY DEF CallsCurrent
  <2> QED BY <2>1, <2>2, <2>3
<1>7. ASSUME NEW p \in Props, RestoreProp(p) PROVE IInv'
  <2> USE <1>7 DEF RestoreProp, objVars, callVars
  <2>1. TypeOK'
    <3>1. val \in [Objects -> [Props -> Values]] /\ snap[p] \in Values
      BY DEF TypeOK
    <3>2. val' = [val EXCEPT ![made][p] = snap[p]]
      OBVIOUS
    <3> DEFINE n == snap[p]
    <3> HIDE <1>7 DEF Objects, Values, n
    <3>3. val' \in [Objects -> [Props -> Values]]
      BY <3>1, <3>2, PutValue DEF n
    <3>4. \A b \in Objects : \A q \in Props :
              (val'[b][q] = n /\ q = p) \/ val'[b][q] = val[b][q]
      BY <3>1, <3>2, PutValue DEF n
    <3>5. \A q \in Scalars : \A b \in Objects : val'[b][q] # Nil
      BY <3>4 DEF TypeOK, n
    <3> USE <1>7
    <3> QED BY <3>3, <3>5 DEF TypeOK
  <2>2. Custody'
    BY DEF Custody
  <2>3. CallsCurrent'
    BY DEF CallsCurrent
  <2> QED BY <2>1, <2>2, <2>3
<1> HIDE DEF IInv
<1> QED BY <1>1, <1>2, <1>3, <1>4, <1>5, <1>6, <1>7 DEF Swap

LEMMA DestroyStep ==
  ASSUME IInv, Destroy
  PROVE  IInv'
<1> USE DEF IInv, Destroy, callVars, swapVars, stateVars
<1>1. TypeOK'
  <2>1. foreign \in Objects
    BY DEF TypeOK, Custody
  <2>2. freed' \subseteq Objects /\ twice' \in BOOLEAN
    BY <2>1 DEF TypeOK
  <2> HIDE DEF Objects
  <2> QED BY <2>2 DEF TypeOK
<1>2. Custody'
  <2>1. ~torn /\ foreign \in 1..made /\ made \in Nat /\ twice \in BOOLEAN
    BY DEF TypeOK, Custody
  <2>2. CASE stage = "idle"
    <3>1. freed = 1..made \ {foreign} /\ ~twice
      BY <2>1, <2>2 DEF Custody
    <3>2. freed' = 1..made' \ {foreign'} /\ ~twice' /\ torn' = FALSE /\ stage' = "idle"
      BY <2>1, <2>2, <3>1
    <3> QED BY <3>2 DEF Custody
  <2>3. CASE stage # "idle"
    <3>1. torn' = TRUE /\ old' \in 1..(made' - 1)
      BY <2>3 DEF Custody
    <3> QED BY <3>1 DEF Custody
  <2> QED BY <2>2, <2>3
<1>3. CallsCurrent'
  BY DEF CallsCurrent
<1> QED BY <1>1, <1>2, <1>3

LEMMA Inductive == IInv /\ [Next]_vars => IInv'
<1> SUFFICES ASSUME IInv, [Next]_vars PROVE IInv'
  OBVIOUS
<1>1. CASE UNCHANGED vars
  BY <1>1 DEF vars, objVars, callVars, swapVars, stateVars,
              IInv, TypeOK, Custody, CallsCurrent
<1>2. CASE Next
  BY <1>2, CallStep, SwapStep, DestroyStep DEF Next
<1> QED BY <1>1, <1>2

THEOREM Invariant == Spec => []IInv
  BY InitIInv, Inductive, PTL DEF Spec

\* Every variable keeps its type; a scalar property of a foreign object never turns nil.
THEOREM TypeCorrect == Spec => []TypeOK
  BY Invariant, PTL DEF IInv

\* While the instance lives, no thread is inside a locked call on a freed object, and an
\* object a thread uses without the lock was freed, if at all, by a swap that replaced it
\* after it was handed out.
THEOREM SwapSafe == Spec => []NoFreeUnderCall
<1>1. ASSUME IInv PROVE NoFreeUnderCall
  <2> SUFFICES ASSUME alive, NEW t \in Threads
               PROVE  /\ \A i \in 1..depth[t] : frame[t][i] \notin freed
                      /\ target[t] \in freed => target[t] < foreign
    BY DEF NoFreeUnderCall
  <2>1. ~torn /\ made \in Nat /\ foreign \in 1..made
    BY <1>1 DEF IInv, TypeOK, Custody
  <2>2. foreign \notin freed
    BY <1>1, <2>1 DEF IInv, TypeOK, Custody
  <2>3. target[t] \in Nat /\ target[t] <= foreign
    BY <1>1 DEF IInv, TypeOK, CallsCurrent
  <2>4. \A i \in 1..depth[t] : frame[t][i] = foreign
    BY <1>1 DEF IInv, CallsCurrent
  <2> QED BY <2>1, <2>2, <2>3, <2>4
<1> QED BY <1>1, Invariant, PTL

\* Between swaps every foreign object but the current one has been freed, and none
\* twice, the deletion of the instance included unless it falls within a swap.
THEOREM NoLeak == Spec => []ExactlyCurrentLeft
<1>1. IInv => ExactlyCurrentLeft
  BY DEF IInv, Custody, ExactlyCurrentLeft
<1> QED BY <1>1, Invariant, PTL
-----------------------------------------------------------------------------
(* The state a swap carries over. *)

\* Where the last value written to a property is while a swap carries it over.
Carried(p) ==
    /\ stage = "idle" => val[foreign][p] = written[p]
    /\ stage = "saving" =>
           /\ val[old][p] = written[p]
           /\ p \notin left => snap[p] = written[p]
    /\ stage \in {"waiting", "freeing"} => snap[p] = written[p]
    /\ stage = "restoring" =>
           IF p \in left THEN snap[p] = written[p] ELSE val[made][p] = written[p]

StateInv == alive => \A p \in Props \ raced : Transferable(p) => Carried(p)

LEMMA WriteCarries ==
  ASSUME IInv, StateInv, NEW t \in Threads, NEW p \in Props, Write(t, p)
  PROVE  StateInv'
<1> SUFFICES ASSUME alive, NEW q \in Props, q \notin raced', Transferable(q)
             PROVE  Carried(q)'
  BY DEF StateInv, Write, objVars, Transferable
<1> DEFINE o == Running(t)
           n == writes + 1
<1>1. /\ val' = [val EXCEPT ![o][p] = n]
      /\ written' = [written EXCEPT ![p] = n]
      /\ UNCHANGED <<foreign, made, stage, old, snap, left>>
      /\ raced' = IF InFlight(p) THEN raced \cup {p} ELSE raced \ {p}
  BY DEF Write, objVars, swapVars
<1>2. /\ foreign \in Objects
      /\ o = foreign \/ stage = "freeing"
  <2>1. alive /\ o # None /\ o \notin freed /\ depth[t] \in 0..MaxDepth
        /\ target[t] \in Objects \cup {None}
    BY DEF IInv, TypeOK, Write, objVars
  <2>2. foreign \in Objects /\ foreign \in 1..made /\ made \in Nat /\ ~torn
    BY <2>1 DEF IInv, TypeOK, Custody
  <2>3. CASE depth[t] > 0
    <3>1. depth[t] \in 1..depth[t]
      BY <2>1, <2>3
    <3> QED BY <2>1, <2>2, <2>3, <3>1 DEF Running, IInv, CallsCurrent
  <2>4. CASE depth[t] = 0
    <3>1. o = target[t] /\ target[t] \in Nat /\ target[t] # 0 /\ target[t] <= foreign
      BY <2>1, <2>4 DEF Running, IInv, CallsCurrent
    <3>2. \/ stage = "freeing"
          \/ stage = "idle" /\ freed = 1..made \ {foreign}
          \/ foreign < made /\ freed = 1..(made - 1) \ {foreign}
          \/ foreign = made /\ freed = 1..(made - 1)
      BY <2>1, <2>2 DEF IInv, Custody, TypeOK
    <3> HIDE DEF o
    <3> QED BY <2>1, <2>2, <3>1, <3>2
  <2> QED BY <2>1, <2>2, <2>3, <2>4
<1>3. n \in Values
  BY DEF IInv, TypeOK, Write
<1>4. made \in Objects /\ (stage = "saving" => old = foreign)
      /\ (stage = "restoring" => foreign = made)
  <2>1. alive
    BY DEF Write, objVars
  <2> QED BY <2>1 DEF IInv, Custody, TypeOK
<1> HIDE DEF o, n, Objects, Nil, Values
<1>5. val \in [Objects -> [Props -> Values]] /\ written \in [Props -> Values]
  BY DEF IInv, TypeOK
<1>6. \A b \in Objects : \A r \in Props :
          val'[b][r] = IF b = o /\ r = p THEN n ELSE val[b][r]
  BY <1>1, <1>3, <1>5, PutValue
<1>7. CASE q = p
  <2>1. ~InFlight(p)
    BY <1>1, <1>7
  <2>2. written'[q] = n /\ val'[foreign][q] = n
    BY <1>1, <1>2, <1>5, <1>6, <1>7, <2>1 DEF InFlight
  <2> QED BY <1>1, <1>4, <1>7, <2>1, <2>2 DEF Carried, InFlight
<1>8. CASE q # p
  <2>1. q \notin raced
    BY <1>1, <1>8
  <2>2. Carried(q)
    BY <2>1 DEF StateInv
  <2>3. written'[q] = written[q] /\ \A b \in Objects : val'[b][q] = val[b][q]
    BY <1>1, <1>5, <1>6, <1>8
  <2> QED BY <1>1, <1>2, <1>4, <2>2, <2>3 DEF Carried
<1> QED BY <1>7, <1>8

LEMMA SwapCarries ==
  ASSUME IInv, StateInv, Swap
  PROVE  StateInv'
<1> SUFFICES ASSUME alive, NEW q \in Props, q \notin raced, Transferable(q), Carried(q)
             PROVE  Carried(q)'
  BY DEF StateInv, Swap, SwapBegins, SwapWaits, SwapStores, FreeOld, SwapEnds, SaveProp,
         RestoreProp, objVars, stateVars, Transferable
<1>1. made \in Objects /\ val \in [Objects -> [Props -> Values]] /\ snap \in [Props -> Values]
  BY DEF IInv, TypeOK
<1>2. (stage = "saving" => old = foreign) /\ (stage = "restoring" => foreign = made)
  <2>1. alive
    BY DEF Swap, SwapBegins, SwapWaits, SwapStores, FreeOld, SwapEnds, SaveProp,
           RestoreProp, objVars
  <2> QED BY <2>1 DEF IInv, Custody
<1>3. CASE SwapBegins
  BY <1>3 DEF Carried, SwapBegins, stateVars
<1>4. CASE SwapWaits
  BY <1>4 DEF Carried, SwapWaits, stateVars
<1>5. CASE SwapStores
  BY <1>5 DEF Carried, SwapStores, stateVars
<1>6. CASE FreeOld
  BY <1>6 DEF Carried, FreeOld, stateVars
<1>7. CASE SwapEnds
  BY <1>2, <1>7 DEF Carried, SwapEnds, objVars, stateVars
<1>8. ASSUME NEW p \in Props, SaveProp(p) PROVE Carried(q)'
  BY <1>1, <1>8 DEF Carried, SaveProp, Saved, objVars, stateVars
<1>9. ASSUME NEW p \in Props, RestoreProp(p) PROVE Carried(q)'
  <2> DEFINE n == snap[p]
  <2>1. /\ val' = [val EXCEPT ![made][p] = n] /\ left' = left \ {p}
        /\ UNCHANGED <<stage, snap, made, written>> /\ stage = "restoring" /\ p \in left
    BY <1>9 DEF RestoreProp, objVars
  <2>2. n \in Values
    BY <1>1
  <2>3. val'[made][q] = IF q = p THEN n ELSE val[made][q]
    <3> HIDE DEF n, Objects, Values
    <3> QED BY <1>1, <2>1, <2>2, PutValue
  <2> QED BY <2>1, <2>3 DEF Carried
<1> QED BY <1>3, <1>4, <1>5, <1>6, <1>7, <1>8, <1>9 DEF Swap

LEMMA StateStep ==
  ASSUME IInv, StateInv, [Next]_vars
  PROVE  StateInv'
<1>1. CASE UNCHANGED vars
  BY <1>1 DEF vars, objVars, swapVars, stateVars, StateInv, Carried, Transferable
<1>2. ASSUME NEW t \in Threads,
             Ask(t) \/ Enter(t) \/ Return(t) \/ Resolve(t) \/ Finish(t)
      PROVE  StateInv'
  BY <1>2 DEF Ask, Enter, Return, Resolve, Finish, objVars, swapVars, stateVars, StateInv, Carried,
              Transferable
<1>3. CASE Destroy
  BY <1>3 DEF Destroy, StateInv
<1> QED BY <1>1, <1>2, <1>3, WriteCarries, SwapCarries DEF Next

\* Between swaps a property holds what was last written to it, through any number of
\* swaps, if its value can be carried and no write of it fell between its save and its
\* restore.
THEOREM StateCarried == Spec => []StateKept
<1>1. Init => StateInv
  <2> SUFFICES ASSUME Init, NEW p \in Props PROVE Carried(p)
    BY DEF StateInv
  <2>1. 1 \in Objects
    OBVIOUS
  <2> QED BY <2>1 DEF Init, Carried
<1>2. IInv /\ StateInv => StateKept
  BY DEF StateInv, StateKept, Carried
<1> QED BY <1>1, <1>2, StateStep, Invariant, PTL DEF Spec
=============================================================================
