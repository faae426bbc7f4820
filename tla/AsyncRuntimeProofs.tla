-------------------------- MODULE AsyncRuntimeProofs --------------------------
(***************************************************************************)
(* Proofs about PLAsyncRuntime, for any number of futures: the type        *)
(* invariant, HandlesFreedOnce, ReportedOnce and NoPollAfterEnd.           *)
(*                                                                         *)
(* The argument: a callback is queued before its future leaves futures_,   *)
(* and in between only done_ids remembers it. So the inductive invariant   *)
(* says that a future that has a callback and is still in futures_ is in   *)
(* done_ids, which holds no other (AnsweredAreDone), and that the poll thread has finished with  *)
(* everything in done_ids (PassShape).                                     *)
(***************************************************************************)
EXTENDS AsyncRuntime, TLAPS

Answered == Ids(cbQueue) \cup Ids(local) \cup Ids(reported)

(* The poll thread's own variables hold together within a pass. *)
PassShape ==
    /\ pc # "poll" => cur = NoFuture
    /\ pc = "poll" => cur \in Submitted /\ cur \notin ids \cup done
    /\ pc \notin {"visit", "poll"} => ids = {} /\ done = {}
    /\ ids \cap done = {}

(* The main thread's batch is empty outside tick_main_thread(), and the    *)
(* poll thread exists exactly after start().                               *)
MainShape ==
    /\ main # "tick" => local = <<>>
    /\ main = "boot" => pc = "none"

OnlySubmitted == futures \cup ids \cup done \cup Answered \subseteq Submitted

AnsweredAreDone ==
    /\ Answered \cap futures \subseteq done
    /\ done \subseteq Answered

(* The poll thread holds no handle whose future has a callback anywhere.   *)
AnsweredNotPolled == pc = "poll" => cur \notin Answered

UnsubmittedNotFreed == \A f \in Futures \ Submitted : frees[f] = 0

IInv ==
    /\ TypeOK
    /\ PassShape
    /\ MainShape
    /\ OnlySubmitted
    /\ UnsubmittedNotFreed
    /\ HandlesFreedOnce
    /\ AnsweredAreDone
    /\ ReportedOnce
    /\ AnsweredNotPolled

-------------------------------------------------------------------------------
(* Appending a callback whose id is new adds that id and keeps the ids     *)
(* distinct: what push_done_callback and the dispatch do to a queue.       *)
LEMMA AppendIds ==
    ASSUME NEW s \in Seq(Callback), NEW c \in Callback
    PROVE  /\ Append(s, c) \in Seq(Callback)
           /\ Ids(Append(s, c)) = Ids(s) \cup {c.id}
           /\ Distinct(s) /\ c.id \notin Ids(s) => Distinct(Append(s, c))
<1> DEFINE t == Append(s, c)
<1>1. t \in Seq(Callback) /\ Len(t) = Len(s) + 1
  OBVIOUS
<1>2. /\ DOMAIN s = 1..Len(s)
      /\ DOMAIN t = 1..Len(s) + 1
      /\ \A i \in 1..Len(s) : t[i] = s[i]
      /\ t[Len(s) + 1] = c
      /\ Len(s) \in Nat
  BY <1>1
<1>3. Ids(t) = Ids(s) \cup {c.id}
  <2>1. ASSUME NEW x \in Ids(t) PROVE x \in Ids(s) \cup {c.id}
    <3>1. PICK i \in DOMAIN t : x = t[i].id
      BY <2>1 DEF Ids
    <3>2. CASE i = Len(s) + 1
      BY <3>1, <3>2, <1>2
    <3>3. CASE i # Len(s) + 1
      <4>1. i \in DOMAIN s /\ t[i] = s[i]
        BY <3>3, <1>2
      <4>2. QED BY <4>1, <3>1 DEF Ids
    <3>4. QED BY <3>2, <3>3
  <2>2. ASSUME NEW x \in Ids(s) PROVE x \in Ids(t)
    <3>1. PICK i \in DOMAIN s : x = s[i].id
      BY <2>2 DEF Ids
    <3>2. i \in DOMAIN t /\ t[i] = s[i]
      BY <1>2
    <3>3. QED BY <3>1, <3>2 DEF Ids
  <2>3. c.id \in Ids(t)
    <3>1. Len(s) + 1 \in DOMAIN t /\ t[Len(s) + 1].id = c.id
      BY <1>2
    <3>2. QED BY <3>1 DEF Ids
  <2>4. QED BY <2>1, <2>2, <2>3
<1>4. ASSUME Distinct(s), c.id \notin Ids(s) PROVE Distinct(t)
  <2>1. SUFFICES ASSUME NEW i \in DOMAIN t, NEW j \in DOMAIN t,
                        t[i].id = t[j].id, i # j
                 PROVE  FALSE
    BY DEF Distinct
  <2>2. \A k \in DOMAIN s : s[k].id # c.id
    BY <1>4 DEF Ids
  <2>3. CASE i \in DOMAIN s /\ j \in DOMAIN s
    <3>1. s[i].id = s[j].id
      BY <2>3, <2>1, <1>2
    <3>2. QED BY <3>1, <2>3, <2>1, <1>4 DEF Distinct
  <2>4. CASE i = Len(s) + 1
    <3>1. j \in DOMAIN s /\ t[j] = s[j] /\ t[i] = c
      BY <2>4, <2>1, <1>2
    <3>2. QED BY <3>1, <2>1, <2>2
  <2>5. CASE j = Len(s) + 1
    <3>1. i \in DOMAIN s /\ t[i] = s[i] /\ t[j] = c
      BY <2>5, <2>1, <1>2
    <3>2. QED BY <3>1, <2>1, <2>2
  <2>6. QED BY <2>3, <2>4, <2>5, <1>2
<1>5. QED BY <1>1, <1>3, <1>4

(* Taking the first callback off a queue of distinct ids takes exactly its *)
(* id away.                                                                *)
LEMMA TailIds ==
    ASSUME NEW s \in Seq(Callback), s # <<>>
    PROVE  /\ Tail(s) \in Seq(Callback)
           /\ Head(s) \in Callback
           /\ Head(s).id \in Ids(s)
           /\ Distinct(s) => /\ Ids(Tail(s)) = Ids(s) \ {Head(s).id}
                             /\ Distinct(Tail(s))
<1> DEFINE t == Tail(s)
<1>1. /\ Len(s) \in Nat \ {0}
      /\ DOMAIN s = 1..Len(s)
      /\ Len(t) = Len(s) - 1
      /\ DOMAIN t = 1..(Len(s) - 1)
      /\ \A i \in 1..(Len(s) - 1) : t[i] = s[i + 1]
      /\ Head(s) = s[1]
      /\ t \in Seq(Callback)
  OBVIOUS
<1>2. 1 \in DOMAIN s /\ Head(s) \in Callback
  BY <1>1
<1>3. Head(s).id \in Ids(s)
  BY <1>1, <1>2 DEF Ids
<1>4. ASSUME Distinct(s) PROVE Ids(t) = Ids(s) \ {Head(s).id}
  <2>1. ASSUME NEW x \in Ids(t) PROVE x \in Ids(s) /\ x # Head(s).id
    <3>1. PICK i \in DOMAIN t : x = t[i].id
      BY <2>1 DEF Ids
    <3>2. i + 1 \in DOMAIN s /\ x = s[i + 1].id /\ i + 1 # 1
      BY <3>1, <1>1
    <3>3. x \in Ids(s)
      BY <3>2 DEF Ids
    <3>4. s[i + 1].id # s[1].id
      BY <3>2, <1>2, <1>4 DEF Distinct
    <3>5. QED BY <3>2, <3>3, <3>4, <1>1
  <2>2. ASSUME NEW x \in Ids(s), x # Head(s).id PROVE x \in Ids(t)
    <3>1. PICK i \in DOMAIN s : x = s[i].id
      BY <2>2 DEF Ids
    <3>2. i # 1
      BY <3>1, <2>2, <1>1
    <3>3. i - 1 \in DOMAIN t /\ t[i - 1] = s[i]
      BY <3>2, <1>1
    <3>4. QED BY <3>1, <3>3 DEF Ids
  <2>3. QED BY <2>1, <2>2
<1>5. ASSUME Distinct(s) PROVE Distinct(t)
  <2>1. SUFFICES ASSUME NEW i \in DOMAIN t, NEW j \in DOMAIN t,
                        t[i].id = t[j].id
                 PROVE  i = j
    BY DEF Distinct
  <2>2. /\ i + 1 \in DOMAIN s /\ j + 1 \in DOMAIN s
        /\ s[i + 1].id = s[j + 1].id
    BY <2>1, <1>1
  <2>3. i + 1 = j + 1
    BY <2>2, <1>5 DEF Distinct
  <2>4. QED BY <2>3, <1>1
<1>6. QED BY <1>1, <1>2, <1>3, <1>4, <1>5

LEMMA EmptyQueue == Ids(<<>>) = {} /\ Distinct(<<>>) /\ <<>> \in Seq(Callback)
  BY DEF Ids, Distinct

-------------------------------------------------------------------------------
LEMMA InitIInv == Init => IInv
<1> SUFFICES ASSUME Init PROVE IInv
  OBVIOUS
<1> USE MaxFuturesAssumption DEF Init
<1>1. Ids(cbQueue) = {} /\ Ids(local) = {} /\ Ids(reported) = {}
  BY EmptyQueue
<1>2. TypeOK
  <2>1. nextId \in 1..(MaxFutures + 1)
    OBVIOUS
  <2>2. frees \in [Futures -> Nat] /\ answer \in [Futures -> {"pending", "ok", "error"}]
    OBVIOUS
  <2>3. cbQueue \in Seq(Callback) /\ local \in Seq(Callback) /\ reported \in Seq(Callback)
    BY EmptyQueue
  <2>4. QED BY <2>1, <2>2, <2>3 DEF TypeOK
<1>3. ReportedOnce
  BY <1>1, EmptyQueue DEF ReportedOnce
<1>4. PassShape /\ MainShape /\ AnsweredNotPolled
  BY DEF PassShape, MainShape, AnsweredNotPolled
<1>5. OnlySubmitted /\ AnsweredAreDone
  BY <1>1 DEF OnlySubmitted, AnsweredAreDone, Answered
<1>6. UnsubmittedNotFreed /\ HandlesFreedOnce
  BY DEF UnsubmittedNotFreed, HandlesFreedOnce, Submitted, Futures
<1>7. QED BY <1>2, <1>3, <1>4, <1>5, <1>6 DEF IInv

(* What IInv says of the three containers stays true of a step that leaves *)
(* them alone.                                                             *)
LEMMA QueuesUnchanged ==
    ASSUME UNCHANGED <<cbQueue, local, reported>>
    PROVE  /\ Ids(cbQueue)' = Ids(cbQueue)
           /\ Ids(local)' = Ids(local)
           /\ Ids(reported)' = Ids(reported)
           /\ Answered' = Answered
           /\ ReportedOnce' <=> ReportedOnce
  BY DEF Answered, ReportedOnce, Ids, Distinct

LEMMA SubmittedFacts ==
    ASSUME TypeOK
    PROVE  /\ Submitted \subseteq Futures
           /\ nextId \notin Submitted
           /\ NoFuture \notin Futures
  BY MaxFuturesAssumption DEF TypeOK, Submitted, Futures, NoFuture

LEMMA SubmitStep == IInv /\ Submit => IInv'
<1> SUFFICES ASSUME IInv, Submit PROVE IInv'
  OBVIOUS
<1> USE MaxFuturesAssumption DEF IInv, Submit, pollVars, mainVars
<1>1. Submitted' = Submitted \cup {nextId} /\ nextId \in Futures \ Submitted
  BY DEF TypeOK, Submitted, Futures
<1>2. Answered' = Answered /\ ReportedOnce'
  BY QueuesUnchanged
<1>3. TypeOK'
  BY <1>1 DEF TypeOK, Futures
<1>4. PassShape' /\ MainShape'
  BY <1>1 DEF PassShape, MainShape
<1>5. OnlySubmitted'
  BY <1>1, <1>2 DEF OnlySubmitted
<1>6. UnsubmittedNotFreed'
  BY <1>1 DEF UnsubmittedNotFreed
<1>7. HandlesFreedOnce'
  BY <1>1 DEF HandlesFreedOnce, UnsubmittedNotFreed
<1>8. AnsweredAreDone'
  BY <1>1, <1>2 DEF AnsweredAreDone, OnlySubmitted
<1>9. AnsweredNotPolled'
  BY QueuesUnchanged DEF AnsweredNotPolled
<1>10. QED BY <1>2, <1>3, <1>4, <1>5, <1>6, <1>7, <1>8, <1>9

LEMMA CancelStep == ASSUME NEW f \in Futures PROVE IInv /\ Cancel(f) => IInv'
<1> SUFFICES ASSUME IInv, Cancel(f) PROVE IInv'
  OBVIOUS
<1> USE DEF IInv, Cancel, pollVars, mainVars
<1>1. Submitted' = Submitted /\ Answered' = Answered /\ ReportedOnce'
  BY QueuesUnchanged DEF Submitted
<1>2. TypeOK'
  BY DEF TypeOK, FreeHandles
<1>3. PassShape' /\ MainShape'
  BY <1>1 DEF PassShape, MainShape
<1>4. OnlySubmitted' /\ AnsweredAreDone'
  BY <1>1 DEF OnlySubmitted, AnsweredAreDone
<1>5. UnsubmittedNotFreed'
  BY <1>1 DEF UnsubmittedNotFreed, FreeHandles, OnlySubmitted
<1>6. HandlesFreedOnce'
  BY <1>1, SubmittedFacts DEF HandlesFreedOnce, FreeHandles, OnlySubmitted
<1>7. AnsweredNotPolled'
  BY QueuesUnchanged DEF AnsweredNotPolled
<1>8. QED BY <1>1, <1>2, <1>3, <1>4, <1>5, <1>6, <1>7

LEMMA AdapterStep ==
    ASSUME NEW f \in Futures PROVE IInv /\ AdapterSettles(f) => IInv'
<1> SUFFICES ASSUME IInv, AdapterSettles(f) PROVE IInv'
  OBVIOUS
<1> USE DEF IInv, AdapterSettles, pollVars, mainVars
<1>1. Submitted' = Submitted /\ Answered' = Answered /\ ReportedOnce'
  BY QueuesUnchanged DEF Submitted
<1>2. TypeOK'
  BY DEF TypeOK
<1>3. PassShape' /\ MainShape'
  BY <1>1 DEF PassShape, MainShape
<1>4. /\ OnlySubmitted' /\ AnsweredAreDone'
      /\ UnsubmittedNotFreed' /\ HandlesFreedOnce'
  BY <1>1 DEF OnlySubmitted, AnsweredAreDone, UnsubmittedNotFreed, HandlesFreedOnce
<1>5. AnsweredNotPolled'
  BY QueuesUnchanged DEF AnsweredNotPolled
<1>6. QED BY <1>1, <1>2, <1>3, <1>4, <1>5

LEMMA PollWakeStep == IInv /\ PollWake => IInv'
<1> SUFFICES ASSUME IInv, PollWake PROVE IInv'
  OBVIOUS
<1> USE DEF IInv, PollWake, AfterWait, mainVars
<1>1. Submitted' = Submitted /\ Answered' = Answered /\ ReportedOnce'
  BY QueuesUnchanged DEF Submitted
<1>2. TypeOK'
  BY DEF TypeOK
<1>3. PassShape' /\ MainShape'
  BY <1>1 DEF PassShape, MainShape
<1>4. OnlySubmitted' /\ AnsweredAreDone'
  BY <1>1 DEF OnlySubmitted, AnsweredAreDone, PassShape
<1>5. UnsubmittedNotFreed' /\ HandlesFreedOnce'
  BY <1>1 DEF UnsubmittedNotFreed, HandlesFreedOnce
<1>6. AnsweredNotPolled'
  BY QueuesUnchanged DEF AnsweredNotPolled
<1>7. QED BY <1>1, <1>2, <1>3, <1>4, <1>5, <1>6

LEMMA PollSnapshotStep == IInv /\ PollSnapshot => IInv'
<1> SUFFICES ASSUME IInv, PollSnapshot PROVE IInv'
  OBVIOUS
<1> USE DEF IInv, PollSnapshot, mainVars
<1>1. Submitted' = Submitted /\ Answered' = Answered /\ ReportedOnce'
  BY QueuesUnchanged DEF Submitted
<1>2. TypeOK'
  BY DEF TypeOK
<1>3. PassShape' /\ MainShape'
  BY <1>1 DEF PassShape, MainShape
<1>4. OnlySubmitted' /\ AnsweredAreDone'
  BY <1>1 DEF OnlySubmitted, AnsweredAreDone, PassShape
<1>5. UnsubmittedNotFreed' /\ HandlesFreedOnce'
  BY <1>1 DEF UnsubmittedNotFreed, HandlesFreedOnce
<1>6. AnsweredNotPolled'
  BY QueuesUnchanged DEF AnsweredNotPolled
<1>7. QED BY <1>1, <1>2, <1>3, <1>4, <1>5, <1>6

LEMMA StartStep == IInv /\ Start => IInv'
<1> SUFFICES ASSUME IInv, Start PROVE IInv'
  OBVIOUS
<1> USE DEF IInv, Start
<1>1. Submitted' = Submitted /\ Answered' = Answered /\ ReportedOnce'
  BY QueuesUnchanged DEF Submitted
<1>2. TypeOK'
  BY DEF TypeOK
<1>3. PassShape' /\ MainShape'
  BY <1>1 DEF PassShape, MainShape
<1>4. OnlySubmitted' /\ AnsweredAreDone'
  BY <1>1 DEF OnlySubmitted, AnsweredAreDone, PassShape
<1>5. UnsubmittedNotFreed' /\ HandlesFreedOnce'
  BY <1>1 DEF UnsubmittedNotFreed, HandlesFreedOnce
<1>6. AnsweredNotPolled'
  BY QueuesUnchanged DEF AnsweredNotPolled
<1>7. QED BY <1>1, <1>2, <1>3, <1>4, <1>5, <1>6

LEMMA StopRequestStep == IInv /\ StopRequest => IInv'
<1> SUFFICES ASSUME IInv, StopRequest PROVE IInv'
  OBVIOUS
<1> USE DEF IInv, StopRequest, pollVars
<1>1. Submitted' = Submitted /\ Answered' = Answered /\ ReportedOnce'
  BY QueuesUnchanged DEF Submitted
<1>2. TypeOK'
  BY DEF TypeOK
<1>3. PassShape' /\ MainShape'
  BY <1>1 DEF PassShape, MainShape
<1>4. OnlySubmitted' /\ AnsweredAreDone'
  BY <1>1 DEF OnlySubmitted, AnsweredAreDone, PassShape
<1>5. UnsubmittedNotFreed' /\ HandlesFreedOnce'
  BY <1>1 DEF UnsubmittedNotFreed, HandlesFreedOnce
<1>6. AnsweredNotPolled'
  BY QueuesUnchanged DEF AnsweredNotPolled
<1>7. QED BY <1>1, <1>2, <1>3, <1>4, <1>5, <1>6

(* The heart of AnsweredNotPolled: a future found in futures_ during the   *)
(* visit cannot have a callback, for then it would be in done_ids, and the *)
(* snapshot never holds an id that is already in done_ids.                 *)
LEMMA PollLookupStep ==
    ASSUME NEW f \in Futures PROVE IInv /\ PollLookup(f) => IInv'
<1> SUFFICES ASSUME IInv, PollLookup(f) PROVE IInv'
  OBVIOUS
<1> USE DEF IInv, PollLookup, StillThere, mainVars
<1>1. Submitted' = Submitted /\ Answered' = Answered /\ ReportedOnce'
  BY QueuesUnchanged DEF Submitted
<1>2. TypeOK'
  BY DEF TypeOK
<1>3. PassShape'
  BY <1>1 DEF PassShape, OnlySubmitted
<1>4. MainShape' /\ OnlySubmitted' /\ AnsweredAreDone'
  BY <1>1 DEF MainShape, OnlySubmitted, AnsweredAreDone
<1>5. UnsubmittedNotFreed' /\ HandlesFreedOnce'
  BY <1>1 DEF UnsubmittedNotFreed, HandlesFreedOnce
<1>6. AnsweredNotPolled'
  <2>1. f \in futures => f \notin Answered
    BY DEF AnsweredAreDone, PassShape
  <2>2. pc' = "poll" => cur' \notin Answered
    BY <2>1
  <2>3. QED BY <2>2, QueuesUnchanged DEF AnsweredNotPolled, Answered
<1>7. QED BY <1>1, <1>2, <1>3, <1>4, <1>5, <1>6

LEMMA PollCallStep == IInv /\ PollCall => IInv'
<1> SUFFICES ASSUME IInv, PollCall PROVE IInv'
  OBVIOUS
<1> USE DEF IInv
<1>1. PICK rc \in {"pending", "ok", "error"} :
        /\ rc # "pending" =>
             /\ cbQueue' = Append(cbQueue, [id |-> cur,
                              result |-> IF rc = "ok" THEN "value" ELSE "nil"])
             /\ done' = done \cup {cur}
        /\ rc = "pending" => cbQueue' = cbQueue /\ done' = done
  BY DEF PollCall, PollAnswers, NotifiedCodes, RetiredCodes, TypeOK
<1>2. /\ pc = "poll" /\ pc' = "visit" /\ cur' = NoFuture
      /\ UNCHANGED <<nextId, futures, frees, answer, running, ids, main, local,
                     reported, cancelled>>
  BY DEF PollCall, mainVars
<1>3. /\ Submitted' = Submitted /\ Ids(local)' = Ids(local)
      /\ Ids(reported)' = Ids(reported)
      /\ Distinct(local)' = Distinct(local)
      /\ Distinct(reported)' = Distinct(reported)
  BY <1>2 DEF Submitted, Ids, Distinct
<1>4. cur \in Submitted /\ cur \in Futures /\ cur \notin Answered
  BY <1>2, SubmittedFacts DEF PassShape, AnsweredNotPolled, Answered
<1>5. /\ cbQueue' \in Seq(Callback)
      /\ Distinct(cbQueue)'
      /\ Ids(cbQueue)' = Ids(cbQueue) \cup (IF rc = "pending" THEN {} ELSE {cur})
  <2>1. CASE rc = "pending"
    BY <2>1, <1>1 DEF TypeOK, ReportedOnce
  <2>2. CASE rc # "pending"
    <3> DEFINE c == [id |-> cur, result |-> IF rc = "ok" THEN "value" ELSE "nil"]
    <3>1. c \in Callback /\ c.id = cur
      BY <1>4 DEF Callback, Results
    <3>2. cbQueue \in Seq(Callback) /\ Distinct(cbQueue) /\ cur \notin Ids(cbQueue)
      BY <1>4 DEF TypeOK, ReportedOnce, Answered
    <3> HIDE DEF c
    <3>3. /\ Append(cbQueue, c) \in Seq(Callback)
          /\ Ids(Append(cbQueue, c)) = Ids(cbQueue) \cup {cur}
          /\ Distinct(Append(cbQueue, c))
      BY <3>1, <3>2, AppendIds
    <3>4. cbQueue' = Append(cbQueue, c)
      BY <2>2, <1>1 DEF c
    <3>5. QED BY <3>3, <3>4, <2>2
  <2>3. QED BY <2>1, <2>2
<1>6. done' = done \cup (IF rc = "pending" THEN {} ELSE {cur})
  BY <1>1
<1>7. Answered' = Answered \cup (IF rc = "pending" THEN {} ELSE {cur})
  BY <1>3, <1>5 DEF Answered
<1>8. TypeOK'
  BY <1>2, <1>4, <1>5, <1>6 DEF TypeOK
<1>9. PassShape' /\ MainShape'
  BY <1>2, <1>3, <1>6 DEF PassShape, MainShape
<1>10. OnlySubmitted' /\ AnsweredAreDone'
  BY <1>2, <1>3, <1>4, <1>6, <1>7 DEF OnlySubmitted, AnsweredAreDone
<1>11. UnsubmittedNotFreed' /\ HandlesFreedOnce' /\ AnsweredNotPolled'
  BY <1>2, <1>3 DEF UnsubmittedNotFreed, HandlesFreedOnce, AnsweredNotPolled
<1>12. ReportedOnce'
  BY <1>3, <1>4, <1>5 DEF ReportedOnce, Answered
<1>13. QED BY <1>8, <1>9, <1>10, <1>11, <1>12

LEMMA PollCleanupStep == IInv /\ PollCleanup => IInv'
<1> SUFFICES ASSUME IInv, PollCleanup PROVE IInv'
  OBVIOUS
<1> USE DEF IInv, PollCleanup, DoneStillThere, mainVars
<1>1. Submitted' = Submitted /\ Answered' = Answered /\ ReportedOnce'
  BY QueuesUnchanged DEF Submitted
<1>2. TypeOK'
  BY DEF TypeOK, FreeHandles
<1>3. PassShape' /\ MainShape'
  BY <1>1 DEF PassShape, MainShape
<1>4. OnlySubmitted' /\ AnsweredAreDone'
  BY <1>1 DEF OnlySubmitted, AnsweredAreDone
<1>5. UnsubmittedNotFreed'
  BY <1>1 DEF UnsubmittedNotFreed, FreeHandles, OnlySubmitted
<1>6. HandlesFreedOnce'
  BY <1>1, SubmittedFacts DEF HandlesFreedOnce, FreeHandles
<1>7. AnsweredNotPolled'
  BY QueuesUnchanged DEF AnsweredNotPolled
<1>8. QED BY <1>1, <1>2, <1>3, <1>4, <1>5, <1>6, <1>7

LEMMA TickSwapStep == IInv /\ TickSwap => IInv'
<1> SUFFICES ASSUME IInv, TickSwap PROVE IInv'
  OBVIOUS
<1> USE DEF IInv, TickSwap, QueueAfterSwap, pollVars
<1>1. /\ Ids(cbQueue)' = {} /\ Distinct(cbQueue)'
      /\ Ids(local)' = Ids(cbQueue) /\ Distinct(local)' = Distinct(cbQueue)
      /\ Ids(reported)' = Ids(reported) /\ Distinct(reported)' = Distinct(reported)
      /\ Ids(local) = {}
  BY EmptyQueue DEF MainShape, Ids, Distinct
<1>2. Submitted' = Submitted /\ Answered' = Answered
  BY <1>1 DEF Submitted, Answered
<1>3. ReportedOnce'
  BY <1>1 DEF ReportedOnce
<1>4. TypeOK'
  BY EmptyQueue DEF TypeOK
<1>5. PassShape' /\ MainShape'
  BY <1>2 DEF PassShape, MainShape
<1>6. OnlySubmitted' /\ AnsweredAreDone'
  BY <1>2 DEF OnlySubmitted, AnsweredAreDone
<1>7. UnsubmittedNotFreed' /\ HandlesFreedOnce'
  BY <1>2 DEF UnsubmittedNotFreed, HandlesFreedOnce
<1>8. AnsweredNotPolled'
  BY <1>1 DEF AnsweredNotPolled, Answered
<1>9. QED BY <1>3, <1>4, <1>5, <1>6, <1>7, <1>8

LEMMA TickReportStep == IInv /\ TickReport => IInv'
<1> SUFFICES ASSUME IInv, TickReport PROVE IInv'
  OBVIOUS
<1> DEFINE c == Head(local)
<1> USE DEF IInv, pollVars
<1>1. /\ local # <<>> /\ local' = Tail(local) /\ reported' = Append(reported, c)
      /\ main' = IF Tail(local) = <<>> THEN "idle" ELSE "tick"
      /\ UNCHANGED <<nextId, futures, frees, answer, running, pc, ids, cur, done,
                     cbQueue, cancelled>>
  BY DEF TickReport
<1>2. local \in Seq(Callback) /\ Distinct(local)
  BY DEF TypeOK, ReportedOnce
<1>3. /\ Tail(local) \in Seq(Callback) /\ c \in Callback /\ c.id \in Ids(local)
      /\ Ids(Tail(local)) = Ids(local) \ {c.id} /\ Distinct(Tail(local))
  BY <1>1, <1>2, TailIds
<1>4. reported \in Seq(Callback) /\ Distinct(reported) /\ c.id \notin Ids(reported)
  BY <1>3 DEF TypeOK, ReportedOnce
<1> HIDE DEF c
<1>5. /\ Append(reported, c) \in Seq(Callback) /\ Distinct(Append(reported, c))
      /\ Ids(Append(reported, c)) = Ids(reported) \cup {c.id}
  BY <1>3, <1>4, AppendIds
<1>6. /\ Submitted' = Submitted
      /\ Ids(cbQueue)' = Ids(cbQueue) /\ Distinct(cbQueue)' = Distinct(cbQueue)
  BY <1>1 DEF Submitted, Ids, Distinct
<1>7. /\ Ids(local)' = Ids(local) \ {c.id} /\ Distinct(local)'
      /\ Ids(reported)' = Ids(reported) \cup {c.id} /\ Distinct(reported)'
  BY <1>1, <1>3, <1>5
<1>8. Answered' = Answered
  BY <1>3, <1>6, <1>7 DEF Answered
<1>9. ReportedOnce'
  BY <1>3, <1>6, <1>7 DEF ReportedOnce
<1>10. TypeOK'
  BY <1>1, <1>3, <1>5 DEF TypeOK
<1>11. PassShape' /\ MainShape'
  BY <1>1, <1>6 DEF PassShape, MainShape, TickReport
<1>12. OnlySubmitted' /\ AnsweredAreDone'
  BY <1>1, <1>6, <1>8 DEF OnlySubmitted, AnsweredAreDone
<1>13. UnsubmittedNotFreed' /\ HandlesFreedOnce'
  BY <1>1, <1>6 DEF UnsubmittedNotFreed, HandlesFreedOnce
<1>14. AnsweredNotPolled'
  BY <1>1, <1>8 DEF AnsweredNotPolled, Answered
<1>15. QED BY <1>9, <1>10, <1>11, <1>12, <1>13, <1>14

LEMMA StopDrainStep == IInv /\ StopDrain => IInv'
<1> SUFFICES ASSUME IInv, StopDrain PROVE IInv'
  OBVIOUS
<1> USE DEF IInv, StopDrain, pollVars
<1>1. /\ Ids(cbQueue)' = {} /\ Distinct(cbQueue)'
      /\ Ids(local)' = Ids(local) /\ Distinct(local)' = Distinct(local)
      /\ Ids(reported)' = Ids(reported) /\ Distinct(reported)' = Distinct(reported)
  BY EmptyQueue DEF Ids, Distinct
<1>2. Submitted' = Submitted /\ Answered' \subseteq Answered
  BY <1>1 DEF Submitted, Answered
<1>3. ReportedOnce'
  BY <1>1 DEF ReportedOnce
<1>4. TypeOK'
  BY EmptyQueue DEF TypeOK, FreeHandles
<1>5. PassShape' /\ MainShape'
  BY <1>2 DEF PassShape, MainShape
<1>6. OnlySubmitted' /\ AnsweredAreDone'
  BY <1>2 DEF OnlySubmitted, AnsweredAreDone, PassShape
<1>7. UnsubmittedNotFreed'
  BY <1>2 DEF UnsubmittedNotFreed, FreeHandles, OnlySubmitted
<1>8. HandlesFreedOnce'
  BY <1>2, SubmittedFacts DEF HandlesFreedOnce, FreeHandles
<1>9. AnsweredNotPolled'
  BY <1>1 DEF AnsweredNotPolled
<1>10. QED BY <1>3, <1>4, <1>5, <1>6, <1>7, <1>8, <1>9

LEMMA StutterStep == IInv /\ UNCHANGED vars => IInv'
<1> SUFFICES ASSUME IInv, UNCHANGED vars PROVE IInv'
  OBVIOUS
<1>1. ReportedOnce' /\ Answered' = Answered /\ Submitted' = Submitted
  BY QueuesUnchanged DEF vars, IInv, Submitted
<1>2. TypeOK' /\ PassShape' /\ MainShape'
  BY <1>1 DEF vars, IInv, TypeOK, PassShape, MainShape
<1>3. /\ OnlySubmitted' /\ AnsweredAreDone'
      /\ UnsubmittedNotFreed' /\ HandlesFreedOnce'
  BY <1>1 DEF vars, IInv, OnlySubmitted, AnsweredAreDone, UnsubmittedNotFreed,
              HandlesFreedOnce
<1>4. AnsweredNotPolled'
  BY QueuesUnchanged DEF vars, IInv, AnsweredNotPolled
<1>5. QED BY <1>1, <1>2, <1>3, <1>4 DEF IInv

LEMMA NextIInv == IInv /\ [Next]_vars => IInv'
<1> SUFFICES ASSUME IInv, [Next]_vars PROVE IInv'
  OBVIOUS
<1>1. CASE Submit
  BY <1>1, SubmitStep
<1>2. ASSUME NEW f \in Futures, Cancel(f) PROVE IInv'
  BY <1>2, CancelStep
<1>3. ASSUME NEW f \in Futures, AdapterSettles(f) PROVE IInv'
  BY <1>3, AdapterStep
<1>4. CASE Poll
  <2>1. ASSUME NEW f \in Futures, PollLookup(f) PROVE IInv'
    BY <2>1, PollLookupStep
  <2>2. QED BY <1>4, <2>1, PollWakeStep, PollSnapshotStep, PollCallStep,
               PollCleanupStep DEF Poll
<1>5. CASE Main
  BY <1>5, StartStep, TickSwapStep, TickReportStep, StopRequestStep, StopDrainStep
     DEF Main
<1>6. CASE UNCHANGED vars
  BY <1>6, StutterStep
<1>7. QED BY <1>1, <1>2, <1>3, <1>4, <1>5, <1>6 DEF Next

-------------------------------------------------------------------------------
THEOREM Invariance == Spec => []IInv
<1>1. Init => IInv
  BY InitIInv
<1>2. IInv /\ [Next]_vars => IInv'
  BY NextIInv
<1>3. QED BY <1>1, <1>2, PTL DEF Spec

(* Every variable of the runtime keeps its type. *)
THEOREM TypeCorrect == Spec => []TypeOK
<1>1. IInv => TypeOK
  BY DEF IInv
<1>2. QED BY <1>1, Invariance, PTL

(* cancel(), the poll thread's cleanup and stop() between them free every  *)
(* handle exactly once, for any number of futures.                         *)
THEOREM FreedOnce == Spec => []HandlesFreedOnce
<1>1. IInv => HandlesFreedOnce
  BY DEF IInv
<1>2. QED BY <1>1, Invariance, PTL

(* on_done runs at most once for a future. *)
THEOREM AtMostOneReport == Spec => []ReportedOnce
<1>1. IInv => ReportedOnce
  BY DEF IInv
<1>2. QED BY <1>1, Invariance, PTL

(* What the poll thread polls is in futures_, or a cancel() erased it.     *)
PolledOrCancelled == pc = "poll" => cur \in futures \cup cancelled

LEMMA PolledStep == IInv /\ PolledOrCancelled /\ [Next]_vars => PolledOrCancelled'
<1> SUFFICES ASSUME IInv, PolledOrCancelled, [Next]_vars, pc' = "poll"
             PROVE  cur' \in futures' \cup cancelled'
  BY DEF PolledOrCancelled
<1> USE DEF PolledOrCancelled, pollVars, mainVars
<1>1. CASE Submit \/ UNCHANGED vars
  BY <1>1 DEF Submit, vars
<1>2. ASSUME NEW f \in Futures, Cancel(f) \/ AdapterSettles(f)
      PROVE  cur' \in futures' \cup cancelled'
  BY <1>2 DEF Cancel, AdapterSettles
<1>3. CASE Poll
  BY <1>3 DEF Poll, PollWake, AfterWait, PollSnapshot, PollLookup, StillThere, PollCall,
              PollCleanup, IInv, PassShape
<1>4. CASE Main
  BY <1>4 DEF Main, Start, TickSwap, TickReport, StopRequest, StopDrain
<1>5. QED BY <1>1, <1>2, <1>3, <1>4 DEF Next

(* A future that has answered is not polled again, and a handle that is    *)
(* freed while it is polled was freed by cancel().                         *)
THEOREM NoPollAfter == Spec => []NoPollAfterEnd
<1>1. Init => PolledOrCancelled
  BY DEF Init, PolledOrCancelled
<1>2. IInv /\ PolledOrCancelled => NoPollAfterEnd
  BY DEF IInv, PassShape, HandlesFreedOnce, AnsweredNotPolled, Answered,
         PolledOrCancelled, NoPollAfterEnd
<1>3. QED BY <1>1, <1>2, Invariance, PolledStep, PTL DEF Spec

-------------------------------------------------------------------------------
(* The refinement. Each lemma maps the steps of one action to a step of    *)
(* FutureContract, or to no step.                                          *)

(* Steps that touch neither futures_ nor a queue, and do not leave a poll. *)
LEMMA SilentStep ==
    ASSUME UNCHANGED <<nextId, futures, cbQueue, local, reported>>,
           \A f \in futures' \cup Futures :
              (f \in futures \/ (pc = "poll" /\ cur = f))
                <=> (f \in futures' \/ (pc' = "poll" /\ cur' = f))
    PROVE  UNCHANGED Promise
  BY QueuesUnchanged DEF Promise, Submitted, Answered

LEMMA SubmitMaps == IInv /\ Submit => Contract!Next
<1> SUFFICES ASSUME IInv, Submit PROVE Contract!Next
  OBVIOUS
<1>1. /\ Submitted' = Submitted \cup {nextId}
      /\ nextId \in Futures \ Submitted
  BY MaxFuturesAssumption DEF IInv, TypeOK, Submitted, Futures, Submit
<1>2. /\ Ids(cbQueue)' = Ids(cbQueue) /\ Ids(local)' = Ids(local)
      /\ Ids(reported)' = Ids(reported)
  BY QueuesUnchanged DEF Submit, mainVars
<1>3. nextId \notin Answered
  BY <1>1 DEF IInv, OnlySubmitted
<1>4. Promise[nextId] = "none"
  BY <1>1 DEF Promise
<1>5. Promise' = [Promise EXCEPT ![nextId] = "pending"]
  BY <1>1, <1>2, <1>3 DEF Promise, Answered, Submit, pollVars
<1>6. QED BY <1>1, <1>4, <1>5 DEF Contract!Next, Contract!Submit, Contract!Move

LEMMA CancelMaps ==
    ASSUME NEW f \in Futures
    PROVE  IInv /\ Cancel(f) => Contract!Next \/ UNCHANGED Promise
<1> SUFFICES ASSUME IInv, Cancel(f) PROVE Contract!Next \/ UNCHANGED Promise
  OBVIOUS
<1> USE DEF Cancel, pollVars
<1>1. /\ Ids(cbQueue)' = Ids(cbQueue) /\ Ids(local)' = Ids(local)
      /\ Ids(reported)' = Ids(reported) /\ Submitted' = Submitted
  BY QueuesUnchanged DEF Submitted
<1>2. f \in Submitted
  BY DEF IInv, OnlySubmitted
<1>3. CASE f \in Answered \/ (pc = "poll" /\ cur = f)
  BY <1>1, <1>3 DEF Promise, Answered
<1>4. CASE ~(f \in Answered \/ (pc = "poll" /\ cur = f))
  <2>1. Promise[f] = "pending"
    BY <1>2, <1>4 DEF Promise, Answered
  <2>2. Promise' = [g \in Futures |-> IF g \in {f} THEN "dropped" ELSE Promise[g]]
    BY <1>1, <1>2, <1>4 DEF Promise, Answered
  <2>3. Contract!Drop({f})
    BY <2>1, <2>2 DEF Contract!Drop
  <2>4. QED BY <2>3 DEF Contract!Next
<1>5. QED BY <1>3, <1>4

LEMMA PollCallMaps == IInv /\ PollCall => Contract!Next \/ UNCHANGED Promise
<1> SUFFICES ASSUME IInv, PollCall PROVE Contract!Next \/ UNCHANGED Promise
  OBVIOUS
<1>1. PICK rc \in {"pending", "ok", "error"} :
        /\ rc # "pending" =>
             cbQueue' = Append(cbQueue, [id |-> cur,
                          result |-> IF rc = "ok" THEN "value" ELSE "nil"])
        /\ rc = "pending" => cbQueue' = cbQueue
  BY DEF PollCall, PollAnswers, NotifiedCodes, IInv, TypeOK
<1>2. /\ pc = "poll" /\ pc' = "visit"
      /\ UNCHANGED <<nextId, futures, local, reported>>
  BY DEF PollCall, mainVars
<1>3. /\ Submitted' = Submitted /\ Ids(local)' = Ids(local)
      /\ Ids(reported)' = Ids(reported)
  BY <1>2 DEF Submitted, Ids
<1>4. cur \in Submitted /\ cur \in Futures /\ cur \notin Answered
  BY <1>2, SubmittedFacts DEF IInv, PassShape, AnsweredNotPolled, Answered
<1>5. Promise[cur] = "pending"
  BY <1>2, <1>4 DEF Promise, Answered
<1>6. CASE rc = "pending"
  <2>1. Ids(cbQueue)' = Ids(cbQueue)
    BY <1>1, <1>6
  <2>2. CASE cur \in futures
    BY <2>1, <2>2, <1>2, <1>3 DEF Promise
  <2>3. CASE cur \notin futures
    <3>1. Promise' = [g \in Futures |->
                        IF g \in {cur} THEN "dropped" ELSE Promise[g]]
      BY <2>1, <2>3, <1>2, <1>3, <1>4 DEF Promise, Answered
    <3>2. Contract!Drop({cur})
      BY <3>1, <1>5 DEF Contract!Drop
    <3>3. QED BY <3>2, <1>4 DEF Contract!Next
  <2>4. QED BY <2>2, <2>3
<1>7. CASE rc # "pending"
  <2> DEFINE c == [id |-> cur, result |-> IF rc = "ok" THEN "value" ELSE "nil"]
  <2>1. c \in Callback /\ c.id = cur /\ cbQueue \in Seq(Callback)
    BY <1>4 DEF Callback, Results, IInv, TypeOK
  <2> HIDE DEF c
  <2>2. Ids(Append(cbQueue, c)) = Ids(cbQueue) \cup {cur}
    BY <2>1, AppendIds
  <2>3. Ids(cbQueue)' = Ids(cbQueue) \cup {cur}
    BY <2>2, <1>1, <1>7 DEF c
  <2>4. Promise' = [Promise EXCEPT ![cur] = "settled"]
    BY <2>3, <1>2, <1>3, <1>4 DEF Promise, Answered
  <2>5. QED BY <2>4, <1>4, <1>5 DEF Contract!Next, Contract!Settle, Contract!Move
<1>8. QED BY <1>6, <1>7

LEMMA PollCleanupMaps == IInv /\ PollCleanup => UNCHANGED Promise
<1> SUFFICES ASSUME IInv, PollCleanup PROVE UNCHANGED Promise
  OBVIOUS
<1> USE DEF PollCleanup, mainVars
<1>1. /\ Ids(cbQueue)' = Ids(cbQueue) /\ Ids(local)' = Ids(local)
      /\ Ids(reported)' = Ids(reported) /\ Submitted' = Submitted
  BY QueuesUnchanged DEF Submitted
<1>2. done \subseteq Ids(cbQueue) \cup Ids(local) \cup Ids(reported)
  BY DEF IInv, AnsweredAreDone, Answered
<1>3. QED BY <1>1, <1>2 DEF Promise

LEMMA TickSwapMaps == IInv /\ TickSwap => UNCHANGED Promise
<1> SUFFICES ASSUME IInv, TickSwap PROVE UNCHANGED Promise
  OBVIOUS
<1>1. /\ Ids(cbQueue)' \cup Ids(local)' = Ids(cbQueue) \cup Ids(local)
      /\ Ids(reported)' = Ids(reported) /\ Submitted' = Submitted
  BY EmptyQueue DEF IInv, MainShape, TickSwap, QueueAfterSwap, Submitted, Ids
<1>2. UNCHANGED <<futures, pc, cur>>
  BY DEF TickSwap, pollVars
<1>3. QED BY <1>1, <1>2 DEF Promise

LEMMA TickReportMaps == IInv /\ TickReport => Contract!Next
<1> SUFFICES ASSUME IInv, TickReport PROVE Contract!Next
  OBVIOUS
<1> DEFINE c == Head(local)
<1>1. /\ local # <<>> /\ local' = Tail(local) /\ reported' = Append(reported, c)
      /\ UNCHANGED <<nextId, futures, pc, cur, cbQueue>>
  BY DEF TickReport, pollVars
<1>2. local \in Seq(Callback) /\ Distinct(local) /\ reported \in Seq(Callback)
  BY DEF IInv, TypeOK, ReportedOnce
<1>3. /\ c \in Callback /\ c.id \in Ids(local)
      /\ Ids(Tail(local)) = Ids(local) \ {c.id}
  BY <1>1, <1>2, TailIds
<1> HIDE DEF c
<1>4. Ids(Append(reported, c)) = Ids(reported) \cup {c.id}
  BY <1>2, <1>3, AppendIds
<1>5. /\ Ids(local)' = Ids(local) \ {c.id}
      /\ Ids(reported)' = Ids(reported) \cup {c.id}
      /\ Ids(cbQueue)' = Ids(cbQueue)
      /\ Submitted' = Submitted
  BY <1>1, <1>3, <1>4 DEF Submitted, Ids
<1>6. c.id \notin Ids(reported) /\ c.id \in Submitted /\ c.id \in Futures
  BY <1>3, SubmittedFacts DEF IInv, ReportedOnce, OnlySubmitted, Answered
<1>7. Promise[c.id] = "settled"
  BY <1>3, <1>6 DEF Promise
<1>8. Promise' = [Promise EXCEPT ![c.id] = "notified"]
  BY <1>1, <1>5, <1>6 DEF Promise
<1>9. QED BY <1>6, <1>7, <1>8 DEF Contract!Next, Contract!Notify, Contract!Move

LEMMA StopDrainMaps == IInv /\ StopDrain => Contract!Next
<1> SUFFICES ASSUME IInv, StopDrain PROVE Contract!Next
  OBVIOUS
<1> DEFINE S == {f \in Futures : Promise[f] \in {"pending", "settled"}}
<1>1. /\ Ids(cbQueue)' = {} /\ Ids(local)' = {} /\ Ids(local) = {}
      /\ Ids(reported)' = Ids(reported) /\ Submitted' = Submitted
  BY EmptyQueue DEF IInv, MainShape, StopDrain, Submitted, Ids
<1>2. futures' = {} /\ pc' = "exited"
  BY DEF StopDrain, pollVars
<1>3. Promise' = [f \in Futures |-> IF f \in S THEN "dropped" ELSE Promise[f]]
  BY <1>1, <1>2 DEF Promise
<1>4. Contract!Drop(S)
  BY <1>3 DEF Contract!Drop
<1>5. QED BY <1>4 DEF Contract!Next

(* The runtime implements the contract: whatever the three threads do, a   *)
(* script sees each future go through pending, settled and notified once,  *)
(* or be dropped for good.                                                 *)
THEOREM Refinement == Spec => KeepsContract
<1>1. Init => Contract!Init
  BY DEF Init, Contract!Init, Promise, Submitted
<1>2. IInv /\ [Next]_vars => [Contract!Next]_Promise
  <2> SUFFICES ASSUME IInv, [Next]_vars PROVE Contract!Next \/ UNCHANGED Promise
    OBVIOUS
  <2>1. CASE Submit
    BY <2>1, SubmitMaps
  <2>2. ASSUME NEW f \in Futures, Cancel(f)
        PROVE  Contract!Next \/ UNCHANGED Promise
    BY <2>2, CancelMaps
  <2>3. ASSUME NEW f \in Futures, AdapterSettles(f) PROVE UNCHANGED Promise
    BY <2>3, SilentStep DEF AdapterSettles, pollVars, mainVars
  <2>4. CASE PollWake
    BY <2>4, SilentStep DEF PollWake, AfterWait, mainVars
  <2>5. CASE PollSnapshot
    BY <2>5, SilentStep DEF PollSnapshot, mainVars
  <2>6. ASSUME NEW f \in Futures, PollLookup(f) PROVE UNCHANGED Promise
    BY <2>6, SilentStep DEF PollLookup, StillThere, mainVars
  <2>7. CASE Poll
    BY <2>4, <2>5, <2>6, <2>7, PollCallMaps, PollCleanupMaps DEF Poll
  <2>8. CASE Start
    BY <2>8, SilentStep DEF Start, IInv, MainShape
  <2>9. CASE StopRequest
    BY <2>9, SilentStep DEF StopRequest, pollVars
  <2>10. CASE Main
    BY <2>8, <2>9, <2>10, TickSwapMaps, TickReportMaps, StopDrainMaps DEF Main
  <2>11. CASE UNCHANGED vars
    BY <2>11, SilentStep DEF vars
  <2>12. QED BY <2>1, <2>2, <2>3, <2>7, <2>10, <2>11 DEF Next
<1>3. QED BY <1>1, <1>2, Invariance, PTL DEF Spec, KeepsContract, Contract!Spec

===============================================================================
