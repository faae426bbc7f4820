------------------------------- MODULE CrossInherit -------------------------------
(***************************************************************************)
(* PolyLangBridge and PLCrossInherit: an access of one thread to a member  *)
(* of a script, as the stack of C++ activations it runs on, while other    *)
(* threads register bases.                                                 *)
(*                                                                         *)
(* A frame is an activation of call_method_direct(), get_property_direct() *)
(* or set_property_direct() of the live instance of a script, or of        *)
(* pl_call_super_impl(). All frames are about one member name. `via' is    *)
(* who called it: the engine through a trampoline, call_script() or        *)
(* call_native() of the bridge, the loop over a chain of bases, or the     *)
(* foreign code of the frame below (super).                                *)
(***************************************************************************)
EXTENDS Naturals, FiniteSets, SequencesExt

CONSTANTS
    Scripts, Polyglots,  \* paths of scripts; those that are .poly
    GdScripts,           \* paths of .gd bases
    Roots,               \* the scripts the engine accesses
    NoPath,
    PL_BRIDGE_MAX_CALL_DEPTH,
    MaxChain,            \* the 16 steps of resolve_chain_locked()
    MaxStack,            \* bound: frames that fit the thread's stack
    MaxChanges           \* bound on registrations during the access

ASSUME InheritAssumption ==
    /\ Polyglots \subseteq Scripts /\ Roots \subseteq Scripts
    /\ Scripts \cap GdScripts = {} /\ NoPath \notin Scripts \cup GdScripts
    /\ {PL_BRIDGE_MAX_CALL_DEPTH, MaxChain, MaxChanges} \subseteq Nat
    /\ MaxStack \in Nat \ {0}

VARIABLES
    entries,      \* entries_: the base of each script, or NoPath
    quarantined,  \* child_tier of the entries
    live,         \* scripts with a live instance in PLScriptRegistry
    has,          \* scripts whose foreign object has the member
    native,       \* the owners' engine class has it
    stack, depth, \* the frames, and tl_call_depth
    ret,          \* what the frame just left returned
    overflow,     \* the stack is exhausted
    root, loops, changes
                  \* history: the access, whether a cycle or a .gd base existed meanwhile,
                  \* and the number of registrations meanwhile

world == <<entries, quarantined, live, has, native>>
thread == <<stack, depth, ret, overflow>>
history == <<root, loops, changes>>
vars == <<world, thread, history>>

Path == Scripts \cup GdScripts
Ops == {"call", "get", "set"}
NoRet == [rc |-> "none", by |-> NoPath]
Nil == [rc |-> "ok", by |-> NoPath]      \* PL_OK with a value nobody produced
Failed == [rc |-> "error", by |-> NoPath]
NotFound == [rc |-> "notfound", by |-> NoPath]
Ok(p) == [rc |-> "ok", by |-> p]
Raised(p) == [rc |-> "error", by |-> p]  \* the method of p returned an error code
Frame(op, s, via) == [op |-> op, s |-> s, via |-> via, at |-> "foreign", todo |-> <<>>]
NoRoot == [op |-> "none", s |-> NoPath]

-----------------------------------------------------------------------------
(* resolve_chain_locked() *)

BaseOf(p) == IF p \in Scripts THEN entries[p] ELSE NoPath

\* The chain goes on with base b, unless it holds it already.
GoesOn(c, b) == b # NoPath /\ b \notin Range(c)

resolve_chain(s) ==
    LET walk[c \in Seq(Path)] ==
            LET b == BaseOf(Last(c))
            IN  IF Len(c) <= MaxChain /\ GoesOn(c, b) THEN walk[Append(c, b)] ELSE c
    IN  walk[<<s>>]

Cyclic == \E s \in Scripts : BaseOf(Last(resolve_chain(s))) # NoPath
HasGd == \E s \in Scripts : entries[s] \in GdScripts
Loops == {x \in {"cycle", "gd"} : IF x = "cycle" THEN Cyclic ELSE HasGd}

-----------------------------------------------------------------------------
TypeOK ==
    /\ entries \in [Scripts -> Path \cup {NoPath}]
    /\ quarantined \subseteq Scripts /\ live \subseteq Scripts /\ has \subseteq Scripts
    /\ native \in BOOLEAN /\ overflow \in BOOLEAN
    /\ Len(stack) <= MaxStack /\ depth \in Nat
    /\ \A f \in Range(stack) :
           /\ f.op \in Ops /\ f.s \in live /\ f.via \in {"engine", "bridge", "base", "super"}
           /\ f.at \in {"foreign", "body", "walk"}
           /\ Range(f.todo) \subseteq Path \ {f.s} /\ IsInjective(f.todo)
    /\ ret.rc \in {"none", "ok", "notfound", "error"}
    /\ changes \in 0..MaxChanges

\* Bounds: only entries that the roots reach, one script that is quarantined or without
\* an instance, two that have the member; the engine class matters to .gd bases.
Init ==
    /\ entries \in [Scripts -> Path \cup {NoPath}]
    /\ \A s \in Scripts : entries[s] # NoPath => \E r \in Roots : s \in Range(resolve_chain(r))
    /\ quarantined \in SUBSET Scripts /\ live \in SUBSET Scripts
    /\ Cardinality(quarantined \cup (Scripts \ live)) <= 1 /\ Roots \subseteq live
    /\ has \in SUBSET Scripts /\ Cardinality(has) <= 2
    /\ native \in BOOLEAN /\ (native => HasGd)
    /\ stack = <<>> /\ depth = 0 /\ ret = NoRet /\ overflow = FALSE
    /\ root = NoRoot /\ loops = {} /\ changes = 0

top == Last(stack)
Running == stack # <<>> /\ ~overflow
Settle(f) == stack' = Append(Front(stack), f)    \* the top frame goes on as f

\* A frame more, if it fits; below is what the frame that makes the call becomes.
Push(below, f) ==
    IF Len(stack) < MaxStack
    THEN /\ stack' = Append(Append(Front(stack), below), f)
         /\ depth' = IF f.via = "bridge" THEN depth + 1 ELSE depth
         /\ UNCHANGED <<ret, overflow>>
    ELSE overflow' = TRUE /\ UNCHANGED <<stack, depth, ret>>

\* What the caller of f sees of its result: the engine asks its own class when the
\* script did not answer, owner->set() and call_script() drop the error code, so that
\* nil stands for the failure of `by'.
Seen(f, r) ==
    CASE f.via = "engine" /\ f.op = "set" /\ Len(stack) > 1 -> [r EXCEPT !.rc = "ok"]
      [] f.via = "engine" ->
             IF r.rc = "ok" \/ (f.op = "call" /\ r.rc = "error") \/ ~native THEN r
             ELSE Ok("engine")
      [] f.via = "bridge" -> [r EXCEPT !.rc = "ok"]
      [] OTHER -> r

\* The top frame returns r.
Return(r) ==
    /\ stack' = Front(stack)
    /\ depth' = IF top.via = "bridge" THEN depth - 1 ELSE depth
    /\ ret' = Seen(top, r)
    /\ UNCHANGED overflow

-----------------------------------------------------------------------------
(* The engine and the other threads *)

\* A trampoline: the engine calls a method or reads or writes a property.
Access(op, s) ==
    /\ root = NoRoot
    /\ s \in live
    /\ stack' = <<Frame(op, s, "engine")>>
    /\ root' = [op |-> op, s |-> s]
    /\ loops' = Loops
    /\ UNCHANGED <<world, depth, ret, overflow, changes>>

\* During the access, register_base() on a thread that compiles a script, or
\* unregister() when b is NoPath.
Register(s, b) ==
    /\ Running /\ changes < MaxChanges /\ entries[s] # b
    /\ changes' = changes + 1
    /\ entries' = [entries EXCEPT ![s] = b]
    /\ loops' = loops \cup Loops'
    /\ UNCHANGED <<quarantined, live, has, native, thread, root>>

-----------------------------------------------------------------------------
(* The accessing thread *)

\* What the foreign object returns for a member it has: a method may return any error
\* code of its own. (A property it fails to read or write counts as one it lacks.)
Outcomes(f) == IF f.op = "call" THEN {Ok(f.s), Raised(f.s)} ELSE {Ok(f.s)}

\* The foreign object of the top frame is asked, under the instance's shared lock.
Serves ==
    /\ Running /\ top.at = "foreign" /\ ret = NoRet
    /\ top.s \in has
    /\ \/ \E r \in Outcomes(top) : Return(r)
       \/ /\ top.op = "call"
          /\ Settle([top EXCEPT !.at = "body"])
          /\ UNCHANGED <<depth, ret, overflow>>
    /\ UNCHANGED <<world, history>>

\* The todo list of try_base_call(), try_base_get() and try_base_set(), taken under
\* map_mutex_. A call finds no entry, or is refused, before it walks.
Walks(f) == f.op # "call" \/ (entries[f.s] # NoPath /\ f.s \notin quarantined)
Refusal(f) == IF entries[f.s] = NoPath THEN NotFound ELSE Failed
Walker(f) == [f EXCEPT !.at = "walk", !.todo = Tail(resolve_chain(f.s))]

\* It is not there: a PolyLang instance releases its lock and tries its bases.
Lacks ==
    /\ Running /\ top.at = "foreign" /\ ret = NoRet
    /\ top.s \notin has
    /\ IF top.s \in Polyglots
       THEN Return(IF top.op = "call" THEN NotFound ELSE Failed)
       ELSE IF Walks(top)
       THEN Settle(Walker(top)) /\ UNCHANGED <<depth, ret, overflow>>
       ELSE Return(Refusal(top))
    /\ UNCHANGED <<world, history>>

\* Fault: call_script() without its depth guard.
Unguarded == TRUE

GuardPasses == depth < PL_BRIDGE_MAX_CALL_DEPTH

\* call_script() or call_native(): rejected at the limit and when nothing is live.
CallScript(below, t) ==
    IF GuardPasses /\ t \in live
    THEN Push(below, Frame("call", t, "bridge"))
    ELSE /\ Settle(below)
         /\ ret' = Nil
         /\ UNCHANGED <<depth, overflow>>

\* The foreign method that is running calls another script, or super, and returns, well
\* or with an error.
BodyCalls(t) ==
    /\ Running /\ top.at = "body" /\ ret = NoRet
    /\ CallScript(top, t)
    /\ UNCHANGED <<world, history>>

BodySupers ==
    /\ Running /\ top.at = "body" /\ ret = NoRet
    /\ top.s \notin Polyglots
    /\ IF Walks(top)
       THEN Push(top, Walker(Frame("call", top.s, "super")))
       ELSE Settle(top) /\ ret' = Refusal(top) /\ UNCHANGED <<depth, overflow>>
    /\ UNCHANGED <<world, history>>

BodyReturns ==
    /\ Running /\ top.at = "body" /\ ret # NoRet
    /\ \E r \in Outcomes(top) : Return(r)
    /\ UNCHANGED <<world, history>>

\* Fault: the walk asks the same base again.
Stays(f) == f

Advanced(f) == [f EXCEPT !.todo = Tail(f.todo)]

\* call_on_base(), get_on_base() and set_on_base(). A .gd base is never loaded: the
\* owner is asked, and the engine asks the owner's script instance first.
AskBase ==
    /\ Running /\ top.at = "walk" /\ ret = NoRet /\ top.todo # <<>>
    /\ LET b == Head(top.todo)
           OwnerHas == native \/ top.s \in has
           f == Advanced(top)
       IN  IF b \in Scripts
           THEN IF top.op = "call" THEN CallScript(f, b)
                ELSE IF b \in live
                THEN Push(f, Frame(top.op, b, "base"))
                ELSE Settle(f) /\ ret' = Failed /\ UNCHANGED <<depth, overflow>>
           ELSE IF top.op = "call" /\ ~OwnerHas
                THEN Settle(f) /\ ret' = NotFound /\ UNCHANGED <<depth, overflow>>
                ELSE Push(f, Frame(top.op, top.s, "engine"))
    /\ UNCHANGED <<world, history>>

\* Fault: any failure of a base ends the walk.
AnyFailure(f, r) == r.rc # "notfound"

\* A base answered, or failed in a way that ends a call, or was the last.
Stops(f, r) == r.rc = "ok" \/ (f.op = "call" /\ r.rc = "error")

BaseAnswers ==
    /\ Running /\ top.at = "walk" /\ ret # NoRet
    /\ IF Stops(top, ret) THEN Return(ret)
       ELSE ret' = NoRet /\ UNCHANGED <<stack, depth, overflow>>
    /\ UNCHANGED <<world, history>>

Exhausted ==
    /\ Running /\ top.at = "walk" /\ ret = NoRet /\ top.todo = <<>>
    /\ Return(IF top.op = "call" THEN NotFound ELSE Failed)
    /\ UNCHANGED <<world, history>>

Step ==
    \/ Serves \/ Lacks \/ BodySupers \/ BodyReturns \/ AskBase \/ BaseAnswers
    \/ Exhausted
    \/ \E t \in Scripts : BodyCalls(t)

Next ==
    \/ \E op \in Ops, s \in Roots : Access(op, s)
    \/ \E s \in Scripts, b \in Path \cup {NoPath} : Register(s, b)
    \/ Step

Spec == Init /\ [][Next]_vars
FairSpec == Spec /\ WF_vars(Step)

-----------------------------------------------------------------------------
(* Properties *)

Ended == stack = <<>> /\ ret # NoRet /\ changes = 0

\* Which script answers, without the recursion: the first of the chain that has the
\* member. A call gets past a script only through its own call_method_direct(), so not
\* past a .poly, a quarantined or a dead one, nor beyond the depth limit.
Server(op, s) ==
    LET c == resolve_chain(s)
        Passed(i) ==
            \A j \in 1..i - 1 : c[j] \in live \ (Polyglots \cup quarantined)
        Reached(i) ==
            IF op = "call" THEN Passed(i) /\ i - 1 <= PL_BRIDGE_MAX_CALL_DEPTH
            ELSE i = 1 \/ s \notin Polyglots
        having == {i \in DOMAIN c : c[i] \in live \cap has /\ Reached(i)}
    IN  IF having = {} THEN NoPath ELSE c[CHOOSE i \in having : \A j \in having : i <= j]

\* An access that no registration overtook is answered by the first script of the chain
\* that can be reached and has the member, whatever the recursion of walks within
\* walks asked on the way; a base of a quarantined script never answers a call. The
\* engine learns of an error only from the script it called: when the method of a base
\* fails, nil is the answer and no base after it is asked.
FirstServes ==
    Ended /\ loops = {} =>
        LET p == Server(root.op, root.s)
        IN  IF p # NoPath
            THEN ret = Ok(p) \/ (root.op = "call" /\ root.s = p /\ ret = Raised(p))
            ELSE ret.by \notin Scripts

\* The stack is exhausted only by a .gd base, or by a get or set around a cycle of
\* bases: scripts that call each other for ever, with or without super, do not.
OverflowOnlyByLoop ==
    overflow => "gd" \in loops \/ (root.op # "call" /\ "cycle" \in loops)

\* tl_call_depth counts the bridge's activations on the stack, through every rejection,
\* failure and early return, and stays within its limit.
DepthIsBridgeFrames ==
    /\ depth = Cardinality({i \in DOMAIN stack : stack[i].via = "bridge"})
    /\ depth <= PL_BRIDGE_MAX_CALL_DEPTH

\* The stack is one the bridge can produce.
StackWellFormed == TypeOK /\ DepthIsBridgeFrames

\* Every access ends, or exhausts the stack, however bases are registered around it.
EveryAccessEnds == (stack # <<>>) ~> (stack = <<>> \/ overflow)
=============================================================================
