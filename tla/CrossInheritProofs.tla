-------------------------- MODULE CrossInheritProofs --------------------------
(***************************************************************************)
(* Proofs about CrossInherit, for any scripts, bases and number of         *)
(* registrations: StackWellFormed, OverflowOnlyByLoop and FirstServes. The *)
(* argument rests on what resolve_chain_locked() returns:                  *)
(*                                                                         *)
(*  - its loop ends, with a chain of different paths, each the base of the *)
(*    one before it (ChainFacts), and without a cycle the chain of a       *)
(*    script is, from any other script of it on, that one's own            *)
(*    (ChainSuffix);                                                       *)
(*  - every frame is one its caller can have pushed, with a todo list that *)
(*    is part of a chain (Right); the depth of the bridge is the number of *)
(*    its activations on the stack, and between two of them there is at    *)
(*    most one super() (Counted);                                          *)
(*  - the frames of reads and writes that meet no loop fall into epochs,   *)
(*    one for each set of entries there was, and none has a script twice   *)
(*    (Grouped), so that a large enough stack is exhausted only by a loop; *)
(*  - what an undisturbed read or write has asked does not serve, and what *)
(*    it was told is the first that does (Reads); an undisturbed call has  *)
(*    a spine of silent scripts at the bottom of its stack, and what runs  *)
(*    above has been chosen already (Calls).                               *)
(*                                                                         *)
(* The last part proves SandboxPolicy, whose sidecars also name the bases. *)
(* There, a registration is never replaced, so what one critical section   *)
(* saw of it is what the next one finds (Decided, StillSeen, and with them *)
(* SandboxedKeyFound), and a thread that no edit has overtaken has found   *)
(* files that do not restrict its script, has registered it or found it    *)
(* registered, by the time it takes the route (Examined).                  *)
(***************************************************************************)
EXTENDS CrossInherit, SandboxPolicy, FiniteSetTheorems, WellFoundedInduction, TLAPS

-----------------------------------------------------------------------------
(* Induction on numbers, and sequences *)

\* A set of numbers has a least one.
LEMMA LeastNumber ==
  ASSUME NEW S, S \subseteq Nat, S # {}
  PROVE  \E m \in S : \A n \in S : m <= n
<1>1. PICK m \in S : \A n \in S : ~ (<<n, m>> \in OpToRel(<, Nat))
  BY NatLessThanWellFounded, WFMin
<1>2. OpToRel(<, Nat) = {p \in Nat \X Nat : p[1] < p[2]}
  BY DEF OpToRel
<1>3. \A n \in S : ~(n < m)
  BY <1>1, <1>2
<1> QED BY <1>3

\* Induction on a set of numbers.
LEMMA SetInduction ==
  ASSUME NEW S, 0 \in S, \A n \in Nat : n \in S => n + 1 \in S
  PROVE  Nat \subseteq S
<1> SUFFICES ASSUME Nat \ S # {} PROVE FALSE
  OBVIOUS
<1>1. PICK m \in Nat \ S : \A n \in Nat \ S : m <= n
  BY LeastNumber
<1>2. m - 1 \in Nat /\ m - 1 \in S
  BY <1>1
<1> QED BY <1>1, <1>2

\* What Append() makes.
LEMMA Appended ==
  ASSUME NEW S, NEW s \in Seq(S), NEW e \in S
  PROVE  /\ Append(s, e) \in Seq(S) /\ Len(Append(s, e)) = Len(s) + 1
         /\ \A i \in 1..Len(s) : Append(s, e)[i] = s[i]
         /\ Append(s, e)[Len(s) + 1] = e
OBVIOUS

\* What Tail() leaves.
LEMMA Tails ==
  ASSUME NEW S, NEW s \in Seq(S), s # <<>>
  PROVE  /\ Len(s) \in Nat \ {0} /\ s[1] \in S /\ Head(s) = s[1]
         /\ Tail(s) \in Seq(S) /\ Len(Tail(s)) = Len(s) - 1
         /\ \A i \in 1..Len(s) - 1 : Tail(s)[i] = s[i + 1]
OBVIOUS

\* The places of a sequence.
LEMMA Elements ==
  ASSUME NEW S, NEW s \in Seq(S)
  PROVE  /\ Len(s) \in Nat /\ DOMAIN s = 1..Len(s) /\ \A i \in 1..Len(s) : s[i] \in S
         /\ s = <<>> <=> Len(s) = 0
         /\ Range(s) = {s[i] : i \in 1..Len(s)}
         /\ IsInjective(s) <=> \A i, j \in 1..Len(s) : s[i] = s[j] => i = j
BY DEF Range, IsInjective

-----------------------------------------------------------------------------
(* resolve_chain_locked() *)

\* What g_sidecars and g_base_of hold of bases.
Entries == entries \in [Scripts -> Path \cup {NoPath}]

\* A base is a script, another path or none.
LEMMA Bases ==
  ASSUME Entries, NEW p
  PROVE  BaseOf(p) \in Path \cup {NoPath} /\ (BaseOf(p) # NoPath => p \in Scripts)
BY DEF Entries, BaseOf

\* What the loop makes of a chain so far.
Walk(g) == [c \in Seq(Path) |->
               LET b == BaseOf(Last(c))
               IN  IF Len(c) <= MaxChain /\ GoesOn(c, b) THEN g[Append(c, b)] ELSE c]

\* The loop, step by step.
LEMMA WalkAt ==
  ASSUME Entries, NEW g, NEW c \in Seq(Path)
  PROVE  /\ g \in [Seq(Path) -> Seq(Path)] => Walk(g) \in [Seq(Path) -> Seq(Path)]
         /\ \/ /\ Len(c) <= MaxChain /\ GoesOn(c, BaseOf(Last(c)))
               /\ BaseOf(Last(c)) \in Path
               /\ Append(c, BaseOf(Last(c))) \in Seq(Path)
               /\ Len(Append(c, BaseOf(Last(c)))) = Len(c) + 1
               /\ Walk(g)[c] = g[Append(c, BaseOf(Last(c)))]
            \/ /\ ~(Len(c) <= MaxChain /\ GoesOn(c, BaseOf(Last(c))))
               /\ Walk(g)[c] = c
<1>1. ASSUME NEW d \in Seq(Path), GoesOn(d, BaseOf(Last(d)))
      PROVE  /\ BaseOf(Last(d)) \in Path /\ Append(d, BaseOf(Last(d))) \in Seq(Path)
             /\ Len(Append(d, BaseOf(Last(d)))) = Len(d) + 1
  <2>1. BaseOf(Last(d)) \in Path
    BY <1>1, Bases DEF GoesOn
  <2> HIDE DEF Path
  <2> QED BY <2>1, Appended
<1>2. g \in [Seq(Path) -> Seq(Path)] => Walk(g) \in [Seq(Path) -> Seq(Path)]
  BY <1>1 DEF Walk
<1> QED BY <1>1, <1>2 DEF Walk

\* A function that the loop leaves as it is exists: the chain has at most MaxChain steps.
LEMMA WalkEnds ==
  ASSUME Entries, MaxChain \in Nat
  PROVE  \E g \in [Seq(Path) -> Seq(Path)] : g = Walk(g)
<1> DEFINE Solves(g, n) == \A c \in Seq(Path) : Len(c) + n > MaxChain => g[c] = Walk(g)[c]
           M == {n \in Nat : \E g \in [Seq(Path) -> Seq(Path)] : Solves(g, n)}
<1>1. 0 \in M
  <2> DEFINE g == [c \in Seq(Path) |-> c]
  <2>1. g \in [Seq(Path) -> Seq(Path)] /\ \A c \in Seq(Path) : g[c] = c
    OBVIOUS
  <2> HIDE DEF g
  <2>2. ASSUME NEW c \in Seq(Path), Len(c) + 0 > MaxChain PROVE g[c] = Walk(g)[c]
    <3>1. ~(Len(c) <= MaxChain)
      BY <2>2, Elements
    <3> QED BY <2>1, <3>1, WalkAt
  <2>3. Solves(g, 0)
    BY <2>2
  <2> QED BY <2>1, <2>3
<1>2. ASSUME NEW n \in Nat, n \in M PROVE n + 1 \in M
  <2>1. PICK g \in [Seq(Path) -> Seq(Path)] : Solves(g, n)
    BY <1>2
  <2>2. PICK h : h = Walk(g)
    OBVIOUS
  <2>3. h \in [Seq(Path) -> Seq(Path)]
    <3>1. <<>> \in Seq(Path)
      OBVIOUS
    <3> QED BY <2>2, <3>1, WalkAt
  <2>4. ASSUME NEW c \in Seq(Path), Len(c) + (n + 1) > MaxChain PROVE h[c] = Walk(h)[c]
    <3>1. CASE Len(c) <= MaxChain /\ GoesOn(c, BaseOf(Last(c)))
      <4>1. PICK d \in Seq(Path) : d = Append(c, BaseOf(Last(c))) /\ Len(d) = Len(c) + 1
        BY <3>1, WalkAt
      <4>2. h[c] = g[d] /\ Walk(h)[c] = h[d]
        BY <2>2, <2>3, <3>1, <4>1, WalkAt
      <4>3. Len(d) + n > MaxChain
        BY <2>4, <4>1, Elements
      <4>4. g[d] = h[d]
        BY <2>1, <2>2, <4>3
      <4> QED BY <4>2, <4>4
    <3>2. CASE ~(Len(c) <= MaxChain /\ GoesOn(c, BaseOf(Last(c))))
      BY <2>2, <2>3, <3>2, WalkAt
    <3> QED BY <3>1, <3>2
  <2>5. Solves(h, n + 1)
    BY <2>4
  <2> QED BY <2>3, <2>5
<1>3. MaxChain + 1 \in M
  <2> HIDE DEF M
  <2>1. Nat \subseteq M
    BY <1>1, <1>2, SetInduction
  <2> QED BY <2>1
<1>4. PICK g \in [Seq(Path) -> Seq(Path)] : Solves(g, MaxChain + 1)
  BY <1>3
<1>5. ASSUME NEW c \in Seq(Path) PROVE g[c] = Walk(g)[c]
  <2>1. Len(c) + (MaxChain + 1) > MaxChain
    BY Elements
  <2> QED BY <1>4, <2>1
<1>6. Walk(g) \in [Seq(Path) -> Seq(Path)]
  <2>1. <<>> \in Seq(Path)
    OBVIOUS
  <2> QED BY <2>1, WalkAt
<1>7. g = [c \in Seq(Path) |-> g[c]] /\ Walk(g) = [c \in Seq(Path) |-> Walk(g)[c]]
  BY <1>6
<1> QED BY <1>5, <1>7

\* What holds of long chains, and of a chain when it holds of the longer ones, holds of all.
LEMMA ChainInduction ==
  ASSUME MaxChain \in Nat, NEW S,
         \A c \in Seq(Path) : Len(c) > MaxChain => c \in S,
         \A c \in Seq(Path) :
             (\A d \in Seq(Path) : Len(d) = Len(c) + 1 => d \in S) => c \in S
  PROVE  Seq(Path) \subseteq S
<1> DEFINE M == {n \in Nat : \A c \in Seq(Path) : Len(c) + n > MaxChain => c \in S}
<1>1. 0 \in M
  BY Elements
<1>2. ASSUME NEW n \in Nat, n \in M PROVE n + 1 \in M
  <2>1. ASSUME NEW c \in Seq(Path), Len(c) + (n + 1) > MaxChain PROVE c \in S
    <3>1. \A d \in Seq(Path) : Len(d) = Len(c) + 1 => Len(d) + n > MaxChain
      BY <2>1, Elements
    <3> QED BY <1>2, <3>1
  <2> QED BY <2>1
<1>3. MaxChain + 1 \in M
  <2> HIDE DEF M
  <2>1. Nat \subseteq M
    BY <1>1, <1>2, SetInduction
  <2> QED BY <2>1
<1>4. \A c \in Seq(Path) : Len(c) + (MaxChain + 1) > MaxChain
  BY Elements
<1> QED BY <1>3, <1>4

\* resolve_chain() is what the loop makes of the script alone.
LEMMA ChainIsWalk ==
  ASSUME Entries, MaxChain \in Nat, NEW s \in Path
  PROVE  \E g \in [Seq(Path) -> Seq(Path)] : g = Walk(g) /\ resolve_chain(s) = g[<<s>>]
<1> DEFINE f == CHOOSE g : g = Walk(g)
<1>1. resolve_chain(s) = f[<<s>>]
  BY Zenon DEF resolve_chain, Walk
<1> HIDE DEF f
<1>2. PICK h \in [Seq(Path) -> Seq(Path)] : h = Walk(h)
  BY WalkEnds
<1>3. f = Walk(f)
  BY <1>2, Zenon DEF f
<1> DEFINE S == {c \in Seq(Path) : f[c] = h[c]}
<1>4. ASSUME NEW c \in Seq(Path), Len(c) > MaxChain PROVE c \in S
  <2>1. ~(Len(c) <= MaxChain /\ GoesOn(c, BaseOf(Last(c))))
    BY <1>4, Elements
  <2>2. Walk(f)[c] = c /\ Walk(h)[c] = c
    BY <2>1, WalkAt
  <2> QED BY <1>2, <1>3, <2>2
<1>5. ASSUME NEW c \in Seq(Path), \A d \in Seq(Path) : Len(d) = Len(c) + 1 => d \in S
      PROVE  c \in S
  <2>1. CASE Len(c) <= MaxChain /\ GoesOn(c, BaseOf(Last(c)))
    <3>1. PICK d \in Seq(Path) : d = Append(c, BaseOf(Last(c))) /\ Len(d) = Len(c) + 1
      BY <2>1, WalkAt
    <3>2. Walk(f)[c] = f[d] /\ Walk(h)[c] = h[d]
      BY <2>1, <3>1, WalkAt
    <3> QED BY <1>2, <1>3, <1>5, <3>1, <3>2
  <2>2. CASE ~(Len(c) <= MaxChain /\ GoesOn(c, BaseOf(Last(c))))
    BY <1>2, <1>3, <2>2, WalkAt
  <2> QED BY <2>1, <2>2
<1>6. Seq(Path) \subseteq S
  <2> HIDE DEF S
  <2> QED BY <1>4, <1>5, ChainInduction
<1>7. <<s>> \in Seq(Path)
  OBVIOUS
<1> QED BY <1>1, <1>2, <1>6, <1>7

\* A chain so far: no element twice, each the base of the one before it.
Linked(c) ==
    /\ c \in Seq(Path) /\ c # <<>> /\ IsInjective(c)
    /\ \A i \in 1..Len(c) - 1 : c[i + 1] = BaseOf(c[i]) /\ c[i + 1] # NoPath

\* The loop keeps a chain linked.
LEMMA LinkedOn ==
  ASSUME Entries, NEW c, Linked(c), GoesOn(c, BaseOf(Last(c)))
  PROVE  Linked(Append(c, BaseOf(Last(c)))) /\ Append(c, BaseOf(Last(c)))[1] = c[1]
<1>1. c \in Seq(Path) /\ c # <<>> /\ Len(c) \in Nat \ {0}
  BY Elements DEF Linked
<1>2. PICK b : b = BaseOf(Last(c))
  OBVIOUS
<1>3. b \in Path /\ b # NoPath /\ b \notin Range(c) /\ b = BaseOf(c[Len(c)])
  BY <1>2, Bases DEF GoesOn, Last
<1>4. PICK d : d = Append(c, b)
  OBVIOUS
<1>5. /\ d \in Seq(Path) /\ Len(d) = Len(c) + 1 /\ d[Len(c) + 1] = b
      /\ \A i \in 1..Len(c) : d[i] = c[i]
  <2> HIDE DEF Path
  <2> QED BY <1>1, <1>3, <1>4, Appended
<1>6. \A i, j \in 1..Len(c) : c[i] = c[j] => i = j
  BY <1>1, Elements DEF Linked
<1>7. \A i \in 1..Len(c) : c[i] # b
  BY <1>1, <1>3, Elements
<1>8. \A i, j \in 1..Len(d) : d[i] = d[j] => i = j
  BY <1>1, <1>5, <1>6, <1>7
<1>9. IsInjective(d) /\ d # <<>>
  BY <1>1, <1>5, <1>8, Elements
<1>10. ASSUME NEW i \in 1..Len(d) - 1 PROVE d[i + 1] = BaseOf(d[i]) /\ d[i + 1] # NoPath
  <2>1. CASE i = Len(c)
    BY <1>1, <1>3, <1>5, <2>1
  <2>2. CASE i # Len(c)
    <3>1. i \in 1..Len(c) - 1 /\ i + 1 \in 1..Len(c) /\ i \in 1..Len(c)
      BY <1>1, <1>5, <2>2
    <3>2. c[i + 1] = BaseOf(c[i]) /\ c[i + 1] # NoPath
      BY <3>1 DEF Linked
    <3> QED BY <1>5, <3>1, <3>2
  <2> QED BY <2>1, <2>2
<1> QED BY <1>1, <1>2, <1>4, <1>5, <1>9, <1>10 DEF Linked

\* The chain of a path starts with it, is linked, and stops only where it has to.
LEMMA ChainIs ==
  ASSUME Entries, MaxChain \in Nat, NEW s \in Path
  PROVE  /\ Linked(resolve_chain(s)) /\ resolve_chain(s)[1] = s
         /\ ~(Len(resolve_chain(s)) <= MaxChain
              /\ GoesOn(resolve_chain(s), BaseOf(Last(resolve_chain(s)))))
<1>1. PICK g \in [Seq(Path) -> Seq(Path)] : g = Walk(g) /\ resolve_chain(s) = g[<<s>>]
  BY ChainIsWalk
<1> DEFINE Going(c) == Len(c) <= MaxChain /\ GoesOn(c, BaseOf(Last(c)))
           S == {c \in Seq(Path) : Linked(c) => Linked(g[c]) /\ g[c][1] = c[1] /\ ~Going(g[c])}
<1>2. ASSUME NEW c \in Seq(Path), ~Going(c) PROVE c \in S
  <2>1. g[c] = c
    BY <1>1, <1>2, WalkAt
  <2> HIDE DEF Going
  <2> QED BY <1>2, <2>1
<1>3. ASSUME NEW c \in Seq(Path), \A d \in Seq(Path) : Len(d) = Len(c) + 1 => d \in S
      PROVE  c \in S
  <2>1. CASE Going(c)
    <3>1. PICK d \in Seq(Path) : d = Append(c, BaseOf(Last(c))) /\ Len(d) = Len(c) + 1
      BY <2>1, WalkAt
    <3>2. g[c] = g[d]
      BY <1>1, <2>1, <3>1, WalkAt
    <3>3. Linked(c) => Linked(d) /\ d[1] = c[1]
      BY <2>1, <3>1, LinkedOn
    <3>4. d \in S
      BY <1>3, <3>1
    <3> HIDE DEF Going
    <3> QED BY <3>2, <3>3, <3>4
  <2>2. CASE ~Going(c)
    BY <1>2, <2>2
  <2> QED BY <2>1, <2>2
<1>4. ASSUME NEW c \in Seq(Path), Len(c) > MaxChain PROVE c \in S
  <2>1. ~Going(c)
    BY <1>4, Elements
  <2> QED BY <1>2, <2>1
<1>5. Seq(Path) \subseteq S
  <2> HIDE DEF S, Going
  <2> QED BY <1>3, <1>4, ChainInduction
<1>6. <<s>> \in Seq(Path) /\ <<s>>[1] = s /\ Len(<<s>>) = 1 /\ <<s>> # <<>>
  OBVIOUS
<1>7. PICK c : c = <<s>>
  OBVIOUS
<1>8. c \in Seq(Path) /\ c[1] = s /\ Len(c) = 1 /\ c # <<>>
  BY <1>6, <1>7
<1>9. IsInjective(c)
  <2>1. IsInjective(c) <=> \A i, j \in 1..Len(c) : c[i] = c[j] => i = j
    BY <1>8, Elements
  <2> QED BY <1>8, <2>1
<1>10. Linked(c)
  BY <1>8, <1>9 DEF Linked
<1> HIDE DEF Going
<1>11. Linked(g[c]) /\ g[c][1] = s /\ ~Going(g[c])
  BY <1>5, <1>8, <1>10
<1> QED BY <1>1, <1>7, <1>11 DEF Going

\* Two linked chains agree from where the one meets the other.
LEMMA LinkedAgree ==
  ASSUME NEW c, Linked(c), NEW d, Linked(d), NEW k \in 1..Len(c), d[1] = c[k]
  PROVE  \A i \in Nat : i < Len(d) /\ k + i <= Len(c) => d[i + 1] = c[k + i]
<1> DEFINE M == {i \in Nat : i < Len(d) /\ k + i <= Len(c) => d[i + 1] = c[k + i]}
<1>1. Len(c) \in Nat /\ Len(d) \in Nat
  BY Elements DEF Linked
<1>2. 0 \in M
  OBVIOUS
<1>3. ASSUME NEW i \in Nat, i \in M PROVE i + 1 \in M
  <2> SUFFICES ASSUME i + 1 < Len(d), k + (i + 1) <= Len(c)
               PROVE  d[(i + 1) + 1] = c[k + (i + 1)]
    OBVIOUS
  <2>1. d[i + 1] = c[k + i]
    BY <1>1, <1>3
  <2>2. i + 1 \in 1..Len(d) - 1 /\ k + i \in 1..Len(c) - 1 /\ (k + i) + 1 = k + (i + 1)
    BY <1>1
  <2>3. d[(i + 1) + 1] = BaseOf(d[i + 1]) /\ c[(k + i) + 1] = BaseOf(c[k + i])
    BY <2>2 DEF Linked
  <2> QED BY <2>1, <2>2, <2>3
<1> HIDE DEF M
<1>4. Nat \subseteq M
  BY <1>2, <1>3, SetInduction
<1> QED BY <1>4 DEF M

\* A chain as those who walk it know it.
ChainOf(c, s) ==
    /\ c \in Seq(Path) /\ Len(c) \in Nat \ {0} /\ c # <<>> /\ c[1] = s
    /\ \A i \in 1..Len(c) : c[i] \in Path
    /\ \A i, j \in 1..Len(c) : c[i] = c[j] => i = j
    /\ Range(c) = {c[i] : i \in 1..Len(c)}
    /\ \A i \in 1..Len(c) - 1 : c[i + 1] = BaseOf(c[i]) /\ c[i + 1] # NoPath

\* resolve_chain() returns such a chain.
LEMMA ChainFacts ==
  ASSUME Entries, MaxChain \in Nat, NEW s \in Scripts
  PROVE  ChainOf(resolve_chain(s), s)
<1>1. PICK c : c = resolve_chain(s)
  OBVIOUS
<1>2. s \in Path
  BY DEF Path
<1>3. Linked(c) /\ c[1] = s
  BY <1>1, <1>2, ChainIs
<1>4. c \in Seq(Path) /\ c # <<>> /\ IsInjective(c)
  BY <1>3 DEF Linked
<1>5. /\ Len(c) \in Nat /\ \A i \in 1..Len(c) : c[i] \in Path
      /\ c = <<>> <=> Len(c) = 0
      /\ Range(c) = {c[i] : i \in 1..Len(c)}
      /\ IsInjective(c) <=> \A i, j \in 1..Len(c) : c[i] = c[j] => i = j
  BY <1>4, Elements
<1> HIDE DEF Path
<1> QED BY <1>1, <1>3, <1>4, <1>5 DEF Linked, ChainOf

\* Without a cycle a chain ends where there is no base.
LEMMA ChainEnds ==
  ASSUME Entries, MaxChain \in Nat, ~Cyclic, NEW s \in Scripts
  PROVE  BaseOf(resolve_chain(s)[Len(resolve_chain(s))]) = NoPath
BY DEF Cyclic, Last

\* Without a .gd base all of a chain are scripts.
LEMMA ChainScripts ==
  ASSUME Entries, MaxChain \in Nat, ~HasGd, NEW s \in Scripts
  PROVE  \A i \in 1..Len(resolve_chain(s)) : resolve_chain(s)[i] \in Scripts
<1>1. PICK c : c = resolve_chain(s)
  OBVIOUS
<1>2. /\ Len(c) \in Nat \ {0} /\ c[1] = s
      /\ \A i \in 1..Len(c) - 1 : c[i + 1] = BaseOf(c[i]) /\ c[i + 1] # NoPath
  <2>1. ChainOf(c, s)
    BY <1>1, ChainFacts
  <2> QED BY <2>1 DEF ChainOf
<1>3. ASSUME NEW i \in 1..Len(c) PROVE c[i] \in Scripts
  <2>1. CASE i = 1
    BY <1>2, <2>1
  <2>2. CASE i # 1
    <3>1. PICK j \in 1..Len(c) - 1 : i = j + 1
      BY <1>2, <2>2
    <3>2. c[i] = BaseOf(c[j]) /\ c[i] # NoPath
      BY <1>2, <3>1
    <3>3. c[j] \in Scripts /\ c[i] = entries[c[j]] /\ c[i] \in Path
      BY <3>2 DEF BaseOf, Entries
    <3> QED BY <3>3 DEF HasGd, Path
  <2> QED BY <2>1, <2>2
<1> QED BY <1>1, <1>3

\* From any of its scripts on, a chain is that script's own.
LEMMA ChainSuffix ==
  ASSUME Entries, MaxChain \in Nat, ~Cyclic, NEW s \in Scripts, NEW t \in Scripts,
         NEW k \in Nat, k \in 1..Len(resolve_chain(s)), t = resolve_chain(s)[k]
  PROVE  /\ Len(resolve_chain(t)) = Len(resolve_chain(s)) - k + 1
         /\ \A i \in 1..Len(resolve_chain(t)) :
                resolve_chain(t)[i] = resolve_chain(s)[k + i - 1]
<1>1. PICK c : c = resolve_chain(s)
  OBVIOUS
<1>2. PICK d : d = resolve_chain(t)
  OBVIOUS
<1>3. s \in Path /\ t \in Path
  BY DEF Path
<1>4. /\ Linked(c) /\ Linked(d) /\ Len(c) \in Nat \ {0} /\ Len(d) \in Nat \ {0}
      /\ d[1] = c[k] /\ k \in 1..Len(c)
      /\ BaseOf(c[Len(c)]) = NoPath /\ BaseOf(d[Len(d)]) = NoPath
      /\ \A i \in 1..Len(c) - 1 : c[i + 1] = BaseOf(c[i]) /\ c[i + 1] # NoPath
      /\ \A i \in 1..Len(d) - 1 : d[i + 1] = BaseOf(d[i]) /\ d[i + 1] # NoPath
  <2>1. ChainOf(c, s) /\ ChainOf(d, t)
    BY <1>1, <1>2, ChainFacts
  <2>2. Linked(c) /\ Linked(d)
    BY <1>1, <1>2, <1>3, ChainIs
  <2>3. BaseOf(c[Len(c)]) = NoPath /\ BaseOf(d[Len(d)]) = NoPath
    BY <1>1, <1>2, ChainEnds
  <2> QED BY <1>1, <2>1, <2>2, <2>3 DEF ChainOf
<1>5. \A i \in Nat : i < Len(d) /\ k + i <= Len(c) => d[i + 1] = c[k + i]
  BY <1>4, LinkedAgree
<1>6. PICK m \in Nat \ {0}, n \in Nat \ {0} : m = Len(c) /\ n = Len(d) /\ k \in 1..m
  BY <1>4
<1>7. ~(n < m - k + 1)
  <2> SUFFICES ASSUME n < m - k + 1 PROVE FALSE
    OBVIOUS
  <2>1. PICK i \in Nat : i = n - 1
    OBVIOUS
  <2>2. i < n /\ k + i <= m /\ i + 1 = n /\ k + i \in 1..m - 1
    BY <1>6, <2>1
  <2>3. d[n] = c[k + i]
    BY <1>5, <1>6, <2>2
  <2>4. BaseOf(c[k + i]) # NoPath
    BY <1>4, <1>6, <2>2
  <2> QED BY <1>4, <1>6, <2>3, <2>4
<1>8. ~(n > m - k + 1)
  <2> SUFFICES ASSUME n > m - k + 1 PROVE FALSE
    OBVIOUS
  <2>1. PICK i \in Nat : i = m - k
    <3>1. m - k \in Nat
      BY <1>6
    <3> QED BY <3>1
  <2>2. i < n /\ k + i <= m /\ k + i = m /\ i + 1 \in 1..n - 1
    BY <1>6, <2>1
  <2>3. d[i + 1] = c[m]
    BY <1>5, <1>6, <2>2
  <2>4. BaseOf(d[i + 1]) # NoPath
    BY <1>4, <1>6, <2>2
  <2> QED BY <1>4, <1>6, <2>3, <2>4
<1>9. Len(d) = Len(c) - k + 1
  BY <1>6, <1>7, <1>8
<1>10. ASSUME NEW i \in 1..Len(d) PROVE d[i] = c[k + i - 1]
  <2>1. PICK j \in Nat : j = i - 1
    BY <1>4
  <2>2. j < Len(d) /\ k + j <= Len(c) /\ j + 1 = i /\ k + j = k + i - 1
    BY <1>4, <1>9, <2>1
  <2> QED BY <1>5, <2>2
<1> QED BY <1>1, <1>2, <1>9, <1>10

\* So chains are transitive ...
LEMMA ChainTransitive ==
  ASSUME Entries, MaxChain \in Nat, ~Cyclic, NEW s \in Scripts, NEW t \in Scripts,
         t \in Range(resolve_chain(s))
  PROVE  Range(resolve_chain(t)) \subseteq Range(resolve_chain(s))
<1>1. PICK c : c = resolve_chain(s)
  OBVIOUS
<1>2. PICK d : d = resolve_chain(t)
  OBVIOUS
<1>3. /\ Len(c) \in Nat /\ Len(d) \in Nat
      /\ Range(c) = {c[i] : i \in 1..Len(c)} /\ Range(d) = {d[i] : i \in 1..Len(d)}
  <2>1. ChainOf(c, s) /\ ChainOf(d, t)
    BY <1>1, <1>2, ChainFacts
  <2> QED BY <2>1 DEF ChainOf
<1>4. PICK k \in 1..Len(c) : t = c[k]
  BY <1>1, <1>3
<1>5. Len(d) = Len(c) - k + 1 /\ \A i \in 1..Len(d) : d[i] = c[k + i - 1]
  BY <1>1, <1>2, <1>4, ChainSuffix
<1>6. ASSUME NEW i \in 1..Len(d) PROVE d[i] \in Range(c)
  <2>1. k + i - 1 \in 1..Len(c)
    BY <1>3, <1>5
  <2> QED BY <1>3, <1>5, <2>1
<1> QED BY <1>1, <1>2, <1>3, <1>6

\* ... and no two scripts are each in the other's.
LEMMA ChainAntisymmetric ==
  ASSUME Entries, MaxChain \in Nat, ~Cyclic, NEW s \in Scripts, NEW t \in Scripts,
         t \in Range(resolve_chain(s)), s \in Range(resolve_chain(t))
  PROVE  s = t
<1>1. PICK c : c = resolve_chain(s)
  OBVIOUS
<1>2. PICK d : d = resolve_chain(t)
  OBVIOUS
<1>3. /\ Len(c) \in Nat \ {0} /\ c[1] = s /\ Range(c) = {c[i] : i \in 1..Len(c)}
      /\ \A i, j \in 1..Len(c) : c[i] = c[j] => i = j
  <2>1. ChainOf(c, s)
    BY <1>1, ChainFacts
  <2> QED BY <2>1 DEF ChainOf
<1>4. Len(d) \in Nat \ {0} /\ Range(d) = {d[i] : i \in 1..Len(d)}
  <2>1. ChainOf(d, t)
    BY <1>2, ChainFacts
  <2> QED BY <2>1 DEF ChainOf
<1>5. PICK k \in 1..Len(c) : t = c[k]
  BY <1>1, <1>3
<1>6. Len(d) = Len(c) - k + 1 /\ \A i \in 1..Len(d) : d[i] = c[k + i - 1]
  BY <1>1, <1>2, <1>5, ChainSuffix
<1>7. PICK i \in 1..Len(d) : s = d[i]
  BY <1>2, <1>4
<1>8. k + i - 1 \in 1..Len(c) /\ c[k + i - 1] = c[1]
  BY <1>3, <1>4, <1>6, <1>7
<1>9. k + i - 1 = 1
  <2>1. PICK m \in 1..Len(c) : m = k + i - 1 /\ c[m] = c[1]
    BY <1>8
  <2>2. 1 \in 1..Len(c)
    BY <1>3
  <2>3. m = 1
    BY ONLY <1>3, <2>1, <2>2
  <2> QED BY <2>1, <2>3
<1>10. k = 1
  BY <1>3, <1>4, <1>7, <1>9
<1> QED BY <1>3, <1>5, <1>10

\* The todo list of a walk.
LEMMA ChainTail ==
  ASSUME Entries, MaxChain \in Nat, NEW s \in Scripts
  PROVE  LET c == resolve_chain(s) IN LET d == Tail(c)
         IN  /\ d \in Seq(Path) /\ Len(d) = Len(c) - 1
             /\ \A i \in 1..Len(d) : d[i] = c[i + 1]
             /\ IsInjective(d) /\ Range(d) \subseteq Range(c) \ {s}
             /\ Range(d) \subseteq Path \ {s}
<1>1. PICK c : c = resolve_chain(s)
  OBVIOUS
<1>2. /\ c \in Seq(Path) /\ Len(c) \in Nat \ {0} /\ c # <<>> /\ c[1] = s
      /\ \A i \in 1..Len(c) : c[i] \in Path
      /\ \A i, j \in 1..Len(c) : c[i] = c[j] => i = j
      /\ Range(c) = {c[i] : i \in 1..Len(c)}
  <2>1. ChainOf(c, s)
    BY <1>1, ChainFacts
  <2> QED BY <2>1 DEF ChainOf
<1>3. PICK d : d = Tail(c)
  OBVIOUS
<1> HIDE DEF Path
<1>4. d \in Seq(Path) /\ Len(d) = Len(c) - 1 /\ \A i \in 1..Len(d) : d[i] = c[i + 1]
  BY <1>2, <1>3, Tails
<1>5. /\ Range(d) = {d[i] : i \in 1..Len(d)}
      /\ IsInjective(d) <=> \A i, j \in 1..Len(d) : d[i] = d[j] => i = j
  BY <1>4, Elements
<1>6. \A i \in 1..Len(d) : i + 1 \in 1..Len(c) /\ i + 1 # 1
  BY <1>2, <1>4
<1>7. \A i, j \in 1..Len(d) : d[i] = d[j] => i = j
  <2> TAKE i, j \in 1..Len(d)
  <2> HAVE d[i] = d[j]
  <2>1. i + 1 = j + 1
    BY <1>2, <1>4, <1>6
  <2> QED BY <1>4, <2>1
<1>8. \A i \in 1..Len(d) : d[i] # s /\ d[i] \in Range(c) /\ d[i] \in Path
  <2> TAKE i \in 1..Len(d)
  <2>1. d[i] = c[i + 1] /\ i + 1 \in 1..Len(c) /\ i + 1 # 1 /\ 1 \in 1..Len(c)
    BY <1>2, <1>4, <1>6
  <2> QED BY <1>2, <2>1
<1> QED BY <1>1, <1>3, <1>4, <1>5, <1>7, <1>8

-----------------------------------------------------------------------------
(* The steps of a stack *)

\* What Front() leaves.
LEMMA Fronts ==
  ASSUME NEW S, NEW s \in Seq(S), s # <<>>
  PROVE  /\ Len(s) \in Nat \ {0} /\ Last(s) = s[Len(s)] /\ Last(s) \in S
         /\ Front(s) \in Seq(S) /\ Len(Front(s)) = Len(s) - 1
         /\ \A i \in 1..Len(s) - 1 : Front(s)[i] = s[i]
<1>1. Len(s) \in Nat \ {0} /\ 1 \in 1..Len(s)
  BY Elements
<1>2. s[Len(s)] \in S
  BY <1>1, Elements
<1>3. Front(s) = SubSeq(s, 1, Len(s) - 1) /\ Last(s) = s[Len(s)]
  BY DEF Front, Last
<1>4. PICK n \in Nat : n = Len(s) - 1
  BY <1>1
<1>5. /\ SubSeq(s, 1, n) \in Seq(S) /\ Len(SubSeq(s, 1, n)) = n
      /\ \A i \in 1..n : SubSeq(s, 1, n)[i] = s[i]
  BY <1>1, <1>4
<1> QED BY <1>1, <1>2, <1>3, <1>4, <1>5

\* A sequence whose last element is replaced.
LEMMA Replaced ==
  ASSUME NEW S, NEW s \in Seq(S), s # <<>>, NEW f \in S
  PROVE  /\ Append(Front(s), f) \in Seq(S) /\ Len(Append(Front(s), f)) = Len(s)
         /\ Append(Front(s), f)[Len(s)] = f
         /\ \A i \in 1..Len(s) - 1 : Append(Front(s), f)[i] = s[i]
<1>1. PICK u : u = Append(Front(s), f)
  OBVIOUS
<1>2. PICK v \in Seq(S) : v = Front(s)
  BY Fronts
<1>3. Len(v) = Len(s) - 1 /\ Len(s) \in Nat \ {0} /\ \A i \in 1..Len(s) - 1 : v[i] = s[i]
  BY <1>2, Fronts
<1>4. /\ u \in Seq(S) /\ Len(u) = Len(v) + 1 /\ u[Len(v) + 1] = f
      /\ \A i \in 1..Len(v) : u[i] = v[i]
  BY <1>1, <1>2, Appended
<1> QED BY <1>1, <1>3, <1>4

\* A sequence whose last element is replaced by itself.
LEMMA Same ==
  ASSUME NEW S, NEW s \in Seq(S), s # <<>>
  PROVE  s = Append(Front(s), Last(s))
<1>1. Last(s) \in S /\ Last(s) = s[Len(s)] /\ Len(s) \in Nat \ {0}
  BY Fronts
<1>2. PICK e \in S : e = Last(s)
  BY <1>1
<1>3. PICK u : u = Append(Front(s), e)
  OBVIOUS
<1>4. /\ u \in Seq(S) /\ Len(u) = Len(s) /\ u[Len(s)] = e
      /\ \A i \in 1..Len(s) - 1 : u[i] = s[i]
  BY <1>3, Replaced
<1>5. \A i \in 1..Len(s) : u[i] = s[i]
  BY <1>1, <1>2, <1>4
<1> QED BY <1>2, <1>3, <1>4, <1>5

\* Frames, what they return, and the types of the variables.
FrameType ==
    [op : Ops, s : Scripts, via : {"engine", "bridge", "base", "super"},
     at : {"foreign", "body", "walk"}, todo : Seq(Path)]
RetType == [rc : {"none", "ok", "notfound", "error"}, by : Path \cup {NoPath, "engine"}]

Typed ==
    /\ Entries
    /\ quarantined \subseteq Scripts /\ live \subseteq Scripts /\ has \subseteq Scripts
    /\ Roots \subseteq live
    /\ native \in BOOLEAN /\ overflow \in BOOLEAN
    /\ stack \in Seq(FrameType) /\ Len(stack) <= MaxStack
    /\ ret \in RetType /\ changes \in 0..MaxChanges
    /\ root = NoRoot \/ (root.op \in Ops /\ root.s \in live)
    /\ loops \subseteq {"cycle", "gd"}

\* A base that does not get to answer.
Misses(b, r) ==
    \/ b \in Scripts /\ top.op = "call" /\ ~(GuardPasses /\ b \in live) /\ r = Nil
    \/ b \in Scripts \ live /\ top.op # "call" /\ r = Failed
    \/ b \notin Scripts /\ top.op = "call" /\ r = NotFound

\* When the top frame turns to f, and r has been returned to it.
TurnCase(f, r) ==
    \/ /\ top.at = "foreign" /\ top.s \in has /\ top.op = "call"
       /\ f = [top EXCEPT !.at = "body"] /\ ret = NoRet /\ r = NoRet
    \/ /\ top.at = "foreign" /\ top.s \notin has \cup Polyglots /\ Walks(top)
       /\ f = Walker(top) /\ ret = NoRet /\ r = NoRet
    \/ top.at = "body" /\ f = top /\ ret = NoRet /\ r \in {Nil, Refusal(top)}
    \/ /\ top.at = "walk" /\ ret = NoRet /\ top.todo # <<>> /\ f = Advanced(top)
       /\ Misses(Head(top.todo), r)
    \/ top.at = "walk" /\ ret # NoRet /\ ~Stops(top, ret) /\ f = top /\ r = NoRet

Turn(f, r) == TurnCase(f, r) /\ Settle(f) /\ ret' = r /\ UNCHANGED <<depth, overflow>>

\* When it returns r.
LeaveCase(r) ==
    \/ top.at = "foreign" /\ ret = NoRet /\ top.s \in has /\ r \in Outcomes(top)
    \/ /\ top.at = "foreign" /\ ret = NoRet /\ top.s \notin has /\ top.s \in Polyglots
       /\ r \in {NotFound, Failed}
    \/ /\ top.at = "foreign" /\ ret = NoRet /\ top.s \notin has /\ ~Walks(top)
       /\ r = Refusal(top)
    \/ top.at = "body" /\ r \in Outcomes(top)
    \/ top.at = "walk" /\ ret # NoRet /\ Stops(top, ret) /\ r = ret
    \/ top.at = "walk" /\ ret = NoRet /\ top.todo = <<>> /\ r \in {NotFound, Failed}

Leave(r) == LeaveCase(r) /\ Return(r)

\* When it becomes g and calls f.
EnterCase(g, f) ==
    /\ ret = NoRet
    /\ \/ /\ top.at = "body" /\ g = top /\ GuardPasses
          /\ \E t \in live : f = Frame("call", t, "bridge")
       \/ /\ top.at = "body" /\ g = top /\ top.s \notin Polyglots /\ Walks(top)
          /\ f = Walker(Frame("call", top.s, "super"))
       \/ /\ top.at = "walk" /\ top.todo # <<>> /\ g = Advanced(top)
          /\ \/ /\ Head(top.todo) \in live /\ top.op = "call" /\ GuardPasses
                /\ f = Frame("call", Head(top.todo), "bridge")
             \/ /\ Head(top.todo) \in live /\ top.op # "call"
                /\ f = Frame(top.op, Head(top.todo), "base")
             \/ Head(top.todo) \notin Scripts /\ f = Frame(top.op, top.s, "engine")

Enter(g, f) == EnterCase(g, f) /\ Push(g, f)

\* Every step of the thread is one of the three.
LEMMA StepCases ==
  ASSUME Typed, Step
  PROVE  /\ Running /\ UNCHANGED <<world, history>>
         /\ \/ \E f, r : Turn(f, r)
            \/ \E r : Leave(r)
            \/ \E g, f : Enter(g, f)
<1>1. Running /\ UNCHANGED <<world, history>>
  BY DEF Step, Serves, Lacks, BodySupers, BodyReturns, AskBase, BaseAnswers, Exhausted, BodyCalls
<1>2. stack = Append(Front(stack), top)
  BY <1>1, Same DEF Typed, Running, top
<1> DEFINE Goal == \/ \E f, r : Turn(f, r)
                   \/ \E r : Leave(r)
                   \/ \E g, f : Enter(g, f)
<1>3. CASE Serves
  <2>1. ASSUME NEW r \in Outcomes(top), Return(r) PROVE Goal
    <3>1. Leave(r)
      BY <1>3, <2>1 DEF Serves, Leave, LeaveCase
    <3> QED BY <3>1
  <2>2. CASE /\ top.op = "call"
             /\ Settle([top EXCEPT !.at = "body"])
             /\ UNCHANGED <<depth, ret, overflow>>
    <3>1. Turn([top EXCEPT !.at = "body"], NoRet)
      BY <1>3, <2>2 DEF Serves, Turn, TurnCase
    <3> QED BY <1>1, <3>1
  <2> QED BY <1>3, <2>1, <2>2 DEF Serves
<1>4. CASE Lacks
  <2>1. CASE top.s \in Polyglots
    <3>1. PICK r : Return(r) /\ r \in {NotFound, Failed}
      BY <1>4, <2>1 DEF Lacks
    <3>2. Leave(r)
      BY <1>4, <2>1, <3>1 DEF Lacks, Leave, LeaveCase
    <3> QED BY <1>1, <3>2
  <2>2. CASE top.s \notin Polyglots /\ Walks(top)
    <3>1. Turn(Walker(top), NoRet)
      BY <1>4, <2>2 DEF Lacks, Turn, TurnCase
    <3> QED BY <1>1, <3>1
  <2>3. CASE top.s \notin Polyglots /\ ~Walks(top)
    <3>1. Leave(Refusal(top))
      BY <1>4, <2>3 DEF Lacks, Leave, LeaveCase
    <3> QED BY <1>1, <3>1
  <2> QED BY <2>1, <2>2, <2>3
<1>5. ASSUME NEW t \in Scripts, BodyCalls(t) PROVE Goal
  <2>1. CASE GuardPasses /\ t \in live
    <3>1. Enter(top, Frame("call", t, "bridge"))
      BY <1>5, <2>1 DEF BodyCalls, CallScript, Enter, EnterCase
    <3> QED BY <3>1
  <2>2. CASE ~(GuardPasses /\ t \in live)
    <3>1. Turn(top, Nil)
      BY <1>5, <2>2 DEF BodyCalls, CallScript, Turn, TurnCase
    <3> QED BY <3>1
  <2> QED BY <2>1, <2>2
<1>6. CASE BodySupers
  <2>1. CASE Walks(top)
    <3>1. Enter(top, Walker(Frame("call", top.s, "super")))
      BY <1>6, <2>1 DEF BodySupers, Enter, EnterCase
    <3> QED BY <1>1, <3>1
  <2>2. CASE ~Walks(top)
    <3>1. Turn(top, Refusal(top))
      BY <1>6, <2>2 DEF BodySupers, Turn, TurnCase
    <3> QED BY <1>1, <3>1
  <2> QED BY <2>1, <2>2
<1>7. CASE BodyReturns
  <2>1. PICK r \in Outcomes(top) : Return(r)
    BY <1>7 DEF BodyReturns
  <2>2. Leave(r)
    BY <1>7, <2>1 DEF BodyReturns, Leave, LeaveCase
  <2> QED BY <1>1, <2>2
<1>8. CASE AskBase
  <2>1. top.at = "walk" /\ ret = NoRet /\ top.todo # <<>>
    BY <1>8 DEF AskBase
  <2>2. PICK b : b = Head(top.todo)
    OBVIOUS
  <2>3. CASE b \in Scripts /\ top.op = "call" /\ GuardPasses /\ b \in live
    <3>1. Enter(Advanced(top), Frame("call", b, "bridge"))
      BY <1>8, <2>1, <2>2, <2>3 DEF AskBase, CallScript, Enter, EnterCase
    <3> QED BY <1>1, <3>1
  <2>4. CASE b \in Scripts /\ top.op = "call" /\ ~(GuardPasses /\ b \in live)
    <3>1. Turn(Advanced(top), Nil)
      BY <1>8, <2>1, <2>2, <2>4 DEF AskBase, CallScript, Turn, TurnCase, Misses
    <3> QED BY <1>1, <3>1
  <2>5. CASE b \in Scripts /\ top.op # "call" /\ b \in live
    <3>1. Enter(Advanced(top), Frame(top.op, b, "base"))
      BY <1>8, <2>1, <2>2, <2>5 DEF AskBase, Enter, EnterCase
    <3> QED BY <1>1, <3>1
  <2>6. CASE b \in Scripts /\ top.op # "call" /\ b \notin live
    <3>1. Turn(Advanced(top), Failed)
      BY <1>8, <2>1, <2>2, <2>6 DEF AskBase, Turn, TurnCase, Misses
    <3> QED BY <1>1, <3>1
  <2>7. CASE b \notin Scripts
    <3>1. CASE top.op = "call" /\ ~(native \/ top.s \in has)
      <4>1. Turn(Advanced(top), NotFound)
        BY <1>8, <2>1, <2>2, <2>7, <3>1 DEF AskBase, Turn, TurnCase, Misses
      <4> QED BY <1>1, <4>1
    <3>2. CASE ~(top.op = "call" /\ ~(native \/ top.s \in has))
      <4>1. Enter(Advanced(top), Frame(top.op, top.s, "engine"))
        BY <1>8, <2>1, <2>2, <2>7, <3>2 DEF AskBase, Enter, EnterCase
      <4> QED BY <1>1, <4>1
    <3> QED BY <3>1, <3>2
  <2> QED BY <2>3, <2>4, <2>5, <2>6, <2>7
<1>9. CASE BaseAnswers
  <2>1. CASE Stops(top, ret)
    <3>1. Leave(ret)
      BY <1>9, <2>1 DEF BaseAnswers, Leave, LeaveCase
    <3> QED BY <1>1, <3>1
  <2>2. CASE ~Stops(top, ret)
    <3>1. Turn(top, NoRet)
      BY <1>2, <1>9, <2>2 DEF BaseAnswers, Turn, TurnCase, Settle
    <3> QED BY <1>1, <3>1
  <2> QED BY <2>1, <2>2
<1>10. CASE Exhausted
  <2>1. PICK r : Return(r) /\ r \in {NotFound, Failed}
    BY <1>10 DEF Exhausted
  <2>2. Leave(r)
    BY <1>10, <2>1 DEF Exhausted, Leave, LeaveCase
  <2> QED BY <1>1, <2>2
<1> QED BY <1>1, <1>3, <1>4, <1>5, <1>6, <1>7, <1>8, <1>9, <1>10 DEF Step

\* What does not change with the entries.
LEMMA SameChains ==
  ASSUME entries' = entries
  PROVE  /\ \A s : resolve_chain(s)' = resolve_chain(s)
         /\ Cyclic' = Cyclic /\ HasGd' = HasGd /\ Loops' = Loops /\ Entries' = Entries
<1>1. \A s : resolve_chain(s)' = resolve_chain(s)
  BY DEF resolve_chain, BaseOf, GoesOn, Last
<1>2. Cyclic' = Cyclic
  BY DEF Cyclic, resolve_chain, BaseOf, GoesOn, Last
<1>3. HasGd' = HasGd
  BY DEF HasGd
<1>4. Loops' = Loops
  BY <1>2, <1>3 DEF Loops
<1> QED BY <1>1, <1>2, <1>3, <1>4 DEF Entries

\* What loops holds after an access or a registration.
LEMMA LoopsAre ==
  /\ Loops \subseteq {"cycle", "gd"}
  /\ "cycle" \in Loops <=> Cyclic
  /\ "gd" \in Loops <=> HasGd
BY DEF Loops

\* A frame its caller can make.
FrameRight(f) ==
    /\ f.s \in live /\ IsInjective(f.todo) /\ Range(f.todo) \subseteq Path \ {f.s}
    /\ f.op = root.op
    /\ f.op # "call" => f.at # "body" /\ f.via \in {"engine", "base"}
    /\ f.op = "call" => f.via # "base"
    /\ f.via = "super" => f.at = "walk"
    /\ f.at = "body" => f.s \in has
    /\ f.at = "walk" /\ f.via # "super" => f.s \notin has \cup Polyglots
    /\ "gd" \notin loops => Range(f.todo) \subseteq Scripts

FramesRight == \A i \in 1..Len(stack) : FrameRight(stack[i])

\* An access that has met no loop sees none in the entries.
LoopsRight ==
    /\ root = NoRoot => stack = <<>> /\ loops = {} /\ ret = NoRet /\ changes = 0
    /\ root # NoRoot => Loops \subseteq loops
    /\ native => IF root = NoRoot THEN HasGd ELSE "gd" \in loops

Right == Typed /\ LoopsRight /\ FramesRight

\* The top frame, when the thread runs.
LEMMA TopFrame ==
  ASSUME Right, Running
  PROVE  /\ top \in FrameType /\ FrameRight(top)
         /\ Len(stack) \in Nat \ {0} /\ top = stack[Len(stack)]
         /\ root # NoRoot /\ root.op \in Ops /\ root.s \in live /\ ret \in RetType
<1>1. stack \in Seq(FrameType) /\ stack # <<>>
  BY DEF Right, Typed, Running
<1>2. /\ Len(stack) \in Nat \ {0} /\ Last(stack) = stack[Len(stack)]
      /\ Last(stack) \in FrameType
  <2> HIDE DEF FrameType
  <2> QED BY <1>1, Fronts
<1>3. Len(stack) \in 1..Len(stack)
  BY <1>2
<1> QED BY <1>1, <1>2, <1>3 DEF Right, Typed, LoopsRight, FramesRight, top

\* Empty todo lists, shortened ones, and those of a chain.
LEMMA Todos ==
  /\ <<>> \in Seq(Path) /\ IsInjective(<<>>) /\ Range(<<>>) = {}
  /\ \A d \in Seq(Path) : d # <<>> =>
         /\ Tail(d) \in Seq(Path) /\ Range(Tail(d)) \subseteq Range(d)
         /\ IsInjective(d) => IsInjective(Tail(d)) /\ Head(d) \notin Range(Tail(d))
         /\ Head(d) \in Range(d) /\ Head(d) = d[1]
         /\ Len(Tail(d)) = Len(d) - 1 /\ \A i \in 1..Len(d) - 1 : Tail(d)[i] = d[i + 1]
<1> HIDE DEF Path
<1>1. <<>> \in Seq(Path) /\ IsInjective(<<>>) /\ Range(<<>>) = {}
  <2>1. <<>> \in Seq(Path)
    OBVIOUS
  <2>2. PICK e : e = <<>>
    OBVIOUS
  <2>3. e \in Seq(Path)
    BY <2>1, <2>2
  <2>4. Range(e) = {e[i] : i \in 1..Len(e)}
    BY <2>3, Elements
  <2>5. IsInjective(e) <=> \A i, j \in 1..Len(e) : e[i] = e[j] => i = j
    BY <2>3, Elements
  <2>6. Len(e) = 0
    BY <2>2
  <2> QED BY <2>1, <2>2, <2>4, <2>5, <2>6
<1>2. ASSUME NEW d \in Seq(Path), d # <<>>
      PROVE  /\ Tail(d) \in Seq(Path) /\ Range(Tail(d)) \subseteq Range(d)
             /\ IsInjective(d) => IsInjective(Tail(d)) /\ Head(d) \notin Range(Tail(d))
             /\ Head(d) \in Range(d) /\ Head(d) = d[1]
             /\ Len(Tail(d)) = Len(d) - 1 /\ \A i \in 1..Len(d) - 1 : Tail(d)[i] = d[i + 1]
  <2>1. PICK e : e = Tail(d)
    OBVIOUS
  <2>2. /\ Len(d) \in Nat \ {0} /\ Head(d) = d[1] /\ e \in Seq(Path)
        /\ Len(e) = Len(d) - 1 /\ \A i \in 1..Len(d) - 1 : e[i] = d[i + 1]
    BY <1>2, <2>1, Tails
  <2>3. /\ Range(d) = {d[i] : i \in 1..Len(d)}
        /\ IsInjective(d) <=> \A i, j \in 1..Len(d) : d[i] = d[j] => i = j
    BY Elements
  <2>4. /\ Range(e) = {e[i] : i \in 1..Len(e)}
        /\ IsInjective(e) <=> \A i, j \in 1..Len(e) : e[i] = e[j] => i = j
    BY <2>2, Elements
  <2>5. \A i \in 1..Len(e) : i + 1 \in 1..Len(d) /\ i + 1 # 1 /\ e[i] = d[i + 1]
    BY <2>2
  <2>6. 1 \in 1..Len(d)
    BY <2>2
  <2>7. Range(e) \subseteq Range(d) /\ Head(d) \in Range(d)
    BY <2>2, <2>3, <2>4, <2>5, <2>6
  <2>8. ASSUME IsInjective(d) PROVE IsInjective(e) /\ Head(d) \notin Range(e)
    <3>1. ASSUME NEW i \in 1..Len(e), NEW j \in 1..Len(e), e[i] = e[j] PROVE i = j
      <4>1. i + 1 = j + 1
        BY <2>3, <2>5, <2>8, <3>1
      <4> QED BY <2>2, <4>1
    <3>2. ASSUME NEW i \in 1..Len(e) PROVE e[i] # Head(d)
      BY <2>2, <2>3, <2>5, <2>6, <2>8
    <3> QED BY <2>4, <3>1, <3>2
  <2> QED BY <2>1, <2>2, <2>7, <2>8
<1> QED BY <1>1, <1>2

\* The todo list of a frame that begins to walk.
LEMMA Walking ==
  ASSUME Right, NEW f \in FrameType, root # NoRoot
  PROVE  /\ Walker(f) = [f EXCEPT !.at = "walk", !.todo = Tail(resolve_chain(f.s))]
         /\ Walker(f) \in FrameType
         /\ IsInjective(Walker(f).todo) /\ Range(Walker(f).todo) \subseteq Path \ {f.s}
         /\ Range(Walker(f).todo) \subseteq Range(resolve_chain(f.s))
         /\ "gd" \notin loops => Range(Walker(f).todo) \subseteq Scripts
<1>1. Entries /\ MaxChain \in Nat /\ f.s \in Scripts
  BY InheritAssumption DEF Right, Typed, FrameType
<1>2. PICK c : c = resolve_chain(f.s)
  OBVIOUS
<1>3. PICK d : d = Tail(c)
  OBVIOUS
<1>4. /\ d \in Seq(Path) /\ IsInjective(d) /\ Range(d) \subseteq Path \ {f.s}
      /\ Range(d) \subseteq Range(c) \ {f.s}
  BY <1>1, <1>2, <1>3, ChainTail
<1>5. Walker(f) = [f EXCEPT !.at = "walk", !.todo = d]
  BY <1>2, <1>3 DEF Walker
<1>6. Walker(f) \in FrameType /\ Walker(f).todo = d
  BY <1>4, <1>5 DEF FrameType
<1>7. ASSUME "gd" \notin loops PROVE Range(d) \subseteq Scripts
  <2>1. ~HasGd
    BY <1>7, LoopsAre DEF Right, LoopsRight
  <2>2. ChainOf(c, f.s) /\ \A i \in 1..Len(c) : c[i] \in Scripts
    BY <1>1, <1>2, <2>1, ChainFacts, ChainScripts
  <2>3. Range(c) \subseteq Scripts
    BY <2>2 DEF ChainOf
  <2> QED BY <1>4, <2>3
<1> QED BY <1>2, <1>3, <1>4, <1>5, <1>6, <1>7

\* Every frame a step makes is of its type and right.
LEMMA TurnRight ==
  ASSUME Right, Running, NEW f, NEW r, TurnCase(f, r)
  PROVE  /\ f \in FrameType /\ r \in RetType /\ FrameRight(f)
         /\ f.op = top.op /\ f.s = top.s /\ f.via = top.via
<1>1. /\ top \in FrameType /\ FrameRight(top) /\ root # NoRoot
  BY TopFrame
<1>2. NoRet \in RetType /\ Nil \in RetType /\ Failed \in RetType /\ NotFound \in RetType
  BY DEF RetType, NoRet, Nil, Failed, NotFound
<1>3. r \in RetType
  BY <1>2 DEF TurnCase, Misses, Refusal
<1>4. CASE f = [top EXCEPT !.at = "body"] /\ top.at = "foreign" /\ top.s \in has /\ top.op = "call"
  BY <1>1, <1>3, <1>4 DEF FrameType, FrameRight
<1>5. CASE f = Walker(top) /\ top.at = "foreign" /\ top.s \notin has \cup Polyglots
  <2>1. /\ f = [top EXCEPT !.at = "walk", !.todo = Tail(resolve_chain(top.s))]
        /\ f \in FrameType
        /\ IsInjective(f.todo) /\ Range(f.todo) \subseteq Path \ {top.s}
        /\ "gd" \notin loops => Range(f.todo) \subseteq Scripts
    BY <1>1, <1>5, Walking
  <2> QED BY <1>1, <1>3, <1>5, <2>1 DEF FrameType, FrameRight
<1>6. CASE f = top
  BY <1>1, <1>3, <1>6
<1>7. CASE f = Advanced(top) /\ top.at = "walk" /\ top.todo # <<>>
  <2>1. PICK d : d = Tail(top.todo)
    OBVIOUS
  <2>2. /\ d \in Seq(Path) /\ Range(d) \subseteq Range(top.todo)
        /\ IsInjective(top.todo) => IsInjective(d)
    BY <1>1, <1>7, <2>1, Todos DEF FrameType
  <2>3. f = [top EXCEPT !.todo = d]
    BY <1>7, <2>1 DEF Advanced
  <2> QED BY <1>1, <1>3, <1>7, <2>2, <2>3 DEF FrameType, FrameRight
<1> QED BY <1>4, <1>5, <1>6, <1>7 DEF TurnCase

LEMMA EnterRight ==
  ASSUME Right, Running, NEW g, NEW f, EnterCase(g, f)
  PROVE  /\ g \in FrameType /\ FrameRight(g) /\ f \in FrameType /\ FrameRight(f)
         /\ g.op = top.op /\ g.s = top.s /\ g.via = top.via /\ g.at = top.at
         /\ f.op = top.op
<1>1. /\ top \in FrameType /\ FrameRight(top) /\ root # NoRoot
  BY TopFrame
<1>2. <<>> \in Seq(Path) /\ IsInjective(<<>>) /\ Range(<<>>) = {}
  BY Todos
<1>3. live \subseteq Scripts
  BY DEF Right, Typed
<1>4. CASE top.at = "body" /\ g = top
  <2>1. top.op = "call"
    BY <1>1, <1>4 DEF FrameRight
  <2>2. CASE \E t \in live : f = Frame("call", t, "bridge")
    BY <1>1, <1>2, <1>3, <1>4, <2>1, <2>2 DEF Frame, FrameType, FrameRight, Ops
  <2>3. CASE f = Walker(Frame("call", top.s, "super"))
    <3>1. PICK h : h = Frame("call", top.s, "super")
      OBVIOUS
    <3>2. h \in FrameType /\ h.op = "call" /\ h.s = top.s /\ h.via = "super"
      BY <1>1, <1>2, <3>1 DEF Frame, FrameType, Ops
    <3>3. /\ f = [h EXCEPT !.at = "walk", !.todo = Tail(resolve_chain(h.s))]
          /\ f \in FrameType
          /\ IsInjective(f.todo) /\ Range(f.todo) \subseteq Path \ {h.s}
          /\ "gd" \notin loops => Range(f.todo) \subseteq Scripts
      BY <1>1, <2>3, <3>1, <3>2, Walking
    <3>4. f.op = "call" /\ f.s = top.s /\ f.via = "super" /\ f.at = "walk"
      BY <3>2, <3>3 DEF FrameType
    <3> QED BY <1>1, <1>4, <2>1, <3>2, <3>3, <3>4 DEF FrameRight
  <2> QED BY <1>4, <2>2, <2>3 DEF EnterCase
<1>5. CASE top.at = "walk" /\ g = Advanced(top) /\ top.todo # <<>>
  <2>1. PICK d : d = Tail(top.todo)
    OBVIOUS
  <2>2. /\ d \in Seq(Path) /\ Range(d) \subseteq Range(top.todo)
        /\ IsInjective(top.todo) => IsInjective(d)
        /\ Head(top.todo) \in Range(top.todo)
    BY <1>1, <1>5, <2>1, Todos DEF FrameType
  <2>3. g = [top EXCEPT !.todo = d]
    BY <1>5, <2>1 DEF Advanced
  <2>4. /\ g \in FrameType /\ FrameRight(g)
        /\ g.op = top.op /\ g.s = top.s /\ g.via = top.via /\ g.at = top.at
    BY <1>1, <1>5, <2>2, <2>3 DEF FrameType, FrameRight
  <2>5. PICK b : b = Head(top.todo)
    OBVIOUS
  <2>6. CASE b \in live /\ top.op = "call" /\ f = Frame("call", b, "bridge")
    BY <1>1, <1>2, <1>3, <2>4, <2>6 DEF Frame, FrameType, FrameRight, Ops
  <2>7. CASE b \in live /\ top.op # "call" /\ f = Frame(top.op, b, "base")
    BY <1>1, <1>2, <1>3, <2>4, <2>7 DEF Frame, FrameType, FrameRight, Ops
  <2>8. CASE f = Frame(top.op, top.s, "engine")
    BY <1>1, <1>2, <1>3, <2>4, <2>8 DEF Frame, FrameType, FrameRight, Ops
  <2> QED BY <1>5, <2>5, <2>6, <2>7, <2>8 DEF EnterCase
<1> QED BY <1>4, <1>5 DEF EnterCase

LEMMA LeaveRight ==
  ASSUME Right, Running, NEW r, LeaveCase(r)
  PROVE  r \in RetType /\ r # NoRet /\ Seen(top, r) \in RetType /\ Seen(top, r) # NoRet
<1>1. top \in FrameType /\ ret \in RetType /\ top.s \in Scripts
  BY TopFrame DEF FrameType
<1>2. /\ Nil \in RetType /\ Failed \in RetType /\ NotFound \in RetType
      /\ Ok(top.s) \in RetType /\ Ok("engine") \in RetType
      /\ Nil # NoRet /\ Failed # NoRet /\ NotFound # NoRet /\ Ok(top.s) # NoRet
      /\ Ok("engine") # NoRet /\ Raised(top.s) \in RetType /\ Raised(top.s) # NoRet
  BY <1>1 DEF RetType, NoRet, Nil, Failed, NotFound, Ok, Raised, Path
<1>3. r \in RetType /\ r # NoRet
  BY <1>1, <1>2 DEF LeaveCase, Refusal, Outcomes
<1>4. [r EXCEPT !.rc = "ok"] \in RetType /\ [r EXCEPT !.rc = "ok"] # NoRet
  BY <1>3 DEF RetType, NoRet
<1> QED BY <1>2, <1>3, <1>4 DEF Seen

\* What the three kinds of steps make of the stack.
LEMMA TurnShape ==
  ASSUME Right, Running, NEW f \in FrameType, Settle(f)
  PROVE  /\ stack' \in Seq(FrameType) /\ Len(stack') = Len(stack)
         /\ stack'[Len(stack)] = f
         /\ \A i \in 1..Len(stack) - 1 : stack'[i] = stack[i]
<1>1. stack \in Seq(FrameType) /\ stack # <<>>
  BY DEF Right, Typed, Running
<1> HIDE DEF FrameType
<1> QED BY <1>1, Replaced DEF Settle

LEMMA LeaveShape ==
  ASSUME Right, Running, NEW r, Return(r)
  PROVE  /\ stack' \in Seq(FrameType) /\ Len(stack') = Len(stack) - 1
         /\ \A i \in 1..Len(stack) - 1 : stack'[i] = stack[i]
<1>1. stack \in Seq(FrameType) /\ stack # <<>>
  BY DEF Right, Typed, Running
<1> HIDE DEF FrameType
<1> QED BY <1>1, Fronts DEF Return

LEMMA EnterShape ==
  ASSUME Right, Running, NEW g \in FrameType, NEW f \in FrameType, Push(g, f),
         Len(stack) < MaxStack
  PROVE  /\ stack' \in Seq(FrameType) /\ Len(stack') = Len(stack) + 1
         /\ stack'[Len(stack)] = g /\ stack'[Len(stack) + 1] = f
         /\ \A i \in 1..Len(stack) - 1 : stack'[i] = stack[i]
         /\ depth' = IF f.via = "bridge" THEN depth + 1 ELSE depth
         /\ UNCHANGED <<ret, overflow>>
<1>1. stack \in Seq(FrameType) /\ stack # <<>>
  BY DEF Right, Typed, Running
<1>2. stack' = Append(Append(Front(stack), g), f)
  BY DEF Push
<1> HIDE DEF FrameType
<1>3. PICK u : u = Append(Front(stack), g)
  OBVIOUS
<1>4. /\ u \in Seq(FrameType) /\ Len(u) = Len(stack) /\ u[Len(stack)] = g
      /\ \A i \in 1..Len(stack) - 1 : u[i] = stack[i]
      /\ Len(stack) \in Nat \ {0}
  BY <1>1, <1>3, Replaced, Fronts
<1>5. /\ Append(u, f) \in Seq(FrameType) /\ Len(Append(u, f)) = Len(u) + 1
      /\ \A i \in 1..Len(u) : Append(u, f)[i] = u[i]
      /\ Append(u, f)[Len(u) + 1] = f
  BY <1>4, Appended
<1>6. stack' = Append(u, f)
  BY <1>2, <1>3
<1>7. /\ depth' = IF f.via = "bridge" THEN depth + 1 ELSE depth
      /\ UNCHANGED <<ret, overflow>>
  BY DEF Push
<1> QED BY <1>4, <1>5, <1>6, <1>7

-----------------------------------------------------------------------------
(* Types, frames and loops *)

\* Entering needs room; without it only overflow changes.
LEMMA Overflows ==
  ASSUME NEW g, NEW f, Push(g, f), ~(Len(stack) < MaxStack)
  PROVE  overflow' = TRUE /\ UNCHANGED <<stack, depth, ret>>
BY DEF Push

\* The frames below the top stay right.
LEMMA FramesKept ==
  ASSUME UNCHANGED <<world, history>>,
         \A i \in 1..Len(stack') : FrameRight(stack'[i])
  PROVE  FramesRight'
BY DEF FramesRight, FrameRight, world, history

\* The steps of the thread keep the types and the frames.
LEMMA StepRight ==
  ASSUME Right, Step
  PROVE  Right'
<1>1. /\ Running /\ UNCHANGED <<world, history>>
      /\ \/ \E f, r : Turn(f, r)
         \/ \E r : Leave(r)
         \/ \E g, f : Enter(g, f)
  BY StepCases DEF Right
<1>2. PICK n \in Nat \ {0} : n = Len(stack)
  BY <1>1, TopFrame
<1>3. /\ \A i \in 1..n : FrameRight(stack[i])
      /\ root # NoRoot /\ n <= MaxStack
  BY <1>1, <1>2, TopFrame DEF Right, FramesRight, Typed
<1>4. LoopsRight'
  <2>1. Loops' = Loops /\ HasGd' = HasGd /\ root' = root /\ loops' = loops /\ native' = native
    BY <1>1, SameChains DEF world, history
  <2> QED BY <1>3, <2>1 DEF Right, LoopsRight
<1>5. ASSUME stack' \in Seq(FrameType), Len(stack') <= MaxStack, ret' \in RetType,
             overflow' \in BOOLEAN, FramesRight'
      PROVE  Right'
  <2>1. Typed'
    BY <1>1, <1>5, SameChains DEF Right, Typed, world, history, FrameType, RetType
  <2> QED BY <1>4, <1>5, <2>1 DEF Right
<1>6. CASE \E f, r : Turn(f, r)
  <2>1. PICK f, r : Turn(f, r)
    BY <1>6
  <2>2. TurnCase(f, r) /\ Settle(f) /\ ret' = r /\ overflow' = overflow
    BY <2>1 DEF Turn
  <2>3. f \in FrameType /\ r \in RetType /\ FrameRight(f)
    BY <1>1, <2>2, TurnRight
  <2>4. /\ stack' \in Seq(FrameType) /\ Len(stack') = n /\ stack'[n] = f
        /\ \A i \in 1..n - 1 : stack'[i] = stack[i]
    BY <1>1, <1>2, <2>2, <2>3, TurnShape
  <2>5. \A i \in 1..Len(stack') : FrameRight(stack'[i])
    <3> TAKE i \in 1..Len(stack')
    <3>1. i = n \/ i \in 1..n - 1
      BY <2>4
    <3> QED BY <1>3, <2>3, <2>4, <3>1
  <2>6. FramesRight'
    BY <1>1, <2>5, FramesKept
  <2> QED BY <1>3, <1>5, <2>2, <2>3, <2>4, <2>6 DEF Right, Typed
<1>7. CASE \E r : Leave(r)
  <2>1. PICK r : Leave(r)
    BY <1>7
  <2>2. LeaveCase(r) /\ Return(r)
    BY <2>1 DEF Leave
  <2>3. Seen(top, r) \in RetType
    BY <1>1, <2>2, LeaveRight
  <2>4. /\ stack' \in Seq(FrameType) /\ Len(stack') = n - 1
        /\ \A i \in 1..n - 1 : stack'[i] = stack[i]
    BY <1>1, <1>2, <2>2, LeaveShape
  <2>5. \A i \in 1..Len(stack') : FrameRight(stack'[i])
    BY <1>3, <2>4
  <2>6. FramesRight'
    BY <1>1, <2>5, FramesKept
  <2>7. ret' = Seen(top, r) /\ overflow' = overflow
    BY <2>2 DEF Return
  <2>8. Len(stack') <= MaxStack
    BY <1>3, <2>4, InheritAssumption
  <2> QED BY <1>5, <2>3, <2>4, <2>6, <2>7, <2>8 DEF Right, Typed
<1>8. CASE \E g, f : Enter(g, f)
  <2>1. PICK g, f : Enter(g, f)
    BY <1>8
  <2>2. EnterCase(g, f) /\ Push(g, f)
    BY <2>1 DEF Enter
  <2>3. g \in FrameType /\ FrameRight(g) /\ f \in FrameType /\ FrameRight(f)
    BY <1>1, <2>2, EnterRight
  <2>4. CASE Len(stack) < MaxStack
    <3>1. /\ stack' \in Seq(FrameType) /\ Len(stack') = n + 1
          /\ stack'[n] = g /\ stack'[n + 1] = f
          /\ \A i \in 1..n - 1 : stack'[i] = stack[i]
          /\ UNCHANGED <<ret, overflow>>
      BY <1>1, <1>2, <2>2, <2>3, <2>4, EnterShape
    <3>2. \A i \in 1..Len(stack') : FrameRight(stack'[i])
      <4> TAKE i \in 1..Len(stack')
      <4>1. i = n + 1 \/ i = n \/ i \in 1..n - 1
        BY <3>1
      <4> QED BY <1>3, <2>3, <3>1, <4>1
    <3>3. FramesRight'
      BY <1>1, <3>2, FramesKept
    <3>4. Len(stack') <= MaxStack
      BY <1>2, <2>4, <3>1, InheritAssumption
    <3> QED BY <1>5, <3>1, <3>3, <3>4 DEF Right, Typed
  <2>5. CASE ~(Len(stack) < MaxStack)
    <3>1. overflow' = TRUE /\ UNCHANGED <<stack, depth, ret>>
      BY <2>2, <2>5, Overflows
    <3>2. FramesRight'
      BY <1>1, <3>1, FramesKept DEF Right, FramesRight
    <3> QED BY <1>5, <3>1, <3>2 DEF Right, Typed
  <2> QED BY <2>4, <2>5
<1> QED BY <1>1, <1>6, <1>7, <1>8

\* The steps of the engine and of the other threads.
LEMMA AccessShape ==
  ASSUME Right, NEW op \in Ops, NEW s \in Roots, Access(op, s)
  PROVE  /\ stack' \in Seq(FrameType) /\ Len(stack') = 1
         /\ stack'[1] = Frame(op, s, "engine") /\ Frame(op, s, "engine") \in FrameType
         /\ root' = [op |-> op, s |-> s] /\ root' # NoRoot /\ s \in live /\ s \in Scripts
         /\ stack = <<>> /\ root = NoRoot
         /\ ret' = NoRet /\ changes' = 0 /\ loops' = Loops /\ overflow' = overflow
         /\ UNCHANGED world /\ depth' = depth
<1>1. s \in live /\ live \subseteq Scripts /\ root = NoRoot
  BY DEF Access, Right, Typed
<1>2. <<>> \in Seq(Path)
  OBVIOUS
<1>3. Frame(op, s, "engine") \in FrameType
  BY <1>1, <1>2 DEF Frame, FrameType
<1>4. PICK f \in FrameType : f = Frame(op, s, "engine")
  BY <1>3
<1>5. stack' = <<f>>
  BY <1>4 DEF Access
<1>6. stack' \in Seq(FrameType) /\ Len(stack') = 1 /\ stack'[1] = f
  <2> HIDE DEF FrameType
  <2> QED BY <1>5
<1>7. root' = [op |-> op, s |-> s] /\ root' # NoRoot
  BY DEF Access, NoRoot, Ops
<1> QED BY <1>1, <1>3, <1>4, <1>6, <1>7 DEF Access, Right, LoopsRight

LEMMA AccessRight ==
  ASSUME Right, NEW op \in Ops, NEW s \in Roots, Access(op, s)
  PROVE  Right'
<1>1. /\ stack' \in Seq(FrameType) /\ Len(stack') = 1
      /\ stack'[1] = Frame(op, s, "engine")
      /\ root' = [op |-> op, s |-> s] /\ root' # NoRoot /\ s \in live
      /\ root = NoRoot
      /\ ret' = NoRet /\ changes' = 0 /\ loops' = Loops /\ overflow' = overflow
      /\ UNCHANGED world
  BY AccessShape
<1>2. 0 \in 0..MaxChanges /\ 1 <= MaxStack
  BY InheritAssumption
<1>3. Loops' = Loops /\ HasGd' = HasGd /\ native' = native
  BY <1>1, SameChains DEF world
<1>4. Typed'
  <2>1. NoRet \in RetType
    BY DEF NoRet, RetType
  <2> QED BY <1>1, <1>2, <2>1, LoopsAre, SameChains
          DEF Right, Typed, world, FrameType, RetType
<1>5. LoopsRight'
  BY <1>1, <1>3, LoopsAre DEF Right, LoopsRight
<1>6. FramesRight'
  <2>1. IsInjective(<<>>) /\ Range(<<>>) = {}
    BY Todos
  <2> QED BY <1>1, <2>1 DEF FramesRight, FrameRight, Frame, world, Ops
<1> QED BY <1>4, <1>5, <1>6 DEF Right

LEMMA RegisterRight ==
  ASSUME Right, NEW s \in Scripts, NEW b \in Path \cup {NoPath}, Register(s, b)
  PROVE  Right'
<1>1. /\ Running /\ changes < MaxChanges /\ changes' = changes + 1
      /\ entries' = [entries EXCEPT ![s] = b] /\ loops' = loops \cup Loops'
      /\ UNCHANGED <<quarantined, live, has, native, stack, depth, ret, overflow, root>>
  BY DEF Register, thread
<1>2. root # NoRoot
  BY <1>1, TopFrame
<1>3. Entries'
  BY <1>1 DEF Right, Typed, Entries
<1>4. Loops' \subseteq {"cycle", "gd"}
  BY DEF Loops
<1>5. changes + 1 \in 0..MaxChanges
  BY <1>1, InheritAssumption DEF Right, Typed
<1>6. Typed'
  BY <1>1, <1>3, <1>4, <1>5 DEF Right, Typed, FrameType, RetType
<1>7. LoopsRight'
  BY <1>1, <1>2 DEF Right, LoopsRight
<1>8. FramesRight'
  BY <1>1 DEF Right, FramesRight, FrameRight
<1> QED BY <1>6, <1>7, <1>8 DEF Right

\* At the start nothing is on the stack.
LEMMA InitRight == Init => Right
<1> SUFFICES ASSUME Init PROVE Right
  OBVIOUS
<1>1. Typed
  <2>1. <<>> \in Seq(FrameType) /\ Len(<<>>) = 0
    <3> HIDE DEF FrameType
    <3> QED OBVIOUS
  <2>2. NoRet \in RetType
    BY DEF NoRet, RetType
  <2>3. 0 \in 0..MaxChanges /\ 0 <= MaxStack
    BY InheritAssumption
  <2>4. /\ stack = <<>> /\ ret = NoRet /\ changes = 0 /\ overflow = FALSE /\ loops = {}
        /\ root = NoRoot /\ native \in BOOLEAN /\ Entries
        /\ quarantined \subseteq Scripts /\ live \subseteq Scripts /\ has \subseteq Scripts
        /\ Roots \subseteq live
    BY DEF Init, Entries
  <2> HIDE DEF FrameType, RetType
  <2> QED BY <2>1, <2>2, <2>3, <2>4 DEF Typed
<1>2. LoopsRight
  BY DEF Init, LoopsRight
<1>3. FramesRight
  BY DEF Init, FramesRight
<1> QED BY <1>1, <1>2, <1>3 DEF Right

-----------------------------------------------------------------------------
(* Counting the bridge's activations *)

\* The activations of the bridge among the lowest k frames: what its guard counts.
Bridges(s, k) == {i \in 1..k : s[i].via = "bridge"}
Depth(s, k) == Cardinality(Bridges(s, k))

\* What one frame more or less makes of the depth.
LEMMA DepthFacts ==
  ASSUME NEW s, NEW k \in Nat
  PROVE  /\ IsFiniteSet(Bridges(s, k)) /\ Depth(s, k) \in Nat
         /\ Depth(s, 0) = 0
         /\ Depth(s, k + 1) = Depth(s, k) + (IF s[k + 1].via = "bridge" THEN 1 ELSE 0)
<1>1. \A n \in Nat : IsFiniteSet(Bridges(s, n))
  <2> TAKE n \in Nat
  <2>1. IsFiniteSet(1..n)
    BY FS_Interval
  <2>2. Bridges(s, n) \subseteq 1..n
    BY DEF Bridges
  <2> QED BY <2>1, <2>2, FS_Subset
<1>2. Depth(s, k) \in Nat
  BY <1>1, FS_CardinalityType DEF Depth
<1>3. Depth(s, 0) = 0
  <2>1. Bridges(s, 0) = {}
    BY DEF Bridges
  <2> QED BY <2>1, FS_EmptySet DEF Depth
<1>4. CASE s[k + 1].via = "bridge"
  <2>1. Bridges(s, k + 1) = Bridges(s, k) \cup {k + 1} /\ k + 1 \notin Bridges(s, k)
    BY <1>4 DEF Bridges
  <2>2. Cardinality(Bridges(s, k) \cup {k + 1}) = Cardinality(Bridges(s, k)) + 1
    BY <1>1, <2>1, FS_AddElement
  <2> QED BY <1>1, <1>2, <1>3, <1>4, <2>1, <2>2 DEF Depth
<1>5. CASE s[k + 1].via # "bridge"
  <2>1. Bridges(s, k + 1) = Bridges(s, k)
    BY <1>5 DEF Bridges
  <2> QED BY <1>1, <1>2, <1>3, <1>5, <2>1 DEF Depth
<1> QED BY <1>4, <1>5

\* The depth is a matter of who called each frame.
LEMMA SameDepth ==
  ASSUME NEW s, NEW u, NEW k \in Nat, \A i \in 1..k : s[i].via = u[i].via
  PROVE  Depth(s, k) = Depth(u, k)
<1>1. Bridges(s, k) = Bridges(u, k)
  BY DEF Bridges
<1> QED BY <1>1 DEF Depth

\* tl_call_depth is the number of activations on the stack.
DepthRight == depth = Depth(stack, Len(stack)) /\ depth <= PL_BRIDGE_MAX_CALL_DEPTH

\* At most one super() between two activations of the bridge.
Interleaved ==
    "gd" \notin loops /\ root.op = "call" =>
        \A k \in 1..Len(stack) :
            k <= 2 * (1 + Depth(stack, k)) - (IF stack[k].via = "super" THEN 0 ELSE 1)

Counted == DepthRight /\ Interleaved

\* The steps that turn the top frame, return from it or call keep the count.
LEMMA TurnCounted ==
  ASSUME Right, Counted, Running, UNCHANGED <<world, history>>, NEW f, NEW r, Turn(f, r)
  PROVE  Counted'
<1>1. TurnCase(f, r) /\ Settle(f) /\ depth' = depth
  BY DEF Turn
<1>2. f \in FrameType /\ f.via = top.via
  BY <1>1, TurnRight
<1>3. PICK n \in Nat \ {0} : n = Len(stack) /\ top = stack[n]
  BY TopFrame
<1>4. Len(stack') = n /\ stack'[n] = f /\ \A i \in 1..n - 1 : stack'[i] = stack[i]
  BY <1>1, <1>2, <1>3, TurnShape
<1>5. \A i \in 1..n : stack'[i].via = stack[i].via
  <2> TAKE i \in 1..n
  <2>1. i = n \/ i \in 1..n - 1
    OBVIOUS
  <2> QED BY <1>2, <1>3, <1>4, <2>1
<1>6. \A k \in 1..n : Depth(stack', k) = Depth(stack, k)
  BY <1>5, SameDepth
<1>7. DepthRight'
  BY <1>1, <1>3, <1>4, <1>6 DEF Counted, DepthRight
<1>8. Interleaved'
  BY <1>3, <1>4, <1>5, <1>6 DEF Counted, Interleaved, history
<1> QED BY <1>7, <1>8 DEF Counted

LEMMA LeaveCounted ==
  ASSUME Right, Counted, Running, UNCHANGED <<world, history>>, NEW r, Leave(r)
  PROVE  Counted'
<1>1. Return(r) /\ depth' = IF top.via = "bridge" THEN depth - 1 ELSE depth
  BY DEF Leave, Return
<1>2. PICK n \in Nat \ {0} : n = Len(stack) /\ top = stack[n]
  BY TopFrame
<1>3. Len(stack') = n - 1 /\ \A i \in 1..n - 1 : stack'[i] = stack[i]
  BY <1>1, <1>2, LeaveShape
<1>4. \A k \in 0..n - 1 : Depth(stack', k) = Depth(stack, k)
  BY <1>3, SameDepth
<1>5. PICK m \in Nat : n = m + 1
  BY <1>2
<1>6. /\ Depth(stack, m) \in Nat
      /\ Depth(stack, n) = Depth(stack, m) + (IF stack[n].via = "bridge" THEN 1 ELSE 0)
  BY <1>5, DepthFacts
<1>7. depth = Depth(stack, n) /\ depth <= PL_BRIDGE_MAX_CALL_DEPTH
      /\ PL_BRIDGE_MAX_CALL_DEPTH \in Nat
  BY <1>2, InheritAssumption DEF Counted, DepthRight
<1>8. depth' = Depth(stack, m) /\ depth' <= PL_BRIDGE_MAX_CALL_DEPTH
  BY <1>1, <1>2, <1>6, <1>7
<1>9. DepthRight'
  <2>1. Len(stack') = m /\ Depth(stack', m) = Depth(stack, m)
    BY <1>3, <1>4, <1>5
  <2> QED BY <1>8, <2>1 DEF DepthRight
<1>10. Interleaved'
  <2> SUFFICES ASSUME "gd" \notin loops, root.op = "call", NEW k \in 1..n - 1
               PROVE  k <= 2 * (1 + Depth(stack', k))
                           - (IF stack'[k].via = "super" THEN 0 ELSE 1)
    BY <1>3 DEF Interleaved, history
  <2>1. /\ k \in 1..Len(stack) /\ Depth(stack', k) = Depth(stack, k)
        /\ stack'[k] = stack[k]
    BY <1>2, <1>3, <1>4
  <2> QED BY <2>1 DEF Counted, Interleaved
<1> QED BY <1>9, <1>10 DEF Counted

\* What a step pushes, in terms of the counts.
LEMMA EnterCounts ==
  ASSUME Right, Running, NEW g, NEW f, EnterCase(g, f)
  PROVE  /\ f.via = "bridge" => GuardPasses
         /\ f.via = "super" => top.via # "super"
         /\ "gd" \notin loops /\ root.op = "call" => f.via \in {"bridge", "super"}
<1>1. top \in FrameType /\ FrameRight(top)
  BY TopFrame
<1>2. CASE top.at = "body" /\ GuardPasses /\ \E t \in live : f = Frame("call", t, "bridge")
  BY <1>2 DEF Frame
<1>3. CASE top.at = "body" /\ f = Walker(Frame("call", top.s, "super"))
  BY <1>1, <1>3 DEF Walker, Frame, FrameRight
<1>4. CASE top.at = "walk" /\ GuardPasses /\ f = Frame("call", Head(top.todo), "bridge")
  BY <1>4 DEF Frame
<1>5. CASE top.op # "call" /\ f = Frame(top.op, Head(top.todo), "base")
  BY <1>1, <1>5 DEF Frame, FrameRight
<1>6. CASE top.todo # <<>> /\ Head(top.todo) \notin Scripts /\ f = Frame(top.op, top.s, "engine")
  <2>1. "gd" \in loops
    BY <1>1, <1>6, Todos DEF FrameRight, FrameType
  <2> QED BY <1>6, <2>1 DEF Frame
<1> QED BY <1>2, <1>3, <1>4, <1>5, <1>6 DEF EnterCase

LEMMA EnterCounted ==
  ASSUME Right, Counted, Running, UNCHANGED <<world, history>>, NEW g, NEW f, Enter(g, f)
  PROVE  Counted'
<1>1. EnterCase(g, f) /\ Push(g, f)
  BY DEF Enter
<1>2. g \in FrameType /\ f \in FrameType /\ g.via = top.via
  BY <1>1, EnterRight
<1>3. PICK n \in Nat \ {0} : n = Len(stack) /\ top = stack[n]
  BY TopFrame
<1>4. CASE ~(Len(stack) < MaxStack)
  <2>1. UNCHANGED <<stack, depth>>
    BY <1>1, <1>4, Overflows
  <2> QED BY <2>1 DEF Counted, DepthRight, Interleaved, history
<1>5. CASE Len(stack) < MaxStack
  <2>1. /\ Len(stack') = n + 1 /\ stack'[n] = g /\ stack'[n + 1] = f
        /\ \A i \in 1..n - 1 : stack'[i] = stack[i]
        /\ depth' = IF f.via = "bridge" THEN depth + 1 ELSE depth
    BY <1>1, <1>2, <1>3, <1>5, EnterShape
  <2>2. \A i \in 1..n : stack'[i].via = stack[i].via
    <3> TAKE i \in 1..n
    <3>1. i = n \/ i \in 1..n - 1
      OBVIOUS
    <3> QED BY <1>2, <1>3, <2>1, <3>1
  <2>3. \A k \in 1..n : Depth(stack', k) = Depth(stack, k)
    BY <2>2, SameDepth
  <2>4. /\ Depth(stack, n) \in Nat
        /\ Depth(stack', n + 1) = Depth(stack, n) + (IF f.via = "bridge" THEN 1 ELSE 0)
    <3>1. n \in Nat
      BY <1>3
    <3>2. /\ Depth(stack, n) \in Nat
          /\ Depth(stack', n + 1)
                 = Depth(stack', n) + (IF stack'[n + 1].via = "bridge" THEN 1 ELSE 0)
      BY <3>1, DepthFacts
    <3> QED BY <1>3, <2>1, <2>3, <3>2
  <2>5. /\ f.via = "bridge" => depth < PL_BRIDGE_MAX_CALL_DEPTH
        /\ f.via = "super" => top.via # "super"
        /\ "gd" \notin loops /\ root.op = "call" => f.via \in {"bridge", "super"}
    BY <1>1, EnterCounts DEF GuardPasses
  <2>6. depth = Depth(stack, n) /\ depth <= PL_BRIDGE_MAX_CALL_DEPTH
        /\ PL_BRIDGE_MAX_CALL_DEPTH \in Nat
    BY <1>3, InheritAssumption DEF Counted, DepthRight
  <2>7. DepthRight'
    <3>1. depth' = Depth(stack', n + 1) /\ depth' <= PL_BRIDGE_MAX_CALL_DEPTH
      BY <2>1, <2>4, <2>5, <2>6
    <3> QED BY <2>1, <3>1 DEF DepthRight
  <2>8. Interleaved'
    <3> SUFFICES ASSUME "gd" \notin loops, root.op = "call", NEW k \in 1..n + 1
                 PROVE  k <= 2 * (1 + Depth(stack', k))
                             - (IF stack'[k].via = "super" THEN 0 ELSE 1)
      BY <2>1 DEF Interleaved, history
    <3>1. CASE k \in 1..n
      <4>1. k <= 2 * (1 + Depth(stack, k)) - (IF stack[k].via = "super" THEN 0 ELSE 1)
        BY <1>3, <3>1 DEF Counted, Interleaved
      <4> QED BY <2>2, <2>3, <3>1, <4>1
    <3>2. CASE k = n + 1
      <4>1. n <= 2 * (1 + Depth(stack, n)) - (IF top.via = "super" THEN 0 ELSE 1)
        BY <1>3 DEF Counted, Interleaved
      <4>2. f.via = "bridge" \/ (f.via = "super" /\ top.via # "super")
        BY <2>5
      <4>3. CASE f.via = "bridge"
        BY <2>1, <2>4, <3>2, <4>1, <4>3
      <4>4. CASE f.via = "super" /\ top.via # "super"
        BY <2>1, <2>4, <3>2, <4>1, <4>4
      <4> QED BY <4>2, <4>3, <4>4
    <3> QED BY <3>1, <3>2
  <2> QED BY <2>7, <2>8 DEF Counted
<1> QED BY <1>4, <1>5

\* Every step keeps the count.
LEMMA NextCounted ==
  ASSUME Right, Counted, Next
  PROVE  Counted'
<1>1. ASSUME NEW op \in Ops, NEW s \in Roots, Access(op, s) PROVE Counted'
  <2>1. /\ Len(stack') = 1 /\ stack'[1] = Frame(op, s, "engine") /\ stack = <<>>
        /\ depth' = depth
    BY <1>1, AccessShape
  <2>2. depth = 0
    BY <2>1, DepthFacts DEF Counted, DepthRight
  <2>3. Depth(stack', 0) = 0 /\ stack'[0 + 1].via = "engine"
    BY <2>1, DepthFacts DEF Frame
  <2>4. Depth(stack', 0 + 1) = Depth(stack', 0) + (IF stack'[0 + 1].via = "bridge" THEN 1 ELSE 0)
    BY DepthFacts
  <2>5. Depth(stack', 1) = 0
    BY <2>3, <2>4
  <2> QED BY <2>1, <2>2, <2>3, <2>5, InheritAssumption DEF Counted, DepthRight, Interleaved
<1>2. ASSUME NEW s \in Scripts, NEW b \in Path \cup {NoPath}, Register(s, b) PROVE Counted'
  BY <1>2 DEF Register, thread, Counted, DepthRight, Interleaved
<1>3. CASE Step
  <2>1. /\ Running /\ UNCHANGED <<world, history>>
        /\ \/ \E f, r : Turn(f, r)
           \/ \E r : Leave(r)
           \/ \E g, f : Enter(g, f)
    BY <1>3, StepCases DEF Right
  <2> QED BY <2>1, TurnCounted, LeaveCounted, EnterCounted
<1> QED BY <1>1, <1>2, <1>3 DEF Next

\* The stack is one the bridge can produce.
THEOREM StackRight == Spec => []StackWellFormed
<1> DEFINE Inv == Right /\ Counted
<1>1. Init => Inv
  <2> SUFFICES ASSUME Init PROVE Counted
    BY InitRight
  <2>1. stack = <<>> /\ depth = 0
    BY DEF Init
  <2>2. Depth(stack, 0) = 0
    BY DepthFacts
  <2> QED BY <2>1, <2>2, InheritAssumption DEF Counted, DepthRight, Interleaved
<1>2. Inv /\ [Next]_vars => Inv'
  <2> SUFFICES ASSUME Inv, [Next]_vars PROVE Inv'
    OBVIOUS
  <2>1. CASE Next
    BY <2>1, NextCounted, AccessRight, RegisterRight, StepRight DEF Next
  <2>2. CASE UNCHANGED vars
    <3>1. UNCHANGED <<world, thread, history>>
      BY <2>2 DEF vars
    <3>2. Typed'
      BY <3>1, SameChains DEF Right, Typed, world, thread, history, FrameType, RetType
    <3>3. LoopsRight'
      BY <3>1, SameChains DEF Right, LoopsRight, world, thread, history
    <3>4. FramesRight'
      BY <3>1 DEF Right, FramesRight, FrameRight, world, thread, history
    <3>5. Counted'
      BY <3>1 DEF Counted, DepthRight, Interleaved, thread, history
    <3> QED BY <3>2, <3>3, <3>4, <3>5 DEF Right
  <2> QED BY <2>1, <2>2
<1>3. Inv => StackWellFormed
  <2> SUFFICES ASSUME Inv PROVE StackWellFormed
    OBVIOUS
  <2>1. PICK n \in Nat : n = Len(stack) /\ DOMAIN stack = 1..n
    BY DEF Right, Typed
  <2>2. DepthIsBridgeFrames
    BY <2>1 DEF Counted, DepthRight, Depth, Bridges, DepthIsBridgeFrames
  <2>3. depth \in Nat
    BY <2>1, DepthFacts DEF Counted, DepthRight
  <2>4. \A f \in Range(stack) :
          /\ f.op \in Ops /\ f.s \in live /\ f.via \in {"engine", "bridge", "base", "super"}
          /\ f.at \in {"foreign", "body", "walk"}
          /\ Range(f.todo) \subseteq Path \ {f.s} /\ IsInjective(f.todo)
    <3> TAKE f \in Range(stack)
    <3>1. PICK i \in 1..n : f = stack[i]
      BY <2>1 DEF Range
    <3>2. f \in FrameType /\ FrameRight(f)
      BY <2>1, <3>1 DEF Right, FramesRight, Typed
    <3> QED BY <3>2 DEF FrameType, FrameRight
  <2>5. TypeOK
    BY <2>3, <2>4 DEF TypeOK, Right, Typed, Entries, RetType
  <2> QED BY <2>2, <2>5 DEF StackWellFormed
<1> QED BY <1>1, <1>2, <1>3, PTL DEF Spec

-----------------------------------------------------------------------------
(* Reads and writes *)

\* The paths that each script leads to, and what makes them an order.
Chains == [p \in Scripts |-> Range(resolve_chain(p))]

\* A script reaches itself first, what its bases reach, and no script that reaches it.
Ordered(C) ==
    /\ \A s \in Scripts : s \in C[s]
    /\ \A s, t \in Scripts : t \in C[s] => C[t] \subseteq C[s]
    /\ \A s, t \in Scripts : t \in C[s] /\ s \in C[t] => s = t

\* Without a cycle the chains are such an order.
LEMMA ChainsOrdered ==
  ASSUME Entries, MaxChain \in Nat, ~Cyclic
  PROVE  Ordered(Chains)
<1>1. \A s \in Scripts : Chains[s] = Range(resolve_chain(s))
  BY DEF Chains
<1>2. ASSUME NEW s \in Scripts PROVE s \in Chains[s]
  <2>1. PICK c : c = resolve_chain(s)
    OBVIOUS
  <2>2. ChainOf(c, s)
    BY <2>1, ChainFacts
  <2>3. 1 \in 1..Len(c) /\ s = c[1] /\ Range(c) = {c[i] : i \in 1..Len(c)}
    BY <2>2 DEF ChainOf
  <2>4. s \in Range(c)
    BY <2>3
  <2> QED BY <1>1, <2>1, <2>4
<1>3. ASSUME NEW s \in Scripts, NEW t \in Scripts, t \in Chains[s]
      PROVE  Chains[t] \subseteq Chains[s]
  BY <1>1, <1>3, ChainTransitive
<1>4. ASSUME NEW s \in Scripts, NEW t \in Scripts, t \in Chains[s], s \in Chains[t]
      PROVE  s = t
  BY <1>1, <1>4, ChainAntisymmetric
<1> QED BY <1>2, <1>3, <1>4 DEF Ordered

\* The frames 1..n of a stack s, each put into the epoch (of c registrations so far) in
\* which it was pushed or its walk began: within an epoch no script comes twice, nor will.
Epochs(s, n, w, c, C) ==
    /\ \A i, j \in 1..n : i < j => w[i] <= w[j]
    /\ \A i, j \in 1..n : i < j /\ w[i] = w[j] => s[i].s # s[j].s
    /\ \A i, j \in 1..n : j <= i /\ w[i] = w[j] => s[j].s \notin Range(s[i].todo)
    /\ \A i, j \in 1..n : j <= i /\ w[i] = c /\ w[j] = c => s[i].s \in C[s[j].s]
    /\ \A i \in 1..n : w[i] = c => Range(s[i].todo) \subseteq C[s[i].s]

\* The top frame goes on with what is left of its list ...
LEMMA EpochsTop ==
  ASSUME NEW n \in Nat \ {0}, NEW c \in Nat, NEW C, NEW w \in [1..n -> 0..c],
         NEW s, NEW u, Epochs(s, n, w, c, C),
         \A i \in 1..n - 1 : u[i] = s[i],
         u[n].s = s[n].s, Range(u[n].todo) \subseteq Range(s[n].todo)
  PROVE  Epochs(u, n, w, c, C)
<1>1. \A i \in 1..n : u[i].s = s[i].s /\ Range(u[i].todo) \subseteq Range(s[i].todo)
  <2> TAKE i \in 1..n
  <2>1. i = n \/ i \in 1..n - 1
    OBVIOUS
  <2> QED BY <2>1
<1>2. \A i, j \in 1..n : i < j => w[i] <= w[j]
  BY DEF Epochs
<1>3. \A i, j \in 1..n : i < j /\ w[i] = w[j] => u[i].s # u[j].s
  BY <1>1 DEF Epochs
<1>4. \A i, j \in 1..n : j <= i /\ w[i] = w[j] => u[j].s \notin Range(u[i].todo)
  BY <1>1 DEF Epochs
<1>5. \A i, j \in 1..n : j <= i /\ w[i] = c /\ w[j] = c => u[i].s \in C[u[j].s]
  BY <1>1 DEF Epochs
<1>6. \A i \in 1..n : w[i] = c => Range(u[i].todo) \subseteq C[u[i].s]
  BY <1>1 DEF Epochs
<1> QED BY <1>2, <1>3, <1>4, <1>5, <1>6 DEF Epochs

\* ... or begins to walk, ...
LEMMA EpochsWalk ==
  ASSUME NEW n \in Nat \ {0}, NEW c \in Nat, NEW C, NEW w \in [1..n -> 0..c],
         NEW s, NEW u, Epochs(s, n, w, c, C), Ordered(C),
         \A i \in 1..n : s[i].s \in Scripts,
         \A i \in 1..n - 1 : u[i] = s[i],
         u[n].s = s[n].s, Range(u[n].todo) \subseteq C[u[n].s] \ {u[n].s},
         Range(u[n].todo) \subseteq Scripts
  PROVE  \E v \in [1..n -> 0..c] : Epochs(u, n, v, c, C)
<1> DEFINE v == [w EXCEPT ![n] = c]
<1>1. v \in [1..n -> 0..c] /\ v[n] = c /\ \A i \in 1..n - 1 : v[i] = w[i] /\ w[i] \in 0..c
  OBVIOUS
<1> HIDE DEF v
<1>2. \A i \in 1..n : i = n \/ i \in 1..n - 1
  OBVIOUS
<1>3. \A i \in 1..n : u[i].s = s[i].s
  BY <1>2
<1>4. w[n] \in 0..c /\ \A i \in 1..n - 1 : w[i] <= w[n]
  BY DEF Epochs
<1>5. \A i, j \in 1..n : i < j => v[i] <= v[j]
  <2> SUFFICES ASSUME NEW i \in 1..n, NEW j \in 1..n, i < j PROVE v[i] <= v[j]
    OBVIOUS
  <2>1. i \in 1..n - 1 /\ v[i] = w[i] /\ w[i] \in 0..c
    BY <1>1
  <2>2. CASE j = n
    BY <1>1, <2>1, <2>2
  <2>3. CASE j \in 1..n - 1
    <3>1. v[j] = w[j] /\ w[i] <= w[j]
      BY <1>1, <2>3 DEF Epochs
    <3> QED BY <2>1, <3>1
  <2> QED BY <1>2, <2>2, <2>3
<1>6. ASSUME NEW j \in 1..n - 1, v[j] = c
      PROVE  /\ w[j] = c /\ w[n] = c /\ s[j].s # s[n].s
             /\ s[n].s \in C[s[j].s] /\ s[j].s \notin Range(u[n].todo)
  <2>1. w[j] = c /\ w[n] = c
    <3>1. w[j] = c
      BY <1>1, <1>6
    <3>2. w[n] \in 0..c /\ w[j] <= w[n]
      BY <1>4
    <3> QED BY <3>1, <3>2
  <2>2. j \in 1..n /\ n \in 1..n /\ j < n /\ j <= n
    OBVIOUS
  <2>3. s[j].s # s[n].s /\ s[n].s \in C[s[j].s]
    BY <2>1, <2>2 DEF Epochs
  <2>4. s[j].s \notin Range(u[n].todo)
    <3> SUFFICES ASSUME s[j].s \in Range(u[n].todo) PROVE FALSE
      OBVIOUS
    <3>1. s[j].s \in C[s[n].s] /\ s[j].s \in Scripts /\ s[n].s \in Scripts
      BY <2>2
    <3> QED BY <2>3, <3>1 DEF Ordered
  <2> QED BY <2>1, <2>3, <2>4
<1>7. \A i, j \in 1..n : i < j /\ v[i] = v[j] => u[i].s # u[j].s
  BY <1>1, <1>2, <1>3, <1>6 DEF Epochs
<1>8. ASSUME NEW i \in 1..n, NEW j \in 1..n, j <= i, v[i] = v[j]
      PROVE  u[j].s \notin Range(u[i].todo)
  <2>1. CASE i = n /\ j = n
    BY <2>1
  <2>2. CASE i = n /\ j \in 1..n - 1
    BY <1>1, <1>3, <1>6, <1>8, <2>2
  <2>3. CASE i \in 1..n - 1
    <3>1. j \in 1..n - 1 /\ w[i] = w[j] /\ u[i] = s[i] /\ u[j] = s[j]
      BY <1>1, <1>8, <2>3
    <3> QED BY <1>8, <3>1 DEF Epochs
  <2> QED BY <1>2, <2>1, <2>2, <2>3
<1>9. ASSUME NEW i \in 1..n, NEW j \in 1..n, j <= i, v[i] = c, v[j] = c
      PROVE  u[i].s \in C[u[j].s]
  <2>1. CASE i = n /\ j = n
    BY <1>3, <2>1 DEF Ordered
  <2>2. CASE i = n /\ j \in 1..n - 1
    BY <1>3, <1>6, <1>9, <2>2
  <2>3. CASE i \in 1..n - 1
    <3>1. j \in 1..n - 1 /\ w[i] = c /\ w[j] = c /\ u[i] = s[i] /\ u[j] = s[j]
      BY <1>1, <1>9, <2>3
    <3> QED BY <1>9, <3>1 DEF Epochs
  <2> QED BY <1>2, <2>1, <2>2, <2>3
<1>10. ASSUME NEW i \in 1..n, v[i] = c PROVE Range(u[i].todo) \subseteq C[u[i].s]
  <2>1. CASE i = n
    BY <2>1
  <2>2. CASE i \in 1..n - 1
    BY <1>1, <1>10, <2>2 DEF Epochs
  <2> QED BY <1>2, <2>1, <2>2
<1>11. Epochs(u, n, v, c, C)
  BY <1>5, <1>7, <1>8, <1>9, <1>10 DEF Epochs
<1> QED BY <1>1, <1>11

\* ... or asks a base b of its list, ...
LEMMA EpochsPush ==
  ASSUME NEW n \in Nat \ {0}, NEW c \in Nat, NEW C, NEW w \in [1..n -> 0..c],
         NEW s, NEW u, NEW b \in Scripts, Epochs(s, n, w, c, C), Ordered(C),
         \A i \in 1..n : s[i].s \in Scripts,
         \A i \in 1..n - 1 : u[i] = s[i],
         u[n].s = s[n].s, Range(u[n].todo) \subseteq Range(s[n].todo),
         b \in Range(s[n].todo), u[n + 1].s = b, Range(u[n + 1].todo) = {}
  PROVE  \E v \in [1..n + 1 -> 0..c] : Epochs(u, n + 1, v, c, C)
<1> DEFINE v == [i \in 1..n + 1 |-> IF i = n + 1 THEN c ELSE w[i]]
<1>1. /\ v \in [1..n + 1 -> 0..c] /\ v[n + 1] = c
      /\ \A i \in 1..n : v[i] = w[i] /\ w[i] \in 0..c
  OBVIOUS
<1> HIDE DEF v
<1>2. \A i \in 1..n + 1 : i = n + 1 \/ i \in 1..n
  OBVIOUS
<1>3. Epochs(u, n, w, c, C)
  BY EpochsTop
<1>4. \A i \in 1..n : u[i].s = s[i].s /\ s[i].s \in Scripts
  <2> TAKE i \in 1..n
  <2>1. i = n \/ i \in 1..n - 1
    OBVIOUS
  <2> QED BY <2>1
<1>5. ASSUME NEW j \in 1..n, w[j] = c
      PROVE  u[j].s # b /\ b \in C[u[j].s]
  <2>1. n \in 1..n /\ j <= n /\ w[n] = c
    <3>1. n \in 1..n /\ j <= n
      OBVIOUS
    <3>2. w[n] >= w[j]
      BY <1>1, <3>1 DEF Epochs
    <3> QED BY <1>1, <1>5, <3>1, <3>2
  <2>2. s[j].s \notin Range(s[n].todo)
    BY <1>5, <2>1 DEF Epochs
  <2>3. b \in C[s[n].s] /\ s[n].s \in C[s[j].s]
    BY <1>5, <2>1 DEF Epochs
  <2>4. C[s[n].s] \subseteq C[s[j].s]
    BY <1>4, <2>1, <2>3 DEF Ordered
  <2> QED BY <1>4, <2>2, <2>3, <2>4
<1>6. ASSUME NEW i \in 1..n + 1, NEW j \in 1..n + 1, i < j
      PROVE  v[i] <= v[j]
  <2>1. i \in 1..n /\ v[i] = w[i] /\ w[i] \in 0..c
    BY <1>1, <1>6
  <2>2. CASE j = n + 1
    BY <1>1, <2>1, <2>2
  <2>3. CASE j \in 1..n
    <3>1. w[i] <= w[j]
      BY <1>6, <2>1, <2>3 DEF Epochs
    <3> QED BY <1>1, <2>1, <2>3, <3>1
  <2> QED BY <1>2, <2>2, <2>3
<1>7. ASSUME NEW i \in 1..n + 1, NEW j \in 1..n + 1, i < j, v[i] = v[j]
      PROVE  u[i].s # u[j].s
  <2>1. i \in 1..n
    BY <1>7
  <2>2. CASE j = n + 1
    BY <1>1, <1>5, <1>7, <2>1, <2>2
  <2>3. CASE j \in 1..n
    BY <1>1, <1>3, <1>7, <2>1, <2>3 DEF Epochs
  <2> QED BY <1>2, <2>2, <2>3
<1>8. ASSUME NEW i \in 1..n + 1, NEW j \in 1..n + 1, j <= i, v[i] = v[j]
      PROVE  u[j].s \notin Range(u[i].todo)
  <2>1. CASE i = n + 1
    BY <2>1
  <2>2. CASE i \in 1..n
    <3>1. j \in 1..n /\ w[i] = w[j]
      BY <1>1, <1>8, <2>2
    <3> QED BY <1>3, <1>8, <2>2, <3>1 DEF Epochs
  <2> QED BY <1>2, <2>1, <2>2
<1>9. ASSUME NEW i \in 1..n + 1, NEW j \in 1..n + 1, j <= i, v[i] = c, v[j] = c
      PROVE  u[i].s \in C[u[j].s]
  <2>1. CASE i = n + 1 /\ j = n + 1
    BY <2>1 DEF Ordered
  <2>2. CASE i = n + 1 /\ j \in 1..n
    BY <1>1, <1>5, <1>9, <2>2
  <2>3. CASE i \in 1..n
    <3>1. j \in 1..n /\ w[i] = c /\ w[j] = c
      BY <1>1, <1>9, <2>3
    <3> QED BY <1>3, <1>9, <2>3, <3>1 DEF Epochs
  <2> QED BY <1>2, <2>1, <2>2, <2>3
<1>10. ASSUME NEW i \in 1..n + 1, v[i] = c PROVE Range(u[i].todo) \subseteq C[u[i].s]
  <2>1. CASE i = n + 1
    BY <2>1
  <2>2. CASE i \in 1..n
    BY <1>1, <1>3, <1>10, <2>2 DEF Epochs
  <2> QED BY <1>2, <2>1, <2>2
<1>11. Epochs(u, n + 1, v, c, C)
  BY <1>6, <1>7, <1>8, <1>9, <1>10 DEF Epochs
<1> QED BY <1>1, <1>11

\* ... or is gone.
LEMMA EpochsPop ==
  ASSUME NEW n \in Nat \ {0}, NEW c \in Nat, NEW C, NEW w \in [1..n -> 0..c],
         NEW s, NEW u, Epochs(s, n, w, c, C), \A i \in 1..n - 1 : u[i] = s[i]
  PROVE  \E v \in [1..n - 1 -> 0..c] : Epochs(u, n - 1, v, c, C)
<1> DEFINE v == [i \in 1..n - 1 |-> w[i]]
<1>1. v \in [1..n - 1 -> 0..c] /\ \A i \in 1..n - 1 : v[i] = w[i] /\ i \in 1..n
  OBVIOUS
<1> HIDE DEF v
<1>2. Epochs(s, n - 1, v, c, C)
  BY <1>1 DEF Epochs
<1>3. Epochs(u, n - 1, v, c, C)
  BY <1>2 DEF Epochs
<1> QED BY <1>1, <1>3

\* A registration begins an epoch, whatever it makes of the chains.
LEMMA EpochsNext ==
  ASSUME NEW n \in Nat, NEW c \in Nat, NEW C, NEW D, NEW w \in [1..n -> 0..c],
         NEW s, Epochs(s, n, w, c, C)
  PROVE  w \in [1..n -> 0..c + 1] /\ Epochs(s, n, w, c + 1, D)
<1>1. \A i \in 1..n : w[i] \in 0..c /\ w[i] # c + 1
  OBVIOUS
<1>2. w \in [1..n -> 0..c + 1]
  BY <1>1
<1> QED BY <1>1, <1>2 DEF Epochs

\* So there are no more frames than scripts, in each epoch.
LEMMA EpochsBound ==
  ASSUME NEW n \in Nat, NEW c \in Nat, NEW C, NEW w \in [1..n -> 0..c],
         NEW s, Epochs(s, n, w, c, C),
         \A i \in 1..n : s[i].s \in Scripts,
         IsFiniteSet(Scripts), NEW m \in Nat, c <= m
  PROVE  n <= Cardinality(Scripts) * (m + 1)
<1> DEFINE f == [i \in 1..n |-> <<s[i].s, w[i]>>]
<1>1. \A i \in 1..n : w[i] \in 0..m
  OBVIOUS
<1>2. f \in [1..n -> Scripts \X (0..m)]
  BY <1>1
<1>3. ASSUME NEW i \in 1..n, NEW j \in 1..n, f[i] = f[j] PROVE i = j
  <2>1. s[i].s = s[j].s /\ w[i] = w[j]
    BY <1>3
  <2>2. ~(i < j) /\ ~(j < i)
    BY <2>1 DEF Epochs
  <2> QED BY <2>2
<1>4. f \in Injection(1..n, Scripts \X (0..m))
  <2>1. DOMAIN f = 1..n
    OBVIOUS
  <2> HIDE DEF f
  <2> QED BY <1>2, <1>3, <2>1 DEF Injection, IsInjective
<1>5. IsFiniteSet(0..m) /\ Cardinality(0..m) = m + 1
  BY FS_Interval
<1>6. /\ IsFiniteSet(Scripts \X (0..m))
      /\ Cardinality(Scripts \X (0..m)) = Cardinality(Scripts) * (m + 1)
  BY <1>5, FS_Product
<1>7. Cardinality(1..n) <= Cardinality(Scripts \X (0..m))
  <2> HIDE DEF f
  <2> QED BY <1>4, <1>6, FS_Injection
<1>8. Cardinality(1..n) = n
  BY FS_Interval
<1> QED BY <1>6, <1>7, <1>8

\* The frames of a read or write can be grouped in epochs.
Grouped ==
    loops = {} /\ root.op # "call" =>
        \E w \in [1..Len(stack) -> 0..changes] :
            Epochs(stack, Len(stack), w, changes, Chains)

\* An access that has met neither a cycle nor a .gd base.
LEMMA Unlooped ==
  ASSUME Right, Running, loops = {}
  PROVE  /\ ~Cyclic /\ ~HasGd /\ Entries /\ MaxChain \in Nat /\ Ordered(Chains)
         /\ ~native /\ changes \in Nat
         /\ \A i \in 1..Len(stack) : stack[i].s \in Scripts
<1>1. root # NoRoot
  BY TopFrame
<1>2. ~Cyclic /\ ~HasGd /\ ~native
  BY <1>1, LoopsAre DEF Right, LoopsRight
<1>3. Entries /\ MaxChain \in Nat
  BY InheritAssumption DEF Right, Typed
<1>4. Ordered(Chains)
  BY <1>2, <1>3, ChainsOrdered
<1>5. changes \in Nat
  BY InheritAssumption DEF Right, Typed
<1>6. \A i \in 1..Len(stack) : stack[i].s \in Scripts
  <2> TAKE i \in 1..Len(stack)
  <2>1. FrameRight(stack[i])
    BY DEF Right, FramesRight
  <2> QED BY <2>1 DEF FrameRight, Right, Typed
<1> QED BY <1>2, <1>3, <1>4, <1>5, <1>6

\* A frame that turns has less to ask, or begins.
LEMMA TurnTodo ==
  ASSUME Right, Running, NEW f, NEW r, TurnCase(f, r)
  PROVE  Range(f.todo) \subseteq Range(top.todo) \/ f = Walker(top)
<1>1. top \in FrameType
  BY TopFrame
<1>2. CASE f = [top EXCEPT !.at = "body"]
  BY <1>1, <1>2 DEF FrameType
<1>3. CASE f = top
  BY <1>3
<1>4. CASE f = Advanced(top) /\ top.todo # <<>>
  <2>1. top.todo \in Seq(Path)
    BY <1>1 DEF FrameType
  <2>2. Range(Tail(top.todo)) \subseteq Range(top.todo)
    BY <1>4, <2>1, Todos
  <2>3. f.todo = Tail(top.todo)
    BY <1>1, <1>4 DEF Advanced, FrameType
  <2> QED BY <2>2, <2>3
<1> QED BY <1>2, <1>3, <1>4 DEF TurnCase

\* Every step keeps the frames grouped: those that turn and return, ...
LEMMA TurnGrouped ==
  ASSUME Right, Grouped, Running, UNCHANGED <<world, history>>, NEW f, NEW r, Turn(f, r)
  PROVE  Grouped'
<1> SUFFICES ASSUME loops = {}, root.op # "call"
             PROVE  \E w \in [1..Len(stack') -> 0..changes] :
                        Epochs(stack', Len(stack'), w, changes, Chains)
  <2>1. Chains' = Chains
    BY SameChains DEF Chains, world
  <2> QED BY <2>1 DEF Grouped, history
<1>1. TurnCase(f, r) /\ Settle(f)
  BY DEF Turn
<1>2. f \in FrameType /\ f.s = top.s /\ FrameRight(f)
  BY <1>1, TurnRight
<1>3. PICK n \in Nat \ {0} : n = Len(stack) /\ top = stack[n]
  BY TopFrame
<1>4. Len(stack') = n /\ stack'[n] = f /\ \A i \in 1..n - 1 : stack'[i] = stack[i]
  BY <1>1, <1>2, <1>3, TurnShape
<1>5. PICK c \in Nat : c = changes
  BY Unlooped
<1>6. PICK C, s, u : C = Chains /\ s = stack /\ u = stack'
  BY Unlooped
<1>7. PICK w \in [1..n -> 0..c] : Epochs(s, n, w, c, C)
  BY <1>3, <1>5, <1>6 DEF Grouped
<1>8. Ordered(C) /\ \A i \in 1..n : s[i].s \in Scripts
  BY <1>3, <1>5, <1>6, Unlooped
<1>9. u[n].s = s[n].s /\ \A i \in 1..n - 1 : u[i] = s[i]
  BY <1>2, <1>3, <1>4, <1>5, <1>6
<1>10. CASE Range(f.todo) \subseteq Range(top.todo)
  <2>1. Range(u[n].todo) \subseteq Range(s[n].todo)
    BY <1>3, <1>4, <1>5, <1>6, <1>10
  <2>2. Epochs(u, n, w, c, C)
    BY <1>7, <1>9, <2>1, EpochsTop
  <2> QED BY <1>4, <1>5, <1>6, <1>7, <2>2
<1>11. CASE f = Walker(top)
  <2>1. /\ top \in FrameType /\ root # NoRoot /\ top.s \in Scripts
    BY TopFrame DEF FrameType
  <2>2. /\ Range(f.todo) \subseteq Range(resolve_chain(top.s))
        /\ Range(f.todo) \subseteq Path \ {top.s}
        /\ Range(f.todo) \subseteq Scripts
    BY <1>11, <2>1, Walking
  <2>3. C[f.s] = Range(resolve_chain(top.s))
    BY <1>2, <1>5, <1>6, <2>1 DEF Chains
  <2>4. Range(u[n].todo) \subseteq C[u[n].s] \ {u[n].s} /\ Range(u[n].todo) \subseteq Scripts
    BY <1>2, <1>4, <1>5, <1>6, <2>2, <2>3
  <2>5. \E v \in [1..n -> 0..c] : Epochs(u, n, v, c, C)
    BY <1>7, <1>8, <1>9, <2>4, EpochsWalk
  <2> QED BY <1>4, <1>5, <1>6, <2>5
<1> QED BY <1>1, <1>10, <1>11, TurnTodo

LEMMA LeaveGrouped ==
  ASSUME Right, Grouped, Running, UNCHANGED <<world, history>>, NEW r, Leave(r)
  PROVE  Grouped'
<1> SUFFICES ASSUME loops = {}, root.op # "call"
             PROVE  \E w \in [1..Len(stack') -> 0..changes] :
                        Epochs(stack', Len(stack'), w, changes, Chains)
  <2>1. Chains' = Chains
    BY SameChains DEF Chains, world
  <2> QED BY <2>1 DEF Grouped, history
<1>1. Return(r)
  BY DEF Leave
<1>2. PICK n \in Nat \ {0} : n = Len(stack)
  BY TopFrame
<1>3. Len(stack') = n - 1 /\ \A i \in 1..n - 1 : stack'[i] = stack[i]
  BY <1>1, <1>2, LeaveShape
<1>4. PICK c \in Nat : c = changes
  BY Unlooped
<1>5. PICK C, s, u : C = Chains /\ s = stack /\ u = stack'
  BY Unlooped
<1>6. PICK w \in [1..n -> 0..c] : Epochs(s, n, w, c, C)
  BY <1>2, <1>4, <1>5 DEF Grouped
<1>7. \A i \in 1..n - 1 : u[i] = s[i]
  BY <1>3, <1>4, <1>5
<1>8. \E v \in [1..n - 1 -> 0..c] : Epochs(u, n - 1, v, c, C)
  BY <1>6, <1>7, EpochsPop
<1> QED BY <1>3, <1>4, <1>5, <1>8

\* A read or write asks the next base of the list, in a new frame.
LEMMA EnterReads ==
  ASSUME Right, Running, loops = {}, root.op # "call", NEW g, NEW f, EnterCase(g, f)
  PROVE  /\ g \in FrameType /\ f \in FrameType /\ g.s = top.s
         /\ top.at = "walk" /\ ret = NoRet /\ top.todo # <<>> /\ top.todo \in Seq(Path)
         /\ g = Advanced(top) /\ g.todo = Tail(top.todo)
         /\ f = Frame(top.op, Head(top.todo), "base")
         /\ f.s = Head(top.todo) /\ f.s \in Range(top.todo) /\ f.s \in live
         /\ Range(g.todo) \subseteq Range(top.todo) /\ Range(f.todo) = {}
<1>1. top \in FrameType /\ FrameRight(top)
  BY TopFrame
<1>2. top.op # "call" /\ top.at # "body"
  BY <1>1 DEF FrameRight
<1>3. /\ top.at = "walk" /\ ret = NoRet /\ top.todo # <<>> /\ g = Advanced(top)
      /\ \/ Head(top.todo) \in live /\ f = Frame(top.op, Head(top.todo), "base")
         \/ Head(top.todo) \notin Scripts /\ f = Frame(top.op, top.s, "engine")
  BY <1>2 DEF EnterCase
<1>4. top.todo \in Seq(Path)
  BY <1>1 DEF FrameType
<1>5. Range(Tail(top.todo)) \subseteq Range(top.todo) /\ Head(top.todo) \in Range(top.todo)
  BY <1>3, <1>4, Todos
<1>6. Head(top.todo) \in Scripts
  BY <1>1, <1>5 DEF FrameRight
<1>7. Head(top.todo) \in live /\ f = Frame(top.op, Head(top.todo), "base")
  BY <1>3, <1>6
<1>8. f.s = Head(top.todo) /\ f.todo = <<>>
  BY <1>7 DEF Frame
<1>9. g.todo = Tail(top.todo)
  BY <1>1, <1>3 DEF Advanced, FrameType
<1>10. g \in FrameType /\ f \in FrameType /\ g.s = top.s
  BY EnterRight
<1>11. Range(f.todo) = {}
  BY <1>8, Todos
<1> QED BY <1>3, <1>4, <1>5, <1>7, <1>8, <1>9, <1>10, <1>11

\* The frames are grouped with the new one, whether it fits or not.
LEMMA EnterGroups ==
  ASSUME Right, Grouped, Running, loops = {}, root.op # "call",
         NEW g, NEW f, EnterCase(g, f),
         NEW n, n = Len(stack),
         NEW u, \A i \in 1..n - 1 : u[i] = stack[i], u[n] = g, u[n + 1] = f
  PROVE  /\ \A i \in 1..n + 1 : u[i].s \in Scripts
         /\ \E v \in [1..n + 1 -> 0..changes] : Epochs(u, n + 1, v, changes, Chains)
<1>1. n \in Nat \ {0} /\ top = stack[n]
  BY TopFrame
<1>2. PICK c \in Nat : c = changes
  BY Unlooped
<1>3. PICK C, s : C = Chains /\ s = stack
  BY Unlooped
<1>4. PICK w \in [1..n -> 0..c] : Epochs(s, n, w, c, C)
  BY <1>2, <1>3 DEF Grouped
<1>5. Ordered(C) /\ \A i \in 1..n : s[i].s \in Scripts
  BY <1>2, <1>3, Unlooped
<1>6. /\ g.s = top.s /\ f.s \in Range(top.todo) /\ f.s \in live
      /\ Range(g.todo) \subseteq Range(top.todo) /\ Range(f.todo) = {}
  BY EnterReads
<1>7. live \subseteq Scripts
  BY DEF Right, Typed
<1>8. PICK b \in Scripts : b = f.s
  BY <1>6, <1>7
<1>9. /\ \A i \in 1..n - 1 : u[i] = s[i]
      /\ u[n].s = s[n].s /\ Range(u[n].todo) \subseteq Range(s[n].todo)
      /\ b \in Range(s[n].todo) /\ u[n + 1].s = b /\ Range(u[n + 1].todo) = {}
  BY <1>1, <1>2, <1>3, <1>6, <1>8
<1>10. \E v \in [1..n + 1 -> 0..c] : Epochs(u, n + 1, v, c, C)
  BY <1>1, <1>4, <1>5, <1>9, EpochsPush
<1>11. \A i \in 1..n + 1 : u[i].s \in Scripts
  <2> TAKE i \in 1..n + 1
  <2>1. i = n + 1 \/ i = n \/ i \in 1..n - 1
    BY <1>1
  <2> QED BY <1>1, <1>5, <1>8, <1>9, <2>1
<1> QED BY <1>2, <1>3, <1>10, <1>11

\* ... those that call, ...
LEMMA EnterGrouped ==
  ASSUME Right, Grouped, Running, UNCHANGED <<world, history>>, NEW g, NEW f, Enter(g, f)
  PROVE  Grouped'
<1> SUFFICES ASSUME loops = {}, root.op # "call"
             PROVE  \E w \in [1..Len(stack') -> 0..changes] :
                        Epochs(stack', Len(stack'), w, changes, Chains)
  <2>1. Chains' = Chains
    BY SameChains DEF Chains, world
  <2> QED BY <2>1 DEF Grouped, history
<1>1. EnterCase(g, f) /\ Push(g, f)
  BY DEF Enter
<1>2. g \in FrameType /\ f \in FrameType
  BY <1>1, EnterRight
<1>3. PICK n : n = Len(stack)
  OBVIOUS
<1>4. CASE Len(stack) < MaxStack
  <2>1. /\ Len(stack') = n + 1 /\ stack'[n] = g /\ stack'[n + 1] = f
        /\ \A i \in 1..n - 1 : stack'[i] = stack[i]
    BY <1>1, <1>2, <1>3, <1>4, EnterShape
  <2>2. PICK u : u = stack'
    OBVIOUS
  <2>3. \E v \in [1..n + 1 -> 0..changes] : Epochs(u, n + 1, v, changes, Chains)
    BY <1>1, <1>3, <2>1, <2>2, EnterGroups
  <2> QED BY <2>1, <2>2, <2>3
<1>5. CASE ~(Len(stack) < MaxStack)
  <2>1. UNCHANGED stack
    BY <1>1, <1>5, Overflows
  <2> QED BY <2>1 DEF Grouped
<1> QED BY <1>4, <1>5

\* ... an access, and a registration.
LEMMA AccessGrouped ==
  ASSUME Right, NEW op \in Ops, NEW s \in Roots, Access(op, s)
  PROVE  Grouped'
<1>1. /\ Len(stack') = 1 /\ stack'[1] = Frame(op, s, "engine") /\ s \in Scripts
      /\ changes' = 0 /\ loops' = Loops /\ UNCHANGED world
  BY AccessShape
<1> SUFFICES ASSUME loops' = {}
             PROVE  \E w \in [1..1 -> 0..0] : Epochs(stack', 1, w, 0, Chains)
  <2>1. Chains' = Chains
    BY <1>1, SameChains DEF Chains, world
  <2> QED BY <1>1, <2>1 DEF Grouped
<1>2. Entries /\ MaxChain \in Nat /\ ~Cyclic
  BY <1>1, LoopsAre, InheritAssumption DEF Right, Typed
<1>3. PICK C : C = Chains
  OBVIOUS
<1>4. s \in C[s]
  BY <1>1, <1>2, <1>3, ChainsOrdered DEF Ordered
<1>5. PICK u : u = stack'
  OBVIOUS
<1>6. u[1].s = s /\ Range(u[1].todo) = {}
  BY <1>1, <1>5, Todos DEF Frame
<1>7. PICK w \in [1..1 -> 0..0] : w = [i \in 1..1 |-> 0]
  <2>1. [i \in 1..1 |-> 0] \in [1..1 -> 0..0]
    OBVIOUS
  <2> QED BY <2>1
<1>8. Epochs(u, 1, w, 0, C)
  BY <1>4, <1>6, <1>7 DEF Epochs
<1> QED BY <1>3, <1>5, <1>7, <1>8

LEMMA RegisterGrouped ==
  ASSUME Right, Grouped, NEW s \in Scripts, NEW b \in Path \cup {NoPath}, Register(s, b)
  PROVE  Grouped'
<1>1. /\ stack' = stack /\ root' = root /\ changes' = changes + 1
      /\ loops \subseteq loops' /\ Running
  BY DEF Register, thread
<1> SUFFICES ASSUME loops = {}, root.op # "call"
             PROVE  \E w \in [1..Len(stack) -> 0..changes + 1] :
                        Epochs(stack, Len(stack), w, changes + 1, Chains')
  BY <1>1 DEF Grouped
<1>2. PICK n \in Nat, c \in Nat : n = Len(stack) /\ c = changes
  <2>1. Len(stack) \in Nat /\ changes \in Nat
    BY <1>1, TopFrame, Unlooped
  <2> QED BY <2>1
<1>3. PICK C, D : C = Chains /\ D = Chains'
  OBVIOUS
<1>4. PICK w \in [1..n -> 0..c] : Epochs(stack, n, w, c, C)
  BY <1>2, <1>3 DEF Grouped
<1>5. w \in [1..n -> 0..c + 1] /\ Epochs(stack, n, w, c + 1, D)
  BY <1>4, EpochsNext
<1> QED BY <1>2, <1>3, <1>5

-----------------------------------------------------------------------------
(* An exhausted stack *)

\* The thread's stack holds the calls that the depth limit lets through, with a super()
\* for each, and a read or write of every script for each set of bases.
StackHolds ==
    /\ IsFiniteSet(Scripts)
    /\ MaxStack >= 2 * (PL_BRIDGE_MAX_CALL_DEPTH + 1)
    /\ MaxStack >= Cardinality(Scripts) * (MaxChanges + 1)

\* On such a stack a frame more is refused only in a loop.
LEMMA EnterFits ==
  ASSUME StackHolds, Right, Counted, Grouped, Running,
         NEW g, NEW f, EnterCase(g, f), ~(Len(stack) < MaxStack)
  PROVE  "gd" \in loops \/ (root.op # "call" /\ "cycle" \in loops)
<1> SUFFICES ASSUME "gd" \notin loops, root.op = "call" \/ "cycle" \notin loops PROVE FALSE
  OBVIOUS
<1>1. PICK n \in Nat \ {0} : n = Len(stack) /\ top = stack[n]
  BY TopFrame
<1>2. MaxStack \in Nat /\ n >= MaxStack /\ PL_BRIDGE_MAX_CALL_DEPTH \in Nat
  BY <1>1, InheritAssumption
<1>3. CASE root.op = "call"
  <2>1. n <= 2 * (1 + Depth(stack, n)) - (IF top.via = "super" THEN 0 ELSE 1)
    BY <1>1, <1>3 DEF Counted, Interleaved
  <2>2. /\ f.via = "bridge" => depth < PL_BRIDGE_MAX_CALL_DEPTH
        /\ f.via = "super" => top.via # "super"
        /\ f.via \in {"bridge", "super"}
    BY <1>3, EnterCounts DEF GuardPasses
  <2>3. depth = Depth(stack, n) /\ depth <= PL_BRIDGE_MAX_CALL_DEPTH /\ depth \in Nat
    BY <1>1, DepthFacts DEF Counted, DepthRight
  <2>4. n < 2 * (PL_BRIDGE_MAX_CALL_DEPTH + 1)
    <3>1. CASE f.via = "bridge"
      BY <1>2, <2>1, <2>2, <2>3, <3>1
    <3>2. CASE f.via = "super" /\ top.via # "super"
      BY <1>2, <2>1, <2>3, <3>2
    <3> QED BY <2>2, <3>1, <3>2
  <2> QED BY <1>2, <2>4 DEF StackHolds
<1>4. CASE root.op # "call"
  <2>1. loops = {}
    BY <1>4 DEF Right, Typed
  <2>2. PICK u : u = [i \in 1..n + 1 |-> IF i = n + 1 THEN f ELSE IF i = n THEN g ELSE stack[i]]
    OBVIOUS
  <2>3. u[n] = g /\ u[n + 1] = f /\ \A i \in 1..n - 1 : u[i] = stack[i]
    BY <2>2
  <2>4. /\ \A i \in 1..n + 1 : u[i].s \in Scripts
        /\ \E v \in [1..n + 1 -> 0..changes] : Epochs(u, n + 1, v, changes, Chains)
    BY <1>1, <1>4, <2>1, <2>3, EnterGroups
  <2>5. PICK c \in Nat : c = changes
    BY <2>1, Unlooped
  <2>6. PICK C : C = Chains
    OBVIOUS
  <2>7. PICK v \in [1..n + 1 -> 0..c] : Epochs(u, n + 1, v, c, C)
    BY <2>4, <2>5, <2>6
  <2>8. c <= MaxChanges /\ MaxChanges \in Nat
    BY <2>5, InheritAssumption DEF Right, Typed
  <2>9. PICK m \in Nat : m = n + 1
    OBVIOUS
  <2>10. m <= Cardinality(Scripts) * (MaxChanges + 1)
    BY <2>4, <2>7, <2>8, <2>9, EpochsBound DEF StackHolds
  <2>11. Cardinality(Scripts) * (MaxChanges + 1) \in Nat
    <3>1. Cardinality(Scripts) \in Nat
      BY FS_CardinalityType DEF StackHolds
    <3> QED BY <2>8, <3>1
  <2> QED BY <1>2, <2>9, <2>10, <2>11 DEF StackHolds
<1> QED BY <1>3, <1>4

\* The inductive invariant of OverflowsByLoop, and the steps that keep it.
Held == Right /\ Counted /\ Grouped /\ OverflowOnlyByLoop

LEMMA StepHeld ==
  ASSUME StackHolds, Held, Step
  PROVE  OverflowOnlyByLoop' /\ Grouped'
<1>1. /\ Running /\ UNCHANGED <<world, history>>
      /\ \/ \E f, r : Turn(f, r)
         \/ \E r : Leave(r)
         \/ \E g, f : Enter(g, f)
  BY StepCases DEF Held, Right
<1>2. Right /\ Counted /\ Grouped /\ overflow = FALSE
  BY <1>1 DEF Held, Running, Right, Typed
<1>3. Grouped'
  BY <1>1, <1>2, TurnGrouped, LeaveGrouped, EnterGrouped
<1>4. CASE \E f, r : Turn(f, r)
  <2>1. overflow' = overflow
    BY <1>4 DEF Turn
  <2> QED BY <1>2, <1>3, <2>1 DEF OverflowOnlyByLoop
<1>5. CASE \E r : Leave(r)
  <2>1. overflow' = overflow
    BY <1>5 DEF Leave, Return
  <2> QED BY <1>2, <1>3, <2>1 DEF OverflowOnlyByLoop
<1>6. CASE \E g, f : Enter(g, f)
  <2>1. PICK g, f : EnterCase(g, f) /\ Push(g, f)
    BY <1>6 DEF Enter
  <2>2. CASE Len(stack) < MaxStack
    <3>1. overflow' = overflow
      BY <2>1, <2>2 DEF Push
    <3> QED BY <1>2, <1>3, <3>1 DEF OverflowOnlyByLoop
  <2>3. CASE ~(Len(stack) < MaxStack)
    <3>1. "gd" \in loops \/ (root.op # "call" /\ "cycle" \in loops)
      BY <1>1, <1>2, <2>1, <2>3, EnterFits
    <3> QED BY <1>1, <1>3, <3>1 DEF OverflowOnlyByLoop, history
  <2> QED BY <2>2, <2>3
<1> QED BY <1>1, <1>4, <1>5, <1>6

\* Nothing changes, nothing is lost.
LEMMA UnchangedRight ==
  ASSUME Right, UNCHANGED vars
  PROVE  Right'
<1>1. UNCHANGED <<world, thread, history>>
  BY DEF vars
<1>2. Typed'
  BY <1>1, SameChains DEF Right, Typed, world, thread, history, FrameType, RetType
<1>3. LoopsRight'
  BY <1>1, SameChains DEF Right, LoopsRight, world, thread, history
<1>4. FramesRight'
  BY <1>1 DEF Right, FramesRight, FrameRight, world, thread, history
<1> QED BY <1>2, <1>3, <1>4 DEF Right

\* Only a loop exhausts the stack, if it holds what is not one.
THEOREM OverflowsByLoop ==
  ASSUME StackHolds
  PROVE  Spec => []OverflowOnlyByLoop
<1>1. Init => Held
  <2> SUFFICES ASSUME Init PROVE Counted /\ Grouped /\ OverflowOnlyByLoop
    BY InitRight DEF Held
  <2>1. stack = <<>> /\ depth = 0 /\ overflow = FALSE /\ changes = 0
    BY DEF Init
  <2>2. Depth(stack, 0) = 0 /\ Len(stack) = 0
    BY <2>1, DepthFacts
  <2>3. Counted
    BY <2>1, <2>2, InheritAssumption DEF Counted, DepthRight, Interleaved
  <2>4. PICK w \in [1..0 -> 0..0] : TRUE
    <3>1. [i \in 1..0 |-> 0] \in [1..0 -> 0..0]
      OBVIOUS
    <3> QED BY <3>1
  <2>5. Epochs(stack, 0, w, 0, Chains)
    BY DEF Epochs
  <2> QED BY <2>1, <2>2, <2>3, <2>4, <2>5 DEF Grouped, OverflowOnlyByLoop
<1>2. Held /\ [Next]_vars => Held'
  <2> SUFFICES ASSUME Held, [Next]_vars PROVE Held'
    OBVIOUS
  <2>1. ASSUME NEW op \in Ops, NEW s \in Roots, Access(op, s) PROVE Held'
    <3>1. Right' /\ Grouped'
      BY <2>1, AccessRight, AccessGrouped DEF Held
    <3>2. Counted'
      BY <2>1, NextCounted DEF Held, Next
    <3>3. overflow' = overflow /\ root = NoRoot /\ loops = {}
      BY <2>1 DEF Access, Held, Right, LoopsRight
    <3>4. OverflowOnlyByLoop'
      BY <3>3 DEF Held, OverflowOnlyByLoop
    <3> QED BY <3>1, <3>2, <3>4 DEF Held
  <2>2. ASSUME NEW s \in Scripts, NEW b \in Path \cup {NoPath}, Register(s, b) PROVE Held'
    <3>1. Right' /\ Grouped'
      BY <2>2, RegisterRight, RegisterGrouped DEF Held
    <3>2. Counted'
      BY <2>2, NextCounted DEF Held, Next
    <3>3. overflow' = overflow /\ root' = root /\ loops \subseteq loops'
      BY <2>2 DEF Register, thread
    <3>4. OverflowOnlyByLoop'
      BY <3>3 DEF Held, OverflowOnlyByLoop
    <3> QED BY <3>1, <3>2, <3>4 DEF Held
  <2>3. CASE Step
    <3>1. Right'
      BY <2>3, StepRight DEF Held
    <3>2. Counted'
      BY <2>3, NextCounted DEF Held, Next
    <3> QED BY <2>3, <3>1, <3>2, StepHeld DEF Held
  <2>4. CASE UNCHANGED vars
    <3>1. Right' /\ UNCHANGED <<world, thread, history>>
      BY <2>4, UnchangedRight DEF Held, vars
    <3>2. Counted'
      BY <3>1 DEF Held, Counted, DepthRight, Interleaved, thread, history
    <3>3. Chains' = Chains
      BY <3>1, SameChains DEF Chains, world
    <3>4. Grouped' /\ OverflowOnlyByLoop'
      BY <3>1, <3>3 DEF Held, Grouped, OverflowOnlyByLoop, thread, history
    <3> QED BY <3>1, <3>2, <3>4 DEF Held
  <2> QED BY <2>1, <2>2, <2>3, <2>4 DEF Next
<1>3. Held => OverflowOnlyByLoop
  BY DEF Held
<1> QED BY <1>1, <1>2, <1>3, PTL DEF Spec

-----------------------------------------------------------------------------
(* Who answers *)

\* The chains, and the scripts that have the member.
Lists == [p \in Scripts |-> resolve_chain(p)]
Servers == live \cap has

\* An access that nobody disturbs.
Still == loops = {} /\ changes = 0 /\ root # NoRoot

\* Chains without a cycle: each is that of any of its scripts from there on.
Chained(D) ==
    /\ \A s \in Scripts : ChainOf(D[s], s)
    /\ \A s, t \in Scripts : \A k \in 1..Len(D[s]) : t = D[s][k] =>
           /\ Len(D[t]) = Len(D[s]) - k + 1
           /\ \A i \in 1..Len(D[t]) : D[t][i] = D[s][k + i - 1]
    /\ \A s \in Scripts : \A i \in 1..Len(D[s]) : D[s][i] \in Scripts

\* Without a cycle and a .gd base they are.
LEMMA ListsChained ==
  ASSUME Entries, MaxChain \in Nat, ~Cyclic, ~HasGd
  PROVE  Chained(Lists)
<1>1. \A s \in Scripts : Lists[s] = resolve_chain(s)
  BY DEF Lists
<1>2. ASSUME NEW s \in Scripts PROVE ChainOf(Lists[s], s)
  BY <1>1, ChainFacts
<1>3. ASSUME NEW s \in Scripts, NEW t \in Scripts, NEW k \in 1..Len(Lists[s]), t = Lists[s][k]
      PROVE  /\ Len(Lists[t]) = Len(Lists[s]) - k + 1
             /\ \A i \in 1..Len(Lists[t]) : Lists[t][i] = Lists[s][k + i - 1]
  <2>1. k \in Nat
    OBVIOUS
  <2>2. k \in 1..Len(resolve_chain(s)) /\ t = resolve_chain(s)[k]
    BY <1>1, <1>3
  <2>3. /\ Len(resolve_chain(t)) = Len(resolve_chain(s)) - k + 1
        /\ \A i \in 1..Len(resolve_chain(t)) :
               resolve_chain(t)[i] = resolve_chain(s)[k + i - 1]
    BY <2>1, <2>2, ChainSuffix
  <2> QED BY <1>1, <2>3
<1>4. ASSUME NEW s \in Scripts PROVE \A i \in 1..Len(Lists[s]) : Lists[s][i] \in Scripts
  BY <1>1, ChainScripts
<1> QED BY <1>2, <1>3, <1>4 DEF Chained

\* The first k of the chain of p do not serve; q is the first that does.
NoneOf(D, S, p, k) == \A m \in 1..k : D[p][m] \notin S
First(D, S, q, p) ==
    \E n \in 1..Len(D[p]) : D[p][n] = q /\ q \in S /\ NoneOf(D, S, p, n - 1)

\* Frame f has asked the first k of its chain.
Asked(D, f, k) ==
    /\ f.at = "walk" /\ k \in 1..Len(D[f.s])
    /\ f.todo \in Seq(Path) /\ Len(f.todo) = Len(D[f.s]) - k
    /\ \A i \in 1..Len(f.todo) : f.todo[i] = D[f.s][k + i]

\* What an access to p is to return.
Answers(D, S, p, r) ==
    IF r.rc = "ok" THEN First(D, S, r.by, p) /\ (r.by = p \/ p \notin Polyglots)
    ELSE /\ r.by = NoPath /\ p \notin S
         /\ p \in Polyglots \/ NoneOf(D, S, p, Len(D[p]))

\* The first of a base is the first of the script, when nobody before the base serves.
LEMMA FirstUp ==
  ASSUME NEW D, NEW S, Chained(D), NEW p \in Scripts, NEW b \in Scripts, NEW q,
         NEW k \in 1..Len(D[p]), b = D[p][k], NoneOf(D, S, p, k - 1), First(D, S, q, b)
  PROVE  First(D, S, q, p)
<1>1. PICK n \in 1..Len(D[b]) : D[b][n] = q /\ q \in S /\ NoneOf(D, S, b, n - 1)
  BY DEF First
<1>2. /\ Len(D[b]) = Len(D[p]) - k + 1 /\ \A i \in 1..Len(D[b]) : D[b][i] = D[p][k + i - 1]
      /\ Len(D[p]) \in Nat /\ Len(D[b]) \in Nat
  <2>1. ChainOf(D[p], p) /\ ChainOf(D[b], b)
    BY DEF Chained
  <2>2. Len(D[b]) = Len(D[p]) - k + 1 /\ \A i \in 1..Len(D[b]) : D[b][i] = D[p][k + i - 1]
    <3>1. \A t \in Scripts : \A m \in 1..Len(D[p]) : t = D[p][m] =>
              /\ Len(D[t]) = Len(D[p]) - m + 1
              /\ \A i \in 1..Len(D[t]) : D[t][i] = D[p][m + i - 1]
      BY ONLY Chained(D), p \in Scripts, Zenon DEF Chained
    <3> QED BY ONLY <3>1, b \in Scripts, k \in 1..Len(D[p]), b = D[p][k], Zenon
  <2>3. Len(D[p]) \in Nat /\ Len(D[b]) \in Nat
    BY <2>1 DEF ChainOf
  <2> QED BY <2>2, <2>3
<1>3. PICK l, h, j : l = Len(D[p]) /\ h = Len(D[b]) /\ j = k + n - 1
  OBVIOUS
<1>4. l \in Nat /\ h \in Nat /\ h = l - k + 1 /\ k \in 1..l /\ n \in 1..h
  BY <1>1, <1>2, <1>3
<1>5. j \in 1..l
  BY <1>3, <1>4
<1>6. D[p][j] = q
  BY <1>1, <1>2, <1>3
<1>7. ASSUME NEW m \in 1..j - 1 PROVE D[p][m] \notin S
  <2>1. CASE m \in 1..k - 1
    BY <2>1 DEF NoneOf
  <2>2. CASE m \notin 1..k - 1
    <3>1. PICK i : i = m - k + 1
      OBVIOUS
    <3>2. i \in 1..n - 1 /\ i \in 1..h /\ k + i - 1 = m
      BY <1>3, <1>4, <2>2, <3>1
    <3>3. D[b][i] = D[p][m] /\ D[b][i] \notin S
      BY <1>1, <1>2, <1>3, <3>2 DEF NoneOf
    <3> QED BY <3>3
  <2> QED BY <2>1, <2>2
<1>8. NoneOf(D, S, p, j - 1)
  BY <1>7 DEF NoneOf
<1> QED BY <1>1, <1>3, <1>5, <1>6, <1>8 DEF First

\* The script itself is the first when it serves.
LEMMA FirstSelf ==
  ASSUME NEW D, NEW S, Chained(D), NEW p \in Scripts
  PROVE  /\ p \in S => First(D, S, p, p)
         /\ p \notin S => NoneOf(D, S, p, 1)
<1>1. Len(D[p]) \in Nat \ {0} /\ D[p][1] = p
  BY DEF Chained, ChainOf
<1>2. 1 \in 1..Len(D[p])
  BY <1>1
<1>3. NoneOf(D, S, p, 1 - 1)
  BY DEF NoneOf
<1>4. p \in S => First(D, S, p, p)
  BY <1>1, <1>2, <1>3 DEF First
<1>5. p \notin S => NoneOf(D, S, p, 1)
  BY <1>1 DEF NoneOf
<1> QED BY <1>4, <1>5

\* The next base to ask, and the frame that has asked it.
LEMMA AskedNext ==
  ASSUME NEW D, Chained(D), NEW f \in FrameType, NEW k, Asked(D, f, k), f.todo # <<>>
  PROVE  /\ k + 1 \in 1..Len(D[f.s]) /\ Head(f.todo) = D[f.s][k + 1]
         /\ Advanced(f) \in FrameType /\ Asked(D, Advanced(f), k + 1)
         /\ Advanced(f).s = f.s /\ Advanced(f).via = f.via
<1>1. PICK d : d = Tail(f.todo)
  OBVIOUS
<1>2. f.todo \in Seq(Path) /\ f.s \in Scripts
  BY DEF FrameType
<1>3. /\ d \in Seq(Path) /\ Head(f.todo) = f.todo[1]
      /\ Len(d) = Len(f.todo) - 1 /\ \A i \in 1..Len(f.todo) - 1 : d[i] = f.todo[i + 1]
  BY <1>1, <1>2, Todos
<1>4. Len(f.todo) \in Nat \ {0}
  BY <1>2, Elements
<1>5. PICK l \in Nat \ {0}, h \in Nat : l = Len(f.todo) /\ h = Len(D[f.s])
  BY <1>2, <1>4 DEF Chained, ChainOf
<1>6. k \in 1..h /\ l = h - k /\ \A i \in 1..l : f.todo[i] = D[f.s][k + i]
  BY <1>5 DEF Asked
<1>7. k + 1 \in 1..h /\ Head(f.todo) = D[f.s][k + 1]
  BY <1>3, <1>5, <1>6
<1>8. Advanced(f) = [f EXCEPT !.todo = d]
  BY <1>1 DEF Advanced
<1>9. PICK g : g = Advanced(f)
  OBVIOUS
<1>10. /\ g \in FrameType /\ g.todo = d /\ g.s = f.s /\ g.via = f.via /\ g.at = f.at
  BY <1>3, <1>8, <1>9 DEF FrameType
<1>11. Len(d) = h - (k + 1)
  BY <1>3, <1>5, <1>6
<1>12. ASSUME NEW i \in 1..Len(d) PROVE d[i] = D[f.s][(k + 1) + i]
  <2>1. i \in 1..l - 1 /\ i + 1 \in 1..l /\ k + (i + 1) = (k + 1) + i
    BY <1>3, <1>5, <1>6
  <2> QED BY <1>3, <1>5, <1>6, <2>1
<1>13. Asked(D, g, k + 1)
  BY <1>3, <1>5, <1>7, <1>10, <1>11, <1>12 DEF Asked
<1> QED BY <1>5, <1>7, <1>9, <1>10, <1>13

\* A frame that begins to walk has asked its own script.
LEMMA AskedFirst ==
  ASSUME Right, Still, NEW f \in FrameType, Chained(Lists)
  PROVE  Asked(Lists, Walker(f), 1)
<1>1. Entries /\ MaxChain \in Nat /\ f.s \in Scripts
  BY InheritAssumption DEF Right, Typed, FrameType
<1>2. PICK c : c = resolve_chain(f.s)
  OBVIOUS
<1>3. PICK d : d = Tail(c)
  OBVIOUS
<1>4. d \in Seq(Path) /\ Len(d) = Len(c) - 1 /\ \A i \in 1..Len(d) : d[i] = c[i + 1]
  BY <1>1, <1>2, <1>3, ChainTail
<1>5. ChainOf(c, f.s) /\ Lists[f.s] = c
  BY <1>1, <1>2, ChainFacts DEF Lists
<1>6. Len(c) \in Nat \ {0}
  BY <1>5 DEF ChainOf
<1>7. PICK g : g = Walker(f)
  OBVIOUS
<1>8. g.at = "walk" /\ g.todo = d /\ g.s = f.s
  BY <1>2, <1>3, <1>7 DEF Walker, FrameType
<1>9. 1 \in 1..Len(c) /\ \A i \in 1..Len(d) : d[i] = c[1 + i]
  BY <1>4, <1>6
<1>10. Asked(Lists, g, 1)
  BY <1>4, <1>5, <1>8, <1>9 DEF Asked
<1> QED BY <1>7, <1>10

\* The chains of an undisturbed access, and the scripts of its frames.
LEMMA StillFacts ==
  ASSUME Right, Still, Running
  PROVE  /\ Chained(Lists) /\ ~native /\ Entries /\ MaxChain \in Nat
         /\ \A i \in 1..Len(stack) : stack[i].s \in Scripts
BY Unlooped, ListsChained DEF Still

\* Each frame below the top has asked the script of the one above, and those before it
\* in the chain do not serve; nor does anything the top frame has asked.
ReadsOf(D, S, st, n) ==
    /\ \A i \in 1..n : st[i].via = (IF i = 1 THEN "engine" ELSE "base")
    /\ \A i \in 1..n - 1 :
           \E k \in 1..Len(D[st[i].s]) :
               /\ Asked(D, st[i], k) /\ NoneOf(D, S, st[i].s, k - 1)
               /\ st[i + 1].s = D[st[i].s][k]

TopReads(D, S, f, r) ==
    f.at = "walk" =>
        \E k \in 1..Len(D[f.s]) :
            /\ Asked(D, f, k)
            /\ IF r.rc = "ok" THEN First(D, S, r.by, f.s) ELSE NoneOf(D, S, f.s, k)

\* The invariant of an undisturbed read or write.
Reads ==
    Still /\ root.op # "call" =>
        IF stack = <<>> THEN Answers(Lists, Servers, root.s, ret)
        ELSE /\ stack[1].s = root.s
             /\ ReadsOf(Lists, Servers, stack, Len(stack))
             /\ TopReads(Lists, Servers, stack[Len(stack)], ret)

\* The steps of an undisturbed read or write keep it.
LEMMA TurnReads ==
  ASSUME Right, Reads, Running, UNCHANGED <<world, history>>, NEW f, NEW r, Turn(f, r)
  PROVE  Reads'
<1> SUFFICES ASSUME Still, root.op # "call"
             PROVE  /\ stack' # <<>> /\ stack'[1].s = root.s
                    /\ ReadsOf(Lists, Servers, stack', Len(stack'))
                    /\ TopReads(Lists, Servers, stack'[Len(stack')], ret')
  <2>1. Lists' = Lists /\ Servers' = Servers
    BY SameChains DEF Lists, Servers, world
  <2> QED BY <2>1 DEF Reads, Still, history
<1>1. TurnCase(f, r) /\ Settle(f) /\ ret' = r
  BY DEF Turn
<1>2. /\ f \in FrameType /\ f.s = top.s /\ f.via = top.via
  BY <1>1, TurnRight
<1>3. PICK n \in Nat \ {0} : n = Len(stack) /\ top = stack[n]
  BY TopFrame
<1>4. /\ stack' \in Seq(FrameType) /\ Len(stack') = n /\ stack'[n] = f
      /\ \A i \in 1..n - 1 : stack'[i] = stack[i]
  BY <1>1, <1>2, <1>3, TurnShape
<1>5. PICK D, S, s, u : D = Lists /\ S = Servers /\ s = stack /\ u = stack'
  OBVIOUS
<1>6. /\ top \in FrameType /\ FrameRight(top) /\ top.s \in Scripts /\ s # <<>>
  BY <1>5, TopFrame DEF FrameType, Running
<1>7. Chained(D)
  BY <1>5, StillFacts
<1>8. s[1].s = root.s /\ ReadsOf(D, S, s, n) /\ TopReads(D, S, top, ret)
  BY <1>3, <1>5, <1>6 DEF Reads
<1>9. \A i \in 1..n : u[i].s = s[i].s /\ u[i].via = s[i].via
  <2> TAKE i \in 1..n
  <2>1. i = n \/ i \in 1..n - 1
    OBVIOUS
  <2> QED BY <1>2, <1>3, <1>4, <1>5, <2>1
<1>10. ReadsOf(D, S, u, n)
  <2>1. \A i \in 1..n - 1 : i + 1 \in 1..n /\ i \in 1..n /\ u[i] = s[i]
    BY <1>4, <1>5
  <2>2. \A i \in 1..n : u[i].via = (IF i = 1 THEN "engine" ELSE "base")
    BY <1>8, <1>9 DEF ReadsOf
  <2>3. ASSUME NEW i \in 1..n - 1
        PROVE  \E k \in 1..Len(D[u[i].s]) :
                   /\ Asked(D, u[i], k) /\ NoneOf(D, S, u[i].s, k - 1)
                   /\ u[i + 1].s = D[u[i].s][k]
    <3>1. PICK k \in 1..Len(D[s[i].s]) :
              /\ Asked(D, s[i], k) /\ NoneOf(D, S, s[i].s, k - 1)
              /\ s[i + 1].s = D[s[i].s][k]
      BY <1>8 DEF ReadsOf
    <3> QED BY <1>9, <2>1, <3>1
  <2> QED BY <2>2, <2>3 DEF ReadsOf
<1>11. TopReads(D, S, f, r)
  <2>1. top.op # "call" /\ top.at # "body"
    BY <1>6 DEF FrameRight
  <2>2. CASE f = [top EXCEPT !.at = "body"]
    BY <1>6, <2>2 DEF TopReads, FrameType
  <2>3. CASE top.s \notin has /\ f = Walker(top) /\ r = NoRet
    <3>1. Asked(D, f, 1)
      BY <1>5, <1>6, <1>7, <2>3, AskedFirst
    <3>2. NoneOf(D, S, f.s, 1)
      BY <1>2, <1>5, <1>6, <1>7, <2>3, FirstSelf DEF Servers
    <3>3. r.rc # "ok" /\ 1 \in 1..Len(D[f.s])
      BY <2>3, <3>1 DEF NoRet, Asked
    <3> QED BY <3>1, <3>2, <3>3 DEF TopReads
  <2>4. CASE /\ top.at = "walk" /\ ret = NoRet /\ top.todo # <<>> /\ f = Advanced(top)
             /\ Misses(Head(top.todo), r)
    <3>1. PICK k \in 1..Len(D[top.s]) : Asked(D, top, k) /\ NoneOf(D, S, top.s, k)
      BY <1>8, <2>4 DEF TopReads, NoRet
    <3>2. /\ k + 1 \in 1..Len(D[top.s]) /\ Head(top.todo) = D[top.s][k + 1]
          /\ Asked(D, f, k + 1)
      BY <1>6, <1>7, <2>4, <3>1, AskedNext
    <3>3. D[top.s][k + 1] \in Scripts
      BY <1>6, <1>7, <3>2 DEF Chained
    <3>4. D[top.s][k + 1] \notin S /\ r = Failed
      BY <1>5, <2>1, <2>4, <3>2, <3>3 DEF Misses, Servers
    <3>5. NoneOf(D, S, top.s, k + 1)
      BY <3>1, <3>4 DEF NoneOf
    <3> QED BY <1>2, <3>2, <3>4, <3>5 DEF TopReads, Failed
  <2>5. CASE top.at = "walk" /\ ret # NoRet /\ ~Stops(top, ret) /\ f = top /\ r = NoRet
    <3>1. ret.rc # "ok" /\ r.rc # "ok"
      BY <2>5 DEF Stops, NoRet
    <3> QED BY <1>8, <2>5, <3>1 DEF TopReads
  <2> QED BY <1>1, <2>1, <2>2, <2>3, <2>4, <2>5 DEF TurnCase
<1>12. 1 \in 1..n /\ u # <<>>
  BY <1>4, <1>5
<1> QED BY <1>1, <1>4, <1>5, <1>8, <1>9, <1>10, <1>11, <1>12

\* What a read or write is told by the frame it made.
LEMMA LeaveAnswers ==
  ASSUME Right, Still, Running, root.op # "call", NEW r, LeaveCase(r),
         TopReads(Lists, Servers, top, ret)
  PROVE  Answers(Lists, Servers, top.s, r)
<1>1. PICK D, S : D = Lists /\ S = Servers
  OBVIOUS
<1>2. /\ top \in FrameType /\ FrameRight(top) /\ top.s \in Scripts /\ ret \in RetType
  BY TopFrame DEF FrameType
<1>3. Chained(D)
  BY <1>1, StillFacts
<1>4. top.op # "call" /\ top.at # "body"
  BY <1>2 DEF FrameRight
<1>5. CASE top.at = "foreign" /\ top.s \in has /\ r \in Outcomes(top)
  <2>3. r = Ok(top.s)
    BY <1>4, <1>5 DEF Outcomes
  <2>1. top.s \in S
    BY <1>1, <1>2, <1>5 DEF FrameRight, Servers
  <2>2. First(D, S, top.s, top.s)
    BY <1>2, <1>3, <2>1, FirstSelf
  <2> QED BY <1>1, <2>2, <2>3 DEF Answers, Ok
<1>6. CASE top.s \notin has /\ top.s \in Polyglots /\ r \in {NotFound, Failed}
  <2>1. top.s \notin S
    BY <1>1, <1>6 DEF Servers
  <2> QED BY <1>1, <1>6, <2>1 DEF Answers, NotFound, Failed
<1>7. CASE top.at = "walk" /\ ret # NoRet /\ Stops(top, ret) /\ r = ret
  <2>1. ret.rc = "ok" /\ top.s \notin Polyglots
    BY <1>2, <1>4, <1>7 DEF Stops, FrameRight
  <2>2. First(D, S, ret.by, top.s)
    BY <1>1, <1>7, <2>1 DEF TopReads
  <2> QED BY <1>1, <1>7, <2>1, <2>2 DEF Answers
<1>8. CASE top.at = "walk" /\ ret = NoRet /\ top.todo = <<>> /\ r \in {NotFound, Failed}
  <2>1. PICK k \in 1..Len(D[top.s]) : Asked(D, top, k) /\ NoneOf(D, S, top.s, k)
    BY <1>1, <1>8 DEF TopReads, NoRet
  <2>2. Len(D[top.s]) \in Nat \ {0} /\ D[top.s][1] = top.s
    BY <1>2, <1>3 DEF Chained, ChainOf
  <2>3. Len(top.todo) = 0
    BY <1>8
  <2>4. k = Len(D[top.s])
    <3>1. Len(D[top.s]) - k = 0
      BY <2>1, <2>3 DEF Asked
    <3> QED BY <2>1, <2>2, <3>1
  <2>5. top.s \notin S /\ NoneOf(D, S, top.s, Len(D[top.s]))
    <3>1. 1 \in 1..k
      BY <2>1
    <3> QED BY <2>1, <2>2, <2>4, <3>1 DEF NoneOf
  <2> QED BY <1>1, <1>8, <2>5 DEF Answers, NotFound, Failed
<1> QED BY <1>4, <1>5, <1>6, <1>7, <1>8 DEF LeaveCase, Walks

LEMMA LeaveReads ==
  ASSUME Right, Reads, Running, UNCHANGED <<world, history>>, NEW r, Leave(r)
  PROVE  Reads'
<1> SUFFICES ASSUME Still, root.op # "call"
             PROVE  IF stack' = <<>> THEN Answers(Lists, Servers, root.s, ret')
                    ELSE /\ stack'[1].s = root.s
                         /\ ReadsOf(Lists, Servers, stack', Len(stack'))
                         /\ TopReads(Lists, Servers, stack'[Len(stack')], ret')
  <2>1. Lists' = Lists /\ Servers' = Servers
    BY SameChains DEF Lists, Servers, world
  <2> QED BY <2>1 DEF Reads, Still, Answers, history
<1>1. LeaveCase(r) /\ Return(r)
  BY DEF Leave
<1>2. PICK n \in Nat \ {0} : n = Len(stack) /\ top = stack[n]
  BY TopFrame
<1>3. /\ stack' \in Seq(FrameType) /\ Len(stack') = n - 1
      /\ \A i \in 1..n - 1 : stack'[i] = stack[i]
  BY <1>1, <1>2, LeaveShape
<1>4. PICK D, S, s, u : D = Lists /\ S = Servers /\ s = stack /\ u = stack'
  OBVIOUS
<1>5. /\ top \in FrameType /\ FrameRight(top) /\ top.s \in Scripts /\ s # <<>>
  BY <1>4, TopFrame DEF FrameType, Running
<1>6. Chained(D) /\ ~native /\ \A i \in 1..n : s[i].s \in Scripts
  BY <1>2, <1>4, StillFacts
<1>7. s[1].s = root.s /\ ReadsOf(D, S, s, n) /\ TopReads(D, S, top, ret)
  BY <1>2, <1>4, <1>5 DEF Reads
<1>8. Answers(D, S, top.s, r)
  BY <1>1, <1>4, <1>7, LeaveAnswers
<1>9. n \in 1..n /\ top.via = (IF n = 1 THEN "engine" ELSE "base")
  BY <1>2, <1>4, <1>7 DEF ReadsOf
<1>10. ret' = r
  <2>1. ret' = Seen(top, r)
    BY <1>1 DEF Return
  <2>2. top.op # "call"
    BY <1>5 DEF FrameRight
  <2> QED BY <1>2, <1>6, <1>9, <2>1, <2>2 DEF Seen
<1>11. CASE n = 1
  <2>1. u = <<>>
    BY <1>3, <1>4, <1>11
  <2> QED BY <1>2, <1>4, <1>7, <1>8, <1>10, <1>11, <2>1
<1>12. CASE n # 1
  <2>1. PICK m \in Nat \ {0} : n = m + 1
    BY <1>12
  <2>2. /\ m \in 1..n - 1 /\ m \in 1..n /\ 1 \in 1..m /\ u # <<>>
        /\ Len(u) = m /\ \A i \in 1..m : u[i] = s[i]
    BY <1>3, <1>4, <2>1
  <2>3. ReadsOf(D, S, u, m)
    <3>1. ASSUME NEW i \in 1..m PROVE u[i].via = (IF i = 1 THEN "engine" ELSE "base")
      <4>1. i \in 1..n
        BY <2>1
      <4>2. s[i].via = (IF i = 1 THEN "engine" ELSE "base")
        BY <1>7, <4>1 DEF ReadsOf
      <4> QED BY <2>2, <4>2
    <3>2. \A i \in 1..m - 1 : i \in 1..n - 1 /\ u[i] = s[i] /\ u[i + 1] = s[i + 1]
      BY <2>1, <2>2
    <3>3. ASSUME NEW i \in 1..m - 1
          PROVE  \E k \in 1..Len(D[u[i].s]) :
                     /\ Asked(D, u[i], k) /\ NoneOf(D, S, u[i].s, k - 1)
                     /\ u[i + 1].s = D[u[i].s][k]
      <4>1. i \in 1..n - 1 /\ u[i] = s[i] /\ u[i + 1] = s[i + 1]
        BY <3>2
      <4>2. \E k \in 1..Len(D[s[i].s]) :
                /\ Asked(D, s[i], k) /\ NoneOf(D, S, s[i].s, k - 1)
                /\ s[i + 1].s = D[s[i].s][k]
        BY <1>7, <4>1 DEF ReadsOf
      <4> QED BY <4>1, <4>2
    <3> QED BY <3>1, <3>3 DEF ReadsOf
  <2>4. PICK k \in 1..Len(D[s[m].s]) :
            /\ Asked(D, s[m], k) /\ NoneOf(D, S, s[m].s, k - 1)
            /\ top.s = D[s[m].s][k]
    BY <1>2, <1>4, <1>7, <2>1, <2>2 DEF ReadsOf
  <2>5. s[m].s \in Scripts
    BY <1>6, <2>2
  <2>6. IF r.rc = "ok" THEN First(D, S, r.by, s[m].s) ELSE NoneOf(D, S, s[m].s, k)
    <3>1. CASE r.rc = "ok"
      <4>1. First(D, S, r.by, top.s)
        BY <1>8, <3>1 DEF Answers
      <4> QED BY <1>5, <1>6, <2>4, <2>5, <3>1, <4>1, FirstUp
    <3>2. CASE r.rc # "ok"
      <4>1. top.s \notin S
        BY <1>8, <3>2 DEF Answers
      <4> QED BY <2>4, <3>2, <4>1 DEF NoneOf
    <3> QED BY <3>1, <3>2
  <2>7. TopReads(D, S, u[m], r)
    BY <2>2, <2>4, <2>6 DEF TopReads
  <2> QED BY <1>4, <1>7, <1>10, <2>2, <2>3, <2>7
<1> QED BY <1>11, <1>12

LEMMA EnterReadsOn ==
  ASSUME Right, Reads, Running, UNCHANGED <<world, history>>, NEW g, NEW f, Enter(g, f)
  PROVE  Reads'
<1>1. Lists' = Lists /\ Servers' = Servers
  BY SameChains DEF Lists, Servers, world
<1>2. EnterCase(g, f) /\ Push(g, f)
  BY DEF Enter
<1>3. CASE ~(Len(stack) < MaxStack)
  <2>1. UNCHANGED <<stack, ret>>
    BY <1>2, <1>3, Overflows
  <2> QED BY <1>1, <2>1 DEF Reads, Still, Answers, history
<1>4. CASE Len(stack) < MaxStack
  <2> SUFFICES ASSUME Still, root.op # "call"
               PROVE  /\ stack' # <<>> /\ stack'[1].s = root.s
                      /\ ReadsOf(Lists, Servers, stack', Len(stack'))
                      /\ TopReads(Lists, Servers, stack'[Len(stack')], ret')
    BY <1>1 DEF Reads, Still, history
  <2>1. PICK n \in Nat \ {0} : n = Len(stack) /\ top = stack[n]
    BY TopFrame
  <2>2. /\ g \in FrameType /\ f \in FrameType /\ top.at = "walk" /\ ret = NoRet
        /\ top.todo # <<>> /\ g = Advanced(top)
        /\ f = Frame(top.op, Head(top.todo), "base") /\ f.s = Head(top.todo)
    BY <1>2, EnterReads DEF Still
  <2>3. /\ Len(stack') = n + 1 /\ stack'[n] = g /\ stack'[n + 1] = f
        /\ \A i \in 1..n - 1 : stack'[i] = stack[i]
    BY <1>2, <1>4, <2>1, <2>2, EnterShape
  <2>4. PICK D, S, s, u : D = Lists /\ S = Servers /\ s = stack /\ u = stack'
    OBVIOUS
  <2>5. /\ top \in FrameType /\ FrameRight(top) /\ top.s \in Scripts /\ s # <<>>
    BY <2>4, TopFrame DEF FrameType, Running
  <2>6. Chained(D)
    BY <2>4, StillFacts
  <2>7. s[1].s = root.s /\ ReadsOf(D, S, s, n) /\ TopReads(D, S, top, ret)
    BY <2>1, <2>4, <2>5 DEF Reads
  <2>8. PICK k \in 1..Len(D[top.s]) : Asked(D, top, k) /\ NoneOf(D, S, top.s, k)
    BY <2>2, <2>7 DEF TopReads, NoRet
  <2>9. /\ k + 1 \in 1..Len(D[top.s]) /\ f.s = D[top.s][k + 1]
        /\ Asked(D, g, k + 1) /\ g.s = top.s /\ g.via = top.via
    BY <2>2, <2>5, <2>6, <2>8, AskedNext
  <2>10. f.via = "base" /\ f.at = "foreign"
    BY <2>2 DEF Frame
  <2>11. \A i \in 1..n : u[i].s = s[i].s /\ u[i].via = s[i].via
    <3> TAKE i \in 1..n
    <3>1. i = n \/ i \in 1..n - 1
      OBVIOUS
    <3> QED BY <2>1, <2>3, <2>4, <2>9, <3>1
  <2>12. ReadsOf(D, S, u, n + 1)
    <3>1. ASSUME NEW i \in 1..n + 1
          PROVE  u[i].via = (IF i = 1 THEN "engine" ELSE "base")
      <4>1. i = n + 1 \/ i \in 1..n
        OBVIOUS
      <4> QED BY <2>3, <2>4, <2>7, <2>10, <2>11, <4>1 DEF ReadsOf
    <3>2. ASSUME NEW i \in 1..n
          PROVE  \E j \in 1..Len(D[u[i].s]) :
                     /\ Asked(D, u[i], j) /\ NoneOf(D, S, u[i].s, j - 1)
                     /\ u[i + 1].s = D[u[i].s][j]
      <4>1. CASE i = n
        <5>1. u[i] = g /\ u[i + 1] = f /\ (k + 1) - 1 = k
          BY <2>3, <2>4, <4>1
        <5> QED BY <2>8, <2>9, <5>1
      <4>2. CASE i \in 1..n - 1
        <5>1. i + 1 \in 1..n /\ u[i] = s[i] /\ u[i + 1].s = s[i + 1].s
          BY <2>3, <2>4, <2>11, <4>2
        <5> QED BY <2>7, <4>2, <5>1 DEF ReadsOf
      <4>3. i = n \/ i \in 1..n - 1
        OBVIOUS
      <4> QED BY <4>1, <4>2, <4>3
    <3> QED BY <3>1, <3>2 DEF ReadsOf
  <2>13. TopReads(D, S, f, ret')
    BY <2>10 DEF TopReads
  <2>14. u # <<>> /\ 1 \in 1..n
    BY <2>3, <2>4
  <2> QED BY <2>3, <2>4, <2>7, <2>11, <2>12, <2>13, <2>14
<1> QED BY <1>3, <1>4

-----------------------------------------------------------------------------
(* Calls *)

\* The scripts of a chain that a call gets past without an answer.
Silent == live \ (Polyglots \cup quarantined \cup has)

\* Those that can answer an access.
Having(op, s) ==
    {i \in 1..Len(Lists[s]) :
        /\ Lists[s][i] \in live \cap has
        /\ IF op = "call"
           THEN /\ \A j \in 1..i - 1 : Lists[s][j] \in live \ (Polyglots \cup quarantined)
                /\ i - 1 <= PL_BRIDGE_MAX_CALL_DEPTH
           ELSE i = 1 \/ s \notin Polyglots}

\* Server() is the first of those that can answer.
LEMMA ServerIs ==
  ASSUME Entries, MaxChain \in Nat, NEW s \in Scripts, NEW op
  PROVE  /\ Having(op, s) = {} => Server(op, s) = NoPath
         /\ \A n \in Having(op, s) :
                (\A j \in Having(op, s) : n <= j) => Server(op, s) = Lists[s][n]
<1>1. PICK c : c = resolve_chain(s)
  OBVIOUS
<1>2. Lists[s] = c /\ ChainOf(c, s)
  BY <1>1, ChainFacts DEF Lists
<1>3. Len(c) \in Nat /\ DOMAIN c = 1..Len(c)
  BY <1>2 DEF ChainOf
<1>4. PICK H : H = Having(op, s)
  OBVIOUS
<1>5. H \subseteq 1..Len(c)
  BY <1>2, <1>4 DEF Having
<1>6. Server(op, s) = IF H = {} THEN NoPath
                      ELSE c[CHOOSE i \in H : \A j \in H : i <= j]
  BY <1>1, <1>2, <1>3, <1>4 DEF Server, Having
<1>7. ASSUME NEW n \in H, \A j \in H : n <= j PROVE Server(op, s) = c[n]
  <2>1. PICK m : m = CHOOSE i \in H : \A j \in H : i <= j
    OBVIOUS
  <2>2. m \in H /\ \A j \in H : m <= j
    BY <1>7, <2>1
  <2>3. m <= n /\ n <= m /\ m \in Nat /\ n \in Nat
    BY <1>3, <1>5, <1>7, <2>2
  <2>4. m = n
    BY <2>3
  <2> QED BY <1>6, <2>1, <2>4
<1> QED BY <1>2, <1>4, <1>6, <1>7

\* What a call of the root is to return, told by p, the script that is to answer.
Told(p, r) == IF p # NoPath THEN r \in {Ok(p), Raised(p)} ELSE r.by \notin Scripts

\* An error code reaches the engine only from the script that it called.
OwnError(s, r) == r.rc = "ok" \/ r.by \in {s, NoPath}

\* Past m silent scripts the next one that has the method answers ...
LEMMA CallAnswered ==
  ASSUME Entries, MaxChain \in Nat, Chained(Lists), NEW s \in Scripts,
         NEW m \in Nat, m + 1 \in 1..Len(Lists[s]), m <= PL_BRIDGE_MAX_CALL_DEPTH,
         \A j \in 1..m : Lists[s][j] \in Silent,
         Lists[s][m + 1] \in live \cap has,
         NEW r \in {Ok(Lists[s][m + 1]), Raised(Lists[s][m + 1])}
  PROVE  Told(Server("call", s), r)
<1>1. \A j \in 1..m : Lists[s][j] \in live \ (Polyglots \cup quarantined) /\ Lists[s][j] \notin has
  BY DEF Silent
<1>2. m + 1 \in Having("call", s)
  BY <1>1 DEF Having
<1>3. ASSUME NEW j \in Having("call", s) PROVE m + 1 <= j
  <2>1. j \in 1..Len(Lists[s]) /\ Lists[s][j] \in has
    BY DEF Having
  <2>2. ~(j \in 1..m)
    BY <1>1, <2>1
  <2> QED BY <2>1, <2>2
<1>4. Server("call", s) = Lists[s][m + 1]
  BY <1>2, <1>3, ServerIs
<1>5. Lists[s][m + 1] # NoPath
  BY InheritAssumption DEF Chained
<1> QED BY <1>4, <1>5 DEF Told

\* ... and nobody when that one lacks it and ends the walk, or cannot be asked.
LEMMA CallUnanswered ==
  ASSUME Entries, MaxChain \in Nat, Chained(Lists), NEW s \in Scripts,
         NEW m \in Nat, PL_BRIDGE_MAX_CALL_DEPTH \in Nat,
         \A j \in 1..m : j \in 1..Len(Lists[s]) => Lists[s][j] \notin live \cap has,
         \/ m >= Len(Lists[s])
         \/ m \in Nat \ {0} /\ Lists[s][m] \notin live \ (Polyglots \cup quarantined)
         \/ m > PL_BRIDGE_MAX_CALL_DEPTH,
         NEW r, r.by \notin Scripts
  PROVE  Told(Server("call", s), r)
<1>1. ASSUME NEW i \in Having("call", s) PROVE FALSE
  <2>1. /\ i \in 1..Len(Lists[s]) /\ Lists[s][i] \in live \cap has
        /\ \A j \in 1..i - 1 : Lists[s][j] \in live \ (Polyglots \cup quarantined)
        /\ i - 1 <= PL_BRIDGE_MAX_CALL_DEPTH
    BY DEF Having
  <2>2. Len(Lists[s]) \in Nat
    BY DEF Chained, ChainOf
  <2>3. i > m
    BY <2>1, <2>2
  <2>4. m < Len(Lists[s]) /\ m <= PL_BRIDGE_MAX_CALL_DEPTH
    BY <2>1, <2>2, <2>3
  <2>5. m \in Nat \ {0} /\ Lists[s][m] \notin live \ (Polyglots \cup quarantined)
    BY <2>2, <2>4
  <2>6. m \in 1..i - 1
    BY <2>1, <2>3, <2>5
  <2> QED BY <2>1, <2>5, <2>6
<1>2. Server("call", s) = NoPath
  BY <1>1, ServerIs
<1> QED BY <1>2 DEF Told

\* The lowest m frames of a stack walk down the chain of the root, past silent scripts.
Spine(D, st, m, s) ==
    /\ m \in 1..Len(D[s])
    /\ \A i \in 1..m :
           st[i].s = D[s][i] /\ st[i].via = (IF i = 1 THEN "engine" ELSE "bridge")
    /\ \A i \in 1..m - 1 : st[i].at = "walk" /\ D[s][i] \in Silent

\* What the top frame of the spine does when it is the top of the stack; what is above a
\* running method is its own.
SpineTop(D, f, top0, r, p) ==
    \/ f.at = "body"
    \/ top0 /\ f.at = "foreign"
    \/ /\ top0 /\ f.at = "walk" /\ f.s \in Silent
       /\ IF r = NoRet THEN f.todo = Tail(D[f.s]) ELSE Told(p, r) /\ r.rc = "ok"

CallsOf(D, st, n, r, s, p) ==
    \E m \in 1..n : Spine(D, st, m, s) /\ SpineTop(D, st[m], m = n, r, p)

\* The invariant of an undisturbed call.
Calls ==
    Still /\ root.op = "call" =>
        IF stack = <<>> THEN Told(Server("call", root.s), ret) /\ OwnError(root.s, ret)
        ELSE CallsOf(Lists, stack, Len(stack), ret, root.s, Server("call", root.s))

\* A stack that agrees with a spine still has it.
LEMMA SpineKept ==
  ASSUME NEW D, NEW st, NEW u, NEW m \in Nat, NEW s, Spine(D, st, m, s),
         \A i \in 1..m - 1 : u[i] = st[i],
         u[m].s = st[m].s, u[m].via = st[m].via
  PROVE  Spine(D, u, m, s)
<1>1. ASSUME NEW i \in 1..m
      PROVE  u[i].s = D[s][i] /\ u[i].via = (IF i = 1 THEN "engine" ELSE "bridge")
  <2>1. i = m \/ i \in 1..m - 1
    OBVIOUS
  <2> QED BY <2>1 DEF Spine
<1> QED BY <1>1 DEF Spine

\* The depth of a stack that is a spine.
LEMMA SpineDepth ==
  ASSUME NEW D, NEW st, NEW m \in Nat \ {0}, NEW s, Spine(D, st, m, s)
  PROVE  Depth(st, m) = m - 1
<1>1. Bridges(st, m) = 2..m
  <2>1. ASSUME NEW i \in 1..m PROVE st[i].via = "bridge" <=> i # 1
    BY DEF Spine
  <2> QED BY <2>1 DEF Bridges
<1>2. Cardinality(2..m) = m - 1
  BY FS_Interval
<1> QED BY <1>1, <1>2 DEF Depth

\* What is left of the chain D[s] for t, the m-th of it.
Rest(D, t, m, s) ==
    /\ t = D[s][m] /\ t \in Scripts
    /\ Len(D[t]) = Len(D[s]) - m + 1 /\ Len(D[s]) \in Nat
    /\ m < Len(D[s]) => /\ D[t][2] = D[s][m + 1] /\ D[s][m + 1] = BaseOf(t)
                        /\ D[s][m + 1] # NoPath /\ D[s][m + 1] \in Scripts

\* At the m-th of the spine the rest of the chain is its own.
LEMMA SpineEnd ==
  ASSUME NEW D, Chained(D), NEW st, NEW m \in Nat \ {0}, NEW s \in Scripts, Spine(D, st, m, s)
  PROVE  Rest(D, st[m].s, m, s)
<1>1. /\ st[m].s = D[s][m] /\ m \in 1..Len(D[s])
  BY DEF Spine
<1>2. PICK t \in Scripts : t = D[s][m]
  BY <1>1 DEF Chained
<1>3. ChainOf(D[s], s)
  BY DEF Chained
<1>4. Len(D[t]) = Len(D[s]) - m + 1 /\ \A i \in 1..Len(D[t]) : D[t][i] = D[s][m + i - 1]
  BY <1>1, <1>2 DEF Chained
<1>5. PICK l, h : l \in Nat /\ l = Len(D[s]) /\ h = Len(D[t])
  BY <1>3 DEF ChainOf
<1>6. ASSUME m < l
      PROVE  /\ D[t][2] = D[s][m + 1] /\ D[s][m + 1] = BaseOf(t)
             /\ D[s][m + 1] # NoPath /\ D[s][m + 1] \in Scripts
  <2>1. 2 \in 1..h /\ m + 2 - 1 = m + 1 /\ m \in 1..l - 1 /\ m + 1 \in 1..l
    BY <1>1, <1>4, <1>5, <1>6
  <2>2. D[t][2] = D[s][m + 1]
    BY <1>4, <1>5, <2>1
  <2>3. D[s][m + 1] = BaseOf(t) /\ D[s][m + 1] # NoPath
    BY <1>2, <1>3, <1>5, <2>1 DEF ChainOf
  <2>4. D[s][m + 1] \in Scripts
    BY <1>5, <2>1 DEF Chained
  <2> QED BY <2>2, <2>3, <2>4
<1> QED BY <1>1, <1>2, <1>4, <1>5, <1>6 DEF Rest

\* When the top of the spine is the top of the stack: those before it were silent.
LEMMA SpineSilent ==
  ASSUME Right, NEW n \in Nat \ {0}, NEW s, Spine(Lists, stack, n, s)
  PROVE  \A j \in 1..n - 1 : Lists[s][j] \in Silent /\ Lists[s][j] \notin live \cap has
BY DEF Spine, Silent

\* What a walk through the silent top of the spine asks.
LEMMA SpineAsks ==
  ASSUME Right, Still, Running, NEW n \in Nat \ {0}, n = Len(stack),
         Spine(Lists, stack, n, root.s), top.todo = Tail(Lists[top.s])
  PROVE  /\ top.todo = <<>> <=> n >= Len(Lists[root.s])
         /\ top.todo # <<>> => /\ Head(top.todo) = Lists[root.s][n + 1]
                               /\ Head(top.todo) \in Scripts
                               /\ n + 1 \in 1..Len(Lists[root.s])
<1>1. PICK D, s : D = Lists /\ s = root.s
  OBVIOUS
<1>2. Chained(D) /\ s \in Scripts /\ top = stack[n] /\ Spine(D, stack, n, s)
  BY <1>1, StillFacts, TopFrame DEF Right, Typed
<1>3. /\ top.s = D[s][n] /\ top.s \in Scripts
      /\ Len(D[top.s]) = Len(D[s]) - n + 1 /\ Len(D[s]) \in Nat
      /\ n < Len(D[s]) => D[top.s][2] = D[s][n + 1] /\ D[s][n + 1] = BaseOf(top.s)
                          /\ D[s][n + 1] # NoPath /\ D[s][n + 1] \in Scripts
  <2>1. Rest(D, stack[n].s, n, s)
    BY <1>2, SpineEnd
  <2> QED BY <1>2, <2>1 DEF Rest
<1>4. ChainOf(D[top.s], top.s)
  BY <1>2, <1>3 DEF Chained
<1>5. PICK d : d = D[top.s] /\ d \in Seq(Path) /\ d # <<>> /\ Len(d) \in Nat \ {0}
  BY <1>4 DEF ChainOf
<1>6. /\ Tail(d) \in Seq(Path) /\ Len(Tail(d)) = Len(d) - 1
      /\ \A i \in 1..Len(d) - 1 : Tail(d)[i] = d[i + 1]
  BY <1>5, Todos
<1>7. PICK e \in Seq(Path) : e = Tail(d)
  BY <1>6
<1>8. top.todo = e /\ Len(e) = Len(d) - 1 /\ \A i \in 1..Len(d) - 1 : e[i] = d[i + 1]
  BY <1>1, <1>5, <1>6, <1>7
<1>9. (e = <<>> <=> Len(e) = 0) /\ Len(e) \in Nat
  BY Elements
<1>10. PICK l \in Nat : l = Len(D[s]) /\ Len(d) = l - n + 1 /\ n <= l
  BY <1>2, <1>3, <1>5 DEF Spine
<1>11. e = <<>> <=> n >= l
  BY <1>8, <1>9, <1>10
<1>12. ASSUME e # <<>>
       PROVE  Head(e) = D[s][n + 1] /\ D[s][n + 1] \in Scripts /\ n + 1 \in 1..l
  <2>1. n < l /\ 1 \in 1..Len(d) - 1
    BY <1>8, <1>9, <1>10, <1>11, <1>12
  <2>2. Head(e) = e[1]
    BY <1>12, Todos
  <2>3. e[1] = d[2]
    BY <1>8, <2>1
  <2> QED BY <1>3, <1>5, <1>10, <2>1, <2>2, <2>3
<1> QED BY <1>1, <1>8, <1>10, <1>11, <1>12

\* A return from the top of the spine tells what the root is to return.
LEMMA LeaveTold ==
  ASSUME Right, Counted, Still, Running, root.op = "call", NEW r, LeaveCase(r),
         NEW n \in Nat \ {0}, n = Len(stack), Spine(Lists, stack, n, root.s),
         SpineTop(Lists, top, TRUE, ret, Server("call", root.s))
  PROVE  Told(Server("call", root.s), r)
<1>1. PICK p : p = Server("call", root.s)
  OBVIOUS
<1>2. PICK s \in Scripts : s = root.s
  BY TopFrame DEF Right, Typed
<1>3. /\ top \in FrameType /\ FrameRight(top) /\ top = stack[n] /\ top.op = "call"
      /\ top.s \in live
  BY TopFrame DEF FrameRight
<1>4. /\ Chained(Lists) /\ Entries /\ MaxChain \in Nat
      /\ PL_BRIDGE_MAX_CALL_DEPTH \in Nat /\ NoPath \notin Scripts
  BY StillFacts, InheritAssumption
<1>5. /\ top.s = Lists[s][n] /\ Len(Lists[s]) \in Nat /\ n \in 1..Len(Lists[s])
      /\ n < Len(Lists[s]) => BaseOf(top.s) # NoPath
  <2>1. Spine(Lists, stack, n, s)
    BY <1>2
  <2>2. Rest(Lists, stack[n].s, n, s)
    BY <1>4, <2>1, SpineEnd
  <2> QED BY <1>3, <2>1, <2>2 DEF Spine, Rest
<1>6. \A j \in 1..n - 1 : Lists[s][j] \in Silent /\ Lists[s][j] \notin live \cap has
  BY <1>2, SpineSilent
<1>7. ASSUME top.s \notin has, r.by = NoPath,
             n >= Len(Lists[s]) \/ top.s \notin live \ (Polyglots \cup quarantined)
      PROVE  Told(p, r)
  <2>1. \A j \in 1..n : j \in 1..Len(Lists[s]) => Lists[s][j] \notin live \cap has
    <3> TAKE j \in 1..n
    <3>1. j = n \/ j \in 1..n - 1
      OBVIOUS
    <3> QED BY <1>5, <1>6, <1>7, <3>1
  <2>2. \/ n >= Len(Lists[s])
        \/ n \in Nat \ {0} /\ Lists[s][n] \notin live \ (Polyglots \cup quarantined)
    BY <1>5, <1>7
  <2>3. r.by \notin Scripts
    BY <1>4, <1>7
  <2>4. Told(Server("call", s), r)
    BY <1>4, <2>1, <2>2, <2>3, CallUnanswered
  <2> QED BY <1>1, <1>2, <2>4
<1>8. CASE r \in Outcomes(top) /\ top.s \in has
  <2>1. PICK m \in Nat : n = m + 1
    OBVIOUS
  <2>2. Depth(stack, n) = n - 1
    BY SpineDepth
  <2>3. m <= PL_BRIDGE_MAX_CALL_DEPTH
    BY <2>1, <2>2 DEF Counted, DepthRight
  <2>4. /\ m + 1 \in 1..Len(Lists[s]) /\ \A j \in 1..m : Lists[s][j] \in Silent
        /\ Lists[s][m + 1] = top.s
    BY <1>5, <1>6, <2>1
  <2>5. r \in {Ok(Lists[s][m + 1]), Raised(Lists[s][m + 1])}
    BY <1>3, <1>8, <2>4 DEF Outcomes
  <2>6. Told(Server("call", s), r)
    BY <1>3, <1>4, <1>8, <2>3, <2>4, <2>5, CallAnswered
  <2> QED BY <1>1, <1>2, <2>6
<1>9. CASE top.s \notin has /\ top.s \in Polyglots /\ r \in {NotFound, Failed}
  BY <1>1, <1>7, <1>9 DEF NotFound, Failed
<1>10. CASE top.s \notin has /\ ~Walks(top) /\ r = Refusal(top)
  <2>1. r.by = NoPath
    BY <1>10 DEF Refusal, NotFound, Failed
  <2>2. CASE top.s \in quarantined
    BY <1>1, <1>7, <1>10, <2>1, <2>2
  <2>3. CASE entries[top.s] = NoPath
    <3>1. BaseOf(top.s) = NoPath
      BY <1>3, <2>3 DEF BaseOf, FrameType
    <3>2. n >= Len(Lists[s])
      BY <1>5, <3>1
    <3> QED BY <1>1, <1>7, <1>10, <2>1, <3>2
  <2> QED BY <1>3, <1>10, <2>2, <2>3 DEF Walks
<1>11. CASE top.at = "walk" /\ ret # NoRet /\ r = ret
  BY <1>1, <1>11 DEF SpineTop
<1>12. CASE top.at = "walk" /\ ret = NoRet /\ top.todo = <<>> /\ r \in {NotFound, Failed}
  <2>1. top.s \in Silent /\ top.todo = Tail(Lists[top.s])
    BY <1>12 DEF SpineTop
  <2>2. n >= Len(Lists[s])
    BY <1>2, <1>12, <2>1, SpineAsks
  <2> QED BY <1>1, <1>7, <1>12, <2>1, <2>2 DEF Silent, NotFound, Failed
<1>13. top.at = "body" => top.s \in has
  BY <1>3 DEF FrameRight
<1> QED BY <1>8, <1>9, <1>10, <1>11, <1>12, <1>13 DEF LeaveCase

\* A base that cannot be asked ends the call with nothing.
LEMMA MissTold ==
  ASSUME Right, Counted, Still, Running, root.op = "call",
         NEW n \in Nat \ {0}, n = Len(stack), Spine(Lists, stack, n, root.s),
         top.s \in Silent, top.todo = Tail(Lists[top.s]), top.todo # <<>>,
         NEW r, Misses(Head(top.todo), r)
  PROVE  Told(Server("call", root.s), r) /\ r.rc = "ok"
<1>1. PICK s \in Scripts : s = root.s
  BY TopFrame DEF Right, Typed
<1>2. /\ top \in FrameType /\ top = stack[n] /\ top.op = "call"
  BY TopFrame DEF FrameRight
<1>3. /\ Chained(Lists) /\ Entries /\ MaxChain \in Nat
      /\ PL_BRIDGE_MAX_CALL_DEPTH \in Nat /\ NoPath \notin Scripts
  BY StillFacts, InheritAssumption
<1>4. /\ Head(top.todo) = Lists[s][n + 1] /\ Head(top.todo) \in Scripts
      /\ n + 1 \in 1..Len(Lists[s])
  BY <1>1, SpineAsks
<1>5. PICK b \in Scripts : b = Lists[s][n + 1] /\ ~(GuardPasses /\ b \in live) /\ r = Nil
  BY <1>2, <1>4 DEF Misses
<1>6. \A j \in 1..n : Lists[s][j] \notin live \cap has
  <2> TAKE j \in 1..n
  <2>1. j = n \/ j \in 1..n - 1
    OBVIOUS
  <2>2. \A i \in 1..n - 1 : Lists[s][i] \notin live \cap has
    BY <1>1, SpineSilent
  <2>3. top.s = Lists[s][n] /\ top.s \notin has
    BY <1>1, <1>2 DEF Spine, Silent
  <2> QED BY <2>1, <2>2, <2>3
<1>7. r.by \notin Scripts /\ r.rc = "ok"
  BY <1>3, <1>5 DEF Nil
<1>8. CASE b \notin live
  <2>1. PICK m \in Nat \ {0} : m = n + 1
    OBVIOUS
  <2>2. \A j \in 1..m : Lists[s][j] \notin live \cap has
    <3> TAKE j \in 1..m
    <3>1. j = m \/ j \in 1..n
      BY <2>1
    <3> QED BY <1>5, <1>6, <1>8, <2>1, <3>1
  <2>3. Lists[s][m] \notin live \ (Polyglots \cup quarantined)
    BY <1>5, <1>8, <2>1
  <2> QED BY <1>1, <1>3, <1>7, <2>2, <2>3, CallUnanswered
<1>9. CASE ~GuardPasses
  <2>1. Depth(stack, n) = n - 1
    BY SpineDepth
  <2>2. n > PL_BRIDGE_MAX_CALL_DEPTH
    BY <1>3, <1>9, <2>1 DEF GuardPasses, Counted, DepthRight
  <2> QED BY <1>1, <1>3, <1>6, <1>7, <2>2, CallUnanswered
<1> QED BY <1>5, <1>8, <1>9

\* What the step of an undisturbed call starts from.
LEMMA CallsNow ==
  ASSUME Right, Calls, Still, Running, root.op = "call"
  PROVE  /\ \E m \in 1..Len(stack) :
                /\ Spine(Lists, stack, m, root.s)
                /\ SpineTop(Lists, stack[m], m = Len(stack), ret, Server("call", root.s))
         /\ Chained(Lists) /\ ~native /\ root.s \in Scripts
BY StillFacts, TopFrame DEF Calls, CallsOf, Running, Right, Typed

\* Servers and chains stay as they are, so do the answers.
LEMMA CallsLater ==
  ASSUME UNCHANGED <<world, history>>,
         Still /\ root.op = "call" =>
             IF stack' = <<>>
             THEN Told(Server("call", root.s), ret') /\ OwnError(root.s, ret')
             ELSE CallsOf(Lists, stack', Len(stack'), ret', root.s, Server("call", root.s))
  PROVE  Calls'
<1>1. Lists' = Lists /\ Silent' = Silent /\ Still' = Still /\ root' = root
  BY SameChains DEF Lists, Silent, Still, world, history
<1>2. Server("call", root.s)' = Server("call", root.s)
  <2>1. resolve_chain(root.s)' = resolve_chain(root.s)
    BY <1>1, SameChains DEF world
  <2>2. UNCHANGED <<live, has, quarantined>>
    BY DEF world
  <2> QED BY <1>1, <2>1, <2>2 DEF Server
<1> QED BY <1>1, <1>2 DEF Calls, CallsOf, Spine, SpineTop, Told, OwnError

\* The steps of an undisturbed call keep the invariant.
LEMMA TurnCalls ==
  ASSUME Right, Counted, Calls, Running, UNCHANGED <<world, history>>, NEW f, NEW r, Turn(f, r)
  PROVE  Calls'
<1> SUFFICES ASSUME Still, root.op = "call"
             PROVE  /\ stack' # <<>>
                    /\ CallsOf(Lists, stack', Len(stack'), ret', root.s, Server("call", root.s))
  BY CallsLater
<1>1. TurnCase(f, r) /\ Settle(f) /\ ret' = r
  BY DEF Turn
<1>2. /\ f \in FrameType /\ f.s = top.s /\ f.via = top.via
  BY <1>1, TurnRight
<1>3. PICK n \in Nat \ {0} : n = Len(stack) /\ top = stack[n]
  BY TopFrame
<1>4. /\ stack' \in Seq(FrameType) /\ Len(stack') = n /\ stack'[n] = f
      /\ \A i \in 1..n - 1 : stack'[i] = stack[i]
  BY <1>1, <1>2, <1>3, TurnShape
<1>5. PICK D, p, s, u, v : D = Lists /\ p = Server("call", root.s) /\ s = root.s
                           /\ u = stack' /\ v = stack
  OBVIOUS
<1>6. PICK m \in 1..n : Spine(D, v, m, s) /\ SpineTop(D, v[m], m = n, ret, p)
  BY <1>3, <1>5, CallsNow
<1>7. \A i \in 1..m - 1 : u[i] = v[i]
  BY <1>4, <1>5
<1>8. u[m].s = v[m].s /\ u[m].via = v[m].via
  <2>1. m = n \/ m \in 1..n - 1
    OBVIOUS
  <2> QED BY <1>2, <1>3, <1>4, <1>5, <2>1
<1>9. Spine(D, u, m, s)
  BY <1>6, <1>7, <1>8, SpineKept
<1>10. SpineTop(D, u[m], m = n, r, p)
  <2>1. CASE m # n
    <3>1. u[m] = v[m] /\ v[m].at = "body"
      BY <1>4, <1>5, <1>6, <2>1 DEF SpineTop
    <3> QED BY <3>1 DEF SpineTop
  <2>2. CASE m = n
    <3>1. u[m] = f /\ v[m] = top /\ SpineTop(D, top, TRUE, ret, p) /\ Spine(D, v, n, s)
      BY <1>3, <1>4, <1>5, <1>6, <2>2
    <3>2. /\ top \in FrameType /\ FrameRight(top) /\ top.op = "call" /\ top.s \in live
          /\ top.s \in Scripts
      BY TopFrame DEF FrameRight, FrameType
    <3>3. CASE f = [top EXCEPT !.at = "body"]
      <4>1. f.at = "body"
        BY <3>2, <3>3 DEF FrameType
      <4> QED BY <3>1, <4>1 DEF SpineTop
    <3>4. CASE top.s \notin has \cup Polyglots /\ Walks(top) /\ f = Walker(top) /\ r = NoRet
      <4>1. f.at = "walk" /\ f.todo = Tail(resolve_chain(top.s)) /\ f.s = top.s
        BY <3>2, <3>4 DEF Walker, FrameType
      <4>2. D[f.s] = resolve_chain(top.s)
        BY <1>5, <3>2, <4>1 DEF Lists
      <4>3. f.s \in Silent
        BY <3>2, <3>4, <4>1 DEF Walks, Silent
      <4> QED BY <2>2, <3>1, <3>4, <4>1, <4>2, <4>3 DEF SpineTop
    <3>5. CASE top.at = "body" /\ f = top
      BY <3>1, <3>5 DEF SpineTop
    <3>6. CASE /\ top.at = "walk" /\ ret = NoRet /\ top.todo # <<>> /\ f = Advanced(top)
               /\ Misses(Head(top.todo), r)
      <4>1. top.s \in Silent /\ top.todo = Tail(D[top.s])
        BY <3>1, <3>6 DEF SpineTop
      <4>2. Told(p, r) /\ r.rc = "ok"
        BY <1>3, <1>5, <3>1, <3>6, <4>1, MissTold
      <4>3. f.at = "walk" /\ f.s \in Silent /\ r # NoRet
        BY <1>2, <3>2, <3>6, <4>1, <4>2 DEF Advanced, FrameType, NoRet
      <4> QED BY <2>2, <3>1, <4>2, <4>3 DEF SpineTop
    <3>7. CASE top.at = "walk" /\ ret # NoRet /\ ~Stops(top, ret)
      BY <3>1, <3>7 DEF SpineTop, Stops
    <3> QED BY <1>1, <3>3, <3>4, <3>5, <3>6, <3>7 DEF TurnCase
  <2> QED BY <2>1, <2>2
<1>11. CallsOf(D, u, n, r, s, p)
  BY <1>9, <1>10 DEF CallsOf
<1>12. u # <<>>
  BY <1>4, <1>5
<1> QED BY <1>1, <1>4, <1>5, <1>11, <1>12

LEMMA LeaveCalls ==
  ASSUME Right, Counted, Calls, Running, UNCHANGED <<world, history>>, NEW r, Leave(r)
  PROVE  Calls'
<1> SUFFICES ASSUME Still, root.op = "call"
             PROVE  IF stack' = <<>>
                    THEN Told(Server("call", root.s), ret') /\ OwnError(root.s, ret')
                    ELSE CallsOf(Lists, stack', Len(stack'), ret', root.s, Server("call", root.s))
  BY CallsLater
<1>1. LeaveCase(r) /\ Return(r)
  BY DEF Leave
<1>2. PICK n \in Nat \ {0} : n = Len(stack) /\ top = stack[n]
  BY TopFrame
<1>3. /\ stack' \in Seq(FrameType) /\ Len(stack') = n - 1
      /\ \A i \in 1..n - 1 : stack'[i] = stack[i]
  BY <1>1, <1>2, LeaveShape
<1>4. PICK D, p, s, u, v : D = Lists /\ p = Server("call", root.s) /\ s = root.s
                           /\ u = stack' /\ v = stack
  OBVIOUS
<1>5. PICK m \in 1..n : Spine(D, v, m, s) /\ SpineTop(D, v[m], m = n, ret, p)
  BY <1>2, <1>4, CallsNow
<1>6. ~native /\ top.op = "call" /\ ret' = Seen(top, r) /\ NoPath \notin Scripts
  BY <1>1, CallsNow, TopFrame, InheritAssumption DEF Return, FrameRight
<1>7. CASE m # n
  <2>1. PICK k \in Nat \ {0} : n = k + 1
    BY <1>7
  <2>2. m \in 1..k /\ Len(u) = k /\ u # <<>> /\ \A i \in 1..k : u[i] = v[i]
    BY <1>3, <1>4, <1>7, <2>1
  <2>3. Spine(D, u, m, s)
    BY <1>5, <2>2, SpineKept
  <2>4. v[m].at = "body"
    BY <1>5, <1>7 DEF SpineTop
  <2>5. SpineTop(D, u[m], m = k, ret', p)
    BY <2>2, <2>4 DEF SpineTop
  <2>6. CallsOf(D, u, k, ret', s, p)
    BY <2>2, <2>3, <2>5 DEF CallsOf
  <2> QED BY <1>4, <2>2, <2>6
<1>8. CASE m = n
  <2>1. Spine(D, v, n, s) /\ SpineTop(D, top, TRUE, ret, p)
    BY <1>2, <1>4, <1>5, <1>8
  <2>2. Told(p, r)
    BY <1>1, <1>2, <1>4, <2>1, LeaveTold
  <2>3. n \in 1..n /\ top.via = (IF n = 1 THEN "engine" ELSE "bridge")
    BY <1>2, <1>4, <2>1 DEF Spine
  <2>4. CASE n = 1
    <3>1. ret' = r
      BY <1>6, <2>3, <2>4 DEF Seen
    <3>2. u = <<>>
      BY <1>3, <1>4, <2>4
    <3>3. OwnError(s, r)
      <4>1. top.s = s
        BY <1>2, <1>4, <2>1, <2>4, CallsNow DEF Spine, Chained, ChainOf
      <4>2. r \in Outcomes(top) => r.by = top.s
        BY DEF Outcomes, Ok, Raised
      <4>3. r \in {NotFound, Failed, Refusal(top)} => r.by = NoPath
        BY DEF Refusal, NotFound, Failed
      <4>4. top.at = "walk" /\ ret # NoRet => ret.rc = "ok"
        BY <2>1 DEF SpineTop
      <4> QED BY <1>1, <4>1, <4>2, <4>3, <4>4 DEF LeaveCase, OwnError
    <3> QED BY <1>4, <2>2, <3>1, <3>2, <3>3
  <2>5. CASE n # 1
    <3>1. PICK k \in Nat \ {0} : n = k + 1
      BY <2>5
    <3>2. /\ k \in 1..k /\ k \in 1..n - 1 /\ Len(u) = k /\ u # <<>>
          /\ \A i \in 1..k : u[i] = v[i]
      BY <1>3, <1>4, <3>1
    <3>3. ret' = [r EXCEPT !.rc = "ok"] /\ r \in RetType
      BY <1>1, <1>6, <2>3, <2>5, LeaveRight DEF Seen
    <3>4. Told(p, ret') /\ ret'.rc = "ok" /\ ret' # NoRet
      BY <1>6, <2>2, <3>3 DEF Told, Raised, Ok, NoRet, RetType
    <3>5. Spine(D, v, k, s) /\ v[k].at = "walk" /\ v[k].s \in Silent
      <4>1. k \in 1..Len(D[s]) /\ \A i \in 1..k : i \in 1..n
        BY <2>1, <3>1 DEF Spine
      <4>2. \A i \in 1..k - 1 : i \in 1..n - 1
        BY <3>1
      <4>3. v[k].at = "walk" /\ v[k].s = D[s][k] /\ D[s][k] \in Silent
        BY <2>1, <3>1, <3>2, <4>1 DEF Spine
      <4> QED BY <2>1, <4>1, <4>2, <4>3 DEF Spine
    <3>6. Spine(D, u, k, s)
      BY <3>2, <3>5, SpineKept
    <3>7. SpineTop(D, u[k], k = k, ret', p)
      BY <3>2, <3>4, <3>5 DEF SpineTop
    <3>8. CallsOf(D, u, k, ret', s, p)
      BY <3>2, <3>6, <3>7 DEF CallsOf
    <3> QED BY <1>4, <3>2, <3>8
  <2> QED BY <2>4, <2>5
<1> QED BY <1>7, <1>8

LEMMA EnterCalls ==
  ASSUME Right, Counted, Calls, Running, UNCHANGED <<world, history>>, NEW g, NEW f, Enter(g, f)
  PROVE  Calls'
<1>1. EnterCase(g, f) /\ Push(g, f)
  BY DEF Enter
<1>2. CASE ~(Len(stack) < MaxStack)
  <2>1. UNCHANGED <<stack, ret>>
    BY <1>1, <1>2, Overflows
  <2> QED BY <2>1, CallsLater DEF Calls
<1>3. CASE Len(stack) < MaxStack
  <2> SUFFICES ASSUME Still, root.op = "call"
               PROVE  /\ stack' # <<>>
                      /\ CallsOf(Lists, stack', Len(stack'), ret', root.s, Server("call", root.s))
    BY CallsLater
  <2>1. PICK n \in Nat \ {0} : n = Len(stack) /\ top = stack[n]
    BY TopFrame
  <2>2. g \in FrameType /\ f \in FrameType /\ g.s = top.s /\ g.via = top.via /\ g.at = top.at
    BY <1>1, EnterRight
  <2>3. /\ Len(stack') = n + 1 /\ stack'[n] = g /\ stack'[n + 1] = f
        /\ \A i \in 1..n - 1 : stack'[i] = stack[i]
    BY <1>1, <1>3, <2>1, <2>2, EnterShape
  <2>4. PICK D, p, s, u, v : D = Lists /\ p = Server("call", root.s) /\ s = root.s
                             /\ u = stack' /\ v = stack
    OBVIOUS
  <2>5. PICK m \in 1..n : Spine(D, v, m, s) /\ SpineTop(D, v[m], m = n, ret, p)
    BY <2>1, <2>4, CallsNow
  <2>6. \A i \in 1..n : u[i].s = v[i].s /\ u[i].via = v[i].via /\ u[i].at = v[i].at
    <3> TAKE i \in 1..n
    <3>1. i = n \/ i \in 1..n - 1
      OBVIOUS
    <3> QED BY <2>1, <2>2, <2>3, <2>4, <3>1
  <2>7. Spine(D, u, m, s)
    BY <2>3, <2>4, <2>5, <2>6, SpineKept
  <2>8. u # <<>> /\ Len(u) = n + 1
    BY <2>3, <2>4
  <2>9. CASE v[m].at = "body"
    <3>1. SpineTop(D, u[m], m = n + 1, ret', p) /\ m \in 1..n + 1
      BY <2>6, <2>9 DEF SpineTop
    <3>2. CallsOf(D, u, n + 1, ret', s, p)
      BY <2>7, <3>1 DEF CallsOf
    <3> QED BY <2>4, <2>8, <3>2
  <2>10. CASE v[m].at # "body"
    <3>1. m = n /\ v[m] = top /\ top.at # "body"
      BY <2>1, <2>4, <2>5, <2>10 DEF SpineTop
    <3>2. /\ top.at = "walk" /\ ret = NoRet /\ top.todo # <<>>
          /\ \/ f = Frame("call", Head(top.todo), "bridge")
             \/ Head(top.todo) \notin Scripts
             \/ top.op # "call"
      BY <1>1, <3>1 DEF EnterCase
    <3>3. top.s \in Silent /\ top.todo = Tail(D[top.s])
      BY <2>5, <3>1, <3>2 DEF SpineTop
    <3>4. /\ Head(top.todo) = D[s][n + 1] /\ Head(top.todo) \in Scripts
          /\ n + 1 \in 1..Len(D[s])
      BY <2>1, <2>4, <2>5, <3>1, <3>2, <3>3, SpineAsks
    <3>5. top.op = "call"
      BY TopFrame DEF FrameRight
    <3>6. f = Frame("call", D[s][n + 1], "bridge")
      BY <3>2, <3>4, <3>5
    <3>7. f.s = D[s][n + 1] /\ f.via = "bridge" /\ f.at = "foreign"
      BY <3>6 DEF Frame
    <3>8. Spine(D, u, n + 1, s)
      <4>1. ASSUME NEW i \in 1..n + 1
            PROVE  u[i].s = D[s][i] /\ u[i].via = (IF i = 1 THEN "engine" ELSE "bridge")
        <5>1. i = n + 1 \/ i \in 1..n
          OBVIOUS
        <5> QED BY <2>3, <2>4, <2>7, <3>1, <3>7, <5>1 DEF Spine
      <4>2. ASSUME NEW i \in 1..n PROVE u[i].at = "walk" /\ D[s][i] \in Silent
        <5>1. CASE i = n
          BY <2>5, <2>6, <3>1, <3>2, <3>3, <5>1 DEF Spine
        <5>2. CASE i \in 1..n - 1
          BY <2>5, <2>6, <3>1, <5>2 DEF Spine
        <5> QED BY <5>1, <5>2
      <4>3. \A i \in 1..(n + 1) - 1 : i \in 1..n
        OBVIOUS
      <4> QED BY <3>4, <4>1, <4>2, <4>3 DEF Spine
    <3>9. SpineTop(D, u[n + 1], n + 1 = n + 1, ret', p)
      BY <2>3, <2>4, <3>7 DEF SpineTop
    <3>10. CallsOf(D, u, n + 1, ret', s, p)
      <4>1. n + 1 \in 1..n + 1
        OBVIOUS
      <4> QED BY <3>8, <3>9, <4>1 DEF CallsOf
    <3> QED BY <2>4, <2>8, <3>10
  <2> QED BY <2>9, <2>10
<1> QED BY <1>2, <1>3

-----------------------------------------------------------------------------
(* The first that serves *)

\* An access begins with the frame of its script.
LEMMA AccessServes ==
  ASSUME Right, NEW op \in Ops, NEW s \in Roots, Access(op, s)
  PROVE  Reads' /\ Calls'
<1>1. /\ stack' \in Seq(FrameType) /\ Len(stack') = 1
      /\ stack'[1] = Frame(op, s, "engine")
      /\ root' = [op |-> op, s |-> s] /\ s \in Scripts
      /\ loops' = Loops /\ UNCHANGED world
  BY AccessShape
<1>2. PICK D, u : D = Lists' /\ u = stack'
  OBVIOUS
<1>3. /\ u # <<>> /\ Len(u) = 1 /\ u[1].s = s /\ u[1].via = "engine" /\ u[1].at = "foreign"
      /\ root'.s = s
  <2>1. u \in Seq(FrameType) /\ Len(u) = 1
    BY <1>1, <1>2
  <2>2. u # <<>>
    BY <2>1
  <2>3. u[1].s = s /\ u[1].via = "engine" /\ u[1].at = "foreign"
    BY <1>1, <1>2 DEF Frame
  <2>4. root'.s = s
    BY <1>1
  <2> QED BY <2>1, <2>2, <2>3, <2>4
<1>4. Reads'
  <2>1. ReadsOf(Lists', Servers', u, 1) /\ TopReads(Lists', Servers', u[1], ret')
    BY <1>3 DEF ReadsOf, TopReads
  <2>2. u[1].s = root'.s /\ u # <<>> /\ Len(u) = 1
    BY <1>3
  <2> QED BY <1>2, <2>1, <2>2 DEF Reads, ReadsOf, TopReads
<1>5. Calls'
  <2>1. D[s] = resolve_chain(s)
    BY <1>1, <1>2, SameChains DEF Lists, world
  <2>2. ChainOf(D[s], s)
    BY <1>1, <2>1, ChainFacts, InheritAssumption DEF Right, Typed
  <2>3. 1 \in 1..Len(D[s]) /\ D[s][1] = s
    BY <2>2 DEF ChainOf
  <2>4. \E m \in 1..1 : Spine(D, u, m, s)' /\ SpineTop(D, u[m], m = 1, ret, Server("call", root.s))'
    BY <1>3, <2>3 DEF Spine, SpineTop
  <2> QED BY <1>2, <1>3, <2>4 DEF Calls, CallsOf, Spine, SpineTop
<1> QED BY <1>4, <1>5

\* When it ends, what it has been told is what FirstServes asks for.
LEMMA Served ==
  ASSUME Right, Reads, Calls
  PROVE  FirstServes
<1> SUFFICES ASSUME Ended, loops = {}
             PROVE  IF Server(root.op, root.s) # NoPath
                    THEN \/ ret = Ok(Server(root.op, root.s))
                         \/ /\ root.op = "call" /\ root.s = Server(root.op, root.s)
                            /\ ret = Raised(Server(root.op, root.s))
                    ELSE ret.by \notin Scripts
  BY DEF FirstServes
<1>1. Still /\ root.op \in Ops /\ root.s \in Scripts /\ stack = <<>> /\ ret \in RetType
      /\ LoopsRight /\ Typed
  BY DEF Ended, Still, Right, LoopsRight, Typed
<1>2. CASE root.op = "call"
  <2>1. PICK p : p = Server("call", root.s)
    OBVIOUS
  <2>2. Told(p, ret) /\ OwnError(root.s, ret)
    BY <1>1, <1>2, <2>1 DEF Calls
  <2> QED BY <1>1, <1>2, <2>1, <2>2 DEF Told, OwnError, Raised, Ok
<1>3. CASE root.op # "call"
  <2>1. Answers(Lists, Servers, root.s, ret)
    BY <1>1, <1>3 DEF Reads
  <2>2. PICK s \in Scripts : s = root.s
    BY <1>1
  <2>3. PICK op, D, S : op = root.op /\ D = Lists /\ S = Servers
    OBVIOUS
  <2>4. Entries /\ MaxChain \in Nat /\ NoPath \notin Scripts
    BY <1>1, InheritAssumption DEF Typed
  <2>5. ChainOf(D[s], s)
    BY <2>2, <2>3, <2>4, ChainFacts DEF Lists
  <2>6. Having(op, s) = {i \in 1..Len(D[s]) : D[s][i] \in S /\ (i = 1 \/ s \notin Polyglots)}
    BY <1>3, <2>3 DEF Having, Servers
  <2>7. CASE ret.rc = "ok"
    <3>1. First(D, S, ret.by, s) /\ (ret.by = s \/ s \notin Polyglots)
      BY <2>1, <2>2, <2>3, <2>7 DEF Answers
    <3>2. PICK n \in 1..Len(D[s]) : D[s][n] = ret.by /\ ret.by \in S /\ NoneOf(D, S, s, n - 1)
      BY <3>1 DEF First
    <3>3. Len(D[s]) \in Nat \ {0} /\ D[s][1] = s
          /\ \A i, j \in 1..Len(D[s]) : D[s][i] = D[s][j] => i = j
      BY <2>5 DEF ChainOf
    <3>4. n \in Having(op, s)
      BY <2>6, <3>1, <3>2, <3>3
    <3>5. ASSUME NEW j \in Having(op, s) PROVE n <= j
      <4>1. j \in 1..Len(D[s]) /\ D[s][j] \in S
        BY <2>6
      <4>2. j \notin 1..n - 1
        BY <3>2, <4>1 DEF NoneOf
      <4> QED BY <3>3, <4>1, <4>2
    <3>6. Server(op, s) = D[s][n]
      BY <2>2, <2>3, <2>4, <3>4, <3>5, ServerIs
    <3>7. ret.by # NoPath
      BY <1>1, <2>2, <2>3, <2>4, <3>2 DEF Servers, Typed
    <3>8. ret = Ok(ret.by)
      BY <1>1, <2>7 DEF RetType, Ok
    <3> QED BY <2>2, <2>3, <3>2, <3>6, <3>7, <3>8
  <2>8. CASE ret.rc # "ok"
    <3>1. /\ ret.by = NoPath /\ s \notin S
          /\ s \in Polyglots \/ NoneOf(D, S, s, Len(D[s]))
      BY <2>1, <2>2, <2>3, <2>8 DEF Answers
    <3>2. D[s][1] = s
      BY <2>5 DEF ChainOf
    <3>3. Having(op, s) = {}
      BY <2>6, <3>1, <3>2 DEF NoneOf
    <3>4. Server(op, s) = NoPath
      BY <2>4, <3>3, ServerIs
    <3> QED BY <2>2, <2>3, <2>4, <3>1, <3>4
  <2> QED BY <2>7, <2>8
<1> QED BY <1>2, <1>3

\* An access that nobody disturbs is answered by the first that can be reached.
THEOREM FirstAnswers == Spec => []FirstServes
<1> DEFINE Inv == Right /\ Counted /\ Reads /\ Calls
<1>1. Init => Inv
  <2> SUFFICES ASSUME Init PROVE Inv
    OBVIOUS
  <2>1. stack = <<>> /\ depth = 0 /\ root = NoRoot
    BY DEF Init
  <2>2. Depth(stack, 0) = 0 /\ Len(stack) = 0
    BY <2>1, DepthFacts
  <2>3. Counted
    BY <2>1, <2>2, InheritAssumption DEF Counted, DepthRight, Interleaved
  <2> QED BY <2>1, <2>3, InitRight DEF Reads, Calls, Still
<1>2. Inv /\ [Next]_vars => Inv'
  <2> SUFFICES ASSUME Inv, [Next]_vars PROVE Inv'
    OBVIOUS
  <2>1. ASSUME NEW op \in Ops, NEW s \in Roots, Access(op, s) PROVE Inv'
    BY <2>1, AccessRight, NextCounted, AccessServes DEF Next
  <2>2. ASSUME NEW s \in Scripts, NEW b \in Path \cup {NoPath}, Register(s, b) PROVE Inv'
    <3>1. Right' /\ Counted'
      BY <2>2, RegisterRight, NextCounted DEF Next
    <3>2. changes' # 0
      <4>1. changes' = changes + 1 /\ changes \in Nat
        BY <2>2, InheritAssumption DEF Register, Right, Typed
      <4> QED BY <4>1
    <3> QED BY <3>1, <3>2 DEF Reads, Calls, Still
  <2>3. CASE Step
    <3>1. /\ Running /\ UNCHANGED <<world, history>>
          /\ \/ \E f, r : Turn(f, r)
             \/ \E r : Leave(r)
             \/ \E g, f : Enter(g, f)
      BY <2>3, StepCases DEF Right
    <3>2. Right' /\ Counted'
      BY <2>3, StepRight, NextCounted DEF Next
    <3>3. Reads'
      BY <3>1, TurnReads, LeaveReads, EnterReadsOn
    <3>4. Calls'
      BY <3>1, TurnCalls, LeaveCalls, EnterCalls
    <3> QED BY <3>2, <3>3, <3>4
  <2>4. CASE UNCHANGED vars
    <3>1. Right' /\ UNCHANGED <<world, thread, history>>
      BY <2>4, UnchangedRight DEF vars
    <3>2. Counted'
      BY <3>1 DEF Counted, DepthRight, Interleaved, thread, history
    <3>3. Lists' = Lists /\ Servers' = Servers
      BY <3>1, SameChains DEF Lists, Servers, world
    <3>4. Reads'
      BY <3>1, <3>3 DEF Reads, Still, Answers, thread, history
    <3>5. Calls'
      BY <3>1, CallsLater DEF Calls, thread
    <3> QED BY <3>1, <3>2, <3>4, <3>5
  <2> QED BY <2>1, <2>2, <2>3, <2>4 DEF Next
<1>3. Inv => FirstServes
  BY Served
<1> QED BY <1>1, <1>2, <1>3, PTL DEF Spec

-----------------------------------------------------------------------------
(* SandboxPolicy *)

\* A thread that reads the capabilities has found its path registered.
Decided == \A t \in Threads : pc[t] = "caps" => Sandboxed(at[t])

\* A path that was registered when the thread began still is.
StillSeen == \A t \in Threads : saw[t] => Sandboxed(at[t])

\* What a thread knows of the files, if none was edited since it began.
Examined ==
    \A t \in Threads : calm[t] =>
        /\ pc[t] = "dir" => own[at[t]] = NoFile
        /\ pc[t] = "route" => Sandboxed(at[t]) \/ ~Restricts(Governing(at[t]))

PolicyInv == PolicyTypeOK /\ Decided /\ StillSeen /\ Examined /\ SandboxedKeyFound

-----------------------------------------------------------------------------
(* Registering a path leaves what is registered alone, and adds the path.  *)
LEMMA Registration ==
    ASSUME NEW p, NEW caps, policy' = Registered(p, caps)
    PROVE  /\ p \in DOMAIN policy'
           /\ \A q \in DOMAIN policy : q \in DOMAIN policy' /\ policy'[q] = policy[q]
BY DEF Registered, Sandboxed

(* An action of the specification extends the map of registrations.        *)
LEMMA Extends ==
    ASSUME PolicyNext
    PROVE  \A q \in DOMAIN policy : q \in DOMAIN policy' /\ policy'[q] = policy[q]
<1>1. ASSUME NEW t \in Threads, RegisterPath(t)
      PROVE  \A q \in DOMAIN policy : q \in DOMAIN policy' /\ policy'[q] = policy[q]
  BY <1>1, Registration DEF RegisterPath
<1>2. ASSUME NEW p \in Paths, NEW caps \in Policies, ModRegisters(p, caps)
      PROVE  \A q \in DOMAIN policy : q \in DOMAIN policy' /\ policy'[q] = policy[q]
  BY <1>2, Registration DEF ModRegisters
<1>3. ASSUME policy' = policy
      PROVE  \A q \in DOMAIN policy : q \in DOMAIN policy' /\ policy'[q] = policy[q]
  BY <1>3
<1> QED
  BY <1>1, <1>2, <1>3
     DEF PolicyNext, Begin, ReadOwn, ReadDir, Read, Route, ReadCaps, Edit

LEMMA PolicyInitial == PolicyInit => PolicyInv
<1> SUFFICES ASSUME PolicyInit PROVE PolicyInv
  OBVIOUS
<1>1. PolicyTypeOK
  <2>1. \A t \in Threads : at[t] \in Paths
    BY PolicyAssumption DEF PolicyInit
  <2>2. at \in [Threads -> Paths] /\ edits \in 0..MaxEdits
    BY <2>1, PolicyAssumption DEF PolicyInit
  <2>3. DOMAIN policy \subseteq Paths
    BY DEF PolicyInit
  <2> QED
    BY <2>2, <2>3 DEF PolicyInit, PolicyTypeOK
<1>2. Decided /\ StillSeen /\ Examined /\ SandboxedKeyFound
  BY DEF PolicyInit, Decided, StillSeen, Examined, SandboxedKeyFound
<1> QED
  BY <1>1, <1>2 DEF PolicyInv

-----------------------------------------------------------------------------
(* A step that compiles nothing keeps the scripts' keys valid.             *)
LEMMA KeysKept ==
    ASSUME SandboxedKeyFound, PolicyNext, UNCHANGED compiled
    PROVE  SandboxedKeyFound'
BY Extends DEF SandboxedKeyFound, Sandboxed

LEMMA BeginStep ==
    ASSUME PolicyInv, PolicyNext, NEW t \in Threads, NEW p \in Paths, Begin(t, p)
    PROVE  PolicyInv'
<1> USE DEF Begin, PolicyInv
<1>1. PolicyTypeOK'
  <2>1. Sandboxed(p) \in BOOLEAN
    BY DEF Sandboxed
  <2>2. saw' \in [Threads -> BOOLEAN] /\ calm' \in [Threads -> BOOLEAN]
    BY <2>1, Zenon DEF PolicyTypeOK
  <2>3. DOMAIN compiled' = Paths /\ at' \in [Threads -> Paths]
    BY DEF PolicyTypeOK
  <2>4. pc' \in [Threads -> {"idle", "own", "dir", "register", "route", "caps"}]
    BY DEF PolicyTypeOK
  <2>5. /\ own' \in [Paths -> {NoFile} \cup Sidecars]
        /\ dir' \in {NoFile} \cup Sidecars /\ edits' \in 0..MaxEdits
        /\ DOMAIN policy' \subseteq Paths /\ DOMAIN parsed' = Threads
    BY DEF PolicyTypeOK, files
  <2> QED
    BY <2>2, <2>3, <2>4, <2>5 DEF PolicyTypeOK
<1>2. Decided' /\ StillSeen'
  BY DEF PolicyTypeOK, Decided, StillSeen, Sandboxed
<1>3. Examined'
  <2>1. \A q : Restricts(Governing(q))' = Restricts(Governing(q))
    BY DEF Governing, files, Restricts
  <2> QED
    BY <2>1 DEF PolicyTypeOK, Examined, Sandboxed, files
<1>4. SandboxedKeyFound'
  BY KeysKept
<1> QED
  BY <1>1, <1>2, <1>3, <1>4

LEMMA ReadStep ==
    ASSUME PolicyInv, PolicyNext, NEW t \in Threads, ReadOwn(t) \/ ReadDir(t)
    PROVE  PolicyInv'
<1> USE DEF ReadOwn, ReadDir, Read, Goes, PolicyInv
<1>1. PolicyTypeOK'
  <2>1. /\ own' \in [Paths -> {NoFile} \cup Sidecars]
        /\ dir' \in {NoFile} \cup Sidecars /\ edits' \in 0..MaxEdits
    BY PolicyAssumption DEF PolicyTypeOK, files
  <2>2. DOMAIN policy' \subseteq Paths /\ DOMAIN parsed' = Threads
    BY DEF PolicyTypeOK, Registered, Sandboxed
  <2>3. /\ pc' \in [Threads -> {"idle", "own", "dir", "register", "route", "caps"}]
        /\ at' \in [Threads -> Paths] /\ DOMAIN compiled' = Paths
        /\ saw' \in [Threads -> BOOLEAN] /\ calm' \in [Threads -> BOOLEAN]
    BY DEF PolicyTypeOK
  <2> QED
    BY <2>1, <2>2, <2>3 DEF PolicyTypeOK
<1>2. Decided' /\ StillSeen'
  BY DEF PolicyTypeOK, Decided, StillSeen, Sandboxed
<1>3. Examined'
  <2>1. \A q : Restricts(Governing(q))' = Restricts(Governing(q))
    BY DEF Governing, files, Restricts
  <2>2. \A u \in Threads \ {t} : pc'[u] = pc[u]
    BY DEF PolicyTypeOK
  <2>3. pc'[t] = "dir" => own[at[t]] = NoFile
    BY DEF PolicyTypeOK
  <2>4. calm[t] /\ pc'[t] = "route" => ~Restricts(Governing(at[t]))
    BY DEF PolicyTypeOK, Examined, Governing, Restricts
  <2> QED
    BY <2>1, <2>2, <2>3, <2>4 DEF PolicyTypeOK, Examined, Sandboxed, files
<1>4. SandboxedKeyFound'
  BY KeysKept
<1> QED
  BY <1>1, <1>2, <1>3, <1>4

LEMMA RegisterStep ==
    ASSUME PolicyInv, PolicyNext, NEW t \in Threads, RegisterPath(t)
    PROVE  PolicyInv'
<1> USE DEF RegisterPath, Goes, PolicyInv
<1>1. PolicyTypeOK'
  <2>1. /\ own' \in [Paths -> {NoFile} \cup Sidecars]
        /\ dir' \in {NoFile} \cup Sidecars /\ edits' \in 0..MaxEdits
    BY PolicyAssumption DEF PolicyTypeOK, files
  <2>2. DOMAIN policy' \subseteq Paths /\ DOMAIN parsed' = Threads
    BY DEF PolicyTypeOK, Registered, Sandboxed
  <2>3. /\ pc' \in [Threads -> {"idle", "own", "dir", "register", "route", "caps"}]
        /\ at' \in [Threads -> Paths] /\ DOMAIN compiled' = Paths
        /\ saw' \in [Threads -> BOOLEAN] /\ calm' \in [Threads -> BOOLEAN]
    BY DEF PolicyTypeOK
  <2> QED
    BY <2>1, <2>2, <2>3 DEF PolicyTypeOK
<1>2. Decided' /\ StillSeen'
  BY Extends DEF PolicyTypeOK, Decided, StillSeen, Sandboxed
<1>3. Examined'
  <2>1. \A q : Restricts(Governing(q))' = Restricts(Governing(q))
    BY DEF Governing, files, Restricts
  <2>2. at[t] \in DOMAIN policy'
    BY Registration
  <2> QED
    BY <2>1, <2>2, Extends DEF PolicyTypeOK, Examined, Sandboxed, files
<1>4. SandboxedKeyFound'
  BY KeysKept
<1> QED
  BY <1>1, <1>2, <1>3, <1>4

LEMMA CompileStep ==
    ASSUME PolicyInv, PolicyNext, NEW t \in Threads, Route(t) \/ ReadCaps(t)
    PROVE  PolicyInv'
<1> USE DEF Route, ReadCaps, Compiles, Goes, PolicyInv
<1>1. PolicyTypeOK'
  <2>1. /\ own' \in [Paths -> {NoFile} \cup Sidecars]
        /\ dir' \in {NoFile} \cup Sidecars /\ edits' \in 0..MaxEdits
    BY PolicyAssumption DEF PolicyTypeOK, files
  <2>2. DOMAIN policy' \subseteq Paths /\ DOMAIN parsed' = Threads
    BY DEF PolicyTypeOK, Registered, Sandboxed
  <2>3. /\ pc' \in [Threads -> {"idle", "own", "dir", "register", "route", "caps"}]
        /\ at' \in [Threads -> Paths] /\ DOMAIN compiled' = Paths
        /\ saw' \in [Threads -> BOOLEAN] /\ calm' \in [Threads -> BOOLEAN]
    BY DEF PolicyTypeOK
  <2> QED
    BY <2>1, <2>2, <2>3 DEF PolicyTypeOK
<1>2. Decided' /\ StillSeen'
  BY DEF PolicyTypeOK, Decided, StillSeen, Sandboxed
<1>3. Examined'
  <2>1. \A q : Restricts(Governing(q))' = Restricts(Governing(q))
    BY DEF Governing, files, Restricts
  <2> QED
    BY <2>1 DEF PolicyTypeOK, Examined, Sandboxed, files
<1>4. SandboxedKeyFound'
  BY DEF PolicyTypeOK, Decided, Sandboxed, SandboxedKeyFound
<1> QED
  BY <1>1, <1>2, <1>3, <1>4

LEMMA ModStep ==
    ASSUME PolicyInv, PolicyNext, NEW p \in Paths, NEW caps \in Policies, ModRegisters(p, caps)
    PROVE  PolicyInv'
<1> USE DEF ModRegisters, PolicyInv, threads, files
<1>1. PolicyTypeOK'
  <2>1. /\ own' \in [Paths -> {NoFile} \cup Sidecars]
        /\ dir' \in {NoFile} \cup Sidecars /\ edits' \in 0..MaxEdits
    BY PolicyAssumption DEF PolicyTypeOK, files
  <2>2. DOMAIN policy' \subseteq Paths /\ DOMAIN parsed' = Threads
    BY DEF PolicyTypeOK, Registered, Sandboxed
  <2>3. /\ pc' \in [Threads -> {"idle", "own", "dir", "register", "route", "caps"}]
        /\ at' \in [Threads -> Paths] /\ DOMAIN compiled' = Paths
        /\ saw' \in [Threads -> BOOLEAN] /\ calm' \in [Threads -> BOOLEAN]
    BY DEF PolicyTypeOK
  <2> QED
    BY <2>1, <2>2, <2>3 DEF PolicyTypeOK
<1>2. Decided' /\ StillSeen'
  BY Extends DEF PolicyTypeOK, Decided, StillSeen, Sandboxed
<1>3. Examined'
  <2>1. \A q : Restricts(Governing(q))' = Restricts(Governing(q))
    BY DEF Governing, Restricts
  <2> QED
    BY <2>1, Extends DEF PolicyTypeOK, Examined, Sandboxed
<1>4. SandboxedKeyFound'
  BY KeysKept
<1> QED
  BY <1>1, <1>2, <1>3, <1>4

LEMMA EditStep ==
    ASSUME PolicyInv, PolicyNext, Edit
    PROVE  PolicyInv'
<1> USE DEF Edit, PolicyInv
<1>1. PolicyTypeOK'
  <2>1. /\ own' \in [Paths -> {NoFile} \cup Sidecars]
        /\ dir' \in {NoFile} \cup Sidecars /\ edits' \in 0..MaxEdits
    BY PolicyAssumption DEF PolicyTypeOK, files
  <2>2. DOMAIN policy' \subseteq Paths /\ DOMAIN parsed' = Threads
    BY DEF PolicyTypeOK, Registered, Sandboxed
  <2>3. /\ pc' \in [Threads -> {"idle", "own", "dir", "register", "route", "caps"}]
        /\ at' \in [Threads -> Paths] /\ DOMAIN compiled' = Paths
        /\ saw' \in [Threads -> BOOLEAN] /\ calm' \in [Threads -> BOOLEAN]
    BY DEF PolicyTypeOK
  <2> QED
    BY <2>1, <2>2, <2>3 DEF PolicyTypeOK
<1>2. Decided' /\ StillSeen'
  BY DEF PolicyTypeOK, Decided, StillSeen, Sandboxed
<1>3. Examined'
  BY DEF Examined
<1>4. SandboxedKeyFound'
  BY KeysKept
<1> QED
  BY <1>1, <1>2, <1>3, <1>4

LEMMA PolicyStutters ==
    ASSUME PolicyInv, UNCHANGED policyVars
    PROVE  PolicyInv'
<1>1. \A q : Restricts(Governing(q))' = Restricts(Governing(q))
  BY DEF policyVars, files, Governing, Restricts
<1> QED
  BY <1>1 DEF PolicyInv, PolicyTypeOK, Decided, StillSeen, Examined, SandboxedKeyFound, Sandboxed,
              policyVars, files, threads

LEMMA PolicyInductive == PolicyInv /\ [PolicyNext]_policyVars => PolicyInv'
<1>1. CASE PolicyNext
  BY <1>1, BeginStep, ReadStep, RegisterStep, CompileStep, ModStep, EditStep DEF PolicyNext
<1>2. CASE UNCHANGED policyVars
  BY <1>2, PolicyStutters
<1> QED
  BY <1>1, <1>2

LEMMA PolicyInvariant == PolicySpec => []PolicyInv
BY PolicyInitial, PolicyInductive, PTL DEF PolicySpec

-----------------------------------------------------------------------------
(* Every variable keeps its type.                                          *)
THEOREM PolicyTypeCorrect == PolicySpec => []PolicyTypeOK
<1>1. PolicyInv => PolicyTypeOK
  BY DEF PolicyInv
<1> QED
  BY <1>1, PolicyInvariant, PTL

(* What a script was compiled under is what its path is registered with,   *)
(* for as long as the script is there: the cache key is found again.       *)
THEOREM KeyFound == PolicySpec => []SandboxedKeyFound
<1>1. PolicyInv => SandboxedKeyFound
  BY DEF PolicyInv
<1> QED
  BY <1>1, PolicyInvariant, PTL

(* No script that is registered, or restricted by a file that was not      *)
(* edited, is compiled unrestricted.                                       *)
THEOREM Routed == PolicySpec => RoutedByPolicy
<1> DEFINE Rule == \A t \in Threads : pc[t] = "route" /\ pc'[t] = "idle" =>
                       /\ ~saw[t]
                       /\ calm[t] => ~Restricts(Governing(at[t]))
<1>1. PolicyInv /\ [PolicyNext]_policyVars => [Rule]_policyVars
  <2> SUFFICES ASSUME PolicyInv, PolicyNext, NEW t \in Threads, pc[t] = "route", pc'[t] = "idle"
               PROVE  ~saw[t] /\ (calm[t] => ~Restricts(Governing(at[t])))
    OBVIOUS
  <2>1. Route(t)
    <3>1. ASSUME NEW u \in Threads, NEW p \in Paths, Begin(u, p)
          PROVE  FALSE
      BY <3>1 DEF Begin, PolicyInv, PolicyTypeOK
    <3>2. ASSUME NEW u \in Threads, ReadOwn(u) \/ ReadDir(u) \/ RegisterPath(u) \/ ReadCaps(u)
          PROVE  FALSE
      BY <3>2 DEF ReadOwn, ReadDir, Read, RegisterPath, ReadCaps, Compiles, Goes, PolicyInv, PolicyTypeOK
    <3>3. ASSUME NEW u \in Threads, Route(u)
          PROVE  u = t
      BY <3>3 DEF Route, Compiles, Goes, PolicyInv, PolicyTypeOK
    <3> QED
      BY <3>1, <3>2, <3>3 DEF PolicyNext, ModRegisters, Edit, threads
  <2>2. ~Sandboxed(at[t])
    BY <2>1 DEF Route, Goes, PolicyInv, PolicyTypeOK
  <2> QED
    BY <2>2 DEF PolicyInv, StillSeen, Examined
<1> QED
  BY <1>1, PolicyInvariant, PTL DEF PolicySpec, RoutedByPolicy
=============================================================================
