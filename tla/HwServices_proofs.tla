------------------------- MODULE HwServices_proofs -------------------------
(***************************************************************************)
(* The driver registry and the interrupt lines for every number of         *)
(* drivers, of lines and of callbacks inside one another: as long as no    *)
(* callback has spoiled the list, the list is one, it is counted, every    *)
(* registration gets its one remove, and who owns a line is registered or  *)
(* requested it when it no longer was.                                     *)
(***************************************************************************)
EXTENDS HwServices, FiniteSetTheorems, TLAPS

------------------------------------------------------------------------------
(* Linked lists, as the next fields n and a pointer to start from.         *)

(* A set of drivers the list cannot leave, element by element.             *)
LEMMA ClosedSet ==
  ASSUME NEW n \in [Drivers -> Pointer], NEW p \in Pointer, NEW S \in SUBSET Drivers
  PROVE  Closed(S, n, p) <=> (p \in S \cup {Null} /\ \A d \in S : n[d] \in S \cup {Null})
  BY DEF Closed

(* What is reached is drivers.                                             *)
LEMMA ReachSub ==
  ASSUME NEW n, NEW p PROVE Reach(n, p) \subseteq Drivers
  BY DEF Reach

(* What is reached is in every set the list cannot leave ...               *)
LEMMA ReachLeast ==
  ASSUME NEW n \in [Drivers -> Pointer], NEW p \in Pointer, NEW S \in SUBSET Drivers,
         p \in S \cup {Null}, \A d \in S : n[d] \in S \cup {Null}
  PROVE  Reach(n, p) \subseteq S
  BY ClosedSet DEF Reach

(* ... and is such a set itself.                                           *)
LEMMA ReachClosed ==
  ASSUME NEW n \in [Drivers -> Pointer], NEW p \in Pointer
  PROVE  /\ p \in Reach(n, p) \cup {Null}
         /\ \A d \in Reach(n, p) : n[d] \in Reach(n, p) \cup {Null}
  <1>1. p \in Reach(n, p) \cup {Null}
    BY ClosedSet DEF Reach, Pointer
  <1>2. ASSUME NEW d \in Reach(n, p), n[d] # Null
        PROVE  n[d] \in Reach(n, p)
    <2>1. d \in Drivers /\ n[d] \in Drivers
      BY <1>2 DEF Reach, Pointer
    <2>2. ASSUME NEW S \in SUBSET Drivers, Closed(S, n, p)
          PROVE  n[d] \in S
      BY <2>2, <2>1, <1>2, ClosedSet DEF Reach
    <2> QED BY <2>1, <2>2 DEF Reach
  <1> QED BY <1>1, <1>2

(* Nothing is reached from NULL.                                           *)
LEMMA ReachNull ==
  ASSUME NEW n \in [Drivers -> Pointer] PROVE Reach(n, Null) = {}
  <1> DEFINE S == {}
  <1>1. S \in SUBSET Drivers /\ Null \in S \cup {Null} /\ Null \in Pointer
    BY DEF Pointer
  <1>2. \A d \in S : n[d] \in S \cup {Null}
    OBVIOUS
  <1> HIDE DEF S
  <1>3. Reach(n, Null) \subseteq S
    BY <1>1, <1>2, ReachLeast
  <1> QED BY <1>3 DEF S

(* From a driver, the driver itself is reached and what its next field     *)
(* leads to.                                                               *)
LEMMA ReachStep ==
  ASSUME NEW n \in [Drivers -> Pointer], NEW p \in Drivers
  PROVE  Reach(n, p) = {p} \cup Reach(n, n[p])
  <1>1. p \in Pointer /\ n[p] \in Pointer /\ p # Null
    BY ServicesAssumption DEF Pointer
  <1>2. Reach(n, p) \subseteq {p} \cup Reach(n, n[p])
    <2> DEFINE S == {p} \cup Reach(n, n[p])
    <2>1. S \in SUBSET Drivers /\ p \in S \cup {Null}
      BY ReachSub
    <2>2. \A d \in S : n[d] \in S \cup {Null}
      BY <1>1, ReachClosed
    <2> HIDE DEF S
    <2>3. Reach(n, p) \subseteq S
      BY <1>1, <2>1, <2>2, ReachLeast
    <2> QED BY <2>3 DEF S
  <1>3. Reach(n, n[p]) \subseteq Reach(n, p)
    BY <1>1, ReachClosed, ReachSub, ReachLeast
  <1>4. p \in Reach(n, p)
    BY <1>1, ReachClosed
  <1> QED BY <1>2, <1>3, <1>4

(* What a reached driver leads to is reached.                              *)
LEMMA ReachOn ==
  ASSUME NEW n \in [Drivers -> Pointer], NEW p \in Pointer, NEW d \in Reach(n, p)
  PROVE  Reach(n, d) \subseteq Reach(n, p) /\ Reach(n, n[d]) \subseteq Reach(n, p)
  <1>1. d \in Drivers /\ d \in Pointer /\ n[d] \in Pointer
    BY ReachSub DEF Pointer
  <1> QED BY <1>1, ReachClosed, ReachSub, ReachLeast

(* Something points to every driver that is reached.                       *)
LEMMA ReachFrom ==
  ASSUME NEW n \in [Drivers -> Pointer], NEW p \in Pointer, NEW d \in Reach(n, p)
  PROVE  d = p \/ \E x \in Reach(n, p) : n[x] = d
  <1> SUFFICES ASSUME d # p, \A x \in Reach(n, p) : n[x] # d PROVE FALSE
    OBVIOUS
  <1> DEFINE S == Reach(n, p) \ {d}
  <1>1. S \in SUBSET Drivers /\ p \in S \cup {Null}
    BY ReachSub, ReachClosed
  <1>2. \A x \in S : n[x] \in S \cup {Null}
    BY ReachClosed
  <1> HIDE DEF S
  <1>3. Reach(n, p) \subseteq S
    BY <1>1, <1>2, ReachLeast
  <1> QED BY <1>3 DEF S

(* The fields of drivers that are not reached do not matter.               *)
LEMMA ReachSame ==
  ASSUME NEW n \in [Drivers -> Pointer], NEW m \in [Drivers -> Pointer], NEW p \in Pointer,
         \A d \in Reach(n, p) : m[d] = n[d]
  PROVE  Reach(m, p) = Reach(n, p)
  <1>1. Reach(m, p) \subseteq Reach(n, p)
    BY ReachSub, ReachClosed, ReachLeast
  <1>2. \A d \in Reach(m, p) : n[d] \in Reach(m, p) \cup {Null}
    BY <1>1, ReachClosed
  <1>3. Reach(n, p) \subseteq Reach(m, p)
    BY <1>2, ReachSub, ReachClosed, ReachLeast
  <1> QED BY <1>1, <1>3

(* A list that neither joins itself nor leads back to its head.            *)
Straight(n, h) == /\ \A a, b \in Reach(n, h) : n[a] = n[b] /\ n[a] # Null => a = b
                  /\ \A a \in Reach(n, h) : n[a] = h => h = Null

(* Such a list has no cycle.                                               *)
LEMMA NoCycle ==
  ASSUME NEW n \in [Drivers -> Pointer], NEW h \in Pointer, Straight(n, h),
         NEW d \in Reach(n, h)
  PROVE  d \notin Reach(n, n[d])
  <1> DEFINE L == Reach(n, h)
             A == {a \in L : a \notin Reach(n, n[a])}
  <1>1. L \subseteq Drivers /\ Drivers \subseteq Pointer /\ \A a \in L : n[a] \in Pointer
    BY ReachSub DEF Pointer
  <1>2. ASSUME NEW b \in L, b \in Reach(n, n[b])
        PROVE  \E x \in Reach(n, n[b]) \cup {b} : n[x] = b
    BY <1>1, <1>2, ReachFrom
  <1>3. h \in A \cup {Null}
    <2> SUFFICES ASSUME h # Null, h \in Reach(n, n[h]) PROVE FALSE
      BY ReachClosed
    <2>1. h \in L
      BY ReachClosed
    <2>2. PICK x \in Reach(n, n[h]) \cup {h} : n[x] = h
      BY <1>2, <2>1
    <2>3. x \in L
      BY <2>1, ReachOn
    <2> QED BY <2>2, <2>3 DEF Straight
  <1>4. ASSUME NEW a \in A PROVE n[a] \in A \cup {Null}
    <2> SUFFICES ASSUME n[a] # Null, n[a] \in Reach(n, n[n[a]]) PROVE FALSE
      BY ReachClosed
    <2>1. n[a] \in L /\ n[a] \in Drivers
      BY <1>1, ReachClosed
    <2>2. PICK x \in Reach(n, n[n[a]]) \cup {n[a]} : n[x] = n[a]
      BY <1>2, <2>1
    <2>3. x \in Reach(n, n[a])
      BY <2>1, ReachStep
    <2>4. x \in L
      BY <2>1, <2>3, ReachOn
    <2>5. x = a
      BY <2>2, <2>4 DEF Straight
    <2> QED BY <2>3, <2>5
  <1>5. A \in SUBSET Drivers
    BY <1>1
  <1>6. L \subseteq A
    <2> HIDE DEF A
    <2> QED BY <1>3, <1>4, <1>5, ReachLeast
  <1> QED BY <1>6

(* A driver put in front of the list.                                      *)
LEMMA Push ==
  ASSUME NEW n \in [Drivers -> Pointer], NEW h \in Pointer, Straight(n, h),
         NEW d \in Drivers, d \notin Reach(n, h),
         NEW m \in [Drivers -> Pointer], m[d] = h, \A x \in Drivers \ {d} : m[x] = n[x]
  PROVE  /\ Reach(m, d) = Reach(n, h) \cup {d}
         /\ Straight(m, d)
  <1>1. Reach(n, h) \subseteq Drivers
    BY ReachSub
  <1>2. Reach(m, h) = Reach(n, h)
    BY <1>1, ReachSame
  <1>3. Reach(m, d) = Reach(n, h) \cup {d}
    BY <1>2, ReachStep
  <1>4. \A x \in Reach(n, h) : n[x] = m[x] /\ m[x] # d
    BY <1>1, ReachClosed, ServicesAssumption
  <1>5. Straight(m, d)
    <2>1. \A a \in Reach(m, d) : m[a] = d => d = Null
      BY <1>3, <1>4, ReachClosed, ServicesAssumption
    <2>2. ASSUME NEW a \in Reach(m, d), NEW b \in Reach(m, d), m[a] = m[b], m[a] # Null
          PROVE  a = b
      BY <2>2, <1>3, <1>4 DEF Straight
    <2> QED BY <2>1, <2>2 DEF Straight
  <1> QED BY <1>3, <1>5

(* The head taken off the list.                                            *)
LEMMA UnlinkHead ==
  ASSUME NEW n \in [Drivers -> Pointer], NEW e \in Drivers, Straight(n, e)
  PROVE  Reach(n, n[e]) = Reach(n, e) \ {e} /\ Straight(n, n[e])
  <1>1. e \in Pointer /\ n[e] \in Pointer
    BY DEF Pointer
  <1>2. Reach(n, e) = {e} \cup Reach(n, n[e])
    BY ReachStep
  <1>3. e \notin Reach(n, n[e])
    BY <1>1, <1>2, NoCycle
  <1>4. Straight(n, n[e])
    BY <1>2, <1>3 DEF Straight
  <1> QED BY <1>2, <1>3, <1>4

(* A driver e taken off the list behind its predecessor p. Seen from any   *)
(* other pointer q, the walk of a shutdown for one, at most e is missing.  *)
LEMMA UnlinkNext ==
  ASSUME NEW n \in [Drivers -> Pointer], NEW h \in Pointer, Straight(n, h),
         NEW p \in Reach(n, h), NEW e \in Drivers, n[p] = e,
         NEW m \in [Drivers -> Pointer], m[p] = n[e], \A x \in Drivers \ {p} : m[x] = n[x]
  PROVE  /\ Reach(m, h) = Reach(n, h) \ {e}
         /\ Straight(m, h)
         /\ \A q \in Pointer : /\ Reach(n, q) \ {e} \subseteq Reach(m, q)
                               /\ Reach(m, q) \subseteq Reach(n, q)
  <1>1. p \in Drivers /\ e # Null /\ e \in Reach(n, h)
    BY ReachSub, ReachClosed, ServicesAssumption
  <1>2. ASSUME NEW q \in Pointer
        PROVE  Reach(n, q) \ {e} \subseteq Reach(m, q) /\ Reach(m, q) \subseteq Reach(n, q)
    <2>1. Reach(m, q) \subseteq Reach(n, q)
      <3>1. \A d \in Reach(n, q) : m[d] \in Reach(n, q) \cup {Null}
        BY <1>1, ReachClosed, ReachSub
      <3> QED BY <3>1, ReachSub, ReachClosed, ReachLeast
    <2>2. CASE p \in Reach(m, q)
      <3> DEFINE S == Reach(m, q) \cup {e}
      <3>1. S \in SUBSET Drivers /\ q \in S \cup {Null}
        BY ReachSub, ReachClosed
      <3>2. n[e] \in S \cup {Null}
        BY <2>2, ReachClosed
      <3>3. \A d \in S : n[d] \in S \cup {Null}
        BY <3>2, ReachClosed, ReachSub
      <3> HIDE DEF S
      <3>4. Reach(n, q) \subseteq S
        BY <3>1, <3>3, ReachLeast
      <3> QED BY <2>1, <3>4 DEF S
    <2>3. CASE p \notin Reach(m, q)
      <3>1. \A d \in Reach(m, q) : n[d] \in Reach(m, q) \cup {Null}
        BY <2>3, ReachClosed, ReachSub
      <3>2. Reach(n, q) \subseteq Reach(m, q)
        BY <3>1, ReachSub, ReachClosed, ReachLeast
      <3> QED BY <2>1, <3>2
    <2> QED BY <2>2, <2>3
  <1>3. h # e /\ n[e] # e /\ p # e
    <2>1. h # e
      BY <1>1 DEF Straight
    <2>2. n[e] # e
      BY <1>1, NoCycle, ReachClosed DEF Pointer
    <2> QED BY <2>1, <2>2
  <1>4. Reach(m, h) = Reach(n, h) \ {e}
    <2> DEFINE S == Reach(n, h) \ {e}
    <2>1. S \in SUBSET Drivers /\ h \in S \cup {Null}
      BY <1>3, ReachSub, ReachClosed
    <2>2. ASSUME NEW d \in S PROVE m[d] \in S \cup {Null}
      <3>1. CASE d = p
        BY <3>1, <1>1, <1>3, ReachClosed
      <3>2. CASE d # p
        <4>1. m[d] = n[d] /\ n[d] \in Reach(n, h) \cup {Null}
          BY <3>2, <2>1, ReachClosed
        <4>2. n[d] # e
          BY <3>2, <1>1 DEF Straight
        <4> QED BY <4>1, <4>2
      <3> QED BY <3>1, <3>2
    <2> HIDE DEF S
    <2>3. Reach(m, h) \subseteq S
      BY <2>1, <2>2, ReachLeast
    <2> QED BY <2>3, <1>2 DEF S
  <1>5. Straight(m, h)
    <2>1. \A a \in Reach(m, h) : m[a] = h => h = Null
      BY <1>1, <1>4, ReachSub DEF Straight
    <2>2. ASSUME NEW a \in Reach(m, h), NEW b \in Reach(m, h), m[a] = m[b], m[a] # Null
          PROVE  a = b
      <3>1. a \in Reach(n, h) /\ b \in Reach(n, h) /\ a # e /\ b # e
        BY <1>4
      <3>2. a \in Drivers /\ b \in Drivers
        BY <3>1, ReachSub
      <3> QED BY <3>1, <3>2, <2>2, <1>1 DEF Straight
    <2> QED BY <2>1, <2>2 DEF Straight
  <1> QED BY <1>2, <1>4, <1>5

------------------------------------------------------------------------------
(* The inductive invariant.                                                *)

(* What a callback that returns finds: only a shutdown is at the bottom of *)
(* the stack, and when the drivers are down nothing is called back.        *)
Frames == /\ \A k \in DOMAIN stack : /\ stack[k].kind = "walk" => k = 1
                                     /\ stack[k].kind = "remove" => stack[k].who \in Drivers
          /\ ~drvReady => stack = <<>> /\ head = Null

(* The list is one, its length is counted, and who is on it is loaded.     *)
Registry == /\ Straight(next, head)
            /\ count = Cardinality(Linked)
            /\ Linked \subseteq loaded

(* What a shutdown has still to look at; all of the list when there is     *)
(* none. It follows the next fields from where the walk is, and those of   *)
(* drivers that are no longer on the list may be on its way.               *)
Ahead == IF Walking THEN Reach(next, stack[1].link) ELSE Linked

(* Whoever is owed a remove is on the list, where the walk has yet to      *)
(* come; and a driver there that is owed none is being removed.            *)
Kept == /\ \A d \in Drivers : /\ owed[d] \in {0, 1}
                              /\ owed[d] = 1 => d \in Linked /\ d \in Ahead
        /\ Ahead \cap loaded \subseteq Linked
        /\ \A d \in Ahead \cap Linked : owed[d] = 1 \/ Removing(d)

(* A driver that is being removed is still on the list, is owed nothing,   *)
(* and is being removed once.                                              *)
Busy == /\ \A k \in DOMAIN stack : stack[k].kind = "remove" =>
             stack[k].who \in Linked /\ owed[stack[k].who] = 0
        /\ \A j, k \in DOMAIN stack :
             /\ stack[j].kind = "remove" /\ stack[k].kind = "remove"
             /\ stack[j].who = stack[k].who
             => j = k

(* The walk has yet to remove d, or is removing it.                        *)
Current(d) == d \in Ahead \/ (Walking /\ d = stack[1].who)

(* A registered driver that owns a line, or is called back, is not yet     *)
(* left behind by the walk of a shutdown; and who owns a line is           *)
(* registered, or was not when it requested the line.                      *)
Served == /\ \A i \in Irqs : lines[i].handler /\ lines[i].opaque # Null =>
               /\ lines[i].late \/ lines[i].opaque \in Linked
               /\ lines[i].opaque \in Linked => Current(lines[i].opaque)
          /\ \A k \in DOMAIN stack : stack[k].who \in Linked => Current(stack[k].who)

Unspoiled == Registry /\ Kept /\ Busy /\ Served

IInv == TypeOK /\ Frames /\ (~spoiled => Unspoiled)

------------------------------------------------------------------------------
(* Facts that every action needs.                                          *)

(* Types, and the frames at both ends of the stack.                        *)
LEMMA Facts ==
  ASSUME IInv
  PROVE  /\ Null \notin Drivers /\ Drivers \subseteq Pointer /\ Null \in Pointer
         /\ Linked \subseteq Drivers /\ Ahead \subseteq Drivers
         /\ Len(stack) \in Nat /\ DOMAIN stack = 1 .. Len(stack)
         /\ \A k \in DOMAIN stack : stack[k] \in Frame
         /\ stack # <<>> => Len(stack) \in DOMAIN stack /\ Top \in Frame
         /\ Walking => 1 \in DOMAIN stack /\ stack[1].kind = "walk" /\ stack[1] \in Frame
  <1>1. Null \notin Drivers /\ Drivers \subseteq Pointer /\ Null \in Pointer
    BY ServicesAssumption DEF Pointer
  <1>2. Linked \subseteq Drivers /\ Ahead \subseteq Drivers
    BY ReachSub DEF Linked, Ahead
  <1>3. /\ Len(stack) \in Nat /\ DOMAIN stack = 1 .. Len(stack)
        /\ \A k \in DOMAIN stack : stack[k] \in Frame
        /\ stack # <<>> => Len(stack) \in DOMAIN stack /\ Top \in Frame
    BY DEF IInv, TypeOK, Top
  <1>4. Walking => 1 \in DOMAIN stack /\ stack[1].kind = "walk" /\ stack[1] \in Frame
    BY <1>3 DEF IInv, Frames, Walking
  <1> QED BY <1>1, <1>2, <1>3, <1>4

(* A callback that begins is put on top of the others.                     *)
LEMMA Pushed ==
  ASSUME IInv, NEW kind \in {"probe", "remove", "handler"},
         NEW d \in Pointer, NEW l \in Pointer, Call(kind, d, l)
  PROVE  /\ stack' \in Seq(Frame) /\ Len(stack') <= MaxDepth
         /\ DOMAIN stack' = DOMAIN stack \cup {Len(stack) + 1}
         /\ Len(stack) + 1 \notin DOMAIN stack
         /\ \A k \in DOMAIN stack : stack'[k] = stack[k]
         /\ stack'[Len(stack) + 1] = [kind |-> kind, who |-> d, link |-> l]
         /\ Walking' <=> Walking
         /\ Walking => stack'[1] = stack[1]
  <1> DEFINE f == [kind |-> kind, who |-> d, link |-> l]
  <1>1. f \in Frame /\ f.kind # "walk"
    BY DEF Frame
  <1>2. stack' = Append(stack, f) /\ Len(stack) < MaxDepth
    BY DEF Call
  <1> HIDE DEF f
  <1>3. stack \in Seq(Frame) /\ MaxDepth \in Nat
    BY ServicesAssumption DEF IInv, TypeOK
  <1>4. /\ stack' \in Seq(Frame) /\ Len(stack') <= MaxDepth
        /\ DOMAIN stack' = DOMAIN stack \cup {Len(stack) + 1}
        /\ Len(stack) + 1 \notin DOMAIN stack
        /\ \A k \in DOMAIN stack : stack'[k] = stack[k]
        /\ stack'[Len(stack) + 1] = f
    BY <1>1, <1>2, <1>3
  <1>5. Walking' <=> Walking
    BY <1>1, <1>4 DEF Walking
  <1>6. Walking => stack'[1] = stack[1]
    BY <1>4, Facts
  <1> QED BY <1>4, <1>5, <1>6 DEF f

(* A callback other than the walk's that returns leaves those below it.    *)
LEMMA Popped ==
  ASSUME IInv, stack # <<>>, Top.kind # "walk", stack' = Returned
  PROVE  /\ stack' \in Seq(Frame) /\ Len(stack') <= MaxDepth
         /\ DOMAIN stack' = DOMAIN stack \ {Len(stack)}
         /\ \A k \in DOMAIN stack' : stack'[k] = stack[k]
         /\ Walking' <=> Walking
         /\ Walking => stack'[1] = stack[1]
  <1>1. stack \in Seq(Frame) /\ Len(stack) <= MaxDepth /\ MaxDepth \in Nat
    BY ServicesAssumption DEF IInv, TypeOK
  <1> DEFINE n == Len(stack) - 1
  <1>2. n \in Nat /\ n + 1 = Len(stack) /\ DOMAIN stack = 1 .. n + 1
    BY <1>1
  <1>3. /\ stack' \in Seq(Frame) /\ Len(stack') = n /\ DOMAIN stack' = 1 .. n
        /\ Len(stack') <= MaxDepth
        /\ \A k \in DOMAIN stack' : stack'[k] = stack[k]
    <2>1. stack' = SubSeq(stack, 1, n)
      BY DEF Returned
    <2>2. \A k \in 1 .. n : stack[k] \in Frame
      BY <1>1, <1>2
    <2> HIDE DEF n
    <2> QED BY <1>1, <1>2, <2>1, <2>2
  <1>4. DOMAIN stack' = DOMAIN stack \ {Len(stack)}
    BY <1>2, <1>3
  <1>5. Walking' <=> Walking
    BY <1>3, <1>4 DEF Walking, Top
  <1>6. Walking => 1 \in DOMAIN stack'
    BY <1>4, Facts DEF Top
  <1> QED BY <1>3, <1>4, <1>5, <1>6

(* The walk is alone on the stack when it goes on.                         *)
LEMMA Walked ==
  ASSUME IInv, InWalk
  PROVE  /\ Len(stack) = 1 /\ DOMAIN stack = {1} /\ Top = stack[1] /\ Walking
         /\ stack[1].kind = "walk" /\ stack[1].who \in Pointer /\ stack[1].link \in Pointer
         /\ Ahead = Reach(next, stack[1].link)
         /\ drvReady /\ \A d \in Drivers : ~Removing(d)
  <1>1. Len(stack) \in DOMAIN stack /\ stack[Len(stack)].kind = "walk" /\ Top = stack[Len(stack)]
    BY Facts DEF InWalk, Top
  <1>2. Len(stack) = 1 /\ DOMAIN stack = {1}
    <2>1. Len(stack) = 1
      BY <1>1 DEF IInv, Frames
    <2> QED BY <2>1, Facts
  <1>3. Top = stack[1] /\ stack[1] \in Frame /\ stack[1].kind = "walk" /\ Walking
    BY <1>1, <1>2, Facts DEF Walking
  <1>4. drvReady
    BY DEF IInv, Frames, InWalk
  <1> QED BY <1>2, <1>3, <1>4 DEF Frame, Ahead, Removing

(* What the walk goes on with.                                             *)
LEMMA WalksOn ==
  ASSUME IInv, InWalk, NEW d \in Pointer, NEW l \in Pointer, WalkOn(d, l)
  PROVE  /\ stack' \in Seq(Frame) /\ Len(stack') <= MaxDepth
         /\ DOMAIN stack' = {1} /\ stack'[1] = [kind |-> "walk", who |-> d, link |-> l]
         /\ Walking'
         /\ Ahead' = Reach(next', l)
         /\ \A x \in Drivers : ~Removing(x)'
  <1> DEFINE f == [kind |-> "walk", who |-> d, link |-> l]
  <1>1. f \in Frame
    BY DEF Frame
  <1>2. stack \in Seq(Frame) /\ Len(stack) <= MaxDepth /\ Len(stack) = 1
    BY Walked DEF IInv, TypeOK
  <1>3. stack' = [stack EXCEPT ![1] = f]
    BY <1>2 DEF WalkOn
  <1>4. stack' \in Seq(Frame) /\ Len(stack') = 1 /\ DOMAIN stack' = {1} /\ stack'[1] = f
    <2> HIDE DEF f
    <2> QED BY <1>1, <1>2, <1>3
  <1>5. Walking' /\ Ahead' = Reach(next', l)
    BY <1>4 DEF Walking, Ahead
  <1>6. \A x \in Drivers : ~Removing(x)'
    BY <1>4 DEF Removing
  <1> QED BY <1>2, <1>4, <1>5, <1>6

(* The list is finite, and so is what is counted.                          *)
LEMMA FiniteList ==
  ASSUME NEW S \in SUBSET Drivers PROVE IsFiniteSet(S) /\ Cardinality(S) \in Nat
  BY ServicesAssumption, FS_Subset, FS_CardinalityType

(* What baios_driver_unregister does to a list that pp still belongs to.   *)
LEMMA Unlinked ==
  ASSUME TypeOK, Straight(next, head), NEW e \in Drivers, NEW p \in Pointer,
         StopsAt(p, e), Store(p, next[e])
  PROVE  /\ e \in Linked /\ Linked' = Linked \ {e} /\ Straight(next', head')
         /\ \A q \in Pointer : /\ Reach(next, q) \ {e} \subseteq Reach(next', q)
                               /\ Reach(next', q) \subseteq Reach(next, q)
  <1>1. next \in [Drivers -> Pointer] /\ head \in Pointer /\ next[e] \in Pointer
    BY DEF TypeOK
  <1>2. CASE p = Null
    <2>1. head = e /\ head' = next[e] /\ next' = next
      BY <1>2 DEF StopsAt, Store
    <2>2. e \in Linked
      BY <1>1, <2>1, ReachStep DEF Linked
    <2> QED BY <1>1, <2>1, <2>2, UnlinkHead DEF Linked
  <1>3. CASE p # Null
    <2> DEFINE m == next'
    <2>1. p \in Reach(next, head) /\ next[p] = e
      BY <1>3 DEF StopsAt, Linked
    <2>2. head' = head /\ next' = [next EXCEPT ![p] = next[e]]
      BY <1>3 DEF Store
    <2>3. e \in Reach(next, head)
      BY <1>1, <2>1, ReachClosed, ServicesAssumption
    <2>4. m \in [Drivers -> Pointer] /\ m[p] = next[e] /\ \A x \in Drivers \ {p} : m[x] = next[x]
      BY <1>1, <2>1, <2>2, ReachSub
    <2> HIDE DEF m
    <2>5. /\ Reach(m, head) = Reach(next, head) \ {e} /\ Straight(m, head)
          /\ \A q \in Pointer : /\ Reach(next, q) \ {e} \subseteq Reach(m, q)
                                /\ Reach(m, q) \subseteq Reach(next, q)
      BY <1>1, <2>1, <2>4, UnlinkNext
    <2> QED BY <2>2, <2>3, <2>5 DEF m, Linked
  <1> QED BY <1>2, <1>3

------------------------------------------------------------------------------
(* The initial state, and one lemma for each action.                       *)

(* Lines that nobody owns, and drivers that nothing is owed.               *)
LEMMA Zeroes ==
  /\ [i \in Irqs |-> Unused] \in [Irqs -> Line]
  /\ [d \in Drivers |-> 0] \in [Drivers -> -1 .. 2]
  /\ 0 \in 0 .. CountModulus - 1
  <1>1. Unused \in Line
    BY DEF Unused, Line, Pointer
  <1>2. 0 \in -1 .. 2 /\ 0 \in 0 .. CountModulus - 1
    BY ServicesAssumption
  <1> QED BY <1>1, <1>2

(* Nothing is registered, running or owned when both services are down.    *)
LEMMA InitIInv == Init => IInv
  <1> SUFFICES ASSUME Init PROVE IInv
    OBVIOUS
  <1> USE DEF Init
  <1>1. next \in [Drivers -> Pointer]
    BY DEF Pointer
  <1>2. TypeOK
    <2>1. stack \in Seq(Frame) /\ Len(stack) <= MaxDepth
      BY ServicesAssumption
    <2> QED BY <1>1, <2>1, Zeroes DEF TypeOK, Pointer
  <1>3. Frames
    BY DEF Frames
  <1>4. Linked = {} /\ Ahead = {} /\ ~Walking
    BY <1>1, ReachNull DEF Linked, Ahead, Walking
  <1>5. Cardinality(Linked) = 0
    BY <1>4, FS_EmptySet
  <1>6. Unspoiled
    BY <1>4, <1>5 DEF Unspoiled, Registry, Kept, Busy, Served, Straight, Linked, Unused
  <1> QED BY <1>2, <1>3, <1>6 DEF IInv

(* A step that leaves everything alone.                                    *)
LEMMA StutterKeeps ==
  ASSUME IInv, UNCHANGED vars PROVE IInv'
  BY DEF IInv, vars, list, TypeOK, Frames, Unspoiled, Registry, Kept, Busy, Served, Linked,
         Ahead, Walking, Removing, Current

(* The services are brought up, over whatever a shutdown left in the       *)
(* descriptors.                                                            *)
LEMMA HwInitKeeps ==
  ASSUME IInv, HwInit PROVE IInv'
  <1> USE DEF HwInit
  <1>1. next \in [Drivers -> Pointer]
    BY DEF IInv, TypeOK
  <1>2. stack = <<>> /\ stack' = <<>>
    BY DEF IInv, Frames
  <1>3. TypeOK'
    BY Zeroes DEF IInv, TypeOK, Pointer
  <1>4. Frames'
    BY <1>2 DEF Frames
  <1>5. Linked' = {} /\ Ahead' = {} /\ ~Walking'
    <2>1. Reach(next, Null) = {}
      BY <1>1, ReachNull
    <2> QED BY <1>2, <2>1 DEF Linked, Ahead, Walking
  <1>6. Cardinality(Linked') = 0
    BY <1>5, FS_EmptySet
  <1>7. Straight(next', head')
    BY <1>5 DEF Straight, Linked
  <1>8. Unspoiled'
    BY <1>2, <1>5, <1>6, <1>7 DEF Unspoiled, Registry, Kept, Busy, Served, Unused
  <1> QED BY <1>3, <1>4, <1>8 DEF IInv

(* A driver is put in front of the list, and probed. A walk would not see  *)
(* it.                                                                     *)
LEMMA RegisterKeeps ==
  ASSUME IInv, NEW d \in Drivers, Register(d) PROVE IInv'
  <1>1. /\ drvReady /\ ~spoiled /\ count < MaxDrivers /\ d \notin Linked
        /\ next' = [next EXCEPT ![d] = head] /\ head' = d
        /\ loaded' = loaded \cup {d} /\ count' = count + 1
        /\ Call("probe", d, Null)
        /\ spoiled' = Walking /\ UNCHANGED <<drvReady, irqReady, lines>>
    BY DEF Register, Calls
  <1>2. TypeOK /\ Frames /\ Registry /\ Kept /\ Busy /\ Served
    BY <1>1 DEF IInv, Unspoiled
  <1>3. owed[d] = 0
    BY <1>1, <1>2 DEF Kept
  <1>4. owed' = [owed EXCEPT ![d] = 1]
    BY <1>1, <1>3 DEF Register, Owes
  <1>5. /\ stack' \in Seq(Frame) /\ Len(stack') <= MaxDepth
        /\ DOMAIN stack' = DOMAIN stack \cup {Len(stack) + 1}
        /\ Len(stack) + 1 \notin DOMAIN stack
        /\ \A k \in DOMAIN stack : stack'[k] = stack[k]
        /\ stack'[Len(stack) + 1] = [kind |-> "probe", who |-> d, link |-> Null]
        /\ Walking' <=> Walking
    BY <1>1, Pushed, Facts
  <1>6. TypeOK'
    <2>1. count' \in 0 .. CountModulus - 1
      BY <1>1, <1>2, ServicesAssumption DEF TypeOK
    <2>2. owed' \in [Drivers -> -1 .. 2]
      BY <1>2, <1>4 DEF TypeOK
    <2>3. head' \in Pointer /\ next' \in [Drivers -> Pointer] /\ loaded' \subseteq Drivers
      BY <1>1, <1>2 DEF TypeOK, Pointer
    <2>4. spoiled' \in BOOLEAN
      BY <1>1 DEF Walking
    <2> QED BY <1>1, <1>2, <1>5, <2>1, <2>2, <2>3, <2>4 DEF TypeOK
  <1>7. Frames'
    BY <1>1, <1>2, <1>5 DEF Frames
  <1>8. ASSUME ~spoiled' PROVE Unspoiled'
    <2>1. ~Walking /\ ~Walking'
      BY <1>1, <1>5, <1>8
    <2> DEFINE m == next'
    <2>2. m \in [Drivers -> Pointer] /\ m[d] = head /\ \A x \in Drivers \ {d} : m[x] = next[x]
      BY <1>1, <1>2, Facts DEF TypeOK
    <2> HIDE DEF m
    <2>3. next \in [Drivers -> Pointer] /\ head \in Pointer /\ Straight(next, head)
      BY <1>2 DEF TypeOK, Registry
    <2>4. d \notin Reach(next, head)
      BY <1>1 DEF Linked
    <2>5. Reach(m, d) = Reach(next, head) \cup {d} /\ Straight(m, d)
      BY <2>2, <2>3, <2>4, Push
    <2>6. Linked' = Linked \cup {d} /\ Straight(next', head')
      BY <1>1, <2>5 DEF m, Linked
    <2>7. Ahead = Linked /\ Ahead' = Linked'
      BY <2>1 DEF Ahead
    <2>8. Registry'
      <3>1. IsFiniteSet(Linked) /\ Cardinality(Linked \cup {d}) = Cardinality(Linked) + 1
        BY <1>1, Facts, FiniteList, FS_AddElement
      <3> QED BY <1>1, <1>2, <2>6, <3>1 DEF Registry
    <2>9. Kept'
      <3>1. ASSUME NEW x \in Drivers, Removing(x) PROVE Removing(x)'
        BY <3>1, <1>5 DEF Removing
      <3>2. d \in Drivers /\ owed \in [Drivers -> -1 .. 2]
        BY <1>2 DEF TypeOK
      <3>3. \A x \in Drivers : owed'[x] = IF x = d THEN 1 ELSE owed[x]
        BY <1>4, <3>2
      <3>4. \A x \in Drivers : owed'[x] \in {0, 1} /\ (owed'[x] = 1 => x \in Linked')
        BY <1>2, <2>6, <3>3 DEF Kept
      <3>5. \A x \in Linked' : owed'[x] = 1 \/ Removing(x)'
        BY <1>2, <2>6, <2>7, <3>1, <3>3, Facts DEF Kept
      <3> QED BY <2>7, <3>4, <3>5 DEF Kept
    <2>10. Busy'
      BY <1>1, <1>2, <1>4, <1>5, <2>6, Facts DEF Busy, TypeOK
    <2>11. Served'
      BY <1>1, <1>2, <2>6, <2>7 DEF Served, Current
    <2> QED BY <2>8, <2>9, <2>10, <2>11 DEF Unspoiled
  <1> QED BY <1>6, <1>7, <1>8 DEF IInv

(* The list, what is owed and the stack's removes are the same, and no     *)
(* line changes hands.                                                     *)
LEMMA ProbeReturnsKeeps ==
  ASSUME IInv, ProbeReturns \/ HandlerReturns PROVE IInv'
  <1>1. /\ stack # <<>> /\ Top.kind \in {"probe", "handler"} /\ stack' = Returned
        /\ UNCHANGED <<drvReady, irqReady, list, lines, owed, spoiled>>
    BY DEF ProbeReturns, HandlerReturns
  <1>2. /\ stack' \in Seq(Frame) /\ Len(stack') <= MaxDepth
        /\ DOMAIN stack' = DOMAIN stack \ {Len(stack)}
        /\ \A k \in DOMAIN stack' : stack'[k] = stack[k]
        /\ Walking' <=> Walking
        /\ Walking => stack'[1] = stack[1]
    BY <1>1, Popped
  <1>3. Linked' = Linked /\ Ahead' = Ahead
    BY <1>1, <1>2 DEF Linked, Ahead, list
  <1>4. TypeOK'
    BY <1>1, <1>2 DEF IInv, TypeOK, list
  <1>5. Frames'
    BY <1>1, <1>2 DEF IInv, Frames, list
  <1>6. ASSUME ~spoiled' PROVE Unspoiled'
    <2>1. Registry /\ Kept /\ Busy /\ Served
      BY <1>1, <1>6 DEF IInv, Unspoiled
    <2>2. \A d \in Drivers : Removing(d) => Removing(d)'
      BY <1>1, <1>2 DEF Removing, Top
    <2>3. Registry'
      BY <1>1, <1>3, <2>1 DEF Registry, list
    <2>4. Kept'
      BY <1>1, <1>3, <2>1, <2>2, Facts DEF Kept, list
    <2>5. Busy'
      BY <1>1, <1>2, <1>3, <2>1 DEF Busy
    <2>6. Served'
      BY <1>1, <1>2, <1>3, <2>1 DEF Served, Current
    <2> QED BY <2>3, <2>4, <2>5, <2>6 DEF Unspoiled
  <1> QED BY <1>4, <1>5, <1>6 DEF IInv

(* A remove that is called pays what is owed.                              *)
LEMMA Pays ==
  ASSUME ~spoiled, NEW d \in Drivers, owed[d] \in {0, 1}, Owes(d, -1)
  PROVE  owed' = [owed EXCEPT ![d] = owed[d] - 1]
  <1>1. ~(owed[d] + (-1) < -1) /\ owed[d] + (-1) = owed[d] - 1
    OBVIOUS
  <1>2. owed' = [owed EXCEPT ![d] = owed[d] + (-1)]
    BY <1>1 DEF Owes
  <1> QED BY <1>1, <1>2

(* The search ends at a driver that is owed its remove, or the list is     *)
(* spoiled.                                                                *)
LEMMA UnregisterKeeps ==
  ASSUME IInv, NEW d \in Drivers, Unregister(d) PROVE IInv'
  <1>1. /\ drvReady /\ ~spoiled /\ d \in Linked
        /\ spoiled' = (owed[d] = 0)
        /\ UNCHANGED <<drvReady, irqReady, list, lines>>
    BY DEF Unregister, Calls
  <1>2. TypeOK /\ Frames /\ Registry /\ Kept /\ Busy /\ Served
    BY <1>1 DEF IInv, Unspoiled
  <1>3. owed[d] \in {0, 1}
    BY <1>2 DEF Kept
  <1>4. owed' = [owed EXCEPT ![d] = owed[d] - 1]
    BY <1>1, <1>3, Pays DEF Unregister
  <1>5. PICK p \in Pointer : Call("remove", d, p)
    BY DEF Unregister
  <1>6. /\ stack' \in Seq(Frame) /\ Len(stack') <= MaxDepth
        /\ DOMAIN stack' = DOMAIN stack \cup {Len(stack) + 1}
        /\ Len(stack) + 1 \notin DOMAIN stack
        /\ \A k \in DOMAIN stack : stack'[k] = stack[k]
        /\ stack'[Len(stack) + 1] = [kind |-> "remove", who |-> d, link |-> p]
        /\ Walking' <=> Walking
        /\ Walking => stack'[1] = stack[1]
    BY <1>5, Pushed, Facts
  <1>7. Linked' = Linked /\ Ahead' = Ahead
    BY <1>1, <1>6 DEF Linked, Ahead, list
  <1>8. TypeOK'
    <2>1. owed' \in [Drivers -> -1 .. 2]
      BY <1>2, <1>3, <1>4 DEF TypeOK
    <2> QED BY <1>1, <1>2, <1>6, <2>1 DEF TypeOK, list
  <1>9. Frames'
    BY <1>1, <1>2, <1>6 DEF Frames, list
  <1>10. ASSUME ~spoiled' PROVE Unspoiled'
    <2>1. owed[d] = 1 /\ d \in Ahead
      BY <1>1, <1>2, <1>3, <1>10 DEF Kept
    <2>2. \A x \in Drivers : owed'[x] = IF x = d THEN 0 ELSE owed[x]
      BY <1>2, <1>4, <2>1 DEF TypeOK
    <2>3. Registry'
      BY <1>1, <1>2, <1>7 DEF Registry, list
    <2>4. Kept'
      <3>1. ASSUME NEW x \in Drivers, x = d \/ Removing(x) PROVE Removing(x)'
        BY <3>1, <1>6 DEF Removing
      <3>2. \A x \in Drivers : owed'[x] \in {0, 1} /\ (owed'[x] = 1 => x \in Linked /\ x \in Ahead)
        BY <1>2, <2>2 DEF Kept
      <3>3. \A x \in Ahead \cap Linked : owed'[x] = 1 \/ Removing(x)'
        BY <1>2, <2>2, <3>1, Facts DEF Kept
      <3>4. Ahead \cap loaded' \subseteq Linked
        BY <1>1, <1>2 DEF Kept, list
      <3> QED BY <1>7, <3>2, <3>3, <3>4 DEF Kept
    <2>5. Busy'
      <3>1. \A k \in DOMAIN stack : stack[k].kind = "remove" => stack[k].who # d
        BY <1>2, <2>1 DEF Busy
      <3>2. \A k \in DOMAIN stack' : stack'[k].kind = "remove" =>
              stack'[k].who \in Linked /\ owed'[stack'[k].who] = 0
        BY <1>1, <1>2, <1>6, <2>2, <3>1, Facts DEF Busy
      <3>3. ASSUME NEW j \in DOMAIN stack', NEW k \in DOMAIN stack',
                   stack'[j].kind = "remove", stack'[k].kind = "remove",
                   stack'[j].who = stack'[k].who
            PROVE  j = k
        BY <1>2, <1>6, <3>1, <3>3 DEF Busy
      <3> QED BY <1>7, <3>2, <3>3 DEF Busy
    <2>6. Served'
      BY <1>1, <1>2, <1>6, <1>7, <2>1 DEF Served, Current
    <2> QED BY <2>3, <2>4, <2>5, <2>6 DEF Unspoiled
  <1> QED BY <1>8, <1>9, <1>10 DEF IInv

(* Lines are freed, and none is taken.                                     *)
LEMMA FreedLines ==
  ASSUME TypeOK, NEW d \in Pointer, lines' = Freed(d)
  PROVE  /\ lines' \in [Irqs -> Line]
         /\ \A i \in Irqs : lines'[i].handler =>
              lines'[i] = lines[i] /\ lines'[i].opaque # d
  <1>1. lines \in [Irqs -> Line] /\ [i \in Irqs |-> Unused] \in [Irqs -> Line]
    BY Zeroes DEF TypeOK
  <1>2. \A i \in Irqs : lines'[i] = IF lines[i].handler /\ lines[i].opaque = d
                                      THEN Unused ELSE lines[i]
    BY DEF Freed
  <1>3. lines' \in [Irqs -> Line]
    BY <1>1 DEF Freed
  <1> QED BY <1>2, <1>3 DEF Unused

(* The driver leaves the list, wherever the walk of a shutdown is.         *)
LEMMA RemoveReturnsKeeps ==
  ASSUME IInv, RemoveReturns PROVE IInv'
  <1> DEFINE e == Top.who
             p == Top.link
  <1>1. /\ stack # <<>> /\ Top.kind = "remove" /\ stack' = Returned
        /\ Store(p, next[e])
        /\ spoiled' = (spoiled \/ ~StopsAt(p, e))
        /\ loaded' = loaded \ {e} /\ count' = (count - 1) % CountModulus
        /\ lines' = Freed(e) /\ UNCHANGED <<drvReady, irqReady, owed>>
    BY DEF RemoveReturns
  <1>2. TypeOK /\ Frames
    BY DEF IInv
  <1>3. e \in Drivers /\ p \in Pointer /\ stack[Len(stack)].who = e
    BY <1>1, <1>2, Facts DEF Frames, Frame, Top
  <1> HIDE DEF e, p
  <1>4. /\ stack' \in Seq(Frame) /\ Len(stack') <= MaxDepth
        /\ DOMAIN stack' = DOMAIN stack \ {Len(stack)}
        /\ \A k \in DOMAIN stack' : stack'[k] = stack[k]
        /\ Walking' <=> Walking
        /\ Walking => stack'[1] = stack[1]
    BY <1>1, Popped
  <1>5. /\ lines' \in [Irqs -> Line]
        /\ \A i \in Irqs : lines'[i].handler => lines'[i] = lines[i] /\ lines'[i].opaque # e
    BY <1>1, <1>2, <1>3, FreedLines, Facts
  <1>6. head' \in Pointer /\ next' \in [Drivers -> Pointer]
    BY <1>1, <1>2, <1>3 DEF Store, TypeOK
  <1>7. TypeOK'
    <2>1. count' \in 0 .. CountModulus - 1
      BY <1>1, <1>2, ServicesAssumption DEF TypeOK
    <2>2. loaded' \subseteq Drivers /\ spoiled' \in BOOLEAN
      BY <1>1, <1>2 DEF TypeOK
    <2> QED BY <1>1, <1>2, <1>4, <1>5, <1>6, <2>1, <2>2 DEF TypeOK
  <1>8. Frames'
    BY <1>1, <1>2, <1>4 DEF Frames
  <1>9. ASSUME ~spoiled' PROVE Unspoiled'
    <2>1. Registry /\ Kept /\ Busy /\ Served /\ StopsAt(p, e)
      BY <1>1, <1>9 DEF IInv, Unspoiled
    <2>2. /\ e \in Linked /\ Linked' = Linked \ {e} /\ Straight(next', head')
          /\ \A q \in Pointer : /\ Reach(next, q) \ {e} \subseteq Reach(next', q)
                                /\ Reach(next', q) \subseteq Reach(next, q)
      BY <1>1, <1>2, <1>3, <2>1, Unlinked DEF Registry
    <2>3. Ahead \ {e} \subseteq Ahead' /\ Ahead' \subseteq Ahead
      <3>1. CASE Walking
        <4>1. stack[1].link \in Pointer
          BY <3>1, Facts DEF Frame
        <4>2. Ahead = Reach(next, stack[1].link) /\ Ahead' = Reach(next', stack[1].link)
          BY <1>4, <3>1 DEF Ahead
        <4> QED BY <2>2, <4>1, <4>2
      <3>2. CASE ~Walking
        BY <1>4, <2>2, <3>2 DEF Ahead
      <3> QED BY <3>1, <3>2
    <2>4. Registry'
      <3>1. IsFiniteSet(Linked) /\ Cardinality(Linked \ {e}) = Cardinality(Linked) - 1
        BY <2>2, Facts, FiniteList, FS_RemoveElement
      <3>2. Cardinality(Linked \ {e}) \in Nat
        BY Facts, FiniteList
      <3>3. count - 1 \in 0 .. CountModulus - 1
        <4>1. count \in 0 .. CountModulus - 1 /\ count = Cardinality(Linked) /\ CountModulus \in Nat
          BY <1>2, <2>1, ServicesAssumption DEF Registry, TypeOK
        <4> QED BY <3>1, <3>2, <4>1
      <3>4. count' = count - 1
        BY <1>1, <3>3, ServicesAssumption
      <3>5. Linked \ {e} \subseteq loaded'
        BY <1>1, <2>1 DEF Registry
      <3> QED BY <2>1, <2>2, <3>1, <3>4, <3>5 DEF Registry
    <2>5. owed[e] = 0
      BY <1>1, <1>3, <2>1, Facts DEF Busy, Top
    <2>6. Kept'
      <3>1. ASSUME NEW x \in Drivers, x # e, Removing(x) PROVE Removing(x)'
        <4>1. PICK k \in DOMAIN stack : stack[k].kind = "remove" /\ stack[k].who = x
          BY <3>1 DEF Removing
        <4>2. k \in DOMAIN stack'
          BY <1>3, <1>4, <3>1, <4>1
        <4> QED BY <1>4, <4>1, <4>2 DEF Removing
      <3>2. \A x \in Drivers : owed[x] \in {0, 1} /\ (owed[x] = 1 => x \in Linked' /\ x \in Ahead')
        BY <2>1, <2>2, <2>3, <2>5 DEF Kept
      <3>3. \A x \in Ahead' \cap Linked' : owed[x] = 1 \/ Removing(x)'
        BY <2>1, <2>2, <2>3, <3>1, Facts DEF Kept
      <3>4. Ahead' \cap loaded' \subseteq Linked'
        BY <1>1, <2>1, <2>2, <2>3 DEF Kept
      <3> QED BY <1>1, <3>2, <3>3, <3>4 DEF Kept
    <2>7. Busy'
      <3>1. \A k \in DOMAIN stack' : stack[k].kind = "remove" => stack[k].who # e
        BY <1>1, <1>3, <1>4, <2>1, Facts DEF Busy, Top
      <3>2. \A k \in DOMAIN stack' : stack[k].kind = "remove" =>
              stack[k].who \in Linked' /\ owed[stack[k].who] = 0
        BY <1>4, <2>1, <2>2, <3>1 DEF Busy
      <3>3. ASSUME NEW j \in DOMAIN stack', NEW k \in DOMAIN stack',
                   stack[j].kind = "remove", stack[k].kind = "remove",
                   stack[j].who = stack[k].who
            PROVE  j = k
        BY <1>4, <2>1, <3>3 DEF Busy
      <3> QED BY <1>1, <1>4, <3>2, <3>3 DEF Busy
    <2>8. Served'
      <3>1. ASSUME NEW x \in Linked', Current(x) PROVE Current(x)'
        BY <1>4, <2>2, <2>3, <3>1 DEF Current
      <3>2. \A i \in Irqs : lines'[i].handler /\ lines'[i].opaque # Null =>
              /\ lines'[i].late \/ lines'[i].opaque \in Linked'
              /\ lines'[i].opaque \in Linked' => Current(lines'[i].opaque)
        BY <1>5, <2>1, <2>2 DEF Served
      <3>3. \A k \in DOMAIN stack' : stack[k].who \in Linked' => Current(stack[k].who)
        BY <1>4, <2>1, <2>2 DEF Served
      <3> QED BY <1>4, <3>1, <3>2, <3>3 DEF Served, Current
    <2> QED BY <2>4, <2>6, <2>7, <2>8 DEF Unspoiled
  <1> QED BY <1>7, <1>8, <1>9 DEF IInv

(* The walk begins where the list does.                                    *)
LEMMA ShutdownBeginsKeeps ==
  ASSUME IInv, ShutdownBegins PROVE IInv'
  <1> DEFINE f == [kind |-> "walk", who |-> Null, link |-> head]
  <1>1. /\ drvReady /\ stack = <<>> /\ stack' = Append(stack, f) /\ Len(stack) < MaxDepth
        /\ UNCHANGED <<drvReady, irqReady, list, lines, owed, spoiled>>
    BY DEF ShutdownBegins, Call
  <1>2. TypeOK /\ f \in Frame /\ MaxDepth \in Nat
    BY ServicesAssumption DEF IInv, TypeOK, Frame, Pointer
  <1>3. stack' \in Seq(Frame) /\ Len(stack') <= MaxDepth /\ DOMAIN stack' = {1} /\ stack'[1] = f
    <2> HIDE DEF f
    <2> QED BY <1>1, <1>2
  <1>4. ~Walking /\ Walking' /\ \A d \in Drivers : ~Removing(d)
    BY <1>1, <1>3 DEF Walking, Removing
  <1>5. Linked' = Linked /\ Ahead' = Linked /\ Ahead = Linked
    BY <1>1, <1>3, <1>4 DEF Ahead, Linked, list
  <1>6. TypeOK'
    BY <1>1, <1>2, <1>3 DEF TypeOK, list
  <1>7. Frames'
    BY <1>1, <1>3 DEF Frames
  <1>8. ASSUME ~spoiled' PROVE Unspoiled'
    <2>1. Registry /\ Kept /\ Served
      BY <1>1, <1>8 DEF IInv, Unspoiled
    <2>2. Registry'
      BY <1>1, <1>5, <2>1 DEF Registry, list
    <2>3. Kept'
      BY <1>1, <1>4, <1>5, <2>1, Facts DEF Kept, list
    <2>4. Busy'
      BY <1>3 DEF Busy
    <2>5. Served'
      BY <1>1, <1>3, <1>4, <1>5, <2>1, Facts DEF Served, Current
    <2> QED BY <2>2, <2>3, <2>4, <2>5 DEF Unspoiled
  <1> QED BY <1>6, <1>7, <1>8 DEF IInv

(* What is ahead of a walk that is between two callbacks.                  *)
LEMMA NextOfWalk ==
  ASSUME IInv, InWalk, NEW d \in Drivers, Top.link = d
  PROVE  Ahead = {d} \cup Reach(next, next[d]) /\ next[d] \in Pointer
  BY Walked, ReachStep DEF IInv, TypeOK

(* A loaded driver that the walk comes to is on the list and is owed its   *)
(* remove, and there is no way back to it.                                 *)
LEMMA WalkCallsKeeps ==
  ASSUME IInv, NEW d \in Drivers, WalkCalls(d) PROVE IInv'
  <1>1. /\ InWalk /\ Top.link = d /\ d \in loaded /\ WalkOn(d, next[d])
        /\ UNCHANGED <<drvReady, irqReady, list, lines, spoiled>>
    BY DEF WalkCalls
  <1>2. TypeOK /\ Frames
    BY DEF IInv
  <1>3. /\ Ahead = {d} \cup Reach(next, next[d]) /\ next[d] \in Pointer
        /\ drvReady /\ Walking /\ \A x \in Drivers : ~Removing(x)
    BY <1>1, NextOfWalk, Walked
  <1>4. /\ stack' \in Seq(Frame) /\ Len(stack') <= MaxDepth
        /\ DOMAIN stack' = {1} /\ stack'[1] = [kind |-> "walk", who |-> d, link |-> next[d]]
        /\ Walking' /\ Ahead' = Reach(next', next[d])
    BY <1>1, <1>3, WalksOn, Facts
  <1>5. Linked' = Linked /\ Ahead = {d} \cup Ahead'
    BY <1>1, <1>3, <1>4 DEF Linked, list
  <1>6. Frames'
    BY <1>1, <1>3, <1>4 DEF Frames
  <1>7. CASE spoiled
    <2>1. owed' = owed
      BY <1>7 DEF WalkCalls, Owes
    <2>2. TypeOK'
      BY <1>1, <1>2, <1>4, <2>1 DEF TypeOK, list
    <2> QED BY <1>1, <1>6, <1>7, <2>2 DEF IInv
  <1>8. CASE ~spoiled
    <2>1. Registry /\ Kept /\ Served
      BY <1>8 DEF IInv, Unspoiled
    <2>2. d \in Linked
      BY <1>1, <1>3, <2>1 DEF Kept
    <2>3. owed[d] = 1
      BY <1>3, <2>1, <2>2 DEF Kept
    <2>4. owed' = [owed EXCEPT ![d] = 0]
      BY <1>8, <2>3, Pays DEF WalkCalls
    <2>5. \A x \in Drivers : owed'[x] = IF x = d THEN 0 ELSE owed[x]
      BY <1>2, <2>4 DEF TypeOK
    <2>6. TypeOK'
      <3>1. owed' \in [Drivers -> -1 .. 2]
        BY <1>2, <2>4 DEF TypeOK
      <3> QED BY <1>1, <1>2, <1>4, <3>1 DEF TypeOK, list
    <2>7. d \notin Ahead'
      <3>1. Straight(next, head) /\ next \in [Drivers -> Pointer] /\ head \in Pointer
        BY <1>2, <2>1 DEF Registry, TypeOK
      <3>2. d \notin Reach(next, next[d])
        BY <2>2, <3>1, NoCycle DEF Linked
      <3> QED BY <1>1, <1>4, <3>2 DEF list
    <2>8. Registry'
      BY <1>1, <1>5, <2>1 DEF Registry, list
    <2>9. Kept'
      <3>1. \A x \in Drivers : owed'[x] \in {0, 1} /\ (owed'[x] = 1 => x \in Linked /\ x \in Ahead')
        BY <1>5, <2>1, <2>5 DEF Kept
      <3>2. \A x \in Ahead' \cap Linked : owed'[x] = 1
        BY <1>3, <1>5, <2>1, <2>5, <2>7, Facts DEF Kept
      <3>3. Ahead' \cap loaded' \subseteq Linked
        BY <1>1, <1>5, <2>1 DEF Kept, list
      <3> QED BY <1>5, <3>1, <3>2, <3>3 DEF Kept
    <2>10. Busy'
      BY <1>4 DEF Busy
    <2>11. Served'
      <3>1. Top.who = Null /\ stack[1].who = Null
        BY <1>1, Walked DEF WalkCalls
      <3>2. ASSUME NEW x \in Linked, Current(x) PROVE Current(x)'
        BY <1>4, <1>5, <3>1, <3>2, Facts DEF Current
      <3>3. Current(d)'
        BY <1>4 DEF Current
      <3> QED BY <1>1, <1>4, <1>5, <2>1, <3>2, <3>3 DEF Served
    <2> QED BY <1>6, <2>6, <2>8, <2>9, <2>10, <2>11 DEF IInv, Unspoiled
  <1> QED BY <1>7, <1>8

(* A driver that is not loaded is on the walk's way by mistake: it has     *)
(* left the list since.                                                    *)
LEMMA WalkSkipsKeeps ==
  ASSUME IInv, NEW d \in Drivers, WalkSkips(d) PROVE IInv'
  <1>1. /\ InWalk /\ Top.link = d /\ Top.who = Null /\ d \notin loaded /\ WalkOn(Null, next[d])
        /\ UNCHANGED <<drvReady, irqReady, list, lines, owed, spoiled>>
    BY DEF WalkSkips
  <1>2. TypeOK /\ Frames
    BY DEF IInv
  <1>3. /\ Ahead = {d} \cup Reach(next, next[d]) /\ next[d] \in Pointer
        /\ drvReady /\ Walking /\ stack[1].who = Null /\ \A x \in Drivers : ~Removing(x)
    BY <1>1, NextOfWalk, Walked
  <1>4. /\ stack' \in Seq(Frame) /\ Len(stack') <= MaxDepth
        /\ DOMAIN stack' = {1} /\ stack'[1] = [kind |-> "walk", who |-> Null, link |-> next[d]]
        /\ Walking' /\ Ahead' = Reach(next', next[d])
    BY <1>1, <1>3, WalksOn, Facts
  <1>5. Linked' = Linked /\ Ahead = {d} \cup Ahead'
    BY <1>1, <1>3, <1>4 DEF Linked, list
  <1>6. Frames'
    BY <1>1, <1>3, <1>4 DEF Frames
  <1>7. TypeOK'
    BY <1>1, <1>2, <1>4 DEF TypeOK, list
  <1>8. ASSUME ~spoiled' PROVE Unspoiled'
    <2>1. Registry /\ Kept /\ Served
      BY <1>1, <1>8 DEF IInv, Unspoiled
    <2>2. d \notin Linked
      BY <1>1, <2>1 DEF Registry
    <2>3. Registry'
      BY <1>1, <1>5, <2>1 DEF Registry, list
    <2>4. Kept'
      BY <1>1, <1>3, <1>5, <2>1, <2>2, Facts DEF Kept, list
    <2>5. Busy'
      BY <1>4 DEF Busy
    <2>6. Served'
      <3>1. ASSUME NEW x \in Linked, Current(x) PROVE Current(x)'
        BY <1>3, <1>5, <2>2, <3>1, Facts DEF Current
      <3> QED BY <1>1, <1>4, <1>5, <2>1, <3>1, Facts DEF Served
    <2> QED BY <2>3, <2>4, <2>5, <2>6 DEF Unspoiled
  <1> QED BY <1>6, <1>7, <1>8 DEF IInv

(* The driver whose remove returns has freed its lines.                    *)
LEMMA WalkReturnsKeeps ==
  ASSUME IInv, WalkReturns PROVE IInv'
  <1> DEFINE e == stack[1].who
             l == stack[1].link
  <1>1. /\ InWalk /\ WalkOn(Null, l) /\ lines' = Freed(e)
        /\ e \in Pointer /\ l \in Pointer /\ Walking /\ Ahead = Reach(next, l)
        /\ drvReady /\ \A x \in Drivers : ~Removing(x)
        /\ UNCHANGED <<drvReady, irqReady, list, owed, spoiled>>
    BY Walked DEF WalkReturns
  <1>2. TypeOK /\ Frames
    BY DEF IInv
  <1>3. /\ stack' \in Seq(Frame) /\ Len(stack') <= MaxDepth
        /\ DOMAIN stack' = {1} /\ stack'[1] = [kind |-> "walk", who |-> Null, link |-> l]
        /\ Walking' /\ Ahead' = Reach(next', l)
    <2> HIDE DEF e, l
    <2> QED BY <1>1, WalksOn, Facts
  <1>4. Linked' = Linked /\ Ahead = Ahead'
    BY <1>1, <1>3 DEF Linked, list
  <1>5. /\ lines' \in [Irqs -> Line]
        /\ \A i \in Irqs : lines'[i].handler => lines'[i] = lines[i] /\ lines'[i].opaque # e
    <2> HIDE DEF e, l
    <2> QED BY <1>1, <1>2, FreedLines
  <1>6. Frames'
    BY <1>1, <1>3 DEF Frames
  <1>7. TypeOK'
    BY <1>1, <1>2, <1>3, <1>5 DEF TypeOK, list
  <1>8. ASSUME ~spoiled' PROVE Unspoiled'
    <2>1. Registry /\ Kept /\ Served
      BY <1>1, <1>8 DEF IInv, Unspoiled
    <2>2. Registry'
      BY <1>1, <1>4, <2>1 DEF Registry, list
    <2>3. Kept'
      BY <1>1, <1>4, <2>1, Facts DEF Kept, list
    <2>4. Busy'
      BY <1>3 DEF Busy
    <2>5. Served'
      <3>1. ASSUME NEW x \in Linked, Current(x), x # e PROVE Current(x)'
        BY <1>4, <3>1 DEF Current
      <3> QED BY <1>3, <1>4, <1>5, <2>1, <3>1, Facts DEF Served
    <2> QED BY <2>2, <2>3, <2>4, <2>5 DEF Unspoiled
  <1> QED BY <1>6, <1>7, <1>8 DEF IInv

(* The list is dropped: nobody on it is owed a remove any more, or owns a  *)
(* line.                                                                   *)
LEMMA WalkEndsKeeps ==
  ASSUME IInv, WalkEnds PROVE IInv'
  <1>1. /\ InWalk /\ Top.who = Null /\ Top.link = Null
        /\ head' = Null /\ count' = 0 /\ ~drvReady' /\ drvReady' \in BOOLEAN /\ stack' = <<>>
        /\ UNCHANGED <<irqReady, next, loaded, lines, owed, spoiled>>
    BY DEF WalkEnds
  <1>2. TypeOK /\ next \in [Drivers -> Pointer]
    BY DEF IInv, TypeOK
  <1>3. Walking /\ stack[1].who = Null /\ Ahead = {}
    BY <1>1, <1>2, Walked, ReachNull
  <1>4. Linked' = {} /\ Ahead' = {} /\ ~Walking'
    <2>1. Reach(next, Null) = {}
      BY <1>2, ReachNull
    <2> QED BY <1>1, <2>1 DEF Linked, Ahead, Walking
  <1>5. TypeOK'
    <2>1. stack' \in Seq(Frame) /\ Len(stack') <= MaxDepth
      BY <1>1, ServicesAssumption
    <2> QED BY <1>1, <1>2, <2>1, Zeroes, Facts DEF TypeOK
  <1>6. Frames'
    BY <1>1 DEF Frames
  <1>7. ASSUME ~spoiled' PROVE Unspoiled'
    <2>1. Registry /\ Kept /\ Served
      BY <1>1, <1>7 DEF IInv, Unspoiled
    <2>2. Cardinality(Linked') = 0
      BY <1>4, FS_EmptySet
    <2>3. Straight(next', head')
      BY <1>4 DEF Straight, Linked
    <2>4. Registry'
      BY <1>1, <1>4, <2>2, <2>3 DEF Registry
    <2>5. Kept'
      BY <1>1, <1>3, <1>4, <2>1 DEF Kept
    <2>6. Busy'
      BY <1>1 DEF Busy
    <2>7. Served'
      <3>1. \A d \in Pointer : d # Null => ~Current(d)
        BY <1>3 DEF Current
      <3>2. \A i \in Irqs : lines[i].handler /\ lines[i].opaque # Null => lines[i].late
        BY <1>2, <2>1, <3>1 DEF Served, TypeOK, Line
      <3>3. UNCHANGED lines /\ DOMAIN stack' = {}
        BY <1>1
      <3> QED BY <1>4, <3>2, <3>3 DEF Served
    <2> QED BY <2>4, <2>5, <2>6, <2>7 DEF Unspoiled
  <1> QED BY <1>5, <1>6, <1>7 DEF IInv

(* The interrupts go down after the drivers.                               *)
LEMMA IrqShutdownKeeps ==
  ASSUME IInv, IrqShutdown PROVE IInv'
  <1>1. lines' = [i \in Irqs |-> Unused] /\ irqReady' = FALSE
        /\ UNCHANGED <<drvReady, list, stack, owed, spoiled>>
    BY DEF IrqShutdown
  <1>2. TypeOK'
    BY <1>1, Zeroes DEF IInv, TypeOK, list
  <1>3. Frames'
    BY <1>1 DEF IInv, Frames, list
  <1>4. Linked' = Linked /\ Ahead' = Ahead /\ (Walking' <=> Walking)
    BY <1>1 DEF Linked, Ahead, Walking, list
  <1>5. ASSUME ~spoiled' PROVE Unspoiled'
    <2>1. Registry /\ Kept /\ Busy /\ Served
      BY <1>1, <1>5 DEF IInv, Unspoiled
    <2>2. Registry' /\ Kept' /\ Busy'
      BY <1>1, <1>4, <2>1 DEF Registry, Kept, Busy, Removing, list
    <2>3. Served'
      BY <1>1, <1>4, <2>1 DEF Served, Current, Unused
    <2> QED BY <2>2, <2>3 DEF Unspoiled
  <1> QED BY <1>2, <1>3, <1>5 DEF IInv

(* A line is requested by a driver that the walk has yet to come to, or is *)
(* removing, or by nobody, or late; or it is freed.                        *)
LEMMA LinesChange ==
  ASSUME IInv, NEW i \in Irqs, NEW new \in Line,
         lines' = [lines EXCEPT ![i] = new],
         ~spoiled /\ new.handler /\ new.opaque # Null =>
           /\ new.late \/ new.opaque \in Linked
           /\ new.opaque \in Linked => Current(new.opaque),
         UNCHANGED <<drvReady, irqReady, list, stack, owed, spoiled>>
  PROVE  IInv'
  <1>1. lines \in [Irqs -> Line] /\ \A j \in Irqs : lines'[j] = IF j = i THEN new ELSE lines[j]
    BY DEF IInv, TypeOK
  <1>2. TypeOK'
    BY <1>1 DEF IInv, TypeOK, list
  <1>3. Frames'
    BY DEF IInv, Frames, list
  <1>4. Linked' = Linked /\ Ahead' = Ahead /\ (Walking' <=> Walking)
    BY DEF Linked, Ahead, Walking, list
  <1>5. ASSUME ~spoiled' PROVE Unspoiled'
    <2>1. Registry /\ Kept /\ Busy /\ Served /\ ~spoiled
      BY <1>5 DEF IInv, Unspoiled
    <2>2. Registry' /\ Kept' /\ Busy'
      BY <1>4, <2>1 DEF Registry, Kept, Busy, Removing, list
    <2>3. Served'
      BY <1>1, <1>4, <2>1 DEF Served, Current
    <2> QED BY <2>2, <2>3 DEF Unspoiled
  <1> QED BY <1>2, <1>3, <1>5 DEF IInv

(* Who may call is registered and not left behind.                         *)
LEMMA Callers ==
  ASSUME IInv, Calls, NEW d \in Linked, For(d) PROVE Current(d)
  <1>1. Kept /\ Served
    BY DEF IInv, Unspoiled, Calls
  <1>2. CASE stack = <<>>
    <2>1. ~Walking
      BY <1>2, Facts
    <2> QED BY <2>1 DEF Current, Ahead
  <1>3. CASE stack # <<>>
    BY <1>1, <1>3, Facts DEF For, Served, Top
  <1> QED BY <1>2, <1>3

(* baios_irq_request.                                                      *)
LEMMA IrqRequestKeeps ==
  ASSUME IInv, NEW i \in Irqs, NEW d \in Pointer, NEW shared \in BOOLEAN, IrqRequest(i, d, shared)
  PROVE  IInv'
  <1> DEFINE new == [handler |-> TRUE, opaque |-> d, late |-> d \notin Linked \cup {Null}]
  <1>1. new \in Line /\ new.opaque = d /\ (d # Null => new.late \/ d \in Linked)
    <2>1. (d \notin Linked \cup {Null}) \in BOOLEAN
      OBVIOUS
    <2> QED BY <2>1 DEF Line
  <1>2. d \in Linked => Current(d)
    BY Callers DEF IrqRequest
  <1>3. /\ lines' = [lines EXCEPT ![i] = new]
        /\ UNCHANGED <<drvReady, irqReady, list, stack, owed, spoiled>>
    BY DEF IrqRequest
  <1> HIDE DEF new
  <1> QED BY <1>1, <1>2, <1>3, LinesChange

(* baios_irq_free.                                                         *)
LEMMA IrqFreeKeeps ==
  ASSUME IInv, NEW i \in Irqs, NEW d \in Pointer, IrqFree(i, d) PROVE IInv'
  <1>1. Unused \in Line /\ ~Unused.handler
    BY DEF Unused, Line, Pointer
  <1>2. /\ lines' = [lines EXCEPT ![i] = Unused]
        /\ UNCHANGED <<drvReady, irqReady, list, stack, owed, spoiled>>
    BY DEF IrqFree
  <1> QED BY <1>1, <1>2, LinesChange

(* The owner of a line is called back.                                     *)
LEMMA IrqDispatchKeeps ==
  ASSUME IInv, NEW i \in Irqs, IrqDispatch(i) PROVE IInv'
  <1> DEFINE d == lines[i].opaque
  <1>1. /\ drvReady /\ ~spoiled /\ lines[i].handler /\ Call("handler", d, Null)
        /\ UNCHANGED <<drvReady, irqReady, list, lines, owed, spoiled>>
    BY DEF IrqDispatch, Calls
  <1>2. TypeOK /\ Frames /\ Registry /\ Kept /\ Busy /\ Served
    BY <1>1 DEF IInv, Unspoiled
  <1>3. d \in Pointer /\ (d \in Linked => Current(d))
    <2>1. Null \notin Linked
      BY ReachSub, ServicesAssumption DEF Linked
    <2> QED BY <1>1, <1>2, <2>1 DEF TypeOK, Line, Served
  <1> HIDE DEF d
  <1>4. /\ stack' \in Seq(Frame) /\ Len(stack') <= MaxDepth
        /\ DOMAIN stack' = DOMAIN stack \cup {Len(stack) + 1}
        /\ \A k \in DOMAIN stack : stack'[k] = stack[k]
        /\ stack'[Len(stack) + 1] = [kind |-> "handler", who |-> d, link |-> Null]
        /\ Walking' <=> Walking
        /\ Walking => stack'[1] = stack[1]
    BY <1>1, <1>3, Pushed, Facts
  <1>5. Linked' = Linked /\ Ahead' = Ahead
    BY <1>1, <1>4 DEF Linked, Ahead, list
  <1>6. TypeOK'
    BY <1>1, <1>2, <1>4 DEF TypeOK, list
  <1>7. Frames'
    BY <1>1, <1>2, <1>4 DEF Frames, list
  <1>8. Registry'
    BY <1>1, <1>2, <1>5 DEF Registry, list
  <1>9. Kept'
    <2>1. ASSUME NEW x \in Drivers, Removing(x) PROVE Removing(x)'
      BY <1>4, <2>1 DEF Removing
    <2> QED BY <1>1, <1>2, <1>5, <2>1, Facts DEF Kept, list
  <1>10. Busy'
    BY <1>1, <1>2, <1>4, <1>5 DEF Busy
  <1>11. Served'
    BY <1>1, <1>2, <1>3, <1>4, <1>5, Facts DEF Served, Current
  <1> QED BY <1>6, <1>7, <1>8, <1>9, <1>10, <1>11 DEF IInv, Unspoiled

------------------------------------------------------------------------------
(* The theorems.                                                           *)

(* Every step, and every callback inside a callback, keeps the invariant.  *)
LEMMA NextKeeps ==
  ASSUME IInv, [Next]_vars PROVE IInv'
  <1>1. CASE HwInit
    BY <1>1, HwInitKeeps
  <1>2. CASE ShutdownBegins
    BY <1>2, ShutdownBeginsKeeps
  <1>3. CASE IrqShutdown
    BY <1>3, IrqShutdownKeeps
  <1>4. CASE CallbackReturns
    BY <1>4, ProbeReturnsKeeps, RemoveReturnsKeeps, WalkReturnsKeeps DEF CallbackReturns
  <1>5. CASE WalkSteps
    BY <1>5, WalkCallsKeeps, WalkSkipsKeeps, WalkEndsKeeps DEF WalkSteps
  <1>6. CASE \E d \in Drivers : Register(d) \/ Unregister(d)
    BY <1>6, RegisterKeeps, UnregisterKeeps
  <1>7. CASE \E i \in Irqs : \/ IrqDispatch(i)
                             \/ \E d \in Pointer :
                                  IrqFree(i, d) \/ \E shared \in BOOLEAN : IrqRequest(i, d, shared)
    BY <1>7, IrqDispatchKeeps, IrqFreeKeeps, IrqRequestKeeps
  <1>8. CASE UNCHANGED vars
    BY <1>8, StutterKeeps
  <1> QED BY <1>1, <1>2, <1>3, <1>4, <1>5, <1>6, <1>7, <1>8 DEF Next

(* The invariant holds for every number of drivers, of lines and of        *)
(* callbacks inside one another.                                           *)
THEOREM Invariance == Spec => []IInv
  <1>1. IInv /\ [Next]_vars => IInv'
    BY NextKeeps
  <1> QED BY <1>1, InitIInv, PTL DEF Spec

(* The registry, the lines and the stack keep their types: the list never  *)
(* runs into anything but drivers and NULL, whatever a callback did to it, *)
(* and callbacks are no deeper inside one another than the bound.          *)
THEOREM TypeCorrect == Spec => []TypeOK
  <1>1. IInv => TypeOK
    BY DEF IInv
  <1> QED BY <1>1, Invariance, PTL

(* driver_compat.c:54-57, 83-85: g_driver_count is the length of the list, *)
(* so it never wraps, and what is on the list is loaded, in the middle of  *)
(* a callback too.                                                         *)
THEOREM RegistryCounted == Spec => []RegistryExact
  <1>1. IInv => RegistryExact
    BY DEF IInv, Unspoiled, Registry, RegistryExact
  <1> QED BY <1>1, Invariance, PTL

(* Until a callback spoils the list (what does is named where the          *)
(* properties of HwServices are stated; one of them is unregistering a     *)
(* driver whose remove was called already), every registration is followed *)
(* by one remove and no more, by whichever of unregister and shutdown      *)
(* comes first; and a driver whose remove an unregister could call again   *)
(* is in that remove, or in a shutdown.                                    *)
THEOREM OneRemove == Spec => []RemovedOnce
  <1>1. ASSUME IInv, ~spoiled, NEW d \in Drivers
        PROVE  /\ owed[d] \in {0, 1}
               /\ owed[d] = 1 => d \in Linked
               /\ d \in Linked /\ owed[d] = 0 => Removing(d) \/ Walking
    <2>1. Kept
      BY <1>1 DEF IInv, Unspoiled
    <2>2. ASSUME ~Walking PROVE Ahead = Linked
      BY <2>2 DEF Ahead
    <2> QED BY <2>1, <2>2 DEF Kept
  <1>2. IInv => RemovedOnce
    BY <1>1 DEF RemovedOnce
  <1> QED BY <1>2, Invariance, PTL

(* Until a callback spoils the list, no interrupt is delivered to a driver *)
(* that is gone, on no line but one that was requested for it after it was *)
(* gone.                                                                   *)
THEOREM OwnersRegistered == Spec => []HandlersOwned
  <1>1. IInv => HandlersOwned
    BY DEF IInv, Unspoiled, Served, HandlersOwned
  <1> QED BY <1>1, Invariance, PTL
=============================================================================
