------------------------- MODULE ZeroCopyRing_proofs -------------------------
(***************************************************************************)
(* For every number of slots, every way of cutting a message into pieces   *)
(* and every set of words: the ring of zero_copy.c keeps its types, never  *)
(* lets both threads into one slot, never publishes into a full ring, and  *)
(* implements the bounded queue of whole messages.                         *)
(***************************************************************************)
EXTENDS ZeroCopyRing, SequenceTheorems, TLAPS

(* Index arithmetic never goes past two turns of the ring, so "% Capacity" *)
(* is at most one subtraction.                                             *)
LEMMA WrapOnce ==
  ASSUME NEW a \in 0 .. 2 * Capacity - 1
  PROVE  a % Capacity = IF a < Capacity THEN a ELSE a - Capacity
  <1>1. Capacity \in Nat /\ Capacity > 0
    BY CapacityAssumption
  <1>2. CASE a < Capacity
    BY <1>1, <1>2
  <1>3. CASE a >= Capacity
    BY <1>1, <1>3
  <1> QED BY <1>1, <1>2, <1>3

LEMMA SuccWraps ==
  ASSUME NEW i \in Index
  PROVE  /\ Succ(i) \in Index
         /\ Succ(i) = IF i = Capacity - 1 THEN 0 ELSE i + 1
  <1> DEFINE a == i + 1
  <1>1. a \in 0 .. 2 * Capacity - 1
    BY CapacityAssumption DEF Index
  <1> HIDE DEF a
  <1>2. a % Capacity = IF a < Capacity THEN a ELSE a - Capacity
    BY <1>1, WrapOnce
  <1> QED BY <1>2, CapacityAssumption DEF Succ, Index, a

LEMMA DistanceWraps ==
  ASSUME NEW t \in Index, NEW h \in Index
  PROVE  /\ Distance(t, h) \in Index
         /\ Distance(t, h) = IF h >= t THEN h - t ELSE h - t + Capacity
  <1>1. h - t + Capacity \in 0 .. 2 * Capacity - 1
    BY CapacityAssumption DEF Index
  <1>2. Distance(t, h) = IF h - t + Capacity < Capacity
                           THEN h - t + Capacity ELSE h - t
    BY <1>1, WrapOnce, CapacityAssumption DEF Distance, Index
  <1> QED BY <1>2, CapacityAssumption DEF Index

(* The k-th slot from t on, for any k the ring has room for. *)
LEMMA PlaceWraps ==
  ASSUME NEW t \in Index, NEW k \in 1 .. Capacity
  PROVE  /\ (t + k - 1) % Capacity \in Index
         /\ (t + k - 1) % Capacity = IF t + k - 1 < Capacity
                                       THEN t + k - 1 ELSE t + k - 1 - Capacity
  <1> DEFINE a == t + k - 1
  <1>1. a \in 0 .. 2 * Capacity - 1
    BY CapacityAssumption DEF Index
  <1> HIDE DEF a
  <1>2. a % Capacity = IF a < Capacity THEN a ELSE a - Capacity
    BY <1>1, WrapOnce
  <1> QED BY <1>2, CapacityAssumption DEF Index, a

(* Moving either end by one: a ring whose head is about to meet its tail   *)
(* holds Capacity - 1 messages; storing head adds one, storing tail takes  *)
(* one away.                                                               *)
LEMMA DistanceMoves ==
  ASSUME NEW t \in Index, NEW h \in Index
  PROVE  /\ Succ(h) = t => Distance(t, h) = Capacity - 1
         /\ Succ(h) # t => /\ Distance(t, h) + 1 \in Index
                           /\ Distance(t, Succ(h)) = Distance(t, h) + 1
         /\ t # h => /\ Distance(t, h) > 0
                     /\ Distance(t, h) - 1 \in Index
                     /\ Distance(Succ(t), h) = Distance(t, h) - 1
  <1> DEFINE a == Succ(h)
             b == Succ(t)
             n == Distance(t, h)
             x == Distance(t, a)
             y == Distance(b, h)
  <1>1. a \in Index /\ a = IF h = Capacity - 1 THEN 0 ELSE h + 1
    BY SuccWraps
  <1>2. b \in Index /\ b = IF t = Capacity - 1 THEN 0 ELSE t + 1
    BY SuccWraps
  <1>3. n \in Index /\ n = IF h >= t THEN h - t ELSE h - t + Capacity
    BY DistanceWraps
  <1>4. x \in Index /\ x = IF a >= t THEN a - t ELSE a - t + Capacity
    BY <1>1, DistanceWraps
  <1>5. y \in Index /\ y = IF h >= b THEN h - b ELSE h - b + Capacity
    BY <1>2, DistanceWraps
  <1> HIDE DEF a, b, n, x, y
  <1>6. a = t => n = Capacity - 1
    BY <1>1, <1>3, CapacityAssumption DEF Index
  <1>7. a # t => n + 1 \in Index /\ x = n + 1
    BY <1>1, <1>3, <1>4, CapacityAssumption DEF Index
  <1>8. t # h => n > 0 /\ n - 1 \in Index /\ y = n - 1
    BY <1>2, <1>3, <1>5, CapacityAssumption DEF Index
  <1> QED BY <1>6, <1>7, <1>8 DEF a, b, n, x, y

(* Counting the readable slots from tail on leads to head. *)
LEMMA DistanceReaches ==
  ASSUME NEW t \in Index, NEW h \in Index
  PROVE  (t + Distance(t, h)) % Capacity = h
  <1> DEFINE a == t + Distance(t, h)
  <1>1. /\ Distance(t, h) \in Index
        /\ Distance(t, h) = IF h >= t THEN h - t ELSE h - t + Capacity
    BY DistanceWraps
  <1>2. /\ a \in 0 .. 2 * Capacity - 1
        /\ a = h \/ a = h + Capacity
    BY <1>1, CapacityAssumption DEF Index
  <1> HIDE DEF a
  <1>3. a % Capacity = IF a < Capacity THEN a ELSE a - Capacity
    BY <1>2, WrapOnce
  <1>4. a % Capacity = h
    BY <1>2, <1>3, CapacityAssumption DEF Index
  <1> QED BY <1>4 DEF a

------------------------------------------------------------------------------
(* What a stretch of slots reads as. *)
LEMMA ContentsIsSeq ==
  ASSUME NEW s \in [Index -> Message], NEW t \in Index, NEW n \in Index
  PROVE  /\ Contents(s, t, n) \in Seq(Message)
         /\ Len(Contents(s, t, n)) = n
         /\ \A k \in 1 .. n : Contents(s, t, n)[k] = s[(t + k - 1) % Capacity]
  <1>1. n \in Nat /\ 1 .. n \subseteq 1 .. Capacity
    BY CapacityAssumption DEF Index
  <1>2. \A k \in 1 .. n : s[(t + k - 1) % Capacity] \in Message
    BY <1>1, PlaceWraps
  <1>3. Contents(s, t, n) \in [1 .. n -> Message]
    BY <1>2 DEF Contents
  <1>4. Contents(s, t, n) \in Seq(Message) /\ Len(Contents(s, t, n)) = n
    BY <1>1, <1>3
  <1> QED BY <1>4 DEF Contents

(* Storing into a slot outside the stretch does not change what it reads.  *)
LEMMA ContentsFrame ==
  ASSUME NEW s \in [Index -> Message], NEW r \in [Index -> Message],
         NEW t \in Index, NEW n \in Index,
         \A k \in 1 .. n : r[(t + k - 1) % Capacity] = s[(t + k - 1) % Capacity]
  PROVE  Contents(r, t, n) = Contents(s, t, n)
  BY DEF Contents

LEMMA ContentsGrows ==
  ASSUME NEW s \in [Index -> Message], NEW t \in Index, NEW n \in Index,
         n + 1 \in Index
  PROVE  Contents(s, t, n + 1)
           = Append(Contents(s, t, n), s[(t + n) % Capacity])
  <1> DEFINE c == Contents(s, t, n)
             d == Contents(s, t, n + 1)
             m == s[(t + n) % Capacity]
  <1>1. n \in Nat /\ n + 1 \in 1 .. Capacity /\ t + (n + 1) - 1 = t + n
    BY CapacityAssumption DEF Index
  <1>2. m \in Message
    BY <1>1, PlaceWraps
  <1>3. /\ c \in Seq(Message) /\ Len(c) = n
        /\ \A k \in 1 .. n : c[k] = s[(t + k - 1) % Capacity]
    BY ContentsIsSeq
  <1>4. /\ d \in Seq(Message) /\ Len(d) = n + 1
        /\ \A k \in 1 .. n + 1 : d[k] = s[(t + k - 1) % Capacity]
    BY ContentsIsSeq
  <1>5. /\ Append(c, m) \in Seq(Message) /\ Len(Append(c, m)) = n + 1
        /\ \A k \in 1 .. n : Append(c, m)[k] = c[k]
        /\ Append(c, m)[n + 1] = m
    BY <1>1, <1>2, <1>3, AppendProperties
  <1>6. \A k \in 1 .. n + 1 : d[k] = Append(c, m)[k]
    <2> SUFFICES ASSUME NEW k \in 1 .. n + 1 PROVE d[k] = Append(c, m)[k]
      OBVIOUS
    <2>1. CASE k = n + 1
      BY <1>1, <1>4, <1>5, <2>1
    <2>2. CASE k # n + 1
      <3>1. k \in 1 .. n
        BY <1>1, <2>2
      <3> QED BY <1>3, <1>4, <1>5, <3>1
    <2> QED BY <2>1, <2>2
  <1>7. d = Append(c, m)
    BY <1>4, <1>5, <1>6, SeqEqual
  <1> QED BY <1>7

LEMMA ContentsShrinks ==
  ASSUME NEW s \in [Index -> Message], NEW t \in Index,
         NEW n \in Index, n > 0
  PROVE  /\ Contents(s, t, n) # <<>>
         /\ Head(Contents(s, t, n)) = s[t]
         /\ Tail(Contents(s, t, n)) = Contents(s, Succ(t), n - 1)
  <1> DEFINE c == Contents(s, t, n)
             d == Contents(s, Succ(t), n - 1)
  <1>1. /\ n \in Nat /\ n - 1 \in Index /\ Succ(t) \in Index
        /\ 1 \in 1 .. n /\ 1 .. n \subseteq 1 .. Capacity
    BY CapacityAssumption, SuccWraps DEF Index
  <1>2. /\ c \in Seq(Message) /\ Len(c) = n
        /\ \A k \in 1 .. n : c[k] = s[(t + k - 1) % Capacity]
    BY ContentsIsSeq
  <1>3. /\ d \in Seq(Message) /\ Len(d) = n - 1
        /\ \A k \in 1 .. n - 1 : d[k] = s[(Succ(t) + k - 1) % Capacity]
    BY <1>1, ContentsIsSeq
  <1>4. c # <<>>
    BY <1>1, <1>2
  <1>5. /\ Tail(c) \in Seq(Message) /\ Len(Tail(c)) = n - 1
        /\ \A k \in 1 .. n - 1 : Tail(c)[k] = c[k + 1]
    BY <1>2, <1>4, HeadTailProperties
  <1>6. Head(c) = s[t]
    <2>1. (t + 1 - 1) % Capacity = t
      BY PlaceWraps, CapacityAssumption DEF Index
    <2>2. c[1] = s[t]
      BY <1>1, <1>2, <2>1
    <2> QED BY <1>2, <1>4, <2>2
  <1>7. \A k \in 1 .. n - 1 : Tail(c)[k] = d[k]
    <2> SUFFICES ASSUME NEW k \in 1 .. n - 1 PROVE Tail(c)[k] = d[k]
      OBVIOUS
    <2>1. k \in 1 .. Capacity /\ k + 1 \in 1 .. Capacity /\ k + 1 \in 1 .. n
      BY <1>1, CapacityAssumption DEF Index
    <2>2. (Succ(t) + k - 1) % Capacity = (t + (k + 1) - 1) % Capacity
      <3> DEFINE u == Succ(t)
                 j == k + 1
      <3>1. u = IF t = Capacity - 1 THEN 0 ELSE t + 1
        BY SuccWraps
      <3>2. u \in Index /\ j \in 1 .. Capacity
        BY <1>1, <2>1
      <3> HIDE DEF u, j
      <3>3. (u + k - 1) % Capacity = IF u + k - 1 < Capacity
                                      THEN u + k - 1 ELSE u + k - 1 - Capacity
        BY <2>1, <3>2, PlaceWraps
      <3>4. (t + j - 1) % Capacity = IF t + j - 1 < Capacity
                                      THEN t + j - 1 ELSE t + j - 1 - Capacity
        BY <2>1, <3>2, PlaceWraps
      <3>5. j = k + 1
        BY DEF j
      <3>6. (u + k - 1) % Capacity = (t + j - 1) % Capacity
        BY <2>1, <3>1, <3>2, <3>3, <3>4, <3>5, CapacityAssumption DEF Index
      <3> QED BY <3>6 DEF u, j
    <2> QED BY <1>2, <1>3, <1>5, <2>1, <2>2
  <1>8. Tail(c) = d
    BY <1>3, <1>5, <1>7, SeqEqual
  <1> QED BY <1>4, <1>6, <1>8

------------------------------------------------------------------------------
(* The inductive invariant.  What each thread found when it looked at the  *)
(* other's index still holds when it acts on it, and what it has copied so *)
(* far agrees with the slot it copies into or out of.                      *)
Filling == sender = "copying" =>
             /\ Succ(head) # tail
             /\ \A p \in Part \ unwritten : slots[head][p] = msg[p]

Draining == receiver = "copying" =>
              /\ head # tail
              /\ \A p \in Part \ unread : out[p] = slots[tail][p]

IInv == TypeOK /\ Filling /\ Draining

LEMMA InitInv == Init => IInv
  <1> SUFFICES ASSUME Init PROVE IInv
    OBVIOUS
  <1>1. 0 \in Index /\ Blank \in Message
    BY CapacityAssumption, WordAssumption DEF Index, Message, Blank
  <1>2. TypeOK
    BY <1>1 DEF Init, TypeOK
  <1> QED BY <1>2 DEF Init, IInv, Filling, Draining

LEMMA StepInv == IInv /\ [Next]_vars => IInv'
  <1> SUFFICES ASSUME IInv, [Next]_vars PROVE IInv'
    OBVIOUS
  <1> USE DEF IInv
  <1>0. /\ Succ(head) \in Index /\ Succ(tail) \in Index
        /\ head \in Index /\ tail \in Index
    BY SuccWraps DEF TypeOK
  <1>1. CASE \E m \in Message : Send(m)
    BY <1>1 DEF Send, TypeOK, Filling, Draining, ringVars, receiverVars
  <1>2. CASE PushOverflow
    BY <1>2 DEF PushOverflow, TypeOK, Filling, Draining, ringVars, receiverVars
  <1>3. CASE PushBegin
    BY <1>3 DEF PushBegin, RingFull, TypeOK, Filling, Draining, ringVars,
                receiverVars
  <1>4. ASSUME NEW p \in Part, PushCopy(p) PROVE IInv'
    <2>1. slots' \in [Index -> Message]
      BY <1>0, <1>4 DEF PushCopy, TypeOK, Message
    <2>2. TypeOK'
      BY <1>4, <2>1 DEF PushCopy, TypeOK, receiverVars
    <2>3. Filling'
      <3>1. slots'[head] = [slots[head] EXCEPT ![p] = msg[p]]
        BY <1>0, <1>4 DEF PushCopy, TypeOK
      <3>2. slots[head] \in Message
        BY <1>0 DEF TypeOK
      <3>3. \A q \in Part : slots'[head][q] = IF q = p THEN msg[p] ELSE slots[head][q]
        BY <3>1, <3>2 DEF Message
      <3> QED BY <1>4, <3>3 DEF PushCopy, Filling, receiverVars
    <2>4. Draining'
      <3>1. head # tail => slots'[tail] = slots[tail]
        BY <1>0, <1>4 DEF PushCopy, TypeOK
      <3> QED BY <1>4, <3>1 DEF PushCopy, Draining, receiverVars
    <2> QED BY <2>2, <2>3, <2>4
  <1>5. CASE PushPublish
    <2>1. TypeOK' /\ Filling'
      BY <1>0, <1>5 DEF PushPublish, TypeOK, Filling, receiverVars
    <2>2. Draining'
      BY <1>5 DEF PushPublish, Filling, Draining, receiverVars
    <2> QED BY <2>1, <2>2
  <1>6. CASE PopUnderflow
    BY <1>6 DEF PopUnderflow, TypeOK, Filling, Draining, vars
  <1>7. CASE PopBegin
    BY <1>7 DEF PopBegin, RingEmpty, TypeOK, Filling, Draining, ringVars,
                senderVars
  <1>8. ASSUME NEW p \in Part, PopCopy(p) PROVE IInv'
    <2>1. slots[tail] \in Message
      BY <1>0 DEF TypeOK
    <2>2. out' \in Message
      BY <1>8, <2>1 DEF PopCopy, TypeOK, Message
    <2>3. TypeOK' /\ Filling'
      BY <1>8, <2>2 DEF PopCopy, TypeOK, Filling, ringVars, senderVars
    <2>4. \A q \in Part : out'[q] = IF q = p THEN slots[tail][p] ELSE out[q]
      BY <1>8 DEF PopCopy, TypeOK, Message
    <2>5. Draining'
      BY <1>8, <2>4 DEF PopCopy, Draining, ringVars
    <2> QED BY <2>3, <2>5
  <1>9. CASE PopRelease
    <2>1. TypeOK' /\ Draining'
      BY <1>0, <1>9 DEF PopRelease, TypeOK, Draining, ringVars, senderVars
    <2>2. Filling'
      (* Succ(head) # Succ(tail): the consumer does not pass the producer. *)
      <3>1. receiver = "copying" => head # tail
        BY DEF Draining
      <3>2. Succ(head) # Succ(tail)
        BY <1>0, <1>9, <3>1, SuccWraps DEF PopRelease, Index
      <3> QED BY <1>9, <3>2 DEF PopRelease, Filling, senderVars
    <2> QED BY <2>1, <2>2
  <1>10. CASE UNCHANGED vars
    BY <1>10 DEF vars, TypeOK, Filling, Draining
  <1> QED BY <1>1, <1>2, <1>3, <1>4, <1>5, <1>6, <1>7, <1>8, <1>9, <1>10
          DEF Next, Push, Pop

(* The state of the ring and of its two threads keeps its types.           *)
THEOREM TypeCorrect == Spec => []TypeOK
  <1>1. IInv => TypeOK
    BY DEF IInv
  <1> QED BY <1>1, InitInv, StepInv, PTL DEF Spec, Safety

(* Whatever the number of slots, ring_push and ring_pop are never inside   *)
(* the same slot, and a push that saw room still has it when it stores     *)
(* head (zero_copy.c:46-65).                                               *)
THEOREM RingIsRaceFree == Spec => [](NoSharedSlot /\ RoomToPublish)
  <1>1. IInv => NoSharedSlot /\ RoomToPublish
    BY DEF IInv, Filling, Draining, NoSharedSlot, RoomToPublish
  <1> QED BY <1>1, InitInv, StepInv, PTL DEF Spec, Safety

------------------------------------------------------------------------------
(* The bounded queue.  Each step of the ring is one of its steps: a push   *)
(* accepts where head is stored and refuses where the ring is found full,  *)
(* a pop takes where tail is stored, and everything else changes nothing   *)
(* that the queue can see.                                                 *)
Offered == IF sender = "idle" THEN {} ELSE {msg}

(* The slot being filled is none of the readable ones. *)
LEMMA HeadIsNotReadable ==
  ASSUME TypeOK, NEW k \in 1 .. Distance(tail, head)
  PROVE  /\ (tail + k - 1) % Capacity \in Index
         /\ (tail + k - 1) % Capacity # head
  <1>1. head \in Index /\ tail \in Index
    BY DEF TypeOK
  <1>2. /\ Distance(tail, head) \in Index
        /\ Distance(tail, head) = IF head >= tail THEN head - tail
                                                 ELSE head - tail + Capacity
    BY <1>1, DistanceWraps
  <1>3. k \in 1 .. Capacity
    BY <1>2, CapacityAssumption DEF Index
  <1>4. /\ (tail + k - 1) % Capacity \in Index
        /\ (tail + k - 1) % Capacity = IF tail + k - 1 < Capacity
                                         THEN tail + k - 1
                                         ELSE tail + k - 1 - Capacity
    BY <1>1, <1>3, PlaceWraps
  <1> QED BY <1>1, <1>2, <1>4, CapacityAssumption DEF Index

LEMMA InitMaps == Init => Fifo!Init
  <1> SUFFICES ASSUME Init PROVE Fifo!Init
    OBVIOUS
  <1>1. /\ 0 \in Index /\ Blank \in Message
        /\ slots \in [Index -> Message] /\ head = 0 /\ tail = 0
    BY CapacityAssumption, WordAssumption DEF Init, Index, Message, Blank
  <1>2. Distance(0, 0) = 0
    BY <1>1, DistanceWraps
  <1>3. Waiting \in Seq(Message) /\ Len(Waiting) = 0
    BY <1>1, <1>2, ContentsIsSeq DEF Waiting
  <1>4. Waiting = <<>>
    BY <1>3, EmptySeq
  <1> QED BY <1>1, <1>4 DEF Init, Fifo!Init

LEMMA StepMaps == IInv /\ IInv' /\ [Next]_vars => [Fifo!Next]_(Fifo!vars)
  <1> SUFFICES ASSUME IInv, IInv', [Next]_vars
               PROVE  [Fifo!Next]_(Fifo!vars)
    OBVIOUS
  <1> DEFINE n == Distance(tail, head)
  <1>0. /\ head \in Index /\ tail \in Index
        /\ slots \in [Index -> Message] /\ msg \in Message
        /\ sender \in {"idle", "checking", "copying"}
        /\ Succ(head) \in Index /\ Succ(tail) \in Index
        /\ n \in Index
        /\ n = IF head >= tail THEN head - tail ELSE head - tail + Capacity
    BY SuccWraps, DistanceWraps DEF IInv, TypeOK
  <1>W. Waiting = Contents(slots, tail, n) /\ Len(Waiting) = n
    BY <1>0, ContentsIsSeq DEF Waiting
  <1>S. ASSUME UNCHANGED <<Waiting, Offered, received>>
        PROVE  [Fifo!Next]_(Fifo!vars)
    BY <1>S DEF Fifo!vars, Offered
  <1>1. ASSUME NEW m \in Message, Send(m) PROVE [Fifo!Next]_(Fifo!vars)
    <2>1. UNCHANGED <<Waiting, received>>
      BY <1>1 DEF Send, ringVars, receiverVars, Waiting
    <2>2. Fifo!Offer(m)
      BY <1>1, <2>1 DEF Send, Fifo!Offer
    <2> QED BY <1>1, <2>2 DEF Fifo!Next
  <1>2. CASE PushOverflow
    <2>1. UNCHANGED <<Waiting, received>>
      BY <1>2 DEF PushOverflow, ringVars, receiverVars, Waiting
    <2>2. n = Capacity - 1
      BY <1>0, <1>2, DistanceMoves DEF PushOverflow, RingFull
    <2>3. Fifo!Refuse(msg)
      BY <1>W, <1>2, <2>1, <2>2 DEF PushOverflow, Fifo!Refuse
    <2> QED BY <1>0, <2>3 DEF Fifo!Next, Fifo!Answer
  <1>3. CASE PushBegin
    BY <1>S, <1>3 DEF PushBegin, ringVars, receiverVars, Waiting, Offered
  <1>4. ASSUME NEW p \in Part, PushCopy(p) PROVE [Fifo!Next]_(Fifo!vars)
    <2>1. slots' \in [Index -> Message] /\ head' = head /\ tail' = tail
      BY <1>4 DEF PushCopy, IInv, TypeOK
    <2>2. \A k \in 1 .. n : slots'[(tail + k - 1) % Capacity]
                               = slots[(tail + k - 1) % Capacity]
      BY <1>0, <1>4, HeadIsNotReadable DEF PushCopy, IInv
    <2>3. Contents(slots', tail, n) = Contents(slots, tail, n)
      BY <1>0, <2>1, <2>2, ContentsFrame
    <2>4. Waiting' = Waiting
      BY <2>1, <2>3 DEF Waiting
    <2> QED BY <1>S, <1>4, <2>4 DEF PushCopy, receiverVars, Offered
  <1>5. CASE PushPublish
    <2>1. /\ head' = Succ(head) /\ UNCHANGED <<tail, slots, received>>
          /\ sender = "copying" /\ sender' = "idle"
      BY <1>5 DEF PushPublish, receiverVars
    <2>2. Succ(head) # tail
      BY <2>1 DEF IInv, Filling
    <2>3. n + 1 \in Index /\ Distance(tail, Succ(head)) = n + 1
      BY <1>0, <2>2, DistanceMoves
    <2>4. (tail + n) % Capacity = head
      BY <1>0, DistanceReaches
    <2>5. slots[head] = msg
      BY <1>0, <1>5 DEF PushPublish, IInv, Filling, Message
    <2>6. Waiting' = Contents(slots, tail, n + 1)
      BY <2>1, <2>3 DEF Waiting
    <2>7. Waiting' = Append(Waiting, msg)
      BY <1>0, <1>W, <2>3, <2>4, <2>5, <2>6, ContentsGrows
    <2>8. Len(Waiting) < Capacity - 1
      BY <1>0, <1>W, <2>3, CapacityAssumption DEF Index
    <2>9. Fifo!Accept(msg)
      BY <2>1, <2>7, <2>8 DEF Fifo!Accept
    <2> QED BY <1>0, <2>9 DEF Fifo!Next, Fifo!Answer
  <1>6. CASE PopUnderflow
    BY <1>S, <1>6 DEF PopUnderflow, vars, Waiting, Offered
  <1>7. CASE PopBegin
    BY <1>S, <1>7 DEF PopBegin, ringVars, senderVars, Waiting, Offered
  <1>8. ASSUME NEW p \in Part, PopCopy(p) PROVE [Fifo!Next]_(Fifo!vars)
    BY <1>S, <1>8 DEF PopCopy, ringVars, senderVars, Waiting, Offered
  <1>9. CASE PopRelease
    <2>1. /\ tail' = Succ(tail) /\ UNCHANGED <<head, slots, sender, msg>>
          /\ received' = out
      BY <1>9 DEF PopRelease, senderVars
    <2>2. head # tail /\ out = slots[tail]
      BY <1>0, <1>9 DEF PopRelease, IInv, Draining, TypeOK, Message
    <2>3. n > 0 /\ n - 1 \in Index /\ Distance(Succ(tail), head) = n - 1
      BY <1>0, <2>2, DistanceMoves
    <2>4. Waiting' = Contents(slots, Succ(tail), n - 1)
      BY <2>1, <2>3 DEF Waiting
    <2>5. Waiting # <<>> /\ Head(Waiting) = out /\ Tail(Waiting) = Waiting'
      BY <1>0, <1>W, <2>2, <2>3, <2>4, ContentsShrinks
    <2>6. Fifo!Take
      BY <2>1, <2>5 DEF Fifo!Take
    <2> QED BY <2>6 DEF Fifo!Next
  <1>10. CASE UNCHANGED vars
    BY <1>S, <1>10 DEF vars, Waiting, Offered
  <1> QED BY <1>1, <1>2, <1>3, <1>4, <1>5, <1>6, <1>7, <1>8, <1>9, <1>10
          DEF Next, Push, Pop

(* For every Capacity, Part and Word the ring of zero_copy.c implements    *)
(* the bounded queue of whole messages: what ring_pop hands out is what    *)
(* ring_push accepted, untorn, in order, each message once, and a push is  *)
(* refused only while Capacity - 1 messages wait.                          *)
THEOREM RingImplementsFifo == Spec => RingIsFifo
  <1>1. Spec => []IInv
    BY InitInv, StepInv, PTL DEF Spec, Safety
  <1>2. IInv /\ IInv' /\ [Next]_vars => [Fifo!Next]_(Fifo!vars)
    BY StepMaps
  <1> QED BY <1>1, <1>2, InitMaps, PTL DEF Spec, Safety, RingIsFifo, Fifo!Safety
==============================================================================
