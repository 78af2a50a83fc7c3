-------------------------- MODULE IpcChannels_proofs --------------------------
(***************************************************************************)
(* For every number of channels, ring size and number of sends: sequence   *)
(* numbers go up unless two threads stamp messages at once or the IPC is   *)
(* opened under a call with a number in its hand, a NULL ring is met only  *)
(* through a channel that was destroyed or in a receive that a shutdown    *)
(* cut, no counter gets past the number of sends, and the statistics       *)
(* balance between calls.                                                  *)
(***************************************************************************)
EXTENDS IpcChannels, FiniteSetTheorems, TLAPS

(* The types that the proofs need; how large counters get is the matter of *)
(* the books below.                                                        *)
Shape == /\ ready \in BOOLEAN
         /\ count \in 0 .. MaxChannels
         /\ rings \in SUBSET Channel
         /\ nextSeq \in Nat
         /\ stats \in [Channel -> [Counter -> Nat]]
         /\ queue \in [Ring -> Seq(Nat)]
         /\ at \in [Thread -> {"idle", "seq", "bump", "push", "pop",
                               "count", "store", "faulted"}]
         /\ call \in [Thread -> Calls]
         /\ reg \in [Thread -> Nat]
         /\ cut \in SUBSET Thread

(* Each ring has one producer. *)
Producer == [r \in Ring |-> IF r = "toHw" THEN "app" ELSE "hw"]

Roles == \A t \in Thread :
           at[t] \in {"seq", "bump", "push"} => Producer[call[t].ring] = t

(* Whoever is inside a call that no shutdown went through holds a channel  *)
(* that was open; none goes through a call of the thread that shuts down.  *)
Inside == /\ ready => 0 \in rings /\ count > 0
          /\ \A t \in Thread :
               at[t] # "idle" =>
                 /\ t \in cut \/ (ready /\ call[t].channel \in 0 .. count - 1)
                 /\ t = "app" => t \notin cut
                 /\ at[t] = "faulted" => t # "hw" /\ call[t].channel \notin rings

(* Without a race, the thread between load and store has the counter's     *)
(* value, and a number that was stamped is newer than all in its ring.     *)
Stamped ==
    raced \subseteq {"stats"} =>
      /\ \A t, u \in Thread : at[t] = "bump" /\ at[u] = "bump" => t = u
      /\ \A t \in Thread :
           /\ at[t] = "bump" => reg[t] = nextSeq
           /\ at[t] = "push" =>
                /\ reg[t] < nextSeq
                /\ \A i \in DOMAIN queue[call[t].ring] : queue[call[t].ring][i] < reg[t]

IInv == Shape /\ Roles /\ Inside /\ Stamped /\ SeqIncreasing

LEMMA EmptyRings == [r \in Ring |-> <<>>] \in [Ring -> Seq(Nat)]
  <1>1. <<>> \in Seq(Nat)
    OBVIOUS
  <1> QED BY <1>1

LEMMA InitInv == Init => IInv
  <1> SUFFICES ASSUME Init PROVE IInv
    OBVIOUS
  <1>1. MaxChannels \in Nat \ {0} /\ 0 \in Channel
    BY ChannelAssumption DEF Channel
  <1>2. [ring |-> "toHw", channel |-> 0, counter |-> "tx"] \in Calls
    BY <1>1 DEF Calls, Ring, Counter
  <1>3. Shape
    <2>1. stats \in [Channel -> [Counter -> Nat]]
      BY DEF Init, NoStats
    <2>2. queue \in [Ring -> Seq(Nat)]
      BY EmptyRings DEF Init
    <2>3. call \in [Thread -> Calls] /\ at \in [Thread -> {"idle"}] /\ reg \in [Thread -> Nat]
      BY <1>2 DEF Init
    <2>4. ready = FALSE /\ count = 0 /\ rings = {} /\ nextSeq = 1
      BY DEF Init
    <2>5. ready \in BOOLEAN /\ count \in 0 .. MaxChannels /\ nextSeq \in Nat
      <3>1. ready \in BOOLEAN
        BY <2>4
      <3> QED BY <1>1, <2>4, <3>1
    <2>6. rings \in SUBSET Channel
      BY <2>4
    <2>7. at \in [Thread -> {"idle", "seq", "bump", "push", "pop", "count", "store", "faulted"}]
      BY <2>3
    <2>8. cut \in SUBSET Thread
      BY DEF Init
    <2> QED BY <2>1, <2>2, <2>3, <2>5, <2>6, <2>7, <2>8 DEF Shape
  <1>4. Roles /\ Inside /\ Stamped
    BY DEF Init, Roles, Inside, Stamped
  <1>5. SeqIncreasing
    BY DEF Init, SeqIncreasing, Increasing
  <1> QED BY <1>3, <1>4, <1>5 DEF IInv

------------------------------------------------------------------------------
(* Administration. *)

(* The loops may be anywhere in a call, the caller is not. *)
LEMMA RestartKeeps ==
  ASSUME IInv, ~Crashed, IpcInit \/ IpcShutdown
  PROVE  IInv'
  <1>1. MaxChannels \in Nat \ {0} /\ 0 \in Channel
    BY ChannelAssumption DEF Channel
  <1>2. /\ UNCHANGED <<at, call, reg>>
        /\ at["app"] = "idle" /\ \A t \in Thread : at[t] # "faulted"
        /\ cut' \in SUBSET Thread
    BY DEF IpcInit, IpcShutdown, threads, Crashed, IInv, Shape
  <1>3. Shape'
    <2>1. NoStats \in [Channel -> [Counter -> Nat]]
      BY DEF NoStats
    <2>2. queue' \in [Ring -> Seq(Nat)]
      BY EmptyRings DEF IInv, Shape, IpcInit, IpcShutdown
    <2>3. /\ ready' \in BOOLEAN /\ count' \in {0, 1} /\ rings' \in {{}, {0}}
          /\ nextSeq' \in {1, nextSeq} /\ stats' = NoStats
      BY DEF IpcInit, IpcShutdown
    <2>4. count' \in 0 .. MaxChannels /\ rings' \in SUBSET Channel
      BY <1>1, <2>3
    <2>5. nextSeq' \in Nat
      BY <2>3 DEF IInv, Shape
    <2> QED BY <1>2, <2>1, <2>2, <2>3, <2>4, <2>5 DEF IInv, Shape
  <1>4. Roles'
    BY <1>2 DEF IInv, Roles
  <1>5. Inside'
    BY <1>2 DEF IInv, Inside, IpcInit, IpcShutdown
  <1>6. Stamped' /\ SeqIncreasing'
    <2>1. CASE IpcInit
      <3>1. /\ raced' \subseteq {"stats"} => \A t \in Thread : at'[t] \notin {"bump", "push"}
            /\ \A q \in Ring : queue'[q] = <<>>
        BY <1>2, <2>1 DEF IpcInit, InHand
      <3> QED BY <3>1 DEF Stamped, SeqIncreasing, Increasing
    <2>2. CASE IpcShutdown
      BY <1>2, <2>2 DEF IInv, IpcShutdown, Stamped, SeqIncreasing, Increasing
    <2> QED BY <2>1, <2>2
  <1> QED BY <1>3, <1>4, <1>5, <1>6 DEF IInv

LEMMA ChannelsKeep ==
  ASSUME IInv, ~Crashed, CreateChannel \/ \E c \in Channel : DestroyChannel(c)
  PROVE  IInv'
  <1>1. /\ UNCHANGED <<ready, nextSeq, queue, at, call, reg, raced, cut>>
        /\ ready /\ count \in Nat /\ MaxChannels \in Nat
        /\ \A t \in Thread : at[t] # "faulted"
    BY ChannelAssumption
       DEF CreateChannel, DestroyChannel, threads, ghosts, Crashed, IInv, Shape
  <1>2. /\ count' \in 0 .. MaxChannels /\ count' >= count /\ rings' \in SUBSET Channel
        /\ 0 \in rings' /\ stats' \in [Channel -> [Counter -> Nat]]
    <2>1. CASE CreateChannel
      BY <1>1, <2>1 DEF CreateChannel, IInv, Shape, Inside, Channel
    <2>2. ASSUME NEW c \in Channel, DestroyChannel(c)
          PROVE  /\ count' = count /\ rings' \in SUBSET Channel /\ 0 \in rings'
                 /\ stats' \in [Channel -> [Counter -> Nat]]
      BY <1>1, <2>2 DEF DestroyChannel, IInv, Shape, Inside, NoStats
    <2> QED BY <1>1, <2>1, <2>2 DEF IInv, Shape
  <1>3. Shape'
    BY <1>1, <1>2 DEF IInv, Shape
  <1>4. Roles' /\ Stamped' /\ SeqIncreasing'
    BY <1>1 DEF IInv, Roles, Stamped, SeqIncreasing, Increasing
  <1>5. Inside'
    BY <1>1, <1>2 DEF IInv, Inside
  <1> QED BY <1>3, <1>4, <1>5 DEF IInv

------------------------------------------------------------------------------
(* Calls. *)

(* What a call by one thread leaves alone in the others.                   *)
LEMMA OthersStay ==
  ASSUME Shape, NEW t \in Thread, NEW from, NEW to, Goto(t, from, to)
  PROVE  /\ at[t] = from /\ at'[t] = to
         /\ \A u \in Thread : u # t => at'[u] = at[u]
  BY DEF Shape, Goto

LEMMA BeginKeeps ==
  ASSUME IInv, NEW t \in Thread, NEW to \in {"seq", "pop"}, NEW ring \in Ring, NEW c \in Channel,
         Begin(t, to, ring, c), to = "seq" => Producer[ring] = t
  PROVE  IInv'
  <1>1. /\ UNCHANGED <<ready, count, rings, stats, nextSeq, queue, reg, raced>> /\ cut' = cut \ {t}
        /\ ready /\ c < count /\ c \in Nat /\ count \in Nat
    BY DEF Begin, table, IInv, Shape, Channel
  <1>2. /\ at[t] = "idle" /\ at'[t] = to
        /\ \A u \in Thread : u # t => at'[u] = at[u] /\ call'[u] = call[u]
        /\ call'[t].channel = c /\ call'[t].ring = ring
        /\ call' \in [Thread -> Calls]
        /\ at' \in [Thread -> {"idle", "seq", "bump", "push", "pop", "count", "store", "faulted"}]
    BY DEF Begin, Goto, IInv, Shape, Calls, Counter
  <1>3. Shape'
    BY <1>1, <1>2 DEF IInv, Shape
  <1>4. Roles'
    BY <1>2 DEF IInv, Roles
  <1>5. Inside'
    BY <1>1, <1>2 DEF IInv, Inside
  <1>6. Stamped' /\ SeqIncreasing'
    BY <1>1, <1>2 DEF IInv, Stamped, SeqIncreasing, Increasing
  <1> QED BY <1>3, <1>4, <1>5, <1>6 DEF IInv

LEMMA EnterKeeps ==
  ASSUME IInv, Enter
  PROVE  IInv'
  <1>1. 0 \in Channel
    BY ChannelAssumption DEF Channel
  <1>2. "toHw" \in Ring /\ "toSw" \in Ring /\ "app" \in Thread /\ "hw" \in Thread /\ "sw" \in Thread
    BY DEF Ring, Thread
  <1>3. Producer["toHw"] = "app" /\ Producer["toSw"] = "hw"
    BY <1>2 DEF Producer
  <1> QED BY <1>1, <1>2, <1>3, BeginKeeps DEF Enter, Send, SendToSw, Recv, RecvFromSw

(* The sequence number. *)
LEMMA SeqLoadKeeps ==
  ASSUME IInv, NEW t \in Thread, SeqLoad(t)
  PROVE  IInv'
  <1>1. /\ UNCHANGED <<ready, count, rings, stats, nextSeq, queue, call, cut>>
        /\ at[t] = "seq" /\ at'[t] = "bump" /\ reg'[t] = nextSeq
        /\ \A u \in Thread : u # t => at'[u] = at[u] /\ reg'[u] = reg[u]
        /\ raced' \subseteq {"stats"} => /\ raced \subseteq {"stats"}
                                  /\ \A u \in Thread : at[u] # "bump"
    BY DEF SeqLoad, Goto, Loads, table, IInv, Shape
  <1>2. Shape'
    BY DEF SeqLoad, Goto, Loads, table, IInv, Shape
  <1>3. Roles' /\ Inside'
    BY <1>1 DEF IInv, Roles, Inside
  <1>4. Stamped' /\ SeqIncreasing'
    BY <1>1 DEF IInv, Stamped, SeqIncreasing, Increasing
  <1> QED BY <1>2, <1>3, <1>4 DEF IInv

LEMMA SeqStoreKeeps ==
  ASSUME IInv, NEW t \in Thread, SeqStore(t)
  PROVE  IInv'
  <1>1. /\ UNCHANGED <<ready, count, rings, stats, queue, call, reg, raced, cut>>
        /\ at[t] = "bump" /\ at'[t] = "push" /\ nextSeq' = reg[t] + 1
        /\ \A u \in Thread : u # t => at'[u] = at[u]
    BY DEF SeqStore, Goto, table, ghosts, IInv, Shape
  <1>2. Shape'
    BY DEF SeqStore, Goto, table, ghosts, IInv, Shape
  <1>3. Roles' /\ Inside'
    BY <1>1 DEF IInv, Roles, Inside
  <1>4. /\ nextSeq \in Nat /\ reg[t] \in Nat
        /\ \A u \in Thread : reg[u] \in Nat
        /\ \A r \in Ring : \A i \in DOMAIN queue[r] : queue[r][i] \in Nat
        /\ \A u \in Thread : call[u].ring \in Ring
    BY DEF IInv, Shape, Calls
  <1>5. ASSUME raced \subseteq {"stats"}
        PROVE  nextSeq' = nextSeq + 1 /\ reg[t] = nextSeq
    BY <1>1, <1>5 DEF IInv, Stamped
  <1>6. Stamped'
    BY <1>1, <1>4, <1>5 DEF IInv, Stamped, SeqIncreasing
  <1>7. SeqIncreasing'
    BY <1>1, <1>4, <1>5 DEF IInv, SeqIncreasing, Increasing
  <1> QED BY <1>2, <1>3, <1>6, <1>7 DEF IInv

(* The rings. *)
LEMMA PushKeeps ==
  ASSUME IInv, NEW t \in Thread, Push(t)
  PROVE  IInv'
  <1> DEFINE r == call[t].ring
             q == queue[r]
  <1>1. /\ UNCHANGED <<ready, count, rings, stats, nextSeq, reg, raced, cut>>
        /\ at[t] = "push" /\ at'[t] = "count"
        /\ \A u \in Thread : u # t => at'[u] = at[u] /\ call'[u] = call[u]
        /\ call'[t].channel = call[t].channel
        /\ r \in Ring /\ q \in Seq(Nat) /\ reg[t] \in Nat /\ Producer[r] = t
    BY DEF Push, Goto, table, ghosts, IInv, Shape, Roles, Calls
  <1>2. Shape'
    <2>1. call' \in [Thread -> Calls]
      <3>1. ASSUME NEW x \in Calls
            PROVE  [x EXCEPT !.counter = "drop"] \in Calls
        BY DEF Calls, Counter
      <3>2. call' = call \/ call' = [call EXCEPT ![t] = [call[t] EXCEPT !.counter = "drop"]]
        BY DEF Push
      <3>3. call \in [Thread -> Calls] /\ call[t] \in Calls
        BY DEF IInv, Shape
      <3> QED BY <3>1, <3>2, <3>3
    <2>2. queue' \in [Ring -> Seq(Nat)]
      <3>1. queue' = queue \/ queue' = [queue EXCEPT ![r] = Append(q, reg[t])]
        BY DEF Push
      <3>2. Append(q, reg[t]) \in Seq(Nat) /\ queue \in [Ring -> Seq(Nat)]
        BY <1>1 DEF IInv, Shape
      <3> HIDE DEF r, q
      <3> QED BY <1>1, <3>1, <3>2
    <2>3. at' \in [Thread -> {"idle", "seq", "bump", "push", "pop", "count", "store", "faulted"}]
      BY DEF Push, Goto, IInv, Shape
    <2> QED BY <1>1, <2>1, <2>2, <2>3 DEF IInv, Shape
  <1>3. Roles' /\ Inside'
    BY <1>1 DEF IInv, Roles, Inside
  <1>4. /\ \A s \in Ring : s # r => queue'[s] = queue[s]
        /\ queue'[r] \in {q, Append(q, reg[t])}
    BY <1>1 DEF Push, IInv, Shape
  <1>5. Stamped'
    <2>1. \A u \in Thread : u # t /\ at[u] = "push" =>
            call[u].ring # r /\ call[u].ring \in Ring /\ queue'[call[u].ring] = queue[call[u].ring]
      BY <1>1, <1>4 DEF IInv, Shape, Calls, Roles
    <2>2. ASSUME raced \subseteq {"stats"}, NEW u \in Thread
          PROVE  /\ \A v \in Thread : at'[u] = "bump" /\ at'[v] = "bump" => u = v
                 /\ at'[u] = "bump" => reg[u] = nextSeq
                 /\ at'[u] = "push" =>
                      /\ reg[u] < nextSeq
                      /\ \A i \in DOMAIN queue'[call'[u].ring] :
                           queue'[call'[u].ring][i] < reg[u]
      <3>1. u = t => at'[u] \notin {"bump", "push"}
        BY <1>1
      <3>2. \A v \in Thread : at'[v] = "bump" => at[v] = "bump"
        BY <1>1
      <3>3. at'[u] = "push" => u # t /\ at[u] = "push" /\ call'[u].ring = call[u].ring
        BY <1>1
      <3> QED BY <2>1, <2>2, <3>1, <3>2, <3>3 DEF IInv, Stamped
    <2> QED BY <1>1, <2>2 DEF Stamped
  <1>6. SeqIncreasing'
    <2> SUFFICES ASSUME raced \subseteq {"stats"}, NEW s \in Ring
                 PROVE  /\ Increasing(queue'[s])
                        /\ \A i \in DOMAIN queue'[s] : queue'[s][i] < nextSeq
      BY <1>1 DEF SeqIncreasing
    <2>1. Increasing(queue[s]) /\ \A i \in DOMAIN queue[s] : queue[s][i] < nextSeq
      BY DEF IInv, SeqIncreasing
    <2>2. CASE queue'[s] = queue[s]
      BY <2>1, <2>2
    <2>3. CASE s = r /\ queue'[s] = Append(q, reg[t])
      <3>1. /\ DOMAIN q = 1 .. Len(q) /\ Len(q) \in Nat
            /\ DOMAIN Append(q, reg[t]) = 1 .. Len(q) + 1
            /\ \A i \in 1 .. Len(q) : Append(q, reg[t])[i] = q[i]
            /\ Append(q, reg[t])[Len(q) + 1] = reg[t]
        BY <1>1
      <3>2. reg[t] < nextSeq /\ \A i \in DOMAIN q : q[i] < reg[t]
        BY <1>1 DEF IInv, Stamped
      <3>3. Increasing(q) /\ \A i \in DOMAIN q : q[i] < nextSeq
        BY <2>1, <2>3
      <3> HIDE DEF q
      <3> QED BY <2>3, <3>1, <3>2, <3>3 DEF Increasing
    <2> QED BY <1>4, <2>2, <2>3
  <1> QED BY <1>2, <1>3, <1>5, <1>6 DEF IInv

LEMMA PopKeeps ==
  ASSUME IInv, NEW t \in Thread, Pop(t)
  PROVE  IInv'
  <1> DEFINE r == call[t].ring
             q == queue[r]
  <1>1. /\ UNCHANGED <<ready, count, rings, stats, nextSeq, call, reg, raced, cut>>
        /\ at[t] = "pop" /\ at'[t] = "count"
        /\ \A u \in Thread : u # t => at'[u] = at[u]
        /\ r \in Ring /\ q \in Seq(Nat) /\ q # <<>>
    BY DEF Pop, Goto, table, ghosts, IInv, Shape, Calls
  <1>2. /\ queue' \in [Ring -> Seq(Nat)] /\ queue'[r] = Tail(q)
        /\ \A s \in Ring : s # r => queue'[s] = queue[s]
    BY <1>1 DEF Pop, IInv, Shape
  <1>3. Shape'
    <2>1. at' \in [Thread -> {"idle", "seq", "bump", "push", "pop", "count", "store", "faulted"}]
      BY DEF Pop, Goto, IInv, Shape
    <2> QED BY <1>1, <1>2, <2>1 DEF IInv, Shape
  <1>4. Roles' /\ Inside'
    BY <1>1 DEF IInv, Roles, Inside
  <1>5. /\ DOMAIN q = 1 .. Len(q) /\ Len(q) \in Nat \ {0}
        /\ DOMAIN Tail(q) = 1 .. Len(q) - 1
        /\ \A i \in 1 .. Len(q) - 1 : Tail(q)[i] = q[i + 1] /\ i + 1 \in 1 .. Len(q)
    BY <1>1
  <1>6. Stamped'
    <2> SUFFICES ASSUME raced \subseteq {"stats"}, NEW u \in Thread, at'[u] = "push",
                        NEW i \in DOMAIN queue'[call[u].ring]
                 PROVE  queue'[call[u].ring][i] < reg[u]
      BY <1>1 DEF IInv, Stamped
    <2>1. at[u] = "push" /\ call[u].ring \in Ring
      BY <1>1 DEF IInv, Shape, Calls
    <2>2. \A j \in DOMAIN queue[call[u].ring] : queue[call[u].ring][j] < reg[u]
      BY <2>1 DEF IInv, Stamped
    <2>3. CASE call[u].ring = r
      <3>1. /\ \A j \in DOMAIN q : q[j] < reg[u]
            /\ queue'[call[u].ring] = Tail(q)
        BY <1>2, <2>2, <2>3
      <3> HIDE DEF r, q
      <3>2. i \in 1 .. Len(q) - 1
        BY <1>5, <3>1
      <3>3. Tail(q)[i] = q[i + 1] /\ i + 1 \in DOMAIN q
        BY <1>5, <3>2
      <3> QED BY <3>1, <3>3
    <2>4. CASE call[u].ring # r
      BY <1>2, <2>1, <2>2, <2>4
    <2> QED BY <2>3, <2>4
  <1>7. SeqIncreasing'
    <2> SUFFICES ASSUME raced \subseteq {"stats"}, NEW s \in Ring
                 PROVE  /\ Increasing(queue'[s])
                        /\ \A i \in DOMAIN queue'[s] : queue'[s][i] < nextSeq
      BY <1>1 DEF SeqIncreasing
    <2>1. Increasing(queue[s]) /\ \A i \in DOMAIN queue[s] : queue[s][i] < nextSeq
      BY DEF IInv, SeqIncreasing
    <2>2. CASE s # r
      BY <1>2, <2>1, <2>2
    <2>3. CASE s = r
      <3>1. Increasing(q) /\ \A i \in DOMAIN q : q[i] < nextSeq
        BY <2>1, <2>3
      <3>2. queue'[s] = Tail(q)
        BY <1>2, <2>3
      <3> HIDE DEF r, q
      <3>3. ASSUME NEW i \in 1 .. Len(q) - 1
            PROVE  Tail(q)[i] = q[i + 1] /\ i + 1 \in DOMAIN q
        BY <1>5
      <3>4. ASSUME NEW i \in 1 .. Len(q) - 1, NEW j \in 1 .. Len(q) - 1, i < j
            PROVE  Tail(q)[i] < Tail(q)[j]
        <4>1. i + 1 < j + 1
          BY <3>4
        <4> QED BY <3>1, <3>3, <4>1 DEF Increasing
      <3>5. Increasing(Tail(q))
        BY <1>5, <3>4 DEF Increasing
      <3>6. \A i \in DOMAIN Tail(q) : Tail(q)[i] < nextSeq
        BY <1>5, <3>1, <3>3
      <3> QED BY <3>2, <3>5, <3>6
    <2> QED BY <2>2, <2>3
  <1> QED BY <1>3, <1>4, <1>6, <1>7 DEF IInv

(* A call ends, or dies on a NULL ring. *)
LEMMA LeaveKeeps ==
  ASSUME IInv, NEW t \in Thread, NothingThere(t) \/ Fault(t)
  PROVE  IInv'
  <1>1. /\ UNCHANGED <<ready, count, rings, stats, nextSeq, queue, call, reg, raced, cut>>
        /\ at[t] \in {"push", "pop"} /\ at'[t] \in {"idle", "faulted"}
        /\ at'[t] = "faulted" => t # "hw" /\ call[t].channel \notin rings
        /\ \A u \in Thread : u # t => at'[u] = at[u]
        /\ at' \in [Thread -> {"idle", "seq", "bump", "push", "pop", "count", "store", "faulted"}]
    BY DEF NothingThere, Fault, NullRing, Goto, table, ghosts, IInv, Shape
  <1>2. Shape'
    BY <1>1 DEF IInv, Shape
  <1>3. Roles' /\ Inside'
    BY <1>1 DEF IInv, Roles, Inside
  <1>4. Stamped' /\ SeqIncreasing'
    BY <1>1 DEF IInv, Stamped, SeqIncreasing, Increasing
  <1> QED BY <1>2, <1>3, <1>4 DEF IInv

LEMMA CountKeeps ==
  ASSUME IInv, NEW t \in Thread, CountLoad(t) \/ CountStore(t)
  PROVE  IInv'
  <1>1. /\ UNCHANGED <<ready, count, rings, nextSeq, queue, call, cut>>
        /\ at[t] \in {"count", "store"} /\ at'[t] \in {"store", "idle"}
        /\ \A u \in Thread : u # t => at'[u] = at[u] /\ reg'[u] = reg[u]
        /\ raced' \subseteq {"stats"} => raced \subseteq {"stats"}
        /\ at' \in [Thread -> {"idle", "seq", "bump", "push", "pop", "count", "store", "faulted"}]
    BY DEF CountLoad, CountStore, Goto, Loads, table, ghosts, IInv, Shape
  <1>2. call[t].channel \in Channel /\ call[t].counter \in Counter /\ reg[t] \in Nat
    BY DEF IInv, Shape, Calls
  <1>3. stats' \in [Channel -> [Counter -> Nat]] /\ reg' \in [Thread -> Nat]
    <2>1. CASE CountLoad(t)
      BY <1>2, <2>1 DEF CountLoad, Loads, IInv, Shape
    <2>2. CASE CountStore(t)
      <3>1. ASSUME NEW f \in [Counter -> Nat], NEW k \in Counter
            PROVE  [f EXCEPT ![k] = reg[t] + 1] \in [Counter -> Nat]
        BY <1>2
      <3>2. stats[call[t].channel] \in [Counter -> Nat] /\ stats \in [Channel -> [Counter -> Nat]]
        BY <1>2 DEF IInv, Shape
      <3>3. stats' = [stats EXCEPT ![call[t].channel] =
                        [stats[call[t].channel] EXCEPT ![call[t].counter] = reg[t] + 1]]
        BY <2>2 DEF CountStore
      <3>4. [stats[call[t].channel] EXCEPT ![call[t].counter] = reg[t] + 1] \in [Counter -> Nat]
        BY <1>2, <3>1, <3>2
      <3>5. stats' \in [Channel -> [Counter -> Nat]]
        BY <1>2, <3>2, <3>3, <3>4
      <3> QED BY <2>2, <3>5 DEF CountStore, IInv, Shape
    <2> QED BY <2>1, <2>2
  <1>4. Shape'
    BY <1>1, <1>3 DEF IInv, Shape
  <1>5. Roles' /\ Inside'
    BY <1>1 DEF IInv, Roles, Inside
  <1>6. Stamped' /\ SeqIncreasing'
    BY <1>1 DEF IInv, Stamped, SeqIncreasing, Increasing
  <1> QED BY <1>4, <1>5, <1>6 DEF IInv

------------------------------------------------------------------------------
LEMMA NextInv == IInv /\ [Next]_vars => IInv'
  <1> SUFFICES ASSUME IInv, [Next]_vars PROVE IInv'
    OBVIOUS
  <1>1. CASE ~Crashed /\ Admin
    BY <1>1, RestartKeeps, ChannelsKeep DEF Admin
  <1>2. CASE Enter
    BY <1>2, EnterKeeps
  <1>3. ASSUME NEW t \in Thread, Step(t)
        PROVE  IInv'
    BY <1>3, SeqLoadKeeps, SeqStoreKeeps, PushKeeps, PopKeeps, LeaveKeeps, CountKeeps DEF Step
  <1>4. CASE UNCHANGED vars
    <2>1. Shape' /\ Roles' /\ Inside'
      BY <1>4 DEF vars, IInv, Shape, Roles, Inside
    <2>2. Stamped' /\ SeqIncreasing'
      BY <1>4 DEF vars, IInv, Stamped, SeqIncreasing, Increasing
    <2> QED BY <2>1, <2>2 DEF IInv
  <1> QED BY <1>1, <1>2, <1>3, <1>4 DEF Next

LEMMA Invariance == Spec => []IInv
  BY InitInv, NextInv, PTL DEF Spec

(* As long as no two threads were between the load and the store of        *)
(* g_seq_counter at once, and baios_ipc_init did not come between a number *)
(* and its message, each ring carries increasing numbers, all of     *)
(* them below the counter, whatever was dropped in between.                *)
THEOREM NumbersIncrease == Spec => []SeqIncreasing
  <1>1. IInv => SeqIncreasing
    BY DEF IInv
  <1> QED BY <1>1, Invariance, PTL

(* A thread that meets a NULL ring is the application's or the SW loop, in *)
(* a call on a channel that was destroyed and that is not channel 0, or it *)
(* is the SW loop in a receive through which baios_ipc_shutdown went; for  *)
(* every number of channels and every interleaving of the three threads    *)
(* with creations, destructions, shutdowns and new openings.               *)
THEOREM FaultsAreOnDestroyed == Spec => []OnlyDestroyedFault
  <1>1. IInv => OnlyDestroyedFault
    <2> SUFFICES ASSUME IInv, NEW t \in Thread, at[t] = "faulted"
                 PROVE  \/ t \in {"app", "sw"} /\ call[t].channel \in (1 .. count - 1) \ rings
                        \/ t = "sw" /\ t \in cut
      BY DEF OnlyDestroyedFault
    <2>1. /\ t \in cut \/ (ready /\ call[t].channel \in 0 .. count - 1)
          /\ t = "app" => t \notin cut
          /\ t \in {"app", "sw"} /\ call[t].channel \notin rings
      BY DEF IInv, Inside, Thread
    <2>2. CASE t \in cut
      BY <2>1, <2>2
    <2>3. CASE t \notin cut
      <3>1. ready /\ 0 \in rings /\ count \in Nat
        BY <2>1, <2>3 DEF IInv, Inside, Shape
      <3> QED BY <2>1, <2>3, <3>1
    <2> QED BY <2>2, <2>3
  <1> QED BY <1>1, Invariance, PTL

------------------------------------------------------------------------------
(* The books: who is where in a call, counted.                             *)

(* The threads that have begun a send and have no number yet, those that   *)
(* have one, and those that will bump a counter k.                         *)
Stamping == {t \in Thread : at[t] \in {"seq", "bump"}}
Pushing == {t \in Thread : at[t] = "push"}
Counting(k) == {t \in Thread : at[t] \in {"count", "store"} /\ call[t].counter = k}

NStamping == Cardinality(Stamping)
NPushing == Cardinality(Pushing)
NCounting(k) == Cardinality(Counting(k))

Waiting == Len(queue["toHw"]) + Len(queue["toSw"])

(* What the counters k will still go up by on account of the sends that    *)
(* were begun, at most.                                                    *)
Pending(k) == NStamping + NPushing
              + IF k = "rx" THEN Waiting + NCounting("rx")
                ELSE NCounting("tx") + NCounting("drop")

(* A send that was begun bumps one counter, a message that is waiting one  *)
(* more, and so all counters stay below the number of sends; a thread that *)
(* puts a counter back to what it loaded puts it back to less.             *)
Bounded == /\ sends \in 0 .. MaxSends /\ raced \in SUBSET {"seq", "stats", "opened"}
           /\ nextSeq >= 1 /\ nextSeq + NStamping <= sends + 1
           /\ \A t \in Thread :
                /\ reg[t] <= MaxSends
                /\ at[t] \in {"bump", "push"} => reg[t] >= 1
                /\ at[t] = "bump" => reg[t] + NStamping <= sends + 1
                /\ \A k \in Counter :
                     at[t] = "store" /\ call[t].counter = k => reg[t] + Pending(k) <= sends
           /\ \A c \in Channel, k \in Counter : stats[c][k] + Pending(k) <= sends
           /\ \A r \in Ring : queue[r] \in Seq(1 .. MaxSends) /\ Len(queue[r]) <= RingBound

(* Which counter a call will bump, before it knows about drops.            *)
Kinds == \A t \in Thread : /\ at[t] \in {"seq", "bump", "push"} => call[t].counter = "tx"
                           /\ at[t] = "pop" => call[t].counter = "rx"

(* No counter was updated by two threads at once, and no channel was       *)
(* destroyed.                                                              *)
Undisturbed == ready /\ raced = {} /\ rings = 0 .. count - 1

(* The thread between load and store has the counter's value, and is alone *)
(* there.                                                                  *)
Loaded == /\ \A t \in Thread :
               at[t] = "store" => reg[t] = stats[call[t].channel][call[t].counter]
          /\ \A t, u \in Thread : /\ at[t] = "store" /\ at[u] = "store"
                                  /\ call[t].channel = call[u].channel
                                  /\ call[t].counter = call[u].counter
                                  => t = u

(* The books balance at every step, those that are in the middle of a call *)
(* taken into account.                                                     *)
Balance == /\ Total("tx") + NCounting("tx") = Total("rx") + NCounting("rx") + Waiting
           /\ nextSeq = 1 + Total("tx") + Total("drop") + NPushing
                          + NCounting("tx") + NCounting("drop")

Opened == rings \subseteq 0 .. count - 1

Books == Kinds /\ Bounded /\ Opened /\ (Undisturbed => Loaded /\ Balance)

(* A set of threads is finite, and changes by one thread at a time.        *)
LEMMA ThreadSets ==
  ASSUME NEW A \in SUBSET Thread, NEW t \in Thread
  PROVE  /\ Cardinality(A) \in Nat
         /\ t \notin A => Cardinality(A \cup {t}) = Cardinality(A) + 1
         /\ t \in A => Cardinality(A \ {t}) = Cardinality(A) - 1 /\ Cardinality(A) >= 1
         /\ A = {} => Cardinality(A) = 0
  <1>1. IsFiniteSet({"app", "sw", "hw"})
    <2>1. IsFiniteSet({"app"})
      BY FS_Singleton
    <2>2. IsFiniteSet({"app", "sw"})
      <3>1. {"app", "sw"} = {"app"} \cup {"sw"}
        OBVIOUS
      <3> QED BY <2>1, <3>1, FS_AddElement
    <2>3. {"app", "sw", "hw"} = {"app", "sw"} \cup {"hw"}
      OBVIOUS
    <2> QED BY <2>2, <2>3, FS_AddElement
  <1>2. IsFiniteSet(A)
    BY <1>1, FS_Subset DEF Thread
  <1>3. t \in A => Cardinality(A \ {t}) = Cardinality(A) - 1 /\ Cardinality(A \ {t}) \in Nat
    BY <1>2, FS_RemoveElement, FS_CardinalityType
  <1> QED BY <1>2, <1>3, FS_AddElement, FS_EmptySet, FS_CardinalityType

Bit(b) == IF b THEN 1 ELSE 0

(* What is counted is a natural number.                                    *)
LEMMA Numbers ==
  /\ \A t \in Thread : at[t] \in {"seq", "bump"} => NStamping >= 1
  /\ NStamping \in Nat /\ NPushing \in Nat /\ \A k \in Counter : NCounting(k) \in Nat
  /\ (\A t \in Thread : at[t] \notin {"seq", "bump"}) => NStamping = 0
  /\ (\A t \in Thread : at[t] # "push") => NPushing = 0
  /\ (\A t \in Thread : at[t] \notin {"count", "store"}) => \A k \in Counter : NCounting(k) = 0
  <1>1. /\ Stamping \in SUBSET Thread /\ Pushing \in SUBSET Thread
        /\ \A k \in Counter : Counting(k) \in SUBSET Thread
    BY DEF Stamping, Pushing, Counting
  <1>2. "app" \in Thread
    BY DEF Thread
  <1>3. NStamping \in Nat /\ NPushing \in Nat /\ \A k \in Counter : NCounting(k) \in Nat
    BY <1>1, <1>2, ThreadSets DEF NStamping, NPushing, NCounting
  <1>4. (\A t \in Thread : at[t] \notin {"seq", "bump"}) => NStamping = 0
    BY <1>1, <1>2, ThreadSets DEF NStamping, Stamping
  <1>5. (\A t \in Thread : at[t] # "push") => NPushing = 0
    BY <1>1, <1>2, ThreadSets DEF NPushing, Pushing
  <1>6. ASSUME \A t \in Thread : at[t] \notin {"count", "store"}, NEW k \in Counter
        PROVE  NCounting(k) = 0
    BY <1>1, <1>2, <1>6, ThreadSets DEF NCounting, Counting
  <1>7. ASSUME NEW t \in Thread, at[t] \in {"seq", "bump"}
        PROVE  NStamping >= 1
    <2>1. t \in Stamping
      BY <1>7 DEF Stamping
    <2> QED BY <1>1, <2>1, ThreadSets DEF NStamping
  <1> QED BY <1>3, <1>4, <1>5, <1>6, <1>7

(* A thread that leaves one set of threads and enters another.             *)
LEMMA OneMoves ==
  ASSUME NEW A \in SUBSET Thread, NEW B \in SUBSET Thread, NEW t \in Thread,
         \A u \in Thread : u # t => (u \in A <=> u \in B)
  PROVE  Cardinality(B) = Cardinality(A) - Bit(t \in A) + Bit(t \in B)
  <1> Cardinality(A) \in Nat /\ Cardinality(B) \in Nat
    BY ThreadSets
  <1>1. CASE t \in A /\ t \notin B
    <2>1. B = A \ {t}
      BY <1>1
    <2> QED BY <1>1, <2>1, ThreadSets DEF Bit
  <1>2. CASE t \notin A /\ t \in B
    <2>1. B = A \cup {t}
      BY <1>2
    <2> QED BY <1>2, <2>1, ThreadSets DEF Bit
  <1>3. CASE (t \in A) <=> (t \in B)
    <2>1. A = B
      BY <1>3
    <2>2. Cardinality(A) = Cardinality(B) /\ Bit(t \in A) = Bit(t \in B) /\ Bit(t \in A) \in Nat
      BY <2>1 DEF Bit
    <2> QED BY <2>2
  <1> QED BY <1>1, <1>2, <1>3

(* How the counts change when one thread goes on: it is taken out where it *)
(* was and added where it is now.                                          *)
Recount(t) ==
  /\ NStamping' = NStamping - Bit(at[t] \in {"seq", "bump"})
                            + Bit(at'[t] \in {"seq", "bump"})
  /\ NPushing' = NPushing - Bit(at[t] = "push") + Bit(at'[t] = "push")
  /\ \A k \in Counter :
       NCounting(k)' = NCounting(k)
         - Bit(at[t] \in {"count", "store"} /\ call[t].counter = k)
         + Bit(at'[t] \in {"count", "store"} /\ call'[t].counter = k)

LEMMA Moved ==
  ASSUME NEW t \in Thread, \A u \in Thread : u # t => at'[u] = at[u] /\ call'[u] = call[u]
  PROVE  Recount(t)
  <1>1. NStamping' = NStamping - Bit(at[t] \in {"seq", "bump"}) + Bit(at'[t] \in {"seq", "bump"})
    <2>1. Stamping \in SUBSET Thread /\ Stamping' \in SUBSET Thread
      BY DEF Stamping
    <2>2. \A u \in Thread : u # t => (u \in Stamping <=> u \in Stamping')
      BY DEF Stamping
    <2>3. Cardinality(Stamping') = Cardinality(Stamping) - Bit(t \in Stamping) + Bit(t \in Stamping')
      BY <2>1, <2>2, OneMoves
    <2>4. /\ t \in Stamping <=> at[t] \in {"seq", "bump"}
          /\ t \in Stamping' <=> at'[t] \in {"seq", "bump"}
      BY DEF Stamping
    <2> QED BY <2>3, <2>4 DEF NStamping, Bit
  <1>2. NPushing' = NPushing - Bit(at[t] = "push") + Bit(at'[t] = "push")
    <2>1. Pushing \in SUBSET Thread /\ Pushing' \in SUBSET Thread
      BY DEF Pushing
    <2>2. \A u \in Thread : u # t => (u \in Pushing <=> u \in Pushing')
      BY DEF Pushing
    <2>3. Cardinality(Pushing') = Cardinality(Pushing) - Bit(t \in Pushing) + Bit(t \in Pushing')
      BY <2>1, <2>2, OneMoves
    <2>4. /\ t \in Pushing <=> at[t] = "push"
          /\ t \in Pushing' <=> at'[t] = "push"
      BY DEF Pushing
    <2> QED BY <2>3, <2>4 DEF NPushing, Bit
  <1>3. ASSUME NEW k \in Counter
        PROVE  NCounting(k)' = NCounting(k)
                 - Bit(at[t] \in {"count", "store"} /\ call[t].counter = k)
                 + Bit(at'[t] \in {"count", "store"} /\ call'[t].counter = k)
    <2> DEFINE A == Counting(k)
               B == Counting(k)'
    <2>1. A \in SUBSET Thread /\ B \in SUBSET Thread
      BY DEF Counting
    <2>2. \A u \in Thread : u # t => (u \in A <=> u \in B)
      BY DEF Counting
    <2>3. /\ t \in A <=> at[t] \in {"count", "store"} /\ call[t].counter = k
          /\ t \in B <=> at'[t] \in {"count", "store"} /\ call'[t].counter = k
      BY DEF Counting
    <2>4. NCounting(k) = Cardinality(A) /\ NCounting(k)' = Cardinality(B)
      BY DEF NCounting
    <2> HIDE DEF A, B
    <2>5. Cardinality(B) = Cardinality(A) - Bit(t \in A) + Bit(t \in B)
      BY <2>1, <2>2, OneMoves
    <2> QED BY <2>3, <2>4, <2>5 DEF Bit
  <1> QED BY <1>1, <1>2, <1>3 DEF Recount

------------------------------------------------------------------------------
(* What a step must leave in place. *)

LEMMA Natural ==
  Shape => /\ Waiting \in Nat
           /\ Pending("rx") = NStamping + NPushing + Waiting + NCounting("rx")
           /\ Pending("tx") = NStamping + NPushing + NCounting("tx") + NCounting("drop")
           /\ Pending("drop") = Pending("tx")
           /\ \A k \in Counter : Pending(k) \in Nat
  <1> SUFFICES ASSUME Shape
               PROVE  /\ Waiting \in Nat
                      /\ Pending("rx") = NStamping + NPushing + Waiting + NCounting("rx")
                      /\ Pending("tx") = NStamping + NPushing + NCounting("tx") + NCounting("drop")
                      /\ Pending("drop") = Pending("tx")
                      /\ \A k \in Counter : Pending(k) \in Nat
    OBVIOUS
  <1>1. /\ NStamping \in Nat /\ NPushing \in Nat
        /\ NCounting("rx") \in Nat /\ NCounting("tx") \in Nat /\ NCounting("drop") \in Nat
    BY Numbers DEF Counter
  <1>2. Len(queue["toHw"]) \in Nat /\ Len(queue["toSw"]) \in Nat
    BY DEF Shape, Ring
  <1>3. Waiting \in Nat
    <2>1. \A m, n \in Nat : m + n \in Nat
      OBVIOUS
    <2> QED BY <1>2, <2>1, Zenon DEF Waiting
  <1>4. /\ Pending("rx") = NStamping + NPushing + Waiting + NCounting("rx")
        /\ Pending("tx") = NStamping + NPushing + NCounting("tx") + NCounting("drop")
        /\ Pending("drop") = Pending("tx")
    BY <1>1, <1>3 DEF Pending
  <1>5. \A k \in Counter : Pending(k) \in Nat
    BY <1>1, <1>3, <1>4 DEF Counter
  <1> QED BY <1>3, <1>4, <1>5

(* The bounds hold after a step of thread t if it uses up no more than     *)
(* the sends that it begins.                                               *)
LEMMA BoundsKept ==
  ASSUME Shape, Shape', Bounded, NEW t \in Thread,
         \A u \in Thread : u # t => at'[u] = at[u] /\ call'[u] = call[u] /\ reg'[u] = reg[u],
         sends' \in 0 .. MaxSends, raced' \in SUBSET {"seq", "stats", "opened"},
         NStamping' <= NStamping + (sends' - sends),
         \A k \in Counter : Pending(k)' <= Pending(k) + (sends' - sends),
         nextSeq' >= 1, nextSeq' + NStamping' <= sends' + 1,
         reg'[t] <= MaxSends,
         at'[t] \in {"bump", "push"} => reg'[t] >= 1,
         at'[t] = "bump" => reg'[t] + NStamping' <= sends' + 1,
         \A k \in Counter : at'[t] = "store" /\ call'[t].counter = k => reg'[t] + Pending(k)' <= sends',
         \A c \in Channel, k \in Counter : stats'[c][k] + Pending(k)' <= sends',
         \A r \in Ring : queue'[r] \in Seq(1 .. MaxSends) /\ Len(queue'[r]) <= RingBound
  PROVE  Bounded'
  <1>1. sends \in Nat /\ MaxSends \in Nat /\ sends' \in Nat
    BY ChannelAssumption DEF Bounded
  <1>2. Numbers' /\ Natural'
    BY Numbers, Natural, PTL
  <1>3. /\ NStamping \in Nat /\ NStamping' \in Nat
        /\ \A k \in Counter : Pending(k) \in Nat /\ Pending(k)' \in Nat
    BY <1>2, Numbers, Natural
  <1>4. \A u \in Thread : reg[u] \in Nat /\ reg'[u] \in Nat
    BY DEF Shape
  <1>5. ASSUME NEW u \in Thread
        PROVE  /\ reg'[u] <= MaxSends
               /\ at'[u] \in {"bump", "push"} => reg'[u] >= 1
               /\ at'[u] = "bump" => reg'[u] + NStamping' <= sends' + 1
               /\ \A k \in Counter :
                    at'[u] = "store" /\ call'[u].counter = k => reg'[u] + Pending(k)' <= sends'
    <2>1. CASE u = t
      BY <2>1
    <2>2. CASE u # t
      <3>1. /\ at'[u] = at[u] /\ call'[u] = call[u] /\ reg'[u] = reg[u] /\ reg[u] \in Nat
        BY <1>4, <2>2
      <3>2. /\ reg[u] <= MaxSends
            /\ at[u] \in {"bump", "push"} => reg[u] >= 1
            /\ at[u] = "bump" => reg[u] + NStamping <= sends + 1
            /\ \A k \in Counter :
                 at[u] = "store" /\ call[u].counter = k => reg[u] + Pending(k) <= sends
        BY DEF Bounded
      <3>3. at[u] = "bump" => reg[u] + NStamping' <= sends' + 1
        BY <1>1, <1>3, <3>1, <3>2
      <3>4. ASSUME NEW k \in Counter, at[u] = "store", call[u].counter = k
            PROVE  reg[u] + Pending(k)' <= sends'
        <4>1. /\ Pending(k) \in Nat /\ Pending(k)' \in Nat
              /\ Pending(k)' <= Pending(k) + (sends' - sends)
              /\ reg[u] + Pending(k) <= sends
          BY <1>3, <3>2, <3>4
        <4> QED BY <1>1, <3>1, <4>1
      <3> QED BY <3>1, <3>2, <3>3, <3>4
    <2> QED BY <2>1, <2>2
  <1> QED BY <1>5 DEF Bounded

------------------------------------------------------------------------------
(* Adding the counters up. *)

LEMMA InEvents ==
  ASSUME NEW s, NEW k, NEW x
  PROVE  x \in Events(s, k) <=> \E c \in Channel : \E i \in 1 .. s[c][k] : x = <<c, i>>
  <1>1. x \in Events(s, k) <=> \E c \in Channel : x \in {c} \X (1 .. s[c][k])
    BY DEF Events
  <1>2. ASSUME NEW c \in Channel
        PROVE  x \in {c} \X (1 .. s[c][k]) <=> \E i \in 1 .. s[c][k] : x = <<c, i>>
    OBVIOUS
  <1> QED BY <1>1, <1>2

Counters == [Channel -> [Counter -> 0 .. MaxSends]]

LEMMA FiniteEvents ==
  ASSUME NEW s \in Counters, NEW k \in Counter
  PROVE  IsFiniteSet(Events(s, k)) /\ Cardinality(Events(s, k)) \in Nat
  <1> DEFINE m == MaxSends
  <1> m \in Nat /\ s \in [Channel -> [Counter -> 0 .. m]]
    BY ChannelAssumption DEF Counters
  <1> HIDE DEF m
  <1>1. IsFiniteSet(Channel \X (1 .. m))
    <2>1. IsFiniteSet(0 .. MaxChannels - 1) /\ IsFiniteSet(1 .. m)
      BY FS_Interval, ChannelAssumption
    <2> QED BY <2>1, FS_Product DEF Channel
  <1>2. Events(s, k) \subseteq Channel \X (1 .. m)
    <2>1. ASSUME NEW x \in Events(s, k)
          PROVE  x \in Channel \X (1 .. m)
      <3>1. PICK c \in Channel : \E i \in 1 .. s[c][k] : x = <<c, i>>
        BY InEvents
      <3>2. PICK i \in 1 .. s[c][k] : x = <<c, i>>
        BY <3>1
      <3>3. s[c][k] \in 0 .. m
        OBVIOUS
      <3>4. i \in 1 .. m
        BY <3>3
      <3> QED BY <3>2, <3>4
    <2> QED BY <2>1
  <1> QED BY <1>1, <1>2, FS_Subset, FS_CardinalityType

(* Counter k of channel c goes up by one from s to z, and no other does.   *)
OneMore(s, z, c, k) ==
  /\ z[c][k] = s[c][k] + 1
  /\ \A d \in Channel, j \in Counter : <<d, j>> # <<c, k>> => z[d][j] = s[d][j]

(* A finite set is one larger with an element it did not have.             *)
LEMMA AddOne ==
  ASSUME NEW S, NEW x, IsFiniteSet(S), x \notin S
  PROVE  Cardinality(S \cup {x}) = Cardinality(S) + 1
  BY FS_AddElement

(* Counting one more event adds it to what its counter has counted, and    *)
(* nothing to the others.                                                  *)
LEMMA OneMoreEvent ==
  ASSUME NEW s \in Counters, NEW z \in Counters,
         NEW c \in Channel, NEW k \in Counter,
         OneMore(s, z, c, k)
  PROVE  /\ Cardinality(Events(z, k)) = Cardinality(Events(s, k)) + 1
         /\ \A j \in Counter \ {k} : Cardinality(Events(z, j)) = Cardinality(Events(s, j))
  <1> USE DEF OneMore
  <1> DEFINE m == MaxSends
  <1> /\ m \in Nat /\ s \in [Channel -> [Counter -> 0 .. m]]
      /\ z \in [Channel -> [Counter -> 0 .. m]]
    BY ChannelAssumption DEF Counters
  <1> HIDE DEF m
  <1>1. Events(z, k) = Events(s, k) \cup {<<c, s[c][k] + 1>>}
    <2>1. s[c][k] \in Nat
      OBVIOUS
    <2>2. ASSUME NEW x
          PROVE  x \in Events(z, k) <=> x \in Events(s, k) \/ x = <<c, s[c][k] + 1>>
      <3>1. ASSUME NEW d \in Channel, NEW i \in 1 .. z[d][k], x = <<d, i>>
            PROVE  x \in Events(s, k) \/ x = <<c, s[c][k] + 1>>
        <4>1. d # c => i \in 1 .. s[d][k]
          OBVIOUS
        <4>2. ASSUME d = c
              PROVE  i \in 1 .. s[d][k] \/ i = s[c][k] + 1
          <5>1. z[d][k] = s[c][k] + 1
            BY <4>2
          <5>2. i \in 1 .. s[c][k] + 1
            BY <5>1
          <5>3. i \in 1 .. s[c][k] \/ i = s[c][k] + 1
            BY <2>1, <5>2
          <5> QED BY <4>2, <5>3
        <4> QED BY <3>1, <4>1, <4>2, InEvents
      <3>2. ASSUME NEW d \in Channel, NEW i \in 1 .. s[d][k], x = <<d, i>>
            PROVE  x \in Events(z, k)
        <4>1. d # c => i \in 1 .. z[d][k]
          OBVIOUS
        <4>2. d = c => i \in 1 .. z[d][k]
          BY <2>1
        <4> QED BY <3>2, <4>1, <4>2, InEvents
      <3>3. ASSUME x = <<c, s[c][k] + 1>>
            PROVE  x \in Events(z, k)
        <4>1. s[c][k] + 1 \in 1 .. z[c][k]
          BY <2>1
        <4> QED BY <3>3, <4>1, InEvents
      <3> QED BY <3>1, <3>2, <3>3, InEvents
    <2> QED BY <2>2
  <1>2. <<c, s[c][k] + 1>> \notin Events(s, k)
    <2> SUFFICES ASSUME <<c, s[c][k] + 1>> \in Events(s, k)
                 PROVE  FALSE
      OBVIOUS
    <2>1. PICK d \in Channel : \E i \in 1 .. s[d][k] : <<c, s[c][k] + 1>> = <<d, i>>
      BY InEvents
    <2>2. PICK i \in 1 .. s[d][k] : <<c, s[c][k] + 1>> = <<d, i>>
      BY <2>1
    <2>3. s[c][k] \in Nat /\ d = c /\ i = s[c][k] + 1
      BY <2>2
    <2> QED BY <2>3
  <1>3. IsFiniteSet(Events(s, k))
    BY FiniteEvents
  <1>4. Cardinality(Events(z, k)) = Cardinality(Events(s, k)) + 1
    <2>1. Cardinality(Events(s, k) \cup {<<c, s[c][k] + 1>>}) = Cardinality(Events(s, k)) + 1
      BY <1>2, <1>3, AddOne
    <2> QED BY <1>1, <2>1
  <1>5. ASSUME NEW j \in Counter \ {k}
        PROVE  Events(z, j) = Events(s, j)
    <2>1. \A d \in Channel : z[d][j] = s[d][j]
      OBVIOUS
    <2>2. \A x : x \in Events(z, j) <=> x \in Events(s, j)
      BY <2>1, InEvents
    <2> QED BY <2>2
  <1> QED BY <1>4, <1>5

LEMMA CountersBounded ==
  Shape /\ Bounded => stats \in Counters
  <1> SUFFICES ASSUME Shape, Bounded
               PROVE  stats \in Counters
    OBVIOUS
  <1>1. ASSUME NEW c \in Channel, NEW j \in Counter
        PROVE  stats[c][j] \in 0 .. MaxSends
    <2>1. stats[c][j] \in Nat /\ Pending(j) \in Nat /\ MaxSends \in Nat
      BY Natural, ChannelAssumption DEF Shape
    <2>2. stats[c][j] + Pending(j) <= sends /\ sends \in 0 .. MaxSends
      BY DEF Bounded
    <2> QED BY <2>1, <2>2
  <1>2. \A c \in Channel : stats[c] \in [Counter -> 0 .. MaxSends]
    BY <1>1 DEF Shape
  <1> QED BY <1>2 DEF Shape, Counters

LEMMA Totals ==
  Shape /\ Bounded => \A k \in Counter : Total(k) \in Nat
  BY CountersBounded, FiniteEvents DEF Total

LEMMA NothingCounted ==
  ASSUME stats' = NoStats, NEW k \in Counter
  PROVE  Total(k)' = 0
  <1>1. \A c \in Channel : stats'[c][k] = 0
    BY DEF NoStats
  <1>2. ASSUME NEW x
        PROVE  x \notin Events(stats', k)
    <2> SUFFICES ASSUME x \in Events(stats', k)
                 PROVE  FALSE
      OBVIOUS
    <2>1. PICK c \in Channel : \E i \in 1 .. stats'[c][k] : x = <<c, i>>
      BY InEvents
    <2> QED BY <1>1, <2>1
  <1>3. Events(stats', k) = {}
    BY <1>2
  <1> QED BY <1>3, FS_EmptySet DEF Total

------------------------------------------------------------------------------
(* The books through every step. *)

LEMMA EmptyRing ==
  ASSUME NEW q, q = <<>>, RingBound \in Nat
  PROVE  q \in Seq(1 .. MaxSends) /\ Len(q) <= RingBound
  <1>1. <<>> \in Seq(1 .. MaxSends) /\ Len(<<>>) = 0
    OBVIOUS
  <1>2. 0 <= RingBound
    OBVIOUS
  <1> QED BY <1>1, <1>2

LEMMA InitBooks == Init => Books
  <1> SUFFICES ASSUME Init PROVE Books
    OBVIOUS
  <1>1. Shape /\ \A t \in Thread : at[t] = "idle"
    BY InitInv DEF IInv, Init
  <1>2. NStamping = 0 /\ NPushing = 0 /\ \A k \in Counter : NCounting(k) = 0
    BY <1>1, Numbers
  <1>3. Waiting = 0
    <2>1. queue["toHw"] = <<>> /\ queue["toSw"] = <<>>
      BY DEF Init, Ring
    <2> QED BY <2>1 DEF Waiting
  <1>4. \A k \in Counter : Pending(k) = 0
    BY <1>1, <1>2, <1>3, Natural DEF Counter
  <1>5. MaxSends \in Nat /\ RingBound \in Nat
    BY ChannelAssumption
  <1>6. Bounded
    <2>1. /\ sends = 0 /\ raced = {} /\ nextSeq = 1
          /\ \A t \in Thread : reg[t] = 0
          /\ \A c \in Channel, k \in Counter : stats[c][k] = 0
          /\ \A r \in Ring : queue[r] = <<>>
      BY DEF Init, NoStats
    <2>2. \A r \in Ring : queue[r] \in Seq(1 .. MaxSends) /\ Len(queue[r]) <= RingBound
      BY <1>5, <2>1, EmptyRing
    <2>3. sends \in 0 .. MaxSends /\ nextSeq >= 1 /\ nextSeq + NStamping <= sends + 1
      BY <1>2, <1>5, <2>1
    <2> QED BY <1>1, <1>2, <1>4, <1>5, <2>1, <2>2, <2>3 DEF Bounded
  <1>7. Kinds /\ Opened /\ ~Undisturbed
    BY <1>1 DEF Init, Kinds, Opened, Undisturbed
  <1> QED BY <1>6, <1>7 DEF Books

(* Opening and closing the IPC empties the rings or leaves them, sets the  *)
(* counters back and moves no thread; an opening is undisturbed only if no *)
(* thread has a number or an outcome in its hand.                          *)
LEMMA RestartBooks ==
  ASSUME IInv, ~Crashed, Books, IpcInit \/ IpcShutdown
  PROVE  Books'
  <1>1. Shape' /\ Shape
    BY RestartKeeps DEF IInv
  <1>2. UNCHANGED <<at, call, reg, sends>> /\ stats' = NoStats
    BY DEF IpcInit, IpcShutdown, threads
  <1>3. Numbers' /\ Natural'
    BY Numbers, Natural, PTL
  <1>4. /\ NStamping' = NStamping /\ NPushing' = NPushing
        /\ \A k \in Counter : NCounting(k)' = NCounting(k)
        /\ NStamping \in Nat /\ NPushing \in Nat /\ \A k \in Counter : NCounting(k) \in Nat
    BY <1>2, Numbers DEF NStamping, Stamping, NPushing, Pushing, NCounting, Counting
  <1>5. MaxSends \in Nat /\ RingBound \in Nat /\ sends \in 0 .. MaxSends /\ sends \in Nat
    BY ChannelAssumption DEF Books, Bounded
  <1>6. \A c \in Channel, k \in Counter : stats'[c][k] = 0
    BY <1>2 DEF NoStats
  <1>7. /\ \A q \in Ring : queue'[q] \in {<<>>, queue[q]}
        /\ queue' = queue \/ \A q \in Ring : queue'[q] = <<>>
        /\ nextSeq' \in {1, nextSeq} /\ raced' \in SUBSET {"seq", "stats", "opened"}
    BY DEF IpcInit, IpcShutdown, InHand, Books, Bounded
  <1>8. Waiting' \in Nat /\ Waiting \in Nat /\ Waiting' <= Waiting
    <2>1. Waiting' \in Nat /\ Waiting \in Nat
      BY <1>1, <1>3, Natural
    <2>2. CASE queue' = queue
      <3>1. Waiting' = Waiting
        BY ONLY <2>2 DEF Waiting
      <3> QED BY <2>1, <3>1
    <2>3. CASE \A q \in Ring : queue'[q] = <<>>
      <3>1. queue'["toHw"] = <<>> /\ queue'["toSw"] = <<>>
        BY <2>3 DEF Ring
      <3>2. Waiting' = 0
        BY <3>1, Len(<<>>) = 0 DEF Waiting
      <3> QED BY <2>1, <3>2
    <2> QED BY <1>7, <2>2, <2>3
  <1>9. \A k \in Counter : Pending(k)' \in Nat /\ Pending(k) \in Nat /\ Pending(k)' <= Pending(k)
    BY <1>1, <1>3, <1>4, <1>8, Natural DEF Counter
  <1>10. \A k \in Counter : Pending(k) <= sends
    <2>1. ASSUME NEW k \in Counter
          PROVE  Pending(k) <= sends
      <3>1. 0 \in Channel
        BY ChannelAssumption DEF Channel
      <3>2. stats[0][k] \in Nat /\ stats[0][k] + Pending(k) <= sends
        BY <1>1, <3>1 DEF Shape, Books, Bounded
      <3> QED BY <1>5, <1>9, <3>2
    <2> QED BY <2>1
  <1>11. Bounded'
    <2>1. \A q \in Ring : queue'[q] \in Seq(1 .. MaxSends) /\ Len(queue'[q]) <= RingBound
      BY <1>5, <1>7, EmptyRing DEF Books, Bounded
    <2>2. nextSeq' >= 1 /\ nextSeq' + NStamping' <= sends' + 1
      <3>1. nextSeq \in Nat /\ nextSeq >= 1 /\ nextSeq + NStamping <= sends + 1
        BY <1>1 DEF Shape, Books, Bounded
      <3> QED BY <1>2, <1>4, <1>5, <1>7, <3>1
    <2>3. \A c \in Channel, k \in Counter : stats'[c][k] + Pending(k)' <= sends'
      BY <1>2, <1>5, <1>6, <1>9, <1>10
    <2>4. ASSUME NEW t \in Thread
          PROVE  /\ reg'[t] <= MaxSends
                 /\ at'[t] \in {"bump", "push"} => reg'[t] >= 1
                 /\ at'[t] = "bump" => reg'[t] + NStamping' <= sends' + 1
                 /\ \A k \in Counter :
                      at'[t] = "store" /\ call'[t].counter = k => reg'[t] + Pending(k)' <= sends'
      <3>1. reg[t] \in Nat
        BY <1>1 DEF Shape
      <3>2. /\ reg[t] <= MaxSends
            /\ at[t] \in {"bump", "push"} => reg[t] >= 1
            /\ at[t] = "bump" => reg[t] + NStamping <= sends + 1
            /\ \A k \in Counter :
                 at[t] = "store" /\ call[t].counter = k => reg[t] + Pending(k) <= sends
        BY DEF Books, Bounded
      <3>3. ASSUME NEW k \in Counter, at[t] = "store", call[t].counter = k
            PROVE  reg[t] + Pending(k)' <= sends
        <4>1. /\ Pending(k) \in Nat /\ Pending(k)' \in Nat /\ Pending(k)' <= Pending(k)
              /\ reg[t] + Pending(k) <= sends
          BY <1>9, <3>2, <3>3
        <4> QED BY <1>5, <3>1, <4>1
      <3> QED BY <1>2, <1>4, <3>2, <3>3
    <2>5. sends' \in 0 .. MaxSends
      BY <1>2, <1>5
    <2> QED BY <1>7, <2>1, <2>2, <2>3, <2>4, <2>5 DEF Bounded
  <1>12. Kinds'
    BY <1>2 DEF Books, Kinds
  <1>13. CASE IpcInit
    <2>1. /\ raced' = InHand /\ nextSeq' = 1 /\ count' = 1 /\ rings' = {0}
          /\ \A q \in Ring : queue'[q] = <<>>
      BY <1>13 DEF IpcInit
    <2>2. Opened'
      BY <2>1 DEF Opened
    <2>3. ASSUME Undisturbed'
          PROVE  Loaded' /\ Balance'
      <3>1. \A t \in Thread : at'[t] \notin {"bump", "push", "count", "store"}
        <4>1. InHand = {}
          BY <2>1, <2>3 DEF Undisturbed
        <4>2. ~ \E t \in Thread : at[t] \in {"bump", "push"}
          BY <4>1 DEF InHand
        <4>3. ~ \E t \in Thread : at[t] \in {"count", "store"}
          BY <4>1 DEF InHand
        <4> QED BY <1>2, <4>2, <4>3
      <3>2. NPushing' = 0 /\ \A k \in Counter : NCounting(k)' = 0
        BY <1>3, <3>1, Numbers
      <3>3. Total("tx")' = 0 /\ Total("rx")' = 0 /\ Total("drop")' = 0
        BY <1>2, NothingCounted DEF Counter
      <3>4. Waiting' = 0
        <4>1. queue'["toHw"] = <<>> /\ queue'["toSw"] = <<>>
          BY <2>1 DEF Ring
        <4> QED BY <4>1, Len(<<>>) = 0 DEF Waiting
      <3> QED BY <2>1, <3>1, <3>2, <3>3, <3>4 DEF Loaded, Balance, Counter
    <2> QED BY <1>11, <1>12, <2>2, <2>3 DEF Books
  <1>14. CASE IpcShutdown
    <2>1. Opened' /\ ~Undisturbed'
      BY <1>14 DEF IpcShutdown, Opened, Undisturbed
    <2> QED BY <1>11, <1>12, <2>1 DEF Books
  <1> QED BY <1>13, <1>14

(* Creating and destroying channels moves no thread. *)
LEMMA ChannelsBooks ==
  ASSUME IInv, Books, CreateChannel \/ \E c \in Channel : DestroyChannel(c)
  PROVE  Books'
  <1>1. UNCHANGED <<ready, nextSeq, queue, at, call, reg, sends, raced, cut>>
    BY DEF CreateChannel, DestroyChannel, threads, ghosts
  <1>2. /\ NStamping' = NStamping /\ NPushing' = NPushing /\ Waiting' = Waiting
        /\ \A k \in Counter : NCounting(k)' = NCounting(k) /\ Pending(k)' = Pending(k)
    BY <1>1 DEF NStamping, Stamping, NPushing, Pushing, NCounting, Counting, Waiting, Pending
  <1>3. \A c \in Channel, k \in Counter : stats'[c][k] \in Nat /\ stats'[c][k] <= stats[c][k]
    <2>1. \A c \in Channel, k \in Counter : stats[c][k] \in Nat
      BY DEF IInv, Shape
    <2>2. CASE CreateChannel
      BY <2>1, <2>2 DEF CreateChannel
    <2>3. ASSUME NEW d \in Channel, DestroyChannel(d)
          PROVE  \A c \in Channel, k \in Counter : stats'[c][k] \in {0, stats[c][k]}
      BY <2>3 DEF DestroyChannel, NoStats, IInv, Shape
    <2> QED BY <2>1, <2>2, <2>3
  <1>4. Bounded'
    <2>1. ASSUME NEW c \in Channel, NEW k \in Counter
          PROVE  stats'[c][k] + Pending(k)' <= sends'
      <3>1. /\ stats[c][k] \in Nat /\ Pending(k) \in Nat /\ sends \in Nat
            /\ stats[c][k] + Pending(k) <= sends
        BY Natural, ChannelAssumption DEF IInv, Shape, Books, Bounded
      <3>2. Pending(k)' = Pending(k) /\ stats'[c][k] \in Nat /\ stats'[c][k] <= stats[c][k]
        BY <1>2, <1>3
      <3> QED BY <1>1, <3>1, <3>2
    <2> QED BY <1>1, <1>2, <2>1 DEF Books, Bounded
  <1>5. Kinds'
    BY <1>1 DEF Books, Kinds
  <1>6. count \in Nat /\ rings \subseteq 0 .. count - 1
    BY DEF IInv, Shape, Books, Opened
  <1>7. CASE CreateChannel
    <2>1. count' = count + 1 /\ rings' = rings \cup {count} /\ stats' = stats
      BY <1>7 DEF CreateChannel
    <2>2. Opened'
      BY <1>6, <2>1 DEF Opened
    <2>3. ASSUME Undisturbed'
          PROVE  Undisturbed
      <3>1. rings \cup {count} = 0 .. count
        BY <1>6, <2>1, <2>3 DEF Undisturbed
      <3>2. rings = 0 .. count - 1
        <4>1. ASSUME NEW x
              PROVE  x \in 0 .. count - 1 => x \in rings
          <5>1. x \in 0 .. count - 1 => x \in 0 .. count /\ x # count
            BY <1>6
          <5> QED BY <3>1, <5>1
        <4> QED BY <1>6, <4>1
      <3> QED BY <1>1, <2>3, <3>2 DEF Undisturbed
    <2>4. Loaded /\ Balance => Loaded' /\ Balance'
      BY <1>1, <1>2, <2>1 DEF Loaded, Balance, Total, Counter
    <2> QED BY <1>4, <1>5, <2>2, <2>3, <2>4 DEF Books
  <1>8. ASSUME NEW c \in Channel, DestroyChannel(c)
        PROVE  Books'
    <2>1. count' = count /\ rings' = rings \ {c} /\ c \in 0 .. count - 1
      BY <1>6, <1>8 DEF DestroyChannel, Channel
    <2>2. Opened' /\ ~Undisturbed'
      BY <1>6, <2>1 DEF Opened, Undisturbed
    <2> QED BY <1>4, <1>5, <2>2 DEF Books
  <1> QED BY <1>7, <1>8

(* A call begins. *)
LEMMA BeginBooks ==
  ASSUME IInv, Books, NEW t \in Thread, NEW to \in {"seq", "pop"}, NEW ring \in Ring,
         NEW c \in Channel, Begin(t, to, ring, c), to = "seq" => Producer[ring] = t,
         to = "seq" => sends < MaxSends /\ sends' = sends + 1,
         to = "pop" => sends' = sends
  PROVE  Books'
  <1>1. Shape /\ Shape'
    BY BeginKeeps DEF IInv
  <1>2. /\ UNCHANGED <<ready, count, rings, stats, nextSeq, queue, reg, raced>> /\ cut' = cut \ {t}
        /\ at[t] = "idle" /\ at'[t] = to
        /\ \A u \in Thread : u # t => at'[u] = at[u] /\ call'[u] = call[u] /\ reg'[u] = reg[u]
        /\ to = "seq" => call'[t].counter = "tx"
        /\ to = "pop" => call'[t].counter = "rx"
    BY <1>1 DEF Begin, Goto, table, Shape
  <1>3. Numbers' /\ Natural'
    BY Numbers, Natural, PTL
  <1>4. MaxSends \in Nat /\ sends \in 0 .. MaxSends /\ sends' \in 0 .. MaxSends
    BY ChannelAssumption DEF Books, Bounded
  <1>5. /\ NStamping' = NStamping + (sends' - sends) /\ NPushing' = NPushing
        /\ \A k \in Counter : NCounting(k)' = NCounting(k)
    <2>1. /\ NStamping \in Nat /\ NPushing \in Nat /\ sends \in Nat
          /\ \A k \in Counter : NCounting(k) \in Nat
      BY <1>4, Numbers
    <2>2. Recount(t)
      BY <1>2, Moved
    <2> QED BY <1>2, <2>1, <2>2 DEF Bit, Recount
  <1>6. Waiting' = Waiting
    BY <1>2 DEF Waiting
  <1>7. \A k \in Counter : Pending(k)' = Pending(k) + (sends' - sends) /\ Pending(k) \in Nat
    <2>1. /\ NStamping \in Nat /\ NPushing \in Nat /\ Waiting \in Nat
          /\ \A k \in Counter : NCounting(k) \in Nat
      BY <1>1, Numbers, Natural
    <2> QED BY <1>1, <1>3, <1>4, <1>5, <1>6, <2>1, Natural DEF Counter
  <1>8. Bounded'
    <2>1. \A d \in Channel, k \in Counter : stats'[d][k] + Pending(k)' <= sends'
      <3>1. ASSUME NEW d \in Channel, NEW k \in Counter
            PROVE  stats'[d][k] + Pending(k)' <= sends'
        <4>1. stats[d][k] \in Nat /\ stats[d][k] + Pending(k) <= sends
          BY <1>1 DEF Shape, Books, Bounded
        <4> QED BY <1>2, <1>4, <1>7, <4>1
      <3> QED BY <3>1
    <2>2. nextSeq' >= 1 /\ nextSeq' + NStamping' <= sends' + 1
      <3>1. /\ nextSeq \in Nat /\ NStamping \in Nat /\ nextSeq >= 1
            /\ nextSeq + NStamping <= sends + 1
        BY <1>1, Numbers DEF Shape, Books, Bounded
      <3> DEFINE n == NStamping
                 n1 == NStamping'
                 s == sends
                 s1 == sends'
      <3>2. s \in Nat /\ s1 \in Nat /\ n \in Nat /\ n1 = n + (s1 - s) /\ nextSeq + n <= s + 1
        BY <1>2, <1>4, <1>5, <3>1
      <3> HIDE DEF n, n1, s, s1
      <3>3. nextSeq + n1 <= s1 + 1
        BY <3>1, <3>2
      <3> QED BY <1>2, <3>1, <3>3 DEF n1, s1
    <2>3. /\ reg'[t] <= MaxSends /\ raced' \in SUBSET {"seq", "stats", "opened"}
          /\ \A r \in Ring : queue'[r] \in Seq(1 .. MaxSends) /\ Len(queue'[r]) <= RingBound
      BY <1>2 DEF Books, Bounded
    <2>4. /\ NStamping' <= NStamping + (sends' - sends)
          /\ \A k \in Counter : Pending(k)' <= Pending(k) + (sends' - sends)
      <3> DEFINE d == sends' - sends
      <3>1. d \in Int /\ NStamping \in Nat
        BY <1>4, Numbers
      <3>2. NStamping' = NStamping + d /\ \A k \in Counter : Pending(k)' = Pending(k) + d
        BY <1>5, <1>7
      <3> HIDE DEF d
      <3>3. NStamping' <= NStamping + d /\ \A k \in Counter : Pending(k)' <= Pending(k) + d
        BY <1>7, <3>1, <3>2
      <3> QED BY <3>3 DEF d
    <2>5. at'[t] \notin {"bump", "push", "store"}
      BY <1>2
    <2> QED BY <1>1, <1>2, <1>4, <2>1, <2>2, <2>3, <2>4, <2>5, BoundsKept DEF Books
  <1>9. Kinds' /\ Opened'
    BY <1>2 DEF Books, Kinds, Opened
  <1>10. Undisturbed' => Undisturbed
    BY <1>2 DEF Undisturbed
  <1>11. Loaded /\ Balance => Loaded' /\ Balance'
    BY <1>2, <1>5, <1>6 DEF Loaded, Balance, Total, Counter
  <1> QED BY <1>8, <1>9, <1>10, <1>11 DEF Books

LEMMA EnterBooks ==
  ASSUME IInv, Books, Enter
  PROVE  Books'
  <1>1. 0 \in Channel
    BY ChannelAssumption DEF Channel
  <1>2. "toHw" \in Ring /\ "toSw" \in Ring /\ "app" \in Thread /\ "hw" \in Thread /\ "sw" \in Thread
    BY DEF Ring, Thread
  <1>3. Producer["toHw"] = "app" /\ Producer["toSw"] = "hw"
    BY <1>2 DEF Producer
  <1>4. CASE SendToSw
    BY <1>1, <1>2, <1>3, <1>4, BeginBooks DEF SendToSw
  <1>5. CASE RecvFromSw
    BY <1>1, <1>2, <1>5, BeginBooks DEF RecvFromSw
  <1>6. ASSUME NEW c \in Channel, Send(c)
        PROVE  Books'
    BY <1>2, <1>3, <1>6, BeginBooks DEF Send
  <1>7. ASSUME NEW c \in Channel, Recv(c)
        PROVE  Books'
    BY <1>2, <1>7, BeginBooks DEF Recv
  <1> QED BY <1>4, <1>5, <1>6, <1>7 DEF Enter

(* The sequence number: used up between the two steps by one thread alone, *)
(* unless "seq" is raced.                                                  *)
LEMMA SeqLoadBooks ==
  ASSUME IInv, Books, NEW t \in Thread, SeqLoad(t)
  PROVE  Books'
  <1>1. Shape /\ Shape'
    BY SeqLoadKeeps DEF IInv
  <1>2. /\ UNCHANGED <<ready, count, rings, stats, nextSeq, queue, call, sends>>
        /\ at[t] = "seq" /\ at'[t] = "bump" /\ reg'[t] = nextSeq
        /\ \A u \in Thread : u # t => at'[u] = at[u] /\ call'[u] = call[u] /\ reg'[u] = reg[u]
        /\ raced' \in {raced, raced \cup {"seq"}}
    BY <1>1 DEF SeqLoad, Goto, Loads, table, Shape
  <1>3. Natural'
    BY Natural, PTL
  <1>4. MaxSends \in Nat /\ sends \in 0 .. MaxSends
    BY ChannelAssumption DEF Books, Bounded
  <1>5. /\ NStamping \in Nat /\ NPushing \in Nat /\ NStamping >= 1
        /\ \A k \in Counter : NCounting(k) \in Nat
    BY <1>2, Numbers
  <1>6. /\ NStamping' = NStamping /\ NPushing' = NPushing
        /\ \A k \in Counter : NCounting(k)' = NCounting(k)
    <2>1. Recount(t)
      BY <1>2, Moved
    <2> QED BY <1>2, <1>5, <2>1 DEF Bit, Recount
  <1>7. Waiting' = Waiting
    BY <1>2 DEF Waiting
  <1>8. \A k \in Counter : Pending(k)' = Pending(k)
    BY <1>1, <1>3, <1>6, <1>7, Natural DEF Counter
  <1>9. Bounded'
    <2>1. /\ nextSeq \in Nat /\ nextSeq >= 1 /\ nextSeq + NStamping <= sends + 1
      BY <1>1 DEF Shape, Books, Bounded
    <2>2. nextSeq <= MaxSends
      BY <1>4, <1>5, <2>1
    <2>3. /\ raced' \in SUBSET {"seq", "stats", "opened"}
          /\ \A d \in Channel, k \in Counter : stats'[d][k] + Pending(k)' <= sends'
          /\ \A r \in Ring : queue'[r] \in Seq(1 .. MaxSends) /\ Len(queue'[r]) <= RingBound
      BY <1>2, <1>8 DEF Books, Bounded
    <2>4. /\ NStamping' <= NStamping + (sends' - sends)
          /\ \A k \in Counter : Pending(k)' <= Pending(k) + (sends' - sends)
      <3>1. \A k \in Counter : Pending(k) \in Nat
        BY <1>1, Natural
      <3> QED BY <1>2, <1>4, <1>5, <1>6, <1>8, <3>1
    <2>5. /\ nextSeq' >= 1 /\ nextSeq' + NStamping' <= sends' + 1 /\ sends' \in 0 .. MaxSends
          /\ reg'[t] <= MaxSends /\ reg'[t] >= 1 /\ reg'[t] + NStamping' <= sends' + 1
          /\ at'[t] # "store"
      BY <1>2, <1>4, <1>6, <2>1, <2>2
    <2> QED BY <1>1, <1>2, <2>3, <2>4, <2>5, BoundsKept DEF Books
  <1>10. Kinds' /\ Opened'
    BY <1>2 DEF Books, Kinds, Opened
  <1>11. Undisturbed' => Undisturbed
    BY <1>2 DEF Undisturbed
  <1>12. Loaded /\ Balance => Loaded' /\ Balance'
    BY <1>2, <1>6, <1>7 DEF Loaded, Balance, Total, Counter
  <1> QED BY <1>9, <1>10, <1>11, <1>12 DEF Books

LEMMA SeqStoreBooks ==
  ASSUME IInv, Books, NEW t \in Thread, SeqStore(t)
  PROVE  Books'
  <1>1. Shape /\ Shape'
    BY SeqStoreKeeps DEF IInv
  <1>2. /\ UNCHANGED <<ready, count, rings, stats, queue, call, reg, sends, raced, cut>>
        /\ at[t] = "bump" /\ at'[t] = "push" /\ nextSeq' = reg[t] + 1
        /\ \A u \in Thread : u # t => at'[u] = at[u] /\ call'[u] = call[u] /\ reg'[u] = reg[u]
    BY <1>1 DEF SeqStore, Goto, table, ghosts, Shape
  <1>3. Numbers' /\ Natural'
    BY Numbers, Natural, PTL
  <1>4. MaxSends \in Nat /\ sends \in 0 .. MaxSends
    BY ChannelAssumption DEF Books, Bounded
  <1>5. /\ NStamping \in Nat /\ NPushing \in Nat /\ NStamping' \in Nat
        /\ \A k \in Counter : NCounting(k) \in Nat
    BY <1>3, Numbers
  <1>6. /\ NStamping' = NStamping - 1 /\ NPushing' = NPushing + 1
        /\ \A k \in Counter : NCounting(k)' = NCounting(k)
    <2>1. Recount(t)
      BY <1>2, Moved
    <2> QED BY <1>2, <1>5, <2>1 DEF Bit, Recount
  <1>7. Waiting' = Waiting /\ Waiting \in Nat
    BY <1>1, <1>2, Natural DEF Waiting
  <1>8. \A k \in Counter : Pending(k)' = Pending(k)
    BY <1>1, <1>3, <1>5, <1>6, <1>7, Natural DEF Counter
  <1>9. Bounded'
    <2>1. /\ reg[t] \in Nat /\ reg[t] <= MaxSends /\ reg[t] >= 1 /\ reg[t] + NStamping <= sends + 1
      BY <1>1, <1>2 DEF Shape, Books, Bounded
    <2>2. /\ raced' \in SUBSET {"seq", "stats", "opened"} /\ sends' \in 0 .. MaxSends
          /\ \A d \in Channel, k \in Counter : stats'[d][k] + Pending(k)' <= sends'
          /\ \A r \in Ring : queue'[r] \in Seq(1 .. MaxSends) /\ Len(queue'[r]) <= RingBound
      BY <1>2, <1>8 DEF Books, Bounded
    <2>3. /\ NStamping' <= NStamping + (sends' - sends)
          /\ \A k \in Counter : Pending(k)' <= Pending(k) + (sends' - sends)
      <3>1. \A k \in Counter : Pending(k) \in Nat
        BY <1>1, Natural
      <3> QED BY <1>2, <1>4, <1>5, <1>6, <1>8, <3>1
    <2>4. /\ nextSeq' >= 1 /\ nextSeq' + NStamping' <= sends' + 1
          /\ reg'[t] <= MaxSends /\ reg'[t] >= 1
          /\ at'[t] \notin {"bump", "store"}
      BY <1>2, <1>4, <1>5, <1>6, <2>1
    <2> QED BY <1>1, <1>2, <2>2, <2>3, <2>4, BoundsKept DEF Books
  <1>10. Kinds' /\ Opened'
    BY <1>2 DEF Books, Kinds, Opened
  <1>11. Undisturbed' => Undisturbed
    BY <1>2 DEF Undisturbed
  <1>12. Undisturbed => nextSeq' = nextSeq + 1
    BY <1>2 DEF Undisturbed, IInv, Stamped
  <1>13. Loaded => Loaded'
    BY <1>2 DEF Loaded
  <1>14. Undisturbed /\ Balance => Balance'
    <2>1. Total("tx") \in Nat /\ Total("rx") \in Nat /\ Total("drop") \in Nat
      BY <1>1, Totals DEF Books, Counter
    <2>2. Total("tx")' = Total("tx") /\ Total("rx")' = Total("rx") /\ Total("drop")' = Total("drop")
      BY <1>2 DEF Total
    <2>3. /\ NCounting("tx") \in Nat /\ NCounting("rx") \in Nat /\ NCounting("drop") \in Nat
          /\ NCounting("tx")' = NCounting("tx") /\ NCounting("rx")' = NCounting("rx")
          /\ NCounting("drop")' = NCounting("drop")
      BY <1>5, <1>6 DEF Counter
    <2> QED BY <1>5, <1>6, <1>7, <1>12, <2>1, <2>2, <2>3 DEF Balance
  <1> QED BY <1>9, <1>10, <1>11, <1>13, <1>14 DEF Books

(* One message more or less in one ring. *)
LEMMA OneRing ==
  ASSUME Shape, Shape', NEW r \in Ring, NEW d \in Int, Len(queue'[r]) = Len(queue[r]) + d,
         \A s \in Ring : s # r => queue'[s] = queue[s]
  PROVE  Waiting' = Waiting + d
  <1> DEFINE m == Len(queue["toHw"])
             n == Len(queue["toSw"])
             m1 == Len(queue'["toHw"])
             n1 == Len(queue'["toSw"])
  <1>1. m \in Nat /\ n \in Nat
    BY DEF Shape, Ring
  <1>2. \/ m1 = m + d /\ n1 = n
        \/ m1 = m /\ n1 = n + d
    BY DEF Ring
  <1>3. Waiting = m + n /\ Waiting' = m1 + n1
    BY DEF Waiting
  <1> HIDE DEF m, n, m1, n1
  <1> QED BY <1>1, <1>2, <1>3

(* The rings. *)
LEMMA PushBooks ==
  ASSUME IInv, Books, NEW t \in Thread, Push(t)
  PROVE  Books'
  <1> DEFINE r == call[t].ring
             q == queue[r]
  <1>1. Shape /\ Shape'
    BY PushKeeps DEF IInv
  <1>2. /\ UNCHANGED <<ready, count, rings, stats, nextSeq, reg, sends, raced, cut>>
        /\ at[t] = "push" /\ at'[t] = "count"
        /\ \A u \in Thread : u # t => at'[u] = at[u] /\ call'[u] = call[u] /\ reg'[u] = reg[u]
        /\ r \in Ring /\ q \in Seq(1 .. MaxSends) /\ Len(q) <= RingBound
        /\ call[t].counter = "tx"
    BY <1>1 DEF Push, Goto, table, ghosts, Shape, Calls, Books, Bounded, Kinds
  <1>3. Numbers' /\ Natural'
    BY Numbers, Natural, PTL
  <1>4. /\ MaxSends \in Nat /\ sends \in 0 .. MaxSends /\ sends \in Nat
        /\ RingBound \in Nat /\ Len(q) \in Nat
    BY <1>2, ChannelAssumption DEF Books, Bounded
  <1>5. /\ NStamping \in Nat /\ NPushing \in Nat /\ NPushing' \in Nat
        /\ NCounting("tx") \in Nat /\ NCounting("rx") \in Nat /\ NCounting("drop") \in Nat
    BY <1>3, Numbers DEF Counter
  <1>6. reg[t] \in 1 .. MaxSends
    <2>1. reg[t] \in Nat /\ reg[t] <= MaxSends /\ reg[t] >= 1
      BY <1>1, <1>2 DEF Shape, Books, Bounded
    <2> QED BY <1>4, <2>1
  <1>7. \/ /\ Len(q) < RingBound
           /\ queue' = [queue EXCEPT ![r] = Append(q, reg[t])] /\ call' = call
        \/ /\ queue' = queue /\ call'[t].counter = "drop"
    <2>1. CASE Len(q) < RingBound
      BY <2>1 DEF Push
    <2>2. CASE ~ (Len(q) < RingBound)
      <3>1. queue' = queue /\ call' = [call EXCEPT ![t] = [call[t] EXCEPT !.counter = "drop"]]
        BY <2>2 DEF Push
      <3>2. call \in [Thread -> Calls] /\ call[t] \in [ring : Ring, channel : Channel, counter : Counter]
        BY <1>1 DEF Shape, Calls
      <3> QED BY <3>1, <3>2
    <2> QED BY <2>1, <2>2
  <1>8. /\ NStamping' = NStamping /\ NPushing' = NPushing - 1
        /\ NCounting("rx")' = NCounting("rx")
        /\ \/ /\ NCounting("tx")' = NCounting("tx") + 1 /\ NCounting("drop")' = NCounting("drop")
              /\ Waiting' = Waiting + 1
           \/ /\ NCounting("tx")' = NCounting("tx") /\ NCounting("drop")' = NCounting("drop") + 1
              /\ Waiting' = Waiting
    <2>1. Recount(t)
      BY <1>2, Moved
    <2>2. NStamping' = NStamping /\ NPushing' = NPushing - 1
      BY <1>2, <1>5, <2>1 DEF Bit, Recount
    <2>3. \A k \in Counter : NCounting(k) \in Nat
                             /\ NCounting(k)' = NCounting(k) + Bit(call'[t].counter = k)
      BY <1>2, <2>1, Numbers DEF Bit, Recount
    <2>4. /\ NCounting("tx")' = NCounting("tx") + Bit(call'[t].counter = "tx")
          /\ NCounting("rx")' = NCounting("rx") + Bit(call'[t].counter = "rx")
          /\ NCounting("drop")' = NCounting("drop") + Bit(call'[t].counter = "drop")
      BY <2>3 DEF Counter
    <2>5. CASE queue' = [queue EXCEPT ![r] = Append(q, reg[t])] /\ call' = call
      <3>1. Waiting' = Waiting + 1
        <4>1. Len(Append(q, reg[t])) = Len(q) + 1
          BY <1>2, <1>6
        <4>2. queue'[r] = Append(q, reg[t]) /\ \A s \in Ring : s # r => queue'[s] = queue[s]
          BY <1>1, <1>2, <2>5 DEF Shape
        <4>3. Len(queue'[r]) = Len(queue[r]) + 1
          BY <4>1, <4>2
        <4>4. /\ r \in Ring /\ Len(queue'[r]) = Len(queue[r]) + 1
              /\ \A s \in Ring : s # r => queue'[s] = queue[s]
          BY <1>2, <4>2, <4>3
        <4> HIDE DEF r, q
        <4> QED BY <1>1, <4>4, OneRing
      <3> QED BY <1>2, <1>5, <2>2, <2>4, <2>5, <3>1 DEF Bit
    <2>6. CASE queue' = queue /\ call'[t].counter = "drop"
      <3>1. Waiting' = Waiting
        BY <2>6 DEF Waiting
      <3> QED BY <1>5, <2>2, <2>4, <2>6, <3>1 DEF Bit
    <2> QED BY <1>7, <2>5, <2>6
  <1>9. Waiting \in Nat
    BY <1>1, Natural
  <1>10. \A k \in Counter : Pending(k)' <= Pending(k) /\ Pending(k)' \in Nat /\ Pending(k) \in Nat
    <2>1. /\ Pending("rx") = NStamping + NPushing + Waiting + NCounting("rx")
          /\ Pending("tx") = NStamping + NPushing + NCounting("tx") + NCounting("drop")
          /\ Pending("drop") = Pending("tx")
      BY <1>1, Natural
    <2>2. /\ Pending("rx")' = NStamping' + NPushing' + Waiting' + NCounting("rx")'
          /\ Pending("tx")' = NStamping' + NPushing' + NCounting("tx")' + NCounting("drop")'
          /\ Pending("drop")' = Pending("tx")'
          /\ \A k \in Counter : Pending(k)' \in Nat
      BY <1>1, <1>3
    <2>3. Pending("rx")' <= Pending("rx")
      BY <1>5, <1>8, <1>9, <2>1, <2>2
    <2>4. Pending("tx")' <= Pending("tx")
      BY <1>5, <1>8, <1>9, <2>1, <2>2
    <2>5. Pending("drop")' <= Pending("drop")
      BY <2>1, <2>2, <2>4
    <2> QED BY <1>1, <2>2, <2>3, <2>4, <2>5, Natural DEF Counter
  <1>11. Bounded'
    <2>1. \A s \in Ring : queue'[s] \in Seq(1 .. MaxSends) /\ Len(queue'[s]) <= RingBound
      <3>1. \A s \in Ring : queue[s] \in Seq(1 .. MaxSends) /\ Len(queue[s]) <= RingBound
        BY DEF Books, Bounded
      <3>2. CASE Len(q) < RingBound /\ queue' = [queue EXCEPT ![r] = Append(q, reg[t])]
        <4>1. Append(q, reg[t]) \in Seq(1 .. MaxSends) /\ Len(Append(q, reg[t])) = Len(q) + 1
          BY <1>2, <1>6
        <4>2. Len(q) + 1 <= RingBound
          BY <1>4, <3>2
        <4>3. queue'[r] = Append(q, reg[t]) /\ \A s \in Ring : s # r => queue'[s] = queue[s]
          BY <1>1, <1>2, <3>2 DEF Shape
        <4> HIDE DEF r, q
        <4> QED BY <3>1, <4>1, <4>2, <4>3
      <3> QED BY <1>7, <3>1, <3>2
    <2>2. \A d \in Channel, k \in Counter : stats'[d][k] + Pending(k)' <= sends'
      <3>1. ASSUME NEW d \in Channel, NEW k \in Counter
            PROVE  stats'[d][k] + Pending(k)' <= sends'
        <4>1. stats[d][k] \in Nat /\ stats[d][k] + Pending(k) <= sends
          BY <1>1 DEF Shape, Books, Bounded
        <4> DEFINE a == stats[d][k]
                   p == Pending(k)
                   p1 == Pending(k)'
        <4>2. a \in Nat /\ p \in Nat /\ p1 \in Nat /\ sends \in Nat /\ p1 <= p /\ a + p <= sends
          BY <1>4, <1>10, <4>1
        <4> HIDE DEF a, p, p1
        <4>3. a + p1 <= sends
          BY <4>2
        <4> QED BY <1>2, <4>3 DEF a, p1
      <3> QED BY <3>1
    <2>3. /\ nextSeq' >= 1 /\ nextSeq' + NStamping' <= sends' + 1
          /\ sends' \in 0 .. MaxSends /\ raced' \in SUBSET {"seq", "stats", "opened"} /\ reg'[t] <= MaxSends
      BY <1>2, <1>8 DEF Books, Bounded
    <2>4. /\ NStamping' <= NStamping + (sends' - sends)
          /\ \A k \in Counter : Pending(k)' <= Pending(k) + (sends' - sends)
      BY <1>2, <1>4, <1>5, <1>8, <1>10
    <2>5. at'[t] \notin {"bump", "push", "store"}
      BY <1>2
    <2> QED BY <1>1, <1>2, <2>1, <2>2, <2>3, <2>4, <2>5, BoundsKept DEF Books
  <1>12. Kinds' /\ Opened'
    BY <1>2 DEF Books, Kinds, Opened
  <1>13. Undisturbed' => Undisturbed
    BY <1>2 DEF Undisturbed
  <1>14. Loaded => Loaded'
    BY <1>2 DEF Loaded
  <1>15. Balance => Balance'
    <2>1. Total("tx") \in Nat /\ Total("rx") \in Nat /\ Total("drop") \in Nat
      BY <1>1, Totals DEF Books, Counter
    <2>2. /\ Total("tx")' = Total("tx") /\ Total("rx")' = Total("rx")
          /\ Total("drop")' = Total("drop") /\ nextSeq' = nextSeq
      BY <1>2 DEF Total
    <2> QED BY <1>5, <1>8, <1>9, <2>1, <2>2 DEF Balance
  <1> QED BY <1>11, <1>12, <1>13, <1>14, <1>15 DEF Books

LEMMA PopBooks ==
  ASSUME IInv, Books, NEW t \in Thread, Pop(t)
  PROVE  Books'
  <1> DEFINE r == call[t].ring
             q == queue[r]
  <1>1. Shape /\ Shape'
    BY PopKeeps DEF IInv
  <1>2. /\ UNCHANGED <<ready, count, rings, stats, nextSeq, call, reg, sends, raced, cut>>
        /\ at[t] = "pop" /\ at'[t] = "count" /\ call[t].counter = "rx"
        /\ \A u \in Thread : u # t => at'[u] = at[u] /\ call'[u] = call[u] /\ reg'[u] = reg[u]
        /\ r \in Ring /\ q \in Seq(1 .. MaxSends) /\ Len(q) <= RingBound /\ q # <<>>
        /\ queue' = [queue EXCEPT ![r] = Tail(q)]
    BY <1>1 DEF Pop, Goto, table, ghosts, Shape, Calls, Books, Bounded, Kinds
  <1>3. Numbers' /\ Natural'
    BY Numbers, Natural, PTL
  <1>4. /\ MaxSends \in Nat /\ sends \in 0 .. MaxSends /\ sends \in Nat
        /\ RingBound \in Nat /\ Len(q) \in Nat
    BY <1>2, ChannelAssumption DEF Books, Bounded
  <1>5. /\ NStamping \in Nat /\ NPushing \in Nat
        /\ NCounting("tx") \in Nat /\ NCounting("rx") \in Nat /\ NCounting("drop") \in Nat
    BY Numbers DEF Counter
  <1>6. Tail(q) \in Seq(1 .. MaxSends) /\ Len(Tail(q)) = Len(q) - 1
    <2>1. q \in Seq(1 .. MaxSends) /\ q # <<>>
      BY <1>2
    <2> HIDE DEF q
    <2> QED BY <2>1
  <1>7. Waiting \in Nat /\ Waiting' = Waiting - 1
    <2>1. queue'[r] = Tail(q) /\ \A s \in Ring : s # r => queue'[s] = queue[s]
      BY <1>1, <1>2 DEF Shape
    <2>2. -1 \in Int /\ Len(q) - 1 = Len(q) + -1
      BY <1>4
    <2>3. Len(queue'[r]) = Len(queue[r]) + -1
      BY <1>6, <2>1, <2>2
    <2>4. Waiting \in Nat /\ Waiting' = Waiting + -1
      BY <1>1, <1>2, <2>1, <2>2, <2>3, OneRing, Natural
    <2> HIDE DEF r, q
    <2> QED BY <2>4
  <1>8. /\ NStamping' = NStamping /\ NPushing' = NPushing
        /\ NCounting("rx")' = NCounting("rx") + 1
        /\ NCounting("tx")' = NCounting("tx") /\ NCounting("drop")' = NCounting("drop")
    <2>1. Recount(t)
      BY <1>2, Moved
    <2>2. NStamping' = NStamping /\ NPushing' = NPushing
      BY <1>2, <1>5, <2>1 DEF Bit, Recount
    <2>3. \A k \in Counter : NCounting(k) \in Nat
                             /\ NCounting(k)' = NCounting(k) + Bit(k = "rx")
      BY <1>2, <2>1, Numbers DEF Bit, Recount
    <2> QED BY <1>5, <2>2, <2>3 DEF Bit, Counter
  <1>9. \A k \in Counter : Pending(k)' = Pending(k) /\ Pending(k) \in Nat
    BY <1>1, <1>3, <1>5, <1>7, <1>8, Natural DEF Counter
  <1>10. Bounded'
    <2>1. \A s \in Ring : queue'[s] \in Seq(1 .. MaxSends) /\ Len(queue'[s]) <= RingBound
      <3>1. \A s \in Ring : queue[s] \in Seq(1 .. MaxSends) /\ Len(queue[s]) <= RingBound
        BY DEF Books, Bounded
      <3>2. queue'[r] = Tail(q) /\ \A s \in Ring : s # r => queue'[s] = queue[s]
        BY <1>1, <1>2 DEF Shape
      <3>3. Len(q) - 1 <= RingBound
        BY <1>2, <1>4
      <3> HIDE DEF r, q
      <3> QED BY <1>6, <3>1, <3>2, <3>3
    <2>2. /\ \A d \in Channel, k \in Counter : stats'[d][k] + Pending(k)' <= sends'
          /\ nextSeq' >= 1 /\ nextSeq' + NStamping' <= sends' + 1
          /\ sends' \in 0 .. MaxSends /\ raced' \in SUBSET {"seq", "stats", "opened"} /\ reg'[t] <= MaxSends
      BY <1>2, <1>8, <1>9 DEF Books, Bounded
    <2>3. /\ NStamping' <= NStamping + (sends' - sends)
          /\ \A k \in Counter : Pending(k)' <= Pending(k) + (sends' - sends)
      BY <1>2, <1>4, <1>5, <1>8, <1>9
    <2>4. at'[t] \notin {"bump", "push", "store"}
      BY <1>2
    <2> QED BY <1>1, <1>2, <2>1, <2>2, <2>3, <2>4, BoundsKept DEF Books
  <1>11. Kinds' /\ Opened'
    BY <1>2 DEF Books, Kinds, Opened
  <1>12. Undisturbed' => Undisturbed
    BY <1>2 DEF Undisturbed
  <1>13. Loaded => Loaded'
    BY <1>2 DEF Loaded
  <1>14. Balance => Balance'
    <2>1. Total("tx") \in Nat /\ Total("rx") \in Nat /\ Total("drop") \in Nat
      BY <1>1, Totals DEF Books, Counter
    <2>2. /\ Total("tx")' = Total("tx") /\ Total("rx")' = Total("rx")
          /\ Total("drop")' = Total("drop") /\ nextSeq' = nextSeq
      BY <1>2 DEF Total
    <2> QED BY <1>5, <1>7, <1>8, <2>1, <2>2 DEF Balance
  <1> QED BY <1>10, <1>11, <1>12, <1>13, <1>14 DEF Books

(* A call ends without a message, or dies. *)
LEMMA LeaveBooks ==
  ASSUME IInv, Books, NEW t \in Thread, NothingThere(t) \/ Fault(t)
  PROVE  Books'
  <1>1. Shape /\ Shape'
    BY LeaveKeeps DEF IInv
  <1>2. /\ UNCHANGED <<ready, count, rings, stats, nextSeq, queue, call, reg, sends, raced, cut>>
        /\ at[t] \in {"push", "pop"} /\ at'[t] \in {"idle", "faulted"}
        /\ at[t] = "push" => Fault(t)
        /\ \A u \in Thread : u # t => at'[u] = at[u] /\ call'[u] = call[u] /\ reg'[u] = reg[u]
    BY <1>1 DEF NothingThere, Fault, Goto, table, ghosts, Shape
  <1>3. Numbers' /\ Natural'
    BY Numbers, Natural, PTL
  <1>4. MaxSends \in Nat /\ sends \in 0 .. MaxSends /\ sends \in Nat
    BY ChannelAssumption DEF Books, Bounded
  <1>5. /\ NStamping \in Nat /\ NPushing \in Nat /\ NPushing' \in Nat
        /\ \A k \in Counter : NCounting(k) \in Nat
    BY <1>3, Numbers
  <1>6. /\ NStamping' = NStamping /\ NPushing' = NPushing - Bit(at[t] = "push")
        /\ \A k \in Counter : NCounting(k)' = NCounting(k)
    <2>1. Recount(t)
      BY <1>2, Moved
    <2> QED BY <1>2, <1>5, <2>1 DEF Bit, Recount
  <1>7. Waiting' = Waiting /\ Waiting \in Nat
    BY <1>1, <1>2, Natural DEF Waiting
  <1>8. \A k \in Counter : Pending(k)' <= Pending(k) /\ Pending(k)' \in Nat /\ Pending(k) \in Nat
    <2>1. NPushing' <= NPushing
      BY <1>5, <1>6 DEF Bit
    <2> QED BY <1>1, <1>3, <1>5, <1>6, <1>7, <2>1, Natural DEF Counter
  <1>9. Bounded'
    <2>1. \A d \in Channel, k \in Counter : stats'[d][k] + Pending(k)' <= sends'
      <3>1. ASSUME NEW d \in Channel, NEW k \in Counter
            PROVE  stats'[d][k] + Pending(k)' <= sends'
        <4> DEFINE a == stats[d][k]
                   p == Pending(k)
                   p1 == Pending(k)'
        <4>1. a \in Nat /\ a + p <= sends
          BY <1>1 DEF Shape, Books, Bounded
        <4>2. p \in Nat /\ p1 \in Nat /\ p1 <= p
          BY <1>8
        <4> HIDE DEF a, p, p1
        <4>3. a + p1 <= sends
          BY <1>4, <4>1, <4>2
        <4> QED BY <1>2, <4>3 DEF a, p1
      <3> QED BY <3>1
    <2>2. /\ nextSeq' >= 1 /\ nextSeq' + NStamping' <= sends' + 1
          /\ sends' \in 0 .. MaxSends /\ raced' \in SUBSET {"seq", "stats", "opened"} /\ reg'[t] <= MaxSends
          /\ \A r \in Ring : queue'[r] \in Seq(1 .. MaxSends) /\ Len(queue'[r]) <= RingBound
      BY <1>2, <1>6 DEF Books, Bounded
    <2>3. /\ NStamping' <= NStamping + (sends' - sends)
          /\ \A k \in Counter : Pending(k)' <= Pending(k) + (sends' - sends)
      BY <1>2, <1>4, <1>5, <1>6, <1>8
    <2>4. at'[t] \notin {"bump", "push", "store"}
      BY <1>2
    <2> QED BY <1>1, <1>2, <2>1, <2>2, <2>3, <2>4, BoundsKept DEF Books
  <1>10. Kinds' /\ Opened'
    BY <1>2 DEF Books, Kinds, Opened
  <1>11. CASE at[t] = "push"
    <2>1. call[t].channel \notin rings /\ call[t].channel \in 0 .. count - 1
      <3>1. t = "app"
        <4>1. Producer[call[t].ring] = t /\ call[t].ring \in Ring /\ t # "hw"
          BY <1>1, <1>2, <1>11 DEF Fault, NullRing, IInv, Roles, Shape, Calls
        <4> QED BY <4>1 DEF Producer
      <3> QED BY <1>2, <1>11, <3>1 DEF Fault, NullRing, IInv, Inside
    <2>2. ~Undisturbed'
      BY <1>2, <2>1 DEF Undisturbed
    <2> QED BY <1>9, <1>10, <2>2 DEF Books
  <1>12. CASE at[t] = "pop"
    <2>1. Undisturbed' => Undisturbed
      BY <1>2 DEF Undisturbed
    <2>2. NPushing' = NPushing
      BY <1>5, <1>6, <1>12 DEF Bit
    <2>3. Loaded /\ Balance => Loaded' /\ Balance'
      BY <1>2, <1>6, <1>7, <2>2 DEF Loaded, Balance, Total, Counter
    <2> QED BY <1>9, <1>10, <2>1, <2>3 DEF Books
  <1> QED BY <1>2, <1>11, <1>12

(* The counters. *)
LEMMA CountLoadBooks ==
  ASSUME IInv, Books, NEW t \in Thread, CountLoad(t)
  PROVE  Books'
  <1>1. Shape /\ Shape'
    BY CountKeeps DEF IInv
  <1>2. /\ UNCHANGED <<ready, count, rings, stats, nextSeq, queue, call, sends>>
        /\ at[t] = "count" /\ at'[t] = "store"
        /\ reg'[t] = stats[call[t].channel][call[t].counter]
        /\ \A u \in Thread : u # t => at'[u] = at[u] /\ call'[u] = call[u] /\ reg'[u] = reg[u]
        /\ call[t].channel \in Channel /\ call[t].counter \in Counter
    BY <1>1 DEF CountLoad, Goto, Loads, table, Shape, Calls
  <1>3. /\ raced' \in {raced, raced \cup {"stats"}}
        /\ "stats" \notin raced' => \A u \in Thread :
             ~ (at[u] = "store" /\ call[u].channel = call[t].channel
                                /\ call[u].counter = call[t].counter)
    BY DEF CountLoad
  <1>4. MaxSends \in Nat /\ sends \in 0 .. MaxSends /\ sends \in Nat
    BY ChannelAssumption DEF Books, Bounded
  <1>5. /\ NStamping \in Nat /\ NPushing \in Nat
        /\ \A k \in Counter : NCounting(k) \in Nat
    BY Numbers
  <1>6. /\ NStamping' = NStamping /\ NPushing' = NPushing
        /\ \A k \in Counter : NCounting(k)' = NCounting(k)
    <2>1. Recount(t)
      BY <1>2, Moved
    <2> QED BY <1>2, <1>5, <2>1 DEF Bit, Recount
  <1>7. Waiting' = Waiting
    BY <1>2 DEF Waiting
  <1>8. Natural'
    BY Natural, PTL
  <1>9. \A k \in Counter : Pending(k)' = Pending(k) /\ Pending(k) \in Nat
    BY <1>1, <1>6, <1>7, <1>8, Natural DEF Counter
  <1>10. Bounded'
    <2>1. reg'[t] <= MaxSends /\ \A k \in Counter : call'[t].counter = k => reg'[t] + Pending(k)' <= sends'
      <3> DEFINE c == call[t].channel
                 k == call[t].counter
                 a == stats[c][k]
                 p == Pending(k)
      <3>1. a \in Nat /\ a + p <= sends /\ p \in Nat
        BY <1>1, <1>2, <1>9 DEF Shape, Books, Bounded
      <3>2. reg'[t] = a /\ Pending(k)' = p /\ sends' = sends /\ call'[t].counter = k
        BY <1>2, <1>9
      <3>3. \A j \in Counter : call'[t].counter = j => Pending(j)' = p
        BY <1>2, <1>9
      <3> HIDE DEF a, p, c, k
      <3>4. a <= MaxSends
        BY <1>4, <3>1
      <3> QED BY <3>1, <3>2, <3>3, <3>4
    <2>2. /\ \A d \in Channel, k \in Counter : stats'[d][k] + Pending(k)' <= sends'
          /\ nextSeq' >= 1 /\ nextSeq' + NStamping' <= sends' + 1
          /\ sends' \in 0 .. MaxSends /\ raced' \in SUBSET {"seq", "stats", "opened"}
          /\ \A r \in Ring : queue'[r] \in Seq(1 .. MaxSends) /\ Len(queue'[r]) <= RingBound
      BY <1>2, <1>3, <1>6, <1>9 DEF Books, Bounded
    <2>3. /\ NStamping' <= NStamping + (sends' - sends)
          /\ \A k \in Counter : Pending(k)' <= Pending(k) + (sends' - sends)
      BY <1>2, <1>4, <1>5, <1>6, <1>9
    <2>4. at'[t] \notin {"bump", "push"}
      BY <1>2
    <2> QED BY <1>1, <1>2, <2>1, <2>2, <2>3, <2>4, BoundsKept DEF Books
  <1>11. Kinds' /\ Opened'
    BY <1>2 DEF Books, Kinds, Opened
  <1>12. Undisturbed' => Undisturbed /\ "stats" \notin raced'
    BY <1>2, <1>3 DEF Undisturbed
  <1>13. Undisturbed' /\ Loaded => Loaded'
    <2> SUFFICES ASSUME Undisturbed', Loaded
                 PROVE  Loaded'
      OBVIOUS
    <2>1. \A u \in Thread : at'[u] = "store" => reg'[u] = stats'[call'[u].channel][call'[u].counter]
      BY <1>2 DEF Loaded
    <2>2. \A u \in Thread : ~ (at[u] = "store" /\ call[u].channel = call[t].channel
                                               /\ call[u].counter = call[t].counter)
      BY <1>3, <1>12
    <2>3. ASSUME NEW u \in Thread, NEW v \in Thread, at'[u] = "store", at'[v] = "store",
                 call'[u].channel = call'[v].channel, call'[u].counter = call'[v].counter
          PROVE  u = v
      <3>1. call' = call
        BY <1>2
      <3>2. CASE u = t
        BY <1>2, <2>2, <2>3, <3>1, <3>2
      <3>3. CASE v = t
        BY <1>2, <2>2, <2>3, <3>1, <3>3
      <3>4. CASE u # t /\ v # t
        BY <1>2, <2>3, <3>1, <3>4 DEF Loaded
      <3> QED BY <3>2, <3>3, <3>4
    <2> QED BY <2>1, <2>3 DEF Loaded
  <1>14. Balance => Balance'
    BY <1>2, <1>6, <1>7 DEF Balance, Total, Counter
  <1> QED BY <1>10, <1>11, <1>12, <1>13, <1>14 DEF Books

LEMMA CountStoreBooks ==
  ASSUME IInv, Books, NEW t \in Thread, CountStore(t)
  PROVE  Books'
  <1>1. Shape /\ Shape'
    BY CountKeeps DEF IInv
  <1> SUFFICES ASSUME NEW c \in Channel, NEW k \in Counter,
                      call[t].channel = c, call[t].counter = k
               PROVE  Books'
    BY <1>1 DEF Shape, Calls
  <1>2. /\ UNCHANGED <<ready, count, rings, nextSeq, queue, call, reg, sends, raced, cut>>
        /\ at[t] = "store" /\ at'[t] = "idle"
        /\ \A u \in Thread : u # t => at'[u] = at[u] /\ call'[u] = call[u] /\ reg'[u] = reg[u]
        /\ reg[t] \in Nat
    BY <1>1 DEF CountStore, Goto, table, ghosts, Shape, Calls
  <1>3. /\ stats'[c][k] = reg[t] + 1
        /\ \A d \in Channel, j \in Counter : <<d, j>> # <<c, k>> => stats'[d][j] = stats[d][j]
    <2>1. stats' = [stats EXCEPT ![c] = [stats[c] EXCEPT ![k] = reg[t] + 1]]
      BY DEF CountStore
    <2>2. stats \in [Channel -> [Counter -> Nat]] /\ stats[c] \in [Counter -> Nat]
      BY <1>1, <1>2 DEF Shape
    <2>3. stats'[c] = [stats[c] EXCEPT ![k] = reg[t] + 1]
      BY <1>2, <2>1, <2>2
    <2>4. \A d \in Channel : d # c => stats'[d] = stats[d]
      BY <1>2, <2>1, <2>2
    <2>5. stats'[c][k] = reg[t] + 1 /\ \A j \in Counter : j # k => stats'[c][j] = stats[c][j]
      BY <1>2, <2>2, <2>3
    <2> QED BY <2>4, <2>5
  <1>4. MaxSends \in Nat /\ sends \in 0 .. MaxSends /\ sends \in Nat
    BY ChannelAssumption DEF Books, Bounded
  <1>5. Numbers' /\ Natural'
    BY Numbers, Natural, PTL
  <1>6. /\ NStamping \in Nat /\ NPushing \in Nat
        /\ \A j \in Counter : NCounting(j) \in Nat /\ NCounting(j)' \in Nat
    BY <1>5, Numbers
  <1>7. /\ NStamping' = NStamping /\ NPushing' = NPushing
        /\ NCounting(k)' = NCounting(k) - 1
        /\ \A j \in Counter : j # k => NCounting(j)' = NCounting(j)
    <2>1. Recount(t)
      BY <1>2, Moved
    <2>2. \A j \in Counter : NCounting(j)' = NCounting(j) - Bit(k = j) + Bit(FALSE)
      BY <1>2, <2>1 DEF Recount
    <2>3. NStamping' = NStamping /\ NPushing' = NPushing
      BY <1>2, <1>6, <2>1 DEF Bit, Recount
    <2> QED BY <1>2, <1>6, <2>2, <2>3 DEF Bit
  <1>8. Waiting' = Waiting /\ Waiting \in Nat
    BY <1>1, <1>2, Natural DEF Waiting
  <1>9. /\ \A j \in Counter : Pending(j)' <= Pending(j) /\ Pending(j)' \in Nat /\ Pending(j) \in Nat
        /\ Pending(k)' = Pending(k) - 1
    <2>1. /\ Pending("rx") = NStamping + NPushing + Waiting + NCounting("rx")
          /\ Pending("tx") = NStamping + NPushing + NCounting("tx") + NCounting("drop")
          /\ Pending("drop") = Pending("tx")
          /\ \A j \in Counter : Pending(j) \in Nat
      BY <1>1, Natural
    <2>2. /\ Pending("rx")' = NStamping' + NPushing' + Waiting' + NCounting("rx")'
          /\ Pending("tx")' = NStamping' + NPushing' + NCounting("tx")' + NCounting("drop")'
          /\ Pending("drop")' = Pending("tx")'
          /\ \A j \in Counter : Pending(j)' \in Nat
      BY <1>1, <1>5
    <2>3. k = "rx" => Pending("rx")' = Pending("rx") - 1 /\ Pending("tx")' = Pending("tx")
      BY <1>6, <1>7, <1>8, <2>1, <2>2 DEF Counter
    <2>4. k = "tx" => Pending("tx")' = Pending("tx") - 1 /\ Pending("rx")' = Pending("rx")
      BY <1>6, <1>7, <1>8, <2>1, <2>2 DEF Counter
    <2>5. k = "drop" => Pending("tx")' = Pending("tx") - 1 /\ Pending("rx")' = Pending("rx")
      BY <1>6, <1>7, <1>8, <2>1, <2>2 DEF Counter
    <2> QED BY <1>2, <2>1, <2>2, <2>3, <2>4, <2>5 DEF Counter
  <1>10. Bounded'
    <2>1. \A d \in Channel, j \in Counter : stats'[d][j] + Pending(j)' <= sends'
      <3>1. ASSUME NEW d \in Channel, NEW j \in Counter
            PROVE  stats'[d][j] + Pending(j)' <= sends'
        <4> DEFINE a == stats[d][j]
                   p == Pending(j)
                   p1 == Pending(j)'
                   g == reg[t]
        <4>1. a \in Nat /\ a + p <= sends
          BY <1>1 DEF Shape, Books, Bounded
        <4>2. p \in Nat /\ p1 \in Nat /\ p1 <= p
          BY <1>9
        <4>3. CASE d = c /\ j = k
          <5>1. stats'[d][j] = g + 1 /\ p1 = p - 1 /\ g \in Nat
            BY <1>2, <1>3, <1>9, <4>3
          <5>2. g + p <= sends
            BY <1>2, <4>3 DEF Books, Bounded
          <5> HIDE DEF a, p, p1, g
          <5>3. (g + 1) + p1 <= sends
            BY <1>4, <4>2, <5>1, <5>2
          <5> QED BY <1>2, <5>1, <5>3 DEF p1
        <4>4. CASE ~ (d = c /\ j = k)
          <5>1. stats'[d][j] = a
            BY <1>3, <4>4
          <5> HIDE DEF a, p, p1
          <5>2. a + p1 <= sends
            BY <1>4, <4>1, <4>2
          <5> QED BY <1>2, <5>1, <5>2 DEF p1
        <4> QED BY <4>3, <4>4
      <3> QED BY <3>1
    <2>2. /\ nextSeq' >= 1 /\ nextSeq' + NStamping' <= sends' + 1
          /\ sends' \in 0 .. MaxSends /\ raced' \in SUBSET {"seq", "stats", "opened"} /\ reg'[t] <= MaxSends
          /\ \A r \in Ring : queue'[r] \in Seq(1 .. MaxSends) /\ Len(queue'[r]) <= RingBound
      BY <1>2, <1>7 DEF Books, Bounded
    <2>3. /\ NStamping' <= NStamping + (sends' - sends)
          /\ \A j \in Counter : Pending(j)' <= Pending(j) + (sends' - sends)
      BY <1>2, <1>4, <1>6, <1>7, <1>9
    <2>4. at'[t] \notin {"bump", "push", "store"}
      BY <1>2
    <2> QED BY <1>1, <1>2, <2>1, <2>2, <2>3, <2>4, BoundsKept DEF Books
  <1>11. Kinds' /\ Opened'
    BY <1>2 DEF Books, Kinds, Opened
  <1>12. Undisturbed' => Undisturbed
    BY <1>2 DEF Undisturbed
  <1>13. Loaded => Loaded'
    <2> SUFFICES ASSUME Loaded
                 PROVE  Loaded'
      OBVIOUS
    <2>1. ASSUME NEW u \in Thread, at'[u] = "store"
          PROVE  reg'[u] = stats'[call'[u].channel][call'[u].counter]
      <3>1. u # t /\ at[u] = "store" /\ reg'[u] = reg[u] /\ call'[u] = call[u]
        BY <1>2, <2>1
      <3>2. reg[u] = stats[call[u].channel][call[u].counter]
        BY <3>1 DEF Loaded
      <3>3. <<call[u].channel, call[u].counter>> # <<c, k>>
        BY <1>2, <3>1 DEF Loaded
      <3>4. call[u].channel \in Channel /\ call[u].counter \in Counter
        BY <1>1 DEF Shape, Calls
      <3>5. stats'[call[u].channel][call[u].counter] = stats[call[u].channel][call[u].counter]
        BY <1>3, <3>3, <3>4
      <3> QED BY <3>1, <3>2, <3>5
    <2>2. \A u \in Thread : at'[u] = "store" => at[u] = "store"
      BY <1>2
    <2> QED BY <1>2, <2>1, <2>2 DEF Loaded
  <1>14. Undisturbed /\ Loaded /\ Balance => Balance'
    <2> SUFFICES ASSUME Undisturbed, Loaded, Balance
                 PROVE  Balance'
      OBVIOUS
    <2>1. \A j \in Counter : Total(j) \in Nat
      BY <1>1, Totals DEF Books
    <2>2. Total(k)' = Total(k) + 1 /\ \A j \in Counter \ {k} : Total(j)' = Total(j)
      <3>1. stats'[c][k] = stats[c][k] + 1
        BY <1>2, <1>3 DEF Loaded
      <3>2. stats \in Counters
        BY <1>1, CountersBounded DEF Books
      <3>3. CountersBounded'
        BY CountersBounded, PTL
      <3>4. stats' \in Counters
        BY <1>1, <1>10, <3>3
      <3>5. /\ Cardinality(Events(stats', k)) = Cardinality(Events(stats, k)) + 1
            /\ \A j \in Counter \ {k} : Cardinality(Events(stats', j)) = Cardinality(Events(stats, j))
        <4> DEFINE s == stats
                   z == stats'
        <4>1. s \in Counters /\ z \in Counters
          BY <3>2, <3>4
        <4>2. OneMore(s, z, c, k)
          BY <1>3, <3>1 DEF OneMore
        <4> HIDE DEF s, z
        <4>3. /\ Cardinality(Events(z, k)) = Cardinality(Events(s, k)) + 1
              /\ \A j \in Counter \ {k} : Cardinality(Events(z, j)) = Cardinality(Events(s, j))
          BY <4>1, <4>2, OneMoreEvent
        <4> QED BY <4>3 DEF s, z
      <3> QED BY <3>5 DEF Total
    <2>3. \A j \in Counter : Total(j)' + NCounting(j)' = Total(j) + NCounting(j)
      <3>1. ASSUME NEW j \in Counter
            PROVE  Total(j)' + NCounting(j)' = Total(j) + NCounting(j)
        <4> DEFINE a == Total(j)
                   b == NCounting(j)
                   a1 == Total(j)'
                   b1 == NCounting(j)'
        <4>1. a \in Nat /\ b \in Nat
          BY <1>6, <2>1
        <4>2. j = k => a1 = a + 1 /\ b1 = b - 1
          BY <1>7, <2>2
        <4>3. j # k => a1 = a /\ b1 = b
          BY <1>7, <2>2
        <4> HIDE DEF a, b, a1, b1
        <4>4. a1 + b1 = a + b
          BY <4>1, <4>2, <4>3
        <4> QED BY <4>4 DEF a, b, a1, b1
      <3> QED BY <3>1
    <2>4. \A j \in Counter : Total(j)' \in Nat /\ NCounting(j)' \in Nat
      <3>1. \A j \in Counter : Total(j)' \in {Total(j) + 1, Total(j)}
        BY <2>2
      <3> QED BY <1>6, <2>1, <3>1
    <2> DEFINE tt == Total("tx") rr == Total("rx") dd == Total("drop")
               t1 == Total("tx")' r1 == Total("rx")' d1 == Total("drop")'
               nt == NCounting("tx") nr == NCounting("rx") nd == NCounting("drop")
               mt == NCounting("tx")' mr == NCounting("rx")' md == NCounting("drop")'
               w == Waiting  p == NPushing  n == nextSeq
    <2>5. /\ tt \in Nat /\ rr \in Nat /\ dd \in Nat /\ t1 \in Nat /\ r1 \in Nat /\ d1 \in Nat
          /\ nt \in Nat /\ nr \in Nat /\ nd \in Nat /\ mt \in Nat /\ mr \in Nat /\ md \in Nat
          /\ t1 + mt = tt + nt /\ r1 + mr = rr + nr /\ d1 + md = dd + nd
      BY <1>6, <2>1, <2>3, <2>4 DEF Counter
    <2>6. w \in Nat /\ p \in Nat /\ n \in Nat
      BY <1>1, <1>6, <1>8 DEF Shape
    <2>7. tt + nt = rr + nr + w /\ n = 1 + tt + dd + p + nt + nd
      BY DEF Balance
    <2>8. Waiting' = w /\ NPushing' = p /\ nextSeq' = n
      BY <1>2, <1>7, <1>8
    <2> HIDE DEF tt, rr, dd, t1, r1, d1, nt, nr, nd, mt, mr, md, w, p, n
    <2>9. t1 + mt = r1 + mr + w /\ n = 1 + t1 + d1 + p + mt + md
      BY <2>5, <2>6, <2>7
    <2> QED BY <2>8, <2>9 DEF Balance, t1, r1, d1, mt, mr, md
  <1> QED BY <1>10, <1>11, <1>12, <1>13, <1>14 DEF Books

LEMMA NextBooks == IInv /\ Books /\ [Next]_vars => Books'
  <1> SUFFICES ASSUME IInv, Books, [Next]_vars PROVE Books'
    OBVIOUS
  <1>1. CASE ~Crashed /\ Admin
    BY <1>1, RestartBooks, ChannelsBooks DEF Admin
  <1>2. CASE Enter
    BY <1>2, EnterBooks
  <1>3. ASSUME NEW t \in Thread, Step(t)
        PROVE  Books'
    BY <1>3, SeqLoadBooks, SeqStoreBooks, PushBooks, PopBooks, LeaveBooks,
       CountLoadBooks, CountStoreBooks DEF Step
  <1>4. CASE UNCHANGED vars
    <2>1. UNCHANGED <<ready, count, rings, stats, nextSeq, queue, at, call, reg, sends, raced, cut>>
      BY <1>4 DEF vars
    <2>2. /\ NStamping' = NStamping /\ NPushing' = NPushing /\ Waiting' = Waiting
          /\ \A k \in Counter : NCounting(k)' = NCounting(k) /\ Pending(k)' = Pending(k)
      BY <2>1 DEF NStamping, Stamping, NPushing, Pushing, NCounting, Counting, Waiting, Pending
    <2>3. Kinds' /\ Opened' /\ Bounded'
      BY <2>1, <2>2 DEF Books, Kinds, Opened, Bounded
    <2>4. (Undisturbed' => Undisturbed) /\ (Loaded => Loaded') /\ (Balance => Balance')
      BY <2>1, <2>2 DEF Undisturbed, Loaded, Balance, Total, Counter
    <2> QED BY <2>3, <2>4 DEF Books
  <1> QED BY <1>1, <1>2, <1>3, <1>4 DEF Next

LEMMA BooksKept == Spec => []Books
  <1>1. Init => IInv /\ Books
    BY InitInv, InitBooks
  <1>2. IInv /\ Books /\ [Next]_vars => (IInv /\ Books)'
    BY NextInv, NextBooks
  <1> QED BY <1>1, <1>2, PTL DEF Spec

(* Everything stays in its type; in particular no counter, no loaded value *)
(* and no sequence number gets past the number of sends that were begun,   *)
(* whatever updates are lost, and no ring holds more than it has slots for.*)
THEOREM TypeCorrect == Spec => []TypeOK
  <1>1. IInv /\ Books => TypeOK
    <2> SUFFICES ASSUME IInv, Books PROVE TypeOK
      OBVIOUS
    <2>1. MaxSends \in Nat
      BY ChannelAssumption
    <2>2. stats \in [Channel -> [Counter -> 0 .. MaxSends]]
      BY CountersBounded DEF IInv, Books, Counters
    <2>3. nextSeq \in 1 .. MaxSends + 1
      <3>1. /\ nextSeq \in Nat /\ NStamping \in Nat /\ nextSeq >= 1
            /\ nextSeq + NStamping <= sends + 1 /\ sends \in 0 .. MaxSends
        BY Numbers DEF IInv, Shape, Books, Bounded
      <3> QED BY <2>1, <3>1
    <2>4. reg \in [Thread -> 0 .. MaxSends]
      <3>1. ASSUME NEW t \in Thread
            PROVE  reg[t] \in 0 .. MaxSends
        <4>1. reg[t] \in Nat /\ reg[t] <= MaxSends
          BY DEF IInv, Shape, Books, Bounded
        <4> QED BY <2>1, <4>1
      <3> QED BY <3>1 DEF IInv, Shape
    <2>5. /\ DOMAIN queue = Ring
          /\ \A r \in Ring : queue[r] \in Seq(1 .. MaxSends) /\ Len(queue[r]) <= RingBound
      BY DEF IInv, Shape, Books, Bounded
    <2>6. /\ sends \in 0 .. MaxSends /\ raced \in SUBSET {"seq", "stats", "opened"}
          /\ cut \in SUBSET Thread
      BY DEF Books, Bounded, IInv, Shape
    <2>7. /\ ready \in BOOLEAN /\ count \in 0 .. MaxChannels /\ rings \in SUBSET Channel
          /\ at \in [Thread -> {"idle", "seq", "bump", "push", "pop", "count", "store", "faulted"}]
          /\ call \in [Thread -> Calls]
      BY DEF IInv, Shape
    <2> QED BY <2>2, <2>3, <2>4, <2>5, <2>6, <2>7 DEF TypeOK
  <1> QED BY <1>1, Invariance, BooksKept, PTL

(* Between calls, and as long as no two threads bumped a counter at once,  *)
(* the IPC was opened under no call that had a number or an outcome in its *)
(* hand and no channel was destroyed, every message sent and not received waits *)
(* in a ring, and every sequence number belongs to a message that was sent *)
(* or dropped, for every number of channels, ring size and number of sends.*)
THEOREM BooksBalance == Spec => []TrafficConserved
  <1>1. IInv /\ Books => TrafficConserved
    <2> SUFFICES ASSUME IInv, Books, ready, Quiet, raced = {}, rings = 0 .. count - 1
                 PROVE  /\ Total("tx") - Total("rx") = Len(queue["toHw"]) + Len(queue["toSw"])
                        /\ nextSeq - 1 = Total("tx") + Total("drop")
      BY DEF TrafficConserved
    <2>1. Balance
      BY DEF Books, Undisturbed
    <2>2. NPushing = 0 /\ NCounting("tx") = 0 /\ NCounting("rx") = 0 /\ NCounting("drop") = 0
      BY Numbers DEF Quiet, Counter
    <2>3. Total("tx") \in Nat /\ Total("rx") \in Nat /\ Total("drop") \in Nat
      BY Totals DEF IInv, Books, Counter
    <2>4. Waiting \in Nat /\ Waiting = Len(queue["toHw"]) + Len(queue["toSw"])
      BY Natural DEF IInv, Waiting
    <2> DEFINE a == Total("tx")
               b == Total("rx")
               d == Total("drop")
               w == Waiting
    <2>5. a + 0 = b + 0 + w /\ nextSeq = 1 + a + d + 0 + 0 + 0
      BY <2>1, <2>2 DEF Balance
    <2>6. a \in Nat /\ b \in Nat /\ d \in Nat /\ w \in Nat
      BY <2>3, <2>4
    <2> HIDE DEF a, b, d, w
    <2>7. a - b = w /\ nextSeq - 1 = a + d
      BY <2>5, <2>6
    <2> QED BY <2>4, <2>7 DEF a, b, d, w
  <1> QED BY <1>1, Invariance, BooksKept, PTL
==============================================================================
