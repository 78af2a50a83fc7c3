---------------------------- MODULE IpcChannels ----------------------------
(***************************************************************************)
(* The channel table of BIOS/src/ipc/zero_copy.c: opening and closing the  *)
(* IPC, creating and destroying channels, sending and receiving, and the   *)
(* sequence number and the statistics that go with it.  Three threads call *)
(* in: an application's thread ("app"), which sends towards the hardware   *)
(* and administers channels, the SW loop ("sw"), which receives on a       *)
(* channel, and the HW loop ("hw"), which does both on the static rings.   *)
(* Each ring has one producer and one consumer, and so is a bounded queue  *)
(* (ZeroCopyRing); the sequence counter and the counters of channel 0 are  *)
(* shared and updated by a plain load and a plain store.  The application  *)
(* opens and closes the IPC while the two loops are anywhere in a call.    *)
(***************************************************************************)
EXTENDS Integers, Sequences, FiniteSets

CONSTANTS MaxChannels,   \* BAIOS_MAX_IPC_CHANNELS
          RingBound,     \* messages a ring holds: BAIOS_IPC_SLOT_COUNT - 1
          MaxSends       \* bound: sends in a run

ASSUME ChannelAssumption == /\ MaxChannels \in Nat \ {0}
                            /\ RingBound \in Nat \ {0}
                            /\ MaxSends \in Nat

Thread == {"app", "sw", "hw"}
Channel == 0 .. MaxChannels - 1
Counter == {"tx", "rx", "drop"}
Ring == {"toHw", "toSw"}

VARIABLES
    ready,      \* g_ipc_ready
    count,      \* g_channel_count
    rings,      \* the channels whose ring pointers are set
    stats,      \* g_channels[c].tx_count, .rx_count, .drop_count
    nextSeq,    \* g_seq_counter
    queue,      \* the two rings: the sequence numbers that wait in each
    at,         \* where each thread is in its call
    call,       \* the ring and the channel of the call, the counter it bumps
    reg,        \* the value each thread has loaded
    sends,      \* sends begun
    raced,      \* what two threads have updated at once since baios_ipc_init
                \* (or that and another thread), and whether a thread had
                \* drawn its number before it ("opened")
    cut         \* threads in a call that a baios_ipc_shutdown went through

table == <<ready, count, rings>>
threads == <<at, call, reg>>
ghosts == <<sends, raced, cut>>
vars == <<ready, count, rings, stats, nextSeq, queue, at, call, reg, sends, raced,
          cut>>

Calls == [ring : Ring, channel : Channel, counter : Counter]

TypeOK == /\ ready \in BOOLEAN
          /\ count \in 0 .. MaxChannels
          /\ rings \in SUBSET Channel
          /\ stats \in [Channel -> [Counter -> 0 .. MaxSends]]
          /\ nextSeq \in 1 .. MaxSends + 1
          /\ DOMAIN queue = Ring
          /\ \A r \in Ring : /\ queue[r] \in Seq(1 .. MaxSends)
                             /\ Len(queue[r]) <= RingBound
          /\ at \in [Thread -> {"idle", "seq", "bump", "push", "pop",
                                "count", "store", "faulted"}]
          /\ call \in [Thread -> Calls]
          /\ reg \in [Thread -> 0 .. MaxSends]
          /\ sends \in 0 .. MaxSends
          /\ raced \in SUBSET {"seq", "stats", "opened"}
          /\ cut \in SUBSET Thread

NoStats == [c \in Channel |-> [k \in Counter |-> 0]]

Init == /\ ready = FALSE /\ count = 0 /\ rings = {}
        /\ stats = NoStats
        /\ nextSeq = 1
        /\ queue = [r \in Ring |-> <<>>]
        /\ at = [t \in Thread |-> "idle"]
        /\ call = [t \in Thread |-> [ring |-> "toHw", channel |-> 0,
                                     counter |-> "tx"]]
        /\ reg = [t \in Thread |-> 0]
        /\ sends = 0 /\ raced = {} /\ cut = {}

------------------------------------------------------------------------------
(* Administration, by the application's thread. *)

(* What a thread has in its hand that baios_ipc_init resets: a number that *)
(* it has drawn, or a counter that it is to bump.                          *)
InHand == (IF \E t \in Thread : at[t] \in {"bump", "push"} THEN {"opened"} ELSE {})
            \cup (IF \E t \in Thread : at[t] \in {"count", "store"}
                    THEN {"stats"} ELSE {})

(* baios_ipc_init: both rings emptied, channel 0 open.  Nobody looks       *)
(* whether a loop is still inside a call that began before.                *)
IpcInit == /\ ~ready /\ at["app"] = "idle"
           /\ ready' = TRUE
           /\ count' = 1
           /\ rings' = {0}
           /\ stats' = NoStats
           /\ nextSeq' = 1
           /\ queue' = [r \in Ring |-> <<>>]
           /\ raced' = InHand
           /\ UNCHANGED <<threads, sends, cut>>

(* baios_ipc_shutdown: the table is wiped under whoever is in a call.      *)
IpcShutdown == /\ ready /\ at["app"] = "idle"
               /\ ready' = FALSE
               /\ count' = 0
               /\ rings' = {}
               /\ stats' = NoStats
               /\ cut' = cut \cup {t \in Thread : at[t] # "idle"}
               /\ UNCHANGED <<nextSeq, queue, threads, sends, raced>>

(* Fault: the check for a full table is off by one. *)
CreateChannelOneMore == /\ ready /\ at["app"] = "idle"
                        /\ count <= MaxChannels
                        /\ count' = count + 1
                        /\ rings' = rings \cup {count}
                        /\ UNCHANGED <<ready, stats, nextSeq, queue, threads, ghosts>>

(* baios_ipc_create_channel: ids are handed out once; every channel gets   *)
(* the same two rings.                                                     *)
CreateChannel == /\ ready /\ at["app"] = "idle"
                 /\ count < MaxChannels
                 /\ count' = count + 1
                 /\ rings' = rings \cup {count}
                 /\ UNCHANGED <<ready, stats, nextSeq, queue, threads, ghosts>>

(* Fault: the default channel may be destroyed as well. *)
DestroyAnyChannel(c) == /\ ready /\ at["app"] = "idle"
                        /\ c < count
                        /\ rings' = rings \ {c}
                        /\ stats' = [stats EXCEPT ![c] = NoStats[c]]
                        /\ UNCHANGED <<ready, count, nextSeq, queue, threads, ghosts>>

(* baios_ipc_destroy_channel: the entry is wiped, its id stays below the   *)
(* channel count and so remains valid to every later check.                *)
DestroyChannel(c) == /\ ready /\ at["app"] = "idle"
                     /\ c # 0 /\ c < count
                     /\ rings' = rings \ {c}
                     /\ stats' = [stats EXCEPT ![c] = NoStats[c]]
                     /\ UNCHANGED <<ready, count, nextSeq, queue, threads, ghosts>>

------------------------------------------------------------------------------
(* Calls. *)

Goto(t, from, to) == at[t] = from /\ at' = [at EXCEPT ![t] = to]

Loads(t, value) == reg' = [reg EXCEPT ![t] = value]

Begin(t, to, ring, c) ==
    /\ Goto(t, "idle", to)
    /\ ready /\ c < count
    /\ call' = [call EXCEPT ![t] = [ring |-> ring, channel |-> c,
                                    counter |-> IF to = "pop" THEN "rx" ELSE "tx"]]
    /\ cut' = cut \ {t}
    /\ UNCHANGED <<table, stats, nextSeq, queue, reg, raced>>

(* baios_ipc_send; baios_ipc_send_to_hw is the same on channel 0.          *)
Send(c) == /\ Begin("app", "seq", "toHw", c)
           /\ sends < MaxSends
           /\ sends' = sends + 1

SendToSw == /\ Begin("hw", "seq", "toSw", 0)
            /\ sends < MaxSends
            /\ sends' = sends + 1

(* baios_ipc_recv; baios_ipc_recv_from_hw is the same on channel 0.        *)
Recv(c) == /\ Begin("sw", "pop", "toSw", c)
           /\ UNCHANGED sends

RecvFromSw == /\ Begin("hw", "pop", "toHw", 0)
              /\ UNCHANGED sends

(* local.seq = g_seq_counter++, a load ... *)
SeqLoad(t) == /\ Goto(t, "seq", "bump")
              /\ Loads(t, nextSeq)
              /\ raced' = IF \E u \in Thread : at[u] = "bump"
                            THEN raced \cup {"seq"} ELSE raced
              /\ UNCHANGED <<table, stats, nextSeq, queue, call, sends, cut>>

(* Fault: the counter goes up only when there is room for the message. *)
SeqStoreIfRoom(t) == /\ Goto(t, "bump", "push")
                     /\ nextSeq' = IF Len(queue[call[t].ring]) < RingBound
                                     THEN reg[t] + 1 ELSE nextSeq
                     /\ UNCHANGED <<table, stats, queue, call, reg, ghosts>>

(* Fault: the number is used and the counter stays. *)
SeqStoreForgotten(t) == /\ Goto(t, "bump", "push")
                        /\ UNCHANGED <<table, stats, nextSeq, queue, call, reg, ghosts>>

(* ... and a store.  The number is used up whatever becomes of the message.*)
SeqStore(t) == /\ Goto(t, "bump", "push")
               /\ nextSeq' = reg[t] + 1
               /\ UNCHANGED <<table, stats, queue, call, reg, ghosts>>

(* The HW loop is given the static rings.  A channel's are looked up: by   *)
(* baios_ipc_send once, when nobody but the sender could wipe them, and by *)
(* baios_ipc_recv in every poll.                                           *)
NullRing(t) == t # "hw" /\ call[t].channel \notin rings

(* ring_push, and which counter the outcome goes to.                       *)
Push(t) == LET r == call[t].ring
           IN  /\ Goto(t, "push", "count")
               /\ ~NullRing(t)
               /\ IF Len(queue[r]) < RingBound
                    THEN /\ queue' = [queue EXCEPT ![r] = Append(@, reg[t])]
                         /\ UNCHANGED call
                    ELSE /\ call' = [call EXCEPT ![t].counter = "drop"]
                         /\ UNCHANGED queue
               /\ UNCHANGED <<table, stats, nextSeq, reg, ghosts>>

Pop(t) == LET r == call[t].ring
          IN  /\ Goto(t, "pop", "count")
              /\ ~NullRing(t)
              /\ queue[r] # <<>>
              /\ queue' = [queue EXCEPT ![r] = Tail(@)]
              /\ UNCHANGED <<table, stats, nextSeq, call, reg, ghosts>>

(* BAIOS_ERR_AGAIN, or BAIOS_ERR_TIMEOUT after some time of polling.       *)
NothingThere(t) == /\ Goto(t, "pop", "idle")
                   /\ ~NullRing(t)
                   /\ queue[call[t].ring] = <<>>
                   /\ UNCHANGED <<table, stats, nextSeq, queue, call, reg, ghosts>>

(* The ring's address was wiped: ring_full(NULL) or ring_empty(NULL).      *)
Fault(t) == /\ at[t] \in {"push", "pop"}
            /\ Goto(t, at[t], "faulted")
            /\ NullRing(t)
            /\ UNCHANGED <<table, stats, nextSeq, queue, call, reg, ghosts>>

(* ch->tx_count++, drop_count++ or rx_count++: a load ...                  *)
CountLoad(t) ==
    /\ Goto(t, "count", "store")
    /\ Loads(t, stats[call[t].channel][call[t].counter])
    /\ raced' = IF \E u \in Thread : /\ at[u] = "store"
                                     /\ call[u].channel = call[t].channel
                                     /\ call[u].counter = call[t].counter
                  THEN raced \cup {"stats"} ELSE raced
    /\ UNCHANGED <<table, stats, nextSeq, queue, call, sends, cut>>

(* ... and a store.                                                        *)
CountStore(t) ==
    /\ Goto(t, "store", "idle")
    /\ stats' = [stats EXCEPT ![call[t].channel][call[t].counter] = reg[t] + 1]
    /\ UNCHANGED <<table, nextSeq, queue, call, reg, ghosts>>

Admin == \/ IpcInit \/ IpcShutdown \/ CreateChannel
         \/ \E c \in Channel : DestroyChannel(c)

Enter == \/ SendToSw \/ RecvFromSw
         \/ \E c \in Channel : Send(c) \/ Recv(c)

Step(t) == \/ SeqLoad(t) \/ SeqStore(t) \/ Push(t)
           \/ Pop(t) \/ NothingThere(t) \/ Fault(t)
           \/ CountLoad(t) \/ CountStore(t)

Crashed == \E t \in Thread : at[t] = "faulted"

Next == \/ ~Crashed /\ (Admin \/ Enter \/ \E t \in Thread : Step(t))
        \/ Crashed /\ UNCHANGED vars

Spec == Init /\ [][Next]_vars

------------------------------------------------------------------------------
Increasing(s) == \A i, j \in DOMAIN s : i < j => s[i] < s[j]

(* Unless two threads stamp a message at once, or the IPC is opened under  *)
(* one that has a number in its hand, the numbers in a ring go up, also    *)
(* across messages that were dropped, whatever else overlaps, a shutdown   *)
(* under running calls included (zero_copy.c:84, 131-143).                 *)
SeqIncreasing == raced \subseteq {"stats"} =>
                   \A r \in Ring : /\ Increasing(queue[r])
                                   /\ \A i \in DOMAIN queue[r] : queue[r][i] < nextSeq

(* What the counters k of all channels add up to in the statistics s: the  *)
(* number of events that each of them has counted.                         *)
Events(s, k) == UNION {{c} \X (1 .. s[c][k]) : c \in Channel}

Total(k) == Cardinality(Events(stats, k))

Quiet == \A t \in Thread : at[t] = "idle"

(* The books balance between calls, as long as no two threads update the   *)
(* same counter at once, the IPC was not opened under a call that had a    *)
(* number or an outcome in its hand and no channel was destroyed: what was *)
(* sent and not received waits in a ring, and every number that was used   *)
(* up belongs to a message that was sent or dropped.                       *)
TrafficConserved ==
    (ready /\ Quiet /\ raced = {} /\ rings = 0 .. count - 1) =>
       /\ Total("tx") - Total("rx") = Len(queue["toHw"]) + Len(queue["toSw"])
       /\ nextSeq - 1 = Total("tx") + Total("drop")

(* Nobody runs into a NULL ring except in a call on a channel that was     *)
(* destroyed and whose id still passes the check, or in a receive through  *)
(* which a shutdown went, perhaps several openings ago; the HW loop, which *)
(* never asks the table, does not at all, and neither does a call on the   *)
(* default channel that no shutdown cut (zero_copy.c:99-106, 124-129, 146, *)
(* 152, 159).                                                              *)
OnlyDestroyedFault == \A t \in Thread : at[t] = "faulted" =>
                        \/ t \in {"app", "sw"} /\ call[t].channel \in (1 .. count - 1) \ rings
                        \/ t = "sw" /\ t \in cut

(* ipc.h calls seq the sequence number of a message: the messages of a     *)
(* ring carry increasing ones, while nobody sends across a restart.        *)
SeqOrdersMessages == "opened" \notin raced => \A r \in Ring : Increasing(queue[r])
==============================================================================
