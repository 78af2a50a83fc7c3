---------------------------- MODULE ZeroCopyRing ----------------------------
(***************************************************************************)
(* One shared ring of BIOS/src/ipc/zero_copy.c between one producer thread *)
(* and one consumer thread, at the granularity of the loads and stores     *)
(* that the other thread can observe: the full (empty) check that reads    *)
(* both indices, the memcpy of the message word by word, and the store of  *)
(* the index.  There is no lock and no barrier ("memory barrier real seria *)
(* necessario em SMP"); the stores are seen in program order, as the x86   *)
(* build performs them.                                                    *)
(***************************************************************************)
EXTENDS Integers, Sequences

CONSTANTS Capacity,   \* BAIOS_IPC_SLOT_COUNT: the slots of a ring
          Part,       \* the pieces a message is copied in
          Word,       \* what one piece may hold
          Zero        \* what memset leaves in a piece

ASSUME CapacityAssumption == Capacity \in Nat \ {0}
ASSUME WordAssumption == Zero \in Word

Message == [Part -> Word]
Index == 0 .. Capacity - 1

VARIABLES
    head, tail,    \* baios_ipc_ring_t.head and .tail
    slots,         \* baios_ipc_ring_t.slots
    sender,        \* where the producer is in ring_push
    msg,           \* the message it pushes
    unwritten,     \* the pieces its memcpy has not stored yet
    receiver,      \* where the consumer is in ring_pop
    out,           \* the consumer's *out
    unread,        \* the pieces its memcpy has not loaded yet
    received       \* the message with which ring_pop last returned BAIOS_OK

ringVars == <<head, tail, slots>>
senderVars == <<sender, msg, unwritten>>
receiverVars == <<receiver, out, unread, received>>
vars == <<head, tail, slots, sender, msg, unwritten,
          receiver, out, unread, received>>

Blank == [p \in Part |-> Zero]

TypeOK == /\ head \in Index /\ tail \in Index
          /\ slots \in [Index -> Message]
          /\ sender \in {"idle", "checking", "copying"}
          /\ msg \in Message
          /\ unwritten \in SUBSET Part
          /\ receiver \in {"idle", "copying"}
          /\ out \in Message
          /\ unread \in SUBSET Part
          /\ received \in Message

------------------------------------------------------------------------------
(* ring_init: memset, then head = tail = 0. *)
Init == /\ head = 0 /\ tail = 0
        /\ slots = [i \in Index |-> Blank]
        /\ sender = "idle" /\ msg = Blank /\ unwritten = {}
        /\ receiver = "idle" /\ out = Blank /\ unread = {}
        /\ received = Blank

(* Fault: an index that is advanced and not wrapped. *)
SuccUnwrapped(i) == i + 1

Succ(i) == (i + 1) % Capacity

RingFull == Succ(head) = tail
RingEmpty == head = tail

(* A call of ipc_send_on: the message is copied to a local one.            *)
Send(m) == /\ sender = "idle"
           /\ sender' = "checking"
           /\ msg' = m
           /\ UNCHANGED <<ringVars, unwritten, receiverVars>>

(* ring_push turns the message away when it finds the ring full ...        *)
PushOverflow == /\ sender = "checking"
                /\ RingFull
                /\ sender' = "idle"
                /\ UNCHANGED <<ringVars, msg, unwritten, receiverVars>>

(* ... and otherwise starts filling the slot at head.  The consumer may    *)
(* move tail between this check and the store of head.                     *)
PushBegin == /\ sender = "checking"
             /\ ~RingFull
             /\ sender' = "copying"
             /\ unwritten' = Part
             /\ UNCHANGED <<ringVars, msg, receiverVars>>

(* memcpy(slot, msg): one piece, in whatever order memcpy takes them.      *)
PushCopy(p) == /\ sender = "copying"
               /\ p \in unwritten
               /\ slots' = [slots EXCEPT ![head][p] = msg[p]]
               /\ unwritten' = unwritten \ {p}
               /\ UNCHANGED <<head, tail, sender, msg, receiverVars>>

(* Fault: the store of head overtakes stores of the memcpy, which is what  *)
(* the missing barrier could allow on a weaker memory model.               *)
PushPublishEarly == /\ sender = "copying"
                    /\ head' = Succ(head)
                    /\ sender' = "idle"
                    /\ UNCHANGED <<tail, slots, msg, unwritten, receiverVars>>

(* r->head = (r->head + 1) % r->capacity: the message becomes readable.    *)
PushPublish == /\ sender = "copying"
               /\ unwritten = {}
               /\ head' = Succ(head)
               /\ sender' = "idle"
               /\ UNCHANGED <<tail, slots, msg, unwritten, receiverVars>>

(* ring_pop finds nothing: BAIOS_ERR_UNDERFLOW, and baios_ipc_recv spins.  *)
PopUnderflow == /\ receiver = "idle"
                /\ RingEmpty
                /\ UNCHANGED vars

(* Fault: a pop that does not look whether there is a message. *)
PopBeginUnchecked == /\ receiver = "idle"
                     /\ receiver' = "copying"
                     /\ unread' = Part
                     /\ UNCHANGED <<ringVars, senderVars, out, received>>

(* Fault: a consumer that only wakes once the ring has filled up. *)
PopBeginWhenFull == /\ receiver = "idle"
                    /\ RingFull
                    /\ receiver' = "copying"
                    /\ unread' = Part
                    /\ UNCHANGED <<ringVars, senderVars, out, received>>

PopBegin == /\ receiver = "idle"
            /\ ~RingEmpty
            /\ receiver' = "copying"
            /\ unread' = Part
            /\ UNCHANGED <<ringVars, senderVars, out, received>>

(* memcpy(out, slot): one piece.                                           *)
PopCopy(p) == /\ receiver = "copying"
              /\ p \in unread
              /\ out' = [out EXCEPT ![p] = slots[tail][p]]
              /\ unread' = unread \ {p}
              /\ UNCHANGED <<ringVars, senderVars, receiver, received>>

(* r->tail = (r->tail + 1) % r->capacity: the slot may be filled again,    *)
(* and the caller has its message.                                         *)
PopRelease == /\ receiver = "copying"
              /\ unread = {}
              /\ tail' = Succ(tail)
              /\ receiver' = "idle"
              /\ received' = out
              /\ UNCHANGED <<head, slots, senderVars, out, unread>>

Push == \/ PushOverflow
        \/ PushBegin
        \/ \E p \in Part : PushCopy(p)
        \/ PushPublish

Pop == \/ PopUnderflow
       \/ PopBegin
       \/ \E p \in Part : PopCopy(p)
       \/ PopRelease

Next == \/ \E m \in Message : Send(m)
        \/ Push
        \/ Pop

Safety == Init /\ [][Next]_vars

(* A sender that is inside ring_push runs on, and the consumer is a kernel *)
(* main loop that polls for as long as it runs; nobody has to send.        *)
Spec == Safety /\ WF_vars(Push) /\ WF_vars(Pop)

------------------------------------------------------------------------------
(* How many slots lie from index t up to index h, and what n slots from t  *)
(* on hold.                                                                *)
Distance(t, h) == (h - t + Capacity) % Capacity
Contents(s, t, n) == [k \in 1 .. n |-> s[(t + k - 1) % Capacity]]

(* The messages that are readable. *)
Waiting == Contents(slots, tail, Distance(tail, head))

(* The ring is the bounded queue, whose bound is one less than the number  *)
(* of slots, because head = tail has to mean empty.                        *)
Fifo == INSTANCE BoundedFifo
          WITH Item <- Message,
               Bound <- Capacity - 1,
               queue <- Waiting,
               offers <- IF sender = "idle" THEN {} ELSE {msg},
               taken <- received

(* Every run of the ring is a run of the bounded queue: whole messages,    *)
(* in order, none lost, doubled or torn, refused only when the ring is     *)
(* full.  ring_push and ring_pop read the other side's index once and act  *)
(* on it after it may have moved (zero_copy.c:46-65).                      *)
RingIsFifo == Fifo!Safety

(* Under the fairness of the two threads an offer is always answered and   *)
(* an accepted message always reaches the polling kernel.                  *)
RingServes == Fifo!Spec

(* The producer never stores into the slot the consumer is copying out     *)
(* of, although neither looks at the other's position once it has begun.   *)
NoSharedSlot == (sender = "copying" /\ receiver = "copying") => head # tail

(* The check made before the copy still holds when head is stored, so that *)
(* publishing can never turn a full ring into one that looks empty.        *)
RoomToPublish == sender = "copying" => Succ(head) # tail
==============================================================================
