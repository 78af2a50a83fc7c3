----------------------------- MODULE BoundedFifo -----------------------------
(***************************************************************************)
(* What one direction of the zero-copy IPC promises to the two kernels: a  *)
(* bounded queue of whole messages.  A sender offers a message, which is   *)
(* either accepted at the back of the queue or refused because the queue   *)
(* is full; a receiver takes whole messages from the front, in the order   *)
(* in which they were accepted, each once.  Nothing is said of slots,      *)
(* indices or of the order in which bytes are copied: ZeroCopyRing         *)
(* implements this.                                                        *)
(***************************************************************************)
EXTENDS Naturals, Sequences

CONSTANTS Item,     \* the messages
          Bound     \* how many accepted messages may wait

VARIABLES queue,    \* accepted, not yet taken
          offers,   \* the messages being offered: at most one
          taken     \* the message the receiver took last

vars == <<queue, offers, taken>>

Init == /\ queue = <<>>
        /\ offers = {}
        /\ taken \in Item

(* A sender calls in with message m. *)
Offer(m) == /\ offers = {}
            /\ offers' = {m}
            /\ UNCHANGED <<queue, taken>>

(* The offered message goes to the back of a queue that has room. *)
Accept(m) == /\ m \in offers
             /\ Len(queue) < Bound
             /\ queue' = Append(queue, m)
             /\ offers' = {}
             /\ UNCHANGED taken

(* Only a full queue turns an offered message away. *)
Refuse(m) == /\ m \in offers
             /\ Len(queue) = Bound
             /\ offers' = {}
             /\ UNCHANGED <<queue, taken>>

(* The receiver takes the oldest accepted message, whole. *)
Take == /\ queue # <<>>
        /\ taken' = Head(queue)
        /\ queue' = Tail(queue)
        /\ UNCHANGED offers

Answer == \E m \in Item : Accept(m) \/ Refuse(m)

Next == \/ \E m \in Item : Offer(m)
        \/ Answer
        \/ Take

Safety == Init /\ [][Next]_vars

(* Every offer is answered, and a receiver that keeps polling is served. *)
Spec == Safety /\ WF_vars(Answer) /\ WF_vars(Take)
==============================================================================
