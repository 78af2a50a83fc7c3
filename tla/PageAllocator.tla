---------------------------- MODULE PageAllocator ----------------------------
(***************************************************************************)
(* What the physical memory manager promises ("Aloca 2^order paginas       *)
(* contiguas. Retorna PFN ou (u64)-1 em erro"): the blocks that are out    *)
(* are aligned runs of pages that never overlap, a request is refused only *)
(* if no aligned run of that many pages is free, and a block that is given *)
(* back can be handed out again.  Nothing is said of free lists, buddies   *)
(* or descriptors: PhysMemory implements this.                             *)
(***************************************************************************)
EXTENDS Integers

CONSTANTS TotalPages, MaxOrder

VARIABLES up,        \* whether memory is managed
          owned,     \* the blocks that are out
          refused    \* the order of the request refused last, None since

vars == <<up, owned, refused>>

None == -1
Block == [pfn : 0 .. TotalPages - 1, order : 0 .. MaxOrder]

Overlap(a, b) == /\ a.pfn < b.pfn + 2 ^ b.order
                 /\ b.pfn < a.pfn + 2 ^ a.order

(* An aligned run inside the memory none of whose pages is out. *)
Available(b) == /\ b.pfn % 2 ^ b.order = 0
                /\ b.pfn + 2 ^ b.order <= TotalPages
                /\ \A a \in owned : ~Overlap(a, b)

Init == up = FALSE /\ owned = {} /\ refused = None

Start == ~up /\ up' = TRUE /\ owned' = {} /\ refused' = None

Stop == up /\ up' = FALSE /\ owned' = {} /\ refused' = None

Grant(b) == /\ up /\ Available(b)
            /\ owned' = owned \cup {b}
            /\ refused' = None
            /\ UNCHANGED up

Refuse(k) == /\ up => \A b \in Block : b.order = k => ~Available(b)
             /\ refused' = k
             /\ UNCHANGED <<up, owned>>

Release(b) == /\ up /\ b \in owned
              /\ owned' = owned \ {b}
              /\ refused' = None
              /\ UNCHANGED up

Next == \/ Start \/ Stop
        \/ \E b \in Block : Grant(b) \/ Release(b)
        \/ \E k \in 0 .. MaxOrder : Refuse(k)

Spec == Init /\ [][Next]_vars
==============================================================================
