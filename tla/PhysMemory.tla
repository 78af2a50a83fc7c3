------------------------------ MODULE PhysMemory ------------------------------
(***************************************************************************)
(* The buddy allocator of BIOS/src/hw/phys_memory.c: page descriptors, one *)
(* free list per order, split on allocation, merge on release, and the     *)
(* statistics.  A free list is the set of the page numbers on it, of which *)
(* any may be the list's head.  A descriptor keeps its flag and its order  *)
(* after the page has become the inside of a larger block, and the merge   *)
(* loop trusts what it reads there: that is what the properties are about. *)
(* A caller gives back what it got, with the order it asked for; giving    *)
(* back what is free already is allowed and ignored.                       *)
(***************************************************************************)
EXTENDS Integers, FiniteSetsExt

CONSTANTS TotalPages,   \* g_total_pages
          MaxOrder      \* BAIOS_BUDDY_MAX_ORDER

ASSUME MemoryAssumption == TotalPages \in Nat \ {0} /\ MaxOrder \in Nat

Page == 0 .. TotalPages - 1
Order == 0 .. MaxOrder
None == -1

VARIABLES
    ready,       \* g_mm_ready
    pages,       \* g_pages: .free is BAIOS_PAGE_FLAG_FREE, KERNEL otherwise
    lists,       \* g_free_lists
    listed,      \* g_free_count
    freePages,   \* g_stats.free_pages
    kernelPages, \* g_stats.kernel_pages
    peak,        \* g_stats.peak_used
    refused      \* the order of the request refused last, None since

stats == <<freePages, kernelPages, peak>>
vars == <<ready, pages, lists, listed, freePages, kernelPages, peak, refused>>

Descriptor == [free : BOOLEAN, order : Order]

TypeOK == /\ ready \in BOOLEAN
          /\ pages \in [Page -> Descriptor]
          /\ lists \in [Order -> SUBSET Page]
          /\ listed \in [Order -> 0 .. TotalPages]
          /\ freePages \in 0 .. TotalPages
          /\ kernelPages \in 0 .. TotalPages
          /\ peak \in 0 .. TotalPages
          /\ refused \in Order \cup {None}

Blank == [p \in Page |-> [free |-> TRUE, order |-> 0]]
NoLists == [k \in Order |-> {}]
NoneListed == [k \in Order |-> 0]

Init == /\ ready = FALSE
        /\ pages = Blank
        /\ lists = NoLists
        /\ listed = NoneListed
        /\ freePages = 0 /\ kernelPages = 0 /\ peak = 0
        /\ refused = None

------------------------------------------------------------------------------
(* Starting and stopping. *)

(* The block that page p heads when memory is carved, from page 0 on, into *)
(* the largest blocks that fit in what remains: as many of the top order   *)
(* as there are, then one for each binary digit of the rest.               *)
Carved(p, k) == IF k = MaxOrder
                  THEN p % 2 ^ k = 0 /\ p + 2 ^ k <= TotalPages
                  ELSE /\ (TotalPages \div 2 ^ k) % 2 = 1
                       /\ p = (TotalPages \div 2 ^ (k + 1)) * 2 ^ (k + 1)

(* baios_mm_init; that it may find no memory for the descriptors is in     *)
(* DualKernel.                                                             *)
MmInit == /\ ~ready
          /\ ready' = TRUE
          /\ pages' = [p \in Page |-> [free |-> TRUE,
                         order |-> IF \E k \in Order : Carved(p, k)
                                     THEN CHOOSE k \in Order : Carved(p, k)
                                     ELSE 0]]
          /\ lists' = [k \in Order |-> {p \in Page : Carved(p, k)}]
          /\ listed' = [k \in Order |-> Cardinality({p \in Page : Carved(p, k)})]
          /\ freePages' = TotalPages
          /\ kernelPages' = 0 /\ peak' = 0
          /\ refused' = None

(* baios_mm_shutdown takes no account of what is still allocated.          *)
MmShutdown == /\ ready
              /\ ready' = FALSE
              /\ pages' = Blank
              /\ lists' = NoLists
              /\ listed' = NoneListed
              /\ freePages' = 0 /\ kernelPages' = 0 /\ peak' = 0
              /\ refused' = None

------------------------------------------------------------------------------
(* baios_mm_alloc_pages *)

(* Fault: only the list of the very order is looked at. *)
SearchExactly(k, o) == o = k /\ lists[k] # {}

(* The order of the list that serves a request of order k: the first one   *)
(* that is not empty.                                                      *)
Search(k, o) == /\ o \in k .. MaxOrder
                /\ lists[o] # {}
                /\ \A j \in k .. o - 1 : lists[j] = {}

(* Fault: the upper half is looked for at the end of the block. *)
SplitOffTooFar(p, k, o) == [j \in k .. o - 1 |-> p + 2 ^ (j + 1)]

(* split_block: the upper half of the block, again and again, goes to the  *)
(* list of its order, and the lower half remains.                          *)
SplitOff(p, k, o) == [j \in k .. o - 1 |-> p + 2 ^ j]

(* Fault: blocks are counted where pages should be. *)
CountBlocks(k) == /\ freePages' = freePages - 1
                  /\ kernelPages' = kernelPages + 1
                  /\ peak' = IF TotalPages - freePages' > peak
                               THEN TotalPages - freePages' ELSE peak

CountTaken(k) == /\ freePages' = freePages - 2 ^ k
                 /\ kernelPages' = kernelPages + 2 ^ k
                 /\ peak' = IF TotalPages - freePages' > peak
                              THEN TotalPages - freePages' ELSE peak

(* Block p leaves the list of order o, is split down to order k and is     *)
(* marked as taken.                                                        *)
Take(p, k, o) ==
    LET split == SplitOff(p, k, o)
    IN  /\ pages' = [q \in Page |->
                       IF q = p THEN [free |-> FALSE, order |-> k]
                       ELSE IF \E j \in DOMAIN split : split[j] = q
                         THEN [free |-> TRUE,
                               order |-> CHOOSE j \in DOMAIN split : split[j] = q]
                         ELSE pages[q]]
        /\ lists' = [j \in Order |->
                       IF j = o THEN lists[j] \ {p}
                       ELSE IF j \in DOMAIN split THEN lists[j] \cup {split[j]}
                       ELSE lists[j]]
        /\ listed' = [j \in Order |->
                       IF j = o THEN listed[j] - 1
                       ELSE IF j \in DOMAIN split THEN listed[j] + 1
                       ELSE listed[j]]

Alloc(k) == /\ ready
            /\ \E o \in Order : /\ Search(k, o)
                                /\ \E p \in lists[o] : Take(p, k, o)
            /\ CountTaken(k)
            /\ refused' = None
            /\ UNCHANGED ready

(* (u64)-1: memory is not up, or no list has a block large enough.         *)
AllocFails(k) == /\ ready => ~\E o \in Order : Search(k, o)
                 /\ refused' = k
                 /\ UNCHANGED <<ready, pages, lists, listed, stats>>

------------------------------------------------------------------------------
(* baios_mm_free_pages *)

(* pfn ^ 2^k *)
Buddy(p, k) == IF (p \div 2 ^ k) % 2 = 0 THEN p + 2 ^ k ELSE p - 2 ^ k

(* Where a block of order k at page p has got to when it has been merged   *)
(* to order j: whenever the buddy was the lower one, it gave the start.    *)
Base(p, k, j) == p - (p % 2 ^ j) + (p % 2 ^ k)

(* Fault: the buddy's order is not compared. *)
MergesAnyOrder(p, k, j) == LET b == Buddy(Base(p, k, j), j)
                           IN  b < TotalPages /\ pages[b].free

(* The merge loop goes on from order j: the buddy lies inside the memory   *)
(* and its descriptor says that it is free and of that order.              *)
Merges(p, k, j) == LET b == Buddy(Base(p, k, j), j)
                   IN  /\ b < TotalPages
                       /\ pages[b].free
                       /\ pages[b].order = j

(* Fault: a block is merged with its buddy and then left at that. *)
ReachesOnce(p, k, m) == \/ m = k /\ ~(k < MaxOrder /\ Merges(p, k, k))
                        \/ m = k + 1 /\ k < MaxOrder /\ Merges(p, k, k)

(* The order at which the merge loop ends. *)
Reaches(p, k, m) == /\ m \in k .. MaxOrder
                    /\ \A j \in k .. m - 1 : Merges(p, k, j)
                    /\ m < MaxOrder => ~Merges(p, k, m)

(* The order written last into the descriptor of page q, if any was.       *)
Writes(p, k, m, q) == {j \in k .. m : Base(p, k, j) = q}

Free(p, k) ==
    /\ ready
    /\ ~pages[p].free
    /\ \E m \in k .. MaxOrder :
         /\ Reaches(p, k, m)
         /\ pages' = [q \in Page |->
                        IF Writes(p, k, m, q) = {} THEN pages[q]
                        ELSE [free |-> TRUE, order |-> Max(Writes(p, k, m, q))]]
         /\ lists' = [j \in Order |->
                        IF j = m THEN lists[j] \cup {Base(p, k, m)}
                        ELSE IF j \in k .. m - 1
                          THEN lists[j] \ {Buddy(Base(p, k, j), j)}
                        ELSE lists[j]]
         /\ listed' = [j \in Order |->
                        IF j = m THEN listed[j] + 1
                        ELSE IF j \in k .. m - 1 THEN listed[j] - 1
                        ELSE listed[j]]
    /\ freePages' = freePages + 2 ^ k
    /\ kernelPages' = kernelPages - 2 ^ k
    /\ refused' = None
    /\ UNCHANGED <<ready, peak>>

(* Memory is not up, or the descriptor says that the page is free.         *)
FreeIgnored(p) == /\ ready => pages[p].free
                  /\ UNCHANGED vars

Next == \/ MmInit \/ MmShutdown
        \/ \E k \in Order : Alloc(k) \/ AllocFails(k)
        \/ \E p \in Page : Free(p, pages[p].order) \/ FreeIgnored(p)

Spec == Init /\ [][Next]_vars

------------------------------------------------------------------------------
(* The blocks that are out: a descriptor that is not marked free carries   *)
(* the order it was handed out with.                                       *)
Owned == {[pfn |-> p, order |-> pages[p].order] : p \in {q \in Page : ~pages[q].free}}

Listed == UNION {{[pfn |-> p, order |-> k] : p \in lists[k]} : k \in Order}

Run(b) == b.pfn .. b.pfn + 2 ^ b.order - 1

(* Every page is in exactly one block, on a free list or handed out, after *)
(* any history of splits and merges: nothing is handed out twice, nothing  *)
(* leaks, no block is on two lists (phys_memory.c:142-229).                *)
BlocksTile == ready => \A p \in Page :
                Cardinality({b \in Owned \cup Listed : p \in Run(b)}) = 1

(* What a free list holds is described as what it is, so that the merge    *)
(* loop can find it, and g_free_count tells the length of the list.        *)
ListsDescribed == /\ \A k \in Order : listed[k] = Cardinality(lists[k])
                  /\ \A b \in Listed : pages[b.pfn] = [free |-> TRUE, order |-> b.order]

(* Two free buddies are never left side by side: memory is as little       *)
(* fragmented as a buddy system can make it.                               *)
Coalesced == \A b \in Listed :
               b.order < MaxOrder => Buddy(b.pfn, b.order) \notin lists[b.order]

(* The free lists are what split and merge rely on, and what they promise. *)
ListsSound == ListsDescribed /\ Coalesced

PagesOf(blocks) == {p \in Page : \E b \in blocks : p \in Run(b)}

(* The statistics tell how many pages the blocks that are listed and those *)
(* that are out have, and the peak was never below what is out.            *)
StatsExact == /\ freePages = Cardinality(PagesOf(Listed))
              /\ kernelPages = Cardinality(PagesOf(Owned))
              /\ kernelPages <= peak

Allocator == INSTANCE PageAllocator WITH up <- ready, owned <- Owned

(* The buddy system is an allocator of aligned, disjoint runs of pages     *)
(* that refuses a request only if no such run is free.                     *)
IsAllocator == Allocator!Spec
==============================================================================
