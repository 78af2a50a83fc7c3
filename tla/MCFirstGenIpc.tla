---------------------------- MODULE MCFirstGenIpc ----------------------------
(* Room for the drivers' records, the main channel and another channel or  *)
(* a region of a user; rings of three slots hold two messages, so that one *)
(* direction overwrites its own payload and the other's; a second life of  *)
(* the memory manager, in which the memory of the main channel is handed   *)
(* out again, a page at a time or to a channel, and its users detach late. *)
(* The system stops when the heap is used up and the table is full of      *)
(* destroyed entries.  The payloads a and b are interchangeable.           *)
EXTENDS FirstGenIpc, TLC

CONSTANTS a, b

Contents == Permutations({a, b})
==============================================================================
