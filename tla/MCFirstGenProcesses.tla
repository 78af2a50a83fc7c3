------------------------- MODULE MCFirstGenProcesses -------------------------
(* Two processes of the boot and two more, and pids for both: one of them  *)
(* is lost when the heap, which has room for five stacks, runs out, which  *)
(* takes two boots.  One permission record, for any of the four pids,      *)
(* fills the table.  A harmless capability, a dangerous one and the power  *)
(* over all, alone and together.                                           *)
EXTENDS FirstGenProcesses
==============================================================================
