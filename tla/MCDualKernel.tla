---------------------------- MODULE MCDualKernel ----------------------------
(* Rings of two messages and four system calls, so that requests queue up, *)
(* a ring is full while another call comes in, and calls made before the   *)
(* loops run are still there when they start.  The violation runs need     *)
(* less: one slot, and one or two calls.                                   *)
EXTENDS DualKernel
==============================================================================
