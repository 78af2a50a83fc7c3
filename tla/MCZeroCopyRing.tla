--------------------------- MODULE MCZeroCopyRing ---------------------------
(* A ring of three slots (two usable) and messages of two pieces: enough   *)
(* for the ring to be empty, part full and full at every index, to wrap    *)
(* round, and for a message to be torn in the middle.                      *)
EXTENDS ZeroCopyRing
==============================================================================
