-------------------------- MODULE MCProcessManager --------------------------
(* Three slots, so that a middle one is freed and used again between two   *)
(* others; six processes in a lifetime of the table, so that every slot is *)
(* used twice; pids of three bits, out of reach for six processes, as 2^32 *)
(* is for 256 slots in a run of ordinary length.                            *)
EXTENDS ProcessManager
==============================================================================
