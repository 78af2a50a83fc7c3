---------------------------- MODULE MCIpcChannels ----------------------------
(* Two channels, so that one can be created, destroyed and used after; one *)
(* message to a ring, so that a full ring is one send away; three sends,   *)
(* so that one thread can send twice while another is in the middle of it. *)
EXTENDS IpcChannels
==============================================================================
