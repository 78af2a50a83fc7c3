---------------------------- MODULE MCHwServices ----------------------------
(* Three drivers: the one being removed, one in front of it and one        *)
(* behind it.  One line, which changes hands.  Callbacks three deep: what  *)
(* a callback calls calls back, and so does what that calls.               *)
EXTENDS HwServices
==============================================================================
