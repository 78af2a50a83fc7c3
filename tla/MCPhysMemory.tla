---------------------------- MODULE MCPhysMemory ----------------------------
(* Ten pages and blocks of up to four: two blocks of the top order side by *)
(* side, which must not be merged, and behind them one of two pages, whose *)
(* buddy lies beyond the end of memory.                                    *)
EXTENDS PhysMemory
==============================================================================
