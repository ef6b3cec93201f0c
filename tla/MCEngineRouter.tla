--------------------------- MODULE MCEngineRouter ---------------------------
(***************************************************************************)
(* Small instances of EngineRouter for TLC.                                *)
(***************************************************************************)
EXTENDS EngineRouter

CONSTANTS t1, t2, w1, w2
=============================================================================
