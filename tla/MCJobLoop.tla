----------------------------- MODULE MCJobLoop -----------------------------
(***************************************************************************)
(* Small instances of JobLoop for TLC.                                     *)
(***************************************************************************)
EXTENDS JobLoop

CONSTANTS b1, b2
=============================================================================
