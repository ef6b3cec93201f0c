-------------------------- MODULE MCRoutineEngine --------------------------
(***************************************************************************)
(* Small instances of RoutineEngine for TLC.                               *)
(***************************************************************************)
EXTENDS RoutineEngine

CONSTANTS nightly, onMention
=============================================================================
