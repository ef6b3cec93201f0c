-------------------------- MODULE MCMissionEvents --------------------------
(***************************************************************************)
(* A small instance of MissionEvents for TLC.                              *)
(***************************************************************************)
EXTENDS MissionEvents

CONSTANTS review, digest, mention, push, chat, hook
=============================================================================
