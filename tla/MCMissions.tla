----------------------------- MODULE MCMissions -----------------------------
(***************************************************************************)
(* Small instances of Missions for TLC.                                    *)
(***************************************************************************)
EXTENDS Missions

CONSTANTS digest, review, chat
=============================================================================
