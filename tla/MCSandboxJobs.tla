--------------------------- MODULE MCSandboxJobs ---------------------------
(***************************************************************************)
(* Small instances of SandboxJobs for TLC.                                 *)
(***************************************************************************)
EXTENDS SandboxJobs

CONSTANTS j1
=============================================================================
