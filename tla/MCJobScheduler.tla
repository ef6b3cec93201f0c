--------------------------- MODULE MCJobScheduler ---------------------------
(***************************************************************************)
(* Small instances of JobScheduler for TLC.                                *)
(***************************************************************************)
EXTENDS JobScheduler, TLC

CONSTANTS j1, j2, u1

MCOneUser == [j \in Jobs |-> u1]
MCNoUserLimit == {}
MCUserLimit2 == {2}

JobSymmetry == Permutations(Jobs)
=============================================================================
