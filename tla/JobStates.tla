----------------------------- MODULE JobStates -----------------------------
(***************************************************************************)
(* The job state machine of src/context/state.rs: the eight states of a    *)
(* job, the moves between them that the code accepts, and the predicates   *)
(* the other components ask of a state.                                    *)
(*                                                                         *)
(* "Absent" is not a JobState: it stands for a job id that has no context  *)
(* in the ContextManager.                                                  *)
(***************************************************************************)

JobState == {"Pending", "InProgress", "Completed", "Submitted", "Accepted",
             "Failed", "Stuck", "Cancelled"}

\* The states a job in state `from' may be moved to.
Successors(from) ==
    CASE from = "Pending"    -> {"InProgress", "Failed", "Cancelled"}
      [] from = "InProgress" -> {"Completed", "Failed", "Stuck", "Cancelled"}
      [] from = "Completed"  -> {"Completed", "Submitted", "Failed"}
      [] from = "Submitted"  -> {"Accepted", "Failed"}
      [] from = "Stuck"      -> {"InProgress", "Failed", "Cancelled"}
      [] OTHER               -> {}

\* Mutant of CanTransition: a completed job can be cancelled.
CanTransitionCompletedCancels(from, to) ==
    to \in Successors(from) \/ (from = "Completed" /\ to = "Cancelled")

\* JobState::can_transition_to
CanTransition(from, to) == to \in Successors(from)

IsTerminal(s) == s \in {"Accepted", "Failed", "Cancelled"}

\* States that hold one of the ContextManager's parallel slots.
IsParallelBlocking(s) == s \in {"Pending", "InProgress", "Stuck"}

\* The state after JobContext::transition_to(to): unchanged when it returns Err.
TransitionTo(from, to) == IF CanTransition(from, to) THEN to ELSE from

\* The phase of the abstract job (JobLifecycle) that a state, or its absence, stands for.
Phase(s) ==
    CASE s = "Absent"                     -> "unknown"
      [] s = "Pending"                    -> "queued"
      [] s \in {"InProgress", "Stuck"}    -> "held"
      [] s = "Failed"                     -> "failed"
      [] s = "Cancelled"                  -> "cancelled"
      [] OTHER                            -> "completed"
=============================================================================
