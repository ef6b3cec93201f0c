---------------------------- MODULE JobLifecycle ----------------------------
(***************************************************************************)
(* What the job system promises to whoever dispatches a job, without its   *)
(* locks, tasks, commands and records: a job is accepted while a slot is   *)
(* free, executed by at most one worker at a time within the capacity,     *)
(* completed by nobody but that worker, and over at some point for good.   *)
(* JobScheduler implements this (its ImplementsLifecycle).                 *)
(***************************************************************************)
EXTENDS Integers, FiniteSets

CONSTANTS Jobs, MaxJobs, MaxParallel

VARIABLES
    phase,  \* "unknown", "queued", "held", "completed", "failed" or "cancelled"
    busy    \* the jobs a worker executes

vars == <<phase, busy>>

Init == phase = [j \in Jobs |-> "unknown"] /\ busy = {}

\* A queued or held job has one of the MaxJobs slots.
HasSlot(j) == phase[j] \in {"queued", "held"}
SlotsTaken == {j \in Jobs : HasSlot(j)}

Move(j, p) == phase' = [phase EXCEPT ![j] = p]

\* The worker of j may end in the same step.
MayLeave(j) == busy' \in {busy, busy \ {j}}

Accept(j) ==
    /\ phase[j] = "unknown" /\ Cardinality(SlotsTaken) < MaxJobs
    /\ Move(j, "queued") /\ UNCHANGED busy

Begin(j) ==
    /\ HasSlot(j)
    /\ j \notin busy /\ Cardinality(busy) < MaxParallel
    /\ Move(j, "held") /\ busy' = busy \cup {j}

Complete(j) ==
    /\ phase[j] = "held" /\ j \in busy
    /\ Move(j, "completed") /\ MayLeave(j)

\* Also of a completed job: a repair may act on an old record.
Fail(j) ==
    /\ phase[j] \in {"held", "completed"}
    /\ Move(j, "failed") /\ MayLeave(j)

Cancel(j) ==
    /\ HasSlot(j)
    /\ Move(j, "cancelled") /\ MayLeave(j)

\* A worker ends and leaves its job to others: to repair, to help, to its final state.
Leave(j) ==
    /\ j \in busy /\ busy' = busy \ {j}
    /\ UNCHANGED phase

Next ==
    \E j \in Jobs : \/ Accept(j) \/ Begin(j) \/ Complete(j)
                    \/ Fail(j) \/ Cancel(j) \/ Leave(j)

Spec == Init /\ [][Next]_vars
=============================================================================
