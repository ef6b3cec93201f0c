---------------------------- MODULE JobScheduler ----------------------------
(***************************************************************************)
(* Local jobs, from dispatch to their final state: the ContextManager's    *)
(* job contexts, the Scheduler's map of running jobs, the worker tasks and *)
(* their clean-up tasks, the self-repair task, the user's cancel and help  *)
(* commands, and the status column of the jobs table.                      *)
(*                                                                         *)
(* Granularity.  One action is what happens between two await points at    *)
(* which another task can observe or change the modelled state:            *)
(*  - ContextManager::update_context runs its closure under the contexts   *)
(*    write lock, so a check-and-transition inside one closure is atomic;  *)
(*  - worker mark_completed/mark_failed/mark_stuck spawn their database    *)
(*    write in the same poll as the transition, so both are one action;    *)
(*  - Scheduler::schedule and Scheduler::stop keep the jobs write lock     *)
(*    across awaits: `lock' records who holds it and for which job.        *)
(*                                                                         *)
(* Bounds.  MaxHelps caps the help commands per job.  One dispatch, one    *)
(* help and one cancel per job are in flight at a time.                    *)
(***************************************************************************)
EXTENDS Integers, FiniteSets, JobStates

CONSTANTS
    Jobs,         \* job ids
    NoJob,        \* a value that is not a job id
    Users,        \* user ids
    Owner,        \* Owner[j]: the user_id of job j
    HasStore,     \* Scheduler::store is Some (a database is configured)
    MaxJobs,      \* ContextManager::max_jobs
    MaxParallel,  \* AgentConfig::max_parallel_jobs
    MaxPerUser,   \* AgentConfig::max_jobs_per_user: {} is None, {n} is Some(n)
    MaxRepair,    \* DefaultSelfRepair::max_repair_attempts
    MaxHelps      \* bound: help commands per job

ASSUME JobsAssumption == IsFiniteSet(Jobs) /\ NoJob \notin Jobs
ASSUME OwnerAssumption == Owner \in [Jobs -> Users]
ASSUME LimitsAssumption ==
    /\ MaxJobs \in Nat /\ MaxParallel \in Nat /\ MaxPerUser \in SUBSET Nat
    /\ MaxRepair \in Nat /\ MaxHelps \in Nat
    /\ HasStore \in BOOLEAN

VARIABLES
    ctx,        \* ContextManager::contexts: job -> state, or "Absent"
    repair,     \* JobContext::repair_attempts
    aged,       \* jobs whose started_at lies stuck_threshold in the past
    longStuck,  \* jobs whose last move to Stuck lies stuck_threshold in the past
    been,       \* history: the outcomes the context has had, gone since or not
    disp,       \* where dispatch_job_inner is for this job
    help,       \* where handle_help_job is for this job
    helps,      \* help commands so far (bounded by MaxHelps)
    cancel,     \* where handle_cancel_job / stop_all is for this job
    lock,       \* holder of the write lock on Scheduler::jobs
    entry,      \* Scheduler::jobs: job -> worker generation, 0 when absent
    gen,        \* workers spawned for this job so far
    worker,     \* job -> generation -> where Worker::run is
    cleaner,    \* job -> generation -> where the clean-up task is
    todo,       \* detect_stuck_jobs: ids found and not inspected yet
    snap,       \* StuckJob::repair_attempts of the jobs to repair
    db,         \* status column of the jobs table, or "Absent"
    writes      \* spawned update_job_status calls not yet executed

ctxVars    == <<ctx, repair, aged, longStuck, been>>
callVars   == <<disp, help, helps, cancel>>
schedVars  == <<lock, entry, gen, cleaner>>
repairVars == <<todo, snap>>
dbVars     == <<db, writes>>
vars == <<ctxVars, callVars, schedVars, worker, repairVars, dbVars>>

Gens   == 1 .. 1 + MaxHelps
NoSnap == -1
Free   == [op |-> "none", job |-> NoJob, gen |-> 0]
Held(op, j, g) == [op |-> op, job |-> j, gen |-> g]

\* The states Worker::run can be in while its task is not finished.
LiveStates == {"wait", "run", "stopped", "returned"}
IsLive(j, g) == worker[j][g] \in LiveStates
HasWorker(j) == \E g \in Gens : IsLive(j, g)

Blocking == {j \in Jobs : IsParallelBlocking(ctx[j])}
BlockingOf(u) == {j \in Blocking : Owner[j] = u}
Scheduled == {j \in Jobs : entry[j] # 0}

Init ==
    /\ ctx = [j \in Jobs |-> "Absent"]
    /\ repair = [j \in Jobs |-> 0]
    /\ aged = {}
    /\ longStuck = {}
    /\ been = [j \in Jobs |-> {}]
    /\ disp = [j \in Jobs |-> "idle"]
    /\ help = [j \in Jobs |-> "idle"]
    /\ helps = [j \in Jobs |-> 0]
    /\ cancel = [j \in Jobs |-> "idle"]
    /\ lock = Free
    /\ entry = [j \in Jobs |-> 0]
    /\ gen = [j \in Jobs |-> 0]
    /\ worker = [j \in Jobs |-> [g \in Gens |-> "none"]]
    /\ cleaner = [j \in Jobs |-> [g \in Gens |-> "none"]]
    /\ todo = {}
    /\ snap = [j \in Jobs |-> NoSnap]
    /\ db = [j \in Jobs |-> "Absent"]
    /\ writes = [j \in Jobs |-> {}]

(***************************************************************************)
(* Job contexts.  SetState is the effect of a successful transition_to.    *)
(* started_at is set once, so `aged' is never reset; each move to Stuck    *)
(* pushes a fresh StateTransition, so `longStuck' starts again.  `been' is *)
(* a history variable: no action reads it.                                 *)
(***************************************************************************)
\* The states the spawned status writes of a worker report.
Outcomes == {"Completed", "Failed", "Stuck"}

Remember(j, s) == been' = [been EXCEPT ![j] = @ \cup ({s} \cap Outcomes)]

SetState(j, s) ==
    /\ ctx' = [ctx EXCEPT ![j] = s]
    /\ longStuck' = IF s = "Stuck" THEN longStuck \ {j} ELSE longStuck
    /\ Remember(j, s)

\* Time passes: the job has now been running for longer than stuck_threshold.
TickStarted(j) ==
    /\ ctx[j] = "InProgress" /\ j \notin aged
    /\ aged' = aged \cup {j}
    /\ UNCHANGED <<ctx, repair, longStuck, been, callVars, schedVars, worker, repairVars, dbVars>>

\* Time passes: the job has now been stuck for stuck_threshold.
TickStuck(j) ==
    /\ ctx[j] = "Stuck" /\ j \notin longStuck
    /\ longStuck' = longStuck \cup {j}
    /\ UNCHANGED <<ctx, repair, aged, been, callVars, schedVars, worker, repairVars, dbVars>>

(***************************************************************************)
(* dispatch_job_inner: create the context, save the row, schedule.  The    *)
(* metadata update between the first two changes nothing modelled here.    *)
(***************************************************************************)
\* Mutant of CreateAdmits: off by one.
CreateAdmitsOneMore == Cardinality(Blocking) <= MaxJobs

CreateAdmits == Cardinality(Blocking) < MaxJobs

CreateJob(j) ==
    /\ disp[j] = "idle"
    /\ IF CreateAdmits
       THEN /\ ctx' = [ctx EXCEPT ![j] = "Pending"]
            /\ disp' = [disp EXCEPT ![j] = "created"]
       ELSE /\ disp' = [disp EXCEPT ![j] = "done"]
            /\ UNCHANGED ctx
    /\ UNCHANGED <<repair, aged, longStuck, been, help, helps, cancel, schedVars, worker,
                   repairVars, dbVars>>

\* store.save_job writes the state of the snapshot taken at creation.
SaveJob(j) ==
    /\ disp[j] = "created"
    /\ \/ /\ db' = [db EXCEPT ![j] = IF HasStore THEN "Pending" ELSE @]
          /\ disp' = [disp EXCEPT ![j] = "saved"]
       \/ /\ HasStore                               \* the database returned Err
          /\ disp' = [disp EXCEPT ![j] = "done"]
          /\ UNCHANGED db
    /\ UNCHANGED <<ctxVars, help, helps, cancel, schedVars, worker, repairVars, writes>>

(***************************************************************************)
(* schedule_with_context, called by dispatch_job_inner ("dispatch") and by *)
(* handle_help_job ("help").  ScheduleCheck takes the jobs write lock and  *)
(* runs the three early returns; ScheduleCommit transitions the context,   *)
(* spawns the worker and the clean-up task and inserts the entry.          *)
(***************************************************************************)
UserAdmits(j) == \A n \in MaxPerUser : Cardinality(BlockingOf(Owner[j])) < n

\* Mutants of ScheduleAdmits: the contains_key check dropped; off by one.
ScheduleAdmitsAgain(j) == Cardinality(Scheduled) < MaxParallel /\ UserAdmits(j)
ScheduleAdmitsOneMore(j) ==
    entry[j] = 0 /\ Cardinality(Scheduled) <= MaxParallel /\ UserAdmits(j)

ScheduleAdmits(j) ==
    /\ entry[j] = 0
    /\ Cardinality(Scheduled) < MaxParallel
    /\ UserAdmits(j)

CallerWaits(who, j) == IF who = "dispatch" THEN disp[j] = "saved" ELSE help[j] = "resched"

CallerReturns(who, j) ==
    /\ disp' = IF who = "dispatch" THEN [disp EXCEPT ![j] = "done"] ELSE disp
    /\ help' = IF who = "help" THEN [help EXCEPT ![j] = "idle"] ELSE help

ScheduleCheck(who, j) ==
    /\ CallerWaits(who, j)
    /\ lock = Free
    /\ IF ScheduleAdmits(j)
       THEN lock' = Held(who, j, 0) /\ UNCHANGED <<disp, help>>
       ELSE CallerReturns(who, j) /\ UNCHANGED lock
    /\ UNCHANGED <<ctxVars, helps, cancel, entry, gen, cleaner, worker, repairVars, dbVars>>

SpawnWorker(j) ==
    LET g == gen[j] + 1 IN
    /\ gen' = [gen EXCEPT ![j] = g]
    /\ worker' = [worker EXCEPT ![j][g] = "wait"]
    /\ cleaner' = [cleaner EXCEPT ![j][g] = "poll"]
    /\ entry' = [entry EXCEPT ![j] = g]

\* Mutant of ScheduleCommit: the transition's error is ignored.
ScheduleCommitAnyway(who, j) ==
    /\ lock = Held(who, j, 0)
    /\ lock' = Free
    /\ CallerReturns(who, j)
    /\ SpawnWorker(j)
    /\ ctx' = [ctx EXCEPT ![j] = TransitionTo(@, "InProgress")]
    /\ UNCHANGED <<longStuck, been, repair, aged, helps, cancel, repairVars, dbVars>>

ScheduleCommit(who, j) ==
    /\ lock = Held(who, j, 0)
    /\ lock' = Free
    /\ CallerReturns(who, j)
    /\ IF CanTransition(ctx[j], "InProgress")
       THEN SetState(j, "InProgress") /\ SpawnWorker(j)
       ELSE UNCHANGED <<ctx, longStuck, been, gen, worker, cleaner, entry>>
    /\ UNCHANGED <<repair, aged, helps, cancel, repairVars, dbVars>>

\* Mutant of CleanupPoll: removes the entry without asking is_finished.
CleanupPollUnchecked(j, g) ==
    /\ cleaner[j][g] = "poll" /\ lock = Free
    /\ cleaner' = [cleaner EXCEPT ![j][g] = "remove"]
    /\ UNCHANGED <<ctxVars, callVars, lock, entry, gen, worker, repairVars, dbVars>>

\* The clean-up task: sees the entry gone or its worker finished, then, after
\* releasing the read lock, takes the write lock and removes the entry.
CleanupPoll(j, g) ==
    /\ cleaner[j][g] = "poll"
    /\ lock = Free
    /\ entry[j] # 0 => worker[j][entry[j]] = "finished"
    /\ cleaner' = [cleaner EXCEPT ![j][g] = "remove"]
    /\ UNCHANGED <<ctxVars, callVars, lock, entry, gen, worker, repairVars, dbVars>>

CleanupRemove(j, g) ==
    /\ cleaner[j][g] = "remove"
    /\ lock = Free
    /\ entry' = [entry EXCEPT ![j] = 0]
    /\ cleaner' = [cleaner EXCEPT ![j][g] = "none"]
    /\ UNCHANGED <<ctxVars, callVars, lock, gen, worker, repairVars, dbVars>>

(***************************************************************************)
(* Worker::run.  "wait": before Start; "run": inside execution_loop;       *)
(* "stopped": the loop returned LoopOutcome::Stopped; "returned": it       *)
(* returned Ok otherwise; "finished": the task is over (or aborted).       *)
(***************************************************************************)
Goto(j, g, pc) == worker' = [worker EXCEPT ![j][g] = pc]

\* A spawned update_job_status call (none without a store).
Spawned(j, s) == [writes EXCEPT ![j] = IF HasStore THEN @ \cup {s} ELSE @]

\* Mutant of Mark: persists the status of a rejected transition too.
MarkAndPersistAlways(j, s) ==
    /\ IF CanTransition(ctx[j], s) THEN SetState(j, s) ELSE UNCHANGED <<ctx, longStuck, been>>
    /\ writes' = Spawned(j, s)

\* mark_completed / mark_failed / mark_stuck: the transition, and on success
\* the spawned database write.
Mark(j, s) ==
    IF CanTransition(ctx[j], s)
    THEN SetState(j, s) /\ writes' = Spawned(j, s)
    ELSE UNCHANGED <<ctx, longStuck, been, writes>>

WorkerStart(j, g) ==
    /\ worker[j][g] = "wait"
    /\ Goto(j, g, "run")
    /\ UNCHANGED <<ctxVars, callVars, schedVars, repairVars, dbVars>>

\* A final text answer: mark_completed (a failure is only logged).
WorkerAnswer(j, g) ==
    /\ worker[j][g] = "run"
    /\ Mark(j, "Completed")
    /\ Goto(j, g, "returned")
    /\ UNCHANGED <<repair, aged, callVars, schedVars, repairVars, db>>

\* An error, the iteration cap, a Failure outcome or persistent rate limits:
\* mark_failed; where it runs twice the second call is rejected.
WorkerFail(j, g) ==
    /\ worker[j][g] = "run"
    /\ Mark(j, "Failed")
    /\ Goto(j, g, "finished")
    /\ UNCHANGED <<repair, aged, callVars, schedVars, repairVars, db>>

\* The token budget is exceeded: mark_failed, and the loop goes on.
WorkerBudget(j, g) ==
    /\ worker[j][g] = "run"
    /\ Mark(j, "Failed")
    /\ IF CanTransition(ctx[j], "Failed") THEN UNCHANGED worker
                                          ELSE Goto(j, g, "finished")
    /\ UNCHANGED <<repair, aged, callVars, schedVars, repairVars, db>>

\* check_signals: a Stop message, or a context that is past execution.
WorkerSignal(j, g) ==
    /\ worker[j][g] = "run"
    /\ \/ lock = Held("stop", j, g)
       \/ ctx[j] \in {"Cancelled", "Failed", "Completed", "Submitted", "Accepted"}
    /\ Goto(j, g, "stopped")
    /\ UNCHANGED <<ctxVars, callVars, schedVars, repairVars, dbVars>>

\* tokio::time::timeout elapses: mark_stuck.
WorkerTimeout(j, g) ==
    /\ worker[j][g] = "run"
    /\ Mark(j, "Stuck")
    /\ Goto(j, g, "finished")
    /\ UNCHANGED <<repair, aged, callVars, schedVars, repairVars, db>>

\* run() after execution_loop returned Ok: complete the job unless its state
\* is terminal, Completed or Stuck.
WorkerReturn(j, g) ==
    /\ worker[j][g] \in {"stopped", "returned"}
    /\ IF IsTerminal(ctx[j]) \/ ctx[j] \in {"Completed", "Stuck"}
       THEN UNCHANGED <<ctx, longStuck, been, writes>>
       ELSE Mark(j, "Completed")
    /\ Goto(j, g, "finished")
    /\ UNCHANGED <<repair, aged, callVars, schedVars, repairVars, db>>

(***************************************************************************)
(* Scheduler::stop, called by the cancel command ("wait") and by stop_all  *)
(* at shutdown ("drain").  The write lock is held from the removal of the  *)
(* entry to the abort of the worker; both callers then go on.              *)
(***************************************************************************)
\* handle_cancel_job asks only that the context exists; jobs_cancel_handler
\* that the row it has read is still active.
CancelCommandAllowed(j) == ctx[j] # "Absent"
CancelWebAllowed(j) == db[j] # "Absent" /\ ~IsTerminal(db[j])

RequestCancel(j) ==
    /\ cancel[j] = "idle"
    /\ CancelCommandAllowed(j) \/ CancelWebAllowed(j)
    /\ cancel' = [cancel EXCEPT ![j] = "wait"]
    /\ UNCHANGED <<ctxVars, disp, help, helps, schedVars, worker, repairVars, dbVars>>

RequestStopAll(j) ==
    /\ cancel[j] = "idle" /\ entry[j] # 0 /\ lock = Free
    /\ cancel' = [cancel EXCEPT ![j] = "drain"]
    /\ UNCHANGED <<ctxVars, disp, help, helps, schedVars, worker, repairVars, dbVars>>

AfterStop(j) == [cancel EXCEPT ![j] = IF @ = "wait" THEN "persist" ELSE "idle"]

\* Mutant of StopBegin: waits for a job that is not in the map.
StopBeginWaits(j) ==
    /\ cancel[j] \in {"wait", "drain"} /\ lock = Free /\ entry[j] # 0
    /\ lock' = Held("stop", j, entry[j])
    /\ entry' = [entry EXCEPT ![j] = 0]
    /\ UNCHANGED <<ctxVars, callVars, gen, cleaner, worker, repairVars, dbVars>>

StopBegin(j) ==
    /\ cancel[j] \in {"wait", "drain"}
    /\ lock = Free
    /\ IF entry[j] = 0
       THEN cancel' = AfterStop(j) /\ UNCHANGED <<lock, entry>>
       ELSE /\ lock' = Held("stop", j, entry[j])
            /\ entry' = [entry EXCEPT ![j] = 0]
            /\ UNCHANGED cancel
    /\ UNCHANGED <<ctxVars, disp, help, helps, gen, cleaner, worker, repairVars, dbVars>>

\* After 100 ms: abort the task if it still runs, try to cancel the context,
\* and spawn the database write whether or not the transition succeeded.
StopEnd(j) ==
    /\ lock = Held("stop", j, lock.gen)
    /\ Goto(j, lock.gen, "finished")
    /\ ctx' = [ctx EXCEPT ![j] = TransitionTo(@, "Cancelled")]
    /\ writes' = Spawned(j, "Cancelled")
    /\ lock' = Free
    /\ cancel' = AfterStop(j)
    /\ UNCHANGED <<repair, aged, longStuck, been, disp, help, helps, entry, gen, cleaner,
                   repairVars, db>>

\* update_job_status reaches an existing row only.
Store(j, s) == db' = [db EXCEPT ![j] = IF @ = "Absent" THEN @ ELSE s]

\* The command's own, awaited, database write; an error is only logged.
CancelPersist(j) ==
    /\ cancel[j] = "persist"
    /\ cancel' = [cancel EXCEPT ![j] = "idle"]
    /\ Store(j, "Cancelled") \/ UNCHANGED db
    /\ UNCHANGED <<ctxVars, disp, help, helps, schedVars, worker, repairVars, writes>>

\* CancelJobTool: transitions the context and leaves the worker running.
CancelTool(j) ==
    /\ CanTransition(ctx[j], "Cancelled")
    /\ SetState(j, "Cancelled")
    /\ UNCHANGED <<repair, aged, callVars, schedVars, worker, repairVars, dbVars>>

(***************************************************************************)
(* handle_help_job: attempt_recovery, then schedule (ScheduleCheck).       *)
(***************************************************************************)
AttemptRecovery(j) ==
    /\ repair' = [repair EXCEPT ![j] = @ + 1]
    /\ ctx' = [ctx EXCEPT ![j] = "InProgress"]

HelpJob(j) ==
    /\ help[j] = "idle" /\ helps[j] < MaxHelps
    /\ ctx[j] = "Stuck"
    /\ AttemptRecovery(j)
    /\ help' = [help EXCEPT ![j] = "resched"]
    /\ helps' = [helps EXCEPT ![j] = @ + 1]
    /\ UNCHANGED <<aged, longStuck, been, disp, cancel, schedVars, worker, repairVars, dbVars>>

(***************************************************************************)
(* The repair task: one scan finds ids, inspects each, collects StuckJob   *)
(* records, and then repairs from those records.                           *)
(***************************************************************************)
\* Mutant of FoundStuck: no threshold detection of InProgress jobs.
FoundStuckOnly == {j \in Jobs : ctx[j] = "Stuck"}

FoundStuck == {j \in Jobs : ctx[j] = "Stuck" \/ (ctx[j] = "InProgress" /\ j \in aged)}

RepairScan ==
    /\ todo = {} /\ \A j \in Jobs : snap[j] = NoSnap
    /\ FoundStuck # {}
    /\ todo' = FoundStuck
    /\ UNCHANGED <<ctxVars, callVars, schedVars, worker, snap, dbVars>>

RepairInspect(j) ==
    /\ j \in todo
    /\ todo' = todo \ {j}
    /\ \/ /\ ctx[j] = "InProgress"
          /\ SetState(j, "Stuck")
          /\ snap' = [snap EXCEPT ![j] = repair[j]]
       \/ /\ ctx[j] = "Stuck" /\ j \in longStuck
          /\ snap' = [snap EXCEPT ![j] = repair[j]]
          /\ UNCHANGED <<ctx, longStuck, been>>
       \/ /\ ctx[j] # "InProgress" /\ ~(ctx[j] = "Stuck" /\ j \in longStuck)
          /\ UNCHANGED <<ctx, longStuck, been, snap>>
    /\ UNCHANGED <<repair, aged, callVars, schedVars, worker, dbVars>>

\* Mutant of RepairExhausted: off by one.
RepairExhaustedLate(j) == snap[j] > MaxRepair

RepairExhausted(j) == snap[j] >= MaxRepair

\* repair_stuck_job decides on the attempts recorded in the StuckJob, then
\* acts on the context as it is now.
RepairJob(j) ==
    /\ todo = {} /\ snap[j] # NoSnap
    /\ snap' = [snap EXCEPT ![j] = NoSnap]
    /\ IF RepairExhausted(j)
       THEN /\ ctx' = [ctx EXCEPT ![j] = TransitionTo(@, "Failed")]
            /\ Remember(j, TransitionTo(ctx[j], "Failed"))
            /\ UNCHANGED <<repair, longStuck>>
       ELSE \/ /\ ctx[j] \in {"InProgress", "Stuck"}
               /\ AttemptRecovery(j)
               /\ longStuck' = IF ctx[j] = "InProgress" THEN longStuck \ {j} ELSE longStuck
               /\ Remember(j, "Stuck")
            \/ /\ ctx[j] \notin {"InProgress", "Stuck"}
               /\ UNCHANGED <<ctx, repair, longStuck, been>>
    /\ UNCHANGED <<aged, callVars, schedVars, worker, todo, dbVars>>

(***************************************************************************)
(* The database executes the spawned writes in any order; one may fail.    *)
(***************************************************************************)
DbWrite(j, s) ==
    /\ s \in writes[j]
    /\ writes' = [writes EXCEPT ![j] = @ \ {s}]
    /\ Store(j, s) \/ UNCHANGED db
    /\ UNCHANGED <<ctxVars, callVars, schedVars, worker, repairVars>>

CallStep(j) ==
    \/ CreateJob(j) \/ SaveJob(j)
    \/ \E who \in {"dispatch", "help"} : ScheduleCheck(who, j) \/ ScheduleCommit(who, j)
    \/ RequestCancel(j) \/ RequestStopAll(j) \/ StopBegin(j) \/ StopEnd(j)
    \/ CancelPersist(j) \/ CancelTool(j) \/ HelpJob(j)

WorkerStep(j, g) ==
    \/ WorkerStart(j, g) \/ WorkerAnswer(j, g) \/ WorkerFail(j, g) \/ WorkerBudget(j, g)
    \/ WorkerSignal(j, g) \/ WorkerTimeout(j, g) \/ WorkerReturn(j, g)

TaskStep(j) ==
    \/ \E g \in Gens : WorkerStep(j, g) \/ CleanupPoll(j, g) \/ CleanupRemove(j, g)
    \/ RepairInspect(j) \/ RepairJob(j)
    \/ TickStarted(j) \/ TickStuck(j)
    \/ \E s \in JobState : DbWrite(j, s)

Next == RepairScan \/ \E j \in Jobs : CallStep(j) \/ TaskStep(j)

(***************************************************************************)
(* Fairness.  tokio polls every ready task; the worker's timeout fires;    *)
(* the repair task runs on its interval; time passes; spawned writes run.  *)
(* Nothing makes a user cancel, help or dispatch.                          *)
(***************************************************************************)
Fairness ==
    /\ WF_vars(RepairScan)
    /\ \A j \in Jobs :
        /\ WF_vars(SaveJob(j))
        /\ \A who \in {"dispatch", "help"} :
            WF_vars(ScheduleCheck(who, j)) /\ WF_vars(ScheduleCommit(who, j))
        /\ WF_vars(StopBegin(j)) /\ WF_vars(StopEnd(j)) /\ WF_vars(CancelPersist(j))
        /\ WF_vars(RepairInspect(j)) /\ WF_vars(RepairJob(j))
        /\ WF_vars(TickStarted(j)) /\ WF_vars(TickStuck(j))
        /\ \A g \in Gens :
            /\ WF_vars(WorkerStart(j, g)) /\ WF_vars(WorkerTimeout(j, g))
            /\ WF_vars(WorkerReturn(j, g))
            /\ WF_vars(CleanupPoll(j, g)) /\ WF_vars(CleanupRemove(j, g))
        /\ WF_vars(\E s \in JobState : DbWrite(j, s))

Spec == Init /\ [][Next]_vars
FairSpec == Spec /\ Fairness

-----------------------------------------------------------------------------
(***************************************************************************)
(* The promise of JobLifecycle, as seen through this state.                *)
(***************************************************************************)
Lifecycle == INSTANCE JobLifecycle
    WITH phase <- [j \in Jobs |-> Phase(ctx[j])], busy <- {j \in Jobs : HasWorker(j)}

(***************************************************************************)
(* Properties.                                                             *)
(***************************************************************************)
CtxTypeOK ==
    /\ ctx \in [Jobs -> JobState \cup {"Absent"}]
    /\ repair \in [Jobs -> Nat]
    /\ aged \in SUBSET Jobs
    /\ longStuck \in SUBSET Jobs
    /\ been \in [Jobs -> SUBSET Outcomes]

CallTypeOK ==
    /\ disp \in [Jobs -> {"idle", "created", "saved", "done"}]
    /\ help \in [Jobs -> {"idle", "resched"}]
    /\ helps \in [Jobs -> 0 .. MaxHelps]
    /\ cancel \in [Jobs -> {"idle", "wait", "drain", "persist"}]

LockTypeOK ==
    \/ lock = Free
    \/ \E j \in Jobs : lock = Held("dispatch", j, 0) \/ lock = Held("help", j, 0)
    \/ \E j \in Jobs : \E g \in Gens : lock = Held("stop", j, g)

SchedTypeOK ==
    /\ entry \in [Jobs -> {0} \cup Gens]
    /\ gen \in [Jobs -> {0} \cup Gens]
    /\ worker \in [Jobs -> [Gens -> LiveStates \cup {"none", "finished"}]]
    /\ cleaner \in [Jobs -> [Gens -> {"none", "poll", "remove"}]]

RepairTypeOK ==
    /\ todo \in SUBSET Jobs
    /\ snap \in [Jobs -> Nat \cup {NoSnap}]

DbTypeOK ==
    /\ db \in [Jobs -> JobState \cup {"Absent"}]
    /\ writes \in [Jobs -> SUBSET JobState]

\* The values every variable takes, for the whole composition.
TypeOK ==
    CtxTypeOK /\ CallTypeOK /\ LockTypeOK /\ SchedTypeOK /\ RepairTypeOK /\ DbTypeOK

\* insert_context promises that at most max_jobs contexts hold a parallel
\* slot (Pending, InProgress or Stuck).  The check runs at creation only, so
\* this also says that no later transition, recovery or repair moves a job
\* that gave its slot back into a slot again.
SlotsWithinLimit == Cardinality(Blocking) <= MaxJobs

\* At most max_parallel_jobs worker tasks execute at once, even while stop()
\* has already removed a job from the map whose worker it has not yet aborted
\* and while clean-up tasks decide on what they saw under an earlier lock.
WorkersWithinCapacity == Cardinality({j \in Jobs : HasWorker(j)}) <= MaxParallel

\* No job is executed by two workers at once, although help commands and
\* self-repair can bring a job whose worker ended back into the scheduler.
OneWorkerPerJob ==
    \A j \in Jobs : \A g, h \in Gens : IsLive(j, g) /\ IsLive(j, h) => g = h

\* A worker that is still executing can be found by stop(): its job is in the
\* scheduler's map, unless a stop() in progress has just taken it out.
LiveWorkerIsTracked ==
    \A j \in Jobs : \A g \in Gens :
        IsLive(j, g) => entry[j] = g \/ lock = Held("stop", j, g)

\* The repair task never spends more than max_repair_attempts recoveries on a
\* job beyond those the user asked for, although it decides on the attempts
\* it recorded before other tasks ran.
RepairIsBounded == \A j \in Jobs : repair[j] <= MaxRepair + helps[j]

\* Whatever order the spawned status writes run in, and however many of them fail, the
\* jobs table reports an outcome - Completed, Failed or Stuck - only of a job whose context
\* has been in that state; a row that says Failed is never outdated, one that says Completed
\* only by a failure.  Cancelled is no such report: the cancel command and stop() write it
\* whether or not the context could be cancelled.
ReportedOutcomesHappened ==
    \A j \in Jobs : \A s \in (writes[j] \cup {db[j]}) \cap Outcomes :
        /\ s \in been[j]
        /\ s = "Completed" => ctx[j] \in {"Completed", "Failed"}
        /\ s = "Failed" => ctx[j] = "Failed"

\* A completed job stays completed.  The one exception is a repair that acts
\* on an old record: the repair task recorded the job as exhausted, a help
\* command then brought it back into execution and a worker completed it.
OnlyStaleRepairUndoesCompletion ==
    [][\A j \in Jobs :
        ctx[j] = "Completed" /\ ctx'[j] # "Completed" =>
            /\ ctx'[j] = "Failed"
            /\ snap[j] >= MaxRepair /\ helps[j] > 0]_vars

\* Accepted, Failed and Cancelled are final for every component that can
\* touch a context: no late worker, repair, stop or help changes them.
TerminalIsFinal ==
    [][\A j \in Jobs : IsTerminal(ctx[j]) => ctx'[j] = ctx[j]]_vars

\* Every step of dispatch, workers, clean-up, stop, help and self-repair is a step of the
\* abstract job or none: one worker at a time, begun only while the job holds a slot,
\* completion by that worker alone, nothing after the end.
ImplementsLifecycle == Lifecycle!Spec

\* Every job that was started gives its parallel slot back: its worker ends
\* or times out, and self-repair recovers it at most max_repair_attempts
\* times before it fails it, whatever users cancel or help meanwhile.
SlotIsReleased ==
    \A j \in Jobs :
        ctx[j] \in {"InProgress", "Stuck"} ~> ~IsParallelBlocking(ctx[j])

\* A cancel command returns: stop() neither waits for ever for the jobs lock
\* nor for the worker.
CancelReturns == \A j \in Jobs : cancel[j] = "wait" ~> cancel[j] = "idle"
=============================================================================
