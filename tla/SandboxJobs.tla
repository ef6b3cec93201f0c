---------------------------- MODULE SandboxJobs ----------------------------
(***************************************************************************)
(* Jobs that run in a container: the call that creates one (the job tool,  *)
(* waiting or not, or a restart through the web), the ContainerJobManager  *)
(* with its handles and tokens, the worker in the container and what it    *)
(* reports, the monitor that hears of the result, cancellation, the        *)
(* reaper, self-repair, the jobs table, and restarts of the process, which *)
(* the containers survive.                                                 *)
(*                                                                         *)
(* An action is the code between two awaits that can see or change this    *)
(* state.  A step of Docker, or a request from the container, may fail; a  *)
(* request whose client goes away, and a tool whose time is over, are      *)
(* dropped at an await: what they would have done next is not done         *)
(* (MaxFaults bounds how often either happens).  The spawned writes of the *)
(* jobs table run at once: nothing here is about their order.              *)
(***************************************************************************)
EXTENDS JobStates, Naturals

CONSTANTS
    Jobs,
    MaxRepair,   \* DefaultSelfRepair::max_repair_attempts
    MaxFaults,   \* bound: failed steps and dropped calls
    MaxRestarts  \* bound: restarts of the process

ASSUME SandboxAssumption == {MaxRepair, MaxFaults, MaxRestarts} \subseteq Nat

VARIABLES
    ctx, repairs,  \* the job's context: state and repair_attempts
    row,           \* the job's row: its status
    handle,        \* ContainerJobManager::containers
    token,         \* TokenStore::tokens, with the credential grants
    call,          \* the call that creates the job: its kind and place
    complete,      \* where complete_job is
    stop,          \* for each caller of stop_job where it is
    box, worker,   \* the container, and the worker in it: where it is, how it ended
    monitor,       \* the task that waits for the job's result
    cut,           \* history: jobs with a stop that was dropped just before it revoked the token
    late,          \* the job is older than stuck_threshold and orphan_threshold
    faults, boots

context == <<ctx, repairs>>
docker == <<box, worker>>
manager == <<handle, token>>
tasks == <<call, complete, stop, monitor, cut>>
env == <<faults, boots>>
vars == <<context, row, docker, manager, tasks, late, env>>

Kinds == {"wait", "spawn", "restart"}
Modes == {"worker", "bridge"}
Callers == {"call", "tool", "web", "reaper"}
RowStatus == {"none", "creating", "running", "completed", "failed", "interrupted"}
Creating == {"create", "container", "start", "publish"}

NoHandle == [state |-> "none", id |-> FALSE, result |-> "none"]

TypeOK ==
    /\ ctx \in [Jobs -> JobState \cup {"Absent"}] /\ cut \subseteq Jobs
    /\ repairs \in [Jobs -> 0..MaxRepair] /\ late \in [Jobs -> BOOLEAN]
    /\ row \in [Jobs -> RowStatus]
    /\ handle \in [Jobs -> [state : {"none", "Creating", "Running", "Stopped"},
                            id : BOOLEAN, result : {"none", "ok", "failed"}]]
    /\ token \in [Jobs -> BOOLEAN]
    /\ call \in [Jobs -> [kind : Kinds,
                          at : Creating \cup {"idle", "poll", "timeout", "dropped", "over"}]]
    /\ complete \in [Jobs -> {"idle", "docker", "revoke", "dropped"}]
    /\ stop \in [Jobs -> [Callers -> {"idle", "docker", "mark", "revoke", "direct", "after"}]]
    /\ box \in [Jobs -> {"none", "created", "running", "exited"}]
    /\ worker \in [Jobs -> [at : {"none", "work", "report", "done"},
                            verdict : {"none", "ok", "failed", "stopped"}]]
    /\ monitor \in [Jobs -> {"none", "waiting", "Completed", "Failed", "done"}]
    \* A container works only if it was started, and nothing is known of one never created.
    /\ \A j \in Jobs : worker[j].at \in {"work", "report"} => box[j] = "running"
    /\ \A j \in Jobs : call[j].at = "idle" => ctx[j] = "Absent" /\ box[j] = "none"

Init ==
    /\ ctx = [j \in Jobs |-> "Absent"]
    /\ repairs = [j \in Jobs |-> 0]
    /\ late = [j \in Jobs |-> FALSE]
    /\ row = [j \in Jobs |-> "none"]
    /\ handle = [j \in Jobs |-> NoHandle]
    /\ token = [j \in Jobs |-> FALSE]
    /\ call \in [Jobs -> [kind : Kinds, at : {"idle"}]]
    /\ complete = [j \in Jobs |-> "idle"]
    /\ stop = [j \in Jobs |-> [c \in Callers |-> "idle"]]
    /\ box = [j \in Jobs |-> "none"]
    /\ worker = [j \in Jobs |-> [at |-> "none", verdict |-> "none"]]
    /\ monitor = [j \in Jobs |-> "none"]
    /\ cut = {} /\ faults = 0 /\ boots = 0

(***************************************************************************)
(* Pieces of several steps.                                                *)
(***************************************************************************)
Fault == faults < MaxFaults /\ faults' = faults + 1
Goto(j, to) == call' = [call EXCEPT ![j].at = to]

\* update_context with transition_to, whose error is ignored; a job that is not there is skipped.
Move(j, to) == ctx' = [ctx EXCEPT ![j] = IF @ = "Absent" THEN @ ELSE TransitionTo(@, to)]
Write(j, status) == row' = [row EXCEPT ![j] = status]

\* Stop and remove the container: the worker in it dies with it.
RemoveBox(j) ==
    /\ box' = [box EXCEPT ![j] = "none"]
    /\ worker' = [worker EXCEPT ![j].at = IF @ = "none" THEN @ ELSE "done"]

(***************************************************************************)
(* execute_sandbox, jobs_restart_handler and create_job.                   *)
(***************************************************************************)
\* The tool registers the job's context; a restart through the web only writes the row.
Register(j) ==
    /\ call[j].at = "idle" /\ Goto(j, "create")
    /\ ctx' = [ctx EXCEPT ![j] = IF call[j].kind = "restart" THEN @ ELSE "InProgress"]
    /\ Write(j, "creating")
    /\ UNCHANGED <<repairs, manager, complete, stop, docker, monitor, cut, late, env>>

MakeToken(j) ==
    /\ call[j].at = "create" /\ Goto(j, "container")
    /\ token' = [token EXCEPT ![j] = TRUE]
    /\ handle' = [handle EXCEPT ![j] = [NoHandle EXCEPT !.state = "Creating"]]
    /\ UNCHANGED <<context, row, complete, stop, docker, monitor, cut, late, env>>

CreateContainer(j) ==
    /\ call[j].at = "container" /\ Goto(j, "start")
    /\ box' = [box EXCEPT ![j] = "created"]
    /\ UNCHANGED <<context, row, manager, complete, stop, worker, monitor, cut, late, env>>

StartContainer(j) ==
    /\ call[j].at = "start" /\ box[j] = "created" /\ Goto(j, "publish")
    /\ box' = [box EXCEPT ![j] = "running"]
    /\ worker' = [worker EXCEPT ![j].at = "work"]
    /\ UNCHANGED <<context, row, manager, complete, stop, monitor, cut, late, env>>

\* The call ends and the job has the given state, in its row and its context.
EndCall(j, status, state) ==
    /\ Goto(j, "over")
    /\ Write(j, status) /\ Move(j, state)
    /\ UNCHANGED repairs

\* A container that was created and cannot be started stays behind.
CreateFails(j) ==
    /\ call[j].at \in {"create", "container", "start"}
    /\ token' = [token EXCEPT ![j] = FALSE]
    /\ handle' = [handle EXCEPT ![j] = NoHandle]
    /\ EndCall(j, "failed", "Failed")
    /\ UNCHANGED <<complete, stop, docker, monitor, cut, late, env>>

\* The handle learns the container's id, and the monitor subscribes, once Docker has answered.
Publish(j) ==
    /\ call[j].at = "publish"
    /\ handle' = [handle EXCEPT ![j] =
                    IF @.state = "none" THEN @ ELSE [@ EXCEPT !.id = TRUE, !.state = "Running"]]
    /\ Write(j, "running")
    /\ Goto(j, IF call[j].kind = "wait" THEN "poll" ELSE "over")
    /\ monitor' = [monitor EXCEPT ![j] = IF call[j].kind = "spawn" THEN "waiting" ELSE @]
    /\ UNCHANGED <<context, token, complete, stop, docker, cut, late, env>>

\* A waiting call polls the handle: without a result, and without a handle, it is a success.
PollDone(j) ==
    /\ call[j].at = "poll" /\ handle[j].state \in {"none", "Stopped"}
    /\ handle' = [handle EXCEPT ![j] = NoHandle]
    /\ IF handle[j].result = "failed"
       THEN EndCall(j, "failed", "Failed") ELSE EndCall(j, "completed", "Completed")
    /\ UNCHANGED <<token, complete, stop, docker, monitor, cut, late, env>>

(***************************************************************************)
(* stop_job, for each of its callers, and what each does after it.         *)
(***************************************************************************)
CanStop(j) == handle[j].state # "none" /\ handle[j].id
StopAt(j, c, to) == stop' = [stop EXCEPT ![j][c] = to]
StopJob(j, c, otherwise) == StopAt(j, c, IF CanStop(j) THEN "docker" ELSE otherwise)

\* Mutant of StopDocker: an error of Docker ends the stop.
StopDockerReturns(j, c) ==
    /\ stop[j][c] = "docker"
    /\ \/ StopAt(j, c, "mark") /\ RemoveBox(j) /\ UNCHANGED faults
       \/ /\ StopAt(j, c, IF c = "reaper" THEN "idle" ELSE "after")
          /\ Fault /\ UNCHANGED <<box, worker>>
    /\ UNCHANGED <<context, row, manager, call, complete, monitor, cut, late, boots>>

StopDocker(j, c) ==
    /\ stop[j][c] = "docker" /\ StopAt(j, c, "mark")
    /\ \/ RemoveBox(j) /\ UNCHANGED faults
       \/ Fault /\ UNCHANGED <<box, worker>>
    /\ UNCHANGED <<context, row, manager, call, complete, monitor, cut, late, boots>>

StopMark(j, c) ==
    /\ stop[j][c] = "mark" /\ StopAt(j, c, "revoke")
    /\ handle' = [handle EXCEPT ![j].state = IF @ = "none" THEN @ ELSE "Stopped"]
    /\ UNCHANGED <<context, row, token, call, complete, docker, monitor, cut, late, env>>

StopRevoke(j, c) ==
    /\ stop[j][c] = "revoke" /\ StopAt(j, c, IF c = "reaper" THEN "idle" ELSE "after")
    /\ token' = [token EXCEPT ![j] = FALSE]
    /\ UNCHANGED <<context, row, handle, call, complete, docker, monitor, cut, late, env>>

StopStep(j, c) == StopDocker(j, c) \/ StopMark(j, c) \/ StopRevoke(j, c)

\* The ten minutes of a waiting call are over.
PollTimesOut(j) ==
    /\ call[j].at = "poll" /\ Goto(j, "timeout") /\ StopJob(j, "call", "after")
    /\ UNCHANGED <<context, row, manager, complete, docker, monitor, cut, late, env>>

\* Mutant of CallGivesUp: stopping the job is thought to be enough.
CallGivesUpOnly(j) ==
    /\ stop[j]["call"] = "after" /\ StopAt(j, "call", "idle")
    /\ EndCall(j, "failed", "Failed")
    /\ UNCHANGED <<manager, complete, docker, monitor, cut, late, env>>

CallGivesUp(j) ==
    /\ stop[j]["call"] = "after" /\ StopAt(j, "call", "idle")
    /\ handle' = [handle EXCEPT ![j] = NoHandle]
    /\ EndCall(j, "failed", "Failed")
    /\ UNCHANGED <<token, complete, docker, monitor, cut, late, env>>

\* CancelJobTool cancels the context first; jobs_cancel_handler goes by the row.
CancelTool(j) ==
    /\ stop[j]["tool"] = "idle"
    /\ ctx[j] # "Absent" /\ CanTransition(ctx[j], "Cancelled")
    /\ Move(j, "Cancelled") /\ StopJob(j, "tool", "after")
    /\ UNCHANGED <<repairs, row, manager, call, complete, docker, monitor, cut, late, env>>

CancelToolRow(j) ==
    /\ stop[j]["tool"] = "after" /\ StopAt(j, "tool", "idle")
    /\ Write(j, "failed")
    /\ UNCHANGED <<context, manager, call, complete, docker, monitor, cut, late, env>>

CancelWeb(j) ==
    /\ stop[j]["web"] = "idle" /\ row[j] \in {"creating", "running"}
    /\ StopJob(j, "web", "after")
    /\ UNCHANGED <<context, row, manager, call, complete, docker, monitor, cut, late, env>>

CancelWebRow(j) ==
    /\ stop[j]["web"] = "after" /\ StopAt(j, "web", "idle")
    /\ Write(j, "failed")
    /\ UNCHANGED <<context, manager, call, complete, docker, monitor, cut, late, env>>

\* The web request, or the tool whose time is over, is dropped where it awaits: the token of a
\* stop that has marked the handle is then revoked by nobody.
Dropped(j, c) == cut' = IF stop[j][c] = "revoke" THEN cut \cup {j} ELSE cut

CancelDropped(j, c) ==
    /\ stop[j][c] # "idle" /\ StopAt(j, c, "idle") /\ Dropped(j, c) /\ Fault
    /\ UNCHANGED <<context, row, manager, call, complete, docker, monitor, late, boots>>

CallDropped(j) ==
    /\ call[j].at \in Creating \cup {"poll", "timeout"} /\ Goto(j, "dropped")
    /\ StopAt(j, "call", "idle") /\ Dropped(j, "call") /\ Fault
    /\ UNCHANGED <<context, row, manager, complete, docker, monitor, late, boots>>

(***************************************************************************)
(* SandboxReaper: containers older than orphan_threshold whose job is over *)
(* or unknown.  It takes one container at a time.                          *)
(***************************************************************************)
\* Mutant of IsActive: a job that is not found is spared.
IsActiveOrUnknown(j) == ~IsTerminal(ctx[j])

IsActive(j) == ctx[j] # "Absent" /\ ~IsTerminal(ctx[j])

Reap(j) ==
    /\ \A k \in Jobs : stop[k]["reaper"] = "idle"
    /\ box[j] # "none" /\ late[j] /\ ~IsActive(j)
    /\ StopJob(j, "reaper", "direct")
    /\ UNCHANGED <<context, row, manager, call, complete, docker, monitor, cut, late, env>>

\* The job has no handle any more, or not yet: remove the container itself.
ReapDirectly(j) ==
    /\ stop[j]["reaper"] = "direct" /\ StopAt(j, "reaper", "idle")
    /\ \/ RemoveBox(j) /\ UNCHANGED faults
       \/ Fault /\ UNCHANGED <<box, worker>>
    /\ UNCHANGED <<context, row, manager, call, complete, monitor, cut, late, boots>>

(***************************************************************************)
(* The worker in the container, and the orchestrator's API.  A request     *)
(* with a revoked token is refused.                                        *)
(***************************************************************************)
\* What JobResultStatus::from_str makes of the event: the worker of mode "worker" sends
\* `success' and no `status', which parses as a failure.
ResultStatus(mode, verdict) ==
    IF mode = "bridge" /\ verdict = "ok" THEN "Completed" ELSE "Failed"

\* The event is broadcast to whoever has subscribed; it may be lost on the way.
PostResult(j) ==
    /\ worker[j].at = "work"
    /\ \E verdict \in {"ok", "failed", "stopped"} :
         /\ worker' = [worker EXCEPT ![j] = [at |-> "report", verdict |-> verdict]]
         /\ \/ /\ IF monitor[j] = "waiting" /\ token[j] /\ verdict # "stopped"
                  THEN \E mode \in Modes :
                         monitor' = [monitor EXCEPT ![j] = ResultStatus(mode, verdict)]
                  ELSE UNCHANGED monitor
               /\ UNCHANGED faults
            \/ Fault /\ UNCHANGED monitor
    /\ UNCHANGED <<context, row, manager, call, complete, stop, box, cut, late, boots>>

\* report_complete, and the first half of complete_job.
ReportComplete(j) ==
    /\ worker[j].at = "report" /\ worker' = [worker EXCEPT ![j].at = "done"]
    /\ \/ /\ token[j] /\ UNCHANGED faults
          /\ handle' = [handle EXCEPT ![j] =
                 IF @.state = "none" THEN @
                 ELSE [@ EXCEPT !.state = "Stopped",
                                !.result = IF worker[j].verdict = "ok" THEN "ok" ELSE "failed"]]
          /\ complete' = [complete EXCEPT ![j] = "docker"]
       \/ ~token[j] /\ UNCHANGED <<handle, complete, faults>>
       \/ Fault /\ UNCHANGED <<handle, complete>>
    /\ UNCHANGED <<context, row, token, call, stop, box, monitor, cut, late, boots>>

CompleteDocker(j) ==
    /\ complete[j] = "docker" /\ complete' = [complete EXCEPT ![j] = "revoke"]
    /\ \/ CanStop(j) /\ RemoveBox(j) /\ UNCHANGED faults
       \/ ~CanStop(j) /\ UNCHANGED <<box, worker, faults>>
       \/ CanStop(j) /\ Fault /\ UNCHANGED <<box, worker>>
    /\ UNCHANGED <<context, row, manager, call, stop, monitor, cut, late, boots>>

CompleteRevoke(j) ==
    /\ complete[j] = "revoke" /\ complete' = [complete EXCEPT ![j] = "idle"]
    /\ token' = [token EXCEPT ![j] = FALSE]
    /\ UNCHANGED <<context, row, handle, call, stop, docker, monitor, cut, late, env>>

\* complete_job runs in the worker's own request: the worker that dies with its container,
\* or closes the connection, may take it along.
CompleteDropped(j) ==
    /\ complete[j] \in {"docker", "revoke"} /\ complete' = [complete EXCEPT ![j] = "dropped"] /\ Fault
    /\ UNCHANGED <<context, row, manager, call, stop, docker, monitor, cut, late, boots>>

\* The container exits when its worker has ended, or dies before.
ContainerExits(j) ==
    /\ box[j] = "running"
    /\ box' = [box EXCEPT ![j] = "exited"]
    /\ worker' = [worker EXCEPT ![j].at = "done"]
    /\ UNCHANGED <<context, row, manager, tasks, late, env>>

\* spawn_job_monitor_with_context, spawn_completion_watcher
MonitorMoves(j) ==
    /\ monitor[j] \in {"Completed", "Failed"}
    /\ Move(j, monitor[j]) /\ monitor' = [monitor EXCEPT ![j] = "done"]
    /\ UNCHANGED <<repairs, row, manager, call, complete, stop, docker, cut, late, env>>

(***************************************************************************)
(* Self-repair treats a registered job like a local one.                   *)
(***************************************************************************)
DetectStuck(j) ==
    /\ ctx[j] = "InProgress" /\ late[j]
    /\ Move(j, "Stuck")
    /\ UNCHANGED <<repairs, row, manager, tasks, docker, late, env>>

\* Mutants of RepairStuck: a job is recovered for ever; once too often.
RepairStuckAlways(j) ==
    /\ ctx[j] = "Stuck" /\ Move(j, "InProgress")
    /\ UNCHANGED <<repairs, row, manager, tasks, docker, late, env>>
RepairStuckLate(j) ==
    /\ ctx[j] = "Stuck"
    /\ \/ /\ repairs[j] <= MaxRepair /\ repairs' = [repairs EXCEPT ![j] = @ + 1]
          /\ Move(j, "InProgress")
       \/ repairs[j] > MaxRepair /\ Move(j, "Failed") /\ UNCHANGED repairs
    /\ UNCHANGED <<row, manager, tasks, docker, late, env>>

RepairStuck(j) ==
    /\ ctx[j] = "Stuck"
    /\ \/ /\ repairs[j] < MaxRepair /\ repairs' = [repairs EXCEPT ![j] = @ + 1]
          /\ Move(j, "InProgress")
       \/ repairs[j] = MaxRepair /\ Move(j, "Failed") /\ UNCHANGED repairs
    /\ UNCHANGED <<row, manager, tasks, docker, late, env>>

(***************************************************************************)
(* Time and restarts.                                                      *)
(***************************************************************************)
GrowLate(j) ==
    /\ call[j].at # "idle" /\ ~late[j] /\ late' = [late EXCEPT ![j] = TRUE]
    /\ UNCHANGED <<context, row, manager, tasks, docker, env>>

\* The process stops anywhere and starts again: memory is gone, containers run on, and
\* cleanup_stale_sandbox_jobs marks the rows of unfinished jobs.
Restart ==
    /\ boots < MaxRestarts /\ boots' = boots + 1
    /\ ctx' = [j \in Jobs |-> "Absent"]
    /\ repairs' = [j \in Jobs |-> 0]
    /\ row' = [j \in Jobs |-> IF row[j] \in {"creating", "running"} THEN "interrupted" ELSE row[j]]
    /\ handle' = [j \in Jobs |-> NoHandle]
    /\ token' = [j \in Jobs |-> FALSE]
    /\ call' = [j \in Jobs |-> IF call[j].at = "idle" THEN call[j] ELSE [call[j] EXCEPT !.at = "over"]]
    /\ complete' = [j \in Jobs |-> "idle"]
    /\ stop' = [j \in Jobs |-> [c \in Callers |-> "idle"]]
    /\ monitor' = [j \in Jobs |-> "none"]
    /\ cut' = {}
    /\ UNCHANGED <<docker, late, faults>>

(***************************************************************************)
(* Specification.                                                          *)
(***************************************************************************)
ReaperStep(j) ==
    Reap(j) \/ ReapDirectly(j) \/ StopStep(j, "reaper")
RepairStep(j) == DetectStuck(j) \/ RepairStuck(j)
CallStep(j) ==
    \/ Register(j) \/ MakeToken(j) \/ CreateContainer(j) \/ StartContainer(j)
    \/ CreateFails(j) \/ Publish(j) \/ PollDone(j) \/ PollTimesOut(j) \/ CallGivesUp(j)
    \/ StopStep(j, "call") \/ CallDropped(j)
CancelStep(j) ==
    \/ CancelTool(j) \/ CancelToolRow(j) \/ CancelWeb(j) \/ CancelWebRow(j)
    \/ \E c \in {"tool", "web"} : StopStep(j, c) \/ CancelDropped(j, c)
WorkerStep(j) ==
    \/ PostResult(j) \/ ReportComplete(j) \/ ContainerExits(j)
    \/ CompleteDocker(j) \/ CompleteRevoke(j) \/ CompleteDropped(j) \/ MonitorMoves(j)

Next ==
    \/ \E j \in Jobs :
         \/ CallStep(j) \/ CancelStep(j) \/ WorkerStep(j) \/ ReaperStep(j) \/ RepairStep(j)
         \/ GrowLate(j)
    \/ Restart

Spec == Init /\ [][Next]_vars

\* The reaper and self-repair are tasks that run for ever on an interval; time passes.
Fairness ==
    \A j \in Jobs :
        /\ WF_vars(ReaperStep(j)) /\ WF_vars(RepairStep(j))
        /\ WF_vars(GrowLate(j))

FairSpec == Spec /\ Fairness

(***************************************************************************)
(* Properties.                                                             *)
(***************************************************************************)
\* Somebody is about to revoke the token, or was dropped before he did (README, section 11).
Revoking(j) == j \in cut \/ \E c \in Callers : stop[j][c] = "revoke"

\* A worker that still works can authenticate only while a stop can find its container and
\* revoke the token (TokenStore::revoke): its job has a handle with the container's id, or one
\* whose call is about to publish the id, or was dropped before it did.
TokenIsRevocable ==
    \A j \in Jobs : token[j] /\ worker[j].at \in {"work", "report"} =>
        \/ handle[j].state # "none" /\ (handle[j].id \/ call[j].at \in {"publish", "dropped"})
        \/ Revoking(j)

\* A call that waited for its job and returned (execute_sandbox) has cleaned up, however the
\* completion, a cancel and the timeout met: no handle stays, nor a token, unless it is being
\* revoked, or the report of its worker, which has ended, was dropped before it was.
WaitedJobLeavesNothing ==
    \A j \in Jobs : call[j].at = "over" /\ call[j].kind = "wait" =>
        /\ handle[j].state = "none"
        /\ token[j] => (complete[j] # "idle" /\ worker[j].at = "done") \/ Revoking(j)

\* The container of a job that is over or that nobody knows of is removed in the end, also
\* after a crash between its creation and its clean-up (SandboxReaper).
OrphanIsReaped ==
    \A j \in Jobs : (box[j] # "none" /\ ~IsActive(j)) ~> (box[j] = "none")

\* A job of the tool gives its slot back in the end, also when the one event that says how it
\* ended was lost or sent before the monitor subscribed (detect_stuck_jobs).
SandboxSlotIsReleased ==
    \A j \in Jobs : IsParallelBlocking(ctx[j]) ~> ~IsParallelBlocking(ctx[j])
=============================================================================
