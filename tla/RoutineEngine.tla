--------------------------- MODULE RoutineEngine ---------------------------
(***************************************************************************)
(* Routines: what fires them (the cron ticker, chat and system events, a   *)
(* manual or a webhook request), the task that executes a run, the job a   *)
(* full-job run dispatches and watches, and the recovery of the runs that  *)
(* an earlier process left behind.                                         *)
(*                                                                         *)
(* An action is the code between two awaits that can see or change this    *)
(* state.  A write to the database may fail (MaxFaults bounds how often);  *)
(* a read that fails skips the round, as a round that finds nothing does.  *)
(* Time is what it does to a routine: the cooldown runs out, the next      *)
(* slot of its schedule becomes due.                                       *)
(***************************************************************************)
EXTENDS JobStates, Naturals, FiniteSets

CONSTANTS
    Routines,
    Cron,          \* routines with a cron trigger; the others are event routines
    FullJob,       \* routines that dispatch a job; the others are lightweight
    MaxConcurrent, \* guardrails.max_concurrent, of each routine
    MaxGlobal,     \* max_concurrent_routines
    MaxRuns,       \* bound: runs
    MaxFaults,     \* bound: failed database writes
    MaxRestarts    \* bound: restarts

ASSUME RoutineAssumption ==
    /\ Cron \subseteq Routines /\ FullJob \subseteq Routines
    /\ {MaxConcurrent, MaxGlobal, MaxRuns, MaxFaults, MaxRestarts} \subseteq Nat

VARIABLES
    routine,   \* routines table: due (next_fire_at has passed),
               \* cooling (last_run_at is within the cooldown)
    row,       \* routine_runs table: routine, status, linked, old (started before boot_time)
    job,       \* the state in the jobs row of the job a run dispatched
    task,      \* where the task that executes a run is
    outcome,   \* the status that task has to write
    running,   \* running_count
    ticker,    \* where the cron ticker is, what it still has to visit
    caller,    \* a manual or webhook request in flight
    faults, boots,
    scheduled, \* runs whose job the scheduler has accepted
    over,      \* history: runs whose job's row has said that the job is over
    unwritten, \* history: runs whose final status could not be written
    gaveUp     \* history: runs whose link or watch ended in an error or the 24 h limit

tables == <<routine, row, job>>
taskVars == <<task, outcome, running>>
history == <<scheduled, over, unwritten, gaveUp>>
env == <<faults, boots>>
vars == <<tables, taskVars, ticker, caller, env, history>>

Runs == 1..MaxRuns
Final == {"ok", "failed"}
NoTask == [at |-> "none", routine |-> "none"]
NoRow == [routine |-> "none", status |-> "none", linked |-> FALSE, old |-> FALSE]
Idle == [at |-> "idle", todo |-> {}, run |-> 0, found |-> "ok"]
NoCall == [at |-> "idle", routine |-> "none"]

Executing == {"light", "dispatch", "schedule", "link", "watch"}
TaskState == Executing \cup {"none", "record", "start", "complete", "update"}

TypeOK ==
    /\ routine \in [Routines -> [due : BOOLEAN, cooling : BOOLEAN]]
    /\ row \in [Runs -> [routine : Routines \cup {"none"}, linked : BOOLEAN, old : BOOLEAN,
                         status : Final \cup {"none", "running"}]]
    /\ job \in [Runs -> JobState \cup {"none"}]
    /\ task \in [Runs -> [at : TaskState, routine : Routines \cup {"none"}]]
    /\ outcome \in [Runs -> Final]
    /\ running = Cardinality({i \in Runs : task[i].at \in Executing})
    /\ ticker.at \in {"idle", "syncing", "completing", "finalise", "checking"}
    /\ caller.at \in {"idle", "admitted"}

Init ==
    /\ routine \in [Routines -> [due : {FALSE}, cooling : {FALSE}]]
    /\ row = [i \in Runs |-> NoRow]
    /\ job = [i \in Runs |-> "none"]
    /\ task = [i \in Runs |-> NoTask]
    /\ outcome = [i \in Runs |-> "ok"]
    /\ running = 0
    /\ ticker = Idle
    /\ caller = NoCall
    /\ faults = 0 /\ boots = 0
    /\ scheduled = {} /\ over = {} /\ unwritten = {} /\ gaveUp = {}

(***************************************************************************)
(* Checks made before a routine fires.                                     *)
(***************************************************************************)
Unused == {i \in Runs : row[i] = NoRow /\ task[i].at = "none"}
Fresh == CHOOSE i \in Unused : TRUE

RunningRows(r) == {i \in Runs : row[i].routine = r /\ row[i].status = "running"}
ConcurrencyAllows(r) == Cardinality(RunningRows(r)) < MaxConcurrent
CapacityLeft == running < MaxGlobal

(***************************************************************************)
(* spawn_fire: the task that will insert the run's row and execute it.     *)
(***************************************************************************)
SpawnFire(r) ==
    /\ Unused # {}
    /\ task' = [task EXCEPT ![Fresh] = [at |-> "record", routine |-> r]]

\* check_cron_triggers, once for each routine listed as due.
DueNow == {r \in Cron : routine[r].due /\ ~routine[r].cooling}

CronSkip(r) ==
    /\ ticker.at = "checking" /\ r \in ticker.todo
    /\ CapacityLeft
    /\ ~ConcurrencyAllows(r) \/ Unused = {}    \* the bound on runs does not block the ticker
    /\ ticker' = [ticker EXCEPT !.todo = @ \ {r}]
    /\ UNCHANGED <<tables, taskVars, caller, env, history>>

CronFire(r) ==
    /\ ticker.at = "checking" /\ r \in ticker.todo
    /\ CapacityLeft /\ ConcurrencyAllows(r)
    /\ SpawnFire(r)
    /\ ticker' = [ticker EXCEPT !.todo = @ \ {r}]
    /\ UNCHANGED <<tables, outcome, running, caller, env, history>>

\* The global limit ends the round; so does the end of the list.
CronDone ==
    /\ ticker.at = "checking"
    /\ ticker.todo = {} \/ ~CapacityLeft
    /\ ticker' = Idle
    /\ UNCHANGED <<tables, taskVars, caller, env, history>>

\* check_event_triggers and emit_system_event, for one matching routine of the cache.
EventFire(r) ==
    /\ r \notin Cron /\ ~routine[r].cooling
    /\ ConcurrencyAllows(r) /\ CapacityLeft
    /\ SpawnFire(r)
    /\ UNCHANGED <<tables, outcome, running, ticker, caller, env, history>>

\* fire_manual and fire_webhook: load the routine, count its runs, insert the row, spawn.
FireCheck(r, kind) ==
    /\ caller.at = "idle"
    /\ ConcurrencyAllows(r)
    /\ kind = "webhook" => ~routine[r].cooling /\ CapacityLeft
    /\ caller' = [at |-> "admitted", routine |-> r]
    /\ UNCHANGED <<tables, taskVars, ticker, env, history>>

FireRecord ==
    /\ caller.at = "admitted" /\ Unused # {}
    /\ \/ /\ row' = [row EXCEPT ![Fresh] = [NoRow EXCEPT !.routine = caller.routine,
                                                         !.status = "running"]]
          /\ task' = [task EXCEPT ![Fresh] = [at |-> "start", routine |-> caller.routine]]
          /\ UNCHANGED faults
       \/ faults < MaxFaults /\ faults' = faults + 1 /\ UNCHANGED <<row, task>>
    /\ caller' = NoCall
    /\ UNCHANGED <<routine, job, outcome, running, ticker, boots, history>>

(***************************************************************************)
(* execute_routine.                                                        *)
(***************************************************************************)
Goto(i, to) == task' = [task EXCEPT ![i].at = to]
Gone(i) == task' = [task EXCEPT ![i] = NoTask]
Fault == faults < MaxFaults /\ faults' = faults + 1

\* The run's row is inserted by the spawned task, before it executes the routine.
RecordRun(i) ==
    /\ task[i].at = "record"
    /\ \/ /\ row' = [row EXCEPT ![i] = [NoRow EXCEPT !.routine = task[i].routine,
                                                     !.status = "running"]]
          /\ Goto(i, "start") /\ UNCHANGED faults
       \/ Fault /\ Gone(i) /\ UNCHANGED row
    /\ UNCHANGED <<routine, job, outcome, running, ticker, caller, boots, history>>

StartRun(i) ==
    /\ task[i].at = "start"
    /\ running' = running + 1
    /\ Goto(i, IF task[i].routine \in FullJob THEN "dispatch" ELSE "light")
    /\ UNCHANGED <<tables, outcome, ticker, caller, env, history>>

\* Mutant of Ended: an early return forgets the count.
EndedLeaks(i, status) ==
    /\ outcome' = [outcome EXCEPT ![i] = status]
    /\ Goto(i, "complete")
    /\ UNCHANGED running

\* The end of the execution, with its result: the count goes down in the same poll.
Ended(i, status) ==
    /\ outcome' = [outcome EXCEPT ![i] = status]
    /\ running' = running - 1
    /\ Goto(i, "complete")

LightEnds(i) ==
    /\ task[i].at = "light"
    /\ \E status \in Final : Ended(i, status)
    /\ UNCHANGED <<tables, ticker, caller, env, history>>

\* execute_full_job: the job is refused, or it gets its context and its row.
DispatchRun(i) ==
    /\ task[i].at = "dispatch"
    /\ \/ Ended(i, "failed") /\ UNCHANGED job
       \/ /\ job' = [job EXCEPT ![i] = "Pending"]
          /\ Goto(i, "schedule") /\ UNCHANGED <<outcome, running>>
    /\ UNCHANGED <<routine, row, ticker, caller, env, history>>

\* The scheduler takes the job, or refuses it at one of its limits: then the run fails
\* and the row of the job stays as it was saved.
ScheduleRun(i) ==
    /\ task[i].at = "schedule"
    /\ \/ Ended(i, "failed") /\ UNCHANGED scheduled
       \/ /\ scheduled' = scheduled \cup {i}
          /\ Goto(i, "link") /\ UNCHANGED <<outcome, running>>
    /\ UNCHANGED <<tables, ticker, caller, env, over, unwritten, gaveUp>>

\* Mutant of LinkRun: a run that cannot be linked is given up as it stands.
LinkRunDrops(i) ==
    /\ task[i].at = "link"
    /\ \/ row' = [row EXCEPT ![i].linked = TRUE] /\ Goto(i, "watch")
          /\ UNCHANGED <<outcome, running, faults, gaveUp>>
       \/ /\ Fault /\ Gone(i) /\ running' = running - 1 /\ gaveUp' = gaveUp \cup {i}
          /\ UNCHANGED <<row, outcome>>
    /\ UNCHANGED <<routine, job, ticker, caller, boots, scheduled, over, unwritten>>

LinkRun(i) ==
    /\ task[i].at = "link"
    /\ \/ row' = [row EXCEPT ![i].linked = TRUE] /\ Goto(i, "watch")
          /\ UNCHANGED <<outcome, running, faults, gaveUp>>
       \/ /\ Fault /\ Ended(i, "failed") /\ gaveUp' = gaveUp \cup {i}
          /\ UNCHANGED row
    /\ UNCHANGED <<routine, job, ticker, caller, boots, scheduled, over, unwritten>>

\* FullJobWatcher::map_job_state
JobOutcome(s) == IF s \in {"Failed", "Cancelled"} THEN "failed" ELSE "ok"

\* Mutant of IsOver: a stuck job counts as over.
IsOverOrStuck(s) == s = "Stuck" \/ ~IsParallelBlocking(s)

\* The watcher stops at the first state that holds no slot, terminal or not.
IsOver(s) == ~IsParallelBlocking(s)

WatchEnds(i) ==
    /\ task[i].at = "watch" /\ IsOver(job[i])
    /\ Ended(i, JobOutcome(job[i]))
    /\ UNCHANGED <<tables, ticker, caller, env, history>>

\* A poll fails, or the 24 hours are over.
WatchGivesUp(i) ==
    /\ task[i].at = "watch" /\ Fault
    /\ Ended(i, "failed") /\ gaveUp' = gaveUp \cup {i}
    /\ UNCHANGED <<tables, ticker, caller, boots, scheduled, over, unwritten>>

CompleteRun(i) ==
    /\ task[i].at = "complete" /\ Goto(i, "update")
    /\ \/ row' = [row EXCEPT ![i].status = outcome[i]] /\ UNCHANGED <<faults, unwritten>>
       \/ Fault /\ unwritten' = unwritten \cup {i} /\ UNCHANGED row
    /\ outcome' = [outcome EXCEPT ![i] = "ok"]
    /\ UNCHANGED <<routine, job, running, ticker, caller, boots, scheduled, over, gaveUp>>

\* update_routine_runtime, with update_cached_event_runtime after it: last_run_at is
\* now, next_fire_at the next slot from now.
Ran(r) == routine' = [routine EXCEPT ![r].due = FALSE, ![r].cooling = TRUE]

UpdateRun(i) ==
    /\ task[i].at = "update" /\ Gone(i)
    /\ \/ Ran(task[i].routine) /\ UNCHANGED faults
       \/ Fault /\ UNCHANGED routine
    /\ UNCHANGED <<row, job, outcome, running, ticker, caller, boots, history>>

(***************************************************************************)
(* sync_dispatched_runs, at every tick: runs of an earlier process whose   *)
(* job is over by now are finalised from the job's row.                    *)
(***************************************************************************)
\* Mutant of IsOrphan: runs of this process are taken for orphans.
IsOrphanAny(i) == row[i].status = "running" /\ row[i].linked

\* Mutant of IsOrphan: only runs of this process are looked at.
IsOrphanYoung(i) == row[i].status = "running" /\ row[i].linked /\ ~row[i].old

IsOrphan(i) == row[i].status = "running" /\ row[i].linked /\ row[i].old

Tick ==
    /\ ticker.at = "idle"
    /\ ticker' = [Idle EXCEPT !.at = "syncing", !.todo = {i \in Runs : IsOrphan(i)}]
    /\ UNCHANGED <<tables, taskVars, caller, env, history>>

\* The row of the run's job is read: a job that is not over is left to a later tick.
SyncLook(i) ==
    /\ ticker.at = "syncing" /\ i \in ticker.todo
    /\ \/ ~IsOver(job[i]) /\ ticker' = [ticker EXCEPT !.todo = @ \ {i}]
       \/ /\ IsOver(job[i])
          /\ ticker' = [at |-> "completing", todo |-> ticker.todo \ {i}, run |-> i,
                         found |-> JobOutcome(job[i])]
    /\ UNCHANGED <<tables, taskVars, caller, env, history>>

\* complete_dispatched_run: the run, then its routine.
SyncComplete ==
    /\ ticker.at = "completing"
    /\ \/ /\ row' = [row EXCEPT ![ticker.run].status = ticker.found]
          /\ ticker' = [ticker EXCEPT !.at = "finalise"]
          /\ UNCHANGED <<faults, unwritten>>
       \/ /\ Fault /\ unwritten' = unwritten \cup {ticker.run}
          /\ ticker' = [Idle EXCEPT !.at = "syncing", !.todo = ticker.todo]
          /\ UNCHANGED row
    /\ UNCHANGED <<routine, job, taskVars, caller, boots, scheduled, over, gaveUp>>

SyncUpdate ==
    /\ ticker.at = "finalise"
    /\ \/ Ran(row[ticker.run].routine) /\ UNCHANGED faults
       \/ Fault /\ UNCHANGED routine
    /\ ticker' = [Idle EXCEPT !.at = "syncing", !.todo = ticker.todo]
    /\ UNCHANGED <<row, job, taskVars, caller, boots, history>>

\* The cron check follows in the same tick.
CronList ==
    /\ ticker.at = "syncing" /\ ticker.todo = {}
    /\ ticker' = [Idle EXCEPT !.at = "checking", !.todo = DueNow]
    /\ UNCHANGED <<tables, taskVars, caller, env, history>>

(***************************************************************************)
(* Time, the jobs, and restarts.                                           *)
(***************************************************************************)
SlotDue(r) ==
    /\ r \in Cron /\ ~routine[r].due
    /\ routine' = [routine EXCEPT ![r].due = TRUE]
    /\ UNCHANGED <<row, job, taskVars, ticker, caller, env, history>>

CooldownEnds(r) ==
    /\ routine[r].cooling
    /\ routine' = [routine EXCEPT ![r].cooling = FALSE]
    /\ UNCHANGED <<row, job, taskVars, ticker, caller, env, history>>

\* A new state in the row of a job; the row never says in_progress.
JobWritten(i, s) ==
    /\ job' = [job EXCEPT ![i] = s]
    /\ over' = IF IsParallelBlocking(s) THEN over ELSE over \cup {i}
    /\ UNCHANGED <<routine, row, taskVars, ticker, caller, env, scheduled, unwritten, gaveUp>>

\* The worker and the scheduler spawn each write of a status: it may land after a later
\* one, or not at all when the process ends.  Cancelled stands for Failed too, which the
\* runs do not tell from it (JobOutcome).
JobMoves(i) ==
    /\ i \in scheduled /\ ~row[i].old
    /\ \/ /\ IsParallelBlocking(job[i])
          /\ \E s \in {"Completed", "Cancelled"} : JobWritten(i, s)
       \/ job[i] # "Stuck" /\ JobWritten(i, "Stuck")

\* A cancel, from the web or the jobs command, also writes the row of a job that the
\* scheduler refused or that an earlier process has left behind.
JobCancelled(i) ==
    /\ job[i] \notin {"none", "Cancelled"}
    /\ JobWritten(i, "Cancelled")

\* The process stops anywhere and starts again: load the cache, then spawn the ticker.
Restart ==
    /\ boots < MaxRestarts /\ boots' = boots + 1
    /\ row' = [i \in Runs |-> [row[i] EXCEPT !.old = row[i] # NoRow]]
    /\ task' = [i \in Runs |-> NoTask]
    /\ outcome' = [i \in Runs |-> "ok"]
    /\ running' = 0
    /\ ticker' = Idle
    /\ caller' = NoCall
    /\ UNCHANGED <<routine, job, faults, history>>

TaskStep(i) ==
    \/ RecordRun(i) \/ StartRun(i) \/ DispatchRun(i) \/ ScheduleRun(i)
    \/ LinkRun(i) \/ WatchEnds(i) \/ CompleteRun(i) \/ UpdateRun(i)
TickerStep ==
    \/ Tick \/ SyncComplete \/ SyncUpdate \/ CronList \/ CronDone
    \/ \E i \in Runs : SyncLook(i)
    \/ \E r \in Routines : CronSkip(r) \/ CronFire(r)
CallerStep ==
    \/ \E r \in Routines, kind \in {"manual", "webhook"} : FireCheck(r, kind)
    \/ FireRecord

Next ==
    \/ \E i \in Runs : TaskStep(i) \/ LightEnds(i) \/ WatchGivesUp(i)
    \/ \E i \in Runs : JobMoves(i) \/ JobCancelled(i)
    \/ \E r \in Routines : EventFire(r) \/ SlotDue(r) \/ CooldownEnds(r)
    \/ TickerStep \/ CallerStep \/ Restart

Spec == Init /\ [][Next]_vars

\* The runtime polls the tasks that watch a job, and the ticker's interval keeps ticking.
Fairness ==
    /\ \A i \in Runs : WF_vars(WatchEnds(i) \/ CompleteRun(i))
    /\ WF_vars(TickerStep)

FairSpec == Spec /\ Fairness

(***************************************************************************)
(* Properties.                                                             *)
(***************************************************************************)
\* A run recorded as running in this process has a task that will finish it, unless
\* the write of its final status failed: no early return of execute_routine leaves a
\* run behind that holds max_concurrent for ever.
LiveRowIsOwned ==
    \A i \in Runs :
        row[i].status = "running" /\ ~row[i].old /\ i \notin unwritten =>
            task[i].at \in Executing \cup {"start", "complete"}

\* A run whose job the scheduler has accepted stays recorded as running until the row of
\* that job has said once that it is over, so that max_concurrent holds for the life of
\* the job (execute_full_job), across restarts; only a run that gave up on its job is an
\* exception.
JobHoldsItsRun ==
    \A i \in Runs :
        i \in scheduled /\ i \notin over \cup gaveUp => row[i].status = "running"

\* The final status of a run is written once: recovery never takes a run that its own
\* task is going to finish (boot_time in sync_dispatched_runs).
FinalStatusStays ==
    [][\A i \in Runs : row[i].status \in Final => row'[i].status = row[i].status]_vars

\* A run whose job is over is finished, by its task or after a restart by the recovery
\* at one of the next ticks, unless the write of its status fails or a late write makes
\* the row of the job say stuck again.
RunFollowsJob ==
    \A i \in Runs :
        (row[i].status = "running" /\ row[i].linked /\ ~IsParallelBlocking(job[i]))
            ~> (row[i].status \in Final \/ i \in unwritten \/ IsParallelBlocking(job[i]))
=============================================================================
