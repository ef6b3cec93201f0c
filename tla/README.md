# A TLA+ model of the assistant's control core

The program is a personal assistant written in Rust: channels bring messages in, an
agent answers them with language models and tools, long work runs in background jobs
(in this process or in containers), routines and missions start work by themselves, and a
newer engine ("engine v2") runs conversations as threads that pause on *gates* (approval,
authentication, pairing). This directory holds TLA+ modules of the parts whose
correctness depends on the order of things, the TLC configurations that check them, and
TLAPS proofs. Paths below are relative to `src/` of the repository (`src/agent/…` is
`src/src/agent/…` from here, `crates/…` is `src/crates/…`).

- [1. The system](#1-the-system)
- [2. Modules and plan](#2-modules-and-plan)
- [3. Local jobs](#3-local-jobs-jobstates-jobscheduler-joblifecycle)
- [4. The worker's loop](#4-the-workers-loop-jobloop)
- [5. Sandbox jobs](#5-sandbox-jobs-sandboxjobs)
- [6. Gates](#6-gates-pendinggates-enginerouter)
- [7. Routines](#7-routines-routineengine)
- [8. Missions](#8-missions-missions-missionevents)
- [9. Breaker and failover](#9-breaker-and-failover-circuitbreaker-providerchain)
- [10. Proofs](#10-proofs)
- [11. What the code does not keep](#11-what-the-code-does-not-keep)
- [12. What is only model-checked, and what is not modelled](#12-what-is-only-model-checked-and-what-is-not-modelled)
- [13. Running](#13-running)

## 1. The system

`PROJECT.json` lists every component with its files. The ones with control of their own:

**Local jobs.** *State:* `ContextManager` (`src/context/manager.rs`) keeps one `JobContext` per
job, with a state machine of eight states (`src/context/state.rs`), under a read-write
lock. `Scheduler` (`src/agent/scheduler.rs`) keeps the map of running jobs under another
lock. `DefaultSelfRepair` (`src/agent/self_repair.rs`) keeps nothing between rounds. The
jobs table keeps a status per job. *Operations:* dispatch (create the context, save the
row, schedule a worker), the worker's run to one of its ends (`src/worker/job.rs`),
clean-up, stop, `/cancel`, `/help`, cancel through the web and through a tool, self-repair
rounds. *Interaction:* a worker moves its own context and spawns its database writes;
`stop` sends a message over a channel, sleeps 100 ms, aborts, and moves the context as
well; self-repair moves contexts behind everybody's back. *Hard:* every party works on
what it saw before an await. *Correct when:* a job has at most one worker, every worker
can be found by `stop`, the limits hold, final states are final, repair ends, the table
tells the truth, slots are given back.

**Agentic loop and worker mailbox** (`src/agent/agentic_loop.rs`, `src/worker/job.rs`,
`src/worker/autonomous_recovery.rs`). *State:* the counters of the loop, the tracker of
repeated failing tool batches, the recovery state machine, and a channel with Stop and user
messages. *Operations:* an optional plan, then iterations: take the signals, call the
model, run tools. *Hard:* five counters that different answers reset differently, several
messages drained at once, a budget exceeded in the middle of a response.

**Sandbox jobs** (`src/orchestrator/`, `src/agent/job_monitor.rs`, `src/tools/builtin/job.rs`).
*State:* a handle and a bearer token per job in memory, containers that outlive the process, a
context in the same `ContextManager`, a row. *Operations:* create, poll, stop, complete,
cancel twice over, reap. *Interaction:* the worker in the container reports over HTTP, a
broadcast channel tells the monitor, the reaper lists containers by label. *Hard:* the
reaper and the completion report race creation and clean-up; an event may be lost; a restart
forgets everything but the containers.

**Gates and engine threads.** *State:* `PendingGateStore` (`src/gate/store.rs`) keeps the
pending gates under a mutex, `FileGatePersistence` mirrors them in a file.
`ThreadManager` (`crates/ironclaw_engine/src/runtime/manager.rs`) keeps running tasks
and posted outcomes, the thread store keeps each thread's state, the conversation its
active threads. *Operations:* the bridge router (`src/bridge/router.rs`) spawns a
thread for a message, awaits its outcome, builds and inserts the gate it asks for, takes a
gate when the user answers, runs the paused action (which can pause again, a *chained*
gate) and resumes the thread. Web handlers (OAuth callback, extension set-up, pairing)
discard and insert gates beside it. *Hard:* the store's memory and its file change at
different times, web requests act on what they listed, the process can stop anywhere and
matches threads and gates only when it starts. *Correct when:* a paused action runs
once and with its approval, no gate is lost between taking and re-inserting it, threads
and gates agree, the router always comes back.

**Routines** (`src/agent/routine_engine.rs`). *State:* the routines and routine_runs tables, a
counter of runs, an event cache. *Operations:* a cron ticker, event, manual and webhook
triggers; a run executes a prompt or dispatches a job, links it to its row and watches it.
*Hard:* counts are checked long before the row they count exists; a run survives the process
that started it. *Correct when:* every row marked running has someone to finish it.

**Missions** (`crates/ironclaw_engine/src/runtime/mission.rs`). *State:* one record per mission,
loaded, changed and saved whole by five parties; an index, the last attempts, a dedup table
and a rate log in memory. *Operations:* tick, fire for a request or an event, process a
thread's outcome, pause, resume, complete, update. *Hard:* the last writer wins; a save
may fail after the thread was spawned. *Correct when:* a thread is counted once, a slot
and an event fire once, a failed mission stays failed.

**LLM breaker and failover** (`src/llm/circuit_breaker.rs`, `src/llm/failover.rs`). *State:* four
fields under a mutex; per provider a failure count and a cooldown stamp, in atomics.
*Operations:* admit a call, try the providers in order, record the result. *Hard:* providers
are called without a lock, so results arrive in a state other than the one they were
admitted in. *Correct when:* the circuit opens only after a streak of failures, closes only
after enough successes, and a provider that works is used again.

**Capability leases** (`crates/ironclaw_engine/src/capability/`) have use limits, expiry and
derivation, but every grant in the program has neither limit nor duration, see section 12.
**Sessions** (`src/agent/session.rs`, `thread_ops.rs`, `dispatcher.rs`) are the older chat path,
sequential under the agent loop. The rest is I/O and data: channels, storage, workspace
search, tools, extension installation, configuration, the web front end.

`PROJECT.json` "hazards" lists what is hard to test, each at its line, with the
properties that would catch it.

## 2. Modules and plan

| modules | what | abstracts |
|---|---|---|
| `JobStates`, `JobScheduler` | local jobs end to end | the worker's loop to the ways it ends |
| `JobLifecycle` | what a job promises, implemented by `JobScheduler` and, step by step, by `JobLoop` | locks, tasks, records |
| `JobLoop` | the worker between its start and its end | a model answer to its kind |
| `SandboxJobs` | jobs in containers, with restarts | Docker's steps to success or failure |
| `PendingGates`, `EngineRouter` | gates, threads, router, web requests, restart | a thread's run to its outcome |
| `RoutineEngine` | triggers, runs, recovery, restart | schedules to "due", cooldowns to "cooling" |
| `Missions` | the record and those who write it | events and rates to a refusal |
| `MissionEvents` | dedup table and rate window | the rest of `fire_mission` to its result |
| `CircuitBreaker`, `ProviderChain` | breaker, and breaker with failover inside | time to "recent" and "old" |
| `JobSchedulerProofs`, `JobLoopProofs`, `SandboxJobsProofs`, `EngineRouterProofs`, `RoutineEngineProofs`, `MissionsProofs`, `MissionEventsProofs`, `ProviderChainProofs` | theorems about the module each is named for | |

Each component has an `MC…` module that only declares model values and definitions
for the `.cfg` files. `JobScheduler`, `JobLoop`, `SandboxJobs` and `RoutineEngine` EXTEND
`JobStates`, the pure state machine they all use; `EngineRouter` EXTENDS `PendingGates`
(the store's operators, used by both the router and the web handlers); `ProviderChain`
EXTENDS `CircuitBreaker` and adds the failover between admission and report. What one
module leaves to another is a choice between the same ends: `JobLoop` is the execution loop
whose ends are `WorkerAnswer` … `WorkerBudget` of `JobScheduler`; a routine's job is,
in `RoutineEngine`, the statuses that `JobScheduler` writes to its row; `Missions` and `MissionEvents` split `fire_mission` at
its refusals.

Next, in this order:

1. `OrchestratorLoop`: `run_loop` of `crates/ironclaw_engine/orchestrator/default.py` with
   `handle_execute_actions_parallel` of `executor/orchestrator.rs`: *every call of a batch has
   one result before the model is asked again; the gate that pauses a thread is the first in
   call order*. It would replace the outcome that `EngineRouter` chooses.
2. `GateStore`: an atomic store that `PendingGates`' two-step operations implement when the
   file cannot fail, with its refinement proved from the invariant of `EngineRouterProofs`.
3. Small modules of their own: the sliding-window tool rate limiter, the undo manager.

## 3. Local jobs: `JobStates`, `JobScheduler`, `JobLifecycle`

| variable | code |
|---|---|
| `ctx`, `repair`, `aged`, `longStuck` | `JobContext::state`, `repair_attempts`, `started_at` and the last move to Stuck compared with `stuck_threshold` |
| `disp`, `help`, `cancel` | how far `dispatch_job_inner`, `handle_help_job`, `handle_cancel_job`/`stop_all` have got |
| `lock`, `entry`, `gen` | the write lock on `Scheduler::jobs` where it is held across an await, the map's entry, the workers spawned so far |
| `worker`, `cleaner` | each worker task and its clean-up task |
| `todo`, `snap` | self-repair's list of ids, and the `repair_attempts` in its `StuckJob` records |
| `db`, `writes` | the row's status, and spawned `update_job_status` calls that have not run |
| `been` | history: the outcomes (Completed, Failed, Stuck) the context has had, gone since or not; no action reads it |

One action is the code between two awaits at which another task can see or change this
state. `schedule` and `stop` keep the map's write lock across awaits, so they are two
actions each and `lock` says who is inside; a transition and the `tokio::spawn` of its
database write happen in one poll and are one action; spawned writes run in any order and
may fail. The worker's execution loop is the choice between its ends: an answer, a failure,
the token budget (which goes on after marking the job Failed), a signal, the timeout.

`JobLifecycle` says what all of this promises, in six actions over a job's phase and the set of
jobs a worker executes. `ImplementsLifecycle` maps a context's state to a phase (`Phase` of
`JobStates`) and the live workers to that set. Its one concession is `Fail` of a completed job, which a
repair with an old record does; `OnlyStaleRepairUndoesCompletion` says when.

| run | instance | shows |
|---|---|---|
| `job_one_job` | 1 job, 2 helps, 2 repairs, database, fair | one worker at a time, workers tracked, repairs bounded, reported outcomes have happened, the abstract job implemented; slots are given back, cancel commands return |
| `job_two_jobs` | 2 jobs, `max_jobs` = `max_parallel_jobs` = 1, per-user limit 2 | both limits, while stop, clean-up and schedule of different jobs interleave |

`ReportedOutcomesHappened` speaks of the rows that report an outcome. It says nothing of a
Cancelled row, which `stop` and the cancel commands write whether or not the context could be
cancelled (section 11).

*Bounds.* One dispatch per job and `MaxHelps` helps bound the workers of a job at three, enough
for a worker that is being stopped, its successor and a late clean-up task. A second help is
what it takes for a repair record to go stale twice. Two jobs and a limit of one are the
smallest instance in which a job takes the capacity another has just lost. At most one
cancel, one help and one dispatch are in flight per job; a second one finds what the first
left, in sequence. `started_at` never resets, as in the code.

*Fairness (`job_one_job`).* Weak fairness of every tokio task's next step (the runtime
polls ready tasks), of the worker's timeout, of the repair interval and of time itself.
No user action, no database success and no worker result is fair.

## 4. The worker's loop: `JobLoop`

| variable | code |
|---|---|
| `at`, `iter` | where `Worker::run` is: the plan, `check_signals`, `select_tools`, `respond_with_tools`, `execute_tool_calls`, its end; the iterations begun |
| `mail`, `sent`, `read` | the worker's channel; user messages accepted by `send_message`, and those put before the model |
| `offered`, `forceText` | `reason_ctx.available_tools` not empty, `reason_ctx.force_text` |
| `nudges`, `truncs`, `limits` | the consecutive counters of `run_agentic_loop` and of the job delegate |
| `dup`, `rec` | `DuplicateToolCallTracker`, `AutonomousRecoveryState` |
| `batches` | history: the tool batches of the current streak and whether all their calls failed |
| `ctx`, `stopping` | the job's state, and a `stop()` that has sent Stop and will abort the task |

A model answer is one of: tool calls (a batch is its fingerprint), a cut-off batch, a text, a
text that only announces tools, an empty one, a rate limit, an error. `Signals` is
`check_signals` with the delegate's `before_llm_call`, which run without an await that matters
between them. Meanwhile the user sends messages, `stop()` sends Stop and aborts 100 ms later,
self-repair and cancels move the job. The `has_text_response` branches of
`src/worker/job.rs` are left out: the first text answer ends the loop, so they are never taken.

`JobScheduler` reduces this loop to its ends. `StepsAreOfLifecycle` says that the loop respects
what that reduction promises: with the same mapping of states to phases, every step of the
detailed worker and of those who interfere is a step of `JobLifecycle` for one job, or a stutter.

| run | instance | shows |
|---|---|---|
| `job_loop` | 5 iterations, a plan of 1 action, 2 fingerprints, 2 user messages, 2 rate limits, 1 nudge | after two malformed answers the model gets no tools until it has answered, the tracker counts exactly the repeats that are there, messages are read once and in order, every step is one of the abstract job |

*Bounds.* Five iterations hold the longest path that matters: two malformed answers, a rate limit
between them, the text-only round and one more; and three repeats with one other answer
between them. Truncations and empty answers have the code's thresholds (three, two); those of
repeats (five in the code), rate limits (ten) and nudges (two) are lowered so that they are reached.
Deadlock is not checked: a worker that is gone does nothing.

## 5. Sandbox jobs: `SandboxJobs`

| variable | code |
|---|---|
| `ctx`, `repairs`, `late` | the registered context and its `repair_attempts`; older than `stuck_threshold` and `orphan_threshold` |
| `row` | the job's status in the table |
| `handle`, `token` | `ContainerJobManager::containers`, `TokenStore` with the credential grants |
| `call` | the call that creates the job: `execute_sandbox` waiting or not, or the web restart, and its place in `create_job` and the poll loop |
| `complete`, `stop` | where `complete_job`, and each caller of `stop_job`, is between its locks |
| `cut` | history: a stop of the job was dropped just before it revoked the token |
| `box`, `worker` | the container in Docker, the process in it and how it ended |
| `monitor` | the task of `src/agent/job_monitor.rs` that waits for the job's result |

`create_job_inner` marks the handle Running only after Docker answered, and the monitor
subscribes after that, so the worker may have reported by then. `stop_job` and
`complete_job` release the handles' lock around Docker's calls and are three steps each. A step
of Docker or a request of the worker may fail. A future may be dropped at an await: the tool call at
its `execution_timeout`, the web's cancel with its client, and `complete_job` with the request
of the very worker whose container it stops (`CallDropped`, `CancelDropped`, `CompleteDropped`).
A restart keeps containers and rows, and does what `cleanup_stale_sandbox_jobs` does.

| run | instance | shows |
|---|---|---|
| `sandbox` | 1 job of any kind, 1 repair, 1 failure or drop, 1 restart, fair | a working container can authenticate only while its handle lets a stop revoke the token, or the token is being revoked; a call that waited leaves no handle, and a token only to whoever revokes it or was dropped on the way; orphaned containers are removed; slots are given back |

*Bounds.* Jobs share no state but the reaper's attention (`Reap` takes one container at a time), so
one job is enough. One failure or drop reaches each way a single step of several fails; one
restart separates what survives. Deadlock is not checked: a job that is over stays so.

*Fairness.* The reaper and self-repair are interval tasks that run as long as the process, and
time passes. Nothing is asked of the call, the worker, the monitor or Docker: the slot is
given back, and the container removed, even if none of them ever moves again.

## 6. Gates: `PendingGates`, `EngineRouter`

| variable | code |
|---|---|
| `gate`, `issued` | every `PendingGate` built so far by request id, in order of `created_at` |
| `mem`, `file`, `torn`, `expired` | `StoreInner::by_key`, the rows of `pending-gates.json`, whether it parses, gates past `expires_at` |
| `stored`, `task`, `out` | the saved `Thread::state`, where its task is, the outcome of its run |
| `completed`, `running`, `active` | `ThreadManager`'s two maps, the conversation's active threads |
| `rt` | where the router is in the message it handles, with thread, request and answer |
| `todo` | threads `clear_engine_conversation` still has to visit |
| `webs`, `callbacks` | web requests in flight, `ExternalCallback` messages in the queue |
| `boots` | restarts |
| `approved`, `ran` | history, read by properties only |

The agent loop awaits `handle_message` before it takes the next message, so there is one
router. Threads' tasks and web requests run beside it. Every store method is split at the
release of the mutex: memory first, file later. A file write truncates and then writes;
with `FileErrors` it can fail and leave the file as it was, empty, or cut short, after
which saves and removals fail because the file no longer parses. A restart is possible
in every state, can interrupt a write, and does what `init_engine` does before it
publishes the engine: recover the owner's project, restore the gates, reconcile.

*Abstractions.* Storing a thread or a conversation does not fail: `HybridStore` keeps them in
memory and logs write errors. `start_thread` spawns the task and inserts its entry as one
step: `is_running` looks at the handle, so a task that ends in between is not mistaken for
a running one. A task's end is two steps, as its two locks are: the outcome is posted
(`TaskPost`), then the running entry removed (`TaskEnd`); and `join_thread` looks for the
outcome (`JoinPosted`) and for the entry (`JoinLook`, then `JoinWait` or `JoinMisses`) one after
the other, so at the five-minute deadline it may find neither. The
thread's run is its outcome: done, failed, a pause on approval or on authentication, a pause
after the action already ran ("staged"), or a text that asks for authentication
("fallback"). Suspended threads do not occur: the checkpoint that leads there is cleared
before the thread is saved. A message for a thread whose task has posted but whose entry is
still there is injected and read by nobody (`Inject`). Interrupts, child threads, always-allow
settings and the channel check of `take_verified` are left out.

**Runs.**

| run | instance | shows |
|---|---|---|
| `gate_one_thread` | 1 thread outside the recovered project, 1 web request, 3 gates, 1 restart | a paused action runs once and with its approval however its gates chain; a gate's successor finds its slot free |
| `gate_two_threads` | 2 threads, 1 of them recovered at start, 2 gates, failing file, 1 restart | a live gate's thread waits for it; while the router is idle no thread executes, and no outcome of an earlier run is posted while its thread executes again |
| `gate_progress` | 1 thread, 1 web request, 2 gates, failing file, fair | the router answers every message |

*Bounds.* Three request ids make the longest chain that changes anything: an approval, the
authentication chained after it, and the pairing gate it becomes. Two threads are
enough for "the wrong thread's gate", one web request for "between list and discard". One
restart separates what survives from what does not, and one expiry (`MaxExpiries`) an
expired gate from a live one; `gate_two_threads` has none, to make room for two threads whose
tasks end in any order with the router's look at them. A spawn happens once per thread id, one callback waits in the
queue at a time, and the last request id is reserved for the router so that the bound never
blocks it.

*Fairness (`gate_progress`).* Weak fairness of the router's next step, and of each thread's
task: the orchestrator virtual machine that runs a thread bounds its iterations, tokens
and time. Messages, web requests, expiry and restarts are not fair.

## 7. Routines: `RoutineEngine`

| variable | code |
|---|---|
| `routine` | the routines table: whether `next_fire_at` has passed, whether `last_run_at` is within the cooldown |
| `row`, `job` | routine_runs (routine, status, `job_id` set, `started_at` before `boot_time`) and the status in the row of the job a run dispatched |
| `scheduled` | the runs whose job the scheduler accepted |
| `task`, `outcome`, `running` | where the task of `execute_routine` is, the status it has to write, `running_count` |
| `ticker`, `caller` | the tick (list the orphans; read a job, complete its run, update its routine; check the cron list) and a manual or webhook request |
| `over`, `unwritten`, `gaveUp` | history: runs whose job's row has said that the job is over, runs whose final status could not be written, runs that stopped watching their job |

A write may fail (`MaxFaults`). A tick recovers first (`sync_dispatched_runs`) and then fires;
the run's row is inserted by the spawned task; the run is completed before the routine's
`next_fire_at` moves. A restart keeps the tables.

The job is what its row says, since the watcher and the recovery read nothing else. The row is
saved as Pending before the scheduler takes the job or refuses it (`DispatchRun`, `ScheduleRun`),
and never says InProgress: only the ends of a job are written (`update_job_status`), each by a
spawned task, so that a Stuck may land after what followed it (`JobMoves`). A cancel from the web
or the jobs command writes the row of any job, also of one that was refused or that an
earlier process left (`JobCancelled`). Failed and Cancelled are told apart by nothing here and are
one state. What `JobHoldsItsRun` says is therefore about the accepted jobs, until the first time
the row says that the job is over: the row of a refused job stays Pending after its run failed,
and a late Stuck comes after the run was finished.

| run | instance | shows |
|---|---|---|
| `routines` | a cron routine with jobs, a lightweight event routine, 2 runs, 1 failed write, 1 restart, fair | every running row of this process has a task that finishes it, a run whose job was accepted stays running until the job's row has said it is over, a final status is written once, a finished job's run is finished |

*Bounds.* Two runs are two triggers at once on either routine, or a run of each process. With a
global limit of one the second is refused, unless it is counted before the first starts or is a
manual one, which ignores the limit. One failed write is each single step of
`execute_routine` failing.

*Fairness.* The runtime polls the task that watches a job, and the ticker's interval goes on. No
trigger, job or time step is fair.

## 8. Missions: `Missions`, `MissionEvents`

| variable of `Missions` | code |
|---|---|
| `store` | the saved record: status, `thread_history`, `threads_today`, `last_fire_at` (the fire it belongs to), `next_fire_at` (a day), the cron expression: `daily`, `once` or `corrupt` |
| `thread`, `watcher` | a mission thread's run and saved state, and, as history, whether its fire was reconciled to a record that keeps the passed slot (`stalled`); its outcome watcher with the copy it will save |
| `active`, `attempt` | `MissionManager::active`, `last_fire_attempt` while it is younger than 90 s |
| `caller`, `edit` | the ticker and the requests inside `fire_mission`, an `update_mission` or `resume_mission`, each with the copy it loaded |
| `day`, `upsets` | the clock, and the edits, failures, pauses at a gate and restarts so far |
| `hot` | history: missions the ticker fired for this slot within 90 s |

Whoever writes a mission loads the record, awaits, and saves the whole copy; `pause_mission`
and `complete_mission` write the status alone. `fire_mission` is load and checks, spawn (with the
watcher and the attempt), save; the outcome processor is load and save. Both ask `next_cron_fire`
for the next slot, which may give one, none (`once` after its day) or an error (`corrupt`), and treat
the three differently: the fire leaves no slot after the second and both fields alone after the
third, the reconciliation sets `last_fire_at` in each case and leaves the slot alone after both
(`Recorded`, `Reconciled`). A new cadence and a resume insist on a slot (`UpdateSave`, `ResumeSave`).
`RunEnds` posts the outcome and removes the entry at once, and `JoinMisses` is the watcher that looked between the
two. `MissionEvents` has what decides whether an event fires: `dedup_event` (one lock),
`check_user_rate` (looks) and `record_user_rate` (takes), with the rest of the fire refused,
failed or spawned.

| run | instance | shows |
|---|---|---|
| `missions` | 1 cron mission, the ticker and 1 sender, 2 threads, 2 days, 1 upset | no record and no copy counts more threads than it has; the ticker does not fire a slot again while the attempt is fresh, unless a reconciliation left the passed slot |
| `mission_events` | 2 missions, 2 events, 2 senders, rate 2, 4 threads, 1 restart | an event spawns one thread per mission in its window, the rate is exceeded by at most one fire per further sender |
| `mission_failure` | 1 mission, 2 threads, no upset | a violation, see section 11 |

*Bounds.* Two threads are a fire and the one that should not happen. An upset is an edit (whose own save may fail), a failed
save, a failed spawn, a run that pauses at a gate or a restart, one in the run. For a cron mission a
pause differs from an end only in that it never changes the status. A thread a day would be a limit that hides a second fire, so two are
allowed. `CountedOnce` compares totals: after a daily reset, which keeps the history, it no longer
says that each thread was counted once. The mission of these runs has a cron cadence; the concurrency
limit of event-driven missions is in the module and not in an instance. In
`mission_events` the window of a mission's keys is longer than a delivery, which the code does not
enforce: a key that expires while its event is being delivered may fire again. An entry leaves the rate window in order of its fire, and four threads are
twice the rate. Deadlock is not checked where days or threads run out.

## 9. Breaker and failover: `CircuitBreaker`, `ProviderChain`

| variable | code |
|---|---|
| `state`, `failures`, `successes`, `opened` | `BreakerState`; `opened` is the age of `opened_at`, "old" once `recovery_timeout` has passed |
| `calling` | callers whose call was admitted and has not reported |
| `streak`, `probes` | history |
| `count`, `cooled` | `failure_count` of each provider, as far as the threshold tells it apart, and the providers in cooldown, oldest stamp first |
| `attempt` | where each call is in `try_providers`, with the providers it still has to try |
| `up` | the providers that answer, which changes at any time |

A call is `check_allowed`, then the failover, then `record_success`, `record_failure`, or nothing
(an error that is not transient, a dropped future). The failover chooses the providers that are
not cooled, or the one that has cooled longest; a failure is counted and, at the threshold,
cools the provider in a second step, because the count and the stamp are two atomics. The model
follows the release build, where the `debug_assert!` of `record_success` is not compiled in and
the circuit closes. Retries happen inside a provider. An error that the breaker counts and the
failover does not retry (an expired session) is `Refuse`.

| run | instance | shows |
|---|---|---|
| `llm_chain` | 2 callers, 2 providers, threshold 3, 2 successes needed, cooldown after 2, fair | opens only after a streak, closes only after enough successes since half-open, and closes for good once a provider stays up |

*Bounds.* Two callers are a late answer and a probe at once, and two threads in the same
cooldown counters. The counters stop at the thresholds they are compared with; nothing
else is bounded.

*Fairness.* Time passes and cooldowns end; someone goes on asking and choosing; answers,
retryable failures and reports of success that callers get again and again happen at last
(strong fairness, because any caller may drop any call). The property assumes that one
provider stays up from some point on, whatever the others do, and that from some point on no
error cuts the failover short.

## 10. Proofs

TLAPS proves these for every value of the constants, from the named assumptions in the
modules (a finite set of jobs, natural limits, positive thresholds, at least one thread). They
are every safety invariant and every action property that a passing run checks, and the
implementation of `JobLifecycle`. Each inductive invariant was checked with TLC on the runs'
instances before it was proved. Steps that do not concern a part of the state are dealt with once,
by frame lemmas or by grouping the actions by the variables they change.

The types of the jobs, the breaker and the mission events, the breaker's consistency and the
finality of terminal states are proved and not part of a run.

**`JobSchedulerProofs`.** The inductive invariant is `JobInv`:

- `TypeOK`, with three facts about who may act: a job not yet dispatched has no context and
  no help (`IdleInv`), the holder of the lock is the call that waits for it (`HolderInv`),
  and the workers spawned plus the calls that may still spawn one stay within one dispatch
  and the helps so far (`GenInv`) — without the last, `gen` could not be shown to stay in
  its type;
- `LiveWorkerIsTracked`; the job being scheduled or stopped has no entry (`LockInv`); the
  entries, with the one being added, stay within `max_parallel_jobs`, and so do the live
  workers when the one being stopped is counted (`CapInv`);
- `CleanInv`, the heart: while a clean-up task exists for a generation, either the map still
  holds that generation or the job has no entry and no longer holds a slot (or is just being
  stopped). The clean-up task decides under one lock and removes under another;
  the removal is harmless because a job that gave its slot back never gets a second worker.
  That in turn is a fact of the state machine (`SlotIsGivenBackForGood`).

From it follow `TypeCorrect`, `WorkersAreTracked`, `SingleWorker` and
`CapacityIsRespected`. `SlotsAreBounded` needs only that no step but creation makes a context
hold a slot. `TerminalStates` is an action property from the state machine. `RepairEnds`
strengthens `RepairIsBounded` with what a stale `StuckJob` record can say (`RecordInv`).

`ImplementsJobLifecycle` shows that `JobScheduler` implements `JobLifecycle`: its initial states
map to the abstract one, and every step to one abstract step or a stutter. The invariant is
`RefInv`, `JobInv` with `BegunInv`: a job that has a worker, or of which the repair task keeps
a record, has left Pending. That is why a failure always finds the job held or completed, as
the abstract `Fail` asks. The capacity of the abstract `Begin` comes from `CapInv`, that the job is
not busy yet from `LockInv` and `LiveWorkerIsTracked`.

`StoryInv` is what the table and the repair need to know of a job's past: before its dispatch has
returned it was not worked on (`EarlyInv`), a help that reschedules was counted
(`HelpInv`), a completed job has no worker that could still complete it (`DoneInv`), a record of the
repair task keeps the job stuck or over unless somebody helped it (`StaleInv`), a job that was
completed is so still or has failed, and one that failed stays so (`PastInv`), and the outcomes in the
table, or on their way there, have happened (`TruthInv`: writes are unordered, so pending ones count
like the row). `ReportsHappened` and `CompletionIsUndoneByStaleRepairOnly` follow from it.

**`JobLoopProofs`.** `IInv` is `TypeOK` with four parts. `OrderInv`: the messages read and those
that wait in the channel, together, are in the order sent, which gives `MessagesInOrder`.
`RecInv`: what the recovery state says about tools and text in each stage of the loop
(`RecoveryAsksForText`). `CountInv`: the tracker's count is below the iterations begun; it keeps
the tracker in its type. `TrackInv`: at each stage the tracker describes the batches so far,
without the one being executed: its count is the length of their longest suffix of failed repeats
(`Tracked`), whence `TrackerIsExact`. `WorkerImplementsLifecycle` adds `Begun`, that the job has left
Pending while a worker runs, and maps each step to a step of `JobLifecycle`.

**`SandboxJobsProofs`.** `IInv` is the type and, of each job, `JobInv(j)`; no step changes two
jobs except the restart. `JobInv` orders the call, the handle, Docker and the worker: the
worker is there only after its container was started, the handle as long as the call may
need it, `complete_job` only when the worker has ended, and a token without a handle, or with one that
says Stopped, has a completion under way or dropped, a stop at its revocation, or one dropped there
(`Revoking`). `TokensAreRevocable` combines the clauses about the handle; `WaitedJobsLeaveNothing`
needs the others for the places where the call returns.

**`EngineRouterProofs`.** `IInv` says where a gate can be:

- `RefInv`: the store, the file, the router and the web requests keep a gate under its own
  thread, and a chain of gates keeps the thread of its first;
- `TokenInv`, the heart: a thread's gate is in one place — in the store, with the router (which may
  run the thread in its stead), or with one web request. It gives `InsertIsExclusive`;
- `TaskInv`: the only thread that executes is the one the router waits for (`RunsSettle`), so
  nobody but the router can make a second gate of a thread. An outcome that `join_thread`
  missed (`Missed`) is of a thread without a task; with `TokenInv`'s clause that such a thread has
  no gate left, neither in the store nor with anybody, nobody resumes it, and the outcome is
  never handed over as that of a later run;
- `WaitInv`: a gate on a tool call belongs to a waiting thread, also while the router holds it
  (`OwnerWaits`); `KindInv` and `GrantInv`: the answer in hand fits the gate, and what is recorded as
  granted was approved (`ApprovalIsNeverSkipped`).

`CallRunsOnce` adds `RunInv`: once a call was run no gate that could run it again is in the store,
in the file or with the router. It has the hypothesis `~FileErrors`, because a `remove` that fails
is only logged: the old gate stays in the file, a restart brings it back, and its action can
run again. TLC finds that behaviour when the file may fail. Crashes need no hypothesis: a
restart, also one that cuts a write short, is one of the steps.

**`RoutineEngineProofs`.** `CountInv` ties `running_count` to the tasks that execute; `OwnInv` is, of each
run, that a task between the insertion of its row and its completion has a running row of this
process, that a running row of this process has such a task unless its last write failed, and that
a run whose accepted job has not been over yet has a running row unless it gave up the job
(`Settled`). `TickInv` keeps the recovery away from those rows: its list has running rows of an
earlier process, and the one it completes has had its job over.
From these follow `LiveRowsAreOwned`, `JobsHoldTheirRuns` and `FinalStatusIsFinal`.

**`MissionsProofs`.** Every record, saved or held as a copy by the ticker, a request, a watcher or an
edit, is `Good`: its history has threads that were spawned, it counts at most as many as its
history has, its last thread is in its history, and the next slot of a cron mission, if it has one, is
after the day of that thread, unless that thread's fire is `stalled`. `ThreadsAreCountedOnce` follows although anybody may save any copy at any time,
and a copy that is lost takes its count along with its history. `AttemptOK` says that a hot
mission's last attempt is one of today's threads of that mission. A mission the ticker finds due and
not on its cooldown has that thread as its last, and a passed slot: the thread is stalled
(`DueIsCleared`), and it stays so until the ticker spawns (`CallOK`), which gives `SlotFiresOnce`.

**`MissionEventsProofs`.** `DedupInv`: the key of a delivery at work is in the dedup table, no other
delivery has it, and until it spawns its thread the key is unanswered (`OneThreadPerEvent`). `RateInv`: young
threads are recorded or about to be, and the recorded fires plus the deliveries let through exceed
the limit by at most the other senders (`OvershootIsBounded`): whoever is let through has just
seen the recorded fires below the limit, and there is one delivery per sender.

**`ProviderChainProofs`.** `BreakerInv` is `TypeOK`, `BreakerConsistent` and `CountsAreHonest`:
the failures a closed circuit counts are at most the real streak, the successes a half-open
one counts are exactly those since it became half-open, fewer than needed. The last makes
the other two inductive and gives `OpensOnlyAfterStreak` and `ClosesOnlyAfterProbes` in one
step each. Every step of the chain is a step of the breaker or leaves it alone
(`ChainImplementsBreaker`), so the chain inherits both, for any sequence of providers.

## 11. What the code does not keep

`mission_failure` finds an execution that a comment says cannot happen, and `PROJECT.json`
"findings" quotes it: a mission's thread fails before `fire_mission` has saved its copy of the
record; the watcher saves Failed, then the copy saves Active again, and the ticker goes on
firing a mission that was to stay failed until the user resumes it.

These disagree with a comment, too, and have no run of their own. Each is a behaviour of
the modules as they stand:

- A worker that sees Stop within `stop()`'s 100 ms marks its job Completed
  (`src/worker/job.rs:304`; `:435` says "Stop signal handled — nothing more to do").
  (`WorkerSignal`, `WorkerReturn`.)
- Of several user messages drained in one iteration only the first is kept
  (`src/worker/job.rs:1375`; `:1373` says that later ones "will be picked up on the next
  iteration's drain"). (`Signals`.)
- A late success reaches an open circuit: a debug build panics, a release build closes it early
  (`src/llm/circuit_breaker.rs:170`; `:172` calls it a "BUG"). (`Succeed` while Open.)
- An answer between the count and the stamp resets the count, and the provider that works is then
  cooled for the whole cooldown (`src/llm/failover.rs:257`; `:53` says that stale reads cost "one
  extra attempt" at worst). (`Answer` between `FailRetryably` and `Cool`.)
- Cancelling an authentication leaves the thread Waiting without a gate, because only running
  threads can be stopped (`src/bridge/router.rs:2569`; `:2567` says "Stop the thread
  entirely"). (`ResolveCancelled`.)
- After the five-minute deadline the router waits for the task without a limit
  (`src/bridge/router.rs:3763`; `:3706` calls it a safety timeout against hanging). (`JoinWait`.)
- An action that already ran is executed again after authentication, since its output is lost on
  the way (`crates/ironclaw_engine/orchestrator/default.py:1123`;
  `crates/ironclaw_engine/src/runtime/messaging.rs:51` says it is injected instead).
  (`Reported`.)
- A container worker's success is recorded as a failure when the monitor waits for it: its event
  has no `status` (`src/orchestrator/api.rs:391`, `src/worker/container.rs:201`).
  (`ResultStatus`.)
- A paused mission fires on a request, or when the pause comes between the ticker's two loads:
  `fire_mission` refuses terminal missions only
  (`crates/ironclaw_engine/src/runtime/mission.rs:658`; `:514` says "No new threads will be
  spawned"). (`MayLoad`.)

Others were seen in the same way, as properties that TLC refuted and that were not kept.

*Jobs:*

- Saving or scheduling fails after the context was created (`src/agent/scheduler.rs:226`): the
  Pending context keeps its slot for ever, although `src/context/state.rs:62` gives Pending
  an exit for self-repair. (`SaveJob` or `ScheduleCheck` to "done" with `ctx` Pending.)
- The per-user limit counts the job being scheduled (`src/agent/scheduler.rs:277`), so with a
  limit of n the n-th is refused. (`UserAdmits`.)
- A job recovered by self-repair never gets a worker, although
  `src/agent/self_repair.rs:286` says it "will be retried". (`RepairJob`.)
- The row says Cancelled for good while the job was not cancelled or still runs
  (`src/agent/commands.rs:226`). (`CancelPersist` after a stop that found no entry.)
- After a restart the rows of agent jobs keep saying in_progress; only sandbox rows are
  cleaned up (`src/app.rs:239`).
- Over the token budget the job is marked Failed and the response's tool calls still run
  (`src/worker/job.rs:1540`). (`Budget` in `RespondTools`.)
- An empty answer under `force_text` is replaced by a fallback text and completes the job
  (`src/worker/job.rs:1643`). (`RespondAnswer`.)
- `select_tools` ignores `force_text`, so a job forced into text goes on calling tools
  (`src/worker/job.rs:1491`). (`SelectTools`.)
- Stop during a plan ends the plan, and the worker calls the model until it is aborted
  (`src/worker/job.rs:910`). (`PlanMessage`.)

*Sandbox jobs:*

- `create_job_inner` marks the handle Running over a completion that came first
  (`src/orchestrator/job_manager.rs:623`): a call that waits for it times out and reports a
  failure. (`Publish` after `ReportComplete`.)
- `complete_job` runs in the request of the worker that it stops
  (`src/orchestrator/api.rs:305`): if that connection breaks first, the handler may be dropped before
  `revoke` (`src/orchestrator/job_manager.rs:744`) and the token of the ended job stays valid until
  the process ends. (`CompleteDropped`.)
- A waiting call that the tool's timeout drops (`src/tools/builtin/job.rs:969`) leaves handle and
  token behind, and a cancel dropped between its last two steps leaves the token. (`CallDropped`,
  `CancelDropped`.)
- A waiting call whose job was stopped, or whose handle is gone, reports a success. (`PollDone`.)
- The row of a job nobody waits for says running until the next restart, whatever the monitor
  hears. (`MonitorMoves` writes the context only.)
- Self-repair fails container jobs by their age (`src/agent/self_repair.rs:187`), and a job
  restarted through the web has no context, so the reaper removes its container while it works
  (`src/channels/web/features/jobs/mod.rs:545`). (`DetectStuck`, `Reap`.)

*Gates:*

- `recover_project_threads` fails every Waiting thread of the owner's default project, since
  nothing sets the metadata key it spares, and their persisted gates are then discarded
  (`crates/ironclaw_engine/src/runtime/manager.rs:618`). (`Recovered`, `Reconciled`.)
- Threads outside that project which were Running at a crash stay Running
  (`src/bridge/router.rs:1738`). (`Recovered`.)
- A tool error, a missing lease or a failed credential store after the gate was taken leaves the
  thread Waiting without a gate (`src/bridge/router.rs:1206`). (`ExecFails`, `ResolveError`.)
- Two OAuth callbacks that both listed a fallback gate both replay its message
  (`src/bridge/router.rs:2051`). (`WebList` twice, then `WebDiscard`.)
- A web request discards the gate that replaced the one it listed
  (`src/bridge/router.rs:3301`). (`WebDiscard` with another `mem[t]`.)
- The callback for a pairing gate looks for an authentication gate and finds none
  (`src/bridge/router.rs:2208`). (`HandleCallback`.)
- A thread that pauses just when the router's five minutes are over may be missed by
  `join_thread`: it waits for a gate nobody builds, and its outcome stays posted
  (`crates/ironclaw_engine/src/runtime/manager.rs:517`). (`JoinMisses`.)
- A gate answered while the task that paused for it has posted and not ended is taken, and the
  resumption is refused as already running: the gate is gone and the thread waits
  (`crates/ironclaw_engine/src/runtime/manager.rs:224`). (`Take`, then `Resume`.)

*Routines:*

- A routine is counted before it is spawned and its row appears later
  (`src/agent/routine_engine.rs:495`): two triggers exceed `max_concurrent`, and the global
  limit likewise. (`CronFire` and `EventFire` before `RecordRun`.)
- A tick between the completion of a run and the move of `next_fire_at` fires the same slot again
  (`src/agent/routine_engine.rs:1257`). (`CronList` between `CompleteRun` and `UpdateRun`.)
- A lightweight run, a run whose job was not linked yet, and one whose job's row is left pending
  or stuck stay running after a crash and block their routine until somebody cancels the job
  (`src/agent/routine_engine.rs:2131`). (`Restart`; `IsOrphan`.)
- A job that the scheduler refuses was saved before: its run fails and its row says pending until
  somebody cancels it (`src/agent/scheduler.rs:266`). (`ScheduleRun`.)
- A Stuck written before a cancel can land after it; the run was finished then, or is not
  finished until the next cancel (`src/worker/job.rs:115`). (`JobMoves` after `JobCancelled`.)

*Missions:*

- A stale copy makes a paused mission Active again while the index lacks it, so it does not fire
  until a restart. (`FireSave`, `OutcomeSave` or `UpdateSave` after `SetStatus`.)
- `join_thread` looks for the outcome, then for the running entry; between the two a thread is
  not found and its outcome is lost
  (`crates/ironclaw_engine/src/runtime/manager.rs:513`). (`JoinMisses`.)
- A thread that paused at a gate has no watcher when it ends, so its mission learns nothing.
  (`GatedThreadEnds`.)
- After a failed save, a thread that ends within 90 s is reconciled: `last_fire_at` becomes the fire's
  instant, which is what tick compares, and a passed `next_fire_at` stays when the schedule has no
  later slot or does not parse (`crates/ironclaw_engine/src/runtime/mission.rs:2216`, `:2231`). The
  next tick fires again, although `:848` and `:1777` say that the two instants differ then and hold
  the ticker back. (`Stalls`; the exception of `NoRefireWhileCool`.)
- A reconciliation after a later fire moves `last_fire_at` back
  (`crates/ironclaw_engine/src/runtime/mission.rs:2216`). (`Reconciled`.)
- The dedup key is marked before the fire: an event that is refused, or whose spawn fails, is
  dropped when it is delivered again
  (`crates/ironclaw_engine/src/runtime/mission.rs:1054`). (`Mark`, then `Refuse` or `Fail`.)

*Breaker and failover:*

- A late failure of a call admitted before the circuit opened reopens a half-open circuit
  while its probe is still running (`src/llm/circuit_breaker.rs:204`). (`Fail`.)
- The failure count survives the end of a cooldown, so one more failure cools the provider
  again. (`CooldownEnds` leaves `count`.)

## 12. What is only model-checked, and what is not modelled

Only TLC: liveness (`SlotIsReleased`, `CancelReturns`, `RouterReturns`, `RunFollowsJob`,
`OrphanIsReaped`, `SandboxSlotIsReleased`, `UsesWorkingProvider`), which is out of the prover's
reach because it rests on fairness and ENABLED. Every other property of a passing run is a
theorem. The theorems say nothing about the fairness conditions and use none.

The failover's own state in `ProviderChain` has no theorem beside the refinement: its lists are made
with `SelectSeq`, a recursive definition whose results the prover cannot reason about. That a call in
`try_providers` always has a provider left to try (`src/llm/failover.rs:284` calls the opposite
unreachable) is seen by TLC only, which would stop `llm_chain` at the `Head` of an empty list.

Not modelled, with the reasons, is every component of `PROJECT.json` marked so. Two of them have
state machines of their own and are left out because of how the program uses them:

- *Capability leases.* Every grant in the program (`crates/ironclaw_engine/src/runtime/manager.rs:197`,
  `runtime/lease_refresh.rs:86`, and `executor/scripting.rs:1589`, which copies the parent's) has
  no duration and no use limit, and `derive_child_leases` is called by tests only. The states in
  which use counts, refunds and expiry matter do not occur.
- *Sessions.* The agent loop awaits one message before it takes the next
  (`src/agent/agent_loop.rs:1176`), so pending approvals, queued messages and undo are sequential.

In the modelled parts: the scheduler's sub-tasks, broken-tool repair and a restart of the side of
local jobs (its state is in memory; rows are not repaired at start); credential grants, the LLM
proxy and mounts of containers; the agent loop's interrupt and `/expected` messages, child
threads and always-allow settings; the heartbeat, toggling of routines, a manual trigger dropped between inserting
its row and spawning the run, and retries inside a lightweight run; learning missions, notifications, mission creation and a change of a mission's kind of cadence; the response cache, and
the passive metadata calls, which bypass the breaker.

## 13. Running

    tlc -workers 2 -config JobOneJob.cfg MCJobScheduler
    tlc -workers 2 -config JobLoop.cfg MCJobLoop
    tlc -workers 2 -config Sandbox.cfg MCSandboxJobs
    tlc -workers 2 -config GateOneThread.cfg MCEngineRouter
    tlc -workers 2 -config Routines.cfg MCRoutineEngine
    tlc -workers 2 -config Missions.cfg MCMissions
    tlc -workers 2 -config MissionEvents.cfg MCMissionEvents
    tlc -workers 2 -config LlmChain.cfg MCProviderChain
    tlapm JobSchedulerProofs.tla
    tlapm JobLoopProofs.tla
    tlapm SandboxJobsProofs.tla
    tlapm EngineRouterProofs.tla
    tlapm RoutineEngineProofs.tla
    tlapm MissionsProofs.tla
    tlapm MissionEventsProofs.tla
    tlapm ProviderChainProofs.tla

From nothing, `EngineRouterProofs` takes about two minutes and the others up to a minute and a half each.

| run | distinct states | with two workers |
|---|---|---|
| `job_one_job` | 213 033 | 65 s, most of it liveness and refinement |
| `job_two_jobs` | 2 627 551 | 90 s |
| `job_loop` | 1 057 257 | 30 s |
| `sandbox` | 700 419 | 125 s |
| `gate_one_thread` | 2 741 809 | 80 s |
| `gate_two_threads` | 2 695 770 | 60 s |
| `gate_progress` | 303 037 | 60 s |
| `routines` | 917 208 | 145 s |
| `missions` | 1 531 836 | 50 s |
| `mission_events` | 1 014 420 | 25 s |
| `llm_chain` | 203 960 | 60 s |
| `mission_failure` | stops at its counterexample | 1 s |
