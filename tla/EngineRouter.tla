---------------------------- MODULE EngineRouter ----------------------------
(***************************************************************************)
(* Engine v2 behind the bridge: threads and the tasks that run them        *)
(* (ThreadManager), the conversation's active threads, the router that     *)
(* handles the user's messages, the web handlers that touch pending gates  *)
(* beside it, and a restart of the process.  PendingGates is the store.    *)
(*                                                                         *)
(* Processes.  The agent loop awaits handle_message before it takes the    *)
(* next message, so there is one router, `rt'.  Each thread's task, and    *)
(* each web request in `webs', runs concurrently with it.  One action is   *)
(* what happens between two awaits at which another of them can see or     *)
(* change the modelled state.                                              *)
(*                                                                         *)
(* A message reaches a gate through the thread it is scoped to; which      *)
(* messages arrive is left open.  Storing a thread or a conversation does  *)
(* not fail (HybridStore keeps them in memory and logs write errors).      *)
(* start_thread spawns the task and then inserts the running entry: a task *)
(* that ends in between leaves an entry whose handle is finished, which    *)
(* is_running tells from a running one, so the two are one step here.      *)
(*                                                                         *)
(* Time.  A task that posted its outcome takes one more lock and is over;  *)
(* that is assumed to take less than the five minutes of a later await.    *)
(*                                                                         *)
(* Bounds.  MaxRequests and MaxExpiries (PendingGates), MaxRestarts, one   *)
(* spawn per id in Threads, and one ExternalCallback in the queue.         *)
(***************************************************************************)
EXTENDS PendingGates

CONSTANTS
    Owned,        \* threads of the owner's default project
    Webs,         \* web requests in flight at a time
    MaxRestarts   \* bound: restarts of the process

ASSUME RouterAssumption == Owned \subseteq Threads /\ MaxRestarts \in Nat

VARIABLES
    stored,     \* Store: the saved Thread::state, "Absent" before the spawn
    task,       \* where the thread's tokio task is
    out,        \* the ThreadOutcome its run ended with
    completed,  \* ThreadManager::completed, threads whose outcome waits
    running,    \* ThreadManager::running
    active,     \* ConversationSurface::active_threads
    rt,         \* the router: [pc, t, r, res]
    todo,       \* clear_engine_conversation: threads still to visit
    callbacks,  \* ExternalCallback messages in the agent's queue
    webs,       \* web request -> [pc, op, t, r]
    boots,      \* restarts so far
    approved,   \* history: calls the user approved since the last start
    ran         \* history: calls whose action the router ran

threadVars == <<stored, task, out, completed, running>>
history    == <<approved, ran>>
vars == <<gateVars, threadVars, active, rt, todo, callbacks, webs, boots, history>>

(***************************************************************************)
(* Threads.                                                                *)
(***************************************************************************)
ThreadState == {"Created", "Running", "Waiting", "Suspended", "Completed", "Done", "Failed"}

Successors(s) ==
    CASE s = "Created"   -> {"Running", "Failed"}
      [] s = "Running"   -> {"Waiting", "Suspended", "Completed", "Failed"}
      [] s = "Waiting"   -> {"Running", "Failed"}
      [] s = "Suspended" -> {"Running", "Failed"}
      [] s = "Completed" -> {"Done"}
      [] OTHER           -> {}

IsTerminal(s) == s \in {"Done", "Failed"}

PauseKinds == {"approval", "auth", "staged"}
Outcomes == {"none", "done", "failed", "fallback"} \cup PauseKinds
Outcome(k, n) == [kind |-> k, needs |-> n]
NoOutcome == Outcome("none", FALSE)

IsRunning(t) == t \in running /\ task[t] # "none"
TransitionTo(t, s) == s \in Successors(stored[t]) /\ stored' = [stored EXCEPT ![t] = s]

\* start_thread: spawn the task, insert the running entry.
StartThread(t) ==
    /\ task' = [task EXCEPT ![t] = "starting"]
    /\ running' = running \cup {t}

\* ExecutionLoop::run: to Running, persisted before the orchestrator runs.
TaskStart(t) ==
    /\ task[t] = "starting"
    /\ TransitionTo(t, "Running")
    /\ task' = [task EXCEPT ![t] = "executing"]
    /\ UNCHANGED <<gateVars, out, completed, running, active, rt, todo, callbacks, webs,
                   boots, history>>

SettledState(k) ==
    IF k \in PauseKinds THEN "Waiting" ELSE IF k = "failed" THEN "Failed" ELSE "Completed"

\* The orchestrator returns and the thread's new state is persisted.  A
\* "fallback" outcome is a completion whose text asks for authentication; in a
\* "staged" one the action ran and its result asks for authentication.
TaskSettle(t, k, n) ==
    /\ task[t] = "executing"
    /\ k \in PauseKinds \cup {"fallback"} => CanBuild
    /\ k = "approval" => n
    /\ n => k \in {"approval", "auth"}
    /\ TransitionTo(t, SettledState(k))
    /\ task' = [task EXCEPT ![t] = "ending"]
    /\ out' = [out EXCEPT ![t] = Outcome(k, n)]
    /\ UNCHANGED <<gateVars, completed, running, active, rt, todo, callbacks, webs, boots,
                   history>>

\* Completed becomes Done, the thread is saved and its outcome posted.
\* Mutant of TaskPost: a paused thread keeps its task until its gate is resolved.
TaskPostUnlessPaused(t) ==
    /\ task[t] = "ending" /\ stored[t] # "Waiting"
    /\ IF stored[t] = "Completed" THEN TransitionTo(t, "Done") ELSE UNCHANGED stored
    /\ task' = [task EXCEPT ![t] = "posted"]
    /\ completed' = completed \cup {t}
    /\ UNCHANGED <<gateVars, out, running, active, rt, todo, callbacks, webs, boots, history>>

TaskPost(t) ==
    /\ task[t] = "ending"
    /\ IF stored[t] = "Completed" THEN TransitionTo(t, "Done") ELSE UNCHANGED stored
    /\ task' = [task EXCEPT ![t] = "posted"]
    /\ completed' = completed \cup {t}
    /\ UNCHANGED <<gateVars, out, running, active, rt, todo, callbacks, webs, boots, history>>

\* Under another lock, the running entry is removed; the task is over.
TaskEnd(t) ==
    /\ task[t] = "posted"
    /\ task' = [task EXCEPT ![t] = "none"]
    /\ running' = running \ {t}
    /\ UNCHANGED <<gateVars, stored, out, completed, active, rt, todo, callbacks, webs, boots,
                   history>>

(***************************************************************************)
(* The router.  `rt' holds where handle_message is and the thread, request *)
(* and resolution it works on.                                             *)
(***************************************************************************)
At(pc, t, r, res) == [pc |-> pc, t |-> t, r |-> r, res |-> res]
AnyThread == CHOOSE t \in Threads : TRUE
Idle == At("idle", AnyThread, NoRequest, "none")
Goto(pc) == rt' = [rt EXCEPT !.pc = pc]
Return == rt' = Idle
Await(t) == rt' = At("await", t, NoRequest, "none")
ToResume == rt' = At("resume", rt.t, NoRequest, "none")

\* A message in a conversation without an active foreground thread.
Spawn(t) ==
    /\ rt = Idle /\ stored[t] = "Absent"
    /\ stored' = [stored EXCEPT ![t] = "Created"]
    /\ StartThread(t)
    /\ active' = active \cup {t}
    /\ Await(t)
    /\ UNCHANGED <<gateVars, out, completed, todo, callbacks, webs, boots, history>>

\* handle_approval, handle_exec_approval, handle_auth_gate_resolution and the
\* authentication branch of handle_with_engine_inner: the kind decides which
\* answers are accepted.
Answers(k) == CASE k = "approval"    -> {"approve", "deny"}
                [] k \in AuthKinds   -> {"credential", "cancel"}
                [] OTHER             -> {}

Select(t, res) ==
    /\ rt = Idle /\ IsLive(t)
    /\ res \in Answers(gate[mem[t]].kind)
    /\ rt' = At("take", t, mem[t], res)
    /\ UNCHANGED <<gateVars, threadVars, active, todo, callbacks, webs, boots, history>>

\* handle_external_callback: only an authentication gate with this id will do.
HandleCallback(r) ==
    /\ rt = Idle /\ r \in callbacks
    /\ callbacks' = callbacks \ {r}
    /\ LET t == gate[r].thread
       IN IF mem[t] = r /\ LiveOfKind(t, AuthKinds)
          THEN rt' = At("take", t, r, "callback")
          ELSE UNCHANGED rt
    /\ UNCHANGED <<gateVars, threadVars, active, todo, webs, boots, history>>

\* resolve_gate: take_verified under the mutex.
Take ==
    /\ rt.pc = "take"
    /\ IF mem[rt.t] = rt.r
       THEN /\ TakeVerified(rt.t, rt.r)
            /\ IF Takes(rt.t, rt.r) THEN Goto("unlink") ELSE Return
       ELSE Return /\ UNCHANGED mem
    /\ UNCHANGED <<gate, issued, file, torn, expired, threadVars, active, todo, callbacks, webs,
                   boots, history>>

\* take_verified: the row goes after the mutex is released; errors are logged.
TakeUnlink ==
    /\ rt.pc = "unlink"
    /\ \E ok \in BOOLEAN : RemoveRow(rt.t, ok)
    /\ Goto("resolved")
    /\ UNCHANGED <<gate, issued, mem, expired, threadVars, active, todo, callbacks, webs, boots,
                   history>>

Resolving(answers) == rt.pc = "resolved" /\ rt.res \in answers

ResolveApproved ==
    /\ Resolving({"approve"})
    /\ approved' = approved \cup {gate[rt.r].call}
    /\ Goto("exec")
    /\ UNCHANGED <<gateVars, threadVars, active, todo, callbacks, webs, boots, ran>>

ResolveDenied ==
    /\ Resolving({"deny"})
    /\ ToResume
    /\ UNCHANGED <<gateVars, threadVars, active, todo, callbacks, webs, boots, history>>

\* stop_thread answers ThreadNotFound for a thread that is not running, and a
\* Stop sent to a task past its loop is never read.
ResolveCancelled ==
    /\ Resolving({"cancel"})
    /\ Return
    /\ UNCHANGED <<gateVars, threadVars, active, todo, callbacks, webs, boots, history>>

\* The credential is stored (or the external flow is done): a fallback gate's
\* message is handled again as a new message, a staged output is handed back,
\* any other action runs.
ResolveReady ==
    /\ Resolving({"credential", "callback"})
    /\ LET k == gate[rt.r].kind
           replayed == k = "fallback" /\ rt.res = "credential"
       IN \/ replayed /\ Return
          \/ k = "staged" /\ ToResume
          \/ ~replayed /\ k # "staged" /\ Goto("exec")
    /\ UNCHANGED <<gateVars, threadVars, active, todo, callbacks, webs, boots, history>>

\* The gate is built again under a new id: requeue_auth_pending_gate keeps its
\* kind, requeue_pairing_pending_gate turns it into a pairing gate (which keeps a
\* staged output; no message resolves a pairing gate, so its kind suffices).
\* Mutant of Requeue: the new gate is named but never built.
RequeueUnbuilt(k) ==
    /\ rt' = At("insert", rt.t, NextRequest, "none")
    /\ UNCHANGED <<gate, issued>>

Requeue(k) ==
    LET g == gate[rt.r]
    IN /\ Build(g.thread, k, g.call, g.needs, g.granted)
       /\ rt' = At("insert", g.thread, NextRequest, "none")

ResolveRequeued ==
    /\ Resolving({"credential"})
    /\ Requeue(gate[rt.r].kind) \/ Requeue("pairing")
    /\ UNCHANGED <<mem, file, torn, expired, threadVars, active, todo, callbacks, webs, boots,
                   history>>

FailWaiting(t) ==
    IF stored[t] = "Waiting" THEN TransitionTo(t, "Failed") ELSE UNCHANGED stored

\* No backend can store the credential.
ResolveNoBackend ==
    /\ Resolving({"credential"})
    /\ FailWaiting(rt.t)
    /\ Return
    /\ UNCHANGED <<gateVars, task, out, completed, running, active, todo, callbacks, webs, boots,
                   history>>

\* Storing the credential fails: the error is the answer, the gate stays taken.
ResolveError ==
    /\ Resolving({"credential"})
    /\ Return
    /\ UNCHANGED <<gateVars, threadVars, active, todo, callbacks, webs, boots, history>>

(***************************************************************************)
(* execute_pending_gate_action.  The tool runs only when its approval      *)
(* requirement is met; a fallback gate's action is no tool and fails.      *)
(***************************************************************************)
ApprovalGranted == rt.res = "approve" \/ gate[rt.r].granted
\* enforce_tool_approval.
ApprovalMet == ~gate[rt.r].needs \/ ApprovalGranted
IsTool == gate[rt.r].kind # "fallback"

ExecRuns ==
    /\ rt.pc = "exec" /\ ApprovalMet /\ IsTool
    /\ ran' = ran \cup {gate[rt.r].call}
    /\ ToResume
    /\ UNCHANGED <<gateVars, threadVars, active, todo, callbacks, webs, boots, approved>>

\* The action pauses on another gate: for the approval it still needs, for a
\* credential (an action that only answers that it awaits authorization is meant
\* to run again and counts as not run), or for a credential after it ran.
ExecPauses(k) ==
    /\ rt.pc = "exec" /\ IsTool
    /\ k = "approval" => ~ApprovalMet
    /\ k = "staged" => ApprovalMet
    /\ LET g == gate[rt.r]
       IN /\ Build(rt.t, k, g.call, g.needs, ApprovalGranted \/ g.kind = "approval")
          /\ ran' = IF k = "staged" THEN ran \cup {g.call} ELSE ran
    /\ rt' = At("insert", rt.t, NextRequest, "none")
    /\ UNCHANGED <<mem, file, torn, expired, threadVars, active, todo, callbacks, webs, boots,
                   approved>>

\* No lease, a tool error, a disabled tool: the error is the answer.
ExecFails ==
    /\ rt.pc = "exec"
    /\ Return
    /\ UNCHANGED <<gateVars, threadVars, active, todo, callbacks, webs, boots, history>>

\* resume_thread: AlreadyRunning, or not resumable from its state, or started.
Resume ==
    /\ rt.pc = "resume"
    /\ IF ~IsRunning(rt.t) /\ stored[rt.t] \in {"Waiting", "Suspended"}
       THEN StartThread(rt.t) /\ Await(rt.t)
       ELSE Return /\ UNCHANGED <<task, running>>
    /\ UNCHANGED <<gateVars, stored, out, completed, active, todo, callbacks, webs, boots,
                   history>>

(***************************************************************************)
(* await_thread_outcome: poll is_running, or give up after five minutes;   *)
(* both end in join_thread.                                                *)
(***************************************************************************)
AwaitEnd ==
    /\ rt.pc = "await" /\ ~IsRunning(rt.t)
    /\ Goto("join")
    /\ UNCHANGED <<gateVars, threadVars, active, todo, callbacks, webs, boots, history>>

\* Mutant of AwaitDeadline: the timeout answers the user and joins nothing.
AwaitDeadlineReturns ==
    /\ rt.pc = "await" /\ IsRunning(rt.t)
    /\ Return
    /\ UNCHANGED <<gateVars, threadVars, active, todo, callbacks, webs, boots, history>>

AwaitDeadline ==
    /\ rt.pc = "await" /\ IsRunning(rt.t)
    /\ Goto("join")
    /\ UNCHANGED <<gateVars, threadVars, active, todo, callbacks, webs, boots, history>>

\* The outcome reached the router: record it, and build the gate it asks for.
\* The orchestrator script returns a pause without the resume_output it was
\* given, so a staged pause arrives as a plain authentication.
Reported(k) == IF k = "staged" THEN "auth" ELSE k

Collect(t) ==
    LET k == out[t].kind
    IN /\ active' = IF k \in PauseKinds THEN active ELSE active \ {t}
       /\ IF k \in PauseKinds \cup {"fallback"}
          THEN /\ Build(t, Reported(k), NextRequest, out[t].needs, FALSE)
               /\ rt' = At("insert", t, NextRequest, "none")
          ELSE Return /\ UNCHANGED <<gate, issued>>

\* join_thread: the posted outcome.
JoinPosted ==
    /\ rt.pc = "join" /\ rt.t \in completed
    /\ completed' = completed \ {rt.t}
    /\ Collect(rt.t)
    /\ out' = [out EXCEPT ![rt.t] = NoOutcome]
    /\ UNCHANGED <<mem, file, torn, expired, stored, task, running, todo, callbacks, webs,
                   boots, approved, ran>>

\* join_thread: no posted outcome; the running entry is looked up under another lock ...
JoinLook ==
    /\ rt.pc = "join" /\ rt.t \notin completed
    /\ Goto("joinEntry")
    /\ UNCHANGED <<gateVars, threadVars, active, todo, callbacks, webs, boots, history>>

\* ... and taken: the handle is awaited, ...
JoinWait ==
    /\ rt.pc = "joinEntry" /\ rt.t \in running
    /\ running' = running \ {rt.t}
    /\ Goto("joining")
    /\ UNCHANGED <<gateVars, stored, task, out, completed, active, todo, callbacks, webs, boots,
                   history>>

\* ... or it is gone, since the task ended in between: ThreadNotFound is the
\* answer and the outcome stays posted.  Nobody asks for it again, so the model
\* forgets what it said.
JoinMisses ==
    /\ rt.pc = "joinEntry" /\ rt.t \notin running
    /\ Return
    /\ out' = [out EXCEPT ![rt.t] = NoOutcome]
    /\ UNCHANGED <<gateVars, stored, task, completed, running, active, todo, callbacks, webs,
                   boots, history>>

\* Mutant of JoinHandle: the copy of the outcome that the task posted stays.
JoinHandleKeepsCopy ==
    /\ rt.pc = "joining" /\ task[rt.t] = "none"
    /\ Collect(rt.t)
    /\ out' = [out EXCEPT ![rt.t] = NoOutcome]
    /\ UNCHANGED <<mem, file, torn, expired, stored, task, completed, running, todo, callbacks, webs,
                   boots, approved, ran>>

JoinHandle ==
    /\ rt.pc = "joining" /\ task[rt.t] = "none"
    /\ completed' = completed \ {rt.t}
    /\ Collect(rt.t)
    /\ out' = [out EXCEPT ![rt.t] = NoOutcome]
    /\ UNCHANGED <<mem, file, torn, expired, stored, task, running, todo, callbacks, webs,
                   boots, approved, ran>>

\* A message for a thread whose outcome was collected but whose entry is still
\* there is sent to a task that reads no more, and awaited: when the entry is
\* gone join_thread finds neither outcome nor entry.
Inject(t) ==
    /\ rt = Idle /\ t \in active /\ IsRunning(t)
    /\ rt' = At("injected", t, NoRequest, "none")
    /\ UNCHANGED <<gateVars, threadVars, active, todo, callbacks, webs, boots, history>>

InjectedEnd ==
    /\ rt.pc = "injected" /\ ~IsRunning(rt.t)
    /\ IF rt.t \in completed THEN Goto("join") ELSE Return
    /\ UNCHANGED <<gateVars, threadVars, active, todo, callbacks, webs, boots, history>>

\* PendingGateStore::insert by the router; its error is the answer or logged.
GateInsert ==
    /\ rt.pc = "insert"
    /\ IF Inserts(rt.t) THEN Insert(rt.t, rt.r) /\ Goto("save") ELSE Return /\ UNCHANGED mem
    /\ UNCHANGED <<gate, issued, file, torn, expired, threadVars, active, todo, callbacks, webs,
                   boots, history>>

GateSave ==
    /\ rt.pc = "save"
    /\ \E ok \in BOOLEAN : SaveRow(rt.t, rt.r, ok)
    /\ Return
    /\ UNCHANGED <<gate, issued, mem, expired, threadVars, active, todo, callbacks, webs, boots,
                   history>>

\* fail_orphaned_waiting_thread_if_needed: peek, then fail the thread.
OrphanPeek(t) ==
    /\ rt = Idle /\ stored[t] # "Absent" /\ ~IsLive(t)
    /\ rt' = At("orphan", t, NoRequest, "none")
    /\ UNCHANGED <<gateVars, threadVars, active, todo, callbacks, webs, boots, history>>

OrphanFail ==
    /\ rt.pc = "orphan"
    /\ FailWaiting(rt.t)
    /\ Return
    /\ UNCHANGED <<gateVars, task, out, completed, running, active, todo, callbacks, webs, boots,
                   history>>

(***************************************************************************)
(* clear_engine_conversation: for each active thread discard_for_thread,   *)
(* then forget the active threads.                                         *)
(***************************************************************************)
ClearBegin ==
    /\ rt = Idle
    /\ todo' = active
    /\ Goto("clear")
    /\ UNCHANGED <<gateVars, threadVars, active, callbacks, webs, boots, history>>

ClearDiscard(t) ==
    /\ rt.pc = "clear" /\ t \in todo
    /\ todo' = todo \ {t}
    /\ IF Discards(t)
       THEN Discard(t) /\ rt' = At("clearRow", t, NoRequest, "none")
       ELSE UNCHANGED <<mem, rt>>
    /\ UNCHANGED <<gate, issued, file, torn, expired, threadVars, active, callbacks, webs, boots,
                   history>>

ClearUnlink ==
    /\ rt.pc = "clearRow"
    /\ \E ok \in BOOLEAN : RemoveRow(rt.t, ok)
    /\ rt' = At("clear", AnyThread, NoRequest, "none")
    /\ UNCHANGED <<gate, issued, mem, expired, threadVars, active, todo, callbacks, webs, boots,
                   history>>

ClearDone ==
    /\ rt.pc = "clear" /\ todo = {}
    /\ active' = {}
    /\ Return
    /\ UNCHANGED <<gateVars, threadVars, todo, callbacks, webs, boots, history>>

(***************************************************************************)
(* Web handlers.  Each first lists the live gates, then acts by key.       *)
(*   clear   clear_engine_pending_auth                                     *)
(*   replay  resolve_engine_auth_callback on a fallback gate; the message  *)
(*           it sends again is a Message like any other                    *)
(*   pair    transition_engine_pending_auth_request_to_pairing             *)
(***************************************************************************)
WebAt(pc, op, t, r) == [pc |-> pc, op |-> op, t |-> t, r |-> r]
WebIdle == WebAt("idle", "none", AnyThread, NoRequest)
WebGoto(w, pc) == webs' = [webs EXCEPT ![w].pc = pc]
WebReturn(w) == webs' = [webs EXCEPT ![w] = WebIdle]

Targets(op) == IF op = "replay" THEN {"fallback"} ELSE AuthKinds

WebList(w, op, t) ==
    /\ webs[w] = WebIdle
    /\ LiveOfKind(t, Targets(op))
    /\ webs' = [webs EXCEPT ![w] = WebAt("discard", op, t, mem[t])]
    /\ UNCHANGED <<gateVars, threadVars, active, rt, todo, callbacks, boots, history>>

\* Mutant of WebDiscardMissing: the pairing flow goes on when the gate is gone.
WebDiscardMissingGoesOn(w) ==
    IF webs[w].op = "pair" THEN WebGoto(w, "build") ELSE WebReturn(w)

\* discard answers NotFound: pairing gives up, the others go on without.
WebDiscardMissing(w) == WebReturn(w)

WebDiscard(w) ==
    /\ webs[w].pc = "discard"
    /\ IF Discards(webs[w].t)
       THEN Discard(webs[w].t) /\ WebGoto(w, "unlink")
       ELSE WebDiscardMissing(w) /\ UNCHANGED mem
    /\ UNCHANGED <<gate, issued, file, torn, expired, threadVars, active, rt, todo, callbacks,
                   boots, history>>

WebUnlink(w) ==
    /\ webs[w].pc = "unlink"
    /\ \E ok \in BOOLEAN :
         /\ RemoveRow(webs[w].t, ok)
         /\ IF webs[w].op = "pair" /\ ok THEN WebGoto(w, "build") ELSE WebReturn(w)
    /\ UNCHANGED <<gate, issued, mem, expired, threadVars, active, rt, todo, callbacks, boots,
                   history>>

\* pairing_pending_gate_from_auth on the gate listed at the start.  Within the
\* bound on request ids the last one is left to the router.
WebBuild(w) ==
    /\ webs[w].pc = "build" /\ NextRequest < MaxRequests
    /\ LET g == gate[webs[w].r]
       IN Build(webs[w].t, "pairing", g.call, g.needs, g.granted)
    /\ webs' = [webs EXCEPT ![w] = WebAt("insert", webs[w].op, webs[w].t, NextRequest)]
    /\ UNCHANGED <<mem, file, torn, expired, threadVars, active, rt, todo, callbacks, boots,
                   history>>

WebInsert(w) ==
    /\ webs[w].pc = "insert"
    /\ IF Inserts(webs[w].t)
       THEN Insert(webs[w].t, webs[w].r) /\ WebGoto(w, "save")
       ELSE WebReturn(w) /\ UNCHANGED mem
    /\ UNCHANGED <<gate, issued, file, torn, expired, threadVars, active, rt, todo, callbacks,
                   boots, history>>

WebSave(w) ==
    /\ webs[w].pc = "save"
    /\ \E ok \in BOOLEAN : SaveRow(webs[w].t, webs[w].r, ok)
    /\ WebReturn(w)
    /\ UNCHANGED <<gate, issued, mem, expired, threadVars, active, rt, todo, callbacks, boots,
                   history>>

\* resolve_engine_auth_callback on another gate, setup reported ready, and an
\* approved pairing all queue an ExternalCallback with the prompt's request id.
WebCallback(r) ==
    /\ r \in 1 .. issued /\ gate[r].kind # "approval"
    /\ mem[gate[r].thread] = r /\ callbacks = {}
    /\ callbacks' = {r}
    /\ UNCHANGED <<gateVars, threadVars, active, rt, todo, webs, boots, history>>

(***************************************************************************)
(* The process stops at any point and starts again.  init_engine recovers  *)
(* the owner's project, restores the gates and reconciles both before it   *)
(* publishes the engine state, so the start is one step.  A write in       *)
(* progress may be lost, or leave the file empty or cut short.             *)
(***************************************************************************)
Writing ==
    \/ rt.pc \in {"unlink", "save", "clearRow"}
    \/ \E w \in Webs : webs[w].pc \in {"unlink", "save"}

\* recover_project_threads.
Recovered ==
    [t \in Threads |->
        IF /\ t \in Owned /\ ~IsTerminal(stored[t]) /\ stored[t] # "Completed"
           /\ "Failed" \in Successors(stored[t])
        THEN "Failed" ELSE stored[t]]

\* reconcile_pending_gate_state: a gate needs a waiting thread ...
\* Mutant of Reconciled: gates of threads that are not waiting are kept.
ReconciledKeepsAll(rows, state) == rows
Reconciled(rows, state) ==
    [t \in Threads |-> IF state[t] = "Waiting" THEN rows[t] ELSE NoRequest]
\* ... and a waiting thread needs a gate.
ReconciledThreads(rows, state) ==
    [t \in Threads |->
        IF state[t] = "Waiting" /\ rows[t] = NoRequest THEN "Failed" ELSE state[t]]

Restart ==
    /\ boots < MaxRestarts
    /\ boots' = boots + 1
    /\ \E cut \in {"no"} \cup (IF Writing /\ ~torn THEN {"empty", "short"} ELSE {}) :
         LET rows  == IF cut = "no" THEN file ELSE NoRows
             bad   == torn \/ cut = "short"
             gates == Restored(rows, bad)
             kept  == Reconciled(gates, Recovered)
         IN /\ mem' = kept
            /\ torn' = bad
            /\ \/ file' = [t \in Threads |->
                             IF gates[t] # kept[t] THEN NoRequest ELSE rows[t]]
               \/ FileErrors /\ file' = rows
            /\ stored' = ReconciledThreads(gates, Recovered)
    /\ gate' = [r \in 1 .. issued |-> RestoredGate(gate[r])]
    /\ task' = [t \in Threads |-> "none"]
    /\ out' = [t \in Threads |-> NoOutcome]
    /\ completed' = {} /\ running' = {}
    /\ rt' = Idle /\ todo' = {} /\ callbacks' = {}
    /\ webs' = [w \in Webs |-> WebIdle]
    /\ approved' = {}
    /\ UNCHANGED <<issued, expired, active, ran>>

(***************************************************************************)
(* The specification.                                                      *)
(***************************************************************************)
Init ==
    /\ GatesInit
    /\ stored = [t \in Threads |-> "Absent"]
    /\ task = [t \in Threads |-> "none"]
    /\ out = [t \in Threads |-> NoOutcome]
    /\ completed = {} /\ running = {} /\ active = {}
    /\ rt = Idle /\ todo = {} /\ callbacks = {}
    /\ webs = [w \in Webs |-> WebIdle]
    /\ boots = 0
    /\ approved = {} /\ ran = {}

GateExpires(r) ==
    /\ Expire(r)
    /\ UNCHANGED <<threadVars, active, rt, todo, callbacks, webs, boots, history>>

TaskNext(t) ==
    \/ TaskStart(t) \/ TaskPost(t) \/ TaskEnd(t)
    \/ \E k \in Outcomes \ {"none"}, n \in BOOLEAN : TaskSettle(t, k, n)

\* A message arrives.
Message ==
    \/ \E t \in Threads : Spawn(t) \/ Inject(t) \/ OrphanPeek(t)
    \/ \E t \in Threads, res \in {"approve", "deny", "credential", "cancel"} : Select(t, res)
    \/ \E r \in callbacks : HandleCallback(r)
    \/ ClearBegin

\* The message in hand is worked on.
RouterNext ==
    \/ Take \/ TakeUnlink
    \/ ResolveApproved \/ ResolveDenied \/ ResolveCancelled
    \/ ResolveReady \/ ResolveRequeued \/ ResolveNoBackend \/ ResolveError
    \/ ExecRuns \/ ExecFails \/ \E k \in PauseKinds : ExecPauses(k)
    \/ Resume \/ AwaitEnd \/ AwaitDeadline
    \/ JoinPosted \/ JoinLook \/ JoinWait \/ JoinMisses \/ JoinHandle \/ InjectedEnd
    \/ GateInsert \/ GateSave \/ OrphanFail
    \/ (\E t \in Threads : ClearDiscard(t)) \/ ClearUnlink \/ ClearDone

WebNext ==
    \/ \E w \in Webs :
         \/ \E op \in {"clear", "replay", "pair"}, t \in Threads : WebList(w, op, t)
         \/ WebDiscard(w) \/ WebUnlink(w) \/ WebBuild(w) \/ WebInsert(w) \/ WebSave(w)
    \/ \E r \in 1 .. issued : WebCallback(r)

Next ==
    \/ \E t \in Threads : TaskNext(t)
    \/ Message \/ RouterNext \/ WebNext
    \/ \E r \in Requests : GateExpires(r)
    \/ Restart

Spec == Init /\ [][Next]_vars

\* The executor runs the router, and the orchestrator bounds a run in iterations,
\* tokens and time, so every task ends.
FairSpec == Spec /\ WF_vars(RouterNext) /\ \A t \in Threads : WF_vars(TaskNext(t))

(***************************************************************************)
(* Properties.                                                             *)
(***************************************************************************)
RouterPcs == {"idle", "take", "unlink", "resolved", "exec", "resume", "await", "join",
              "joinEntry", "joining", "injected", "insert", "save", "orphan", "clear", "clearRow"}

\* Every variable holds a value of its kind, and gates and threads refer to
\* request ids that were handed out.
TypeOK ==
    /\ GatesTypeOK
    /\ stored \in [Threads -> ThreadState \cup {"Absent"}]
    /\ task \in [Threads -> {"none", "starting", "executing", "ending", "posted"}]
    /\ out \in [Threads -> [kind : Outcomes, needs : BOOLEAN]]
    /\ completed \subseteq Threads /\ running \subseteq Threads
    /\ active \subseteq Threads /\ todo \subseteq Threads
    /\ rt \in [pc : RouterPcs, t : Threads, r : 0 .. issued,
               res : {"none", "approve", "deny", "credential", "cancel", "callback"}]
    /\ callbacks \subseteq 1 .. issued
    /\ webs \in [Webs -> [pc : {"idle", "discard", "unlink", "build", "insert", "save"},
                          op : {"none", "clear", "replay", "pair"},
                          t : Threads, r : 0 .. issued]]
    /\ boots \in 0 .. MaxRestarts
    /\ approved \subseteq Requests /\ ran \subseteq Requests

\* The router executes a paused tool call at most once, however its gates chain, web
\* requests interfere and the process restarts: execute_pending_gate_action is
\* never reached for a call whose action it already ran.
RunsOnce == rt.pc = "exec" => gate[rt.r].call \notin ran

\* A tool that requires approval runs only if the user approved that very call
\* since the process started: approval_already_granted travels from an approval
\* gate to the gates chained after it, and never across a restart.
ApprovalNeverSkipped ==
    [][\A c \in ran' \ ran : gate[rt.r].needs => c \in approved]_vars

\* No run outlives the message that started it, and no outcome is taken for that of another
\* run.  When the router is idle no thread executes any more: at the deadline join_thread waits
\* for the task.  And an outcome that waits to be collected is that of the thread's last
\* run: one that join_thread missed, between its two looks, is never handed over later.
Executing == {"starting", "executing", "ending"}
RunsAreSettled ==
    /\ rt.pc = "idle" => \A t \in Threads : task[t] \notin Executing
    /\ \A t \in completed : task[t] \notin Executing

\* A live approval or authentication gate on a tool call belongs to a thread
\* that waits for it, also after a restart restored the two from different files.
GateOwnerIsWaiting ==
    \A t \in Threads : LiveOfKind(t, PauseKinds) => stored[t] = "Waiting"

\* Taking a gate, or discarding it for pairing, is exclusive: whoever is about to
\* insert the gate's successor finds the thread's slot free, so insert never
\* answers AlreadyExists and no paused call is dropped.
InsertFindsFreeSlot ==
    /\ rt.pc = "insert" => Inserts(rt.t)
    /\ \A w \in Webs : webs[w].pc = "insert" => Inserts(webs[w].t)

\* Every message is answered: the agent loop, which handles one message at a
\* time, gets back to its queue.
RouterReturns == (rt.pc # "idle") ~> (rt.pc = "idle")
=============================================================================
