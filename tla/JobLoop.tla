------------------------------ MODULE JobLoop ------------------------------
(***************************************************************************)
(* What a job's worker does while it runs: the plan, the shared agentic    *)
(* loop with its job delegate, the recovery from malformed model answers,  *)
(* and the channel over which the scheduler sends it Stop and follow-up    *)
(* user messages.  JobScheduler has all of this as one step.               *)
(*                                                                         *)
(* A model answer is one of a few kinds; a tool batch is its fingerprint.  *)
(* An action is the code between two awaits at which the rest of the       *)
(* system can be seen.                                                     *)
(***************************************************************************)
EXTENDS JobStates, Naturals, Sequences

CONSTANTS
    MaxIterations,   \* AgenticLoopConfig::max_iterations
    MaxNudges,       \* AgenticLoopConfig::max_tool_intent_nudges
    MaxRateLimits,   \* JobDelegate::MAX_CONSECUTIVE_RATE_LIMITS
    ForceTextAt,     \* DUPLICATE_FORCE_TEXT_THRESHOLD
    Truncations,     \* truncations that force text, in run_agentic_loop
    PlanLength,      \* actions of the plan; 0 without one
    Batches,         \* fingerprints of tool batches
    MaxMessages      \* bound: user messages sent to the job

ASSUME JobLoopAssumption ==
    /\ {MaxNudges, PlanLength, MaxMessages} \subseteq Nat
    /\ {MaxIterations, MaxRateLimits, ForceTextAt, Truncations} \subseteq Nat \ {0}

VARIABLES
    ctx,          \* the job's state in the context manager
    stopping,     \* stop() has sent Stop and will abort the task
    mail,         \* the worker's channel, after Start
    sent, read,   \* user messages accepted by send_message; put before the model, in order
    at,           \* where the worker is
    iter,         \* iterations begun; in the plan, actions done
    offered,      \* reason_ctx.available_tools is not empty
    forceText,    \* reason_ctx.force_text
    nudges, truncs, limits,  \* consecutive nudges, truncations, rate limits
    dup,          \* DuplicateToolCallTracker: last fingerprint and count
    rec,          \* AutonomousRecoveryState
    batches       \* the tool batches run since the last answer, and whether all failed

counters == <<nudges, truncs, limits, dup, rec>>
ctxVars == <<forceText, offered>>
mailbox == <<mail, sent, read>>
vars == <<ctx, stopping, mailbox, at, iter, ctxVars, counters, batches>>

Stop == 0     \* WorkerMessage::Stop; a user message is its number
Running == {"plan", "signals", "llm", "respond", "tools"}
NoBatch == [calls |-> {}, failed |-> FALSE]

TypeOK ==
    /\ ctx \in JobState /\ stopping \in BOOLEAN
    /\ sent \in 0..MaxMessages /\ mail \in Seq(0..MaxMessages) /\ read \in Seq(1..MaxMessages)
    /\ at \in Running \cup {"ok", "error", "gone"}
    /\ iter \in 0..(MaxIterations + PlanLength)
    /\ offered \in BOOLEAN /\ forceText \in BOOLEAN
    /\ nudges \in 0..MaxNudges /\ truncs \in Nat /\ limits \in 0..MaxRateLimits
    /\ dup \in [last : SUBSET Batches, count : 0..MaxIterations]
    /\ rec \in [empties : 0..3, pending : BOOLEAN, active : BOOLEAN]
    /\ batches \in Seq([calls : SUBSET Batches, failed : BOOLEAN])
    \* A tool batch of the loop is chosen before it runs, and its outcome is unknown till then.
    /\ at = "tools" => batches # <<>> /\ ~batches[Len(batches)].failed
    \* The limit of rate limits ends the loop.
    /\ limits = MaxRateLimits => at \in {"error", "gone"}

NoRecovery == [empties |-> 0, pending |-> FALSE, active |-> FALSE]
NoRepeats == [last |-> {}, count |-> 0]

Init ==
    /\ ctx = "InProgress" /\ stopping = FALSE
    /\ mail = <<>> /\ sent = 0 /\ read = <<>>
    /\ at = IF PlanLength = 0 THEN "signals" ELSE "plan"
    /\ iter = 0 /\ offered = TRUE /\ forceText = FALSE
    /\ nudges = 0 /\ truncs = 0 /\ limits = 0
    /\ dup = NoRepeats /\ rec = NoRecovery /\ batches = <<>>

\* Mutant of Mark: the state is set whatever it was.
MarkAnyway(to) == ctx' = to

\* mark_completed and mark_failed: a move the job's state does not allow is an error.
Mark(to) == ctx' = TransitionTo(ctx, to)

(***************************************************************************)
(* execute_plan: one message is taken before each action, and Stop leaves  *)
(* the plan only.                                                          *)
(***************************************************************************)
EnterLoop(state) ==
    /\ at' = IF IsTerminal(state) \/ state \in {"Stuck", "Completed"} THEN "ok" ELSE "signals"
    /\ iter' = 0

\* Mutant of PlanMessage: the message that interrupts the plan stays in the channel.
PlanMessagePeeks ==
    /\ at = "plan" /\ iter < PlanLength /\ mail # <<>>
    /\ read' = IF Head(mail) = Stop THEN read ELSE Append(read, Head(mail))
    /\ EnterLoop(ctx)
    /\ UNCHANGED <<mail, ctx, stopping, sent, ctxVars, counters, batches>>

PlanMessage ==
    /\ at = "plan" /\ iter < PlanLength /\ mail # <<>>
    /\ mail' = Tail(mail)
    /\ read' = IF Head(mail) = Stop THEN read ELSE Append(read, Head(mail))
    /\ EnterLoop(ctx)
    /\ UNCHANGED <<ctx, stopping, sent, ctxVars, counters, batches>>

PlanAction ==
    /\ at = "plan" /\ iter < PlanLength /\ mail = <<>>
    /\ iter' = iter + 1
    /\ UNCHANGED <<ctx, stopping, mailbox, at, ctxVars, counters, batches>>

\* The model says whether the plan has done the job; mark_completed may fail.
PlanDone ==
    /\ at = "plan" /\ iter = PlanLength
    /\ \/ /\ Mark("Completed")
          /\ IF CanTransition(ctx, "Completed") THEN EnterLoop(ctx')
             ELSE at' = "error" /\ UNCHANGED iter
       \/ EnterLoop(ctx) /\ UNCHANGED ctx
       \/ at' = "error" /\ UNCHANGED <<ctx, iter>>
    /\ UNCHANGED <<stopping, mailbox, ctxVars, counters, batches>>

(***************************************************************************)
(* check_signals, and before_llm_call with the recovery's begin_iteration. *)
(***************************************************************************)
\* Mutant of BeginIteration: the text-only mode lasts for one iteration.
BeginIterationOnce(r) == [r EXCEPT !.pending = FALSE, !.active = r.pending]

BeginIteration(r) == IF r.pending THEN [r EXCEPT !.pending = FALSE, !.active = TRUE] ELSE r

StopRequested == \E i \in 1..Len(mail) : mail[i] = Stop

\* The next iteration, with `seen' put before the model.
Iterate(seen) ==
    /\ read' = read \o seen
    /\ iter' = iter + 1 /\ at' = "llm"
    /\ rec' = BeginIteration(rec) /\ offered' = ~BeginIteration(rec).active

\* The channel is drained; without a Stop in it, what it held was the user's, and the
\* first message is kept.
Signals ==
    /\ at = "signals" /\ iter < MaxIterations
    /\ mail' = <<>>
    /\ IF StopRequested
       THEN at' = "ok" /\ UNCHANGED <<read, iter, rec, offered>>
       ELSE IF mail # <<>>
       THEN Iterate(<<Head(mail)>>)
       ELSE IF ctx \in {"Cancelled", "Failed", "Completed", "Submitted", "Accepted"}
       THEN at' = "ok" /\ UNCHANGED <<read, iter, rec, offered>>
       ELSE Iterate(<<>>)
    /\ UNCHANGED <<ctx, stopping, sent, forceText, nudges, truncs, limits, dup, batches>>

\* LoopOutcome::MaxIterations; mark_failed may fail, and its error ends execution_loop.
LoopExhausted ==
    /\ at = "signals" /\ iter = MaxIterations
    /\ Mark("Failed") /\ at' = IF CanTransition(ctx, "Failed") THEN "ok" ELSE "error"
    /\ UNCHANGED <<stopping, mailbox, iter, ctxVars, counters, batches>>

(***************************************************************************)
(* call_llm: select_tools, which looks at the tools that are offered, then *)
(* respond_with_tools, which also looks at force_text.  The branches that  *)
(* ask for an earlier text answer are left out: the first one ends the     *)
(* loop.                                                                   *)
(***************************************************************************)
ModelFails ==
    /\ at \in {"llm", "respond"} /\ (at = "llm" => offered) /\ at' = "error"
    /\ UNCHANGED <<ctx, stopping, mailbox, iter, ctxVars, counters, batches>>

NextIteration == at' = "signals"

\* Mutant of LimitReached: one more attempt than the limit.
LimitPassed(n) == n > MaxRateLimits

LimitReached(n) == n >= MaxRateLimits

\* A rate limit counts as an empty text: it ends a streak of repeats, and nothing else.
RateLimited ==
    /\ at \in {"llm", "respond"} /\ (at = "llm" => offered)
    /\ limits' = limits + 1
    /\ IF LimitReached(limits')
       THEN Mark("Failed") /\ at' = "error" /\ UNCHANGED <<nudges, dup, batches>>
       ELSE /\ NextIteration /\ UNCHANGED ctx
            /\ nudges' = 0 /\ dup' = NoRepeats /\ batches' = <<>>
    /\ UNCHANGED <<stopping, mailbox, iter, ctxVars, truncs, rec>>

\* Tool calls that were not cut off: their counters, and the batch that runs next.
StartTools(calls) ==
    /\ at' = "tools"
    /\ nudges' = 0 /\ truncs' = 0 /\ limits' = 0 /\ rec' = NoRecovery
    /\ batches' = Append(batches, [calls |-> calls, failed |-> FALSE])
    /\ UNCHANGED dup

SelectTools ==
    /\ at = "llm" /\ offered
    /\ \E b \in Batches : StartTools({b})
    /\ UNCHANGED <<ctx, stopping, mailbox, iter, ctxVars>>

\* Without tools, with an empty selection or a truncated one.
SelectNothing ==
    /\ at = "llm" /\ at' = "respond"
    /\ UNCHANGED <<ctx, stopping, mailbox, iter, ctxVars, counters, batches>>

\* add_tokens: over the budget the job is marked as failed, and its answer is still used.
Budget ==
    \/ UNCHANGED ctx
    \/ CanTransition(ctx, "Failed") /\ Mark("Failed")

\* Over the budget, and the job cannot be marked: an error.
BudgetError ==
    /\ at = "respond" /\ ~CanTransition(ctx, "Failed") /\ at' = "error" /\ limits' = 0
    /\ UNCHANGED <<ctx, stopping, mailbox, iter, ctxVars, nudges, truncs, dup, rec, batches>>

ToolsAllowed == offered /\ ~forceText

RespondTools ==
    /\ at = "respond" /\ ToolsAllowed /\ Budget
    /\ \E b \in Batches : StartTools({b})
    /\ UNCHANGED <<stopping, mailbox, iter, ctxVars>>

\* finish_reason = Length: the calls are dropped, and nothing counts as answered.
RespondTruncated ==
    /\ at = "respond" /\ ToolsAllowed /\ Budget
    /\ truncs' = truncs + 1 /\ limits' = 0
    /\ forceText' = (truncs' >= Truncations)
    /\ NextIteration
    /\ UNCHANGED <<stopping, mailbox, iter, offered, nudges, dup, rec, batches>>

\* The model says what it wants to do instead of doing it.
RespondIntent ==
    /\ at = "respond" /\ Budget
    /\ ToolsAllowed /\ nudges < MaxNudges
    /\ nudges' = nudges + 1 /\ limits' = 0 /\ NextIteration
    /\ UNCHANGED <<stopping, mailbox, iter, ctxVars, truncs, dup, rec, batches>>

\* A text is an answer and completes the job; a refused mark_completed is only logged.
\* Without tools an empty answer counts as well, unless the recovery had asked for it.
RespondAnswer ==
    /\ at = "respond" /\ at' = "ok"
    /\ \E over \in BOOLEAN :
         /\ over => CanTransition(ctx, "Failed")
         /\ ctx' = TransitionTo(IF over THEN "Failed" ELSE ctx, "Completed")
    /\ UNCHANGED <<stopping, mailbox, iter, ctxVars, counters, batches>>

\* LoopOutcome::Failure, and mark_failed, whose error ends execution_loop.
GiveUp ==
    /\ Mark("Failed") /\ at' = IF CanTransition(ctx, "Failed") THEN "ok" ELSE "error"
    /\ UNCHANGED <<nudges, dup, batches>>

\* An empty answer where tools were offered: nudge, then ask for text only, then give up.
RespondMalformed ==
    /\ at = "respond" /\ ToolsAllowed
    /\ limits' = 0
    /\ rec' = [empties |-> rec.empties + 1, pending |-> rec.pending \/ rec.empties = 1, active |-> FALSE]
    /\ IF rec.empties >= 2 THEN GiveUp
       ELSE /\ NextIteration /\ Budget
            /\ nudges' = 0 /\ dup' = NoRepeats /\ batches' = <<>>
    /\ UNCHANGED <<stopping, mailbox, iter, ctxVars, truncs>>

\* An empty answer to the recovery's request for text.
RecoveryFails ==
    /\ at = "respond" /\ ~ToolsAllowed /\ rec.active
    /\ GiveUp /\ rec' = [rec EXCEPT !.active = FALSE]
    /\ UNCHANGED <<stopping, mailbox, iter, ctxVars, truncs, limits>>

(***************************************************************************)
(* execute_tool_calls, and the tracker of repeated failures.               *)
(***************************************************************************)
\* Mutant of Recorded: a batch that worked does not end the streak.
RecordedKeepsStreak(calls, failed) ==
    IF failed THEN IF dup.last = calls THEN [dup EXCEPT !.count = @ + 1] ELSE [last |-> calls, count |-> 1]
    ELSE dup

Recorded(calls, failed) ==
    IF failed /\ dup.last = calls THEN [dup EXCEPT !.count = @ + 1]
    ELSE [last |-> calls, count |-> IF failed THEN 1 ELSE 0]

RunTools ==
    /\ at = "tools" /\ NextIteration
    /\ \E failed \in BOOLEAN :
         /\ batches' = [batches EXCEPT ![Len(batches)].failed = failed]
         /\ dup' = Recorded(batches[Len(batches)].calls, failed)
    /\ forceText' = (forceText \/ dup'.count >= ForceTextAt)
    /\ UNCHANGED <<ctx, stopping, mailbox, iter, offered, nudges, truncs, limits, rec>>

(***************************************************************************)
(* The end of Worker::run, and what the rest of the system does meanwhile. *)
(***************************************************************************)
\* The receiver is dropped with what is in it.
Leave == at' = "gone" /\ mail' = <<>>

Return ==
    /\ at \in {"ok", "error"} /\ Leave
    /\ \/ at = "ok" /\ (IF ctx = "Stuck" THEN UNCHANGED ctx ELSE Mark("Completed"))
       \/ at = "error" /\ Mark("Failed")
    /\ UNCHANGED <<stopping, sent, read, iter, ctxVars, counters, batches>>

Timeout ==
    /\ at \in Running /\ Leave /\ Mark("Stuck")
    /\ UNCHANGED <<stopping, sent, read, iter, ctxVars, counters, batches>>

\* Scheduler::send_message; the sender may have been cloned before stop() took the entry.
UserSends ==
    /\ at # "gone" /\ sent < MaxMessages
    /\ sent' = sent + 1 /\ mail' = Append(mail, sent')
    /\ UNCHANGED <<ctx, stopping, read, at, iter, ctxVars, counters, batches>>

SendStop ==
    /\ at # "gone" /\ ~stopping
    /\ stopping' = TRUE /\ mail' = Append(mail, Stop)
    /\ UNCHANGED <<ctx, sent, read, at, iter, ctxVars, counters, batches>>

\* 100 ms later stop() aborts the task wherever it waits, and cancels the job.
Abort ==
    /\ stopping /\ Leave /\ Mark("Cancelled") /\ stopping' = FALSE
    /\ UNCHANGED <<sent, read, iter, ctxVars, counters, batches>>

\* Self-repair and a cancel that does not go through the scheduler.
Outside ==
    /\ at # "gone"
    /\ \/ ctx = "InProgress" /\ Mark("Stuck")
       \/ ctx = "Stuck" /\ (Mark("InProgress") \/ Mark("Failed"))
       \/ CanTransition(ctx, "Cancelled") /\ Mark("Cancelled")
    /\ UNCHANGED <<stopping, mailbox, at, iter, ctxVars, counters, batches>>

(***************************************************************************)
(* Specification.                                                          *)
(***************************************************************************)
PlanStep == PlanMessage \/ PlanAction \/ PlanDone
ModelStep ==
    \/ SelectTools \/ SelectNothing \/ ModelFails \/ RateLimited
    \/ RespondTools \/ RespondTruncated \/ RespondIntent \/ RespondAnswer
    \/ RespondMalformed \/ RecoveryFails \/ BudgetError
LoopStep == Signals \/ LoopExhausted \/ ModelStep \/ RunTools

WorkerStep == PlanStep \/ LoopStep \/ Return
Next == WorkerStep \/ Timeout \/ UserSends \/ SendStop \/ Abort \/ Outside

Spec == Init /\ [][Next]_vars

(***************************************************************************)
(* Properties.                                                             *)
(***************************************************************************)
\* After two malformed answers the model gets no tools until it has answered in text,
\* whatever rate limits and user messages come between; so the third strike never comes
\* (AutonomousRecoveryState).
TextOnlyAfterTwo ==
    /\ rec.empties <= 2
    /\ rec.empties = 2 /\ at \in {"llm", "respond"} => ~offered

\* The tracker counts exactly the tool batches at the end of the current streak that were the
\* same and all failed (DuplicateToolCallTracker::record_with_fingerprint).
Streak(k) ==
    \A i \in 0..(k - 1) : LET b == batches[Len(batches) - i] IN
        b.failed /\ b.calls = batches[Len(batches)].calls
TrackerCountsRepeats ==
    at = "signals" => /\ dup.count <= Len(batches) /\ Streak(dup.count)
                      /\ dup.count < Len(batches) => ~Streak(dup.count + 1)

\* The model reads each user message at most once and in the order they were sent, across
\* the plan and the loop that both take from the channel (execute_plan, check_signals).  One that the
\* worker leaves in the channel is lost, of which this says nothing.
ReadInOrder == \A i, k \in 1..Len(read) : i < k => read[i] < read[k]

\* Whatever the model answers and whoever interferes, the worker's steps are steps of the
\* abstract job: it is completed by its worker alone and while it has not left, and is over
\* for good (execution_loop, mark_completed, mark_failed; JobScheduler leaves the loop out).
Job == 0
Lifecycle == INSTANCE JobLifecycle
    WITH Jobs <- {Job}, MaxJobs <- 1, MaxParallel <- 1,
         phase <- [j \in {Job} |-> Phase(ctx)], busy <- IF at = "gone" THEN {} ELSE {Job}
StepsAreOfLifecycle == [][Lifecycle!Next]_(Lifecycle!vars)
=============================================================================
