------------------------- MODULE JobSchedulerProofs -------------------------
(***************************************************************************)
(* TLAPS proofs about JobScheduler, for every set of jobs, every limit and *)
(* every number of help commands.                                          *)
(***************************************************************************)
EXTENDS JobScheduler, FiniteSetTheorems, TLAPS

\* What every move of the state machine respects: it starts in a state that
\* is not terminal and never gives a job its parallel slot back.
LEMMA MoveFacts ==
    ASSUME NEW s, NEW t, CanTransition(s, t)
    PROVE  /\ s # "Absent" /\ ~IsTerminal(s)
           /\ t \in JobState
           /\ IsParallelBlocking(t) => IsParallelBlocking(s)
BY DEF CanTransition, Successors, IsTerminal, IsParallelBlocking, JobState

\* A set with at most one element more than another.
LEMMA OneMore ==
    ASSUME NEW S, IsFiniteSet(S), NEW x, NEW T \in SUBSET (S \cup {x})
    PROVE  Cardinality(T) \in Nat /\ Cardinality(T) <= Cardinality(S) + 1
<1>1. IsFiniteSet(S \cup {x}) /\ Cardinality(S) \in Nat
    BY FS_AddElement, FS_CardinalityType
<1>2. Cardinality(S \cup {x}) = IF x \in S THEN Cardinality(S) ELSE Cardinality(S) + 1
    BY FS_AddElement
<1>3. Cardinality(T) <= Cardinality(S \cup {x}) /\ Cardinality(T) \in Nat
    BY <1>1, FS_Subset, FS_CardinalityType
<1> QED BY <1>1, <1>2, <1>3

\* Updating one job's one generation in worker or cleaner.
LEMMA NestedUpdate ==
    ASSUME NEW S, NEW T, NEW V, NEW f \in [S -> [T -> V]], NEW a \in S, NEW b \in T, NEW v \in V
    PROVE  /\ [f EXCEPT ![a][b] = v] \in [S -> [T -> V]]
           /\ \A x \in S, y \in T :
                 [f EXCEPT ![a][b] = v][x][y] = IF x = a /\ y = b THEN v ELSE f[x][y]
OBVIOUS

USE DEF ctxVars, callVars, schedVars, repairVars, dbVars

(***************************************************************************)
(* Frames: which steps touch which part of the state.                      *)
(***************************************************************************)
MarkStep(j, g) ==
    \/ WorkerAnswer(j, g) \/ WorkerFail(j, g) \/ WorkerBudget(j, g)
    \/ WorkerTimeout(j, g) \/ WorkerReturn(j, g)

CtxChange(j) ==
    \/ CreateJob(j)
    \/ \E who \in {"dispatch", "help"} : ScheduleCommit(who, j)
    \/ \E g \in Gens : MarkStep(j, g)
    \/ StopEnd(j) \/ CancelTool(j) \/ HelpJob(j)
    \/ RepairInspect(j) \/ RepairJob(j)
    \/ TickStarted(j) \/ TickStuck(j)

CallChange(j) ==
    \/ CreateJob(j) \/ SaveJob(j)
    \/ \E who \in {"dispatch", "help"} : ScheduleCheck(who, j) \/ ScheduleCommit(who, j)
    \/ RequestCancel(j) \/ RequestStopAll(j) \/ StopBegin(j) \/ StopEnd(j)
    \/ CancelPersist(j) \/ HelpJob(j)

SchedChange(j) ==
    \/ \E who \in {"dispatch", "help"} : ScheduleCheck(who, j) \/ ScheduleCommit(who, j)
    \/ StopBegin(j) \/ StopEnd(j)
    \/ \E g \in Gens : WorkerStep(j, g) \/ CleanupPoll(j, g) \/ CleanupRemove(j, g)

DbChange(j) ==
    \/ SaveJob(j) \/ StopEnd(j) \/ CancelPersist(j)
    \/ \E g \in Gens : MarkStep(j, g)
    \/ \E s \in JobState : DbWrite(j, s)

\* A step that is not in CtxChange leaves the contexts alone.
LEMMA CtxFrame ==
    ASSUME [Next]_vars, ~ \E j \in Jobs : CtxChange(j)
    PROVE  UNCHANGED ctxVars
BY DEF Next, vars, CallStep, TaskStep, WorkerStep, CtxChange, MarkStep, SaveJob, ScheduleCheck,
       RequestCancel, RequestStopAll, StopBegin, CancelPersist, WorkerStart, WorkerSignal,
       CleanupPoll, CleanupRemove, RepairScan, DbWrite

\* A step that is not in CallChange leaves the calls in flight alone.
LEMMA CallFrame ==
    ASSUME [Next]_vars, ~ \E j \in Jobs : CallChange(j)
    PROVE  UNCHANGED callVars
BY DEF Next, vars, CallStep, TaskStep, WorkerStep, CallChange, CancelTool, WorkerStart, WorkerSignal,
       WorkerAnswer, WorkerFail, WorkerBudget, WorkerTimeout, WorkerReturn, CleanupPoll,
       CleanupRemove, RepairScan, RepairInspect, RepairJob, TickStarted, TickStuck, DbWrite

\* A step that is not in SchedChange leaves the scheduler and the workers alone.
LEMMA SchedFrame ==
    ASSUME [Next]_vars, ~ \E j \in Jobs : SchedChange(j)
    PROVE  UNCHANGED schedVars /\ UNCHANGED worker
BY DEF Next, vars, CallStep, TaskStep, SchedChange, CreateJob, SaveJob, RequestCancel, RequestStopAll,
       CancelPersist, CancelTool, HelpJob, RepairScan, RepairInspect, RepairJob, TickStarted,
       TickStuck, DbWrite

\* A step that is not in DbChange leaves the table and the spawned writes alone.
LEMMA DbFrame ==
    ASSUME [Next]_vars, ~ \E j \in Jobs : DbChange(j)
    PROVE  UNCHANGED dbVars
BY DEF Next, vars, CallStep, TaskStep, WorkerStep, DbChange, MarkStep, CreateJob, ScheduleCheck,
       ScheduleCommit, RequestCancel, RequestStopAll, StopBegin, CancelTool, HelpJob, WorkerStart,
       WorkerSignal, CleanupPoll, CleanupRemove, RepairScan, RepairInspect, RepairJob,
       TickStarted, TickStuck

\* A step that is none of its three leaves the repair task alone.
LEMMA RepairFrame ==
    ASSUME [Next]_vars, ~RepairScan, ~ \E j \in Jobs : RepairInspect(j) \/ RepairJob(j)
    PROVE  UNCHANGED repairVars
BY DEF Next, vars, CallStep, TaskStep, WorkerStep, CreateJob, SaveJob, ScheduleCheck,
       ScheduleCommit, RequestCancel, RequestStopAll, StopBegin, StopEnd, CancelPersist, CancelTool,
       HelpJob, WorkerStart, WorkerSignal, WorkerAnswer, WorkerFail, WorkerBudget, WorkerTimeout,
       WorkerReturn, CleanupPoll, CleanupRemove, TickStarted, TickStuck, DbWrite

(***************************************************************************)
(* Contexts: every step moves at most one context, along the state machine *)
(* or from nothing to Pending.                                             *)
(***************************************************************************)
Moves(j) ==
    \E t : /\ ctx' = [ctx EXCEPT ![j] = t]
           /\ \/ t = ctx[j]
              \/ CanTransition(ctx[j], t)
              \/ /\ disp[j] = "idle" /\ CreateAdmits /\ t = "Pending"
                 /\ disp' = [disp EXCEPT ![j] = "created"]

\* A step of CtxChange for job j moves only j, and only as Moves allows.
LEMMA CtxChangeMoves ==
    ASSUME CtxTypeOK, NEW j \in Jobs, CtxChange(j)
    PROVE  Moves(j)
<1> USE DEF CtxTypeOK, Moves
<1>1. CASE CreateJob(j)
    BY <1>1 DEF CreateJob
<1>2. ASSUME NEW who \in {"dispatch", "help"}, ScheduleCommit(who, j) PROVE Moves(j)
    BY <1>2 DEF ScheduleCommit, SetState
<1>3. ASSUME NEW g \in Gens, MarkStep(j, g) PROVE Moves(j)
    BY <1>3 DEF MarkStep, WorkerAnswer, WorkerFail, WorkerBudget, WorkerTimeout, WorkerReturn, Mark, SetState
<1>4. CASE StopEnd(j)
    BY <1>4 DEF StopEnd, TransitionTo
<1>5. CASE CancelTool(j)
    BY <1>5 DEF CancelTool, SetState
<1>6. CASE HelpJob(j)
    BY <1>6 DEF HelpJob, AttemptRecovery, CanTransition, Successors
<1>7. CASE RepairInspect(j)
    BY <1>7 DEF RepairInspect, SetState, CanTransition, Successors
<1>8. CASE RepairJob(j)
    BY <1>8 DEF RepairJob, AttemptRecovery, TransitionTo, CanTransition, Successors
<1>9. CASE TickStarted(j) \/ TickStuck(j)
    BY <1>9 DEF TickStarted, TickStuck
<1> QED BY <1>1, <1>2, <1>3, <1>4, <1>5, <1>6, <1>7, <1>8, <1>9 DEF CtxChange

LEMMA StepCtxType == CtxTypeOK /\ [Next]_vars => CtxTypeOK'
<1> SUFFICES ASSUME CtxTypeOK, [Next]_vars PROVE CtxTypeOK'
    OBVIOUS
<1>1. CASE ~ \E j \in Jobs : CtxChange(j)
    BY <1>1, CtxFrame DEF CtxTypeOK
<1>2. ASSUME NEW j \in Jobs, CtxChange(j) PROVE CtxTypeOK'
    <2>1. ctx' \in [Jobs -> JobState \cup {"Absent"}]
        BY <1>2, CtxChangeMoves, MoveFacts DEF Moves, CtxTypeOK, JobState
    <2>2. repair' \in [Jobs -> Nat] /\ aged' \in SUBSET Jobs /\ longStuck' \in SUBSET Jobs
        BY <1>2 DEF CtxTypeOK, CtxChange, MarkStep, CreateJob, ScheduleCommit, WorkerAnswer, WorkerFail,
            WorkerBudget, WorkerTimeout, WorkerReturn, Mark, SetState, StopEnd, CancelTool, HelpJob,
            RepairInspect, RepairJob, AttemptRecovery, TickStarted, TickStuck
    <2>3. been' \in [Jobs -> SUBSET Outcomes]
        BY <1>2 DEF CtxTypeOK, CtxChange, MarkStep, CreateJob, ScheduleCommit, WorkerAnswer, WorkerFail,
            WorkerBudget, WorkerTimeout, WorkerReturn, Mark, SetState, StopEnd, CancelTool, HelpJob,
            RepairInspect, RepairJob, TickStarted, TickStuck, Remember
    <2> QED BY <2>1, <2>2, <2>3 DEF CtxTypeOK
<1> QED BY <1>1, <1>2

LEMMA StepCallType == CallTypeOK /\ [Next]_vars => CallTypeOK'
<1> SUFFICES ASSUME CallTypeOK, [Next]_vars PROVE CallTypeOK'
    OBVIOUS
<1> USE DEF CallTypeOK
<1>1. CASE ~ \E j \in Jobs : CallChange(j)
    BY <1>1, CallFrame
<1>2. ASSUME NEW j \in Jobs, CallChange(j) PROVE CallTypeOK'
    <2>1. CASE CreateJob(j) \/ SaveJob(j)
        BY <2>1 DEF CreateJob, SaveJob
    <2>2. ASSUME NEW who \in {"dispatch", "help"}, ScheduleCheck(who, j) \/ ScheduleCommit(who, j)
          PROVE  CallTypeOK'
        BY <2>2 DEF ScheduleCheck, ScheduleCommit, CallerReturns
    <2>3. CASE RequestCancel(j) \/ RequestStopAll(j) \/ CancelPersist(j)
        BY <2>3 DEF RequestCancel, RequestStopAll, CancelPersist
    <2>4. CASE StopBegin(j) \/ StopEnd(j)
        BY <2>4 DEF StopBegin, StopEnd, AfterStop
    <2>5. CASE HelpJob(j)
        BY <2>5, LimitsAssumption DEF HelpJob, LimitsAssumption
    <2> QED BY <1>2, <2>1, <2>2, <2>3, <2>4, <2>5 DEF CallChange
<1> QED BY <1>1, <1>2

LEMMA StepRepairType == CtxTypeOK /\ RepairTypeOK /\ [Next]_vars => RepairTypeOK'
<1> SUFFICES ASSUME CtxTypeOK, RepairTypeOK, [Next]_vars PROVE RepairTypeOK'
    OBVIOUS
<1> USE DEF CtxTypeOK, RepairTypeOK
<1>1. CASE RepairScan
    BY <1>1 DEF RepairScan, FoundStuck
<1>2. ASSUME NEW j \in Jobs, RepairInspect(j) PROVE RepairTypeOK'
    BY <1>2 DEF RepairInspect
<1>3. ASSUME NEW j \in Jobs, RepairJob(j) PROVE RepairTypeOK'
    BY <1>3 DEF RepairJob
<1> QED BY <1>1, <1>2, <1>3, RepairFrame

LEMMA StepDbType == DbTypeOK /\ [Next]_vars => DbTypeOK'
<1> SUFFICES ASSUME DbTypeOK, [Next]_vars PROVE DbTypeOK'
    OBVIOUS
<1> USE DEF DbTypeOK
<1>1. CASE ~ \E j \in Jobs : DbChange(j)
    BY <1>1, DbFrame
<1>2. ASSUME NEW j \in Jobs, DbChange(j) PROVE DbTypeOK'
    <2>1. CASE SaveJob(j) \/ CancelPersist(j)
        BY <2>1 DEF SaveJob, CancelPersist, Store, JobState
    <2>2. CASE StopEnd(j)
        BY <2>2 DEF StopEnd, Spawned, JobState
    <2>3. ASSUME NEW g \in Gens, MarkStep(j, g) PROVE DbTypeOK'
        BY <2>3 DEF MarkStep, WorkerAnswer, WorkerFail, WorkerBudget, WorkerTimeout, WorkerReturn, Mark, Spawned, JobState
    <2>4. ASSUME NEW s \in JobState, DbWrite(j, s) PROVE DbTypeOK'
        BY <2>4 DEF DbWrite, Store
    <2> QED BY <1>2, <2>1, <2>2, <2>3, <2>4 DEF DbChange
<1> QED BY <1>1, <1>2

(***************************************************************************)
(* Calls in flight.  A job that was never dispatched has no context and no *)
(* help command; the holder of the jobs lock is still inside its call; and *)
(* every worker generation is paid for by one call of schedule, of which   *)
(* there are at most 1 + helps[j].                                         *)
(***************************************************************************)
IdleInv == \A j \in Jobs : disp[j] = "idle" => ctx[j] = "Absent" /\ help[j] = "idle"

HolderInv ==
    \A j \in Jobs :
        /\ lock = Held("dispatch", j, 0) => disp[j] = "saved"
        /\ lock = Held("help", j, 0) => help[j] = "resched"

DispatchDue(j) == IF disp[j] = "done" THEN 0 ELSE 1
HelpDue(j) == IF help[j] = "resched" THEN 1 ELSE 0
GenInv == \A j \in Jobs : gen[j] + DispatchDue(j) + HelpDue(j) <= 1 + helps[j]

LEMMA StepLockType == LockTypeOK /\ SchedTypeOK /\ [Next]_vars => LockTypeOK'
<1> SUFFICES ASSUME LockTypeOK, SchedTypeOK, [Next]_vars PROVE LockTypeOK'
    OBVIOUS
<1> USE DEF LockTypeOK
<1>1. CASE ~ \E j \in Jobs : SchedChange(j)
    BY <1>1, SchedFrame
<1>2. ASSUME NEW j \in Jobs, SchedChange(j) PROVE LockTypeOK'
    <2>1. ASSUME NEW who \in {"dispatch", "help"}, ScheduleCheck(who, j) \/ ScheduleCommit(who, j)
          PROVE  LockTypeOK'
        BY <2>1 DEF ScheduleCheck, ScheduleCommit
    <2>2. CASE StopBegin(j) \/ StopEnd(j)
        BY <2>2 DEF StopBegin, StopEnd, SchedTypeOK
    <2>3. ASSUME NEW g \in Gens, WorkerStep(j, g) \/ CleanupPoll(j, g) \/ CleanupRemove(j, g)
          PROVE  LockTypeOK'
        BY <2>3 DEF WorkerStep, WorkerStart, WorkerSignal, WorkerAnswer, WorkerFail, WorkerBudget,
            WorkerTimeout, WorkerReturn, CleanupPoll, CleanupRemove
    <2> QED BY <1>2, <2>1, <2>2, <2>3 DEF SchedChange
<1> QED BY <1>1, <1>2

\* Two holders that are equal agree on operation, job and generation.
LEMMA HeldInjective ==
    \A op, op2, j, j2, g, g2 :
        /\ Held(op, j, g) = Held(op2, j2, g2) => op = op2 /\ j = j2 /\ g = g2
        /\ op # "none" => Held(op, j, g) # Free
BY DEF Held, Free

LEMMA StepIdleInv ==
    ASSUME CtxTypeOK, CallTypeOK, IdleInv, [Next]_vars
    PROVE  IdleInv'
<1> SUFFICES ASSUME NEW i \in Jobs, disp'[i] = "idle" PROVE ctx'[i] = "Absent" /\ help'[i] = "idle"
    BY DEF IdleInv
<1>1. disp[i] = "idle" /\ (help'[i] = help[i] \/ ctx[i] = "Stuck")
    <2>1. CASE ~ \E j \in Jobs : CallChange(j)
        BY <2>1, CallFrame
    <2>2. ASSUME NEW j \in Jobs, CallChange(j) PROVE disp[i] = "idle" /\ (help'[i] = help[i] \/ ctx[i] = "Stuck")
        <3>1. CASE CreateJob(j) \/ SaveJob(j)
            BY <3>1 DEF CreateJob, SaveJob, CallTypeOK
        <3>2. ASSUME NEW who \in {"dispatch", "help"}, ScheduleCheck(who, j) \/ ScheduleCommit(who, j)
              PROVE  disp[i] = "idle" /\ (help'[i] = help[i] \/ help'[i] = "idle")
            BY <3>2 DEF ScheduleCheck, ScheduleCommit, CallerReturns, CallTypeOK
        <3>3. CASE RequestCancel(j) \/ RequestStopAll(j) \/ StopBegin(j) \/ StopEnd(j) \/ CancelPersist(j)
            BY <3>3 DEF RequestCancel, RequestStopAll, StopBegin, StopEnd, CancelPersist
        <3>4. CASE HelpJob(j)
            BY <3>4 DEF HelpJob, CallTypeOK
        <3> QED BY <2>2, <3>1, <3>2, <3>3, <3>4 DEF CallChange, IdleInv
    <2> QED BY <2>1, <2>2
<1>2. ctx[i] = "Absent" /\ help'[i] = "idle"
    BY <1>1 DEF IdleInv
<1>3. ctx'[i] = "Absent"
    <2>1. CASE ~ \E j \in Jobs : CtxChange(j)
        BY <1>2, <2>1, CtxFrame
    <2>2. ASSUME NEW j \in Jobs, CtxChange(j) PROVE ctx'[i] = "Absent"
        BY <1>2, <2>2, CtxChangeMoves, MoveFacts DEF Moves, CtxTypeOK, CallTypeOK
    <2> QED BY <2>1, <2>2
<1> QED BY <1>2, <1>3

LEMMA StepHolderInv ==
    ASSUME CallTypeOK, LockTypeOK, HolderInv, [Next]_vars
    PROVE  HolderInv'
<1> USE DEF HolderInv
<1>1. CASE ~ \E j \in Jobs : CallChange(j)
    <2>1. UNCHANGED callVars
        BY <1>1, CallFrame
    <2>2. UNCHANGED lock
        <3>1. CASE ~ \E j \in Jobs : SchedChange(j)
            BY <3>1, SchedFrame
        <3>2. ASSUME NEW j \in Jobs, SchedChange(j) PROVE UNCHANGED lock
            BY <1>1, <3>2 DEF SchedChange, CallChange, WorkerStep, WorkerStart, WorkerSignal, WorkerAnswer,
                WorkerFail, WorkerBudget, WorkerTimeout, WorkerReturn, CleanupPoll, CleanupRemove
        <3> QED BY <3>1, <3>2
    <2> QED BY <2>1, <2>2
<1>2. ASSUME NEW j \in Jobs, CallChange(j) PROVE HolderInv'
    <2> SUFFICES ASSUME NEW i \in Jobs
                 PROVE  /\ lock' = Held("dispatch", i, 0) => disp'[i] = "saved"
                        /\ lock' = Held("help", i, 0) => help'[i] = "resched"
        OBVIOUS
    <2>1. CASE CreateJob(j) \/ SaveJob(j) \/ HelpJob(j)
        BY <2>1 DEF CreateJob, SaveJob, HelpJob, CallTypeOK
    <2>2. ASSUME NEW who \in {"dispatch", "help"}, ScheduleCheck(who, j)
          PROVE  /\ lock' = Held("dispatch", i, 0) => disp'[i] = "saved"
                 /\ lock' = Held("help", i, 0) => help'[i] = "resched"
        BY <2>2, HeldInjective DEF ScheduleCheck, CallerWaits
    <2>3. ASSUME NEW who \in {"dispatch", "help"}, ScheduleCommit(who, j)
          PROVE  /\ lock' # Held("dispatch", i, 0)
                 /\ lock' # Held("help", i, 0)
        BY <2>3, HeldInjective DEF ScheduleCommit
    <2>4. CASE RequestCancel(j) \/ RequestStopAll(j) \/ CancelPersist(j)
        BY <2>4 DEF RequestCancel, RequestStopAll, CancelPersist
    <2>5. CASE StopBegin(j) \/ StopEnd(j)
        BY <2>5, HeldInjective DEF StopBegin, StopEnd
    <2> QED BY <1>2, <2>1, <2>2, <2>3, <2>4, <2>5 DEF CallChange
<1> QED BY <1>1, <1>2

\* Only ScheduleCommit spawns workers.
LEMMA GenFrame ==
    ASSUME [Next]_vars,
           ~ \E j \in Jobs : \E who \in {"dispatch", "help"} : ScheduleCommit(who, j)
    PROVE  UNCHANGED gen
<1>1. CASE ~ \E j \in Jobs : SchedChange(j)
    BY <1>1, SchedFrame
<1>2. ASSUME NEW j \in Jobs, SchedChange(j) PROVE UNCHANGED gen
    BY <1>2 DEF SchedChange, ScheduleCheck, StopBegin, StopEnd, WorkerStep, WorkerStart, WorkerSignal,
        WorkerAnswer, WorkerFail, WorkerBudget, WorkerTimeout, WorkerReturn, CleanupPoll, CleanupRemove
<1> QED BY <1>1, <1>2

LEMMA StepGenInv ==
    ASSUME CallTypeOK, SchedTypeOK, IdleInv, HolderInv, GenInv, [Next]_vars
    PROVE  GenInv'
<1> DEFINE P(i) == gen[i] + DispatchDue(i) + HelpDue(i) <= 1 + helps[i]
<1> SUFFICES ASSUME NEW i \in Jobs PROVE P(i)'
    BY DEF GenInv
<1>0. P(i)
    BY DEF GenInv
<1>1. gen[i] \in Int /\ helps[i] \in Int
    BY LimitsAssumption DEF LimitsAssumption, SchedTypeOK, CallTypeOK, Gens
<1> USE DEF DispatchDue, HelpDue
<1>2. ASSUME NEW j \in Jobs, NEW who \in {"dispatch", "help"}, ScheduleCommit(who, j) PROVE P(i)'
    <2>1. UNCHANGED helps /\ CallerReturns(who, j) /\ lock = Held(who, j, 0)
        BY <1>2 DEF ScheduleCommit
    <2>2. gen' = gen \/ gen' = [gen EXCEPT ![j] = gen[j] + 1]
        BY <1>2 DEF ScheduleCommit, SpawnWorker
    <2>3. CASE i = j /\ who = "dispatch"
        <3>1. disp[i] = "saved" /\ disp'[i] = "done" /\ help' = help
            BY <2>1, <2>3 DEF CallerReturns, HolderInv, CallTypeOK
        <3> QED BY <1>0, <1>1, <2>1, <2>2, <2>3, <3>1 DEF SchedTypeOK
    <2>4. CASE i = j /\ who = "help"
        <3>1. help[i] = "resched" /\ help'[i] = "idle" /\ disp' = disp
            BY <2>1, <2>4 DEF CallerReturns, HolderInv, CallTypeOK
        <3> QED BY <1>0, <1>1, <2>1, <2>2, <2>4, <3>1 DEF SchedTypeOK
    <2>5. CASE i # j
        <3>1. disp'[i] = disp[i] /\ help'[i] = help[i] /\ gen'[i] = gen[i]
            BY <2>1, <2>2, <2>5 DEF CallerReturns, CallTypeOK, SchedTypeOK
        <3> QED BY <1>0, <2>1, <3>1
    <2> QED BY <2>3, <2>4, <2>5
<1>3. CASE ~ \E j \in Jobs : \E who \in {"dispatch", "help"} : ScheduleCommit(who, j)
    <2>1. gen' = gen
        BY <1>3, GenFrame
    <2>2. CASE ~ \E j \in Jobs : CallChange(j)
        BY <1>0, <2>1, <2>2, CallFrame
    <2>3. ASSUME NEW j \in Jobs, CallChange(j) PROVE P(i)'
        <3>1. CASE CreateJob(j) \/ SaveJob(j)
            BY <1>0, <1>1, <2>1, <3>1 DEF CreateJob, SaveJob, CallTypeOK
        <3>2. ASSUME NEW who \in {"dispatch", "help"}, ScheduleCheck(who, j) PROVE P(i)'
            BY <1>0, <1>1, <2>1, <3>2 DEF ScheduleCheck, CallerReturns, CallTypeOK
        <3>3. CASE RequestCancel(j) \/ RequestStopAll(j) \/ StopBegin(j) \/ StopEnd(j) \/ CancelPersist(j)
            BY <1>0, <2>1, <3>3 DEF RequestCancel, RequestStopAll, StopBegin, StopEnd, CancelPersist
        <3>4. CASE HelpJob(j)
            BY <1>0, <1>1, <2>1, <3>4 DEF HelpJob, CallTypeOK
        <3> QED BY <1>3, <2>3, <3>1, <3>2, <3>3, <3>4 DEF CallChange
    <2> QED BY <2>2, <2>3
<1> QED BY <1>2, <1>3

\* schedule has a generation left whenever it spawns a worker.
LEMMA NextGen ==
    ASSUME CallTypeOK, SchedTypeOK, HolderInv, GenInv,
           NEW j \in Jobs, NEW who \in {"dispatch", "help"}, lock = Held(who, j, 0)
    PROVE  gen[j] + 1 \in Gens
<1>1. gen[j] \in Nat /\ helps[j] \in Nat /\ helps[j] <= MaxHelps /\ MaxHelps \in Nat
    BY LimitsAssumption DEF LimitsAssumption, SchedTypeOK, CallTypeOK, Gens
<1>2. gen[j] + DispatchDue(j) + HelpDue(j) <= 1 + helps[j]
    BY DEF GenInv
<1>3. DispatchDue(j) = 1 \/ HelpDue(j) = 1
    BY DEF HolderInv, DispatchDue, HelpDue
<1>4. DispatchDue(j) \in {0, 1} /\ HelpDue(j) \in {0, 1}
    BY DEF DispatchDue, HelpDue
<1> QED BY <1>1, <1>2, <1>3, <1>4 DEF Gens

LEMMA StepSchedType ==
    ASSUME CallTypeOK, LockTypeOK, SchedTypeOK, HolderInv, GenInv, [Next]_vars
    PROVE  SchedTypeOK'
<1>1. CASE ~ \E j \in Jobs : SchedChange(j)
    BY <1>1, SchedFrame DEF SchedTypeOK
<1>2. ASSUME NEW j \in Jobs, SchedChange(j) PROVE SchedTypeOK'
    <2>1. ASSUME NEW who \in {"dispatch", "help"}, ScheduleCheck(who, j) PROVE SchedTypeOK'
        BY <2>1 DEF ScheduleCheck, SchedTypeOK
    <2>2. ASSUME NEW who \in {"dispatch", "help"}, ScheduleCommit(who, j) PROVE SchedTypeOK'
        <3>1. gen[j] + 1 \in Gens
            BY <2>2, NextGen DEF ScheduleCommit
        <3>2. CASE SpawnWorker(j)
            <4>1. entry' \in [Jobs -> {0} \cup Gens] /\ gen' \in [Jobs -> {0} \cup Gens]
                BY <3>1, <3>2 DEF SpawnWorker, SchedTypeOK
            <4>2. worker' \in [Jobs -> [Gens -> LiveStates \cup {"none", "finished"}]]
                BY <3>1, <3>2 DEF SpawnWorker, SchedTypeOK, LiveStates
            <4>3. cleaner' \in [Jobs -> [Gens -> {"none", "poll", "remove"}]]
                BY <3>1, <3>2 DEF SpawnWorker, SchedTypeOK
            <4> QED BY <4>1, <4>2, <4>3 DEF SchedTypeOK
        <3> QED BY <2>2, <3>2 DEF ScheduleCommit, SchedTypeOK
    <2>3. CASE StopBegin(j)
        <3> QED BY <2>3 DEF StopBegin, SchedTypeOK
    <2>4. CASE StopEnd(j)
        <3>1. lock.gen \in Gens
            BY <2>4, HeldInjective DEF StopEnd, LockTypeOK
        <3> QED BY <2>4, <3>1 DEF StopEnd, SchedTypeOK, Goto
    <2>5. ASSUME NEW g \in Gens, WorkerStep(j, g) PROVE SchedTypeOK'
        <3>1. UNCHANGED schedVars
            BY <2>5 DEF WorkerStep, WorkerStart, WorkerSignal, WorkerAnswer,
                WorkerFail, WorkerBudget, WorkerTimeout, WorkerReturn
        <3>2. UNCHANGED worker \/ \E pc \in LiveStates \cup {"finished"} : Goto(j, g, pc)
            BY <2>5 DEF WorkerStep, WorkerStart, WorkerSignal, WorkerAnswer,
                WorkerFail, WorkerBudget, WorkerTimeout, WorkerReturn, LiveStates
        <3>3. worker' \in [Jobs -> [Gens -> LiveStates \cup {"none", "finished"}]]
            <4>1. worker \in [Jobs -> [Gens -> LiveStates \cup {"none", "finished"}]]
                BY DEF SchedTypeOK
            <4> QED BY <3>2, <4>1 DEF Goto
        <3> QED BY <3>1, <3>3 DEF SchedTypeOK
    <2>6. ASSUME NEW g \in Gens, CleanupPoll(j, g) \/ CleanupRemove(j, g) PROVE SchedTypeOK'
        <3>1. cleaner' \in [Jobs -> [Gens -> {"none", "poll", "remove"}]]
            <4>1. cleaner \in [Jobs -> [Gens -> {"none", "poll", "remove"}]]
                BY DEF SchedTypeOK
            <4>2. \E pc \in {"none", "remove"} : cleaner' = [cleaner EXCEPT ![j][g] = pc]
                BY <2>6 DEF CleanupPoll, CleanupRemove
            <4> QED BY <4>1, <4>2
        <3> QED BY <2>6, <3>1 DEF CleanupPoll, CleanupRemove, SchedTypeOK
    <2> QED BY <1>2, <2>1, <2>2, <2>3, <2>4, <2>5, <2>6 DEF SchedChange
<1> QED BY <1>1, <1>2

(***************************************************************************)
(* Type correctness needs the accounting of calls: without it a schedule   *)
(* could spawn a generation that MaxHelps does not allow.                  *)
(***************************************************************************)
TypeInv == TypeOK /\ IdleInv /\ HolderInv /\ GenInv

LEMMA InitTypeInv == Init => TypeInv
<1> SUFFICES ASSUME Init PROVE TypeInv
    OBVIOUS
<1>1. CtxTypeOK /\ CallTypeOK /\ LockTypeOK
    BY LimitsAssumption DEF LimitsAssumption, Init, CtxTypeOK, CallTypeOK, LockTypeOK
<1>2. SchedTypeOK /\ RepairTypeOK /\ DbTypeOK
    BY DEF Init, SchedTypeOK, RepairTypeOK, DbTypeOK
<1>3. IdleInv /\ HolderInv /\ GenInv
    BY HeldInjective DEF Init, IdleInv, HolderInv, GenInv, DispatchDue, HelpDue
<1> QED BY <1>1, <1>2, <1>3 DEF TypeInv, TypeOK

LEMMA StepTypeInv == TypeInv /\ [Next]_vars => TypeInv'
BY StepCtxType, StepCallType, StepLockType, StepSchedType, StepRepairType, StepDbType,
   StepIdleInv, StepHolderInv, StepGenInv DEF TypeInv, TypeOK

LEMMA AlwaysTypeInv == Spec => []TypeInv
BY InitTypeInv, StepTypeInv, PTL DEF Spec

\* Every variable keeps its type in every reachable state of the composition,
\* for any set of jobs and any limits: in particular the workers schedule()
\* spawns for a job never outnumber its dispatch and its help commands.
THEOREM TypeCorrect == Spec => []TypeOK
<1>1. TypeInv => TypeOK
    BY DEF TypeInv
<1> QED BY <1>1, AlwaysTypeInv, PTL

(***************************************************************************)
(* The scheduler.  The inductive invariant behind the safety of the map of *)
(* running jobs:                                                           *)
(*  - a live worker is in the map, or stop() is about to abort it;         *)
(*  - the job the lock is held for is not in the map (LockInv);            *)
(*  - a holder of the lock has seen, or made, room in the map (CapInv);    *)
(*  - a clean-up task belongs to the worker in the map, or its job can     *)
(*    never be scheduled again: stop() is cancelling it or it has given    *)
(*    its slot back for good.  So the unconditional removal that follows   *)
(*    the poll never takes out a later worker (CleanInv).                  *)
(***************************************************************************)
LockInv ==
    \A j \in Jobs :
        /\ \A who \in {"dispatch", "help"} : lock = Held(who, j, 0) => entry[j] = 0
        /\ \A g \in Gens : lock = Held("stop", j, g) => entry[j] = 0

CapInv ==
    /\ Cardinality(Scheduled) <= MaxParallel
    /\ lock # Free => Cardinality(Scheduled) < MaxParallel

Stopping(j) == \E g \in Gens : lock = Held("stop", j, g)

CleanInv ==
    \A j \in Jobs : \A g \in Gens :
        cleaner[j][g] # "none" =>
            /\ disp[j] # "idle"
            /\ entry[j] = g \/ (entry[j] = 0 /\ (Stopping(j) \/ ~IsParallelBlocking(ctx[j])))
            /\ cleaner[j][g] = "remove" /\ entry[j] = g => worker[j][g] = "finished"

SchedInv == LiveWorkerIsTracked /\ LockInv /\ CapInv /\ CleanInv

\* No worker becomes live and none that finished comes back.
LiveShrinks ==
    \A i \in Jobs : \A h \in Gens :
        /\ IsLive(i, h)' => IsLive(i, h)
        /\ worker[i][h] = "finished" => worker'[i][h] = "finished"

LEMMA GensPositive == \A g \in Gens : g # 0
BY LimitsAssumption DEF LimitsAssumption, Gens

LEMMA GotoShrinks ==
    ASSUME SchedTypeOK, NEW j \in Jobs, NEW g \in Gens, NEW pc, Goto(j, g, pc),
           pc = "finished" \/ (IsLive(j, g) /\ pc \in LiveStates)
    PROVE  LiveShrinks
<1>1. worker \in [Jobs -> [Gens -> LiveStates \cup {"none", "finished"}]]
    BY DEF SchedTypeOK
<1> QED BY <1>1 DEF Goto, LiveShrinks, IsLive, LiveStates

LEMMA WorkerStepShrinks ==
    ASSUME SchedTypeOK, NEW j \in Jobs, NEW g \in Gens, WorkerStep(j, g)
    PROVE  UNCHANGED schedVars /\ UNCHANGED callVars /\ LiveShrinks
<1>1. UNCHANGED schedVars /\ UNCHANGED callVars
    BY DEF WorkerStep, WorkerStart, WorkerSignal, WorkerAnswer,
        WorkerFail, WorkerBudget, WorkerTimeout, WorkerReturn
<1>2. \/ UNCHANGED worker
      \/ Goto(j, g, "run") \/ Goto(j, g, "stopped") \/ Goto(j, g, "returned") \/ Goto(j, g, "finished")
    <2>1. CASE WorkerStart(j, g)
        BY <2>1 DEF WorkerStart
    <2>2. CASE WorkerSignal(j, g)
        BY <2>2 DEF WorkerSignal
    <2>3. CASE WorkerAnswer(j, g) \/ WorkerFail(j, g) \/ WorkerTimeout(j, g)
        BY <2>3 DEF WorkerAnswer, WorkerFail, WorkerTimeout
    <2>4. CASE WorkerBudget(j, g)
        BY <2>4 DEF WorkerBudget
    <2>5. CASE WorkerReturn(j, g)
        BY <2>5 DEF WorkerReturn
    <2> QED BY <2>1, <2>2, <2>3, <2>4, <2>5 DEF WorkerStep
<1>3. IsLive(j, g)
    BY DEF WorkerStep, WorkerStart, WorkerSignal, WorkerAnswer,
        WorkerFail, WorkerBudget, WorkerTimeout, WorkerReturn, IsLive, LiveStates
<1>4. ASSUME worker' = worker PROVE LiveShrinks
    BY <1>4 DEF LiveShrinks, IsLive
<1>5. ASSUME NEW pc \in {"run", "stopped", "returned", "finished"}, Goto(j, g, pc)
      PROVE  LiveShrinks
    <2>1. pc = "finished" \/ pc \in LiveStates
        BY DEF LiveStates
    <2> QED BY <1>3, <1>5, <2>1, GotoShrinks
<1> QED BY <1>1, <1>2, <1>4, <1>5

\* The steps that neither take, release nor use the jobs lock.
LEMMA QuietSteps ==
    ASSUME SchedTypeOK, [Next]_vars,
           ~ \E j \in Jobs :
                \/ \E who \in {"dispatch", "help"} : ScheduleCheck(who, j) \/ ScheduleCommit(who, j)
                \/ StopBegin(j) \/ StopEnd(j)
                \/ \E g \in Gens : CleanupPoll(j, g) \/ CleanupRemove(j, g)
    PROVE  UNCHANGED schedVars /\ LiveShrinks
<1>1. CASE ~ \E j \in Jobs : SchedChange(j)
    BY <1>1, SchedFrame DEF LiveShrinks, IsLive
<1>2. ASSUME NEW j \in Jobs, SchedChange(j) PROVE UNCHANGED schedVars /\ LiveShrinks
    BY <1>2, WorkerStepShrinks DEF SchedChange
<1> QED BY <1>1, <1>2

\* A job that was dispatched and holds no slot never gets one again.
LEMMA SlotIsGivenBackForGood ==
    ASSUME CtxTypeOK, CallTypeOK, [Next]_vars, NEW i \in Jobs, disp[i] # "idle"
    PROVE  disp'[i] # "idle" /\ (IsParallelBlocking(ctx'[i]) => IsParallelBlocking(ctx[i]))
<1>1. disp'[i] # "idle"
    <2>1. CASE ~ \E j \in Jobs : CallChange(j)
        BY <2>1, CallFrame
    <2>2. ASSUME NEW j \in Jobs, CallChange(j) PROVE disp'[i] # "idle"
        BY <2>2 DEF CallChange, CreateJob, SaveJob, ScheduleCheck, ScheduleCommit, CallerReturns, HelpJob,
            RequestCancel, RequestStopAll, StopBegin, StopEnd, CancelPersist, CallTypeOK
    <2> QED BY <2>1, <2>2
<1>2. IsParallelBlocking(ctx'[i]) => IsParallelBlocking(ctx[i])
    <2>1. CASE ~ \E j \in Jobs : CtxChange(j)
        BY <2>1, CtxFrame
    <2>2. ASSUME NEW j \in Jobs, CtxChange(j) PROVE IsParallelBlocking(ctx'[i]) => IsParallelBlocking(ctx[i])
        BY <2>2, CtxChangeMoves, MoveFacts DEF Moves, CtxTypeOK
    <2> QED BY <2>1, <2>2
<1> QED BY <1>1, <1>2

LEMMA StepTracked ==
    ASSUME TypeOK, HolderInv, GenInv, SchedInv, [Next]_vars
    PROVE  LiveWorkerIsTracked'
<1> SUFFICES ASSUME NEW i \in Jobs, NEW h \in Gens, IsLive(i, h)'
             PROVE  entry'[i] = h \/ lock' = Held("stop", i, h)
    BY DEF LiveWorkerIsTracked
<1>0. SchedTypeOK /\ LockTypeOK /\ CallTypeOK /\ LockInv
    BY DEF TypeOK, SchedInv
<1>1. IsLive(i, h) => entry[i] = h \/ lock = Held("stop", i, h)
    BY DEF SchedInv, LiveWorkerIsTracked
<1>2. ASSUME NEW j \in Jobs, NEW who \in {"dispatch", "help"}, ScheduleCheck(who, j)
      PROVE  entry'[i] = h \/ lock' = Held("stop", i, h)
    BY <1>1, <1>2, HeldInjective DEF ScheduleCheck, IsLive
<1>3. ASSUME NEW j \in Jobs, NEW who \in {"dispatch", "help"}, ScheduleCommit(who, j)
      PROVE  entry'[i] = h \/ lock' = Held("stop", i, h)
    <2>1. lock = Held(who, j, 0) /\ entry[j] = 0 /\ gen[j] + 1 \in Gens
        BY <1>0, <1>3, NextGen DEF ScheduleCommit, LockInv
    <2>2. lock # Held("stop", i, h)
        BY <2>1, HeldInjective
    <2>3. CASE SpawnWorker(j)
        <3>1. i = j => h = gen[j] + 1
            <4> SUFFICES ASSUME i = j, h # gen[j] + 1 PROVE FALSE
                OBVIOUS
            <4>1. IsLive(i, h)
                BY <1>0, <2>1, <2>3 DEF SpawnWorker, SchedTypeOK, IsLive
            <4> QED BY <1>1, <2>1, <2>2, <4>1, GensPositive
        <3>2. i # j => IsLive(i, h)
            BY <1>0, <2>1, <2>3 DEF SpawnWorker, SchedTypeOK, IsLive
        <3> QED BY <1>0, <1>1, <2>1, <2>2, <2>3, <3>1, <3>2 DEF SpawnWorker, SchedTypeOK
    <2>4. CASE UNCHANGED <<worker, entry>>
        BY <1>1, <2>2, <2>4 DEF IsLive
    <2> QED BY <1>3, <2>3, <2>4 DEF ScheduleCommit
<1>4. ASSUME NEW j \in Jobs, StopBegin(j) PROVE entry'[i] = h \/ lock' = Held("stop", i, h)
    BY <1>0, <1>1, <1>4, HeldInjective DEF StopBegin, IsLive, SchedTypeOK
<1>5. ASSUME NEW j \in Jobs, StopEnd(j) PROVE entry'[i] = h \/ lock' = Held("stop", i, h)
    <2>1. PICK g \in Gens : lock = Held("stop", j, g) /\ g = lock.gen
        BY <1>0, <1>5, HeldInjective DEF StopEnd, LockTypeOK
    <2>2. Goto(j, g, "finished") /\ UNCHANGED entry
        BY <1>5, <2>1 DEF StopEnd
    <2>3. IsLive(i, h) /\ ~(i = j /\ h = g)
        BY <1>0, <2>2, GotoShrinks DEF LiveShrinks, Goto, IsLive, SchedTypeOK, LiveStates
    <2> QED BY <1>1, <2>1, <2>2, <2>3, HeldInjective
<1>6. ASSUME NEW j \in Jobs, NEW g \in Gens, CleanupPoll(j, g)
      PROVE  entry'[i] = h \/ lock' = Held("stop", i, h)
    BY <1>1, <1>6 DEF CleanupPoll, IsLive
<1>7. ASSUME NEW j \in Jobs, NEW g \in Gens, CleanupRemove(j, g)
      PROVE  entry'[i] = h \/ lock' = Held("stop", i, h)
    <2>1. IsLive(i, h) /\ UNCHANGED lock /\ entry' = [entry EXCEPT ![j] = 0]
        BY <1>7 DEF CleanupRemove, IsLive
    <2>2. i = j => entry[i] # h
        <3>1. entry[j] = g => worker[j][g] = "finished"
            BY <1>7 DEF CleanupRemove, SchedInv, CleanInv
        <3>2. entry[j] = g \/ entry[j] = 0
            BY <1>7 DEF CleanupRemove, SchedInv, CleanInv
        <3> QED BY <2>1, <3>1, <3>2, GensPositive DEF IsLive, LiveStates
    <2> QED BY <1>0, <1>1, <2>1, <2>2 DEF SchedTypeOK
<1>8. CASE UNCHANGED schedVars /\ LiveShrinks
    BY <1>1, <1>8 DEF LiveShrinks
<1> QED BY <1>0, <1>2, <1>3, <1>4, <1>5, <1>6, <1>7, <1>8, QuietSteps

LEMMA StepLockInv ==
    ASSUME TypeOK, SchedInv, [Next]_vars
    PROVE  LockInv'
<1>0. SchedTypeOK /\ LockTypeOK /\ LockInv
    BY DEF TypeOK, SchedInv
<1> USE DEF LockInv
<1>2. ASSUME NEW j \in Jobs, NEW who \in {"dispatch", "help"}, ScheduleCheck(who, j)
      PROVE  LockInv'
    BY <1>0, <1>2, HeldInjective DEF ScheduleCheck, ScheduleAdmits
<1>3. ASSUME NEW j \in Jobs, NEW who \in {"dispatch", "help"}, ScheduleCommit(who, j)
      PROVE  LockInv'
    BY <1>3, HeldInjective DEF ScheduleCommit
<1>4. ASSUME NEW j \in Jobs, StopBegin(j) PROVE LockInv'
    BY <1>0, <1>4, HeldInjective DEF StopBegin, SchedTypeOK
<1>5. ASSUME NEW j \in Jobs, StopEnd(j) PROVE LockInv'
    BY <1>5, HeldInjective DEF StopEnd
<1>6. ASSUME NEW j \in Jobs, NEW g \in Gens, CleanupPoll(j, g) \/ CleanupRemove(j, g)
      PROVE  LockInv'
    BY <1>0, <1>6, HeldInjective DEF CleanupPoll, CleanupRemove
<1>8. CASE UNCHANGED schedVars
    BY <1>0, <1>8
<1> QED BY <1>0, <1>2, <1>3, <1>4, <1>5, <1>6, <1>8, QuietSteps

\* The map of running jobs is finite.
LEMMA ScheduledFinite == IsFiniteSet(Scheduled) /\ Cardinality(Scheduled) \in Nat
<1>1. Scheduled \in SUBSET Jobs
    BY DEF Scheduled
<1> QED BY <1>1, JobsAssumption, FS_Subset, FS_CardinalityType DEF JobsAssumption

LEMMA StepCapInv ==
    ASSUME TypeOK, SchedInv, [Next]_vars
    PROVE  CapInv'
<1>0. SchedTypeOK /\ LockInv /\ CapInv /\ MaxParallel \in Nat
    BY LimitsAssumption DEF LimitsAssumption, TypeOK, SchedInv
<1>1. IsFiniteSet(Scheduled) /\ Cardinality(Scheduled) \in Nat
    BY ScheduledFinite
<1>2. ASSUME NEW j \in Jobs, NEW who \in {"dispatch", "help"}, ScheduleCheck(who, j)
      PROVE  CapInv'
    <2>1. Scheduled' = Scheduled
        BY <1>2 DEF ScheduleCheck, Scheduled
    <2> QED BY <1>0, <1>2, <2>1 DEF ScheduleCheck, ScheduleAdmits, CapInv
<1>3. ASSUME NEW j \in Jobs, NEW who \in {"dispatch", "help"}, ScheduleCommit(who, j)
      PROVE  CapInv'
    <2>1. lock' = Free /\ Cardinality(Scheduled) < MaxParallel
        BY <1>0, <1>3, HeldInjective DEF ScheduleCommit, CapInv
    <2>2. Scheduled' \in SUBSET (Scheduled \cup {j})
        BY <1>0, <1>3 DEF ScheduleCommit, SpawnWorker, Scheduled, SchedTypeOK
    <2>3. Cardinality(Scheduled') <= Cardinality(Scheduled) + 1 /\ Cardinality(Scheduled') \in Nat
        BY <1>1, <2>2, OneMore
    <2> QED BY <1>0, <1>1, <2>1, <2>3 DEF CapInv
<1>4. ASSUME NEW j \in Jobs, StopBegin(j) PROVE CapInv'
    <2>1. CASE entry[j] = 0
        BY <1>0, <1>4, <2>1 DEF StopBegin, CapInv, Scheduled
    <2>2. CASE entry[j] # 0
        <3>1. Scheduled' = Scheduled \ {j} /\ j \in Scheduled
            BY <1>0, <1>4, <2>2 DEF StopBegin, Scheduled, SchedTypeOK
        <3>2. Cardinality(Scheduled') = Cardinality(Scheduled) - 1
            BY <1>1, <3>1, FS_RemoveElement
        <3> QED BY <1>0, <1>1, <3>2 DEF CapInv
    <2> QED BY <2>1, <2>2
<1>5. ASSUME NEW j \in Jobs, StopEnd(j) PROVE CapInv'
    BY <1>0, <1>5 DEF StopEnd, CapInv, Scheduled
<1>6. ASSUME NEW j \in Jobs, NEW g \in Gens, CleanupPoll(j, g) \/ CleanupRemove(j, g)
      PROVE  CapInv'
    <2>1. UNCHANGED lock /\ lock = Free
        BY <1>6 DEF CleanupPoll, CleanupRemove
    <2>2. Scheduled' \in SUBSET Scheduled
        BY <1>0, <1>6 DEF CleanupPoll, CleanupRemove, Scheduled, SchedTypeOK
    <2>3. Cardinality(Scheduled') <= Cardinality(Scheduled) /\ Cardinality(Scheduled') \in Nat
        BY <1>1, <2>2, FS_Subset, FS_CardinalityType
    <2> QED BY <1>0, <1>1, <2>1, <2>3 DEF CapInv
<1>8. CASE UNCHANGED schedVars
    BY <1>0, <1>8 DEF CapInv, Scheduled
<1> QED BY <1>0, <1>2, <1>3, <1>4, <1>5, <1>6, <1>8, QuietSteps

\* A cancelled job holds no slot.
LEMMA CancelReleasesSlot == \A s : ~IsParallelBlocking(TransitionTo(s, "Cancelled"))
BY DEF TransitionTo, CanTransition, Successors, IsParallelBlocking

\* schedule() only starts a job that holds a slot.
LEMMA StartNeedsSlot == \A s : CanTransition(s, "InProgress") => IsParallelBlocking(s)
BY DEF CanTransition, Successors, IsParallelBlocking

LEMMA StepCleanInv ==
    ASSUME TypeOK, IdleInv, HolderInv, GenInv, SchedInv, [Next]_vars
    PROVE  CleanInv'
<1> DEFINE P(i, h) ==
        /\ disp[i] # "idle"
        /\ entry[i] = h \/ (entry[i] = 0 /\ (Stopping(i) \/ ~IsParallelBlocking(ctx[i])))
        /\ cleaner[i][h] = "remove" /\ entry[i] = h => worker[i][h] = "finished"
<1> SUFFICES ASSUME NEW i \in Jobs, NEW h \in Gens, cleaner'[i][h] # "none"
             PROVE  P(i, h)'
    BY DEF CleanInv
<1>0. SchedTypeOK /\ LockTypeOK /\ CallTypeOK /\ CtxTypeOK /\ LockInv
    BY DEF TypeOK, SchedInv
<1>1. \A g \in Gens : cleaner[i][g] # "none" => P(i, g)
    BY DEF SchedInv, CleanInv
<1>c. cleaner \in [Jobs -> [Gens -> {"none", "poll", "remove"}]]
    BY <1>0 DEF SchedTypeOK
<1>s. disp[i] # "idle" => /\ disp'[i] # "idle"
                          /\ IsParallelBlocking(ctx'[i]) => IsParallelBlocking(ctx[i])
    BY <1>0, SlotIsGivenBackForGood
<1>2. ASSUME NEW j \in Jobs, NEW who \in {"dispatch", "help"}, ScheduleCheck(who, j)
      PROVE  P(i, h)'
    <2>1. UNCHANGED <<entry, cleaner, worker>> /\ ~Stopping(i)
        BY <1>2, HeldInjective DEF ScheduleCheck, Stopping
    <2> QED BY <1>1, <1>s, <2>1
<1>3. ASSUME NEW j \in Jobs, NEW who \in {"dispatch", "help"}, ScheduleCommit(who, j)
      PROVE  P(i, h)'
    <2>1. lock = Held(who, j, 0) /\ entry[j] = 0 /\ gen[j] + 1 \in Gens /\ ~Stopping(i)
        BY <1>0, <1>3, NextGen, HeldInjective DEF ScheduleCommit, LockInv, Stopping
    <2>2. CASE UNCHANGED <<worker, cleaner, entry>>
        BY <1>1, <1>s, <2>1, <2>2
    <2>3. CASE SpawnWorker(j) /\ IsParallelBlocking(ctx[j])
        <3>1. CASE i = j
            <4>1. cleaner[i][h] = "none"
                BY <1>1, <2>1, <2>3, <3>1, GensPositive
            <4>2. h = gen[j] + 1
                BY <1>c, <2>1, <2>3, <3>1, <4>1 DEF SpawnWorker
            <4>3. entry'[i] = h /\ cleaner'[i][h] = "poll"
                BY <1>0, <1>c, <2>1, <2>3, <3>1, <4>2 DEF SpawnWorker, SchedTypeOK
            <4>4. disp[i] # "idle"
                BY <1>3, <2>3, <3>1 DEF IdleInv, IsParallelBlocking
            <4> QED BY <1>s, <4>3, <4>4
        <3>2. CASE i # j
            <4>1. cleaner'[i] = cleaner[i] /\ entry'[i] = entry[i] /\ worker'[i] = worker[i]
                BY <1>0, <2>3, <3>2 DEF SpawnWorker, SchedTypeOK
            <4> QED BY <1>1, <1>s, <2>1, <4>1
        <3> QED BY <3>1, <3>2
    <2> QED BY <1>3, <2>2, <2>3, StartNeedsSlot DEF ScheduleCommit
<1>4. ASSUME NEW j \in Jobs, StopBegin(j) PROVE P(i, h)'
    <2>1. UNCHANGED <<cleaner, worker>> /\ ~Stopping(i)
        BY <1>4, HeldInjective DEF StopBegin, Stopping
    <2>2. CASE entry[j] = 0 \/ i # j
        <3>1. entry'[i] = entry[i]
            BY <1>0, <1>4, <2>2 DEF StopBegin, SchedTypeOK
        <3> QED BY <1>1, <1>s, <2>1, <3>1
    <2>3. CASE entry[j] # 0 /\ i = j
        <3>1. entry[j] \in Gens /\ entry'[i] = 0 /\ lock' = Held("stop", i, entry[j])
            BY <1>0, <1>4, <2>3 DEF StopBegin, SchedTypeOK
        <3>2. Stopping(i)'
            BY <3>1 DEF Stopping
        <3> QED BY <1>1, <1>s, <2>1, <3>1, <3>2, GensPositive
    <2> QED BY <2>2, <2>3
<1>5. ASSUME NEW j \in Jobs, StopEnd(j) PROVE P(i, h)'
    <2>1. PICK g \in Gens : lock = Held("stop", j, g) /\ g = lock.gen
        BY <1>0, <1>5, HeldInjective DEF StopEnd, LockTypeOK
    <2>2. UNCHANGED <<entry, cleaner>> /\ Goto(j, g, "finished")
        BY <1>5, <2>1 DEF StopEnd
    <2>3. LiveShrinks
        BY <1>0, <2>2, GotoShrinks
    <2>4. i = j => ~IsParallelBlocking(ctx'[i])
        BY <1>0, <1>5, CancelReleasesSlot DEF StopEnd, CtxTypeOK
    <2>5. i # j => ~Stopping(i)
        BY <2>1, HeldInjective DEF Stopping
    <2> QED BY <1>1, <1>s, <2>2, <2>3, <2>4, <2>5 DEF LiveShrinks
<1>6. ASSUME NEW j \in Jobs, NEW g \in Gens, CleanupPoll(j, g) PROVE P(i, h)'
    <2>1. UNCHANGED <<entry, worker, lock>> /\ cleaner[j][g] = "poll" /\ lock = Free
        BY <1>6 DEF CleanupPoll
    <2>2. cleaner[i][h] # "none" /\ (cleaner'[i][h] = "remove" => cleaner[i][h] = "remove" \/ (i = j /\ h = g))
        BY <1>6, <1>c DEF CleanupPoll
    <2>3. entry[j] = g => worker[j][g] = "finished"
        BY <1>6, GensPositive DEF CleanupPoll
    <2>4. ~Stopping(i)
        BY <2>1, HeldInjective DEF Stopping
    <2> QED BY <1>1, <1>s, <2>1, <2>2, <2>3, <2>4
<1>7. ASSUME NEW j \in Jobs, NEW g \in Gens, CleanupRemove(j, g) PROVE P(i, h)'
    <2>1. /\ UNCHANGED <<worker, lock>> /\ cleaner[j][g] = "remove"
          /\ lock = Free /\ entry' = [entry EXCEPT ![j] = 0]
        BY <1>7 DEF CleanupRemove
    <2>2. cleaner'[i][h] = cleaner[i][h] /\ ~(i = j /\ h = g)
        BY <1>7, <1>c DEF CleanupRemove
    <2>3. ~Stopping(i)
        BY <2>1, HeldInjective DEF Stopping
    <2>4. i = j => entry[i] = 0
        BY <1>1, <2>1, <2>2, <2>3, GensPositive
    <2>5. entry'[i] = entry[i]
        BY <1>0, <2>1, <2>4 DEF SchedTypeOK
    <2> QED BY <1>1, <1>s, <2>1, <2>2, <2>3, <2>5
<1>8. CASE UNCHANGED schedVars /\ LiveShrinks
    BY <1>1, <1>s, <1>8 DEF LiveShrinks, Stopping
<1> QED BY <1>0, <1>2, <1>3, <1>4, <1>5, <1>6, <1>7, <1>8, QuietSteps

JobInv == TypeInv /\ SchedInv

LEMMA InitJobInv == Init => JobInv
<1> SUFFICES ASSUME Init PROVE SchedInv
    BY InitTypeInv DEF JobInv
<1>1. Scheduled = {}
    BY DEF Init, Scheduled
<1>2. CapInv
    BY <1>1, FS_EmptySet, LimitsAssumption DEF LimitsAssumption, CapInv, Init
<1>3. LiveWorkerIsTracked /\ LockInv /\ CleanInv
    BY HeldInjective DEF Init, LiveWorkerIsTracked, IsLive, LiveStates, LockInv, CleanInv
<1> QED BY <1>2, <1>3 DEF SchedInv

LEMMA StepJobInv == JobInv /\ [Next]_vars => JobInv'
BY StepTypeInv, StepTracked, StepLockInv, StepCapInv, StepCleanInv DEF JobInv, SchedInv, TypeInv

LEMMA AlwaysJobInv == Spec => []JobInv
BY InitJobInv, StepJobInv, PTL DEF Spec

\* stop() can always reach a worker that executes: the worker of a job is in the
\* scheduler's map unless a stop() in progress has just taken it out.
THEOREM WorkersAreTracked == Spec => []LiveWorkerIsTracked
<1>1. JobInv => LiveWorkerIsTracked
    BY DEF JobInv, SchedInv
<1> QED BY <1>1, AlwaysJobInv, PTL

\* No job is ever executed by two workers at once, however often users ask for
\* help and self-repair recovers the job between two calls of schedule().
THEOREM SingleWorker == Spec => []OneWorkerPerJob
<1>1. JobInv => OneWorkerPerJob
    BY GensPositive, HeldInjective
    DEF JobInv, SchedInv, LockInv, LiveWorkerIsTracked, OneWorkerPerJob
<1> QED BY <1>1, AlwaysJobInv, PTL

\* max_parallel_jobs bounds the worker tasks that execute, not only the entries
\* of the map, for any number of jobs and any limit.
THEOREM CapacityIsRespected == Spec => []WorkersWithinCapacity
<1>1. ASSUME JobInv PROVE WorkersWithinCapacity
    <2> DEFINE W == {j \in Jobs : HasWorker(j)}
    <2>0. LockTypeOK /\ CapInv /\ LiveWorkerIsTracked /\ MaxParallel \in Nat
        BY <1>1, LimitsAssumption DEF LimitsAssumption, JobInv, TypeInv, TypeOK, SchedInv
    <2>1. IsFiniteSet(Scheduled) /\ Cardinality(Scheduled) \in Nat
        BY ScheduledFinite
    <2>2. ASSUME NEW k \in Jobs, NEW g \in Gens, lock = Held("stop", k, g)
          PROVE  Cardinality(W) <= MaxParallel
        <3>1. W \in SUBSET (Scheduled \cup {k})
            BY <2>0, <2>2, GensPositive, HeldInjective DEF LiveWorkerIsTracked, HasWorker, Scheduled
        <3>2. Cardinality(W) <= Cardinality(Scheduled) + 1 /\ Cardinality(W) \in Nat
            BY <2>1, <3>1, OneMore
        <3>3. Cardinality(Scheduled) < MaxParallel
            BY <2>0, <2>2, HeldInjective DEF CapInv
        <3> QED BY <2>0, <2>1, <3>2, <3>3
    <2>3. ASSUME ~ \E k \in Jobs : \E g \in Gens : lock = Held("stop", k, g)
          PROVE  Cardinality(W) <= MaxParallel
        <3>1. W \in SUBSET Scheduled
            BY <2>0, <2>3, GensPositive DEF LiveWorkerIsTracked, HasWorker, Scheduled
        <3>2. Cardinality(W) <= Cardinality(Scheduled) /\ Cardinality(W) \in Nat
            BY <2>1, <3>1, FS_Subset, FS_CardinalityType
        <3> QED BY <2>0, <2>1, <3>2 DEF CapInv
    <2> QED BY <2>2, <2>3 DEF WorkersWithinCapacity
<1> QED BY <1>1, AlwaysJobInv, PTL

(***************************************************************************)
(* Contexts.                                                               *)
(***************************************************************************)
\* No step of any component moves a job that is Accepted, Failed or Cancelled.
THEOREM TerminalStates == Spec => TerminalIsFinal
<1>1. ASSUME JobInv, [Next]_vars, NEW i \in Jobs, IsTerminal(ctx[i]) PROVE ctx'[i] = ctx[i]
    <2>0. CtxTypeOK /\ disp[i] # "idle"
        BY <1>1 DEF JobInv, TypeInv, TypeOK, IdleInv, IsTerminal
    <2>1. CASE ~ \E j \in Jobs : CtxChange(j)
        BY <1>1, <2>1, CtxFrame
    <2>2. ASSUME NEW j \in Jobs, CtxChange(j) PROVE ctx'[i] = ctx[i]
        BY <1>1, <2>0, <2>2, CtxChangeMoves, MoveFacts DEF Moves, CtxTypeOK
    <2> QED BY <2>1, <2>2
<1>2. JobInv /\ [Next]_vars => [\A j \in Jobs : IsTerminal(ctx[j]) => ctx'[j] = ctx[j]]_vars
    BY <1>1
<1> QED BY <1>2, AlwaysJobInv, PTL DEF Spec, TerminalIsFinal

\* The slots ContextManager::insert_context hands out never exceed max_jobs,
\* although they are counted at creation only.
THEOREM SlotsAreBounded == Spec => []SlotsWithinLimit
<1>1. Init => SlotsWithinLimit
    <2> SUFFICES ASSUME Init PROVE SlotsWithinLimit
        OBVIOUS
    <2>1. Blocking = {}
        BY DEF Init, Blocking, IsParallelBlocking
    <2> QED BY <2>1, FS_EmptySet, LimitsAssumption DEF LimitsAssumption, SlotsWithinLimit
<1>2. ASSUME JobInv, SlotsWithinLimit, [Next]_vars PROVE SlotsWithinLimit'
    <2>0. CtxTypeOK /\ MaxJobs \in Nat
        BY <1>2, LimitsAssumption DEF LimitsAssumption, JobInv, TypeInv, TypeOK
    <2>1. IsFiniteSet(Blocking) /\ Cardinality(Blocking) \in Nat
        BY JobsAssumption, FS_Subset, FS_CardinalityType DEF JobsAssumption, Blocking
    <2>2. Blocking' \in SUBSET Blocking \/ (CreateAdmits /\ \E j \in Jobs : Blocking' \in SUBSET (Blocking \cup {j}))
        <3>1. CASE ~ \E j \in Jobs : CtxChange(j)
            BY <1>2, <3>1, CtxFrame DEF Blocking
        <3>2. ASSUME NEW j \in Jobs, Moves(j)
              PROVE  Blocking' \in SUBSET Blocking \/ (CreateAdmits /\ Blocking' \in SUBSET (Blocking \cup {j}))
            BY <2>0, <3>2, MoveFacts DEF Moves, Blocking, CtxTypeOK
        <3> QED BY <2>0, <3>1, <3>2, CtxChangeMoves
    <2>3. CASE Blocking' \in SUBSET Blocking
        <3>1. Cardinality(Blocking') <= Cardinality(Blocking) /\ Cardinality(Blocking') \in Nat
            BY <2>1, <2>3, FS_Subset, FS_CardinalityType
        <3> QED BY <1>2, <2>0, <2>1, <3>1 DEF SlotsWithinLimit
    <2>4. ASSUME NEW j \in Jobs, CreateAdmits, Blocking' \in SUBSET (Blocking \cup {j}) PROVE SlotsWithinLimit'
        <3>1. Cardinality(Blocking') <= Cardinality(Blocking) + 1 /\ Cardinality(Blocking') \in Nat
            BY <2>1, <2>4, OneMore
        <3> QED BY <2>0, <2>1, <2>4, <3>1 DEF SlotsWithinLimit, CreateAdmits
    <2> QED BY <2>2, <2>3, <2>4
<1> QED BY <1>1, <1>2, AlwaysJobInv, PTL DEF Spec

(***************************************************************************)
(* Self-repair decides on a record of the attempts; until it acts, only    *)
(* help commands can have made that record stale.                          *)
(***************************************************************************)
RecordInv ==
    \A j \in Jobs :
        /\ repair[j] <= MaxRepair + helps[j]
        /\ snap[j] # NoSnap => repair[j] <= snap[j] + helps[j]

LEMMA StepRecordInv ==
    ASSUME CtxTypeOK, CallTypeOK, RepairTypeOK, RecordInv, [Next]_vars
    PROVE  RecordInv'
<1> SUFFICES ASSUME NEW i \in Jobs
             PROVE  /\ repair'[i] <= MaxRepair + helps'[i]
                    /\ snap'[i] # NoSnap => repair'[i] <= snap'[i] + helps'[i]
    BY DEF RecordInv
<1>0. /\ repair[i] <= MaxRepair + helps[i]
      /\ snap[i] # NoSnap => repair[i] <= snap[i] + helps[i]
    BY DEF RecordInv
<1>1. repair[i] \in Nat /\ helps[i] \in Nat /\ MaxRepair \in Nat /\ snap[i] \in Int
    BY LimitsAssumption DEF LimitsAssumption, CtxTypeOK, CallTypeOK, RepairTypeOK, NoSnap
<1>2. ASSUME NEW j \in Jobs, RepairInspect(j)
      PROVE  /\ repair'[i] <= MaxRepair + helps'[i]
             /\ snap'[i] # NoSnap => repair'[i] <= snap'[i] + helps'[i]
    <2>1. UNCHANGED <<repair, helps>> /\ (snap' = snap \/ snap' = [snap EXCEPT ![j] = repair[j]])
        BY <1>2 DEF RepairInspect
    <2> QED BY <1>0, <1>1, <2>1 DEF RepairTypeOK
<1>3. ASSUME NEW j \in Jobs, RepairJob(j)
      PROVE  /\ repair'[i] <= MaxRepair + helps'[i]
             /\ snap'[i] # NoSnap => repair'[i] <= snap'[i] + helps'[i]
    <2>1. snap' = [snap EXCEPT ![j] = NoSnap] /\ helps' = helps /\ snap[j] # NoSnap
        BY <1>3 DEF RepairJob
    <2>2. repair' = repair \/ (snap[j] < MaxRepair /\ repair' = [repair EXCEPT ![j] = @ + 1])
        <3>1. snap[j] \in Int /\ MaxRepair \in Int
            BY LimitsAssumption DEF LimitsAssumption, RepairTypeOK, NoSnap
        <3> QED BY <1>3, <3>1 DEF RepairJob, AttemptRecovery, RepairExhausted
    <2>3. CASE i # j
        BY <1>0, <2>1, <2>2, <2>3 DEF RepairTypeOK, CtxTypeOK
    <2>4. CASE i = j
        BY <1>0, <1>1, <2>1, <2>2, <2>4 DEF RepairTypeOK, CtxTypeOK
    <2> QED BY <2>3, <2>4
<1>4. ASSUME NEW j \in Jobs, HelpJob(j)
      PROVE  /\ repair'[i] <= MaxRepair + helps'[i]
             /\ snap'[i] # NoSnap => repair'[i] <= snap'[i] + helps'[i]
    BY <1>0, <1>1, <1>4 DEF HelpJob, AttemptRecovery, CtxTypeOK, CallTypeOK
<1>5. CASE ~ \E j \in Jobs : RepairInspect(j) \/ RepairJob(j) \/ HelpJob(j)
    <2>1. UNCHANGED snap
        BY <1>5, RepairFrame DEF RepairScan
    <2>2. UNCHANGED helps
        <3>1. CASE ~ \E j \in Jobs : CallChange(j)
            BY <3>1, CallFrame
        <3>2. ASSUME NEW j \in Jobs, CallChange(j) PROVE UNCHANGED helps
            BY <1>5, <3>2 DEF CallChange, CreateJob, SaveJob, ScheduleCheck, ScheduleCommit,
                RequestCancel, RequestStopAll, StopBegin, StopEnd, CancelPersist
        <3> QED BY <3>1, <3>2
    <2>3. UNCHANGED repair
        <3>1. CASE ~ \E j \in Jobs : CtxChange(j)
            BY <3>1, CtxFrame
        <3>2. ASSUME NEW j \in Jobs, CtxChange(j) PROVE UNCHANGED repair
            BY <1>5, <3>2 DEF CtxChange, MarkStep, CreateJob, ScheduleCommit, WorkerAnswer, WorkerFail,
                WorkerBudget, WorkerTimeout, WorkerReturn, StopEnd, CancelTool, TickStarted, TickStuck
        <3> QED BY <3>1, <3>2
    <2> QED BY <1>0, <2>1, <2>2, <2>3
<1> QED BY <1>2, <1>3, <1>4, <1>5

\* Self-repair never spends more than max_repair_attempts recoveries of its own
\* on a job, although it acts on a record that help commands may have outdated.
THEOREM RepairEnds == Spec => []RepairIsBounded
<1>1. Init => RecordInv
    BY LimitsAssumption DEF LimitsAssumption, Init, RecordInv
<1>2. TypeInv /\ RecordInv /\ [Next]_vars => RecordInv'
    BY StepRecordInv DEF TypeInv, TypeOK
<1>3. RecordInv => RepairIsBounded
    BY DEF RecordInv, RepairIsBounded
<1> QED BY <1>1, <1>2, <1>3, AlwaysTypeInv, PTL DEF Spec

(***************************************************************************)
(* Refinement.  JobScheduler implements JobLifecycle: under the mapping of *)
(* contexts to phases and of executing workers to busy jobs, every step of *)
(* the detailed specification is one step of the abstract job or none.     *)
(***************************************************************************)
Busy    == {j \in Jobs : HasWorker(j)}
Phases  == [j \in Jobs |-> Phase(ctx[j])]
AbsStep == [Lifecycle!Next]_(Lifecycle!vars)

(***************************************************************************)
(* A job that has a worker, or of which the repair task keeps a record, has *)
(* left Pending: so a failure always finds it held or completed.           *)
(***************************************************************************)
Begun(j) == ctx[j] \notin {"Absent", "Pending"}
BegunInv == \A j \in Jobs : HasWorker(j) \/ snap[j] # NoSnap => Begun(j)

RefInv == JobInv /\ BegunInv

\* No step takes a job back to Pending.
LEMMA BegunForGood ==
    ASSUME TypeInv, [Next]_vars, NEW i \in Jobs, Begun(i)
    PROVE  Begun(i)'
<1>0. CtxTypeOK /\ IdleInv
    BY DEF TypeInv, TypeOK
<1>1. CASE ~ \E j \in Jobs : CtxChange(j)
    BY <1>1, CtxFrame DEF Begun
<1>2. ASSUME NEW j \in Jobs, CtxChange(j) PROVE Begun(i)'
    <2>1. PICK t : /\ ctx' = [ctx EXCEPT ![j] = t]
                   /\ t = ctx[j] \/ CanTransition(ctx[j], t) \/ disp[j] = "idle"
        BY <1>0, <1>2, CtxChangeMoves DEF Moves
    <2>2. CanTransition(ctx[j], t) => t \notin {"Absent", "Pending"}
        BY DEF CanTransition, Successors
    <2>3. disp[j] = "idle" => j # i
        BY <1>0 DEF IdleInv, Begun
    <2> QED BY <1>0, <2>1, <2>2, <2>3 DEF CtxTypeOK, Begun
<1> QED BY <1>1, <1>2

\* A worker appears only where schedule() has just moved the job to InProgress.
LEMMA WorkerAppears ==
    ASSUME JobInv, [Next]_vars, NEW i \in Jobs, HasWorker(i)', ~HasWorker(i)
    PROVE  Begun(i)' /\ gen'[i] # 0
<1>0. CtxTypeOK /\ SchedTypeOK
    BY DEF JobInv, TypeInv, TypeOK
<1>1. ASSUME NEW j \in Jobs, NEW who \in {"dispatch", "help"}, ScheduleCommit(who, j)
      PROVE  Begun(i)' /\ gen'[i] # 0
    <2>1. CASE ~CanTransition(ctx[j], "InProgress")
        BY <1>1, <2>1 DEF ScheduleCommit, HasWorker, IsLive
    <2>2. CASE CanTransition(ctx[j], "InProgress")
        <3>1. ctx' = [ctx EXCEPT ![j] = "InProgress"] /\ SpawnWorker(j)
            BY <1>1, <2>2 DEF ScheduleCommit, SetState
        <3>2. i = j
            BY <1>0, <3>1 DEF SpawnWorker, SchedTypeOK, HasWorker, IsLive
        <3>3. gen[j] + 1 # 0
            BY <1>0, LimitsAssumption DEF LimitsAssumption, SchedTypeOK, Gens
        <3> QED BY <1>0, <3>1, <3>2, <3>3 DEF Begun, CtxTypeOK, SpawnWorker, SchedTypeOK
    <2> QED BY <2>1, <2>2
<1>2. ASSUME NEW j \in Jobs, StopEnd(j) PROVE LiveShrinks
    <2>1. lock.gen \in Gens /\ Goto(j, lock.gen, "finished")
        BY <1>2, HeldInjective DEF StopEnd, JobInv, TypeInv, TypeOK, LockTypeOK, Held, Free
    <2> QED BY <1>0, <2>1, GotoShrinks
<1>3. ASSUME NEW j \in Jobs,
             \/ \E who \in {"dispatch", "help"} : ScheduleCheck(who, j)
             \/ StopBegin(j)
             \/ \E g \in Gens : CleanupPoll(j, g) \/ CleanupRemove(j, g)
      PROVE  LiveShrinks
    BY <1>3 DEF ScheduleCheck, StopBegin, CleanupPoll, CleanupRemove, LiveShrinks, IsLive
<1>4. ~LiveShrinks
    BY DEF LiveShrinks, HasWorker
<1> QED BY <1>0, <1>1, <1>2, <1>3, <1>4, QuietSteps

\* A record appears only of a job that is InProgress or Stuck.
LEMMA RecordAppears ==
    ASSUME TypeOK, [Next]_vars, NEW i \in Jobs, snap'[i] # NoSnap, snap[i] = NoSnap
    PROVE  Begun(i)
<1>1. CASE RepairScan \/ ~ \E j \in Jobs : RepairInspect(j) \/ RepairJob(j)
    BY <1>1, RepairFrame DEF RepairScan
<1>2. ASSUME NEW j \in Jobs, RepairInspect(j) PROVE Begun(i)
    BY <1>2 DEF RepairInspect, TypeOK, RepairTypeOK, Begun
<1>3. ASSUME NEW j \in Jobs, RepairJob(j) PROVE FALSE
    BY <1>3 DEF RepairJob, TypeOK, RepairTypeOK
<1> QED BY <1>1, <1>2, <1>3

LEMMA StepBegunInv == RefInv /\ [Next]_vars => BegunInv'
<1> SUFFICES ASSUME RefInv, [Next]_vars, NEW i \in Jobs, HasWorker(i)' \/ snap'[i] # NoSnap
             PROVE  Begun(i)'
    BY DEF BegunInv
<1>0. JobInv /\ TypeInv /\ TypeOK
    BY DEF RefInv, JobInv, TypeInv
<1>1. CASE HasWorker(i) \/ snap[i] # NoSnap
    BY <1>0, <1>1, BegunForGood DEF RefInv, BegunInv
<1>2. CASE ~HasWorker(i) /\ HasWorker(i)'
    BY <1>0, <1>2, WorkerAppears
<1>3. CASE snap[i] = NoSnap /\ snap'[i] # NoSnap
    BY <1>0, <1>3, RecordAppears, BegunForGood
<1> QED BY <1>1, <1>2, <1>3

LEMMA AlwaysRefInv == Spec => []RefInv
<1>1. Init => BegunInv
    BY DEF Init, BegunInv, HasWorker, IsLive, LiveStates
<1>2. Spec => []BegunInv
    BY <1>1, StepBegunInv, AlwaysJobInv, PTL DEF RefInv, Spec
<1> QED BY <1>2, AlwaysJobInv, PTL DEF RefInv

(***************************************************************************)
(* Steps.  A step that moves job j's context to t, and at most ends its    *)
(* worker, is Complete, Fail, Cancel, Leave or nothing.                    *)
(***************************************************************************)
LEMMA PhaseMoves ==
    ASSUME CtxTypeOK, NEW j \in Jobs, NEW t, ctx' = [ctx EXCEPT ![j] = t]
    PROVE  Phases' = [Phases EXCEPT ![j] = Phase(t)]
BY DEF Phases, CtxTypeOK

\* A step that keeps the phases and the busy jobs is no step of the abstract job.
LEMMA Stutters ==
    ASSUME UNCHANGED Phases, UNCHANGED Busy
    PROVE  AbsStep
BY DEF AbsStep, Lifecycle!vars, Phases, Busy

\* A step that keeps the phases and at most ends j's worker is Leave or nothing.
LEMMA PhasesStay ==
    ASSUME UNCHANGED Phases, NEW j \in Jobs, Busy' \in {Busy, Busy \ {j}}
    PROVE  AbsStep
<1>1. CASE Busy' = Busy
    BY <1>1, Stutters
<1>2. CASE Busy' = Busy \ {j} /\ Busy' # Busy
    BY <1>2 DEF AbsStep, Lifecycle!Next, Lifecycle!Leave, Phases, Busy
<1> QED BY <1>1, <1>2

LEMMA Settles ==
    ASSUME CtxTypeOK, NEW j \in Jobs, NEW t \in {ctx[j], "Completed", "Failed", "Cancelled"},
           ctx' = [ctx EXCEPT ![j] = t],
           t = ctx[j] \/ CanTransition(ctx[j], t),
           t = "Completed" => j \in Busy \/ t = ctx[j],
           t = "Failed" => Begun(j) \/ t = ctx[j],
           Busy' \in {Busy, Busy \ {j}}
    PROVE  AbsStep
<1>1. Phases' = [Phases EXCEPT ![j] = Phase(t)] /\ Phases[j] = Phase(ctx[j])
    BY PhaseMoves DEF Phases
<1>2. CASE t = ctx[j]
    <2>1. Phases' = Phases
        BY <1>1, <1>2 DEF Phases
    <2> QED BY <2>1, PhasesStay
<1>3. CASE t = "Completed" /\ t # ctx[j]
    <2>1. Phases[j] = "held" /\ Phase(t) = "completed"
        BY <1>1, <1>3 DEF CanTransition, Successors, Phase
    <2> QED BY <1>1, <1>3, <2>1 DEF AbsStep, Lifecycle!Next, Lifecycle!Complete, Lifecycle!Move,
                Lifecycle!MayLeave, Phases, Busy
<1>4. CASE t = "Failed" /\ t # ctx[j]
    <2>1. Phases[j] \in {"held", "completed"} /\ Phase(t) = "failed"
        BY <1>1, <1>4 DEF CanTransition, Successors, Phase, Begun
    <2> QED BY <1>1, <1>4, <2>1 DEF AbsStep, Lifecycle!Next, Lifecycle!Fail, Lifecycle!Move,
                Lifecycle!MayLeave, Phases, Busy
<1>5. CASE t = "Cancelled" /\ t # ctx[j]
    <2>1. Phases[j] \in {"queued", "held"} /\ Phase(t) = "cancelled"
        BY <1>1, <1>5 DEF CanTransition, Successors, Phase
    <2> QED BY <1>1, <1>5, <2>1 DEF AbsStep, Lifecycle!Next, Lifecycle!Cancel, Lifecycle!HasSlot,
                Lifecycle!Move, Lifecycle!MayLeave, Phases, Busy
<1> QED BY <1>2, <1>3, <1>4, <1>5

\* The abstract specification counts as this one does.
LEMMA SameCount == \A S : Lifecycle!Cardinality(S) = Cardinality(S)
BY Zenon DEF Lifecycle!Cardinality, Cardinality

\* Ending one worker of j empties j's busy bit or changes nothing.
LEMMA EndsOne ==
    ASSUME SchedTypeOK, NEW j \in Jobs, NEW g \in Gens, NEW pc, Goto(j, g, pc),
           pc = "finished" \/ (IsLive(j, g) /\ pc \in LiveStates)
    PROVE  Busy' \in {Busy, Busy \ {j}}
<1>1. LiveShrinks
    BY GotoShrinks
<1>2. \A i \in Jobs : i # j => (HasWorker(i)' <=> HasWorker(i))
    BY DEF Goto, HasWorker, IsLive, SchedTypeOK
<1>3. HasWorker(j)' => HasWorker(j)
    BY <1>1 DEF LiveShrinks, HasWorker
<1> QED BY <1>2, <1>3 DEF Busy

LEMMA CreateIsAccept ==
    ASSUME RefInv, NEW j \in Jobs, CreateJob(j)
    PROVE  AbsStep
<1>0. CtxTypeOK /\ ctx[j] = "Absent" /\ UNCHANGED Busy
    BY DEF RefInv, JobInv, TypeInv, TypeOK, IdleInv, CreateJob, Busy, HasWorker, IsLive
<1>1. CASE CreateAdmits
    <2>1. ctx' = [ctx EXCEPT ![j] = "Pending"]
        BY <1>1 DEF CreateJob
    <2>2. Phases' = [Phases EXCEPT ![j] = "queued"] /\ Phases[j] = "unknown"
        BY <1>0, <2>1, PhaseMoves DEF Phase, Phases
    <2>3. Lifecycle!SlotsTaken = Blocking
        BY DEF Lifecycle!SlotsTaken, Lifecycle!HasSlot, Blocking, IsParallelBlocking, Phase
    <2>4. Lifecycle!Cardinality(Lifecycle!SlotsTaken) < MaxJobs
        BY <1>1, <2>3, SameCount DEF CreateAdmits
    <2>5. Lifecycle!Accept(j)
        BY <1>0, <2>2, <2>4 DEF Lifecycle!Accept, Lifecycle!Move, Phases, Busy
    <2> QED BY <2>5 DEF AbsStep, Lifecycle!Next
<1>2. CASE ~CreateAdmits
    BY <1>0, <1>2, Stutters DEF CreateJob, Phases
<1> QED BY <1>1, <1>2

\* While schedule() holds the lock, every executing worker is in the map, so the room
\* it saw in the map is room among the workers.
LEMMA CommitIsBegin ==
    ASSUME RefInv, NEW j \in Jobs, NEW who \in {"dispatch", "help"}, ScheduleCommit(who, j)
    PROVE  AbsStep
<1>0. CtxTypeOK /\ SchedTypeOK /\ LockInv /\ CapInv /\ LiveWorkerIsTracked
    BY DEF RefInv, JobInv, TypeInv, TypeOK, SchedInv
<1>1. CASE ~CanTransition(ctx[j], "InProgress")
    BY <1>1, Stutters DEF ScheduleCommit, Phases, Busy, HasWorker, IsLive
<1>2. CASE CanTransition(ctx[j], "InProgress")
    <2>1. ctx' = [ctx EXCEPT ![j] = "InProgress"] /\ SpawnWorker(j)
        BY <1>2 DEF ScheduleCommit, SetState
    <2>2. Phases' = [Phases EXCEPT ![j] = "held"] /\ Lifecycle!HasSlot(j)
        BY <1>0, <1>2, <2>1, PhaseMoves DEF Phase, Phases, Lifecycle!HasSlot, CanTransition, Successors
    <2>3. Busy \in SUBSET Scheduled /\ j \notin Busy
        BY <1>0, GensPositive, HeldInjective
        DEF Busy, HasWorker, Scheduled, LiveWorkerIsTracked, LockInv, ScheduleCommit
    <2>4. Cardinality(Busy) < MaxParallel
        <3>1. Cardinality(Busy) <= Cardinality(Scheduled) /\ Cardinality(Busy) \in Nat
            BY <2>3, ScheduledFinite, FS_Subset, FS_CardinalityType
        <3>2. Cardinality(Scheduled) < MaxParallel /\ MaxParallel \in Nat
            BY <1>0, HeldInjective, LimitsAssumption DEF CapInv, ScheduleCommit, LimitsAssumption
        <3> QED BY <3>1, <3>2, ScheduledFinite
    <2>5. Busy' = Busy \cup {j}
        <3>1. gen[j] + 1 \in Gens
            BY NextGen DEF RefInv, JobInv, TypeInv, TypeOK, ScheduleCommit
        <3>2. worker' = [worker EXCEPT ![j][gen[j] + 1] = "wait"]
            BY <2>1 DEF SpawnWorker
        <3>3. \A i \in Jobs : HasWorker(i)' <=> i = j \/ HasWorker(i)
            BY <1>0, <3>1, <3>2 DEF SchedTypeOK, HasWorker, IsLive, LiveStates
        <3> QED BY <3>3 DEF Busy
    <2>6. Lifecycle!Cardinality(Busy) < MaxParallel
        BY <2>4, SameCount
    <2>7. Lifecycle!Begin(j)
        BY <2>2, <2>3, <2>5, <2>6 DEF Lifecycle!Begin, Lifecycle!Move, Phases, Busy
    <2> QED BY <2>7 DEF AbsStep, Lifecycle!Next
<1> QED BY <1>1, <1>2

\* Every worker step ends with its job where a worker may take it.
LEMMA WorkerSettles ==
    ASSUME RefInv, NEW j \in Jobs, NEW g \in Gens, WorkerStep(j, g)
    PROVE  AbsStep
<1>0. CtxTypeOK /\ SchedTypeOK /\ BegunInv
    BY DEF RefInv, JobInv, TypeInv, TypeOK
<1>1. IsLive(j, g) /\ j \in Busy /\ Begun(j)
    BY <1>0 DEF BegunInv, Busy, HasWorker, WorkerStep, WorkerStart, WorkerSignal, WorkerAnswer,
        WorkerFail, WorkerBudget, WorkerTimeout, WorkerReturn, IsLive, LiveStates
<1>2. Busy' \in {Busy, Busy \ {j}}
    <2>1. \/ UNCHANGED worker
          \/ \E pc \in {"run", "stopped", "returned", "finished"} : Goto(j, g, pc)
        BY DEF WorkerStep, WorkerStart, WorkerSignal, WorkerAnswer, WorkerFail, WorkerBudget,
            WorkerTimeout, WorkerReturn
    <2>2. CASE UNCHANGED worker
        BY <2>2 DEF Busy, HasWorker, IsLive
    <2>3. ASSUME NEW pc \in {"run", "stopped", "returned", "finished"}, Goto(j, g, pc)
          PROVE  Busy' \in {Busy, Busy \ {j}}
        <3>1. pc = "finished" \/ pc \in LiveStates
            BY DEF LiveStates
        <3> QED BY <1>0, <1>1, <2>3, <3>1, EndsOne
    <2> QED BY <2>1, <2>2, <2>3
<1>3. ASSUME NEW t \in {"Completed", "Failed"}, Mark(j, t) PROVE AbsStep
    <2>1. CASE CanTransition(ctx[j], t)
        <3>1. ctx' = [ctx EXCEPT ![j] = t]
            BY <1>3, <2>1 DEF Mark, SetState
        <3> QED BY <1>0, <1>1, <1>2, <2>1, <3>1, Settles
    <2>2. CASE ~CanTransition(ctx[j], t)
        <3>1. ctx' = [ctx EXCEPT ![j] = ctx[j]]
            BY <1>0, <1>3, <2>2 DEF Mark, CtxTypeOK
        <3> QED BY <1>0, <1>2, <3>1, Settles
    <2> QED BY <2>1, <2>2
<1>4. CASE UNCHANGED ctx
    <2>1. ctx' = [ctx EXCEPT ![j] = ctx[j]]
        BY <1>0, <1>4 DEF CtxTypeOK
    <2> QED BY <1>0, <1>2, <2>1, Settles
<1>5. CASE WorkerTimeout(j, g)
    <2>1. CASE CanTransition(ctx[j], "Stuck")
        <3>1. ctx' = [ctx EXCEPT ![j] = "Stuck"] /\ ctx[j] = "InProgress"
            BY <1>5, <2>1 DEF WorkerTimeout, Mark, SetState, CanTransition, Successors
        <3>2. Phases' = Phases
            BY <1>0, <3>1, PhaseMoves DEF Phases, Phase
        <3> QED BY <1>2, <3>2, PhasesStay
    <2>2. CASE ~CanTransition(ctx[j], "Stuck")
        BY <1>4, <1>5, <2>2 DEF WorkerTimeout, Mark
    <2> QED BY <2>1, <2>2
<1>6. CASE WorkerStart(j, g) \/ WorkerSignal(j, g)
    BY <1>4, <1>6 DEF WorkerStart, WorkerSignal
<1>7. CASE WorkerAnswer(j, g) \/ WorkerFail(j, g) \/ WorkerBudget(j, g) \/ WorkerReturn(j, g)
    BY <1>3, <1>4, <1>7 DEF WorkerAnswer, WorkerFail, WorkerBudget, WorkerReturn
<1> QED BY <1>5, <1>6, <1>7 DEF WorkerStep

LEMMA StopSettles ==
    ASSUME RefInv, NEW j \in Jobs, StopEnd(j)
    PROVE  AbsStep
<1>0. CtxTypeOK /\ SchedTypeOK
    BY DEF RefInv, JobInv, TypeInv, TypeOK
<1>1. Busy' \in {Busy, Busy \ {j}}
    <2>1. lock.gen \in Gens /\ Goto(j, lock.gen, "finished")
        BY HeldInjective DEF StopEnd, RefInv, JobInv, TypeInv, TypeOK, LockTypeOK, Held, Free
    <2> QED BY <1>0, <2>1, EndsOne
<1>2. ctx' = [ctx EXCEPT ![j] = TransitionTo(ctx[j], "Cancelled")]
    BY DEF StopEnd
<1>3. CASE CanTransition(ctx[j], "Cancelled")
    BY <1>0, <1>1, <1>2, <1>3, Settles DEF TransitionTo
<1>4. CASE ~CanTransition(ctx[j], "Cancelled")
    BY <1>0, <1>1, <1>2, <1>4, Settles DEF TransitionTo
<1> QED BY <1>3, <1>4

LEMMA RepairSettles ==
    ASSUME RefInv, NEW j \in Jobs, RepairJob(j)
    PROVE  AbsStep
<1>0. CtxTypeOK /\ Begun(j) /\ UNCHANGED Busy
    BY DEF RefInv, JobInv, TypeInv, TypeOK, BegunInv, RepairJob, Busy, HasWorker, IsLive
<1>1. CASE RepairExhausted(j)
    <2>1. ctx' = [ctx EXCEPT ![j] = TransitionTo(ctx[j], "Failed")]
        BY <1>1 DEF RepairJob
    <2>2. CASE CanTransition(ctx[j], "Failed")
        BY <1>0, <2>1, <2>2, Settles DEF TransitionTo
    <2>3. CASE ~CanTransition(ctx[j], "Failed")
        BY <1>0, <2>1, <2>3, Settles DEF TransitionTo
    <2> QED BY <2>2, <2>3
<1>2. CASE ~RepairExhausted(j)
    <2>1. CASE ctx[j] \in {"InProgress", "Stuck"}
        <3>1. ctx' = [ctx EXCEPT ![j] = "InProgress"]
            BY <1>2, <2>1 DEF RepairJob, AttemptRecovery
        <3>2. Phases' = Phases
            BY <1>0, <2>1, <3>1, PhaseMoves DEF Phases, Phase
        <3> QED BY <1>0, <3>2, Stutters
    <2>2. CASE ctx[j] \notin {"InProgress", "Stuck"}
        BY <1>0, <1>2, <2>2, Stutters DEF RepairJob, Phases
    <2> QED BY <2>1, <2>2
<1> QED BY <1>1, <1>2

\* Cancel by the tool, help and the repair task's inspection.
LEMMA OtherMoves ==
    ASSUME RefInv, NEW j \in Jobs, CancelTool(j) \/ HelpJob(j) \/ RepairInspect(j)
    PROVE  AbsStep
<1>0. CtxTypeOK /\ UNCHANGED Busy
    BY DEF RefInv, JobInv, TypeInv, TypeOK, CancelTool, HelpJob, RepairInspect, Busy, HasWorker, IsLive
<1>1. CASE CancelTool(j)
    BY <1>0, <1>1, Settles DEF CancelTool, SetState
<1>2. CASE HelpJob(j)
    <2>1. ctx' = [ctx EXCEPT ![j] = "InProgress"] /\ ctx[j] = "Stuck"
        BY <1>2 DEF HelpJob, AttemptRecovery
    <2>2. Phases' = Phases
        BY <1>0, <2>1, PhaseMoves DEF Phases, Phase
    <2> QED BY <1>0, <2>2, Stutters
<1>3. CASE RepairInspect(j)
    <2>1. CASE UNCHANGED ctx
        BY <1>0, <2>1, Stutters DEF Phases
    <2>2. CASE ctx' = [ctx EXCEPT ![j] = "Stuck"] /\ ctx[j] = "InProgress"
        <3>1. Phases' = Phases
            BY <1>0, <2>2, PhaseMoves DEF Phases, Phase
        <3> QED BY <1>0, <3>1, Stutters
    <2> QED BY <1>3, <2>1, <2>2 DEF RepairInspect, SetState
<1> QED BY <1>1, <1>2, <1>3

LEMMA StepRefines == RefInv /\ [Next]_vars => AbsStep
<1> SUFFICES ASSUME RefInv, [Next]_vars PROVE AbsStep
    OBVIOUS
<1>1. CASE UNCHANGED <<ctx, worker>>
    BY <1>1, Stutters DEF Phases, Busy, HasWorker, IsLive
<1>2. ASSUME NEW j \in Jobs, CallStep(j) PROVE AbsStep
    <2>1. CASE \/ SaveJob(j) \/ RequestCancel(j) \/ RequestStopAll(j) \/ StopBegin(j)
               \/ CancelPersist(j) \/ \E who \in {"dispatch", "help"} : ScheduleCheck(who, j)
        BY <1>1, <2>1 DEF SaveJob, RequestCancel, RequestStopAll, StopBegin, CancelPersist, ScheduleCheck
    <2> QED BY <1>2, <2>1, CreateIsAccept, CommitIsBegin, StopSettles, OtherMoves DEF CallStep
<1>3. ASSUME NEW j \in Jobs, TaskStep(j) PROVE AbsStep
    <2>1. CASE \/ \E g \in Gens : CleanupPoll(j, g) \/ CleanupRemove(j, g)
               \/ TickStarted(j) \/ TickStuck(j) \/ \E s \in JobState : DbWrite(j, s)
        BY <1>1, <2>1 DEF CleanupPoll, CleanupRemove, TickStarted, TickStuck, DbWrite
    <2> QED BY <1>3, <2>1, WorkerSettles, RepairSettles, OtherMoves DEF TaskStep
<1>4. CASE RepairScan \/ UNCHANGED vars
    BY <1>1, <1>4 DEF RepairScan, vars
<1> QED BY <1>2, <1>3, <1>4 DEF Next

\* The scheduler, its workers and clean-up tasks, the user's commands and self-repair
\* together implement the abstract job: accepted while a slot is free, executed by one
\* worker at a time within the capacity, completed by that worker alone, and over for good.
THEOREM ImplementsJobLifecycle == Spec => ImplementsLifecycle
<1>1. Init => Lifecycle!Init
    BY DEF Init, Lifecycle!Init, Phase, HasWorker, IsLive, LiveStates
<1>2. RefInv /\ [Next]_vars => [Lifecycle!Next]_(Lifecycle!vars)
    BY StepRefines DEF AbsStep
<1> QED BY <1>1, <1>2, AlwaysRefInv, PTL DEF Spec, ImplementsLifecycle, Lifecycle!Spec

(***************************************************************************)
(* What the jobs table and self-repair may claim.  Job by job:             *)
(*  - until dispatch returns the job has not been executed, and no help    *)
(*    command is in flight for it (EarlyInv); one in flight has been       *)
(*    counted (HelpInv);                                                   *)
(*  - a completed job has no worker that is still executing: the one that  *)
(*    completed it is on its way out and no other can begin (DoneInv);     *)
(*  - a job of which the repair task keeps a record stays stuck or ends,   *)
(*    unless a help command brought it back (StaleInv);                    *)
(*  - a job that was completed is so still or has failed, and one that     *)
(*    failed stays so (PastInv);                                           *)
(*  - the outcomes that are or will be written have happened (TruthInv).   *)
(***************************************************************************)
EarlyInv(i) == disp[i] # "done" => ctx[i] \in {"Absent", "Pending", "Failed", "Cancelled"} /\ help[i] = "idle"
HelpInv(i)  == help[i] = "resched" => helps[i] # 0
DoneInv(i)  == ctx[i] = "Completed" => \A g \in Gens : worker[i][g] \notin {"wait", "run"}
StaleInv(i) == snap[i] # NoSnap /\ helps[i] = 0 => ctx[i] \in {"Stuck", "Failed", "Cancelled"}
PastInv(i) ==
    /\ "Completed" \in been[i] => ctx[i] \in {"Completed", "Failed"}
    /\ "Failed" \in been[i] => ctx[i] = "Failed"

Claimed(i)  == writes[i] \cup {db[i]}
TruthInv(i) == Claimed(i) \cap Outcomes \subseteq been[i]

StoryInv ==
    \A i \in Jobs : EarlyInv(i) /\ HelpInv(i) /\ DoneInv(i) /\ StaleInv(i) /\ PastInv(i) /\ TruthInv(i)

\* A change of j's context, call or record is none of another job's.
LEMMA CtxOthers ==
    ASSUME CtxTypeOK, NEW j \in Jobs, CtxChange(j), NEW i \in Jobs, i # j
    PROVE  ctx'[i] = ctx[i]
BY CtxChangeMoves DEF Moves, CtxTypeOK

LEMMA StepEarlyInv ==
    ASSUME TypeInv, StoryInv, [Next]_vars, NEW i \in Jobs
    PROVE  EarlyInv(i)' /\ HelpInv(i)'
<1>0. CtxTypeOK /\ CallTypeOK /\ EarlyInv(i) /\ HelpInv(i) /\ HolderInv /\ IdleInv
    BY DEF TypeInv, TypeOK, StoryInv
<1>1. ASSUME NEW j \in Jobs, CreateJob(j) \/ SaveJob(j) PROVE EarlyInv(i)' /\ HelpInv(i)'
    BY <1>0, <1>1 DEF CreateJob, SaveJob, EarlyInv, HelpInv, CtxTypeOK, CallTypeOK, IdleInv
<1>2. ASSUME NEW j \in Jobs, NEW who \in {"dispatch", "help"}, ScheduleCheck(who, j)
      PROVE  EarlyInv(i)' /\ HelpInv(i)'
    BY <1>0, <1>2 DEF ScheduleCheck, CallerReturns, EarlyInv, HelpInv, CallTypeOK
<1>3. ASSUME NEW j \in Jobs, NEW who \in {"dispatch", "help"}, ScheduleCommit(who, j)
      PROVE  EarlyInv(i)' /\ HelpInv(i)'
    <2>1. CASE i # j
        <3>1. ctx'[i] = ctx[i]
            BY <1>0, <1>3, <2>1, CtxOthers DEF CtxChange
        <3> QED BY <1>0, <1>3, <2>1, <3>1 DEF ScheduleCommit, CallerReturns, EarlyInv, HelpInv, CallTypeOK
    <2>2. CASE i = j
        <3>1. disp'[i] = "done"
            BY <1>0, <1>3, <2>2 DEF ScheduleCommit, CallerReturns, EarlyInv, CallTypeOK, HolderInv
        <3>2. HelpInv(i)'
            BY <1>0, <1>3 DEF ScheduleCommit, CallerReturns, HelpInv, CallTypeOK
        <3> QED BY <3>1, <3>2 DEF EarlyInv
    <2> QED BY <2>1, <2>2
<1>4. ASSUME NEW j \in Jobs, HelpJob(j) PROVE EarlyInv(i)' /\ HelpInv(i)'
    BY <1>0, <1>4 DEF HelpJob, AttemptRecovery, EarlyInv, HelpInv, CtxTypeOK, CallTypeOK
<1>5. CASE ~ \E j \in Jobs :
                \/ CreateJob(j) \/ SaveJob(j) \/ HelpJob(j)
                \/ \E who \in {"dispatch", "help"} : ScheduleCheck(who, j) \/ ScheduleCommit(who, j)
    <2>1. UNCHANGED <<disp, help, helps>>
        BY <1>5, CallFrame DEF CallChange, RequestCancel, RequestStopAll, StopBegin, StopEnd, CancelPersist
    <2>2. ctx[i] \in {"Absent", "Pending", "Failed", "Cancelled"} => ctx'[i] \in {ctx[i], "Failed", "Cancelled"}
        <3>1. CASE ~ \E j \in Jobs : CtxChange(j)
            BY <3>1, CtxFrame
        <3>2. ASSUME NEW j \in Jobs, CtxChange(j), ctx[i] \in {"Absent", "Pending", "Failed", "Cancelled"}
              PROVE  ctx'[i] \in {ctx[i], "Failed", "Cancelled"}
            <4>1. CASE i # j
                BY <1>0, <3>2, <4>1, CtxOthers
            <4>2. CASE i = j
                BY <1>0, <1>5, <3>2, <4>2
                DEF CtxChange, MarkStep, WorkerAnswer, WorkerFail, WorkerBudget, WorkerTimeout, WorkerReturn, Mark,
                    SetState, StopEnd, CancelTool, RepairInspect, RepairJob, AttemptRecovery, TickStarted,
                    TickStuck, TransitionTo, CanTransition, Successors, CtxTypeOK
            <4> QED BY <4>1, <4>2
        <3> QED BY <3>1, <3>2
    <2> QED BY <1>0, <2>1, <2>2 DEF EarlyInv, HelpInv
<1> QED BY <1>1, <1>2, <1>3, <1>4, <1>5

\* Only schedule() makes a worker that is about to execute, and it takes the job to InProgress.
LEMMA BusyShrinks ==
    ASSUME TypeInv, [Next]_vars, NEW i \in Jobs, NEW h \in Gens, worker'[i][h] \in {"wait", "run"}
    PROVE  \/ worker[i][h] \in {"wait", "run"}
           \/ ctx'[i] = "InProgress" /\ gen'[i] # 0
<1>0. CtxTypeOK /\ SchedTypeOK /\ LockTypeOK
    BY DEF TypeInv, TypeOK
<1>w. worker \in [Jobs -> [Gens -> LiveStates \cup {"none", "finished"}]]
    BY <1>0 DEF SchedTypeOK
<1>1. ASSUME NEW j \in Jobs, NEW who \in {"dispatch", "help"}, ScheduleCommit(who, j),
             CanTransition(ctx[j], "InProgress"), worker'[i][h] # worker[i][h]
      PROVE  ctx'[i] = "InProgress" /\ gen'[i] # 0
    <2>1. gen[j] + 1 \in Gens
        BY <1>1, NextGen DEF TypeInv, TypeOK, ScheduleCommit
    <2>2. worker' = [worker EXCEPT ![j][gen[j] + 1] = "wait"] /\ gen' = [gen EXCEPT ![j] = gen[j] + 1]
        BY <1>1 DEF ScheduleCommit, SpawnWorker
    <2>3. i = j
        BY <1>1, <1>w, <2>1, <2>2
    <2>4. ctx'[i] = "InProgress"
        BY <1>0, <1>1, <2>3 DEF ScheduleCommit, SetState, CtxTypeOK
    <2> QED BY <1>0, <2>1, <2>2, <2>3, <2>4, GensPositive DEF SchedTypeOK
<1>2. ASSUME NEW j \in Jobs, NEW g \in Gens, WorkerStart(j, g) PROVE worker[i][h] \in {"wait", "run"}
    BY <1>2, <1>w DEF WorkerStart, Goto
<1>3. ASSUME NEW j \in Jobs, NEW g \in Gens, NEW pc \in {"stopped", "returned", "finished"}, Goto(j, g, pc)
      PROVE  worker[i][h] \in {"wait", "run"}
    BY <1>3, <1>w DEF Goto
<1>4. ASSUME NEW j \in Jobs, NEW g \in Gens, WorkerStep(j, g)
      PROVE  worker[i][h] \in {"wait", "run"}
    <2>1. \/ WorkerStart(j, g) \/ UNCHANGED worker
          \/ Goto(j, g, "stopped") \/ Goto(j, g, "returned") \/ Goto(j, g, "finished")
        BY <1>4 DEF WorkerStep, WorkerSignal, WorkerAnswer, WorkerFail, WorkerBudget, WorkerTimeout, WorkerReturn
    <2> QED BY <1>2, <1>3, <2>1
<1>5. ASSUME NEW j \in Jobs, StopEnd(j) PROVE worker[i][h] \in {"wait", "run"}
    <2>1. lock.gen \in Gens
        BY <1>0, <1>5, HeldInjective DEF StopEnd, LockTypeOK, Held, Free
    <2> QED BY <1>3, <1>5, <2>1 DEF StopEnd
<1>6. CASE ~ \E j \in Jobs :
                \/ StopEnd(j)
                \/ \E who \in {"dispatch", "help"} : ScheduleCommit(who, j) /\ CanTransition(ctx[j], "InProgress")
                \/ \E g \in Gens : WorkerStep(j, g)
    BY <1>6, SchedFrame DEF SchedChange, ScheduleCheck, ScheduleCommit, StopBegin, CleanupPoll, CleanupRemove
<1> QED BY <1>1, <1>4, <1>5, <1>6

\* A job is completed by its worker, which is then past its loop.
LEMMA CompletedByWorker ==
    ASSUME TypeInv, [Next]_vars, NEW i \in Jobs, ctx[i] # "Completed", ctx'[i] = "Completed"
    PROVE  \E g \in Gens : /\ IsLive(i, g)
                           /\ \E pc \in {"returned", "finished"} : Goto(i, g, pc)
                           /\ ctx[i] = "InProgress" /\ writes' = Spawned(i, "Completed")
<1>0. CtxTypeOK
    BY DEF TypeInv, TypeOK
<1>1. PICK j \in Jobs : CtxChange(j)
    BY CtxFrame
<1>2. i = j
    BY <1>0, <1>1, CtxOthers
<1>3. PICK g \in Gens : WorkerAnswer(i, g) \/ WorkerReturn(i, g)
    BY <1>0, <1>1, <1>2
    DEF CtxChange, MarkStep, CreateJob, ScheduleCommit, WorkerFail, WorkerBudget, WorkerTimeout, Mark, SetState,
        StopEnd, CancelTool, HelpJob, RepairInspect, RepairJob, AttemptRecovery, TickStarted, TickStuck,
        TransitionTo, CanTransition, Successors, CtxTypeOK
<1>4. Mark(i, "Completed") /\ CanTransition(ctx[i], "Completed")
    BY <1>3 DEF WorkerAnswer, WorkerReturn, Mark
<1>5. ctx[i] = "InProgress" /\ writes' = Spawned(i, "Completed")
    BY <1>4 DEF Mark, CanTransition, Successors
<1> QED BY <1>3, <1>5 DEF WorkerAnswer, WorkerReturn, IsLive, LiveStates

LEMMA StepDoneInv ==
    ASSUME JobInv, StoryInv, [Next]_vars, NEW i \in Jobs
    PROVE  DoneInv(i)'
<1> SUFFICES ASSUME ctx'[i] = "Completed", NEW h \in Gens, worker'[i][h] \in {"wait", "run"} PROVE FALSE
    BY DEF DoneInv
<1>0. TypeInv /\ SchedTypeOK /\ DoneInv(i)
    BY DEF JobInv, TypeInv, TypeOK, StoryInv
<1>1. worker[i][h] \in {"wait", "run"}
    BY <1>0, BusyShrinks
<1>2. ctx[i] # "Completed"
    BY <1>0, <1>1 DEF DoneInv
<1>3. PICK g \in Gens : IsLive(i, g) /\ \E pc \in {"returned", "finished"} : Goto(i, g, pc)
    BY <1>0, <1>2, CompletedByWorker
<1>4. g = h
    BY <1>1, <1>3, GensPositive, HeldInjective
    DEF JobInv, SchedInv, LockInv, LiveWorkerIsTracked, IsLive, LiveStates
<1> QED BY <1>0, <1>3, <1>4 DEF Goto, SchedTypeOK

\* A completed job can only be failed, by a repair that acts on an old record.
LEMMA CompletedFails ==
    ASSUME JobInv, StoryInv, [Next]_vars, NEW i \in Jobs, ctx[i] = "Completed", ctx'[i] # "Completed"
    PROVE  /\ ctx'[i] = "Failed"
           /\ snap[i] >= MaxRepair /\ helps[i] > 0
<1>0. CtxTypeOK /\ CallTypeOK /\ IdleInv /\ EarlyInv(i) /\ DoneInv(i) /\ StaleInv(i)
    BY DEF JobInv, TypeInv, TypeOK, StoryInv
<1>1. PICK j \in Jobs : CtxChange(j)
    BY CtxFrame
<1>2. i = j
    BY <1>0, <1>1, CtxOthers
<1>3. ASSUME NEW g \in Gens, MarkStep(i, g) PROVE FALSE
    <2>1. worker[i][g] # "run"
        BY <1>0 DEF DoneInv
    <2>2. WorkerReturn(i, g)
        BY <1>3, <2>1 DEF MarkStep, WorkerAnswer, WorkerFail, WorkerBudget, WorkerTimeout
    <2> QED BY <2>2 DEF WorkerReturn
<1>4. RepairJob(i)
    BY <1>0, <1>1, <1>2, <1>3
    DEF CtxChange, CreateJob, IdleInv, ScheduleCommit, StopEnd, CancelTool, HelpJob, RepairInspect, TickStarted,
        TickStuck, SetState, TransitionTo, CanTransition, Successors, CtxTypeOK
<1>5. RepairExhausted(i) /\ ctx'[i] = "Failed" /\ snap[i] # NoSnap
    BY <1>0, <1>4 DEF RepairJob, TransitionTo, CanTransition, Successors, CtxTypeOK
<1>6. helps[i] # 0 /\ helps[i] \in Nat
    BY <1>0, <1>5, LimitsAssumption DEF StaleInv, CallTypeOK, LimitsAssumption
<1> QED BY <1>5, <1>6 DEF RepairExhausted

\* No step of any component moves a failed job.
LEMMA FailedStays ==
    ASSUME TypeInv, [Next]_vars, NEW i \in Jobs, ctx[i] \in {"Failed", "Cancelled"}
    PROVE  ctx'[i] = ctx[i]
<1>0. CtxTypeOK /\ disp[i] # "idle"
    BY DEF TypeInv, TypeOK, IdleInv
<1>1. CASE ~ \E j \in Jobs : CtxChange(j)
    BY <1>1, CtxFrame
<1>2. ASSUME NEW j \in Jobs, CtxChange(j) PROVE ctx'[i] = ctx[i]
    BY <1>0, <1>2, CtxChangeMoves, MoveFacts DEF Moves, CtxTypeOK, IsTerminal
<1> QED BY <1>1, <1>2

\* Only help commands take a stuck job back while a record of it is kept.
LEMMA StepStaleInv ==
    ASSUME JobInv, StoryInv, [Next]_vars, NEW i \in Jobs
    PROVE  StaleInv(i)'
<1> SUFFICES ASSUME snap'[i] # NoSnap, helps'[i] = 0
             PROVE  ctx'[i] \in {"Stuck", "Failed", "Cancelled"}
    BY DEF StaleInv
<1>0. CtxTypeOK /\ CallTypeOK /\ RepairTypeOK /\ TypeInv /\ HolderInv /\ EarlyInv(i) /\ HelpInv(i) /\ StaleInv(i)
    BY DEF JobInv, TypeInv, TypeOK, StoryInv
<1>1. CASE snap[i] = NoSnap
    <2>1. PICK j \in Jobs : RepairInspect(j)
        BY <1>0, <1>1, RepairFrame DEF RepairScan, RepairJob, RepairTypeOK
    <2> QED BY <1>0, <1>1, <2>1 DEF RepairInspect, SetState, RepairTypeOK, CtxTypeOK
<1>2. CASE snap[i] # NoSnap
    <2>1. helps[i] = 0
        <3>1. CASE ~ \E j \in Jobs : CallChange(j)
            BY <3>1, CallFrame
        <3>2. ASSUME NEW j \in Jobs, CallChange(j) PROVE helps[i] = 0
            BY <1>0, <3>2, LimitsAssumption DEF LimitsAssumption, CallChange, CreateJob, SaveJob, ScheduleCheck,
                ScheduleCommit, RequestCancel, RequestStopAll, StopBegin, StopEnd, CancelPersist, HelpJob, CallTypeOK
        <3> QED BY <3>1, <3>2
    <2>2. ctx[i] \in {"Stuck", "Failed", "Cancelled"} /\ help[i] # "resched"
        BY <1>0, <1>2, <2>1 DEF StaleInv, HelpInv
    <2>3. CASE ctx[i] \in {"Failed", "Cancelled"}
        BY <1>0, <2>3, FailedStays
    <2>4. CASE ctx[i] = "Stuck"
        <3>1. CASE ~ \E j \in Jobs : CtxChange(j)
            BY <2>4, <3>1, CtxFrame
        <3>2. ASSUME NEW j \in Jobs, CtxChange(j) PROVE ctx'[i] \in {"Stuck", "Failed", "Cancelled"}
            <4>1. CASE i # j
                BY <1>0, <2>4, <3>2, <4>1, CtxOthers
            <4>2. CASE i = j
                <5>1. ASSUME NEW who \in {"dispatch", "help"}, ScheduleCommit(who, j) PROVE FALSE
                    BY <1>0, <2>2, <2>4, <4>2, <5>1 DEF ScheduleCommit, HolderInv, EarlyInv
                <5>2. ~CreateJob(j) /\ ~HelpJob(j) /\ ~RepairJob(j)
                    BY <1>0, <2>1, <2>4, <4>2 DEF CreateJob, HelpJob, RepairJob, EarlyInv, CallTypeOK, RepairTypeOK
                <5> QED BY <1>0, <2>4, <3>2, <4>2, <5>1, <5>2
                    DEF CtxChange, MarkStep, WorkerAnswer, WorkerFail, WorkerBudget, WorkerTimeout, WorkerReturn, Mark,
                        SetState, StopEnd, CancelTool, RepairInspect, TickStarted, TickStuck,
                        TransitionTo, CanTransition, Successors, CtxTypeOK
            <4> QED BY <4>1, <4>2
        <3> QED BY <3>1, <3>2
    <2> QED BY <2>2, <2>3, <2>4
<1> QED BY <1>1, <1>2

\* What a step adds to the outcomes i has had, none of which is ever forgotten: the state
\* it leaves i in, or Stuck, which a repair passes through.
LEMMA PastGrows ==
    ASSUME TypeInv, [Next]_vars, NEW i \in Jobs
    PROVE  /\ been[i] \subseteq been'[i]
           /\ \A s \in been'[i] : s \in been[i] \/ s = ctx'[i] \/ s = "Stuck"
<1>0. CtxTypeOK
    BY DEF TypeInv, TypeOK
<1>1. CASE ~ \E j \in Jobs : CtxChange(j)
    BY <1>1, CtxFrame
<1>2. ASSUME NEW j \in Jobs, CtxChange(j)
      PROVE  /\ been[i] \subseteq been'[i]
             /\ \A s \in been'[i] : s \in been[i] \/ s = ctx'[i] \/ s = "Stuck"
    <2>1. \/ UNCHANGED been \/ Remember(j, "Stuck")
          \/ \E t : ctx' = [ctx EXCEPT ![j] = t] /\ Remember(j, t)
        BY <1>2 DEF CtxChange, MarkStep, CreateJob, ScheduleCommit, WorkerAnswer, WorkerFail, WorkerBudget,
            WorkerTimeout, WorkerReturn, Mark, SetState, StopEnd, CancelTool, HelpJob, RepairInspect,
            RepairJob, TickStarted, TickStuck
    <2> QED BY <1>0, <2>1 DEF Remember, CtxTypeOK
<1> QED BY <1>1, <1>2

LEMMA StepPastInv ==
    ASSUME JobInv, StoryInv, [Next]_vars, NEW i \in Jobs
    PROVE  PastInv(i)'
<1>0. TypeInv /\ PastInv(i)
    BY DEF JobInv, StoryInv
<1>1. ASSUME "Completed" \in been'[i] PROVE ctx'[i] \in {"Completed", "Failed"}
    <2>1. ctx'[i] = "Completed" \/ ctx[i] \in {"Completed", "Failed"}
        BY <1>0, <1>1, PastGrows DEF PastInv
    <2> QED BY <1>0, <2>1, CompletedFails, FailedStays
<1>2. ASSUME "Failed" \in been'[i] PROVE ctx'[i] = "Failed"
    <2>1. ctx'[i] = "Failed" \/ ctx[i] = "Failed"
        BY <1>0, <1>2, PastGrows DEF PastInv
    <2> QED BY <1>0, <2>1, FailedStays
<1> QED BY <1>1, <1>2 DEF PastInv

\* What one step adds to the claims about i: the outcome a worker has just given it, or
\* one of the two statuses that claim no outcome.
LEMMA ClaimsGrow ==
    ASSUME TypeInv, [Next]_vars, NEW i \in Jobs, NEW s \in Claimed(i)', s \in Outcomes
    PROVE  s \in Claimed(i) \/ s \in been'[i]
<1>0. CtxTypeOK /\ DbTypeOK
    BY DEF TypeInv, TypeOK
<1>1. CASE ~ \E j \in Jobs : DbChange(j)
    BY <1>1, DbFrame DEF Claimed
<1>2. ASSUME NEW j \in Jobs, SaveJob(j) \/ StopEnd(j) \/ CancelPersist(j) PROVE s \in Claimed(i)
    BY <1>0, <1>2 DEF SaveJob, StopEnd, CancelPersist, Spawned, Store, Claimed, DbTypeOK, Outcomes
<1>3. ASSUME NEW j \in Jobs, NEW t \in JobState, DbWrite(j, t) PROVE s \in Claimed(i)
    BY <1>0, <1>3 DEF DbWrite, Store, Claimed, DbTypeOK
<1>4. ASSUME NEW j \in Jobs, NEW t, SetState(j, t), writes' = Spawned(j, t), UNCHANGED db
      PROVE  s \in Claimed(i) \/ s \in been'[i]
    <2>1. CASE i # j
        BY <1>0, <1>4, <2>1 DEF Spawned, Claimed, DbTypeOK
    <2>2. CASE i = j
        <3>1. been'[i] = been[i] \cup ({t} \cap Outcomes)
            BY <1>0, <1>4, <2>2 DEF SetState, Remember, CtxTypeOK
        <3>2. s \in Claimed(i) \/ s = t
            BY <1>0, <1>4, <2>2 DEF Spawned, Claimed, DbTypeOK
        <3> QED BY <3>1, <3>2
    <2> QED BY <2>1, <2>2
<1>5. ASSUME NEW j \in Jobs, NEW g \in Gens, MarkStep(j, g)
      PROVE  s \in Claimed(i) \/ s \in been'[i]
    <2>1. UNCHANGED db
        BY <1>5 DEF MarkStep, WorkerAnswer, WorkerFail, WorkerBudget, WorkerTimeout, WorkerReturn
    <2>2. \/ \E t \in Outcomes : SetState(j, t) /\ writes' = Spawned(j, t)
          \/ UNCHANGED writes
        BY <1>5 DEF MarkStep, WorkerAnswer, WorkerFail, WorkerBudget, WorkerTimeout, WorkerReturn, Mark, Outcomes
    <2>3. CASE UNCHANGED writes
        BY <2>1, <2>3 DEF Claimed
    <2> QED BY <1>4, <2>1, <2>2, <2>3
<1> QED BY <1>1, <1>2, <1>3, <1>5 DEF DbChange

LEMMA StepTruthInv ==
    ASSUME JobInv, StoryInv, [Next]_vars, NEW i \in Jobs
    PROVE  TruthInv(i)'
<1>0. TypeInv /\ TruthInv(i)
    BY DEF JobInv, StoryInv
<1>1. ASSUME NEW s \in Claimed(i)', s \in Outcomes PROVE s \in been'[i]
    BY <1>0, <1>1, ClaimsGrow, PastGrows DEF TruthInv
<1> QED BY <1>1 DEF TruthInv

LEMMA AlwaysStoryInv == Spec => [](JobInv /\ StoryInv)
<1>1. Init => StoryInv
    BY DEF Init, StoryInv, EarlyInv, HelpInv, DoneInv, StaleInv, PastInv, TruthInv, Claimed, Outcomes
<1>2. ASSUME JobInv, StoryInv, [Next]_vars PROVE StoryInv'
    <2>1. ASSUME NEW i \in Jobs
          PROVE  (EarlyInv(i) /\ HelpInv(i) /\ DoneInv(i) /\ StaleInv(i) /\ PastInv(i) /\ TruthInv(i))'
        <3>1. TypeInv
            BY <1>2 DEF JobInv
        <3> QED BY <1>2, <3>1, StepEarlyInv, StepDoneInv, StepStaleInv, StepPastInv, StepTruthInv
    <2> QED BY <2>1 DEF StoryInv
<1> QED BY <1>1, <1>2, AlwaysJobInv, PTL DEF Spec

\* In whatever order the spawned writes run and however many of them fail, the jobs table
\* reports Completed, Failed or Stuck only of a job that has been so, Failed only of one
\* that still is, and Completed only of one that still is or has failed since.
THEOREM ReportsHappened == Spec => []ReportedOutcomesHappened
<1>1. StoryInv => ReportedOutcomesHappened
    BY DEF StoryInv, PastInv, TruthInv, Claimed, ReportedOutcomesHappened
<1> QED BY <1>1, AlwaysStoryInv, PTL

\* Nothing undoes a completion but a repair that recorded the job as exhausted before a
\* help command brought it back.
THEOREM CompletionIsUndoneByStaleRepairOnly == Spec => OnlyStaleRepairUndoesCompletion
<1> DEFINE Kept(j) == ctx[j] = "Completed" /\ ctx'[j] # "Completed" =>
                          /\ ctx'[j] = "Failed"
                          /\ snap[j] >= MaxRepair /\ helps[j] > 0
<1>1. JobInv /\ StoryInv /\ [Next]_vars => [\A j \in Jobs : Kept(j)]_vars
    BY CompletedFails
<1> QED BY <1>1, AlwaysStoryInv, PTL DEF Spec, OnlyStaleRepairUndoesCompletion
=============================================================================
