------------------------ MODULE RoutineEngineProofs ------------------------
(***************************************************************************)
(* TLAPS proofs about RoutineEngine, for every set of routines, every      *)
(* limit and every number of runs, failed writes and restarts.             *)
(***************************************************************************)
EXTENDS RoutineEngine, FiniteSetTheorems, TLAPS

USE RoutineAssumption DEF tables, taskVars, history, env

(***************************************************************************)
(* The invariant.                                                          *)
(***************************************************************************)
\* The tasks that hold a run: they have recorded it and have not finished it.
Held == Executing \cup {"start", "complete"}

\* The scheduler has no job of this run, or the job is over, or the run gave it up.
Settled(i) == i \in scheduled => i \in over \cup gaveUp

Busy == {i \in Runs : task[i].at \in Executing}

RoutineType == [Routines -> [due : BOOLEAN, cooling : BOOLEAN]]
RowType == [Runs -> [routine : Routines \cup {"none"}, linked : BOOLEAN, old : BOOLEAN,
                     status : Final \cup {"none", "running"}]]
TaskType == [Runs -> [at : TaskState, routine : Routines \cup {"none"}]]
TickerType == [at : {"idle", "syncing", "completing", "finalise", "checking"},
               todo : SUBSET (Runs \cup Routines), run : Runs \cup {0}, found : Final]
CallerType == [at : {"idle", "admitted"}, routine : Routines \cup {"none"}]

TypeInv ==
    /\ routine \in RoutineType /\ row \in RowType
    /\ job \in [Runs -> JobState \cup {"none"}]
    /\ task \in TaskType /\ outcome \in [Runs -> Final]
    /\ ticker \in TickerType /\ caller \in CallerType

CountInv == running = Cardinality(Busy)

\* What a run's row and job are while its task is there; the last two are the
\* bodies of LiveRowIsOwned and JobHoldsItsRun.
RunInv(i) ==
    /\ task[i].at \in Held => row[i].status = "running" /\ ~row[i].old
    /\ task[i].at = "record" => row[i].status = "none"
    /\ task[i].at \in {"start", "light", "dispatch"} => job[i] = "none"
    /\ task[i].at = "schedule" => job[i] # "none" /\ i \notin scheduled
    /\ row[i].status = "none" => job[i] = "none"
    /\ job[i] = "none" => i \notin scheduled
    /\ job[i] # "none" /\ ~IsParallelBlocking(job[i]) => i \in over
    /\ task[i].at = "complete" => Settled(i)
    /\ row[i].status = "running" /\ ~row[i].old /\ i \notin unwritten => task[i].at \in Held
    /\ ~Settled(i) => row[i].status = "running"

OwnInv == \A i \in Runs : RunInv(i)

\* The recovery has only runs of an earlier process in hand; the one it completes is not
\* on its list any more, and its job has been found over.
Recovering == ticker.at \in {"syncing", "completing", "finalise"}

Orphaned(i) == i \in Runs /\ row[i].status = "running" /\ row[i].old

TickInv ==
    /\ Recovering => \A i \in ticker.todo : Orphaned(i)
    /\ ticker.at = "completing" =>
        Orphaned(ticker.run) /\ ticker.run \notin ticker.todo /\ Settled(ticker.run)

IInv == TypeInv /\ CountInv /\ OwnInv /\ TickInv

(***************************************************************************)
(* Operators.                                                              *)
(***************************************************************************)
LEMMA FreshIsUnused ==
    ASSUME Unused # {}
    PROVE  Fresh \in Runs /\ row[Fresh] = NoRow /\ task[Fresh].at = "none"
BY DEF Fresh, Unused

LEMMA FiniteRuns == \A S \in SUBSET Runs : IsFiniteSet(S)
<1>1. IsFiniteSet(Runs)
    BY FS_Interval DEF Runs
<1> QED BY <1>1, FS_Subset

\* The row of a job moves between known states.
LEMMA Moved ==
    ASSUME NEW i \in Runs, JobMoves(i) \/ JobCancelled(i)
    PROVE  \E s \in JobState : JobWritten(i, s)
BY DEF JobMoves, JobCancelled, JobState

LEMMA OutcomeIsFinal == \A s : JobOutcome(s) \in Final
BY DEF JobOutcome, Final

(***************************************************************************)
(* Types.                                                                  *)
(***************************************************************************)
LEMMA TypeInit == Init => TypeInv
<1> SUFFICES ASSUME Init PROVE TypeInv
    OBVIOUS
<1> QED BY DEF Init, TypeInv, RoutineType, RowType, TaskType, TickerType, CallerType, NoRow, NoTask, Idle, NoCall, TaskState, Executing, Final

\* One field of one run's record.
LEMMA TaskGoes ==
    ASSUME TypeInv, NEW i \in Runs, NEW to \in TaskState, Goto(i, to)
    PROVE  task' \in TaskType
BY DEF TypeInv, Goto, TaskType

LEMMA TaskGone ==
    ASSUME TypeInv, NEW i \in Runs, Gone(i)
    PROVE  task' \in TaskType
BY DEF TypeInv, Gone, TaskType, NoTask, TaskState

LEMMA TaskSpawned ==
    ASSUME TypeInv, NEW r \in Routines, SpawnFire(r)
    PROVE  task' \in TaskType
BY FreshIsUnused DEF TypeInv, SpawnFire, TaskType, TaskState

LEMMA EndedType ==
    ASSUME TypeInv, NEW i \in Runs, NEW s \in Final, Ended(i, s)
    PROVE  /\ task' \in TaskType
           /\ outcome' \in [Runs -> Final]
<1>1. "complete" \in TaskState
    BY DEF TaskState
<1> QED BY <1>1, TaskGoes DEF Ended, TypeInv

LEMMA RanType ==
    ASSUME TypeInv, NEW r, Ran(r)
    PROVE  routine' \in RoutineType
<1>1. [routine EXCEPT ![r].due = FALSE] \in RoutineType
    BY DEF TypeInv, RoutineType
<1>2. ASSUME NEW f \in RoutineType
      PROVE  [f EXCEPT ![r].cooling = TRUE] \in RoutineType
    BY DEF RoutineType
<1> QED BY <1>1, <1>2 DEF Ran

\* The row of a run that starts.
LEMMA RowRecorded ==
    ASSUME row \in RowType, NEW i \in Runs, NEW q \in Routines \cup {"none"}
    PROVE  [row EXCEPT ![i] = [NoRow EXCEPT !.routine = q, !.status = "running"]] \in RowType
<1> DEFINE R == [routine : Routines \cup {"none"}, linked : BOOLEAN, old : BOOLEAN,
                status : Final \cup {"none", "running"}]
<1>1. NoRow \in R
    BY DEF NoRow
<1>2. \A r \in R : [r EXCEPT !.routine = q, !.status = "running"] \in R
    OBVIOUS
<1>3. [NoRow EXCEPT !.routine = q, !.status = "running"] \in R
    BY <1>1, <1>2
<1> QED BY <1>3 DEF RowType

LEMMA RowLinked ==
    ASSUME row \in RowType, NEW i \in Runs
    PROVE  [row EXCEPT ![i].linked = TRUE] \in RowType
BY DEF RowType

\* The ticker takes an entry off its list, or starts on a new one.
LEMMA TickerMoves ==
    ASSUME ticker \in TickerType
    PROVE  /\ \A x : [ticker EXCEPT !.todo = @ \ {x}] \in TickerType
           /\ [ticker EXCEPT !.at = "finalise"] \in TickerType
           /\ \A i \in Runs, f \in Final :
                 [at |-> "completing", todo |-> ticker.todo \ {i}, run |-> i, found |-> f] \in TickerType
           /\ Idle \in TickerType
           /\ \A at \in {"syncing", "checking"}, S \in SUBSET (Runs \cup Routines) :
                 [Idle EXCEPT !.at = at, !.todo = S] \in TickerType
           /\ [Idle EXCEPT !.at = "syncing", !.todo = ticker.todo] \in TickerType
<1>1. \A x : [ticker EXCEPT !.todo = @ \ {x}] \in TickerType
    BY DEF TickerType
<1>2. [ticker EXCEPT !.at = "finalise"] \in TickerType
    BY DEF TickerType
<1>3. \A i \in Runs, f \in Final :
          [at |-> "completing", todo |-> ticker.todo \ {i}, run |-> i, found |-> f] \in TickerType
    BY DEF TickerType
<1>4. Idle \in TickerType
    BY DEF TickerType, Idle, Final
<1>5. \A at \in {"syncing", "checking"}, S \in SUBSET (Runs \cup Routines) :
          [Idle EXCEPT !.at = at, !.todo = S] \in TickerType
    BY DEF TickerType, Idle, Final
<1>6. [Idle EXCEPT !.at = "syncing", !.todo = ticker.todo] \in TickerType
    BY <1>5 DEF TickerType
<1> QED BY <1>1, <1>2, <1>3, <1>4, <1>5, <1>6

\* One case for each action; what an action leaves alone keeps its type.
LEMMA TypeStep == TypeInv /\ [Next]_vars => TypeInv'
<1> SUFFICES ASSUME TypeInv, [Next]_vars PROVE TypeInv'
    OBVIOUS
<1> USE DEF TypeInv
<1>1. ASSUME NEW i \in Runs, RecordRun(i) PROVE TypeInv'
    <2>1. task' \in TaskType
        BY <1>1, TaskGoes, TaskGone DEF RecordRun, TaskState
    <2>2. row' \in RowType
        <3>1. task[i].routine \in Routines \cup {"none"}
            BY DEF TaskType
        <3> QED BY <1>1, <3>1, RowRecorded DEF RecordRun
    <2> QED BY <1>1, <2>1, <2>2 DEF RecordRun
<1>2. ASSUME NEW i \in Runs, StartRun(i) PROVE TypeInv'
    <2>1. task' \in TaskType
        BY <1>2, TaskGoes DEF StartRun, TaskState, Executing
    <2> QED BY <1>2, <2>1 DEF StartRun
<1>3. ASSUME NEW i \in Runs, DispatchRun(i) PROVE TypeInv'
    <2>1. task' \in TaskType /\ outcome' \in [Runs -> Final]
        BY <1>3, TaskGoes, EndedType DEF DispatchRun, TaskState, Executing, Final
    <2>2. job' \in [Runs -> JobState \cup {"none"}]
        BY <1>3 DEF DispatchRun, JobState
    <2> QED BY <1>3, <2>1, <2>2 DEF DispatchRun
<1>4. ASSUME NEW i \in Runs, LinkRun(i) PROVE TypeInv'
    <2>1. task' \in TaskType /\ outcome' \in [Runs -> Final]
        BY <1>4, TaskGoes, EndedType DEF LinkRun, TaskState, Executing, Final
    <2>2. row' \in RowType
        <3>1. row' = row \/ row' = [row EXCEPT ![i].linked = TRUE]
            BY <1>4, Zenon DEF LinkRun
        <3> QED BY <3>1, RowLinked
    <2> QED BY <1>4, <2>1, <2>2 DEF LinkRun
<1>5. ASSUME NEW i \in Runs, LightEnds(i) \/ WatchEnds(i) \/ WatchGivesUp(i) PROVE TypeInv'
    <2>1. task' \in TaskType /\ outcome' \in [Runs -> Final]
        BY <1>5, EndedType, OutcomeIsFinal DEF LightEnds, WatchEnds, WatchGivesUp, Final
    <2> QED BY <1>5, <2>1 DEF LightEnds, WatchEnds, WatchGivesUp
<1>6. ASSUME NEW i \in Runs, CompleteRun(i) PROVE TypeInv'
    <2>1. task' \in TaskType
        BY <1>6, TaskGoes DEF CompleteRun, TaskState
    <2>2. row' \in RowType
        BY <1>6 DEF RowType, CompleteRun
    <2>3. outcome' \in [Runs -> Final]
        BY <1>6 DEF CompleteRun, Final
    <2> QED BY <1>6, <2>1, <2>2, <2>3 DEF CompleteRun
<1>7. ASSUME NEW i \in Runs, UpdateRun(i) PROVE TypeInv'
    <2>1. task' \in TaskType
        BY <1>7, TaskGone DEF UpdateRun
    <2>2. routine' \in RoutineType
        BY <1>7, RanType DEF UpdateRun
    <2> QED BY <1>7, <2>1, <2>2 DEF UpdateRun
<1>8. ASSUME NEW i \in Runs, JobMoves(i) \/ JobCancelled(i) PROVE TypeInv'
    BY <1>8, Moved DEF JobWritten
<1>9. ASSUME NEW r \in Routines, EventFire(r) \/ CronFire(r) PROVE TypeInv'
    <2>1. task' \in TaskType
        BY <1>9, TaskSpawned DEF EventFire, CronFire
    <2>2. ticker' \in TickerType
        BY <1>9, TickerMoves DEF EventFire, CronFire
    <2> QED BY <1>9, <2>1, <2>2 DEF EventFire, CronFire
<1>10. ASSUME NEW r \in Routines, SlotDue(r) \/ CooldownEnds(r) PROVE TypeInv'
    <2>1. routine' \in RoutineType
        BY <1>10 DEF RoutineType, SlotDue, CooldownEnds
    <2> QED BY <1>10, <2>1 DEF SlotDue, CooldownEnds
<1>11. ASSUME NEW r \in Routines, CronSkip(r) PROVE TypeInv'
    BY <1>11, TickerMoves DEF CronSkip
<1>12. ASSUME Tick \/ CronList \/ CronDone PROVE TypeInv'
    <2>1. ticker' \in TickerType
        <3>1. DueNow \in SUBSET (Runs \cup Routines)
            BY DEF DueNow
        <3>2. {i \in Runs : IsOrphan(i)} \in SUBSET (Runs \cup Routines)
            OBVIOUS
        <3>3. CASE Tick
            BY <3>2, <3>3, TickerMoves DEF Tick
        <3>4. CASE CronList
            BY <3>1, <3>4, TickerMoves DEF CronList
        <3> QED BY <1>12, <3>3, <3>4, TickerMoves DEF CronDone
    <2> QED BY <1>12, <2>1 DEF Tick, CronList, CronDone
<1>13. ASSUME SyncUpdate PROVE TypeInv'
    <2>1. routine' \in RoutineType
        BY <1>13, RanType DEF SyncUpdate
    <2> QED BY <1>13, <2>1, TickerMoves DEF SyncUpdate
<1>14. ASSUME SyncComplete PROVE TypeInv'
    <2>1. row' \in RowType
        <3>1. ticker.found \in Final
            BY DEF TickerType
        <3> QED BY <1>14, <3>1 DEF RowType, SyncComplete
    <2>2. ticker' \in TickerType
        BY <1>14, TickerMoves DEF SyncComplete
    <2> QED BY <1>14, <2>1, <2>2 DEF SyncComplete
<1>19. ASSUME NEW i \in Runs, SyncLook(i) PROVE TypeInv'
    BY <1>19, OutcomeIsFinal, TickerMoves DEF SyncLook
<1>20. ASSUME NEW i \in Runs, ScheduleRun(i) PROVE TypeInv'
    <2>1. task' \in TaskType /\ outcome' \in [Runs -> Final]
        BY <1>20, TaskGoes, EndedType DEF ScheduleRun, TaskState, Executing, Final
    <2> QED BY <1>20, <2>1 DEF ScheduleRun
<1>15. ASSUME NEW r \in Routines, NEW kind, FireCheck(r, kind) PROVE TypeInv'
    BY <1>15 DEF FireCheck, CallerType
<1>16. ASSUME FireRecord PROVE TypeInv'
    <2>1. task' \in TaskType
        BY <1>16, FreshIsUnused DEF TaskType, FireRecord, TaskState, CallerType
    <2>2. row' \in RowType
        <3>1. caller.routine \in Routines \cup {"none"}
            BY DEF CallerType
        <3> QED BY <1>16, <3>1, RowRecorded, FreshIsUnused DEF FireRecord
    <2>3. caller' \in CallerType
        BY <1>16 DEF FireRecord, NoCall, CallerType
    <2> QED BY <1>16, <2>1, <2>2, <2>3 DEF FireRecord
<1>17. ASSUME Restart PROVE TypeInv'
    <2>1. task' \in TaskType /\ outcome' \in [Runs -> Final]
        BY <1>17 DEF TaskType, Restart, NoTask, TaskState, Final
    <2>2. row' \in RowType
        BY <1>17 DEF RowType, Restart
    <2>3. caller' \in CallerType
        BY <1>17 DEF Restart, NoCall, CallerType
    <2> QED BY <1>17, <2>1, <2>2, <2>3, TickerMoves DEF Restart
<1>18. CASE UNCHANGED vars
    BY <1>18 DEF vars
<1> QED BY <1>1, <1>2, <1>3, <1>4, <1>5, <1>6, <1>7, <1>8, <1>9, <1>10, <1>11, <1>12, <1>13,
           <1>14, <1>15, <1>16, <1>17, <1>18, <1>19, <1>20
        DEF Next, TaskStep, TickerStep, CallerStep

(***************************************************************************)
(* The count of the routines that execute.                                 *)
(***************************************************************************)
LEMMA BusyGoes ==
    ASSUME TypeInv, NEW i \in Runs, NEW to, Goto(i, to)
    PROVE  Busy' = IF to \in Executing THEN Busy \cup {i} ELSE Busy \ {i}
BY DEF TypeInv, TaskType, Goto, Busy

LEMMA BusyStays ==
    ASSUME TypeInv, NEW i \in Runs, i \notin Busy,
           \/ Gone(i)
           \/ \E r : task' = [task EXCEPT ![i] = [at |-> "record", routine |-> r]]
           \/ \E r : task' = [task EXCEPT ![i] = [at |-> "start", routine |-> r]]
    PROVE  Busy' = Busy
<1>1. \A k \in Runs : k # i => task'[k] = task[k]
    BY DEF TypeInv, TaskType, Gone
<1>2. task'[i].at \notin Executing
    BY DEF TypeInv, TaskType, Gone, NoTask, Executing
<1> QED BY <1>1, <1>2 DEF Busy

LEMMA FreshIsNotBusy == Unused # {} => Fresh \in Runs /\ Fresh \notin Busy
BY FreshIsUnused DEF Busy, Executing

LEMMA CountInit == Init => CountInv
<1> SUFFICES ASSUME Init PROVE CountInv
    OBVIOUS
<1>1. Busy = {}
    BY DEF Init, Busy, NoTask, Executing
<1> QED BY <1>1, FS_EmptySet DEF Init, CountInv

LEMMA CountStep == TypeInv /\ CountInv /\ [Next]_vars => CountInv'
<1> SUFFICES ASSUME TypeInv, CountInv, [Next]_vars PROVE CountInv'
    OBVIOUS
<1>1. IsFiniteSet(Busy) /\ Cardinality(Busy) \in Nat
    BY FiniteRuns, FS_CardinalityType DEF Busy
\* The count and the set go up, go down, or stay together.
<1>2. ASSUME NEW i, i \notin Busy, Busy' = Busy \cup {i}, running' = running + 1
      PROVE  CountInv'
    BY <1>1, <1>2, FS_AddElement DEF CountInv
<1>3. ASSUME NEW i, i \in Busy, Busy' = Busy \ {i}, running' = running - 1
      PROVE  CountInv'
    BY <1>1, <1>3, FS_RemoveElement DEF CountInv
<1>4. ASSUME Busy' = Busy, running' = running
      PROVE  CountInv'
    BY <1>4 DEF CountInv
<1>5. ASSUME NEW i \in Runs, NEW s, Ended(i, s), task[i].at \in Executing
      PROVE  CountInv'
    <2>1. i \in Busy /\ Goto(i, "complete") /\ running' = running - 1
        BY <1>5 DEF Busy, Ended
    <2>2. Busy' = Busy \ {i}
        BY <2>1, BusyGoes DEF Executing
    <2> QED BY <1>3, <2>1, <2>2
<1>6. ASSUME NEW i \in Runs, RecordRun(i) PROVE CountInv'
    <2>1. i \notin Busy
        BY <1>6 DEF RecordRun, Busy, Executing
    <2>2. CASE Goto(i, "start")
        <3>1. Busy' = Busy
            BY <2>1, <2>2, BusyGoes DEF Executing
        <3> QED BY <1>4, <1>6, <3>1 DEF RecordRun
    <2>3. CASE Gone(i)
        BY <1>4, <1>6, <2>1, <2>3, BusyStays DEF RecordRun
    <2> QED BY <1>6, <2>2, <2>3 DEF RecordRun
<1>7. ASSUME NEW i \in Runs, StartRun(i) PROVE CountInv'
    <2>1. i \notin Busy
        BY <1>7 DEF StartRun, Busy, Executing
    <2>2. Busy' = Busy \cup {i}
        <3> DEFINE to == IF task[i].routine \in FullJob THEN "dispatch" ELSE "light"
        <3>1. Goto(i, to) /\ to \in Executing
            BY <1>7 DEF StartRun, Executing
        <3> HIDE DEF to
        <3> QED BY <3>1, BusyGoes
    <2> QED BY <1>2, <1>7, <2>1, <2>2 DEF StartRun
<1>8. ASSUME NEW i \in Runs, DispatchRun(i) PROVE CountInv'
    <2>1. i \in Busy
        BY <1>8 DEF DispatchRun, Busy, Executing
    <2>2. CASE Goto(i, "schedule") /\ UNCHANGED <<outcome, running>>
        <3>1. Busy' = Busy
            BY <2>1, <2>2, BusyGoes DEF Executing
        <3> QED BY <1>4, <2>2, <3>1
    <2> QED BY <1>5, <1>8, <2>2 DEF DispatchRun, Executing
<1>22. ASSUME NEW i \in Runs, ScheduleRun(i) PROVE CountInv'
    <2>1. i \in Busy
        BY <1>22 DEF ScheduleRun, Busy, Executing
    <2>2. CASE Goto(i, "link") /\ UNCHANGED <<outcome, running>>
        <3>1. Busy' = Busy
            BY <2>1, <2>2, BusyGoes DEF Executing
        <3> QED BY <1>4, <2>2, <3>1
    <2> QED BY <1>5, <1>22, <2>2 DEF ScheduleRun, Executing
<1>9. ASSUME NEW i \in Runs, LinkRun(i) PROVE CountInv'
    <2>1. i \in Busy
        BY <1>9 DEF LinkRun, Busy, Executing
    <2>2. CASE Goto(i, "watch") /\ UNCHANGED running
        <3>1. Busy' = Busy
            BY <2>1, <2>2, BusyGoes DEF Executing
        <3> QED BY <1>4, <2>2, <3>1
    <2> QED BY <1>5, <1>9, <2>2 DEF LinkRun, Executing
<1>10. ASSUME NEW i \in Runs, LightEnds(i) \/ WatchEnds(i) \/ WatchGivesUp(i) PROVE CountInv'
    BY <1>5, <1>10 DEF LightEnds, WatchEnds, WatchGivesUp, Executing
<1>11. ASSUME NEW i \in Runs, CompleteRun(i) PROVE CountInv'
    <2>1. i \notin Busy /\ Goto(i, "update")
        BY <1>11 DEF CompleteRun, Busy, Executing
    <2>2. Busy' = Busy
        BY <2>1, BusyGoes DEF Executing
    <2> QED BY <1>4, <1>11, <2>2 DEF CompleteRun
<1>12. ASSUME NEW i \in Runs, UpdateRun(i) PROVE CountInv'
    <2>1. i \notin Busy
        BY <1>12 DEF UpdateRun, Busy, Executing
    <2> QED BY <1>4, <1>12, <2>1, BusyStays DEF UpdateRun
<1>13. ASSUME NEW r \in Routines, EventFire(r) \/ CronFire(r) PROVE CountInv'
    <2>1. SpawnFire(r) /\ running' = running
        BY <1>13 DEF EventFire, CronFire
    <2>2. Busy' = Busy
        BY <2>1, FreshIsNotBusy, BusyStays DEF SpawnFire
    <2> QED BY <1>4, <2>1, <2>2
<1>14. ASSUME FireRecord PROVE CountInv'
    <2>1. Unused # {} /\ running' = running
        BY <1>14 DEF FireRecord
    <2>2. Busy' = Busy
        <3>1. CASE task' = task
            BY <3>1 DEF Busy
        <3>2. CASE task' = [task EXCEPT ![Fresh] = [at |-> "start", routine |-> caller.routine]]
            BY <2>1, <3>2, FreshIsNotBusy, BusyStays
        <3> QED BY <1>14, <3>1, <3>2 DEF FireRecord
    <2> QED BY <1>4, <2>1, <2>2
<1>15. ASSUME Restart PROVE CountInv'
    <2>1. Busy' = {}
        BY <1>15 DEF Restart, Busy, NoTask, Executing
    <2> QED BY <1>15, <2>1, FS_EmptySet DEF Restart, CountInv
<1>16. ASSUME UNCHANGED <<task, running>> PROVE CountInv'
    <2>1. Busy' = Busy
        BY <1>16 DEF Busy
    <2> QED BY <1>4, <1>16, <2>1
<1>17. ASSUME NEW i \in Runs, JobMoves(i) \/ JobCancelled(i) \/ SyncLook(i) PROVE CountInv'
    BY <1>16, <1>17 DEF JobMoves, JobCancelled, JobWritten, SyncLook
<1>18. ASSUME NEW r \in Routines, SlotDue(r) \/ CooldownEnds(r) \/ CronSkip(r) PROVE CountInv'
    BY <1>16, <1>18 DEF SlotDue, CooldownEnds, CronSkip
<1>19. ASSUME Tick \/ CronList \/ CronDone \/ SyncComplete \/ SyncUpdate PROVE CountInv'
    BY <1>16, <1>19 DEF Tick, CronList, CronDone, SyncComplete, SyncUpdate
<1>20. ASSUME NEW r \in Routines, NEW kind, FireCheck(r, kind) PROVE CountInv'
    BY <1>16, <1>20 DEF FireCheck
<1>21. CASE UNCHANGED vars
    BY <1>16, <1>21 DEF vars
<1> QED BY <1>6, <1>7, <1>8, <1>9, <1>10, <1>11, <1>12, <1>13, <1>14, <1>15, <1>17, <1>18,
           <1>19, <1>20, <1>21, <1>22 DEF Next, TaskStep, TickerStep, CallerStep

(***************************************************************************)
(* Rows, jobs and tasks.                                                   *)
(***************************************************************************)
\* A step of one run leaves the others alone.
SameRun(k) ==
    /\ row'[k] = row[k] /\ job'[k] = job[k] /\ task'[k] = task[k]
    /\ k \in scheduled' <=> k \in scheduled
    /\ over \subseteq over' /\ unwritten \subseteq unwritten' /\ gaveUp \subseteq gaveUp'

LEMMA SameRunKeeps ==
    ASSUME NEW k, RunInv(k), SameRun(k)
    PROVE  RunInv(k)'
BY DEF SameRun, RunInv, Settled

LEMMA OneRun ==
    ASSUME OwnInv, NEW i \in Runs, \A k \in Runs \ {i} : SameRun(k), RunInv(i)'
    PROVE  OwnInv'
BY SameRunKeeps DEF OwnInv

LEMMA GotoFacts ==
    ASSUME TypeInv, NEW i \in Runs, NEW to, Goto(i, to)
    PROVE  task'[i].at = to /\ \A k \in Runs \ {i} : task'[k] = task[k]
BY DEF TypeInv, TaskType, Goto

LEMMA GoneFacts ==
    ASSUME TypeInv, NEW i \in Runs, Gone(i)
    PROVE  task'[i].at = "none" /\ \A k \in Runs \ {i} : task'[k] = task[k]
BY DEF TypeInv, TaskType, Gone, NoTask

LEMMA RecordedFacts ==
    ASSUME TypeInv, NEW i \in Runs, NEW q,
           row' = [row EXCEPT ![i] = [NoRow EXCEPT !.routine = q, !.status = "running"]]
    PROVE  /\ row'[i].status = "running" /\ ~row'[i].old
           /\ \A k \in Runs \ {i} : row'[k] = row[k]
BY DEF TypeInv, RowType, NoRow

LEMMA OwnInit == Init => OwnInv
<1> SUFFICES ASSUME Init, NEW i \in Runs PROVE RunInv(i)
    BY DEF OwnInv
<1> QED BY DEF Init, RunInv, NoRow, NoTask, Held, Executing, Settled

LEMMA OwnStep == TypeInv /\ OwnInv /\ TickInv /\ [Next]_vars => OwnInv'
<1> SUFFICES ASSUME TypeInv, OwnInv, TickInv, [Next]_vars PROVE OwnInv'
    OBVIOUS
<1>0. \A i \in Runs : RunInv(i)
    BY DEF OwnInv
\* A step that moves the task of a run on, and nothing else of it.
<1>1. ASSUME NEW i \in Runs, NEW to, Goto(i, to), UNCHANGED <<row, job, scheduled, over, unwritten>>,
             gaveUp \subseteq gaveUp', RunInv(i)'
      PROVE  OwnInv'
    <2>1. \A k \in Runs \ {i} : SameRun(k)
        BY <1>1, GotoFacts DEF SameRun
    <2> QED BY <1>1, <2>1, OneRun
<1>2. ASSUME NEW i \in Runs, RecordRun(i) PROVE OwnInv'
    <2>1. UNCHANGED <<job, scheduled, over, unwritten, gaveUp>> /\ task[i].at = "record"
        BY <1>2 DEF RecordRun
    <2>2. CASE /\ row' = [row EXCEPT ![i] = [NoRow EXCEPT !.routine = task[i].routine,
                                                          !.status = "running"]]
               /\ Goto(i, "start")
        <3>1. \A k \in Runs \ {i} : SameRun(k)
            BY <2>1, <2>2, GotoFacts, RecordedFacts DEF SameRun
        <3>2. row'[i].status = "running" /\ ~row'[i].old /\ task'[i].at = "start" /\ job'[i] = job[i]
            BY <2>1, <2>2, GotoFacts, RecordedFacts
        <3>3. RunInv(i)'
            BY <1>0, <2>1, <3>2 DEF RunInv, Held, Executing, Settled
        <3> QED BY <3>1, <3>3, OneRun
    <2>3. CASE Gone(i) /\ UNCHANGED row
        <3>1. \A k \in Runs \ {i} : SameRun(k)
            BY <2>1, <2>3, GoneFacts DEF SameRun
        <3>2. RunInv(i)'
            BY <1>0, <2>1, <2>3, GoneFacts DEF RunInv, Held, Executing, Settled
        <3> QED BY <3>1, <3>2, OneRun
    <2> QED BY <1>2, <2>2, <2>3 DEF RecordRun
<1>3. ASSUME NEW i \in Runs, StartRun(i) PROVE OwnInv'
    <2> DEFINE to == IF task[i].routine \in FullJob THEN "dispatch" ELSE "light"
    <2>1. Goto(i, to) /\ UNCHANGED <<row, job, scheduled, over, unwritten, gaveUp>> /\ task[i].at = "start"
        BY <1>3 DEF StartRun
    <2>2. to \in {"dispatch", "light"}
        OBVIOUS
    <2> HIDE DEF to
    <2>3. RunInv(i)'
        BY <1>0, <2>1, <2>2, GotoFacts DEF RunInv, Held, Executing, Settled
    <2> QED BY <1>1, <2>1, <2>3
<1>4. ASSUME NEW i \in Runs, DispatchRun(i) PROVE OwnInv'
    <2>1. UNCHANGED <<row, scheduled, over, unwritten, gaveUp>> /\ task[i].at = "dispatch"
        BY <1>4 DEF DispatchRun
    <2>2. CASE Ended(i, "failed") /\ UNCHANGED job
        <3>1. Goto(i, "complete")
            BY <2>2 DEF Ended
        <3>2. RunInv(i)'
            BY <1>0, <2>1, <2>2, <3>1, GotoFacts DEF RunInv, Held, Executing, Settled
        <3> QED BY <1>1, <2>1, <2>2, <3>1, <3>2
    <2>3. CASE job' = [job EXCEPT ![i] = "Pending"] /\ Goto(i, "schedule")
        <3>1. \A k \in Runs \ {i} : SameRun(k)
            BY <2>1, <2>3, GotoFacts DEF SameRun, TypeInv
        <3>2. job'[i] = "Pending"
            BY <2>3 DEF TypeInv
        <3>3. RunInv(i)'
            BY <1>0, <2>1, <2>3, <3>2, GotoFacts
            DEF RunInv, Held, Executing, Settled, IsParallelBlocking
        <3> QED BY <3>1, <3>3, OneRun
    <2> QED BY <1>4, <2>2, <2>3 DEF DispatchRun
<1>19. ASSUME NEW i \in Runs, ScheduleRun(i) PROVE OwnInv'
    <2>1. UNCHANGED <<row, job, over, unwritten, gaveUp>> /\ task[i].at = "schedule"
        BY <1>19 DEF ScheduleRun
    <2>2. CASE Ended(i, "failed") /\ UNCHANGED scheduled
        <3>1. Goto(i, "complete")
            BY <2>2 DEF Ended
        <3>2. RunInv(i)'
            BY <1>0, <2>1, <2>2, <3>1, GotoFacts DEF RunInv, Held, Executing, Settled
        <3> QED BY <1>1, <2>1, <2>2, <3>1, <3>2
    <2>3. CASE scheduled' = scheduled \cup {i} /\ Goto(i, "link")
        <3>1. \A k \in Runs \ {i} : SameRun(k)
            BY <2>1, <2>3, GotoFacts DEF SameRun
        <3>2. job[i] # "none" /\ row[i].status = "running"
            BY <1>0, <2>1 DEF RunInv, Held, Executing
        <3>3. RunInv(i)'
            BY <1>0, <2>1, <2>3, <3>2, GotoFacts DEF RunInv, Held, Executing, Settled
        <3> QED BY <3>1, <3>3, OneRun
    <2> QED BY <1>19, <2>2, <2>3 DEF ScheduleRun
<1>5. ASSUME NEW i \in Runs, LinkRun(i) PROVE OwnInv'
    <2>1. UNCHANGED <<job, scheduled, over, unwritten>> /\ task[i].at = "link"
        BY <1>5 DEF LinkRun
    <2>2. CASE row' = [row EXCEPT ![i].linked = TRUE] /\ Goto(i, "watch") /\ UNCHANGED gaveUp
        <3>1. \A k \in Runs \ {i} : row'[k] = row[k]
            BY <2>2 DEF TypeInv, RowType
        <3>2. row'[i].status = row[i].status /\ row'[i].old = row[i].old
            BY <2>2 DEF TypeInv, RowType
        <3>3. \A k \in Runs \ {i} : SameRun(k)
            BY <2>1, <2>2, <3>1, GotoFacts DEF SameRun
        <3>4. RunInv(i)'
            BY <1>0, <2>1, <2>2, <3>2, GotoFacts DEF RunInv, Held, Executing, Settled
        <3> QED BY <3>3, <3>4, OneRun
    <2>3. CASE Ended(i, "failed") /\ gaveUp' = gaveUp \cup {i} /\ UNCHANGED row
        <3>1. Goto(i, "complete")
            BY <2>3 DEF Ended
        <3>2. RunInv(i)'
            BY <1>0, <2>1, <2>3, <3>1, GotoFacts DEF RunInv, Held, Executing, Settled
        <3> QED BY <1>1, <2>1, <2>3, <3>1, <3>2
    <2> QED BY <1>5, <2>2, <2>3 DEF LinkRun
<1>6. ASSUME NEW i \in Runs, LightEnds(i) \/ WatchEnds(i) \/ WatchGivesUp(i) PROVE OwnInv'
    <2>1. /\ Goto(i, "complete") /\ UNCHANGED <<row, job, scheduled, over, unwritten>> /\ gaveUp \subseteq gaveUp'
          /\ task[i].at \in {"light", "watch"}
        BY <1>6 DEF LightEnds, WatchEnds, WatchGivesUp, Ended
    <2>2. Settled(i)'
        BY <1>0, <1>6, <2>1 DEF LightEnds, WatchEnds, WatchGivesUp, RunInv, Settled, IsOver
    <2>3. RunInv(i)'
        BY <1>0, <2>1, <2>2, GotoFacts DEF RunInv, Held, Executing, Settled
    <2> QED BY <1>1, <2>1, <2>3
<1>7. ASSUME NEW i \in Runs, CompleteRun(i) PROVE OwnInv'
    <2>1. /\ Goto(i, "update") /\ UNCHANGED <<job, scheduled, over, gaveUp>> /\ unwritten \subseteq unwritten'
          /\ task[i].at = "complete"
        BY <1>7 DEF CompleteRun
    <2>2. \A k \in Runs \ {i} : row'[k] = row[k]
        BY <1>7 DEF CompleteRun, TypeInv, RowType
    <2>3. (row'[i].status \in Final) \/ (row'[i] = row[i] /\ i \in unwritten')
        BY <1>7 DEF CompleteRun, TypeInv, RowType
    <2>4. \A k \in Runs \ {i} : SameRun(k)
        BY <2>1, <2>2, GotoFacts DEF SameRun
    <2>5. RunInv(i)'
        BY <1>0, <2>1, <2>3, GotoFacts DEF RunInv, Held, Executing, Settled, Final
    <2> QED BY <2>4, <2>5, OneRun
<1>8. ASSUME NEW i \in Runs, UpdateRun(i) PROVE OwnInv'
    <2>1. Gone(i) /\ UNCHANGED <<row, job, scheduled, over, unwritten, gaveUp>> /\ task[i].at = "update"
        BY <1>8 DEF UpdateRun
    <2>2. \A k \in Runs \ {i} : SameRun(k)
        BY <2>1, GoneFacts DEF SameRun
    <2>3. RunInv(i)'
        BY <1>0, <2>1, GoneFacts DEF RunInv, Held, Executing, Settled
    <2> QED BY <2>2, <2>3, OneRun
<1>9. ASSUME NEW i \in Runs, JobMoves(i) \/ JobCancelled(i) PROVE OwnInv'
    <2>1. PICK s \in JobState : JobWritten(i, s)
        BY <1>9, Moved
    <2>2. job[i] # "none"
        BY <1>0, <1>9 DEF JobMoves, JobCancelled, RunInv
    <2>3. /\ UNCHANGED <<row, task, scheduled, unwritten, gaveUp>> /\ job'[i] = s
          /\ \A k \in Runs \ {i} : job'[k] = job[k]
          /\ over \subseteq over' /\ (IsParallelBlocking(s) \/ i \in over')
        BY <2>1 DEF JobWritten, TypeInv
    <2>4. \A k \in Runs \ {i} : SameRun(k)
        BY <2>3 DEF SameRun
    <2>5. s # "none"
        BY DEF JobState
    <2>6. RunInv(i)'
        BY <1>0, <2>2, <2>3, <2>5 DEF RunInv, Held, Executing, Settled
    <2> QED BY <2>4, <2>6, OneRun
<1>10. ASSUME NEW r \in Routines, EventFire(r) \/ CronFire(r) PROVE OwnInv'
    <2>1. SpawnFire(r) /\ UNCHANGED <<row, job, scheduled, over, unwritten, gaveUp>>
        BY <1>10 DEF EventFire, CronFire
    <2>2. PICK i \in Runs : i = Fresh
        BY <2>1, FreshIsUnused DEF SpawnFire
    <2>3. task' = [task EXCEPT ![i] = [at |-> "record", routine |-> r]] /\ row[i].status = "none"
        BY <2>1, <2>2, FreshIsUnused DEF SpawnFire, NoRow
    <2>4. task'[i].at = "record" /\ \A k \in Runs \ {i} : task'[k] = task[k]
        BY <2>3 DEF TypeInv, TaskType
    <2>5. \A k \in Runs \ {i} : SameRun(k)
        BY <2>1, <2>4 DEF SameRun
    <2>6. RunInv(i)'
        BY <1>0, <2>1, <2>3, <2>4 DEF RunInv, Held, Executing, Settled
    <2> QED BY <2>5, <2>6, OneRun
<1>11. ASSUME FireRecord PROVE OwnInv'
    <2>1. UNCHANGED <<job, scheduled, over, unwritten, gaveUp>>
        BY <1>11 DEF FireRecord
    <2>2. PICK i \in Runs : i = Fresh
        BY <1>11, FreshIsUnused DEF FireRecord
    <2>3. row[i].status = "none"
        BY <1>11, <2>2, FreshIsUnused DEF FireRecord, NoRow
    <2>4. CASE UNCHANGED <<row, task>>
        BY <1>0, <2>1, <2>4, SameRunKeeps DEF OwnInv, SameRun
    <2>5. CASE /\ row' = [row EXCEPT ![i] = [NoRow EXCEPT !.routine = caller.routine,
                                                          !.status = "running"]]
               /\ task' = [task EXCEPT ![i] = [at |-> "start", routine |-> caller.routine]]
        <3>1. task'[i].at = "start" /\ \A k \in Runs \ {i} : task'[k] = task[k]
            BY <2>5 DEF TypeInv, TaskType
        <3>2. \A k \in Runs \ {i} : SameRun(k)
            BY <2>1, <2>5, <3>1, RecordedFacts DEF SameRun
        <3>3. row'[i].status = "running" /\ ~row'[i].old
            BY <2>5, RecordedFacts
        <3>4. RunInv(i)'
            BY <1>0, <2>1, <2>3, <3>1, <3>3 DEF RunInv, Held, Executing, Settled
        <3> QED BY <3>2, <3>4, OneRun
    <2> QED BY <1>11, <2>2, <2>4, <2>5 DEF FireRecord
<1>12. ASSUME SyncComplete PROVE OwnInv'
    <2>1. UNCHANGED <<job, task, scheduled, over, gaveUp>> /\ unwritten \subseteq unwritten'
        BY <1>12 DEF SyncComplete
    <2>2. PICK i \in Runs : /\ i = ticker.run /\ row[i].status = "running" /\ row[i].old
                            /\ Settled(i)
        BY <1>12 DEF SyncComplete, TickInv, Orphaned
    <2>3. \A k \in Runs \ {i} : row'[k] = row[k]
        BY <1>12, <2>2 DEF SyncComplete, TypeInv, RowType
    <2>4. row'[i] = row[i] \/ row'[i].status \in Final
        BY <1>12, <2>2 DEF SyncComplete, TypeInv, RowType, TickerType
    <2>5. \A k \in Runs \ {i} : SameRun(k)
        BY <2>1, <2>3 DEF SameRun
    <2>6. RunInv(i)'
        BY <1>0, <2>1, <2>2, <2>4 DEF RunInv, Held, Executing, Settled, Final
    <2> QED BY <2>5, <2>6, OneRun
<1>13. ASSUME Restart PROVE OwnInv'
    <2> SUFFICES ASSUME NEW i \in Runs PROVE RunInv(i)'
        BY DEF OwnInv
    <2>1. /\ job' = job /\ UNCHANGED <<scheduled, over, unwritten, gaveUp>> /\ task'[i].at = "none"
          /\ row'[i] = [row[i] EXCEPT !.old = row[i] # NoRow]
        BY <1>13 DEF Restart, NoTask
    <2>2. row'[i].status = row[i].status /\ row'[i].old = (row[i] # NoRow)
        BY <2>1 DEF TypeInv, RowType
    <2>3. row[i].status = "running" => row[i] # NoRow
        BY DEF NoRow
    <2> QED BY <1>0, <2>1, <2>2, <2>3 DEF RunInv, Held, Executing, Settled
<1>14. ASSUME UNCHANGED <<row, job, task, scheduled, over, unwritten, gaveUp>> PROVE OwnInv'
    BY <1>0, <1>14, SameRunKeeps DEF OwnInv, SameRun
<1>15. ASSUME NEW r \in Routines, SlotDue(r) \/ CooldownEnds(r) \/ CronSkip(r) PROVE OwnInv'
    BY <1>14, <1>15 DEF SlotDue, CooldownEnds, CronSkip
<1>16. ASSUME Tick \/ CronList \/ CronDone \/ SyncUpdate PROVE OwnInv'
    BY <1>14, <1>16 DEF Tick, CronList, CronDone, SyncUpdate
<1>20. ASSUME NEW i \in Runs, SyncLook(i) PROVE OwnInv'
    BY <1>14, <1>20 DEF SyncLook
<1>17. ASSUME NEW r \in Routines, NEW kind, FireCheck(r, kind) PROVE OwnInv'
    BY <1>14, <1>17 DEF FireCheck
<1>18. CASE UNCHANGED vars
    BY <1>14, <1>18 DEF vars
<1> QED BY <1>2, <1>3, <1>4, <1>5, <1>6, <1>7, <1>8, <1>9, <1>10, <1>11, <1>12, <1>13, <1>15,
           <1>16, <1>17, <1>18, <1>19, <1>20 DEF Next, TaskStep, TickerStep, CallerStep

(***************************************************************************)
(* The recovery of the runs of an earlier process.                         *)
(***************************************************************************)
\* A run that no task holds is changed by a restart and by the recovery only.
LEMMA RowStays ==
    ASSUME TypeInv, OwnInv, [Next]_vars,
           NEW k \in Runs, row[k].status # "none", task[k].at \notin Held
    PROVE  \/ Restart
           \/ SyncComplete /\ ticker.run = k
           \/ row'[k] = row[k] /\ (Settled(k) => Settled(k)')
<1> DEFINE Kept == row'[k] = row[k] /\ (Settled(k) => Settled(k)')
           Goal == Restart \/ (SyncComplete /\ ticker.run = k) \/ Kept
<1>0. RunInv(k)
    BY DEF OwnInv
<1>1. task[k].at # "record" /\ row[k] # NoRow
    BY <1>0 DEF RunInv, NoRow
<1>2. ASSUME NEW i \in Runs,
             \/ RecordRun(i) \/ StartRun(i) \/ DispatchRun(i) \/ ScheduleRun(i) \/ LinkRun(i)
             \/ CompleteRun(i)
      PROVE  Goal
    <2>1. i # k
        BY <1>1, <1>2 DEF RecordRun, StartRun, DispatchRun, ScheduleRun, LinkRun, CompleteRun,
                          Held, Executing
    <2>2. row'[k] = row[k]
        BY <1>2, <2>1 DEF RecordRun, StartRun, DispatchRun, ScheduleRun, LinkRun, CompleteRun,
                          TypeInv, RowType
    <2>3. /\ k \in scheduled' => k \in scheduled
          /\ over \subseteq over' /\ gaveUp \subseteq gaveUp'
        BY <1>2, <2>1 DEF RecordRun, StartRun, DispatchRun, ScheduleRun, LinkRun, CompleteRun
    <2> QED BY <2>2, <2>3 DEF Settled
<1>3. ASSUME row' = row, scheduled' = scheduled, over \subseteq over', gaveUp \subseteq gaveUp'
      PROVE  Goal
    BY <1>3 DEF Settled
<1>4. ASSUME NEW i \in Runs, LightEnds(i) \/ WatchEnds(i) \/ WatchGivesUp(i) \/ UpdateRun(i)
      PROVE  Goal
    BY <1>3, <1>4 DEF LightEnds, WatchEnds, WatchGivesUp, UpdateRun
<1>5. ASSUME NEW i \in Runs, JobMoves(i) \/ JobCancelled(i) PROVE Goal
    BY <1>3, <1>5, Moved DEF JobWritten
<1>6. ASSUME SyncComplete PROVE Goal
    BY <1>6 DEF SyncComplete, TypeInv, RowType, Settled
<1>7. ASSUME FireRecord PROVE Goal
    <2>1. Fresh # k
        BY <1>1, <1>7, FreshIsUnused DEF FireRecord
    <2>2. row'[k] = row[k]
        BY <1>7, <2>1 DEF FireRecord, TypeInv, RowType
    <2> QED BY <1>7, <2>2 DEF FireRecord, Settled
<1>8. ASSUME NEW r \in Routines,
             EventFire(r) \/ CronFire(r) \/ SlotDue(r) \/ CooldownEnds(r) \/ CronSkip(r)
      PROVE  Goal
    BY <1>3, <1>8 DEF EventFire, CronFire, SlotDue, CooldownEnds, CronSkip
<1>9. ASSUME Tick \/ CronList \/ CronDone \/ SyncUpdate PROVE Goal
    BY <1>3, <1>9 DEF Tick, CronList, CronDone, SyncUpdate
<1>10. ASSUME NEW i \in Runs, SyncLook(i) PROVE Goal
    BY <1>3, <1>10 DEF SyncLook
<1>11. ASSUME NEW r \in Routines, NEW kind, FireCheck(r, kind) PROVE Goal
    BY <1>3, <1>11 DEF FireCheck
<1>12. CASE UNCHANGED vars
    BY <1>3, <1>12 DEF vars
<1> QED BY <1>2, <1>4, <1>5, <1>6, <1>7, <1>8, <1>9, <1>10, <1>11, <1>12
        DEF Next, TaskStep, TickerStep, CallerStep

\* A step of anything but the ticker leaves it alone; it starts a recovery at a tick, and
\* the list only gets shorter until the next one.
LEMMA TodoShrinks ==
    ASSUME TypeInv, [Next]_vars
    PROVE  \/ Tick
           \/ ~Recovering'
           \/ \E i \in Runs : SyncLook(i)
           \/ SyncComplete
           \/ /\ Recovering /\ ticker'.todo \subseteq ticker.todo
              /\ ticker'.at = "completing" => ticker' = ticker
<1> DEFINE Goal == \/ Tick \/ ~Recovering' \/ (\E i \in Runs : SyncLook(i)) \/ SyncComplete
                   \/ /\ Recovering /\ ticker'.todo \subseteq ticker.todo
                      /\ ticker'.at = "completing" => ticker' = ticker
<1>1. ASSUME UNCHANGED ticker PROVE Goal
    BY <1>1 DEF Recovering
<1>2. ASSUME NEW i \in Runs, TaskStep(i) \/ LightEnds(i) \/ WatchGivesUp(i) PROVE Goal
    BY <1>1, <1>2 DEF TaskStep, RecordRun, StartRun, DispatchRun, ScheduleRun, LinkRun, WatchEnds,
                      CompleteRun, UpdateRun, LightEnds, WatchGivesUp
<1>3. ASSUME NEW i \in Runs, JobMoves(i) \/ JobCancelled(i) PROVE Goal
    BY <1>1, <1>3, Moved DEF JobWritten
<1>4. ASSUME NEW r \in Routines, EventFire(r) \/ SlotDue(r) \/ CooldownEnds(r) PROVE Goal
    BY <1>1, <1>4 DEF EventFire, SlotDue, CooldownEnds
<1>5. ASSUME NEW r \in Routines, CronSkip(r) \/ CronFire(r) PROVE Goal
    BY <1>5 DEF CronSkip, CronFire, Recovering, TypeInv, TickerType
<1>6. ASSUME CallerStep PROVE Goal
    BY <1>1, <1>6 DEF CallerStep, FireCheck, FireRecord
<1>7. ASSUME SyncUpdate PROVE Goal
    <2>1. \A S : /\ [Idle EXCEPT !.at = "syncing", !.todo = S].todo = S
                 /\ [Idle EXCEPT !.at = "syncing", !.todo = S].at = "syncing"
        BY DEF Idle
    <2> QED BY <1>7, <2>1 DEF SyncUpdate, Recovering
<1>8. ASSUME CronList \/ CronDone \/ Restart PROVE Goal
    <2>1. ticker'.at \in {"idle", "checking"}
        <3>1. \A S : [Idle EXCEPT !.at = "checking", !.todo = S].at = "checking"
            BY DEF Idle
        <3>2. CronList => ticker'.at = "checking"
            BY <3>1 DEF CronList
        <3>3. CronDone \/ Restart => ticker'.at = "idle"
            BY DEF CronDone, Restart, Idle
        <3> QED BY <1>8, <3>2, <3>3
    <2> QED BY <2>1 DEF Recovering
<1> QED BY <1>1, <1>2, <1>3, <1>4, <1>5, <1>6, <1>7, <1>8 DEF Next, TickerStep, vars

\* What the recovery has in hand is not touched by anything else.
LEMMA OrphanStays ==
    ASSUME TypeInv, OwnInv, [Next]_vars, NEW k, Orphaned(k), Recovering',
           ~(SyncComplete /\ ticker.run = k)
    PROVE  Orphaned(k)' /\ (Settled(k) => Settled(k)')
<1>1. k \in Runs /\ row[k].status # "none" /\ task[k].at \notin Held
    BY DEF Orphaned, OwnInv, RunInv
<1>2. ~Restart
    BY DEF Recovering, Restart, Idle
<1> QED BY <1>1, <1>2, RowStays DEF Orphaned

LEMMA TickStep == TypeInv /\ OwnInv /\ TickInv /\ [Next]_vars => TickInv'
<1> SUFFICES ASSUME TypeInv, OwnInv, TickInv, [Next]_vars, Recovering'
             PROVE  /\ \A k \in ticker'.todo : Orphaned(k)'
                    /\ ticker'.at = "completing" =>
                        (Orphaned(ticker.run) /\ ticker.run \notin ticker.todo /\ Settled(ticker.run))'
    BY DEF TickInv, Recovering, Orphaned, Settled
<1>1. CASE Tick
    <2>1. ticker'.todo = {i \in Runs : IsOrphan(i)} /\ ticker'.at = "syncing" /\ row' = row
        BY <1>1 DEF Tick, Idle
    <2> QED BY <2>1 DEF IsOrphan, Orphaned
<1>2. ASSUME NEW i \in Runs, SyncLook(i)
      PROVE  /\ \A k \in ticker'.todo : Orphaned(k)'
             /\ ticker'.at = "completing" =>
                 (Orphaned(ticker.run) /\ ticker.run \notin ticker.todo /\ Settled(ticker.run))'
    <2>1. /\ i \in ticker.todo /\ Recovering /\ ~SyncComplete
          /\ UNCHANGED <<row, scheduled, over, gaveUp>>
        BY <1>2 DEF SyncLook, SyncComplete, Recovering
    <2>2. \A k \in ticker.todo : Orphaned(k) /\ Orphaned(k)'
        BY <2>1 DEF TickInv, Orphaned
    <2>3. ticker'.todo = ticker.todo \ {i}
        BY <1>2 DEF SyncLook, TypeInv, TickerType
    <2>4. ticker'.at = "completing" => ticker'.run = i /\ IsOver(job[i])
        BY <1>2 DEF SyncLook, TypeInv, TickerType
    <2>5. IsOver(job[i]) => Settled(i)'
        BY <2>1 DEF OwnInv, RunInv, Settled, IsOver
    <2> QED BY <2>1, <2>2, <2>3, <2>4, <2>5
<1>3. CASE SyncComplete
    <2>1. /\ ticker.at = "completing" /\ Recovering
          /\ ticker'.todo = ticker.todo /\ ticker'.at # "completing"
        <3>1. \A S : /\ [Idle EXCEPT !.at = "syncing", !.todo = S].todo = S
                     /\ [Idle EXCEPT !.at = "syncing", !.todo = S].at = "syncing"
            BY DEF Idle
        <3> QED BY <1>3, <3>1 DEF SyncComplete, TypeInv, TickerType, Recovering
    <2>2. \A k \in ticker.todo : Orphaned(k) /\ k # ticker.run
        BY <2>1 DEF TickInv
    <2> QED BY <2>1, <2>2, OrphanStays
<1>4. CASE /\ Recovering /\ ticker'.todo \subseteq ticker.todo
           /\ ticker'.at = "completing" => ticker' = ticker
           /\ ~SyncComplete
    <2>1. \A k \in ticker'.todo : Orphaned(k)'
        BY <1>4, OrphanStays DEF TickInv
    <2>2. ASSUME ticker'.at = "completing"
          PROVE  (Orphaned(ticker.run) /\ ticker.run \notin ticker.todo /\ Settled(ticker.run))'
        <3>1. PICK k : k = ticker.run
            OBVIOUS
        <3>2. ticker' = ticker /\ Orphaned(k) /\ k \notin ticker.todo /\ Settled(k)
            BY <1>4, <2>2, <3>1 DEF TickInv
        <3>3. Orphaned(k)' /\ Settled(k)'
            BY <1>4, <3>2, OrphanStays
        <3> QED BY <3>1, <3>2, <3>3 DEF Orphaned, Settled
    <2> QED BY <2>1, <2>2
<1> QED BY <1>1, <1>2, <1>3, <1>4, TodoShrinks

LEMMA FinalStays ==
    ASSUME TypeInv, OwnInv, TickInv, [Next]_vars, NEW k \in Runs, row[k].status \in Final
    PROVE  row'[k].status = row[k].status
<1>1. row[k].status # "none" /\ row[k].status # "running" /\ task[k].at \notin Held
    BY DEF Final, OwnInv, RunInv
<1>2. CASE Restart
    BY <1>2 DEF Restart, TypeInv, RowType
<1>3. ~(SyncComplete /\ ticker.run = k)
    BY <1>1 DEF SyncComplete, TickInv, Orphaned
<1> QED BY <1>1, <1>2, <1>3, RowStays

(***************************************************************************)
(* Theorems.                                                               *)
(***************************************************************************)
LEMMA InvInit == Init => IInv
<1>1. Init => TickInv
    BY DEF Init, TickInv, Recovering, Idle
<1> QED BY <1>1, TypeInit, CountInit, OwnInit DEF IInv

LEMMA InvStep == IInv /\ [Next]_vars => IInv'
BY TypeStep, CountStep, OwnStep, TickStep DEF IInv

THEOREM Invariance == Spec => []IInv
BY InvInit, InvStep, PTL DEF Spec

\* The counter of the routines that execute (running_count) is their number in every
\* state: no path of execute_routine leaves it too high, which would stop all routines
\* in the end.
THEOREM TypeCorrect == Spec => []TypeOK
<1>1. IInv => TypeOK
    BY DEF IInv, TypeInv, TypeOK, CountInv, Busy, RoutineType, RowType, TaskType, TickerType,
           CallerType
<1> QED BY <1>1, Invariance, PTL

\* A run recorded as running in this process has a task that will finish it, unless the
\* write of its final status failed (execute_routine).
THEOREM LiveRowsAreOwned == Spec => []LiveRowIsOwned
<1>1. IInv => LiveRowIsOwned
    BY DEF IInv, OwnInv, RunInv, LiveRowIsOwned, Held
<1> QED BY <1>1, Invariance, PTL

\* A run whose job the scheduler has accepted stays recorded as running until the row of
\* the job has said once that it is over, across restarts, unless the run gave up on the
\* job (execute_full_job, sync_dispatched_runs).
THEOREM JobsHoldTheirRuns == Spec => []JobHoldsItsRun
<1>1. IInv => JobHoldsItsRun
    BY DEF IInv, TypeInv, OwnInv, RunInv, JobHoldsItsRun, Settled
<1> QED BY <1>1, Invariance, PTL

\* The final status of a run is written once: neither its own task nor the recovery of a
\* later process writes over it (sync_dispatched_runs, complete_routine_run).
THEOREM FinalStatusIsFinal == Spec => FinalStatusStays
<1>1. IInv /\ [Next]_vars =>
          [\A i \in Runs : row[i].status \in Final => row'[i].status = row[i].status]_vars
    BY FinalStays DEF IInv
<1> QED BY <1>1, Invariance, PTL DEF Spec, FinalStatusStays
=============================================================================
