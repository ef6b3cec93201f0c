------------------------------ MODULE Missions ------------------------------
(***************************************************************************)
(* Missions: the cron ticker and the requests that fire them, the threads  *)
(* they spawn, the watcher that processes a thread's outcome, and the user *)
(* who pauses, resumes, completes or updates a mission.                    *)
(*                                                                         *)
(* All of them share one record per mission.  fire_mission, the outcome    *)
(* processor, update_mission and resume_mission load it, change the copy   *)
(* and save the whole of it, so the last writer wins.  A save may fail     *)
(* (MaxFaults), and a restart loses what is in memory.                     *)
(*                                                                         *)
(* Time is days: a cron mission has one slot a day, the day the daily      *)
(* counter is for, or one slot alone, or an expression that does not parse *)
(* any more; the 90 s after a fire run out by an action of its own.        *)
(* How events and the rate limit decide whether to fire is in              *)
(* MissionEvents.                                                          *)
(***************************************************************************)
EXTENDS Naturals, FiniteSets

CONSTANTS
    MissionIds,
    Cron,          \* missions with a cron cadence; the others are event-driven
    Senders,       \* tasks that fire a mission by hand or for an event
    MaxPerDay,     \* max_threads_per_day (0: no limit)
    MaxConcurrent, \* max_concurrent of an event-driven mission (0: no limit)
    MaxThreads,    \* bound: threads spawned
    MaxDays,       \* bound: days
    MaxUpsets      \* bound: edits by the user, failed saves or spawns, runs that pause at a gate, and
                   \* restarts, together

ASSUME MissionAssumption ==
    /\ Cron \subseteq MissionIds
    /\ "ticker" \notin Senders
    /\ {MaxPerDay, MaxConcurrent, MaxThreads, MaxDays, MaxUpsets} \subseteq Nat

VARIABLES
    store,     \* the saved mission records
    thread,    \* a thread: its mission, whether its saved state is not terminal, its run
               \* (running, the outcome it posted, or gone once that is taken), its day;
               \* history: its fire was reconciled without moving the slot that has passed
    watcher,   \* the outcome watcher of a thread, the outcome and the copy it holds
    active,    \* MissionManager::active
    attempt,   \* last_fire_attempt: the fire (0: no entry, or one older than 90 s)
    caller,    \* a task inside tick or fire_mission
    edit,      \* an update_mission or resume_mission in flight
    day, upsets,
    hot        \* history: missions the ticker fired for this day's slot, within 90 s

memory == <<active, attempt>>
env == <<day, upsets>>
vars == <<store, thread, watcher, memory, caller, edit, env, hot>>

Threads == 1..MaxThreads
Callers == Senders \cup {"ticker"}
Status == {"Active", "Paused", "Completed", "Failed"}
Schedules == {"daily", "once", "corrupt"}
\* last_fire_at by its thread, next_fire_at by its day (0: none).
Record == [status : Status, history : SUBSET Threads, today : 0..MaxThreads,
           last : 0..MaxThreads, next : 0..(MaxDays + 1), cron : Schedules]

NewMission ==
    [status |-> "Active", history |-> {}, today |-> 0, last |-> 0, next |-> 0, cron |-> "daily"]
\* A run ends for good, or pauses at a gate; what it amounts to matters when it is processed.
Outcomes == {"ended", "paused"}
NoThread == [mission |-> "none", live |-> FALSE, run |-> "none", day |-> 0, stalled |-> FALSE]
NoWatcher == [at |-> "none", outcome |-> "none", copy |-> NewMission]
NoCall == [at |-> "idle", todo |-> {}, mission |-> "none",
           copy |-> NewMission, thread |-> 0]
NoEdit == [at |-> "idle", op |-> "update", mission |-> "none", copy |-> NewMission]

TypeOK ==
    /\ store \in [MissionIds -> Record]
    /\ thread \in [Threads -> [mission : MissionIds \cup {"none"}, live : BOOLEAN,
                               run : Outcomes \cup {"none", "running", "gone"},
                               day : 0..MaxDays, stalled : BOOLEAN]]
    /\ watcher \in [Threads -> [at : {"none", "join", "loaded"},
                                outcome : Outcomes \cup {"none"}, copy : Record]]
    /\ active \subseteq MissionIds
    /\ attempt \in [MissionIds -> 0..MaxThreads]
    /\ caller \in [Callers ->
           [at : {"idle", "scan", "fire", "admitted", "spawned"},
            todo : SUBSET MissionIds,
            mission : MissionIds \cup {"none"}, copy : Record, thread : 0..MaxThreads]]
    /\ edit \in [at : {"idle", "loaded"}, op : {"update", "resume"},
                 mission : MissionIds \cup {"none"}, copy : Record]

Init ==
    /\ \E cron \in [MissionIds -> Schedules] :
         store = [m \in MissionIds |->
                     IF m \in Cron THEN [NewMission EXCEPT !.next = 1, !.cron = cron[m]] ELSE NewMission]
    /\ thread = [t \in Threads |-> NoThread]
    /\ watcher = [t \in Threads |-> NoWatcher]
    /\ active = MissionIds
    /\ attempt = [m \in MissionIds |-> 0]
    /\ caller = [c \in Callers |-> NoCall]
    /\ edit = NoEdit
    /\ day = 0 /\ upsets = 0
    /\ hot = {}

(***************************************************************************)
(* The record.                                                             *)
(***************************************************************************)
IsTerminal(rec) == rec.status \in {"Completed", "Failed"}
\* next_cron_fire finds a slot after today: the one of "once" is on day 1.
HasSlot(cron) == cron = "daily" \/ (cron = "once" /\ day = 0)

\* Mutant of NextSlot: the next slot follows the last one instead of the clock.
NextSlotAfterLast(rec) == IF HasSlot(rec.cron) THEN rec.next + 1 ELSE 0

NextSlot(rec) == IF HasSlot(rec.cron) THEN day + 1 ELSE 0

\* threads_today belongs to an earlier day than today.
IsStale(rec) ==
    /\ rec.today > 0
    /\ rec.last # 0 => thread[rec.last].day < day

Counted(rec, t) == [rec EXCEPT !.history = @ \cup {t}, !.today = @ + 1]

\* What fire_mission adds to the record.  An expression that does not parse leaves the slot and
\* last_fire_at as they are; one without a further slot leaves no slot.
Recorded(m, rec, t) ==
    IF m \notin Cron THEN [Counted(rec, t) EXCEPT !.last = t]
    ELSE IF rec.cron = "corrupt" THEN Counted(rec, t)
    ELSE [Counted(rec, t) EXCEPT !.last = t, !.next = NextSlot(rec)]

Upset == upsets < MaxUpsets /\ upsets' = upsets + 1

Unused == {t \in Threads : thread[t].run = "none"}
Fresh == CHOOSE t \in Unused : TRUE
Running(rec) == {t \in rec.history : thread[t].live}

(***************************************************************************)
(* The ticker's pass over the index.                                       *)
(***************************************************************************)
TickBegins ==
    /\ caller["ticker"].at = "idle"
    /\ caller' = [caller EXCEPT !["ticker"] = [NoCall EXCEPT !.at = "scan", !.todo = active]]
    /\ UNCHANGED <<store, thread, watcher, memory, edit, env, hot>>

\* Mutant of OnCooldown: the ticker trusts the saved record.
OnCooldownNever(m) == FALSE

\* The last fire may not have been saved: the two instants differ.
OnCooldown(m) == attempt[m] # 0 /\ store[m].last # attempt[m]
IsDue(m) == m \in Cron /\ store[m].status = "Active" /\ store[m].next \in 1..day

TickVisits(m) ==
    /\ caller["ticker"].at = "scan" /\ m \in caller["ticker"].todo
    /\ caller' = IF IsDue(m) /\ ~OnCooldown(m)
                 THEN [caller EXCEPT !["ticker"].at = "fire", !["ticker"].mission = m,
                                     !["ticker"].todo = @ \ {m}]
                 ELSE [caller EXCEPT !["ticker"].todo = @ \ {m}]
    /\ UNCHANGED <<store, thread, watcher, memory, edit, env, hot>>

TickEnds ==
    /\ caller["ticker"].at = "scan" /\ caller["ticker"].todo = {}
    /\ caller' = [caller EXCEPT !["ticker"] = NoCall]
    /\ UNCHANGED <<store, thread, watcher, memory, edit, env, hot>>

(***************************************************************************)
(* fire_mission.                                                           *)
(***************************************************************************)
\* fire_mission returns; the tick goes on with its next mission, also after an error.
Returned(c) ==
    [caller EXCEPT ![c] = IF c = "ticker" THEN [NoCall EXCEPT !.at = "scan", !.todo = caller[c].todo]
                          ELSE NoCall]

\* Any non-terminal mission may be fired, and an event-driven one that is completed.
MayLoad(m) ==
    \/ ~IsTerminal(store[m])
    \/ store[m].status = "Completed" /\ m \notin Cron

\* The daily counter is set back, and saved if the store lets it be.
Refreshed(m) == IF IsStale(store[m]) THEN [store[m] EXCEPT !.today = 0] ELSE store[m]

SaveReset(m) ==
    IF ~MayLoad(m) \/ ~IsStale(store[m]) THEN UNCHANGED <<store, upsets>>
    ELSE \/ store' = [store EXCEPT ![m] = Refreshed(m)] /\ UNCHANGED upsets
         \/ Upset /\ UNCHANGED store

\* max_concurrent counts the threads of the record whose saved state is not terminal.
MayFire(m) ==
    /\ MayLoad(m)
    /\ MaxPerDay > 0 => Refreshed(m).today < MaxPerDay
    /\ m \notin Cron /\ MaxConcurrent > 0 => Cardinality(Running(store[m])) < MaxConcurrent

\* The load and the checks.  cooldown_secs, the user's rate and the user's budget may refuse too.
FireLoad(c, m) ==
    /\ Unused # {}    \* the bound on threads
    /\ SaveReset(m)
    /\ \/ MayFire(m) /\ caller' = [caller EXCEPT ![c].at = "admitted", ![c].mission = m,
                                               ![c].copy = Refreshed(m)]
       \/ caller' = Returned(c)
    /\ UNCHANGED <<thread, watcher, memory, edit, day, hot>>

TickFires == caller["ticker"].at = "fire" /\ FireLoad("ticker", caller["ticker"].mission)

\* A request, or an event: its checks of the status are made again by fire_mission, or weaker.
SenderFires(c, m) == caller[c].at = "idle" /\ FireLoad(c, m)

SpawnFails(c) ==
    /\ caller[c].at = "admitted"
    /\ Upset
    /\ caller' = Returned(c)
    /\ UNCHANGED <<store, thread, watcher, memory, edit, day, hot>>

\* The thread runs, its watcher is installed, and the attempt is noted before the save.
FireSpawn(c) ==
    LET m == caller[c].mission IN
    /\ caller[c].at = "admitted" /\ Unused # {}
    /\ thread' = [thread EXCEPT ![Fresh] =
                      [mission |-> m, live |-> TRUE, run |-> "running", day |-> day,
                       stalled |-> FALSE]]
    /\ watcher' = [watcher EXCEPT ![Fresh].at = "join"]
    /\ attempt' = [attempt EXCEPT ![m] = Fresh]
    /\ caller' = [caller EXCEPT ![c].at = "spawned", ![c].thread = Fresh,
                                ![c].copy = Recorded(m, @, Fresh)]
    /\ hot' = IF c = "ticker" THEN hot \cup {m} ELSE hot
    /\ UNCHANGED <<store, active, edit, env>>

\* save_mission is best-effort.
FireSave(c) ==
    /\ caller[c].at = "spawned"
    /\ \/ /\ store' = [store EXCEPT ![caller[c].mission] = caller[c].copy]
          /\ UNCHANGED upsets
       \/ Upset /\ UNCHANGED store
    /\ caller' = Returned(c)
    /\ UNCHANGED <<thread, watcher, memory, edit, day, hot>>

(***************************************************************************)
(* A thread's run, and the watcher that waits for its outcome.             *)
(***************************************************************************)
\* The task saves the thread, posts its outcome and removes its running entry.
RunEnds(t, o) ==
    /\ thread[t].run = "running"
    /\ thread' = [thread EXCEPT ![t].run = o, ![t].live = (o = "paused")]
    /\ IF o = "paused" THEN Upset ELSE UNCHANGED upsets
    /\ UNCHANGED <<store, watcher, memory, caller, edit, day, hot>>

\* A thread that paused at a gate is resumed and ends; nobody watches this run.
GatedThreadEnds(t) ==
    /\ thread[t].run \in {"paused", "gone"} /\ thread[t].live
    /\ thread' = [thread EXCEPT ![t].live = FALSE]
    /\ UNCHANGED <<store, watcher, memory, caller, edit, env, hot>>

\* join_thread finds the posted outcome, or the running entry, which it awaits; then the outcome
\* processor loads the mission.
JoinReturns(t) ==
    /\ watcher[t].at = "join" /\ thread[t].run \in Outcomes
    /\ watcher' = [watcher EXCEPT ![t] = [at |-> "loaded", outcome |-> thread[t].run,
                                         copy |-> store[thread[t].mission]]]
    /\ thread' = [thread EXCEPT ![t].run = "gone"]
    /\ UNCHANGED <<store, memory, caller, edit, env, hot>>

\* It looks for the outcome before it is posted and for the entry after it is removed: the
\* watcher ends with ThreadNotFound.
JoinMisses(t) ==
    /\ watcher[t].at = "join" /\ thread[t].run \in Outcomes
    /\ watcher' = [watcher EXCEPT ![t] = NoWatcher]
    /\ thread' = [thread EXCEPT ![t].run = "gone"]
    /\ UNCHANGED <<store, memory, caller, edit, env, hot>>

\* Mutant of Reconciled: the reconciliation does not look whether the thread is already there.
ReconciledAgain(t) == Recorded(thread[t].mission, watcher[t].copy, t)

\* The fire may be missing from the record.  A slot that has passed moves, if there is a later one.
Reconciled(t) ==
    LET rec == watcher[t].copy
        moves == thread[t].mission \in Cron /\ rec.next <= day /\ HasSlot(rec.cron)
    IN IF t \in rec.history THEN rec
       ELSE [Counted(rec, t) EXCEPT !.last = t, !.next = IF moves THEN NextSlot(rec) ELSE @]

Stalls(t) ==
    t \notin watcher[t].copy.history /\ thread[t].mission \in Cron /\ Reconciled(t).next \in 1..day

\* A response may say that the goal is achieved; an error, or too many iterations, is a failure.
OutcomeStatus(o, status) == IF o = "ended" THEN {status, "Completed", "Failed"} ELSE {status}

OutcomeSave(t) ==
    /\ watcher[t].at = "loaded"
    /\ \/ /\ \E s \in OutcomeStatus(watcher[t].outcome, Reconciled(t).status) :
               store' = [store EXCEPT ![thread[t].mission] = [Reconciled(t) EXCEPT !.status = s]]
          /\ thread' = [thread EXCEPT ![t].stalled = @ \/ Stalls(t)]
          /\ UNCHANGED upsets
       \/ Upset /\ UNCHANGED <<store, thread>>
    /\ watcher' = [watcher EXCEPT ![t] = NoWatcher]
    /\ UNCHANGED <<memory, caller, edit, day, hot>>

(***************************************************************************)
(* The user.                                                               *)
(***************************************************************************)
\* pause_mission and complete_mission write the status field alone.
SetStatus(m, s) ==
    /\ Upset
    /\ store' = [store EXCEPT ![m].status = s]
    /\ active' = active \ {m}
    /\ attempt' = [attempt EXCEPT ![m] = 0]
    /\ hot' = hot \ {m}
    /\ UNCHANGED <<thread, watcher, caller, edit, day>>

EditLoad(m, op) ==
    /\ edit.at = "idle"
    /\ op = "resume" => store[m].status \in {"Paused", "Failed"}
    /\ Upset
    /\ edit' = [at |-> "loaded", op |-> op, mission |-> m, copy |-> store[m]]
    /\ UNCHANGED <<store, thread, watcher, memory, caller, day, hot>>

\* A new cadence, and resume, must have a slot to come (next_cron_fire_required).
Rescheduled(m, rec, cron) ==
    IF m \in Cron THEN [rec EXCEPT !.cron = cron, !.next = day + 1] ELSE rec

UpdateSave ==
    /\ edit.at = "loaded" /\ edit.op = "update" /\ edit' = NoEdit
    /\ \/ store' = [store EXCEPT ![edit.mission] = edit.copy]
       \/ \E cron \in Schedules :
            /\ HasSlot(cron)
            /\ store' = [store EXCEPT ![edit.mission] = Rescheduled(edit.mission, edit.copy, cron)]
    /\ UNCHANGED <<thread, watcher, memory, caller, env, hot>>

ResumeSave ==
    /\ edit.at = "loaded" /\ edit.op = "resume" /\ edit' = NoEdit
    /\ edit.mission \in Cron => HasSlot(edit.copy.cron)
    /\ store' = [store EXCEPT ![edit.mission] =
                    [Rescheduled(edit.mission, edit.copy, edit.copy.cron) EXCEPT !.status = "Active"]]
    /\ active' = active \cup {edit.mission}
    /\ UNCHANGED <<thread, watcher, attempt, caller, env, hot>>

\* The schedule has no slot to come, or the save fails, and the record stays as it was: the edit
\* has counted as an upset already.
EditFails ==
    /\ edit.at = "loaded"
    /\ edit' = NoEdit
    /\ UNCHANGED <<store, thread, watcher, memory, caller, env, hot>>

(***************************************************************************)
(* Time and restarts.                                                      *)
(***************************************************************************)
NewDay ==
    /\ day < MaxDays /\ day' = day + 1
    /\ hot' = {}
    /\ UNCHANGED <<store, thread, watcher, memory, caller, edit, upsets>>

CooldownElapses(m) ==
    /\ attempt[m] # 0
    /\ attempt' = [attempt EXCEPT ![m] = 0]
    /\ hot' = hot \ {m}
    /\ UNCHANGED <<store, thread, watcher, active, caller, edit, env>>

\* recover_project_threads fails the threads that ran; bootstrap_project indexes the active ones.
Restart ==
    /\ Upset
    /\ thread' = [t \in Threads |->
                     IF thread[t].run = "none" THEN NoThread
                     ELSE [thread[t] EXCEPT !.run = "gone",
                                            !.live = @ /\ thread[t].run # "running"]]
    /\ watcher' = [t \in Threads |-> NoWatcher]
    /\ active' = {m \in MissionIds : store[m].status = "Active"}
    /\ attempt' = [m \in MissionIds |-> 0]
    /\ caller' = [c \in Callers |-> NoCall]
    /\ edit' = NoEdit
    /\ hot' = {}
    /\ UNCHANGED <<store, day>>

-----------------------------------------------------------------------------
FireStep(c) ==
    \/ SpawnFails(c) \/ FireSpawn(c) \/ FireSave(c)

TickerStep ==
    \/ TickBegins \/ TickFires \/ TickEnds \/ FireStep("ticker")
    \/ \E m \in MissionIds : TickVisits(m)

SenderStep(c) ==
    \/ FireStep(c)
    \/ \E m \in MissionIds : SenderFires(c, m)

ThreadStep(t) ==
    \/ \E o \in Outcomes : RunEnds(t, o)
    \/ GatedThreadEnds(t)

WatcherStep(t) ==
    \/ JoinReturns(t) \/ JoinMisses(t) \/ OutcomeSave(t)

UserStep ==
    \/ \E m \in MissionIds :
         \/ \E s \in {"Paused", "Completed"} : SetStatus(m, s)
         \/ \E op \in {"update", "resume"} : EditLoad(m, op)
    \/ UpdateSave \/ ResumeSave \/ EditFails

TimeStep ==
    \/ NewDay
    \/ \E m \in MissionIds : CooldownElapses(m)

Next ==
    \/ TickerStep
    \/ \E c \in Senders : SenderStep(c)
    \/ \E t \in Threads : ThreadStep(t) \/ WatcherStep(t)
    \/ UserStep \/ TimeStep \/ Restart

Spec == Init /\ [][Next]_vars

(***************************************************************************)
(* Properties.                                                             *)
(***************************************************************************)
\* Within 90 s of a fire for today's slot the ticker does not fire the mission again, whichever
\* save failed and whichever stale copy was written over the record; unless a fire of today was
\* reconciled to a record that keeps the passed slot, its schedule having no later one or not
\* parsing any more: tick trusts that record (README, section 11).  A pause, a completion and a
\* restart drop the attempt, and a new day has a slot of its own: nothing is claimed across them.
SpawnedBy(c) == caller[c].at = "admitted" /\ caller'[c].at = "spawned"
NoRefireWhileCool ==
    [][SpawnedBy("ticker") /\ caller["ticker"].mission \in hot =>
          \E t \in Threads : /\ thread[t].mission = caller["ticker"].mission
                             /\ thread[t].day = day /\ thread[t].stalled]_vars

\* threads_today counts no more threads than the history has, in the saved record and in every copy
\* that will be saved, whether fire_mission or the reconciliation wrote them: until the first daily
\* reset a thread is counted once; after it the bound is weaker, the history being kept.
CountedOnce ==
    LET Consistent(rec) == rec.today <= Cardinality(rec.history) IN
    /\ \A m \in MissionIds : Consistent(store[m])
    /\ \A c \in Callers : Consistent(caller[c].copy)
    /\ \A t \in Threads : Consistent(watcher[t].copy)
    /\ Consistent(edit.copy)

\* mission.rs:2304: a failed mission keeps its status until the user changes it.
FailureIsDurable ==
    [][\A m \in MissionIds :
         store[m].status = "Failed" /\ store'[m].status # "Failed" =>
             \/ SetStatus(m, store'[m].status)
             \/ ResumeSave]_vars
=============================================================================
