--------------------------- MODULE MissionsProofs ---------------------------
(***************************************************************************)
(* TLAPS proofs about Missions, for every set of missions and callers,     *)
(* every limit and every number of threads, days and faults.               *)
(***************************************************************************)
EXTENDS Missions, Integers, FiniteSetTheorems, TLAPS

USE DEF memory, env

LEMMA Limits ==
    /\ Cron \subseteq MissionIds /\ "ticker" \notin Senders
    /\ MaxPerDay \in Nat /\ MaxConcurrent \in Nat /\ MaxThreads \in Nat /\ MaxDays \in Nat /\ MaxUpsets \in Nat
BY MissionAssumption DEF MissionAssumption

(***************************************************************************)
(* A record of a mission, saved or held as a copy, is consistent with the  *)
(* threads: it counts at most the threads of its history, the last of them *)
(* is one of these, and a cron mission has no slot, or one after its last  *)
(* thread's day, unless that thread's fire was reconciled without one.     *)
(***************************************************************************)
UsedIn(th) == {t \in Threads : th[t].run # "none"}

Good(th, m, rec) ==
    /\ rec \in Record
    /\ rec.history \subseteq UsedIn(th)
    /\ rec.last # 0 => rec.last \in rec.history
    /\ rec.today <= Cardinality(rec.history)
    /\ m \in Cron /\ rec.last # 0 =>
          rec.next = 0 \/ rec.next > th[rec.last].day \/ th[rec.last].stalled

LEMMA HistoryFinite ==
    ASSUME NEW H \in SUBSET Threads
    PROVE  IsFiniteSet(H) /\ Cardinality(H) \in 0..MaxThreads
<1>1. IsFiniteSet(Threads) /\ Cardinality(Threads) = MaxThreads
    BY Limits, FS_Interval DEF Threads
<1> QED BY <1>1, Limits, FS_Subset, FS_CardinalityType

LEMMA NewIsGood ==
    ASSUME NEW th, NEW m
    PROVE  NewMission \in Record /\ Good(th, m, NewMission)
<1>1. NewMission \in Record
    BY Limits DEF NewMission, Record, Status, Schedules
<1>2. Cardinality({}) = 0
    BY FS_EmptySet
<1> QED BY <1>1, <1>2 DEF Good, NewMission

\* A thread keeps its number, its mission and its day, and what is known of its fire.
Kept(th, th2) ==
    \A t \in UsedIn(th) :
        /\ t \in UsedIn(th2) /\ th2[t].day = th[t].day /\ th2[t].mission = th[t].mission
        /\ th[t].stalled => th2[t].stalled

LEMMA GoodStays ==
    ASSUME NEW th, NEW th2, NEW m, NEW rec, Good(th, m, rec), Kept(th, th2)
    PROVE  Good(th2, m, rec)
<1>1. rec.last # 0 => /\ th2[rec.last].day = th[rec.last].day
                      /\ th[rec.last].stalled => th2[rec.last].stalled
    BY DEF Good, Kept
<1>2. rec.history \subseteq UsedIn(th2)
    BY DEF Good, Kept
<1> QED BY <1>1, <1>2 DEF Good

\* A record with the same threads, whose last one has a slot as it should.
LEMMA GoodLike ==
    ASSUME NEW th, NEW m, NEW rec, Good(th, m, rec), NEW rec2 \in Record,
           rec2.history = rec.history, rec2.today <= rec.today \/ rec2.today = 0,
           \/ rec2.last = rec.last /\ rec2.next = rec.next
           \/ rec2.last = rec.last /\ \A t \in UsedIn(th) : rec2.next > th[t].day
           \/ /\ rec2.last \in rec.history
              /\ m \in Cron =>
                    rec2.next = 0 \/ rec2.next > th[rec2.last].day \/ th[rec2.last].stalled
    PROVE  Good(th, m, rec2)
<1>1. Cardinality(rec.history) \in Nat /\ rec.today \in Nat /\ rec2.today \in Nat
    BY HistoryFinite, Limits DEF Good, Record
<1>2. rec2.today <= Cardinality(rec2.history)
    BY <1>1 DEF Good
<1> QED BY <1>2 DEF Good

LEMMA GoodStatus ==
    ASSUME NEW th, NEW m, NEW rec, Good(th, m, rec), NEW s \in Status
    PROVE  Good(th, m, [rec EXCEPT !.status = s])
<1> DEFINE r == [rec EXCEPT !.status = s]
<1>1. r \in Record /\ r.history = rec.history /\ r.last = rec.last /\ r.today = rec.today /\ r.next = rec.next
    BY DEF Good, Record
<1>2. rec.today <= rec.today
    BY Limits DEF Good, Record
<1> HIDE DEF r
<1>3. Good(th, m, r)
    BY <1>1, <1>2, GoodLike
<1> QED BY <1>3 DEF r

LEMMA GoodReset ==
    ASSUME NEW th, NEW m, NEW rec, Good(th, m, rec)
    PROVE  Good(th, m, [rec EXCEPT !.today = 0])
<1> DEFINE r == [rec EXCEPT !.today = 0]
<1>1. r \in Record /\ r.history = rec.history /\ r.last = rec.last /\ r.today = 0 /\ r.next = rec.next
    BY Limits DEF Good, Record
<1> HIDE DEF r
<1>2. Good(th, m, r)
    BY <1>1, GoodLike
<1> QED BY <1>2 DEF r

\* A new schedule has a slot to come.
LEMMA GoodSchedule ==
    ASSUME NEW th, NEW m, NEW rec, Good(th, m, rec), NEW cron \in Schedules,
           NEW n \in 0..(MaxDays + 1), \A t \in UsedIn(th) : n > th[t].day
    PROVE  Good(th, m, [rec EXCEPT !.cron = cron, !.next = n])
<1> DEFINE r == [rec EXCEPT !.cron = cron, !.next = n]
<1>1. r \in Record /\ r.history = rec.history /\ r.last = rec.last /\ r.today = rec.today /\ r.next = n
    BY DEF Good, Record
<1>2. rec.today <= rec.today
    BY Limits DEF Good, Record
<1> HIDE DEF r
<1>3. Good(th, m, r)
    BY <1>1, <1>2, GoodLike
<1> QED BY <1>3 DEF r

\* A record that counts one more thread, which was not in it.
LEMMA GoodCount ==
    ASSUME NEW th, NEW m, NEW rec, Good(th, m, rec), NEW t \in UsedIn(th), t \notin rec.history
    PROVE  /\ Good(th, m, Counted(rec, t)) /\ t \in Counted(rec, t).history
           /\ Counted(rec, t).next = rec.next
<1> DEFINE H == rec.history \cup {t}
           r == [rec EXCEPT !.history = H, !.today = @ + 1]
<1>1. t \in Threads /\ rec.history \in SUBSET Threads /\ H \in SUBSET Threads
    BY DEF UsedIn, Good, Record
<1>2. Cardinality(H) = Cardinality(rec.history) + 1 /\ Cardinality(H) \in 0..MaxThreads
    BY <1>1, HistoryFinite, FS_AddElement
<1>3. rec.today + 1 <= Cardinality(H) /\ rec.today + 1 \in 0..MaxThreads
    BY <1>1, <1>2, HistoryFinite, Limits DEF Good, Record
<1>4. /\ r \in Record /\ r.history = H /\ r.last = rec.last /\ r.today = rec.today + 1
      /\ r.next = rec.next
    BY <1>1, <1>3 DEF Good, Record
<1>5. t \in H /\ H \subseteq UsedIn(th) /\ (rec.last # 0 => rec.last \in H)
    BY DEF Good
<1>6. Good(th, m, r) /\ t \in r.history
    <2> HIDE DEF r, H
    <2> QED BY <1>3, <1>4, <1>5 DEF Good
<1> QED BY <1>4, <1>6 DEF Counted

\* The last fire of a record, with the slot it leaves.
LEMMA GoodFire ==
    ASSUME NEW th, NEW m, NEW rec, Good(th, m, rec), NEW t \in rec.history, NEW n \in 0..(MaxDays + 1),
           m \in Cron => n = 0 \/ n > th[t].day \/ th[t].stalled
    PROVE  Good(th, m, [rec EXCEPT !.last = t, !.next = n])
<1> DEFINE r == [rec EXCEPT !.last = t, !.next = n]
<1>1. t \in 0..MaxThreads /\ rec.today <= rec.today
    BY Limits DEF Good, Record, Threads
<1>2. r \in Record /\ r.history = rec.history /\ r.last = t /\ r.today = rec.today /\ r.next = n
    BY <1>1 DEF Good, Record
<1> HIDE DEF r
<1>3. Good(th, m, r)
    BY <1>1, <1>2, GoodLike
<1> QED BY <1>3 DEF r

(***************************************************************************)
(* The inductive invariant, one part for each variable.                    *)
(***************************************************************************)
ThreadType ==
    [mission : MissionIds \cup {"none"}, live : BOOLEAN,
     run : Outcomes \cup {"none", "running", "gone"}, day : 0..MaxDays, stalled : BOOLEAN]
WatcherType == [at : {"none", "join", "loaded"}, outcome : Outcomes \cup {"none"}, copy : Record]
CallType ==
    [at : {"idle", "scan", "fire", "admitted", "spawned"}, todo : SUBSET MissionIds,
     mission : MissionIds \cup {"none"}, copy : Record, thread : 0..MaxThreads]
EditType ==
    [at : {"idle", "loaded"}, op : {"update", "resume"}, mission : MissionIds \cup {"none"}, copy : Record]

ThreadOK ==
    /\ thread \in [Threads -> ThreadType] /\ day \in 0..MaxDays
    /\ \A t \in UsedIn(thread) : thread[t].mission \in MissionIds /\ thread[t].day <= day

StoreOK ==
    /\ store \in [MissionIds -> Record]
    /\ \A m \in MissionIds : Good(thread, m, store[m])

\* A watcher belongs to a thread, and holds a copy only after its join.
WatchOK ==
    /\ watcher \in [Threads -> WatcherType]
    /\ \A t \in Threads :
         /\ Good(thread, thread[t].mission, watcher[t].copy)
         /\ watcher[t].at # "none" => t \in UsedIn(thread)
         /\ watcher[t].at # "loaded" => watcher[t].copy = NewMission

\* The ticker did not fire the mission for this day's slot, or a fire of today left the slot.
Cleared(th, d, h, m) ==
    /\ m \in Cron
    /\ m \in h => \E t \in UsedIn(th) : th[t].mission = m /\ th[t].day = d /\ th[t].stalled

CallOK ==
    /\ caller \in [Callers -> CallType]
    /\ \A c \in Callers :
         /\ Good(thread, caller[c].mission, caller[c].copy)
         /\ caller[c].at \in {"fire", "admitted", "spawned"} => caller[c].mission \in MissionIds
         /\ caller[c].at \in {"idle", "scan", "fire"} => caller[c].copy = NewMission
    /\ caller["ticker"].at \in {"fire", "admitted"} => Cleared(thread, day, hot, caller["ticker"].mission)

EditOK ==
    /\ edit \in EditType
    /\ Good(thread, edit.mission, edit.copy)
    /\ edit.at = "loaded" => edit.mission \in MissionIds

\* A mission that is hot was fired today, and its last attempt is one of today's threads.
AttemptOK ==
    /\ active \subseteq MissionIds /\ attempt \in [MissionIds -> 0..MaxThreads]
    /\ \A m \in MissionIds : attempt[m] # 0 => attempt[m] \in UsedIn(thread)
    /\ \A m \in hot : /\ m \in Cron /\ attempt[m] # 0
                      /\ thread[attempt[m]].day = day /\ thread[attempt[m]].mission = m

IInv == ThreadOK /\ StoreOK /\ WatchOK /\ CallOK /\ EditOK /\ AttemptOK

(***************************************************************************)
(* The steps, by the variables they change.                                *)
(***************************************************************************)
Ticks == TickBegins \/ TickEnds \/ \E m \in MissionIds : TickVisits(m)
Loads ==
    \E c \in Callers, m \in MissionIds :
       FireLoad(c, m) /\ (c = "ticker" => caller[c].at = "fire" /\ m = caller[c].mission)
Spawns == \E c \in Callers : FireSpawn(c)
Saves == \E c \in Callers : FireSave(c)
Refusals == \E c \in Callers : SpawnFails(c)
Ends == \E t \in Threads : (\E o \in Outcomes : RunEnds(t, o)) \/ GatedThreadEnds(t)
Joins == \E t \in Threads : JoinReturns(t) \/ JoinMisses(t)
Outcome == \E t \in Threads : OutcomeSave(t)
StatusSet == \E m \in MissionIds : \E s \in {"Paused", "Completed"} : SetStatus(m, s)
EditLoads == \E m \in MissionIds : \E op \in {"update", "resume"} : EditLoad(m, op)
EditSaves == UpdateSave \/ ResumeSave
Cools == \E m \in MissionIds : CooldownElapses(m)

LEMMA Actions ==
    ASSUME CallOK, [Next]_vars
    PROVE  \/ Ticks \/ Loads \/ Spawns \/ Saves \/ Refusals \/ Ends \/ Joins \/ Outcome \/ StatusSet
           \/ EditLoads \/ EditSaves \/ EditFails \/ NewDay \/ Cools \/ Restart \/ UNCHANGED vars
<1>0. "ticker" \in Callers /\ Senders \subseteq Callers /\ \A c \in Senders : c # "ticker"
    BY Limits DEF Callers
<1>1. CASE TickerStep
    <2>1. CASE TickFires
        <3>1. caller["ticker"].mission \in MissionIds
            BY <1>0, <2>1 DEF TickFires, CallOK
        <3> QED BY <1>0, <2>1, <3>1 DEF TickFires, Loads
    <2> QED BY <1>0, <1>1, <2>1 DEF TickerStep, FireStep, Ticks, Spawns, Saves, Refusals
<1>2. CASE \E c \in Senders : SenderStep(c)
    BY <1>0, <1>2 DEF SenderStep, FireStep, SenderFires, Loads, Spawns, Saves, Refusals
<1>3. CASE \E t \in Threads : ThreadStep(t) \/ WatcherStep(t)
    BY <1>3 DEF ThreadStep, WatcherStep, Ends, Joins, Outcome
<1>4. CASE UserStep \/ TimeStep
    BY <1>4 DEF UserStep, TimeStep, StatusSet, EditLoads, EditSaves, Cools
<1> QED BY <1>1, <1>2, <1>3, <1>4 DEF Next

LEMMA ThreadFrame ==
    ASSUME CallOK, [Next]_vars, ~(Spawns \/ Ends \/ Joins \/ Outcome \/ NewDay \/ Restart)
    PROVE  UNCHANGED <<thread, day>>
BY Actions DEF vars, Ticks, Loads, Saves, Refusals, Outcome, StatusSet, EditLoads, Cools, TickBegins, TickEnds,
    TickVisits, FireLoad, SpawnFails, FireSave, OutcomeSave, SetStatus, EditLoad, EditSaves, UpdateSave,
    ResumeSave, EditFails, CooldownElapses, Upset

LEMMA StoreFrame ==
    ASSUME CallOK, [Next]_vars, ~(Loads \/ Saves \/ Outcome \/ StatusSet \/ EditSaves)
    PROVE  UNCHANGED store
BY Actions DEF vars, Ticks, Spawns, Refusals, Ends, Joins, EditLoads, Cools, TickBegins, TickEnds, TickVisits,
    SpawnFails, FireSpawn, RunEnds, GatedThreadEnds, JoinReturns, JoinMisses, EditLoad, EditFails, NewDay,
    CooldownElapses, Restart, Upset

LEMMA WatchFrame ==
    ASSUME CallOK, [Next]_vars, ~(Spawns \/ Joins \/ Outcome \/ Restart)
    PROVE  UNCHANGED watcher
BY Actions DEF vars, Ticks, Loads, Saves, Refusals, Ends, StatusSet, EditLoads, Cools, TickBegins, TickEnds,
    TickVisits, FireLoad, SpawnFails, FireSave, RunEnds, GatedThreadEnds, SetStatus, EditLoad, EditSaves,
    UpdateSave, ResumeSave, EditFails, NewDay, CooldownElapses, Upset

LEMMA CallFrame ==
    ASSUME CallOK, [Next]_vars, ~(Ticks \/ Loads \/ Spawns \/ Saves \/ Refusals \/ Restart)
    PROVE  UNCHANGED caller
BY Actions DEF vars, Ends, Joins, Outcome, StatusSet, EditLoads, Cools, RunEnds, GatedThreadEnds, JoinReturns,
    JoinMisses, OutcomeSave, SetStatus, EditLoad, EditSaves, UpdateSave, ResumeSave, EditFails, NewDay,
    CooldownElapses, Upset

LEMMA EditFrame ==
    ASSUME CallOK, [Next]_vars, ~(EditLoads \/ EditSaves \/ EditFails \/ Restart)
    PROVE  UNCHANGED edit
BY Actions DEF vars, Ticks, Loads, Spawns, Saves, Refusals, Ends, Joins, Outcome, StatusSet, Cools, TickBegins,
    TickEnds, TickVisits, FireLoad, SpawnFails, FireSpawn, FireSave, RunEnds, GatedThreadEnds, JoinReturns,
    JoinMisses, OutcomeSave, SetStatus, NewDay, CooldownElapses, Upset

LEMMA AttemptFrame ==
    ASSUME CallOK, [Next]_vars, ~(Spawns \/ StatusSet \/ EditSaves \/ NewDay \/ Cools \/ Restart)
    PROVE  UNCHANGED <<active, attempt, hot>>
BY Actions DEF vars, Ticks, Loads, Saves, Refusals, Ends, Joins, Outcome, EditLoads, TickBegins, TickEnds,
    TickVisits, FireLoad, SpawnFails, FireSave, RunEnds, GatedThreadEnds, JoinReturns, JoinMisses, OutcomeSave,
    EditLoad, EditFails, Upset

(***************************************************************************)
(* Threads.                                                                *)
(***************************************************************************)
LEMMA FreshFacts ==
    ASSUME Unused # {}
    PROVE  Fresh \in Threads /\ Fresh \notin UsedIn(thread) /\ Fresh \in Unused
<1>1. Fresh \in Unused
    BY DEF Fresh
<1> QED BY <1>1 DEF Unused, UsedIn

\* A step that writes one thread keeps its mission and its day, unless the number was unused.
LEMMA OneThread ==
    ASSUME ThreadOK, NEW t \in Threads, NEW r \in ThreadType, thread' = [thread EXCEPT ![t] = r], day' = day,
           r.run # "none", r.mission \in MissionIds, r.day <= day,
           t \in UsedIn(thread) => /\ r.day = thread[t].day /\ r.mission = thread[t].mission
                                   /\ thread[t].stalled => r.stalled
    PROVE  ThreadOK' /\ Kept(thread, thread')
<1>1. thread' \in [Threads -> ThreadType] /\ thread'[t] = r /\ \A u \in Threads \ {t} : thread'[u] = thread[u]
    BY DEF ThreadOK
<1>2. UsedIn(thread') = UsedIn(thread) \cup {t}
    BY <1>1 DEF UsedIn
<1>3. UsedIn(thread) \subseteq Threads
    BY DEF UsedIn
<1>4. Kept(thread, thread')
    BY <1>1, <1>2, <1>3 DEF Kept
<1>5. \A u \in UsedIn(thread') : thread'[u].mission \in MissionIds /\ thread'[u].day <= day'
    BY <1>1, <1>2, <1>3 DEF ThreadOK
<1> QED BY <1>1, <1>4, <1>5 DEF ThreadOK

LEMMA StepThread ==
    ASSUME ThreadOK, WatchOK, CallOK, [Next]_vars
    PROVE  ThreadOK' /\ Kept(thread, thread')
<1>0. thread \in [Threads -> ThreadType] /\ day \in 0..MaxDays
    BY DEF ThreadOK
<1>1. CASE Spawns
    <2>1. PICK c \in Callers : FireSpawn(c)
        BY <1>1 DEF Spawns
    <2> DEFINE f == Fresh
               r == [mission |-> caller[c].mission, live |-> TRUE, run |-> "running", day |-> day,
                     stalled |-> FALSE]
    <2>2. f \in Threads /\ f \notin UsedIn(thread) /\ thread' = [thread EXCEPT ![f] = r] /\ day' = day
        BY <2>1, FreshFacts DEF FireSpawn
    <2>3. caller[c].mission \in MissionIds
        BY <2>1 DEF FireSpawn, CallOK
    <2>4. r \in ThreadType
        BY <1>0, <2>3, Zenon DEF ThreadType
    <2>5. r.run # "none" /\ r.mission \in MissionIds /\ r.day <= day
        BY <1>0, <2>3, Limits
    <2> HIDE DEF f, r
    <2> QED BY <2>2, <2>4, <2>5, OneThread
<1>2. CASE Ends
    <2>1. PICK t \in Threads : (\E o \in Outcomes : RunEnds(t, o)) \/ GatedThreadEnds(t)
        BY <1>2 DEF Ends
    <2>2. \E o \in Outcomes \cup {"gone"}, l \in BOOLEAN :
             thread' = [thread EXCEPT ![t] = [thread[t] EXCEPT !.run = o, !.live = l]]
        <3>1. CASE GatedThreadEnds(t)
            <4>1. thread[t] \in ThreadType /\ thread[t].run \in Outcomes \cup {"gone"}
                BY <1>0, <3>1 DEF GatedThreadEnds, Outcomes
            <4>2. [thread[t] EXCEPT !.run = thread[t].run, !.live = FALSE] = [thread[t] EXCEPT !.live = FALSE]
                BY <4>1 DEF ThreadType
            <4>3. thread' = [thread EXCEPT ![t] = [thread[t] EXCEPT !.live = FALSE]]
                BY <3>1 DEF GatedThreadEnds
            <4> QED BY <4>1, <4>2, <4>3
        <3>2. CASE \E o \in Outcomes : RunEnds(t, o)
            BY <3>2 DEF RunEnds
        <3> QED BY <2>1, <3>1, <3>2
    <2>3. PICK o \in Outcomes \cup {"gone"}, l \in BOOLEAN :
             thread' = [thread EXCEPT ![t] = [thread[t] EXCEPT !.run = o, !.live = l]]
        BY <2>2
    <2>4. day' = day /\ thread[t].run # "none"
        BY <2>1 DEF RunEnds, GatedThreadEnds
    <2> DEFINE r == [thread[t] EXCEPT !.run = o, !.live = l]
    <2>5. r \in ThreadType /\ r.mission = thread[t].mission /\ r.day = thread[t].day /\ r.run = o
          /\ r.stalled = thread[t].stalled
        BY <1>0, Zenon DEF ThreadType
    <2>6. r.run # "none" /\ r.mission \in MissionIds /\ r.day <= day
        BY <2>4, <2>5 DEF ThreadOK, UsedIn, Outcomes
    <2> HIDE DEF r
    <2> QED BY <2>3, <2>4, <2>5, <2>6, OneThread DEF r
<1>3. CASE Joins
    <2>1. PICK t \in Threads : JoinReturns(t) \/ JoinMisses(t)
        BY <1>3 DEF Joins
    <2> DEFINE r == [thread[t] EXCEPT !.run = "gone"]
    <2>2. thread' = [thread EXCEPT ![t] = r] /\ day' = day /\ thread[t].run # "none"
        BY <2>1 DEF JoinReturns, JoinMisses, Outcomes
    <2>3. r \in ThreadType /\ r.mission = thread[t].mission /\ r.day = thread[t].day /\ r.run = "gone"
          /\ r.stalled = thread[t].stalled
        BY <1>0, Zenon DEF ThreadType
    <2>4. r.run # "none" /\ r.mission \in MissionIds /\ r.day <= day
        BY <2>2, <2>3 DEF ThreadOK, UsedIn
    <2> HIDE DEF r
    <2> QED BY <2>2, <2>3, <2>4, OneThread
<1>4. CASE NewDay
    <2>1. thread' = thread /\ day' = day + 1 /\ day' \in 0..MaxDays
        BY <1>0, <1>4, Limits DEF NewDay
    <2>2. \A t \in UsedIn(thread) : thread[t].day \in Nat
        BY <1>0, Limits DEF UsedIn, ThreadType
    <2> QED BY <1>0, <2>1, <2>2, Limits DEF ThreadOK, Kept
<1>5. CASE Restart
    <2> DEFINE r(t) == [thread[t] EXCEPT !.run = "gone", !.live = @ /\ thread[t].run # "running"]
    <2>1. day' = day /\ thread' = [t \in Threads |-> IF thread[t].run = "none" THEN NoThread ELSE r(t)]
        BY <1>5 DEF Restart
    <2>2. NoThread \in ThreadType /\ NoThread.run = "none"
        <3>1. 0 \in 0..MaxDays
            BY Limits
        <3> QED BY <3>1, Zenon DEF NoThread, ThreadType
    <2>3. ASSUME NEW t \in Threads
          PROVE  /\ r(t) \in ThreadType /\ r(t).mission = thread[t].mission /\ r(t).day = thread[t].day
                 /\ r(t).run = "gone" /\ r(t).stalled = thread[t].stalled
        BY <1>0, Zenon DEF ThreadType
    <2> HIDE DEF r
    <2>4. thread' \in [Threads -> ThreadType]
        BY <2>1, <2>2, <2>3
    <2>5. UsedIn(thread') = UsedIn(thread)
        BY <2>1, <2>2, <2>3 DEF UsedIn
    <2>6. \A t \in UsedIn(thread) : thread'[t] = r(t) /\ t \in Threads
        BY <2>1 DEF UsedIn
    <2> QED BY <1>0, <2>1, <2>3, <2>4, <2>5, <2>6 DEF ThreadOK, Kept
<1>6. CASE Outcome
    <2>1. PICK t \in Threads : OutcomeSave(t)
        BY <1>6 DEF Outcome
    <2> DEFINE r == [thread[t] EXCEPT !.stalled = @ \/ Stalls(t)]
    <2>2. CASE thread' = thread
        BY <1>0, <2>1, <2>2 DEF OutcomeSave, ThreadOK, Kept
    <2>3. CASE thread' = [thread EXCEPT ![t] = r]
        <3>1. t \in UsedIn(thread) /\ thread[t].run # "none" /\ day' = day
            BY <2>1 DEF OutcomeSave, WatchOK, UsedIn
        <3>2. thread[t] \in ThreadType /\ (thread[t].stalled \/ Stalls(t)) \in BOOLEAN
            BY <1>0 DEF Stalls, ThreadType
        <3>3. /\ r \in ThreadType /\ r.mission = thread[t].mission /\ r.day = thread[t].day
              /\ r.run = thread[t].run /\ (thread[t].stalled => r.stalled)
            BY <3>2, Zenon DEF ThreadType
        <3>4. r.mission \in MissionIds /\ r.day <= day
            BY <3>1, <3>3 DEF ThreadOK
        <3> HIDE DEF r
        <3> QED BY <2>3, <3>1, <3>3, <3>4, OneThread
    <2> QED BY <2>1, <2>2, <2>3 DEF OutcomeSave
<1>7. CASE ~(Spawns \/ Ends \/ Joins \/ Outcome \/ NewDay \/ Restart)
    BY <1>7, ThreadFrame DEF ThreadOK, Kept
<1> QED BY <1>1, <1>2, <1>3, <1>4, <1>5, <1>6, <1>7

\* Whatever the step does, a record that was consistent with the threads still is.
LEMMA GoodRemains ==
    ASSUME ThreadOK, WatchOK, CallOK, [Next]_vars, NEW m, NEW rec, Good(thread, m, rec)
    PROVE  Good(thread', m, rec)
BY StepThread, GoodStays

(***************************************************************************)
(* The saved records.                                                      *)
(***************************************************************************)
\* A next slot is after the day of every thread.
LEMMA SlotFacts ==
    ASSUME ThreadOK, NEW rec
    PROVE  /\ day + 1 \in 0..(MaxDays + 1) /\ \A t \in UsedIn(thread) : day + 1 > thread[t].day
           /\ NextSlot(rec) \in {0, day + 1}
<1>1. \A t \in UsedIn(thread) : thread[t].day \in Nat /\ thread[t].day <= day
    BY Limits DEF ThreadOK, UsedIn, ThreadType
<1>2. day \in 0..MaxDays
    BY DEF ThreadOK
<1> QED BY <1>1, <1>2, Limits DEF NextSlot

\* The record after a reconciliation that is saved, which notes whether the slot was left.
LEMMA ReconciledGood ==
    ASSUME ThreadOK, WatchOK, CallOK, [Next]_vars, NEW t \in Threads, watcher[t].at = "loaded",
           Stalls(t) => thread'[t].stalled
    PROVE  Good(thread', thread[t].mission, Reconciled(t))
<1> DEFINE m == thread[t].mission
           rec == watcher[t].copy
           n == IF m \in Cron /\ rec.next <= day /\ HasSlot(rec.cron) THEN NextSlot(rec) ELSE rec.next
<1>1. Good(thread, m, rec) /\ t \in UsedIn(thread) /\ rec \in Record
    BY DEF WatchOK, Good
<1>2. Good(thread', m, rec) /\ t \in UsedIn(thread') /\ thread'[t].day = thread[t].day
    <2> HIDE DEF m, rec
    <2> QED BY <1>1, StepThread, GoodRemains DEF Kept
<1>3. CASE t \in rec.history
    BY <1>2, <1>3 DEF Reconciled
<1>4. CASE t \notin rec.history
    <2>1. Reconciled(t) = [Counted(rec, t) EXCEPT !.last = t, !.next = n]
        <3>1. Counted(rec, t) \in Record /\ Counted(rec, t).next = rec.next
            <4> HIDE DEF m, rec
            <4> QED BY <1>2, <1>4, GoodCount DEF Good
        <3> QED BY <1>4, <3>1 DEF Reconciled
    <2>2. n \in 0..(MaxDays + 1)
        BY <1>1, SlotFacts, Limits DEF Record
    <2>3. m \in Cron => n = 0 \/ n > thread[t].day \/ thread'[t].stalled
        <3>1. Reconciled(t).next = n
            <4>1. Counted(rec, t) \in Record
                <5> HIDE DEF m, rec
                <5> QED BY <1>2, <1>4, GoodCount DEF Good
            <4> HIDE DEF n
            <4> QED BY <2>1, <4>1 DEF Record
        <3>2. m \in Cron /\ n \in 1..day => thread'[t].stalled
            BY <1>4, <3>1 DEF Stalls
        <3>3. day \in Nat /\ thread[t].day \in Nat /\ thread[t].day <= day
            BY <1>1, Limits DEF ThreadOK, ThreadType
        <3> HIDE DEF n
        <3> QED BY <2>2, <3>2, <3>3, Limits
    <2>4. Good(thread', m, [Counted(rec, t) EXCEPT !.last = t, !.next = n])
        <3> HIDE DEF m, rec, n
        <3> QED BY <1>2, <1>4, <2>2, <2>3, GoodCount, GoodFire
    <2> QED BY <2>1, <2>4
<1> QED BY <1>3, <1>4

\* The record after a fire, with a thread of today that was not in it.
LEMMA RecordedGood ==
    ASSUME ThreadOK, NEW th, NEW m, NEW rec, Good(th, m, rec), NEW t \in UsedIn(th), t \notin rec.history,
           th[t].day = day
    PROVE  Good(th, m, Recorded(m, rec, t))
<1> DEFINE counted == Counted(rec, t)
           n == IF m \in Cron THEN NextSlot(rec) ELSE rec.next
           late == [counted EXCEPT !.last = t, !.next = n]
<1>1. Good(th, m, counted) /\ t \in counted.history /\ counted.next = rec.next
    BY GoodCount
<1>2. n \in 0..(MaxDays + 1) /\ (m \in Cron => n = 0 \/ n > day)
    BY SlotFacts, Limits DEF Good, Record, ThreadOK
<1>3. Good(th, m, late)
    <2> HIDE DEF counted, n
    <2> QED BY <1>1, <1>2, GoodFire
<1>4. m \notin Cron => [counted EXCEPT !.last = t] = late
    BY <1>1 DEF Good, Record
<1>5. Recorded(m, rec, t) \in {counted, late}
    BY <1>4 DEF Recorded
<1> QED BY <1>1, <1>3, <1>5

LEMMA StepStore ==
    ASSUME IInv, [Next]_vars
    PROVE  StoreOK'
<1>0. /\ ThreadOK /\ StoreOK /\ WatchOK /\ CallOK /\ EditOK
      /\ store \in [MissionIds -> Record] /\ \A m \in MissionIds : Good(thread, m, store[m])
    BY DEF IInv, StoreOK
<1>1. ASSUME NEW m \in MissionIds, NEW rec, Good(thread, m, rec) \/ Good(thread', m, rec),
             store' = [store EXCEPT ![m] = rec]
      PROVE  StoreOK'
    <2>0. Good(thread', m, rec)
        BY <1>0, <1>1, GoodRemains
    <2>1. store' \in [MissionIds -> Record]
        BY <1>0, <1>1, <2>0 DEF Good
    <2>2. \A k \in MissionIds : Good(thread', k, store[k])
        BY <1>0, GoodRemains
    <2> QED BY <1>0, <1>1, <2>0, <2>1, <2>2 DEF StoreOK
<1>2. CASE store' = store
    BY <1>0, <1>2, GoodRemains DEF StoreOK
<1>3. CASE Loads
    <2>1. PICK c \in Callers, m \in MissionIds : FireLoad(c, m)
        BY <1>3 DEF Loads
    <2>2. store' = store \/ store' = [store EXCEPT ![m] = [store[m] EXCEPT !.today = 0]]
        BY <2>1 DEF FireLoad, SaveReset, Refreshed
    <2>3. Good(thread, m, [store[m] EXCEPT !.today = 0])
        BY <1>0, GoodReset
    <2> QED BY <1>1, <1>2, <2>2, <2>3
<1>4. CASE Saves
    <2>1. PICK c \in Callers : FireSave(c)
        BY <1>4 DEF Saves
    <2>2. caller[c].mission \in MissionIds /\ Good(thread, caller[c].mission, caller[c].copy)
        BY <1>0, <2>1 DEF FireSave, CallOK
    <2>3. store' = store \/ store' = [store EXCEPT ![caller[c].mission] = caller[c].copy]
        BY <2>1 DEF FireSave
    <2> QED BY <1>1, <1>2, <2>2, <2>3
<1>5. CASE Outcome
    <2>1. PICK t \in Threads : OutcomeSave(t)
        BY <1>5 DEF Outcome
    <2> DEFINE m == thread[t].mission
               rec(s) == [Reconciled(t) EXCEPT !.status = s]
    <2>2. m \in MissionIds
        BY <1>0, <2>1 DEF OutcomeSave, ThreadOK, WatchOK
    <2>3. CASE store' = store
        BY <1>2, <2>3
    <2>4. CASE thread' = [thread EXCEPT ![t].stalled = @ \/ Stalls(t)]
               /\ \E s \in OutcomeStatus(watcher[t].outcome, Reconciled(t).status) :
                     store' = [store EXCEPT ![m] = rec(s)]
        <3>1. Stalls(t) => thread'[t].stalled
            BY <1>0, <2>4 DEF ThreadOK, ThreadType
        <3>2. Good(thread', m, Reconciled(t))
            BY <1>0, <2>1, <3>1, ReconciledGood DEF OutcomeSave
        <3>3. PICK s \in OutcomeStatus(watcher[t].outcome, Reconciled(t).status) :
                 store' = [store EXCEPT ![m] = rec(s)]
            BY <2>4
        <3>4. s \in Status
            BY <3>2, <3>3 DEF Good, Record, OutcomeStatus, Status
        <3>5. Good(thread', m, rec(s))
            <4> HIDE DEF m
            <4> QED BY <3>2, <3>4, GoodStatus
        <3> HIDE DEF m, rec
        <3> QED BY <1>1, <2>2, <3>3, <3>5
    <2> QED BY <2>1, <2>3, <2>4 DEF OutcomeSave
<1>6. CASE StatusSet
    <2>1. PICK m \in MissionIds, s \in {"Paused", "Completed"} : SetStatus(m, s)
        BY <1>6 DEF StatusSet
    <2>2. s \in Status /\ store' = [store EXCEPT ![m] = [store[m] EXCEPT !.status = s]]
        BY <2>1 DEF SetStatus, Status
    <2>3. Good(thread, m, [store[m] EXCEPT !.status = s])
        BY <1>0, <2>2, GoodStatus
    <2> QED BY <1>1, <2>2, <2>3
<1>7. CASE EditSaves
    <2> DEFINE m == edit.mission
               copy == edit.copy
               new(cron) == [copy EXCEPT !.cron = cron, !.next = day + 1]
    <2>1. m \in MissionIds /\ Good(thread, m, copy) /\ copy.cron \in Schedules
        BY <1>0, <1>7 DEF EditSaves, UpdateSave, ResumeSave, EditOK, Good, Record
    <2>2. ASSUME NEW cron \in Schedules PROVE Good(thread, m, Rescheduled(m, copy, cron))
        <3>1. Good(thread, m, new(cron))
            <4> HIDE DEF m, copy
            <4> QED BY <1>0, <2>1, SlotFacts, GoodSchedule
        <3> QED BY <2>1, <3>1 DEF Rescheduled
    <2>3. CASE UpdateSave
        <3>1. \/ store' = [store EXCEPT ![m] = copy]
              \/ \E cron \in Schedules : store' = [store EXCEPT ![m] = Rescheduled(m, copy, cron)]
            BY <2>3 DEF UpdateSave
        <3> HIDE DEF m, copy, new
        <3> QED BY <1>1, <2>1, <2>2, <3>1
    <2>4. CASE ResumeSave
        <3> DEFINE put == Rescheduled(m, copy, copy.cron)
        <3>1. store' = [store EXCEPT ![m] = [put EXCEPT !.status = "Active"]]
            BY <2>4 DEF ResumeSave
        <3>2. Good(thread, m, put) /\ "Active" \in Status
            BY <2>1, <2>2 DEF Status
        <3> HIDE DEF m, copy, new, put
        <3>3. Good(thread, m, [put EXCEPT !.status = "Active"])
            BY <3>2, GoodStatus
        <3> QED BY <1>1, <2>1, <3>1, <3>3
    <2> QED BY <1>7, <2>3, <2>4 DEF EditSaves
<1>8. CASE ~(Loads \/ Saves \/ Outcome \/ StatusSet \/ EditSaves)
    BY <1>0, <1>2, <1>8, StoreFrame
<1> QED BY <1>3, <1>4, <1>5, <1>6, <1>7, <1>8

(***************************************************************************)
(* The watchers and the edit in flight.                                    *)
(***************************************************************************)
LEMMA StepWatch ==
    ASSUME IInv, [Next]_vars
    PROVE  WatchOK'
<1>0. /\ ThreadOK /\ StoreOK /\ WatchOK /\ CallOK
      /\ watcher \in [Threads -> WatcherType]
      /\ \A t \in UsedIn(thread) : t \in UsedIn(thread') /\ thread'[t].mission = thread[t].mission
    BY StepThread DEF IInv, WatchOK, Kept
<1>1. ASSUME NEW t \in Threads, watcher[t].copy = NewMission
      PROVE  Good(thread', thread'[t].mission, watcher[t].copy)
    BY <1>1, NewIsGood
<1>2. ASSUME NEW t \in Threads
      PROVE  Good(thread', thread'[t].mission, watcher[t].copy)
    <2>1. CASE watcher[t].at = "loaded"
        <3>1. t \in UsedIn(thread) /\ Good(thread, thread[t].mission, watcher[t].copy)
            BY <1>0, <2>1 DEF WatchOK
        <3> QED BY <1>0, <3>1, GoodRemains
    <2>2. CASE watcher[t].at # "loaded"
        BY <1>0, <1>1, <2>2 DEF WatchOK
    <2> QED BY <2>1, <2>2
<1>3. ASSUME NEW t \in Threads, NEW w \in WatcherType, watcher' = [watcher EXCEPT ![t] = w],
             Good(thread', thread'[t].mission, w.copy), w.at # "none" => t \in UsedIn(thread'),
             w.at # "loaded" => w.copy = NewMission
      PROVE  WatchOK'
    <2>1. watcher'[t] = w /\ \A u \in Threads \ {t} : watcher'[u] = watcher[u]
        BY <1>0, <1>3
    <2>2. watcher' \in [Threads -> WatcherType]
        BY <1>0, <1>3
    <2>3. ASSUME NEW u \in Threads
          PROVE  /\ Good(thread', thread'[u].mission, watcher'[u].copy)
                 /\ watcher'[u].at # "none" => u \in UsedIn(thread')
                 /\ watcher'[u].at # "loaded" => watcher'[u].copy = NewMission
        <3>1. CASE u = t
            BY <1>3, <2>1, <3>1
        <3>2. CASE u # t
            BY <1>0, <1>2, <2>1, <3>2 DEF WatchOK
        <3> QED BY <3>1, <3>2
    <2> QED BY <2>2, <2>3 DEF WatchOK
<1>4. NoWatcher \in WatcherType /\ NoWatcher.at = "none" /\ NoWatcher.copy = NewMission
    BY NewIsGood, Zenon DEF NoWatcher, WatcherType
<1>5. CASE Spawns
    <2>1. PICK c \in Callers : FireSpawn(c)
        BY <1>5 DEF Spawns
    <2>2. PICK f : f = Fresh
        OBVIOUS
    <2> DEFINE w == [watcher[f] EXCEPT !.at = "join"]
    <2>3. f \in Threads /\ f \notin UsedIn(thread) /\ watcher' = [watcher EXCEPT ![f] = w]
        BY <2>1, <2>2, FreshFacts DEF FireSpawn
    <2>4. watcher[f].at = "none" /\ watcher[f].copy = NewMission
        BY <1>0, <2>3 DEF WatchOK
    <2>5. w \in WatcherType /\ w.at = "join" /\ w.copy = NewMission
        BY <1>0, <2>3, <2>4 DEF WatcherType
    <2>6. f \in UsedIn(thread')
        BY <1>0, <2>1, <2>2, <2>3 DEF FireSpawn, UsedIn, ThreadOK
    <2> HIDE DEF w
    <2> QED BY <1>3, <2>3, <2>5, <2>6, NewIsGood
<1>6. CASE Joins
    <2>1. PICK t \in Threads : JoinReturns(t) \/ JoinMisses(t)
        BY <1>6 DEF Joins
    <2>2. t \in UsedIn(thread) /\ thread[t].run \in Outcomes /\ thread[t].mission \in MissionIds
        BY <1>0, <2>1 DEF JoinReturns, JoinMisses, WatchOK, ThreadOK
    <2>3. CASE JoinReturns(t)
        <3> DEFINE copy == store[thread[t].mission]
                   w == [at |-> "loaded", outcome |-> thread[t].run, copy |-> copy]
        <3>1. Good(thread, thread[t].mission, copy) /\ copy \in Record
            BY <1>0, <2>2 DEF StoreOK
        <3>2. Good(thread', thread'[t].mission, copy)
            BY <1>0, <2>2, <3>1, GoodRemains
        <3>3. w \in WatcherType /\ w.at = "loaded" /\ w.copy = copy
            BY <2>2, <3>1 DEF WatcherType
        <3>4. watcher' = [watcher EXCEPT ![t] = w]
            BY <2>3 DEF JoinReturns
        <3> HIDE DEF w, copy
        <3> QED BY <1>0, <1>3, <2>2, <3>2, <3>3, <3>4
    <2>4. CASE JoinMisses(t)
        BY <1>3, <1>4, <2>4, NewIsGood DEF JoinMisses
    <2> QED BY <2>1, <2>3, <2>4
<1>7. CASE Outcome
    <2>1. PICK t \in Threads : OutcomeSave(t)
        BY <1>7 DEF Outcome
    <2> QED BY <1>3, <1>4, <2>1, NewIsGood DEF OutcomeSave
<1>8. CASE Restart
    <2>1. watcher' = [t \in Threads |-> NoWatcher]
        BY <1>8 DEF Restart
    <2>2. watcher' \in [Threads -> WatcherType] /\ \A t \in Threads : watcher'[t] = NoWatcher
        BY <1>4, <2>1
    <2> QED BY <1>4, <2>2, NewIsGood DEF WatchOK
<1>9. CASE ~(Spawns \/ Joins \/ Outcome \/ Restart)
    <2>1. watcher' = watcher
        BY <1>0, <1>9, WatchFrame
    <2> QED BY <1>0, <1>2, <2>1 DEF WatchOK
<1> QED BY <1>5, <1>6, <1>7, <1>8, <1>9

LEMMA StepEdit ==
    ASSUME IInv, [Next]_vars
    PROVE  EditOK'
<1>0. ThreadOK /\ StoreOK /\ WatchOK /\ CallOK /\ EditOK
    BY DEF IInv
<1>1. CASE EditLoads
    <2>1. PICK m \in MissionIds, op \in {"update", "resume"} : EditLoad(m, op)
        BY <1>1 DEF EditLoads
    <2>2. edit' = [at |-> "loaded", op |-> op, mission |-> m, copy |-> store[m]] /\ Good(thread, m, store[m])
        BY <1>0, <2>1 DEF EditLoad, StoreOK
    <2>3. edit' \in EditType
        BY <2>2 DEF EditType, Good
    <2>4. edit'.mission = m /\ edit'.copy = store[m]
        BY <2>2
    <2> QED BY <1>0, <2>2, <2>3, <2>4, GoodRemains DEF EditOK
<1>2. CASE EditSaves \/ EditFails \/ Restart
    <2>1. edit' = NoEdit
        BY <1>2 DEF EditSaves, UpdateSave, ResumeSave, EditFails, Restart
    <2>2. NoEdit \in EditType /\ NoEdit.at = "idle" /\ NoEdit.copy = NewMission
        BY NewIsGood DEF NoEdit, EditType
    <2> QED BY <2>1, <2>2, NewIsGood DEF EditOK
<1>3. CASE ~(EditLoads \/ EditSaves \/ EditFails \/ Restart)
    <2>1. edit' = edit
        BY <1>0, <1>3, EditFrame
    <2> QED BY <1>0, <2>1, GoodRemains DEF EditOK
<1> QED BY <1>1, <1>2, <1>3

(***************************************************************************)
(* The ticker and the tasks inside fire_mission.                           *)
(***************************************************************************)
Firing(c) == caller[c].at \in {"fire", "admitted"}

LEMMA HotShrinks ==
    ASSUME CallOK, [Next]_vars, ~FireSpawn("ticker")
    PROVE  hot' \subseteq hot
<1>1. CASE Spawns
    BY <1>1 DEF Spawns, FireSpawn
<1>2. CASE StatusSet \/ EditSaves \/ NewDay \/ Cools \/ Restart
    BY <1>2 DEF StatusSet, SetStatus, EditSaves, UpdateSave, ResumeSave, NewDay, Cools, CooldownElapses, Restart
<1> QED BY <1>1, <1>2, AttemptFrame

\* A mission the ticker finds due, and not on its cooldown, was not fired by it for this slot,
\* or the record of that fire left the slot where it was.
LEMMA DueIsCleared ==
    ASSUME ThreadOK, StoreOK, AttemptOK, NEW m \in MissionIds, IsDue(m), ~OnCooldown(m)
    PROVE  Cleared(thread, day, hot, m)
<1>1. m \in Cron /\ store[m].next \in 1..day
    BY DEF IsDue
<1>2. SUFFICES ASSUME m \in hot
               PROVE  \E t \in UsedIn(thread) :
                         thread[t].mission = m /\ thread[t].day = day /\ thread[t].stalled
    BY <1>1 DEF Cleared
<1>3. /\ attempt[m] # 0 /\ attempt[m] = store[m].last /\ attempt[m] \in UsedIn(thread)
      /\ thread[attempt[m]].day = day /\ thread[attempt[m]].mission = m
    BY <1>2 DEF AttemptOK, OnCooldown
<1>4. store[m].next = 0 \/ store[m].next > day \/ thread[attempt[m]].stalled
    BY <1>1, <1>3 DEF StoreOK, Good
<1>5. day \in Nat
    BY Limits DEF ThreadOK
<1> QED BY <1>1, <1>3, <1>4, <1>5

\* What clears a mission for the day lasts for the day.
LEMMA ClearedStays ==
    ASSUME NEW th, NEW th2, NEW d, NEW d2, NEW h, NEW h2, NEW m,
           Cleared(th, d, h, m), Kept(th, th2), h2 \subseteq h, d2 = d \/ h2 = {}
    PROVE  Cleared(th2, d2, h2, m)
BY DEF Cleared, Kept

\* A new day forgets the fires of the one before.
LEMMA HotIsOfToday ==
    ASSUME CallOK, [Next]_vars
    PROVE  day' = day \/ hot' = {}
<1>1. CASE NewDay \/ Restart
    BY <1>1 DEF NewDay, Restart
<1>2. CASE Spawns \/ Ends \/ Joins \/ Outcome
    BY <1>2 DEF Spawns, Ends, Joins, Outcome, FireSpawn, RunEnds, GatedThreadEnds, JoinReturns, JoinMisses,
        OutcomeSave
<1> QED BY <1>1, <1>2, ThreadFrame

LEMMA StepCall ==
    ASSUME IInv, [Next]_vars
    PROVE  CallOK'
<1>0. /\ ThreadOK /\ StoreOK /\ WatchOK /\ CallOK /\ AttemptOK /\ Kept(thread, thread')
      /\ caller \in [Callers -> CallType] /\ "ticker" \in Callers
      /\ day' = day \/ hot' = {}
    BY StepThread, HotIsOfToday DEF IInv, CallOK, Callers
<1>1. \A m, rec : Good(thread, m, rec) => Good(thread', m, rec)
    BY <1>0, GoodRemains
<1>2. ASSUME NEW c \in Callers, NEW r \in CallType, caller' = [caller EXCEPT ![c] = r],
             Good(thread', r.mission, r.copy),
             r.at \in {"fire", "admitted", "spawned"} => r.mission \in MissionIds,
             r.at \in {"idle", "scan", "fire"} => r.copy = NewMission,
             c = "ticker" /\ r.at \in {"fire", "admitted"} => Cleared(thread, day, hot, r.mission),
             hot' \subseteq hot \/ (c = "ticker" /\ r.at \notin {"fire", "admitted"})
      PROVE  CallOK'
    <2>1. caller'[c] = r /\ \A d \in Callers \ {c} : caller'[d] = caller[d]
        BY <1>0, <1>2
    <2>2. caller' \in [Callers -> CallType]
        BY <1>0, <1>2
    <2>3. ASSUME NEW d \in Callers
          PROVE  /\ Good(thread', caller'[d].mission, caller'[d].copy)
                 /\ caller'[d].at \in {"fire", "admitted", "spawned"} => caller'[d].mission \in MissionIds
                 /\ caller'[d].at \in {"idle", "scan", "fire"} => caller'[d].copy = NewMission
        <3>1. CASE d = c
            BY <1>2, <2>1, <3>1
        <3>2. CASE d # c
            BY <1>0, <1>1, <2>1, <3>2 DEF CallOK
        <3> QED BY <3>1, <3>2
    <2>4. caller'["ticker"].at \in {"fire", "admitted"} => Cleared(thread', day', hot', caller'["ticker"].mission)
        <3>1. CASE c = "ticker"
            BY <1>0, <1>2, <2>1, <3>1, ClearedStays
        <3>2. CASE c # "ticker"
            BY <1>0, <1>2, <2>1, <3>2, ClearedStays DEF CallOK
        <3> QED BY <3>1, <3>2
    <2> QED BY <2>2, <2>3, <2>4 DEF CallOK
<1>3. /\ NoCall \in CallType /\ NoCall.at = "idle" /\ NoCall.copy = NewMission /\ NoCall.mission = "none"
      /\ \A T \in SUBSET MissionIds :
           LET r == [NoCall EXCEPT !.at = "scan", !.todo = T]
           IN  r \in CallType /\ r.at = "scan" /\ r.copy = NewMission
    <2>1. 0 \in 0..MaxThreads
        BY Limits
    <2> QED BY <2>1, NewIsGood, Zenon DEF NoCall, CallType
\* A return from fire_mission.
<1>4. ASSUME NEW c \in Callers, caller' = Returned(c), hot' \subseteq hot
      PROVE  CallOK'
    <2> DEFINE r == IF c = "ticker" THEN [NoCall EXCEPT !.at = "scan", !.todo = caller[c].todo] ELSE NoCall
    <2>1. caller' = [caller EXCEPT ![c] = r]
        BY <1>4 DEF Returned
    <2>2. caller[c].todo \in SUBSET MissionIds
        BY <1>0 DEF CallType
    <2>3. r \in CallType /\ r.at \in {"idle", "scan"} /\ r.copy = NewMission
        BY <1>3, <2>2
    <2> HIDE DEF r
    <2> QED BY <1>2, <1>4, <2>1, <2>3, NewIsGood
<1>5. CASE Ticks
    <2>1. UNCHANGED <<thread, hot>>
        BY <1>5 DEF Ticks, TickBegins, TickEnds, TickVisits
    <2>2. CASE TickBegins
        <3>1. active \in SUBSET MissionIds
            BY <1>0 DEF AttemptOK
        <3> DEFINE r == [NoCall EXCEPT !.at = "scan", !.todo = active]
        <3>2. r \in CallType /\ r.at = "scan" /\ r.copy = NewMission
            BY <1>3, <3>1
        <3>3. caller' = [caller EXCEPT !["ticker"] = r]
            BY <2>2 DEF TickBegins
        <3> HIDE DEF r
        <3> QED BY <1>0, <1>2, <2>1, <3>2, <3>3, NewIsGood
    <2>3. CASE TickEnds
        BY <1>0, <1>2, <1>3, <2>1, <2>3, NewIsGood DEF TickEnds
    <2>4. CASE \E m \in MissionIds : TickVisits(m)
        <3>1. PICK m \in MissionIds : TickVisits(m)
            BY <2>4
        <3> DEFINE old == caller["ticker"]
                   go == [old EXCEPT !.at = "fire", !.mission = m, !.todo = @ \ {m}]
                   skip == [old EXCEPT !.todo = @ \ {m}]
                   due == IsDue(m) /\ ~OnCooldown(m)
        <3>0. old.at = "scan" /\ old \in CallType /\ old.copy = NewMission
            BY <1>0, <3>1 DEF TickVisits, CallOK
        <3>2. /\ due => caller' = [caller EXCEPT !["ticker"] = go]
              /\ ~due => caller' = [caller EXCEPT !["ticker"] = skip]
            <4>1. CASE due
                BY <3>1, <4>1 DEF TickVisits
            <4>2. CASE ~due
                BY <3>1, <4>2 DEF TickVisits
            <4> QED BY <4>1, <4>2
        <3>3. /\ go \in CallType /\ go.at = "fire" /\ go.mission = m /\ go.copy = old.copy
              /\ skip \in CallType /\ skip.at = "scan" /\ skip.mission = old.mission /\ skip.copy = old.copy
            BY <3>0 DEF CallType
        <3>4. Good(thread, m, old.copy) /\ Good(thread, old.mission, old.copy)
            <4>1. Good(thread, old.mission, old.copy)
                BY <1>0 DEF CallOK
            <4> QED BY <3>0, <4>1, NewIsGood
        <3>5. due => Cleared(thread, day, hot, m)
            BY <1>0, DueIsCleared
        <3> HIDE DEF old, go, skip, due
        <3> QED BY <1>0, <1>1, <1>2, <2>1, <3>0, <3>2, <3>3, <3>4, <3>5
    <2> QED BY <1>5, <2>2, <2>3, <2>4 DEF Ticks
<1>6. CASE Loads
    <2>1. PICK c \in Callers, m \in MissionIds :
             FireLoad(c, m) /\ (c = "ticker" => caller[c].at = "fire" /\ m = caller[c].mission)
        BY <1>6 DEF Loads
    <2>2. hot' = hot
        BY <2>1 DEF FireLoad
    <2>3. CASE caller' = Returned(c)
        BY <1>4, <2>2, <2>3
    <2> DEFINE copy == Refreshed(m)
               r == [caller[c] EXCEPT !.at = "admitted", !.mission = m, !.copy = copy]
    <2>4. CASE caller' = [caller EXCEPT ![c] = r]
        <3>1. Good(thread, m, copy) /\ copy \in Record
            BY <1>0, GoodReset DEF StoreOK, Refreshed, Good
        <3>2. r \in CallType /\ r.at = "admitted" /\ r.mission = m /\ r.copy = copy
            BY <1>0, <3>1 DEF CallType
        <3>3. c = "ticker" => Cleared(thread, day, hot, m)
            BY <1>0, <2>1 DEF CallOK
        <3> HIDE DEF r, copy
        <3> QED BY <1>1, <1>2, <2>2, <2>4, <3>1, <3>2, <3>3
    <2>5. caller' = Returned(c) \/ caller' = [caller EXCEPT ![c] = r]
        BY <2>1 DEF FireLoad
    <2> QED BY <2>3, <2>4, <2>5
<1>7. CASE Refusals \/ Saves
    <2>1. PICK c \in Callers : SpawnFails(c) \/ FireSave(c)
        BY <1>7 DEF Refusals, Saves
    <2> QED BY <1>4, <2>1 DEF SpawnFails, FireSave
<1>8. CASE Spawns
    <2>1. PICK c \in Callers : FireSpawn(c)
        BY <1>8 DEF Spawns
    <2>2. PICK f : f = Fresh
        OBVIOUS
    <2> DEFINE m == caller[c].mission
               copy == Recorded(m, caller[c].copy, f)
               r == [caller[c] EXCEPT !.at = "spawned", !.thread = f, !.copy = copy]
    <2>3. f \in Threads /\ f \notin UsedIn(thread) /\ caller' = [caller EXCEPT ![c] = r]
        BY <2>1, <2>2, FreshFacts DEF FireSpawn
    <2>4. thread' = [thread EXCEPT ![f] = [mission |-> m, live |-> TRUE, run |-> "running", day |-> day,
                                           stalled |-> FALSE]]
        BY <2>1, <2>2 DEF FireSpawn
    <2>5. f \in UsedIn(thread') /\ thread'[f].day = day
        BY <1>0, <2>3, <2>4 DEF UsedIn, ThreadOK
    <2>6. m \in MissionIds /\ Good(thread, m, caller[c].copy) /\ caller[c].copy \in Record
        BY <1>0, <2>1 DEF CallOK, FireSpawn, Good
    <2>7. Good(thread', m, caller[c].copy) /\ f \notin caller[c].copy.history
        BY <1>1, <2>3, <2>6 DEF Good
    <2>8. Good(thread', m, caller[c].copy) /\ day \in 0..MaxDays
        BY <1>0, <2>7 DEF ThreadOK
    <2>9. Good(thread', m, copy)
        <3> HIDE DEF m
        <3> QED BY <1>0, <2>5, <2>7, <2>8, RecordedGood
    <2>10. r \in CallType /\ r.at = "spawned" /\ r.mission = m /\ r.copy = copy
        <3>1. f \in 0..MaxThreads /\ copy \in Record
            BY <2>3, <2>9, Limits DEF Threads, Good
        <3> HIDE DEF copy
        <3> QED BY <1>0, <3>1 DEF CallType
    <2>11. hot' \subseteq hot \/ c = "ticker"
        BY <2>1 DEF FireSpawn
    <2> HIDE DEF copy, r, m
    <2> QED BY <1>2, <2>3, <2>6, <2>9, <2>10, <2>11
<1>9. CASE Restart
    <2>1. caller' = [c \in Callers |-> NoCall]
        BY <1>9 DEF Restart
    <2>2. caller' \in [Callers -> CallType] /\ \A c \in Callers : caller'[c] = NoCall
        BY <1>3, <2>1
    <2> QED BY <1>0, <1>3, <2>2, NewIsGood DEF CallOK
<1>10. CASE ~(Ticks \/ Loads \/ Spawns \/ Saves \/ Refusals \/ Restart)
    <2>1. caller' = caller
        BY <1>0, <1>10, CallFrame
    <2>2. hot' \subseteq hot
        BY <1>0, <1>10, HotShrinks DEF Spawns
    <2>3. caller["ticker"].at \in {"fire", "admitted"} => Cleared(thread', day', hot', caller["ticker"].mission)
        BY <1>0, <2>2, ClearedStays DEF CallOK
    <2>4. \A c \in Callers : Good(thread', caller[c].mission, caller[c].copy)
        BY <1>0, <1>1 DEF CallOK
    <2> QED BY <1>0, <2>1, <2>3, <2>4 DEF CallOK
<1> QED BY <1>5, <1>6, <1>7, <1>8, <1>9, <1>10

(***************************************************************************)
(* The ticker's index and the attempts.                                    *)
(***************************************************************************)
LEMMA StepAttempt ==
    ASSUME IInv, [Next]_vars
    PROVE  AttemptOK'
<1>0. ThreadOK /\ WatchOK /\ CallOK /\ AttemptOK /\ EditOK /\ Kept(thread, thread')
    BY StepThread DEF IInv
<1>1. /\ active \subseteq MissionIds /\ attempt \in [MissionIds -> 0..MaxThreads]
      /\ \A m \in MissionIds : attempt[m] # 0 => attempt[m] \in UsedIn(thread')
      /\ \A m \in hot : /\ m \in Cron /\ m \in MissionIds /\ attempt[m] # 0
                        /\ thread'[attempt[m]].day = day /\ thread'[attempt[m]].mission = m
    BY <1>0, Limits DEF AttemptOK, Kept
<1>2. CASE Spawns
    <2>1. PICK c \in Callers : FireSpawn(c)
        BY <1>2 DEF Spawns
    <2>2. PICK f : f = Fresh
        OBVIOUS
    <2> DEFINE m == caller[c].mission
    <2>3. f \in Threads /\ f # 0 /\ f \in 0..MaxThreads /\ m \in MissionIds
        BY <1>0, <2>1, <2>2, FreshFacts, Limits DEF FireSpawn, Threads, CallOK
    <2>4. /\ attempt' = [attempt EXCEPT ![m] = f] /\ active' = active /\ day' = day
          /\ thread' = [thread EXCEPT ![f] = [mission |-> m, live |-> TRUE, run |-> "running", day |-> day,
                                              stalled |-> FALSE]]
          /\ hot' \subseteq hot \cup {m} /\ (c # "ticker" => hot' = hot)
        BY <2>1, <2>2 DEF FireSpawn
    <2>5. f \in UsedIn(thread') /\ thread'[f].day = day /\ thread'[f].mission = m
        BY <1>0, <2>3, <2>4 DEF UsedIn, ThreadOK
    <2>6. m \in hot' => m \in Cron
        BY <1>0, <1>1, <2>1, <2>4 DEF CallOK, FireSpawn, Cleared
    <2> HIDE DEF m
    <2>7. /\ attempt' \in [MissionIds -> 0..MaxThreads] /\ attempt'[m] = f
          /\ \A k \in MissionIds \ {m} : attempt'[k] = attempt[k]
        BY <1>1, <2>3, <2>4
    <2> QED BY <1>1, <2>3, <2>4, <2>5, <2>6, <2>7 DEF AttemptOK
<1>3. CASE StatusSet \/ Cools
    <2>1. PICK m \in MissionIds : /\ attempt' = [attempt EXCEPT ![m] = 0] /\ hot' = hot \ {m}
                                  /\ active' \subseteq active /\ day' = day
        BY <1>3 DEF StatusSet, Cools, SetStatus, CooldownElapses
    <2> QED BY <1>1, <2>1, Limits DEF AttemptOK
<1>4. CASE EditSaves
    <2>1. /\ UNCHANGED <<attempt, hot, day>> /\ edit.mission \in MissionIds
          /\ active' \subseteq active \cup {edit.mission}
        BY <1>0, <1>4 DEF EditSaves, UpdateSave, ResumeSave, EditOK
    <2> QED BY <1>1, <2>1 DEF AttemptOK
<1>5. CASE NewDay
    BY <1>1, <1>5 DEF NewDay, AttemptOK
<1>6. CASE Restart
    <2>1. /\ attempt' = [m \in MissionIds |-> 0] /\ hot' = {}
          /\ active' = {m \in MissionIds : store[m].status = "Active"}
        BY <1>6 DEF Restart
    <2>2. active' \subseteq MissionIds
        BY <2>1
    <2>3. attempt' \in [MissionIds -> 0..MaxThreads] /\ \A m \in MissionIds : attempt'[m] = 0
        BY <2>1, Limits
    <2> QED BY <2>1, <2>2, <2>3 DEF AttemptOK
<1>7. CASE ~(Spawns \/ StatusSet \/ EditSaves \/ NewDay \/ Cools \/ Restart)
    <2>1. UNCHANGED <<active, attempt, hot>>
        BY <1>0, <1>7, AttemptFrame
    <2>2. day' = day
        <3>1. CASE Ends \/ Joins \/ Outcome
            BY <3>1 DEF Ends, Joins, Outcome, RunEnds, GatedThreadEnds, JoinReturns, JoinMisses, OutcomeSave
        <3> QED BY <1>0, <1>7, <3>1, ThreadFrame
    <2> QED BY <1>1, <2>1, <2>2 DEF AttemptOK
<1> QED BY <1>2, <1>3, <1>4, <1>5, <1>6, <1>7

(***************************************************************************)
(* Theorems.                                                               *)
(***************************************************************************)
LEMMA InitInv == Init => IInv
<1> SUFFICES ASSUME Init PROVE IInv
    OBVIOUS
<1>1. NewMission \in Record /\ \A m : Good(thread, m, NewMission)
    BY NewIsGood
<1>2. 0 \in 0..MaxDays /\ 0 \in 0..MaxThreads /\ 1 \in 0..(MaxDays + 1)
    BY Limits
<1>3. ThreadOK
    <2>1. NoThread \in ThreadType /\ NoThread.run = "none"
        BY <1>2, Zenon DEF NoThread, ThreadType
    <2>2. thread \in [Threads -> ThreadType] /\ \A t \in Threads : thread[t] = NoThread
        BY <2>1 DEF Init
    <2>3. UsedIn(thread) = {}
        BY <2>1, <2>2 DEF UsedIn
    <2> QED BY <1>2, <2>2, <2>3 DEF Init, ThreadOK
<1>4. StoreOK
    <2> DEFINE first(s) == [NewMission EXCEPT !.next = 1, !.cron = s]
    <2>1. PICK cron \in [MissionIds -> Schedules] :
             store = [m \in MissionIds |-> IF m \in Cron THEN first(cron[m]) ELSE NewMission]
        BY DEF Init
    <2>2. ASSUME NEW m, NEW s \in Schedules PROVE first(s) \in Record /\ Good(thread, m, first(s))
        <3>1. /\ first(s) \in Record /\ first(s).history = {} /\ first(s).last = 0 /\ first(s).today = 0
            BY <1>1, <1>2 DEF NewMission, Record
        <3>2. Cardinality({}) = 0
            BY FS_EmptySet
        <3> HIDE DEF first
        <3> QED BY <3>1, <3>2 DEF Good
    <2>3. ASSUME NEW m \in MissionIds PROVE store[m] \in Record /\ Good(thread, m, store[m])
        <3> HIDE DEF first
        <3> QED BY <1>1, <2>1, <2>2
    <2>4. store = [m \in MissionIds |-> store[m]]
        BY <2>1
    <2> QED BY <2>3, <2>4 DEF StoreOK
<1>5. WatchOK
    <2>1. NoWatcher \in WatcherType /\ NoWatcher.at = "none" /\ NoWatcher.copy = NewMission
        BY <1>1, Zenon DEF NoWatcher, WatcherType
    <2>2. watcher \in [Threads -> WatcherType] /\ \A t \in Threads : watcher[t] = NoWatcher
        BY <2>1 DEF Init
    <2> QED BY <1>1, <2>1, <2>2 DEF WatchOK
<1>6. CallOK
    <2>1. NoCall \in CallType /\ NoCall.at = "idle" /\ NoCall.copy = NewMission
        BY <1>1, <1>2, Zenon DEF NoCall, CallType
    <2>2. caller \in [Callers -> CallType] /\ \A c \in Callers : caller[c] = NoCall
        BY <2>1 DEF Init
    <2>3. "ticker" \in Callers
        BY DEF Callers
    <2> QED BY <1>1, <2>1, <2>2, <2>3 DEF CallOK
<1>7. EditOK
    <2>1. NoEdit \in EditType /\ NoEdit.at = "idle" /\ NoEdit.copy = NewMission
        BY <1>1 DEF NoEdit, EditType
    <2> QED BY <1>1, <2>1 DEF Init, EditOK
<1>8. AttemptOK
    BY <1>2 DEF Init, AttemptOK
<1> QED BY <1>3, <1>4, <1>5, <1>6, <1>7, <1>8 DEF IInv

LEMMA StepInv == IInv /\ [Next]_vars => IInv'
BY StepThread, StepStore, StepWatch, StepCall, StepEdit, StepAttempt DEF IInv

\* The invariant holds whichever writer of a record comes last, whichever save fails and
\* whenever the process restarts.
THEOREM Invariance == Spec => []IInv
BY InitInv, StepInv, PTL DEF Spec

\* No counter of a record passes the number of threads, and no slot is set beyond tomorrow.
THEOREM TypeCorrect == Spec => []TypeOK
<1>1. IInv => TypeOK
    BY DEF IInv, TypeOK, ThreadOK, StoreOK, WatchOK, CallOK, EditOK, AttemptOK, ThreadType, WatcherType, CallType,
        EditType
<1> QED BY <1>1, Invariance, PTL

\* Every saved record and every copy counts a thread once, whether fire_mission or the
\* outcome processor writes it into the record, or both do.
THEOREM ThreadsAreCountedOnce == Spec => []CountedOnce
<1>1. IInv => CountedOnce
    BY DEF IInv, StoreOK, WatchOK, CallOK, EditOK, Good, CountedOnce
<1> QED BY <1>1, Invariance, PTL

\* Within 90 s of a fire for today's slot the ticker does not fire the mission again, unless a
\* fire of today was reconciled to a record that keeps the passed slot (mission.rs:2231-2241):
\* otherwise a record that says that the slot is due does not know of the last attempt.
THEOREM SlotFiresOnce == Spec => NoRefireWhileCool
<1> DEFINE Excused == \E t \in Threads : /\ thread[t].mission = caller["ticker"].mission
                                         /\ thread[t].day = day /\ thread[t].stalled
           Hot == caller["ticker"].mission \in hot
<1>1. ASSUME IInv, caller["ticker"].at = "admitted", Hot PROVE Excused
    BY <1>1 DEF IInv, CallOK, Cleared, UsedIn
<1>2. IInv /\ [Next]_vars => [SpawnedBy("ticker") /\ Hot => Excused]_vars
    BY <1>1 DEF SpawnedBy
<1> QED BY <1>2, Invariance, PTL DEF Spec, NoRefireWhileCool
=============================================================================
