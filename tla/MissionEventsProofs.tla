------------------------ MODULE MissionEventsProofs ------------------------
(***************************************************************************)
(* TLAPS proofs about MissionEvents, for every set of missions, events and *)
(* delivering tasks and every limit.                                       *)
(***************************************************************************)
EXTENDS MissionEvents, Integers, FiniteSetTheorems, TLAPS

LEMMA Limits ==
    /\ "none" \notin MissionIds /\ "none" \notin Events
    /\ IsFiniteSet(Senders) /\ Cardinality(Senders) \in Nat \ {0}
    /\ MaxFires \in Nat \ {0} /\ MaxThreads \in Nat /\ MaxRestarts \in Nat
<1>1. IsFiniteSet(Senders) /\ Senders # {}
    BY EventAssumption DEF EventAssumption
<1>2. Cardinality(Senders) \in Nat \ {0}
    BY <1>1, FS_CardinalityType, FS_EmptySet
<1> QED BY <1>1, <1>2, EventAssumption DEF EventAssumption

(***************************************************************************)
(* A delivery that is at work on a mission has its key in the dedup table, *)
(* no other delivery works on that key, and until it spawns its thread     *)
(* none was spawned for the key.                                           *)
(***************************************************************************)
Delivery ==
    [at : {"idle", "scan", "marked", "allowed", "spawned"},
     event : Events \cup {"none"}, todo : SUBSET MissionIds,
     mission : MissionIds \cup {"none"}, thread : 0..MaxThreads]

Busy(s) == sender[s].at \in {"marked", "allowed", "spawned"}
Unanswered(s) == sender[s].at \in {"marked", "allowed"}

DedupInv ==
    /\ answered \subseteq dedup
    /\ \A s \in Senders :
         /\ sender[s].at # "idle" => sender[s].event \in Events
         /\ Busy(s) => sender[s].mission \in MissionIds /\ Key(s) \in dedup
         /\ Unanswered(s) => Key(s) \notin answered
    /\ \A r, s \in Senders : r # s /\ Busy(r) /\ Busy(s) => Key(r) # Key(s)

(***************************************************************************)
(* Every young thread is recorded or is about to be recorded by the        *)
(* delivery that spawned it.  A delivery that was let through holds a      *)
(* place beyond the recorded fires: when the last one was let through the  *)
(* recorded fires were below the limit, and there is one place per task.   *)
(***************************************************************************)
Passed == {s \in Senders : sender[s].at \in {"allowed", "spawned"}}

Fired(s, t) == sender[s].at = "spawned" /\ sender[s].thread = t

RateInv ==
    /\ \A s \in Senders : sender[s].at = "spawned" => sender[s].thread \in 1..spawned
    /\ \A t \in young : t \in fireLog \/ \E s \in Senders : Fired(s, t)
    /\ Cardinality(fireLog) + Cardinality(Passed) <= MaxFires + Cardinality(Senders) - 1

IInv == TypeOK /\ DedupInv /\ RateInv

(***************************************************************************)
(* What a step does to the deliveries.                                     *)
(***************************************************************************)
\* A delivery's step changes its own record only.
LEMMA StepDelivery ==
    ASSUME TypeOK, NEW s \in Senders, SenderStep(s)
    PROVE  /\ sender' \in [Senders -> Delivery]
           /\ \A r \in Senders \ {s} : sender'[r] = sender[r]
           /\ boots' = boots /\ spawned' \in 0..MaxThreads
<1>1. sender \in [Senders -> Delivery] /\ spawned \in 0..MaxThreads
    BY DEF TypeOK, Delivery
<1>0. Idle \in Delivery
    BY Limits DEF Delivery, Idle
<1>2. ASSUME NEW r \in Delivery, sender' = [sender EXCEPT ![s] = r]
      PROVE  sender' \in [Senders -> Delivery] /\ \A q \in Senders \ {s} : sender'[q] = sender[q]
    BY <1>1, <1>2
<1>3. \E r \in Delivery : sender' = [sender EXCEPT ![s] = r]
    <2> USE <1>0, <1>1, Limits
    <2>0. sender[s] \in Delivery
        OBVIOUS
    <2>1. CASE \E e \in Events : EventArrives(s, e)
        <3>1. PICK e \in Events : EventArrives(s, e)
            BY <2>1
        <3> DEFINE r == [Idle EXCEPT !.at = "scan", !.event = e, !.todo = MissionIds]
        <3>2. r \in Delivery
            BY DEF Delivery, Idle
        <3> QED BY <3>1, <3>2 DEF EventArrives
    <2>2. CASE DeliveryEnds(s) \/ Fail(s)
        BY <2>2 DEF DeliveryEnds, Fail
    <2>3. CASE \E m \in MissionIds : Visit(s, m) \/ Mark(s, m)
        <3>1. PICK m \in MissionIds : Visit(s, m) \/ Mark(s, m)
            BY <2>3
        <3> DEFINE v == [sender[s] EXCEPT !.todo = @ \ {m}]
                   k == [sender[s] EXCEPT !.at = "marked", !.mission = m, !.todo = @ \ {m}]
        <3>2. v \in Delivery /\ k \in Delivery
            BY DEF Delivery
        <3>3. sender' = [sender EXCEPT ![s] = v] \/ sender' = [sender EXCEPT ![s] = k]
            BY <3>1 DEF Visit, Mark
        <3> QED BY <3>2, <3>3
    <2>4. CASE Allow(s)
        <3> DEFINE r == [sender[s] EXCEPT !.at = "allowed"]
        <3>1. r \in Delivery
            BY <2>0 DEF Delivery
        <3> QED BY <2>4, <3>1 DEF Allow
    <2>5. CASE Refuse(s) \/ Record(s)
        <3> DEFINE r == [sender[s] EXCEPT !.at = "scan", !.mission = "none", !.thread = 0]
        <3>0. "none" \in MissionIds \cup {"none"} /\ 0 \in 0..MaxThreads
            OBVIOUS
        <3>1. r \in Delivery
            BY <2>0, <3>0, Zenon DEF Delivery
        <3>2. sender' = [sender EXCEPT ![s] = r]
            BY <2>5 DEF Refuse, Record, NextMission
        <3> QED BY <3>1, <3>2
    <2>6. CASE Spawn(s)
        <3> DEFINE r == [sender[s] EXCEPT !.at = "spawned", !.thread = spawned + 1]
        <3>1. spawned + 1 \in 0..MaxThreads
            BY <2>6 DEF Spawn
        <3>2. r \in Delivery
            BY <3>1 DEF Delivery
        <3> QED BY <2>6, <3>2 DEF Spawn
    <2> QED BY <2>1, <2>2, <2>3, <2>4, <2>5, <2>6 DEF SenderStep
<1>4. boots' = boots /\ spawned' \in 0..MaxThreads
    <2>1. CASE Spawn(s)
        BY <1>1, <2>1, Limits DEF Spawn
    <2>2. CASE ~Spawn(s)
        <3>1. UNCHANGED <<boots, spawned>>
            BY <2>2, Zenon DEF SenderStep, EventArrives, DeliveryEnds, Visit, Mark, Allow, Refuse, Fail, Record
        <3> QED BY <1>1, <3>1
    <2> QED BY <2>1, <2>2
<1> QED BY <1>2, <1>3, <1>4

\* What the steps do to the delivery itself, and to the tables.
Quiet(s) == UNCHANGED <<dedup, answered>> /\ sender'[s].at \in {"idle", "scan"}

LEMMA StepEffects ==
    ASSUME TypeOK, DedupInv, NEW s \in Senders, SenderStep(s)
    PROVE  \/ /\ Quiet(s) /\ UNCHANGED <<fireLog, young, spawned>>
              /\ sender[s].at # "spawned"
              /\ sender'[s].at # "idle" => sender'[s].event \in Events
           \/ /\ UNCHANGED <<answered, fireLog, young, spawned>>
              /\ sender[s].at = "scan" /\ sender'[s].at = "marked" /\ sender'[s].event = sender[s].event
              /\ sender'[s].mission \in MissionIds
              /\ Key(s)' \notin dedup /\ dedup' = dedup \cup {Key(s)'}
           \/ /\ UNCHANGED <<dedup, answered, fireLog, young, spawned>> /\ RateAllows
              /\ sender[s].at = "marked" /\ sender'[s].at = "allowed"
              /\ sender'[s].event = sender[s].event /\ sender'[s].mission = sender[s].mission
           \/ /\ UNCHANGED <<dedup, fireLog>> /\ answered' = answered \cup {Key(s)}
              /\ spawned' = spawned + 1 /\ young' = young \cup {spawned'}
              /\ sender[s].at = "allowed" /\ sender'[s].at = "spawned" /\ sender'[s].thread = spawned'
              /\ sender'[s].event = sender[s].event /\ sender'[s].mission = sender[s].mission
           \/ /\ Quiet(s) /\ UNCHANGED <<young, spawned>>
              /\ sender[s].at = "spawned" /\ sender'[s].at = "scan" /\ sender'[s].event \in Events
              /\ fireLog' = fireLog \cup {sender[s].thread}
<1>0. /\ sender \in [Senders -> Delivery]
      /\ sender[s].at # "idle" => sender[s].event \in Events
    BY DEF TypeOK, Delivery, DedupInv
<1>1. CASE \E e \in Events : EventArrives(s, e)
    BY <1>0, <1>1 DEF EventArrives, Quiet, Delivery, Idle
<1>2. CASE DeliveryEnds(s) \/ Fail(s)
    BY <1>0, <1>2 DEF DeliveryEnds, Fail, Quiet, Delivery, Idle
<1>3. CASE \E m \in MissionIds : Visit(s, m)
    BY <1>0, <1>3 DEF Visit, Quiet, Delivery
<1>4. CASE \E m \in MissionIds : Mark(s, m)
    <2>1. PICK m \in MissionIds : Mark(s, m)
        BY <1>4
    <2>2. sender'[s].at = "marked" /\ sender'[s].mission = m /\ sender'[s].event = sender[s].event
        BY <1>0, <2>1 DEF Mark, Delivery
    <2>3. Key(s)' = <<m, sender[s].event>>
        BY <2>2 DEF Key
    <2> QED BY <2>1, <2>2, <2>3 DEF Mark, Seen
<1>5. CASE Allow(s)
    BY <1>0, <1>5 DEF Allow, Delivery
<1>6. CASE Refuse(s)
    BY <1>0, <1>6 DEF Refuse, NextMission, Quiet, Delivery
<1>7. CASE Record(s)
    BY <1>0, <1>7 DEF Record, NextMission, Quiet, Delivery
<1>8. CASE Spawn(s)
    BY <1>0, <1>8 DEF Spawn, Delivery
<1> QED BY <1>1, <1>2, <1>3, <1>4, <1>5, <1>6, <1>7, <1>8 DEF SenderStep

LEMMA StepDedup ==
    ASSUME TypeOK, DedupInv, NEW s \in Senders, SenderStep(s)
    PROVE  DedupInv'
<1>0. \A r \in Senders \ {s} : /\ sender'[r] = sender[r] /\ Key(r)' = Key(r)
                               /\ Busy(r)' = Busy(r) /\ Unanswered(r)' = Unanswered(r)
    <2>1. \A r \in Senders \ {s} : sender'[r] = sender[r]
        BY StepDelivery
    <2> QED BY <2>1 DEF Key, Busy, Unanswered
<1>i. /\ answered \subseteq dedup
      /\ \A r \in Senders :
           /\ sender[r].at # "idle" => sender[r].event \in Events
           /\ Busy(r) => sender[r].mission \in MissionIds /\ Key(r) \in dedup
           /\ Unanswered(r) => Key(r) \notin answered
      /\ \A q, r \in Senders : q # r /\ Busy(q) /\ Busy(r) => Key(q) # Key(r)
    BY DEF DedupInv
<1>1. CASE Quiet(s) /\ (sender'[s].at # "idle" => sender'[s].event \in Events)
    <2>1. ~Busy(s)' /\ ~Unanswered(s)'
        BY <1>1 DEF Quiet, Busy, Unanswered
    <2> QED BY <1>0, <1>i, <1>1, <2>1 DEF DedupInv, Quiet
<1>2. CASE /\ answered' = answered
           /\ sender[s].at = "scan" /\ sender'[s].at = "marked" /\ sender'[s].event = sender[s].event
           /\ sender'[s].mission \in MissionIds
           /\ Key(s)' \notin dedup /\ dedup' = dedup \cup {Key(s)'}
    BY <1>0, <1>i, <1>2 DEF DedupInv
<1>3. CASE /\ UNCHANGED <<dedup, answered>> /\ sender[s].at = "marked" /\ sender'[s].at = "allowed"
           /\ sender'[s].event = sender[s].event /\ sender'[s].mission = sender[s].mission
    <2>1. Key(s)' = Key(s) /\ Busy(s) /\ Unanswered(s)
        BY <1>3 DEF Key, Busy, Unanswered
    <2> QED BY <1>0, <1>i, <1>3, <2>1 DEF DedupInv
<1>4. CASE /\ UNCHANGED dedup /\ answered' = answered \cup {Key(s)}
           /\ sender[s].at = "allowed" /\ sender'[s].at = "spawned"
           /\ sender'[s].event = sender[s].event /\ sender'[s].mission = sender[s].mission
    <2>1. Key(s)' = Key(s) /\ Busy(s) /\ ~Unanswered(s)'
        BY <1>4 DEF Key, Busy, Unanswered
    <2>2. \A r \in Senders : Unanswered(r) => Busy(r)
        BY DEF Unanswered, Busy
    <2> QED BY <1>0, <1>i, <1>4, <2>1, <2>2 DEF DedupInv
<1> QED BY <1>1, <1>2, <1>3, <1>4, StepEffects DEF Quiet

LEMMA RateSetsFinite ==
    ASSUME TypeOK
    PROVE  /\ IsFiniteSet(fireLog) /\ Cardinality(fireLog) \in Nat
           /\ IsFiniteSet(Passed) /\ Cardinality(Passed) \in Nat
<1>1. IsFiniteSet(1..spawned) /\ fireLog \in SUBSET (1..spawned)
    BY Limits, FS_Interval DEF TypeOK
<1>2. Passed \in SUBSET Senders
    BY DEF Passed
<1> QED BY <1>1, <1>2, Limits, FS_Subset, FS_CardinalityType

LEMMA StepRate ==
    ASSUME TypeOK, DedupInv, RateInv, NEW s \in Senders, SenderStep(s)
    PROVE  RateInv'
<1>1. \A r \in Senders \ {s} : sender'[r] = sender[r]
    BY StepDelivery
<1>2. \A r \in Senders \ {s} : \A t : Fired(r, t)' = Fired(r, t)
    BY <1>1 DEF Fired
<1>3. \A r \in Senders \ {s} : r \in Passed' <=> r \in Passed
    BY <1>1 DEF Passed
<1>4. Passed \subseteq Senders /\ Passed' \subseteq Senders
    BY DEF Passed
<1>5. /\ IsFiniteSet(fireLog) /\ Cardinality(fireLog) \in Nat
      /\ IsFiniteSet(Passed) /\ Cardinality(Passed) \in Nat
    BY RateSetsFinite
<1>6. MaxFires \in Nat /\ Cardinality(Senders) \in Nat /\ IsFiniteSet(Senders) /\ spawned \in Nat
    BY Limits DEF TypeOK
<1>i. /\ \A r \in Senders : sender[r].at = "spawned" => sender[r].thread \in 1..spawned
      /\ \A t \in young : t \in fireLog \/ \E r \in Senders : Fired(r, t)
      /\ Cardinality(fireLog) + Cardinality(Passed) <= MaxFires + Cardinality(Senders) - 1
    BY DEF RateInv
<1>7. CASE UNCHANGED <<fireLog, young, spawned>> /\ sender[s].at # "spawned" /\ sender'[s].at \in {"idle", "scan", "marked"}
    <2>1. Passed' \in SUBSET Passed
        BY <1>3, <1>4, <1>7 DEF Passed
    <2>2. Cardinality(Passed') \in Nat /\ Cardinality(Passed') <= Cardinality(Passed)
        BY <1>5, <2>1, FS_Subset, FS_CardinalityType
    <2>3. \A t : ~Fired(s, t)
        BY <1>7 DEF Fired
    <2>4. Cardinality(fireLog') + Cardinality(Passed') <= MaxFires + Cardinality(Senders) - 1
        BY <1>i, <1>5, <1>6, <1>7, <2>2
    <2> QED BY <1>1, <1>2, <1>i, <1>7, <2>3, <2>4 DEF RateInv
<1>8. CASE UNCHANGED <<fireLog, young, spawned>> /\ RateAllows /\ sender[s].at = "marked" /\ sender'[s].at = "allowed"
    <2>1. Passed' \in SUBSET Senders
        BY <1>4
    <2>2. Cardinality(Passed') \in Nat /\ Cardinality(Passed') <= Cardinality(Senders)
        BY <1>6, <2>1, FS_Subset, FS_CardinalityType
    <2>3. \A t : ~Fired(s, t)
        BY <1>8 DEF Fired
    <2>4. Cardinality(fireLog') + Cardinality(Passed') <= MaxFires + Cardinality(Senders) - 1
        BY <1>5, <1>6, <1>8, <2>2 DEF RateAllows
    <2> QED BY <1>1, <1>2, <1>i, <1>8, <2>3, <2>4 DEF RateInv
<1>9. CASE /\ UNCHANGED fireLog /\ spawned' = spawned + 1 /\ young' = young \cup {spawned'}
           /\ sender[s].at = "allowed" /\ sender'[s].at = "spawned" /\ sender'[s].thread = spawned'
    <2>1. Passed' = Passed
        BY <1>3, <1>4, <1>9 DEF Passed
    <2>2. Fired(s, spawned)' /\ \A t : ~Fired(s, t)
        BY <1>9 DEF Fired
    <2> QED BY <1>1, <1>2, <1>6, <1>i, <1>9, <2>1, <2>2 DEF RateInv
<1>10. CASE /\ UNCHANGED <<young, spawned>> /\ sender[s].at = "spawned" /\ sender'[s].at = "scan"
            /\ fireLog' = fireLog \cup {sender[s].thread}
    <2>1. Passed' = Passed \ {s} /\ s \in Passed
        BY <1>3, <1>4, <1>10 DEF Passed
    <2>2. Cardinality(Passed') = Cardinality(Passed) - 1
        BY <1>5, <2>1, FS_RemoveElement
    <2>3. Cardinality(fireLog') \in Nat /\ Cardinality(fireLog') <= Cardinality(fireLog) + 1
        <3>1. /\ IsFiniteSet(fireLog \cup {sender[s].thread})
              /\ Cardinality(fireLog \cup {sender[s].thread}) \in {Cardinality(fireLog), Cardinality(fireLog) + 1}
            BY <1>5, FS_AddElement
        <3> QED BY <1>5, <1>10, <3>1
    <2>4. Cardinality(fireLog') + Cardinality(Passed') <= MaxFires + Cardinality(Senders) - 1
        BY <1>i, <1>5, <1>6, <2>2, <2>3
    <2>5. \A t : Fired(s, t) => t = sender[s].thread
        BY DEF Fired
    <2> QED BY <1>1, <1>2, <1>i, <1>10, <2>4, <2>5 DEF RateInv
<1> QED BY <1>7, <1>8, <1>9, <1>10, StepEffects DEF Quiet

LEMMA StepType ==
    ASSUME TypeOK, DedupInv, RateInv, NEW s \in Senders, SenderStep(s)
    PROVE  TypeOK'
<1>1. sender' \in [Senders -> Delivery] /\ boots' = boots /\ spawned' \in 0..MaxThreads
    BY StepDelivery
<1>2. sender \in [Senders -> Delivery] /\ spawned \in 0..MaxThreads /\ boots \in 0..MaxRestarts
      /\ fireLog \subseteq 1..spawned /\ young \subseteq 1..spawned
      /\ dedup \subseteq MissionIds \X Events /\ answered \subseteq dedup
    BY DEF TypeOK, DedupInv, Delivery
<1>3. dedup' \subseteq MissionIds \X Events
    <2>1. CASE dedup' = dedup
        BY <1>2, <2>1
    <2>2. CASE /\ sender[s].at = "scan" /\ sender'[s].event = sender[s].event
               /\ sender'[s].mission \in MissionIds /\ dedup' = dedup \cup {Key(s)'}
        <3>1. sender[s].event \in Events
            BY <2>2 DEF DedupInv
        <3>2. Key(s)' = <<sender'[s].mission, sender'[s].event>>
            BY DEF Key
        <3> QED BY <1>2, <2>2, <3>1, <3>2
    <2> QED BY <2>1, <2>2, StepEffects DEF Quiet
<1>4. answered' \subseteq dedup'
    BY StepDedup DEF DedupInv
<1>5. fireLog' \subseteq 1..spawned' /\ young' \subseteq 1..spawned'
    <2>1. CASE UNCHANGED <<fireLog, young, spawned>>
        BY <1>2, <2>1
    <2>2. CASE UNCHANGED fireLog /\ spawned' = spawned + 1 /\ young' = young \cup {spawned'}
        BY <1>2, <2>2, Limits
    <2>3. CASE UNCHANGED <<young, spawned>> /\ sender[s].at = "spawned" /\ fireLog' = fireLog \cup {sender[s].thread}
        BY <1>2, <2>3 DEF RateInv
    <2> QED BY <2>1, <2>2, <2>3, StepEffects
<1> QED BY <1>1, <1>2, <1>3, <1>4, <1>5 DEF TypeOK, Delivery

(***************************************************************************)
(* The steps of time, and a restart.                                       *)
(***************************************************************************)
LEMMA StepRateWindow ==
    ASSUME IInv, NEW t \in Threads, RateWindowElapses(t)
    PROVE  IInv'
<1>1. /\ UNCHANGED <<dedup, sender, spawned, boots, answered>>
      /\ fireLog' = fireLog \ {t} /\ young' = young \ {t} /\ t \in fireLog
    BY DEF RateWindowElapses
<1>2. TypeOK'
    BY <1>1 DEF IInv, TypeOK
<1>3. DedupInv'
    BY <1>1 DEF IInv, DedupInv, Busy, Unanswered, Key
<1>4. RateInv'
    <2>1. /\ IsFiniteSet(fireLog) /\ Cardinality(fireLog) \in Nat /\ Cardinality(Passed) \in Nat
          /\ MaxFires \in Nat /\ Cardinality(Senders) \in Nat
        BY RateSetsFinite, Limits DEF IInv
    <2>2. Cardinality(fireLog') = Cardinality(fireLog) - 1
        BY <1>1, <2>1, FS_RemoveElement
    <2>3. Passed' = Passed /\ \A s, u : Fired(s, u)' = Fired(s, u)
        BY <1>1 DEF Passed, Fired
    <2> QED BY <1>1, <2>1, <2>2, <2>3 DEF IInv, RateInv
<1> QED BY <1>2, <1>3, <1>4 DEF IInv

LEMMA StepDedupWindow ==
    ASSUME IInv, NEW key \in MissionIds \X Events, DedupElapses(key)
    PROVE  IInv'
<1>1. /\ UNCHANGED <<fireLog, sender, spawned, boots, young>>
      /\ dedup' = dedup \ {key} /\ answered' = answered \ {key}
      /\ \A s \in Senders : Key(s) # key
    BY DEF DedupElapses
<1>2. TypeOK'
    BY <1>1 DEF IInv, TypeOK
<1>3. DedupInv'
    <2>1. \A s \in Senders : Busy(s)' = Busy(s) /\ Unanswered(s)' = Unanswered(s) /\ Key(s)' = Key(s)
        BY <1>1 DEF Busy, Unanswered, Key
    <2> QED BY <1>1, <2>1 DEF IInv, DedupInv
<1>4. RateInv'
    BY <1>1 DEF IInv, RateInv, Passed, Fired
<1> QED BY <1>2, <1>3, <1>4 DEF IInv

\* A process that has delivered nothing yet.
Booted ==
    /\ sender = [s \in Senders |-> Idle] /\ dedup = {} /\ fireLog = {} /\ young = {} /\ answered = {}
    /\ spawned \in 0..MaxThreads /\ boots \in 0..MaxRestarts

LEMMA BootedInv == Booted => IInv
<1> SUFFICES ASSUME Booted PROVE IInv
    OBVIOUS
<1> USE DEF Booted
<1>1. sender \in [Senders -> Delivery]
    <2>1. Idle \in Delivery
        BY Limits DEF Delivery, Idle
    <2> QED BY <2>1
<1>2. \A s \in Senders : sender[s].at = "idle"
    BY DEF Idle
<1>3. TypeOK
    BY <1>1 DEF TypeOK, Delivery
<1>4. DedupInv
    BY <1>2 DEF DedupInv, Busy, Unanswered
<1>5. RateInv
    <2>1. Passed = {}
        BY <1>2 DEF Passed
    <2>2. Cardinality(fireLog) + Cardinality(Passed) <= MaxFires + Cardinality(Senders) - 1
        BY <2>1, Limits, FS_EmptySet
    <2> QED BY <1>2, <2>2 DEF RateInv
<1> QED BY <1>3, <1>4, <1>5 DEF IInv

LEMMA InitInv == Init => IInv
BY BootedInv, Limits DEF Init, Booted

LEMMA RestartInv == Booted' => IInv'
BY BootedInv, PTL

LEMMA StepInv == IInv /\ [Next]_vars => IInv'
<1> SUFFICES ASSUME IInv, [Next]_vars PROVE IInv'
    OBVIOUS
<1>1. ASSUME NEW s \in Senders, SenderStep(s) PROVE IInv'
    BY <1>1, StepType, StepDedup, StepRate DEF IInv
<1>2. CASE Restart
    <2>1. Booted'
        BY <1>2, Limits DEF Restart, IInv, TypeOK, Booted, Idle
    <2> QED BY <2>1, RestartInv
<1>3. CASE UNCHANGED vars
    <2>1. TypeOK' /\ DedupInv' /\ RateInv'
        BY <1>3 DEF vars, IInv, TypeOK, DedupInv, RateInv, Busy, Unanswered, Key, Passed, Fired
    <2> QED BY <2>1 DEF IInv
<1> QED BY <1>1, <1>2, <1>3, StepRateWindow, StepDedupWindow DEF Next

\* The invariant holds whatever deliveries overlap, whichever windows run out and whenever
\* the process restarts.
THEOREM Invariance == Spec => []IInv
BY InitInv, StepInv, PTL DEF Spec

\* Only fires that spawned a thread are in a user's rate window.
THEOREM TypeCorrect == Spec => []TypeOK
<1>1. IInv => TypeOK
    BY DEF IInv
<1> QED BY <1>1, Invariance, PTL

\* The rate of a user is exceeded by at most one thread for each further delivering task:
\* the threads that are young are recorded, or their deliveries are among those that were
\* let through.
THEOREM OvershootIsBounded == Spec => []RateOvershootIsBounded
<1>1. ASSUME IInv PROVE RateOvershootIsBounded
    <2>0. TypeOK /\ RateInv
        BY <1>1 DEF IInv
    <2>1. /\ IsFiniteSet(fireLog) /\ Cardinality(fireLog) \in Nat
          /\ IsFiniteSet(Passed) /\ Cardinality(Passed) \in Nat
        BY <2>0, RateSetsFinite
    <2> DEFINE late == young \ fireLog
               by == [t \in late |-> CHOOSE s \in Senders : Fired(s, t)]
    <2>2. \A t \in late : by[t] \in Passed /\ Fired(by[t], t)
        <3> SUFFICES ASSUME NEW t \in late PROVE by[t] \in Passed /\ Fired(by[t], t)
            OBVIOUS
        <3>1. \E s \in Senders : Fired(s, t)
            BY <2>0 DEF RateInv
        <3>2. by[t] \in Senders /\ Fired(by[t], t)
            BY <3>1
        <3> QED BY <3>2 DEF Passed, Fired
    <2>3. \A t, u \in late : by[t] = by[u] => t = u
        BY <2>2 DEF Fired
    <2>4. by \in Injection(late, Passed)
        <3>1. by \in [late -> Passed]
            BY <2>2
        <3> HIDE DEF by, late
        <3> QED BY <2>3, <3>1 DEF Injection, IsInjective
    <2>5. IsFiniteSet(late) /\ Cardinality(late) \in Nat /\ Cardinality(late) <= Cardinality(Passed)
        <3> HIDE DEF by, late
        <3> QED BY <2>1, <2>4, FS_Injection, FS_CardinalityType
    <2>6. young \in SUBSET (fireLog \cup late)
        OBVIOUS
    <2> HIDE DEF by, late
    <2>7. /\ IsFiniteSet(fireLog \cup late)
          /\ Cardinality(fireLog \cup late) = Cardinality(fireLog) + Cardinality(late) - Cardinality(fireLog \cap late)
        BY <2>1, <2>5, FS_Union
    <2>8. Cardinality(fireLog \cap late) \in Nat
        <3>1. fireLog \cap late \in SUBSET late
            OBVIOUS
        <3> QED BY <2>5, <3>1, FS_Subset, FS_CardinalityType
    <2>9. Cardinality(young) <= Cardinality(fireLog \cup late) /\ Cardinality(young) \in Nat
        BY <2>6, <2>7, FS_Subset, FS_CardinalityType
    <2> QED BY <2>0, <2>1, <2>5, <2>7, <2>8, <2>9, Limits DEF RateInv, RateOvershootIsBounded
<1> QED BY <1>1, Invariance, PTL

\* However often and by however many tasks an event is delivered, it spawns one thread for
\* a mission within the dedup window.
THEOREM OneThreadPerEvent == Spec => EventFiresOnce
<1>1. ASSUME IInv, NEW s \in Senders, sender[s].at = "allowed" PROVE Key(s) \notin answered
    BY <1>1 DEF IInv, DedupInv, Unanswered
<1>2. IInv /\ [Next]_vars =>
        [\A s \in Senders : sender[s].at = "allowed" /\ sender'[s].at = "spawned" => Key(s) \notin answered]_vars
    BY <1>1
<1> QED BY <1>2, Invariance, PTL DEF Spec, EventFiresOnce
=============================================================================
