--------------------------- MODULE MissionEvents ---------------------------
(***************************************************************************)
(* What decides whether an event fires its missions: the dedup table and   *)
(* the rate limit of a user, both in memory and shared by the tasks that   *)
(* deliver events at the same time.  An event may be delivered again, by   *)
(* the same task or by another.                                            *)
(*                                                                         *)
(* The rest of fire_mission is in Missions; here it refuses, fails or      *)
(* spawns.  All missions match all events and belong to one user.  Times   *)
(* in the tables are replaced by the moment an entry's window runs out.    *)
(***************************************************************************)
EXTENDS Naturals, FiniteSets

CONSTANTS
    MissionIds,   \* active event-driven missions with a dedup window
    Events,       \* dedup keys
    Senders,      \* tasks that deliver events
    MaxFires,     \* FireRateLimit::max_fires
    MaxThreads,   \* bound: threads spawned
    MaxRestarts   \* bound: restarts

ASSUME EventAssumption ==
    /\ "none" \notin MissionIds /\ "none" \notin Events
    /\ IsFiniteSet(Senders) /\ Senders # {}
    /\ MaxFires \in Nat \ {0} /\ MaxThreads \in Nat /\ MaxRestarts \in Nat

VARIABLES
    dedup,     \* dedup_table: keys within their window
    fireLog,   \* user_fire_log: fires within the window
    sender,    \* where a delivery is: [at, event, todo, mission, thread]
    spawned,   \* number of threads spawned
    boots,
    young,     \* history: threads spawned by this process within the rate window
    answered   \* history: keys a thread was spawned for within the dedup window

vars == <<dedup, fireLog, sender, spawned, boots, young, answered>>

Threads == 1..MaxThreads
Idle == [at |-> "idle", event |-> "none", todo |-> {}, mission |-> "none", thread |-> 0]
Key(s) == <<sender[s].mission, sender[s].event>>

TypeOK ==
    /\ dedup \subseteq MissionIds \X Events
    /\ fireLog \subseteq 1..spawned    \* only fires that spawned a thread count
    /\ sender \in [Senders ->
           [at : {"idle", "scan", "marked", "allowed", "spawned"},
            event : Events \cup {"none"}, todo : SUBSET MissionIds,
            mission : MissionIds \cup {"none"}, thread : 0..MaxThreads]]
    /\ spawned \in 0..MaxThreads /\ boots \in 0..MaxRestarts
    /\ young \subseteq 1..spawned
    /\ answered \subseteq MissionIds \X Events

Init ==
    /\ dedup = {} /\ fireLog = {}
    /\ sender = [s \in Senders |-> Idle]
    /\ spawned = 0 /\ boots = 0
    /\ young = {} /\ answered = {}

\* fire_on_message_event, fire_on_system_event and fire_on_webhook.
EventArrives(s, e) ==
    /\ sender[s].at = "idle"
    /\ sender' = [sender EXCEPT ![s] = [Idle EXCEPT !.at = "scan", !.event = e,
                                                    !.todo = MissionIds]]
    /\ UNCHANGED <<dedup, fireLog, spawned, boots, young, answered>>

DeliveryEnds(s) ==
    /\ sender[s].at = "scan" /\ sender[s].todo = {}
    /\ sender' = [sender EXCEPT ![s] = Idle]
    /\ UNCHANGED <<dedup, fireLog, spawned, boots, young, answered>>

Seen(s, m) == <<m, sender[s].event>> \in dedup

Visit(s, m) ==
    /\ sender[s].at = "scan" /\ m \in sender[s].todo
    /\ sender' = [sender EXCEPT ![s].todo = @ \ {m}]
    /\ Seen(s, m)
    /\ UNCHANGED <<dedup, fireLog, spawned, boots, young, answered>>

\* Mutant of Mark: this mission's window evicts the entries of the others.
MarkEvicts(s, m) ==
    /\ sender[s].at = "scan" /\ m \in sender[s].todo
    /\ ~Seen(s, m)
    /\ dedup' = {key \in dedup : key[1] = m} \cup {<<m, sender[s].event>>}
    /\ sender' = [sender EXCEPT ![s].at = "marked", ![s].mission = m, ![s].todo = @ \ {m}]
    /\ UNCHANGED <<fireLog, spawned, boots, young, answered>>

\* dedup_event looks the key up and inserts it under one lock.
Mark(s, m) ==
    /\ sender[s].at = "scan" /\ m \in sender[s].todo
    /\ ~Seen(s, m)
    /\ dedup' = dedup \cup {<<m, sender[s].event>>}
    /\ sender' = [sender EXCEPT ![s].at = "marked", ![s].mission = m, ![s].todo = @ \ {m}]
    /\ UNCHANGED <<fireLog, spawned, boots, young, answered>>

\* fire_mission returns Ok(None): the delivery goes on with the next mission.
NextMission(s) == [sender EXCEPT ![s].at = "scan", ![s].mission = "none", ![s].thread = 0]

\* check_user_rate only looks.
RateAllows == Cardinality(fireLog) < MaxFires

Allow(s) ==
    /\ sender[s].at = "marked" /\ RateAllows
    /\ sender' = [sender EXCEPT ![s].at = "allowed"]
    /\ UNCHANGED <<dedup, fireLog, spawned, boots, young, answered>>

\* The rate, before it another limit of the mission, or after it the budget gate, refuses.
Refuse(s) ==
    /\ sender[s].at \in {"marked", "allowed"}
    /\ sender' = NextMission(s)
    /\ UNCHANGED <<dedup, fireLog, spawned, boots, young, answered>>

\* An error of fire_mission ends the delivery; the key stays marked.
Fail(s) ==
    /\ sender[s].at \in {"marked", "allowed"}
    /\ sender' = [sender EXCEPT ![s] = Idle]
    /\ UNCHANGED <<dedup, fireLog, spawned, boots, young, answered>>

Spawn(s) ==
    /\ sender[s].at = "allowed" /\ spawned < MaxThreads
    /\ spawned' = spawned + 1
    /\ sender' = [sender EXCEPT ![s].at = "spawned", ![s].thread = spawned']
    /\ young' = young \cup {spawned'}
    /\ answered' = answered \cup {Key(s)}
    /\ UNCHANGED <<dedup, fireLog, boots>>

\* Mutant of Record: the fire is not recorded when the mission could not be saved.
RecordIfSaved(s) ==
    /\ sender[s].at = "spawned"
    /\ fireLog' \in {fireLog, fireLog \cup {sender[s].thread}}
    /\ sender' = NextMission(s)
    /\ UNCHANGED <<dedup, spawned, boots, young, answered>>

\* record_user_rate, after save_mission and whatever that returned.
Record(s) ==
    /\ sender[s].at = "spawned"
    /\ fireLog' = fireLog \cup {sender[s].thread}
    /\ sender' = NextMission(s)
    /\ UNCHANGED <<dedup, spawned, boots, young, answered>>

\* The oldest fire leaves the window.
RateWindowElapses(t) ==
    /\ t \in fireLog /\ \A u \in fireLog : t <= u
    /\ fireLog' = fireLog \ {t} /\ young' = young \ {t}
    /\ UNCHANGED <<dedup, sender, spawned, boots, answered>>

\* A dedup window is longer than the delivery that opened it.
DedupElapses(key) ==
    /\ key \in dedup /\ \A s \in Senders : Key(s) # key
    /\ dedup' = dedup \ {key} /\ answered' = answered \ {key}
    /\ UNCHANGED <<fireLog, sender, spawned, boots, young>>

Restart ==
    /\ boots < MaxRestarts /\ boots' = boots + 1
    /\ dedup' = {} /\ fireLog' = {} /\ young' = {} /\ answered' = {}
    /\ sender' = [s \in Senders |-> Idle]
    /\ UNCHANGED spawned

SenderStep(s) ==
    \/ \E e \in Events : EventArrives(s, e)
    \/ DeliveryEnds(s)
    \/ \E m \in MissionIds : Visit(s, m) \/ Mark(s, m)
    \/ Allow(s) \/ Refuse(s) \/ Fail(s) \/ Spawn(s) \/ Record(s)

Next ==
    \/ \E s \in Senders : SenderStep(s)
    \/ \E t \in Threads : RateWindowElapses(t)
    \/ \E key \in MissionIds \X Events : DedupElapses(key)
    \/ Restart

Spec == Init /\ [][Next]_vars

(***************************************************************************)
(* Properties.                                                             *)
(***************************************************************************)
\* However often and by however many tasks an event is delivered, it spawns one thread per mission
\* within the dedup window, which here outlasts a delivery: a key leaves the table only when no
\* delivery of its event is at work (DedupElapses).
EventFiresOnce ==
    [][\A s \in Senders :
         sender[s].at = "allowed" /\ sender'[s].at = "spawned" => Key(s) \notin answered]_vars

\* The rate of a user is exceeded by at most the fires that were checked before the others were
\* recorded: one for each further sender.
RateOvershootIsBounded == Cardinality(young) <= MaxFires + Cardinality(Senders) - 1
=============================================================================
