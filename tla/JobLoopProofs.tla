--------------------------- MODULE JobLoopProofs ---------------------------
(***************************************************************************)
(* TLAPS proofs about JobLoop, for every number of iterations, nudges,     *)
(* rate limits, plan actions and messages and every set of tool batches.   *)
(***************************************************************************)
EXTENDS JobLoop, Integers, SequenceTheorems, TLAPS

USE DEF ctxVars, mailbox, counters

LEMMA Limits ==
    /\ MaxNudges \in Nat /\ PlanLength \in Nat /\ MaxMessages \in Nat
    /\ MaxIterations \in Nat \ {0} /\ MaxRateLimits \in Nat \ {0}
    /\ ForceTextAt \in Nat \ {0} /\ Truncations \in Nat \ {0}
BY JobLoopAssumption DEF JobLoopAssumption

(***************************************************************************)
(* Sequences, by their elements.                                           *)
(***************************************************************************)
LEMMA ElementFacts ==
    ASSUME NEW S, NEW s \in Seq(S)
    PROVE  Len(s) \in Nat /\ (\A i \in 1..Len(s) : s[i] \in S) /\ (s # << >> <=> Len(s) >= 1)
BY EmptySeq, LenProperties, ElementOfSeq

LEMMA AppendFacts ==
    ASSUME NEW S, NEW s \in Seq(S), NEW e \in S
    PROVE  /\ Append(s, e) \in Seq(S) /\ Len(Append(s, e)) = Len(s) + 1
           /\ \A i \in 1..(Len(s) + 1) : Append(s, e)[i] = IF i = Len(s) + 1 THEN e ELSE s[i]
BY AppendProperties, ElementFacts

LEMMA TailFacts ==
    ASSUME NEW S, NEW s \in Seq(S), s # << >>
    PROVE  /\ Head(s) = s[1] /\ s[1] \in S
           /\ Tail(s) \in Seq(S) /\ Len(Tail(s)) = Len(s) - 1
           /\ \A i \in 1..(Len(s) - 1) : Tail(s)[i] = s[i + 1]
BY HeadTailProperties, ElementFacts

(***************************************************************************)
(* The parts of the worker's state that belong together, as types.         *)
(***************************************************************************)
MailTypeOK ==
    /\ sent \in 0..MaxMessages /\ mail \in Seq(0..MaxMessages) /\ read \in Seq(1..MaxMessages)
StageTypeOK ==
    /\ ctx \in JobState /\ stopping \in BOOLEAN
    /\ at \in Running \cup {"ok", "error", "gone"}
    /\ iter \in 0..(MaxIterations + PlanLength)
    /\ offered \in BOOLEAN /\ forceText \in BOOLEAN
CountTypeOK ==
    /\ nudges \in 0..MaxNudges /\ truncs \in Nat /\ limits \in 0..MaxRateLimits
    /\ limits = MaxRateLimits => at \in {"error", "gone"}
DupType   == [last : SUBSET Batches, count : 0..MaxIterations]
RecType   == [empties : 0..3, pending : BOOLEAN, active : BOOLEAN]
BatchType == [calls : SUBSET Batches, failed : BOOLEAN]
BatchTypeOK ==
    /\ dup \in DupType /\ rec \in RecType /\ batches \in Seq(BatchType)
    /\ at = "tools" => batches # <<>> /\ ~batches[Len(batches)].failed

LEMMA TypeParts == TypeOK <=> MailTypeOK /\ StageTypeOK /\ CountTypeOK /\ BatchTypeOK
BY DEF TypeOK, MailTypeOK, StageTypeOK, CountTypeOK, BatchTypeOK, DupType, RecType, BatchType

\* transition_to stays within the states of a job.
LEMMA TransitionType == \A s \in JobState : \A t : TransitionTo(s, t) \in JobState
BY DEF TransitionTo, CanTransition, Successors, JobState

(***************************************************************************)
(* Frames: which steps touch the channel and the counters.                 *)
(***************************************************************************)
MailChange == PlanMessage \/ Signals \/ Return \/ Timeout \/ UserSends \/ SendStop \/ Abort

LEMMA MailFrame ==
    ASSUME [Next]_vars, ~MailChange
    PROVE  UNCHANGED mailbox
BY DEF Next, vars, MailChange, WorkerStep, PlanStep, LoopStep, ModelStep, PlanAction, PlanDone, LoopExhausted,
       SelectTools, SelectNothing, ModelFails, RateLimited, RespondTools, RespondTruncated, RespondIntent,
       RespondAnswer, RespondMalformed, RecoveryFails, BudgetError, RunTools, Outside

\* Outside the loop's steps with the model, what it counts stays as it is.
ModelChange == ModelStep \/ RunTools

LEMMA CountFrame ==
    ASSUME [Next]_vars, ~ModelChange
    PROVE  UNCHANGED <<nudges, truncs, limits, dup, batches, forceText>>
BY DEF Next, vars, ModelChange, WorkerStep, PlanStep, LoopStep, PlanMessage, PlanAction, PlanDone, Signals, Iterate,
       LoopExhausted, Return, Timeout, UserSends, SendStop, Abort, Outside

(***************************************************************************)
(* The channel.  Together the messages read and those that wait are in     *)
(* the order in which they were sent, and none was sent later than `sent'. *)
(***************************************************************************)
OrderInv ==
    /\ \A i \in 1..Len(read) : read[i] <= sent
    /\ \A i \in 1..Len(mail) : mail[i] <= sent
    /\ \A i, k \in 1..Len(mail) : i < k /\ mail[i] # Stop /\ mail[k] # Stop => mail[i] < mail[k]
    /\ \A i \in 1..Len(read), k \in 1..Len(mail) : mail[k] # Stop => read[i] < mail[k]
    /\ ReadInOrder

\* Reading the first waiting message, which is not a Stop.
LEMMA ReadFirst ==
    ASSUME MailTypeOK, OrderInv, mail # <<>>, mail[1] # Stop, read' = Append(read, mail[1]), sent' = sent
    PROVE  /\ read' \in Seq(1..MaxMessages)
           /\ \A i \in 1..Len(read)' : read'[i] <= sent'
           /\ ReadInOrder'
           /\ \A i \in 1..Len(read)', k \in 2..Len(mail) : mail[k] # Stop => read'[i] < mail[k]
<1>1. Len(mail) \in Nat /\ Len(mail) >= 1 /\ mail[1] \in 1..MaxMessages
    BY ElementFacts, Limits DEF MailTypeOK, Stop
<1>2. /\ read \in Seq(1..MaxMessages) /\ read' \in Seq(1..MaxMessages) /\ Len(read') = Len(read) + 1
      /\ \A i \in 1..Len(read') : read'[i] = IF i = Len(read) + 1 THEN mail[1] ELSE read[i]
    BY <1>1, AppendFacts DEF MailTypeOK
<1>3. \A i \in 1..Len(read) : read[i] < mail[1] /\ read[i] \in Nat
    <2> SUFFICES ASSUME NEW i \in 1..Len(read) PROVE read[i] < mail[1] /\ read[i] \in Nat
        OBVIOUS
    <2>0. \A m \in 1..Len(read) : read[m] \in 1..MaxMessages
        BY <1>2, ElementFacts
    <2>1. read[i] \in 1..MaxMessages /\ 1 \in 1..Len(mail)
        BY <1>1, <2>0
    <2> QED BY <1>1, <2>1, Limits DEF OrderInv
<1>4. \A k \in 2..Len(mail) : mail[k] # Stop => mail[1] < mail[k] /\ mail[k] \in Nat
    <2> SUFFICES ASSUME NEW k \in 2..Len(mail), mail[k] # Stop
                 PROVE  mail[1] < mail[k] /\ mail[k] \in Nat
        OBVIOUS
    <2>1. 1 \in 1..Len(mail) /\ k \in 1..Len(mail) /\ 1 < k
        BY <1>1
    <2>2. mail[k] \in 0..MaxMessages
        BY <2>1, ElementFacts DEF MailTypeOK
    <2> QED BY <1>1, <2>1, <2>2, Limits DEF OrderInv
<1>5. sent \in Nat /\ mail[1] <= sent
    BY <1>1 DEF OrderInv, MailTypeOK
<1>6. \A i, k \in 1..Len(read) : i < k => read[i] < read[k]
    BY DEF OrderInv, ReadInOrder
<1>7. \A i \in 1..Len(read) : read[i] <= sent
    BY DEF OrderInv
<1>8. Len(read) \in Nat
    BY <1>2
<1>9. ReadInOrder'
    BY <1>1, <1>2, <1>3, <1>6, <1>8 DEF ReadInOrder
<1>10. \A i \in 1..Len(read') : read'[i] <= sent'
    BY <1>1, <1>2, <1>5, <1>7, <1>8
<1>11. ASSUME NEW i \in 1..Len(read'), NEW k \in 2..Len(mail), mail[k] # Stop
       PROVE  read'[i] < mail[k]
    <2>1. CASE i = Len(read) + 1
        BY <1>2, <1>4, <1>11, <2>1
    <2>2. CASE i \in 1..Len(read)
        <3>1. k \in 1..Len(mail) /\ read'[i] = read[i]
            BY <1>1, <1>2, <1>8, <2>2
        <3> QED BY <1>11, <2>2, <3>1 DEF OrderInv
    <2> QED BY <1>2, <1>8, <2>1, <2>2
<1> QED BY <1>2, <1>9, <1>10, <1>11

LEMMA StepOrder ==
    ASSUME MailTypeOK, OrderInv, [Next]_vars
    PROVE  MailTypeOK' /\ OrderInv'
<1>0. /\ mail \in Seq(0..MaxMessages) /\ Len(mail) \in Nat /\ read \in Seq(1..MaxMessages) /\ Len(read) \in Nat
      /\ sent \in 0..MaxMessages /\ MaxMessages \in Nat
    BY Limits DEF MailTypeOK
<1>1. ASSUME mail' = <<>>, UNCHANGED <<sent, read>> PROVE MailTypeOK' /\ OrderInv'
    BY <1>0, <1>1 DEF MailTypeOK, OrderInv, ReadInOrder
<1>2. CASE PlanMessage
    <2>0. mail # <<>> /\ mail' = Tail(mail) /\ sent' = sent
        BY <1>2 DEF PlanMessage
    <2>1. /\ Len(mail) >= 1 /\ mail' \in Seq(0..MaxMessages) /\ Len(mail') = Len(mail) - 1
          /\ \A k \in 1..Len(mail') : mail'[k] = mail[k + 1]
          /\ Head(mail) = mail[1]
        BY <1>0, <2>0, TailFacts, ElementFacts
    <2>2. /\ \A i \in 1..Len(mail') : mail'[i] <= sent'
          /\ \A i, k \in 1..Len(mail') : i < k /\ mail'[i] # Stop /\ mail'[k] # Stop => mail'[i] < mail'[k]
        BY <1>0, <2>0, <2>1 DEF OrderInv
    <2>3. CASE mail[1] = Stop
        <3>1. read' = read
            BY <1>2, <2>1, <2>3 DEF PlanMessage
        <3>2. \A i \in 1..Len(read), k \in 1..Len(mail') : mail'[k] # Stop => read[i] < mail'[k]
            <4> SUFFICES ASSUME NEW i \in 1..Len(read), NEW k \in 1..Len(mail'), mail'[k] # Stop
                         PROVE  read[i] < mail'[k]
                OBVIOUS
            <4>1. k + 1 \in 1..Len(mail) /\ mail'[k] = mail[k + 1]
                BY <1>0, <2>1
            <4> QED BY <4>1 DEF OrderInv
        <3> QED BY <1>0, <2>0, <2>1, <2>2, <3>1, <3>2 DEF MailTypeOK, OrderInv, ReadInOrder
    <2>4. CASE mail[1] # Stop
        <3>1. read' = Append(read, mail[1])
            BY <1>2, <2>1, <2>4 DEF PlanMessage
        <3>2. /\ read' \in Seq(1..MaxMessages) /\ ReadInOrder'
              /\ \A i \in 1..Len(read') : read'[i] <= sent'
              /\ \A i \in 1..Len(read'), k \in 2..Len(mail) : mail[k] # Stop => read'[i] < mail[k]
            BY <2>0, <2>4, <3>1, ReadFirst
        <3>3. \A i \in 1..Len(read'), k \in 1..Len(mail') : mail'[k] # Stop => read'[i] < mail'[k]
            <4> SUFFICES ASSUME NEW i \in 1..Len(read'), NEW k \in 1..Len(mail'), mail'[k] # Stop
                         PROVE  read'[i] < mail'[k]
                OBVIOUS
            <4>1. k + 1 \in 2..Len(mail) /\ mail'[k] = mail[k + 1]
                BY <1>0, <2>1
            <4> QED BY <3>2, <4>1
        <3> QED BY <1>0, <2>0, <2>1, <2>2, <3>2, <3>3 DEF MailTypeOK, OrderInv
    <2> QED BY <2>3, <2>4
<1>3. CASE Signals
    <2>0. mail' = <<>> /\ sent' = sent
        BY <1>3 DEF Signals
    <2>1. CASE mail # <<>> /\ ~StopRequested
        <3>1. Len(mail) >= 1 /\ Head(mail) = mail[1] /\ mail[1] # Stop
            BY <1>0, <2>1, ElementFacts, TailFacts DEF StopRequested
        <3>2. read' = read \o <<mail[1]>>
            BY <1>3, <2>1, <3>1 DEF Signals, Iterate
        <3>3. read' = Append(read, mail[1])
            BY <1>0, <3>1, <3>2, AppendIsConcat
        <3>4. read' \in Seq(1..MaxMessages) /\ ReadInOrder' /\ \A i \in 1..Len(read') : read'[i] <= sent'
            BY <2>0, <2>1, <3>1, <3>3, ReadFirst
        <3> QED BY <1>0, <2>0, <3>4 DEF MailTypeOK, OrderInv
    <2>2. CASE mail = <<>> \/ StopRequested
        <3>1. read' = read \/ read' = read \o << >>
            BY <1>3, <2>2 DEF Signals, Iterate
        <3>2. read' = read
            BY <1>0, <3>1, ConcatEmptySeq
        <3> QED BY <1>1, <2>0, <3>2
    <2> QED BY <2>1, <2>2
<1>4. CASE Return \/ Timeout \/ Abort
    BY <1>1, <1>4 DEF Return, Timeout, Abort, Leave
<1>5. CASE UserSends
    <2>1. mail' = Append(mail, sent + 1) /\ sent' = sent + 1 /\ sent < MaxMessages /\ read' = read
        BY <1>5 DEF UserSends
    <2>2. /\ mail' \in Seq(0..MaxMessages) /\ Len(mail') = Len(mail) + 1
          /\ \A k \in 1..Len(mail') : mail'[k] = IF k = Len(mail) + 1 THEN sent + 1 ELSE mail[k]
        BY <1>0, <2>1, AppendFacts
    <2>3. MailTypeOK'
        BY <1>0, <2>1, <2>2 DEF MailTypeOK
    <2>4. /\ \A i \in 1..Len(mail') : mail'[i] <= sent'
          /\ \A i, k \in 1..Len(mail') : i < k /\ mail'[i] # Stop /\ mail'[k] # Stop => mail'[i] < mail'[k]
        BY <1>0, <2>1, <2>2 DEF OrderInv
    <2>5. ASSUME NEW i \in 1..Len(read)
          PROVE  read[i] <= sent' /\ \A k \in 1..Len(mail') : mail'[k] # Stop => read[i] < mail'[k]
        <3>1. read[i] \in Nat /\ read[i] <= sent
            BY <1>0, ElementFacts DEF OrderInv
        <3>2. ASSUME NEW k \in 1..Len(mail'), mail'[k] # Stop PROVE read[i] < mail'[k]
            <4>0. k \in 1..(Len(mail) + 1) /\ mail'[k] = IF k = Len(mail) + 1 THEN sent + 1 ELSE mail[k]
                BY <2>2
            <4>1. CASE k = Len(mail) + 1
                BY <1>0, <3>1, <4>0, <4>1
            <4>2. CASE k \in 1..Len(mail)
                <5>1. mail'[k] = mail[k]
                    BY <1>0, <4>0, <4>2
                <5>2. mail[k] # Stop
                    BY <3>2, <5>1
                <5>3. read[i] < mail[k]
                    BY <4>2, <5>2 DEF OrderInv
                <5> QED BY <5>1, <5>3
            <4>3. k = Len(mail) + 1 \/ k \in 1..Len(mail)
                BY <1>0, <4>0
            <4> QED BY <4>1, <4>2, <4>3
        <3> QED BY <1>0, <2>1, <3>1, <3>2
    <2>6. ReadInOrder'
        BY <2>1 DEF OrderInv, ReadInOrder
    <2> QED BY <2>1, <2>3, <2>4, <2>5, <2>6 DEF OrderInv
<1>6. CASE SendStop
    <2>1. mail' = Append(mail, Stop) /\ UNCHANGED <<read, sent>>
        BY <1>6 DEF SendStop
    <2>2. /\ mail' \in Seq(0..MaxMessages) /\ Len(mail') = Len(mail) + 1
          /\ \A k \in 1..Len(mail') : mail'[k] = IF k = Len(mail) + 1 THEN Stop ELSE mail[k]
        BY <1>0, <2>1, AppendFacts DEF Stop
    <2>3. /\ \A i \in 1..Len(mail') : mail'[i] <= sent'
          /\ \A i, k \in 1..Len(mail') : i < k /\ mail'[i] # Stop /\ mail'[k] # Stop => mail'[i] < mail'[k]
          /\ \A i \in 1..Len(read'), k \in 1..Len(mail') : mail'[k] # Stop => read'[i] < mail'[k]
        BY <1>0, <2>1, <2>2 DEF OrderInv, Stop
    <2> QED BY <1>0, <2>1, <2>2, <2>3 DEF MailTypeOK, OrderInv, ReadInOrder
<1>7. CASE ~MailChange
    BY <1>7, MailFrame DEF MailTypeOK, OrderInv, ReadInOrder
<1> QED BY <1>2, <1>3, <1>4, <1>5, <1>6, <1>7 DEF MailChange

(***************************************************************************)
(* The recovery.  Two malformed answers have asked for text only, and ask  *)
(* for it until the model has answered: the mode is pending before the     *)
(* next iteration and active from then on, with the tools taken away.      *)
(* Nothing of a tool batch outlives it.  And while the plan runs nothing   *)
(* has been counted yet.                                                   *)
(***************************************************************************)
RecInv ==
    /\ rec.empties \in 0..2
    /\ at = "plan" \/ at = "tools" => rec = NoRecovery
    /\ at = "signals" /\ rec.empties = 2 => rec.pending \/ rec.active
    /\ at \in {"llm", "respond"} /\ rec.empties = 2 => rec.active
    /\ at \in {"llm", "respond"} => offered = ~rec.active

\* Steps that end the worker, or leave it where it is, leave its stage alone otherwise.
LEMMA QuietSteps ==
    ASSUME [Next]_vars, ~(PlanStep \/ LoopStep)
    PROVE  /\ UNCHANGED <<iter, rec, offered, forceText, nudges, truncs, limits, dup, batches>>
           /\ at' = at \/ at' = "gone"
BY DEF Next, vars, WorkerStep, Return, Timeout, UserSends, SendStop, Abort, Outside, Leave

\* The plan's steps keep to the plan or enter the loop, with nothing counted yet.
LEMMA PlanSteps ==
    ASSUME PlanStep
    PROVE  /\ at = "plan" /\ at' \in {"plan", "signals", "ok", "error"}
           /\ UNCHANGED <<rec, offered, forceText, nudges, truncs, limits, dup, batches>>
           /\ \/ iter' = 0
              \/ at' = "plan" /\ iter < PlanLength /\ iter' = iter + 1
              \/ at' = "error" /\ iter' = iter
BY DEF PlanStep, PlanMessage, PlanAction, PlanDone, EnterLoop

LEMMA StepRec ==
    ASSUME BatchTypeOK, RecInv, offered \in BOOLEAN, [Next]_vars
    PROVE  RecInv'
<1>0. rec \in RecType /\ rec.empties \in 0..2
    BY DEF BatchTypeOK, RecInv
<1>n. NoRecovery = [empties |-> 0, pending |-> FALSE, active |-> FALSE]
    BY DEF NoRecovery
<1>1. CASE PlanStep
    BY <1>1, <1>n, PlanSteps DEF RecInv
<1>2. CASE Signals
    <2>1. (rec' = rec /\ at' = "ok") \/ (rec' = BeginIteration(rec) /\ offered' = ~BeginIteration(rec).active /\ at' = "llm")
        BY <1>2 DEF Signals, Iterate
    <2>2. at = "signals"
        BY <1>2 DEF Signals
    <2> QED BY <1>0, <2>1, <2>2 DEF RecInv, BeginIteration, RecType
<1>3. CASE SelectTools \/ RespondTools
    <2>1. at' = "tools" /\ rec' = NoRecovery
        BY <1>3 DEF SelectTools, RespondTools, StartTools
    <2> QED BY <1>n, <2>1 DEF RecInv
<1>4. CASE RespondMalformed
    <2>1. rec.empties # 2
        BY <1>0, <1>4 DEF RespondMalformed, RecInv, ToolsAllowed
    <2>2. at' = "signals" /\ rec' = [empties |-> rec.empties + 1, pending |-> rec.pending \/ rec.empties = 1, active |-> FALSE]
        BY <1>0, <1>4, <2>1 DEF RespondMalformed, NextIteration
    <2>3. rec'.empties = rec.empties + 1 /\ (rec'.empties = 2 => rec'.pending)
        <3>1. rec'.empties = rec.empties + 1
            BY <2>2
        <3>2. rec'.pending = (rec.pending \/ rec.empties = 1)
            BY <2>2
        <3>3. rec.empties = 1 => rec'.pending
            BY <3>2, Zenon
        <3> QED BY <1>0, <3>1, <3>3
    <2> QED BY <1>0, <2>1, <2>2, <2>3 DEF RecInv
<1>5. CASE RecoveryFails
    <2>1. rec' = [rec EXCEPT !.active = FALSE] /\ at' \in {"ok", "error"}
        BY <1>5 DEF RecoveryFails, GiveUp
    <2> QED BY <1>0, <2>1 DEF RecInv, RecType
<1>6. CASE LoopExhausted \/ ModelFails \/ BudgetError \/ RespondAnswer
    <2>1. rec' = rec /\ at' \in {"ok", "error"}
        BY <1>6 DEF LoopExhausted, ModelFails, BudgetError, RespondAnswer
    <2> QED BY <2>1 DEF RecInv
<1>7. CASE RateLimited \/ SelectNothing
    <2>1. /\ rec' = rec /\ offered' = offered
          /\ at \in {"llm", "respond"} /\ at' \in {"signals", "respond", "error"}
        BY <1>7 DEF RateLimited, SelectNothing, NextIteration
    <2> QED BY <2>1 DEF RecInv
<1>8. CASE RespondTruncated \/ RespondIntent
    <2>1. rec' = rec /\ at = "respond" /\ at' = "signals" /\ offered
        BY <1>8 DEF RespondTruncated, RespondIntent, NextIteration, ToolsAllowed
    <2> QED BY <2>1 DEF RecInv
<1>9. CASE RunTools
    <2>1. rec' = rec /\ at = "tools" /\ at' = "signals"
        BY <1>9 DEF RunTools, NextIteration
    <2> QED BY <1>n, <2>1 DEF RecInv
<1>10. CASE ~(PlanStep \/ LoopStep)
    BY <1>10, QuietSteps DEF RecInv
<1> QED BY <1>1, <1>2, <1>3, <1>4, <1>5, <1>6, <1>7, <1>8, <1>9, <1>10 DEF LoopStep, ModelStep

(***************************************************************************)
(* Iterations.  The plan counts its own, the loop starts again at zero; a  *)
(* streak of repeats is never longer than the iterations that made it.     *)
(***************************************************************************)
LoopAt == {"signals", "llm", "respond", "tools"}
CountInv ==
    /\ at = "plan" => iter <= PlanLength /\ dup.count = 0
    /\ at \in LoopAt => iter <= MaxIterations
    /\ at = "signals" => dup.count <= iter
    /\ at \in {"llm", "respond", "tools"} => dup.count < iter

\* What record_with_fingerprint makes of the tracker.
LEMMA RecordedFacts ==
    ASSUME dup \in DupType, NEW calls \in SUBSET Batches, NEW failed \in BOOLEAN
    PROVE  /\ Recorded(calls, failed).last = calls
           /\ failed /\ dup.last = calls => Recorded(calls, failed).count = dup.count + 1
           /\ ~(failed /\ dup.last = calls) => Recorded(calls, failed).count = IF failed THEN 1 ELSE 0
           /\ dup.count < MaxIterations => Recorded(calls, failed) \in DupType
BY Limits DEF Recorded, DupType

\* How a step of the loop moves the worker, and what it does to the tracker.
LEMMA LoopMoves ==
    ASSUME BatchTypeOK, LoopStep
    PROVE  \/ /\ at = "signals" /\ at' = "llm" /\ iter < MaxIterations /\ iter' = iter + 1
              /\ UNCHANGED <<dup, batches>>
           \/ /\ at' \in {"ok", "error"} /\ iter' = iter /\ UNCHANGED <<dup, batches>>
           \/ /\ at \in {"llm", "respond"} /\ at' \in {"respond", "signals"} /\ iter' = iter
              /\ UNCHANGED <<dup, batches>> \/ (dup' = NoRepeats /\ batches' = << >>)
           \/ /\ at \in {"llm", "respond"} /\ at' = "tools" /\ iter' = iter
              /\ \E b \in Batches : StartTools({b})
           \/ RunTools
<1>1. CASE Signals \/ LoopExhausted
    BY <1>1 DEF Signals, Iterate, LoopExhausted
<1>2. CASE SelectTools \/ RespondTools
    BY <1>2 DEF SelectTools, RespondTools, StartTools
<1>3. CASE ModelFails \/ BudgetError \/ RespondAnswer \/ RecoveryFails
    BY <1>3 DEF ModelFails, BudgetError, RespondAnswer, RecoveryFails, GiveUp
<1>4. CASE RateLimited \/ SelectNothing \/ RespondTruncated \/ RespondIntent \/ RespondMalformed
    BY <1>4 DEF RateLimited, SelectNothing, RespondTruncated, RespondIntent, RespondMalformed, GiveUp, NextIteration
<1> QED BY <1>1, <1>2, <1>3, <1>4 DEF LoopStep, ModelStep

\* A tool batch that ran: what becomes of the tracker and of the batch.
LEMMA RunToolsFacts ==
    ASSUME BatchTypeOK, RunTools
    PROVE  /\ at = "tools" /\ at' = "signals" /\ iter' = iter
           /\ Len(batches) >= 1 /\ Len(batches) \in Nat
           /\ batches[Len(batches)] \in BatchType
           /\ \E failed \in BOOLEAN :
                /\ batches' = [batches EXCEPT ![Len(batches)].failed = failed]
                /\ dup' = Recorded(batches[Len(batches)].calls, failed)
<1>1. at = "tools" /\ at' = "signals" /\ iter' = iter
    BY DEF RunTools, NextIteration
<1>2. batches \in Seq(BatchType) /\ batches # << >>
    BY <1>1 DEF BatchTypeOK
<1>3. Len(batches) >= 1 /\ Len(batches) \in Nat
    BY <1>2, ElementFacts
<1>4. \A i \in 1..Len(batches) : batches[i] \in BatchType
    BY <1>2, ElementFacts
<1>5. Len(batches) \in 1..Len(batches)
    BY <1>3
<1>6. \E failed \in BOOLEAN :
         /\ batches' = [batches EXCEPT ![Len(batches)].failed = failed]
         /\ dup' = Recorded(batches[Len(batches)].calls, failed)
    BY DEF RunTools
<1> QED BY <1>1, <1>3, <1>4, <1>5, <1>6

LEMMA StepCount ==
    ASSUME BatchTypeOK, CountInv, iter \in Nat, [Next]_vars
    PROVE  CountInv'
<1>0. dup.count \in Nat /\ MaxIterations \in Nat /\ PlanLength \in Nat
    BY Limits DEF BatchTypeOK, DupType
<1>1. CASE PlanStep
    <2>1. /\ at = "plan" /\ at' \in {"plan", "signals", "ok", "error"} /\ dup' = dup
          /\ iter' = 0 \/ (at' = "plan" /\ iter < PlanLength /\ iter' = iter + 1) \/ (at' = "error" /\ iter' = iter)
        BY <1>1, PlanSteps
    <2> QED BY <1>0, <2>1 DEF CountInv, LoopAt
<1>2. CASE RunTools
    <2>1. /\ at = "tools" /\ at' = "signals" /\ iter' = iter
          /\ \E failed \in BOOLEAN : dup' = Recorded(batches[Len(batches)].calls, failed)
          /\ batches[Len(batches)].calls \in SUBSET Batches
        BY <1>2, RunToolsFacts DEF BatchType
    <2>2. dup'.count \in {0, 1, dup.count + 1}
        BY <2>1, RecordedFacts DEF BatchTypeOK
    <2> QED BY <1>0, <2>1, <2>2 DEF CountInv, LoopAt
<1>3. CASE LoopStep /\ ~RunTools
    <2>1. NoRepeats.count = 0
        BY DEF NoRepeats
    <2>2. \A b \in Batches : StartTools({b}) => dup' = dup
        BY DEF StartTools
    <2>3. \/ at = "signals" /\ at' = "llm" /\ iter < MaxIterations /\ iter' = iter + 1 /\ dup' = dup
          \/ at' \in {"ok", "error"}
          \/ at \in {"llm", "respond"} /\ at' \in {"respond", "signals", "tools"} /\ iter' = iter /\ dup' \in {dup, NoRepeats}
        BY <1>3, <2>2, LoopMoves
    <2> QED BY <1>0, <2>1, <2>3 DEF CountInv, LoopAt
<1>4. CASE ~(PlanStep \/ LoopStep)
    BY <1>4, QuietSteps DEF CountInv, LoopAt
<1> QED BY <1>1, <1>2, <1>3, <1>4

(***************************************************************************)
(* The tracker.  Of the first n batches of B, those that have run, a       *)
(* tracker d knows the last one's calls and the length of the streak that  *)
(* ends with it.                                                           *)
(***************************************************************************)
Repeated(B, d, i) == B[i].failed /\ B[i].calls = d.last
Tracked(B, d, n) ==
    /\ d.count <= n
    /\ d.last = IF n = 0 THEN {} ELSE B[n].calls
    /\ \A i \in (n - d.count + 1)..n : Repeated(B, d, i)
    /\ d.count < n => ~Repeated(B, d, n - d.count)

TrackInv ==
    /\ \A i \in 1..Len(batches) : batches[i].calls # {}
    /\ at \in {"plan", "signals", "llm", "respond"} => Tracked(batches, dup, Len(batches))
    /\ at = "tools" => Tracked(batches, dup, Len(batches) - 1)

\* What is known of the first n batches does not depend on the others.
LEMMA TrackedLocal ==
    ASSUME NEW B, NEW C, NEW d, d.count \in Nat, NEW n \in Nat, Tracked(B, d, n), \A i \in 1..n : C[i] = B[i]
    PROVE  Tracked(C, d, n)
<1>1. d.count <= n
    BY DEF Tracked
<1>2. d.last = IF n = 0 THEN {} ELSE C[n].calls
    BY DEF Tracked
<1>3. ASSUME NEW i \in (n - d.count + 1)..n PROVE Repeated(C, d, i)
    <2>1. i \in 1..n
        BY <1>1
    <2> QED BY <1>3, <2>1 DEF Tracked, Repeated
<1>4. ASSUME d.count < n PROVE ~Repeated(C, d, n - d.count)
    <2>1. n - d.count \in 1..n
        BY <1>4
    <2> QED BY <1>4, <2>1 DEF Tracked, Repeated
<1> QED BY <1>1, <1>2, <1>3, <1>4 DEF Tracked

\* A batch that fails like the one before it makes the streak longer by one.
LEMMA StreakGrows ==
    ASSUME NEW B, NEW d, NEW e, d.count \in Nat, NEW n \in Nat, Tracked(B, d, n),
           B[n + 1].failed, B[n + 1].calls = d.last, e.last = d.last, e.count = d.count + 1
    PROVE  Tracked(B, e, n + 1)
<1>1. d.count <= n
    BY DEF Tracked
<1>2. \A i : Repeated(B, e, i) <=> Repeated(B, d, i)
    BY DEF Repeated
<1>3. ASSUME NEW i \in (n + 1 - e.count + 1)..(n + 1) PROVE Repeated(B, e, i)
    <2>1. CASE i = n + 1
        BY <2>1 DEF Repeated
    <2>2. CASE i # n + 1
        <3>1. i \in (n - d.count + 1)..n
            BY <1>1, <2>2
        <3> QED BY <1>2, <3>1 DEF Tracked
    <2> QED BY <2>1, <2>2
<1>4. ASSUME e.count < n + 1 PROVE ~Repeated(B, e, n + 1 - e.count)
    <2>1. d.count < n /\ n + 1 - e.count = n - d.count
        BY <1>4
    <2> QED BY <1>2, <2>1 DEF Tracked
<1> QED BY <1>1, <1>3, <1>4 DEF Tracked

\* A batch that worked, or that differs from the one before it, starts again.
LEMMA StreakStarts ==
    ASSUME NEW B, NEW d, NEW e, NEW n \in Nat, Tracked(B, d, n),
           B[n + 1].calls # {}, e.last = B[n + 1].calls,
           ~(B[n + 1].failed /\ B[n + 1].calls = d.last),
           e.count = IF B[n + 1].failed THEN 1 ELSE 0
    PROVE  Tracked(B, e, n + 1)
<1>1. CASE ~B[n + 1].failed
    <2>1. e.count = 0 /\ ~Repeated(B, e, n + 1)
        BY <1>1 DEF Repeated
    <2>2. \A i \in (n + 1 - 0 + 1)..(n + 1) : FALSE
        OBVIOUS
    <2>3. n + 1 - 0 = n + 1
        OBVIOUS
    <2> QED BY <2>1, <2>2, <2>3 DEF Tracked
<1>2. CASE B[n + 1].failed
    <2>1. e.count = 1 /\ Repeated(B, e, n + 1) /\ e.last # d.last
        BY <1>2 DEF Repeated
    <2>2. \A i \in (n + 1 - 1 + 1)..(n + 1) : i = n + 1
        OBVIOUS
    <2>3. n + 1 - 1 = n
        OBVIOUS
    <2>4. 1 < n + 1 => ~Repeated(B, e, n)
        BY <2>1 DEF Tracked, Repeated
    <2> QED BY <2>1, <2>2, <2>3, <2>4 DEF Tracked
<1> QED BY <1>1, <1>2

\* Recording the outcome of the batch at the end.
LEMMA Recording ==
    ASSUME BatchTypeOK, TrackInv, RunTools
    PROVE  /\ Tracked(batches', dup', Len(batches')) /\ Len(batches') = Len(batches)
           /\ \A i \in 1..Len(batches) : batches'[i].calls = batches[i].calls
<1> DEFINE n == Len(batches)
<1>1. at = "tools" /\ n >= 1 /\ n \in Nat /\ batches[n] \in BatchType
    BY RunToolsFacts
<1>2. PICK failed \in BOOLEAN : /\ batches' = [batches EXCEPT ![n].failed = failed]
                                /\ dup' = Recorded(batches[n].calls, failed)
    BY RunToolsFacts
<1>3. batches \in Seq(BatchType) /\ DOMAIN batches = 1..n /\ dup \in DupType /\ dup.count \in Nat
    BY LenProperties DEF BatchTypeOK, DupType
<1>4. /\ Len(batches') = n
      /\ batches'[n].failed = failed /\ batches'[n].calls = batches[n].calls
      /\ \A i \in 1..(n - 1) : batches'[i] = batches[i]
    BY <1>1, <1>2, <1>3 DEF BatchType
<1>5. Tracked(batches', dup, n - 1) /\ n - 1 \in Nat
    <2>1. Tracked(batches, dup, n - 1) /\ n - 1 \in Nat
        BY <1>1 DEF TrackInv
    <2> HIDE DEF n
    <2>2. Tracked(batches', dup, n - 1)
        BY <1>3, <1>4, <2>1, TrackedLocal
    <2> QED BY <2>1, <2>2
<1>6. batches[n].calls # {} /\ batches[n].calls \in SUBSET Batches
    BY <1>1 DEF TrackInv, BatchType
<1>7. /\ dup'.last = batches[n].calls
      /\ (failed /\ dup.last = batches[n].calls) => dup'.count = dup.count + 1
      /\ ~(failed /\ dup.last = batches[n].calls) => dup'.count = IF failed THEN 1 ELSE 0
    BY <1>2, <1>3, <1>6, RecordedFacts
<1>8. n = (n - 1) + 1
    BY <1>1
<1>9. Tracked(batches', dup', (n - 1) + 1)
    <2> HIDE DEF n
    <2>1. batches'[n - 1 + 1].failed = failed /\ batches'[n - 1 + 1].calls = batches[n].calls
        BY <1>4, <1>8
    <2>2. CASE failed /\ dup.last = batches[n].calls
        BY <1>3, <1>5, <1>7, <2>1, <2>2, StreakGrows
    <2>3. CASE ~(failed /\ dup.last = batches[n].calls)
        BY <1>5, <1>6, <1>7, <2>1, <2>3, StreakStarts
    <2> QED BY <2>2, <2>3
<1>10. \A i \in 1..n : batches'[i].calls = batches[i].calls
    BY <1>1, <1>4
<1> QED BY <1>4, <1>8, <1>9, <1>10

\* Choosing a batch leaves the finished ones as they are.
LEMMA Choosing ==
    ASSUME BatchTypeOK, TrackInv, at \in {"llm", "respond"}, NEW b \in Batches, StartTools({b})
    PROVE  /\ Tracked(batches', dup', Len(batches') - 1)
           /\ \A i \in 1..Len(batches') : batches'[i].calls # {}
<1> DEFINE n == Len(batches)
           x == [calls |-> {b}, failed |-> FALSE]
<1>1. batches \in Seq(BatchType) /\ x \in BatchType
    BY DEF BatchTypeOK, BatchType
<1>2. batches' = Append(batches, x) /\ dup' = dup
    BY DEF StartTools
<1>3. n \in Nat /\ Len(batches') = n + 1 /\ x.calls # {}
    BY <1>1, <1>2, AppendFacts, ElementFacts
<1>4. \A i \in 1..(n + 1) : batches'[i] = IF i = n + 1 THEN x ELSE batches[i]
    BY <1>1, <1>2, AppendFacts
<1> HIDE DEF n, x
<1>5. \A i \in 1..n : batches'[i] = batches[i]
    BY <1>3, <1>4
<1>6. Tracked(batches, dup, n) /\ dup.count \in Nat
    BY DEF TrackInv, BatchTypeOK, DupType, n
<1>7. Tracked(batches', dup', n) /\ Len(batches') - 1 = n
    <2>1. Tracked(batches', dup, n)
        BY <1>3, <1>5, <1>6, TrackedLocal
    <2> QED BY <1>2, <1>3, <2>1
<1>8. ASSUME NEW i \in 1..(n + 1) PROVE batches'[i].calls # {}
    <2>1. CASE i = n + 1
        BY <1>3, <1>4, <2>1
    <2>2. CASE i \in 1..n
        BY <1>5, <2>2 DEF TrackInv, n
    <2> QED BY <1>3, <2>1, <2>2
<1> QED BY <1>3, <1>7, <1>8

LEMMA StepTrack ==
    ASSUME BatchTypeOK, TrackInv, [Next]_vars
    PROVE  TrackInv'
<1>1. CASE UNCHANGED <<dup, batches>> /\ (at' = at \/ at' \in {"ok", "error", "gone"})
    BY <1>1 DEF TrackInv
<1>2. ASSUME UNCHANGED <<dup, batches>>, at \in {"plan", "signals", "llm", "respond"},
             at' \in {"plan", "signals", "llm", "respond", "ok", "error"}
      PROVE  TrackInv'
    BY <1>2 DEF TrackInv
<1>3. CASE RunTools
    BY <1>3, Recording, RunToolsFacts DEF TrackInv
<1>4. ASSUME at \in {"llm", "respond"}, at' = "tools", NEW b \in Batches, StartTools({b}) PROVE TrackInv'
    BY <1>4, Choosing DEF TrackInv
<1>5. ASSUME at' \in {"signals", "respond"}, dup' = NoRepeats, batches' = << >> PROVE TrackInv'
    BY <1>5 DEF TrackInv, Tracked, NoRepeats
<1>6. CASE LoopStep
    BY <1>1, <1>2, <1>3, <1>4, <1>5, <1>6, LoopMoves
<1>7. CASE PlanStep
    BY <1>2, <1>7, PlanSteps
<1>8. CASE ~(PlanStep \/ LoopStep)
    BY <1>1, <1>8, QuietSteps
<1> QED BY <1>6, <1>7, <1>8

(***************************************************************************)
(* Types.                                                                  *)
(***************************************************************************)
LEMMA StepStageType ==
    ASSUME StageTypeOK, BatchTypeOK, CountInv, [Next]_vars
    PROVE  StageTypeOK'
<1>0. /\ ctx \in JobState /\ stopping \in BOOLEAN /\ at \in Running \cup {"ok", "error", "gone"}
      /\ iter \in 0..(MaxIterations + PlanLength) /\ offered \in BOOLEAN /\ forceText \in BOOLEAN
      /\ MaxIterations \in Nat /\ PlanLength \in Nat
    BY Limits DEF StageTypeOK
<1>1. ctx' \in JobState
    <2>1. ctx' = ctx \/ \E s \in JobState : \E t : ctx' = TransitionTo(s, t)
        <3>1. JobState # {} /\ "Failed" \in JobState
            BY DEF JobState
        <3> QED BY <1>0, <3>1, TransitionType DEF Next, vars, WorkerStep, PlanStep, LoopStep, ModelStep, PlanMessage, PlanAction, PlanDone,
            Signals, LoopExhausted, SelectTools, SelectNothing, ModelFails, RateLimited, RespondTools, RespondTruncated,
            RespondIntent, RespondAnswer, RespondMalformed, RecoveryFails, BudgetError, GiveUp, Budget, RunTools,
            Return, Timeout, UserSends, SendStop, Abort, Outside, Mark
    <2> QED BY <1>0, <2>1, TransitionType
<1>2. stopping' \in BOOLEAN
    BY <1>0 DEF Next, vars, WorkerStep, PlanStep, LoopStep, ModelStep, PlanMessage, PlanAction, PlanDone,
        Signals, LoopExhausted, SelectTools, SelectNothing, ModelFails, RateLimited, RespondTools, RespondTruncated,
        RespondIntent, RespondAnswer, RespondMalformed, RecoveryFails, BudgetError, RunTools,
        Return, Timeout, UserSends, SendStop, Abort, Outside
<1>3. at' \in Running \cup {"ok", "error", "gone"} /\ iter' \in 0..(MaxIterations + PlanLength)
    <2>1. CASE PlanStep
        BY <1>0, <2>1, PlanSteps DEF Running
    <2>2. CASE RunTools
        BY <1>0, <2>2, RunToolsFacts DEF Running
    <2>3. CASE LoopStep /\ ~RunTools
        <3>1. /\ at' \in {"llm", "respond", "signals", "tools", "ok", "error"}
              /\ iter' = iter \/ (iter < MaxIterations /\ iter' = iter + 1)
            BY <2>3, LoopMoves
        <3> QED BY <1>0, <3>1 DEF Running
    <2>4. CASE ~(PlanStep \/ LoopStep)
        BY <1>0, <2>4, QuietSteps
    <2> QED BY <2>1, <2>2, <2>3, <2>4
<1>4. offered' \in BOOLEAN
    <2>1. CASE Signals
        <3>1. offered' = offered \/ offered' = ~BeginIteration(rec).active
            BY <2>1 DEF Signals, Iterate
        <3> QED BY <1>0, <3>1
    <2>2. CASE ~Signals
        BY <1>0, <2>2 DEF Next, vars, WorkerStep, PlanStep, LoopStep, ModelStep, PlanMessage, PlanAction, PlanDone,
            LoopExhausted, SelectTools, SelectNothing, ModelFails, RateLimited, RespondTools, RespondTruncated,
            RespondIntent, RespondAnswer, RespondMalformed, RecoveryFails, BudgetError, RunTools,
            Return, Timeout, UserSends, SendStop, Abort, Outside
    <2> QED BY <2>1, <2>2
<1>5. forceText' \in BOOLEAN
    <2>1. CASE RespondTruncated
        BY <2>1 DEF RespondTruncated
    <2>2. CASE RunTools
        BY <2>2 DEF RunTools
    <2>3. CASE ~RespondTruncated /\ ~RunTools
        BY <1>0, <2>3, CountFrame DEF ModelChange, ModelStep, SelectTools, SelectNothing, ModelFails, RateLimited,
            RespondTools, RespondIntent, RespondAnswer, RespondMalformed, RecoveryFails, BudgetError
    <2> QED BY <2>1, <2>2, <2>3
<1> QED BY <1>1, <1>2, <1>3, <1>4, <1>5 DEF StageTypeOK

LEMMA StepCountType ==
    ASSUME CountTypeOK, [Next]_vars
    PROVE  CountTypeOK'
<1>0. /\ nudges \in 0..MaxNudges /\ truncs \in Nat /\ limits \in 0..MaxRateLimits
      /\ limits = MaxRateLimits => at \in {"error", "gone"}
      /\ MaxNudges \in Nat /\ MaxRateLimits \in Nat \ {0}
    BY Limits DEF CountTypeOK
<1> USE DEF CountTypeOK
<1>1. CASE PlanStep
    BY <1>0, <1>1, PlanSteps
<1>2. CASE Signals \/ LoopExhausted
    <2>1. at = "signals" /\ UNCHANGED <<nudges, truncs, limits>>
        BY <1>2 DEF Signals, LoopExhausted
    <2> QED BY <1>0, <2>1
<1>3. CASE SelectTools \/ RespondTools
    <2>1. nudges' = 0 /\ truncs' = 0 /\ limits' = 0
        BY <1>3 DEF SelectTools, RespondTools, StartTools
    <2> QED BY <1>0, <2>1
<1>4. CASE RateLimited
    <2>1. /\ at \in {"llm", "respond"} /\ limits' = limits + 1 /\ truncs' = truncs
          /\ nudges' \in {0, nudges}
          /\ limits + 1 >= MaxRateLimits => at' = "error"
        BY <1>4 DEF RateLimited, LimitReached
    <2> QED BY <1>0, <2>1
<1>5. CASE SelectNothing \/ ModelFails \/ RespondAnswer \/ RecoveryFails
    <2>1. UNCHANGED <<nudges, truncs, limits>> /\ at \in {"llm", "respond"}
        BY <1>5 DEF SelectNothing, ModelFails, RespondAnswer, RecoveryFails, GiveUp
    <2> QED BY <1>0, <2>1
<1>6. CASE RespondTruncated \/ RespondIntent \/ RespondMalformed \/ BudgetError
    <2>1. /\ limits' = 0
          /\ truncs' \in {truncs, truncs + 1}
          /\ \/ nudges' \in {0, nudges}
             \/ nudges < MaxNudges /\ nudges' = nudges + 1
        BY <1>6 DEF RespondTruncated, RespondIntent, RespondMalformed, BudgetError, GiveUp
    <2> QED BY <1>0, <2>1
<1>7. CASE RunTools
    <2>1. UNCHANGED <<nudges, truncs, limits>> /\ at = "tools"
        BY <1>7 DEF RunTools
    <2> QED BY <1>0, <2>1
<1>8. CASE ~(PlanStep \/ LoopStep)
    BY <1>0, <1>8, QuietSteps
<1> QED BY <1>1, <1>2, <1>3, <1>4, <1>5, <1>6, <1>7, <1>8 DEF LoopStep, ModelStep

LEMMA StepBatchType ==
    ASSUME BatchTypeOK, CountInv, RecInv, iter \in Nat, [Next]_vars
    PROVE  BatchTypeOK'
<1>0. dup \in DupType /\ rec \in RecType /\ batches \in Seq(BatchType) /\ dup.count \in Nat
    BY DEF BatchTypeOK, DupType
<1>1. NoRepeats \in DupType /\ NoRecovery \in RecType /\ << >> \in Seq(BatchType)
    BY Limits, EmptySeq DEF NoRepeats, NoRecovery, DupType, RecType
<1>2. rec' \in RecType
    <2>1. CASE Signals
        BY <1>0, <2>1 DEF Signals, Iterate, BeginIteration, RecType
    <2>2. CASE SelectTools \/ RespondTools
        BY <1>1, <2>2 DEF SelectTools, RespondTools, StartTools
    <2>3. CASE RespondMalformed
        <3>1. rec.empties + 1 \in 0..3
            BY DEF RecInv
        <3> QED BY <1>0, <2>3, <3>1 DEF RespondMalformed, RecType
    <2>4. CASE RecoveryFails
        BY <1>0, <2>4 DEF RecoveryFails, RecType
    <2>5. CASE ~(Signals \/ SelectTools \/ RespondTools \/ RespondMalformed \/ RecoveryFails)
        BY <1>0, <2>5 DEF Next, vars, WorkerStep, PlanStep, LoopStep, ModelStep, PlanMessage, PlanAction, PlanDone,
            LoopExhausted, SelectNothing, ModelFails, RateLimited, RespondTruncated,
            RespondIntent, RespondAnswer, BudgetError, RunTools, Return, Timeout, UserSends, SendStop, Abort, Outside
    <2> QED BY <2>1, <2>2, <2>3, <2>4, <2>5
<1>3. CASE RunTools
    <2> DEFINE n == Len(batches)
    <2>1. /\ at = "tools" /\ at' = "signals" /\ n >= 1 /\ n \in Nat
          /\ batches[n].calls \in SUBSET Batches
        BY <1>3, RunToolsFacts DEF BatchType
    <2>2. PICK failed \in BOOLEAN : /\ batches' = [batches EXCEPT ![n].failed = failed]
                                    /\ dup' = Recorded(batches[n].calls, failed)
        BY <1>3, RunToolsFacts
    <2>3. dup.count < MaxIterations
        BY <1>0, <2>1, Limits DEF CountInv, LoopAt
    <2>4. dup' \in DupType
        BY <1>0, <2>1, <2>2, <2>3, RecordedFacts
    <2>5. batches' \in Seq(BatchType)
        <3>1. [batches[n] EXCEPT !.failed = failed] \in BatchType
            <4>1. batches[n] \in BatchType
                BY <1>3, RunToolsFacts
            <4> QED BY <4>1 DEF BatchType
        <3>2. batches' = [batches EXCEPT ![n] = [batches[n] EXCEPT !.failed = failed]]
            BY <2>2
        <3>3. n \in 1..Len(batches)
            BY <2>1
        <3> HIDE DEF n
        <3> DEFINE x == [batches[n] EXCEPT !.failed = failed]
        <3>4. x \in BatchType /\ batches' = [batches EXCEPT ![n] = x]
            BY <3>1, <3>2
        <3> HIDE DEF x
        <3> QED BY <1>0, <3>3, <3>4, ExceptSeq
    <2> QED BY <1>2, <2>1, <2>4, <2>5 DEF BatchTypeOK
<1>4. ASSUME NEW b \in Batches, StartTools({b}) PROVE BatchTypeOK'
    <2> DEFINE x == [calls |-> {b}, failed |-> FALSE]
    <2>1. x \in BatchType /\ batches' = Append(batches, x) /\ dup' = dup
        BY <1>4 DEF BatchType, StartTools
    <2>2. x.failed = FALSE
        OBVIOUS
    <2> HIDE DEF x
    <2>3. /\ batches' \in Seq(BatchType) /\ Len(batches') = Len(batches) + 1 /\ Len(batches) \in Nat
          /\ batches'[Len(batches) + 1] = x
        BY <1>0, <2>1, AppendFacts, ElementFacts
    <2>4. batches' # << >>
        BY <2>3, ElementFacts
    <2> QED BY <1>0, <1>2, <2>1, <2>2, <2>3, <2>4 DEF BatchTypeOK
<1>5. ASSUME at' # "tools" \/ at' = at,
             UNCHANGED <<dup, batches>> \/ (at' # "tools" /\ dup' = NoRepeats /\ batches' = << >>)
      PROVE  BatchTypeOK'
    BY <1>0, <1>1, <1>2, <1>5 DEF BatchTypeOK
<1>6. CASE LoopStep
    BY <1>3, <1>4, <1>5, <1>6, LoopMoves
<1>7. CASE PlanStep
    BY <1>5, <1>7, PlanSteps
<1>8. CASE ~(PlanStep \/ LoopStep)
    BY <1>5, <1>8, QuietSteps
<1> QED BY <1>6, <1>7, <1>8

(***************************************************************************)
(* The inductive invariant.                                                *)
(***************************************************************************)
IInv == TypeOK /\ OrderInv /\ RecInv /\ CountInv /\ TrackInv

LEMMA InitInv == Init => IInv
<1> SUFFICES ASSUME Init PROVE IInv
    OBVIOUS
<1>1. TypeOK
    <2>1. /\ << >> \in Seq(0..MaxMessages)
          /\ << >> \in Seq(1..MaxMessages)
          /\ << >> \in Seq(BatchType)
        BY EmptySeq
    <2>2. MailTypeOK
        BY <2>1, Limits DEF Init, MailTypeOK
    <2>3. StageTypeOK
        <3>1. ctx \in JobState /\ at \in Running
            BY DEF Init, JobState, Running
        <3>2. iter \in 0..(MaxIterations + PlanLength)
            BY Limits DEF Init
        <3>3. stopping \in BOOLEAN /\ offered \in BOOLEAN /\ forceText \in BOOLEAN
            BY Zenon DEF Init
        <3> QED BY <3>1, <3>2, <3>3 DEF StageTypeOK
    <2>4. CountTypeOK
        BY Limits DEF Init, CountTypeOK
    <2>5. BatchTypeOK
        BY <2>1, Limits DEF Init, BatchTypeOK, DupType, RecType, NoRepeats, NoRecovery
    <2> QED BY <2>2, <2>3, <2>4, <2>5, TypeParts
<1>2. OrderInv
    BY DEF Init, OrderInv, ReadInOrder
<1>3. RecInv /\ CountInv
    BY Limits DEF Init, RecInv, CountInv, NoRepeats, NoRecovery
<1>4. TrackInv
    BY DEF Init, TrackInv, Tracked, NoRepeats
<1> QED BY <1>1, <1>2, <1>3, <1>4 DEF IInv

LEMMA StepInv == IInv /\ [Next]_vars => IInv'
<1> SUFFICES ASSUME IInv, [Next]_vars PROVE IInv'
    OBVIOUS
<1>1. MailTypeOK /\ StageTypeOK /\ CountTypeOK /\ BatchTypeOK /\ OrderInv /\ RecInv /\ CountInv /\ TrackInv
    BY TypeParts DEF IInv
<1>2. offered \in BOOLEAN /\ iter \in Nat
    BY <1>1, Limits DEF StageTypeOK
<1>3. MailTypeOK' /\ OrderInv'
    BY <1>1, StepOrder
<1>4. StageTypeOK' /\ CountTypeOK'
    BY <1>1, StepStageType, StepCountType
<1>5. BatchTypeOK' /\ RecInv' /\ CountInv' /\ TrackInv'
    BY <1>1, <1>2, StepBatchType, StepRec, StepCount, StepTrack
<1>6. TypeOK'
    BY <1>3, <1>4, <1>5 DEF TypeOK, MailTypeOK, StageTypeOK, CountTypeOK, BatchTypeOK, DupType, RecType, BatchType
<1> QED BY <1>3, <1>5, <1>6 DEF IInv

\* The invariant holds in every reachable state of a worker's run.
THEOREM Invariance == Spec => []IInv
BY InitInv, StepInv, PTL DEF Spec

\* Every counter of a run stays within its limit: iterations, nudges, rate limits and
\* the repeats the tracker counts, in whatever order the model answers.
THEOREM TypeCorrect == Spec => []TypeOK
<1>1. IInv => TypeOK
    BY DEF IInv
<1> QED BY <1>1, Invariance, PTL

\* After two malformed answers the model is not offered tools until it has answered in
\* text, whatever comes between; a third malformed answer is never counted.
THEOREM RecoveryAsksForText == Spec => []TextOnlyAfterTwo
<1>1. IInv => TextOnlyAfterTwo
    BY DEF IInv, TypeOK, RecInv, TextOnlyAfterTwo
<1> QED BY <1>1, Invariance, PTL

\* Between two iterations the tracker counts exactly the failed repeats at the end of the
\* batches that were run.
THEOREM TrackerIsExact == Spec => []TrackerCountsRepeats
<1>1. ASSUME IInv PROVE TrackerCountsRepeats
    <2> DEFINE n == Len(batches)
    <2> SUFFICES ASSUME at = "signals"
                 PROVE  /\ dup.count <= n /\ Streak(dup.count)
                        /\ dup.count < n => ~Streak(dup.count + 1)
        BY DEF TrackerCountsRepeats
    <2>1. dup.count \in Nat /\ n \in Nat
        BY <1>1, ElementFacts DEF IInv, TypeOK
    <2>2. Tracked(batches, dup, n)
        BY <1>1 DEF IInv, TrackInv
    <2>3. \A k \in 1..n : dup.last = batches[n].calls
        BY <2>1, <2>2 DEF Tracked
    <2>4. ASSUME NEW i \in 0..(dup.count - 1) PROVE batches[n - i].failed /\ batches[n - i].calls = batches[n].calls
        <3>1. n - i \in (n - dup.count + 1)..n /\ n \in 1..n
            BY <2>1, <2>2 DEF Tracked
        <3>2. Repeated(batches, dup, n - i)
            BY <2>2, <3>1 DEF Tracked
        <3> QED BY <2>3, <3>1, <3>2 DEF Repeated
    <2>5. ASSUME dup.count < n, Streak(dup.count + 1) PROVE FALSE
        <3>1. dup.count \in 0..(dup.count + 1 - 1) /\ n \in 1..n
            BY <2>1, <2>5
        <3>2. batches[n - dup.count].failed /\ batches[n - dup.count].calls = batches[n].calls
            BY <2>5, <3>1 DEF Streak
        <3>3. Repeated(batches, dup, n - dup.count)
            BY <2>3, <3>1, <3>2 DEF Repeated
        <3> QED BY <2>2, <2>5, <3>3 DEF Tracked
    <2>6. Streak(dup.count)
        BY <2>4 DEF Streak
    <2> QED BY <2>2, <2>5, <2>6 DEF Tracked
<1> QED BY <1>1, Invariance, PTL

\* Whatever of them it reads, the model reads a job's messages in the order in which they
\* were sent and none twice, although the plan and the loop both take them.
THEOREM MessagesInOrder == Spec => []ReadInOrder
<1>1. IInv => ReadInOrder
    BY DEF IInv, OrderInv
<1> QED BY <1>1, Invariance, PTL

(***************************************************************************)
(* The abstract job.  A step moves the job by one transition of its state  *)
(* machine at most, and completes it only while the worker has not left.   *)
(***************************************************************************)
Begun == ctx \in JobState \ {"Pending"}

LEMMA StepBegun ==
    ASSUME Begun, [Next]_vars
    PROVE  /\ Begun'
           /\ ctx' = ctx \/ ctx' \in Successors(ctx)
           /\ at = "gone" => at' = "gone"
           /\ at = "gone" => ctx' = ctx \/ ctx' = "Cancelled"
<1>1. \A t : TransitionTo(ctx, t) = ctx \/ (TransitionTo(ctx, t) = t /\ t \in Successors(ctx))
    BY DEF TransitionTo, CanTransition
<1>2. ctx' = ctx \/ ctx' \in Successors(ctx)
    <2>1. CASE \E t : ctx' = TransitionTo(ctx, t)
        BY <1>1, <2>1
    <2>2. CASE RespondAnswer
        <3>1. PICK over \in BOOLEAN : ctx' = TransitionTo(IF over THEN "Failed" ELSE ctx, "Completed")
                                      /\ (over => CanTransition(ctx, "Failed"))
            BY <2>2 DEF RespondAnswer
        <3>2. TransitionTo("Failed", "Completed") = "Failed"
            BY DEF TransitionTo, CanTransition, Successors
        <3> QED BY <2>1, <3>1, <3>2 DEF CanTransition
    <2>3. CASE PlanStep
        BY <2>1, <2>3 DEF PlanStep, PlanMessage, PlanAction, PlanDone, Mark
    <2>4. CASE LoopStep /\ ~RespondAnswer
        BY <2>1, <2>4 DEF LoopStep, ModelStep, Signals, LoopExhausted, SelectTools, SelectNothing, ModelFails,
            RateLimited, RespondTools, RespondTruncated, RespondIntent, RespondMalformed, RecoveryFails, BudgetError,
            RunTools, Budget, GiveUp, Mark
    <2>5. CASE ~(PlanStep \/ LoopStep)
        BY <2>1, <2>5 DEF Next, vars, WorkerStep, Return, Timeout, UserSends, SendStop, Abort, Outside, Mark
    <2> QED BY <2>2, <2>3, <2>4, <2>5
<1>3. Begun'
    BY <1>2 DEF Begun, Successors, JobState
<1>4. ASSUME at = "gone" PROVE at' = "gone" /\ (ctx' = ctx \/ ctx' = "Cancelled")
    BY <1>1, <1>4 DEF Next, vars, WorkerStep, PlanStep, PlanMessage, PlanAction, PlanDone, LoopStep, ModelStep,
        Signals, LoopExhausted, SelectTools, SelectNothing, ModelFails, RateLimited, RespondTools, RespondTruncated,
        RespondIntent, RespondAnswer, RespondMalformed, RecoveryFails, BudgetError, RunTools, Return, Timeout,
        UserSends, SendStop, Abort, Outside, Running, Leave, Mark
<1> QED BY <1>2, <1>3, <1>4

Phases == [j \in {Job} |-> Phase(ctx)]
Busy == IF at = "gone" THEN {} ELSE {Job}

LEMMA StepIsOfLifecycle ==
    ASSUME Begun, [Next]_vars
    PROVE  [Lifecycle!Next]_(Lifecycle!vars)
<1>0. /\ ctx \in JobState \ {"Pending"} /\ ctx' \in JobState \ {"Pending"}
      /\ ctx' = ctx \/ ctx' \in Successors(ctx)
    BY StepBegun DEF Begun
<1>1. Busy' \in {Busy, Busy \ {Job}} /\ (Busy' # Busy => Job \in Busy)
    BY StepBegun DEF Busy
<1>2. Phases[Job] = Phase(ctx) /\ Phases' = [Phases EXCEPT ![Job] = Phase(ctx')]
    BY DEF Phases
<1>3. CASE Phase(ctx') = Phase(ctx)
    <2>1. Phases' = Phases
        BY <1>3 DEF Phases
    <2>2. CASE Busy' = Busy
        BY <2>1, <2>2 DEF Lifecycle!vars, Phases, Busy
    <2>3. CASE Busy' # Busy
        BY <1>1, <2>1, <2>3 DEF Lifecycle!Next, Lifecycle!Leave, Phases, Busy
    <2> QED BY <2>2, <2>3
<1>4. CASE Phase(ctx') = "completed" /\ Phase(ctx) # "completed"
    <2>1. Phase(ctx) = "held" /\ ctx' = "Completed"
        BY <1>0, <1>4 DEF Phase, Successors, JobState
    <2>2. Job \in Busy
        BY <1>0, <2>1, StepBegun DEF Busy, Phase, JobState
    <2> QED BY <1>1, <1>2, <1>4, <2>1, <2>2
            DEF Lifecycle!Next, Lifecycle!Complete, Lifecycle!Move, Lifecycle!MayLeave, Phases, Busy
<1>5. CASE Phase(ctx') = "failed" /\ Phase(ctx) # "failed"
    <2>1. Phase(ctx) \in {"held", "completed"}
        BY <1>0, <1>5 DEF Phase, Successors, JobState
    <2> QED BY <1>1, <1>2, <1>5, <2>1
            DEF Lifecycle!Next, Lifecycle!Fail, Lifecycle!Move, Lifecycle!MayLeave, Phases, Busy
<1>6. CASE Phase(ctx') = "cancelled" /\ Phase(ctx) # "cancelled"
    <2>1. Phase(ctx) = "held"
        BY <1>0, <1>6 DEF Phase, Successors, JobState
    <2> QED BY <1>1, <1>2, <1>6, <2>1
            DEF Lifecycle!Next, Lifecycle!Cancel, Lifecycle!HasSlot, Lifecycle!Move, Lifecycle!MayLeave, Phases, Busy
<1>7. Phase(ctx') = Phase(ctx) \/ Phase(ctx') \in {"completed", "failed", "cancelled"}
    BY <1>0 DEF Phase, Successors, JobState
<1> QED BY <1>3, <1>4, <1>5, <1>6, <1>7

\* The detailed worker does nothing to its job that the abstract one does not allow, for any
\* plan, model and limits: only a worker that has not left completes it, and a failed or
\* cancelled job stays so although the loop may go on.
THEOREM WorkerImplementsLifecycle == Spec => StepsAreOfLifecycle
<1>1. Init => Begun
    BY DEF Init, Begun, JobState
<1>2. Begun /\ [Next]_vars => Begun' /\ [Lifecycle!Next]_(Lifecycle!vars)
    BY StepBegun, StepIsOfLifecycle
<1> QED BY <1>1, <1>2, PTL DEF Spec, StepsAreOfLifecycle
=============================================================================
