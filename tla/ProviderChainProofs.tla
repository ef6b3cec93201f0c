------------------------ MODULE ProviderChainProofs ------------------------
(***************************************************************************)
(* TLAPS proofs about CircuitBreaker and ProviderChain, for every set of   *)
(* callers, every sequence of providers and every threshold.  First the    *)
(* breaker by itself; then: the chain implements the breaker, so what      *)
(* holds of the breaker holds in the chain.                                *)
(***************************************************************************)
EXTENDS ProviderChain, TLAPS

\* The breaker's counters never claim more than what was reported: a closed
\* circuit counts failures that really came in a row, a half-open one the
\* successes since it became half-open, of which it still lacks some.
CountsAreHonest ==
    /\ state = "Closed" => failures <= streak
    /\ state = "HalfOpen" => probes = successes /\ successes < SuccessesNeeded

\* The inductive invariant.
BreakerInv == TypeOK /\ BreakerConsistent /\ CountsAreHonest

USE BreakerAssumption DEF breakerVars, CircuitState

LEMMA UptoFacts ==
    ASSUME NEW n \in Nat, NEW k \in Nat
    PROVE  Upto(n, k) \in 0 .. k /\ (n <= k => Upto(n, k) = n) /\ (n >= k => Upto(n, k) = k)
BY DEF Upto

LEMMA InitInv == Init => BreakerInv
BY DEF Init, BreakerInv, TypeOK, BreakerConsistent, CountsAreHonest

\* A successful answer, whatever state it finds the circuit in.
LEMMA SucceedStep ==
    ASSUME BreakerInv, NEW c \in Calls, Succeed(c)
    PROVE  BreakerInv'
<1> USE DEF BreakerInv, TypeOK, BreakerConsistent, CountsAreHonest
<1>1. probes' \in 0 .. SuccessesNeeded /\ (probes < SuccessesNeeded => probes' = probes + 1)
    BY UptoFacts DEF Succeed, Upto
<1>2. streak' = 0 /\ calling' \subseteq Calls
    BY DEF Succeed
<1>3. RecordSuccess
    BY DEF Succeed
<1>4. CASE state = "Closed"
    BY <1>1, <1>2, <1>3, <1>4 DEF RecordSuccess, SuccessWhileClosed
<1>5. CASE state = "Open"
    BY <1>1, <1>2, <1>3, <1>5 DEF RecordSuccess, Close
<1>6. CASE state = "HalfOpen"
    BY <1>1, <1>2, <1>3, <1>6 DEF RecordSuccess, Close, Enough
<1> QED BY <1>4, <1>5, <1>6

\* A transient failure, whatever state it finds the circuit in.
LEMMA FailStep ==
    ASSUME BreakerInv, NEW c \in Calls, Fail(c)
    PROVE  BreakerInv'
<1> USE DEF BreakerInv, TypeOK, BreakerConsistent, CountsAreHonest
<1>1. /\ streak' \in 0 .. FailureThreshold
      /\ streak < FailureThreshold => streak' = streak + 1
      /\ streak = FailureThreshold => streak' = FailureThreshold
    BY UptoFacts DEF Fail, Upto
<1>2. probes' = probes /\ calling' \subseteq Calls
    BY DEF Fail
<1>3. RecordFailure
    BY DEF Fail
<1>4. CASE state = "Closed"
    BY <1>1, <1>2, <1>3, <1>4 DEF RecordFailure, Open
<1>5. CASE state = "Open"
    BY <1>1, <1>2, <1>3, <1>5 DEF RecordFailure
<1>6. CASE state = "HalfOpen"
    BY <1>1, <1>2, <1>3, <1>6 DEF RecordFailure, Open
<1> QED BY <1>4, <1>5, <1>6

LEMMA StepInv == BreakerInv /\ [Next]_vars => BreakerInv'
<1> SUFFICES ASSUME BreakerInv, [Next]_vars PROVE BreakerInv'
    OBVIOUS
<1> USE DEF BreakerInv, TypeOK, BreakerConsistent, CountsAreHonest
<1>1. CASE Tick
    BY <1>1 DEF Tick
<1>2. ASSUME NEW c \in Calls, Admit(c) PROVE BreakerInv'
    BY <1>2 DEF Admit
<1>3. ASSUME NEW c \in Calls, AdmitProbe(c) PROVE BreakerInv'
    BY <1>3 DEF AdmitProbe, LeaveOpen
<1>4. ASSUME NEW c \in Calls, Succeed(c) PROVE BreakerInv'
    BY <1>4, SucceedStep
<1>5. ASSUME NEW c \in Calls, Fail(c) PROVE BreakerInv'
    BY <1>5, FailStep
<1>6. ASSUME NEW c \in Calls, GiveUp(c) PROVE BreakerInv'
    BY <1>6 DEF GiveUp
<1>7. CASE UNCHANGED vars
    BY <1>7 DEF vars
<1> QED BY <1>1, <1>2, <1>3, <1>4, <1>5, <1>6, <1>7 DEF Next

LEMMA AlwaysInv == Spec => []BreakerInv
BY InitInv, StepInv, PTL DEF Spec

\* Type correctness, for every number of concurrent callers: in particular the
\* two counters of BreakerState never pass their thresholds.
THEOREM TypeCorrect == Spec => []TypeOK
<1>1. BreakerInv => TypeOK
    BY DEF BreakerInv
<1> QED BY <1>1, AlwaysInv, PTL

\* check_allowed never finds an open circuit without opened_at, and a closed
\* circuit is always below its threshold, however late the answers come in.
THEOREM AlwaysConsistent == Spec => []BreakerConsistent
<1>1. BreakerInv => BreakerConsistent
    BY DEF BreakerInv
<1> QED BY <1>1, AlwaysInv, PTL

\* Only a streak of failure_threshold transient failures opens a closed circuit.
THEOREM OpensOnlyAfterStreak == Spec => OpensAfterStreak
<1>1. ASSUME BreakerInv, [Next]_vars, state = "Closed", state' = "Open"
      PROVE  streak' = FailureThreshold
    <2> USE DEF BreakerInv, TypeOK, CountsAreHonest
    <2>1. PICK c \in Calls : AdmitProbe(c) \/ Succeed(c) \/ Fail(c)
        BY <1>1 DEF Next, vars, Tick, Admit, GiveUp
    <2>2. ~AdmitProbe(c)
        BY <1>1 DEF AdmitProbe
    <2>3. ~Succeed(c)
        BY <1>1 DEF Succeed, RecordSuccess, SuccessWhileClosed
    <2>4. Fail(c)
        BY <2>1, <2>2, <2>3
    <2>5. failures + 1 >= FailureThreshold
        BY <1>1, <2>4 DEF Fail, RecordFailure
    <2>6. streak + 1 >= FailureThreshold
        BY <1>1, <2>5
    <2>7. streak' = Upto(streak + 1, FailureThreshold)
        BY <2>4 DEF Fail
    <2> QED BY <1>1, <2>6, <2>7, UptoFacts
<1>2. BreakerInv /\ [Next]_vars =>
          [(state = "Closed" /\ state' = "Open") => streak' = FailureThreshold]_vars
    BY <1>1
<1> QED BY <1>2, AlwaysInv, PTL DEF Spec, OpensAfterStreak

\* Only half_open_successes_needed successes since it became half-open close a
\* half-open circuit, whichever of the concurrent calls reported them.
THEOREM ClosesOnlyAfterProbes == Spec => ClosesAfterProbes
<1>1. ASSUME BreakerInv, [Next]_vars, state = "HalfOpen", state' = "Closed"
      PROVE  probes' = SuccessesNeeded
    <2> USE DEF BreakerInv, TypeOK, CountsAreHonest
    <2>1. PICK c \in Calls : AdmitProbe(c) \/ Succeed(c) \/ Fail(c)
        BY <1>1 DEF Next, vars, Tick, Admit, GiveUp
    <2>2. ~AdmitProbe(c)
        BY <1>1 DEF AdmitProbe
    <2>3. ~Fail(c)
        BY <1>1 DEF Fail, RecordFailure, Open
    <2>4. Succeed(c)
        BY <2>1, <2>2, <2>3
    <2>5. successes + 1 >= SuccessesNeeded
        BY <1>1, <2>4 DEF Succeed, RecordSuccess, Enough
    <2>6. probes + 1 >= SuccessesNeeded /\ probes' = Upto(probes + 1, SuccessesNeeded)
        BY <1>1, <2>4, <2>5 DEF Succeed
    <2> QED BY <1>1, <2>6, UptoFacts
<1>2. BreakerInv /\ [Next]_vars =>
          [(state = "HalfOpen" /\ state' = "Closed") => probes' = SuccessesNeeded]_vars
    BY <1>1
<1> QED BY <1>2, AlwaysInv, PTL DEF Spec, ClosesAfterProbes

(***************************************************************************)
(* The chain.                                                              *)
(***************************************************************************)
\* Where no call starts or reports, the breaker does not move.
LEMMA FailoverIsInvisible ==
    ASSUME NEW c \in Calls,
           Choose(c) \/ Answer(c) \/ FailRetryably(c) \/ Cool(c) \/ Refuse(c)
    PROVE  UNCHANGED vars
BY DEF Choose, Answer, FailRetryably, Cool, Refuse

\* Every step of the chain is a step of the breaker or none.
LEMMA ChainStep == [ChainNext]_chainVars => [Next]_vars
<1> SUFFICES ASSUME [ChainNext]_chainVars PROVE [Next]_vars
    OBVIOUS
<1>1. ASSUME NEW c \in Calls, Start(c) PROVE Next
    BY <1>1 DEF Start, Next
<1>2. ASSUME NEW c \in Calls, ReportSuccess(c) \/ ReportFailure(c) \/ Drop(c) PROVE Next
    BY <1>2 DEF ReportSuccess, ReportFailure, Drop, Next
<1>3. ASSUME NEW c \in Calls,
             Choose(c) \/ Answer(c) \/ FailRetryably(c) \/ Cool(c) \/ Refuse(c)
      PROVE  UNCHANGED vars
    BY <1>3, FailoverIsInvisible
<1>4. CASE RecoveryTimeout
    BY <1>4 DEF RecoveryTimeout, Next
<1>5. CASE CooldownEnds \/ \E p \in Known : ProviderChanges(p)
    BY <1>5 DEF CooldownEnds, ProviderChanges
<1>6. CASE UNCHANGED chainVars
    BY <1>6 DEF chainVars
<1> QED BY <1>1, <1>2, <1>3, <1>4, <1>5, <1>6 DEF ChainNext

\* build_provider_chain_components: the breaker behaves behind the failover as it does by
\* itself, for any providers and any interleaving of the calls' attempts.
THEOREM ChainImplementsBreaker == ChainSpec => Spec
<1>1. ChainInit => Init
    BY DEF ChainInit
<1> QED BY <1>1, ChainStep, PTL DEF ChainSpec, Spec

\* In the chain a closed circuit opens only after failure_threshold calls in a row that came
\* out of the failover with a transient error.
THEOREM ChainOpensAfterStreak == ChainSpec => OpensAfterStreak
BY ChainImplementsBreaker, OpensOnlyAfterStreak

\* In the chain a half-open circuit closes only after half_open_successes_needed answers.
THEOREM ChainClosesAfterProbes == ChainSpec => ClosesAfterProbes
BY ChainImplementsBreaker, ClosesOnlyAfterProbes
=============================================================================
