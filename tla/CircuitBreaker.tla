--------------------------- MODULE CircuitBreaker ---------------------------
(***************************************************************************)
(* The circuit breaker around the LLM provider.  Chat turns, workers and   *)
(* missions share one breaker and call the backend concurrently: a call is *)
(* admitted under the mutex, waits for the backend without it, and reports *)
(* what came back under the mutex again, when the breaker may long be in   *)
(* another state.  A caller may also drop its call.                        *)
(*                                                                         *)
(* `state', `failures', `successes' and `opened' are BreakerState; opened  *)
(* is the age of opened_at.  The module follows a release build, where the *)
(* debug_assert of record_success is not there and the circuit closes.     *)
(* A failure_threshold of 0 acts like 1 and is left out, likewise 0 for    *)
(* half_open_successes_needed.                                             *)
(***************************************************************************)
EXTENDS Naturals

CONSTANTS
    Calls,             \* callers, each with one call at a time
    FailureThreshold,  \* failure_threshold
    SuccessesNeeded    \* half_open_successes_needed

ASSUME BreakerAssumption ==
    /\ FailureThreshold \in Nat \ {0}
    /\ SuccessesNeeded \in Nat \ {0}

VARIABLES
    state,      \* CircuitState
    failures,   \* consecutive_failures
    successes,  \* half_open_successes
    opened,     \* opened_at: "none", "recent", or "old" after recovery_timeout
    calling,    \* callers whose call was admitted and has not reported yet
    streak,     \* history: transient failures since a success or since closing
    probes      \* history: successes since the circuit last became half-open

breakerVars == <<state, failures, successes, opened>>
vars == <<breakerVars, calling, streak, probes>>

CircuitState == {"Closed", "Open", "HalfOpen"}

Upto(n, k) == IF n < k THEN n ELSE k

Init ==
    /\ state = "Closed" /\ failures = 0 /\ successes = 0 /\ opened = "none"
    /\ calling = {}
    /\ streak = 0 /\ probes = 0

\* recovery_timeout elapses.
Tick ==
    /\ opened = "recent"
    /\ opened' = "old"
    /\ UNCHANGED <<state, failures, successes, calling, streak, probes>>

(***************************************************************************)
(* check_allowed.                                                          *)
(***************************************************************************)
Admit(c) ==
    /\ c \notin calling /\ state # "Open"
    /\ calling' = calling \cup {c}
    /\ UNCHANGED <<breakerVars, streak, probes>>

\* An open circuit without opened_at "should" not exist; it would close.
LeaveOpen ==
    IF opened = "none"
    THEN state' = "Closed" /\ UNCHANGED successes
    ELSE state' = "HalfOpen" /\ successes' = 0

AdmitProbe(c) ==
    /\ c \notin calling /\ state = "Open" /\ opened # "recent"
    /\ LeaveOpen
    /\ calling' = calling \cup {c}
    /\ probes' = 0
    /\ UNCHANGED <<failures, opened, streak>>

(***************************************************************************)
(* record_success.                                                         *)
(***************************************************************************)
Close == state' = "Closed" /\ failures' = 0 /\ opened' = "none"

\* Mutant of Enough: the circuit closes one success too early.
EnoughTooEarly(n) == n + 1 >= SuccessesNeeded

Enough(n) == n >= SuccessesNeeded

\* Mutant of SuccessWhileClosed: the failure count goes on across a success.
SuccessWhileClosedForgets == UNCHANGED <<state, failures, opened>>

SuccessWhileClosed == failures' = 0 /\ UNCHANGED <<state, opened>>

RecordSuccess ==
    CASE state = "Closed" -> SuccessWhileClosed /\ UNCHANGED successes
      [] state = "Open"   -> Close /\ UNCHANGED successes
      [] OTHER            -> /\ successes' = successes + 1
                             /\ IF Enough(successes + 1) THEN Close
                                ELSE UNCHANGED <<state, failures, opened>>

Succeed(c) ==
    /\ c \in calling
    /\ RecordSuccess
    /\ calling' = calling \ {c}
    /\ streak' = 0
    /\ probes' = Upto(probes + 1, SuccessesNeeded)

(***************************************************************************)
(* record_failure; an error that is_transient does not count is reported   *)
(* to the caller only, and a dropped call reports nothing at all.          *)
(***************************************************************************)
Open == state' = "Open" /\ opened' = "recent"

RecordFailure ==
    CASE state = "Closed"   -> /\ failures' = failures + 1
                               /\ IF failures + 1 >= FailureThreshold THEN Open
                                  ELSE UNCHANGED <<state, opened>>
                               /\ UNCHANGED successes
      [] state = "HalfOpen" -> Open /\ successes' = 0 /\ UNCHANGED failures
      [] OTHER              -> UNCHANGED breakerVars

Fail(c) ==
    /\ c \in calling
    /\ RecordFailure
    /\ calling' = calling \ {c}
    /\ streak' = Upto(streak + 1, FailureThreshold)
    /\ UNCHANGED probes

GiveUp(c) ==
    /\ c \in calling
    /\ calling' = calling \ {c}
    /\ UNCHANGED <<breakerVars, streak, probes>>

Next ==
    \/ Tick
    \/ \E c \in Calls : Admit(c) \/ AdmitProbe(c) \/ Succeed(c) \/ Fail(c) \/ GiveUp(c)

Spec == Init /\ [][Next]_vars

(***************************************************************************)
(* Properties.                                                             *)
(***************************************************************************)
\* Every variable holds a value of its kind; the counters stop at their limits.
TypeOK ==
    /\ state \in CircuitState
    /\ failures \in 0 .. FailureThreshold
    /\ successes \in 0 .. SuccessesNeeded
    /\ opened \in {"none", "recent", "old"}
    /\ calling \subseteq Calls
    /\ streak \in 0 .. FailureThreshold
    /\ probes \in 0 .. SuccessesNeeded

\* However late calls report, a circuit that is not closed knows when it opened,
\* so check_allowed never has to "recover gracefully", and a closed circuit has
\* forgotten the failures that opened it and is below its threshold.
BreakerConsistent ==
    IF state = "Closed" THEN failures < FailureThreshold /\ opened = "none" ELSE opened # "none"

\* A closed circuit opens only after failure_threshold transient failures with
\* no success in between.
OpensAfterStreak ==
    [][(state = "Closed" /\ state' = "Open") => streak' = FailureThreshold]_vars

\* A half-open circuit closes only after half_open_successes_needed successes
\* since it became half-open.
ClosesAfterProbes ==
    [][(state = "HalfOpen" /\ state' = "Closed") => probes' = SuccessesNeeded]_vars
=============================================================================
