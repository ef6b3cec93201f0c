--------------------------- MODULE ProviderChain ---------------------------
(***************************************************************************)
(* The chain build_provider_chain_components puts together: the circuit    *)
(* breaker around the failover over the primary and the fallback provider. *)
(* Every step of the breaker is a step of CircuitBreaker; between its      *)
(* admission and its report a call goes through try_providers, which skips *)
(* the providers in cooldown and keeps a count of failures for each.  The  *)
(* counts and stamps are atomics: threads interleave between any two.      *)
(*                                                                         *)
(* A provider stands for its retries and, behind the primary, for the      *)
(* smart routing.  All cooldowns last equally long, so the oldest is the   *)
(* first to end.                                                           *)
(***************************************************************************)
EXTENDS CircuitBreaker, Sequences, Functions

CONSTANTS
    Providers,         \* the sequence of providers, primary first
    CooldownThreshold  \* CooldownConfig::failure_threshold

ASSUME ChainAssumption ==
    /\ Providers # <<>>
    /\ CooldownThreshold \in Nat \ {0}

VARIABLES
    count,    \* failure_count of each provider, as far as the threshold tells it apart
    cooled,   \* the providers in cooldown, in the order of their stamps
    attempt,  \* where each call is in try_providers, with the providers left to try
    up        \* the providers that answer

failoverVars == <<count, cooled, attempt, up>>
chainVars == <<vars, failoverVars>>

Known == Range(Providers)

ChainInit ==
    /\ Init
    /\ count = [p \in Known |-> 0] /\ cooled = <<>>
    /\ attempt = [c \in Calls |-> [at |-> "none", todo |-> <<>>]]
    /\ up \in SUBSET Known

At(c, at) == attempt[c].at = at
Goto(c, at, todo) == attempt' = [attempt EXCEPT ![c] = [at |-> at, todo |-> todo]]
Current(c) == Head(attempt[c].todo)

Without(p) == SelectSeq(cooled, LAMBDA q : q # p)

(***************************************************************************)
(* One call.                                                               *)
(***************************************************************************)
Start(c) ==
    /\ At(c, "none")
    /\ Admit(c) \/ AdmitProbe(c)
    /\ Goto(c, "admitted", <<>>)
    /\ UNCHANGED <<count, cooled, up>>

\* The providers that are not in cooldown, or the one that has cooled longest.
ToTry ==
    LET available == SelectSeq(Providers, LAMBDA p : p \notin Range(cooled)) IN
    IF available = <<>> THEN <<Head(cooled)>> ELSE available

Choose(c) ==
    /\ At(c, "admitted")
    /\ Goto(c, "calling", ToTry)
    /\ UNCHANGED <<vars, count, cooled, up>>

\* ProviderCooldown::reset.
Answer(c) ==
    /\ At(c, "calling") /\ Current(c) \in up
    /\ count' = [count EXCEPT ![Current(c)] = 0]
    /\ cooled' = Without(Current(c))
    /\ Goto(c, "answered", <<>>)
    /\ UNCHANGED <<vars, up>>

\* Mutant of Advance: the first error ends the call.
AdvanceGivesUp(c) == Goto(c, "failed", <<>>)

\* On to the next provider, or out with the last error.
Advance(c) ==
    LET rest == Tail(attempt[c].todo) IN
    Goto(c, IF rest = <<>> THEN "failed" ELSE "calling", rest)

\* A retryable error.  The count is the only thing that is read and written at once.
FailRetryably(c) ==
    /\ At(c, "calling") /\ Current(c) \notin up
    /\ LET n == count[Current(c)] + 1 IN
        /\ count' = [count EXCEPT ![Current(c)] = Upto(n, CooldownThreshold)]
        /\ IF n >= CooldownThreshold THEN Goto(c, "tripped", attempt[c].todo) ELSE Advance(c)
    /\ UNCHANGED <<vars, cooled, up>>

\* activate_cooldown, also of a provider that has cooled before or answered since.
Cool(c) ==
    /\ At(c, "tripped")
    /\ cooled' = Append(Without(Current(c)), Current(c))
    /\ Advance(c)
    /\ UNCHANGED <<vars, count, up>>

\* An error that is transient for the breaker and not retryable for the failover
\* (SessionExpired) is returned at once; the other providers are not tried.
Refuse(c) ==
    /\ At(c, "calling")
    /\ Goto(c, "failed", <<>>)
    /\ UNCHANGED <<vars, count, cooled, up>>

ReportSuccess(c) == At(c, "answered") /\ Succeed(c) /\ Goto(c, "none", <<>>) /\ UNCHANGED <<count, cooled, up>>

ReportFailure(c) == At(c, "failed") /\ Fail(c) /\ Goto(c, "none", <<>>) /\ UNCHANGED <<count, cooled, up>>

\* An error that is the caller's own, or a future that is dropped at an await.
Drop(c) ==
    /\ attempt[c].at \in {"calling", "answered", "failed"}
    /\ GiveUp(c)
    /\ Goto(c, "none", <<>>)
    /\ UNCHANGED <<count, cooled, up>>

(***************************************************************************)
(* Time and the providers.                                                 *)
(***************************************************************************)
CooldownEnds ==
    /\ cooled # <<>>
    /\ cooled' = Tail(cooled)
    /\ UNCHANGED <<vars, count, attempt, up>>

RecoveryTimeout == Tick /\ UNCHANGED failoverVars

ProviderChanges(p) ==
    /\ up' = IF p \in up THEN up \ {p} ELSE up \cup {p}
    /\ UNCHANGED <<vars, count, cooled, attempt>>

ChainNext ==
    \/ \E c \in Calls :
         \/ Start(c) \/ Choose(c) \/ Answer(c) \/ FailRetryably(c) \/ Cool(c) \/ Refuse(c)
         \/ ReportSuccess(c) \/ ReportFailure(c) \/ Drop(c)
    \/ CooldownEnds \/ RecoveryTimeout
    \/ \E p \in Known : ProviderChanges(p)

ChainSpec == ChainInit /\ [][ChainNext]_chainVars

\* Time passes, someone goes on asking, and callers whose requests a provider gets again and
\* again hear from it at last, although any of them may drop any one of its calls.
ChainFairSpec ==
    /\ ChainSpec
    /\ WF_chainVars(RecoveryTimeout) /\ WF_chainVars(CooldownEnds)
    /\ WF_chainVars(\E c \in Calls : Start(c)) /\ WF_chainVars(\E c \in Calls : Choose(c))
    /\ SF_chainVars(\E c \in Calls : Answer(c))
    /\ SF_chainVars(\E c \in Calls : FailRetryably(c))
    /\ WF_chainVars(\E c \in Calls : Cool(c))
    /\ SF_chainVars(\E c \in Calls : ReportSuccess(c))
    /\ WF_chainVars(\E c \in Calls : ReportFailure(c))

(***************************************************************************)
(* Properties.                                                             *)
(***************************************************************************)
\* While a provider stays up and no error cuts the failover short, the circuit closes for
\* good: neither the other providers' failures nor an old cooldown keep the one that works
\* from being tried.
UsesWorkingProvider ==
    /\ \E p \in Known : <>[](p \in up)
    /\ <>[][\A c \in Calls : ~Refuse(c)]_chainVars
    => <>[](state = "Closed")
=============================================================================
