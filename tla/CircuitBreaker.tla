--------------------------- MODULE CircuitBreaker ---------------------------
(***************************************************************************)
(* The circuit breaker of one provider and egress, as forwardRequest uses  *)
(* it: Allow before the request goes out, RecordSuccess or RecordFailure   *)
(* when its answer arrives, which may be long after the breaker has moved  *)
(* on.  Each method holds the breaker's mutex and is one step.  Time is    *)
(* discrete: openedAt and halfOpenAt are kept as the ticks elapsed since.  *)
(* Counters saturate where the code only compares them.                    *)
(***************************************************************************)
EXTENDS Integers, FiniteSets

CONSTANTS
    Requests,                \* goroutines that forward to the provider
    FailureThreshold,
    ResetTimeout,            \* in ticks
    HalfOpenRequests,
    MaxBackoffMultiplier,
    BackoffEscalationCount,
    CycleCap                 \* bound: openProbeCycles saturates here

ASSUME OptionsAssumption ==
    /\ FailureThreshold \in Nat \ {0}
    /\ ResetTimeout \in Nat \ {0}
    /\ HalfOpenRequests \in Nat \ {0}
    /\ MaxBackoffMultiplier \in Nat \ {0}
    /\ BackoffEscalationCount \in Nat \ {0}
    /\ CycleCap \in Nat

VARIABLES
    state,
    failureCount,
    successCount,
    openProbeCycles,
    halfOpenRemaining,
    openFor,        \* ticks since openedAt
    halfOpenFor,    \* ticks since halfOpenAt
    flight,         \* the requests that wait for the provider's answer
    probes,         \* history: how many were admitted in this HALF_OPEN period
    recovered       \* from here on the provider answers every request with 2xx

counters == <<failureCount, successCount, openProbeCycles>>
clocks == <<openFor, halfOpenFor>>
breaker == <<state, counters, halfOpenRemaining, clocks>>
vars == <<breaker, flight, probes, recovered>>

Saturated(n, cap) == IF n < cap THEN n ELSE cap

\* 60% of the failure threshold, and at least one failure.
degradationThreshold ==
    LET t == (FailureThreshold * 3) \div 5 IN IF t < 1 THEN 1 ELSE t

\* ResetTimeout, doubled after every BackoffEscalationCount failed probe cycles.
effectiveTimeout ==
    ResetTimeout * Saturated(2 ^ (openProbeCycles \div BackoffEscalationCount),
                             MaxBackoffMultiplier)

LongestTimeout == ResetTimeout * MaxBackoffMultiplier

Init ==
    /\ state = "CLOSED"
    /\ failureCount = 0 /\ successCount = 0 /\ openProbeCycles = 0
    /\ halfOpenRemaining = 0
    /\ openFor = 0 /\ halfOpenFor = 0
    /\ flight = {} /\ probes = 0
    /\ recovered = FALSE

------------------------------------------------------------------------------
(* transition, for each state it moves to.                                 *)

OpenNow ==
    /\ state' = "OPEN" /\ openFor' = 0 /\ halfOpenRemaining' = 0
    /\ probes' = 0
    /\ UNCHANGED halfOpenFor

\* A failed probe cycle: the present one ends without a proof of recovery.
ReopenNow ==
    /\ OpenNow
    /\ openProbeCycles' = Saturated(openProbeCycles + 1, CycleCap)

CloseNow ==
    /\ state' = "CLOSED"
    /\ failureCount' = 0 /\ successCount' = 0 /\ openProbeCycles' = 0
    /\ openFor' = 0
    /\ probes' = 0
    /\ UNCHANGED <<halfOpenRemaining, halfOpenFor>>

------------------------------------------------------------------------------
(* Allow: one operator per way it returns.                                 *)

AllowPassing(r) ==
    /\ state \in {"CLOSED", "DEGRADED"}
    /\ flight' = flight \cup {r}
    /\ UNCHANGED <<breaker, probes>>

\* Mutant: the transition leaves every place free, the first probe takes none.
FirstProbeTakesNoPlace(r) ==
    /\ state = "OPEN" /\ openFor >= effectiveTimeout
    /\ state' = "HALF_OPEN"
    /\ halfOpenRemaining' = HalfOpenRequests
    /\ halfOpenFor' = 0
    /\ flight' = flight \cup {r}
    /\ probes' = 1
    /\ UNCHANGED <<counters, openFor>>

AllowFirstProbe(r) ==
    /\ state = "OPEN" /\ openFor >= effectiveTimeout
    /\ state' = "HALF_OPEN"
    /\ halfOpenRemaining' = HalfOpenRequests - 1
    /\ halfOpenFor' = 0
    /\ flight' = flight \cup {r}
    /\ probes' = 1
    /\ UNCHANGED <<counters, openFor>>

AllowProbe(r) ==
    /\ state = "HALF_OPEN" /\ halfOpenRemaining > 0
    /\ halfOpenRemaining' = halfOpenRemaining - 1
    /\ halfOpenFor' = IF halfOpenRemaining = 1 THEN 0 ELSE halfOpenFor
    /\ flight' = flight \cup {r}
    /\ probes' = probes + 1
    /\ UNCHANGED <<state, counters, openFor>>

\* Mutant: without the stall check the breaker waits for its probes' answers.
StallUnseen == FALSE

\* The probes never reported: count the period as a failed probe cycle.
RefuseStalled ==
    /\ state = "HALF_OPEN" /\ halfOpenRemaining = 0
    /\ halfOpenFor >= effectiveTimeout
    /\ ReopenNow
    /\ UNCHANGED <<failureCount, successCount, flight>>

\* Any other call is refused and changes nothing.
Allow(r) ==
    /\ r \notin flight
    /\ AllowPassing(r) \/ AllowFirstProbe(r) \/ AllowProbe(r) \/ RefuseStalled
    /\ UNCHANGED recovered

------------------------------------------------------------------------------
(* The answer of request r.                                                *)

Answered(r) == r \in flight /\ flight' = flight \ {r}

Success == successCount' = Saturated(successCount + 1, FailureThreshold)

Recovers ==
    \/ state = "HALF_OPEN"
    \/ state = "DEGRADED" /\ successCount + 1 >= FailureThreshold

RecordSuccess(r) ==
    /\ Answered(r)
    /\ \/ Recovers /\ CloseNow
       \/ /\ ~Recovers
          /\ Success
          /\ UNCHANGED <<state, failureCount, openProbeCycles, halfOpenRemaining,
                         clocks, probes>>
    /\ UNCHANGED recovered

Failure == failureCount' = Saturated(failureCount + 1, FailureThreshold)

Trips == state \in {"CLOSED", "DEGRADED"} /\ failureCount + 1 >= FailureThreshold

RecordFailure(r) ==
    /\ Answered(r) /\ ~recovered
    /\ Failure
    /\ \/ state = "HALF_OPEN" /\ ReopenNow
       \/ Trips /\ OpenNow /\ UNCHANGED openProbeCycles
       \/ /\ state # "HALF_OPEN" /\ ~Trips
          /\ state' = IF state = "CLOSED" /\ failureCount + 1 >= degradationThreshold
                      THEN "DEGRADED" ELSE state
          /\ UNCHANGED <<openProbeCycles, halfOpenRemaining, clocks, probes>>
    /\ UNCHANGED <<successCount, recovered>>

\* A 401, a 429 or a plain 400 is reported to nobody.
NotReported(r) ==
    /\ Answered(r) /\ ~recovered
    /\ UNCHANGED <<breaker, probes, recovered>>

------------------------------------------------------------------------------
(* The dashboard's reset, time, and the end of the provider's outage.      *)

Reset ==
    /\ CloseNow
    /\ UNCHANGED <<flight, recovered>>

\* A provider that recovered is prompt: it answers before the next tick.  (One
\* slower than the reset timeout can keep its breaker from closing for ever: the
\* stalled period is over when the answer comes, and OPEN ignores it.)
Tick ==
    /\ ~(recovered /\ flight # {})
    /\ openFor' = Saturated(openFor + 1, LongestTimeout)
    /\ halfOpenFor' = Saturated(halfOpenFor + 1, LongestTimeout)
    /\ UNCHANGED <<state, counters, halfOpenRemaining, flight, probes, recovered>>

Recover ==
    /\ recovered' = TRUE
    /\ UNCHANGED <<breaker, flight, probes>>

Answer(r) == RecordSuccess(r) \/ RecordFailure(r) \/ NotReported(r)

Next ==
    \/ \E r \in Requests : Allow(r) \/ Answer(r)
    \/ Reset \/ Tick \/ Recover

Spec == Init /\ [][Next]_vars

\* Clients keep asking for the provider, every request gets an answer or a
\* timeout, and time passes.
Fairness ==
    /\ \A r \in Requests : WF_vars(Allow(r)) /\ WF_vars(Answer(r))
    /\ WF_vars(Tick)

FairSpec == Spec /\ Fairness

------------------------------------------------------------------------------
(* Properties.                                                             *)

TypeOK ==
    /\ state \in {"CLOSED", "DEGRADED", "OPEN", "HALF_OPEN"}
    /\ failureCount \in 0 .. FailureThreshold
    /\ successCount \in 0 .. FailureThreshold
    /\ openProbeCycles \in 0 .. CycleCap
    /\ halfOpenRemaining \in 0 .. HalfOpenRequests - 1
    /\ openFor \in 0 .. LongestTimeout
    /\ halfOpenFor \in 0 .. LongestTimeout
    /\ flight \subseteq Requests
    /\ probes \in Nat
    /\ recovered \in BOOLEAN

\* A provider that is being tested is not hammered: from the moment the
\* breaker turns HALF_OPEN to the moment it leaves that state, at most
\* HalfOpenRequests requests are admitted, however many goroutines call Allow
\* and however late the answers of earlier requests arrive.
ProbesBounded == probes <= HalfOpenRequests

\* In HALF_OPEN every admission has taken one of the places (the strengthening of
\* ProbesBounded that a step preserves).
PlacesAddUp == state = "HALF_OPEN" => probes + halfOpenRemaining = HalfOpenRequests

Admitting ==
    \/ state \in {"CLOSED", "DEGRADED"}
    \/ state = "OPEN" /\ openFor >= effectiveTimeout
    \/ state = "HALF_OPEN" /\ halfOpenRemaining > 0

\* The breaker does not stall (the comment on halfOpenAt: "so the breaker
\* cannot stall in HALF_OPEN"): it keeps coming back to a state in which the
\* next call of Allow passes, even if no probe ever reports an outcome.
NeverShutForGood == []<>Admitting

\* A provider that recovered is in rotation again, for good.
RecoveredProviderServes == recovered ~> []Admitting
==============================================================================
