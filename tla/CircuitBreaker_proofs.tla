----------------------- MODULE CircuitBreaker_proofs -----------------------
(***************************************************************************)
(* Safety of the circuit breaker, for every threshold, timeout, number of  *)
(* probes and set of goroutines; of the failover loop above it, which uses *)
(* it as it expects to be used; and of the model-health loop, the other    *)
(* watch on a provider.                                                    *)
(***************************************************************************)
EXTENDS GuardedFailover, ModelHealth, Selection_proofs, TLAPS

\* PlacesAddUp says nothing outside HALF_OPEN, so the invariant also needs that
\* the count of probes starts again from zero: every way into HALF_OPEN is a
\* first probe, and every way out of it forgets the period.
NoProbesOutside == state # "HALF_OPEN" => probes = 0

IInv == TypeOK /\ PlacesAddUp /\ NoProbesOutside

\* A saturating counter stays within its cap.
LEMMA SaturatedInRange ==
    ASSUME NEW cap \in Nat, NEW n \in Nat
    PROVE  Saturated(n, cap) \in 0 .. cap
BY DEF Saturated

\* The longest timeout is a number of ticks: the clocks have a range.
LEMMA TimeoutIsNat == LongestTimeout \in Nat
BY OptionsAssumption DEF LongestTimeout

\* The breaker starts CLOSED, with no probe admitted.
LEMMA InitIInv == Init => IInv
<1> SUFFICES ASSUME Init PROVE IInv
    OBVIOUS
<1>1. TypeOK
    <2>1. /\ 0 \in 0 .. FailureThreshold /\ 0 \in 0 .. CycleCap
          /\ 0 \in 0 .. HalfOpenRequests - 1 /\ 0 \in 0 .. LongestTimeout
        BY OptionsAssumption, TimeoutIsNat
    <2> QED
        BY <2>1 DEF Init, TypeOK
<1>2. PlacesAddUp /\ NoProbesOutside
    BY DEF Init, PlacesAddUp, NoProbesOutside
<1> QED
    BY <1>1, <1>2 DEF IInv

\* Both ways out of HALF_OPEN (Allow's and RecordFailure's reopening, closing)
\* forget the period, so whatever else the step does, the counts are right.
LEMMA OpenNowInv ==
    ASSUME IInv, OpenNow
    PROVE  /\ state' = "OPEN" /\ openFor' \in 0 .. LongestTimeout
           /\ halfOpenFor' \in 0 .. LongestTimeout
           /\ halfOpenRemaining' \in 0 .. HalfOpenRequests - 1
           /\ probes' = 0
           /\ PlacesAddUp' /\ NoProbesOutside'
BY OptionsAssumption, TimeoutIsNat
   DEF IInv, TypeOK, OpenNow, PlacesAddUp, NoProbesOutside

\* Closing resets the counters and forgets the period.
LEMMA CloseNowInv ==
    ASSUME IInv, CloseNow, flight' \subseteq Requests, UNCHANGED recovered
    PROVE  IInv'
BY OptionsAssumption, TimeoutIsNat
   DEF IInv, TypeOK, CloseNow, PlacesAddUp, NoProbesOutside

\* Reopening counts one more failed probe cycle.
LEMMA ReopenNowInv ==
    ASSUME IInv, ReopenNow, flight' \subseteq Requests, UNCHANGED recovered,
           failureCount' \in 0 .. FailureThreshold, UNCHANGED successCount
    PROVE  IInv'
<1>1. openProbeCycles' \in 0 .. CycleCap
    BY SaturatedInRange, OptionsAssumption DEF ReopenNow, IInv, TypeOK
<1>2. OpenNow
    BY DEF ReopenNow
<1> QED
    BY <1>1, <1>2, OpenNowInv DEF IInv, TypeOK

\* Admitting a request, or refusing it, keeps the count of the places.
LEMMA AllowInv ==
    ASSUME IInv, NEW r \in Requests, Allow(r)
    PROVE  IInv'
<1> USE OptionsAssumption
<1>1. CASE AllowPassing(r)
    BY <1>1 DEF Allow, AllowPassing, IInv, TypeOK, PlacesAddUp, NoProbesOutside,
        breaker, counters, clocks
<1>2. CASE AllowFirstProbe(r)
    BY <1>2, TimeoutIsNat DEF Allow, AllowFirstProbe, IInv, TypeOK, PlacesAddUp,
        NoProbesOutside, counters
<1>3. CASE AllowProbe(r)
    BY <1>3, TimeoutIsNat DEF Allow, AllowProbe, IInv, TypeOK, PlacesAddUp,
        NoProbesOutside, counters
<1>4. CASE RefuseStalled
    BY <1>4, ReopenNowInv DEF Allow, RefuseStalled, IInv, TypeOK
<1> QED
    BY <1>1, <1>2, <1>3, <1>4 DEF Allow

\* An answer, of whatever period its request was admitted in, keeps it too.
LEMMA AnswerInv ==
    ASSUME IInv, NEW r \in Requests, Answer(r)
    PROVE  IInv'
<1> USE OptionsAssumption
<1>1. CASE RecordSuccess(r)
    <2>1. CASE CloseNow
        BY <1>1, <2>1, CloseNowInv DEF RecordSuccess, Answered, IInv, TypeOK
    <2>2. CASE ~Recovers /\ Success
               /\ UNCHANGED <<state, failureCount, openProbeCycles,
                              halfOpenRemaining, clocks, probes>>
        <3>1. successCount' \in 0 .. FailureThreshold
            BY <2>2, SaturatedInRange DEF Success, IInv, TypeOK
        <3> QED
            BY <1>1, <2>2, <3>1 DEF RecordSuccess, Answered, IInv, TypeOK,
                PlacesAddUp, NoProbesOutside, clocks
    <2> QED
        BY <1>1, <2>1, <2>2 DEF RecordSuccess
<1>2. CASE RecordFailure(r)
    <2>1. /\ failureCount' \in 0 .. FailureThreshold
          /\ flight' \subseteq Requests /\ UNCHANGED <<successCount, recovered>>
        BY <1>2, SaturatedInRange DEF RecordFailure, Failure, Answered, IInv, TypeOK
    <2>2. CASE state = "HALF_OPEN" /\ ReopenNow
        BY <2>1, <2>2, ReopenNowInv
    <2>3. CASE Trips /\ OpenNow /\ UNCHANGED openProbeCycles
        BY <2>1, <2>3, OpenNowInv DEF IInv, TypeOK
    <2>4. CASE /\ state # "HALF_OPEN"
               /\ state' \in {state, "DEGRADED"}
               /\ UNCHANGED <<openProbeCycles, halfOpenRemaining, clocks, probes>>
        BY <2>1, <2>4 DEF IInv, TypeOK, PlacesAddUp, NoProbesOutside, clocks
    <2> QED
        BY <1>2, <2>2, <2>3, <2>4 DEF RecordFailure
<1>3. CASE NotReported(r)
    BY <1>3 DEF NotReported, Answered, IInv, TypeOK, PlacesAddUp, NoProbesOutside,
        breaker, counters, clocks
<1> QED
    BY <1>1, <1>2, <1>3 DEF Answer

\* Every step keeps the inductive invariant.
LEMMA NextIInv == IInv /\ [Next]_vars => IInv'
<1> SUFFICES ASSUME IInv, [Next]_vars PROVE IInv'
    OBVIOUS
<1> USE OptionsAssumption
<1>1. ASSUME NEW r \in Requests, Allow(r) PROVE IInv'
    BY <1>1, AllowInv
<1>2. ASSUME NEW r \in Requests, Answer(r) PROVE IInv'
    BY <1>2, AnswerInv
<1>3. CASE Reset
    BY <1>3, CloseNowInv DEF Reset, IInv, TypeOK
<1>4. CASE Tick
    <2>1. openFor' \in 0 .. LongestTimeout /\ halfOpenFor' \in 0 .. LongestTimeout
        BY <1>4, SaturatedInRange, TimeoutIsNat DEF Tick, IInv, TypeOK
    <2> QED
        BY <1>4, <2>1 DEF Tick, IInv, TypeOK, PlacesAddUp, NoProbesOutside, counters
<1>5. CASE Recover
    BY <1>5 DEF Recover, IInv, TypeOK, PlacesAddUp, NoProbesOutside, breaker,
        counters, clocks
<1>6. CASE UNCHANGED vars
    BY <1>6 DEF IInv, TypeOK, PlacesAddUp, NoProbesOutside, vars, breaker,
        counters, clocks
<1> QED
    BY <1>1, <1>2, <1>3, <1>4, <1>5, <1>6 DEF Next

\* Every state the breaker reaches satisfies the inductive invariant.
THEOREM Invariance == Spec => []IInv
<1>1. Init => IInv
    BY InitIInv
<1>2. IInv /\ [Next]_vars => IInv'
    BY NextIInv
<1> QED
    BY <1>1, <1>2, PTL DEF Spec

\* The state, the counters and the clocks keep their ranges, and the places left
\* never go below zero.
THEOREM TypeCorrect == Spec => []TypeOK
<1>1. IInv => TypeOK
    BY DEF IInv
<1> QED
    BY <1>1, Invariance, PTL

\* A provider that is being tested gets at most HalfOpenRequests requests from
\* the moment Allow turns the breaker HALF_OPEN to the moment it leaves that
\* state, for any number of callers and any answers that come late.
THEOREM ProbesCapped == Spec => []ProbesBounded
<1>1. IInv => ProbesBounded
    BY OptionsAssumption DEF IInv, TypeOK, PlacesAddUp, NoProbesOutside, ProbesBounded
<1> QED
    BY <1>1, Invariance, PTL

------------------------------------------------------------------------------
(* The failover loop above the breaker.                                    *)

\* A turn has a connection only while it is open: a new one starts with none.
WireOfOpenTurn == \A r \in Requests : turns[r].conn # Nobody => turns[r].end = "open"

GuardedIInv == GuardedTypeOK /\ WireOfOpenTurn /\ PlacesAddUp /\ NoProbesOutside

\* What the loop chooses is an account, and what it leaves are accounts.
LEMMA ChosenFacts ==
    ASSUME GuardedTypeOK, NEW r \in Requests, turns[r].left # <<>>
    PROVE  /\ Tail(turns[r].left) \in Seq(Conns)
           /\ Chosen(r) # Nobody => Chosen(r) \in Conns
           /\ Others(r, Chosen(r)) \in Seq(Conns)
<1>1. turns[r].left \in Seq(Conns)
    BY DEF GuardedTypeOK, TurnType
<1>2. Head(turns[r].left) \in Conns /\ Tail(turns[r].left) \in Seq(Conns)
    BY <1>1
<1>3. Ready \in Seq(Conns)
    BY LoopAssumption, KeepProperties DEF Ready
<1>4. Chosen(r) # Nobody => Chosen(r) \in Conns
    <2>1. Ready # <<>> => Head(Ready) \in Conns
        BY <1>3
    <2>2. cooldown[Head(turns[r].left)] \in Nat
        BY <1>2, LoopAssumption DEF GuardedTypeOK
    <2> QED
        BY <1>2, <2>1, <2>2 DEF Chosen
<1>5. Others(r, Chosen(r)) \in Seq(Conns)
    BY <1>2, KeepProperties DEF Others
<1> QED
    BY <1>2, <1>4, <1>5

\* What a step of a turn does to the turns: this one changes, and with its connection
\* the request's place among those that wait for the provider.
TurnMoves(r) ==
    \E t \in TurnType :
        /\ turns' = [turns EXCEPT ![r] = t]
        /\ t.conn # Nobody => t.end = "open"
        /\ flight' = IF t.conn # Nobody THEN flight \cup {r} ELSE flight \ {r}

\* An answer takes the connection away.
LEMMA AnswerMoves ==
    ASSUME GuardedIInv, NEW r \in Requests, Answered(r),
           NextCandidate(r) \/ \E how \in {"served", "failed"} : Ends(r, how)
    PROVE  TurnMoves(r)
<1>1. turns[r] \in TurnType /\ turns \in [Requests -> TurnType]
    BY DEF GuardedIInv, GuardedTypeOK
<1>2. ASSUME NEW t \in TurnType, t.conn = Nobody, turns' = [turns EXCEPT ![r] = t]
      PROVE  TurnMoves(r)
    BY <1>2 DEF TurnMoves, Answered
<1>3. CASE NextCandidate(r)
    <2> DEFINE t == [turns[r] EXCEPT !.conn = Nobody]
    <2>1. t \in TurnType /\ t.conn = Nobody
        BY <1>1 DEF TurnType
    <2>2. turns' = [turns EXCEPT ![r] = t]
        BY <1>1, <1>3 DEF NextCandidate
    <2> QED
        BY <1>2, <2>1, <2>2
<1>4. ASSUME NEW how \in {"served", "failed"}, Ends(r, how)
      PROVE  TurnMoves(r)
    <2> DEFINE t == [turns[r] EXCEPT !.conn = Nobody, !.end = how]
    <2>1. t \in TurnType /\ t.conn = Nobody
        BY <1>1 DEF TurnType
    <2>2. turns' = [turns EXCEPT ![r] = t]
        BY <1>1, <1>4 DEF Ends
    <2> QED
        BY <1>2, <2>1, <2>2
<1> QED
    BY <1>3, <1>4

\* The steps that dial nobody keep the turn's connection, which is none.
LEMMA ScanMoves ==
    ASSUME GuardedIInv, NEW r \in Requests, UNCHANGED flight,
           turns[r].conn = Nobody, NEW t \in TurnType, t.conn = Nobody,
           turns' = [turns EXCEPT ![r] = t]
    PROVE  TurnMoves(r)
<1>1. r \notin flight
    BY DEF GuardedIInv, GuardedTypeOK
<1> QED
    BY <1>1 DEF TurnMoves

\* A dialled turn has its account, and waits for the provider.
LEMMA DialMoves ==
    ASSUME GuardedIInv, NEW r \in Requests, Dial(r)
    PROVE  TurnMoves(r)
<1> DEFINE t == [turns[r] EXCEPT !.conn = Chosen(r), !.left = Others(r, Chosen(r))]
<1>1. turns[r] \in TurnType /\ turns \in [Requests -> TurnType]
    BY DEF GuardedIInv, GuardedTypeOK
<1>2. Chosen(r) \in Conns /\ Chosen(r) # Nobody /\ Others(r, Chosen(r)) \in Seq(Conns)
    BY ChosenFacts DEF Dial, GuardedIInv
<1>3. t \in TurnType /\ t.conn # Nobody /\ t.end = "open"
    BY <1>1, <1>2 DEF TurnType, Dial, Scanning
<1>4. turns' = [turns EXCEPT ![r] = t]
    BY <1>1 DEF Dial
<1>5. flight' = flight \cup {r}
    BY DEF Dial, AllowPassing, AllowFirstProbe, AllowProbe
<1> QED
    BY <1>3, <1>4, <1>5 DEF TurnMoves

\* So every step of a turn moves that turn alone.
LEMMA TurnMoved ==
    ASSUME GuardedIInv, NEW r \in Requests, TurnStep(r)
    PROVE  TurnMoves(r)
<1>1. turns[r] \in TurnType /\ turns \in [Requests -> TurnType]
    BY DEF GuardedIInv, GuardedTypeOK
<1>2. CASE Arrive(r)
    <2> DEFINE t == [left |-> Priority, conn |-> Nobody, end |-> "open"]
    <2>1. t \in TurnType /\ t.conn = Nobody
        BY LoopAssumption DEF TurnType
    <2>2. turns[r].conn = Nobody
        BY <1>2 DEF Arrive, GuardedIInv, WireOfOpenTurn
    <2> QED
        BY <1>2, <2>1, <2>2, ScanMoves DEF Arrive, vars
<1>3. ASSUME Scanning(r), UNCHANGED flight, NEW s \in Seq(Conns),
             turns' = [turns EXCEPT ![r].left = s]
      PROVE  TurnMoves(r)
    <2> DEFINE t == [turns[r] EXCEPT !.left = s]
    <2>1. t \in TurnType /\ t.conn = Nobody
        BY <1>1, <1>3 DEF TurnType, Scanning
    <2>2. turns' = [turns EXCEPT ![r] = t]
        BY <1>1, <1>3
    <2> QED
        BY <1>3, <2>1, <2>2, ScanMoves DEF Scanning
<1>4. CASE Refused(r)
    BY <1>3, <1>4, ChosenFacts DEF Refused, RefuseStalled, GuardedIInv
<1>5. CASE PassOver(r)
    <2>1. turns' = [turns EXCEPT ![r].left = Tail(turns[r].left)]
        BY <1>5, <1>1 DEF PassOver
    <2> QED
        BY <1>3, <1>5, <2>1, ChosenFacts DEF PassOver, vars, GuardedIInv
<1>6. CASE Exhausted(r)
    <2> DEFINE t == [turns[r] EXCEPT !.end = "failed"]
    <2>1. t \in TurnType /\ t.conn = Nobody
        BY <1>1, <1>6 DEF TurnType, Exhausted, Scanning
    <2>2. turns' = [turns EXCEPT ![r] = t]
        BY <1>1, <1>6 DEF Exhausted
    <2> QED
        BY <1>6, <2>1, <2>2, ScanMoves DEF Exhausted, Scanning, vars
<1>7. CASE TurnServed(r)
    BY <1>7, AnswerMoves DEF TurnServed, Reported, RecordSuccess
<1>8. CASE ProviderFails(r)
    BY <1>8, AnswerMoves DEF ProviderFails, RecordFailure
<1>9. CASE AccountFails(r) \/ RequestFails(r)
    BY <1>9, AnswerMoves DEF AccountFails, RequestFails, Unreported
<1> QED
    BY <1>2, DialMoves, <1>4, <1>5, <1>6, <1>7, <1>8, <1>9 DEF TurnStep

\* What it does to the breaker: the loop asks before an attempt, reports its answer
\* or reports nothing.
LEMMA TurnUsesBreaker ==
    ASSUME GuardedIInv, NEW r \in Requests, TurnStep(r)
    PROVE  \/ Allow(r) \/ Answer(r) \/ UNCHANGED vars
           \/ Unreported(r) /\ (recovered => SpentAccounts # {})
<1>1. CASE Dial(r) \/ Refused(r)
    <2>1. r \notin flight
        BY <1>1 DEF Dial, Refused, Scanning, GuardedIInv, GuardedTypeOK
    <2> QED
        BY <1>1, <2>1 DEF Dial, Refused, Allow, vars
<1>2. CASE TurnServed(r) \/ ProviderFails(r)
    BY <1>2 DEF TurnServed, Reported, ProviderFails, Answer
<1>3. CASE AccountFails(r) \/ RequestFails(r)
    BY <1>3 DEF AccountFails, RequestFails
<1>4. CASE Arrive(r) \/ PassOver(r) \/ Exhausted(r)
    BY <1>4 DEF Arrive, PassOver, Exhausted
<1> QED
    BY <1>1, <1>2, <1>3, <1>4 DEF TurnStep

\* The cooldowns stay within the longest.
LEMMA CooldownBounded ==
    ASSUME GuardedIInv, [GuardedNext]_guarded
    PROVE  cooldown' \in [Conns -> 0 .. MaxCooldown]
<1>1. cooldown \in [Conns -> 0 .. MaxCooldown] /\ MaxCooldown \in Nat
    BY LoopAssumption DEF GuardedIInv, GuardedTypeOK
<1>2. CASE UNCHANGED cooldown
    BY <1>1, <1>2
<1>3. ASSUME NEW c, Cools(c) PROVE cooldown' \in [Conns -> 0 .. MaxCooldown]
    <2>1. PICK n \in 1 .. MaxCooldown : cooldown' = [cooldown EXCEPT ![c] = n]
        BY <1>3 DEF Cools
    <2>2. n \in 0 .. MaxCooldown
        BY <1>1
    <2> QED
        BY <1>1, <2>1, <2>2
<1>4. ASSUME NEW r \in Requests, TurnServed(r) PROVE cooldown' \in [Conns -> 0 .. MaxCooldown]
    <2>1. 0 \in 0 .. MaxCooldown
        BY <1>1
    <2> QED
        BY <1>1, <1>4, <2>1 DEF TurnServed
<1>5. CASE GuardedTick
    <2>1. \A c \in Conns : (IF cooldown[c] > 0 THEN cooldown[c] - 1 ELSE 0) \in 0 .. MaxCooldown
        BY <1>1
    <2> QED
        BY <1>5, <2>1 DEF GuardedTick
<1>6. ASSUME NEW r \in Requests, TurnStep(r), cooldown' # cooldown, ~TurnServed(r)
      PROVE  \E c : Cools(c)
    BY <1>6 DEF TurnStep, Arrive, Dial, Refused, PassOver, Exhausted, ProviderFails,
        AccountFails, RequestFails
<1> QED
    BY <1>2, <1>3, <1>4, <1>5, <1>6 DEF GuardedNext, guarded

\* The loop starts with every turn over and no account cooled down.
LEMMA GuardedInitIInv == GuardedInit => GuardedIInv
<1> SUFFICES ASSUME GuardedInit PROVE GuardedIInv
    OBVIOUS
<1>1. IInv
    BY InitIInv DEF GuardedInit
<1>2. /\ turns \in [Requests -> TurnType]
      /\ \A r \in Requests : turns[r].conn = Nobody
    BY DEF GuardedInit, TurnType
<1>3. cooldown \in [Conns -> 0 .. MaxCooldown]
    BY LoopAssumption DEF GuardedInit
<1>4. flight = {}
    BY DEF GuardedInit, Init
<1> QED
    BY <1>1, <1>2, <1>3, <1>4 DEF IInv, GuardedIInv, GuardedTypeOK, WireOfOpenTurn

\* Every step keeps the invariant of the breaker, and the turns in line with it.
LEMMA GuardedNextIInv == GuardedIInv /\ [GuardedNext]_guarded => GuardedIInv'
<1> SUFFICES ASSUME GuardedIInv, [GuardedNext]_guarded PROVE GuardedIInv'
    OBVIOUS
<1>1. IInv
    BY DEF GuardedIInv, GuardedTypeOK, IInv
<1>2. IInv'
    <2>1. ASSUME NEW r \in Requests, TurnStep(r) PROVE IInv'
        <3>1. CASE Unreported(r)
            BY <1>1, <3>1 DEF Unreported, Answered, IInv, TypeOK, PlacesAddUp,
                NoProbesOutside, breaker, counters, clocks
        <3>2. CASE Allow(r) \/ Answer(r) \/ UNCHANGED vars
            BY <1>1, <3>2, NextIInv DEF Next
        <3> QED
            BY <2>1, <3>1, <3>2, TurnUsesBreaker
    <2>2. CASE GuardedTick \/ Reset \/ Recover \/ UNCHANGED guarded
        BY <1>1, <2>2, NextIInv DEF GuardedTick, Next, guarded
    <2> QED
        BY <2>1, <2>2 DEF GuardedNext
<1>3. /\ turns' \in [Requests -> TurnType]
      /\ \A q \in Requests : /\ (turns'[q].conn # Nobody) = (q \in flight')
                             /\ turns'[q].conn # Nobody => turns'[q].end = "open"
    <2>1. /\ turns \in [Requests -> TurnType]
          /\ \A q \in Requests : /\ (turns[q].conn # Nobody) = (q \in flight)
                                 /\ turns[q].conn # Nobody => turns[q].end = "open"
        BY DEF GuardedIInv, GuardedTypeOK, WireOfOpenTurn
    <2>2. ASSUME NEW r \in Requests, TurnStep(r) PROVE <1>3!:
        <3>1. PICK t \in TurnType :
                 /\ turns' = [turns EXCEPT ![r] = t]
                 /\ t.conn # Nobody => t.end = "open"
                 /\ flight' = IF t.conn # Nobody THEN flight \cup {r} ELSE flight \ {r}
            BY <2>2, TurnMoved DEF TurnMoves
        <3>2. turns'[r] = t /\ \A q \in Requests \ {r} : turns'[q] = turns[q]
            BY <2>1, <3>1
        <3>3. (t.conn # Nobody) = (r \in flight')
            BY <3>1
        <3> QED
            BY <2>1, <3>1, <3>2, <3>3
    <2>3. CASE UNCHANGED <<turns, flight>>
        BY <2>1, <2>3
    <2> QED
        BY <2>2, <2>3 DEF GuardedNext, GuardedTick, Tick, Reset, Recover, guarded, vars
<1> QED
    BY <1>2, <1>3, CooldownBounded DEF IInv, GuardedIInv, GuardedTypeOK, WireOfOpenTurn

\* Every state of the loop above the breaker satisfies the invariant.
THEOREM GuardedInvariance == GuardedSpec => []GuardedIInv
<1> QED
    BY GuardedInitIInv, GuardedNextIInv, PTL DEF GuardedSpec

\* The loop's own rows, cooldowns and turns keep their ranges, and the turns with a
\* connection are the requests that the breaker sees in flight.
THEOREM GuardedTypeCorrect == GuardedSpec => []GuardedTypeOK
<1>1. GuardedIInv => GuardedTypeOK
    BY DEF GuardedIInv
<1> QED
    BY <1>1, GuardedInvariance, PTL

\* A provider that is being tested gets at most HalfOpenRequests attempts, however many
\* turns, accounts and refusals there are above the breaker.
THEOREM GuardedProbesCapped == GuardedSpec => []ProbesBounded
<1>1. GuardedIInv => ProbesBounded
    BY OptionsAssumption
       DEF GuardedIInv, GuardedTypeOK, TypeOK, PlacesAddUp, NoProbesOutside, ProbesBounded
<1> QED
    BY <1>1, GuardedInvariance, PTL

\* The counters and clocks of the breaker below are the breaker's own.
LEMMA SameBreaker ==
    /\ Breaker!breaker = breaker /\ Breaker!breaker' = breaker'
    /\ \A r \in Requests :
        /\ AllowPassing(r) => Breaker!AllowPassing(r)
        /\ AllowFirstProbe(r) => Breaker!AllowFirstProbe(r)
        /\ AllowProbe(r) => Breaker!AllowProbe(r)
    /\ RefuseStalled => Breaker!RefuseStalled
<1> QED
    BY DEF Breaker!breaker, breaker, Breaker!counters, counters, Breaker!clocks, clocks,
        Breaker!AllowPassing, AllowPassing, Breaker!AllowFirstProbe, AllowFirstProbe,
        Breaker!AllowProbe, AllowProbe, Breaker!RefuseStalled, RefuseStalled,
        Breaker!ReopenNow, ReopenNow, Breaker!OpenNow, OpenNow,
        Breaker!effectiveTimeout, effectiveTimeout, Breaker!Saturated, Saturated

\* So are the two reports: neither looks at the recovery but to rule out a failure.
LEMMA SameAnswers ==
    ASSUME NEW r \in Requests
    PROVE  /\ RecordSuccess(r) => Breaker!RecordSuccess(r)
           /\ RecordFailure(r) => Breaker!RecordFailure(r)
<1>1. RecordSuccess(r) => Breaker!RecordSuccess(r)
    BY DEF RecordSuccess, Breaker!RecordSuccess, Answered, Breaker!Answered,
        Recovers, Breaker!Recovers, CloseNow, Breaker!CloseNow, Success, Breaker!Success,
        Saturated, Breaker!Saturated, clocks, Breaker!clocks
<1>2. RecordFailure(r) => Breaker!RecordFailure(r)
    BY DEF RecordFailure, Breaker!RecordFailure, Answered, Breaker!Answered,
        Failure, Breaker!Failure, Trips, Breaker!Trips, ReopenNow, Breaker!ReopenNow,
        OpenNow, Breaker!OpenNow, Saturated, Breaker!Saturated, clocks, Breaker!clocks,
        degradationThreshold, Breaker!degradationThreshold
<1> QED
    BY <1>1, <1>2

\* A step of a turn is a call of Allow, an answer, or nothing to the breaker.  The
\* answer that it never hears of is one that a provider which recovered does not
\* give: there is then a spent account, and for the breaker no recovery.
LEMMA TurnRefines ==
    ASSUME GuardedIInv, NEW r \in Requests, TurnStep(r)
    PROVE  Breaker!Allow(r) \/ Breaker!Answer(r) \/ UNCHANGED Breaker!vars
<1> DEFINE seen == recovered /\ SpentAccounts = {}
<1>1. CASE Allow(r)
    BY <1>1, SameBreaker DEF Allow, Breaker!Allow
<1>2. CASE Answer(r) /\ ~NotReported(r)
    BY <1>2, SameAnswers DEF Answer, Breaker!Answer
<1>3. CASE Unreported(r) /\ (recovered => SpentAccounts # {})
    <2>1. ~seen
        BY <1>3
    <2> QED
        BY <1>3, <2>1, SameBreaker DEF Unreported, Answered, Breaker!Answer, Breaker!NotReported,
            Breaker!Answered, breaker
<1>4. CASE UNCHANGED vars
    BY <1>4, SameBreaker DEF vars, Breaker!vars
<1> QED
    <2>1. NotReported(r) => Unreported(r) /\ ~recovered
        BY DEF NotReported, Unreported
    <2> QED
        BY <1>1, <1>2, <1>3, <1>4, <2>1, TurnUsesBreaker

\* Every step of the loop is a step of the breaker's own specification, or none.
LEMMA GuardedRefines == GuardedIInv /\ [GuardedNext]_guarded => [Breaker!Next]_(Breaker!vars)
<1> SUFFICES ASSUME GuardedIInv, [GuardedNext]_guarded
             PROVE  Breaker!Next \/ UNCHANGED Breaker!vars
    OBVIOUS
<1>1. ASSUME NEW r \in Requests, TurnStep(r)
      PROVE  Breaker!Next \/ UNCHANGED Breaker!vars
    BY <1>1, TurnRefines DEF Breaker!Next
<1>2. CASE GuardedTick
    BY <1>2 DEF GuardedTick, Tick, Breaker!Next, Breaker!Tick, Saturated, Breaker!Saturated,
        LongestTimeout, Breaker!LongestTimeout, counters, Breaker!counters
<1>3. CASE Reset
    BY <1>3 DEF Reset, Breaker!Next, Breaker!Reset, CloseNow, Breaker!CloseNow
<1>4. CASE Recover
    <2>1. CASE SpentAccounts = {}
        BY <1>4, <2>1, SameBreaker DEF Recover, Breaker!Next, Breaker!Recover
    <2>2. CASE SpentAccounts # {}
        BY <1>4, <2>2, SameBreaker DEF Recover, Breaker!vars
    <2> QED
        BY <2>1, <2>2
<1>5. CASE UNCHANGED guarded
    BY <1>5, SameBreaker DEF guarded, vars, Breaker!vars
<1> QED
    BY <1>1, <1>2, <1>3, <1>4, <1>5 DEF GuardedNext

\* resilienceAdmit and resilienceReport use the breaker as it expects: what is proved
\* of it, the bound on its probes first, holds below the failover loop.
THEOREM GuardedRefinement == GuardedSpec => LoopUsesBreaker
<1>1. GuardedInit => Breaker!Init
    BY DEF GuardedInit, Init, Breaker!Init
<1> QED
    BY <1>1, GuardedRefines, GuardedInvariance, PTL DEF GuardedSpec, LoopUsesBreaker, Breaker!Spec

------------------------------------------------------------------------------
(* The model-health loop and the operator's panel.                         *)

\* No request of the panel and no evaluation of the loop are open together.
OneAtATime == loop.stage = "next" \/ put.stage = "none"

\* What the loop has read is still so when it writes.
LoopCopies ==
    /\ loop.stage = "probing" => loop.prior = row[Model]
    /\ loop.stage = "save" => loop.ids = disabled
    /\ loop.stage \in {"reread", "mark"} /\ loop.to = "on" => Model \notin disabled

\* And what the request has read; it clears no mark of a model that is off.
RequestCopies ==
    /\ put.stage = "saving" => put.prev = disabled
    /\ put.stage \in {"reporting", "clearing"} => put.prev \cap disabled = {}
    /\ put.stage = "clearing" => put.model \notin disabled

OwnerInv == ~raced => OneAtATime /\ LoopCopies /\ RequestCopies

\* The counter rows lag behind the streaks, whatever old copies are written back, and
\* what is on its way to the list was decided on a streak that is still the same.
StreakInv ==
    /\ \A m \in Watched : row[m].count <= streak[m]
    /\ loop.stage \in {"probing", "mark"} => loop.prior.count <= streak[Model]
    /\ loop.stage \in {"list", "save", "reread", "mark"} => loop.to \in {"on", "off"}
    /\ loop.stage \in {"list", "save"} /\ loop.to = "off" => streak[Model] = Threshold
    /\ loop.stage \in {"list", "save"} /\ loop.to = "on" => streak[Model] = 0 /\ autoEnable

HealthIInv == HealthTypeOK /\ OwnerInv /\ DisabledHasOwner /\ StreakInv

\* Every position of the loop has its model.
LEMMA CandidateFacts ==
    /\ Len(Candidates) \in Nat \ {0} /\ DOMAIN Candidates = 1 .. Len(Candidates)
    /\ \A i \in DOMAIN Candidates : Candidates[i] \in Watched
BY HealthAssumption DEF Watched, ToSet

\* The loop goes round: after the last candidate comes the first.
LEMMA DoneRests ==
    ASSUME loop \in LoopType
    PROVE  Done \in LoopType /\ Done.stage = "next" /\ LoopRests \in LoopType
<1>1. 1 + (loop.pos % Len(Candidates)) \in DOMAIN Candidates
    <2>1. \A n \in Nat, k \in Nat \ {0} : n % k \in 0 .. k - 1
        OBVIOUS
    <2>2. loop.pos \in Nat
        BY CandidateFacts DEF LoopType
    <2>3. loop.pos % Len(Candidates) \in 0 .. Len(Candidates) - 1
        BY <2>1, <2>2, CandidateFacts
    <2> QED
        BY <2>3, CandidateFacts
<1>2. FreshRow \in Row
    BY HealthAssumption DEF FreshRow, Row
<1> QED
    BY <1>1, <1>2, CandidateFacts DEF Done, LoopRests, LoopType

\* What the verdicts and the marks make of a row.
LEMMA RowFacts ==
    ASSUME NEW r \in Row
    PROVE  /\ Passed(r) \in Row /\ Passed(r).count = 0 /\ Passed(r).mark = r.mark
           /\ Counted(r) \in Row /\ Counted(r).mark = r.mark
           /\ Counted(r).count = IF r.count < Threshold THEN r.count + 1 ELSE r.count
           /\ Marked(r) \in Row /\ Marked(r).mark /\ Marked(r).count = r.count
           /\ ClearSchedulerMark(r) \in Row /\ ClearSchedulerMark(r).count = 0
           /\ r.count \in 0 .. Threshold
<1>1. r.count \in 0 .. Threshold /\ r.mark \in BOOLEAN /\ r.probed \in BOOLEAN /\ Threshold \in Nat
    BY HealthAssumption DEF Row
<1>2. Passed(r).count = 0 /\ Passed(r).mark = r.mark
    BY DEF Row, Passed
<1>3. Marked(r) \in Row /\ Marked(r).mark /\ Marked(r).count = r.count
    BY <1>1 DEF Row, Marked
<1>4. ClearSchedulerMark(r).count = 0
    BY DEF Row, ClearSchedulerMark
<1>5. /\ Counted(r).mark = r.mark
      /\ Counted(r).count = IF r.count < Threshold THEN r.count + 1 ELSE r.count
    BY DEF Row, Counted
<1>6. \A n \in 0 .. Threshold :
        /\ [r EXCEPT !.count = n] \in Row
        /\ [[r EXCEPT !.count = n] EXCEPT !.probed = TRUE] \in Row
    <2> TAKE n \in 0 .. Threshold
    <2>1. \A s \in Row : [s EXCEPT !.probed = TRUE] \in Row
        BY DEF Row
    <2>2. [r EXCEPT !.count = n] \in Row
        BY DEF Row
    <2> QED
        BY <2>1, <2>2
<1>7. Passed(r) \in Row
    <2>1. PICK n \in 0 .. Threshold : n = 0
        BY <1>1
    <2>2. Passed(r) = [[r EXCEPT !.count = n] EXCEPT !.probed = TRUE]
        BY <2>1 DEF Passed
    <2> QED
        BY <1>6, <2>2
<1>8. ClearSchedulerMark(r) \in Row
    <2>1. \A s \in Row : [s EXCEPT !.mark = FALSE] \in Row
        BY DEF Row
    <2>2. ClearSchedulerMark(r) = [[r EXCEPT !.mark = FALSE] EXCEPT !.count = 0]
        BY DEF ClearSchedulerMark
    <2>3. \A s \in Row : [s EXCEPT !.count = 0] \in Row
        BY <1>1 DEF Row
    <2> QED
        BY <2>1, <2>2, <2>3
<1>9. Counted(r) \in Row
    <2> DEFINE n == IF r.count < Threshold THEN r.count + 1 ELSE r.count
    <2>1. n \in 0 .. Threshold
        BY <1>1
    <2>2. Counted(r) = [[r EXCEPT !.count = n] EXCEPT !.probed = TRUE]
        BY DEF Counted
    <2> QED
        BY <1>6, <2>1, <2>2
<1> QED
    BY <1>1, <1>2, <1>3, <1>4, <1>5, <1>7, <1>8, <1>9

\* The rows as they are written: of one model, the others keep theirs.
LEMMA RowWritten ==
    ASSUME HealthTypeOK, NEW m \in Watched, NEW r \in Row,
           row' = [row EXCEPT ![m] = r]
    PROVE  /\ row' \in [Watched -> Row] /\ row'[m] = r
           /\ \A n \in Watched \ {m} : row'[n] = row[n]
BY DEF HealthTypeOK

\* Between two requests the panel has nothing in hand.
LEMMA NoRequestTyped == NoRequest \in RequestType
<1>1. FreshRow \in Row
    BY HealthAssumption DEF FreshRow, Row
<1> QED
    BY <1>1, CandidateFacts DEF NoRequest, RequestType

\* At the start no model is off, and nothing is under way.
LEMMA HealthInitIInv == HealthInit => HealthIInv
<1> SUFFICES ASSUME HealthInit PROVE HealthIInv
    OBVIOUS
<1>1. FreshRow \in Row /\ FreshRow.count = 0
    BY HealthAssumption DEF FreshRow, Row
<1>2. LoopRests \in LoopType /\ NoRequest \in RequestType
    BY <1>1, CandidateFacts DEF LoopRests, NoRequest, LoopType, RequestType
<1>3. loop.stage = "next" /\ put.stage = "none"
    BY DEF HealthInit, LoopRests, NoRequest
<1>4. HealthTypeOK
    <2>1. /\ row \in [Watched -> Row] /\ streak \in [Watched -> 0 .. Threshold]
          /\ loop \in LoopType /\ put \in RequestType /\ restarts \in 0 .. MaxRestarts
        BY <1>1, <1>2, HealthAssumption DEF HealthInit
    <2>2. /\ {autoEnable, healthy, raced} \subseteq BOOLEAN
          /\ disabled \subseteq Watched /\ byHand \subseteq Watched
        BY DEF HealthInit
    <2> QED
        BY <2>1, <2>2 DEF HealthTypeOK
<1>5. OwnerInv /\ DisabledHasOwner
    BY <1>3 DEF HealthInit, OwnerInv, OneAtATime, LoopCopies, RequestCopies, DisabledHasOwner
<1>6. StreakInv
    BY <1>1, <1>3 DEF HealthInit, StreakInv
<1> QED
    BY <1>4, <1>5, <1>6 DEF HealthIInv

\* The loop takes the next candidate, or passes over it.
LEMMA EvaluateInv == HealthIInv /\ Evaluate => HealthIInv'
<1> SUFFICES ASSUME HealthIInv, Evaluate PROVE HealthIInv'
    OBVIOUS
<1> USE DEF HealthIInv, HealthTypeOK
<1>1. Model \in Watched /\ row[Model] \in Row
    BY CandidateFacts DEF Model, LoopType
<1>2. loop' = Done \/ loop' = [loop EXCEPT !.stage = "probing", !.prior = row[Model]]
    BY DEF Evaluate
<1>3. /\ loop' \in LoopType
      /\ \/ loop'.stage = "next"
         \/ loop'.stage = "probing" /\ loop'.prior = row[Model] /\ loop'.pos = loop.pos
    <2>1. CASE loop' = Done
        BY <2>1, DoneRests
    <2>2. CASE loop' = [loop EXCEPT !.stage = "probing", !.prior = row[Model]]
        BY <1>1, <2>2 DEF LoopType
    <2> QED
        BY <1>2, <2>1, <2>2
<1>4. HealthTypeOK'
    BY <1>3 DEF Evaluate, panel
<1>5. OwnerInv' /\ DisabledHasOwner'
    BY <1>3 DEF Evaluate, panel, OwnerInv, OneAtATime, LoopCopies, RequestCopies,
        DisabledHasOwner, Model
<1>6. StreakInv'
    BY <1>1, <1>3 DEF Evaluate, StreakInv, Model
<1> QED
    BY <1>4, <1>5, <1>6

\* A probe that passed.
LEMMA onSuccessInv == HealthIInv /\ onSuccess => HealthIInv'
<1> SUFFICES ASSUME HealthIInv, onSuccess PROVE HealthIInv'
    OBVIOUS
<1> USE DEF HealthIInv, HealthTypeOK
<1>1. Model \in Watched /\ loop.prior \in Row
    BY CandidateFacts DEF Model, LoopType
<1>2. /\ row' \in [Watched -> Row] /\ row'[Model] = Passed(loop.prior)
      /\ \A n \in Watched \ {Model} : row'[n] = row[n]
    BY <1>1, RowFacts, RowWritten DEF onSuccess
<1>3. /\ loop' \in LoopType
      /\ \/ loop'.stage = "next"
         \/ loop'.stage = "list" /\ loop'.to = "on" /\ loop'.pos = loop.pos /\ autoEnable
    <2>1. CASE loop' = Done
        BY <2>1, DoneRests
    <2>2. CASE loop' # Done
        <3>1. loop' = [loop EXCEPT !.stage = "list", !.to = "on"]
            BY <2>2 DEF onSuccess
        <3>2. loop' \in LoopType /\ loop'.stage = "list" /\ loop'.to = "on" /\ loop'.pos = loop.pos
            BY <3>1 DEF LoopType
        <3> QED
            BY <2>2, <3>2 DEF onSuccess
    <2> QED
        BY <2>1, <2>2
<1>4. /\ streak' \in [Watched -> 0 .. Threshold] /\ streak'[Model] = 0
      /\ \A n \in Watched \ {Model} : streak'[n] = streak[n]
    BY <1>1, HealthAssumption DEF onSuccess
<1>5. HealthTypeOK'
    BY <1>2, <1>3, <1>4 DEF onSuccess, panel
<1>6. OwnerInv' /\ DisabledHasOwner'
    <2> SUFFICES ASSUME ~raced PROVE OwnerInv' /\ DisabledHasOwner'
        BY DEF OwnerInv, DisabledHasOwner, onSuccess
    <2>1. loop.prior = row[Model] /\ put.stage = "none"
        BY DEF OwnerInv, OneAtATime, LoopCopies, onSuccess
    <2>2. row'[Model].mark = row[Model].mark
        BY <1>1, <1>2, <2>1, RowFacts
    <2>3. DisabledHasOwner'
        BY <1>2, <2>2 DEF DisabledHasOwner, onSuccess, panel
    <2> QED
        BY <1>3, <2>1, <2>3 DEF OwnerInv, OneAtATime, LoopCopies, RequestCopies, onSuccess, panel
<1>7. StreakInv'
    <2>1. \A m \in Watched : row'[m].count <= streak'[m]
        BY <1>1, <1>2, <1>4, RowFacts DEF StreakInv
    <2> QED
        BY <1>3, <1>4, <2>1 DEF StreakInv, Model, onSuccess
<1> QED
    BY <1>5, <1>6, <1>7

\* A probe that failed.
LEMMA onFailureInv == HealthIInv /\ onFailure => HealthIInv'
<1> SUFFICES ASSUME HealthIInv, onFailure PROVE HealthIInv'
    OBVIOUS
<1> USE DEF HealthIInv, HealthTypeOK
<1>1. Model \in Watched /\ loop.prior \in Row
    BY CandidateFacts DEF Model, LoopType
<1>2. /\ row' \in [Watched -> Row] /\ row'[Model] = Counted(loop.prior)
      /\ \A n \in Watched \ {Model} : row'[n] = row[n]
    BY <1>1, RowFacts, RowWritten DEF onFailure
<1>3. /\ loop' \in LoopType
      /\ \/ loop'.stage = "next"
         \/ /\ loop'.stage = "list" /\ loop'.to = "off" /\ loop'.pos = loop.pos
            /\ Counted(loop.prior).count >= Threshold
    <2>1. CASE loop' = Done
        BY <2>1, DoneRests
    <2>2. CASE loop' # Done
        <3>1. loop' = [loop EXCEPT !.stage = "list", !.to = "off"]
            BY <2>2 DEF onFailure
        <3>2. loop' \in LoopType /\ loop'.stage = "list" /\ loop'.to = "off" /\ loop'.pos = loop.pos
            BY <3>1 DEF LoopType
        <3> QED
            BY <2>2, <3>2 DEF onFailure
    <2> QED
        BY <2>1, <2>2
<1>4. /\ streak' \in [Watched -> 0 .. Threshold]
      /\ streak'[Model] = IF streak[Model] < Threshold THEN streak[Model] + 1 ELSE streak[Model]
      /\ \A n \in Watched \ {Model} : streak'[n] = streak[n]
    BY <1>1, HealthAssumption DEF onFailure
<1>5. HealthTypeOK'
    BY <1>2, <1>3, <1>4 DEF onFailure, panel
<1>6. OwnerInv' /\ DisabledHasOwner'
    <2> SUFFICES ASSUME ~raced PROVE OwnerInv' /\ DisabledHasOwner'
        BY DEF OwnerInv, DisabledHasOwner, onFailure
    <2>1. loop.prior = row[Model] /\ put.stage = "none"
        BY DEF OwnerInv, OneAtATime, LoopCopies, onFailure
    <2>2. row'[Model].mark = row[Model].mark
        BY <1>1, <1>2, <2>1, RowFacts
    <2>3. DisabledHasOwner'
        BY <1>2, <2>2 DEF DisabledHasOwner, onFailure, panel
    <2> QED
        BY <1>3, <2>1, <2>3 DEF OwnerInv, OneAtATime, LoopCopies, RequestCopies, onFailure, panel
<1>7. StreakInv'
    <2>1. /\ loop.prior.count \in 0 .. Threshold /\ streak[Model] \in 0 .. Threshold
          /\ loop.prior.count <= streak[Model]
        BY <1>1, RowFacts DEF StreakInv, onFailure
    <2>2. /\ row'[Model].count <= streak'[Model]
          /\ Counted(loop.prior).count >= Threshold => streak'[Model] = Threshold
        BY <1>1, <1>2, <1>4, <2>1, RowFacts, HealthAssumption
    <2>3. \A m \in Watched : row'[m].count <= streak'[m]
        BY <1>1, <1>2, <1>4, <2>2 DEF StreakInv
    <2> QED
        BY <1>3, <2>2, <2>3 DEF StreakInv, Model, onFailure
<1> QED
    BY <1>5, <1>6, <1>7

\* The list is read, and saved.
LEMMA ReadListInv == HealthIInv /\ ReadList => HealthIInv'
<1> SUFFICES ASSUME HealthIInv, ReadList PROVE HealthIInv'
    OBVIOUS
<1> USE DEF HealthIInv, HealthTypeOK
<1>1. /\ loop' \in LoopType /\ loop'.stage = "save" /\ loop'.ids = disabled
      /\ loop'.pos = loop.pos /\ loop'.to = loop.to /\ loop'.prior = loop.prior
    BY DEF ReadList, LoopType
<1>2. HealthTypeOK'
    BY <1>1 DEF ReadList, panel
<1>3. OwnerInv' /\ DisabledHasOwner'
    BY <1>1 DEF ReadList, panel, OwnerInv, OneAtATime, LoopCopies, RequestCopies,
        DisabledHasOwner, Model
<1>4. StreakInv'
    BY <1>1 DEF ReadList, StreakInv, Model
<1> QED
    BY <1>2, <1>3, <1>4

\* What it switches off is its own until the mark says so; what it switches on was.
LEMMA SaveListInv == HealthIInv /\ SaveList => HealthIInv'
<1> SUFFICES ASSUME HealthIInv, SaveList PROVE HealthIInv'
    OBVIOUS
<1> USE DEF HealthIInv, HealthTypeOK
<1>1. Model \in Watched /\ loop.ids \subseteq Watched
    BY CandidateFacts DEF Model, LoopType
<1>2. /\ loop' \in LoopType /\ loop'.stage = "reread"
      /\ loop'.pos = loop.pos /\ loop'.to = loop.to /\ loop'.prior = loop.prior
    BY DEF SaveList, LoopType
<1>3. HealthTypeOK'
    BY <1>1, <1>2 DEF SaveList, panel
<1>4. OwnerInv' /\ DisabledHasOwner'
    <2> SUFFICES ASSUME ~raced PROVE OwnerInv' /\ DisabledHasOwner'
        BY DEF OwnerInv, DisabledHasOwner, SaveList
    <2>1. loop.ids = disabled /\ put.stage = "none" /\ loop.to \in {"on", "off"}
        BY DEF OwnerInv, OneAtATime, LoopCopies, StreakInv, SaveList
    <2>2. \/ loop.to = "off" /\ disabled' = disabled \cup {Model}
          \/ loop.to = "on" /\ disabled' = disabled \ {Model}
        BY <2>1 DEF SaveList
    <2> QED
        BY <1>2, <2>1, <2>2 DEF SaveList, panel, OwnerInv, OneAtATime, LoopCopies,
            RequestCopies, DisabledHasOwner, Model
<1>5. StreakInv'
    BY <1>2 DEF SaveList, StreakInv, Model
<1> QED
    BY <1>3, <1>4, <1>5

\* The counter row is read again, and written with the mark or without it.
LEMMA ReadRowInv == HealthIInv /\ ReadRow => HealthIInv'
<1> SUFFICES ASSUME HealthIInv, ReadRow PROVE HealthIInv'
    OBVIOUS
<1> USE DEF HealthIInv, HealthTypeOK
<1>1. Model \in Watched /\ row[Model] \in Row
    BY CandidateFacts DEF Model, LoopType
<1>2. /\ loop' \in LoopType /\ loop'.stage = "mark"
      /\ loop'.pos = loop.pos /\ loop'.to = loop.to /\ loop'.prior = row[Model]
    BY <1>1 DEF ReadRow, LoopType
<1>3. HealthTypeOK'
    BY <1>2 DEF ReadRow, panel
<1>4. OwnerInv' /\ DisabledHasOwner'
    BY <1>2 DEF ReadRow, panel, OwnerInv, OneAtATime, LoopCopies, RequestCopies,
        DisabledHasOwner, Model
<1>5. StreakInv'
    BY <1>1, <1>2 DEF ReadRow, StreakInv, Model
<1> QED
    BY <1>3, <1>4, <1>5

\* The mark is written after the list: from here on the row says whose it is.
LEMMA WriteMarkInv == HealthIInv /\ WriteMark => HealthIInv'
<1> SUFFICES ASSUME HealthIInv, WriteMark PROVE HealthIInv'
    OBVIOUS
<1> USE DEF HealthIInv, HealthTypeOK
<1>1. Model \in Watched /\ loop.prior \in Row
    BY CandidateFacts DEF Model, LoopType
<1> DEFINE written == IF loop.to = "off" THEN Marked(loop.prior)
                      ELSE ClearSchedulerMark(loop.prior)
<1>2. /\ row' \in [Watched -> Row] /\ row'[Model] = written
      /\ \A n \in Watched \ {Model} : row'[n] = row[n]
    <2>1. written \in Row /\ row' = [row EXCEPT ![Model] = written]
        BY <1>1, RowFacts DEF WriteMark
    <2> QED
        BY <1>1, <2>1, RowWritten
<1>3. loop' \in LoopType /\ loop'.stage = "next"
    BY DoneRests DEF WriteMark
<1>4. HealthTypeOK'
    BY <1>2, <1>3 DEF WriteMark, panel
<1>5. OwnerInv' /\ DisabledHasOwner'
    <2> SUFFICES ASSUME ~raced PROVE OwnerInv' /\ DisabledHasOwner'
        BY DEF OwnerInv, DisabledHasOwner, WriteMark
    <2>1. /\ put.stage = "none"
          /\ row'[Model].mark \/ Model \notin disabled
        BY <1>1, <1>2, RowFacts DEF OwnerInv, OneAtATime, LoopCopies, StreakInv, WriteMark
    <2>2. DisabledHasOwner'
        BY <1>2, <1>3, <2>1 DEF DisabledHasOwner, WriteMark, panel
    <2> QED
        BY <1>3, <2>1, <2>2 DEF OwnerInv, OneAtATime, LoopCopies, RequestCopies,
            WriteMark, panel
<1>6. StreakInv'
    <2>1. row'[Model].count <= streak[Model]
        BY <1>1, <1>2, RowFacts DEF StreakInv, WriteMark
    <2> QED
        BY <1>2, <1>3, <2>1 DEF StreakInv, WriteMark
<1> QED
    BY <1>4, <1>5, <1>6

\* The panel reads the list, and overwrites it.
LEMMA ReadPreviousInv ==
    ASSUME HealthIInv, NEW next \in SUBSET Watched, ReadPrevious(next)
    PROVE  HealthIInv'
<1> USE DEF HealthIInv, HealthTypeOK
<1>1. /\ put' \in RequestType /\ put'.stage = "saving" /\ put'.prev = disabled
    BY DEF ReadPrevious, RequestType
<1>2. HealthTypeOK'
    BY <1>1 DEF ReadPrevious
<1>3. OwnerInv' /\ DisabledHasOwner'
    BY <1>1 DEF ReadPrevious, OwnerInv, OneAtATime, LoopCopies, RequestCopies,
        DisabledHasOwner, Model
<1>4. StreakInv'
    BY DEF ReadPrevious, StreakInv, Model
<1> QED
    BY <1>2, <1>3, <1>4

\* What the request adds to the list becomes the operator's.
LEMMA SaveRequestInv == HealthIInv /\ SaveRequest => HealthIInv'
<1> SUFFICES ASSUME HealthIInv, SaveRequest PROVE HealthIInv'
    OBVIOUS
<1> USE DEF HealthIInv, HealthTypeOK
<1>1. put.next \subseteq Watched /\ put.prev \subseteq Watched
    BY DEF RequestType
<1>2. put' \in RequestType /\ put'.stage = "reporting" /\ put'.prev = put.prev \ put.next
    BY DEF SaveRequest, RequestType
<1>3. HealthTypeOK'
    BY <1>1, <1>2 DEF SaveRequest
<1>4. OwnerInv' /\ DisabledHasOwner'
    <2> SUFFICES ASSUME ~raced PROVE OwnerInv' /\ DisabledHasOwner'
        BY DEF OwnerInv, DisabledHasOwner, SaveRequest
    <2>1. loop.stage = "next" /\ put.prev = disabled
        BY DEF OwnerInv, OneAtATime, RequestCopies, SaveRequest
    <2>2. DisabledHasOwner'
        BY <2>1 DEF DisabledHasOwner, SaveRequest
    <2> QED
        BY <1>2, <2>1, <2>2 DEF OwnerInv, OneAtATime, LoopCopies, RequestCopies, SaveRequest
<1>5. StreakInv'
    BY DEF SaveRequest, StreakInv, Model
<1> QED
    BY <1>3, <1>4, <1>5

\* It reports the models that the operator switched on, one by one.
LEMMA ReadReportedInv ==
    ASSUME HealthIInv, NEW m \in Watched, ReadReported(m)
    PROVE  HealthIInv'
<1> USE DEF HealthIInv, HealthTypeOK
<1>1. row[m] \in Row /\ put.prev \subseteq Watched
    BY DEF RequestType
<1>2. /\ put' \in RequestType /\ put'.stage = "clearing" /\ put'.prev = put.prev \ {m}
      /\ put'.model = m
    <2>1. put' = [[put EXCEPT !.stage = "clearing", !.prev = @ \ {m}]
                     EXCEPT !.copy = row[m], !.model = m]
        BY DEF ReadReported
    <2>2. [put EXCEPT !.stage = "clearing", !.prev = @ \ {m}] \in RequestType
        BY <1>1 DEF RequestType
    <2>3. \A p \in RequestType : [p EXCEPT !.copy = row[m], !.model = m] \in RequestType
        BY <1>1 DEF RequestType
    <2>4. put'.stage = "clearing" /\ put'.prev = put.prev \ {m} /\ put'.model = m
        BY DEF ReadReported, RequestType
    <2> QED
        BY <2>1, <2>2, <2>3, <2>4
<1>3. HealthTypeOK'
    BY <1>2 DEF ReadReported
<1>4. OwnerInv' /\ DisabledHasOwner'
    BY <1>2 DEF ReadReported, OwnerInv, OneAtATime, LoopCopies, RequestCopies,
        DisabledHasOwner, Model
<1>5. StreakInv'
    BY DEF ReadReported, StreakInv, Model
<1> QED
    BY <1>3, <1>4, <1>5

\* A mark is cleared of a model that is on: nobody has to undo anything there.
LEMMA ClearReportedInv == HealthIInv /\ ClearReported => HealthIInv'
<1> SUFFICES ASSUME HealthIInv, ClearReported PROVE HealthIInv'
    OBVIOUS
<1> USE DEF HealthIInv, HealthTypeOK
<1>1. put.model \in Watched /\ put.copy \in Row
    BY DEF RequestType
<1>2. /\ row' \in [Watched -> Row] /\ row'[put.model].count = 0
      /\ \A n \in Watched \ {put.model} : row'[n] = row[n]
    BY <1>1, RowFacts, RowWritten DEF ClearReported
<1>3. put' \in RequestType /\ put'.stage = "reporting" /\ put'.prev = put.prev
    BY DEF ClearReported, RequestType
<1>4. HealthTypeOK'
    BY <1>2, <1>3 DEF ClearReported
<1>5. OwnerInv' /\ DisabledHasOwner'
    <2> SUFFICES ASSUME ~raced PROVE OwnerInv' /\ DisabledHasOwner'
        BY DEF OwnerInv, DisabledHasOwner, ClearReported
    <2>1. /\ loop.stage = "next" /\ put.prev \cap disabled = {}
          /\ put.model \notin disabled
        BY DEF OwnerInv, OneAtATime, RequestCopies, ClearReported
    <2>2. DisabledHasOwner'
        BY <1>2, <2>1 DEF DisabledHasOwner, ClearReported
    <2> QED
        BY <1>3, <2>1, <2>2 DEF OwnerInv, OneAtATime, LoopCopies, RequestCopies, ClearReported
<1>6. StreakInv'
    <2>1. \A m \in Watched : row'[m].count <= streak[m]
        BY <1>1, <1>2 DEF StreakInv
    <2> QED
        BY <2>1 DEF ClearReported, StreakInv, Model
<1> QED
    BY <1>4, <1>5, <1>6

\* Nothing is left of a request that ends.
LEMMA RequestEndsInv == HealthIInv /\ RequestEnds => HealthIInv'
<1> SUFFICES ASSUME HealthIInv, RequestEnds PROVE HealthIInv'
    OBVIOUS
<1> USE DEF HealthIInv, HealthTypeOK
<1>1. put' \in RequestType /\ put'.stage = "none"
    BY NoRequestTyped DEF RequestEnds, NoRequest
<1>2. HealthTypeOK'
    BY <1>1 DEF RequestEnds
<1>3. OwnerInv' /\ DisabledHasOwner'
    BY <1>1 DEF RequestEnds, OwnerInv, OneAtATime, LoopCopies, RequestCopies,
        DisabledHasOwner, Model
<1>4. StreakInv'
    BY DEF RequestEnds, StreakInv, Model
<1> QED
    BY <1>2, <1>3, <1>4

\* The process starts again with the rows that were written.
LEMMA RestartInv == HealthIInv /\ Restart => HealthIInv'
<1> SUFFICES ASSUME HealthIInv, Restart PROVE HealthIInv'
    OBVIOUS
<1> USE DEF HealthIInv, HealthTypeOK
<1>1. /\ loop' \in LoopType /\ loop'.stage = "next"
      /\ put' \in RequestType /\ put'.stage = "none"
    BY NoRequestTyped, DoneRests DEF Restart, NoRequest, LoopRests
<1>2. HealthTypeOK'
    BY <1>1, HealthAssumption DEF Restart
<1>3. OwnerInv' /\ DisabledHasOwner'
    BY <1>1 DEF Restart, OwnerInv, OneAtATime, LoopCopies, RequestCopies, DisabledHasOwner
<1>4. StreakInv'
    BY <1>1 DEF Restart, StreakInv
<1> QED
    BY <1>2, <1>3, <1>4

\* The operator's switch and the provider's recovery disturb nothing.
LEMMA OutsideInv == HealthIInv /\ (SwitchAutoEnable \/ Heal \/ UNCHANGED health) => HealthIInv'
<1> SUFFICES ASSUME HealthIInv, SwitchAutoEnable \/ Heal \/ UNCHANGED health PROVE HealthIInv'
    OBVIOUS
<1>1. /\ UNCHANGED <<disabled, row, loop, put, byHand, restarts, raced, streak>>
      /\ autoEnable => autoEnable'
    BY DEF SwitchAutoEnable, Heal, health, panel
<1>2. HealthTypeOK'
    <2>1. autoEnable' \in {TRUE, autoEnable} /\ healthy' \in {TRUE, healthy}
        BY DEF SwitchAutoEnable, Heal, health
    <2>2. {autoEnable', healthy'} \subseteq BOOLEAN
        BY <2>1 DEF HealthIInv, HealthTypeOK
    <2> QED
        BY <1>1, <2>2 DEF HealthIInv, HealthTypeOK
<1>3. OwnerInv' /\ DisabledHasOwner' /\ StreakInv'
    BY <1>1 DEF HealthIInv, OwnerInv, OneAtATime, LoopCopies, RequestCopies,
        DisabledHasOwner, StreakInv, Model
<1> QED
    BY <1>2, <1>3 DEF HealthIInv

\* Every step keeps the invariant.
LEMMA HealthNextIInv == HealthIInv /\ [HealthNext]_health => HealthIInv'
<1> SUFFICES ASSUME HealthIInv, [HealthNext]_health PROVE HealthIInv'
    OBVIOUS
<1>1. CASE Pass
    BY <1>1, EvaluateInv, onSuccessInv, onFailureInv, ReadListInv, SaveListInv,
        ReadRowInv, WriteMarkInv DEF Pass
<1>2. CASE Request
    <2>1. ASSUME NEW next \in SUBSET Watched, MergeRequest(next) PROVE HealthIInv'
        <3>1. disabled \cup next \in SUBSET Watched
            BY DEF HealthIInv, HealthTypeOK
        <3> QED
            BY <2>1, <3>1, ReadPreviousInv DEF MergeRequest
    <2> QED
        BY <1>2, <2>1, ReadPreviousInv, SaveRequestInv, ReadReportedInv, ClearReportedInv,
            RequestEndsInv DEF Request
<1>3. CASE Restart
    BY <1>3, RestartInv
<1> QED
    BY <1>1, <1>2, <1>3, OutsideInv DEF HealthNext

\* Every state of the loop, the panel and their rows satisfies it.
THEOREM HealthInvariance == HealthSpec => []HealthIInv
<1> QED
    BY HealthInitIInv, HealthNextIInv, PTL DEF HealthSpec

\* The rows, the loop's copies and the panel's keep their ranges, the counters at most
\* the threshold.
THEOREM HealthTypeCorrect == HealthSpec => []HealthTypeOK
<1>1. HealthIInv => HealthTypeOK
    BY DEF HealthIInv
<1> QED
    BY <1>1, HealthInvariance, PTL

\* While no request and no crash cuts into an evaluation, every model that is off is the
\* operator's, marked by the loop, or about to be marked: no model stays off unowned.
THEOREM NoModelLost == HealthSpec => []DisabledHasOwner
<1>1. HealthIInv => DisabledHasOwner
    BY DEF HealthIInv
<1> QED
    BY <1>1, HealthInvariance, PTL

\* The loop switches a model off after Threshold failing probes in a row and no sooner,
\* and on after a passing one with auto-enable, whatever overlaps and restarts.
THEOREM ListChangesEarned == HealthSpec => ChangesEarned
<1> DEFINE Earned ==
        loop' # loop => \A m \in Watched : (m \in disabled) # (m \in disabled') =>
            IF m # Model THEN raced
            ELSE IF m \in disabled' THEN streak[m] = Threshold
            ELSE streak[m] = 0 /\ autoEnable
<1>1. HealthIInv /\ [HealthNext]_health => [Earned]_health
    <2> SUFFICES ASSUME HealthIInv, [HealthNext]_health, loop' # loop,
                        NEW m \in Watched, (m \in disabled) # (m \in disabled')
                 PROVE  IF m # Model THEN raced
                        ELSE IF m \in disabled' THEN streak[m] = Threshold
                        ELSE streak[m] = 0 /\ autoEnable
        OBVIOUS
    <2>1. SaveList
        BY DEF HealthNext, Pass, Request, Evaluate, onSuccess, onFailure, ReadList, ReadRow,
            WriteMark, ReadPrevious, MergeRequest, SaveRequest, ReadReported, ClearReported,
            RequestEnds, SwitchAutoEnable, Heal, Restart, health
    <2>2. ~raced => loop.ids = disabled
        BY <2>1 DEF HealthIInv, OwnerInv, LoopCopies, SaveList
    <2>3. \/ loop.to = "off" /\ disabled' = loop.ids \cup {Model} /\ streak[Model] = Threshold
          \/ /\ loop.to = "on" /\ disabled' = loop.ids \ {Model}
             /\ streak[Model] = 0 /\ autoEnable
        BY <2>1 DEF HealthIInv, StreakInv, SaveList
    <2> QED
        BY <2>2, <2>3
<1> QED
    BY <1>1, HealthInvariance, PTL DEF HealthSpec, ChangesEarned
============================================================================
