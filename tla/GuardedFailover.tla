--------------------------- MODULE GuardedFailover ---------------------------
(***************************************************************************)
(* The failover loop above the breaker of its provider: every attempt of a *)
(* turn asks the breaker first, and a refusal, a 503 that the gateway      *)
(* makes up itself, cools the account down like one of the provider's.     *)
(*                                                                         *)
(* CircuitBreaker is taken as it is, each turn being one of its requests.  *)
(* The loop is the one of AccountFallback, with one model, one egress, no  *)
(* session and no rotation, and with an answer and what it writes on the   *)
(* account's row in one step.                                              *)
(***************************************************************************)
EXTENDS CircuitBreaker, Selection, SequencesExt

CONSTANTS
    Priority,       \* the accounts, each once, in the order of the loop
    SpentAccounts,  \* the accounts that only get a 401 or a 429, whatever the provider does
    MaxCooldown,    \* the longest cooldown, in ticks
    Nobody          \* not an account

Conns == ToSet(Priority)

ASSUME LoopAssumption ==
    /\ Priority \in Seq(Conns) /\ Nobody \notin Conns
    /\ SpentAccounts \subseteq Conns /\ MaxCooldown \in Nat \ {0}

VARIABLES
    cooldown,   \* per account, the ticks left of its cooldown
    turns       \* per request: the candidates left, the account on the wire, and
                \* how the turn ended

guarded == <<vars, cooldown, turns>>

GuardedInit ==
    /\ Init
    /\ cooldown = [c \in Conns |-> 0]
    /\ turns = [r \in Requests |-> [left |-> <<>>, conn |-> Nobody, end |-> "served"]]

Arrive(r) ==
    /\ turns[r].end # "open"
    /\ turns' = [turns EXCEPT ![r] = [left |-> Priority, conn |-> Nobody, end |-> "open"]]
    /\ UNCHANGED <<vars, cooldown>>

------------------------------------------------------------------------------
Scanning(r) == turns[r].end = "open" /\ turns[r].conn = Nobody

Ready == Keep(Priority, {c \in Conns : cooldown[c] = 0})

\* The candidate, or the account that the selection has in its place.
Chosen(r) ==
    LET candidate == Head(turns[r].left)
    IN CASE cooldown[candidate] = 0 -> candidate
         [] cooldown[candidate] > 0 /\ Ready # <<>> -> Head(Ready)
         [] OTHER -> Nobody

\* A chosen account is excluded from the rest of the turn.
Others(r, c) == Keep(Tail(turns[r].left), Conns \ {c})

Cools(c) == \E n \in 1 .. MaxCooldown : cooldown' = [cooldown EXCEPT ![c] = n]

DialUnasked(r) ==                                                   \* mutant
    /\ Scanning(r) /\ turns[r].left # <<>> /\ Chosen(r) # Nobody
    /\ flight' = flight \cup {r}
    /\ turns' = [turns EXCEPT ![r].conn = Chosen(r), ![r].left = Others(r, Chosen(r))]
    /\ UNCHANGED <<breaker, probes, recovered, cooldown>>

\* forwardRequest goes on when resilienceAdmit lets it.
Dial(r) ==
    /\ Scanning(r) /\ turns[r].left # <<>> /\ Chosen(r) # Nobody
    /\ AllowPassing(r) \/ AllowFirstProbe(r) \/ AllowProbe(r)
    /\ turns' = [turns EXCEPT ![r].conn = Chosen(r), ![r].left = Others(r, Chosen(r))]
    /\ UNCHANGED <<recovered, cooldown>>

Stalled == state = "HALF_OPEN" /\ halfOpenFor >= effectiveTimeout

\* The breaker refuses, and the loop takes the 503 for the account's.
Refused(r) ==
    /\ Scanning(r) /\ turns[r].left # <<>> /\ Chosen(r) # Nobody
    /\ ~Admitting
    /\ \/ RefuseStalled
       \/ ~Stalled /\ UNCHANGED <<breaker, flight, probes>>
    /\ Cools(Chosen(r))
    /\ turns' = [turns EXCEPT ![r].left = Others(r, Chosen(r))]
    /\ UNCHANGED recovered

PassOver(r) ==
    /\ Scanning(r) /\ turns[r].left # <<>> /\ Chosen(r) = Nobody
    /\ turns' = [turns EXCEPT ![r].left = Tail(@)]
    /\ UNCHANGED <<vars, cooldown>>

Exhausted(r) ==
    /\ Scanning(r) /\ turns[r].left = <<>>
    /\ turns' = [turns EXCEPT ![r].end = "failed"]
    /\ UNCHANGED <<vars, cooldown>>

------------------------------------------------------------------------------
(* The answer: resilienceReport first, then the loop.                      *)

Ends(r, how) == turns' = [turns EXCEPT ![r].conn = Nobody, ![r].end = how]
NextCandidate(r) == turns' = [turns EXCEPT ![r].conn = Nobody]

Unreported(r) == Answered(r) /\ UNCHANGED <<breaker, probes, recovered>>

ReportedToNobody(r) == Unreported(r)                                \* mutant

Reported(r) == RecordSuccess(r)

TurnServed(r) ==
    /\ turns[r].conn # Nobody /\ turns[r].conn \notin SpentAccounts
    /\ Reported(r)
    /\ cooldown' = [cooldown EXCEPT ![turns[r].conn] = 0]
    /\ Ends(r, "served")

\* A 502, 503 or 504 is another account's chance; a 408, a 500 or a lost connection
\* ends the turn.
ProviderFails(r) ==
    /\ turns[r].conn # Nobody
    /\ RecordFailure(r)
    /\ \/ Cools(turns[r].conn) /\ NextCandidate(r)
       \/ Ends(r, "failed") /\ UNCHANGED cooldown

\* A 401, 402, 403 or 429 says nothing of the provider, and is reported to nobody.
AccountFails(r) ==
    /\ turns[r].conn # Nobody /\ (~recovered \/ turns[r].conn \in SpentAccounts)
    /\ Unreported(r)
    /\ Cools(turns[r].conn) /\ NextCandidate(r)

\* A plain 400 is the request's own fault: reported to nobody, and no account's chance.
RequestFails(r) ==
    /\ turns[r].conn # Nobody /\ ~recovered
    /\ Unreported(r)
    /\ Ends(r, "failed") /\ UNCHANGED cooldown

------------------------------------------------------------------------------
GuardedTick ==
    /\ Tick
    /\ cooldown' = [c \in Conns |-> IF cooldown[c] > 0 THEN cooldown[c] - 1 ELSE 0]
    /\ UNCHANGED turns

TurnStep(r) ==
    \/ Arrive(r) \/ Dial(r) \/ Refused(r) \/ PassOver(r) \/ Exhausted(r)
    \/ TurnServed(r) \/ ProviderFails(r) \/ AccountFails(r) \/ RequestFails(r)

GuardedNext ==
    \/ \E r \in Requests : TurnStep(r)
    \/ GuardedTick
    \/ (Reset \/ Recover) /\ UNCHANGED <<cooldown, turns>>

\* Clients keep asking, their goroutines run and every attempt ends, and time passes.
GuardedFairness == WF_guarded(GuardedTick) /\ \A r \in Requests : WF_guarded(TurnStep(r))

GuardedSpec == GuardedInit /\ [][GuardedNext]_guarded

FairGuardedSpec == GuardedSpec /\ GuardedFairness

------------------------------------------------------------------------------
TurnType ==
    [left : Seq(Conns), conn : Conns \cup {Nobody}, end : {"open", "served", "failed"}]

GuardedTypeOK ==
    /\ TypeOK
    /\ cooldown \in [Conns -> 0 .. MaxCooldown]
    /\ turns \in [Requests -> TurnType]
    /\ \A r \in Requests : (turns[r].conn # Nobody) = (r \in flight)

\* The loop uses the breaker as the breaker expects to be used, however turns, refusals
\* and resets interleave: it asks before each attempt and not while one is under way,
\* reports an answer once at most, and takes a refusal for one.  For the breaker, a
\* provider has not recovered as long as an account of it may get a 401 or a 429.
Breaker == INSTANCE CircuitBreaker WITH recovered <- recovered /\ SpentAccounts = {}
LoopUsesBreaker == Breaker!Spec

\* An outage is over when it is over: once the provider has recovered, a time comes
\* from which no turn fails, though the breaker goes on refusing for a while and its
\* refusals cool down accounts that have done nothing. It needs accounts that are
\* good: a spent one that comes first takes the only half-open place each time and
\* reports to nobody, and the breaker refuses the others.
ServedForGood == recovered ~> [](\A r \in Requests : turns[r].end # "failed")
==============================================================================
