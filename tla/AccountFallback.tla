--------------------------- MODULE AccountFallback ---------------------------
(***************************************************************************)
(* The account failover of one provider: handleAccountFallback walks the   *)
(* provider's accounts for a client turn, getBestConnectionWithContext     *)
(* chooses the account of each attempt, and the answer of the upstream     *)
(* decides which cooldown is written on the account's row before the next  *)
(* candidate is tried.  Turns run concurrently and meet on the rows of     *)
(* the accounts and on the session affinity map; every database statement  *)
(* is one step.                                                            *)
(*                                                                         *)
(* A timestamp is the set of the ticks left until it: {} for an absent     *)
(* field, {n} for a future one and {0} for one that has passed but is      *)
(* still stored, which the code does not treat as an absent one.           *)
(***************************************************************************)
EXTENDS Selection, FiniteSets, FiniteSetsExt, SequencesExt

CONSTANTS
    Priority,       \* the accounts in the order of connectionSortOrder
    OAuthAccounts,  \* the accounts that authenticate with a refreshable grant
    Models,         \* the models of the provider
    Keys,           \* the affinity keys (session and model family)
    Turns,          \* client turns that can be in progress at once
    Requests,       \* per turn, what it may be asked: the model, the affinity
                    \* key or None, the account its x-connection-id header
                    \* names or None, whether it runs in a probe context
    Strategy,       \* the rotation strategy of the accounts
    ForceFallback,  \* settings.forceFallback
    Pools,          \* the active proxy pools
    OwnPool,        \* the pool bound to an account, or None
    ProviderPool,   \* the pool bound to the provider, or None
    PoolRotation,   \* whether the provider rotates its pools
    Toggled,        \* the accounts the operator may disable and enable
    FreeTier,       \* whether the provider has OpenCode's free-tier gate
    MaxCooldown,    \* the longest cooldown, in ticks (bound of the model)
    None

Accounts == ToSet(Priority)
Request ==
    {req \in [model : Models, key : Keys \cup {None},
              pin : Accounts \cup {None}, probe : BOOLEAN] :
        req.probe => req.key = None}
Stamps == {{}} \cup {{n} : n \in 0 .. MaxCooldown}

ASSUME ConstantsFit ==
    /\ Priority \in Seq(Accounts) /\ IsInjective(Priority)
    /\ None \notin Accounts
    /\ OAuthAccounts \subseteq Accounts
    /\ Requests \in [Turns -> SUBSET Request]
    /\ Toggled \subseteq Accounts
    /\ Strategy \in {"none", "round-robin", "random"}
    /\ OwnPool \in [Accounts -> Pools \cup {None}]
    /\ ProviderPool \in Pools \cup {None}
    /\ MaxCooldown \in Nat \ {0}

VARIABLES
    enabled,   \* providerConnections.isActive
    rate,      \* data.rateLimitedUntil, the account-scoped quota cooldown
    park,      \* data.oauthLockedUntil, the account's rejected grant
    lock,      \* data.modelLock_<model>: ticks until the lock ends
    bound,     \* SessionAffinityStore.entries: key -> account
    turn,      \* the progress of each turn
    unfit      \* history: accounts each turn could not have used at some time

rows == <<enabled, rate, park, lock>>
vars == <<enabled, rate, park, lock, bound, turn, unfit>>

AtRest == [stage |-> "idle", req |-> None, all |-> <<>>, home |-> None, left |-> <<>>,
           tried |-> {}, badPools |-> {}, conn |-> None, pool |-> None,
           refreshes |-> 0, cool |-> 0, dials |-> 0, dialled |-> {}]

Stages == {"idle", "begin", "scan", "dial", "unlock", "clear", "bind", "lock", "cool",
           "evict", "served", "failed", "exhausted", "unavailable"}
Ended == {"served", "failed", "exhausted", "unavailable"}

Init ==
    /\ enabled = [c \in Accounts |-> TRUE]
    /\ rate = [c \in Accounts |-> {}]
    /\ park = [c \in Accounts |-> {}]
    /\ lock = [c \in Accounts |-> [m \in Models |-> 0]]
    /\ bound = [k \in Keys |-> None]
    /\ turn = [t \in Turns |-> AtRest]
    /\ unfit = [t \in Turns |-> {}]

------------------------------------------------------------------------------
(* What the selector reads of an account's row.                            *)

Cooldowns(c) == rate[c] \cup park[c]

\* ConnectionBlockedUntil returns the EARLIEST of the two stamps, so the
\* account counts as cooling down only while that one lies ahead.
CoolingDown(c) == Cooldowns(c) # {} /\ Min(Cooldowns(c)) > 0

ModelLocked(c, m) == lock[c][m] > 0

Selectable(c, m) == enabled[c] /\ ~CoolingDown(c) /\ ~ModelLocked(c, m)

\* Mutant: one locked account makes the provider unavailable.
AvailableWithoutLocks(m) == \A c \in Accounts : enabled[c] => ~ModelLocked(c, m)

\* Repo.IsProviderAvailable: it looks at the model locks only.
ProviderAvailable(m) ==
    LET active == {c \in Accounts : enabled[c]}
    IN active = {} \/ \E c \in active : ~ModelLocked(c, m)

Model(t) == turn[t].req.model
Key(t) == turn[t].req.key
IsProbe(t) == turn[t].req.probe
Unpinned(t) == turn[t].req.pin = None

AffinityOn(t) == Strategy = "round-robin" /\ Key(t) # None
Binding(t) == IF AffinityOn(t) THEN bound[Key(t)] ELSE None

\* Mutant: the session's account is looked up but not moved.
MoveToFrontLost(s, c) == s

MoveToFront(s, c) == <<c>> \o Keep(s, Accounts \ {c})

\* applyConnectionStrategy.  Which account selectByRecency lets win depends
\* on the stamps of earlier requests: any account may be the winner.
Orders(s) ==
    IF Len(s) <= 1 \/ Strategy = "none" THEN {s}
    ELSE IF Strategy = "round-robin" THEN {MoveToFront(s, c) : c \in ToSet(s)}
    ELSE {SubSeq(s, i, Len(s)) \o SubSeq(s, 1, i - 1) : i \in 1 .. Len(s)}

Active == Keep(Priority, {c \in Accounts : enabled[c]})

\* applyProviderProxyPool and rotatedActiveProxyPoolWithin.
PoolsFor(c, bad) ==
    LET direct == IF ProviderPool \in bad THEN None ELSE ProviderPool
        usable == Pools \ bad
        rotates == PoolRotation /\ bad # {} /\ Pools # {}
    IN IF OwnPool[c] # None /\ OwnPool[c] \notin bad THEN {OwnPool[c]}
       ELSE IF rotates THEN (IF usable # {} THEN usable ELSE {None})
       ELSE {direct}

\* The candidates the loop has not passed: an excluded one is skipped.
Remaining(t) == Keep(turn[t].left, Accounts \ turn[t].tried)

Unusable(t) == {c \in Accounts : ~Selectable(c, Model(t))}

\* The history is taken in every state the turn goes through.
Observe ==
    unfit' = [t \in Turns |->
        IF turn'[t].stage = "idle" THEN {}
        ELSE unfit[t] \cup Unusable(t)']

Moves(t, stage) == turn' = [turn EXCEPT ![t].stage = stage]
At(t, stage) == turn[t].stage = stage

------------------------------------------------------------------------------
(* The start of a turn.                                                    *)

Arrive(t) ==
    /\ At(t, "idle")
    /\ \E req \in Requests[t] :
        turn' = [turn EXCEPT ![t].stage = "begin", ![t].req = req]
    /\ UNCHANGED <<rows, bound>>

\* A pinned turn has the pin as its only candidate and skips the rest.
BeginPinned(t) ==
    /\ At(t, "begin") /\ ~Unpinned(t)
    /\ turn' = [turn EXCEPT ![t].stage = "scan", ![t].left = <<turn[t].req.pin>>]
    /\ UNCHANGED <<rows, bound>>

\* No account, or every account's lock is on for the model: refused at once.
Refuse(t) ==
    /\ At(t, "begin") /\ Unpinned(t)
    /\ \/ ~IsProbe(t) /\ ~ProviderAvailable(Model(t))
       \/ Active = <<>>
    /\ turn' = [turn EXCEPT ![t].stage = "unavailable", ![t].all = Active]
    /\ UNCHANGED <<rows, bound>>

\* The order of the candidates: the session's account first, or, when that
\* one is gone, the binding is dropped and the strategy orders them.
Begin(t) ==
    /\ At(t, "begin") /\ Unpinned(t) /\ Active # <<>>
    /\ IsProbe(t) \/ ProviderAvailable(Model(t))
    /\ LET home == IF Len(Active) > 1 THEN Binding(t) ELSE None
       IN \E order \in IF home \in ToSet(Active) THEN {MoveToFront(Active, home)}
                       ELSE Orders(Active) :
            /\ turn' = [turn EXCEPT
                    ![t].stage = "scan", ![t].all = order, ![t].left = order,
                    ![t].home = IF home \in ToSet(Active) THEN home ELSE None]
            /\ bound' = IF home # None /\ home \notin ToSet(Active)
                        THEN [bound EXCEPT ![Key(t)] = None] ELSE bound
    /\ UNCHANGED rows

------------------------------------------------------------------------------
(* getBestConnectionWithContext: the account of one attempt.               *)

\* A probe goes to its candidate through a cooldown or a lock.
CandidateHonoured(t, c) ==
    enabled[c] /\ (IsProbe(t) \/ Selectable(c, Model(t)))

\* Mutant: the candidate stays in the list, as if it were to be retried.
DialKeepsCandidate(t, c) ==
    \E pool \in PoolsFor(c, turn[t].badPools) :
        turn' = [turn EXCEPT
            ![t].stage = "dial", ![t].conn = c, ![t].pool = pool,
            ![t].left = Remaining(t), ![t].refreshes = 0,
            ![t].dials = @ + 1, ![t].dialled = @ \cup {c}]

Dial(t, c) ==
    \E pool \in PoolsFor(c, turn[t].badPools) :
        turn' = [turn EXCEPT
            ![t].stage = "dial", ![t].conn = c, ![t].pool = pool,
            ![t].left = Tail(Remaining(t)), ![t].refreshes = 0,
            ![t].dials = @ + 1, ![t].dialled = @ \cup {c}]

ChooseCandidate(t) ==
    /\ At(t, "scan") /\ Remaining(t) # <<>>
    /\ CandidateHonoured(t, Head(Remaining(t)))
    /\ Dial(t, Head(Remaining(t)))
    /\ UNCHANGED <<rows, bound>>

\* The candidate cannot serve: the strategy sweeps every active account, the
\* ones this turn already excluded among them (the loop passes no exclusion).
BoundUsable(t) ==
    /\ Binding(t) # None
    /\ Selectable(Binding(t), Model(t))

FirstUsable(t, order) == Head(Keep(order, Accounts \ Unusable(t)))

Usable(t) == \E c \in ToSet(Active) : Selectable(c, Model(t))

\* forceMinCooldownConnection over the accounts that only cool down.
Forcible(t, order) ==
    LET cooling == {c \in ToSet(order) : CoolingDown(c) /\ ~ModelLocked(c, Model(t))}
    IN Keep(order, {c \in cooling :
                       \A d \in cooling : Min(Cooldowns(c)) <= Min(Cooldowns(d))})

Swept(t, order) ==
    IF BoundUsable(t) THEN Binding(t)
    ELSE IF Usable(t) THEN FirstUsable(t, order)
    ELSE IF ForceFallback /\ Forcible(t, order) # <<>> THEN Head(Forcible(t, order))
    ELSE None

\* Optimistic: the session is bound to the account before it has answered.
Rebound(t, c) == IF AffinityOn(t) THEN [bound EXCEPT ![Key(t)] = c] ELSE bound

NeedsSweep(t) ==
    /\ At(t, "scan") /\ Remaining(t) # <<>>
    /\ ~CandidateHonoured(t, Head(Remaining(t)))

ChooseBySweep(t) ==
    /\ NeedsSweep(t) /\ ~IsProbe(t)
    /\ \E order \in Orders(Active) :
        /\ Swept(t, order) # None
        /\ Dial(t, Swept(t, order))
        /\ bound' = Rebound(t, Swept(t, order))
    /\ UNCHANGED rows

\* Mutant: the loop waits on the candidate until it can be chosen.
NoChoiceWaits(t) ==
    /\ NeedsSweep(t)
    /\ \A order \in Orders(Active) : Swept(t, order) = None
    /\ UNCHANGED <<rows, bound, turn>>

\* Nothing to dial; a probe of a disabled account is not redirected.
NoChoice(t) ==
    /\ NeedsSweep(t)
    /\ \/ IsProbe(t) /\ UNCHANGED bound
       \/ /\ ~IsProbe(t)
          /\ \A order \in Orders(Active) : Swept(t, order) = None
          /\ bound' = IF Active = <<>> THEN bound ELSE Rebound(t, None)
    /\ turn' = [turn EXCEPT
            ![t].stage = IF Unpinned(t) THEN "scan" ELSE "failed",
            ![t].left = Tail(Remaining(t))]
    /\ UNCHANGED rows

Exhaust(t) ==
    /\ At(t, "scan") /\ Remaining(t) = <<>>
    /\ Moves(t, "exhausted")
    /\ UNCHANGED <<rows, bound>>

------------------------------------------------------------------------------
(* While the attempt is on the wire: the lazy refresh of an OAuth grant,   *)
(* and the forced one after a 401.                                         *)

Refreshing(t) ==
    /\ At(t, "dial")
    /\ turn[t].conn \in OAuthAccounts
    /\ turn[t].refreshes < 2
    /\ turn' = [turn EXCEPT ![t].refreshes = @ + 1]
    /\ UNCHANGED <<enabled, rate, lock, bound>>

\* parkRejectedOAuthAccount; the attempt goes on with the old token.
RejectGrant(t) ==
    /\ Refreshing(t)
    /\ \E n \in 1 .. MaxCooldown : park' = [park EXCEPT ![turn[t].conn] = {n}]

\* clearOAuthAccountPark: the quota cooldown is left alone.
RefreshGrant(t) ==
    /\ Refreshing(t)
    /\ park' = [park EXCEPT ![turn[t].conn] = {}]

------------------------------------------------------------------------------
(* The answer of the upstream.                                             *)

\* The next candidate, with this attempt's account excluded.
Exclude(t) ==
    turn' = [turn EXCEPT ![t].stage = "scan", ![t].tried = @ \cup {turn[t].conn},
                         ![t].conn = None, ![t].pool = None, ![t].cool = 0]

\* A 401, 403 or 429 drops the session's binding before it is classified.
Drop(t) == IF Key(t) = None THEN bound ELSE [bound EXCEPT ![Key(t)] = None]

\* Mutant: a probe's success is taken for evidence.
ServeProbeToo(t) ==
    /\ At(t, "dial")
    /\ Moves(t, "unlock")
    /\ UNCHANGED <<rows, bound>>

Serve(t) ==
    /\ At(t, "dial")
    /\ Moves(t, IF IsProbe(t) THEN "served" ELSE "unlock")
    /\ UNCHANGED <<rows, bound>>

\* UnlockConnectionModel, ClearConnectionRateLimit, then the binding.
Unlock(t) ==
    /\ At(t, "unlock")
    /\ lock' = [lock EXCEPT ![turn[t].conn][Model(t)] = 0]
    /\ Moves(t, "clear")
    /\ UNCHANGED <<enabled, rate, park, bound>>

Clear(t) ==
    /\ At(t, "clear")
    /\ rate' = [rate EXCEPT ![turn[t].conn] = {}]
    /\ Moves(t, "bind")
    /\ UNCHANGED <<enabled, park, lock, bound>>

BindServed(t) ==
    /\ At(t, "bind")
    /\ bound' = IF Unpinned(t) THEN Rebound(t, turn[t].conn) ELSE bound
    /\ Moves(t, "served")
    /\ UNCHANGED rows

\* A pinned turn returns any failure to its caller.
PinnedFails(t) ==
    /\ At(t, "dial") /\ ~Unpinned(t)
    /\ Moves(t, "failed")
    /\ UNCHANGED <<rows, bound>>

\* A status outside RetryableStatusCodes, or a client that hung up.
Fail(t) ==
    /\ At(t, "dial") /\ Unpinned(t)
    /\ Moves(t, "failed")
    /\ UNCHANGED <<rows, bound>>

\* The node's contract or quota is over (403), or its own limit (429).
NodeRefuses(t) ==
    /\ At(t, "dial") /\ Unpinned(t)
    /\ bound' = Drop(t)
    /\ Exclude(t)
    /\ UNCHANGED rows

\* A 410 that retires the model.
Deprecated(t) ==
    /\ At(t, "dial") /\ Unpinned(t)
    /\ Exclude(t)
    /\ UNCHANGED <<rows, bound>>

\* The egress was refused, not the account: its pool is excluded.
FreeTierRefuses(t) ==
    /\ At(t, "dial") /\ Unpinned(t) /\ FreeTier /\ ~IsProbe(t)
    /\ bound' = Drop(t)
    /\ \/ turn[t].pool = None /\ Exclude(t)
       \/ /\ turn[t].pool # None
          /\ turn' = [turn EXCEPT ![t].stage = "scan", ![t].conn = None,
                                  ![t].pool = None,
                                  ![t].badPools = @ \cup {turn[t].pool}]
    /\ UNCHANGED rows

\* The other retryable answers: a lock of the model, then a cooldown of the
\* account unless the error was about the model alone.
Retryable(t) ==
    /\ At(t, "dial") /\ Unpinned(t)
    /\ bound' \in {bound, Drop(t)}
    /\ \/ IsProbe(t) /\ Exclude(t)
       \/ /\ ~IsProbe(t)
          /\ \E n \in 1 .. MaxCooldown :
                turn' = [turn EXCEPT ![t].stage = "lock", ![t].cool = n]
    /\ UNCHANGED rows

LockModel(t) ==
    /\ At(t, "lock")
    /\ lock' = [lock EXCEPT ![turn[t].conn][Model(t)] = turn[t].cool]
    /\ \/ Exclude(t)
       \/ Moves(t, "cool")
    /\ UNCHANGED <<enabled, rate, park, bound>>

CoolAccount(t) ==
    /\ At(t, "cool")
    /\ rate' = [rate EXCEPT ![turn[t].conn] = {turn[t].cool}]
    /\ Moves(t, "evict")
    /\ UNCHANGED <<enabled, park, lock, bound>>

\* EvictConnection: every session leaves the account that cools down.
EvictBindings(t) ==
    /\ At(t, "evict")
    /\ bound' = [k \in Keys |-> IF bound[k] = turn[t].conn THEN None ELSE bound[k]]
    /\ Exclude(t)
    /\ UNCHANGED rows

------------------------------------------------------------------------------
(* The environment: the response is written out, time passes, the operator *)
(* toggles an account, a binding outlives its TTL or makes room.           *)

Reply(t) ==
    /\ turn[t].stage \in Ended
    /\ turn' = [turn EXCEPT ![t] = AtRest]
    /\ UNCHANGED <<rows, bound>>

Sooner(n) == IF n > 0 THEN n - 1 ELSE 0

Tick ==
    /\ rate' = [c \in Accounts |-> {Sooner(n) : n \in rate[c]}]
    /\ park' = [c \in Accounts |-> {Sooner(n) : n \in park[c]}]
    /\ lock' = [c \in Accounts |-> [m \in Models |-> Sooner(lock[c][m])]]
    /\ UNCHANGED <<enabled, bound, turn>>

Toggle(c) ==
    /\ enabled' = [enabled EXCEPT ![c] = ~@]
    /\ UNCHANGED <<rate, park, lock, bound, turn>>

Forget(k) ==
    /\ bound' = [bound EXCEPT ![k] = None]
    /\ UNCHANGED <<rows, turn>>

Answer(t) ==
    \/ Serve(t) \/ PinnedFails(t) \/ Fail(t) \/ NodeRefuses(t)
    \/ Deprecated(t) \/ FreeTierRefuses(t) \/ Retryable(t)

Progress(t) ==
    \/ BeginPinned(t) \/ Refuse(t) \/ Begin(t)
    \/ ChooseCandidate(t) \/ ChooseBySweep(t) \/ NoChoice(t) \/ Exhaust(t)
    \/ Answer(t)
    \/ Unlock(t) \/ Clear(t) \/ BindServed(t)
    \/ LockModel(t) \/ CoolAccount(t) \/ EvictBindings(t)

Next ==
    /\ \/ \E t \in Turns : \/ Arrive(t) \/ Progress(t) \/ Reply(t)
                           \/ RejectGrant(t) \/ RefreshGrant(t)
       \/ Tick
       \/ \E c \in Toggled : Toggle(c)
       \/ \E k \in Keys : Forget(k)
    /\ Observe

Spec == Init /\ [][Next]_vars

\* A turn is a goroutine that the scheduler runs and whose upstream call ends
\* (every client of the router has a timeout); nothing else is assumed.
Fairness == \A t \in Turns : WF_vars(Progress(t) /\ Observe)
FairSpec == Spec /\ Fairness

------------------------------------------------------------------------------
TurnType ==
    [stage : Stages, req : Request \cup {None}, all : Seq(Accounts), home : Accounts \cup {None},
     left : Seq(Accounts), tried : SUBSET Accounts, badPools : SUBSET Pools,
     conn : Accounts \cup {None}, pool : Pools \cup {None}, refreshes : 0 .. 2,
     cool : 0 .. MaxCooldown, dials : Nat, dialled : SUBSET Accounts]

\* The state is well formed.
TypeOK ==
    /\ enabled \in [Accounts -> BOOLEAN]
    /\ rate \in [Accounts -> Stamps]
    /\ park \in [Accounts -> Stamps]
    /\ lock \in [Accounts -> [Models -> 0 .. MaxCooldown]]
    /\ bound \in [Keys -> Accounts \cup {None}]
    /\ turn \in [Turns -> TurnType]
    /\ unfit \in [Turns -> SUBSET Accounts]

\* A turn that ends because it ran out of accounts has dialled every account
\* it started with, except those that were disabled, locked for its model or
\* cooling down at some time during the turn: handleAccountFallback gives up
\* on no account that stayed usable, whatever the other turns, the force
\* fallback and the pool rotation did meanwhile.
NoHealthyAccountOverlooked ==
    \A t \in Turns :
        turn[t].stage \in {"exhausted", "unavailable"} =>
            ToSet(turn[t].all) \subseteq turn[t].dialled \cup unfit[t]

\* One client request costs at most one upstream attempt per account of the
\* provider: the redirections of a candidate to another account and the pool
\* rotation never make the loop longer.
DialsBounded ==
    \A t \in Turns : ~At(t, "idle") =>
        turn[t].dials <= IF Unpinned(t) THEN Len(turn[t].all) ELSE 1

\* A session keeps its account (its prompt cache): the first attempt of a
\* turn whose session was bound when the turn began goes to that account,
\* unless the account has not been usable all the time since.
AffinityKept ==
    [][\A t \in Turns :
        (turn[t].dials = 0 /\ turn'[t].dials = 1 /\ turn[t].home # None) =>
            turn'[t].conn = turn[t].home \/ turn[t].home \in unfit[t]]_vars

\* A probe (a dashboard test, a scheduled ping) reaches the upstream but is
\* no evidence for routing: its steps change no lock, no quota cooldown and
\* no session binding.
ProbesLeaveNoTrace ==
    [][\A t \in Turns :
        ~At(t, "idle") /\ IsProbe(t) /\ turn'[t] # turn[t] =>
            UNCHANGED <<enabled, rate, lock, bound>>]_vars

\* Every turn ends: the loop neither spins on an account nor waits for one.
TurnEnds == \A t \in Turns : ~At(t, "idle") ~> turn[t].stage \in Ended

\* What the selection's comment promises: an account whose OAuth grant the
\* provider rejected is skipped before it is selected, so no ordinary turn
\* dials an account whose park lies ahead.
ParkedNotSelected ==
    [][\A t \in Turns :
        turn'[t].dials > turn[t].dials /\ ~IsProbe(t) /\ ~ForceFallback =>
            \A n \in park[turn'[t].conn] : n = 0]_vars

\* What the free-tier branch's comment promises: a refused egress is excluded
\* and the same account is retried through the next one, so a turn does not
\* run out of accounts after such a refusal while a pool is untried.
EgressesTried ==
    \A t \in Turns :
        At(t, "exhausted") /\ turn[t].badPools # {} /\ PoolRotation =>
            turn[t].badPools = Pools
==============================================================================
