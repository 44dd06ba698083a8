----------------------------- MODULE MCServices -----------------------------
(***************************************************************************)
(* Small instances of nine components, explored in one run: part says      *)
(* which of them runs, and the others are at rest.  The breaker runs       *)
(* alone, under any caller, and below the failover loop.                   *)
(***************************************************************************)
EXTENDS GuardedFailover, Combo, ComboBudget, ComboFusion, ModelHealth,
        ResponsesRelay, TokenBucket

VARIABLES
    part,
    fenabled, frate, fpark, flock, fbound, fturn, funfit

CONSTANTS root, other, spare, x, y, free, a, b, c1, c2, r3, fast, slow, gpt, t1, px

\* Two clients keep asking a provider of two accounts; the third stays away.
BothAccounts == <<c1, c2>>
TwoAsk == turns'[r3] = turns[r3]

OneModel == <<gpt>>

\* One turn after the other over two accounts, one of which the operator may disable,
\* and one egress, which the free-tier gate may refuse.
Ask == [model |-> gpt, key |-> None, pin |-> None, probe |-> FALSE]

Failover == INSTANCE AccountFallback WITH
    Priority <- <<a, b>>, OAuthAccounts <- {a}, Models <- {gpt}, Keys <- {}, Turns <- {t1},
    Requests <- [t \in {t1} |-> {Ask}], Strategy <- "random", ForceFallback <- TRUE,
    Pools <- {px}, OwnPool <- [c \in {a, b} |-> None], ProviderPool <- px,
    PoolRotation <- TRUE, Toggled <- {b}, FreeTier <- TRUE, MaxCooldown <- 1,
    enabled <- fenabled, rate <- frate, park <- fpark, lock <- flock, bound <- fbound,
    turn <- fturn, unfit <- funfit

failover == <<fenabled, frate, fpark, flock, fbound, fturn, funfit>>

services == <<guarded, turn, budget, fusion, bucket, health, relay, failover>>

\* A combo of two entries that share account b, and two fallback combos of a provider
\* without accounts: the first names the client's combo as its own fallback, the second
\* the first, so that a turn may come to it twice.
Chains == root :> <<x, y>> @@ other :> <<free>> @@ spare :> <<free>>
Shares == x :> {a, b} @@ y :> {b} @@ free :> {}
Cyclic == root :> <<other, spare>> @@ other :> <<root>> @@ spare :> <<other>>

\* A combo whose window is short beside one whose window is long.
Ceilings == fast :> 1 @@ slow :> 2
Windows == fast :> 1 @@ slow :> 3

\* A turn, and a fusion turn, that are over.
TurnOver ==
    /\ parked = {} /\ cooling = {} /\ benched = {}
    /\ pc = "done" /\ cand = AtRest /\ gone = FALSE /\ reply = "bytes"
    /\ stack = <<Activation(Root, ModelsOf[Root], {})>>
    /\ writers = 1 /\ asked = {} /\ refusers = {} /\ vetoed = {} /\ entered = {Root}
    /\ owed = {} /\ cutShort = FALSE

FusionOver ==
    /\ call = [m \in Panel |-> "ended"] /\ results = [m \in Panel |-> "text"]
    /\ channel = {}
    /\ graceArmed = TRUE /\ stopped = "no" /\ cancelled = TRUE
    /\ closedBy = "settled" /\ outcome = "judge"

\* One turn that waits for its trailer, and one with an event after its end.
Replies == {<<"text", "finish", "done">>, <<"whole", "text">>}

RelayOver ==
    /\ script = <<"whole", "text">> /\ sent = 1 /\ broke = "eof" /\ dual = FALSE
    /\ client = "here" /\ stopping = FALSE
    /\ scan = "returned" /\ read = 1 /\ taken = 1 /\ watched = FALSE
    /\ watch = [n \in 1 .. MaxLines |-> "none"] /\ expired = FALSE /\ quiet = FALSE
    /\ stall = [armed |-> FALSE, checked |-> FALSE, firstSeen |-> TRUE,
                firstExpired |-> FALSE, stalled |-> FALSE, closed |-> TRUE]
    /\ bridge = [usage |-> TRUE, owed |-> FALSE, completed |-> TRUE,
                 pending |-> FALSE, finished |-> TRUE, err |-> FALSE]
    /\ dog = [timer |-> "none", function |-> "none", emitted |-> FALSE]
    /\ wire = <<"delta", "terminal">>

ServicesInit ==
    /\ part \in {"breaker", "guarded", "combo", "budget", "fusion", "bucket", "health",
                 "relay", "failover"}
    /\ GuardedInit /\ BudgetInit /\ BucketInit /\ HealthInit /\ Failover!Init
    /\ IF part = "combo" THEN TurnInit ELSE TurnOver
    /\ IF part = "fusion" THEN FusionInit ELSE FusionOver
    /\ IF part = "relay" THEN RelayInit ELSE RelayOver

\* Only the variables of the part that runs change.
OthersRest ==
    /\ part \notin {"breaker", "guarded"} => UNCHANGED guarded
    /\ part # "combo" => UNCHANGED turn
    /\ part # "budget" => UNCHANGED budget
    /\ part # "fusion" => UNCHANGED fusion
    /\ part # "bucket" => UNCHANGED bucket
    /\ part # "health" => UNCHANGED health
    /\ part # "relay" => UNCHANGED relay
    /\ part # "failover" => UNCHANGED failover

ServicesNext ==
    /\ UNCHANGED part /\ OthersRest
    /\ \/ part = "breaker" /\ Next /\ UNCHANGED <<cooldown, turns>>
       \/ part = "guarded" /\ GuardedNext /\ TwoAsk
       \/ part = "combo" /\ TurnNext
       \/ part = "budget" /\ BudgetNext
       \/ part = "fusion" /\ FusionNext
       \/ part = "bucket" /\ BucketNext
       \/ part = "health" /\ HealthNext
       \/ part = "relay" /\ RelayNext
       \/ part = "failover" /\ Failover!Next

\* Each part's own fairness, for the part that runs.
ServicesFairness ==
    /\ \A r \in Requests : /\ WF_vars(part = "breaker" /\ Allow(r))
                           /\ WF_vars(part = "breaker" /\ Answer(r))
    /\ WF_vars(part = "breaker" /\ Tick)
    /\ \A r \in Requests \ {r3} : WF_guarded(part = "guarded" /\ TurnStep(r))
    /\ WF_guarded(part = "guarded" /\ GuardedTick)
    /\ WF_turn(part = "combo" /\ Turn)
    /\ WF_fusion(part = "fusion" /\ Collect)
    /\ \A m \in Panel : WF_fusion(part = "fusion" /\ PanelRuns(m))
    /\ WF_health(part = "health" /\ Pass)
    /\ WF_relay(part = "relay" /\ Gateway)
    /\ WF_failover(part = "failover" /\ Failover!Progress(t1) /\ Failover!Observe)

ServicesSpec == ServicesInit /\ [][ServicesNext]_<<part, services>> /\ ServicesFairness

------------------------------------------------------------------------------
\* The liveness properties of components that go on for ever, each of its own part.

\* The breaker keeps coming back to where it admits, under any caller.
BreakerNotStuck == part = "breaker" => NeverShutForGood

\* An outage is over when it is over, for the breaker and for the loop's clients.
OutagesEnd ==
    part \in {"breaker", "guarded"} => RecoveredProviderServes /\ ServedForGood

\* The health loop gives back what it has taken.
ModelsGivenBack == part = "health" => SchedulerUndoesItsOwn

\* A client turn ends, however the cooldowns of its accounts come and go.
FailoverEnds == part = "failover" => Failover!TurnEnds
==============================================================================
