# 9router-go: models, checks and proofs

9router-go is a router for LLM requests. A client speaks an OpenAI-, Anthropic- or Gemini-like
API to it; the router picks a provider, an account of that provider and an egress, forwards the
request, relays the answer and remembers what went wrong. It is one Go process with a SQLite
database; every request is a goroutine.

This directory holds TLA+ models of the parts of that process in which goroutines meet, TLC
configurations that check them, and TLAPS proofs. `PROJECT.json` lists the components, runs,
mutations, hazards and theorems, and maps each definition to the source lines it stands for. Paths
below are relative to the repository's `internal/` unless they start with another directory.

    tlc -workers 2 -config Limiters.cfg MCLimiters
    tlapm RateLimiter_proofs.tla

Contents: 1 inventory, 2 plan, 3 conventions, 4 to 9 one section per group of components (limiters;
failover; breaker; OAuth refresh; combos; stream relay and model health), 10 the runs, 11 the proofs,
12 disagreements between code and comments, 13 what is not covered.

## 1. Inventory

### Parts whose state is shared by requests

| Part | Source | State | Operations | What is hard about it | Modules |
|---|---|---|---|---|---|
| Rate limiter | `middleware/ratelimit.go` | per key: stamps of admitted requests, slots in use, waiting queue, wake timer | `Acquire`, `ReleaseConcurrency`, pump, wake timer, eviction of idle keys | a grant races the waiter's timeout; eviction deletes per-key state that another goroutine relies on | `RateLimiter`, `SlotPool` |
| Token bucket and provider slot | `middleware/ratelimit.go` | tokens, unsettled charges, concurrency counter | `AcquireProvider`, `Settle`, `Release`, `RefundTPM` | two resources charged one after the other and undone on each early return, the bill known only at the end | `TokenBucket` |
| Account semaphore | `resilience/semaphore.go` | a registry of gates; per gate its slots, line and block | `Acquire`, the release function, drain, `Block`, `ResetSemaphores` | a goroutine keeps its pointer to a gate that has left the registry; a hand-over races the timer | `AccountSemaphore`, `SlotPool` |
| Account failover | `handlers/chat/fallback.go`, `connections.go`, `force_fallback.go`, `session_affinity.go`, `oauth_lock.go`, `db/accounts*.go` | the connection rows (enabled, `rateLimitedUntil`, `oauthLockedUntil`, `modelLock_*`), session bindings, the excluded accounts and pools of a turn | the loop over accounts; selection with strategy, affinity and force fallback; classify the answer; cool down, lock, park; clear after success | turns interleave between the read of a row and the write of its cooldown; expired stamps stay stored; the list of candidates is stale later; the loop must end | `AccountFallback`, `GuardedFailover` |
| Circuit breaker | `resilience/circuitbreaker.go`, `controller.go`, `handlers/chat/resilience_admit.go` | state, counters, half-open places, times | `Allow`, `RecordSuccess`, `RecordFailure`, `Reset` | an answer arrives after the breaker moved on; a probe that never reports; backoff of backoff | `CircuitBreaker`, `GuardedFailover` |
| OAuth refresh | `proxy/oauth/{singleflight,dedup,refresher,background}.go`, `handlers/chat/gemini_handler.go`, `handlers/dashboard/connection_probe.go` | one slot (mutex, last outcome) per connection, a 10 s cache of results, the stored tokens | lazy refresh, forced refresh after a 401, background tick, connection test | a refresh token is good for one exchange; whole-row writes; four callers, two of which take the lock late or not at all | `OAuthRefresh` |
| Combo routing | `handlers/chat/combo*.go`, `retry_after.go` | the stack of combos of a turn, the tried accounts, the response timeout, the bench of timed-out entries | walk over entries and accounts, second pass, fallback combos, terminal error | a timer against the first byte; three levels of loops with early exits; recursion through combos that name each other | `Combo` |
| Combo ceilings | `handlers/chat/combo_budget.go` | calls per combo and window, in one map | check, charge, prune | check and charge are two sections; one combo's charge prunes the others' counters | `ComboBudget` |
| Combo fusion | `handlers/chat/combo_fusion.go` | a panel of parallel calls, a quorum, two timers | fan out, collect, settle | stragglers, cancellation, a hard timeout | `ComboFusion` |
| Stream relay | `proxy/stall.go`, `sse_scanner.go`, `proxy/executor/completion_watchdog.go`, `responses_bridge.go` | first event seen, stall timers, a watch per line, the bridge's seal | read, scan, watch, translate, write, close | three watchdogs and the scan write into one reply | `ResponsesRelay` |
| Model health | `modelhealth/loop.go`, `handlers/dashboard/models*.go` | the list of disabled models, a counter row per model | probe, count, switch off and on; the panel's requests | read, seconds of probing, write back; two writers of one list; restart between two writes | `ModelHealth` |
| Budgets, quotas, pricing | `budget`, `policy`, `pricing`, `usagetracker`, `db` | usage rows | check a sum, insert a row | overshoot by concurrent turns, as in `ComboBudget` | none |
| Scheduler | `schedule` | next and last ping per account | tick, ping | a restart replays a ping (`autoping.go:126-133` says so) | none |
| Caches | `semanticcache`, `promptcache`, `keikey` | LRU with TTL, key look-ups | get, put, invalidate | a look-up that overlaps an invalidation puts the old key back until its TTL ends | none |
| Fetch gate | `fetchgate` | next free instant | reserve, wait | nothing: one mutex and one computed instant | none |
| Shutdown | `shutdown`, `app`, `cmd` | stop requested | request stop, drain, close | order of closing | only as an input of `ResponsesRelay` and `ComboFusion` |

### Parts without shared state worth a model

Executors (`proxy/executor`, one adapter per upstream), translators (`translator`, `thinking`),
media and responses handlers, the dashboard API and sign-in flows (`handlers/dashboard`,
`handlers/oauth`), guardrails and token savers, detection and network guards, uptime, log, tracing,
sessions and SSO, vault, tunnels, MITM and browser helpers, headroom, updater, the SQLite repository
itself, and the web UI. They are format conversion, CRUD over one row, text filters, supervision of
external programs, or I/O. `PROJECT.json` lists each with its reason; where a dashboard operation
touches routing state (reset a breaker or the gates, disable an account or a model, test a
connection) it is an action of the module that owns that state.

### How the parts interact

    client -> auth, key limits (RateLimiter: key scope)
           -> combo: ceilings, walk over entries (ComboBudget, Combo, ComboFusion)
              -> failover: a list of accounts (AccountFallback)
                 -> selection (rows, affinity, disabled models) -> lazy refresh (OAuthRefresh)
                 -> provider limits (TokenBucket, RateLimiter: provider scope)
                 -> breaker.Allow, account gate (CircuitBreaker, AccountSemaphore)
                 -> executor -> upstream
                 <- classify: breaker.Record*, cooldown / lock / park on the row, next account
           <- relay (ResponsesRelay), usage, settle tokens

Three couplings cross these modules, and each is modelled on one side at least:

* A refusal by the breaker is returned to the failover loop as a 503, which is a retryable status: the
  account is cooled down although it was never dialled (`handlers/chat/forward.go:97`).
  `GuardedFailover` puts the loop above `CircuitBreaker` for this.
* A refusal by the provider's limiter ends in a 429 that the loop skips without a cooldown
  (`handlers/chat/provider_limits.go:321-323`; `NodeRefuses` in `AccountFallback`, `NodeBlocked` and
  `"refused"` in `Combo`).
* What the relay decides (committed, empty, broken off) is an answer of `Combo` and `AccountFallback`.
  A 401 leads to the forced refresh, then to the account's park. The background tick and the
  dashboard's test write the rows the selection reads.

### What makes each part correct

* limiters: limits hold on every axis; no slot leaks, is invented or is granted to nobody; a waiter that
  could be served is going to be; eviction does not disturb a key in use; tokens are neither lost nor made;
* failover: no account that could have served is overlooked; attempts are bounded; a session keeps
  its account; a probe leaves no trace; a turn ends; an outage that is over is over for the clients;
* breaker: bounded probing; never shut for good; a recovered provider comes back;
* refresh: the stored token is the provider's newest; a healthy grant is never burnt; the lock is
  never leaked;
* combos: nobody is sent the same prompt twice in vain, nobody is passed over, a refusal by the guardrail ends the
  combo, the client gets one answer or one error, the walk ends; a ceiling is overshot by a bounded number
  and not reopened; a panel ends whatever its members do;
* relay: the terminal event is the last thing written; the relay returns, whatever the upstream does;
* model health: what the loop switched off it switches on again; what the operator switched off it leaves.

## 2. Plan

Done, in the order of importance: `RateLimiter`, `AccountFallback`, `CircuitBreaker`, `OAuthRefresh`; then
`AccountSemaphore` with `SlotPool` as the abstract specification of both limiters, `TokenBucket`, `Combo`,
`ComboBudget`, `ComboFusion`, `ModelHealth`, `ResponsesRelay`, and `GuardedFailover`, the composition of
breaker and failover. Proofs exist for every safety property of every module, and for what the liveness properties rest on
where that is a safety property of its own (who owns a disabled model, that no answer of a panel is lost, that an owed
terminal event and a read have a timer); the operators the modules share are in `Selection`.

Left, in this order:

1. *The relays of the other clients*: peek before the headers, copy with tool-call repair, keep-alive comments
   (`proxy/stream_peek.go`, `sse_copy.go`).
2. *The pairing of the key scope with the provider scope* in the middleware, and `Check`, `Snapshot`.
3. *Session affinity* (capacity and TTL), *rotation stamps* (`selectByRecency` against
   `TouchConnectionRotation`), the ranking of smart and cascade combos, the refresh of the usage page.

## 3. Conventions

* One step is one section under a mutex, one SQL statement, or one operation of a concurrent map. What
  a goroutine does between two of them touches only its own variables and is folded into the step.
* Time is discrete. A stored instant is kept as the distance from now, in ticks, and saturates where the
  code can tell no difference any more. Where only the order of events matters (`AccountSemaphore`, `Combo`,
  `ComboFusion`, `ResponsesRelay`) a timer that is armed may fire at any moment.
* Parameters are CONSTANTS with named assumptions in the module; an `MC` module only gives values.
* History variables (`probes`, `unfit`, `outside`, `writers`, `owed`, `raced`, `streak`, `quiet`, ...) are named as such;
  no guard reads them.
* An operator marked `mutant` describes a plausible bug. It is used nowhere in the specification:
  putting it in the place of the operator below it makes a property fail, which shows that the
  property depends on that line of the code.
* Components that share no state are explored by one run where they are small: the host module holds the
  variables of all of them and a variable `part`, fixed by the initial state, that says which one moves.
  Hosts are `MCLimiters` (four parts), `MCFailover` (two) and `MCServices` (nine). A property of one part
  holds trivially in the others, whose state stays at its initial value; the liveness of a part that goes on for ever is
  stated for that part alone (`BreakerNotStuck`, `OutagesEnd`, `ModelsGivenBack`, `FailoverEnds`).
* Each module states a type invariant, and it is proved for every value of the constants. It is the first conjunct of the
  module's inductive invariant, which TLC checked on the run's instance before the proof; the runs leave it out.

## 4. The limiters (`middleware/ratelimit.go`, `resilience/semaphore.go`)

### RateLimiter: admission per key

**State.** `windows`, `active`, `queues`, `timers` are the maps of `RateLimiter`; `present` are the keys
with an entry in `rl.windows`, which is what eviction counts. A stamp is its age in ticks, and at
`Window` it has left the window. `mu` is the mutex while a pump holds it. `pc`, `done` and `granted` are
the goroutine of a request, the `done` flag of its waiter and a grant in its channel. `recent` is a
history: the stamps of every admission of a key, which eviction does not touch.

**Actions.** `Acquire` is `AdmitFast`, `MissFast` (fast path, :232-245), `CancelBeforeQueue`, `RefuseFull`,
`Enqueue` (:248-280), `Receive`, `Expire` (the select, :284-291) and `GiveUp` (:292-308).
`ReleaseConcurrency` is `Release`; a request without a concurrency limit ends by `EndUncapped`.
`pumpLocked` runs one iteration per step with `mu` held (`PumpDiscard`, `PumpGrant`, `PumpBlocked`,
`PumpEnd`): no other critical section can come between, but `Receive`, `Expire` and `Tick`, which need
no lock, can. `WakeTimer` is the function given to `time.AfterFunc`. `Evictions` is
`evictIfNeededLocked`: any choice Go's map order allows.

**Properties.**
`SlotAccounting` the counter of every key equals the number of requests that hold one of its slots, or
were granted one and do not know it yet. `RpmRespected` the limit holds for the true history of
admissions and not for the window the limiter remembers. `GrantsHaveOwners` (proved, not in a run) a grant sits only in the
channel of a waiter that will read it or hand it back. `NoLostWakeup` with the lock free, a head that concurrency does not
hold back has a timer that is due by the time its stamp expires. `EvictionSparesBusyKeys` the slots and the
wakeups survive evictions. `NoOvertakingOnConcurrency` and `ConcurrencyWaiterServed` (liveness) hold on keys
limited by concurrency alone. `IsSlotPool`: the limiter implements `SlotPool`, under the mapping of a key's slots to
the requests that hold them; every step of the limiter takes one slot that is free, gives one back, or is
a stutter, so the pump never grants two at once and a timeout that races a grant never frees one twice.

**Fairness** (`RateLimiterConc` only). A pump ends; a goroutine that keeps asking for the mutex gets it (Go's
mutex hands over to a starved waiter, hence strong fairness for `Release`, `GiveUp` and `WakeTimer`, whose
guard another critical section disables again and again); a grant is received; time passes. Nobody is
assumed to arrive, to time out or to leave.

**Abstractions.** The compaction of the window by a failed attempt is not recorded (every reader
compacts first). Deleting an empty queue from `rl.queues` is a no-op here. A limit belongs to a request and
does not change while the request is in `Acquire`; different limits of one key stand for a limit edited
between two calls. A wake timer whose function has already started when eviction stops it is left
out (it would pump a key with no waiter). Eviction of an idle key drops live stamps, as in the code:
with `maxKeys` reached, a key's window can be forgotten, which is the price of the bound (:640-680); the
theorem on `RpmRespected` therefore assumes fewer keys than `maxKeys`, and the evicting part does not check it.

### AccountSemaphore: the gates of one account and egress

**State.** `registered` is `semGates[key]`; `running`, `cap`, `queue`, `blocked` are the fields of each gate,
those that have left the registry included; `at` is a goroutine's pointer to a gate. `handing` is the waiter a
draining goroutine has dequeued and not yet told, `handed` those whose channel holds the release function.

**Actions.** `LookUp` (`gateFor`), `Enter`, `LineFull`, `WaitInLine`, `TakeGrant`, `TimesOut`, `Withdraw`
(`removeWaiter`); `ReleaseSlot`, `Dequeue`, `HandOver`, `DrainEnds` (`drain`), `KeepGate`, `MayDropGate`, `DropGate`
(`cleanupGate` and its second look); `BlockLooksUp`, `StartBlock`, `BlockEnds`, `WakeUp` (`Block`); `Reset`
(`ResetSemaphores`).

**Properties.** `RunningIsHolders` a gate's counter is the number of requests that own one of its slots, also
while a grant is between two goroutines. `NoneStranded` somebody is bound to look at a line that is not empty: a
holder, or a goroutine on its way to hand slots over; and where a slot is free, one is on its way. The second half excepts
accounts whose callers' limit is above `Block`'s default (section 12). `GateIsSlotPool` each gate implements `SlotPool`.

**Abstractions.** Production bypasses the semaphore at present: `DefaultController` passes empty options, and
with a `MaxConcurrency` of 0 `Acquire` returns at once. `Block` reaches a gate with the default limit and not the
caller's, as in the code. A block's length is any; among several, the goroutine of the longest sleeps until the end.

### TokenBucket: the tokens and the slot of one attempt on a provider

**State.** `level` and `unrefilled` are the bucket and the time since its lazy refill; `concurrency` the scope's
counter (`rl.active`); `attempt` and `reserved` where an attempt is and what it was charged. `refilled` and `paid` are histories.

**Actions.** `RefuseTPM`, `ChargeTPM` (the check and charge), `QueueRefuses`, `Admitted` (the queue, whose inside is
`RateLimiter`), `Settle` (the meter), `ReleaseSlot` and `RefundRest` (`ProviderSlot.Release`, two sections of the mutex).

**Properties.** `BooksBalance` what the bucket holds, what is reserved and what served turns cost never exceeds the
limit and the refills, and attempts that were served nothing leave the bucket as full as they found it.
`ScopeIsSlotPool` the scope implements `SlotPool`, as the limiter and the gates do: a refusal by the queue takes nothing,
`Release` gives back what the attempt itself took, and the counter (`SlotsReturned`, which is part of it) goes back once on every path.

**Abstractions.** Ticks are bounded by `MaxTicks`; estimates and bills are members of `Sizes`. The concurrency
counter is the scope's own; requests of other scopes do not share it.

## 5. The failover

### AccountFallback: the failover of one provider (`handlers/chat`, `db/accounts*.go`)

**State.** `enabled`, `rate`, `park`, `lock` are columns and JSON fields of the connection rows;
`bound` is `SessionAffinityStore.entries`; `turn[t]` holds the local variables of
`handleAccountFallback` for one client turn. A stored instant is the set `{}` (absent) or `{n}`; `{0}`, an
instant that has passed and is still stored, differs from an absent one, because the code sometimes takes the
earlier of two. `unfit` is a history: accounts a turn could not have used at some time.

**Actions.** `BeginPinned`, `Refuse`, `Begin` build the list of candidates. `ChooseCandidate`,
`ChooseBySweep`, `NoChoice` are `getBestConnectionWithContext`: the candidate itself when it is usable (or
the turn is a probe), else the sweep with affinity, strategy and force fallback, without regard to the
accounts the turn already excluded. `RejectGrant` and `RefreshGrant` are what a token refresh during the
attempt does to the row. The answer is one of `Serve`, `PinnedFails`, `Fail`, `NodeRefuses`, `Deprecated`,
`FreeTierRefuses`, `Retryable`; each database statement after it is a step of its own (`Unlock`, `Clear`,
`BindServed`; `LockModel`, `CoolAccount`, `EvictBindings`). `Tick`, `Toggle` (the operator) and `Forget` (TTL or
capacity of the affinity store) are the environment.

**Properties.** `NoHealthyAccountOverlooked` a turn that runs out of accounts has dialled every account of
its list that stayed usable. `DialsBounded` at most one attempt per account of the list, although a sweep
may redirect a candidate. `AffinityKept` the first attempt of a bound session goes to its account.
`NoTraceOfProbes` a test or scheduled ping changes no lock, no cooldown, no binding, whatever turns come between.
`FailoverEnds` (liveness) every turn ends.

**Fairness** (`FailoverEnds` only). Each turn takes its next step: it is one goroutine and every upstream client
has a timeout. Nothing about time, the operator or the other turns.

**Abstractions.** The winner of round-robin is any account, the rotation of random any rotation: the
recency stamps and counters are left out. A cooldown is any length up to `MaxCooldown`; the backoff level
only scales it. A refresh happens at most twice per attempt (lazy, then forced). The reads of one
selection are one step. The second, canonical, lock key of Antigravity, the quota caches, the list of
models a Codex account is entitled to, strict model assignment, credentials borrowed from another
provider, providers without accounts, errors of the database and the text of the last error are left out.

### GuardedFailover: the loop above the breaker (`handlers/chat/forward.go:91-116`)

**State.** All of `CircuitBreaker`, each turn being one of its requests; `cooldown` per account, and `turns`
(candidates left, account on the wire, how the turn ended).

**Actions.** `Dial` is `resilienceAdmit` letting the attempt through, by whichever way `Allow` passes. `Refused` is
its refusal, with the stall check's effect where there is one: the loop takes the 503 for the account's and cools
it down. `TurnServed`, `ProviderFails` (charged to the breaker; a 502, 503 or 504 moves on, a 408, a 500 or a lost connection ends
the turn), `AccountFails` (a 401, 402, 403 or 429, reported to nobody), `RequestFails` (a plain 400).

**Properties.** `LoopUsesBreaker` (refinement): the loop is a caller as `CircuitBreaker` assumes it, so that what is checked
and proved there for any caller holds under it. A turn asks before each attempt and not while one is under way, reports an
answer at most once, and a refusal changes nothing but what the stall check changes. The mapping is the identity but for
`recovered`: for the breaker alone a provider has not recovered as long as an account of it may get a 401 or a 429, which
is reported to nobody. `GuardedTypeOK` (proved) includes that a turn has an account on the wire exactly while the breaker counts its
attempt in `flight`. `ServedForGood` (liveness, half of `OutagesEnd` in the run): once the provider has recovered, a time comes from which no turn fails, though
the breaker refuses for a while yet and its refusals cool down accounts that have done nothing.

**Fairness.** Each turn's goroutine runs and its attempt ends, clients keep asking, and time passes; a recovered
provider answers before the next tick.

**Abstractions.** The loop is the one of `AccountFallback` with one model, one egress and no session; an answer and
what it writes on the row are one step (`AccountFallback` has them apart). The run takes good accounts only
(`SpentAccounts` empty): with a spent account first in the order the property fails, which section 12 describes.

## 6. CircuitBreaker (`resilience/circuitbreaker.go`)

**State.** The fields of `CircuitBreaker`; `openFor` and `halfOpenFor` are the ticks since `openedAt` and
`halfOpenAt`. Counters saturate where the code only compares them. `flight` are the requests that were
admitted and have no answer yet. `probes` is a history: admissions in the present half-open period.
`recovered` says that the provider answers everything from here on.

**Actions.** `Allow` by the way it returns (`AllowPassing`, `AllowFirstProbe`, `AllowProbe`, `RefuseStalled`; other
calls change nothing), `RecordSuccess`, `RecordFailure`, `NotReported` (a 401, 429 or plain 400, which
`resilienceReport` charges to nobody), `Reset`. An answer may come in any state, however late.

**Properties.** `ProbesBounded` at most `HalfOpenRequests` admissions in a half-open period.
`NeverShutForGood` (liveness; `BreakerNotStuck` in the run) the breaker returns again and again to a state in which the
next call passes, even if no probe ever reports. `RecoveredProviderServes` (liveness; the other half of `OutagesEnd`) a
recovered provider is eventually admitted for good. Both are checked under any caller and the second under the failover
loop too.

**Fairness.** Clients keep asking, requests are answered or time out, time passes. A recovered provider
answers before the next tick, and its clients wait for it (a client that hangs up before the headers is
reported as a failure of the provider, `handlers/chat/forward.go:108`). The first assumption is needed: a
provider that always takes longer than the reset timeout can be kept from closing its breaker,
because the stalled period ends before the answer comes and `OPEN` ignores it.

## 7. OAuthRefresh: one connection and its four kinds of caller

**State.** `row` is the stored connection (its token and whether it is parked), `issued` the newest token of
the provider. Token `n` is what the provider's `n`-th answer contained; a refresh token works once and the
next is `n + 1`. `slot` and `holder` are `RefreshSlot` (last outcome, mutex); `cache` are the exchanges
`DedupRefresh` remembers for 10 s. `pc`, `snap`, `result`, `held`, `forcing` are local variables. `outside` is a
history: somebody other than a chat request exchanged a token or wrote the row.

**Actions.** A chat request: `Arrive`, then `RunRefresh` (`LazyAdopt`, `LazySkip`, `LazyReread`,
`LazyLead`), the dial (`Served`, `Unauthorized`), the forced refresh (`ForceLock`), `Ask` and the
flight shared by all callers with the same token (`Exchanged`, `Refused`, `Unanswered`), then `Persist`,
`Clear`, `Park`, `LazyFails`, `ForcedFails`, `Standard`. The background tick: `Select`, `Ask`, `TickReads`,
`TickWrites`, `TickClears`, `TickFails`, none under the lock. The test: `ProbeRead`, `ProbeSettled`,
`ProbeLock`, `Ask`, `ProbeUnlock`, `ProbeStore`. `Ageing` and `Lapse` are time.

**Properties.** `StoredTokenIsNewest` while only chat requests refresh, a free lock means the stored
refresh token is the provider's newest. `HealthyNotParked` under the same condition, an account with a
live grant is never parked. `LockNotLeaked` the mutex is held exactly by the caller inside its refresh.

**Abstractions.** The check that the token is expired and the read of the row are one step. `Unanswered` is an
error before the endpoint saw the request, or a 5xx; an answer lost after the exchange is not modelled (it loses
the grant whatever the router does). The refresh made by the usage page and the mirrors of an
API key (iFlow, Kiro) are left out. Liveness is left out.

## 8. Combos (`handlers/chat/combo*.go`)

### Combo: one turn through its entries, accounts and fallback combos

**State.** `stack` are the activations of `handleComboFallbackWithVisited`, the client's combo first, each with the
locals of the loop (position, pass, exclusions, last error, Retry-After notes, visited combos); `cand` the entry
being tried, with its response timeout's gate (`off`, `armed`, `committed`, `expired`). `parked` and `cooling` are
locks and cooldowns on the rows, `benched` is `timeoutBench`, `gone` the client's context, `reply` what the client was
written. Histories: `writers`, `asked`, `refusers`, `vetoed`, `entered`, `owed`, `cutShort`.

**Actions.** `StartEntry` (availability, the last candidate, the gate), `SelectAccount`, `SkipLocked`, `SendToAccount`,
`SendWithoutAccount`, `NodeBlocked`, `GiveEntryUp`; `FirstBytes` against `Expire` (the timer's goroutine);
`Served`, `Cancelled`, `Failed` with each class of answer; `LeaveEntry`, `EndPass`, `SecondPass`, `LeaveWait`;
`TryFallbackCombo`, `FinishCombo`, `Resume`. The environment: `HangUp`, `OthersCoolDown`, `OthersLock`,
`AccountRecovers`.

**Properties.** `ExpiredStaysSilent` a candidate whose timeout has fired adds no byte to the reply. `NoResend` within a
pass, no account is sent the same prompt twice by one entry, and one that refused for its quota or grant not by
a later one either. `VetoEndsCombo` a combo that the guardrail refused asks nobody else, unless the turn comes to it again
through another fallback combo. `NoEntryStarved` when the
client gets an error, every entry with an account usable throughout has been sent the prompt, and the bench
has not emptied the chain. `ErrorMeansExhausted` a retryable error reaches the client only after all fallback combos. `TurnEnds`
(liveness) the walk ends with a reply, unless the client has left; the fallback combos of the instance name
each other in a cycle.

**Fairness** (`TurnEnds` only). The turn's goroutine takes its steps; each wait of its own is bounded.

**Abstractions.** Which usable account is selected, and the order of a combo whose strategy ranks its entries,
are left open. A fallback combo that is missing or empty is passed over by the code (:1090-1100) and left out of `Fallbacks`. `Answers` bounds the kinds of upstream answer explored: `Services.cfg` takes a quota refusal
(always with a Retry-After that permits the second pass), a refusal by the node's own limit and one by the guardrail;
`ComboCommitted.cfg` a stream that breaks and a fault. Unused here but written in the module: the other classes of answer, which differ
in what they lock. Left out: reordering by capabilities, the sticky rotation, the text of the
terminal error. An entry's accounts are tried at most `MaxTries` times (ten in the code, :828).
`handleMessagesComboFallbackWithVisited` is the same loop for a Claude client.

### ComboBudget: call ceilings

`comboBudget` and `windowAge` are the shared map; `AskFresh` and `AskWithin` are `comboBudgetExhausted`, `Charge` is
`recordComboBudgetCall` with its pruning, which comes before the dispatch and after a time in which others may
have been charged and the window may have ended. `OvershootBounded` a window serves at most its ceiling plus
the other goroutines. `SpendKept` (action property) no charge of another combo forgets what a combo has
spent in a window that is still open. Both are proved. A guard bounds the counter (marked `bound`), for TLC only; the
counter does not otherwise matter to the code once the ceiling is reached.

### ComboFusion: a panel of parallel calls

`call` and `channel` are the goroutines and their buffered channel, `results` and `graceArmed` the collector's
locals, `stopped` the client or a shutdown. `PanelAccounted`: what has been received has left the channel and its goroutine is
over, and a goroutine that is over has left its answer with the collector or in the channel, unless the turn had gone on
without it; the collector counts what has settled by counting receives, so that an answer lost or taken twice would leave it
waiting for its hard timeout, or end it early. `FusionEnds` (liveness): the turn goes on and no goroutine of the panel outlives it,
under fairness of the collector, its hard timeout and the aborted calls; no upstream is assumed to
answer. The judge's own call is an ordinary turn and left out.

## 9. Stream relay and model health

### ResponsesRelay: a streamed answer on its way to a `/v1/responses` client

**State.** `script`, `sent`, `broke` are the upstream; `scan`, `read`, `taken`, `watched` the scanner; `watch` the goroutine
per awaited line that `idleWatch.scan` starts; `stall` the `StallReader` (with or without a first-event deadline:
`dual`); `bridge` the `ResponsesBridge` and its translation state; `dog` the completion watchdog; `wire` what the
client was written. `quiet` is a history.

**Actions.** `Await`, `TakeLine`, `StartRead`, `ReadData`, `ReadFails`, `FeedLine`, `CloseBridge`, `HandlerReturns` (the
handler's goroutine); `StallFires`, `FirstEventExpires`, `StreamCloses`; `Park`, `WindowElapses`, `TakesReleased`, `TakesDone`,
`Cut` (the watch of a line); `DogFires`, `EmitMarks`, `Emit` (the watchdog's function, which takes its own lock, then the
bridge's); `UpstreamSends`, `BreakOff`, `ClientLeaves`, `ShutDown`.

**Properties.** `NothingAfterTerminal` nothing is written after the terminal event nor into the reply of a handler that
has returned. `WaitsAreWatched` is two things. `OwedIsWatched`: while the bridge waits for a trailer, the watchdog's timer is armed or its function is under
way: the function marks itself before it has the bridge's lock, and from then on no timer is set again, so whoever holds the
lock meanwhile must leave it something to end. `ReadIsTimed`: a read that waits has its timer armed, or the function about to
close the body, or the body closed. Both are what the next one rests on, and are proved. `RelayEnds` (liveness) the relay returns whatever the upstream does, and a client that has stayed has been
written its terminal event; the reader with a first-event deadline is excepted once it has seen data (section 12).

**Fairness.** The gateway's goroutines run and its timers fire; upstream and client may be silent for good.

**Abstractions.** Durations are left out. An event and the blank line that ends it are one line. `MaxLines` bounds a
script. The keep-alive comments of the `HeartbeatWriter` are left out.

### ModelHealth: the loop against the operator's panel

**State.** `disabled` and `row` are the key-value rows; `loop` and `put` the locals of the loop's goroutine and of one
request of the panel, with the copies each has read; `healthy` says that models answer from here on. `byHand`, `raced` and
`streak` (a model's failing probes since the last that passed) are histories.

**Actions.** `Evaluate`, `onSuccess`, `onFailure`, `ReadList`, `SaveList`, `ReadRow`, `WriteMark` (the loop, one table access per step);
`ReadPrevious`, `MergeRequest`, `SaveRequest`, `ReadReported`, `ClearReported`, `RequestEnds` (the panel);
`SwitchAutoEnable`, `Heal`, `Restart` (anywhere, with the rows that were written).

**Properties.** `DisabledHasOwner` a model that is off is the operator's, or carries the loop's mark, or is about to: nothing
else would switch it on again. `ChangesEarned` (action property) the loop switches a model off only after `Threshold` probes
that failed in a row, and on only with auto-enable and after one that passed: as they are at the moment of the write and not
in the counter row, which was read before a probe of seconds and may be written back old. This holds whatever overlaps; another
model than the one evaluated changes only where a request overlapped, whose change the list, written whole from a copy, then
undoes. `SchedulerUndoesItsOwn` (liveness; `ModelsGivenBack` in the run) a model that the loop switched off is on again once it answers and
auto-enable is on, whatever the scope and however often the process restarted. Histories in which a request of the
panel overlapped an evaluation, or a crash fell between list and mark, are left out of the first and the last (`raced`): in
those a model can stay off and belong to nobody, and no comment says otherwise.

**Abstractions.** One provider; the order of a pass is fixed; the audit log and the polling of the configuration
are left out. Restarts are bounded by `MaxRestarts`, and the failure counter saturates at the threshold.

## 10. Runs

| Run | Instance | Distinct states | What it shows |
|---|---|---|---|
| `Limiters` | `keys`: three requests of a key with RPM 2 and concurrency 1, one of a key with RPM 1, window 2, depth 1. `evicts`: `maxKeys` = number of keys, a limit raised while requests wait, depth 2. `gates`: three requests of an account with one slot, operator resets. `blocks`: two, and a 429 that sets the limit to two | 2.96 M | limits, slots, grants, wakeups, eviction; gates implement `SlotPool` |
| `RateLimiterConc` | four requests, concurrency 2, no RPM, depth 3; fair | 14 k | order and service on such keys; the limiter implements `SlotPool` |
| `AccountFallback` | `turns`: two concurrent turns, one in a session, two accounts, round-robin, force fallback. `kinds`: one turn at a time of each kind, two models, an OAuth account, two pools, free tier, operator | 3.2 M | failover under interleaving; probes |
| `Services` | nine parts, one at a time: a breaker (three requests, threshold 2, two half-open places); two clients of two accounts behind that breaker; a combo turn; two ceilings; a panel of three; a token bucket; the model-health loop over one model with one restart, and any request of the panel at any time; the relay (two scripts, both readers); one failover turn after the other | 0.53 M | safety and liveness of each; the failover loop implements the breaker's specification, the provider scope `SlotPool` |
| `OAuthRefresh` | two chat requests, tick, test, one rotation | 3.5 M | lock, stored token, parks |
| `AccountFallbackParked` | one turn, one OAuth account of two | violation | 12.1 |
| `AccountFallbackEgress` | one turn, two accounts, two pools | violation | 12.2 |
| `OAuthRefreshSlot` | two chat requests, two rotations | violation | 12.3 |
| `OAuthRefreshReplay` | one chat request, tick, test | violation | 12.4 |
| `ComboCommitted` | one entry with two accounts | violation | 12.5 |
| `ResponsesRelayFlow` | one whole turn with keep-alive and trailer | violation | 12.6 |
| `ModelHealthOperator` | one model, no restart | violation | 12.7 |

**Why the bounds suffice.** Limiter: a race of the grant path needs a holder, a head and one behind it,
which is three requests of one key; eviction needs a second key; a window of two ticks lets two stamps
expire at different times. Gates: a dropped gate serves beside its successor only with a goroutine in each
and one between look-up and entry; four addresses are as many as the goroutines and the registry can refer to.
Failover: a hazard needs one turn that dials and one that changes a row in between; two accounts make one the
redirection of the other; a cooldown of one tick passes through the three forms of a stamp (ahead, passed,
absent). Breaker: at threshold 2 it is degraded after one failure and open after two, two places separate the first probe from the
others, one doubling shows the escalation. Breaker under the failover: while the breaker is open, or both places are
taken by attempts that are reported to nobody, each refusal cools down one of two accounts, and two clients meet both. Combo: two entries that share an account, and three combos
that name each other, one reached by two others. The gates' limit and `Block`'s default differ, so that a 429
raises the limit of a gate in use. Ceilings: a short and a long window, so that one combo's
charge prunes the other's; the proofs cover any number. Refresh: one rotation makes a spent token; the proofs
cover any number. Relay: one script waits for its trailer, the other has an event after its end. Model health: a threshold of two tells
consecutive failures from total ones, and one restart falls between any two writes; the theorems cover any number of models.

No run disables the deadlock check: in every model some environment step stays possible, or a turn that is over
stutters explicitly (`Ended`, `Over`, `Fused`), so the properties above carry the weight for goroutines that wait.

## 11. Proofs

Seven proof modules, one per group of components, and `Selection_proofs`, the lemmas they share. Each defines an
inductive invariant, shows that the initial states satisfy it and that every step preserves it (one lemma or step per
action), and derives its theorems from it. Every conjunct beyond the property is there because the property alone is not
inductive; TLC checked the strengthened invariants on the runs' instances before they were proved.

* **Selection.** `Keep(s, A)` is the sequence of the members of `s` that are in `A`, by a recursive function over its
  length; `removeWaiter`, the exclusion of accounts and the bench are uses of it (`SelectSeq` would read as well, but the
  prover knows nothing about it). `KeepProperties` and `KeepDistinct` are proved by induction over the length.
  The library's induction theorems are about an operator, which no installed prover can instantiate; `SetInduction` states
  induction for a set of numbers and follows from the well-foundedness of `<`. With it, facts about recursive functions are
  within reach, here and in the sums of `TokenBucket`.
* **RateLimiter.** `IInv` is `TypeOK`, `QueuesOK`, `GrantsHaveOwners`, `SlotAccounting` and `WithinCeiling`.
  `QueuesOK` says that no waiter is queued twice, that a queue holds only requests of its key, and that a queued
  waiter is either parked or leaving, or done and back at rest; without it a waiter could be granted twice and
  `SlotAccounting` would not be inductive. `WithinCeiling` bounds the counter by the key's largest limit.
  `RpmCapped` adds `NothingForgotten` (the limiter's window is the true history), which needs fewer keys than `MaxKeys`.
  `ImplementsSlotPool` is the refinement: by the invariant and `OneOwnerPerStep`, every step changes the
  holders of at most one key by at most one request, and by `ConcurrencyRespected` after the step, one that was added
  found a free slot. `WakeupsNotLost` rests on `WakeInv`: the stamps of a window are in order of age (so the first live one
  is the oldest, `OldestLive`), a timer is due no later than any live stamp expires (`InTime`), and whenever the pump is not
  at work on a key, its head is alive and has a timer if a slot is free for it (`Attended`). The pump breaks `Attended` for
  its own key and restores it before it gives the lock back, whichever of its ends it takes. `ArrivalOrder` follows from the
  same invariant and `Untimed`: a key without RPM limit has no timer, so a live head means that no slot is free, and the fast
  path is closed.
* **TokenBucket** (in `RateLimiter_proofs`). The books are a sum over attempts, a fold of the library: `AddsBuilt` shows that
  the recursive function inside it exists on the subsets of a finite set, `SubsetInduction` is induction over them, and
  `SumType`, `SumChange`, `SumCovers` say that the sum is a number, follows a change of one term and covers each of them.
  `BooksBalance` is not inductive (its last conjunct speaks of an empty table); `BucketBounds` is: level, reserved and paid
  stay below the limit and the refills, and while nobody was served level and reserved stay at or above the limit.
  `ProviderIsSlotPool` is the refinement: `Admitted` takes one slot, `ReleaseSlot` gives one back, and since the counter is
  the number of attempts that hold a slot, the check against the limit is one on the pool.
  Results: `BucketBalances`, `SlotsGoBackOnce`, `ProviderIsSlotPool`.
* **AccountSemaphore.** `Shape` (types, `Pointers`, `Grants`, `Lines`): a goroutine points to a gate exactly while it is
  inside a call, a granted slot is on one way to one waiter, a line holds waiters of its gate that have been granted
  nothing, each once. On it rest `RunningIsHolders` and, with `Limits` (a gate in use has the limit of its last caller) and
  `Blocks` (somebody sleeps at every blocked gate), `NoneStranded`. `GatesAreSlotPools` is the refinement of `SlotPool`:
  `Enter` and `Dequeue` take one slot, `ReleaseSlot` gives one back, every other step, the reuse of a gate's address
  included, is a stutter. Results: `SemaphoreTyped`, `NoSlotLeaks`, `NoWaiterStranded`, `GatesAreSlotPools`.
* **AccountFallback.** `IInv` is `TypeOK`, `Sound` of every turn, and that what a turn in progress cannot use now is in its
  history `unfit`. `Sound` carries the three arguments: every account of the list was dialled, was unfit at some time, or is
  still to come (`HealthyAccountsTried`); attempts made and candidates left add up to no more than the list
  (`AttemptsBounded`, although a sweep may dial an account that is not the candidate, and dial one twice); the bound account
  is at the front until the first attempt (`SessionsKeepTheirAccount`). Since only `unfit` mentions other turns and it only
  grows, interleaving does not disturb a turn's part. `ProbesAreNoEvidence` shows `ProbesLeaveNoTrace` step by step from
  `Writing` stages never being a probe's.
* **CircuitBreaker.** `ProbesBounded` is not inductive: a half-open breaker with a place left and
  `HalfOpenRequests` admissions satisfies it, and the next admission breaks it. `PlacesAddUp` (admissions plus
  places left is the option) and `NoProbesOutside` (no admissions counted in another state) are.
  Results: `TypeCorrect`, `ProbesCapped`, for any number of goroutines and any options.
* **GuardedFailover** (in `CircuitBreaker_proofs`). `GuardedIInv` is `GuardedTypeOK`, the two conjuncts above, and
  `WireOfOpenTurn`: a turn has an account on the wire only while it is open, without which a new turn of a request could
  start with its predecessor's attempt under way. `GuardedRefinement` maps each step of the loop to one of the breaker: `Dial` to
  the way `Allow` passed, `Refused` to the stall check or to nothing, an answer to what is reported of it, every step on
  cooldowns and candidates to a stutter. Results: `GuardedTypeCorrect`, `GuardedProbesCapped`, `GuardedRefinement`.
* **ModelHealth** (in `CircuitBreaker_proofs`). `DisabledHasOwner` is not inductive: it says nothing of the copies that the
  loop and the panel have read and will write. `OwnerInv` does, as long as nothing overlapped: one of the two is at work at a
  time (`OneAtATime`), what the loop has read is still so (`LoopCopies`), and a request clears no mark of a model that is off
  (`RequestCopies`). `StreakInv` carries `ChangesEarned` through every overlap and restart: the counter rows, however old the copy
  that is written back, lag behind the streaks, and a change on its way to the list was decided on a streak that is
  still the same, because the loop probes no model in between. Results: `HealthTypeCorrect`, `NoModelLost`, `ListChangesEarned`,
  for any models, thresholds and number of restarts.
* **OAuthRefresh.** `IInv` is `TypeOK`, `LockNotLeaked`, `ResultKept` (who is about to write a result has one),
  `CacheSpent` (a remembered exchange is of a spent token) and `Untouched`: as long as nobody else touched the
  connection, the row is not parked, holds the newest token whenever no chat request has the lock, and the
  one that has it read, or was given, the newest token. Results: `TypeCorrect`, `LockReleased`,
  `StoredTokenNewest`, `HealthyAccountKept`, for any callers and any number of rotations.
* **Combo.** `TurnInv` is `TurnTypeOK` with `GateInv` (no byte is out while a timer can fire), `PositionInv`, `AskInv` (who was
  sent the prompt at this entry is excluded from its next selection, who refused the pass from those of later entries; the
  three exclusion lists of the loop, nested as deeply as its levels), `VetoInv` (a vetoed activation is on its way out) and
  `FallbackInv` (the client's combo stays at the bottom of the stack and has entered the fallback combos up to its
  position). Lemmas on the stack (`Rewritten`, `Pushed`, `Returned`) reduce each action to what it does to the top activation.
  `EveryEntryTried` adds `OwedInv`, which counts: until an entry has sent the prompt, every selection that came to nothing has
  excluded one more of its accounts (`OwedEntry`), so that an entry with at most `MaxTries` accounts cannot run out of tries
  before one that is owed the prompt is selected. Results: `TurnTyped`, `TimeoutAndBytesExclude`, `FallbacksExhausted`,
  `NoAccountAskedAgain`, `VetoEndsTheCombo`, `EveryEntryTried`, for any combos, chains, accounts and graph of fallbacks.
* **ComboBudget** (in `Combo_proofs`). `OvershootBounded` is not inductive: it says nothing of the goroutines that have asked
  and not been charged. `PendingFits` counts those that were let through against what is left of the ceiling, and
  `AllCounted` says that the counter has seen every dispatch of the window. Results: `OvershootCapped`, `SpendNotForgotten`,
  for any number of goroutines and combos, any ceilings and windows.
* **ComboFusion** (in `Combo_proofs`). `FusionInv` is `FusionTypeOK`, `PanelAccounted`, and that the channel holds one answer of a
  goroutine at most: without it a receive could leave a second answer of the same call behind. Results: `FusionTypeCorrect`,
  `NoAnswerLost`, for any panel and quorum.
* **ResponsesRelay.** `SealInv` is the type of the bridge, `TerminalCompletes` (a terminal event on the wire means a
  completed translation), `CompletedSeals` (a completed translation means a bridge that is finished or broken) and
  `ClosedIsSealed` (a handler past the bridge's `Close` has a sealed bridge). Each of the three writers (feed,
  watchdog, `Close`) checks the seal under the bridge's mutex, and the invariant is what makes that check
  enough. `WatchInv` is `RelayTypeOK`, `OwedIsWatched`, `ReadIsTimed` and `DogInv`, what the watchdog's two locks leave between
  them: a timer that has fired has its function running, and once the function has marked itself no timer is set again, because
  it is about to seal the bridge or somebody has. Results: `ReplySealed`, `RelayTypeCorrect`, `NoWaitForgotten`, for any
  scripts and readers.

**Assumptions.** Those of the modules on their constants (`LimitsAssumption`, `FreeNotKey`, `BucketAssumption`,
`SemaphoreFits`, `ConstantsFit`, `OptionsAssumption`, `CallersAssumption`, `TokensAssumption`, `ComboConstants`,
`BudgetAssumption`, `PanelAssumption`, `LoopAssumption`, `HealthAssumption`, `ScriptsAssumption`), which TLC evaluates in every run of a module that extends theirs, and two premises stated
in theorems: fewer keys than `maxKeys` (`RpmCapped`), and `TriesSuffice`, no entry with more accounts than tries
(`EveryEntryTried`). `ComboConstants` asks that no combo is empty (the code passes over those that are)
and that chains and lists of fallbacks are finite sequences of what exists. The two premises can be false in production, and then
the properties can be too.

**What the proofs changed.** `NoneStranded` and `VetoEndsCombo` were stronger once and held on the runs' instances, which were
too small: no gate had its limit lowered and raised again, and no combo could be reached by two fallbacks. The invariants that
the proofs needed failed there. Both now say what the code keeps, the instances (`Limiters`, `Services`) have grown to include
the cases, and section 12 describes them.

**Model-checked only.** All liveness (`ConcurrencyWaiterServed`, `FailoverEnds`, `BreakerNotStuck`, `OutagesEnd`, `TurnEnds`,
`FusionEnds`, `RelayEnds`, `ModelsGivenBack`): fairness and ENABLED are beyond the prover. Every invariant and action property of
a component is a theorem; `EvictionSparesBusyKeys` is `SlotAccounting` and `NoLostWakeup` of a limiter with as many keys as its maps
may hold, which `SlotsAccounted` and `WakeupsNotLost` cover for every number of keys. No module uses a RECURSIVE operator.

## 12. Where the code and its comments disagree

1. **A parked account is dialled** (`AccountFallbackParked`, `ParkedNotSelected`). `ConnectionBlockedUntil`
   (`db/accounts_oauth_lock.go:88-98`) returns the earlier of two stamps; an expired, still stored
   `rateLimitedUntil` hides a live `oauthLockedUntil`.
2. **An egress is never tried** (`AccountFallbackEgress`, `EgressesTried`). After a free-tier refusal the
   comment (`handlers/chat/fallback.go:283-286`) says the same account is retried through the next pool; the
   loop continues with the next account.
3. **An old token is adopted** (`OAuthRefreshSlot`, `AdoptsStoredToken`). Nothing clears a slot's outcome and there is no
   generation counter, contrary to `proxy/oauth/singleflight.go:18-19`: later lazy refreshes return the first token of
   the process.
4. **A spent refresh token is sent** (`OAuthRefreshReplay`, `TokensSpentOnce`). The background tick takes no lock and the
   test reads its token before it takes the lock, contrary to
   `handlers/dashboard/connection_probe.go:937-939`.
5. **Two answers in one reply** (`ComboCommitted`, `OneCandidateAnswers`). The error branches of the combo loop
   (`handlers/chat/combo.go:1021-1032`) do not ask whether the reply has begun: a stream that breaks off is followed by
   the next account's answer, contrary to `handlers/chat/forward.go:277-279`.
6. **A flowing stream is cut** (`ResponsesRelayFlow`, `FlowNeverCut`). `idleWatch.scan` closes `released` and cancels the
   context in one breath (`proxy/sse_scanner.go:131-133`); a watch that comes late to its select may take the
   cancellation for an expired window and close the body, contrary to :72-75.
7. **The operator is overruled** (`ModelHealthOperator`, `OperatorOutranks`). The loop marks a model as its own without
   asking whether it was already off (`modelhealth/loop.go:298`), and switches it on after a passing probe, although the
   package re-enables "only what it disabled itself".

Formulas that the modules state, that do not hold, and that no run asks for:

* `NoOvertaking` (`RateLimiter`): the fast path (`middleware/ratelimit.go:232`) does not look at the queue, so when a stamp
  expires, a request that arrives before the wake timer's function runs passes those that wait, against :29-33.
* `AccountCapped` (`AccountSemaphore`): a gate that is dropped between a caller's look-up and its entry serves beside
  its successor, and so does one that an operator's reset has forgotten.
* `VetoEndsTurn` (`Combo`): inside a fallback combo a guardrail refusal is discarded (`combo.go:951-956`, `:1053-1056`), and
  the caller goes on to its other fallback combos. Through one of them it may come to the refused combo again and send it
  the same prompt: `visited` is copied for each descent (:1103-1107) and what a sibling visited is not in the copy.
* `TimeoutNeverFails` (`Combo`): the entry presumed last is computed when an entry is opened, and that entry's own refusals can
  leave the later ones without an account, after a candidate was cut short for them.
* `IdleGapsBounded` (`ResponsesRelay`): the first-event timer's function returns once data has been seen
  (`proxy/stall.go:88`), and `Read` goes on resetting this same timer, against :75-78; after the first event, silence is
  not detected.
* `ServedForGood` (`GuardedFailover`) with a spent account first in the order: it takes the only half-open place each
  time, its 429 or 401 is reported to nobody, the breaker refuses the good accounts meanwhile and then counts a failed cycle,
  against the intent of `handlers/chat/forward.go:91-92` ("one busy account must not throttle the others").

Observed while modelling, and not stated as formulas:

* `CHANGELOG.md:516` says that "a success reported by a request that went out before it opened does not close" the breaker. In
  `HALF_OPEN` it does: `RecordSuccess` does not ask which request reports. Its failure reopens and escalates.
* A refusal by the account gate after `Allow` has taken a half-open place reports nothing to the breaker; the stall
  check recovers the place.
* `Block` reaches its gate with the default limit, and so overwrites the caller's. Where that lowers the limit, the next
  caller's look-up raises it again (`resilience/semaphore.go:67-70`) without a drain: requests wait in line although slots
  are free, until a holder releases. `NoneStranded` therefore promises a look at the line and not a free slot there.
* The loop over an entry's accounts ends after ten tries (`combo.go:828`), locked ones included: an entry with more
  accounts may be left with usable ones that were never asked. `EveryEntryTried` is proved for entries with at most ten.
* `modelhealth/loop.go:22-24` describes a verdict `Blocked` that nothing uses.
* Answers without text count for the quorum of a panel (`combo_fusion.go`), though the judge is not given them.
* `ErrStreamFirstEvent` may be reported after data has been relayed, and `ClassifyStreamAbort`
  (`proxy/sse_error.go:64`) does not know it. A chunk that cannot be parsed makes `parseChatChunk` return nil, which the
  translation takes for the end of the turn. In `proxy/executor/zcode.go:388` the body is wrapped in `io.NopCloser`, so
  that the reader's `Close` cannot wake a blocked read.
* `keikey`'s look-up may put back a key that was invalidated while it read.

## 13. What is not covered

Section 1 and the components of `PROJECT.json` name the parts that have no module, with the reason: most of the
repository by size is format conversion (executors, translators, media), CRUD of the dashboard, a web UI and
documentation, none of which has behaviour that a state space would show. Within the modelled parts, the abstractions
of sections 4 to 9 are the limits of what the checks and proofs say. The hazards in `PROJECT.json` without a property, and
those a property covers with an exception, carry a note; most belong to the plan's remaining steps. Not modelled although
concurrent: the rotation stamps of `selectByRecency`, the capacity of the affinity store, the two scopes a request
charges in the middleware, the relays of clients other than `/v1/responses`, and the refresh made by the usage page.
