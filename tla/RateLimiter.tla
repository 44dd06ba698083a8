------------------------------ MODULE RateLimiter ------------------------------
(***************************************************************************)
(* The per-key admission of internal/middleware/ratelimit.go: a sliding    *)
(* window of request stamps (RPM), a concurrency counter, and one FIFO     *)
(* queue of parked requests per key, with a wake timer and the eviction of *)
(* idle keys.  The same maps serve API keys and "prov:" provider keys.     *)
(*                                                                         *)
(* A request is a goroutine that calls Acquire, is served, and calls       *)
(* ReleaseConcurrency.  Every critical section of rl.mu is one step, but   *)
(* the loop of pumpLocked takes one step per iteration with `mu` held, so  *)
(* that no other critical section can run before the pump has ended.       *)
(* Time is discrete: a stamp is its age in ticks, saturated at Window,     *)
(* where it has left the window.                                           *)
(***************************************************************************)
EXTENDS Integers, Sequences, FiniteSets

CONSTANTS
    Keys,           \* the keys of the limiter's maps
    Requests,       \* goroutines that may call Acquire
    KeyOf,          \* the key each request is charged to
    Rpm,            \* the RPM limit each request is admitted under, 0 for none
    Conc,           \* its concurrency limit, 0 for none
    CanWait,        \* the requests whose queue timeout is positive
    RpmCeiling,     \* per key, the largest RPM limit of its requests
    ConcCeiling,    \* per key, the largest concurrency limit of its requests
    Window,         \* rl.window, in ticks
    MaxKeys,        \* rl.maxKeys
    MaxQueueDepth   \* rl.maxQueueDepth

ASSUME LimitsAssumption ==
    /\ IsFiniteSet(Requests) /\ IsFiniteSet(Keys)
    /\ KeyOf \in [Requests -> Keys]
    /\ Rpm \in [Requests -> Nat] /\ Conc \in [Requests -> Nat]
    /\ CanWait \subseteq Requests
    /\ RpmCeiling \in [Keys -> Nat] /\ ConcCeiling \in [Keys -> Nat]
    /\ \A r \in Requests : /\ Rpm[r] <= RpmCeiling[KeyOf[r]]
                           /\ Conc[r] <= ConcCeiling[KeyOf[r]]
    /\ Window \in Nat \ {0} /\ MaxKeys \in Nat \ {0}
    /\ MaxQueueDepth \in Nat \ {0}

ASSUME FreeNotKey == "free" \notin Keys

VARIABLES
    mu,         \* "free", or the key whose pump holds rl.mu
    windows,    \* per key, the ages of its stamps, oldest first
    present,    \* the keys that have an entry in rl.windows
    active,     \* per key, the concurrency counter
    queues,     \* per key, the parked waiters, head first
    timers,     \* per key, ticks until its wake timer is due, or NoTimer
    pc,         \* where each request's goroutine is
    done,       \* waiters whose caller gave up (waiter.done)
    granted,    \* waiters with a slot in their grant channel, not yet received
    recent      \* history: the stamps of the key's admissions, never evicted

vars == <<mu, windows, present, active, queues, timers, pc, done, granted, recent>>

Free == "free"
NoTimer == -1
Ages == 0..Window

Phases == {"idle", "parking", "parked", "leaving", "serving"}

TypeOK ==
    /\ mu \in Keys \cup {Free}
    /\ windows \in [Keys -> Seq(Ages)]
    /\ present \subseteq Keys
    /\ active \in [Keys -> Nat]
    /\ queues \in [Keys -> Seq(Requests)]
    /\ timers \in [Keys -> Ages \cup {NoTimer}]
    /\ pc \in [Requests -> Phases]
    /\ done \subseteq Requests
    /\ granted \subseteq Requests
    /\ recent \in [Keys -> Seq(Ages)]

Init ==
    /\ mu = Free
    /\ windows = [k \in Keys |-> <<>>]
    /\ present = {}
    /\ active = [k \in Keys |-> 0]
    /\ queues = [k \in Keys |-> <<>>]
    /\ timers = [k \in Keys |-> NoTimer]
    /\ pc = [r \in Requests |-> "idle"]
    /\ done = {}
    /\ granted = {}
    /\ recent = [k \in Keys |-> <<>>]

-------------------------------------------------------------------------------
(* The sliding window. *)

\* How many stamps are still inside the window.
Live(s) == Cardinality({i \in DOMAIN s : s[i] < Window})

\* The stamps still inside the window: expired ones are a prefix.  A failed attempt
\* compacts the window too, which nobody can observe and the model leaves out.
Compact(s) == SubSeq(s, Len(s) - Live(s) + 1, Len(s))

HasRoomOffByOne(r) == Rpm[r] = 0 \/ Live(windows[KeyOf[r]]) <= Rpm[r]     \* mutant

HasRoom(r) == Rpm[r] = 0 \/ Live(windows[KeyOf[r]]) < Rpm[r]

HasSlotOffByOne(r) == Conc[r] = 0 \/ active[KeyOf[r]] <= Conc[r]          \* mutant

HasSlot(r) == Conc[r] = 0 \/ active[KeyOf[r]] < Conc[r]

\* tryAdmitLocked admits a request that has room on both axes.
Admissible(r) == HasRoom(r) /\ HasSlot(r)

\* A window lookup creates the map entry, whether or not the request is admitted.
Touched(r) == IF Rpm[r] > 0 THEN present \cup {KeyOf[r]} ELSE present

IdleWithHolders(k) == queues[k] = <<>>                                    \* mutant

\* keyBusy and the parked waiters protect a key from eviction.
Idle(k) == active[k] = 0 /\ queues[k] = <<>>

\* The sets of keys evictIfNeededLocked may drop: Go's map order picks among the
\* idle keys, and the sweep stops at 9/10 of the cap.
Evictions(keep, entries) ==
    LET idle   == {k \in entries \ {keep} : Idle(k)}
        target == (MaxKeys * 9) \div 10
        excess == Cardinality(entries) - target
        quota  == IF Cardinality(idle) < excess THEN Cardinality(idle) ELSE excess
    IN  IF Cardinality(entries) < MaxKeys
        THEN {{}}
        ELSE {gone \in SUBSET idle : Cardinality(gone) = quota}

\* The history keeps one stamp more than the limit allows, enough to see it broken.
Remember(s, limit) ==
    Append(IF Len(s) > limit THEN Tail(s) ELSE s, 0)

\* What an admission drops: recordStampLocked sweeps, sparing the admitted key,
\* before it appends the stamp.  An admission without an RPM limit sweeps nothing.
Swept(r) ==
    IF Rpm[r] > 0 THEN Evictions(KeyOf[r], present \cup {KeyOf[r]}) ELSE {{}}

Stamped(k, gone) ==
    [x \in Keys |-> IF x \in gone THEN <<>>
                   ELSE IF x = k THEN Append(Compact(windows[k]), 0)
                   ELSE windows[x]]

\* tryAdmitLocked on success: slot and stamp are claimed together.
Admit(r) ==
    LET k == KeyOf[r] IN
    \E gone \in Swept(r) :
        /\ active' = [x \in Keys |-> IF x \in gone THEN 0
                                    ELSE IF x = k /\ Conc[r] > 0 THEN active[k] + 1
                                    ELSE active[x]]
        /\ timers' = [x \in Keys |-> IF x \in gone THEN NoTimer ELSE timers[x]]
        /\ present' = Touched(r) \ gone
        /\ windows' = IF Rpm[r] > 0 THEN Stamped(k, gone) ELSE windows
        /\ recent' = IF Rpm[r] > 0
                     THEN [recent EXCEPT ![k] = Remember(Compact(@), RpmCeiling[k])]
                     ELSE recent

-------------------------------------------------------------------------------
(* Acquire and ReleaseConcurrency. *)

Items(s) == {s[i] : i \in DOMAIN s}

InQueue(r) == r \in Items(queues[KeyOf[r]])

\* A goroutine that is free to send another request: its last waiter, if any, has
\* left the queue.
Fresh(r) == pc[r] = "idle" /\ ~InQueue(r)

UnlockOnly(k) == mu' = Free                                               \* mutant

\* A critical section that ends by pumping keeps rl.mu for the pump.
PumpThenUnlock(k) == mu' = k

\* The fast path of Acquire: try once, whatever is queued.
AdmitFast(r) ==
    /\ mu = Free /\ Fresh(r) /\ Admissible(r)
    /\ Admit(r)
    /\ pc' = [pc EXCEPT ![r] = "serving"]
    /\ UNCHANGED <<mu, queues, done, granted>>

\* The fast path fails.  Without a queue timeout the request is refused at once;
\* with one it goes on to park, after giving rl.mu back.
MissFast(r) ==
    /\ mu = Free /\ Fresh(r) /\ ~Admissible(r)
    /\ present' = Touched(r)
    /\ pc' = [pc EXCEPT ![r] = IF r \in CanWait THEN "parking" ELSE "idle"]
    /\ UNCHANGED <<mu, windows, active, queues, timers, done, granted, recent>>

\* The caller is already gone when Acquire looks at its context.
CancelBeforeQueue(r) ==
    /\ pc[r] = "parking"
    /\ pc' = [pc EXCEPT ![r] = "idle"]
    /\ UNCHANGED <<mu, windows, present, active, queues, timers, done, granted, recent>>

\* The second critical section: refuse at the depth cap ...
RefuseFull(r) ==
    /\ mu = Free /\ pc[r] = "parking"
    /\ Len(queues[KeyOf[r]]) >= MaxQueueDepth
    /\ pc' = [pc EXCEPT ![r] = "idle"]
    /\ UNCHANGED <<mu, windows, present, active, queues, timers, done, granted, recent>>

\* ... or enqueue at the tail and pump before unlocking.
Enqueue(r) ==
    /\ mu = Free /\ pc[r] = "parking"
    /\ Len(queues[KeyOf[r]]) < MaxQueueDepth
    /\ queues' = [queues EXCEPT ![KeyOf[r]] = Append(@, r)]
    /\ pc' = [pc EXCEPT ![r] = "parked"]
    /\ done' = done \ {r}
    /\ PumpThenUnlock(KeyOf[r])
    /\ UNCHANGED <<windows, present, active, timers, granted, recent>>

\* The select of Acquire receives the grant.
Receive(r) ==
    /\ pc[r] = "parked" /\ r \in granted
    /\ granted' = granted \ {r}
    /\ pc' = [pc EXCEPT ![r] = "serving"]
    /\ UNCHANGED <<mu, windows, present, active, queues, timers, done, recent>>

\* The select takes the timer or the context instead; a grant may already be in
\* the channel, or arrive before the goroutine has locked rl.mu again.
Expire(r) ==
    /\ pc[r] = "parked"
    /\ pc' = [pc EXCEPT ![r] = "leaving"]
    /\ UNCHANGED <<mu, windows, present, active, queues, timers, done, granted, recent>>

\* A slot granted as the caller gave up goes back; the stamp stays spent.
ReturnsSlot(r) == r \in granted /\ Conc[r] > 0

\* Mutant: the grant is left in the channel of a waiter nobody reads.
GiveUpUndrained(r) ==
    /\ mu = Free /\ pc[r] = "leaving"
    /\ done' = done \cup {r}
    /\ active' = [active EXCEPT ![KeyOf[r]] = IF ReturnsSlot(r) THEN @ - 1 ELSE @]
    /\ pc' = [pc EXCEPT ![r] = "idle"]
    /\ PumpThenUnlock(KeyOf[r])
    /\ UNCHANGED <<windows, present, queues, timers, granted, recent>>

\* Acquire's last critical section: mark the waiter done, hand back a slot that
\* was granted meanwhile, and pump.
GiveUp(r) ==
    /\ mu = Free /\ pc[r] = "leaving"
    /\ done' = done \cup {r}
    /\ granted' = granted \ {r}
    /\ active' = [active EXCEPT ![KeyOf[r]] = IF ReturnsSlot(r) THEN @ - 1 ELSE @]
    /\ pc' = [pc EXCEPT ![r] = "idle"]
    /\ PumpThenUnlock(KeyOf[r])
    /\ UNCHANGED <<windows, present, queues, timers, recent>>

\* The request ends: the middleware's deferred ReleaseConcurrency, taken only by a
\* request that has a concurrency limit.
Release(r) ==
    /\ pc[r] = "serving" /\ Conc[r] > 0
    /\ mu = Free
    /\ active' = [active EXCEPT ![KeyOf[r]] = IF @ > 0 THEN @ - 1 ELSE 0]
    /\ pc' = [pc EXCEPT ![r] = "idle"]
    /\ PumpThenUnlock(KeyOf[r])
    /\ UNCHANGED <<windows, present, queues, timers, done, granted, recent>>

EndUncapped(r) ==
    /\ pc[r] = "serving" /\ Conc[r] = 0
    /\ pc' = [pc EXCEPT ![r] = "idle"]
    /\ UNCHANGED <<mu, windows, present, active, queues, timers, done, granted, recent>>

-------------------------------------------------------------------------------
(* pumpLocked, one loop iteration per step. *)

Waiting(k) == queues[k] # <<>>

PumpDiscard(k) ==
    /\ mu = k /\ Waiting(k) /\ Head(queues[k]) \in done
    /\ queues' = [queues EXCEPT ![k] = Tail(@)]
    /\ done' = done \ {Head(queues[k])}
    /\ UNCHANGED <<mu, windows, present, active, timers, pc, granted, recent>>

PumpGrant(k) ==
    /\ mu = k /\ Waiting(k) /\ Head(queues[k]) \notin done
    /\ Admissible(Head(queues[k]))
    /\ Admit(Head(queues[k]))
    /\ queues' = [queues EXCEPT ![k] = Tail(@)]
    /\ granted' = granted \cup {Head(queues[k])}
    /\ UNCHANGED <<mu, pc, done>>

\* The head cannot be admitted: nobody may overtake it.  A timer is armed only
\* when the window is what blocks, and only if none is armed yet.
PumpBlocked(k) ==
    /\ mu = k /\ Waiting(k) /\ Head(queues[k]) \notin done
    /\ ~Admissible(Head(queues[k]))
    /\ timers' = IF ~HasRoom(Head(queues[k])) /\ timers[k] = NoTimer
                 THEN [timers EXCEPT ![k] = Window - Head(Compact(windows[k]))]
                 ELSE timers
    /\ present' = Touched(Head(queues[k]))
    /\ mu' = Free
    /\ UNCHANGED <<windows, active, queues, pc, done, granted, recent>>

PumpEnd(k) ==
    /\ mu = k /\ ~Waiting(k)
    /\ mu' = Free
    /\ UNCHANGED <<windows, present, active, queues, timers, pc, done, granted, recent>>

Pump(k) == PumpDiscard(k) \/ PumpGrant(k) \/ PumpBlocked(k) \/ PumpEnd(k)

\* The wake timer's function: forget the timer, then pump.
WakeTimer(k) ==
    /\ mu = Free /\ timers[k] = 0
    /\ timers' = [timers EXCEPT ![k] = NoTimer]
    /\ mu' = k
    /\ UNCHANGED <<windows, present, active, queues, pc, done, granted, recent>>

\* Time passes.  A due timer may fire late.
Older(s) == [i \in DOMAIN s |-> IF s[i] < Window THEN s[i] + 1 ELSE s[i]]

Tick ==
    /\ windows' = [k \in Keys |-> Older(windows[k])]
    /\ recent' = [k \in Keys |-> Older(recent[k])]
    /\ timers' = [k \in Keys |-> IF timers[k] > 0 THEN timers[k] - 1 ELSE timers[k]]
    /\ UNCHANGED <<mu, present, active, queues, pc, done, granted>>

-------------------------------------------------------------------------------

Step(r) ==
    \/ AdmitFast(r) \/ MissFast(r) \/ CancelBeforeQueue(r)
    \/ RefuseFull(r) \/ Enqueue(r) \/ Receive(r)
    \/ Expire(r) \/ GiveUp(r) \/ Release(r) \/ EndUncapped(r)

Next ==
    \/ \E r \in Requests : Step(r)
    \/ \E k \in Keys : Pump(k) \/ WakeTimer(k)
    \/ Tick

Spec == Init /\ [][Next]_vars

\* A goroutine that wants rl.mu gets it (sync.Mutex hands itself to a waiter that
\* has starved), a lock holder proceeds, a served request ends, time passes and a
\* due timer fires.  Nobody is made to give up, and nobody is made to arrive.
Fairness ==
    /\ \A k \in Keys : WF_vars(Pump(k)) /\ SF_vars(WakeTimer(k))
    /\ \A r \in Requests : /\ SF_vars(Release(r))
                           /\ WF_vars(EndUncapped(r))
                           /\ WF_vars(Receive(r))
                           /\ SF_vars(GiveUp(r))
    /\ WF_vars(Tick)

FairSpec == Spec /\ Fairness

-------------------------------------------------------------------------------
(* Properties. *)

\* Requests that hold a slot of a capped key: being served, or granted and not
\* yet aware of it.
Holders(k) ==
    {r \in Requests : /\ KeyOf[r] = k /\ Conc[r] > 0
                      /\ pc[r] = "serving" \/ r \in granted}

\* No slot is leaked or invented: the counter of every key is the number of
\* requests that hold one of its slots, across grants that race a timeout
\* (Acquire's give-up path), releases and evictions.
SlotAccounting == \A k \in Keys : active[k] = Cardinality(Holders(k))

\* No more requests of a key are in flight than its largest concurrency limit.
ConcurrencyRespected == \A k \in Keys : Cardinality(Holders(k)) <= ConcCeiling[k]

\* What all of this implements: each key is a pool of slots, taken one at a time up to
\* its limit and given back by the request that took them, whatever timeouts, pumps
\* and evictions do.
Pool == INSTANCE SlotPool WITH
    Pools <- Keys, Owners <- Requests, Ceiling <- ConcCeiling,
    held <- [k \in Keys |-> Holders(k)]
IsSlotPool == Pool!Spec

\* Over any window, no key is admitted more often than its RPM limit
\* (recordStampLocked's comment: eviction must not let a key be "admitted past
\* its own RPM limit").
RpmRespected == \A k \in Keys : Live(recent[k]) <= RpmCeiling[k]

\* No lost wakeup (the comment at Acquire's enqueue): with the lock free, a live
\* head that concurrency does not hold back has a wake timer armed, due no later
\* than the expiry of the oldest stamp it waits for.
NoLostWakeup ==
    mu = Free =>
        \A k \in Keys :
            (Waiting(k) /\ HasSlot(Head(queues[k]))) =>
                /\ Head(queues[k]) \notin done
                /\ timers[k] # NoTimer
                /\ \A i \in DOMAIN windows[k] :
                       windows[k][i] < Window => timers[k] <= Window - windows[k][i]

\* A request that gave up or was never queued owns no grant: a slot is only ever
\* handed to a goroutine that will receive it or give it back.
GrantsHaveOwners ==
    \A r \in granted : pc[r] \in {"parked", "leaving"} /\ r \notin done /\ ~InQueue(r)

LiveWaiters(k) == Items(queues[k]) \ done

\* Arrival order (the comment on RateLimiter.queues: "granted at the head, in
\* arrival order"): nobody is admitted by the fast path while a live waiter of the
\* same key is parked. It does not hold on a key with an RPM limit, whose window rolls
\* before the wake timer's function has run.
NoOvertaking ==
    [][\A r \in Requests :
          (pc[r] = "idle" /\ pc'[r] = "serving") => LiveWaiters(KeyOf[r]) = {}]_vars

\* A key limited only by one concurrency limit: what its head waits for can only be
\* freed by a release, and the release pumps before it unlocks.
ConcurrencyOnly(k) ==
    /\ RpmCeiling[k] = 0
    /\ \A r \in Requests : KeyOf[r] = k => Conc[r] = ConcCeiling[k]

\* On such a key arrival order does hold: no fast path admission passes a live waiter.
NoOvertakingOnConcurrency ==
    [][\A r \in Requests :
          (pc[r] = "idle" /\ pc'[r] = "serving" /\ ConcurrencyOnly(KeyOf[r]))
             => LiveWaiters(KeyOf[r]) = {}]_vars

\* And a waiter of such a key is granted (or leaves) even if it never times out:
\* "a burst cannot starve an earlier caller".
ConcurrencyWaiterServed ==
    \A r \in Requests :
        (pc[r] = "parked" /\ ConcurrencyOnly(KeyOf[r])) ~> (pc[r] # "parked")

===============================================================================
