-------------------------- MODULE AccountSemaphore --------------------------
(***************************************************************************)
(* The concurrency gates of one provider account and egress (the key of    *)
(* SemaphoreKey; keys share nothing but the registry).  Acquire looks the  *)
(* gate up, takes a slot or waits in line; the release function gives the  *)
(* slot back, hands free slots to the line and drops an idle gate; Block   *)
(* holds a gate that met a 429.  Every section under a mutex is one step,  *)
(* and between two sections a goroutine keeps its pointer to the gate,     *)
(* whatever has become of the registry meanwhile.                          *)
(***************************************************************************)
EXTENDS Selection, FiniteSets, SequencesExt

CONSTANTS
    Callers,            \* goroutines that call Acquire and release
    Blockers,            \* goroutines that call Block
    Gates,               \* addresses of gates
    MaxConcurrency,      \* the controller's option, where it is positive
    DefaultConcurrency,  \* defaultMaxConcurrency, which Block opens a gate with
    MaxQueueSize,
    OperatorResets,      \* whether ResetSemaphores is called meanwhile
    None

ASSUME SemaphoreFits ==
    /\ IsFiniteSet(Callers)
    /\ None \notin Callers /\ None \notin Gates
    /\ MaxConcurrency \in Nat \ {0} /\ DefaultConcurrency \in Nat \ {0}

Actors == Callers \cup Blockers

VARIABLES
    registered,  \* semGates[key]
    running, cap, queue, blocked,  \* the fields of each gate
    step,
    at,          \* the goroutine's pointer to a gate
    handing,     \* the waiter a draining goroutine has dequeued
    handed       \* waiters whose channel holds their release function

gates == <<running, cap, queue, blocked>>
semaphoreVars == <<registered, gates, step, at, handing, handed>>

SemaphoreInit ==
    /\ registered = None
    /\ running = [g \in Gates |-> 0] /\ cap = [g \in Gates |-> 0]
    /\ queue = [g \in Gates |-> <<>>] /\ blocked = [g \in Gates |-> FALSE]
    /\ step = [a \in Actors |-> "idle"] /\ at = [a \in Actors |-> None]
    /\ handing = [a \in Actors |-> None] /\ handed = {}

Goes(a, to) == step' = [step EXCEPT ![a] = to]

\* The goroutine returns, and drops its pointer.
Ends(a) == Goes(a, "idle") /\ at' = [at EXCEPT ![a] = None]

Referenced == {at[a] : a \in Actors} \cup {registered}

\* The address of a new gate: any one to which nobody refers.
NewGate == CHOOSE g \in Gates : g \notin Referenced

\* gateFor: the registered gate, or a new one; its limit is set to the caller's.
GateFor(g, limit) ==
    /\ g \notin Referenced \/ g = registered
    /\ g = IF registered = None THEN NewGate ELSE registered
    /\ registered' = g
    /\ cap' = [cap EXCEPT ![g] = limit]
    /\ running' = IF registered = None THEN [running EXCEPT ![g] = 0] ELSE running
    /\ queue' = IF registered = None THEN [queue EXCEPT ![g] = <<>>] ELSE queue
    /\ blocked' = IF registered = None THEN [blocked EXCEPT ![g] = FALSE] ELSE blocked

------------------------------------------------------------------------------
(* Acquire.                                                                *)

LookUp(r, g) ==
    /\ r \in Callers /\ step[r] = "idle"
    /\ GateFor(g, MaxConcurrency)
    /\ Goes(r, "entering") /\ at' = [at EXCEPT ![r] = g]
    /\ UNCHANGED <<handing, handed>>

AnySlot(g) == ~blocked[g]                                           \* mutant

SlotFree(g) == ~blocked[g] /\ running[g] < cap[g]

Enter(r) ==
    /\ step[r] = "entering" /\ SlotFree(at[r])
    /\ running' = [running EXCEPT ![at[r]] = @ + 1]
    /\ Goes(r, "holding")
    /\ UNCHANGED <<registered, cap, queue, blocked, at, handing, handed>>

LineFull(r) ==
    /\ step[r] = "entering" /\ ~SlotFree(at[r])
    /\ Len(queue[at[r]]) >= MaxQueueSize
    /\ Ends(r)
    /\ UNCHANGED <<registered, gates, handing, handed>>

WaitInLine(r) ==
    /\ step[r] = "entering" /\ ~SlotFree(at[r])
    /\ Len(queue[at[r]]) < MaxQueueSize
    /\ queue' = [queue EXCEPT ![at[r]] = Append(@, r)]
    /\ Goes(r, "waiting")
    /\ UNCHANGED <<registered, running, cap, blocked, at, handing, handed>>

\* The release function arrives: before the timer and the context, or in the same
\* instant, when the waiter finds itself out of the line.
TakeGrant(r) ==
    /\ step[r] \in {"waiting", "owed"} /\ r \in handed
    /\ handed' = handed \ {r}
    /\ Goes(r, "holding")
    /\ UNCHANGED <<registered, gates, at, handing>>

\* The timer or the context fires first.
TimesOut(r) ==
    /\ step[r] = "waiting"
    /\ Goes(r, "leaving")
    /\ UNCHANGED <<registered, gates, at, handing, handed>>

Abandon(r) ==                                                     \* mutant
    /\ step[r] = "leaving"
    /\ queue' = [queue EXCEPT ![at[r]] = Keep(@, Callers \ {r})]
    /\ Ends(r)
    /\ UNCHANGED <<registered, running, cap, blocked, handing, handed>>

\* removeWaiter: a waiter that is no longer in the line has been given a slot, and
\* waits for it.
Withdraw(r) ==
    /\ step[r] = "leaving"
    /\ IF r \in ToSet(queue[at[r]])
       THEN queue' = [queue EXCEPT ![at[r]] = Keep(@, Callers \ {r})] /\ Ends(r)
       ELSE Goes(r, "owed") /\ UNCHANGED <<queue, at>>
    /\ UNCHANGED <<registered, running, cap, blocked, handing, handed>>

------------------------------------------------------------------------------
(* The release function, drain and cleanupGate.                            *)

ReleaseSlot(r) ==
    /\ step[r] = "holding"
    /\ running' = [running EXCEPT ![at[r]] = @ - 1]
    /\ Goes(r, "draining")
    /\ UNCHANGED <<registered, cap, queue, blocked, at, handing, handed>>

\* A free slot is given to the head of the line under the lock ...
Dequeue(a) ==
    LET g == at[a] IN
    /\ step[a] = "draining" /\ queue[g] # <<>> /\ SlotFree(g)
    /\ handing' = [handing EXCEPT ![a] = Head(queue[g])]
    /\ queue' = [queue EXCEPT ![g] = Tail(@)]
    /\ running' = [running EXCEPT ![g] = @ + 1]
    /\ Goes(a, "handing")
    /\ UNCHANGED <<registered, cap, blocked, at, handed>>

\* ... and handed over after it.
HandOver(a) ==
    /\ step[a] = "handing"
    /\ handed' = handed \cup {handing[a]}
    /\ handing' = [handing EXCEPT ![a] = None]
    /\ Goes(a, "draining")
    /\ UNCHANGED <<registered, gates, at>>

DrainEnds(a) ==
    /\ step[a] = "draining" /\ (queue[at[a]] = <<>> \/ ~SlotFree(at[a]))
    /\ Goes(a, "cleaning")
    /\ UNCHANGED <<registered, gates, at, handing, handed>>

IdleGate(g) == running[g] = 0 /\ queue[g] = <<>> /\ ~blocked[g]

KeepGate(a) ==
    /\ step[a] = "cleaning" /\ ~IdleGate(at[a])
    /\ Ends(a)
    /\ UNCHANGED <<registered, gates, handing, handed>>

MayDropGate(a) ==
    /\ step[a] = "cleaning" /\ IdleGate(at[a])
    /\ Goes(a, "dropping")
    /\ UNCHANGED <<registered, gates, at, handing, handed>>

\* The second look and the deletion, under the registry's mutex.  A goroutine that
\* looked the gate up and has not entered it is not seen by either look.
DropGate(a) ==
    /\ step[a] = "dropping"
    /\ registered' = IF IdleGate(at[a]) /\ registered = at[a] THEN None ELSE registered
    /\ Ends(a)
    /\ UNCHANGED <<gates, handing, handed>>

------------------------------------------------------------------------------
(* Block.                                                                  *)

BlockLooksUp(b, g) ==
    /\ b \in Blockers /\ step[b] = "idle"
    /\ GateFor(g, DefaultConcurrency)
    /\ Goes(b, "blocking") /\ at' = [at EXCEPT ![b] = g]
    /\ UNCHANGED <<handing, handed>>

\* blockedUntil is extended, and a goroutine sleeps as long.
StartBlock(b) ==
    /\ step[b] = "blocking"
    /\ blocked' = [blocked EXCEPT ![at[b]] = TRUE]
    /\ Goes(b, "asleep")
    /\ UNCHANGED <<registered, running, cap, queue, at, handing, handed>>

\* Time passes blockedUntil.
BlockEnds(g) ==
    /\ blocked[g]
    /\ blocked' = [blocked EXCEPT ![g] = FALSE]
    /\ UNCHANGED <<registered, running, cap, queue, step, at, handing, handed>>

AsleepAt(g) == {b \in Blockers : step[b] = "asleep" /\ at[b] = g}

WakesEarly(b) ==                                                  \* mutant
    /\ step[b] = "asleep"
    /\ Goes(b, "draining")
    /\ UNCHANGED <<registered, gates, at, handing, handed>>

\* The one whose duration ends last sleeps until blockedUntil.
WakeUp(b) ==
    /\ step[b] = "asleep"
    /\ ~blocked[at[b]] \/ AsleepAt(at[b]) # {b}
    /\ Goes(b, "draining")
    /\ UNCHANGED <<registered, gates, at, handing, handed>>

\* ResetSemaphores forgets the gates; the goroutines keep their pointers.
Reset ==
    /\ OperatorResets /\ registered # None
    /\ registered' = None
    /\ UNCHANGED <<gates, step, at, handing, handed>>

------------------------------------------------------------------------------
Acquire(r) ==
    \/ \E g \in Gates : LookUp(r, g)
    \/ Enter(r) \/ LineFull(r) \/ WaitInLine(r)
    \/ TakeGrant(r) \/ TimesOut(r) \/ Withdraw(r)

Drain(a) ==
    \/ Dequeue(a) \/ HandOver(a) \/ DrainEnds(a)
    \/ KeepGate(a) \/ MayDropGate(a) \/ DropGate(a)

Block(b) == (\E g \in Gates : BlockLooksUp(b, g)) \/ StartBlock(b) \/ WakeUp(b)

SemaphoreNext ==
    \/ \E r \in Callers : Acquire(r) \/ ReleaseSlot(r)
    \/ \E a \in Actors : Drain(a)
    \/ \E b \in Blockers : Block(b)
    \/ \E g \in Gates : BlockEnds(g)
    \/ Reset

SemaphoreSpec == SemaphoreInit /\ [][SemaphoreNext]_semaphoreVars

------------------------------------------------------------------------------
(* Properties.                                                             *)

States == {"idle", "entering", "waiting", "leaving", "owed", "holding", "draining",
           "handing", "cleaning", "dropping", "blocking", "asleep"}

SemaphoreTypeOK ==
    /\ registered \in Gates \cup {None}
    /\ running \in [Gates -> Nat] /\ cap \in [Gates -> Nat]
    /\ queue \in [Gates -> Seq(Callers)]
    /\ blocked \in [Gates -> BOOLEAN]
    /\ step \in [Actors -> States] /\ at \in [Actors -> Gates \cup {None}]
    /\ handing \in [Actors -> Callers \cup {None}]
    /\ handed \subseteq Callers

\* The requests that own a slot of gate g: served, about to receive it, or dequeued
\* by a goroutine that has yet to send it.
Granted == handed \cup {handing[a] : a \in Actors}
HoldersOf(g) == {r \in Callers : at[r] = g /\ (step[r] = "holding" \/ r \in Granted)}

\* No slot of a gate is leaked or invented (drain's comment: "otherwise the
\* reservation would leak"), across grants that race the timer or the context.
RunningIsHolders == \A g \in Gates : g \in Referenced => running[g] = Cardinality(HoldersOf(g))

\* A goroutine that is on its way to hand the free slots of gate g to its line.
OnItsWay(g) ==
    \E a \in Actors : at[a] = g /\ step[a] \in {"draining", "handing", "blocking", "asleep"}

\* No waiter is stranded (Block's comment: "so queued waiters are not stuck until
\* the next Acquire call").  Somebody will look at a line that is not empty: a
\* holder, when it releases, or a goroutine already on its way; and where a slot is
\* free one is on its way, unless callers' limit is above Block's default, which a
\* look-up may then raise again without a drain.
NoneStranded ==
    \A g \in Gates : queue[g] # <<>> =>
        /\ HoldersOf(g) # {} \/ OnItsWay(g)
        /\ SlotFree(g) /\ (MaxConcurrency <= DefaultConcurrency \/ Blockers = {}) => OnItsWay(g)

\* The largest limit a gate is ever given.
Ceiling == [g \in Gates |-> IF MaxConcurrency < DefaultConcurrency /\ Blockers # {}
                            THEN DefaultConcurrency ELSE MaxConcurrency]

\* Each gate is a pool of slots, taken one at a time up to the gate's limit and
\* given back by the request that was handed them, whatever timeouts, drains,
\* blocks, resets and dropped gates do.
GatePool == INSTANCE SlotPool WITH
    Pools <- Gates, Owners <- Callers, held <- [g \in Gates |-> HoldersOf(g)]
GateIsSlotPool == GatePool!Spec

\* An account is never hit with more concurrent requests than its limit (the
\* package's comment).  The gates keep their limits, but a gate that is dropped
\* between a caller's look-up and its entry serves beside its successor.
AccountCapped ==
    Cardinality({r \in Callers : step[r] = "holding"}) <= MaxConcurrency
==============================================================================
