----------------------------- MODULE TokenBucket -----------------------------
(***************************************************************************)
(* The token bucket of one provider scope and the slots of the attempts    *)
(* that draw on it (AcquireProvider and ProviderSlot).  An attempt is      *)
(* charged its prompt's estimate, then waits for RPM and concurrency, and  *)
(* its slot is settled by the usage meter, if the answer reaches it, and   *)
(* released in every case.  The waiting itself is RateLimiter's subject:   *)
(* here the queue grants or refuses.  Every step is one section under the  *)
(* limiter's mutex; the refill is lazy, made by the next charge.           *)
(***************************************************************************)
EXTENDS Integers, FiniteSets, FiniteSetsExt

CONSTANTS
    Attempts,   \* attempts on the provider that run at once
    Sizes,      \* prompt estimates and real totals explored
    TPM,        \* the bucket's limit
    Rate,       \* tokens refilled per tick
    Slots,      \* the provider's concurrency limit
    MaxTicks    \* bound on the ticks

ASSUME BucketAssumption ==
    /\ TPM \in Nat \ {0} /\ Rate \in Nat /\ Slots \in Nat \ {0} /\ MaxTicks \in Nat
    /\ Sizes \subseteq Nat \ {0} /\ IsFiniteSet(Attempts)

VARIABLES
    level,       \* the bucket's tokens
    unrefilled,  \* ticks since lastRefill
    concurrency, \* the scope's counter of slots in use
    attempt,     \* per attempt: "none", "charged" (in the queue),
                 \* "held", or "released" (its slot is given back, its charge is not)
    reserved,    \* per attempt, the slot's charge that is not settled
    clock,
    refilled, paid   \* history: tokens that came in, and that served turns cost

bucket == <<level, unrefilled, concurrency, attempt, reserved, clock, refilled, paid>>

BucketInit ==
    /\ level = TPM /\ unrefilled = 0 /\ concurrency = 0
    /\ attempt = [a \in Attempts |-> "none"] /\ reserved = [a \in Attempts |-> 0]
    /\ clock = 0 /\ refilled = 0 /\ paid = 0

UpTo(n) == Min({n, TPM})

\* checkTPM's refill.
Refilled == UpTo(level + unrefilled * Rate)

Refill == refilled' = refilled + Refilled - level /\ unrefilled' = 0

RefuseTPM(a, n) ==
    /\ attempt[a] = "none" /\ Refilled < n
    /\ Refill /\ level' = Refilled
    /\ UNCHANGED <<concurrency, attempt, reserved, clock, paid>>

ChargeTPM(a, n) ==
    /\ attempt[a] = "none" /\ Refilled >= n
    /\ Refill /\ level' = Refilled - n
    /\ reserved' = [reserved EXCEPT ![a] = n]
    /\ attempt' = [attempt EXCEPT ![a] = "charged"]
    /\ UNCHANGED <<concurrency, clock, paid>>

Uncapped(a) == level + reserved[a]                                \* mutant

\* RefundTPM.
Refunded(a) == UpTo(level + reserved[a])

\* ProviderSlot.Release gives back what the attempt still holds: the concurrency slot
\* in one section of the mutex, and then the charge that was not settled in another.
GiveBack(a) ==
    /\ level' = Refunded(a)
    /\ reserved' = [reserved EXCEPT ![a] = 0]
    /\ attempt' = [attempt EXCEPT ![a] = "none"]
    /\ UNCHANGED <<unrefilled, clock, refilled, paid>>

RefusalReleasesAll(a) ==                                          \* mutant
    attempt[a] = "charged" /\ GiveBack(a) /\ concurrency' = concurrency - 1

\* The queue refuses: there is a charge and no slot yet.
QueueRefuses(a) == attempt[a] = "charged" /\ GiveBack(a) /\ UNCHANGED concurrency

Admitted(a) ==
    /\ attempt[a] = "charged" /\ concurrency < Slots
    /\ concurrency' = concurrency + 1
    /\ attempt' = [attempt EXCEPT ![a] = "held"]
    /\ UNCHANGED <<level, unrefilled, reserved, clock, refilled, paid>>

Unreserved(a) == [reserved EXCEPT ![a] = 0]

\* ProviderSlot.Settle: only an under-estimate is corrected, and a bucket that
\* cannot pay for it is emptied.
Settle(a, actual) ==
    LET due == IF actual > reserved[a] THEN Min({level, actual - reserved[a]}) ELSE 0
    IN /\ attempt[a] = "held" /\ reserved[a] > 0
       /\ level' = level - due
       /\ paid' = paid + reserved[a] + due
       /\ reserved' = Unreserved(a)
       /\ UNCHANGED <<unrefilled, concurrency, attempt, clock, refilled>>

\* The attempt ends, served or not, metered or not.
ReleaseSlot(a) ==
    /\ attempt[a] = "held"
    /\ concurrency' = concurrency - 1
    /\ attempt' = [attempt EXCEPT ![a] = "released"]
    /\ UNCHANGED <<level, unrefilled, reserved, clock, refilled, paid>>

RefundRest(a) == attempt[a] = "released" /\ GiveBack(a) /\ UNCHANGED concurrency

BucketTick ==
    /\ clock < MaxTicks
    /\ clock' = clock + 1 /\ unrefilled' = unrefilled + 1
    /\ UNCHANGED <<level, concurrency, attempt, reserved, refilled, paid>>

BucketNext ==
    \/ \E a \in Attempts, n \in Sizes : RefuseTPM(a, n) \/ ChargeTPM(a, n) \/ Settle(a, n)
    \/ \E a \in Attempts : 
          QueueRefuses(a) \/ Admitted(a) \/ ReleaseSlot(a) \/ RefundRest(a)
    \/ BucketTick

BucketSpec == BucketInit /\ [][BucketNext]_bucket

------------------------------------------------------------------------------
Reserved == MapThenSumSet(LAMBDA a : reserved[a], Attempts)

\* The bucket never hands out more than it was given: what it holds, what attempts
\* have reserved and what served turns have cost stays within the limit and the
\* refills, whatever settles, refunds and late releases interleave (RefundTPM's
\* comment: "a refund can never create more headroom than the key was ever given"). Nor
\* does it keep what nobody was served for (ProviderSlot.Release): attempts that were
\* refused by the queue or failed before the meter leave it as full as they found it.
BooksBalance ==
    /\ level \in 0 .. TPM
    /\ level + Reserved + paid <= TPM + refilled
    /\ (paid = 0 /\ Reserved = 0) => level = TPM

\* A refusal, which has taken no slot, returns none, and an attempt that ends returns its
\* own, whatever becomes of its charge.
Held == {a \in Attempts : attempt[a] = "held"}
SlotsReturned == concurrency = Cardinality(Held)

\* The provider's limit is one pool of slots (SlotPool), and the counter its account of
\* them: an attempt takes a slot while one is left and gives back its own, once, whatever
\* is charged, refused, settled and refunded.
Scope == INSTANCE SlotPool WITH
    Pools <- {"scope"}, Owners <- Attempts, Ceiling <- [p \in {"scope"} |-> Slots],
    held <- [p \in {"scope"} |-> Held]
ScopeIsSlotPool == Scope!Spec /\ [](concurrency = Cardinality(Held))
==============================================================================
