-------------------------- MODULE RateLimiter_proofs --------------------------
(* Proofs that the limiter of RateLimiter is type correct, accounts for every  *)
(* slot, never exceeds a concurrency limit and, while eviction has no reason   *)
(* to run, never exceeds an RPM limit; that no waiting request is left without *)
(* a reason to be woken, and that concurrency is granted in order of arrival.  *)
(* The last part is about TokenBucket: its books balance and its slots are     *)
(* returned once.                                                              *)
EXTENDS RateLimiter, TokenBucket, Selection_proofs, FiniteSetTheorems, TLAPS

-------------------------------------------------------------------------------
(* The window operators. *)

\* The number of live stamps is a number, at most the number of stamps, and
\* compaction keeps exactly them.
LEMMA LiveBound ==
    ASSUME NEW s \in Seq(Ages)
    PROVE  /\ Live(s) \in 0..Len(s)
           /\ Compact(s) \in Seq(Ages)
           /\ Len(Compact(s)) = Live(s)
<1> DEFINE alive == {i \in DOMAIN s : s[i] < Window}
<1>1. IsFiniteSet(1..Len(s)) /\ Cardinality(1..Len(s)) = Len(s)
  <2>1. Len(s) \in Nat
    OBVIOUS
  <2> QED BY <2>1, FS_Interval
<1>2. alive \subseteq 1..Len(s)
  OBVIOUS
<1>3. /\ IsFiniteSet(alive) /\ Cardinality(alive) \in Nat
      /\ Cardinality(alive) <= Len(s)
  BY <1>1, <1>2, FS_Subset, FS_CardinalityType
<1>4. Live(s) \in 0..Len(s)
  BY <1>3 DEF Live
<1>5. /\ Compact(s) \in Seq(Ages)
      /\ Len(Compact(s)) = Live(s)
  BY <1>4 DEF Compact
<1> QED BY <1>4, <1>5

\* A stamp more makes at most one live stamp more.
LEMMA LiveAppend ==
    ASSUME NEW s \in Seq(Ages)
    PROVE  /\ Append(Compact(s), 0) \in Seq(Ages)
           /\ Live(Append(Compact(s), 0)) \in Nat
           /\ Live(Append(Compact(s), 0)) <= Live(s) + 1
<1>1. 0 \in Ages
  BY LimitsAssumption DEF Ages
<1>2. Compact(s) \in Seq(Ages) /\ Len(Compact(s)) = Live(s) /\ Live(s) \in Nat
  BY LiveBound
<1>3. /\ Append(Compact(s), 0) \in Seq(Ages)
      /\ Len(Append(Compact(s), 0)) = Live(s) + 1
  BY <1>1, <1>2
<1>4. Live(Append(Compact(s), 0)) \in 0..Len(Append(Compact(s), 0))
  BY <1>3, LiveBound
<1> QED BY <1>2, <1>3, <1>4

\* Time only ever takes stamps out of the window.
LEMMA LiveOlder ==
    ASSUME NEW s \in Seq(Ages)
    PROVE  /\ Older(s) \in Seq(Ages)
           /\ Live(Older(s)) <= Live(s)
<1>1. Window \in Nat /\ Window > 0
  BY LimitsAssumption
<1>2. /\ DOMAIN Older(s) = 1..Len(s)
      /\ \A i \in 1..Len(s) : Older(s)[i] = IF s[i] < Window THEN s[i] + 1 ELSE s[i]
  BY DEF Older
<1>3. \A i \in 1..Len(s) : s[i] \in Ages
  OBVIOUS
<1>4. \A i \in 1..Len(s) : Older(s)[i] \in Ages
  BY <1>1, <1>2, <1>3 DEF Ages
<1>5. Older(s) \in Seq(Ages)
  BY <1>2, <1>4 DEF Older
<1>6. {i \in DOMAIN Older(s) : Older(s)[i] < Window} \subseteq {i \in DOMAIN s : s[i] < Window}
  <2> SUFFICES ASSUME NEW i \in 1..Len(s), Older(s)[i] < Window
               PROVE  s[i] < Window
    BY <1>2
  <2>1. s[i] \in Int
    BY <1>3 DEF Ages
  <2> QED BY <1>1, <1>2, <2>1
<1>7. IsFiniteSet({i \in DOMAIN s : s[i] < Window})
  <2>1. {i \in DOMAIN s : s[i] < Window} \subseteq 1..Len(s)
    OBVIOUS
  <2> QED BY <2>1, FS_Interval, FS_Subset
<1>8. Live(Older(s)) <= Live(s)
  BY <1>6, <1>7, FS_Subset DEF Live
<1> QED BY <1>5, <1>8

-------------------------------------------------------------------------------
(* Queues as sets. *)

AllDistinct(s) == \A i, j \in DOMAIN s : i # j => s[i] # s[j]

\* A waiter appended to a queue it is not in joins its items.
LEMMA AppendItems ==
    ASSUME NEW s \in Seq(Requests), NEW r \in Requests, AllDistinct(s), r \notin Items(s)
    PROVE  /\ Append(s, r) \in Seq(Requests)
           /\ Items(Append(s, r)) = Items(s) \cup {r}
           /\ AllDistinct(Append(s, r))
<1>1. /\ DOMAIN s = 1..Len(s) /\ Len(s) \in Nat
      /\ DOMAIN Append(s, r) = 1..(Len(s) + 1)
      /\ \A i \in 1..Len(s) : Append(s, r)[i] = s[i]
      /\ Append(s, r)[Len(s) + 1] = r
  OBVIOUS
<1>2. \A i \in 1..Len(s) : s[i] # r
  BY <1>1 DEF Items
<1>3. Items(Append(s, r)) = Items(s) \cup {r}
  BY <1>1 DEF Items
<1>4. AllDistinct(Append(s, r))
  BY <1>1, <1>2 DEF AllDistinct
<1> QED BY <1>3, <1>4

\* Popping the head removes just the head.
LEMMA TailItems ==
    ASSUME NEW s \in Seq(Requests), s # <<>>, AllDistinct(s)
    PROVE  /\ Tail(s) \in Seq(Requests) /\ Head(s) \in Requests
           /\ Head(s) \in Items(s)
           /\ Items(Tail(s)) = Items(s) \ {Head(s)}
           /\ AllDistinct(Tail(s))
<1>1. /\ DOMAIN s = 1..Len(s) /\ Len(s) \in Nat /\ Len(s) > 0
      /\ DOMAIN Tail(s) = 1..(Len(s) - 1)
      /\ \A i \in 1..(Len(s) - 1) : Tail(s)[i] = s[i + 1]
      /\ Head(s) = s[1]
  OBVIOUS
<1>2. Head(s) \in Items(s)
  BY <1>1 DEF Items
<1>3. AllDistinct(Tail(s))
  BY <1>1 DEF AllDistinct
<1>4. \A i \in 2..Len(s) : s[i] # s[1]
  BY <1>1 DEF AllDistinct
<1>5. \A i \in 2..Len(s) : i - 1 \in 1..(Len(s) - 1) /\ Tail(s)[i - 1] = s[i]
  BY <1>1
<1>6. Items(Tail(s)) \subseteq Items(s) \ {Head(s)}
  BY <1>1, <1>4 DEF Items
<1>7. Items(s) \ {Head(s)} \subseteq Items(Tail(s))
  <2> SUFFICES ASSUME NEW i \in 1..Len(s), s[i] # s[1]
               PROVE  s[i] \in Items(Tail(s))
    BY <1>1 DEF Items
  <2>1. i \in 2..Len(s)
    BY <1>1
  <2> QED BY <1>1, <1>5, <2>1 DEF Items
<1> QED BY <1>1, <1>2, <1>3, <1>6, <1>7

-------------------------------------------------------------------------------
(* The inductive invariant. *)

\* A queue holds distinct waiters of its own key: one whose caller still waits, or
\* is on its way out, or one whose caller has left.
QueuesOK ==
    \A k \in Keys :
        /\ AllDistinct(queues[k])
        /\ \A x \in Items(queues[k]) :
               /\ KeyOf[x] = k
               /\ x \in done => pc[x] = "idle"
               /\ x \notin done => pc[x] \in {"parked", "leaving"}

WithinCeiling == \A k \in Keys : active[k] <= ConcCeiling[k]

IInv == TypeOK /\ QueuesOK /\ GrantsHaveOwners /\ SlotAccounting /\ WithinCeiling

-------------------------------------------------------------------------------
(* What an admission does to the maps, whatever the sweep drops. *)

\* Eviction only ever drops keys that nobody uses.
LEMMA SweptIdle ==
    ASSUME NEW r \in Requests, NEW gone \in Swept(r)
    PROVE  \A x \in gone : x # KeyOf[r] /\ active[x] = 0
BY DEF Swept, Evictions, Idle

\* Admitting a request fills at most one place of its key, changes no other key
\* in use, and keeps every window and counter within its limits.
LEMMA AdmitFacts ==
    ASSUME TypeOK, WithinCeiling, NEW r \in Requests, Admissible(r), Admit(r)
    PROVE  /\ windows' \in [Keys -> Seq(Ages)]
           /\ present' \subseteq Keys
           /\ timers' \in [Keys -> Ages \cup {NoTimer}]
           /\ recent' \in [Keys -> Seq(Ages)]
           /\ active' = [active EXCEPT ![KeyOf[r]] = IF Conc[r] > 0 THEN @ + 1 ELSE @]
           /\ active' \in [Keys -> Nat]
           /\ WithinCeiling'
<1> DEFINE k == KeyOf[r]
<1>1. k \in Keys /\ Conc[r] \in Nat /\ Conc[r] <= ConcCeiling[k]
      /\ ConcCeiling \in [Keys -> Nat] /\ RpmCeiling \in [Keys -> Nat]
  BY LimitsAssumption
<1>2. PICK gone \in Swept(r) :
        /\ active' = [x \in Keys |-> IF x \in gone THEN 0
                                    ELSE IF x = k /\ Conc[r] > 0 THEN active[k] + 1
                                    ELSE active[x]]
        /\ timers' = [x \in Keys |-> IF x \in gone THEN NoTimer ELSE timers[x]]
        /\ present' = Touched(r) \ gone
        /\ windows' = IF Rpm[r] > 0 THEN Stamped(k, gone) ELSE windows
        /\ recent' = IF Rpm[r] > 0
                     THEN [recent EXCEPT ![k] = Remember(Compact(@), RpmCeiling[k])]
                     ELSE recent
  BY DEF Admit
<1>3. \A x \in gone : x # k /\ active[x] = 0
  BY SweptIdle
<1>4. active \in [Keys -> Nat] /\ active[k] \in Nat
  BY <1>1 DEF TypeOK
<1>5. active' = [active EXCEPT ![k] = IF Conc[r] > 0 THEN @ + 1 ELSE @]
  BY <1>1, <1>2, <1>3, <1>4
<1>6. active' \in [Keys -> Nat]
  BY <1>1, <1>4, <1>5
<1>7. WithinCeiling'
  <2>1. Conc[r] > 0 => active[k] < Conc[r]
    BY <1>1 DEF Admissible, HasSlot
  <2> QED BY <1>1, <1>4, <1>5, <2>1 DEF WithinCeiling
<1>8. windows' \in [Keys -> Seq(Ages)]
  <2>1. Append(Compact(windows[k]), 0) \in Seq(Ages)
    BY <1>1, LiveAppend DEF TypeOK
  <2> QED BY <1>2, <2>1 DEF TypeOK, Stamped
<1>9. present' \subseteq Keys
  BY <1>1, <1>2 DEF TypeOK, Touched
<1>10. timers' \in [Keys -> Ages \cup {NoTimer}]
  BY <1>2 DEF TypeOK
<1>11. recent' \in [Keys -> Seq(Ages)]
  <2>1. Compact(recent[k]) \in Seq(Ages) /\ RpmCeiling[k] \in Nat
    BY <1>1, LiveBound DEF TypeOK
  <2>2. 0 \in Ages
    BY LimitsAssumption DEF Ages
  <2>3. Remember(Compact(recent[k]), RpmCeiling[k]) \in Seq(Ages)
    BY <2>1, <2>2 DEF Remember
  <2> QED BY <1>2, <2>3 DEF TypeOK
<1> QED BY <1>5, <1>6, <1>7, <1>8, <1>9, <1>10, <1>11

-------------------------------------------------------------------------------
(* Counting the holders of a key. *)

\* Finitely many requests hold slots, so they can be counted.
LEMMA HoldersFinite ==
    ASSUME NEW k \in Keys
    PROVE  IsFiniteSet(Holders(k)) /\ Cardinality(Holders(k)) \in Nat
<1>1. Holders(k) \subseteq Requests
  BY DEF Holders
<1> QED BY <1>1, LimitsAssumption, FS_Subset, FS_CardinalityType

\* The counter follows the holders when one request becomes a holder ...
LEMMA OneMoreHolder ==
    ASSUME TypeOK, SlotAccounting, NEW r \in Requests,
           active' = [active EXCEPT ![KeyOf[r]] = IF Conc[r] > 0 THEN @ + 1 ELSE @],
           pc[r] # "serving", r \notin granted,
           pc'[r] = "serving" \/ r \in granted',
           \A x \in Requests \ {r} :
               (pc'[x] = "serving" \/ x \in granted') <=> (pc[x] = "serving" \/ x \in granted)
    PROVE  SlotAccounting'
<1> SUFFICES ASSUME NEW k \in Keys
             PROVE  active'[k] = Cardinality(Holders(k)')
  BY DEF SlotAccounting
<1>1. active[k] = Cardinality(Holders(k)) /\ active[k] \in Nat
  BY DEF SlotAccounting, TypeOK
<1>2. CASE KeyOf[r] = k /\ Conc[r] > 0
  <2>1. Holders(k)' = Holders(k) \cup {r} /\ r \notin Holders(k)
    BY <1>2 DEF Holders
  <2>2. Cardinality(Holders(k)') = Cardinality(Holders(k)) + 1
    BY <2>1, HoldersFinite, FS_AddElement
  <2> QED BY <1>1, <1>2, <2>2 DEF TypeOK
<1>3. CASE ~(KeyOf[r] = k /\ Conc[r] > 0)
  <2>1. Holders(k)' = Holders(k)
    BY <1>3 DEF Holders
  <2> QED BY <1>1, <1>3, <2>1 DEF TypeOK
<1> QED BY <1>2, <1>3

\* ... when one stops being a holder ...
LEMMA OneHolderLess ==
    ASSUME TypeOK, SlotAccounting, NEW r \in Requests,
           active' = [active EXCEPT ![KeyOf[r]] = IF Conc[r] > 0 THEN @ - 1 ELSE @],
           pc[r] = "serving" \/ r \in granted,
           pc'[r] # "serving", r \notin granted',
           \A x \in Requests \ {r} :
               (pc'[x] = "serving" \/ x \in granted') <=> (pc[x] = "serving" \/ x \in granted)
    PROVE  /\ SlotAccounting'
           /\ active' \in [Keys -> Nat]
           /\ \A k \in Keys : active'[k] <= active[k]
<1> SUFFICES ASSUME NEW k \in Keys
             PROVE  /\ active'[k] = Cardinality(Holders(k)')
                    /\ active'[k] \in Nat
                    /\ active'[k] <= active[k]
  BY DEF SlotAccounting, TypeOK
<1>1. active[k] = Cardinality(Holders(k)) /\ active[k] \in Nat
  BY DEF SlotAccounting, TypeOK
<1>2. CASE KeyOf[r] = k /\ Conc[r] > 0
  <2>1. Holders(k)' = Holders(k) \ {r} /\ r \in Holders(k)
    BY <1>2 DEF Holders
  <2>2. Cardinality(Holders(k)') = Cardinality(Holders(k)) - 1
    BY <2>1, HoldersFinite, FS_RemoveElement
  <2>3. IsFiniteSet(Holders(k)')
    BY <2>1, HoldersFinite, FS_RemoveElement
  <2>4. Cardinality(Holders(k)') \in Nat
    BY <2>3, FS_CardinalityType
  <2> QED BY <1>1, <1>2, <2>2, <2>4 DEF TypeOK
<1>3. CASE ~(KeyOf[r] = k /\ Conc[r] > 0)
  <2>1. Holders(k)' = Holders(k)
    BY <1>3 DEF Holders
  <2> QED BY <1>1, <1>3, <2>1 DEF TypeOK
<1> QED BY <1>2, <1>3

\* ... and when nobody does.
LEMMA SameHolders ==
    ASSUME SlotAccounting, UNCHANGED active,
           \A x \in Requests :
               (pc'[x] = "serving" \/ x \in granted') <=> (pc[x] = "serving" \/ x \in granted)
    PROVE  SlotAccounting'
<1> SUFFICES ASSUME NEW k \in Keys
             PROVE  active'[k] = Cardinality(Holders(k)')
  BY DEF SlotAccounting
<1>1. Holders(k)' = Holders(k)
  BY DEF Holders
<1> QED BY <1>1 DEF SlotAccounting

-------------------------------------------------------------------------------
(* Every step preserves the invariant. *)

\* The limiter starts empty.
LEMMA InitIInv == Init => IInv
<1> SUFFICES ASSUME Init PROVE IInv
  OBVIOUS
<1>1. TypeOK
  BY DEF Init, TypeOK, Phases
<1>2. QueuesOK
  BY DEF Init, QueuesOK, Items, AllDistinct
<1>3. GrantsHaveOwners
  BY DEF Init, GrantsHaveOwners
<1>4. SlotAccounting
  <2> SUFFICES ASSUME NEW k \in Keys PROVE active[k] = Cardinality(Holders(k))
    BY DEF SlotAccounting
  <2>1. Holders(k) = {}
    BY DEF Holders, Init
  <2> QED BY <2>1, FS_EmptySet DEF Init
<1>5. WithinCeiling
  <2>1. \A k \in Keys : ConcCeiling[k] \in Nat /\ active[k] = 0
    BY LimitsAssumption DEF Init
  <2> QED BY <2>1 DEF WithinCeiling
<1> QED BY <1>1, <1>2, <1>3, <1>4, <1>5 DEF IInv

\* A request that finds room on arrival is admitted and counted.
LEMMA AdmitFastInv ==
    ASSUME IInv, NEW r \in Requests, AdmitFast(r)
    PROVE  IInv'
<1> USE DEF IInv
<1>1. /\ windows' \in [Keys -> Seq(Ages)] /\ present' \subseteq Keys
      /\ timers' \in [Keys -> Ages \cup {NoTimer}]
      /\ recent' \in [Keys -> Seq(Ages)]
      /\ active' = [active EXCEPT ![KeyOf[r]] = IF Conc[r] > 0 THEN @ + 1 ELSE @]
      /\ active' \in [Keys -> Nat]
      /\ WithinCeiling'
  BY AdmitFacts DEF AdmitFast
<1>2. TypeOK'
  BY <1>1 DEF AdmitFast, TypeOK, Phases
<1>3. r \notin granted
  BY DEF AdmitFast, Fresh, GrantsHaveOwners
<1>4. QueuesOK'
  BY LimitsAssumption DEF AdmitFast, Fresh, InQueue, QueuesOK, TypeOK
<1>5. GrantsHaveOwners'
  BY <1>3 DEF AdmitFast, GrantsHaveOwners, InQueue, TypeOK
<1>6. SlotAccounting'
  <2>1. pc[r] # "serving" /\ pc'[r] = "serving"
    BY DEF AdmitFast, Fresh, TypeOK
  <2>2. \A x \in Requests \ {r} :
          (pc'[x] = "serving" \/ x \in granted') <=> (pc[x] = "serving" \/ x \in granted)
    BY DEF AdmitFast, TypeOK
  <2> QED BY <1>1, <1>3, <2>1, <2>2, OneMoreHolder
<1> QED BY <1>1, <1>2, <1>4, <1>5, <1>6

\* The steps that only move a request that holds nothing.
LEMMA PlainStepInv ==
    ASSUME IInv, NEW r \in Requests,
           \/ MissFast(r) \/ CancelBeforeQueue(r) \/ RefuseFull(r) \/ Expire(r)
    PROVE  IInv'
<1> USE DEF IInv
<1> DEFINE acts == MissFast(r) \/ CancelBeforeQueue(r) \/ RefuseFull(r) \/ Expire(r)
<1>1. /\ UNCHANGED <<mu, windows, active, queues, timers, done, granted, recent>>
      /\ present' \subseteq Keys
      /\ pc' \in [Requests -> Phases]
      /\ pc[r] # "serving" /\ pc'[r] # "serving"
      /\ \A x \in Requests \ {r} : pc'[x] = pc[x]
      /\ \/ ~InQueue(r) /\ pc[r] = "idle" /\ pc'[r] \in {"idle", "parking"}
         \/ pc[r] = "parking" /\ pc'[r] = "idle"
         \/ pc[r] = "parked" /\ pc'[r] = "leaving"
  <2>1. CASE MissFast(r)
    BY <2>1, LimitsAssumption DEF MissFast, Touched, TypeOK, Phases, Fresh
  <2>2. CASE CancelBeforeQueue(r)
    BY <2>2 DEF CancelBeforeQueue, TypeOK, Phases
  <2>3. CASE RefuseFull(r)
    BY <2>3 DEF RefuseFull, TypeOK, Phases
  <2>4. CASE Expire(r)
    BY <2>4 DEF Expire, TypeOK, Phases
  <2> QED BY <2>1, <2>2, <2>3, <2>4
<1>2. TypeOK'
  BY <1>1 DEF TypeOK
<1>3. QueuesOK'
  <2> SUFFICES ASSUME NEW k \in Keys, NEW x \in Items(queues[k])
               PROVE  /\ x \in done => pc'[x] = "idle"
                      /\ x \notin done => pc'[x] \in {"parked", "leaving"}
    BY <1>1 DEF QueuesOK
  <2>1. /\ KeyOf[x] = k /\ x \in Requests
        /\ x \in done => pc[x] = "idle"
        /\ x \notin done => pc[x] \in {"parked", "leaving"}
    BY DEF QueuesOK, Items, TypeOK
  <2>2. CASE x = r
    BY <1>1, <2>1, <2>2 DEF InQueue
  <2> QED BY <1>1, <2>1, <2>2
<1>4. GrantsHaveOwners'
  BY <1>1 DEF GrantsHaveOwners, InQueue, TypeOK
<1>5. SlotAccounting'
  BY <1>1, SameHolders
<1>6. WithinCeiling'
  BY <1>1 DEF WithinCeiling
<1> QED BY <1>2, <1>3, <1>4, <1>5, <1>6

\* A request that finds none joins its queue once, with nothing granted to it.
LEMMA EnqueueInv ==
    ASSUME IInv, NEW r \in Requests, Enqueue(r)
    PROVE  IInv'
<1> USE DEF IInv
<1> DEFINE k == KeyOf[r]
<1>1. k \in Keys
  BY LimitsAssumption
<1>2. /\ pc[r] = "parking" /\ pc' = [pc EXCEPT ![r] = "parked"]
      /\ queues' = [queues EXCEPT ![k] = Append(@, r)]
      /\ done' = done \ {r} /\ mu' = k
      /\ UNCHANGED <<windows, present, active, timers, granted, recent>>
  BY DEF Enqueue, PumpThenUnlock
<1>3. TypeOK'
  BY <1>1, <1>2 DEF TypeOK, Phases
<1>4. ~InQueue(r) /\ r \notin granted
  BY <1>1, <1>2 DEF InQueue, QueuesOK, GrantsHaveOwners, TypeOK
<1>5. /\ Items(queues'[k]) = Items(queues[k]) \cup {r} /\ AllDistinct(queues'[k])
      /\ \A x \in Keys \ {k} : queues'[x] = queues[x]
  BY <1>1, <1>2, <1>4, AppendItems DEF TypeOK, QueuesOK, InQueue
<1>6. QueuesOK'
  BY <1>1, <1>2, <1>5 DEF QueuesOK, TypeOK
<1>7. GrantsHaveOwners'
  <2> SUFFICES ASSUME NEW x \in granted'
               PROVE  pc'[x] \in {"parked", "leaving"} /\ x \notin done' /\ ~InQueue(x)'
    BY DEF GrantsHaveOwners
  <2>1. x # r /\ x \in Requests /\ x \in granted /\ KeyOf[x] \in Keys
    BY <1>2, <1>4, LimitsAssumption DEF TypeOK
  <2>2. ~InQueue(x)'
    BY <1>5, <2>1 DEF InQueue, GrantsHaveOwners
  <2> QED BY <1>2, <2>1, <2>2 DEF GrantsHaveOwners, TypeOK
<1>8. SlotAccounting'
  BY <1>2, SameHolders DEF TypeOK
<1>9. WithinCeiling'
  BY <1>2 DEF WithinCeiling
<1> QED BY <1>3, <1>6, <1>7, <1>8, <1>9

\* A waiter that sees its grant goes on holding the slot it was given.
LEMMA ReceiveInv ==
    ASSUME IInv, NEW r \in Requests, Receive(r)
    PROVE  IInv'
<1> USE DEF IInv
<1>1. /\ pc[r] = "parked" /\ r \in granted
      /\ granted' = granted \ {r} /\ pc' = [pc EXCEPT ![r] = "serving"]
      /\ UNCHANGED <<mu, windows, present, active, queues, timers, done, recent>>
  BY DEF Receive
<1>2. TypeOK'
  BY <1>1 DEF TypeOK, Phases
<1>3. QueuesOK'
  <2>1. \A k \in Keys : r \notin Items(queues[k])
    BY <1>1 DEF QueuesOK, GrantsHaveOwners, InQueue
  <2> QED BY <1>1, <2>1 DEF QueuesOK, TypeOK
<1>4. GrantsHaveOwners'
  BY <1>1 DEF GrantsHaveOwners, InQueue, TypeOK
<1>5. SlotAccounting'
  BY <1>1, SameHolders DEF TypeOK
<1>6. WithinCeiling'
  BY <1>1 DEF WithinCeiling
<1> QED BY <1>2, <1>3, <1>4, <1>5, <1>6

\* A waiter that gives up returns the slot of a grant it did not see in time.
LEMMA GiveUpInv ==
    ASSUME IInv, NEW r \in Requests, GiveUp(r)
    PROVE  IInv'
<1> USE DEF IInv
<1>1. /\ pc[r] = "leaving" /\ done' = done \cup {r} /\ granted' = granted \ {r}
      /\ active' = [active EXCEPT ![KeyOf[r]] = IF ReturnsSlot(r) THEN @ - 1 ELSE @]
      /\ pc' = [pc EXCEPT ![r] = "idle"] /\ mu' = KeyOf[r] /\ KeyOf[r] \in Keys
      /\ UNCHANGED <<windows, present, queues, timers, recent>>
  BY LimitsAssumption DEF GiveUp, PumpThenUnlock
<1>2. SlotAccounting' /\ active' \in [Keys -> Nat] /\ \A k \in Keys : active'[k] <= active[k]
  <2>1. \A x \in Requests \ {r} :
          (pc'[x] = "serving" \/ x \in granted') <=> (pc[x] = "serving" \/ x \in granted)
    BY <1>1 DEF TypeOK
  <2>2. pc'[r] # "serving" /\ r \notin granted'
    BY <1>1 DEF TypeOK
  <2>3. CASE r \in granted
    <3>1. active' = [active EXCEPT ![KeyOf[r]] = IF Conc[r] > 0 THEN @ - 1 ELSE @]
      BY <1>1, <2>3 DEF ReturnsSlot
    <3> QED BY <2>1, <2>2, <2>3, <3>1, OneHolderLess
  <2>4. CASE r \notin granted
    <3>1. UNCHANGED active
      BY <1>1, <2>4 DEF ReturnsSlot, TypeOK
    <3>2. SlotAccounting'
      BY <1>1, <2>1, <2>2, <2>4, <3>1, SameHolders
    <3> QED BY <3>1, <3>2 DEF TypeOK
  <2> QED BY <2>3, <2>4
<1>3. TypeOK'
  BY <1>1, <1>2 DEF TypeOK, Phases
<1>4. QueuesOK'
  BY <1>1 DEF QueuesOK, TypeOK
<1>5. GrantsHaveOwners'
  BY <1>1 DEF GrantsHaveOwners, InQueue, TypeOK
<1>6. WithinCeiling'
  BY <1>2, LimitsAssumption DEF WithinCeiling, TypeOK
<1> QED BY <1>2, <1>3, <1>4, <1>5, <1>6

\* The guard against a negative counter in ReleaseConcurrency never bites: a served
\* request is a holder, so the counter is positive.
LEMMA ServedCounted ==
    ASSUME IInv, NEW r \in Requests, pc[r] = "serving", Conc[r] > 0
    PROVE  active[KeyOf[r]] > 0
<1>1. KeyOf[r] \in Keys /\ r \in Holders(KeyOf[r])
  BY LimitsAssumption DEF Holders
<1>2. IsFiniteSet(Holders(KeyOf[r])) /\ Cardinality(Holders(KeyOf[r])) \in Nat
  BY <1>1, HoldersFinite
<1>3. Cardinality(Holders(KeyOf[r])) # 0
  BY <1>1, <1>2, FS_EmptySet
<1> QED BY <1>1, <1>2, <1>3 DEF IInv, SlotAccounting

\* A request that ends returns its slot, or had none to return.
LEMMA EndInv ==
    ASSUME IInv, NEW r \in Requests, Release(r) \/ EndUncapped(r)
    PROVE  IInv'
<1> USE DEF IInv
<1>1. /\ pc[r] = "serving" /\ pc' = [pc EXCEPT ![r] = "idle"]
      /\ active' = [active EXCEPT ![KeyOf[r]] = IF Conc[r] > 0 THEN @ - 1 ELSE @]
      /\ mu' \in Keys \cup {Free}
      /\ UNCHANGED <<windows, present, queues, timers, done, granted, recent>>
  <2>1. KeyOf[r] \in Keys /\ Conc[r] \in Nat
    BY LimitsAssumption
  <2>2. CASE Release(r)
    BY <2>1, <2>2, ServedCounted DEF Release, PumpThenUnlock
  <2>3. CASE EndUncapped(r)
    BY <2>1, <2>3 DEF EndUncapped, TypeOK
  <2> QED BY <2>2, <2>3
<1>2. r \notin granted
  BY <1>1 DEF GrantsHaveOwners
<1>3. SlotAccounting' /\ active' \in [Keys -> Nat] /\ \A k \in Keys : active'[k] <= active[k]
  <2>1. \A x \in Requests \ {r} :
          (pc'[x] = "serving" \/ x \in granted') <=> (pc[x] = "serving" \/ x \in granted)
    BY <1>1 DEF TypeOK
  <2>2. pc'[r] # "serving" /\ r \notin granted'
    BY <1>1, <1>2 DEF TypeOK
  <2> QED BY <1>1, <2>1, <2>2, OneHolderLess
<1>4. TypeOK'
  BY <1>1, <1>3 DEF TypeOK, Phases
<1>5. QueuesOK'
  <2>1. \A k \in Keys : r \notin Items(queues[k])
    BY <1>1 DEF QueuesOK
  <2> QED BY <1>1, <2>1 DEF QueuesOK, TypeOK
<1>6. GrantsHaveOwners'
  BY <1>1, <1>2 DEF GrantsHaveOwners, InQueue, TypeOK
<1>7. WithinCeiling'
  BY <1>3, LimitsAssumption DEF WithinCeiling, TypeOK
<1> QED BY <1>3, <1>4, <1>5, <1>6, <1>7

\* What taking the head off its queue leaves behind.
LEMMA PopFacts ==
    ASSUME IInv, NEW k \in Keys, Waiting(k), queues' = [queues EXCEPT ![k] = Tail(@)]
    PROVE  /\ queues' \in [Keys -> Seq(Requests)]
           /\ Head(queues[k]) \in Requests /\ KeyOf[Head(queues[k])] = k
           /\ Head(queues[k]) \in done => pc[Head(queues[k])] = "idle"
           /\ Head(queues[k]) \notin done =>
                 /\ pc[Head(queues[k])] \in {"parked", "leaving"}
                 /\ Head(queues[k]) \notin granted
           /\ \A x \in Keys : /\ AllDistinct(queues'[x])
                             /\ Items(queues'[x]) = Items(queues[x]) \ {Head(queues[k])}
<1>1. /\ queues[k] \in Seq(Requests) /\ queues[k] # <<>> /\ AllDistinct(queues[k])
      /\ queues \in [Keys -> Seq(Requests)]
  BY DEF IInv, TypeOK, QueuesOK, Waiting
<1>2. /\ Tail(queues[k]) \in Seq(Requests) /\ Head(queues[k]) \in Requests
      /\ Head(queues[k]) \in Items(queues[k])
      /\ Items(Tail(queues[k])) = Items(queues[k]) \ {Head(queues[k])}
      /\ AllDistinct(Tail(queues[k]))
  BY <1>1, TailItems
<1>3. /\ KeyOf[Head(queues[k])] = k
      /\ Head(queues[k]) \in done => pc[Head(queues[k])] = "idle"
      /\ Head(queues[k]) \notin done => pc[Head(queues[k])] \in {"parked", "leaving"}
  BY <1>2 DEF IInv, QueuesOK
<1>4. Head(queues[k]) \notin granted
  BY <1>2, <1>3 DEF IInv, GrantsHaveOwners, InQueue
<1>5. \A x \in Keys \ {k} : Head(queues[k]) \notin Items(queues[x])
  BY <1>3 DEF IInv, QueuesOK
<1>6. \A x \in Keys : /\ AllDistinct(queues'[x])
                    /\ Items(queues'[x]) = Items(queues[x]) \ {Head(queues[k])}
  <2> TAKE x \in Keys
  <2>1. CASE x = k
    BY <1>1, <1>2, <2>1
  <2>2. CASE x # k
    BY <1>1, <1>5, <2>2 DEF IInv, QueuesOK
  <2> QED BY <2>1, <2>2
<1> QED BY <1>1, <1>2, <1>3, <1>4, <1>6

\* The pump drops a head that gave up, which holds nothing.
LEMMA PumpDiscardInv ==
    ASSUME IInv, NEW k \in Keys, PumpDiscard(k)
    PROVE  IInv'
<1> USE DEF IInv
<1> DEFINE h == Head(queues[k])
<1>1. /\ Waiting(k) /\ h \in done /\ queues' = [queues EXCEPT ![k] = Tail(@)]
      /\ done' = done \ {h}
      /\ UNCHANGED <<mu, windows, present, active, timers, pc, granted, recent>>
  BY DEF PumpDiscard
<1>2. /\ queues' \in [Keys -> Seq(Requests)]
      /\ h \in Requests
      /\ \A x \in Keys : AllDistinct(queues'[x]) /\ Items(queues'[x]) = Items(queues[x]) \ {h}
  BY <1>1, PopFacts
<1>3. TypeOK'
  BY <1>1, <1>2 DEF TypeOK
<1>4. QueuesOK'
  BY <1>1, <1>2 DEF QueuesOK
<1>5. GrantsHaveOwners'
  BY <1>1, <1>2, LimitsAssumption, ZenonT(30) DEF GrantsHaveOwners, InQueue, TypeOK
<1>6. SlotAccounting'
  BY <1>1, SameHolders
<1>7. WithinCeiling'
  BY <1>1 DEF WithinCeiling
<1> QED BY <1>3, <1>4, <1>5, <1>6, <1>7

\* The pump admits the head on its behalf: the waiter becomes a holder.
LEMMA PumpGrantInv ==
    ASSUME IInv, NEW k \in Keys, PumpGrant(k)
    PROVE  IInv'
<1> USE DEF IInv
<1> DEFINE h == Head(queues[k])
<1>1. /\ Waiting(k) /\ h \notin done /\ Admissible(h) /\ Admit(h)
      /\ queues' = [queues EXCEPT ![k] = Tail(@)]
      /\ granted' = granted \cup {h}
      /\ UNCHANGED <<mu, pc, done>>
  BY DEF PumpGrant
<1>2. /\ queues' \in [Keys -> Seq(Requests)]
      /\ h \in Requests /\ KeyOf[h] = k
      /\ pc[h] \in {"parked", "leaving"} /\ h \notin granted
      /\ \A x \in Keys : AllDistinct(queues'[x]) /\ Items(queues'[x]) = Items(queues[x]) \ {h}
  BY <1>1, PopFacts
<1>3. /\ windows' \in [Keys -> Seq(Ages)] /\ present' \subseteq Keys
      /\ timers' \in [Keys -> Ages \cup {NoTimer}]
      /\ recent' \in [Keys -> Seq(Ages)]
      /\ active' = [active EXCEPT ![KeyOf[h]] = IF Conc[h] > 0 THEN @ + 1 ELSE @]
      /\ active' \in [Keys -> Nat]
      /\ WithinCeiling'
  BY <1>1, <1>2, AdmitFacts
<1>4. TypeOK'
  BY <1>1, <1>2, <1>3 DEF TypeOK
<1>5. QueuesOK'
  BY <1>1, <1>2 DEF QueuesOK
<1>6. GrantsHaveOwners'
  BY <1>1, <1>2, LimitsAssumption, ZenonT(30) DEF GrantsHaveOwners, InQueue, TypeOK
<1>7. SlotAccounting'
  <2>1. \A x \in Requests \ {h} :
          (pc'[x] = "serving" \/ x \in granted') <=> (pc[x] = "serving" \/ x \in granted)
    BY <1>1
  <2>2. pc[h] # "serving" /\ h \in granted'
    BY <1>1, <1>2
  <2> QED BY <1>2, <1>3, <2>1, <2>2, OneMoreHolder
<1> QED BY <1>3, <1>4, <1>5, <1>6, <1>7

\* The steps that touch only the lock, the timers and the ages.
LEMMA QuietStepInv ==
    ASSUME IInv,
           \/ Tick
           \/ \E k \in Keys : PumpBlocked(k) \/ PumpEnd(k) \/ WakeTimer(k)
           \/ UNCHANGED vars
    PROVE  IInv'
<1> USE DEF IInv
<1>1. /\ UNCHANGED <<active, queues, pc, done, granted>>
      /\ mu' \in Keys \cup {Free} /\ windows' \in [Keys -> Seq(Ages)]
      /\ present' \subseteq Keys
      /\ timers' \in [Keys -> Ages \cup {NoTimer}] /\ recent' \in [Keys -> Seq(Ages)]
  <2>1. CASE Tick
    <3>1. windows' \in [Keys -> Seq(Ages)] /\ recent' \in [Keys -> Seq(Ages)]
      BY <2>1, LiveOlder DEF Tick, TypeOK
    <3>2. timers' \in [Keys -> Ages \cup {NoTimer}]
      <4>1. Window \in Nat /\ \A k \in Keys : timers[k] \in Ages \cup {NoTimer}
        BY LimitsAssumption DEF TypeOK
      <4>2. \A k \in Keys : timers[k] > 0 => timers[k] - 1 \in Ages
        BY <4>1 DEF Ages, NoTimer
      <4> QED BY <2>1, <4>1, <4>2 DEF Tick
    <3> QED BY <2>1, <3>1, <3>2 DEF Tick, TypeOK
  <2>2. ASSUME NEW k \in Keys, PumpBlocked(k)
        PROVE  timers' \in [Keys -> Ages \cup {NoTimer}] /\ present' \subseteq Keys
    <3> DEFINE h == Head(queues[k])
    <3>1. h \in Requests /\ KeyOf[h] = k
      <4>1. Waiting(k) /\ queues[k] \in Seq(Requests) /\ AllDistinct(queues[k])
        BY <2>2 DEF PumpBlocked, TypeOK, QueuesOK
      <4>2. h \in Requests /\ h \in Items(queues[k])
        BY <4>1, TailItems DEF Waiting
      <4> QED BY <4>2 DEF QueuesOK
    <3>2. present' \subseteq Keys
      BY <2>2, <3>1 DEF PumpBlocked, Touched, TypeOK
    <3>3. ~HasRoom(h) => Window - Head(Compact(windows[k])) \in Ages
      <4>1. windows[k] \in Seq(Ages) /\ Rpm[h] \in Nat /\ Window \in Nat
        BY LimitsAssumption, <3>1 DEF TypeOK
      <4>2. /\ Compact(windows[k]) \in Seq(Ages)
            /\ Len(Compact(windows[k])) = Live(windows[k]) /\ Live(windows[k]) \in Nat
        BY <4>1, LiveBound
      <4>3. ~HasRoom(h) => Len(Compact(windows[k])) > 0
        BY <3>1, <4>1, <4>2 DEF HasRoom
      <4>4. ~HasRoom(h) => Head(Compact(windows[k])) \in Ages
        BY <4>2, <4>3
      <4> QED BY <4>1, <4>4 DEF Ages
    <3> QED BY <2>2, <3>2, <3>3 DEF PumpBlocked, TypeOK
  <2>3. CASE \E k \in Keys : PumpBlocked(k)
    BY <2>2, <2>3 DEF PumpBlocked, TypeOK
  <2>4. CASE \E k \in Keys : PumpEnd(k)
    BY <2>4 DEF PumpEnd, TypeOK
  <2>5. CASE \E k \in Keys : WakeTimer(k)
    BY <2>5 DEF WakeTimer, TypeOK
  <2>6. CASE UNCHANGED vars
    BY <2>6 DEF vars, TypeOK
  <2> QED BY <2>1, <2>3, <2>4, <2>5, <2>6
<1>2. TypeOK'
  BY <1>1 DEF TypeOK
<1>3. QueuesOK'
  BY <1>1 DEF QueuesOK
<1>4. GrantsHaveOwners'
  BY <1>1 DEF GrantsHaveOwners, InQueue
<1>5. SlotAccounting'
  BY <1>1, SameHolders
<1>6. WithinCeiling'
  BY <1>1 DEF WithinCeiling
<1> QED BY <1>2, <1>3, <1>4, <1>5, <1>6

\* Every step preserves the invariant.
LEMMA NextIInv == IInv /\ [Next]_vars => IInv'
<1> SUFFICES ASSUME IInv, [Next]_vars PROVE IInv'
  OBVIOUS
<1>1. ASSUME NEW r \in Requests, Step(r) PROVE IInv'
  <2>1. CASE AdmitFast(r)
    BY <2>1, AdmitFastInv
  <2>2. CASE MissFast(r) \/ CancelBeforeQueue(r) \/ RefuseFull(r) \/ Expire(r)
    BY <2>2, PlainStepInv
  <2>3. CASE Enqueue(r)
    BY <2>3, EnqueueInv
  <2>4. CASE Receive(r)
    BY <2>4, ReceiveInv
  <2>5. CASE GiveUp(r)
    BY <2>5, GiveUpInv
  <2>6. CASE Release(r) \/ EndUncapped(r)
    BY <2>6, EndInv
  <2> QED BY <1>1, <2>1, <2>2, <2>3, <2>4, <2>5, <2>6 DEF Step
<1>2. ASSUME NEW k \in Keys, Pump(k) \/ WakeTimer(k) PROVE IInv'
  <2>1. CASE PumpDiscard(k)
    BY <2>1, PumpDiscardInv
  <2>2. CASE PumpGrant(k)
    BY <2>2, PumpGrantInv
  <2>3. CASE PumpBlocked(k) \/ PumpEnd(k) \/ WakeTimer(k)
    BY <2>3, QuietStepInv
  <2> QED BY <1>2, <2>1, <2>2, <2>3 DEF Pump
<1>3. CASE Tick \/ UNCHANGED vars
  BY <1>3, QuietStepInv
<1> QED BY <1>1, <1>2, <1>3 DEF Next

\* Every reachable state of the limiter satisfies the inductive invariant.
THEOREM Invariance == Spec => []IInv
BY InitIInv, NextIInv, PTL DEF Spec

-------------------------------------------------------------------------------
(* The theorems. *)

\* The limiter's state stays well typed: in particular no counter goes negative.
THEOREM TypeCorrect == Spec => []TypeOK
BY Invariance, PTL DEF IInv

\* Every key's counter is the number of requests that hold one of its slots, for
\* any keys, limits, callers, timeouts and evictions.
THEOREM SlotsAccounted == Spec => []SlotAccounting
BY Invariance, PTL DEF IInv

\* Nobody is handed a slot that nobody will receive or give back.
THEOREM GrantsOwned == Spec => []GrantsHaveOwners
BY Invariance, PTL DEF IInv

\* A key never has more requests in flight than its concurrency limit.
THEOREM ConcurrencyCapped == Spec => []ConcurrencyRespected
<1>1. IInv => ConcurrencyRespected
  BY DEF IInv, SlotAccounting, WithinCeiling, ConcurrencyRespected
<1> QED BY <1>1, Invariance, PTL

-------------------------------------------------------------------------------
(* What the limiter implements.                                                *)

Pooled == [k \in Keys |-> Holders(k)]
Owns(r) == pc[r] = "serving" \/ r \in granted

\* The pool counts as the limiter does.
LEMMA SameCardinality == \A S : Pool!Cardinality(S) = Cardinality(S)
BY DEF Cardinality, Pool!Cardinality

\* A step after which nobody else owns a slot, or no longer does, is one of the pool:
\* the ceiling is kept because the key stays within its limit after the step.
LEMMA OneOwnerPerStep ==
    ASSUME IInv, IInv', NEW r \in Requests,
           \A x \in Requests \ {r} : Owns(x)' <=> Owns(x)
    PROVE  Pool!Next \/ UNCHANGED Pooled
<1> DEFINE k == KeyOf[r]
<1>0. k \in Keys /\ Conc[r] \in Nat /\ ConcCeiling[k] \in Nat
  BY LimitsAssumption
<1>1. \A x \in Keys \ {k} : Holders(x)' = Holders(x)
  BY DEF Holders, Owns
<1>2. CASE Conc[r] = 0 \/ (Owns(r)' <=> Owns(r))
  <2>1. Holders(k)' = Holders(k)
    BY <1>0, <1>2 DEF Holders, Owns
  <2> QED BY <1>1, <2>1 DEF Pooled
<1>3. CASE Conc[r] > 0 /\ ~Owns(r) /\ Owns(r)'
  <2>1. r \notin Holders(k) /\ Holders(k)' = Holders(k) \cup {r}
    BY <1>3 DEF Holders, Owns
  <2>2. Cardinality(Holders(k)') <= ConcCeiling[k]
    BY <1>0 DEF IInv, SlotAccounting, WithinCeiling
  <2>3. Cardinality(Holders(k)) < ConcCeiling[k]
    <3>1. Cardinality(Holders(k)') = Cardinality(Holders(k)) + 1
      BY <1>0, <2>1, HoldersFinite, FS_AddElement
    <3> QED BY <1>0, <2>2, <3>1, HoldersFinite
  <2>4. Pooled' = [Pooled EXCEPT ![k] = @ \cup {r}]
    BY <1>0, <1>1, <2>1 DEF Pooled
  <2>5. Pool!Take(k, r)
    <3>1. Pooled[k] = Holders(k)
      BY <1>0 DEF Pooled
    <3>2. r \notin Pooled[k] /\ Pool!Cardinality(Pooled[k]) < ConcCeiling[k]
      BY <2>1, <2>3, <3>1, SameCardinality
    <3> QED BY <2>4, <3>2 DEF Pool!Take, Pooled
  <2>6. Pooled' # Pooled
    BY <1>0, <2>1 DEF Pooled
  <2> QED BY <1>0, <2>5, <2>6 DEF Pool!Next, Pooled
<1>4. CASE Conc[r] > 0 /\ Owns(r) /\ ~Owns(r)'
  <2>1. r \in Holders(k) /\ Holders(k)' = Holders(k) \ {r}
    BY <1>4 DEF Holders, Owns
  <2>2. Pooled' = [Pooled EXCEPT ![k] = @ \ {r}]
    BY <1>0, <1>1, <2>1 DEF Pooled
  <2>3. Pool!GiveBack(k, r)
    BY <1>0, <2>1, <2>2 DEF Pool!GiveBack, Pooled
  <2>4. Pooled' # Pooled
    BY <1>0, <2>1 DEF Pooled
  <2> QED BY <1>0, <2>3, <2>4 DEF Pool!Next, Pooled
<1> QED BY <1>0, <1>2, <1>3, <1>4

\* No step concerns the slots of two requests.
LEMMA OwnersChangeSingly ==
    ASSUME IInv, [Next]_vars
    PROVE  \/ \E r \in Requests : \A x \in Requests \ {r} : Owns(x)' <=> Owns(x)
           \/ UNCHANGED <<pc, granted>>
<1>1. ASSUME NEW r \in Requests, Step(r)
      PROVE  \A x \in Requests \ {r} : Owns(x)' <=> Owns(x)
  BY <1>1 DEF IInv, TypeOK, Owns, Step, AdmitFast, MissFast, CancelBeforeQueue, RefuseFull,
     Enqueue, Receive, Expire, GiveUp, Release, EndUncapped
<1>2. ASSUME NEW k \in Keys, PumpGrant(k)
      PROVE  /\ Head(queues[k]) \in Requests
             /\ \A x \in Requests \ {Head(queues[k])} : Owns(x)' <=> Owns(x)
  BY <1>2, PopFacts DEF PumpGrant, Owns
<1>3. ASSUME NEW k \in Keys, PumpDiscard(k) \/ PumpBlocked(k) \/ PumpEnd(k) \/ WakeTimer(k)
      PROVE  UNCHANGED <<pc, granted>>
  BY <1>3 DEF PumpDiscard, PumpBlocked, PumpEnd, WakeTimer
<1>4. CASE Tick \/ UNCHANGED vars
  BY <1>4 DEF Tick, vars
<1> QED BY <1>1, <1>2, <1>3, <1>4 DEF Next, Pump

\* The limiter implements SlotPool: each key is a pool of slots, taken one at a time up
\* to its limit and given back by the request that took them, for any keys, limits,
\* callers, timeouts and evictions.
THEOREM ImplementsSlotPool == Spec => IsSlotPool
<1>1. Init => Pool!Init
  BY DEF Init, Pool!Init, Holders
<1>2. IInv /\ IInv' /\ [Next]_vars => [Pool!Next]_Pooled
  <2> SUFFICES ASSUME IInv, IInv', [Next]_vars PROVE Pool!Next \/ UNCHANGED Pooled
    OBVIOUS
  <2>1. CASE UNCHANGED <<pc, granted>>
    BY <2>1 DEF Pooled, Holders
  <2> QED BY <2>1, OwnersChangeSingly, OneOwnerPerStep
<1> QED BY <1>1, <1>2, Invariance, PTL DEF Spec, IsSlotPool, Pool!Spec, Pooled

-------------------------------------------------------------------------------
(* The RPM limit, while the limiter holds fewer keys than its cap.             *)

\* Nothing has been evicted: the windows hold every stamp of the history.
NothingForgotten ==
    /\ recent = windows
    /\ \A k \in Keys : Live(windows[k]) <= RpmCeiling[k]

\* Below the cap an admission sweeps nothing.
LEMMA NoSweep ==
    ASSUME Cardinality(Keys) < MaxKeys, TypeOK, NEW r \in Requests
    PROVE  Swept(r) \subseteq {{}}
<1>1. present \cup {KeyOf[r]} \subseteq Keys
  BY LimitsAssumption DEF TypeOK
<1>2. /\ Cardinality(present \cup {KeyOf[r]}) <= Cardinality(Keys)
      /\ Cardinality(present \cup {KeyOf[r]}) \in Nat /\ Cardinality(Keys) \in Nat
  BY <1>1, LimitsAssumption, FS_Subset, FS_CardinalityType
<1>3. Cardinality(present \cup {KeyOf[r]}) < MaxKeys
  BY <1>2, LimitsAssumption
<1> QED BY <1>3 DEF Swept, Evictions

\* Below the cap on keys an admission forgets no earlier one: the limiter's
\* windows are those of what was really admitted, within every ceiling.
LEMMA AdmitForgetsNothing ==
    ASSUME Cardinality(Keys) < MaxKeys, TypeOK, NothingForgotten,
           NEW r \in Requests, Admissible(r), Admit(r)
    PROVE  NothingForgotten'
<1> DEFINE k == KeyOf[r]
           w == windows[k]
<1>1. k \in Keys /\ Rpm[r] \in Nat /\ RpmCeiling[k] \in Nat /\ Rpm[r] <= RpmCeiling[k]
  BY LimitsAssumption
<1>2. /\ windows' = IF Rpm[r] > 0 THEN Stamped(k, {}) ELSE windows
      /\ recent' = IF Rpm[r] > 0
                   THEN [recent EXCEPT ![k] = Remember(Compact(@), RpmCeiling[k])]
                   ELSE recent
  BY NoSweep DEF Admit
<1>3. CASE Rpm[r] = 0
  BY <1>2, <1>3 DEF NothingForgotten
<1>4. CASE Rpm[r] > 0
  <2>1. w \in Seq(Ages)
    BY <1>1 DEF TypeOK
  <2>2. /\ Live(w) < Rpm[r] /\ Live(w) \in Nat
        /\ Compact(w) \in Seq(Ages) /\ Len(Compact(w)) = Live(w)
    BY <1>4, <2>1, LiveBound DEF Admissible, HasRoom
  <2>3. Remember(Compact(w), RpmCeiling[k]) = Append(Compact(w), 0)
    BY <1>1, <2>2 DEF Remember
  <2>4. windows' = [windows EXCEPT ![k] = Append(Compact(w), 0)]
    BY <1>1, <1>2, <1>4 DEF Stamped, TypeOK
  <2>5. recent' = windows'
    BY <1>1, <1>2, <1>4, <2>3, <2>4 DEF NothingForgotten
  <2>6. /\ Live(Append(Compact(w), 0)) <= Live(w) + 1
        /\ Live(Append(Compact(w), 0)) \in Nat
    BY <2>1, LiveAppend
  <2>7. Live(windows'[k]) <= RpmCeiling[k]
    BY <1>1, <2>2, <2>4, <2>6 DEF TypeOK
  <2>8. \A x \in Keys \ {k} : windows'[x] = windows[x]
    BY <2>4 DEF TypeOK
  <2> QED BY <2>5, <2>7, <2>8 DEF NothingForgotten
<1> QED BY <1>1, <1>3, <1>4

\* Below the cap on keys no step forgets an admission that is still in its window.
LEMMA NextForgetsNothing ==
    ASSUME Cardinality(Keys) < MaxKeys
    PROVE  IInv /\ NothingForgotten /\ [Next]_vars => NothingForgotten'
<1> SUFFICES ASSUME IInv, NothingForgotten, [Next]_vars PROVE NothingForgotten'
  OBVIOUS
<1>1. TypeOK
  BY DEF IInv
<1>2. ASSUME NEW r \in Requests, AdmitFast(r) PROVE NothingForgotten'
  BY <1>1, <1>2, AdmitForgetsNothing DEF AdmitFast
<1>3. ASSUME NEW k \in Keys, PumpGrant(k) PROVE NothingForgotten'
  <2>1. Head(queues[k]) \in Requests
    BY <1>3, TailItems DEF IInv, QueuesOK, TypeOK, PumpGrant, Waiting
  <2> QED BY <1>1, <1>3, <2>1, AdmitForgetsNothing DEF PumpGrant
<1>4. CASE Tick
  <2>1. recent' = windows' /\ windows' = [k \in Keys |-> Older(windows[k])]
    BY <1>4 DEF Tick, NothingForgotten
  <2>2. \A k \in Keys : Live(Older(windows[k])) <= RpmCeiling[k]
    <3> TAKE k \in Keys
    <3>1. windows[k] \in Seq(Ages) /\ RpmCeiling[k] \in Nat
      BY <1>1, LimitsAssumption DEF TypeOK
    <3>2. /\ Live(Older(windows[k])) <= Live(windows[k])
          /\ Live(Older(windows[k])) \in Nat /\ Live(windows[k]) \in Nat
      BY <3>1, LiveOlder, LiveBound
    <3> QED BY <3>1, <3>2 DEF NothingForgotten
  <2> QED BY <2>1, <2>2 DEF NothingForgotten
<1>5. CASE UNCHANGED <<windows, recent>>
  BY <1>5 DEF NothingForgotten
<1>6. ASSUME NEW r \in Requests, Step(r), ~AdmitFast(r) PROVE UNCHANGED <<windows, recent>>
  BY <1>6 DEF Step, MissFast, CancelBeforeQueue, RefuseFull, Enqueue, Receive, Expire,
              GiveUp, Release, EndUncapped
<1>7. ASSUME NEW k \in Keys, Pump(k) \/ WakeTimer(k), ~PumpGrant(k)
      PROVE  UNCHANGED <<windows, recent>>
  BY <1>7 DEF Pump, PumpDiscard, PumpBlocked, PumpEnd, WakeTimer
<1> QED BY <1>2, <1>3, <1>4, <1>5, <1>6, <1>7 DEF Next, vars

\* While the limiter knows fewer keys than maxKeys, no key is admitted more often
\* than its RPM limit over any window.
THEOREM RpmCapped ==
    ASSUME Cardinality(Keys) < MaxKeys
    PROVE  Spec => []RpmRespected
<1>1. Init => NothingForgotten
  <2>1. Live(<<>>) = 0
    <3>1. {i \in DOMAIN <<>> : <<>>[i] < Window} = {}
      OBVIOUS
    <3> QED BY <3>1, FS_EmptySet DEF Live
  <2>2. \A k \in Keys : RpmCeiling[k] \in Nat
    BY LimitsAssumption
  <2> QED BY <2>1, <2>2 DEF Init, NothingForgotten
<1>2. NothingForgotten => RpmRespected
  BY DEF NothingForgotten, RpmRespected
<1> QED BY <1>1, <1>2, Invariance, NextForgetsNothing, PTL DEF Spec

-------------------------------------------------------------------------------
(* No lost wakeup.                                                             *)

\* A window lists its stamps oldest first.
OldestFirst(s) == \A i, j \in DOMAIN s : i <= j => s[i] >= s[j]

\* Sweeping the expired prefix and recording an admission keep the order, and the only
\* new stamp is the admission's.
LEMMA StampedInOrder ==
    ASSUME NEW s \in Seq(Ages), OldestFirst(s)
    PROVE  /\ OldestFirst(Append(Compact(s), 0))
           /\ \A i \in DOMAIN Append(Compact(s), 0) :
                  \/ Append(Compact(s), 0)[i] = 0
                  \/ \E j \in DOMAIN s : Append(Compact(s), 0)[i] = s[j]
<1> DEFINE d == Len(s) - Live(s)
           c == Compact(s)
<1>1. Len(s) \in Nat /\ Live(s) \in 0..Len(s) /\ d \in 0..Len(s)
  BY LiveBound
<1>2. /\ c \in Seq(Ages) /\ Len(c) = Live(s)
      /\ \A i \in 1..Len(c) : c[i] = s[d + i] /\ d + i \in 1..Len(s)
  BY <1>1, LiveBound DEF Compact
<1>3. \A i \in 1..Len(c) : c[i] \in Nat
  BY <1>2, LimitsAssumption DEF Ages
<1>4. /\ DOMAIN Append(c, 0) = 1..(Len(c) + 1) /\ Append(c, 0)[Len(c) + 1] = 0
      /\ \A i \in 1..Len(c) : Append(c, 0)[i] = c[i]
  BY <1>2
<1>5. \A i, j \in 1..Len(c) : i <= j => c[i] >= c[j]
  <2> SUFFICES ASSUME NEW i \in 1..Len(c), NEW j \in 1..Len(c), i <= j
               PROVE  s[d + i] >= s[d + j]
    BY <1>2
  <2>1. d + i \in DOMAIN s /\ d + j \in DOMAIN s /\ d + i <= d + j
    BY <1>1, <1>2
  <2> QED BY <2>1 DEF OldestFirst
<1>6. OldestFirst(Append(c, 0))
  BY <1>1, <1>2, <1>3, <1>4, <1>5 DEF OldestFirst
<1>7. \A i \in 1..Len(c) : \E j \in DOMAIN s : Append(c, 0)[i] = s[j]
  BY <1>2, <1>4
<1> QED BY <1>1, <1>2, <1>4, <1>6, <1>7

\* The first stamp that compaction leaves is the oldest one inside the window.
LEMMA OldestLive ==
    ASSUME NEW s \in Seq(Ages), OldestFirst(s), Live(s) > 0
    PROVE  /\ Head(Compact(s)) \in Ages
           /\ \A i \in DOMAIN s : s[i] < Window => s[i] <= Head(Compact(s))
<1> DEFINE alive == {i \in DOMAIN s : s[i] < Window}
           first == Len(s) - Live(s) + 1
<1>1. Len(s) \in Nat /\ Live(s) \in 1..Len(s) /\ first \in 1..Len(s)
  BY LiveBound
<1>2. Head(Compact(s)) = s[first] /\ s[first] \in Ages
  BY <1>1, LiveBound DEF Compact
<1>3. ASSUME NEW i \in DOMAIN s, s[i] < Window
      PROVE  i >= first
  <2>1. i \in 1..Len(s) /\ Window \in Nat /\ \A j \in 1..Len(s) : s[j] \in Nat
    BY LimitsAssumption DEF Ages
  <2>2. i..Len(s) \subseteq alive
    BY <1>3, <2>1 DEF OldestFirst
  <2>3. IsFiniteSet(alive)
    <3>1. alive \subseteq 1..Len(s)
      OBVIOUS
    <3>2. IsFiniteSet(1..Len(s))
      BY <1>1, FS_Interval
    <3> QED BY <3>1, <3>2, FS_Subset
  <2>4. Cardinality(i..Len(s)) = Len(s) - i + 1
    BY <1>1, <2>1, FS_Interval
  <2>5. Cardinality(i..Len(s)) <= Live(s)
    BY <2>2, <2>3, FS_Subset DEF Live
  <2> QED BY <1>1, <2>1, <2>4, <2>5
<1>4. \A i \in DOMAIN s : s[i] < Window => s[i] <= s[first]
  BY <1>1, <1>3 DEF OldestFirst
<1> QED BY <1>2, <1>4

\* Time keeps the order of the stamps.
LEMMA OlderInOrder ==
    ASSUME NEW s \in Seq(Ages), OldestFirst(s)
    PROVE  OldestFirst(Older(s))
<1>1. /\ DOMAIN s = 1..Len(s) /\ DOMAIN Older(s) = 1..Len(s)
      /\ Window \in Nat /\ \A i \in 1..Len(s) : s[i] \in 0..Window
  BY LimitsAssumption DEF Older, Ages
<1>2. \A i \in 1..Len(s) : Older(s)[i] = IF s[i] < Window THEN s[i] + 1 ELSE s[i]
  BY DEF Older
<1> QED BY <1>1, <1>2 DEF OldestFirst

\* The timer of a key is due no later than the instant its oldest live stamp expires.
InTime(k) ==
    timers[k] # NoTimer =>
        \A i \in DOMAIN windows[k] :
            windows[k][i] < Window => timers[k] <= Window - windows[k][i]

\* Outside its own pump a key's head is alive, and if it waits for the window alone, a
\* timer is armed.
Attended(k) ==
    (mu # k /\ Waiting(k)) =>
        /\ Head(queues[k]) \notin done
        /\ HasSlot(Head(queues[k])) => timers[k] # NoTimer

\* Only a window arms a timer.
Untimed(k) == RpmCeiling[k] = 0 => timers[k] = NoTimer

WakeInv == \A k \in Keys : OldestFirst(windows[k]) /\ InTime(k) /\ Attended(k) /\ Untimed(k)

\* What an admission does to the windows and the timers: those of a swept key, on which
\* nobody waits, go; the admitted key gets one stamp more; nothing else changes.
LEMMA AdmitWakes ==
    ASSUME TypeOK, WakeInv, NEW r \in Requests, Admit(r)
    PROVE  \A k \in Keys :
               /\ OldestFirst(windows'[k]) /\ InTime(k)' /\ Untimed(k)'
               /\ Waiting(k) => timers'[k] = timers[k]
<1>1. PICK gone \in Swept(r) :
        /\ timers' = [x \in Keys |-> IF x \in gone THEN NoTimer ELSE timers[x]]
        /\ windows' = IF Rpm[r] > 0 THEN Stamped(KeyOf[r], gone) ELSE windows
  BY DEF Admit
<1>2. \A x \in gone : ~Waiting(x) /\ x # KeyOf[r]
  BY DEF Swept, Evictions, Idle, Waiting
<1> SUFFICES ASSUME NEW k \in Keys
             PROVE  /\ OldestFirst(windows'[k]) /\ InTime(k)' /\ Untimed(k)'
                    /\ Waiting(k) => timers'[k] = timers[k]
  OBVIOUS
<1>3. /\ windows[k] \in Seq(Ages) /\ OldestFirst(windows[k]) /\ InTime(k) /\ Untimed(k)
      /\ timers[k] \in Ages \cup {NoTimer}
  BY DEF WakeInv, TypeOK
<1>4. Untimed(k)' /\ (Waiting(k) => timers'[k] = timers[k])
  BY <1>1, <1>2, <1>3 DEF Untimed
<1>5. CASE windows'[k] = windows[k]
  BY <1>1, <1>3, <1>4, <1>5 DEF OldestFirst, InTime
<1>6. CASE windows'[k] = <<>>
  BY <1>4, <1>6 DEF OldestFirst, InTime
<1>7. CASE windows'[k] = Append(Compact(windows[k]), 0)
  <2>1. OldestFirst(windows'[k])
    BY <1>3, <1>7, StampedInOrder
  <2>2. ASSUME timers'[k] # NoTimer, NEW i \in DOMAIN windows'[k], windows'[k][i] < Window
        PROVE  timers'[k] <= Window - windows'[k][i]
    <3>1. timers'[k] = timers[k]
      BY <1>1, <2>2
    <3>2. Window \in Nat /\ timers[k] \in Ages
      BY <1>3, <2>2, <3>1, LimitsAssumption
    <3>3. CASE windows'[k][i] = 0
      BY <3>1, <3>2, <3>3 DEF Ages
    <3>4. CASE \E j \in DOMAIN windows[k] : windows'[k][i] = windows[k][j]
      BY <1>3, <2>2, <3>1, <3>4 DEF InTime
    <3> QED BY <1>3, <1>7, <2>2, <3>3, <3>4, StampedInOrder
  <2> QED BY <1>4, <2>1, <2>2 DEF InTime, OldestFirst
<1>8. windows'[k] \in {windows[k], <<>>, Append(Compact(windows[k]), 0)}
  BY <1>1 DEF Stamped, TypeOK
<1> QED BY <1>4, <1>5, <1>6, <1>7, <1>8

\* A key is attended to as long as its line, its timer and its counter stay, and its
\* head has not left.
LEMMA StaysAttended ==
    ASSUME NEW k \in Keys, Attended(k), mu # k \/ mu' = k, queues'[k] = queues[k],
           Waiting(k) => /\ timers'[k] = timers[k]
                         /\ Head(queues[k]) \in done' => Head(queues[k]) \in done
                         /\ HasSlot(Head(queues[k]))' => HasSlot(Head(queues[k]))
    PROVE  Attended(k)'
BY DEF Attended, Waiting, HasSlot

\* The head of a line is one of the key's requests.
LEMMA HeadOfLine ==
    ASSUME IInv, NEW k \in Keys, Waiting(k)
    PROVE  Head(queues[k]) \in Requests /\ KeyOf[Head(queues[k])] = k
<1>1. queues[k] \in Seq(Requests) /\ queues[k] # <<>> /\ AllDistinct(queues[k])
  BY DEF IInv, TypeOK, QueuesOK, Waiting
<1>2. Head(queues[k]) \in Requests /\ Head(queues[k]) \in Items(queues[k])
  BY <1>1, TailItems
<1> QED BY <1>2 DEF IInv, QueuesOK

\* No step of a request loses a wakeup: one that could need it takes the lock for the
\* pump of its key.
LEMMA StepKeepsWakes ==
    ASSUME IInv, WakeInv, NEW r \in Requests, Step(r)
    PROVE  WakeInv'
<1> DEFINE h(k) == Head(queues[k])
<1>0. TypeOK
  BY DEF IInv
<1>1. CASE AdmitFast(r)
  <2>1. /\ Admit(r) /\ Admissible(r) /\ UNCHANGED <<mu, queues, done>>
        /\ active' = [active EXCEPT ![KeyOf[r]] = IF Conc[r] > 0 THEN @ + 1 ELSE @]
    BY <1>0, <1>1, AdmitFacts DEF AdmitFast, IInv
  <2>2. \A k \in Keys : /\ OldestFirst(windows'[k]) /\ InTime(k)' /\ Untimed(k)'
                        /\ Waiting(k) => timers'[k] = timers[k]
    BY <1>0, <2>1, AdmitWakes
  <2>3. ASSUME NEW k \in Keys, Waiting(k), HasSlot(h(k))' PROVE HasSlot(h(k))
    <3>1. h(k) \in Requests /\ KeyOf[h(k)] = k
      BY <2>3, HeadOfLine
    <3>2. active[k] \in Nat /\ active'[k] \in Nat /\ active[k] <= active'[k]
      BY <1>0, <2>1 DEF TypeOK
    <3>3. Conc[h(k)] \in Nat
      BY <3>1, LimitsAssumption
    <3> QED BY <2>1, <2>3, <3>1, <3>2, <3>3 DEF HasSlot
  <2>4. \A k \in Keys : Attended(k)'
    BY <1>1, <2>1, <2>2, <2>3, StaysAttended DEF WakeInv, AdmitFast
  <2> QED BY <2>2, <2>4 DEF WakeInv
<1>2. CASE MissFast(r) \/ CancelBeforeQueue(r) \/ RefuseFull(r) \/ Receive(r) \/ Expire(r)
           \/ EndUncapped(r)
  <2>1. UNCHANGED <<mu, windows, active, queues, timers, done>>
    BY <1>2 DEF MissFast, CancelBeforeQueue, RefuseFull, Receive, Expire, EndUncapped
  <2> QED BY <2>1 DEF WakeInv, OldestFirst, InTime, Attended, Untimed, Waiting, HasSlot
<1>3. CASE Enqueue(r) \/ GiveUp(r) \/ Release(r)
  <2>1. /\ mu = Free /\ mu' = KeyOf[r] /\ KeyOf[r] \in Keys
        /\ UNCHANGED <<windows, timers>>
        /\ \A k \in Keys \ {KeyOf[r]} : queues'[k] = queues[k] /\ active'[k] = active[k]
        /\ done' \subseteq done \cup {r}
    BY <1>0, <1>3, LimitsAssumption
       DEF Enqueue, GiveUp, Release, PumpThenUnlock, TypeOK
  <2>2. ASSUME NEW k \in Keys PROVE OldestFirst(windows'[k]) /\ InTime(k)' /\ Untimed(k)'
    BY <2>1 DEF WakeInv, OldestFirst, InTime, Untimed
  <2>3. ASSUME NEW k \in Keys PROVE Attended(k)'
    <3>1. CASE k = KeyOf[r]
      BY <2>1, <3>1 DEF Attended
    <3>2. CASE k # KeyOf[r]
      <4>1. Waiting(k) => h(k) # r /\ KeyOf[h(k)] = k
        BY <3>2, HeadOfLine
      <4> QED BY <2>1, <3>2, <4>1, FreeNotKey, StaysAttended DEF WakeInv, HasSlot, Free
    <3> QED BY <3>1, <3>2
  <2> QED BY <2>2, <2>3 DEF WakeInv
<1> QED BY <1>1, <1>2, <1>3 DEF Step

\* Nor does a pump, which lets the lock go only when its head is attended to.
LEMMA PumpKeepsWakes ==
    ASSUME IInv, WakeInv, NEW k \in Keys, Pump(k)
    PROVE  WakeInv'
<1> DEFINE h == Head(queues[k])
<1>0. TypeOK
  BY DEF IInv
<1>1. CASE PumpDiscard(k)
  <2>1. /\ UNCHANGED <<mu, windows, active, timers>> /\ mu = k /\ done' \subseteq done
        /\ \A x \in Keys \ {k} : queues'[x] = queues[x]
    BY <1>0, <1>1 DEF PumpDiscard, TypeOK
  <2>2. ASSUME NEW x \in Keys PROVE OldestFirst(windows'[x]) /\ InTime(x)' /\ Untimed(x)'
    BY <2>1 DEF WakeInv, OldestFirst, InTime, Untimed
  <2>3. ASSUME NEW x \in Keys PROVE Attended(x)'
    <3>1. CASE x = k
      BY <2>1, <3>1 DEF Attended
    <3>2. CASE x # k
      BY <2>1, <3>2, StaysAttended DEF WakeInv, HasSlot
    <3> QED BY <3>1, <3>2
  <2> QED BY <2>2, <2>3 DEF WakeInv
<1>2. CASE PumpGrant(k)
  <2>1. h \in Requests /\ KeyOf[h] = k
    BY <1>2, HeadOfLine DEF PumpGrant
  <2>2. /\ Admit(h) /\ Admissible(h) /\ UNCHANGED <<mu, done>> /\ mu = k
        /\ \A x \in Keys \ {k} : queues'[x] = queues[x]
    BY <1>0, <1>2 DEF PumpGrant, TypeOK
  <2>3. active' = [active EXCEPT ![k] = IF Conc[h] > 0 THEN @ + 1 ELSE @]
    BY <1>0, <2>1, <2>2, AdmitFacts DEF IInv
  <2>4. \A x \in Keys : /\ OldestFirst(windows'[x]) /\ InTime(x)' /\ Untimed(x)'
                        /\ Waiting(x) => timers'[x] = timers[x]
    BY <1>0, <2>1, <2>2, AdmitWakes
  <2>5. ASSUME NEW x \in Keys PROVE Attended(x)'
    <3>1. CASE x = k
      BY <2>2, <3>1 DEF Attended
    <3>2. CASE x # k
      <4>1. active'[x] = active[x]
        BY <1>0, <2>3, <3>2 DEF TypeOK
      <4>2. Waiting(x) => KeyOf[Head(queues[x])] = x
        BY HeadOfLine
      <4> QED BY <2>2, <2>4, <3>2, <4>1, <4>2, StaysAttended DEF WakeInv, HasSlot
    <3> QED BY <3>1, <3>2
  <2> QED BY <2>4, <2>5 DEF WakeInv
<1>3. CASE PumpBlocked(k)
  <2>1. /\ UNCHANGED <<windows, active, queues, done>> /\ mu = k /\ mu' = Free
        /\ Waiting(k) /\ h \notin done /\ ~Admissible(h)
        /\ timers' = IF ~HasRoom(h) /\ timers[k] = NoTimer
                     THEN [timers EXCEPT ![k] = Window - Head(Compact(windows[k]))]
                     ELSE timers
    BY <1>3 DEF PumpBlocked
  <2>2. h \in Requests /\ KeyOf[h] = k
    BY <2>1, HeadOfLine
  <2>3. windows[k] \in Seq(Ages) /\ OldestFirst(windows[k]) /\ Window \in Nat
    BY <1>0, LimitsAssumption DEF WakeInv, TypeOK
  <2>4. ~HasRoom(h) => RpmCeiling[k] # 0 /\ Live(windows[k]) > 0
    <3>1. /\ Rpm[h] \in Nat /\ RpmCeiling[k] \in Nat /\ Rpm[h] <= RpmCeiling[k]
          /\ Live(windows[k]) \in Nat
      BY <2>2, <2>3, LiveBound, LimitsAssumption
    <3> QED BY <2>2, <3>1 DEF HasRoom
  <2>5. CASE ~HasRoom(h) /\ timers[k] = NoTimer
    <3> DEFINE due == Window - Head(Compact(windows[k]))
    <3>1. /\ Head(Compact(windows[k])) \in Ages
          /\ \A i \in DOMAIN windows[k] :
                 windows[k][i] < Window => windows[k][i] <= Head(Compact(windows[k]))
      BY <2>3, <2>4, <2>5, OldestLive
    <3>2. due # NoTimer
      BY <2>3, <3>1 DEF Ages, NoTimer
    <3>3. \A x \in Keys : timers'[x] = IF x = k THEN due ELSE timers[x]
      BY <1>0, <2>1, <2>5 DEF TypeOK
    <3>4. ASSUME NEW x \in Keys
          PROVE  OldestFirst(windows'[x]) /\ InTime(x)' /\ Untimed(x)' /\ Attended(x)'
      <4>1. CASE x = k
        <5>1. InTime(k)'
          <6> SUFFICES ASSUME NEW i \in DOMAIN windows[k], windows[k][i] < Window
                       PROVE  due <= Window - windows[k][i]
            BY <2>1, <3>3 DEF InTime
          <6>1. windows[k][i] \in Ages
            BY <2>3
          <6> QED BY <2>3, <3>1, <6>1 DEF Ages
        <5>2. Attended(k)' /\ Untimed(k)' /\ OldestFirst(windows'[k])
          BY <2>1, <2>3, <2>4, <2>5, <3>2, <3>3 DEF Attended, Untimed, OldestFirst
        <5> QED BY <4>1, <5>1, <5>2
      <4>2. CASE x # k
        <5>1. timers'[x] = timers[x]
          BY <3>3, <4>2
        <5> QED BY <2>1, <4>2, <5>1, StaysAttended
                DEF WakeInv, OldestFirst, InTime, Untimed, HasSlot
      <4> QED BY <4>1, <4>2
    <3> QED BY <3>4 DEF WakeInv
  <2>6. CASE ~(~HasRoom(h) /\ timers[k] = NoTimer)
    <3>1. timers' = timers
      BY <2>1, <2>6
    <3>2. Attended(k)'
      BY <2>1, <2>6, <3>1 DEF Attended, Admissible, HasSlot
    <3>3. \A x \in Keys \ {k} : Attended(x)'
      BY <2>1, <3>1, StaysAttended DEF WakeInv, HasSlot
    <3> QED BY <2>1, <3>1, <3>2, <3>3 DEF WakeInv, OldestFirst, InTime, Untimed
  <2> QED BY <2>5, <2>6
<1>4. CASE PumpEnd(k)
  <2>1. /\ UNCHANGED <<windows, active, queues, timers, done>> /\ mu = k /\ ~Waiting(k)
    BY <1>4 DEF PumpEnd
  <2>2. Attended(k)'
    BY <2>1 DEF Attended, Waiting
  <2>3. \A x \in Keys \ {k} : Attended(x)'
    BY <2>1, StaysAttended DEF WakeInv, HasSlot
  <2> QED BY <2>1, <2>2, <2>3 DEF WakeInv, OldestFirst, InTime, Untimed
<1> QED BY <1>1, <1>2, <1>3, <1>4 DEF Pump

\* A timer that fires pumps, and time brings a timer nearer as fast as it ages stamps.
LEMMA TimeKeepsWakes ==
    ASSUME IInv, WakeInv, Tick \/ (\E k \in Keys : WakeTimer(k)) \/ UNCHANGED vars
    PROVE  WakeInv'
<1>0. TypeOK
  BY DEF IInv
<1>1. ASSUME NEW k \in Keys, WakeTimer(k) PROVE WakeInv'
  <2>1. /\ UNCHANGED <<windows, active, queues, done>> /\ mu = Free /\ mu' = k
        /\ \A x \in Keys : timers'[x] = IF x = k THEN NoTimer ELSE timers[x]
    BY <1>0, <1>1 DEF WakeTimer, TypeOK
  <2>2. Attended(k)' /\ InTime(k)' /\ Untimed(k)'
    BY <2>1 DEF Attended, InTime, Untimed
  <2>3. \A x \in Keys \ {k} : Attended(x)' /\ InTime(x)' /\ Untimed(x)'
    BY <2>1, FreeNotKey, StaysAttended DEF WakeInv, InTime, Untimed, HasSlot, Free
  <2> QED BY <2>1, <2>2, <2>3 DEF WakeInv, OldestFirst
<1>2. CASE Tick
  <2> SUFFICES ASSUME NEW k \in Keys
               PROVE  OldestFirst(windows'[k]) /\ InTime(k)' /\ Attended(k)' /\ Untimed(k)'
    BY DEF WakeInv
  <2>1. /\ UNCHANGED <<mu, active, queues, done>>
        /\ windows'[k] = Older(windows[k])
        /\ timers'[k] = IF timers[k] > 0 THEN timers[k] - 1 ELSE timers[k]
    BY <1>2 DEF Tick
  <2>2. /\ windows[k] \in Seq(Ages) /\ OldestFirst(windows[k]) /\ InTime(k) /\ Untimed(k)
        /\ timers[k] \in Ages \cup {NoTimer} /\ Window \in Nat
    BY <1>0, LimitsAssumption DEF WakeInv, TypeOK
  <2>3. OldestFirst(windows'[k])
    BY <2>1, <2>2, OlderInOrder
  <2>4. timers'[k] = NoTimer <=> timers[k] = NoTimer
    BY <2>1, <2>2 DEF Ages, NoTimer
  <2>5. InTime(k)'
    <3> SUFFICES ASSUME timers'[k] # NoTimer,
                        NEW i \in DOMAIN windows'[k], windows'[k][i] < Window
                 PROVE  timers'[k] <= Window - windows'[k][i]
      BY DEF InTime
    <3>1. /\ i \in DOMAIN windows[k] /\ windows[k][i] \in Ages
          /\ windows'[k][i] = IF windows[k][i] < Window
                              THEN windows[k][i] + 1 ELSE windows[k][i]
      BY <2>1, <2>2 DEF Older
    <3>2. windows[k][i] < Window /\ windows'[k][i] = windows[k][i] + 1
      BY <2>2, <3>1 DEF Ages
    <3>3. timers[k] <= Window - windows[k][i] /\ timers[k] \in Nat
      BY <2>2, <2>4, <3>1, <3>2 DEF InTime, Ages
    <3> QED BY <2>1, <2>2, <3>1, <3>2, <3>3 DEF Ages
  <2>6. Attended(k)'
    BY <2>1, <2>4 DEF WakeInv, Attended, Waiting, HasSlot
  <2>7. Untimed(k)'
    BY <2>2, <2>4 DEF Untimed
  <2> QED BY <2>3, <2>5, <2>6, <2>7 DEF OldestFirst
<1>3. CASE UNCHANGED vars
  BY <1>3 DEF vars, WakeInv, OldestFirst, InTime, Attended, Untimed, Waiting, HasSlot
<1> QED BY <1>1, <1>2, <1>3

\* No limiter ever loses a wakeup.
LEMMA WakesInvariant == Spec => []WakeInv
<1>1. Init => WakeInv
  BY DEF Init, WakeInv, OldestFirst, InTime, Attended, Untimed, Waiting
<1>2. IInv /\ WakeInv /\ [Next]_vars => WakeInv'
  BY StepKeepsWakes, PumpKeepsWakes, TimeKeepsWakes DEF Next
<1> QED BY <1>1, <1>2, Invariance, PTL DEF Spec

\* With the lock free, the head of every line that no concurrency limit holds back has a
\* wake timer that is due in time, for any keys, limits, callers, timeouts and evictions.
THEOREM WakeupsNotLost == Spec => []NoLostWakeup
<1>1. WakeInv => NoLostWakeup
  BY FreeNotKey DEF WakeInv, InTime, Attended, NoLostWakeup, Free
<1> QED BY <1>1, WakesInvariant, PTL

\* On a key that only one concurrency limit restricts, the fast path admits nobody past
\* a waiter: any free slot would have been the head's, and no timer accounts for it.
THEOREM ArrivalOrder == Spec => NoOvertakingOnConcurrency
<1> DEFINE Overtakes(r) ==
        /\ pc[r] = "idle" /\ pc'[r] = "serving" /\ ConcurrencyOnly(KeyOf[r])
        /\ LiveWaiters(KeyOf[r]) # {}
<1>1. ASSUME IInv, WakeInv, [Next]_vars, NEW r \in Requests, Overtakes(r)
      PROVE  FALSE
  <2> DEFINE k == KeyOf[r]
             h == Head(queues[k])
  <2>0. TypeOK /\ k \in Keys
    BY <1>1, LimitsAssumption DEF IInv
  <2>1. AdmitFast(r)
    <3>1. CASE \E x \in Requests : Step(x)
      BY <1>1, <2>0, <3>1 DEF TypeOK, Step, AdmitFast, MissFast, CancelBeforeQueue, RefuseFull,
         Enqueue, Receive, Expire, GiveUp, Release, EndUncapped
    <3>2. CASE \E x \in Keys : Pump(x) \/ WakeTimer(x)
      BY <1>1, <3>2 DEF Pump, PumpDiscard, PumpGrant, PumpBlocked, PumpEnd, WakeTimer
    <3>3. CASE Tick \/ UNCHANGED vars
      BY <1>1, <3>3 DEF Tick, vars
    <3> QED BY <1>1, <3>1, <3>2, <3>3 DEF Next
  <2>2. Waiting(k)
    BY <1>1 DEF LiveWaiters, Items, Waiting
  <2>3. h \in Requests /\ KeyOf[h] = k
    BY <1>1, <2>0, <2>2, HeadOfLine
  <2>4. HasSlot(h)
    BY <1>1, <2>1, <2>3 DEF AdmitFast, Admissible, HasSlot, ConcurrencyOnly
  <2>5. timers[k] # NoTimer
    BY <1>1, <2>0, <2>1, <2>2, <2>4, FreeNotKey DEF AdmitFast, WakeInv, Attended, Free
  <2> QED BY <1>1, <2>0, <2>5 DEF WakeInv, Untimed, ConcurrencyOnly
<1>2. IInv /\ WakeInv /\ [Next]_vars =>
        [\A r \in Requests :
            (pc[r] = "idle" /\ pc'[r] = "serving" /\ ConcurrencyOnly(KeyOf[r]))
               => LiveWaiters(KeyOf[r]) = {}]_vars
  BY <1>1
<1> QED BY <1>2, Invariance, WakesInvariant, PTL DEF Spec, NoOvertakingOnConcurrency

-------------------------------------------------------------------------------
(* The token bucket. Sums over a finite set: the recursive function inside the *)
(* library's sum exists, and follows a change of one of its terms.             *)

\* sum is the recursive function of the library's sum, on the sets in D.
Adds(sum, r, D) ==
    sum = [s \in D |-> IF s = {} THEN 0
                       ELSE LET x == CHOOSE y \in s : TRUE IN r[x] + sum[s \ {x}]]

\* The subsets of A with at most n members.
UpToSize(A, n) == {s \in SUBSET A : Cardinality(s) <= n}

\* Of a set that has members, one is taken away: the rest is smaller by one.
LEMMA OneTaken ==
    ASSUME NEW A, IsFiniteSet(A), NEW s \in SUBSET A, s # {}
    PROVE  LET x == CHOOSE y \in s : TRUE
           IN /\ x \in s
              /\ s \ {x} \in SUBSET A
              /\ Cardinality(s) \in Nat /\ Cardinality(s \ {x}) \in Nat
              /\ Cardinality(s) = Cardinality(s \ {x}) + 1
<1> DEFINE x == CHOOSE y \in s : TRUE
<1>1. x \in s
  OBVIOUS
<1>2. IsFiniteSet(s) /\ IsFiniteSet(s \ {x})
  BY FS_Subset
<1> HIDE DEF x
<1>3. /\ Cardinality(s) \in Nat /\ Cardinality(s \ {x}) \in Nat
      /\ Cardinality(s) = Cardinality(s \ {x}) + 1
  BY <1>1, <1>2, FS_RemoveElement, FS_CardinalityType
<1> QED BY <1>1, <1>3 DEF x

\* The recursive function exists on the subsets of a finite set.
LEMMA AddsBuilt ==
    ASSUME NEW A, IsFiniteSet(A), NEW r
    PROVE  \E sum : Adds(sum, r, SUBSET A)
<1> DEFINE T == {n \in Nat : \E sum : Adds(sum, r, UpToSize(A, n))}
<1>1. 0 \in T
  <2> DEFINE g == [s \in UpToSize(A, 0) |-> 0]
  <2>1. ASSUME NEW s \in UpToSize(A, 0) PROVE s = {}
    <3>1. IsFiniteSet(s) /\ Cardinality(s) \in Nat /\ Cardinality(s) <= 0
      BY FS_Subset, FS_CardinalityType DEF UpToSize
    <3> QED BY <3>1, FS_EmptySet
  <2>2. Adds(g, r, UpToSize(A, 0))
    BY <2>1 DEF Adds
  <2> QED BY <2>2
<1>2. ASSUME NEW n \in T PROVE n + 1 \in T
  <2>1. PICK g : Adds(g, r, UpToSize(A, n))
    BY <1>2
  <2> DEFINE b(f, s) == IF s = {} THEN 0
                        ELSE LET x == CHOOSE y \in s : TRUE IN r[x] + f[s \ {x}]
             h == [s \in UpToSize(A, n + 1) |-> b(g, s)]
  <2>2. ASSUME NEW s \in UpToSize(A, n) PROVE g[s] = b(g, s)
    BY <2>1 DEF Adds
  <2>3. \A s \in UpToSize(A, n) : s \in UpToSize(A, n + 1) /\ h[s] = g[s]
    <3>1. ASSUME NEW s \in UpToSize(A, n) PROVE s \in UpToSize(A, n + 1)
      <4>1. Cardinality(s) \in Nat /\ Cardinality(s) <= n
        BY FS_Subset, FS_CardinalityType DEF UpToSize
      <4> QED BY <1>2, <4>1 DEF UpToSize
    <3> QED BY <2>2, <3>1
  <2>4. ASSUME NEW s \in UpToSize(A, n + 1) PROVE h[s] = b(h, s)
    <3>1. CASE s = {}
      BY <3>1
    <3>2. CASE s # {}
      <4> DEFINE x == CHOOSE y \in s : TRUE
      <4>1. s \ {x} \in UpToSize(A, n)
        <5>1. s \in SUBSET A /\ Cardinality(s) <= n + 1
          BY DEF UpToSize
        <5>2. /\ s \ {x} \in SUBSET A /\ Cardinality(s \ {x}) \in Nat
              /\ Cardinality(s) = Cardinality(s \ {x}) + 1
          BY <3>2, <5>1, OneTaken
        <5> HIDE DEF x
        <5> QED BY <1>2, <5>1, <5>2 DEF UpToSize
      <4>2. h[s \ {x}] = g[s \ {x}]
        <5> HIDE DEF x, h
        <5> QED BY <2>3, <4>1
      <4>3. h[s] = r[x] + g[s \ {x}]
        BY <3>2
      <4> HIDE DEF h
      <4> QED BY <3>2, <4>2, <4>3
    <3> QED BY <3>1, <3>2
  <2>5. Adds(h, r, UpToSize(A, n + 1))
    <3>1. h = [s \in UpToSize(A, n + 1) |-> h[s]]
      OBVIOUS
    <3> HIDE DEF h
    <3> QED BY <2>4, <3>1 DEF Adds
  <2> QED BY <2>5
<1>3. T = Nat
  <2> HIDE DEF T
  <2> QED BY <1>1, <1>2, SetInduction, T \subseteq Nat DEF T
<1>4. Cardinality(A) \in T
  <2>1. Cardinality(A) \in Nat
    BY FS_CardinalityType
  <2> HIDE DEF T
  <2> QED BY <1>3, <2>1
<1>5. UpToSize(A, Cardinality(A)) = SUBSET A
  BY FS_Subset DEF UpToSize
<1> QED BY <1>4, <1>5

\* The library's sum of r over A.
SumOver(r, A) == MapThenSumSet(LAMBDA a : r[a], A)

\* k is the sum of r over each subset of A.
Unfolds(k, r, A) ==
    /\ SumOver(r, A) = k[A]
    /\ k[{}] = 0
    /\ \A s \in SUBSET A :
          s # {} => LET x == CHOOSE y \in s : TRUE IN k[s] = r[x] + k[s \ {x}]

\* There is such a k.
LEMMA AddsUnfold ==
    ASSUME NEW A, IsFiniteSet(A), NEW r
    PROVE  \E k : Unfolds(k, r, A)
<1> DEFINE k == CHOOSE sum : Adds(sum, r, SUBSET A)
<1>1. Adds(k, r, SUBSET A)
  BY AddsBuilt
<1>2. SumOver(r, A) = k[A]
  BY DEF Adds, SumOver, MapThenSumSet, MapThenFoldSet
<1> HIDE DEF k
<1>3. k[{}] = 0
  BY <1>1 DEF Adds
<1>4. \A s \in SUBSET A :
         s # {} => LET x == CHOOSE y \in s : TRUE IN k[s] = r[x] + k[s \ {x}]
  BY <1>1 DEF Adds
<1> QED BY <1>2, <1>3, <1>4 DEF Unfolds

\* What holds of the empty set, and of a set when it holds of the set without its
\* chosen member, holds of every subset of a finite set.
LEMMA SubsetInduction ==
    ASSUME NEW A, IsFiniteSet(A), NEW G \in SUBSET SUBSET A, {} \in G,
           \A s \in SUBSET A : s # {} /\ s \ {CHOOSE y \in s : TRUE} \in G => s \in G
    PROVE  A \in G
<1> DEFINE T == {n \in Nat : UpToSize(A, n) \subseteq G}
<1>1. 0 \in T
  <2>1. ASSUME NEW s \in UpToSize(A, 0) PROVE s = {}
    <3>1. IsFiniteSet(s) /\ Cardinality(s) \in Nat /\ Cardinality(s) <= 0
      BY FS_Subset, FS_CardinalityType DEF UpToSize
    <3> QED BY <3>1, FS_EmptySet
  <2> QED BY <2>1
<1>2. ASSUME NEW n \in T PROVE n + 1 \in T
  <2>1. ASSUME NEW s \in UpToSize(A, n + 1), s # {} PROVE s \in G
    <3> DEFINE x == CHOOSE y \in s : TRUE
    <3>1. s \in SUBSET A /\ Cardinality(s) <= n + 1
      BY DEF UpToSize
    <3>2. /\ s \ {x} \in SUBSET A /\ Cardinality(s \ {x}) \in Nat
          /\ Cardinality(s) = Cardinality(s \ {x}) + 1
      BY <2>1, <3>1, OneTaken
    <3>3. s \ {x} \in G
      <4> HIDE DEF x
      <4> QED BY <1>2, <3>1, <3>2 DEF UpToSize
    <3> QED BY <2>1, <3>1, <3>3
  <2>2. UpToSize(A, n + 1) \subseteq G
    BY <2>1
  <2> QED BY <2>2
<1>3. T = Nat
  <2> HIDE DEF T
  <2> QED BY <1>1, <1>2, SetInduction, T \subseteq Nat DEF T
<1>4. Cardinality(A) \in T
  <2>1. Cardinality(A) \in Nat
    BY FS_CardinalityType
  <2> HIDE DEF T
  <2> QED BY <1>3, <2>1
<1>5. A \in UpToSize(A, Cardinality(A))
  BY FS_CardinalityType DEF UpToSize
<1> QED BY <1>4, <1>5

\* A sum of numbers is a number, and zero when all its terms are.
LEMMA SumType ==
    ASSUME NEW A, IsFiniteSet(A), NEW r \in [A -> Nat]
    PROVE  /\ SumOver(r, A) \in Nat
           /\ (\A a \in A : r[a] = 0) => SumOver(r, A) = 0
<1>1. PICK k : Unfolds(k, r, A)
  BY AddsUnfold
<1> DEFINE G == {s \in SUBSET A : k[s] \in Nat /\ ((\A a \in A : r[a] = 0) => k[s] = 0)}
<1>2. {} \in G
  BY <1>1 DEF Unfolds
<1>3. ASSUME NEW s \in SUBSET A, s # {}, s \ {CHOOSE y \in s : TRUE} \in G
      PROVE  s \in G
  <2> DEFINE x == CHOOSE y \in s : TRUE
  <2>1. x \in A
    BY <1>3
  <2>2. k[s] = r[x] + k[s \ {x}]
    BY <1>1, <1>3 DEF Unfolds
  <2>3. s \ {x} \in G
    BY <1>3
  <2> HIDE DEF x
  <2>4. r[x] \in Nat
    BY <2>1
  <2> QED BY <2>1, <2>2, <2>3, <2>4
<1>4. A \in G
  <2> HIDE DEF G
  <2> QED BY <1>2, <1>3, SubsetInduction, G \subseteq SUBSET A DEF G
<1> QED BY <1>1, <1>4 DEF Unfolds

\* A sum follows a change of one of its terms.
LEMMA SumChange ==
    ASSUME NEW A, IsFiniteSet(A), NEW r \in [A -> Nat], NEW q \in [A -> Nat],
           NEW a \in A, \A x \in A \ {a} : q[x] = r[x]
    PROVE  SumOver(q, A) = SumOver(r, A) - r[a] + q[a]
<1> DEFINE v == q[a]
<1>1. PICK k : Unfolds(k, r, A)
  BY AddsUnfold
<1>2. PICK l : Unfolds(l, q, A)
  BY AddsUnfold
<1>3. /\ q[a] = v /\ v \in Nat /\ r[a] \in Nat
      /\ \A x \in A : q[x] \in Nat /\ r[x] \in Nat /\ (x # a => q[x] = r[x])
  OBVIOUS
<1> HIDE DEF v
<1> DEFINE G == {s \in SUBSET A : /\ k[s] \in Int /\ l[s] \in Int
                                  /\ l[s] = IF a \in s THEN k[s] - r[a] + v ELSE k[s]}
<1>4. {} \in G
  BY <1>1, <1>2 DEF Unfolds
<1>5. ASSUME NEW s \in SUBSET A, s # {}, s \ {CHOOSE y \in s : TRUE} \in G
      PROVE  s \in G
  <2> DEFINE x == CHOOSE y \in s : TRUE
             t == s \ {x}
  <2>1. x \in s /\ x \in A
    BY <1>5
  <2>2. k[s] = r[x] + k[t] /\ l[s] = q[x] + l[t]
    BY <1>1, <1>2, <1>5 DEF Unfolds
  <2>3. t \in G /\ (a \in t <=> a \in s /\ a # x)
    BY <1>5
  <2> HIDE DEF x, t
  <2>4. /\ k[t] \in Int /\ l[t] \in Int
        /\ l[t] = IF a \in t THEN k[t] - r[a] + v ELSE k[t]
    BY <2>3
  <2>5. r[x] \in Nat /\ q[x] \in Nat
    BY <1>3, <2>1
  <2>6. CASE a = x
    <3>1. a \in s /\ a \notin t /\ q[x] = v /\ r[x] = r[a]
      BY <1>3, <2>1, <2>3, <2>6
    <3> QED BY <1>3, <2>2, <2>4, <2>5, <3>1
  <2>7. CASE a # x
    <3>1. q[x] = r[x] /\ (a \in t <=> a \in s)
      BY <1>3, <2>1, <2>3, <2>7
    <3> QED BY <1>3, <2>2, <2>4, <2>5, <3>1
  <2> QED BY <2>6, <2>7
<1>6. A \in G
  <2> HIDE DEF G
  <2> QED BY <1>4, <1>5, SubsetInduction, G \subseteq SUBSET A DEF G
<1> QED BY <1>1, <1>2, <1>3, <1>6 DEF Unfolds

\* A sum is no less than any of its terms.
LEMMA SumCovers ==
    ASSUME NEW A, IsFiniteSet(A), NEW r \in [A -> Nat], NEW a \in A
    PROVE  r[a] <= SumOver(r, A)
<1> DEFINE q == [x \in A |-> IF x = a THEN 0 ELSE r[x]]
<1>1. q \in [A -> Nat] /\ r[a] \in Nat
  OBVIOUS
<1>2. SumOver(q, A) = SumOver(r, A) - r[a] + q[a] /\ q[a] = 0
  <2>1. q[a] = 0 /\ \A x \in A \ {a} : q[x] = r[x]
    BY <1>1
  <2> HIDE DEF q
  <2> QED BY <1>1, <2>1, SumChange
<1> HIDE DEF q
<1>3. SumOver(q, A) \in Nat /\ SumOver(r, A) \in Nat
  BY <1>1, SumType
<1> QED BY <1>1, <1>2, <1>3

-------------------------------------------------------------------------------
(* The bucket's invariant: the charges an attempt may hold, the two bounds between *)
(* which the bucket's books lie, and the slots.                                    *)

BucketTyped ==
    /\ level \in 0 .. TPM
    /\ unrefilled \in Nat /\ refilled \in Nat /\ paid \in Nat
    /\ concurrency \in Nat
    /\ attempt \in [Attempts -> {"none", "charged", "held", "released"}]
    /\ reserved \in [Attempts -> Nat]

\* An attempt that is over holds no charge; nothing came from nowhere; and while
\* nobody was served nothing has gone.
BucketBounds ==
    /\ \A a \in Attempts : attempt[a] = "none" => reserved[a] = 0
    /\ level + Reserved + paid <= TPM + refilled
    /\ paid = 0 => level + Reserved >= TPM

BucketInv == BucketTyped /\ BucketBounds /\ SlotsReturned

\* The smaller of two numbers.
LEMMA SmallerOfTwo ==
    ASSUME NEW x \in Int, NEW y \in Int
    PROVE  Min({x, y}) = IF x <= y THEN x ELSE y
<1> DEFINE m == IF x <= y THEN x ELSE y
<1>1. m \in {x, y} /\ \A z \in {x, y} : m <= z
  OBVIOUS
<1>2. \A n \in {x, y} : (\A z \in {x, y} : n <= z) => n = m
  OBVIOUS
<1> HIDE DEF m
<1>3. Min({x, y}) = m
  BY <1>1, <1>2 DEF Min
<1> QED BY <1>3 DEF m

\* The bucket's sum is the sum over the attempts, before a step and after it.
LEMMA ReservedIsSum ==
    /\ Reserved = SumOver(reserved, Attempts)
    /\ Reserved' = SumOver(reserved', Attempts)
BY DEF Reserved, SumOver, MapThenSumSet, MapThenFoldSet

\* What is reserved covers each charge, and follows a change of one.
LEMMA ReservedChange ==
    ASSUME BucketTyped, NEW a \in Attempts, reserved' \in [Attempts -> Nat],
           \A x \in Attempts \ {a} : reserved'[x] = reserved[x]
    PROVE  /\ Reserved \in Nat /\ reserved[a] <= Reserved
           /\ Reserved' = Reserved - reserved[a] + reserved'[a]
<1> DEFINE q == reserved'
<1>1. /\ reserved \in [Attempts -> Nat] /\ q \in [Attempts -> Nat]
      /\ \A x \in Attempts \ {a} : q[x] = reserved[x]
  BY DEF BucketTyped
<1>2. IsFiniteSet(Attempts)
  BY BucketAssumption
<1> HIDE DEF q
<1>3. SumOver(q, Attempts) = SumOver(reserved, Attempts) - reserved[a] + q[a]
  BY <1>1, <1>2, SumChange
<1>4. SumOver(reserved, Attempts) \in Nat /\ reserved[a] <= SumOver(reserved, Attempts)
  BY <1>1, <1>2, SumType, SumCovers
<1> QED BY <1>1, <1>3, <1>4, ReservedIsSum DEF q

\* What is reserved is a number.
LEMMA ReservedType ==
    BucketTyped => Reserved \in Nat
BY BucketAssumption, SumType, ReservedIsSum DEF BucketTyped

\* The full, unused bucket satisfies the invariant.
LEMMA BucketInitInv == BucketInit => BucketInv
<1> SUFFICES ASSUME BucketInit PROVE BucketInv
  OBVIOUS
<1> USE BucketAssumption
<1>1. BucketTyped
  BY DEF BucketInit, BucketTyped
<1>2. Reserved = 0
  <2>1. reserved \in [Attempts -> Nat] /\ \A a \in Attempts : reserved[a] = 0
    BY DEF BucketInit
  <2> QED BY <2>1, SumType, ReservedIsSum
<1>3. BucketBounds
  BY <1>2 DEF BucketInit, BucketBounds
<1>4. SlotsReturned
  <2>1. {a \in Attempts : attempt[a] = "held"} = {}
    BY DEF BucketInit
  <2>2. Cardinality({}) = 0
    BY FS_EmptySet
  <2> QED BY <2>1, <2>2 DEF BucketInit, SlotsReturned, Held
<1> QED BY <1>1, <1>3, <1>4 DEF BucketInv

\* The lazy refill adds tokens, never beyond the limit.
LEMMA RefillFacts ==
    ASSUME BucketTyped
    PROVE  Refilled \in Nat /\ level <= Refilled /\ Refilled <= TPM
<1>1. unrefilled * Rate \in Nat
  BY BucketAssumption DEF BucketTyped
<1> DEFINE more == unrefilled * Rate
<1> HIDE DEF more
<1>2. level \in Int /\ TPM \in Int /\ more \in Nat /\ level + more \in Int
  BY <1>1, BucketAssumption DEF more, BucketTyped
<1>3. Min({level + more, TPM}) = IF level + more <= TPM THEN level + more ELSE TPM
  BY <1>2, SmallerOfTwo
<1>4. Refilled = IF level + more <= TPM THEN level + more ELSE TPM
  BY <1>3 DEF Refilled, UpTo, more
<1> QED BY <1>2, <1>4, BucketAssumption DEF BucketTyped

\* An attempt that takes a slot, or gives it back, makes one holder more, or less.
LEMMA HeldCounted ==
    ASSUME NEW a \in Attempts, \A x \in Attempts \ {a} : attempt'[x] = attempt[x]
    PROVE  LET held == {x \in Attempts : attempt[x] = "held"}
           IN /\ Cardinality(held) \in Nat /\ Cardinality(held') \in Nat
              /\ (attempt[a] # "held" /\ attempt'[a] = "held") =>
                    Cardinality(held') = Cardinality(held) + 1
              /\ (attempt[a] = "held" /\ attempt'[a] # "held") =>
                    Cardinality(held') = Cardinality(held) - 1
<1> DEFINE held == {x \in Attempts : attempt[x] = "held"}
           after == {x \in Attempts : attempt'[x] = "held"}
<1>1. /\ IsFiniteSet(held) /\ Cardinality(held) \in Nat
      /\ IsFiniteSet(after) /\ Cardinality(after) \in Nat
  BY BucketAssumption, FS_Subset, FS_CardinalityType
<1>2. (attempt[a] # "held" /\ attempt'[a] = "held") => a \notin held /\ after = held \cup {a}
  OBVIOUS
<1>3. (attempt[a] = "held" /\ attempt'[a] # "held") => a \in held /\ after = held \ {a}
  OBVIOUS
<1>4. after = held'
  OBVIOUS
<1> HIDE DEF held, after
<1>5. (attempt[a] # "held" /\ attempt'[a] = "held") => Cardinality(after) = Cardinality(held) + 1
  BY <1>1, <1>2, FS_AddElement
<1>6. (attempt[a] = "held" /\ attempt'[a] # "held") => Cardinality(after) = Cardinality(held) - 1
  BY <1>1, <1>3, FS_RemoveElement
<1> QED BY <1>1, <1>5, <1>6 DEF held, after

\* A charge that is refused for tokens leaves what the refill brought.
LEMMA RefuseInv ==
    ASSUME BucketInv, NEW a \in Attempts, NEW n \in Sizes, RefuseTPM(a, n)
    PROVE  BucketInv'
<1>1. /\ BucketTyped /\ Reserved \in Nat
      /\ Refilled \in Nat /\ level <= Refilled /\ Refilled <= TPM
  BY RefillFacts, ReservedType DEF BucketInv
<1>2. Reserved' = Reserved
  BY ReservedIsSum DEF RefuseTPM
<1>3. /\ level' = Refilled /\ refilled' = refilled + Refilled - level /\ unrefilled' = 0
      /\ UNCHANGED <<concurrency, attempt, reserved, clock, paid>>
  BY DEF RefuseTPM, Refill
<1>4. BucketTyped'
  BY <1>1, <1>3, BucketAssumption DEF BucketTyped
<1>5. BucketBounds'
  BY <1>1, <1>2, <1>3, BucketAssumption DEF BucketInv, BucketTyped, BucketBounds
<1>6. SlotsReturned'
  BY <1>3 DEF BucketInv, SlotsReturned, Held
<1> QED BY <1>4, <1>5, <1>6 DEF BucketInv

\* A charge moves tokens from the bucket to the attempt.
LEMMA ChargeInv ==
    ASSUME BucketInv, NEW a \in Attempts, NEW n \in Sizes, ChargeTPM(a, n)
    PROVE  BucketInv'
<1>1. /\ BucketTyped /\ Reserved \in Nat /\ n \in Nat
      /\ Refilled \in Nat /\ level <= Refilled /\ Refilled <= TPM
  BY RefillFacts, ReservedType, BucketAssumption DEF BucketInv
<1>2. /\ attempt[a] = "none" /\ Refilled >= n
      /\ level' = Refilled - n /\ refilled' = refilled + Refilled - level /\ unrefilled' = 0
      /\ reserved' = [reserved EXCEPT ![a] = n]
      /\ attempt' = [attempt EXCEPT ![a] = "charged"]
      /\ concurrency' = concurrency /\ paid' = paid
  BY DEF ChargeTPM, Refill
<1>3. reserved[a] = 0
  BY <1>2 DEF BucketInv, BucketBounds
<1>4. Reserved' = Reserved + n /\ reserved' \in [Attempts -> Nat]
  <2>1. /\ reserved' \in [Attempts -> Nat] /\ reserved'[a] = n
        /\ \A x \in Attempts \ {a} : reserved'[x] = reserved[x]
    BY <1>1, <1>2 DEF BucketTyped
  <2> QED BY <1>1, <1>3, <2>1, ReservedChange
<1>5. BucketTyped'
  BY <1>1, <1>2, <1>4, BucketAssumption DEF BucketTyped
<1>6. BucketBounds'
  <2>1. \A x \in Attempts : attempt'[x] = "none" => reserved'[x] = 0
    BY <1>1, <1>2 DEF BucketInv, BucketTyped, BucketBounds
  <2>2. /\ level' + Reserved' + paid' <= TPM + refilled'
        /\ paid' = 0 => level' + Reserved' >= TPM
    BY <1>1, <1>2, <1>4, BucketAssumption DEF BucketInv, BucketTyped, BucketBounds
  <2> QED BY <2>1, <2>2 DEF BucketBounds
<1>7. SlotsReturned'
  <2>1. {x \in Attempts : attempt'[x] = "held"} = {x \in Attempts : attempt[x] = "held"}
    BY <1>1, <1>2 DEF BucketTyped
  <2> QED BY <1>2, <2>1 DEF BucketInv, SlotsReturned, Held
<1> QED BY <1>5, <1>6, <1>7 DEF BucketInv

\* Giving a charge back never fills the bucket beyond its limit, and moves no more
\* than the charge.
LEMMA GiveBackInv ==
    ASSUME BucketInv, NEW a \in Attempts, attempt[a] # "held", GiveBack(a),
           UNCHANGED concurrency
    PROVE  BucketInv'
<1>1. BucketTyped /\ reserved[a] \in Nat /\ Reserved \in Nat /\ level \in 0 .. TPM
  BY ReservedType DEF BucketInv, BucketTyped
<1>2. /\ level' = Refunded(a) /\ reserved' = [reserved EXCEPT ![a] = 0]
      /\ attempt' = [attempt EXCEPT ![a] = "none"]
      /\ UNCHANGED <<unrefilled, refilled, paid, concurrency>>
  BY DEF GiveBack
<1>3. /\ Reserved' = Reserved - reserved[a] /\ reserved' \in [Attempts -> Nat]
      /\ reserved[a] <= Reserved
  <2>1. /\ reserved' \in [Attempts -> Nat] /\ reserved'[a] = 0
        /\ \A x \in Attempts \ {a} : reserved'[x] = reserved[x]
    BY <1>1, <1>2 DEF BucketTyped
  <2>2. /\ Reserved' = Reserved - reserved[a] + reserved'[a] /\ reserved[a] <= Reserved
    BY <1>1, <2>1, ReservedChange
  <2> QED BY <1>1, <2>1, <2>2
<1>4. level' = IF level + reserved[a] <= TPM THEN level + reserved[a] ELSE TPM
  <2>1. level + reserved[a] \in Int /\ TPM \in Int
    BY <1>1, BucketAssumption
  <2> QED BY <1>2, <2>1, SmallerOfTwo DEF Refunded, UpTo
<1>5. BucketTyped'
  BY <1>1, <1>2, <1>3, <1>4, BucketAssumption DEF BucketTyped
<1>6. BucketBounds'
  <2>1. \A x \in Attempts : attempt'[x] = "none" => reserved'[x] = 0
    BY <1>1, <1>2 DEF BucketInv, BucketTyped, BucketBounds
  <2>2. Reserved - reserved[a] \in Nat
    BY <1>1, <1>3
  <2>3. /\ level' + Reserved' + paid' <= TPM + refilled'
        /\ paid' = 0 => level' + Reserved' >= TPM
    BY <1>1, <1>2, <1>3, <1>4, <2>2, BucketAssumption
    DEF BucketInv, BucketTyped, BucketBounds
  <2> QED BY <2>1, <2>3 DEF BucketBounds
<1>7. SlotsReturned'
  <2>1. {x \in Attempts : attempt'[x] = "held"} = {x \in Attempts : attempt[x] = "held"}
    BY <1>1, <1>2 DEF BucketTyped
  <2> QED BY <1>2, <2>1 DEF BucketInv, SlotsReturned, Held
<1> QED BY <1>5, <1>6, <1>7 DEF BucketInv

\* Settling moves the charge, and what the bucket can add to it, to the turn's cost.
LEMMA SettleInv ==
    ASSUME BucketInv, NEW a \in Attempts, NEW n \in Sizes, Settle(a, n)
    PROVE  BucketInv'
<1> DEFINE due == IF n > reserved[a] THEN Min({level, n - reserved[a]}) ELSE 0
<1>1. /\ BucketTyped /\ reserved[a] \in Nat /\ Reserved \in Nat /\ level \in 0 .. TPM
      /\ n \in Nat
  BY ReservedType, BucketAssumption DEF BucketInv, BucketTyped
<1>2. /\ attempt[a] = "held" /\ reserved[a] > 0
      /\ level' = level - due /\ paid' = paid + reserved[a] + due
      /\ reserved' = [reserved EXCEPT ![a] = 0]
      /\ UNCHANGED <<unrefilled, concurrency, attempt, refilled>>
  BY DEF Settle, Unreserved
<1>3. due \in Nat /\ due <= level
  <2>1. level \in Int /\ n - reserved[a] \in Int
    BY <1>1, BucketAssumption
  <2>2. Min({level, n - reserved[a]}) =
           IF level <= n - reserved[a] THEN level ELSE n - reserved[a]
    BY <2>1, SmallerOfTwo
  <2> QED BY <1>1, <2>2, BucketAssumption
<1> HIDE DEF due
<1>4. /\ Reserved' = Reserved - reserved[a] /\ reserved' \in [Attempts -> Nat]
      /\ reserved[a] <= Reserved
  <2>1. /\ reserved' \in [Attempts -> Nat] /\ reserved'[a] = 0
        /\ \A x \in Attempts \ {a} : reserved'[x] = reserved[x]
    BY <1>1, <1>2 DEF BucketTyped
  <2>2. /\ Reserved' = Reserved - reserved[a] + reserved'[a] /\ reserved[a] <= Reserved
    BY <1>1, <2>1, ReservedChange
  <2> QED BY <1>1, <2>1, <2>2
<1>5. BucketTyped'
  BY <1>1, <1>2, <1>3, <1>4, BucketAssumption DEF BucketTyped
<1>6. BucketBounds'
  <2>1. \A x \in Attempts : attempt'[x] = "none" => reserved'[x] = 0
    BY <1>1, <1>2 DEF BucketInv, BucketTyped, BucketBounds
  <2>2. level' + Reserved' + paid' <= TPM + refilled'
    BY <1>1, <1>2, <1>3, <1>4, BucketAssumption DEF BucketInv, BucketTyped, BucketBounds
  <2>3. paid' # 0
    BY <1>1, <1>2, <1>3 DEF BucketTyped
  <2> QED BY <2>1, <2>2, <2>3 DEF BucketBounds
<1>7. SlotsReturned'
  BY <1>2 DEF BucketInv, SlotsReturned, Held
<1> QED BY <1>5, <1>6, <1>7 DEF BucketInv

\* A slot is taken, or given back, and counted once.
LEMMA SlotInv ==
    ASSUME BucketInv, NEW a \in Attempts, Admitted(a) \/ ReleaseSlot(a)
    PROVE  BucketInv'
<1>1. BucketTyped
  BY DEF BucketInv
<1>2. UNCHANGED <<level, unrefilled, reserved, refilled, paid>>
  BY DEF Admitted, ReleaseSlot
<1>3. Reserved' = Reserved
  BY <1>2, ReservedIsSum
<1> DEFINE held == {x \in Attempts : attempt[x] = "held"}
<1>4. concurrency = Cardinality(held)
  BY DEF BucketInv, SlotsReturned, Held
<1>5. CASE Admitted(a)
  <2>1. /\ attempt[a] = "charged" /\ attempt' = [attempt EXCEPT ![a] = "held"]
        /\ concurrency' = concurrency + 1
    BY <1>5 DEF Admitted
  <2>2. attempt'[a] = "held" /\ \A x \in Attempts \ {a} : attempt'[x] = attempt[x]
    BY <1>1, <2>1 DEF BucketTyped
  <2>3. Cardinality(held') = Cardinality(held) + 1 /\ Cardinality(held) \in Nat
    BY <2>1, <2>2, HeldCounted
  <2>4. SlotsReturned' /\ concurrency' \in Nat
    BY <1>4, <2>1, <2>3 DEF SlotsReturned, Held
  <2>5. BucketTyped' /\ BucketBounds'
    BY <1>1, <1>2, <1>3, <2>1, <2>4 DEF BucketInv, BucketTyped, BucketBounds
  <2> QED BY <2>4, <2>5 DEF BucketInv
<1>6. CASE ReleaseSlot(a)
  <2>1. /\ attempt[a] = "held" /\ attempt' = [attempt EXCEPT ![a] = "released"]
        /\ concurrency' = concurrency - 1
    BY <1>6 DEF ReleaseSlot
  <2>2. attempt'[a] = "released" /\ \A x \in Attempts \ {a} : attempt'[x] = attempt[x]
    BY <1>1, <2>1 DEF BucketTyped
  <2>3. /\ Cardinality(held') = Cardinality(held) - 1
        /\ Cardinality(held) \in Nat /\ Cardinality(held') \in Nat
    BY <2>1, <2>2, HeldCounted
  <2>4. SlotsReturned' /\ concurrency' \in Nat
    BY <1>4, <2>1, <2>3 DEF SlotsReturned, Held
  <2>5. BucketTyped' /\ BucketBounds'
    BY <1>1, <1>2, <1>3, <2>1, <2>4 DEF BucketInv, BucketTyped, BucketBounds
  <2> QED BY <2>4, <2>5 DEF BucketInv
<1> QED BY <1>5, <1>6

\* Every step of the bucket keeps the invariant.
LEMMA BucketNextInv == BucketInv /\ [BucketNext]_bucket => BucketInv'
<1> SUFFICES ASSUME BucketInv, [BucketNext]_bucket PROVE BucketInv'
  OBVIOUS
<1>1. ASSUME NEW a \in Attempts, NEW n \in Sizes,
             RefuseTPM(a, n) \/ ChargeTPM(a, n) \/ Settle(a, n)
      PROVE  BucketInv'
  BY <1>1, RefuseInv, ChargeInv, SettleInv
<1>2. ASSUME NEW a \in Attempts, QueueRefuses(a) \/ RefundRest(a) PROVE BucketInv'
  <2>1. attempt[a] # "held" /\ GiveBack(a) /\ UNCHANGED concurrency
    BY <1>2 DEF QueueRefuses, RefundRest
  <2> QED BY <2>1, GiveBackInv
<1>3. ASSUME NEW a \in Attempts, Admitted(a) \/ ReleaseSlot(a) PROVE BucketInv'
  BY <1>3, SlotInv
<1>4. CASE BucketTick \/ UNCHANGED bucket
  <2>1. /\ UNCHANGED <<level, concurrency, attempt, reserved, refilled, paid>>
        /\ unrefilled' \in Nat
    BY <1>4 DEF BucketInv, BucketTyped, BucketTick, bucket
  <2>2. Reserved' = Reserved
    BY <2>1, ReservedIsSum
  <2>3. BucketTyped' /\ BucketBounds'
    BY <2>1, <2>2 DEF BucketInv, BucketTyped, BucketBounds
  <2>4. SlotsReturned'
    BY <2>1 DEF BucketInv, SlotsReturned, Held
  <2> QED BY <2>3, <2>4 DEF BucketInv
<1> QED BY <1>1, <1>2, <1>3, <1>4 DEF BucketNext

\* The invariant holds of every execution of the bucket.
LEMMA BucketInvariance == BucketSpec => []BucketInv
BY BucketInitInv, BucketNextInv, PTL DEF BucketSpec

\* The bucket never hands out more than its limit and the refills, and is as full as
\* it was whenever nobody was served and nothing is reserved (TokenBucket.BooksBalance).
THEOREM BucketBalances == BucketSpec => []BooksBalance
<1>1. BucketInv => BooksBalance
  <2> SUFFICES ASSUME BucketInv PROVE BooksBalance
    OBVIOUS
  <2>1. BucketTyped /\ BucketBounds /\ Reserved \in Nat
    BY ReservedType DEF BucketInv
  <2> QED BY <2>1, BucketAssumption DEF BucketTyped, BucketBounds, BooksBalance
<1> QED BY <1>1, BucketInvariance, PTL

\* The provider's counter is the number of attempts that hold a slot, whichever way
\* an attempt ends (TokenBucket.SlotsReturned).
THEOREM SlotsGoBackOnce == BucketSpec => []SlotsReturned
<1>1. BucketInv => SlotsReturned
  BY DEF BucketInv
<1> QED BY <1>1, BucketInvariance, PTL

\* SlotPool counts the scope's attempts as this module does.
LEMMA ScopeCardinality == \A S : Scope!Cardinality(S) = Cardinality(S)
BY DEF Cardinality, Scope!Cardinality

\* The scope's attempts take its slots one at a time, up to the limit, and give back the
\* ones they hold, and the counter says how many that are, so that a slot the counter has
\* left is one that nobody holds (TokenBucket.ScopeIsSlotPool).
THEOREM ProviderIsSlotPool == BucketSpec => ScopeIsSlotPool
<1> DEFINE pools == [p \in {"scope"} |-> Held]
           ceiling == [p \in {"scope"} |-> Slots]
<1>1. BucketInit => Scope!Init
  <2> SUFFICES ASSUME BucketInit PROVE Held = {}
    BY DEF Scope!Init
  <2> QED BY DEF BucketInit, Held
<1>2. BucketInv /\ [BucketNext]_bucket => [Scope!Next]_pools
  <2> SUFFICES ASSUME BucketInv, [BucketNext]_bucket, pools' # pools
               PROVE  Scope!Next
    OBVIOUS
  <2>1. Held' # Held
    OBVIOUS
  <2>2. PICK a \in Attempts : Admitted(a) \/ ReleaseSlot(a)
    <3>1. ASSUME NEW a \in Attempts, NEW n \in Sizes,
                 RefuseTPM(a, n) \/ ChargeTPM(a, n) \/ Settle(a, n)
          PROVE  Held' = Held
      <4>1. \/ attempt' = attempt
            \/ attempt[a] = "none" /\ attempt' = [attempt EXCEPT ![a] = "charged"]
        BY <3>1 DEF RefuseTPM, ChargeTPM, Settle
      <4> QED BY <4>1 DEF Held, BucketInv, BucketTyped
    <3>2. ASSUME NEW a \in Attempts, QueueRefuses(a) \/ RefundRest(a) PROVE Held' = Held
      <4>1. attempt[a] # "held" /\ attempt' = [attempt EXCEPT ![a] = "none"]
        BY <3>2 DEF QueueRefuses, RefundRest, GiveBack
      <4> QED BY <4>1 DEF Held, BucketInv, BucketTyped
    <3>3. CASE BucketTick \/ UNCHANGED bucket
      BY <3>3 DEF BucketTick, bucket, Held
    <3> QED BY <2>1, <3>1, <3>2, <3>3 DEF BucketNext
  <2>3. CASE Admitted(a)
    <3>1. attempt[a] = "charged" /\ attempt' = [attempt EXCEPT ![a] = "held"]
      BY <2>3 DEF Admitted
    <3>2. a \notin Held /\ Held' = Held \cup {a}
      BY <3>1 DEF Held, BucketInv, BucketTyped
    <3>3. Cardinality(Held) < Slots
      BY <2>3 DEF Admitted, BucketInv, SlotsReturned
    <3>4. Scope!Take("scope", a)
      <4>1. pools["scope"] = Held /\ ceiling["scope"] = Slots
        OBVIOUS
      <4>2. pools' = [pools EXCEPT !["scope"] = @ \cup {a}]
        BY <3>2
      <4>3. a \notin pools["scope"] /\ Cardinality(pools["scope"]) < ceiling["scope"]
        BY <3>2, <3>3, <4>1
      <4> QED BY <4>2, <4>3, ScopeCardinality DEF Scope!Take
    <3> QED BY <3>4 DEF Scope!Next
  <2>4. CASE ReleaseSlot(a)
    <3>1. attempt[a] = "held" /\ attempt' = [attempt EXCEPT ![a] = "released"]
      BY <2>4 DEF ReleaseSlot
    <3>2. a \in Held /\ Held' = Held \ {a}
      BY <3>1 DEF Held, BucketInv, BucketTyped
    <3>3. Scope!GiveBack("scope", a)
      <4>1. pools["scope"] = Held
        OBVIOUS
      <4>2. pools' = [pools EXCEPT !["scope"] = @ \ {a}]
        BY <3>2
      <4> QED BY <3>2, <4>1, <4>2 DEF Scope!GiveBack
    <3> QED BY <3>3 DEF Scope!Next
  <2> QED BY <2>2, <2>3, <2>4
<1>3. BucketSpec => Scope!Spec
  BY <1>1, <1>2, BucketInvariance, PTL DEF BucketSpec, Scope!Spec
<1> QED BY <1>3, SlotsGoBackOnce DEF ScopeIsSlotPool, SlotsReturned
===============================================================================
