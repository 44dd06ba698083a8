---------------------------- MODULE OAuthRefresh ----------------------------
(***************************************************************************)
(* One OAuth connection and everyone who refreshes it: chat requests (the  *)
(* lazy refresh before they dial, the forced one after a 401), the         *)
(* background tick and the dashboard's connection test.  Token n stands    *)
(* for the access and the refresh token of the provider's n-th answer; a   *)
(* refresh token is good for one exchange, which issues token n + 1.  The  *)
(* row is read and written whole (a JSON blob) by everyone; a statement of *)
(* SQL, a section under a mutex and a map operation are one step each.     *)
(***************************************************************************)
EXTENDS Integers

CONSTANTS
    Chats,          \* chat requests that go out through the connection
    Background,     \* the background refresh loop
    Probes,         \* dashboard requests that test the connection
    MaxTokens,      \* bound: the provider issues no token above this one
    None

ASSUME CallersAssumption ==
    /\ Chats \cap Background = {} /\ Chats \cap Probes = {} /\ Background \cap Probes = {}
    /\ None \notin Chats \cup Background \cup Probes
ASSUME TokensAssumption == MaxTokens \in Nat /\ None \notin Nat

Callers == Chats \cup Background \cup Probes
Tokens == 0 .. MaxTokens

VARIABLES
    row,        \* the stored connection: its token, and whether it is parked
    age,        \* 0 fresh, 1 due (within 30 minutes), 2 expired (within 60 s)
    issued,     \* the newest token of the provider
    slot,       \* RefreshSlot: what its first attempt produced
    holder,     \* who holds the slot's mutex
    cache,      \* refresh tokens whose exchange DedupRefresh remembers
    pc,
    snap,       \* the row as the caller read it
    result,     \* the token its exchange produced
    held,       \* the token the chat request dials with
    forcing,    \* chat requests in the forced refresh
    outside     \* history: someone exchanged or wrote outside a chat's lock

vars == <<row, age, issued, slot, holder, cache, pc, snap, result, held, forcing, outside>>
local == <<snap, result, held, forcing>>
provider == <<age, issued, cache>>

Filled == slot.token # None \/ slot.failed
Expired == age[row.token] = 2

NewRow == [token |-> 0, parked |-> FALSE]

Init ==
    /\ row = NewRow
    /\ age = [t \in Tokens |-> 0]
    /\ issued = 0
    /\ slot = [token |-> None, failed |-> FALSE]
    /\ holder = None /\ cache = {}
    /\ pc = [c \in Callers |-> "idle"]
    /\ snap = [c \in Callers |-> NewRow]
    /\ result = [c \in Callers |-> None]
    /\ held = [c \in Chats |-> 0]
    /\ forcing = {}
    /\ outside = FALSE

Goto(c, label) == pc' = [pc EXCEPT ![c] = label]
Take(c) == holder = None /\ holder' = c
ReadRow(c) == snap' = [snap EXCEPT ![c] = row]

\* What the caller read and was given has no further use.
Forget(c) ==
    /\ snap' = [snap EXCEPT ![c] = NewRow]
    /\ result' = [result EXCEPT ![c] = None]

------------------------------------------------------------------------------
(* refreshOAuthTokenIfExpired: RunRefresh on the connection's slot.        *)

\* The request comes with the access token its dial read from the row.
Arrive(c) ==
    /\ pc[c] = "idle"
    /\ held' = [held EXCEPT ![c] = row.token]
    /\ Goto(c, "lazy")
    /\ UNCHANGED <<row, provider, slot, holder, snap, result, forcing, outside>>

\* The slot has an outcome, of whatever age: hand it over.
LazyAdopt(c) ==
    /\ pc[c] = "lazy" /\ holder = None /\ Filled
    /\ held' = [held EXCEPT ![c] = IF slot.failed THEN @ ELSE slot.token]
    /\ Goto(c, "dial")
    /\ UNCHANGED <<row, provider, slot, holder, snap, result, forcing, outside>>

LazySkip(c) ==
    /\ pc[c] = "lazy" /\ holder = None /\ ~Filled /\ ~Expired
    /\ Goto(c, "reread")
    /\ UNCHANGED <<row, provider, slot, holder, local, outside>>

\* After the lock is gone the row is read again, and its token adopted.
LazyReread(c) ==
    /\ pc[c] = "reread"
    /\ held' = [held EXCEPT ![c] = IF Expired THEN @ ELSE row.token]
    /\ Goto(c, "dial")
    /\ UNCHANGED <<row, provider, slot, holder, snap, result, forcing, outside>>

LazyLead(c) ==
    /\ pc[c] = "lazy" /\ Take(c) /\ ~Filled /\ Expired
    /\ ReadRow(c)
    /\ Goto(c, "ask")
    /\ UNCHANGED <<row, provider, slot, result, held, forcing, outside>>

------------------------------------------------------------------------------
(* The dial, and forceRefreshOAuthToken after a 401.                       *)

Served(c) ==
    /\ pc[c] = "dial" /\ age[held[c]] # 2
    /\ Goto(c, "idle")
    /\ held' = [held EXCEPT ![c] = 0]
    /\ UNCHANGED <<row, provider, slot, holder, snap, result, forcing, outside>>

\* An expired token, or one the provider no longer takes.
Unauthorized(c) ==
    /\ pc[c] = "dial"
    /\ Goto(c, "forced")
    /\ held' = [held EXCEPT ![c] = 0]
    /\ UNCHANGED <<row, provider, slot, holder, snap, result, forcing, outside>>

\* Mutant: the forced refresh does not queue behind the one that is running.
ForceUnlocked(c) ==
    /\ pc[c] = "forced" /\ holder' = c
    /\ ReadRow(c)
    /\ forcing' = forcing \cup {c}
    /\ Goto(c, "ask")
    /\ UNCHANGED <<row, provider, slot, result, held, outside>>

ForceLock(c) ==
    /\ pc[c] = "forced" /\ Take(c)
    /\ ReadRow(c)
    /\ forcing' = forcing \cup {c}
    /\ Goto(c, "ask")
    /\ UNCHANGED <<row, provider, slot, result, held, outside>>

------------------------------------------------------------------------------
(* The background tick and the dashboard's test read the row, and only     *)
(* later ask; the tick takes no lock.                                      *)

Select(c) ==
    /\ pc[c] = "idle" /\ ~row.parked /\ age[row.token] # 0
    /\ ReadRow(c)
    /\ Goto(c, "ask")
    /\ UNCHANGED <<row, provider, slot, holder, result, held, forcing, outside>>

ProbeRead(c) ==
    /\ pc[c] = "idle"
    /\ ReadRow(c)
    /\ Goto(c, "test")
    /\ UNCHANGED <<row, provider, slot, holder, result, held, forcing, outside>>

\* The test answers without a refresh, or needs one.
ProbeSettled(c) ==
    /\ pc[c] = "test"
    /\ Goto(c, "store")
    /\ UNCHANGED <<row, provider, slot, holder, local, outside>>

ProbeLock(c) ==
    /\ pc[c] = "test" /\ Take(c)
    /\ Goto(c, "ask")
    /\ UNCHANGED <<row, provider, slot, local, outside>>

------------------------------------------------------------------------------
(* Refresh: DedupRefresh, then the provider's token endpoint.              *)

\* The result of an exchange that succeeded less than 10 s ago is reused,
\* except by a forced refresh; the others ask, or join who asks already.
Ask(c) ==
    /\ pc[c] = "ask"
    /\ \/ /\ c \notin forcing /\ snap[c].token \in cache
          /\ result' = [result EXCEPT ![c] = snap[c].token + 1]
          /\ Goto(c, "persist")
       \/ /\ c \in forcing \/ snap[c].token \notin cache
          /\ Goto(c, "flight")
          /\ UNCHANGED result
    /\ outside' = (outside \/ c \notin Chats)
    /\ UNCHANGED <<row, provider, slot, holder, snap, held, forcing>>

Flight(t) == {c \in Callers : pc[c] = "flight" /\ snap[c].token = t}

\* Every caller of the flight of token t learns how it ended.
Land(t, label) ==
    /\ Flight(t) # {}
    /\ pc' = [c \in Callers |-> IF c \in Flight(t) THEN label ELSE pc[c]]

Exchanged(t) ==
    /\ t = issued /\ issued < MaxTokens
    /\ issued' = t + 1
    /\ cache' = cache \cup {t}
    /\ result' = [c \in Callers |-> IF c \in Flight(t) THEN t + 1 ELSE result[c]]
    /\ Land(t, "persist")
    /\ UNCHANGED <<row, age, slot, holder, snap, held, forcing, outside>>

\* refresh_token_reused: the token was spent before.
Refused(t) ==
    /\ t # issued
    /\ Land(t, "rejected")
    /\ UNCHANGED <<row, provider, slot, holder, local, outside>>

\* A 5xx, or a transport error before the endpoint saw the request.
Unanswered(t) ==
    /\ Land(t, "failed")
    /\ UNCHANGED <<row, provider, slot, holder, local, outside>>

Answer(t) == Exchanged(t) \/ Refused(t) \/ Unanswered(t)

------------------------------------------------------------------------------
(* What a chat request does with the outcome, still under the lock.        *)

\* Mutant: the rotated refresh token is not stored.
PersistUnrotated(c) ==
    /\ pc[c] = "persist"
    /\ row' = snap[c]
    /\ Goto(c, "clear")
    /\ UNCHANGED <<provider, slot, holder, local, outside>>

\* The whole row is written, as it was read before the exchange.
Persist(c) ==
    /\ pc[c] = "persist"
    /\ row' = [snap[c] EXCEPT !.token = result[c]]
    /\ Goto(c, "clear")
    /\ UNCHANGED <<provider, slot, holder, local, outside>>

\* clearOAuthAccountPark, and the lock is released: the lazy refresh leaves its
\* outcome in the slot, the forced one returns and the request is sent again.
Clear(c) ==
    /\ pc[c] = "clear"
    /\ row' = [row EXCEPT !.parked = FALSE]
    /\ holder' = None
    /\ held' = [held EXCEPT ![c] = IF c \in forcing THEN @ ELSE result[c]]
    /\ slot' = IF c \in forcing THEN slot ELSE [token |-> result[c], failed |-> FALSE]
    /\ forcing' = forcing \ {c}
    /\ Goto(c, IF c \in forcing THEN "idle" ELSE "dial")
    /\ Forget(c)
    /\ UNCHANGED <<provider, outside>>

\* Mutant: an error returns past the unlock.
LeaveLocked(c) ==
    /\ slot' = IF c \in forcing THEN slot ELSE [slot EXCEPT !.failed = TRUE]
    /\ forcing' = forcing \ {c}
    /\ Goto(c, IF c \in forcing THEN "idle" ELSE "dial")
    /\ Forget(c)
    /\ UNCHANGED <<provider, holder, held, outside>>

\* The request keeps the token it came with.
Leave(c) ==
    /\ holder' = None
    /\ slot' = IF c \in forcing THEN slot ELSE [slot EXCEPT !.failed = TRUE]
    /\ forcing' = forcing \ {c}
    /\ Goto(c, IF c \in forcing THEN "idle" ELSE "dial")
    /\ Forget(c)
    /\ UNCHANGED <<provider, held, outside>>

Park(c) ==
    /\ pc[c] = "rejected"
    /\ row' = [row EXCEPT !.parked = TRUE]
    /\ Leave(c)

LazyFails(c) ==
    /\ pc[c] = "failed" /\ c \notin forcing
    /\ Leave(c)
    /\ UNCHANGED row

\* Only the forced refresh tries again, where the provider is a known one.
ForcedFails(c) ==
    /\ pc[c] = "failed" /\ c \in forcing
    /\ \/ Goto(c, "standard") /\ UNCHANGED <<provider, slot, holder, local, outside>>
       \/ Leave(c)
    /\ UNCHANGED row

\* providers.RefreshToken with the same token, shared with nobody.
Standard(c) ==
    /\ pc[c] = "standard"
    /\ \/ /\ snap[c].token = issued /\ issued < MaxTokens
          /\ issued' = issued + 1
          /\ result' = [result EXCEPT ![c] = issued + 1]
          /\ Goto(c, "persist")
          /\ UNCHANGED <<row, age, slot, holder, cache, snap, held, forcing, outside>>
       \/ /\ snap[c].token # issued
          /\ Goto(c, "rejected")
          /\ UNCHANGED <<row, provider, slot, holder, local, outside>>
       \/ Leave(c) /\ UNCHANGED row

------------------------------------------------------------------------------
(* What the others do with it.                                             *)

TickReads(c) ==
    /\ pc[c] = "persist"
    /\ ReadRow(c)
    /\ Goto(c, "write")
    /\ UNCHANGED <<row, provider, slot, holder, result, held, forcing, outside>>

TickWrites(c) ==
    /\ pc[c] = "write"
    /\ row' = [snap[c] EXCEPT !.token = result[c]]
    /\ Goto(c, "clear")
    /\ Forget(c)
    /\ UNCHANGED <<provider, slot, holder, held, forcing, outside>>

TickClears(c) ==
    /\ pc[c] = "clear"
    /\ row' = [row EXCEPT !.parked = FALSE]
    /\ Goto(c, "idle")
    /\ UNCHANGED <<provider, slot, holder, local, outside>>

\* The account is parked on a 401; a 400 invalid_grant is only logged.
TickFails(c) ==
    /\ pc[c] \in {"rejected", "failed"}
    /\ \/ pc[c] = "rejected" /\ row' = [row EXCEPT !.parked = TRUE]
       \/ UNCHANGED row
    /\ Goto(c, "idle")
    /\ Forget(c)
    /\ UNCHANGED <<provider, slot, holder, held, forcing, outside>>

\* The new tokens are kept, unless the second test with them failed.
ProbeUnlock(c) ==
    /\ pc[c] \in {"persist", "rejected", "failed"}
    /\ holder' = None
    /\ \/ pc[c] = "persist" /\ UNCHANGED result
       \/ result' = [result EXCEPT ![c] = None]
    /\ Goto(c, "store")
    /\ UNCHANGED <<row, provider, slot, snap, held, forcing, outside>>

\* persistProbeResult writes the row it read at first.
ProbeStore(c) ==
    /\ pc[c] = "store"
    /\ row' = IF result[c] = None THEN snap[c] ELSE [snap[c] EXCEPT !.token = result[c]]
    /\ outside' = TRUE
    /\ Goto(c, "idle")
    /\ Forget(c)
    /\ UNCHANGED <<provider, slot, holder, held, forcing>>

------------------------------------------------------------------------------
(* Time: the stored token's expiry comes nearer, a cached result lapses.   *)

Ageing ==
    /\ age[row.token] < 2
    /\ age' = [age EXCEPT ![row.token] = @ + 1]
    /\ UNCHANGED <<row, issued, slot, holder, cache, pc, local, outside>>

Lapse(t) ==
    /\ t \in cache
    /\ cache' = cache \ {t}
    /\ UNCHANGED <<row, age, issued, slot, holder, pc, local, outside>>

Request(c) ==
    \/ Arrive(c) \/ LazyAdopt(c) \/ LazySkip(c) \/ LazyReread(c) \/ LazyLead(c)
    \/ Served(c) \/ Unauthorized(c) \/ ForceLock(c) \/ Ask(c) \/ Persist(c) \/ Clear(c)
    \/ Park(c) \/ LazyFails(c) \/ ForcedFails(c) \/ Standard(c)

Loop(c) == Select(c) \/ Ask(c) \/ TickReads(c) \/ TickWrites(c) \/ TickClears(c) \/ TickFails(c)

Test(c) == ProbeRead(c) \/ ProbeSettled(c) \/ ProbeLock(c) \/ Ask(c) \/ ProbeUnlock(c) \/ ProbeStore(c)

Next ==
    \/ \E c \in Chats : Request(c)
    \/ \E c \in Background : Loop(c)
    \/ \E c \in Probes : Test(c)
    \/ \E t \in Tokens : Answer(t) \/ Lapse(t)
    \/ Ageing

Spec == Init /\ [][Next]_vars

------------------------------------------------------------------------------
(* Properties.                                                             *)

Rows == [token : Tokens, parked : BOOLEAN]

Labels == {"idle", "lazy", "reread", "dial", "forced", "test", "ask", "flight",
           "persist", "rejected", "failed", "standard", "write", "clear", "store"}

TypeOK ==
    /\ row \in Rows
    /\ age \in [Tokens -> 0 .. 2]
    /\ issued \in Tokens
    /\ slot \in [token : Tokens \cup {None}, failed : BOOLEAN]
    /\ holder \in Callers \cup {None}
    /\ cache \subseteq Tokens
    /\ pc \in [Callers -> Labels]
    /\ snap \in [Callers -> Rows]
    /\ result \in [Callers -> Tokens \cup {None}]
    /\ held \in [Chats -> Tokens]
    /\ forcing \subseteq Chats
    /\ outside \in BOOLEAN

\* The lock serialises "the whole read, refresh, persist sequence" (the comment
\* on RefreshSlot): as long as nobody but the lazy and the forced refreshes of
\* chat requests touched the connection, whenever the lock is free the stored
\* refresh token is the provider's newest one, however many requests refresh
\* and whichever exchanges fail.
StoredTokenIsNewest == holder = None /\ ~outside => row.token = issued

\* What the slot is for ("a healthy account is bricked until the user signs in
\* again"): as long as only chat requests refresh, the provider's grant is never
\* presented twice, so an account that was healthy is never parked.
HealthyNotParked == ~outside => ~row.parked

\* Whoever holds the lock is on its way to release it, on every path through an
\* error: a chat request inside its refresh, or a test inside its exchange.
Inside(c) ==
    \/ pc[c] \in {"ask", "flight", "rejected", "failed", "persist"} /\ c \notin Background
    \/ pc[c] \in {"clear", "standard"} /\ c \in Chats

LockNotLeaked == \A c \in Callers : Inside(c) <=> holder = c

\* The comment in RunRefresh: "Someone completed an attempt while we queued".
\* The token a request adopts from the slot is the one that is stored by now.
AdoptsStoredToken ==
    [][\A c \in Chats :
        (pc[c] = "lazy" /\ pc'[c] = "dial" /\ ~slot.failed) => held'[c] = row.token]_vars

\* The comment of refreshConnectionToken: with the lock "two callers can never
\* race the same refresh token".  What is sent to the token endpoint is a
\* refresh token that was not spent before.
TokensSpentOnce == \A c \in Callers : pc[c] = "flight" => snap[c].token = issued
==============================================================================
