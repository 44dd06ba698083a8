------------------------ MODULE OAuthRefresh_proofs ------------------------
(***************************************************************************)
(* Safety of the refresh lock, for any number of chat requests, background *)
(* loops and tests, and any number of tokens.                              *)
(***************************************************************************)
EXTENDS OAuthRefresh, TLAPS

\* Whoever was given a token has one to write.
ResultKept ==
    \A c \in Callers :
        pc[c] \in {"persist", "write"} \/ (pc[c] = "clear" /\ c \in Chats)
            => result[c] \in Tokens

\* What DedupRefresh remembers was exchanged.
CacheSpent == \A t \in cache : t < issued

\* What a chat request inside the lock has read, or was given, is the newest
\* token; until it is stored, the row still has the token it read.
Current(c) ==
    /\ pc[c] # "rejected"
    /\ pc[c] \in {"ask", "flight", "failed", "standard", "persist"} => ~snap[c].parked
    /\ pc[c] \in {"ask", "flight", "failed", "standard"} =>
           snap[c].token = issued /\ row.token = issued
    /\ pc[c] = "persist" => result[c] = issued
    /\ pc[c] = "clear" => result[c] = issued /\ row.token = issued

\* As long as the others have asked for nothing and written nothing, they have
\* not come further than reading the row.
Waiting(c) == pc[c] \in {"idle", "test", "ask", "store"}

Untouched ==
    ~outside =>
        /\ ~row.parked
        /\ holder \notin Chats => row.token = issued
        /\ \A c \in Chats : Current(c)
        /\ \A c \in Background \cup Probes : Waiting(c)

IInv == TypeOK /\ LockNotLeaked /\ ResultKept /\ CacheSpent /\ Untouched

\* Forgetting what a caller read keeps the types.
LEMMA ForgetTyped ==
    ASSUME TypeOK, NEW c \in Callers, Forget(c)
    PROVE  snap' \in [Callers -> Rows] /\ result' \in [Callers -> Tokens \cup {None}]
BY TokensAssumption DEF TypeOK, Forget, NewRow, Rows, Tokens

\* A request arrives with the token the row has.
LEMMA ArriveInv ==
    ASSUME IInv, NEW c \in Chats, Arrive(c)
    PROVE  IInv'
<1> USE CallersAssumption, TokensAssumption
<1>1. TypeOK'
    BY DEF Arrive, Goto, provider, IInv, TypeOK, Callers, Labels, Tokens, Rows
<1>2. LockNotLeaked'
    BY DEF Arrive, Goto, provider, IInv, TypeOK, Callers, LockNotLeaked,
        Inside
<1>3. ResultKept' /\ CacheSpent'
    BY DEF Arrive, Goto, provider, IInv, TypeOK, Callers, ResultKept,
        CacheSpent, local
<1>4. Untouched'
    BY DEF Arrive, Goto, provider, IInv, TypeOK, Callers, Untouched, Current,
        Waiting, LockNotLeaked, Inside, Rows
<1> QED
    BY <1>1, <1>2, <1>3, <1>4 DEF IInv

\* A request that takes the outcome in the slot changes only what it dials with.
LEMMA LazyAdoptInv ==
    ASSUME IInv, NEW c \in Chats, LazyAdopt(c)
    PROVE  IInv'
<1> USE CallersAssumption, TokensAssumption
<1>1. TypeOK'
    BY DEF LazyAdopt, Goto, Filled, provider, IInv, TypeOK, Callers, Labels,
        Tokens
<1>2. LockNotLeaked'
    BY DEF LazyAdopt, Goto, Filled, provider, IInv, TypeOK, Callers,
        LockNotLeaked, Inside
<1>3. ResultKept' /\ CacheSpent'
    BY DEF LazyAdopt, Goto, Filled, provider, IInv, TypeOK, Callers,
        ResultKept, CacheSpent, local
<1>4. Untouched'
    BY DEF LazyAdopt, Goto, Filled, provider, IInv, TypeOK, Callers,
        Untouched, Current, Waiting, LockNotLeaked, Inside, Rows
<1> QED
    BY <1>1, <1>2, <1>3, <1>4 DEF IInv

\* A request that needs no refresh leaves the lock at once.
LEMMA LazySkipInv ==
    ASSUME IInv, NEW c \in Chats, LazySkip(c)
    PROVE  IInv'
<1> USE CallersAssumption, TokensAssumption
<1>1. TypeOK'
    BY DEF LazySkip, Goto, Filled, Expired, provider, local, IInv, TypeOK,
        Callers, Labels
<1>2. LockNotLeaked'
    BY DEF LazySkip, Goto, Filled, Expired, provider, local, IInv, TypeOK,
        Callers, LockNotLeaked, Inside
<1>3. ResultKept' /\ CacheSpent'
    BY DEF LazySkip, Goto, Filled, Expired, provider, local, IInv, TypeOK,
        Callers, ResultKept, CacheSpent
<1>4. Untouched'
    BY DEF LazySkip, Goto, Filled, Expired, provider, local, IInv, TypeOK,
        Callers, Untouched, Current, Waiting, LockNotLeaked, Inside, Rows
<1> QED
    BY <1>1, <1>2, <1>3, <1>4 DEF IInv

\* A second look at the row changes only what the request dials with.
LEMMA LazyRereadInv ==
    ASSUME IInv, NEW c \in Chats, LazyReread(c)
    PROVE  IInv'
<1> USE CallersAssumption, TokensAssumption
<1>1. TypeOK'
    BY DEF LazyReread, Goto, Expired, provider, IInv, TypeOK, Callers, Labels,
        Tokens, Rows
<1>2. LockNotLeaked'
    BY DEF LazyReread, Goto, Expired, provider, IInv, TypeOK, Callers,
        LockNotLeaked, Inside
<1>3. ResultKept' /\ CacheSpent'
    BY DEF LazyReread, Goto, Expired, provider, IInv, TypeOK, Callers,
        ResultKept, CacheSpent, local
<1>4. Untouched'
    BY DEF LazyReread, Goto, Expired, provider, IInv, TypeOK, Callers,
        Untouched, Current, Waiting, LockNotLeaked, Inside, Rows
<1> QED
    BY <1>1, <1>2, <1>3, <1>4 DEF IInv

\* Who leads a lazy refresh reads the newest token: the lock was free.
LEMMA LazyLeadInv ==
    ASSUME IInv, NEW c \in Chats, LazyLead(c)
    PROVE  IInv'
<1> USE CallersAssumption, TokensAssumption
<1>1. TypeOK'
    BY DEF LazyLead, Goto, Take, ReadRow, Filled, Expired, provider, IInv,
        TypeOK, Callers, Labels
<1>2. LockNotLeaked'
    BY DEF LazyLead, Goto, Take, ReadRow, Filled, Expired, provider, IInv,
        TypeOK, Callers, LockNotLeaked, Inside
<1>3. ResultKept' /\ CacheSpent'
    BY DEF LazyLead, Goto, Take, ReadRow, Filled, Expired, provider, IInv,
        TypeOK, Callers, ResultKept, CacheSpent, local
<1>4. Untouched'
    BY DEF LazyLead, Goto, Take, ReadRow, Filled, Expired, provider, IInv,
        TypeOK, Callers, Untouched, Current, Waiting, LockNotLeaked, Inside,
        Rows
<1> QED
    BY <1>1, <1>2, <1>3, <1>4 DEF IInv

\* An answered request is over.
LEMMA ServedInv ==
    ASSUME IInv, NEW c \in Chats, Served(c)
    PROVE  IInv'
<1> USE CallersAssumption, TokensAssumption
<1>1. TypeOK'
    BY DEF Served, Goto, provider, IInv, TypeOK, Callers, Labels, Tokens
<1>2. LockNotLeaked'
    BY DEF Served, Goto, provider, IInv, TypeOK, Callers, LockNotLeaked,
        Inside
<1>3. ResultKept' /\ CacheSpent'
    BY DEF Served, Goto, provider, IInv, TypeOK, Callers, ResultKept,
        CacheSpent, local
<1>4. Untouched'
    BY DEF Served, Goto, provider, IInv, TypeOK, Callers, Untouched, Current,
        Waiting, LockNotLeaked, Inside, Rows
<1> QED
    BY <1>1, <1>2, <1>3, <1>4 DEF IInv

\* A 401 sends the request to the forced refresh.
LEMMA UnauthorizedInv ==
    ASSUME IInv, NEW c \in Chats, Unauthorized(c)
    PROVE  IInv'
<1> USE CallersAssumption, TokensAssumption
<1>1. TypeOK'
    BY DEF Unauthorized, Goto, provider, IInv, TypeOK, Callers, Labels, Tokens
<1>2. LockNotLeaked'
    BY DEF Unauthorized, Goto, provider, IInv, TypeOK, Callers, LockNotLeaked,
        Inside
<1>3. ResultKept' /\ CacheSpent'
    BY DEF Unauthorized, Goto, provider, IInv, TypeOK, Callers, ResultKept,
        CacheSpent, local
<1>4. Untouched'
    BY DEF Unauthorized, Goto, provider, IInv, TypeOK, Callers, Untouched,
        Current, Waiting, LockNotLeaked, Inside, Rows
<1> QED
    BY <1>1, <1>2, <1>3, <1>4 DEF IInv

\* A forced refresh, too, reads the newest token: the lock was free.
LEMMA ForceLockInv ==
    ASSUME IInv, NEW c \in Chats, ForceLock(c)
    PROVE  IInv'
<1> USE CallersAssumption, TokensAssumption
<1>1. TypeOK'
    BY DEF ForceLock, Goto, Take, ReadRow, provider, IInv, TypeOK, Callers,
        Labels
<1>2. LockNotLeaked'
    BY DEF ForceLock, Goto, Take, ReadRow, provider, IInv, TypeOK, Callers,
        LockNotLeaked, Inside
<1>3. ResultKept' /\ CacheSpent'
    BY DEF ForceLock, Goto, Take, ReadRow, provider, IInv, TypeOK, Callers,
        ResultKept, CacheSpent, local
<1>4. Untouched'
    BY DEF ForceLock, Goto, Take, ReadRow, provider, IInv, TypeOK, Callers,
        Untouched, Current, Waiting, LockNotLeaked, Inside, Rows
<1> QED
    BY <1>1, <1>2, <1>3, <1>4 DEF IInv

\* Asking counts as outside unless a chat request asks; it gives a token only out
\* of the cache, where the newest token is never found.
LEMMA AskInv ==
    ASSUME IInv, NEW c \in Callers, Ask(c)
    PROVE  IInv'
<1> USE CallersAssumption, TokensAssumption
<1>1. CASE /\ snap[c].token \in cache
           /\ result' = [result EXCEPT ![c] = snap[c].token + 1]
           /\ Goto(c, "persist")
    <2>1. snap[c].token + 1 \in Tokens
        BY <1>1 DEF IInv, TypeOK, CacheSpent, Tokens, Rows
    <2>2. TypeOK'
        BY <1>1, <2>1 DEF Ask, IInv, TypeOK, Goto, Labels, provider
    <2>3. LockNotLeaked'
        BY <1>1 DEF Ask, IInv, TypeOK, Goto, LockNotLeaked, Inside
    <2>4. ResultKept' /\ CacheSpent'
        BY <1>1, <2>1 DEF Ask, IInv, TypeOK, Goto, ResultKept, CacheSpent, provider
    <2>5. ~outside' => c \in Chats /\ ~outside /\ snap[c].token = issued
        BY DEF Ask, IInv, TypeOK, Untouched, Current
    <2>6. outside'
        BY <1>1, <2>5 DEF IInv, TypeOK, CacheSpent, Tokens
    <2> QED
        BY <2>2, <2>3, <2>4, <2>6 DEF IInv, Untouched
<1>2. CASE Goto(c, "flight") /\ UNCHANGED result
    <2>1. TypeOK'
        BY <1>2 DEF Ask, IInv, TypeOK, Goto, Labels, provider
    <2>2. LockNotLeaked'
        BY <1>2 DEF Ask, IInv, TypeOK, Goto, LockNotLeaked, Inside
    <2>3. ResultKept' /\ CacheSpent'
        BY <1>2 DEF Ask, IInv, TypeOK, Goto, ResultKept, CacheSpent, provider
    <2>4. Untouched'
        BY <1>2 DEF Ask, IInv, TypeOK, Goto, Callers, Untouched, Current, Waiting, provider
    <2> QED
        BY <2>1, <2>2, <2>3, <2>4 DEF IInv
<1> QED
    BY <1>1, <1>2 DEF Ask

\* An exchange gives the newest token to who is in its flight: with nobody
\* outside that is the chat request that holds the lock.
LEMMA ExchangedInv ==
    ASSUME IInv, NEW t \in Tokens, Exchanged(t)
    PROVE  IInv'
<1> USE CallersAssumption, TokensAssumption
<1>1. issued' = issued + 1 /\ issued' \in Tokens
    BY DEF Exchanged, IInv, TypeOK, Tokens
<1>2. TypeOK'
    BY <1>1 DEF Exchanged, Land, Flight, IInv, TypeOK, Labels, Tokens
<1>3. LockNotLeaked'
    BY DEF Exchanged, Land, Flight, IInv, TypeOK, LockNotLeaked, Inside
<1>4. ResultKept' /\ CacheSpent'
    BY <1>1 DEF Exchanged, Land, Flight, IInv, TypeOK, ResultKept, CacheSpent, Tokens
<1>5. ASSUME ~outside' PROVE Untouched'
    <2>1. PICK f \in Callers : f \in Flight(t)
        BY DEF Exchanged, Land, Flight
    <2>2. f \in Chats /\ holder = f
        BY <1>5, <2>1 DEF Exchanged, Flight, IInv, Untouched, Waiting, LockNotLeaked,
            Inside, Callers
    <2>3. \A d \in Chats : d # f => ~Inside(d)
        BY <2>2 DEF IInv, LockNotLeaked, Callers
    <2>4. Flight(t) = {f} /\ holder' = f
        BY <1>5, <2>1, <2>2 DEF Exchanged, Flight, IInv, LockNotLeaked, Inside,
            Callers, Untouched, Waiting
    <2>5. pc' = [pc EXCEPT ![f] = "persist"] /\ result' = [result EXCEPT ![f] = issued']
        BY <2>4 DEF Exchanged, Land, IInv, TypeOK
    <2>6. \A d \in Chats : Current(d)'
        <3> TAKE d \in Chats
        <3>1. CASE d = f
            BY <1>5, <2>1, <2>2, <2>5, <3>1
            DEF Exchanged, Flight, IInv, TypeOK, Untouched, Current, Callers
        <3>2. CASE d # f
            BY <1>5, <2>3, <2>5, <3>2
            DEF Exchanged, IInv, TypeOK, Untouched, Current, Inside, Callers
        <3> QED
            BY <3>1, <3>2
    <2>7. \A d \in Background \cup Probes : Waiting(d)'
        BY <1>5, <2>2, <2>5 DEF Exchanged, IInv, TypeOK, Untouched, Waiting, Callers
    <2> QED
        BY <1>5, <2>2, <2>4, <2>6, <2>7 DEF Exchanged, IInv, Untouched
<1>6. Untouched'
    BY <1>5 DEF Untouched
<1> QED
    BY <1>2, <1>3, <1>4, <1>6 DEF IInv

\* A flight that ends without a token: it is refused only if someone outside spent
\* the token first.
LEMMA LandedInv ==
    ASSUME IInv, NEW t \in Tokens, Refused(t) \/ Unanswered(t)
    PROVE  IInv'
<1> USE CallersAssumption, TokensAssumption
<1>1. PICK l \in {"rejected", "failed"} :
        /\ Land(t, l) /\ (l = "rejected" => t # issued)
        /\ UNCHANGED <<row, provider, slot, holder, local, outside>>
    BY DEF Refused, Unanswered
<1>2. TypeOK'
    BY <1>1 DEF Land, Flight, IInv, TypeOK, Labels, provider, local
<1>3. LockNotLeaked'
    BY <1>1 DEF Land, Flight, IInv, TypeOK, LockNotLeaked, Inside, local
<1>4. ResultKept' /\ CacheSpent'
    BY <1>1 DEF Land, Flight, IInv, TypeOK, ResultKept, CacheSpent, provider, local
<1>5. Untouched'
    <2>1. \A d \in Chats : ~outside => Current(d)'
        BY <1>1 DEF Land, Flight, IInv, TypeOK, Untouched, Current, Callers, provider, local
    <2>2. \A d \in Background \cup Probes : ~outside => Waiting(d)'
        BY <1>1 DEF Land, Flight, IInv, TypeOK, Untouched, Waiting, Callers, provider, local
    <2> QED
        BY <1>1, <2>1, <2>2 DEF IInv, Untouched, provider
<1> QED
    BY <1>2, <1>3, <1>4, <1>5 DEF IInv

\* The row gets the newest token, and nobody else is between its read and its write.
LEMMA PersistInv ==
    ASSUME IInv, NEW c \in Chats, Persist(c)
    PROVE  IInv'
<1> USE CallersAssumption, TokensAssumption
<1>0. row' \in Rows
    BY DEF IInv, TypeOK, Persist, Rows, ResultKept, Callers
<1>1. TypeOK'
    <2>1. /\ pc' \in [Callers -> Labels]
          /\ snap' \in [Callers -> Rows] /\ result' \in [Callers -> Tokens \cup {None}]
        BY DEF Persist, Goto, provider, local, IInv, TypeOK, Callers, Labels,
            Rows, Tokens, NewRow
    <2> QED
        BY <1>0, <2>1 DEF IInv, TypeOK, Persist, provider, local
<1>2. LockNotLeaked'
    BY DEF Persist, Goto, provider, local, IInv, TypeOK, Callers,
        LockNotLeaked, Inside
<1>3. ResultKept' /\ CacheSpent'
    BY DEF Persist, Goto, provider, local, IInv, TypeOK, Callers, ResultKept,
        CacheSpent
<1>4. Untouched'
    BY DEF Persist, Goto, provider, local, IInv, TypeOK, Callers, Untouched,
        Current, Waiting, LockNotLeaked, Inside, Rows
<1> QED
    BY <1>1, <1>2, <1>3, <1>4 DEF IInv

\* A chat request that stored its token releases the lock, with the row current.
LEMMA ClearInv ==
    ASSUME IInv, NEW c \in Chats, Clear(c)
    PROVE  IInv'
<1> USE CallersAssumption, TokensAssumption
<1>1. TypeOK'
    <2>1. result[c] \in Tokens /\ c \in Callers
        BY DEF Clear, IInv, ResultKept, Callers
    <2>2. /\ row' \in Rows /\ slot' \in [token : Tokens \cup {None}, failed : BOOLEAN]
          /\ held' \in [Chats -> Tokens] /\ pc' \in [Callers -> Labels]
        BY <2>1 DEF Clear, IInv, TypeOK, Goto, Rows, Labels
    <2> QED
        BY <2>1, <2>2, ForgetTyped DEF Clear, IInv, TypeOK, provider
<1>2. LockNotLeaked'
    BY DEF Clear, IInv, TypeOK, Goto, Callers, LockNotLeaked, Inside
<1>3. ResultKept' /\ CacheSpent'
    BY DEF Clear, Goto, Forget, IInv, TypeOK, Callers, ResultKept, CacheSpent, provider
<1>4. Untouched'
    BY DEF Clear, Goto, Forget, IInv, TypeOK, Callers, Untouched, Current, Waiting,
        LockNotLeaked, Inside, Rows, provider
<1> QED
    BY <1>1, <1>2, <1>3, <1>4 DEF IInv

\* A chat request that leaves with an error releases the lock.  If it found its
\* token refused, someone outside had spent it.
LEMMA LeaveInv ==
    ASSUME IInv, NEW c \in Chats, Leave(c),
           \/ pc[c] = "rejected" /\ row' = [row EXCEPT !.parked = TRUE]
           \/ pc[c] \in {"failed", "standard"} /\ UNCHANGED row
    PROVE  IInv'
<1> USE CallersAssumption, TokensAssumption
<1>1. TypeOK'
    <2>1. /\ row' \in Rows /\ slot' \in [token : Tokens \cup {None}, failed : BOOLEAN]
          /\ pc' \in [Callers -> Labels] /\ c \in Callers
        BY DEF Leave, IInv, TypeOK, Goto, Rows, Labels, Callers
    <2> QED
        BY <2>1, ForgetTyped DEF Leave, IInv, TypeOK, provider
<1>2. LockNotLeaked'
    BY DEF Leave, IInv, TypeOK, Goto, Callers, LockNotLeaked, Inside
<1>3. ResultKept' /\ CacheSpent'
    BY DEF Leave, Goto, Forget, IInv, TypeOK, Callers, ResultKept, CacheSpent, provider
<1>4. Untouched'
    BY DEF Leave, Goto, Forget, IInv, TypeOK, Callers, Untouched, Current, Waiting,
        LockNotLeaked, Inside, Rows, provider
<1> QED
    BY <1>1, <1>2, <1>3, <1>4 DEF IInv

\* Every way a chat request fails is a Leave, or the retry of the forced refresh.
LEMMA FailsInv ==
    ASSUME IInv, NEW c \in Chats, Park(c) \/ LazyFails(c) \/ ForcedFails(c)
    PROVE  IInv'
<1> USE CallersAssumption, TokensAssumption
<1>1. CASE Leave(c)
    BY <1>1, LeaveInv DEF Park, LazyFails, ForcedFails
<1>2. CASE ~Leave(c)
    <2>1. /\ pc[c] = "failed" /\ Goto(c, "standard")
          /\ UNCHANGED <<row, provider, slot, holder, local, outside>>
        BY <1>2 DEF Park, LazyFails, ForcedFails
    <2>2. TypeOK'
        BY <2>1 DEF IInv, TypeOK, Goto, Labels, provider, local
    <2>3. LockNotLeaked'
        BY <2>1 DEF IInv, TypeOK, Goto, LockNotLeaked, Inside, Callers
    <2>4. ResultKept' /\ CacheSpent'
        BY <2>1 DEF IInv, TypeOK, Goto, ResultKept, CacheSpent, Callers, provider, local
    <2>5. Untouched'
        BY <2>1 DEF IInv, TypeOK, Goto, Untouched, Current, Waiting, Callers, provider, local
    <2> QED
        BY <2>2, <2>3, <2>4, <2>5 DEF IInv
<1> QED
    BY <1>1, <1>2

\* The forced refresh's own exchange, by the one chat request inside the lock.
LEMMA StandardInv ==
    ASSUME IInv, NEW c \in Chats, Standard(c)
    PROVE  IInv'
<1> USE CallersAssumption, TokensAssumption
<1>1. CASE Leave(c)
    BY <1>1, LeaveInv DEF Standard
<1>2. CASE /\ snap[c].token # issued /\ Goto(c, "rejected")
           /\ UNCHANGED <<row, provider, slot, holder, local, outside>>
    <2>2. TypeOK'
        BY <1>2 DEF IInv, TypeOK, Goto, Labels, provider, local
    <2>3. LockNotLeaked'
        BY <1>2 DEF Standard, IInv, TypeOK, Goto, LockNotLeaked, Inside, Callers
    <2>4. ResultKept' /\ CacheSpent'
        BY <1>2 DEF IInv, TypeOK, Goto, ResultKept, CacheSpent, Callers, provider, local
    <2>5. outside
        BY <1>2 DEF Standard, IInv, TypeOK, Untouched, Current
    <2> QED
        BY <1>2, <2>2, <2>3, <2>4, <2>5 DEF IInv, Untouched
<1>3. CASE /\ issued < MaxTokens
           /\ issued' = issued + 1
           /\ result' = [result EXCEPT ![c] = issued + 1]
           /\ Goto(c, "persist")
           /\ UNCHANGED <<row, age, slot, holder, cache, snap, held, forcing, outside>>
    <2>1. issued' \in Tokens
        BY <1>3 DEF IInv, TypeOK, Tokens
    <2>2. TypeOK'
        BY <1>3, <2>1 DEF IInv, TypeOK, Goto, Labels
    <2>3. LockNotLeaked'
        BY <1>3 DEF Standard, IInv, TypeOK, Goto, LockNotLeaked, Inside, Callers
    <2>4. ResultKept' /\ CacheSpent'
        BY <1>3, <2>1 DEF IInv, TypeOK, Goto, ResultKept, CacheSpent, Callers, Tokens
    <2>5. holder = c /\ \A d \in Chats : d # c => ~Inside(d)
        BY DEF Standard, IInv, LockNotLeaked, Inside, Callers
    <2>6. Untouched'
        BY <1>3, <2>5 DEF Standard, IInv, TypeOK, Goto, Untouched, Current, Waiting,
            Inside, Callers
    <2> QED
        BY <2>2, <2>3, <2>4, <2>6 DEF IInv
<1> QED
    BY <1>1, <1>2, <1>3 DEF Standard

\* The tick has read the row and asked for nothing yet.
LEMMA SelectInv ==
    ASSUME IInv, NEW c \in Background, Select(c)
    PROVE  IInv'
<1> USE CallersAssumption, TokensAssumption
<1>1. TypeOK'
    BY DEF Select, Goto, ReadRow, provider, IInv, TypeOK, Callers, Labels
<1>2. LockNotLeaked'
    BY DEF Select, Goto, ReadRow, provider, IInv, TypeOK, Callers,
        LockNotLeaked, Inside
<1>3. ResultKept' /\ CacheSpent'
    BY DEF Select, Goto, ReadRow, provider, IInv, TypeOK, Callers, ResultKept,
        CacheSpent, local
<1>4. Untouched'
    BY DEF Select, Goto, ReadRow, provider, IInv, TypeOK, Callers, Untouched,
        Current, Waiting, LockNotLeaked, Inside, Rows
<1> QED
    BY <1>1, <1>2, <1>3, <1>4 DEF IInv

\* The tick has asked before: outside is true.
LEMMA TickReadsInv ==
    ASSUME IInv, NEW c \in Background, TickReads(c)
    PROVE  IInv'
<1> USE CallersAssumption, TokensAssumption
<1>1. TypeOK'
    BY DEF TickReads, Goto, ReadRow, provider, IInv, TypeOK, Callers, Labels
<1>2. LockNotLeaked'
    BY DEF TickReads, Goto, ReadRow, provider, IInv, TypeOK, Callers,
        LockNotLeaked, Inside
<1>3. ResultKept' /\ CacheSpent'
    BY DEF TickReads, Goto, ReadRow, provider, IInv, TypeOK, Callers,
        ResultKept, CacheSpent, local
<1>4. Untouched'
    BY DEF TickReads, Goto, ReadRow, provider, IInv, TypeOK, Callers,
        Untouched, Current, Waiting, LockNotLeaked, Inside, Rows
<1> QED
    BY <1>1, <1>2, <1>3, <1>4 DEF IInv

\* The tick writes the row it has just read, with the token it was given.
LEMMA TickWritesInv ==
    ASSUME IInv, NEW c \in Background, TickWrites(c)
    PROVE  IInv'
<1> USE CallersAssumption, TokensAssumption
<1>0. row' \in Rows
    BY DEF IInv, TypeOK, TickWrites, Rows, ResultKept, Callers
<1>1. TypeOK'
    <2>1. /\ pc' \in [Callers -> Labels]
          /\ snap' \in [Callers -> Rows] /\ result' \in [Callers -> Tokens \cup {None}]
        BY DEF TickWrites, Goto, Forget, provider, IInv, TypeOK, Callers, Labels,
            Rows, Tokens, NewRow
    <2> QED
        BY <1>0, <2>1 DEF IInv, TypeOK, TickWrites, provider, local
<1>2. LockNotLeaked'
    BY DEF TickWrites, Goto, Forget, provider, IInv, TypeOK, Callers,
        LockNotLeaked, Inside
<1>3. ResultKept' /\ CacheSpent'
    BY DEF TickWrites, Goto, Forget, provider, IInv, TypeOK, Callers,
        ResultKept, CacheSpent, local
<1>4. Untouched'
    BY DEF TickWrites, Goto, Forget, provider, IInv, TypeOK, Callers,
        Untouched, Current, Waiting, LockNotLeaked, Inside, Rows
<1> QED
    BY <1>1, <1>2, <1>3, <1>4 DEF IInv

\* The tick clears the park.
LEMMA TickClearsInv ==
    ASSUME IInv, NEW c \in Background, TickClears(c)
    PROVE  IInv'
<1> USE CallersAssumption, TokensAssumption
<1>1. TypeOK'
    BY DEF TickClears, Goto, provider, local, IInv, TypeOK, Callers, Labels,
        Rows
<1>2. LockNotLeaked'
    BY DEF TickClears, Goto, provider, local, IInv, TypeOK, Callers,
        LockNotLeaked, Inside
<1>3. ResultKept' /\ CacheSpent'
    BY DEF TickClears, Goto, provider, local, IInv, TypeOK, Callers,
        ResultKept, CacheSpent
<1>4. Untouched'
    BY DEF TickClears, Goto, provider, local, IInv, TypeOK, Callers,
        Untouched, Current, Waiting, LockNotLeaked, Inside, Rows
<1> QED
    BY <1>1, <1>2, <1>3, <1>4 DEF IInv

\* The tick was refused, or not answered: it has asked, so outside is true.
LEMMA TickFailsInv ==
    ASSUME IInv, NEW c \in Background, TickFails(c)
    PROVE  IInv'
<1> USE CallersAssumption, TokensAssumption
<1>1. TypeOK'
    <2>1. row' \in Rows /\ pc' \in [Callers -> Labels] /\ c \in Callers
        BY DEF TickFails, IInv, TypeOK, Goto, Rows, Labels, Callers
    <2> QED
        BY <2>1, ForgetTyped DEF TickFails, IInv, TypeOK, provider
<1>2. LockNotLeaked'
    BY DEF TickFails, Goto, IInv, TypeOK, Callers, LockNotLeaked, Inside
<1>3. ResultKept' /\ CacheSpent'
    BY DEF TickFails, Goto, Forget, IInv, TypeOK, Callers, ResultKept, CacheSpent, provider
<1>4. Untouched'
    BY DEF TickFails, IInv, Untouched, Waiting, Callers
<1> QED
    BY <1>1, <1>2, <1>3, <1>4 DEF IInv

\* A test has read the row and asked for nothing yet.
LEMMA ProbeReadInv ==
    ASSUME IInv, NEW c \in Probes, ProbeRead(c)
    PROVE  IInv'
<1> USE CallersAssumption, TokensAssumption
<1>1. TypeOK'
    BY DEF ProbeRead, Goto, ReadRow, provider, IInv, TypeOK, Callers, Labels
<1>2. LockNotLeaked'
    BY DEF ProbeRead, Goto, ReadRow, provider, IInv, TypeOK, Callers,
        LockNotLeaked, Inside
<1>3. ResultKept' /\ CacheSpent'
    BY DEF ProbeRead, Goto, ReadRow, provider, IInv, TypeOK, Callers,
        ResultKept, CacheSpent, local
<1>4. Untouched'
    BY DEF ProbeRead, Goto, ReadRow, provider, IInv, TypeOK, Callers,
        Untouched, Current, Waiting, LockNotLeaked, Inside, Rows
<1> QED
    BY <1>1, <1>2, <1>3, <1>4 DEF IInv

\* A test without an exchange has only read the row.
LEMMA ProbeSettledInv ==
    ASSUME IInv, NEW c \in Probes, ProbeSettled(c)
    PROVE  IInv'
<1> USE CallersAssumption, TokensAssumption
<1>1. TypeOK'
    BY DEF ProbeSettled, Goto, provider, local, IInv, TypeOK, Callers, Labels
<1>2. LockNotLeaked'
    BY DEF ProbeSettled, Goto, provider, local, IInv, TypeOK, Callers,
        LockNotLeaked, Inside
<1>3. ResultKept' /\ CacheSpent'
    BY DEF ProbeSettled, Goto, provider, local, IInv, TypeOK, Callers,
        ResultKept, CacheSpent
<1>4. Untouched'
    BY DEF ProbeSettled, Goto, provider, local, IInv, TypeOK, Callers,
        Untouched, Current, Waiting, LockNotLeaked, Inside, Rows
<1> QED
    BY <1>1, <1>2, <1>3, <1>4 DEF IInv

\* A test takes the lock only when it is free.
LEMMA ProbeLockInv ==
    ASSUME IInv, NEW c \in Probes, ProbeLock(c)
    PROVE  IInv'
<1> USE CallersAssumption, TokensAssumption
<1>1. TypeOK'
    BY DEF ProbeLock, Goto, Take, provider, local, IInv, TypeOK, Callers,
        Labels
<1>2. LockNotLeaked'
    BY DEF ProbeLock, Goto, Take, provider, local, IInv, TypeOK, Callers,
        LockNotLeaked, Inside
<1>3. ResultKept' /\ CacheSpent'
    BY DEF ProbeLock, Goto, Take, provider, local, IInv, TypeOK, Callers,
        ResultKept, CacheSpent
<1>4. Untouched'
    BY DEF ProbeLock, Goto, Take, provider, local, IInv, TypeOK, Callers,
        Untouched, Current, Waiting, LockNotLeaked, Inside, Rows
<1> QED
    BY <1>1, <1>2, <1>3, <1>4 DEF IInv

\* A test that was given an answer has asked before: outside is true.
LEMMA ProbeUnlockInv ==
    ASSUME IInv, NEW c \in Probes, ProbeUnlock(c)
    PROVE  IInv'
<1> USE CallersAssumption, TokensAssumption
<1>1. TypeOK'
    BY DEF ProbeUnlock, Goto, provider, IInv, TypeOK, Callers, Labels
<1>2. LockNotLeaked'
    BY DEF ProbeUnlock, Goto, provider, IInv, TypeOK, Callers, LockNotLeaked,
        Inside
<1>3. ResultKept' /\ CacheSpent'
    BY DEF ProbeUnlock, Goto, provider, IInv, TypeOK, Callers, ResultKept,
        CacheSpent, local
<1>4. Untouched'
    BY DEF ProbeUnlock, Goto, provider, IInv, TypeOK, Callers, Untouched,
        Current, Waiting, LockNotLeaked, Inside, Rows
<1> QED
    BY <1>1, <1>2, <1>3, <1>4 DEF IInv

\* A test writes the row it read, and from then on outside is true.
LEMMA ProbeStoreInv ==
    ASSUME IInv, NEW c \in Probes, ProbeStore(c)
    PROVE  IInv'
<1> USE CallersAssumption, TokensAssumption
<1>0. row' \in Rows
    BY DEF IInv, TypeOK, ProbeStore, Rows, ResultKept, Callers
<1>1. TypeOK'
    <2>1. /\ pc' \in [Callers -> Labels]
          /\ snap' \in [Callers -> Rows] /\ result' \in [Callers -> Tokens \cup {None}]
        BY DEF ProbeStore, Goto, Forget, provider, IInv, TypeOK, Callers, Labels,
            Rows, Tokens, NewRow
    <2> QED
        BY <1>0, <2>1 DEF IInv, TypeOK, ProbeStore, provider, local
<1>2. LockNotLeaked'
    BY DEF ProbeStore, Goto, Forget, provider, IInv, TypeOK, Callers,
        LockNotLeaked, Inside
<1>3. ResultKept' /\ CacheSpent'
    BY DEF ProbeStore, Goto, Forget, provider, IInv, TypeOK, Callers,
        ResultKept, CacheSpent, local
<1>4. Untouched'
    BY DEF ProbeStore, Goto, Forget, provider, IInv, TypeOK, Callers,
        Untouched, Current, Waiting, LockNotLeaked, Inside, Rows
<1> QED
    BY <1>1, <1>2, <1>3, <1>4 DEF IInv

\* Time changes neither a token nor a lock.
LEMMA TimeInv ==
    ASSUME IInv, Ageing \/ \E t \in Tokens : Lapse(t)
    PROVE  IInv'
<1> USE CallersAssumption, TokensAssumption
<1>1. /\ age' \in [Tokens -> 0 .. 2] /\ cache' \subseteq cache
      /\ UNCHANGED <<row, issued, slot, holder, pc, local, outside>>
    BY DEF Ageing, Lapse, IInv, TypeOK, Rows
<1> QED
    BY <1>1 DEF IInv, TypeOK, LockNotLeaked, Inside, ResultKept, CacheSpent, Untouched,
        Current, Waiting, local

\* At first the lock is free, the cache is empty and the row is new.
LEMMA InitIInv == Init => IInv
<1> SUFFICES ASSUME Init PROVE IInv
    OBVIOUS
<1> USE CallersAssumption, TokensAssumption
<1>1. TypeOK
    <2>1. 0 \in Tokens /\ NewRow \in Rows
        BY DEF Tokens, NewRow, Rows
    <2>2. "idle" \in Labels /\ 0 \in 0 .. 2
        BY DEF Labels
    <2>3. /\ age \in [Tokens -> 0 .. 2] /\ pc \in [Callers -> Labels]
          /\ snap \in [Callers -> Rows] /\ result \in [Callers -> Tokens \cup {None}]
          /\ held \in [Chats -> Tokens]
        BY <2>1, <2>2 DEF Init
    <2> QED
        BY <2>1, <2>3 DEF Init, TypeOK
<1>2. LockNotLeaked /\ ResultKept /\ CacheSpent
    BY DEF Init, LockNotLeaked, Inside, ResultKept, CacheSpent, Callers
<1>3. Untouched
    BY DEF Init, Untouched, Current, Waiting, NewRow, Callers
<1> QED
    BY <1>1, <1>2, <1>3 DEF IInv

\* Every step keeps the inductive invariant.
LEMMA NextIInv == IInv /\ [Next]_vars => IInv'
<1> SUFFICES ASSUME IInv, [Next]_vars PROVE IInv'
    OBVIOUS
<1>1. ASSUME NEW c \in Chats, Request(c) PROVE IInv'
    BY <1>1, ArriveInv, LazyAdoptInv, LazySkipInv, LazyRereadInv, LazyLeadInv, ServedInv,
       UnauthorizedInv, ForceLockInv, AskInv, PersistInv, ClearInv, FailsInv, StandardInv
    DEF Request, Callers
<1>2. ASSUME NEW c \in Background, Loop(c) PROVE IInv'
    BY <1>2, SelectInv, AskInv, TickReadsInv, TickWritesInv, TickClearsInv, TickFailsInv
    DEF Loop, Callers
<1>3. ASSUME NEW c \in Probes, Test(c) PROVE IInv'
    BY <1>3, ProbeReadInv, ProbeSettledInv, ProbeLockInv, AskInv, ProbeUnlockInv,
       ProbeStoreInv
    DEF Test, Callers
<1>4. ASSUME NEW t \in Tokens, Answer(t) PROVE IInv'
    BY <1>4, ExchangedInv, LandedInv DEF Answer
<1>5. CASE Ageing \/ \E t \in Tokens : Lapse(t)
    BY <1>5, TimeInv
<1>6. CASE UNCHANGED vars
    BY <1>6 DEF vars, IInv, TypeOK, LockNotLeaked, Inside, ResultKept, CacheSpent,
        Untouched, Current, Waiting
<1> QED
    BY <1>1, <1>2, <1>3, <1>4, <1>5, <1>6 DEF Next

\* Every reachable state satisfies the inductive invariant.
THEOREM Invariance == Spec => []IInv
<1>1. Init => IInv
    BY InitIInv
<1>2. IInv /\ [Next]_vars => IInv'
    BY NextIInv
<1> QED
    BY <1>1, <1>2, PTL DEF Spec

\* The row, the slot and every caller's locals keep their types: no caller dials
\* with, or stores, a token it was never given.
THEOREM TypeCorrect == Spec => []TypeOK
<1>1. IInv => TypeOK
    BY DEF IInv
<1> QED
    BY <1>1, Invariance, PTL

\* The connection's lock is held exactly by the caller inside the refresh, so at
\* most one is, and no path through an error leaves it behind.
THEOREM LockReleased == Spec => []LockNotLeaked
<1>1. IInv => LockNotLeaked
    BY DEF IInv
<1> QED
    BY <1>1, Invariance, PTL

\* While only chat requests refresh, for any number of them, the stored refresh
\* token is the provider's newest one whenever the lock is free.
THEOREM StoredTokenNewest == Spec => []StoredTokenIsNewest
<1>1. IInv => StoredTokenIsNewest
    BY CallersAssumption DEF IInv, Untouched, StoredTokenIsNewest, Callers
<1> QED
    BY <1>1, Invariance, PTL

\* While only chat requests refresh, for any number of them, a healthy account is
\* never parked.
THEOREM HealthyAccountKept == Spec => []HealthyNotParked
<1>1. IInv => HealthyNotParked
    BY DEF IInv, Untouched, HealthyNotParked
<1> QED
    BY <1>1, Invariance, PTL
=============================================================================
