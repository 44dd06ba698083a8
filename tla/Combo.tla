-------------------------------- MODULE Combo --------------------------------
(***************************************************************************)
(* One client turn through a combo: handleComboFallbackWithVisited walks   *)
(* the combo's entries, sends the prompt to the accounts of each, repeats  *)
(* a failed pass once after a bounded Retry-After wait, and then descends  *)
(* into the fallback combos.  Around the turn, the timer of                *)
(* comboResponseTimeout races the candidate's first bytes, the client may  *)
(* hang up, and other turns cool the same accounts down.                   *)
(*                                                                         *)
(* handleMessagesComboFallbackWithVisited is the same loop for a Claude    *)
(* client.  An account is locked for an entry (a provider and a model) or  *)
(* cooling down as a whole; which usable account is selected is left open: *)
(* the selection itself is the subject of AccountFallback.                 *)
(***************************************************************************)
EXTENDS Selection, FiniteSets, SequencesExt, FiniteSetsExt

CONSTANTS
    Combos, Root,   \* the combos, and the one the client named
    ModelsOf,       \* per combo, the sequence of its entries
    Ranked,         \* the combos whose strategy computes its own order
    Fallbacks,      \* per combo, the sequence of its fallback combos
    Timed,          \* the combos with a response timeout and a grace period
    AccountsOf,     \* per entry, the active accounts of its provider
    NoAuth,         \* the entries whose provider needs no account
    Nodes,          \* the entries on a custom node with capacity limits
    Shared,         \* the accounts that other turns use meanwhile
    ForceFallback,  \* settings.forceFallback
    Answers,        \* the upstream answers explored (bound of the model)
    Hints,          \* the Retry-After hints explored, 0 for none (bound of the model)
    MaxTries,       \* connection attempts per entry
    None

Entries == UNION {ToSet(ModelsOf[c]) : c \in Combos}
Accounts == UNION {AccountsOf[e] : e \in Entries}

\* How a forwarding attempt can end other than by being served.
Failures == {"empty", "guardrail", "refused", "dead", "unfit", "quota", "modelQuota",
             "denied", "freeTier", "rejected", "fault", "broken"}

ASSUME ComboConstants ==
    /\ Root \in Combos
    /\ NoAuth \subseteq Entries /\ Nodes \subseteq Entries
    /\ Timed \subseteq Combos /\ Ranked \subseteq Combos
    /\ Answers \subseteq Failures
    /\ Hints \subseteq Nat
    /\ MaxTries \in Nat \ {0}
    /\ None \notin Accounts
    /\ \A c \in Combos : /\ ModelsOf[c] \in Seq(Entries) \ {<<>>} /\ IsInjective(ModelsOf[c])
                         /\ Fallbacks[c] \in Seq(Combos)
    /\ \A e \in Entries : IsFiniteSet(AccountsOf[e])

VARIABLES
    pc,       \* where the turn's goroutine is
    stack,    \* the activations of the handler, the client's combo first
    cand,     \* the entry being tried
    parked,   \* model locks: <<account, entry>>
    cooling,  \* accounts in an account-scoped cooldown
    benched,  \* h.timeoutBench: <<combo, entry>> inside its grace period
    gone,     \* the client's context is cancelled
    reply,    \* what the client has been sent: "none", "bytes" or "error"
    \* history
    writers,  \* how many candidates have bytes in the reply (counts up to 2)
    asked,    \* <<position, account>> sent the prompt in this pass
    refusers, \* accounts that refused this pass for their quota or grant
    vetoed,   \* the combos one of whose answers the guardrail has refused, each since
              \* its last activation
    entered,  \* the combos the turn has tried
    owed,     \* <<entry, account>> usable since the turn began, entry not tried
    cutShort  \* the last prompt sent was abandoned by the response timeout

db == <<parked, cooling, benched>>
history == <<writers, asked, refusers, vetoed, entered, owed, cutShort>>
turn == <<pc, stack, cand, db, gone, reply, history>>

AtRest == [tried |-> {}, tries |-> 0, acct |-> None, gate |-> "off",
           last |-> FALSE, wrote |-> FALSE, ok |-> FALSE]

------------------------------------------------------------------------------
(* Reading the configuration and the accounts.                             *)

EmptyWhenBenched(c, s) == Keep(s, {e \in Entries : <<c, e>> \notin benched}) \* mutant

\* withoutBenchedModels: a chain that is benched as a whole is left alone.
WithoutBenched(c, s) ==
    LET kept == Keep(s, {e \in Entries : <<c, e>> \notin benched})
    IN IF c \notin Timed \/ kept = <<>> THEN s ELSE kept

Orders(c) == IF c \in Ranked THEN SetToSeqs(ToSet(ModelsOf[c])) ELSE {ModelsOf[c]}

\* A new activation of the handler for combo c.
Activation(c, order, visited) ==
    [combo |-> c, models |-> WithoutBenched(c, order), pass |-> 1, at |-> 1,
     spent |-> {}, seen |-> {}, index |-> 0, last |-> "none", earliest |-> 0,
     limited |-> FALSE, late |-> FALSE, visited |-> visited, next |-> 1]

Frame == stack[Len(stack)]
Entry == Frame.models[Frame.at]
WithFrame(f) == [stack EXCEPT ![Len(stack)] = f]

Usable(a, e) == <<a, e>> \notin parked /\ a \notin cooling

\* comboEntrySendable.
Sendable(e, spent) == e \in NoAuth \/ \E a \in AccountsOf[e] \ spent : Usable(a, e)

\* comboLastTried.index: recomputed only when the exclusions have changed.
LastTried(f) ==
    IF f.seen = {f.spent} THEN f.index
    ELSE Max({i \in DOMAIN f.models : Sendable(f.models[i], f.spent)} \cup {0})

\* ~IsProviderAvailable: every account of the provider is locked for the model.
Unavailable(e) == AccountsOf[e] # {} /\ \A a \in AccountsOf[e] : <<a, e>> \in parked

ForgetTried(e) == AccountsOf[e] \ Frame.spent                    \* mutant

\* entryExcludes: what the selection of this attempt must not return.
NotExcluded(e) == AccountsOf[e] \ (Frame.spent \cup cand.tried)

\* getBestConnectionWithContext, with the account that is forced out of its
\* cooldown when no other is left.
Selectable(e) ==
    LET usable == {a \in NotExcluded(e) : Usable(a, e)}
        forced == {a \in NotExcluded(e) \cap cooling : <<a, e>> \notin parked}
    IN IF usable = {} /\ ForceFallback THEN forced ELSE usable

IsRetryable(class) == class \in {"busy", "timeout"}

\* passRetry.wait: a rate-limited pass is repeated only after a brief wait (1),
\* another one after any wait inside the cap (2).
WaitOf(f) == IF f.earliest > (IF f.limited THEN 1 ELSE 2) THEN 0 ELSE f.earliest

\* passRetry.note.
Note(f, hint, limited) ==
    [f EXCEPT !.limited = @ \/ limited,
              !.earliest = IF hint > 0 /\ (@ = 0 \/ hint < @) THEN hint ELSE @]

------------------------------------------------------------------------------
TurnInit ==
    /\ parked = {} /\ cooling = {}
    /\ benched \in SUBSET UNION {{c} \X ToSet(ModelsOf[c]) : c \in Timed}
    /\ \E order \in Orders(Root) : stack = <<Activation(Root, order, {})>>
    /\ pc = "entry" /\ cand = AtRest /\ gone = FALSE /\ reply = "none"
    /\ writers = 0 /\ asked = {} /\ refusers = {} /\ vetoed = {} /\ entered = {Root}
    /\ owed = UNION {{e} \X AccountsOf[e] : e \in ToSet(ModelsOf[Root])}
    /\ cutShort = FALSE

\* Return from the current activation.
Return ==
    IF Len(stack) = 1
    THEN pc' = "done" /\ stack' = stack
    ELSE pc' = "returned" /\ stack' = Front(stack)

\* The accounts that have stopped being usable are no longer owed a try.
StillOwed(locks, cool, refused) ==
    {w \in owed : /\ <<w[2], w[1]>> \notin locks
                  /\ w[2] \notin cool \cup refused}

SkipEntry(f) ==
    /\ stack' = WithFrame([f EXCEPT !.at = @ + 1,
                                    !.last = IF @ = "none" THEN "busy" ELSE @])
    /\ UNCHANGED <<pc, cand>>

OpenEntry(f, last) ==
    /\ stack' = WithFrame(f)
    /\ cand' = [AtRest EXCEPT !.last = last,
                              !.gate = IF f.combo \in Timed /\ ~last THEN "armed" ELSE "off"]
    /\ pc' = "pick"

\* The head of the loop over the entries: the candidate that is presumed to be the
\* last one keeps the global deadline, any other is put behind the timeout gate.
StartEntry ==
    LET index == LastTried(Frame)
        f == [Frame EXCEPT !.seen = {Frame.spent}, !.index = index]
    IN /\ pc = "entry" /\ Frame.at <= Len(Frame.models)
       /\ IF Unavailable(Entry) THEN SkipEntry(f) ELSE OpenEntry(f, f.at = index)
       /\ UNCHANGED <<db, gone, reply, history>>

Send(a) ==
    /\ pc' = "sent"
    /\ cand' = [cand EXCEPT !.acct = a, !.wrote = FALSE]
    /\ asked' = IF a = None THEN asked ELSE asked \cup {<<Frame.at, a>>}
    /\ owed' = {w \in owed : w[1] # Entry}
    /\ cutShort' = (cand.gate = "expired")
    /\ UNCHANGED <<stack, db, gone, reply, writers, refusers, vetoed, entered>>

SendWithoutAccount ==
    /\ pc = "pick" /\ Entry \in NoAuth
    /\ Send(None)

\* The entry has no account left to select, or has used up its attempts.
GiveEntryUp ==
    /\ pc = "pick" /\ Entry \notin NoAuth
    /\ cand.tries = MaxTries \/ Selectable(Entry) = {}
    /\ pc' = "left"
    /\ UNCHANGED <<stack, cand, db, gone, reply, history>>

\* The node's contract has ended or its lifetime quota is spent.
NodeBlocked ==
    /\ pc = "pick" /\ Entry \in Nodes \ NoAuth /\ "refused" \in Answers
    /\ pc' = "left"
    /\ stack' = WithFrame([Frame EXCEPT !.last = "final"])
    /\ owed' = {w \in owed : w[1] # Entry}
    /\ UNCHANGED <<cand, db, gone, reply, writers, asked, refusers, vetoed, entered, cutShort>>

SelectAccount(a) ==
    /\ pc = "pick" /\ Entry \notin NoAuth
    /\ cand.tries < MaxTries /\ a \in Selectable(Entry)
    /\ pc' = "check"
    /\ cand' = [cand EXCEPT !.acct = a, !.tries = @ + 1]
    /\ UNCHANGED <<stack, db, gone, reply, history>>

\* IsConnectionModelLocked reads the lock again: another turn may have set it.
SkipLocked ==
    /\ pc = "check" /\ <<cand.acct, Entry>> \in parked
    /\ pc' = "pick"
    /\ stack' = WithFrame([Frame EXCEPT !.spent = @ \cup {cand.acct}])
    /\ owed' = {w \in owed : w[2] # cand.acct}
    /\ UNCHANGED <<cand, db, gone, reply, writers, asked, refusers, vetoed, entered, cutShort>>

SendToAccount ==
    /\ pc = "check" /\ <<cand.acct, Entry>> \notin parked
    /\ Send(cand.acct)

------------------------------------------------------------------------------
(* The response timeout against the candidate's first bytes.               *)

\* comboResponseTimeout.commitLocked: an expired gate swallows the write.
Commits(gate) == gate # "expired"

\* The first bytes of the candidate: its writes end in commitLocked when a gate is
\* installed, and go straight to the client otherwise.
FirstBytes ==
    /\ pc = "sent" /\ ~cand.wrote /\ Commits(cand.gate)
    /\ cand' = [cand EXCEPT !.wrote = TRUE,
                            !.gate = IF @ = "armed" THEN "committed" ELSE @]
    /\ reply' = "bytes"
    /\ writers' = IF writers = 2 THEN 2 ELSE writers + 1
    /\ UNCHANGED <<pc, stack, db, gone, asked, refusers, vetoed, entered, owed, cutShort>>

ExpiresCommitted(gate) == gate \in {"armed", "committed"}        \* mutant

Expires(gate) == gate = "armed"

\* comboResponseTimeout.expire runs on its timer's goroutine.
Expire ==
    /\ pc \in {"pick", "check", "sent"} /\ Expires(cand.gate)
    /\ cand' = [cand EXCEPT !.gate = "expired"]
    /\ cutShort' = TRUE
    /\ UNCHANGED <<pc, stack, db, gone, reply, writers, asked, refusers, vetoed, entered, owed>>

------------------------------------------------------------------------------
(* The answers.                                                            *)

\* Answers that leave the entry instead of trying its next account.
Leaves(o) == o \in {"empty", "guardrail", "dead", "unfit"}

\* comboLockRetryable: refusals that lock the account for the model, those that
\* also cool the account down, and those that exclude it for the rest of the pass.
LocksModel(o) == o \in {"quota", "modelQuota", "denied"}
CoolsAccount(o) == o \in {"quota", "denied"}

Excludes(o) == LocksModel(o) \/ o = "freeTier"

Class(o) == CASE o = "guardrail" -> "guardrail"
              [] o \in {"dead", "unfit", "denied", "rejected"} -> "final"
              [] OTHER -> "busy"

\* What the attempt can end in: a candidate that has written can only be cut off,
\* and the zero-content check is not made on the candidate presumed to be last.
Endings ==
    IF cand.wrote THEN Answers \cap {"broken", "guardrail"}
    ELSE {o \in Answers : /\ o = "empty" => ~cand.last
                          /\ o = "refused" => Entry \in Nodes}

\* The answers whose Retry-After the pass notes.
HintsOf(o) == IF o \in {"quota", "modelQuota", "fault"} THEN Hints ELSE {0}

TimedOut == cand.gate = "expired" /\ ~gone

\* The attempt was served, or its served answer was swallowed by the gate.
Served ==
    /\ pc = "sent" /\ (cand.wrote \/ cand.gate = "expired")
    /\ IF TimedOut
       THEN stack' = WithFrame([Frame EXCEPT !.last = "timeout"]) /\ cand' = cand
       ELSE stack' = stack /\ cand' = [cand EXCEPT !.ok = TRUE]
    /\ pc' = "left"
    /\ UNCHANGED <<db, gone, reply, history>>

\* The gate or the hang-up cancelled the attempt: what the upstream would have
\* answered no longer matters.
Cancelled ==
    /\ pc = "sent" /\ (gone \/ cand.gate = "expired")
    /\ stack' = IF TimedOut THEN WithFrame([Frame EXCEPT !.last = "timeout"])
                            ELSE WithFrame([Frame EXCEPT !.last = "final"])
    /\ pc' = "left"
    /\ UNCHANGED <<cand, db, gone, reply, history>>

\* The attempt failed with answer o, which suggested to wait for hint.
Failed(o, hint) ==
    LET acct == cand.acct
        f == [Frame EXCEPT !.last = Class(o),
                           !.spent = IF Excludes(o) /\ acct # None THEN @ \cup {acct} ELSE @]
    IN /\ pc = "sent" /\ ~gone /\ cand.gate # "expired" /\ o \in Endings
       /\ stack' = WithFrame(Note(f, hint, o \in {"quota", "modelQuota", "freeTier"}))
       /\ cand' = [cand EXCEPT !.tried = IF acct = None THEN @ ELSE @ \cup {acct}]
       /\ parked' = IF acct # None /\ (LocksModel(o) \/ o = "dead")
                    THEN parked \cup {<<acct, Entry>>} ELSE parked
       /\ cooling' = IF acct # None /\ CoolsAccount(o) THEN cooling \cup {acct} ELSE cooling
       /\ pc' = IF Leaves(o) \/ acct = None THEN "left" ELSE "pick"
       /\ refusers' = IF acct # None /\ (LocksModel(o) \/ o = "freeTier")
                      THEN refusers \cup {acct} ELSE refusers
       /\ vetoed' = IF o = "guardrail" THEN vetoed \cup {Frame.combo} ELSE vetoed
       /\ owed' = StillOwed(parked', cooling', refusers')
       /\ UNCHANGED <<benched, gone, reply, writers, asked, entered, cutShort>>

VetoIgnored(class) == FALSE                                      \* mutant

EndsTurn(class) == class = "guardrail"

\* The end of the loop body: the gate is closed, and an expiry that was not seen
\* by the attempt itself still turns the entry into a timed out one.
LeaveEntry ==
    LET f == IF TimedOut THEN [Frame EXCEPT !.last = "timeout", !.late = TRUE] ELSE Frame
    IN /\ pc = "left"
       /\ benched' = IF TimedOut THEN benched \cup {<<Frame.combo, Entry>>} ELSE benched
       /\ cand' = AtRest
       /\ IF (cand.ok /\ ~TimedOut) \/ gone
          THEN Return
          ELSE IF EndsTurn(f.last)
               THEN pc' = "fallback" /\ stack' = WithFrame(f)
               ELSE pc' = "entry" /\ stack' = WithFrame([f EXCEPT !.at = @ + 1])
       /\ UNCHANGED <<parked, cooling, gone, reply, history>>

RepeatAlways(f) == f.last # "none" /\ ~f.late                    \* mutant

MayRepeat(f) == f.last # "none" /\ f.pass = 1 /\ ~f.late

EndPass ==
    /\ pc = "entry" /\ Frame.at > Len(Frame.models)
    /\ pc' = IF MayRepeat(Frame) /\ ~gone /\ WaitOf(Frame) > 0 THEN "hold" ELSE "fallback"
    /\ UNCHANGED <<stack, cand, db, gone, reply, history>>

\* The wait of the second pass ends, or the client leaves during it.
SecondPass ==
    /\ pc = "hold" /\ ~gone
    /\ pc' = "entry"
    /\ stack' = WithFrame([Frame EXCEPT !.pass = 2, !.at = 1, !.last = "none",
                !.earliest = 0, !.limited = FALSE, !.spent = {}, !.seen = {}, !.index = 0])
    /\ asked' = {} /\ refusers' = {}
    /\ UNCHANGED <<cand, db, gone, reply, writers, vetoed, entered, owed, cutShort>>

LeaveWait ==
    /\ pc = "hold" /\ gone
    /\ Return
    /\ UNCHANGED <<cand, db, gone, reply, history>>

------------------------------------------------------------------------------
(* The fallback combos and the terminal error.                             *)

Seen(f) == f.visited \cup {f.combo}

\* The fallback combos of the activation that are still to be tried.
Untried(f) ==
    {j \in f.next .. Len(Fallbacks[f.combo]) : Fallbacks[f.combo][j] \notin Seen(f)}

Descends == reply = "none" /\ IsRetryable(Frame.last) /\ Untried(Frame) # {}

TryFallbackCombo ==
    LET j == Min(Untried(Frame))
        c == Fallbacks[Frame.combo][j]
    IN /\ pc = "fallback" /\ Descends
       /\ pc' = "entry"
       /\ \E order \in Orders(c) :
              stack' = Append(WithFrame([Frame EXCEPT !.next = j + 1]),
                              Activation(c, order, Seen(Frame) \cup {c}))
       /\ asked' = {} /\ refusers' = {}
       /\ entered' = entered \cup {c} /\ vetoed' = vetoed \ {c}
       /\ UNCHANGED <<cand, db, gone, reply, writers, owed, cutShort>>

AnyActivation == TRUE                                            \* mutant

\* isRoot: only the client's own combo writes a terminal error.
IsRoot == Len(stack) = 1

FinishCombo ==
    /\ pc = "fallback" /\ ~Descends
    /\ reply' = IF reply = "none" /\ IsRoot THEN "error" ELSE reply
    /\ Return
    /\ UNCHANGED <<cand, db, gone, history>>

\* The activation of a fallback combo has returned to the one that called it.
Resume ==
    /\ pc = "returned"
    /\ IF reply # "none" THEN Return ELSE pc' = "fallback" /\ stack' = stack
    /\ UNCHANGED <<cand, db, gone, reply, history>>

------------------------------------------------------------------------------
(* The surroundings of the turn.                                           *)

HangUp ==
    /\ pc # "done" /\ ~gone
    /\ gone' = TRUE
    /\ UNCHANGED <<pc, stack, cand, db, reply, history>>

OthersCoolDown(a) ==
    /\ pc # "done" /\ a \in Shared /\ a \notin cooling
    /\ cooling' = cooling \cup {a}
    /\ owed' = StillOwed(parked, cooling', refusers)
    /\ UNCHANGED <<pc, stack, cand, parked, benched, gone, reply, writers, asked, refusers,
                   vetoed, entered, cutShort>>

OthersLock(a, e) ==
    /\ pc # "done" /\ a \in Shared \cap AccountsOf[e] /\ <<a, e>> \notin parked
    /\ parked' = parked \cup {<<a, e>>}
    /\ owed' = StillOwed(parked', cooling, refusers)
    /\ UNCHANGED <<pc, stack, cand, cooling, benched, gone, reply, writers, asked, refusers,
                   vetoed, entered, cutShort>>

\* The locks and the cooldown of an account end.
AccountRecovers(a) ==
    /\ pc # "done" /\ a \in cooling \cup {w[1] : w \in parked}
    /\ cooling' = cooling \ {a}
    /\ parked' = {w \in parked : w[1] # a}
    /\ UNCHANGED <<pc, stack, cand, benched, gone, reply, history>>

Ended == pc = "done" /\ UNCHANGED turn

Turn ==
    \/ StartEntry \/ SendWithoutAccount \/ GiveEntryUp \/ NodeBlocked
    \/ \E a \in Accounts : SelectAccount(a)
    \/ SkipLocked \/ SendToAccount
    \/ Served \/ Cancelled
    \/ \E o \in Answers : \E hint \in HintsOf(o) : Failed(o, hint)
    \/ LeaveEntry \/ EndPass \/ SecondPass \/ LeaveWait
    \/ TryFallbackCombo \/ FinishCombo \/ Resume

TurnNext ==
    \/ Turn
    \/ FirstBytes \/ Expire \/ HangUp
    \/ \E a \in Accounts : OthersCoolDown(a) \/ AccountRecovers(a)
    \/ \E a \in Accounts, e \in Entries : OthersLock(a, e)
    \/ Ended

TurnSpec == TurnInit /\ [][TurnNext]_turn

\* The turn's goroutine keeps running: every wait of its own is bounded, the
\* upstream's by the global deadline.
FairTurnSpec == TurnSpec /\ WF_turn(Turn)

------------------------------------------------------------------------------
LastErrors == {"none", "busy", "timeout", "guardrail", "final"}

Activations ==
    [combo : Combos, models : Seq(Entries), pass : 1 .. 2, at : Nat \ {0},
     spent : SUBSET Accounts, seen : SUBSET SUBSET Accounts, index : Nat,
     last : LastErrors, earliest : Nat, limited : BOOLEAN, late : BOOLEAN,
     visited : SUBSET Combos, next : Nat \ {0}]

Tries ==
    [tried : SUBSET Accounts, tries : 0 .. MaxTries, acct : Accounts \cup {None},
     gate : {"off", "armed", "committed", "expired"},
     last : BOOLEAN, wrote : BOOLEAN, ok : BOOLEAN]

TurnTypeOK ==
    /\ pc \in {"entry", "pick", "check", "sent", "left", "hold", "fallback", "returned", "done"}
    /\ stack \in Seq(Activations) \ {<<>>}
    /\ \A i \in DOMAIN stack : /\ stack[i].at \in 1 .. Len(stack[i].models) + 1
                               /\ stack[i].index \in 0 .. Len(stack[i].models)
    /\ cand \in Tries
    /\ parked \subseteq Accounts \X Entries /\ cooling \subseteq Accounts
    /\ benched \subseteq Timed \X Entries
    /\ gone \in BOOLEAN /\ cutShort \in BOOLEAN
    /\ reply \in {"none", "bytes", "error"} /\ writers \in 0 .. 2
    /\ asked \subseteq Nat \X Accounts /\ refusers \subseteq Accounts
    /\ vetoed \subseteq Combos /\ entered \subseteq Combos
    /\ owed \subseteq Entries \X Accounts

\* A candidate whose response timeout has fired contributes no byte to the reply,
\* and the timer never cancels a candidate whose bytes have gone out: expiry and
\* the first write are decided once, under the gate's mutex (comboResponseTimeout).
ExpiredStaysSilent == cand.gate = "expired" => ~cand.wrote

\* One client turn is answered by one candidate: no other candidate's output is
\* appended to a reply that has begun.  The loop never asks whether the reply has
\* been committed before it goes on, so that a stream that is cut off is followed
\* by the next account's.
OneCandidateAnswers == writers <= 1

\* A retryable error reaches the client only when the fallback combos of its combo
\* have all been tried: a fallback combo that fails leaves the reply to its caller.
ErrorMeansExhausted ==
    (reply = "error" /\ IsRetryable(stack[1].last)) => ToSet(Fallbacks[Root]) \subseteq entered

\* No entry is passed over: when the client is given an error that no guardrail
\* caused, every entry of the chain that had an account usable throughout the turn
\* has been sent the prompt, and a benched chain has not become an empty one.
NoEntryStarved ==
    (reply = "error" /\ stack[1].last # "guardrail" /\ ~gone) =>
        /\ stack[1].models # <<>>
        /\ \A w \in owed : w[1] \notin ToSet(stack[1].models)

\* The response timeout never makes a combo fail sooner than it would without the
\* setting (the comment at comboResponseTimeout's gate): the turn does not fail on a
\* candidate that was cut short when no later one was sent the prompt.  It does not
\* hold: the entry presumed to be the last is computed when an entry is opened, and
\* the refusals of that very entry can leave the later ones without an account.
TimeoutNeverFails == reply = "error" => ~cutShort

Sends == pc' = "sent" /\ pc # "sent"

\* An account that failed an entry without being locked is not sent the same prompt by
\* the same entry again, and one that refused the turn for its quota or its grant is not
\* dialled by the later entries of the pass, whatever has become of its cooldown.
NoResend ==
    [][Sends => /\ cand'.acct \notin refusers
                /\ cand'.acct # None => <<Frame.at, cand'.acct>> \notin asked]_turn

\* A combo whose answer the guardrail has refused sends the prompt to nobody else, unless
\* the turn comes to it again through another fallback combo: the combos that were
\* visited are remembered along the way to an activation, not across the turn.
VetoEndsCombo == [][Sends => Frame.combo \notin vetoed]_turn

\* A guardrail refusal ends the whole turn, in the words of the loop's comments: no
\* further account, entry or fallback combo is sent the prompt.
VetoEndsTurn == [][Sends => vetoed = {}]_turn

\* The walk ends (at most two passes, each entry's accounts once, and fallback combos
\* that never return to a combo they came from), and never without an answer, unless
\* the client has left: an activation that gives up hands over to its caller, and the
\* client's own combo writes the terminal error.
TurnEnds == <>(pc = "done" /\ (reply # "none" \/ gone))
==============================================================================
