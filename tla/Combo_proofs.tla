---------------------------- MODULE Combo_proofs ----------------------------
(***************************************************************************)
(* A client turn through a combo, for any combos, fallback combos, entries *)
(* and accounts and whatever other turns do meanwhile; the call ceilings   *)
(* of combos, for every set of combos, ceiling, window and number of       *)
(* goroutines; and the answers of a fusion turn, for every panel.          *)
(***************************************************************************)
EXTENDS Combo, ComboBudget, ComboFusion, Selection_proofs, FiniteSetTheorems

\* Abbreviations of the loop over the entries.
InLoop == pc \in {"entry", "pick", "check", "sent", "left"}
AtEntry == pc \in {"pick", "check", "sent", "left"}

\* No byte of a candidate is out while its timer can still fire, or once it has fired,
\* and only a combo with a response timeout has such a timer.
GateInv ==
    /\ cand.gate \in {"armed", "expired"} => ~cand.wrote
    /\ (AtEntry /\ cand.gate # "off") => Frame.combo \in Timed

PositionInv == AtEntry => Frame.at \in DOMAIN Frame.models

\* Whoever was sent the prompt at the entry is excluded from its next selection, and
\* whoever refused the pass from those of all later entries.
AskInv ==
    /\ InLoop => refusers \subseteq Frame.spent
    /\ InLoop => \A w \in asked :
          /\ w[1] <= Frame.at
          /\ w[1] = Frame.at =>
                /\ pc # "entry"
                /\ pc \in {"pick", "check"} => w[2] \in Frame.spent \cup cand.tried
                /\ pc = "sent" => w[2] \in Frame.spent \cup cand.tried \cup {cand.acct}
    /\ pc = "check" => cand.acct \in NotExcluded(Entry)

\* A vetoed activation is on its way out.
VetoInv ==
    /\ pc \in {"entry", "pick", "check", "sent", "hold"} => Frame.combo \notin vetoed
    /\ (pc = "left" /\ Frame.combo \in vetoed) =>
          Frame.last = "guardrail" /\ cand.gate # "expired"

\* The client's combo stays at the bottom, and has tried the fallback combos up to next.
FallbackInv ==
    /\ stack[1].combo = Root /\ stack[1].visited = {} /\ Root \in entered
    /\ stack[1].models # <<>>
    /\ \A j \in 1 .. Len(Fallbacks[Root]) : j < stack[1].next => Fallbacks[Root][j] \in entered
    /\ reply = "error" => pc = "done"
    /\ ErrorMeansExhausted

\* No entry has more accounts than a turn may try on it.
TriesSuffice == \A e \in Entries : Cardinality(AccountsOf[e]) <= MaxTries

\* An account that is owed a try is usable, has not refused the pass, and is not excluded.
OwedUsable ==
    \A w \in owed : /\ w[2] \in AccountsOf[w[1]] /\ Usable(w[2], w[1])
                    /\ w[2] \notin refusers
                    /\ InLoop => w[2] \notin Frame.spent

\* The entry being tried is owed nothing once it has been sent the prompt; until then each
\* selection of it that came to nothing has excluded another account.
OwedEntry ==
    /\ (pc \in {"sent", "left"} \/ (pc \in {"pick", "check"} /\ cand.tried # {})) =>
           \A w \in owed : w[1] # Entry
    /\ \A w \in owed : (pc \in {"pick", "check"} /\ w[1] = Entry) =>
           cand.tries <= Cardinality(Frame.spent \cap AccountsOf[Entry])
                         + (IF pc = "check" THEN 1 ELSE 0)

\* The client's chain is owed nothing any more, and what it is owed while it is walked.
RootCleared == \A w \in owed : w[1] \notin ToSet(stack[1].models)

OwedRoot ==
    /\ Len(stack) > 1 => RootCleared
    /\ stack[1].pass = 2 => RootCleared
    /\ (Len(stack) = 1 /\ pc = "hold") => RootCleared
    /\ (Len(stack) = 1 /\ pc \in {"fallback", "returned"}) =>
           RootCleared \/ stack[1].last = "guardrail"
    /\ (Len(stack) = 1 /\ InLoop) =>
           \A w \in owed : \A i \in 1 .. stack[1].at - 1 : w[1] # stack[1].models[i]

OwedInv == OwedUsable /\ OwedEntry /\ OwedRoot /\ NoEntryStarved

TurnInv == TurnTypeOK /\ GateInv /\ PositionInv /\ AskInv /\ VetoInv /\ FallbackInv

------------------------------------------------------------------------------
(* The stack of activations.                                               *)

\* The running activation is the last of the stack.
LEMMA FrameFacts ==
    ASSUME TurnTypeOK
    PROVE  /\ stack \in Seq(Activations) /\ Len(stack) \in Nat \ {0}
           /\ DOMAIN stack = 1 .. Len(stack)
           /\ Frame \in Activations /\ stack[1] \in Activations
           /\ Frame.models \in Seq(Entries)
           /\ Frame.at \in 1 .. Len(Frame.models) + 1
           /\ Frame.index \in 0 .. Len(Frame.models)
           /\ \A i \in 1 .. Len(stack) : /\ stack[i].at \in 1 .. Len(stack[i].models) + 1
                                         /\ stack[i].index \in 0 .. Len(stack[i].models)
           /\ Len(stack) = 1 => Frame = stack[1]
<1>1. stack \in Seq(Activations) /\ stack # <<>>
  BY DEF TurnTypeOK
<1>2. Len(stack) \in Nat \ {0} /\ DOMAIN stack = 1 .. Len(stack)
  BY <1>1
<1>3. Frame \in Activations /\ stack[1] \in Activations
  BY <1>1, <1>2 DEF Frame
<1>4. Frame.models \in Seq(Entries)
  BY <1>3 DEF Activations
<1>5. \A i \in 1 .. Len(stack) : /\ stack[i].at \in 1 .. Len(stack[i].models) + 1
                                /\ stack[i].index \in 0 .. Len(stack[i].models)
  BY <1>2 DEF TurnTypeOK
<1>6. Frame.at \in 1 .. Len(Frame.models) + 1 /\ Frame.index \in 0 .. Len(Frame.models)
  BY <1>2, <1>5 DEF Frame
<1> QED BY <1>1, <1>2, <1>3, <1>4, <1>5, <1>6 DEF Frame

\* A step that rewrites the running activation.
LEMMA Rewritten ==
    ASSUME TurnTypeOK, NEW f \in Activations, stack' = WithFrame(f),
           f.at \in 1 .. Len(f.models) + 1, f.index \in 0 .. Len(f.models)
    PROVE  /\ stack' \in Seq(Activations) \ {<<>>}
           /\ \A i \in DOMAIN stack' : /\ stack'[i].at \in 1 .. Len(stack'[i].models) + 1
                                       /\ stack'[i].index \in 0 .. Len(stack'[i].models)
           /\ Len(stack') = Len(stack) /\ Frame' = f
           /\ stack'[1] = IF Len(stack) = 1 THEN f ELSE stack[1]
<1>0. \A i \in 1 .. Len(stack) : /\ stack[i].at \in 1 .. Len(stack[i].models) + 1
                                /\ stack[i].index \in 0 .. Len(stack[i].models)
  BY FrameFacts
<1>1. stack \in Seq(Activations) /\ Len(stack) \in Nat /\ Len(stack) > 0
  BY FrameFacts
<1>2. stack' \in Seq(Activations) /\ Len(stack') = Len(stack)
  BY <1>1 DEF WithFrame
<1>3. \A i \in 1 .. Len(stack) : stack'[i] = IF i = Len(stack) THEN f ELSE stack[i]
  BY <1>1 DEF WithFrame
<1>4. Frame' = f
  BY <1>1, <1>2, <1>3 DEF Frame
<1>5. DOMAIN stack' = 1 .. Len(stack) /\ stack' # <<>>
  BY <1>1, <1>2
<1>6. ASSUME NEW i \in 1 .. Len(stack)
      PROVE  /\ stack'[i].at \in 1 .. Len(stack'[i].models) + 1
             /\ stack'[i].index \in 0 .. Len(stack'[i].models)
  <2>1. CASE i = Len(stack)
    BY <1>3, <2>1
  <2>2. CASE i # Len(stack)
    <3>1. stack'[i] = stack[i]
      BY <1>3, <2>2
    <3> QED BY <1>0, <3>1
  <2> QED BY <2>1, <2>2
<1>7. stack'[1] = IF Len(stack) = 1 THEN f ELSE stack[1]
  <2>1. 1 \in 1 .. Len(stack) /\ (1 = Len(stack) <=> Len(stack) = 1)
    BY <1>1
  <2> QED BY <1>3, <2>1, Zenon
<1> QED BY <1>2, <1>4, <1>5, <1>6, <1>7

\* A step that opens a fallback combo.
LEMMA Pushed ==
    ASSUME TurnTypeOK, NEW f \in Activations, NEW g \in Activations,
           stack' = Append(WithFrame(f), g),
           f.at \in 1 .. Len(f.models) + 1, f.index \in 0 .. Len(f.models),
           g.at \in 1 .. Len(g.models) + 1, g.index \in 0 .. Len(g.models)
    PROVE  /\ stack' \in Seq(Activations) \ {<<>>}
           /\ \A i \in DOMAIN stack' : /\ stack'[i].at \in 1 .. Len(stack'[i].models) + 1
                                       /\ stack'[i].index \in 0 .. Len(stack'[i].models)
           /\ Len(stack') = Len(stack) + 1 /\ Frame' = g
           /\ stack'[1] = IF Len(stack) = 1 THEN f ELSE stack[1]
<1>0. \A i \in 1 .. Len(stack) : /\ stack[i].at \in 1 .. Len(stack[i].models) + 1
                                /\ stack[i].index \in 0 .. Len(stack[i].models)
  BY FrameFacts
<1>1. stack \in Seq(Activations) /\ Len(stack) \in Nat /\ Len(stack) > 0
  BY FrameFacts
<1> DEFINE w == WithFrame(f)
<1>2. /\ w \in Seq(Activations) /\ Len(w) = Len(stack)
      /\ \A i \in 1 .. Len(stack) : w[i] = IF i = Len(stack) THEN f ELSE stack[i]
  BY <1>1 DEF WithFrame
<1> HIDE DEF w
<1>3. /\ stack' \in Seq(Activations) /\ Len(stack') = Len(stack) + 1
      /\ stack'[Len(stack) + 1] = g
      /\ \A i \in 1 .. Len(stack) : stack'[i] = IF i = Len(stack) THEN f ELSE stack[i]
  <2>1. stack' = Append(w, g)
    BY DEF w
  <2> QED BY <1>1, <1>2, <2>1
<1>4. Frame' = g
  BY <1>3 DEF Frame
<1>5. DOMAIN stack' = 1 .. Len(stack) + 1 /\ stack' # <<>>
  <2> DEFINE u == stack'
  <2>1. u \in Seq(Activations) /\ Len(u) = Len(stack) + 1 /\ Len(stack) \in Nat
    BY <1>1, <1>3
  <2> HIDE DEF u
  <2>2. DOMAIN u = 1 .. Len(stack) + 1 /\ u # <<>>
    BY <2>1
  <2> QED BY <2>2 DEF u
<1>6. ASSUME NEW i \in 1 .. Len(stack) + 1
      PROVE  /\ stack'[i].at \in 1 .. Len(stack'[i].models) + 1
             /\ stack'[i].index \in 0 .. Len(stack'[i].models)
  <2>1. CASE i = Len(stack) + 1
    BY <1>3, <2>1
  <2>2. CASE i = Len(stack)
    BY <1>1, <1>3, <2>2
  <2>3. CASE i \in 1 .. Len(stack) /\ i # Len(stack)
    <3>1. stack'[i] = stack[i]
      BY <1>3, <2>3
    <3> QED BY <1>0, <2>3, <3>1
  <2>4. i = Len(stack) + 1 \/ i = Len(stack) \/ (i \in 1 .. Len(stack) /\ i # Len(stack))
    BY <1>1
  <2> QED BY <2>1, <2>2, <2>3, <2>4, Zenon
<1>7. stack'[1] = IF Len(stack) = 1 THEN f ELSE stack[1]
  <2>1. 1 \in 1 .. Len(stack) /\ (1 = Len(stack) <=> Len(stack) = 1)
    BY <1>1
  <2> QED BY <1>3, <2>1, Zenon
<1> QED BY <1>3, <1>4, <1>5, <1>6, <1>7

\* A proper beginning of a sequence.
LEMMA BeginningOf ==
    ASSUME NEW S, NEW s \in Seq(S), NEW i \in 1 .. Len(s)
    PROVE  /\ SubSeq(s, 1, i - 1) \in Seq(S)
           /\ Len(SubSeq(s, 1, i - 1)) = i - 1
           /\ \A j \in 1 .. i - 1 : SubSeq(s, 1, i - 1)[j] = s[j]
OBVIOUS

\* A step that returns from the running activation.
LEMMA Returned ==
    ASSUME TurnTypeOK, Return
    PROVE  /\ stack' \in Seq(Activations) \ {<<>>}
           /\ \A i \in DOMAIN stack' : /\ stack'[i].at \in 1 .. Len(stack'[i].models) + 1
                                       /\ stack'[i].index \in 0 .. Len(stack'[i].models)
           /\ stack'[1] = stack[1]
           /\ pc' = IF Len(stack) = 1 THEN "done" ELSE "returned"
<1>0. \A i \in 1 .. Len(stack) : /\ stack[i].at \in 1 .. Len(stack[i].models) + 1
                                /\ stack[i].index \in 0 .. Len(stack[i].models)
  BY FrameFacts
<1>1. stack \in Seq(Activations) /\ Len(stack) \in Nat /\ Len(stack) > 0
  BY FrameFacts
<1>2. CASE Len(stack) = 1
  BY <1>0, <1>1, <1>2 DEF Return, TurnTypeOK
<1>3. CASE Len(stack) # 1
  <2>1. stack' = SubSeq(stack, 1, Len(stack) - 1) /\ pc' = "returned"
    BY <1>3 DEF Return, Front
  <2>2. /\ stack' \in Seq(Activations) /\ Len(stack') = Len(stack) - 1
        /\ \A i \in 1 .. Len(stack) - 1 : stack'[i] = stack[i]
    <3>1. Len(stack) \in 1 .. Len(stack)
      BY <1>1
    <3> QED BY <1>1, <2>1, <3>1, BeginningOf
  <2>3. DOMAIN stack' = 1 .. Len(stack) - 1 /\ stack' # <<>>
    BY <1>1, <1>3, <2>2
  <2> QED BY <1>0, <1>1, <1>3, <2>1, <2>2, <2>3
<1> QED BY <1>2, <1>3

------------------------------------------------------------------------------
(* What the operators return.                                              *)

\* A finite set of numbers up to n that is not empty has a largest and a least member.
LEMMA Extremes ==
    ASSUME NEW n \in Nat, NEW S \in SUBSET (0 .. n), S # {}
    PROVE  Max(S) \in S /\ Min(S) \in S /\ \A i \in S : Min(S) <= i
<1> DEFINE T == {m \in Nat : \A X \in SUBSET (0 .. m) : X # {} =>
                     /\ \E x \in X : \A y \in X : x >= y
                     /\ \E x \in X : \A y \in X : x =< y}
<1>1. 0 \in T
  <2> SUFFICES ASSUME NEW X \in SUBSET (0 .. 0), X # {}
               PROVE  /\ \E x \in X : \A y \in X : x >= y
                      /\ \E x \in X : \A y \in X : x =< y
    OBVIOUS
  <2>1. \A x \in X : x = 0
    OBVIOUS
  <2>2. 0 \in X
    BY <2>1, Zenon
  <2>3. \A x \in X : 0 >= x /\ 0 =< x
    BY <2>1
  <2> QED BY <2>2, <2>3
<1>2. ASSUME NEW m \in T PROVE m + 1 \in T
  <2> SUFFICES ASSUME NEW X \in SUBSET (0 .. m + 1), X # {}
               PROVE  /\ \E x \in X : \A y \in X : x >= y
                      /\ \E x \in X : \A y \in X : x =< y
    OBVIOUS
  <2>1. m \in Nat
    OBVIOUS
  <2> DEFINE Y == X \ {m + 1}
  <2>2. Y \in SUBSET (0 .. m)
    BY <2>1
  <2>3. CASE Y = {}
    BY <2>1, <2>3
  <2>4. CASE Y # {}
    <3>1. /\ \E x \in Y : \A y \in Y : x >= y
          /\ \E x \in Y : \A y \in Y : x =< y
      BY <2>2, <2>4
    <3>2. PICK l \in Y : \A y \in Y : l =< y
      BY <3>1
    <3>3. PICK h \in Y : \A y \in Y : h >= y
      BY <3>1
    <3>4. \A y \in X : l =< y
      BY <2>1, <2>2, <3>2
    <3>5. CASE m + 1 \in X
      BY <2>1, <3>4, <3>5
    <3>6. CASE m + 1 \notin X
      <4>1. X = Y
        BY <3>6
      <4> QED BY <3>1, <4>1, Zenon
    <3> QED BY <3>5, <3>6
  <2> QED BY <2>3, <2>4
<1> HIDE DEF T
<1>3. T = Nat
  <2>1. T \in SUBSET Nat
    BY DEF T
  <2> QED BY <1>1, <1>2, <2>1, SetInduction
<1>4. /\ \E x \in S : \A y \in S : x >= y
      /\ \E x \in S : \A y \in S : x =< y
  BY <1>3 DEF T
<1> QED BY <1>4 DEF Max, Min

\* The chain of a combo, in the order its strategy computes, is not empty.
LEMMA OrdersFacts ==
    ASSUME NEW c \in Combos, NEW order \in Orders(c)
    PROVE  order \in Seq(Entries) /\ order # <<>>
<1> DEFINE m == ModelsOf[c]
<1>1. m \in Seq(Entries) /\ m # <<>>
  BY ComboConstants
<1>2. CASE c \notin Ranked
  BY <1>1, <1>2 DEF Orders
<1>3. CASE c \in Ranked
  <2>1. ToSet(m) \subseteq Entries /\ ToSet(m) # {}
    BY <1>1, EmptyToSet
  <2>2. IsFiniteSet(ToSet(m))
    <3>1. m \in Seq(ToSet(m)) /\ DOMAIN m = 1 .. Len(m)
      BY <1>1 DEF ToSet
    <3> QED BY <3>1 DEF ToSet, IsFiniteSet
  <2>3. Cardinality(ToSet(m)) \in Nat /\ Cardinality(ToSet(m)) # 0
    BY <2>1, <2>2, FS_CardinalityType, FS_EmptySet
  <2>4. order \in [1 .. Cardinality(ToSet(m)) -> ToSet(m)]
    BY <1>3 DEF Orders, SetToSeqs
  <2> QED BY <2>1, <2>3, <2>4
<1> QED BY <1>2, <1>3

\* A new activation is well formed and stands at its first entry.
LEMMA ActivationFacts ==
    ASSUME NEW c \in Combos, NEW order \in Orders(c), NEW visited \in SUBSET Combos
    PROVE  /\ Activation(c, order, visited) \in Activations
           /\ Activation(c, order, visited).models # <<>>
<1>1. order \in Seq(Entries) /\ order # <<>>
  BY OrdersFacts
<1>2. Keep(order, {e \in Entries : <<c, e>> \notin benched}) \in Seq(Entries)
  BY <1>1, KeepProperties
<1>3. WithoutBenched(c, order) \in Seq(Entries) /\ WithoutBenched(c, order) # <<>>
  BY <1>1, <1>2 DEF WithoutBenched
<1> QED BY <1>3 DEF Activation, Activations, LastErrors

\* The accounts that may be selected are accounts.
LEMMA EntryFacts ==
    ASSUME TurnTypeOK, Frame.at \in DOMAIN Frame.models
    PROVE  /\ Entry \in Entries
           /\ AccountsOf[Entry] \subseteq Accounts
           /\ Selectable(Entry) \subseteq NotExcluded(Entry)
           /\ NotExcluded(Entry) \subseteq AccountsOf[Entry]
<1>1. Entry \in Entries
  BY FrameFacts DEF Entry
<1>2. AccountsOf[Entry] \subseteq Accounts
  BY <1>1 DEF Accounts
<1>3. Selectable(Entry) \subseteq NotExcluded(Entry)
  BY DEF Selectable
<1>4. NotExcluded(Entry) \subseteq AccountsOf[Entry]
  BY DEF NotExcluded
<1> QED BY <1>1, <1>2, <1>3, <1>4

\* The entry presumed to be the last is one of the chain, or none.
LEMMA LastTriedFacts ==
    ASSUME TurnTypeOK
    PROVE  LastTried(Frame) \in 0 .. Len(Frame.models)
<1> DEFINE S == {i \in DOMAIN Frame.models : Sendable(Frame.models[i], Frame.spent)} \cup {0}
<1>1. Len(Frame.models) \in Nat /\ DOMAIN Frame.models = 1 .. Len(Frame.models)
  BY FrameFacts
<1>2. S \in SUBSET (0 .. Len(Frame.models)) /\ S # {}
  BY <1>1
<1>3. Max(S) \in 0 .. Len(Frame.models)
  <2> HIDE DEF S
  <2> QED BY <1>1, <1>2, Extremes
<1> QED BY <1>3, FrameFacts DEF LastTried

\* What is said of the client's combo survives a step that keeps it, or that only moves
\* the client's activation along its chain.
LEMMA BottomKept ==
    ASSUME TurnInv, pc # "done", entered' = entered, reply' \in {reply, "bytes"},
           stack'[1].combo = stack[1].combo, stack'[1].visited = stack[1].visited,
           stack'[1].models = stack[1].models, stack'[1].next = stack[1].next
    PROVE  FallbackInv'
<1>1. reply' # "error"
  BY DEF TurnInv, FallbackInv
<1>2. \A j \in 1 .. Len(Fallbacks[Root]) : j < stack'[1].next => Fallbacks[Root][j] \in entered'
  BY DEF TurnInv, FallbackInv
<1> QED BY <1>1, <1>2 DEF TurnInv, FallbackInv, ErrorMeansExhausted

------------------------------------------------------------------------------
(* The steps of the loop and of its surroundings keep the invariant.       *)

\* What surrounds the turn, and the candidate's bytes and timer, leave it where it is.
LEMMA QuietStep ==
    ASSUME TurnInv,
           \/ FirstBytes \/ Expire \/ HangUp
           \/ \E a \in Accounts : OthersCoolDown(a) \/ AccountRecovers(a)
           \/ \E a \in Accounts, e \in Entries : OthersLock(a, e)
    PROVE  TurnInv'
<1> USE DEF TurnInv
<1>1. /\ UNCHANGED <<pc, stack, benched, asked, refusers, vetoed, entered>> /\ pc # "done"
      /\ reply' \in {reply, "bytes"}
  BY DEF FirstBytes, Expire, HangUp, OthersCoolDown, AccountRecovers, OthersLock, history, db
<1>3. Frame' = Frame /\ Entry' = Entry
  BY <1>1 DEF Frame, Entry
<1>2. /\ cand' \in Tries /\ cand'.acct = cand.acct /\ cand'.tried = cand.tried
      /\ GateInv'
      /\ (pc = "left" /\ cand.gate # "expired") => cand'.gate # "expired"
  <2>1. cand \in Tries
    BY DEF TurnTypeOK
  <2>2. CASE FirstBytes
    BY <1>1, <1>3, <2>1, <2>2 DEF FirstBytes, Commits, Tries, GateInv, AtEntry
  <2>3. CASE Expire
    BY <1>1, <1>3, <2>1, <2>3 DEF Expire, Expires, Tries, GateInv, AtEntry
  <2>4. CASE UNCHANGED cand
    BY <1>1, <1>3, <2>1, <2>4 DEF GateInv, AtEntry
  <2> QED BY <2>2, <2>3, <2>4 DEF HangUp, OthersCoolDown, AccountRecovers, OthersLock, history
<1>4. /\ parked' \subseteq Accounts \X Entries /\ cooling' \subseteq Accounts
      /\ gone' \in BOOLEAN /\ cutShort' \in BOOLEAN /\ writers' \in 0 .. 2
      /\ owed' \subseteq Entries \X Accounts
  <2>1. CASE \E a \in Accounts, e \in Entries : OthersLock(a, e)
    BY <2>1 DEF TurnTypeOK, OthersLock, StillOwed
  <2>2. CASE \E a \in Accounts : OthersCoolDown(a) \/ AccountRecovers(a)
    BY <2>2 DEF TurnTypeOK, OthersCoolDown, AccountRecovers, StillOwed, history
  <2>3. CASE FirstBytes \/ Expire \/ HangUp
    <3>1. UNCHANGED <<parked, cooling, owed>>
      BY <2>3 DEF FirstBytes, Expire, HangUp, history, db
    <3>2. gone' \in BOOLEAN
      BY <2>3 DEF TurnTypeOK, FirstBytes, Expire, HangUp
    <3>3. cutShort' \in BOOLEAN
      BY <2>3 DEF TurnTypeOK, FirstBytes, Expire, HangUp, history
    <3>4. writers' \in 0 .. 2
      BY <2>3 DEF TurnTypeOK, FirstBytes, Expire, HangUp, history
    <3> QED BY <3>1, <3>2, <3>3, <3>4 DEF TurnTypeOK
  <2> QED BY <2>1, <2>2, <2>3
<1>5. TurnTypeOK'
  BY <1>1, <1>2, <1>4 DEF TurnTypeOK
<1>6. PositionInv'
  BY <1>1, <1>3 DEF PositionInv, AtEntry
<1>7. AskInv'
  BY <1>1, <1>2, <1>3 DEF AskInv, InLoop, NotExcluded
<1>8. VetoInv'
  BY <1>1, <1>2, <1>3 DEF VetoInv
<1>9. FallbackInv'
  BY <1>1, BottomKept
<1> QED BY <1>2, <1>5, <1>6, <1>7, <1>8, <1>9

\* The loop opens an entry, or passes it over because its provider is locked.
LEMMA StartEntryStep ==
    ASSUME TurnInv, StartEntry
    PROVE  TurnInv'
<1> USE DEF TurnInv
<1> DEFINE f == [Frame EXCEPT !.seen = {Frame.spent}, !.index = LastTried(Frame)]
           g == [f EXCEPT !.at = @ + 1, !.last = IF @ = "none" THEN "busy" ELSE @]
<1>1. /\ UNCHANGED <<db, gone, reply, history>> /\ pc = "entry"
      /\ Frame.at \in Nat /\ Frame.at \in DOMAIN Frame.models
      /\ Frame.models \in Seq(Entries) /\ Frame \in Activations
      /\ LastTried(Frame) \in 0 .. Len(Frame.models)
  BY FrameFacts, LastTriedFacts DEF StartEntry
<1>2. /\ f \in Activations /\ f.models = Frame.models /\ f.at = Frame.at /\ f.combo = Frame.combo
      /\ f.index = LastTried(Frame) /\ f.spent = Frame.spent /\ f.visited = Frame.visited
      /\ f.next = Frame.next
  <2>1. LastTried(Frame) \in Nat /\ {Frame.spent} \in SUBSET SUBSET Accounts
    BY <1>1 DEF Activations
  <2> HIDE DEF TurnInv
  <2> QED BY <1>1, <2>1 DEF Activations
<1>3. /\ g \in Activations /\ g.models = Frame.models /\ g.at = Frame.at + 1
      /\ g.combo = Frame.combo /\ g.index = LastTried(Frame) /\ g.spent = Frame.spent
      /\ g.visited = Frame.visited /\ g.next = Frame.next
  <2> DEFINE last == IF Frame.last = "none" THEN "busy" ELSE Frame.last
  <2>1. last \in LastErrors /\ f.last = Frame.last
    BY <1>1 DEF Activations, LastErrors
  <2>2. g = [f EXCEPT !.at = Frame.at + 1, !.last = last] /\ Frame.at + 1 \in Nat \ {0}
    BY <1>1, <1>2, <2>1
  <2> HIDE DEF f, g, last, TurnInv
  <2> QED BY <1>2, <2>1, <2>2 DEF Activations
<1>4. \/ Unavailable(Entry) /\ SkipEntry(f)
      \/ ~Unavailable(Entry) /\ OpenEntry(f, f.at = LastTried(Frame))
  BY DEF StartEntry
<1> HIDE DEF f, g
<1>5. CASE SkipEntry(f)
  <2>1. stack' = WithFrame(g) /\ UNCHANGED <<pc, cand>>
    BY <1>5 DEF SkipEntry, g
  <2>2. /\ stack' \in Seq(Activations) \ {<<>>} /\ Frame' = g
        /\ \A i \in DOMAIN stack' : /\ stack'[i].at \in 1 .. Len(stack'[i].models) + 1
                                    /\ stack'[i].index \in 0 .. Len(stack'[i].models)
        /\ stack'[1] = IF Len(stack) = 1 THEN g ELSE stack[1]
    BY <1>1, <1>3, <2>1, Rewritten
  <2>3. TurnTypeOK' /\ GateInv' /\ PositionInv'
    BY <1>1, <2>1, <2>2 DEF TurnTypeOK, GateInv, PositionInv, AtEntry, db, history
  <2>4. AskInv'
    BY <1>1, <1>3, <2>1, <2>2 DEF AskInv, InLoop, history, TurnTypeOK
  <2>5. VetoInv'
    BY <1>1, <1>3, <2>1, <2>2 DEF VetoInv, history
  <2>6. FallbackInv'
    BY <1>1, <1>3, <2>2, BottomKept, FrameFacts DEF history
  <2> QED BY <2>3, <2>4, <2>5, <2>6
<1>6. CASE OpenEntry(f, f.at = LastTried(Frame))
  <2>1. /\ stack' = WithFrame(f) /\ pc' = "pick" /\ cand' \in Tries
        /\ cand'.wrote = FALSE /\ cand'.tried = {}
        /\ cand'.gate # "off" => f.combo \in Timed
    <3>1. AtRest \in Tries /\ AtRest.wrote = FALSE /\ AtRest.tried = {}
      BY ComboConstants DEF AtRest, Tries
    <3>2. cand' = [AtRest EXCEPT !.last = (f.at = LastTried(Frame)), !.gate = cand'.gate]
          /\ cand'.gate \in {"armed", "off"} /\ (cand'.gate = "armed" => f.combo \in Timed)
      BY <1>6, <3>1 DEF OpenEntry, Tries
    <3> QED BY <1>6, <3>1, <3>2 DEF OpenEntry, Tries
  <2>2. /\ stack' \in Seq(Activations) \ {<<>>} /\ Frame' = f
        /\ \A i \in DOMAIN stack' : /\ stack'[i].at \in 1 .. Len(stack'[i].models) + 1
                                    /\ stack'[i].index \in 0 .. Len(stack'[i].models)
        /\ stack'[1] = IF Len(stack) = 1 THEN f ELSE stack[1]
    BY <1>1, <1>2, <2>1, Rewritten
  <2>3. TurnTypeOK' /\ GateInv' /\ PositionInv'
    BY <1>1, <1>2, <2>1, <2>2 DEF TurnTypeOK, GateInv, PositionInv, AtEntry, db, history
  <2>4. AskInv'
    BY <1>1, <1>2, <2>1, <2>2 DEF AskInv, InLoop, history, TurnTypeOK
  <2>5. VetoInv'
    BY <1>1, <1>2, <2>1, <2>2 DEF VetoInv, history
  <2>6. FallbackInv'
    BY <1>1, <1>2, <2>2, BottomKept, FrameFacts DEF history
  <2> QED BY <2>3, <2>4, <2>5, <2>6
<1> QED BY <1>4, <1>5, <1>6

\* The prompt goes to an account, or to a provider that needs none.
LEMMA SendStep ==
    ASSUME TurnInv, SendWithoutAccount \/ SendToAccount
    PROVE  TurnInv'
<1> USE DEF TurnInv
<1>1. PICK a \in Accounts \cup {None} : /\ Send(a) /\ pc \in {"pick", "check"}
                                         /\ (a \in NotExcluded(Entry) \/ a = None)
  BY DEF SendWithoutAccount, SendToAccount, AskInv, TurnTypeOK, Tries
<1>2. /\ UNCHANGED <<stack, db, gone, reply, refusers, vetoed, entered, writers>> /\ pc' = "sent"
      /\ cand' \in Tries /\ cand'.wrote = FALSE /\ cand'.acct = a /\ cand'.tried = cand.tried
      /\ cand'.gate = cand.gate
      /\ asked' = IF a = None THEN asked ELSE asked \cup {<<Frame.at, a>>}
      /\ owed' \subseteq Entries \X Accounts /\ cutShort' \in BOOLEAN
  BY <1>1 DEF Send, TurnTypeOK, Tries
<1>3. Frame' = Frame /\ Frame.at \in Nat
  BY <1>2, FrameFacts DEF Frame
<1>4. TurnTypeOK'
  <2>1. asked' \subseteq Nat \X Accounts
    BY <1>2, <1>3 DEF TurnTypeOK
  <2> QED BY <1>2, <2>1 DEF TurnTypeOK, db
<1>5. GateInv' /\ PositionInv'
  BY <1>1, <1>2, <1>3 DEF GateInv, PositionInv, AtEntry
<1>6. AskInv'
  <2>1. \A w \in asked' : w \in asked \/ w = <<Frame.at, a>>
    BY <1>2
  <2>2. \A w \in asked : /\ w[1] <= Frame.at
                         /\ w[1] = Frame.at => w[2] \in Frame.spent \cup cand.tried
    BY <1>1 DEF AskInv, InLoop
  <2>3. refusers \subseteq Frame.spent
    BY <1>1 DEF AskInv, InLoop
  <2> QED BY <1>2, <1>3, <2>1, <2>2, <2>3 DEF AskInv, InLoop
<1>7. VetoInv'
  BY <1>1, <1>2, <1>3 DEF VetoInv
<1>8. FallbackInv'
  BY <1>1, <1>2, BottomKept
<1> QED BY <1>4, <1>5, <1>6, <1>7, <1>8

\* An account is selected, or none is left to select.
LEMMA SelectStep ==
    ASSUME TurnInv, GiveEntryUp \/ \E a \in Accounts : SelectAccount(a)
    PROVE  TurnInv'
<1> USE DEF TurnInv
<1>1. /\ UNCHANGED <<stack, db, gone, reply, history>> /\ pc = "pick" /\ pc' \in {"left", "check"}
      /\ cand' \in Tries /\ cand'.tried = cand.tried /\ cand'.gate = cand.gate
      /\ cand'.wrote = cand.wrote /\ cand'.acct \in Accounts \cup {None}
  <2>1. CASE GiveEntryUp
    BY <2>1 DEF GiveEntryUp, TurnTypeOK, Tries
  <2>2. ASSUME NEW a \in Accounts, SelectAccount(a)
        PROVE  /\ UNCHANGED <<stack, db, gone, reply, history>> /\ pc = "pick" /\ pc' = "check"
               /\ cand' = [cand EXCEPT !.acct = a, !.tries = cand.tries + 1]
               /\ cand.tries + 1 \in 0 .. MaxTries /\ cand \in Tries
    <3>1. cand \in Tries /\ cand.tries \in 0 .. MaxTries /\ MaxTries \in Nat
      BY ComboConstants DEF TurnTypeOK, Tries
    <3>2. /\ UNCHANGED <<stack, db, gone, reply, history>> /\ pc = "pick" /\ pc' = "check"
          /\ cand' = [cand EXCEPT !.acct = a, !.tries = cand.tries + 1]
          /\ cand.tries < MaxTries
      BY <2>2, <3>1 DEF SelectAccount, Tries
    <3> QED BY <3>1, <3>2
  <2>3. ASSUME NEW a \in Accounts, SelectAccount(a)
        PROVE  /\ cand' \in Tries /\ cand'.tried = cand.tried /\ cand'.gate = cand.gate
               /\ cand'.wrote = cand.wrote /\ cand'.acct = a
    <3> HIDE DEF TurnInv
    <3> QED BY <2>2, <2>3 DEF Tries
  <2> QED BY <2>1, <2>2, <2>3
<1>2. Frame' = Frame /\ Entry' = Entry
  BY <1>1 DEF Frame, Entry
<1>3. pc' = "check" => cand'.acct \in NotExcluded(Entry)
  BY DEF GiveEntryUp, SelectAccount, TurnTypeOK, Tries, Selectable
<1>4. TurnTypeOK'
  BY <1>1 DEF TurnTypeOK, db, history
<1>5. GateInv' /\ PositionInv'
  BY <1>1, <1>2 DEF GateInv, PositionInv, AtEntry
<1>6. AskInv'
  BY <1>1, <1>2, <1>3 DEF AskInv, InLoop, NotExcluded, history
<1>7. VetoInv'
  BY <1>1, <1>2 DEF VetoInv, history
<1>8. FallbackInv'
  BY <1>1, BottomKept DEF history
<1> QED BY <1>4, <1>5, <1>6, <1>7, <1>8

\* A step that does not touch the running activation rewrites it as it was.
LEMMA SameFrame ==
    ASSUME TurnTypeOK
    PROVE  WithFrame(Frame) = stack
<1>1. stack \in Seq(Activations)
  BY FrameFacts
<1> QED BY <1>1 DEF WithFrame, Frame

\* A step inside an entry that takes back no exclusion and excludes whoever was asked.
LEMMA EntryStep ==
    ASSUME TurnInv, AtEntry, pc' \in {"pick", "left"}, pc = "left" => pc' = "left",
           NEW f \in Activations, stack' = WithFrame(f),
           f.combo = Frame.combo, f.models = Frame.models, f.visited = Frame.visited,
           f.next = Frame.next, f.index = Frame.index, f.at = Frame.at,
           Frame.spent \subseteq f.spent, refusers' \subseteq f.spent,
           cand' \in Tries, cand'.gate = cand.gate, cand'.wrote = cand.wrote,
           cand.tried \subseteq cand'.tried,
           (pc = "sent" /\ pc' = "pick") => cand.acct \in f.spent \cup cand'.tried,
           parked' \subseteq Accounts \X Entries, cooling' \subseteq Accounts,
           owed' \subseteq Entries \X Accounts, vetoed' \subseteq Combos,
           (pc' = "pick" => vetoed' = vetoed),
           vetoed' = vetoed \/ vetoed' = vetoed \cup {Frame.combo},
           Frame.combo \in vetoed' => f.last = "guardrail" /\ cand'.gate # "expired",
           UNCHANGED <<benched, gone, reply, writers, asked, entered, cutShort>>
    PROVE  TurnInv'
<1> USE DEF TurnInv
<1>1. Frame.at \in 1 .. Len(f.models) + 1 /\ Frame.index \in 0 .. Len(f.models)
  BY FrameFacts
<1>2. /\ stack' \in Seq(Activations) \ {<<>>} /\ Frame' = f
      /\ \A i \in DOMAIN stack' : /\ stack'[i].at \in 1 .. Len(stack'[i].models) + 1
                                  /\ stack'[i].index \in 0 .. Len(stack'[i].models)
      /\ stack'[1] = IF Len(stack) = 1 THEN f ELSE stack[1]
  BY <1>1, Rewritten
<1>3. f.spent \subseteq Accounts
  BY DEF Activations
<1>4. refusers' \subseteq Accounts
  BY <1>3
<1>5. TurnTypeOK'
  BY <1>2, <1>4 DEF TurnTypeOK
<1>6. GateInv' /\ PositionInv'
  BY <1>2 DEF GateInv, PositionInv, AtEntry
<1>7. AskInv'
  <2>1. pc \in {"pick", "check", "sent", "left"} /\ InLoop
    BY DEF AtEntry, InLoop
  <2>2. \A w \in asked : w[1] <= Frame.at
    BY <2>1 DEF AskInv
  <2>3. pc' = "pick" => \A w \in asked : w[1] = Frame.at => w[2] \in f.spent \cup cand'.tried
    BY <2>1 DEF AskInv
  <2> QED BY <1>2, <2>2, <2>3 DEF AskInv, InLoop
<1>8. VetoInv'
  BY <1>2 DEF VetoInv, AtEntry
<1>9. FallbackInv'
  BY <1>2, BottomKept, FrameFacts DEF AtEntry
<1> QED BY <1>5, <1>6, <1>7, <1>8, <1>9

\* An activation with another outcome and more exclusions.
LEMMA Amended ==
    ASSUME NEW g \in Activations, NEW o \in LastErrors, NEW S \in SUBSET Accounts,
           NEW f, f = [g EXCEPT !.last = o, !.spent = S]
    PROVE  /\ f \in Activations /\ f.last = o /\ f.spent = S
           /\ f.combo = g.combo /\ f.models = g.models /\ f.visited = g.visited
           /\ f.next = g.next /\ f.index = g.index /\ f.at = g.at
BY DEF Activations

\* A node whose contract has ended, and an account that another turn has locked since it
\* was selected, are left without a send.
LEMMA PassedOverStep ==
    ASSUME TurnInv, NodeBlocked \/ SkipLocked
    PROVE  TurnInv'
<1> USE DEF TurnInv
<1>1. Frame \in Activations /\ Frame.at \in DOMAIN Frame.models
  BY FrameFacts DEF NodeBlocked, SkipLocked, PositionInv, AtEntry
<1>2. CASE NodeBlocked
  <2> DEFINE f == [Frame EXCEPT !.last = "final"]
  <2>1. f = [Frame EXCEPT !.last = "final", !.spent = Frame.spent]
    BY <1>1 DEF Activations
  <2>2. /\ f \in Activations /\ f.last = "final" /\ f.spent = Frame.spent
        /\ f.combo = Frame.combo /\ f.models = Frame.models /\ f.visited = Frame.visited
        /\ f.next = Frame.next /\ f.index = Frame.index /\ f.at = Frame.at
    <3> HIDE DEF f
    <3> QED BY <1>1, <2>1, Amended DEF LastErrors, Activations
  <2>3. stack' = WithFrame(f)
    BY <1>2 DEF NodeBlocked
  <2> HIDE DEF f
  <2> QED BY <1>2, <2>2, <2>3, EntryStep DEF NodeBlocked, AtEntry, AskInv, InLoop, VetoInv, TurnTypeOK, db
<1>3. CASE SkipLocked
  <2> DEFINE f == [Frame EXCEPT !.spent = @ \cup {cand.acct}]
  <2>1. cand.acct \in Accounts /\ Frame.spent \subseteq Accounts /\ Frame.last \in LastErrors
    BY <1>1, <1>3, EntryFacts DEF SkipLocked, AskInv, Activations
  <2>2. f = [Frame EXCEPT !.last = Frame.last, !.spent = Frame.spent \cup {cand.acct}]
    BY <1>1 DEF Activations
  <2>3. /\ f \in Activations /\ f.last = Frame.last /\ f.spent = Frame.spent \cup {cand.acct}
        /\ f.combo = Frame.combo /\ f.models = Frame.models /\ f.visited = Frame.visited
        /\ f.next = Frame.next /\ f.index = Frame.index /\ f.at = Frame.at
    <3> DEFINE S == Frame.spent \cup {cand.acct}
               o == Frame.last
    <3>1. S \in SUBSET Accounts /\ o \in LastErrors /\ f = [Frame EXCEPT !.last = o, !.spent = S]
      BY <2>1, <2>2
    <3>2. /\ f \in Activations /\ f.last = o /\ f.spent = S
          /\ f.combo = Frame.combo /\ f.models = Frame.models /\ f.visited = Frame.visited
          /\ f.next = Frame.next /\ f.index = Frame.index /\ f.at = Frame.at
      <4> HIDE DEF f, TurnInv, S, o
      <4> QED BY <1>1, <3>1, Amended DEF Activations
    <3> QED BY <3>2
  <2>4. stack' = WithFrame(f)
    BY <1>3 DEF SkipLocked
  <2> HIDE DEF f
  <2> QED BY <1>3, <2>3, <2>4, EntryStep DEF SkipLocked, AtEntry, AskInv, InLoop, VetoInv, TurnTypeOK, db
<1> QED BY <1>2, <1>3

\* The answer was served, or the attempt was cancelled.
LEMMA AnsweredStep ==
    ASSUME TurnInv, Served \/ Cancelled
    PROVE  TurnInv'
<1> USE DEF TurnInv
<1>1. Frame \in Activations /\ pc = "sent" /\ pc' = "left"
  BY FrameFacts DEF Served, Cancelled
<1>2. PICK o \in LastErrors : stack' = WithFrame([Frame EXCEPT !.last = o])
  <2>1. CASE stack' = stack
    <3>1. [Frame EXCEPT !.last = Frame.last] = Frame
      BY <1>1 DEF Activations
    <3>2. stack' = WithFrame([Frame EXCEPT !.last = Frame.last])
      BY <2>1, <3>1, SameFrame
    <3> QED BY <1>1, <3>2 DEF Activations
  <2>2. CASE stack' # stack
    BY <2>2 DEF Served, Cancelled, LastErrors
  <2> QED BY <2>1, <2>2
<1> DEFINE f == [Frame EXCEPT !.last = o]
<1>3. f = [Frame EXCEPT !.last = o, !.spent = Frame.spent]
  BY <1>1 DEF Activations
<1>4. /\ f \in Activations /\ f.last = o /\ f.spent = Frame.spent
      /\ f.combo = Frame.combo /\ f.models = Frame.models /\ f.visited = Frame.visited
      /\ f.next = Frame.next /\ f.index = Frame.index /\ f.at = Frame.at
  <2> HIDE DEF f
  <2> QED BY <1>1, <1>3, Amended DEF Activations
<1>5. /\ cand' \in Tries /\ cand'.gate = cand.gate /\ cand'.wrote = cand.wrote
      /\ cand'.tried = cand.tried
  BY DEF Served, Cancelled, TurnTypeOK, Tries
<1>6. UNCHANGED <<db, gone, reply, history>>
  BY DEF Served, Cancelled
<1>7. refusers \subseteq Frame.spent /\ Frame.combo \notin vetoed
  BY <1>1 DEF AskInv, InLoop, VetoInv
<1> HIDE DEF f
<1> QED BY <1>1, <1>2, <1>4, <1>5, <1>6, <1>7, EntryStep DEF AtEntry, TurnTypeOK, db, history, f

\* What a failed attempt leaves in its activation.
LEMMA Noted ==
    ASSUME NEW g \in Activations, NEW hint \in Nat, NEW limited \in BOOLEAN
    PROVE  LET f == Note(g, hint, limited)
           IN  /\ f \in Activations /\ f.last = g.last /\ f.spent = g.spent
               /\ f.combo = g.combo /\ f.models = g.models /\ f.visited = g.visited
               /\ f.next = g.next /\ f.index = g.index /\ f.at = g.at
<1>1. g.earliest \in Nat /\ g.limited \in BOOLEAN
  BY DEF Activations
<1> DEFINE e == IF hint > 0 /\ (g.earliest = 0 \/ hint < g.earliest) THEN hint ELSE g.earliest
           l == g.limited \/ limited
<1>2. Note(g, hint, limited) = [g EXCEPT !.limited = l, !.earliest = e]
  BY <1>1 DEF Note, Activations
<1>3. e \in Nat /\ l \in BOOLEAN
  BY <1>1
<1> HIDE DEF e, l
<1> QED BY <1>2, <1>3 DEF Activations

\* The attempt failed: the account is excluded from the entry, and if it refused for its
\* quota or its grant from the whole pass.
LEMMA FailedStep ==
    ASSUME TurnInv, NEW o \in Answers, NEW hint \in HintsOf(o), Failed(o, hint)
    PROVE  TurnInv'
<1> USE DEF TurnInv
<1> DEFINE acct == cand.acct
           S == IF Excludes(o) /\ acct # None THEN Frame.spent \cup {acct} ELSE Frame.spent
           g == [Frame EXCEPT !.last = Class(o), !.spent = S]
           limited == o \in {"quota", "modelQuota", "freeTier"}
           f == Note(g, hint, limited)
<1>1. /\ Frame \in Activations /\ pc = "sent" /\ acct \in Accounts \cup {None} /\ cand \in Tries
      /\ Entry \in Entries /\ hint \in Nat /\ o \in Failures /\ Class(o) \in LastErrors
  <2>1. Frame.at \in DOMAIN Frame.models
    BY DEF Failed, PositionInv, AtEntry
  <2>2. hint \in Nat
    <3>1. Hints \subseteq Nat
      BY ComboConstants
    <3> QED BY <3>1 DEF HintsOf
  <2>3. o \in Failures /\ Class(o) \in LastErrors
    BY ComboConstants DEF Failures, Class, LastErrors
  <2> QED BY <2>1, <2>2, <2>3, FrameFacts, EntryFacts DEF Failed, TurnTypeOK, Tries
<1>2. S \in SUBSET Accounts /\ Frame.spent \subseteq S
  BY <1>1 DEF Activations
<1>3. stack' = WithFrame(f)
  <2>1. [Frame EXCEPT !.last = Class(o),
                      !.spent = IF Excludes(o) /\ acct # None THEN @ \cup {acct} ELSE @] = g
    BY <1>1 DEF Activations
  <2> QED BY <2>1 DEF Failed
<1>4. /\ f \in Activations /\ f.last = Class(o) /\ f.spent = S
      /\ f.combo = Frame.combo /\ f.models = Frame.models /\ f.visited = Frame.visited
      /\ f.next = Frame.next /\ f.index = Frame.index /\ f.at = Frame.at
  <2>1. /\ g \in Activations /\ g.last = Class(o) /\ g.spent = S
        /\ g.combo = Frame.combo /\ g.models = Frame.models /\ g.visited = Frame.visited
        /\ g.next = Frame.next /\ g.index = Frame.index /\ g.at = Frame.at
    <3> DEFINE c == Class(o)
    <3>1. c \in LastErrors /\ g = [Frame EXCEPT !.last = c, !.spent = S]
      BY <1>1
    <3> HIDE DEF S, TurnInv, c, g
    <3>2. /\ g \in Activations /\ g.last = c /\ g.spent = S
          /\ g.combo = Frame.combo /\ g.models = Frame.models /\ g.visited = Frame.visited
          /\ g.next = Frame.next /\ g.index = Frame.index /\ g.at = Frame.at
      BY <1>1, <1>2, <3>1, Amended DEF Activations
    <3> QED BY <3>2 DEF c
  <2>2. limited \in BOOLEAN
    OBVIOUS
  <2> HIDE DEF g, S, limited, TurnInv
  <2> QED BY <1>1, <2>1, <2>2, Noted
<1>5. /\ cand' \in Tries /\ cand'.gate = cand.gate /\ cand'.wrote = cand.wrote
      /\ cand'.tried = IF acct = None THEN cand.tried ELSE cand.tried \cup {acct}
  <2> DEFINE T == IF acct = None THEN cand.tried ELSE cand.tried \cup {acct}
  <2>1. cand' = [cand EXCEPT !.tried = T] /\ T \in SUBSET Accounts
    BY <1>1 DEF Failed, Tries
  <2> HIDE DEF T, TurnInv
  <2>2. /\ cand' \in Tries /\ cand'.gate = cand.gate /\ cand'.wrote = cand.wrote
        /\ cand'.tried = T
    BY <1>1, <2>1 DEF Tries
  <2> QED BY <2>2 DEF T
<1>6. /\ parked' \subseteq Accounts \X Entries /\ cooling' \subseteq Accounts
      /\ owed' \subseteq Entries \X Accounts
  BY <1>1 DEF Failed, TurnTypeOK, StillOwed
<1>7. /\ vetoed' = IF o = "guardrail" THEN vetoed \cup {Frame.combo} ELSE vetoed
      /\ pc' = IF Leaves(o) \/ acct = None THEN "left" ELSE "pick"
      /\ refusers' = IF acct # None /\ (LocksModel(o) \/ o = "freeTier")
                     THEN refusers \cup {acct} ELSE refusers
      /\ UNCHANGED <<benched, gone, reply, writers, asked, entered, cutShort>>
      /\ cand.gate # "expired"
  BY DEF Failed
<1>8. refusers \subseteq Frame.spent /\ Frame.combo \notin vetoed /\ Frame.combo \in Combos
  BY <1>1 DEF AskInv, InLoop, VetoInv, Activations
<1>9. refusers' \subseteq S
  BY <1>2, <1>7, <1>8 DEF Excludes
<1>10. o = "guardrail" => Leaves(o) /\ Class(o) = "guardrail"
  BY DEF Leaves, Class
<1>11. /\ vetoed' \subseteq Combos /\ (pc' = "pick" => vetoed' = vetoed)
       /\ vetoed' = vetoed \/ vetoed' = vetoed \cup {Frame.combo}
       /\ Frame.combo \in vetoed' => f.last = "guardrail" /\ cand'.gate # "expired"
  BY <1>4, <1>5, <1>7, <1>8, <1>10 DEF TurnTypeOK
<1>12. /\ AtEntry /\ pc' \in {"pick", "left"} /\ pc # "left"
       /\ Frame.spent \subseteq f.spent /\ refusers' \subseteq f.spent
       /\ cand.tried \subseteq cand'.tried
       /\ (pc = "sent" /\ pc' = "pick") => cand.acct \in f.spent \cup cand'.tried
  BY <1>1, <1>2, <1>4, <1>5, <1>7, <1>9 DEF AtEntry
<1> HIDE DEF f, g, S, limited, acct, TurnInv
<1> QED BY <1>3, <1>4, <1>5, <1>6, <1>7, <1>11, <1>12, EntryStep

\* A return from the running activation, which answers nothing itself.
LEMMA ReturnStep ==
    ASSUME TurnInv, pc # "done", Return, cand' \in Tries, GateInv',
           benched' \subseteq Timed \X Entries, reply' = reply,
           UNCHANGED <<parked, cooling, gone, history>>
    PROVE  TurnInv'
<1> USE DEF TurnInv
<1>1. /\ stack' \in Seq(Activations) \ {<<>>} /\ stack'[1] = stack[1]
      /\ \A i \in DOMAIN stack' : /\ stack'[i].at \in 1 .. Len(stack'[i].models) + 1
                                  /\ stack'[i].index \in 0 .. Len(stack'[i].models)
      /\ pc' \in {"done", "returned"}
  BY Returned
<1>2. TurnTypeOK'
  BY <1>1 DEF TurnTypeOK, history
<1>3. PositionInv' /\ AskInv' /\ VetoInv'
  BY <1>1 DEF PositionInv, AtEntry, AskInv, InLoop, VetoInv
<1>4. FallbackInv'
  BY <1>1, BottomKept DEF history
<1> QED BY <1>2, <1>3, <1>4

\* The loop leaves an entry: for the next one, or for good.
LEMMA LeaveEntryStep ==
    ASSUME TurnInv, LeaveEntry
    PROVE  TurnInv'
<1> USE DEF TurnInv
<1> DEFINE f == IF TimedOut THEN [Frame EXCEPT !.last = "timeout", !.late = TRUE] ELSE Frame
           g == [f EXCEPT !.at = @ + 1]
<1>1. /\ pc = "left" /\ cand' = AtRest
      /\ UNCHANGED <<parked, cooling, gone, reply, history>>
      /\ \/ Return
         \/ pc' = "fallback" /\ stack' = WithFrame(f) /\ EndsTurn(f.last)
         \/ pc' = "entry" /\ stack' = WithFrame(g) /\ ~EndsTurn(f.last)
  BY DEF LeaveEntry
<1>2. /\ Frame \in Activations /\ Frame.at \in DOMAIN Frame.models /\ Frame.at \in Nat
      /\ Frame.models \in Seq(Entries) /\ Frame.index \in 0 .. Len(Frame.models)
      /\ Entry \in Entries /\ Frame.combo \in Combos
  BY <1>1, FrameFacts, EntryFacts DEF PositionInv, AtEntry, Activations
<1>3. AtRest \in Tries /\ AtRest.gate = "off"
  BY ComboConstants DEF AtRest, Tries
<1>4. GateInv'
  BY <1>1, <1>3 DEF GateInv
<1>5. benched' \subseteq Timed \X Entries
  <2>1. TimedOut => Frame.combo \in Timed
    BY <1>1 DEF TimedOut, GateInv, AtEntry
  <2> QED BY <1>2, <2>1 DEF LeaveEntry, TurnTypeOK
<1>6. /\ f \in Activations /\ f.combo = Frame.combo /\ f.models = Frame.models
      /\ f.visited = Frame.visited /\ f.next = Frame.next /\ f.index = Frame.index
      /\ f.at = Frame.at /\ f.spent = Frame.spent /\ (~TimedOut => f.last = Frame.last)
      /\ (TimedOut => f.last = "timeout")
  BY <1>2 DEF Activations, LastErrors
<1>7. /\ g \in Activations /\ g.combo = Frame.combo /\ g.models = Frame.models
      /\ g.visited = Frame.visited /\ g.next = Frame.next /\ g.index = Frame.index
      /\ g.at = Frame.at + 1 /\ g.spent = Frame.spent
  <2> HIDE DEF f, TurnInv
  <2> QED BY <1>2, <1>6 DEF Activations
<1> HIDE DEF f, g
<1>8. CASE Return
  BY <1>1, <1>3, <1>4, <1>5, <1>8, ReturnStep
<1>9. CASE pc' = "fallback" /\ stack' = WithFrame(f)
  <2>1. /\ stack' \in Seq(Activations) \ {<<>>}
        /\ \A i \in DOMAIN stack' : /\ stack'[i].at \in 1 .. Len(stack'[i].models) + 1
                                    /\ stack'[i].index \in 0 .. Len(stack'[i].models)
        /\ stack'[1] = IF Len(stack) = 1 THEN f ELSE stack[1]
    BY <1>2, <1>6, <1>9, Rewritten
  <2>2. TurnTypeOK'
    BY <1>1, <1>3, <1>5, <1>9, <2>1 DEF TurnTypeOK, history
  <2>3. PositionInv' /\ AskInv' /\ VetoInv'
    BY <1>9 DEF PositionInv, AtEntry, AskInv, InLoop, VetoInv
  <2>4. FallbackInv'
    BY <1>1, <1>6, <2>1, BottomKept, FrameFacts DEF history
  <2> QED BY <1>4, <2>2, <2>3, <2>4
<1>10. CASE pc' = "entry" /\ stack' = WithFrame(g) /\ ~EndsTurn(f.last)
  <2>1. /\ stack' \in Seq(Activations) \ {<<>>} /\ Frame' = g
        /\ \A i \in DOMAIN stack' : /\ stack'[i].at \in 1 .. Len(stack'[i].models) + 1
                                    /\ stack'[i].index \in 0 .. Len(stack'[i].models)
        /\ stack'[1] = IF Len(stack) = 1 THEN g ELSE stack[1]
    BY <1>2, <1>7, <1>10, Rewritten
  <2>2. TurnTypeOK'
    BY <1>1, <1>3, <1>5, <1>10, <2>1 DEF TurnTypeOK, history
  <2>3. PositionInv'
    BY <1>10 DEF PositionInv, AtEntry
  <2>4. AskInv'
    <3>1. refusers \subseteq Frame.spent /\ \A w \in asked : w[1] <= Frame.at /\ w[1] \in Nat
      BY <1>1 DEF AskInv, InLoop, TurnTypeOK
    <3>2. \A w \in asked : w[1] <= Frame.at + 1 /\ w[1] # Frame.at + 1
      BY <1>2, <3>1
    <3> QED BY <1>1, <1>7, <1>10, <2>1, <3>1, <3>2 DEF AskInv, InLoop, history
  <2>5. VetoInv'
    <3>1. Frame.combo \notin vetoed
      BY <1>1, <1>6, <1>10 DEF VetoInv, EndsTurn, TimedOut
    <3> QED BY <1>1, <1>7, <1>10, <2>1, <3>1 DEF VetoInv, history
  <2>6. FallbackInv'
    BY <1>1, <1>7, <2>1, BottomKept, FrameFacts DEF history
  <2> QED BY <1>4, <2>2, <2>3, <2>4, <2>5, <2>6
<1> QED BY <1>1, <1>8, <1>9, <1>10

\* The pass ends, or the call of a fallback combo has returned without a reply: the
\* activation goes on to wait, or to its fallback combos.
LEMMA PassEndStep ==
    ASSUME TurnInv, \/ EndPass
                    \/ Resume /\ reply = "none"
    PROVE  TurnInv'
<1> USE DEF TurnInv
<1>1. /\ UNCHANGED <<stack, cand, db, gone, reply, history>> /\ pc # "done"
      /\ pc' \in {"hold", "fallback"} /\ (pc' = "hold" => pc = "entry")
  BY DEF EndPass, Resume
<1>2. Frame' = Frame
  BY <1>1 DEF Frame
<1>3. TurnTypeOK'
  BY <1>1 DEF TurnTypeOK, db, history
<1>4. GateInv' /\ PositionInv' /\ AskInv' /\ VetoInv'
  BY <1>1, <1>2 DEF GateInv, PositionInv, AtEntry, AskInv, InLoop, VetoInv, history
<1>5. FallbackInv'
  BY <1>1, BottomKept DEF history
<1> QED BY <1>3, <1>4, <1>5

\* The second pass starts with nothing excluded and nobody asked.
LEMMA SecondPassStep ==
    ASSUME TurnInv, SecondPass
    PROVE  TurnInv'
<1> USE DEF TurnInv
<1> DEFINE f == [Frame EXCEPT !.pass = 2, !.at = 1, !.last = "none",
                !.earliest = 0, !.limited = FALSE, !.spent = {}, !.seen = {}, !.index = 0]
<1>1. /\ pc = "hold" /\ pc' = "entry" /\ stack' = WithFrame(f)
      /\ asked' = {} /\ refusers' = {}
      /\ UNCHANGED <<cand, db, gone, reply, writers, vetoed, entered, owed, cutShort>>
  BY DEF SecondPass
<1>2. Frame \in Activations /\ Frame.models \in Seq(Entries)
  BY FrameFacts
<1>3. /\ f \in Activations /\ f.combo = Frame.combo /\ f.models = Frame.models
      /\ f.visited = Frame.visited /\ f.next = Frame.next /\ f.index = 0 /\ f.at = 1
  <2> DEFINE h == [Frame EXCEPT !.pass = 2, !.at = 1, !.last = "none", !.earliest = 0]
  <2> HIDE DEF TurnInv
  <2>1. h \in Activations
    <3> DEFINE two == 2
               one == 1
               k == [Frame EXCEPT !.pass = two, !.at = one]
    <3>1. k \in Activations
      <4>1. two \in 1 .. 2 /\ one \in Nat \ {0}
        OBVIOUS
      <4> HIDE DEF two, one
      <4> QED BY <1>2, <4>1 DEF Activations
    <3>2. h = [k EXCEPT !.last = "none", !.earliest = 0] /\ "none" \in LastErrors
      BY DEF LastErrors
    <3> HIDE DEF h, k
    <3> QED BY <3>1, <3>2 DEF Activations
  <2>2. /\ h.combo = Frame.combo /\ h.models = Frame.models /\ h.visited = Frame.visited
        /\ h.next = Frame.next /\ h.at = 1
    BY <1>2 DEF Activations
  <2>3. f = [h EXCEPT !.limited = FALSE, !.spent = {}, !.seen = {}, !.index = 0]
    OBVIOUS
  <2> HIDE DEF f, h
  <2>4. f \in Activations
    BY <2>1, <2>3 DEF Activations
  <2> QED BY <2>1, <2>2, <2>3, <2>4 DEF Activations
<1> HIDE DEF f
<1>4. /\ stack' \in Seq(Activations) \ {<<>>} /\ Frame' = f
      /\ \A i \in DOMAIN stack' : /\ stack'[i].at \in 1 .. Len(stack'[i].models) + 1
                                  /\ stack'[i].index \in 0 .. Len(stack'[i].models)
      /\ stack'[1] = IF Len(stack) = 1 THEN f ELSE stack[1]
  <2>1. f.at \in 1 .. Len(f.models) + 1 /\ f.index \in 0 .. Len(f.models)
    BY <1>2, <1>3
  <2> QED BY <1>1, <1>3, <2>1, Rewritten
<1>5. TurnTypeOK'
  BY <1>1, <1>4 DEF TurnTypeOK, db
<1>6. GateInv' /\ PositionInv' /\ AskInv'
  BY <1>1 DEF GateInv, PositionInv, AtEntry, AskInv, InLoop
<1>7. VetoInv'
  BY <1>1, <1>3, <1>4 DEF VetoInv
<1>8. FallbackInv'
  BY <1>1, <1>3, <1>4, BottomKept, FrameFacts
<1> QED BY <1>5, <1>6, <1>7, <1>8

\* The next fallback combo that may be tried is one of those the activation has left.
LEMMA UntriedFacts ==
    ASSUME TurnTypeOK, Untried(Frame) # {}
    PROVE  /\ Min(Untried(Frame)) \in Untried(Frame)
           /\ Untried(Frame) \subseteq 1 .. Len(Fallbacks[Frame.combo])
           /\ Fallbacks[Frame.combo] \in Seq(Combos)
           /\ \A i \in Untried(Frame) : Min(Untried(Frame)) <= i
<1>1. Frame.combo \in Combos /\ Frame.next \in Nat \ {0}
  BY FrameFacts DEF Activations
<1>2. Fallbacks[Frame.combo] \in Seq(Combos)
  BY <1>1, ComboConstants
<1>3. Len(Fallbacks[Frame.combo]) \in Nat
  BY <1>2
<1>4. /\ Untried(Frame) \subseteq 1 .. Len(Fallbacks[Frame.combo])
      /\ Untried(Frame) \in SUBSET (0 .. Len(Fallbacks[Frame.combo]))
  BY <1>1, <1>3 DEF Untried
<1> QED BY <1>2, <1>3, <1>4, Extremes

\* A fallback combo is entered, with nothing excluded, nobody asked and no veto on it.
LEMMA TryFallbackStep ==
    ASSUME TurnInv, TryFallbackCombo
    PROVE  TurnInv'
<1> USE DEF TurnInv
<1> DEFINE j == Min(Untried(Frame))
           c == Fallbacks[Frame.combo][j]
           f == [Frame EXCEPT !.next = j + 1]
<1>1. /\ pc = "fallback" /\ pc' = "entry" /\ asked' = {} /\ refusers' = {}
      /\ entered' = entered \cup {c} /\ vetoed' = vetoed \ {c}
      /\ UNCHANGED <<cand, db, gone, reply, writers, owed, cutShort>>
      /\ Untried(Frame) # {} /\ reply = "none"
  BY DEF TryFallbackCombo, Descends
<1>2. PICK order \in Orders(c) :
          stack' = Append(WithFrame(f), Activation(c, order, Seen(Frame) \cup {c}))
  BY DEF TryFallbackCombo
<1> DEFINE g == Activation(c, order, Seen(Frame) \cup {c})
<1>3. /\ Frame \in Activations /\ Frame.models \in Seq(Entries)
      /\ Frame.at \in 1 .. Len(Frame.models) + 1 /\ Frame.index \in 0 .. Len(Frame.models)
      /\ Frame.combo \in Combos /\ Frame.visited \subseteq Combos
  BY FrameFacts DEF Activations
<1>4. /\ j \in Untried(Frame) /\ j \in Nat \ {0} /\ c \in Combos
      /\ \A i \in Untried(Frame) : j <= i
  <2>1. j \in Untried(Frame) /\ j \in 1 .. Len(Fallbacks[Frame.combo])
    BY <1>1, UntriedFacts
  <2> QED BY <1>1, <2>1, UntriedFacts
<1>5. /\ f \in Activations /\ f.combo = Frame.combo /\ f.models = Frame.models
      /\ f.visited = Frame.visited /\ f.next = j + 1 /\ f.index = Frame.index
      /\ f.at = Frame.at
  <2>1. j + 1 \in Nat \ {0}
    BY <1>4
  <2> HIDE DEF j, TurnInv
  <2> QED BY <1>3, <2>1 DEF Activations
<1>6. /\ g \in Activations /\ g.models # <<>> /\ g.combo = c /\ g.at = 1 /\ g.index = 0
      /\ g.models \in Seq(Entries)
  <2>1. Seen(Frame) \cup {c} \in SUBSET Combos
    BY <1>3, <1>4 DEF Seen
  <2>2. g \in Activations /\ g.models # <<>>
    <3> HIDE DEF c
    <3> QED BY <1>4, <2>1, ActivationFacts
  <2>3. g.combo = c /\ g.at = 1 /\ g.index = 0
    BY DEF Activation
  <2> HIDE DEF g
  <2> QED BY <2>2, <2>3 DEF Activations
<1>7. stack' = Append(WithFrame(f), g)
  BY <1>2
<1> HIDE DEF f, g
<1>8. /\ stack' \in Seq(Activations) \ {<<>>} /\ Frame' = g
      /\ \A i \in DOMAIN stack' : /\ stack'[i].at \in 1 .. Len(stack'[i].models) + 1
                                  /\ stack'[i].index \in 0 .. Len(stack'[i].models)
      /\ stack'[1] = IF Len(stack) = 1 THEN f ELSE stack[1]
  <2>1. g.at \in 1 .. Len(g.models) + 1 /\ g.index \in 0 .. Len(g.models)
    BY <1>6
  <2> QED BY <1>3, <1>5, <1>6, <1>7, <2>1, Pushed
<1>9. TurnTypeOK'
  BY <1>1, <1>4, <1>8 DEF TurnTypeOK, db
<1>10. GateInv' /\ PositionInv' /\ AskInv'
  BY <1>1 DEF GateInv, PositionInv, AtEntry, AskInv, InLoop
<1>11. VetoInv'
  BY <1>1, <1>6, <1>8 DEF VetoInv
<1>12. FallbackInv'
  <2>1. /\ stack'[1].combo = Root /\ stack'[1].visited = {} /\ stack'[1].models # <<>>
    BY <1>5, <1>8, FrameFacts DEF FallbackInv
  <2>2. ASSUME NEW i \in 1 .. Len(Fallbacks[Root]), i < stack'[1].next
        PROVE  Fallbacks[Root][i] \in entered'
    <3>1. CASE Len(stack) = 1
      <4>1. Frame = stack[1] /\ stack'[1].next = j + 1 /\ Frame.combo = Root
            /\ Frame.visited = {} /\ Frame.next \in Nat
        BY <1>3, <1>5, <1>8, <3>1, FrameFacts DEF FallbackInv, Activations
      <4>2. CASE i < Frame.next
        BY <1>1, <4>1, <4>2 DEF FallbackInv
      <4>3. CASE i = j
        BY <1>1, <4>1, <4>3
      <4>4. CASE ~(i < Frame.next) /\ i # j
        <5>1. i \notin Untried(Frame)
          BY <1>4, <2>2, <4>1, <4>4
        <5>2. Fallbacks[Root][i] \in Seen(Frame)
          BY <4>1, <4>4, <5>1 DEF Untried
        <5> QED BY <1>1, <4>1, <5>2 DEF Seen, FallbackInv
      <4> QED BY <4>2, <4>3, <4>4
    <3>2. CASE Len(stack) # 1
      BY <1>1, <1>8, <2>2, <3>2 DEF FallbackInv
    <3> QED BY <3>1, <3>2
  <2>3. reply' # "error" /\ Root \in entered'
    BY <1>1 DEF FallbackInv
  <2> QED BY <2>1, <2>2, <2>3 DEF FallbackInv, ErrorMeansExhausted
<1> QED BY <1>9, <1>10, <1>11, <1>12

\* An activation gives up: the client's own combo has then tried all its fallback combos,
\* or its last error does not allow any.
LEMMA FinishStep ==
    ASSUME TurnInv, FinishCombo
    PROVE  TurnInv'
<1> USE DEF TurnInv
<1>1. /\ pc = "fallback" /\ ~Descends /\ Return
      /\ reply' = IF reply = "none" /\ IsRoot THEN "error" ELSE reply
      /\ UNCHANGED <<cand, db, gone, history>>
  BY DEF FinishCombo
<1>2. /\ stack' \in Seq(Activations) \ {<<>>} /\ stack'[1] = stack[1]
      /\ \A i \in DOMAIN stack' : /\ stack'[i].at \in 1 .. Len(stack'[i].models) + 1
                                  /\ stack'[i].index \in 0 .. Len(stack'[i].models)
      /\ pc' = IF Len(stack) = 1 THEN "done" ELSE "returned"
  BY <1>1, Returned
<1>3. TurnTypeOK'
  BY <1>1, <1>2 DEF TurnTypeOK, history, db
<1>4. GateInv' /\ PositionInv' /\ AskInv' /\ VetoInv'
  BY <1>1, <1>2 DEF GateInv, PositionInv, AtEntry, AskInv, InLoop, VetoInv
<1>5. FallbackInv'
  <2>1. CASE reply' = reply
    BY <1>1, <1>2, <2>1, BottomKept DEF history
  <2>2. CASE reply = "none" /\ IsRoot
    <3>1. Frame = stack[1] /\ Len(stack) = 1 /\ Frame.combo = Root /\ Frame.visited = {}
          /\ Frame.next \in Nat
      BY <2>2, FrameFacts DEF IsRoot, FallbackInv, Activations
    <3>2. ASSUME IsRetryable(stack[1].last), NEW i \in 1 .. Len(Fallbacks[Root])
          PROVE  Fallbacks[Root][i] \in entered
      <4>1. Untried(Frame) = {}
        BY <1>1, <2>2, <3>1, <3>2 DEF Descends
      <4>2. CASE i < Frame.next
        BY <3>1, <4>2 DEF FallbackInv
      <4>3. CASE ~(i < Frame.next)
        <5>1. Fallbacks[Root][i] \in Seen(Frame)
          BY <3>1, <4>1, <4>3 DEF Untried
        <5> QED BY <3>1, <5>1 DEF Seen, FallbackInv
      <4> QED BY <4>2, <4>3
    <3>3. IsRetryable(stack[1].last) => ToSet(Fallbacks[Root]) \subseteq entered
      <4>1. Fallbacks[Root] \in Seq(Combos)
        BY ComboConstants
      <4>2. DOMAIN Fallbacks[Root] = 1 .. Len(Fallbacks[Root])
        BY <4>1
      <4> QED BY <3>2, <4>2 DEF ToSet
    <3>4. pc' = "done" /\ entered' = entered
      BY <1>1, <1>2, <3>1 DEF history
    <3> QED BY <1>2, <3>3, <3>4 DEF FallbackInv, ErrorMeansExhausted
  <2> QED BY <1>1, <2>1, <2>2
<1> QED BY <1>3, <1>4, <1>5

------------------------------------------------------------------------------
(* The invariant, and what follows from it.                                *)

\* A turn begins at the first entry of the client's combo.
LEMMA InitTurnInv == TurnInit => TurnInv
<1> SUFFICES ASSUME TurnInit PROVE TurnInv
  OBVIOUS
<1>1. PICK order \in Orders(Root) : stack = <<Activation(Root, order, {})>>
  BY DEF TurnInit
<1> DEFINE g == Activation(Root, order, {})
<1>2. g \in Activations /\ g.models # <<>> /\ Root \in Combos
  <2>1. Root \in Combos /\ {} \in SUBSET Combos
    BY ComboConstants
  <2> QED BY <2>1, ActivationFacts
<1>3. g.combo = Root /\ g.visited = {} /\ g.at = 1 /\ g.index = 0 /\ g.next = 1
  BY DEF Activation
<1> HIDE DEF g
<1>4. stack = <<g>>
  BY <1>1 DEF g
<1>5. /\ stack \in Seq(Activations) \ {<<>>} /\ DOMAIN stack = {1} /\ stack[1] = g
      /\ Len(stack) = 1
  BY <1>2, <1>4
<1>6. g.models \in Seq(Entries)
  BY <1>2 DEF Activations
<1>7. 1 \in 1 .. Len(g.models) + 1 /\ 0 \in 0 .. Len(g.models)
  BY <1>6
<1>8. AtRest \in Tries
  BY ComboConstants DEF AtRest, Tries
<1>9. benched \subseteq Timed \X Entries
  <2>1. ASSUME NEW c \in Timed PROVE ToSet(ModelsOf[c]) \subseteq Entries
    BY ComboConstants, <2>1 DEF Entries
  <2> QED BY <2>1 DEF TurnInit
<1>10. owed \subseteq Entries \X Accounts
  <2>1. ToSet(ModelsOf[Root]) \subseteq Entries
    BY <1>2 DEF Entries
  <2>2. \A e \in Entries : AccountsOf[e] \subseteq Accounts
    BY DEF Accounts
  <2> QED BY <2>1, <2>2 DEF TurnInit
<1>11. TurnTypeOK
  <2>1. /\ pc = "entry" /\ cand \in Tries /\ parked = {} /\ cooling = {} /\ gone = FALSE
        /\ cutShort = FALSE /\ reply = "none" /\ writers = 0 /\ asked = {} /\ refusers = {}
        /\ vetoed = {} /\ entered \subseteq Combos
    BY <1>2, <1>8 DEF TurnInit
  <2>2. \A i \in DOMAIN stack : /\ stack[i].at \in 1 .. Len(stack[i].models) + 1
                                /\ stack[i].index \in 0 .. Len(stack[i].models)
    BY <1>3, <1>5, <1>7
  <2>3. /\ parked \subseteq Accounts \X Entries /\ cooling \subseteq Accounts
        /\ gone \in BOOLEAN /\ cutShort \in BOOLEAN
        /\ reply \in {"none", "bytes", "error"} /\ writers \in 0 .. 2
        /\ asked \subseteq Nat \X Accounts /\ refusers \subseteq Accounts
        /\ vetoed \subseteq Combos
    <3>1. gone \in BOOLEAN /\ cutShort \in BOOLEAN
      BY <2>1, Zenon
    <3>2. reply \in {"none", "bytes", "error"} /\ writers \in 0 .. 2
      BY <2>1
    <3> QED BY <2>1, <3>1, <3>2, Zenon
  <2>4. pc \in {"entry", "pick", "check", "sent", "left", "hold", "fallback", "returned", "done"}
    BY <2>1
  <2> QED BY <1>5, <1>9, <1>10, <2>1, <2>2, <2>3, <2>4, Zenon DEF TurnTypeOK
<1>12. GateInv /\ PositionInv /\ AskInv /\ VetoInv
  BY DEF TurnInit, AtRest, GateInv, PositionInv, AtEntry, AskInv, InLoop, VetoInv
<1>13. FallbackInv
  BY <1>2, <1>3, <1>5 DEF TurnInit, FallbackInv, ErrorMeansExhausted
<1> QED BY <1>11, <1>12, <1>13 DEF TurnInv

\* Every step keeps the invariant.
LEMMA NextTurnInv == TurnInv /\ [TurnNext]_turn => TurnInv'
<1> SUFFICES ASSUME TurnInv, [TurnNext]_turn PROVE TurnInv'
  OBVIOUS
<1>1. CASE UNCHANGED turn
  <2>1. /\ UNCHANGED <<pc, stack, cand, parked, cooling, benched, gone, reply, writers, asked>>
        /\ UNCHANGED <<refusers, vetoed, entered, owed, cutShort>>
    BY <1>1 DEF turn, db, history
  <2>2. Frame' = Frame /\ Entry' = Entry
    BY <2>1 DEF Frame, Entry
  <2> QED BY <2>1, <2>2 DEF TurnInv, TurnTypeOK, GateInv, PositionInv, AtEntry, AskInv, InLoop,
             NotExcluded, VetoInv, FallbackInv, ErrorMeansExhausted
<1>2. CASE Turn
  <2>1. CASE LeaveWait
    BY <2>1, ReturnStep DEF LeaveWait, TurnInv, TurnTypeOK, GateInv, AtEntry, Return, db
  <2>2. CASE Resume
    BY <2>2, ReturnStep, PassEndStep DEF Resume, TurnInv, TurnTypeOK, GateInv, AtEntry, Return, db
  <2>3. CASE LeaveWait \/ Resume \/ TryFallbackCombo \/ FinishCombo
    BY <2>1, <2>2, <2>3, TryFallbackStep, FinishStep
  <2>4. CASE LeaveEntry \/ EndPass \/ SecondPass
    BY <2>4, LeaveEntryStep, PassEndStep, SecondPassStep
  <2>5. CASE \E o \in Answers : \E hint \in HintsOf(o) : Failed(o, hint)
    BY <2>5, FailedStep
  <2>6. CASE \/ StartEntry \/ SendWithoutAccount \/ GiveEntryUp \/ NodeBlocked
             \/ \E a \in Accounts : SelectAccount(a)
             \/ SkipLocked \/ SendToAccount \/ Served \/ Cancelled
    BY <2>6, StartEntryStep, SendStep, SelectStep, PassedOverStep, AnsweredStep
  <2> QED BY <1>2, <2>3, <2>4, <2>5, <2>6 DEF Turn
<1>3. CASE \/ FirstBytes \/ Expire \/ HangUp
           \/ \E a \in Accounts : OthersCoolDown(a) \/ AccountRecovers(a)
           \/ \E a \in Accounts, e \in Entries : OthersLock(a, e)
  BY <1>3, QuietStep
<1> QED BY <1>1, <1>2, <1>3 DEF TurnNext, Ended

\* The invariant of a turn holds throughout it.
THEOREM TurnInvariant == TurnSpec => []TurnInv
<1>1. TurnInit => TurnInv
  BY InitTurnInv
<1>2. TurnInv /\ [TurnNext]_turn => TurnInv'
  BY NextTurnInv
<1> QED BY <1>1, <1>2, PTL DEF TurnSpec

\* Every variable of a turn stays in its type: the walk never leaves the chain it is in,
\* and returns from the last activation only to end the turn.
THEOREM TurnTyped == TurnSpec => []TurnTypeOK
<1>1. TurnInv => TurnTypeOK
  BY DEF TurnInv
<1> QED BY <1>1, TurnInvariant, PTL

\* A candidate whose response timeout has fired contributes no byte to the reply, and the
\* timer never fires on one whose bytes are out.
THEOREM TimeoutAndBytesExclude == TurnSpec => []ExpiredStaysSilent
<1>1. TurnInv => ExpiredStaysSilent
  BY DEF TurnInv, GateInv, ExpiredStaysSilent
<1> QED BY <1>1, TurnInvariant, PTL

\* A retryable error reaches the client only when the turn has entered every fallback combo
\* of the client's combo.
THEOREM FallbacksExhausted == TurnSpec => []ErrorMeansExhausted
<1>1. TurnInv => ErrorMeansExhausted
  BY DEF TurnInv, FallbackInv
<1> QED BY <1>1, TurnInvariant, PTL

\* No account is sent the prompt twice by the same entry in a pass, nor after it refused
\* the pass for its quota or its grant, whatever other turns do to its locks meanwhile.
THEOREM NoAccountAskedAgain == TurnSpec => NoResend
<1>1. ASSUME TurnInv, TurnNext, Sends
      PROVE  /\ cand'.acct \notin refusers
             /\ cand'.acct # None => <<Frame.at, cand'.acct>> \notin asked
  <2>1. PICK a : Send(a) /\ \/ a = None
                            \/ pc = "check" /\ a = cand.acct
    BY <1>1 DEF Sends, TurnNext, Turn, StartEntry, SkipEntry, OpenEntry, SendWithoutAccount,
       GiveEntryUp, NodeBlocked, SelectAccount, SkipLocked, SendToAccount, Served, Cancelled,
       Failed, LeaveEntry, Return, EndPass, SecondPass, LeaveWait, TryFallbackCombo, FinishCombo,
       Resume, FirstBytes, Expire, HangUp, OthersCoolDown, OthersLock, AccountRecovers, Ended, turn
  <2>2. cand'.acct = a
    BY <1>1, <2>1 DEF Send, TurnInv, TurnTypeOK, Tries
  <2>3. CASE a = None
    BY <1>1, <2>2, <2>3, ComboConstants DEF TurnInv, TurnTypeOK
  <2>4. CASE pc = "check" /\ a = cand.acct
    BY <1>1, <2>2, <2>4 DEF TurnInv, AskInv, InLoop, NotExcluded
  <2> QED BY <2>1, <2>3, <2>4
<1>2. TurnInv /\ [TurnNext]_turn =>
          [Sends => /\ cand'.acct \notin refusers
                    /\ cand'.acct # None => <<Frame.at, cand'.acct>> \notin asked]_turn
  BY <1>1
<1> QED BY <1>2, TurnInvariant, PTL DEF TurnSpec, NoResend

\* An activation whose answer the guardrail has refused sends the prompt to nobody else.
THEOREM VetoEndsTheCombo == TurnSpec => VetoEndsCombo
<1>1. ASSUME TurnInv, TurnNext, Sends PROVE Frame.combo \notin vetoed
  <2>1. pc \in {"pick", "check"}
    BY <1>1 DEF Sends, TurnNext, Turn, StartEntry, SkipEntry, OpenEntry, SendWithoutAccount,
       GiveEntryUp, NodeBlocked, SelectAccount, SkipLocked, SendToAccount, Served, Cancelled,
       Failed, LeaveEntry, Return, EndPass, SecondPass, LeaveWait, TryFallbackCombo, FinishCombo,
       Resume, FirstBytes, Expire, HangUp, OthersCoolDown, OthersLock, AccountRecovers, Ended, turn
  <2> QED BY <1>1, <2>1 DEF TurnInv, VetoInv
<1>2. TurnInv /\ [TurnNext]_turn => [Sends => Frame.combo \notin vetoed]_turn
  BY <1>1
<1> QED BY <1>2, TurnInvariant, PTL DEF TurnSpec, VetoEndsCombo

------------------------------------------------------------------------------
(* No entry is passed over.                                                *)

\* The excluded accounts of an entry are finitely many, and fewer than its accounts as
\* long as one of them is not excluded.
LEMMA ExclusionsFacts ==
    ASSUME NEW e \in Entries, NEW S, TriesSuffice
    PROVE  /\ Cardinality(S \cap AccountsOf[e]) \in Nat /\ IsFiniteSet(S \cap AccountsOf[e])
           /\ \A a \in AccountsOf[e] : a \notin S =>
                 Cardinality(S \cap AccountsOf[e]) < MaxTries
           /\ \A a \in AccountsOf[e] : a \notin S =>
                 Cardinality((S \cup {a}) \cap AccountsOf[e])
                     = Cardinality(S \cap AccountsOf[e]) + 1
<1> DEFINE A == AccountsOf[e]
           B == S \cap A
<1>1. IsFiniteSet(A) /\ Cardinality(A) <= MaxTries /\ MaxTries \in Nat
  BY ComboConstants DEF TriesSuffice
<1>2. B \subseteq A
  OBVIOUS
<1> HIDE DEF A, B
<1>3. IsFiniteSet(B) /\ Cardinality(B) \in Nat /\ Cardinality(A) \in Nat
      /\ (B # A => Cardinality(B) < Cardinality(A))
  BY <1>1, <1>2, FS_Subset, FS_CardinalityType
<1>4. ASSUME NEW a \in A, a \notin S
      PROVE  /\ Cardinality(B) < MaxTries
             /\ Cardinality((S \cup {a}) \cap A) = Cardinality(B) + 1
  <2>1. a \notin B /\ (S \cup {a}) \cap A = B \cup {a}
    BY <1>4 DEF B
  <2>2. Cardinality(B \cup {a}) = Cardinality(B) + 1
    BY <1>3, <2>1, FS_AddElement
  <2>3. B # A
    BY <1>4, <2>1
  <2> QED BY <1>1, <1>3, <2>1, <2>2, <2>3
<1> QED BY <1>3, <1>4 DEF A, B

\* A step that moves the running activation on, inside or outside the loop, and writes no
\* error: what the client's combo is owed follows from its own activation.
LEMMA RootKept ==
    ASSUME TurnInv, TurnInv', OwedInv, NEW f \in Activations, stack' = WithFrame(f),
           f.models = Frame.models, f.pass = Frame.pass, pc' # "done",
           owed' \subseteq owed,
           Len(stack) = 1 =>
               \/ f.at = Frame.at /\ InLoop /\ pc' \in {"entry", "pick", "check", "sent", "left"}
               \/ f.at = Frame.at + 1 /\ InLoop /\ pc' = "entry" /\ \A w \in owed : w[1] # Entry
               \/ pc' \in {"fallback", "returned"} /\ (RootCleared \/ f.last = "guardrail")
               \/ RootCleared
    PROVE  OwedRoot' /\ NoEntryStarved'
<1>1. /\ Frame \in Activations /\ f.at \in Nat /\ Frame.at \in Nat
      /\ Len(stack) \in Nat \ {0} /\ stack \in Seq(Activations)
      /\ Len(stack) = 1 => Frame = stack[1]
      /\ f.models \in Seq(Entries)
  BY FrameFacts DEF TurnInv, Activations
<1>2. /\ Len(stack') = Len(stack)
      /\ stack'[1] = IF Len(stack) = 1 THEN f ELSE stack[1]
  BY <1>1 DEF WithFrame
<1>3. stack'[1].models = stack[1].models /\ stack'[1].pass = stack[1].pass
  BY <1>1, <1>2
<1>4. NoEntryStarved'
  BY DEF TurnInv, FallbackInv, NoEntryStarved
<1>5. RootCleared => RootCleared'
  BY <1>3 DEF RootCleared
<1>6. OwedRoot
  BY DEF OwedInv
<1>7. CASE Len(stack) # 1
  <2>1. RootCleared
    <3>1. Len(stack) > 1
      <4>1. Len(stack) \in Nat \ {0} /\ Len(stack) # 1
        BY <1>1, <1>7, Zenon
      <4> DEFINE n == Len(stack)
      <4>2. n > 1
        <5>1. n \in Nat \ {0} /\ n # 1
          BY <4>1
        <5> HIDE DEF n
        <5> QED BY <5>1
      <4> QED BY <4>2
    <3> QED BY <1>6, <3>1 DEF OwedRoot
  <2> QED BY <1>2, <1>4, <1>5, <1>7, <2>1 DEF OwedRoot
<1>8. CASE Len(stack) = 1 /\ RootCleared
  <2>1. \A w \in owed' : \A j \in 1 .. stack'[1].at - 1 : w[1] # stack'[1].models[j]
    <3>1. ASSUME NEW w \in owed', NEW j \in 1 .. stack'[1].at - 1
          PROVE  w[1] # stack'[1].models[j]
      <4>1. stack'[1] = f /\ f.at \in 1 .. Len(f.models) + 1
        <5>1. Frame' = f
          BY <1>2, <1>8 DEF Frame
        <5> QED BY <1>2, <1>8, <5>1, FrameFacts, TurnTypeOK' DEF TurnInv, TurnTypeOK, Frame
      <4>2. j \in DOMAIN f.models
        BY <1>1, <3>1, <4>1
      <4> QED BY <1>5, <1>8, <4>1, <4>2 DEF RootCleared, ToSet
    <3> QED BY <3>1
  <2> QED BY <1>2, <1>4, <1>5, <1>8, <2>1 DEF OwedRoot
<1>9. CASE Len(stack) = 1 /\ ~RootCleared
  <2>1. stack[1].pass # 2 /\ stack'[1] = f /\ Frame = stack[1]
    BY <1>1, <1>2, <1>6, <1>9 DEF OwedRoot
  <2>2. CASE /\ f.at = Frame.at /\ InLoop
             /\ pc' \in {"entry", "pick", "check", "sent", "left"}
    BY <1>2, <1>3, <1>4, <1>6, <1>9, <2>1, <2>2 DEF OwedRoot, InLoop
  <2>3. CASE /\ f.at = Frame.at + 1 /\ InLoop /\ pc' = "entry"
             /\ \A w \in owed : w[1] # Entry
    <3>1. ASSUME NEW w \in owed', NEW j \in 1 .. f.at - 1
          PROVE  w[1] # f.models[j]
      <4>1. CASE j = Frame.at
        BY <1>1, <2>1, <2>3, <4>1 DEF Entry
      <4>2. CASE j # Frame.at
        <5>1. j \in 1 .. stack[1].at - 1
          BY <1>1, <2>1, <2>3, <4>2
        <5> QED BY <1>6, <1>9, <2>1, <2>3, <5>1 DEF OwedRoot
      <4> QED BY <4>1, <4>2
    <3> QED BY <1>2, <1>3, <1>4, <1>9, <2>1, <2>3, <3>1 DEF OwedRoot
  <2>4. CASE pc' \in {"fallback", "returned"} /\ f.last = "guardrail"
    BY <1>2, <1>3, <1>4, <1>9, <2>1, <2>4 DEF OwedRoot, InLoop
  <2> QED BY <1>9, <2>2, <2>3, <2>4
<1> QED BY <1>7, <1>8, <1>9

\* A step that leaves the activations and the place in the loop as they are.
LEMMA RootUntouched ==
    ASSUME TurnInv, TurnInv', OwedInv, stack' = stack, pc' # "done", owed' \subseteq owed,
           \/ pc' = pc
           \/ InLoop /\ pc' \in {"entry", "pick", "check", "sent", "left"}
    PROVE  OwedRoot' /\ NoEntryStarved'
<1>1. RootCleared => RootCleared'
  BY DEF RootCleared
<1>2. NoEntryStarved'
  BY DEF TurnInv, FallbackInv, NoEntryStarved
<1> QED BY <1>1, <1>2 DEF OwedInv, OwedRoot, InLoop

\* What surrounds the turn takes from what is owed, and never adds to it.
LEMMA QuietOwed ==
    ASSUME TurnInv, TurnInv', OwedInv,
           \/ FirstBytes \/ Expire \/ HangUp
           \/ \E a \in Accounts : OthersCoolDown(a) \/ AccountRecovers(a)
           \/ \E a \in Accounts, e \in Entries : OthersLock(a, e)
    PROVE  OwedInv'
<1>1. /\ UNCHANGED <<pc, stack, refusers>> /\ pc # "done" /\ owed' \subseteq owed
  BY DEF FirstBytes, Expire, HangUp, OthersCoolDown, AccountRecovers, OthersLock, StillOwed,
         history
<1>2. cand'.tried = cand.tried /\ cand'.tries = cand.tries
  BY DEF FirstBytes, Expire, HangUp, OthersCoolDown, AccountRecovers, OthersLock, history,
         TurnInv, TurnTypeOK, Tries
<1>3. Frame' = Frame /\ Entry' = Entry
  BY <1>1 DEF Frame, Entry
<1>4. \A w \in owed' : Usable(w[2], w[1])'
  <2>1. CASE UNCHANGED <<parked, cooling>>
    BY <1>1, <2>1 DEF OwedInv, OwedUsable, Usable
  <2>2. CASE \E a \in Accounts : OthersCoolDown(a)
    BY <2>2 DEF OthersCoolDown, StillOwed, Usable
  <2>3. CASE \E a \in Accounts, e \in Entries : OthersLock(a, e)
    BY <2>3 DEF OthersLock, StillOwed, Usable
  <2>4. CASE \E a \in Accounts : AccountRecovers(a)
    BY <1>1, <2>4 DEF AccountRecovers, OwedInv, OwedUsable, Usable
  <2> QED BY <2>1, <2>2, <2>3, <2>4 DEF FirstBytes, Expire, HangUp, db
<1>5. OwedUsable'
  BY <1>1, <1>3, <1>4 DEF OwedInv, OwedUsable, InLoop
<1>6. OwedEntry'
  BY <1>1, <1>2, <1>3 DEF OwedInv, OwedEntry
<1>7. OwedRoot' /\ NoEntryStarved'
  BY <1>1, RootUntouched
<1> QED BY <1>5, <1>6, <1>7 DEF OwedInv

\* An entry that is passed over is owed nothing: all accounts of its provider are locked.
LEMMA StartEntryOwed ==
    ASSUME TurnInv, TurnInv', OwedInv, TriesSuffice, StartEntry
    PROVE  OwedInv'
<1> DEFINE f == [Frame EXCEPT !.seen = {Frame.spent}, !.index = LastTried(Frame)]
           g == [f EXCEPT !.at = @ + 1, !.last = IF @ = "none" THEN "busy" ELSE @]
<1>1. /\ UNCHANGED <<db, gone, reply, history>> /\ pc = "entry" /\ InLoop
      /\ Frame.at \in Nat /\ Frame.at \in DOMAIN Frame.models
      /\ Frame \in Activations /\ Entry \in Entries
      /\ LastTried(Frame) \in Nat /\ {Frame.spent} \in SUBSET SUBSET Accounts
  <2>1. Frame.at \in DOMAIN Frame.models /\ pc = "entry"
    BY FrameFacts DEF StartEntry, TurnInv
  <2>2. TurnTypeOK
    BY DEF TurnInv
  <2>3. /\ Frame \in Activations /\ Frame.at \in 1 .. Len(Frame.models) + 1
        /\ Frame.models \in Seq(Entries)
    BY <2>2, FrameFacts
  <2>4. Entry \in Entries /\ LastTried(Frame) \in 0 .. Len(Frame.models)
    BY <2>1, <2>2, EntryFacts, LastTriedFacts
  <2>5. {Frame.spent} \in SUBSET SUBSET Accounts
    BY <2>3 DEF Activations
  <2>6. UNCHANGED <<db, gone, reply, history>> /\ InLoop
    BY <2>1 DEF StartEntry, InLoop
  <2> QED BY <2>1, <2>3, <2>4, <2>5, <2>6
<1>2. f \in Activations /\ f.models = Frame.models /\ f.at = Frame.at /\ f.pass = Frame.pass
      /\ f.spent = Frame.spent /\ f.last = Frame.last
  BY <1>1 DEF Activations
<1>3. g \in Activations /\ g.models = Frame.models /\ g.at = Frame.at + 1 /\ g.pass = Frame.pass
      /\ g.spent = Frame.spent
  <2> DEFINE last == IF Frame.last = "none" THEN "busy" ELSE Frame.last
  <2>1. last \in LastErrors
    BY <1>1 DEF Activations, LastErrors
  <2>2. g = [f EXCEPT !.at = Frame.at + 1, !.last = last] /\ Frame.at + 1 \in Nat \ {0}
    BY <1>1, <1>2, <2>1
  <2> HIDE DEF f, g, last
  <2> QED BY <1>2, <2>1, <2>2 DEF Activations
<1>4. \/ Unavailable(Entry) /\ SkipEntry(f)
      \/ ~Unavailable(Entry) /\ OpenEntry(f, f.at = LastTried(Frame))
  BY DEF StartEntry
<1>5. /\ UNCHANGED <<parked, cooling, refusers, owed>>
  BY <1>1 DEF db, history
<1>6. \A w \in owed : Usable(w[2], w[1])' /\ w[2] \notin Frame.spent
  BY <1>1, <1>5 DEF OwedInv, OwedUsable, Usable
<1> HIDE DEF f, g
<1>7. CASE Unavailable(Entry) /\ SkipEntry(f)
  <2>1. stack' = WithFrame(g) /\ pc' = "entry"
    BY <1>1, <1>7 DEF SkipEntry, g
  <2>2. Frame' = g
    BY <1>1, <2>1, FrameFacts DEF TurnInv, WithFrame, Frame
  <2>3. \A w \in owed : w[1] # Entry
    BY <1>7 DEF Unavailable, OwedInv, OwedUsable, Usable
  <2>4. OwedUsable' /\ OwedEntry'
    BY <1>3, <1>5, <1>6, <2>1, <2>2 DEF OwedInv, OwedUsable, OwedEntry
  <2>5. OwedRoot' /\ NoEntryStarved'
    BY <1>1, <1>3, <1>5, <2>1, <2>3, RootKept
  <2> QED BY <2>4, <2>5 DEF OwedInv
<1>8. CASE OpenEntry(f, f.at = LastTried(Frame))
  <2>1. stack' = WithFrame(f) /\ pc' = "pick" /\ cand'.tried = {} /\ cand'.tries = 0
    BY <1>8 DEF OpenEntry, AtRest
  <2>2. Frame' = f /\ Entry' = Entry
    BY <1>1, <1>2, <2>1, FrameFacts DEF TurnInv, WithFrame, Frame, Entry
  <2>3. OwedUsable'
    BY <1>2, <1>5, <1>6, <2>1, <2>2 DEF OwedInv, OwedUsable
  <2>4. OwedEntry'
    <3>1. Cardinality(Frame.spent \cap AccountsOf[Entry]) \in Nat
      BY <1>1, ExclusionsFacts
    <3> QED BY <1>2, <2>1, <2>2, <3>1 DEF OwedEntry
  <2>5. OwedRoot' /\ NoEntryStarved'
    BY <1>1, <1>2, <1>5, <2>1, RootKept
  <2> QED BY <2>3, <2>4, <2>5 DEF OwedInv
<1> QED BY <1>4, <1>7, <1>8

\* The entry that is sent the prompt is owed no more.
LEMMA SendOwed ==
    ASSUME TurnInv, TurnInv', OwedInv, SendWithoutAccount \/ SendToAccount
    PROVE  OwedInv'
<1>1. /\ UNCHANGED <<stack, parked, cooling, refusers>> /\ pc \in {"pick", "check"} /\ InLoop
      /\ pc' = "sent" /\ owed' = {w \in owed : w[1] # Entry}
  BY DEF SendWithoutAccount, SendToAccount, Send, db, InLoop
<1>2. Frame' = Frame /\ Entry' = Entry
  BY <1>1 DEF Frame, Entry
<1>3. OwedUsable' /\ OwedEntry'
  BY <1>1, <1>2 DEF OwedInv, OwedUsable, OwedEntry, Usable
<1>4. OwedRoot' /\ NoEntryStarved'
  BY <1>1, RootUntouched
<1> QED BY <1>3, <1>4 DEF OwedInv

\* A selection finds every account that is owed, so the entry is only given up when none is:
\* the attempts that came to nothing have each excluded another account.
LEMMA SelectOwed ==
    ASSUME TurnInv, TurnInv', OwedInv, TriesSuffice,
           GiveEntryUp \/ \E a \in Accounts : SelectAccount(a)
    PROVE  OwedInv'
<1>1. /\ UNCHANGED <<stack, parked, cooling, refusers, owed>> /\ pc = "pick" /\ InLoop
      /\ pc' \in {"check", "left"}
      /\ pc' = "check" => /\ cand'.tries = cand.tries + 1 /\ cand'.tried = cand.tried
      /\ pc' = "left" => (cand.tries = MaxTries \/ Selectable(Entry) = {})
  BY DEF GiveEntryUp, SelectAccount, db, history, InLoop, TurnInv, TurnTypeOK, Tries
<1>2. Frame' = Frame /\ Entry' = Entry /\ Entry \in Entries
  <2>1. Frame.at \in DOMAIN Frame.models
    BY <1>1 DEF TurnInv, PositionInv, AtEntry
  <2> QED BY <1>1, <2>1, EntryFacts DEF TurnInv, Frame, Entry
<1>3. OwedUsable'
  BY <1>1, <1>2 DEF OwedInv, OwedUsable, Usable
<1>4. cand.tries \in Nat /\ MaxTries \in Nat
  <2>1. cand \in Tries
    BY DEF TurnInv, TurnTypeOK
  <2>2. MaxTries \in Nat
    BY ComboConstants
  <2> QED BY <2>1, <2>2 DEF Tries
<1>5. pc' = "left" => \A w \in owed : w[1] # Entry
  <2> SUFFICES ASSUME pc' = "left", NEW w \in owed, w[1] = Entry PROVE FALSE
    OBVIOUS
  <2>1. /\ w[2] \in AccountsOf[Entry] /\ Usable(w[2], Entry) /\ w[2] \notin Frame.spent
        /\ cand.tried = {} /\ cand.tries <= Cardinality(Frame.spent \cap AccountsOf[Entry])
    <3>1. w[2] \in AccountsOf[w[1]] /\ Usable(w[2], w[1]) /\ w[2] \notin Frame.spent
      BY <1>1 DEF OwedInv, OwedUsable
    <3>2. cand.tried = {}
      BY <1>1 DEF OwedInv, OwedEntry
    <3>3. cand.tries <= Cardinality(Frame.spent \cap AccountsOf[Entry]) + 0
      BY <1>1 DEF OwedInv, OwedEntry
    <3>4. Cardinality(Frame.spent \cap AccountsOf[Entry]) \in Nat
      BY <1>2, ExclusionsFacts
    <3> QED BY <3>1, <3>2, <3>3, <3>4
  <2>2. w[2] \in Selectable(Entry)
    BY <2>1 DEF Selectable, NotExcluded
  <2>3. cand.tries < MaxTries
    <3>1. /\ Cardinality(Frame.spent \cap AccountsOf[Entry]) < MaxTries
          /\ Cardinality(Frame.spent \cap AccountsOf[Entry]) \in Nat
      BY <1>2, <2>1, ExclusionsFacts
    <3> QED BY <1>4, <2>1, <3>1
  <2> QED BY <1>1, <1>4, <2>2, <2>3
<1>6. OwedEntry'
  <2> DEFINE n == Cardinality(Frame.spent \cap AccountsOf[Entry])
  <2>1. n \in Nat /\ n' = n
    BY <1>2, ExclusionsFacts
  <2>2. CASE pc' = "left"
    BY <1>1, <1>2, <1>5, <2>2 DEF OwedEntry
  <2>3. CASE pc' = "check"
    <3>1. cand'.tries = cand.tries + 1 /\ cand'.tried = cand.tried
      BY <1>1, <2>3
    <3>2. cand.tried # {} => \A w \in owed : w[1] # Entry
      BY <1>1 DEF OwedInv, OwedEntry
    <3>3. \A w \in owed : w[1] = Entry => cand.tries <= n
      <4>1. \A w \in owed : w[1] = Entry => cand.tries <= n + 0
        BY <1>1 DEF OwedInv, OwedEntry
      <4> HIDE DEF n
      <4> QED BY <2>1, <4>1
    <3> HIDE DEF n
    <3>4. \A w \in owed : w[1] = Entry => cand'.tries <= n + 1
      BY <1>4, <2>1, <3>1, <3>3
    <3>5. /\ owed' = owed /\ Entry' = Entry
          /\ n' = Cardinality(Frame.spent \cap AccountsOf[Entry])'
      BY <1>1, <1>2 DEF n
    <3> QED BY <2>1, <2>3, <3>1, <3>2, <3>4, <3>5 DEF OwedEntry, n
  <2> QED BY <1>1, <2>2, <2>3
<1>7. OwedRoot' /\ NoEntryStarved'
  BY <1>1, RootUntouched
<1> QED BY <1>3, <1>6, <1>7 DEF OwedInv

\* A node whose contract has ended is owed nothing more, and an account that another turn
\* has locked is owed nothing at all.
LEMMA PassedOverOwed ==
    ASSUME TurnInv, TurnInv', OwedInv, TriesSuffice, NodeBlocked \/ SkipLocked
    PROVE  OwedInv'
<1>1. /\ Frame \in Activations /\ Entry \in Entries /\ AccountsOf[Entry] \subseteq Accounts
      /\ stack \in Seq(Activations) /\ Len(stack) \in Nat \ {0}
      /\ pc \in {"pick", "check"} /\ InLoop
  <2>1. Frame.at \in DOMAIN Frame.models /\ TurnTypeOK
    BY DEF NodeBlocked, SkipLocked, TurnInv, PositionInv, AtEntry
  <2> QED BY <2>1, FrameFacts, EntryFacts DEF NodeBlocked, SkipLocked, InLoop
<1>2. CASE NodeBlocked
  <2> DEFINE f == [Frame EXCEPT !.last = "final"]
  <2>1. /\ f \in Activations /\ f.spent = Frame.spent /\ f.models = Frame.models
        /\ f.at = Frame.at /\ f.pass = Frame.pass
    BY <1>1 DEF Activations, LastErrors
  <2>2. /\ stack' = WithFrame(f) /\ pc' = "left" /\ owed' = {w \in owed : w[1] # Entry}
        /\ UNCHANGED <<parked, cooling, refusers>>
    BY <1>2 DEF NodeBlocked, db
  <2> HIDE DEF f
  <2>3. Frame' = f /\ Entry' = Entry
    BY <1>1, <2>1, <2>2 DEF WithFrame, Frame, Entry
  <2>4. OwedUsable' /\ OwedEntry'
    BY <1>1, <2>1, <2>2, <2>3 DEF OwedInv, OwedUsable, OwedEntry, Usable
  <2>5. OwedRoot' /\ NoEntryStarved'
    BY <1>1, <2>1, <2>2, RootKept
  <2> QED BY <2>4, <2>5 DEF OwedInv
<1>3. CASE SkipLocked
  <2> DEFINE f == [Frame EXCEPT !.spent = @ \cup {cand.acct}]
  <2>1. cand.acct \in AccountsOf[Entry] /\ cand.acct \notin Frame.spent /\ pc = "check"
    BY <1>3 DEF SkipLocked, TurnInv, AskInv, NotExcluded
  <2>2. /\ f \in Activations /\ f.spent = Frame.spent \cup {cand.acct}
        /\ f.models = Frame.models /\ f.at = Frame.at /\ f.pass = Frame.pass
    <3>1. Frame.spent \cup {cand.acct} \in SUBSET Accounts
      BY <1>1, <2>1 DEF Activations
    <3> QED BY <1>1, <3>1 DEF Activations
  <2>3. /\ stack' = WithFrame(f) /\ pc' = "pick" /\ owed' = {w \in owed : w[2] # cand.acct}
        /\ UNCHANGED <<parked, cooling, refusers, cand>>
    BY <1>3 DEF SkipLocked, db
  <2> HIDE DEF f
  <2>4. Frame' = f /\ Entry' = Entry
    BY <1>1, <2>2, <2>3 DEF WithFrame, Frame, Entry
  <2>5. OwedUsable'
    BY <1>1, <2>2, <2>3, <2>4 DEF OwedInv, OwedUsable, Usable
  <2>6. OwedEntry'
    <3>1. Cardinality(f.spent \cap AccountsOf[Entry])
             = Cardinality(Frame.spent \cap AccountsOf[Entry]) + 1
      BY <1>1, <2>1, <2>2, ExclusionsFacts
    <3>2. ASSUME NEW w \in owed', w[1] = Entry
          PROVE  cand.tries <= Cardinality(f.spent \cap AccountsOf[Entry]) + 0
      <4>1. cand.tries <= Cardinality(Frame.spent \cap AccountsOf[Entry]) + 1
        BY <2>1, <2>3, <3>2 DEF OwedInv, OwedEntry
      <4>2. Cardinality(Frame.spent \cap AccountsOf[Entry]) \in Nat
        BY <1>1, ExclusionsFacts
      <4> QED BY <3>1, <4>1, <4>2
    <3>3. cand.tried # {} => \A w \in owed' : w[1] # Entry
      BY <2>1, <2>3 DEF OwedInv, OwedEntry
    <3> QED BY <2>3, <2>4, <3>2, <3>3 DEF OwedEntry
  <2>7. OwedRoot' /\ NoEntryStarved'
    BY <1>1, <2>2, <2>3, RootKept
  <2> QED BY <2>5, <2>6, <2>7 DEF OwedInv
<1> QED BY <1>2, <1>3

\* A served or cancelled attempt was a send.
LEMMA AnsweredOwed ==
    ASSUME TurnInv, TurnInv', OwedInv, Served \/ Cancelled
    PROVE  OwedInv'
<1>1. /\ Frame \in Activations /\ stack \in Seq(Activations) /\ Len(stack) \in Nat \ {0}
      /\ TurnTypeOK
  BY FrameFacts DEF TurnInv
<1>2. /\ pc = "sent" /\ pc' = "left" /\ InLoop
      /\ UNCHANGED <<parked, cooling, refusers, owed>>
  BY DEF Served, Cancelled, InLoop, db, history
<1>3. PICK f \in Activations : /\ stack' = WithFrame(f) /\ f.spent = Frame.spent
                               /\ f.models = Frame.models /\ f.at = Frame.at
                               /\ f.pass = Frame.pass
  <2>1. CASE stack' = stack
    BY <1>1, <2>1, SameFrame
  <2>2. ASSUME NEW o \in LastErrors, stack' = WithFrame([Frame EXCEPT !.last = o])
        PROVE  \E f \in Activations : /\ stack' = WithFrame(f) /\ f.spent = Frame.spent
                                      /\ f.models = Frame.models /\ f.at = Frame.at
                                      /\ f.pass = Frame.pass
    <3> DEFINE f == [Frame EXCEPT !.last = o]
    <3>1. /\ f \in Activations /\ f.spent = Frame.spent /\ f.models = Frame.models
          /\ f.at = Frame.at /\ f.pass = Frame.pass
      BY <1>1 DEF Activations
    <3> HIDE DEF f
    <3> QED BY <2>2, <3>1 DEF f
  <2>3. stack' = stack \/ \E o \in LastErrors : stack' = WithFrame([Frame EXCEPT !.last = o])
    BY DEF Served, Cancelled, LastErrors
  <2> QED BY <2>1, <2>2, <2>3
<1>4. Frame' = f /\ Entry' = Entry
  BY <1>1, <1>3 DEF WithFrame, Frame, Entry
<1>5. OwedUsable' /\ OwedEntry'
  BY <1>2, <1>3, <1>4 DEF OwedInv, OwedUsable, OwedEntry, Usable
<1>6. OwedRoot' /\ NoEntryStarved'
  BY <1>2, <1>3, RootKept
<1> QED BY <1>5, <1>6 DEF OwedInv

\* A failed attempt was a send, and takes the account that refused it from what is owed.
LEMMA FailedOwed ==
    ASSUME TurnInv, TurnInv', OwedInv, NEW o \in Answers, NEW hint \in HintsOf(o),
           Failed(o, hint)
    PROVE  OwedInv'
<1> DEFINE acct == cand.acct
           S == IF Excludes(o) /\ acct # None THEN Frame.spent \cup {acct} ELSE Frame.spent
<1>1. /\ Frame \in Activations /\ stack \in Seq(Activations) /\ Len(stack) \in Nat \ {0}
      /\ TurnTypeOK /\ acct \in Accounts \cup {None} /\ hint \in Nat /\ Class(o) \in LastErrors
  <2>1. hint \in Nat
    <3>1. Hints \subseteq Nat
      BY ComboConstants
    <3> QED BY <3>1 DEF HintsOf
  <2>2. Class(o) \in LastErrors
    BY DEF Class, LastErrors
  <2> QED BY <2>1, <2>2, FrameFacts DEF TurnInv, TurnTypeOK, Tries
<1>2. /\ pc = "sent" /\ pc' \in {"pick", "left"} /\ InLoop /\ owed' \subseteq owed
      /\ owed' = StillOwed(parked', cooling', refusers')
      /\ refusers' = IF acct # None /\ (LocksModel(o) \/ o = "freeTier")
                     THEN refusers \cup {acct} ELSE refusers
  BY DEF Failed, InLoop, StillOwed
<1>3. PICK f \in Activations : /\ stack' = WithFrame(f) /\ f.spent = S
                               /\ f.models = Frame.models /\ f.at = Frame.at
                               /\ f.pass = Frame.pass
  <2> DEFINE g == [Frame EXCEPT !.last = Class(o), !.spent = S]
             limited == o \in {"quota", "modelQuota", "freeTier"}
             f == Note(g, hint, limited)
  <2>1. S \in SUBSET Accounts
    BY <1>1 DEF Activations
  <2>2. stack' = WithFrame(f)
    <3>1. [Frame EXCEPT !.last = Class(o),
                        !.spent = IF Excludes(o) /\ acct # None THEN @ \cup {acct} ELSE @] = g
      BY <1>1 DEF Activations
    <3> QED BY <3>1 DEF Failed
  <2>3. /\ g \in Activations /\ g.spent = S /\ g.models = Frame.models /\ g.at = Frame.at
        /\ g.pass = Frame.pass
    <3> HIDE DEF S
    <3> QED BY <1>1, <2>1 DEF Activations
  <2>4. limited \in BOOLEAN
    OBVIOUS
  <2>5. f.pass = g.pass
    <3> HIDE DEF g, limited
    <3> QED BY <2>3 DEF Note, Activations
  <2>6. /\ f \in Activations /\ f.spent = g.spent /\ f.models = g.models /\ f.at = g.at
    <3> HIDE DEF g, S, limited
    <3> QED BY <1>1, <2>3, <2>4, Noted
  <2> HIDE DEF f, g, S, limited
  <2> QED BY <2>2, <2>3, <2>5, <2>6
<1>4. Frame' = f /\ Entry' = Entry
  BY <1>1, <1>3 DEF WithFrame, Frame, Entry
<1>5. \A w \in owed' : Usable(w[2], w[1])' /\ w[2] \notin refusers'
  BY <1>2 DEF StillOwed, Usable
<1>6. OwedUsable'
  <2>1. \A w \in owed' : w[2] \in AccountsOf[w[1]] /\ w[2] \in Accounts /\ w[2] \notin Frame.spent
    BY <1>2 DEF OwedInv, OwedUsable, TurnInv, TurnTypeOK
  <2>2. \A w \in owed' : w[2] \notin S
    BY <1>2, <1>5, <2>1 DEF Excludes
  <2> QED BY <1>3, <1>4, <1>5, <2>1, <2>2 DEF OwedUsable
<1>7. OwedEntry'
  BY <1>2, <1>4 DEF OwedInv, OwedEntry
<1>8. OwedRoot' /\ NoEntryStarved'
  BY <1>2, <1>3, RootKept
<1> QED BY <1>6, <1>7, <1>8 DEF OwedInv

\* A return hands what is owed to the caller: a fallback combo was only entered when the
\* client's chain was owed nothing.
LEMMA ReturnOwed ==
    ASSUME TurnInv, TurnInv', OwedInv, Return,
           UNCHANGED <<parked, cooling, refusers, owed>>, reply' = reply, pc # "done"
    PROVE  OwedInv'
<1>1. stack'[1] = stack[1] /\ pc' \in {"done", "returned"}
      /\ (pc' = "returned" <=> Len(stack) # 1) /\ Len(stack) \in Nat \ {0}
  BY Returned, FrameFacts DEF TurnInv
<1>2. OwedUsable' /\ OwedEntry'
  BY <1>1 DEF OwedInv, OwedUsable, OwedEntry, InLoop, Usable
<1>3. RootCleared => RootCleared'
  BY <1>1 DEF RootCleared
<1>4. pc' = "returned" => RootCleared
  <2> DEFINE n == Len(stack)
  <2>1. n # 1 => n > 1
    <3>1. n \in Nat \ {0}
      BY <1>1
    <3> HIDE DEF n
    <3> QED BY <3>1
  <2> QED BY <1>1, <2>1 DEF OwedInv, OwedRoot
<1>5. pc' = "done" => Len(stack') = 1
  BY <1>1 DEF Return
<1>6. OwedRoot'
  BY <1>1, <1>3, <1>4, <1>5 DEF OwedInv, OwedRoot, InLoop
<1>7. NoEntryStarved'
  BY DEF TurnInv, FallbackInv, NoEntryStarved
<1> QED BY <1>2, <1>6, <1>7 DEF OwedInv

\* The loop goes on once the entry is owed nothing, and a veto ends the activation.
LEMMA LeaveEntryOwed ==
    ASSUME TurnInv, TurnInv', OwedInv, LeaveEntry
    PROVE  OwedInv'
<1> DEFINE f == IF TimedOut THEN [Frame EXCEPT !.last = "timeout", !.late = TRUE] ELSE Frame
           g == [f EXCEPT !.at = @ + 1]
<1>1. /\ pc = "left" /\ InLoop /\ UNCHANGED <<parked, cooling, reply, refusers, owed>>
      /\ \/ Return
         \/ pc' = "fallback" /\ stack' = WithFrame(f) /\ EndsTurn(f.last)
         \/ pc' = "entry" /\ stack' = WithFrame(g)
  BY DEF LeaveEntry, history, InLoop
<1>2. /\ Frame \in Activations /\ Frame.at \in Nat
      /\ stack \in Seq(Activations) /\ Len(stack) \in Nat \ {0}
  BY FrameFacts DEF TurnInv, Activations
<1>3. /\ f \in Activations /\ f.models = Frame.models /\ f.at = Frame.at /\ f.spent = Frame.spent
      /\ f.pass = Frame.pass
  BY <1>2 DEF Activations, LastErrors
<1>4. /\ g \in Activations /\ g.models = Frame.models /\ g.at = Frame.at + 1
      /\ g.spent = Frame.spent /\ g.pass = Frame.pass
  <2>1. Frame.at + 1 \in Nat \ {0} /\ g = [f EXCEPT !.at = Frame.at + 1]
    BY <1>2, <1>3
  <2> HIDE DEF f, g
  <2> QED BY <1>2, <1>3, <2>1 DEF Activations
<1> HIDE DEF f, g
<1>5. CASE Return
  BY <1>1, <1>5, ReturnOwed
<1>6. CASE pc' = "fallback" /\ stack' = WithFrame(f) /\ EndsTurn(f.last)
  <2>1. OwedUsable' /\ OwedEntry'
    BY <1>1, <1>6 DEF OwedInv, OwedUsable, OwedEntry, InLoop, Usable
  <2>2. OwedRoot' /\ NoEntryStarved'
    BY <1>1, <1>3, <1>6, RootKept DEF EndsTurn
  <2> QED BY <2>1, <2>2 DEF OwedInv
<1>7. CASE pc' = "entry" /\ stack' = WithFrame(g)
  <2>1. Frame' = g
    BY <1>2, <1>7 DEF WithFrame, Frame
  <2>2. OwedUsable' /\ OwedEntry'
    BY <1>1, <1>4, <1>7, <2>1 DEF OwedInv, OwedUsable, OwedEntry, Usable
  <2>3. \A w \in owed : w[1] # Entry
    BY <1>1 DEF OwedInv, OwedEntry
  <2>4. OwedRoot' /\ NoEntryStarved'
    BY <1>1, <1>4, <1>7, <2>3, RootKept
  <2> QED BY <2>2, <2>4 DEF OwedInv
<1> QED BY <1>1, <1>5, <1>6, <1>7

\* A pass that ends has come past every entry.
LEMMA PassEndOwed ==
    ASSUME TurnInv, TurnInv', OwedInv, \/ EndPass
                                       \/ Resume /\ reply = "none"
    PROVE  OwedInv'
<1>1. /\ UNCHANGED <<stack, parked, cooling, refusers, owed>> /\ pc' \in {"hold", "fallback"}
      /\ \/ pc = "entry" /\ Frame.at > Len(Frame.models)
         \/ pc = "returned" /\ pc' = "fallback"
  BY DEF EndPass, Resume, db, history
<1>2. OwedUsable' /\ OwedEntry'
  BY <1>1 DEF OwedInv, OwedUsable, OwedEntry, InLoop, Usable
<1>3. (Len(stack) = 1 /\ pc = "entry") => RootCleared
  <2> SUFFICES ASSUME Len(stack) = 1, pc = "entry", NEW w \in owed,
                      w[1] \in ToSet(stack[1].models)
               PROVE  FALSE
    BY DEF RootCleared
  <2>1. /\ Frame = stack[1] /\ Frame.at \in 1 .. Len(Frame.models) + 1
        /\ Frame.models \in Seq(Entries)
    BY FrameFacts DEF TurnInv
  <2>2. PICK i \in 1 .. Len(Frame.models) : w[1] = Frame.models[i]
    BY <2>1 DEF ToSet
  <2>3. Frame.at = Len(Frame.models) + 1
    BY <1>1, <2>1
  <2>4. i \in 1 .. stack[1].at - 1
    BY <2>1, <2>2, <2>3
  <2> QED BY <2>1, <2>2, <2>4 DEF OwedInv, OwedRoot, InLoop
<1>4. RootCleared' <=> RootCleared
  BY <1>1 DEF RootCleared
<1>5. OwedRoot'
  BY <1>1, <1>3, <1>4 DEF OwedInv, OwedRoot, InLoop
<1>6. NoEntryStarved'
  BY <1>1 DEF TurnInv, FallbackInv, NoEntryStarved
<1> QED BY <1>2, <1>5, <1>6 DEF OwedInv

\* The second pass is owed nothing.
LEMMA SecondPassOwed ==
    ASSUME TurnInv, TurnInv', OwedInv, SecondPass
    PROVE  OwedInv'
<1> DEFINE f == [Frame EXCEPT !.pass = 2, !.at = 1, !.last = "none",
                !.earliest = 0, !.limited = FALSE, !.spent = {}, !.seen = {}, !.index = 0]
<1>1. /\ pc = "hold" /\ pc' = "entry" /\ stack' = WithFrame(f) /\ refusers' = {}
      /\ UNCHANGED <<parked, cooling, owed>>
  BY DEF SecondPass, db
<1>2. /\ Frame \in Activations /\ stack \in Seq(Activations) /\ Len(stack) \in Nat \ {0}
      /\ (Len(stack) = 1 => Frame = stack[1])
  BY FrameFacts DEF TurnInv
<1>3. f.spent = {} /\ f.models = Frame.models /\ f.at = 1
  BY <1>2 DEF Activations
<1> HIDE DEF f
<1>4. /\ Frame' = f /\ Len(stack') = Len(stack)
      /\ stack'[1] = IF Len(stack) = 1 THEN f ELSE stack[1]
  BY <1>1, <1>2 DEF WithFrame, Frame
<1>5. RootCleared
  <2> DEFINE n == Len(stack)
  <2>1. n = 1 \/ n > 1
    <3>1. n \in Nat \ {0}
      BY <1>2
    <3> HIDE DEF n
    <3> QED BY <3>1
  <2> QED BY <1>1, <2>1 DEF OwedInv, OwedRoot
<1>6. RootCleared'
  <2>1. stack'[1].models = stack[1].models
    BY <1>2, <1>3, <1>4
  <2> QED BY <1>1, <1>5, <2>1 DEF RootCleared
<1>7. OwedUsable' /\ OwedEntry'
  BY <1>1, <1>3, <1>4 DEF OwedInv, OwedUsable, OwedEntry, Usable
<1>8. (Len(stack') = 1 /\ InLoop') =>
          \A w \in owed' : \A i \in 1 .. stack'[1].at - 1 : w[1] # stack'[1].models[i]
  BY <1>3, <1>4
<1>9. OwedRoot'
  BY <1>6, <1>8 DEF OwedRoot
<1>10. NoEntryStarved'
  BY <1>1 DEF TurnInv, FallbackInv, NoEntryStarved
<1> QED BY <1>7, <1>9, <1>10 DEF OwedInv

\* A fallback combo is entered when the client's chain is owed nothing: a refusal of the
\* guardrail, after which it may be owed something, is not retried.
LEMMA TryFallbackOwed ==
    ASSUME TurnInv, TurnInv', OwedInv, TryFallbackCombo
    PROVE  OwedInv'
<1> DEFINE j == Min(Untried(Frame))
           c == Fallbacks[Frame.combo][j]
           f == [Frame EXCEPT !.next = j + 1]
<1>1. /\ pc = "fallback" /\ pc' = "entry" /\ refusers' = {} /\ IsRetryable(Frame.last)
      /\ UNCHANGED <<parked, cooling, owed>>
  BY DEF TryFallbackCombo, Descends, db
<1>2. PICK order \in Orders(c) :
          stack' = Append(WithFrame(f), Activation(c, order, Seen(Frame) \cup {c}))
  BY DEF TryFallbackCombo
<1> DEFINE g == Activation(c, order, Seen(Frame) \cup {c})
<1>3. /\ Frame \in Activations /\ stack \in Seq(Activations) /\ Len(stack) \in Nat \ {0}
      /\ (Len(stack) = 1 => Frame = stack[1])
  BY FrameFacts DEF TurnInv
<1>4. g.spent = {}
  BY DEF Activation
<1>5. f.models = Frame.models
  BY <1>3 DEF Activations
<1>6. stack' = Append(WithFrame(f), g)
  BY <1>2
<1> HIDE DEF f, g, j, c
<1>7. /\ Len(stack') = Len(stack) + 1 /\ Frame' = g
      /\ stack'[1] = IF Len(stack) = 1 THEN f ELSE stack[1]
  <2> DEFINE w == WithFrame(f)
  <2>1. /\ DOMAIN w = 1 .. Len(stack) /\ Len(w) = Len(stack) /\ w = [i \in 1 .. Len(stack) |-> w[i]]
        /\ w[1] = IF Len(stack) = 1 THEN f ELSE stack[1]
    BY <1>3 DEF WithFrame
  <2>2. w \in Seq(Activations \cup {f})
    BY <1>3, <2>1 DEF WithFrame
  <2> HIDE DEF w
  <2>3. /\ Len(stack') = Len(stack) + 1 /\ stack'[Len(stack) + 1] = g /\ stack'[1] = w[1]
    BY <1>3, <1>6, <2>1, <2>2 DEF w
  <2> QED BY <2>1, <2>3 DEF Frame
<1>8. RootCleared
  <2> DEFINE n == Len(stack)
  <2>1. n = 1 \/ n > 1
    <3>1. n \in Nat \ {0}
      BY <1>3
    <3> HIDE DEF n
    <3> QED BY <3>1
  <2>2. n = 1 => stack[1].last # "guardrail"
    BY <1>1, <1>3 DEF IsRetryable
  <2> QED BY <1>1, <2>1, <2>2 DEF OwedInv, OwedRoot
<1>9. RootCleared'
  <2>1. stack'[1].models = stack[1].models
    BY <1>3, <1>5, <1>7
  <2> QED BY <1>1, <1>8, <2>1 DEF RootCleared
<1>10. OwedUsable' /\ OwedEntry'
  BY <1>1, <1>4, <1>7 DEF OwedInv, OwedUsable, OwedEntry, Usable
<1>11. OwedRoot'
  <2>1. Len(stack') # 1
    BY <1>3, <1>7
  <2> QED BY <1>9, <2>1 DEF OwedRoot
<1>12. NoEntryStarved'
  BY <1>1 DEF TurnInv, FallbackInv, NoEntryStarved
<1> QED BY <1>10, <1>11, <1>12 DEF OwedInv

\* The error is written when the client's combo gives up: its chain is owed nothing then,
\* unless the guardrail ended it.
LEMMA FinishOwed ==
    ASSUME TurnInv, TurnInv', OwedInv, FinishCombo
    PROVE  OwedInv'
<1>1. /\ pc = "fallback" /\ Return /\ UNCHANGED <<parked, cooling, refusers, owed>>
      /\ reply' = IF reply = "none" /\ IsRoot THEN "error" ELSE reply
  BY DEF FinishCombo, db, history
<1>2. CASE reply' = reply
  BY <1>1, <1>2, ReturnOwed
<1>3. CASE reply = "none" /\ IsRoot
  <2>1. stack' = stack /\ Len(stack) = 1 /\ pc' = "done"
    BY <1>1, <1>3 DEF Return, IsRoot
  <2>2. OwedUsable' /\ OwedEntry'
    BY <1>1, <2>1 DEF OwedInv, OwedUsable, OwedEntry, InLoop, Usable
  <2>3. RootCleared' <=> RootCleared
    BY <1>1, <2>1 DEF RootCleared
  <2>4. OwedRoot'
    BY <2>1, <2>3 DEF OwedInv, OwedRoot, InLoop
  <2>5. RootCleared \/ stack[1].last = "guardrail"
    BY <1>1, <2>1 DEF OwedInv, OwedRoot
  <2>6. NoEntryStarved'
    BY <1>1, <2>1, <2>5 DEF NoEntryStarved, RootCleared, TurnInv, FallbackInv
  <2> QED BY <2>2, <2>4, <2>6 DEF OwedInv
<1> QED BY <1>1, <1>2, <1>3

\* No entry is passed over, for providers with no more accounts than an entry may try: an
\* error that no guardrail caused means that every entry of the client's chain that had an
\* account usable throughout has been sent the prompt.
THEOREM EveryEntryTried ==
    ASSUME TriesSuffice
    PROVE  TurnSpec => []NoEntryStarved
<1>1. TurnInit => OwedInv
  <2> SUFFICES ASSUME TurnInit PROVE OwedInv
    OBVIOUS
  <2>1. PICK order \in Orders(Root) : stack = <<Activation(Root, order, {})>>
    BY DEF TurnInit
  <2> DEFINE g == Activation(Root, order, {})
  <2>2. g.spent = {} /\ g.at = 1 /\ g.pass = 1
    BY DEF Activation
  <2> HIDE DEF g
  <2>3. stack = <<g>>
    BY <2>1 DEF g
  <2>4. Len(stack) = 1 /\ stack[1] = g /\ Frame = g
    BY <2>3 DEF Frame
  <2>5. \A w \in owed : w[2] \in AccountsOf[w[1]]
    BY DEF TurnInit
  <2>6. OwedUsable
    BY <2>2, <2>4, <2>5 DEF TurnInit, OwedUsable, Usable
  <2>7. OwedEntry /\ NoEntryStarved
    BY DEF TurnInit, OwedEntry, NoEntryStarved
  <2>8. OwedRoot
    BY <2>2, <2>4 DEF TurnInit, OwedRoot
  <2> QED BY <2>6, <2>7, <2>8 DEF OwedInv
<1>2. TurnInv /\ TurnInv' /\ OwedInv /\ [TurnNext]_turn => OwedInv'
  <2> SUFFICES ASSUME TurnInv, TurnInv', OwedInv, [TurnNext]_turn PROVE OwedInv'
    OBVIOUS
  <2>1. CASE UNCHANGED turn
    <3>1. UNCHANGED <<pc, stack, cand, parked, cooling, gone, reply, refusers, owed>>
      BY <2>1 DEF turn, db, history
    <3>2. Frame' = Frame /\ Entry' = Entry
      BY <3>1 DEF Frame, Entry
    <3> QED BY <3>1, <3>2 DEF OwedInv, OwedUsable, OwedEntry, OwedRoot, RootCleared, InLoop,
               Usable, NoEntryStarved
  <2>2. CASE Turn
    <3>1. CASE LeaveWait \/ Resume
      <4>1. CASE Return /\ reply' = reply
        BY <3>1, <4>1, ReturnOwed DEF LeaveWait, Resume, db, history
      <4>2. CASE Resume /\ reply = "none"
        BY <4>2, PassEndOwed
      <4> QED BY <3>1, <4>1, <4>2 DEF LeaveWait, Resume
    <3>2. CASE TryFallbackCombo \/ FinishCombo
      BY <3>2, TryFallbackOwed, FinishOwed
    <3>3. CASE LeaveEntry \/ EndPass \/ SecondPass
      BY <3>3, LeaveEntryOwed, PassEndOwed, SecondPassOwed
    <3>4. CASE \E o \in Answers : \E hint \in HintsOf(o) : Failed(o, hint)
      BY <3>4, FailedOwed
    <3>5. CASE \/ StartEntry \/ SendWithoutAccount \/ GiveEntryUp \/ NodeBlocked
               \/ \E a \in Accounts : SelectAccount(a)
               \/ SkipLocked \/ SendToAccount \/ Served \/ Cancelled
      BY <3>5, TriesSuffice, StartEntryOwed, SendOwed, SelectOwed, PassedOverOwed, AnsweredOwed
    <3> QED BY <2>2, <3>1, <3>2, <3>3, <3>4, <3>5 DEF Turn
  <2>3. CASE \/ FirstBytes \/ Expire \/ HangUp
             \/ \E a \in Accounts : OthersCoolDown(a) \/ AccountRecovers(a)
             \/ \E a \in Accounts, e \in Entries : OthersLock(a, e)
    BY <2>3, QuietOwed
  <2> QED BY <2>1, <2>2, <2>3 DEF TurnNext, Ended
<1>3. OwedInv => NoEntryStarved
  BY DEF OwedInv
<1> QED BY <1>1, <1>2, <1>3, TurnInvariant, PTL DEF TurnSpec

------------------------------------------------------------------------------
(* The call ceilings.                                                      *)

\* The requests that were told to go ahead and are not charged yet.
Pending(c) == {q \in Callers : asks[q] = c /\ q \notin withheld}

\* OvershootBounded is not inductive: it says nothing of the requests that have passed
\* the check.  They and the calls already served stay together within the bound,
\* because a request passes only while the counter is below the ceiling, and a counter
\* never falls behind the calls it has let through.
PendingFits(c) ==
    dispatched[c] + Cardinality(Pending(c)) <= BudgetCalls[c] + Cardinality(Callers) - 1
AllCounted(c) == comboBudget[c] # Uncounted => dispatched[c] <= comboBudget[c]

BudgetInv == BudgetTypeOK /\ \A c \in Capped : PendingFits(c) /\ AllCounted(c)

\* The goroutines can be counted, and there is one.
LEMMA CallersCounted ==
    Cardinality(Callers) \in Nat /\ Cardinality(Callers) > 0
BY BudgetAssumption, FS_CardinalityType, FS_EmptySet

\* No more requests are pending than there are goroutines.
LEMMA PendingBounded ==
    ASSUME NEW c
    PROVE  /\ IsFiniteSet(Pending(c)) /\ Cardinality(Pending(c)) \in Nat
           /\ Cardinality(Pending(c)) <= Cardinality(Callers)
<1>1. Pending(c) \subseteq Callers
    BY DEF Pending
<1>2. IsFiniteSet(Callers)
    BY BudgetAssumption
<1> QED
    BY <1>1, <1>2, FS_Subset, FS_CardinalityType

\* The same after a step.
LEMMA PendingBoundedAfter ==
    ASSUME NEW c
    PROVE  /\ IsFiniteSet(Pending(c)') /\ Cardinality(Pending(c)') \in Nat
           /\ Cardinality(Pending(c)') <= Cardinality(Callers)
<1>1. Pending(c)' \subseteq Callers
    BY DEF Pending
<1>2. IsFiniteSet(Callers)
    BY BudgetAssumption
<1> QED
    BY <1>1, <1>2, FS_Subset, FS_CardinalityType

\* No window has begun at the start.
LEMMA InitBudgetInv == BudgetInit => BudgetInv
<1> SUFFICES ASSUME BudgetInit PROVE BudgetInv
    OBVIOUS
<1>1. BudgetTypeOK
    BY DEF BudgetInit, BudgetTypeOK
<1>2. ASSUME NEW c \in Capped PROVE PendingFits(c) /\ AllCounted(c)
    <2>1. c # Uncounted => Pending(c) = {}
        BY DEF BudgetInit, Pending
    <2>2. dispatched[c] = 0 /\ BudgetCalls[c] \in Nat \ {0}
        BY BudgetAssumption DEF BudgetInit
    <2>3. comboBudget[c] = Uncounted
        BY DEF BudgetInit
    <2> QED
        BY <2>2, <2>3, PendingBounded, CallersCounted DEF PendingFits, AllCounted
<1> QED
    BY <1>1, <1>2 DEF BudgetInv

\* A new window admits the request that begins it.
LEMMA AskFreshInv ==
    ASSUME BudgetInv, NEW q \in Callers, NEW c \in Capped, AskFresh(q, c)
    PROVE  BudgetInv'
<1>1. BudgetTypeOK'
    BY DEF BudgetInv, AskFresh, BudgetTypeOK
<1>2. ASSUME NEW d \in Capped, d # c PROVE PendingFits(d)' /\ AllCounted(d)'
    <2>1. Pending(d)' \subseteq Pending(d)
        BY <1>2 DEF Pending, AskFresh, BudgetInv, BudgetTypeOK
    <2>2. Cardinality(Pending(d)') <= Cardinality(Pending(d))
        BY <2>1, PendingBounded, FS_Subset
    <2>3. dispatched'[d] = dispatched[d] /\ comboBudget'[d] = comboBudget[d]
        BY <1>2 DEF AskFresh, BudgetInv, BudgetTypeOK
    <2>4. dispatched[d] \in Nat /\ BudgetCalls[d] \in Nat
        BY BudgetAssumption DEF BudgetInv, BudgetTypeOK
    <2> QED
        BY <2>2, <2>3, <2>4, PendingBounded, PendingBoundedAfter, CallersCounted
        DEF BudgetInv, PendingFits, AllCounted
<1>3. PendingFits(c)' /\ AllCounted(c)'
    <2>1. dispatched'[c] = 0 /\ comboBudget'[c] = 0 /\ BudgetCalls[c] \in Nat \ {0}
        BY BudgetAssumption DEF AskFresh, BudgetInv, BudgetTypeOK
    <2> QED
        BY <2>1, PendingBoundedAfter, CallersCounted DEF PendingFits, AllCounted
<1> QED
    BY <1>1, <1>2, <1>3 DEF BudgetInv

\* Within a window, only a request that finds the counter below the ceiling passes.
LEMMA AskWithinInv ==
    ASSUME BudgetInv, NEW q \in Callers, NEW c \in Capped, AskWithin(q, c)
    PROVE  BudgetInv'
<1>1. BudgetTypeOK'
    BY DEF BudgetInv, AskWithin, BudgetTypeOK
<1>2. ASSUME NEW d \in Capped PROVE PendingFits(d)' /\ AllCounted(d)'
    <2>0. /\ dispatched'[d] = dispatched[d] /\ comboBudget'[d] = comboBudget[d]
          /\ dispatched[d] \in Nat /\ BudgetCalls[d] \in Nat
        BY BudgetAssumption DEF AskWithin, BudgetInv, BudgetTypeOK
    <2>1. AllCounted(d)'
        BY <2>0 DEF BudgetInv, AllCounted
    <2>2. CASE d # c \/ Spent(c)
        <3>1. Pending(d)' \subseteq Pending(d)
            BY <2>2 DEF Pending, AskWithin, BudgetInv, BudgetTypeOK
        <3>2. Cardinality(Pending(d)') <= Cardinality(Pending(d))
            BY <3>1, PendingBounded, FS_Subset
        <3> QED
            BY <2>0, <2>1, <3>2, PendingBounded, PendingBoundedAfter, CallersCounted
            DEF BudgetInv, PendingFits
    <2>3. CASE d = c /\ ~Spent(c)
        <3>1. comboBudget[c] \in Nat /\ comboBudget[c] < BudgetCalls[c]
            BY <2>3, <2>0 DEF AskWithin, Fresh, Spent, BudgetInv, BudgetTypeOK
        <3>2. dispatched[c] <= BudgetCalls[c] - 1
            BY <2>0, <2>3, <3>1, BudgetAssumption DEF BudgetInv, AllCounted
        <3> QED
            BY <2>0, <2>1, <2>3, <3>2, PendingBoundedAfter, CallersCounted DEF PendingFits
    <2> QED
        BY <2>2, <2>3
<1> QED
    BY <1>1, <1>2 DEF BudgetInv

\* A charge moves the request from the pending ones to the served ones; in a window
\* that has begun anew meanwhile it is the first.
LEMMA ChargeInv ==
    ASSUME BudgetInv, NEW q \in Callers, NEW c \in Capped, c = asks[q], Charge(q)
    PROVE  BudgetInv'
<1>1. BudgetTypeOK'
    <2>1. comboBudget' \in [Capped -> Nat \cup {Uncounted}]
        BY DEF BudgetInv, Charge, BudgetTypeOK, Fresh
    <2>2. dispatched' \in [Capped -> Nat] /\ windowAge' \in [Capped -> Nat]
        BY DEF BudgetInv, Charge, BudgetTypeOK
    <2> QED
        BY <2>1, <2>2 DEF BudgetInv, Charge, BudgetTypeOK
<1>2. asks' = [asks EXCEPT ![q] = Uncounted] /\ withheld' = withheld \ {q}
    BY DEF Charge
<1>3. ASSUME NEW d \in Capped, d # c PROVE PendingFits(d)' /\ AllCounted(d)'
    <2>1. Pending(d)' \subseteq Pending(d)
        <3> SUFFICES ASSUME NEW p \in Callers, asks'[p] = d, p \notin withheld'
                     PROVE  asks[p] = d /\ p \notin withheld
            BY DEF Pending
        <3>1. CASE p = q
            BY <1>2, <3>1, BudgetAssumption DEF BudgetInv, BudgetTypeOK
        <3>2. CASE p # q
            BY <1>2, <3>2 DEF BudgetInv, BudgetTypeOK
        <3> QED
            BY <3>1, <3>2
    <2>2. Cardinality(Pending(d)') <= Cardinality(Pending(d))
        BY <2>1, PendingBounded, FS_Subset
    <2>3. /\ dispatched'[d] = dispatched[d]
          /\ comboBudget'[d] = comboBudget[d] \/ comboBudget'[d] = Uncounted
        BY <1>3 DEF Charge, BudgetInv, BudgetTypeOK
    <2>4. dispatched[d] \in Nat /\ BudgetCalls[d] \in Nat
        BY BudgetAssumption DEF BudgetInv, BudgetTypeOK
    <2> QED
        BY <2>2, <2>3, <2>4, PendingBounded, PendingBoundedAfter, CallersCounted
        DEF BudgetInv, PendingFits, AllCounted
<1>4. PendingFits(c)' /\ AllCounted(c)'
    <2> DEFINE served == IF q \in withheld THEN 0 ELSE 1
    <2>1. /\ dispatched[c] \in Nat /\ BudgetCalls[c] \in Nat \ {0}
          /\ comboBudget[c] \in Nat \cup {Uncounted}
        BY BudgetAssumption DEF BudgetInv, BudgetTypeOK
    <2>2. /\ comboBudget'[c] = (IF Fresh(c) THEN 0 ELSE comboBudget[c]) + 1
          /\ dispatched'[c] = IF Fresh(c) THEN served ELSE dispatched[c] + served
        BY DEF Charge, BudgetInv, BudgetTypeOK
    <2>3. AllCounted(c)'
        BY <2>1, <2>2 DEF AllCounted, Fresh, BudgetInv
    <2>4. Pending(c)' = Pending(c) \ {q}
        BY <1>2, BudgetAssumption DEF Pending, BudgetInv, BudgetTypeOK
    <2>5. Cardinality(Pending(c)') <= Cardinality(Callers) - 1
        <3>1. Pending(c)' \subseteq Callers \ {q}
            BY <2>4 DEF Pending
        <3>2. /\ IsFiniteSet(Callers \ {q})
              /\ Cardinality(Callers \ {q}) = Cardinality(Callers) - 1
            BY BudgetAssumption, FS_RemoveElement
        <3> QED
            BY <3>1, <3>2, FS_Subset
    <2>6. Cardinality(Pending(c)') + served <= Cardinality(Pending(c))
        <3>1. CASE q \in withheld
            <4>1. Pending(c)' = Pending(c)
                BY <2>4, <3>1 DEF Pending
            <4> QED
                BY <3>1, <4>1, PendingBounded
        <3>2. CASE q \notin withheld
            <4>1. q \in Pending(c)
                BY <3>2 DEF Pending
            <4>2. Cardinality(Pending(c) \ {q}) = Cardinality(Pending(c)) - 1
                BY <4>1, PendingBounded, FS_RemoveElement
            <4> QED
                BY <2>4, <3>2, <4>2, PendingBounded
        <3> QED
            BY <3>1, <3>2
    <2>7. served \in 0 .. 1
        OBVIOUS
    <2>8. PendingFits(c)
        BY DEF BudgetInv
    <2>9. PendingFits(c)'
        <3> HIDE DEF served
        <3>1. CASE Fresh(c)
            BY <3>1, <2>1, <2>2, <2>5, <2>7, PendingBoundedAfter, CallersCounted
            DEF PendingFits
        <3>2. CASE ~Fresh(c)
            BY <3>2, <2>1, <2>2, <2>6, <2>7, <2>8, PendingBounded, PendingBoundedAfter,
               CallersCounted DEF PendingFits
        <3> QED
            BY <3>1, <3>2
    <2> QED
        BY <2>3, <2>9
<1> QED
    BY <1>1, <1>3, <1>4 DEF BudgetInv

\* Time, and steps that change nothing.
LEMMA OtherInv ==
    ASSUME BudgetInv, BudgetTick \/ UNCHANGED budget
    PROVE  BudgetInv'
<1>1. BudgetTypeOK'
    BY BudgetAssumption DEF BudgetInv, BudgetTypeOK, BudgetTick, budget
<1>2. ASSUME NEW c \in Capped PROVE PendingFits(c)' /\ AllCounted(c)'
    BY DEF BudgetInv, BudgetTick, budget, PendingFits, AllCounted, Pending
<1> QED
    BY <1>1, <1>2 DEF BudgetInv

\* Every step keeps the invariant.
LEMMA NextBudgetInv == BudgetInv /\ [BudgetNext]_budget => BudgetInv'
<1> SUFFICES ASSUME BudgetInv, [BudgetNext]_budget PROVE BudgetInv'
    OBVIOUS
<1>1. ASSUME NEW q \in Callers, Charge(q) PROVE BudgetInv'
    <2>1. asks[q] \in Capped
        BY <1>1 DEF Charge, BudgetInv, BudgetTypeOK
    <2> QED
        BY <1>1, <2>1, ChargeInv
<1> QED
    BY <1>1, AskFreshInv, AskWithinInv, OtherInv DEF BudgetNext

\* A ceiling is overshot at most by the goroutines that had passed the check before the
\* others were charged (comboBudgetExhausted and recordComboBudgetCall).
THEOREM OvershootCapped == BudgetSpec => []OvershootBounded
<1>1. BudgetInv => OvershootBounded
    <2> SUFFICES ASSUME BudgetInv, NEW c \in Capped
                 PROVE  dispatched[c] <= BudgetCalls[c] + Cardinality(Callers) - 1
        BY DEF OvershootBounded
    <2>1. dispatched[c] \in Nat /\ BudgetCalls[c] \in Nat
        BY BudgetAssumption DEF BudgetInv, BudgetTypeOK
    <2> QED
        BY <2>1, PendingBounded, CallersCounted DEF BudgetInv, PendingFits
<1> QED
    BY <1>1, InitBudgetInv, NextBudgetInv, PTL DEF BudgetSpec

\* No charge of another combo, and no new window of one, forgets what a combo has spent
\* in a window that is still open.
THEOREM SpendNotForgotten == BudgetSpec => SpendKept
<1>1. BudgetInv /\ [BudgetNext]_budget =>
        [\A c \in Capped : ~Fresh(c) =>
            comboBudget'[c] # Uncounted /\ comboBudget'[c] >= comboBudget[c]]_budget
    <2> SUFFICES ASSUME BudgetInv, BudgetNext, NEW c \in Capped, ~Fresh(c)
                 PROVE  comboBudget'[c] # Uncounted /\ comboBudget'[c] >= comboBudget[c]
        OBVIOUS
    <2>0. comboBudget[c] \in Nat /\ Uncounted \notin Nat /\ ~Expired(c)
        BY BudgetAssumption DEF BudgetInv, BudgetTypeOK, Fresh
    <2>1. ASSUME NEW q \in Callers, NEW d \in Capped, AskFresh(q, d) \/ AskWithin(q, d)
          PROVE  comboBudget'[c] = comboBudget[c]
        BY <2>1 DEF AskFresh, AskWithin, BudgetInv, BudgetTypeOK
    <2>2. ASSUME NEW q \in Callers, Charge(q)
          PROVE  comboBudget'[c] \in {comboBudget[c], comboBudget[c] + 1}
        BY <2>0, <2>2 DEF Charge, Prunable, BudgetInv, BudgetTypeOK
    <2>3. CASE BudgetTick
        BY <2>0, <2>3 DEF BudgetTick
    <2> QED
        BY <2>0, <2>1, <2>2, <2>3 DEF BudgetNext
<1> QED
    BY <1>1, InitBudgetInv, NextBudgetInv, PTL DEF BudgetSpec, SpendKept

------------------------------------------------------------------------------
(* The panel of a fusion turn.                                             *)

\* What makes the account inductive: a model has one result on its way at most, and only
\* once its goroutine is over and nothing of it has been received.
OneOnTheWay ==
    \A m \in Panel, r \in Results : <<m, r>> \in channel =>
        /\ call[m] = "ended" /\ results[m] = "none"
        /\ \A s \in Results : <<m, s>> \in channel => s = r

FusionInv == FusionTypeOK /\ OneOnTheWay /\ PanelAccounted

\* A turn starts with every call under way and nothing received.
LEMMA FusionInitInv == FusionInit => FusionInv
<1> SUFFICES ASSUME FusionInit PROVE FusionInv
    OBVIOUS
<1>1. FusionTypeOK
    BY DEF FusionInit, FusionTypeOK
<1>2. OneOnTheWay /\ PanelAccounted
    BY DEF FusionInit, OneOnTheWay, PanelAccounted
<1> QED
    BY <1>1, <1>2 DEF FusionInv

\* A call that returns or is aborted has sent nothing yet.
LEMMA ReturnInv ==
    ASSUME FusionInv, NEW m \in Panel, NEW r \in Results,
           CallReturns(m, r) \/ CallAborts(m)
    PROVE  FusionInv'
<1>1. /\ call[m] = "running"
      /\ \E s \in Results : call' = [call EXCEPT ![m] = s]
      /\ UNCHANGED <<channel, results, graceArmed, stopped, cancelled, closedBy, outcome>>
    BY DEF CallReturns, CallAborts, Results
<1>2. PICK s \in Results : call' = [call EXCEPT ![m] = s]
    BY <1>1
<1>3. call \in [Panel -> {"running", "ended"} \cup Results] /\ "ended" \notin Results
      /\ "running" \notin Results
    BY DEF FusionInv, FusionTypeOK, Results
<1>4. call'[m] = s /\ \A n \in Panel \ {m} : call'[n] = call[n]
    BY <1>2, <1>3
<1>5. FusionTypeOK'
    BY <1>1, <1>2, <1>3 DEF FusionInv, FusionTypeOK
<1>6. OneOnTheWay' /\ PanelAccounted'
    BY <1>1, <1>3, <1>4 DEF FusionInv, OneOnTheWay, PanelAccounted, ContextDone
<1> QED
    BY <1>5, <1>6 DEF FusionInv

\* The goroutine ends with its result in the channel, or with none once the context is done.
LEMMA SendInv ==
    ASSUME FusionInv, NEW m \in Panel, SendResult(m) \/ DropResult(m)
    PROVE  FusionInv'
<1>1. /\ call[m] \in Results /\ call' = [call EXCEPT ![m] = "ended"]
      /\ \/ channel' = channel \cup {<<m, call[m]>>}
         \/ channel' = channel /\ ContextDone
      /\ UNCHANGED <<results, graceArmed, stopped, cancelled, closedBy, outcome>>
    BY DEF SendResult, DropResult
<1>2. call \in [Panel -> {"running", "ended"} \cup Results] /\ "ended" \notin Results
    BY DEF FusionInv, FusionTypeOK, Results
<1>3. call'[m] = "ended" /\ \A n \in Panel \ {m} : call'[n] = call[n]
    BY <1>1, <1>2
<1>4. /\ results[m] = "none"
      /\ \A r \in Results : <<m, r>> \notin channel
    <2>1. call[m] # "ended"
        BY <1>1, <1>2
    <2>2. \A r \in Results : <<m, r>> \notin channel
        BY <2>1 DEF FusionInv, OneOnTheWay
    <2>3. results[m] = "none"
        BY <2>1 DEF FusionInv, PanelAccounted
    <2> QED
        BY <2>2, <2>3
<1>5. FusionTypeOK'
    BY <1>1, <1>2 DEF FusionInv, FusionTypeOK
<1>6. \A n \in Panel, r \in Results :
          <<n, r>> \in channel' => <<n, r>> \in channel \/ (n = m /\ r = call[m])
    BY <1>1
<1>7. OneOnTheWay'
    BY <1>1, <1>3, <1>4, <1>6 DEF FusionInv, OneOnTheWay
<1>8. PanelAccounted'
    <2> SUFFICES ASSUME NEW n \in Panel
                 PROVE  /\ results[n] # "none" =>
                             call'[n] = "ended" /\ \A r \in Results : <<n, r>> \notin channel'
                        /\ (call'[n] = "ended" /\ results[n] = "none" /\ ~ContextDone)
                             => \E r \in Results : <<n, r>> \in channel'
        BY <1>1 DEF PanelAccounted, ContextDone
    <2>1. CASE n = m
        BY <1>1, <1>4, <2>1
    <2>2. CASE n # m
        <3>1. /\ results[n] # "none" => call[n] = "ended" /\ \A r \in Results : <<n, r>> \notin channel
              /\ (call[n] = "ended" /\ results[n] = "none" /\ ~ContextDone)
                   => \E r \in Results : <<n, r>> \in channel
            BY DEF FusionInv, PanelAccounted
        <3> QED
            BY <1>1, <1>3, <1>6, <2>2, <3>1
    <2> QED
        BY <2>1, <2>2
<1> QED
    BY <1>5, <1>7, <1>8 DEF FusionInv

\* A receive moves one result from the channel to its place.
LEMMA ReceiveInv ==
    ASSUME FusionInv, NEW m \in Panel, NEW r \in Results, ReceiveResult(m, r)
    PROVE  FusionInv'
<1>1. /\ <<m, r>> \in channel /\ channel' = channel \ {<<m, r>>}
      /\ results' = [results EXCEPT ![m] = r]
      /\ graceArmed' \in {graceArmed, TRUE, FALSE}
      /\ UNCHANGED <<call, stopped, cancelled, closedBy, outcome>>
    BY DEF ReceiveResult, Quorum
<1>2. results \in [Panel -> {"none"} \cup Results]
    BY DEF FusionInv, FusionTypeOK
<1>3. results'[m] = r /\ \A n \in Panel \ {m} : results'[n] = results[n]
    BY <1>1, <1>2
<1>4. FusionTypeOK'
    BY <1>1, <1>2 DEF FusionInv, FusionTypeOK
<1>5. call[m] = "ended" /\ \A s \in Results : <<m, s>> \notin channel'
    BY <1>1 DEF FusionInv, OneOnTheWay
<1>6. \A n \in Panel \ {m}, s \in Results : (<<n, s>> \in channel') = (<<n, s>> \in channel)
    BY <1>1
<1>7. OneOnTheWay'
    BY <1>1, <1>3, <1>5, <1>6 DEF FusionInv, OneOnTheWay
<1>8. r # "none"
    BY DEF Results
<1>9. PanelAccounted'
    BY <1>1, <1>3, <1>5, <1>6, <1>8 DEF FusionInv, PanelAccounted, ContextDone
<1> QED
    BY <1>4, <1>7, <1>9 DEF FusionInv

\* The turn closes, is stopped or goes on: a context that is done stays done.
LEMMA RestInv ==
    ASSUME FusionInv,
           \/ AllSettled \/ GracePasses \/ HardTimeout \/ StopCollecting \/ GoOn \/ Fused
           \/ \E who \in {"client", "shutdown"} : Stop(who)
           \/ UNCHANGED fusion
    PROVE  FusionInv'
<1>1. /\ UNCHANGED <<call, channel, results, graceArmed>>
      /\ ContextDone => ContextDone'
    BY DEF AllSettled, GracePasses, HardTimeout, StopCollecting, GoOn, Fused, Stop, Close,
        ContextDone, fusion
<1>2. /\ stopped' \in {"no", "client", "shutdown"}
      /\ closedBy' \in {"open", "settled", "grace", "timeout", "stopped"}
      /\ outcome' \in {"none", "error", "single", "judge"}
      /\ cancelled' \in {cancelled, TRUE}
    BY DEF AllSettled, GracePasses, HardTimeout, StopCollecting, GoOn, Fused, Stop, Close,
        fusion, FusionInv, FusionTypeOK
<1>3. FusionTypeOK'
    BY <1>1, <1>2 DEF FusionInv, FusionTypeOK
<1>4. OneOnTheWay' /\ PanelAccounted'
    BY <1>1 DEF FusionInv, OneOnTheWay, PanelAccounted
<1> QED
    BY <1>3, <1>4 DEF FusionInv

\* Every step keeps the account.
LEMMA FusionNextInv == FusionInv /\ [FusionNext]_fusion => FusionInv'
<1> SUFFICES ASSUME FusionInv, [FusionNext]_fusion PROVE FusionInv'
    OBVIOUS
<1>1. ASSUME NEW m \in Panel, CallAborts(m) PROVE FusionInv'
    <2>1. "failed" \in Results
        BY DEF Results
    <2> QED
        BY <1>1, <2>1, ReturnInv
<1> QED
    BY <1>1, ReturnInv, SendInv, ReceiveInv, RestInv DEF FusionNext, PanelRuns, Collect

\* Every state of a fusion turn satisfies the invariant.
LEMMA FusionInvariance == FusionSpec => []FusionInv
BY FusionInitInv, FusionNextInv, PTL DEF FusionSpec

\* The goroutines, the channel and the results keep their ranges.
THEOREM FusionTypeCorrect == FusionSpec => []FusionTypeOK
<1>1. FusionInv => FusionTypeOK
    BY DEF FusionInv
<1> QED
    BY <1>1, FusionInvariance, PTL

\* No answer of the panel is lost or counted twice, for any panel, quorum and order of
\* answers, timeouts, client and shutdown.
THEOREM NoAnswerLost == FusionSpec => []PanelAccounted
<1>1. FusionInv => PanelAccounted
    BY DEF FusionInv
<1> QED
    BY <1>1, FusionInvariance, PTL
==============================================================================
