------------------------ MODULE AccountFallback_proofs ------------------------
(***************************************************************************)
(* Proofs about AccountFallback, for any accounts, turns and requests.     *)
(***************************************************************************)
EXTENDS AccountFallback, Selection_proofs, SequenceTheorems, TLAPS

RowsOK ==
    /\ enabled \in [Accounts -> BOOLEAN]
    /\ rate \in [Accounts -> Stamps]
    /\ park \in [Accounts -> Stamps]
    /\ lock \in [Accounts -> [Models -> 0 .. MaxCooldown]]
    /\ bound \in [Keys -> Accounts \cup {None}]

\* The stages in which an account has been chosen, and those in which the turn
\* is about to write what it learned about the account.
Writing == {"unlock", "clear", "bind", "lock", "cool", "evict"}
Chosen == {"dial"} \cup Writing

\* What is always true of the progress w of a turn, un being the accounts it
\* could not have used at some time.
Sound(w, un) ==
    /\ w.stage # "idle" => w.req \in Request
    /\ w.stage \in {"idle", "begin"} =>
          w.all = <<>> /\ w.left = <<>> /\ w.dials = 0 /\ w.tried = {} /\ w.home = None
    /\ w.stage \in Chosen => w.conn \in w.dialled
    /\ w.stage \in Writing => ~w.req.probe
    /\ w.tried \subseteq w.dialled
    /\ w.dials = 0 => w.dialled = {}
    /\ w.stage \notin {"idle", "begin"} =>
          w.dials + Len(w.left) <= IF w.req.pin = None THEN Len(w.all) ELSE 1
    /\ ToSet(w.all) \subseteq w.dialled \cup un \cup ToSet(w.left)
    /\ w.stage \in {"exhausted", "unavailable"} => ToSet(w.left) \subseteq w.dialled
    /\ w.dials = 0 /\ w.home # None =>
          w.home \in un \/ (w.left # <<>> /\ Head(w.left) = w.home)

IInv ==
    /\ TypeOK
    /\ \A t \in Turns :
          /\ Sound(turn[t], unfit[t])
          /\ ~At(t, "idle") => Unusable(t) \subseteq unfit[t]

\* The rest of a step of turn t, besides the history.
Local(t) ==
    /\ turn' = [turn EXCEPT ![t] = turn'[t]]
    /\ turn'[t] \in TurnType
    /\ Sound(turn'[t], unfit[t])

------------------------------------------------------------------------------
\* getBestConnectionWithContext's list holds exactly the enabled accounts.
LEMMA ActiveProperties ==
  ASSUME RowsOK
  PROVE  Active \in Seq(Accounts) /\ ToSet(Active) = {c \in Accounts : enabled[c]}
<1>1. Priority \in Seq(Accounts)
  BY ConstantsFit
<1>2. ToSet(Priority) = Accounts
  BY DEF Accounts
<1> DEFINE A == {c \in Accounts : enabled[c]}
<1>3. Keep(Priority, A) \in Seq(Accounts) /\ ToSet(Keep(Priority, A)) = Accounts \cap A
  <2> HIDE DEF A
  <2> QED BY <1>1, <1>2, KeepProperties
<1> QED BY <1>3 DEF Active

\* applyConnectionStrategy reorders the accounts and neither loses nor adds one.
LEMMA OrdersProperties ==
  ASSUME NEW s \in Seq(Accounts), NEW order \in Orders(s)
  PROVE  order \in Seq(Accounts) /\ ToSet(order) = ToSet(s)
<1>1. CASE Len(s) <= 1 \/ Strategy = "none"
  <2>1. Orders(s) = {s}
    BY <1>1 DEF Orders
  <2> QED BY <2>1
<1>2. CASE ~(Len(s) <= 1 \/ Strategy = "none") /\ Strategy = "round-robin"
  <2>1. PICK c \in ToSet(s) : order = MoveToFront(s, c)
    BY <1>2 DEF Orders
  <2>2. ToSet(s) \subseteq Accounts
    BY EmptyToSet
  <2> DEFINE kept == Keep(s, Accounts \ {c})
             first == <<c>>
  <2>3. kept \in Seq(Accounts) /\ ToSet(kept) = ToSet(s) \cap (Accounts \ {c})
    BY KeepProperties
  <2>4. first \in Seq(Accounts) /\ ToSet(first) = {c}
    BY <2>1, <2>2 DEF ToSet
  <2>5. order = first \o kept
    BY <2>1 DEF MoveToFront
  <2> HIDE DEF kept, first
  <2>6. order \in Seq(Accounts) /\ ToSet(order) = ToSet(first) \cup ToSet(kept)
    BY <2>3, <2>4, <2>5, ConcatToSet
  <2> QED BY <2>1, <2>2, <2>3, <2>4, <2>6
<1>3. CASE ~(Len(s) <= 1 \/ Strategy = "none") /\ Strategy # "round-robin"
  <2>1. PICK i \in 1 .. Len(s) : order = SubSeq(s, i, Len(s)) \o SubSeq(s, 1, i - 1)
    BY <1>3 DEF Orders
  <2> QED BY <2>1, RotationToSet
<1> QED BY <1>1, <1>2, <1>3

\* What the loop has left: the candidates not yet excluded, in their order.
LEMMA RemainingProperties ==
  ASSUME NEW t \in Turns, turn[t] \in TurnType
  PROVE  /\ Remaining(t) \in Seq(Accounts)
         /\ Len(Remaining(t)) <= Len(turn[t].left)
         /\ ToSet(Remaining(t)) = ToSet(turn[t].left) \ turn[t].tried
         /\ Remaining(t) # <<>> =>
               /\ Head(Remaining(t)) \in Accounts
               /\ Tail(Remaining(t)) \in Seq(Accounts)
               /\ Len(Tail(Remaining(t))) = Len(Remaining(t)) - 1
               /\ ToSet(Remaining(t)) = {Head(Remaining(t))} \cup ToSet(Tail(Remaining(t)))
         /\ (turn[t].tried = {} /\ turn[t].left # <<>>) =>
               Remaining(t) # <<>> /\ Head(Remaining(t)) = Head(turn[t].left)
<1> DEFINE left == turn[t].left
           tried == turn[t].tried
<1>1. left \in Seq(Accounts) /\ ToSet(left) \subseteq Accounts
  BY EmptyToSet DEF TurnType
<1> HIDE DEF left, tried
<1>2. Keep(left, Accounts \ tried) \in Seq(Accounts)
  BY <1>1, KeepProperties
<1>3. Len(Keep(left, Accounts \ tried)) <= Len(left)
  BY <1>1, KeepProperties
<1>4. ToSet(Keep(left, Accounts \ tried)) = ToSet(left) \ tried
  BY <1>1, KeepProperties
<1>5. ASSUME tried = {}, left # <<>>
      PROVE  /\ Keep(left, Accounts \ tried) # <<>>
             /\ Head(Keep(left, Accounts \ tried)) = Head(left)
  <2>1. Head(left) \in Accounts \ tried
    BY <1>1, <1>5
  <2> QED BY <1>1, <1>5, <2>1, KeepHead
<1>6. Remaining(t) = Keep(left, Accounts \ tried)
  BY DEF Remaining, left, tried
<1> QED BY <1>2, <1>3, <1>4, <1>5, <1>6, HeadTailSet DEF left, tried

\* What a turn reads of its request and of the affinity map.
LEMMA BindingType ==
  ASSUME RowsOK, NEW t \in Turns, turn[t] \in TurnType, turn[t].req \in Request
  PROVE  /\ Key(t) \in Keys \cup {None} /\ Model(t) \in Models
         /\ Binding(t) \in Accounts \cup {None}
         /\ IsProbe(t) => Key(t) = None
BY DEF RowsOK, Request, Key, Model, Binding, AffinityOn, IsProbe

\* The sweep's choice is an account of the provider, or none.
LEMMA SweptType ==
  ASSUME RowsOK, NEW t \in Turns, turn[t] \in TurnType, turn[t].req \in Request,
         NEW order \in Orders(Active)
  PROVE  Swept(t, order) \in Accounts \cup {None}
<1>1. Active \in Seq(Accounts) /\ ToSet(Active) = {c \in Accounts : enabled[c]}
  BY ActiveProperties
<1>2. order \in Seq(Accounts) /\ ToSet(order) = ToSet(Active)
  BY <1>1, OrdersProperties
<1>3. Binding(t) \in Accounts \cup {None}
  BY BindingType
<1>4. ASSUME Usable(t) PROVE FirstUsable(t, order) \in Accounts
  <2> DEFINE S == Keep(order, Accounts \ Unusable(t))
  <2>1. S \in Seq(Accounts) /\ ToSet(S) = ToSet(order) \cap (Accounts \ Unusable(t))
    BY <1>2, KeepProperties
  <2>2. S # <<>>
    <3>1. PICK c \in ToSet(Active) : Selectable(c, Model(t))
      BY <1>4 DEF Usable
    <3>2. c \in ToSet(S)
      BY <1>1, <1>2, <2>1, <3>1 DEF Unusable
    <3> HIDE DEF S
    <3> QED BY <2>1, <3>2, EmptyToSet
  <2> HIDE DEF S
  <2>3. Head(S) \in Accounts
    BY <2>1, <2>2
  <2> QED BY <2>3 DEF S, FirstUsable
<1>5. ASSUME Forcible(t, order) # <<>> PROVE Head(Forcible(t, order)) \in Accounts
  <2>1. Forcible(t, order) \in Seq(Accounts)
    BY <1>2, KeepProperties DEF Forcible
  <2> QED BY <1>5, <2>1
<1> QED BY <1>3, <1>4, <1>5 DEF Swept

------------------------------------------------------------------------------
\* A step within an attempt changes the stage and what it learned, and neither the
\* candidates nor the attempts made.
SameWalk(v, w) ==
    /\ v.req = w.req /\ v.all = w.all /\ v.home = w.home /\ v.left = w.left
    /\ v.dials = w.dials /\ v.dialled = w.dialled

\* A step within an attempt keeps the turn sound: its walk has not moved.
LEMMA WalkSound ==
  ASSUME NEW w \in TurnType, NEW v \in TurnType, NEW un, Sound(w, un), SameWalk(v, w),
         w.stage \notin {"idle", "begin"},
         v.stage \notin {"idle", "begin", "exhausted", "unavailable"},
         v.stage \in Chosen => v.conn \in v.dialled,
         v.stage \in Writing => ~v.req.probe,
         v.tried \subseteq v.dialled
  PROVE  Sound(v, un)
BY DEF Sound, SameWalk

\* What a step of a turn that is under way may use.
LEMMA UnderWay ==
  ASSUME IInv, NEW t \in Turns, ~At(t, "idle")
  PROVE  /\ turn \in [Turns -> TurnType] /\ turn[t] \in TurnType /\ RowsOK
         /\ Sound(turn[t], unfit[t]) /\ Unusable(t) \subseteq unfit[t]
         /\ turn[t].req \in Request
         /\ Model(t) \in Models /\ Key(t) \in Keys \cup {None}
         /\ turn[t].stage \in Chosen =>
               turn[t].conn \in turn[t].dialled /\ turn[t].conn \in Accounts
         /\ turn[t].tried \subseteq turn[t].dialled
<1>1. /\ turn \in [Turns -> TurnType] /\ turn[t] \in TurnType /\ RowsOK
      /\ Sound(turn[t], unfit[t]) /\ Unusable(t) \subseteq unfit[t]
  BY DEF IInv, TypeOK, RowsOK
<1>2. turn[t].req \in Request /\ turn[t].tried \subseteq turn[t].dialled
      /\ (turn[t].stage \in Chosen => turn[t].conn \in turn[t].dialled)
  BY <1>1 DEF Sound, At
<1>3. turn[t].dialled \subseteq Accounts
  BY <1>1 DEF TurnType
<1> QED BY <1>1, <1>2, <1>3, BindingType

\* A step that only moves on to the next stage.
LEMMA MovesSound ==
  ASSUME IInv, NEW t \in Turns, ~At(t, "idle"), ~At(t, "begin"),
         NEW s \in Stages \ {"idle", "begin", "exhausted", "unavailable"}, Moves(t, s),
         s \in Chosen => turn[t].stage \in Chosen,
         s \in Writing => ~turn[t].req.probe
  PROVE  Local(t)
<1> DEFINE w == turn[t]
           v == turn'[t]
<1>1. /\ turn \in [Turns -> TurnType] /\ w \in TurnType /\ Sound(w, unfit[t])
      /\ (w.stage \in Chosen => w.conn \in w.dialled) /\ w.tried \subseteq w.dialled
      /\ w.stage \notin {"idle", "begin"}
  BY UnderWay DEF At
<1>2. turn' = [turn EXCEPT ![t] = v] /\ v = [w EXCEPT !.stage = s]
  BY <1>1 DEF Moves
<1>3. /\ v \in TurnType /\ v.stage = s
      /\ SameWalk(v, w) /\ v.conn = w.conn /\ v.tried = w.tried
  BY <1>1, <1>2 DEF TurnType, SameWalk
<1>4. Sound(v, unfit[t])
  <2> HIDE DEF v, w
  <2> QED BY <1>1, <1>3, WalkSound DEF SameWalk, w
<1> QED BY <1>2, <1>3, <1>4 DEF Local

\* The attempt's account is excluded, and it has been dialled.
LEMMA ExcludeSound ==
  ASSUME IInv, NEW t \in Turns, turn[t].stage \in Chosen, Exclude(t)
  PROVE  Local(t)
<1> DEFINE w == turn[t]
           v == turn'[t]
<1>1. /\ turn \in [Turns -> TurnType] /\ w \in TurnType /\ Sound(w, unfit[t])
      /\ w.conn \in w.dialled /\ w.conn \in Accounts /\ w.tried \subseteq w.dialled
      /\ w.stage \notin {"idle", "begin"}
  BY UnderWay DEF At, Chosen, Writing
<1>2. /\ turn' = [turn EXCEPT ![t] = v]
      /\ v = [w EXCEPT !.stage = "scan", !.tried = w.tried \cup {w.conn},
                       !.conn = None, !.pool = None, !.cool = 0]
  BY <1>1 DEF Exclude
<1>3. /\ v \in TurnType /\ v.stage = "scan"
      /\ SameWalk(v, w) /\ v.tried = w.tried \cup {w.conn}
  <2>1. 0 \in 0 .. MaxCooldown
    BY ConstantsFit
  <2>2. w.tried \cup {w.conn} \in SUBSET Accounts
    BY <1>1 DEF TurnType
  <2> DEFINE tried == w.tried \cup {w.conn}
  <2> HIDE DEF tried
  <2>3. v = [w EXCEPT !.stage = "scan", !.tried = tried, !.conn = None, !.pool = None,
                     !.cool = 0]
    BY <1>2 DEF tried
  <2>4. v \in TurnType /\ v.stage = "scan" /\ SameWalk(v, w) /\ v.tried = tried
    BY <1>1, <2>1, <2>2, <2>3, ZenonT(30) DEF TurnType, SameWalk, Stages, tried
  <2> QED BY <2>4 DEF tried
<1>4. Sound(v, unfit[t])
  <2>1. v.tried \subseteq v.dialled /\ v.stage \notin Chosen /\ v.stage \notin Writing
    BY <1>1, <1>3 DEF SameWalk, Chosen, Writing
  <2> HIDE DEF v, w
  <2> QED BY <1>1, <1>3, <2>1, WalkSound
<1> QED BY <1>2, <1>3, <1>4 DEF Local

\* A binding that is dropped or moved is still one.
LEMMA DropType ==
  ASSUME RowsOK, NEW t \in Turns, Key(t) \in Keys \cup {None}
  PROVE  /\ Drop(t) \in [Keys -> Accounts \cup {None}]
         /\ \A c \in Accounts \cup {None} : Rebound(t, c) \in [Keys -> Accounts \cup {None}]
BY DEF RowsOK, Drop, Rebound, AffinityOn

\* What handleAccountFallback does with the upstream's answer.
LEMMA AnswerSound ==
  ASSUME IInv, NEW t \in Turns, Answer(t)
  PROVE  Local(t) /\ RowsOK'
<1> DEFINE w == turn[t]
           v == turn'[t]
<1>1. w.stage = "dial" /\ ~At(t, "idle") /\ ~At(t, "begin") /\ w.stage \in Chosen
  BY DEF Answer, Serve, PinnedFails, Fail, NodeRefuses, Deprecated, FreeTierRefuses,
         Retryable, At, Chosen
<1>2. RowsOK /\ Key(t) \in Keys \cup {None} /\ Drop(t) \in [Keys -> Accounts \cup {None}]
  BY <1>1, UnderWay, DropType
<1>3. ASSUME UNCHANGED rows, bound' \in {bound, Drop(t)} PROVE RowsOK'
  BY <1>2, <1>3 DEF RowsOK, rows
<1>4. CASE Serve(t)
  <2>1. Moves(t, IF w.req.probe THEN "served" ELSE "unlock") /\ UNCHANGED <<rows, bound>>
    BY <1>4 DEF Serve, IsProbe
  <2>2. Local(t)
    BY <1>1, <2>1, MovesSound DEF Chosen, Writing, Stages
  <2> QED BY <1>3, <2>1, <2>2
<1>5. CASE PinnedFails(t) \/ Fail(t)
  <2>1. Moves(t, "failed") /\ UNCHANGED <<rows, bound>>
    BY <1>5 DEF PinnedFails, Fail
  <2>2. Local(t)
    BY <1>1, <2>1, MovesSound DEF Chosen, Writing, Stages
  <2> QED BY <1>3, <2>1, <2>2
<1>6. CASE NodeRefuses(t) \/ Deprecated(t)
  <2>1. Exclude(t) /\ UNCHANGED rows /\ bound' \in {bound, Drop(t)}
    BY <1>6 DEF NodeRefuses, Deprecated
  <2> QED BY <1>1, <1>3, <2>1, ExcludeSound
<1>7. CASE FreeTierRefuses(t)
  <2>1. bound' = Drop(t) /\ UNCHANGED rows
    BY <1>7 DEF FreeTierRefuses
  <2>2. CASE Exclude(t)
    BY <1>1, <1>3, <2>1, <2>2, ExcludeSound
  <2>3. CASE ~Exclude(t)
    <3>1. /\ w.pool # None
          /\ turn' = [turn EXCEPT ![t].stage = "scan", ![t].conn = None, ![t].pool = None,
                                  ![t].badPools = @ \cup {w.pool}]
      BY <1>7, <2>3 DEF FreeTierRefuses
    <3>2. /\ turn \in [Turns -> TurnType] /\ w \in TurnType /\ Sound(w, unfit[t])
          /\ w.tried \subseteq w.dialled
      BY <1>1, UnderWay
    <3>3. /\ turn' = [turn EXCEPT ![t] = v]
          /\ v = [w EXCEPT !.stage = "scan", !.conn = None, !.pool = None,
                           !.badPools = w.badPools \cup {w.pool}]
      BY <3>1, <3>2
    <3>4. /\ v \in TurnType /\ v.stage = "scan" /\ SameWalk(v, w) /\ v.tried = w.tried
      BY <3>1, <3>2, <3>3 DEF TurnType, SameWalk, Stages
    <3>5. Sound(v, unfit[t])
      <4>1. v.tried \subseteq v.dialled /\ v.stage \notin Chosen /\ v.stage \notin Writing
        BY <3>2, <3>4 DEF SameWalk, Chosen, Writing
      <4>2. w.stage \notin {"idle", "begin"}
        BY <1>1
      <4> HIDE DEF v, w
      <4> QED BY <3>2, <3>4, <4>1, <4>2, WalkSound
    <3> QED BY <1>3, <2>1, <3>3, <3>4, <3>5 DEF Local
  <2> QED BY <2>2, <2>3
<1>8. CASE Retryable(t)
  <2>1. bound' \in {bound, Drop(t)} /\ UNCHANGED rows
    BY <1>8 DEF Retryable
  <2>2. CASE Exclude(t)
    BY <1>1, <1>3, <2>1, <2>2, ExcludeSound
  <2>3. CASE ~Exclude(t)
    <3>1. PICK n \in 1 .. MaxCooldown :
             /\ ~w.req.probe
             /\ turn' = [turn EXCEPT ![t].stage = "lock", ![t].cool = n]
      BY <1>8, <2>3 DEF Retryable, IsProbe
    <3>2. /\ turn \in [Turns -> TurnType] /\ w \in TurnType /\ Sound(w, unfit[t])
          /\ w.tried \subseteq w.dialled /\ w.conn \in w.dialled
      BY <1>1, UnderWay
    <3>3. turn' = [turn EXCEPT ![t] = v] /\ v = [w EXCEPT !.stage = "lock", !.cool = n]
      BY <3>1, <3>2
    <3>4. /\ v \in TurnType /\ v.stage = "lock" /\ SameWalk(v, w) /\ v.tried = w.tried
          /\ v.conn = w.conn
      <4>1. n \in 0 .. MaxCooldown
        BY ConstantsFit
      <4> QED BY <3>2, <3>3, <4>1 DEF TurnType, SameWalk, Stages
    <3>5. Sound(v, unfit[t])
      <4>1. w.stage \notin {"idle", "begin"}
        BY <1>1
      <4>2. v.tried \subseteq v.dialled /\ v.conn \in v.dialled /\ ~v.req.probe
        BY <3>1, <3>2, <3>4 DEF SameWalk
      <4> HIDE DEF v, w
      <4> QED BY <3>2, <3>4, <4>1, <4>2, WalkSound
    <3> QED BY <1>3, <2>1, <3>3, <3>4, <3>5 DEF Local
  <2> QED BY <2>2, <2>3
<1> QED BY <1>4, <1>5, <1>6, <1>7, <1>8 DEF Answer

\* The writes on the account's row, one statement at a time.
LEMMA WritingSound ==
  ASSUME IInv, NEW t \in Turns,
         \/ Unlock(t) \/ Clear(t) \/ BindServed(t)
         \/ LockModel(t) \/ CoolAccount(t) \/ EvictBindings(t)
  PROVE  Local(t) /\ RowsOK'
<1> DEFINE w == turn[t]
           c == w.conn
<1>1. w.stage \in Writing
  BY DEF Unlock, Clear, BindServed, LockModel, CoolAccount, EvictBindings, At, Writing
<1>2. w.stage \in Chosen /\ ~At(t, "idle") /\ ~At(t, "begin")
  BY <1>1 DEF Writing, Chosen, At
<1>3. /\ w \in TurnType /\ RowsOK /\ c \in Accounts /\ Model(t) \in Models
      /\ Key(t) \in Keys \cup {None} /\ ~w.req.probe /\ w.cool \in 0 .. MaxCooldown
  BY <1>1, <1>2, UnderWay DEF Sound, TurnType
<1>4. 0 \in 0 .. MaxCooldown
  BY ConstantsFit
<1>5. ASSUME NEW n \in 0 .. MaxCooldown
      PROVE  [lock EXCEPT ![c][Model(t)] = n] \in [Accounts -> [Models -> 0 .. MaxCooldown]]
  BY <1>3 DEF RowsOK
<1>6. ASSUME NEW z \in Stamps
      PROVE  [rate EXCEPT ![c] = z] \in [Accounts -> Stamps]
  BY <1>3 DEF RowsOK
<1>7. CASE Unlock(t)
  <2>1. Local(t)
    BY <1>2, <1>3, <1>7, MovesSound DEF Unlock, Stages
  <2>2. lock' \in [Accounts -> [Models -> 0 .. MaxCooldown]]
    BY <1>4, <1>5, <1>7 DEF Unlock
  <2> QED BY <1>3, <1>7, <2>1, <2>2 DEF Unlock, RowsOK
<1>8. CASE Clear(t)
  <2>1. Local(t)
    BY <1>2, <1>3, <1>8, MovesSound DEF Clear, Stages
  <2>2. rate' \in [Accounts -> Stamps]
    BY <1>6, <1>8 DEF Clear, Stamps
  <2> QED BY <1>3, <1>8, <2>1, <2>2 DEF Clear, RowsOK
<1>9. CASE BindServed(t)
  <2>1. Local(t)
    BY <1>2, <1>9, MovesSound DEF BindServed, Stages, Chosen, Writing
  <2>2. bound' \in [Keys -> Accounts \cup {None}]
    BY <1>3, <1>9, DropType DEF BindServed, RowsOK
  <2> QED BY <1>3, <1>9, <2>1, <2>2 DEF BindServed, RowsOK, rows
<1>10. CASE LockModel(t)
  <2>1. Local(t)
    <3>1. CASE Exclude(t)
      BY <1>2, <3>1, ExcludeSound
    <3>2. CASE Moves(t, "cool")
      BY <1>2, <1>3, <3>2, MovesSound DEF Stages
    <3> QED BY <1>10, <3>1, <3>2 DEF LockModel
  <2>2. lock' \in [Accounts -> [Models -> 0 .. MaxCooldown]]
    BY <1>3, <1>5, <1>10 DEF LockModel
  <2> QED BY <1>3, <1>10, <2>1, <2>2 DEF LockModel, RowsOK
<1>11. CASE CoolAccount(t)
  <2>1. Local(t)
    BY <1>2, <1>3, <1>11, MovesSound DEF CoolAccount, Stages
  <2>2. rate' \in [Accounts -> Stamps]
    BY <1>3, <1>6, <1>11 DEF CoolAccount, Stamps
  <2> QED BY <1>3, <1>11, <2>1, <2>2 DEF CoolAccount, RowsOK
<1>12. CASE EvictBindings(t)
  <2>1. Local(t)
    BY <1>2, <1>12, ExcludeSound DEF EvictBindings
  <2>2. bound' \in [Keys -> Accounts \cup {None}]
    BY <1>3, <1>12 DEF EvictBindings, RowsOK
  <2> QED BY <1>3, <1>12, <2>1, <2>2 DEF EvictBindings, RowsOK, rows
<1> QED BY <1>7, <1>8, <1>9, <1>10, <1>11, <1>12

\* The grant's park, written while the attempt is on the wire.
LEMMA RefreshSound ==
  ASSUME IInv, NEW t \in Turns, RejectGrant(t) \/ RefreshGrant(t)
  PROVE  Local(t) /\ RowsOK'
<1> DEFINE w == turn[t]
           v == turn'[t]
<1>1. /\ w.stage = "dial" /\ w.refreshes < 2 /\ UNCHANGED <<enabled, rate, lock, bound>>
      /\ turn' = [turn EXCEPT ![t].refreshes = @ + 1]
  BY DEF RejectGrant, RefreshGrant, Refreshing, At
<1>2. /\ turn \in [Turns -> TurnType] /\ w \in TurnType /\ RowsOK
      /\ Sound(w, unfit[t]) /\ w.conn \in w.dialled /\ w.tried \subseteq w.dialled
  BY <1>1, UnderWay DEF At, Chosen
<1>3. turn' = [turn EXCEPT ![t] = v] /\ v = [w EXCEPT !.refreshes = w.refreshes + 1]
  BY <1>1, <1>2
<1>4. w.refreshes + 1 \in 0 .. 2
  BY <1>1, <1>2 DEF TurnType
<1>5. /\ v \in TurnType /\ SameWalk(v, w) /\ v.stage = "dial"
      /\ v.tried = w.tried /\ v.conn = w.conn
  BY <1>1, <1>2, <1>3, <1>4 DEF TurnType, SameWalk
<1>6. Sound(v, unfit[t])
  <2>1. v.tried \subseteq v.dialled /\ v.conn \in v.dialled /\ v.stage \notin Writing
    BY <1>2, <1>5 DEF SameWalk, Writing
  <2> HIDE DEF v, w
  <2> QED BY <1>1, <1>2, <1>5, <2>1, WalkSound
<1>7. park' \in [Accounts -> Stamps]
  <2>1. \A n \in 1 .. MaxCooldown : {n} \in Stamps
    BY ConstantsFit DEF Stamps
  <2>2. {} \in Stamps
    BY DEF Stamps
  <2>3. PICK z \in Stamps : park' = [park EXCEPT ![w.conn] = z]
    BY <2>1, <2>2 DEF RejectGrant, RefreshGrant
  <2> QED BY <1>2, <2>3 DEF RowsOK
<1> QED BY <1>1, <1>2, <1>3, <1>5, <1>6, <1>7 DEF Local, RowsOK

------------------------------------------------------------------------------
\* The empty sequence has no members.
LEMMA EmptySet == ToSet(<<>>) = {}
BY DEF ToSet

\* A request arrives at a turn that is at rest.
LEMMA ArriveSound ==
  ASSUME IInv, NEW t \in Turns, Arrive(t)
  PROVE  Local(t) /\ RowsOK'
<1> DEFINE w == turn[t]
           v == turn'[t]
<1>1. /\ turn \in [Turns -> TurnType] /\ w \in TurnType /\ Sound(w, unfit[t]) /\ RowsOK
      /\ w.stage = "idle"
  BY DEF IInv, TypeOK, RowsOK, Arrive, At
<1>2. PICK req \in Requests[t] :
         turn' = [turn EXCEPT ![t].stage = "begin", ![t].req = req]
  BY DEF Arrive
<1>3. req \in Request
  BY ConstantsFit
<1>4. turn' = [turn EXCEPT ![t] = v] /\ v = [w EXCEPT !.stage = "begin", !.req = req]
  BY <1>1, <1>2
<1>5. /\ v \in TurnType /\ v.stage = "begin" /\ v.req = req
      /\ v.all = w.all /\ v.home = w.home /\ v.left = w.left /\ v.tried = w.tried
      /\ v.dials = w.dials /\ v.dialled = w.dialled
  BY <1>1, <1>3, <1>4 DEF TurnType, Stages
<1>6. Sound(v, unfit[t])
  <2> HIDE DEF v, w
  <2> QED BY <1>1, <1>3, <1>5 DEF Sound, Chosen, Writing
<1>7. RowsOK'
  BY <1>1 DEF Arrive, RowsOK, rows
<1> QED BY <1>4, <1>5, <1>6, <1>7 DEF Local

\* A pinned turn has one candidate.
LEMMA BeginPinnedSound ==
  ASSUME IInv, NEW t \in Turns, BeginPinned(t)
  PROVE  Local(t) /\ RowsOK'
<1> DEFINE w == turn[t]
           v == turn'[t]
<1>1. /\ turn \in [Turns -> TurnType] /\ w \in TurnType /\ Sound(w, unfit[t]) /\ RowsOK
      /\ w.stage = "begin" /\ w.req \in Request /\ w.req.pin # None
  BY UnderWay DEF BeginPinned, At, Unpinned
<1>2. w.req.pin \in Accounts
  BY <1>1 DEF Request
<1>3. /\ turn' = [turn EXCEPT ![t] = v]
      /\ v = [w EXCEPT !.stage = "scan", !.left = <<w.req.pin>>]
  BY <1>1 DEF BeginPinned
<1>4. /\ v \in TurnType /\ v.stage = "scan" /\ v.req = w.req
      /\ v.all = w.all /\ v.home = w.home /\ v.left = <<w.req.pin>> /\ v.tried = w.tried
      /\ v.dials = w.dials /\ v.dialled = w.dialled
  <2> DEFINE one == <<w.req.pin>>
  <2>1. one \in Seq(Accounts)
    BY <1>2
  <2>2. v = [w EXCEPT !.stage = "scan", !.left = one]
    BY <1>3
  <2> HIDE DEF one
  <2>3. /\ v \in TurnType /\ v.stage = "scan" /\ v.req = w.req
        /\ v.all = w.all /\ v.home = w.home /\ v.left = one /\ v.tried = w.tried
        /\ v.dials = w.dials /\ v.dialled = w.dialled
    BY <1>1, <2>1, <2>2, ZenonT(30) DEF TurnType, Stages
  <2> QED BY <2>3 DEF one
<1>5. Sound(v, unfit[t])
  <2>1. Len(<<w.req.pin>>) = 1
    OBVIOUS
  <2> HIDE DEF v, w
  <2> QED BY <1>1, <1>4, <2>1, EmptySet DEF Sound, Chosen, Writing
<1>6. RowsOK'
  BY <1>1 DEF BeginPinned, RowsOK, rows
<1> QED BY <1>3, <1>4, <1>5, <1>6 DEF Local

\* Every account the provider had was locked for the turn's model, or there was none.
LEMMA RefuseSound ==
  ASSUME IInv, NEW t \in Turns, Refuse(t)
  PROVE  Local(t) /\ RowsOK'
<1> DEFINE w == turn[t]
           v == turn'[t]
<1>1. /\ turn \in [Turns -> TurnType] /\ w \in TurnType /\ Sound(w, unfit[t]) /\ RowsOK
      /\ w.stage = "begin" /\ w.req \in Request /\ w.req.pin = None
      /\ Unusable(t) \subseteq unfit[t]
  BY UnderWay DEF Refuse, At, Unpinned
<1>2. Active \in Seq(Accounts) /\ ToSet(Active) = {c \in Accounts : enabled[c]}
  BY <1>1, ActiveProperties
<1>3. ToSet(Active) \subseteq unfit[t]
  <2>1. CASE Active = <<>>
    BY <2>1, EmptySet
  <2>2. CASE ~ProviderAvailable(Model(t))
    BY <1>1, <1>2, <2>2 DEF ProviderAvailable, Unusable, Selectable
  <2> QED BY <2>1, <2>2 DEF Refuse
<1>4. /\ turn' = [turn EXCEPT ![t] = v]
      /\ v = [w EXCEPT !.stage = "unavailable", !.all = Active]
  BY <1>1 DEF Refuse
<1>5. /\ v \in TurnType /\ v.stage = "unavailable" /\ v.req = w.req
      /\ v.all = Active /\ v.home = w.home /\ v.left = w.left /\ v.tried = w.tried
      /\ v.dials = w.dials /\ v.dialled = w.dialled
  BY <1>1, <1>2, <1>4, ZenonT(30) DEF TurnType, Stages
<1>6. Sound(v, unfit[t])
  <2>1. Len(Active) \in Nat /\ Len(<<>>) = 0
    BY <1>2
  <2> HIDE DEF v, w
  <2> QED BY <1>1, <1>3, <1>5, <2>1, EmptySet DEF Sound, Chosen, Writing
<1>7. RowsOK'
  BY <1>1 DEF Refuse, RowsOK, rows
<1> QED BY <1>4, <1>5, <1>6, <1>7 DEF Local

\* The walk starts with every enabled account ahead of it.
LEMMA BeginSound ==
  ASSUME IInv, NEW t \in Turns, Begin(t)
  PROVE  Local(t) /\ RowsOK'
<1> DEFINE w == turn[t]
           v == turn'[t]
           home == IF Len(Active) > 1 THEN Binding(t) ELSE None
           first == home \in ToSet(Active)
<1>1. /\ turn \in [Turns -> TurnType] /\ w \in TurnType /\ Sound(w, unfit[t]) /\ RowsOK
      /\ w.stage = "begin" /\ w.req \in Request /\ w.req.pin = None
      /\ Key(t) \in Keys \cup {None}
  BY UnderWay DEF Begin, At, Unpinned
<1>2. Active \in Seq(Accounts) /\ ToSet(Active) \subseteq Accounts
  BY <1>1, ActiveProperties
<1>3. PICK order \in IF first THEN {MoveToFront(Active, home)} ELSE Orders(Active) :
         turn' = [turn EXCEPT ![t].stage = "scan", ![t].all = order, ![t].left = order,
                              ![t].home = IF first THEN home ELSE None]
  BY DEF Begin
<1>4. /\ order \in Seq(Accounts)
      /\ first => order # <<>> /\ Head(order) = home
  <2>1. CASE first
    <3> DEFINE kept == Keep(Active, Accounts \ {home})
    <3>1. kept \in Seq(Accounts)
      BY <1>2, KeepProperties
    <3>2. home \in Accounts
      BY <1>2, <2>1
    <3>3. order = <<home>> \o kept
      BY <1>3, <2>1 DEF MoveToFront
    <3> HIDE DEF kept, home
    <3> QED BY <3>1, <3>2, <3>3
  <2>2. CASE ~first
    BY <1>2, <1>3, <2>2, OrdersProperties
  <2> QED BY <2>1, <2>2
<1>5. /\ turn' = [turn EXCEPT ![t] = v]
      /\ v = [w EXCEPT !.stage = "scan", !.all = order, !.left = order,
                       !.home = IF first THEN home ELSE None]
  BY <1>1, <1>3
<1>6. (IF first THEN home ELSE None) \in Accounts \cup {None}
  BY <1>2
<1>7. /\ v \in TurnType /\ v.stage = "scan" /\ v.req = w.req
      /\ v.all = order /\ v.home = (IF first THEN home ELSE None) /\ v.left = order
      /\ v.tried = w.tried /\ v.dials = w.dials /\ v.dialled = w.dialled
  <2> HIDE DEF home
  <2> QED BY <1>1, <1>4, <1>5, <1>6, ZenonT(30) DEF TurnType, Stages
<1>8. Sound(v, unfit[t])
  <2>1. Len(order) \in Nat
    BY <1>4
  <2> HIDE DEF v, w, home
  <2> QED BY <1>1, <1>4, <1>7, <2>1 DEF Sound, Chosen, Writing
<1>9. RowsOK'
  BY <1>1 DEF Begin, RowsOK, rows
<1> QED BY <1>5, <1>7, <1>8, <1>9 DEF Local

------------------------------------------------------------------------------
PoolsType ==
    \A c \in Accounts, bad \in SUBSET Pools : PoolsFor(c, bad) \subseteq Pools \cup {None}

\* The egress of an attempt is a pool of the provider, or none.
LEMMA PoolsTyped == PoolsType
BY ConstantsFit DEF PoolsType, PoolsFor

\* An attempt: the head of what remains was dialled, or could not be.
LEMMA DialSound ==
  ASSUME IInv, NEW t \in Turns, At(t, "scan"), Remaining(t) # <<>>,
         NEW c \in Accounts, Dial(t, c),
         Head(Remaining(t)) = c \/ Head(Remaining(t)) \in Unusable(t)
  PROVE  Local(t)
<1> DEFINE w == turn[t]
           v == turn'[t]
           rem == Remaining(t)
<1>1. /\ turn \in [Turns -> TurnType] /\ w \in TurnType /\ Sound(w, unfit[t])
      /\ w.stage = "scan" /\ w.req \in Request
      /\ Unusable(t) \subseteq unfit[t]
  BY UnderWay DEF At
<1>2. /\ rem \in Seq(Accounts) /\ Len(rem) <= Len(w.left) /\ ToSet(rem) = ToSet(w.left) \ w.tried
      /\ Tail(rem) \in Seq(Accounts) /\ Len(Tail(rem)) = Len(rem) - 1
      /\ ToSet(rem) = {Head(rem)} \cup ToSet(Tail(rem))
  BY <1>1, RemainingProperties
<1>3. PICK pool \in PoolsFor(c, w.badPools) :
         turn' = [turn EXCEPT ![t].stage = "dial", ![t].conn = c, ![t].pool = pool,
                              ![t].left = Tail(rem), ![t].refreshes = 0,
                              ![t].dials = @ + 1, ![t].dialled = @ \cup {c}]
  BY DEF Dial
<1>4. pool \in Pools \cup {None}
  BY <1>1, <1>3, PoolsTyped DEF PoolsType, TurnType
<1> DEFINE dialled == w.dialled \cup {c}
           dials == w.dials + 1
           left == Tail(rem)
<1>5. dialled \in SUBSET Accounts /\ dials \in Nat /\ w.dials \in Nat /\ w.left \in Seq(Accounts)
      /\ Len(w.left) \in Nat
  BY <1>1 DEF TurnType
<1>6. /\ turn' = [turn EXCEPT ![t] = v]
      /\ v = [w EXCEPT !.stage = "dial", !.conn = c, !.pool = pool, !.left = left,
                       !.refreshes = 0, !.dials = dials, !.dialled = dialled]
  BY <1>1, <1>3
<1>7. /\ v \in TurnType /\ v.stage = "dial" /\ v.req = w.req
      /\ v.all = w.all /\ v.home = w.home /\ v.left = left
      /\ v.tried = w.tried /\ v.dials = dials /\ v.dialled = dialled /\ v.conn = c
  <2> HIDE DEF dialled, dials, left, rem
  <2>1. left \in Seq(Accounts)
    BY <1>2 DEF left
  <2>2. "dial" \in Stages /\ 0 \in 0 .. 2
    BY DEF Stages
  <2> QED BY <1>1, <1>4, <1>5, <1>6, <2>1, <2>2, ZenonT(30) DEF TurnType
<1>8. Sound(v, unfit[t])
  <2>1. ToSet(w.all) \subseteq dialled \cup unfit[t] \cup ToSet(left)
    <3>1. ToSet(w.all) \subseteq w.dialled \cup unfit[t] \cup ToSet(w.left)
      BY <1>1 DEF Sound
    <3>2. w.tried \subseteq w.dialled
      BY <1>1 DEF Sound
    <3>3. Head(rem) \in dialled \cup unfit[t]
      BY <1>1
    <3> HIDE DEF w, rem
    <3> QED BY <1>2, <3>1, <3>2, <3>3
  <2>2. dials + Len(left) <= IF w.req.pin = None THEN Len(w.all) ELSE 1
    <3>1. w.dials + Len(w.left) <= IF w.req.pin = None THEN Len(w.all) ELSE 1
      BY <1>1 DEF Sound
    <3>2. Len(w.all) \in Nat /\ Len(rem) \in Nat
      BY <1>1, <1>2 DEF TurnType
    <3> HIDE DEF w, rem
    <3> QED BY <1>2, <1>5, <3>1, <3>2
  <2>3. dials # 0 /\ w.tried \subseteq dialled /\ c \in dialled
    BY <1>1, <1>5 DEF Sound
  <2> HIDE DEF v, w, dialled, dials, left
  <2> QED BY <1>1, <1>7, <2>1, <2>2, <2>3 DEF Sound, Chosen, Writing
<1> QED BY <1>6, <1>7, <1>8 DEF Local

\* A candidate is passed over only when it cannot be used.
LEMMA SkipSound ==
  ASSUME IInv, NEW t \in Turns, NoChoice(t)
  PROVE  Local(t)
<1> DEFINE w == turn[t]
           v == turn'[t]
           rem == Remaining(t)
           left == Tail(rem)
           stage == IF w.req.pin = None THEN "scan" ELSE "failed"
<1>1. /\ turn \in [Turns -> TurnType] /\ w \in TurnType /\ Sound(w, unfit[t])
      /\ w.stage = "scan" /\ w.req \in Request /\ rem # <<>>
      /\ Unusable(t) \subseteq unfit[t]
  BY UnderWay DEF At, NoChoice, NeedsSweep
<1>2. /\ rem \in Seq(Accounts) /\ Len(rem) <= Len(w.left) /\ ToSet(rem) = ToSet(w.left) \ w.tried
      /\ Tail(rem) \in Seq(Accounts) /\ Len(Tail(rem)) = Len(rem) - 1 /\ Head(rem) \in Accounts
      /\ ToSet(rem) = {Head(rem)} \cup ToSet(Tail(rem))
      /\ w.tried = {} /\ w.left # <<>> => Head(rem) = Head(w.left)
  BY <1>1, RemainingProperties
<1>3. Head(rem) \in unfit[t]
  BY <1>1, <1>2 DEF NoChoice, NeedsSweep, CandidateHonoured, Unusable, Selectable
<1>4. /\ turn' = [turn EXCEPT ![t] = v] /\ v = [w EXCEPT !.stage = stage, !.left = left]
  BY <1>1 DEF NoChoice, Unpinned
<1>5. left \in Seq(Accounts) /\ stage \in {"scan", "failed"}
  BY <1>2
<1>6. /\ v \in TurnType /\ v.stage = stage /\ v.req = w.req
      /\ v.all = w.all /\ v.home = w.home /\ v.left = left
      /\ v.tried = w.tried /\ v.dials = w.dials /\ v.dialled = w.dialled
  <2> HIDE DEF left, stage
  <2> QED BY <1>1, <1>4, <1>5 DEF TurnType, Stages
<1>7. Sound(v, unfit[t])
  <2>1. ToSet(w.all) \subseteq w.dialled \cup unfit[t] \cup ToSet(left)
    <3>1. ToSet(w.all) \subseteq w.dialled \cup unfit[t] \cup ToSet(w.left)
      BY <1>1 DEF Sound
    <3>2. w.tried \subseteq w.dialled
      BY <1>1 DEF Sound
    <3> HIDE DEF w, rem
    <3> QED BY <1>2, <1>3, <3>1, <3>2
  <2>2. w.dials + Len(left) <= IF w.req.pin = None THEN Len(w.all) ELSE 1
    <3>1. w.dials + Len(w.left) <= IF w.req.pin = None THEN Len(w.all) ELSE 1
      BY <1>1 DEF Sound
    <3>2. Len(w.all) \in Nat /\ Len(rem) \in Nat /\ Len(w.left) \in Nat /\ w.dials \in Nat
      BY <1>1, <1>2 DEF TurnType
    <3> HIDE DEF w, rem
    <3> QED BY <1>2, <3>1, <3>2
  <2>3. w.dials = 0 /\ w.home # None => w.home \in unfit[t]
    BY <1>1, <1>2, <1>3 DEF Sound
  <2> HIDE DEF v, w, left, stage
  <2> QED BY <1>1, <1>5, <1>6, <2>1, <2>2, <2>3 DEF Sound, Chosen, Writing
<1> QED BY <1>4, <1>6, <1>7 DEF Local

\* One round of the loop: an attempt, a candidate passed over, or the end.
LEMMA ScanSound ==
  ASSUME IInv, NEW t \in Turns,
         ChooseCandidate(t) \/ ChooseBySweep(t) \/ NoChoice(t) \/ Exhaust(t)
  PROVE  Local(t) /\ RowsOK'
<1> DEFINE w == turn[t]
           v == turn'[t]
<1>1. At(t, "scan") /\ ~At(t, "idle")
  BY DEF ChooseCandidate, ChooseBySweep, NoChoice, Exhaust, NeedsSweep, At
<1>2. /\ turn \in [Turns -> TurnType] /\ w \in TurnType /\ Sound(w, unfit[t]) /\ RowsOK
      /\ w.req \in Request /\ Key(t) \in Keys \cup {None} /\ w.stage = "scan"
  BY <1>1, UnderWay DEF At
<1>3. CASE ChooseCandidate(t)
  <2>1. Head(Remaining(t)) \in Accounts
    BY <1>2, <1>3, RemainingProperties DEF ChooseCandidate
  <2>2. Local(t)
    BY <1>1, <1>3, <2>1, DialSound DEF ChooseCandidate
  <2> QED BY <1>2, <1>3, <2>2 DEF ChooseCandidate, RowsOK, rows
<1>4. CASE ChooseBySweep(t)
  <2>1. PICK order \in Orders(Active) :
           /\ Swept(t, order) # None /\ Dial(t, Swept(t, order))
           /\ bound' = Rebound(t, Swept(t, order))
    BY <1>4 DEF ChooseBySweep
  <2>2. Swept(t, order) \in Accounts
    BY <1>2, <2>1, SweptType
  <2>3. Remaining(t) # <<>> /\ Head(Remaining(t)) \in Accounts
    BY <1>2, <1>4, RemainingProperties DEF ChooseBySweep, NeedsSweep
  <2>4. Head(Remaining(t)) \in Unusable(t)
    BY <1>4, <2>3 DEF ChooseBySweep, NeedsSweep, CandidateHonoured, Unusable, Selectable
  <2>5. Local(t)
    BY <1>1, <2>1, <2>2, <2>3, <2>4, DialSound
  <2>6. bound' \in [Keys -> Accounts \cup {None}]
    BY <1>2, <2>1, <2>2, DropType
  <2> QED BY <1>2, <1>4, <2>5, <2>6 DEF ChooseBySweep, RowsOK, rows
<1>5. CASE NoChoice(t)
  <2>1. Local(t)
    BY <1>5, SkipSound
  <2>2. bound' \in [Keys -> Accounts \cup {None}]
    BY <1>2, <1>5, DropType DEF NoChoice, RowsOK
  <2> QED BY <1>2, <1>5, <2>1, <2>2 DEF NoChoice, RowsOK, rows
<1>6. CASE Exhaust(t)
  <2>1. turn' = [turn EXCEPT ![t] = v] /\ v = [w EXCEPT !.stage = "exhausted"]
    BY <1>2, <1>6 DEF Exhaust, Moves
  <2>2. /\ v \in TurnType /\ v.stage = "exhausted" /\ v.req = w.req
        /\ v.all = w.all /\ v.home = w.home /\ v.left = w.left
        /\ v.tried = w.tried /\ v.dials = w.dials /\ v.dialled = w.dialled
    BY <1>2, <2>1 DEF TurnType, Stages
  <2>3. ToSet(w.left) \subseteq w.dialled
    <3>1. Remaining(t) = <<>> /\ w.tried \subseteq w.dialled
      BY <1>2, <1>6 DEF Exhaust, Sound
    <3>2. ToSet(w.left) \ w.tried = {}
      BY <1>2, <3>1, RemainingProperties, EmptySet
    <3> QED BY <3>1, <3>2
  <2>4. Sound(v, unfit[t])
    <3> HIDE DEF v, w
    <3> QED BY <1>2, <2>2, <2>3 DEF Sound, Chosen, Writing
  <2> QED BY <1>2, <1>6, <2>1, <2>2, <2>4 DEF Exhaust, Local, RowsOK, rows
<1> QED BY <1>3, <1>4, <1>5, <1>6

\* The turn ends and is at rest again.
LEMMA ReplySound ==
  ASSUME IInv, NEW t \in Turns, Reply(t)
  PROVE  Local(t) /\ RowsOK'
<1>1. turn \in [Turns -> TurnType] /\ RowsOK
  BY DEF IInv, TypeOK, RowsOK
<1>2. turn' = [turn EXCEPT ![t] = turn'[t]] /\ turn'[t] = AtRest
  BY <1>1 DEF Reply
<1>3. AtRest \in TurnType
  <2>1. 0 \in 0 .. MaxCooldown /\ <<>> \in Seq(Accounts)
    BY ConstantsFit
  <2> QED BY <2>1 DEF AtRest, TurnType, Stages
<1>4. Sound(AtRest, unfit[t])
  BY EmptySet DEF AtRest, Sound, Chosen, Writing
<1> QED BY <1>1, <1>2, <1>3, <1>4 DEF Local, Reply, RowsOK, rows

------------------------------------------------------------------------------
\* A turn's part of Next, which every step of a turn is.
Step(t) == Arrive(t) \/ Progress(t) \/ Reply(t) \/ RejectGrant(t) \/ RefreshGrant(t)

\* Every step of a turn keeps the turn sound and the rows well typed.
LEMMA StepSound ==
  ASSUME IInv, NEW t \in Turns, Step(t)
  PROVE  Local(t) /\ RowsOK'
<1>1. CASE Arrive(t) \/ Reply(t) \/ RejectGrant(t) \/ RefreshGrant(t)
  BY <1>1, ArriveSound, ReplySound, RefreshSound
<1>2. CASE BeginPinned(t) \/ Refuse(t) \/ Begin(t)
  BY <1>2, BeginPinnedSound, RefuseSound, BeginSound
<1>3. CASE ChooseCandidate(t) \/ ChooseBySweep(t) \/ NoChoice(t) \/ Exhaust(t)
  BY <1>3, ScanSound
<1>4. CASE Answer(t)
  BY <1>4, AnswerSound
<1>5. CASE \/ Unlock(t) \/ Clear(t) \/ BindServed(t)
           \/ LockModel(t) \/ CoolAccount(t) \/ EvictBindings(t)
  BY <1>5, WritingSound
<1> QED BY <1>1, <1>2, <1>3, <1>4, <1>5 DEF Step, Progress

\* Time brings a stamp nearer and keeps it a stamp.
LEMMA SoonerStamps ==
  ASSUME NEW x \in Stamps
  PROVE  {Sooner(n) : n \in x} \in Stamps
<1>1. CASE x = {}
  BY <1>1 DEF Stamps
<1>2. CASE x # {}
  <2>1. PICK n \in 0 .. MaxCooldown : x = {n}
    BY <1>2 DEF Stamps
  <2>2. Sooner(n) \in 0 .. MaxCooldown
    BY ConstantsFit DEF Sooner
  <2>3. {Sooner(m) : m \in x} = {Sooner(n)}
    BY <2>1
  <2> QED BY <2>2, <2>3 DEF Stamps
<1> QED BY <1>1, <1>2

\* The environment changes rows and bindings, and no turn.
LEMMA EnvironmentSound ==
  ASSUME RowsOK,
         Tick \/ (\E c \in Toggled : Toggle(c)) \/ (\E k \in Keys : Forget(k))
  PROVE  turn' = turn /\ RowsOK'
<1>1. CASE Tick
  <2>1. rate' \in [Accounts -> Stamps] /\ park' \in [Accounts -> Stamps]
    BY <1>1, SoonerStamps DEF Tick, RowsOK
  <2>2. \A n \in 0 .. MaxCooldown : Sooner(n) \in 0 .. MaxCooldown
    BY ConstantsFit DEF Sooner
  <2>3. lock' \in [Accounts -> [Models -> 0 .. MaxCooldown]]
    BY <1>1, <2>2 DEF Tick, RowsOK
  <2> QED BY <1>1, <2>1, <2>3 DEF Tick, RowsOK
<1>2. CASE \E c \in Toggled : Toggle(c)
  BY <1>2, ConstantsFit DEF Toggle, RowsOK
<1>3. CASE \E k \in Keys : Forget(k)
  BY <1>3 DEF Forget, RowsOK, rows
<1> QED BY <1>1, <1>2, <1>3

\* The history only excuses more of a turn.
LEMMA SoundGrows ==
  ASSUME NEW w, NEW un, NEW more, Sound(w, un), un \subseteq more
  PROVE  Sound(w, more)
BY DEF Sound

\* A turn at rest needs no excuse.
LEMMA IdleSound ==
  ASSUME NEW w, NEW un, Sound(w, un), w.stage = "idle"
  PROVE  Sound(w, {})
BY EmptySet DEF Sound

\* The program starts with no turn in progress.
LEMMA InitSound == Init => IInv
<1> SUFFICES ASSUME Init PROVE IInv
  OBVIOUS
<1>1. 0 \in 0 .. MaxCooldown /\ <<>> \in Seq(Accounts)
  BY ConstantsFit
<1>2. AtRest \in TurnType
  BY <1>1 DEF AtRest, TurnType, Stages
<1>3. Sound(AtRest, {})
  BY EmptySet DEF AtRest, Sound, Chosen, Writing
<1>4. TypeOK
  BY <1>1, <1>2 DEF Init, TypeOK, Stamps
<1>5. ASSUME NEW t \in Turns PROVE turn[t] = AtRest /\ unfit[t] = {} /\ At(t, "idle")
  BY DEF Init, At, AtRest
<1> QED BY <1>3, <1>4, <1>5 DEF IInv

\* Each step keeps the inductive invariant: the turn's own by StepSound, the other
\* turns' because their walk is untouched and the history only grows.
LEMMA NextSound == IInv /\ [Next]_vars => IInv'
<1> SUFFICES ASSUME IInv, [Next]_vars PROVE IInv'
  OBVIOUS
<1>1. CASE UNCHANGED vars
  BY <1>1 DEF IInv, vars, TypeOK, At, Unusable, Model, Selectable, CoolingDown, Cooldowns,
              ModelLocked
<1>2. CASE Next
  <2>1. /\ RowsOK /\ turn \in [Turns -> TurnType] /\ unfit \in [Turns -> SUBSET Accounts]
        /\ \A t \in Turns : Sound(turn[t], unfit[t])
    BY DEF IInv, TypeOK, RowsOK
  <2>2. /\ RowsOK' /\ turn' \in [Turns -> TurnType]
        /\ \A t \in Turns : Sound(turn'[t], unfit[t])
    <3>1. CASE \E t \in Turns : Step(t)
      <4>1. PICK t \in Turns : Step(t)
        BY <3>1
      <4>2. Local(t) /\ RowsOK'
        BY <4>1, StepSound
      <4>3. turn' = [turn EXCEPT ![t] = turn'[t]] /\ turn'[t] \in TurnType
            /\ Sound(turn'[t], unfit[t])
        BY <4>2 DEF Local
      <4>4. \A u \in Turns : u # t => turn'[u] = turn[u]
        BY <2>1, <4>3
      <4>5. turn' \in [Turns -> TurnType]
        BY <2>1, <4>3
      <4> QED BY <2>1, <4>2, <4>3, <4>4, <4>5
    <3>2. CASE ~ \E t \in Turns : Step(t)
      BY <1>2, <2>1, <3>2, EnvironmentSound DEF Next, Step
    <3> QED BY <3>1, <3>2
  <2>3. unfit' = [t \in Turns |->
                    IF turn'[t].stage = "idle" THEN {} ELSE unfit[t] \cup Unusable(t)']
    BY <1>2 DEF Next, Observe
  <2>4. \A t \in Turns : Unusable(t)' \subseteq Accounts
    BY DEF Unusable
  <2>5. unfit' \in [Turns -> SUBSET Accounts]
    BY <2>1, <2>3, <2>4
  <2>6. ASSUME NEW t \in Turns
        PROVE  Sound(turn'[t], unfit'[t]) /\ (~At(t, "idle")' => Unusable(t)' \subseteq unfit'[t])
    <3>1. CASE turn'[t].stage = "idle"
      BY <2>2, <2>3, <3>1, IdleSound DEF At
    <3>2. CASE turn'[t].stage # "idle"
      <4>1. unfit'[t] = unfit[t] \cup Unusable(t)'
        BY <2>3, <3>2
      <4> QED BY <2>2, <4>1, SoundGrows
    <3> QED BY <3>1, <3>2
  <2>7. TypeOK'
    BY <2>2, <2>5 DEF RowsOK, TypeOK
  <2> QED BY <2>6, <2>7 DEF IInv
<1> QED BY <1>1, <1>2

\* The inductive invariant holds in every reachable state.
LEMMA Invariance == Spec => []IInv
<1> QED BY InitSound, NextSound, PTL DEF Spec

------------------------------------------------------------------------------
\* Every reachable state is well formed: handleAccountFallback keeps rows,
\* bindings and the progress of a turn within what the code can represent.
THEOREM TypeCorrect == Spec => []TypeOK
<1>1. IInv => TypeOK
  BY DEF IInv
<1> QED BY <1>1, Invariance, PTL

\* For any accounts, strategy, pools and requests, and for any number of turns
\* at once: the loop gives up on no account that stayed usable.
THEOREM HealthyAccountsTried == Spec => []NoHealthyAccountOverlooked
<1>1. IInv => NoHealthyAccountOverlooked
  <2> SUFFICES ASSUME IInv, NEW t \in Turns, turn[t].stage \in {"exhausted", "unavailable"}
               PROVE  ToSet(turn[t].all) \subseteq turn[t].dialled \cup unfit[t]
    BY DEF NoHealthyAccountOverlooked
  <2>1. Sound(turn[t], unfit[t])
    BY DEF IInv
  <2> QED BY <2>1 DEF Sound
<1> QED BY <1>1, Invariance, PTL

\* A request never costs more upstream attempts than the provider has accounts.
THEOREM AttemptsBounded == Spec => []DialsBounded
<1>1. IInv => DialsBounded
  <2> SUFFICES ASSUME IInv, NEW t \in Turns, ~At(t, "idle")
               PROVE  turn[t].dials <= IF Unpinned(t) THEN Len(turn[t].all) ELSE 1
    BY DEF DialsBounded
  <2>1. Sound(turn[t], unfit[t]) /\ turn[t] \in TurnType
    BY DEF IInv, TypeOK
  <2>2. Len(turn[t].left) \in Nat /\ Len(turn[t].all) \in Nat /\ turn[t].dials \in Nat
    BY <2>1 DEF TurnType
  <2>3. CASE turn[t].stage = "begin"
    BY <2>1, <2>2, <2>3 DEF Sound, Unpinned
  <2>4. CASE turn[t].stage # "begin"
    BY <2>1, <2>2, <2>4 DEF Sound, Unpinned, At
  <2> QED BY <2>3, <2>4
<1> QED BY <1>1, Invariance, PTL

------------------------------------------------------------------------------
\* Only the choice of an account starts an attempt.
LEMMA OnlyChoiceDials ==
  ASSUME IInv, NEW t \in Turns, Step(t), ~ChooseCandidate(t), ~ChooseBySweep(t)
  PROVE  turn'[t].dials \in {turn[t].dials, 0}
<1>1. turn[t] \in TurnType /\ turn \in [Turns -> TurnType]
  BY DEF IInv, TypeOK
<1>2. ASSUME Exclude(t) \/ (\E s \in Stages : Moves(t, s)) PROVE turn'[t].dials = turn[t].dials
  BY <1>1, <1>2 DEF Exclude, Moves, TurnType
<1>3. CASE Arrive(t) \/ BeginPinned(t) \/ Refuse(t)
  BY <1>1, <1>3 DEF Arrive, BeginPinned, Refuse, TurnType
<1>4. CASE Begin(t)
  BY <1>1, <1>4 DEF Begin, TurnType
<1>5. CASE NoChoice(t)
  BY <1>1, <1>5 DEF NoChoice, TurnType
<1>6. CASE Exhaust(t) \/ Serve(t) \/ PinnedFails(t) \/ Fail(t) \/ NodeRefuses(t) \/ Deprecated(t)
  BY <1>2, <1>6 DEF Exhaust, Serve, PinnedFails, Fail, NodeRefuses, Deprecated, Stages
<1>7. CASE FreeTierRefuses(t) \/ Retryable(t)
  BY <1>1, <1>2, <1>7 DEF FreeTierRefuses, Retryable, TurnType
<1>8. CASE \/ Unlock(t) \/ Clear(t) \/ BindServed(t)
           \/ LockModel(t) \/ CoolAccount(t) \/ EvictBindings(t)
  BY <1>2, <1>8 DEF Unlock, Clear, BindServed, LockModel, CoolAccount, EvictBindings, Stages
<1>9. CASE RejectGrant(t) \/ RefreshGrant(t)
  BY <1>1, <1>9 DEF RejectGrant, RefreshGrant, Refreshing, TurnType
<1>10. CASE Reply(t)
  BY <1>1, <1>10 DEF Reply, AtRest
<1> QED BY <1>3, <1>4, <1>5, <1>6, <1>7, <1>8, <1>9, <1>10 DEF Step, Progress, Answer

\* The first account a turn dials is the head of its candidates, or another
\* one because the head could not be used.
LEMMA FirstDial ==
  ASSUME IInv, NEW t \in Turns, ChooseCandidate(t) \/ ChooseBySweep(t),
         turn[t].dials = 0, turn[t].home # None
  PROVE  turn'[t].conn = turn[t].home \/ turn[t].home \in unfit[t]
<1> DEFINE w == turn[t]
<1>1. At(t, "scan") /\ ~At(t, "idle") /\ Remaining(t) # <<>>
  BY DEF ChooseCandidate, ChooseBySweep, NeedsSweep, At
<1>2. /\ turn \in [Turns -> TurnType] /\ w \in TurnType /\ Sound(w, unfit[t])
      /\ Unusable(t) \subseteq unfit[t] /\ w.tried = {}
  BY <1>1, UnderWay DEF Sound
<1>3. CASE w.home \in unfit[t]
  BY <1>3
<1>4. CASE w.home \notin unfit[t]
  <2>1. w.left # <<>> /\ Head(w.left) = w.home
    BY <1>2, <1>4 DEF Sound
  <2>2. Head(Remaining(t)) = w.home /\ w.home \in Accounts
    BY <1>1, <1>2, <2>1, RemainingProperties
  <2>3. CASE ChooseCandidate(t)
    <3> DEFINE left == Tail(Remaining(t))
    <3>1. PICK pool \in PoolsFor(w.home, w.badPools) :
             turn' = [turn EXCEPT ![t].stage = "dial", ![t].conn = w.home, ![t].pool = pool,
                                  ![t].left = left, ![t].refreshes = 0, ![t].dials = @ + 1,
                                  ![t].dialled = @ \cup {w.home}]
      BY <2>2, <2>3 DEF ChooseCandidate, Dial
    <3> HIDE DEF left
    <3> QED BY <1>2, <3>1 DEF TurnType
  <2>4. CASE ChooseBySweep(t)
    <3>1. w.home \in Unusable(t)
      BY <2>2, <2>4 DEF ChooseBySweep, NeedsSweep, CandidateHonoured, Unusable, Selectable
    <3> QED BY <1>2, <1>4, <3>1
  <2> QED BY <2>3, <2>4
<1> QED BY <1>3, <1>4

\* A step of one turn is a step of no other.
LEMMA WhoseStep ==
  ASSUME IInv, [Next]_vars, NEW t \in Turns, turn'[t] # turn[t]
  PROVE  Step(t)
<1>1. RowsOK /\ turn \in [Turns -> TurnType]
  BY DEF IInv, TypeOK, RowsOK
<1>2. PICK u \in Turns : Step(u)
  BY <1>1, EnvironmentSound DEF Next, Step, vars
<1>3. turn' = [turn EXCEPT ![u] = turn'[u]]
  BY <1>2, StepSound DEF Local
<1> QED BY <1>1, <1>2, <1>3

\* A session's first attempt goes to the account it is bound to.
THEOREM SessionsKeepTheirAccount == Spec => AffinityKept
<1> DEFINE Kept(t) ==
      (turn[t].dials = 0 /\ turn'[t].dials = 1 /\ turn[t].home # None) =>
          turn'[t].conn = turn[t].home \/ turn[t].home \in unfit[t]
<1>1. ASSUME IInv, [Next]_vars, NEW t \in Turns
      PROVE  Kept(t)
  <2> SUFFICES ASSUME turn[t].dials = 0, turn'[t].dials = 1, turn[t].home # None
               PROVE  turn'[t].conn = turn[t].home \/ turn[t].home \in unfit[t]
    OBVIOUS
  <2>1. Step(t)
    BY <1>1, WhoseStep
  <2>2. ChooseCandidate(t) \/ ChooseBySweep(t)
    BY <1>1, <2>1, OnlyChoiceDials
  <2> QED BY <1>1, <2>2, FirstDial
<1>2. IInv /\ [Next]_vars => [\A t \in Turns : Kept(t)]_vars
  BY <1>1
<1> QED BY <1>2, Invariance, PTL DEF Spec, AffinityKept

\* A turn that runs in a probe context reaches the upstream, and its steps
\* write nothing that the selection of another turn reads.
THEOREM ProbesAreNoEvidence == Spec => ProbesLeaveNoTrace
<1> DEFINE NoTrace(t) ==
      ~At(t, "idle") /\ IsProbe(t) /\ turn'[t] # turn[t] =>
          UNCHANGED <<enabled, rate, lock, bound>>
<1>1. ASSUME IInv, [Next]_vars, NEW t \in Turns
      PROVE  NoTrace(t)
  <2> SUFFICES ASSUME ~At(t, "idle"), IsProbe(t), turn'[t] # turn[t]
               PROVE  UNCHANGED <<enabled, rate, lock, bound>>
    OBVIOUS
  <2>1. Step(t)
    BY <1>1, WhoseStep
  <2>2. /\ turn[t] \in TurnType /\ turn[t].req \in Request /\ RowsOK /\ Sound(turn[t], unfit[t])
    BY <1>1, UnderWay
  <2>3. Key(t) = None /\ turn[t].stage \notin Writing
    BY <2>2, BindingType DEF IsProbe, Sound
  <2>4. Drop(t) = bound /\ Binding(t) = None /\ \A c : Rebound(t, c) = bound
    BY <2>3 DEF Drop, Binding, Rebound, AffinityOn
  <2>5. ~(Unlock(t) \/ Clear(t) \/ BindServed(t) \/ LockModel(t) \/ CoolAccount(t) \/ EvictBindings(t))
    BY <2>3 DEF Unlock, Clear, BindServed, LockModel, CoolAccount, EvictBindings, At, Writing
  <2>6. CASE Arrive(t) \/ Reply(t) \/ RejectGrant(t) \/ RefreshGrant(t)
    BY <2>6 DEF Arrive, Reply, RejectGrant, RefreshGrant, Refreshing, rows
  <2>7. CASE BeginPinned(t) \/ Refuse(t)
    BY <2>7 DEF BeginPinned, Refuse, rows
  <2>8. CASE Begin(t)
    <3>1. (IF Len(Active) > 1 THEN Binding(t) ELSE None) = None
      BY <2>4
    <3> QED BY <2>8, <3>1 DEF Begin, rows
  <2>9. CASE ChooseCandidate(t) \/ ChooseBySweep(t) \/ NoChoice(t) \/ Exhaust(t)
    BY <2>4, <2>9 DEF ChooseCandidate, ChooseBySweep, NoChoice, Exhaust, rows
  <2>10. CASE Answer(t)
    BY <2>4, <2>10 DEF Answer, Serve, PinnedFails, Fail, NodeRefuses, Deprecated,
                       FreeTierRefuses, Retryable, rows
  <2> QED BY <2>1, <2>5, <2>6, <2>7, <2>8, <2>9, <2>10 DEF Step, Progress
<1>2. IInv /\ [Next]_vars => [\A t \in Turns : NoTrace(t)]_vars
  BY <1>1
<1> QED BY <1>2, Invariance, PTL DEF Spec, ProbesLeaveNoTrace
==============================================================================
