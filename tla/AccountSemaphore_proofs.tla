----------------------- MODULE AccountSemaphore_proofs -----------------------
(***************************************************************************)
(* Proofs about AccountSemaphore, for any finite set of requests and any   *)
(* blocks, gates, limits and line length.                                  *)
(***************************************************************************)
EXTENDS AccountSemaphore, Selection_proofs, FiniteSetTheorems, TLAPS

\* A goroutine has a pointer to a gate while it is inside a call.
Pointers == \A a \in Actors : at[a] = None <=> step[a] = "idle"

Awaiting == {"waiting", "leaving", "owed"}

\* A granted slot is on one way to one request that still waits for it.
Grants ==
    /\ \A a \in Actors : handing[a] # None <=> step[a] = "handing"
    /\ \A a \in Actors : handing[a] \notin handed
    /\ \A a, b \in Actors : handing[a] = handing[b] /\ handing[a] # None => a = b
    /\ \A r \in Callers : r \in Granted => step[r] \in Awaiting

\* A line holds waiting requests of its gate, each once and none granted a slot.
Lines ==
    \A g \in Gates :
        /\ Distinct(queue[g])
        /\ \A r \in ToSet(queue[g]) : at[r] = g /\ step[r] \in {"waiting", "leaving"}
                                      /\ r \notin Granted

\* The limit of a gate in use is the one of its last caller.
Limits ==
    \A g \in Gates : g \in Referenced =>
        cap[g] = MaxConcurrency \/ (cap[g] = DefaultConcurrency /\ Blockers # {})

\* Somebody sleeps until a blocked gate opens.
Blocks == \A g \in Gates : blocked[g] => AsleepAt(g) # {}

Shape == SemaphoreTypeOK /\ Pointers /\ Grants /\ Lines

SemInv == Shape /\ RunningIsHolders /\ Limits /\ Blocks /\ NoneStranded

------------------------------------------------------------------------------
\* What the operations on a line do to it.
LEMMA LineOps ==
  ASSUME Shape, NEW g \in Gates
  PROVE  /\ queue[g] \in Seq(Callers) /\ ToSet(queue[g]) \subseteq Callers
         /\ \A r \in Callers \ ToSet(queue[g]) :
               /\ Append(queue[g], r) \in Seq(Callers) /\ Distinct(Append(queue[g], r))
               /\ ToSet(Append(queue[g], r)) = ToSet(queue[g]) \cup {r}
         /\ \A r \in Callers :
               /\ Keep(queue[g], Callers \ {r}) \in Seq(Callers)
               /\ Distinct(Keep(queue[g], Callers \ {r}))
               /\ ToSet(Keep(queue[g], Callers \ {r})) = ToSet(queue[g]) \ {r}
         /\ queue[g] # <<>> =>
               /\ Head(queue[g]) \in ToSet(queue[g])
               /\ Tail(queue[g]) \in Seq(Callers) /\ Distinct(Tail(queue[g]))
               /\ ToSet(Tail(queue[g])) = ToSet(queue[g]) \ {Head(queue[g])}
<1> DEFINE q == queue[g]
<1>1. q \in Seq(Callers) /\ Distinct(q)
  BY DEF Shape, SemaphoreTypeOK, Lines
<1> HIDE DEF q
<1>2. ToSet(q) \subseteq Callers
  BY <1>1, EmptyToSet
<1>3. ASSUME NEW r \in Callers \ ToSet(q)
      PROVE  /\ Append(q, r) \in Seq(Callers) /\ Distinct(Append(q, r))
             /\ ToSet(Append(q, r)) = ToSet(q) \cup {r}
  BY <1>1, AppendDistinct, AppendToSet
<1>4. ASSUME NEW r \in Callers
      PROVE  /\ Keep(q, Callers \ {r}) \in Seq(Callers) /\ Distinct(Keep(q, Callers \ {r}))
             /\ ToSet(Keep(q, Callers \ {r})) = ToSet(q) \ {r}
  <2> DEFINE A == Callers \ {r}
  <2>1. ToSet(q) \cap A = ToSet(q) \ {r}
    BY <1>2
  <2> HIDE DEF A
  <2>2. Keep(q, A) \in Seq(Callers) /\ Distinct(Keep(q, A)) /\ ToSet(Keep(q, A)) = ToSet(q) \cap A
    BY <1>1, KeepProperties, KeepDistinct
  <2> QED BY <2>1, <2>2 DEF A
<1>5. ASSUME q # <<>>
      PROVE  /\ Head(q) \in ToSet(q) /\ Tail(q) \in Seq(Callers) /\ Distinct(Tail(q))
             /\ ToSet(Tail(q)) = ToSet(q) \ {Head(q)}
  BY <1>1, <1>5, HeadTailSet, TailDistinct
<1> QED BY <1>1, <1>2, <1>3, <1>4, <1>5 DEF q

\* gateFor returns a gate that was registered, or one nobody knew.
LEMMA GateForFacts ==
  ASSUME Shape, NEW g \in Gates, NEW limit \in Nat \ {0}, GateFor(g, limit)
  PROVE  /\ registered' = g
         /\ running' \in [Gates -> Nat] /\ cap' \in [Gates -> Nat]
         /\ queue' = queue /\ blocked' \in [Gates -> BOOLEAN]
         /\ cap'[g] = limit
         /\ \A h \in Gates \ {g} : running'[h] = running[h] /\ cap'[h] = cap[h]
                                   /\ blocked'[h] = blocked[h]
         /\ \/ registered = g /\ running'[g] = running[g] /\ blocked'[g] = blocked[g]
            \/ registered = None /\ g \notin Referenced /\ running'[g] = 0 /\ ~blocked'[g]
<1>1. /\ running \in [Gates -> Nat] /\ cap \in [Gates -> Nat] /\ queue \in [Gates -> Seq(Callers)]
      /\ blocked \in [Gates -> BOOLEAN]
  BY DEF Shape, SemaphoreTypeOK
<1>2. ASSUME registered = None, g \notin Referenced PROVE queue[g] = <<>>
  <2>1. \A r \in ToSet(queue[g]) : at[r] = g /\ r \in Actors
    BY LineOps DEF Shape, Lines, Actors
  <2>2. ToSet(queue[g]) = {}
    BY <1>2, <2>1 DEF Referenced
  <2> QED BY <1>1, <2>2, EmptyToSet
<1>3. CASE registered = None
  <2>1. g \notin Referenced
    BY <1>3, SemaphoreFits DEF GateFor
  <2>2. queue' = queue
    BY <1>1, <1>2, <1>3, <2>1 DEF GateFor
  <2> QED BY <1>1, <1>3, <2>1, <2>2 DEF GateFor
<1>4. CASE registered # None
  BY <1>1, <1>4 DEF GateFor
<1> QED BY <1>3, <1>4

\* A goroutine moves on, and no line and no grant changes.
LEMMA QuietShape ==
  ASSUME Shape, NEW a \in Actors, NEW v \in States \ {"handing"}, NEW p \in Gates \cup {None},
         step' = [step EXCEPT ![a] = v], at' = [at EXCEPT ![a] = p],
         p = None <=> v = "idle",
         step[a] # "handing",
         step[a] \in Awaiting => v \in Awaiting /\ p = at[a],
         step[a] \in {"waiting", "leaving"} =>
             v \in {"waiting", "leaving"} \/ \A g \in Gates : a \notin ToSet(queue[g]),
         queue' = queue, handing' = handing, handed' = handed,
         registered' \in Gates \cup {None}, running' \in [Gates -> Nat],
         cap' \in [Gates -> Nat], blocked' \in [Gates -> BOOLEAN]
  PROVE  Shape'
<1>1. SemaphoreTypeOK'
  BY DEF Shape, SemaphoreTypeOK
<1>2. Pointers'
  BY DEF Shape, SemaphoreTypeOK, Pointers
<1>3. Granted' = Granted
  BY DEF Granted
<1>4. Grants'
  <2>1. \A b \in Actors : handing'[b] # None <=> step'[b] = "handing"
    BY DEF Shape, SemaphoreTypeOK, Grants
  <2>2. \A r \in Callers : r \in Granted' => step'[r] \in Awaiting
    BY <1>3 DEF Shape, SemaphoreTypeOK, Grants
  <2> QED BY <2>1, <2>2 DEF Shape, Grants
<1>5. Lines'
  <2> SUFFICES ASSUME NEW g \in Gates, NEW r \in ToSet(queue[g])
               PROVE  at'[r] = g /\ step'[r] \in {"waiting", "leaving"}
    BY <1>3 DEF Lines, Shape
  <2>1. at[r] = g /\ step[r] \in {"waiting", "leaving"} /\ r \in Actors
    BY LineOps DEF Shape, Lines, Actors
  <2> QED BY <2>1 DEF Shape, SemaphoreTypeOK, Awaiting
<1> QED BY <1>1, <1>2, <1>4, <1>5 DEF Shape

\* Acquire: look-up, entry, the line, the grant and the timer.
LEMMA AcquireShape ==
  ASSUME Shape, NEW r \in Callers, Acquire(r)
  PROVE  Shape'
<1>1. /\ r \in Actors /\ registered \in Gates \cup {None} /\ running \in [Gates -> Nat]
      /\ cap \in [Gates -> Nat] /\ blocked \in [Gates -> BOOLEAN]
      /\ queue \in [Gates -> Seq(Callers)] /\ handed \subseteq Callers
      /\ step \in [Actors -> States] /\ at \in [Actors -> Gates \cup {None}]
      /\ handing \in [Actors -> Callers \cup {None}]
  BY DEF Shape, SemaphoreTypeOK, Actors
<1>2. at[r] = None <=> step[r] = "idle"
  BY <1>1 DEF Shape, Pointers
<1>3. \A x : step' = [step EXCEPT ![r] = x] /\ at' = at => at' = [at EXCEPT ![r] = at[r]]
  BY <1>1
<1>4. CASE \E g \in Gates : LookUp(r, g)
  <2>1. PICK g \in Gates : LookUp(r, g)
    BY <1>4
  <2>2. /\ registered' = g /\ running' \in [Gates -> Nat] /\ cap' \in [Gates -> Nat]
        /\ queue' = queue /\ blocked' \in [Gates -> BOOLEAN]
    BY <2>1, GateForFacts, SemaphoreFits DEF LookUp
  <2>3. /\ step' = [step EXCEPT ![r] = "entering"] /\ at' = [at EXCEPT ![r] = g]
        /\ handing' = handing /\ handed' = handed /\ step[r] = "idle"
    BY <2>1 DEF LookUp, Goes
  <2>4. g # None /\ "entering" \in States \ {"handing"} /\ step[r] \notin Awaiting
    BY <2>3, SemaphoreFits DEF States, Awaiting
  <2> QED BY <1>1, <2>2, <2>3, <2>4, QuietShape DEF Awaiting
<1>5. CASE Enter(r)
  <2>1. /\ step' = [step EXCEPT ![r] = "holding"] /\ at' = at /\ step[r] = "entering"
        /\ running' = [running EXCEPT ![at[r]] = @ + 1]
        /\ UNCHANGED <<registered, cap, queue, blocked, handing, handed>>
    BY <1>5 DEF Enter, Goes
  <2>2. at[r] \in Gates
    BY <1>1, <1>2, <2>1
  <2>3. running' \in [Gates -> Nat]
    BY <1>1, <2>1, <2>2
  <2> QED BY <1>1, <1>2, <1>3, <2>1, <2>3, QuietShape DEF Awaiting, States
<1>6. CASE LineFull(r)
  <2>1. /\ step' = [step EXCEPT ![r] = "idle"] /\ at' = [at EXCEPT ![r] = None]
        /\ step[r] = "entering" /\ UNCHANGED <<registered, gates, handing, handed>>
    BY <1>6 DEF LineFull, Goes, Ends
  <2> QED BY <1>1, <2>1, QuietShape DEF Awaiting, States, gates
<1>7. CASE WaitInLine(r)
  <2> DEFINE g == at[r]
  <2>1. /\ step[r] = "entering" /\ step' = [step EXCEPT ![r] = "waiting"]
        /\ queue' = [queue EXCEPT ![g] = Append(queue[g], r)]
        /\ UNCHANGED <<registered, running, cap, blocked, at, handing, handed>>
    BY <1>7 DEF WaitInLine, Goes
  <2>2. g \in Gates /\ Granted' = Granted /\ r \notin Granted
    BY <1>1, <1>2, <2>1 DEF Granted, Shape, Grants, Awaiting
  <2>3. \A h \in Gates : r \notin ToSet(queue[h])
    BY <2>1 DEF Shape, Lines
  <2>4. /\ queue'[g] \in Seq(Callers) /\ Distinct(queue'[g])
        /\ ToSet(queue'[g]) = ToSet(queue[g]) \cup {r}
    BY <1>1, <2>1, <2>2, <2>3, LineOps
  <2>5. \A h \in Gates : h # g => queue'[h] = queue[h]
    BY <1>1, <2>1, <2>2
  <2>6. queue' \in [Gates -> Seq(Callers)]
    BY <1>1, <2>1, <2>2, <2>4
  <2>7. SemaphoreTypeOK'
    BY <1>1, <2>1, <2>6 DEF SemaphoreTypeOK, States
  <2>8. Pointers'
    BY <1>1, <2>1 DEF Shape, Pointers
  <2>9. Grants'
    BY <1>1, <2>1, <2>2 DEF Shape, Grants, Awaiting
  <2>10. Lines'
    <3> SUFFICES ASSUME NEW h \in Gates, NEW u \in ToSet(queue'[h])
                 PROVE  /\ Distinct(queue'[h]) /\ at[u] = h
                        /\ step'[u] \in {"waiting", "leaving"} /\ u \notin Granted
      BY <1>1, <2>1, <2>2, <2>4, <2>5 DEF Lines, Shape
    <3>1. Distinct(queue'[h])
      BY <2>4, <2>5 DEF Shape, Lines
    <3>2. (u = r /\ h = g) \/ u \in ToSet(queue[h])
      BY <2>4, <2>5
    <3>3. u \in ToSet(queue[h]) => u \in Actors
      BY LineOps DEF Actors
    <3> QED BY <1>1, <2>1, <2>2, <3>1, <3>2, <3>3 DEF Shape, Lines
  <2> QED BY <2>7, <2>8, <2>9, <2>10 DEF Shape
<1>8. CASE TakeGrant(r)
  <2>1. /\ step[r] \in Awaiting /\ r \in handed /\ handed' = handed \ {r}
        /\ step' = [step EXCEPT ![r] = "holding"]
        /\ UNCHANGED <<registered, running, cap, blocked, queue, at, handing>>
    BY <1>8 DEF TakeGrant, Goes, Awaiting, gates
  <2>2. r \in Granted /\ Granted' = Granted \ {r}
    BY <2>1 DEF Granted, Shape, Grants
  <2>3. SemaphoreTypeOK'
    BY <1>1, <2>1 DEF SemaphoreTypeOK, States
  <2>4. Pointers'
    BY <1>1, <2>1 DEF Shape, Pointers, Awaiting
  <2>5. Grants'
    BY <1>1, <2>1, <2>2 DEF Shape, Grants, Awaiting
  <2>6. Lines'
    <3>1. \A g \in Gates : ToSet(queue[g]) \subseteq Actors /\ r \notin ToSet(queue[g])
      BY <2>2, LineOps DEF Shape, Lines, Actors
    <3> QED BY <1>1, <2>1, <2>2, <3>1 DEF Shape, Lines
  <2> QED BY <2>3, <2>4, <2>5, <2>6 DEF Shape
<1>9. CASE TimesOut(r)
  <2>1. /\ step' = [step EXCEPT ![r] = "leaving"] /\ at' = at
        /\ step[r] = "waiting" /\ UNCHANGED <<registered, gates, handing, handed>>
    BY <1>9 DEF TimesOut, Goes
  <2> QED BY <1>1, <1>2, <1>3, <2>1, QuietShape DEF Awaiting, States, gates
<1>10. CASE Withdraw(r)
  <2> DEFINE g == at[r]
  <2>1. /\ step[r] = "leaving" /\ UNCHANGED <<registered, running, cap, blocked, handing, handed>>
    BY <1>10 DEF Withdraw
  <2>2. g \in Gates /\ Granted' = Granted
    BY <1>1, <1>2, <2>1 DEF Granted
  <2>3. CASE r \in ToSet(queue[g])
    <3>1. /\ queue' = [queue EXCEPT ![g] = Keep(queue[g], Callers \ {r})]
          /\ step' = [step EXCEPT ![r] = "idle"] /\ at' = [at EXCEPT ![r] = None]
      BY <1>10, <2>3 DEF Withdraw, Ends, Goes
    <3>2. /\ queue'[g] \in Seq(Callers) /\ Distinct(queue'[g])
          /\ ToSet(queue'[g]) = ToSet(queue[g]) \ {r}
      BY <1>1, <2>2, <3>1, LineOps
    <3>3. \A h \in Gates : h # g => queue'[h] = queue[h]
      BY <1>1, <2>2, <3>1
    <3>4. queue' \in [Gates -> Seq(Callers)]
      BY <1>1, <2>2, <3>1, <3>2
    <3>5. SemaphoreTypeOK'
      BY <1>1, <2>1, <3>1, <3>4 DEF SemaphoreTypeOK, States
    <3>6. Pointers'
      BY <1>1, <3>1 DEF Shape, Pointers
    <3>7. Grants'
      BY <1>1, <2>1, <2>2, <2>3, <3>1 DEF Shape, Grants, Lines
    <3>8. Lines'
      <4> SUFFICES ASSUME NEW h \in Gates, NEW u \in ToSet(queue'[h])
                   PROVE  /\ Distinct(queue'[h]) /\ at'[u] = h
                          /\ step'[u] \in {"waiting", "leaving"} /\ u \notin Granted
        BY <2>2, <3>2, <3>3 DEF Lines, Shape
      <4>1. Distinct(queue'[h]) /\ u \in ToSet(queue[h])
        BY <3>2, <3>3 DEF Shape, Lines
      <4>2. u \in Actors /\ at[u] = h /\ step[u] \in {"waiting", "leaving"} /\ u \notin Granted
        BY <4>1, LineOps DEF Shape, Lines, Actors
      <4>3. u # r
        BY <3>2, <4>2
      <4> QED BY <1>1, <3>1, <4>1, <4>2, <4>3
    <3> QED BY <3>5, <3>6, <3>7, <3>8 DEF Shape
  <2>4. CASE r \notin ToSet(queue[g])
    <3>1. step' = [step EXCEPT ![r] = "owed"] /\ queue' = queue /\ at' = at
      BY <1>10, <2>4 DEF Withdraw, Goes
    <3>2. \A h \in Gates : r \notin ToSet(queue[h])
      BY <2>4 DEF Shape, Lines
    <3> QED BY <1>1, <1>2, <1>3, <2>1, <3>1, <3>2, QuietShape DEF Awaiting, States
  <2> QED BY <2>3, <2>4
<1> QED BY <1>4, <1>5, <1>6, <1>7, <1>8, <1>9, <1>10 DEF Acquire

\* A slot that is given back was counted, so the count stays a number.
LEMMA ReleaseShape ==
  ASSUME Shape, RunningIsHolders, NEW r \in Callers, ReleaseSlot(r)
  PROVE  Shape'
<1>1. /\ r \in Actors /\ at[r] \in Gates /\ running \in [Gates -> Nat]
      /\ step \in [Actors -> States] /\ at \in [Actors -> Gates \cup {None}]
      /\ step[r] = "holding"
  BY DEF Shape, SemaphoreTypeOK, Actors, Pointers, ReleaseSlot
<1>2. running[at[r]] > 0
  <2> DEFINE H == HoldersOf(at[r])
  <2>1. r \in H /\ H \subseteq Callers
    BY <1>1 DEF HoldersOf
  <2>2. IsFiniteSet(H)
    BY <2>1, SemaphoreFits, FS_Subset
  <2>3. Cardinality(H) # 0
    <3> HIDE DEF H
    <3> QED BY <2>1, <2>2, FS_EmptySet
  <2>4. running[at[r]] = Cardinality(H)
    BY <1>1 DEF RunningIsHolders, Referenced
  <2> QED BY <1>1, <2>3, <2>4
<1>3. /\ step' = [step EXCEPT ![r] = "draining"] /\ at' = [at EXCEPT ![r] = at[r]]
      /\ running' = [running EXCEPT ![at[r]] = @ - 1]
      /\ UNCHANGED <<registered, cap, queue, blocked, handing, handed>>
  BY <1>1 DEF ReleaseSlot, Goes
<1>4. running' \in [Gates -> Nat]
  BY <1>1, <1>2, <1>3
<1>5. at[r] # None /\ "draining" \in States \ {"handing"} /\ step[r] \notin Awaiting
  BY <1>1, SemaphoreFits DEF States, Awaiting
<1> QED BY <1>1, <1>3, <1>4, <1>5, QuietShape DEF Shape, SemaphoreTypeOK, Awaiting

\* The release function's drain, and the clean-up after it.
LEMMA DrainShape ==
  ASSUME Shape, NEW a \in Actors, Drain(a)
  PROVE  Shape'
<1>1. /\ registered \in Gates \cup {None} /\ running \in [Gates -> Nat]
      /\ cap \in [Gates -> Nat] /\ blocked \in [Gates -> BOOLEAN]
      /\ queue \in [Gates -> Seq(Callers)] /\ handed \subseteq Callers
      /\ step \in [Actors -> States] /\ at \in [Actors -> Gates \cup {None}]
      /\ handing \in [Actors -> Callers \cup {None}]
  BY DEF Shape, SemaphoreTypeOK
<1>2. at[a] = None <=> step[a] = "idle"
  BY DEF Shape, Pointers
<1>3. \A x : step' = [step EXCEPT ![a] = x] /\ at' = at => at' = [at EXCEPT ![a] = at[a]]
  BY <1>1
<1>4. CASE Dequeue(a)
  <2> DEFINE g == at[a]
             r == Head(queue[g])
  <2>1. /\ step[a] = "draining" /\ queue[g] # <<>>
        /\ handing' = [handing EXCEPT ![a] = r]
        /\ queue' = [queue EXCEPT ![g] = Tail(queue[g])]
        /\ running' = [running EXCEPT ![g] = @ + 1]
        /\ step' = [step EXCEPT ![a] = "handing"]
        /\ UNCHANGED <<registered, cap, blocked, at, handed>>
    BY <1>4 DEF Dequeue, Goes
  <2>2. g \in Gates /\ handing[a] = None
    BY <1>1, <1>2, <2>1 DEF Shape, Grants
  <2>3. /\ r \in ToSet(queue[g]) /\ r \in Callers /\ r # None
        /\ queue'[g] \in Seq(Callers) /\ Distinct(queue'[g])
        /\ ToSet(queue'[g]) = ToSet(queue[g]) \ {r}
    BY <1>1, <2>1, <2>2, LineOps, SemaphoreFits
  <2>4. at[r] = g /\ step[r] \in {"waiting", "leaving"} /\ r \notin Granted /\ r # a
        /\ r \in Actors
    BY <2>1, <2>2, <2>3 DEF Shape, Lines, Actors
  <2> HIDE DEF r
  <2>5. Granted' \ {None} = (Granted \cup {r}) \ {None}
    <3>1. handing'[a] = r /\ \A b \in Actors : b # a => handing'[b] = handing[b]
      BY <1>1, <2>1
    <3> QED BY <2>1, <2>2, <3>1 DEF Granted
  <2>6. \A h \in Gates : h # g => queue'[h] = queue[h]
    BY <1>1, <2>1, <2>2
  <2>7. SemaphoreTypeOK'
    <3>1. queue' \in [Gates -> Seq(Callers)] /\ running' \in [Gates -> Nat]
      BY <1>1, <2>1, <2>2, <2>3
    <3>2. handing' \in [Actors -> Callers \cup {None}] /\ step' \in [Actors -> States]
      BY <1>1, <2>1, <2>3 DEF States
    <3> QED BY <1>1, <2>1, <3>1, <3>2 DEF SemaphoreTypeOK
  <2>8. Pointers'
    BY <1>1, <2>1 DEF Shape, Pointers
  <2>9. Grants'
    <3>1. \A b \in Actors : handing'[b] # None <=> step'[b] = "handing"
      BY <1>1, <2>1, <2>3 DEF Shape, Grants
    <3>2. r \notin handed /\ \A b \in Actors : handing[b] # r
      BY <2>4 DEF Granted
    <3>3. \A b \in Actors : handing'[b] \notin handed'
      BY <1>1, <2>1, <3>2 DEF Shape, Grants
    <3>4. \A b, c \in Actors : handing'[b] = handing'[c] /\ handing'[b] # None => b = c
      BY <1>1, <2>1, <3>2 DEF Shape, Grants
    <3>5. \A u \in Callers : u \in Granted' => step'[u] \in Awaiting
      <4>1. \A u \in Callers : u # None /\ u \in Actors
        BY SemaphoreFits DEF Actors
      <4> QED BY <1>1, <2>1, <2>4, <2>5, <4>1 DEF Shape, Grants, Awaiting
    <3> QED BY <3>1, <3>3, <3>4, <3>5 DEF Grants
  <2>10. Lines'
    <3> SUFFICES ASSUME NEW h \in Gates
                 PROVE  /\ Distinct(queue'[h])
                        /\ \A u \in ToSet(queue'[h]) :
                              at[u] = h /\ step'[u] \in {"waiting", "leaving"} /\ u \notin Granted'
      BY <2>1 DEF Lines
    <3>1. Distinct(queue'[h])
      BY <2>3, <2>6 DEF Shape, Lines
    <3>2. ASSUME NEW u \in ToSet(queue'[h])
          PROVE  at[u] = h /\ step'[u] \in {"waiting", "leaving"} /\ u \notin Granted'
      <4>1. u \in ToSet(queue[h])
        BY <2>3, <2>6, <3>2
      <4>2. /\ u \in Callers /\ u \in Actors /\ u # None
            /\ at[u] = h /\ step[u] \in {"waiting", "leaving"} /\ u \notin Granted
        BY <4>1, LineOps, SemaphoreFits DEF Shape, Lines, Actors
      <4>3. u # r
        BY <2>3, <2>4, <3>2, <4>2
      <4>4. u # a
        BY <2>1, <4>2
      <4> QED BY <1>1, <2>1, <2>5, <4>2, <4>3, <4>4
    <3> QED BY <3>1, <3>2
  <2> QED BY <2>7, <2>8, <2>9, <2>10 DEF Shape
<1>5. CASE HandOver(a)
  <2> DEFINE r == handing[a]
  <2>1. /\ step[a] = "handing" /\ step' = [step EXCEPT ![a] = "draining"]
        /\ handed' = handed \cup {r} /\ handing' = [handing EXCEPT ![a] = None]
        /\ UNCHANGED <<registered, running, cap, blocked, queue, at>>
    BY <1>5 DEF HandOver, Goes, gates
  <2>2. r \in Callers /\ r # None
    BY <1>1, <2>1, SemaphoreFits DEF Shape, Grants
  <2>3. Granted' \ {None} = Granted \ {None}
    <3>1. handing'[a] = None /\ \A b \in Actors : b # a => handing'[b] = handing[b]
      BY <1>1, <2>1
    <3> QED BY <2>1, <2>2, <3>1 DEF Granted
  <2>4. SemaphoreTypeOK'
    BY <1>1, <2>1, <2>2 DEF SemaphoreTypeOK, States
  <2>5. Pointers'
    BY <1>1, <2>1 DEF Shape, Pointers
  <2>6. r \in Granted /\ a \in Actors /\ step[r] \in Awaiting
    BY <2>2 DEF Granted, Shape, Grants
  <2>7. \A u \in Callers : u # None /\ u \in Actors
    BY SemaphoreFits DEF Actors
  <2>8. Grants'
    <3>1. \A b \in Actors : handing'[b] # None <=> step'[b] = "handing"
      BY <1>1, <2>1 DEF Shape, Grants
    <3>2. \A b \in Actors : b # a => handing[b] # r
      BY <2>2 DEF Shape, Grants
    <3>3. \A b \in Actors : handing'[b] \notin handed'
      <4>1. None \notin handed'
        BY <1>1, <2>1, <2>2, SemaphoreFits
      <4> QED BY <1>1, <2>1, <3>2, <4>1 DEF Shape, Grants
    <3>4. \A b, c \in Actors : handing'[b] = handing'[c] /\ handing'[b] # None => b = c
      BY <1>1, <2>1 DEF Shape, Grants
    <3>5. \A u \in Callers : u \in Granted' => step'[u] \in Awaiting
      BY <1>1, <2>1, <2>3, <2>7 DEF Shape, Grants, Awaiting
    <3> QED BY <3>1, <3>3, <3>4, <3>5 DEF Grants
  <2>9. Lines'
    <3>1. \A g \in Gates : ToSet(queue[g]) \subseteq Callers
      BY LineOps
    <3> QED BY <1>1, <2>1, <2>3, <2>7, <3>1 DEF Shape, Lines
  <2> QED BY <2>4, <2>5, <2>8, <2>9 DEF Shape
<1>6. CASE DrainEnds(a) \/ MayDropGate(a)
  <2>1. PICK v \in {"cleaning", "dropping"} :
           /\ step' = [step EXCEPT ![a] = v] /\ at' = at
           /\ step[a] \in {"draining", "cleaning"} /\ UNCHANGED <<registered, gates, handing, handed>>
    BY <1>6 DEF DrainEnds, MayDropGate, Goes
  <2>2. v \in States \ {"handing"} /\ v # "idle" /\ at[a] # None
        /\ step[a] \notin Awaiting /\ step[a] # "handing"
    BY <1>2, <2>1 DEF States, Awaiting
  <2> QED BY <1>1, <1>3, <2>1, <2>2, QuietShape DEF gates, Awaiting
<1>7. CASE KeepGate(a) \/ DropGate(a)
  <2>1. /\ step' = [step EXCEPT ![a] = "idle"] /\ at' = [at EXCEPT ![a] = None]
        /\ step[a] \in {"cleaning", "dropping"} /\ UNCHANGED <<gates, handing, handed>>
        /\ registered' \in Gates \cup {None}
    BY <1>1, <1>7 DEF KeepGate, DropGate, Goes, Ends
  <2>2. step[a] \notin Awaiting /\ step[a] # "handing" /\ "idle" \in States \ {"handing"}
    BY <2>1 DEF States, Awaiting
  <2> QED BY <1>1, <2>1, <2>2, QuietShape DEF gates, Awaiting
<1> QED BY <1>4, <1>5, <1>6, <1>7 DEF Drain

\* Block, and the goroutine that wakes when the block ends.
LEMMA BlockShape ==
  ASSUME Shape, NEW b \in Blockers, Block(b)
  PROVE  Shape'
<1>1. /\ b \in Actors
      /\ registered \in Gates \cup {None} /\ running \in [Gates -> Nat]
      /\ cap \in [Gates -> Nat] /\ blocked \in [Gates -> BOOLEAN]
      /\ step \in [Actors -> States] /\ at \in [Actors -> Gates \cup {None}]
  BY DEF Shape, SemaphoreTypeOK, Actors
<1>2. at[b] = None <=> step[b] = "idle"
  BY <1>1 DEF Shape, Pointers
<1>3. CASE \E g \in Gates : BlockLooksUp(b, g)
  <2>1. PICK g \in Gates : BlockLooksUp(b, g)
    BY <1>3
  <2>2. /\ registered' = g /\ running' \in [Gates -> Nat] /\ cap' \in [Gates -> Nat]
        /\ queue' = queue /\ blocked' \in [Gates -> BOOLEAN]
    BY <2>1, GateForFacts, SemaphoreFits DEF BlockLooksUp
  <2>3. /\ step' = [step EXCEPT ![b] = "blocking"] /\ at' = [at EXCEPT ![b] = g]
        /\ handing' = handing /\ handed' = handed /\ step[b] = "idle"
    BY <2>1 DEF BlockLooksUp, Goes
  <2>4. g # None /\ "blocking" \in States \ {"handing"} /\ step[b] \notin Awaiting
    BY <2>3, SemaphoreFits DEF States, Awaiting
  <2> QED BY <1>1, <2>2, <2>3, <2>4, QuietShape DEF Awaiting
<1>4. CASE StartBlock(b) \/ WakeUp(b)
  <2>1. PICK v \in {"asleep", "draining"} :
           /\ step' = [step EXCEPT ![b] = v] /\ at' = at
           /\ step[b] \in {"blocking", "asleep"}
           /\ UNCHANGED <<registered, running, cap, queue, handing, handed>>
    BY <1>4 DEF StartBlock, WakeUp, Goes, gates
  <2>2. at' = [at EXCEPT ![b] = at[b]] /\ at[b] # None
    BY <1>1, <1>2, <2>1
  <2>3. blocked' \in [Gates -> BOOLEAN]
    BY <1>1, <1>2, <1>4, <2>2 DEF StartBlock, WakeUp, gates
  <2>4. v \in States \ {"handing"} /\ v # "idle" /\ step[b] \notin Awaiting /\ step[b] # "handing"
    BY <2>1 DEF States, Awaiting
  <2> QED BY <1>1, <2>1, <2>2, <2>3, <2>4, QuietShape DEF Awaiting
<1> QED BY <1>3, <1>4 DEF Block

\* Every step keeps pointers, grants and lines in order.
LEMMA ShapeKept ==
  ASSUME Shape, RunningIsHolders, SemaphoreNext
  PROVE  Shape'
<1>1. CASE \E g \in Gates : BlockEnds(g)
  BY <1>1 DEF BlockEnds, Shape, SemaphoreTypeOK, Pointers, Grants, Lines, Granted
<1>2. CASE Reset
  BY <1>2 DEF Reset, gates, Shape, SemaphoreTypeOK, Pointers, Grants, Lines, Granted
<1> QED BY <1>1, <1>2, AcquireShape, ReleaseShape, DrainShape, BlockShape DEF SemaphoreNext

------------------------------------------------------------------------------
\* The steps that take a slot of a gate, and the one that gives it back.
Takes(g, r) ==
    \/ Enter(r) /\ at[r] = g
    \/ \E a \in Actors : Dequeue(a) /\ at[a] = g /\ r = Head(queue[g])
Gives(g, r) == ReleaseSlot(r) /\ at[r] = g

\* A slot that is taken was free, and its taker had none.
LEMMA TakeFacts ==
  ASSUME Shape, NEW g \in Gates, NEW r, Takes(g, r), r \in Callers \/ ~Enter(r)
  PROVE  /\ r \in Callers /\ r \notin HoldersOf(g) /\ SlotFree(g) /\ g \in Referenced
         /\ running' = [running EXCEPT ![g] = @ + 1]
         /\ HoldersOf(g)' = HoldersOf(g) \cup {r}
         /\ \A h \in Gates \ {g} : HoldersOf(h)' = HoldersOf(h)
         /\ UNCHANGED <<registered, cap, at, blocked>>
<1>1. /\ queue \in [Gates -> Seq(Callers)] /\ running \in [Gates -> Nat]
      /\ step \in [Actors -> States] /\ at \in [Actors -> Gates \cup {None}]
      /\ handing \in [Actors -> Callers \cup {None}]
      /\ \A u \in Callers : u \in Actors /\ u # None
  BY SemaphoreFits DEF Shape, SemaphoreTypeOK, Actors
<1>2. CASE Enter(r) /\ at[r] = g
  <2>1. /\ r \in Callers /\ step[r] = "entering" /\ SlotFree(g)
        /\ running' = [running EXCEPT ![g] = @ + 1]
        /\ step' = [step EXCEPT ![r] = "holding"]
        /\ UNCHANGED <<registered, cap, queue, blocked, at, handing, handed>>
    BY <1>2 DEF Enter, Goes
  <2>2. Granted' = Granted /\ r \notin Granted
    BY <2>1 DEF Granted, Shape, Grants, Awaiting
  <2>3. \A h \in Gates : HoldersOf(h)' = {u \in Callers : at[u] = h /\ (step'[u] = "holding" \/ u \in Granted)}
    BY <2>1, <2>2 DEF HoldersOf
  <2>4. HoldersOf(g)' = HoldersOf(g) \cup {r} /\ r \notin HoldersOf(g)
    BY <1>1, <1>2, <2>1, <2>2, <2>3 DEF HoldersOf
  <2>5. \A h \in Gates \ {g} : HoldersOf(h)' = HoldersOf(h)
    BY <1>1, <1>2, <2>1, <2>2, <2>3 DEF HoldersOf
  <2> QED BY <1>1, <1>2, <2>1, <2>4, <2>5 DEF Referenced
<1>3. CASE \E a \in Actors : Dequeue(a) /\ at[a] = g /\ r = Head(queue[g])
  <2>1. PICK a \in Actors : Dequeue(a) /\ at[a] = g /\ r = Head(queue[g])
    BY <1>3
  <2>2. /\ step[a] = "draining" /\ queue[g] # <<>> /\ SlotFree(g)
        /\ handing' = [handing EXCEPT ![a] = r]
        /\ running' = [running EXCEPT ![g] = @ + 1]
        /\ step' = [step EXCEPT ![a] = "handing"]
        /\ UNCHANGED <<registered, cap, blocked, at, handed>>
    BY <2>1 DEF Dequeue, Goes
  <2>3. r \in ToSet(queue[g]) /\ r \in Callers
    BY <2>2, <2>1, LineOps
  <2>4. at[r] = g /\ step[r] \in {"waiting", "leaving"} /\ r \notin Granted
    BY <2>3 DEF Shape, Lines
  <2>5. \A u \in Callers : u \in Granted' <=> u \in Granted \/ u = r
    <3>1. handing'[a] = r /\ \A b \in Actors : b # a => handing'[b] = handing[b]
      BY <1>1, <2>2
    <3>2. handing[a] = None
      BY <2>2 DEF Shape, Grants
    <3> QED BY <1>1, <2>2, <3>1, <3>2 DEF Granted
  <2>6. \A u \in Callers : step'[u] = "holding" <=> step[u] = "holding"
    BY <1>1, <2>2
  <2>7. \A h \in Gates : HoldersOf(h)' = {u \in Callers : at[u] = h /\ (step[u] = "holding" \/ u \in Granted \/ u = r)}
    BY <2>2, <2>5, <2>6 DEF HoldersOf
  <2>8. HoldersOf(g)' = HoldersOf(g) \cup {r} /\ r \notin HoldersOf(g)
    BY <2>3, <2>4, <2>7 DEF HoldersOf
  <2>9. \A h \in Gates \ {g} : HoldersOf(h)' = HoldersOf(h)
    BY <2>4, <2>7 DEF HoldersOf
  <2> QED BY <2>1, <2>2, <2>3, <2>8, <2>9 DEF Referenced
<1> QED BY <1>2, <1>3 DEF Takes

\* A slot that is given back was held by the request that gives it.
LEMMA GiveFacts ==
  ASSUME Shape, NEW g \in Gates, NEW r \in Callers, Gives(g, r)
  PROVE  /\ r \in HoldersOf(g) /\ g \in Referenced
         /\ running' = [running EXCEPT ![g] = @ - 1]
         /\ HoldersOf(g)' = HoldersOf(g) \ {r}
         /\ \A h \in Gates \ {g} : HoldersOf(h)' = HoldersOf(h)
         /\ UNCHANGED <<registered, cap, at, blocked, queue>>
<1>1. /\ step \in [Actors -> States]
      /\ \A u \in Callers : u \in Actors /\ u # None
  BY SemaphoreFits DEF Shape, SemaphoreTypeOK, Actors
<1>2. /\ step[r] = "holding" /\ at[r] = g
      /\ running' = [running EXCEPT ![g] = @ - 1]
      /\ step' = [step EXCEPT ![r] = "draining"]
      /\ UNCHANGED <<registered, cap, queue, blocked, at, handing, handed>>
  BY DEF Gives, ReleaseSlot, Goes
<1>3. Granted' = Granted /\ r \notin Granted
  BY <1>2 DEF Granted, Shape, Grants, Awaiting
<1>4. \A h \in Gates : HoldersOf(h)' = {u \in Callers : at[u] = h /\ (step'[u] = "holding" \/ u \in Granted)}
  BY <1>2, <1>3 DEF HoldersOf
<1>5. HoldersOf(g)' = HoldersOf(g) \ {r} /\ r \in HoldersOf(g)
  BY <1>1, <1>2, <1>3, <1>4 DEF HoldersOf
<1>6. \A h \in Gates \ {g} : HoldersOf(h)' = HoldersOf(h)
  BY <1>1, <1>2, <1>3, <1>4 DEF HoldersOf
<1> QED BY <1>1, <1>2, <1>5, <1>6 DEF Referenced

\* The steps that move no slot: what a gate counts and who holds it stay.
Still ==
    /\ \A g \in Gates : HoldersOf(g)' = HoldersOf(g)
    /\ \A g \in Gates : g \in Referenced' =>
          \/ g \in Referenced /\ running'[g] = running[g]
          \/ g \notin Referenced /\ running'[g] = 0

\* Every step takes one slot, gives one back, or moves none.
LEMMA StillSteps ==
  ASSUME Shape, SemaphoreNext
  PROVE  \/ \E g \in Gates, r \in Callers : Takes(g, r) \/ Gives(g, r)
         \/ Still
<1>1. /\ queue \in [Gates -> Seq(Callers)] /\ running \in [Gates -> Nat]
      /\ step \in [Actors -> States] /\ at \in [Actors -> Gates \cup {None}]
      /\ handing \in [Actors -> Callers \cup {None}]
      /\ registered \in Gates \cup {None}
      /\ \A u \in Callers : u \in Actors /\ u # None
      /\ \A g \in Gates : g # None
  BY SemaphoreFits DEF Shape, SemaphoreTypeOK, Actors
<1>2. \A a \in Actors : at[a] = None <=> step[a] = "idle"
  BY DEF Shape, Pointers
\* A goroutine that holds no slot before the step and none after it.
<1>3. ASSUME NEW a \in Actors, NEW v \in States \ {"holding"}, NEW p,
             step[a] # "holding", step' = [step EXCEPT ![a] = v],
             at' = [at EXCEPT ![a] = p], p = at[a] \/ a \notin Granted \/ a \notin Callers,
             UNCHANGED <<handing, handed>>
      PROVE  \A g \in Gates : HoldersOf(g)' = HoldersOf(g)
  <2>1. Granted' = Granted
    BY <1>3 DEF Granted
  <2>2. ASSUME NEW g \in Gates, NEW u \in Callers
        PROVE  (at'[u] = g /\ (step'[u] = "holding" \/ u \in Granted))
               <=> (at[u] = g /\ (step[u] = "holding" \/ u \in Granted))
    BY <1>1, <1>3
  <2> QED BY <2>1, <2>2 DEF HoldersOf
<1>4. \A a \in Actors : a \in Granted /\ a \in Callers => step[a] \in Awaiting
  BY DEF Shape, Grants
<1>5. ASSUME NEW a \in Actors, NEW g \in Gates, NEW limit \in Nat \ {0}, GateFor(g, limit),
             NEW v \in {"entering", "blocking"}, step[a] = "idle",
             step' = [step EXCEPT ![a] = v], at' = [at EXCEPT ![a] = g],
             UNCHANGED <<handing, handed>>
      PROVE  Still
  <2>1. \A h \in Gates : HoldersOf(h)' = HoldersOf(h)
    BY <1>3, <1>4, <1>5 DEF States, Awaiting
  <2>2. /\ registered' = g
        /\ \A h \in Gates \ {g} : running'[h] = running[h]
        /\ \/ registered = g /\ running'[g] = running[g]
           \/ registered = None /\ g \notin Referenced /\ running'[g] = 0
    BY <1>5, GateForFacts
  <2>3. \A h \in Gates : h \in Referenced' => h \in Referenced \/ h = g
    BY <1>1, <1>5, <2>2 DEF Referenced
  <2> QED BY <2>1, <2>2, <2>3 DEF Still, Referenced
\* A step that refers to no more gates and leaves the counts alone.
<1>6. ASSUME \A g \in Gates : HoldersOf(g)' = HoldersOf(g), running' = running,
             \A a \in Actors : at'[a] \in {at[a], None}, registered' \in {registered, None}
      PROVE  Still
  <2>1. \A g \in Gates : g \in Referenced' => g \in Referenced
    BY <1>1, <1>6 DEF Referenced
  <2> QED BY <1>6, <2>1 DEF Still
<1>7. ASSUME NEW a \in Actors, NEW v \in States \ {"holding"}, NEW p \in {at[a], None},
             step[a] # "holding", step' = [step EXCEPT ![a] = v],
             at' = [at EXCEPT ![a] = p], p = at[a] \/ a \notin Granted \/ a \notin Callers,
             running' = running, registered' \in {registered, None},
             UNCHANGED <<handing, handed>>
      PROVE  Still
  BY <1>1, <1>3, <1>6, <1>7
<1>8. ASSUME NEW r \in Callers, Acquire(r)
      PROVE  Still \/ \E g \in Gates : Takes(g, r)
  <2>1. CASE \E g \in Gates : LookUp(r, g)
    BY <1>1, <1>5, <2>1, SemaphoreFits DEF LookUp, Goes
  <2>2. CASE Enter(r)
    <3>1. at[r] \in Gates
      BY <1>1, <1>2, <2>2 DEF Enter
    <3> QED BY <2>2, <3>1 DEF Takes
  <2>3. CASE LineFull(r)
    BY <1>1, <1>4, <1>7, <2>3 DEF LineFull, Ends, Goes, gates, States, Awaiting
  <2>4. CASE WaitInLine(r)
    <3>1. /\ step' = [step EXCEPT ![r] = "waiting"] /\ at' = [at EXCEPT ![r] = at[r]]
          /\ step[r] = "entering" /\ UNCHANGED <<registered, running, handing, handed>>
      BY <1>1, <2>4 DEF WaitInLine, Goes
    <3> QED BY <1>1, <1>7, <3>1 DEF States
  <2>5. CASE TimesOut(r)
    <3>1. /\ step' = [step EXCEPT ![r] = "leaving"] /\ at' = [at EXCEPT ![r] = at[r]]
          /\ step[r] = "waiting" /\ UNCHANGED <<registered, running, handing, handed>>
      BY <1>1, <2>5 DEF TimesOut, Goes, gates
    <3> QED BY <1>1, <1>7, <3>1 DEF States
  <2>6. CASE Withdraw(r)
    <3>1. step[r] = "leaving" /\ UNCHANGED <<registered, running, handing, handed>>
      BY <2>6 DEF Withdraw
    <3>2. CASE r \in ToSet(queue[at[r]])
      <4>1. step' = [step EXCEPT ![r] = "idle"] /\ at' = [at EXCEPT ![r] = None]
        BY <2>6, <3>2 DEF Withdraw, Ends, Goes
      <4>2. r \notin Granted
        BY <1>1, <1>2, <3>1, <3>2 DEF Shape, Lines
      <4> QED BY <1>1, <1>7, <3>1, <4>1, <4>2 DEF States
    <3>3. CASE r \notin ToSet(queue[at[r]])
      <4>1. step' = [step EXCEPT ![r] = "owed"] /\ at' = [at EXCEPT ![r] = at[r]]
        BY <1>1, <2>6, <3>3 DEF Withdraw, Goes
      <4> QED BY <1>1, <1>7, <3>1, <4>1 DEF States
    <3> QED BY <3>2, <3>3
  <2>7. CASE TakeGrant(r)
    <3>1. /\ r \in handed /\ handed' = handed \ {r} /\ step' = [step EXCEPT ![r] = "holding"]
          /\ UNCHANGED <<registered, running, at, handing>>
      BY <2>7 DEF TakeGrant, Goes, gates
    <3>2. r \in Granted /\ \A u \in Callers : u \in Granted' <=> u \in Granted /\ u # r
      BY <1>1, <3>1 DEF Granted, Shape, Grants
    <3>3. \A g \in Gates : HoldersOf(g)' = HoldersOf(g)
      BY <1>1, <3>1, <3>2 DEF HoldersOf
    <3> QED BY <1>6, <3>1, <3>3
  <2> QED BY <1>8, <2>1, <2>2, <2>3, <2>4, <2>5, <2>6, <2>7 DEF Acquire
<1>9. ASSUME NEW a \in Actors, Drain(a)
      PROVE  Still \/ \E g \in Gates, r \in Callers : Takes(g, r)
  <2>1. CASE Dequeue(a)
    <3>1. at[a] \in Gates /\ queue[at[a]] # <<>>
      BY <1>1, <1>2, <2>1 DEF Dequeue
    <3>2. Head(queue[at[a]]) \in Callers
      BY <3>1, LineOps
    <3> QED BY <2>1, <3>1, <3>2 DEF Takes
  <2>2. CASE HandOver(a)
    <3>1. /\ step[a] = "handing" /\ handed' = handed \cup {handing[a]}
          /\ handing' = [handing EXCEPT ![a] = None] /\ step' = [step EXCEPT ![a] = "draining"]
          /\ UNCHANGED <<registered, running, at>>
      BY <2>2 DEF HandOver, Goes, gates
    <3>2. \A u \in Callers : u \in Granted' <=> u \in Granted
      <4>1. handing'[a] = None /\ \A b \in Actors : b # a => handing'[b] = handing[b]
        BY <1>1, <3>1
      <4> QED BY <1>1, <3>1, <4>1 DEF Granted
    <3>3. \A g \in Gates : HoldersOf(g)' = HoldersOf(g)
      BY <1>1, <3>1, <3>2 DEF HoldersOf
    <3> QED BY <1>6, <3>1, <3>3
  <2>3. CASE DrainEnds(a) \/ MayDropGate(a)
    <3>1. PICK v \in {"cleaning", "dropping"} :
             /\ step' = [step EXCEPT ![a] = v] /\ at' = [at EXCEPT ![a] = at[a]]
             /\ step[a] \in {"draining", "cleaning"}
             /\ UNCHANGED <<registered, running, handing, handed>>
      BY <1>1, <2>3 DEF DrainEnds, MayDropGate, Goes, gates
    <3> QED BY <1>7, <3>1 DEF States
  <2>4. CASE KeepGate(a) \/ DropGate(a)
    <3>1. /\ step' = [step EXCEPT ![a] = "idle"] /\ at' = [at EXCEPT ![a] = None]
          /\ step[a] \in {"cleaning", "dropping"} /\ UNCHANGED <<running, handing, handed>>
          /\ registered' \in {registered, None}
      BY <2>4 DEF KeepGate, DropGate, Goes, Ends, gates
    <3> QED BY <1>4, <1>7, <3>1 DEF States, Awaiting
  <2> QED BY <1>9, <2>1, <2>2, <2>3, <2>4 DEF Drain
<1>10. ASSUME NEW b \in Blockers, Block(b)
       PROVE  Still
  <2>1. b \in Actors
    BY DEF Actors
  <2>2. CASE \E g \in Gates : BlockLooksUp(b, g)
    BY <1>5, <2>1, <2>2, SemaphoreFits DEF BlockLooksUp, Goes
  <2>3. CASE StartBlock(b) \/ WakeUp(b)
    <3>1. PICK v \in {"asleep", "draining"} :
             /\ step' = [step EXCEPT ![b] = v] /\ at' = [at EXCEPT ![b] = at[b]]
             /\ step[b] \in {"blocking", "asleep"}
             /\ UNCHANGED <<registered, running, handing, handed>>
      BY <1>1, <2>3 DEF StartBlock, WakeUp, Goes, gates
    <3> QED BY <1>7, <2>1, <3>1 DEF States
  <2> QED BY <1>10, <2>2, <2>3 DEF Block
<1>11. CASE (\E g \in Gates : BlockEnds(g)) \/ Reset
  <2>1. /\ UNCHANGED <<running, step, at, handing, handed>> /\ registered' \in {registered, None}
    BY <1>11 DEF BlockEnds, Reset, gates
  <2>2. \A g \in Gates : HoldersOf(g)' = HoldersOf(g)
    BY <2>1 DEF HoldersOf, Granted
  <2> QED BY <1>6, <2>1, <2>2
<1>12. CASE \E r \in Callers : ReleaseSlot(r)
  <2>1. PICK r \in Callers : ReleaseSlot(r)
    BY <1>12
  <2>2. at[r] \in Gates
    BY <1>1, <1>2, <2>1 DEF ReleaseSlot
  <2> QED BY <2>1, <2>2 DEF Gives
<1> QED BY <1>8, <1>9, <1>10, <1>11, <1>12 DEF SemaphoreNext

------------------------------------------------------------------------------
\* The holders of a gate are finitely many, and one more or one less counts.
LEMMA HolderCounts ==
  ASSUME NEW g
  PROVE  /\ HoldersOf(g) \subseteq Callers /\ IsFiniteSet(HoldersOf(g))
         /\ Cardinality(HoldersOf(g)) \in Nat
         /\ HoldersOf(g) = {} <=> Cardinality(HoldersOf(g)) = 0
         /\ \A r : r \notin HoldersOf(g) =>
               Cardinality(HoldersOf(g) \cup {r}) = Cardinality(HoldersOf(g)) + 1
         /\ \A r \in HoldersOf(g) :
               Cardinality(HoldersOf(g) \ {r}) = Cardinality(HoldersOf(g)) - 1
<1> DEFINE H == HoldersOf(g)
<1>1. H \subseteq Callers
  BY DEF HoldersOf
<1>2. IsFiniteSet(H)
  BY <1>1, SemaphoreFits, FS_Subset
<1> HIDE DEF H
<1>3. Cardinality(H) \in Nat /\ (H = {} <=> Cardinality(H) = 0)
  BY <1>2, FS_CardinalityType, FS_EmptySet
<1>4. \A r : r \notin H => Cardinality(H \cup {r}) = Cardinality(H) + 1
  BY <1>2, FS_AddElement
<1>5. \A r \in H : Cardinality(H \ {r}) = Cardinality(H) - 1
  BY <1>2, FS_RemoveElement
<1> QED BY <1>1, <1>2, <1>3, <1>4, <1>5 DEF H

\* The counter follows the holders.
LEMMA SlotsKept ==
  ASSUME Shape, RunningIsHolders, SemaphoreNext
  PROVE  RunningIsHolders'
<1>1. running \in [Gates -> Nat]
  BY DEF Shape, SemaphoreTypeOK
<1>2. CASE Still
  <2> SUFFICES ASSUME NEW g \in Gates, g \in Referenced'
               PROVE  running'[g] = Cardinality(HoldersOf(g)')
    BY DEF RunningIsHolders
  <2>1. HoldersOf(g)' = HoldersOf(g)
    BY <1>2 DEF Still
  <2>2. CASE g \in Referenced /\ running'[g] = running[g]
    BY <2>1, <2>2 DEF RunningIsHolders
  <2>3. CASE g \notin Referenced /\ running'[g] = 0
    <3>1. HoldersOf(g) = {}
      BY <2>3 DEF HoldersOf, Referenced, Actors
    <3> QED BY <2>1, <2>3, <3>1, FS_EmptySet
  <2> QED BY <1>2, <2>2, <2>3 DEF Still
<1>3. ASSUME NEW g \in Gates, NEW r \in Callers, Takes(g, r) \/ Gives(g, r)
      PROVE  RunningIsHolders'
  <2>1. Referenced' = Referenced /\ g \in Referenced
    BY <1>3, TakeFacts, GiveFacts DEF Referenced
  <2>2. running'[g] = Cardinality(HoldersOf(g)')
    <3>1. running[g] = Cardinality(HoldersOf(g))
      BY <2>1 DEF RunningIsHolders
    <3>2. CASE Takes(g, r)
      BY <1>1, <3>1, <3>2, TakeFacts, HolderCounts
    <3>3. CASE Gives(g, r)
      BY <1>1, <3>1, <3>3, GiveFacts, HolderCounts
    <3> QED BY <1>3, <3>2, <3>3
  <2>3. \A h \in Gates \ {g} : running'[h] = running[h] /\ HoldersOf(h)' = HoldersOf(h)
    BY <1>1, <1>3, TakeFacts, GiveFacts
  <2> QED BY <2>1, <2>2, <2>3 DEF RunningIsHolders
<1> QED BY <1>2, <1>3, StillSteps

\* A limit is changed by a look-up only, to the one of its caller.
LEMMA LimitsKept ==
  ASSUME Shape, Limits, SemaphoreNext
  PROVE  Limits'
<1>1. /\ registered \in Gates \cup {None} /\ at \in [Actors -> Gates \cup {None}]
      /\ cap \in [Gates -> Nat] /\ \A g \in Gates : g # None
      /\ \A a \in Callers \cup Blockers : a \in Actors
  BY SemaphoreFits DEF Shape, SemaphoreTypeOK, Actors
<1>2. ASSUME NEW a \in Actors, NEW g \in Gates, NEW limit \in Nat \ {0}, GateFor(g, limit),
             at' = [at EXCEPT ![a] = g],
             limit = MaxConcurrency \/ (limit = DefaultConcurrency /\ Blockers # {})
      PROVE  Limits'
  <2>1. registered' = g /\ cap'[g] = limit /\ \A h \in Gates \ {g} : cap'[h] = cap[h]
    BY <1>2, GateForFacts
  <2>2. \A h \in Gates : h \in Referenced' => h \in Referenced \/ h = g
    BY <1>1, <1>2, <2>1 DEF Referenced
  <2> QED BY <1>2, <2>1, <2>2 DEF Limits
<1>3. ASSUME cap' = cap, \A a \in Actors : at'[a] \in {at[a], None},
             registered' \in {registered, None}
      PROVE  Limits'
  <2>1. \A g \in Gates : g \in Referenced' => g \in Referenced
    BY <1>1, <1>3 DEF Referenced
  <2> QED BY <1>3, <2>1 DEF Limits
<1>4. ASSUME NEW r \in Callers, Acquire(r) \/ ReleaseSlot(r)
      PROVE  Limits'
  <2>1. CASE \E g \in Gates : LookUp(r, g)
    BY <1>1, <1>2, <2>1, SemaphoreFits DEF LookUp
  <2>2. CASE ~ \E g \in Gates : LookUp(r, g)
    <3>1. /\ cap' = cap /\ registered' = registered
          /\ at' = at \/ at' = [at EXCEPT ![r] = None]
      BY <1>4, <2>2 DEF Acquire, Enter, LineFull, WaitInLine, TakeGrant, TimesOut, Withdraw,
                        ReleaseSlot, Ends, gates
    <3> QED BY <1>1, <1>3, <3>1
  <2> QED BY <2>1, <2>2
<1>5. ASSUME NEW a \in Actors, Drain(a)
      PROVE  Limits'
  <2>1. /\ cap' = cap /\ registered' \in {registered, None}
        /\ at' = at \/ at' = [at EXCEPT ![a] = None]
    BY <1>5 DEF Drain, Dequeue, HandOver, DrainEnds, KeepGate, MayDropGate, DropGate, Ends, gates
  <2> QED BY <1>1, <1>3, <2>1
<1>6. ASSUME NEW b \in Blockers, Block(b)
      PROVE  Limits'
  <2>1. CASE \E g \in Gates : BlockLooksUp(b, g)
    BY <1>1, <1>2, <2>1, SemaphoreFits DEF BlockLooksUp
  <2>2. CASE StartBlock(b) \/ WakeUp(b)
    BY <1>3, <2>2 DEF StartBlock, WakeUp, gates
  <2> QED BY <1>6, <2>1, <2>2 DEF Block
<1>7. CASE (\E g \in Gates : BlockEnds(g)) \/ Reset
  BY <1>3, <1>7 DEF BlockEnds, Reset, gates
<1> QED BY <1>4, <1>5, <1>6, <1>7 DEF SemaphoreNext

\* The goroutine whose block ends last sleeps until the gate opens.
LEMMA BlocksKept ==
  ASSUME Shape, Blocks, SemaphoreNext
  PROVE  Blocks'
<1>1. /\ at \in [Actors -> Gates \cup {None}] /\ step \in [Actors -> States]
      /\ blocked \in [Gates -> BOOLEAN] /\ \A g \in Gates : g # None
      /\ \A a \in Callers \cup Blockers : a \in Actors
  BY SemaphoreFits DEF Shape, SemaphoreTypeOK, Actors
<1>2. \A a \in Actors : at[a] = None <=> step[a] = "idle"
  BY DEF Shape, Pointers
\* A goroutine that is not asleep moves, and blocks no gate.
<1>3. ASSUME NEW a \in Actors, step[a] # "asleep", NEW v, NEW p,
             step' = [step EXCEPT ![a] = v], at' = [at EXCEPT ![a] = p],
             \A g \in Gates : blocked'[g] => blocked[g]
      PROVE  Blocks'
  <2> SUFFICES ASSUME NEW g \in Gates, blocked'[g] PROVE AsleepAt(g)' # {}
    BY DEF Blocks
  <2>1. PICK b \in AsleepAt(g) : TRUE
    BY <1>3 DEF Blocks
  <2>2. b \in AsleepAt(g)'
    BY <1>1, <1>3, <2>1 DEF AsleepAt
  <2> QED BY <2>2
<1>4. ASSUME NEW a \in Actors, NEW g \in Gates, NEW limit \in Nat \ {0}, GateFor(g, limit),
             NEW v, step[a] = "idle",
             step' = [step EXCEPT ![a] = v], at' = [at EXCEPT ![a] = g]
      PROVE  Blocks'
  <2>1. \A h \in Gates : blocked'[h] => blocked[h]
    BY <1>1, <1>4, GateForFacts
  <2> QED BY <1>3, <1>4, <2>1
<1>5. ASSUME NEW r \in Callers, Acquire(r) \/ ReleaseSlot(r)
      PROVE  Blocks'
  <2>1. CASE \E g \in Gates : LookUp(r, g)
    BY <1>1, <1>4, <2>1, SemaphoreFits DEF LookUp, Goes
  <2>2. CASE ~ \E g \in Gates : LookUp(r, g)
    <3>1. /\ blocked' = blocked /\ step[r] # "asleep"
          /\ \E v : step' = [step EXCEPT ![r] = v]
          /\ at' = at \/ at' = [at EXCEPT ![r] = None]
      BY <1>5, <2>2 DEF Acquire, Enter, LineFull, WaitInLine, TakeGrant, TimesOut, Withdraw,
                        ReleaseSlot, Ends, Goes, gates
    <3>2. PICK v : step' = [step EXCEPT ![r] = v]
      BY <3>1
    <3>3. PICK p \in {None, at[r]} : at' = [at EXCEPT ![r] = p]
      BY <1>1, <3>1
    <3> QED BY <1>1, <1>3, <3>1, <3>2, <3>3
  <2> QED BY <2>1, <2>2
<1>6. ASSUME NEW a \in Actors, Drain(a)
      PROVE  Blocks'
  <2>1. /\ blocked' = blocked /\ step[a] # "asleep"
        /\ \E v : step' = [step EXCEPT ![a] = v]
        /\ at' = at \/ at' = [at EXCEPT ![a] = None]
    BY <1>6 DEF Drain, Dequeue, HandOver, DrainEnds, KeepGate, MayDropGate, DropGate, Ends,
                Goes, gates
  <2>2. PICK v : step' = [step EXCEPT ![a] = v]
    BY <2>1
  <2>3. PICK p \in {None, at[a]} : at' = [at EXCEPT ![a] = p]
    BY <1>1, <2>1
  <2> QED BY <1>3, <2>1, <2>2, <2>3
<1>7. ASSUME NEW b \in Blockers, Block(b)
      PROVE  Blocks'
  <2>1. CASE \E g \in Gates : BlockLooksUp(b, g)
    BY <1>1, <1>4, <2>1, SemaphoreFits DEF BlockLooksUp, Goes
  <2>2. CASE StartBlock(b)
    <3>1. /\ step[b] = "blocking" /\ step' = [step EXCEPT ![b] = "asleep"] /\ at' = at
          /\ blocked' = [blocked EXCEPT ![at[b]] = TRUE]
      BY <2>2 DEF StartBlock, Goes
    <3> SUFFICES ASSUME NEW g \in Gates, blocked'[g] PROVE AsleepAt(g)' # {}
      BY DEF Blocks
    <3>2. CASE g = at[b]
      <4>1. b \in AsleepAt(g)'
        BY <1>1, <3>1, <3>2 DEF AsleepAt
      <4> QED BY <4>1
    <3>3. CASE g # at[b]
      <4>1. PICK c \in AsleepAt(g) : TRUE
        BY <1>1, <3>1, <3>3 DEF Blocks
      <4>2. c \in AsleepAt(g)'
        BY <1>1, <3>1, <4>1 DEF AsleepAt
      <4> QED BY <4>2
    <3> QED BY <3>2, <3>3
  <2>3. CASE WakeUp(b)
    <3>1. /\ step[b] = "asleep" /\ step' = [step EXCEPT ![b] = "draining"] /\ at' = at
          /\ blocked' = blocked
          /\ ~blocked[at[b]] \/ AsleepAt(at[b]) # {b}
      BY <2>3 DEF WakeUp, Goes, gates
    <3> SUFFICES ASSUME NEW g \in Gates, blocked'[g] PROVE AsleepAt(g)' # {}
      BY DEF Blocks
    <3>2. PICK c \in AsleepAt(g) : c # b
      <4>1. AsleepAt(g) # {}
        BY <3>1 DEF Blocks
      <4>2. at[b] = g => AsleepAt(g) # {b}
        BY <3>1
      <4>3. at[b] # g => b \notin AsleepAt(g)
        BY DEF AsleepAt
      <4> QED BY <4>1, <4>2, <4>3
    <3>3. c \in AsleepAt(g)'
      BY <1>1, <3>1, <3>2 DEF AsleepAt
    <3> QED BY <3>3
  <2> QED BY <1>7, <2>1, <2>2, <2>3 DEF Block
<1>8. CASE \E g \in Gates : BlockEnds(g)
  <2>1. PICK h \in Gates : BlockEnds(h)
    BY <1>8
  <2>2. step' = step /\ at' = at /\ \A g \in Gates : blocked'[g] => blocked[g]
    BY <1>1, <2>1 DEF BlockEnds
  <2> QED BY <2>2 DEF Blocks, AsleepAt
<1>9. CASE Reset
  BY <1>9 DEF Reset, gates, Blocks, AsleepAt
<1> QED BY <1>5, <1>6, <1>7, <1>8, <1>9 DEF SemaphoreNext

------------------------------------------------------------------------------
\* NoneStranded, for one gate.
Steady == MaxConcurrency <= DefaultConcurrency \/ Blockers = {}
Tended(g) ==
    queue[g] # <<>> =>
        /\ HoldersOf(g) # {} \/ OnItsWay(g)
        /\ SlotFree(g) /\ Steady => OnItsWay(g)

\* A gate without a free slot has a holder, or a sleeper that waits for it to open.
LEMMA FullIsHeld ==
  ASSUME Shape, RunningIsHolders, Limits, Blocks, NEW g \in Gates, g \in Referenced, ~SlotFree(g)
  PROVE  HoldersOf(g) # {} \/ AsleepAt(g) # {}
<1>1. CASE blocked[g]
  BY <1>1 DEF Blocks
<1>2. CASE ~blocked[g]
  <2>1. cap[g] \in Nat \ {0} /\ running[g] \in Nat
    BY SemaphoreFits DEF Limits, Shape, SemaphoreTypeOK
  <2>2. running[g] = Cardinality(HoldersOf(g)) /\ running[g] >= cap[g]
    BY <1>2, <2>1 DEF RunningIsHolders, SlotFree
  <2> QED BY <2>1, <2>2, HolderCounts
<1> QED BY <1>1, <1>2

\* A sleeper is on its way.
LEMMA SleepersCome ==
  ASSUME NEW g \in Gates, AsleepAt(g) # {}
  PROVE  OnItsWay(g)
BY DEF AsleepAt, OnItsWay, Actors

\* The steps of a goroutine that stays on its way, or was not.
LEMMA WayKept ==
  ASSUME Shape, NEW a \in Actors, NEW v, NEW p,
         step' = [step EXCEPT ![a] = v], at' = [at EXCEPT ![a] = p],
         NEW g \in Gates,
         \/ at[a] # g
         \/ step[a] \notin {"draining", "handing", "blocking", "asleep"}
         \/ p = at[a] /\ v \in {"draining", "handing", "blocking", "asleep"}
  PROVE  OnItsWay(g) => OnItsWay(g)'
BY DEF Shape, SemaphoreTypeOK, OnItsWay

\* A goroutine that comes to be on its way.
LEMMA WayStarted ==
  ASSUME Shape, NEW a \in Actors, NEW v \in {"draining", "handing", "blocking", "asleep"},
         NEW g \in Gates,
         step' = [step EXCEPT ![a] = v], at'[a] = g
  PROVE  OnItsWay(g)'
BY DEF Shape, SemaphoreTypeOK, OnItsWay

\* Nothing was done at gate g that leaves its line worse off.
LEMMA TendedKept ==
  ASSUME NEW g \in Gates, Tended(g), queue'[g] # <<>> => queue[g] # <<>>,
         HoldersOf(g) \subseteq HoldersOf(g)', OnItsWay(g) => OnItsWay(g)',
         SlotFree(g)' /\ Steady => SlotFree(g)
  PROVE  Tended(g)'
BY DEF Tended, Steady

\* A caller sets a gate's limit to its own, which is not above the one it had.
LEMMA LookUpTended ==
  ASSUME Shape, RunningIsHolders, Limits, NoneStranded, SemaphoreNext,
         NEW r \in Callers, NEW g \in Gates, LookUp(r, g), NEW h \in Gates
  PROVE  Tended(h)'
<1>1. /\ queue \in [Gates -> Seq(Callers)] /\ running \in [Gates -> Nat] /\ cap \in [Gates -> Nat]
      /\ at \in [Actors -> Gates \cup {None}] /\ r \in Actors /\ Tended(h)
  BY DEF Shape, SemaphoreTypeOK, Actors, NoneStranded, Tended, Steady
<1>2. /\ step[r] = "idle" /\ step' = [step EXCEPT ![r] = "entering"]
      /\ at' = [at EXCEPT ![r] = g] /\ handing' = handing /\ handed' = handed
  BY DEF LookUp, Goes
<1>3. /\ registered' = g /\ queue' = queue /\ cap'[g] = MaxConcurrency
      /\ \A k \in Gates \ {g} : running'[k] = running[k] /\ cap'[k] = cap[k]
                                /\ blocked'[k] = blocked[k]
      /\ \/ registered = g /\ running'[g] = running[g] /\ blocked'[g] = blocked[g]
         \/ registered = None /\ g \notin Referenced /\ running'[g] = 0 /\ ~blocked'[g]
  BY GateForFacts, SemaphoreFits DEF LookUp
<1>4. OnItsWay(h) => OnItsWay(h)'
  BY <1>1, <1>2, WayKept
<1>5. HoldersOf(h) \subseteq HoldersOf(h)'
  <2>1. Granted' = Granted /\ at[r] = None /\ h # None
    BY <1>1, <1>2, SemaphoreFits DEF Granted, Shape, Pointers
  <2> QED BY <1>1, <1>2, <2>1 DEF HoldersOf, Shape, SemaphoreTypeOK, Actors
<1>6. CASE h = g /\ registered # g
  <2>1. queue[h] = <<>>
    <3>1. \A u \in ToSet(queue[h]) : at[u] = h /\ u \in Actors
      BY LineOps DEF Shape, Lines, Actors
    <3>2. ToSet(queue[h]) = {}
      BY <1>3, <1>6, <3>1 DEF Referenced
    <3> QED BY <1>1, <3>2, EmptyToSet
  <2> QED BY <1>3, <2>1 DEF Tended
<1>7. CASE h # g \/ registered = g
  <2>1. SlotFree(h)' /\ Steady => SlotFree(h)
    <3>1. CASE h # g
      BY <1>3, <3>1 DEF SlotFree
    <3>2. CASE h = g
      <4>1. g \in Referenced /\ running'[g] = running[g] /\ blocked'[g] = blocked[g]
        BY <1>3, <1>7, <3>2, SemaphoreFits DEF Referenced
      <4>2. Steady => cap[g] >= MaxConcurrency
        BY <4>1, SemaphoreFits DEF Limits, Steady
      <4> QED BY <1>1, <1>3, <3>2, <4>1, <4>2, SemaphoreFits DEF SlotFree
    <3> QED BY <3>1, <3>2
  <2> QED BY <1>1, <1>3, <1>4, <1>5, <2>1, TendedKept
<1> QED BY <1>6, <1>7

\* No step takes a slot from its holder but the holder's own release.
LEMMA HoldersGrow ==
  ASSUME Shape, SemaphoreNext, NEW g \in Gates, \A r \in Callers : ~ReleaseSlot(r)
  PROVE  HoldersOf(g) \subseteq HoldersOf(g)'
<1>1. CASE Still
  BY <1>1 DEF Still
<1>2. CASE \E h \in Gates, r \in Callers : Takes(h, r)
  <2>1. PICK h \in Gates, r \in Callers : Takes(h, r)
    BY <1>2
  <2> QED BY <2>1, TakeFacts
<1> QED BY <1>1, <1>2, StillSteps DEF Gives

\* Every step leaves each line tended: where it makes a slot free or a line longer,
\* a goroutine is on its way or a holder is left to release.
LEMMA StrandedKept ==
  ASSUME SemInv, SemaphoreNext
  PROVE  NoneStranded'
<1> SUFFICES ASSUME NEW g \in Gates PROVE Tended(g)'
  BY DEF NoneStranded, Tended, Steady
<1>1. /\ Shape /\ RunningIsHolders /\ Limits /\ Blocks /\ NoneStranded /\ Tended(g)
      /\ queue \in [Gates -> Seq(Callers)] /\ running \in [Gates -> Nat] /\ cap \in [Gates -> Nat]
      /\ blocked \in [Gates -> BOOLEAN] /\ step \in [Actors -> States]
      /\ at \in [Actors -> Gates \cup {None}] /\ g # None
      /\ \A a \in Callers \cup Blockers : a \in Actors
  BY SemaphoreFits DEF SemInv, Shape, SemaphoreTypeOK, Actors, NoneStranded, Tended, Steady
<1>2. \A a \in Actors : at[a] = None <=> step[a] = "idle"
  BY <1>1 DEF Shape, Pointers
<1>3. ASSUME NEW r \in Callers, Acquire(r)
      PROVE  Tended(g)'
  <2>1. HoldersOf(g) \subseteq HoldersOf(g)'
    <3>1. \A u \in Callers : ~ReleaseSlot(u)
      <4>1. SUFFICES ASSUME NEW u \in Callers, ReleaseSlot(u) PROVE FALSE
        OBVIOUS
      <4>2. step[u] = "holding" /\ step'[u] = "draining"
        BY <1>1, <4>1 DEF ReleaseSlot, Goes
      <4>3. \E v \in {"entering", "holding", "idle", "waiting", "leaving", "owed"} :
               step' = [step EXCEPT ![r] = v] /\ step[r] # "holding"
        BY <1>3 DEF Acquire, LookUp, Enter, LineFull, WaitInLine, TakeGrant, TimesOut, Withdraw,
                    Goes, Ends
      <4> QED BY <1>1, <4>2, <4>3
    <3> QED BY <1>1, <3>1, HoldersGrow
  <2>2. CASE \E h \in Gates : LookUp(r, h)
    BY <1>1, <2>2, LookUpTended
  <2>3. CASE Enter(r) \/ LineFull(r) \/ TakeGrant(r) \/ TimesOut(r)
    <3>1. /\ queue' = queue /\ cap' = cap /\ blocked' = blocked
          /\ step[r] \in {"entering", "waiting", "owed"}
      BY <2>3 DEF Enter, LineFull, TakeGrant, TimesOut, gates
    <3>2. PICK v, p : step' = [step EXCEPT ![r] = v] /\ at' = [at EXCEPT ![r] = p]
      <4>1. at' = [at EXCEPT ![r] = at[r]] \/ at' = [at EXCEPT ![r] = None]
        BY <1>1, <2>3 DEF Enter, LineFull, TakeGrant, TimesOut, Ends
      <4>2. \E v : step' = [step EXCEPT ![r] = v]
        BY <2>3 DEF Enter, LineFull, TakeGrant, TimesOut, Ends, Goes
      <4> QED BY <4>1, <4>2
    <3>3. SlotFree(g)' => SlotFree(g)
      <4>1. running' = running \/ running' = [running EXCEPT ![at[r]] = @ + 1]
        BY <2>3 DEF Enter, LineFull, TakeGrant, TimesOut, gates
      <4>2. running'[g] = running[g] \/ running'[g] = running[g] + 1
        BY <1>1, <4>1
      <4>3. running[g] \in Nat /\ cap[g] \in Nat
        BY <1>1
      <4> QED BY <3>1, <4>2, <4>3 DEF SlotFree
    <3>4. OnItsWay(g) => OnItsWay(g)'
      BY <1>1, <3>1, <3>2, WayKept
    <3> QED BY <1>1, <2>1, <3>1, <3>3, <3>4, TendedKept
  <2>4. CASE WaitInLine(r) \/ Withdraw(r)
    <3>1. /\ running' = running /\ cap' = cap /\ blocked' = blocked
          /\ step[r] \in {"entering", "leaving"}
      BY <2>4 DEF WaitInLine, Withdraw
    <3>2. PICK v, p : step' = [step EXCEPT ![r] = v] /\ at' = [at EXCEPT ![r] = p]
      <4>1. at' = [at EXCEPT ![r] = at[r]] \/ at' = [at EXCEPT ![r] = None]
        BY <1>1, <2>4 DEF WaitInLine, Withdraw, Ends
      <4>2. \E v : step' = [step EXCEPT ![r] = v]
        BY <2>4 DEF WaitInLine, Withdraw, Ends, Goes
      <4> QED BY <4>1, <4>2
    <3>3. OnItsWay(g) => OnItsWay(g)'
      BY <1>1, <3>1, <3>2, WayKept
    <3>4. SlotFree(g)' = SlotFree(g)
      BY <3>1 DEF SlotFree
    <3>5. at[r] \in Gates
      BY <1>1, <1>2, <3>1
    <3>6. CASE WaitInLine(r) /\ g = at[r]
      <4>1. ~SlotFree(g) /\ g \in Referenced
        BY <1>1, <3>6 DEF WaitInLine, Referenced
      <4>2. HoldersOf(g) # {} \/ OnItsWay(g)
        BY <1>1, <4>1, FullIsHeld, SleepersCome
      <4> QED BY <2>1, <3>3, <3>4, <4>1, <4>2 DEF Tended
    <3>7. CASE ~(WaitInLine(r) /\ g = at[r])
      <4>1. queue'[g] # <<>> => queue[g] # <<>>
        <5>1. CASE WaitInLine(r)
          BY <1>1, <3>5, <3>7, <5>1 DEF WaitInLine
        <5>2. CASE Withdraw(r) /\ g = at[r] /\ r \in ToSet(queue[at[r]])
          BY <5>2, EmptyToSet, <1>1
        <5>3. CASE Withdraw(r) /\ ~(g = at[r] /\ r \in ToSet(queue[at[r]]))
          BY <1>1, <3>5, <5>3 DEF Withdraw
        <5> QED BY <2>4, <5>1, <5>2, <5>3
      <4> QED BY <1>1, <2>1, <3>3, <3>4, <4>1, TendedKept
    <3> QED BY <3>6, <3>7
  <2> QED BY <1>3, <2>2, <2>3, <2>4 DEF Acquire
<1>4. ASSUME NEW r \in Callers, ReleaseSlot(r)
      PROVE  Tended(g)'
  <2>1. /\ step[r] = "holding" /\ step' = [step EXCEPT ![r] = "draining"] /\ at' = at
        /\ UNCHANGED <<cap, queue, blocked>> /\ running' = [running EXCEPT ![at[r]] = @ - 1]
    BY <1>4 DEF ReleaseSlot, Goes
  <2>2. CASE at[r] = g
    <3>1. OnItsWay(g)'
      BY <1>1, <2>1, <2>2, WayStarted
    <3> QED BY <3>1 DEF Tended
  <2>3. CASE at[r] # g
    <3>1. OnItsWay(g) => OnItsWay(g)'
      <4>1. at' = [at EXCEPT ![r] = at[r]]
        BY <1>1, <2>1
      <4> QED BY <1>1, <2>1, <4>1, WayKept
    <3>2. running'[g] = running[g]
      BY <1>1, <2>1, <2>3
    <3>3. HoldersOf(g)' = HoldersOf(g)
      <4>1. at[r] \in Gates
        BY <1>1, <1>2, <2>1
      <4> QED BY <1>1, <1>4, <2>3, <4>1, GiveFacts DEF Gives
    <3> QED BY <1>1, <2>1, <3>1, <3>2, <3>3, TendedKept DEF SlotFree
  <2> QED BY <2>2, <2>3
<1>5. ASSUME NEW a \in Actors, Drain(a)
      PROVE  Tended(g)'
  <2>1. CASE Dequeue(a) \/ HandOver(a)
    <3>1. PICK v \in {"handing", "draining"} :
             /\ step[a] \in {"draining", "handing"} /\ step' = [step EXCEPT ![a] = v] /\ at' = at
             /\ cap' = cap /\ blocked' = blocked
             /\ \A h \in Gates \ {at[a]} : queue'[h] = queue[h] /\ running'[h] = running[h]
      BY <1>1, <2>1 DEF Dequeue, HandOver, Goes, gates
    <3>2. CASE at[a] = g
      <4>1. OnItsWay(g)'
        BY <1>1, <3>1, <3>2, WayStarted
      <4> QED BY <4>1 DEF Tended
    <3>3. CASE at[a] # g
      <4>1. OnItsWay(g) => OnItsWay(g)'
        <5>1. at' = [at EXCEPT ![a] = at[a]]
          BY <1>1, <3>1
        <5> QED BY <1>1, <3>1, <3>3, <5>1, WayKept
      <4>2. HoldersOf(g) \subseteq HoldersOf(g)'
        <5>1. \A u \in Callers : ~ReleaseSlot(u)
          BY <1>1, <3>1 DEF ReleaseSlot, Goes
        <5> QED BY <1>1, <5>1, HoldersGrow
      <4>3. queue'[g] = queue[g] /\ running'[g] = running[g]
        BY <3>1, <3>3
      <4> QED BY <1>1, <3>1, <4>1, <4>2, <4>3, TendedKept DEF SlotFree
    <3> QED BY <3>2, <3>3
  <2>2. CASE DrainEnds(a) \/ KeepGate(a) \/ MayDropGate(a) \/ DropGate(a)
    <3>1. PICK v \in {"cleaning", "dropping", "idle"}, p \in {at[a], None} :
             /\ step[a] \in {"draining", "cleaning", "dropping"}
             /\ step' = [step EXCEPT ![a] = v] /\ at' = [at EXCEPT ![a] = p]
             /\ UNCHANGED gates
      <4>1. at' = [at EXCEPT ![a] = at[a]] \/ at' = [at EXCEPT ![a] = None]
        BY <1>1, <2>2 DEF DrainEnds, KeepGate, MayDropGate, DropGate, Ends
      <4> QED BY <2>2, <4>1 DEF DrainEnds, KeepGate, MayDropGate, DropGate, Ends, Goes
    <3>2. HoldersOf(g) \subseteq HoldersOf(g)'
      <4>1. \A u \in Callers : ~ReleaseSlot(u)
        BY <1>1, <3>1 DEF ReleaseSlot, Goes
      <4> QED BY <1>1, <4>1, HoldersGrow
    <3>3. CASE step[a] = "draining" /\ at[a] = g
      <4>1. (queue[g] = <<>> \/ ~SlotFree(g)) /\ g \in Referenced
        BY <2>2, <3>3 DEF DrainEnds, KeepGate, MayDropGate, DropGate, Referenced
      <4>2. CASE queue[g] = <<>>
        BY <3>1, <4>2 DEF Tended, gates
      <4>3. CASE ~SlotFree(g)
        <5>1. HoldersOf(g) # {} \/ AsleepAt(g) # {}
          BY <1>1, <4>1, <4>3, FullIsHeld
        <5>2. AsleepAt(g) # {} => AsleepAt(g)' # {}
          <6>1. \A b \in AsleepAt(g) : b \in AsleepAt(g)'
            BY <1>1, <3>1, <3>3 DEF AsleepAt
          <6> QED BY <6>1
        <5>3. AsleepAt(g)' # {} => OnItsWay(g)'
          BY DEF AsleepAt, OnItsWay, Actors
        <5>4. ~SlotFree(g)'
          BY <3>1, <4>3 DEF SlotFree, gates
        <5> QED BY <3>2, <5>1, <5>2, <5>3, <5>4 DEF Tended
      <4> QED BY <4>1, <4>2, <4>3
    <3>4. CASE ~(step[a] = "draining" /\ at[a] = g)
      <4>1. OnItsWay(g) => OnItsWay(g)'
        BY <1>1, <3>1, <3>4, WayKept
      <4> QED BY <1>1, <3>1, <3>2, <4>1, TendedKept DEF SlotFree, gates
    <3> QED BY <3>3, <3>4
  <2> QED BY <1>5, <2>1, <2>2 DEF Drain
<1>6. ASSUME NEW b \in Blockers, Block(b)
      PROVE  Tended(g)'
  <2>1. HoldersOf(g) \subseteq HoldersOf(g)'
    <3>1. PICK v \in {"blocking", "asleep", "draining"} :
             step' = [step EXCEPT ![b] = v] /\ step[b] # "holding"
      BY <1>6 DEF Block, BlockLooksUp, StartBlock, WakeUp, Goes
    <3>2. \A u \in Callers : ~ReleaseSlot(u)
      BY <1>1, <3>1 DEF ReleaseSlot, Goes
    <3> QED BY <1>1, <3>2, HoldersGrow
  <2>2. CASE \E h \in Gates : BlockLooksUp(b, h)
    <3>1. PICK h \in Gates : BlockLooksUp(b, h)
      BY <2>2
    <3>2. /\ step[b] = "idle" /\ step' = [step EXCEPT ![b] = "blocking"]
          /\ at' = [at EXCEPT ![b] = h] /\ b \in Actors
      BY <1>1, <3>1 DEF BlockLooksUp, Goes
    <3>3. CASE h = g
      <4>1. OnItsWay(g)'
        BY <1>1, <3>2, <3>3, WayStarted
      <4> QED BY <4>1 DEF Tended
    <3>4. CASE h # g
      <4>1. OnItsWay(g) => OnItsWay(g)'
        BY <1>1, <3>2, WayKept
      <4>2. queue' = queue /\ running'[g] = running[g] /\ cap'[g] = cap[g]
            /\ blocked'[g] = blocked[g]
        BY <1>1, <3>1, <3>4, GateForFacts, SemaphoreFits DEF BlockLooksUp
      <4> QED BY <1>1, <2>1, <4>1, <4>2, TendedKept DEF SlotFree
    <3> QED BY <3>3, <3>4
  <2>3. CASE StartBlock(b) \/ WakeUp(b)
    <3>1. PICK v \in {"asleep", "draining"} :
             /\ step' = [step EXCEPT ![b] = v] /\ at' = at
             /\ UNCHANGED <<running, cap, queue>> /\ b \in Actors
      BY <1>1, <2>3 DEF StartBlock, WakeUp, Goes, gates
    <3>2. at' = [at EXCEPT ![b] = at[b]]
      BY <1>1, <3>1
    <3>3. OnItsWay(g) => OnItsWay(g)'
      BY <1>1, <3>1, <3>2, WayKept
    <3>4. SlotFree(g)' => SlotFree(g)
      <4>1. blocked'[g] \/ blocked'[g] = blocked[g]
        BY <1>1, <2>3 DEF StartBlock, WakeUp, gates
      <4> QED BY <3>1, <4>1 DEF SlotFree
    <3> QED BY <1>1, <2>1, <3>1, <3>3, <3>4, TendedKept
  <2> QED BY <1>6, <2>2, <2>3 DEF Block
<1>7. CASE (\E h \in Gates : BlockEnds(h)) \/ Reset
  <2>1. UNCHANGED <<running, cap, queue, step, at, handing, handed>>
    BY <1>7 DEF BlockEnds, Reset, gates
  <2>2. OnItsWay(g)' = OnItsWay(g) /\ HoldersOf(g)' = HoldersOf(g)
    BY <2>1 DEF OnItsWay, HoldersOf, Granted
  <2>3. CASE BlockEnds(g)
    <3>1. OnItsWay(g)
      BY <1>1, <2>3, SleepersCome DEF BlockEnds, Blocks
    <3> QED BY <2>2, <3>1 DEF Tended
  <2>4. CASE ~BlockEnds(g)
    <3>1. blocked'[g] = blocked[g]
      BY <1>1, <1>7, <2>4 DEF BlockEnds, Reset, gates
    <3> QED BY <1>1, <2>1, <2>2, <3>1, TendedKept DEF SlotFree
  <2> QED BY <2>3, <2>4
<1> QED BY <1>3, <1>4, <1>5, <1>6, <1>7 DEF SemaphoreNext

------------------------------------------------------------------------------
\* The registry starts empty.
LEMMA SemInit == SemaphoreInit => SemInv
<1> SUFFICES ASSUME SemaphoreInit PROVE SemInv
  OBVIOUS
<1>1. /\ registered = None /\ running = [g \in Gates |-> 0] /\ cap = [g \in Gates |-> 0]
      /\ queue = [g \in Gates |-> <<>>] /\ blocked = [g \in Gates |-> FALSE]
      /\ step = [a \in Actors |-> "idle"] /\ at = [a \in Actors |-> None]
      /\ handing = [a \in Actors |-> None] /\ handed = {}
  BY DEF SemaphoreInit
<1>2. SemaphoreTypeOK
  <2>1. <<>> \in Seq(Callers)
    OBVIOUS
  <2> QED BY <1>1, <2>1 DEF SemaphoreTypeOK, States
<1>3. \A g \in Gates : g \notin Referenced
  BY <1>1, SemaphoreFits DEF Referenced
<1>4. \A r \in Callers : r \notin Granted
  BY <1>1, SemaphoreFits DEF Granted
<1>5. Pointers /\ Grants
  BY <1>1, <1>4 DEF Pointers, Grants
<1>6. Lines
  <2>1. \A g \in Gates : queue[g] = <<>>
    BY <1>1
  <2>2. ToSet(<<>>) = {} /\ Distinct(<<>>)
    BY DEF ToSet, Distinct
  <2> QED BY <2>1, <2>2 DEF Lines
<1>7. RunningIsHolders /\ Limits
  BY <1>3 DEF RunningIsHolders, Limits
<1>8. Blocks /\ NoneStranded
  BY <1>1 DEF Blocks, NoneStranded
<1> QED BY <1>2, <1>5, <1>6, <1>7, <1>8 DEF SemInv, Shape

\* Each step keeps the inductive invariant.
LEMMA SemNext == SemInv /\ [SemaphoreNext]_semaphoreVars => SemInv'
<1> SUFFICES ASSUME SemInv, [SemaphoreNext]_semaphoreVars PROVE SemInv'
  OBVIOUS
<1>1. CASE SemaphoreNext
  BY <1>1, ShapeKept, SlotsKept, LimitsKept, BlocksKept, StrandedKept DEF SemInv
<1>2. CASE UNCHANGED semaphoreVars
  <2>1. /\ UNCHANGED <<registered, running, cap, queue, blocked, step, at, handing, handed>>
    BY <1>2 DEF semaphoreVars, gates
  <2>2. Granted' = Granted /\ Referenced' = Referenced
    BY <2>1 DEF Granted, Referenced
  <2>3. \A g : HoldersOf(g)' = HoldersOf(g) /\ AsleepAt(g)' = AsleepAt(g)
               /\ OnItsWay(g)' = OnItsWay(g) /\ SlotFree(g)' = SlotFree(g)
    BY <2>1, <2>2 DEF HoldersOf, AsleepAt, OnItsWay, SlotFree
  <2>4. SemaphoreTypeOK' /\ Pointers' /\ Grants' /\ Lines'
    BY <2>1, <2>2 DEF SemInv, Shape, SemaphoreTypeOK, Pointers, Grants, Lines
  <2> QED BY <2>1, <2>2, <2>3, <2>4 DEF SemInv, Shape, RunningIsHolders, Limits, Blocks,
                                      NoneStranded
<1> QED BY <1>1, <1>2

\* The inductive invariant holds in every reachable state.
LEMMA SemInvariance == SemaphoreSpec => []SemInv
<1> QED BY SemInit, SemNext, PTL DEF SemaphoreSpec

\* Gates, lines, pointers and grants keep their shape for any number of
\* requests and blocks.
THEOREM SemaphoreTyped == SemaphoreSpec => []SemaphoreTypeOK
<1>1. SemInv => SemaphoreTypeOK
  BY DEF SemInv, Shape
<1> QED BY <1>1, SemInvariance, PTL

\* The counter of a gate in use is the number of the requests that hold one of
\* its slots, grants under way included: no slot leaks, whatever timers,
\* contexts, resets and dropped gates do.
THEOREM NoSlotLeaks == SemaphoreSpec => []RunningIsHolders
<1>1. SemInv => RunningIsHolders
  BY DEF SemInv
<1> QED BY <1>1, SemInvariance, PTL

\* A line is always looked at again, and at once where a slot is free.
THEOREM NoWaiterStranded == SemaphoreSpec => []NoneStranded
<1>1. SemInv => NoneStranded
  BY DEF SemInv
<1> QED BY <1>1, SemInvariance, PTL

\* SlotPool counts as this module does.
LEMMA OneCardinality == \A S : GatePool!Cardinality(S) = Cardinality(S)
BY DEF GatePool!Cardinality, Cardinality

\* The semaphore implements the abstract pool of slots: the holders of each gate
\* change one at a time, by a request that takes a slot below the gate's limit or
\* gives back the one it holds.
THEOREM GatesAreSlotPools == SemaphoreSpec => GateIsSlotPool
<1> DEFINE held == [g \in Gates |-> HoldersOf(g)]
<1>1. SemaphoreInit => GatePool!Init
  <2> SUFFICES ASSUME SemaphoreInit PROVE GatePool!Init
    OBVIOUS
  <2>1. \A g \in Gates : HoldersOf(g) = {}
    BY SemaphoreFits DEF SemaphoreInit, HoldersOf, Actors
  <2> QED BY <2>1 DEF GatePool!Init
<1>2. ASSUME SemInv, SemaphoreNext PROVE GatePool!Next \/ held' = held
  <2>1. Shape /\ RunningIsHolders /\ Limits
    BY <1>2 DEF SemInv
  <2>2. ASSUME NEW g \in Gates, NEW r \in Callers, Takes(g, r)
        PROVE  GatePool!Next
    <3>1. /\ r \notin HoldersOf(g) /\ SlotFree(g) /\ g \in Referenced
          /\ HoldersOf(g)' = HoldersOf(g) \cup {r}
          /\ \A h \in Gates \ {g} : HoldersOf(h)' = HoldersOf(h)
      BY <2>1, <2>2, TakeFacts
    <3>2. Cardinality(held[g]) < Ceiling[g]
      <4>1. running[g] = Cardinality(HoldersOf(g)) /\ running[g] < cap[g]
        BY <2>1, <3>1 DEF RunningIsHolders, SlotFree
      <4>2. running[g] \in Nat
        BY <2>1 DEF Shape, SemaphoreTypeOK
      <4>3. cap[g] = MaxConcurrency \/ (cap[g] = DefaultConcurrency /\ Blockers # {})
        BY <2>1, <3>1 DEF Limits
      <4>4. Ceiling[g] = IF MaxConcurrency < DefaultConcurrency /\ Blockers # {}
                         THEN DefaultConcurrency ELSE MaxConcurrency
        BY DEF Ceiling
      <4>5. held[g] = HoldersOf(g)
        OBVIOUS
      <4> HIDE DEF held
      <4>6. cap[g] <= Ceiling[g]
        BY <4>3, <4>4, SemaphoreFits
      <4>7. cap[g] \in Nat /\ Ceiling[g] \in Nat
        BY <4>3, <4>4, SemaphoreFits
      <4>8. Cardinality(HoldersOf(g)) < Ceiling[g]
        BY <4>1, <4>2, <4>6, <4>7
      <4> QED BY <4>5, <4>8
    <3>3. held' = [held EXCEPT ![g] = @ \cup {r}]
      BY <3>1
    <3>4. held' # held
      BY <3>1, <3>3
    <3>5. r \notin held[g]
      BY <3>1
    <3>6. GatePool!Take(g, r)
      BY <3>2, <3>3, <3>5, OneCardinality DEF GatePool!Take
    <3> QED BY <3>4, <3>6 DEF GatePool!Next
  <2>3. ASSUME NEW g \in Gates, NEW r \in Callers, Gives(g, r)
        PROVE  GatePool!Next
    <3>1. /\ r \in HoldersOf(g) /\ HoldersOf(g)' = HoldersOf(g) \ {r}
          /\ \A h \in Gates \ {g} : HoldersOf(h)' = HoldersOf(h)
      BY <2>1, <2>3, GiveFacts
    <3>2. held' = [held EXCEPT ![g] = @ \ {r}]
      BY <3>1
    <3>3. held' # held
      BY <3>1, <3>2
    <3>4. r \in held[g]
      BY <3>1
    <3>5. GatePool!GiveBack(g, r)
      BY <3>2, <3>4 DEF GatePool!GiveBack
    <3> QED BY <3>3, <3>5 DEF GatePool!Next
  <2>4. CASE Still
    BY <2>4 DEF Still
  <2> QED BY <1>2, <2>1, <2>2, <2>3, <2>4, StillSteps
<1>3. ASSUME UNCHANGED semaphoreVars PROVE held' = held
  <2>1. \A g : HoldersOf(g)' = HoldersOf(g)
    BY <1>3 DEF semaphoreVars, HoldersOf, Granted
  <2> QED BY <2>1
<1>4. SemInv /\ [SemaphoreNext]_semaphoreVars => [GatePool!Next]_held
  BY <1>2, <1>3
<1> QED BY <1>1, <1>4, SemInvariance, PTL DEF SemaphoreSpec, GateIsSlotPool, GatePool!Spec
==============================================================================
