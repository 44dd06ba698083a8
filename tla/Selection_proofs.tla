--------------------------- MODULE Selection_proofs ---------------------------
(***************************************************************************)
(* What Keep returns, and what the other operators on lists of candidates  *)
(* do to the set of their members.                                         *)
(***************************************************************************)
EXTENDS Selection, SequencesExt, WellFoundedInduction, TLAPS

\* Induction over the numbers, for a set of them: the library's induction theorem
\* is about an operator, this one about the set that operator would describe.
LEMMA SetInduction ==
  ASSUME NEW T \in SUBSET Nat, 0 \in T, \A n \in T : n + 1 \in T
  PROVE T = Nat
<1>1. SUFFICES ASSUME Nat \ T # {} PROVE FALSE
  OBVIOUS
<1> DEFINE R == OpToRel(<, Nat)
<1>2. \E x \in Nat \ T : \A y \in Nat \ T : ~ (<<y, x>> \in R)
  <2>1. IsWellFoundedOn(R, Nat)
    BY NatLessThanWellFounded
  <2> HIDE DEF R
  <2> QED
    BY <1>1, <2>1, WFMin
<1>3. PICK x \in Nat \ T : \A y \in Nat \ T : ~ (<<y, x>> \in R)
  BY <1>2
<1>4. \A y \in Nat \ T : ~(y < x)
  BY <1>3 DEF OpToRel
<1> QED 
  BY <1>4

\* kept is the recursive function of Keep, as far as the first n members of s.
Builds(kept, s, A, n) ==
    kept = [i \in 0 .. n |->
               IF i = 0 THEN <<>>
               ELSE IF s[i] \in A THEN Append(kept[i - 1], s[i]) ELSE kept[i - 1]]

\* The recursive function inside Keep exists, so Keep is its last value.
LEMMA KeepBuilt ==
  ASSUME NEW s, NEW A, Len(s) \in Nat
  PROVE \E kept : Builds(kept, s, A, Len(s)) /\ Keep(s, A) = kept[Len(s)]
<1> DEFINE T == {n \in Nat : \E kept : Builds(kept, s, A, n)}
<1>1. 0 \in T
  <2> DEFINE g == [i \in 0 .. 0 |-> <<>>]
  <2>1. Builds(g, s, A, 0)
    BY DEF Builds
  <2> QED BY <2>1
<1>2. ASSUME NEW n \in T PROVE n + 1 \in T
  <2>1. PICK g : Builds(g, s, A, n)
    BY <1>2
  <2> DEFINE h == [i \in 0 .. n + 1 |->
               IF i <= n THEN g[i]
               ELSE IF s[i] \in A THEN Append(g[n], s[i]) ELSE g[n]]
  <2>2. ASSUME NEW i \in 0 .. n + 1
        PROVE  h[i] = IF i = 0 THEN <<>>
                      ELSE IF s[i] \in A THEN Append(h[i - 1], s[i]) ELSE h[i - 1]
    <3>1. CASE i <= n
      <4>1. h[i] = g[i] /\ (i # 0 => h[i - 1] = g[i - 1])
        BY <1>2, <3>1
      <4>2. g[i] = IF i = 0 THEN <<>>
                   ELSE IF s[i] \in A THEN Append(g[i - 1], s[i]) ELSE g[i - 1]
        <5>1. i \in 0 .. n
          BY <1>2, <3>1
        <5> HIDE DEF T, h
        <5> QED BY <2>1, <5>1 DEF Builds
      <4> HIDE DEF h
      <4> QED BY <4>1, <4>2
    <3>2. CASE i = n + 1
      BY <1>2, <3>2
    <3> QED BY <1>2, <3>1, <3>2
  <2>3. Builds(h, s, A, n + 1)
    <3> DEFINE b(i) == IF i = 0 THEN <<>>
                      ELSE IF s[i] \in A THEN Append(h[i - 1], s[i]) ELSE h[i - 1]
    <3>1. h = [i \in 0 .. n + 1 |-> h[i]]
      OBVIOUS
    <3>2. \A i \in 0 .. n + 1 : h[i] = b(i)
      BY <2>2
    <3> HIDE DEF h
    <3> QED BY <3>1, <3>2 DEF Builds
  <2> QED BY <2>3
<1>3. T = Nat
  <2> HIDE DEF T
  <2> QED BY <1>1, <1>2, SetInduction, T \subseteq Nat DEF T
<1>4. \E kept : Builds(kept, s, A, Len(s))
  BY <1>3
<1> DEFINE k == CHOOSE kept : Builds(kept, s, A, Len(s))
<1>5. Keep(s, A) = k[Len(s)]
  BY DEF Keep, Builds
<1>6. Builds(k, s, A, Len(s))
  BY <1>4
<1> QED BY <1>5, <1>6

\* Appending adds one member.
LEMMA AppendToSet ==
  ASSUME NEW S, NEW s \in Seq(S), NEW e \in S
  PROVE  ToSet(Append(s, e)) = ToSet(s) \cup {e}
<1> DEFINE t == Append(s, e)
<1>1. /\ DOMAIN t = 1 .. Len(s) + 1 /\ DOMAIN s = 1 .. Len(s) /\ Len(s) \in Nat
      /\ t[Len(s) + 1] = e
      /\ \A i \in 1 .. Len(s) : t[i] = s[i]
  OBVIOUS
<1> HIDE DEF t
<1>2. ToSet(t) = ToSet(s) \cup {e}
  BY <1>1 DEF ToSet
<1> QED BY <1>2 DEF t

\* Keep returns a sequence no longer than s, with the members of s that are in A.
THEOREM KeepProperties ==
  ASSUME NEW S, NEW s \in Seq(S), NEW A
  PROVE  /\ Keep(s, A) \in Seq(S)
         /\ Len(Keep(s, A)) <= Len(s)
         /\ ToSet(Keep(s, A)) = ToSet(s) \cap A
<1>1. PICK kept : Builds(kept, s, A, Len(s)) /\ Keep(s, A) = kept[Len(s)]
  BY KeepBuilt
<1> DEFINE P(n) == /\ kept[n] \in Seq(S)
                   /\ Len(kept[n]) <= n
                   /\ ToSet(kept[n]) = {s[i] : i \in 1 .. n} \cap A
           T == {n \in Nat : n <= Len(s) => P(n)}
<1>2. 0 \in T
  BY <1>1 DEF Builds, ToSet
<1>3. ASSUME NEW n \in T PROVE n + 1 \in T
  <2> SUFFICES ASSUME n + 1 <= Len(s) PROVE P(n + 1)
    OBVIOUS
  <2>1. P(n)
    BY <1>3
  <2>2. kept[n + 1] = IF s[n + 1] \in A THEN Append(kept[n], s[n + 1]) ELSE kept[n]
    <3> DEFINE m == n + 1
    <3>1. m \in 0 .. Len(s) /\ m # 0 /\ m - 1 = n
      BY <1>3
    <3> HIDE DEF m
    <3>2. kept[m] = IF s[m] \in A THEN Append(kept[m - 1], s[m]) ELSE kept[m - 1]
      BY <1>1, <3>1 DEF Builds
    <3> QED BY <3>1, <3>2 DEF m
  <2>3. {s[i] : i \in 1 .. n + 1} = {s[i] : i \in 1 .. n} \cup {s[n + 1]}
    BY <1>3
  <2>4. CASE s[n + 1] \in A
    <3>1. kept[n + 1] = Append(kept[n], s[n + 1])  BY <2>2, <2>4
    <3>2. s[n + 1] \in S
      BY <1>3
    <3>3. /\ Append(kept[n], s[n + 1]) \in Seq(S)
          /\ Len(Append(kept[n], s[n + 1])) = Len(kept[n]) + 1
      BY <2>1, <3>2
    <3>4. ToSet(Append(kept[n], s[n + 1])) = ToSet(kept[n]) \cup {s[n + 1]}
      BY <2>1, <3>2, AppendToSet
    <3> QED BY <1>3, <2>1, <2>3, <2>4, <3>1, <3>3, <3>4
  <2>5. CASE s[n + 1] \notin A
    BY <2>1, <2>2, <2>3, <2>5
  <2> QED BY <2>4, <2>5
<1>4. T = Nat
  <2> HIDE DEF T
  <2> QED BY <1>2, <1>3, SetInduction, T \subseteq Nat DEF T
<1>5. P(Len(s))
  <2>1. Len(s) \in T
    <3> HIDE DEF T
    <3> QED BY <1>4
  <2> QED BY <2>1
<1>6. ToSet(s) = {s[i] : i \in 1 .. Len(s)}
  BY DEF ToSet
<1> QED BY <1>1, <1>5, <1>6

\* A first member that is kept stays first.
LEMMA KeepHead ==
  ASSUME NEW S, NEW s \in Seq(S), s # <<>>, NEW A, Head(s) \in A
  PROVE  Keep(s, A) # <<>> /\ Head(Keep(s, A)) = Head(s)
<1>1. PICK kept : Builds(kept, s, A, Len(s)) /\ Keep(s, A) = kept[Len(s)]
  BY KeepBuilt
<1>2. Len(s) \in Nat \ {0} /\ s[1] = Head(s) /\ s[1] \in S
  OBVIOUS
<1> DEFINE P(n) == kept[n] \in Seq(S) /\ Len(kept[n]) >= 1 /\ kept[n][1] = s[1]
           T == {n \in Nat : n + 1 <= Len(s) => P(n + 1)}
<1>3. 0 \in T
  <2>1. kept[0] = <<>>
    BY <1>1, <1>2 DEF Builds
  <2>2. kept[1] = IF s[1] \in A THEN Append(kept[0], s[1]) ELSE kept[0]
    <3>1. 1 \in 0 .. Len(s) /\ 1 - 1 = 0
      BY <1>2
    <3> QED BY <1>1, <3>1 DEF Builds
  <2>3. kept[1] = <<s[1]>>
    BY <1>2, <2>1, <2>2
  <2>4. P(1)
    BY <1>2, <2>3
  <2> QED BY <2>4
<1>4. ASSUME NEW n \in T PROVE n + 1 \in T
  <2> SUFFICES ASSUME n + 1 + 1 <= Len(s) PROVE P(n + 1 + 1)
    OBVIOUS
  <2> DEFINE m == n + 1
  <2>1. P(m)
    BY <1>2, <1>4
  <2>2. m \in Nat /\ m + 1 \in 0 .. Len(s) /\ m + 1 # 0 /\ (m + 1) - 1 = m
    BY <1>2, <1>4
  <2>3. s[m + 1] \in S
    BY <2>2
  <2> HIDE DEF m
  <2>4. kept[m + 1] = IF s[m + 1] \in A THEN Append(kept[m], s[m + 1]) ELSE kept[m]
    BY <1>1, <2>2 DEF Builds
  <2>5. P(m + 1)
    BY <2>1, <2>3, <2>4
  <2> QED BY <2>5 DEF m
<1>5. T = Nat
  <2> HIDE DEF T
  <2> QED BY <1>3, <1>4, SetInduction, T \subseteq Nat DEF T
<1>6. P(Len(s))
  <2>1. Len(s) - 1 \in T /\ (Len(s) - 1) + 1 = Len(s)
    <3> HIDE DEF T
    <3> QED BY <1>2, <1>5
  <2> QED BY <1>2, <2>1
<1> QED BY <1>1, <1>2, <1>6

\* A sequence is its head and its tail.
LEMMA HeadTailSet ==
  ASSUME NEW S, NEW s \in Seq(S), s # <<>>
  PROVE  /\ Head(s) \in S
         /\ Tail(s) \in Seq(S)
         /\ Len(Tail(s)) = Len(s) - 1
         /\ ToSet(s) = {Head(s)} \cup ToSet(Tail(s))
<1> DEFINE u == Tail(s)
<1>1. /\ DOMAIN s = 1 .. Len(s) /\ Len(s) \in Nat \ {0}
      /\ u \in Seq(S) /\ DOMAIN u = 1 .. Len(s) - 1 /\ Len(u) = Len(s) - 1
      /\ \A i \in 1 .. Len(s) - 1 : u[i] = s[i + 1]
      /\ Head(s) = s[1] /\ Head(s) \in S
  OBVIOUS
<1> HIDE DEF u
<1>2. ToSet(s) \subseteq {Head(s)} \cup ToSet(u)
  <2>1. ASSUME NEW i \in 1 .. Len(s) PROVE s[i] \in {Head(s)} \cup ToSet(u)
    <3>1. CASE i = 1
      BY <1>1, <3>1
    <3>2. CASE i # 1
      <4>1. i - 1 \in DOMAIN u /\ u[i - 1] = s[i]
        BY <1>1, <3>2
      <4> QED BY <4>1 DEF ToSet
    <3> QED BY <3>1, <3>2
  <2> QED BY <1>1, <2>1 DEF ToSet
<1>3. {Head(s)} \cup ToSet(u) \subseteq ToSet(s)
  <2>1. ASSUME NEW i \in 1 .. Len(s) - 1 PROVE u[i] \in ToSet(s)
    <3>1. i + 1 \in DOMAIN s
      BY <1>1
    <3> QED BY <1>1, <3>1 DEF ToSet
  <2>2. Head(s) \in ToSet(s)
    BY <1>1 DEF ToSet
  <2> QED BY <1>1, <2>1, <2>2 DEF ToSet
<1> QED BY <1>1, <1>2, <1>3 DEF u

\* The members of a sequence, and which one has none.
LEMMA EmptyToSet ==
  ASSUME NEW S, NEW s \in Seq(S)
  PROVE  ToSet(s) \subseteq S /\ (s = <<>> <=> ToSet(s) = {})
<1>1. DOMAIN s = 1 .. Len(s) /\ Len(s) \in Nat /\ (s = <<>> <=> Len(s) = 0)
  OBVIOUS
<1>2. \A i \in 1 .. Len(s) : s[i] \in S
  OBVIOUS
<1>3. Len(s) > 0 => s[1] \in ToSet(s)
  BY <1>1 DEF ToSet
<1>4. Len(s) = 0 => ToSet(s) = {}
  BY <1>1 DEF ToSet
<1> QED BY <1>1, <1>2, <1>3, <1>4 DEF ToSet

\* The members of a concatenation.
LEMMA ConcatToSet ==
  ASSUME NEW S, NEW s \in Seq(S), NEW u \in Seq(S)
  PROVE  s \o u \in Seq(S) /\ ToSet(s \o u) = ToSet(s) \cup ToSet(u)
<1> DEFINE v == s \o u
<1>1. /\ v \in Seq(S) /\ Len(v) = Len(s) + Len(u) /\ DOMAIN v = 1 .. Len(s) + Len(u)
      /\ Len(s) \in Nat /\ Len(u) \in Nat
      /\ DOMAIN s = 1 .. Len(s) /\ DOMAIN u = 1 .. Len(u)
      /\ \A i \in 1 .. Len(s) : v[i] = s[i]
      /\ \A i \in 1 .. Len(u) : v[Len(s) + i] = u[i]
      /\ \A i \in Len(s) + 1 .. Len(s) + Len(u) : v[i] = u[i - Len(s)]
  OBVIOUS
<1> HIDE DEF v
<1>2. ToSet(s) \cup ToSet(u) \subseteq ToSet(v)
  <2>1. ASSUME NEW i \in 1 .. Len(s) PROVE s[i] \in ToSet(v)
    <3>1. i \in DOMAIN v /\ v[i] = s[i]
      BY <1>1
    <3> QED BY <3>1 DEF ToSet
  <2>2. ASSUME NEW i \in 1 .. Len(u) PROVE u[i] \in ToSet(v)
    <3>1. Len(s) + i \in DOMAIN v /\ v[Len(s) + i] = u[i]
      BY <1>1
    <3> QED BY <3>1 DEF ToSet
  <2> QED BY <1>1, <2>1, <2>2 DEF ToSet
<1>3. ToSet(v) \subseteq ToSet(s) \cup ToSet(u)
  <2>1. ASSUME NEW i \in 1 .. Len(s) + Len(u) PROVE v[i] \in ToSet(s) \cup ToSet(u)
    <3>1. CASE i <= Len(s)
      BY <1>1, <3>1 DEF ToSet
    <3>2. CASE i > Len(s)
      <4>1. i - Len(s) \in DOMAIN u /\ v[i] = u[i - Len(s)]
        BY <1>1, <3>2
      <4> QED BY <4>1 DEF ToSet
    <3> QED BY <1>1, <3>1, <3>2
  <2> QED BY <1>1, <2>1 DEF ToSet
<1> QED BY <1>1, <1>2, <1>3 DEF v

\* A rotation of a sequence has the members of the sequence.
LEMMA RotationToSet ==
  ASSUME NEW S, NEW s \in Seq(S), NEW i \in 1 .. Len(s)
  PROVE  /\ SubSeq(s, i, Len(s)) \o SubSeq(s, 1, i - 1) \in Seq(S)
         /\ ToSet(SubSeq(s, i, Len(s)) \o SubSeq(s, 1, i - 1)) = ToSet(s)
<1> DEFINE x == SubSeq(s, i, Len(s))
           y == SubSeq(s, 1, i - 1)
<1>1. /\ Len(s) \in Nat /\ DOMAIN s = 1 .. Len(s)
      /\ x \in Seq(S) /\ Len(x) = Len(s) - i + 1 /\ DOMAIN x = 1 .. Len(s) - i + 1
      /\ \A j \in 1 .. Len(s) - i + 1 : x[j] = s[i + j - 1]
  OBVIOUS
<1>2. /\ y \in Seq(S) /\ Len(y) = i - 1 /\ DOMAIN y = 1 .. i - 1
      /\ \A j \in 1 .. i - 1 : y[j] = s[j]
  OBVIOUS
<1> HIDE DEF x, y
<1>3. ToSet(x) = {s[j] : j \in i .. Len(s)}
  <2>1. \A j \in 1 .. Len(s) - i + 1 : i + j - 1 \in i .. Len(s)
    BY <1>1
  <2>2. ASSUME NEW j \in i .. Len(s) PROVE s[j] \in ToSet(x)
    <3>1. j - i + 1 \in DOMAIN x /\ x[j - i + 1] = s[j]
      BY <1>1
    <3> QED BY <3>1 DEF ToSet
  <2>3. ToSet(x) \subseteq {s[j] : j \in i .. Len(s)}
    <3>1. ASSUME NEW j \in 1 .. Len(s) - i + 1 PROVE x[j] \in {s[l] : l \in i .. Len(s)}
      BY <1>1, <2>1
    <3> QED BY <1>1, <3>1 DEF ToSet
  <2> QED BY <2>2, <2>3
<1>4. ToSet(y) = {s[j] : j \in 1 .. i - 1}
  BY <1>2 DEF ToSet
<1>5. ToSet(s) = ToSet(x) \cup ToSet(y)
  <2>1. 1 .. Len(s) = (i .. Len(s)) \cup (1 .. i - 1)
    BY <1>1
  <2> QED BY <1>1, <1>3, <1>4, <2>1 DEF ToSet
<1>6. x \o y \in Seq(S) /\ ToSet(x \o y) = ToSet(x) \cup ToSet(y)
  BY <1>1, <1>2, ConcatToSet
<1> QED BY <1>5, <1>6 DEF x, y

\* No member of s is in it twice.
Distinct(s) == \A i, j \in 1 .. Len(s) : s[i] = s[j] => i = j

\* A new member is appended.
LEMMA AppendDistinct ==
  ASSUME NEW S, NEW s \in Seq(S), Distinct(s), NEW e \in S, e \notin ToSet(s)
  PROVE  Distinct(Append(s, e))
<1> DEFINE u == Append(s, e)
<1>1. /\ Len(u) = Len(s) + 1 /\ Len(s) \in Nat /\ u[Len(s) + 1] = e
      /\ \A i \in 1 .. Len(s) : u[i] = s[i]
  OBVIOUS
<1>2. \A i \in 1 .. Len(s) : s[i] # e
  BY DEF ToSet
<1> HIDE DEF u
<1>3. Distinct(u)
  BY <1>1, <1>2 DEF Distinct
<1> QED BY <1>3 DEF u

\* The head of a sequence without repetitions is not in its tail.
LEMMA TailDistinct ==
  ASSUME NEW S, NEW s \in Seq(S), s # <<>>, Distinct(s)
  PROVE  Distinct(Tail(s)) /\ ToSet(Tail(s)) = ToSet(s) \ {Head(s)}
<1> DEFINE u == Tail(s)
<1>1. /\ Len(u) = Len(s) - 1 /\ Len(s) \in Nat \ {0} /\ DOMAIN u = 1 .. Len(u)
      /\ \A i \in 1 .. Len(u) : u[i] = s[i + 1]
      /\ Head(s) = s[1]
  OBVIOUS
<1>2. ToSet(s) = {Head(s)} \cup ToSet(u)
  BY HeadTailSet
<1> HIDE DEF u
<1>3. Distinct(u)
  BY <1>1 DEF Distinct
<1>4. \A i \in 1 .. Len(u) : u[i] # Head(s)
  BY <1>1 DEF Distinct
<1>5. Head(s) \notin ToSet(u)
  BY <1>1, <1>4 DEF ToSet
<1> QED BY <1>2, <1>3, <1>5 DEF u

\* Keep repeats no member of a sequence that repeats none.
LEMMA KeepDistinct ==
  ASSUME NEW S, NEW s \in Seq(S), Distinct(s), NEW A
  PROVE  Distinct(Keep(s, A))
<1>1. PICK kept : Builds(kept, s, A, Len(s)) /\ Keep(s, A) = kept[Len(s)]
  BY KeepBuilt
<1> DEFINE P(n) == /\ kept[n] \in Seq(S)
                   /\ Distinct(kept[n])
                   /\ ToSet(kept[n]) \subseteq {s[i] : i \in 1 .. n}
           T == {n \in Nat : n <= Len(s) => P(n)}
<1>2. 0 \in T
  BY <1>1 DEF Builds, ToSet, Distinct
<1>3. ASSUME NEW n \in T PROVE n + 1 \in T
  <2> SUFFICES ASSUME n + 1 <= Len(s) PROVE P(n + 1)
    OBVIOUS
  <2>1. P(n)
    BY <1>3
  <2>2. kept[n + 1] = IF s[n + 1] \in A THEN Append(kept[n], s[n + 1]) ELSE kept[n]
    <3> DEFINE m == n + 1
    <3>1. m \in 0 .. Len(s) /\ m # 0 /\ m - 1 = n
      BY <1>3
    <3> HIDE DEF m
    <3>2. kept[m] = IF s[m] \in A THEN Append(kept[m - 1], s[m]) ELSE kept[m - 1]
      BY <1>1, <3>1 DEF Builds
    <3> QED BY <3>1, <3>2 DEF m
  <2>3. {s[i] : i \in 1 .. n + 1} = {s[i] : i \in 1 .. n} \cup {s[n + 1]}
    BY <1>3
  <2>4. CASE s[n + 1] \in A
    <3>1. kept[n + 1] = Append(kept[n], s[n + 1]) /\ s[n + 1] \in S
      BY <1>3, <2>2, <2>4
    <3>2. s[n + 1] \notin ToSet(kept[n])
      <4>1. \A i \in 1 .. n : i \in 1 .. Len(s) /\ n + 1 \in 1 .. Len(s) /\ i # n + 1
        BY <1>3
      <4>2. \A i \in 1 .. n : s[i] # s[n + 1]
        BY <4>1 DEF Distinct
      <4> QED BY <2>1, <4>2
    <3>3. Append(kept[n], s[n + 1]) \in Seq(S)
      BY <2>1, <3>1
    <3>4. Distinct(Append(kept[n], s[n + 1]))
      BY <2>1, <3>1, <3>2, AppendDistinct
    <3>5. ToSet(Append(kept[n], s[n + 1])) = ToSet(kept[n]) \cup {s[n + 1]}
      BY <2>1, <3>1, AppendToSet
    <3> QED BY <2>1, <2>3, <3>1, <3>3, <3>4, <3>5
  <2>5. CASE s[n + 1] \notin A
    BY <2>1, <2>2, <2>3, <2>5
  <2> QED BY <2>4, <2>5
<1>4. T = Nat
  <2> HIDE DEF T
  <2> QED BY <1>2, <1>3, SetInduction, T \subseteq Nat DEF T
<1>5. Len(s) \in T
  <2> HIDE DEF T
  <2> QED BY <1>4
<1> QED BY <1>1, <1>5
==============================================================================
