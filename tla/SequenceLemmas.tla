---------------------------- MODULE SequenceLemmas ----------------------------
(***************************************************************************)
(* What the proofs need about sequences: how concatenations are regrouped   *)
(* and cut, and what the recursively defined FoldLeft and FlattenSeq give.  *)
(* The latter is proved by induction, stated for sets of numbers: a lemma   *)
(* that takes a predicate could not be used by the provers.                 *)
(***************************************************************************)
EXTENDS SequencesExt, SequenceTheorems, WellFoundedInduction, TLAPS

-----------------------------------------------------------------------------
(* Induction and primitive recursion on the natural numbers. *)

LEMMA Induction ==
    ASSUME NEW S, 0 \in S, \A n \in Nat : n \in S => n + 1 \in S
    PROVE  Nat \subseteq S
  <1> DEFINE T == Nat \ S
             R == OpToRel(<, Nat)
  <1> SUFFICES ASSUME T # {} PROVE FALSE
    OBVIOUS
  <1>1. T \subseteq Nat /\ IsWellFoundedOn(R, Nat)
    BY NatLessThanWellFounded
  <1> HIDE DEF T, R
  <1>2. PICK m \in T : \A k \in T : <<k, m>> \notin R
    BY <1>1, WFMin
  <1>3. m # 0 /\ m - 1 \in Nat
    BY DEF T
  <1>4. m - 1 \in T
    BY <1>3 DEF T
  <1>5. <<m - 1, m>> \in R
    BY <1>3 DEF R, OpToRel, T
  <1> QED
    BY <1>2, <1>4, <1>5

\* The first values of the function that step defines.
Begins(g, n, V, base, step) ==
    /\ g \in [0..n -> V]
    /\ g[0] = base
    /\ \A k \in 0 .. n - 1 : g[k + 1] = step[k][g[k]]

Recurses(f, V, base, step) ==
    /\ f \in [Nat -> V]
    /\ f[0] = base
    /\ \A n \in Nat : f[n + 1] = step[n][f[n]]

LEMMA Recursion ==
    ASSUME NEW V, NEW base \in V, NEW step \in [Nat -> [V -> V]]
    PROVE  \E f : Recurses(f, V, base, step)
  <1> DEFINE Start(n) == {g \in [0..n -> V] : Begins(g, n, V, base, step)}
  <1>1. \A n \in Nat : Start(n) # {}
    <2> DEFINE S == {n \in Nat : Start(n) # {}}
    <2>1. 0 \in S
      <3> DEFINE g == [k \in 0..0 |-> base]
      <3>1. g \in Start(0)
        BY DEF Begins
      <3> QED
        BY <3>1
    <2>2. ASSUME NEW n \in Nat, n \in S PROVE n + 1 \in S
      <3>1. PICK g \in [0..n -> V] : Begins(g, n, V, base, step)
        BY <2>2
      <3> DEFINE h == [k \in 0 .. n + 1 |-> IF k <= n THEN g[k] ELSE step[n][g[n]]]
      <3>2. h \in [0 .. n + 1 -> V]
        BY <3>1
      <3>3. h[0] = base
        BY <3>1 DEF Begins
      <3>4. ASSUME NEW k \in 0..n PROVE h[k + 1] = step[k][h[k]]
        <4>1. CASE k = n
          BY <4>1
        <4>2. CASE k # n
          <5>1. k \in 0 .. n - 1 /\ k + 1 \in 0..n
            BY <4>2
          <5> QED
            BY <3>1, <5>1 DEF Begins
        <4> QED
          BY <4>1, <4>2
      <3>5. h \in Start(n + 1)
        <4> HIDE DEF h
        <4>1. \A k \in 0 .. (n + 1) - 1 : h[k + 1] = step[k][h[k]]
          BY <3>4
        <4> QED
          BY <3>2, <3>3, <4>1 DEF Begins
      <3> QED
        BY <3>5
    <2> HIDE DEF S
    <2>3. Nat \subseteq S
      BY <2>1, <2>2, Induction
    <2> QED
      BY <2>3 DEF S
  <1>2. \A n, m \in Nat : \A g \in Start(n), h \in Start(m) :
            \A k \in Nat : k <= n /\ k <= m => g[k] = h[k]
    <2> SUFFICES ASSUME NEW n \in Nat, NEW m \in Nat, NEW g \in Start(n), NEW h \in Start(m)
                 PROVE  \A k \in Nat : k <= n /\ k <= m => g[k] = h[k]
      OBVIOUS
    <2> DEFINE S == {k \in Nat : k <= n /\ k <= m => g[k] = h[k]}
    <2>1. 0 \in S
      BY DEF Begins
    <2>2. ASSUME NEW k \in Nat, k \in S PROVE k + 1 \in S
      <3>1. CASE k + 1 <= n /\ k + 1 <= m
        <4>1. k \in 0 .. n - 1 /\ k \in 0 .. m - 1 /\ g[k] = h[k]
          BY <2>2, <3>1
        <4>2. g[k + 1] = step[k][g[k]] /\ h[k + 1] = step[k][h[k]]
          BY <4>1 DEF Begins
        <4> QED
          BY <4>1, <4>2
      <3>2. CASE ~(k + 1 <= n /\ k + 1 <= m)
        BY <3>2
      <3> QED
        BY <3>1, <3>2
    <2> HIDE DEF S
    <2>3. Nat \subseteq S
      BY <2>1, <2>2, Induction
    <2> QED
      BY <2>3 DEF S
  <1> DEFINE pick(n) == CHOOSE g \in Start(n) : TRUE
             f == [n \in Nat |-> pick(n)[n]]
  <1>3. \A n \in Nat : pick(n) \in Start(n)
    BY <1>1
  <1> HIDE DEF pick
  <1>4. f \in [Nat -> V]
    BY <1>3 DEF Begins
  <1>5. f[0] = base
    BY <1>3 DEF Begins
  <1>6. ASSUME NEW n \in Nat PROVE f[n + 1] = step[n][f[n]]
    <2>1. pick(n + 1)[n + 1] = step[n][pick(n + 1)[n]]
      BY <1>3 DEF Begins
    <2>2. pick(n + 1)[n] = pick(n)[n]
      <3>1. pick(n + 1) \in Start(n + 1) /\ pick(n) \in Start(n) /\ n + 1 \in Nat
        BY <1>3
      <3> HIDE DEF Start
      <3> QED
        BY <1>2, <3>1
    <2> QED
      BY <2>1, <2>2
  <1> QED
    BY <1>4, <1>5, <1>6 DEF Recurses

-----------------------------------------------------------------------------
(* Concatenations and pieces. *)

LEMMA Regroup ==
    ASSUME NEW S, NEW p \in Seq(S), NEW q \in Seq(S), NEW r \in Seq(S)
    PROVE  p \o (q \o r) = (p \o q) \o r
  BY ConcatAssociative

LEMMA Closed ==
    ASSUME NEW S, NEW p \in Seq(S), NEW q \in Seq(S)
    PROVE  p \o q \in Seq(S)
  BY ConcatProperties

LEMMA Joined ==
    ASSUME NEW S, NEW s \in Seq(S), NEW t \in Seq(S)
    PROVE  s \o t \in Seq(S) /\ Len(s \o t) = Len(s) + Len(t)
  OBVIOUS

LEMMA Widen == ASSUME NEW S, NEW T, S \subseteq T, NEW s \in Seq(S) PROVE s \in Seq(T)
  <1>1. s \in [1..Len(s) -> T] /\ Len(s) \in Nat
    OBVIOUS
  <1> QED
    BY <1>1, SeqDef

LEMMA FunctionIsSequence ==
    ASSUME NEW S, NEW n \in Nat, NEW f \in [1..n -> S] PROVE f \in Seq(S)
  BY SeqDef

\* A sequence is cut in two.
LEMMA Cut ==
    ASSUME NEW S, NEW s \in Seq(S), NEW n \in 0..Len(s)
    PROVE  /\ SubSeq(s, 1, n) \in Seq(S) /\ Len(SubSeq(s, 1, n)) = n
           /\ SubSeq(s, n + 1, Len(s)) \in Seq(S)
           /\ Len(SubSeq(s, n + 1, Len(s))) = Len(s) - n
           /\ SubSeq(s, 1, n) \o SubSeq(s, n + 1, Len(s)) = s
  <1>1. /\ SubSeq(s, 1, n) \in Seq(S) /\ Len(SubSeq(s, 1, n)) = n
        /\ SubSeq(s, n + 1, Len(s)) \in Seq(S)
        /\ Len(SubSeq(s, n + 1, Len(s))) = Len(s) - n
    OBVIOUS
  <1>2. SubSeq(s, 1, n) \o SubSeq(s, n + 1, Len(s)) = s
    <2>1. 1 \in 1 .. Len(s) + 1 /\ n \in 1 - 1 .. Len(s) /\ Len(s) \in n..Len(s)
      OBVIOUS
    <2>2. SubSeq(s, 1, n) \o SubSeq(s, n + 1, Len(s)) = SubSeq(s, 1, Len(s))
      BY <2>1, ConcatAdjacentSubSeq
    <2> QED
      BY <2>2, SubSeqFull
  <1> QED
    BY <1>1, <1>2

\* What is before the end of a sequence that is known.
LEMMA Shortened ==
    ASSUME NEW S, NEW s \in Seq(S), NEW t \in Seq(S), NEW u \in Seq(S), s \o t = u
    PROVE  Len(t) <= Len(u) /\ s = SubSeq(u, 1, Len(u) - Len(t))
  <1>1. Len(u) = Len(s) + Len(t) /\ \A k \in 1..Len(s) : u[k] = s[k]
    BY ConcatProperties
  <1>2. SubSeq(u, 1, Len(s)) \in Seq(S) /\ Len(SubSeq(u, 1, Len(s))) = Len(s)
        /\ \A k \in 1..Len(s) : SubSeq(u, 1, Len(s))[k] = u[k]
    BY <1>1
  <1>3. SubSeq(u, 1, Len(s)) = s
    BY <1>1, <1>2, SeqEqual
  <1> QED
    BY <1>1, <1>3

-----------------------------------------------------------------------------
(* FlattenSeq. *)

Flattens(s, g) == g = [i \in 1..Len(s) |-> IF i = 1 THEN s[i] ELSE g[i - 1] \o s[i]]

LEMMA FlattenUnfolds ==
    \A s : Len(s) # 0 => FlattenSeq(s) = (CHOOSE g : Flattens(s, g))[Len(s)]
  BY DEF FlattenSeq, Flattens

LEMMA FlattenExists ==
    ASSUME NEW S, NEW s \in Seq(Seq(S))
    PROVE  \E g : Flattens(s, g)
  <1> DEFINE V == Seq(S)
             step == [n \in Nat |-> [v \in V |-> IF n + 1 <= Len(s) THEN v \o s[n + 1] ELSE v]]
  <1>1. <<>> \in V
    OBVIOUS
  <1>2. step \in [Nat -> [V -> V]]
    <2>1. ASSUME NEW n \in Nat, NEW v \in V
          PROVE  (IF n + 1 <= Len(s) THEN v \o s[n + 1] ELSE v) \in V
      <3>1. CASE n + 1 <= Len(s)
        <4>1. s[n + 1] \in Seq(S)
          BY <3>1
        <4> QED
          BY <3>1, <4>1, Closed
      <3> QED
        BY <3>1
    <2> QED
      BY <2>1
  <1>3. \A n \in Nat, v \in V : step[n][v] = IF n + 1 <= Len(s) THEN v \o s[n + 1] ELSE v
    OBVIOUS
  <1> HIDE DEF step
  <1>4. PICK f : Recurses(f, V, <<>>, step)
    <2> DEFINE none == <<>>
    <2>1. none \in V
      BY <1>1
    <2> HIDE DEF V, none
    <2>2. \E f : Recurses(f, V, none, step)
      BY <2>1, <1>2, Recursion
    <2> QED
      BY <2>2 DEF none
  <1> DEFINE g == [i \in 1..Len(s) |-> f[i]]
  <1>5. ASSUME NEW i \in 1..Len(s) PROVE f[i] = f[i - 1] \o s[i]
    <2> DEFINE n == i - 1
    <2>1. n \in Nat /\ n + 1 = i /\ n + 1 <= Len(s) /\ f[n] \in V
      BY <1>4 DEF Recurses
    <2> HIDE DEF n, V
    <2>2. f[n + 1] = step[n][f[n]]
      BY <1>4, <2>1 DEF Recurses
    <2>3. f[n + 1] = f[n] \o s[n + 1]
      BY <1>3, <2>1, <2>2
    <2> QED
      BY <2>1, <2>3 DEF n
  <1>6. ASSUME NEW i \in 1..Len(s) PROVE f[i] = IF i = 1 THEN s[i] ELSE g[i - 1] \o s[i]
    <2>1. CASE i = 1
      <3>1. f[i] = f[i - 1] \o s[i]
        BY <1>5
      <3>2. s[i] \in Seq(S) /\ i - 1 = 0
        BY <2>1
      <3>3. f[i] = <<>> \o s[i]
        BY <1>4, <3>1, <3>2 DEF Recurses
      <3> QED
        BY <2>1, <3>2, <3>3, ConcatEmptySeq
    <2>2. CASE i # 1
      <3>1. i - 1 \in 1..Len(s)
        BY <2>2
      <3> QED
        BY <1>5, <2>2, <3>1
    <2> QED
      BY <2>1, <2>2
  <1>7. Flattens(s, g)
    BY <1>6 DEF Flattens
  <1> QED
    BY <1>7

\* The first i sequences of s, one behind the other.
Flat(s, i) == IF i = 0 THEN <<>> ELSE (CHOOSE g : Flattens(s, g))[i]

LEMMA FlatEquation ==
    ASSUME NEW S, NEW s \in Seq(Seq(S))
    PROVE  /\ Flat(s, 0) = <<>>
           /\ \A i \in 1..Len(s) : Flat(s, i) = Flat(s, i - 1) \o s[i]
           /\ FlattenSeq(s) = Flat(s, Len(s))
  <1> DEFINE g == CHOOSE g : Flattens(s, g)
  <1>1. Flattens(s, g)
    BY FlattenExists
  <1>2. \A i \in Nat : Flat(s, i) = IF i = 0 THEN <<>> ELSE g[i]
    BY DEF Flat
  <1> HIDE DEF g
  <1>3. ASSUME NEW i \in 1..Len(s) PROVE Flat(s, i) = Flat(s, i - 1) \o s[i]
    <2>1. g[i] = IF i = 1 THEN s[i] ELSE g[i - 1] \o s[i]
      BY <1>1 DEF Flattens
    <2>2. CASE i = 1
      <3>1. s[i] \in Seq(S) /\ i - 1 = 0
        BY <2>2
      <3>2. <<>> \o s[i] = s[i]
        BY <3>1, ConcatEmptySeq
      <3> QED
        BY <1>2, <2>1, <2>2, <3>1, <3>2
    <2>3. CASE i # 1
      <3>1. i - 1 \in Nat /\ i - 1 # 0 /\ i \in Nat /\ i # 0
        BY <2>3
      <3>2. Flat(s, i - 1) = g[i - 1] /\ Flat(s, i) = g[i]
        BY <1>2, <3>1
      <3> QED
        BY <2>1, <2>3, <3>2
    <2> QED
      BY <2>2, <2>3
  <1>4. FlattenSeq(s) = Flat(s, Len(s))
    <2>1. CASE Len(s) = 0
      BY <2>1 DEF FlattenSeq, Flat
    <2>2. CASE Len(s) # 0
      BY <2>2, FlattenUnfolds DEF Flat
    <2> QED
      BY <2>1, <2>2
  <1> QED
    BY <1>2, <1>3, <1>4

LEMMA FlatType ==
    ASSUME NEW S, NEW s \in Seq(Seq(S))
    PROVE  \A i \in 0..Len(s) : Flat(s, i) \in Seq(S)
  <1> DEFINE N == {i \in Nat : i <= Len(s) => Flat(s, i) \in Seq(S)}
  <1>1. 0 \in N
    <2>1. Flat(s, 0) = <<>>
      BY FlatEquation
    <2>2. <<>> \in Seq(S)
      OBVIOUS
    <2> QED
      BY <2>1, <2>2
  <1>2. ASSUME NEW i \in Nat, i \in N PROVE i + 1 \in N
    <2>1. CASE i + 1 <= Len(s)
      <3>1. i + 1 \in 1..Len(s) /\ Flat(s, i) \in Seq(S) /\ s[i + 1] \in Seq(S) /\ (i + 1) - 1 = i
        BY <1>2, <2>1
      <3>2. Flat(s, i + 1) = Flat(s, i) \o s[i + 1]
        BY <3>1, FlatEquation
      <3>3. Flat(s, i + 1) \in Seq(S)
        BY <3>1, <3>2, Closed
      <3> QED
        BY <3>3
    <2>2. CASE ~(i + 1 <= Len(s))
      BY <2>2
    <2> QED
      BY <2>1, <2>2
  <1> HIDE DEF N
  <1>3. Nat \subseteq N
    BY <1>1, <1>2, Induction
  <1> QED
    BY <1>3 DEF N

LEMMA FlattenType ==
    ASSUME NEW S, NEW s \in Seq(Seq(S))
    PROVE  FlattenSeq(s) \in Seq(S)
  <1>1. Len(s) \in 0..Len(s)
    OBVIOUS
  <1>2. Flat(s, Len(s)) \in Seq(S)
    BY <1>1, FlatType
  <1> QED
    BY <1>2, FlatEquation

LEMMA FlattenEmpty == FlattenSeq(<<>>) = <<>>
  BY DEF FlattenSeq

\* Flattening goes through a concatenation.
LEMMA FlattenConcat ==
    ASSUME NEW S, NEW s \in Seq(Seq(S)), NEW t \in Seq(Seq(S))
    PROVE  FlattenSeq(s \o t) = FlattenSeq(s) \o FlattenSeq(t)
  <1> DEFINE u == s \o t
             m == Len(s)
  <1>1. /\ u \in Seq(Seq(S)) /\ Len(u) = m + Len(t) /\ m \in Nat
        /\ \A i \in 1..m : u[i] = s[i]
        /\ \A i \in 1..Len(t) : u[m + i] = t[i]
    OBVIOUS
  <1> HIDE DEF u, m
  <1>a. /\ Flat(u, 0) = <<>>
        /\ \A i \in 1..Len(u) : Flat(u, i) = Flat(u, i - 1) \o u[i]
        /\ FlattenSeq(u) = Flat(u, Len(u))
    BY <1>1, FlatEquation
  <1>b. /\ Flat(s, 0) = <<>>
        /\ \A i \in 1..m : Flat(s, i) = Flat(s, i - 1) \o s[i]
        /\ FlattenSeq(s) = Flat(s, m)
    BY FlatEquation DEF m
  <1>c. /\ Flat(t, 0) = <<>>
        /\ \A i \in 1..Len(t) : Flat(t, i) = Flat(t, i - 1) \o t[i]
        /\ FlattenSeq(t) = Flat(t, Len(t))
    BY FlatEquation
  <1>2. Flat(u, m) = Flat(s, m)
    <2> DEFINE N == {i \in Nat : i <= m => Flat(u, i) = Flat(s, i)}
    <2>1. 0 \in N
      BY <1>a, <1>b
    <2>2. ASSUME NEW i \in Nat, i \in N PROVE i + 1 \in N
      <3>1. CASE i + 1 <= m
        <4>1. i + 1 \in 1..m /\ (i + 1) - 1 = i /\ i + 1 \in 1..Len(u) /\ Flat(u, i) = Flat(s, i)
          BY <1>1, <2>2, <3>1
        <4>2. Flat(u, i + 1) = Flat(u, i) \o u[i + 1]
          BY <1>a, <4>1
        <4>3. Flat(s, i + 1) = Flat(s, i) \o s[i + 1]
          BY <1>b, <4>1
        <4>4. u[i + 1] = s[i + 1]
          BY <1>1, <4>1
        <4>5. Flat(u, i + 1) = Flat(s, i + 1)
          BY <4>1, <4>2, <4>3, <4>4
        <4> QED
          BY <4>5
      <3>2. CASE ~(i + 1 <= m)
        BY <3>2
      <3> QED
        BY <3>1, <3>2
    <2> HIDE DEF N
    <2>3. Nat \subseteq N
      BY <2>1, <2>2, Induction
    <2> QED
      BY <1>1, <2>3 DEF N
  <1>3. FlattenSeq(s) = Flat(s, m) /\ Flat(s, m) \in Seq(S)
    <2>1. m \in 0..Len(s)
      BY DEF m
    <2> QED
      BY <1>b, <2>1, FlatType
  <1>4. \A i \in 0..Len(t) : Flat(u, m + i) = Flat(s, m) \o Flat(t, i)
    <2> DEFINE N == {i \in Nat : i <= Len(t) => Flat(u, m + i) = Flat(s, m) \o Flat(t, i)}
    <2>1. 0 \in N
      <3>1. Flat(t, 0) = <<>> /\ m + 0 = m
        BY <1>1, <1>c
      <3>2. Flat(s, m) \o <<>> = Flat(s, m)
        BY <1>3, ConcatEmptySeq
      <3> QED
        BY <1>2, <3>1, <3>2
    <2>2. ASSUME NEW i \in Nat, i \in N PROVE i + 1 \in N
      <3>1. CASE i + 1 <= Len(t)
        <4>1. /\ i + 1 \in 1..Len(t) /\ (i + 1) - 1 = i
              /\ m + (i + 1) \in 1..Len(u) /\ m + (i + 1) - 1 = m + i
              /\ Flat(u, m + i) = Flat(s, m) \o Flat(t, i)
          <5>1. Flat(u, m + i) = Flat(s, m) \o Flat(t, i)
            <6>1. i <= Len(t)
              BY <1>1, <3>1
            <6> QED
              BY <2>2, <6>1
          <5> DEFINE l == Len(t)
                     n == Len(u)
          <5>2. l \in Nat /\ n = m + l /\ i + 1 <= l
            BY <1>1, <3>1
          <5> HIDE DEF l, n, N
          <5>3. /\ i + 1 \in 1..l /\ (i + 1) - 1 = i
                /\ m + (i + 1) \in 1..n /\ m + (i + 1) - 1 = m + i
            BY <1>1, <5>2
          <5> QED
            BY <5>1, <5>3 DEF l, n
        <4>2. Flat(u, m + (i + 1)) = Flat(u, m + i) \o t[i + 1]
          <5>1. u[m + (i + 1)] = t[i + 1]
            BY <1>1, <4>1
          <5>2. PICK j \in 1..Len(u) : j = m + (i + 1) /\ j - 1 = m + i
            BY <1>1, <4>1
          <5>3. Flat(u, j) = Flat(u, j - 1) \o u[j]
            BY <1>a, <5>2
          <5>4. u[j] = t[i + 1]
            BY <5>1, <5>2
          <5> QED
            BY <5>2, <5>3, <5>4
        <4>3. Flat(t, i + 1) = Flat(t, i) \o t[i + 1]
          BY <1>c, <4>1
        <4> DEFINE p == Flat(s, m)
                   q == Flat(t, i)
                   r == t[i + 1]
        <4>4. p \in Seq(S) /\ q \in Seq(S) /\ r \in Seq(S)
          <5>1. i \in 0..Len(t)
            BY <3>1
          <5>2. Flat(t, i) \in Seq(S)
            BY <5>1, FlatType
          <5> QED
            BY <1>3, <4>1, <5>2
        <4> HIDE DEF p, q, r
        <4>5. p \o (q \o r) = (p \o q) \o r
          BY <4>4, Regroup
        <4>6. Flat(u, m + (i + 1)) = p \o Flat(t, i + 1)
          BY <4>1, <4>2, <4>3, <4>5 DEF p, q, r
        <4> QED
          BY <4>6 DEF p
      <3>2. CASE ~(i + 1 <= Len(t))
        BY <3>2
      <3> QED
        BY <3>1, <3>2
    <2> HIDE DEF N
    <2>3. Nat \subseteq N
      BY <2>1, <2>2, Induction
    <2> QED
      BY <2>3 DEF N
  <1>5. Flat(u, m + Len(t)) = Flat(s, m) \o Flat(t, Len(t))
    <2>1. Len(t) \in 0..Len(t)
      OBVIOUS
    <2> QED
      BY <1>4, <2>1
  <1>6. FlattenSeq(u) = Flat(u, m + Len(t)) /\ FlattenSeq(t) = Flat(t, Len(t))
    BY <1>1, <1>a, <1>c
  <1> QED
    BY <1>3, <1>5, <1>6 DEF u

LEMMA FlattenOne ==
    ASSUME NEW S, NEW e \in Seq(S)
    PROVE  FlattenSeq(<<e>>) = e
  <1> DEFINE u == <<e>>
  <1>1. u \in Seq(Seq(S)) /\ Len(u) = 1 /\ u[1] = e
    OBVIOUS
  <1> HIDE DEF u
  <1>2. /\ Flat(u, 0) = <<>>
        /\ \A i \in 1..Len(u) : Flat(u, i) = Flat(u, i - 1) \o u[i]
        /\ FlattenSeq(u) = Flat(u, Len(u))
    BY <1>1, FlatEquation
  <1>3. 1 \in 1..Len(u) /\ 1 - 1 = 0
    BY <1>1
  <1>4. Flat(u, 1) = <<>> \o e
    BY <1>1, <1>2, <1>3
  <1>5. FlattenSeq(u) = e
    BY <1>1, <1>2, <1>4, ConcatEmptySeq
  <1> QED
    BY <1>5 DEF u

-----------------------------------------------------------------------------
(* FoldLeft, when it adds numbers: it adds the greatest index last. *)

LEMMA Greatest ==
    ASSUME NEW n \in Nat, NEW t \in SUBSET (1..n), t # {}
    PROVE  Max(t) \in t /\ \A y \in t : y <= Max(t)
  <1> DEFINE N == {k \in Nat : \A u \in SUBSET (1..k) : u # {} => \E x \in u : \A y \in u : x >= y}
  <1>1. 0 \in N
    <2>1. \A u \in SUBSET (1..0) : u = {}
      OBVIOUS
    <2> QED
      BY <2>1
  <1>2. ASSUME NEW k \in Nat, k \in N PROVE k + 1 \in N
    <2>1. ASSUME NEW u \in SUBSET (1 .. k + 1), u # {} PROVE \E x \in u : \A y \in u : x >= y
      <3>1. CASE k + 1 \in u
        BY <3>1
      <3>2. CASE k + 1 \notin u
        <4>1. u \in SUBSET (1..k)
          BY <3>2
        <4> QED
          BY <1>2, <2>1, <4>1
      <3> QED
        BY <3>1, <3>2
    <2> QED
      BY <2>1
  <1> HIDE DEF N
  <1>3. Nat \subseteq N
    BY <1>1, <1>2, Induction
  <1>4. \E x \in t : \A y \in t : x >= y
    BY <1>3 DEF N
  <1>5. Max(t) \in t /\ \A y \in t : Max(t) >= y
    BY <1>4 DEF Max
  <1> QED
    BY <1>5

LEMMA GreatestIs ==
    ASSUME NEW n \in Nat, NEW t \in SUBSET (1 .. n + 1), n + 1 \in t
    PROVE  Max(t) = n + 1
  <1>1. n + 1 \in Nat /\ t # {}
    OBVIOUS
  <1>2. Max(t) \in t /\ \A y \in t : y <= Max(t)
    BY <1>1, Greatest
  <1>3. n + 1 <= Max(t) /\ Max(t) \in 1 .. n + 1
    BY <1>2
  <1> QED
    BY <1>3

Adds(s, n, g) == g = [t \in SUBSET (1..n) |-> IF t = {} THEN 0 ELSE g[t \ {Max(t)}] + s[Max(t)]]

LEMMA AddsExists ==
    ASSUME NEW s, NEW n \in Nat
    PROVE  \E g : Adds(s, n, g)
  <1> DEFINE N == {k \in Nat : \E g : Adds(s, k, g)}
  <1>1. 0 \in N
    <2> DEFINE g == [t \in SUBSET (1..0) |-> 0]
    <2>1. \A t \in SUBSET (1..0) : t = {}
      OBVIOUS
    <2>2. Adds(s, 0, g)
      BY <2>1 DEF Adds
    <2> QED
      BY <2>2
  <1>2. ASSUME NEW k \in Nat, k \in N PROVE k + 1 \in N
    <2>1. PICK g : Adds(s, k, g)
      BY <1>2
    <2> DEFINE h == [t \in SUBSET (1 .. k + 1) |-> IF k + 1 \in t THEN g[t \ {k + 1}] + s[k + 1] ELSE g[t]]
    <2>2. ASSUME NEW t \in SUBSET (1 .. k + 1)
          PROVE  h[t] = IF t = {} THEN 0 ELSE h[t \ {Max(t)}] + s[Max(t)]
      <3>1. CASE k + 1 \in t
        <4>1. Max(t) = k + 1 /\ t # {}
          BY <3>1, GreatestIs
        <4>2. t \ {k + 1} \in SUBSET (1 .. k + 1) /\ k + 1 \notin t \ {k + 1}
          OBVIOUS
        <4>3. h[t \ {k + 1}] = g[t \ {k + 1}]
          BY <4>2
        <4> QED
          BY <3>1, <4>1, <4>3
      <3>2. CASE k + 1 \notin t
        <4>1. t \in SUBSET (1..k)
          BY <3>2
        <4>2. h[t] = IF t = {} THEN 0 ELSE g[t \ {Max(t)}] + s[Max(t)]
          BY <2>1, <3>2, <4>1 DEF Adds
        <4>3. t \ {Max(t)} \in SUBSET (1 .. k + 1) /\ k + 1 \notin t \ {Max(t)}
          BY <3>2
        <4>4. h[t \ {Max(t)}] = g[t \ {Max(t)}]
          BY <4>3
        <4> QED
          BY <4>2, <4>4
      <3> QED
        BY <3>1, <3>2
    <2>3. Adds(s, k + 1, h)
      BY <2>2 DEF Adds
    <2> QED
      BY <2>3
  <1> HIDE DEF N
  <1>3. Nat \subseteq N
    BY <1>1, <1>2, Induction
  <1> QED
    BY <1>3 DEF N

Sum(s) == FoldLeft(+, 0, s)

\* The sum of the first i numbers of s.
Adding(s, i) == (CHOOSE g : Adds(s, Len(s), g))[1..i]

LEMMA AddingEquation ==
    ASSUME NEW s \in Seq(Nat)
    PROVE  /\ Adding(s, 0) = 0
           /\ \A i \in 1..Len(s) : Adding(s, i) = Adding(s, i - 1) + s[i]
           /\ Sum(s) = Adding(s, Len(s))
  <1> DEFINE g == CHOOSE g : Adds(s, Len(s), g)
  <1>1. Adds(s, Len(s), g)
    <2>1. Len(s) \in Nat
      OBVIOUS
    <2>2. \E f : Adds(s, Len(s), f)
      BY <2>1, AddsExists
    <2> QED
      BY <2>2
  <1>2. Sum(s) = (CHOOSE f : f = [t \in SUBSET DOMAIN s |->
                                    IF t = {} THEN 0 ELSE f[t \ {Max(t)}] + s[Max(t)]])[DOMAIN s]
    BY DEF Sum, FoldLeft, MapThenFoldSet
  <1>3. Sum(s) = g[1..Len(s)]
    <2>1. DOMAIN s = 1..Len(s)
      OBVIOUS
    <2> QED
      BY <1>2, <2>1 DEF Adds
  <1>4. \A i \in Nat : Adding(s, i) = g[1..i]
    BY DEF Adding
  <1> HIDE DEF g
  <1>5. g[1..0] = 0
    <2>1. 1..0 = {} /\ {} \in SUBSET (1..Len(s))
      OBVIOUS
    <2> QED
      BY <1>1, <2>1 DEF Adds
  <1>6. ASSUME NEW i \in 1..Len(s) PROVE g[1..i] = g[1 .. i - 1] + s[i]
    <2>1. Max(1..i) = i
      <3>1. i - 1 \in Nat /\ (i - 1) + 1 = i /\ 1..i \in SUBSET (1..i) /\ i \in 1..i
        OBVIOUS
      <3> QED
        BY <3>1, GreatestIs
    <2>2. 1..i \in SUBSET (1..Len(s)) /\ 1..i # {} /\ (1..i) \ {i} = 1 .. i - 1
      <3>1. 1..i \in SUBSET (1..Len(s))
        OBVIOUS
      <3>2. i \in 1..i
        OBVIOUS
      <3>3. \A k : k \in (1..i) \ {i} <=> k \in 1 .. i - 1
        OBVIOUS
      <3> QED
        BY <3>1, <3>2, <3>3
    <2>3. g[1..i] = g[(1..i) \ {Max(1..i)}] + s[Max(1..i)]
      BY <1>1, <2>2 DEF Adds
    <2> QED
      BY <2>1, <2>2, <2>3
  <1>7. ASSUME NEW i \in 1..Len(s) PROVE Adding(s, i) = Adding(s, i - 1) + s[i]
    <2>1. i \in Nat /\ i - 1 \in Nat
      OBVIOUS
    <2> QED
      BY <1>4, <1>6, <2>1
  <1> QED
    BY <1>3, <1>4, <1>5, <1>7

LEMMA SumEmpty == Sum(<<>>) = 0
  <1> DEFINE s == <<>>
  <1>1. s \in Seq(Nat) /\ Len(s) = 0
    OBVIOUS
  <1> HIDE DEF s
  <1>2. Sum(s) = 0
    BY <1>1, AddingEquation
  <1> QED
    BY <1>2 DEF s

LEMMA AddingType ==
    ASSUME NEW s \in Seq(Nat)
    PROVE  \A i \in 0..Len(s) : Adding(s, i) \in Nat
  <1> DEFINE N == {i \in Nat : i <= Len(s) => Adding(s, i) \in Nat}
  <1>1. 0 \in N
    BY AddingEquation
  <1>2. ASSUME NEW i \in Nat, i \in N PROVE i + 1 \in N
    <2>1. CASE i + 1 <= Len(s)
      <3>1. i + 1 \in 1..Len(s) /\ (i + 1) - 1 = i /\ Adding(s, i) \in Nat /\ s[i + 1] \in Nat
        BY <1>2, <2>1
      <3>2. Adding(s, i + 1) = Adding(s, i) + s[i + 1]
        BY <3>1, AddingEquation
      <3> QED
        BY <3>1, <3>2
    <2>2. CASE ~(i + 1 <= Len(s))
      BY <2>2
    <2> QED
      BY <2>1, <2>2
  <1> HIDE DEF N
  <1>3. Nat \subseteq N
    BY <1>1, <1>2, Induction
  <1> QED
    BY <1>3 DEF N

LEMMA SumType == ASSUME NEW s \in Seq(Nat) PROVE Sum(s) \in Nat
  <1>1. Len(s) \in 0..Len(s)
    OBVIOUS
  <1>2. Adding(s, Len(s)) \in Nat
    BY <1>1, AddingType
  <1> QED
    BY <1>2, AddingEquation

LEMMA SumOfPart ==
    ASSUME NEW s \in Seq(Nat), NEW k \in 0..Len(s)
    PROVE  Sum(SubSeq(s, 1, k)) = Adding(s, k)
  <1> DEFINE u == SubSeq(s, 1, k)
  <1>1. u \in Seq(Nat) /\ Len(u) = k /\ \A i \in 1..k : u[i] = s[i]
    OBVIOUS
  <1> HIDE DEF u
  <1>2. /\ Adding(u, 0) = 0
        /\ \A i \in 1..k : Adding(u, i) = Adding(u, i - 1) + u[i]
        /\ Sum(u) = Adding(u, k)
    BY <1>1, AddingEquation
  <1>3. /\ Adding(s, 0) = 0
        /\ \A i \in 1..k : Adding(s, i) = Adding(s, i - 1) + s[i]
    BY AddingEquation
  <1> DEFINE N == {i \in Nat : i <= k => Adding(u, i) = Adding(s, i)}
  <1>4. 0 \in N
    BY <1>2, <1>3
  <1>5. ASSUME NEW i \in Nat, i \in N PROVE i + 1 \in N
    <2>1. CASE i + 1 <= k
      <3>1. i + 1 \in 1..k /\ (i + 1) - 1 = i /\ Adding(u, i) = Adding(s, i)
        BY <1>5, <2>1
      <3>2. Adding(u, i + 1) = Adding(u, i) + u[i + 1]
        BY <1>2, <3>1
      <3>3. Adding(s, i + 1) = Adding(s, i) + s[i + 1]
        BY <1>3, <3>1
      <3>4. Adding(u, i + 1) = Adding(s, i + 1)
        BY <1>1, <3>1, <3>2, <3>3
      <3> QED
        BY <3>4
    <2>2. CASE ~(i + 1 <= k)
      BY <2>2
    <2> QED
      BY <2>1, <2>2
  <1> HIDE DEF N
  <1>6. Nat \subseteq N
    BY <1>4, <1>5, Induction
  <1>7. Adding(u, k) = Adding(s, k)
    BY <1>6 DEF N
  <1> QED
    BY <1>2, <1>7 DEF u

LEMMA SumOfOneMore ==
    ASSUME NEW s \in Seq(Nat), NEW x \in Nat
    PROVE  Sum(s \o <<x>>) = Sum(s) + x
  <1> DEFINE t == s \o <<x>>
             n == Len(s)
  <1>1. t \in Seq(Nat) /\ Len(t) = n + 1 /\ t[n + 1] = x /\ n \in 0..Len(t) /\ n \in Nat
    OBVIOUS
  <1>2. SubSeq(t, 1, n) = s
    <2>1. <<x>> \in Seq(Nat) /\ Len(<<x>>) = 1
      OBVIOUS
    <2>2. s = SubSeq(t, 1, Len(t) - Len(<<x>>))
      BY <2>1, <1>1, Shortened
    <2> QED
      BY <1>1, <2>1, <2>2
  <1> HIDE DEF t, n
  <1>3. Adding(t, n) = Sum(s)
    BY <1>1, <1>2, SumOfPart
  <1>4. Sum(t) = Adding(t, n + 1) /\ Adding(t, n + 1) = Adding(t, n) + x
    <2>1. n + 1 \in 1..Len(t) /\ (n + 1) - 1 = n
      BY <1>1
    <2> QED
      BY <1>1, <2>1, AddingEquation
  <1> QED
    BY <1>3, <1>4 DEF t

\* The numbers from base + 1 on, n of them.
NumbersFrom(base, n) == [j \in 1..n |-> base + j]

LEMMA NumbersFromType ==
    ASSUME NEW base \in Nat, NEW n \in Nat
    PROVE  /\ NumbersFrom(base, n) \in Seq(Nat) /\ Len(NumbersFrom(base, n)) = n
           /\ \A j \in 1..n : NumbersFrom(base, n)[j] = base + j
  <1>1. NumbersFrom(base, n) \in [1..n -> Nat]
    BY DEF NumbersFrom
  <1>2. NumbersFrom(base, n) \in Seq(Nat)
    BY <1>1, FunctionIsSequence
  <1>3. DOMAIN NumbersFrom(base, n) = 1..n
    BY <1>1
  <1>4. Len(NumbersFrom(base, n)) = n
    BY <1>2, <1>3, LenProperties
  <1> QED
    BY <1>2, <1>4 DEF NumbersFrom

LEMMA NumbersFromConcat ==
    ASSUME NEW base \in Nat, NEW m \in Nat, NEW n \in Nat
    PROVE  NumbersFrom(base, m) \o NumbersFrom(base + m, n) = NumbersFrom(base, m + n)
  <1> DEFINE p == NumbersFrom(base, m)
             q == NumbersFrom(base + m, n)
             r == NumbersFrom(base, m + n)
  <1>1. /\ p \in Seq(Nat) /\ Len(p) = m /\ \A j \in 1..m : p[j] = base + j
        /\ q \in Seq(Nat) /\ Len(q) = n /\ \A j \in 1..n : q[j] = base + m + j
        /\ r \in Seq(Nat) /\ Len(r) = m + n /\ \A j \in 1 .. m + n : r[j] = base + j
    <2>1. base + m \in Nat /\ m + n \in Nat
      OBVIOUS
    <2>2. p \in Seq(Nat) /\ Len(p) = m /\ \A j \in 1..m : p[j] = base + j
      BY NumbersFromType
    <2>3. q \in Seq(Nat) /\ Len(q) = n /\ \A j \in 1..n : q[j] = (base + m) + j
      BY <2>1, NumbersFromType
    <2>4. r \in Seq(Nat) /\ Len(r) = m + n /\ \A j \in 1 .. m + n : r[j] = base + j
      BY <2>1, NumbersFromType
    <2> HIDE DEF p, q, r
    <2> QED
      BY <2>2, <2>3, <2>4
  <1> HIDE DEF p, q, r
  <1>2. p \o q \in Seq(Nat) /\ Len(p \o q) = m + n
        /\ \A j \in 1 .. m + n : (p \o q)[j] = IF j <= m THEN p[j] ELSE q[j - m]
    <2>1. p \o q \in Seq(Nat) /\ Len(p \o q) = Len(p) + Len(q)
      BY <1>1, Joined
    <2>2. \A j \in 1 .. Len(p) + Len(q) :
            (p \o q)[j] = IF j <= Len(p) THEN p[j] ELSE q[j - Len(p)]
      <3>1. p \in Seq(Nat) /\ q \in Seq(Nat)
        BY <1>1
      <3> QED
        BY ONLY <3>1
    <2> QED
      BY <1>1, <2>1, <2>2
  <1>3. ASSUME NEW j \in 1 .. m + n PROVE (p \o q)[j] = r[j]
    <2>1. CASE j <= m
      BY <1>1, <1>2, <2>1
    <2>2. CASE ~(j <= m)
      <3>1. j - m \in 1..n
        BY <2>2
      <3>2. (p \o q)[j] = base + m + (j - m)
        BY <1>1, <1>2, <2>2, <3>1
      <3>3. r[j] = base + j
        BY <1>1
      <3> QED
        BY <3>2, <3>3
    <2> QED
      BY <2>1, <2>2
  <1>4. p \o q = r
    BY <1>1, <1>2, <1>3, SeqEqual
  <1> QED
    BY <1>4 DEF p, q, r

\* Numbering on through a sequence of runs, s[k] the length of the k-th.
NumberedRuns(s, base) == [k \in DOMAIN s |-> NumbersFrom(base + Adding(s, k - 1), s[k])]

LEMMA NumberedRunsType ==
    ASSUME NEW s \in Seq(Nat), NEW base \in Nat
    PROVE  /\ NumberedRuns(s, base) \in Seq(Seq(Nat)) /\ Len(NumberedRuns(s, base)) = Len(s)
           /\ \A k \in 1..Len(s) : NumberedRuns(s, base)[k] = NumbersFrom(base + Adding(s, k - 1), s[k])
  <1> DEFINE r == NumberedRuns(s, base)
  <1>1. DOMAIN s = 1..Len(s) /\ Len(s) \in Nat
    OBVIOUS
  <1>2. ASSUME NEW k \in 1..Len(s)
        PROVE  NumbersFrom(base + Adding(s, k - 1), s[k]) \in Seq(Nat)
    <2>1. k - 1 \in 0..Len(s) /\ s[k] \in Nat
      OBVIOUS
    <2>a. Adding(s, k - 1) \in Nat
      BY <2>1, AddingType
    <2>2. base + Adding(s, k - 1) \in Nat
      BY <2>a
    <2> QED
      BY <2>1, <2>2, NumbersFromType
  <1>3. r \in [1..Len(s) -> Seq(Nat)]
    BY <1>1, <1>2 DEF NumberedRuns
  <1>4. r \in Seq(Seq(Nat))
    BY <1>1, <1>3, FunctionIsSequence
  <1>5. Len(r) = Len(s)
    BY <1>1, <1>3, <1>4, LenProperties
  <1> QED
    BY <1>1, <1>4, <1>5 DEF NumberedRuns

LEMMA NumberedRunsFlatten ==
    ASSUME NEW s \in Seq(Nat), NEW base \in Nat
    PROVE  FlattenSeq(NumberedRuns(s, base)) = NumbersFrom(base, Sum(s))
  <1> DEFINE r == NumberedRuns(s, base)
  <1>1. /\ r \in Seq(Seq(Nat)) /\ Len(r) = Len(s) /\ Len(s) \in Nat
        /\ \A k \in 1..Len(s) : r[k] = NumbersFrom(base + Adding(s, k - 1), s[k])
    BY NumberedRunsType
  <1> HIDE DEF r
  <1>2. /\ Flat(r, 0) = <<>>
        /\ \A i \in 1..Len(s) : Flat(r, i) = Flat(r, i - 1) \o r[i]
        /\ FlattenSeq(r) = Flat(r, Len(s))
    BY <1>1, FlatEquation
  <1>3. /\ Adding(s, 0) = 0
        /\ \A i \in 1..Len(s) : Adding(s, i) = Adding(s, i - 1) + s[i]
        /\ Sum(s) = Adding(s, Len(s))
    BY AddingEquation
  <1> DEFINE N == {i \in Nat : i <= Len(s) => Flat(r, i) = NumbersFrom(base, Adding(s, i))}
  <1>4. 0 \in N
    <2>1. NumbersFrom(base, 0) \in Seq(Nat) /\ Len(NumbersFrom(base, 0)) = 0
      BY NumbersFromType
    <2>2. NumbersFrom(base, 0) = <<>>
      BY <2>1
    <2> QED
      BY <1>2, <1>3, <2>2
  <1>5. ASSUME NEW i \in Nat, i \in N PROVE i + 1 \in N
    <2>1. CASE i + 1 <= Len(s)
      <3> DEFINE a == Adding(s, i)
      <3>1. i + 1 \in 1..Len(s) /\ (i + 1) - 1 = i /\ i \in 0..Len(s) /\ s[i + 1] \in Nat
            /\ Flat(r, i) = NumbersFrom(base, a)
        BY <1>5, <2>1
      <3>2. a \in Nat
        BY <3>1, AddingType
      <3>3. Flat(r, i + 1) = Flat(r, i) \o r[i + 1] /\ Adding(s, i + 1) = a + s[i + 1]
        BY <1>2, <1>3, <3>1
      <3>4. r[i + 1] = NumbersFrom(base + a, s[i + 1])
        BY <1>1, <3>1
      <3> HIDE DEF a
      <3>5. NumbersFrom(base, a) \o NumbersFrom(base + a, s[i + 1]) = NumbersFrom(base, a + s[i + 1])
        BY <3>1, <3>2, NumbersFromConcat
      <3>6. Flat(r, i + 1) = NumbersFrom(base, Adding(s, i + 1))
        BY <3>1, <3>3, <3>4, <3>5
      <3> QED
        BY <3>6
    <2>2. CASE ~(i + 1 <= Len(s))
      BY <2>2
    <2> QED
      BY <2>1, <2>2
  <1> HIDE DEF N
  <1>6. Nat \subseteq N
    BY <1>4, <1>5, Induction
  <1>7. Flat(r, Len(s)) = NumbersFrom(base, Adding(s, Len(s)))
    BY <1>1, <1>6 DEF N
  <1> QED
    BY <1>2, <1>3, <1>7 DEF r

=============================================================================
