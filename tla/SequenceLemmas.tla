--------------------------- MODULE SequenceLemmas ---------------------------
(***************************************************************************)
(* Facts about numbers, recursive functions, parts of sequences and        *)
(* sequences of sequences that the proofs about the log, the file          *)
(* requests, the level's sums and the rules rest on.                       *)
(* Induction is stated of a set, since no prover at hand takes an operator *)
(* for a parameter of a theorem; so is recursion, of a function of steps.  *)
(***************************************************************************)
EXTENDS Integers, Sequences, SequencesExt, WellFoundedInduction, TLAPS

\* Induction, of sets: a set with 0 in it and the successor of each of its numbers
\* has all of them.
LEMMA NatSetInduction ==
  ASSUME NEW A, 0 \in A, \A n \in Nat : n \in A => n + 1 \in A
  PROVE  Nat \subseteq A
<1> DEFINE R == OpToRel(<, Nat)
<1>1. IsWellFoundedOn(R, Nat)
  BY NatLessThanWellFounded
<1>2. \A x, y \in Nat : <<x, y>> \in R <=> x < y
  BY DEF OpToRel
<1> HIDE DEF R
<1>3. SUFFICES ASSUME Nat \ A # {} PROVE FALSE
  OBVIOUS
<1>4. PICK x \in Nat \ A : \A y \in Nat \ A : <<y, x>> \notin R
  <2>1. Nat \ A \subseteq Nat
    OBVIOUS
  <2> QED BY <1>1, <1>3, <2>1, WFMin, Zenon
<1>5. x - 1 \in Nat
  BY <1>4
<1>6. x - 1 \in A
  <2>1. <<x - 1, x>> \in R
    BY <1>2, <1>4, <1>5
  <2> QED BY <1>4, <1>5, <2>1
<1> QED BY <1>4, <1>5, <1>6

\* g is a history of n steps of Step from base.
Run(g, n, base, Step) == g[0] = base /\ \A k \in 1..n : g[k] = Step[k][g[k - 1]]

\* Two histories of the same steps agree as far as the shorter goes.
LEMMA RunsAgree ==
  ASSUME NEW base, NEW Step, NEW m \in Nat, NEW n \in Nat, m <= n, NEW g, NEW h,
         Run(g, m, base, Step), Run(h, n, base, Step)
  PROVE  \A k \in 0..m : g[k] = h[k]
<1> DEFINE A == {k \in Nat : k <= m => g[k] = h[k]}
<1>1. 0 \in A
  BY DEF Run
<1>2. ASSUME NEW k \in Nat, k \in A PROVE k + 1 \in A
  <2>1. SUFFICES ASSUME k + 1 <= m PROVE g[k + 1] = h[k + 1]
    OBVIOUS
  <2>2. k + 1 \in 1..m /\ k + 1 \in 1..n /\ (k + 1) - 1 = k /\ g[k] = h[k]
    BY <1>2, <2>1
  <2> QED BY <2>2 DEF Run
<1> HIDE DEF A
<1>3. Nat \subseteq A
  BY <1>1, <1>2, NatSetInduction
<1> QED BY <1>3 DEF A

\* Steps over V, and what they make of base.
Steps(V, Step) == Step \in [Nat -> [V -> V]]
Unfolds(f, V, base, Step) ==
    f \in [Nat -> V] /\ f[0] = base /\ \A n \in Nat : f[n + 1] = Step[n + 1][f[n]]

\* What a recursive function with one argument defines exists.
LEMMA Recursion ==
  ASSUME NEW V, NEW base, NEW Step, base \in V, Steps(V, Step)
  PROVE  \E f : Unfolds(f, V, base, Step)
<1> USE DEF Steps
<1> DEFINE A == {n \in Nat : \E g \in [0..n -> V] : Run(g, n, base, Step)}
<1>1. 0 \in A
  <2>1. [k \in 0..0 |-> base] \in [0..0 -> V]
    OBVIOUS
  <2>2. Run([k \in 0..0 |-> base], 0, base, Step)
    BY DEF Run
  <2> QED BY <2>1, <2>2
<1>2. ASSUME NEW n \in Nat, n \in A PROVE n + 1 \in A
  <2>1. PICK g \in [0..n -> V] : Run(g, n, base, Step)
    BY <1>2
  <2> DEFINE h == [k \in 0..(n + 1) |-> IF k = n + 1 THEN Step[n + 1][g[n]] ELSE g[k]]
  <2>2. g[n] \in V /\ Step[n + 1][g[n]] \in V
    <3>1. g[n] \in V
      OBVIOUS
    <3> QED BY <3>1
  <2>3. h \in [0..(n + 1) -> V]
    BY <2>2
  <2>4. ASSUME NEW k \in 1..(n + 1) PROVE h[k] = Step[k][h[k - 1]]
    <3>1. h[k - 1] = g[k - 1]
      OBVIOUS
    <3>2. CASE k = n + 1
      BY <3>1, <3>2
    <3>3. CASE k # n + 1
      <4>1. k \in 1..n
        BY <3>3
      <4> QED BY <2>1, <3>1, <3>3, <4>1 DEF Run
    <3> QED BY <3>2, <3>3
  <2>5. h[0] = base
    BY <2>1 DEF Run
  <2> HIDE DEF h
  <2>6. Run(h, n + 1, base, Step)
    BY <2>4, <2>5 DEF Run
  <2> QED BY <2>3, <2>6
<1> HIDE DEF A
<1>3. Nat \subseteq A
  BY <1>1, <1>2, NatSetInduction
<1> DEFINE G(n) == CHOOSE g \in [0..n -> V] : Run(g, n, base, Step)
<1>4. ASSUME NEW n \in Nat PROVE G(n) \in [0..n -> V] /\ Run(G(n), n, base, Step)
  BY <1>3 DEF A
<1> HIDE DEF G
<1> DEFINE f == [n \in Nat |-> G(n)[n]]
<1>5. f \in [Nat -> V]
  <2>1. ASSUME NEW n \in Nat PROVE G(n)[n] \in V
    BY <1>4
  <2> QED BY <2>1
<1>6. f[0] = base
  BY <1>4 DEF Run
<1>7. ASSUME NEW n \in Nat PROVE f[n + 1] = Step[n + 1][f[n]]
  <2>1. Run(G(n), n, base, Step) /\ Run(G(n + 1), n + 1, base, Step)
    BY <1>4
  <2>2. G(n)[n] = G(n + 1)[n]
    <3>1. n + 1 \in Nat /\ n <= n + 1 /\ n \in 0..n
      OBVIOUS
    <3>2. \A k \in 0..n : G(n)[k] = G(n + 1)[k]
      BY <2>1, <3>1, RunsAgree
    <3> QED BY <3>1, <3>2
  <2>3. G(n + 1)[n + 1] = Step[n + 1][G(n + 1)[n]]
    <3>1. n + 1 \in 1..(n + 1) /\ (n + 1) - 1 = n
      OBVIOUS
    <3> QED BY <2>1, <3>1 DEF Run
  <2> QED BY <2>2, <2>3
<1> HIDE DEF f
<1> QED BY <1>5, <1>6, <1>7 DEF Unfolds

-----------------------------------------------------------------------------
\* Nothing in front of a sequence.
LEMMA EmptyConcat ==
  ASSUME NEW X, NEW s \in Seq(X)
  PROVE  <<>> \o s = s
OBVIOUS

\* FlattenSeq is the last of the beginnings that are put together one by one.
LEMMA FlattenIsRun ==
  ASSUME NEW X, NEW s \in Seq(Seq(X)), NEW f, f[0] = <<>>,
         \A k \in 1..Len(s) : f[k] = f[k - 1] \o s[k]
  PROVE  FlattenSeq(s) = f[Len(s)]
<1>1. CASE Len(s) = 0
  BY <1>1 DEF FlattenSeq
<1>2. CASE Len(s) # 0
  <2> DEFINE n == Len(s)
             flatten[i \in 1..n] == IF i = 1 THEN s[i] ELSE flatten[i - 1] \o s[i]
             g == [i \in 1..n |-> f[i]]
             A == {k \in Nat : k + 1 \in 1..n => flatten[k + 1] = f[k + 1]}
  <2>1. FlattenSeq(s) = flatten[n]
    BY <1>2 DEF FlattenSeq
  <2>2. n \in Nat \ {0} /\ 1 \in 1..n
    BY <1>2
  <2>3. f[1] = s[1]
    <3>1. f[1] = f[1 - 1] \o s[1]
      BY <2>2, Zenon
    <3>2. s[1] \in Seq(X)
      BY <2>2
    <3>3. f[1 - 1] = <<>>
      <4>1. 1 - 1 = 0
        OBVIOUS
      <4> QED BY <4>1, Zenon
    <3>4. f[1] = <<>> \o s[1]
      BY <3>1, <3>3, Zenon
    <3> QED BY <3>2, <3>4, EmptyConcat
  <2>4. g = [i \in 1..n |-> IF i = 1 THEN s[i] ELSE g[i - 1] \o s[i]]
    <3>1. ASSUME NEW i \in 1..n PROVE f[i] = IF i = 1 THEN s[i] ELSE g[i - 1] \o s[i]
      <4>1. CASE i = 1
        BY <2>3, <4>1
      <4>2. CASE i # 1
        <5>1. i - 1 \in 1..n
          BY <2>2, <4>2
        <5>2. g[i - 1] = f[i - 1]
          BY <5>1
        <5> QED BY <4>2, <5>2
      <4> QED BY <4>1, <4>2
    <3> QED BY <3>1, Zenon
  <2> HIDE DEF n, g
  <2>5. flatten = [i \in 1..n |-> IF i = 1 THEN s[i] ELSE flatten[i - 1] \o s[i]]
    BY <2>4, Zenon
  <2> HIDE DEF flatten
  <2>6. 0 \in A
    BY <2>2, <2>3, <2>5
  <2>7. ASSUME NEW k \in Nat, k \in A PROVE k + 1 \in A
    <3>1. SUFFICES ASSUME (k + 1) + 1 \in 1..n PROVE flatten[(k + 1) + 1] = f[(k + 1) + 1]
      OBVIOUS
    <3>2. k + 1 \in 1..n /\ ((k + 1) + 1) - 1 = k + 1 /\ (k + 1) + 1 # 1
      BY <2>2, <3>1
    <3>3. flatten[k + 1] = f[k + 1]
      BY <2>7, <3>2
    <3>4. flatten[(k + 1) + 1] = flatten[k + 1] \o s[(k + 1) + 1]
      BY <2>5, <3>1, <3>2
    <3>5. f[(k + 1) + 1] = f[k + 1] \o s[(k + 1) + 1]
      BY <3>1, <3>2 DEF n
    <3> QED BY <3>3, <3>4, <3>5
  <2> HIDE DEF A
  <2>8. Nat \subseteq A
    BY <2>6, <2>7, NatSetInduction
  <2>9. flatten[n] = f[n]
    BY <2>2, <2>8 DEF A
  <2> QED BY <2>1, <2>9 DEF n
<1> QED BY <1>1, <1>2
\* What the beginnings of a sequence of sequences flatten to.
LEMMA FlattenBeginnings ==
  ASSUME NEW X, NEW s \in Seq(Seq(X))
  PROVE  \E f \in [Nat -> Seq(X)] :
            /\ f[0] = <<>>
            /\ \A k \in 1..Len(s) : f[k] = f[k - 1] \o s[k]
            /\ \A k \in 0..Len(s) : FlattenSeq(SubSeq(s, 1, k)) = f[k]
<1> DEFINE Step == [k \in Nat |-> [v \in Seq(X) |-> IF k \in 1..Len(s) THEN v \o s[k] ELSE v]]
<1>1. Step \in [Nat -> [Seq(X) -> Seq(X)]]
  <2>1. ASSUME NEW k \in Nat, NEW v \in Seq(X)
        PROVE  (IF k \in 1..Len(s) THEN v \o s[k] ELSE v) \in Seq(X)
    <3>1. CASE k \in 1..Len(s)
      <4>1. s[k] \in Seq(X)
        BY <3>1
      <4> QED BY <3>1, <4>1
    <3> QED BY <3>1
  <2> QED BY <2>1
<1>2. \A k \in Nat, v \in Seq(X) : k \in 1..Len(s) => Step[k][v] = v \o s[k]
  OBVIOUS
<1> HIDE DEF Step
<1>3. <<>> \in Seq(X)
  OBVIOUS
<1>4. PICK f \in [Nat -> Seq(X)] : f[0] = <<>> /\ \A n \in Nat : f[n + 1] = Step[n + 1][f[n]]
  <2>1. Steps(Seq(X), Step)
    BY <1>1 DEF Steps
  <2>2. \E f : Unfolds(f, Seq(X), <<>>, Step)
    BY <1>3, <2>1, Recursion
  <2> QED BY <2>2 DEF Unfolds
<1>5. ASSUME NEW k \in 1..Len(s) PROVE f[k] = f[k - 1] \o s[k]
  <2>1. k - 1 \in Nat /\ (k - 1) + 1 = k /\ k \in Nat
    OBVIOUS
  <2>2. f[k] = Step[k][f[k - 1]]
    BY <1>4, <2>1
  <2>3. f[k - 1] \in Seq(X)
    BY <2>1
  <2> QED BY <1>2, <2>1, <2>2, <2>3
<1>6. ASSUME NEW k \in 0..Len(s) PROVE FlattenSeq(SubSeq(s, 1, k)) = f[k]
  <2> DEFINE t == SubSeq(s, 1, k)
  <2>1. t \in Seq(Seq(X)) /\ Len(t) = k /\ \A i \in 1..k : t[i] = s[i]
    OBVIOUS
  <2> HIDE DEF t
  <2>2. ASSUME NEW i \in 1..Len(t) PROVE f[i] = f[i - 1] \o t[i]
    <3>1. i \in 1..k
      BY <2>1
    <3>2. i \in 1..Len(s)
      BY <3>1
    <3> QED BY <1>5, <2>1, <3>1, <3>2
  <2>3. FlattenSeq(t) = f[Len(t)]
    BY <1>4, <2>1, <2>2, FlattenIsRun
  <2> QED BY <2>1, <2>3 DEF t
<1> QED BY <1>4, <1>5, <1>6

\* Where the members of two sequences are when they are put together.
LEMMA ConcatFirst ==
  ASSUME NEW X, NEW a \in Seq(X), NEW b \in Seq(X), NEW p \in 1..Len(a)
  PROVE  p \in 1..Len(a \o b) /\ (a \o b)[p] = a[p]
OBVIOUS

\* The second of two sequences begins where the first ends.
LEMMA ConcatSecond ==
  ASSUME NEW X, NEW a \in Seq(X), NEW b \in Seq(X), NEW q \in 1..Len(b)
  PROVE  Len(a) + q \in 1..Len(a \o b) /\ (a \o b)[Len(a) + q] = b[q]
OBVIOUS

\* Where the members of each sequence are when they are flattened.
LEMMA FlattenPlaces ==
  ASSUME NEW X, NEW s \in Seq(Seq(X)), NEW i \in 1..Len(s), NEW j \in 1..Len(s[i])
  PROVE  LET place == Len(FlattenSeq(SubSeq(s, 1, i - 1))) + j
         IN place \in 1..Len(FlattenSeq(s)) /\ FlattenSeq(s)[place] = s[i][j]
<1>1. PICK f \in [Nat -> Seq(X)] :
            /\ \A k \in 1..Len(s) : f[k] = f[k - 1] \o s[k]
            /\ \A k \in 0..Len(s) : FlattenSeq(SubSeq(s, 1, k)) = f[k]
  BY FlattenBeginnings
<1> DEFINE p == Len(f[i - 1]) + j
           A == {d \in Nat : i + d <= Len(s) => p \in 1..Len(f[i + d]) /\ f[i + d][p] = s[i][j]}
<1>2. i \in Nat /\ i - 1 \in Nat /\ Len(s) \in Nat /\ i <= Len(s)
  OBVIOUS
<1>3. s[i] \in Seq(X)
  OBVIOUS
<1>4. f[i - 1] \in Seq(X)
  BY <1>2
<1>5. 0 \in A
  <2>1. f[i] = f[i - 1] \o s[i]
    BY <1>1
  <2>2. p \in 1..Len(f[i]) /\ f[i][p] = s[i][j]
    <3> DEFINE a == f[i - 1]  b == s[i]
    <3>1. a \in Seq(X) /\ b \in Seq(X) /\ j \in 1..Len(b) /\ f[i] = a \o b /\ p = Len(a) + j
      BY <1>3, <1>4, <2>1
    <3> HIDE DEF a, p
    <3>2. Len(a) + j \in 1..Len(a \o b) /\ (a \o b)[Len(a) + j] = b[j]
      <4> HIDE DEF b, A
      <4> QED BY <3>1, ConcatSecond
    <3> QED BY <3>1, <3>2
  <2>3. i + 0 = i
    BY <1>2
  <2> HIDE DEF p
  <2> QED BY <2>2, <2>3
<1> HIDE DEF p
<1>6. ASSUME NEW d \in Nat, d \in A PROVE d + 1 \in A
  <2>1. SUFFICES ASSUME i + (d + 1) <= Len(s)
                 PROVE  p \in 1..Len(f[i + (d + 1)]) /\ f[i + (d + 1)][p] = s[i][j]
    OBVIOUS
  <2>2. i + (d + 1) \in 1..Len(s) /\ (i + (d + 1)) - 1 = i + d /\ i + d \in Nat /\ i + d <= Len(s)
    BY <1>2, <2>1
  <2>3. f[i + (d + 1)] = f[i + d] \o s[i + (d + 1)]
    BY <1>1, <2>2
  <2>4. p \in 1..Len(f[i + d]) /\ f[i + d][p] = s[i][j]
    BY <1>6, <2>2
  <2>5. f[i + d] \in Seq(X) /\ s[i + (d + 1)] \in Seq(X)
    BY <2>2
  <2> DEFINE a == f[i + d]  b == s[i + (d + 1)]
  <2>6. a \in Seq(X) /\ b \in Seq(X) /\ f[i + (d + 1)] = a \o b /\ p \in 1..Len(a) /\ a[p] = s[i][j]
    BY <2>3, <2>4, <2>5
  <2>7. p \in 1..Len(a \o b) /\ (a \o b)[p] = a[p]
    <3> HIDE DEF a, b
    <3> QED BY <2>6, ConcatFirst
  <2> HIDE DEF a, b
  <2> QED BY <2>6, <2>7
<1>7. Nat \subseteq A
  <2> HIDE DEF A
  <2> QED BY <1>5, <1>6, NatSetInduction
<1>8. Len(s) - i \in Nat /\ i + (Len(s) - i) = Len(s)
  BY <1>2
<1>9. p \in 1..Len(f[Len(s)]) /\ f[Len(s)][p] = s[i][j]
  <2>1. Len(s) - i \in A
    BY <1>7, <1>8
  <2> QED BY <1>2, <1>8, <2>1
<1>10. Len(s) \in 0..Len(s) /\ i - 1 \in 0..Len(s) /\ SubSeq(s, 1, Len(s)) = s
  BY <1>2
<1>11. FlattenSeq(s) = f[Len(s)] /\ FlattenSeq(SubSeq(s, 1, i - 1)) = f[i - 1]
  BY <1>1, <1>10
<1> QED BY <1>9, <1>11 DEF p
\* One member in front of a sequence moves the others by one place.
LEMMA ConsPlaces ==
  ASSUME NEW X, NEW e \in X, NEW b \in Seq(X)
  PROVE  /\ <<e>> \o b \in Seq(X) /\ Len(<<e>> \o b) = Len(b) + 1
         /\ \A q \in 1..Len(b) : 1 + q \in 1..Len(<<e>> \o b) /\ (<<e>> \o b)[1 + q] = b[q]
OBVIOUS

\* The length of two sequences in a row.
LEMMA ConcatLength ==
  ASSUME NEW X, NEW a \in Seq(X), NEW b \in Seq(X)
  PROVE  Len(a) \in Nat /\ Len(b) \in Nat /\ Len(a \o b) = Len(a) + Len(b)
OBVIOUS

\* A sequence is its own longest beginning.
LEMMA WholeSeq ==
  ASSUME NEW X, NEW s \in Seq(X)
  PROVE  Len(s) \in Nat /\ Len(s) \in 0..Len(s) /\ SubSeq(s, 1, Len(s)) = s
OBVIOUS

\* A flattened sequence has the members of the sequences it was.
LEMMA FlattenType ==
  ASSUME NEW X, NEW s \in Seq(Seq(X))
  PROVE  FlattenSeq(s) \in Seq(X)
<1>1. PICK f \in [Nat -> Seq(X)] : \A k \in 0..Len(s) : FlattenSeq(SubSeq(s, 1, k)) = f[k]
  BY FlattenBeginnings
<1>2. Len(s) \in Nat /\ Len(s) \in 0..Len(s) /\ SubSeq(s, 1, Len(s)) = s
  BY WholeSeq
<1>3. FlattenSeq(s) = f[Len(s)]
  BY <1>1, <1>2
<1>4. f[Len(s)] \in Seq(X)
  BY <1>2
<1> QED BY <1>3, <1>4

\* The lengths that the beginnings of a sequence of sequences flatten to.
LEMMA FlattenLengths ==
  ASSUME NEW X, NEW s \in Seq(Seq(X))
  PROVE  \E l \in [Nat -> Nat] :
            /\ l[0] = 0
            /\ \A k \in 1..Len(s) : l[k] = l[k - 1] + Len(s[k])
            /\ l[Len(s)] = Len(FlattenSeq(s))
<1>1. PICK f \in [Nat -> Seq(X)] :
            /\ f[0] = <<>>
            /\ \A k \in 1..Len(s) : f[k] = f[k - 1] \o s[k]
            /\ \A k \in 0..Len(s) : FlattenSeq(SubSeq(s, 1, k)) = f[k]
  BY FlattenBeginnings
<1> DEFINE l == [k \in Nat |-> Len(f[k])]
<1>2. l \in [Nat -> Nat]
  <2>1. ASSUME NEW k \in Nat PROVE Len(f[k]) \in Nat
    OBVIOUS
  <2> QED BY <2>1
<1>3. l[0] = 0
  BY <1>1
<1>4. ASSUME NEW k \in 1..Len(s) PROVE l[k] = l[k - 1] + Len(s[k])
  <2>1. k \in Nat /\ k - 1 \in Nat
    OBVIOUS
  <2>2. f[k - 1] \in Seq(X)
    BY <2>1
  <2>3. s[k] \in Seq(X)
    OBVIOUS
  <2>4. f[k] = f[k - 1] \o s[k]
    BY <1>1
  <2>5. Len(f[k]) = Len(f[k - 1]) + Len(s[k])
    <3> DEFINE a == f[k - 1]  b == s[k]
    <3>1. a \in Seq(X) /\ b \in Seq(X) /\ f[k] = a \o b
      BY <2>2, <2>3, <2>4
    <3> HIDE DEF a, b
    <3>2. Len(f[k]) = Len(a) + Len(b)
      BY <3>1, ConcatLength
    <3> QED BY <3>2 DEF a, b
  <2> QED BY <2>1, <2>5
<1>5. l[Len(s)] = Len(FlattenSeq(s))
  <2>1. Len(s) \in Nat /\ Len(s) \in 0..Len(s) /\ SubSeq(s, 1, Len(s)) = s
    BY WholeSeq
  <2>2. FlattenSeq(s) = f[Len(s)]
    BY <1>1, <2>1
  <2> QED BY <2>1, <2>2
<1> HIDE DEF l
<1> QED BY <1>2, <1>3, <1>4, <1>5

\* The length a sequence of sequences flattens to depends on their lengths
\* alone; when each has one member more it grows by their number.
LEMMA FlattenSameLength ==
  ASSUME NEW X, NEW s \in Seq(Seq(X)), NEW Y, NEW t \in Seq(Seq(Y)), Len(t) = Len(s),
         \A i \in 1..Len(s) : Len(t[i]) = Len(s[i])
  PROVE  Len(FlattenSeq(t)) = Len(FlattenSeq(s))
<1>1. PICK l \in [Nat -> Nat] :
            /\ l[0] = 0
            /\ \A k \in 1..Len(s) : l[k] = l[k - 1] + Len(s[k])
            /\ l[Len(s)] = Len(FlattenSeq(s))
  BY FlattenLengths
<1>2. PICK m \in [Nat -> Nat] :
            /\ m[0] = 0
            /\ \A k \in 1..Len(t) : m[k] = m[k - 1] + Len(t[k])
            /\ m[Len(t)] = Len(FlattenSeq(t))
  BY FlattenLengths
<1> DEFINE A == {k \in Nat : k <= Len(s) => m[k] = l[k]}
<1>3. 0 \in A
  BY <1>1, <1>2
<1>4. ASSUME NEW k \in Nat, k \in A PROVE k + 1 \in A
  <2>1. ASSUME k + 1 <= Len(s) PROVE m[k + 1] = l[k + 1]
    <3>1. k + 1 \in 1..Len(s) /\ (k + 1) - 1 = k
      BY <2>1
    <3>2. m[k] = l[k]
      BY <1>4, <3>1
    <3>3. l[k + 1] = l[k] + Len(s[k + 1]) /\ m[k + 1] = m[k] + Len(t[k + 1])
      BY <1>1, <1>2, <3>1
    <3> QED BY <3>1, <3>2, <3>3
  <2> QED BY <2>1
<1> HIDE DEF A
<1>5. Nat \subseteq A
  BY <1>3, <1>4, NatSetInduction
<1>6. Len(s) \in Nat
  OBVIOUS
<1>7. m[Len(s)] = l[Len(s)]
  BY <1>5, <1>6 DEF A
<1> QED BY <1>1, <1>2, <1>7

\* One more member in each makes the flattened sequence longer by their number.
LEMMA FlattenLonger ==
  ASSUME NEW X, NEW s \in Seq(Seq(X)), NEW Y, NEW t \in Seq(Seq(Y)), Len(t) = Len(s),
         \A i \in 1..Len(s) : Len(t[i]) = Len(s[i]) + 1
  PROVE  Len(FlattenSeq(t)) = Len(FlattenSeq(s)) + Len(s)
<1>1. PICK l \in [Nat -> Nat] :
            /\ l[0] = 0
            /\ \A k \in 1..Len(s) : l[k] = l[k - 1] + Len(s[k])
            /\ l[Len(s)] = Len(FlattenSeq(s))
  BY FlattenLengths
<1>2. PICK m \in [Nat -> Nat] :
            /\ m[0] = 0
            /\ \A k \in 1..Len(t) : m[k] = m[k - 1] + Len(t[k])
            /\ m[Len(t)] = Len(FlattenSeq(t))
  BY FlattenLengths
<1> DEFINE A == {k \in Nat : k <= Len(s) => m[k] = l[k] + k}
<1>3. 0 \in A
  BY <1>1, <1>2
<1>4. ASSUME NEW k \in Nat, k \in A PROVE k + 1 \in A
  <2>1. ASSUME k + 1 <= Len(s) PROVE m[k + 1] = l[k + 1] + (k + 1)
    <3>1. k + 1 \in 1..Len(s) /\ (k + 1) - 1 = k
      BY <2>1
    <3>2. m[k] = l[k] + k
      BY <1>4, <3>1
    <3>3. l[k + 1] = l[k] + Len(s[k + 1]) /\ m[k + 1] = m[k] + Len(t[k + 1])
      BY <1>1, <1>2, <3>1
    <3>4. Len(t[k + 1]) = Len(s[k + 1]) + 1 /\ Len(s[k + 1]) \in Nat
      BY <3>1
    <3>5. l[k] \in Nat
      OBVIOUS
    <3>6. m[k + 1] = (l[k] + k) + (Len(s[k + 1]) + 1)
      BY <3>2, <3>3, <3>4
    <3>7. \A a, b \in Nat : (a + k) + (b + 1) = (a + b) + (k + 1)
      OBVIOUS
    <3> QED BY <3>3, <3>4, <3>5, <3>6, <3>7
  <2> QED BY <2>1
<1> HIDE DEF A
<1>5. Nat \subseteq A
  BY <1>3, <1>4, NatSetInduction
<1>6. Len(s) \in Nat
  OBVIOUS
<1>7. m[Len(s)] = l[Len(s)] + Len(s)
  BY <1>5, <1>6 DEF A
<1> QED BY <1>1, <1>2, <1>7

-----------------------------------------------------------------------------
(* Parts of sequences, numbers and functions that are iterated. *)

\* The first n members of a sequence.
LEMMA BeginningOf ==
  ASSUME NEW S, NEW s \in Seq(S), NEW n \in 0..Len(s)
  PROVE  SubSeq(s, 1, n) \in Seq(S) /\ Len(SubSeq(s, 1, n)) = n /\ \A k \in 1..n : SubSeq(s, 1, n)[k] = s[k]
OBVIOUS

\* A part of a sequence, which may be empty.
LEMMA PartOf ==
  ASSUME NEW X, NEW s \in Seq(X), NEW a \in Nat \ {0}, NEW b \in Nat, b <= Len(s)
  PROVE  /\ SubSeq(s, a, b) \in Seq(X)
         /\ Len(SubSeq(s, a, b)) = IF a <= b THEN b - a + 1 ELSE 0
         /\ \A i \in 1..Len(SubSeq(s, a, b)) : SubSeq(s, a, b)[i] = s[a + i - 1]
OBVIOUS

\* A part of a sequence that is in it.
LEMMA MiddleOf ==
  ASSUME NEW X, NEW s \in Seq(X), NEW k \in Nat, NEW m \in Nat, k + m <= Len(s)
  PROVE  /\ SubSeq(s, k + 1, k + m) \in Seq(X) /\ Len(SubSeq(s, k + 1, k + m)) = m
         /\ \A i \in 1..m : SubSeq(s, k + 1, k + m)[i] = s[k + i]
<1> DEFINE a == k + 1
           b == k + m
           p == SubSeq(s, a, b)
<1>1. a \in Nat \ {0} /\ b \in Nat /\ b <= Len(s)
      /\ (a <= b => b - a + 1 = m) /\ (~(a <= b) => m = 0)
  OBVIOUS
<1>2. \A i \in 1..m : a + i - 1 = k + i
  OBVIOUS
<1> HIDE DEF a, b
<1>3. p \in Seq(X) /\ Len(p) = IF a <= b THEN b - a + 1 ELSE 0
  BY <1>1, PartOf
<1>4. Len(p) = m
  BY <1>1, <1>3
<1>5. \A i \in 1..Len(p) : p[i] = s[a + i - 1]
  BY <1>1, PartOf
<1> HIDE DEF p
<1>6. ASSUME NEW i \in 1..m PROVE p[i] = s[k + i]
  BY <1>2, <1>4, <1>5
<1> QED BY <1>3, <1>4, <1>6 DEF p, a, b

\* The rest of it.
LEMMA RestOf ==
  ASSUME NEW X, NEW s \in Seq(X), NEW k \in Nat, k <= Len(s)
  PROVE  /\ SubSeq(s, k + 1, Len(s)) \in Seq(X) /\ Len(SubSeq(s, k + 1, Len(s))) = Len(s) - k
         /\ \A i \in 1..(Len(s) - k) : SubSeq(s, k + 1, Len(s))[i] = s[k + i]
<1> DEFINE m == Len(s) - k
<1>1. m \in Nat /\ k + m = Len(s)
  OBVIOUS
<1> HIDE DEF m
<1>2. k + m <= Len(s)
  BY <1>1
<1>3. /\ SubSeq(s, k + 1, k + m) \in Seq(X) /\ Len(SubSeq(s, k + 1, k + m)) = m
      /\ \A i \in 1..m : SubSeq(s, k + 1, k + m)[i] = s[k + i]
  BY <1>1, <1>2, MiddleOf
<1> QED BY <1>1, <1>3 DEF m

\* Sequences are equal when they are so byte by byte.
LEMMA EqualIs ==
  ASSUME NEW X, NEW s \in Seq(X), NEW t \in Seq(X), Len(s) = Len(t),
         \A i \in 1..Len(s) : s[i] = t[i]
  PROVE  s = t
OBVIOUS

\* A sequence is a beginning of another when it is so byte by byte.
LEMMA PrefixIs ==
  ASSUME NEW X, NEW s \in Seq(X), NEW t \in Seq(X), Len(s) <= Len(t),
         \A i \in 1..Len(s) : s[i] = t[i]
  PROVE  IsPrefix(s, t)
<1> DEFINE u == SubSeq(s, 1, Len(s))
           v == SubSeq(t, 1, Len(s))
<1>1. Len(s) \in 0..Len(s) /\ Len(s) \in 0..Len(t)
  OBVIOUS
<1>2. u \in Seq(X) /\ Len(u) = Len(s) /\ \A i \in 1..Len(s) : u[i] = s[i]
  BY <1>1, BeginningOf
<1>3. v \in Seq(X) /\ Len(v) = Len(s) /\ \A i \in 1..Len(s) : v[i] = t[i]
  BY <1>1, BeginningOf
<1>4. \A i \in 1..Len(u) : u[i] = v[i]
  BY <1>2, <1>3
<1>5. u = v
  <2> HIDE DEF u, v
  <2> QED BY <1>2, <1>3, <1>4, EqualIs
<1> QED BY <1>5 DEF IsPrefix

\* Two sequences that are put together.
LEMMA ConcatIs ==
  ASSUME NEW X, NEW a \in Seq(X), NEW b \in Seq(X)
  PROVE  /\ a \o b \in Seq(X) /\ Len(a \o b) = Len(a) + Len(b)
         /\ \A i \in 1..Len(a) : (a \o b)[i] = a[i]
         /\ \A i \in 1..Len(b) : (a \o b)[Len(a) + i] = b[i]
<1>1. \A i \in 1..Len(a) : (a \o b)[i] = a[i]
  BY ConcatFirst
<1>2. \A i \in 1..Len(b) : (a \o b)[Len(a) + i] = b[i]
  BY ConcatSecond
<1> QED BY <1>1, <1>2

\* A set of natural numbers that is not empty has a least one.
LEMMA LeastOf ==
  ASSUME NEW S, S \subseteq Nat, S # {}
  PROVE  \E p \in S : \A q \in S : p <= q
<1> DEFINE R == OpToRel(<, Nat)
<1>1. IsWellFoundedOn(R, Nat)
  BY NatLessThanWellFounded
<1>2. \A x, y \in Nat : <<x, y>> \in R <=> x < y
  BY DEF OpToRel
<1> HIDE DEF R
<1>3. PICK p \in S : \A q \in S : <<q, p>> \notin R
  BY <1>1, WFMin, Zenon
<1>4. ASSUME NEW q \in S PROVE p <= q
  <2>1. p \in Nat /\ q \in Nat /\ ~(q < p)
    BY <1>2, <1>3
  <2> QED BY <2>1
<1> QED BY <1>3, <1>4

\* As many of d as fit in m.
LEMMA AtMostQuotient ==
  ASSUME NEW k \in Nat, NEW d \in Nat \ {0}, NEW m \in Nat, k * d <= m
  PROVE  m \div d \in Nat /\ k <= m \div d
<1> DEFINE q == m \div d
<1>1. q \in Nat /\ m < q * d + d
  <2>1. m = d * (m \div d) + (m % d) /\ m % d \in 0..(d - 1) /\ m \div d \in Int
    OBVIOUS
  <2> DEFINE r == m % d
  <2>2. m = d * q + r /\ r \in 0..(d - 1) /\ q \in Int
    BY <2>1
  <2>3. q \in Nat
    OBVIOUS
  <2>4. d * q = q * d /\ q * d \in Int
    BY <2>2
  <2> HIDE DEF q, r
  <2> QED BY <2>2, <2>3, <2>4
<1> HIDE DEF q
<1>2. SUFFICES ASSUME ~(k <= q) PROVE FALSE
  BY <1>1 DEF q
<1> DEFINE e == k - q - 1
<1>3. e \in Nat /\ k = q + 1 + e
  BY <1>1, <1>2
<1> HIDE DEF e
<1>4. k * d = q * d + d + e * d
  BY <1>1, <1>3
<1>5. e * d \in Nat /\ q * d \in Nat /\ k * d \in Nat
  BY <1>1, <1>3
<1> QED BY <1>1, <1>4, <1>5

\* What is left of a number of whole blocks and a part of one.
LEMMA RemainderIs ==
  ASSUME NEW q \in Nat, NEW d \in Nat \ {0}, NEW r \in 0..(d - 1)
  PROVE  (q * d + r) % d = r
<1> DEFINE a == q * d + r
           p == a \div d
           x == a % d
<1>1. a \in Nat
  <2>1. q * d \in Nat
    OBVIOUS
  <2> DEFINE y == q * d
  <2>2. y \in Nat
    BY <2>1
  <2> HIDE DEF y
  <2>3. y + r \in Nat
    BY <2>2
  <2> QED BY <2>3 DEF y
<1>2. p \in Int /\ x \in 0..(d - 1) /\ a = d * p + x
  <2> HIDE DEF a
  <2> QED BY <1>1
<1> HIDE DEF p, x
<1>3. d * (q - p) = x - r
  <2>1. d * (q - p) = q * d - d * p
    BY <1>2
  <2> DEFINE y == q * d
             z == d * p
  <2>2. y \in Int /\ z \in Int /\ y + r = z + x
    BY <1>2
  <2>3. d * (q - p) = y - z
    BY <2>1
  <2> HIDE DEF y, z
  <2> QED BY <1>2, <2>2, <2>3
<1>4. x - r < d /\ r - x < d
  BY <1>2
<1> DEFINE k == q - p
<1>5. k \in Int /\ d * k = x - r
  BY <1>2, <1>3
<1> HIDE DEF k
<1>6. k = 0
  <2>1. SUFFICES ASSUME k # 0 PROVE FALSE
    OBVIOUS
  <2>2. CASE k >= 1
    <3>1. d * k = d + d * (k - 1) /\ d * (k - 1) >= 0 /\ d * (k - 1) \in Int
      BY <1>5, <2>2
    <3>2. d * k >= d
      <4> DEFINE y == d * (k - 1)
      <4>1. y \in Int /\ y >= 0 /\ d * k = d + y
        BY <3>1
      <4> HIDE DEF y
      <4> QED BY <4>1
    <3> QED BY <1>2, <1>4, <1>5, <3>2
  <2>3. CASE k <= -1
    <3> DEFINE j == 0 - k - 1
    <3>1. j \in Nat /\ k = 0 - 1 - j
      BY <1>5, <2>3
    <3> HIDE DEF j
    <3>2. d * k = 0 - d - d * j /\ d * j \in Nat
      BY <3>1
    <3>3. d * k <= 0 - d
      <4> DEFINE y == d * j
      <4>1. y \in Nat /\ d * k = 0 - d - y
        BY <3>2
      <4> HIDE DEF y
      <4> QED BY <4>1
    <3> QED BY <1>2, <1>4, <1>5, <3>3
  <2> QED BY <1>5, <2>1, <2>2, <2>3
<1>7. x = r
  <2>1. d * k = 0
    BY <1>6
  <2> QED BY <1>2, <1>5, <2>1
<1> QED BY <1>7 DEF x

\* The values of a function that is iterated from base.
Iterates(f, V, base, step) ==
    f \in [Nat -> V] /\ f[0] = base /\ \A k \in Nat : f[k + 1] = step[f[k]]

\* They exist.
LEMMA Iteration ==
  ASSUME NEW V, NEW base \in V, NEW step \in [V -> V]
  PROVE  \E f : Iterates(f, V, base, step)
<1> DEFINE Step == [k \in Nat |-> step]
<1>1. Steps(V, Step)
  BY DEF Steps
<1>2. \A n \in Nat : Step[n + 1] = step
  OBVIOUS
<1> HIDE DEF Step
<1>3. PICK f : Unfolds(f, V, base, Step)
  BY <1>1, Recursion
<1>4. f \in [Nat -> V] /\ f[0] = base /\ \A n \in Nat : f[n + 1] = step[f[n]]
  BY <1>2, <1>3 DEF Unfolds
<1> QED BY <1>4 DEF Iterates

\* A place behind e, carried to the h places in front of it.
LEMMA ShiftedPlace ==
  ASSUME NEW e \in Nat, NEW r \in Nat, NEW h \in Nat, NEW p \in Nat, p + e = r + h,
         NEW i \in (e + 1)..r
  PROVE  (i - e) + h \in 1..p
  OBVIOUS
=============================================================================
