--------------------------- MODULE RuleStoreProofs ---------------------------
(***************************************************************************)
(* What holds of the rules and the configuration however the EEPROM is     *)
(* divided, whatever the lines are and however long the lists become.      *)
(***************************************************************************)
EXTENDS RuleStore, SequenceLemmas

Memories == [0..(EepromSize - 1) -> Byte]

\* What is known of the division.
Division ==
    /\ EE_CONF_POS \in Nat /\ EepromSize \in Nat /\ MaxRules \in 0..250
    /\ 0 < EE_CONF_POS /\ EE_CONF_POS < EepromSize

\* What the assumption on Stores says of the one there is.
LEMMA StoreIsDivision == store \in Stores => Division
<1> SUFFICES ASSUME store \in Stores PROVE Division
  OBVIOUS
<1>1. /\ {store.conf, store.size, store.rules} \subseteq Nat
      /\ 0 < store.conf /\ store.conf < store.size /\ store.rules <= 250
  BY StoreAssumption
<1>2. store.conf \in Nat /\ store.size \in Nat /\ store.rules \in Nat
  BY <1>1, Zenon
<1>3. store.rules \in 0..250
  BY <1>1, <1>2
<1> QED BY <1>1, <1>2, <1>3 DEF Division, EE_CONF_POS, EepromSize, MaxRules

-----------------------------------------------------------------------------
(* Reading and writing bytes. *)

\* A byte that is read is one, wherever it is read from.
LEMMA RdType ==
    ASSUME NEW m \in Memories, NEW a
    PROVE  Rd(m, a) \in Byte /\ Rd(m, a) \in Nat
<1>1. Byte \subseteq Nat /\ 0 \in Byte
  BY DEF Byte
<1>2. a \in DOMAIN m => m[a] \in Byte
  BY DEF Memories
<1>3. Rd(m, a) \in Byte
  BY <1>1, <1>2 DEF Rd
<1> QED BY <1>1, <1>3

\* Where a write does not reach, and where it does.
LEMMA PutIs ==
    ASSUME EepromSize \in Nat, NEW m \in Memories, NEW a \in Nat, NEW s \in Seq(Byte)
    PROVE  /\ Put(m, a, s) \in Memories
           /\ \A x \in Nat : x < a \/ a + Len(s) <= x => Rd(Put(m, a, s), x) = Rd(m, x)
           /\ \A i \in 1..Len(s) : a + i <= EepromSize => Rd(Put(m, a, s), a + i - 1) = s[i]
<1> DEFINE p == Put(m, a, s)
<1>1. DOMAIN m = 0..(EepromSize - 1)
  BY DEF Memories
<1>2. p = [x \in 0..(EepromSize - 1) |->
              IF x - a + 1 \in 1..Len(s) THEN s[x - a + 1] ELSE m[x]]
  BY <1>1 DEF Put
<1> HIDE DEF p
<1>3. p \in Memories
  <2>1. ASSUME NEW x \in 0..(EepromSize - 1)
        PROVE  (IF x - a + 1 \in 1..Len(s) THEN s[x - a + 1] ELSE m[x]) \in Byte
    <3>1. m[x] \in Byte
      BY DEF Memories
    <3>2. \A i \in 1..Len(s) : s[i] \in Byte
      OBVIOUS
    <3> QED BY <3>1, <3>2
  <2> QED BY <1>2, <2>1 DEF Memories
<1>4. ASSUME NEW x \in Nat, x < a \/ a + Len(s) <= x PROVE Rd(p, x) = Rd(m, x)
  <2>1. ~(x - a + 1 \in 1..Len(s))
    BY <1>4
  <2> QED BY <1>1, <1>2, <2>1 DEF Rd
<1>5. ASSUME NEW i \in 1..Len(s), a + i <= EepromSize PROVE Rd(p, a + i - 1) = s[i]
  <2>1. a + i - 1 \in 0..(EepromSize - 1) /\ (a + i - 1) - a + 1 = i
    BY <1>5
  <2> QED BY <1>2, <2>1 DEF Rd
<1> QED BY <1>3, <1>4, <1>5 DEF p

\* What is read from a to b.
LEMMA SliceIs ==
    ASSUME NEW m \in Memories, NEW a \in Nat, NEW b \in Nat
    PROVE  /\ Slice(m, a, b) \in Seq(Byte)
           /\ a <= b => Len(Slice(m, a, b)) = b - a
           /\ b <= a => Len(Slice(m, a, b)) = 0
           /\ \A i \in 1..Len(Slice(m, a, b)) : Slice(m, a, b)[i] = Rd(m, a + i - 1)
<1> DEFINE n == IF b > a THEN b - a ELSE 0
<1>1. n \in Nat /\ (a <= b => n = b - a) /\ (b <= a => n = 0)
  OBVIOUS
<1> HIDE DEF n
<1>2. ASSUME NEW i \in 1..n PROVE Rd(m, a + i - 1) \in Byte
  BY RdType
<1> DEFINE s == [i \in 1..n |-> Rd(m, a + i - 1)]
<1>3. s \in Seq(Byte) /\ Len(s) = n /\ \A i \in 1..n : s[i] = Rd(m, a + i - 1)
  BY <1>1, <1>2
<1>4. Slice(m, a, b) = s
  BY DEF Slice, n
<1> HIDE DEF s
<1> QED BY <1>1, <1>3, <1>4

\* A count as it is written.
LEMMA CountType ==
    ASSUME NEW n \in Int
    PROVE  <<n % 256>> \in Seq(Byte) /\ Len(<<n % 256>>) = 1 /\ <<n % 256>>[1] = n % 256
           /\ n % 256 \in Byte /\ (n \in Byte => n % 256 = n)
BY DEF Byte

\* A count changes its own byte only.
LEMMA SetCountIs ==
    ASSUME EepromSize \in Nat, NEW m \in Memories, NEW base \in Nat, NEW n \in Int
    PROVE  /\ SetCount(m, base, n) \in Memories
           /\ \A x \in Nat : x # base => Rd(SetCount(m, base, n), x) = Rd(m, x)
           /\ base < EepromSize => Rd(SetCount(m, base, n), base) = n % 256
<1> DEFINE s == <<n % 256>>
<1>1. s \in Seq(Byte) /\ Len(s) = 1 /\ s[1] = n % 256
  BY CountType
<1>2. SetCount(m, base, n) = Put(m, base, s)
  BY DEF SetCount
<1> HIDE DEF s
<1>3. Put(m, base, s) \in Memories
  BY <1>1, PutIs
<1>4. \A x \in Nat : x < base \/ base + Len(s) <= x => Rd(Put(m, base, s), x) = Rd(m, x)
  BY <1>1, PutIs
<1>5. \A i \in 1..Len(s) : base + i <= EepromSize => Rd(Put(m, base, s), base + i - 1) = s[i]
  BY <1>1, PutIs
<1>6. base < EepromSize => Rd(Put(m, base, s), base) = n % 256
  BY <1>1, <1>5
<1> QED BY <1>1, <1>2, <1>3, <1>4, <1>6

\* The count is read as it was written, but for what does not fit a byte.
LEMMA CountIsSet ==
    ASSUME EepromSize \in Nat, NEW m \in Memories, NEW base \in Nat, base < EepromSize,
           NEW n \in Int, NEW v, n % 256 = v
    PROVE  Rd(SetCount(m, base, n), base) = v
BY SetCountIs

\* A line is stored as its length and then its characters.
LEMMA RecordIs ==
    ASSUME NEW r \in Seq(Byte), Len(r) \in Byte
    PROVE  /\ Record(r) \in Seq(Byte) /\ Len(Record(r)) = Len(r) + 1
           /\ Record(r)[1] = Len(r) /\ \A i \in 1..Len(r) : Record(r)[1 + i] = r[i]
<1>1. /\ <<Len(r)>> \o r \in Seq(Byte) /\ Len(<<Len(r)>> \o r) = Len(r) + 1
      /\ \A q \in 1..Len(r) : (<<Len(r)>> \o r)[1 + q] = r[q]
  BY ConsPlaces
<1>2. (<<Len(r)>> \o r)[1] = Len(r)
  OBVIOUS
<1> QED BY <1>1, <1>2 DEF Record

-----------------------------------------------------------------------------
(* The addresses of the lines. *)

\* The walk of Pos is from line to line.
WalkOf(m, walk) ==
    \A a \in Nat :
        /\ walk[0][a] = a
        /\ \A k \in Nat : walk[k + 1][a] =
              IF a \notin DOMAIN m THEN a + (k + 1) ELSE walk[k][a + m[a] + 1]

\* The next line's address is one.
LEMMA NextLine ==
    ASSUME NEW m \in Memories, NEW a \in Nat
    PROVE  a + Rd(m, a) + 1 \in Nat /\ (a \in DOMAIN m => a + m[a] + 1 \in Nat)
<1>1. Rd(m, a) \in Nat
  BY RdType
<1>2. a + Rd(m, a) + 1 \in Nat
  BY <1>1
<1>3. a \in DOMAIN m => Rd(m, a) = m[a]
  BY DEF Rd
<1> QED BY <1>2, <1>3

\* The walk from line to line is a recursive function, and one that exists.
LEMMA WalkExists ==
    ASSUME NEW m \in Memories
    PROVE  \E walk :
              /\ walk = [k \in Nat |-> [a \in Nat |->
                           IF k = 0 \/ a \notin DOMAIN m THEN a + k
                           ELSE walk[k - 1][a + m[a] + 1]]]
<1> DEFINE V == [Nat -> Nat]
           base == [a \in Nat |-> a]
           Step == [k \in Nat |-> [v \in V |->
                      [a \in Nat |-> IF a \notin DOMAIN m THEN a + k ELSE v[a + m[a] + 1]]]]
<1>1. base \in V /\ Steps(V, Step)
  <2>1. ASSUME NEW k \in Nat, NEW v \in V, NEW a \in Nat
        PROVE  (IF a \notin DOMAIN m THEN a + k ELSE v[a + m[a] + 1]) \in Nat
    BY NextLine
  <2>2. Step \in [Nat -> [V -> V]]
    BY <2>1
  <2> QED BY <2>2 DEF Steps
<1>2. \A k \in Nat, v \in V :
         Step[k][v] = [a \in Nat |-> IF a \notin DOMAIN m THEN a + k ELSE v[a + m[a] + 1]]
  OBVIOUS
<1> HIDE DEF Step
<1>3. PICK f : Unfolds(f, V, base, Step)
  <2> HIDE DEF V, base
  <2> QED BY <1>1, Recursion
<1>4. f \in [Nat -> V] /\ f[0] = base /\ \A n \in Nat : f[n + 1] = Step[n + 1][f[n]]
  BY <1>3 DEF Unfolds
<1>5. ASSUME NEW k \in Nat
      PROVE  f[k] = [a \in Nat |-> IF k = 0 \/ a \notin DOMAIN m THEN a + k
                                  ELSE f[k - 1][a + m[a] + 1]]
  <2>1. CASE k = 0
    <3>1. \A a \in Nat : a + 0 = a
      OBVIOUS
    <3>2. [a \in Nat |-> IF k = 0 \/ a \notin DOMAIN m THEN a + k
                        ELSE f[k - 1][a + m[a] + 1]] = [a \in Nat |-> a]
      BY <2>1, <3>1
    <3> QED BY <1>4, <2>1, <3>2
  <2>2. CASE k # 0
    <3>1. k - 1 \in Nat /\ (k - 1) + 1 = k
      BY <2>2
    <3> DEFINE j == k - 1
    <3>2. j \in Nat /\ j + 1 = k /\ f[j] \in V
      BY <1>4, <3>1
    <3> HIDE DEF j, V
    <3>3. f[k] = Step[k][f[j]]
      BY <1>4, <3>2
    <3>4. Step[k][f[j]] = [a \in Nat |-> IF a \notin DOMAIN m THEN a + k ELSE f[j][a + m[a] + 1]]
      BY <1>2, <3>2
    <3>5. f[k] = [a \in Nat |-> IF k = 0 \/ a \notin DOMAIN m THEN a + k
                               ELSE f[j][a + m[a] + 1]]
      BY <2>2, <3>3, <3>4
    <3> QED BY <3>5 DEF j
  <2> QED BY <2>1, <2>2
<1>6. f = [k \in Nat |-> f[k]]
  BY <1>4
<1>7. f = [k \in Nat |-> [a \in Nat |-> IF k = 0 \/ a \notin DOMAIN m THEN a + k
                                       ELSE f[k - 1][a + m[a] + 1]]]
  BY <1>5, <1>6, Zenon
<1> QED BY <1>7

\* Pos is that walk.
LEMMA WalkIs ==
    ASSUME NEW m \in Memories
    PROVE  \E walk :
              /\ \A base, n : Pos(m, base, n) = walk[n][base + 1]
              /\ WalkOf(m, walk)
<1> DEFINE walk[k \in Nat] ==
              [a \in Nat |-> IF k = 0 \/ a \notin DOMAIN m THEN a + k
                            ELSE walk[k - 1][a + m[a] + 1]]
<1>1. walk = [k \in Nat |-> [a \in Nat |-> IF k = 0 \/ a \notin DOMAIN m THEN a + k
                                          ELSE walk[k - 1][a + m[a] + 1]]]
  BY WalkExists, Zenon
<1>2. \A base, n : Pos(m, base, n) = walk[n][base + 1]
  BY DEF Pos
<1> HIDE DEF walk
<1>3. ASSUME NEW k \in Nat, NEW a \in Nat
      PROVE  walk[k][a] = IF k = 0 \/ a \notin DOMAIN m THEN a + k
                          ELSE walk[k - 1][a + m[a] + 1]
  <2>1. walk[k] = [b \in Nat |-> IF k = 0 \/ b \notin DOMAIN m THEN b + k
                                ELSE walk[k - 1][b + m[b] + 1]]
    BY <1>1, Zenon
  <2> QED BY <2>1, Zenon
<1>4. WalkOf(m, walk)
  <2>1. ASSUME NEW a \in Nat PROVE walk[0][a] = a
    <3>1. walk[0][a] = a + 0
      BY <1>3
    <3> QED BY <3>1
  <2>2. ASSUME NEW a \in Nat, NEW k \in Nat
        PROVE  walk[k + 1][a] =
                 IF a \notin DOMAIN m THEN a + (k + 1) ELSE walk[k][a + m[a] + 1]
    <3>1. k + 1 \in Nat /\ k + 1 # 0 /\ (k + 1) - 1 = k
      OBVIOUS
    <3>2. walk[k + 1][a] = IF k + 1 = 0 \/ a \notin DOMAIN m THEN a + (k + 1)
                           ELSE walk[(k + 1) - 1][a + m[a] + 1]
      BY <1>3, <3>1
    <3> QED BY <3>1, <3>2
  <2> QED BY <2>1, <2>2 DEF WalkOf
<1> QED BY <1>2, <1>4

\* Each line is behind the one before.
LEMMA PosIs ==
    ASSUME NEW m \in Memories, NEW base \in Nat, EepromSize \in Nat
    PROVE  /\ Pos(m, base, 0) = base + 1
           /\ \A n \in Nat : /\ Pos(m, base, n) \in Nat
                            /\ Pos(m, base, n + 1) =
                                  Pos(m, base, n) + Rd(m, Pos(m, base, n)) + 1
<1>1. PICK walk :
         /\ \A b, n : Pos(m, b, n) = walk[n][b + 1]
         /\ WalkOf(m, walk)
  BY WalkIs
<1> DEFINE A == {k \in Nat : \A a \in Nat :
                    /\ walk[k][a] \in Nat
                    /\ walk[k + 1][a] = walk[k][a] + Rd(m, walk[k][a]) + 1
                    /\ a \notin DOMAIN m => walk[k][a] = a + k}
<1>2. 0 \in A
  <2>1. ASSUME NEW a \in Nat
        PROVE  /\ walk[0][a] \in Nat /\ walk[0 + 1][a] = walk[0][a] + Rd(m, walk[0][a]) + 1
               /\ walk[0][a] = a + 0
    <3>1. /\ walk[0][a] = a
          /\ walk[0 + 1][a] = IF a \notin DOMAIN m THEN a + (0 + 1) ELSE walk[0][a + m[a] + 1]
      BY <1>1 DEF WalkOf
    <3>2. CASE a \notin DOMAIN m
      <4>1. Rd(m, a) = 0
        BY <3>2 DEF Rd
      <4> QED BY <3>1, <3>2, <4>1
    <3>3. CASE a \in DOMAIN m
      <4>1. a + m[a] + 1 \in Nat /\ Rd(m, a) = m[a]
        BY <3>3, NextLine DEF Rd
      <4>2. walk[0][a + m[a] + 1] = a + m[a] + 1
        BY <1>1, <4>1 DEF WalkOf
      <4> QED BY <3>1, <3>3, <4>1, <4>2
    <3> QED BY <3>2, <3>3
  <2> QED BY <2>1
<1>3. ASSUME NEW k \in Nat, k \in A PROVE k + 1 \in A
  <2>1. ASSUME NEW a \in Nat
        PROVE  /\ walk[k + 1][a] \in Nat
               /\ walk[(k + 1) + 1][a] = walk[k + 1][a] + Rd(m, walk[k + 1][a]) + 1
               /\ a \notin DOMAIN m => walk[k + 1][a] = a + (k + 1)
    <3>1. k + 1 \in Nat
      OBVIOUS
    <3>2. /\ walk[k + 1][a] = IF a \notin DOMAIN m THEN a + (k + 1) ELSE walk[k][a + m[a] + 1]
          /\ walk[(k + 1) + 1][a] =
                IF a \notin DOMAIN m THEN a + ((k + 1) + 1) ELSE walk[k + 1][a + m[a] + 1]
      BY <1>1, <3>1 DEF WalkOf
    <3>3. CASE a \notin DOMAIN m
      <4>1. a + (k + 1) \in Nat /\ a + (k + 1) >= a
        OBVIOUS
      <4>2. a + (k + 1) \notin DOMAIN m
        BY <3>3, <4>1 DEF Memories
      <4>3. Rd(m, a + (k + 1)) = 0
        BY <4>2 DEF Rd
      <4> QED BY <3>2, <3>3, <4>1, <4>3
    <3>4. CASE a \in DOMAIN m
      <4> DEFINE b == a + m[a] + 1
      <4>1. b \in Nat
        BY <3>4, NextLine
      <4> HIDE DEF b
      <4>2. walk[k][b] \in Nat /\ walk[k + 1][b] = walk[k][b] + Rd(m, walk[k][b]) + 1
        BY <1>3, <4>1
      <4>3. walk[k + 1][a] = walk[k][b] /\ walk[(k + 1) + 1][a] = walk[k + 1][b]
        BY <3>2, <3>4 DEF b
      <4> QED BY <3>4, <4>2, <4>3
    <3> QED BY <3>3, <3>4
  <2> QED BY <2>1
<1> HIDE DEF A
<1>4. Nat \subseteq A
  BY <1>2, <1>3, NatSetInduction
<1>5. base + 1 \in Nat
  OBVIOUS
<1>6. Pos(m, base, 0) = base + 1
  BY <1>1, <1>5 DEF WalkOf
<1>7. ASSUME NEW n \in Nat
      PROVE  /\ Pos(m, base, n) \in Nat
             /\ Pos(m, base, n + 1) = Pos(m, base, n) + Rd(m, Pos(m, base, n)) + 1
  <2>1. n \in A
    BY <1>4
  <2>2. /\ walk[n][base + 1] \in Nat
        /\ walk[n + 1][base + 1] = walk[n][base + 1] + Rd(m, walk[n][base + 1]) + 1
    BY <1>5, <2>1 DEF A
  <2> QED BY <1>1, <2>2
<1> QED BY <1>6, <1>7

\* Lines are at least a byte long, so later lines are behind earlier ones.
LEMMA PosRises ==
    ASSUME EepromSize \in Nat, NEW m \in Memories, NEW base \in Nat,
           NEW n \in Nat, NEW k \in Nat, n <= k
    PROVE  /\ Pos(m, base, n) \in Nat /\ Pos(m, base, k) \in Nat
           /\ Pos(m, base, n) + (k - n) <= Pos(m, base, k)
           /\ base + 1 + n <= Pos(m, base, n)
<1> DEFINE A(i) == {j \in Nat : Pos(m, base, i) + j <= Pos(m, base, i + j)}
<1>1. ASSUME NEW i \in Nat, NEW j \in Nat PROVE j \in A(i)
  <2>1. 0 \in A(i)
    <3>1. Pos(m, base, i) \in Nat /\ i + 0 = i
      BY PosIs
    <3> QED BY <3>1
  <2>2. ASSUME NEW l \in Nat, l \in A(i) PROVE l + 1 \in A(i)
    <3>1. i + l \in Nat /\ i + (l + 1) = (i + l) + 1
      OBVIOUS
    <3>2. /\ Pos(m, base, i + l) \in Nat /\ Pos(m, base, i) \in Nat
          /\ Pos(m, base, (i + l) + 1) = Pos(m, base, i + l) + Rd(m, Pos(m, base, i + l)) + 1
      BY <3>1, PosIs
    <3>3. Rd(m, Pos(m, base, i + l)) \in Nat
      BY RdType
    <3>4. Pos(m, base, i) + l <= Pos(m, base, i + l)
      BY <2>2
    <3> QED BY <3>1, <3>2, <3>3, <3>4
  <2> HIDE DEF A
  <2>3. Nat \subseteq A(i)
    BY <2>1, <2>2, NatSetInduction
  <2> QED BY <2>3
<1>2. Pos(m, base, n) \in Nat /\ Pos(m, base, k) \in Nat /\ Pos(m, base, 0) = base + 1
  BY PosIs
<1>3. Pos(m, base, n) + (k - n) <= Pos(m, base, k)
  <2>1. k - n \in Nat /\ n + (k - n) = k
    OBVIOUS
  <2>2. k - n \in A(n)
    BY <1>1, <2>1
  <2> QED BY <2>1, <2>2
<1>4. base + 1 + n <= Pos(m, base, n)
  <2>1. n \in A(0) /\ 0 + n = n
    BY <1>1
  <2>2. Pos(m, base, 0) + n <= Pos(m, base, 0 + n)
    BY <2>1
  <2> QED BY <1>2, <2>1, <2>2
<1> QED BY <1>2, <1>3, <1>4

\* The lines of a list are behind its count.
LEMMA PosAbove ==
    ASSUME EepromSize \in Nat, NEW m \in Memories, NEW base \in Nat, NEW n \in Nat
    PROVE  Pos(m, base, n) \in Nat /\ base + 1 + n <= Pos(m, base, n)
<1>1. n <= n
  OBVIOUS
<1> QED BY <1>1, PosRises

\* A list from line n on is a list of its own.
LEMMA PosAdds ==
    ASSUME EepromSize \in Nat, NEW m \in Memories, NEW base \in Nat, NEW n \in Nat
    PROVE  /\ Pos(m, base, n) - 1 \in Nat
           /\ \A k \in Nat : Pos(m, base, n + k) = Pos(m, Pos(m, base, n) - 1, k)
<1>1. Pos(m, base, n) \in Nat /\ base + 1 + n <= Pos(m, base, n)
  BY PosRises
<1> DEFINE b == Pos(m, base, n) - 1
<1>2. b \in Nat /\ b + 1 = Pos(m, base, n)
  BY <1>1
<1> HIDE DEF b
<1> DEFINE A == {k \in Nat : Pos(m, base, n + k) = Pos(m, b, k)}
<1>3. 0 \in A
  <2>1. Pos(m, b, 0) = b + 1 /\ n + 0 = n
    BY <1>2, PosIs
  <2> QED BY <1>2, <2>1
<1>4. ASSUME NEW k \in Nat, k \in A PROVE k + 1 \in A
  <2>1. n + k \in Nat /\ n + (k + 1) = (n + k) + 1
    OBVIOUS
  <2>2. Pos(m, base, (n + k) + 1) = Pos(m, base, n + k) + Rd(m, Pos(m, base, n + k)) + 1
    BY <2>1, PosIs
  <2>3. Pos(m, b, k + 1) = Pos(m, b, k) + Rd(m, Pos(m, b, k)) + 1
    BY <1>2, PosIs
  <2>4. Pos(m, base, n + k) = Pos(m, b, k)
    BY <1>4
  <2> QED BY <2>1, <2>2, <2>3, <2>4
<1> HIDE DEF A
<1>5. Nat \subseteq A
  BY <1>3, <1>4, NatSetInduction
<1>6. \A k \in Nat : Pos(m, base, n + k) = Pos(m, b, k)
  BY <1>5 DEF A
<1> QED BY <1>2, <1>6 DEF b

\* A line is what its bytes are.
SameBytes(p, q, a, b) == \A x \in 0..Rd(p, a) : Rd(q, b + x) = Rd(p, a + x)

\* A line whose bytes are moved is the same line.
LEMMA LineMoved ==
    ASSUME NEW p \in Memories, NEW q \in Memories, NEW a \in Nat, NEW b \in Nat,
           SameBytes(p, q, a, b)
    PROVE  /\ Line(q, b) = Line(p, a) /\ Line(p, a) \in Seq(Byte)
           /\ Rd(q, b) = Rd(p, a) /\ Len(Line(p, a)) = Rd(p, a)
<1>1. Rd(p, a) \in Nat
  BY RdType
<1> DEFINE n == Rd(p, a)
<1>2. Rd(q, b) = n
  <2>1. 0 \in 0..n /\ a + 0 = a /\ b + 0 = b
    BY <1>1
  <2>2. Rd(q, b + 0) = Rd(p, a + 0)
    BY <2>1 DEF SameBytes
  <2> QED BY <2>1, <2>2
<1>3. \A x \in 0..n : Rd(q, b + x) = Rd(p, a + x)
  BY DEF SameBytes
<1>4. n \in Nat
  BY <1>1
<1> HIDE DEF n
<1> DEFINE s == Slice(p, a + 1, a + 1 + n)
           t == Slice(q, b + 1, b + 1 + n)
<1>5. /\ s \in Seq(Byte) /\ Len(s) = n
      /\ \A i \in 1..Len(s) : s[i] = Rd(p, (a + 1) + i - 1)
  <2>1. a + 1 \in Nat /\ a + 1 + n \in Nat /\ a + 1 <= a + 1 + n /\ (a + 1 + n) - (a + 1) = n
    BY <1>4
  <2> QED BY <2>1, SliceIs
<1>6. /\ t \in Seq(Byte) /\ Len(t) = n
      /\ \A i \in 1..Len(t) : t[i] = Rd(q, (b + 1) + i - 1)
  <2>1. b + 1 \in Nat /\ b + 1 + n \in Nat /\ b + 1 <= b + 1 + n /\ (b + 1 + n) - (b + 1) = n
    BY <1>4
  <2> QED BY <2>1, SliceIs
<1> HIDE DEF s, t
<1>7. ASSUME NEW i \in 1..n PROVE s[i] = t[i]
  <2>1. i \in 0..n /\ (a + 1) + i - 1 = a + i /\ (b + 1) + i - 1 = b + i
    BY <1>4
  <2> QED BY <1>3, <1>5, <1>6, <2>1
<1>8. s = t
  BY <1>5, <1>6, <1>7
<1>9. Line(p, a) = s /\ Line(q, b) = t
  BY <1>2 DEF Line, s, t, n
<1> QED BY <1>2, <1>5, <1>8, <1>9 DEF n

\* The K lines behind a in p are behind b in q.
Copied(p, q, a, b, K) ==
    \A x \in Nat : a + 1 + x < Pos(p, a, K) => Rd(q, b + 1 + x) = Rd(p, a + 1 + x)

\* A list of K lines that is copied keeps its lines.
LEMMA PosMoved ==
    ASSUME EepromSize \in Nat, NEW p \in Memories, NEW q \in Memories,
           NEW a \in Nat, NEW b \in Nat, NEW K \in Nat,
           Copied(p, q, a, b, K)
    PROVE  /\ \A k \in 0..K : Pos(q, b, k) = b + (Pos(p, a, k) - a)
           /\ \A k \in 0..(K - 1) : Line(q, Pos(q, b, k)) = Line(p, Pos(p, a, k))
<1> DEFINE A == {k \in Nat : k <= K => Pos(q, b, k) = b + (Pos(p, a, k) - a)}
<1>1. ASSUME NEW k \in 0..(K - 1), Pos(q, b, k) = b + (Pos(p, a, k) - a)
      PROVE  /\ Line(q, Pos(q, b, k)) = Line(p, Pos(p, a, k))
             /\ Rd(q, Pos(q, b, k)) = Rd(p, Pos(p, a, k))
  <2> DEFINE u == Pos(p, a, k)  v == Pos(q, b, k)  end == Pos(p, a, K)
  <2>1. k \in Nat /\ k + 1 \in Nat /\ k + 1 <= K /\ 0 <= k
    OBVIOUS
  <2>2. u \in Nat /\ v \in Nat /\ v = b + (u - a) /\ a + 1 <= u
    <3>1. a + 1 + k <= u
      BY <2>1, PosRises
    <3>2. u \in Nat /\ v \in Nat
      BY <2>1, PosIs
    <3> QED BY <1>1, <2>1, <3>1, <3>2
  <2>3. u + Rd(p, u) + 1 <= end /\ end \in Nat
    <3>1. Pos(p, a, k + 1) = u + Rd(p, u) + 1
      BY <2>1, PosIs
    <3>2. Pos(p, a, k + 1) \in Nat /\ end \in Nat /\ Pos(p, a, k + 1) + (K - (k + 1)) <= end
      BY <2>1, PosRises
    <3> QED BY <2>1, <3>1, <3>2
  <2>4. \A x \in Nat : a + 1 + x < end => Rd(q, b + 1 + x) = Rd(p, a + 1 + x)
    BY DEF Copied
  <2> HIDE DEF u, v, end
  <2>5. Rd(p, u) \in Nat
    BY RdType
  <2>6. ASSUME NEW x \in 0..Rd(p, u) PROVE Rd(q, v + x) = Rd(p, u + x)
    <3> DEFINE y == (u - (a + 1)) + x
    <3>1. y \in Nat /\ a + 1 + y = u + x /\ b + 1 + y = v + x /\ a + 1 + y < end
      BY <2>2, <2>3, <2>5
    <3> HIDE DEF y
    <3>2. Rd(q, b + 1 + y) = Rd(p, a + 1 + y)
      BY <2>4, <3>1
    <3> QED BY <3>1, <3>2
  <2>7. SameBytes(p, q, u, v)
    BY <2>6 DEF SameBytes
  <2>8. Line(q, v) = Line(p, u) /\ Rd(q, v) = Rd(p, u)
    BY <2>2, <2>7, LineMoved
  <2> QED BY <2>8 DEF u, v
<1>2. 0 \in A
  <2>1. Pos(p, a, 0) = a + 1 /\ Pos(q, b, 0) = b + 1
    BY PosIs
  <2> QED BY <2>1
<1>3. ASSUME NEW k \in Nat, k \in A PROVE k + 1 \in A
  <2>1. SUFFICES ASSUME k + 1 <= K PROVE Pos(q, b, k + 1) = b + (Pos(p, a, k + 1) - a)
    OBVIOUS
  <2>2. k \in 0..(K - 1) /\ k <= K
    BY <2>1
  <2>3. Pos(q, b, k) = b + (Pos(p, a, k) - a)
    BY <1>3, <2>2
  <2>4. Rd(q, Pos(q, b, k)) = Rd(p, Pos(p, a, k))
    BY <1>1, <2>2, <2>3
  <2>5. /\ Pos(p, a, k + 1) = Pos(p, a, k) + Rd(p, Pos(p, a, k)) + 1 /\ Pos(p, a, k) \in Nat
        /\ Pos(q, b, k + 1) = Pos(q, b, k) + Rd(q, Pos(q, b, k)) + 1 /\ Pos(q, b, k) \in Nat
    BY PosIs
  <2>6. Rd(p, Pos(p, a, k)) \in Nat
    BY RdType
  <2> QED BY <2>3, <2>4, <2>5, <2>6
<1> HIDE DEF A
<1>4. Nat \subseteq A
  BY <1>2, <1>3, NatSetInduction
<1>5. ASSUME NEW k \in 0..K PROVE Pos(q, b, k) = b + (Pos(p, a, k) - a)
  <2>1. k \in A /\ k <= K
    BY <1>4
  <2> QED BY <2>1 DEF A
<1>6. ASSUME NEW k \in 0..(K - 1) PROVE Line(q, Pos(q, b, k)) = Line(p, Pos(p, a, k))
  <2>1. k \in 0..K
    OBVIOUS
  <2> QED BY <1>1, <1>5, <2>1
<1> QED BY <1>5, <1>6

-----------------------------------------------------------------------------
(* The lists. *)

\* A line is as many bytes as its length says.
LEMMA LineType ==
    ASSUME NEW m \in Memories, NEW a \in Nat
    PROVE  Line(m, a) \in Seq(Byte) /\ Len(Line(m, a)) = Rd(m, a)
<1>1. SameBytes(m, m, a, a)
  BY DEF SameBytes
<1> QED BY <1>1, LineMoved

\* A list has as many lines as its count says, and each is at its address.
LEMMA ListIs ==
    ASSUME EepromSize \in Nat, NEW m \in Memories, NEW base \in Nat
    PROVE  /\ Count(m, base) \in Nat /\ Count(m, base) \in Byte
           /\ ListAt(m, base) \in Seq(Seq(Byte)) /\ Len(ListAt(m, base)) = Count(m, base)
           /\ \A i \in 1..Count(m, base) : ListAt(m, base)[i] = Line(m, Pos(m, base, i - 1))
<1>1. Count(m, base) \in Nat /\ Count(m, base) \in Byte
  BY RdType DEF Count
<1> DEFINE c == Count(m, base)
           s == [i \in 1..c |-> Line(m, Pos(m, base, i - 1))]
<1> HIDE DEF c
<1>2. ASSUME NEW i \in 1..c PROVE Line(m, Pos(m, base, i - 1)) \in Seq(Byte)
  <2>1. i - 1 \in Nat
    BY <1>1 DEF c
  <2>2. Pos(m, base, i - 1) \in Nat
    BY <2>1, PosIs
  <2> QED BY <2>2, LineType
<1>3. c \in Nat
  BY <1>1 DEF c
<1>4. s \in Seq(Seq(Byte)) /\ Len(s) = c /\ \A i \in 1..c : s[i] = Line(m, Pos(m, base, i - 1))
  BY <1>2, <1>3
<1>5. ListAt(m, base) = s
  BY DEF ListAt, c
<1> HIDE DEF s
<1> QED BY <1>1, <1>4, <1>5 DEF c

\* Lists of the same lines are the same.
LEMMA SameList ==
    ASSUME NEW X, NEW s \in Seq(X), NEW Y, NEW t \in Seq(Y), Len(s) = Len(t),
           \A i \in 1..Len(s) : s[i] = t[i]
    PROVE  s = t
OBVIOUS

\* Nothing but its own bytes matters to a list.
LEMMA ListKept ==
    ASSUME EepromSize \in Nat, NEW p \in Memories, NEW q \in Memories, NEW base \in Nat,
           \A x \in Nat : base <= x /\ x < End(p, base) => Rd(q, x) = Rd(p, x)
    PROVE  ListAt(q, base) = ListAt(p, base) /\ End(q, base) = End(p, base)
<1> DEFINE c == Count(p, base)
<1>1. c \in Nat
  BY ListIs
<1>2. End(p, base) = Pos(p, base, c)
  BY DEF End
<1> HIDE DEF c
<1>3. Pos(p, base, c) \in Nat /\ base + 1 + c <= Pos(p, base, c)
  BY <1>1, PosRises
<1>4. Count(q, base) = c
  <2>1. Rd(q, base) = Rd(p, base)
    BY <1>1, <1>2, <1>3
  <2> QED BY <2>1 DEF Count, c
<1>5. Copied(p, q, base, base, c)
  <2>1. \A x \in Nat : base + 1 + x \in Nat /\ base <= base + 1 + x
    OBVIOUS
  <2> QED BY <1>2, <2>1 DEF Copied
<1>6. /\ \A k \in 0..c : Pos(q, base, k) = base + (Pos(p, base, k) - base)
      /\ \A k \in 0..(c - 1) : Line(q, Pos(q, base, k)) = Line(p, Pos(p, base, k))
  BY <1>1, <1>5, PosMoved
<1>7. End(q, base) = End(p, base)
  <2>1. c \in 0..c
    BY <1>1
  <2>2. Pos(q, base, c) = Pos(p, base, c)
    BY <1>3, <1>6, <2>1
  <2> QED BY <1>2, <1>4, <2>2 DEF End
<1>8. ListAt(q, base) = ListAt(p, base)
  <2>1. /\ ListAt(p, base) \in Seq(Seq(Byte)) /\ Len(ListAt(p, base)) = c
        /\ \A i \in 1..c : ListAt(p, base)[i] = Line(p, Pos(p, base, i - 1))
    BY ListIs DEF c
  <2>2. /\ ListAt(q, base) \in Seq(Seq(Byte)) /\ Len(ListAt(q, base)) = c
        /\ \A i \in 1..c : ListAt(q, base)[i] = Line(q, Pos(q, base, i - 1))
    BY <1>4, ListIs
  <2>3. ASSUME NEW i \in 1..c PROVE ListAt(q, base)[i] = ListAt(p, base)[i]
    <3>1. i - 1 \in 0..(c - 1)
      BY <1>1
    <3> QED BY <1>6, <2>1, <2>2, <3>1
  <2> QED BY <2>1, <2>2, <2>3, SameList
<1> QED BY <1>7, <1>8

\* A line that was written is read.
LEMMA LineWritten ==
    ASSUME NEW q \in Memories, NEW a \in Nat, NEW r \in Seq(Byte), Rd(q, a) = Len(r),
           \A i \in 1..Len(r) : Rd(q, a + i) = r[i]
    PROVE  Line(q, a) = r
<1>1. Len(r) \in Nat
  OBVIOUS
<1> DEFINE n == Len(r)
<1>2. n \in Nat /\ a + 1 \in Nat /\ a + 1 + n \in Nat /\ a + 1 <= a + 1 + n
      /\ (a + 1 + n) - (a + 1) = n
  BY <1>1
<1> HIDE DEF n
<1> DEFINE t == Slice(q, a + 1, a + 1 + n)
<1>3. t \in Seq(Byte) /\ Len(t) = n /\ \A i \in 1..Len(t) : t[i] = Rd(q, (a + 1) + i - 1)
  BY <1>2, SliceIs
<1>4. Line(q, a) = t
  BY DEF Line, n
<1> HIDE DEF t
<1>5. ASSUME NEW i \in 1..Len(t) PROVE t[i] = r[i]
  <2>1. (a + 1) + i - 1 = a + i /\ i \in 1..Len(r)
    BY <1>2, <1>3 DEF n
  <2> QED BY <1>3, <2>1
<1>6. t = r
  BY <1>3, <1>5, SameList DEF n
<1> QED BY <1>4, <1>6

\* What q has in place of a list of p: these lines, up to this end, and all that
\* was not from base to lim.
Edited(p, q, base, lim, lines, end) ==
    /\ q \in Memories
    /\ \A x \in Nat : x < base \/ lim <= x => Rd(q, x) = Rd(p, x)
    /\ ListAt(q, base) = lines /\ End(q, base) = end

\* The lines in front of the one that is edited.
LEMMA FrontKept ==
    ASSUME EepromSize \in Nat, NEW m \in Memories, NEW q \in Memories, NEW base \in Nat,
           NEW n \in Nat, \A x \in Nat : base < x /\ x < Pos(m, base, n) => Rd(q, x) = Rd(m, x)
    PROVE  /\ \A k \in 0..n : Pos(q, base, k) = Pos(m, base, k)
           /\ \A k \in 0..(n - 1) : Line(q, Pos(q, base, k)) = Line(m, Pos(m, base, k))
<1>1. Copied(m, q, base, base, n)
  <2>1. \A x \in Nat : base + 1 + x \in Nat /\ base < base + 1 + x
    OBVIOUS
  <2> QED BY <2>1 DEF Copied
<1>2. /\ \A k \in 0..n : Pos(q, base, k) = base + (Pos(m, base, k) - base)
      /\ \A k \in 0..(n - 1) : Line(q, Pos(q, base, k)) = Line(m, Pos(m, base, k))
  BY <1>1, PosMoved
<1>3. \A k \in 0..n : Pos(m, base, k) \in Nat
  BY PosIs
<1> QED BY <1>2, <1>3

\* add appends the line, when the count is not full and the line fits.
LEMMA AppendedIs ==
    ASSUME EepromSize \in Nat, NEW m \in Memories, NEW base \in Nat, NEW r \in Seq(Byte),
           Len(r) \in Byte, Count(m, base) < 255, base < EepromSize,
           End(m, base) + Len(r) + 1 <= EepromSize
    PROVE  Edited(m, Appended(m, base, r), base, End(m, base) + Len(r) + 1,
                  Append(ListAt(m, base), r), End(m, base) + Len(r) + 1)
<1> DEFINE c == Count(m, base)
           e == End(m, base)
           l == Len(r)
           g == SetCount(m, base, c + 1)
           rec == Record(r)
           q == Put(g, e, rec)
           L == ListAt(m, base)
<1>1. c \in Nat /\ c \in Byte /\ l \in Nat /\ e = Pos(m, base, c)
  BY ListIs DEF End
<1>2. e \in Nat /\ base + 1 + c <= e
  BY <1>1, PosAbove
<1>3. c < 255 /\ e + l + 1 <= EepromSize /\ Appended(m, base, r) = q
  BY DEF Appended
<1>4. /\ rec \in Seq(Byte) /\ Len(rec) = l + 1
      /\ rec[1] = l /\ \A i \in 1..l : rec[1 + i] = r[i]
  BY RecordIs
<1>5. /\ L \in Seq(Seq(Byte)) /\ Len(L) = c
      /\ \A i \in 1..c : L[i] = Line(m, Pos(m, base, i - 1))
  BY ListIs
<1> HIDE DEF c, e, l, L, rec
<1>6. c + 1 \in Int /\ (c + 1) % 256 = c + 1
  <2>1. c + 1 \in Byte
    BY <1>1, <1>3 DEF Byte
  <2> QED BY <1>1, <2>1, CountType
<1>7. /\ g \in Memories /\ Rd(g, base) = c + 1
      /\ \A x \in Nat : x # base => Rd(g, x) = Rd(m, x)
  BY <1>6, SetCountIs
<1> HIDE DEF g
<1>8. /\ q \in Memories
      /\ \A x \in Nat : x < e \/ e + (l + 1) <= x => Rd(q, x) = Rd(g, x)
      /\ \A i \in 1..(l + 1) : e + i <= EepromSize => Rd(q, e + i - 1) = rec[i]
  <2>1. /\ q \in Memories
        /\ \A x \in Nat : x < e \/ e + Len(rec) <= x => Rd(q, x) = Rd(g, x)
        /\ \A i \in 1..Len(rec) : e + i <= EepromSize => Rd(q, e + i - 1) = rec[i]
    BY <1>2, <1>4, <1>7, PutIs
  <2> QED BY <1>4, <2>1
<1> HIDE DEF q
<1>9. \A x \in Nat : x # base /\ (x < e \/ e + (l + 1) <= x) => Rd(q, x) = Rd(m, x)
  BY <1>7, <1>8
<1>10. Count(q, base) = c + 1
  BY <1>1, <1>2, <1>7, <1>8 DEF Count
<1>11. Line(q, e) = r /\ Rd(q, e) = l
  <2>1. Rd(q, e) = l
    <3>1. 1 \in 1..(l + 1) /\ e + 1 <= EepromSize /\ e + 1 - 1 = e
      BY <1>1, <1>2, <1>3
    <3>2. Rd(q, e + 1 - 1) = rec[1]
      BY <1>8, <3>1
    <3> QED BY <1>4, <3>1, <3>2
  <2>2. ASSUME NEW i \in 1..Len(r) PROVE Rd(q, e + i) = r[i]
    <3>1. i \in 1..l /\ 1 + i \in 1..(l + 1) /\ e + (1 + i) <= EepromSize /\ e + (1 + i) - 1 = e + i
      BY <1>1, <1>2, <1>3 DEF l
    <3>2. Rd(q, e + (1 + i) - 1) = rec[1 + i]
      BY <1>8, <3>1
    <3> QED BY <1>4, <3>1, <3>2
  <2> QED BY <1>2, <1>8, <2>1, <2>2, LineWritten DEF l
<1>12. /\ \A k \in 0..c : Pos(q, base, k) = Pos(m, base, k)
       /\ \A k \in 0..(c - 1) : Line(q, Pos(q, base, k)) = Line(m, Pos(m, base, k))
  <2>1. \A x \in Nat : base < x /\ x < Pos(m, base, c) => Rd(q, x) = Rd(m, x)
    BY <1>1, <1>9
  <2> QED BY <1>1, <1>8, <2>1, FrontKept
<1>13. Pos(q, base, c) = e
  BY <1>1, <1>12
<1>14. End(q, base) = e + l + 1
  <2>1. Pos(q, base, c + 1) = Pos(q, base, c) + Rd(q, Pos(q, base, c)) + 1
    BY <1>1, <1>8, PosIs
  <2> QED BY <1>10, <1>11, <1>13, <2>1 DEF End
<1>15. ListAt(q, base) = Append(L, r)
  <2>1. /\ ListAt(q, base) \in Seq(Seq(Byte)) /\ Len(ListAt(q, base)) = c + 1
        /\ \A i \in 1..(c + 1) : ListAt(q, base)[i] = Line(q, Pos(q, base, i - 1))
    BY <1>8, <1>10, ListIs
  <2>2. /\ Append(L, r) \in Seq(Seq(Byte)) /\ Len(Append(L, r)) = c + 1
        /\ Append(L, r)[c + 1] = r /\ \A i \in 1..c : Append(L, r)[i] = L[i]
    BY <1>5
  <2>3. ASSUME NEW i \in 1..(c + 1) PROVE ListAt(q, base)[i] = Append(L, r)[i]
    <3>1. CASE i = c + 1
      <4>1. i - 1 = c
        BY <1>1, <3>1
      <4> QED BY <1>11, <1>13, <2>1, <2>2, <3>1, <4>1
    <3>2. CASE i # c + 1
      <4>1. i \in 1..c /\ i - 1 \in 0..(c - 1)
        BY <1>1, <3>2
      <4> QED BY <1>5, <1>12, <2>1, <2>2, <4>1
    <3> QED BY <3>1, <3>2
  <2> QED BY <2>1, <2>2, <2>3, SameList
<1>16. \A x \in Nat : x < base \/ e + l + 1 <= x => Rd(q, x) = Rd(m, x)
  BY <1>1, <1>2, <1>9
<1> QED BY <1>3, <1>8, <1>14, <1>15, <1>16 DEF Edited, c, e, l, L

\* The lines behind the one that is edited: q has them from its line j on, which
\* is at M, as they were in m.
MovedTo(m, q, from, to, M) ==
    \A x \in Nat : from + x < to => Rd(q, M + x) = Rd(m, from + x)

TailIs(m, q, base, i, c, j) ==
    /\ \A k \in 0..(c - i) :
          Pos(q, base, j + k) = Pos(q, base, j) + (Pos(m, base, i + k) - Pos(m, base, i))
    /\ \A k \in 0..(c - i - 1) :
          Line(q, Pos(q, base, j + k)) = Line(m, Pos(m, base, i + k))

\* They are the same lines there.
LEMMA TailMoved ==
    ASSUME EepromSize \in Nat, NEW m \in Memories, NEW q \in Memories, NEW base \in Nat,
           NEW i \in Nat, NEW c \in Nat, i <= c, NEW j \in Nat,
           MovedTo(m, q, Pos(m, base, i), Pos(m, base, c), Pos(q, base, j))
    PROVE  TailIs(m, q, base, i, c, j)
<1> DEFINE N == Pos(m, base, i)
           M == Pos(q, base, j)
           a == N - 1
           b == M - 1
           K == c - i
<1>1. /\ a \in Nat /\ N = a + 1 /\ \A k \in Nat : Pos(m, base, i + k) = Pos(m, a, k)
      /\ b \in Nat /\ M = b + 1 /\ \A k \in Nat : Pos(q, base, j + k) = Pos(q, b, k)
  <2>1. N \in Nat /\ M \in Nat
    BY PosIs
  <2>2. a \in Nat /\ \A k \in Nat : Pos(m, base, i + k) = Pos(m, a, k)
    BY PosAdds
  <2>3. b \in Nat /\ \A k \in Nat : Pos(q, base, j + k) = Pos(q, b, k)
    BY PosAdds
  <2> HIDE DEF N, M
  <2> QED BY <2>1, <2>2, <2>3
<1>2. K \in Nat /\ i + K = c
  OBVIOUS
<1>3. MovedTo(m, q, N, Pos(m, base, c), M)
  OBVIOUS
<1> HIDE DEF N, M, a, b, K
<1>4. Copied(m, q, a, b, K)
  <2>1. Pos(m, a, K) = Pos(m, base, c)
    BY <1>1, <1>2
  <2> QED BY <1>1, <1>3, <2>1 DEF Copied, MovedTo
<1>5. /\ \A k \in 0..K : Pos(q, b, k) = b + (Pos(m, a, k) - a)
      /\ \A k \in 0..(K - 1) : Line(q, Pos(q, b, k)) = Line(m, Pos(m, a, k))
  <2>1. a \in Nat /\ b \in Nat /\ K \in Nat
    BY <1>1, <1>2
  <2> QED BY <1>4, <2>1, PosMoved
<1>6. ASSUME NEW k \in 0..K PROVE Pos(q, base, j + k) = M + (Pos(m, base, i + k) - N)
  <2>1. k \in Nat /\ Pos(m, a, k) \in Nat
    <3>1. k \in Nat /\ a \in Nat
      BY <1>1, <1>2
    <3> QED BY <3>1, PosIs
  <2>2. Pos(q, b, k) = b + (Pos(m, a, k) - a)
    BY <1>5
  <2>3. Pos(q, base, j + k) = Pos(q, b, k) /\ Pos(m, base, i + k) = Pos(m, a, k)
    BY <1>1, <2>1
  <2> QED BY <1>1, <2>1, <2>2, <2>3
<1>7. ASSUME NEW k \in 0..(K - 1)
      PROVE  Line(q, Pos(q, base, j + k)) = Line(m, Pos(m, base, i + k))
  <2>1. k \in Nat
    BY <1>2
  <2>2. Pos(q, base, j + k) = Pos(q, b, k) /\ Pos(m, base, i + k) = Pos(m, a, k)
    BY <1>1, <2>1
  <2> QED BY <1>5, <2>2
<1> QED BY <1>6, <1>7 DEF TailIs, N, M, K

\* A sequence without one of its members.
LEMMA RemoveAtIs ==
    ASSUME NEW X, NEW s \in Seq(X), NEW n \in 1..Len(s)
    PROVE  /\ RemoveAt(s, n) \in Seq(X) /\ Len(RemoveAt(s, n)) = Len(s) - 1
           /\ \A i \in 1..(n - 1) : RemoveAt(s, n)[i] = s[i]
           /\ \A i \in n..(Len(s) - 1) : RemoveAt(s, n)[i] = s[i + 1]
<1> DEFINE a == SubSeq(s, 1, n - 1)
           b == SubSeq(s, n + 1, Len(s))
<1>1. a \in Seq(X) /\ Len(a) = n - 1 /\ \A i \in 1..(n - 1) : a[i] = s[i]
  OBVIOUS
<1>2. b \in Seq(X) /\ Len(b) = Len(s) - n /\ \A i \in 1..(Len(s) - n) : b[i] = s[n + i]
  OBVIOUS
<1>3. RemoveAt(s, n) = a \o b
  BY DEF RemoveAt
<1>4. n \in Nat /\ n >= 1 /\ Len(s) \in Nat /\ n <= Len(s)
  OBVIOUS
<1> HIDE DEF a, b
<1>5. a \o b \in Seq(X) /\ Len(a \o b) = Len(s) - 1
  <2>1. a \in Seq(X) /\ b \in Seq(X) /\ Len(a) = n - 1 /\ Len(b) = Len(s) - n
    BY <1>1, <1>2
  <2>2. a \o b \in Seq(X)
    BY <2>1
  <2>3. Len(a \o b) = Len(a) + Len(b)
    BY <2>1, ConcatLength
  <2> QED BY <1>4, <2>1, <2>2, <2>3
<1>6. ASSUME NEW i \in 1..(n - 1) PROVE (a \o b)[i] = s[i]
  BY <1>1, <1>2, ConcatFirst
<1>7. ASSUME NEW i \in n..(Len(s) - 1) PROVE (a \o b)[i] = s[i + 1]
  <2> DEFINE k == i - (n - 1)
  <2>1. k \in 1..Len(b) /\ Len(a) + k = i /\ n + k = i + 1 /\ k \in 1..(Len(s) - n)
    BY <1>1, <1>2, <1>4
  <2> HIDE DEF k
  <2>2. a \in Seq(X) /\ b \in Seq(X) /\ k \in 1..Len(b)
    BY <1>1, <1>2, <2>1
  <2>3. (a \o b)[Len(a) + k] = b[k]
    BY <2>2, ConcatSecond
  <2> QED BY <1>2, <2>1, <2>3
<1> QED BY <1>3, <1>5, <1>6, <1>7

\* del takes the line out, and the list ends no later than before.
LEMMA WithoutIs ==
    ASSUME EepromSize \in Nat, NEW m \in Memories, NEW base \in Nat, NEW n \in Nat,
           n < Count(m, base), End(m, base) <= EepromSize
    PROVE  \E end \in Nat :
              /\ end <= End(m, base)
              /\ Edited(m, Without(m, base, n), base, End(m, base),
                        RemoveAt(ListAt(m, base), n + 1), end)
<1> DEFINE c == Count(m, base)
           e == End(m, base)
           P == Pos(m, base, n)
           N == Pos(m, base, n + 1)
           w == Behind(m, base, n)
           g == Put(m, P, w)
           q == SetCount(g, base, c - 1)
           L == ListAt(m, base)
<1>1. /\ c \in Nat /\ c \in Byte /\ e = Pos(m, base, c) /\ n < c /\ n + 1 \in Nat /\ n + 1 <= c
      /\ e <= EepromSize /\ Without(m, base, n) = q
  BY ListIs DEF End, Without
<1>2. /\ P \in Nat /\ N \in Nat /\ e \in Nat /\ base + 1 <= P /\ P + 1 <= N
      /\ N + (c - (n + 1)) <= e
  <2>1. P \in Nat /\ base + 1 + n <= P
    BY PosAbove
  <2>2. n <= n + 1 /\ n + 1 <= c
    BY <1>1
  <2>3. N \in Nat /\ P + ((n + 1) - n) <= N
    BY <1>1, <2>2, PosRises
  <2>4. Pos(m, base, c) \in Nat /\ N + (c - (n + 1)) <= Pos(m, base, c)
    BY <1>1, <2>2, PosRises
  <2> HIDE DEF c, P, N, e
  <2> QED BY <1>1, <2>1, <2>3, <2>4
<1>3. /\ L \in Seq(Seq(Byte)) /\ Len(L) = c
      /\ \A i \in 1..c : L[i] = Line(m, Pos(m, base, i - 1))
  BY ListIs
<1>4. w = Slice(m, N, e)
  BY <1>1 DEF Behind
<1> HIDE DEF c, e, P, N, L, w
<1>5. w \in Seq(Byte) /\ Len(w) = e - N /\ \A i \in 1..Len(w) : w[i] = Rd(m, N + i - 1)
  <2>1. N <= e /\ N \in Nat /\ e \in Nat
    BY <1>1, <1>2
  <2>2. /\ Slice(m, N, e) \in Seq(Byte) /\ Len(Slice(m, N, e)) = e - N
        /\ \A i \in 1..Len(Slice(m, N, e)) : Slice(m, N, e)[i] = Rd(m, N + i - 1)
    BY <2>1, SliceIs
  <2> QED BY <1>4, <2>2
<1>6. /\ g \in Memories
      /\ \A x \in Nat : x < P \/ P + Len(w) <= x => Rd(g, x) = Rd(m, x)
      /\ \A i \in 1..Len(w) : P + i <= EepromSize => Rd(g, P + i - 1) = w[i]
  BY <1>2, <1>5, PutIs
<1> HIDE DEF g
<1>7. c - 1 \in Int /\ (c - 1) % 256 = c - 1
  <2>1. c - 1 \in Byte
    BY <1>1 DEF Byte
  <2> QED BY <1>1, <2>1, CountType
<1>8. /\ q \in Memories /\ \A x \in Nat : x # base => Rd(q, x) = Rd(g, x)
      /\ Rd(q, base) = c - 1
  <2>1. base < EepromSize
    BY <1>1, <1>2
  <2> QED BY <1>6, <1>7, <2>1, SetCountIs
<1> HIDE DEF q
<1>9. Count(q, base) = c - 1
  BY <1>8 DEF Count
<1>10. /\ \A k \in 0..n : Pos(q, base, k) = Pos(m, base, k)
       /\ \A k \in 0..(n - 1) : Line(q, Pos(q, base, k)) = Line(m, Pos(m, base, k))
  <2>1. \A x \in Nat : base < x /\ x < Pos(m, base, n) => Rd(q, x) = Rd(m, x)
    BY <1>6, <1>8 DEF P
  <2> QED BY <1>8, <2>1, FrontKept
<1>11. Pos(q, base, n) = P
  BY <1>10 DEF P
<1>12. /\ \A k \in 0..(c - (n + 1)) :
             Pos(q, base, n + k) = P + (Pos(m, base, (n + 1) + k) - N)
       /\ \A k \in 0..(c - (n + 1) - 1) :
             Line(q, Pos(q, base, n + k)) = Line(m, Pos(m, base, (n + 1) + k))
  <2>1. ASSUME NEW x \in Nat, N + x < e PROVE Rd(q, P + x) = Rd(m, N + x)
    <3>1. x + 1 \in 1..Len(w) /\ P + (x + 1) <= EepromSize /\ P + (x + 1) - 1 = P + x
          /\ N + (x + 1) - 1 = N + x /\ P + x # base /\ P + x \in Nat
      BY <1>1, <1>2, <1>5, <2>1
    <3>2. Rd(g, P + (x + 1) - 1) = w[x + 1]
      BY <1>6, <3>1
    <3>3. w[x + 1] = Rd(m, N + (x + 1) - 1)
      BY <1>5, <3>1
    <3> QED BY <1>8, <3>1, <3>2, <3>3
  <2>2. MovedTo(m, q, Pos(m, base, n + 1), Pos(m, base, c), Pos(q, base, n))
    BY <1>1, <1>11, <2>1 DEF MovedTo, N
  <2>3. n + 1 \in Nat /\ c \in Nat /\ n + 1 <= c /\ q \in Memories
    BY <1>1, <1>8
  <2>4. TailIs(m, q, base, n + 1, c, n)
    BY <2>2, <2>3, TailMoved
  <2> QED BY <1>11, <2>4 DEF TailIs, N
<1>13. End(q, base) = P + (e - N)
  <2>1. c - (n + 1) \in 0..(c - (n + 1)) /\ n + (c - (n + 1)) = c - 1
        /\ (n + 1) + (c - (n + 1)) = c
    BY <1>1
  <2>2. Pos(q, base, n + (c - (n + 1))) = P + (Pos(m, base, (n + 1) + (c - (n + 1))) - N)
    BY <1>12, <2>1
  <2> QED BY <1>1, <1>9, <2>1, <2>2 DEF End
<1>14. ListAt(q, base) = RemoveAt(L, n + 1)
  <2>1. /\ ListAt(q, base) \in Seq(Seq(Byte)) /\ Len(ListAt(q, base)) = c - 1
        /\ \A i \in 1..(c - 1) : ListAt(q, base)[i] = Line(q, Pos(q, base, i - 1))
    BY <1>8, <1>9, ListIs
  <2>2. /\ RemoveAt(L, n + 1) \in Seq(Seq(Byte)) /\ Len(RemoveAt(L, n + 1)) = c - 1
        /\ \A i \in 1..((n + 1) - 1) : RemoveAt(L, n + 1)[i] = L[i]
        /\ \A i \in (n + 1)..(c - 1) : RemoveAt(L, n + 1)[i] = L[i + 1]
    <3>1. n + 1 \in 1..Len(L)
      BY <1>1, <1>3
    <3> QED BY <1>3, <3>1, RemoveAtIs
  <2>3. ASSUME NEW i \in 1..(c - 1) PROVE ListAt(q, base)[i] = RemoveAt(L, n + 1)[i]
    <3>1. CASE i <= n
      <4>1. i \in 1..((n + 1) - 1) /\ i - 1 \in 0..(n - 1) /\ i \in 1..c
        BY <1>1, <3>1
      <4> QED BY <1>3, <1>10, <2>1, <2>2, <4>1
    <3>2. CASE ~(i <= n)
      <4> DEFINE k == i - 1 - n
      <4>1. /\ k \in 0..(c - (n + 1) - 1) /\ n + k = i - 1 /\ (n + 1) + k = (i + 1) - 1
            /\ i \in (n + 1)..(c - 1) /\ i + 1 \in 1..c
        BY <1>1, <3>2
      <4> HIDE DEF k
      <4>2. Line(q, Pos(q, base, n + k)) = Line(m, Pos(m, base, (n + 1) + k))
        BY <1>12, <4>1
      <4>3. L[i + 1] = Line(m, Pos(m, base, (i + 1) - 1))
        BY <1>3, <4>1
      <4> QED BY <2>1, <2>2, <4>1, <4>2, <4>3
    <3> QED BY <3>1, <3>2
  <2> QED BY <2>1, <2>2, <2>3, SameList
<1>15. \A x \in Nat : x < base \/ e <= x => Rd(q, x) = Rd(m, x)
  <2>1. P + Len(w) <= e
    BY <1>2, <1>5
  <2> QED BY <1>1, <1>2, <1>5, <1>6, <1>8, <2>1
<1>16. P + (e - N) \in Nat /\ P + (e - N) <= e
  BY <1>1, <1>2
<1>17. Edited(m, Without(m, base, n), base, e, RemoveAt(L, n + 1), P + (e - N))
  BY <1>1, <1>8, <1>13, <1>14, <1>15 DEF Edited
<1> QED BY <1>16, <1>17 DEF e, L

\* A sequence with another member at one of its places.
LEMMA ReplaceAtIs ==
    ASSUME NEW X, NEW s \in Seq(X), NEW n \in 1..Len(s), NEW r \in X
    PROVE  /\ ReplaceAt(s, n, r) \in Seq(X) /\ Len(ReplaceAt(s, n, r)) = Len(s)
           /\ ReplaceAt(s, n, r)[n] = r
           /\ \A i \in 1..Len(s) : i # n => ReplaceAt(s, n, r)[i] = s[i]
BY DEF ReplaceAt

\* By how much a line grows, and where the list ends then.
LEMMA GrowthIs ==
    ASSUME EepromSize \in Nat, NEW m \in Memories, NEW base \in Nat, NEW n \in Nat,
           NEW r \in Seq(Byte)
    PROVE  /\ Growth(m, base, n, r) \in Nat
           /\ Growth(m, base, n, r) >= Len(r) - Rd(m, Pos(m, base, n))
           /\ Rd(m, Pos(m, base, n)) \in Nat /\ Len(r) \in Nat
<1> DEFINE old == Rd(m, Pos(m, base, n))
<1>1. old \in Nat /\ Len(r) \in Nat
  BY RdType
<1> HIDE DEF old
<1>2. Growth(m, base, n, r) = IF Len(r) - old > 0 THEN Len(r) - old ELSE 0
  BY DEF Growth, old
<1> QED BY <1>1, <1>2 DEF old

\* What a rep writes: the new line, the lines behind it and what is left over.
Replacement(m, base, n, r, s) ==
    LET P == Pos(m, base, n)
        N == Pos(m, base, n + 1)
        t == Len(r) + 1 + (End(m, base) - N)
    IN  /\ Replaced(m, base, n, r) = Put(m, P, s)
        /\ t <= Len(s) /\ Len(s) <= t + Growth(m, base, n, r)
        /\ s[1] = Len(r)
        /\ \A i \in 1..Len(r) : s[1 + i] = r[i]
        /\ \A x \in Nat : N + x < End(m, base) => s[Len(r) + 1 + (x + 1)] = Rd(m, N + x)

\* Such a run of bytes exists.
LEMMA ReplacementIs ==
    ASSUME EepromSize \in Nat, NEW m \in Memories, NEW base \in Nat, NEW n \in Nat,
           NEW r \in Seq(Byte), Len(r) \in Byte,
           n < Count(m, base)
    PROVE  \E s \in Seq(Byte) : Replacement(m, base, n, r, s)
<1> DEFINE c == Count(m, base)
           e == End(m, base)
           P == Pos(m, base, n)
           N == Pos(m, base, n + 1)
           w == Behind(m, base, n)
           G == Growth(m, base, n, r)
           rec == Record(r)
           t == rec \o w
           left == IF (Len(w) % 256) + G < 256 THEN Slice(m, N + Len(w), N + Len(w) + G) ELSE <<>>
           s == t \o left
<1>1. /\ c \in Nat /\ e = Pos(m, base, c) /\ n < c /\ n + 1 \in Nat /\ n + 1 <= c
  BY ListIs DEF End
<1>2. N \in Nat /\ e \in Nat /\ N <= e
  <2>1. N \in Nat /\ Pos(m, base, c) \in Nat /\ N + (c - (n + 1)) <= Pos(m, base, c)
    BY <1>1, PosRises
  <2> QED BY <1>1, <2>1
<1>3. w = Slice(m, N, e)
  BY <1>1 DEF Behind
<1>4. G \in Nat /\ Len(r) \in Nat
  BY GrowthIs
<1>5. Replaced(m, base, n, r) = Put(m, P, s)
  BY DEF Replaced
<1>6. /\ rec \in Seq(Byte) /\ Len(rec) = Len(r) + 1
      /\ rec[1] = Len(r) /\ \A i \in 1..Len(r) : rec[1 + i] = r[i]
  BY RecordIs
<1> HIDE DEF c, e, P, N, G, w, rec
<1>7. w \in Seq(Byte) /\ Len(w) = e - N /\ \A i \in 1..Len(w) : w[i] = Rd(m, N + i - 1)
  <2>1. /\ Slice(m, N, e) \in Seq(Byte) /\ Len(Slice(m, N, e)) = e - N
        /\ \A i \in 1..Len(Slice(m, N, e)) : Slice(m, N, e)[i] = Rd(m, N + i - 1)
    BY <1>2, SliceIs
  <2> QED BY <1>3, <2>1
<1>8. left \in Seq(Byte) /\ Len(left) \in Nat /\ Len(left) <= G
  <2> DEFINE a == N + Len(w)
  <2>1. a \in Nat /\ a + G \in Nat /\ a <= a + G
    BY <1>2, <1>4, <1>7
  <2> HIDE DEF a
  <2>2. Slice(m, a, a + G) \in Seq(Byte) /\ Len(Slice(m, a, a + G)) = (a + G) - a
    BY <2>1, SliceIs
  <2>3. (a + G) - a = G
    BY <2>1, <1>4
  <2>4. <<>> \in Seq(Byte) /\ Len(<<>>) = 0
    OBVIOUS
  <2>5. left = Slice(m, a, a + G) \/ left = <<>>
    BY DEF a
  <2> HIDE DEF left
  <2>6. CASE left = Slice(m, a, a + G)
    BY <1>4, <2>2, <2>3, <2>6
  <2>7. CASE left = <<>>
    BY <1>4, <2>4, <2>7
  <2> QED BY <2>5, <2>6, <2>7
<1> HIDE DEF left
<1>9. /\ t \in Seq(Byte) /\ Len(t) = Len(r) + 1 + (e - N)
      /\ \A i \in 1..(Len(r) + 1) : t[i] = rec[i]
      /\ \A i \in 1..Len(w) : t[Len(r) + 1 + i] = w[i]
  <2>0. rec \in Seq(Byte) /\ w \in Seq(Byte)
    BY <1>6, <1>7
  <2>1. t \in Seq(Byte) /\ Len(t) = Len(rec) + Len(w)
    BY <2>0, ConcatLength
  <2>2. \A i \in 1..Len(rec) : t[i] = rec[i]
    BY <2>0, ConcatFirst
  <2>3. \A i \in 1..Len(w) : t[Len(rec) + i] = w[i]
    BY <2>0, ConcatSecond
  <2> HIDE DEF t
  <2> QED BY <1>6, <1>7, <2>1, <2>2, <2>3
<1> HIDE DEF t
<1>10. /\ s \in Seq(Byte) /\ Len(s) = Len(t) + Len(left)
       /\ \A i \in 1..Len(t) : s[i] = t[i]
  <2>0. t \in Seq(Byte) /\ left \in Seq(Byte)
    BY <1>8, <1>9
  <2>1. s \in Seq(Byte) /\ Len(s) = Len(t) + Len(left)
    BY <2>0, ConcatLength
  <2>2. \A i \in 1..Len(t) : s[i] = t[i]
    BY <2>0, ConcatFirst
  <2> QED BY <2>1, <2>2
<1> HIDE DEF s
<1>11. Len(r) + 1 + (e - N) <= Len(s) /\ Len(s) <= Len(r) + 1 + (e - N) + G
  BY <1>2, <1>4, <1>8, <1>9, <1>10
<1>12. s[1] = Len(r)
  <2>1. 1 \in 1..(Len(r) + 1) /\ 1 \in 1..Len(t)
    BY <1>2, <1>4, <1>9
  <2> QED BY <1>6, <1>9, <1>10, <2>1
<1>13. ASSUME NEW i \in 1..Len(r) PROVE s[1 + i] = r[i]
  <2>1. 1 + i \in 1..(Len(r) + 1) /\ 1 + i \in 1..Len(t)
    BY <1>2, <1>4, <1>9
  <2> QED BY <1>6, <1>9, <1>10, <2>1
<1>14. ASSUME NEW x \in Nat, N + x < e PROVE s[Len(r) + 1 + (x + 1)] = Rd(m, N + x)
  <2> DEFINE i == x + 1
  <2>1. /\ i \in 1..Len(w) /\ N + i - 1 = N + x /\ Len(r) + 1 + i \in 1..Len(t)
    BY <1>2, <1>4, <1>7, <1>9, <1>14
  <2> HIDE DEF i
  <2>2. s[Len(r) + 1 + i] = Rd(m, N + x)
    BY <1>7, <1>9, <1>10, <2>1
  <2> QED BY <2>2 DEF i
<1>15. Replacement(m, base, n, r, s)
  BY <1>5, <1>11, <1>12, <1>13, <1>14 DEF Replacement, e, P, N, G
<1> QED BY <1>10, <1>15

\* rep replaces the line, and writes behind the list no more than it has grown.
LEMMA ReplacedIs ==
    ASSUME EepromSize \in Nat, NEW m \in Memories, NEW base \in Nat, NEW n \in Nat,
           NEW r \in Seq(Byte), Len(r) \in Byte,
           n < Count(m, base), End(m, base) + Len(r) - Rd(m, Pos(m, base, n)) <= EepromSize
    PROVE  LET end == End(m, base) + Len(r) - Rd(m, Pos(m, base, n))
           IN  /\ end \in Nat
               /\ Edited(m, Replaced(m, base, n, r), base, end + Growth(m, base, n, r),
                         ReplaceAt(ListAt(m, base), n + 1, r), end)
<1> DEFINE c == Count(m, base)
           e == End(m, base)
           l == Len(r)
           P == Pos(m, base, n)
           N == Pos(m, base, n + 1)
           M == P + l + 1
           old == Rd(m, P)
           end == e + l - old
           G == Growth(m, base, n, r)
           q == Replaced(m, base, n, r)
           L == ListAt(m, base)
<1>1. /\ c \in Nat /\ c \in Byte /\ e = Pos(m, base, c) /\ n < c /\ n + 1 \in Nat /\ n + 1 <= c
  BY ListIs DEF End
<1>2. /\ P \in Nat /\ N \in Nat /\ e \in Nat /\ base + 1 <= P /\ N + (c - (n + 1)) <= e
      /\ N = P + old + 1 /\ old \in Nat /\ l \in Nat
  <2>1. P \in Nat /\ base + 1 + n <= P
    BY PosAbove
  <2>2. N \in Nat /\ Pos(m, base, c) \in Nat /\ N + (c - (n + 1)) <= Pos(m, base, c)
    BY <1>1, PosRises
  <2>3. N = P + old + 1
    BY PosIs
  <2>4. old \in Nat /\ l \in Nat
    BY RdType
  <2> HIDE DEF c, P, N, e, old, l
  <2> QED BY <1>1, <2>1, <2>2, <2>3, <2>4
<1>3. /\ L \in Seq(Seq(Byte)) /\ Len(L) = c
      /\ \A i \in 1..c : L[i] = Line(m, Pos(m, base, i - 1))
  BY ListIs
<1>4. G \in Nat /\ end <= EepromSize
  BY GrowthIs
<1>0. PICK s \in Seq(Byte) : Replacement(m, base, n, r, s)
  BY ReplacementIs
<1>5. /\ q = Put(m, P, s)
      /\ l + 1 + (e - N) <= Len(s) /\ Len(s) <= l + 1 + (e - N) + G
      /\ s[1] = l
      /\ \A i \in 1..l : s[1 + i] = r[i]
      /\ \A x \in Nat : N + x < e => s[l + 1 + (x + 1)] = Rd(m, N + x)
  BY <1>0 DEF Replacement
<1> HIDE DEF c, e, l, P, N, old, G, q, L
<1>6. /\ M \in Nat /\ end \in Nat /\ end = M + (e - N) /\ M <= end
      /\ l + 1 <= Len(s) /\ P + l + 1 <= EepromSize
  <2>1. N <= e
    BY <1>1, <1>2
  <2>2. Len(s) \in Nat /\ l + 1 + (e - N) <= Len(s)
    BY <1>5
  <2> QED BY <1>2, <1>4, <2>1, <2>2
<1>7. /\ q \in Memories
      /\ \A x \in Nat : x < P \/ P + Len(s) <= x => Rd(q, x) = Rd(m, x)
      /\ \A i \in 1..Len(s) : P + i <= EepromSize => Rd(q, P + i - 1) = s[i]
  <2>1. /\ Put(m, P, s) \in Memories
        /\ \A x \in Nat : x < P \/ P + Len(s) <= x => Rd(Put(m, P, s), x) = Rd(m, x)
        /\ \A i \in 1..Len(s) : P + i <= EepromSize => Rd(Put(m, P, s), P + i - 1) = s[i]
    BY <1>2, PutIs
  <2> QED BY <1>5, <2>1
<1>8. Count(q, base) = c
  BY <1>2, <1>7 DEF Count, c
<1>9. /\ \A k \in 0..n : Pos(q, base, k) = Pos(m, base, k)
      /\ \A k \in 0..(n - 1) : Line(q, Pos(q, base, k)) = Line(m, Pos(m, base, k))
  <2>1. \A x \in Nat : base < x /\ x < Pos(m, base, n) => Rd(q, x) = Rd(m, x)
    BY <1>7 DEF P
  <2>2. q \in Memories
    BY <1>7
  <2> QED BY <2>1, <2>2, FrontKept
<1>10. Pos(q, base, n) = P
  BY <1>9 DEF P
<1>11. Line(q, P) = r /\ Rd(q, P) = l
  <2>1. Rd(q, P) = l
    <3>1. 1 \in 1..Len(s) /\ P + 1 <= EepromSize /\ P + 1 - 1 = P
      BY <1>2, <1>6
    <3>2. Rd(q, P + 1 - 1) = s[1]
      BY <1>7, <3>1
    <3> QED BY <1>5, <3>1, <3>2
  <2>2. ASSUME NEW i \in 1..Len(r) PROVE Rd(q, P + i) = r[i]
    <3>1. i \in 1..l /\ 1 + i \in 1..Len(s) /\ P + (1 + i) <= EepromSize /\ P + (1 + i) - 1 = P + i
      BY <1>2, <1>6 DEF l
    <3>2. Rd(q, P + (1 + i) - 1) = s[1 + i]
      BY <1>7, <3>1
    <3> QED BY <1>5, <3>1, <3>2
  <2>3. q \in Memories /\ P \in Nat /\ Rd(q, P) = Len(r)
    BY <1>2, <1>7, <2>1 DEF l
  <2> QED BY <2>1, <2>2, <2>3, LineWritten
<1>12. Pos(q, base, n + 1) = M
  <2>1. q \in Memories
    BY <1>7
  <2>2. Pos(q, base, n + 1) = Pos(q, base, n) + Rd(q, Pos(q, base, n)) + 1
    BY <2>1, PosIs
  <2> QED BY <1>10, <1>11, <2>2
<1> HIDE DEF M
<1>13. TailIs(m, q, base, n + 1, c, n + 1)
  <2>1. ASSUME NEW x \in Nat, N + x < e PROVE Rd(q, M + x) = Rd(m, N + x)
    <3> DEFINE i == l + 1 + (x + 1)
    <3>1. i \in 1..Len(s) /\ P + i <= EepromSize /\ P + i - 1 = M + x
      BY <1>2, <1>4, <1>5, <1>6, <2>1 DEF M
    <3>2. s[i] = Rd(m, N + x)
      BY <1>5, <2>1
    <3> HIDE DEF i
    <3> QED BY <1>7, <3>1, <3>2
  <2>2. MovedTo(m, q, Pos(m, base, n + 1), Pos(m, base, c), Pos(q, base, n + 1))
    BY <1>1, <1>12, <2>1 DEF MovedTo, N
  <2>3. n + 1 \in Nat /\ c \in Nat /\ n + 1 <= c /\ q \in Memories
    BY <1>1, <1>7
  <2> QED BY <2>2, <2>3, TailMoved
<1>14. End(q, base) = end
  <2>1. c - (n + 1) \in 0..(c - (n + 1)) /\ (n + 1) + (c - (n + 1)) = c
    BY <1>1
  <2>2. Pos(q, base, c) = Pos(q, base, n + 1) + (Pos(m, base, c) - Pos(m, base, n + 1))
    BY <1>13, <2>1 DEF TailIs
  <2> QED BY <1>1, <1>6, <1>8, <1>12, <2>2 DEF End, N
<1>15. ListAt(q, base) = ReplaceAt(L, n + 1, r)
  <2>1. /\ ListAt(q, base) \in Seq(Seq(Byte)) /\ Len(ListAt(q, base)) = c
        /\ \A i \in 1..c : ListAt(q, base)[i] = Line(q, Pos(q, base, i - 1))
    BY <1>7, <1>8, ListIs
  <2>2. /\ ReplaceAt(L, n + 1, r) \in Seq(Seq(Byte)) /\ Len(ReplaceAt(L, n + 1, r)) = c
        /\ ReplaceAt(L, n + 1, r)[n + 1] = r
        /\ \A i \in 1..c : i # n + 1 => ReplaceAt(L, n + 1, r)[i] = L[i]
    <3>1. n + 1 \in 1..Len(L) /\ L \in Seq(Seq(Byte)) /\ r \in Seq(Byte)
      BY <1>1, <1>3
    <3>2. /\ ReplaceAt(L, n + 1, r) \in Seq(Seq(Byte)) /\ Len(ReplaceAt(L, n + 1, r)) = Len(L)
          /\ ReplaceAt(L, n + 1, r)[n + 1] = r
          /\ \A i \in 1..Len(L) : i # n + 1 => ReplaceAt(L, n + 1, r)[i] = L[i]
      BY <3>1, ReplaceAtIs
    <3> QED BY <1>3, <3>2
  <2>3. ASSUME NEW i \in 1..c PROVE ListAt(q, base)[i] = ReplaceAt(L, n + 1, r)[i]
    <3>1. CASE i <= n
      <4>1. i - 1 \in 0..(n - 1) /\ i # n + 1
        BY <1>1, <3>1
      <4> QED BY <1>3, <1>9, <2>1, <2>2, <4>1
    <3>2. CASE i = n + 1
      <4>1. i - 1 = n
        BY <3>2
      <4> QED BY <1>10, <1>11, <2>1, <2>2, <3>2, <4>1
    <3>3. CASE i > n + 1
      <4> DEFINE k == i - 1 - (n + 1)
      <4>1. k \in 0..(c - (n + 1) - 1) /\ (n + 1) + k = i - 1 /\ i # n + 1
        BY <1>1, <3>3
      <4> HIDE DEF k
      <4>2. Line(q, Pos(q, base, (n + 1) + k)) = Line(m, Pos(m, base, (n + 1) + k))
        BY <1>13, <4>1 DEF TailIs
      <4> QED BY <1>3, <2>1, <2>2, <4>1, <4>2
    <3> QED BY <3>1, <3>2, <3>3
  <2> QED BY <2>1, <2>2, <2>3, SameList
<1>16. \A x \in Nat : x < base \/ end + G <= x => Rd(q, x) = Rd(m, x)
  <2>1. P + Len(s) <= end + G
    BY <1>2, <1>4, <1>5, <1>6 DEF M
  <2> QED BY <1>2, <1>4, <1>5, <1>6, <1>7, <2>1
<1>17. Edited(m, q, base, end + G, ReplaceAt(L, n + 1, r), end)
  BY <1>7, <1>14, <1>15, <1>16 DEF Edited
<1> QED BY <1>6, <1>17 DEF e, l, P, old, G, q, L

-----------------------------------------------------------------------------
(* A list written afresh. *)

\* Where each member of s begins when s is flattened, and its end.
Offsets(o, s) ==
    /\ o \in [Nat -> Nat] /\ o[0] = 0 /\ o[Len(s)] = Len(FlattenSeq(s))
    /\ \A k \in 1..Len(s) : o[k] = o[k - 1] + Len(s[k])
    /\ \A k \in 1..Len(s) : \A j \in 1..Len(s[k]) :
          /\ o[k - 1] + j \in 1..Len(FlattenSeq(s))
          /\ FlattenSeq(s)[o[k - 1] + j] = s[k][j]

\* There are such beginnings.
LEMMA OffsetsExist ==
    ASSUME NEW X, NEW s \in Seq(Seq(X))
    PROVE  \E o : Offsets(o, s)
<1>1. PICK f \in [Nat -> Seq(X)] :
         /\ f[0] = <<>>
         /\ \A k \in 1..Len(s) : f[k] = f[k - 1] \o s[k]
         /\ \A k \in 0..Len(s) : FlattenSeq(SubSeq(s, 1, k)) = f[k]
  BY FlattenBeginnings
<1>2. Len(s) \in Nat /\ Len(s) \in 0..Len(s) /\ SubSeq(s, 1, Len(s)) = s
  BY WholeSeq
<1> DEFINE o == [k \in Nat |-> Len(f[k])]
<1>3. \A k \in Nat : f[k] \in Seq(X) /\ Len(f[k]) \in Nat
  OBVIOUS
<1>4. o \in [Nat -> Nat] /\ \A k \in Nat : o[k] = Len(f[k])
  BY <1>3
<1> HIDE DEF o
<1>5. o[0] = 0
  BY <1>1, <1>4
<1>6. o[Len(s)] = Len(FlattenSeq(s))
  BY <1>1, <1>2, <1>4
<1>7. ASSUME NEW k \in 1..Len(s) PROVE o[k] = o[k - 1] + Len(s[k])
  <2>1. k \in Nat /\ k - 1 \in Nat /\ s[k] \in Seq(X)
    OBVIOUS
  <2>2. f[k - 1] \in Seq(X) /\ f[k] = f[k - 1] \o s[k]
    BY <1>1, <1>3, <2>1
  <2>3. Len(f[k - 1] \o s[k]) = Len(f[k - 1]) + Len(s[k])
    BY <2>1, <2>2, ConcatLength
  <2> QED BY <1>4, <2>1, <2>2, <2>3
<1>8. ASSUME NEW k \in 1..Len(s), NEW j \in 1..Len(s[k])
      PROVE  /\ o[k - 1] + j \in 1..Len(FlattenSeq(s))
             /\ FlattenSeq(s)[o[k - 1] + j] = s[k][j]
  <2> DEFINE place == Len(FlattenSeq(SubSeq(s, 1, k - 1))) + j
  <2>1. place \in 1..Len(FlattenSeq(s)) /\ FlattenSeq(s)[place] = s[k][j]
    BY FlattenPlaces
  <2>2. k - 1 \in Nat /\ k - 1 \in 0..Len(s)
    BY <1>2
  <2>3. place = o[k - 1] + j
    BY <1>1, <1>4, <2>2
  <2> QED BY <2>1, <2>3
<1>9. Offsets(o, s)
  BY <1>4, <1>5, <1>6, <1>7, <1>8 DEF Offsets
<1> QED BY <1>9

\* Lines whose number and lengths are bytes.
Storable(s) ==
    /\ s \in Seq(Seq(Byte)) /\ Len(s) \in Byte
    /\ \A i \in 1..Len(s) : Len(s[i]) \in Byte

\* The bytes of lines that can be stored.
LEMMA RecordsAre ==
    ASSUME NEW s, Storable(s)
    PROVE  /\ [i \in 1..Len(s) |-> Record(s[i])] \in Seq(Seq(Byte))
           /\ Records(s) = FlattenSeq([i \in 1..Len(s) |-> Record(s[i])])
           /\ Records(s) \in Seq(Byte) /\ Len(Records(s)) \in Nat
           /\ \A i \in 1..Len(s) : s[i] \in Seq(Byte) /\ Len(s[i]) \in Byte
<1> DEFINE T == [i \in 1..Len(s) |-> Record(s[i])]
<1>1. s \in Seq(Seq(Byte)) /\ \A i \in 1..Len(s) : s[i] \in Seq(Byte) /\ Len(s[i]) \in Byte
  BY DEF Storable
<1>2. ASSUME NEW i \in 1..Len(s) PROVE Record(s[i]) \in Seq(Byte)
  BY <1>1, RecordIs
<1>3. T \in Seq(Seq(Byte))
  BY <1>1, <1>2
<1>4. Records(s) = FlattenSeq(T)
  BY DEF Records
<1> HIDE DEF T
<1>5. Records(s) \in Seq(Byte)
  BY <1>3, <1>4, FlattenType
<1>6. Len(Records(s)) \in Nat
  BY <1>5
<1> QED BY <1>1, <1>3, <1>4, <1>5, <1>6 DEF T

\* Whether it fits or not, nothing in front of the list is touched.
LEMMA WrittenBehind ==
    ASSUME EepromSize \in Nat, NEW m \in Memories, NEW base \in Nat, NEW s, Storable(s)
    PROVE  /\ Written(m, base, s) \in Memories
           /\ \A x \in Nat : x < base \/ base + 1 + Len(Records(s)) <= x =>
                 Rd(Written(m, base, s), x) = Rd(m, x)
           /\ base < EepromSize => Count(Written(m, base, s), base) = Len(s)
           /\ \A i \in 1..Len(Records(s)) : base + 1 + i <= EepromSize =>
                 Rd(Written(m, base, s), base + i) = Records(s)[i]
<1> DEFINE g == SetCount(m, base, Len(s))
           R == Records(s)
           q == Put(g, base + 1, R)
<1>1. R \in Seq(Byte) /\ Len(R) \in Nat /\ Len(s) \in Int /\ Len(s) % 256 = Len(s)
  <2>1. Len(s) \in Byte
    BY DEF Storable
  <2>2. Len(s) \in Int
    BY <2>1 DEF Byte
  <2>3. Len(s) % 256 = Len(s)
    BY <2>1, <2>2, CountType
  <2> QED BY <2>2, <2>3, RecordsAre
<1>2. Written(m, base, s) = q
  BY DEF Written
<1> HIDE DEF R
<1>3. /\ g \in Memories /\ \A x \in Nat : x # base => Rd(g, x) = Rd(m, x)
      /\ base < EepromSize => Rd(g, base) = Len(s)
  <2> DEFINE n == Len(s)
  <2>1. n % 256 = Len(s)
    BY <1>1
  <2>3. n \in Int
    BY <1>1
  <2> HIDE DEF n
  <2>2. /\ SetCount(m, base, n) \in Memories
        /\ \A x \in Nat : x # base => Rd(SetCount(m, base, n), x) = Rd(m, x)
        /\ base < EepromSize => Rd(SetCount(m, base, n), base) = n % 256
    BY <2>3, SetCountIs
  <2> QED BY <2>1, <2>2 DEF n
<1> HIDE DEF g
<1>4. /\ q \in Memories
      /\ \A x \in Nat : x < base + 1 \/ base + 1 + Len(R) <= x => Rd(q, x) = Rd(g, x)
      /\ \A i \in 1..Len(R) : base + 1 + i <= EepromSize => Rd(q, base + 1 + i - 1) = R[i]
  <2>1. base + 1 \in Nat
    OBVIOUS
  <2> QED BY <1>1, <1>3, <2>1, PutIs
<1> HIDE DEF q
<1>5. base < EepromSize => Count(q, base) = Len(s)
  BY <1>3, <1>4 DEF Count
<1>6. \A x \in Nat : x < base \/ base + 1 + Len(R) <= x => Rd(q, x) = Rd(m, x)
  BY <1>1, <1>3, <1>4
<1>7. \A i \in 1..Len(R) : base + 1 + i <= EepromSize => Rd(q, base + i) = R[i]
  <2>1. \A i \in 1..Len(R) : base + 1 + i - 1 = base + i
    BY <1>1
  <2> QED BY <1>4, <2>1
<1> QED BY <1>2, <1>4, <1>5, <1>6, <1>7 DEF R

\* When they fit, the lines written are the list.
LEMMA WrittenIs ==
    ASSUME EepromSize \in Nat, NEW m \in Memories, NEW base \in Nat, NEW s, Storable(s),
           base + 1 + Len(Records(s)) <= EepromSize
    PROVE  Edited(m, Written(m, base, s), base, base + 1 + Len(Records(s)),
                  s, base + 1 + Len(Records(s)))
<1> DEFINE T == [i \in 1..Len(s) |-> Record(s[i])]
           R == Records(s)
           q == Written(m, base, s)
           c == Len(s)
<1>1. /\ T \in Seq(Seq(Byte)) /\ Len(T) = Len(s) /\ R = FlattenSeq(T) /\ R \in Seq(Byte)
      /\ Len(R) \in Nat /\ c \in Nat
      /\ \A i \in 1..c : s[i] \in Seq(Byte) /\ Len(s[i]) \in Byte /\ T[i] = Record(s[i])
  <2>1. c \in Nat
    BY DEF Storable, Byte
  <2>2. /\ T \in Seq(Seq(Byte)) /\ R = FlattenSeq(T) /\ R \in Seq(Byte) /\ Len(R) \in Nat
        /\ \A i \in 1..c : s[i] \in Seq(Byte) /\ Len(s[i]) \in Byte
    BY RecordsAre
  <2>3. Len(T) = Len(s) /\ \A i \in 1..c : T[i] = Record(s[i])
    BY <2>1
  <2> HIDE DEF T, R, c
  <2> QED BY <2>1, <2>2, <2>3
<1>2. PICK o : Offsets(o, T)
  <2> HIDE DEF T
  <2> QED BY <1>1, OffsetsExist
<1> DEFINE end == base + 1 + Len(R)
<1>3. /\ q \in Memories /\ Count(q, base) = c
      /\ \A x \in Nat : x < base \/ base + 1 + Len(R) <= x => Rd(q, x) = Rd(m, x)
      /\ \A i \in 1..Len(R) : base + 1 + i <= EepromSize => Rd(q, base + i) = R[i]
  <2>1. base < EepromSize
    BY <1>1
  <2> QED BY <2>1, WrittenBehind
<1> HIDE DEF T, R, q, c
<1>4. /\ o \in [Nat -> Nat] /\ o[0] = 0 /\ o[c] = Len(R)
      /\ \A k \in 1..c : o[k] = o[k - 1] + Len(T[k])
      /\ \A k \in 1..c : \A j \in 1..Len(T[k]) :
            o[k - 1] + j \in 1..Len(R) /\ R[o[k - 1] + j] = T[k][j]
  BY <1>1, <1>2 DEF Offsets, c
<1>5. base + 1 + Len(R) <= EepromSize
  BY DEF R
<1>6. ASSUME NEW k \in Nat, k < c
      PROVE  /\ Line(q, base + 1 + o[k]) = s[k + 1] /\ Rd(q, base + 1 + o[k]) = Len(s[k + 1])
             /\ o[k + 1] = o[k] + Len(s[k + 1]) + 1 /\ o[k] \in Nat
  <2> DEFINE r == s[k + 1]  a == base + 1 + o[k]
  <2>1. k + 1 \in 1..c /\ (k + 1) - 1 = k /\ o[k] \in Nat
    <3>1. c \in Nat
      BY <1>1
    <3>2. o[k] \in Nat
      BY <1>4
    <3> QED BY <1>6, <3>1, <3>2
  <2>2. r \in Seq(Byte) /\ Len(r) \in Byte /\ Len(r) \in Nat /\ T[k + 1] = Record(r)
    BY <1>1, <2>1
  <2> HIDE DEF r
  <2>3. /\ Len(Record(r)) = Len(r) + 1
        /\ Record(r)[1] = Len(r) /\ \A i \in 1..Len(r) : Record(r)[1 + i] = r[i]
    BY <2>2, RecordIs
  <2>4. /\ o[k + 1] = o[k] + Len(T[k + 1])
        /\ \A j \in 1..Len(T[k + 1]) : o[k] + j \in 1..Len(R) /\ R[o[k] + j] = T[k + 1][j]
    BY <1>4, <2>1
  <2>5. ASSUME NEW j \in 1..(Len(r) + 1) PROVE Rd(q, base + (o[k] + j)) = Record(r)[j]
    <3>1. j \in 1..Len(T[k + 1])
      BY <2>2, <2>3
    <3>2. o[k] + j \in 1..Len(R) /\ R[o[k] + j] = Record(r)[j]
      BY <2>2, <2>4, <3>1
    <3> DEFINE i == o[k] + j
    <3>3. i \in 1..Len(R) /\ base + 1 + i <= EepromSize
      BY <1>1, <1>5, <3>2
    <3> HIDE DEF i
    <3>4. Rd(q, base + i) = R[i]
      BY <1>3, <3>3
    <3> QED BY <3>2, <3>4 DEF i
  <2>6. Rd(q, a) = Len(r)
    <3>1. 1 \in 1..(Len(r) + 1) /\ base + (o[k] + 1) = a
      BY <2>1, <2>2
    <3>2. Rd(q, base + (o[k] + 1)) = Record(r)[1]
      BY <2>5, <3>1
    <3> QED BY <2>3, <3>1, <3>2
  <2>7. ASSUME NEW i \in 1..Len(r) PROVE Rd(q, a + i) = r[i]
    <3>1. 1 + i \in 1..(Len(r) + 1) /\ base + (o[k] + (1 + i)) = a + i
      BY <2>1, <2>2
    <3>2. Rd(q, base + (o[k] + (1 + i))) = Record(r)[1 + i]
      BY <2>5, <3>1
    <3> QED BY <2>3, <3>1, <3>2
  <2>8. a \in Nat /\ q \in Memories
    BY <1>3, <2>1
  <2> HIDE DEF a
  <2>9. Line(q, a) = r
    BY <2>2, <2>6, <2>7, <2>8, LineWritten
  <2>10. o[k + 1] = o[k] + Len(r) + 1
    <3>1. o[k + 1] = o[k] + Len(T[k + 1]) /\ Len(T[k + 1]) = Len(r) + 1
      BY <2>2, <2>3, <2>4
    <3>2. o[k] \in Nat /\ Len(r) \in Nat
      BY <2>1, <2>2
    <3> HIDE DEF T
    <3> QED BY <3>1, <3>2
  <2> QED BY <2>1, <2>6, <2>9, <2>10 DEF a, r
<1> DEFINE A == {k \in Nat : k <= c => Pos(q, base, k) = base + 1 + o[k]}
<1>7. 0 \in A
  <2>1. q \in Memories
    BY <1>3
  <2>2. Pos(q, base, 0) = base + 1
    BY <2>1, PosIs
  <2> QED BY <1>4, <2>2
<1>8. ASSUME NEW k \in Nat, k \in A PROVE k + 1 \in A
  <2>1. SUFFICES ASSUME k + 1 <= c PROVE Pos(q, base, k + 1) = base + 1 + o[k + 1]
    OBVIOUS
  <2>2. k < c /\ k <= c
    BY <1>1, <2>1
  <2>3. Pos(q, base, k) = base + 1 + o[k]
    BY <1>8, <2>2
  <2>4. q \in Memories
    BY <1>3
  <2>5. Pos(q, base, k + 1) = Pos(q, base, k) + Rd(q, Pos(q, base, k)) + 1
    BY <2>4, PosIs
  <2>6. /\ Rd(q, base + 1 + o[k]) = Len(s[k + 1]) /\ o[k] \in Nat
        /\ o[k + 1] = o[k] + Len(s[k + 1]) + 1
    BY <1>6, <2>2
  <2>7. Len(s[k + 1]) \in Nat
    BY <1>1, <2>1
  <2> QED BY <2>3, <2>5, <2>6, <2>7
<1> HIDE DEF A
<1>9. ASSUME NEW k \in Nat, k <= c PROVE Pos(q, base, k) = base + 1 + o[k]
  <2>1. Nat \subseteq A
    BY <1>7, <1>8, NatSetInduction
  <2> QED BY <1>9, <2>1 DEF A
<1>10. End(q, base) = end
  <2>1. Pos(q, base, c) = base + 1 + o[c]
    BY <1>1, <1>9
  <2> QED BY <1>3, <1>4, <2>1 DEF End
<1>11. ListAt(q, base) = s
  <2>1. q \in Memories
    BY <1>3
  <2>2. /\ ListAt(q, base) \in Seq(Seq(Byte)) /\ Len(ListAt(q, base)) = c
        /\ \A i \in 1..c : ListAt(q, base)[i] = Line(q, Pos(q, base, i - 1))
    BY <1>3, <2>1, ListIs
  <2>3. ASSUME NEW i \in 1..c PROVE ListAt(q, base)[i] = s[i]
    <3> DEFINE k == i - 1
    <3>1. k \in Nat /\ k < c /\ k <= c /\ k + 1 = i
      BY <1>1
    <3>2. ListAt(q, base)[i] = Line(q, Pos(q, base, k))
      BY <2>2
    <3> HIDE DEF k
    <3>3. Pos(q, base, k) = base + 1 + o[k] /\ Line(q, base + 1 + o[k]) = s[k + 1]
      BY <1>6, <1>9, <3>1
    <3> QED BY <3>1, <3>2, <3>3
  <2>4. s \in Seq(Seq(Byte)) /\ Len(s) = c
    BY DEF Storable, c
  <2> QED BY <2>2, <2>3, <2>4, SameList
<1>12. Edited(m, q, base, end, s, end)
  BY <1>3, <1>10, <1>11 DEF Edited
<1> QED BY <1>12 DEF R, q

-----------------------------------------------------------------------------
(* The edits, whatever they name and wherever the list ends. *)

\* q has the bytes of m in front of base.
OnlyFrom(m, q, base) ==
    q \in Memories /\ \A x \in Nat : x < base => Rd(q, x) = Rd(m, x)

\* What lies behind a line is bytes.
LEMMA BehindType ==
    ASSUME EepromSize \in Nat, NEW m \in Memories, NEW base \in Nat, NEW n \in Nat
    PROVE  Behind(m, base, n) \in Seq(Byte)
<1> DEFINE e == End(m, base)  N == Pos(m, base, n + 1)  b == IF n < Count(m, base) THEN e ELSE 0
<1>1. N \in Nat /\ e \in Nat
  <2>1. n + 1 \in Nat /\ Count(m, base) \in Nat
    BY ListIs
  <2> QED BY <2>1, PosIs DEF End
<1>2. b \in Nat
  BY <1>1
<1>3. Behind(m, base, n) = Slice(m, N, b)
  BY DEF Behind
<1> HIDE DEF e, N, b
<1>4. Slice(m, N, b) \in Seq(Byte)
  BY <1>1, <1>2, SliceIs
<1> QED BY <1>3, <1>4

\* Nothing in front of a write changes.
LEMMA PutOnlyFrom ==
    ASSUME EepromSize \in Nat, NEW m \in Memories, NEW base \in Nat, NEW a \in Nat, base <= a,
           NEW s \in Seq(Byte)
    PROVE  OnlyFrom(m, Put(m, a, s), base)
<1>1. /\ Put(m, a, s) \in Memories
      /\ \A x \in Nat : x < a \/ a + Len(s) <= x => Rd(Put(m, a, s), x) = Rd(m, x)
  BY PutIs
<1> QED BY <1>1 DEF OnlyFrom

\* Nor in front of a count.
LEMMA SetCountOnlyFrom ==
    ASSUME EepromSize \in Nat, NEW m \in Memories, NEW base \in Nat, NEW n \in Int
    PROVE  OnlyFrom(m, SetCount(m, base, n), base)
<1>1. /\ SetCount(m, base, n) \in Memories
      /\ \A x \in Nat : x # base => Rd(SetCount(m, base, n), x) = Rd(m, x)
  BY SetCountIs
<1> QED BY <1>1 DEF OnlyFrom

\* add writes the count and behind the last line.
LEMMA AppendedOnlyFrom ==
    ASSUME EepromSize \in Nat, NEW m \in Memories, NEW base \in Nat,
           NEW r \in Seq(Byte), Len(r) \in Byte
    PROVE  OnlyFrom(m, Appended(m, base, r), base)
<1> DEFINE c == Count(m, base)  e == End(m, base)  g == SetCount(m, base, c + 1)
           s == Record(r)
<1>1. c \in Nat /\ e = Pos(m, base, c)
  BY ListIs DEF End
<1>2. e \in Nat /\ base <= e /\ c + 1 \in Int
  <2>1. Pos(m, base, c) \in Nat /\ base + 1 + c <= Pos(m, base, c)
    BY <1>1, PosAbove
  <2> HIDE DEF c, e
  <2> QED BY <1>1, <2>1
<1>3. s \in Seq(Byte)
  BY RecordIs
<1>4. Appended(m, base, r) = Put(g, e, s)
  BY DEF Appended
<1> DEFINE k == c + 1
<1>5. OnlyFrom(m, g, base)
  <2>1. k \in Int
    BY <1>2
  <2> HIDE DEF k
  <2>2. OnlyFrom(m, SetCount(m, base, k), base)
    BY <2>1, SetCountOnlyFrom
  <2> QED BY <2>2 DEF k
<1> HIDE DEF c, e, g, s
<1>6. OnlyFrom(g, Put(g, e, s), base)
  <2>1. g \in Memories
    BY <1>5 DEF OnlyFrom
  <2> QED BY <1>2, <1>3, <2>1, PutOnlyFrom
<1> QED BY <1>4, <1>5, <1>6 DEF OnlyFrom

\* del writes the count and from the line on.
LEMMA WithoutOnlyFrom ==
    ASSUME EepromSize \in Nat, NEW m \in Memories, NEW base \in Nat, NEW n \in Nat
    PROVE  OnlyFrom(m, Without(m, base, n), base)
<1> DEFINE c == Count(m, base)  P == Pos(m, base, n)  s == Behind(m, base, n)
           g == Put(m, P, s)  k == c - 1
<1>1. P \in Nat /\ base <= P
  <2>1. P \in Nat /\ base + 1 + n <= P
    BY PosAbove
  <2> HIDE DEF P
  <2> QED BY <2>1
<1>2. s \in Seq(Byte)
  BY BehindType
<1>3. k \in Int
  BY ListIs
<1>4. Without(m, base, n) = SetCount(g, base, k)
  BY DEF Without
<1> HIDE DEF c, P, s, k
<1>5. OnlyFrom(m, g, base)
  BY <1>1, <1>2, PutOnlyFrom
<1> HIDE DEF g
<1>6. OnlyFrom(g, SetCount(g, base, k), base)
  <2>1. g \in Memories
    BY <1>5 DEF OnlyFrom
  <2> QED BY <1>3, <2>1, SetCountOnlyFrom
<1> QED BY <1>4, <1>5, <1>6 DEF OnlyFrom

\* rep writes from the line on.
LEMMA ReplacedOnlyFrom ==
    ASSUME EepromSize \in Nat, NEW m \in Memories, NEW base \in Nat, NEW n \in Nat,
           NEW r \in Seq(Byte), Len(r) \in Byte
    PROVE  OnlyFrom(m, Replaced(m, base, n, r), base)
<1> DEFINE P == Pos(m, base, n)  N == Pos(m, base, n + 1)
           w == Behind(m, base, n)  G == Growth(m, base, n, r)  a == N + Len(w)
           rec == Record(r)
           left == IF (Len(w) % 256) + G < 256 THEN Slice(m, a, a + G) ELSE <<>>
           s == rec \o w \o left
<1>1. P \in Nat /\ base <= P
  <2>1. P \in Nat /\ base + 1 + n <= P
    BY PosAbove
  <2> HIDE DEF P
  <2> QED BY <2>1
<1>2. w \in Seq(Byte) /\ rec \in Seq(Byte)
  BY BehindType, RecordIs
<1>3. a \in Nat /\ a + G \in Nat
  <2>1. n + 1 \in Nat
    OBVIOUS
  <2>2. N \in Nat /\ G \in Nat
    BY <2>1, PosIs, GrowthIs
  <2>3. Len(w) \in Nat
    BY <1>2
  <2> HIDE DEF N, G, w
  <2> QED BY <2>2, <2>3
<1>4. Replaced(m, base, n, r) = Put(m, P, s)
  BY DEF Replaced
<1> DEFINE b == a + G
<1>5. Slice(m, a, b) \in Seq(Byte)
  <2> HIDE DEF a, b
  <2> QED BY <1>3, SliceIs DEF b
<1> HIDE DEF P, N, w, G, a, rec
<1>6. left \in Seq(Byte)
  <2>1. <<>> \in Seq(Byte)
    OBVIOUS
  <2> QED BY <1>5, <2>1
<1> HIDE DEF left
<1>7. s \in Seq(Byte)
  BY <1>2, <1>6
<1> HIDE DEF s
<1>8. OnlyFrom(m, Put(m, P, s), base)
  BY <1>1, <1>7, PutOnlyFrom
<1> QED BY <1>4, <1>8

\* A list whose count is set to zero.
LEMMA ClearedIs ==
    ASSUME EepromSize \in Nat, NEW m \in Memories, NEW base \in Nat, base < EepromSize
    PROVE  /\ SetCount(m, base, 0) \in Memories /\ Count(SetCount(m, base, 0), base) = 0
           /\ ListAt(SetCount(m, base, 0), base) = <<>>
           /\ End(SetCount(m, base, 0), base) = base + 1
           /\ \A x \in Nat : x # base => Rd(SetCount(m, base, 0), x) = Rd(m, x)
<1> DEFINE q == SetCount(m, base, 0)
<1>1. 0 \in Int /\ 0 % 256 = 0
  BY CountType DEF Byte
<1>2. /\ q \in Memories /\ Rd(q, base) = 0
      /\ \A x \in Nat : x # base => Rd(q, x) = Rd(m, x)
  BY <1>1, SetCountIs
<1> HIDE DEF q
<1>3. Count(q, base) = 0
  BY <1>2 DEF Count
<1>4. End(q, base) = base + 1
  BY <1>2, <1>3, PosIs DEF End
<1>5. ListAt(q, base) = <<>>
  <2>1. ListAt(q, base) \in Seq(Seq(Byte)) /\ Len(ListAt(q, base)) = 0
    BY <1>2, <1>3, ListIs
  <2> QED BY <2>1
<1> QED BY <1>2, <1>3, <1>4, <1>5 DEF q

-----------------------------------------------------------------------------
(* The two lists, each in its part of the EEPROM. *)

\* The rules end in front of the configuration.
Placed(m) == m \in Memories /\ End(m, EE_POS_RULES) <= EE_CONF_POS

\* Both lists are in their place, and neither count will be taken for an error.
Room(m) ==
    /\ Placed(m) /\ End(m, EE_CONF_POS) <= EepromSize
    /\ Count(m, EE_POS_RULES) <= MaxRules /\ Count(m, EE_CONF_POS) < 255

\* What is written from EE_CONF_POS on is of no matter to the rules.
LEMMA RulesKept ==
    ASSUME Division, NEW m, Placed(m), NEW q, OnlyFrom(m, q, EE_CONF_POS)
    PROVE  /\ Placed(q) /\ ListAt(q, EE_POS_RULES) = ListAt(m, EE_POS_RULES)
           /\ Count(q, EE_POS_RULES) = Count(m, EE_POS_RULES)
<1>1. EepromSize \in Nat /\ EE_CONF_POS \in Nat /\ EE_POS_RULES \in Nat /\ EE_POS_RULES < EE_CONF_POS
  BY DEF Division, EE_POS_RULES
<1>2. m \in Memories /\ q \in Memories /\ End(m, EE_POS_RULES) <= EE_CONF_POS
  BY DEF Placed, OnlyFrom
<1>3. End(m, EE_POS_RULES) \in Nat
  <2>1. Count(m, EE_POS_RULES) \in Nat
    BY <1>1, <1>2, ListIs
  <2> QED BY <1>1, <1>2, <2>1, PosIs DEF End
<1>4. \A x \in Nat : EE_POS_RULES <= x /\ x < End(m, EE_POS_RULES) => Rd(q, x) = Rd(m, x)
  <2> DEFINE e == End(m, EE_POS_RULES)  c == EE_CONF_POS
  <2>1. e \in Nat /\ c \in Nat /\ e <= c
    BY <1>1, <1>2, <1>3
  <2>2. \A x \in Nat : x < c => Rd(q, x) = Rd(m, x)
    BY DEF OnlyFrom
  <2> HIDE DEF e, c
  <2>3. \A x \in Nat : x < e => Rd(q, x) = Rd(m, x)
    BY <2>1, <2>2
  <2> QED BY <2>3 DEF e
<1>5. /\ ListAt(q, EE_POS_RULES) = ListAt(m, EE_POS_RULES)
      /\ End(q, EE_POS_RULES) = End(m, EE_POS_RULES)
  BY <1>1, <1>2, <1>4, ListKept
<1>6. Count(q, EE_POS_RULES) = Count(m, EE_POS_RULES)
  BY <1>1 DEF Count, OnlyFrom
<1> QED BY <1>2, <1>5, <1>6 DEF Placed

\* A change of the rules that ends in front of the configuration leaves it.
LEMMA RulesEdited ==
    ASSUME Division, NEW m, Room(m), NEW q, NEW lim \in Nat, NEW lines, NEW end,
           Edited(m, q, EE_POS_RULES, lim, lines, end),
           lim <= EE_CONF_POS, end <= EE_CONF_POS, Len(lines) <= MaxRules
    PROVE  /\ Room(q) /\ ListAt(q, EE_POS_RULES) = lines
           /\ ListAt(q, EE_CONF_POS) = ListAt(m, EE_CONF_POS)
<1>1. EepromSize \in Nat /\ EE_CONF_POS \in Nat /\ EE_POS_RULES \in Nat
  BY DEF Division, EE_POS_RULES
<1>2. m \in Memories /\ q \in Memories /\ ListAt(q, EE_POS_RULES) = lines
      /\ End(q, EE_POS_RULES) = end /\ End(m, EE_CONF_POS) <= EepromSize
      /\ Count(m, EE_CONF_POS) < 255
  BY DEF Room, Placed, Edited
<1>3. \A x \in Nat : EE_CONF_POS <= x => Rd(q, x) = Rd(m, x)
  <2> DEFINE c == EE_CONF_POS
  <2>1. c \in Nat /\ lim <= c
    BY <1>1
  <2>2. \A x \in Nat : lim <= x => Rd(q, x) = Rd(m, x)
    BY DEF Edited
  <2> HIDE DEF c
  <2>3. \A x \in Nat : c <= x => Rd(q, x) = Rd(m, x)
    BY <2>1, <2>2
  <2> QED BY <2>3 DEF c
<1>4. /\ ListAt(q, EE_CONF_POS) = ListAt(m, EE_CONF_POS)
      /\ End(q, EE_CONF_POS) = End(m, EE_CONF_POS)
  BY <1>1, <1>2, <1>3, ListKept
<1>5. Count(q, EE_CONF_POS) = Count(m, EE_CONF_POS)
  BY <1>1, <1>3 DEF Count
<1>6. Count(q, EE_POS_RULES) <= MaxRules
  BY <1>1, <1>2, ListIs
<1> QED BY <1>2, <1>4, <1>5, <1>6 DEF Room, Placed

\* A change of the configuration that ends in the EEPROM leaves the rules.
LEMMA ConfEdited ==
    ASSUME Division, NEW m, Room(m), NEW q, NEW lim, NEW lines, NEW end,
           Edited(m, q, EE_CONF_POS, lim, lines, end),
           end <= EepromSize, Len(lines) < 255
    PROVE  /\ Room(q) /\ ListAt(q, EE_CONF_POS) = lines
           /\ ListAt(q, EE_POS_RULES) = ListAt(m, EE_POS_RULES)
<1>1. EepromSize \in Nat /\ EE_CONF_POS \in Nat
  BY DEF Division
<1>2. OnlyFrom(m, q, EE_CONF_POS) /\ ListAt(q, EE_CONF_POS) = lines /\ End(q, EE_CONF_POS) = end
      /\ q \in Memories
  BY DEF OnlyFrom, Edited
<1>3. Placed(m) /\ Count(m, EE_POS_RULES) <= MaxRules
  BY DEF Room
<1>4. /\ Placed(q) /\ ListAt(q, EE_POS_RULES) = ListAt(m, EE_POS_RULES)
      /\ Count(q, EE_POS_RULES) = Count(m, EE_POS_RULES)
  BY <1>2, <1>3, RulesKept
<1>5. Count(q, EE_CONF_POS) < 255
  BY <1>1, <1>2, ListIs
<1> QED BY <1>2, <1>3, <1>4, <1>5 DEF Room

-----------------------------------------------------------------------------
(* The rules of a client who keeps to the documentation. *)

\* A list ends behind its count.
LEMMA EndType ==
    ASSUME EepromSize \in Nat, NEW m \in Memories, NEW base \in Nat
    PROVE  End(m, base) \in Nat /\ base + 1 <= End(m, base)
<1> DEFINE c == Count(m, base)
<1>1. c \in Nat
  BY ListIs
<1> HIDE DEF c
<1>2. Pos(m, base, c) \in Nat /\ base + 1 + c <= Pos(m, base, c)
  BY <1>1, PosAbove
<1>3. End(m, base) = Pos(m, base, c)
  BY DEF End, c
<1> HIDE DEF End
<1> QED BY <1>1, <1>2, <1>3

\* Even the add that turns the count of 255 to 0 leaves the rules in place.
LEMMA AddPlaced ==
    ASSUME Division, NEW m, Placed(m), NEW r \in Seq(Byte), Len(r) \in Byte,
           End(m, EE_POS_RULES) + Len(r) + 1 <= EE_CONF_POS
    PROVE  Placed(Appended(m, EE_POS_RULES, r))
<1> DEFINE base == EE_POS_RULES
           q == Appended(m, base, r)
           e == End(m, base)
           l == Len(r)
<1>1. /\ EepromSize \in Nat /\ base \in Nat /\ EE_CONF_POS \in Nat /\ EE_CONF_POS < EepromSize
      /\ base < EE_CONF_POS /\ base = 0
  BY DEF Division, EE_POS_RULES
<1>2. m \in Memories /\ l \in Nat
  BY DEF Placed
<1>3. e \in Nat /\ base + 1 <= e
  BY <1>1, <1>2, EndType
<1>4. Count(m, base) < 255 \/ Count(m, base) = 255
  <2> DEFINE c == Count(m, base)
  <2>1. c \in Byte
    BY <1>1, <1>2, ListIs
  <2> HIDE DEF c
  <2>2. c < 255 \/ c = 255
    BY <2>1 DEF Byte
  <2> QED BY <2>2 DEF c
<1>5. OnlyFrom(m, q, base)
  BY <1>1, <1>2, AppendedOnlyFrom
<1>6. e + l + 1 <= EE_CONF_POS
  OBVIOUS
<1> HIDE DEF q, base, e, l
<1>7. CASE Count(m, base) < 255
  <2>1. base < EepromSize /\ e + l + 1 <= EepromSize
    BY <1>1, <1>2, <1>3, <1>6
  <2>2. Edited(m, q, base, e + l + 1, Append(ListAt(m, base), r), e + l + 1)
    BY <1>1, <1>2, <1>7, <2>1, AppendedIs DEF q, e, l
  <2> QED BY <1>6, <2>2 DEF Edited, Placed, q, base
<1>8. CASE Count(m, base) = 255
  <2> DEFINE g == SetCount(m, base, 255 + 1)  s == Record(r)
  <2>1. q = Put(g, e, s) /\ s \in Seq(Byte)
    BY <1>8, RecordIs DEF q, e, Appended
  <2>2. /\ g \in Memories /\ Rd(g, base) = 0
    <3> DEFINE k == 255 + 1
    <3>1. k % 256 = 0
      OBVIOUS
    <3>3. k \in Int /\ EepromSize \in Nat /\ m \in Memories /\ base \in Nat /\ base < EepromSize
      BY <1>1, <1>2
    <3> HIDE DEF k
    <3>2. SetCount(m, base, k) \in Memories
      BY <3>3, SetCountIs
    <3>4. Rd(SetCount(m, base, k), base) = 0
      BY <3>1, <3>3, CountIsSet
    <3> QED BY <3>2, <3>4 DEF k
  <2> HIDE DEF g, s
  <2>3. q \in Memories /\ \A x \in Nat : x < e => Rd(q, x) = Rd(g, x)
    BY <1>1, <1>3, <2>1, <2>2, PutIs
  <2>4. Count(q, base) = 0
    BY <1>1, <1>3, <2>2, <2>3 DEF Count
  <2>5. End(q, base) = base + 1
    BY <1>1, <2>3, <2>4, PosIs DEF End
  <2> QED BY <1>1, <2>3, <2>5 DEF Placed, q, base
<1> QED BY <1>4, <1>7, <1>8 DEF q, base

\* del moves the end to the front.
LEMMA DelPlaced ==
    ASSUME Division, NEW m, Placed(m), NEW n \in Nat, n < Count(m, EE_POS_RULES)
    PROVE  Placed(Without(m, EE_POS_RULES, n))
<1> DEFINE base == EE_POS_RULES
<1>1. /\ EepromSize \in Nat /\ base \in Nat /\ EE_CONF_POS \in Nat /\ EE_CONF_POS < EepromSize
  BY DEF Division, EE_POS_RULES
<1>2. m \in Memories /\ End(m, base) <= EE_CONF_POS
  BY DEF Placed
<1>3. End(m, base) \in Nat /\ End(m, base) <= EepromSize
  <2>1. End(m, base) \in Nat
    BY <1>1, <1>2, EndType
  <2> HIDE DEF base
  <2> QED BY <1>1, <1>2, <2>1
<1> HIDE DEF base
<1>4. PICK end \in Nat :
         /\ end <= End(m, base)
         /\ Edited(m, Without(m, base, n), base, End(m, base),
                   RemoveAt(ListAt(m, base), n + 1), end)
  BY <1>1, <1>2, <1>3, WithoutIs DEF base
<1>5. end <= EE_CONF_POS
  BY <1>1, <1>2, <1>3, <1>4
<1> QED BY <1>4, <1>5 DEF Edited, Placed, base

\* rep ends where the client made sure it may.
LEMMA RepPlaced ==
    ASSUME Division, NEW m, Placed(m), NEW n \in Nat, n < Count(m, EE_POS_RULES),
           NEW r \in Seq(Byte), Len(r) \in Byte,
           End(m, EE_POS_RULES) + Len(r) - Rd(m, Pos(m, EE_POS_RULES, n)) <= EE_CONF_POS
    PROVE  Placed(Replaced(m, EE_POS_RULES, n, r))
<1> DEFINE base == EE_POS_RULES
           end == End(m, base) + Len(r) - Rd(m, Pos(m, base, n))
<1>1. /\ EepromSize \in Nat /\ base \in Nat /\ EE_CONF_POS \in Nat /\ EE_CONF_POS < EepromSize
  BY DEF Division, EE_POS_RULES
<1>2. m \in Memories /\ end <= EE_CONF_POS
  BY DEF Placed
<1>3. end \in Int /\ end <= EepromSize
  <2>1. End(m, base) \in Nat /\ Len(r) \in Nat /\ Rd(m, Pos(m, base, n)) \in Nat
    BY <1>1, <1>2, EndType, RdType
  <2>2. end \in Int
    BY <2>1
  <2> HIDE DEF end
  <2> QED BY <1>1, <1>2, <2>2
<1>4. Edited(m, Replaced(m, base, n, r), base, end + Growth(m, base, n, r),
             ReplaceAt(ListAt(m, base), n + 1, r), end)
  <2> HIDE DEF base
  <2> QED BY <1>1, <1>2, <1>3, ReplacedIs DEF base
<1> QED BY <1>2, <1>4 DEF Edited, Placed

-----------------------------------------------------------------------------
(* The edits of a careful client. *)

\* What room means, byte by byte.
LEMMA RoomIs ==
    ASSUME Division, NEW m, Room(m)
    PROVE  /\ EepromSize \in Nat /\ EE_CONF_POS \in Nat /\ EE_POS_RULES \in Nat
           /\ EE_CONF_POS < EepromSize /\ EE_POS_RULES < EepromSize /\ m \in Memories
           /\ MaxRules \in Nat /\ MaxRules < 255
           /\ End(m, EE_POS_RULES) \in Nat /\ End(m, EE_POS_RULES) <= EE_CONF_POS
           /\ End(m, EE_CONF_POS) \in Nat /\ End(m, EE_CONF_POS) <= EepromSize
           /\ Count(m, EE_POS_RULES) \in Nat /\ Count(m, EE_POS_RULES) <= MaxRules
           /\ Count(m, EE_CONF_POS) \in Nat /\ Count(m, EE_CONF_POS) < 255
<1>1. /\ EepromSize \in Nat /\ EE_CONF_POS \in Nat /\ EE_POS_RULES \in Nat
      /\ EE_CONF_POS < EepromSize /\ EE_POS_RULES < EepromSize
      /\ MaxRules \in Nat /\ MaxRules < 255
  BY DEF Division, EE_POS_RULES
<1>2. /\ m \in Memories /\ End(m, EE_POS_RULES) <= EE_CONF_POS /\ End(m, EE_CONF_POS) <= EepromSize
      /\ Count(m, EE_POS_RULES) <= MaxRules /\ Count(m, EE_CONF_POS) < 255
  BY DEF Room, Placed
<1>3. End(m, EE_POS_RULES) \in Nat /\ End(m, EE_CONF_POS) \in Nat
  BY <1>1, <1>2, EndType
<1>4. Count(m, EE_POS_RULES) \in Nat /\ Count(m, EE_CONF_POS) \in Nat
  BY <1>1, <1>2, ListIs
<1> QED BY <1>1, <1>2, <1>3, <1>4

\* The other list.
OtherOf(base) == IF base = EE_POS_RULES THEN EE_CONF_POS ELSE EE_POS_RULES

\* An edit that stays in the list's place.
LEMMA EditHasRoom ==
    ASSUME Division, NEW m, Room(m), NEW q, NEW base \in Lists, NEW lim \in Nat,
           NEW lines, NEW end, Edited(m, q, base, lim, lines, end),
           lim <= Limit(base), end <= Limit(base), Len(lines) <= MaxLines(base)
    PROVE  Room(q) /\ ListAt(q, base) = lines
           /\ ListAt(q, OtherOf(base)) = ListAt(m, OtherOf(base))
<1>1. EE_POS_RULES # EE_CONF_POS
  BY DEF Division, EE_POS_RULES
<1>2. CASE base = EE_POS_RULES
  <2>1. lim <= EE_CONF_POS /\ end <= EE_CONF_POS /\ Len(lines) <= MaxRules
        /\ Edited(m, q, EE_POS_RULES, lim, lines, end)
    BY <1>2 DEF Limit, MaxLines
  <2>2. /\ Room(q) /\ ListAt(q, EE_POS_RULES) = lines
        /\ ListAt(q, EE_CONF_POS) = ListAt(m, EE_CONF_POS)
    BY <2>1, RulesEdited
  <2> QED BY <1>2, <2>2 DEF OtherOf
<1>3. CASE base = EE_CONF_POS
  <2>1. end <= EepromSize /\ Len(lines) <= 254 /\ Edited(m, q, EE_CONF_POS, lim, lines, end)
    BY <1>1, <1>3 DEF Limit, MaxLines
  <2>2. Len(lines) < 255
    <3>1. q \in Memories /\ ListAt(q, EE_CONF_POS) = lines /\ EepromSize \in Nat /\ EE_CONF_POS \in Nat
      BY <2>1 DEF Edited, Division
    <3>2. Len(lines) \in Nat
      BY <3>1, ListIs
    <3> QED BY <2>1, <3>2
  <2>3. /\ Room(q) /\ ListAt(q, EE_CONF_POS) = lines
        /\ ListAt(q, EE_POS_RULES) = ListAt(m, EE_POS_RULES)
    BY <2>1, <2>2, ConfEdited
  <2> QED BY <1>1, <1>3, <2>3 DEF OtherOf
<1> QED BY <1>2, <1>3 DEF Lists

\* What both lists have in common.
LEMMA ListHasRoom ==
    ASSUME Division, NEW m, Room(m), NEW base \in Lists
    PROVE  /\ EepromSize \in Nat /\ m \in Memories /\ base \in Nat /\ base < EepromSize
           /\ Limit(base) \in Nat /\ Limit(base) <= EepromSize
           /\ End(m, base) \in Nat /\ End(m, base) <= Limit(base)
           /\ MaxLines(base) \in Nat /\ MaxLines(base) < 255
           /\ Count(m, base) \in Nat /\ Count(m, base) <= MaxLines(base)
           /\ ListAt(m, base) \in Seq(Seq(Byte)) /\ Len(ListAt(m, base)) = Count(m, base)
<1>1. /\ EepromSize \in Nat /\ EE_CONF_POS \in Nat /\ EE_POS_RULES \in Nat
      /\ EE_CONF_POS < EepromSize /\ EE_POS_RULES < EepromSize /\ m \in Memories
      /\ MaxRules \in Nat /\ MaxRules < 255
      /\ End(m, EE_POS_RULES) \in Nat /\ End(m, EE_POS_RULES) <= EE_CONF_POS
      /\ End(m, EE_CONF_POS) \in Nat /\ End(m, EE_CONF_POS) <= EepromSize
      /\ Count(m, EE_POS_RULES) \in Nat /\ Count(m, EE_POS_RULES) <= MaxRules
      /\ Count(m, EE_CONF_POS) \in Nat /\ Count(m, EE_CONF_POS) < 255
  BY RoomIs
<1>2. base \in Nat
  BY <1>1 DEF Lists
<1>3. ListAt(m, base) \in Seq(Seq(Byte)) /\ Len(ListAt(m, base)) = Count(m, base)
  BY <1>1, <1>2, ListIs
<1>4. EE_POS_RULES # EE_CONF_POS
  BY DEF Division, EE_POS_RULES
<1>5. CASE base = EE_POS_RULES
  BY <1>1, <1>3, <1>5 DEF Limit, MaxLines
<1>6. CASE base = EE_CONF_POS
  BY <1>1, <1>3, <1>4, <1>6 DEF Limit, MaxLines
<1> QED BY <1>5, <1>6 DEF Lists

\* add, of a line that fits and a count that may grow.
LEMMA AddHasRoom ==
    ASSUME Division, NEW m, Room(m), NEW base \in Lists, NEW r \in Seq(Byte), Len(r) \in Byte,
           End(m, base) + Len(r) + 1 <= Limit(base), Count(m, base) < MaxLines(base)
    PROVE  /\ Room(Appended(m, base, r))
           /\ ListAt(Appended(m, base, r), base) = Append(ListAt(m, base), r)
           /\ ListAt(Appended(m, base, r), OtherOf(base)) = ListAt(m, OtherOf(base))
<1> DEFINE end == End(m, base) + Len(r) + 1
           L == Append(ListAt(m, base), r)
<1>1. /\ EepromSize \in Nat /\ m \in Memories /\ base \in Nat /\ base < EepromSize
      /\ Limit(base) \in Nat /\ Limit(base) <= EepromSize
      /\ End(m, base) \in Nat
      /\ MaxLines(base) \in Nat /\ MaxLines(base) < 255
      /\ Count(m, base) \in Nat
      /\ ListAt(m, base) \in Seq(Seq(Byte)) /\ Len(ListAt(m, base)) = Count(m, base)
  BY ListHasRoom
<1>2. end \in Nat /\ end <= EepromSize /\ Count(m, base) < 255
  <2>1. Len(r) \in Nat
    OBVIOUS
  <2> QED BY <1>1, <2>1
<1>3. Edited(m, Appended(m, base, r), base, end, L, end)
  BY <1>1, <1>2, AppendedIs
<1>4. Len(L) <= MaxLines(base) /\ end <= Limit(base)
  BY <1>1
<1> HIDE DEF L, end
<1> DEFINE q == Appended(m, base, r)
<1> HIDE DEF q
<1>5. Edited(m, q, base, end, L, end)
  BY <1>3 DEF q
<1>6. end \in Nat /\ end <= Limit(base) /\ Len(L) <= MaxLines(base)
  BY <1>2, <1>4
<1>7. Room(q) /\ ListAt(q, base) = L /\ ListAt(q, OtherOf(base)) = ListAt(m, OtherOf(base))
  BY <1>5, <1>6, EditHasRoom
<1> QED BY <1>7 DEF L, q

\* del, of a line that is there.
LEMMA DelHasRoom ==
    ASSUME Division, NEW m, Room(m), NEW base \in Lists, NEW n \in Nat, n < Count(m, base)
    PROVE  /\ Room(Without(m, base, n))
           /\ ListAt(Without(m, base, n), base) = RemoveAt(ListAt(m, base), n + 1)
           /\ ListAt(Without(m, base, n), OtherOf(base)) = ListAt(m, OtherOf(base))
<1> DEFINE L == RemoveAt(ListAt(m, base), n + 1)
           lim == End(m, base)
<1>1. /\ EepromSize \in Nat /\ m \in Memories /\ base \in Nat
      /\ Limit(base) \in Nat /\ Limit(base) <= EepromSize
      /\ lim \in Nat /\ lim <= Limit(base)
      /\ MaxLines(base) \in Nat
      /\ Count(m, base) \in Nat /\ Count(m, base) <= MaxLines(base)
      /\ ListAt(m, base) \in Seq(Seq(Byte)) /\ Len(ListAt(m, base)) = Count(m, base)
  BY ListHasRoom
<1>2. lim <= EepromSize
  BY <1>1
<1>3. PICK end \in Nat : end <= lim /\ Edited(m, Without(m, base, n), base, lim, L, end)
  BY <1>1, <1>2, WithoutIs
<1>4. Len(L) <= MaxLines(base)
  <2>1. n + 1 \in 1..Len(ListAt(m, base))
    BY <1>1
  <2>2. Len(L) = Len(ListAt(m, base)) - 1
    BY <1>1, <2>1, RemoveAtIs
  <2> HIDE DEF L
  <2> QED BY <1>1, <2>2
<1>5. end <= Limit(base)
  BY <1>1, <1>3
<1> HIDE DEF L, lim
<1> QED BY <1>1, <1>3, <1>4, <1>5, EditHasRoom DEF L

\* rep, of a line that is there by one that fits with what is written behind it.
LEMMA RepHasRoom ==
    ASSUME Division, NEW m, Room(m), NEW base \in Lists, NEW n \in Nat, n < Count(m, base),
           NEW r \in Seq(Byte), Len(r) \in Byte,
           End(m, base) + Len(r) - Rd(m, Pos(m, base, n)) + Growth(m, base, n, r) <= Limit(base)
    PROVE  /\ Room(Replaced(m, base, n, r))
           /\ ListAt(Replaced(m, base, n, r), base) = ReplaceAt(ListAt(m, base), n + 1, r)
           /\ ListAt(Replaced(m, base, n, r), OtherOf(base)) = ListAt(m, OtherOf(base))
<1> DEFINE L == ReplaceAt(ListAt(m, base), n + 1, r)
           end == End(m, base) + Len(r) - Rd(m, Pos(m, base, n))
           G == Growth(m, base, n, r)
           lim == end + G
<1>1. /\ EepromSize \in Nat /\ m \in Memories /\ base \in Nat
      /\ Limit(base) \in Nat /\ Limit(base) <= EepromSize
      /\ End(m, base) \in Nat /\ MaxLines(base) \in Nat
      /\ Count(m, base) \in Nat /\ Count(m, base) <= MaxLines(base)
      /\ ListAt(m, base) \in Seq(Seq(Byte)) /\ Len(ListAt(m, base)) = Count(m, base)
  BY ListHasRoom
<1>2. G \in Nat /\ Rd(m, Pos(m, base, n)) \in Nat /\ Len(r) \in Nat
  BY <1>1, GrowthIs
<1>3. lim <= Limit(base)
  OBVIOUS
<1>4. end \in Int
  BY <1>1, <1>2
<1> HIDE DEF end, G
<1>5. end <= Limit(base) /\ end <= EepromSize
  BY <1>1, <1>2, <1>3, <1>4
<1>6. end \in Nat /\ Edited(m, Replaced(m, base, n, r), base, lim, L, end)
  BY <1>1, <1>5, ReplacedIs DEF end, G
<1>7. Len(L) <= MaxLines(base)
  <2>1. n + 1 \in 1..Len(ListAt(m, base))
    BY <1>1
  <2>2. Len(L) = Len(ListAt(m, base))
    BY <1>1, <2>1, ReplaceAtIs
  <2> HIDE DEF L
  <2> QED BY <1>1, <2>2
<1>8. lim \in Nat
  BY <1>2, <1>6
<1> HIDE DEF L, lim
<1> QED BY <1>3, <1>5, <1>6, <1>7, <1>8, EditHasRoom DEF L

-----------------------------------------------------------------------------
(* Requests and restarts. *)

\* The lines of the file can be stored.
LEMMA FileIsStorable == Storable(FileLines) /\ Len(FileLines) < 255
<1>1. FileLines \in Seq(Seq(Byte)) /\ Len(FileLines) < 255
  BY FileAssumption
<1>2. Len(FileLines) \in Byte
  <2> DEFINE l == Len(FileLines)
  <2>1. l \in Nat /\ l < 255
    BY <1>1
  <2> HIDE DEF l
  <2>2. l \in Byte
    BY <2>1 DEF Byte
  <2> QED BY <2>2 DEF l
<1>3. ASSUME NEW i \in 1..Len(FileLines) PROVE Len(FileLines[i]) \in Byte
  <2>1. FileLines[i] \in Seq(Byte)
    BY <1>1
  <2> DEFINE l == Len(FileLines[i])
  <2>2. l \in Nat /\ l <= 150
    BY <2>1, FileAssumption
  <2> HIDE DEF l
  <2>3. l \in Byte
    BY <2>2 DEF Byte
  <2> QED BY <2>3 DEF l
<1> QED BY <1>1, <1>2, <1>3 DEF Storable

\* So can the line of a request.
LEMMA LineIs ==
    ASSUME NEW r \in Lines
    PROVE  r \in Seq(Byte) /\ Len(r) \in Byte
<1>1. r \in Seq(Byte) /\ Len(r) < 80
  BY LineAssumption
<1> DEFINE l == Len(r)
<1>2. l \in Nat /\ l < 80
  BY <1>1
<1> HIDE DEF l
<1>3. l \in Byte
  BY <1>2 DEF Byte
<1> QED BY <1>1, <1>3 DEF l

\* The configuration of the file is written behind the rules, which stay.
LEMMA FilePlaced ==
    ASSUME Division, NEW m, Placed(m)
    PROVE  Placed(Written(m, EE_CONF_POS, FileLines))
<1>1. EepromSize \in Nat /\ EE_CONF_POS \in Nat /\ m \in Memories
  BY DEF Division, Placed
<1>2. OnlyFrom(m, Written(m, EE_CONF_POS, FileLines), EE_CONF_POS)
  BY <1>1, WrittenBehind, FileIsStorable DEF OnlyFrom
<1> QED BY <1>2, RulesKept

\* The rules are cleared.
LEMMA ClearedPlaced ==
    ASSUME Division, NEW m \in Memories
    PROVE  /\ Placed(SetCount(m, EE_POS_RULES, 0))
           /\ Count(SetCount(m, EE_POS_RULES, 0), EE_POS_RULES) = 0
           /\ ListAt(SetCount(m, EE_POS_RULES, 0), EE_POS_RULES) = <<>>
<1> DEFINE q == SetCount(m, EE_POS_RULES, 0)
<1>1. /\ EepromSize \in Nat /\ EE_POS_RULES \in Nat /\ EE_POS_RULES < EepromSize
      /\ EE_CONF_POS \in Nat /\ EE_POS_RULES + 1 <= EE_CONF_POS
  BY DEF Division, EE_POS_RULES
<1>2. /\ q \in Memories /\ Count(q, EE_POS_RULES) = 0 /\ ListAt(q, EE_POS_RULES) = <<>>
      /\ End(q, EE_POS_RULES) = EE_POS_RULES + 1
  BY <1>1, ClearedIs
<1> HIDE DEF q
<1>3. Placed(q)
  BY <1>1, <1>2 DEF Placed
<1> QED BY <1>2, <1>3 DEF q

\* What a restart does to the bytes, and to the rules when they are in place.
LEMMA CheckPlaced ==
    ASSUME Division, NEW m \in Memories
    PROVE  CheckCounts(m) \in Memories /\ (Placed(m) => Placed(CheckCounts(m)))
<1> DEFINE checked == IF Count(m, EE_POS_RULES) > MaxRules
                      THEN SetCount(m, EE_POS_RULES, 0) ELSE m
<1>1. checked \in Memories /\ (Placed(m) => Placed(checked))
  <2>1. Placed(SetCount(m, EE_POS_RULES, 0))
    BY ClearedPlaced
  <2> QED BY <2>1 DEF Placed
<1>2. CheckCounts(m) = IF Count(m, EE_CONF_POS) = 255
                       THEN Written(checked, EE_CONF_POS, FileLines) ELSE checked
  BY DEF CheckCounts
<1> HIDE DEF checked
<1>3. Written(checked, EE_CONF_POS, FileLines) \in Memories
  <2>1. EepromSize \in Nat /\ EE_CONF_POS \in Nat
    BY DEF Division
  <2> QED BY <1>1, <2>1, FileIsStorable, WrittenBehind
<1>4. Placed(checked) => Placed(Written(checked, EE_CONF_POS, FileLines))
  BY FilePlaced
<1> QED BY <1>1, <1>2, <1>3, <1>4

\* With no rules, the configuration of the file has room.
LEMMA FreshHasRoom ==
    ASSUME Division, NEW m, Placed(m), Count(m, EE_POS_RULES) = 0,
           EE_CONF_POS + 1 + Len(Records(FileLines)) <= EepromSize
    PROVE  /\ Room(Written(m, EE_CONF_POS, FileLines))
           /\ ListAt(Written(m, EE_CONF_POS, FileLines), EE_CONF_POS) = FileLines
           /\ ListAt(Written(m, EE_CONF_POS, FileLines), EE_POS_RULES) = <<>>
<1> DEFINE q == Written(m, EE_CONF_POS, FileLines)
           end == EE_CONF_POS + 1 + Len(Records(FileLines))
<1>1. EepromSize \in Nat /\ EE_CONF_POS \in Nat /\ m \in Memories /\ MaxRules \in Nat
      /\ EE_POS_RULES \in Nat
  BY DEF Division, Placed, EE_POS_RULES
<1>2. Edited(m, q, EE_CONF_POS, end, FileLines, end)
  BY <1>1, FileIsStorable, WrittenIs
<1>3. /\ q \in Memories /\ ListAt(q, EE_CONF_POS) = FileLines /\ End(q, EE_CONF_POS) <= EepromSize
      /\ OnlyFrom(m, q, EE_CONF_POS)
  BY <1>2 DEF Edited, OnlyFrom
<1> HIDE DEF q
<1>4. Placed(q) /\ Count(q, EE_POS_RULES) = 0
  BY <1>3, RulesKept
<1>5. Count(q, EE_CONF_POS) < 255
  <2>1. Len(ListAt(q, EE_CONF_POS)) = Count(q, EE_CONF_POS)
    BY <1>1, <1>3, ListIs
  <2> QED BY <1>3, <2>1, FileIsStorable
<1>6. ListAt(q, EE_POS_RULES) = <<>>
  <2>1. ListAt(q, EE_POS_RULES) \in Seq(Seq(Byte)) /\ Len(ListAt(q, EE_POS_RULES)) = 0
    BY <1>1, <1>3, <1>4, ListIs
  <2> QED BY <2>1
<1>7. Room(q)
  BY <1>1, <1>3, <1>4, <1>5 DEF Room
<1> QED BY <1>3, <1>6, <1>7 DEF q

\* A restart does nothing to counts that are in order.
LEMMA CheckHasRoom ==
    ASSUME Division, NEW m, Room(m)
    PROVE  CheckCounts(m) = m
<1>1. /\ MaxRules \in Nat
      /\ Count(m, EE_POS_RULES) \in Nat /\ Count(m, EE_POS_RULES) <= MaxRules
      /\ Count(m, EE_CONF_POS) \in Nat /\ Count(m, EE_CONF_POS) < 255
  BY RoomIs
<1>2. ~(Count(m, EE_POS_RULES) > MaxRules) /\ Count(m, EE_CONF_POS) # 255
  BY <1>1
<1> QED BY <1>2 DEF CheckCounts

\* Both counts as /rst sets them.
ResetCounts(m) == SetCount(SetCount(m, EE_POS_RULES, 0), EE_CONF_POS, 255)

\* /rst leaves no rules, and the restart writes the configuration of the file.
LEMMA ResetIs ==
    ASSUME Division, NEW m \in Memories
    PROVE  /\ Placed(ResetCounts(m)) /\ Count(ResetCounts(m), EE_POS_RULES) = 0
           /\ CheckCounts(ResetCounts(m)) = Written(ResetCounts(m), EE_CONF_POS, FileLines)
<1> DEFINE g == SetCount(m, EE_POS_RULES, 0)
           q == SetCount(g, EE_CONF_POS, 255)
<1>1. Placed(g) /\ Count(g, EE_POS_RULES) = 0
  BY ClearedPlaced
<1>2. EepromSize \in Nat /\ EE_CONF_POS \in Nat /\ EE_CONF_POS < EepromSize /\ g \in Memories
      /\ MaxRules \in Nat
  BY <1>1 DEF Division, Placed
<1> HIDE DEF g
<1>3. q \in Memories /\ Rd(q, EE_CONF_POS) = 255 /\ OnlyFrom(g, q, EE_CONF_POS)
  <2>1. 255 \in Int /\ 255 % 256 = 255
    OBVIOUS
  <2> QED BY <1>2, <2>1, SetCountIs, SetCountOnlyFrom
<1> HIDE DEF q
<1>4. Placed(q) /\ Count(q, EE_POS_RULES) = 0
  BY <1>1, <1>3, RulesKept
<1>5. ~(Count(q, EE_POS_RULES) > MaxRules) /\ Count(q, EE_CONF_POS) = 255
  BY <1>2, <1>3, <1>4 DEF Count
<1>6. CheckCounts(q) = Written(q, EE_CONF_POS, FileLines)
  BY <1>5 DEF CheckCounts
<1>7. ResetCounts(m) = q
  BY DEF ResetCounts, q, g
<1> QED BY <1>4, <1>6, <1>7

-----------------------------------------------------------------------------
(* The inductive invariant. *)

\* The rules of a client that keeps to the documentation are in place; a
\* careful one's lists both are, and no restart repairs their counts.
StoreInv ==
    /\ store \in Stores /\ TypeOK
    /\ store.client # "any" => Placed(mem)
    /\ store.client = "careful" => Room(mem)

\* The conditions GetRule's callers keep.
LEMMA InvIs ==
    ASSUME StoreInv
    PROVE  Division /\ mem \in Memories
BY StoreIsDivision DEF StoreInv, TypeOK, Memories

\* A new unit has no rules and the configuration of the file.
LEMMA InitInv == Init => StoreInv
<1> SUFFICES ASSUME Init PROVE StoreInv
  OBVIOUS
<1>1. store \in Stores /\ mem = Written(SetCount(Erased, EE_POS_RULES, 0), EE_CONF_POS, FileLines)
  BY DEF Init
<1>2. Division
  BY <1>1, StoreIsDivision
<1> DEFINE m == SetCount(Erased, EE_POS_RULES, 0)
<1>3. Placed(m) /\ Count(m, EE_POS_RULES) = 0
  <2>1. 255 \in Byte
    BY DEF Byte
  <2>2. Erased \in Memories
    BY <2>1 DEF Erased, Memories
  <2> QED BY <1>2, <2>2, ClearedPlaced
<1> HIDE DEF m
<1>4. Placed(mem)
  BY <1>1, <1>2, <1>3, FilePlaced DEF m
<1>5. ASSUME store.client = "careful" PROVE Room(mem)
  <2>1. EE_CONF_POS + 1 + Len(Records(FileLines)) <= EepromSize
    BY <1>1, <1>5, StoreAssumption DEF EE_CONF_POS, EepromSize
  <2> QED BY <1>1, <1>2, <1>3, <2>1, FreshHasRoom DEF m
<1>6. TypeOK
  BY <1>4 DEF Placed, TypeOK, Memories
<1> QED BY <1>1, <1>4, <1>5, <1>6 DEF StoreInv

\* Any request leaves bytes, and all that is in front of its list.
LEMMA EditsType ==
    ASSUME StoreInv, NEW base \in Lists, Edits(base)
    PROVE  OnlyFrom(mem, mem', base) /\ mem' \in Memories
<1>1. EepromSize \in Nat /\ base \in Nat /\ mem \in Memories /\ MaxRules \in Nat
  BY InvIs DEF Division, Lists, EE_POS_RULES
<1>2. ASSUME NEW r \in Lines, GetRule_add(base, r) PROVE OnlyFrom(mem, mem', base)
  BY <1>1, <1>2, LineIs, AppendedOnlyFrom DEF GetRule_add
<1>3. ASSUME NEW n \in 0..MaxRules, GetRule_del(base, n) PROVE OnlyFrom(mem, mem', base)
  <2>1. n \in Nat
    BY <1>1
  <2> QED BY <1>1, <1>3, <2>1, WithoutOnlyFrom DEF GetRule_del
<1>4. ASSUME NEW n \in 0..MaxRules, NEW r \in Lines, GetRule_rep(base, n, r)
      PROVE  OnlyFrom(mem, mem', base)
  <2>1. n \in Nat
    BY <1>1
  <2> QED BY <1>1, <1>4, <2>1, LineIs, ReplacedOnlyFrom DEF GetRule_rep
<1>5. OnlyFrom(mem, mem', base)
  BY <1>2, <1>3, <1>4 DEF Edits
<1> QED BY <1>5 DEF OnlyFrom

\* Requests that keep to the documentation leave the rules in place.
LEMMA EditsPlaced ==
    ASSUME StoreInv, store.client # "any", NEW base \in Lists, Edits(base)
    PROVE  Placed(mem')
<1>1. Division /\ Placed(mem) /\ MaxRules \in Nat
  BY InvIs DEF StoreInv, Division
<1>2. CASE base = EE_CONF_POS
  BY <1>1, <1>2, EditsType, RulesKept
<1>3. CASE base = EE_POS_RULES
  <2>1. Limit(base) = EE_CONF_POS
    BY <1>3 DEF Limit
  <2>2. ASSUME NEW r \in Lines, GetRule_add(base, r) PROVE Placed(mem')
    <3>1. End(mem, base) + Len(r) + 1 <= EE_CONF_POS /\ mem' = Appended(mem, base, r)
      BY <2>1, <2>2 DEF GetRule_add, Fits
    <3> QED BY <1>1, <1>3, <3>1, LineIs, AddPlaced
  <2>3. ASSUME NEW n \in 0..MaxRules, GetRule_del(base, n) PROVE Placed(mem')
    <3>1. n \in Nat
      BY <1>1
    <3>2. n < Count(mem, base) /\ mem' = Without(mem, base, n)
      BY <2>3 DEF GetRule_del, NamesLine
    <3> QED BY <1>1, <1>3, <3>1, <3>2, DelPlaced
  <2>4. ASSUME NEW n \in 0..MaxRules, NEW r \in Lines, GetRule_rep(base, n, r)
        PROVE  Placed(mem')
    <3> DEFINE end == End(mem, base) + Len(r) - Rd(mem, Pos(mem, base, n))
               G == Growth(mem, base, n, r)
    <3>1. n \in Nat /\ r \in Seq(Byte) /\ Len(r) \in Byte /\ EepromSize \in Nat
          /\ mem \in Memories /\ base \in Nat /\ EE_CONF_POS \in Nat
      BY <1>1, <1>3, LineIs DEF Division, Placed, EE_POS_RULES
    <3>2. n < Count(mem, base) /\ mem' = Replaced(mem, base, n, r)
          /\ (end + IF store.client = "careful" THEN G ELSE 0) <= EE_CONF_POS
      BY <2>1, <2>4 DEF GetRule_rep, NamesLine, Fits
    <3>3. G \in Nat /\ end \in Int
      <4>1. G \in Nat /\ Rd(mem, Pos(mem, base, n)) \in Nat /\ Len(r) \in Nat
        BY <3>1, GrowthIs
      <4>2. End(mem, base) \in Nat
        BY <3>1, EndType
      <4> HIDE DEF G
      <4> QED BY <4>1, <4>2
    <3> HIDE DEF end, G
    <3>4. end <= EE_CONF_POS
      BY <3>1, <3>2, <3>3
    <3> QED BY <1>1, <1>3, <3>1, <3>2, <3>4, RepPlaced DEF end
  <2> QED BY <2>2, <2>3, <2>4 DEF Edits
<1> QED BY <1>2, <1>3 DEF Lists

\* The requests of a careful client leave room, and do to the lists what they say.
Does(base, new) ==
    /\ ListAt(mem', base) = new
    /\ ListAt(mem', OtherOf(base)) = ListAt(mem, OtherOf(base))

\* Each request of a careful client appends, removes or replaces one line.
LEMMA EditsHaveRoom ==
    ASSUME StoreInv, store.client = "careful", NEW base \in Lists, Edits(base)
    PROVE  /\ Room(mem')
           /\ \/ \E r \in Lines : Does(base, Append(ListAt(mem, base), r))
              \/ \E n \in 0..(Len(ListAt(mem, base)) - 1) :
                    \/ Does(base, RemoveAt(ListAt(mem, base), n + 1))
                    \/ \E r \in Lines : Does(base, ReplaceAt(ListAt(mem, base), n + 1, r))
<1>1. Division /\ Room(mem) /\ MaxRules \in Nat
  BY InvIs DEF StoreInv, Division
<1>2. Len(ListAt(mem, base)) = Count(mem, base) /\ Count(mem, base) \in Nat
  BY <1>1, ListHasRoom
<1>3. ASSUME NEW r \in Lines, GetRule_add(base, r)
      PROVE  Room(mem') /\ Does(base, Append(ListAt(mem, base), r))
  <2>1. /\ End(mem, base) + Len(r) + 1 <= Limit(base) /\ Count(mem, base) < MaxLines(base)
        /\ mem' = Appended(mem, base, r)
    BY <1>3 DEF GetRule_add, Fits
  <2>2. r \in Seq(Byte) /\ Len(r) \in Byte
    BY LineIs
  <2>3. /\ Room(Appended(mem, base, r))
        /\ ListAt(Appended(mem, base, r), base) = Append(ListAt(mem, base), r)
        /\ ListAt(Appended(mem, base, r), OtherOf(base)) = ListAt(mem, OtherOf(base))
    BY <1>1, <2>1, <2>2, AddHasRoom
  <2> QED BY <2>1, <2>3 DEF Does
<1>4. ASSUME NEW n \in 0..MaxRules, GetRule_del(base, n)
      PROVE  /\ Room(mem') /\ n \in 0..(Len(ListAt(mem, base)) - 1)
             /\ Does(base, RemoveAt(ListAt(mem, base), n + 1))
  <2>1. n \in Nat
    BY <1>1
  <2>2. n < Count(mem, base) /\ mem' = Without(mem, base, n)
    BY <1>4 DEF GetRule_del, NamesLine
  <2>3. /\ Room(Without(mem, base, n))
        /\ ListAt(Without(mem, base, n), base) = RemoveAt(ListAt(mem, base), n + 1)
        /\ ListAt(Without(mem, base, n), OtherOf(base)) = ListAt(mem, OtherOf(base))
    BY <1>1, <2>1, <2>2, DelHasRoom
  <2>4. n \in 0..(Len(ListAt(mem, base)) - 1)
    BY <1>2, <2>1, <2>2
  <2> QED BY <2>2, <2>3, <2>4 DEF Does
<1>5. ASSUME NEW n \in 0..MaxRules, NEW r \in Lines, GetRule_rep(base, n, r)
      PROVE  /\ Room(mem') /\ n \in 0..(Len(ListAt(mem, base)) - 1)
             /\ Does(base, ReplaceAt(ListAt(mem, base), n + 1, r))
  <2>1. n \in Nat /\ r \in Seq(Byte) /\ Len(r) \in Byte
    BY <1>1, LineIs
  <2>2. /\ n < Count(mem, base) /\ mem' = Replaced(mem, base, n, r)
        /\ End(mem, base) + Len(r) - Rd(mem, Pos(mem, base, n)) + Growth(mem, base, n, r)
              <= Limit(base)
    BY <1>5 DEF GetRule_rep, NamesLine, Fits
  <2>3. /\ Room(Replaced(mem, base, n, r))
        /\ ListAt(Replaced(mem, base, n, r), base) = ReplaceAt(ListAt(mem, base), n + 1, r)
        /\ ListAt(Replaced(mem, base, n, r), OtherOf(base)) = ListAt(mem, OtherOf(base))
    BY <1>1, <2>1, <2>2, RepHasRoom
  <2>4. n \in 0..(Len(ListAt(mem, base)) - 1)
    BY <1>2, <2>1, <2>2
  <2> QED BY <2>2, <2>3, <2>4 DEF Does
<1> QED BY <1>3, <1>4, <1>5 DEF Edits

\* The readers and restarts leave bytes, and the rules in place.
LEMMA ReadersType ==
    ASSUME StoreInv, Rule_Apply \/ Boot \/ handleReset
    PROVE  mem' \in Memories /\ (store.client # "any" => Placed(mem'))
<1>1. Division /\ mem \in Memories /\ (store.client # "any" => Placed(mem))
  BY InvIs DEF StoreInv
<1>2. CASE Rule_Apply
  <2>1. Placed(SetCount(mem, EE_POS_RULES, 0))
    BY <1>1, ClearedPlaced
  <2>2. mem' = SetCount(mem, EE_POS_RULES, 0) \/ mem' = mem
    BY <1>2 DEF Rule_Apply
  <2> QED BY <1>1, <2>1, <2>2 DEF Placed
<1>3. CASE Boot
  BY <1>1, <1>3, CheckPlaced DEF Boot
<1>4. CASE handleReset
  <2>1. mem' = CheckCounts(ResetCounts(mem))
    BY <1>4 DEF handleReset, ResetCounts
  <2>2. Placed(ResetCounts(mem))
    BY <1>1, ResetIs
  <2>3. Placed(CheckCounts(ResetCounts(mem)))
    BY <1>1, <2>2, CheckPlaced DEF Placed
  <2> QED BY <2>1, <2>3 DEF Placed
<1> QED BY <1>2, <1>3, <1>4

\* A careful client's lists only change when /rst clears them.
LEMMA ReadersHaveRoom ==
    ASSUME StoreInv, store.client = "careful"
    PROVE  /\ Rule_Apply \/ Boot => mem' = mem
           /\ handleReset => /\ Room(mem') /\ ListAt(mem', EE_POS_RULES) = <<>>
                             /\ ListAt(mem', EE_CONF_POS) = FileLines
<1>1. Division /\ mem \in Memories /\ Room(mem) /\ store \in Stores
  BY InvIs DEF StoreInv
<1>2. ASSUME Rule_Apply PROVE mem' = mem
  <2>1. MaxRules \in Nat /\ MaxRules <= 250
    BY <1>1 DEF Division
  <2>2. Count(mem, EE_POS_RULES) \in Nat /\ Count(mem, EE_POS_RULES) <= MaxRules
    BY <1>1, RoomIs
  <2>3. ~(Count(mem, EE_POS_RULES) > 250)
    BY <2>1, <2>2
  <2> QED BY <1>2, <2>3 DEF Rule_Apply
<1>3. ASSUME Boot PROVE mem' = mem
  BY <1>1, <1>3, CheckHasRoom DEF Boot
<1>4. ASSUME handleReset
      PROVE  /\ Room(mem') /\ ListAt(mem', EE_POS_RULES) = <<>>
             /\ ListAt(mem', EE_CONF_POS) = FileLines
  <2> DEFINE m == ResetCounts(mem)
  <2>1. /\ Placed(m) /\ Count(m, EE_POS_RULES) = 0
        /\ CheckCounts(m) = Written(m, EE_CONF_POS, FileLines)
    BY <1>1, ResetIs
  <2>2. mem' = CheckCounts(m)
    BY <1>4 DEF handleReset, ResetCounts
  <2> HIDE DEF m
  <2>3. EE_CONF_POS + 1 + Len(Records(FileLines)) <= EepromSize
    BY <1>1, StoreAssumption DEF EE_CONF_POS, EepromSize
  <2> QED BY <1>1, <2>1, <2>2, <2>3, FreshHasRoom
<1> QED BY <1>2, <1>3, <1>4

\* Every step keeps the invariant.
LEMMA NextInv == StoreInv /\ [Next]_vars => StoreInv'
<1> SUFFICES ASSUME StoreInv, [Next]_vars PROVE StoreInv'
  OBVIOUS
<1>1. store' = store
  BY DEF Next, vars
<1>2. mem' \in Memories /\ (store.client # "any" => Placed(mem'))
      /\ (store.client = "careful" => Room(mem'))
  <2>1. CASE \E base \in Lists : Edits(base)
    BY <2>1, EditsType, EditsPlaced, EditsHaveRoom
  <2>2. CASE Rule_Apply \/ Boot \/ handleReset
    <3>1. store.client = "careful" => Room(mem)
      BY DEF StoreInv
    <3> QED BY <2>2, <3>1, ReadersType, ReadersHaveRoom
  <2>3. CASE UNCHANGED vars
    BY <2>3, InvIs DEF StoreInv, vars
  <2> QED BY <2>1, <2>2, <2>3 DEF Next
<1>3. TypeOK'
  BY <1>1, <1>2 DEF TypeOK, Memories, EepromSize
<1>4. (store.client # "any" => Placed(mem))'
  <2>1. Placed(mem') => Placed(mem)'
    BY <1>1 DEF Placed, Memories, EepromSize, EE_CONF_POS, EE_POS_RULES, End, Count, Pos
  <2> QED BY <1>1, <1>2, <2>1
<1>5. (store.client = "careful" => Room(mem))'
  <2>1. Room(mem') => Room(mem)'
    BY <1>1 DEF Room, Placed, Memories, EepromSize, MaxRules, EE_CONF_POS, EE_POS_RULES, End,
                Count, Pos
  <2> QED BY <1>1, <1>2, <2>1
<1> QED BY <1>1, <1>3, <1>4, <1>5 DEF StoreInv

\* Together: the invariant always holds.
LEMMA StoreInvHolds == Spec => []StoreInv
<1> QED BY InitInv, NextInv, PTL DEF Spec

\* Whatever the requests say, the EEPROM holds as many bytes as it was given.
THEOREM TypeCorrect == Spec => []TypeOK
<1>1. StoreInv => TypeOK
  BY DEF StoreInv
<1> QED BY <1>1, StoreInvHolds, PTL

\* A careful client's lists end in their own part of the EEPROM, however often it
\* edits them and whenever the unit restarts.
THEOREM ListsStayInPlace == Spec => []ListsInPlace
<1>1. StoreInv => ListsInPlace
  <2>1. ASSUME Division, Room(mem), NEW base \in Lists PROVE End(mem, base) <= Limit(base)
    BY <2>1, ListHasRoom
  <2> QED BY <2>1, InvIs DEF StoreInv, ListsInPlace
<1> QED BY <1>1, StoreInvHolds, PTL

\* An edit of the configuration, even one that runs off the end of the EEPROM,
\* changes no rule.
THEOREM ConfEditsAreHarmless == Spec => ConfEditsKeepRules
<1>1. ASSUME StoreInv, store.client # "any", Edits(EE_CONF_POS)
      PROVE  ListAt(mem', EE_POS_RULES) = ListAt(mem, EE_POS_RULES)
  <2>1. Division /\ Placed(mem) /\ EE_CONF_POS \in Lists
    BY <1>1, InvIs DEF StoreInv, Lists
  <2>2. OnlyFrom(mem, mem', EE_CONF_POS)
    BY <1>1, <2>1, EditsType
  <2> QED BY <2>1, <2>2, RulesKept
<1>2. StoreInv => [store.client # "any" /\ Edits(EE_CONF_POS)
                     => ListAt(mem', EE_POS_RULES) = ListAt(mem, EE_POS_RULES)]_vars
  BY <1>1
<1> QED BY <1>2, StoreInvHolds, PTL DEF Spec, ConfEditsKeepRules

-----------------------------------------------------------------------------
(* The bytes implement the two lists. *)

\* The lists a careful client gets are those in the bytes.
LEMMA HeldIs ==
    ASSUME store.client = "careful"
    PROVE  Held = [list \in {"rules", "conf"} |-> ListAt(mem, Base(list))]
BY DEF Held

\* Of other clients nothing is promised.
LEMMA HeldNever ==
    ASSUME store.client # "careful"
    PROVE  Held = [list \in {"rules", "conf"} |-> IF list = "rules" THEN <<>> ELSE FileLines]
BY DEF Held

\* What becomes of the lists when the bytes do.
LEMMA HeldNext ==
    ASSUME store' = store
    PROVE  Held' = [list \in {"rules", "conf"} |->
                      IF store.client = "careful" THEN ListAt(mem', Base(list))
                      ELSE IF list = "rules" THEN <<>> ELSE FileLines]
<1>1. ASSUME NEW list PROVE ListAt(mem, Base(list))' = ListAt(mem', Base(list))
  BY DEF ListAt, Base, EE_CONF_POS, EE_POS_RULES, Line, Slice, Rd, Pos, Count
<1> QED BY <1>1 DEF Held

\* A new unit has no rules and the configuration of the file.
LEMMA InitLists == Init => Promised!Init
<1> SUFFICES ASSUME Init PROVE Promised!Init
  OBVIOUS
<1>1. CASE store.client = "careful"
  <2>1. /\ store \in Stores
        /\ mem = Written(SetCount(Erased, EE_POS_RULES, 0), EE_CONF_POS, FileLines)
    BY DEF Init
  <2>2. Division
    BY <2>1, StoreIsDivision
  <2> DEFINE m == SetCount(Erased, EE_POS_RULES, 0)
  <2>3. Placed(m) /\ Count(m, EE_POS_RULES) = 0
    <3>1. 255 \in Byte
      BY DEF Byte
    <3>2. Erased \in Memories
      BY <3>1 DEF Erased, Memories
    <3> QED BY <2>2, <3>2, ClearedPlaced
  <2> HIDE DEF m
  <2>4. EE_CONF_POS + 1 + Len(Records(FileLines)) <= EepromSize
    BY <1>1, <2>1, StoreAssumption DEF EE_CONF_POS, EepromSize
  <2>5. ListAt(mem, EE_CONF_POS) = FileLines /\ ListAt(mem, EE_POS_RULES) = <<>>
    BY <2>1, <2>2, <2>3, <2>4, FreshHasRoom DEF m
  <2>6. Held = [list \in {"rules", "conf"} |-> IF list = "rules" THEN <<>> ELSE FileLines]
    BY <1>1, <2>5, HeldIs DEF Base
  <2> QED BY <2>6 DEF Promised!Init, Promised!Fresh, Promised!Lists
<1>2. CASE store.client # "careful"
  BY <1>2, HeldNever DEF Promised!Init, Promised!Fresh, Promised!Lists
<1> QED BY <1>1, <1>2

\* An edit of one list is a step of the promise.
Name(base) == IF base = EE_POS_RULES THEN "rules" ELSE "conf"

\* A change of one list in the bytes is that change of the lists held.
LEMMA DoesIs ==
    ASSUME Division, store.client = "careful", store' = store, NEW base \in Lists, NEW new,
           Does(base, new)
    PROVE  /\ Held' = [Held EXCEPT ![Name(base)] = new]
           /\ Held[Name(base)] = ListAt(mem, base)
           /\ Name(base) \in {"rules", "conf"}
<1>1. EE_POS_RULES # EE_CONF_POS
  BY DEF Division, EE_POS_RULES
<1>2. Held = [list \in {"rules", "conf"} |-> ListAt(mem, Base(list))]
  BY HeldIs
<1>3. Held' = [list \in {"rules", "conf"} |-> ListAt(mem', Base(list))]
  BY HeldNext
<1>4. Base("rules") = EE_POS_RULES /\ Base("conf") = EE_CONF_POS
  BY DEF Base
<1>5. ListAt(mem', base) = new /\ ListAt(mem', OtherOf(base)) = ListAt(mem, OtherOf(base))
  BY DEF Does
<1>6. CASE base = EE_POS_RULES
  BY <1>2, <1>3, <1>4, <1>5, <1>6 DEF OtherOf, Name
<1>7. CASE base = EE_CONF_POS
  BY <1>1, <1>2, <1>3, <1>4, <1>5, <1>7 DEF OtherOf, Name
<1> QED BY <1>6, <1>7 DEF Lists

\* Every step is one of the promise, or changes neither list.
LEMMA NextLists == StoreInv /\ [Next]_vars => [Promised!Next]_Held
<1> SUFFICES ASSUME StoreInv, [Next]_vars PROVE Promised!Next \/ UNCHANGED Held
  OBVIOUS
<1>1. store' = store
  BY DEF Next, vars
<1>2. CASE store.client # "careful"
  BY <1>1, <1>2, HeldNever, HeldNext
<1>3. CASE store.client = "careful"
  <2>1. Held' = [list \in {"rules", "conf"} |-> ListAt(mem', Base(list))]
    BY <1>1, <1>3, HeldNext
  <2>2. Division
    BY InvIs
  <2>3. CASE mem' = mem
    BY <1>3, <2>1, <2>3, HeldIs
  <2>4. CASE handleReset
    <3>1. ListAt(mem', EE_POS_RULES) = <<>> /\ ListAt(mem', EE_CONF_POS) = FileLines
      BY <1>3, <2>4, ReadersHaveRoom
    <3>2. Held' = [list \in {"rules", "conf"} |-> IF list = "rules" THEN <<>> ELSE FileLines]
      BY <2>1, <3>1 DEF Base
    <3> QED BY <3>2 DEF Promised!Next, Promised!Reset, Promised!Fresh, Promised!Lists
  <2>5. ASSUME NEW base \in Lists, Edits(base) PROVE Promised!Next
    <3> DEFINE l == Name(base)  L == ListAt(mem, base)
    <3>1. \/ \E r \in Lines : Does(base, Append(L, r))
          \/ \E n \in 0..(Len(L) - 1) :
                \/ Does(base, RemoveAt(L, n + 1))
                \/ \E r \in Lines : Does(base, ReplaceAt(L, n + 1, r))
      BY <1>3, <2>5, EditsHaveRoom
    <3> HIDE DEF l, L
    <3>2. ASSUME NEW new, Does(base, new)
          PROVE  Held' = [Held EXCEPT ![l] = new] /\ Held[l] = L /\ l \in Promised!Lists
      BY <1>1, <1>3, <2>2, <3>2, DoesIs DEF l, L, Promised!Lists
    <3>3. CASE \E r \in Lines : Does(base, Append(L, r))
      <4>1. PICK r \in Lines : Does(base, Append(L, r))
        BY <3>3
      <4>2. Promised!Add(l, r) /\ l \in Promised!Lists
        BY <3>2, <4>1 DEF Promised!Add
      <4> QED BY <4>2 DEF Promised!Next
    <3>4. CASE \E n \in 0..(Len(L) - 1) :
                  \/ Does(base, RemoveAt(L, n + 1))
                  \/ \E r \in Lines : Does(base, ReplaceAt(L, n + 1, r))
      <4>1. PICK n \in 0..(Len(L) - 1) :
                  \/ Does(base, RemoveAt(L, n + 1))
                  \/ \E r \in Lines : Does(base, ReplaceAt(L, n + 1, r))
        BY <3>4
      <4>2. CASE Does(base, RemoveAt(L, n + 1))
        <5>1. Promised!Del(l, n) /\ l \in Promised!Lists /\ Held[l] = L
          BY <3>2, <4>2 DEF Promised!Del, RemoveAt, Promised!RemoveAt
        <5>2. n \in 0..(Len(Held[l]) - 1)
          BY <5>1
        <5> QED BY <5>1, <5>2 DEF Promised!Next
      <4>3. CASE \E r \in Lines : Does(base, ReplaceAt(L, n + 1, r))
        <5>1. PICK r \in Lines : Does(base, ReplaceAt(L, n + 1, r))
          BY <4>3
        <5>2. Promised!Rep(l, n, r) /\ l \in Promised!Lists /\ Held[l] = L
          BY <3>2, <5>1 DEF Promised!Rep, ReplaceAt, Promised!ReplaceAt
        <5>3. n \in 0..(Len(Held[l]) - 1)
          BY <5>2
        <5> QED BY <5>2, <5>3 DEF Promised!Next
      <4> QED BY <4>1, <4>2, <4>3
    <3> QED BY <3>1, <3>3, <3>4
  <2>6. Rule_Apply \/ Boot => mem' = mem
    BY <1>3, ReadersHaveRoom
  <2> QED BY <2>3, <2>4, <2>5, <2>6 DEF Next, vars
<1> QED BY <1>2, <1>3

\* A careful client gets the two lists it edits: each request changes the line it
\* names and no other, in either list, and only /rst empties them.
THEOREM ListsAreKept == Spec => PromisedSpec
<1> QED BY InitLists, NextLists, StoreInvHolds, PTL DEF Spec, PromisedSpec, Promised!Spec
=============================================================================
