-------------------------- MODULE Algorithms_proofs ---------------------------
(***************************************************************************)
(* The algorithms of the tag rules, the tag writers and the track pairing: *)
(* what they compute for every input, and so for the inputs of the run.    *)
(*                                                                         *)
(* A recursive function of the model is a CHOOSE of a function that equals *)
(* its own definition. That there is one is proved by induction on the     *)
(* size of the argument, from the functions that are one on the smaller    *)
(* arguments; the CHOOSE then has the equation, and the rest follows.      *)
(***************************************************************************)
EXTENDS MCRecords, FiniteSetTheorems, WellFoundedInduction, SequenceTheorems, TLAPS

\* A set of naturals has a least one, and one that has 0 and the next of each of its
\* numbers has them all. The library's theorems of induction take an operator, which the
\* provers cannot instantiate; of sets the same is a fact of first order.
LEMMA LeastNumber ==
  ASSUME NEW T, T \subseteq Nat, T # {}
  PROVE  \E n \in T : \A m \in T : n <= m
<1> DEFINE R == OpToRel(<, Nat)
<1>1. IsWellFoundedOn(R, Nat)
  BY NatLessThanWellFounded
<1>2. \A m, n \in Nat : m < n => <<m, n>> \in R
  BY DEF OpToRel
<1> HIDE DEF R
<1>3. PICK n \in T : \A m \in T : ~ (<<m, n>> \in R)
  BY <1>1, WFMin
<1>4. ASSUME NEW m \in T PROVE n <= m
  <2>1. m \in Nat /\ n \in Nat /\ ~ (<<m, n>> \in R)
    BY <1>3
  <2>2. ~ (m < n)
    BY <2>1, <1>2
  <2> QED
    BY <2>1, <2>2
<1> QED
  BY <1>4

\* The second half: every set with 0 and the next of each of its numbers.
LEMMA Induction ==
  ASSUME NEW T, 0 \in T, \A n \in T \cap Nat : n + 1 \in T
  PROVE  Nat \subseteq T
<1> SUFFICES ASSUME Nat \ T # {}
             PROVE  FALSE
  OBVIOUS
<1>1. PICK n \in Nat \ T : \A m \in Nat \ T : n <= m
  BY LeastNumber
<1>2. n - 1 \in T \cap Nat /\ (n - 1) + 1 = n
  BY <1>1
<1> QED
  BY <1>1, <1>2

\* The costs of a set of pairs, added by taking out one pair after the other: of the
\* sums of all its subsets each is that of a pair and of the rest.
Weight(ll, cl, p) == Pairing!MatchCost(ll, cl, p[1], p[2])
Some(s) == CHOOSE p \in s : TRUE
SumBody(ll, cl, g, s) == IF s = {} THEN 0 ELSE Weight(ll, cl, Some(s)) + g[s \ {Some(s)}]
Sums(ll, cl, S) == CHOOSE g : g = [s \in SUBSET S |-> SumBody(ll, cl, g, s)]
SumOf(ll, cl, S) == Sums(ll, cl, S)[S]

\* There is such a function, by induction on the size of the subset.
LEMMA SumExists ==
  ASSUME NEW ll, NEW cl, NEW S, IsFiniteSet(S)
  PROVE  \E g : g = [s \in SUBSET S |-> SumBody(ll, cl, g, s)]
<1> DEFINE T == {n \in Nat : \E g : \A s \in SUBSET S : Cardinality(s) < n => g[s] = SumBody(ll, cl, g, s)}
<1>1. \A s \in SUBSET S : IsFiniteSet(s) /\ Cardinality(s) \in Nat /\ Cardinality(s) <= Cardinality(S)
  BY FS_Subset, FS_CardinalityType
<1>2. \A s \in SUBSET S : s # {} => LET t == s \ {Some(s)} IN
                                    t \in SUBSET S /\ Cardinality(t) < Cardinality(s)
  <2> SUFFICES ASSUME NEW s \in SUBSET S, s # {}
               PROVE  LET t == s \ {Some(s)} IN
                      t \in SUBSET S /\ Cardinality(t) < Cardinality(s)
    OBVIOUS
  <2> DEFINE p == Some(s)
  <2>1. p \in s
    BY DEF Some
  <2>2. IsFiniteSet(s) /\ Cardinality(s) \in Nat
    BY <1>1
  <2> HIDE DEF p
  <2>3. Cardinality(s \ {p}) = Cardinality(s) - 1
    BY <2>1, <2>2, FS_RemoveElement
  <2>4. s \ {p} \in SUBSET S /\ Cardinality(s \ {p}) < Cardinality(s)
    BY <2>2, <2>3
  <2> QED
    BY <2>4 DEF p
<1>3. 0 \in T
  BY <1>1
<1>4. ASSUME NEW n \in T \cap Nat PROVE n + 1 \in T
  <2>1. PICK g : \A s \in SUBSET S : Cardinality(s) < n => g[s] = SumBody(ll, cl, g, s)
    OBVIOUS
  <2> DEFINE h == [s \in SUBSET S |-> IF Cardinality(s) < n THEN g[s] ELSE SumBody(ll, cl, g, s)]
  <2>2. ASSUME NEW s \in SUBSET S, Cardinality(s) < n + 1
        PROVE  h[s] = SumBody(ll, cl, h, s)
    <3>1. SumBody(ll, cl, h, s) = SumBody(ll, cl, g, s)
      <4>1. CASE s = {}
        BY <4>1 DEF SumBody
      <4>2. CASE s # {}
        <5> DEFINE t == s \ {Some(s)}
        <5>1. t \in SUBSET S /\ Cardinality(t) < n
          BY <1>1, <1>2, <2>2, <4>2
        <5>2. h[t] = g[t]
          BY <5>1
        <5> HIDE DEF h
        <5> QED
          BY <5>2 DEF SumBody
      <4> QED
        BY <4>1, <4>2
    <3> QED
      BY <2>1, <3>1
  <2> HIDE DEF h
  <2> QED
    BY <2>2
<1> HIDE DEF T
<1>5. Cardinality(S) + 1 \in T
  BY <1>1, <1>3, <1>4, Induction
<1>6. PICK g : \A s \in SUBSET S : Cardinality(s) < Cardinality(S) + 1 => g[s] = SumBody(ll, cl, g, s)
  BY <1>5 DEF T
<1> DEFINE h == [s \in SUBSET S |-> g[s]]
<1>7. ASSUME NEW s \in SUBSET S PROVE h[s] = SumBody(ll, cl, h, s)
  <2>1. SumBody(ll, cl, h, s) = SumBody(ll, cl, g, s)
    BY <1>2 DEF SumBody
  <2> QED
    BY <1>1, <1>6, <2>1
<1>8. h = [s \in SUBSET S |-> SumBody(ll, cl, h, s)]
  BY <1>7
<1> HIDE DEF h
<1> QED
  BY <1>8

\* So the one that is chosen has the equation.
LEMMA SumsAre ==
  ASSUME NEW ll, NEW cl, NEW S, IsFiniteSet(S)
  PROVE  \A s \in SUBSET S : Sums(ll, cl, S)[s] = SumBody(ll, cl, Sums(ll, cl, S), s)
<1>1. Sums(ll, cl, S) = [s \in SUBSET S |-> SumBody(ll, cl, Sums(ll, cl, S), s)]
  BY SumExists DEF Sums
<1> DEFINE g == Sums(ll, cl, S)
           h == [s \in SUBSET S |-> SumBody(ll, cl, g, s)]
<1>2. \A s \in SUBSET S : h[s] = SumBody(ll, cl, g, s)
  OBVIOUS
<1>3. g = h
  BY <1>1
<1> HIDE DEF g, h
<1>4. \A s \in SUBSET S : g[s] = SumBody(ll, cl, g, s)
  BY <1>2, <1>3
<1> QED
  BY <1>4 DEF g

\* The sum of a subset is the same wherever it is computed.
LEMMA SumsAgree ==
  ASSUME NEW ll, NEW cl, NEW S, IsFiniteSet(S), NEW R \in SUBSET S
  PROVE  Sums(ll, cl, R)[R] = Sums(ll, cl, S)[R]
<1> DEFINE g == Sums(ll, cl, S)
           h == Sums(ll, cl, R)
           T == {n \in Nat : \A s \in SUBSET R : Cardinality(s) <= n => h[s] = g[s]}
<1>1. IsFiniteSet(R) /\ \A s \in SUBSET R : IsFiniteSet(s) /\ Cardinality(s) \in Nat
  BY FS_Subset, FS_CardinalityType
<1>2. \A s \in SUBSET R : g[s] = SumBody(ll, cl, g, s) /\ h[s] = SumBody(ll, cl, h, s)
  BY <1>1, SumsAre
<1> HIDE DEF g, h
<1>3. 0 \in T
  <2> SUFFICES ASSUME NEW s \in SUBSET R, Cardinality(s) <= 0
               PROVE  h[s] = g[s]
    OBVIOUS
  <2>1. s = {}
    BY <1>1, FS_EmptySet
  <2> QED
    BY <1>2, <2>1 DEF SumBody
<1>4. ASSUME NEW n \in T \cap Nat PROVE n + 1 \in T
  <2> SUFFICES ASSUME NEW s \in SUBSET R, Cardinality(s) <= n + 1
               PROVE  h[s] = g[s]
    OBVIOUS
  <2>1. CASE s = {}
    BY <1>2, <2>1 DEF SumBody
  <2>2. CASE s # {}
    <3> DEFINE t == s \ {Some(s)}
    <3>1. Some(s) \in s
      BY <2>2 DEF Some
    <3>2. Cardinality(t) = Cardinality(s) - 1
      BY <1>1, <3>1, FS_RemoveElement
    <3>3. t \in SUBSET R /\ Cardinality(t) <= n
      BY <1>1, <3>2
    <3>4. h[t] = g[t]
      BY <3>3
    <3> QED
      BY <1>2, <2>2, <3>4 DEF SumBody
  <2> QED
    BY <2>1, <2>2
<1> HIDE DEF T
<1>5. Cardinality(R) \in T
  BY <1>1, <1>3, <1>4, Induction
<1>6. Cardinality(R) <= Cardinality(R)
  BY <1>1
<1>7. h[R] = g[R]
  BY <1>5, <1>6 DEF T
<1> QED
  BY <1>7 DEF g, h

\* The sum of nothing, and of a set by its first pair.
LEMMA SumFirst ==
  ASSUME NEW ll, NEW cl, NEW S, IsFiniteSet(S)
  PROVE  /\ SumOf(ll, cl, {}) = 0
         /\ S # {} => /\ Some(S) \in S
                      /\ SumOf(ll, cl, S) = Weight(ll, cl, Some(S)) + SumOf(ll, cl, S \ {Some(S)})
<1>1. SumOf(ll, cl, {}) = 0
  BY FS_EmptySet, SumsAre DEF SumOf, SumBody
<1>2. ASSUME S # {}
      PROVE  SumOf(ll, cl, S) = Weight(ll, cl, Some(S)) + SumOf(ll, cl, S \ {Some(S)})
  <2>1. S \ {Some(S)} \in SUBSET S
    OBVIOUS
  <2>2. SumOf(ll, cl, S \ {Some(S)}) = Sums(ll, cl, S)[S \ {Some(S)}]
    BY <2>1, SumsAgree DEF SumOf
  <2>3. SumOf(ll, cl, S) = SumBody(ll, cl, Sums(ll, cl, S), S)
    BY SumsAre DEF SumOf
  <2> QED
    BY <1>2, <2>2, <2>3 DEF SumBody
<1>3. S # {} => Some(S) \in S
  BY DEF Some
<1> QED
  BY <1>1, <1>2, <1>3

\* Any pair may be taken out first, where the costs are numbers.
LEMMA SumWithout ==
  ASSUME NEW ll, NEW cl, NEW S, IsFiniteSet(S), \A p \in S : Weight(ll, cl, p) \in Int
  PROVE  /\ SumOf(ll, cl, S) \in Int
         /\ \A p \in S : SumOf(ll, cl, S) = Weight(ll, cl, p) + SumOf(ll, cl, S \ {p})
<1> DEFINE Fine(s) == /\ SumOf(ll, cl, s) \in Int
                      /\ \A p \in s : SumOf(ll, cl, s) = Weight(ll, cl, p) + SumOf(ll, cl, s \ {p})
           T == {n \in Nat : \A s \in SUBSET S : Cardinality(s) <= n => Fine(s)}
<1>1. \A s \in SUBSET S : IsFiniteSet(s) /\ Cardinality(s) \in Nat
  BY FS_Subset, FS_CardinalityType
<1>2. 0 \in T
  <2> SUFFICES ASSUME NEW s \in SUBSET S, Cardinality(s) <= 0
               PROVE  Fine(s)
    OBVIOUS
  <2>1. s = {}
    BY <1>1, FS_EmptySet
  <2>2. SumOf(ll, cl, {}) = 0
    BY SumFirst
  <2> QED
    BY <2>1, <2>2
<1>3. ASSUME NEW n \in T \cap Nat PROVE n + 1 \in T
  <2> SUFFICES ASSUME NEW s \in SUBSET S, Cardinality(s) <= n + 1, s # {}
               PROVE  Fine(s)
    BY <1>1, <1>2, FS_EmptySet
  <2> DEFINE c == Some(s)
  <2>1. c \in s /\ SumOf(ll, cl, s) = Weight(ll, cl, c) + SumOf(ll, cl, s \ {c})
    BY <1>1, SumFirst
  <2> HIDE DEF c
  <2>2. \A p \in s : s \ {p} \in SUBSET S /\ Cardinality(s \ {p}) <= n
    BY <1>1, FS_RemoveElement
  <2>3. \A p \in s : Fine(s \ {p})
    BY <2>2
  <2>4. SumOf(ll, cl, s) \in Int
    BY <2>1, <2>3
  <2>5. ASSUME NEW p \in s, p # c
        PROVE  SumOf(ll, cl, s) = Weight(ll, cl, p) + SumOf(ll, cl, s \ {p})
    <3> DEFINE rest == SumOf(ll, cl, (s \ {c}) \ {p})
    <3>1. (s \ {c}) \ {p} = (s \ {p}) \ {c}
      OBVIOUS
    <3>2. SumOf(ll, cl, s \ {c}) = Weight(ll, cl, p) + rest
      BY <2>1, <2>3, <2>5
    <3>3. SumOf(ll, cl, s \ {p}) = Weight(ll, cl, c) + rest
      BY <2>1, <2>3, <2>5, <3>1
    <3>4. Cardinality((s \ {c}) \ {p}) = Cardinality(s \ {c}) - 1
      BY <1>1, <2>1, <2>2, <2>5, FS_RemoveElement
    <3>5. (s \ {c}) \ {p} \in SUBSET S /\ Cardinality((s \ {c}) \ {p}) <= n
      BY <1>1, <2>1, <2>2, <3>4
    <3>6. rest \in Int
      BY <3>5
    <3> HIDE DEF rest
    <3> QED
      BY <2>1, <3>2, <3>3, <3>6
  <2> QED
    BY <2>1, <2>4, <2>5
<1>4. Fine(S)
  <2> HIDE DEF Fine
  <2>1. Cardinality(S) \in T
    <3> HIDE DEF T
    <3> QED
      BY <1>1, <1>2, <1>3, Induction
  <2>2. Cardinality(S) <= Cardinality(S)
    BY <1>1
  <2> QED
    BY <2>1, <2>2
<1> QED
  BY <1>4

\* The cost of a matching in the model's words: its pairs, and a gap for the others.
LEMMA SumIsCost ==
  ASSUME NEW ll, NEW cl, NEW pairs
  PROVE  Pairing!AlignmentCost(ll, cl, pairs)
         = SumOf(ll, cl, pairs)
           + 30 * Len(ll) * Len(cl) * (Len(ll) + Len(cl) - 2 * Pairing!Cardinality(pairs))
  BY DEF Pairing!AlignmentCost, Pairing!MapThenSumSet, Pairing!MapThenFoldSet, SumOf, Sums, SumBody,
         Weight, Some

---------------------------------------------------------------------------
(***************************************************************************)
(* The table of _align_ordered_lengths                                     *)
(***************************************************************************)

\* The cells of the table and what the model says of one, from the cells before it.
Cells(ll, cl) == (0 .. Len(ll)) \X (0 .. Len(cl))
GapCost(ll, cl) == 30 * Len(ll) * Len(cl)
CellBody(ll, cl, g, at) ==
  IF at[1] = 0 THEN [cost |-> at[2] * GapCost(ll, cl), step |-> "track"]
  ELSE IF at[2] = 0 THEN [cost |-> at[1] * GapCost(ll, cl), step |-> "file"]
  ELSE LET pair == g[<<at[1] - 1, at[2] - 1>>].cost + Pairing!MatchCost(ll, cl, at[1], at[2])
           file == g[<<at[1] - 1, at[2]>>].cost + GapCost(ll, cl)
           track == g[<<at[1], at[2] - 1>>].cost + GapCost(ll, cl)
       IN IF pair <= file /\ pair <= track THEN [cost |-> pair, step |-> "pair"]
          ELSE IF file <= track THEN [cost |-> file, step |-> "file"]
          ELSE [cost |-> track, step |-> "track"]

\* The table of the model is a function of the cells that is so everywhere.
LEMMA TableIs ==
  ASSUME NEW ll, NEW cl
  PROVE  Pairing!Table(ll, cl) = CHOOSE g : g = [at \in Cells(ll, cl) |-> CellBody(ll, cl, g, at)]
  BY DEF Pairing!Table, Cells, CellBody, GapCost

\* Every cell depends on cells before it alone.
LEMMA CellsBefore ==
  ASSUME NEW ll, NEW cl, Len(ll) \in Nat, Len(cl) \in Nat, NEW g, NEW h, NEW at \in Cells(ll, cl),
         \A b \in Cells(ll, cl) : b[1] + b[2] < at[1] + at[2] => g[b] = h[b]
  PROVE  CellBody(ll, cl, g, at) = CellBody(ll, cl, h, at)
<1>1. CASE at[1] = 0 \/ at[2] = 0
  BY <1>1 DEF CellBody
<1>2. CASE at[1] # 0 /\ at[2] # 0
  <2>1. at[1] \in Nat /\ at[2] \in Nat /\ at[1] <= Len(ll) /\ at[2] <= Len(cl)
    BY DEF Cells
  <2>2. /\ <<at[1] - 1, at[2] - 1>> \in Cells(ll, cl)
        /\ <<at[1] - 1, at[2]>> \in Cells(ll, cl)
        /\ <<at[1], at[2] - 1>> \in Cells(ll, cl)
    BY <1>2, <2>1 DEF Cells
  <2>3. /\ g[<<at[1] - 1, at[2] - 1>>] = h[<<at[1] - 1, at[2] - 1>>]
        /\ g[<<at[1] - 1, at[2]>>] = h[<<at[1] - 1, at[2]>>]
        /\ g[<<at[1], at[2] - 1>>] = h[<<at[1], at[2] - 1>>]
    BY <2>1, <2>2
  <2> QED
    BY <1>2, <2>3 DEF CellBody
<1> QED
  BY <1>1, <1>2

\* There is one, by induction on the place of a cell.
LEMMA TableExists ==
  ASSUME NEW ll, NEW cl, Len(ll) \in Nat, Len(cl) \in Nat
  PROVE  \E g : g = [at \in Cells(ll, cl) |-> CellBody(ll, cl, g, at)]
<1> DEFINE T == {n \in Nat : \E g : \A at \in Cells(ll, cl) :
                               at[1] + at[2] < n => g[at] = CellBody(ll, cl, g, at)}
<1>1. \A at \in Cells(ll, cl) : at[1] + at[2] \in Nat /\ at[1] + at[2] < Len(ll) + Len(cl) + 1
  BY DEF Cells
<1>2. 0 \in T
  BY <1>1
<1>3. ASSUME NEW n \in T \cap Nat PROVE n + 1 \in T
  <2>1. PICK g : \A at \in Cells(ll, cl) : at[1] + at[2] < n => g[at] = CellBody(ll, cl, g, at)
    OBVIOUS
  <2> DEFINE h == [at \in Cells(ll, cl) |-> IF at[1] + at[2] < n THEN g[at] ELSE CellBody(ll, cl, g, at)]
  <2>2. \A at \in Cells(ll, cl) :
          h[at] = IF at[1] + at[2] < n THEN g[at] ELSE CellBody(ll, cl, g, at)
    OBVIOUS
  <2> HIDE DEF h
  <2>3. ASSUME NEW at \in Cells(ll, cl), at[1] + at[2] < n + 1
        PROVE  h[at] = CellBody(ll, cl, h, at)
    <3>1. \A b \in Cells(ll, cl) : b[1] + b[2] < at[1] + at[2] => g[b] = h[b]
      BY <1>1, <2>2, <2>3
    <3>2. CellBody(ll, cl, g, at) = CellBody(ll, cl, h, at)
      BY <3>1, CellsBefore
    <3> QED
      BY <2>1, <2>2, <3>2
  <2> QED
    BY <2>3
<1> HIDE DEF T
<1>4. Len(ll) + Len(cl) + 1 \in T
  BY <1>2, <1>3, Induction
<1>5. PICK g : \A at \in Cells(ll, cl) : g[at] = CellBody(ll, cl, g, at)
  BY <1>1, <1>4 DEF T
<1> DEFINE h == [at \in Cells(ll, cl) |-> g[at]]
<1>6. ASSUME NEW at \in Cells(ll, cl) PROVE h[at] = CellBody(ll, cl, h, at)
  <2>1. \A b \in Cells(ll, cl) : h[b] = g[b]
    OBVIOUS
  <2> HIDE DEF h
  <2>2. CellBody(ll, cl, h, at) = CellBody(ll, cl, g, at)
    BY <2>1, CellsBefore
  <2> QED
    BY <1>5, <2>1, <2>2
<1>7. h = [at \in Cells(ll, cl) |-> CellBody(ll, cl, h, at)]
  BY <1>6
<1> HIDE DEF h
<1> QED
  BY <1>7

\* So each cell is what it should be.
LEMMA TableCells ==
  ASSUME NEW ll, NEW cl, Len(ll) \in Nat, Len(cl) \in Nat, NEW at \in Cells(ll, cl)
  PROVE  Pairing!Table(ll, cl)[at] = CellBody(ll, cl, Pairing!Table(ll, cl), at)
<1> DEFINE g == Pairing!Table(ll, cl)
           h == [b \in Cells(ll, cl) |-> CellBody(ll, cl, g, b)]
<1>1. g = h
  BY TableExists, TableIs
<1>2. h[at] = CellBody(ll, cl, g, at)
  OBVIOUS
<1> HIDE DEF g, h
<1>3. g[at] = CellBody(ll, cl, g, at)
  BY <1>1, <1>2
<1> QED
  BY <1>3 DEF g

\* Lengths that are numbers, the unknown one too, cost a number.
LEMMA WeightType ==
  ASSUME NEW ll \in Seq(Int), NEW cl \in Seq(Int), NEW i \in 1 .. Len(ll), NEW j \in 1 .. Len(cl)
  PROVE  Pairing!MatchCost(ll, cl, i, j) \in Int
<1>1. Len(ll) \in Int /\ Len(cl) \in Int /\ ll[i] \in Int /\ cl[j] \in Int
  OBVIOUS
<1>2. \A a, b \in Int : a * b \in Int /\ a - b \in Int /\ a + b \in Int
  OBVIOUS
<1>3. \A a \in Int : Pairing!Abs(a) \in Int
  BY DEF Pairing!Abs
<1>4. (IF -1 \in {ll[i], cl[j]} THEN 5 ELSE Pairing!Abs(ll[i] - cl[j])) \in Int
  <2>1. ll[i] - cl[j] \in Int
    BY <1>1
  <2>2. Pairing!Abs(ll[i] - cl[j]) \in Int
    BY <1>3, <2>1
  <2>3. CASE -1 \in {ll[i], cl[j]}
    BY <2>3
  <2>4. CASE ~ (-1 \in {ll[i], cl[j]})
    BY <2>2, <2>4
  <2> QED
    BY <2>3, <2>4
<1>5. Pairing!Abs((i - 1) * Len(cl) - (j - 1) * Len(ll)) \in Int
  <2>1. i - 1 \in Int /\ j - 1 \in Int
    OBVIOUS
  <2> QED
    BY <1>1, <1>2, <1>3, <2>1
<1> DEFINE a == IF -1 \in {ll[i], cl[j]} THEN 5 ELSE Pairing!Abs(ll[i] - cl[j])
           b == Pairing!Abs((i - 1) * Len(cl) - (j - 1) * Len(ll))
<1>6. Pairing!MatchCost(ll, cl, i, j) = Len(ll) * Len(cl) * a + 10 * b
  BY DEF Pairing!MatchCost
<1> HIDE DEF a, b
<1>7. a \in Int /\ b \in Int
  BY <1>4, <1>5 DEF a, b
<1> QED
  BY <1>1, <1>2, <1>6, <1>7

\* What the cells of the table cost.
Cost(ll, cl, i, j) == Pairing!Table(ll, cl)[<<i, j>>].cost
Step(ll, cl, i, j) == Pairing!Table(ll, cl)[<<i, j>>].step

\* Where one list is used up the rest of the other is gaps.
LEMMA TableBorder ==
  ASSUME NEW ll \in Seq(Int), NEW cl \in Seq(Int)
  PROVE  /\ \A j \in 0 .. Len(cl) : Cost(ll, cl, 0, j) = j * GapCost(ll, cl)
         /\ \A i \in 0 .. Len(ll) : Cost(ll, cl, i, 0) = i * GapCost(ll, cl)
<1>1. Len(ll) \in Nat /\ Len(cl) \in Nat
  OBVIOUS
<1>2. ASSUME NEW j \in 0 .. Len(cl) PROVE Cost(ll, cl, 0, j) = j * GapCost(ll, cl)
  <2>1. <<0, j>> \in Cells(ll, cl)
    BY <1>1 DEF Cells
  <2>2. Pairing!Table(ll, cl)[<<0, j>>] = CellBody(ll, cl, Pairing!Table(ll, cl), <<0, j>>)
    BY <1>1, <2>1, TableCells
  <2>3. CellBody(ll, cl, Pairing!Table(ll, cl), <<0, j>>) = [cost |-> j * GapCost(ll, cl), step |-> "track"]
    BY DEF CellBody
  <2> QED
    BY <2>2, <2>3 DEF Cost
<1>3. ASSUME NEW i \in 0 .. Len(ll) PROVE Cost(ll, cl, i, 0) = i * GapCost(ll, cl)
  <2>1. <<i, 0>> \in Cells(ll, cl)
    BY <1>1 DEF Cells
  <2>2. CASE i = 0
    BY <1>1, <1>2, <2>2
  <2>3. CASE i # 0
    <3>1. Pairing!Table(ll, cl)[<<i, 0>>] = CellBody(ll, cl, Pairing!Table(ll, cl), <<i, 0>>)
      BY <1>1, <2>1, TableCells
    <3>2. CellBody(ll, cl, Pairing!Table(ll, cl), <<i, 0>>) = [cost |-> i * GapCost(ll, cl), step |-> "file"]
      BY <2>3 DEF CellBody
    <3> QED
      BY <3>1, <3>2 DEF Cost
  <2> QED
    BY <2>2, <2>3
<1> QED
  BY <1>2, <1>3

\* A cell inside, of which the three before it are numbers.
LEMMA TableInside ==
  ASSUME NEW ll \in Seq(Int), NEW cl \in Seq(Int), NEW i \in 1 .. Len(ll), NEW j \in 1 .. Len(cl),
         NEW pair, NEW file, NEW track,
         pair = Cost(ll, cl, i - 1, j - 1) + Pairing!MatchCost(ll, cl, i, j),
         file = Cost(ll, cl, i - 1, j) + GapCost(ll, cl),
         track = Cost(ll, cl, i, j - 1) + GapCost(ll, cl),
         pair \in Int, file \in Int, track \in Int
  PROVE  /\ Cost(ll, cl, i, j) <= pair /\ Cost(ll, cl, i, j) <= file /\ Cost(ll, cl, i, j) <= track
         /\ \/ Step(ll, cl, i, j) = "pair" /\ Cost(ll, cl, i, j) = pair
            \/ Step(ll, cl, i, j) = "file" /\ Cost(ll, cl, i, j) = file
            \/ Step(ll, cl, i, j) = "track" /\ Cost(ll, cl, i, j) = track
<1>1. Len(ll) \in Nat /\ Len(cl) \in Nat
  OBVIOUS
<1>2. <<i, j>> \in Cells(ll, cl)
  BY <1>1 DEF Cells
<1> DEFINE g == Pairing!Table(ll, cl)
           cell == IF pair <= file /\ pair <= track THEN [cost |-> pair, step |-> "pair"]
                   ELSE IF file <= track THEN [cost |-> file, step |-> "file"]
                   ELSE [cost |-> track, step |-> "track"]
<1>3. g[<<i, j>>] = cell
  <2>1. g[<<i, j>>] = CellBody(ll, cl, g, <<i, j>>)
    BY <1>1, <1>2, TableCells
  <2>2. /\ pair = g[<<i - 1, j - 1>>].cost + Pairing!MatchCost(ll, cl, i, j)
        /\ file = g[<<i - 1, j>>].cost + GapCost(ll, cl)
        /\ track = g[<<i, j - 1>>].cost + GapCost(ll, cl)
    BY DEF Cost
  <2> HIDE DEF g
  <2>3. i # 0 /\ j # 0
    OBVIOUS
  <2>4. CellBody(ll, cl, g, <<i, j>>) = cell
    BY <2>2, <2>3 DEF CellBody
  <2> QED
    BY <2>1, <2>4
<1>7. Cost(ll, cl, i, j) = g[<<i, j>>].cost /\ Step(ll, cl, i, j) = g[<<i, j>>].step
  BY DEF Cost, Step
<1> HIDE DEF g
<1>4. CASE pair <= file /\ pair <= track
  <2>1. g[<<i, j>>] = [cost |-> pair, step |-> "pair"]
    BY <1>3, <1>4
  <2> QED
    BY <1>4, <1>7, <2>1
<1>5. CASE ~ (pair <= file /\ pair <= track) /\ file <= track
  <2>1. g[<<i, j>>] = [cost |-> file, step |-> "file"]
    BY <1>3, <1>5
  <2> QED
    BY <1>5, <1>7, <2>1
<1>6. CASE ~ (pair <= file /\ pair <= track) /\ ~ (file <= track)
  <2>1. g[<<i, j>>] = [cost |-> track, step |-> "track"]
    BY <1>3, <1>6
  <2> QED
    BY <1>6, <1>7, <2>1
<1> QED
  BY <1>4, <1>5, <1>6

\* A gap costs a number.
LEMMA GapType ==
  ASSUME NEW ll \in Seq(Int), NEW cl \in Seq(Int)
  PROVE  GapCost(ll, cl) \in Int
<1>1. Len(ll) \in Int /\ Len(cl) \in Int
  OBVIOUS
<1> QED
  BY <1>1 DEF GapCost

\* Every cell costs a number.
LEMMA CostType ==
  ASSUME NEW ll \in Seq(Int), NEW cl \in Seq(Int)
  PROVE  \A i \in 0 .. Len(ll), j \in 0 .. Len(cl) : Cost(ll, cl, i, j) \in Int
<1> DEFINE T == {n \in Nat : \A i \in 0 .. Len(ll), j \in 0 .. Len(cl) :
                               i + j < n => Cost(ll, cl, i, j) \in Int}
<1>1. Len(ll) \in Nat /\ Len(cl) \in Nat
  OBVIOUS
<1>2. GapCost(ll, cl) \in Int
  BY GapType
<1>3. 0 \in T
  OBVIOUS
<1>4. ASSUME NEW n \in T \cap Nat PROVE n + 1 \in T
  <2> SUFFICES ASSUME NEW i \in 0 .. Len(ll), NEW j \in 0 .. Len(cl), i + j < n + 1
               PROVE  Cost(ll, cl, i, j) \in Int
    OBVIOUS
  <2>1. CASE i = 0 \/ j = 0
    <3>1. i * GapCost(ll, cl) \in Int /\ j * GapCost(ll, cl) \in Int
      BY <1>2
    <3> QED
      BY <2>1, <3>1, TableBorder
  <2>2. CASE i # 0 /\ j # 0
    <3>1. i \in 1 .. Len(ll) /\ j \in 1 .. Len(cl)
      BY <2>2
    <3>2. /\ Cost(ll, cl, i - 1, j - 1) \in Int /\ Cost(ll, cl, i - 1, j) \in Int
          /\ Cost(ll, cl, i, j - 1) \in Int
      <4>1. /\ i - 1 \in 0 .. Len(ll) /\ j - 1 \in 0 .. Len(cl)
            /\ (i - 1) + (j - 1) < n /\ (i - 1) + j < n /\ i + (j - 1) < n
        BY <1>1, <2>2
      <4> QED
        BY <4>1
    <3>3. Pairing!MatchCost(ll, cl, i, j) \in Int
      BY <3>1, WeightType
    <3> DEFINE pair == Cost(ll, cl, i - 1, j - 1) + Pairing!MatchCost(ll, cl, i, j)
               file == Cost(ll, cl, i - 1, j) + GapCost(ll, cl)
               track == Cost(ll, cl, i, j - 1) + GapCost(ll, cl)
    <3>4. pair \in Int /\ file \in Int /\ track \in Int
      BY <1>2, <3>2, <3>3
    <3> QED
      BY <3>1, <3>4, TableInside
  <2> QED
    BY <2>1, <2>2
<1> HIDE DEF T
<1>5. Len(ll) + Len(cl) + 1 \in T
  BY <1>1, <1>3, <1>4, Induction
<1>6. \A i \in 0 .. Len(ll), j \in 0 .. Len(cl) : i + j < Len(ll) + Len(cl) + 1
  BY <1>1
<1> QED
  BY <1>5, <1>6 DEF T

\* A cell inside costs no more than any of the three ways to it, and as much as one.
LEMMA CellInside ==
  ASSUME NEW ll \in Seq(Int), NEW cl \in Seq(Int), NEW i \in 1 .. Len(ll), NEW j \in 1 .. Len(cl)
  PROVE  LET pair == Cost(ll, cl, i - 1, j - 1) + Pairing!MatchCost(ll, cl, i, j)
             file == Cost(ll, cl, i - 1, j) + GapCost(ll, cl)
             track == Cost(ll, cl, i, j - 1) + GapCost(ll, cl)
         IN /\ Cost(ll, cl, i, j) <= pair /\ Cost(ll, cl, i, j) <= file /\ Cost(ll, cl, i, j) <= track
            /\ \/ Step(ll, cl, i, j) = "pair" /\ Cost(ll, cl, i, j) = pair
               \/ Step(ll, cl, i, j) = "file" /\ Cost(ll, cl, i, j) = file
               \/ Step(ll, cl, i, j) = "track" /\ Cost(ll, cl, i, j) = track
<1>1. /\ i \in 0 .. Len(ll) /\ j \in 0 .. Len(cl) /\ i - 1 \in 0 .. Len(ll) /\ j - 1 \in 0 .. Len(cl)
  OBVIOUS
<1>2. /\ Cost(ll, cl, i - 1, j - 1) \in Int /\ Cost(ll, cl, i - 1, j) \in Int
      /\ Cost(ll, cl, i, j - 1) \in Int
  BY <1>1, CostType
<1>3. Pairing!MatchCost(ll, cl, i, j) \in Int /\ GapCost(ll, cl) \in Int
  BY WeightType, GapType
<1> DEFINE pair == Cost(ll, cl, i - 1, j - 1) + Pairing!MatchCost(ll, cl, i, j)
           file == Cost(ll, cl, i - 1, j) + GapCost(ll, cl)
           track == Cost(ll, cl, i, j - 1) + GapCost(ll, cl)
<1>4. pair \in Int /\ file \in Int /\ track \in Int
  BY <1>2, <1>3
<1> QED
  BY <1>4, TableInside

---------------------------------------------------------------------------
(***************************************************************************)
(* Matchings, and what they cost                                           *)
(***************************************************************************)

\* The matchings of the first i files and the first j tracks.
LEMMA MatchingPairs ==
  ASSUME NEW i \in Nat, NEW j \in Nat, NEW P \in Pairing!Matchings(i, j)
  PROVE  /\ P \subseteq (1 .. i) \X (1 .. j) /\ IsFiniteSet(P) /\ Cardinality(P) \in Nat
         /\ \A p \in P : p = <<p[1], p[2]>> /\ p[1] \in 1 .. i /\ p[2] \in 1 .. j
         /\ \A p, q \in P : p # q => (p[1] < q[1] /\ p[2] < q[2]) \/ (q[1] < p[1] /\ q[2] < p[2])
<1>1. P \subseteq (1 .. i) \X (1 .. j)
  BY DEF Pairing!Matchings
<1>2. IsFiniteSet(1 .. i) /\ IsFiniteSet(1 .. j)
  BY FS_Interval
<1>3. IsFiniteSet((1 .. i) \X (1 .. j))
  BY <1>2, FS_Product
<1>4. IsFiniteSet(P) /\ Cardinality(P) \in Nat
  BY <1>1, <1>3, FS_Subset, FS_CardinalityType
<1>5. \A p, q \in P : p # q => (p[1] < q[1] /\ p[2] < q[2]) \/ (q[1] < p[1] /\ q[2] < p[2])
  BY DEF Pairing!Matchings, Pairing!Monotone
<1> QED
  BY <1>1, <1>4, <1>5

\* With the last file and the last track paired, the others are before both.
LEMMA MatchingWithLast ==
  ASSUME NEW i \in Nat \ {0}, NEW j \in Nat \ {0}, NEW P \in Pairing!Matchings(i, j), <<i, j>> \in P
  PROVE  P \ {<<i, j>>} \in Pairing!Matchings(i - 1, j - 1)
<1>1. \A p \in P \ {<<i, j>>} : p = <<p[1], p[2]>> /\ p[1] \in 1 .. i - 1 /\ p[2] \in 1 .. j - 1
  <2> SUFFICES ASSUME NEW p \in P \ {<<i, j>>}
               PROVE  p = <<p[1], p[2]>> /\ p[1] \in 1 .. i - 1 /\ p[2] \in 1 .. j - 1
    OBVIOUS
  <2>1. p = <<p[1], p[2]>> /\ p[1] \in 1 .. i /\ p[2] \in 1 .. j
    BY MatchingPairs
  <2> DEFINE last == <<i, j>>
  <2>2. last[1] = i /\ last[2] = j /\ last \in P /\ p # last
    OBVIOUS
  <2>3. (p[1] < last[1] /\ p[2] < last[2]) \/ (last[1] < p[1] /\ last[2] < p[2])
    BY <2>2, MatchingPairs
  <2> HIDE DEF last
  <2> QED
    BY <2>1, <2>2, <2>3
<1>2. P \ {<<i, j>>} \subseteq (1 .. i - 1) \X (1 .. j - 1)
  BY <1>1
<1>3. Pairing!Monotone(P \ {<<i, j>>})
  BY MatchingPairs DEF Pairing!Monotone
<1> QED
  BY <1>2, <1>3 DEF Pairing!Matchings

\* Otherwise the last file has no track or the last track no file.
LEMMA MatchingWithoutLast ==
  ASSUME NEW i \in Nat \ {0}, NEW j \in Nat \ {0}, NEW P \in Pairing!Matchings(i, j), <<i, j>> \notin P
  PROVE  P \in Pairing!Matchings(i - 1, j) \/ P \in Pairing!Matchings(i, j - 1)
<1>1. ASSUME NEW p \in P, NEW q \in P, p[1] = i, q[2] = j
      PROVE  FALSE
  <2>1. p = <<p[1], p[2]>> /\ q = <<q[1], q[2]>> /\ p[2] \in 1 .. j /\ q[1] \in 1 .. i
    BY MatchingPairs
  <2>2. p # q
    BY <1>1, <2>1
  <2>3. (p[1] < q[1] /\ p[2] < q[2]) \/ (q[1] < p[1] /\ q[2] < p[2])
    BY <2>2, MatchingPairs
  <2> QED
    BY <1>1, <2>1, <2>3
<1>2. \A p \in P : p = <<p[1], p[2]>> /\ p[1] \in 1 .. i /\ p[2] \in 1 .. j
  BY MatchingPairs
<1>3. Pairing!Monotone(P)
  BY DEF Pairing!Matchings
<1>4. CASE \A p \in P : p[1] # i
  <2>1. \A p \in P : p = <<p[1], p[2]>> /\ p[1] \in 1 .. i - 1 /\ p[2] \in 1 .. j
    BY <1>2, <1>4
  <2> QED
    BY <1>3, <2>1 DEF Pairing!Matchings
<1>5. CASE \A p \in P : p[2] # j
  <2>1. \A p \in P : p = <<p[1], p[2]>> /\ p[1] \in 1 .. i /\ p[2] \in 1 .. j - 1
    BY <1>2, <1>5
  <2> QED
    BY <1>3, <2>1 DEF Pairing!Matchings
<1> QED
  BY <1>1, <1>4, <1>5

\* What a matching of the first i files and j tracks costs.
PartCost(ll, cl, i, j, P) ==
  SumOf(ll, cl, P) + GapCost(ll, cl) * (i + j - 2 * Cardinality(P))

\* The pairs of a matching cost a number, less without one of them.
LEMMA MatchingSum ==
  ASSUME NEW ll \in Seq(Int), NEW cl \in Seq(Int), NEW i \in 0 .. Len(ll), NEW j \in 0 .. Len(cl),
         NEW P \in Pairing!Matchings(i, j)
  PROVE  /\ SumOf(ll, cl, P) \in Int
         /\ \A p \in P : /\ SumOf(ll, cl, P) = Weight(ll, cl, p) + SumOf(ll, cl, P \ {p})
                         /\ SumOf(ll, cl, P \ {p}) \in Int
                         /\ Cardinality(P \ {p}) = Cardinality(P) - 1
<1>1. i \in Nat /\ j \in Nat /\ i <= Len(ll) /\ j <= Len(cl) /\ Len(ll) \in Nat /\ Len(cl) \in Nat
  OBVIOUS
<1>2. /\ IsFiniteSet(P)
      /\ \A p \in P : p[1] \in 1 .. i /\ p[2] \in 1 .. j
  BY <1>1, MatchingPairs
<1>3. ASSUME NEW p \in P PROVE Weight(ll, cl, p) \in Int
  <2>1. p[1] \in 1 .. Len(ll) /\ p[2] \in 1 .. Len(cl)
    BY <1>1, <1>2
  <2> QED
    BY <2>1, WeightType DEF Weight
<1>4. ASSUME NEW p \in P
      PROVE  SumOf(ll, cl, P \ {p}) \in Int /\ Cardinality(P \ {p}) = Cardinality(P) - 1
  <2>1. IsFiniteSet(P \ {p})
    BY <1>2, FS_Subset
  <2>2. \A q \in P \ {p} : Weight(ll, cl, q) \in Int
    BY <1>3
  <2>3. SumOf(ll, cl, P \ {p}) \in Int
    BY <2>1, <2>2, SumWithout
  <2> QED
    BY <1>2, <2>3, FS_RemoveElement
<1>5. \A p \in P : Weight(ll, cl, p) \in Int
  BY <1>3
<1>6. SumOf(ll, cl, P) \in Int
  BY <1>2, <1>5, SumWithout
<1>7. \A p \in P : SumOf(ll, cl, P) = Weight(ll, cl, p) + SumOf(ll, cl, P \ {p})
  BY <1>2, <1>5, SumWithout
<1> QED
  BY <1>4, <1>6, <1>7

\* The arithmetic of the gaps, apart from the rest.
LEMMA Gaps ==
  ASSUME NEW g \in Int, NEW i \in Int, NEW j \in Int, NEW k \in Int
  PROVE  /\ g * (i + j - 2 * k) \in Int
         /\ g * ((i - 1) + (j - 1) - 2 * (k - 1)) = g * (i + j - 2 * k)
         /\ g * ((i - 1) + j - 2 * k) + g = g * (i + j - 2 * k)
         /\ g * (i + (j - 1) - 2 * k) + g = g * (i + j - 2 * k)
         /\ g * (i + 0 - 2 * 0) = i * g
         /\ g * (0 + j - 2 * 0) = j * g
<1>1. (i - 1) + (j - 1) - 2 * (k - 1) = i + j - 2 * k
  OBVIOUS
<1>2. \A a \in Int : g * (a - 1) + g = g * a /\ g * a \in Int /\ g * a = a * g
  OBVIOUS
<1>3. i + j - 2 * k \in Int /\ (i - 1) + j - 2 * k = (i + j - 2 * k) - 1
      /\ i + (j - 1) - 2 * k = (i + j - 2 * k) - 1
  OBVIOUS
<1>4. i + 0 - 2 * 0 = i /\ 0 + j - 2 * 0 = j
  OBVIOUS
<1> QED
  BY <1>1, <1>2, <1>3, <1>4

LEMMA OneLess ==
  ASSUME NEW g \in Int, NEW x \in Int, NEW y \in Int, y = x - 1
  PROVE  g * y + g = g * x /\ g * y \in Int
<1>1. g * (x - 1) + g = g * x /\ g * (x - 1) \in Int
  OBVIOUS
<1> QED
  BY <1>1

\* No matching of the first i files and j tracks costs less than their cell.
LEMMA CellIsLowest ==
  ASSUME NEW ll \in Seq(Int), NEW cl \in Seq(Int)
  PROVE  \A i \in 0 .. Len(ll), j \in 0 .. Len(cl) : \A P \in Pairing!Matchings(i, j) :
           Cost(ll, cl, i, j) <= PartCost(ll, cl, i, j, P)
<1> DEFINE T == {n \in Nat : \A i \in 0 .. Len(ll), j \in 0 .. Len(cl) : i + j < n =>
                               \A P \in Pairing!Matchings(i, j) :
                                 Cost(ll, cl, i, j) <= PartCost(ll, cl, i, j, P)}
           G == GapCost(ll, cl)
<1>1. Len(ll) \in Nat /\ Len(cl) \in Nat
  OBVIOUS
<1>2. G \in Int
  BY GapType
<1>3. 0 \in T
  OBVIOUS
<1>4. ASSUME NEW n \in T \cap Nat PROVE n + 1 \in T
  <2> SUFFICES ASSUME NEW i \in 0 .. Len(ll), NEW j \in 0 .. Len(cl), i + j < n + 1,
                      NEW P \in Pairing!Matchings(i, j)
               PROVE  Cost(ll, cl, i, j) <= PartCost(ll, cl, i, j, P)
    OBVIOUS
  <2> DEFINE k == Cardinality(P)
             sum == SumOf(ll, cl, P)
  <2>1. i \in Nat /\ j \in Nat
    BY <1>1
  <2>2. k \in Nat /\ sum \in Int
    BY <2>1, MatchingPairs, MatchingSum
  <2>3. PartCost(ll, cl, i, j, P) = sum + G * (i + j - 2 * k)
    BY DEF PartCost
  <2>4. CASE i = 0 \/ j = 0
    <3>1. P = {}
      <4>1. P \subseteq (1 .. i) \X (1 .. j)
        BY <2>1, MatchingPairs
      <4>2. 1 .. i = {} \/ 1 .. j = {}
        BY <2>4
      <4> QED
        BY <4>1, <4>2
    <3>2. k = 0 /\ sum = 0
      BY <3>1, SumFirst, FS_EmptySet
    <3>3. PartCost(ll, cl, i, j, P) = G * (i + j - 2 * 0)
      BY <1>2, <2>1, <2>3, <3>2
    <3>4. CASE i = 0
      <4>1. G * (i + j - 2 * 0) = j * G
        BY <1>2, <2>1, <3>4, Gaps
      <4>2. j * G \in Int
        BY <1>2, <2>1
      <4> QED
        BY <3>3, <3>4, <4>1, <4>2, TableBorder
    <3>5. CASE j = 0
      <4>1. G * (i + j - 2 * 0) = i * G
        BY <1>2, <2>1, <3>5, Gaps
      <4>2. i * G \in Int
        BY <1>2, <2>1
      <4> QED
        BY <3>3, <3>5, <4>1, <4>2, TableBorder
    <3> QED
      BY <2>4, <3>4, <3>5
  <2>5. CASE i # 0 /\ j # 0
    <3>1. i \in 1 .. Len(ll) /\ j \in 1 .. Len(cl) /\ i \in Nat \ {0} /\ j \in Nat \ {0}
      BY <2>1, <2>5
    <3>2. /\ i - 1 \in 0 .. Len(ll) /\ j - 1 \in 0 .. Len(cl)
          /\ (i - 1) + (j - 1) < n /\ (i - 1) + j < n /\ i + (j - 1) < n
      BY <1>1, <2>1, <2>5
    <3>3. /\ Cost(ll, cl, i - 1, j - 1) \in Int /\ Cost(ll, cl, i - 1, j) \in Int
          /\ Cost(ll, cl, i, j - 1) \in Int /\ Cost(ll, cl, i, j) \in Int
      BY <3>2, CostType
    <3>4. /\ Cost(ll, cl, i, j) <= Cost(ll, cl, i - 1, j - 1) + Pairing!MatchCost(ll, cl, i, j)
          /\ Cost(ll, cl, i, j) <= Cost(ll, cl, i - 1, j) + G
          /\ Cost(ll, cl, i, j) <= Cost(ll, cl, i, j - 1) + G
      BY <3>1, CellInside
    <3>5. /\ G * (i + j - 2 * k) \in Int
          /\ G * ((i - 1) + (j - 1) - 2 * (k - 1)) = G * (i + j - 2 * k)
          /\ G * ((i - 1) + j - 2 * k) + G = G * (i + j - 2 * k)
          /\ G * (i + (j - 1) - 2 * k) + G = G * (i + j - 2 * k)
      <4>1. G \in Int /\ i \in Int /\ j \in Int /\ k \in Int
        BY <1>2, <2>1, <2>2
      <4> HIDE DEF G, k
      <4> QED
        BY ONLY <4>1, Gaps
    <3>6. CASE <<i, j>> \in P
      <4> DEFINE rest == P \ {<<i, j>>}
      <4>1. rest \in Pairing!Matchings(i - 1, j - 1)
        BY <3>1, <3>6, MatchingWithLast
      <4>2. Cost(ll, cl, i - 1, j - 1) <= PartCost(ll, cl, i - 1, j - 1, rest)
        BY <3>2, <4>1
      <4>3. /\ sum = Weight(ll, cl, <<i, j>>) + SumOf(ll, cl, rest) /\ SumOf(ll, cl, rest) \in Int
            /\ Cardinality(rest) = k - 1
        <5>1. \A p \in P : /\ SumOf(ll, cl, P) = Weight(ll, cl, p) + SumOf(ll, cl, P \ {p})
                          /\ SumOf(ll, cl, P \ {p}) \in Int
                          /\ Cardinality(P \ {p}) = Cardinality(P) - 1
          BY MatchingSum
        <5> QED
          BY <3>6, <5>1
      <4>4. Weight(ll, cl, <<i, j>>) = Pairing!MatchCost(ll, cl, i, j)
        BY DEF Weight
      <4>5. Pairing!MatchCost(ll, cl, i, j) \in Int
        BY <3>1, WeightType
      <4>6. PartCost(ll, cl, i - 1, j - 1, rest) = SumOf(ll, cl, rest) + G * (i + j - 2 * k)
        BY <3>5, <4>3 DEF PartCost
      <4> DEFINE gaps == G * (i + j - 2 * k)
      <4>7. gaps \in Int /\ PartCost(ll, cl, i, j, P) = sum + gaps
            /\ PartCost(ll, cl, i - 1, j - 1, rest) = SumOf(ll, cl, rest) + gaps
        BY <2>3, <3>5, <4>6
      <4> HIDE DEF rest, G, sum, k, gaps
      <4> DEFINE c == Cost(ll, cl, i, j)
                 d == Cost(ll, cl, i - 1, j - 1)
                 w == Pairing!MatchCost(ll, cl, i, j)
                 r == SumOf(ll, cl, rest)
      <4>8. /\ c \in Int /\ d \in Int /\ w \in Int /\ r \in Int /\ gaps \in Int
            /\ c <= d + w
        BY <3>3, <3>4, <4>3, <4>5, <4>7
      <4>9. sum = w + r
        BY <4>3, <4>4
      <4>10. d <= r + gaps
        BY <4>2, <4>7
      <4> HIDE DEF c, d, w, r
      <4>11. c <= sum + gaps
        BY ONLY <4>8, <4>9, <4>10
      <4> QED
        BY <4>7, <4>11 DEF c
    <3>7. CASE P \in Pairing!Matchings(i - 1, j)
      <4>1. Cost(ll, cl, i - 1, j) <= PartCost(ll, cl, i - 1, j, P)
        BY <3>2, <3>7
      <4>2. PartCost(ll, cl, i - 1, j, P) = sum + G * ((i - 1) + j - 2 * k)
        BY DEF PartCost
      <4>3. G * ((i - 1) + j - 2 * k) \in Int
        BY <1>2, <2>1, <2>2, Gaps
      <4> HIDE DEF G, sum, k
      <4> QED
        BY <1>2, <2>2, <2>3, <3>3, <3>4, <3>5, <4>1, <4>2, <4>3
    <3>8. CASE P \in Pairing!Matchings(i, j - 1)
      <4>1. Cost(ll, cl, i, j - 1) <= PartCost(ll, cl, i, j - 1, P)
        BY <3>2, <3>8
      <4>2. PartCost(ll, cl, i, j - 1, P) = sum + G * (i + (j - 1) - 2 * k)
        BY DEF PartCost
      <4>3. G * (i + (j - 1) - 2 * k) \in Int
        BY <1>2, <2>1, <2>2, Gaps
      <4> HIDE DEF G, sum, k
      <4> QED
        BY <1>2, <2>2, <2>3, <3>3, <3>4, <3>5, <4>1, <4>2, <4>3
    <3> QED
      BY <3>1, <3>6, <3>7, <3>8, MatchingWithoutLast
  <2> QED
    BY <2>4, <2>5
<1> HIDE DEF T
<1>5. Len(ll) + Len(cl) + 1 \in T
  BY <1>1, <1>3, <1>4, Induction
<1>6. \A i \in 0 .. Len(ll), j \in 0 .. Len(cl) : i + j < Len(ll) + Len(cl) + 1
  BY <1>1
<1> QED
  BY <1>5, <1>6 DEF T

\* The way back from a cell.
BackBody(ll, cl, g, at) ==
  IF at[1] = 0 \/ at[2] = 0 THEN {}
  ELSE CASE Step(ll, cl, at[1], at[2]) = "pair" -> {at} \cup g[<<at[1] - 1, at[2] - 1>>]
         [] Step(ll, cl, at[1], at[2]) = "file" -> g[<<at[1] - 1, at[2]>>]
         [] Step(ll, cl, at[1], at[2]) = "track" -> g[<<at[1], at[2] - 1>>]
Back(ll, cl) == CHOOSE g : g = [at \in Cells(ll, cl) |-> BackBody(ll, cl, g, at)]

\* The alignment of the model is the way back from the last cell.
LEMMA BackIs ==
  ASSUME NEW ll, NEW cl
  PROVE  Pairing!AlignOrderedLengths(ll, cl) = Back(ll, cl)[<<Len(ll), Len(cl)>>]
<1> DEFINE table == Pairing!Table(ll, cl)
           F(g) == [at \in Cells(ll, cl) |->
                      IF at[1] = 0 \/ at[2] = 0 THEN {}
                      ELSE CASE table[at].step = "pair" -> {at} \cup g[<<at[1] - 1, at[2] - 1>>]
                             [] table[at].step = "file" -> g[<<at[1] - 1, at[2]>>]
                             [] table[at].step = "track" -> g[<<at[1], at[2] - 1>>]]
<1>1. Pairing!AlignOrderedLengths(ll, cl) = (CHOOSE g : g = F(g))[<<Len(ll), Len(cl)>>]
  BY DEF Pairing!AlignOrderedLengths, Cells
<1>2. ASSUME NEW g PROVE F(g) = [at \in Cells(ll, cl) |-> BackBody(ll, cl, g, at)]
  <2>1. ASSUME NEW at \in Cells(ll, cl) PROVE F(g)[at] = BackBody(ll, cl, g, at)
    <3>1. at = <<at[1], at[2]>>
      BY DEF Cells
    <3>2. Step(ll, cl, at[1], at[2]) = table[at].step
      BY <3>1 DEF Step
    <3>3. F(g)[at] = IF at[1] = 0 \/ at[2] = 0 THEN {}
                     ELSE CASE table[at].step = "pair" -> {at} \cup g[<<at[1] - 1, at[2] - 1>>]
                            [] table[at].step = "file" -> g[<<at[1] - 1, at[2]>>]
                            [] table[at].step = "track" -> g[<<at[1], at[2] - 1>>]
      OBVIOUS
    <3> HIDE DEF table, F
    <3> QED
      BY <3>2, <3>3 DEF BackBody
  <2> QED
    BY <2>1
<1> HIDE DEF F
<1>3. \A g : (g = F(g)) <=> (g = [at \in Cells(ll, cl) |-> BackBody(ll, cl, g, at)])
  BY <1>2
<1>4. (CHOOSE g : g = F(g)) = Back(ll, cl)
  BY <1>3 DEF Back
<1> QED
  BY <1>1, <1>4

\* The way back from a cell depends on those from the cells before it alone.
LEMMA BacksBefore ==
  ASSUME NEW ll, NEW cl, Len(ll) \in Nat, Len(cl) \in Nat, NEW g, NEW h, NEW at \in Cells(ll, cl),
         \A b \in Cells(ll, cl) : b[1] + b[2] < at[1] + at[2] => g[b] = h[b]
  PROVE  BackBody(ll, cl, g, at) = BackBody(ll, cl, h, at)
<1>1. CASE at[1] = 0 \/ at[2] = 0
  BY <1>1 DEF BackBody
<1>2. CASE at[1] # 0 /\ at[2] # 0
  <2>1. at[1] \in Nat /\ at[2] \in Nat /\ at[1] <= Len(ll) /\ at[2] <= Len(cl)
    BY DEF Cells
  <2>2. /\ <<at[1] - 1, at[2] - 1>> \in Cells(ll, cl)
        /\ <<at[1] - 1, at[2]>> \in Cells(ll, cl)
        /\ <<at[1], at[2] - 1>> \in Cells(ll, cl)
    BY <1>2, <2>1 DEF Cells
  <2>3. /\ g[<<at[1] - 1, at[2] - 1>>] = h[<<at[1] - 1, at[2] - 1>>]
        /\ g[<<at[1] - 1, at[2]>>] = h[<<at[1] - 1, at[2]>>]
        /\ g[<<at[1], at[2] - 1>>] = h[<<at[1], at[2] - 1>>]
    BY <2>1, <2>2
  <2> QED
    BY <1>2, <2>3 DEF BackBody
<1> QED
  BY <1>1, <1>2

\* There is such a function, by induction on the place of a cell.
LEMMA BackExists ==
  ASSUME NEW ll, NEW cl, Len(ll) \in Nat, Len(cl) \in Nat
  PROVE  \E g : g = [at \in Cells(ll, cl) |-> BackBody(ll, cl, g, at)]
<1> DEFINE T == {n \in Nat : \E g : \A at \in Cells(ll, cl) :
                               at[1] + at[2] < n => g[at] = BackBody(ll, cl, g, at)}
<1>1. \A at \in Cells(ll, cl) : at[1] + at[2] \in Nat /\ at[1] + at[2] < Len(ll) + Len(cl) + 1
  BY DEF Cells
<1>2. 0 \in T
  BY <1>1
<1>3. ASSUME NEW n \in T \cap Nat PROVE n + 1 \in T
  <2>1. PICK g : \A at \in Cells(ll, cl) : at[1] + at[2] < n => g[at] = BackBody(ll, cl, g, at)
    OBVIOUS
  <2> DEFINE h == [at \in Cells(ll, cl) |-> IF at[1] + at[2] < n THEN g[at] ELSE BackBody(ll, cl, g, at)]
  <2>2. \A at \in Cells(ll, cl) :
          h[at] = IF at[1] + at[2] < n THEN g[at] ELSE BackBody(ll, cl, g, at)
    OBVIOUS
  <2> HIDE DEF h
  <2>3. ASSUME NEW at \in Cells(ll, cl), at[1] + at[2] < n + 1
        PROVE  h[at] = BackBody(ll, cl, h, at)
    <3>1. \A b \in Cells(ll, cl) : b[1] + b[2] < at[1] + at[2] => g[b] = h[b]
      BY <1>1, <2>2, <2>3
    <3>2. BackBody(ll, cl, g, at) = BackBody(ll, cl, h, at)
      BY <3>1, BacksBefore
    <3> QED
      BY <2>1, <2>2, <3>2
  <2> QED
    BY <2>3
<1> HIDE DEF T
<1>4. Len(ll) + Len(cl) + 1 \in T
  BY <1>2, <1>3, Induction
<1>5. PICK g : \A at \in Cells(ll, cl) : g[at] = BackBody(ll, cl, g, at)
  BY <1>1, <1>4 DEF T
<1> DEFINE h == [at \in Cells(ll, cl) |-> g[at]]
<1>6. ASSUME NEW at \in Cells(ll, cl) PROVE h[at] = BackBody(ll, cl, h, at)
  <2>1. \A b \in Cells(ll, cl) : h[b] = g[b]
    OBVIOUS
  <2> HIDE DEF h
  <2>2. BackBody(ll, cl, h, at) = BackBody(ll, cl, g, at)
    BY <2>1, BacksBefore
  <2> QED
    BY <1>5, <2>1, <2>2
<1>7. h = [at \in Cells(ll, cl) |-> BackBody(ll, cl, h, at)]
  BY <1>6
<1> HIDE DEF h
<1> QED
  BY <1>7

\* So each way back is what it should be.
LEMMA BackCells ==
  ASSUME NEW ll, NEW cl, Len(ll) \in Nat, Len(cl) \in Nat, NEW at \in Cells(ll, cl)
  PROVE  Back(ll, cl)[at] = BackBody(ll, cl, Back(ll, cl), at)
<1> DEFINE g == Back(ll, cl)
           h == [b \in Cells(ll, cl) |-> BackBody(ll, cl, g, b)]
<1>1. g = h
  BY BackExists DEF Back
<1>2. h[at] = BackBody(ll, cl, g, at)
  OBVIOUS
<1> HIDE DEF g, h
<1>3. g[at] = BackBody(ll, cl, g, at)
  BY <1>1, <1>2
<1> QED
  BY <1>3 DEF g

\* A matching of the files and tracks before two, and the two.
LEMMA MatchingAndLast ==
  ASSUME NEW i \in Nat \ {0}, NEW j \in Nat \ {0},
         NEW h, NEW k, h = i - 1, k = j - 1, NEW P \in Pairing!Matchings(h, k)
  PROVE  /\ {<<i, j>>} \cup P \in Pairing!Matchings(i, j)
         /\ <<i, j>> \notin P
<1> DEFINE last == <<i, j>>
<1>1. \A p \in P : p = <<p[1], p[2]>> /\ p[1] \in 1 .. i - 1 /\ p[2] \in 1 .. j - 1
  <2>1. h \in Nat /\ k \in Nat
    OBVIOUS
  <2> QED
    BY <2>1, MatchingPairs
<1>2. last[1] = i /\ last[2] = j
  OBVIOUS
<1>3. last \notin P
  BY <1>1, <1>2
<1>4. {last} \cup P \subseteq (1 .. i) \X (1 .. j)
  <2>1. \A p \in P : p = <<p[1], p[2]>> /\ p[1] \in 1 .. i /\ p[2] \in 1 .. j
    BY <1>1
  <2> QED
    BY <2>1
<1>5. Pairing!Monotone({last} \cup P)
  <2>1. \A p, q \in P : p # q => (p[1] < q[1] /\ p[2] < q[2]) \/ (q[1] < p[1] /\ q[2] < p[2])
    <3>1. h \in Nat /\ k \in Nat
      OBVIOUS
    <3> QED
      BY <3>1, MatchingPairs
  <2>2. \A p \in P : p[1] < last[1] /\ p[2] < last[2]
    BY <1>1, <1>2
  <2> HIDE DEF last
  <2> QED
    BY <2>1, <2>2 DEF Pairing!Monotone
<1> QED
  BY <1>3, <1>4, <1>5 DEF Pairing!Matchings

\* A matching of fewer files or tracks is one of more.
LEMMA MatchingWider ==
  ASSUME NEW i \in Nat, NEW j \in Nat, NEW P
  PROVE  /\ i # 0 /\ P \in Pairing!Matchings(i - 1, j) => P \in Pairing!Matchings(i, j)
         /\ j # 0 /\ P \in Pairing!Matchings(i, j - 1) => P \in Pairing!Matchings(i, j)
         /\ {} \in Pairing!Matchings(i, j)
  BY DEF Pairing!Matchings, Pairing!Monotone

\* The way back from a cell is a matching that costs what the cell does.
LEMMA BackCosts ==
  ASSUME NEW ll \in Seq(Int), NEW cl \in Seq(Int)
  PROVE  \A i \in 0 .. Len(ll), j \in 0 .. Len(cl) :
           /\ Back(ll, cl)[<<i, j>>] \in Pairing!Matchings(i, j)
           /\ PartCost(ll, cl, i, j, Back(ll, cl)[<<i, j>>]) = Cost(ll, cl, i, j)
<1> DEFINE B(i, j) == Back(ll, cl)[<<i, j>>]
           Fine(i, j) == /\ B(i, j) \in Pairing!Matchings(i, j)
                         /\ PartCost(ll, cl, i, j, B(i, j)) = Cost(ll, cl, i, j)
           T == {n \in Nat : \A i \in 0 .. Len(ll), j \in 0 .. Len(cl) : i + j < n => Fine(i, j)}
           G == GapCost(ll, cl)
<1>1. Len(ll) \in Nat /\ Len(cl) \in Nat
  OBVIOUS
<1>2. G \in Int
  BY GapType
<1>3. 0 \in T
  OBVIOUS
<1>4. ASSUME NEW n \in T \cap Nat PROVE n + 1 \in T
  <2> SUFFICES ASSUME NEW i \in 0 .. Len(ll), NEW j \in 0 .. Len(cl), i + j < n + 1
               PROVE  Fine(i, j)
    OBVIOUS
  <2>1. i \in Nat /\ j \in Nat
    BY <1>1
  <2>2. B(i, j) = IF i = 0 \/ j = 0 THEN {}
                  ELSE CASE Step(ll, cl, i, j) = "pair" -> {<<i, j>>} \cup B(i - 1, j - 1)
                         [] Step(ll, cl, i, j) = "file" -> B(i - 1, j)
                         [] Step(ll, cl, i, j) = "track" -> B(i, j - 1)
    <3>1. <<i, j>> \in Cells(ll, cl)
      BY DEF Cells
    <3>2. B(i, j) = BackBody(ll, cl, Back(ll, cl), <<i, j>>)
      BY <1>1, <3>1, BackCells
    <3> QED
      BY <3>2 DEF BackBody
  <2>3. CASE i = 0 \/ j = 0
    <3>1. B(i, j) = {}
      BY <2>2, <2>3
    <3>2. {} \in Pairing!Matchings(i, j)
      BY <2>1, MatchingWider
    <3>3. PartCost(ll, cl, i, j, {}) = 0 + G * (i + j - 2 * 0)
      BY SumFirst, FS_EmptySet DEF PartCost
    <3>4. CASE i = 0
      <4>1. G * (i + j - 2 * 0) = j * G /\ j * G \in Int
        BY <1>2, <2>1, <3>4, Gaps
      <4> QED
        BY <3>1, <3>2, <3>3, <3>4, <4>1, TableBorder
    <3>5. CASE j = 0
      <4>1. G * (i + j - 2 * 0) = i * G /\ i * G \in Int
        BY <1>2, <2>1, <3>5, Gaps
      <4> QED
        BY <3>1, <3>2, <3>3, <3>5, <4>1, TableBorder
    <3> QED
      BY <2>3, <3>4, <3>5
  <2>4. CASE i # 0 /\ j # 0
    <3>1. i \in 1 .. Len(ll) /\ j \in 1 .. Len(cl) /\ i \in Nat \ {0} /\ j \in Nat \ {0}
      BY <2>1, <2>4
    <3>2. /\ i - 1 \in 0 .. Len(ll) /\ j - 1 \in 0 .. Len(cl)
          /\ (i - 1) + (j - 1) < n /\ (i - 1) + j < n /\ i + (j - 1) < n
      BY <1>1, <2>1, <2>4
    <3>3. Fine(i - 1, j - 1) /\ Fine(i - 1, j) /\ Fine(i, j - 1)
      BY <3>2
    <3>4. \/ /\ Step(ll, cl, i, j) = "pair"
             /\ Cost(ll, cl, i, j) = Cost(ll, cl, i - 1, j - 1) + Pairing!MatchCost(ll, cl, i, j)
          \/ Step(ll, cl, i, j) = "file" /\ Cost(ll, cl, i, j) = Cost(ll, cl, i - 1, j) + G
          \/ Step(ll, cl, i, j) = "track" /\ Cost(ll, cl, i, j) = Cost(ll, cl, i, j - 1) + G
      BY <3>1, CellInside
    <3>5. CASE /\ Step(ll, cl, i, j) = "pair"
               /\ Cost(ll, cl, i, j) = Cost(ll, cl, i - 1, j - 1) + Pairing!MatchCost(ll, cl, i, j)
      <4> DEFINE P == B(i - 1, j - 1)
                 Q == {<<i, j>>} \cup P
                 k == Cardinality(P)
                 gaps == G * (i + j - 2 * (k + 1))
      <4>1. B(i, j) = Q
        BY <2>2, <2>4, <3>5
      <4>2. P \in Pairing!Matchings(i - 1, j - 1)
        BY <3>3
      <4> HIDE DEF P
      <4>3. /\ Q \in Pairing!Matchings(i, j) /\ Q \ {<<i, j>>} = P
            /\ Cardinality(Q) = k + 1 /\ k \in Nat
        <5>1. i - 1 \in Nat /\ j - 1 \in Nat
          BY <3>1
        <5>2. k \in Nat
          BY <4>2, <5>1, MatchingPairs
        <5> DEFINE a == i - 1
                   b == j - 1
        <5>3. /\ {<<i, j>>} \cup P \in Pairing!Matchings(i, j)
              /\ ({<<i, j>>} \cup P) \ {<<i, j>>} = P
              /\ Cardinality({<<i, j>>} \cup P) = Cardinality(P) + 1
          <6>1. i \in Nat \ {0} /\ j \in Nat \ {0} /\ P \in Pairing!Matchings(a, b)
                /\ a = i - 1 /\ b = j - 1
            BY <3>1, <4>2
          <6> HIDE DEF a, b
          <6>2. {<<i, j>>} \cup P \in Pairing!Matchings(i, j)
            BY ONLY <6>1, MatchingAndLast
          <6>3. <<i, j>> \notin P
            BY ONLY <6>1, MatchingAndLast
          <6>4. Cardinality({<<i, j>>} \cup P) = Cardinality(P) + 1
            <7> DEFINE last == <<i, j>>
            <7>1. last \notin P
              BY <6>3
            <7>2. a \in Nat /\ b \in Nat
              BY <6>1
            <7>3. IsFiniteSet(P)
              BY <6>1, <7>2, MatchingPairs
            <7> HIDE DEF last
            <7>4. Cardinality(P \cup {last}) = Cardinality(P) + 1
              BY <7>1, <7>3, FS_AddElement
            <7>5. P \cup {last} = {last} \cup P
              OBVIOUS
            <7> QED
              BY <7>4, <7>5 DEF last
          <6> QED
            BY <6>2, <6>3, <6>4
        <5> QED
          BY <5>2, <5>3
      <4>4. SumOf(ll, cl, Q) = Weight(ll, cl, <<i, j>>) + SumOf(ll, cl, P) /\ SumOf(ll, cl, P) \in Int
        <5>1. \A p \in Q : /\ SumOf(ll, cl, Q) = Weight(ll, cl, p) + SumOf(ll, cl, Q \ {p})
                          /\ SumOf(ll, cl, Q \ {p}) \in Int
          <6>1. Q \in Pairing!Matchings(i, j)
            BY <4>3
          <6> HIDE DEF Q
          <6>2. ll \in Seq(Int) /\ cl \in Seq(Int) /\ i \in 0 .. Len(ll) /\ j \in 0 .. Len(cl)
            OBVIOUS
          <6> QED
            BY ONLY <6>1, <6>2, MatchingSum
        <5>2. <<i, j>> \in Q
          OBVIOUS
        <5> QED
          BY <4>3, <5>1, <5>2
      <4>5. Weight(ll, cl, <<i, j>>) = Pairing!MatchCost(ll, cl, i, j)
            /\ Pairing!MatchCost(ll, cl, i, j) \in Int
        BY <3>1, WeightType DEF Weight
      <4>6. gaps \in Int /\ PartCost(ll, cl, i, j, Q) = SumOf(ll, cl, Q) + gaps
            /\ PartCost(ll, cl, i - 1, j - 1, P) = SumOf(ll, cl, P) + gaps
        <5>1. k + 1 \in Int /\ (k + 1) - 1 = k
          BY <4>3
        <5>2. gaps \in Int /\ G * ((i - 1) + (j - 1) - 2 * ((k + 1) - 1)) = gaps
          BY <1>2, <2>1, <5>1, Gaps
        <5> QED
          BY <4>3, <5>1, <5>2 DEF PartCost
      <4>7. PartCost(ll, cl, i - 1, j - 1, P) = Cost(ll, cl, i - 1, j - 1)
        BY <3>3 DEF P
      <4> HIDE DEF Q, gaps
      <4>8. PartCost(ll, cl, i, j, Q) = Cost(ll, cl, i, j)
        BY <3>5, <4>4, <4>5, <4>6, <4>7
      <4> QED
        BY <4>1, <4>3, <4>8
    <3>6. CASE Step(ll, cl, i, j) = "file" /\ Cost(ll, cl, i, j) = Cost(ll, cl, i - 1, j) + G
      <4> DEFINE P == B(i - 1, j)
                 k == Cardinality(P)
                 gaps == G * ((i - 1) + j - 2 * k)
                 wider == G * (i + j - 2 * k)
      <4>1. B(i, j) = P
        BY <2>2, <2>4, <3>6
      <4>2. P \in Pairing!Matchings(i - 1, j)
        BY <3>3
      <4> HIDE DEF P
      <4>3. P \in Pairing!Matchings(i, j) /\ k \in Nat /\ SumOf(ll, cl, P) \in Int
        BY <2>1, <2>4, <4>2, MatchingWider, MatchingPairs, MatchingSum
      <4>4. gaps + G = wider /\ gaps \in Int
        <5> DEFINE x == i + j - 2 * k
                   y == (i - 1) + j - 2 * k
        <5>1. G \in Int /\ x \in Int /\ y \in Int /\ y = x - 1
          BY <1>2, <2>1, <4>3
        <5> HIDE DEF G, x, y
        <5>2. G * y + G = G * x /\ G * y \in Int
          BY ONLY <5>1, OneLess
        <5> QED
          BY <5>2 DEF x, y
      <4>5. PartCost(ll, cl, i, j, P) = SumOf(ll, cl, P) + wider
            /\ PartCost(ll, cl, i - 1, j, P) = SumOf(ll, cl, P) + gaps
        BY DEF PartCost
      <4>6. PartCost(ll, cl, i - 1, j, P) = Cost(ll, cl, i - 1, j)
        BY <3>3 DEF P
      <4> HIDE DEF gaps, wider, G
      <4>7. PartCost(ll, cl, i, j, P) = Cost(ll, cl, i, j)
        BY <1>2, <3>6, <4>3, <4>4, <4>5, <4>6
      <4> QED
        BY <4>1, <4>3, <4>7
    <3>7. CASE Step(ll, cl, i, j) = "track" /\ Cost(ll, cl, i, j) = Cost(ll, cl, i, j - 1) + G
      <4> DEFINE P == B(i, j - 1)
                 k == Cardinality(P)
                 gaps == G * (i + (j - 1) - 2 * k)
                 wider == G * (i + j - 2 * k)
      <4>1. B(i, j) = P
        BY <2>2, <2>4, <3>7
      <4>2. P \in Pairing!Matchings(i, j - 1)
        BY <3>3
      <4> HIDE DEF P
      <4>3. P \in Pairing!Matchings(i, j) /\ k \in Nat /\ SumOf(ll, cl, P) \in Int
        BY <2>1, <2>4, <4>2, MatchingWider, MatchingPairs, MatchingSum
      <4>4. gaps + G = wider /\ gaps \in Int
        <5> DEFINE x == i + j - 2 * k
                   y == i + (j - 1) - 2 * k
        <5>1. G \in Int /\ x \in Int /\ y \in Int /\ y = x - 1
          BY <1>2, <2>1, <4>3
        <5> HIDE DEF G, x, y
        <5>2. G * y + G = G * x /\ G * y \in Int
          BY ONLY <5>1, OneLess
        <5> QED
          BY <5>2 DEF x, y
      <4>5. PartCost(ll, cl, i, j, P) = SumOf(ll, cl, P) + wider
            /\ PartCost(ll, cl, i, j - 1, P) = SumOf(ll, cl, P) + gaps
        BY DEF PartCost
      <4>6. PartCost(ll, cl, i, j - 1, P) = Cost(ll, cl, i, j - 1)
        BY <3>3 DEF P
      <4> HIDE DEF gaps, wider, G
      <4>7. PartCost(ll, cl, i, j, P) = Cost(ll, cl, i, j)
        BY <1>2, <3>7, <4>3, <4>4, <4>5, <4>6
      <4> QED
        BY <4>1, <4>3, <4>7
    <3> QED
      BY <3>4, <3>5, <3>6, <3>7
  <2> QED
    BY <2>3, <2>4
<1> HIDE DEF T
<1>5. Len(ll) + Len(cl) + 1 \in T
  BY <1>1, <1>3, <1>4, Induction
<1>6. \A i \in 0 .. Len(ll), j \in 0 .. Len(cl) : i + j < Len(ll) + Len(cl) + 1
  BY <1>1
<1> QED
  BY <1>5, <1>6 DEF T

\* AlignOrderedLengths finds, for every two lists of lengths, pairs in order, and no
\* other pairs in order cost less.
THEOREM AlignmentCorrect ==
  ASSUME NEW ll \in Seq(Int), NEW cl \in Seq(Int)
  PROVE  /\ Pairing!AlignOrderedLengths(ll, cl) \in Pairing!Matchings(Len(ll), Len(cl))
         /\ Pairing!AlignmentCheapest(ll, cl)
<1> DEFINE pairs == Pairing!AlignOrderedLengths(ll, cl)
           n == Len(ll)
           m == Len(cl)
<1>1. n \in 0 .. Len(ll) /\ m \in 0 .. Len(cl) /\ n \in Nat /\ m \in Nat
  OBVIOUS
<1>2. ASSUME NEW P \in Pairing!Matchings(n, m)
      PROVE  Pairing!AlignmentCost(ll, cl, P) = PartCost(ll, cl, n, m, P)
  <2>1. Pairing!Cardinality(P) = Cardinality(P)
    BY DEF Pairing!Cardinality, Cardinality
  <2> QED
    BY <2>1, SumIsCost DEF PartCost, GapCost
<1>3. /\ pairs \in Pairing!Matchings(n, m)
      /\ PartCost(ll, cl, n, m, pairs) = Cost(ll, cl, n, m)
  BY <1>1, BackCosts, BackIs
<1>4. ASSUME NEW P \in Pairing!Matchings(n, m)
      PROVE  Pairing!AlignmentCost(ll, cl, pairs) <= Pairing!AlignmentCost(ll, cl, P)
  BY <1>1, <1>2, <1>3, CellIsLowest
<1>5. Pairing!Monotone(pairs)
  BY <1>3 DEF Pairing!Matchings
<1> HIDE DEF pairs
<1> QED
  BY <1>3, <1>4, <1>5 DEF Pairing!AlignmentCheapest, pairs

---------------------------------------------------------------------------
(***************************************************************************)
(* The playback order                                                      *)
(***************************************************************************)

\* Keys of one length are compared at the first number in which they differ.
Keys(w) == {k \in Seq(Int) : Len(k) = w}

\* Keys that differ have a first number that differs.
LEMMA FirstDifference ==
  ASSUME NEW w \in Nat, NEW a \in Keys(w), NEW b \in Keys(w), a # b
  PROVE  \E i \in 1 .. w : a[i] # b[i] /\ \A j \in 1 .. i - 1 : a[j] = b[j]
<1> DEFINE T == {i \in 1 .. w : a[i] # b[i]}
<1>1. /\ a \in [1 .. w -> Int] /\ b \in [1 .. w -> Int]
  BY DEF Keys
<1>2. T # {} /\ T \subseteq Nat
  BY <1>1
<1>3. PICK i \in T : \A j \in T : i <= j
  BY <1>2, LeastNumber
<1>4. \A j \in 1 .. i - 1 : a[j] = b[j]
  BY <1>3
<1> QED
  BY <1>4

\* The comparison is a strict total order.
LEMMA LessIsOrder ==
  ASSUME NEW w \in Nat
  PROVE  /\ \A a \in Keys(w) : ~ Pairing!Less(a, a)
         /\ \A a, b \in Keys(w) : a = b \/ Pairing!Less(a, b) \/ Pairing!Less(b, a)
         /\ \A a, b, c \in Keys(w) : Pairing!Less(a, b) /\ Pairing!Less(b, c) => Pairing!Less(a, c)
<1>1. \A a \in Keys(w) : DOMAIN a = 1 .. w /\ \A i \in 1 .. w : a[i] \in Int
  BY DEF Keys
<1>2. \A a \in Keys(w) : ~ Pairing!Less(a, a)
  BY <1>1 DEF Pairing!Less
<1>3. ASSUME NEW a \in Keys(w), NEW b \in Keys(w), a # b
      PROVE  Pairing!Less(a, b) \/ Pairing!Less(b, a)
  <2>1. PICK i \in 1 .. w : a[i] # b[i] /\ \A j \in 1 .. i - 1 : a[j] = b[j]
    BY <1>3, FirstDifference
  <2>2. a[i] < b[i] \/ b[i] < a[i]
    BY <1>1, <2>1
  <2> QED
    BY <1>1, <2>1, <2>2 DEF Pairing!Less
<1>4. ASSUME NEW a \in Keys(w), NEW b \in Keys(w), NEW c \in Keys(w),
             Pairing!Less(a, b), Pairing!Less(b, c)
      PROVE  Pairing!Less(a, c)
  <2>1. PICK i \in 1 .. w : a[i] < b[i] /\ \A k \in 1 .. i - 1 : a[k] = b[k]
    BY <1>1, <1>4 DEF Pairing!Less
  <2>2. PICK j \in 1 .. w : b[j] < c[j] /\ \A k \in 1 .. j - 1 : b[k] = c[k]
    BY <1>1, <1>4 DEF Pairing!Less
  <2>3. CASE i <= j
    <3>1. a[i] < c[i] /\ \A k \in 1 .. i - 1 : a[k] = c[k]
      BY <1>1, <2>1, <2>2, <2>3
    <3> QED
      BY <1>1, <3>1 DEF Pairing!Less
  <2>4. CASE j < i
    <3>1. a[j] < c[j] /\ \A k \in 1 .. j - 1 : a[k] = c[k]
      BY <1>1, <2>1, <2>2, <2>4
    <3> QED
      BY <1>1, <3>1 DEF Pairing!Less
  <2> QED
    BY <2>3, <2>4
<1> QED
  BY <1>2, <1>3, <1>4

\* The positions that are not behind a position, and their number.
NotBehind(keys, i) == {j \in DOMAIN keys : Pairing!Less(keys[j], keys[i])
                                           \/ (keys[j] = keys[i] /\ j <= i)}
RankOf(keys, i) == Cardinality(NotBehind(keys, i))

\* Ranks are numbers of positions and go up with the keys.
LEMMA RankGrows ==
  ASSUME NEW n \in Nat, NEW w \in Nat, NEW keys \in [1 .. n -> Keys(w)]
  PROVE  /\ \A i \in 1 .. n : RankOf(keys, i) \in 1 .. n
         /\ \A i, j \in 1 .. n : Pairing!Less(keys[i], keys[j]) \/ (keys[i] = keys[j] /\ i < j)
                                 => RankOf(keys, i) < RankOf(keys, j)
<1>1. /\ DOMAIN keys = 1 .. n /\ \A i \in 1 .. n : keys[i] \in Keys(w)
  OBVIOUS
<1>2. IsFiniteSet(1 .. n) /\ Cardinality(1 .. n) = n
  BY FS_Interval
<1>3. ASSUME NEW i \in 1 .. n
      PROVE  /\ NotBehind(keys, i) \subseteq 1 .. n /\ i \in NotBehind(keys, i)
             /\ IsFiniteSet(NotBehind(keys, i)) /\ RankOf(keys, i) \in 1 .. n
  <2>1. NotBehind(keys, i) \subseteq 1 .. n /\ i \in NotBehind(keys, i)
    BY <1>1 DEF NotBehind
  <2>2. IsFiniteSet(NotBehind(keys, i)) /\ Cardinality(NotBehind(keys, i)) <= n
        /\ Cardinality(NotBehind(keys, i)) \in Nat
    BY <1>2, <2>1, FS_Subset, FS_CardinalityType
  <2>3. Cardinality(NotBehind(keys, i)) # 0
    BY <2>1, <2>2, FS_EmptySet
  <2> QED
    BY <2>1, <2>2, <2>3 DEF RankOf
<1>4. ASSUME NEW i \in 1 .. n, NEW j \in 1 .. n,
             Pairing!Less(keys[i], keys[j]) \/ (keys[i] = keys[j] /\ i < j)
      PROVE  RankOf(keys, i) < RankOf(keys, j)
  <2>1. NotBehind(keys, i) \subseteq NotBehind(keys, j)
    <3> SUFFICES ASSUME NEW k \in 1 .. n,
                        Pairing!Less(keys[k], keys[i]) \/ (keys[k] = keys[i] /\ k <= i)
                 PROVE  Pairing!Less(keys[k], keys[j]) \/ (keys[k] = keys[j] /\ k <= j)
      BY <1>1 DEF NotBehind
    <3>1. keys[i] \in Keys(w) /\ keys[j] \in Keys(w) /\ keys[k] \in Keys(w)
      BY <1>1
    <3>2. Pairing!Less(keys[k], keys[i]) /\ Pairing!Less(keys[i], keys[j])
          => Pairing!Less(keys[k], keys[j])
      BY <3>1, LessIsOrder
    <3>3. CASE Pairing!Less(keys[i], keys[j])
      BY <3>2, <3>3
    <3>4. CASE keys[i] = keys[j] /\ i < j
      BY <3>4
    <3> QED
      BY <1>4, <3>3, <3>4
  <2>2. j \notin NotBehind(keys, i)
    <3>1. keys[i] \in Keys(w) /\ keys[j] \in Keys(w)
      BY <1>1
    <3>2. ~ (Pairing!Less(keys[i], keys[j]) /\ Pairing!Less(keys[j], keys[i]))
      BY <3>1, LessIsOrder
    <3>3. ~ Pairing!Less(keys[i], keys[i])
      BY <3>1, LessIsOrder
    <3>4. CASE Pairing!Less(keys[i], keys[j])
      <4>1. keys[j] # keys[i]
        BY <3>3, <3>4
      <4> QED
        BY <3>2, <3>4, <4>1 DEF NotBehind
    <3>5. CASE keys[i] = keys[j] /\ i < j
      <4>1. ~ Pairing!Less(keys[j], keys[i]) /\ ~ (j <= i)
        BY <3>3, <3>5
      <4> QED
        BY <4>1 DEF NotBehind
    <3> QED
      BY <1>4, <3>4, <3>5
  <2>3. j \in NotBehind(keys, j) /\ IsFiniteSet(NotBehind(keys, j)) /\ IsFiniteSet(NotBehind(keys, i))
    BY <1>3
  <2>4. /\ Cardinality(NotBehind(keys, i)) <= Cardinality(NotBehind(keys, j))
        /\ Cardinality(NotBehind(keys, i)) # Cardinality(NotBehind(keys, j))
    BY <2>1, <2>2, <2>3, FS_Subset
  <2>5. Cardinality(NotBehind(keys, i)) \in Nat /\ Cardinality(NotBehind(keys, j)) \in Nat
    BY <2>3, FS_CardinalityType
  <2> QED
    BY <2>4, <2>5 DEF RankOf
<1> QED
  BY <1>3, <1>4

\* The order of the keys names every position once, and a position's rank in it is
\* the number of those that are not behind it.
LEMMA OrderRanks ==
  ASSUME NEW n \in Nat, NEW w \in Nat, NEW keys \in [1 .. n -> Keys(w)],
         NEW order, order = Pairing!OrderOf(keys)
  PROVE  /\ order \in [1 .. n -> 1 .. n]
         /\ \A k \in 1 .. n : RankOf(keys, order[k]) = k
         /\ \A i \in 1 .. n : Pairing!RankIn(order, i) = RankOf(keys, i)
         /\ \A k \in 1 .. n : Pairing!RankIn(order, order[k]) = k
<1>1. DOMAIN keys = 1 .. n
  OBVIOUS
<1>2. order = [k \in 1 .. n |-> CHOOSE i \in 1 .. n : RankOf(keys, i) = k]
  <2>1. \A i : Pairing!Cardinality({j \in DOMAIN keys : Pairing!Less(keys[j], keys[i])
                                                       \/ (keys[j] = keys[i] /\ j <= i)})
               = RankOf(keys, i)
    BY DEF Pairing!Cardinality, Cardinality, RankOf, NotBehind
  <2>2. order = [k \in DOMAIN keys |-> CHOOSE i \in DOMAIN keys :
                   Pairing!Cardinality({j \in DOMAIN keys : Pairing!Less(keys[j], keys[i])
                                                       \/ (keys[j] = keys[i] /\ j <= i)}) = k]
    BY DEF Pairing!OrderOf
  <2>3. order = [k \in DOMAIN keys |-> CHOOSE i \in DOMAIN keys : RankOf(keys, i) = k]
    BY <2>1, <2>2, Zenon
  <2> QED
    BY <1>1, <2>3
<1>3. \A i \in 1 .. n : RankOf(keys, i) \in 1 .. n
  BY RankGrows
<1>4. ASSUME NEW i \in 1 .. n, NEW j \in 1 .. n, RankOf(keys, i) = RankOf(keys, j)
      PROVE  i = j
  <2>1. keys[i] \in Keys(w) /\ keys[j] \in Keys(w)
    OBVIOUS
  <2>2. keys[i] = keys[j] \/ Pairing!Less(keys[i], keys[j]) \/ Pairing!Less(keys[j], keys[i])
    BY <2>1, LessIsOrder
  <2>3. ~ (RankOf(keys, i) < RankOf(keys, j)) /\ ~ (RankOf(keys, j) < RankOf(keys, i))
    BY <1>3, <1>4
  <2>4. i < j \/ j < i \/ i = j
    OBVIOUS
  <2> QED
    BY <2>2, <2>3, <2>4, RankGrows
<1>5. ASSUME NEW k \in 1 .. n PROVE \E i \in 1 .. n : RankOf(keys, i) = k
  <2> DEFINE f == [i \in 1 .. n |-> RankOf(keys, i)]
  <2>1. f \in [1 .. n -> 1 .. n] /\ \A i \in 1 .. n : f[i] = RankOf(keys, i)
    BY <1>3
  <2>2. f \in Injection(1 .. n, 1 .. n)
    BY <1>4, <2>1 DEF Injection, IsInjective
  <2>3. IsFiniteSet(1 .. n)
    BY FS_Interval
  <2>4. f \in Surjection(1 .. n, 1 .. n)
    BY <2>2, <2>3, FS_Injection
  <2> QED
    BY <2>1, <2>4 DEF Surjection
<1>6. ASSUME NEW k \in 1 .. n PROVE order[k] \in 1 .. n /\ RankOf(keys, order[k]) = k
  <2>1. order[k] = CHOOSE i \in 1 .. n : RankOf(keys, i) = k
    BY <1>2
  <2> QED
    BY <1>5, <2>1
<1>7. order \in [1 .. n -> 1 .. n]
  <2>1. \A k \in 1 .. n : order[k] \in 1 .. n
    BY <1>6
  <2>2. order = [k \in 1 .. n |-> order[k]]
    BY <1>2
  <2> QED
    BY <2>1, <2>2
<1>8. ASSUME NEW i \in 1 .. n PROVE Pairing!RankIn(order, i) = RankOf(keys, i)
  <2>1. RankOf(keys, i) \in 1 .. n
    BY <1>3
  <2>2. order[RankOf(keys, i)] \in 1 .. n /\ RankOf(keys, order[RankOf(keys, i)]) = RankOf(keys, i)
    BY <1>6, <2>1
  <2>3. order[RankOf(keys, i)] = i
    BY <1>4, <2>2
  <2>4. \A k \in 1 .. n : order[k] = i => k = RankOf(keys, i)
    BY <1>6
  <2>5. DOMAIN order = 1 .. n
    BY <1>7
  <2> QED
    BY <2>1, <2>3, <2>4, <2>5 DEF Pairing!RankIn
<1> QED
  BY <1>6, <1>7, <1>8

\* Files and rows as the model has them, and the rows of a release as the code builds
\* them: without discs, or with the number on the disc as the only number, sorted.
AnyFile == [tag : Int, prefix : Int, disc : Int, name : Int, length : Int]
AnyRow == [index : Int, medium : Int, place : Int, length : Int]
AsBuilt(rows) ==
  \/ \A r \in DOMAIN rows : rows[r].medium = -1
  \/ /\ \A r \in DOMAIN rows : rows[r].medium # -1 /\ rows[r].index = rows[r].place
     /\ \A r, s \in DOMAIN rows : r < s => \/ rows[r].medium < rows[s].medium
                                          \/ /\ rows[r].medium = rows[s].medium
                                             /\ rows[r].place < rows[s].place

\* Lists of one and of two numbers are keys.
LEMMA KeyTypes ==
  ASSUME NEW x \in Int, NEW y \in Int
  PROVE  <<x>> \in Keys(1) /\ <<x, y>> \in Keys(2)
  BY DEF Keys

\* How keys of one number and of two compare.
LEMMA LessOne ==
  ASSUME NEW x \in Int, NEW y \in Int, x < y
  PROVE  Pairing!Less(<<x>>, <<y>>)
<1> DEFINE a == <<x>>
           b == <<y>>
<1>1. a[1] = x /\ b[1] = y /\ 1 \in DOMAIN a
  OBVIOUS
<1> HIDE DEF a, b
<1>2. Pairing!Less(a, b)
  BY <1>1 DEF Pairing!Less
<1> QED
  BY <1>2 DEF a, b

LEMMA LessTwo ==
  ASSUME NEW x \in Int, NEW y \in Int, NEW u \in Int, NEW v \in Int, x < u \/ (x = u /\ y < v)
  PROVE  Pairing!Less(<<x, y>>, <<u, v>>)
<1> DEFINE a == <<x, y>>
           b == <<u, v>>
<1>1. a[1] = x /\ a[2] = y /\ b[1] = u /\ b[2] = v /\ 1 \in DOMAIN a /\ 2 \in DOMAIN a
  OBVIOUS
<1> HIDE DEF a, b
<1>2. CASE x < u
  BY <1>1, <1>2 DEF Pairing!Less
<1>3. CASE x = u /\ y < v
  <2>1. \A j \in 1 .. 2 - 1 : a[j] = b[j]
    BY <1>1, <1>3
  <2> QED
    BY <1>1, <1>3, <2>1 DEF Pairing!Less
<1> QED
  BY <1>2, <1>3 DEF a, b

\* The keys of an album are keys.
LEMMA FileKeys ==
  ASSUME NEW n \in Nat, NEW files \in [1 .. n -> AnyFile]
  PROVE  /\ \A i \in 1 .. n : Pairing!Number(files[i]) \in Int /\ Pairing!OrZero(files[i].disc) \in Int
         /\ Pairing!Numbers(files) \in [1 .. n -> Keys(1)]
         /\ Pairing!Places(files) \in [1 .. n -> Keys(2)]
         /\ Pairing!Names(files) \in [1 .. n -> Keys(2)]
<1>1. ASSUME NEW i \in 1 .. n
      PROVE  /\ Pairing!Number(files[i]) \in Int /\ Pairing!OrZero(files[i].disc) \in Int
             /\ files[i].name \in Int
  <2>1. files[i] \in AnyFile
    OBVIOUS
  <2> QED
    BY <2>1 DEF AnyFile, Pairing!Number, Pairing!OrZero
<1>2. DOMAIN files = 1 .. n
  OBVIOUS
<1>3. Pairing!Numbers(files) \in [1 .. n -> Keys(1)]
  <2>1. \A i \in 1 .. n : <<Pairing!Number(files[i])>> \in Keys(1)
    BY <1>1, KeyTypes
  <2> QED
    BY <1>2, <2>1 DEF Pairing!Numbers
<1>4. Pairing!Places(files) \in [1 .. n -> Keys(2)]
  <2>1. \A i \in 1 .. n : <<Pairing!OrZero(files[i].disc), Pairing!Number(files[i])>> \in Keys(2)
    BY <1>1, KeyTypes
  <2> QED
    BY <1>2, <2>1 DEF Pairing!Places
<1>5. Pairing!Names(files) \in [1 .. n -> Keys(2)]
  <2>1. \A i \in 1 .. n : <<Pairing!OrZero(files[i].disc), files[i].name>> \in Keys(2)
    BY <1>1, KeyTypes
  <2> QED
    BY <1>2, <2>1 DEF Pairing!Names
<1> QED
  BY <1>1, <1>3, <1>4, <1>5

\* The playback order of any album names every file once.
LEMMA PlaybackRanks ==
  ASSUME NEW n \in Nat, NEW files \in [1 .. n -> AnyFile]
  PROVE  LET order == Pairing!PlaybackOrder(files) IN
         /\ order \in [1 .. n -> 1 .. n]
         /\ \A k \in 1 .. n : Pairing!RankIn(order, order[k]) = k
<1> DEFINE order == Pairing!PlaybackOrder(files)
           Fine(o) == o \in [1 .. n -> 1 .. n] /\ \A k \in 1 .. n : Pairing!RankIn(o, o[k]) = k
<1>1. 1 \in Nat /\ 2 \in Nat
  OBVIOUS
<1>2. Fine(Pairing!OrderOf(Pairing!Numbers(files)))
  BY <1>1, FileKeys, OrderRanks
<1>3. Fine(Pairing!OrderOf(Pairing!Places(files)))
  BY <1>1, FileKeys, OrderRanks
<1>4. Fine(Pairing!OrderOf(Pairing!Names(files)))
  BY <1>1, FileKeys, OrderRanks
<1>5. order \in {Pairing!OrderOf(Pairing!Numbers(files)), Pairing!OrderOf(Pairing!Places(files)),
                 Pairing!OrderOf(Pairing!Names(files))}
  BY DEF Pairing!PlaybackOrder
<1>6. Fine(order)
  <2> HIDE DEF order, Fine
  <2> QED
    BY <1>2, <1>3, <1>4, <1>5
<1> QED
  BY <1>6

\* Pairs by the places of their files in the order.
Ranked(order, pairs) == {<<Pairing!RankIn(order, p[1]), p[2]>> : p \in pairs}

\* Aligned by length, the pairs in the order of the files are the alignment.
LEMMA AlignedInOrder ==
  ASSUME NEW n \in Nat, NEW files \in [1 .. n -> AnyFile], NEW rows \in Seq(AnyRow)
  PROVE  LET order == Pairing!PlaybackOrder(files) IN
         Pairing!Monotone(Ranked(order, Pairing!PairByOrder(order, files, rows)))
<1> DEFINE order == Pairing!PlaybackOrder(files)
           sorted == [k \in DOMAIN order |-> files[order[k]].length]
           lengths == Pairing!Lengths(rows)
           pairs == Pairing!AlignOrderedLengths(sorted, lengths)
<1>1. order \in [1 .. n -> 1 .. n] /\ \A k \in 1 .. n : Pairing!RankIn(order, order[k]) = k
  BY PlaybackRanks
<1>2. Pairing!PairByOrder(order, files, rows) = {<<order[p[1]], p[2]>> : p \in pairs}
  BY DEF Pairing!PairByOrder
<1> HIDE DEF order
<1>3. sorted \in [1 .. n -> Int] /\ sorted \in Seq(Int) /\ Len(sorted) = n
  <2>1. \A k \in 1 .. n : files[order[k]].length \in Int
    <3>1. \A k \in 1 .. n : files[order[k]] \in AnyFile
      BY <1>1
    <3> QED
      BY <3>1 DEF AnyFile
  <2> QED
    BY <1>1, <2>1
<1>4. lengths \in Seq(Int)
  <2>1. rows \in [1 .. Len(rows) -> AnyRow] /\ Len(rows) \in Nat
    OBVIOUS
  <2>2. \A r \in 1 .. Len(rows) : rows[r].length \in Int
    BY <2>1 DEF AnyRow
  <2>3. lengths \in [1 .. Len(rows) -> Int]
    BY <2>1, <2>2 DEF Pairing!Lengths
  <2> HIDE DEF lengths
  <2> QED
    BY <2>1, <2>3
<1> HIDE DEF sorted, lengths
<1>5. pairs \in Pairing!Matchings(n, Len(lengths)) /\ Pairing!Monotone(pairs)
  BY <1>3, <1>4, AlignmentCorrect DEF Pairing!AlignmentCheapest
<1> HIDE DEF pairs
<1>6. Len(lengths) \in Nat
  BY <1>4
<1>7. \A p \in pairs : p = <<p[1], p[2]>> /\ p[1] \in 1 .. n
  BY <1>5, <1>6, MatchingPairs
<1> DEFINE back == {<<Pairing!RankIn(order, q[1]), q[2]>> : q \in {<<order[p[1]], p[2]>> : p \in pairs}}
<1>8. back = pairs
  <2>1. ASSUME NEW p \in pairs
        PROVE  LET q == <<order[p[1]], p[2]>> IN <<Pairing!RankIn(order, q[1]), q[2]>> = p
    <3> DEFINE q == <<order[p[1]], p[2]>>
    <3>1. q[1] = order[p[1]] /\ q[2] = p[2]
      OBVIOUS
    <3>2. Pairing!RankIn(order, order[p[1]]) = p[1]
      BY <1>1, <1>7
    <3> QED
      BY <1>7, <3>1, <3>2
  <2> QED
    BY <2>1, Zenon
<1>9. Ranked(order, Pairing!PairByOrder(order, files, rows)) = back
  BY <1>2 DEF Ranked
<1> HIDE DEF back
<1> QED
  BY <1>5, <1>8, <1>9 DEF order

---------------------------------------------------------------------------
(***************************************************************************)
(* Pairing by numbers                                                      *)
(***************************************************************************)

\* The file in the place of a track on its disc, and what a track takes by the numbers.
StandsIn(f, track) == /\ -1 \notin {track.medium, f.disc, Pairing!Number(f)}
                    /\ <<f.disc, Pairing!Number(f)>> = <<track.medium, track.place>>
Placed(files, track) == {i \in DOMAIN files : StandsIn(files[i], track)}
OfNumber(files, track) == {i \in DOMAIN files : Pairing!Number(files[i]) = track.index}
TakenBy(files, track) == IF Pairing!LastOf(Placed(files, track)) # {} THEN Pairing!LastOf(Placed(files, track))
                     ELSE Pairing!LastOf(OfNumber(files, track))

\* Pairing by numbers, track by track.
LEMMA TakenIs ==
  ASSUME NEW files, NEW rows
  PROVE  Pairing!PairByTrackNumber(files, rows)
         = UNION {TakenBy(files, rows[r]) \X {r} : r \in DOMAIN rows}
  BY DEF Pairing!PairByTrackNumber, TakenBy, OfNumber, Placed, StandsIn

\* Where there are candidates one is the last.
LEMMA LastExists ==
  ASSUME NEW n \in Nat, NEW S \in SUBSET (1 .. n), S # {}
  PROVE  Pairing!LastOf(S) # {}
<1> DEFINE T == {n - i : i \in S}
<1>1. T \subseteq Nat /\ T # {}
  <2>1. \A i \in S : n - i \in Nat
    OBVIOUS
  <2> QED
    BY <2>1
<1>2. PICK d \in T : \A e \in T : d <= e
  BY <1>1, LeastNumber
<1>3. PICK i \in S : d = n - i
  BY <1>2
<1>4. \A j \in S : j <= i
  BY <1>2, <1>3
<1> QED
  BY <1>4 DEF Pairing!LastOf

\* A pair is a file and a track that takes it, by its place or else by its number.
LEMMA TakenPairs ==
  ASSUME NEW n \in Nat, NEW files \in [1 .. n -> AnyFile], NEW rows,
         NEW p \in Pairing!PairByTrackNumber(files, rows)
  PROVE  /\ p = <<p[1], p[2]>> /\ p[1] \in 1 .. n /\ p[2] \in DOMAIN rows
         /\ p[1] \in TakenBy(files, rows[p[2]])
         /\ \/ StandsIn(files[p[1]], rows[p[2]])
            \/ /\ \A i \in 1 .. n : ~ StandsIn(files[i], rows[p[2]])
               /\ Pairing!Number(files[p[1]]) = rows[p[2]].index
<1>1. PICK r \in DOMAIN rows : p \in TakenBy(files, rows[r]) \X {r}
  BY TakenIs
<1>2. p = <<p[1], p[2]>> /\ p[2] = r /\ p[1] \in TakenBy(files, rows[r])
  BY <1>1
<1>3. DOMAIN files = 1 .. n
  OBVIOUS
<1>4. CASE Pairing!LastOf(Placed(files, rows[r])) # {}
  <2>1. p[1] \in Placed(files, rows[r])
    BY <1>2, <1>4 DEF TakenBy, Pairing!LastOf
  <2> QED
    BY <1>1, <1>2, <1>3, <2>1 DEF Placed
<1>5. CASE Pairing!LastOf(Placed(files, rows[r])) = {}
  <2>1. p[1] \in OfNumber(files, rows[r])
    BY <1>2, <1>5 DEF TakenBy, Pairing!LastOf
  <2>2. Placed(files, rows[r]) \in SUBSET (1 .. n)
    BY <1>3 DEF Placed
  <2>3. Placed(files, rows[r]) = {}
    BY <1>5, <2>2, LastExists
  <2> QED
    BY <1>1, <1>2, <1>3, <2>1, <2>3 DEF Placed, OfNumber
<1> QED
  BY <1>4, <1>5

\* A track takes one file at most.
LEMMA TakenOnce ==
  ASSUME NEW n \in Nat, NEW files \in [1 .. n -> AnyFile], NEW track,
         NEW i \in TakenBy(files, track), NEW j \in TakenBy(files, track)
  PROVE  i = j
<1>1. \A S \in SUBSET (1 .. n) : \A a, b \in Pairing!LastOf(S) : a = b
  BY DEF Pairing!LastOf
<1>2. Placed(files, track) \in SUBSET (1 .. n) /\ OfNumber(files, track) \in SUBSET (1 .. n)
  BY DEF Placed, OfNumber
<1>3. \/ i \in Pairing!LastOf(Placed(files, track)) /\ j \in Pairing!LastOf(Placed(files, track))
      \/ i \in Pairing!LastOf(OfNumber(files, track)) /\ j \in Pairing!LastOf(OfNumber(files, track))
  BY DEF TakenBy
<1> QED
  BY <1>1, <1>2, <1>3

\* Where rows take files by keys that grow, none is put before an earlier one.
LEMMA TakenInOrder ==
  ASSUME NEW n \in Nat, NEW files \in [1 .. n -> AnyFile], NEW rows \in Seq(AnyRow),
         NEW w \in Nat, NEW keys \in [1 .. n -> Keys(w)], NEW order, order = Pairing!OrderOf(keys),
         \A p, q \in Pairing!PairByTrackNumber(files, rows) :
           p[2] < q[2] => Pairing!Less(keys[p[1]], keys[q[1]])
  PROVE  Pairing!Monotone(Ranked(order, Pairing!PairByTrackNumber(files, rows)))
<1> DEFINE pairs == Pairing!PairByTrackNumber(files, rows)
           Rank(i) == Pairing!RankIn(order, i)
           ranked == {<<Rank(p[1]), p[2]>> : p \in pairs}
<1>1. \A p \in pairs : p = <<p[1], p[2]>> /\ p[1] \in 1 .. n /\ p[2] \in Nat
                       /\ p[1] \in TakenBy(files, rows[p[2]])
  <2>1. \A r \in DOMAIN rows : r \in Nat
    OBVIOUS
  <2> QED
    BY <2>1, TakenPairs
<1>2. ASSUME NEW p \in pairs, NEW q \in pairs, p[2] < q[2]
      PROVE  Rank(p[1]) < Rank(q[1])
  <2>1. Pairing!Less(keys[p[1]], keys[q[1]])
    BY <1>2
  <2>2. p[1] \in 1 .. n /\ q[1] \in 1 .. n
    BY <1>1
  <2>3. RankOf(keys, p[1]) < RankOf(keys, q[1])
    BY <2>1, <2>2, RankGrows
  <2> QED
    BY <2>2, <2>3, OrderRanks
<1>3. ASSUME NEW p \in pairs, NEW q \in pairs, p # q
      PROVE  p[2] < q[2] \/ q[2] < p[2]
  <2>1. p[2] # q[2]
    <3> SUFFICES ASSUME p[2] = q[2] PROVE FALSE
      OBVIOUS
    <3>1. p[1] \in TakenBy(files, rows[p[2]]) /\ q[1] \in TakenBy(files, rows[p[2]])
      BY <1>1
    <3>2. p[1] = q[1]
      BY <3>1, TakenOnce
    <3> QED
      BY <1>1, <1>3, <3>2
  <2> QED
    BY <1>1, <2>1
<1>4. ASSUME NEW x \in ranked, NEW y \in ranked, x # y
      PROVE  (x[1] < y[1] /\ x[2] < y[2]) \/ (y[1] < x[1] /\ y[2] < x[2])
  <2>1. PICK p \in pairs : x = <<Rank(p[1]), p[2]>>
    OBVIOUS
  <2>2. PICK q \in pairs : y = <<Rank(q[1]), q[2]>>
    OBVIOUS
  <2>3. x[1] = Rank(p[1]) /\ x[2] = p[2] /\ y[1] = Rank(q[1]) /\ y[2] = q[2]
    BY <2>1, <2>2
  <2>4. p # q
    BY <1>4, <2>1, <2>2
  <2> HIDE DEF pairs, Rank
  <2> QED
    BY <1>2, <1>3, <2>3, <2>4
<1> HIDE DEF ranked
<1>5. Pairing!Monotone(ranked)
  BY <1>4 DEF Pairing!Monotone
<1> QED
  BY <1>5 DEF ranked, Ranked

\* By the numbers, in an album whose numbers occur once or that fits the discs.
LEMMA NumberedInOrder ==
  ASSUME NEW n \in Nat, NEW files \in [1 .. n -> AnyFile], NEW rows \in Seq(AnyRow), AsBuilt(rows),
         Pairing!LocalsAreOrdered(files),
         Pairing!NumberedOnce(files, rows) \/ Pairing!AllInPlace(files, rows)
  PROVE  LET order == Pairing!PlaybackOrder(files) IN
         Pairing!Monotone(Ranked(order, Pairing!PairByTrackNumber(files, rows)))
<1> DEFINE order == Pairing!PlaybackOrder(files)
           pairs == Pairing!PairByTrackNumber(files, rows)
           numbers == Pairing!Numbers(files)
           places == Pairing!Places(files)
<1>1. \A i \in 1 .. n : /\ Pairing!Number(files[i]) \in Int
                        /\ numbers[i] = <<Pairing!Number(files[i])>>
                        /\ places[i] = <<Pairing!OrZero(files[i].disc), Pairing!Number(files[i])>>
  BY FileKeys DEF Pairing!Numbers, Pairing!Places
<1>2. /\ numbers \in [1 .. n -> Keys(1)] /\ places \in [1 .. n -> Keys(2)]
      /\ 1 \in Nat /\ 2 \in Nat
  BY FileKeys
<1>3. Pairing!Numbered(files) /\ (Pairing!OnePerKey(numbers) \/ Pairing!OnePerKey(places))
  BY DEF Pairing!LocalsAreOrdered
<1>4. \A p \in pairs : /\ p[1] \in 1 .. n /\ p[2] \in DOMAIN rows
                       /\ \/ StandsIn(files[p[1]], rows[p[2]])
                          \/ /\ \A i \in 1 .. n : ~ StandsIn(files[i], rows[p[2]])
                             /\ Pairing!Number(files[p[1]]) = rows[p[2]].index
  BY TakenPairs
<1>5. \A r \in DOMAIN rows : /\ r \in Int /\ rows[r].index \in Int /\ rows[r].medium \in Int
                             /\ rows[r].place \in Int
  <2>1. \A r \in DOMAIN rows : r \in Int /\ rows[r] \in AnyRow
    OBVIOUS
  <2> QED
    BY <2>1 DEF AnyRow
<1>6. \A i \in 1 .. n, r \in DOMAIN rows : StandsIn(files[i], rows[r]) =>
        /\ rows[r].medium # -1 /\ files[i].disc = rows[r].medium
        /\ Pairing!Number(files[i]) = rows[r].place
        /\ Pairing!OrZero(files[i].disc) = rows[r].medium
  BY DEF StandsIn, Pairing!OrZero
<1> HIDE DEF numbers, places, pairs
<1>7. CASE Pairing!NumberedOnce(files, rows)
  <2>1. Pairing!OnePerKey(numbers) /\ \A r, s \in DOMAIN rows : r < s => rows[r].index < rows[s].index
    BY <1>7 DEF Pairing!NumberedOnce, numbers
  <2>2. order = Pairing!OrderOf(numbers)
    BY <1>3, <2>1 DEF Pairing!PlaybackOrder, numbers
  <2>3. ASSUME NEW p \in pairs PROVE Pairing!Number(files[p[1]]) = rows[p[2]].index
    <3>1. CASE StandsIn(files[p[1]], rows[p[2]])
      <4>1. rows[p[2]].medium # -1 /\ Pairing!Number(files[p[1]]) = rows[p[2]].place
        BY <1>4, <1>6, <3>1
      <4>2. rows[p[2]].index = rows[p[2]].place
        BY <1>4, <4>1 DEF AsBuilt
      <4> QED
        BY <4>1, <4>2
    <3> QED
      BY <1>4, <3>1
  <2>4. ASSUME NEW p \in pairs, NEW q \in pairs, p[2] < q[2]
        PROVE  Pairing!Less(numbers[p[1]], numbers[q[1]])
    <3>1. Pairing!Number(files[p[1]]) < Pairing!Number(files[q[1]])
      BY <1>4, <2>1, <2>3, <2>4
    <3> QED
      BY <1>1, <1>4, <3>1, LessOne
  <2> HIDE DEF order
  <2>5. \A p, q \in Pairing!PairByTrackNumber(files, rows) :
          p[2] < q[2] => Pairing!Less(numbers[p[1]], numbers[q[1]])
    BY <2>4 DEF pairs
  <2>6. Pairing!Monotone(Ranked(order, Pairing!PairByTrackNumber(files, rows)))
    BY <1>2, <2>2, <2>5, TakenInOrder
  <2> QED
    BY <2>6 DEF order
<1>8. CASE Pairing!AllInPlace(files, rows)
  <2>1. /\ Pairing!OnePerKey(numbers) => Pairing!OrderOf(numbers) = Pairing!OrderOf(places)
        /\ \A r \in DOMAIN rows : \E i \in 1 .. n : StandsIn(files[i], rows[r])
    <3>1. /\ ~ Pairing!GoesBack(files)
          /\ \A r \in DOMAIN rows : \E i \in DOMAIN files :
               /\ -1 \notin {files[i].disc, rows[r].medium}
               /\ <<files[i].disc, Pairing!Number(files[i])>> = <<rows[r].medium, rows[r].place>>
      BY <1>8 DEF Pairing!AllInPlace
    <3>2. \A i \in DOMAIN files : Pairing!Number(files[i]) # -1
      BY <1>3 DEF Pairing!Numbered
    <3>3. DOMAIN files = 1 .. n
      OBVIOUS
    <3>4. \A r \in DOMAIN rows : \E i \in 1 .. n : StandsIn(files[i], rows[r])
      BY <3>1, <3>2, <3>3 DEF StandsIn
    <3> QED
      BY <3>1, <3>4 DEF Pairing!GoesBack, numbers, places
  <2>2. order = Pairing!OrderOf(places)
    BY <1>3, <2>1 DEF Pairing!PlaybackOrder, numbers, places
  <2>3. ASSUME NEW p \in pairs
        PROVE  /\ places[p[1]] = <<rows[p[2]].medium, rows[p[2]].place>>
               /\ rows[p[2]].medium # -1
    <3>1. StandsIn(files[p[1]], rows[p[2]])
      BY <1>4, <2>1
    <3> QED
      BY <1>1, <1>4, <1>6, <3>1
  <2>4. ASSUME NEW p \in pairs, NEW q \in pairs, p[2] < q[2]
        PROVE  Pairing!Less(places[p[1]], places[q[1]])
    <3>1. \/ rows[p[2]].medium < rows[q[2]].medium
          \/ rows[p[2]].medium = rows[q[2]].medium /\ rows[p[2]].place < rows[q[2]].place
      BY <1>4, <2>3, <2>4 DEF AsBuilt
    <3>2. p[2] \in DOMAIN rows /\ q[2] \in DOMAIN rows
      BY <1>4
    <3>3. /\ rows[p[2]].medium \in Int /\ rows[p[2]].place \in Int
          /\ rows[q[2]].medium \in Int /\ rows[q[2]].place \in Int
      BY <1>5, <3>2
    <3>4. Pairing!Less(<<rows[p[2]].medium, rows[p[2]].place>>,
                       <<rows[q[2]].medium, rows[q[2]].place>>)
      BY <3>1, <3>3, LessTwo
    <3> QED
      BY <2>3, <3>4
  <2> HIDE DEF order
  <2>5. \A p, q \in Pairing!PairByTrackNumber(files, rows) :
          p[2] < q[2] => Pairing!Less(places[p[1]], places[q[1]])
    BY <2>4 DEF pairs
  <2>6. Pairing!Monotone(Ranked(order, Pairing!PairByTrackNumber(files, rows)))
    BY <1>2, <2>2, <2>5, TakenInOrder
  <2> QED
    BY <2>6 DEF order
<1> QED
  BY <1>7, <1>8

\* _pair_local_tracks: of an album whose numbers tell its files apart no later file in
\* playback order is put before an earlier one and none is used twice, whether lengths
\* are aligned or, when that fails, each row takes the file of its number.
THEOREM ChaptersCorrect ==
  ASSUME NEW files \in Seq(AnyFile), NEW rows \in Seq(AnyRow), AsBuilt(rows),
         NEW large \in BOOLEAN, NEW alignFails \in BOOLEAN
  PROVE  Pairing!ChaptersInOrder(files, rows, large, alignFails)
<1> DEFINE n == Len(files)
           order == Pairing!PlaybackOrder(files)
<1>1. n \in Nat /\ files \in [1 .. n -> AnyFile]
  OBVIOUS
<1> HIDE DEF n
<1>2. SUFFICES ASSUME Pairing!LocalsAreOrdered(files),
                      alignFails => Pairing!NumberedOnce(files, rows) \/ Pairing!AllInPlace(files, rows)
               PROVE  Pairing!Monotone(Ranked(order,
                        Pairing!PairLocalTracks(files, rows, large, Pairing!Failed, alignFails)))
  BY DEF Pairing!ChaptersInOrder, Ranked
<1>3. CASE alignFails
  <2>1. Pairing!PairLocalTracks(files, rows, large, Pairing!Failed, alignFails)
        = Pairing!PairByTrackNumber(files, rows)
    BY <1>2, <1>3 DEF Pairing!PairLocalTracks
  <2> QED
    BY <1>1, <1>2, <1>3, <2>1, NumberedInOrder
<1>4. CASE ~alignFails
  <2>1. Pairing!PairLocalTracks(files, rows, large, Pairing!Failed, alignFails)
        = Pairing!PairByOrder(order, files, rows)
    BY <1>2, <1>4 DEF Pairing!PairLocalTracks
  <2> QED
    BY <1>1, <2>1, AlignedInOrder
<1> QED
  BY <1>3, <1>4

---------------------------------------------------------------------------
(***************************************************************************)
(* The stable sort of a sequence rule                                      *)
(***************************************************************************)

\* The greatest of some of the first n numbers, and what is left without it.
LEMMA MaxOf ==
  ASSUME NEW n \in Nat, NEW s \in SUBSET (1 .. n), s # {}
  PROVE  /\ Tags!Max(s) \in s /\ \A i \in s : i <= Tags!Max(s)
         /\ s \ {Tags!Max(s)} \in SUBSET (1 .. n)
         /\ IsFiniteSet(s) /\ Cardinality(s) \in Nat
         /\ Cardinality(s \ {Tags!Max(s)}) = Cardinality(s) - 1
<1>1. \E x \in s : \A y \in s : x >= y
  <2>1. PICK x : x \in Pairing!LastOf(s)
    BY LastExists
  <2> QED
    BY <2>1 DEF Pairing!LastOf
<1>2. Tags!Max(s) \in s /\ \A y \in s : Tags!Max(s) >= y
  BY <1>1 DEF Tags!Max
<1>3. IsFiniteSet(1 .. n)
  BY FS_Interval
<1>4. IsFiniteSet(s) /\ Cardinality(s) \in Nat
  BY <1>3, FS_Subset, FS_CardinalityType
<1>5. Cardinality(s \ {Tags!Max(s)}) = Cardinality(s) - 1
  BY <1>2, <1>4, FS_RemoveElement
<1> QED
  BY <1>2, <1>4, <1>5

\* Of the first n + 1 numbers the greatest is n + 1.
LEMMA MaxOfFirst ==
  ASSUME NEW n \in Nat
  PROVE  /\ Tags!Max(1 .. n + 1) = n + 1
         /\ (1 .. n + 1) \ {n + 1} = 1 .. n
<1>1. 1 .. n + 1 \in SUBSET (1 .. n + 1) /\ 1 .. n + 1 # {} /\ n + 1 \in 1 .. n + 1 /\ n + 1 \in Nat
  OBVIOUS
<1>2. Tags!Max(1 .. n + 1) \in 1 .. n + 1 /\ n + 1 <= Tags!Max(1 .. n + 1)
  BY <1>1, MaxOf
<1> QED
  BY <1>2

\* The sort inserts one item after the other: what it has made of some of the items.
SortBody(items, chosen, g, s) ==
  IF s = {} THEN <<>>
  ELSE LET x == Tags!Max(s) IN
       IF items[x] \in chosen THEN Tags!InsertItem(g[s \ {x}], items[x]) ELSE g[s \ {x}]
Sorts(items, chosen) ==
  CHOOSE g : g = [s \in SUBSET DOMAIN items |-> SortBody(items, chosen, g, s)]

\* The sort of the model is one of all the items.
LEMMA SortIs ==
  ASSUME NEW items, NEW chosen
  PROVE  Tags!SortItems(items, chosen) = Sorts(items, chosen)[DOMAIN items]
  BY DEF Tags!SortItems, Tags!FoldLeft, Tags!MapThenFoldSet, Sorts, SortBody

\* What it makes of some depends on what it makes of fewer.
LEMMA SortsBefore ==
  ASSUME NEW n \in Nat, NEW items, DOMAIN items = 1 .. n, NEW chosen, NEW g, NEW h,
         NEW s \in SUBSET (1 .. n),
         \A t \in SUBSET (1 .. n) : Cardinality(t) < Cardinality(s) => g[t] = h[t]
  PROVE  SortBody(items, chosen, g, s) = SortBody(items, chosen, h, s)
<1>1. CASE s = {}
  BY <1>1 DEF SortBody
<1>2. CASE s # {}
  <2> DEFINE t == s \ {Tags!Max(s)}
  <2>1. t \in SUBSET (1 .. n) /\ Cardinality(t) < Cardinality(s)
    BY <1>2, MaxOf
  <2>2. g[t] = h[t]
    BY <2>1
  <2> QED
    BY <2>2 DEF SortBody
<1> QED
  BY <1>1, <1>2

\* There is such a function, by induction on the number of items.
LEMMA SortsExist ==
  ASSUME NEW n \in Nat, NEW items, DOMAIN items = 1 .. n, NEW chosen
  PROVE  \E g : g = [s \in SUBSET (1 .. n) |-> SortBody(items, chosen, g, s)]
<1> DEFINE T == {k \in Nat : \E g : \A s \in SUBSET (1 .. n) :
                               Cardinality(s) < k => g[s] = SortBody(items, chosen, g, s)}
<1>1. \A s \in SUBSET (1 .. n) : Cardinality(s) \in Nat /\ Cardinality(s) < n + 1
  <2>1. IsFiniteSet(1 .. n) /\ Cardinality(1 .. n) = n
    BY FS_Interval
  <2>2. \A s \in SUBSET (1 .. n) : IsFiniteSet(s) /\ Cardinality(s) <= Cardinality(1 .. n)
    BY <2>1, FS_Subset
  <2>3. \A s \in SUBSET (1 .. n) : Cardinality(s) \in Nat
    BY <2>2, FS_CardinalityType
  <2> QED
    BY <2>1, <2>2, <2>3
<1>2. 0 \in T
  BY <1>1
<1>3. ASSUME NEW k \in T \cap Nat PROVE k + 1 \in T
  <2>1. PICK g : \A s \in SUBSET (1 .. n) : Cardinality(s) < k => g[s] = SortBody(items, chosen, g, s)
    OBVIOUS
  <2> DEFINE h == [s \in SUBSET (1 .. n) |-> IF Cardinality(s) < k THEN g[s]
                                             ELSE SortBody(items, chosen, g, s)]
  <2>2. \A s \in SUBSET (1 .. n) :
          h[s] = IF Cardinality(s) < k THEN g[s] ELSE SortBody(items, chosen, g, s)
    OBVIOUS
  <2> HIDE DEF h
  <2>3. ASSUME NEW s \in SUBSET (1 .. n), Cardinality(s) < k + 1
        PROVE  h[s] = SortBody(items, chosen, h, s)
    <3>1. \A t \in SUBSET (1 .. n) : Cardinality(t) < Cardinality(s) => g[t] = h[t]
      BY <1>1, <2>2, <2>3
    <3>2. SortBody(items, chosen, g, s) = SortBody(items, chosen, h, s)
      BY <3>1, SortsBefore
    <3> QED
      BY <2>1, <2>2, <3>2
  <2> QED
    BY <2>3
<1> HIDE DEF T
<1>4. n + 1 \in T
  BY <1>2, <1>3, Induction
<1>5. PICK g : \A s \in SUBSET (1 .. n) : g[s] = SortBody(items, chosen, g, s)
  BY <1>1, <1>4 DEF T
<1> DEFINE h == [s \in SUBSET (1 .. n) |-> g[s]]
<1>6. ASSUME NEW s \in SUBSET (1 .. n) PROVE h[s] = SortBody(items, chosen, h, s)
  <2>1. \A t \in SUBSET (1 .. n) : h[t] = g[t]
    OBVIOUS
  <2> HIDE DEF h
  <2>2. SortBody(items, chosen, h, s) = SortBody(items, chosen, g, s)
    BY <2>1, SortsBefore
  <2> QED
    BY <1>5, <2>1, <2>2
<1>7. h = [s \in SUBSET (1 .. n) |-> SortBody(items, chosen, h, s)]
  BY <1>6
<1> HIDE DEF h
<1> QED
  BY <1>7

\* The sort of the first k + 1 items is that of the first k with one item more, if
\* it is chosen.
LEMMA SortSteps ==
  ASSUME NEW n \in Nat, NEW items, DOMAIN items = 1 .. n, NEW chosen
  PROVE  LET g == Sorts(items, chosen) IN
         /\ g[1 .. 0] = <<>>
         /\ \A k \in 0 .. n - 1 :
              g[1 .. k + 1] = IF items[k + 1] \in chosen THEN Tags!InsertItem(g[1 .. k], items[k + 1])
                              ELSE g[1 .. k]
         /\ Tags!SortItems(items, chosen) = g[1 .. n]
<1> DEFINE g == Sorts(items, chosen)
           h == [s \in SUBSET (1 .. n) |-> SortBody(items, chosen, g, s)]
<1>1. g = h
  BY SortsExist DEF Sorts
<1>2. \A s \in SUBSET (1 .. n) : h[s] = SortBody(items, chosen, g, s)
  OBVIOUS
<1> HIDE DEF g, h
<1>3. \A s \in SUBSET (1 .. n) : g[s] = SortBody(items, chosen, g, s)
  BY <1>1, <1>2
<1>4. g[1 .. 0] = <<>>
  <2>1. 1 .. 0 \in SUBSET (1 .. n) /\ 1 .. 0 = {}
    OBVIOUS
  <2> QED
    BY <1>3, <2>1 DEF SortBody
<1>5. ASSUME NEW k \in 0 .. n - 1
      PROVE  g[1 .. k + 1] = IF items[k + 1] \in chosen THEN Tags!InsertItem(g[1 .. k], items[k + 1])
                             ELSE g[1 .. k]
  <2>1. 1 .. k + 1 \in SUBSET (1 .. n) /\ 1 .. k + 1 # {} /\ k \in Nat
    <3>1. k \in Nat /\ k + 1 \in 1 .. k + 1 /\ k + 1 <= n
      OBVIOUS
    <3>2. \A x \in 1 .. k + 1 : x \in 1 .. n
      BY <3>1
    <3>3. 1 .. k + 1 # {}
      BY <3>1
    <3> QED
      BY <3>1, <3>2, <3>3
  <2>2. Tags!Max(1 .. k + 1) = k + 1 /\ (1 .. k + 1) \ {k + 1} = 1 .. k
    BY <2>1, MaxOfFirst
  <2> QED
    BY <1>3, <2>1, <2>2 DEF SortBody
<1>6. Tags!SortItems(items, chosen) = g[1 .. n]
  BY SortIs DEF g
<1> QED
  BY <1>4, <1>5, <1>6 DEF g

\* A list with one more at a position.
Spliced(acc, m, pos, e) ==
  [j \in 1 .. m + 1 |-> IF j < pos THEN acc[j] ELSE IF j = pos THEN e ELSE acc[j - 1]]

\* InsertAt of the library makes it.
LEMMA InsertIs ==
  ASSUME NEW S, NEW m \in Nat, NEW acc \in [1 .. m -> S], NEW pos \in 1 .. m + 1, NEW e \in S
  PROVE  Tags!InsertAt(acc, pos, e) = Spliced(acc, m, pos, e)
<1> DEFINE head == SubSeq(acc, 1, pos - 1)
           tail == SubSeq(acc, pos, Len(acc))
           mid == <<e>>
<1>1. acc \in Seq(S) /\ Len(acc) = m
  OBVIOUS
<1>2. Tags!InsertAt(acc, pos, e) = head \o mid \o tail
  BY DEF Tags!InsertAt
<1>3. /\ head \in Seq(S) /\ Len(head) = pos - 1 /\ \A j \in 1 .. pos - 1 : head[j] = acc[j]
  BY <1>1
<1>4. /\ tail \in Seq(S) /\ Len(tail) = m + 1 - pos
      /\ \A j \in 1 .. m + 1 - pos : tail[j] = acc[pos + j - 1]
  BY <1>1
<1>5. mid \in Seq(S) /\ Len(mid) = 1 /\ mid[1] = e
  OBVIOUS
<1> HIDE DEF head, tail, mid
<1> DEFINE front == head \o mid
<1>6. /\ front \in Seq(S) /\ Len(front) = pos
      /\ \A j \in 1 .. pos - 1 : front[j] = acc[j]
      /\ front[pos] = e
  <2>1. /\ front \in Seq(S) /\ Len(front) = Len(head) + Len(mid)
        /\ \A j \in 1 .. Len(head) + Len(mid) :
             front[j] = IF j <= Len(head) THEN head[j] ELSE mid[j - Len(head)]
    BY <1>3, <1>5, ConcatProperties
  <2> HIDE DEF front
  <2> QED
    BY <1>3, <1>5, <2>1
<1> HIDE DEF front
<1> DEFINE whole == front \o tail
           wanted == [j \in 1 .. m + 1 |-> IF j < pos THEN acc[j] ELSE IF j = pos THEN e ELSE acc[j - 1]]
<1>7. /\ whole \in Seq(S) /\ Len(whole) = m + 1
      /\ \A j \in 1 .. m + 1 : whole[j] = IF j <= pos THEN front[j] ELSE tail[j - pos]
  <2>1. /\ whole \in Seq(S) /\ Len(whole) = Len(front) + Len(tail)
        /\ \A j \in 1 .. Len(front) + Len(tail) :
             whole[j] = IF j <= Len(front) THEN front[j] ELSE tail[j - Len(front)]
    BY <1>4, <1>6, ConcatProperties
  <2> HIDE DEF whole
  <2>2. Len(front) = pos /\ Len(front) + Len(tail) = m + 1
    BY <1>4, <1>6
  <2> QED
    BY <2>1, <2>2
<1> HIDE DEF whole
<1>8. ASSUME NEW j \in 1 .. m + 1 PROVE whole[j] = wanted[j]
  <2>1. CASE j <= pos
    <3>1. whole[j] = front[j]
      BY <1>7, <2>1
    <3>2. front[j] = IF j < pos THEN acc[j] ELSE e
      BY <1>6, <2>1
    <3> QED
      BY <2>1, <3>1, <3>2
  <2>2. CASE j > pos
    <3>1. whole[j] = tail[j - pos]
      BY <1>7, <2>2
    <3>2. tail[j - pos] = acc[j - 1]
      BY <1>4, <2>2
    <3> QED
      BY <2>2, <3>1, <3>2
  <2> QED
    BY <2>1, <2>2
<1>9. whole = wanted
  <2>1. whole \in [1 .. m + 1 -> S]
    BY <1>7, LenProperties
  <2>2. whole = [j \in 1 .. m + 1 |-> whole[j]]
    BY <2>1
  <2> QED
    BY <1>8, <2>2
<1> QED
  BY <1>2, <1>9 DEF front, whole, Spliced

\* Items with folders and names that can be compared, each id once.
Sortable(items, n) ==
  /\ DOMAIN items = 1 .. n
  /\ \A i \in 1 .. n : items[i].dir \in Int /\ items[i].name \in Int
  /\ \A i, j \in 1 .. n : items[i].id = items[j].id => i = j

\* One item comes ahead of another: by folder and name, else by its place in the list.
Ahead(items, j, i) ==
  Tags!Before(items[j], items[i]) \/ (~ Tags!Before(items[i], items[j]) /\ j < i)

\* That is a strict total order of the places.
LEMMA AheadIsOrder ==
  ASSUME NEW n \in Nat, NEW items, Sortable(items, n)
  PROVE  /\ \A i \in 1 .. n : ~ Ahead(items, i, i)
         /\ \A i, j \in 1 .. n : i = j \/ Ahead(items, i, j) \/ Ahead(items, j, i)
         /\ \A i, j, k \in 1 .. n : Ahead(items, i, j) /\ Ahead(items, j, k) => Ahead(items, i, k)
         /\ \A i, j \in 1 .. n : j < i => (Ahead(items, j, i) <=> ~ Tags!Before(items[i], items[j]))
<1> DEFINE D(i) == items[i].dir
           N(i) == items[i].name
<1>1. \A i \in 1 .. n : D(i) \in Int /\ N(i) \in Int
  BY DEF Sortable
<1>2. \A i, j \in 1 .. n : Tags!Before(items[j], items[i]) <=> D(j) < D(i) \/ (D(j) = D(i) /\ N(j) < N(i))
  BY DEF Tags!Before
<1> HIDE DEF D, N
<1>3. \A i, j \in 1 .. n : Ahead(items, j, i) <=>
        \/ D(j) < D(i)
        \/ D(j) = D(i) /\ N(j) < N(i)
        \/ D(j) = D(i) /\ N(j) = N(i) /\ j < i
  BY <1>1, <1>2 DEF Ahead
<1>4. \A i \in 1 .. n : ~ Ahead(items, i, i)
  BY <1>1, <1>3
<1>5. \A i, j \in 1 .. n : i = j \/ Ahead(items, i, j) \/ Ahead(items, j, i)
  BY <1>1, <1>3
<1>6. \A i, j, k \in 1 .. n : Ahead(items, i, j) /\ Ahead(items, j, k) => Ahead(items, i, k)
  BY <1>1, <1>3
<1>7. \A i, j \in 1 .. n : j < i => (Ahead(items, j, i) <=> ~ Tags!Before(items[i], items[j]))
  BY <1>1, <1>2, <1>3
<1> QED
  BY <1>4, <1>5, <1>6, <1>7

\* A list of the chosen ones of the first k items, in order.
Listed(items, chosen, k) == {i \in 1 .. k : items[i] \in chosen}
InOrder(items, chosen, k, m, p, acc) ==
  /\ m \in Nat /\ p \in [1 .. m -> Listed(items, chosen, k)]
  /\ \A i \in Listed(items, chosen, k) : \E a \in 1 .. m : p[a] = i
  /\ \A a, b \in 1 .. m : a < b => Ahead(items, p[a], p[b])
  /\ acc = [a \in 1 .. m |-> items[p[a]]]

\* A set of the first numbers has the numbers up to its size.
LEMMA FirstNumbers ==
  ASSUME NEW m \in Nat, NEW F \in SUBSET (1 .. m), \A a \in F : \A b \in 1 .. a : b \in F
  PROVE  F = 1 .. Cardinality(F) /\ Cardinality(F) \in 0 .. m
<1> DEFINE T == (1 .. m + 1) \ F
<1>1. m + 1 \in T /\ T \subseteq Nat
  OBVIOUS
<1>2. PICK c \in T : \A d \in T : c <= d
  BY <1>1, LeastNumber
<1>3. c \in Nat /\ c >= 1 /\ c - 1 \in Nat /\ c - 1 <= m
  BY <1>1, <1>2
<1>4. F = 1 .. c - 1
  <2>1. \A b \in 1 .. c - 1 : b \in F
    BY <1>2, <1>3
  <2>2. \A a \in F : a \in 1 .. c - 1
    BY <1>2, <1>3
  <2> QED
    BY <2>1, <2>2
<1>5. Cardinality(1 .. c - 1) = c - 1
  <2>1. 1 \in Int /\ c - 1 \in Int /\ (c - 1) - 1 + 1 = c - 1 /\ (1 > c - 1 => c - 1 = 0)
    BY <1>3
  <2> QED
    BY <2>1, FS_Interval
<1> QED
  BY <1>3, <1>4, <1>5

\* Inserting the next item keeps the list in order.
LEMMA InsertInOrder ==
  ASSUME NEW n \in Nat, NEW items, Sortable(items, n), NEW chosen, NEW k \in 0 .. n - 1,
         items[k + 1] \in chosen, NEW m, NEW p, NEW acc, InOrder(items, chosen, k, m, p, acc)
  PROVE  \E q : InOrder(items, chosen, k + 1, m + 1, q, Tags!InsertItem(acc, items[k + 1]))
<1> DEFINE x == k + 1
           F == {a \in 1 .. m : Ahead(items, p[a], x)}
           c == Cardinality(F)
           pos == c + 1
           L == Listed(items, chosen, k)
           M == Listed(items, chosen, k + 1)
<1>1. /\ m \in Nat /\ p \in [1 .. m -> L] /\ \A i \in L : \E a \in 1 .. m : p[a] = i
      /\ \A a, b \in 1 .. m : a < b => Ahead(items, p[a], p[b])
      /\ acc = [a \in 1 .. m |-> items[p[a]]]
  BY DEF InOrder
<1>2. /\ k \in Nat /\ x \in 1 .. n /\ DOMAIN items = 1 .. n
      /\ \A a \in 1 .. m : p[a] \in 1 .. n /\ p[a] < x
  <2>1. \A i \in L : i \in 1 .. n /\ i < x
    BY DEF Listed
  <2>2. \A a \in 1 .. m : p[a] \in L
    BY <1>1
  <2> QED
    BY <2>1, <2>2 DEF Sortable
<1>3. M = L \cup {x} /\ x \notin L
  BY <1>2 DEF Listed
<1>4. \A a \in F : \A b \in 1 .. a : b \in F
  <2> SUFFICES ASSUME NEW a \in F, NEW b \in 1 .. a, b # a
               PROVE  b \in F
    OBVIOUS
  <2>1. a \in 1 .. m /\ b \in 1 .. m /\ b < a
    BY <1>1
  <2>2. Ahead(items, p[b], p[a]) /\ Ahead(items, p[a], x)
    BY <1>1, <2>1
  <2> QED
    BY <1>2, <2>1, <2>2, AheadIsOrder
<1>5. F = 1 .. c /\ c \in 0 .. m
  <2>1. F \in SUBSET (1 .. m)
    OBVIOUS
  <2> HIDE DEF F
  <2> QED
    BY <1>1, <1>4, <2>1, FirstNumbers
<1>6. pos \in 1 .. m + 1 /\ \A a \in 1 .. m : a < pos <=> Ahead(items, p[a], x)
  <2>1. \A a \in 1 .. m : a \in F <=> Ahead(items, p[a], x)
    OBVIOUS
  <2> HIDE DEF F
  <2> QED
    BY <1>1, <1>5, <2>1
<1>7. {a \in DOMAIN acc : ~ Tags!Before(items[x], acc[a])} = F
  <2>1. \A a \in 1 .. m : Ahead(items, p[a], x) <=> ~ Tags!Before(items[x], items[p[a]])
    BY <1>2, AheadIsOrder
  <2>2. DOMAIN acc = 1 .. m /\ \A a \in 1 .. m : acc[a] = items[p[a]]
    BY <1>1
  <2> QED
    BY <2>1, <2>2
<1>8. Tags!InsertItem(acc, items[x]) = Tags!InsertAt(acc, 1 + c, items[x])
  <2>1. Tags!Cardinality({a \in DOMAIN acc : ~ Tags!Before(items[x], acc[a])}) = c
    BY <1>7 DEF Tags!Cardinality, Cardinality
  <2> HIDE DEF c
  <2> QED
    BY <2>1 DEF Tags!InsertItem
<1> HIDE DEF x, F, c, pos, L, M
<1> DEFINE S == {items[i] : i \in 1 .. n}
           q == [a \in 1 .. m + 1 |-> IF a < pos THEN p[a] ELSE IF a = pos THEN x ELSE p[a - 1]]
<1>9. Tags!InsertAt(acc, pos, items[x]) = Spliced(acc, m, pos, items[x])
  <2>1. acc \in [1 .. m -> S] /\ items[x] \in S
    BY <1>1, <1>2
  <2> HIDE DEF S
  <2> QED
    BY <1>1, <1>6, <2>1, InsertIs
<1>10. Tags!InsertItem(acc, items[x]) = [a \in 1 .. m + 1 |-> items[q[a]]]
  <2>1. ASSUME NEW a \in 1 .. m + 1
        PROVE  (IF a < pos THEN acc[a] ELSE IF a = pos THEN items[x] ELSE acc[a - 1]) = items[q[a]]
    <3>1. a < pos => a \in 1 .. m
      BY <1>1, <1>6
    <3>2. ~ (a < pos) /\ a # pos => a - 1 \in 1 .. m
      BY <1>1, <1>6
    <3> QED
      BY <1>1, <3>1, <3>2
  <2>2. pos = 1 + c
    BY <1>5 DEF pos
  <2> HIDE DEF q
  <2> QED
    BY <1>8, <1>9, <2>1, <2>2 DEF Spliced
<1>11. q \in [1 .. m + 1 -> M]
  <2>1. ASSUME NEW a \in 1 .. m + 1 PROVE q[a] \in M
    <3>1. a < pos => a \in 1 .. m
      BY <1>1, <1>6
    <3>2. ~ (a < pos) /\ a # pos => a - 1 \in 1 .. m
      BY <1>1, <1>6
    <3> QED
      BY <1>1, <1>3, <3>1, <3>2
  <2> QED
    BY <2>1
<1>12. \A i \in M : \E a \in 1 .. m + 1 : q[a] = i
  <2> SUFFICES ASSUME NEW i \in M PROVE \E a \in 1 .. m + 1 : q[a] = i
    OBVIOUS
  <2>1. CASE i = x
    BY <1>6, <2>1
  <2>2. CASE i # x
    <3>1. PICK a \in 1 .. m : p[a] = i
      BY <1>1, <1>3, <2>2
    <3>2. CASE a < pos
      <4>1. a \in 1 .. m + 1 /\ q[a] = i
        BY <1>1, <3>1, <3>2
      <4> QED
        BY <4>1
    <3>3. CASE ~ (a < pos)
      <4>1. a + 1 \in 1 .. m + 1 /\ ~ (a + 1 < pos) /\ a + 1 # pos /\ (a + 1) - 1 = a
        BY <1>1, <1>6, <3>3
      <4>2. q[a + 1] = i
        BY <3>1, <4>1
      <4> QED
        BY <4>1, <4>2
    <3> QED
      BY <3>2, <3>3
  <2> QED
    BY <2>1, <2>2
<1>13. ASSUME NEW a \in 1 .. m + 1, NEW b \in 1 .. m + 1, a < b
       PROVE  Ahead(items, q[a], q[b])
  <2>1. CASE b < pos
    <3>1. a \in 1 .. m /\ b \in 1 .. m /\ q[a] = p[a] /\ q[b] = p[b]
      BY <1>1, <1>6, <1>13, <2>1
    <3> QED
      BY <1>1, <1>13, <3>1
  <2>2. CASE b = pos
    <3>1. a \in 1 .. m /\ a < pos /\ q[a] = p[a] /\ q[b] = x
      BY <1>1, <1>6, <1>13, <2>2
    <3> QED
      BY <1>6, <3>1
  <2>3. CASE b > pos /\ a = pos
    <3>1. b - 1 \in 1 .. m /\ ~ (b - 1 < pos) /\ q[a] = x /\ q[b] = p[b - 1]
      BY <1>1, <1>6, <1>13, <2>3
    <3>2. ~ Ahead(items, p[b - 1], x) /\ p[b - 1] # x /\ p[b - 1] \in 1 .. n
      BY <1>2, <1>6, <3>1
    <3> QED
      BY <1>2, <3>1, <3>2, AheadIsOrder
  <2>4. CASE b > pos /\ a < pos
    <3>1. a \in 1 .. m /\ b - 1 \in 1 .. m /\ a < b - 1 /\ q[a] = p[a] /\ q[b] = p[b - 1]
      BY <1>1, <1>6, <1>13, <2>4
    <3> QED
      BY <1>1, <3>1
  <2>5. CASE b > pos /\ a > pos
    <3>1. a - 1 \in 1 .. m /\ b - 1 \in 1 .. m /\ a - 1 < b - 1 /\ q[a] = p[a - 1] /\ q[b] = p[b - 1]
      BY <1>1, <1>6, <1>13, <2>5
    <3> QED
      BY <1>1, <3>1
  <2>6. a \in Int /\ b \in Int /\ pos \in Int
    BY <1>1, <1>6
  <2> QED
    BY <1>13, <2>1, <2>2, <2>3, <2>4, <2>5, <2>6
<1> HIDE DEF q
<1>14. InOrder(items, chosen, k + 1, m + 1, q, Tags!InsertItem(acc, items[x]))
  BY <1>1, <1>10, <1>11, <1>12, <1>13 DEF InOrder, M
<1> QED
  BY <1>14 DEF x

\* The sort leaves the chosen items in order.
LEMMA SortInOrder ==
  ASSUME NEW n \in Nat, NEW items, Sortable(items, n), NEW chosen
  PROVE  \E m, p : InOrder(items, chosen, n, m, p, Tags!SortItems(items, chosen))
<1> DEFINE g == Sorts(items, chosen)
           T == {k \in Nat : k <= n => \E m, p : InOrder(items, chosen, k, m, p, g[1 .. k])}
<1>1. /\ g[1 .. 0] = <<>>
      /\ \A k \in 0 .. n - 1 :
           g[1 .. k + 1] = IF items[k + 1] \in chosen THEN Tags!InsertItem(g[1 .. k], items[k + 1])
                           ELSE g[1 .. k]
      /\ Tags!SortItems(items, chosen) = g[1 .. n]
  BY SortSteps DEF Sortable
<1> HIDE DEF g
<1>2. 0 \in T
  <2> DEFINE p == [a \in 1 .. 0 |-> 0]
  <2>1. Listed(items, chosen, 0) = {}
    BY DEF Listed
  <2>2. <<>> = [a \in 1 .. 0 |-> items[p[a]]]
    OBVIOUS
  <2>3. p \in [1 .. 0 -> Listed(items, chosen, 0)]
    OBVIOUS
  <2> HIDE DEF p
  <2>4. InOrder(items, chosen, 0, 0, p, <<>>)
    BY <2>1, <2>2, <2>3 DEF InOrder
  <2> QED
    BY <1>1, <2>4
<1>3. ASSUME NEW k \in T \cap Nat PROVE k + 1 \in T
  <2> SUFFICES ASSUME k + 1 <= n
               PROVE  \E m, p : InOrder(items, chosen, k + 1, m, p, g[1 .. k + 1])
    OBVIOUS
  <2>1. k \in 0 .. n - 1 /\ k <= n
    OBVIOUS
  <2>2. PICK m, p : InOrder(items, chosen, k, m, p, g[1 .. k])
    BY <2>1
  <2>3. CASE items[k + 1] \in chosen
    BY <1>1, <2>1, <2>2, <2>3, InsertInOrder
  <2>4. CASE items[k + 1] \notin chosen
    <3>1. Listed(items, chosen, k + 1) = Listed(items, chosen, k)
      BY <2>4 DEF Listed
    <3>2. g[1 .. k + 1] = g[1 .. k]
      BY <1>1, <2>1, <2>4
    <3>3. InOrder(items, chosen, k + 1, m, p, g[1 .. k + 1])
      BY <2>2, <3>1, <3>2 DEF InOrder
    <3> QED
      BY <3>3
  <2> QED
    BY <2>3, <2>4
<1> HIDE DEF T
<1>4. n \in T
  BY <1>2, <1>3, Induction
<1> QED
  BY <1>1, <1>4 DEF T

\* The place of a chosen item is one more than the chosen ones ahead of it.
ChosenAhead(items, chosen, i) == {j \in DOMAIN items : items[j] \in chosen /\ Ahead(items, j, i)}

\* So the sort puts it there, and its id is found there.
LEMMA SortRank ==
  ASSUME NEW n \in Nat, NEW items, Sortable(items, n), NEW chosen,
         NEW i \in 1 .. n, items[i] \in chosen
  PROVE  /\ IsFiniteSet(ChosenAhead(items, chosen, i))
         /\ Cardinality(ChosenAhead(items, chosen, i)) \in Nat
         /\ Tags!IndexIn(Tags!SortItems(items, chosen), items[i].id)
            = 1 + Cardinality(ChosenAhead(items, chosen, i))
<1> DEFINE sorted == Tags!SortItems(items, chosen)
           R == ChosenAhead(items, chosen, i)
<1>1. PICK m, p : InOrder(items, chosen, n, m, p, sorted)
  BY SortInOrder
<1>2. /\ m \in Nat /\ p \in [1 .. m -> Listed(items, chosen, n)]
      /\ \A j \in Listed(items, chosen, n) : \E a \in 1 .. m : p[a] = j
      /\ \A a, b \in 1 .. m : a < b => Ahead(items, p[a], p[b])
      /\ sorted = [a \in 1 .. m |-> items[p[a]]]
  BY <1>1 DEF InOrder
<1> HIDE DEF sorted
<1>3. /\ \A a \in 1 .. m : p[a] \in 1 .. n /\ items[p[a]] \in chosen /\ sorted[a] = items[p[a]]
      /\ Len(sorted) = m
  <2>1. \A j \in Listed(items, chosen, n) : j \in 1 .. n /\ items[j] \in chosen
    BY DEF Listed
  <2> QED
    BY <1>2, <2>1
<1>4. PICK c \in 1 .. m : p[c] = i
  BY <1>2 DEF Listed
<1>5. ASSUME NEW a \in 1 .. m
      PROVE  /\ a < c <=> Ahead(items, p[a], i)
             /\ p[a] = i => a = c
  <2>1. p[a] \in 1 .. n /\ i \in 1 .. n
    BY <1>3
  <2>2. a < c => Ahead(items, p[a], i)
    BY <1>2, <1>4
  <2>3. c < a => Ahead(items, i, p[a])
    BY <1>2, <1>4
  <2>4. ~ Ahead(items, i, i) /\ ~ (Ahead(items, i, p[a]) /\ Ahead(items, p[a], i))
    BY <2>1, AheadIsOrder
  <2>5. a < c \/ a = c \/ c < a
    OBVIOUS
  <2> QED
    BY <1>4, <2>2, <2>3, <2>4, <2>5
<1>6. Tags!IndexIn(sorted, items[i].id) = c
  <2>1. ASSUME NEW a \in 1 .. m PROVE sorted[a].id = items[i].id <=> a = c
    <3>1. sorted[a].id = items[p[a]].id /\ p[a] \in 1 .. n
      BY <1>3
    <3>2. items[p[a]].id = items[i].id <=> p[a] = i
      BY <3>1 DEF Sortable
    <3>3. p[a] = i <=> a = c
      BY <1>4, <1>5
    <3> QED
      BY <3>1, <3>2, <3>3
  <2> QED
    BY <1>3, <1>4, <2>1 DEF Tags!IndexIn
<1> DEFINE f == [a \in 1 .. c - 1 |-> p[a]]
<1>7. f \in Surjection(1 .. c - 1, R)
  <2>1. \A a \in 1 .. c - 1 : a \in 1 .. m /\ a < c
    BY <1>2
  <2>2. \A a \in 1 .. c - 1 : p[a] \in R
    BY <1>3, <1>5, <2>1 DEF ChosenAhead, Sortable
  <2>3. f \in [1 .. c - 1 -> R] /\ \A a \in 1 .. c - 1 : f[a] = p[a]
    BY <2>2
  <2>4. \A j \in R : \E a \in 1 .. c - 1 : f[a] = j
    <3> SUFFICES ASSUME NEW j \in R PROVE \E a \in 1 .. c - 1 : f[a] = j
      OBVIOUS
    <3>1. j \in Listed(items, chosen, n) /\ Ahead(items, j, i)
      BY DEF ChosenAhead, Listed, Sortable
    <3>2. PICK a \in 1 .. m : p[a] = j
      BY <1>2, <3>1
    <3>3. a < c
      BY <1>5, <3>1, <3>2
    <3>4. a \in 1 .. c - 1
      BY <3>3
    <3> QED
      BY <2>3, <3>2, <3>4
  <2> HIDE DEF f
  <2> QED
    BY <2>3, <2>4 DEF Surjection
<1>8. f \in Injection(1 .. c - 1, R)
  <2>1. \A a, b \in 1 .. c - 1 : a < b => p[a] # p[b]
    <3>1. ASSUME NEW a \in 1 .. c - 1, NEW b \in 1 .. c - 1, a < b PROVE p[a] # p[b]
      <4>1. a \in 1 .. m /\ b \in 1 .. m
        BY <1>2
      <4>2. Ahead(items, p[a], p[b]) /\ p[a] \in 1 .. n
        BY <1>2, <1>3, <3>1, <4>1
      <4> QED
        BY <4>2, AheadIsOrder
    <3> QED
      BY <3>1
  <2>2. \A a, b \in 1 .. c - 1 : p[a] = p[b] => a = b
    BY <2>1
  <2>3. f \in [1 .. c - 1 -> R]
    BY <1>7 DEF Surjection
  <2> QED
    BY <2>2, <2>3 DEF Injection, IsInjective
<1>9. IsFiniteSet(1 .. c - 1) /\ Cardinality(1 .. c - 1) = c - 1
  <2>1. 1 \in Int /\ c - 1 \in Int /\ (c - 1) - 1 + 1 = c - 1 /\ (1 > c - 1 => c - 1 = 0)
    OBVIOUS
  <2> QED
    BY <2>1, FS_Interval
<1> HIDE DEF f, R
<1>10. IsFiniteSet(R) /\ Cardinality(R) = c - 1
  BY <1>7, <1>8, <1>9, FS_Surjection
<1> QED
  BY <1>6, <1>10 DEF sorted, R

---------------------------------------------------------------------------
(***************************************************************************)
(* The numbers of a sequence rule                                          *)
(***************************************************************************)

\* The files a sequence counts before a file.
FilesAhead(rule, items, i) ==
  {j \in DOMAIN items : /\ items[j].kind = "file"
                        /\ rule.perDirectory => items[j].dir = items[i].dir
                        /\ Ahead(items, j, i)}

FileIds(items) == {items[i].id : i \in {j \in DOMAIN items : items[j].kind = "file"}}
FilesOf(items) == {items[i] : i \in {j \in 1 .. Len(items) : items[j].kind = "file"}}
GroupOf(rule, items, id) ==
  IF rule.perDirectory THEN {f \in FilesOf(items) : f.dir = items[Tags!IndexIn(items, id)].dir}
  ELSE FilesOf(items)

\* The numbers of the model in these words.
LEMMA SequenceMapIs ==
  ASSUME NEW rule, NEW items
  PROVE  Tags!SequenceMap(rule, items)
         = [id \in {f.id : f \in FilesOf(items)} |->
              rule.start + Tags!IndexIn(Tags!SortItems(items, GroupOf(rule, items, id)), id) - 1]
  BY DEF Tags!SequenceMap, FilesOf, GroupOf

\* A sequence gives a file its start and one for each file it counts before it.
LEMMA SequenceNumbers ==
  ASSUME NEW n \in Nat, NEW items, Sortable(items, n), Len(items) = n,
         NEW rule, rule.start \in Int
  PROVE  /\ DOMAIN Tags!SequenceMap(rule, items) = FileIds(items)
         /\ Tags!SequenceMap(rule, items)
            = [id \in FileIds(items) |-> Tags!SequenceMap(rule, items)[id]]
         /\ \A i \in 1 .. n : items[i].kind = "file" =>
              /\ items[i].id \in FileIds(items)
              /\ Cardinality(FilesAhead(rule, items, i)) \in Nat
              /\ Tags!SequenceMap(rule, items)[items[i].id]
                 = rule.start + Cardinality(FilesAhead(rule, items, i))
<1> DEFINE map == Tags!SequenceMap(rule, items)
           Number(id) == rule.start + Tags!IndexIn(Tags!SortItems(items, GroupOf(rule, items, id)), id) - 1
<1>1. DOMAIN items = 1 .. n /\ \A i, j \in 1 .. n : items[i].id = items[j].id => i = j
  BY DEF Sortable
<1>2. {f.id : f \in FilesOf(items)} = FileIds(items)
  BY <1>1 DEF FilesOf, FileIds
<1>3. map = [id \in FileIds(items) |-> Number(id)]
  BY <1>2, SequenceMapIs
<1>4. ASSUME NEW i \in 1 .. n, items[i].kind = "file"
      PROVE  /\ items[i].id \in FileIds(items)
             /\ Cardinality(FilesAhead(rule, items, i)) \in Nat
             /\ Number(items[i].id) = rule.start + Cardinality(FilesAhead(rule, items, i))
  <2> DEFINE G == GroupOf(rule, items, items[i].id)
  <2>1. items[i].id \in FileIds(items)
    BY <1>1, <1>4 DEF FileIds
  <2>2. Tags!IndexIn(items, items[i].id) = i
    BY <1>1 DEF Tags!IndexIn
  <2>3. \A j \in 1 .. n : items[j] \in FilesOf(items) <=> items[j].kind = "file"
    BY <1>1 DEF FilesOf
  <2>4. \A j \in 1 .. n : items[j] \in G <=> /\ items[j].kind = "file"
                                             /\ rule.perDirectory => items[j].dir = items[i].dir
    BY <2>2, <2>3 DEF GroupOf
  <2>5. items[i] \in G
    BY <1>4, <2>4
  <2>6. ChosenAhead(items, G, i) = FilesAhead(rule, items, i)
    BY <1>1, <2>4 DEF ChosenAhead, FilesAhead
  <2> HIDE DEF G
  <2>7. /\ Cardinality(FilesAhead(rule, items, i)) \in Nat
        /\ Tags!IndexIn(Tags!SortItems(items, G), items[i].id)
           = 1 + Cardinality(FilesAhead(rule, items, i))
    BY <2>5, <2>6, SortRank
  <2> QED
    BY <2>1, <2>7 DEF G
<1> HIDE DEF Number
<1>5. DOMAIN map = FileIds(items) /\ \A id \in FileIds(items) : map[id] = Number(id)
  BY <1>3
<1>6. map = [id \in FileIds(items) |-> map[id]]
  BY <1>3, <1>5
<1> HIDE DEF map
<1> QED
  BY <1>4, <1>5, <1>6 DEF map

\* _compute_sequences: a file gets the start of the rule and one for each file before it
\* by folder and name, of its folder or of all, whatever the order of the request.
THEOREM SequenceCorrect ==
  ASSUME NEW I, NEW items \in Seq(I), Sortable(items, Len(items)), NEW rule, rule.start \in Int
  PROVE  Tags!SequenceRanks(items, rule)
<1> DEFINE n == Len(items)
           files == FilesOf(items)
           map == Tags!SequenceMap(rule, items)
           rank(f) == Cardinality({g \in files : /\ Tags!Before(g, f)
                                                 /\ rule.perDirectory => g.dir = f.dir})
           wanted == [id \in {f.id : f \in files} |-> rule.start + rank(CHOOSE f \in files : f.id = id)]
<1>1. /\ n \in Nat /\ DOMAIN items = 1 .. n
      /\ \A i, j \in 1 .. n : items[i].id = items[j].id => i = j
      /\ \A i \in 1 .. n : items[i].dir \in Int /\ items[i].name \in Int
  BY DEF Sortable
<1>2. {f.id : f \in files} = FileIds(items)
  BY <1>1 DEF FilesOf, FileIds
<1>3. \A f \in files : \E i \in 1 .. n : f = items[i] /\ items[i].kind = "file"
  BY DEF FilesOf
<1>4. \A i \in 1 .. n : items[i].kind = "file" => items[i] \in files
  BY DEF FilesOf
<1>5. SUFFICES ASSUME \A f, g \in files : f # g => Tags!Before(f, g) \/ Tags!Before(g, f)
               PROVE  map = wanted
  <2>1. Tags!SequenceRanks(items, rule)
        <=> ((\A f, g \in files : f # g => Tags!Before(f, g) \/ Tags!Before(g, f)) =>
             map = [id \in {f.id : f \in files} |-> rule.start +
                      Tags!Cardinality({g \in files :
                        /\ Tags!Before(g, CHOOSE f \in files : f.id = id)
                        /\ rule.perDirectory => g.dir = (CHOOSE f \in files : f.id = id).dir})])
    BY DEF Tags!SequenceRanks, FilesOf
  <2>2. wanted = [id \in {f.id : f \in files} |-> rule.start +
                      Tags!Cardinality({g \in files :
                        /\ Tags!Before(g, CHOOSE f \in files : f.id = id)
                        /\ rule.perDirectory => g.dir = (CHOOSE f \in files : f.id = id).dir})]
    BY DEF Tags!Cardinality, Cardinality
  <2> QED
    BY <2>1, <2>2
<1>6. ASSUME NEW i \in 1 .. n, items[i].kind = "file"
      PROVE  rank(items[i]) = Cardinality(FilesAhead(rule, items, i))
  <2> DEFINE A == FilesAhead(rule, items, i)
             B == {g \in files : /\ Tags!Before(g, items[i])
                                 /\ rule.perDirectory => g.dir = items[i].dir}
             h == [j \in A |-> items[j]]
  <2>1. \A j \in 1 .. n : items[j].kind = "file" => (Ahead(items, j, i) <=> Tags!Before(items[j], items[i]))
    <3> SUFFICES ASSUME NEW j \in 1 .. n, items[j].kind = "file"
                 PROVE  Ahead(items, j, i) <=> Tags!Before(items[j], items[i])
      OBVIOUS
    <3>1. CASE j = i
      BY <1>1, <3>1 DEF Ahead, Tags!Before
    <3>2. CASE j # i
      <4>1. items[i] # items[j]
        BY <1>1, <3>2
      <4>2. Tags!Before(items[i], items[j]) \/ Tags!Before(items[j], items[i])
        BY <1>4, <1>5, <1>6, <4>1
      <4> QED
        BY <4>2 DEF Ahead
    <3> QED
      BY <3>1, <3>2
  <2>2. \A j \in A : items[j] \in B /\ j \in 1 .. n
    BY <1>1, <1>4, <2>1 DEF FilesAhead
  <2>3. \A g \in B : \E j \in A : items[j] = g
    <3> SUFFICES ASSUME NEW g \in B PROVE \E j \in A : items[j] = g
      OBVIOUS
    <3>1. PICK j \in 1 .. n : g = items[j] /\ items[j].kind = "file"
      BY <1>3
    <3>2. j \in A
      BY <1>1, <2>1, <3>1 DEF FilesAhead
    <3> QED
      BY <3>1, <3>2
  <2>4. IsFiniteSet(A)
    <3>1. IsFiniteSet(1 .. n)
      BY <1>1, FS_Interval
    <3> QED
      BY <2>2, <3>1, FS_Subset
  <2> HIDE DEF A, B
  <2>5. h \in [A -> B] /\ \A j \in A : h[j] = items[j]
    BY <2>2
  <2> HIDE DEF h
  <2>6. h \in Surjection(A, B)
    BY <2>3, <2>5 DEF Surjection
  <2>7. h \in Injection(A, B)
    <3>1. \A j, k \in A : h[j] = h[k] => j = k
      BY <1>1, <2>2, <2>5
    <3> QED
      BY <2>5, <3>1 DEF Injection, IsInjective
  <2>8. Cardinality(B) = Cardinality(A)
    BY <2>4, <2>6, <2>7, FS_Surjection
  <2> QED
    BY <2>8 DEF A, B
<1> HIDE DEF rank
<1>7. ASSUME NEW id \in FileIds(items)
      PROVE  map[id] = rule.start + rank(CHOOSE f \in files : f.id = id)
  <2>1. PICK i \in 1 .. n : items[i].kind = "file" /\ items[i].id = id
    BY <1>1 DEF FileIds
  <2>2. (CHOOSE f \in files : f.id = id) = items[i]
    BY <1>1, <1>3, <1>4, <2>1
  <2>3. map[items[i].id] = rule.start + Cardinality(FilesAhead(rule, items, i))
    BY <1>1, <2>1, SequenceNumbers
  <2> QED
    BY <1>6, <2>1, <2>2, <2>3
<1>8. map = [id \in FileIds(items) |-> map[id]]
  BY <1>1, SequenceNumbers
<1>9. wanted = [id \in FileIds(items) |-> rule.start + rank(CHOOSE f \in files : f.id = id)]
  BY <1>2
<1> HIDE DEF map, wanted
<1> QED
  BY <1>7, <1>8, <1>9

---------------------------------------------------------------------------
(***************************************************************************)
(* The previews of compute_previews                                        *)
(***************************************************************************)

\* A preview applies one rule after the other: what some of the rules have made.
RulesBody(item, items, rules, g, s) ==
  IF s = {} THEN Tags!NoChanges
  ELSE Tags!ApplyRule(item, items, rules[Tags!Max(s)], g[s \ {Tags!Max(s)}])
Previewed(item, items, rules) ==
  CHOOSE g : g = [s \in SUBSET DOMAIN rules |-> RulesBody(item, items, rules, g, s)]

\* The preview of the model is one of all the rules.
LEMMA PreviewIs ==
  ASSUME NEW item, NEW items, NEW rules
  PROVE  Tags!TransformItem(item, items, rules) = Previewed(item, items, rules)[DOMAIN rules]
  BY DEF Tags!TransformItem, Tags!FoldLeft, Tags!MapThenFoldSet, Previewed, RulesBody

\* What some rules make depends on what fewer make.
LEMMA RulesBefore ==
  ASSUME NEW n \in Nat, NEW item, NEW items, NEW rules, NEW g, NEW h, NEW s \in SUBSET (1 .. n),
         \A t \in SUBSET (1 .. n) : Cardinality(t) < Cardinality(s) => g[t] = h[t]
  PROVE  RulesBody(item, items, rules, g, s) = RulesBody(item, items, rules, h, s)
<1>1. CASE s = {}
  BY <1>1 DEF RulesBody
<1>2. CASE s # {}
  <2> DEFINE t == s \ {Tags!Max(s)}
  <2>1. /\ t \in SUBSET (1 .. n) /\ Cardinality(s) \in Nat
        /\ Cardinality(t) = Cardinality(s) - 1
    BY <1>2, MaxOf
  <2>2. g[t] = h[t]
    BY <2>1
  <2> QED
    BY <2>2 DEF RulesBody
<1> QED
  BY <1>1, <1>2

\* There is such a function, by induction on the number of rules.
LEMMA PreviewExists ==
  ASSUME NEW n \in Nat, NEW item, NEW items, NEW rules
  PROVE  \E g : g = [s \in SUBSET (1 .. n) |-> RulesBody(item, items, rules, g, s)]
<1> DEFINE Body(g, s) == RulesBody(item, items, rules, g, s)
           T == {k \in Nat : \E g : \A s \in SUBSET (1 .. n) : Cardinality(s) < k => g[s] = Body(g, s)}
<1>1. \A s \in SUBSET (1 .. n) : Cardinality(s) \in Nat /\ Cardinality(s) < n + 1
  <2>1. IsFiniteSet(1 .. n) /\ Cardinality(1 .. n) = n
    BY FS_Interval
  <2>2. \A s \in SUBSET (1 .. n) : IsFiniteSet(s) /\ Cardinality(s) <= Cardinality(1 .. n)
    BY <2>1, FS_Subset
  <2>3. \A s \in SUBSET (1 .. n) : Cardinality(s) \in Nat
    BY <2>2, FS_CardinalityType
  <2> QED
    BY <2>1, <2>2, <2>3
<1>2. \A g, h : \A s \in SUBSET (1 .. n) :
        (\A t \in SUBSET (1 .. n) : Cardinality(t) < Cardinality(s) => g[t] = h[t])
        => Body(g, s) = Body(h, s)
  BY RulesBefore
<1> HIDE DEF Body
<1>3. 0 \in T
  BY <1>1
<1>4. ASSUME NEW k \in T \cap Nat PROVE k + 1 \in T
  <2>1. PICK g : \A s \in SUBSET (1 .. n) : Cardinality(s) < k => g[s] = Body(g, s)
    OBVIOUS
  <2> DEFINE h == [s \in SUBSET (1 .. n) |-> IF Cardinality(s) < k THEN g[s] ELSE Body(g, s)]
  <2>2. \A s \in SUBSET (1 .. n) : h[s] = IF Cardinality(s) < k THEN g[s] ELSE Body(g, s)
    OBVIOUS
  <2> HIDE DEF h
  <2>3. ASSUME NEW s \in SUBSET (1 .. n), Cardinality(s) < k + 1
        PROVE  h[s] = Body(h, s)
    <3>1. \A t \in SUBSET (1 .. n) : Cardinality(t) < Cardinality(s) => g[t] = h[t]
      BY <1>1, <2>2, <2>3
    <3>2. Body(g, s) = Body(h, s)
      BY <1>2, <3>1
    <3> QED
      BY <2>1, <2>2, <3>2
  <2> QED
    BY <2>3
<1> HIDE DEF T
<1>5. n + 1 \in T
  BY <1>3, <1>4, Induction
<1>6. PICK g : \A s \in SUBSET (1 .. n) : g[s] = Body(g, s)
  BY <1>1, <1>5 DEF T
<1> DEFINE h == [s \in SUBSET (1 .. n) |-> g[s]]
<1>7. ASSUME NEW s \in SUBSET (1 .. n) PROVE h[s] = Body(h, s)
  <2>1. \A t \in SUBSET (1 .. n) : h[t] = g[t]
    OBVIOUS
  <2> HIDE DEF h
  <2>2. Body(h, s) = Body(g, s)
    BY <1>2, <2>1
  <2> QED
    BY <1>6, <2>1, <2>2
<1>8. h = [s \in SUBSET (1 .. n) |-> Body(h, s)]
  BY <1>7
<1> HIDE DEF h
<1> QED
  BY <1>8 DEF Body

\* The preview of the first k + 1 rules is that of the first k with the next applied.
LEMMA PreviewSteps ==
  ASSUME NEW n \in Nat, NEW item, NEW items, NEW rules, DOMAIN rules = 1 .. n
  PROVE  LET g == Previewed(item, items, rules) IN
         /\ g[1 .. 0] = Tags!NoChanges
         /\ \A k \in 0 .. n - 1 :
              g[1 .. k + 1] = Tags!ApplyRule(item, items, rules[k + 1], g[1 .. k])
         /\ Tags!TransformItem(item, items, rules) = g[1 .. n]
<1> DEFINE g == Previewed(item, items, rules)
           h == [s \in SUBSET (1 .. n) |-> RulesBody(item, items, rules, g, s)]
<1>1. g = h
  BY PreviewExists DEF Previewed
<1>2. \A s \in SUBSET (1 .. n) : h[s] = RulesBody(item, items, rules, g, s)
  OBVIOUS
<1> HIDE DEF g, h
<1>3. \A s \in SUBSET (1 .. n) : g[s] = RulesBody(item, items, rules, g, s)
  BY <1>1, <1>2
<1>4. g[1 .. 0] = Tags!NoChanges
  <2>1. 1 .. 0 \in SUBSET (1 .. n) /\ 1 .. 0 = {}
    OBVIOUS
  <2> QED
    BY <1>3, <2>1 DEF RulesBody
<1>5. ASSUME NEW k \in 0 .. n - 1
      PROVE  g[1 .. k + 1] = Tags!ApplyRule(item, items, rules[k + 1], g[1 .. k])
  <2>1. k \in Nat /\ k + 1 \in 1 .. k + 1 /\ k + 1 <= n
    OBVIOUS
  <2>2. \A x \in 1 .. k + 1 : x \in 1 .. n
    BY <2>1
  <2>3. 1 .. k + 1 \in SUBSET (1 .. n) /\ 1 .. k + 1 # {}
    BY <2>1, <2>2
  <2>4. Tags!Max(1 .. k + 1) = k + 1 /\ (1 .. k + 1) \ {k + 1} = 1 .. k
    BY <2>1, MaxOfFirst
  <2> QED
    BY <1>3, <2>3, <2>4 DEF RulesBody
<1>6. Tags!TransformItem(item, items, rules) = g[1 .. n]
  BY PreviewIs DEF g
<1> QED
  BY <1>4, <1>5, <1>6 DEF g

\* What a rule says of an item, and whether that is a change.
SaidBy(item, items, rule) == Tags!Transform(rule, item, items).value
Changing(item, items, rule) == SaidBy(item, items, rule) \notin {Tags!NoValue, item.tags[rule.tag]}

\* What one rule adds to the changes.
LEMMA ApplyIs ==
  ASSUME NEW item, NEW items, NEW rule, NEW acc
  PROVE  Tags!ApplyRule(item, items, rule, acc).changes
         = IF Changing(item, items, rule)
           THEN Tags!WithChange(acc.changes, rule.tag, SaidBy(item, items, rule))
           ELSE acc.changes
  BY DEF Tags!ApplyRule, Changing, SaidBy

\* A preview changes the tags of the rules that change something, to what they say;
\* where the rules set different tags, each to what its rule says.
LEMMA PreviewChanges ==
  ASSUME NEW n \in Nat, NEW item, NEW items, NEW rules, DOMAIN rules = 1 .. n
  PROVE  LET changes == Tags!TransformItem(item, items, rules).changes IN
         /\ \A t \in DOMAIN changes :
              /\ changes[t] # item.tags[t]
              /\ \E m \in 1 .. n : rules[m].tag = t /\ Changing(item, items, rules[m])
         /\ (\A l, m \in 1 .. n : l # m => rules[l].tag # rules[m].tag) =>
              \A m \in 1 .. n : Changing(item, items, rules[m]) =>
                /\ rules[m].tag \in DOMAIN changes
                /\ changes[rules[m].tag] = SaidBy(item, items, rules[m])
         /\ (\A m \in 1 .. n : ~ Changing(item, items, rules[m])) => changes = <<>>
<1> DEFINE g == Previewed(item, items, rules)
           V(m) == SaidBy(item, items, rules[m])
           C(m) == Changing(item, items, rules[m])
           Distinct == \A l, m \in 1 .. n : l # m => rules[l].tag # rules[m].tag
           Fine(k, changes) ==
             /\ \A t \in DOMAIN changes : /\ changes[t] # item.tags[t]
                                          /\ \E m \in 1 .. k : rules[m].tag = t /\ C(m)
             /\ Distinct => \A m \in 1 .. k : C(m) => /\ rules[m].tag \in DOMAIN changes
                                                     /\ changes[rules[m].tag] = V(m)
             /\ (\A m \in 1 .. k : ~ C(m)) => changes = <<>>
           T == {k \in Nat : k <= n => Fine(k, g[1 .. k].changes)}
<1>1. /\ g[1 .. 0] = Tags!NoChanges
      /\ \A k \in 0 .. n - 1 :
           g[1 .. k + 1] = Tags!ApplyRule(item, items, rules[k + 1], g[1 .. k])
      /\ Tags!TransformItem(item, items, rules) = g[1 .. n]
  BY PreviewSteps
<1> HIDE DEF g
<1>2. \A m \in 1 .. n : C(m) => V(m) # item.tags[rules[m].tag]
  BY DEF Changing
<1>3. \A k \in 0 .. n - 1 :
        g[1 .. k + 1].changes = IF C(k + 1)
                                THEN Tags!WithChange(g[1 .. k].changes, rules[k + 1].tag, V(k + 1))
                                ELSE g[1 .. k].changes
  BY <1>1, ApplyIs
<1> HIDE DEF C, V
<1>4. 0 \in T
  <2>1. g[1 .. 0].changes = <<>> /\ DOMAIN <<>> = {} /\ 1 .. 0 = {}
    BY <1>1 DEF Tags!NoChanges
  <2>2. Fine(0, g[1 .. 0].changes)
    BY <2>1
  <2> HIDE DEF Fine
  <2> QED
    BY <2>2
<1>5. ASSUME NEW k \in T \cap Nat PROVE k + 1 \in T
  <2> SUFFICES ASSUME k + 1 <= n PROVE Fine(k + 1, g[1 .. k + 1].changes)
    OBVIOUS
  <2> DEFINE old == g[1 .. k].changes
             new == g[1 .. k + 1].changes
             tag == rules[k + 1].tag
  <2>1. k \in Nat /\ k \in 0 .. n - 1 /\ k + 1 \in 1 .. n /\ k <= n
        /\ \A m : m \in 1 .. k + 1 <=> m \in 1 .. k \/ m = k + 1
    OBVIOUS
  <2>2. Fine(k, old)
    BY <2>1
  <2>3. \A m \in 1 .. k : m \in 1 .. n /\ m # k + 1
    BY <2>1
  <2>4. new = IF C(k + 1) THEN [t \in DOMAIN old \cup {tag} |-> IF t = tag THEN V(k + 1) ELSE old[t]]
              ELSE old
    BY <1>3, <2>1 DEF Tags!WithChange
  <2> HIDE DEF old, new, tag, T
  <2>5. CASE ~ C(k + 1)
    <3>1. new = old
      BY <2>4, <2>5
    <3> QED
      BY <2>1, <2>2, <2>5, <3>1 DEF new
  <2>6. CASE C(k + 1)
    <3>1. /\ DOMAIN new = DOMAIN old \cup {tag} /\ new[tag] = V(k + 1)
          /\ \A t \in DOMAIN old : t # tag => new[t] = old[t]
      BY <2>4, <2>6
    <3>2. ASSUME NEW t \in DOMAIN new
          PROVE  /\ new[t] # item.tags[t]
                 /\ \E m \in 1 .. k + 1 : rules[m].tag = t /\ C(m)
      <4>1. CASE t = tag
        BY <1>2, <2>1, <2>6, <3>1, <4>1 DEF tag
      <4>2. CASE t # tag
        BY <2>1, <2>2, <3>1, <3>2, <4>2
      <4> QED
        BY <4>1, <4>2
    <3>3. ASSUME Distinct, NEW m \in 1 .. k + 1, C(m)
          PROVE  rules[m].tag \in DOMAIN new /\ new[rules[m].tag] = V(m)
      <4>1. CASE m = k + 1
        BY <3>1, <4>1 DEF tag
      <4>2. CASE m # k + 1
        <5>1. m \in 1 .. k /\ rules[m].tag # tag
          BY <2>1, <2>3, <3>3, <4>2 DEF tag
        <5> QED
          BY <2>2, <3>1, <3>3, <5>1
      <4> QED
        BY <4>1, <4>2
    <3>4. ~ (\A m \in 1 .. k + 1 : ~ C(m))
      BY <2>1, <2>6
    <3> QED
      BY <3>2, <3>3, <3>4 DEF new
  <2> QED
    BY <2>5, <2>6
<1> HIDE DEF T
<1>6. n \in T
  BY <1>4, <1>5, Induction
<1>7. Fine(n, Tags!TransformItem(item, items, rules).changes)
  BY <1>1, <1>6 DEF T
<1> QED
  BY <1>7 DEF C, V

\* Lists of the same files in the same folders are numbered alike.
SameFiles(a, b, n) ==
  \A i \in 1 .. n : /\ a[i].id = b[i].id /\ a[i].kind = b[i].kind
                    /\ a[i].dir = b[i].dir /\ a[i].name = b[i].name

\* Their numbers depend on nothing else.
LEMMA SequenceMapSame ==
  ASSUME NEW n \in Nat, NEW a, Sortable(a, n), Len(a) = n, NEW b, Sortable(b, n), Len(b) = n,
         SameFiles(a, b, n), NEW rule, rule.start \in Int
  PROVE  Tags!SequenceMap(rule, a) = Tags!SequenceMap(rule, b)
<1> DEFINE f == Tags!SequenceMap(rule, a)
           g == Tags!SequenceMap(rule, b)
<1>1. DOMAIN a = 1 .. n /\ DOMAIN b = 1 .. n
  BY DEF Sortable
<1>2. FileIds(a) = FileIds(b)
  BY <1>1 DEF FileIds, SameFiles
<1>3. ASSUME NEW i \in 1 .. n PROVE FilesAhead(rule, a, i) = FilesAhead(rule, b, i)
  <2>1. \A j \in 1 .. n : Ahead(a, j, i) <=> Ahead(b, j, i)
    BY DEF Ahead, Tags!Before, SameFiles
  <2> QED
    BY <1>1, <2>1 DEF FilesAhead, SameFiles
<1>4. f = [id \in FileIds(a) |-> f[id]] /\ g = [id \in FileIds(b) |-> g[id]]
  BY SequenceNumbers
<1>5. ASSUME NEW id \in FileIds(a) PROVE f[id] = g[id]
  <2>1. PICK i \in 1 .. n : a[i].kind = "file" /\ a[i].id = id
    BY <1>1 DEF FileIds
  <2>2. b[i].kind = "file" /\ b[i].id = id
    BY <2>1 DEF SameFiles
  <2>3. f[a[i].id] = rule.start + Cardinality(FilesAhead(rule, a, i))
    BY <2>1, SequenceNumbers
  <2>4. g[b[i].id] = rule.start + Cardinality(FilesAhead(rule, b, i))
    BY <2>2, SequenceNumbers
  <2> QED
    BY <1>3, <2>1, <2>2, <2>3, <2>4
<1> HIDE DEF f, g
<1> QED
  BY <1>2, <1>4, <1>5 DEF f, g

\* Rules of the four kinds over items with tags.
AnyItem(Id, Kind, Tag, Val) == [id : Id, kind : Kind, dir : Int, name : Int, tags : [Tag -> Val]]
ValidRule(rule, Tag) ==
  /\ rule.tag \in Tag /\ rule.mode \in {"fixed", "regex", "sequence", "explicit"}
  /\ rule.mode = "regex" => rule.source \in Tag
  /\ rule.mode = "sequence" => rule.start \in Int
OneEachId(items) == \A i, j \in DOMAIN items : items[i].id = items[j].id => i = j

\* An item after its preview was applied.
LEMMA AppliedItems ==
  ASSUME NEW Id, NEW Kind, NEW Tag, NEW Val, NEW items \in Seq(AnyItem(Id, Kind, Tag, Val)),
         OneEachId(items), NEW previews
  PROVE  LET after == Tags!Applied(items, previews)
             n == Len(items)
         IN /\ n \in Nat /\ Sortable(items, n) /\ Sortable(after, n) /\ Len(after) = n
            /\ SameFiles(after, items, n)
            /\ \A i \in 1 .. n :
                 /\ DOMAIN items[i].tags = Tag
                 /\ after[i].tags = [t \in Tag |-> IF t \in DOMAIN previews[i].changes
                                                   THEN previews[i].changes[t] ELSE items[i].tags[t]]
<1> DEFINE after == Tags!Applied(items, previews)
           n == Len(items)
           New(i) == [t \in DOMAIN items[i].tags |-> IF t \in DOMAIN previews[i].changes
                                                     THEN previews[i].changes[t] ELSE items[i].tags[t]]
<1>1. n \in Nat /\ DOMAIN items = 1 .. n /\ \A i \in 1 .. n : items[i] \in AnyItem(Id, Kind, Tag, Val)
  OBVIOUS
<1>2. after = [i \in 1 .. n |-> [items[i] EXCEPT !.tags = New(i)]]
  BY DEF Tags!Applied
<1>3. ASSUME NEW i \in 1 .. n
      PROVE  /\ items[i].dir \in Int /\ items[i].name \in Int /\ DOMAIN items[i].tags = Tag
             /\ after[i].id = items[i].id /\ after[i].kind = items[i].kind
             /\ after[i].dir = items[i].dir /\ after[i].name = items[i].name
             /\ after[i].tags = New(i)
  <2>1. items[i] \in AnyItem(Id, Kind, Tag, Val)
    BY <1>1
  <2>2. after[i] = [items[i] EXCEPT !.tags = New(i)]
    BY <1>2
  <2> HIDE DEF New, after
  <2> QED
    BY <2>1, <2>2 DEF AnyItem
<1>4. DOMAIN after = 1 .. n /\ Len(after) = n
  BY <1>1, <1>2
<1> HIDE DEF after
<1>5. Sortable(items, n)
  BY <1>1, <1>3 DEF Sortable, OneEachId
<1>6. Sortable(after, n)
  <2>1. \A i \in 1 .. n : after[i].dir \in Int /\ after[i].name \in Int
    BY <1>3
  <2>2. \A i, j \in 1 .. n : after[i].id = after[j].id => items[i].id = items[j].id
    BY <1>3
  <2>3. \A i, j \in 1 .. n : items[i].id = items[j].id => i = j
    BY <1>1 DEF OneEachId
  <2> QED
    BY <1>4, <2>1, <2>2, <2>3 DEF Sortable
<1>7. SameFiles(after, items, n)
  BY <1>3 DEF SameFiles
<1> QED
  BY <1>1, <1>3, <1>4, <1>5, <1>6, <1>7 DEF after

\* compute_previews: a preview lists only values that an item does not have, and once the
\* changes are applied, rules that do not touch each other's tags find nothing to change.
THEOREM PreviewCorrect ==
  ASSUME NEW Id, NEW Kind, NEW Tag, NEW Val, NEW items \in Seq(AnyItem(Id, Kind, Tag, Val)),
         OneEachId(items),
         NEW Rule, NEW rules \in Seq(Rule), \A m \in DOMAIN rules : ValidRule(rules[m], Tag)
  PROVE  Tags!PreviewStable(items, rules)
<1> DEFINE n == Len(items)
           k == Len(rules)
           previews == Tags!Previews(items, rules)
           after == Tags!Applied(items, previews)
<1>1. /\ n \in Nat /\ k \in Nat /\ DOMAIN rules = 1 .. k
  OBVIOUS
<1>2. \A i \in 1 .. n : previews[i] = Tags!TransformItem(items[i], items, rules)
  BY DEF Tags!Previews
<1>3. /\ Sortable(items, n) /\ Sortable(after, n) /\ Len(after) = n /\ SameFiles(after, items, n)
      /\ \A i \in 1 .. n :
           /\ DOMAIN items[i].tags = Tag
           /\ after[i].tags = [t \in Tag |-> IF t \in DOMAIN previews[i].changes
                                             THEN previews[i].changes[t] ELSE items[i].tags[t]]
  BY AppliedItems
<1> HIDE DEF previews, after
<1>4. \A i \in 1 .. n : \A t \in DOMAIN previews[i].changes : previews[i].changes[t] # items[i].tags[t]
  <2> SUFFICES ASSUME NEW i \in 1 .. n
               PROVE  \A t \in DOMAIN previews[i].changes : previews[i].changes[t] # items[i].tags[t]
    OBVIOUS
  <2>1. \A t \in DOMAIN Tags!TransformItem(items[i], items, rules).changes :
          Tags!TransformItem(items[i], items, rules).changes[t] # items[i].tags[t]
    BY <1>1, PreviewChanges
  <2> QED
    BY <1>2, <2>1
<1>5. ASSUME Tags!Independent(rules), NEW i \in 1 .. n
      PROVE  Tags!Previews(after, rules)[i].changes = <<>>
  <2> DEFINE changes == previews[i].changes
  <2>1. /\ \A l, m \in 1 .. k : l # m => rules[l].tag # rules[m].tag
        /\ \A l, m \in 1 .. k : rules[l].mode = "regex" => rules[l].source # rules[m].tag
    BY <1>5 DEF Tags!Independent
  <2>2. /\ \A t \in DOMAIN changes :
             \E m \in 1 .. k : rules[m].tag = t /\ Changing(items[i], items, rules[m])
        /\ \A m \in 1 .. k : Changing(items[i], items, rules[m]) =>
             /\ rules[m].tag \in DOMAIN changes
             /\ changes[rules[m].tag] = SaidBy(items[i], items, rules[m])
    <3> DEFINE ch == Tags!TransformItem(items[i], items, rules).changes
    <3>1. \A t \in DOMAIN ch :
            \E m \in 1 .. k : rules[m].tag = t /\ Changing(items[i], items, rules[m])
      <4>1. DOMAIN rules = 1 .. k /\ k \in Nat
        BY <1>1
      <4> QED
        BY ONLY <4>1, PreviewChanges
    <3>2. \A m \in 1 .. k : Changing(items[i], items, rules[m]) =>
            rules[m].tag \in DOMAIN ch /\ ch[rules[m].tag] = SaidBy(items[i], items, rules[m])
      <4>1. (\A l, m \in 1 .. k : l # m => rules[l].tag # rules[m].tag) =>
              \A m \in 1 .. k : Changing(items[i], items, rules[m]) =>
                /\ rules[m].tag \in DOMAIN ch
                /\ ch[rules[m].tag] = SaidBy(items[i], items, rules[m])
        <5>1. DOMAIN rules = 1 .. k /\ k \in Nat
          BY <1>1
        <5> QED
          BY ONLY <5>1, PreviewChanges
      <4> QED
        BY <2>1, <4>1
    <3> QED
      BY <1>2, <3>1, <3>2
  <2> HIDE DEF changes
  <2>3. /\ after[i].id = items[i].id /\ after[i].kind = items[i].kind
        /\ \A t \in Tag : after[i].tags[t] = IF t \in DOMAIN changes THEN changes[t] ELSE items[i].tags[t]
    BY <1>3 DEF SameFiles, changes
  <2>4. ASSUME NEW m \in 1 .. k
        PROVE  SaidBy(after[i], after, rules[m]) = SaidBy(items[i], items, rules[m])
    <3> DEFINE rule == rules[m]
    <3>1. ValidRule(rule, Tag)
      BY <1>1
    <3>2. CASE rule.mode = "fixed"
      BY <3>2 DEF SaidBy, Tags!Transform, Tags!FixedTransform
    <3>3. CASE rule.mode = "explicit"
      BY <2>3, <3>3 DEF SaidBy, Tags!Transform, Tags!ExplicitTransform
    <3>4. CASE rule.mode = "sequence"
      <4>1. Tags!SequenceMap(rule, after) = Tags!SequenceMap(rule, items)
        BY <1>1, <1>3, <3>1, <3>4, SequenceMapSame DEF ValidRule
      <4> QED
        BY <2>3, <3>4, <4>1 DEF SaidBy, Tags!Transform, Tags!SequenceTransform
    <3>5. CASE rule.mode = "regex"
      <4>1. rule.source \in Tag /\ rule.source \notin DOMAIN changes
        BY <2>1, <2>2, <3>1, <3>5 DEF ValidRule
      <4>2. after[i].tags[rule.source] = items[i].tags[rule.source]
        BY <2>3, <4>1
      <4> QED
        BY <3>5, <4>2 DEF SaidBy, Tags!Transform, Tags!RegexTransform
    <3> QED
      BY <3>1, <3>2, <3>3, <3>4, <3>5 DEF ValidRule
  <2>5. ASSUME NEW m \in 1 .. k
        PROVE  ~ Changing(after[i], after, rules[m])
    <3>1. rules[m].tag \in Tag
      BY <1>1 DEF ValidRule
    <3>2. CASE Changing(items[i], items, rules[m])
      <4>1. after[i].tags[rules[m].tag] = SaidBy(items[i], items, rules[m])
        BY <2>2, <2>3, <3>1, <3>2
      <4> QED
        BY <2>4, <4>1 DEF Changing
    <3>3. CASE ~ Changing(items[i], items, rules[m])
      <4>1. rules[m].tag \notin DOMAIN changes
        <5>1. ASSUME rules[m].tag \in DOMAIN changes PROVE FALSE
          <6>1. PICK l \in 1 .. k : rules[l].tag = rules[m].tag /\ Changing(items[i], items, rules[l])
            BY <2>2, <5>1
          <6>2. l = m
            BY <2>1, <6>1
          <6> QED
            BY <3>3, <6>1, <6>2
        <5> QED
          BY <5>1
      <4>2. after[i].tags[rules[m].tag] = items[i].tags[rules[m].tag]
        BY <2>3, <3>1, <4>1
      <4> QED
        BY <2>4, <3>3, <4>2 DEF Changing
    <3> QED
      BY <3>2, <3>3
  <2>6. Tags!TransformItem(after[i], after, rules).changes = <<>>
    BY <1>1, <2>5, PreviewChanges
  <2>7. Tags!Previews(after, rules)[i] = Tags!TransformItem(after[i], after, rules)
    BY <1>3 DEF Tags!Previews
  <2> QED
    BY <2>6, <2>7
<1> QED
  BY <1>4, <1>5 DEF Tags!PreviewStable, previews, after

---------------------------------------------------------------------------
(***************************************************************************)
(* Tag writers, and pairings of tagged albums                              *)
(***************************************************************************)

\* The tag writers: every text of a track number, of one part or two, and every
\* number before it leave the same number in the row and in each file format (if the
\* total is one, and but for track 0 of an M4A file).
THEOREM TrackNumbersCorrect ==
  ASSUME NEW n \in 1 .. 2, NEW text \in [1 .. n -> Nat \ {Files!Absent}], NEW old \in Nat
  PROVE  Files!TrackNumbersAgree(text, old)
<1> DEFINE first == text[1]
           last == text[n]
           number == Files!NormalizeTrackNumber(text)
           file == IF old = 97 THEN <<>> ELSE <<old>>
           pair == IF old = 97 THEN <<>> ELSE <<old, 0>>
           kept == Files!RowTrack(old, text)
<1>1. /\ text \in Seq(Nat) /\ Len(text) = n /\ 1 \in 1 .. n /\ n \in 1 .. n
      /\ first \in Nat /\ last \in Nat /\ first # 97 /\ last # 97
  BY DEF Files!Absent
<1>2. text = <<98>> <=> n = 1 /\ first = 98
  <2>1. text = <<98>> => n = 1 /\ first = 98
    <3>1. Len(<<98>>) = 1 /\ <<98>>[1] = 98
      OBVIOUS
    <3> QED
      BY <1>1, <3>1
  <2>2. n = 1 /\ first = 98 => text = <<98>>
    <3> SUFFICES ASSUME n = 1, first = 98
                 PROVE  text = <<98>>
      OBVIOUS
    <3>1. text = [k \in 1 .. n |-> text[k]]
      OBVIOUS
    <3>2. text = [k \in 1 .. 1 |-> 98]
      BY <3>1
    <3>3. <<98>> = [k \in 1 .. 1 |-> 98]
      OBVIOUS
    <3> QED
      BY <3>2, <3>3
  <2> QED
    BY <2>1, <2>2
<1>3. first \notin {98, 99} /\ last # 99 =>
        /\ number.track = first
        /\ number.total = IF n = 1 \/ last = 98 THEN 97 ELSE last
  <2>1. ASSUME first # 99, last # 99 PROVE 99 \notin {text[k] : k \in 1 .. Len(text)}
    BY <1>1, <2>1
  <2> QED
    BY <1>1, <2>1 DEF Files!NormalizeTrackNumber, Files!Junk, Files!Blank, Files!Absent
<1>4. first = 98 => number.track = 97
  BY <1>1 DEF Files!NormalizeTrackNumber, Files!Junk, Files!Blank, Files!Absent
<1>5. first = 99 => number.track = 97
  BY <1>1 DEF Files!NormalizeTrackNumber, Files!Junk, Files!Blank, Files!Absent
<1>6. kept = IF text = <<98>> THEN 97 ELSE IF first \in {98, 99} THEN old ELSE first
  BY DEF Files!RowTrack, Files!Blank, Files!Junk, Files!Absent
<1>7. /\ Files!VorbisTrack(file, text) = IF text = <<98>> THEN <<>>
                                         ELSE IF number.track = 97 THEN file
                                         ELSE IF number.total = 97 THEN <<number.track>>
                                         ELSE <<number.track, number.total>>
      /\ Files!Id3Track(file, text) = Files!VorbisTrack(file, text)
  BY DEF Files!VorbisTrack, Files!Id3Track, Files!Blank, Files!Absent, Files!Unset
<1>8. Files!Mp4Track(pair, text) = IF text = <<98>> THEN <<>>
                                   ELSE IF number.track = 97 THEN pair
                                   ELSE <<number.track, IF number.total = 97 THEN 0 ELSE number.total>>
  BY DEF Files!Mp4Track, Files!Blank, Files!Absent, Files!Unset
<1>9. /\ Files!Number(<<>>) = 97
      /\ \A a : Files!Number(<<a>>) = a
      /\ \A a, b : Files!Number(<<a, b>>) = a
  BY DEF Files!Number, Files!Unset, Files!Absent
<1>10. /\ Files!ReadMp4Track(<<>>) = <<>>
       /\ \A a, b \in Nat : a # 0 => Files!Number(Files!ReadMp4Track(<<a, b>>)) = a
  BY <1>9 DEF Files!ReadMp4Track, Files!Unset
<1> HIDE DEF number, kept
<1>11. ASSUME first \in {98, 99} \/ last # 99
       PROVE  Files!Number(Files!VorbisTrack(file, text)) = kept
  BY <1>1, <1>2, <1>3, <1>4, <1>5, <1>6, <1>7, <1>9, <1>11
<1>12. ASSUME first \in {98, 99} \/ last # 99, kept # 0
       PROVE  Files!Number(Files!ReadMp4Track(Files!Mp4Track(pair, text))) = kept
  BY <1>1, <1>2, <1>3, <1>4, <1>5, <1>6, <1>8, <1>9, <1>10, <1>12
<1> QED
  BY <1>1, <1>7, <1>11, <1>12
     DEF Files!TrackNumbersAgree, Files!Absent, Files!Unset, Files!Blank, Files!Junk, kept

\* mediafile reads the album artist back as it was written, whatever aliases of its
\* key another program left in the file and whatever they held.
THEOREM AliasCorrect ==
  ASSUME NEW comments, \A n \in 1 .. 3 : Files!AliasKeys[n] \in DOMAIN comments, NEW value
  PROVE  Files!AliasReadsBack(comments, value)
<1> DEFINE written == Files!ApplyVorbisTag(comments, value)
           Key(n) == Files!AliasKeys[n]
           present == {n \in 1 .. 3 : written[Key(n)] # Files!Absent}
           key == CHOOSE n \in present : \A m \in present : n <= m
<1>1. \A n \in 1 .. 3 : written[Key(n)] = value
  BY DEF Files!ApplyVorbisTag
<1>2. Len(Files!AliasKeys) = 3
  BY DEF Files!AliasKeys
<1>3. Files!ReadAlias(written) = IF present = {} THEN Files!Absent ELSE written[Key(key)]
  BY <1>2 DEF Files!ReadAlias
<1> HIDE DEF written, Key
<1>4. CASE value = Files!Absent
  BY <1>1, <1>3, <1>4 DEF Files!AliasReadsBack, written
<1>5. CASE value # Files!Absent
  <2>1. present = 1 .. 3
    BY <1>1, <1>5
  <2>2. key \in 1 .. 3
    <3>1. \E n \in present : \A m \in present : n <= m
      BY <2>1
    <3> HIDE DEF present
    <3> QED
      BY <2>1, <3>1
  <2> HIDE DEF present, key
  <2> QED
    BY <1>1, <1>3, <2>1, <2>2 DEF Files!AliasReadsBack, written
<1> QED
  BY <1>4, <1>5

\* The keys of the places decide alone where no two files share a place: the names
\* behind them change no order.
LEMMA NamesDecideNothing ==
  ASSUME NEW n \in Nat, NEW files, DOMAIN files = 1 .. n,
         Pairing!OnePerKey(Pairing!ItemPlaces(files))
  PROVE  Pairing!OrderOf(Pairing!ItemPlaces(files)) = Pairing!ItemOrder(files)
<1> DEFINE places == Pairing!ItemPlaces(files)
           named == [i \in DOMAIN files |-> places[i] \o <<files[i].name>>]
           Before(keys, j, i) == Pairing!Less(keys[j], keys[i]) \/ (keys[j] = keys[i] /\ j <= i)
           Disc(i) == Pairing!OrZero(files[i].disc)
           Track(i) == Pairing!ItemNumber(files[i])
<1>1. /\ DOMAIN places = DOMAIN files /\ DOMAIN named = DOMAIN files
      /\ \A i \in DOMAIN files : places[i] = <<Disc(i), Track(i)>>
  BY DEF Pairing!ItemPlaces
<1>2. \A i \in DOMAIN files : named[i] = <<Disc(i), Track(i), files[i].name>>
  <2>1. ASSUME NEW a, NEW b, NEW c PROVE <<a, b>> \o <<c>> = <<a, b, c>>
    <3> DEFINE s == <<a, b>>
               t == <<c>>
    <3>1. /\ Len(s) = 2 /\ Len(t) = 1 /\ s[1] = a /\ s[2] = b /\ t[1] = c
      OBVIOUS
    <3>2. s \o t = [k \in 1 .. Len(s) + Len(t) |-> IF k <= Len(s) THEN s[k] ELSE t[k - Len(s)]]
      OBVIOUS
    <3> HIDE DEF s, t
    <3>3. s \o t = [k \in 1 .. 3 |-> IF k <= 2 THEN s[k] ELSE t[k - 2]]
      BY <3>1, <3>2
    <3>4. s \o t = [k \in 1 .. 3 |-> <<a, b, c>>[k]]
      BY <3>1, <3>3
    <3>5. <<a, b, c>> = [k \in 1 .. 3 |-> <<a, b, c>>[k]]
      OBVIOUS
    <3> QED
      BY <3>4, <3>5 DEF s, t
  <2> HIDE DEF places, Disc, Track
  <2> QED
    BY <1>1, <2>1
<1>3. \A i, j \in DOMAIN files : i # j => Disc(i) # Disc(j) \/ Track(i) # Track(j)
  BY <1>1 DEF Pairing!OnePerKey
<1> HIDE DEF places, named, Disc, Track
<1>4. \A i, j \in DOMAIN files : Before(places, j, i) <=> Before(named, j, i)
  <2> SUFFICES ASSUME NEW i \in DOMAIN files, NEW j \in DOMAIN files
               PROVE  Before(places, j, i) <=> Before(named, j, i)
    OBVIOUS
  <2>1. CASE i = j
    BY <2>1
  <2>2. CASE i # j
    <3>1. /\ Pairing!Less(places[j], places[i])
             <=> Disc(j) < Disc(i) \/ (Disc(j) = Disc(i) /\ Track(j) < Track(i))
          /\ places[j] # places[i]
      BY <1>1, <1>3, <2>2 DEF Pairing!Less
    <3>2. /\ Pairing!Less(named[j], named[i])
             <=> Disc(j) < Disc(i) \/ (Disc(j) = Disc(i) /\ Track(j) < Track(i))
          /\ named[j] # named[i]
      BY <1>2, <1>3, <2>2 DEF Pairing!Less
    <3> QED
      BY <3>1, <3>2
  <2> QED
    BY <2>1, <2>2
<1> DEFINE Rank(keys, i) == Pairing!Cardinality({j \in DOMAIN keys : Before(keys, j, i)})
           Order(keys) == [k \in DOMAIN keys |-> CHOOSE i \in DOMAIN keys : Rank(keys, i) = k]
<1>5. \A i \in DOMAIN files : Rank(places, i) = Rank(named, i)
  <2> SUFFICES ASSUME NEW i \in DOMAIN files
               PROVE  Rank(places, i) = Rank(named, i)
    OBVIOUS
  <2>1. {j \in DOMAIN places : Before(places, j, i)} = {j \in DOMAIN named : Before(named, j, i)}
    BY <1>1, <1>4
  <2> QED
    BY <2>1
<1>6. /\ Pairing!OrderOf(places) = Order(places)
      /\ Pairing!OrderOf(named) = Order(named)
  BY DEF Pairing!OrderOf
<1> HIDE DEF Rank
<1>7. \A k : (CHOOSE i \in DOMAIN files : Rank(places, i) = k)
             = CHOOSE i \in DOMAIN files : Rank(named, i) = k
  <2> SUFFICES ASSUME NEW k
               PROVE  (CHOOSE i \in DOMAIN files : Rank(places, i) = k)
                      = CHOOSE i \in DOMAIN files : Rank(named, i) = k
    OBVIOUS
  <2>1. \A i : (i \in DOMAIN files /\ Rank(places, i) = k)
               <=> (i \in DOMAIN files /\ Rank(named, i) = k)
    BY <1>5
  <2> QED
    BY <2>1
<1>8. Order(places) = Order(named)
  BY <1>1, <1>7
<1> QED
  BY <1>6, <1>8 DEF Pairing!ItemOrder, places, named

\* Lengths of which none is 0 are the same for a beets item.
LEMMA ItemLengthsSame ==
  ASSUME NEW n \in Nat, NEW list \in [1 .. n -> AnyFile] \cup [1 .. n -> AnyRow],
         Pairing!NoLengthZero(list)
  PROVE  Pairing!WithItemLengths(list) = list
<1>1. \A i \in 1 .. n : Pairing!ItemLength(list[i].length) = list[i].length
  BY DEF Pairing!ItemLength, Pairing!NoLengthZero
<1>2. \A i \in 1 .. n : [list[i] EXCEPT !.length = list[i].length] = list[i]
  <2> SUFFICES ASSUME NEW i \in 1 .. n
               PROVE  [list[i] EXCEPT !.length = list[i].length] = list[i]
    OBVIOUS
  <2>1. CASE list[i] \in AnyFile
    BY <2>1 DEF AnyFile
  <2>2. CASE list[i] \in AnyRow
    BY <2>2 DEF AnyRow
  <2> QED
    BY <2>1, <2>2
<1> DEFINE New(i) == [list[i] EXCEPT !.length = Pairing!ItemLength(list[i].length)]
<1>3. \A i \in 1 .. n : New(i) = list[i]
  BY <1>1, <1>2
<1>4. Pairing!WithItemLengths(list) = [i \in 1 .. n |-> New(i)]
  BY DEF Pairing!WithItemLengths
<1>5. list = [i \in 1 .. n |-> list[i]]
  OBVIOUS
<1> HIDE DEF New
<1> QED
  BY <1>3, <1>4, <1>5

\* A manual candidate and an automatic one with the same tracks pair the same files,
\* for every album whose tags are numbered and whose lengths are not 0, whatever else
\* the files and the tracks are.
THEOREM PairingsCorrect ==
  ASSUME NEW files \in Seq(AnyFile), NEW rows \in Seq(AnyRow), NEW large \in BOOLEAN
  PROVE  Pairing!PairingsAgree(files, rows, large)
<1> DEFINE n == Len(files)
<1>0. n \in Nat /\ files \in [1 .. n -> AnyFile] /\ DOMAIN files = 1 .. n
  OBVIOUS
<1> HIDE DEF n
<1> SUFFICES ASSUME Pairing!Tagged(files), ~Pairing!GoesBack(files)
             PROVE  /\ Pairing!LocalsAreOrdered(files) <=> Pairing!ItemsAreOrdered(files)
                    /\ Pairing!LocalsAreOrdered(files) /\ Pairing!NoLengthZero(files)
                       /\ Pairing!NoLengthZero(rows) =>
                         Pairing!PairLocalTracks(files, rows, large, Pairing!Failed, FALSE)
                         = Pairing!AssignItems(files, rows, large, Pairing!Failed, FALSE)
  BY DEF Pairing!PairingsAgree
<1>1. \A i \in DOMAIN files : /\ Pairing!Number(files[i]) = Pairing!ItemNumber(files[i])
                              /\ Pairing!Number(files[i]) # -1
                              /\ Pairing!ItemNumber(files[i]) # 0
  BY DEF Pairing!Tagged, Pairing!Number, Pairing!ItemNumber, Pairing!OrZero
<1>2. Pairing!Places(files) = Pairing!ItemPlaces(files) /\ Pairing!Numbered(files)
  BY <1>1 DEF Pairing!Places, Pairing!ItemPlaces, Pairing!Numbered
<1>3. Pairing!OnePerKey(Pairing!Numbers(files))
      <=> Pairing!OnePerKey([i \in DOMAIN files |-> Pairing!ItemNumber(files[i])])
  BY <1>1 DEF Pairing!OnePerKey, Pairing!Numbers
<1>4. Pairing!LocalsAreOrdered(files) <=> Pairing!ItemsAreOrdered(files)
  BY <1>1, <1>2, <1>3 DEF Pairing!LocalsAreOrdered, Pairing!ItemsAreOrdered
<1>5. Pairing!OnePerKey(Pairing!Numbers(files)) => Pairing!OnePerKey(Pairing!Places(files))
  BY DEF Pairing!OnePerKey, Pairing!Numbers, Pairing!Places
<1>6. ASSUME Pairing!LocalsAreOrdered(files)
      PROVE  Pairing!PlaybackOrder(files) = Pairing!ItemOrder(files)
  <2>1. Pairing!PlaybackOrder(files) = Pairing!OrderOf(Pairing!Places(files))
    BY <1>2, <1>6 DEF Pairing!PlaybackOrder, Pairing!LocalsAreOrdered, Pairing!GoesBack
  <2>2. Pairing!OnePerKey(Pairing!ItemPlaces(files))
    BY <1>2, <1>5, <1>6 DEF Pairing!LocalsAreOrdered
  <2> QED
    BY <1>0, <1>2, <2>1, <2>2, NamesDecideNothing
<1>7. /\ Pairing!NoLengthZero(files) => Pairing!WithItemLengths(files) = files
      /\ Pairing!NoLengthZero(rows) => Pairing!WithItemLengths(rows) = rows
  <2>1. rows \in [1 .. Len(rows) -> AnyRow] /\ Len(rows) \in Nat
    OBVIOUS
  <2> QED
    BY <1>0, <2>1, ItemLengthsSame
<1> QED
  BY <1>4, <1>6, <1>7 DEF Pairing!PairLocalTracks, Pairing!AssignItems

---------------------------------------------------------------------------
(***************************************************************************)
(* The questions of the run                                                *)
(***************************************************************************)

\* A function of the first n numbers is a list.
LEMMA FunctionsAreLists ==
  ASSUME NEW S, NEW n \in Nat, NEW f \in [1 .. n -> S]
  PROVE  f \in Seq(S) /\ Len(f) = n /\ DOMAIN f = 1 .. n
  OBVIOUS

\* The items and the rules of the run have the form the theorem asks for.
LEMMA RuleQuestions ==
  ASSUME NEW q \in RuleInputs
  PROVE  Tags!PreviewStable(q.items, q.rules)
<1> DEFINE Like == AnyItem(1 .. 2, {"file"}, RuleTags, 0 .. 2)
<1>1. /\ q.items \in [1 .. 2 -> RuleItem] /\ q.items[1].id # q.items[2].id
      /\ q.rules \in UNION {[1 .. n -> Rules] : n \in 1 .. 2}
  BY DEF RuleInputs
<1>2. ASSUME NEW x \in RuleItem PROVE x \in Like
  <2>1. PICK i \in 1 .. 2, n \in 1 .. 2, v \in 0 .. 1 :
          x = [id |-> i, kind |-> "file", dir |-> 1, name |-> n,
               tags |-> [t \in RuleTags |-> IF t = "title" THEN v ELSE 2]]
    BY DEF RuleItem
  <2>2. [t \in RuleTags |-> IF t = "title" THEN v ELSE 2] \in [RuleTags -> 0 .. 2]
    OBVIOUS
  <2> QED
    BY <2>1, <2>2 DEF AnyItem
<1>3. q.items \in Seq(Like)
  <2>1. q.items \in [1 .. 2 -> Like]
    BY <1>1, <1>2
  <2> HIDE DEF Like
  <2> QED
    BY <2>1, FunctionsAreLists
<1>4. OneEachId(q.items)
  BY <1>1 DEF OneEachId
<1>5. PICK n \in 1 .. 2 : q.rules \in [1 .. n -> Rules]
  BY <1>1
<1>6. q.rules \in Seq(Rules) /\ DOMAIN q.rules = 1 .. n
  BY <1>5
<1>7. ASSUME NEW r \in Rules PROVE ValidRule(r, RuleTags)
  BY DEF Rules, ValidRule, RuleTags
<1>8. \A m \in DOMAIN q.rules : ValidRule(q.rules[m], RuleTags)
  BY <1>5, <1>6, <1>7
<1> HIDE DEF Like
<1> QED
  <2>1. q.items \in Seq(AnyItem(1 .. 2, {"file"}, RuleTags, 0 .. 2))
    BY <1>3 DEF Like
  <2> QED
    BY <2>1, <1>4, <1>6, <1>8, PreviewCorrect

\* Three items of which each has its id, and numbers from 1 or 3.
LEMMA NumberQuestions ==
  ASSUME NEW q \in NumberInputs
  PROVE  Tags!SequenceRanks(q.items, q.rule)
<1>1. /\ q.items \in [1 .. 3 -> NumberItem]
      /\ \A a, b \in 1 .. 3 : a # b => q.items[a].id # q.items[b].id
      /\ q.rule.start \in {1, 3}
  BY DEF NumberInputs
<1>2. ASSUME NEW x \in NumberItem PROVE x.dir \in Int /\ x.name \in Int
  BY DEF NumberItem
<1>3. q.items \in Seq(NumberItem) /\ DOMAIN q.items = 1 .. 3 /\ Len(q.items) = 3
  BY <1>1, FunctionsAreLists
<1>4. Sortable(q.items, Len(q.items))
  BY <1>1, <1>2, <1>3 DEF Sortable
<1>5. q.rule.start \in Int
  BY <1>1
<1> QED
  BY <1>3, <1>4, <1>5, SequenceCorrect

\* Texts of one part or two.
LEMMA TrackQuestions ==
  ASSUME NEW q \in TrackInputs
  PROVE  Files!TrackNumbersAgree(q.text, q.old)
<1>1. /\ q.text \in UNION {[1 .. n -> TextPart] : n \in 1 .. 2} /\ q.old \in {1, Files!Absent}
  BY DEF TrackInputs
<1>2. PICK n \in 1 .. 2 : q.text \in [1 .. n -> TextPart]
  BY <1>1
<1>3. TextPart \subseteq Nat \ {Files!Absent}
  BY DEF TextPart, Files!Blank, Files!Junk, Files!Absent
<1>4. q.text \in [1 .. n -> Nat \ {Files!Absent}]
  BY <1>2, <1>3
<1>5. q.old \in Nat
  BY <1>1 DEF Files!Absent
<1> QED
  BY <1>4, <1>5, TrackNumbersCorrect

\* A file that has the three keys of the album artist.
LEMMA AliasQuestions ==
  ASSUME NEW q \in AliasInputs
  PROVE  Files!AliasReadsBack(q.comments, q.value)
<1>1. DOMAIN q.comments = AliasKey
  BY DEF AliasInputs
<1>2. \A n \in 1 .. 3 : Files!AliasKeys[n] \in DOMAIN q.comments
  BY <1>1 DEF AliasKey
<1> QED
  BY <1>2, AliasCorrect

\* Lists of up to three lengths, each a number.
LEMMA AlignQuestions ==
  ASSUME NEW q \in AlignInputs
  PROVE  Pairing!AlignmentCheapest(q.files, q.rows)
<1>1. q.files \in LengthList /\ q.rows \in LengthList
  BY DEF AlignInputs
<1>2. ASSUME NEW s \in LengthList PROVE s \in Seq(Int)
  <2>1. PICK n \in 0 .. 3 : s \in [1 .. n -> {-1, 20, 90}]
    BY DEF LengthList
  <2>2. s \in [1 .. n -> Int] /\ n \in Nat
    BY <2>1
  <2> QED
    BY <2>2
<1> QED
  BY <1>1, <1>2, AlignmentCorrect

\* Three files, and the rows of a release with one disc or with two.
LEMMA PairQuestions ==
  ASSUME NEW q \in PairInputs, NEW large \in BOOLEAN, NEW fails \in BOOLEAN
  PROVE  /\ Pairing!PairingsAgree(q.files, q.rows, large)
         /\ Pairing!ChaptersInOrder(q.files, q.rows, large, fails)
<1>1. /\ q.rows \in Release
      /\ \E a \in SomeFile(1), b \in SomeFile(2), c \in SomeFile(3) : q.files = <<a, b, c>>
  BY DEF PairInputs
<1>2. ASSUME NEW i \in 1 .. 3, NEW f \in SomeFile(i) PROVE f \in AnyFile
  <2>1. PICK n \in SomeNumber, d \in {-1, 1, 2}, l \in {25 * i} \cup (IF i = 1 THEN {0} ELSE {}) :
          f = [tag |-> n.tag, prefix |-> n.prefix, disc |-> d,
               name |-> (i % 3) + 1, length |-> l]
    BY DEF SomeFile
  <2>2. n.tag \in Int /\ n.prefix \in Int
    BY DEF SomeNumber
  <2>3. (i % 3) + 1 \in Int /\ l \in Int
    OBVIOUS
  <2> QED
    BY <2>1, <2>2, <2>3 DEF AnyFile
<1>3. q.files \in Seq(AnyFile) /\ DOMAIN q.files = 1 .. 3
  <2>1. PICK a \in AnyFile, b \in AnyFile, c \in AnyFile : q.files = <<a, b, c>>
    BY <1>1, <1>2
  <2> QED
    BY <2>1
<1>4. ASSUME NEW i \in Int, NEW d \in Int, NEW k \in Int, NEW l \in Int
      PROVE  /\ SomeRow(i, d, k, l) \in AnyRow /\ SomeRow(i, d, k, l).index = i
             /\ SomeRow(i, d, k, l).medium = d /\ SomeRow(i, d, k, l).place = k
  BY DEF SomeRow, AnyRow
<1>5. q.rows \in Seq(AnyRow) /\ AsBuilt(q.rows)
  <2> DEFINE r1 == SomeRow(1, 1, 1, 25)
             r2 == SomeRow(2, 1, 2, 50)
             r3 == SomeRow(1, 2, 1, 75)
  <2>1. ASSUME NEW l \in Int, q.rows = OneDisc(l)
        PROVE  q.rows \in Seq(AnyRow) /\ AsBuilt(q.rows)
    <3>1. \A i \in 1 .. 4 : (IF i = 1 THEN l ELSE 25 * i) \in Int
      OBVIOUS
    <3>2. \A i \in 1 .. 4 : q.rows[i] \in AnyRow /\ q.rows[i].medium = -1
      <4> DEFINE L(i) == IF i = 1 THEN l ELSE 25 * i
      <4>1. \A i \in 1 .. 4 : q.rows[i] = SomeRow(i, -1, -1, L(i))
        BY <2>1 DEF OneDisc
      <4>2. \A i \in 1 .. 4 : i \in Int /\ L(i) \in Int
        BY <3>1
      <4>3. -1 \in Int
        OBVIOUS
      <4> HIDE DEF L
      <4> QED
        <5> SUFFICES ASSUME NEW i \in 1 .. 4
                     PROVE  q.rows[i] \in AnyRow /\ q.rows[i].medium = -1
          OBVIOUS
        <5> DEFINE m == L(i)
                   none == -1
        <5>1. i \in Int /\ m \in Int /\ none \in Int
          BY <4>2, <4>3
        <5>2. q.rows[i] = SomeRow(i, none, none, m)
          BY <4>1
        <5> HIDE DEF m, none
        <5>3. SomeRow(i, none, none, m) \in AnyRow /\ SomeRow(i, none, none, m).medium = none
          BY <1>4, <5>1
        <5> QED
          BY <5>2, <5>3 DEF none
    <3>3. q.rows \in [1 .. 4 -> AnyRow]
      BY <2>1, <3>2 DEF OneDisc
    <3> QED
      BY <3>2, <3>3, FunctionsAreLists DEF AsBuilt
  <2>2. CASE q.rows = <<r1, r2, r3>>
    <3>1. /\ r1 \in AnyRow /\ r1.index = 1 /\ r1.medium = 1 /\ r1.place = 1
          /\ r2 \in AnyRow /\ r2.index = 2 /\ r2.medium = 1 /\ r2.place = 2
          /\ r3 \in AnyRow /\ r3.index = 1 /\ r3.medium = 2 /\ r3.place = 1
      BY <1>4
    <3> HIDE DEF r1, r2, r3
    <3>2. /\ q.rows \in Seq(AnyRow) /\ DOMAIN q.rows = 1 .. 3
          /\ q.rows[1] = r1 /\ q.rows[2] = r2 /\ q.rows[3] = r3
      BY <2>2, <3>1
    <3>3. \A r \in 1 .. 3 : q.rows[r].medium # -1 /\ q.rows[r].index = q.rows[r].place
      BY <3>1, <3>2
    <3>4. \A r, s \in 1 .. 3 : r < s =>
            \/ q.rows[r].medium < q.rows[s].medium
            \/ q.rows[r].medium = q.rows[s].medium /\ q.rows[r].place < q.rows[s].place
      <4>1. \A r, s \in 1 .. 3 : r < s => <<r, s>> \in {<<1, 2>>, <<1, 3>>, <<2, 3>>}
        OBVIOUS
      <4> QED
        BY <3>1, <3>2, <4>1
    <3> QED
      BY <3>2, <3>3, <3>4 DEF AsBuilt
  <2> QED
    BY <1>1, <2>1, <2>2 DEF Release
<1>6. Pairing!PairingsAgree(q.files, q.rows, large)
  BY <1>3, <1>5, PairingsCorrect
<1>7. Pairing!ChaptersInOrder(q.files, q.rows, large, fails)
  BY <1>3, <1>5, ChaptersCorrect
<1> QED
  BY <1>6, <1>7

\* A question once put stays the one it was.
AskInv == part = "ask" => v1 \in Inputs

\* So it does in every state.
LEMMA AskInvariant == RecordsSpec => []AskInv
<1>1. RecordsInit => AskInv
  BY DEF RecordsInit, AskInv
<1>2. AskInv /\ [RecordsNext]_<<part, Slots, vars>> => AskInv'
  <2> SUFFICES ASSUME AskInv, [RecordsNext]_<<part, Slots, vars>>, part' = "ask"
               PROVE  v1' \in Inputs
    BY DEF AskInv
  <2>1. CASE RecordsNext
    <3>1. part = "ask" /\ Ask
      BY <2>1 DEF RecordsNext
    <3> QED
      BY <3>1 DEF Ask, AskInv
  <2>2. CASE UNCHANGED <<part, Slots, vars>>
    BY <2>2 DEF Slots, AskInv
  <2> QED
    BY <2>1, <2>2
<1> QED
  BY <1>1, <1>2, PTL DEF RecordsSpec

\* Transformations and tag writers: a preview shows what the update leaves, a sequence
\* numbers the files in the order of their names, track numbers and aliases mean the same
\* wherever they are written.
THEOREM TagsCorrect == RecordsSpec => []TagsFaithful
<1>1. AskInv => TagsFaithful
  <2> SUFFICES ASSUME part = "ask", v1 \in Inputs PROVE TagsFaithful
    BY DEF AskInv, TagsFaithful
  <2>1. CASE v1 \in RuleInputs
    <3>1. v1.alg = "rules"
      BY <2>1 DEF RuleInputs
    <3> QED
      BY <2>1, <3>1, RuleQuestions DEF TagsFaithful
  <2>2. CASE v1 \in NumberInputs
    <3>1. v1.alg = "numbers"
      BY <2>2 DEF NumberInputs
    <3> QED
      BY <2>2, <3>1, NumberQuestions DEF TagsFaithful
  <2>3. CASE v1 \in TrackInputs
    <3>1. v1.alg = "track"
      BY <2>3 DEF TrackInputs
    <3> QED
      BY <2>3, <3>1, TrackQuestions DEF TagsFaithful
  <2>4. CASE v1 \in AliasInputs
    <3>1. v1.alg = "alias"
      BY <2>4 DEF AliasInputs
    <3> QED
      BY <2>4, <3>1, AliasQuestions DEF TagsFaithful
  <2>5. CASE v1 \in AlignInputs \cup PairInputs
    <3>1. v1.alg \in {"align", "pair"}
      BY <2>5 DEF AlignInputs, PairInputs
    <3> QED
      BY <3>1 DEF TagsFaithful
  <2> QED
    BY <2>1, <2>2, <2>3, <2>4, <2>5 DEF Inputs
<1> QED
  BY <1>1, AskInvariant, PTL

\* Track pairing: lengths are aligned at the least cost, a candidate by link pairs the files
\* of a tagged album as one of an analysis does, and chapters keep their order.
THEOREM PairingCorrect == RecordsSpec => []PairingFaithful
<1>1. AskInv => PairingFaithful
  <2> SUFFICES ASSUME part = "ask", v1 \in Inputs PROVE PairingFaithful
    BY DEF AskInv, PairingFaithful
  <2>1. CASE v1 \in AlignInputs
    <3>1. v1.alg = "align"
      BY <2>1 DEF AlignInputs
    <3> QED
      BY <2>1, <3>1, AlignQuestions DEF PairingFaithful
  <2>2. CASE v1 \in PairInputs
    <3>1. v1.alg = "pair"
      BY <2>2 DEF PairInputs
    <3> QED
      BY <2>2, <3>1, PairQuestions DEF PairingFaithful
  <2>3. CASE v1 \in RuleInputs \cup NumberInputs \cup TrackInputs \cup AliasInputs
    <3>1. v1.alg \in {"rules", "numbers", "track", "alias"}
      BY <2>3 DEF RuleInputs, NumberInputs, TrackInputs, AliasInputs
    <3> QED
      BY <3>1 DEF PairingFaithful
  <2> QED
    BY <2>1, <2>2, <2>3 DEF Inputs
<1> QED
  BY <1>1, AskInvariant, PTL
===============================================================================
