------------------------- MODULE FiniteSums_proofs -------------------------
(***************************************************************************)
(* Sums over finite sets, as MapThenSumSet of FiniteSetsExt defines them:  *)
(* they exist, do not depend on the order of adding, and follow a change   *)
(* of one summand.  The induction is over the strict subsets of a finite   *)
(* set, which are well-founded.                                            *)
(***************************************************************************)
EXTENDS FiniteSetsExt, FiniteSetTheorems, WellFoundedInduction, TLAPS

\* The sum of f[x] for the x in S.
SumOver(f, S) == MapThenSumSet(LAMBDA x : f[x], S)

\* The function on the sets of D that adds up f, one chosen element at a time.
Adds(it, f, D) ==
    it = [s \in D |-> IF s = {} THEN 0
                      ELSE LET x == CHOOSE x \in s : TRUE IN f[x] + it[s \ {x}]]

\* Induction over the subsets of a finite set, with the claim given as the set
\* Q of the subsets that it holds of.
LEMMA SubsetInduction ==
    ASSUME NEW S, IsFiniteSet(S), NEW Q \in SUBSET (SUBSET S),
           \A T \in SUBSET S : (\A x \in T : T \ {x} \in Q) => T \in Q
    PROVE  Q = SUBSET S
  <1>1. SUFFICES ASSUME (SUBSET S) \ Q # {} PROVE FALSE
    OBVIOUS
  <1> DEFINE X == (SUBSET S) \ Q
             R == StrictSubsetOrdering(S)
             W == SUBSET S
  <1>2. FiniteSubsetsOf(S) = SUBSET S
    BY FS_FiniteSubsetsOfFinite
  <1>3. IsWellFoundedOn(R, W)
    BY <1>2, FS_StrictSubsetOrderingWellFounded
  <1>a. X \subseteq W /\ X # {}
    BY <1>1
  <1>4. \E T \in X : \A U \in X : ~(<<U, T>> \in R)
    <2> HIDE DEF X, R, W
    <2>1. QED BY <1>3, <1>a, WFMin
  <1>5. PICK T \in X : \A U \in X : ~(<<U, T>> \in R)
    BY <1>4
  <1>6. ASSUME NEW x \in T PROVE T \ {x} \in Q
    <2>1. <<T \ {x}, T>> \in R
      BY <1>5, <1>6 DEF StrictSubsetOrdering
    <2>2. QED
      BY <1>5, <2>1
  <1>7. QED
    BY <1>5, <1>6

\* The recursive function that MapThenSumSet chooses exists.
LEMMA AddsExists ==
    ASSUME NEW S, IsFiniteSet(S), NEW f
    PROVE  \E it : Adds(it, f, SUBSET S)
  <1> DEFINE D(n) == {s \in SUBSET S : Cardinality(s) <= n}
             Q == {T \in SUBSET S : \E g : Adds(g, f, D(Cardinality(T)))}
  <1>a. \A T \in SUBSET S : IsFiniteSet(T) /\ Cardinality(T) \in Nat
                               /\ Cardinality(T) <= Cardinality(S)
    BY FS_Subset, FS_CardinalityType
  <1>b. \A T \in SUBSET S : \A x \in T : Cardinality(T \ {x}) = Cardinality(T) - 1
    BY <1>a, FS_RemoveElement
  <1>1. ASSUME NEW T \in SUBSET S, \A x \in T : T \ {x} \in Q
        PROVE  T \in Q
    <2>1. CASE T = {}
      <3> DEFINE g == [s \in D(0) |-> 0]
      <3>1. D(0) = {{}}
        BY <1>a, FS_EmptySet
      <3>2. Adds(g, f, D(0))
        BY <3>1 DEF Adds
      <3>3. QED
        BY <2>1, <3>2, FS_EmptySet
    <2>2. CASE T # {}
      <3>1. PICK y : y \in T
        BY <2>2
      <3> DEFINE n == Cardinality(T)
      <3>2. n \in Nat /\ Cardinality(T \ {y}) = n - 1
        BY <3>1, <1>a, <1>b
      <3>3. PICK g : Adds(g, f, D(n - 1))
        BY <3>1, <3>2, <1>1
      <3> DEFINE Step(k, s) == IF s = {} THEN 0
                               ELSE LET x == CHOOSE x \in s : TRUE IN f[x] + k[s \ {x}]
                 h == [s \in D(n) |-> Step(g, s)]
      <3>4. ASSUME NEW s \in D(n) PROVE Step(g, s) = Step(h, s)
        <4>1. CASE s = {}
          BY <4>1
        <4>2. CASE s # {}
          <5> DEFINE x == CHOOSE x \in s : TRUE
          <5>1. x \in s
            BY <4>2
          <5>2. s \ {x} \in D(n - 1) /\ s \ {x} \in D(n)
            <6>1. Cardinality(s \ {x}) = Cardinality(s) - 1
              BY <5>1, <1>b
            <6>2. Cardinality(s) \in Nat /\ Cardinality(s) <= n
              BY <1>a
            <6>3. s \ {x} \in SUBSET S
              OBVIOUS
            <6> HIDE DEF x, n
            <6>4. QED BY <6>1, <6>2, <6>3, <3>2
          <5>3. g[s \ {x}] = h[s \ {x}]
            <6> HIDE DEF x
            <6>1. QED BY <5>2, <3>3 DEF Adds
          <5>4. QED
            BY <4>2, <5>3
        <4>3. QED
          BY <4>1, <4>2
      <3>5. h = [s \in D(n) |-> Step(h, s)]
        <4>1. \A s \in D(n) : Step(g, s) = Step(h, s)
          BY <3>4
        <4>2. [s \in D(n) |-> Step(g, s)] = [s \in D(n) |-> Step(h, s)]
          <5> HIDE DEF h, Step, D
          <5>1. QED BY <4>1
        <4>3. QED
          BY <4>2
      <3>6. Adds(h, f, D(n))
        BY <3>5 DEF Adds
      <3>7. QED
        BY <3>6
    <2>3. QED
      BY <2>1, <2>2
  <1>2. Q = SUBSET S
    <2>1. \A T \in SUBSET S : (\A x \in T : T \ {x} \in Q) => T \in Q
      BY <1>1
    <2>2. Q \in SUBSET (SUBSET S)
      OBVIOUS
    <2> HIDE DEF Q
    <2>3. QED
      BY <2>1, <2>2, SubsetInduction
  <1>3. \E g : Adds(g, f, D(Cardinality(S)))
    BY <1>2
  <1>4. D(Cardinality(S)) = SUBSET S
    BY <1>a
  <1>5. QED
    BY <1>3, <1>4

\* The sum is what that function, defined on all subsets, gives the whole set.
LEMMA SumUnfolds ==
    ASSUME NEW S, IsFiniteSet(S), NEW f
    PROVE  \E it : Adds(it, f, SUBSET S) /\ SumOver(f, S) = it[S]
  <1> DEFINE it == CHOOSE it : Adds(it, f, SUBSET S)
  <1>1. Adds(it, f, SUBSET S)
    BY AddsExists
  <1>2. SumOver(f, S) = it[S]
    BY DEF SumOver, MapThenSumSet, MapThenFoldSet, Adds
  <1>3. QED
    <2> HIDE DEF it
    <2>1. QED BY <1>1, <1>2

\* Of nothing the sum is 0.
LEMMA SumEmpty == \A f : SumOver(f, {}) = 0
  <1>1. SUFFICES ASSUME NEW f PROVE SumOver(f, {}) = 0
    OBVIOUS
  <1>2. PICK it : Adds(it, f, SUBSET {}) /\ SumOver(f, {}) = it[{}]
    BY SumUnfolds, FS_EmptySet
  <1>3. QED
    BY <1>2 DEF Adds

\* Two such functions agree wherever their summands do.
LEMMA AddsAgrees ==
    ASSUME NEW S, IsFiniteSet(S), NEW f, NEW it, Adds(it, f, SUBSET S),
           NEW g, NEW jt, Adds(jt, g, SUBSET S),
           NEW T \in SUBSET S, \A x \in T : f[x] = g[x]
    PROVE  it[T] = jt[T]
  <1> DEFINE Q == {U \in SUBSET T : it[U] = jt[U]}
  <1>1. ASSUME NEW U \in SUBSET T, \A x \in U : U \ {x} \in Q
        PROVE  U \in Q
    <2>1. CASE U = {}
      BY <2>1 DEF Adds
    <2>2. CASE U # {}
      <3> DEFINE x == CHOOSE x \in U : TRUE
      <3>1. x \in U
        BY <2>2
      <3>2. it[U] = f[x] + it[U \ {x}] /\ jt[U] = g[x] + jt[U \ {x}]
        BY <2>2 DEF Adds
      <3>3. it[U \ {x}] = jt[U \ {x}] /\ f[x] = g[x]
        BY <3>1, <1>1
      <3>4. QED
        <4> HIDE DEF x
        <4>1. QED BY <3>2, <3>3
    <2>3. QED
      BY <2>1, <2>2
  <1>2. Q = SUBSET T
    <2>1. \A U \in SUBSET T : (\A x \in U : U \ {x} \in Q) => U \in Q
      BY <1>1
    <2>2. Q \in SUBSET (SUBSET T) /\ IsFiniteSet(T)
      BY FS_Subset
    <2> HIDE DEF Q
    <2>3. QED
      BY <2>1, <2>2, SubsetInduction
  <1>3. QED
    BY <1>2

\* The sum only depends on its summands.
LEMMA SumAgrees ==
    ASSUME NEW S, IsFiniteSet(S), NEW f, NEW g, \A x \in S : f[x] = g[x]
    PROVE  SumOver(f, S) = SumOver(g, S)
  <1>1. PICK it : Adds(it, f, SUBSET S) /\ SumOver(f, S) = it[S]
    BY SumUnfolds
  <1>2. PICK jt : Adds(jt, g, SUBSET S) /\ SumOver(g, S) = jt[S]
    BY SumUnfolds
  <1>3. QED
    BY <1>1, <1>2, AddsAgrees

\* The function of a set also gives the sum of each of its subsets.
LEMMA AddsRestricts ==
    ASSUME NEW S, IsFiniteSet(S), NEW T \in SUBSET S, NEW f, NEW it, Adds(it, f, SUBSET S)
    PROVE  it[T] = SumOver(f, T)
  <1>1. IsFiniteSet(T)
    BY FS_Subset
  <1>2. PICK jt : Adds(jt, f, SUBSET T) /\ SumOver(f, T) = jt[T]
    BY <1>1, SumUnfolds
  <1> DEFINE kt == [U \in SUBSET T |-> it[U]]
             Step(k, s) == IF s = {} THEN 0
                           ELSE LET x == CHOOSE x \in s : TRUE IN f[x] + k[s \ {x}]
  <1>3. ASSUME NEW s \in SUBSET T PROVE kt[s] = Step(kt, s)
    <2>1. it[s] = Step(it, s)
      BY DEF Adds
    <2>2. CASE s = {}
      BY <2>1, <2>2
    <2>3. CASE s # {}
      <3> DEFINE x == CHOOSE x \in s : TRUE
      <3>1. s \ {x} \in SUBSET T
        OBVIOUS
      <3>2. kt[s \ {x}] = it[s \ {x}]
        <4> HIDE DEF x
        <4>1. QED BY <3>1
      <3>3. QED
        BY <2>1, <2>3, <3>2
    <2>4. QED
      BY <2>2, <2>3
  <1>4. Adds(kt, f, SUBSET T)
    BY <1>3 DEF Adds
  <1>5. kt[T] = jt[T]
    <2> HIDE DEF kt
    <2>1. QED BY <1>1, <1>2, <1>4, AddsAgrees
  <1>6. QED
    BY <1>2, <1>5

\* The sum is the chosen summand and the sum of the rest.
LEMMA SumStep ==
    ASSUME NEW S, IsFiniteSet(S), S # {}, NEW f
    PROVE  LET x == CHOOSE x \in S : TRUE
           IN  x \in S /\ SumOver(f, S) = f[x] + SumOver(f, S \ {x})
  <1> DEFINE x == CHOOSE x \in S : TRUE
  <1>1. PICK it : Adds(it, f, SUBSET S) /\ SumOver(f, S) = it[S]
    BY SumUnfolds
  <1>2. it[S] = f[x] + it[S \ {x}]
    BY <1>1 DEF Adds
  <1>3. it[S \ {x}] = SumOver(f, S \ {x})
    <2> HIDE DEF x
    <2>1. QED BY <1>1, AddsRestricts
  <1>4. QED
    BY <1>1, <1>2, <1>3

\* Sums of integers are integers.
LEMMA SumType ==
    ASSUME NEW S, IsFiniteSet(S), NEW f, \A x \in S : f[x] \in Int
    PROVE  SumOver(f, S) \in Int
  <1> DEFINE Q == {U \in SUBSET S : SumOver(f, U) \in Int}
  <1>1. ASSUME NEW U \in SUBSET S, \A x \in U : U \ {x} \in Q
        PROVE  U \in Q
    <2>1. CASE U = {}
      BY <2>1, SumEmpty
    <2>2. CASE U # {}
      <3> DEFINE x == CHOOSE x \in U : TRUE
      <3>1. x \in U /\ SumOver(f, U) = f[x] + SumOver(f, U \ {x})
        BY <2>2, SumStep, FS_Subset
      <3> HIDE DEF x
      <3>2. QED
        BY <3>1, <1>1
    <2>3. QED
      BY <2>1, <2>2
  <1>2. Q = SUBSET S
    <2>1. \A U \in SUBSET S : (\A x \in U : U \ {x} \in Q) => U \in Q
      BY <1>1
    <2>2. Q \in SUBSET (SUBSET S)
      OBVIOUS
    <2> HIDE DEF Q
    <2>3. QED
      BY <2>1, <2>2, SubsetInduction
  <1>3. QED
    BY <1>2

\* Sums of natural numbers are natural numbers.
LEMMA SumNat ==
    ASSUME NEW S, IsFiniteSet(S), NEW f, \A x \in S : f[x] \in Nat
    PROVE  SumOver(f, S) \in Nat
  <1> DEFINE Q == {U \in SUBSET S : SumOver(f, U) \in Nat}
  <1>1. ASSUME NEW U \in SUBSET S, \A x \in U : U \ {x} \in Q
        PROVE  U \in Q
    <2>1. CASE U = {}
      BY <2>1, SumEmpty
    <2>2. CASE U # {}
      <3> DEFINE x == CHOOSE x \in U : TRUE
      <3>1. x \in U /\ SumOver(f, U) = f[x] + SumOver(f, U \ {x})
        BY <2>2, SumStep, FS_Subset
      <3> HIDE DEF x
      <3>2. QED
        BY <3>1, <1>1
    <2>3. QED
      BY <2>1, <2>2
  <1>2. Q = SUBSET S
    <2>1. \A U \in SUBSET S : (\A x \in U : U \ {x} \in Q) => U \in Q
      BY <1>1
    <2>2. Q \in SUBSET (SUBSET S)
      OBVIOUS
    <2> HIDE DEF Q
    <2>3. QED
      BY <2>1, <2>2, SubsetInduction
  <1>3. QED
    BY <1>2

\* Whichever summand is taken out: the order of adding does not matter.
LEMMA SumTakes ==
    ASSUME NEW S, IsFiniteSet(S), NEW f, \A x \in S : f[x] \in Int, NEW y \in S
    PROVE  SumOver(f, S) = f[y] + SumOver(f, S \ {y})
  <1> DEFINE Q == {U \in SUBSET S : \A z \in U : SumOver(f, U) = f[z] + SumOver(f, U \ {z})}
  <1>1. ASSUME NEW U \in SUBSET S, \A x \in U : U \ {x} \in Q
        PROVE  U \in Q
    <2>1. SUFFICES ASSUME NEW z \in U PROVE SumOver(f, U) = f[z] + SumOver(f, U \ {z})
      OBVIOUS
    <2> DEFINE x == CHOOSE x \in U : TRUE
    <2>2. x \in U /\ SumOver(f, U) = f[x] + SumOver(f, U \ {x})
      BY SumStep, FS_Subset
    <2> HIDE DEF x
    <2>3. CASE z = x
      BY <2>2, <2>3
    <2>4. CASE z # x
      <3> DEFINE V == (U \ {x}) \ {z}
      <3>1. SumOver(f, U \ {x}) = f[z] + SumOver(f, V)
        BY <1>1, <2>2, <2>4
      <3>2. SumOver(f, U \ {z}) = f[x] + SumOver(f, (U \ {z}) \ {x})
        BY <1>1, <2>2, <2>4
      <3>3. V = (U \ {z}) \ {x}
        OBVIOUS
      <3>4. SumOver(f, V) \in Int
        <4>1. V \in SUBSET S
          OBVIOUS
        <4> HIDE DEF V
        <4>2. QED BY <4>1, SumType, FS_Subset
      <3>5. f[x] \in Int /\ f[z] \in Int
        BY <2>2
      <3> HIDE DEF V
      <3>6. QED
        BY <2>2, <3>1, <3>2, <3>3, <3>4, <3>5
    <2>5. QED
      BY <2>3, <2>4
  <1>2. Q = SUBSET S
    <2>1. \A U \in SUBSET S : (\A x \in U : U \ {x} \in Q) => U \in Q
      BY <1>1
    <2>2. Q \in SUBSET (SUBSET S)
      OBVIOUS
    <2> HIDE DEF Q
    <2>3. QED
      BY <2>1, <2>2, SubsetInduction
  <1>3. QED
    BY <1>2

\* If one summand changes, the sum changes by as much.
LEMMA SumChanges ==
    ASSUME NEW S, IsFiniteSet(S), NEW f, NEW g, NEW y \in S,
           \A x \in S : f[x] \in Int /\ g[x] \in Int,
           \A x \in S \ {y} : g[x] = f[x]
    PROVE  SumOver(g, S) = SumOver(f, S) + g[y] - f[y]
  <1>1. SumOver(f, S) = f[y] + SumOver(f, S \ {y})
    BY SumTakes
  <1>2. SumOver(g, S) = g[y] + SumOver(g, S \ {y})
    BY SumTakes
  <1>3. IsFiniteSet(S \ {y})
    BY FS_Subset
  <1>4. SumOver(g, S \ {y}) = SumOver(f, S \ {y})
    BY <1>3, SumAgrees
  <1>5. SumOver(f, S \ {y}) \in Int
    BY <1>3, SumType
  <1>6. QED
    BY <1>1, <1>2, <1>4, <1>5

\* Of zeros the sum is 0.
LEMMA SumZero ==
    ASSUME NEW S, IsFiniteSet(S), NEW f, \A x \in S : f[x] = 0
    PROVE  SumOver(f, S) = 0
  <1> DEFINE Q == {U \in SUBSET S : SumOver(f, U) = 0}
  <1>1. ASSUME NEW U \in SUBSET S, \A x \in U : U \ {x} \in Q
        PROVE  U \in Q
    <2>1. CASE U = {}
      BY <2>1, SumEmpty
    <2>2. CASE U # {}
      <3> DEFINE x == CHOOSE x \in U : TRUE
      <3>1. x \in U /\ SumOver(f, U) = f[x] + SumOver(f, U \ {x})
        BY <2>2, SumStep, FS_Subset
      <3> HIDE DEF x
      <3>2. QED
        BY <3>1, <1>1
    <2>3. QED
      BY <2>1, <2>2
  <1>2. Q = SUBSET S
    <2>1. \A U \in SUBSET S : (\A x \in U : U \ {x} \in Q) => U \in Q
      BY <1>1
    <2>2. Q \in SUBSET (SUBSET S)
      OBVIOUS
    <2> HIDE DEF Q
    <2>3. QED
      BY <2>1, <2>2, SubsetInduction
  <1>3. QED
    BY <1>2

\* A sum over one place of each row is the sum of those places.
LEMMA SumOfPlace ==
    ASSUME NEW S, IsFiniteSet(S), NEW f, NEW k
    PROVE  MapThenSumSet(LAMBDA x : f[x][k], S) = SumOver([x \in S |-> f[x][k]], S)
  <1> DEFINE g == [x \in S |-> f[x][k]]
             P(it) == it = [s \in SUBSET S |->
                              IF s = {} THEN 0
                              ELSE LET x == CHOOSE x \in s : TRUE IN f[x][k] + it[s \ {x}]]
             pt == CHOOSE it : P(it)
  <1>1. ASSUME NEW it PROVE P(it) <=> Adds(it, g, SUBSET S)
    <2> DEFINE A(s) == IF s = {} THEN 0
                       ELSE LET x == CHOOSE x \in s : TRUE IN f[x][k] + it[s \ {x}]
               B(s) == IF s = {} THEN 0
                       ELSE LET x == CHOOSE x \in s : TRUE IN g[x] + it[s \ {x}]
    <2>1. ASSUME NEW s \in SUBSET S PROVE A(s) = B(s)
      <3>1. CASE s = {}
        BY <3>1
      <3>2. CASE s # {}
        <4> DEFINE x == CHOOSE x \in s : TRUE
        <4>1. x \in S
          BY <3>2
        <4>2. g[x] = f[x][k]
          <5> HIDE DEF x
          <5>1. QED BY <4>1
        <4>3. QED
          BY <3>2, <4>2
      <3>3. QED
        BY <3>1, <3>2
    <2>2. [s \in SUBSET S |-> A(s)] = [s \in SUBSET S |-> B(s)]
      <3> HIDE DEF A, B
      <3>1. QED BY <2>1
    <2>3. QED
      BY <2>2 DEF Adds
  <1>2. \E it : P(it)
    <2>1. PICK it : Adds(it, g, SUBSET S)
      BY AddsExists
    <2> HIDE DEF P, g
    <2>2. QED BY <2>1, <1>1
  <1>3. P(pt)
    <2> HIDE DEF P
    <2>1. QED BY <1>2
  <1>4. MapThenSumSet(LAMBDA x : f[x][k], S) = pt[S]
    BY DEF MapThenSumSet, MapThenFoldSet
  <1>5. PICK jt : Adds(jt, g, SUBSET S) /\ SumOver(g, S) = jt[S]
    BY SumUnfolds
  <1>6. pt[S] = jt[S]
    <2>1. Adds(pt, g, SUBSET S)
      <3> HIDE DEF P, g, pt
      <3>1. QED BY <1>1, <1>3
    <2> HIDE DEF g, pt
    <2>2. QED BY <2>1, <1>5, AddsAgrees
  <1>7. QED
    BY <1>4, <1>5, <1>6

\* The sum over two sets without a common element is that of their sums.
LEMMA SumDisjoint ==
    ASSUME NEW S, IsFiniteSet(S), NEW T, IsFiniteSet(T), S \cap T = {},
           NEW f, \A x \in S \cup T : f[x] \in Int
    PROVE  SumOver(f, S \cup T) = SumOver(f, S) + SumOver(f, T)
  <1> DEFINE Q == {U \in SUBSET T : SumOver(f, S \cup U) = SumOver(f, S) + SumOver(f, U)}
  <1>1. ASSUME NEW U \in SUBSET T, \A x \in U : U \ {x} \in Q
        PROVE  U \in Q
    <2>1. CASE U = {}
      <3>1. SumOver(f, S) \in Int /\ S \cup {} = S
        BY SumType
      <3>2. QED
        BY <2>1, <3>1, SumEmpty
    <2>2. CASE U # {}
      <3>1. PICK y \in U : TRUE
        BY <2>2
      <3>2. IsFiniteSet(U) /\ IsFiniteSet(S \cup U)
        BY FS_Subset, FS_Union
      <3>3. SumOver(f, U) = f[y] + SumOver(f, U \ {y})
        BY <3>1, <3>2, SumTakes
      <3>4. SumOver(f, S \cup U) = f[y] + SumOver(f, (S \cup U) \ {y})
        BY <3>1, <3>2, SumTakes
      <3>5. (S \cup U) \ {y} = S \cup (U \ {y})
        BY <3>1
      <3>6. SumOver(f, S \cup (U \ {y})) = SumOver(f, S) + SumOver(f, U \ {y})
        BY <1>1, <3>1
      <3>7. f[y] \in Int /\ SumOver(f, S) \in Int /\ SumOver(f, U \ {y}) \in Int
        <4>1. IsFiniteSet(U \ {y})
          BY <3>2, FS_Subset
        <4>2. QED
          BY <3>1, <4>1, SumType
      <3>8. SumOver(f, S \cup U) = f[y] + (SumOver(f, S) + SumOver(f, U \ {y}))
        BY <3>4, <3>5, <3>6
      <3>9. SumOver(f, S \cup U) = SumOver(f, S) + SumOver(f, U)
        BY <3>3, <3>7, <3>8
      <3>10. QED
        BY <3>9
    <2>3. QED
      BY <2>1, <2>2
  <1>2. Q = SUBSET T
    <2>1. \A U \in SUBSET T : (\A x \in U : U \ {x} \in Q) => U \in Q
      BY <1>1
    <2>2. Q \in SUBSET (SUBSET T)
      OBVIOUS
    <2> HIDE DEF Q
    <2>3. QED
      BY <2>1, <2>2, SubsetInduction
  <1>3. QED
    BY <1>2

\* Of naturals the sum over a part is at most that over the whole.
LEMMA SumMonotone ==
    ASSUME NEW S, IsFiniteSet(S), NEW T \in SUBSET S, NEW f, \A x \in S : f[x] \in Nat
    PROVE  SumOver(f, T) <= SumOver(f, S)
  <1>1. IsFiniteSet(T) /\ IsFiniteSet(S \ T) /\ T \cap (S \ T) = {} /\ T \cup (S \ T) = S
    BY FS_Subset
  <1>2. SumOver(f, S) = SumOver(f, T) + SumOver(f, S \ T)
    <2>1. SumOver(f, T \cup (S \ T)) = SumOver(f, T) + SumOver(f, S \ T)
      BY <1>1, SumDisjoint
    <2>2. QED
      BY <1>1, <2>1
  <1>3. SumOver(f, T) \in Nat /\ SumOver(f, S \ T) \in Nat
    BY <1>1, SumNat
  <1>4. QED
    BY <1>2, <1>3

\* The sum is that of the sums of its groups, h[x] being the group of x.
LEMMA SumByGroup ==
    ASSUME NEW S, IsFiniteSet(S), NEW O, IsFiniteSet(O), NEW f, NEW g, NEW h, NEW part,
           \A x \in S : f[x] \in Int /\ h[x] \in O,
           \A o \in O : part[o] \in SUBSET S /\ \A x \in S : x \in part[o] <=> h[x] = o,
           \A o \in O : g[o] = SumOver(f, part[o])
    PROVE  SumOver(g, O) = SumOver(f, S)
  <1> DEFINE Of(U) == {x \in S : h[x] \in U}
             Q == {U \in SUBSET O : SumOver(g, U) = SumOver(f, Of(U))}
  <1>0. \A U \in SUBSET S : IsFiniteSet(U) /\ SumOver(f, U) \in Int
    <2> SUFFICES ASSUME NEW U \in SUBSET S PROVE IsFiniteSet(U) /\ SumOver(f, U) \in Int
      OBVIOUS
    <2>1. IsFiniteSet(U)
      BY FS_Subset
    <2>2. QED
      BY <2>1, SumType
  <1>1. ASSUME NEW U \in SUBSET O, \A x \in U : U \ {x} \in Q
        PROVE  U \in Q
    <2>1. CASE U = {}
      <3>1. Of(U) = {}
        BY <2>1
      <3> HIDE DEF Of
      <3>2. QED
        BY <2>1, <3>1, SumEmpty
    <2>2. CASE U # {}
      <3>1. PICK o \in U : TRUE
        BY <2>2
      <3>2. IsFiniteSet(U) /\ \A u \in U : g[u] \in Int
        BY <1>0, FS_Subset
      <3>3. SumOver(g, U) = g[o] + SumOver(g, U \ {o})
        BY <3>1, <3>2, SumTakes
      <3> DEFINE A == part[o]
                 B == Of(U \ {o})
      <3>4. Of(U) = A \cup B /\ A \cap B = {} /\ A \in SUBSET S /\ B \in SUBSET S
        BY <3>1
      <3>5. g[o] = SumOver(f, A)
        BY <3>1
      <3>6. SumOver(g, U \ {o}) = SumOver(f, B)
        BY <1>1, <3>1
      <3> HIDE DEF A, B, Of
      <3>7. SumOver(f, A \cup B) = SumOver(f, A) + SumOver(f, B)
        BY <1>0, <3>4, SumDisjoint
      <3>8. SumOver(g, U) = SumOver(f, Of(U))
        BY <3>3, <3>4, <3>5, <3>6, <3>7
      <3>9. QED
        BY <3>8
    <2>3. QED
      BY <2>1, <2>2
  <1>2. Q = SUBSET O
    <2>1. \A U \in SUBSET O : (\A x \in U : U \ {x} \in Q) => U \in Q
      BY <1>1
    <2>2. Q \in SUBSET (SUBSET O)
      OBVIOUS
    <2> HIDE DEF Q
    <2>3. QED
      BY <2>1, <2>2, SubsetInduction
  <1>3. Of(O) = S
    OBVIOUS
  <1>4. QED
    <2> HIDE DEF Of
    <2>1. QED
      BY <1>2, <1>3
=============================================================================
