--------------------- MODULE BatchAlgorithms_proofs ---------------------
(***************************************************************************)
(* Proofs of what BatchAlgorithms states of the batch algorithms, for      *)
(* every input and every value of the constants.  The recursive functions  *)
(* and folds of the model are reached by induction over numbers and over   *)
(* finite sets, of sets named by comprehension: NumberInduction and        *)
(* SetInduction.                                                           *)
(* First come sums, the estimators of a group, orders, sorting and         *)
(* concatenation; then the partitions, the advantages over tokens, the     *)
(* micro-batches, and the way of a batch to the ranks and back.            *)
(***************************************************************************)
EXTENDS BatchAlgorithms, FiniteSetTheorems, SequenceTheorems, WellFoundedInduction, TLAPS

-----------------------------------------------------------------------------
(* Induction.                                                              *)

\* A set of numbers has a least one.
LEMMA Least ==
  ASSUME NEW T \in SUBSET Nat, T # {}
  PROVE  \E n \in T : \A m \in T : n <= m
<1>1. PICK R : IsWellFoundedOn(R, Nat) /\ \A x, y \in Nat : <<x, y>> \in R <=> x < y
  <2>1. \A x, y \in Nat : <<x, y>> \in OpToRel(<, Nat) <=> x < y
    BY DEF OpToRel
  <2> QED BY <2>1, NatLessThanWellFounded
<1>2. PICK x \in T : \A y \in T : ~(<<y, x>> \in R)
  <2>1. IsWellFoundedOn(R, Nat) /\ T \subseteq Nat /\ T # {}
    BY <1>1
  <2> QED BY ONLY <2>1, WFMin, Zenon
<1>3. ASSUME NEW y \in T PROVE x <= y
  <2>1. x \in Nat /\ y \in Nat /\ ~(<<y, x>> \in R)
    BY <1>2
  <2>2. ~(y < x)
    BY <1>1, <2>1, Zenon
  <2> QED BY <2>1, <2>2
<1> QED BY <1>3

\* Induction: a set that has 0 and the successor of each of its numbers.
LEMMA NumberInduction ==
  ASSUME NEW P, 0 \in P, \A n \in Nat : n \in P => n + 1 \in P
  PROVE  Nat \subseteq P
<1> SUFFICES ASSUME Nat \ P # {} PROVE FALSE
  OBVIOUS
<1>1. PICK n \in Nat \ P : \A m \in Nat \ P : n <= m
  BY Least
<1>2. n - 1 \in Nat /\ n - 1 \in P
  BY <1>1
<1> QED BY <1>1, <1>2

\* Induction over finite sets.
LEMMA SetInduction ==
  ASSUME NEW S, IsFiniteSet(S), NEW P, {} \in P,
         \A T \in SUBSET S : \A x \in S \ T : T \in P => T \cup {x} \in P
  PROVE  S \in P
<1> DEFINE A == {n \in Nat : \A T \in SUBSET S : Cardinality(T) = n => T \in P}
<1>1. 0 \in A
  BY FS_EmptySet, FS_Subset
<1>2. ASSUME NEW n \in Nat, n \in A PROVE n + 1 \in A
  <2> SUFFICES ASSUME NEW T \in SUBSET S, Cardinality(T) = n + 1 PROVE T \in P
    OBVIOUS
  <2>1. IsFiniteSet(T)
    BY FS_Subset
  <2>2. PICK x \in T : TRUE
    BY <2>1, FS_EmptySet
  <2>3. Cardinality(T \ {x}) = n
    <3>1. Cardinality(T \ {x}) = Cardinality(T) - 1
      BY <2>1, <2>2, FS_RemoveElement
    <3> QED BY <3>1
  <2>4. T \ {x} \in P
    BY <1>2, <2>3
  <2>5. T = (T \ {x}) \cup {x} /\ x \in S \ (T \ {x}) /\ T \ {x} \in SUBSET S
    OBVIOUS
  <2> QED BY <2>4, <2>5, Zenon
<1> HIDE DEF A
<1>3. Nat \subseteq A
  BY <1>1, <1>2, NumberInduction
<1>4. Cardinality(S) \in A
  BY <1>3, FS_CardinalityType
<1> QED BY <1>4 DEF A

-----------------------------------------------------------------------------
(* Sums.                                                                   *)

\* The element a sum takes next.
Pick(s) == CHOOSE x \in s : TRUE

\* What the fold computes: the sums of f over the subsets of S.
IsSums(f, S, g) ==
  g = [s \in SUBSET S |-> IF s = {} THEN 0 ELSE f[Pick(s)] + g[s \ {Pick(s)}]]

\* In whatever order its elements are added.
Splits(f, S, g) == \A s \in SUBSET S : \A x \in s : g[s] = f[x] + g[s \ {x}]

\* SumFunction applies a choice of partial sums to the whole domain.
LEMMA SumIs ==
  ASSUME NEW f, NEW S, DOMAIN f = S
  PROVE  SumFunction(f) = (CHOOSE g : IsSums(f, S, g))[S]
BY DEF SumFunction, SumFunctionOnSet, FoldFunctionOnSet, MapThenFoldSet, IsSums, Pick

\* There are such sums.
LEMMA SumsExist ==
  ASSUME NEW S, IsFiniteSet(S), NEW f \in [S -> Int]
  PROVE  \E g : IsSums(f, S, g) /\ g \in [SUBSET S -> Int]
<1> DEFINE D(n) == {s \in SUBSET S : Cardinality(s) <= n}
           Step(g, s) == IF s = {} THEN 0 ELSE f[Pick(s)] + g[s \ {Pick(s)}]
           Good(g, n) == g \in [D(n) -> Int] /\ \A s \in D(n) : g[s] = Step(g, s)
           A == {n \in Nat : \E g : Good(g, n)}
<1>0. \A s \in SUBSET S : IsFiniteSet(s) /\ Cardinality(s) \in Nat
  BY FS_Subset, FS_CardinalityType
<1>1. 0 \in A
  <2>1. \A s \in D(0) : s = {}
    BY <1>0, FS_EmptySet
  <2>2. Good([s \in D(0) |-> 0], 0)
    BY <2>1
  <2> QED BY <2>2
<1>2. ASSUME NEW n \in Nat, n \in A PROVE n + 1 \in A
  <2>1. PICK g : Good(g, n)
    BY <1>2
  <2> DEFINE h == [s \in D(n + 1) |-> Step(g, s)]
  <2>2. ASSUME NEW s \in D(n + 1), s # {} PROVE Pick(s) \in S /\ s \ {Pick(s)} \in D(n)
    <3>1. Pick(s) \in s
      BY <2>2 DEF Pick
    <3>2. Cardinality(s \ {Pick(s)}) = Cardinality(s) - 1
      BY <1>0, <3>1, FS_RemoveElement
    <3>3. Cardinality(s \ {Pick(s)}) <= n
      BY <1>0, <3>2
    <3> QED BY <3>1, <3>3
  <2>3. \A s \in D(n + 1) : Step(g, s) \in Int
    BY <2>1, <2>2
  <2>4. h \in [D(n + 1) -> Int]
    BY <2>3
  <2>5. \A s \in D(n) : s \in D(n + 1) /\ h[s] = g[s]
    BY <1>0, <2>1
  <2>6. \A s \in D(n + 1) : h[s] = Step(h, s)
    BY <2>2, <2>5
  <2>7. Good(h, n + 1)
    BY <2>4, <2>6
  <2> HIDE DEF h, Good
  <2> QED BY <2>7
<1>3. Cardinality(S) \in A
  <2> HIDE DEF A
  <2> QED BY <1>1, <1>2, FS_CardinalityType, NumberInduction
<1>4. PICK g : Good(g, Cardinality(S))
  BY <1>3
<1>5. D(Cardinality(S)) = SUBSET S
  BY <1>0, FS_Subset
<1>6. g \in [SUBSET S -> Int] /\ \A s \in SUBSET S : g[s] = Step(g, s)
  BY <1>4, <1>5
<1>7. g = [s \in SUBSET S |-> Step(g, s)]
  BY <1>6
<1> QED BY <1>6, <1>7 DEF IsSums

\* Partial sums of two functions that agree on a set are the same on it.
LEMMA SumsAgree ==
  ASSUME NEW S, IsFiniteSet(S), NEW T \in SUBSET S, NEW f, NEW e, NEW g, NEW h,
         \A x \in T : e[x] = f[x], IsSums(f, S, g), IsSums(e, T, h)
  PROVE  \A s \in SUBSET T : h[s] = g[s]
<1> DEFINE A == {n \in Nat : \A s \in SUBSET T : Cardinality(s) = n => h[s] = g[s]}
<1>0. \A s \in SUBSET T : IsFiniteSet(s) /\ Cardinality(s) \in Nat
  BY FS_Subset, FS_CardinalityType
<1>1. ASSUME NEW s \in SUBSET T
      PROVE  /\ h[s] = IF s = {} THEN 0 ELSE e[Pick(s)] + h[s \ {Pick(s)}]
             /\ g[s] = IF s = {} THEN 0 ELSE f[Pick(s)] + g[s \ {Pick(s)}]
  BY DEF IsSums
<1>2. 0 \in A
  BY <1>0, <1>1, FS_EmptySet
<1>3. ASSUME NEW n \in Nat, n \in A PROVE n + 1 \in A
  <2> SUFFICES ASSUME NEW s \in SUBSET T, Cardinality(s) = n + 1 PROVE h[s] = g[s]
    OBVIOUS
  <2>1. s # {}
    BY FS_EmptySet
  <2>2. Pick(s) \in s
    BY <2>1 DEF Pick
  <2>3. Cardinality(s \ {Pick(s)}) = n
    BY <1>0, <2>2, FS_RemoveElement
  <2>4. h[s \ {Pick(s)}] = g[s \ {Pick(s)}]
    BY <1>3, <2>3
  <2> QED BY <1>1, <2>1, <2>2, <2>4
<1> HIDE DEF A
<1>4. Nat \subseteq A
  BY <1>2, <1>3, NumberInduction
<1> QED BY <1>0, <1>4 DEF A

\* In whatever order they are added.
LEMMA SumsSplit ==
  ASSUME NEW S, IsFiniteSet(S), NEW f \in [S -> Int],
         NEW g \in [SUBSET S -> Int], IsSums(f, S, g)
  PROVE  Splits(f, S, g)
<1> DEFINE A == {n \in Nat : \A s \in SUBSET S : \A x \in s :
                   Cardinality(s) = n => g[s] = f[x] + g[s \ {x}]}
<1>0. \A s \in SUBSET S : IsFiniteSet(s) /\ Cardinality(s) \in Nat
  BY FS_Subset, FS_CardinalityType
<1>1. \A s \in SUBSET S : s # {} => g[s] = f[Pick(s)] + g[s \ {Pick(s)}]
  BY DEF IsSums
<1>2. 0 \in A
  BY <1>0, FS_EmptySet
<1>3. ASSUME NEW n \in Nat, n \in A PROVE n + 1 \in A
  <2> SUFFICES ASSUME NEW s \in SUBSET S, NEW x \in s, Cardinality(s) = n + 1, x # Pick(s)
               PROVE  g[s] = f[x] + g[s \ {x}]
    BY <1>1
  <2> DEFINE c == Pick(s)
  <2>1. c \in s
    BY DEF Pick
  <2>2. Cardinality(s \ {c}) = n /\ Cardinality(s \ {x}) = n
    <3> HIDE DEF c
    <3>1. IsFiniteSet(s)
      BY <1>0
    <3>2. Cardinality(s \ {c}) = Cardinality(s) - 1
      BY <2>1, <3>1, FS_RemoveElement
    <3>3. Cardinality(s \ {x}) = Cardinality(s) - 1
      BY <3>1, FS_RemoveElement
    <3> QED BY <3>2, <3>3
  <2>3. g[s] = f[c] + g[s \ {c}]
    BY <1>1
  <2> HIDE DEF c
  <2>4. g[s \ {c}] = f[x] + g[(s \ {c}) \ {x}]
    <3>1. s \ {c} \in SUBSET S /\ x \in s \ {c}
      BY DEF c
    <3> QED BY <1>3, <2>2, <3>1 DEF c
  <2>5. g[s \ {x}] = f[c] + g[(s \ {x}) \ {c}]
    <3>1. s \ {x} \in SUBSET S /\ c \in s \ {x}
      BY <2>1 DEF c
    <3> QED BY <1>3, <2>2, <3>1
  <2>6. (s \ {c}) \ {x} = (s \ {x}) \ {c}
    OBVIOUS
  <2>7. f[c] \in Int /\ f[x] \in Int /\ g[(s \ {x}) \ {c}] \in Int
    BY <2>1
  <2> DEFINE r == g[(s \ {x}) \ {c}]
             gc == g[s \ {c}]
             gx == g[s \ {x}]
  <2>8. g[s] = f[c] + gc /\ gc = f[x] + r /\ gx = f[c] + r /\ r \in Int
    BY <2>3, <2>4, <2>5, <2>6, <2>7
  <2> HIDE DEF r, gc, gx
  <2>9. g[s] = f[x] + gx
    BY <2>7, <2>8
  <2> QED BY <2>9 DEF gx
<1> HIDE DEF A
<1>4. Nat \subseteq A
  BY <1>2, <1>3, NumberInduction
<1> QED BY <1>0, <1>4 DEF A, Splits

\* What is needed of a sum.
LEMMA SumAll ==
  ASSUME NEW S, IsFiniteSet(S), NEW f \in [S -> Int]
  PROVE  /\ SumFunction(f) \in Int
         /\ S = {} => SumFunction(f) = 0
         /\ \A x \in S : SumFunction(f) = f[x] + SumFunction([y \in S \ {x} |-> f[y]])
<1>1. PICK g0 : IsSums(f, S, g0) /\ g0 \in [SUBSET S -> Int]
  BY SumsExist
<1> DEFINE g == CHOOSE h : IsSums(f, S, h)
<1>2. IsSums(f, S, g)
  BY <1>1, Zenon
<1>3. SumFunction(f) = g[S]
  BY SumIs
<1> HIDE DEF g
<1>4. g \in [SUBSET S -> Int]
  <2>1. \A s \in SUBSET S : g[s] = g0[s]
    <3>1. S \in SUBSET S /\ \A x \in S : f[x] = f[x]
      OBVIOUS
    <3>2. IsSums(f, S, g0) /\ IsSums(f, S, g) /\ IsFiniteSet(S)
      BY <1>1, <1>2
    <3> QED BY ONLY <3>1, <3>2, SumsAgree
  <2>2. DOMAIN g = SUBSET S /\ g = [s \in SUBSET S |-> g[s]]
    BY <1>2 DEF IsSums
  <2> QED BY <1>1, <2>1, <2>2
<1>5. S = {} => g[S] = 0
  BY <1>2 DEF IsSums
<1>6. ASSUME NEW x \in S PROVE g[S] = f[x] + SumFunction([y \in S \ {x} |-> f[y]])
  <2> DEFINE T == S \ {x}
             e == [y \in T |-> f[y]]
             h == CHOOSE k : IsSums(e, T, k)
  <2>1. IsFiniteSet(T) /\ e \in [T -> Int] /\ T \in SUBSET S /\ \A y \in T : e[y] = f[y]
    BY FS_RemoveElement
  <2>2. SumFunction(e) = h[T]
    BY <2>1, SumIs
  <2> HIDE DEF e, T
  <2>3. \E k : IsSums(e, T, k)
    BY <2>1, SumsExist
  <2>4. IsSums(e, T, h)
    BY <2>3, Zenon
  <2> HIDE DEF h
  <2>5. h[T] = g[T]
    BY <1>2, <2>1, <2>4, SumsAgree
  <2>6. g[S] = f[x] + g[S \ {x}]
    <3>1. S \in SUBSET S
      OBVIOUS
    <3>2. Splits(f, S, g)
      BY <1>2, <1>4, SumsSplit
    <3> QED BY <3>1, <3>2 DEF Splits
  <2> QED BY <2>2, <2>5, <2>6 DEF T, e
<1> QED BY <1>3, <1>4, <1>5, <1>6

\* The sum over some of the arguments.
SumOver(f, T) == SumFunction([x \in T |-> f[x]])

\* Over all of its domain, it is the function's sum.
LEMMA SumOverAll ==
  ASSUME NEW S, IsFiniteSet(S), NEW f \in [S -> Int]
  PROVE  SumOver(f, S) = SumFunction(f)
<1>1. [x \in S |-> f[x]] = f
  OBVIOUS
<1> QED BY <1>1 DEF SumOver

\* A sum of integers is one.
LEMMA SumOverType ==
  ASSUME NEW S, IsFiniteSet(S), NEW f \in [S -> Int], NEW T \in SUBSET S
  PROVE  SumOver(f, T) \in Int
<1>1. IsFiniteSet(T) /\ [x \in T |-> f[x]] \in [T -> Int]
  BY FS_Subset
<1> QED BY <1>1, SumAll DEF SumOver

\* Nothing adds up to 0.
LEMMA SumOverNone ==
  ASSUME NEW f
  PROVE  SumOver(f, {}) = 0
<1>1. IsFiniteSet({}) /\ [x \in {} |-> f[x]] \in [{} -> Int]
  BY FS_EmptySet
<1> QED BY <1>1, SumAll DEF SumOver

\* One more element adds its value.
LEMMA SumOverMore ==
  ASSUME NEW S, IsFiniteSet(S), NEW f \in [S -> Int], NEW T \in SUBSET S, NEW x \in S \ T
  PROVE  SumOver(f, T \cup {x}) = f[x] + SumOver(f, T)
<1> DEFINE U == T \cup {x}
           e == [y \in U |-> f[y]]
<1>1. IsFiniteSet(U) /\ e \in [U -> Int] /\ x \in U /\ e[x] = f[x]
  BY FS_Subset
<1>2. [y \in U \ {x} |-> e[y]] = [y \in T |-> f[y]]
  OBVIOUS
<1>3. SumOver(f, U) = SumFunction(e)
  BY DEF SumOver
<1> HIDE DEF U, e
<1>4. SumFunction(e) = e[x] + SumFunction([y \in U \ {x} |-> e[y]])
  BY <1>1, SumAll
<1> QED BY <1>1, <1>2, <1>3, <1>4 DEF SumOver, U

\* A sum of multiples.
LEMMA SumLinear ==
  ASSUME NEW S, IsFiniteSet(S), NEW f \in [S -> Int], NEW g \in [S -> Int],
         NEW c \in Int, NEW d \in Int
  PROVE  SumFunction([x \in S |-> c * f[x] + d * g[x]])
           = c * SumFunction(f) + d * SumFunction(g)
<1> DEFINE h == [x \in S |-> c * f[x] + d * g[x]]
           P == {T \in SUBSET S : SumOver(h, T) = c * SumOver(f, T) + d * SumOver(g, T)}
<1>1. \A x \in S : c * f[x] + d * g[x] \in Int
  <2> TAKE x \in S
  <2> DEFINE a == f[x]
             b == g[x]
  <2>1. a \in Int /\ b \in Int
    OBVIOUS
  <2> HIDE DEF a, b
  <2>2. c * a + d * b \in Int
    BY <2>1
  <2> QED BY <2>2 DEF a, b
<1>2. h \in [S -> Int] /\ \A x \in S : h[x] = c * f[x] + d * g[x]
  BY <1>1
<1> HIDE DEF h
<1>3. {} \in P
  BY SumOverNone
<1>4. ASSUME NEW T \in SUBSET S, NEW x \in S \ T, T \in P PROVE T \cup {x} \in P
  <2> DEFINE F == SumOver(f, T)
             G == SumOver(g, T)
             H == SumOver(h, T)
             a == f[x]
             b == g[x]
  <2>1. F \in Int /\ G \in Int /\ a \in Int /\ b \in Int
    BY SumOverType
  <2>2. SumOver(f, T \cup {x}) = a + F /\ SumOver(g, T \cup {x}) = b + G
    BY SumOverMore
  <2>3. SumOver(h, T \cup {x}) = (c * a + d * b) + H
    BY <1>2, SumOverMore
  <2>4. H = c * F + d * G
    BY <1>4
  <2> HIDE DEF F, G, H, a, b
  <2>5. (c * a + d * b) + (c * F + d * G) = c * (a + F) + d * (b + G)
    BY <2>1
  <2> QED BY <2>2, <2>3, <2>4, <2>5
<1> HIDE DEF P
<1>5. S \in P
  BY <1>3, <1>4, SetInduction
<1> QED BY <1>2, <1>5, SumOverAll DEF P, h

\* One value for all of a set.
LEMMA SumConstant ==
  ASSUME NEW S, IsFiniteSet(S), NEW c \in Int
  PROVE  SumFunction([x \in S |-> c]) = c * Cardinality(S)
<1> DEFINE h == [x \in S |-> c]
           P == {T \in SUBSET S : SumOver(h, T) = c * Cardinality(T)}
<1>1. h \in [S -> Int] /\ \A x \in S : h[x] = c
  OBVIOUS
<1> HIDE DEF h
<1>2. {} \in P
  BY SumOverNone, FS_EmptySet
<1>3. ASSUME NEW T \in SUBSET S, NEW x \in S \ T, T \in P PROVE T \cup {x} \in P
  <2> DEFINE n == Cardinality(T)
  <2>1. IsFiniteSet(T) /\ n \in Nat
    BY FS_Subset, FS_CardinalityType
  <2>2. Cardinality(T \cup {x}) = n + 1
    BY <2>1, FS_AddElement
  <2>3. SumOver(h, T \cup {x}) = c + c * n
    BY <1>1, <1>3, SumOverMore
  <2> HIDE DEF n
  <2>4. c + c * n = c * (n + 1)
    BY <2>1
  <2> QED BY <2>2, <2>3, <2>4
<1> HIDE DEF P
<1>4. S \in P
  BY <1>2, <1>3, SetInduction
<1> QED BY <1>1, <1>4, SumOverAll DEF P, h

\* Renaming the arguments.
Renames(p, T, S) ==
  /\ p \in [T -> S] /\ \A s, t \in T : p[s] = p[t] => s = t
  /\ \A x \in S : \E t \in T : p[t] = x

\* Elements under other names add up to the same.
LEMMA SumRenamed ==
  ASSUME NEW S, IsFiniteSet(S), NEW f \in [S -> Int], NEW T, IsFiniteSet(T),
         NEW p, Renames(p, T, S)
  PROVE  SumFunction([t \in T |-> f[p[t]]]) = SumFunction(f)
<1> DEFINE h == [t \in T |-> f[p[t]]]
           Image(U) == {p[t] : t \in U}
           P == {U \in SUBSET T : SumOver(h, U) = SumOver(f, Image(U))}
<1>1. /\ p \in [T -> S] /\ \A s, t \in T : p[s] = p[t] => s = t
      /\ \A x \in S : \E t \in T : p[t] = x
  BY DEF Renames
<1>2. h \in [T -> Int] /\ \A t \in T : h[t] = f[p[t]]
  BY <1>1
<1> HIDE DEF h
<1>3. {} \in P
  BY SumOverNone
<1>4. ASSUME NEW U \in SUBSET T, NEW t \in T \ U, U \in P PROVE U \cup {t} \in P
  <2>1. Image(U \cup {t}) = Image(U) \cup {p[t]} /\ Image(U) \in SUBSET S
    BY <1>1
  <2>2. p[t] \in S \ Image(U)
    BY <1>1
  <2> HIDE DEF Image
  <2>3. SumOver(f, Image(U) \cup {p[t]}) = f[p[t]] + SumOver(f, Image(U))
    BY <2>1, <2>2, SumOverMore
  <2>4. SumOver(h, U \cup {t}) = h[t] + SumOver(h, U)
    BY <1>2, SumOverMore
  <2> QED BY <1>2, <1>4, <2>1, <2>3, <2>4
<1>5. Image(T) = S
  BY <1>1
<1> HIDE DEF P
<1>6. T \in P
  BY <1>3, <1>4, SetInduction
<1> HIDE DEF Image
<1> QED BY <1>2, <1>5, <1>6, SumOverAll DEF P, h

\* Sums of separate sets.
LEMMA SumOfTwo ==
  ASSUME NEW S, IsFiniteSet(S), NEW f \in [S -> Int], NEW A \in SUBSET S, NEW B \in SUBSET S,
         A \cap B = {}
  PROVE  SumOver(f, A \cup B) = SumOver(f, A) + SumOver(f, B)
<1> DEFINE P == {T \in SUBSET B : SumOver(f, A \cup T) = SumOver(f, A) + SumOver(f, T)}
<1>0. IsFiniteSet(B)
  BY FS_Subset
<1>1. {} \in P
  <2>1. A \cup {} = A
    OBVIOUS
  <2> QED BY <2>1, SumOverNone, SumOverType
<1>2. ASSUME NEW T \in SUBSET B, NEW x \in B \ T, T \in P PROVE T \cup {x} \in P
  <2>1. A \cup (T \cup {x}) = (A \cup T) \cup {x} /\ x \in S \ (A \cup T) /\ A \cup T \in SUBSET S
    OBVIOUS
  <2>2. SumOver(f, (A \cup T) \cup {x}) = f[x] + SumOver(f, A \cup T)
    BY <2>1, SumOverMore
  <2>3. SumOver(f, T \cup {x}) = f[x] + SumOver(f, T)
    BY SumOverMore
  <2> DEFINE a == SumOver(f, A)
             b == SumOver(f, T)
             c == f[x]
  <2>4. a \in Int /\ b \in Int /\ c \in Int
    BY SumOverType
  <2>5. SumOver(f, A \cup T) = a + b
    BY <1>2
  <2> HIDE DEF a, b, c
  <2>6. c + (a + b) = a + (c + b)
    BY <2>4
  <2> QED BY <2>1, <2>2, <2>3, <2>5, <2>6 DEF a, b, c
<1> HIDE DEF P
<1>3. B \in P
  BY <1>0, <1>1, <1>2, SetInduction
<1> QED BY <1>3 DEF P

-----------------------------------------------------------------------------
(* The inputs.                                                             *)

\* A scored row and a token, and the inputs built of them.
Row == [uid : Uids, length : {1, 3}, score : Scores]
Token == [mask : BOOLEAN, reward : Rewards, value : Values]

\* The states are sequences of these.
InputsOK ==
  /\ lengths \in Seq(0 .. MaxLength)
  /\ scored \in Seq(Row)
  /\ response \in Seq(Token)

\* Every state is a bounded input.
THEOREM InputsTyped == Spec => []InputsOK
<1>1. Init => InputsOK
  BY DEF Init, InputsOK
<1>2. InputsOK /\ [Next]_vars => InputsOK'
  <2> SUFFICES ASSUME InputsOK, [Next]_vars PROVE InputsOK'
    OBVIOUS
  <2>1. CASE AddLength
    BY <2>1 DEF AddLength, InputsOK
  <2>2. CASE AddRow
    <3>1. PICK uid \in Uids, len \in {1, 3}, score \in Scores :
            scored' = Append(scored, [uid |-> uid, length |-> len, score |-> score])
      BY <2>2 DEF AddRow
    <3>2. [uid |-> uid, length |-> len, score |-> score] \in Row
      BY DEF Row
    <3>3. scored' \in Seq(Row)
      BY <3>1, <3>2 DEF InputsOK
    <3> QED BY <2>2, <3>3 DEF AddRow, InputsOK
  <2>3. CASE AddToken
    <3>1. PICK mask \in BOOLEAN, reward \in Rewards, value \in Values :
            response' = Append(response, [mask |-> mask, reward |-> reward, value |-> value])
      BY <2>3 DEF AddToken
    <3>2. [mask |-> mask, reward |-> reward, value |-> value] \in Token
      BY DEF Token
    <3>3. response' \in Seq(Token)
      BY <3>1, <3>2 DEF InputsOK
    <3> QED BY <2>3, <3>3 DEF AddToken, InputsOK
  <2>4. CASE UNCHANGED vars
    BY <2>4 DEF vars, InputsOK
  <2> QED BY <2>1, <2>2, <2>3, <2>4 DEF Next
<1> QED BY <1>1, <1>2, PTL DEF Spec

-----------------------------------------------------------------------------
(* The outcome estimators, of the group of a row.                          *)

\* What is known of a group of two or more rows.
LEMMA GroupFacts ==
  ASSUME InputsOK, NEW i \in DOMAIN scored
  PROVE  /\ IsFiniteSet(Group(scored, i)) /\ i \in Group(scored, i)
         /\ Group(scored, i) \subseteq DOMAIN scored
         /\ \A j \in Group(scored, i) : Group(scored, j) = Group(scored, i)
         /\ [j \in Group(scored, i) |-> scored[j].score] \in [Group(scored, i) -> Int]
         /\ [j \in Group(scored, i) |-> scored[j].length] \in [Group(scored, i) -> Int]
<1>1. DOMAIN scored = 1 .. Len(scored) /\ Len(scored) \in Nat
  BY DEF InputsOK
<1>2. IsFiniteSet(DOMAIN scored)
  BY <1>1, FS_Interval
<1>3. Group(scored, i) \in SUBSET DOMAIN scored
  BY DEF Group
<1>4. IsFiniteSet(Group(scored, i))
  BY <1>2, <1>3, FS_Subset
<1>5. \A j \in DOMAIN scored : scored[j].score \in Int /\ scored[j].length \in Int
  <2> TAKE j \in DOMAIN scored
  <2>1. scored[j] \in Row
    BY <1>1 DEF InputsOK
  <2>2. scored[j].score \in Scores /\ scored[j].length \in {1, 3}
    BY <2>1 DEF Row
  <2>3. Scores \subseteq Int
    BY InputAssumption
  <2>4. scored[j].score \in Int
    BY <2>2, <2>3
  <2>5. scored[j].length \in Int
    BY <2>2
  <2> QED BY <2>4, <2>5
<1>6. i \in Group(scored, i) /\ \A j \in Group(scored, i) : Group(scored, j) = Group(scored, i)
  BY DEF Group
<1> QED BY <1>3, <1>4, <1>5, <1>6

\* RLOO subtracts the mean of the other rows of the group, alone or vectorised.
LEMMA RlooLeavesOneOut ==
  ASSUME InputsOK, NEW i \in DOMAIN scored, Cardinality(Group(scored, i)) > 1
  PROVE  /\ Equal(Rloo(scored, i), LeaveOneOut(scored, i))
         /\ Equal(Rloo(scored, i), RlooVectorized(scored, i))
<1> DEFINE G == Group(scored, i)
           n == Cardinality(G)
           s == scored[i].score
           others == Total(scored, G \ {i})
           f == [j \in G |-> scored[j].score]
<1>1. n \in Nat /\ Cardinality(G \ {i}) = n - 1 /\ n # 1
  BY GroupFacts, FS_CardinalityType, FS_RemoveElement
<1>2. f \in [G -> Int] /\ IsFiniteSet(G) /\ i \in G /\ f[i] = s
  BY GroupFacts
<1>3. Total(scored, G) = SumFunction(f)
  BY DEF Total
<1>4. [j \in G \ {i} |-> f[j]] = [j \in G \ {i} |-> scored[j].score]
  OBVIOUS
<1>5. others = SumFunction([j \in G \ {i} |-> f[j]])
  BY <1>4 DEF Total
<1>6. s \in Int
  BY <1>2
<1>7. others \in Int
  <2>1. IsFiniteSet(G \ {i}) /\ [j \in G \ {i} |-> f[j]] \in [G \ {i} -> Int]
    BY <1>2, FS_RemoveElement
  <2> HIDE DEF f, G, others
  <2> QED BY <1>5, <2>1, SumAll
<1>8. Total(scored, G) = s + others
  <2> HIDE DEF f, G, others, s
  <2>1. SumFunction(f) = f[i] + SumFunction([y \in G \ {i} |-> f[y]])
    BY <1>2, SumAll
  <2> QED BY <1>2, <1>3, <1>5, <2>1
<1>9. Rloo(scored, i) = Fraction(n * s - Total(scored, G), n - 1)
  BY <1>1 DEF Rloo
<1>10. RlooVectorized(scored, i) = Fraction(n * s - Total(scored, G), n - 1)
  BY <1>1 DEF RlooVectorized
<1>11. LeaveOneOut(scored, i) = Fraction((n - 1) * s - others, n - 1)
  BY <1>1 DEF LeaveOneOut
<1> HIDE DEF G, n, s, others
<1>12. n * s - (s + others) = (n - 1) * s - others
  BY <1>1, <1>6, <1>7
<1> QED BY <1>8, <1>9, <1>10, <1>11, <1>12 DEF Equal, Fraction

\* The group's advantages cancel out.
LEMMA GrpoCancels ==
  ASSUME InputsOK, NEW i \in DOMAIN scored, Cardinality(Group(scored, i)) > 1
  PROVE  SumFunction([j \in Group(scored, i) |-> Grpo(scored, j).num]) = 0
<1> DEFINE G == Group(scored, i)
           n == Cardinality(G)
           f == [j \in G |-> scored[j].score]
           one == [j \in G |-> 1]
           T == Total(scored, G)
<1>1. n \in Nat /\ n # 1
  BY GroupFacts, FS_CardinalityType
<1>2. f \in [G -> Int] /\ IsFiniteSet(G) /\ one \in [G -> Int]
  BY GroupFacts
<1>3. T = SumFunction(f)
  BY DEF Total
<1>4. ASSUME NEW j \in G PROVE Grpo(scored, j).num = n * f[j] - T
  <2>1. Group(scored, j) = G
    BY GroupFacts
  <2> QED BY <1>1, <2>1 DEF Grpo, Fraction
<1> HIDE DEF f, one, T
<1>5. T \in Int /\ -T \in Int
  BY <1>2, <1>3, SumAll
<1>6. ASSUME NEW j \in G PROVE Grpo(scored, j).num = n * f[j] + (-T) * one[j]
  <2>1. one[j] = 1
    BY DEF one
  <2>2. f[j] \in Int /\ n * f[j] \in Int
    BY <1>1, <1>2
  <2> DEFINE a == n * f[j]
  <2>3. a - T = a + (-T) * 1
    BY <1>5, <2>2
  <2> QED BY <1>4, <2>1, <2>3
<1>7. [j \in G |-> Grpo(scored, j).num] = [j \in G |-> n * f[j] + (-T) * one[j]]
  BY <1>6
<1> HIDE DEF G, n
<1>8. SumFunction([j \in G |-> n * f[j] + (-T) * one[j]])
        = n * SumFunction(f) + (-T) * SumFunction(one)
  BY <1>1, <1>2, <1>5, SumLinear
<1>9. SumFunction(one) = n
  <2>1. SumFunction([j \in G |-> 1]) = 1 * Cardinality(G)
    <3>1. 1 \in Int /\ IsFiniteSet(G)
      BY <1>2
    <3> QED BY ONLY <3>1, SumConstant
  <2> QED BY <1>1, <2>1 DEF one, n
<1>10. n * T + (-T) * n = 0
  BY <1>1, <1>5
<1> QED BY <1>3, <1>7, <1>8, <1>9, <1>10 DEF G

\* So do OPO's, each weighted by its row's length.
LEMMA OpoCancels ==
  ASSUME InputsOK, NEW i \in DOMAIN scored, Cardinality(Group(scored, i)) > 1
  PROVE  SumFunction([j \in Group(scored, i) |-> scored[j].length * Opo(scored, j).num]) = 0
<1> DEFINE G == Group(scored, i)
           f == [j \in G |-> scored[j].length]
           w == [j \in G |-> scored[j].length * scored[j].score]
           L == Lengths(scored, G)
           W == SumFunction(w)
<1>1. Cardinality(G) # 1
  BY GroupFacts, FS_CardinalityType
<1>2. f \in [G -> Int] /\ IsFiniteSet(G) /\ [j \in G |-> scored[j].score] \in [G -> Int]
  BY GroupFacts
<1>3. ASSUME NEW j \in G PROVE scored[j].length \in Int /\ scored[j].score \in Int
  <2>1. f[j] \in Int /\ [k \in G |-> scored[k].score][j] \in Int
    BY <1>2
  <2> QED BY <2>1
<1>4. w \in [G -> Int]
  BY <1>3
<1>5. L = SumFunction(f)
  BY DEF Lengths
<1>6. ASSUME NEW j \in G
      PROVE  /\ Opo(scored, j).num = scored[j].score * L - W
             /\ f[j] = scored[j].length /\ w[j] = scored[j].length * scored[j].score
  <2>1. Group(scored, j) = G
    BY GroupFacts
  <2> QED BY <1>1, <2>1 DEF Opo, Fraction
<1> HIDE DEF f, w
<1>7. L \in Int /\ W \in Int /\ -W \in Int
  <2>1. SumFunction(f) \in Int /\ SumFunction(w) \in Int
    BY <1>2, <1>4, SumAll
  <2> QED BY <1>5, <2>1
<1> HIDE DEF L, W
<1>8. ASSUME NEW j \in G
      PROVE  scored[j].length * Opo(scored, j).num = L * w[j] + (-W) * f[j]
  <2> DEFINE a == scored[j].length
             b == scored[j].score
  <2>1. a \in Int /\ b \in Int /\ Opo(scored, j).num = b * L - W /\ w[j] = a * b /\ f[j] = a
    BY <1>3, <1>6
  <2> HIDE DEF a, b
  <2>2. a * (b * L - W) = L * (a * b) + (-W) * a
    BY <1>7, <2>1
  <2>3. scored[j].length * Opo(scored, j).num = a * (b * L - W)
    BY <2>1 DEF a
  <2> QED BY <2>1, <2>2, <2>3
<1>9. [j \in G |-> scored[j].length * Opo(scored, j).num] = [j \in G |-> L * w[j] + (-W) * f[j]]
  BY <1>8
<1> HIDE DEF G
<1>10. SumFunction([j \in G |-> L * w[j] + (-W) * f[j]])
         = L * SumFunction(w) + (-W) * SumFunction(f)
  BY <1>2, <1>4, <1>7, SumLinear
<1>11. L * W + (-W) * L = 0
  BY <1>7
<1> QED BY <1>5, <1>9, <1>10, <1>11 DEF G, W

\* The greatest of some numbers.
LEMMA MaxIs ==
  ASSUME NEW S \in SUBSET Int, NEW m \in S, \A x \in S : x <= m
  PROVE  Max(S) = m
<1>1. m \in S /\ \A y \in S : m >= y
  OBVIOUS
<1> DEFINE x == CHOOSE x \in S : \A y \in S : x >= y
<1>2. x \in S /\ \A y \in S : x >= y
  BY <1>1, Zenon
<1> HIDE DEF x
<1>3. x >= m /\ x <= m /\ x \in Int /\ m \in Int
  BY <1>1, <1>2
<1>4. x = m
  BY <1>3
<1> QED BY <1>4 DEF x, Max

\* The best of a group are equally good.
LEMMA AnyBest ==
  ASSUME InputsOK, NEW i \in DOMAIN scored, NEW a \in Group(scored, i),
         NEW b \in Group(scored, i), IsBest(scored, a), IsBest(scored, b)
  PROVE  PassK(scored, a, i) = PassK(scored, b, i)
<1> SUFFICES ASSUME a # b PROVE PassK(scored, a, i) = PassK(scored, b, i)
  OBVIOUS
<1> DEFINE G == Group(scored, i)
           Score(j) == scored[j].score
           Second(j) == Max({Score(k) : k \in G \ {j}})
<1>1. \A j \in G : Score(j) \in Int /\ Group(scored, j) = G
  <2> TAKE j \in G
  <2>1. [k \in G |-> scored[k].score] \in [G -> Int]
    BY GroupFacts
  <2>2. [k \in G |-> scored[k].score][j] \in Int
    BY <2>1
  <2> QED BY <2>2, GroupFacts
<1>2. \A j \in G : Score(j) <= Score(a) /\ Score(j) <= Score(b)
  BY <1>1 DEF IsBest
<1>3. Score(a) = Score(b) /\ Score(a) \in Int
  BY <1>1, <1>2
<1>4. ASSUME NEW x \in {a, b} PROVE PassK(scored, x, i) = 0
  <2>1. PICK y \in G \ {x} : Score(y) = Score(a)
    BY <1>3
  <2>2. Second(x) = Score(a)
    <3> DEFINE S == {Score(k) : k \in G \ {x}}
    <3>1. S \in SUBSET Int /\ Score(a) \in S /\ \A z \in S : z <= Score(a)
      BY <1>1, <1>2, <2>1
    <3> HIDE DEF S
    <3>2. Max(S) = Score(a)
      BY <3>1, MaxIs
    <3> QED BY <3>2 DEF S
  <2>3. PassK(scored, x, i) = IF i = x THEN Score(x) - Second(x) ELSE 0
    BY DEF PassK
  <2> QED BY <1>3, <2>2, <2>3
<1> QED BY <1>4

\* Each estimator is what its paper says, in every group of two or more rows
\* of every batch.
THEOREM EstimatorsRight == Spec => []OutcomeAdvantages
<1>1. InputsOK => OutcomeAdvantages
  BY RlooLeavesOneOut, GrpoCancels, OpoCancels, AnyBest DEF OutcomeAdvantages
<1> QED BY <1>1, InputsTyped, PTL

-----------------------------------------------------------------------------
(* Orders.                                                                 *)

\* What is before i.
Below(D, R, i) == {j \in D : <<j, i>> \in R}

\* Preceding by the name of the set it counts.
LEMMA PrecedingIs == \A D, R, i : Preceding(D, R, i) = Cardinality(Below(D, R, i))
BY DEF Preceding, Below

\* A strict order of all of D.
Orders(R, D) ==
  /\ \A i \in D : <<i, i>> \notin R
  /\ \A i, j \in D : i # j => <<i, j>> \in R \/ <<j, i>> \in R
  /\ \A i, j, k \in D : <<i, j>> \in R /\ <<j, k>> \in R => <<i, k>> \in R

\* The ranks of a finite set's elements are 0, 1, ..., each once.
LEMMA RanksGrow ==
  ASSUME NEW D, IsFiniteSet(D), NEW R, Orders(R, D)
  PROVE  /\ \A i \in D : Preceding(D, R, i) \in 0 .. Cardinality(D) - 1
         /\ \A i, j \in D : <<i, j>> \in R => Preceding(D, R, i) < Preceding(D, R, j)
<1>1. \A i \in D : IsFiniteSet(Below(D, R, i)) /\ Preceding(D, R, i) \in Nat
  <2> TAKE i \in D
  <2>1. Below(D, R, i) \in SUBSET D
    BY DEF Below
  <2> QED BY <2>1, FS_Subset, FS_CardinalityType DEF Preceding, Below
<1>2. Cardinality(D) \in Nat
  BY FS_CardinalityType
<1>3. ASSUME NEW i \in D PROVE Preceding(D, R, i) \in 0 .. Cardinality(D) - 1
  <2>1. Below(D, R, i) \in SUBSET (D \ {i})
    BY DEF Below, Orders
  <2>2. IsFiniteSet(D \ {i}) /\ Cardinality(D \ {i}) = Cardinality(D) - 1
    BY FS_RemoveElement
  <2>3. Preceding(D, R, i) <= Cardinality(D \ {i})
    BY <2>1, <2>2, FS_Subset DEF Preceding, Below
  <2> QED BY <1>1, <1>2, <2>2, <2>3
<1>4. ASSUME NEW i \in D, NEW j \in D, <<i, j>> \in R
      PROVE  Preceding(D, R, i) < Preceding(D, R, j)
  <2>1. Below(D, R, i) \subseteq Below(D, R, j)
    <3> SUFFICES ASSUME NEW k \in D, <<k, i>> \in R PROVE <<k, j>> \in R
      BY DEF Below
    <3> QED BY <1>4 DEF Orders
  <2>2. i \in Below(D, R, j) /\ i \notin Below(D, R, i)
    BY <1>4 DEF Below, Orders
  <2>3. IsFiniteSet(Below(D, R, j)) /\ Below(D, R, i) \in SUBSET Below(D, R, j)
        /\ Below(D, R, j) # Below(D, R, i)
    BY <1>1, <2>1, <2>2
  <2>4. Preceding(D, R, i) <= Preceding(D, R, j) /\ Preceding(D, R, j) # Preceding(D, R, i)
    BY <2>3, FS_Subset DEF Preceding, Below
  <2> QED BY <1>1, <2>4
<1> QED BY <1>3, <1>4

\* Every number up to the last is how many some element has before it.
Covers(D, R) == \A r \in 0 .. Cardinality(D) - 1 : \E i \in D : Preceding(D, R, i) = r

\* In a total order of a finite set no two elements have as many before them,
\* and every number up to the last is how many some element has before it.
LEMMA RanksCover ==
  ASSUME NEW D, IsFiniteSet(D), NEW R, Orders(R, D)
  PROVE  /\ \A i, j \in D : Preceding(D, R, i) = Preceding(D, R, j) => i = j
         /\ Covers(D, R)
<1> DEFINE n == Cardinality(D)
           f == [i \in D |-> Preceding(D, R, i)]
<1>1. n \in Nat
  BY FS_CardinalityType
<1>2. f \in [D -> 0 .. n - 1]
  BY RanksGrow
<1>3. ASSUME NEW i \in D, NEW j \in D, i # j PROVE Preceding(D, R, i) # Preceding(D, R, j)
  <2>1. <<i, j>> \in R \/ <<j, i>> \in R
    BY <1>3 DEF Orders
  <2>2. Preceding(D, R, i) < Preceding(D, R, j) \/ Preceding(D, R, j) < Preceding(D, R, i)
    BY <2>1, RanksGrow
  <2>3. Preceding(D, R, i) \in 0 .. n - 1 /\ Preceding(D, R, j) \in 0 .. n - 1
    BY RanksGrow
  <2> HIDE DEF n
  <2> QED BY <2>2, <2>3
<1>4. f \in Injection(D, 0 .. n - 1)
  <2>1. \A i, j \in D : f[i] = f[j] => i = j
    BY <1>3
  <2> HIDE DEF f, n
  <2> QED BY <1>2, <2>1 DEF Injection, IsInjective
<1>5. IsFiniteSet(0 .. n - 1) /\ Cardinality(0 .. n - 1) = n
  BY <1>1, FS_Interval
<1>6. f \in Surjection(D, 0 .. n - 1)
  BY <1>4, <1>5, FS_Injection
<1>7. \A r \in 0 .. n - 1 : \E i \in D : f[i] = r
  <2> HIDE DEF f, n
  <2> QED BY <1>6 DEF Surjection
<1>8. Covers(D, R)
  BY <1>7 DEF Covers
<1> QED BY <1>3, <1>8

\* The numbers of a set, the smallest first.
LEMMA InOrderIs ==
  ASSUME NEW S \in SUBSET Int, IsFiniteSet(S)
  PROVE  /\ InOrder(S) \in [1 .. Cardinality(S) -> S]
         /\ InOrder(S) \in Seq(S)
         /\ Len(InOrder(S)) = Cardinality(S)
         /\ \A q, r \in 1 .. Cardinality(S) : q < r => InOrder(S)[q] < InOrder(S)[r]
         /\ \A x \in S : \E r \in 1 .. Cardinality(S) : InOrder(S)[r] = x
<1> DEFINE R == Increasing(S)
           n == Cardinality(S)
           c(r) == Nth(S, R, r)
<1>1. \A x, y \in S : <<x, y>> \in R <=> x < y
  BY DEF Increasing
<1>2. Orders(R, S)
  BY <1>1 DEF Orders
<1>3. n \in Nat
  BY FS_CardinalityType
<1>5. InOrder(S) = [r \in 1 .. n |-> c(r)]
  BY DEF InOrder
<1> HIDE DEF R
<1>6. ASSUME NEW r \in 1 .. n PROVE c(r) \in S /\ Preceding(S, R, c(r)) = r - 1
  <2>1. r - 1 \in 0 .. n - 1
    BY <1>3
  <2>2. \E x \in S : Preceding(S, R, x) = r - 1
    <3>1. Covers(S, R)
      BY <1>2, RanksCover
    <3> QED BY <2>1, <3>1 DEF Covers
  <2> QED BY <2>2, Zenon DEF Nth
<1> HIDE DEF c
<1>7. InOrder(S) \in [1 .. n -> S]
  BY <1>5, <1>6
<1>8. InOrder(S) \in Seq(S) /\ Len(InOrder(S)) = n
  BY <1>3, <1>5, <1>6
<1>9. ASSUME NEW q \in 1 .. n, NEW r \in 1 .. n, q < r PROVE InOrder(S)[q] < InOrder(S)[r]
  <2> DEFINE x == c(q)
             y == c(r)
  <2>1. x \in S /\ y \in S /\ Preceding(S, R, x) = q - 1 /\ Preceding(S, R, y) = r - 1
    BY <1>6
  <2> HIDE DEF x, y
  <2>2. y < x => Preceding(S, R, y) < Preceding(S, R, x)
    BY <1>1, <1>2, <2>1, RanksGrow
  <2>3. x < y
    BY <1>3, <1>9, <2>1, <2>2
  <2> QED BY <1>5, <2>3 DEF x, y
<1>10. ASSUME NEW x \in S PROVE \E r \in 1 .. n : InOrder(S)[r] = x
  <2>1. Preceding(S, R, x) \in 0 .. n - 1
    BY <1>2, RanksGrow
  <2> DEFINE r == Preceding(S, R, x) + 1
  <2>2. r \in 1 .. n /\ Preceding(S, R, x) = r - 1
    BY <1>3, <2>1
  <2> HIDE DEF r
  <2>3. c(r) = x
    BY <1>2, <1>6, <2>2, RanksCover
  <2> QED BY <1>5, <2>2, <2>3
<1> QED BY <1>7, <1>8, <1>9, <1>10

-----------------------------------------------------------------------------
(* Sorting.                                                                *)

\* Positions reordered.
IsPermutation(p, n) ==
  /\ p \in [1 .. n -> 1 .. n]
  /\ \A i, j \in 1 .. n : p[i] = p[j] => i = j
  /\ \A x \in 1 .. n : \E i \in 1 .. n : p[i] = x

\* An order in which elements may be equal.
Compares(less, D) ==
  /\ \A i, j \in D : <<i, j>> \in less => <<j, i>> \notin less
  /\ \A i, j, k \in D : <<i, j>> \notin less /\ <<j, k>> \notin less => <<i, k>> \notin less

\* Nothing that is less comes later, and of equals the first is first.
LEMMA Sorted ==
  ASSUME NEW S, NEW seq \in Seq(S), NEW less, Compares(less, 1 .. Len(seq))
  PROVE  \E p : /\ IsPermutation(p, Len(seq))
                /\ SortedBy(seq, less) = [r \in 1 .. Len(seq) |-> seq[p[r]]]
                /\ \A q, r \in 1 .. Len(seq) :
                     q < r => \/ <<p[q], p[r]>> \in less
                              \/ <<p[r], p[q]>> \notin less /\ p[q] < p[r]
<1> DEFINE n == Len(seq)
           D == DOMAIN seq
           Before(i, j) == <<i, j>> \in less \/ (<<j, i>> \notin less /\ i < j)
           R == Stable(seq, less)
           c(r) == Nth(D, R, r)
           p == [r \in D |-> c(r)]
<1>1. n \in Nat /\ D = 1 .. n
  OBVIOUS
<1>2. \A i, j \in D : <<i, j>> \in R <=> Before(i, j)
  BY DEF Stable, Positions
<1> HIDE DEF R
<1>4. Orders(R, D)
  <2>1. \A i \in D : ~Before(i, i)
    BY DEF Compares
  <2>2. \A i, j \in D : i # j => Before(i, j) \/ Before(j, i)
    OBVIOUS
  <2>3. ASSUME NEW i \in D, NEW j \in D, NEW k \in D, Before(i, j), Before(j, k)
        PROVE  Before(i, k)
    <3>1. <<j, i>> \notin less /\ <<k, j>> \notin less
      BY <2>3 DEF Compares
    <3>2. <<k, i>> \notin less
      BY <3>1 DEF Compares
    <3>3. CASE <<i, j>> \in less
      <4>1. <<i, k>> \in less
        <5>1. <<i, k>> \notin less => <<i, j>> \notin less
          BY <3>1 DEF Compares
        <5> QED BY <3>3, <5>1
      <4> QED BY <4>1
    <3>4. CASE <<j, k>> \in less
      <4>1. <<i, k>> \in less
        <5>1. <<i, k>> \notin less => <<j, k>> \notin less
          BY <3>1 DEF Compares
        <5> QED BY <3>4, <5>1
      <4> QED BY <4>1
    <3>5. CASE <<i, j>> \notin less /\ <<j, k>> \notin less
      BY <2>3, <3>2, <3>5
    <3> QED BY <3>3, <3>4, <3>5
  <2> HIDE DEF D, Before
  <2> QED BY <1>2, <2>1, <2>2, <2>3 DEF Orders
<1>5. IsFiniteSet(D) /\ Cardinality(D) = n
  <2>1. n \in Nat /\ D = 1 .. n
    BY <1>1
  <2> HIDE DEF D, n
  <2>2. IsFiniteSet(1 .. n) /\ Cardinality(1 .. n) = n
    BY ONLY <2>1, FS_Interval
  <2> QED BY ONLY <2>1, <2>2
<1>6. ASSUME NEW r \in D PROVE c(r) \in D /\ Preceding(D, R, c(r)) = r - 1
  <2>1. r - 1 \in 0 .. Cardinality(D) - 1
    BY <1>1, <1>5
  <2>2. \E i \in D : Preceding(D, R, i) = r - 1
    <3>1. Covers(D, R)
      BY <1>4, <1>5, RanksCover
    <3> QED BY <2>1, <3>1 DEF Covers
  <2> QED BY <2>2, Zenon DEF Nth
<1>7. SortedBy(seq, less) = SubSeq([r \in D |-> seq[c(r)]], 1, n)
  BY DEF SortedBy, R
<1> HIDE DEF c
<1>8. SortedBy(seq, less) = [r \in D |-> seq[p[r]]]
  <2> DEFINE t == [r \in D |-> seq[c(r)]]
  <2>1. t \in Seq(S) /\ Len(t) = n
    BY <1>1, <1>6
  <2>2. SubSeq(t, 1, n) = t
    BY <2>1, SubSeqFull
  <2> QED BY <1>7, <2>2
<1>9. IsPermutation(p, n)
  <2>1. p \in [D -> D]
    BY <1>6
  <2>2. \A i, j \in D : p[i] = p[j] => i = j
    <3> SUFFICES ASSUME NEW i \in D, NEW j \in D, p[i] = p[j] PROVE i = j
      OBVIOUS
    <3>1. Preceding(D, R, c(i)) = i - 1 /\ Preceding(D, R, c(j)) = j - 1 /\ c(i) = c(j)
      BY <1>6
    <3>2. i - 1 = j - 1
      BY <3>1
    <3> QED BY <3>2
  <2>3. \A x \in D : \E i \in D : p[i] = x
    <3> TAKE x \in D
    <3>1. Preceding(D, R, x) \in 0 .. n - 1
      BY <1>4, <1>5, RanksGrow
    <3> DEFINE i == Preceding(D, R, x) + 1
    <3>2. i \in D /\ Preceding(D, R, x) = i - 1
      BY <1>1, <3>1
    <3> HIDE DEF i
    <3>3. c(i) = x
      BY <1>4, <1>5, <1>6, <3>2, RanksCover
    <3> QED BY <3>2, <3>3
  <2> QED BY <2>1, <2>2, <2>3 DEF IsPermutation
<1>10. ASSUME NEW q \in D, NEW r \in D, q < r PROVE Before(p[q], p[r])
  <2>1. /\ c(q) \in D /\ c(r) \in D
        /\ Preceding(D, R, c(q)) = q - 1 /\ Preceding(D, R, c(r)) = r - 1
    BY <1>6
  <2>2. c(q) # c(r)
    BY <1>10, <2>1
  <2>3. <<c(r), c(q)>> \notin R
    <3>1. <<c(r), c(q)>> \in R => Preceding(D, R, c(r)) < Preceding(D, R, c(q))
      BY <1>4, <1>5, <2>1, RanksGrow
    <3> QED BY <1>10, <2>1, <3>1
  <2>4. <<c(q), c(r)>> \in R
    BY <1>4, <2>1, <2>2, <2>3 DEF Orders
  <2>5. Before(c(q), c(r))
    BY <1>2, <2>1, <2>4
  <2> QED BY <2>5
<1> HIDE DEF p, D
<1> QED BY <1>1, <1>8, <1>9, <1>10

-----------------------------------------------------------------------------
(* Concatenations.                                                         *)

\* What the concatenation's recursion computes.
IsParts(ss, g) ==
  g = [i \in 1 .. Len(ss) |-> IF i = 1 THEN ss[i] ELSE g[i - 1] \o ss[i]]

\* f is the concatenation of ss's first n elements, the i-th of which begins
\* after off[i].
IsFlat(ss, n, f, off) ==
  /\ off \in [1 .. n + 1 -> Nat] /\ off[1] = 0
  /\ \A i \in 1 .. n : off[i + 1] = off[i] + Len(ss[i])
  /\ Len(f) = off[n + 1]
  /\ \A i \in 1 .. n : \A j \in 1 .. Len(ss[i]) : f[off[i] + j] = ss[i][j]
  /\ \A x \in 1 .. Len(f) : \E i \in 1 .. n : \E j \in 1 .. Len(ss[i]) : x = off[i] + j
  /\ \A i, k \in 1 .. n : i < k => off[i + 1] <= off[k]

\* One sequence more, at the end.
LEMMA FlatMore ==
  ASSUME NEW S, NEW ss \in Seq(Seq(S)), NEW n \in Nat, n < Len(ss), NEW f \in Seq(S),
         NEW off, IsFlat(ss, n, f, off)
  PROVE  \E o : IsFlat(ss, n + 1, f \o ss[n + 1], o)
<1> DEFINE s == ss[n + 1]
           h == f \o s
           o == [i \in 1 .. n + 2 |-> IF i <= n + 1 THEN off[i] ELSE off[n + 1] + Len(s)]
<1>0. \A i \in 1 .. n + 1 : ss[i] \in Seq(S) /\ Len(ss[i]) \in Nat
  <2> TAKE i \in 1 .. n + 1
  <2>1. i \in 1 .. Len(ss)
    OBVIOUS
  <2>2. ss[i] \in Seq(S)
    BY <2>1
  <2> QED BY <2>2
<1>1. s \in Seq(S) /\ Len(s) \in Nat /\ Len(f) \in Nat
  BY <1>0
<1>2. /\ Len(h) = Len(f) + Len(s)
      /\ \A x \in 1 .. Len(f) : h[x] = f[x]
      /\ \A x \in 1 .. Len(s) : h[Len(f) + x] = s[x]
  BY <1>1
<1>3. /\ off \in [1 .. n + 1 -> Nat] /\ off[1] = 0 /\ Len(f) = off[n + 1]
      /\ \A i \in 1 .. n : off[i + 1] = off[i] + Len(ss[i])
  BY DEF IsFlat
<1> HIDE DEF h
<1>4. /\ o \in [1 .. n + 2 -> Nat] /\ \A i \in 1 .. n + 1 : o[i] = off[i]
      /\ o[n + 2] = off[n + 1] + Len(s)
  BY <1>1, <1>3
<1> HIDE DEF o
<1>5. \A i \in 1 .. n + 1 : o[i + 1] = o[i] + Len(ss[i])
  <2> TAKE i \in 1 .. n + 1
  <2>1. CASE i = n + 1
    BY <1>4, <2>1
  <2>2. CASE i # n + 1
    <3>1. i \in 1 .. n /\ i + 1 \in 1 .. n + 1
      BY <2>2
    <3> QED BY <1>3, <1>4, <3>1
  <2> QED BY <2>1, <2>2
<1>6. Len(h) = o[n + 2] /\ o[1] = 0
  BY <1>2, <1>3, <1>4
<1>7. ASSUME NEW i \in 1 .. n + 1, NEW j \in 1 .. Len(ss[i]) PROVE h[o[i] + j] = ss[i][j]
  <2>1. CASE i = n + 1
    BY <1>2, <1>3, <1>4, <2>1
  <2>2. CASE i # n + 1
    <3>0. i \in 1 .. n
      BY <2>2
    <3>1. i \in 1 .. n /\ o[i] = off[i] /\ Len(ss[i]) \in Nat /\ off[i] \in Nat
      BY <1>0, <1>3, <1>4, <3>0
    <3>2. f[off[i] + j] = ss[i][j]
      BY <3>1 DEF IsFlat
    <3>3. off[i] + Len(ss[i]) <= Len(f)
      <4>1. CASE i = n
        BY <1>3, <3>1, <4>1
      <4>2. CASE i # n
        <5>1. off[i + 1] <= off[n] /\ n \in 1 .. n /\ n \in 1 .. n + 1
          BY <3>1, <4>2 DEF IsFlat
        <5>2. off[n + 1] = off[n] + Len(ss[n]) /\ off[i + 1] = off[i] + Len(ss[i])
          BY <1>3, <3>1, <5>1
        <5>3. off[n] \in Nat /\ Len(ss[n]) \in Nat /\ Len(ss[i]) \in Nat
          BY <1>0, <1>3, <3>1, <5>1
        <5>4. Len(f) = off[n + 1]
          BY <1>3
        <5> DEFINE a == off[i + 1]
                   b == off[n]
                   c == Len(ss[n])
                   d == off[i] + Len(ss[i])
        <5>5. a <= b /\ Len(f) = b + c /\ a = d /\ b \in Nat /\ c \in Nat /\ d \in Nat
          <6>1. off[i] \in Nat
            BY <1>0, <1>3, <3>1
          <6>2. d \in Nat
            BY ONLY <6>1, <5>3
          <6> QED BY ONLY <6>2, <5>1, <5>2, <5>3, <5>4
        <5> HIDE DEF a, b, c, d
        <5>6. d <= Len(f)
          BY ONLY <5>5
        <5> QED BY <5>6 DEF d
      <4> QED BY <4>1, <4>2
    <3>4. off[i] + j \in 1 .. Len(f)
      <4>1. j \in Nat /\ 1 <= j /\ j <= Len(ss[i])
        BY <3>1
      <4>2. off[i] + j <= off[i] + Len(ss[i]) /\ Len(f) \in Nat
        BY <1>1, <3>1, <4>1
      <4> QED BY ONLY <3>1, <3>3, <4>1, <4>2
    <3>5. h[off[i] + j] = f[off[i] + j]
      BY <1>2, <3>4
    <3> QED BY ONLY <3>1, <3>2, <3>5
  <2> QED BY <2>1, <2>2
<1>8. ASSUME NEW x \in 1 .. Len(h)
      PROVE  \E i \in 1 .. n + 1 : \E j \in 1 .. Len(ss[i]) : x = o[i] + j
  <2>1. CASE x <= Len(f)
    <3>1. PICK i \in 1 .. n : \E j \in 1 .. Len(ss[i]) : x = off[i] + j
      BY <1>1, <2>1 DEF IsFlat
    <3>2. i \in 1 .. n + 1 /\ o[i] = off[i]
      BY <1>4
    <3> QED BY <3>1, <3>2
  <2>2. CASE x > Len(f)
    <3>1. x - Len(f) \in 1 .. Len(s) /\ x = Len(f) + (x - Len(f))
      BY <1>1, <1>2, <2>2
    <3>2. o[n + 1] = Len(f) /\ n + 1 \in 1 .. n + 1
      BY <1>3, <1>4
    <3> QED BY <3>1, <3>2
  <2> QED BY <1>1, <2>1, <2>2
<1>9. ASSUME NEW i \in 1 .. n + 1, NEW k \in 1 .. n + 1, i < k PROVE o[i + 1] <= o[k]
  <2>0. i \in 1 .. n /\ i + 1 \in 1 .. n + 1 /\ o[i + 1] = off[i + 1] /\ o[k] = off[k]
    BY <1>4, <1>9
  <2>1. CASE k <= n
    <3>1. off[i + 1] <= off[k]
      BY <1>9, <2>0, <2>1 DEF IsFlat
    <3> QED BY <2>0, <3>1
  <2>2. CASE k = n + 1
    <3>1. CASE i = n
      BY <1>3, <2>0, <2>2, <3>1
    <3>2. CASE i # n
      <4>1. off[i + 1] <= off[n] /\ n \in 1 .. n /\ n \in 1 .. n + 1
        BY <1>9, <2>0, <3>2 DEF IsFlat
      <4>2. off[n + 1] = off[n] + Len(ss[n]) /\ off[n] \in Nat /\ Len(ss[n]) \in Nat
            /\ off[i + 1] \in Nat
        BY <1>0, <1>3, <2>0, <4>1
      <4> QED BY <2>0, <2>2, <4>1, <4>2
    <3> QED BY <3>1, <3>2
  <2> QED BY <2>1, <2>2
<1> HIDE DEF s
<1>10. IsFlat(ss, n + 1, h, o)
  <2>1. (n + 1) + 1 = n + 2
    OBVIOUS
  <2> QED BY <1>4, <1>5, <1>6, <1>7, <1>8, <1>9, <2>1 DEF IsFlat
<1> QED BY <1>10 DEF h, s

\* Where the elements of a concatenation are.
LEMMA Flat ==
  ASSUME NEW S, NEW ss \in Seq(Seq(S))
  PROVE  FlattenSeq(ss) \in Seq(S) /\ \E off : IsFlat(ss, Len(ss), FlattenSeq(ss), off)
<1> DEFINE N == Len(ss)
           Recurs(g, n) == \A i \in 1 .. n : g[i] = IF i = 1 THEN ss[i] ELSE g[i - 1] \o ss[i]
           Starts(n) == \E g \in [1 .. n -> Seq(S)] : Recurs(g, n)
           A == {n \in Nat : n <= N => Starts(n)}
<1>1. N \in Nat /\ \A i \in 1 .. N : ss[i] \in Seq(S)
  OBVIOUS
<1>2. 0 \in A
  <2>1. [i \in 1 .. 0 |-> ss[i]] \in [1 .. 0 -> Seq(S)] /\ Recurs([i \in 1 .. 0 |-> ss[i]], 0)
    OBVIOUS
  <2> QED BY <2>1
<1>3. ASSUME NEW n \in Nat, n \in A PROVE n + 1 \in A
  <2> HIDE DEF Starts
  <2> SUFFICES ASSUME n + 1 <= N PROVE Starts(n + 1)
    OBVIOUS
  <2>0. Starts(n)
    BY <1>1, <1>3
  <2> HIDE DEF Recurs
  <2>1. PICK g \in [1 .. n -> Seq(S)] : Recurs(g, n)
    BY <2>0 DEF Starts
  <2> DEFINE last == IF n = 0 THEN ss[1] ELSE g[n] \o ss[n + 1]
             h == [i \in 1 .. n + 1 |-> IF i <= n THEN g[i] ELSE last]
  <2> HIDE DEF last
  <2>2. /\ \A i \in 1 .. n : h[i] = g[i] /\ i \in 1 .. n + 1
        /\ h[n + 1] = last /\ DOMAIN h = 1 .. n + 1
    OBVIOUS
  <2>3. last \in Seq(S)
    <3>1. ss[n + 1] \in Seq(S)
      BY <1>1
    <3>2. CASE n = 0
      BY <3>1, <3>2 DEF last
    <3>3. CASE n # 0
      <4>1. g[n] \in Seq(S)
        BY <3>3
      <4> QED BY <3>1, <3>3, <4>1 DEF last
    <3> QED BY <3>2, <3>3
  <2>4. h \in [1 .. n + 1 -> Seq(S)]
    BY <2>3
  <2> HIDE DEF h
  <2>5. Recurs(h, n + 1)
    <3> SUFFICES ASSUME NEW i \in 1 .. n + 1
                 PROVE  h[i] = IF i = 1 THEN ss[i] ELSE h[i - 1] \o ss[i]
      BY DEF Recurs
    <3>1. CASE i \in 1 .. n
      <4>1. g[i] = IF i = 1 THEN ss[i] ELSE g[i - 1] \o ss[i]
        BY <2>1, <3>1 DEF Recurs
      <4>2. i # 1 => h[i - 1] = g[i - 1]
        BY <2>2, <3>1
      <4>3. h[i] = g[i]
        BY <2>2, <3>1
      <4> QED BY <4>1, <4>2, <4>3
    <3>2. CASE i = n + 1
      <4>1. n # 0 => h[n] = g[n]
        BY <2>2
      <4>2. n + 1 = 1 <=> n = 0
        OBVIOUS
      <4>3. (n + 1) - 1 = n /\ 0 + 1 = 1
        OBVIOUS
      <4> QED BY <2>2, <3>2, <4>1, <4>2, <4>3 DEF last
    <3> QED BY <3>1, <3>2
  <2> QED BY <2>4, <2>5 DEF Starts
<1>4. N \in A
  <2> HIDE DEF A
  <2> QED BY <1>1, <1>2, <1>3, NumberInduction
<1>5. PICK g0 \in [1 .. N -> Seq(S)] : Recurs(g0, N)
  BY <1>1, <1>4
<1>6. IsParts(ss, g0)
  <2>1. g0 = [i \in 1 .. N |-> g0[i]]
    OBVIOUS
  <2> QED BY <1>5, <2>1 DEF IsParts
<1> DEFINE g == CHOOSE p : IsParts(ss, p)
<1>7. IsParts(ss, g)
  BY <1>6, Zenon
<1>8. N # 0 => FlattenSeq(ss) = g[N]
  BY DEF FlattenSeq, IsParts
<1> HIDE DEF g
<1>9. \A i \in 1 .. N : g[i] = IF i = 1 THEN ss[i] ELSE g[i - 1] \o ss[i]
  BY <1>7 DEF IsParts
<1> DEFINE Part(n) == IF n = 0 THEN <<>> ELSE g[n]
           B == {n \in Nat : n <= N => /\ Part(n) \in Seq(S)
                                       /\ \E off : IsFlat(ss, n, Part(n), off)}
<1>10. \A n \in Nat : n < N /\ Part(n) \in Seq(S) => Part(n + 1) = Part(n) \o ss[n + 1]
  <2> TAKE n \in Nat
  <2> HAVE n < N /\ Part(n) \in Seq(S)
  <2>0. n + 1 \in 1 .. N /\ n + 1 # 0 /\ (n + 1) - 1 = n
    BY <1>1
  <2>1. CASE n = 0
    <3>1. ss[1] \in Seq(S) /\ Part(1) = ss[1] /\ Part(0) = <<>>
      BY <1>1, <1>9, <2>0, <2>1
    <3>2. <<>> \o ss[1] = ss[1]
      BY <3>1
    <3> QED BY <2>1, <3>1, <3>2
  <2>2. CASE n # 0
    <3>1. g[n + 1] = g[n] \o ss[n + 1]
      <4>1. n + 1 # 1
        BY <2>2
      <4> HIDE DEF Part
      <4> QED BY <1>9, <2>0, <4>1
    <3> QED BY <2>0, <2>2, <3>1
  <2> QED BY <2>1, <2>2
<1>11. 0 \in B
  <2>1. <<>> \in Seq(S) /\ Len(<<>>) = 0
    OBVIOUS
  <2> DEFINE o == [i \in 1 .. 1 |-> 0]
  <2>2. o \in [1 .. 0 + 1 -> Nat] /\ o[1] = 0 /\ o[0 + 1] = 0
    OBVIOUS
  <2> HIDE DEF o
  <2>3. IsFlat(ss, 0, <<>>, o)
    BY <2>1, <2>2 DEF IsFlat
  <2> QED BY <2>1, <2>3
<1>12. ASSUME NEW n \in Nat, n \in B PROVE n + 1 \in B
  <2> SUFFICES ASSUME n + 1 <= N
               PROVE  Part(n + 1) \in Seq(S) /\ \E off : IsFlat(ss, n + 1, Part(n + 1), off)
    OBVIOUS
  <2>0. n < N /\ n + 1 \in 1 .. N
    BY <1>1
  <2>1. Part(n) \in Seq(S) /\ \E off : IsFlat(ss, n, Part(n), off)
    BY <1>1, <1>12, <2>0
  <2>2. Part(n + 1) = Part(n) \o ss[n + 1] /\ ss[n + 1] \in Seq(S)
    BY <1>1, <1>10, <2>0, <2>1
  <2> HIDE DEF Part
  <2>3. Part(n) \o ss[n + 1] \in Seq(S)
    BY <2>1, <2>2
  <2>4. \E o : IsFlat(ss, n + 1, Part(n) \o ss[n + 1], o)
    BY <2>0, <2>1, FlatMore
  <2> QED BY <2>2, <2>3, <2>4
<1>13. N \in B
  <2> HIDE DEF B
  <2> QED BY <1>1, <1>11, <1>12, NumberInduction
<1>14. FlattenSeq(ss) = Part(N)
  <2>1. CASE N = 0
    <3>1. ss = <<>>
      BY <2>1
    <3>2. FlattenSeq(ss) = ss
      BY <2>1 DEF FlattenSeq
    <3> QED BY <2>1, <3>1, <3>2
  <2>2. CASE N # 0
    BY <1>8, <2>2
  <2> QED BY <2>1, <2>2
<1> QED BY <1>1, <1>13, <1>14

-----------------------------------------------------------------------------
(* Sequences that list a set, each element once.                           *)

\* Every element of X once.
Lists(seq, X) ==
  /\ seq \in Seq(X)
  /\ \A i, j \in 1 .. Len(seq) : seq[i] = seq[j] => i = j
  /\ \A x \in X : \E i \in 1 .. Len(seq) : seq[i] = x

\* A list is as long as its set.
LEMMA ListsCount ==
  ASSUME NEW X, NEW seq, Lists(seq, X)
  PROVE  IsFiniteSet(X) /\ Cardinality(X) = Len(seq) /\ ToSet(seq) = X
<1> DEFINE n == Len(seq)
<1>1. /\ n \in Nat /\ seq \in [1 .. n -> X]
      /\ \A i, j \in 1 .. n : seq[i] = seq[j] => i = j
      /\ \A x \in X : \E i \in 1 .. n : seq[i] = x
      /\ DOMAIN seq = 1 .. n
  BY DEF Lists
<1>2. ToSet(seq) = X
  BY <1>1 DEF ToSet
<1> HIDE DEF n
<1>3. seq \in Surjection(1 .. n, X) /\ seq \in Injection(1 .. n, X)
  BY <1>1 DEF Surjection, Injection, IsInjective
<1>4. IsFiniteSet(1 .. n) /\ Cardinality(1 .. n) = n
  BY <1>1, FS_Interval
<1> QED BY <1>2, <1>3, <1>4, FS_Surjection DEF n

\* A list in another order is a list of the same set.
LEMMA ListsPermuted ==
  ASSUME NEW X, NEW seq, Lists(seq, X), NEW p, IsPermutation(p, Len(seq))
  PROVE  Lists([r \in 1 .. Len(seq) |-> seq[p[r]]], X)
<1> DEFINE n == Len(seq)
           t == [r \in 1 .. n |-> seq[p[r]]]
<1>1. n \in Nat /\ \A i \in 1 .. n : seq[i] \in X
  BY DEF Lists
<1>2. t \in Seq(X) /\ Len(t) = n
  BY <1>1 DEF IsPermutation
<1>3. \A i, j \in 1 .. n : t[i] = t[j] => i = j
  BY DEF IsPermutation, Lists
<1>4. ASSUME NEW x \in X PROVE \E i \in 1 .. n : t[i] = x
  <2>1. PICK j \in 1 .. n : seq[j] = x
    BY DEF Lists
  <2>2. PICK i \in 1 .. n : p[i] = j
    BY DEF IsPermutation
  <2> QED BY <2>1, <2>2
<1> HIDE DEF t
<1>5. Lists(t, X)
  BY <1>2, <1>3, <1>4 DEF Lists
<1> QED BY <1>5 DEF t

\* Two lists of sets with nothing in common, one after the other.
LEMMA ListsConcat ==
  ASSUME NEW X, NEW Y, X \cap Y = {}, NEW s, Lists(s, X), NEW t, Lists(t, Y)
  PROVE  Lists(s \o t, X \cup Y)
<1> DEFINE m == Len(s)
           n == Len(t)
           u == s \o t
<1>1. s \in Seq(X \cup Y) /\ t \in Seq(X \cup Y) /\ m \in Nat /\ n \in Nat
  BY DEF Lists
<1>2. /\ u \in Seq(X \cup Y) /\ Len(u) = m + n
      /\ \A i \in 1 .. m : u[i] = s[i] /\ s[i] \in X
      /\ \A i \in m + 1 .. m + n : u[i] = t[i - m] /\ t[i - m] \in Y /\ i - m \in 1 .. n
  <2>1. u \in Seq(X \cup Y) /\ Len(u) = m + n
    BY <1>1
  <2>2. ASSUME NEW i \in 1 .. m PROVE u[i] = s[i] /\ s[i] \in X
    BY <1>1 DEF Lists
  <2>3. ASSUME NEW i \in m + 1 .. m + n
        PROVE  u[i] = t[i - m] /\ t[i - m] \in Y /\ i - m \in 1 .. n
    <3>1. i - m \in 1 .. n
      BY <1>1
    <3>2. t[i - m] \in Y
      BY <3>1 DEF Lists
    <3> QED BY <1>1, <3>1, <3>2
  <2> QED BY <2>1, <2>2, <2>3
<1> HIDE DEF u
<1>3. ASSUME NEW i \in 1 .. m + n, NEW j \in 1 .. m + n, u[i] = u[j] PROVE i = j
  <2>0. (i \in 1 .. m \/ i \in m + 1 .. m + n) /\ (j \in 1 .. m \/ j \in m + 1 .. m + n)
    BY <1>1
  <2>1. CASE i \in 1 .. m /\ j \in 1 .. m
    BY <1>2, <1>3, <2>1 DEF Lists
  <2>2. CASE i \in m + 1 .. m + n /\ j \in m + 1 .. m + n
    <3>1. t[i - m] = t[j - m] /\ i - m \in 1 .. n /\ j - m \in 1 .. n
      BY <1>2, <1>3, <2>2
    <3>2. i - m = j - m
      BY <3>1 DEF Lists
    <3> QED BY <1>1, <3>2
  <2>3. CASE i \in 1 .. m /\ j \in m + 1 .. m + n
    BY <1>2, <1>3, <2>3
  <2>4. CASE i \in m + 1 .. m + n /\ j \in 1 .. m
    BY <1>2, <1>3, <2>4
  <2> QED BY <2>0, <2>1, <2>2, <2>3, <2>4
<1>4. ASSUME NEW x \in X \cup Y PROVE \E i \in 1 .. m + n : u[i] = x
  <2>1. CASE x \in X
    <3>1. PICK i \in 1 .. m : s[i] = x
      BY <2>1 DEF Lists
    <3>2. i \in 1 .. m + n
      BY <1>1
    <3> QED BY <1>2, <3>1, <3>2
  <2>2. CASE x \in Y
    <3>1. PICK i \in 1 .. n : t[i] = x
      BY <2>2 DEF Lists
    <3>2. m + i \in m + 1 .. m + n /\ m + i \in 1 .. m + n /\ (m + i) - m = i
      BY <1>1
    <3> QED BY <1>2, <3>1, <3>2
  <2> QED BY <2>1, <2>2
<1> HIDE DEF m, n
<1>5. Lists(u, X \cup Y)
  BY <1>2, <1>3, <1>4 DEF Lists
<1> QED BY <1>5 DEF u

\* Lists of sets that have nothing in common.
AreLists(ss, X, n) ==
  /\ \A p \in 1 .. n : Lists(ss[p], X[p])
  /\ \A p, q \in 1 .. n : p # q => X[p] \cap X[q] = {}
AllOf(X, n) == UNION {X[p] : p \in 1 .. n}

\* The concatenation lists what is in any.
LEMMA ListsFlat ==
  ASSUME NEW S, NEW ss \in Seq(Seq(S)), NEW X, AreLists(ss, X, Len(ss))
  PROVE  Lists(FlattenSeq(ss), AllOf(X, Len(ss)))
<1>0. /\ \A p \in 1 .. Len(ss) : Lists(ss[p], X[p])
      /\ \A p, q \in 1 .. Len(ss) : p # q => X[p] \cap X[q] = {}
  BY DEF AreLists
<1> DEFINE n == Len(ss)
           f == FlattenSeq(ss)
           U == UNION {X[p] : p \in 1 .. n}
<1>1. PICK off : IsFlat(ss, n, f, off)
  BY Flat
<1>2. f \in Seq(S)
  BY Flat
<1> HIDE DEF f
<1>3. \A x \in 1 .. Len(f) : \E i \in 1 .. n : \E j \in 1 .. Len(ss[i]) : x = off[i] + j
  BY <1>1 DEF IsFlat
<1>4. ASSUME NEW i \in 1 .. n, NEW j \in 1 .. Len(ss[i])
      PROVE  /\ f[off[i] + j] = ss[i][j] /\ ss[i][j] \in X[i]
             /\ off[i] + j \in 1 .. Len(f)
  <2>0. Lists(ss[i], X[i])
    BY <1>0
  <2>1. f[off[i] + j] = ss[i][j] /\ ss[i][j] \in X[i]
    <3>1. f[off[i] + j] = ss[i][j]
      BY <1>1 DEF IsFlat
    <3>2. ss[i] \in Seq(X[i])
      BY <2>0 DEF Lists
    <3>3. ss[i][j] \in X[i]
      BY <3>2
    <3> QED BY <3>1, <3>3
  <2>2. /\ off[i] \in Nat /\ off[i + 1] = off[i] + Len(ss[i]) /\ off[i + 1] \in Nat
        /\ Len(f) = off[n + 1] /\ n \in Nat /\ off[n + 1] \in Nat
    <3>1. n \in Nat /\ i \in 1 .. n + 1 /\ i + 1 \in 1 .. n + 1 /\ n + 1 \in 1 .. n + 1
      OBVIOUS
    <3> QED BY <1>1, <3>1 DEF IsFlat
  <2>3. off[i + 1] <= off[n + 1]
    <3>1. CASE i = n
      BY <2>2, <3>1
    <3>2. CASE i # n
      <4>1. n \in 1 .. n /\ i < n /\ n \in 1 .. n + 1
        BY <3>2
      <4>2. off[i + 1] <= off[n] /\ off[n + 1] = off[n] + Len(ss[n]) /\ off[n] \in Nat
        BY <1>1, <4>1 DEF IsFlat
      <4>3. Len(ss[n]) \in Nat
        BY <4>1
      <4> DEFINE a == off[i + 1]
                 b == off[n]
                 c == Len(ss[n])
                 d == off[n + 1]
      <4>4. a <= b /\ d = b + c /\ a \in Nat /\ b \in Nat /\ c \in Nat
        BY <2>2, <4>2, <4>3
      <4> HIDE DEF a, b, c, d
      <4>5. a <= d
        BY ONLY <4>4
      <4> QED BY <4>5 DEF a, d
    <3> QED BY <3>1, <3>2
  <2> DEFINE a == off[i]
             c == Len(ss[i])
             d == off[n + 1]
  <2>4. c \in Nat /\ a + c <= d /\ a \in Nat /\ d \in Nat /\ j \in 1 .. c
    BY <2>2, <2>3
  <2> HIDE DEF a, c, d
  <2>5. a + j \in 1 .. d
    BY ONLY <2>4
  <2> QED BY <2>1, <2>2, <2>5 DEF a, d
<1>5. ASSUME NEW x \in 1 .. Len(f) PROVE f[x] \in U
  <2>1. PICK i \in 1 .. n : \E j \in 1 .. Len(ss[i]) : x = off[i] + j
    BY <1>3
  <2>2. PICK j \in 1 .. Len(ss[i]) : x = off[i] + j
    BY <2>1
  <2>3. f[x] \in X[i]
    BY <1>4, <2>2
  <2> QED BY <2>3
<1>6. f \in Seq(U)
  <2>1. Len(f) \in Nat /\ f = [x \in 1 .. Len(f) |-> f[x]]
    BY <1>2
  <2> DEFINE L == Len(f)
  <2>2. \A x \in 1 .. L : f[x] \in U
    BY <1>5
  <2> HIDE DEF L, U
  <2>3. [x \in 1 .. L |-> f[x]] \in Seq(U)
    BY <2>1, <2>2 DEF L
  <2> QED BY <2>1, <2>3 DEF L
<1>7. ASSUME NEW x \in 1 .. Len(f), NEW y \in 1 .. Len(f), f[x] = f[y] PROVE x = y
  <2>1. PICK i \in 1 .. n : \E j \in 1 .. Len(ss[i]) : x = off[i] + j
    BY <1>3
  <2>2. PICK j \in 1 .. Len(ss[i]) : x = off[i] + j
    BY <2>1
  <2>3. PICK k \in 1 .. n : \E l \in 1 .. Len(ss[k]) : y = off[k] + l
    BY <1>3
  <2>4. PICK l \in 1 .. Len(ss[k]) : y = off[k] + l
    BY <2>3
  <2>5. f[x] = ss[i][j] /\ f[x] \in X[i] /\ f[y] = ss[k][l] /\ f[y] \in X[k]
    BY <1>4, <2>2, <2>4
  <2>6. i = k
    BY <1>0, <1>7, <2>5
  <2>7. j = l
    <3>1. Lists(ss[i], X[i]) /\ ss[i][j] = ss[i][l] /\ l \in 1 .. Len(ss[i])
      BY <1>0, <1>7, <2>5, <2>6
    <3> QED BY <3>1 DEF Lists
  <2> QED BY <2>2, <2>4, <2>6, <2>7
<1>8. ASSUME NEW x \in U PROVE \E y \in 1 .. Len(f) : f[y] = x
  <2>1. PICK i \in 1 .. n : x \in X[i]
    OBVIOUS
  <2>2. PICK j \in 1 .. Len(ss[i]) : ss[i][j] = x
    BY <1>0, <2>1 DEF Lists
  <2> QED BY <1>4, <2>2
<1> HIDE DEF U, n
<1>9. Lists(f, U)
  BY <1>6, <1>7, <1>8 DEF Lists
<1> QED BY <1>9 DEF f, U, n, AllOf

\* The sum over a list is the sum over the set.
LEMMA ListsSum ==
  ASSUME NEW X, NEW seq, Lists(seq, X), NEW w, \A x \in X : w[x] \in Int
  PROVE  SumOf(seq, w) = SumFunction([x \in X |-> w[x]])
<1> DEFINE f == [x \in X |-> w[x]]
           n == Len(seq)
<1>1. /\ n \in Nat /\ seq \in [1 .. n -> X] /\ DOMAIN seq = 1 .. n
      /\ \A i, j \in 1 .. n : seq[i] = seq[j] => i = j
      /\ \A x \in X : \E i \in 1 .. n : seq[i] = x
  <2>1. seq \in Seq(X)
    BY DEF Lists
  <2>2. n \in Nat /\ seq \in [1 .. n -> X] /\ DOMAIN seq = 1 .. n
    BY <2>1
  <2>3. /\ \A i, j \in 1 .. n : seq[i] = seq[j] => i = j
        /\ \A x \in X : \E i \in 1 .. n : seq[i] = x
    BY DEF Lists
  <2> QED BY <2>2, <2>3
<1>2. IsFiniteSet(X) /\ IsFiniteSet(1 .. n) /\ f \in [X -> Int]
  BY <1>1, ListsCount, FS_Interval
<1>3. SumOf(seq, w) = SumFunction([i \in 1 .. n |-> f[seq[i]]])
  <2>1. [i \in DOMAIN seq |-> w[seq[i]]] = [i \in 1 .. n |-> f[seq[i]]]
    BY <1>1
  <2> QED BY <2>1 DEF SumOf
<1> HIDE DEF f, n
<1>4. SumFunction([i \in 1 .. n |-> f[seq[i]]]) = SumFunction(f)
  <2> DEFINE D == 1 .. n
  <2>1. Renames(seq, D, X) /\ IsFiniteSet(D)
    BY <1>1, <1>2 DEF Renames
  <2> HIDE DEF D
  <2>2. SumFunction([i \in D |-> f[seq[i]]]) = SumFunction(f)
    BY <1>2, <2>1, SumRenamed
  <2> QED BY <2>2 DEF D
<1> QED BY <1>3, <1>4 DEF f

\* A sum of numbers.
LEMMA SumOverNat ==
  ASSUME NEW S, IsFiniteSet(S), NEW f \in [S -> Nat], NEW T \in SUBSET S
  PROVE  SumOver(f, T) \in Nat
<1> DEFINE P == {U \in SUBSET T : SumOver(f, U) \in Nat}
<1>0. IsFiniteSet(T) /\ f \in [S -> Int]
  BY FS_Subset
<1>1. {} \in P
  BY SumOverNone
<1>2. ASSUME NEW U \in SUBSET T, NEW x \in T \ U, U \in P PROVE U \cup {x} \in P
  <2>1. SumOver(f, U \cup {x}) = f[x] + SumOver(f, U)
    BY <1>0, SumOverMore
  <2>2. f[x] \in Nat /\ SumOver(f, U) \in Nat
    BY <1>2
  <2> QED BY <2>1, <2>2
<1> HIDE DEF P
<1>3. T \in P
  BY <1>0, <1>1, <1>2, SetInduction
<1> QED BY <1>3 DEF P

-----------------------------------------------------------------------------
(* The order of the sets of rows.                                          *)

\* Sequences of one length are totally ordered by their first difference.
LEMMA LexOrder ==
  ASSUME NEW a \in Seq(Int), NEW b \in Seq(Int), NEW c \in Seq(Int),
         Len(a) = Len(b), Len(b) = Len(c)
  PROVE  /\ ~LexLess(a, a)
         /\ LexLess(a, b) /\ LexLess(b, c) => LexLess(a, c)
         /\ a = b \/ LexLess(a, b) \/ LexLess(b, a)
<1> DEFINE n == Len(a)
<1>1. /\ n \in Nat /\ DOMAIN a = 1 .. n /\ DOMAIN b = 1 .. n
      /\ \A i \in 1 .. n : a[i] \in Int /\ b[i] \in Int /\ c[i] \in Int
  OBVIOUS
<1>2. ~LexLess(a, a)
  <2> SUFFICES ASSUME NEW i \in 1 .. n, a[i] < a[i] PROVE FALSE
    BY <1>1 DEF LexLess
  <2> QED BY <1>1
<1>3. ASSUME LexLess(a, b), LexLess(b, c) PROVE LexLess(a, c)
  <2>1. PICK i \in 1 .. n : a[i] < b[i] /\ \A j \in 1 .. i - 1 : a[j] = b[j]
    BY <1>1, <1>3 DEF LexLess
  <2>2. PICK k \in 1 .. n : b[k] < c[k] /\ \A j \in 1 .. k - 1 : b[j] = c[j]
    BY <1>1, <1>3 DEF LexLess
  <2> DEFINE m == IF i <= k THEN i ELSE k
  <2>3. m \in 1 .. n
    OBVIOUS
  <2>4. a[m] < c[m]
    <3>1. CASE i < k
      <4>1. m = i /\ i \in 1 .. k - 1
        BY <3>1
      <4> QED BY <2>1, <2>2, <4>1
    <3>2. CASE i = k
      <4>1. m = i
        BY <3>2
      <4> QED BY <1>1, <2>1, <2>2, <3>2, <4>1
    <3>3. CASE i > k
      <4>1. m = k /\ k \in 1 .. i - 1
        BY <3>3
      <4> QED BY <2>1, <2>2, <4>1
    <3> QED BY <3>1, <3>2, <3>3
  <2>5. \A j \in 1 .. m - 1 : a[j] = c[j]
    <3> TAKE j \in 1 .. m - 1
    <3>1. j \in 1 .. i - 1 /\ j \in 1 .. k - 1
      OBVIOUS
    <3> QED BY <2>1, <2>2, <3>1
  <2> HIDE DEF m
  <2> QED BY <1>1, <2>3, <2>4, <2>5 DEF LexLess
<1>4. ASSUME a # b PROVE LexLess(a, b) \/ LexLess(b, a)
  <2> DEFINE D == {i \in 1 .. n : a[i] # b[i]}
  <2>1. D \in SUBSET Nat /\ D # {}
    <3>1. \E i \in 1 .. n : a[i] # b[i]
      BY <1>4, SeqEqual
    <3>2. 1 .. n \subseteq Nat
      OBVIOUS
    <3> HIDE DEF n
    <3> QED BY <3>1, <3>2
  <2>2. PICK i \in D : \A j \in D : i <= j
    BY <2>1, Least
  <2>3. i \in 1 .. n /\ a[i] # b[i] /\ \A j \in 1 .. i - 1 : a[j] = b[j]
    <3>1. ASSUME NEW j \in 1 .. i - 1 PROVE a[j] = b[j]
      <4>0. i \in 1 .. n
        BY <2>2
      <4>1. j \in 1 .. n /\ ~(i <= j)
        BY ONLY <1>1, <4>0
      <4> QED BY <2>2, <4>1
    <3> QED BY <2>2, <3>1
  <2> HIDE DEF D
  <2>4. a[i] < b[i] \/ b[i] < a[i]
    BY <1>1, <2>3
  <2> QED BY <1>1, <2>3, <2>4 DEF LexLess
<1> QED BY <1>2, <1>3, <1>4

\* Sets of rows 1 .. n.
SetsOf(n) == [items : Seq(1 .. n), sum : Int]

\* Set.__lt__ is a total order.
LEMMA SetOrder ==
  ASSUME NEW n \in Nat, NEW a \in SetsOf(n), NEW b \in SetsOf(n), NEW c \in SetsOf(n)
  PROVE  /\ ~SetLess(a, a)
         /\ SetLess(a, b) /\ SetLess(b, c) => SetLess(a, c)
         /\ a = b \/ SetLess(a, b) \/ SetLess(b, a)
<1>1. /\ a.items \in Seq(Int) /\ b.items \in Seq(Int) /\ c.items \in Seq(Int)
      /\ a.sum \in Int /\ b.sum \in Int /\ c.sum \in Int
  BY DEF SetsOf
<1>2. Len(a.items) \in Nat /\ Len(b.items) \in Nat /\ Len(c.items) \in Nat
  BY <1>1
<1>3. a.sum = b.sum /\ a.items = b.items => a = b
  BY DEF SetsOf
<1> DEFINE La == Len(a.items)
           Lb == Len(b.items)
           Lc == Len(c.items)
<1>4. /\ ~LexLess(a.items, a.items)
      /\ La = Lb /\ Lb = Lc /\ LexLess(a.items, b.items) /\ LexLess(b.items, c.items)
           => LexLess(a.items, c.items)
      /\ La = Lb => a.items = b.items \/ LexLess(a.items, b.items) \/ LexLess(b.items, a.items)
  BY <1>1, LexOrder
<1>5. ~SetLess(a, a)
  BY <1>1, <1>2, <1>4 DEF SetLess
<1>6. SetLess(a, b) /\ SetLess(b, c) => SetLess(a, c)
  BY <1>1, <1>2, <1>4 DEF SetLess
<1>7. a = b \/ SetLess(a, b) \/ SetLess(b, a)
  BY <1>1, <1>2, <1>3, <1>4 DEF SetLess
<1> QED BY <1>5, <1>6, <1>7

\* A state's sets sorted: the same sets, none less than one after it.
LEMMA SortSetsIs ==
  ASSUME NEW n \in Nat, NEW sets \in Seq(SetsOf(n))
  PROVE  \E p : /\ IsPermutation(p, Len(sets))
                /\ SortSets(sets) = [r \in 1 .. Len(sets) |-> sets[p[r]]]
                /\ \A q, r \in 1 .. Len(sets) : q < r => ~SetLess(sets[p[q]], sets[p[r]])
<1> DEFINE k == Len(sets)
           less == {e \in Positions(sets) : SetLess(sets[e[2]], sets[e[1]])}
<1>1. k \in Nat /\ DOMAIN sets = 1 .. k /\ \A i \in 1 .. k : sets[i] \in SetsOf(n)
  OBVIOUS
<1>2. \A i, j \in 1 .. k : <<i, j>> \in less <=> SetLess(sets[j], sets[i])
  BY <1>1 DEF Positions
<1>3. SortSets(sets) = SortedBy(sets, less)
  BY DEF SortSets
<1> HIDE DEF less
<1>4. Compares(less, 1 .. k)
  <2>1. ASSUME NEW i \in 1 .. k, NEW j \in 1 .. k, <<i, j>> \in less PROVE <<j, i>> \notin less
    BY <1>1, <1>2, <2>1, SetOrder
  <2>2. ASSUME NEW i \in 1 .. k, NEW j \in 1 .. k, NEW l \in 1 .. k,
               <<i, j>> \notin less, <<j, l>> \notin less
        PROVE  <<i, l>> \notin less
    <3> DEFINE a == sets[i]
               b == sets[j]
               c == sets[l]
    <3>1. a \in SetsOf(n) /\ b \in SetsOf(n) /\ c \in SetsOf(n) /\ ~SetLess(b, a) /\ ~SetLess(c, b)
      BY <1>1, <1>2, <2>2
    <3> HIDE DEF a, b, c
    <3>2. a = b \/ SetLess(a, b)
      BY <3>1, SetOrder
    <3>3. SetLess(c, a) => SetLess(c, b)
      BY <3>1, <3>2, SetOrder
    <3> QED BY <1>2, <3>1, <3>3 DEF a, c
  <2> QED BY <2>1, <2>2 DEF Compares
<1>5. PICK p : /\ IsPermutation(p, k)
               /\ SortedBy(sets, less) = [r \in 1 .. k |-> sets[p[r]]]
               /\ \A q, r \in 1 .. k :
                    q < r => \/ <<p[q], p[r]>> \in less
                             \/ <<p[r], p[q]>> \notin less /\ p[q] < p[r]
  BY <1>4, Sorted
<1>6. ASSUME NEW q \in 1 .. k, NEW r \in 1 .. k, q < r PROVE ~SetLess(sets[p[q]], sets[p[r]])
  <2>1. p[q] \in 1 .. k /\ p[r] \in 1 .. k
    BY <1>5 DEF IsPermutation
  <2>2. <<p[r], p[q]>> \notin less
    <3>1. <<p[q], p[r]>> \in less \/ <<p[r], p[q]>> \notin less
      BY <1>5, <1>6
    <3> QED BY <1>4, <2>1, <3>1 DEF Compares
  <2> QED BY <1>2, <2>1, <2>2
<1> QED BY <1>3, <1>5, <1>6

-----------------------------------------------------------------------------
(* The states of the differencing method, of k sets.                       *)

\* The rows of a set, and of a state.
Has(a) == ToSet(a.items)
Held(s) == UNION {Has(s[p]) : p \in 1 .. Len(s)}

\* Separate sets of rows, with their weight.
SetsOK(s, k, w) ==
  /\ s \in Seq(SetsOf(Len(w))) /\ Len(s) = k
  /\ \A p \in 1 .. k : Lists(s[p].items, Has(s[p])) /\ s[p].sum = SumOver(w, Has(s[p]))
  /\ \A p, q \in 1 .. k : p # q => Has(s[p]) \cap Has(s[q]) = {}

\* As long as a set is empty, no other has two rows.
Filled(s) ==
  \/ \A p \in 1 .. Len(s) : Len(s[p].items) >= 1
  \/ \A p \in 1 .. Len(s) : Len(s[p].items) <= 1

\* All of one size.
Even(s) == \A p \in 1 .. Len(s) : Len(s[p].items) * Len(s) = Cardinality(Held(s))

\* No two further apart than d.
Within(s, d) == \A p, q \in 1 .. Len(s) : s[p].sum - s[q].sum <= d

\* The largest first.
Descends(s) == \A p, q \in 1 .. Len(s) : p < q => ~SetLess(s[p], s[q])

\* What all merges keep.
Kept(s, k, w, even, d) ==
  SetsOK(s, k, w) /\ Held(s) # {} /\ Filled(s) /\ (even => Even(s)) /\ Within(s, d)

\* Sorting keeps it.
LEMMA SortKeeps ==
  ASSUME NEW w \in Seq(Nat), NEW k \in Nat, NEW even, NEW d, NEW u, Kept(u, k, w, even, d)
  PROVE  /\ Kept(SortSets(u), k, w, even, d) /\ Descends(SortSets(u))
         /\ Held(SortSets(u)) = Held(u)
<1> DEFINE n == Len(w)
           s == SortSets(u)
<1>1. n \in Nat /\ u \in Seq(SetsOf(n)) /\ Len(u) = k
  BY DEF Kept, SetsOK
<1>2. PICK p : /\ IsPermutation(p, k)
               /\ s = [r \in 1 .. k |-> u[p[r]]]
               /\ \A q, r \in 1 .. k : q < r => ~SetLess(u[p[q]], u[p[r]])
  BY <1>1, SortSetsIs
<1> HIDE DEF s, n
<1>3. /\ p \in [1 .. k -> 1 .. k]
      /\ \A i, j \in 1 .. k : p[i] = p[j] => i = j
      /\ \A x \in 1 .. k : \E i \in 1 .. k : p[i] = x
  BY <1>2 DEF IsPermutation
<1>4. s \in Seq(SetsOf(n)) /\ Len(s) = k /\ \A r \in 1 .. k : s[r] = u[p[r]] /\ p[r] \in 1 .. k
  <2>1. \A i \in 1 .. k : u[i] \in SetsOf(n)
    BY <1>1
  <2>2. \A r \in 1 .. k : u[p[r]] \in SetsOf(n) /\ p[r] \in 1 .. k
    BY <1>3, <2>1
  <2>3. [r \in 1 .. k |-> u[p[r]]] \in Seq(SetsOf(n)) /\ Len([r \in 1 .. k |-> u[p[r]]]) = k
    BY <2>2
  <2> QED BY <1>2, <2>2, <2>3
<1>5. Held(s) = Held(u)
  <2>1. ASSUME NEW r \in 1 .. k PROVE \E q \in 1 .. k : Has(s[r]) = Has(u[q])
    BY <1>4
  <2>2. ASSUME NEW q \in 1 .. k PROVE \E r \in 1 .. k : Has(s[r]) = Has(u[q])
    <3>1. PICK r \in 1 .. k : p[r] = q
      BY <1>3
    <3> QED BY <1>4, <3>1
  <2> DEFINE A == {Has(s[r]) : r \in 1 .. k}
             B == {Has(u[q]) : q \in 1 .. k}
  <2>3. A = B
    <3>1. \A X \in A : X \in B
      BY <2>1
    <3>2. \A X \in B : X \in A
      BY <2>2
    <3> QED BY <3>1, <3>2
  <2> QED BY <1>1, <1>4, <2>3 DEF Held
<1>6. SetsOK(s, k, w)
  <2>1. ASSUME NEW r \in 1 .. k
        PROVE  Lists(s[r].items, Has(s[r])) /\ s[r].sum = SumOver(w, Has(s[r]))
    BY <1>4 DEF Kept, SetsOK
  <2>2. ASSUME NEW q \in 1 .. k, NEW r \in 1 .. k, q # r
        PROVE  Has(s[q]) \cap Has(s[r]) = {}
    <3>1. p[q] # p[r] /\ p[q] \in 1 .. k /\ p[r] \in 1 .. k /\ s[q] = u[p[q]] /\ s[r] = u[p[r]]
      BY <1>3, <1>4, <2>2
    <3> QED BY <3>1 DEF Kept, SetsOK
  <2> QED BY <1>4, <2>1, <2>2 DEF SetsOK, n
<1>7. Filled(s)
  BY <1>1, <1>4 DEF Kept, Filled
<1>8. even => Even(s)
  <2> SUFFICES ASSUME even, NEW r \in 1 .. k
               PROVE  Len(s[r].items) * k = Cardinality(Held(s))
    BY <1>4 DEF Even
  <2>1. Len(u[p[r]].items) * k = Cardinality(Held(u))
    BY <1>1, <1>4 DEF Kept, Even
  <2> QED BY <1>4, <1>5, <2>1
<1>9. Within(s, d)
  <2> SUFFICES ASSUME NEW a \in 1 .. k, NEW b \in 1 .. k PROVE s[a].sum - s[b].sum <= d
    BY <1>4 DEF Within
  <2>1. Len(u) = k /\ Within(u, d)
    BY <1>1 DEF Kept
  <2>2. p[a] \in 1 .. k /\ p[b] \in 1 .. k /\ s[a] = u[p[a]] /\ s[b] = u[p[b]]
    BY <1>4
  <2> QED BY <2>1, <2>2 DEF Within
<1>10. Descends(s)
  BY <1>2, <1>4 DEF Descends
<1>11. Held(u) # {}
  BY DEF Kept
<1>12. Kept(s, k, w, even, d)
  BY <1>5, <1>6, <1>7, <1>8, <1>9, <1>11 DEF Kept
<1> QED BY <1>5, <1>10, <1>12 DEF s

\* Sums descend; the empty sets are last.
LEMMA Descending ==
  ASSUME NEW w \in Seq(Nat), NEW k \in Nat, NEW even, NEW d, NEW s,
         Kept(s, k, w, even, d), Descends(s),
         NEW p \in 1 .. k, NEW q \in 1 .. k, p <= q
  PROVE  s[q].sum <= s[p].sum /\ (Len(s[q].items) >= 1 => Len(s[p].items) >= 1)
<1>1. Len(w) \in Nat /\ s \in Seq(SetsOf(Len(w))) /\ Len(s) = k
  BY DEF Kept, SetsOK
<1> DEFINE a == s[p]
           b == s[q]
<1>2. a \in SetsOf(Len(w)) /\ b \in SetsOf(Len(w))
  BY <1>1
<1>3. a.sum \in Nat /\ b.sum \in Nat /\ (a.items = <<>> => a.sum = 0)
  <2>1. ASSUME NEW r \in 1 .. k PROVE s[r].sum \in Nat /\ (s[r].items = <<>> => s[r].sum = 0)
    <3> DEFINE N == 1 .. Len(w)
    <3>0. w \in [N -> Nat] /\ IsFiniteSet(N)
      <4>1. w \in [N -> Nat]
        OBVIOUS
      <4>2. IsFiniteSet(N)
        BY <1>1, FS_Interval
      <4> QED BY <4>1, <4>2
    <3>1. s[r].items \in Seq(N)
      <4>1. s[r] \in SetsOf(Len(w))
        BY <1>1
      <4> QED BY <4>1 DEF SetsOf
    <3>2. Has(s[r]) \in SUBSET N
      <4> DEFINE items == s[r].items
      <4>1. items \in Seq(N)
        BY <3>1
      <4> HIDE DEF items, N
      <4>2. ToSet(items) \subseteq N
        BY <4>1 DEF ToSet
      <4> QED BY <4>2 DEF Has, items
    <3>3. s[r].sum = SumOver(w, Has(s[r]))
      BY DEF Kept, SetsOK
    <3> HIDE DEF N
    <3>4. s[r].sum \in Nat
      BY <3>0, <3>2, <3>3, SumOverNat
    <3>5. ASSUME s[r].items = <<>> PROVE s[r].sum = 0
      <4>1. Has(s[r]) = {}
        BY <3>5 DEF Has, ToSet
      <4> QED BY <3>3, <4>1, SumOverNone
    <3> QED BY <3>4, <3>5
  <2> QED BY <2>1
<1>4. a.items \in Seq(1 .. Len(w)) /\ b.items \in Seq(1 .. Len(w))
  BY <1>2 DEF SetsOf
<1>5. Len(a.items) \in Nat /\ Len(b.items) \in Nat /\ (Len(a.items) = 0 => a.items = <<>>)
  BY <1>4
<1>6. p = q \/ ~SetLess(a, b)
  BY <1>1 DEF Descends
<1> HIDE DEF a, b
<1>7. ~SetLess(a, b) => b.sum <= a.sum /\ (Len(b.items) >= 1 => Len(a.items) >= 1)
  BY <1>3, <1>5 DEF SetLess
<1>8. p = q => a = b
  BY DEF a, b
<1>9. b.sum <= a.sum /\ (Len(b.items) >= 1 => Len(a.items) >= 1)
  BY <1>3, <1>6, <1>7, <1>8
<1> QED BY <1>9 DEF a, b

\* u has the sets of s, each with one of t.
Merged(u, s, t, k) ==
  \A i \in 1 .. k : /\ k + 1 - i \in 1 .. k
                    /\ Has(u[i]) = Has(s[i]) \cup Has(t[k + 1 - i])
                    /\ Len(u[i].items) = Len(s[i].items) + Len(t[k + 1 - i].items)
                    /\ u[i].sum = s[i].sum + t[k + 1 - i].sum

\* Two separate states, the largest sets of one with the smallest of the other.
LEMMA MergedSets ==
  ASSUME NEW w \in Seq(Nat), NEW k \in Nat, NEW s, NEW t, SetsOK(s, k, w), SetsOK(t, k, w),
         Held(s) \cap Held(t) = {}, NEW u,
         u = [i \in 1 .. k |-> MergeSets(s[i], t[k + 1 - i])]
  PROVE  /\ SetsOK(u, k, w)
         /\ Merged(u, s, t, k)
<1> DEFINE n == Len(w)
           N == 1 .. n
<1>0. n \in Nat /\ w \in [N -> Int] /\ IsFiniteSet(N)
  <2>1. n \in Nat /\ w \in [N -> Int]
    OBVIOUS
  <2> QED BY <2>1, FS_Interval
<1> HIDE DEF n, N
<1>1. s \in Seq(SetsOf(n)) /\ t \in Seq(SetsOf(n)) /\ Len(s) = k /\ Len(t) = k
  BY DEF SetsOK, n
<1>2. ASSUME NEW i \in 1 .. k
      PROVE  LET j == k + 1 - i
                 X == Has(s[i])
                 Y == Has(t[j])
             IN  /\ j \in 1 .. k /\ X \cap Y = {} /\ X \in SUBSET N /\ Y \in SUBSET N
                 /\ u[i] = MergeSets(s[i], t[j]) /\ u[i] \in SetsOf(n)
                 /\ Lists(u[i].items, Has(u[i])) /\ Has(u[i]) = X \cup Y
                 /\ Len(u[i].items) = Len(s[i].items) + Len(t[j].items)
                 /\ u[i].sum = s[i].sum + t[j].sum
                 /\ u[i].sum = SumOver(w, Has(u[i]))
  <2> DEFINE j == k + 1 - i
             X == Has(s[i])
             Y == Has(t[j])
  <2>1. j \in 1 .. k
    OBVIOUS
  <2>2. X \subseteq Held(s) /\ Y \subseteq Held(t)
    BY <1>1, <2>1 DEF Held
  <2>3. Lists(s[i].items, X) /\ s[i].sum = SumOver(w, X)
    BY DEF SetsOK
  <2>4. Lists(t[j].items, Y) /\ t[j].sum = SumOver(w, Y)
    BY <2>1 DEF SetsOK
  <2>5. s[i] \in SetsOf(n) /\ t[j] \in SetsOf(n)
    BY <1>1, <2>1
  <2>6. u[i] = MergeSets(s[i], t[j])
    OBVIOUS
  <2> HIDE DEF j, X, Y
  <2>7. X \cap Y = {}
    BY <2>2
  <2>8. Lists(s[i].items \o t[j].items, X \cup Y)
    BY <2>3, <2>4, <2>7, ListsConcat
  <2>9. s[i].items \in Seq(N) /\ t[j].items \in Seq(N) /\ s[i].sum \in Int /\ t[j].sum \in Int
    BY <2>5 DEF SetsOf, N
  <2>10. X \in SUBSET N /\ Y \in SUBSET N
    BY <2>9 DEF X, Y, Has, ToSet
  <2>11. u[i].items = s[i].items \o t[j].items /\ u[i].sum = s[i].sum + t[j].sum
    BY <2>6 DEF MergeSets
  <2>12. /\ s[i].items \o t[j].items \in Seq(N)
         /\ Len(s[i].items \o t[j].items) = Len(s[i].items) + Len(t[j].items)
    BY <2>9
  <2>13. s[i].sum + t[j].sum \in Int
    BY <2>9
  <2>14. u[i] \in SetsOf(n)
    BY <2>6, <2>12, <2>13 DEF MergeSets, SetsOf, N
  <2>15. Has(u[i]) = X \cup Y
    BY <2>8, <2>11, ListsCount DEF Has
  <2>16. SumOver(w, X \cup Y) = SumOver(w, X) + SumOver(w, Y)
    BY <1>0, <2>7, <2>10, SumOfTwo
  <2>17. u[i].sum = SumOver(w, Has(u[i]))
    BY <2>3, <2>4, <2>11, <2>15, <2>16
  <2>18. Lists(u[i].items, Has(u[i]))
    BY <2>8, <2>11, <2>15
  <2> QED BY <2>1, <2>6, <2>7, <2>18, <2>10, <2>11, <2>12, <2>14, <2>15, <2>17 DEF j, X, Y
<1>3. u \in Seq(SetsOf(n)) /\ Len(u) = k
  <2>1. \A i \in 1 .. k : u[i] \in SetsOf(n)
    BY <1>2
  <2>2. [i \in 1 .. k |-> u[i]] \in Seq(SetsOf(n)) /\ Len([i \in 1 .. k |-> u[i]]) = k
    BY <2>1
  <2>3. u = [i \in 1 .. k |-> u[i]]
    OBVIOUS
  <2> QED BY <2>2, <2>3
<1>4. ASSUME NEW p \in 1 .. k, NEW q \in 1 .. k, p # q PROVE Has(u[p]) \cap Has(u[q]) = {}
  <2> DEFINE a == k + 1 - p
             b == k + 1 - q
  <2>1. a \in 1 .. k /\ b \in 1 .. k /\ a # b
    BY <1>4
  <2>2. Has(s[p]) \cap Has(s[q]) = {} /\ Has(t[a]) \cap Has(t[b]) = {}
    BY <1>4, <2>1 DEF SetsOK
  <2>3. /\ Has(s[p]) \subseteq Held(s) /\ Has(s[q]) \subseteq Held(s)
        /\ Has(t[a]) \subseteq Held(t) /\ Has(t[b]) \subseteq Held(t)
    BY <1>1, <2>1 DEF Held
  <2>4. Has(u[p]) = Has(s[p]) \cup Has(t[a]) /\ Has(u[q]) = Has(s[q]) \cup Has(t[b])
    BY <1>2
  <2> HIDE DEF a, b
  <2> QED BY <2>2, <2>3, <2>4
<1>5. \A p \in 1 .. k : Lists(u[p].items, Has(u[p])) /\ u[p].sum = SumOver(w, Has(u[p]))
  BY <1>2
<1>6. SetsOK(u, k, w)
  BY <1>3, <1>4, <1>5 DEF SetsOK, n
<1>7. Merged(u, s, t, k)
  BY <1>2 DEF Merged
<1> QED BY <1>6, <1>7

\* The rows a state holds are some of the batch's.
LEMMA HeldFinite ==
  ASSUME NEW w \in Seq(Nat), NEW k \in Nat, NEW s, SetsOK(s, k, w)
  PROVE  Held(s) \in SUBSET (1 .. Len(w)) /\ IsFiniteSet(Held(s))
<1>1. ASSUME NEW p \in 1 .. Len(s) PROVE Has(s[p]) \subseteq 1 .. Len(w)
  <2>1. s[p] \in SetsOf(Len(w))
    BY DEF SetsOK
  <2>2. s[p].items \in Seq(1 .. Len(w))
    BY <2>1 DEF SetsOf
  <2> DEFINE seq == s[p].items
  <2> HIDE DEF seq
  <2>3. seq \in Seq(1 .. Len(w))
    BY <2>2 DEF seq
  <2>4. ToSet(seq) \subseteq 1 .. Len(w)
    BY ONLY <2>3 DEF ToSet
  <2> QED BY <2>4 DEF Has, seq
<1>2. Held(s) \in SUBSET (1 .. Len(w))
  BY <1>1 DEF Held
<1>3. Len(w) \in Nat
  OBVIOUS
<1>4. IsFiniteSet(1 .. Len(w))
  BY <1>3, FS_Interval
<1> QED BY <1>2, <1>4, FS_Subset

\* Merging two states of disjoint rows keeps what a state promises, the spread
\* of its sums included, and holds the rows of both.
LEMMA MergeKeeps ==
  ASSUME NEW w \in Seq(Nat), NEW k \in Nat, NEW even, NEW d \in Int, NEW s, NEW t,
         Kept(s, k, w, even, d), Descends(s), Kept(t, k, w, even, d), Descends(t),
         Held(s) \cap Held(t) = {}
  PROVE  /\ Kept(MergeStates(s, t), k, w, even, d) /\ Descends(MergeStates(s, t))
         /\ Held(MergeStates(s, t)) = Held(s) \cup Held(t)
<1> DEFINE u == [i \in 1 .. k |-> MergeSets(s[i], t[k + 1 - i])]
<1>0. u = [i \in 1 .. k |-> MergeSets(s[i], t[k + 1 - i])]
  OBVIOUS
<1>1. SetsOK(s, k, w) /\ SetsOK(t, k, w)
  BY DEF Kept
<1>2. /\ Len(s) = k /\ Len(t) = k /\ DOMAIN s = 1 .. k
      /\ s \in Seq(SetsOf(Len(w))) /\ t \in Seq(SetsOf(Len(w)))
  <2>1. Len(s) = k /\ Len(t) = k /\ s \in Seq(SetsOf(Len(w))) /\ t \in Seq(SetsOf(Len(w)))
    BY <1>1 DEF SetsOK
  <2> QED BY <2>1
<1>3. MergeStates(s, t) = SortSets(u)
  BY <1>2 DEF MergeStates
<1> HIDE DEF u
<1>4a. SetsOK(u, k, w) /\ Merged(u, s, t, k)
  BY <1>0, <1>1, MergedSets
<1>4. /\ SetsOK(u, k, w)
      /\ \A i \in 1 .. k : /\ k + 1 - i \in 1 .. k
                           /\ Has(u[i]) = Has(s[i]) \cup Has(t[k + 1 - i])
                           /\ Len(u[i].items) = Len(s[i].items) + Len(t[k + 1 - i].items)
                           /\ u[i].sum = s[i].sum + t[k + 1 - i].sum
  BY <1>4a DEF Merged
<1>5. Len(u) = k
  BY <1>4 DEF SetsOK
<1>6. Held(u) = Held(s) \cup Held(t)
  <2>1. ASSUME NEW x \in Held(u) PROVE x \in Held(s) \cup Held(t)
    <3>1. PICK i \in 1 .. k : x \in Has(u[i])
      BY <1>5 DEF Held
    <3>2. Has(u[i]) = Has(s[i]) \cup Has(t[k + 1 - i]) /\ k + 1 - i \in 1 .. k
      BY <1>4
    <3> QED BY <1>2, <3>1, <3>2 DEF Held
  <2>2. ASSUME NEW x \in Held(s) PROVE x \in Held(u)
    <3>1. PICK i \in 1 .. k : x \in Has(s[i])
      BY <1>2 DEF Held
    <3>2. x \in Has(u[i])
      BY <1>4, <3>1
    <3> QED BY <1>5, <3>2 DEF Held
  <2>3. ASSUME NEW x \in Held(t) PROVE x \in Held(u)
    <3>1. PICK j \in 1 .. k : x \in Has(t[j])
      BY <1>2 DEF Held
    <3> DEFINE i == k + 1 - j
    <3>2. i \in 1 .. k /\ k + 1 - i = j
      OBVIOUS
    <3> HIDE DEF i
    <3>3. x \in Has(u[i])
      BY <1>4, <3>1, <3>2
    <3> QED BY <1>5, <3>2, <3>3 DEF Held
  <2> QED BY <2>1, <2>2, <2>3
<1>7. \A i \in 1 .. k : /\ Len(s[i].items) \in Nat /\ s[i].sum \in Int
                        /\ Len(t[i].items) \in Nat /\ t[i].sum \in Int
  <2> TAKE i \in 1 .. k
  <2>1. s[i] \in SetsOf(Len(w)) /\ t[i] \in SetsOf(Len(w))
    BY <1>2
  <2>2. s[i].items \in Seq(1 .. Len(w)) /\ t[i].items \in Seq(1 .. Len(w))
    BY <2>1 DEF SetsOf
  <2> QED BY <2>1, <2>2 DEF SetsOf
<1> DEFINE F(i) == Len(s[i].items)
           G(i) == Len(t[i].items)
<1>8. /\ \A p, q \in 1 .. k : p <= q => s[q].sum <= s[p].sum /\ (F(q) >= 1 => F(p) >= 1)
      /\ \A p, q \in 1 .. k : p <= q => t[q].sum <= t[p].sum /\ (G(q) >= 1 => G(p) >= 1)
  BY Descending
<1>9. /\ (\A p \in 1 .. k : F(p) >= 1) \/ (\A p \in 1 .. k : F(p) <= 1)
      /\ (\A p \in 1 .. k : G(p) >= 1) \/ (\A p \in 1 .. k : G(p) <= 1)
  BY <1>2 DEF Kept, Filled
<1>10. \A i \in 1 .. k : Len(u[i].items) = F(i) + G(k + 1 - i) /\ k + 1 - i \in 1 .. k
  BY <1>4
<1>11. \A i \in 1 .. k : F(i) \in Nat /\ G(i) \in Nat
  BY <1>7
<1>12. Filled(u)
  <2> HIDE DEF F, G
  <2>1. CASE \E i \in 1 .. k : F(i) >= 1 /\ G(k + 1 - i) >= 1
    <3>1. PICK i \in 1 .. k : F(i) >= 1 /\ G(k + 1 - i) >= 1
      BY <2>1
    <3>2. ASSUME NEW p \in 1 .. k PROVE F(p) >= 1 \/ G(k + 1 - p) >= 1
      <4>1. CASE p <= i
        BY <1>8, <3>1, <4>1
      <4>2. CASE i <= p
        <5>1. k + 1 - p <= k + 1 - i /\ k + 1 - p \in 1 .. k /\ k + 1 - i \in 1 .. k
          BY <4>2
        <5> QED BY <1>8, <3>1, <5>1
      <4> QED BY <4>1, <4>2
    <3>3. \A p \in 1 .. k : Len(u[p].items) >= 1
      <4> TAKE p \in 1 .. k
      <4>1. /\ Len(u[p].items) = F(p) + G(k + 1 - p) /\ F(p) \in Nat /\ G(k + 1 - p) \in Nat
            /\ F(p) >= 1 \/ G(k + 1 - p) >= 1
        BY <1>10, <1>11, <3>2
      <4> QED BY ONLY <4>1
    <3> QED BY <1>5, <3>3 DEF Filled
  <2>2. CASE ~ \E i \in 1 .. k : F(i) >= 1 /\ G(k + 1 - i) >= 1
    <3>1. CASE (\A p \in 1 .. k : F(p) <= 1) /\ (\A p \in 1 .. k : G(p) <= 1)
      <4>1. \A p \in 1 .. k : Len(u[p].items) <= 1
        <5> TAKE p \in 1 .. k
        <5>1. /\ Len(u[p].items) = F(p) + G(k + 1 - p) /\ k + 1 - p \in 1 .. k
              /\ F(p) \in Nat /\ G(k + 1 - p) \in Nat
          BY <1>10, <1>11
        <5>2. F(p) <= 1 /\ G(k + 1 - p) <= 1 /\ ~(F(p) >= 1 /\ G(k + 1 - p) >= 1)
          BY <2>2, <3>1, <5>1
        <5> QED BY ONLY <5>1, <5>2
      <4> QED BY <1>5, <4>1 DEF Filled
    <3>2. CASE (\A p \in 1 .. k : F(p) >= 1) \/ (\A p \in 1 .. k : G(p) >= 1)
      <4>1. \A p \in 1 .. k : Len(u[p].items) >= 1
        <5> TAKE p \in 1 .. k
        <5>1. /\ Len(u[p].items) = F(p) + G(k + 1 - p) /\ k + 1 - p \in 1 .. k
              /\ F(p) \in Nat /\ G(k + 1 - p) \in Nat
          BY <1>10, <1>11
        <5>2. F(p) >= 1 \/ G(k + 1 - p) >= 1
          BY <3>2, <5>1
        <5> QED BY ONLY <5>1, <5>2
      <4> QED BY <1>5, <4>1 DEF Filled
    <3> QED BY <1>9, <3>1, <3>2
  <2> QED BY <2>1, <2>2
<1>13. even => Even(u)
  <2> SUFFICES ASSUME even, NEW i \in 1 .. k
               PROVE  Len(u[i].items) * k = Cardinality(Held(u))
    BY <1>5 DEF Even
  <2> DEFINE j == k + 1 - i
             a == F(i)
             b == G(j)
             C == Cardinality(Held(s))
             D == Cardinality(Held(t))
  <2>1. a * k = C
    BY <1>2 DEF Kept, Even
  <2>2. j \in 1 .. k /\ b * k = D
    BY <1>2, <1>10 DEF Kept, Even
  <2>3. IsFiniteSet(Held(s)) /\ IsFiniteSet(Held(t))
    BY <1>1, HeldFinite
  <2>4. Cardinality(Held(u)) = C + D
    <3>1. Cardinality(Held(s) \cup Held(t)) = C + D - Cardinality(Held(s) \cap Held(t))
      BY <2>3, FS_Union
    <3>2. Cardinality(Held(s) \cap Held(t)) = 0
      BY FS_EmptySet
    <3>3. C \in Nat /\ D \in Nat
      BY <2>3, FS_CardinalityType
    <3> HIDE DEF C, D
    <3> QED BY <1>6, <3>1, <3>2, <3>3
  <2>5. Len(u[i].items) = a + b /\ a \in Nat /\ b \in Nat
    BY <1>10, <1>11, <2>2
  <2> HIDE DEF a, b, C, D
  <2>6. (a + b) * k = a * k + b * k
    BY <2>5
  <2> QED BY <2>1, <2>2, <2>4, <2>5, <2>6
<1>14. Within(u, d)
  <2> SUFFICES ASSUME NEW p \in 1 .. k, NEW q \in 1 .. k PROVE u[p].sum - u[q].sum <= d
    BY <1>5 DEF Within
  <2> DEFINE a == s[p].sum
             b == s[q].sum
             e == t[k + 1 - p].sum
             f == t[k + 1 - q].sum
  <2>1. /\ k + 1 - p \in 1 .. k /\ k + 1 - q \in 1 .. k
        /\ u[p].sum = a + e /\ u[q].sum = b + f
    BY <1>4
  <2>2. a \in Int /\ b \in Int /\ e \in Int /\ f \in Int
    BY <1>7, <2>1
  <2>3. a - b <= d /\ e - f <= d
    BY <1>2, <2>1 DEF Kept, Within
  <2>4. p <= q => e <= f
    <3>1. p <= q => k + 1 - q <= k + 1 - p
      OBVIOUS
    <3> QED BY <1>8, <2>1, <3>1
  <2>5. q <= p => a <= b
    BY <1>8
  <2>6. p <= q \/ q <= p
    OBVIOUS
  <2> HIDE DEF a, b, e, f
  <2> QED BY <2>1, <2>2, <2>3, <2>4, <2>5, <2>6
<1>15. Held(u) # {}
  BY <1>6 DEF Kept
<1>16. Kept(u, k, w, even, d)
  BY <1>4, <1>12, <1>13, <1>14, <1>15 DEF Kept
<1> QED BY <1>3, <1>6, <1>16, SortKeeps

-----------------------------------------------------------------------------
(* The heap of states.                                                     *)

\* A finite set has an element that nothing precedes.
LEMMA Minimal ==
  ASSUME NEW h, IsFiniteSet(h), h # {}, NEW R, \A s \in h : <<s, s>> \notin R,
         \A s, t, u \in h : <<s, t>> \in R /\ <<t, u>> \in R => <<s, u>> \in R
  PROVE  \E s \in h : \A t \in h : <<t, s>> \notin R
<1> DEFINE Has1(T) == \E s \in T : \A t \in T : <<t, s>> \notin R
           P == {T \in SUBSET h : T = {} \/ Has1(T)}
<1>1. {} \in P
  OBVIOUS
<1>2. ASSUME NEW T \in SUBSET h, NEW x \in h \ T, T \in P PROVE T \cup {x} \in P
  <2>1. CASE T = {}
    <3>1. Has1({x})
      OBVIOUS
    <3> QED BY <2>1, <3>1
  <2>2. CASE Has1(T)
    <3>1. PICK s \in T : \A t \in T : <<t, s>> \notin R
      BY <2>2
    <3>2. CASE <<x, s>> \in R
      <4>1. \A t \in T \cup {x} : <<t, x>> \notin R
        BY <3>1, <3>2
      <4> QED BY <4>1
    <3>3. CASE <<x, s>> \notin R
      <4>1. \A t \in T \cup {x} : <<t, s>> \notin R
        BY <3>1, <3>3
      <4> QED BY <4>1
    <3> QED BY <3>2, <3>3
  <2> QED BY <1>2, <2>1, <2>2
<1> HIDE DEF P
<1>3. h \in P
  BY <1>1, <1>2, SetInduction
<1> QED BY <1>3 DEF P

\* Separate states, every row in one of them.
Heap(h, k, w, even, d) ==
  /\ IsFiniteSet(h)
  /\ \A s \in h : Kept(s, k, w, even, d) /\ Descends(s)
  /\ \A s, t \in h : s # t => Held(s) \cap Held(t) = {}

\* The rows of all states of a heap.
HeldBy(h) == UNION {Held(s) : s \in h}

\* State.__lt__ is a strict order.
LEMMA StateOrder ==
  ASSUME NEW w \in Seq(Nat), NEW k \in Nat \ {0}, NEW s, NEW t, NEW u,
         SetsOK(s, k, w), SetsOK(t, k, w), SetsOK(u, k, w)
  PROVE  /\ ~StateLess(s, s)
         /\ StateLess(s, t) /\ StateLess(t, u) => StateLess(s, u)
<1> DEFINE n == Len(w)
<1>1. n \in Nat
  OBVIOUS
<1>2. ASSUME NEW v, SetsOK(v, k, w) PROVE v[1] \in SetsOf(n) /\ Spread(v) \in Int
  <2>1. v \in Seq(SetsOf(n)) /\ Len(v) = k /\ 1 \in 1 .. k /\ k \in 1 .. k
    BY <1>2 DEF SetsOK
  <2>2. v[1] \in SetsOf(n) /\ v[k] \in SetsOf(n)
    BY <2>1
  <2>3. v[1].sum \in Int /\ v[k].sum \in Int
    BY <2>2 DEF SetsOf
  <2> QED BY <2>1, <2>2, <2>3 DEF Spread
<1> DEFINE a == s[1]
           b == t[1]
           c == u[1]
<1>3. a \in SetsOf(n) /\ b \in SetsOf(n) /\ c \in SetsOf(n)
  BY <1>2
<1>4. Spread(s) \in Int /\ Spread(t) \in Int /\ Spread(u) \in Int
  BY <1>2
<1> HIDE DEF n
<1>5. ~SetLess(a, a) /\ (SetLess(c, b) /\ SetLess(b, a) => SetLess(c, a))
  BY <1>1, <1>3, SetOrder
<1> QED BY <1>4, <1>5 DEF StateLess

\* A heap that is not empty pops one of its states.
LEMMA TopIs ==
  ASSUME NEW w \in Seq(Nat), NEW k \in Nat \ {0}, NEW even, NEW d, NEW h,
         Heap(h, k, w, even, d), h # {}
  PROVE  Top(h) \in h
<1> DEFINE R == {e \in h \X h : StateLess(e[1], e[2])}
<1>1. \A s, t \in h : <<s, t>> \in R <=> StateLess(s, t)
  OBVIOUS
<1>2. IsFiniteSet(h) /\ \A s \in h : SetsOK(s, k, w)
  BY DEF Heap, Kept
<1> HIDE DEF R
<1>3. \A s \in h : <<s, s>> \notin R
  BY <1>1, <1>2, StateOrder
<1>4. \A s, t, u \in h : <<s, t>> \in R /\ <<t, u>> \in R => <<s, u>> \in R
  BY <1>1, <1>2, StateOrder
<1>5. \E s \in h : \A t \in h : <<t, s>> \notin R
  BY <1>2, <1>3, <1>4, Minimal
<1>6. \E s \in h : \A t \in h : ~StateLess(t, s)
  BY <1>1, <1>5
<1> QED BY <1>6, Zenon DEF Top

\* A merge leaves one state less, and the same rows in the heap.
LEMMA MergeTopKeeps ==
  ASSUME NEW w \in Seq(Nat), NEW k \in Nat \ {0}, NEW even, NEW d \in Int, NEW h,
         Heap(h, k, w, even, d), Cardinality(h) > 1
  PROVE  /\ Heap(MergeTop(h), k, w, even, d)
         /\ HeldBy(MergeTop(h)) = HeldBy(h)
         /\ Cardinality(MergeTop(h)) = Cardinality(h) - 1
<1> DEFINE a == Top(h)
           rest == h \ {a}
           b == Top(rest)
           m == MergeStates(a, b)
           others == rest \ {b}
<1>0. IsFiniteSet(h) /\ Cardinality(h) \in Nat
  BY FS_CardinalityType DEF Heap
<1>1. a \in h
  <2>1. h # {}
    <3> SUFFICES ASSUME h = {} PROVE FALSE
      OBVIOUS
    <3>1. Cardinality(h) = 0
      BY FS_EmptySet
    <3> QED BY <3>1
  <2> QED BY <2>1, TopIs
<1>2. IsFiniteSet(rest) /\ Cardinality(rest) = Cardinality(h) - 1
  BY <1>0, <1>1, FS_RemoveElement
<1>3. Heap(rest, k, w, even, d)
  BY <1>2 DEF Heap
<1>4. b \in rest
  <2>1. rest # {}
    BY <1>0, <1>2, FS_EmptySet
  <2> HIDE DEF rest
  <2> QED BY <1>3, <2>1, TopIs
<1>5. IsFiniteSet(others) /\ Cardinality(others) = Cardinality(h) - 2
  <2>1. Cardinality(others) = Cardinality(rest) - 1 /\ IsFiniteSet(others)
    <3> HIDE DEF b, rest
    <3> QED BY <1>2, <1>4, FS_RemoveElement
  <2> QED BY <1>0, <1>2, <2>1
<1>6. MergeTop(h) = others \cup {m}
  BY DEF MergeTop
<1>7. /\ Kept(a, k, w, even, d) /\ Descends(a) /\ Kept(b, k, w, even, d) /\ Descends(b)
      /\ Held(a) \cap Held(b) = {}
  BY <1>1, <1>4 DEF Heap
<1>8. /\ a \in h /\ b \in h /\ others = h \ {a, b}
      /\ \A s \in others : /\ s \in h /\ Held(s) # {}
                           /\ Held(s) \cap Held(a) = {} /\ Held(s) \cap Held(b) = {}
  BY <1>1, <1>4 DEF Heap, Kept
<1> HIDE DEF a, b, others
<1>9. Kept(m, k, w, even, d) /\ Descends(m) /\ Held(m) = Held(a) \cup Held(b)
  <2>1. k \in Nat /\ m = MergeStates(a, b)
    OBVIOUS
  <2> HIDE DEF m
  <2> QED BY <1>7, <2>1, MergeKeeps
<1> HIDE DEF m
<1>10. \A s \in others : Held(s) \cap Held(m) = {} /\ s # m
  BY <1>8, <1>9
<1>11. Cardinality(others \cup {m}) = Cardinality(h) - 1 /\ IsFiniteSet(others \cup {m})
  <2>1. m \notin others
    BY <1>10
  <2>2. Cardinality(others \cup {m}) = Cardinality(others) + 1
    BY <1>5, <2>1, FS_AddElement
  <2>3. IsFiniteSet(others \cup {m})
    BY <1>5, FS_AddElement
  <2> QED BY <1>0, <1>5, <2>2, <2>3
<1>12. Heap(others \cup {m}, k, w, even, d)
  <2>1. \A s \in others \cup {m} : Kept(s, k, w, even, d) /\ Descends(s)
    BY <1>8, <1>9 DEF Heap
  <2>2. \A s, t \in others \cup {m} : s # t => Held(s) \cap Held(t) = {}
    BY <1>8, <1>10 DEF Heap
  <2> QED BY <1>11, <2>1, <2>2 DEF Heap
<1>13. HeldBy(others \cup {m}) = HeldBy(h)
  <2>1. ASSUME NEW s \in others \cup {m} PROVE Held(s) \subseteq HeldBy(h)
    <3>1. CASE s \in others
      BY <1>8, <3>1 DEF HeldBy
    <3>2. CASE s = m
      BY <1>8, <1>9, <3>2 DEF HeldBy
    <3> QED BY <3>1, <3>2
  <2>2. ASSUME NEW s \in h PROVE Held(s) \subseteq HeldBy(others \cup {m})
    <3>1. CASE s \in others
      BY <3>1 DEF HeldBy
    <3>2. CASE s \in {a, b}
      BY <1>9, <3>2 DEF HeldBy
    <3> QED BY <1>8, <3>1, <3>2
  <2> QED BY <2>1, <2>2 DEF HeldBy
<1> QED BY <1>6, <1>11, <1>12, <1>13

\* What the loop computes.
IsMerges(g, h, n) == g = [i \in 0 .. n |-> IF i = 0 THEN h ELSE MergeTop(g[i - 1])]

\* There is a function of the merges up to n: Difference's recursion has a value.
LEMMA MergesExist ==
  ASSUME NEW h, NEW n \in Nat
  PROVE  \E g : IsMerges(g, h, n)
<1> DEFINE A == {m \in Nat : \E g : IsMerges(g, h, m)}
<1>1. 0 \in A
  <2> DEFINE g == [i \in 0 .. 0 |-> h]
  <2>1. g = [i \in 0 .. 0 |-> IF i = 0 THEN h ELSE MergeTop(g[i - 1])]
    OBVIOUS
  <2> HIDE DEF g
  <2>2. IsMerges(g, h, 0)
    BY <2>1 DEF IsMerges
  <2> QED BY <2>2
<1>2. ASSUME NEW m \in Nat, m \in A PROVE m + 1 \in A
  <2>1. PICK g : IsMerges(g, h, m)
    BY <1>2
  <2>2. \A i \in 0 .. m : g[i] = IF i = 0 THEN h ELSE MergeTop(g[i - 1])
    BY <2>1 DEF IsMerges
  <2> DEFINE f == [i \in 0 .. m + 1 |-> IF i <= m THEN g[i] ELSE MergeTop(g[m])]
  <2>3. \A i \in 0 .. m : f[i] = g[i] /\ i \in 0 .. m + 1
    OBVIOUS
  <2>4. f[m + 1] = MergeTop(g[m]) /\ (m + 1) - 1 = m /\ m \in 0 .. m
    OBVIOUS
  <2>5. DOMAIN f = 0 .. m + 1 /\ f = [i \in 0 .. m + 1 |-> f[i]]
    OBVIOUS
  <2> HIDE DEF f
  <2>6. ASSUME NEW i \in 0 .. m + 1 PROVE f[i] = IF i = 0 THEN h ELSE MergeTop(f[i - 1])
    <3>1. CASE i \in 0 .. m
      <4>1. i # 0 => i - 1 \in 0 .. m
        BY <3>1
      <4> QED BY <2>2, <2>3, <3>1, <4>1
    <3>2. CASE i = m + 1
      <4>1. i # 0 /\ f[i - 1] = g[m]
        BY <2>3, <2>4, <3>2
      <4> QED BY <2>4, <3>2, <4>1
    <3> QED BY <3>1, <3>2
  <2>7. IsMerges(f, h, m + 1)
    BY <2>5, <2>6 DEF IsMerges
  <2> QED BY <2>7
<1> HIDE DEF A
<1>3. n \in A
  BY <1>1, <1>2, NumberInduction
<1> QED BY <1>3 DEF A

\* One state is left, with all the rows.
LEMMA DifferenceKeeps ==
  ASSUME NEW w \in Seq(Nat), NEW k \in Nat \ {0}, NEW even, NEW d \in Int, NEW h,
         Heap(h, k, w, even, d), h # {}
  PROVE  /\ Kept(Difference(h), k, w, even, d) /\ Descends(Difference(h))
         /\ Held(Difference(h)) = HeldBy(h)
<1> DEFINE C == Cardinality(h)
           m == C - 1
           g == CHOOSE f : IsMerges(f, h, m)
<1>1. C \in Nat /\ m \in Nat /\ IsFiniteSet(h)
  <2>1. IsFiniteSet(h) /\ C \in Nat /\ C # 0
    BY FS_CardinalityType, FS_EmptySet DEF Heap
  <2> QED BY <2>1
<1>2. Difference(h) = CHOOSE s \in g[m] : TRUE
  BY DEF Difference, IsMerges
<1> HIDE DEF m
<1>3. IsMerges(g, h, m)
  <2>1. \E f : IsMerges(f, h, m)
    BY <1>1, MergesExist
  <2> QED BY <2>1, Zenon
<1> HIDE DEF g
<1>4. \A i \in 0 .. m : g[i] = IF i = 0 THEN h ELSE MergeTop(g[i - 1])
  BY <1>3 DEF IsMerges
<1> DEFINE Inv(i) == /\ Heap(g[i], k, w, even, d) /\ HeldBy(g[i]) = HeldBy(h)
                     /\ Cardinality(g[i]) = C - i
           A == {i \in Nat : i <= m => Inv(i)}
<1>5. 0 \in A
  BY <1>1, <1>4
<1>6. ASSUME NEW i \in Nat, i \in A PROVE i + 1 \in A
  <2> SUFFICES ASSUME i + 1 <= m PROVE Inv(i + 1)
    OBVIOUS
  <2>1. i + 1 \in 0 .. m /\ i + 1 # 0 /\ (i + 1) - 1 = i /\ i <= m
    BY <1>1
  <2>2. g[i + 1] = MergeTop(g[i])
    BY <1>4, <2>1
  <2>3. Inv(i)
    BY <1>6, <2>1
  <2>4. Cardinality(g[i]) > 1
    BY <1>1, <2>1, <2>3 DEF m
  <2>5. /\ Heap(MergeTop(g[i]), k, w, even, d) /\ HeldBy(MergeTop(g[i])) = HeldBy(g[i])
        /\ Cardinality(MergeTop(g[i])) = Cardinality(g[i]) - 1
    <3> DEFINE x == g[i]
    <3>1. Heap(x, k, w, even, d) /\ Cardinality(x) > 1
      BY <2>3, <2>4
    <3> HIDE DEF x, A, Inv
    <3>2. /\ Heap(MergeTop(x), k, w, even, d) /\ HeldBy(MergeTop(x)) = HeldBy(x)
          /\ Cardinality(MergeTop(x)) = Cardinality(x) - 1
      BY <3>1, MergeTopKeeps
    <3> QED BY <3>2 DEF x
  <2>6. (C - i) - 1 = C - (i + 1)
    BY <1>1
  <2> QED BY <2>2, <2>3, <2>5, <2>6
<1> HIDE DEF A
<1>7. m \in A
  BY <1>1, <1>5, <1>6, NumberInduction
<1>8. Inv(m)
  BY <1>1, <1>7 DEF A
<1>9. Cardinality(g[m]) = 1 /\ IsFiniteSet(g[m])
  BY <1>1, <1>8 DEF m, Heap
<1>10. PICK s : g[m] = {s}
  BY <1>9, FS_Singleton
<1>11. Difference(h) = s
  BY <1>2, <1>10
<1>12. Kept(s, k, w, even, d) /\ Descends(s)
  BY <1>8, <1>10 DEF Heap
<1>13. HeldBy({s}) = Held(s)
  BY DEF HeldBy
<1> QED BY <1>8, <1>10, <1>11, <1>12, <1>13

-----------------------------------------------------------------------------
(* Chunks of k out of n, and where they are.                               *)

\* Quotient and remainder.
LEMMA DivMod ==
  ASSUME NEW a \in Int, NEW k \in Nat \ {0}
  PROVE  a = k * (a \div k) + (a % k) /\ a % k \in 0 .. k - 1 /\ a \div k \in Int
OBVIOUS

\* Of a natural number the quotient is one.
LEMMA DivPos ==
  ASSUME NEW a \in Nat, NEW k \in Nat \ {0}
  PROVE  a \div k \in Nat
OBVIOUS

\* A multiple grows with the factor.
LEMMA TimesGrows ==
  ASSUME NEW q \in Int, NEW r \in Int, NEW k \in Nat \ {0}, q <= r
  PROVE  k * q <= k * r
OBVIOUS

\* There is one quotient and one remainder.
LEMMA DivUnique ==
  ASSUME NEW q \in Int, NEW r \in Int, NEW k \in Nat \ {0},
         NEW i \in 0 .. k - 1, NEW j \in 0 .. k - 1, k * q + i = k * r + j
  PROVE  q = r /\ i = j
OBVIOUS

\* The i-th of the g-th chunk.
At(g, k, i) == (g - 1) * k + i

\* m chunks of k have all of 1 .. n, each in one place.
Chunked(n, k, m) ==
  /\ \A g \in 1 .. m, i \in 1 .. k : At(g, k, i) \in 1 .. n
  /\ \A g, h \in 1 .. m, i, j \in 1 .. k : At(g, k, i) = At(h, k, j) => g = h /\ i = j
  /\ \A x \in 1 .. n : \E g \in 1 .. m, i \in 1 .. k : x = At(g, k, i)

\* n rows are exactly n \div k chunks of k, every row in one place of one chunk.
LEMMA Chunks ==
  ASSUME NEW n \in Nat, NEW k \in Nat \ {0}, n % k = 0
  PROVE  n \div k \in Nat /\ n = k * (n \div k) /\ Chunked(n, k, n \div k)
<1> DEFINE m == n \div k
<1>1. m \in Nat /\ n = k * m
  BY DivMod, DivPos
<1> HIDE DEF m
<1>2. ASSUME NEW g \in 1 .. m, NEW i \in 1 .. k PROVE At(g, k, i) \in 1 .. n
  <2>1. k * (g - 1) <= k * (m - 1) /\ 0 <= k * (g - 1)
    <3>1. g - 1 \in Int /\ m - 1 \in Int /\ g - 1 <= m - 1 /\ 0 <= g - 1
      BY <1>1
    <3>2. k * 0 <= k * (g - 1)
      BY <3>1, TimesGrows
    <3> QED BY <3>1, <3>2, TimesGrows
  <2> DEFINE a == k * (g - 1)
             b == k * (m - 1)
  <2>2. b + k = n /\ At(g, k, i) = a + i /\ a \in Int /\ b \in Int /\ a <= b /\ 0 <= a
    BY <1>1, <2>1 DEF At
  <2> HIDE DEF a, b
  <2>3. a + i <= n /\ 1 <= a + i
    BY <2>2
  <2> QED BY <2>2, <2>3
<1>3. ASSUME NEW g \in 1 .. m, NEW h \in 1 .. m, NEW i \in 1 .. k, NEW j \in 1 .. k,
             At(g, k, i) = At(h, k, j)
      PROVE  g = h /\ i = j
  <2>1. g - 1 \in Int /\ h - 1 \in Int /\ i - 1 \in 0 .. k - 1 /\ j - 1 \in 0 .. k - 1
    OBVIOUS
  <2>2. k * (g - 1) + (i - 1) = k * (h - 1) + (j - 1)
    BY <1>3 DEF At
  <2>3. g - 1 = h - 1 /\ i - 1 = j - 1
    BY <2>1, <2>2, DivUnique
  <2> QED BY <2>3
<1>4. ASSUME NEW x \in 1 .. n PROVE \E g \in 1 .. m, i \in 1 .. k : x = At(g, k, i)
  <2> DEFINE q == (x - 1) \div k
             r == (x - 1) % k
  <2>1. x - 1 = k * q + r /\ r \in 0 .. k - 1 /\ q \in Nat
    <3>1. x - 1 \in Nat
      OBVIOUS
    <3> QED BY <3>1, DivMod, DivPos
  <2> HIDE DEF q, r
  <2>2. q < m
    <3> SUFFICES ASSUME m <= q PROVE FALSE
      BY <1>1, <2>1
    <3>1. k * m <= k * q
      BY <1>1, <2>1, TimesGrows
    <3> DEFINE a == k * q
    <3>2. x - 1 = a + r /\ n <= a /\ a \in Int
      BY <1>1, <2>1, <3>1
    <3> HIDE DEF a
    <3> QED BY <2>1, <3>2
  <2>3. q + 1 \in 1 .. m /\ r + 1 \in 1 .. k /\ x = At(q + 1, k, r + 1)
    <3>1. (q + 1) - 1 = q /\ q * k = k * q
      BY <2>1
    <3> DEFINE a == k * q
    <3>2. x - 1 = a + r /\ a \in Int
      BY <2>1
    <3>3. At(q + 1, k, r + 1) = a + (r + 1)
      BY <3>1 DEF At
    <3> HIDE DEF a
    <3> QED BY <1>1, <2>1, <2>2, <3>2, <3>3
  <2> QED BY <2>3
<1>5. Chunked(n, k, m)
  BY <1>2, <1>3, <1>4 DEF Chunked
<1> QED BY <1>1, <1>5 DEF m

-----------------------------------------------------------------------------
(* karmarkar_karp.                                                         *)

\* A sequence has finitely many elements.
LEMMA ImageFinite ==
  ASSUME NEW n \in Nat, NEW f, DOMAIN f = 1 .. n
  PROVE  IsFiniteSet({f[i] : i \in 1 .. n})
<1> DEFINE D == 1 .. n
           T == {f[i] : i \in D}
           g == [i \in D |-> f[i]]
<1>1. IsFiniteSet(D)
  BY FS_Interval
<1>2. g \in [D -> T] /\ \A t \in T : \E i \in D : g[i] = t
  OBVIOUS
<1> HIDE DEF D, T, g
<1>3. g \in Surjection(D, T)
  BY <1>2 DEF Surjection
<1> QED BY <1>1, <1>3, FS_Surjection DEF D, T

\* The states the heap begins with.
AllSorted(f, m) == {SortSets(f[g]) : g \in 1 .. m}
AllHeld(f, m) == UNION {Held(f[g]) : g \in 1 .. m}

\* The states before sorting.
Begins(f, m, k, w, even, d) ==
  /\ DOMAIN f = 1 .. m /\ \A g \in 1 .. m : Kept(f[g], k, w, even, d)
  /\ \A g, h \in 1 .. m : g # h => Held(f[g]) \cap Held(f[h]) = {}

\* The first states, sorted, are a heap of all their rows.
LEMMA HeapFrom ==
  ASSUME NEW w \in Seq(Nat), NEW k \in Nat, NEW even, NEW d, NEW m \in Nat \ {0}, NEW f,
         Begins(f, m, k, w, even, d)
  PROVE  /\ Heap(AllSorted(f, m), k, w, even, d) /\ AllSorted(f, m) # {}
         /\ HeldBy(AllSorted(f, m)) = AllHeld(f, m)
<1> DEFINE heap == AllSorted(f, m)
<1>0. heap = {SortSets(f[g]) : g \in 1 .. m}
  BY DEF AllSorted
<1> HIDE DEF heap
<1>1. \A g \in 1 .. m : /\ Kept(SortSets(f[g]), k, w, even, d) /\ Descends(SortSets(f[g]))
                        /\ Held(SortSets(f[g])) = Held(f[g])
  BY SortKeeps DEF Begins
<1>2. IsFiniteSet(heap)
  <2> DEFINE e == [g \in 1 .. m |-> SortSets(f[g])]
  <2>1. DOMAIN e = 1 .. m /\ heap = {e[g] : g \in 1 .. m}
    BY <1>0
  <2> HIDE DEF e
  <2>2. IsFiniteSet({e[g] : g \in 1 .. m})
    BY <2>1, ImageFinite
  <2> QED BY <2>1, <2>2
<1>3. Heap(heap, k, w, even, d)
  <2>1. \A s \in heap : Kept(s, k, w, even, d) /\ Descends(s)
    BY <1>0, <1>1
  <2>2. \A s, t \in heap : s # t => Held(s) \cap Held(t) = {}
    BY <1>0, <1>1 DEF Begins
  <2> QED BY <1>2, <2>1, <2>2 DEF Heap
<1>4. 1 \in 1 .. m
  OBVIOUS
<1>5. heap # {}
  BY <1>0, <1>4
<1>6. HeldBy(heap) = AllHeld(f, m)
  <2>1. \A s \in heap : \E g \in 1 .. m : Held(s) = Held(f[g])
    BY <1>0, <1>1
  <2>2. \A g \in 1 .. m : \E s \in heap : Held(s) = Held(f[g])
    BY <1>0, <1>1
  <2> DEFINE U == UNION {Held(f[g]) : g \in 1 .. m}
  <2>3. ASSUME NEW x \in HeldBy(heap) PROVE x \in U
    <3>1. PICK s \in heap : x \in Held(s)
      BY DEF HeldBy
    <3> QED BY <2>1, <3>1
  <2>4. ASSUME NEW x \in U PROVE x \in HeldBy(heap)
    <3>1. PICK g \in 1 .. m : x \in Held(f[g])
      OBVIOUS
    <3> QED BY <2>2, <3>1 DEF HeldBy
  <2> QED BY <2>3, <2>4 DEF AllHeld
<1> QED BY <1>3, <1>5, <1>6 DEF heap

\* The Set of one row.
LEMMA OneRowIs ==
  ASSUME NEW w \in Seq(Nat), NEW i \in 1 .. Len(w)
  PROVE  /\ OneRow(i, w) \in SetsOf(Len(w)) /\ Has(OneRow(i, w)) = {i}
         /\ Lists(OneRow(i, w).items, {i}) /\ OneRow(i, w).items = <<i>>
         /\ Len(OneRow(i, w).items) = 1
         /\ OneRow(i, w).sum = w[i] /\ SumOver(w, {i}) = w[i] /\ w[i] \in Nat
<1>1. Len(w) \in Nat /\ w[i] \in Nat
  OBVIOUS
<1>2. <<i>> \in Seq({i}) /\ <<i>> \in Seq(1 .. Len(w)) /\ Len(<<i>>) = 1 /\ <<i>>[1] = i
  OBVIOUS
<1>3. OneRow(i, w) = [items |-> <<i>>, sum |-> w[i]]
  BY DEF OneRow
<1>4. OneRow(i, w) \in SetsOf(Len(w))
  BY <1>1, <1>2, <1>3 DEF SetsOf
<1>5. Lists(<<i>>, {i})
  BY <1>2 DEF Lists
<1>6. SumOver(w, {i}) = w[i]
  <2> DEFINE N == 1 .. Len(w)
  <2>1. w \in [N -> Int] /\ IsFiniteSet(N) /\ i \in N \ {} /\ {} \in SUBSET N /\ {} \cup {i} = {i}
    <3>1. w \in [N -> Int]
      OBVIOUS
    <3> QED BY <1>1, <3>1, FS_Interval
  <2> HIDE DEF N
  <2>2. SumOver(w, {} \cup {i}) = w[i] + SumOver(w, {})
    BY <2>1, SumOverMore
  <2> QED BY <1>1, <2>1, <2>2, SumOverNone
<1>7. Has(OneRow(i, w)) = {i}
  BY <1>3, <1>5, ListsCount DEF Has
<1> QED BY <1>1, <1>2, <1>3, <1>4, <1>5, <1>6, <1>7

\* The empty Set.
LEMMA NoRowsIs ==
  ASSUME NEW w \in Seq(Nat)
  PROVE  /\ NoRows \in SetsOf(Len(w)) /\ Has(NoRows) = {} /\ Lists(NoRows.items, {})
         /\ Len(NoRows.items) = 0 /\ NoRows.sum = 0 /\ SumOver(w, {}) = 0
<1>1. /\ <<>> \in Seq({}) /\ <<>> \in Seq(1 .. Len(w)) /\ DOMAIN <<>> = {}
      /\ NoRows = [items |-> <<>>, sum |-> 0]
  BY DEF NoRows
<1>2. Len(<<>>) = 0
  OBVIOUS
<1>3. Lists(<<>>, {})
  BY <1>1, <1>2 DEF Lists
<1>4. NoRows \in SetsOf(Len(w))
  BY <1>1 DEF SetsOf
<1>5. Has(NoRows) = {}
  BY <1>1, <1>3, ListsCount DEF Has
<1> QED BY <1>1, <1>2, <1>3, <1>4, <1>5, SumOverNone

\* The rows by weight: every row once, none lighter than one before it.
LEMMA SortedRowsIs ==
  ASSUME NEW w \in Seq(Nat)
  PROVE  /\ IsPermutation(SortedRows(w), Len(w))
         /\ SortedRows(w) \in Seq(1 .. Len(w)) /\ Len(SortedRows(w)) = Len(w)
         /\ \A q, r \in 1 .. Len(w) : q <= r => w[SortedRows(w)[q]] <= w[SortedRows(w)[r]]
<1> DEFINE n == Len(w)
           id == [i \in DOMAIN w |-> i]
           less == {p \in Positions(w) : w[p[1]] < w[p[2]]}
<1>1. n \in Nat /\ DOMAIN w = 1 .. n /\ \A i \in 1 .. n : w[i] \in Nat
  OBVIOUS
<1>2. id \in Seq(1 .. n) /\ Len(id) = n /\ \A i \in 1 .. n : id[i] = i
  BY <1>1
<1>3. SortedRows(w) = SortedBy(id, less)
  BY DEF SortedRows
<1>4. \A i, j \in 1 .. n : <<i, j>> \in less <=> w[i] < w[j]
  BY <1>1 DEF Positions
<1> HIDE DEF id, less
<1>5. Compares(less, 1 .. n)
  <2>1. ASSUME NEW i \in 1 .. n, NEW j \in 1 .. n, <<i, j>> \in less PROVE <<j, i>> \notin less
    <3>1. w[i] \in Nat /\ w[j] \in Nat /\ w[i] < w[j]
      BY <1>1, <1>4, <2>1
    <3>2. ~(w[j] < w[i])
      BY ONLY <3>1
    <3> QED BY <1>4, <3>2
  <2>2. ASSUME NEW i \in 1 .. n, NEW j \in 1 .. n, NEW l \in 1 .. n,
               <<i, j>> \notin less, <<j, l>> \notin less
        PROVE  <<i, l>> \notin less
    <3>1. w[i] \in Nat /\ w[j] \in Nat /\ w[l] \in Nat /\ ~(w[i] < w[j]) /\ ~(w[j] < w[l])
      BY <1>1, <1>4, <2>2
    <3>2. ~(w[i] < w[l])
      BY ONLY <3>1
    <3> QED BY <1>4, <3>2
  <2> QED BY <2>1, <2>2 DEF Compares
<1>6a. \E p : /\ IsPermutation(p, Len(id))
              /\ SortedBy(id, less) = [r \in 1 .. Len(id) |-> id[p[r]]]
              /\ \A q, r \in 1 .. Len(id) :
                   q < r => \/ <<p[q], p[r]>> \in less
                            \/ <<p[r], p[q]>> \notin less /\ p[q] < p[r]
  <2>1. Compares(less, 1 .. Len(id)) /\ id \in Seq(1 .. n)
    BY <1>2, <1>5
  <2> HIDE DEF n
  <2> QED BY <2>1, Sorted
<1>6. PICK p : /\ IsPermutation(p, n)
               /\ SortedBy(id, less) = [r \in 1 .. n |-> id[p[r]]]
               /\ \A q, r \in 1 .. n :
                    q < r => \/ <<p[q], p[r]>> \in less
                             \/ <<p[r], p[q]>> \notin less /\ p[q] < p[r]
  BY <1>2, <1>6a
<1>7. p \in [1 .. n -> 1 .. n]
  BY <1>6 DEF IsPermutation
<1>8. SortedBy(id, less) = p
  <2>1. [r \in 1 .. n |-> id[p[r]]] = p
    BY <1>2, <1>7
  <2> QED BY <1>6, <2>1
<1>9. p \in Seq(1 .. n) /\ Len(p) = n
  <2>1. p = [i \in 1 .. n |-> p[i]]
    BY <1>7
  <2>2. \A i \in 1 .. n : p[i] \in 1 .. n
    BY <1>7
  <2> DEFINE N == 1 .. n
  <2>3. [i \in 1 .. n |-> p[i]] \in Seq(N) /\ Len([i \in 1 .. n |-> p[i]]) = n
    BY <1>1, <2>2
  <2> QED BY <2>1, <2>3
<1>10. ASSUME NEW q \in 1 .. n, NEW r \in 1 .. n, q <= r PROVE w[p[q]] <= w[p[r]]
  <2>1. p[q] \in 1 .. n /\ p[r] \in 1 .. n
    BY <1>7
  <2>2. CASE q = r
    BY <1>1, <2>1, <2>2
  <2>3. CASE q < r
    <3>1. w[p[r]] \in Nat /\ w[p[q]] \in Nat
      BY <1>1, <2>1
    <3>2. <<p[r], p[q]>> \notin less
      <4>1. <<p[q], p[r]>> \in less \/ <<p[r], p[q]>> \notin less
        BY <1>6, <2>3
      <4> QED BY <1>5, <2>1, <4>1 DEF Compares
    <3>3. ~(w[p[r]] < w[p[q]])
      BY <1>4, <2>1, <3>2
    <3> DEFINE a == w[p[q]]
               b == w[p[r]]
    <3>4. a \in Nat /\ b \in Nat /\ ~(b < a)
      BY ONLY <3>1, <3>3
    <3>5. a <= b
      <4> HIDE DEF a, b
      <4> QED BY ONLY <3>4
    <3> QED BY ONLY <3>5
  <2>4. q = r \/ q < r
    BY <1>1, <1>10
  <2> QED BY <2>2, <2>3, <2>4
<1> QED BY <1>3, <1>6, <1>8, <1>9, <1>10

\* A set of the one row x, and one of none.
IsOne(a, x, w) ==
  /\ a \in SetsOf(Len(w)) /\ Has(a) = {x} /\ Lists(a.items, Has(a))
  /\ a.sum = SumOver(w, Has(a)) /\ Len(a.items) = 1 /\ a.sum = w[x] /\ w[x] \in Nat
IsNone(a, w) ==
  /\ a \in SetsOf(Len(w)) /\ Has(a) = {} /\ Lists(a.items, Has(a))
  /\ a.sum = SumOver(w, Has(a)) /\ Len(a.items) = 0 /\ a.sum = 0

\* OneRow is a Set of one row.
LEMMA OneIs ==
  ASSUME NEW w \in Seq(Nat), NEW i \in 1 .. Len(w)
  PROVE  IsOne(OneRow(i, w), i, w)
BY OneRowIs DEF IsOne

\* NoRows is the empty Set.
LEMMA NoneIs ==
  ASSUME NEW w \in Seq(Nat)
  PROVE  IsNone(NoRows, w)
BY NoRowsIs DEF IsNone

\* The first state of one row.
LEMMA SinglesKept ==
  ASSUME NEW w \in Seq(Nat), NEW k \in Nat \ {0}, NEW d \in Nat, NEW i \in 1 .. Len(w),
         w[i] <= d, NEW s, s = RowState(i, k, w)
  PROVE  Kept(s, k, w, FALSE, d) /\ Held(s) = {i}
<1>1. /\ 1 \in 1 .. k /\ s[1] = OneRow(i, w)
      /\ \A j \in 1 .. k : j # 1 => s[j] = NoRows
      /\ s = [j \in 1 .. k |-> s[j]]
  BY DEF RowState
<1>2. IsOne(s[1], i, w)
  BY <1>1, OneIs
<1>3. \A j \in 1 .. k : j # 1 => IsNone(s[j], w)
  BY <1>1, NoneIs
<1>4. \A j \in 1 .. k : /\ s[j] \in SetsOf(Len(w))
                        /\ Lists(s[j].items, Has(s[j])) /\ s[j].sum = SumOver(w, Has(s[j]))
                        /\ Has(s[j]) \subseteq {i} /\ (j # 1 => Has(s[j]) = {})
  BY <1>2, <1>3 DEF IsOne, IsNone
<1>5. \A j \in 1 .. k : Len(s[j].items) <= 1 /\ s[j].sum \in 0 .. d
  <2> TAKE j \in 1 .. k
  <2>1. CASE j = 1
    <3>1. Len(s[j].items) = 1 /\ s[j].sum = w[i] /\ w[i] \in Nat
      BY <1>2, <2>1 DEF IsOne
    <3> QED BY <3>1
  <2>2. CASE j # 1
    <3>1. Len(s[j].items) = 0 /\ s[j].sum = 0
      BY <1>3, <2>2 DEF IsNone
    <3> QED BY <3>1
  <2> QED BY <2>1, <2>2
<1>6. s \in Seq(SetsOf(Len(w))) /\ Len(s) = k
  <2>1. [j \in 1 .. k |-> s[j]] \in Seq(SetsOf(Len(w))) /\ Len([j \in 1 .. k |-> s[j]]) = k
    BY <1>4
  <2> QED BY <1>1, <2>1
<1>7. SetsOK(s, k, w)
  <2>1. \A p, q \in 1 .. k : p # q => Has(s[p]) \cap Has(s[q]) = {}
    BY <1>4
  <2> QED BY <1>4, <1>6, <2>1 DEF SetsOK
<1>8. Held(s) = {i}
  <2>1. Has(s[1]) = {i}
    BY <1>2 DEF IsOne
  <2>2. \A x : x \in Held(s) <=> \E j \in 1 .. k : x \in Has(s[j])
    BY <1>6 DEF Held
  <2> QED BY <1>1, <1>4, <2>1, <2>2
<1>9. Filled(s)
  BY <1>5, <1>6 DEF Filled
<1>10. Within(s, d)
  <2> SUFFICES ASSUME NEW p \in 1 .. k, NEW q \in 1 .. k PROVE s[p].sum - s[q].sum <= d
    BY <1>6 DEF Within
  <2> DEFINE a == s[p].sum
             b == s[q].sum
  <2>1. a \in 0 .. d /\ b \in 0 .. d
    BY <1>5
  <2> HIDE DEF a, b
  <2>2. a - b <= d
    BY ONLY <2>1, d \in Nat
  <2> QED BY <2>2 DEF a, b
<1> QED BY <1>7, <1>8, <1>9, <1>10 DEF Kept

\* k rows no further apart than d, and the state with one in each set.
Spreads(f, k, w, d) ==
  /\ f \in [1 .. k -> 1 .. Len(w)] /\ \A i, j \in 1 .. k : f[i] = f[j] => i = j
  /\ \A i, j \in 1 .. k : w[f[i]] - w[f[j]] <= d
RowsAre(s, f, k, w) ==
  /\ DOMAIN s = 1 .. k /\ s \in Seq(SetsOf(Len(w)))
  /\ \A i \in 1 .. k : s[i] = OneRow(f[i], w)
HeldAre(s, f, k) == \A x : x \in Held(s) <=> \E i \in 1 .. k : f[i] = x

\* A state of k rows that follow each other in the order of the weights.
LEMMA GroupsKept ==
  ASSUME NEW w \in Seq(Nat), NEW k \in Nat \ {0}, NEW d \in Int, NEW f, NEW s,
         Spreads(f, k, w, d), RowsAre(s, f, k, w)
  PROVE  Kept(s, k, w, TRUE, d) /\ HeldAre(s, f, k)
<1>0. /\ f \in [1 .. k -> 1 .. Len(w)] /\ \A i, j \in 1 .. k : f[i] = f[j] => i = j
      /\ \A i, j \in 1 .. k : w[f[i]] - w[f[j]] <= d
      /\ DOMAIN s = 1 .. k /\ s \in Seq(SetsOf(Len(w)))
      /\ \A i \in 1 .. k : s[i] = OneRow(f[i], w)
  BY DEF Spreads, RowsAre
<1>1. \A j \in 1 .. k : f[j] \in 1 .. Len(w) /\ IsOne(s[j], f[j], w)
  BY <1>0, OneIs
<1>2. 1 \in 1 .. k
  OBVIOUS
<1>3. s \in Seq(SetsOf(Len(w))) /\ Len(s) = k
  BY <1>0
<1>4. \A j \in 1 .. k : /\ Has(s[j]) = {f[j]}
                        /\ Lists(s[j].items, Has(s[j])) /\ s[j].sum = SumOver(w, Has(s[j]))
                        /\ Len(s[j].items) = 1 /\ s[j].sum = w[f[j]]
  BY <1>1 DEF IsOne
<1>5. SetsOK(s, k, w)
  <2>1. ASSUME NEW p \in 1 .. k, NEW q \in 1 .. k, p # q PROVE Has(s[p]) \cap Has(s[q]) = {}
    <3>1. Has(s[p]) = {f[p]} /\ Has(s[q]) = {f[q]} /\ f[p] # f[q]
      BY <1>0, <1>4, <2>1
    <3> QED BY <3>1
  <2> QED BY <1>3, <1>4, <2>1 DEF SetsOK
<1>6. \A x : x \in Held(s) <=> \E i \in 1 .. k : f[i] = x
  <2>1. \A x : x \in Held(s) <=> \E i \in 1 .. k : x \in Has(s[i])
    BY <1>3 DEF Held
  <2>2. \A i \in 1 .. k : Has(s[i]) = {f[i]}
    BY <1>4
  <2>3. ASSUME NEW x, NEW i \in 1 .. k PROVE x \in Has(s[i]) <=> f[i] = x
    BY <2>2
  <2> QED BY <2>1, <2>3
<1>7. Filled(s)
  <2>1. \A p \in 1 .. Len(s) : Len(s[p].items) <= 1
    <3> TAKE p \in 1 .. Len(s)
    <3>1. Len(s[p].items) = 1
      BY <1>3, <1>4
    <3> QED BY <3>1
  <2> QED BY <2>1 DEF Filled
<1>8. Within(s, d)
  <2> SUFFICES ASSUME NEW p \in 1 .. k, NEW q \in 1 .. k PROVE s[p].sum - s[q].sum <= d
    BY <1>3 DEF Within
  <2>1. s[p].sum = w[f[p]] /\ s[q].sum = w[f[q]] /\ w[f[p]] - w[f[q]] <= d
    BY <1>0, <1>4
  <2> QED BY <2>1
<1>9. Cardinality(Held(s)) = k
  <2> DEFINE H == {f[i] : i \in 1 .. k}
             D == 1 .. k
  <2>1. IsFiniteSet(D) /\ Cardinality(D) = k
    BY FS_Interval
  <2>2. /\ f \in [D -> H] /\ \A i, j \in D : f[i] = f[j] => i = j
        /\ \A x \in H : \E i \in D : f[i] = x
    BY <1>0
  <2> HIDE DEF H, D
  <2>3. f \in Surjection(D, H) /\ f \in Injection(D, H)
    BY <2>2 DEF Surjection, Injection, IsInjective
  <2>4. Cardinality(H) = k
    BY <2>1, <2>3, FS_Surjection
  <2>5. Held(s) = H
    BY <1>6 DEF H
  <2> QED BY <2>4, <2>5
<1>10. Even(s)
  <2> SUFFICES ASSUME NEW p \in 1 .. k PROVE Len(s[p].items) * k = k
    BY <1>3, <1>9 DEF Even
  <2>1. Len(s[p].items) = 1
    BY <1>4
  <2> QED BY <2>1
<1>11. Held(s) # {}
  <2>1. f[1] \in Held(s)
    BY <1>2, <1>6
  <2> QED BY <2>1
<1> QED BY <1>5, <1>6, <1>7, <1>8, <1>10, <1>11 DEF Kept, HeldAre

\* Parts with every row in one of them.
Parted(parts, k, n) ==
  /\ parts \in Seq(Seq(1 .. n)) /\ Len(parts) = k
  /\ \A p \in 1 .. k : Lists(parts[p], ToSet(parts[p]))
  /\ \A p, q \in 1 .. k : p # q => ToSet(parts[p]) \cap ToSet(parts[q]) = {}
  /\ UNION {ToSet(parts[p]) : p \in 1 .. k} = 1 .. n

\* How far apart the states are that the heap begins with.
Bounds(w, k, even, d) ==
  IF even
  THEN \A g \in 1 .. Len(w) \div k, i, j \in 1 .. k :
         w[SortedRows(w)[At(g, k, i)]] - w[SortedRows(w)[At(g, k, j)]] <= d
  ELSE d >= 0 /\ \A i \in 1 .. Len(w) : w[i] <= d

\* The states pushed first keep what is asked of a heap, and hold every row.
LEMMA StartKept ==
  ASSUME NEW w \in Seq(Nat), NEW k, NEW even \in BOOLEAN, CanPartition(w, k, even),
         NEW d \in Int, Bounds(w, k, even, d), NEW heap, heap = FirstStates(w, k, even)
  PROVE  Heap(heap, k, w, even, d) /\ heap # {} /\ HeldBy(heap) = 1 .. Len(w)
<1> DEFINE n == Len(w)
           rows == SortedRows(w)
<1>1. n \in Nat \ {0} /\ k \in Nat \ {0} /\ k \in 1 .. n /\ (even => n % k = 0)
  <2>1. n \in Nat /\ k \in 1 .. n /\ (even => n % k = 0)
    BY DEF CanPartition
  <2> QED BY <2>1
<1>2. CASE even
  <2> DEFINE m == n \div k
             e == [g \in 1 .. m |-> GroupState(rows, g, k, w)]
  <2>1. m \in Nat \ {0} /\ Chunked(n, k, m)
    <3>1. m \in Nat /\ n = k * m /\ Chunked(n, k, m)
      BY <1>1, <1>2, Chunks
    <3>2. m # 0
      BY <1>1, <3>1
    <3> QED BY <3>1, <3>2
  <2>2. heap = {SortSets(GroupState(rows, g, k, w)) : g \in 1 .. m}
    BY <1>2 DEF FirstStates
  <2>4. DOMAIN e = 1 .. m /\ \A g \in 1 .. m : e[g] = GroupState(rows, g, k, w)
    OBVIOUS
  <2> HIDE DEF e
  <2>5. heap = AllSorted(e, m)
    BY <2>2, <2>4 DEF AllSorted
  <2>6. IsPermutation(rows, n)
    BY SortedRowsIs
  <2>6a. \A g \in 1 .. m, i, j \in 1 .. k : w[rows[At(g, k, i)]] - w[rows[At(g, k, j)]] <= d
    BY <1>2 DEF Bounds
  <2> HIDE DEF m, rows
  <2>7. ASSUME NEW g \in 1 .. m
        PROVE  /\ Kept(e[g], k, w, even, d)
               /\ \A x : x \in Held(e[g]) <=> \E i \in 1 .. k : rows[At(g, k, i)] = x
    <3> DEFINE f == [i \in 1 .. k |-> rows[At(g, k, i)]]
    <3>1. \A i \in 1 .. k : At(g, k, i) \in 1 .. n
      BY <2>1 DEF Chunked
    <3>2. f \in [1 .. k -> 1 .. n] /\ \A i \in 1 .. k : f[i] = rows[At(g, k, i)]
      BY <2>6, <3>1 DEF IsPermutation
    <3> HIDE DEF f
    <3>3. \A i, j \in 1 .. k : f[i] = f[j] => i = j
      <4> SUFFICES ASSUME NEW i \in 1 .. k, NEW j \in 1 .. k, f[i] = f[j] PROVE i = j
        OBVIOUS
      <4>1. At(g, k, i) = At(g, k, j)
        BY <2>6, <3>1, <3>2 DEF IsPermutation
      <4> QED BY <2>1, <4>1 DEF Chunked
    <3>4. \A i, j \in 1 .. k : w[f[i]] - w[f[j]] <= d
      BY <2>6a, <3>2
    <3>4a. Spreads(f, k, w, d)
      BY <3>2, <3>3, <3>4 DEF Spreads
    <3>5. /\ DOMAIN e[g] = 1 .. k /\ \A i \in 1 .. k : e[g][i] = OneRow(f[i], w)
          /\ e[g] = [i \in 1 .. k |-> e[g][i]]
      <4>1. e[g] = [i \in 1 .. k |-> OneRow(rows[At(g, k, i)], w)]
        BY <2>4 DEF GroupState, At
      <4>2. \A i \in 1 .. k : e[g][i] = OneRow(rows[At(g, k, i)], w)
        BY <4>1
      <4>3. \A i \in 1 .. k : e[g][i] = OneRow(f[i], w)
        BY <3>2, <4>2
      <4>4. DOMAIN e[g] = 1 .. k /\ e[g] = [i \in 1 .. k |-> e[g][i]]
        BY <4>1
      <4> QED BY <4>3, <4>4
    <3>6. e[g] \in Seq(SetsOf(n))
      <4>1. \A i \in 1 .. k : e[g][i] \in SetsOf(n)
        <5> TAKE i \in 1 .. k
        <5>1. f[i] \in 1 .. n /\ e[g][i] = OneRow(f[i], w)
          BY <3>2, <3>5
        <5>2. OneRow(f[i], w) \in SetsOf(n)
          BY <5>1, OneRowIs
        <5> QED BY <5>1, <5>2
      <4>2. [i \in 1 .. k |-> e[g][i]] \in Seq(SetsOf(n))
        BY <1>1, <4>1
      <4> QED BY <3>5, <4>2
    <3>7. RowsAre(e[g], f, k, w)
      BY <3>5, <3>6 DEF RowsAre
    <3>8. Kept(e[g], k, w, TRUE, d) /\ HeldAre(e[g], f, k)
      BY <1>1, <3>4a, <3>7, GroupsKept
    <3>9. Kept(e[g], k, w, even, d)
      BY <1>2, <3>8 DEF Kept
    <3> QED BY <3>2, <3>8, <3>9 DEF HeldAre
  <2>8. ASSUME NEW g \in 1 .. m, NEW h \in 1 .. m, g # h PROVE Held(e[g]) \cap Held(e[h]) = {}
    <3> SUFFICES ASSUME NEW x \in Held(e[g]), x \in Held(e[h]) PROVE FALSE
      OBVIOUS
    <3>0. PICK i \in 1 .. k, j \in 1 .. k : rows[At(g, k, i)] = x /\ rows[At(h, k, j)] = x
      BY <2>7
    <3>1. At(g, k, i) \in 1 .. n /\ At(h, k, j) \in 1 .. n
      BY <2>1 DEF Chunked
    <3>2. At(g, k, i) = At(h, k, j)
      BY <2>6, <3>0, <3>1 DEF IsPermutation
    <3> QED BY <2>1, <2>8, <3>2 DEF Chunked
  <2>9. AllHeld(e, m) = 1 .. n
    <3>1. ASSUME NEW g \in 1 .. m, NEW x \in Held(e[g]) PROVE x \in 1 .. n
      <4>1. PICK i \in 1 .. k : rows[At(g, k, i)] = x
        BY <2>7
      <4>2. At(g, k, i) \in 1 .. n
        BY <2>1 DEF Chunked
      <4> QED BY <2>6, <4>1, <4>2 DEF IsPermutation
    <3>2. ASSUME NEW x \in 1 .. n PROVE \E g \in 1 .. m : x \in Held(e[g])
      <4>1. PICK y \in 1 .. n : rows[y] = x
        BY <2>6 DEF IsPermutation
      <4>2. PICK g \in 1 .. m, i \in 1 .. k : y = At(g, k, i)
        BY <2>1 DEF Chunked
      <4> QED BY <2>7, <4>1, <4>2
    <3> QED BY <3>1, <3>2 DEF AllHeld
  <2>10. Heap(heap, k, w, even, d) /\ heap # {} /\ HeldBy(heap) = AllHeld(e, m)
    <3>1. Begins(e, m, k, w, even, d)
      BY <2>4, <2>7, <2>8 DEF Begins
    <3>2. k \in Nat
      BY <1>1
    <3> QED BY <2>1, <2>5, <3>1, <3>2, HeapFrom
  <2> QED BY <2>9, <2>10
<1>3. CASE ~even
  <2> DEFINE e == [g \in 1 .. n |-> RowState(g, k, w)]
  <2>2. heap = {SortSets(RowState(g, k, w)) : g \in 1 .. n}
    BY <1>3 DEF FirstStates
  <2>4. DOMAIN e = 1 .. n /\ \A g \in 1 .. n : e[g] = RowState(g, k, w)
    OBVIOUS
  <2> HIDE DEF e
  <2>5. heap = AllSorted(e, n)
    BY <2>2, <2>4 DEF AllSorted
  <2>6. d \in Nat /\ \A i \in 1 .. n : w[i] <= d
    BY <1>3 DEF Bounds
  <2>7. ASSUME NEW g \in 1 .. n
        PROVE  Kept(e[g], k, w, even, d) /\ Held(e[g]) = {g}
    <3>1. Kept(e[g], k, w, FALSE, d) /\ Held(e[g]) = {g}
      BY <1>1, <2>4, <2>6, SinglesKept
    <3> QED BY <1>3, <3>1 DEF Kept
  <2>8. \A g, h \in 1 .. n : g # h => Held(e[g]) \cap Held(e[h]) = {}
    BY <2>7
  <2>9. AllHeld(e, n) = 1 .. n
    <3>1. \A x : x \in AllHeld(e, n) <=> \E g \in 1 .. n : x \in Held(e[g])
      BY DEF AllHeld
    <3>2. \A g \in 1 .. n : Held(e[g]) = {g}
      BY <2>7
    <3>3. ASSUME NEW x \in 1 .. n PROVE x \in AllHeld(e, n)
      <4>1. x \in Held(e[x])
        BY <3>2
      <4> QED BY <3>1, <4>1
    <3>4. ASSUME NEW x \in AllHeld(e, n) PROVE x \in 1 .. n
      <4>1. PICK g \in 1 .. n : x \in Held(e[g])
        BY <3>1
      <4>2. x = g
        BY <3>2, <4>1
      <4> QED BY <4>2
    <3> QED BY <3>3, <3>4
  <2>10. Heap(heap, k, w, even, d) /\ heap # {} /\ HeldBy(heap) = AllHeld(e, n)
    <3>1. Begins(e, n, k, w, even, d)
      BY <2>4, <2>7, <2>8 DEF Begins
    <3>2. k \in Nat
      BY <1>1
    <3> HIDE DEF n
    <3> QED BY <1>1, <2>5, <3>1, <3>2, HeapFrom
  <2> QED BY <2>9, <2>10
<1> QED BY <1>2, <1>3

-----------------------------------------------------------------------------
(* The parts that come out.                                                *)

\* All of one size when asked, and none empty.
Sized(parts, k, n, even) ==
  /\ even => \A p \in 1 .. k : Len(parts[p]) * k = n
  /\ \A p \in 1 .. k : Len(parts[p]) >= 1

\* No two further apart than d.
Apart(parts, k, w, d) ==
  \A p, q \in 1 .. k :
    SumOver(w, ToSet(parts[p])) - SumOver(w, ToSet(parts[q])) <= d

\* With as many rows as sets or more, no set is left empty.
LEMMA NoneEmpty ==
  ASSUME NEW w \in Seq(Nat), NEW k \in Nat \ {0}, NEW even, NEW d, NEW s,
         Kept(s, k, w, even, d), Held(s) = 1 .. Len(w), k <= Len(w)
  PROVE  \A p \in 1 .. k : Len(s[p].items) >= 1
<1> DEFINE n == Len(w)
<1>1. n \in Nat /\ Len(s) = k /\ \A p \in 1 .. k : Lists(s[p].items, Has(s[p]))
  BY DEF Kept, SetsOK
<1>2. \A p \in 1 .. k : /\ Len(s[p].items) \in Nat /\ IsFiniteSet(Has(s[p]))
                        /\ Cardinality(Has(s[p])) = Len(s[p].items)
  <2> TAKE p \in 1 .. k
  <2>1. Lists(s[p].items, Has(s[p]))
    BY <1>1
  <2>2. IsFiniteSet(Has(s[p])) /\ Cardinality(Has(s[p])) = Len(s[p].items)
    BY <2>1, ListsCount
  <2> QED BY <2>2, FS_CardinalityType
<1>3. CASE \A p \in 1 .. Len(s) : Len(s[p].items) >= 1
  BY <1>1, <1>3
<1>4. CASE \A p \in 1 .. Len(s) : Len(s[p].items) <= 1
  <2> SUFFICES ASSUME NEW e \in 1 .. k, Len(s[e].items) = 0 PROVE FALSE
    BY <1>2
  <2> DEFINE D == 1 .. n
             F == 1 .. k
             E == F \ {e}
             f == [x \in D |-> CHOOSE p \in F : x \in Has(s[p])]
  <2>1. \A x \in D : \E p \in F : x \in Has(s[p])
    BY <1>1 DEF Held
  <2>2. \A x \in D : f[x] \in F /\ x \in Has(s[f[x]])
    BY <2>1
  <2> HIDE DEF f
  <2>3. \A x \in D : f[x] # e
    <3> SUFFICES ASSUME NEW x \in D, f[x] = e PROVE FALSE
      OBVIOUS
    <3>1. x \in Has(s[e])
      BY <2>2
    <3>2. Has(s[e]) = {}
      BY <1>2, FS_EmptySet
    <3> QED BY <3>1, <3>2
  <2>4. \A x, y \in D : f[x] = f[y] => x = y
    <3> SUFFICES ASSUME NEW x \in D, NEW y \in D, f[x] = f[y], x # y PROVE FALSE
      OBVIOUS
    <3> DEFINE T == Has(s[f[x]])
    <3>1. x \in T /\ y \in T /\ f[x] \in F
      BY <2>2
    <3>2. IsFiniteSet(T) /\ Cardinality(T) <= 1 /\ Cardinality(T) \in Nat
      <4>1. IsFiniteSet(T) /\ Cardinality(T) = Len(s[f[x]].items) /\ Len(s[f[x]].items) \in Nat
        BY <1>2, <3>1
      <4>2. Len(s[f[x]].items) <= 1
        BY <1>1, <1>4, <3>1
      <4> QED BY <4>1, <4>2
    <3> HIDE DEF T
    <3>3. Cardinality(T \ {x}) = Cardinality(T) - 1 /\ IsFiniteSet(T \ {x})
      BY <3>1, <3>2, FS_RemoveElement
    <3>4. Cardinality(T \ {x}) \in Nat /\ (Cardinality(T \ {x}) = 0 <=> T \ {x} = {})
      BY <3>3, FS_CardinalityType, FS_EmptySet
    <3>5. T \ {x} # {}
      BY <3>1
    <3> QED BY <3>2, <3>3, <3>4, <3>5
  <2>5. IsFiniteSet(D) /\ Cardinality(D) = n /\ IsFiniteSet(F) /\ Cardinality(F) = k
    <3>1. n \in Nat /\ Cardinality(1 .. k) = k
      BY <1>1, FS_Interval
    <3> HIDE DEF n
    <3>2. Cardinality(1 .. n) = n
      BY <3>1, FS_Interval
    <3> QED BY <3>1, <3>2, FS_Interval
  <2>6. IsFiniteSet(E) /\ Cardinality(E) = k - 1
    <3>1. IsFiniteSet(F) /\ Cardinality(F) = k /\ e \in F
      BY <2>5
    <3> HIDE DEF F
    <3> QED BY ONLY <3>1, FS_RemoveElement
  <2>7. f \in [D -> E]
    <3>1. DOMAIN f = D /\ f = [x \in D |-> f[x]]
      BY DEF f
    <3> QED BY <2>2, <2>3, <3>1
  <2> HIDE DEF D, E, F
  <2>8. f \in Injection(D, E)
    BY <2>4, <2>7 DEF Injection, IsInjective
  <2>9. Cardinality(D) <= Cardinality(E)
    BY <2>6, <2>8, FS_Injection
  <2> QED BY <1>1, <2>5, <2>6, <2>9
<1> QED BY <1>3, <1>4 DEF Kept, Filled

\* The differencing method parts all rows, in equal sizes when asked, with no
\* spread above the bound.
LEMMA KarmarkarKarpIs ==
  ASSUME NEW w \in Seq(Nat), NEW k, NEW even \in BOOLEAN, CanPartition(w, k, even),
         NEW d \in Int, Bounds(w, k, even, d)
  PROVE  /\ Parted(KarmarkarKarp(w, k, even), k, Len(w))
         /\ Sized(KarmarkarKarp(w, k, even), k, Len(w), even)
         /\ Apart(KarmarkarKarp(w, k, even), k, w, d)
<1> DEFINE n == Len(w)
           heap == FirstStates(w, k, even)
           s == Difference(heap)
           parts == KarmarkarKarp(w, k, even)
<1>1. n \in Nat /\ k \in Nat \ {0} /\ k <= n
  <2>1. n \in Nat /\ k \in 1 .. n
    BY DEF CanPartition
  <2> QED BY <2>1
<1>2. parts = [p \in 1 .. k |-> s[p].items]
  BY DEF KarmarkarKarp
<1>3. Heap(heap, k, w, even, d) /\ heap # {} /\ HeldBy(heap) = 1 .. n
  BY StartKept
<1> HIDE DEF heap
<1>4. Kept(s, k, w, even, d) /\ Held(s) = 1 .. n
  BY <1>1, <1>3, DifferenceKeeps
<1> HIDE DEF s, parts
<1>5. SetsOK(s, k, w) /\ (even => Even(s)) /\ Within(s, d)
  BY <1>4 DEF Kept
<1>6. /\ s \in Seq(SetsOf(n)) /\ Len(s) = k
      /\ \A p \in 1 .. k : Lists(s[p].items, Has(s[p])) /\ s[p].sum = SumOver(w, Has(s[p]))
      /\ \A p, q \in 1 .. k : p # q => Has(s[p]) \cap Has(s[q]) = {}
  BY <1>5 DEF SetsOK
<1>7. \A p \in 1 .. k : parts[p] = s[p].items /\ ToSet(parts[p]) = Has(s[p])
  BY <1>2 DEF Has
<1>8. \A p \in 1 .. k : Len(parts[p]) >= 1
  <2>1. \A p \in 1 .. k : Len(s[p].items) >= 1
    BY <1>1, <1>4, NoneEmpty
  <2> QED BY <1>7, <2>1
<1>9. Parted(parts, k, n)
  <2>1. parts \in Seq(Seq(1 .. n)) /\ Len(parts) = k
    <3>1. \A p \in 1 .. k : s[p] \in SetsOf(n)
      BY <1>1, <1>6
    <3>2. \A p \in 1 .. k : s[p].items \in Seq(1 .. n)
      BY <3>1 DEF SetsOf
    <3>3. [p \in 1 .. k |-> s[p].items] \in Seq(Seq(1 .. n))
          /\ Len([p \in 1 .. k |-> s[p].items]) = k
      BY <1>1, <3>2
    <3> QED BY <1>2, <3>3
  <2>2. \A p \in 1 .. k : Lists(parts[p], ToSet(parts[p]))
    BY <1>6, <1>7
  <2>3. \A p, q \in 1 .. k : p # q => ToSet(parts[p]) \cap ToSet(parts[q]) = {}
    BY <1>6, <1>7
  <2>4. UNION {ToSet(parts[p]) : p \in 1 .. k} = 1 .. n
    <3>1. \A x : x \in Held(s) <=> \E p \in 1 .. k : x \in Has(s[p])
      BY <1>6 DEF Held
    <3>2. \A x : x \in UNION {ToSet(parts[p]) : p \in 1 .. k}
                   <=> \E p \in 1 .. k : x \in ToSet(parts[p])
      OBVIOUS
    <3>3. \A x : (\E p \in 1 .. k : x \in Has(s[p])) <=> \E p \in 1 .. k : x \in ToSet(parts[p])
      BY <1>7
    <3> DEFINE U == UNION {ToSet(parts[p]) : p \in 1 .. k}
               H == Held(s)
    <3>4. \A x : x \in U <=> x \in H
      BY <3>1, <3>2, <3>3
    <3> HIDE DEF U, H
    <3>5. U = H
      BY <3>4
    <3> QED BY <1>4, <3>5 DEF U, H
  <2> QED BY <2>1, <2>2, <2>3, <2>4 DEF Parted
<1>10. Sized(parts, k, n, even)
  <2>1. ASSUME even, NEW p \in 1 .. k PROVE Len(parts[p]) * k = n
    <3>1. Len(s[p].items) * k = Cardinality(Held(s))
      BY <1>5, <1>6, <2>1 DEF Even
    <3>2. Cardinality(Held(s)) = n
      <4> HIDE DEF n
      <4>1. Cardinality(1 .. n) = n - 1 + 1
        BY <1>1, FS_Interval
      <4> QED BY <1>1, <1>4, <4>1
    <3> QED BY <1>7, <3>1, <3>2
  <2> QED BY <1>8, <2>1 DEF Sized
<1>11. Apart(parts, k, w, d)
  <2> SUFFICES ASSUME NEW p \in 1 .. k, NEW q \in 1 .. k
               PROVE  SumOver(w, ToSet(parts[p])) - SumOver(w, ToSet(parts[q])) <= d
    BY DEF Apart
  <2>1. s[p].sum - s[q].sum <= d
    BY <1>5, <1>6 DEF Within
  <2>2. SumOver(w, ToSet(parts[p])) = s[p].sum /\ SumOver(w, ToSet(parts[q])) = s[q].sum
    BY <1>6, <1>7
  <2> QED BY <2>1, <2>2
<1> QED BY <1>9, <1>10, <1>11 DEF parts

\* Sorting a list.
LEMMA SortedLists ==
  ASSUME NEW X, NEW seq, Lists(seq, X), NEW less, Compares(less, 1 .. Len(seq))
  PROVE  Lists(SortedBy(seq, less), X) /\ Len(SortedBy(seq, less)) = Len(seq)
<1>1. seq \in Seq(X)
  BY DEF Lists
<1>2. PICK p : /\ IsPermutation(p, Len(seq))
               /\ SortedBy(seq, less) = [r \in 1 .. Len(seq) |-> seq[p[r]]]
  BY <1>1, Sorted
<1>3. Lists(SortedBy(seq, less), X)
  BY <1>2, ListsPermuted
<1>4. Len(SortedBy(seq, less)) = Len(seq)
  <2>1. SortedBy(seq, less) \in Seq(X) /\ DOMAIN SortedBy(seq, less) = 1 .. Len(seq)
    BY <1>2, <1>3 DEF Lists
  <2>2. Len(SortedBy(seq, less)) \in Nat
        /\ DOMAIN SortedBy(seq, less) = 1 .. Len(SortedBy(seq, less)) /\ Len(seq) \in Nat
    BY <1>1, <2>1
  <2> DEFINE a == Len(SortedBy(seq, less))
             b == Len(seq)
  <2>3. a \in Nat /\ b \in Nat /\ 1 .. a = 1 .. b
    BY <2>1, <2>2
  <2> HIDE DEF a, b
  <2>4. a = b
    <3>1. Cardinality(1 .. a) = a /\ Cardinality(1 .. b) = b
      BY <2>3, FS_Interval
    <3> QED BY <2>3, <3>1
  <2> QED BY <2>4 DEF a, b
<1> QED BY <1>3, <1>4

\* Comparing by a key.
LEMMA ByKey ==
  ASSUME NEW n \in Nat, NEW key, \A i \in 1 .. n : key[i] \in Int, NEW less,
         \A i, j \in 1 .. n : <<i, j>> \in less <=> key[i] < key[j]
  PROVE  Compares(less, 1 .. n)
<1>1. ASSUME NEW i \in 1 .. n, NEW j \in 1 .. n, <<i, j>> \in less PROVE <<j, i>> \notin less
  <2>1. key[i] \in Int /\ key[j] \in Int /\ key[i] < key[j]
    BY <1>1
  <2>2. ~(key[j] < key[i])
    BY ONLY <2>1
  <2> QED BY <2>2
<1>2. ASSUME NEW i \in 1 .. n, NEW j \in 1 .. n, NEW l \in 1 .. n,
             <<i, j>> \notin less, <<j, l>> \notin less
      PROVE  <<i, l>> \notin less
  <2>1. key[i] \in Int /\ key[j] \in Int /\ key[l] \in Int /\ ~(key[i] < key[j])
        /\ ~(key[j] < key[l])
    BY <1>2
  <2>2. ~(key[i] < key[l])
    BY ONLY <2>1
  <2> QED BY <2>2
<1> QED BY <1>1, <1>2 DEF Compares

\* Other lists of the same parts.
Rearranged(a, b, k) ==
  \A p \in 1 .. k : ToSet(a[p]) = ToSet(b[p]) /\ Len(a[p]) = Len(b[p])

\* A part in the order of its rows has the same rows.
LEMMA InRowOrderIs ==
  ASSUME NEW X \in SUBSET Int, NEW part, Lists(part, X)
  PROVE  Lists(InRowOrder(part), X) /\ Len(InRowOrder(part)) = Len(part)
<1> DEFINE less == {p \in Positions(part) : part[p[1]] < part[p[2]]}
           n == Len(part)
<1>1. n \in Nat /\ DOMAIN part = 1 .. n /\ \A i \in 1 .. n : part[i] \in Int
  <2>1. part \in Seq(X)
    BY DEF Lists
  <2>2. n \in Nat /\ DOMAIN part = 1 .. n /\ \A i \in 1 .. n : part[i] \in X
    BY <2>1
  <2> QED BY <2>2
<1>2. \A i, j \in 1 .. n : <<i, j>> \in less <=> part[i] < part[j]
  BY <1>1 DEF Positions
<1>3. InRowOrder(part) = SortedBy(part, less)
  BY DEF InRowOrder
<1> HIDE DEF less, n
<1>4. Compares(less, 1 .. n)
  BY <1>1, <1>2, ByKey
<1>5. Compares(less, 1 .. Len(part))
  BY <1>4 DEF n
<1> QED BY <1>3, <1>5, SortedLists

\* Parts whose rows are put in another order.
LEMMA PartedAgain ==
  ASSUME NEW k \in Nat, NEW n \in Nat, NEW parts, Parted(parts, k, n), NEW e,
         e = [p \in 1 .. k |-> e[p]], \A p \in 1 .. k : Lists(e[p], ToSet(parts[p]))
  PROVE  Parted(e, k, n) /\ \A p \in 1 .. k : ToSet(e[p]) = ToSet(parts[p])
<1>1. /\ parts \in Seq(Seq(1 .. n)) /\ Len(parts) = k /\ DOMAIN parts = 1 .. k
      /\ \A p \in 1 .. k : Lists(parts[p], ToSet(parts[p]))
      /\ \A p, q \in 1 .. k : p # q => ToSet(parts[p]) \cap ToSet(parts[q]) = {}
      /\ UNION {ToSet(parts[p]) : p \in 1 .. k} = 1 .. n
  BY DEF Parted
<1>2. \A p \in 1 .. k : ToSet(parts[p]) \subseteq 1 .. n
  BY <1>1
<1>3. \A p \in 1 .. k : ToSet(e[p]) = ToSet(parts[p])
  BY ListsCount
<1>4. e \in Seq(Seq(1 .. n)) /\ Len(e) = k
  <2>1. \A p \in 1 .. k : e[p] \in Seq(1 .. n)
    <3> TAKE p \in 1 .. k
    <3> DEFINE X == ToSet(parts[p])
               D == 1 .. n
    <3>1. e[p] \in Seq(X) /\ X \subseteq D
      BY <1>2 DEF Lists
    <3> HIDE DEF X, D
    <3>2. e[p] \in Seq(D)
      BY <3>1
    <3> QED BY <3>2 DEF D
  <2>2. [p \in 1 .. k |-> e[p]] \in Seq(Seq(1 .. n)) /\ Len([p \in 1 .. k |-> e[p]]) = k
    BY <2>1
  <2> QED BY <2>2
<1>5. \A p \in 1 .. k : Lists(e[p], ToSet(e[p]))
  BY <1>3
<1>6. \A p, q \in 1 .. k : p # q => ToSet(e[p]) \cap ToSet(e[q]) = {}
  BY <1>1, <1>3
<1>7. UNION {ToSet(e[p]) : p \in 1 .. k} = 1 .. n
  <2>1. {ToSet(e[p]) : p \in 1 .. k} = {ToSet(parts[p]) : p \in 1 .. k}
    BY <1>3
  <2> QED BY <1>1, <2>1
<1> QED BY <1>3, <1>4, <1>5, <1>6, <1>7 DEF Parted

\* Each part in row order.
LEMMA EachInOrderIs ==
  ASSUME NEW k \in Nat, NEW n \in Nat, NEW parts, Parted(parts, k, n)
  PROVE  Parted(EachInOrder(parts), k, n) /\ Rearranged(EachInOrder(parts), parts, k)
<1> DEFINE e == EachInOrder(parts)
<1>1. /\ DOMAIN parts = 1 .. k /\ \A p \in 1 .. k : Lists(parts[p], ToSet(parts[p]))
      /\ \A p \in 1 .. k : ToSet(parts[p]) \subseteq 1 .. n
  BY DEF Parted
<1>2. e = [p \in 1 .. k |-> InRowOrder(parts[p])]
  BY <1>1 DEF EachInOrder
<1>3. e = [p \in 1 .. k |-> e[p]] /\ \A p \in 1 .. k : e[p] = InRowOrder(parts[p])
  BY <1>2
<1> HIDE DEF e
<1>4. ASSUME NEW p \in 1 .. k
      PROVE  Lists(e[p], ToSet(parts[p])) /\ Len(e[p]) = Len(parts[p])
  <2> DEFINE X == ToSet(parts[p])
  <2>1. X \in SUBSET Int /\ Lists(parts[p], X)
    BY <1>1
  <2> HIDE DEF X
  <2>2. Lists(e[p], X) /\ Len(e[p]) = Len(parts[p])
    BY <1>3, <2>1, InRowOrderIs
  <2> QED BY <2>2 DEF X
<1>5. Parted(e, k, n) /\ \A p \in 1 .. k : ToSet(e[p]) = ToSet(parts[p])
  BY <1>3, <1>4, PartedAgain
<1> QED BY <1>4, <1>5 DEF Rearranged, e

\* get_seqlen_balanced_partitions.
LEMMA BalancedIs ==
  ASSUME NEW w \in Seq(Nat), NEW k, NEW even \in BOOLEAN, CanPartition(w, k, even),
         NEW d \in Int, Bounds(w, k, even, d)
  PROVE  /\ Parted(BalancedPartitions(w, k, even), k, Len(w))
         /\ Sized(BalancedPartitions(w, k, even), k, Len(w), even)
         /\ Apart(BalancedPartitions(w, k, even), k, w, d)
<1> DEFINE n == Len(w)
           a == KarmarkarKarp(w, k, even)
           b == BalancedPartitions(w, k, even)
<1>1. n \in Nat /\ k \in Nat
  <2>1. n \in Nat /\ k \in 1 .. n
    BY DEF CanPartition
  <2> QED BY <2>1
<1>2. Parted(a, k, n) /\ Sized(a, k, n, even) /\ Apart(a, k, w, d)
  BY KarmarkarKarpIs
<1>3. b = EachInOrder(a)
  BY DEF BalancedPartitions
<1> HIDE DEF a, b, n
<1>4. Parted(b, k, n) /\ Rearranged(b, a, k)
  BY <1>1, <1>2, <1>3, EachInOrderIs
<1>5. Sized(b, k, n, even)
  BY <1>2, <1>4 DEF Sized, Rearranged
<1>6. Apart(b, k, w, d)
  BY <1>2, <1>4 DEF Apart, Rearranged
<1> QED BY <1>4, <1>5, <1>6 DEF b, n

\* One after the other, the parts have every row once.
LEMMA PartedFlat ==
  ASSUME NEW k \in Nat, NEW n \in Nat, NEW parts, Parted(parts, k, n)
  PROVE  Lists(FlattenSeq(parts), 1 .. n) /\ IsPartition(parts, n)
<1> DEFINE X == [p \in 1 .. k |-> ToSet(parts[p])]
           D == 1 .. n
<1>1. /\ parts \in Seq(Seq(D)) /\ Len(parts) = k
      /\ \A p \in 1 .. k : Lists(parts[p], ToSet(parts[p]))
      /\ \A p, q \in 1 .. k : p # q => ToSet(parts[p]) \cap ToSet(parts[q]) = {}
      /\ UNION {ToSet(parts[p]) : p \in 1 .. k} = D
  BY DEF Parted
<1>2. \A p \in 1 .. k : X[p] = ToSet(parts[p])
  OBVIOUS
<1> HIDE DEF X
<1>3. AllOf(X, k) = D
  <2>1. {ToSet(parts[p]) : p \in 1 .. k} = {X[p] : p \in 1 .. k}
    BY <1>2
  <2> QED BY <1>1, <2>1 DEF AllOf
<1>4. IsFiniteSet(D) /\ Cardinality(D) = n
  BY FS_Interval
<1> HIDE DEF D
<1>5. AreLists(parts, X, k)
  BY <1>1, <1>2 DEF AreLists
<1>6. Lists(FlattenSeq(parts), AllOf(X, Len(parts)))
  BY <1>1, <1>5, ListsFlat
<1>7. Lists(FlattenSeq(parts), D)
  BY <1>1, <1>3, <1>6
<1>8. Len(FlattenSeq(parts)) = n /\ ToSet(FlattenSeq(parts)) = D
  BY <1>4, <1>7, ListsCount
<1> QED BY <1>7, <1>8 DEF IsPartition, D

\* A sequence over a smaller set.
LEMMA SeqWiden ==
  ASSUME NEW S, NEW T, S \subseteq T, NEW s \in Seq(S)
  PROVE  s \in Seq(T)
<1>1. s = [i \in 1 .. Len(s) |-> s[i]] /\ Len(s) \in Nat
  OBVIOUS
<1>2. \A i \in 1 .. Len(s) : s[i] \in T
  OBVIOUS
<1> QED BY <1>1, <1>2

\* Max and Min of some numbers.
LEMMA MaxOf ==
  ASSUME NEW S \in SUBSET Int, IsFiniteSet(S), S # {}
  PROVE  Max(S) \in S /\ \A x \in S : x <= Max(S)
<1> DEFINE Greatest(T) == \E m \in T : \A x \in T : x <= m
           P == {T \in SUBSET S : T = {} \/ Greatest(T)}
<1>1. {} \in P
  OBVIOUS
<1>2. ASSUME NEW T \in SUBSET S, NEW x \in S \ T, T \in P PROVE T \cup {x} \in P
  <2>1. CASE T = {}
    <3>1. x <= x
      OBVIOUS
    <3>2. Greatest({x})
      BY <3>1
    <3> QED BY <2>1, <3>2
  <2>2. CASE Greatest(T)
    <3>1. PICK m \in T : \A y \in T : y <= m
      BY <2>2
    <3>2. m \in Int /\ x \in Int /\ \A y \in T : y \in Int
      OBVIOUS
    <3>3. CASE x <= m
      <4>1. \A y \in T \cup {x} : y <= m
        BY <3>1, <3>3
      <4>2. Greatest(T \cup {x})
        BY <4>1
      <4> QED BY <4>2
    <3>4. CASE ~(x <= m)
      <4>1. \A y \in T \cup {x} : y <= x
        BY <3>1, <3>2, <3>4
      <4>2. Greatest(T \cup {x})
        BY <4>1
      <4> QED BY <4>2
    <3> QED BY <3>3, <3>4
  <2> QED BY <1>2, <2>1, <2>2
<1> HIDE DEF P
<1>3. S \in P
  BY <1>1, <1>2, SetInduction
<1>4. PICK m \in S : \A x \in S : x <= m
  BY <1>3 DEF P
<1>5. Max(S) = m
  BY <1>4, MaxIs
<1> QED BY <1>4, <1>5

\* The least of a finite set.
LEMMA MinOf ==
  ASSUME NEW S \in SUBSET Int, IsFiniteSet(S), S # {}
  PROVE  Min(S) \in S /\ \A x \in S : Min(S) <= x
<1> DEFINE Least0(T) == \E m \in T : \A x \in T : m <= x
           P == {T \in SUBSET S : T = {} \/ Least0(T)}
<1>1. {} \in P
  OBVIOUS
<1>2. ASSUME NEW T \in SUBSET S, NEW x \in S \ T, T \in P PROVE T \cup {x} \in P
  <2>1. CASE T = {}
    <3>1. x <= x
      OBVIOUS
    <3>2. Least0({x})
      BY <3>1
    <3> QED BY <2>1, <3>2
  <2>2. CASE Least0(T)
    <3>1. PICK m \in T : \A y \in T : m <= y
      BY <2>2
    <3>2. m \in Int /\ x \in Int /\ \A y \in T : y \in Int
      OBVIOUS
    <3>3. CASE m <= x
      <4>1. \A y \in T \cup {x} : m <= y
        BY <3>1, <3>3
      <4>2. Least0(T \cup {x})
        BY <4>1
      <4> QED BY <4>2
    <3>4. CASE ~(m <= x)
      <4>1. \A y \in T \cup {x} : x <= y
        BY <3>1, <3>2, <3>4
      <4>2. Least0(T \cup {x})
        BY <4>1
      <4> QED BY <4>2
    <3> QED BY <3>3, <3>4
  <2> QED BY <1>2, <2>1, <2>2
<1> HIDE DEF P
<1>3. S \in P
  BY <1>1, <1>2, SetInduction
<1>4. PICK m \in S : \A x \in S : m <= x
  BY <1>3 DEF P
<1>5. Min(S) \in S /\ \A x \in S : Min(S) <= x
  BY <1>4 DEF Min
<1> QED BY <1>5

\* What the parts of a balanced batch weigh, and how far the rows are apart
\* that are dealt out together.
LEMMA DealtBounds ==
  ASSUME NEW w \in Seq(Nat), NEW k, NEW even \in BOOLEAN, CanPartition(w, k, even), NEW sorted,
         sorted = [i \in DOMAIN SortedRows(w) |-> w[SortedRows(w)[i]]]
  PROVE  Max(Dealt(sorted, k, even)) \in Int /\ Bounds(w, k, even, Max(Dealt(sorted, k, even)))
<1> DEFINE n == Len(w)
           rows == SortedRows(w)
           D == Dealt(sorted, k, even)
<1>1. n \in Nat \ {0} /\ k \in Nat \ {0} /\ k \in 1 .. n /\ (even => n % k = 0)
  <2>1. n \in Nat /\ k \in 1 .. n /\ (even => n % k = 0)
    BY DEF CanPartition
  <2> QED BY <2>1
<1>2. /\ IsPermutation(rows, n) /\ rows \in Seq(1 .. n) /\ Len(rows) = n
      /\ \A q, r \in 1 .. n : q <= r => w[rows[q]] <= w[rows[r]]
  BY SortedRowsIs
<1>3. DOMAIN sorted = 1 .. n /\ Len(sorted) = n
      /\ \A i \in 1 .. n : sorted[i] = w[rows[i]]
  <2>1. DOMAIN rows = 1 .. n
    BY <1>2
  <2> HIDE DEF rows
  <2>2. sorted = [i \in 1 .. n |-> w[rows[i]]]
    BY <2>1 DEF rows
  <2> HIDE DEF n
  <2>3. n \in Nat
    BY <1>1
  <2> QED BY <2>2, <2>3
<1>4. \A i \in 1 .. n : rows[i] \in 1 .. n /\ sorted[i] \in Nat
  <2>2. \A i \in 1 .. n : w[i] \in Nat
    BY <1>2
  <2> HIDE DEF rows, n
  <2>1. \A i \in 1 .. n : rows[i] \in 1 .. n
    BY ONLY <1>2 DEF IsPermutation
  <2> QED BY <1>3, <2>1, <2>2
<1> HIDE DEF rows
<1>5. CASE even
  <2> DEFINE m == n \div k
             e == [g \in 1 .. m |-> sorted[g * k] - sorted[g * k - k + 1]]
  <2>1. m \in Nat \ {0} /\ n = k * m /\ Chunked(n, k, m)
    <3>1. m \in Nat /\ n = k * m /\ Chunked(n, k, m)
      BY <1>1, <1>5, Chunks
    <3>2. m # 0
      BY <1>1, <3>1
    <3> QED BY <3>1, <3>2
  <2>2. D = {e[g] : g \in 1 .. m}
    BY <1>3, <1>5 DEF Dealt
  <2>3. DOMAIN e = 1 .. m /\ \A g \in 1 .. m : e[g] = sorted[g * k] - sorted[g * k - k + 1]
    OBVIOUS
  <2> HIDE DEF e, m, D
  <2>4. \A g \in 1 .. m : /\ At(g, k, k) = g * k /\ At(g, k, 1) = g * k - k + 1
                          /\ At(g, k, k) \in 1 .. n /\ At(g, k, 1) \in 1 .. n
                          /\ \A i \in 1 .. k : At(g, k, i) <= At(g, k, k)
                                               /\ At(g, k, 1) <= At(g, k, i)
    <3> TAKE g \in 1 .. m
    <3>1. k \in 1 .. k /\ 1 \in 1 .. k
      BY <1>1
    <3>2. At(g, k, k) \in 1 .. n /\ At(g, k, 1) \in 1 .. n
      BY <2>1, <3>1 DEF Chunked
    <3> DEFINE c == (g - 1) * k
    <3>3. c \in Int /\ g * k = c + k /\ \A i \in 1 .. k : At(g, k, i) = c + i
      BY <1>1, <2>1 DEF At
    <3> HIDE DEF c
    <3>4. At(g, k, k) = g * k /\ At(g, k, 1) = g * k - k + 1
      <4>1. At(g, k, k) = c + k /\ At(g, k, 1) = c + 1
        BY <3>1, <3>3
      <4> DEFINE b == g * k
      <4>2. b = c + k
        BY <3>3
      <4> HIDE DEF b
      <4>3. b - k + 1 = c + 1
        BY <1>1, <3>3, <4>2
      <4> QED BY <4>1, <4>2, <4>3 DEF b
    <3>5. \A i \in 1 .. k : At(g, k, i) <= At(g, k, k) /\ At(g, k, 1) <= At(g, k, i)
      BY <1>1, <3>1, <3>3
    <3> QED BY <3>2, <3>4, <3>5
  <2>5. \A g \in 1 .. m : e[g] = sorted[At(g, k, k)] - sorted[At(g, k, 1)] /\ e[g] \in Int
    <3> TAKE g \in 1 .. m
    <3>1. e[g] = sorted[At(g, k, k)] - sorted[At(g, k, 1)]
      BY <2>3, <2>4
    <3>2. sorted[At(g, k, k)] \in Nat /\ sorted[At(g, k, 1)] \in Nat
      BY <1>4, <2>4
    <3> QED BY <3>1, <3>2
  <2>6. IsFiniteSet(D) /\ D \in SUBSET Int /\ D # {}
    <3>1. IsFiniteSet(D)
      BY <2>1, <2>2, <2>3, ImageFinite
    <3>2. D \in SUBSET Int
      BY <2>2, <2>5
    <3>3. 1 \in 1 .. m
      BY <2>1
    <3> QED BY <2>2, <3>1, <3>2, <3>3
  <2>7. Max(D) \in D /\ \A x \in D : x <= Max(D)
    BY <2>6, MaxOf
  <2>8. Max(D) \in Int
    BY <2>6, <2>7
  <2>9. ASSUME NEW g \in 1 .. m, NEW i \in 1 .. k, NEW j \in 1 .. k
        PROVE  w[rows[At(g, k, i)]] - w[rows[At(g, k, j)]] <= Max(D)
    <3> DEFINE a == w[rows[At(g, k, i)]]
               b == w[rows[At(g, k, j)]]
               x == sorted[At(g, k, k)]
               y == sorted[At(g, k, 1)]
    <3>1. At(g, k, i) \in 1 .. n /\ At(g, k, j) \in 1 .. n
      BY <2>1 DEF Chunked
    <3>2. At(g, k, i) <= At(g, k, k) /\ At(g, k, 1) <= At(g, k, j)
          /\ At(g, k, k) \in 1 .. n /\ At(g, k, 1) \in 1 .. n
      BY <2>4
    <3>3. w[rows[At(g, k, i)]] <= w[rows[At(g, k, k)]]
      BY <1>2, <3>1, <3>2 DEF rows
    <3>4. w[rows[At(g, k, 1)]] <= w[rows[At(g, k, j)]]
      BY <1>2, <3>1, <3>2 DEF rows
    <3>5. a <= x /\ y <= b
      BY <1>3, <3>2, <3>3, <3>4
    <3>6. a \in Nat /\ b \in Nat /\ x \in Nat /\ y \in Nat
      BY <1>3, <1>4, <3>1, <3>2
    <3>7. x - y <= Max(D)
      <4>1. e[g] \in D
        BY <2>2
      <4> QED BY <2>5, <2>7, <4>1
    <3> DEFINE M == Max(D)
    <3> HIDE DEF a, b, x, y, M
    <3>8. M \in Int /\ x - y <= M
      BY <2>8, <3>7 DEF M
    <3>9. a - b <= M
      BY ONLY <3>5, <3>6, <3>8
    <3> QED BY <3>9 DEF a, b, M
  <2>10. Bounds(w, k, even, Max(D))
    BY <1>5, <2>9 DEF Bounds, rows, m
  <2> QED BY <2>8, <2>10 DEF D
<1>6. CASE ~even
  <2>1. D = {sorted[i] : i \in 1 .. n}
    BY <1>3, <1>6 DEF Dealt, ToSet
  <2> HIDE DEF D
  <2>2. IsFiniteSet(D) /\ D \in SUBSET Int /\ D # {}
    <3>1. IsFiniteSet(D)
      <4> HIDE DEF n
      <4>1. n \in Nat
        BY <1>1
      <4>2. IsFiniteSet({sorted[i] : i \in 1 .. n})
        <5>1. DOMAIN sorted = 1 .. n
          BY <1>3
        <5> HIDE DEF n
        <5> QED BY ONLY <4>1, <5>1, ImageFinite
      <4> QED BY <2>1, <4>2
    <3>2. D \in SUBSET Int
      <4>1. \A i \in 1 .. n : sorted[i] \in Int
        BY <1>4
      <4> QED BY <2>1, <4>1
    <3>3. 1 \in 1 .. n
      BY <1>1
    <3> QED BY <2>1, <3>1, <3>2, <3>3
  <2>3. Max(D) \in D /\ \A x \in D : x <= Max(D)
    BY <2>2, MaxOf
  <2>4. Max(D) \in Int
    BY <2>2, <2>3
  <2>5. Max(D) \in Nat
    BY <1>4, <2>1, <2>3
  <2>6. ASSUME NEW i \in 1 .. n PROVE w[i] <= Max(D)
    <3>1. PICK q \in 1 .. n : rows[q] = i
      BY <1>2 DEF IsPermutation, rows
    <3>2. sorted[q] = w[i]
      BY <1>3, <3>1
    <3> QED BY <2>1, <2>3, <3>2
  <2>7. Bounds(w, k, even, Max(D))
    BY <1>6, <2>5, <2>6 DEF Bounds
  <2> QED BY <2>4, <2>7 DEF D
<1> QED BY <1>5, <1>6

\* What PartitionsBalanced says of one number of parts.
LEMMA PartsBalanced ==
  ASSUME InputsOK, NEW k, NEW even \in BOOLEAN, CanPartition(lengths, k, even),
         NEW parts, parts = BalancedPartitions(lengths, k, even)
  PROVE  /\ Len(parts) = k /\ IsPartition(parts, Len(lengths))
         /\ \A p \in 1 .. k :
              IF even THEN Len(parts[p]) * k = Len(lengths) ELSE parts[p] # <<>>
         /\ Imbalance(parts) <= Max(Dealt(SortedLengths, k, even))
<1> DEFINE d == Max(Dealt(SortedLengths, k, even))
           w == lengths
           n == Len(w)
<1>1. w \in Seq(Nat)
  <2>1. 0 .. MaxLength \subseteq Nat /\ lengths \in Seq(0 .. MaxLength)
    BY InputAssumption DEF InputsOK
  <2> DEFINE D == 0 .. MaxLength
  <2>2. D \subseteq Nat /\ lengths \in Seq(D)
    BY <2>1
  <2>3. lengths \in Seq(Nat)
    BY ONLY <2>2, SeqWiden
  <2> QED BY <2>3
<1>2. n \in Nat /\ k \in Nat \ {0}
  <2>1. n \in Nat /\ k \in 1 .. n
    BY <1>1 DEF CanPartition
  <2> QED BY <2>1
<1>3. d \in Int /\ Bounds(w, k, even, d)
  BY <1>1, DealtBounds DEF SortedLengths
<1> HIDE DEF d
<1>4. Parted(parts, k, n) /\ Sized(parts, k, n, even) /\ Apart(parts, k, w, d)
  BY <1>1, <1>3, BalancedIs
<1>5. /\ parts \in Seq(Seq(1 .. n)) /\ Len(parts) = k /\ DOMAIN parts = 1 .. k
      /\ \A p \in 1 .. k : Lists(parts[p], ToSet(parts[p])) /\ ToSet(parts[p]) \subseteq 1 .. n
  <2>1. /\ parts \in Seq(Seq(1 .. n)) /\ Len(parts) = k
        /\ \A p \in 1 .. k : Lists(parts[p], ToSet(parts[p]))
        /\ UNION {ToSet(parts[p]) : p \in 1 .. k} = 1 .. n
    BY <1>4 DEF Parted
  <2>2. DOMAIN parts = 1 .. k
    BY <2>1
  <2>3. \A p \in 1 .. k : ToSet(parts[p]) \subseteq 1 .. n
    BY <2>1
  <2> QED BY <2>1, <2>2, <2>3
<1>6. IsPartition(parts, n)
  BY <1>2, <1>4, PartedFlat
<1>7. ASSUME NEW p \in 1 .. k PROVE IF even THEN Len(parts[p]) * k = n ELSE parts[p] # <<>>
  <2>1. Len(parts[p]) >= 1 /\ (even => Len(parts[p]) * k = n)
    BY <1>4 DEF Sized
  <2>2. Len(<<>>) = 0
    OBVIOUS
  <2>3. parts[p] # <<>>
    BY <2>1, <2>2
  <2> QED BY <2>1, <2>3
<1>8. ASSUME NEW p \in 1 .. k
      PROVE  /\ SumOf(parts[p], w) = SumOver(w, ToSet(parts[p]))
             /\ SumOf(parts[p], w) \in Int
  <2> DEFINE X == ToSet(parts[p])
             D == 1 .. n
  <2>1. Lists(parts[p], X) /\ X \in SUBSET D
    BY <1>5
  <2>2. w \in [D -> Int] /\ IsFiniteSet(D)
    <3>1. w \in [D -> Int]
      BY <1>1
    <3> QED BY <3>1, <1>2, FS_Interval
  <2> HIDE DEF X, D
  <2>3. \A x \in X : w[x] \in Int
    BY <2>1, <2>2
  <2>4. SumOf(parts[p], w) = SumOver(w, X)
    BY <2>1, <2>3, ListsSum DEF SumOver
  <2>5. SumOver(w, X) \in Int
    BY <2>1, <2>2, SumOverType
  <2> QED BY <2>4, <2>5 DEF X
<1>9. Imbalance(parts) <= d
  <2> DEFINE e == [p \in 1 .. k |-> SumOf(parts[p], w)]
             S == {e[p] : p \in 1 .. k}
  <2>1. Imbalance(parts) = Max(S) - Min(S)
    BY <1>5 DEF Imbalance
  <2>2. DOMAIN e = 1 .. k /\ \A p \in 1 .. k : e[p] = SumOf(parts[p], w)
    OBVIOUS
  <2> HIDE DEF e
  <2>3. IsFiniteSet(S)
    BY <1>2, <2>2, ImageFinite
  <2>4. S \in SUBSET Int
    BY <1>8, <2>2
  <2>5. S # {}
    <3>1. 1 \in 1 .. k
      BY <1>2
    <3> QED BY <3>1
  <2>6. Max(S) \in S /\ Min(S) \in S
    BY <2>3, <2>4, <2>5, MaxOf, MinOf
  <2>7. PICK p \in 1 .. k, q \in 1 .. k : Max(S) = e[p] /\ Min(S) = e[q]
    BY <2>6
  <2>8. SumOver(w, ToSet(parts[p])) - SumOver(w, ToSet(parts[q])) <= d
    BY <1>4 DEF Apart
  <2> QED BY <1>8, <2>1, <2>2, <2>7, <2>8
<1> QED BY <1>5, <1>6, <1>7, <1>9 DEF d

\* get_seqlen_balanced_partitions makes an exact partition into parts none of
\* which is empty, of one size when asked, and no further apart than the rows
\* that are dealt out together: of whatever lengths.
THEOREM PartsAreBalanced == Spec => []PartitionsBalanced
<1>1. InputsOK => PartitionsBalanced
  BY PartsBalanced DEF PartitionsBalanced
<1> QED BY <1>1, InputsTyped, PTL

-----------------------------------------------------------------------------
(* Advantages over tokens.                                                 *)

\* A state that changes n times.
Goes(F, s0, n, g) == g[0] = s0 /\ \A i \in 1 .. n : g[i] = F[i][g[i - 1]]

\* Functions applied one after the other: the last value exists.
LEMMA Iterates ==
  ASSUME NEW S, NEW s0 \in S, NEW n \in Nat, NEW F \in [1 .. n -> [S -> S]]
  PROVE  \E g \in [0 .. n -> S] : Goes(F, s0, n, g)
<1> DEFINE P == {j \in Nat : j <= n => \E g \in [0 .. j -> S] : Goes(F, s0, j, g)}
<1>1. 0 \in P
  <2> DEFINE g == [i \in 0 .. 0 |-> s0]
  <2>1. g \in [0 .. 0 -> S] /\ Goes(F, s0, 0, g)
    BY DEF Goes
  <2> QED BY <2>1
<1>2. ASSUME NEW j \in Nat, j \in P PROVE j + 1 \in P
  <2> SUFFICES ASSUME j + 1 <= n PROVE \E g \in [0 .. j + 1 -> S] : Goes(F, s0, j + 1, g)
    OBVIOUS
  <2>1. PICK h \in [0 .. j -> S] : Goes(F, s0, j, h)
    BY <1>2
  <2> DEFINE g == [i \in 0 .. j + 1 |-> IF i <= j THEN h[i] ELSE F[j + 1][h[j]]]
  <2>2. j \in 0 .. j /\ j + 1 \in 1 .. n /\ h[j] \in S
    OBVIOUS
  <2>3. F[j + 1][h[j]] \in S
    BY <2>2
  <2>4. g \in [0 .. j + 1 -> S]
    BY <2>3
  <2>5. (\A i \in 0 .. j : g[i] = h[i]) /\ g[j + 1] = F[j + 1][h[j]]
    OBVIOUS
  <2> HIDE DEF g
  <2>6. g[0] = s0
    BY <2>1, <2>5 DEF Goes
  <2>7. \A i \in 1 .. j : g[i] = F[i][g[i - 1]]
    <3> TAKE i \in 1 .. j
    <3>1. i \in 0 .. j /\ i - 1 \in 0 .. j
      OBVIOUS
    <3> QED BY <2>1, <2>5, <3>1 DEF Goes
  <2>8. g[j + 1] = F[j + 1][g[(j + 1) - 1]]
    <3>1. (j + 1) - 1 = j
      OBVIOUS
    <3> QED BY <2>2, <2>5, <3>1
  <2>9. \A i \in 1 .. j + 1 : g[i] = F[i][g[i - 1]]
    <3> TAKE i \in 1 .. j + 1
    <3>1. i \in 1 .. j \/ i = j + 1
      OBVIOUS
    <3> QED BY <2>7, <2>8, <3>1
  <2> QED BY <2>4, <2>6, <2>9 DEF Goes
<1> HIDE DEF P
<1>3. n \in P
  BY <1>1, <1>2, NumberInduction
<1> QED BY <1>3 DEF P

\* Backwards: what holds at n + 1, and at t when at t + 1, holds from 1 on.
LEMMA Backwards ==
  ASSUME NEW n \in Nat, NEW P, n + 1 \in P, \A t \in 1 .. n : t + 1 \in P => t \in P
  PROVE  \A t \in 1 .. n + 1 : t \in P
<1> DEFINE Q == {j \in Nat : j <= n => n + 1 - j \in P}
<1>1. 0 \in Q
  OBVIOUS
<1>2. ASSUME NEW j \in Nat, j \in Q PROVE j + 1 \in Q
  <2> SUFFICES ASSUME j + 1 <= n PROVE n + 1 - (j + 1) \in P
    OBVIOUS
  <2>1. n + 1 - (j + 1) \in 1 .. n /\ (n + 1 - (j + 1)) + 1 = n + 1 - j
    OBVIOUS
  <2>2. n + 1 - j \in P
    BY <1>2
  <2> QED BY <2>1, <2>2
<1> HIDE DEF Q
<1>3. Nat \subseteq Q
  BY <1>1, <1>2, NumberInduction
<1>4. ASSUME NEW t \in 1 .. n + 1 PROVE t \in P
  <2>1. n + 1 - t \in Nat /\ n + 1 - t <= n /\ n + 1 - (n + 1 - t) = t
    OBVIOUS
  <2> QED BY <1>3, <2>1 DEF Q
<1> QED BY <1>4

\* What the estimator carries from token to token.
Carried == [value : Int, adv : Int]
Nothing == [value |-> 0, adv |-> 0]

\* What the loop over the tokens carries at each of them.
IsFrom(tokens, f) ==
  f = [t \in 1 .. Len(tokens) + 1 |->
         IF t > Len(tokens) THEN Nothing ELSE GaeStep(tokens[t], f[t + 1])]

\* Integers and a mask.
TokenOK(token) == token.mask \in BOOLEAN /\ token.reward \in Int /\ token.value \in Int

TokensOK(tokens) == \A t \in 1 .. Len(tokens) : TokenOK(tokens[t])

\* A step of the loop over the tokens carries integers on.
LEMMA GaeStepType ==
  ASSUME NEW token, TokenOK(token), NEW next \in Carried
  PROVE  GaeStep(token, next) \in Carried
<1> DEFINE a == token.reward
           b == token.value
           c == next.value
           e == next.adv
           delta == a + Gamma * c - b
           r == Gamma * Lam
<1>1. a \in Int /\ b \in Int /\ c \in Int /\ e \in Int /\ Gamma \in Int /\ Lam \in Int
  BY DiscountAssumption DEF TokenOK, Carried
<1>2. delta \in Int /\ r \in Int
  BY <1>1
<1> HIDE DEF delta, r
<1>3. delta + r * e \in Int
  BY <1>1, <1>2
<1> QED BY <1>1, <1>3 DEF GaeStep, Carried, delta, r

\* What is carried is defined at every token: the recursion over the tokens,
\* from the last one back, has a value.
LEMMA FromExists ==
  ASSUME NEW S, NEW tokens \in Seq(S), TokensOK(tokens)
  PROVE  \E f \in [1 .. Len(tokens) + 1 -> Carried] : IsFrom(tokens, f)
<1> DEFINE n == Len(tokens)
           F == [i \in 1 .. n |-> [s \in Carried |-> GaeStep(tokens[n + 1 - i], s)]]
<1>1. n \in Nat /\ Nothing \in Carried
  BY DEF Nothing, Carried
<1>2. F \in [1 .. n -> [Carried -> Carried]]
  <2> SUFFICES ASSUME NEW i \in 1 .. n, NEW s \in Carried
               PROVE  GaeStep(tokens[n + 1 - i], s) \in Carried
    OBVIOUS
  <2>1. n + 1 - i \in 1 .. n
    BY <1>1
  <2> QED BY <2>1, GaeStepType DEF TokensOK
<1>3. \A i \in 1 .. n, s \in Carried : F[i][s] = GaeStep(tokens[n + 1 - i], s)
  OBVIOUS
<1> HIDE DEF F
<1>4. PICK g \in [0 .. n -> Carried] : Goes(F, Nothing, n, g)
  <2> HIDE DEF n
  <2> QED BY <1>1, <1>2, Iterates
<1> DEFINE f == [t \in 1 .. n + 1 |-> g[n + 1 - t]]
<1>5. f \in [1 .. n + 1 -> Carried]
  <2>1. \A t \in 1 .. n + 1 : n + 1 - t \in 0 .. n
    BY <1>1
  <2> QED BY <1>4, <2>1
<1>6. \A t \in 1 .. n + 1 : f[t] = g[n + 1 - t]
  OBVIOUS
<1> HIDE DEF f
<1>7. f[n + 1] = Nothing
  <2>1. n + 1 \in 1 .. n + 1 /\ n + 1 - (n + 1) = 0
    BY <1>1
  <2> QED BY <1>4, <1>6, <2>1 DEF Goes
<1>8. ASSUME NEW t \in 1 .. n PROVE f[t] = GaeStep(tokens[t], f[t + 1])
  <2>1. /\ t \in 1 .. n + 1 /\ t + 1 \in 1 .. n + 1 /\ n + 1 - t \in 1 .. n
        /\ (n + 1 - t) - 1 = n + 1 - (t + 1) /\ n + 1 - (n + 1 - t) = t
    BY <1>1
  <2>2. f[t] = g[n + 1 - t] /\ f[t + 1] = g[(n + 1 - t) - 1] /\ f[t + 1] \in Carried
    BY <1>5, <1>6, <2>1
  <2>3. g[n + 1 - t] = F[n + 1 - t][g[(n + 1 - t) - 1]]
    BY <1>4, <2>1 DEF Goes
  <2>4. F[n + 1 - t][f[t + 1]] = GaeStep(tokens[n + 1 - (n + 1 - t)], f[t + 1])
    BY <1>3, <2>1, <2>2
  <2> QED BY <2>1, <2>2, <2>3, <2>4
<1>9. IsFrom(tokens, f)
  <2>1. \A t \in 1 .. n + 1 :
          f[t] = IF t > n THEN Nothing ELSE GaeStep(tokens[t], f[t + 1])
    <3> TAKE t \in 1 .. n + 1
    <3>1. t \in 1 .. n \/ t = n + 1
      BY <1>1
    <3>2. CASE t \in 1 .. n
      BY <1>1, <1>8, <3>2
    <3>3. CASE t = n + 1
      BY <1>1, <1>7, <3>3
    <3> QED BY <3>1, <3>2, <3>3
  <2>2. f = [t \in 1 .. n + 1 |-> f[t]]
    BY <1>5
  <2> QED BY <2>1, <2>2 DEF IsFrom
<1> QED BY <1>5, <1>9

\* Gae is what that recursion gives.
LEMMA GaeIs ==
  ASSUME NEW S, NEW tokens \in Seq(S), TokensOK(tokens)
  PROVE  \E f \in [1 .. Len(tokens) + 1 -> Carried] :
           IsFrom(tokens, f) /\ \A t \in 1 .. Len(tokens) : Gae(tokens)[t] = f[t].adv
<1> DEFINE n == Len(tokens)
           f == CHOOSE f : IsFrom(tokens, f)
<1>1. IsFrom(tokens, f)
  <2>1. \E g : IsFrom(tokens, g)
    BY FromExists
  <2> QED BY <2>1
<1>2. n \in Nat /\ DOMAIN tokens = 1 .. n
  OBVIOUS
<1>3. Gae(tokens) = [t \in DOMAIN tokens |-> f[t].adv]
  BY DEF Gae, IsFrom, Nothing
<1> HIDE DEF f
<1>4. DOMAIN f = 1 .. n + 1 /\ \A t \in 1 .. n + 1 :
        f[t] = IF t > n THEN Nothing ELSE GaeStep(tokens[t], f[t + 1])
  BY <1>1 DEF IsFrom
<1> DEFINE P == {t \in 1 .. n + 1 : f[t] \in Carried}
<1>5. n + 1 \in P
  BY <1>2, <1>4 DEF Carried, Nothing
<1>6. ASSUME NEW t \in 1 .. n, t + 1 \in P PROVE t \in P
  <2>1. t \in 1 .. n + 1 /\ ~(t > n) /\ f[t + 1] \in Carried
    BY <1>2, <1>6
  <2>2. f[t] = GaeStep(tokens[t], f[t + 1])
    BY <1>4, <2>1
  <2> QED BY <2>1, <2>2, GaeStepType DEF TokensOK
<1>7. \A t \in 1 .. n + 1 : t \in P
  <2> HIDE DEF P, n
  <2> QED BY <1>2, <1>5, <1>6, Backwards
<1>8. f \in [1 .. n + 1 -> Carried]
  <2>1. f = [t \in 1 .. n + 1 |-> f[t]]
    BY <1>1, <1>4 DEF IsFrom
  <2> QED BY <1>7, <2>1
<1>9. \A t \in 1 .. n : Gae(tokens)[t] = f[t].adv
  BY <1>2, <1>3
<1> QED BY <1>1, <1>8, <1>9

\* A sum of multiples of one rate.
LEMMA SumTimes ==
  ASSUME NEW S, IsFiniteSet(S), NEW f \in [S -> Int], NEW c \in Int
  PROVE  SumFunction([x \in S |-> c * f[x]]) = c * SumFunction(f)
<1> DEFINE z == 0
<1>1. z \in Int
  OBVIOUS
<1>2. [x \in S |-> c * f[x]] = [x \in S |-> c * f[x] + z * f[x]]
  <2>1. ASSUME NEW x \in S PROVE c * f[x] = c * f[x] + z * f[x]
    <3> DEFINE y == f[x]
    <3>1. y \in Int
      OBVIOUS
    <3> HIDE DEF y
    <3> QED BY <3>1 DEF y
  <2> HIDE DEF z
  <2> QED BY <2>1
<1>3. SumFunction([x \in S |-> c * f[x] + z * f[x]]) = c * SumFunction(f) + z * SumFunction(f)
  <2> HIDE DEF z
  <2> QED BY <1>1, SumLinear
<1>4. SumFunction(f) \in Int
  BY SumAll
<1> DEFINE F == SumFunction(f)
<1>5. F \in Int
  BY <1>4
<1> HIDE DEF F
<1>6. c * F + z * F = c * F
  BY <1>5
<1> QED BY <1>2, <1>3, <1>6 DEF F

\* The first of some numbers, and the others from 1 on.
LEMMA SumShifted ==
  ASSUME NEW n \in Nat, NEW f \in [1 .. n + 1 -> Int]
  PROVE  SumFunction(f) = f[1] + SumFunction([j \in 1 .. n |-> f[j + 1]])
<1> DEFINE D == 1 .. n + 1
           C == 1 .. n
           one == 1
           S == D \ {one}
           h == [y \in S |-> f[y]]
           p == [j \in C |-> j + 1]
<1>1. IsFiniteSet(D) /\ IsFiniteSet(C) /\ one \in D /\ f \in [D -> Int]
  BY FS_Interval
<1>2. Renames(p, C, S)
  <2>1. \A j \in C : j + 1 \in S
    OBVIOUS
  <2>2. \A x \in S : x - 1 \in C /\ (x - 1) + 1 = x
    OBVIOUS
  <2>3. p \in [C -> S] /\ \A j \in C : p[j] = j + 1
    BY <2>1
  <2>4. \A i, j \in C : p[i] = p[j] => i = j
    BY <2>3
  <2>5. \A x \in S : \E j \in C : p[j] = x
    BY <2>2, <2>3
  <2> HIDE DEF p, C, S
  <2> QED BY <2>3, <2>4, <2>5 DEF Renames
<1>3. [j \in C |-> h[p[j]]] = [j \in C |-> f[j + 1]]
  <2>1. \A j \in C : h[p[j]] = f[j + 1]
    OBVIOUS
  <2> HIDE DEF h, p, C
  <2> QED BY <2>1
<1> HIDE DEF p, C, one
<1>4. h \in [S -> Int] /\ IsFiniteSet(S)
  BY <1>1, FS_RemoveElement
<1>5. SumFunction(f) = f[one] + SumFunction([y \in S |-> f[y]])
  <2>1. IsFiniteSet(D) /\ one \in D /\ f \in [D -> Int]
    BY <1>1
  <2> HIDE DEF D, h, S
  <2>2. \A x \in D : SumFunction(f) = f[x] + SumFunction([y \in D \ {x} |-> f[y]])
    BY ONLY <2>1, SumAll
  <2> QED BY <2>1, <2>2 DEF S
<1> HIDE DEF S, D
<1>6. SumFunction([j \in C |-> h[p[j]]]) = SumFunction(h)
  <2> HIDE DEF h
  <2> QED BY <1>1, <1>2, <1>4, SumRenamed
<1> QED BY <1>3, <1>5, <1>6 DEF C, one

\* The powers of a rate.
IsPower(f, r) == f = [k \in Nat |-> IF k = 0 THEN 1 ELSE r * f[k - 1]]

\* The powers of r exist.
LEMMA PowersExist ==
  ASSUME NEW r \in Int
  PROVE  \E f \in [Nat -> Int] : IsPower(f, r)
<1> DEFINE F == [i \in Nat |-> [s \in Int |-> r * s]]
           G(n, g) == g \in [0 .. n -> Int] /\ Goes(F, 1, n, g)
<1>1. \A i \in Nat, s \in Int : F[i][s] = r * s
  OBVIOUS
<1>2. ASSUME NEW n \in Nat PROVE \E g : G(n, g)
  <2> DEFINE E == [i \in 1 .. n |-> [s \in Int |-> r * s]]
  <2>1. E \in [1 .. n -> [Int -> Int]] /\ 1 \in Int
    OBVIOUS
  <2>2. \A i \in 1 .. n : E[i] = F[i]
    OBVIOUS
  <2> HIDE DEF E, F
  <2>3. PICK g \in [0 .. n -> Int] : Goes(E, 1, n, g)
    BY <2>1, Iterates
  <2>4. Goes(F, 1, n, g)
    BY <2>2, <2>3 DEF Goes
  <2> QED BY <2>4
<1> HIDE DEF F
<1>3. ASSUME NEW m \in Nat, NEW n \in Nat, m <= n, NEW g, NEW h, G(m, g), G(n, h)
      PROVE  g[m] = h[m]
  <2> DEFINE P == {j \in Nat : j <= m => g[j] = h[j]}
  <2>1. 0 \in P
    BY <1>3 DEF Goes
  <2>2. ASSUME NEW j \in Nat, j \in P PROVE j + 1 \in P
    <3> SUFFICES ASSUME j + 1 <= m PROVE g[j + 1] = h[j + 1]
      OBVIOUS
    <3>1. j + 1 \in 1 .. m /\ j + 1 \in 1 .. n /\ (j + 1) - 1 = j /\ g[j] = h[j]
      BY <1>3, <2>2
    <3>2. g[j + 1] = F[j + 1][g[j]] /\ h[j + 1] = F[j + 1][h[j]]
      BY <1>3, <3>1 DEF Goes
    <3> QED BY <3>1, <3>2
  <2> HIDE DEF P
  <2>3. m \in P
    BY <2>1, <2>2, NumberInduction
  <2> QED BY <2>3 DEF P
<1> DEFINE c == [n \in Nat |-> CHOOSE g : G(n, g)]
           f == [n \in Nat |-> c[n][n]]
<1>4. \A n \in Nat : G(n, c[n])
  <2> HIDE DEF G
  <2> QED BY <1>2
<1>5. \A n \in Nat : f[n] = c[n][n]
  OBVIOUS
<1>6. f \in [Nat -> Int]
  <2>1. \A n \in Nat : c[n][n] \in Int
    <3> TAKE n \in Nat
    <3>1. c[n] \in [0 .. n -> Int]
      BY <1>4
    <3>2. n \in 0 .. n
      OBVIOUS
    <3> HIDE DEF c
    <3> QED BY <3>1, <3>2
  <2> QED BY <2>1
<1> HIDE DEF c, f
<1>7. f[0] = 1
  BY <1>4, <1>5 DEF Goes
<1>8. ASSUME NEW k \in Nat \ {0} PROVE f[k] = r * f[k - 1]
  <2>1. k - 1 \in Nat /\ k - 1 <= k /\ k \in 1 .. k
    OBVIOUS
  <2>2. c[k - 1][k - 1] = c[k][k - 1]
    BY <1>3, <1>4, <2>1
  <2>3. c[k][k] = F[k][c[k][k - 1]]
    BY <1>4, <2>1 DEF Goes
  <2>4. f[k] = F[k][f[k - 1]] /\ f[k - 1] \in Int
    BY <1>5, <1>6, <2>1, <2>2, <2>3
  <2> QED BY <1>1, <2>4
<1>9. IsPower(f, r)
  <2>1. f = [k \in Nat |-> f[k]]
    BY <1>6
  <2>2. \A k \in Nat : f[k] = IF k = 0 THEN 1 ELSE r * f[k - 1]
    BY <1>7, <1>8
  <2> QED BY <2>1, <2>2 DEF IsPower
<1> QED BY <1>6, <1>9

\* Discounted weighs the elements with those powers.
LEMMA DiscountedIs ==
  ASSUME NEW r \in Int
  PROVE  \E power \in [Nat -> Int] :
           /\ power[0] = 1 /\ \A k \in Nat : power[k + 1] = r * power[k]
           /\ \A seq : Discounted(seq, r)
                         = SumFunction([k \in DOMAIN seq |-> power[k - 1] * seq[k]])
<1> DEFINE power == CHOOSE f : IsPower(f, r)
<1>1. IsPower(power, r)
  BY PowersExist
<1>2. \A seq : Discounted(seq, r) = SumFunction([k \in DOMAIN seq |-> power[k - 1] * seq[k]])
  BY DEF Discounted, IsPower
<1> HIDE DEF power
<1>3. DOMAIN power = Nat /\ \A k \in Nat : power[k] = IF k = 0 THEN 1 ELSE r * power[k - 1]
  BY <1>1 DEF IsPower
<1>4. power[0] = 1
  BY <1>3
<1>5. ASSUME NEW k \in Nat PROVE power[k + 1] = r * power[k]
  <2>1. k + 1 \in Nat /\ k + 1 # 0 /\ (k + 1) - 1 = k
    OBVIOUS
  <2>2. power[k + 1] = r * power[(k + 1) - 1]
    BY <1>3, <2>1
  <2> QED BY <2>1, <2>2
<1> DEFINE P == {k \in Nat : power[k] \in Int}
<1>6. 0 \in P
  BY <1>4
<1>7. ASSUME NEW k \in Nat, k \in P PROVE k + 1 \in P
  <2>1. power[k] \in Int /\ power[k + 1] = r * power[k]
    BY <1>5, <1>7
  <2> QED BY <2>1
<1> HIDE DEF P
<1>8. Nat \subseteq P
  BY <1>6, <1>7, NumberInduction
<1>9. power \in [Nat -> Int]
  <2>1. power = [k \in Nat |-> power[k]]
    BY <1>1, <1>3 DEF IsPower
  <2> QED BY <1>8, <2>1 DEF P
<1> QED BY <1>2, <1>4, <1>5, <1>9

\* The elements from the k-th on.
Rest(e, m, k) == [j \in 1 .. m + 1 - k |-> e[k + j - 1]]

\* The first, and the rest at a discount.
LEMMA DiscountedMore ==
  ASSUME NEW m \in Nat, NEW e \in [1 .. m -> Int], NEW r \in Int, NEW k \in 1 .. m
  PROVE  /\ Discounted(Rest(e, m, k), r) \in Int
         /\ Discounted(Rest(e, m, k), r)
              = e[k] + (IF k = m THEN 0 ELSE r * Discounted(Rest(e, m, k + 1), r))
<1>1. PICK power \in [Nat -> Int] :
        /\ power[0] = 1 /\ \A i \in Nat : power[i + 1] = r * power[i]
        /\ \A seq : Discounted(seq, r) = SumFunction([j \in DOMAIN seq |-> power[j - 1] * seq[j]])
  BY DiscountedIs
<1> DEFINE L == m + 1 - k
           D == 1 .. L
           C == 1 .. L - 1
           f == [j \in D |-> power[j - 1] * e[k + j - 1]]
           g == [j \in C |-> power[j - 1] * e[(k + 1) + j - 1]]
           a == Rest(e, m, k)
           b == Rest(e, m, k + 1)
<1>2. L \in Nat \ {0} /\ 1 \in D
  OBVIOUS
<1>3. Discounted(a, r) = SumFunction(f)
  <2>1. DOMAIN a = D /\ \A j \in D : a[j] = e[k + j - 1]
    BY DEF Rest
  <2>2. [j \in DOMAIN a |-> power[j - 1] * a[j]] = f
    BY <2>1
  <2>3. Discounted(a, r) = SumFunction([j \in DOMAIN a |-> power[j - 1] * a[j]])
    BY <1>1
  <2> QED BY <2>2, <2>3
<1>4. Discounted(b, r) = SumFunction(g)
  <2>0. 1 .. m + 1 - (k + 1) = C
    OBVIOUS
  <2>1. DOMAIN b = C /\ \A j \in C : b[j] = e[(k + 1) + j - 1]
    BY <2>0 DEF Rest
  <2>2. [j \in DOMAIN b |-> power[j - 1] * b[j]] = g
    BY <2>1
  <2>3. Discounted(b, r) = SumFunction([j \in DOMAIN b |-> power[j - 1] * b[j]])
    BY <1>1
  <2> QED BY <2>2, <2>3
<1>5. \A j \in D : j - 1 \in Nat /\ k + j - 1 \in 1 .. m
  OBVIOUS
<1>6. f \in [D -> Int]
  <2> SUFFICES ASSUME NEW j \in D PROVE power[j - 1] * e[k + j - 1] \in Int
    OBVIOUS
  <2>1. power[j - 1] \in Int /\ e[k + j - 1] \in Int
    BY <1>5
  <2> QED BY <2>1
<1>7. \A j \in C : j - 1 \in Nat /\ (k + 1) + j - 1 \in 1 .. m /\ j + 1 \in D
                   /\ k + (j + 1) - 1 = (k + 1) + j - 1 /\ (j + 1) - 1 = (j - 1) + 1
  OBVIOUS
<1>8. g \in [C -> Int]
  <2> SUFFICES ASSUME NEW j \in C PROVE power[j - 1] * e[(k + 1) + j - 1] \in Int
    OBVIOUS
  <2>1. power[j - 1] \in Int /\ e[(k + 1) + j - 1] \in Int
    BY <1>7
  <2> QED BY <2>1
<1>9. IsFiniteSet(D) /\ IsFiniteSet(C)
  <2>1. L \in Int /\ L - 1 \in Int
    BY <1>2
  <2> HIDE DEF L
  <2> QED BY <2>1, FS_Interval
<1>10. SumFunction(f) = f[1] + SumFunction([j \in C |-> f[j + 1]])
  <2> DEFINE n == L - 1
  <2>1. n \in Nat /\ n + 1 = L
    BY <1>2
  <2>2. D = 1 .. n + 1 /\ C = 1 .. n
    BY <2>1
  <2>3. f \in [1 .. n + 1 -> Int]
    BY <1>6, <2>2
  <2> HIDE DEF f, n
  <2>4. SumFunction(f) = f[1] + SumFunction([j \in 1 .. n |-> f[j + 1]])
    BY <2>1, <2>3, SumShifted
  <2> QED BY <2>2, <2>4
<1>11. f[1] = e[k]
  <2>1. f[1] = power[1 - 1] * e[k + 1 - 1]
    BY <1>2
  <2>2. 1 - 1 = 0 /\ k + 1 - 1 = k /\ e[k] \in Int
    OBVIOUS
  <2>3. f[1] = 1 * e[k]
    BY <1>1, <2>1, <2>2
  <2> QED BY <2>2, <2>3
<1>12. SumFunction([j \in C |-> f[j + 1]]) = r * SumFunction(g)
  <2>1. \A j \in C : f[j + 1] = r * g[j]
    <3> TAKE j \in C
    <3>1. f[j + 1] = power[(j + 1) - 1] * e[k + (j + 1) - 1]
      BY <1>7
    <3>2. f[j + 1] = (r * power[j - 1]) * e[(k + 1) + j - 1]
      BY <1>1, <1>7, <3>1
    <3> DEFINE x == power[j - 1]
               y == e[(k + 1) + j - 1]
    <3>3. x \in Int /\ y \in Int
      BY <1>7
    <3>4. g[j] = x * y
      OBVIOUS
    <3> HIDE DEF x, y
    <3>5. (r * x) * y = r * (x * y)
      BY <3>3
    <3> QED BY <3>2, <3>4, <3>5 DEF x, y
  <2>2. [j \in C |-> f[j + 1]] = [j \in C |-> r * g[j]]
    <3> HIDE DEF g, f, C
    <3> QED BY <2>1
  <2>3. SumFunction([j \in C |-> r * g[j]]) = r * SumFunction(g)
    <3> HIDE DEF g, C
    <3> QED BY ONLY <1>8, <1>9, r \in Int, SumTimes
  <2> QED BY <2>2, <2>3
<1>13. k = m => SumFunction(g) = 0
  <2>1. k = m => C = {}
    OBVIOUS
  <2> HIDE DEF g, C
  <2> QED BY <1>8, <1>9, <2>1, SumAll
<1>14. SumFunction(g) \in Int
  <2> HIDE DEF g, C
  <2> QED BY <1>8, <1>9, SumAll
<1> DEFINE A == Discounted(a, r)
           B == Discounted(b, r)
<1>16. e[k] \in Int
  OBVIOUS
<1>15. A \in Int /\ A = e[k] + r * B /\ (k = m => B = 0)
  <2>1. A = e[k] + r * B
    BY <1>3, <1>4, <1>10, <1>11, <1>12
  <2>2. B \in Int /\ (k = m => B = 0)
    BY <1>4, <1>13, <1>14
  <2> HIDE DEF A, B
  <2> QED BY <1>16, <2>1, <2>2
<1> HIDE DEF A, B
<1>17. A = e[k] + (IF k = m THEN 0 ELSE r * B)
  BY <1>15, <1>16
<1> QED BY <1>15, <1>17 DEF A, B

\* The places of the tokens the model wrote, in order, and which of them is
\* the q-th.
Written(tokens) == {t \in DOMAIN tokens : tokens[t].mask}

\* The places of M, the smallest first.
Ascends(places, m, M) ==
  /\ places \in [1 .. m -> M]
  /\ \A i, j \in 1 .. m : i < j => places[i] < places[j]
  /\ \A t \in M : \E i \in 1 .. m : places[i] = t

\* The next place at t or after it is the q-th.
Ahead(places, m, t, q) ==
  /\ q = 1 \/ places[q - 1] < t
  /\ q = m + 1 \/ t <= places[q]

\* What is carried at t is what was carried at the next place.
LEMMA SkipsTo ==
  ASSUME NEW S, NEW tokens \in Seq(S), NEW f, IsFrom(tokens, f), NEW m \in Nat, NEW places,
         Ascends(places, m, Written(tokens)),
         NEW t \in 1 .. Len(tokens) + 1, NEW q \in 1 .. m + 1, Ahead(places, m, t, q)
  PROVE  f[t] = IF q = m + 1 THEN Nothing ELSE f[places[q]]
<1> DEFINE n == Len(tokens)
           M == Written(tokens)
           Is(x) == \A r \in 1 .. m + 1 :
                      Ahead(places, m, x, r) =>
                        f[x] = IF r = m + 1 THEN Nothing ELSE f[places[r]]
           P == {x \in 1 .. n + 1 : Is(x)}
<1>1. n \in Nat /\ DOMAIN tokens = 1 .. n /\ M \subseteq 1 .. n
      /\ \A x \in 1 .. n : x \in M <=> tokens[x].mask
  BY DEF Written
<1>2. \A x \in 1 .. n + 1 : f[x] = IF x > n THEN Nothing ELSE GaeStep(tokens[x], f[x + 1])
  BY DEF IsFrom
<1> HIDE DEF n, M
<1>3. /\ \A i \in 1 .. m : places[i] \in M /\ places[i] \in 1 .. n
      /\ \A i, j \in 1 .. m : i < j => places[i] < places[j]
      /\ \A x \in M : \E i \in 1 .. m : places[i] = x
  BY <1>1 DEF Ascends, M
<1>4. n + 1 \in P
  <2> SUFFICES ASSUME NEW r \in 1 .. m + 1, Ahead(places, m, n + 1, r)
               PROVE  f[n + 1] = IF r = m + 1 THEN Nothing ELSE f[places[r]]
    BY <1>1
  <2>1. r = m + 1
    <3> SUFFICES ASSUME r # m + 1 PROVE FALSE
      OBVIOUS
    <3>1. r \in 1 .. m /\ n + 1 <= places[r]
      BY DEF Ahead
    <3> QED BY <1>1, <1>3, <3>1
  <2>2. f[n + 1] = Nothing
    BY <1>1, <1>2
  <2> QED BY <2>1, <2>2
<1>5. ASSUME NEW x \in 1 .. n, x + 1 \in P PROVE x \in P
  <2> SUFFICES ASSUME NEW r \in 1 .. m + 1, Ahead(places, m, x, r)
               PROVE  f[x] = IF r = m + 1 THEN Nothing ELSE f[places[r]]
    BY <1>1
  <2>1. CASE x \in M
    <3>1. PICK i \in 1 .. m : places[i] = x
      BY <1>3, <2>1
    <3>2. r <= i
      <4> SUFFICES ASSUME i < r PROVE FALSE
        OBVIOUS
      <4>1. r # 1 /\ r - 1 \in 1 .. m /\ i <= r - 1
        OBVIOUS
      <4>2. places[r - 1] < x
        BY <4>1 DEF Ahead
      <4>3. i = r - 1 \/ places[i] < places[r - 1]
        BY <1>3, <4>1
      <4>4. x \in Int /\ places[r - 1] \in Int
        BY <1>1, <1>3, <4>1
      <4> QED BY <3>1, <4>2, <4>3, <4>4
    <3>3. r \in 1 .. m /\ r # m + 1
      BY <3>2
    <3>4. x <= places[r]
      BY <3>3 DEF Ahead
    <3>5. i = r
      <4> SUFFICES ASSUME r < i PROVE FALSE
        BY <3>2
      <4>1. places[r] < places[i] /\ places[r] \in Int /\ x \in Int
        BY <1>1, <1>3, <3>3
      <4> QED BY <3>1, <3>4, <4>1
    <3> QED BY <3>1, <3>3, <3>5
  <2>2. CASE x \notin M
    <3>1. x \in 1 .. n + 1 /\ ~(x > n) /\ x + 1 \in 1 .. n + 1 /\ ~tokens[x].mask
      BY <1>1, <2>2
    <3>2. f[x] = f[x + 1]
      BY <1>2, <3>1 DEF GaeStep
    <3>3. Ahead(places, m, x + 1, r)
      <4>1. r = 1 \/ places[r - 1] < x + 1
        <5>1. CASE r # 1
          <6>1. r - 1 \in 1 .. m /\ places[r - 1] < x
            BY <5>1 DEF Ahead
          <6>2. places[r - 1] \in Int /\ x \in Int
            BY <1>1, <1>3, <6>1
          <6> QED BY <6>1, <6>2
        <5> QED BY <5>1
      <4>2. r = m + 1 \/ x + 1 <= places[r]
        <5>1. CASE r # m + 1
          <6>1. r \in 1 .. m /\ x <= places[r]
            BY <5>1 DEF Ahead
          <6>2. places[r] \in M /\ places[r] \in Int /\ x \in Int
            BY <1>1, <1>3, <6>1
          <6>3. places[r] # x
            BY <2>2, <6>2
          <6> QED BY <6>1, <6>2, <6>3
        <5> QED BY <5>1
      <4> QED BY <4>1, <4>2 DEF Ahead
    <3>4. f[x + 1] = IF r = m + 1 THEN Nothing ELSE f[places[r]]
      BY <1>5, <3>3
    <3> QED BY <3>2, <3>4
  <2> QED BY <2>1, <2>2
<1> HIDE DEF P
<1>6. \A x \in 1 .. n + 1 : x \in P
  BY <1>1, <1>4, <1>5, Backwards
<1> QED BY <1>6 DEF P, n

\* The one-step errors of the written tokens, and what is carried at them.
ErrorAt(written, k) ==
  written[k].reward - written[k].value
    + (IF k = Len(written) THEN 0 ELSE Gamma * written[k + 1].value)

\* The tokens at those places.
AreWritten(written, tokens, places, m) ==
  Len(written) = m /\ \A i \in 1 .. m : written[i] = tokens[places[i]]

\* At a token the model wrote: its error and the discounted advantage of the
\* next one it wrote, whatever lies in between.
LEMMA CarriedAt ==
  ASSUME NEW S, NEW tokens \in Seq(S), TokensOK(tokens),
         NEW f \in [1 .. Len(tokens) + 1 -> Carried], IsFrom(tokens, f), NEW m \in Nat, NEW places,
         Ascends(places, m, Written(tokens)), NEW written,
         AreWritten(written, tokens, places, m), NEW k \in 1 .. m
  PROVE  f[places[k]].adv
           = ErrorAt(written, k)
               + (IF k = m THEN 0 ELSE (Gamma * Lam) * f[places[k + 1]].adv)
<1> DEFINE n == Len(tokens)
           M == Written(tokens)
<1>1. n \in Nat /\ DOMAIN tokens = 1 .. n /\ M \subseteq 1 .. n /\ \A x \in M : tokens[x].mask
  BY DEF Written
<1>2. /\ \A i \in 1 .. m : places[i] \in M /\ places[i] \in 1 .. n
      /\ \A i, j \in 1 .. m : i < j => places[i] < places[j]
  BY <1>1 DEF Ascends
<1> HIDE DEF n, M
<1> DEFINE t == places[k]
           next == f[t + 1]
<1>3. t \in 1 .. n /\ t + 1 \in 1 .. n + 1 /\ t \in 1 .. n + 1 /\ ~(t > n) /\ tokens[t].mask
      /\ TokenOK(tokens[t]) /\ written[k] = tokens[t]
  <2>1. t \in 1 .. n /\ t \in M
    BY <1>2
  <2>2. TokenOK(tokens[t])
    BY <2>1 DEF n, TokensOK
  <2> QED BY <1>1, <2>1, <2>2 DEF AreWritten
<1>4. f[t] = GaeStep(tokens[t], next)
  BY <1>3 DEF IsFrom, n
<1>5. next = IF k = m THEN Nothing ELSE f[places[k + 1]]
  <2>1. k + 1 \in 1 .. m + 1 /\ (k + 1) - 1 = k /\ (k + 1 = m + 1 <=> k = m)
    OBVIOUS
  <2>2. Ahead(places, m, t + 1, k + 1)
    <3>1. t \in Int /\ t < t + 1
      BY <1>1, <1>3
    <3>2. CASE k # m
      <4>1. k + 1 \in 1 .. m /\ k < k + 1
        BY <3>2
      <4>2. t < places[k + 1] /\ places[k + 1] \in 1 .. n
        BY <1>2, <4>1
      <4>3. t + 1 <= places[k + 1]
        BY <1>1, <3>1, <4>2
      <4> QED BY <2>1, <3>1, <4>3 DEF Ahead
    <3>3. CASE k = m
      BY <2>1, <3>1, <3>3 DEF Ahead
    <3> QED BY <3>2, <3>3
  <2>3. f[t + 1] = IF k + 1 = m + 1 THEN Nothing ELSE f[places[k + 1]]
    <3>1. /\ IsFrom(tokens, f) /\ Ascends(places, m, Written(tokens)) /\ tokens \in Seq(S)
          /\ t + 1 \in 1 .. Len(tokens) + 1 /\ m \in Nat
      BY <1>3 DEF n
    <3> QED BY ONLY <2>1, <2>2, <3>1, SkipsTo
  <2> QED BY <2>1, <2>3
<1> HIDE DEF t
<1>6. next \in Carried
  BY <1>3 DEF n
<1>7. CASE k = m
  <2>1. next = Nothing
    BY <1>5, <1>7
  <2> DEFINE a == tokens[t].reward
             b == tokens[t].value
             r == Gamma * Lam
  <2>2. f[t].adv = (a + Gamma * 0 - b) + r * 0
    BY <1>3, <1>4, <2>1 DEF GaeStep, Nothing
  <2>3. ErrorAt(written, k) = a - b + 0
    BY <1>3, <1>7 DEF ErrorAt, AreWritten
  <2>4. a \in Int /\ b \in Int /\ Gamma \in Int /\ r \in Int
    BY <1>3, DiscountAssumption DEF TokenOK
  <2> HIDE DEF a, b, r
  <2>5. f[t].adv = ErrorAt(written, k) + 0
    BY <2>2, <2>3, <2>4
  <2> QED BY <1>7, <2>5 DEF t
<1>8. CASE k # m
  <2>0. k + 1 \in 1 .. m
    BY <1>8
  <2> DEFINE u == places[k + 1]
  <2>1. next = f[u] /\ written[k + 1] = tokens[u] /\ u \in 1 .. n + 1
    BY <1>1, <1>2, <1>5, <1>8, <2>0 DEF AreWritten
  <2>2. f[u].value = tokens[u].value
    <3>1. u \in 1 .. n /\ ~(u > n) /\ tokens[u].mask
      BY <1>1, <1>2, <2>0
    <3>2. f[u] = GaeStep(tokens[u], f[u + 1])
      BY <2>1, <3>1 DEF IsFrom, n
    <3> QED BY <3>1, <3>2 DEF GaeStep
  <2> HIDE DEF u
  <2> DEFINE a == tokens[t].reward
             b == tokens[t].value
             c == tokens[u].value
             e == f[u].adv
             r == Gamma * Lam
             gc == Gamma * c
             re == r * e
  <2>3. f[t].adv = (a + gc - b) + re
    BY <1>3, <1>4, <2>1, <2>2 DEF GaeStep
  <2>4. ErrorAt(written, k) = a - b + gc
    BY <1>3, <1>8, <2>1 DEF ErrorAt, AreWritten
  <2>5. a \in Int /\ b \in Int /\ gc \in Int /\ re \in Int
    <3>1. a \in Int /\ b \in Int /\ Gamma \in Int /\ Lam \in Int
      BY <1>3, DiscountAssumption DEF TokenOK
    <3>2. c \in Int /\ e \in Int
      BY <1>6, <2>1, <2>2 DEF Carried
    <3>3. r \in Int
      BY <3>1
    <3> HIDE DEF a, b, c, e, r
    <3> QED BY <3>1, <3>2, <3>3
  <2> HIDE DEF a, b, gc, re
  <2>6. f[t].adv = ErrorAt(written, k) + re
    BY <2>3, <2>4, <2>5
  <2>7. f[places[k]].adv = ErrorAt(written, k) + (Gamma * Lam) * f[places[k + 1]].adv
    BY <2>6 DEF re, t, u
  <2> QED BY <1>8, <2>7
<1> QED BY <1>7, <1>8

\* The k-th written token's advantage.
SumsErrors(tokens, places, written, m, k) ==
  Gae(tokens)[places[k]]
    = Discounted([j \in 1 .. m + 1 - k |-> ErrorAt(written, k + j - 1)], Gamma * Lam)

\* So the advantage of a written token is the discounted sum of the errors
\* from there on.
LEMMA SkipsObservations ==
  ASSUME NEW S, NEW tokens \in Seq(S), TokensOK(tokens),
         NEW m \in Nat, NEW places, Ascends(places, m, Written(tokens)), NEW written,
         AreWritten(written, tokens, places, m), NEW k \in 1 .. m
  PROVE  SumsErrors(tokens, places, written, m, k)
<1> DEFINE n == Len(tokens)
           r == Gamma * Lam
           e == [i \in 1 .. m |-> ErrorAt(written, i)]
<1>1. PICK f \in [1 .. n + 1 -> Carried] :
        IsFrom(tokens, f) /\ \A t \in 1 .. n : Gae(tokens)[t] = f[t].adv
  BY GaeIs
<1>2. n \in Nat /\ DOMAIN tokens = 1 .. n /\ Written(tokens) \subseteq 1 .. n
  BY DEF Written
<1>3. Len(written) = m /\ \A i \in 1 .. m : places[i] \in 1 .. n /\ written[i] = tokens[places[i]]
  BY <1>2 DEF Ascends, AreWritten
<1>4. \A i \in 1 .. m :
        f[places[i]].adv = ErrorAt(written, i)
                             + (IF i = m THEN 0 ELSE r * f[places[i + 1]].adv)
  <2> TAKE i \in 1 .. m
  <2>1. f \in [1 .. Len(tokens) + 1 -> Carried] /\ IsFrom(tokens, f)
    BY <1>1
  <2> QED BY <2>1, CarriedAt, SMTT(20)
<1>5. \A i \in 1 .. m : f[places[i]].adv \in Int
  <2> TAKE i \in 1 .. m
  <2>1. places[i] \in 1 .. n + 1
    BY <1>2, <1>3
  <2> QED BY <1>1, <2>1 DEF Carried
<1>6. e \in [1 .. m -> Int]
  <2> SUFFICES ASSUME NEW i \in 1 .. m PROVE ErrorAt(written, i) \in Int
    OBVIOUS
  <2>1. TokenOK(written[i]) /\ (i # m => TokenOK(written[i + 1]))
    <3>1. \A x \in 1 .. m : TokenOK(written[x])
      BY <1>3 DEF TokensOK
    <3>2. i # m => i + 1 \in 1 .. m
      OBVIOUS
    <3> QED BY <3>1, <3>2
  <2> DEFINE a == written[i].reward
             b == written[i].value
             c == written[i + 1].value
  <2>2. a \in Int /\ b \in Int /\ Gamma \in Int /\ (i # m => c \in Int)
    BY <2>1, DiscountAssumption DEF TokenOK
  <2>3. ErrorAt(written, i) = a - b + (IF i = m THEN 0 ELSE Gamma * c)
    BY <1>3 DEF ErrorAt
  <2> HIDE DEF a, b, c
  <2>4. (IF i = m THEN 0 ELSE Gamma * c) \in Int
    BY <2>2
  <2> DEFINE x == IF i = m THEN 0 ELSE Gamma * c
  <2>5. x \in Int /\ ErrorAt(written, i) = a - b + x
    BY <2>3, <2>4
  <2> HIDE DEF x
  <2> QED BY <2>2, <2>5
<1>7. r \in Int
  BY DiscountAssumption
<1>8. \A i \in 1 .. m : e[i] = ErrorAt(written, i)
  OBVIOUS
<1> HIDE DEF e, r, n
<1> DEFINE A(i) == f[places[i]].adv
           D(i) == Discounted(Rest(e, m, i), r)
           P == {i \in 1 .. m + 1 : i = m + 1 \/ A(i) = D(i)}
<1>9. m + 1 \in P
  OBVIOUS
<1>10. ASSUME NEW i \in 1 .. m, i + 1 \in P PROVE i \in P
  <2>1. D(i) = e[i] + (IF i = m THEN 0 ELSE r * D(i + 1))
    BY <1>6, <1>7, DiscountedMore
  <2>2. A(i) = e[i] + (IF i = m THEN 0 ELSE r * A(i + 1))
    BY <1>4, <1>8
  <2>3. i # m => A(i + 1) = D(i + 1)
    BY <1>10
  <2>4. A(i) = D(i)
    <3> HIDE DEF A, D
    <3> QED BY <2>1, <2>2, <2>3
  <2> QED BY <2>4
<1>11. \A i \in 1 .. m + 1 : i \in P
  <2> HIDE DEF P
  <2> QED BY <1>9, <1>10, Backwards
<1>12. A(k) = D(k)
  <2>1. k \in P /\ k # m + 1
    BY <1>11
  <2> QED BY <2>1
<1>13. Rest(e, m, k) = [j \in 1 .. m + 1 - k |-> ErrorAt(written, k + j - 1)]
  <2>1. \A j \in 1 .. m + 1 - k : k + j - 1 \in 1 .. m
    OBVIOUS
  <2> QED BY <1>8, <2>1 DEF Rest
<1>14. Gae(tokens)[places[k]] = A(k)
  BY <1>1, <1>3
<1> QED BY <1>12, <1>13, <1>14 DEF r, SumsErrors

\* The advantages of the tokens the model wrote are the discounted sums of
\* their one-step errors: observation tokens make no difference, in a response
\* of any tokens.
THEOREM ObservationsSkipped == Spec => []ReturnsSkipObservations
<1>1. ASSUME InputsOK PROVE ReturnsSkipObservations
  <2> DEFINE M == Written(response)
             m == Cardinality(M)
             places == InOrder(M)
             written == [k \in DOMAIN places |-> response[places[k]]]
             n == Len(response)
  <2>1. response \in Seq(Token) /\ n \in Nat /\ DOMAIN response = 1 .. n
    BY <1>1 DEF InputsOK
  <2>2. TokensOK(response)
    <3> SUFFICES ASSUME NEW t \in 1 .. n PROVE TokenOK(response[t])
      BY DEF TokensOK
    <3>1. response[t] \in Token
      BY <2>1
    <3> QED BY <3>1, InputAssumption DEF Token, TokenOK
  <2>3. M \in SUBSET Int /\ IsFiniteSet(M)
    <3>1. M \subseteq 1 .. n
      BY <2>1 DEF Written
    <3>2. IsFiniteSet(1 .. n)
      BY <2>1, FS_Interval
    <3> HIDE DEF n, M
    <3>3. IsFiniteSet(M)
      BY <3>1, <3>2, FS_Subset
    <3> QED BY <2>1, <3>1, <3>3
  <2>4. m \in Nat
    BY <2>3, FS_CardinalityType
  <2> HIDE DEF M
  <2>5. /\ places \in [1 .. m -> M] /\ DOMAIN places = 1 .. m
        /\ \A q, r \in 1 .. m : q < r => places[q] < places[r]
        /\ \A x \in M : \E r \in 1 .. m : places[r] = x
    BY <2>3, InOrderIs
  <2> HIDE DEF places, m
  <2>6. Ascends(places, m, Written(response))
    BY <2>5 DEF Ascends, M
  <2>7. Len(written) = m /\ \A i \in 1 .. m : written[i] = response[places[i]]
    <3>1. written = [k \in 1 .. m |-> response[places[k]]]
      BY <2>5
    <3> HIDE DEF written
    <3>2. DOMAIN written = 1 .. m /\ \A i \in 1 .. m : written[i] = response[places[i]]
      BY <3>1
    <3>3. Len(written) = m
      BY <2>4, <3>1
    <3> QED BY <3>2, <3>3
  <2> HIDE DEF written, n
  <2>7a. AreWritten(written, response, places, m)
    BY <2>7 DEF AreWritten
  <2>8. ASSUME NEW k \in 1 .. m
        PROVE  SumsErrors(response, places, written, m, k)
    BY ONLY <2>1, <2>2, <2>4, <2>6, <2>7a, SkipsObservations
  <2>9. places = InOrder({t \in DOMAIN response : response[t].mask})
    BY DEF places, M, Written
  <2>10. written = [k \in DOMAIN places |-> response[places[k]]] /\ DOMAIN written = 1 .. m
    BY <2>5 DEF written
  <2>11. ASSUME NEW k \in DOMAIN written
         PROVE  Gae(response)[places[k]]
                  = Discounted([j \in 1 .. Len(written) + 1 - k |-> ErrorAt(written, k + j - 1)],
                               Gamma * Lam)
    BY <2>7, <2>8, <2>10 DEF SumsErrors
  <2> QED BY ONLY <2>11 DEF ReturnsSkipObservations, ErrorAt, written, places, M, Written
<1> QED BY <1>1, InputsTyped, PTL

-----------------------------------------------------------------------------
(* Parts moved, and parts of parts.                                        *)

\* The parts in another order are the same parts.
LEMMA PartedPermuted ==
  ASSUME NEW k \in Nat, NEW n \in Nat, NEW parts, Parted(parts, k, n), NEW p,
         IsPermutation(p, k), NEW q, q = [r \in 1 .. k |-> parts[p[r]]]
  PROVE  Parted(q, k, n)
<1>1. /\ parts \in Seq(Seq(1 .. n)) /\ Len(parts) = k
      /\ \A i \in 1 .. k : Lists(parts[i], ToSet(parts[i]))
      /\ \A i, j \in 1 .. k : i # j => ToSet(parts[i]) \cap ToSet(parts[j]) = {}
      /\ UNION {ToSet(parts[i]) : i \in 1 .. k} = 1 .. n
  BY DEF Parted
<1>2. /\ p \in [1 .. k -> 1 .. k] /\ \A i, j \in 1 .. k : p[i] = p[j] => i = j
      /\ \A x \in 1 .. k : \E i \in 1 .. k : p[i] = x
  BY DEF IsPermutation
<1>3. \A r \in 1 .. k : q[r] = parts[p[r]] /\ p[r] \in 1 .. k
  BY <1>2
<1>4. q \in Seq(Seq(1 .. n)) /\ Len(q) = k
  <2>1. \A r \in 1 .. k : parts[p[r]] \in Seq(1 .. n)
    BY <1>1, <1>3
  <2>2. [r \in 1 .. k |-> parts[p[r]]] \in Seq(Seq(1 .. n))
        /\ Len([r \in 1 .. k |-> parts[p[r]]]) = k
    BY <2>1
  <2> QED BY <2>2
<1>5. \A r \in 1 .. k : Lists(q[r], ToSet(q[r]))
  BY <1>1, <1>3
<1>6. ASSUME NEW i \in 1 .. k, NEW j \in 1 .. k, i # j PROVE ToSet(q[i]) \cap ToSet(q[j]) = {}
  <2>1. /\ p[i] # p[j] /\ p[i] \in 1 .. k /\ p[j] \in 1 .. k
        /\ q[i] = parts[p[i]] /\ q[j] = parts[p[j]]
    BY <1>2, <1>3, <1>6
  <2> QED BY <1>1, <2>1
<1>7. UNION {ToSet(q[r]) : r \in 1 .. k} = 1 .. n
  <2>1. {ToSet(q[r]) : r \in 1 .. k} = {ToSet(parts[i]) : i \in 1 .. k}
    <3>1. \A r \in 1 .. k : \E i \in 1 .. k : ToSet(q[r]) = ToSet(parts[i])
      BY <1>3
    <3>2. \A i \in 1 .. k : \E r \in 1 .. k : ToSet(q[r]) = ToSet(parts[i])
      BY <1>2, <1>3
    <3> QED BY <3>1, <3>2
  <2> QED BY <1>1, <2>1
<1> QED BY <1>4, <1>5, <1>6, <1>7 DEF Parted

\* Halves of the positions.
LEMMA Halved ==
  ASSUME NEW k \in Nat
  PROVE  /\ CeilDiv(k, 2) \in Nat /\ k \div 2 \in Nat
         /\ CeilDiv(k, 2) + k \div 2 = k
         /\ CeilDiv(k, 2) = k \div 2 \/ CeilDiv(k, 2) = k \div 2 + 1
<1>1. k \div 2 \in Nat /\ (k + 1) \div 2 \in Nat
  OBVIOUS
<1>2. /\ (k + 1) \div 2 + k \div 2 = k
      /\ (k + 1) \div 2 = k \div 2 \/ (k + 1) \div 2 = k \div 2 + 1
  OBVIOUS
<1>3. CeilDiv(k, 2) = (k + 1) \div 2
  BY DEF CeilDiv
<1> QED BY <1>1, <1>2, <1>3

\* Where an even or odd position went.
Inward(k) ==
  [r \in 1 .. k |-> IF r <= CeilDiv(k, 2) THEN 2 * (CeilDiv(k, 2) + 1 - r) - 1
                    ELSE 2 * (r - CeilDiv(k, 2))]
Outward(k) ==
  [r \in 1 .. k |-> IF r <= CeilDiv(k, 2) THEN 2 * r - 1 ELSE 2 * (k + 1 - r)]

\* InsideOut takes every place once.
LEMMA InwardPermutes ==
  ASSUME NEW k \in Nat
  PROVE  IsPermutation(Inward(k), k)
<1> DEFINE c == CeilDiv(k, 2)
           e == k \div 2
           p == Inward(k)
<1>1. c \in Nat /\ e \in Nat /\ c + e = k /\ (c = e \/ c = e + 1)
  BY Halved
<1> HIDE DEF e
<1>2. DOMAIN p = 1 .. k /\ \A r \in 1 .. k :
        p[r] = IF r <= c THEN 2 * (c + 1 - r) - 1 ELSE 2 * (r - c)
  BY DEF Inward
<1>3. p = [r \in 1 .. k |-> p[r]]
  BY DEF Inward
<1> HIDE DEF c, p
<1>4. \A r \in 1 .. k : p[r] \in 1 .. k
  <2> TAKE r \in 1 .. k
  <2>1. CASE r <= c
    <3>1. p[r] = 2 * (c + 1 - r) - 1
      BY <1>2, <2>1
    <3> QED BY <1>1, <2>1, <3>1
  <2>2. CASE ~(r <= c)
    <3>1. p[r] = 2 * (r - c)
      BY <1>2, <2>2
    <3> QED BY <1>1, <2>2, <3>1
  <2> QED BY <2>1, <2>2
<1>5. ASSUME NEW i \in 1 .. k, NEW j \in 1 .. k, p[i] = p[j] PROVE i = j
  <2>1. /\ p[i] = IF i <= c THEN 2 * (c + 1 - i) - 1 ELSE 2 * (i - c)
        /\ p[j] = IF j <= c THEN 2 * (c + 1 - j) - 1 ELSE 2 * (j - c)
    BY <1>2
  <2> DEFINE a == p[i]
             b == p[j]
  <2>2. a = b
    BY <1>5
  <2> HIDE DEF a, b
  <2>3. CASE i <= c /\ j <= c
    BY <1>1, <2>1, <2>2, <2>3 DEF a, b
  <2>4. CASE ~(i <= c) /\ ~(j <= c)
    BY <1>1, <2>1, <2>2, <2>4 DEF a, b
  <2>5. CASE i <= c /\ ~(j <= c)
    BY <1>1, <2>1, <2>2, <2>5 DEF a, b
  <2>6. CASE ~(i <= c) /\ j <= c
    BY <1>1, <2>1, <2>2, <2>6 DEF a, b
  <2> QED BY <2>3, <2>4, <2>5, <2>6
<1>6. ASSUME NEW x \in 1 .. k PROVE \E i \in 1 .. k : p[i] = x
  <2>1. PICK y \in Nat : x = 2 * y \/ x = 2 * y - 1
    <3>1. (x + 1) \div 2 \in Nat /\ (x = 2 * ((x + 1) \div 2) \/ x = 2 * ((x + 1) \div 2) - 1)
      OBVIOUS
    <3> QED BY <3>1
  <2>2. CASE x = 2 * y
    <3>1. c + y \in 1 .. k /\ ~(c + y <= c) /\ (c + y) - c = y
      BY <1>1, <2>2
    <3>2. p[c + y] = x
      BY <1>2, <2>2, <3>1
    <3> QED BY <3>1, <3>2
  <2>3. CASE x = 2 * y - 1
    <3>1. c + 1 - y \in 1 .. k /\ c + 1 - y <= c /\ c + 1 - (c + 1 - y) = y
      BY <1>1, <2>3
    <3>2. p[c + 1 - y] = x
      BY <1>2, <2>3, <3>1
    <3> QED BY <3>1, <3>2
  <2> QED BY <2>1, <2>2, <2>3
<1>7. p \in [1 .. k -> 1 .. k]
  BY <1>3, <1>4
<1> QED BY <1>5, <1>6, <1>7 DEF IsPermutation, p

\* OutsideIn takes every place once.
LEMMA OutwardPermutes ==
  ASSUME NEW k \in Nat
  PROVE  IsPermutation(Outward(k), k)
<1> DEFINE c == CeilDiv(k, 2)
           e == k \div 2
           p == Outward(k)
<1>1. c \in Nat /\ e \in Nat /\ c + e = k /\ (c = e \/ c = e + 1)
  BY Halved
<1> HIDE DEF e
<1>2. DOMAIN p = 1 .. k /\ \A r \in 1 .. k :
        p[r] = IF r <= c THEN 2 * r - 1 ELSE 2 * (k + 1 - r)
  BY DEF Outward
<1>3. p = [r \in 1 .. k |-> p[r]]
  BY DEF Outward
<1> HIDE DEF c, p
<1>4. \A r \in 1 .. k : p[r] \in 1 .. k
  <2> TAKE r \in 1 .. k
  <2>1. CASE r <= c
    <3>1. p[r] = 2 * r - 1
      BY <1>2, <2>1
    <3> QED BY <1>1, <2>1, <3>1
  <2>2. CASE ~(r <= c)
    <3>1. p[r] = 2 * (k + 1 - r)
      BY <1>2, <2>2
    <3> QED BY <1>1, <2>2, <3>1
  <2> QED BY <2>1, <2>2
<1>5. ASSUME NEW i \in 1 .. k, NEW j \in 1 .. k, p[i] = p[j] PROVE i = j
  <2>1. /\ p[i] = IF i <= c THEN 2 * i - 1 ELSE 2 * (k + 1 - i)
        /\ p[j] = IF j <= c THEN 2 * j - 1 ELSE 2 * (k + 1 - j)
    BY <1>2
  <2> DEFINE a == p[i]
             b == p[j]
  <2>2. a = b
    BY <1>5
  <2> HIDE DEF a, b
  <2>3. CASE i <= c /\ j <= c
    BY <1>1, <2>1, <2>2, <2>3 DEF a, b
  <2>4. CASE ~(i <= c) /\ ~(j <= c)
    BY <1>1, <2>1, <2>2, <2>4 DEF a, b
  <2>5. CASE i <= c /\ ~(j <= c)
    BY <1>1, <2>1, <2>2, <2>5 DEF a, b
  <2>6. CASE ~(i <= c) /\ j <= c
    BY <1>1, <2>1, <2>2, <2>6 DEF a, b
  <2> QED BY <2>3, <2>4, <2>5, <2>6
<1>6. ASSUME NEW x \in 1 .. k PROVE \E i \in 1 .. k : p[i] = x
  <2>1. PICK y \in Nat : x = 2 * y \/ x = 2 * y - 1
    <3>1. (x + 1) \div 2 \in Nat /\ (x = 2 * ((x + 1) \div 2) \/ x = 2 * ((x + 1) \div 2) - 1)
      OBVIOUS
    <3> QED BY <3>1
  <2>2. CASE x = 2 * y
    <3>1. k + 1 - y \in 1 .. k /\ ~(k + 1 - y <= c) /\ k + 1 - (k + 1 - y) = y
      BY <1>1, <2>2
    <3>2. p[k + 1 - y] = x
      BY <1>2, <2>2, <3>1
    <3> QED BY <3>1, <3>2
  <2>3. CASE x = 2 * y - 1
    <3>1. y \in 1 .. k /\ y <= c
      BY <1>1, <2>3
    <3>2. p[y] = x
      BY <1>2, <2>3, <3>1
    <3> QED BY <3>1, <3>2
  <2> QED BY <2>1, <2>2, <2>3
<1>7. p \in [1 .. k -> 1 .. k]
  BY <1>3, <1>4
<1> QED BY <1>5, <1>6, <1>7 DEF IsPermutation, p

\* One sequence after another.
Joins(u, a, b, c, e) ==
  /\ u = [i \in 1 .. c + e |-> u[i]]
  /\ \A i \in 1 .. c : u[i] = a[i]
  /\ \A i \in 1 .. e : u[c + i] = b[i]

\* What a concatenation has where.
LEMMA Joined ==
  ASSUME NEW S, NEW a \in Seq(S), NEW b \in Seq(S)
  PROVE  /\ a \o b \in Seq(S) /\ Len(a \o b) = Len(a) + Len(b)
         /\ Joins(a \o b, a, b, Len(a), Len(b))
<1> DEFINE u == a \o b
           c == Len(a)
           e == Len(b)
<1>1. c \in Nat /\ e \in Nat /\ u \in Seq(S) /\ Len(u) = c + e
  OBVIOUS
<1>2. \A i \in 1 .. c : u[i] = a[i]
  OBVIOUS
<1>3. \A i \in 1 .. e : u[c + i] = b[i]
  OBVIOUS
<1>4. u = [i \in 1 .. c + e |-> u[i]]
  <2> HIDE DEF u, c, e
  <2>1. u = [i \in 1 .. Len(u) |-> u[i]]
    BY <1>1
  <2> QED BY <1>1, <2>1
<1> QED BY <1>1, <1>2, <1>3, <1>4 DEF Joins

\* Every other element.
LEMMA Others ==
  ASSUME NEW S, NEW seq \in Seq(S)
  PROVE  LET k == Len(seq) IN
         /\ Odds(seq) \in Seq(S) /\ Len(Odds(seq)) = CeilDiv(k, 2)
         /\ \A i \in 1 .. CeilDiv(k, 2) : Odds(seq)[i] = seq[2 * i - 1]
         /\ Evens(seq) \in Seq(S) /\ Len(Evens(seq)) = k \div 2
         /\ \A i \in 1 .. k \div 2 : Evens(seq)[i] = seq[2 * i]
<1> DEFINE k == Len(seq)
           c == CeilDiv(k, 2)
           e == k \div 2
<1>1. k \in Nat
  OBVIOUS
<1>2. c \in Nat /\ e \in Nat /\ c + e = k /\ (c = e \/ c = e + 1)
  BY <1>1, Halved
<1>3. Odds(seq) = [i \in 1 .. c |-> seq[2 * i - 1]] /\ Evens(seq) = [i \in 1 .. e |-> seq[2 * i]]
  BY DEF Odds, Evens
<1> HIDE DEF c, e
<1>4. \A i \in 1 .. c : 2 * i - 1 \in 1 .. k
  BY <1>1, <1>2
<1>5. \A i \in 1 .. e : 2 * i \in 1 .. k
  BY <1>1, <1>2
<1>6. (\A i \in 1 .. c : seq[2 * i - 1] \in S) /\ \A i \in 1 .. e : seq[2 * i] \in S
  BY <1>4, <1>5
<1>7. [i \in 1 .. c |-> seq[2 * i - 1]] \in Seq(S) /\ Len([i \in 1 .. c |-> seq[2 * i - 1]]) = c
  BY <1>2, <1>6
<1>8. [i \in 1 .. e |-> seq[2 * i]] \in Seq(S) /\ Len([i \in 1 .. e |-> seq[2 * i]]) = e
  BY <1>2, <1>6
<1> QED BY <1>3, <1>7, <1>8 DEF c, e

\* InsideOut is a permutation of the places.
LEMMA InsideOutIs ==
  ASSUME NEW S, NEW seq \in Seq(S)
  PROVE  InsideOut(seq) = [r \in 1 .. Len(seq) |-> seq[Inward(Len(seq))[r]]]
<1> DEFINE k == Len(seq)
           c == CeilDiv(k, 2)
           e == k \div 2
           a == Reverse(Odds(seq))
           b == Evens(seq)
           u == InsideOut(seq)
<1>1. k \in Nat
  OBVIOUS
<1>2. c \in Nat /\ e \in Nat /\ c + e = k
  BY <1>1, Halved
<1>3. /\ Odds(seq) \in Seq(S) /\ Len(Odds(seq)) = c
      /\ \A i \in 1 .. c : Odds(seq)[i] = seq[2 * i - 1]
      /\ b \in Seq(S) /\ Len(b) = e /\ \A i \in 1 .. e : b[i] = seq[2 * i]
  BY Others
<1>4. /\ a \in Seq(S) /\ Len(a) = c
      /\ \A i \in 1 .. c : a[i] = seq[2 * (c + 1 - i) - 1]
  <2> DEFINE o == Odds(seq)
  <2>1. a = [i \in 1 .. c |-> o[(c - i) + 1]]
    BY <1>3 DEF Reverse
  <2>2. \A i \in 1 .. c : (c - i) + 1 \in 1 .. c /\ c + 1 - i = (c - i) + 1
    BY <1>2
  <2>3. o \in Seq(S) /\ Len(o) = c /\ \A i \in 1 .. c : o[i] = seq[2 * i - 1]
    BY <1>3
  <2> HIDE DEF c, o, a
  <2>4. \A i \in 1 .. c : o[(c - i) + 1] \in S
    BY <2>2, <2>3
  <2>5. [i \in 1 .. c |-> o[(c - i) + 1]] \in Seq(S) /\ Len([i \in 1 .. c |-> o[(c - i) + 1]]) = c
    BY <1>2, <2>4
  <2> QED BY <2>1, <2>2, <2>3, <2>5
<1>5. u = a \o b
  BY DEF InsideOut
<1> HIDE DEF a, b, c, e, u
<1>6. Joins(u, a, b, c, e)
  BY <1>3, <1>4, <1>5, Joined
<1>7. ASSUME NEW r \in 1 .. k PROVE u[r] = seq[Inward(k)[r]]
  <2>1. Inward(k)[r] = IF r <= c THEN 2 * (c + 1 - r) - 1 ELSE 2 * (r - c)
    BY DEF Inward, c
  <2>2. CASE r <= c
    <3>1. r \in 1 .. c
      BY <1>2, <2>2
    <3> QED BY <1>4, <1>6, <2>1, <2>2, <3>1 DEF Joins
  <2>3. CASE ~(r <= c)
    <3>1. r - c \in 1 .. e /\ c + (r - c) = r
      BY <1>1, <1>2, <2>3
    <3>2. u[c + (r - c)] = b[r - c]
      BY <1>6, <3>1 DEF Joins
    <3> QED BY <1>3, <2>1, <2>3, <3>1, <3>2
  <2> QED BY <2>2, <2>3
<1>8. u = [r \in 1 .. k |-> u[r]]
  BY <1>2, <1>6 DEF Joins
<1> QED BY <1>7, <1>8 DEF u

\* OutsideIn is a permutation of the places.
LEMMA OutsideInIs ==
  ASSUME NEW S, NEW seq \in Seq(S)
  PROVE  OutsideIn(seq) = [r \in 1 .. Len(seq) |-> seq[Outward(Len(seq))[r]]]
<1> DEFINE k == Len(seq)
           c == CeilDiv(k, 2)
           e == k \div 2
           a == Odds(seq)
           b == Reverse(Evens(seq))
           u == OutsideIn(seq)
<1>1. k \in Nat
  OBVIOUS
<1>2. c \in Nat /\ e \in Nat /\ c + e = k
  BY <1>1, Halved
<1>3. /\ Evens(seq) \in Seq(S) /\ Len(Evens(seq)) = e
      /\ \A i \in 1 .. e : Evens(seq)[i] = seq[2 * i]
      /\ a \in Seq(S) /\ Len(a) = c /\ \A i \in 1 .. c : a[i] = seq[2 * i - 1]
  BY Others
<1>4. /\ b \in Seq(S) /\ Len(b) = e
      /\ \A i \in 1 .. e : b[i] = seq[2 * (e + 1 - i)]
  <2> DEFINE o == Evens(seq)
  <2>1. b = [i \in 1 .. e |-> o[(e - i) + 1]]
    BY <1>3 DEF Reverse
  <2>2. \A i \in 1 .. e : (e - i) + 1 \in 1 .. e /\ e + 1 - i = (e - i) + 1
    BY <1>2
  <2>3. o \in Seq(S) /\ Len(o) = e /\ \A i \in 1 .. e : o[i] = seq[2 * i]
    BY <1>3
  <2> HIDE DEF e, o, b
  <2>4. \A i \in 1 .. e : o[(e - i) + 1] \in S
    BY <2>2, <2>3
  <2>5. [i \in 1 .. e |-> o[(e - i) + 1]] \in Seq(S) /\ Len([i \in 1 .. e |-> o[(e - i) + 1]]) = e
    BY <1>2, <2>4
  <2> QED BY <2>1, <2>2, <2>3, <2>5
<1>5. u = a \o b
  BY DEF OutsideIn
<1> HIDE DEF a, b, c, e, u
<1>6. Joins(u, a, b, c, e)
  BY <1>3, <1>4, <1>5, Joined
<1>7. ASSUME NEW r \in 1 .. k PROVE u[r] = seq[Outward(k)[r]]
  <2>1. Outward(k)[r] = IF r <= c THEN 2 * r - 1 ELSE 2 * (k + 1 - r)
    BY DEF Outward, c
  <2>2. CASE r <= c
    <3>1. r \in 1 .. c
      BY <1>2, <2>2
    <3> QED BY <1>3, <1>6, <2>1, <2>2, <3>1 DEF Joins
  <2>3. CASE ~(r <= c)
    <3>1. r - c \in 1 .. e /\ c + (r - c) = r /\ e + 1 - (r - c) = k + 1 - r
      BY <1>1, <1>2, <2>3
    <3>2. u[c + (r - c)] = b[r - c]
      BY <1>6, <3>1 DEF Joins
    <3> QED BY <1>4, <2>1, <2>3, <3>1, <3>2
  <2> QED BY <2>2, <2>3
<1>8. u = [r \in 1 .. k |-> u[r]]
  BY <1>2, <1>6 DEF Joins
<1> QED BY <1>7, <1>8 DEF u

\* Where an element of a concatenation is.
LEMMA FlatWithin ==
  ASSUME NEW S, NEW ss \in Seq(Seq(S)), NEW f, NEW off, IsFlat(ss, Len(ss), f, off),
         NEW i \in 1 .. Len(ss), NEW j \in 1 .. Len(ss[i])
  PROVE  f[off[i] + j] = ss[i][j] /\ off[i] + j \in 1 .. Len(f) /\ off[i] \in Nat
<1> DEFINE n == Len(ss)
<1>1. f[off[i] + j] = ss[i][j]
  BY DEF IsFlat
<1>2. /\ off[i] \in Nat /\ off[i + 1] = off[i] + Len(ss[i]) /\ off[i + 1] \in Nat
      /\ Len(f) = off[n + 1] /\ n \in Nat /\ off[n + 1] \in Nat
  <2>1. n \in Nat /\ i \in 1 .. n + 1 /\ i + 1 \in 1 .. n + 1 /\ n + 1 \in 1 .. n + 1
    OBVIOUS
  <2> QED BY <2>1 DEF IsFlat
<1>3. off[i + 1] <= off[n + 1]
  <2>1. CASE i = n
    BY <1>2, <2>1
  <2>2. CASE i # n
    <3>1. n \in 1 .. n /\ i < n /\ n \in 1 .. n + 1
      BY <2>2
    <3>2. off[i + 1] <= off[n] /\ off[n + 1] = off[n] + Len(ss[n]) /\ off[n] \in Nat
      BY <3>1 DEF IsFlat
    <3>3. Len(ss[n]) \in Nat
      BY <3>1
    <3> DEFINE a == off[i + 1]
               b == off[n]
               c == Len(ss[n])
               d == off[n + 1]
    <3>4. a <= b /\ d = b + c /\ a \in Nat /\ b \in Nat /\ c \in Nat
      BY <1>2, <3>2, <3>3
    <3> HIDE DEF a, b, c, d
    <3>5. a <= d
      BY ONLY <3>4
    <3> QED BY <3>5 DEF a, d
  <2> QED BY <2>1, <2>2
<1>4. off[i] + j \in 1 .. Len(f)
  <2> DEFINE a == off[i]
             l == Len(ss[i])
             d == Len(f)
  <2>1. a \in Nat /\ l \in Nat /\ d \in Nat /\ a + l <= d /\ j \in 1 .. l
    BY <1>2, <1>3
  <2> HIDE DEF a, l, d
  <2>2. a + j \in 1 .. d
    BY ONLY <2>1
  <2> QED BY <2>2 DEF a, d
<1> QED BY <1>1, <1>2, <1>4

\* Rows forced together follow each other.
Together(seq, size) ==
  \A x \in 1 .. Len(seq) :
    seq[x] % size = 1 => x + 1 \in 1 .. Len(seq) /\ seq[x + 1] = seq[x] + 1

\* Each of the sequences by itself.
AllTogether(ss, size) == \A i \in 1 .. Len(ss) : Together(ss[i], size)

\* Rows that are next to each other in a part are so in all parts joined.
LEMMA FlatTogether ==
  ASSUME NEW S, NEW ss \in Seq(Seq(S)), NEW size, AllTogether(ss, size)
  PROVE  Together(FlattenSeq(ss), size)
<1> DEFINE f == FlattenSeq(ss)
           n == Len(ss)
<1>1. PICK off : IsFlat(ss, n, f, off)
  BY Flat
<1> HIDE DEF f
<1> SUFFICES ASSUME NEW x \in 1 .. Len(f), f[x] % size = 1
             PROVE  x + 1 \in 1 .. Len(f) /\ f[x + 1] = f[x] + 1
  BY DEF Together, f
<1>2. PICK i \in 1 .. n : \E j \in 1 .. Len(ss[i]) : x = off[i] + j
  BY <1>1 DEF IsFlat
<1>3. PICK j \in 1 .. Len(ss[i]) : x = off[i] + j
  BY <1>2
<1>4. f[x] = ss[i][j] /\ off[i] \in Nat
  BY <1>1, <1>3, FlatWithin
<1>5. j + 1 \in 1 .. Len(ss[i]) /\ ss[i][j + 1] = ss[i][j] + 1
  BY <1>4 DEF AllTogether, Together
<1>6. f[off[i] + (j + 1)] = ss[i][j + 1] /\ off[i] + (j + 1) \in 1 .. Len(f)
  <2> DEFINE next == j + 1
  <2>1. next \in 1 .. Len(ss[i])
    BY <1>5
  <2> HIDE DEF next
  <2>2. ss \in Seq(Seq(S)) /\ IsFlat(ss, Len(ss), f, off) /\ i \in 1 .. Len(ss)
    BY <1>1
  <2>3. f[off[i] + next] = ss[i][next] /\ off[i] + next \in 1 .. Len(f)
    BY ONLY <2>1, <2>2, FlatWithin
  <2> QED BY <2>3 DEF next
<1>7. off[i] + (j + 1) = x + 1
  <2> DEFINE a == off[i]
  <2>1. a \in Nat /\ x = a + j
    BY <1>3, <1>4
  <2> HIDE DEF a
  <2>2. a + (j + 1) = x + 1
    BY <2>1
  <2> QED BY <2>2 DEF a
<1> QED BY <1>4, <1>5, <1>6, <1>7

-----------------------------------------------------------------------------
(* Rows in groups.                                                         *)

\* The rows of some groups, as a set and one group after the other.
RowsIn(groups, X) == UNION {ToSet(groups[g]) : g \in X}
RowsInTurn(part, groups) == FlattenSeq([g \in DOMAIN part |-> groups[part[g]]])

\* The rows of some groups, each row once.
LEMMA GroupsFlat ==
  ASSUME NEW m \in Nat, NEW n \in Nat, NEW groups, Parted(groups, m, n),
         NEW X \in SUBSET (1 .. m), NEW part, Lists(part, X)
  PROVE  /\ Lists(RowsInTurn(part, groups), RowsIn(groups, X))
         /\ RowsInTurn(part, groups) \in Seq(1 .. n)
<1> DEFINE L == Len(part)
           D == 1 .. n
           ss == [i \in 1 .. L |-> groups[part[i]]]
           Y == [i \in 1 .. L |-> ToSet(groups[part[i]])]
<1>1. /\ groups \in Seq(Seq(D)) /\ Len(groups) = m
      /\ \A g \in 1 .. m : Lists(groups[g], ToSet(groups[g]))
      /\ \A g, h \in 1 .. m : g # h => ToSet(groups[g]) \cap ToSet(groups[h]) = {}
  BY DEF Parted
<1> HIDE DEF D
<1>2. /\ L \in Nat /\ DOMAIN part = 1 .. L /\ \A i \in 1 .. L : part[i] \in X /\ part[i] \in 1 .. m
      /\ \A i, j \in 1 .. L : part[i] = part[j] => i = j
      /\ \A x \in X : \E i \in 1 .. L : part[i] = x
  <2>1. part \in Seq(X)
    BY DEF Lists
  <2>2. L \in Nat /\ DOMAIN part = 1 .. L
    BY <2>1
  <2>3. \A i \in 1 .. L : part[i] \in X
    BY <2>1, <2>2
  <2>4. \A i, j \in 1 .. L : part[i] = part[j] => i = j
    BY DEF Lists
  <2>5. \A x \in X : \E i \in 1 .. L : part[i] = x
    BY DEF Lists
  <2>6. \A i \in 1 .. L : part[i] \in X /\ part[i] \in 1 .. m
    BY <2>3
  <2> QED BY <2>2, <2>4, <2>5, <2>6
<1>3. RowsInTurn(part, groups) = FlattenSeq(ss)
  BY <1>2 DEF RowsInTurn
<1>4. \A i \in 1 .. L : ss[i] = groups[part[i]] /\ Y[i] = ToSet(groups[part[i]])
  OBVIOUS
<1>5. ss \in Seq(Seq(D)) /\ Len(ss) = L
  <2>1. \A i \in 1 .. L : groups[part[i]] \in Seq(D)
    BY <1>1, <1>2
  <2> HIDE DEF L
  <2> QED BY <1>2, <2>1
<1> HIDE DEF ss, Y, L
<1>6. AreLists(ss, Y, L)
  <2>1. \A i \in 1 .. L : Lists(ss[i], Y[i])
    BY <1>1, <1>2, <1>4
  <2>2. ASSUME NEW i \in 1 .. L, NEW j \in 1 .. L, i # j PROVE Y[i] \cap Y[j] = {}
    <3>1. part[i] # part[j] /\ part[i] \in 1 .. m /\ part[j] \in 1 .. m
      BY <1>2, <2>2
    <3> QED BY <1>1, <1>4, <3>1
  <2> QED BY <2>1, <2>2 DEF AreLists
<1>7. AllOf(Y, L) = RowsIn(groups, X)
  <2>1. \A i \in 1 .. L : part[i] \in X /\ Y[i] = ToSet(groups[part[i]])
    BY <1>2, <1>4
  <2>2. {Y[i] : i \in 1 .. L} = {ToSet(groups[g]) : g \in X}
    <3> DEFINE A == {Y[i] : i \in 1 .. L}
               B == {ToSet(groups[g]) : g \in X}
    <3>1. ASSUME NEW y \in A PROVE y \in B
      <4>1. PICK i \in 1 .. L : y = Y[i]
        OBVIOUS
      <4> QED BY <2>1, <4>1
    <3>2. ASSUME NEW y \in B PROVE y \in A
      <4>1. PICK g \in X : y = ToSet(groups[g])
        OBVIOUS
      <4>2. PICK i \in 1 .. L : part[i] = g
        BY <1>2
      <4> QED BY <2>1, <4>1, <4>2
    <3> QED BY <3>1, <3>2
  <2> QED BY <2>2 DEF AllOf, RowsIn
<1>8. Lists(FlattenSeq(ss), AllOf(Y, Len(ss))) /\ FlattenSeq(ss) \in Seq(D)
  BY <1>5, <1>6, ListsFlat, Flat
<1> QED BY <1>3, <1>5, <1>7, <1>8 DEF D

\* The rows of each part are those of its groups.
Unfolds(rows, parts, groups, k) ==
  \A p \in 1 .. k : ToSet(rows[p]) = RowsIn(groups, ToSet(parts[p]))

\* Parts of groups, unfolded, are parts of rows.
LEMMA RowsOfPartsIs ==
  ASSUME NEW k \in Nat, NEW m \in Nat, NEW n \in Nat, NEW groups, Parted(groups, m, n),
         NEW parts, Parted(parts, k, m)
  PROVE  /\ Parted(RowsOfParts(parts, groups), k, n)
         /\ Unfolds(RowsOfParts(parts, groups), parts, groups, k)
         /\ \A p \in 1 .. k : RowsOfParts(parts, groups)[p] = RowsInTurn(parts[p], groups)
<1> DEFINE rows == RowsOfParts(parts, groups)
<1>1. /\ parts \in Seq(Seq(1 .. m)) /\ Len(parts) = k /\ DOMAIN parts = 1 .. k
      /\ \A p \in 1 .. k : Lists(parts[p], ToSet(parts[p]))
      /\ \A p, q \in 1 .. k : p # q => ToSet(parts[p]) \cap ToSet(parts[q]) = {}
      /\ UNION {ToSet(parts[p]) : p \in 1 .. k} = 1 .. m
  BY DEF Parted
<1>2. rows = [p \in 1 .. k |-> RowsInTurn(parts[p], groups)]
  BY <1>1 DEF RowsOfParts, RowsInTurn
<1>3. \A p \in 1 .. k : rows[p] = RowsInTurn(parts[p], groups)
  BY <1>2
<1> HIDE DEF rows
<1>4. \A p \in 1 .. k : ToSet(parts[p]) \in SUBSET (1 .. m)
  BY <1>1
<1>5. ASSUME NEW p \in 1 .. k
      PROVE  /\ Lists(rows[p], RowsIn(groups, ToSet(parts[p])))
             /\ ToSet(rows[p]) = RowsIn(groups, ToSet(parts[p])) /\ rows[p] \in Seq(1 .. n)
  <2>1. Lists(parts[p], ToSet(parts[p])) /\ ToSet(parts[p]) \in SUBSET (1 .. m)
    BY <1>1, <1>4
  <2>2. Lists(rows[p], RowsIn(groups, ToSet(parts[p]))) /\ rows[p] \in Seq(1 .. n)
    BY <1>3, <2>1, GroupsFlat
  <2> QED BY <2>2, ListsCount
<1>6. rows \in Seq(Seq(1 .. n)) /\ Len(rows) = k
  <2>1. \A p \in 1 .. k : RowsInTurn(parts[p], groups) \in Seq(1 .. n)
    BY <1>3, <1>5
  <2>2. [p \in 1 .. k |-> RowsInTurn(parts[p], groups)] \in Seq(Seq(1 .. n))
        /\ Len([p \in 1 .. k |-> RowsInTurn(parts[p], groups)]) = k
    BY <2>1
  <2> QED BY <1>2, <2>2
<1>7. \A p \in 1 .. k : Lists(rows[p], ToSet(rows[p]))
  BY <1>5
<1>8. ASSUME NEW p \in 1 .. k, NEW q \in 1 .. k, p # q
      PROVE  ToSet(rows[p]) \cap ToSet(rows[q]) = {}
  <2> SUFFICES ASSUME NEW x, x \in ToSet(rows[p]), x \in ToSet(rows[q]) PROVE FALSE
    OBVIOUS
  <2>0. x \in RowsIn(groups, ToSet(parts[p])) /\ x \in RowsIn(groups, ToSet(parts[q]))
    <3>1. ToSet(rows[p]) = RowsIn(groups, ToSet(parts[p]))
      BY <1>5
    <3>2. ToSet(rows[q]) = RowsIn(groups, ToSet(parts[q]))
      BY <1>5
    <3> QED BY <3>1, <3>2
  <2>1. PICK g \in ToSet(parts[p]) : x \in ToSet(groups[g])
    BY <2>0 DEF RowsIn
  <2>2. PICK h \in ToSet(parts[q]) : x \in ToSet(groups[h])
    BY <2>0 DEF RowsIn
  <2>3. g \in 1 .. m /\ h \in 1 .. m
    BY <1>4
  <2>4. g # h
    BY <1>1, <1>8
  <2> QED BY <2>1, <2>2, <2>3, <2>4 DEF Parted
<1>9. UNION {ToSet(rows[p]) : p \in 1 .. k} = 1 .. n
  <2> DEFINE U == UNION {ToSet(rows[p]) : p \in 1 .. k}
  <2>1. ASSUME NEW x \in U PROVE x \in 1 .. n
    <3>1. PICK p \in 1 .. k : x \in ToSet(rows[p])
      OBVIOUS
    <3>2. rows[p] \in Seq(1 .. n)
      BY <1>5
    <3>3. ToSet(rows[p]) \subseteq 1 .. n
      BY <3>2 DEF ToSet
    <3> QED BY <3>1, <3>3
  <2>2. ASSUME NEW x \in 1 .. n PROVE x \in U
    <3>1. UNION {ToSet(groups[g]) : g \in 1 .. m} = 1 .. n
      BY DEF Parted
    <3>2. PICK g \in 1 .. m : x \in ToSet(groups[g])
      BY <3>1
    <3>3. PICK p \in 1 .. k : g \in ToSet(parts[p])
      BY <1>1
    <3>4. x \in ToSet(rows[p])
      BY <1>5, <3>2, <3>3 DEF RowsIn
    <3> QED BY <3>4
  <2> QED BY <2>1, <2>2
<1>10. Parted(rows, k, n)
  BY <1>6, <1>7, <1>8, <1>9 DEF Parted
<1>11. Unfolds(rows, parts, groups, k)
  BY <1>5 DEF Unfolds
<1> QED BY <1>3, <1>10, <1>11 DEF rows

\* Groups and parts of them that are not empty.
NoneIsEmpty(parts, k) == \A p \in 1 .. k : Len(parts[p]) >= 1

\* With no empty group, no part unfolds to nothing.
LEMMA RowsNotEmpty ==
  ASSUME NEW k \in Nat, NEW m \in Nat, NEW n \in Nat, NEW groups, Parted(groups, m, n),
         NoneIsEmpty(groups, m), NEW parts, Parted(parts, k, m), NoneIsEmpty(parts, k),
         NEW rows, Parted(rows, k, n), Unfolds(rows, parts, groups, k)
  PROVE  NoneIsEmpty(rows, k)
<1> SUFFICES ASSUME NEW p \in 1 .. k PROVE Len(rows[p]) >= 1
  BY DEF NoneIsEmpty
<1>1. parts[p] \in Seq(1 .. m) /\ Len(parts[p]) >= 1
  BY DEF Parted, NoneIsEmpty
<1>2. parts[p][1] \in 1 .. m /\ parts[p][1] \in ToSet(parts[p])
  BY <1>1 DEF ToSet
<1> DEFINE g == parts[p][1]
<1>3. groups[g] \in Seq(1 .. n) /\ Len(groups[g]) >= 1
  BY <1>2 DEF Parted, NoneIsEmpty
<1>4. groups[g][1] \in ToSet(groups[g])
  BY <1>3 DEF ToSet
<1>5. groups[g][1] \in ToSet(rows[p])
  BY <1>2, <1>4 DEF Unfolds, RowsIn
<1>6. rows[p] \in Seq(1 .. n)
  BY DEF Parted
<1> QED BY <1>5, <1>6 DEF ToSet

\* Two numbers, the second deciding among those equal in the first, compare.
LEMMA ByKeys ==
  ASSUME NEW n \in Nat, NEW key, \A i \in 1 .. n : key[i] \in Int,
         NEW tie, \A i \in 1 .. n : tie[i] \in Int, NEW less,
         \A i, j \in 1 .. n :
           <<i, j>> \in less <=> key[i] < key[j] \/ (key[i] = key[j] /\ tie[i] < tie[j])
  PROVE  Compares(less, 1 .. n)
<1>1. ASSUME NEW i \in 1 .. n, NEW j \in 1 .. n, <<i, j>> \in less PROVE <<j, i>> \notin less
  <2> DEFINE a == key[i] b == key[j] c == tie[i] d == tie[j]
  <2>1. a \in Int /\ b \in Int /\ c \in Int /\ d \in Int
    OBVIOUS
  <2>2. /\ a < b \/ (a = b /\ c < d)
        /\ <<j, i>> \in less <=> b < a \/ (b = a /\ d < c)
    BY <1>1
  <2> HIDE DEF a, b, c, d
  <2> QED BY <2>1, <2>2
<1>2. ASSUME NEW i \in 1 .. n, NEW j \in 1 .. n, NEW k \in 1 .. n,
             <<i, j>> \notin less, <<j, k>> \notin less
      PROVE  <<i, k>> \notin less
  <2> DEFINE a == key[i] b == key[j] e == key[k] c == tie[i] d == tie[j] f == tie[k]
  <2>1. a \in Int /\ b \in Int /\ c \in Int /\ d \in Int /\ e \in Int /\ f \in Int
    OBVIOUS
  <2>2. /\ ~(a < b \/ (a = b /\ c < d)) /\ ~(b < e \/ (b = e /\ d < f))
        /\ <<i, k>> \in less <=> a < e \/ (a = e /\ c < f)
    BY <1>2
  <2> HIDE DEF a, b, c, d, e, f
  <2> QED BY <2>1, <2>2
<1> QED BY <1>1, <1>2 DEF Compares

\* What a part weighs.
LEMMA PartWork ==
  ASSUME NEW k \in Nat, NEW w \in Seq(Nat), NEW parts, Parted(parts, k, Len(w)),
         NEW p \in 1 .. k
  PROVE  SumOf(parts[p], w) \in Nat
<1> DEFINE X == ToSet(parts[p])
           D == 1 .. Len(w)
<1>1. Lists(parts[p], X) /\ X \in SUBSET D
  BY DEF Parted
<1>2. w \in [D -> Nat] /\ Len(w) \in Nat
  OBVIOUS
<1>3. IsFiniteSet(D)
  <2> DEFINE n == Len(w)
  <2>1. n \in Nat
    OBVIOUS
  <2> HIDE DEF n
  <2>2. IsFiniteSet(1 .. n)
    BY <2>1, FS_Interval
  <2> QED BY <2>2 DEF n
<1> HIDE DEF X, D
<1>4. \A x \in X : w[x] \in Int
  BY <1>1, <1>2
<1>5. SumOf(parts[p], w) = SumOver(w, X)
  BY <1>1, <1>4, ListsSum DEF SumOver
<1> QED BY <1>1, <1>2, <1>3, <1>5, SumOverNat

\* The weights of groups.
LEMMA GroupWorkIs ==
  ASSUME NEW m \in Nat, NEW w \in Seq(Nat), NEW groups, Parted(groups, m, Len(w))
  PROVE  GroupWork(groups, w) \in Seq(Nat) /\ Len(GroupWork(groups, w)) = m
<1>1. DOMAIN groups = 1 .. m
  BY DEF Parted
<1>2. GroupWork(groups, w) = [g \in 1 .. m |-> SumOf(groups[g], w)]
  BY <1>1 DEF GroupWork
<1>3. \A g \in 1 .. m : SumOf(groups[g], w) \in Nat
  BY PartWork
<1>4. /\ [g \in 1 .. m |-> SumOf(groups[g], w)] \in Seq(Nat)
      /\ Len([g \in 1 .. m |-> SumOf(groups[g], w)]) = m
  BY <1>3
<1> QED BY <1>2, <1>4

\* Exact parts, none empty, in which rows forced together follow each other.
Micro(parts, k, n, size) ==
  Parted(parts, k, n) /\ NoneIsEmpty(parts, k) /\ AllTogether(parts, size)

\* That does not depend on the order of the parts.
LEMMA MicroPermuted ==
  ASSUME NEW k \in Nat, NEW n \in Nat, NEW size, NEW parts, Micro(parts, k, n, size), NEW p,
         IsPermutation(p, k), NEW q, q = [r \in 1 .. k |-> parts[p[r]]]
  PROVE  Micro(q, k, n, size)
<1>1. Parted(q, k, n)
  BY PartedPermuted DEF Micro
<1>2. \A r \in 1 .. k : p[r] \in 1 .. k /\ q[r] = parts[p[r]]
  BY DEF IsPermutation
<1>3. Len(q) = k /\ Len(parts) = k
  BY <1>1 DEF Parted, Micro
<1> QED BY <1>1, <1>2, <1>3 DEF Micro, NoneIsEmpty, AllTogether

\* Groups of size rows.
LEMMA UnitsAre ==
  ASSUME NEW n \in Nat, NEW size \in {1, 2}, n % size = 0
  PROVE  Micro(Units(n, size), n \div size, n, size) /\ n \div size \in Nat
<1> DEFINE m == n \div size
           u == Units(n, size)
           unit(g) == [j \in 1 .. size |-> At(g, size, j)]
<1>1. size \in Nat \ {0} /\ (size = 1 \/ size = 2)
  OBVIOUS
<1>2. m \in Nat /\ Chunked(n, size, m)
  BY <1>1, Chunks
<1>3. u = [g \in 1 .. m |-> unit(g)]
  BY DEF Units, At
<1> HIDE DEF m, u
<1>4. \A g \in 1 .. m : unit(g) \in Seq(1 .. n) /\ Len(unit(g)) = size
  <2> TAKE g \in 1 .. m
  <2>1. \A j \in 1 .. size : At(g, size, j) \in 1 .. n
    BY <1>2 DEF Chunked
  <2>2. [j \in 1 .. size |-> At(g, size, j)] \in Seq(1 .. n)
        /\ Len([j \in 1 .. size |-> At(g, size, j)]) = size
    BY <1>1, <2>1
  <2> QED BY <2>2
<1>5. \A g \in 1 .. m : \A j \in 1 .. size : unit(g)[j] = At(g, size, j)
  OBVIOUS
<1> HIDE DEF unit
<1>6. u \in Seq(Seq(1 .. n)) /\ Len(u) = m
  <2>1. [g \in 1 .. m |-> unit(g)] \in Seq(Seq(1 .. n)) /\ Len([g \in 1 .. m |-> unit(g)]) = m
    BY <1>2, <1>4
  <2> QED BY <1>3, <2>1
<1>7. \A g \in 1 .. m : /\ u[g] \in Seq(1 .. n) /\ Len(u[g]) = size
                        /\ \A j \in 1 .. size : u[g][j] = At(g, size, j)
  BY <1>3, <1>4, <1>5
<1>8. ASSUME NEW g \in 1 .. m PROVE Lists(u[g], ToSet(u[g]))
  <2> DEFINE s == u[g]
             X == ToSet(s)
  <2>1. s \in Seq(1 .. n) /\ Len(s) = size /\ \A j \in 1 .. size : s[j] = At(g, size, j)
    BY <1>7
  <2>2. X = {s[j] : j \in 1 .. size}
    BY <2>1 DEF ToSet
  <2> HIDE DEF s, X
  <2>3. s \in Seq(X)
    <3>1. s = [j \in 1 .. size |-> s[j]]
      BY <2>1
    <3>2. \A j \in 1 .. size : s[j] \in X
      BY <2>2
    <3>3. [j \in 1 .. size |-> s[j]] \in Seq(X)
      BY <1>1, <3>2
    <3> QED BY <3>1, <3>3
  <2>4. \A i, j \in 1 .. size : s[i] = s[j] => i = j
    BY <1>2, <2>1 DEF Chunked
  <2>5. \A x \in X : \E i \in 1 .. size : s[i] = x
    BY <2>2
  <2>6. Lists(s, X)
    BY <2>1, <2>3, <2>4, <2>5 DEF Lists
  <2> QED BY <2>6 DEF s, X
<1>9. \A g \in 1 .. m : \A x : x \in ToSet(u[g]) <=> \E j \in 1 .. size : x = At(g, size, j)
  BY <1>7 DEF ToSet
<1>10. ASSUME NEW g \in 1 .. m, NEW h \in 1 .. m, g # h PROVE ToSet(u[g]) \cap ToSet(u[h]) = {}
  <2> SUFFICES ASSUME NEW x, x \in ToSet(u[g]), x \in ToSet(u[h]) PROVE FALSE
    OBVIOUS
  <2>1. PICK i \in 1 .. size : x = At(g, size, i)
    BY <1>9
  <2>2. PICK j \in 1 .. size : x = At(h, size, j)
    BY <1>9
  <2>3. At(g, size, i) = At(h, size, j) => g = h
    <3>1. Chunked(n, size, m)
      BY <1>2
    <3> QED BY ONLY <3>1, g \in 1 .. m, h \in 1 .. m, i \in 1 .. size, j \in 1 .. size DEF Chunked
  <2> QED BY <1>10, <2>1, <2>2, <2>3
<1>11. UNION {ToSet(u[g]) : g \in 1 .. m} = 1 .. n
  <2> DEFINE U == UNION {ToSet(u[g]) : g \in 1 .. m}
  <2>1. ASSUME NEW x \in U PROVE x \in 1 .. n
    <3>1. PICK g \in 1 .. m : x \in ToSet(u[g])
      OBVIOUS
    <3>2. PICK j \in 1 .. size : x = At(g, size, j)
      BY <1>9, <3>1
    <3> QED BY <1>2, <3>2 DEF Chunked
  <2>2. ASSUME NEW x \in 1 .. n PROVE x \in U
    <3>1. PICK g \in 1 .. m, j \in 1 .. size : x = At(g, size, j)
      BY <1>2 DEF Chunked
    <3>2. x \in ToSet(u[g])
      BY <1>9, <3>1
    <3> QED BY <3>2
  <2> QED BY <2>1, <2>2
<1>12. Parted(u, m, n)
  BY <1>6, <1>8, <1>10, <1>11 DEF Parted
<1>13. NoneIsEmpty(u, m)
  BY <1>1, <1>7 DEF NoneIsEmpty
<1>14. ASSUME NEW g \in 1 .. m, NEW x \in 1 .. size, u[g][x] % size = 1
       PROVE  x + 1 \in 1 .. size /\ u[g][x + 1] = u[g][x] + 1
  <2>1. u[g][x] = (g - 1) * size + x
    BY <1>7 DEF At
  <2>2. size = 2
    <3>1. CASE size = 1
      <4> DEFINE a == u[g][x]
      <4>1. a \in Int /\ a % size = 1
        BY <1>7, <1>14
      <4> HIDE DEF a
      <4>2. a % size \in 0 .. size - 1
        BY <1>1, <4>1, DivMod
      <4> QED BY <3>1, <4>1, <4>2
    <3> QED BY <1>1, <3>1
  <2>3. x = 1
    <3>1. ((g - 1) * 2 + x) % 2 = 1 /\ (x = 1 \/ x = 2)
      BY <1>14, <2>1, <2>2
    <3>2. g - 1 \in Int
      OBVIOUS
    <3> QED BY <3>1, <3>2
  <2>4. x + 1 = 2 /\ x + 1 \in 1 .. size
    BY <2>2, <2>3
  <2>5. u[g][x + 1] = (g - 1) * size + (x + 1)
    BY <1>7, <2>4 DEF At
  <2>6. (g - 1) * size + (x + 1) = (g - 1) * size + x + 1
    BY <2>2
  <2> QED BY <2>1, <2>4, <2>5, <2>6
<1>15. AllTogether(u, size)
  BY <1>6, <1>7, <1>14 DEF AllTogether, Together
<1> QED BY <1>2, <1>12, <1>13, <1>15 DEF Micro, u, m

\* Parts made of groups keep what the groups keep together.
LEMMA GroupsTogether ==
  ASSUME NEW k \in Nat, NEW m \in Nat, NEW n \in Nat, NEW size, NEW groups,
         Micro(groups, m, n, size), NEW parts, Parted(parts, k, m), NoneIsEmpty(parts, k)
  PROVE  Micro(RowsOfParts(parts, groups), k, n, size)
<1> DEFINE rows == RowsOfParts(parts, groups)
<1>1. /\ Parted(groups, m, n) /\ NoneIsEmpty(groups, m) /\ AllTogether(groups, size)
      /\ groups \in Seq(Seq(1 .. n)) /\ Len(groups) = m
  BY DEF Micro, Parted
<1>2. /\ Parted(rows, k, n) /\ Unfolds(rows, parts, groups, k)
      /\ \A p \in 1 .. k : rows[p] = RowsInTurn(parts[p], groups)
  BY <1>1, RowsOfPartsIs
<1> HIDE DEF rows
<1>3. NoneIsEmpty(rows, k)
  BY <1>1, <1>2, RowsNotEmpty
<1>4. ASSUME NEW p \in 1 .. k PROVE Together(rows[p], size)
  <2> DEFINE part == parts[p]
             L == Len(part)
             ss == [g \in 1 .. L |-> groups[part[g]]]
  <2>1. part \in Seq(1 .. m)
    BY DEF Parted
  <2>2. L \in Nat /\ DOMAIN part = 1 .. L /\ \A g \in 1 .. L : part[g] \in 1 .. m
    BY <2>1
  <2>3. rows[p] = FlattenSeq(ss)
    BY <1>2, <2>2 DEF RowsInTurn
  <2> HIDE DEF part, L
  <2>4. \A g \in 1 .. L : groups[part[g]] \in Seq(1 .. n)
    BY <1>1, <2>2
  <2>5. [g \in 1 .. L |-> groups[part[g]]] \in Seq(Seq(1 .. n))
        /\ Len([g \in 1 .. L |-> groups[part[g]]]) = L
    BY <2>2, <2>4
  <2>6. \A g \in 1 .. L : ss[g] = groups[part[g]]
    OBVIOUS
  <2> HIDE DEF ss
  <2>7. ss \in Seq(Seq(1 .. n)) /\ Len(ss) = L
    BY <2>5 DEF ss
  <2>8. AllTogether(ss, size)
    BY <1>1, <2>2, <2>6, <2>7 DEF AllTogether
  <2>9. Together(FlattenSeq(ss), size)
    BY <2>7, <2>8, FlatTogether
  <2> QED BY <2>3, <2>9
<1>5. Len(rows) = k
  BY <1>2 DEF Parted
<1> QED BY <1>2, <1>3, <1>4, <1>5 DEF Micro, AllTogether, rows

\* The heaviest first.
LEMMA HeaviestFirstIs ==
  ASSUME NEW k \in Nat, NEW w \in Seq(Nat), NEW size, NEW parts,
         Micro(parts, k, Len(w), size)
  PROVE  Micro(HeaviestFirst(parts, w), k, Len(w), size)
<1> DEFINE n == Len(w)
           Heavier(a, b) == \/ SumOf(a, w) > SumOf(b, w)
                            \/ SumOf(a, w) = SumOf(b, w) /\ a[1] > b[1]
           less == {p \in Positions(parts) : Heavier(parts[p[1]], parts[p[2]])}
           key == [i \in 1 .. k |-> 0 - SumOf(parts[i], w)]
           tie == [i \in 1 .. k |-> 0 - parts[i][1]]
<1>1. /\ Parted(parts, k, n) /\ parts \in Seq(Seq(1 .. n)) /\ Len(parts) = k
      /\ DOMAIN parts = 1 .. k /\ NoneIsEmpty(parts, k)
  BY DEF Micro, Parted
<1>2. HeaviestFirst(parts, w) = SortedBy(parts, less)
  BY DEF HeaviestFirst
<1>3. \A i \in 1 .. k : SumOf(parts[i], w) \in Nat /\ parts[i][1] \in Nat
  <2> TAKE i \in 1 .. k
  <2>1. SumOf(parts[i], w) \in Nat
    BY <1>1, PartWork
  <2>2. parts[i] \in Seq(1 .. n) /\ Len(parts[i]) >= 1
    BY <1>1 DEF NoneIsEmpty
  <2>3. parts[i][1] \in 1 .. n
    BY <2>2
  <2> QED BY <2>1, <2>3
<1>4. \A i, j \in 1 .. k : <<i, j>> \in less <=> Heavier(parts[i], parts[j])
  <2> TAKE i, j \in 1 .. k
  <2>1. <<i, j>> \in Positions(parts)
    BY <1>1 DEF Positions
  <2> QED BY <2>1
<1> HIDE DEF less
<1>5. \A i \in 1 .. k : key[i] = 0 - SumOf(parts[i], w) /\ tie[i] = 0 - parts[i][1]
  OBVIOUS
<1> HIDE DEF key, tie
<1>6. (\A i \in 1 .. k : key[i] \in Int) /\ \A i \in 1 .. k : tie[i] \in Int
  <2>1. ASSUME NEW i \in 1 .. k PROVE key[i] \in Int
    BY <1>3, <1>5
  <2>2. ASSUME NEW i \in 1 .. k PROVE tie[i] \in Int
    <3> DEFINE a == parts[i][1]
    <3>1. a \in Nat /\ tie[i] = 0 - a
      BY <1>3, <1>5
    <3> HIDE DEF a
    <3> QED BY <3>1
  <2> QED BY <2>1, <2>2
<1>7. ASSUME NEW i \in 1 .. k, NEW j \in 1 .. k
      PROVE  <<i, j>> \in less <=> key[i] < key[j] \/ (key[i] = key[j] /\ tie[i] < tie[j])
  <2> DEFINE a == SumOf(parts[i], w)
             b == SumOf(parts[j], w)
             c == parts[i][1]
             d == parts[j][1]
  <2>1. a \in Nat /\ b \in Nat /\ c \in Nat /\ d \in Nat
    BY <1>3
  <2>2. <<i, j>> \in less <=> a > b \/ (a = b /\ c > d)
    BY <1>4
  <2>3. key[i] = 0 - a /\ key[j] = 0 - b /\ tie[i] = 0 - c /\ tie[j] = 0 - d
    BY <1>5
  <2> HIDE DEF a, b, c, d
  <2> QED BY <2>1, <2>2, <2>3
<1>8. Compares(less, 1 .. k)
  BY <1>6, <1>7, ByKeys
<1>9. PICK p : /\ IsPermutation(p, k)
               /\ SortedBy(parts, less) = [r \in 1 .. k |-> parts[p[r]]]
  <2> DEFINE T == Seq(1 .. n)
  <2>1. parts \in Seq(T) /\ Compares(less, 1 .. Len(parts)) /\ Len(parts) = k
    BY <1>1, <1>8
  <2> HIDE DEF T
  <2>2. \E p : /\ IsPermutation(p, Len(parts))
               /\ SortedBy(parts, less) = [r \in 1 .. Len(parts) |-> parts[p[r]]]
    BY <2>1, Sorted
  <2> QED BY <2>1, <2>2
<1>10. Micro([r \in 1 .. k |-> parts[p[r]]], k, n, size)
  <2>1. n \in Nat
    OBVIOUS
  <2> QED BY <1>9, <2>1, MicroPermuted
<1> QED BY <1>2, <1>9, <1>10

\* The workloads of some lengths.
LEMMA WorkloadsAre ==
  ASSUME NEW w \in Seq(Nat)
  PROVE  Workloads(w) \in Seq(Nat) /\ Len(Workloads(w)) = Len(w)
<1> DEFINE n == Len(w)
<1>1. n \in Nat /\ DOMAIN w = 1 .. n /\ \A i \in 1 .. n : w[i] \in Nat
  OBVIOUS
<1>2. \A a \in Nat : Workload(a) \in Nat
  BY DEF Workload
<1>3. Workloads(w) = [i \in 1 .. n |-> Workload(w[i])]
  BY <1>1 DEF Workloads
<1> HIDE DEF n
<1>4. \A i \in 1 .. n : Workload(w[i]) \in Nat
  BY <1>1, <1>2
<1>5. [i \in 1 .. n |-> Workload(w[i])] \in Seq(Nat)
      /\ Len([i \in 1 .. n |-> Workload(w[i])]) = n
  BY <1>1, <1>4
<1> QED BY <1>3, <1>5 DEF n

\* Balanced parts of groups.
LEMMA GroupsBalanced ==
  ASSUME NEW m \in Nat, NEW w \in Seq(Nat), NEW groups, Parted(groups, m, Len(w)), NEW k,
         NEW even \in BOOLEAN, CanPartition(GroupWork(groups, w), k, even)
  PROVE  /\ k \in 1 .. m
         /\ Parted(BalancedPartitions(GroupWork(groups, w), k, even), k, m)
         /\ Sized(BalancedPartitions(GroupWork(groups, w), k, even), k, m, even)
<1> DEFINE g == GroupWork(groups, w)
           sorted == [i \in DOMAIN SortedRows(g) |-> g[SortedRows(g)[i]]]
           d == Max(Dealt(sorted, k, even))
<1>1. g \in Seq(Nat) /\ Len(g) = m
  BY GroupWorkIs
<1>2. CanPartition(g, k, even)
  OBVIOUS
<1>3. k \in 1 .. m
  BY <1>1, <1>2 DEF CanPartition
<1> HIDE DEF g
<1>4. d \in Int /\ Bounds(g, k, even, d)
  BY <1>1, <1>2, DealtBounds
<1> HIDE DEF d
<1>5. /\ Parted(BalancedPartitions(g, k, even), k, m)
      /\ Sized(BalancedPartitions(g, k, even), k, m, even)
  BY <1>1, <1>2, <1>4, BalancedIs
<1> QED BY <1>3, <1>5 DEF g

\* The micro-batches part the rows, none is empty, and units stay together.
LEMMA MicroBatchesAre ==
  ASSUME NEW w \in Seq(Nat), NEW size \in {1, 2}, Len(w) % size = 0,
         NEW num \in Nat \ {0}, num <= Len(w) \div size
  PROVE  Micro(MicroBatches(w, size, num), num, Len(w), size)
<1> DEFINE n == Len(w)
           m == n \div size
           u == Units(n, size)
           work == Workloads(w)
           parts == BalancedPartitions(GroupWork(u, work), num, FALSE)
           rows == RowsOfParts(parts, u)
           first == HeaviestFirst(rows, work)
<1>1. MicroBatches(w, size, num) = InsideOut(first)
  BY DEF MicroBatches, MicroBatchesOf
<1>2. n \in Nat /\ work \in Seq(Nat) /\ Len(work) = n
  BY WorkloadsAre
<1>3. Micro(u, m, n, size) /\ m \in Nat
  BY <1>2, UnitsAre
<1>4. num <= m
  OBVIOUS
<1> HIDE DEF n, m, u, work
<1>5. Parted(u, m, Len(work))
  BY <1>2, <1>3 DEF Micro
<1>6. CanPartition(GroupWork(u, work), num, FALSE)
  <2>1. Len(GroupWork(u, work)) = m
    BY <1>2, <1>3, <1>5, GroupWorkIs
  <2>2. num \in 1 .. m
    BY <1>3, <1>4
  <2> QED BY <2>1, <2>2 DEF CanPartition
<1>7. Parted(parts, num, m) /\ Sized(parts, num, m, FALSE)
  BY <1>2, <1>3, <1>5, <1>6, GroupsBalanced
<1> HIDE DEF parts
<1>8. NoneIsEmpty(parts, num)
  BY <1>7 DEF Sized, NoneIsEmpty
<1>9. Micro(rows, num, n, size)
  BY <1>2, <1>3, <1>7, <1>8, GroupsTogether
<1> HIDE DEF rows
<1>10. Micro(first, num, Len(work), size)
  BY <1>2, <1>9, HeaviestFirstIs
<1> HIDE DEF first
<1>11. first \in Seq(Seq(1 .. n)) /\ Len(first) = num
  BY <1>2, <1>10 DEF Micro, Parted
<1>12. InsideOut(first) = [r \in 1 .. num |-> first[Inward(num)[r]]]
  <2> DEFINE T == Seq(1 .. n)
  <2>1. first \in Seq(T)
    BY <1>11
  <2> HIDE DEF T
  <2>2. InsideOut(first) = [r \in 1 .. Len(first) |-> first[Inward(Len(first))[r]]]
    BY <2>1, InsideOutIs
  <2> QED BY <1>11, <2>2
<1>13. Micro([r \in 1 .. num |-> first[Inward(num)[r]]], num, n, size)
  BY <1>2, <1>10, InwardPermutes, MicroPermuted
<1> QED BY <1>1, <1>12, <1>13 DEF n

\* A permutation and its inverse.
LEMMA Restored ==
  ASSUME NEW n \in Nat, NEW micro, NEW idx, idx = FlattenSeq(micro), Lists(idx, 1 .. n)
  PROVE  Len(idx) = n /\ RestoreDynamicBatch(idx, micro) = [j \in 1 .. n |-> j]
<1>1. idx \in Seq(1 .. n) /\ \A x \in 1 .. n : \E i \in 1 .. Len(idx) : idx[i] = x
  BY DEF Lists
<1>2. Len(idx) = n
  <2> DEFINE D == 1 .. n
  <2>1. Lists(idx, D) /\ Cardinality(D) = n
    BY FS_Interval
  <2> HIDE DEF D
  <2> QED BY <2>1, ListsCount
<1>3. DOMAIN idx = 1 .. n
  BY <1>1, <1>2
<1>4. ReverseIdx(idx) = [j \in 1 .. n |-> CHOOSE i \in 1 .. n : idx[i] = j]
  BY <1>3 DEF ReverseIdx
<1>5. \A j \in 1 .. n : idx[ReverseIdx(idx)[j]] = j
  <2> TAKE j \in 1 .. n
  <2>1. \E i \in 1 .. n : idx[i] = j
    BY <1>1, <1>2
  <2> DEFINE c == CHOOSE i \in 1 .. n : idx[i] = j
  <2>2. idx[c] = j
    BY <2>1, Zenon
  <2>3. ReverseIdx(idx)[j] = c
    BY <1>4
  <2> QED BY <2>2, <2>3
<1>6. RestoreDynamicBatch(idx, micro) = [j \in 1 .. n |-> idx[ReverseIdx(idx)[j]]]
  BY <1>3 DEF RestoreDynamicBatch, Permuted
<1> HIDE DEF RestoreDynamicBatch
<1>7. [j \in 1 .. n |-> idx[ReverseIdx(idx)[j]]] = [j \in 1 .. n |-> j]
  BY <1>5
<1> QED BY <1>2, <1>6, <1>7

\* Two numbers are a finite set.
LEMMA Pairs ==
  ASSUME NEW a, NEW b
  PROVE  IsFiniteSet({a, b})
<1>1. IsFiniteSet({}) /\ {a} = {} \cup {a} /\ {a, b} = {a} \cup {b}
  BY FS_EmptySet
<1>2. IsFiniteSet({a})
  BY <1>1, FS_AddElement
<1> QED BY <1>1, <1>2, FS_AddElement

\* At least one micro-batch is asked for.
LEMMA SomeMicroBatch ==
  ASSUME NEW w \in Seq(Nat), NEW limit \in Nat \ {0}, NEW size \in {1, 2},
         NEW atLeast \in 1 .. 3, NEW by \in {1, 2}
  PROVE  NumMicroBatches(w, limit, size, atLeast, by) \in Nat \ {0}
<1> DEFINE n == Len(w)
           total == SumFunction(w)
           own == Min({n \div size, CeilDiv(total, limit)})
           more == Max({own, atLeast})
<1>1. NumMicroBatches(w, limit, size, atLeast, by) = CeilDiv(more, by) * by
  BY DEF NumMicroBatches, RoundupDivisible
<1>2. n \in Nat /\ w \in [1 .. n -> Int]
  OBVIOUS
<1> HIDE DEF n
<1>3. total \in Int
  <2> DEFINE D == 1 .. n
  <2>1. IsFiniteSet(D) /\ w \in [D -> Int] /\ D \in SUBSET D
    BY <1>2, FS_Interval
  <2> HIDE DEF D
  <2>2. SumOver(w, D) \in Int /\ SumOver(w, D) = SumFunction(w)
    BY <2>1, SumOverType, SumOverAll
  <2> QED BY <2>2
<1> HIDE DEF total
<1>4. own \in Int
  <2> DEFINE a == n \div size
             b == CeilDiv(total, limit)
             S == {a, b}
  <2>1. a \in Int
    <3>1. size \in Nat \ {0}
      OBVIOUS
    <3> QED BY <1>2, <3>1, DivPos
  <2>2. b \in Int
    <3>1. total + limit - 1 \in Int
      BY <1>3
    <3> QED BY <3>1, DivMod DEF CeilDiv
  <2> HIDE DEF a, b
  <2>3. S \in SUBSET Int /\ S # {} /\ IsFiniteSet(S)
    BY <2>1, <2>2, Pairs
  <2> HIDE DEF S
  <2>4. Min(S) \in S
    BY <2>3, MinOf
  <2>5. Min(S) \in Int
    BY <2>3, <2>4
  <2> QED BY <2>5 DEF S, a, b
<1> HIDE DEF own
<1>5. more \in Nat \ {0}
  <2> DEFINE S == {own, atLeast}
  <2>0. atLeast \in Int
    OBVIOUS
  <2>1. S \in SUBSET Int /\ S # {} /\ atLeast \in S
    BY <1>4, <2>0
  <2>a. IsFiniteSet(S)
    BY Pairs
  <2> HIDE DEF S
  <2>2. Max(S) \in S /\ atLeast <= Max(S)
    BY <2>1, <2>a, MaxOf
  <2>3. Max(S) \in Int
    BY <2>1, <2>2
  <2> DEFINE M == Max(S)
  <2> HIDE DEF M
  <2>4. M \in Int /\ atLeast <= M
    BY <2>2, <2>3 DEF M
  <2>5. M \in Nat \ {0}
    BY <2>4
  <2> QED BY <2>5 DEF M, S
<1> HIDE DEF more
<1>6. CeilDiv(more, by) * by \in Nat \ {0}
  <2>1. CASE by = 1
    BY <1>5, <2>1 DEF CeilDiv
  <2>2. CASE by = 2
    BY <1>5, <2>2 DEF CeilDiv
  <2> QED BY <2>1, <2>2
<1> QED BY <1>1, <1>6

\* In every state, for every number of micro-batches the code comes to.
LEMMA AreRestored ==
  ASSUME InputsOK
  PROVE  MicroBatchesRestore
<1> DEFINE n == Len(lengths)
<1>1. lengths \in Seq(Nat)
  <2>1. 0 .. MaxLength \subseteq Nat /\ lengths \in Seq(0 .. MaxLength)
    BY InputAssumption DEF InputsOK
  <2> DEFINE D == 0 .. MaxLength
  <2>2. D \subseteq Nat /\ lengths \in Seq(D)
    BY <2>1
  <2>3. lengths \in Seq(Nat)
    BY ONLY <2>2, SeqWiden
  <2> QED BY <2>3
<1>2. n \in Nat /\ DOMAIN lengths = 1 .. n
  BY <1>1
<1>3. MaxLength \in Nat \ {0}
  BY InputAssumption
<1> SUFFICES ASSUME NEW size \in {1, 2}, NEW num,
                    num \in {NumMicroBatches(lengths, MaxLength, size, atLeast, dividedBy) :
                               atLeast \in 1 .. 3, dividedBy \in {1, 2}},
                    n % size = 0, num <= n \div size,
                    NEW micro, micro = MicroBatches(lengths, size, num),
                    NEW outputs, outputs = FlattenSeq(micro)
             PROVE  /\ Len(micro) = num /\ IsPartition(micro, n)
                    /\ \A m \in 1 .. num : micro[m] # <<>>
                    /\ RestoreDynamicBatch(outputs, micro) = [i \in DOMAIN lengths |-> i]
                    /\ \A j \in 1 .. n - 1 :
                         outputs[j] % size = 1 => outputs[j + 1] = outputs[j] + 1
  BY SMTT(20) DEF MicroBatchesRestore
<1>4. PICK atLeast \in 1 .. 3, by \in {1, 2} :
        num = NumMicroBatches(lengths, MaxLength, size, atLeast, by)
  OBVIOUS
<1>5. num \in Nat \ {0}
  BY <1>1, <1>3, <1>4, SomeMicroBatch
<1>6. Micro(micro, num, n, size)
  BY <1>1, <1>5, MicroBatchesAre
<1>7. /\ Parted(micro, num, n) /\ NoneIsEmpty(micro, num) /\ AllTogether(micro, size)
      /\ micro \in Seq(Seq(1 .. n)) /\ Len(micro) = num
  BY <1>6 DEF Micro, Parted
<1> HIDE DEF n
<1>8. Lists(outputs, 1 .. n) /\ IsPartition(micro, n)
  BY <1>2, <1>5, <1>7, PartedFlat
<1>9. Len(outputs) = n /\ RestoreDynamicBatch(outputs, micro) = [j \in 1 .. n |-> j]
  BY <1>2, <1>8, Restored
<1>10. ASSUME NEW m \in 1 .. num PROVE micro[m] # <<>>
  <2>1. Len(micro[m]) >= 1
    BY <1>7 DEF NoneIsEmpty
  <2>2. Len(<<>>) = 0
    OBVIOUS
  <2> QED BY <2>1, <2>2
<1>11. Together(outputs, size)
  BY <1>7, FlatTogether
<1>12. ASSUME NEW j \in 1 .. n - 1, outputs[j] % size = 1 PROVE outputs[j + 1] = outputs[j] + 1
  <2>1. j \in 1 .. Len(outputs)
    BY <1>2, <1>9
  <2> QED BY <1>11, <1>12, <2>1 DEF Together
<1> QED BY <1>2, <1>7, <1>8, <1>9, <1>10, <1>12 DEF n

\* Whatever the lengths and the limits on a micro-batch: dynamic batching makes
\* an exact partition into micro-batches none of which is empty, the rows of a
\* unit are next to each other in one of them, and restore_dynamic_batch gives
\* the outputs back in the order of the batch.
THEOREM MicroBatchesComeBack == Spec => []MicroBatchesRestore
<1>1. InputsOK => MicroBatchesRestore
  BY AreRestored
<1> QED BY <1>1, InputsTyped, PTL

-----------------------------------------------------------------------------
(* Batches: cut, padded and put together again.                            *)

\* Steps of one size.
StepsBy(off, a, n, c) == off[a] \in Nat /\ \A i \in a .. n : off[i + 1] = off[i] + c
Stepped(off, a, n, c) == \A i \in a .. n + 1 : off[i] = off[a] + (i - a) * c

\* Offsets that grow by c are multiples of it.
LEMMA EvenSteps ==
  ASSUME NEW n \in Nat, NEW a \in Nat, NEW c \in Nat, NEW off, StepsBy(off, a, n, c)
  PROVE  Stepped(off, a, n, c)
<1>0. off[a] \in Nat /\ \A i \in a .. n : off[i + 1] = off[i] + c
  BY DEF StepsBy
<1> DEFINE P == {j \in Nat : a + j <= n + 1 => off[a + j] = off[a] + j * c}
<1>1. 0 \in P
  BY <1>0
<1>2. ASSUME NEW j \in Nat, j \in P PROVE j + 1 \in P
  <2> SUFFICES ASSUME a + (j + 1) <= n + 1 PROVE off[a + (j + 1)] = off[a] + (j + 1) * c
    OBVIOUS
  <2>1. off[a + j] = off[a] + j * c
    BY <1>2
  <2>2. a + j \in a .. n /\ (a + j) + 1 = a + (j + 1)
    OBVIOUS
  <2>3. off[a + (j + 1)] = off[a + j] + c
    BY <1>0, <2>2
  <2>4. (j + 1) * c = j * c + c /\ j * c \in Nat
    OBVIOUS
  <2> DEFINE jc == j * c
             kc == (j + 1) * c
             x == off[a]
  <2>5. x \in Nat /\ jc \in Nat /\ kc = jc + c
    BY <1>0, <2>4
  <2> HIDE DEF jc, kc, x
  <2>6. x + jc + c = x + kc
    BY <2>5
  <2> QED BY <2>1, <2>3, <2>6 DEF jc, kc, x
<1> HIDE DEF P
<1>3. Nat \subseteq P
  BY <1>1, <1>2, NumberInduction
<1> SUFFICES ASSUME NEW i \in a .. n + 1 PROVE off[i] = off[a] + (i - a) * c
  BY DEF Stepped
<1>4. i - a \in P /\ a + (i - a) = i /\ i <= n + 1
  BY <1>3
<1> QED BY <1>4 DEF P

\* A concatenation begins with the first.
Leads(s, f) == Len(s) <= Len(f) /\ \A j \in 1 .. Len(s) : f[j] = s[j]

\* The first sequence leads the concatenation.
LEMMA FlatLeads ==
  ASSUME NEW S, NEW ss \in Seq(Seq(S)), Len(ss) >= 1
  PROVE  Leads(ss[1], FlattenSeq(ss))
<1> DEFINE f == FlattenSeq(ss)
           n == Len(ss)
<1>1. PICK off : IsFlat(ss, n, f, off)
  BY Flat
<1>2. n \in Nat /\ 1 \in 1 .. n
  OBVIOUS
<1>3. off[1] = 0 /\ ss[1] \in Seq(S)
  BY <1>1, <1>2 DEF IsFlat
<1>4. \A j \in 1 .. Len(ss[1]) : f[0 + j] = ss[1][j] /\ 0 + j \in 1 .. Len(f)
  <2> TAKE j \in 1 .. Len(ss[1])
  <2>1. f[off[1] + j] = ss[1][j] /\ off[1] + j \in 1 .. Len(f)
    <3> HIDE DEF f
    <3> QED BY <1>1, <1>2, FlatWithin
  <2> QED BY <1>3, <2>1
<1>5. Len(f) \in Nat
  BY Flat
<1> HIDE DEF f, n
<1>6. Len(ss[1]) \in Nat
  BY <1>3
<1> DEFINE l == Len(ss[1])
<1>7. l <= Len(f)
  <2>1. CASE l = 0
    BY <1>5, <2>1
  <2>2. CASE l # 0
    <3>1. l \in 1 .. l
      BY <1>6, <2>2
    <3>2. 0 + l \in 1 .. Len(f)
      BY <1>4, <3>1
    <3> QED BY <1>5, <1>6, <3>2
  <2> QED BY <2>1, <2>2
<1>8. \A j \in 1 .. l : f[j] = ss[1][j]
  <2> TAKE j \in 1 .. l
  <2>1. 0 + j = j
    OBVIOUS
  <2> QED BY <1>4, <2>1
<1> QED BY <1>7, <1>8 DEF Leads, f

\* Pieces of one length.
LEMMA FlatEven ==
  ASSUME NEW S, NEW ss \in Seq(Seq(S)), NEW n \in Nat, Len(ss) = n, NEW c \in Nat,
         \A i \in 1 .. n : Len(ss[i]) = c
  PROVE  /\ FlattenSeq(ss) \in Seq(S) /\ Len(FlattenSeq(ss)) = n * c
         /\ \A i \in 1 .. n : \A j \in 1 .. c : FlattenSeq(ss)[At(i, c, j)] = ss[i][j]
<1> DEFINE f == FlattenSeq(ss)
<1>1. PICK off : IsFlat(ss, n, f, off)
  BY Flat
<1>2. f \in Seq(S)
  BY Flat
<1> HIDE DEF f
<1>3. off[1] = 0 /\ Len(f) = off[n + 1] /\ \A i \in 1 .. n : off[i + 1] = off[i] + c
  BY <1>1 DEF IsFlat
<1>4. \A i \in 1 .. n + 1 : off[i] = off[1] + (i - 1) * c
  <2>1. StepsBy(off, 1, n, c)
    BY <1>3 DEF StepsBy
  <2> QED BY <2>1, EvenSteps DEF Stepped
<1>5. \A i \in 1 .. n + 1 : off[i] = (i - 1) * c
  <2> TAKE i \in 1 .. n + 1
  <2>1. off[i] = 0 + (i - 1) * c
    BY <1>3, <1>4
  <2>2. (i - 1) * c \in Nat
    <3>1. i - 1 \in Nat
      OBVIOUS
    <3> QED BY <3>1
  <2> QED BY <2>1, <2>2
<1>6. Len(f) = n * c
  <2>1. n + 1 \in 1 .. n + 1 /\ (n + 1) - 1 = n
    OBVIOUS
  <2> QED BY <1>3, <1>5, <2>1
<1>7. ASSUME NEW i \in 1 .. n, NEW j \in 1 .. c PROVE f[At(i, c, j)] = ss[i][j]
  <2>1. j \in 1 .. Len(ss[i]) /\ i \in 1 .. n + 1
    OBVIOUS
  <2>2. f[off[i] + j] = ss[i][j]
    BY <1>1, <2>1 DEF IsFlat
  <2> QED BY <1>5, <2>1, <2>2 DEF At
<1> QED BY <1>2, <1>6, <1>7 DEF f

\* The length with single elements added, and with whole copies and a rest.
LEMMA FlatSingles ==
  ASSUME NEW S, NEW ss \in Seq(Seq(S)), NEW n \in Nat, Len(ss) = 1 + n, NEW r \in Nat,
         Len(ss[1]) = r, \A i \in 2 .. 1 + n : Len(ss[i]) = 1
  PROVE  FlattenSeq(ss) \in Seq(S) /\ Len(FlattenSeq(ss)) = r + n
<1> DEFINE f == FlattenSeq(ss)
<1>1. PICK off : IsFlat(ss, 1 + n, f, off)
  BY Flat
<1>2. f \in Seq(S)
  BY Flat
<1> HIDE DEF f
<1>3. /\ off[1] = 0 /\ Len(f) = off[(1 + n) + 1]
      /\ \A i \in 1 .. 1 + n : off[i + 1] = off[i] + Len(ss[i])
  BY <1>1 DEF IsFlat
<1>4. off[2] = r
  <2>1. 1 \in 1 .. 1 + n /\ 1 + 1 = 2
    OBVIOUS
  <2>2. off[2] = off[1] + Len(ss[1])
    BY <1>3, <2>1
  <2> QED BY <1>3, <2>2
<1>5. \A i \in 2 .. 1 + n : off[i + 1] = off[i] + 1
  <2> TAKE i \in 2 .. 1 + n
  <2>1. i \in 1 .. 1 + n /\ Len(ss[i]) = 1
    OBVIOUS
  <2>2. off[i + 1] = off[i] + Len(ss[i])
    BY <1>3, <2>1
  <2> QED BY <2>1, <2>2
<1>6. \A i \in 2 .. (1 + n) + 1 : off[i] = off[2] + (i - 2) * 1
  <2>1. StepsBy(off, 2, 1 + n, 1) /\ 1 + n \in Nat
    BY <1>4, <1>5 DEF StepsBy
  <2> QED BY <2>1, EvenSteps DEF Stepped
<1>7. (1 + n) + 1 \in 2 .. (1 + n) + 1 /\ (((1 + n) + 1) - 2) * 1 = n
  OBVIOUS
<1>8. Len(f) = r + n
  BY <1>3, <1>4, <1>6, <1>7
<1> QED BY <1>2, <1>8 DEF f

\* Copies of one length and a last sequence of another: the length of all.
LEMMA FlatCopies ==
  ASSUME NEW S, NEW ss \in Seq(Seq(S)), NEW n \in Nat, Len(ss) = n + 2, NEW c \in Nat,
         \A i \in 1 .. n + 1 : Len(ss[i]) = c, NEW d \in Nat, Len(ss[n + 2]) = d
  PROVE  FlattenSeq(ss) \in Seq(S) /\ Len(FlattenSeq(ss)) = c + (n * c + d)
<1> DEFINE f == FlattenSeq(ss)
<1>1. PICK off : IsFlat(ss, n + 2, f, off)
  BY Flat
<1>2. f \in Seq(S)
  BY Flat
<1> HIDE DEF f
<1>3. /\ off[1] = 0 /\ Len(f) = off[(n + 2) + 1]
      /\ \A i \in 1 .. n + 2 : off[i + 1] = off[i] + Len(ss[i])
  BY <1>1 DEF IsFlat
<1>4. \A i \in 1 .. n + 1 : off[i + 1] = off[i] + c
  BY <1>3
<1>5. \A i \in 1 .. (n + 1) + 1 : off[i] = off[1] + (i - 1) * c
  <2>1. StepsBy(off, 1, n + 1, c) /\ n + 1 \in Nat
    BY <1>3, <1>4 DEF StepsBy
  <2> QED BY <2>1, EvenSteps DEF Stepped
<1>6. off[n + 2] = (n + 1) * c
  <2>1. n + 2 \in 1 .. (n + 1) + 1 /\ (n + 2) - 1 = n + 1
    OBVIOUS
  <2>2. off[n + 2] = off[1] + (n + 1) * c
    BY <1>5, <2>1
  <2>3. (n + 1) * c \in Nat
    OBVIOUS
  <2> QED BY <1>3, <2>2, <2>3
<1>7. Len(f) = (n + 1) * c + d
  <2>1. n + 2 \in 1 .. n + 2
    OBVIOUS
  <2> QED BY <1>3, <1>6, <2>1
<1>8. (n + 1) * c + d = c + (n * c + d)
  <2>1. (n + 1) * c = n * c + c
    OBVIOUS
  <2> DEFINE x == n * c
             y == (n + 1) * c
  <2>2. x \in Nat /\ y = x + c
    BY <2>1
  <2> HIDE DEF x, y
  <2>3. y + d = c + (x + d)
    BY <2>2
  <2> QED BY <2>3 DEF x, y
<1> QED BY <1>2, <1>7, <1>8 DEF f

\* A piece of a sequence.
LEMMA Cut ==
  ASSUME NEW S, NEW s \in Seq(S), NEW a \in Nat, NEW b \in Nat, a + b <= Len(s)
  PROVE  /\ SubSeq(s, a + 1, a + b) \in Seq(S) /\ Len(SubSeq(s, a + 1, a + b)) = b
         /\ \A j \in 1 .. b : SubSeq(s, a + 1, a + b)[j] = s[a + j]
<1> DEFINE m == a + 1
           n == a + b
           t == SubSeq(s, m, n)
<1>1. /\ m \in Int /\ n \in Int /\ n - m + 1 = b /\ (m <= n <=> b # 0)
      /\ \A j \in 1 .. b : m + j - 1 = a + j
      /\ \A i \in m .. n : i \in 1 .. Len(s)
  OBVIOUS
<1>2. \A i \in m .. n : s[i] \in S
  BY <1>1
<1> HIDE DEF m, n
<1>3. /\ t \in Seq(S) /\ Len(t) = IF m <= n THEN n - m + 1 ELSE 0
      /\ \A i \in 1 .. n - m + 1 : t[i] = s[m + i - 1]
  BY <1>1, <1>2, SubSeqProperties
<1> HIDE DEF t
<1>4. Len(t) = b /\ \A j \in 1 .. b : t[j] = s[a + j]
  BY <1>1, <1>3
<1> QED BY <1>3, <1>4 DEF t, m, n

\* The chunks of a sequence are its pieces in order.
Pieces(s, n) ==
  [c \in 1 .. n |-> SubSeq(s, (c - 1) * (Len(s) \div n) + 1, c * (Len(s) \div n))]

\* n sequences of length m that are s cut up.
CutsUp(ss, s, n, m) ==
  /\ Len(ss) = n
  /\ \A c \in 1 .. n : Len(ss[c]) = m /\ \A j \in 1 .. m : ss[c][j] = s[At(c, m, j)]

\* The n pieces of a sequence n divides are of one length, cut where Chunk cuts.
LEMMA PiecesAre ==
  ASSUME NEW S, NEW s \in Seq(S), NEW n \in Nat \ {0}, Len(s) % n = 0
  PROVE  /\ Len(s) \div n \in Nat /\ n * (Len(s) \div n) = Len(s)
         /\ Pieces(s, n) \in Seq(Seq(S)) /\ CutsUp(Pieces(s, n), s, n, Len(s) \div n)
<1> DEFINE m == Len(s) \div n
           l == Len(s)
           piece(c) == SubSeq(s, (c - 1) * m + 1, c * m)
<1>1. l \in Nat
  OBVIOUS
<1>2. m \in Nat /\ l = n * m
  BY <1>1, Chunks
<1> HIDE DEF m
<1>3. Pieces(s, n) = [c \in 1 .. n |-> piece(c)]
  BY DEF Pieces, m
<1>4. ASSUME NEW c \in 1 .. n
      PROVE  /\ piece(c) \in Seq(S) /\ Len(piece(c)) = m
             /\ \A j \in 1 .. m : piece(c)[j] = s[At(c, m, j)]
  <2> DEFINE a == (c - 1) * m
  <2>1. c - 1 \in Nat /\ c <= n
    OBVIOUS
  <2>2. a \in Nat /\ c * m = a + m
    BY <1>2, <2>1
  <2>3. a + m <= l
    <3>1. c * m <= n * m
      <4>1. n - c \in Nat
        BY <2>1
      <4>2. (n - c) * m \in Nat /\ (n - c) * m = n * m - c * m
        BY <1>2, <4>1
      <4>3. n * m \in Nat /\ c * m \in Nat
        BY <1>2
      <4> QED BY <4>2, <4>3
    <3> QED BY <1>2, <2>2, <3>1
  <2> DEFINE b == c * m
  <2>4. piece(c) = SubSeq(s, a + 1, b) /\ \A j \in 1 .. m : At(c, m, j) = a + j
    BY DEF At
  <2>5. b = a + m
    BY <2>2
  <2> HIDE DEF a, b, piece
  <2>6. /\ SubSeq(s, a + 1, a + m) \in Seq(S) /\ Len(SubSeq(s, a + 1, a + m)) = m
        /\ \A j \in 1 .. m : SubSeq(s, a + 1, a + m)[j] = s[a + j]
    BY <1>2, <2>2, <2>3, Cut
  <2> QED BY <2>4, <2>5, <2>6
<1> HIDE DEF piece
<1>5. /\ [c \in 1 .. n |-> piece(c)] \in Seq(Seq(S))
      /\ Len([c \in 1 .. n |-> piece(c)]) = n
  BY <1>4
<1> DEFINE ss == Pieces(s, n)
<1>6. \A c \in 1 .. n : ss[c] = piece(c)
  BY <1>3
<1>7. ss \in Seq(Seq(S)) /\ Len(ss) = n
  BY <1>3, <1>5
<1> HIDE DEF ss
<1>8. CutsUp(ss, s, n, m)
  BY <1>4, <1>6, <1>7 DEF CutsUp
<1> QED BY <1>2, <1>7, <1>8 DEF m, ss

\* The pieces joined are the sequence.
LEMMA PiecesJoin ==
  ASSUME NEW S, NEW s \in Seq(S), NEW n \in Nat \ {0}, Len(s) % n = 0
  PROVE  FlattenSeq(Pieces(s, n)) = s
<1> DEFINE m == Len(s) \div n
           ss == Pieces(s, n)
           f == FlattenSeq(ss)
           l == Len(s)
<1>1. /\ m \in Nat /\ n * m = l /\ ss \in Seq(Seq(S)) /\ Len(ss) = n
      /\ \A c \in 1 .. n : Len(ss[c]) = m /\ \A j \in 1 .. m : ss[c][j] = s[At(c, m, j)]
  <2>1. m \in Nat /\ n * m = l /\ ss \in Seq(Seq(S)) /\ CutsUp(ss, s, n, m)
    BY PiecesAre
  <2> HIDE DEF ss, m, l
  <2> QED BY <2>1 DEF CutsUp
<1>2. l \in Nat /\ l % n = 0 /\ Chunked(l, n, l \div n)
  BY Chunks
<1> HIDE DEF m, ss
<1>3. /\ f \in Seq(S) /\ Len(f) = n * m
      /\ \A i \in 1 .. n : \A j \in 1 .. m : f[At(i, m, j)] = ss[i][j]
  BY <1>1, FlatEven
<1> HIDE DEF f
<1>4. ASSUME NEW x \in 1 .. l PROVE f[x] = s[x]
  <2>1. m # 0
    BY <1>1, <1>2
  <2>2. l % m = 0 /\ l \div m = n
    <3>1. l = m * n
      BY <1>1
    <3>2. l = m * (l \div m) + (l % m) /\ l % m \in 0 .. m - 1 /\ l \div m \in Int
      <4> HIDE DEF l
      <4>1. l \in Int /\ m \in Nat \ {0}
        BY <1>1, <1>2, <2>1
      <4> QED BY <4>1, DivMod
    <3> DEFINE q == l \div m
               r == l % m
    <3>3. q \in Int /\ r \in 0 .. m - 1 /\ m * q + r = m * n + 0 /\ 0 \in 0 .. m - 1
      <4>1. q \in Int /\ r \in 0 .. m - 1 /\ 0 \in 0 .. m - 1
        BY <1>1, <2>1, <3>2
      <4>2. l = m * q + r
        BY <3>2
      <4> HIDE DEF q, r
      <4>3. m * n \in Nat /\ l = m * n
        BY <1>1, <3>1
      <4> QED BY <4>1, <4>2, <4>3
    <3> DEFINE z == 0
    <3>4. z = 0
      OBVIOUS
    <3> HIDE DEF q, r, z
    <3>5. m \in Nat \ {0} /\ n \in Int /\ m * q + r = m * n + z /\ z \in 0 .. m - 1
      BY <1>1, <2>1, <3>3, <3>4
    <3>6. q = n /\ r = z
      BY <3>3, <3>5, DivUnique
    <3> QED BY <3>4, <3>6 DEF q, r
  <2>3. Chunked(l, m, n)
    BY <1>1, <1>2, <2>1, <2>2, Chunks
  <2>4. PICK g \in 1 .. n, i \in 1 .. m : x = At(g, m, i)
    BY <2>3 DEF Chunked
  <2> QED BY <1>1, <1>3, <2>4
<1>5. f = [x \in 1 .. l |-> f[x]]
  BY <1>1, <1>3
<1>6. s = [x \in 1 .. l |-> s[x]]
  OBVIOUS
<1> HIDE DEF l
<1>7. f = s
  BY <1>4, <1>5, <1>6
<1> QED BY <1>7 DEF f, ss

\* Batches of n rows, and batches of any size.
AnyBatch(X, Y) == [batch : Seq(X), nonTensor : Seq(Y)]
Batches(X, Y, n) == {d \in AnyBatch(X, Y) : Len(d.batch) = n /\ Len(d.nonTensor) = n}

\* A batch of two sequences of one length.
LEMMA ProtoIs ==
  ASSUME NEW X, NEW Y, NEW n, NEW a \in Seq(X), NEW b \in Seq(Y), Len(a) = n, Len(b) = n
  PROVE  Proto(a, b) \in Batches(X, Y, n) /\ Proto(a, b).batch = a /\ Proto(a, b).nonTensor = b
BY DEF Proto, Batches, AnyBatch

\* A batch and its parts.
LEMMA BatchIs ==
  ASSUME NEW X, NEW Y, NEW n, NEW d \in Batches(X, Y, n)
  PROVE  /\ d = Proto(d.batch, d.nonTensor) /\ d.batch \in Seq(X) /\ d.nonTensor \in Seq(Y)
         /\ Len(d.batch) = n /\ Len(d.nonTensor) = n /\ Rows(d) = n /\ n \in Nat
         /\ d \in AnyBatch(X, Y)
<1>1. /\ d \in AnyBatch(X, Y) /\ Len(d.batch) = n /\ Len(d.nonTensor) = n /\ Rows(d) = n
      /\ d.batch \in Seq(X) /\ d.nonTensor \in Seq(Y)
  BY DEF Batches, AnyBatch, Rows
<1>2. d = Proto(d.batch, d.nonTensor)
  BY <1>1 DEF AnyBatch, Proto
<1>3. n \in Nat
  BY <1>1
<1> QED BY <1>1, <1>2, <1>3

\* A slice of a batch.
LEMMA SliceIs ==
  ASSUME NEW X, NEW Y, NEW n, NEW d \in Batches(X, Y, n), NEW a \in Nat, NEW b \in Nat,
         a + b <= n
  PROVE  /\ Slice(d, a + 1, a + b) \in Batches(X, Y, b)
         /\ \A j \in 1 .. b : /\ Slice(d, a + 1, a + b).batch[j] = d.batch[a + j]
                              /\ Slice(d, a + 1, a + b).nonTensor[j] = d.nonTensor[a + j]
<1> DEFINE s == SubSeq(d.batch, a + 1, a + b)
           t == SubSeq(d.nonTensor, a + 1, a + b)
<1>1. /\ d.batch \in Seq(X) /\ d.nonTensor \in Seq(Y) /\ Len(d.batch) = n
      /\ Len(d.nonTensor) = n
  BY BatchIs
<1>2. s \in Seq(X) /\ Len(s) = b /\ \A j \in 1 .. b : s[j] = d.batch[a + j]
  BY <1>1, Cut
<1>3. t \in Seq(Y) /\ Len(t) = b /\ \A j \in 1 .. b : t[j] = d.nonTensor[a + j]
  BY <1>1, Cut
<1>4. Slice(d, a + 1, a + b) = Proto(s, t)
  BY DEF Slice
<1> HIDE DEF s, t
<1>5. /\ Proto(s, t) \in Batches(X, Y, b) /\ Proto(s, t).batch = s
      /\ Proto(s, t).nonTensor = t
  <2>1. s \in Seq(X) /\ Len(s) = b /\ t \in Seq(Y) /\ Len(t) = b
    BY <1>2, <1>3
  <2> QED BY ONLY <2>1 DEF Proto, Batches, AnyBatch
<1> QED BY <1>2, <1>3, <1>4, <1>5

\* The tensors and the other data of several batches.
Tensors(list) == [i \in DOMAIN list |-> list[i].batch]
Objects(list) == [i \in DOMAIN list |-> list[i].nonTensor]

\* Concat joins tensors and objects.
LEMMA ConcatIs ==
  ASSUME NEW X, NEW Y, NEW list \in Seq(AnyBatch(X, Y))
  PROVE  /\ Concat(list) = Proto(FlattenSeq(Tensors(list)), FlattenSeq(Objects(list)))
         /\ Tensors(list) \in Seq(Seq(X)) /\ Objects(list) \in Seq(Seq(Y))
         /\ Len(Tensors(list)) = Len(list) /\ Len(Objects(list)) = Len(list)
         /\ \A i \in 1 .. Len(list) : /\ Tensors(list)[i] = list[i].batch
                                      /\ Objects(list)[i] = list[i].nonTensor
<1> DEFINE n == Len(list)
<1>1. n \in Nat /\ DOMAIN list = 1 .. n /\ \A i \in 1 .. n : list[i] \in AnyBatch(X, Y)
  OBVIOUS
<1>2. \A i \in 1 .. n : list[i].batch \in Seq(X) /\ list[i].nonTensor \in Seq(Y)
  BY <1>1 DEF AnyBatch
<1>3. Concat(list) = Proto(FlattenSeq(Tensors(list)), FlattenSeq(Objects(list)))
  BY DEF Concat, Tensors, Objects
<1>4. /\ Tensors(list) = [i \in 1 .. n |-> list[i].batch]
      /\ Objects(list) = [i \in 1 .. n |-> list[i].nonTensor]
  BY <1>1 DEF Tensors, Objects
<1> HIDE DEF n
<1>5. /\ [i \in 1 .. n |-> list[i].batch] \in Seq(Seq(X))
      /\ Len([i \in 1 .. n |-> list[i].batch]) = n
  BY <1>1, <1>2
<1>6. /\ [i \in 1 .. n |-> list[i].nonTensor] \in Seq(Seq(Y))
      /\ Len([i \in 1 .. n |-> list[i].nonTensor]) = n
  BY <1>1, <1>2
<1>7. \A i \in 1 .. n : Tensors(list)[i] = list[i].batch /\ Objects(list)[i] = list[i].nonTensor
  BY <1>4
<1> QED BY <1>3, <1>4, <1>5, <1>6, <1>7 DEF n

\* The chunks of a batch, put together again.
LEMMA ChunksJoin ==
  ASSUME NEW X, NEW Y, NEW n, NEW d \in Batches(X, Y, n), NEW k \in Nat \ {0}, n % k = 0
  PROVE  /\ Concat(Chunk(d, k)) = d /\ Chunk(d, k) \in Seq(AnyBatch(X, Y))
         /\ Len(Chunk(d, k)) = k
         /\ Objects(Chunk(d, k)) = Pieces(d.nonTensor, k)
<1> DEFINE size == n \div k
           piece(c) == Slice(d, (c - 1) * size + 1, c * size)
           chunks == Chunk(d, k)
<1>1. /\ d = Proto(d.batch, d.nonTensor) /\ d.batch \in Seq(X) /\ d.nonTensor \in Seq(Y)
      /\ Len(d.batch) = n /\ Len(d.nonTensor) = n /\ Rows(d) = n /\ n \in Nat
  BY BatchIs
<1>2. chunks = [c \in 1 .. k |-> piece(c)]
  BY <1>1 DEF Chunk
<1>3. \A c \in 1 .. k :
        /\ piece(c).batch = SubSeq(d.batch, (c - 1) * size + 1, c * size)
        /\ piece(c).nonTensor = SubSeq(d.nonTensor, (c - 1) * size + 1, c * size)
  BY DEF Slice, Proto
<1>4. \A c \in 1 .. k : chunks[c] = piece(c)
  BY <1>2
<1>5. DOMAIN chunks = 1 .. k
  BY <1>2
<1>6. Tensors(chunks) = Pieces(d.batch, k)
  <2> HIDE DEF chunks, piece
  <2>1. Tensors(chunks) = [c \in 1 .. k |-> chunks[c].batch]
    BY <1>5 DEF Tensors
  <2>2. Pieces(d.batch, k) = [c \in 1 .. k |-> SubSeq(d.batch, (c - 1) * size + 1, c * size)]
    BY <1>1 DEF Pieces
  <2> QED BY <1>3, <1>4, <2>1, <2>2
<1>7. Objects(chunks) = Pieces(d.nonTensor, k)
  <2> HIDE DEF chunks, piece
  <2>1. Objects(chunks) = [c \in 1 .. k |-> chunks[c].nonTensor]
    BY <1>5 DEF Objects
  <2>2. Pieces(d.nonTensor, k)
          = [c \in 1 .. k |-> SubSeq(d.nonTensor, (c - 1) * size + 1, c * size)]
    BY <1>1 DEF Pieces
  <2> QED BY <1>3, <1>4, <2>1, <2>2
<1>8. Concat(chunks) = Proto(FlattenSeq(Tensors(chunks)), FlattenSeq(Objects(chunks)))
  BY DEF Concat, Tensors, Objects
<1>9. FlattenSeq(Pieces(d.batch, k)) = d.batch
  BY <1>1, PiecesJoin
<1>10. FlattenSeq(Pieces(d.nonTensor, k)) = d.nonTensor
  BY <1>1, PiecesJoin
<1>11. chunks \in Seq(AnyBatch(X, Y)) /\ Len(chunks) = k
  <2>1. \A c \in 1 .. k : piece(c) \in AnyBatch(X, Y)
    <3> TAKE c \in 1 .. k
    <3>1. /\ Pieces(d.batch, k) \in Seq(Seq(X)) /\ Len(Pieces(d.batch, k)) = k
          /\ Pieces(d.nonTensor, k) \in Seq(Seq(Y)) /\ Len(Pieces(d.nonTensor, k)) = k
      <4>1. /\ Pieces(d.batch, k) \in Seq(Seq(X))
            /\ CutsUp(Pieces(d.batch, k), d.batch, k, Len(d.batch) \div k)
        BY <1>1, PiecesAre
      <4>2. /\ Pieces(d.nonTensor, k) \in Seq(Seq(Y))
            /\ CutsUp(Pieces(d.nonTensor, k), d.nonTensor, k, Len(d.nonTensor) \div k)
        BY <1>1, PiecesAre
      <4> QED BY <4>1, <4>2 DEF CutsUp
    <3>2. Pieces(d.batch, k)[c] \in Seq(X) /\ Pieces(d.nonTensor, k)[c] \in Seq(Y)
      BY <3>1
    <3>3. /\ Pieces(d.batch, k)[c] = SubSeq(d.batch, (c - 1) * size + 1, c * size)
          /\ Pieces(d.nonTensor, k)[c] = SubSeq(d.nonTensor, (c - 1) * size + 1, c * size)
      BY <1>1 DEF Pieces
    <3> QED BY <3>2, <3>3 DEF Slice, Proto, AnyBatch
  <2> HIDE DEF piece
  <2>2. [c \in 1 .. k |-> piece(c)] \in Seq(AnyBatch(X, Y))
        /\ Len([c \in 1 .. k |-> piece(c)]) = k
    BY <2>1
  <2> QED BY <1>2, <2>2
<1> QED BY <1>1, <1>6, <1>7, <1>8, <1>9, <1>10, <1>11

\* A batch with more rows behind.
Padded(p, d, X, Y, n, pad) ==
  p \in Batches(X, Y, n + pad) /\ Leads(d.batch, p.batch) /\ Leads(d.nonTensor, p.nonTensor)

\* A batch leads its padded one, so that cutting the end off gives it back.
LEMMA Unpadded ==
  ASSUME NEW X, NEW Y, NEW n, NEW d \in Batches(X, Y, n), NEW pad \in Nat, NEW p,
         Padded(p, d, X, Y, n, pad)
  PROVE  Unpad(p, pad) = d
<1>1. /\ d = Proto(d.batch, d.nonTensor) /\ d.batch \in Seq(X) /\ d.nonTensor \in Seq(Y)
      /\ Len(d.batch) = n /\ Len(d.nonTensor) = n /\ n \in Nat
  BY BatchIs
<1>2. /\ p.batch \in Seq(X) /\ p.nonTensor \in Seq(Y) /\ Len(p.batch) = n + pad
      /\ Len(p.nonTensor) = n + pad /\ Rows(p) = n + pad
  BY BatchIs DEF Padded
<1>3. /\ \A j \in 1 .. n : p.batch[j] = d.batch[j]
      /\ \A j \in 1 .. n : p.nonTensor[j] = d.nonTensor[j]
  BY <1>1 DEF Padded, Leads
<1> DEFINE zero == 0
           s == SubSeq(p.batch, zero + 1, zero + n)
           t == SubSeq(p.nonTensor, zero + 1, zero + n)
<1>4. zero = 0 /\ zero \in Nat /\ zero + n <= n + pad /\ zero + 1 = 1 /\ zero + n = n
      /\ (n + pad) - pad = n
  BY <1>1
<1>5. Unpad(p, pad) = Proto(s, t)
  BY <1>2, <1>4 DEF Unpad, Slice
<1> HIDE DEF zero
<1>6. s \in Seq(X) /\ Len(s) = n /\ \A j \in 1 .. n : s[j] = p.batch[zero + j]
  BY <1>1, <1>2, <1>4, Cut
<1>7. t \in Seq(Y) /\ Len(t) = n /\ \A j \in 1 .. n : t[j] = p.nonTensor[zero + j]
  BY <1>1, <1>2, <1>4, Cut
<1> HIDE DEF s, t
<1>8. \A j \in 1 .. n : zero + j = j
  BY <1>4
<1>9. s = d.batch
  <2>1. s = [j \in 1 .. n |-> s[j]]
    BY <1>6
  <2>2. d.batch = [j \in 1 .. n |-> d.batch[j]]
    BY <1>1
  <2>3. \A j \in 1 .. n : s[j] = d.batch[j]
    BY <1>3, <1>6, <1>8
  <2> QED BY <2>1, <2>2, <2>3
<1>10. t = d.nonTensor
  <2>1. t = [j \in 1 .. n |-> t[j]]
    BY <1>7
  <2>2. d.nonTensor = [j \in 1 .. n |-> d.nonTensor[j]]
    BY <1>1
  <2>3. \A j \in 1 .. n : t[j] = d.nonTensor[j]
    BY <1>3, <1>7, <1>8
  <2> QED BY <2>1, <2>2, <2>3
<1> QED BY <1>1, <1>5, <1>9, <1>10

\* What is missing to a multiple.
LEMMA PadSizeIs ==
  ASSUME NEW n \in Nat, NEW k \in Nat \ {0}
  PROVE  PadSize(n, k) \in Nat /\ (n + PadSize(n, k)) % k = 0
<1> DEFINE q == n \div k
           r == n % k
           p == PadSize(n, k)
<1>1. n = k * q + r /\ r \in 0 .. k - 1 /\ q \in Int
  BY DivMod
<1>2. p = IF r = 0 THEN 0 ELSE k - r
  BY DEF PadSize
<1> HIDE DEF q, r, p
<1>3. p \in Nat
  BY <1>1, <1>2
<1>4. (n + p) % k = 0
  <2>1. CASE r = 0
    <3>1. n + p = n /\ n % k = 0
      BY <1>2, <2>1 DEF r
    <3> QED BY <3>1
  <2>2. CASE r # 0
    <3>1. n + p = k * q + k
      <4> DEFINE x == k * q
      <4>1. x \in Int /\ n = x + r /\ p = k - r
        BY <1>1, <1>2, <2>2
      <4> HIDE DEF x
      <4>2. n + p = x + k
        BY <1>1, <4>1
      <4> QED BY <4>2 DEF x
    <3>2. k * q + k = k * (q + 1)
      BY <1>1
    <3> DEFINE m == n + p
               Q == m \div k
               R == m % k
               z == 0
    <3>3. m \in Int /\ m = k * (q + 1) /\ q + 1 \in Int /\ z = 0
      BY <1>1, <1>3, <3>1, <3>2
    <3> HIDE DEF m
    <3>4. m = k * Q + R /\ R \in 0 .. k - 1 /\ Q \in Int
      BY <3>3, DivMod
    <3> HIDE DEF Q, R, z
    <3>5. k * Q + R = k * (q + 1) + z /\ z \in 0 .. k - 1
      <4> DEFINE x == k * (q + 1)
      <4>1. x \in Int /\ x = k * Q + R
        BY <3>3, <3>4
      <4> HIDE DEF x
      <4>2. x + z = x /\ z \in 0 .. k - 1
        BY <3>3, <4>1
      <4> QED BY <4>1, <4>2 DEF x
    <3>6. Q = q + 1 /\ R = z
      BY <3>3, <3>4, <3>5, DivUnique
    <3> QED BY <3>3, <3>6 DEF R, m
  <2> QED BY <2>1, <2>2
<1> QED BY <1>3, <1>4 DEF p

\* A batch followed by others, of some number of rows together.
LEMMA PaddedIs ==
  ASSUME NEW X, NEW Y, NEW n, NEW d \in Batches(X, Y, n), NEW pad \in Nat,
         NEW list \in Seq(AnyBatch(X, Y)), Len(list) >= 1, list[1] = d,
         FlattenSeq(Tensors(list)) \in Seq(X), Len(FlattenSeq(Tensors(list))) = n + pad,
         FlattenSeq(Objects(list)) \in Seq(Y), Len(FlattenSeq(Objects(list))) = n + pad
  PROVE  Padded(Concat(list), d, X, Y, n, pad)
<1> DEFINE f == FlattenSeq(Tensors(list))
           g == FlattenSeq(Objects(list))
<1>1. /\ Concat(list) = Proto(f, g)
      /\ Tensors(list) \in Seq(Seq(X)) /\ Objects(list) \in Seq(Seq(Y))
      /\ Len(Tensors(list)) = Len(list) /\ Len(Objects(list)) = Len(list)
      /\ \A i \in 1 .. Len(list) : Tensors(list)[i] = list[i].batch
                                   /\ Objects(list)[i] = list[i].nonTensor
  BY ConcatIs
<1>2. 1 \in 1 .. Len(list)
  OBVIOUS
<1>3. Tensors(list)[1] = d.batch /\ Objects(list)[1] = d.nonTensor
  BY <1>1, <1>2
<1>4. Leads(d.batch, f)
  <2>1. Leads(Tensors(list)[1], f)
    BY <1>1, FlatLeads
  <2> QED BY <1>3, <2>1
<1>5. Leads(d.nonTensor, g)
  <2>1. Leads(Objects(list)[1], g)
    BY <1>1, FlatLeads
  <2> QED BY <1>3, <2>1
<1>6. f \in Seq(X) /\ g \in Seq(Y) /\ Len(f) = n + pad /\ Len(g) = n + pad
  OBVIOUS
<1> HIDE DEF f, g
<1> DEFINE m == n + pad
<1>7. Len(f) = m /\ Len(g) = m
  BY <1>6
<1> HIDE DEF m
<1>8. Proto(f, g) \in Batches(X, Y, m) /\ Proto(f, g).batch = f /\ Proto(f, g).nonTensor = g
  BY ONLY <1>6, <1>7, ProtoIs
<1> QED BY <1>1, <1>4, <1>5, <1>8 DEF Padded, m

\* DataProto.padding pads.
LEMMA PaddingIs ==
  ASSUME NEW X, NEW Y, NEW n \in Nat \ {0}, NEW d \in Batches(X, Y, n), NEW pad \in Nat
  PROVE  Padded(Padding(d, pad), d, X, Y, n, pad)
<1> DEFINE last == Slice(d, n, n)
           a == <<d>>
           b == [i \in 1 .. pad |-> last]
           list == a \o b
<1>1. d \in AnyBatch(X, Y) /\ Rows(d) = n /\ Len(d.batch) = n /\ Len(d.nonTensor) = n
  BY BatchIs
<1>2. Padding(d, pad) = Concat(list)
  BY <1>1 DEF Padding
<1>3. last \in Batches(X, Y, 1)
  <2> DEFINE m == n - 1
             one == 1
  <2>1. m \in Nat /\ m + 1 = n /\ m + one = n /\ m + one <= n /\ one \in Nat
    OBVIOUS
  <2> HIDE DEF m, one
  <2>2. Slice(d, m + 1, m + one) \in Batches(X, Y, one)
    BY <2>1, SliceIs
  <2> QED BY <2>1, <2>2 DEF one
<1>4. last \in AnyBatch(X, Y) /\ Len(last.batch) = 1 /\ Len(last.nonTensor) = 1
  BY <1>3 DEF Batches
<1> HIDE DEF last
<1>5. a \in Seq(AnyBatch(X, Y)) /\ Len(a) = 1 /\ a[1] = d
  BY <1>1
<1>6. b \in Seq(AnyBatch(X, Y)) /\ Len(b) = pad /\ \A i \in 1 .. pad : b[i] = last
  BY <1>4
<1> HIDE DEF a, b, list
<1>7. /\ list \in Seq(AnyBatch(X, Y)) /\ Len(list) = 1 + pad
      /\ list[1] = d /\ \A i \in 2 .. 1 + pad : list[i] = last
  <2>1. /\ list \in Seq(AnyBatch(X, Y)) /\ Len(list) = Len(a) + Len(b)
        /\ Joins(list, a, b, Len(a), Len(b))
    BY <1>5, <1>6, Joined DEF list
  <2>2. list[1] = d
    <3>1. 1 \in 1 .. Len(a)
      BY <1>5
    <3> QED BY <1>5, <2>1, <3>1 DEF Joins
  <2>3. ASSUME NEW i \in 2 .. 1 + pad PROVE list[i] = last
    <3>1. i - 1 \in 1 .. pad /\ 1 + (i - 1) = i
      OBVIOUS
    <3>2. list[1 + (i - 1)] = b[i - 1]
      BY <1>5, <1>6, <2>1, <3>1 DEF Joins
    <3> QED BY <1>6, <3>1, <3>2
  <2> QED BY <1>5, <1>6, <2>1, <2>2, <2>3
<1>8. /\ Tensors(list) \in Seq(Seq(X)) /\ Objects(list) \in Seq(Seq(Y))
      /\ Len(Tensors(list)) = 1 + pad /\ Len(Objects(list)) = 1 + pad
      /\ \A i \in 1 .. 1 + pad : Tensors(list)[i] = list[i].batch
                                 /\ Objects(list)[i] = list[i].nonTensor
  <2> DEFINE l == Len(list)
  <2>1. list \in Seq(AnyBatch(X, Y)) /\ l = 1 + pad
    BY <1>7
  <2>2. /\ Tensors(list) \in Seq(Seq(X)) /\ Objects(list) \in Seq(Seq(Y))
        /\ Len(Tensors(list)) = l /\ Len(Objects(list)) = l
        /\ \A i \in 1 .. l : Tensors(list)[i] = list[i].batch
                             /\ Objects(list)[i] = list[i].nonTensor
    <3>1. list \in Seq(AnyBatch(X, Y))
      BY <2>1
    <3> QED BY ONLY <3>1, ConcatIs
  <2> HIDE DEF l
  <2> QED BY <2>1, <2>2
<1>9. 1 \in 1 .. 1 + pad /\ \A i \in 2 .. 1 + pad : i \in 1 .. 1 + pad
  OBVIOUS
<1>10. Len(Tensors(list)[1]) = n /\ Len(Objects(list)[1]) = n
  BY <1>1, <1>7, <1>8, <1>9
<1>11. \A i \in 2 .. 1 + pad : Len(Tensors(list)[i]) = 1 /\ Len(Objects(list)[i]) = 1
  BY <1>4, <1>7, <1>8, <1>9
<1>12. FlattenSeq(Tensors(list)) \in Seq(X) /\ Len(FlattenSeq(Tensors(list))) = n + pad
  <2> DEFINE ss == Tensors(list)
  <2>1. /\ ss \in Seq(Seq(X)) /\ Len(ss) = 1 + pad /\ Len(ss[1]) = n
        /\ \A i \in 2 .. 1 + pad : Len(ss[i]) = 1
    BY <1>8, <1>10, <1>11
  <2> HIDE DEF ss
  <2>2. FlattenSeq(ss) \in Seq(X) /\ Len(FlattenSeq(ss)) = n + pad
    BY <2>1, FlatSingles
  <2> QED BY <2>2 DEF ss
<1>13. FlattenSeq(Objects(list)) \in Seq(Y) /\ Len(FlattenSeq(Objects(list))) = n + pad
  <2> DEFINE ss == Objects(list)
  <2>1. /\ ss \in Seq(Seq(Y)) /\ Len(ss) = 1 + pad /\ Len(ss[1]) = n
        /\ \A i \in 2 .. 1 + pad : Len(ss[i]) = 1
    BY <1>8, <1>10, <1>11
  <2> HIDE DEF ss
  <2>2. FlattenSeq(ss) \in Seq(Y) /\ Len(FlattenSeq(ss)) = n + pad
    BY <2>1, FlatSingles
  <2> QED BY <2>2 DEF ss
<1>14. Padded(Concat(list), d, X, Y, n, pad)
  <2>1. Len(list) >= 1
    BY <1>7
  <2> QED BY <1>7, <1>12, <1>13, <2>1, PaddedIs
<1> QED BY <1>2, <1>14

\* pad_dataproto_to_divisor pads.
LEMMA PadByIs ==
  ASSUME NEW X, NEW Y, NEW n \in Nat \ {0}, NEW d \in Batches(X, Y, n), NEW pad \in Nat
  PROVE  Padded(PadBy(d, pad), d, X, Y, n, pad)
<1> DEFINE q == pad \div n
           r == pad % n
           part == Slice(d, 1, r)
           a == <<d>>
           b == [i \in 1 .. q |-> d]
           c == <<part>>
           ab == a \o b
           list == ab \o c
<1>1. d \in AnyBatch(X, Y) /\ Rows(d) = n /\ Len(d.batch) = n /\ Len(d.nonTensor) = n
  BY BatchIs
<1>2. PadBy(d, pad) = Concat(list)
  BY <1>1 DEF PadBy
<1>3. q \in Nat /\ r \in Nat /\ r <= n /\ n * q + r = pad
  <2>0. pad \in Int /\ n \in Nat \ {0}
    OBVIOUS
  <2>1. pad = n * q + r /\ r \in 0 .. n - 1 /\ q \in Int
    BY ONLY <2>0, DivMod
  <2>2. q \in Nat
    BY DivPos
  <2> HIDE DEF q, r
  <2> QED BY ONLY <2>0, <2>1, <2>2
<1> HIDE DEF q, r
<1>4. part \in Batches(X, Y, r)
  <2> DEFINE zero == 0
  <2>1. zero \in Nat /\ zero + 1 = 1 /\ zero + r = r /\ zero + r <= n
    BY <1>3
  <2> HIDE DEF zero
  <2>2. Slice(d, zero + 1, zero + r) \in Batches(X, Y, r)
    BY <1>3, <2>1, SliceIs
  <2> QED BY <2>1, <2>2
<1>5. part \in AnyBatch(X, Y) /\ Len(part.batch) = r /\ Len(part.nonTensor) = r
  BY <1>4 DEF Batches
<1> HIDE DEF part
<1>6. a \in Seq(AnyBatch(X, Y)) /\ Len(a) = 1 /\ a[1] = d
  BY <1>1
<1>7. b \in Seq(AnyBatch(X, Y)) /\ Len(b) = q /\ \A i \in 1 .. q : b[i] = d
  BY <1>1, <1>3
<1>8. c \in Seq(AnyBatch(X, Y)) /\ Len(c) = 1 /\ c[1] = part
  BY <1>5
<1> HIDE DEF a, b, c, ab, list
<1>9. /\ ab \in Seq(AnyBatch(X, Y)) /\ Len(ab) = q + 1
      /\ \A i \in 1 .. q + 1 : ab[i] = d
  <2>1. /\ ab \in Seq(AnyBatch(X, Y)) /\ Len(ab) = Len(a) + Len(b)
        /\ Joins(ab, a, b, Len(a), Len(b))
    BY <1>6, <1>7, Joined DEF ab
  <2>2. ab[1] = d
    <3>1. 1 \in 1 .. Len(a)
      BY <1>6
    <3> QED BY <1>6, <2>1, <3>1 DEF Joins
  <2>3. ASSUME NEW i \in 1 .. q + 1 PROVE ab[i] = d
    <3>1. CASE i = 1
      BY <2>2, <3>1
    <3>2. CASE i # 1
      <4>1. i - 1 \in 1 .. q /\ 1 + (i - 1) = i
        BY <1>3, <3>2
      <4>2. ab[1 + (i - 1)] = b[i - 1]
        BY <1>6, <1>7, <2>1, <4>1 DEF Joins
      <4> QED BY <1>7, <4>1, <4>2
    <3> QED BY <3>1, <3>2
  <2> QED BY <1>3, <1>6, <1>7, <2>1, <2>3
<1>10. /\ list \in Seq(AnyBatch(X, Y)) /\ Len(list) = q + 2
       /\ list[q + 2] = part /\ \A i \in 1 .. q + 1 : list[i] = d
  <2>1. /\ list \in Seq(AnyBatch(X, Y)) /\ Len(list) = Len(ab) + Len(c)
        /\ Joins(list, ab, c, Len(ab), Len(c))
    BY <1>8, <1>9, Joined DEF list
  <2>2. ASSUME NEW i \in 1 .. q + 1 PROVE list[i] = d
    BY <1>9, <2>1 DEF Joins
  <2>3. list[q + 2] = part
    <3>1. 1 \in 1 .. Len(c) /\ (q + 1) + 1 = q + 2
      BY <1>3, <1>8
    <3>2. list[(q + 1) + 1] = c[1]
      BY <1>9, <2>1, <3>1 DEF Joins
    <3> QED BY <1>8, <3>1, <3>2
  <2> QED BY <1>3, <1>8, <1>9, <2>1, <2>2, <2>3
<1>11. /\ Tensors(list) \in Seq(Seq(X)) /\ Objects(list) \in Seq(Seq(Y))
       /\ Len(Tensors(list)) = q + 2 /\ Len(Objects(list)) = q + 2
       /\ \A i \in 1 .. q + 2 : Tensors(list)[i] = list[i].batch
                                /\ Objects(list)[i] = list[i].nonTensor
  BY <1>10, ConcatIs
<1>12. q + 2 \in 1 .. q + 2 /\ \A i \in 1 .. q + 1 : i \in 1 .. q + 2
  BY <1>3
<1>13. /\ Len(Tensors(list)[q + 2]) = r /\ Len(Objects(list)[q + 2]) = r
       /\ \A i \in 1 .. q + 1 : Len(Tensors(list)[i]) = n /\ Len(Objects(list)[i]) = n
  BY <1>1, <1>5, <1>10, <1>11, <1>12
<1>14. n + (q * n + r) = n + pad
  <2>1. q * n = n * q
    BY <1>3
  <2> DEFINE x == q * n
             y == n * q
  <2>2. x = y /\ y + r = pad /\ y \in Nat
    BY <1>3, <2>1
  <2> HIDE DEF x, y
  <2>3. n + (x + r) = n + pad
    BY <2>2
  <2> QED BY <2>3 DEF x
<1>15. FlattenSeq(Tensors(list)) \in Seq(X) /\ Len(FlattenSeq(Tensors(list))) = n + pad
  <2> DEFINE ss == Tensors(list)
  <2>1. /\ ss \in Seq(Seq(X)) /\ Len(ss) = q + 2 /\ Len(ss[q + 2]) = r
        /\ \A i \in 1 .. q + 1 : Len(ss[i]) = n
    BY <1>11, <1>13
  <2> HIDE DEF ss
  <2>2. FlattenSeq(ss) \in Seq(X) /\ Len(FlattenSeq(ss)) = n + (q * n + r)
    BY <1>3, <2>1, FlatCopies
  <2> QED BY <1>14, <2>2 DEF ss
<1>16. FlattenSeq(Objects(list)) \in Seq(Y) /\ Len(FlattenSeq(Objects(list))) = n + pad
  <2> DEFINE ss == Objects(list)
  <2>1. /\ ss \in Seq(Seq(Y)) /\ Len(ss) = q + 2 /\ Len(ss[q + 2]) = r
        /\ \A i \in 1 .. q + 1 : Len(ss[i]) = n
    BY <1>11, <1>13
  <2> HIDE DEF ss
  <2>2. FlattenSeq(ss) \in Seq(Y) /\ Len(FlattenSeq(ss)) = n + (q * n + r)
    BY <1>3, <2>1, FlatCopies
  <2> QED BY <1>14, <2>2 DEF ss
<1>17. Padded(Concat(list), d, X, Y, n, pad)
  <2>1. Len(list) >= 1 /\ list[1] = d
    <3>1. 1 \in 1 .. q + 1
      BY <1>3
    <3> QED BY <1>3, <1>10, <3>1
  <2> QED BY <1>10, <1>15, <1>16, <2>1, PaddedIs
<1> QED BY <1>2, <1>17

\* Through the padding of either kind, a batch comes back.
LEMMA PaddingUndone ==
  ASSUME NEW X, NEW Y, NEW n \in Nat \ {0}, NEW d \in Batches(X, Y, n), NEW k \in Nat \ {0}
  PROVE  ComesBack(d, k)
<1> DEFINE pad == PadSize(n, k)
           p == Padding(d, pad)
           u == PadBy(d, pad)
           m == n + pad
<1>1. Rows(d) = n
  BY BatchIs
<1>2. pad \in Nat /\ m % k = 0
  BY PadSizeIs
<1>3. DpDispatch(d, k) = Chunk(p, k) /\ PadToDivisor(d, k) = u
  BY <1>1 DEF DpDispatch, PadToDivisor
<1> HIDE DEF pad
<1>4. Padded(p, d, X, Y, n, pad) /\ Padded(u, d, X, Y, n, pad)
  BY <1>2, PaddingIs, PadByIs
<1> HIDE DEF p, u
<1>5. p \in Batches(X, Y, m) /\ u \in Batches(X, Y, m)
  BY <1>4 DEF Padded
<1> HIDE DEF m
<1>6. Concat(Chunk(p, k)) = p
  BY <1>2, <1>5, ChunksJoin
<1>7. Unpad(p, pad) = d /\ Unpad(u, pad) = d
  BY <1>2, <1>4, Unpadded
<1>8. Rows(u) = m
  BY <1>5, BatchIs
<1>9. DpCollect(DpDispatch(d, k), PadSize(Rows(d), k)) = d
  BY <1>1, <1>3, <1>6, <1>7 DEF DpCollect, pad
<1>10. \A padded \in {PadToDivisor(d, k)} :
         Rows(padded) % k = 0 /\ Unpad(padded, PadSize(Rows(d), k)) = d
  BY <1>1, <1>2, <1>3, <1>7, <1>8 DEF pad
<1> QED BY <1>9, <1>10 DEF ComesBack

-----------------------------------------------------------------------------
(* The ranks of a mesh.                                                    *)

\* What grows within 1 .. n from place to place stays where it is.
Grows(h, n) == \A i, j \in 1 .. n : i < j => h[i] < h[j]

\* A function on 1 .. n that grows is the identity.
LEMMA GrowsIsSame ==
  ASSUME NEW n \in Nat, NEW h \in [1 .. n -> 1 .. n], Grows(h, n)
  PROVE  \A i \in 1 .. n : h[i] = i
<1> DEFINE P == {i \in Nat : i \in 1 .. n => i <= h[i]}
           Q == {j \in Nat : j < n => h[n - j] <= n - j}
<1>1. 0 \in P
  OBVIOUS
<1>2. ASSUME NEW i \in Nat, i \in P PROVE i + 1 \in P
  <2> SUFFICES ASSUME i + 1 \in 1 .. n PROVE i + 1 <= h[i + 1]
    OBVIOUS
  <2>1. h[i + 1] \in 1 .. n
    OBVIOUS
  <2>2. CASE i = 0
    BY <2>1, <2>2
  <2>3. CASE i # 0
    <3>1. i \in 1 .. n /\ i < i + 1
      BY <2>3
    <3>2. h[i] < h[i + 1] /\ h[i] \in 1 .. n /\ i <= h[i]
      BY <1>2, <3>1 DEF Grows
    <3> QED BY <2>1, <3>2
  <2> QED BY <2>2, <2>3
<1>3. 0 \in Q
  <2> SUFFICES ASSUME 0 < n PROVE h[n - 0] <= n - 0
    OBVIOUS
  <2>1. n - 0 = n /\ n \in 1 .. n
    OBVIOUS
  <2> QED BY <2>1
<1>4. ASSUME NEW j \in Nat, j \in Q PROVE j + 1 \in Q
  <2> SUFFICES ASSUME j + 1 < n PROVE h[n - (j + 1)] <= n - (j + 1)
    OBVIOUS
  <2>1. n - (j + 1) \in 1 .. n /\ n - j \in 1 .. n /\ n - (j + 1) < n - j
    OBVIOUS
  <2>2. h[n - (j + 1)] < h[n - j] /\ h[n - j] \in 1 .. n /\ h[n - (j + 1)] \in 1 .. n
    BY <2>1 DEF Grows
  <2>3. h[n - j] <= n - j
    BY <1>4
  <2> QED BY <2>2, <2>3
<1> HIDE DEF P, Q
<1>5. Nat \subseteq P /\ Nat \subseteq Q
  BY <1>1, <1>2, <1>3, <1>4, NumberInduction
<1> TAKE i \in 1 .. n
<1>6. i \in P /\ n - i \in Q /\ n - (n - i) = i
  BY <1>5
<1>7. i <= h[i]
  BY <1>6 DEF P
<1>8. h[i] <= i
  <2>1. n - i \in Nat /\ n - i < n
    OBVIOUS
  <2> QED BY <1>6, <2>1 DEF Q
<1>9. h[i] \in 1 .. n
  OBVIOUS
<1> QED BY <1>7, <1>8, <1>9

\* NumberInduction given in order are in order.
LEMMA InOrderOf ==
  ASSUME NEW n \in Nat, NEW g \in [1 .. n -> Int], Grows(g, n),
         NEW S, S = {g[i] : i \in 1 .. n}
  PROVE  DOMAIN InOrder(S) = 1 .. n /\ \A i \in 1 .. n : InOrder(S)[i] = g[i]
<1>1. \A i, j \in 1 .. n : g[i] = g[j] => i = j
  <2> SUFFICES ASSUME NEW i \in 1 .. n, NEW j \in 1 .. n, g[i] = g[j], i # j PROVE FALSE
    OBVIOUS
  <2>1. i < j \/ j < i
    OBVIOUS
  <2>2. g[i] < g[j] \/ g[j] < g[i]
    BY <2>1 DEF Grows
  <2>3. g[i] \in Int
    OBVIOUS
  <2> QED BY <2>2, <2>3
<1>2. Lists(g, S)
  <2>1. g = [i \in 1 .. n |-> g[i]]
    OBVIOUS
  <2>2. \A i \in 1 .. n : g[i] \in S
    OBVIOUS
  <2>3. [i \in 1 .. n |-> g[i]] \in Seq(S) /\ Len([i \in 1 .. n |-> g[i]]) = n
    BY <2>2
  <2>4. g \in Seq(S) /\ Len(g) = n
    BY <2>1, <2>3
  <2>5. \A x \in S : \E i \in 1 .. n : g[i] = x
    OBVIOUS
  <2> QED BY <1>1, <2>4, <2>5 DEF Lists
<1>3. IsFiniteSet(S) /\ Cardinality(S) = n
  <2>1. Len(g) = n
    <3>1. g = [i \in 1 .. n |-> g[i]]
      OBVIOUS
    <3>2. Len([i \in 1 .. n |-> g[i]]) = n
      OBVIOUS
    <3> QED BY <3>1, <3>2
  <2> QED BY <1>2, <2>1, ListsCount
<1>4. S \in SUBSET Int
  OBVIOUS
<1> DEFINE r == InOrder(S)
<1>5. /\ r \in [1 .. n -> S]
      /\ \A p, q \in 1 .. n : p < q => r[p] < r[q]
  BY <1>3, <1>4, InOrderIs
<1> HIDE DEF r
<1> DEFINE h == [i \in 1 .. n |-> CHOOSE j \in 1 .. n : g[j] = r[i]]
<1>6. \A i \in 1 .. n : h[i] \in 1 .. n /\ g[h[i]] = r[i]
  <2> TAKE i \in 1 .. n
  <2>1. \E j \in 1 .. n : g[j] = r[i]
    BY <1>5
  <2> DEFINE c == CHOOSE j \in 1 .. n : g[j] = r[i]
  <2>2. c \in 1 .. n /\ g[c] = r[i]
    BY <2>1, Zenon
  <2>3. h[i] = c
    OBVIOUS
  <2> QED BY <2>2, <2>3
<1>7. h \in [1 .. n -> 1 .. n]
  <2>1. h = [i \in 1 .. n |-> h[i]]
    OBVIOUS
  <2> HIDE DEF h
  <2> QED BY <1>6, <2>1
<1> HIDE DEF h
<1>8. Grows(h, n)
  <2> SUFFICES ASSUME NEW i \in 1 .. n, NEW j \in 1 .. n, i < j, ~(h[i] < h[j]) PROVE FALSE
    BY DEF Grows
  <2>1. r[i] < r[j]
    BY <1>5
  <2>2. h[i] \in 1 .. n /\ h[j] \in 1 .. n /\ g[h[i]] = r[i] /\ g[h[j]] = r[j]
    BY <1>6
  <2>3. h[j] < h[i] \/ h[j] = h[i]
    BY <2>2
  <2>4. g[h[j]] < g[h[i]] \/ g[h[j]] = g[h[i]]
    BY <2>2, <2>3 DEF Grows
  <2>5. r[i] \in Int /\ r[j] \in Int
    BY <1>4, <1>5
  <2> QED BY <2>1, <2>2, <2>4, <2>5
<1>9. \A i \in 1 .. n : h[i] = i
  BY <1>7, <1>8, GrowsIsSame
<1>10. DOMAIN r = 1 .. n /\ \A i \in 1 .. n : r[i] = g[i]
  BY <1>5, <1>6, <1>9
<1> QED BY <1>10 DEF r

\* The rank that gives the output of a dp rank, counted from 1.
Giver(n, tp, slow) == [i \in 1 .. n |-> IF slow THEN tp * i ELSE n * (tp - 1) + i]

\* One rank for each dp rank, the only ones collected, in order.
Gives(n, tp, slow) ==
  LET g == Giver(n, tp, slow) dp == DpRank(n, tp, slow) c == IsCollected(n, tp, slow)
  IN /\ \A i \in 1 .. n : /\ g[i] \in 1 .. n * tp /\ dp[g[i]] = i - 1 /\ c[g[i]]
     /\ \A r \in 1 .. n * tp : c[r] => \E i \in 1 .. n : r = g[i]
     /\ \A r \in 1 .. n * tp : dp[r] \in 0 .. n - 1
     /\ Grows(g, n) /\ g \in [1 .. n -> Int]

\* Remainders of what is below n, and of n more.
LEMMA RestOf ==
  ASSUME NEW n \in Nat \ {0}, NEW a \in 0 .. n - 1
  PROVE  a % n = a /\ (n + a) % n = a
<1> DEFINE z == 0 one == 1
<1>1. a = n * z + a /\ n + a = n * one + a
  OBVIOUS
<1>2. z \in Int /\ one \in Int /\ a \in Int /\ n + a \in Int
  OBVIOUS
<1>3. a = n * (a \div n) + (a % n) /\ a % n \in 0 .. n - 1 /\ a \div n \in Int
  BY <1>2, DivMod
<1>4. /\ n + a = n * ((n + a) \div n) + ((n + a) % n)
      /\ (n + a) % n \in 0 .. n - 1 /\ (n + a) \div n \in Int
  BY <1>2, DivMod
<1> HIDE DEF z, one
<1> DEFINE q == a \div n
           r == a % n
           s == (n + a) \div n
           t == (n + a) % n
<1>5. q \in Int /\ r \in 0 .. n - 1 /\ n * q + r = n * z + a
  BY <1>1, <1>3
<1>6. s \in Int /\ t \in 0 .. n - 1 /\ n * s + t = n * one + a
  BY <1>1, <1>4
<1> HIDE DEF q, r, s, t
<1>7. r = a
  BY <1>2, <1>5, DivUnique
<1>8. t = a
  BY <1>2, <1>6, DivUnique
<1> QED BY <1>7, <1>8 DEF r, t

\* In either layout one rank of each dp rank is collected, in their order.
LEMMA MeshGives ==
  ASSUME NEW n \in Nat \ {0}, NEW tp \in 1 .. 2, NEW slow \in BOOLEAN
  PROVE  Gives(n, tp, slow)
<1> DEFINE g == Giver(n, tp, slow)
           dp == DpRank(n, tp, slow)
           c == IsCollected(n, tp, slow)
           all == n * tp
<1>1. /\ DOMAIN g = 1 .. n /\ DOMAIN dp = 1 .. all /\ DOMAIN c = 1 .. all
      /\ \A i \in 1 .. n : g[i] = IF slow THEN tp * i ELSE n * (tp - 1) + i
      /\ \A r \in 1 .. all : dp[r] = IF slow THEN (r - 1) \div tp ELSE (r - 1) % n
      /\ \A r \in 1 .. all : c[r] <=> IF slow THEN (r - 1) % tp = tp - 1
                                      ELSE r > n * (tp - 1)
  BY DEF Giver, DpRank, IsCollected
<1>2. g = [i \in 1 .. n |-> g[i]]
  BY DEF Giver
<1> HIDE DEF g, dp, c, all
<1>3. tp = 1 \/ tp = 2
  OBVIOUS
<1>4. CASE tp = 1
  <2>1. all = n
    BY <1>4 DEF all
  <2>2. \A i \in 1 .. n : g[i] = i
    BY <1>1, <1>4
  <2>3. \A r \in 1 .. n : dp[r] = r - 1
    <3> TAKE r \in 1 .. n
    <3>1. r - 1 \in 0 .. n - 1
      OBVIOUS
    <3>2. (r - 1) % n = r - 1
      BY <3>1, RestOf
    <3>3. (r - 1) \div 1 = r - 1
      OBVIOUS
    <3> QED BY <1>1, <1>4, <2>1, <3>2, <3>3
  <2>4. \A r \in 1 .. n : c[r]
    <3> TAKE r \in 1 .. n
    <3>1. (r - 1) % 1 = 0 /\ n * (1 - 1) = 0
      OBVIOUS
    <3>2. (r - 1) % tp = tp - 1 /\ r > n * (tp - 1)
      BY <1>4, <3>1
    <3> QED BY <1>1, <2>1, <3>2
  <2>5. Grows(g, n) /\ g \in [1 .. n -> Int]
    BY <1>2, <2>2 DEF Grows
  <2> QED BY <2>1, <2>2, <2>3, <2>4, <2>5 DEF Gives, g, dp, c, all
<1>5. CASE tp = 2 /\ slow
  <2>1. all = 2 * n
    BY <1>5 DEF all
  <2>2. \A i \in 1 .. n : g[i] = 2 * i
    BY <1>1, <1>5
  <2>3. \A r \in 1 .. all : dp[r] = (r - 1) \div 2 /\ (c[r] <=> (r - 1) % 2 = 1)
    BY <1>1, <1>5
  <2>4. \A r \in 1 .. all : (r - 1) \div 2 \in 0 .. n - 1
    <3> TAKE r \in 1 .. all
    <3>1. r - 1 >= 0 /\ r - 1 <= 2 * n - 1 /\ r \in Int
      BY <2>1
    <3> QED BY <3>1
  <2>5. \A i \in 1 .. n : 2 * i \in 1 .. all /\ (2 * i - 1) \div 2 = i - 1 /\ (2 * i - 1) % 2 = 1
    BY <2>1
  <2>6. ASSUME NEW r \in 1 .. all, (r - 1) % 2 = 1 PROVE \E i \in 1 .. n : r = 2 * i
    <3>1. r \in Int /\ r >= 1 /\ r <= 2 * n
      BY <2>1
    <3> DEFINE i == (r - 1) \div 2 + 1
    <3>2. r = 2 * i /\ i \in 1 .. n
      BY <2>6, <3>1
    <3> QED BY <3>2
  <2>7. Grows(g, n) /\ g \in [1 .. n -> Int]
    BY <1>2, <2>2 DEF Grows
  <2>8. \A i \in 1 .. n : g[i] \in 1 .. all /\ dp[g[i]] = i - 1 /\ c[g[i]]
    BY <2>2, <2>3, <2>5
  <2>9. ASSUME NEW r \in 1 .. all, c[r] PROVE \E i \in 1 .. n : r = g[i]
    <3>1. (r - 1) % 2 = 1
      BY <2>3, <2>9
    <3>2. PICK i \in 1 .. n : r = 2 * i
      BY <2>6, <3>1
    <3>3. r = g[i]
      BY <2>2, <3>2
    <3> QED BY <3>3
  <2>10. \A r \in 1 .. all : dp[r] \in 0 .. n - 1
    BY <2>3, <2>4
  <2> QED BY <2>7, <2>8, <2>9, <2>10 DEF Gives, g, dp, c, all
<1>6. CASE tp = 2 /\ ~slow
  <2>1. all = 2 * n
    BY <1>6 DEF all
  <2>2. \A i \in 1 .. n : g[i] = n + i
    <3> TAKE i \in 1 .. n
    <3>1. g[i] = n * (2 - 1) + i
      BY <1>1, <1>6
    <3>2. n * (2 - 1) = n
      OBVIOUS
    <3> QED BY <3>1, <3>2
  <2>3. \A r \in 1 .. all : dp[r] = (r - 1) % n /\ (c[r] <=> r > n)
    <3> TAKE r \in 1 .. all
    <3>1. dp[r] = (r - 1) % n /\ (c[r] <=> r > n * (2 - 1))
      BY <1>1, <1>6
    <3>2. n * (2 - 1) = n
      OBVIOUS
    <3> QED BY <3>1, <3>2
  <2>4. \A r \in 1 .. all : (r - 1) % n \in 0 .. n - 1
    <3> TAKE r \in 1 .. all
    <3>1. r - 1 \in Int
      BY <2>1
    <3> QED BY <3>1, DivMod
  <2>5. ASSUME NEW i \in 1 .. n PROVE n + i \in 1 .. all /\ ((n + i) - 1) % n = i - 1 /\ n + i > n
    <3>1. i - 1 \in 0 .. n - 1 /\ (n + i) - 1 = n + (i - 1)
      OBVIOUS
    <3>2. (n + (i - 1)) % n = i - 1
      BY <3>1, RestOf
    <3> QED BY <2>1, <3>1, <3>2
  <2>6. ASSUME NEW r \in 1 .. all, r > n PROVE \E i \in 1 .. n : r = n + i
    <3>1. r - n \in 1 .. n /\ r = n + (r - n)
      BY <2>1, <2>6
    <3> QED BY <3>1
  <2>7. Grows(g, n) /\ g \in [1 .. n -> Int]
    BY <1>2, <2>2 DEF Grows
  <2>8. \A i \in 1 .. n : g[i] \in 1 .. all /\ dp[g[i]] = i - 1 /\ c[g[i]]
    BY <2>2, <2>3, <2>5
  <2>9. \A r \in 1 .. all : c[r] => \E i \in 1 .. n : r = g[i]
    BY <2>2, <2>3, <2>6
  <2>10. \A r \in 1 .. all : dp[r] \in 0 .. n - 1
    BY <2>3, <2>4
  <2> QED BY <2>7, <2>8, <2>9, <2>10 DEF Gives, g, dp, c, all
<1> QED BY <1>3, <1>4, <1>5, <1>6

\* Through both layouts of a mesh, a batch comes back.
LEMMA MeshUndone ==
  ASSUME NEW X, NEW Y, NEW n, NEW d \in Batches(X, Y, n), NEW k \in Nat \ {0}, n % k = 0,
         NEW tp \in 1 .. 2, NEW slow \in BOOLEAN
  PROVE  NdCollect(NdDispatch(d, DpRank(k, tp, slow)), IsCollected(k, tp, slow)) = d
<1> DEFINE g == Giver(k, tp, slow)
           dp == DpRank(k, tp, slow)
           c == IsCollected(k, tp, slow)
           all == k * tp
           chunks == Chunk(d, k)
           out == NdDispatch(d, dp)
<1>1. /\ \A i \in 1 .. k : g[i] \in 1 .. all /\ dp[g[i]] = i - 1 /\ c[g[i]]
      /\ \A r \in 1 .. all : c[r] => \E i \in 1 .. k : r = g[i]
      /\ \A r \in 1 .. all : dp[r] \in 0 .. k - 1
      /\ Grows(g, k) /\ g \in [1 .. k -> Int]
  <2>1. Gives(k, tp, slow)
    BY MeshGives
  <2> QED BY <2>1 DEF Gives
<1>2. DOMAIN dp = 1 .. all
  BY DEF DpRank
<1>3. Concat(chunks) = d /\ chunks \in Seq(AnyBatch(X, Y)) /\ Len(chunks) = k
  BY ChunksJoin
<1> HIDE DEF g, dp, c, all, chunks
<1>4. Max({dp[r] : r \in DOMAIN dp}) = k - 1
  <2> DEFINE T == {dp[r] : r \in 1 .. all}
  <2>1. k \in 1 .. k
    OBVIOUS
  <2>2. g[k] \in 1 .. all /\ dp[g[k]] = k - 1
    BY <1>1, <2>1
  <2>3. k - 1 \in T
    BY <2>2
  <2>4. \A x \in T : x \in 0 .. k - 1
    BY <1>1
  <2> DEFINE m == k - 1
  <2>5. m \in T /\ T \subseteq Int /\ \A x \in T : x <= m
    BY <2>3, <2>4
  <2> HIDE DEF T, m
  <2>6. Max(T) = m
    BY <2>5, MaxIs
  <2> QED BY <1>2, <2>6 DEF T, m
<1>5. out = [r \in 1 .. all |-> chunks[dp[r] + 1]]
  <2>1. 1 + Max({dp[r] : r \in DOMAIN dp}) = k
    BY <1>4
  <2> QED BY <1>2, <2>1 DEF NdDispatch, PartsOfRanks, chunks
<1> DEFINE S == {r \in DOMAIN out : c[r]}
           ranks == InOrder(S)
<1>6. S = {g[i] : i \in 1 .. k}
  <2>1. DOMAIN out = 1 .. all
    BY <1>5
  <2>2. \A r \in S : r \in {g[i] : i \in 1 .. k}
    BY <1>1, <2>1
  <2>3. \A r \in {g[i] : i \in 1 .. k} : r \in S
    BY <1>1, <2>1
  <2> QED BY <2>2, <2>3
<1>7. NdCollect(out, c) = Concat([i \in DOMAIN ranks |-> out[ranks[i]]])
  BY DEF NdCollect
<1> HIDE DEF S, out
<1>8. DOMAIN ranks = 1 .. k /\ \A i \in 1 .. k : ranks[i] = g[i]
  <2>1. k \in Nat /\ g \in [1 .. k -> Int] /\ Grows(g, k) /\ S = {g[i] : i \in 1 .. k}
    BY <1>1, <1>6
  <2>2. DOMAIN InOrder(S) = 1 .. k /\ \A i \in 1 .. k : InOrder(S)[i] = g[i]
    BY ONLY <2>1, InOrderOf
  <2> QED BY <2>2
<1> HIDE DEF ranks
<1>9. \A i \in 1 .. k : out[ranks[i]] = chunks[i]
  <2> TAKE i \in 1 .. k
  <2>1. out[g[i]] = chunks[dp[g[i]] + 1]
    BY <1>1, <1>5
  <2>2. (i - 1) + 1 = i
    OBVIOUS
  <2> QED BY <1>1, <1>8, <2>1, <2>2
<1>10. [i \in DOMAIN ranks |-> out[ranks[i]]] = chunks
  <2>1. chunks = [i \in 1 .. k |-> chunks[i]]
    BY <1>3
  <2> QED BY <1>8, <1>9, <2>1
<1> QED BY <1>3, <1>7, <1>10 DEF out, dp, c

-----------------------------------------------------------------------------
(* The order balancing gives a batch.                                      *)

\* Within a part, by increasing workload, the heavy rows in the middle.
LEMMA LightestFirstIs ==
  ASSUME NEW X \in SUBSET Int, NEW part, Lists(part, X), NEW w, \A x \in X : w[x] \in Int
  PROVE  Lists(LightestFirst(part, w), X)
<1> DEFINE less == {p \in Positions(part) : Lighter(part[p[1]], part[p[2]], w)}
           n == Len(part)
           key == [i \in 1 .. n |-> w[part[i]]]
<1>1. n \in Nat /\ DOMAIN part = 1 .. n /\ \A i \in 1 .. n : part[i] \in X /\ part[i] \in Int
  <2>1. part \in Seq(X)
    BY DEF Lists
  <2>2. n \in Nat /\ DOMAIN part = 1 .. n /\ \A i \in 1 .. n : part[i] \in X
    BY <2>1
  <2> QED BY <2>2
<1>2. ASSUME NEW i \in 1 .. n, NEW j \in 1 .. n
      PROVE  <<i, j>> \in less <=> Lighter(part[i], part[j], w)
  <2>1. <<i, j>> \in Positions(part)
    BY <1>1 DEF Positions
  <2> QED BY <2>1
<1>3. LightestFirst(part, w) = SortedBy(part, less)
  BY DEF LightestFirst
<1>4. \A i \in 1 .. n : key[i] = w[part[i]]
  OBVIOUS
<1> HIDE DEF less, n, key
<1>5. \A i \in 1 .. n : key[i] \in Int
  BY <1>1, <1>4
<1>6. \A i \in 1 .. n : part[i] \in Int
  BY <1>1
<1>7. \A i, j \in 1 .. n :
        <<i, j>> \in less <=> key[i] < key[j] \/ (key[i] = key[j] /\ part[i] < part[j])
  <2> TAKE i, j \in 1 .. n
  <2>1. <<i, j>> \in less <=> Lighter(part[i], part[j], w)
    BY <1>2
  <2>2. key[i] = w[part[i]] /\ key[j] = w[part[j]]
    BY <1>4
  <2> QED BY ONLY <2>1, <2>2 DEF Lighter
<1>8. Compares(less, 1 .. n)
  BY <1>1, <1>5, <1>6, <1>7, ByKeys
<1>9. Compares(less, 1 .. Len(part))
  BY <1>8 DEF n
<1> QED BY <1>3, <1>9, SortedLists

\* The heavy rows moved inside each part: the same parts.
LEMMA HeavyInsideIs ==
  ASSUME NEW w \in Seq(Nat), NEW k \in Nat, NEW parts, Parted(parts, k, Len(w))
  PROVE  Parted(HeavyInside(parts, w), k, Len(w))
<1> DEFINE e == HeavyInside(parts, w)
           n == Len(w)
<1>1. /\ DOMAIN parts = 1 .. k /\ \A p \in 1 .. k : Lists(parts[p], ToSet(parts[p]))
      /\ \A p \in 1 .. k : ToSet(parts[p]) \subseteq 1 .. n
  <2>1. /\ parts \in Seq(Seq(1 .. n)) /\ Len(parts) = k
        /\ \A p \in 1 .. k : Lists(parts[p], ToSet(parts[p]))
        /\ UNION {ToSet(parts[p]) : p \in 1 .. k} = 1 .. n
    BY DEF Parted
  <2>2. DOMAIN parts = 1 .. k
    BY <2>1
  <2>3. ASSUME NEW p \in 1 .. k PROVE ToSet(parts[p]) \subseteq 1 .. n
    BY ONLY <2>1, <2>3
  <2> QED BY <2>1, <2>2, <2>3
<1>2. \A i \in 1 .. n : w[i] \in Int
  OBVIOUS
<1>3. e = [p \in 1 .. k |-> OutsideIn(LightestFirst(parts[p], w))]
  BY <1>1 DEF HeavyInside
<1>4. e = [p \in 1 .. k |-> e[p]]
      /\ \A p \in 1 .. k : e[p] = OutsideIn(LightestFirst(parts[p], w))
  BY <1>3
<1> HIDE DEF e
<1>5. ASSUME NEW p \in 1 .. k PROVE Lists(e[p], ToSet(parts[p]))
  <2> DEFINE X == ToSet(parts[p])
             s == LightestFirst(parts[p], w)
             l == Len(s)
             o == Outward(l)
  <2>1. X \in SUBSET Int /\ Lists(parts[p], X) /\ \A x \in X : w[x] \in Int
    BY <1>1, <1>2
  <2> HIDE DEF X
  <2>2. Lists(s, X)
    BY <2>1, LightestFirstIs
  <2> HIDE DEF s
  <2>3. s \in Seq(X)
    BY <2>2 DEF Lists
  <2>4. l \in Nat
    BY <2>3
  <2>5. OutsideIn(s) = [r \in 1 .. l |-> s[o[r]]]
    BY <2>3, OutsideInIs
  <2>6. IsPermutation(o, l)
    BY <2>4, OutwardPermutes
  <2>7. Lists([r \in 1 .. Len(s) |-> s[o[r]]], X)
    BY <2>2, <2>6, ListsPermuted
  <2> QED BY <1>4, <2>5, <2>7 DEF X, s
<1>6. Parted(e, k, n)
  <2>1. n \in Nat
    OBVIOUS
  <2> HIDE DEF n
  <2>2. Parted(parts, k, n)
    BY DEF n
  <2> QED BY <1>4, <1>5, <2>1, <2>2, PartedAgain
<1> QED BY <1>6 DEF e

\* It is a permutation of the rows.
LEMMA OrderBalanced ==
  ASSUME NEW w \in Seq(Nat), NEW k \in 1 .. Len(w), Len(w) % k = 0
  PROVE  Lists(BalancedOrder(w, <<>>, k), 1 .. Len(w))
<1> DEFINE work == Workloads(w)
           n == Len(w)
           sorted == [i \in DOMAIN SortedRows(work) |-> work[SortedRows(work)[i]]]
           d == Max(Dealt(sorted, k, TRUE))
           parts == BalancedPartitions(work, k, TRUE)
<1>1. work \in Seq(Nat) /\ Len(work) = n /\ n \in Nat
  BY WorkloadsAre
<1>2. BalancedOrder(w, <<>>, k) = FlattenSeq(HeavyInside(parts, work))
  BY DEF BalancedOrder
<1>3. k \in Nat
  OBVIOUS
<1> HIDE DEF work
<1>4. CanPartition(work, k, TRUE)
  BY <1>1 DEF CanPartition
<1>5. d \in Int /\ Bounds(work, k, TRUE, d)
  BY <1>1, <1>4, DealtBounds
<1> HIDE DEF d
<1>6. Parted(parts, k, Len(work))
  BY <1>1, <1>4, <1>5, BalancedIs
<1> HIDE DEF parts
<1>7. Parted(HeavyInside(parts, work), k, n)
  BY <1>1, <1>3, <1>6, HeavyInsideIs
<1> HIDE DEF n
<1>8. Lists(FlattenSeq(HeavyInside(parts, work)), 1 .. n)
  BY <1>1, <1>3, <1>7, PartedFlat
<1> QED BY <1>2, <1>8 DEF n

-----------------------------------------------------------------------------
(* A row keeps its advantage.                                              *)

\* A row's RLOO advantage does not depend on where the rows are.
LEMMA RlooMoved ==
  ASSUME NEW batch \in Seq(Row), NEW n, n = Len(batch), NEW o, Lists(o, 1 .. n), NEW new,
         new = [i \in 1 .. n |-> batch[o[i]]], NEW i \in 1 .. n
  PROVE  Rloo(new, i) = Rloo(batch, o[i])
<1> DEFINE D == 1 .. n
           G == Group(batch, o[i])
           H == Group(new, i)
           p == [t \in H |-> o[t]]
<1>1. n \in Nat /\ DOMAIN batch = D /\ IsFiniteSet(D)
  <2>1. n \in Nat
    OBVIOUS
  <2> QED BY <2>1, FS_Interval
<1>2. Len(o) = n /\ o \in Seq(D)
  <2>0. n \in Nat
    BY <1>1
  <2>1. Cardinality(D) = n
    BY ONLY <2>0, FS_Interval
  <2>2. Lists(o, D)
    OBVIOUS
  <2> HIDE DEF D
  <2> QED BY <2>1, <2>2, ListsCount DEF Lists
<1>3. /\ \A t \in D : o[t] \in D
      /\ \A s, t \in D : o[s] = o[t] => s = t
      /\ \A x \in D : \E t \in D : o[t] = x
  <2>0. n \in Nat
    BY <1>1
  <2>1. \A t \in D : o[t] \in D
    <3> TAKE t \in D
    <3>1. t \in 1 .. Len(o)
      BY <1>2, <2>0
    <3> HIDE DEF D
    <3> QED BY <1>2, <3>1
  <2>2. (\A s, t \in D : o[s] = o[t] => s = t) /\ \A x \in D : \E t \in D : o[t] = x
    BY <1>2 DEF Lists
  <2> QED BY <2>1, <2>2
<1>4. DOMAIN new = D /\ \A t \in D : new[t] = batch[o[t]]
  OBVIOUS
<1>5. \A x \in D : batch[x].score \in Int
  <2> TAKE x \in D
  <2>1. batch[x] \in Row
    BY <1>1
  <2> QED BY <2>1, InputAssumption DEF Row
<1>6. G = {x \in D : batch[x].uid = batch[o[i]].uid} /\ H = {t \in D : new[t].uid = new[i].uid}
  BY <1>1, <1>4 DEF Group
<1>7. \A t \in H : p[t] = o[t]
  OBVIOUS
<1>8. DOMAIN p = H /\ p = [t \in H |-> p[t]] /\ i \in D
  OBVIOUS
<1> HIDE DEF D, G, H, p
<1>9. IsFiniteSet(G) /\ IsFiniteSet(H) /\ G \subseteq D /\ H \subseteq D
  <2>1. G \subseteq D /\ H \subseteq D
    BY <1>6
  <2> QED BY <1>1, <2>1, FS_Subset
<1>10. Renames(p, H, G)
  <2>1. \A t \in H : p[t] \in G
    BY <1>3, <1>4, <1>6, <1>7, <1>8
  <2>2. \A s, t \in H : p[s] = p[t] => s = t
    BY <1>3, <1>7, <1>9
  <2>3. ASSUME NEW x \in G PROVE \E t \in H : p[t] = x
    <3>1. PICK t \in D : o[t] = x
      BY <1>3, <1>9
    <3>2. t \in H
      BY <1>4, <1>6, <1>8, <3>1
    <3> QED BY <1>7, <3>1, <3>2
  <2>4. p \in [H -> G]
    BY <1>8, <2>1
  <2> QED BY <2>2, <2>3, <2>4 DEF Renames
<1>11. Cardinality(H) = Cardinality(G)
  <2> DEFINE one == 1
             f == [x \in G |-> one]
             g == [t \in H |-> f[p[t]]]
             h == [t \in H |-> one]
  <2>0. one \in Int /\ one = 1
    OBVIOUS
  <2> HIDE DEF one
  <2>1. f \in [G -> Int]
    BY <2>0
  <2>2. g = h
    BY <1>10 DEF Renames
  <2>3. SumFunction(f) = one * Cardinality(G) /\ SumFunction(h) = one * Cardinality(H)
    BY <1>9, <2>0, SumConstant
  <2> HIDE DEF f, h
  <2>4. SumFunction(g) = SumFunction(f)
    BY <1>9, <1>10, <2>1, SumRenamed
  <2>5. Cardinality(G) \in Nat /\ Cardinality(H) \in Nat
    BY <1>9, FS_CardinalityType
  <2> HIDE DEF g
  <2> QED BY <2>0, <2>2, <2>3, <2>4, <2>5
<1>12. Total(new, H) = Total(batch, G)
  <2> DEFINE f == [x \in G |-> batch[x].score]
             g == [t \in H |-> f[p[t]]]
  <2>1. f \in [G -> Int]
    BY <1>5, <1>9
  <2>2. \A t \in H : f[p[t]] = new[t].score
    <3> TAKE t \in H
    <3>1. p[t] \in G /\ p[t] = o[t] /\ t \in D
      BY <1>7, <1>9, <1>10 DEF Renames
    <3>2. f[p[t]] = batch[o[t]].score
      BY <3>1
    <3> QED BY <1>4, <3>1, <3>2
  <2>3. Total(batch, G) = SumFunction(f)
    BY DEF Total
  <2> HIDE DEF f
  <2>4. SumFunction(g) = SumFunction(f)
    BY <1>9, <1>10, <2>1, SumRenamed
  <2>5. g = [t \in H |-> new[t].score]
    BY <2>2
  <2> QED BY <2>3, <2>4, <2>5 DEF Total
<1>13. new[i].score = batch[o[i]].score
  BY <1>4, <1>8
<1> QED BY <1>11, <1>12, <1>13 DEF Rloo, G, H

\* What a rank reads of a row, and how a row is scored.
Content == [row : Nat, length : {1, 3}, score : Scores]

\* The batch of the scored rows.
LEMMA BatchOfIs ==
  ASSUME NEW batch \in Seq(Row)
  PROVE  /\ BatchOf(batch) \in Batches(Content, Uids, Len(batch))
         /\ \A j \in 1 .. Len(batch) :
              /\ BatchOf(batch).batch[j]
                   = [row |-> j, length |-> batch[j].length, score |-> batch[j].score]
              /\ BatchOf(batch).nonTensor[j] = batch[j].uid
<1> DEFINE n == Len(batch)
           c(j) == [row |-> j, length |-> batch[j].length, score |-> batch[j].score]
           a == [j \in 1 .. n |-> c(j)]
           b == [j \in 1 .. n |-> batch[j].uid]
<1>1. n \in Nat /\ DOMAIN batch = 1 .. n /\ \A j \in 1 .. n : batch[j] \in Row
  OBVIOUS
<1>2. BatchOf(batch) = Proto(a, b)
  BY <1>1 DEF BatchOf
<1>3. \A j \in 1 .. n : c(j) \in Content /\ batch[j].uid \in Uids
  <2> TAKE j \in 1 .. n
  <2>1. batch[j] \in Row /\ j \in Nat
    BY <1>1
  <2> QED BY <2>1 DEF Row, Content
<1> HIDE DEF n
<1>4. \A j \in 1 .. n : a[j] = c(j) /\ b[j] = batch[j].uid
  OBVIOUS
<1>5. a \in Seq(Content) /\ Len(a) = n
  <2> HIDE DEF c
  <2> QED BY <1>1, <1>3
<1>6. b \in Seq(Uids) /\ Len(b) = n
  <2>1. \A j \in 1 .. n : batch[j].uid \in Uids
    BY <1>3
  <2> HIDE DEF a, c
  <2> QED BY ONLY <1>1, <2>1
<1> HIDE DEF a, b
<1>7. /\ Proto(a, b) \in Batches(Content, Uids, n) /\ Proto(a, b).batch = a
      /\ Proto(a, b).nonTensor = b
  BY ONLY <1>5, <1>6 DEF Proto, Batches, AnyBatch
<1> QED BY <1>2, <1>4, <1>7 DEF n, c

\* A batch reordered by a list of its rows.
LEMMA ReorderedIs ==
  ASSUME NEW X, NEW Y, NEW n, NEW d \in Batches(X, Y, n), NEW o, Lists(o, 1 .. n)
  PROVE  /\ Reorder(d, o) \in Batches(X, Y, n)
         /\ \A i \in 1 .. n : /\ o[i] \in 1 .. n
                              /\ Reorder(d, o).batch[i] = d.batch[o[i]]
                              /\ Reorder(d, o).nonTensor[i] = d.nonTensor[o[i]]
<1> DEFINE D == 1 .. n
           a == [i \in 1 .. n |-> d.batch[o[i]]]
           b == [i \in 1 .. n |-> d.nonTensor[o[i]]]
<1>1. /\ n \in Nat /\ d.batch \in Seq(X) /\ d.nonTensor \in Seq(Y) /\ Len(d.batch) = n
      /\ Len(d.nonTensor) = n
  BY BatchIs
<1>2. Len(o) = n /\ o \in Seq(D)
  <2>1. Cardinality(D) = n
    BY <1>1, FS_Interval
  <2>2. Lists(o, D)
    OBVIOUS
  <2> HIDE DEF D
  <2> QED BY <2>1, <2>2, ListsCount DEF Lists
<1>3. DOMAIN o = 1 .. n /\ \A i \in 1 .. n : o[i] \in 1 .. n
  BY <1>1, <1>2
<1>4. Reorder(d, o) = Proto(a, b)
  BY <1>3 DEF Reorder
<1>5. \A i \in 1 .. n : d.batch[o[i]] \in X /\ d.nonTensor[o[i]] \in Y
  <2> TAKE i \in 1 .. n
  <2>1. o[i] \in 1 .. Len(d.batch) /\ o[i] \in 1 .. Len(d.nonTensor)
    BY <1>1, <1>3
  <2> QED BY <1>1, <2>1
<1>6. a \in Seq(X) /\ Len(a) = n
  BY <1>1, <1>5
<1>7. b \in Seq(Y) /\ Len(b) = n
  BY <1>1, <1>5
<1>8. \A i \in 1 .. n : a[i] = d.batch[o[i]] /\ b[i] = d.nonTensor[o[i]]
  OBVIOUS
<1> HIDE DEF a, b
<1>9. Proto(a, b) \in Batches(X, Y, n) /\ Proto(a, b).batch = a /\ Proto(a, b).nonTensor = b
  BY ONLY <1>6, <1>7 DEF Proto, Batches, AnyBatch
<1> QED BY <1>3, <1>4, <1>8, <1>9

\* Moved with its uid, every row has the advantage it had.
LEMMA AdvantagesKept ==
  ASSUME InputsOK, NEW o, Lists(o, 1 .. Len(scored))
  PROVE  SameAdvantages(Reorder(BatchOf(scored), o))
<1> DEFINE n == Len(scored)
           d == BatchOf(scored)
           moved == Reorder(d, o)
           new == [i \in 1 .. n |-> scored[o[i]]]
<1>1. scored \in Seq(Row) /\ n \in Nat /\ DOMAIN scored = 1 .. n
  BY DEF InputsOK
<1>2. /\ d \in Batches(Content, Uids, n)
      /\ \A j \in 1 .. n :
           /\ d.batch[j] = [row |-> j, length |-> scored[j].length, score |-> scored[j].score]
           /\ d.nonTensor[j] = scored[j].uid
  BY <1>1, BatchOfIs
<1> HIDE DEF d
<1>3. /\ moved \in Batches(Content, Uids, n)
      /\ \A i \in 1 .. n : /\ o[i] \in 1 .. n /\ moved.batch[i] = d.batch[o[i]]
                           /\ moved.nonTensor[i] = d.nonTensor[o[i]]
  BY <1>2, ReorderedIs
<1> HIDE DEF moved
<1>4. Rows(moved) = n
  BY <1>3, BatchIs
<1>5. ASSUME NEW i \in 1 .. n
      PROVE  /\ moved.batch[i].row = o[i]
             /\ [uid |-> moved.nonTensor[i], length |-> moved.batch[i].length,
                 score |-> moved.batch[i].score] = scored[o[i]]
  <2>1. scored[o[i]] \in Row /\ o[i] \in 1 .. n
    BY <1>1, <1>3
  <2>2. /\ moved.batch[i] = [row |-> o[i], length |-> scored[o[i]].length,
                             score |-> scored[o[i]].score]
        /\ moved.nonTensor[i] = scored[o[i]].uid
    BY <1>2, <1>3, <2>1
  <2> QED BY <2>1, <2>2 DEF Row
<1>6. RowsOf(moved) = new
  BY <1>4, <1>5 DEF RowsOf
<1> HIDE DEF n, new
<1>7. ASSUME NEW i \in 1 .. n PROVE Rloo(RowsOf(moved), i) = Rloo(scored, moved.batch[i].row)
  <2>1. new = [j \in 1 .. n |-> scored[o[j]]] /\ n = Len(scored) /\ Lists(o, 1 .. n)
    BY DEF new, n
  <2>2. Rloo(new, i) = Rloo(scored, o[i])
    BY <1>1, <2>1, RlooMoved
  <2> QED BY <1>5, <1>6, <2>2
<1> QED BY <1>1, <1>7 DEF SameAdvantages, moved, d

-----------------------------------------------------------------------------
(* Rows that follow each other with one uid.                               *)

\* A factor other than 0 cancels.
LEMMA Cancels ==
  ASSUME NEW k \in Nat \ {0}, NEW a \in Int, NEW b \in Int, k * a = k * b
  PROVE  a = b
<1> DEFINE z == 0
<1>1. z \in 0 .. k - 1 /\ k * a + z = k * b + z
  OBVIOUS
<1> HIDE DEF z
<1> QED BY <1>1, DivUnique

\* Groups of rows, each of one uid.
OneUid(groups, m, uids) ==
  \A g \in 1 .. m : \A x, y \in ToSet(groups[g]) : uids[x] = uids[y]
Grouping(groups, m, uids) ==
  Parted(groups, m, Len(uids)) /\ NoneIsEmpty(groups, m) /\ OneUid(groups, m, uids)

\* Where the groups begin and end.
Firsts(uids) == InOrder({i \in DOMAIN uids : i = 1 \/ uids[i] # uids[i - 1]})
Lasts(uids) ==
  [g \in DOMAIN Firsts(uids) |-> IF g = Len(Firsts(uids)) THEN Len(uids)
                                 ELSE Firsts(uids)[g + 1] - 1]

\* Runs that cover the rows, one after the other, each of one uid.
SplitUp(f, e, m, uids) ==
  /\ \A g \in 1 .. m : /\ f[g] \in 1 .. Len(uids) /\ e[g] \in 1 .. Len(uids)
                       /\ f[g] <= e[g]
  /\ \A g, h \in 1 .. m : g < h => e[g] < f[h]
  /\ \A x \in 1 .. Len(uids) : \E g \in 1 .. m : x \in f[g] .. e[g]
  /\ \A g \in 1 .. m : \A x \in f[g] .. e[g] : uids[x] = uids[f[g]]

\* From each beginning to the next, the rows are split up into runs of one uid.
LEMMA FirstsSplit ==
  ASSUME NEW Y, NEW uids \in Seq(Y), Len(uids) >= 1
  PROVE  /\ Len(Firsts(uids)) \in Nat \ {0}
         /\ DOMAIN Firsts(uids) = 1 .. Len(Firsts(uids))
         /\ SplitUp(Firsts(uids), Lasts(uids), Len(Firsts(uids)), uids)
<1> DEFINE n == Len(uids)
           F == {i \in DOMAIN uids : i = 1 \/ uids[i] # uids[i - 1]}
           f == Firsts(uids)
           m == Len(f)
           e == Lasts(uids)
<1>1. n \in Nat \ {0} /\ DOMAIN uids = 1 .. n
  OBVIOUS
<1>2. F = {i \in 1 .. n : i = 1 \/ uids[i] # uids[i - 1]}
  BY <1>1
<1> HIDE DEF n
<1>3. IsFiniteSet(F) /\ F \subseteq 1 .. n /\ F \in SUBSET Int
  <2>1. F \subseteq 1 .. n /\ IsFiniteSet(1 .. n)
    BY <1>1, <1>2, FS_Interval
  <2> HIDE DEF F
  <2>2. F \in SUBSET Int
    BY <2>1
  <2> QED BY <2>1, <2>2, FS_Subset
<1>4. f = InOrder(F)
  BY DEF Firsts
<1> DEFINE c == Cardinality(F)
<1>5. /\ f \in [1 .. c -> F] /\ f \in Seq(F) /\ m = c
      /\ \A q, r \in 1 .. c : q < r => f[q] < f[r]
      /\ \A x \in F : \E r \in 1 .. c : f[r] = x
  <2> HIDE DEF F
  <2> QED BY <1>3, <1>4, InOrderIs
<1>6. m \in Nat /\ DOMAIN f = 1 .. m
  BY <1>5
<1>7. e = [g \in 1 .. m |-> IF g = m THEN n ELSE f[g + 1] - 1]
  BY <1>6 DEF Lasts, n
<1>8. \A g \in 1 .. m : e[g] = IF g = m THEN n ELSE f[g + 1] - 1
  BY <1>7
<1>9. /\ f \in [1 .. m -> F] /\ \A q, r \in 1 .. m : q < r => f[q] < f[r]
      /\ \A x \in F : \E r \in 1 .. m : f[r] = x
  BY <1>5
<1> HIDE DEF c, F, f, e, m
<1>10. \A g \in 1 .. m : f[g] \in F /\ f[g] \in 1 .. n
  BY <1>3, <1>9
<1>11. 1 \in F
  BY <1>1, <1>2
<1>12. m # 0
  <2>1. PICK r \in 1 .. m : f[r] = 1
    BY <1>9, <1>11
  <2> QED BY <1>6
<1>13. 1 \in 1 .. m /\ f[1] = 1
  <2>1. PICK r \in 1 .. m : f[r] = 1
    BY <1>9, <1>11
  <2>2. 1 \in 1 .. m
    BY <1>6, <1>12
  <2>3. CASE r = 1
    BY <2>1, <2>2, <2>3
  <2>4. CASE r # 1
    <3>1. 1 < r
      BY <2>4
    <3>2. f[1] < f[r] /\ f[1] \in 1 .. n
      BY <1>9, <1>10, <2>2, <3>1
    <3> QED BY <2>1, <3>2
  <2> QED BY <2>3, <2>4
<1>14. ASSUME NEW g \in 1 .. m PROVE f[g] <= e[g] /\ e[g] \in 1 .. n
  <2>1. CASE g = m
    BY <1>1, <1>8, <1>10, <2>1
  <2>2. CASE g # m
    <3>1. g + 1 \in 1 .. m /\ g < g + 1
      BY <1>6, <2>2
    <3>2. f[g] < f[g + 1] /\ f[g + 1] \in 1 .. n /\ f[g] \in 1 .. n
      BY <1>9, <1>10, <3>1
    <3>3. e[g] = f[g + 1] - 1
      BY <1>8, <2>2
    <3> QED BY <1>1, <3>2, <3>3
  <2> QED BY <2>1, <2>2
<1>15. ASSUME NEW g \in 1 .. m, NEW h \in 1 .. m, g < h PROVE e[g] < f[h]
  <2>1. g # m /\ g + 1 \in 1 .. m
    BY <1>6, <1>15
  <2>2. e[g] = f[g + 1] - 1
    BY <1>8, <2>1
  <2>3. f[g + 1] \in 1 .. n /\ f[h] \in 1 .. n
    BY <1>10, <2>1
  <2>4. f[g + 1] <= f[h]
    <3>1. CASE g + 1 = h
      BY <2>3, <3>1
    <3>2. CASE g + 1 # h
      <4>1. g + 1 < h
        BY <1>15, <3>2
      <4> QED BY <1>9, <2>1, <2>3, <4>1
    <3> QED BY <3>1, <3>2
  <2> QED BY <2>2, <2>3, <2>4
<1>16. ASSUME NEW x \in 1 .. n PROVE \E g \in 1 .. m : x \in f[g] .. e[g]
  <2> DEFINE P == {y \in Nat : y \in 1 .. n => \E g \in 1 .. m : y \in f[g] .. e[g]}
  <2>1. 0 \in P
    OBVIOUS
  <2>2. ASSUME NEW y \in Nat, y \in P PROVE y + 1 \in P
    <3> SUFFICES ASSUME y + 1 \in 1 .. n PROVE \E g \in 1 .. m : y + 1 \in f[g] .. e[g]
      OBVIOUS
    <3>1. CASE y = 0
      <4>1. y + 1 = 1 /\ f[1] <= e[1] /\ e[1] \in 1 .. n
        BY <1>13, <1>14, <3>1
      <4>2. y + 1 \in f[1] .. e[1]
        BY <1>13, <4>1
      <4> QED BY <1>13, <4>2
    <3>2. CASE y # 0
      <4>1. y \in 1 .. n
        BY <1>1, <3>2
      <4>2. PICK g \in 1 .. m : y \in f[g] .. e[g]
        BY <2>2, <4>1
      <4>3. f[g] \in 1 .. n /\ e[g] \in 1 .. n
        BY <1>10, <1>14
      <4>4. CASE y + 1 <= e[g]
        <5>1. y + 1 \in f[g] .. e[g]
          BY <4>2, <4>3, <4>4
        <5> QED BY <5>1
      <4>5. CASE ~(y + 1 <= e[g])
        <5>1. y = e[g]
          BY <4>2, <4>3, <4>5
        <5>2. g # m
          BY <1>1, <1>8, <5>1
        <5>3. g + 1 \in 1 .. m /\ e[g] = f[g + 1] - 1
          BY <1>6, <1>8, <5>2
        <5>4. f[g + 1] \in 1 .. n /\ e[g + 1] \in 1 .. n /\ f[g + 1] <= e[g + 1]
          BY <1>10, <1>14, <5>3
        <5>5. y + 1 \in f[g + 1] .. e[g + 1]
          BY <5>1, <5>3, <5>4
        <5> QED BY <5>3, <5>5
      <4> QED BY <4>4, <4>5
    <3> QED BY <3>1, <3>2
  <2> HIDE DEF P
  <2>3. Nat \subseteq P
    BY <2>1, <2>2, NumberInduction
  <2>4. x \in P
    BY <2>3
  <2> QED BY <2>4 DEF P
<1>17. ASSUME NEW g \in 1 .. m, NEW x \in f[g] .. e[g] PROVE uids[x] = uids[f[g]]
  <2> DEFINE Q == {y \in Nat : y \in f[g] .. e[g] => uids[y] = uids[f[g]]}
  <2>1. f[g] \in 1 .. n /\ e[g] \in 1 .. n
    BY <1>10, <1>14
  <2>2. 0 \in Q
    BY <2>1
  <2>3. ASSUME NEW y \in Nat, y \in Q PROVE y + 1 \in Q
    <3> SUFFICES ASSUME y + 1 \in f[g] .. e[g] PROVE uids[y + 1] = uids[f[g]]
      OBVIOUS
    <3>1. CASE y + 1 = f[g]
      BY <3>1
    <3>2. CASE y + 1 # f[g]
      <4>1. y \in f[g] .. e[g] /\ y + 1 \in 1 .. n /\ y + 1 # 1
        <5> DEFINE a == f[g]
                   b == e[g]
        <5>1. /\ a \in 1 .. n /\ b \in 1 .. n /\ n \in Nat
              /\ y \in Nat /\ y + 1 \in a .. b /\ y + 1 # a
          BY <1>1, <2>1, <3>2
        <5> HIDE DEF a, b, n
        <5>2. y \in a .. b /\ y + 1 \in 1 .. n /\ y + 1 # 1
          BY ONLY <5>1
        <5> QED BY <5>2 DEF a, b
      <4>2. uids[y] = uids[f[g]]
        BY <2>3, <4>1
      <4>3. y + 1 \notin F
        <5> SUFFICES ASSUME y + 1 \in F PROVE FALSE
          OBVIOUS
        <5>1. PICK h \in 1 .. m : f[h] = y + 1
          BY <1>9
        <5>2. f[g] < f[h] /\ f[h] <= e[g]
          BY <2>1, <4>1, <5>1
        <5>3. g < h
          <6> SUFFICES ASSUME ~(g < h) PROVE FALSE
            OBVIOUS
          <6>1. h = g \/ h < g
            OBVIOUS
          <6>2. f[h] \in 1 .. n
            BY <1>10
          <6>3. f[h] = f[g] \/ f[h] < f[g]
            BY <1>9, <6>1
          <6> QED BY <2>1, <5>2, <6>2, <6>3
        <5>4. e[g] < f[h]
          BY <1>15, <5>3
        <5> QED BY <1>10, <2>1, <5>2, <5>4
      <4>4. uids[y + 1] = uids[(y + 1) - 1]
        BY <1>2, <4>1, <4>3
      <4>5. (y + 1) - 1 = y
        OBVIOUS
      <4> QED BY <4>2, <4>4, <4>5
    <3> QED BY <3>1, <3>2
  <2> HIDE DEF Q
  <2>4. Nat \subseteq Q
    BY <2>2, <2>3, NumberInduction
  <2>5. x \in Nat
    BY <2>1
  <2>6. x \in Q
    BY <2>4, <2>5
  <2> QED BY <2>6 DEF Q
<1>18. SplitUp(f, e, m, uids)
  <2>1. \A g \in 1 .. m : f[g] \in 1 .. n /\ e[g] \in 1 .. n /\ f[g] <= e[g]
    BY <1>10, <1>14
  <2> QED BY <1>15, <1>16, <1>17, <2>1 DEF SplitUp, n
<1> QED BY <1>6, <1>12, <1>18 DEF f, m, e

\* The rows from one to another.
LEMMA Run ==
  ASSUME NEW a \in Nat, NEW b \in Nat, a <= b, NEW s,
         s = [j \in 1 .. b + 1 - a |-> a + j - 1]
  PROVE  /\ Lists(s, a .. b) /\ Len(s) = b + 1 - a /\ Len(s) >= 1
         /\ ToSet(s) = a .. b
<1> DEFINE l == b + 1 - a
           D == a .. b
<1>1. l \in Nat /\ l >= 1
  OBVIOUS
<1>2. \A j \in 1 .. l : a + j - 1 \in D
  OBVIOUS
<1>3. [j \in 1 .. l |-> a + j - 1] \in Seq(D) /\ Len([j \in 1 .. l |-> a + j - 1]) = l
  <2> HIDE DEF D, l
  <2> QED BY <1>1, <1>2
<1>4. \A j \in 1 .. l : s[j] = a + j - 1
  OBVIOUS
<1>5. \A x \in D : x + 1 - a \in 1 .. l /\ a + (x + 1 - a) - 1 = x
  OBVIOUS
<1>6. s \in Seq(D) /\ Len(s) = l
  BY <1>3
<1> HIDE DEF D, l
<1>7. \A i, j \in 1 .. l : s[i] = s[j] => i = j
  BY <1>1, <1>4
<1>8. \A x \in D : \E i \in 1 .. l : s[i] = x
  BY <1>4, <1>5
<1>9. Lists(s, D)
  BY <1>6, <1>7, <1>8 DEF Lists
<1>10. ToSet(s) = D
  BY <1>9, ListsCount
<1> QED BY <1>1, <1>6, <1>9, <1>10 DEF D, l

\* UidGroups parts the rows into groups, none empty, each of one uid.
LEMMA UidGroupsAre ==
  ASSUME NEW Y, NEW uids \in Seq(Y), Len(uids) >= 1
  PROVE  /\ Len(UidGroups(uids)) \in Nat \ {0}
         /\ Grouping(UidGroups(uids), Len(UidGroups(uids)), uids)
<1> DEFINE n == Len(uids)
           f == Firsts(uids)
           e == Lasts(uids)
           m == Len(f)
           run(g) == [j \in 1 .. e[g] + 1 - f[g] |-> f[g] + j - 1]
           u == UidGroups(uids)
<1>1. m \in Nat \ {0} /\ DOMAIN f = 1 .. m /\ SplitUp(f, e, m, uids)
  BY FirstsSplit
<1>2. n \in Nat
  OBVIOUS
<1>3. \A g \in 1 .. m : e[g] = IF g = m THEN n ELSE f[g + 1] - 1
  BY <1>1 DEF Lasts
<1>4. u = [g \in 1 .. m |->
             [j \in 1 .. (IF g = m THEN n ELSE f[g + 1] - 1) + 1 - f[g] |-> f[g] + j - 1]]
  BY <1>1 DEF UidGroups, Firsts
<1>5. \A g \in 1 .. m : u[g] = run(g)
  BY <1>3, <1>4
<1>6. u = [g \in 1 .. m |-> u[g]]
  BY <1>4
<1>7. /\ \A g \in 1 .. m : f[g] \in 1 .. n /\ e[g] \in 1 .. n /\ f[g] <= e[g]
      /\ \A g, h \in 1 .. m : g < h => e[g] < f[h]
      /\ \A x \in 1 .. n : \E g \in 1 .. m : x \in f[g] .. e[g]
      /\ \A g \in 1 .. m : \A x \in f[g] .. e[g] : uids[x] = uids[f[g]]
  BY <1>1 DEF SplitUp
<1> HIDE DEF n, f, e, m, u
<1>8. ASSUME NEW g \in 1 .. m
      PROVE  /\ Lists(u[g], f[g] .. e[g]) /\ Len(u[g]) >= 1
             /\ ToSet(u[g]) = f[g] .. e[g]
  <2> DEFINE a == f[g]
             b == e[g]
             s == u[g]
  <2>1. s = run(g)
    BY <1>5
  <2>2. s = [j \in 1 .. b + 1 - a |-> a + j - 1]
    BY <2>1 DEF run
  <2> HIDE DEF run
  <2>3. a \in 1 .. n /\ b \in 1 .. n /\ a <= b
    BY <1>7
  <2> HIDE DEF a, b, s
  <2>4. a \in Nat /\ b \in Nat /\ a <= b
    BY <1>2, <2>3
  <2>5. Lists(s, a .. b) /\ Len(s) >= 1 /\ ToSet(s) = a .. b
    BY <2>2, <2>4, Run
  <2> QED BY <2>5 DEF a, b, s
<1> HIDE DEF run
<1>9. u \in Seq(Seq(1 .. n)) /\ Len(u) = m
  <2>1. \A g \in 1 .. m : u[g] \in Seq(1 .. n)
    <3> TAKE g \in 1 .. m
    <3> DEFINE A == f[g] .. e[g]
               D == 1 .. n
               s == u[g]
    <3>1. A \subseteq D
      BY <1>2, <1>7
    <3>2. s \in Seq(A)
      BY <1>8 DEF Lists
    <3> HIDE DEF A, D, s
    <3>3. s \in Seq(D)
      BY <3>1, <3>2, SeqWiden
    <3> QED BY <3>3 DEF s, D
  <2>2. [g \in 1 .. m |-> u[g]] \in Seq(Seq(1 .. n)) /\ Len([g \in 1 .. m |-> u[g]]) = m
    BY <1>1, <2>1
  <2> QED BY <1>6, <2>2
<1>10. \A g \in 1 .. m : Lists(u[g], ToSet(u[g]))
  BY <1>8
<1>11. ASSUME NEW g \in 1 .. m, NEW h \in 1 .. m, g # h PROVE ToSet(u[g]) \cap ToSet(u[h]) = {}
  <2> SUFFICES ASSUME NEW x, x \in ToSet(u[g]), x \in ToSet(u[h]) PROVE FALSE
    OBVIOUS
  <2>1. x \in f[g] .. e[g] /\ x \in f[h] .. e[h]
    BY <1>8
  <2>2. /\ f[g] \in 1 .. n /\ e[g] \in 1 .. n /\ f[h] \in 1 .. n /\ e[h] \in 1 .. n
    BY <1>7
  <2>3. g < h \/ h < g
    BY <1>11
  <2>4. e[g] < f[h] \/ e[h] < f[g]
    BY <1>7, <2>3
  <2> QED BY <1>2, <2>1, <2>2, <2>4
<1>12. UNION {ToSet(u[g]) : g \in 1 .. m} = 1 .. n
  <2> DEFINE U == UNION {ToSet(u[g]) : g \in 1 .. m}
  <2>1. ASSUME NEW x \in U PROVE x \in 1 .. n
    <3>1. PICK g \in 1 .. m : x \in ToSet(u[g])
      OBVIOUS
    <3>2. x \in f[g] .. e[g] /\ f[g] \in 1 .. n /\ e[g] \in 1 .. n
      BY <1>7, <1>8, <3>1
    <3> QED BY <1>2, <3>2
  <2>2. ASSUME NEW x \in 1 .. n PROVE x \in U
    <3>1. PICK g \in 1 .. m : x \in f[g] .. e[g]
      BY <1>7
    <3>2. x \in ToSet(u[g])
      BY <1>8, <3>1
    <3> QED BY <3>2
  <2> QED BY <2>1, <2>2
<1>13. Parted(u, m, n)
  BY <1>9, <1>10, <1>11, <1>12 DEF Parted
<1>14. NoneIsEmpty(u, m)
  BY <1>8 DEF NoneIsEmpty
<1>15. OneUid(u, m, uids)
  <2> SUFFICES ASSUME NEW g \in 1 .. m, NEW x \in ToSet(u[g]), NEW y \in ToSet(u[g])
               PROVE  uids[x] = uids[y]
    BY DEF OneUid
  <2>1. x \in f[g] .. e[g] /\ y \in f[g] .. e[g]
    BY <1>8
  <2>2. uids[x] = uids[f[g]] /\ uids[y] = uids[f[g]]
    BY <1>7, <2>1
  <2> QED BY <2>2
<1> QED BY <1>1, <1>9, <1>13, <1>14, <1>15 DEF Grouping, n, u

\* With as many groups as uids, no uid is in two of them.
LEMMA UidsDiffer ==
  ASSUME NEW Y, NEW uids \in Seq(Y), NEW m \in Nat, NEW groups, Grouping(groups, m, uids),
         m = Cardinality(ToSet(uids))
  PROVE  \A g, h \in 1 .. m : \A x \in ToSet(groups[g]), y \in ToSet(groups[h]) :
           uids[x] = uids[y] => g = h
<1> DEFINE n == Len(uids)
           U == ToSet(uids)
           D == 1 .. m
           c == [g \in D |-> uids[groups[g][1]]]
<1>1. /\ groups \in Seq(Seq(1 .. n)) /\ Len(groups) = m
      /\ UNION {ToSet(groups[g]) : g \in 1 .. m} = 1 .. n
      /\ NoneIsEmpty(groups, m) /\ OneUid(groups, m, uids)
  BY DEF Grouping, Parted
<1>2. n \in Nat /\ DOMAIN uids = 1 .. n /\ U = {uids[i] : i \in 1 .. n}
  BY DEF ToSet
<1>3. ASSUME NEW g \in D PROVE groups[g][1] \in ToSet(groups[g]) /\ groups[g][1] \in 1 .. n
  <2>1. groups[g] \in Seq(1 .. n) /\ Len(groups[g]) >= 1
    BY <1>1 DEF NoneIsEmpty
  <2> QED BY <2>1 DEF ToSet
<1>4. IsFiniteSet(D) /\ Cardinality(D) = m
  <2>1. m \in Nat
    OBVIOUS
  <2> QED BY ONLY <2>1, FS_Interval
<1> HIDE DEF n, U
<1>5. \A g \in D : c[g] = uids[groups[g][1]] /\ c[g] \in U
  BY <1>2, <1>3
<1>6. c = [g \in D |-> c[g]]
  OBVIOUS
<1>7. ASSUME NEW g \in D, NEW x \in ToSet(groups[g]) PROVE uids[x] = c[g]
  BY <1>1, <1>3, <1>5, <1>7 DEF OneUid
<1>8. ASSUME NEW v \in U PROVE \E g \in D : c[g] = v
  <2>1. PICK x \in 1 .. n : uids[x] = v
    BY <1>2
  <2>2. PICK g \in 1 .. m : x \in ToSet(groups[g])
    BY <1>1
  <2>3. c[g] = v
    BY <1>7, <2>1, <2>2
  <2> QED BY <2>3
<1>9. c \in Surjection(D, U)
  <2>1. c \in [D -> U]
    BY <1>5, <1>6
  <2> QED BY <1>8, <2>1 DEF Surjection
<1> HIDE DEF c, D
<1>10. m = Cardinality(U)
  BY DEF U
<1>11. c \in Injection(D, U)
  BY <1>4, <1>9, <1>10, FS_SurjSameCardinalityImpliesInj
<1>12. \A g, h \in D : c[g] = c[h] => g = h
  BY <1>11 DEF Injection, IsInjective
<1>13. ASSUME NEW g \in D, NEW h \in D, NEW x \in ToSet(groups[g]), NEW y \in ToSet(groups[h]),
              uids[x] = uids[y]
       PROVE  g = h
  BY <1>7, <1>12, <1>13
<1> QED BY <1>13 DEF D

\* Divided among k, each gets as many groups, so k are not more than the
\* groups.
LEMMA DivisorIsLess ==
  ASSUME NEW m \in Nat \ {0}, NEW k \in Nat \ {0}, m % k = 0
  PROVE  k \in 1 .. m
  OBVIOUS

\* A multiple of k, divided by it.
LEMMA TimesDivides ==
  ASSUME NEW k \in Nat \ {0}, NEW c \in Nat
  PROVE  (k * c) % k = 0 /\ (k * c) \div k = c
<1> DEFINE n == k * c
           z == 0
<1>1. n \in Int
  OBVIOUS
<1>2. n = k * c + z /\ z \in 0 .. k - 1 /\ z \in Int
  OBVIOUS
<1> HIDE DEF n
<1>3. n = k * (n \div k) + (n % k) /\ n % k \in 0 .. k - 1 /\ n \div k \in Int
  BY <1>1, DivMod
<1> HIDE DEF z
<1>4. n \div k = c /\ n % k = z
  BY <1>2, <1>3, DivUnique
<1> QED BY <1>4 DEF n, z

\* Groups of one size, as many on each of k ranks: the rows of every rank
\* are those of its groups, and every rank has as many.
Shared(q, parts, groups, k, m, n) ==
  /\ Parted(parts, k, m) /\ Parted(q, k, n) /\ Unfolds(q, parts, groups, k)
  /\ \E c \in Nat : \A p \in 1 .. k : Len(q[p]) = c

\* The balanced order gives every rank its groups, and as many rows.
LEMMA GroupsShared ==
  ASSUME NEW w \in Seq(Nat), NEW m \in Nat \ {0}, NEW groups, Parted(groups, m, Len(w)),
         NEW size \in Nat, \A g \in 1 .. m : Len(groups[g]) = size,
         NEW k \in Nat \ {0}, m % k = 0
  PROVE  Shared(GroupBalancedPartitions(w, groups, k),
                BalancedPartitions(GroupWork(groups, w), k, TRUE), groups, k, m, Len(w))
<1> DEFINE n == Len(w)
           gw == GroupWork(groups, w)
           parts == BalancedPartitions(gw, k, TRUE)
           rows == RowsOfParts(parts, groups)
           q == EachInOrder(rows)
           h == Len(parts[1])
           c == h * size
<1>1. k \in 1 .. m
  BY DivisorIsLess
<1>2. gw \in Seq(Nat) /\ Len(gw) = m /\ n \in Nat
  BY GroupWorkIs
<1>3. CanPartition(gw, k, TRUE)
  <2> HIDE DEF gw
  <2> QED BY <1>1, <1>2 DEF CanPartition
<1>4. Parted(parts, k, m) /\ Sized(parts, k, m, TRUE)
  BY <1>3, GroupsBalanced
<1>5. /\ Parted(rows, k, n) /\ Unfolds(rows, parts, groups, k)
      /\ \A p \in 1 .. k : rows[p] = RowsInTurn(parts[p], groups)
  <2> HIDE DEF gw, parts, n
  <2>1. Parted(groups, m, n)
    BY DEF n
  <2> QED BY <1>2, <1>4, <2>1, RowsOfPartsIs
<1>6. GroupBalancedPartitions(w, groups, k) = q
  BY DEF GroupBalancedPartitions
<1> HIDE DEF gw, parts, n
<1>7. Parted(groups, m, n)
  BY DEF n
<1>8. groups \in Seq(Seq(1 .. n)) /\ Len(groups) = m
  BY <1>7 DEF Parted
<1>9. parts \in Seq(Seq(1 .. m)) /\ Len(parts) = k
  BY <1>4 DEF Parted
<1>10. h \in Nat /\ \A p \in 1 .. k : Len(parts[p]) = h
  <2>1. \A p \in 1 .. k : Len(parts[p]) \in Nat /\ parts[p] \in Seq(1 .. m)
    BY <1>9
  <2>2. \A p \in 1 .. k : Len(parts[p]) * k = m
    BY <1>4 DEF Sized
  <2>3. 1 \in 1 .. k
    BY <1>1
  <2>4. ASSUME NEW p \in 1 .. k PROVE Len(parts[p]) = h
    <3> DEFINE a == Len(parts[p])
    <3>1. a \in Int /\ h \in Int /\ a * k = m /\ h * k = m
      BY <2>1, <2>2, <2>3
    <3> HIDE DEF a, h
    <3>2. k * a = k * h
      BY <3>1
    <3>3. a = h
      BY <3>1, <3>2, Cancels
    <3> QED BY <3>3 DEF a
  <2> QED BY <2>1, <2>3, <2>4
<1>11. ASSUME NEW p \in 1 .. k PROVE Len(rows[p]) = c
  <2> DEFINE part == parts[p]
             ss == [g \in DOMAIN part |-> groups[part[g]]]
             S == 1 .. n
             M == 1 .. m
  <2>1. part \in Seq(M) /\ Len(part) = h
    BY <1>9, <1>10
  <2>2. groups \in Seq(Seq(S)) /\ DOMAIN groups = M
    BY <1>8
  <2>3. \A g \in M : Len(groups[g]) = size
    OBVIOUS
  <2>4. rows[p] = FlattenSeq(ss)
    BY <1>5 DEF RowsInTurn
  <2> HIDE DEF part, S, M, h, rows
  <2>5. DOMAIN part = 1 .. h /\ \A g \in 1 .. h : part[g] \in M
    BY <2>1
  <2>6. \A g \in 1 .. h : groups[part[g]] \in Seq(S) /\ Len(groups[part[g]]) = size
    BY <2>2, <2>3, <2>5
  <2>7. ss = [g \in 1 .. h |-> groups[part[g]]]
    BY <2>5
  <2>8. ss \in Seq(Seq(S)) /\ Len(ss) = h /\ \A g \in 1 .. h : Len(ss[g]) = size
    BY <1>10, <2>6, <2>7
  <2> HIDE DEF ss
  <2>9. Len(FlattenSeq(ss)) = h * size
    BY <1>10, <2>8, FlatEven
  <2> QED BY <2>4, <2>9
<1> HIDE DEF rows, h
<1>12. Parted(q, k, n) /\ Rearranged(q, rows, k)
  BY <1>2, <1>5, EachInOrderIs
<1> HIDE DEF q
<1>13. Unfolds(q, parts, groups, k)
  BY <1>5, <1>12 DEF Unfolds, Rearranged
<1>14. c \in Nat /\ \A p \in 1 .. k : Len(q[p]) = c
  <2>1. c \in Nat
    BY <1>10
  <2> HIDE DEF c
  <2> QED BY <1>11, <1>12, <2>1 DEF Rearranged
<1>15. Shared(q, parts, groups, k, m, n)
  BY <1>4, <1>12, <1>13, <1>14 DEF Shared
<1> QED BY <1>6, <1>15 DEF parts, gw, n

\* What is in the places X.
ValuesAt(s, X) == {s[x] : x \in X}

\* Rows dealt out rank by rank, as many to each: the objects of a rank's
\* chunk are those of its rows.
LEMMA ChunksFollow ==
  ASSUME NEW X, NEW Y, NEW n, NEW d \in Batches(X, Y, n), NEW k \in Nat \ {0},
         NEW q, Parted(q, k, n), NEW c \in Nat, \A p \in 1 .. k : Len(q[p]) = c,
         NEW p \in 1 .. k
  PROVE  ToSet(Chunk(Reorder(d, FlattenSeq(q)), k)[p].nonTensor)
           \subseteq ValuesAt(d.nonTensor, ToSet(q[p]))
<1> DEFINE o == FlattenSeq(q)
           moved == Reorder(d, o)
           s == moved.nonTensor
           chunks == Chunk(moved, k)
           part == chunks[p].nonTensor
<1>1. n \in Nat
  BY BatchIs
<1>2. q \in Seq(Seq(1 .. n)) /\ Len(q) = k /\ Lists(o, 1 .. n)
  BY <1>1, PartedFlat DEF Parted
<1>3. /\ Len(o) = k * c
      /\ \A i \in 1 .. k : \A j \in 1 .. c : o[At(i, c, j)] = q[i][j]
  <2> DEFINE S == 1 .. n
  <2>1. q \in Seq(Seq(S))
    BY <1>2
  <2>2. k \in Nat /\ Len(q) = k /\ c \in Nat /\ (\A i \in 1 .. k : Len(q[i]) = c)
    BY <1>2
  <2> HIDE DEF S
  <2>3. /\ Len(FlattenSeq(q)) = k * c
        /\ \A i \in 1 .. k : \A j \in 1 .. c : FlattenSeq(q)[At(i, c, j)] = q[i][j]
    BY ONLY <2>1, <2>2, FlatEven
  <2> QED BY <2>3
<1>4. Len(o) = n
  <2> DEFINE S == 1 .. n
  <2>1. IsFiniteSet(S) /\ Cardinality(S) = n
    BY ONLY <1>1, FS_Interval
  <2>2. Lists(o, S)
    BY <1>2
  <2> HIDE DEF S, o
  <2> QED BY <2>1, <2>2, ListsCount
<1>5. n = k * c
  BY <1>3, <1>4
<1>6. /\ moved \in Batches(X, Y, n)
      /\ \A i \in 1 .. n : moved.nonTensor[i] = d.nonTensor[o[i]]
  <2> HIDE DEF o
  <2> QED BY <1>2, ReorderedIs
<1>7. n % k = 0 /\ n \div k = c
  <2> HIDE DEF o, moved
  <2> QED BY <1>1, <1>5, TimesDivides
<1>8. s \in Seq(Y) /\ Len(s) = n
  <2> HIDE DEF moved
  <2> QED BY <1>6, BatchIs
<1>9. chunks \in Seq(AnyBatch(X, Y)) /\ Len(chunks) = k /\ Objects(chunks) = Pieces(s, k)
  <2> HIDE DEF moved
  <2> QED BY <1>6, <1>7, ChunksJoin
<1>10. CutsUp(Pieces(s, k), s, k, c)
  <2> HIDE DEF s
  <2>1. Len(s) % k = 0 /\ Len(s) \div k = c
    BY <1>7, <1>8
  <2> QED BY <1>8, <2>1, PiecesAre
<1>11. part = Pieces(s, k)[p]
  <2> HIDE DEF chunks, s
  <2>1. Objects(chunks)[p] = chunks[p].nonTensor
    BY <1>9 DEF Objects
  <2> QED BY <1>9, <2>1
<1>12. part \in Seq(Y)
  <2> HIDE DEF chunks
  <2>1. chunks[p] \in AnyBatch(X, Y)
    BY <1>9
  <2> QED BY <2>1 DEF AnyBatch
<1>13. Len(part) = c /\ \A j \in 1 .. c : part[j] = s[At(p, c, j)]
  <2> HIDE DEF part, s
  <2> QED BY <1>10, <1>11 DEF CutsUp
<1>14. ASSUME NEW j \in 1 .. c PROVE At(p, c, j) \in 1 .. n
  <2> HIDE DEF o
  <2>1. c \in Nat \ {0} /\ n = c * k
    BY <1>5
  <2>2. n % c = 0 /\ n \div c = k
    BY <2>1, TimesDivides
  <2>3. Chunked(n, c, k)
    BY <1>1, <2>1, <2>2, Chunks
  <2> QED BY <2>3 DEF Chunked
<1>15. ASSUME NEW v \in ToSet(part) PROVE v \in ValuesAt(d.nonTensor, ToSet(q[p]))
  <2>1. PICK j \in 1 .. c : v = part[j]
    <3> HIDE DEF part
    <3>1. ToSet(part) = {part[i] : i \in 1 .. c}
      BY <1>12, <1>13 DEF ToSet
    <3> QED BY <3>1
  <2>2. v = d.nonTensor[o[At(p, c, j)]]
    <3> HIDE DEF part, o
    <3> QED BY <1>6, <1>13, <1>14, <2>1
  <2>3. v = d.nonTensor[q[p][j]]
    BY <1>3, <2>2
  <2>4. q[p][j] \in ToSet(q[p])
    <3>1. q[p] \in Seq(1 .. n) /\ Len(q[p]) = c
      BY <1>2
    <3> QED BY <3>1 DEF ToSet
  <2> QED BY <2>3, <2>4 DEF ValuesAt
<1> HIDE DEF part
<1>16. ToSet(part) \subseteq ValuesAt(d.nonTensor, ToSet(q[p]))
  BY <1>15
<1> QED BY <1>16 DEF part

\* With the prefix grouper, and groups of one size that follow each other, no
\* uid has rows on two of the ranks the groups are divided among.
LEMMA OneRank ==
  ASSUME NEW X, NEW Y, NEW w \in Seq(Nat), NEW n, n = Len(w), n >= 1,
         NEW d \in Batches(X, Y, n), NEW k \in Nat \ {0},
         EqualGroups(d.nonTensor), Len(UidGroups(d.nonTensor)) % k = 0
  PROVE  NoUidOnTwoRanks(Chunk(Reorder(d, BalancedOrder(w, d.nonTensor, k)), k))
<1> DEFINE uids == d.nonTensor
           groups == UidGroups(uids)
           m == Len(groups)
           work == Workloads(w)
           size == Len(groups[1])
           q == GroupBalancedPartitions(work, groups, k)
           parts == BalancedPartitions(GroupWork(groups, work), k, TRUE)
           chunks == Chunk(Reorder(d, BalancedOrder(w, uids, k)), k)
<1>1. uids \in Seq(Y) /\ Len(uids) = n /\ n \in Nat
  BY BatchIs
<1>2. BalancedOrder(w, uids, k) = FlattenSeq(q)
  <2>1. uids # <<>>
    <3>1. Len(<<>>) = 0
      OBVIOUS
    <3> HIDE DEF uids
    <3> QED BY <1>1, <3>1
  <2> QED BY <2>1 DEF BalancedOrder
<1> HIDE DEF uids
<1>3. m \in Nat \ {0} /\ Grouping(groups, m, uids)
  BY <1>1, UidGroupsAre
<1>4. Parted(groups, m, n) /\ NoneIsEmpty(groups, m) /\ OneUid(groups, m, uids)
  BY <1>1, <1>3 DEF Grouping
<1>5. /\ m = Cardinality(ToSet(uids))
      /\ \A g, h \in DOMAIN groups : Len(groups[g]) = Len(groups[h])
  BY DEF EqualGroups, uids
<1>6. m % k = 0
  BY DEF uids
<1>7. work \in Seq(Nat) /\ Len(work) = n
  BY WorkloadsAre
<1> HIDE DEF groups, work
<1>8. groups \in Seq(Seq(1 .. n)) /\ DOMAIN groups = 1 .. m /\ 1 \in 1 .. m
  BY <1>3, <1>4 DEF Parted
<1>9. size \in Nat /\ \A g \in 1 .. m : Len(groups[g]) = size
  <2>1. groups[1] \in Seq(1 .. n)
    BY <1>8
  <2>2. Len(groups[1]) \in Nat
    BY <2>1
  <2> QED BY <1>5, <1>8, <2>2
<1> HIDE DEF m, size
<1>10. Shared(q, parts, groups, k, m, n)
  BY <1>3, <1>4, <1>6, <1>7, <1>9, GroupsShared
<1> HIDE DEF q, parts
<1>11. Parted(parts, k, m) /\ Parted(q, k, n) /\ Unfolds(q, parts, groups, k)
  BY <1>10 DEF Shared
<1>12. PICK c \in Nat : \A p \in 1 .. k : Len(q[p]) = c
  BY <1>10 DEF Shared
<1>13. \A p \in 1 .. k : ToSet(chunks[p].nonTensor) \subseteq ValuesAt(uids, ToSet(q[p]))
  <2> TAKE p \in 1 .. k
  <2>1. ToSet(Chunk(Reorder(d, FlattenSeq(q)), k)[p].nonTensor)
          \subseteq ValuesAt(d.nonTensor, ToSet(q[p]))
    <3>1. d \in Batches(X, Y, n) /\ k \in Nat \ {0}
      OBVIOUS
    <3>2. c \in Nat /\ \A r \in 1 .. k : Len(q[r]) = c
      BY <1>12
    <3>3. Parted(q, k, n) /\ p \in 1 .. k
      BY <1>11
    <3> QED BY ONLY <3>1, <3>2, <3>3, ChunksFollow
  <2> QED BY <1>2, <2>1 DEF uids
<1>14. ASSUME NEW p \in 1 .. k, NEW r \in 1 .. k, p # r,
              NEW v, v \in ToSet(chunks[p].nonTensor), v \in ToSet(chunks[r].nonTensor)
       PROVE  FALSE
  <2> HIDE DEF chunks
  <2> DEFINE P == ToSet(q[p])
             R == ToSet(q[r])
  <2>0. v \in ValuesAt(uids, P) /\ v \in ValuesAt(uids, R)
    BY <1>13, <1>14
  <2> HIDE DEF P, R
  <2>1. PICK x \in P : v = uids[x]
    BY <2>0 DEF ValuesAt
  <2>2. PICK y \in R : v = uids[y]
    BY <2>0 DEF ValuesAt
  <2>3. x \in RowsIn(groups, ToSet(parts[p])) /\ y \in RowsIn(groups, ToSet(parts[r]))
    BY <1>11 DEF Unfolds, P, R
  <2>4. PICK g \in ToSet(parts[p]) : x \in ToSet(groups[g])
    BY <2>3 DEF RowsIn
  <2>5. PICK h \in ToSet(parts[r]) : y \in ToSet(groups[h])
    BY <2>3 DEF RowsIn
  <2>6. g \in 1 .. m /\ h \in 1 .. m /\ ToSet(parts[p]) \cap ToSet(parts[r]) = {}
    BY <1>11, <1>14 DEF Parted
  <2>7. \A i, j \in 1 .. m : \A a \in ToSet(groups[i]), b \in ToSet(groups[j]) :
          uids[a] = uids[b] => i = j
    <3>1. uids \in Seq(Y) /\ m \in Nat
      BY <1>1, <1>3
    <3>2. Grouping(groups, m, uids) /\ m = Cardinality(ToSet(uids))
      BY <1>3, <1>5
    <3> QED BY ONLY <3>1, <3>2, UidsDiffer, SMTT(20)
  <2>8. g = h
    BY <2>1, <2>2, <2>4, <2>5, <2>6, <2>7
  <2> QED BY <2>6, <2>8
<1>15. DOMAIN chunks = 1 .. k
  BY DEF Chunk
<1> HIDE DEF chunks
<1>16. NoUidOnTwoRanks(chunks)
  BY <1>14, <1>15 DEF NoUidOnTwoRanks
<1> QED BY <1>16 DEF chunks, uids

\* In every state, for every number of ranks.
LEMMA BatchesReachRanks ==
  ASSUME InputsOK
  PROVE  RowsReachRanks
<1> DEFINE n == Len(scored)
           d == BatchOf(scored)
           w == ScoredLengths
<1>1. scored \in Seq(Row) /\ n \in Nat
  BY DEF InputsOK
<1>2. d \in Batches(Content, Uids, n) /\ Rows(d) = n
  BY <1>1, BatchOfIs, BatchIs
<1>3. w \in Seq(Nat) /\ Len(w) = n
  <2>1. \A i \in 1 .. n : scored[i] \in Row
    BY <1>1
  <2>2. \A i \in 1 .. n : scored[i].length \in Nat
    BY <2>1 DEF Row
  <2>3. w = [i \in 1 .. n |-> scored[i].length]
    BY <1>1 DEF ScoredLengths
  <2>4. [i \in 1 .. n |-> scored[i].length] \in Seq(Nat)
    BY <1>1, <2>2
  <2> QED BY <1>1, <2>3, <2>4
<1> SUFFICES ASSUME scored # <<>>, NEW k \in 1 .. MaxRanks
             PROVE  /\ ComesBack(d, k)
                    /\ Rows(d) % k = 0 =>
                         /\ \A tp \in 1 .. 2, slow \in BOOLEAN :
                              NdCollect(NdDispatch(d, DpRank(k, tp, slow)),
                                        IsCollected(k, tp, slow)) = d
                         /\ SameAdvantages(Reorder(d, BalancedOrder(w, <<>>, k)))
                    /\ EqualGroups(d.nonTensor) /\ Len(UidGroups(d.nonTensor)) % k = 0 =>
                         NoUidOnTwoRanks(Chunk(Reorder(d, BalancedOrder(w, d.nonTensor, k)), k))
  BY DEF RowsReachRanks
<1>4. k \in Nat \ {0}
  BY InputAssumption
<1>5. n \in Nat \ {0} /\ n >= 1
  <2>1. n # 0
    BY <1>1
  <2> HIDE DEF n
  <2> QED BY <1>1, <2>1
<1>6. ComesBack(d, k)
  <2> HIDE DEF d, n
  <2> QED BY <1>2, <1>4, <1>5, PaddingUndone
<1>7. ASSUME Rows(d) % k = 0, NEW tp \in 1 .. 2, NEW slow \in BOOLEAN
      PROVE  NdCollect(NdDispatch(d, DpRank(k, tp, slow)), IsCollected(k, tp, slow)) = d
  <2> HIDE DEF d, n
  <2>1. n % k = 0
    BY <1>2, <1>7
  <2> QED BY <1>2, <1>4, <2>1, MeshUndone
<1>8. ASSUME Rows(d) % k = 0
      PROVE  SameAdvantages(Reorder(d, BalancedOrder(w, <<>>, k)))
  <2> DEFINE o == BalancedOrder(w, <<>>, k)
  <2> HIDE DEF w, n
  <2>1. Len(w) % k = 0 /\ Len(w) \in Nat \ {0}
    BY <1>2, <1>3, <1>5, <1>8
  <2>2. k \in 1 .. Len(w)
    BY <1>4, <2>1, DivisorIsLess
  <2>3. Lists(o, 1 .. n)
    BY <1>3, <2>1, <2>2, OrderBalanced
  <2> HIDE DEF o, d
  <2>4. SameAdvantages(Reorder(BatchOf(scored), o))
    BY <2>3, AdvantagesKept DEF n
  <2> QED BY <2>4 DEF o, d
<1>9. ASSUME EqualGroups(d.nonTensor), Len(UidGroups(d.nonTensor)) % k = 0
      PROVE  NoUidOnTwoRanks(Chunk(Reorder(d, BalancedOrder(w, d.nonTensor, k)), k))
  <2> HIDE DEF d, n, w
  <2> QED BY <1>2, <1>3, <1>4, <1>5, <1>9, OneRank
<1> QED BY <1>6, <1>7, <1>8, <1>9

\* Whatever the rows of a batch: it comes back from the ranks row by row, with
\* its uids, through the padding of either kind and through both layouts of a
\* mesh; the order balancing gives it leaves every row its advantage; and with
\* the prefix grouper and groups of one size, a prompt is on one rank.
THEOREM RowsComeBack == Spec => []RowsReachRanks
<1>1. InputsOK => RowsReachRanks
  BY BatchesReachRanks
<1> QED BY <1>1, InputsTyped, PTL
=============================================================================
