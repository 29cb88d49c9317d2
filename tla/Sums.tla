-------------------------------- MODULE Sums --------------------------------
(***************************************************************************)
(* Facts about the sums of Functions over finite sets, which are folds and *)
(* so recursive functions on subsets.  Every proof by induction is a proof *)
(* that a set of naturals, or of subsets, is the whole set: it needs no    *)
(* operator for the property, only the least element of what is missing.   *)
(***************************************************************************)
EXTENDS Integers, Functions, FiniteSetTheorems, WellFoundedInduction, TLAPS

\* A set of naturals that is closed under successor is all of them.
LEMMA NatInduct ==
  ASSUME NEW X \in SUBSET Nat, 0 \in X, \A n \in X : n + 1 \in X
  PROVE  X = Nat
<1> DEFINE T == Nat \ X
           R == OpToRel(<, Nat)
<1> SUFFICES ASSUME T # {} PROVE FALSE
  OBVIOUS
<1>1. \E x \in T : \A y \in T : <<y, x>> \notin R
  <2>1. IsWellFoundedOn(R, Nat)
    BY NatLessThanWellFounded
  <2> HIDE DEF R
  <2> QED
    BY <2>1, WFMin
<1>2. PICK x \in T : \A y \in T : <<y, x>> \notin R
  BY <1>1
<1>3. x # 0 /\ x - 1 \in Nat /\ x - 1 < x
  OBVIOUS
<1>4. x - 1 \in X
  BY <1>2, <1>3 DEF OpToRel
<1> QED
  BY <1>3, <1>4

\* A set of subsets of a finite set that is closed under adding an element has
\* the whole set in it.
LEMMA SubsetInduct ==
  ASSUME NEW S, IsFiniteSet(S), NEW F \in SUBSET SUBSET S, {} \in F,
         \A s \in F : \A x \in S \ s : s \cup {x} \in F
  PROVE  S \in F
<1> DEFINE X == {n \in Nat : \A s \in SUBSET S : Cardinality(s) = n => s \in F}
<1>1. \A s \in SUBSET S : IsFiniteSet(s) /\ Cardinality(s) \in Nat
  BY FS_Subset, FS_CardinalityType
<1>2. 0 \in X
  BY <1>1, FS_EmptySet
<1>3. ASSUME NEW n \in X
      PROVE  n + 1 \in X
  <2> SUFFICES ASSUME NEW s \in SUBSET S, Cardinality(s) = n + 1
               PROVE  s \in F
    OBVIOUS
  <2>1. s # {}
    <3>1. Cardinality({}) = 0 /\ n \in Nat
      BY FS_EmptySet
    <3> QED
      BY <3>1
  <2>2. PICK x \in s : TRUE
    BY <2>1
  <2>3. Cardinality(s \ {x}) = n
    BY <1>1, FS_RemoveElement
  <2>4. s \ {x} \in F /\ s = (s \ {x}) \cup {x}
    BY <2>3
  <2> QED
    BY <2>4
<1>4. X = Nat
  <2> HIDE DEF X
  <2>1. X \in SUBSET Nat
    BY DEF X
  <2> QED
    BY <1>2, <1>3, <2>1, NatInduct
<1> QED
  BY <1>1, <1>4

-----------------------------------------------------------------------------
(***************************************************************************)
(* The sum is what its recursive definition says.                          *)
(***************************************************************************)
Some(s) == CHOOSE x \in s : TRUE

\* One round of the fold.
Round(f, g, s) == IF s = {} THEN 0 ELSE f[Some(s)] + g[s \ {Some(s)}]

IsFold(f, S, g) == g = [s \in SUBSET S |-> Round(f, g, s)]

LEMMA SumIsFold ==
  ASSUME NEW S, NEW f
  PROVE  SumFunctionOnSet(f, S) = (CHOOSE g : IsFold(f, S, g))[S]
BY Zenon
   DEF SumFunctionOnSet, FoldFunctionOnSet, MapThenFoldSet, IsFold, Round, Some

LEMMA SomeIsIn == ASSUME NEW s, s # {} PROVE Some(s) \in s
BY DEF Some

\* There is such a fold: one that is right for all sets up to some size can be
\* made right for the next.
LEMMA FoldExists ==
  ASSUME NEW S, IsFiniteSet(S), NEW f, \A x \in S : f[x] \in Nat
  PROVE  \E g \in [SUBSET S -> Nat] : IsFold(f, S, g)
<1> DEFINE
      Good(g, n) == \A s \in SUBSET S : Cardinality(s) <= n => g[s] = Round(f, g, s)
      X == {n \in Nat : \E g \in [SUBSET S -> Nat] : Good(g, n)}
<1>1. \A s \in SUBSET S : IsFiniteSet(s) /\ Cardinality(s) \in Nat
  BY FS_Subset, FS_CardinalityType
<1>2. 0 \in X
  <2> DEFINE g == [s \in SUBSET S |-> 0]
  <2>1. Good(g, 0)
    BY <1>1, FS_EmptySet DEF Round
  <2> QED
    BY <2>1
<1>3. ASSUME NEW n \in X
      PROVE  n + 1 \in X
  <2>1. PICK g \in [SUBSET S -> Nat] : Good(g, n)
    OBVIOUS
  <2> DEFINE h == [s \in SUBSET S |-> Round(f, g, s)]
  <2>2. h \in [SUBSET S -> Nat]
    BY SomeIsIn DEF Round
  <2>3. ASSUME NEW s \in SUBSET S, Cardinality(s) <= n + 1
        PROVE  h[s] = Round(f, h, s)
    <3>1. CASE s = {}
      BY <3>1 DEF Round
    <3>2. CASE s # {}
      <4> DEFINE r == s \ {Some(s)}
      <4>1. r \in SUBSET S /\ Cardinality(r) = Cardinality(s) - 1
        BY <1>1, <3>2, SomeIsIn, FS_RemoveElement
      <4>2. g[r] = Round(f, g, r)
        BY <1>1, <2>1, <2>3, <4>1
      <4>3. h[r] = g[r]
        BY <4>1, <4>2
      <4> QED
        BY <3>2, <4>3 DEF Round
    <3> QED
      BY <3>1, <3>2
  <2>4. Good(h, n + 1)
    BY <2>3
  <2> HIDE DEF h
  <2> QED
    BY <2>2, <2>4
<1>4. X = Nat
  <2> HIDE DEF X
  <2>1. X \in SUBSET Nat
    BY DEF X
  <2> QED
    BY <1>2, <1>3, <2>1, NatInduct
<1>5. PICK g \in [SUBSET S -> Nat] : Good(g, Cardinality(S))
  BY <1>1, <1>4
<1>6. \A s \in SUBSET S : Cardinality(s) <= Cardinality(S)
  BY FS_Subset
<1> QED
  BY <1>5, <1>6 DEF IsFold

\* Folds of functions that agree on a finite set agree on it, whatever larger
\* sets they are folds over.
LEMMA FoldsAgree ==
  ASSUME NEW S, NEW T, NEW C, IsFiniteSet(C), C \subseteq S, C \subseteq T,
         NEW f, NEW k, \A x \in C : f[x] = k[x],
         NEW g, NEW h, IsFold(f, S, g), IsFold(k, T, h)
  PROVE  g[C] = h[C]
<1> DEFINE X == {n \in Nat : \A s \in SUBSET C : Cardinality(s) = n => g[s] = h[s]}
<1>1. \A s \in SUBSET C : /\ IsFiniteSet(s) /\ Cardinality(s) \in Nat
                          /\ g[s] = Round(f, g, s) /\ h[s] = Round(k, h, s)
  BY FS_Subset, FS_CardinalityType DEF IsFold
<1>2. 0 \in X
  <2>1. \A s \in SUBSET C : Cardinality(s) = 0 => s = {}
    BY <1>1, FS_EmptySet
  <2> QED
    BY <1>1, <2>1 DEF Round
<1>3. ASSUME NEW n \in X
      PROVE  n + 1 \in X
  <2> SUFFICES ASSUME NEW s \in SUBSET C, Cardinality(s) = n + 1
               PROVE  g[s] = h[s]
    OBVIOUS
  <2>1. s # {}
    <3>1. Cardinality({}) = 0 /\ n \in Nat
      BY FS_EmptySet
    <3> QED
      BY <3>1
  <2>2. Some(s) \in s
    BY <2>1, SomeIsIn
  <2> DEFINE r == s \ {Some(s)}
  <2>3. r \in SUBSET C /\ Cardinality(r) = n
    <3>1. n \in Nat /\ IsFiniteSet(s)
      BY <1>1
    <3>2. Cardinality(r) = Cardinality(s) - 1
      BY <2>2, <3>1, FS_RemoveElement
    <3> QED
      BY <3>1, <3>2
  <2>4. g[r] = h[r] /\ f[Some(s)] = k[Some(s)]
    BY <2>2, <2>3
  <2> QED
    BY <1>1, <2>1, <2>4 DEF Round
<1>4. X = Nat
  <2> HIDE DEF X
  <2>1. X \in SUBSET Nat
    BY DEF X
  <2> QED
    BY <1>2, <1>3, <2>1, NatInduct
<1> QED
  BY <1>1, <1>4

\* The sum's own fold.
LEMMA SumFold ==
  ASSUME NEW S, IsFiniteSet(S), NEW f, \A x \in S : f[x] \in Nat
  PROVE  \E g \in [SUBSET S -> Nat] : IsFold(f, S, g) /\ g[S] = SumFunctionOnSet(f, S)
<1>1. PICK g \in [SUBSET S -> Nat] : IsFold(f, S, g)
  BY FoldExists
<1> DEFINE h == CHOOSE h : IsFold(f, S, h)
<1>2. IsFold(f, S, h)
  BY <1>1
<1> HIDE DEF h
<1>3. g[S] = h[S]
  BY <1>1, <1>2, FoldsAgree
<1> QED
  BY <1>1, <1>3, SumIsFold DEF h

-----------------------------------------------------------------------------
(***************************************************************************)
(* Sums of naturals.                                                       *)
(***************************************************************************)
LEMMA SumType ==
  ASSUME NEW S, IsFiniteSet(S), NEW f, \A x \in S : f[x] \in Nat
  PROVE  SumFunctionOnSet(f, S) \in Nat
<1>1. PICK g \in [SUBSET S -> Nat] : IsFold(f, S, g) /\ g[S] = SumFunctionOnSet(f, S)
  BY SumFold
<1> QED
  BY <1>1

LEMMA SumSame ==
  ASSUME NEW S, IsFiniteSet(S), NEW f, NEW k,
         \A x \in S : f[x] \in Nat /\ f[x] = k[x]
  PROVE  SumFunctionOnSet(f, S) = SumFunctionOnSet(k, S)
<1>1. PICK g \in [SUBSET S -> Nat] : IsFold(f, S, g) /\ g[S] = SumFunctionOnSet(f, S)
  BY SumFold
<1>2. PICK h \in [SUBSET S -> Nat] : IsFold(k, S, h) /\ h[S] = SumFunctionOnSet(k, S)
  BY SumFold
<1> QED
  BY <1>1, <1>2, FoldsAgree

LEMMA SumEmpty ==
  ASSUME NEW f
  PROVE  SumFunctionOnSet(f, {}) = 0
<1>1. PICK g \in [SUBSET {} -> Nat] : IsFold(f, {}, g) /\ g[{}] = SumFunctionOnSet(f, {})
  BY SumFold, FS_EmptySet
<1> QED
  BY <1>1 DEF IsFold, Round

\* The fold takes out one element ...
LEMMA SumSome ==
  ASSUME NEW S, IsFiniteSet(S), S # {}, NEW f, \A x \in S : f[x] \in Nat
  PROVE  SumFunctionOnSet(f, S)
           = f[Some(S)] + SumFunctionOnSet(f, S \ {Some(S)})
<1> DEFINE R == S \ {Some(S)}
<1>1. IsFiniteSet(R) /\ R \subseteq S
  BY FS_RemoveElement
<1>2. PICK g \in [SUBSET S -> Nat] : IsFold(f, S, g) /\ g[S] = SumFunctionOnSet(f, S)
  BY SumFold
<1>3. PICK h \in [SUBSET R -> Nat] : IsFold(f, R, h) /\ h[R] = SumFunctionOnSet(f, R)
  BY <1>1, SumFold
<1>4. g[R] = h[R]
  BY <1>1, <1>2, <1>3, FoldsAgree
<1>5. g[S] = f[Some(S)] + g[R]
  BY <1>2 DEF IsFold, Round
<1> QED
  BY <1>2, <1>3, <1>4, <1>5

\* ... and it does not matter which.
LEMMA SumRemove ==
  ASSUME NEW S, IsFiniteSet(S), NEW f, \A x \in S : f[x] \in Nat, NEW a \in S
  PROVE  SumFunctionOnSet(f, S) = f[a] + SumFunctionOnSet(f, S \ {a})
<1> DEFINE
      sum(s) == SumFunctionOnSet(f, s)
      X == {n \in Nat : \A s \in SUBSET S : Cardinality(s) = n =>
                          \A x \in s : sum(s) = f[x] + sum(s \ {x})}
<1>1. \A s \in SUBSET S : /\ IsFiniteSet(s) /\ Cardinality(s) \in Nat
                          /\ sum(s) \in Nat
  BY FS_Subset, FS_CardinalityType, SumType
<1>2. 0 \in X
  BY <1>1, FS_EmptySet
<1>3. ASSUME NEW n \in X
      PROVE  n + 1 \in X
  <2> SUFFICES ASSUME NEW s \in SUBSET S, Cardinality(s) = n + 1, NEW x \in s
               PROVE  sum(s) = f[x] + sum(s \ {x})
    OBVIOUS
  <2> DEFINE y == Some(s)
  <2>1. y \in s
    BY SomeIsIn
  <2>2. sum(s) = f[y] + sum(s \ {y})
    BY <1>1, SumSome
  <2> HIDE DEF y
  <2>3. CASE x = y
    BY <2>2, <2>3
  <2>4. CASE x # y
    <3>1. /\ s \ {y} \in SUBSET S /\ Cardinality(s \ {y}) = n /\ x \in s \ {y}
          /\ s \ {x} \in SUBSET S /\ Cardinality(s \ {x}) = n /\ y \in s \ {x}
      <4>1. n \in Nat /\ IsFiniteSet(s)
        BY <1>1
      <4>2. /\ Cardinality(s \ {y}) = Cardinality(s) - 1
            /\ Cardinality(s \ {x}) = Cardinality(s) - 1
        BY <2>1, <4>1, FS_RemoveElement
      <4> QED
        BY <2>1, <2>4, <4>1, <4>2
    <3> DEFINE r == (s \ {x}) \ {y}
    <3>2. r = (s \ {y}) \ {x} /\ r \in SUBSET S
      OBVIOUS
    <3>3. sum(s \ {x}) = f[y] + sum(r) /\ sum(s \ {y}) = f[x] + sum(r)
      BY <3>1, <3>2
    <3>4. f[x] \in Nat /\ f[y] \in Nat /\ sum(r) \in Nat
      BY <1>1, <2>1, <3>2
    <3> HIDE DEF sum, r
    <3> QED
      BY <2>2, <3>3, <3>4
  <2> QED
    BY <2>3, <2>4
<1>4. X = Nat
  <2> HIDE DEF X
  <2>1. X \in SUBSET Nat
    BY DEF X
  <2> QED
    BY <1>2, <1>3, <2>1, NatInduct
<1> QED
  BY <1>1, <1>4

\* What is 0 need not be summed.
LEMMA SumZeros ==
  ASSUME NEW S, IsFiniteSet(S), NEW f, \A x \in S : f[x] \in Nat,
         NEW T \in SUBSET S, \A x \in S \ T : f[x] = 0
  PROVE  SumFunctionOnSet(f, S) = SumFunctionOnSet(f, T)
<1> DEFINE
      sum(s) == SumFunctionOnSet(f, s)
      Z == S \ T
      F == {z \in SUBSET Z : sum(T \cup z) = sum(T)}
<1>1. \A s \in SUBSET S : IsFiniteSet(s) /\ sum(s) \in Nat
  BY FS_Subset, SumType
<1>2. {} \in F
  OBVIOUS
<1>3. ASSUME NEW z \in F, NEW x \in Z \ z
      PROVE  z \cup {x} \in F
  <2> DEFINE U == T \cup (z \cup {x})
  <2>1. U \in SUBSET S /\ x \in U /\ U \ {x} = T \cup z /\ f[x] = 0
    OBVIOUS
  <2>2. sum(U) = f[x] + sum(U \ {x})
    BY <1>1, <2>1, SumRemove
  <2>3. sum(U) = sum(T \cup z)
    <3>1. T \cup z \in SUBSET S
      OBVIOUS
    <3>2. sum(U \ {x}) = sum(T \cup z) /\ sum(T \cup z) \in Nat
      BY <1>1, <2>1, <3>1
    <3> HIDE DEF sum
    <3> QED
      BY <2>1, <2>2, <3>2
  <2> QED
    BY <2>3
<1>4. Z \in F
  <2>1. IsFiniteSet(Z)
    BY <1>1
  <2> HIDE DEF F
  <2>2. F \in SUBSET SUBSET Z
    BY DEF F
  <2> QED
    BY <1>2, <1>3, <2>1, <2>2, SubsetInduct
<1>5. T \cup Z = S
  OBVIOUS
<1> QED
  BY <1>4, <1>5

\* A sum of numbers up to m.
LEMMA SumAtMost ==
  ASSUME NEW S, IsFiniteSet(S), NEW f, NEW m \in Nat,
         \A x \in S : f[x] \in Nat /\ f[x] <= m
  PROVE  SumFunctionOnSet(f, S) <= m * Cardinality(S)
<1> DEFINE
      sum(s) == SumFunctionOnSet(f, s)
      F == {z \in SUBSET S : sum(z) <= m * Cardinality(z)}
<1>1. \A s \in SUBSET S :
        IsFiniteSet(s) /\ sum(s) \in Nat /\ Cardinality(s) \in Nat
  BY FS_Subset, SumType, FS_CardinalityType
<1>2. {} \in F
  <2>1. sum({}) = 0 /\ Cardinality({}) = 0
    BY SumEmpty, FS_EmptySet
  <2> HIDE DEF sum
  <2> QED
    BY <2>1
<1>3. ASSUME NEW z \in F, NEW x \in S \ z
      PROVE  z \cup {x} \in F
  <2> DEFINE U == z \cup {x}
  <2>1. U \in SUBSET S /\ x \in U /\ U \ {x} = z /\ z \in SUBSET S
    OBVIOUS
  <2>2. sum(U) = f[x] + sum(z)
    <3>1. IsFiniteSet(U) /\ \A y \in U : f[y] \in Nat
      BY <1>1, <2>1
    <3> HIDE DEF U
    <3> QED
      BY <2>1, <3>1, SumRemove
  <2>3. Cardinality(U) = Cardinality(z) + 1
    BY <1>1, <2>1, FS_AddElement
  <2>4. sum(z) <= m * Cardinality(z) /\ f[x] \in Nat /\ f[x] <= m
    OBVIOUS
  <2>5. m * Cardinality(U) = m * Cardinality(z) + m /\ m * Cardinality(z) \in Nat
    <3> DEFINE k == Cardinality(z)
    <3>1. k \in Nat
      BY <1>1, <2>1
    <3> HIDE DEF k
    <3>2. m * (k + 1) = m * k + m /\ m * k \in Nat
      BY <3>1
    <3> QED
      BY <2>3, <3>2 DEF k
  <2>6. sum(U) <= m * Cardinality(U)
    <3>1. sum(z) \in Nat
      BY <1>1, <2>1
    <3> HIDE DEF sum, U
    <3> QED
      BY <2>2, <2>4, <2>5, <3>1
  <2> QED
    BY <2>1, <2>6
<1>4. S \in F
  <2> HIDE DEF F
  <2>1. F \in SUBSET SUBSET S
    BY DEF F
  <2> QED
    BY <1>2, <1>3, <2>1, SubsetInduct
<1> QED
  BY <1>4

\* A sum is the same under other names of its terms.
LEMMA SumRenamed ==
  ASSUME NEW S, IsFiniteSet(S), NEW f, \A x \in S : f[x] \in Nat,
         NEW b, \A x, y \in S : b[x] = b[y] => x = y,
         NEW k, \A x \in S : k[b[x]] = f[x]
  PROVE  SumFunctionOnSet(k, {b[x] : x \in S}) = SumFunctionOnSet(f, S)
<1> DEFINE
      image(s) == {b[x] : x \in s}
      F == {s \in SUBSET S : /\ IsFiniteSet(image(s))
                             /\ SumFunctionOnSet(k, image(s)) = SumFunctionOnSet(f, s)}
<1>1. {} \in F
  <2>1. image({}) = {}
    OBVIOUS
  <2> QED
    BY <2>1, SumEmpty, FS_EmptySet
<1>2. ASSUME NEW s \in F, NEW x \in S \ s
      PROVE  s \cup {x} \in F
  <2> DEFINE t == s \cup {x}
  <2>1. /\ t \in SUBSET S /\ image(t) = image(s) \cup {b[x]}
        /\ t \ {x} = s /\ image(t) \ {b[x]} = image(s)
    OBVIOUS
  <2>2. IsFiniteSet(image(t)) /\ IsFiniteSet(t)
    BY <2>1, FS_AddElement, FS_Subset
  <2>3. SumFunctionOnSet(f, t) = f[x] + SumFunctionOnSet(f, s)
    BY <2>1, <2>2, SumRemove
  <2>4. SumFunctionOnSet(k, image(t)) = k[b[x]] + SumFunctionOnSet(k, image(s))
    <3>1. \A u \in image(t) : k[u] \in Nat
      BY <2>1
    <3>2. b[x] \in image(t)
      OBVIOUS
    <3> HIDE DEF image
    <3>3. SumFunctionOnSet(k, image(t))
            = k[b[x]] + SumFunctionOnSet(k, image(t) \ {b[x]})
      BY <2>2, <3>1, <3>2, SumRemove
    <3> QED
      BY <2>1, <3>3
  <2> QED
    BY <2>1, <2>2, <2>3, <2>4
<1>3. S \in F
  <2> HIDE DEF F
  <2>1. F \in SUBSET SUBSET S
    BY DEF F
  <2> QED
    BY <1>1, <1>2, <2>1, SubsetInduct
<1> QED
  BY <1>3

\* A finite set is as large under other names of its elements.
LEMMA CountRenamed ==
  ASSUME NEW S, IsFiniteSet(S), NEW b, \A x, y \in S : b[x] = b[y] => x = y
  PROVE  /\ IsFiniteSet({b[x] : x \in S})
         /\ Cardinality({b[x] : x \in S}) = Cardinality(S)
<1> DEFINE T == {b[x] : x \in S}
           c == [x \in S |-> b[x]]
<1>1. c \in Bijection(S, T)
  BY DEF Bijection, Injection, Surjection, IsInjective
<1>2. ExistsBijection(S, T)
  BY <1>1 DEF ExistsBijection
<1> QED
  BY <1>2, FS_Bijection

-----------------------------------------------------------------------------
(***************************************************************************)
(* Division and remainder.                                                 *)
(***************************************************************************)
LEMMA DivMod ==
  ASSUME NEW a \in Nat, NEW n \in Nat \ {0}
  PROVE  /\ a \div n \in Nat /\ a % n \in 0..(n - 1)
         /\ a = n * (a \div n) + (a % n)
OBVIOUS

\* Two numbers less than n apart have different remainders.
LEMMA ModDiffers ==
  ASSUME NEW a \in Nat, NEW b \in Nat, NEW n \in Nat \ {0}, a < b, b < a + n
  PROVE  a % n # b % n
<1> DEFINE p == a \div n
           q == b \div n
<1>1. SUFFICES ASSUME a % n = b % n PROVE FALSE
  OBVIOUS
<1>2. p \in Nat /\ q \in Nat /\ b - a = n * q - n * p
  <2>1. p \in Nat /\ a % n \in Nat /\ a = n * p + (a % n)
    BY DivMod
  <2>2. q \in Nat /\ b % n \in Nat /\ b = n * q + (b % n)
    BY DivMod
  <2> HIDE DEF p, q
  <2> QED
    BY <1>1, <2>1, <2>2
<1>3. n * q - n * p = n * (q - p) /\ q - p \in Int
  BY <1>2
<1> HIDE DEF p, q
<1>4. CASE q - p <= 0
  <2>1. n * (q - p) <= 0
    BY <1>3, <1>4
  <2> QED
    BY <1>2, <1>3, <2>1
<1>5. CASE q - p >= 1
  <2>1. n * (q - p) >= n
    BY <1>3, <1>5
  <2> QED
    BY <1>2, <1>3, <2>1
<1> QED
  BY <1>3, <1>4, <1>5

\* A whole round leaves the remainder as it is.
LEMMA ModRound ==
  ASSUME NEW a \in Nat, NEW n \in Nat \ {0}
  PROVE  (a + n) % n = a % n
<1> DEFINE p == a \div n
           q == (a + n) \div n
           r == a % n
           t == (a + n) % n
<1>1. p \in Nat /\ r \in 0..(n - 1) /\ a = n * p + r
  BY DivMod
<1>2. q \in Nat /\ t \in 0..(n - 1) /\ a + n = n * q + t
  <2>1. a + n \in Nat
    OBVIOUS
  <2> QED
    BY <2>1, DivMod
<1> HIDE DEF p, q, r, t
<1>3. n * (q - p) = n + r - t
  BY <1>1, <1>2
<1>4. q - p > 0
  <2>1. CASE q - p <= 0
    <3>1. n * (q - p) <= 0
      BY <1>1, <1>2, <2>1
    <3> QED
      BY <1>1, <1>2, <1>3, <3>1
  <2> QED
    BY <1>1, <1>2, <2>1
<1>5. q - p < 2
  <2>1. CASE q - p >= 2
    <3>1. n * (q - p) >= 2 * n
      BY <1>1, <1>2, <2>1
    <3> QED
      BY <1>1, <1>2, <1>3, <3>1
  <2> QED
    BY <1>1, <1>2, <2>1
<1>6. q - p = 1
  BY <1>1, <1>2, <1>4, <1>5
<1> QED
  BY <1>1, <1>2, <1>3, <1>6 DEF r, t
\* The quotient is the number of whole rounds, and no other number is.
LEMMA DivRounds ==
  ASSUME NEW a \in Nat, NEW n \in Nat \ {0}, NEW q \in Nat
  PROVE  (a \div n = q) <=> (n * q <= a /\ a < n * q + n)
<1> DEFINE p == a \div n
<1>1. p \in Nat /\ a % n \in 0..(n - 1) /\ a = n * p + (a % n)
  BY DivMod
<1>2. n * p <= a /\ a < n * p + n
  <2> HIDE DEF p
  <2> QED
    BY <1>1
<1>3. ASSUME n * q <= a, a < n * q + n
      PROVE  p = q
  <2>1. p \in Nat
    BY <1>1
  <2> HIDE DEF p
  <2>2. \A x, y \in Nat : x < y => n * x + n <= n * y
    <3> SUFFICES ASSUME NEW x \in Nat, NEW y \in Nat, x < y
                 PROVE  n * x + n <= n * y
      OBVIOUS
    <3>1. n * (x + 1) <= n * y
      OBVIOUS
    <3>2. n * (x + 1) = n * x + n
      OBVIOUS
    <3> QED
      BY <3>1, <3>2
  <2>3. n * p \in Nat /\ n * q \in Nat
    BY <2>1
  <2>4. ~(p < q) /\ ~(q < p)
    BY <1>2, <1>3, <2>1, <2>2, <2>3
  <2> QED
    BY <2>1, <2>4
<1> QED
  BY <1>2, <1>3

LEMMA DivRound ==
  ASSUME NEW a \in Nat, NEW n \in Nat \ {0}
  PROVE  (a + n) \div n = (a \div n) + 1
<1> DEFINE p == a \div n
<1>1. p \in Nat
  BY DivMod
<1>2. n * p <= a /\ a < n * p + n
  BY <1>1, DivRounds
<1> HIDE DEF p
<1>3. n * (p + 1) = n * p + n /\ p + 1 \in Nat /\ a + n \in Nat /\ n * p \in Nat
  BY <1>1
<1>4. n * (p + 1) <= a + n /\ a + n < n * (p + 1) + n
  BY <1>2, <1>3
<1>5. (a + n) \div n = p + 1
  BY <1>3, <1>4, DivRounds
<1> QED
  BY <1>5 DEF p
=============================================================================
