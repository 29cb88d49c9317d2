-------------------------- MODULE DynamicFeeProofs --------------------------
(***************************************************************************)
(* Proofs about DynamicFee, for every answer: each estimate is what the    *)
(* comments of the code say of it, told by counting samples, and the fee   *)
(* stays under its cap.                                                    *)
(***************************************************************************)
EXTENDS DynamicFee, SequenceTheorems, Sums

-----------------------------------------------------------------------------
(***************************************************************************)
(* Sorting: the places of a list are a permutation of its indices.         *)
(***************************************************************************)
\* What is sorted before i, i itself included.
UpTo(key, i) == {j \in DOMAIN key : key[j] < key[i] \/ (key[j] = key[i] /\ j <= i)}

LEMMA PlaceType ==
  ASSUME NEW n \in Nat, NEW key \in [1..n -> Int], NEW i \in 1..n
  PROVE  /\ UpTo(key, i) \in SUBSET (1..n) /\ IsFiniteSet(UpTo(key, i))
         /\ Place(key, i) = Cardinality(UpTo(key, i))
         /\ Place(key, i) \in 1..n
<1>1. IsFiniteSet(1..n) /\ Cardinality(1..n) = n
  BY FS_Interval
<1>2. UpTo(key, i) \in SUBSET (1..n) /\ i \in UpTo(key, i)
  BY DEF UpTo
<1>3. Place(key, i) = Cardinality(UpTo(key, i))
  BY DEF Place, UpTo
<1>4. /\ IsFiniteSet(UpTo(key, i)) /\ Cardinality(UpTo(key, i)) <= n
  BY <1>1, <1>2, FS_Subset
<1>5. Cardinality(UpTo(key, i)) \in Nat /\ Cardinality(UpTo(key, i)) # 0
  BY <1>2, <1>4, FS_CardinalityType, FS_EmptySet
<1> QED
  BY <1>2, <1>3, <1>4, <1>5

LEMMA PlacesDiffer ==
  ASSUME NEW n \in Nat, NEW key \in [1..n -> Int],
         NEW i \in 1..n, NEW j \in 1..n, Place(key, i) = Place(key, j)
  PROVE  i = j
<1>1. ASSUME NEW x \in 1..n, NEW y \in 1..n, Place(key, x) = Place(key, y),
             key[x] < key[y] \/ (key[x] = key[y] /\ x < y)
      PROVE  FALSE
  <2>1. UpTo(key, x) \subseteq UpTo(key, y)
    BY <1>1 DEF UpTo
  <2>2. y \in UpTo(key, y) /\ y \notin UpTo(key, x)
    BY <1>1 DEF UpTo
  <2>3. UpTo(key, x) = UpTo(key, y)
    BY <1>1, <2>1, PlaceType, FS_Subset
  <2> QED
    BY <2>2, <2>3
<1> QED
  BY <1>1

LEMMA PlaceTaken ==
  ASSUME NEW n \in Nat, NEW key \in [1..n -> Int], NEW k \in 1..n
  PROVE  \E i \in 1..n : Place(key, i) = k
<1> DEFINE f == [i \in 1..n |-> Place(key, i)]
<1>1. f \in Injection(1..n, 1..n)
  <2>1. \A i \in 1..n : Place(key, i) \in 1..n
    BY PlaceType
  <2>2. \A i, j \in 1..n : Place(key, i) = Place(key, j) => i = j
    BY PlacesDiffer
  <2> QED
    BY <2>1, <2>2 DEF Injection, IsInjective
<1>2. IsFiniteSet(1..n)
  BY FS_Interval
<1>3. f \in Surjection(1..n, 1..n)
  BY <1>1, <1>2, FS_Injection
<1> QED
  BY <1>3 DEF Surjection

\* The index of what comes k-th.
At(key, k) == CHOOSE i \in DOMAIN key : Place(key, i) = k

LEMMA AtPlace ==
  ASSUME NEW n \in Nat, NEW key \in [1..n -> Int]
  PROVE  /\ \A k \in 1..n : At(key, k) \in 1..n /\ Place(key, At(key, k)) = k
         /\ \A i \in 1..n : Place(key, i) \in 1..n /\ At(key, Place(key, i)) = i
<1>1. ASSUME NEW k \in 1..n
      PROVE  At(key, k) \in 1..n /\ Place(key, At(key, k)) = k
  <2>1. \E i \in DOMAIN key : Place(key, i) = k
    BY PlaceTaken
  <2>2. At(key, k) \in DOMAIN key /\ Place(key, At(key, k)) = k
    BY <2>1 DEF At
  <2> QED
    BY <2>2
<1>2. ASSUME NEW i \in 1..n
      PROVE  Place(key, i) \in 1..n /\ At(key, Place(key, i)) = i
  <2>1. Place(key, i) \in 1..n
    BY PlaceType
  <2> QED
    BY <1>1, <2>1, PlacesDiffer
<1> QED
  BY <1>1, <1>2

LEMMA SortedAt ==
  ASSUME NEW n \in Nat, NEW key \in [1..n -> Int], NEW list, DOMAIN list = 1..n
  PROVE  SortedBy(key, list) = [k \in 1..n |-> list[At(key, k)]]
BY DEF SortedBy, At

-----------------------------------------------------------------------------
(***************************************************************************)
(* The answers: one sample per slot, in order for Triton, and not empty    *)
(* from a service that estimates by itself.                                *)
(***************************************************************************)
Unique(list) ==
  \A i, j \in DOMAIN list : list[i].slot = list[j].slot => i = j

InSlots(list) == \A i \in DOMAIN list : list[i].slot = i

LEMMA InOrderIs ==
  ASSUME NEW n \in 0..MaxSamples, NEW list \in InOrder(n)
  PROVE  list \in Seq(Sample) /\ Len(list) = n /\ InSlots(list)
<1>1. n \in Nat /\ MaxSamples \in Nat
  BY FeeAssumption
<1>2. PICK f \in [1..n -> Paid] : list = [i \in 1..n |-> [slot |-> i, fee |-> f[i]]]
  BY DEF InOrder
<1>3. list \in [1..n -> Sample]
  BY <1>1, <1>2 DEF Sample
<1>4. list \in Seq(Sample) /\ Len(list) = n
  BY <1>1, <1>3
<1> QED
  BY <1>2, <1>4 DEF InSlots

LEMMA ReverseIs ==
  ASSUME NEW list \in Seq(Sample), Unique(list)
  PROVE  Reverse(list) \in Seq(Sample) /\ Unique(Reverse(list))
<1> DEFINE n == Len(list)
<1>1. n \in Nat /\ DOMAIN list = 1..n /\ (\A i \in 1..n : list[i] \in Sample)
  OBVIOUS
<1>2. Reverse(list) = [i \in 1..n |-> list[(n - i) + 1]]
  BY DEF Reverse
<1> HIDE DEF n
<1>3. \A i \in 1..n : (n - i) + 1 \in 1..n
  BY <1>1
<1>4. Reverse(list) \in [1..n -> Sample]
  BY <1>1, <1>2, <1>3
<1>5. Unique(Reverse(list))
  <2> SUFFICES ASSUME NEW i \in 1..n, NEW j \in 1..n,
                      Reverse(list)[i].slot = Reverse(list)[j].slot
               PROVE  i = j
    BY <1>2 DEF Unique
  <2>1. list[(n - i) + 1].slot = list[(n - j) + 1].slot
    BY <1>2
  <2>2. (n - i) + 1 = (n - j) + 1
    BY <1>1, <1>3, <2>1 DEF Unique
  <2> QED
    BY <1>1, <2>2
<1> QED
  BY <1>1, <1>4, <1>5

LEMMA ShuffledIs ==
  ASSUME NEW list \in Seq(Sample), Unique(list)
  PROVE  Shuffled(list, 1) \in Seq(Sample) /\ Unique(Shuffled(list, 1))
<1> DEFINE n == Len(list)
           at(i) == ((i + 1) % n) + 1
<1>1. n \in Nat /\ DOMAIN list = 1..n /\ (\A i \in 1..n : list[i] \in Sample)
  OBVIOUS
<1>2. Shuffled(list, 1) = [i \in 1..n |-> list[at(i)]]
  BY <1>1 DEF Shuffled
<1> HIDE DEF n
<1>3. \A i \in 1..n : at(i) \in 1..n
  <2> SUFFICES ASSUME NEW i \in 1..n PROVE at(i) \in 1..n
    OBVIOUS
  <2>1. i + 1 \in Nat /\ n \in Nat \ {0}
    BY <1>1
  <2>2. (i + 1) % n \in 0..(n - 1)
    BY <2>1, DivMod
  <2> QED
    BY <1>1, <2>2
<1>4. \A i, j \in 1..n : at(i) = at(j) => i = j
  <2>1. ASSUME NEW i \in 1..n, NEW j \in 1..n, i < j
        PROVE  at(i) # at(j)
    <3>1. i + 1 \in Nat /\ j + 1 \in Nat /\ n \in Nat \ {0}
      BY <1>1
    <3>2. i + 1 < j + 1 /\ j + 1 < (i + 1) + n
      BY <1>1, <2>1
    <3>3. (i + 1) % n # (j + 1) % n
      BY <3>1, <3>2, ModDiffers
    <3>4. (i + 1) % n \in 0..(n - 1) /\ (j + 1) % n \in 0..(n - 1)
      BY <3>1, DivMod
    <3> QED
      BY <1>1, <3>3, <3>4
  <2> HIDE DEF at
  <2> QED
    BY <1>1, <2>1
<1> HIDE DEF at
<1>5. Shuffled(list, 1) \in [1..n -> Sample]
  BY <1>1, <1>2, <1>3
<1>6. Unique(Shuffled(list, 1))
  <2> SUFFICES ASSUME NEW i \in 1..n, NEW j \in 1..n,
                      Shuffled(list, 1)[i].slot = Shuffled(list, 1)[j].slot
               PROVE  i = j
    BY <1>2 DEF Unique
  <2>1. list[at(i)].slot = list[at(j)].slot
    BY <1>2
  <2> QED
    BY <1>1, <1>3, <1>4, <2>1 DEF Unique
<1> QED
  BY <1>1, <1>5, <1>6

AnswerIs(list) ==
  /\ list \in Seq(Sample) /\ Unique(list)
  /\ strategy = "Triton" => InSlots(list)
  /\ strategy \in {"Helius", "Quiknode"} => list # <<>>

LEMMA AnswersAre ==
  ASSUME NEW list \in Answers
  PROVE  AnswerIs(list)
<1> DEFINE lists == UNION {InOrder(n) : n \in 0..MaxSamples}
<1>1. \A l \in lists : l \in Seq(Sample) /\ InSlots(l) /\ Unique(l)
  BY InOrderIs DEF InSlots, Unique
<1>2. CASE strategy \in {"Helius", "Quiknode"}
  <2>1. list \in InOrder(1) /\ 1 \in 0..MaxSamples
    BY <1>2, FeeAssumption DEF Answers
  <2>2. list \in lists /\ Len(list) = 1
    BY <2>1, InOrderIs
  <2>3. list # <<>>
    BY <2>2
  <2> HIDE DEF lists
  <2> QED
    BY <1>1, <1>2, <2>2, <2>3 DEF AnswerIs
<1>3. CASE strategy = "Triton"
  <2>1. list \in lists
    BY <1>3 DEF Answers
  <2> HIDE DEF lists
  <2> QED
    BY <1>1, <1>3, <2>1 DEF AnswerIs
<1>4. CASE strategy \notin {"Helius", "Quiknode", "Triton"}
  <2>1. list \in lists \cup {Reverse(l) : l \in lists}
                      \cup {Shuffled(l, 1) : l \in lists}
    BY <1>4 DEF Answers
  <2> HIDE DEF lists
  <2>2. list \in Seq(Sample) /\ Unique(list)
    BY <1>1, <2>1, ReverseIs, ShuffledIs
  <2> QED
    BY <1>4, <2>2 DEF AnswerIs
<1> QED
  BY <1>2, <1>3, <1>4
-----------------------------------------------------------------------------
(***************************************************************************)
(* Sums and means of fees.                                                 *)
(***************************************************************************)
\* The fold of MapThenSumSet over a set of samples.
FeeFold(S, g) ==
  g = [s \in SUBSET S |-> IF s = {} THEN 0 ELSE Some(s).fee + g[s \ {Some(s)}]]

LEMMA FeeSumIsFold ==
  ASSUME NEW S
  PROVE  MapThenSumSet(LAMBDA s : s.fee, S) = (CHOOSE g : FeeFold(S, g))[S]
BY Zenon DEF MapThenSumSet, MapThenFoldSet, FeeFold, Some

FeeOf(S) == [s \in S |-> s.fee]

LEMMA FeeSum ==
  ASSUME NEW S, IsFiniteSet(S), \A s \in S : s.fee \in Nat
  PROVE  MapThenSumSet(LAMBDA s : s.fee, S) = SumFunctionOnSet(FeeOf(S), S)
<1>1. \A s \in S : FeeOf(S)[s] \in Nat
  BY DEF FeeOf
<1>2. PICK g \in [SUBSET S -> Nat] :
        IsFold(FeeOf(S), S, g) /\ g[S] = SumFunctionOnSet(FeeOf(S), S)
  BY <1>1, SumFold
<1>3. \A s \in SUBSET S : s # {} => FeeOf(S)[Some(s)] = Some(s).fee
  BY SomeIsIn DEF FeeOf
<1>4. ASSUME NEW h
      PROVE  FeeFold(S, h) <=> IsFold(FeeOf(S), S, h)
  <2>1. \A s \in SUBSET S :
          Round(FeeOf(S), h, s)
            = IF s = {} THEN 0 ELSE Some(s).fee + h[s \ {Some(s)}]
    BY <1>3 DEF Round
  <2>2. [s \in SUBSET S |-> Round(FeeOf(S), h, s)]
          = [s \in SUBSET S |->
               IF s = {} THEN 0 ELSE Some(s).fee + h[s \ {Some(s)}]]
    BY <2>1
  <2> QED
    BY <2>2 DEF FeeFold, IsFold
<1> DEFINE h == CHOOSE h : FeeFold(S, h)
<1>5. FeeFold(S, h)
  BY <1>2, <1>4
<1> HIDE DEF h
<1>6. h[S] = g[S]
  BY <1>2, <1>4, <1>5, FoldsAgree
<1>7. h[S] = MapThenSumSet(LAMBDA s : s.fee, S)
  BY FeeSumIsFold DEF h
<1> QED
  BY <1>2, <1>6, <1>7

\* The samples of a set, under the indices b gives them: their number and the
\* sum of their fees.
LEMMA FeeSumRenamed ==
  ASSUME NEW n \in Nat, NEW b \in [1..n -> Sample],
         \A i, j \in 1..n : b[i] = b[j] => i = j,
         NEW fees, \A i \in 1..n : fees[i] = b[i].fee
  PROVE  LET S == {b[i] : i \in 1..n}
         IN  /\ IsFiniteSet(S) /\ Cardinality(S) = n
             /\ MapThenSumSet(LAMBDA s : s.fee, S) = SumFunctionOnSet(fees, 1..n)
             /\ SumFunctionOnSet(fees, 1..n) \in Nat
<1> DEFINE S == {b[i] : i \in 1..n}
<1>1. IsFiniteSet(1..n) /\ Cardinality(1..n) = n
  BY FS_Interval
<1>2. IsFiniteSet(S) /\ Cardinality(S) = n
  BY <1>1, CountRenamed
<1>3. \A s \in Sample : s.fee \in Nat
  BY FeeAssumption DEF Sample
<1>4. /\ \A i \in 1..n : fees[i] \in Nat /\ FeeOf(S)[b[i]] = fees[i]
      /\ \A s \in S : s.fee \in Nat
  BY <1>3 DEF FeeOf
<1>5. SumFunctionOnSet(FeeOf(S), S) = SumFunctionOnSet(fees, 1..n)
  <2> DEFINE k == FeeOf(S)
             D == 1..n
  <2>1. /\ IsFiniteSet(D) /\ (\A i \in D : fees[i] \in Nat)
        /\ \A i \in D : k[b[i]] = fees[i]
        /\ \A i, j \in D : b[i] = b[j] => i = j
    BY <1>1, <1>4
  <2> HIDE DEF k, D
  <2>2. SumFunctionOnSet(k, {b[i] : i \in D}) = SumFunctionOnSet(fees, D)
    BY <2>1, SumRenamed
  <2> QED
    BY <2>2 DEF k, D
<1>6. MapThenSumSet(LAMBDA s : s.fee, S) = SumFunctionOnSet(FeeOf(S), S)
  BY <1>2, <1>4, FeeSum
<1>7. SumFunctionOnSet(fees, 1..n) \in Nat
  BY <1>1, <1>4, SumType
<1> HIDE DEF S
<1>8. MapThenSumSet(LAMBDA s : s.fee, S) = SumFunctionOnSet(fees, 1..n)
  BY <1>5, <1>6
<1> QED
  BY <1>2, <1>7, <1>8 DEF S

LEMMA FeesOfType ==
  ASSUME NEW list \in Seq(Sample)
  PROVE  /\ FeesOf(list) \in [1..Len(list) -> Nat] /\ FeesOf(list) \in Seq(Nat)
         /\ Len(FeesOf(list)) = Len(list)
         /\ \A i \in 1..Len(list) : FeesOf(list)[i] = list[i].fee
         /\ Total(FeesOf(list)) = SumFunctionOnSet(FeesOf(list), 1..Len(list))
         /\ Total(FeesOf(list)) \in Nat
<1> DEFINE n == Len(list)
<1>1. n \in Nat /\ DOMAIN list = 1..n /\ (\A i \in 1..n : list[i] \in Sample)
  OBVIOUS
<1> HIDE DEF n
<1>2. \A i \in 1..n : list[i].fee \in Nat
  BY <1>1, FeeAssumption DEF Sample
<1>3. /\ FeesOf(list) \in [1..n -> Nat]
      /\ \A i \in 1..n : FeesOf(list)[i] = list[i].fee
  BY <1>1, <1>2 DEF FeesOf
<1>4. FeesOf(list) \in Seq(Nat) /\ Len(FeesOf(list)) = n
  BY <1>1, <1>3
<1>5. Total(FeesOf(list)) = SumFunctionOnSet(FeesOf(list), 1..n)
  BY <1>3 DEF Total, SumFunction
<1>6. Total(FeesOf(list)) \in Nat
  BY <1>1, <1>3, <1>5, SumType, FS_Interval
<1> QED
  BY <1>3, <1>4, <1>5, <1>6 DEF n
-----------------------------------------------------------------------------
(***************************************************************************)
(* Alchemy.                                                                *)
(***************************************************************************)
\* The sum of an answer's fees is the same over its samples as over its list.
LEMMA TotalOfSet ==
  ASSUME NEW list \in Seq(Sample), Unique(list)
  PROVE  MapThenSumSet(LAMBDA s : s.fee, ToSet(list)) = Total(FeesOf(list))
<1> DEFINE n == Len(list)
           fees == FeesOf(list)
<1>1. n \in Nat /\ list \in [1..n -> Sample] /\ DOMAIN list = 1..n
  OBVIOUS
<1>2. /\ \A i \in 1..n : fees[i] = list[i].fee
      /\ Total(fees) = SumFunctionOnSet(fees, 1..n)
  BY FeesOfType
<1>3. \A i, j \in 1..n : list[i] = list[j] => i = j
  BY <1>1 DEF Unique
<1>4. ToSet(list) = {list[i] : i \in 1..n}
  BY <1>1 DEF ToSet
<1> HIDE DEF n, fees
<1>5. MapThenSumSet(LAMBDA s : s.fee, {list[i] : i \in 1..n})
        = SumFunctionOnSet(fees, 1..n)
  BY <1>1, <1>2, <1>3, FeeSumRenamed
<1> QED
  BY <1>2, <1>4, <1>5 DEF fees

\* Products of naturals keep their order.
LEMMA Products ==
  /\ \A x, y \in Nat : x * y \in Nat
  /\ \A x, y, k \in Nat : x <= y => k * x <= k * y
  /\ \A x, y \in Nat : \A k \in Nat \ {0} : k * x <= k * y => x <= y
  /\ \A x, y, k \in Nat : k * (x + y) = k * x + k * y
  /\ \A x, y, k \in Nat : k * (x * y) = (k * x) * y /\ x * y = y * x
<1>1. \A x, y \in Nat : x * y \in Nat
  OBVIOUS
<1>2. \A x, y, k \in Nat : k * (x + y) = k * x + k * y
  OBVIOUS
<1>3. ASSUME NEW x \in Nat, NEW y \in Nat, NEW k \in Nat, x <= y
      PROVE  k * x <= k * y
  <2>1. PICK z \in Nat : y = x + z
    BY <1>3
  <2>2. k * y = k * x + k * z /\ k * z \in Nat /\ k * x \in Nat
    BY <1>1, <1>2, <2>1
  <2> QED
    BY <2>2
<1>4. ASSUME NEW x \in Nat, NEW y \in Nat, NEW k \in Nat \ {0}, k * x <= k * y
      PROVE  x <= y
  <2> SUFFICES ASSUME y < x PROVE FALSE
    OBVIOUS
  <2>1. k * (y + 1) <= k * x
    BY <1>3
  <2>2. k * (y + 1) = k * y + k /\ k * y \in Nat /\ k * x \in Nat
    BY <1>1, <1>2
  <2> QED
    BY <1>4, <2>1, <2>2
<1>5. \A x, y, k \in Nat : k * (x * y) = (k * x) * y /\ x * y = y * x
  OBVIOUS
<1> QED
  BY <1>1, <1>2, <1>3, <1>4, <1>5

LEMMA NearestIs ==
  ASSUME NEW x \in Nat, NEW d \in Nat \ {0}
  PROVE  /\ Nearest(x, d) \in Nat
         /\ 2 * (d * Nearest(x, d)) <= 2 * x + d
         /\ 2 * x <= 2 * (d * Nearest(x, d)) + d
<1> DEFINE q == x \div d
           r == x % d
           m == d * q
<1>1. q \in Nat /\ r \in 0..(d - 1) /\ x = m + r /\ m \in Nat
  <2>1. q \in Nat /\ r \in 0..(d - 1) /\ x = m + r
    BY DivMod
  <2> HIDE DEF q, r
  <2> QED
    BY <2>1, Products
<1>2. d * (q + 1) = m + d
  BY <1>1
<1>3. q % 2 \in {0, 1}
  BY <1>1
<1>4. \/ Nearest(x, d) = q /\ 2 * r <= d
      \/ Nearest(x, d) = q + 1 /\ 2 * r >= d
  <2>1. Nearest(x, d) = IF 2 * r < d THEN q
                        ELSE IF 2 * r > d THEN q + 1 ELSE q + (q % 2)
    BY DEF Nearest
  <2> HIDE DEF q, r
  <2> QED
    BY <1>1, <1>3, <2>1
<1>5. \/ Nearest(x, d) = q /\ d * Nearest(x, d) = m /\ 2 * r <= d
      \/ Nearest(x, d) = q + 1 /\ d * Nearest(x, d) = m + d /\ 2 * r >= d
  BY <1>2, <1>4
<1> HIDE DEF q, r, m
<1> QED
  BY <1>1, <1>5

\* What a float is off by, in parts of the number: one in Unit; or less than
\* 1/2 is off by half a part.
Close(y, x, d) ==
  \/ Unit * y <= Unit * x + x /\ Unit * x <= Unit * y + x
  \/ 2 * x < Unit * d /\ 2 * y <= 2 * x + d /\ 2 * x <= 2 * y + d

LEMMA FloatIs ==
  ASSUME NEW x \in Nat, NEW d \in Nat \ {0}, x \div d <= Largest
  PROVE  Float(x, d) \in Nat /\ Close(Float(x, d) * d, x, d)
<1> DEFINE u == CHOOSE u \in Ulps : IsUlp(u, x \div d)
           f == Float(x, d)
           w == d * u
           k == Nearest(x, w)
           g == w * k
           z == x \div d
<1>1. z \in 0..Largest /\ d * z <= x /\ x < d * z + d /\ z \in Nat
  <2>1. z \in Nat
    BY DivMod
  <2>2. d * z <= x /\ x < d * z + d
    BY <2>1, DivRounds
  <2> QED
    BY <2>1, <2>2, FloatAssumption
<1>2. u \in Nat \ {0} /\ IsUlp(u, z)
  BY <1>1, FloatAssumption
<1>3. Unit \in Nat /\ Unit >= 64
  BY FloatAssumption
<1>4. w \in Nat \ {0}
  <2> HIDE DEF u
  <2> QED
    BY <1>2
<1>5. k \in Nat /\ 2 * g <= 2 * x + w /\ 2 * x <= 2 * g + w
  <2> HIDE DEF w
  <2> QED
    BY <1>4, NearestIs
<1>6. f = u * k /\ f \in Nat /\ f * d = g /\ g \in Nat
  <2>1. f = u * k
    BY DEF Float
  <2> HIDE DEF f, u, k
  <2>2. f \in Nat /\ (u * k) * d = (d * u) * k /\ (d * u) * k \in Nat
    BY <1>2, <1>5, <2>1
  <2> QED
    BY <2>1, <2>2
<1>7. CASE Unit * w <= 2 * x
  <2> DEFINE a == Unit * g
             b == Unit * x
             c == Unit * w
  <2>1. a \in Nat /\ b \in Nat /\ c \in Nat
    BY <1>3, <1>4, <1>6, Products
  <2>2. 2 * a <= 2 * b + c /\ 2 * b <= 2 * a + c
    <3> HIDE DEF g, w, k
    <3>1. /\ Unit * (2 * g) <= Unit * (2 * x + w)
          /\ Unit * (2 * x) <= Unit * (2 * g + w)
      BY <1>3, <1>4, <1>5, <1>6, Products
    <3>2. /\ Unit * (2 * x + w) = 2 * b + c /\ Unit * (2 * g) = 2 * a
          /\ Unit * (2 * g + w) = 2 * a + c /\ Unit * (2 * x) = 2 * b
      BY <1>3, <1>4, <1>6
    <3> QED
      BY <3>1, <3>2
  <2>3. c <= 2 * x
    BY <1>7
  <2> HIDE DEF a, b, c
  <2>4. a <= b + x /\ b <= a + x
    BY <2>1, <2>2, <2>3
  <2> QED
    BY <1>6, <2>4 DEF a, b, Close
<1>8. CASE ~(Unit * w <= 2 * x)
  <2>1. u = 1
    <3> SUFFICES ASSUME Unit * u <= 2 * z PROVE FALSE
      BY <1>2 DEF IsUlp
    <3> HIDE DEF u, z
    <3>1. d * (Unit * u) <= d * (2 * z)
      BY <1>1, <1>2, <1>3, Products
    <3>2. d * (Unit * u) = Unit * (d * u) /\ d * (2 * z) = 2 * (d * z)
      BY <1>1, <1>2, <1>3
    <3>3. d * z \in Nat /\ Unit * (d * u) \in Nat
      BY <1>1, <1>2, <1>3, Products
    <3> QED
      BY <1>1, <1>8, <3>1, <3>2, <3>3
  <2>2. w = d
    <3> HIDE DEF u
    <3> QED
      BY <2>1
  <2>3. 2 * x < Unit * d
    BY <1>3, <1>8, <2>2
  <2> QED
    BY <1>5, <1>6, <2>2, <2>3 DEF Close
<1> QED
  BY <1>6, <1>7, <1>8

\* The same of what is an integer of parts already: a sum, or a product.
LEMMA FloatOfInt ==
  ASSUME NEW x \in Nat, x <= Largest
  PROVE  /\ Float(x, 1) \in Nat
         /\ Unit * Float(x, 1) <= Unit * x + x
         /\ Unit * x <= Unit * Float(x, 1) + x
<1> DEFINE y == Float(x, 1)
<1>1. x \div 1 = x
  OBVIOUS
<1>2. y \in Nat /\ y * 1 = y /\ Close(y * 1, x, 1)
  BY <1>1, FloatIs
<1> HIDE DEF y
<1>3. Unit \in Nat
  BY FloatAssumption
<1>4. CASE Unit * y <= Unit * x + x /\ Unit * x <= Unit * y + x
  BY <1>2, <1>4 DEF y
<1>5. CASE 2 * y <= 2 * x + 1 /\ 2 * x <= 2 * y + 1
  <2>1. y = x
    BY <1>2, <1>5
  <2>2. Unit * x \in Nat
    BY <1>3, Products
  <2> QED
    BY <1>2, <2>1, <2>2 DEF y
<1> QED
  BY <1>2, <1>4, <1>5 DEF Close

\* 1.2 as a float.
LEMMA FifthIs ==
  /\ Float(12 * Unit, 10) \in Nat
  /\ 10 * Float(12 * Unit, 10) <= 12 * Unit + 12
  /\ 12 * Unit <= 10 * Float(12 * Unit, 10) + 12
<1> DEFINE x == 12 * Unit
           F == Float(x, 10)
           y == F * 10
<1>1. Unit \in Nat \ {0} /\ x \in Nat /\ x \div 10 <= Largest
  BY FloatAssumption
<1>2. F \in Nat /\ Close(y, x, 10)
  BY <1>1, FloatIs
<1> HIDE DEF F
<1>3. y \in Nat /\ ~(2 * x < Unit * 10)
  BY <1>1, <1>2
<1>4. Unit * y <= Unit * x + x /\ Unit * x <= Unit * y + x
  BY <1>2, <1>3 DEF Close
<1>5. Unit * y <= Unit * (x + 12) /\ Unit * x <= Unit * (y + 12)
  BY <1>1, <1>3, <1>4
<1>6. y <= x + 12 /\ x <= y + 12
  BY <1>1, <1>3, <1>5, Products
<1> QED
  BY <1>2, <1>6 DEF F

Square == Unit * Unit

LEMMA SquareIs ==
  /\ Unit \in Nat \ {0} /\ Unit >= 64
  /\ Square \in Nat /\ Square >= 64 * Unit
  /\ Square - 2 * Unit - 1 \in Nat
<1>1. Unit \in Nat \ {0} /\ Unit >= 64
  BY FloatAssumption
<1>2. Unit * 64 <= Unit * Unit /\ Unit * Unit \in Nat
  BY <1>1, Products
<1> QED
  BY <1>1, <1>2 DEF Square

\* What x becomes, times 1.2 and truncated.
LEMMA PlusFifthIs ==
  ASSUME NEW c \in Nat, 2 * (Unit * c) <= Largest
  PROVE  /\ PlusFifth(c) \in Nat /\ PlusFifth(c) >= c
         /\ 10 * (PlusFifth(c) * Square) <= 12 * (c * (Square + 2 * Unit + 1))
         /\ 12 * (c * (Square - 2 * Unit - 1)) <= 10 * ((PlusFifth(c) + 1) * Square)
<1> DEFINE U == Unit
           F == Float(12 * U, 10)
           g == c * F
           p == Float(g, 1)
           e == PlusFifth(c)
           cu == c * U
           cv == c * Square
<1>1. U \in Nat \ {0} /\ U >= 64 /\ Square \in Nat /\ Square = U * U /\ Square >= 64 * U
  BY SquareIs DEF Square
<1>2. F \in Nat /\ 10 * F <= 12 * U + 12 /\ 12 * U <= 10 * F + 12
  BY FifthIs
<1>3. e = p \div U
  BY DEF PlusFifth
<1> HIDE DEF U, F
<1>4. g \in Nat /\ cu \in Nat /\ cv \in Nat /\ cv = U * cu
  BY <1>1, <1>2, Products
<1>5. 10 * g <= 12 * cu + 12 * c /\ 12 * cu <= 10 * g + 12 * c
  <2>1. c * (10 * F) <= c * (12 * U + 12) /\ c * (12 * U) <= c * (10 * F + 12)
    BY <1>1, <1>2, Products
  <2> QED
    BY <1>1, <1>2, <2>1
<1>6. g <= Largest
  <2>1. 2 * cu <= Largest
    BY <1>1 DEF U
  <2>2. 64 * c <= cu
    <3>1. c * 64 <= c * U
      BY <1>1, Products
    <3> QED
      BY <3>1
  <2> HIDE DEF g, cu
  <2> QED
    BY <1>4, <1>5, <2>1, <2>2, FloatAssumption
<1>7. p \in Nat /\ U * p <= U * g + g /\ U * g <= U * p + g
  BY <1>4, <1>6, FloatOfInt DEF U
<1> HIDE DEF p, e
<1>8. e \in Nat /\ U * e <= p /\ p < U * e + U
  <2>1. e \in Nat
    BY <1>1, <1>3, <1>7, DivMod
  <2> QED
    BY <1>1, <1>3, <1>7, <2>1, DivRounds
<1> DEFINE ug == U * g
           up == U * p
           ve == e * Square
<1>9. ug \in Nat /\ up \in Nat /\ ve \in Nat
  BY <1>1, <1>4, <1>7, <1>8, Products
<1> HIDE DEF g, cu
<1>10. 10 * ug <= 12 * cv + 12 * cu /\ 12 * cv <= 10 * ug + 12 * cu
  <2>1. U * (10 * g) <= U * (12 * cu + 12 * c) /\ U * (12 * cu) <= U * (10 * g + 12 * c)
    BY <1>1, <1>4, <1>5, Products
  <2>2. U * c = cu
    BY <1>1 DEF cu
  <2> QED
    BY <1>1, <1>4, <2>1, <2>2
<1>11. ve <= up /\ up <= ve + Square
  <2>1. U * (U * e) <= U * p /\ U * p <= U * (U * e + U)
    BY <1>1, <1>7, <1>8, Products
  <2> QED
    BY <1>1, <1>8, <2>1
<1> HIDE DEF ug, up
<1>12. 10 * ve <= 12 * cv + 24 * cu + 12 * c
  BY <1>4, <1>5, <1>7, <1>9, <1>10, <1>11 DEF ug, up
<1>13. 12 * cv <= 10 * (ve + Square) + 24 * cu + 12 * c
  BY <1>1, <1>4, <1>5, <1>7, <1>9, <1>10, <1>11 DEF ug, up
<1>14. c * (Square + 2 * U + 1) = cv + 2 * cu + c /\ c * (Square - 2 * U - 1) = cv - 2 * cu - c
  BY <1>1 DEF cu
<1>15. (e + 1) * Square = ve + Square
  BY <1>1, <1>8
<1>16. e >= c
  <2> SUFFICES ASSUME e + 1 <= c PROVE FALSE
    BY <1>8
  <2>1. Square * (e + 1) <= Square * c /\ c * (64 * U) <= c * Square
    BY <1>1, <1>8, Products
  <2>2. ve + Square <= cv /\ 64 * cu <= cv /\ c <= cu
    <3>1. c * 1 <= c * U
      BY <1>1, Products
    <3> QED
      BY <1>1, <1>8, <2>1, <3>1 DEF cu
  <2>3. c > 0 /\ cu > 0
    BY <1>4, <1>8, <2>2
  <2> HIDE DEF cv, ve
  <2> QED
    BY <1>1, <1>4, <1>9, <1>13, <2>2, <2>3
<1> HIDE DEF cv, ve
<1>17. /\ 10 * ve <= 12 * (cv + 2 * cu + c)
       /\ 12 * (cv - 2 * cu - c) <= 10 * (ve + Square)
  BY <1>1, <1>4, <1>9, <1>12, <1>13
<1> QED
  BY <1>8, <1>14, <1>15, <1>16, <1>17 DEF U, e, ve

\* The mean of n fees that sum up to t, rounded up: a mean of up to 8 is
\* covered, a greater one but for two roundings.
LEMMA CeilOfMeanIs ==
  ASSUME NEW fees \in Seq(Nat), Total(fees) \in Nat, Len(fees) \in 1..MaxSamples,
         4 * (Unit * (Total(fees) + MaxSamples)) <= Largest
  PROVE  LET n == Len(fees)
             t == Total(fees)
             c == CeilOfMean(fees)
         IN  /\ c \in Nat /\ 2 * (Unit * c) <= Largest
             /\ (c * n) * Square <= (t + n) * (Square + 2 * Unit + 1)
             /\ \/ c * n >= t
                \/ /\ t > 8 * n
                   /\ t * (Square - 2 * Unit - 1) <= (c * n) * Square
<1> DEFINE U == Unit
           n == Len(fees)
           t == Total(fees)
           c == CeilOfMean(fees)
           tu == t * U
           S == Float(tu, 1)
           q == Float(S, n)
           a == q * n
           m == c * n
           nu == n * U
           V == Square
           tv == t * V
           nv == n * V
           mu == m * U
           mv == m * V
           au == a * U
           su == S * U
<1>1. U \in Nat \ {0} /\ U >= 64 /\ V \in Nat /\ V = U * U /\ V >= 64 * U
  BY SquareIs DEF Square
<1>2. /\ n \in Nat \ {0} /\ t \in Nat /\ n <= MaxSamples /\ MaxSamples \in Nat
      /\ U > 16 * MaxSamples /\ U > 16 * n
  BY FloatAssumption, FeeAssumption
<1>3. c = (q + U - 1) \div U
  <2>1. fees # <<>>
    BY <1>2
  <2>2. MeanOf(fees) = q
    BY DEF MeanOf
  <2> HIDE DEF q
  <2> QED
    BY <2>1, <2>2 DEF CeilOfMean
<1>4. 4 * (U * (t + MaxSamples)) <= Largest /\ Largest \in Nat
  BY FloatAssumption
<1> HIDE DEF U, t, n, V
<1>5. tu \in Nat /\ nu \in Nat /\ tv \in Nat /\ nv \in Nat
  BY <1>1, <1>2, Products
<1>6. 4 * tu + 4 * nu <= Largest /\ 64 * t <= tu /\ 64 * n <= nu
  <2>1. U * n <= U * MaxSamples /\ t * 64 <= t * U /\ n * 64 <= n * U
    BY <1>1, <1>2, Products
  <2>2. 4 * (U * (t + MaxSamples)) = 4 * tu + 4 * (U * MaxSamples)
    BY <1>1, <1>2
  <2> QED
    BY <1>1, <1>2, <1>4, <1>5, <2>1, <2>2
<1>7. S \in Nat /\ S <= tu + t /\ tu <= S + t
  <2>1. S \in Nat /\ U * S <= U * tu + tu /\ U * tu <= U * S + tu
    BY <1>4, <1>5, <1>6, FloatOfInt DEF U
  <2> HIDE DEF S
  <2>2. U * S <= U * (tu + t) /\ U * tu <= U * (S + t)
    <3> HIDE DEF tu
    <3>1. U * t = tu
      BY <1>1, <1>2 DEF tu
    <3>2. U * (tu + t) = U * tu + tu /\ U * (S + t) = U * S + tu
      BY <1>1, <1>2, <1>5, <2>1, <3>1
    <3> QED
      BY <2>1, <3>2
  <2> QED
    BY <1>1, <1>2, <1>5, <2>1, <2>2, Products
<1> HIDE DEF S
<1>8. q \in Nat /\ Close(a, S, n)
  <2>1. S \div n <= Largest
    <3> DEFINE z == S \div n
    <3>1. z \in Nat /\ n * z <= S
      <4>1. z \in Nat
        BY <1>2, <1>7, DivMod
      <4> QED
        BY <1>2, <1>7, <4>1, DivRounds
    <3> HIDE DEF z
    <3>2. z * 1 <= z * n
      BY <1>2, <3>1, Products
    <3>3. S <= Largest
      <4> HIDE DEF tu, nu
      <4> QED
        BY <1>2, <1>4, <1>5, <1>6, <1>7
    <3>4. z <= S
      BY <1>2, <1>7, <3>1, <3>2
    <3> QED
      BY <1>4, <1>7, <3>1, <3>3, <3>4 DEF z
  <2> QED
    BY <1>2, <1>7, <2>1, FloatIs
<1> HIDE DEF q, c
<1>9. c \in Nat /\ q <= U * c /\ U * c < q + U
  <2>1. q + U - 1 \in Nat
    BY <1>1, <1>8
  <2>2. c \in Nat
    BY <1>1, <1>3, <2>1, DivMod
  <2>3. U * c <= q + U - 1 /\ q + U - 1 < U * c + U
    BY <1>1, <1>3, <2>1, <2>2, DivRounds
  <2>4. U * c \in Nat
    BY <1>1, <2>2, Products
  <2> QED
    BY <1>1, <1>8, <2>2, <2>3, <2>4
<1>10. a \in Nat /\ m \in Nat /\ mu \in Nat /\ mv \in Nat /\ au \in Nat /\ su \in Nat
  BY <1>1, <1>2, <1>7, <1>8, <1>9, Products
<1>11. a <= mu /\ mu <= a + nu
  <2>1. n * q <= n * (U * c) /\ n * (U * c) <= n * (q + U)
    <3>1. U * c \in Nat /\ U * c <= q + U
      BY <1>1, <1>8, <1>9, Products
    <3> QED
      BY <1>1, <1>2, <1>8, <1>9, <3>1, Products
  <2>2. n * q = a /\ n * (U * c) = mu /\ n * (q + U) = a + nu
    BY <1>1, <1>2, <1>8, <1>9
  <2> QED
    BY <2>1, <2>2
<1> HIDE DEF a, m, tu, nu
<1>12. au <= mv /\ mv <= au + nv
  <2>1. U * a <= U * mu /\ U * mu <= U * (a + nu)
    BY <1>1, <1>5, <1>10, <1>11, Products
  <2>2. U * a = au /\ U * mu = mv /\ U * (a + nu) = au + nv
    BY <1>1, <1>2, <1>5, <1>10 DEF nu
  <2> QED
    BY <2>1, <2>2
<1>13. su <= tv + tu /\ tv <= su + tu
  <2>1. U * S <= U * (tu + t) /\ U * tu <= U * (S + t)
    BY <1>1, <1>2, <1>5, <1>7, Products
  <2>2. U * S = su /\ U * (tu + t) = tv + tu /\ U * tu = tv /\ U * (S + t) = su + tu
    BY <1>1, <1>2, <1>5, <1>7 DEF tu
  <2> QED
    BY <2>1, <2>2
<1>14. \/ au <= su + S /\ su <= au + S
       \/ 2 * S < nu /\ 2 * a <= 2 * S + n /\ 2 * S <= 2 * a + n
  BY <1>1, <1>2, <1>7, <1>8, <1>10 DEF Close, U, nu
<1>15. /\ (t + n) * (V + 2 * U + 1) = tv + 2 * tu + t + nv + 2 * nu + n
       /\ t * (V - 2 * U - 1) = tv - 2 * tu - t
  BY <1>1, <1>2 DEF tu, nu
<1> HIDE DEF mu, mv, au, su, tv, nv
<1>16. mv <= tv + 2 * tu + t + nv + 2 * nu + n
  <2>1. CASE au <= su + S
    BY <1>1, <1>2, <1>5, <1>7, <1>10, <1>12, <1>13, <2>1
  <2>2. CASE 2 * a <= 2 * S + n
    <3>1. U * (2 * a) <= U * (2 * S + n)
      BY <1>1, <1>2, <1>7, <1>10, <2>2, Products
    <3>2. U * (2 * a) = 2 * au /\ U * (2 * S + n) = 2 * su + nu
      BY <1>1, <1>2, <1>7, <1>10 DEF au, su, nu
    <3> QED
      BY <1>2, <1>5, <1>10, <1>12, <1>13, <3>1, <3>2
  <2> QED
    BY <1>14, <2>1, <2>2
<1>17. \/ m >= t
       \/ t > 8 * n /\ tv - 2 * tu - t <= mv
  <2> SUFFICES ASSUME m + 1 <= t
               PROVE  t > 8 * n /\ tv - 2 * tu - t <= mv
    BY <1>2, <1>10
  <2>1. mu + U <= tu /\ mv + V <= tv
    <3>1. U * (m + 1) <= U * t /\ V * (m + 1) <= V * t
      BY <1>1, <1>2, <1>10, Products
    <3>2. U * (m + 1) = mu + U /\ U * t = tu /\ V * (m + 1) = mv + V /\ V * t = tv
      BY <1>1, <1>2, <1>10 DEF mu, mv, tu, tv
    <3> QED
      BY <3>1, <3>2
  <2>2. 16 * nu + U <= V
    <3>1. U * (16 * n + 1) <= U * U
      BY <1>1, <1>2, Products
    <3> QED
      BY <1>1, <1>2, <3>1 DEF nu
  <2>3. t <= 8 * n => tu <= 8 * nu
    <3> SUFFICES ASSUME t <= 8 * n PROVE tu <= 8 * nu
      OBVIOUS
    <3>1. U * t <= U * (8 * n)
      BY <1>1, <1>2, Products
    <3> QED
      BY <1>1, <1>2, <3>1 DEF tu, nu
  <2>4. CASE su <= au + S
    <3>1. tv - 2 * tu - t <= mv
      BY <1>2, <1>5, <1>7, <1>10, <1>12, <1>13, <2>4
    <3>2. t > 8 * n
      BY <1>1, <1>2, <1>5, <1>10, <2>1, <2>2, <2>3, <3>1
    <3> QED
      BY <3>1, <3>2
  <2>5. CASE 2 * S < nu /\ 2 * S <= 2 * a + n
    <3>1. 2 * tu <= 2 * mu + n + 2 * t
      BY <1>2, <1>5, <1>7, <1>10, <1>11, <2>5
    <3>2. 2 * U <= 2 * t + n
      BY <1>1, <1>2, <1>5, <1>10, <2>1, <3>1
    <3>3. 2 * tu < nu + 2 * t
      BY <1>2, <1>5, <1>7, <2>5
    <3>6. t <= n
      <4> SUFFICES ASSUME n + 1 <= t PROVE FALSE
        BY <1>2
      <4>1. U * (n + 1) <= U * t
        BY <1>1, <1>2, Products
      <4>2. nu <= tu
        BY <1>1, <1>2, <4>1 DEF nu, tu
      <4> QED
        BY <1>2, <1>5, <1>6, <3>3, <4>2
    <3> QED
      BY <1>1, <1>2, <3>2, <3>6
  <2> QED
    BY <1>14, <2>4, <2>5
<1>18. 2 * (U * c) <= Largest
  <2>1. 64 * a <= 65 * S + 32 * n
    <3>1. CASE au <= su + S
      <4> SUFFICES ASSUME S < a PROVE 64 * a <= 65 * S
        BY <1>2, <1>7, <1>10
      <4> DEFINE d == a - S
      <4>1. d \in Nat /\ a = S + d
        BY <1>7, <1>10
      <4> HIDE DEF d
      <4>2. d * 64 <= d * U
        BY <1>1, <4>1, Products
      <4>3. au = su + d * U
        BY <1>1, <1>7, <4>1 DEF au, su
      <4>4. d * U \in Nat
        BY <1>1, <4>1, Products
      <4> QED
        BY <1>7, <1>10, <3>1, <4>1, <4>2, <4>3, <4>4
    <3>2. CASE 2 * a <= 2 * S + n
      BY <1>2, <1>7, <1>10, <3>2
    <3> QED
      BY <1>14, <3>1, <3>2
  <2>2. q <= a
    <3>1. q * 1 <= q * n
      BY <1>2, <1>8, Products
    <3> QED
      BY <1>8, <3>1 DEF a
  <2>3. U <= nu
    <3>1. U * 1 <= U * n
      BY <1>1, <1>2, Products
    <3> QED
      BY <1>1, <1>2, <3>1 DEF nu
  <2> DEFINE x == U * c
  <2>4. x \in Nat /\ x < q + U
    BY <1>1, <1>9, Products
  <2> HIDE DEF x
  <2>5. 2 * x <= Largest
    BY <1>1, <1>2, <1>4, <1>5, <1>6, <1>7, <1>8, <1>10, <2>1, <2>2, <2>3, <2>4
  <2> QED
    BY <2>5 DEF x
<1> QED
  BY <1>9, <1>15, <1>16, <1>17, <1>18 DEF U, n, t, V, c, m, mv

\* What Alchemy's estimate is of an answer.
LEMMA EstimateCovers ==
  ASSUME NEW n \in Nat, NEW t \in Nat, NEW c \in Nat, NEW e \in Nat, n > 0, e >= c,
         10 * (e * Square) <= 12 * (c * (Square + 2 * Unit + 1)),
         12 * (c * (Square - 2 * Unit - 1)) <= 10 * ((e + 1) * Square),
         (c * n) * Square <= (t + n) * (Square + 2 * Unit + 1),
         \/ c * n >= t
         \/ t > 8 * n /\ t * (Square - 2 * Unit - 1) <= (c * n) * Square
  PROVE  e * n >= t /\ 10 * (e * n) * Unit <= 12 * (t + n) * (Unit + 5)
<1> DEFINE U == Unit
           V == Square
           up == V + 2 * U + 1
           down == V - 2 * U - 1
           m == c * n
           en == e * n
           s == t + n
<1>1. U \in Nat \ {0} /\ U >= 64 /\ V \in Nat /\ V = U * U /\ V >= 64 * U
  BY SquareIs DEF Square
<1>2. up \in Nat /\ down \in Nat /\ m \in Nat /\ en \in Nat /\ s \in Nat
  <2>1. m \in Nat /\ en \in Nat
    BY Products
  <2> HIDE DEF m, en
  <2> QED
    BY <1>1, <2>1
<1>3. U * V >= 64 * V /\ U * V \in Nat
  <2>1. V * 64 <= V * U
    BY <1>1, Products
  <2> QED
    BY <1>1, <2>1, Products
<1>4. up * up <= V * (V + 5 * U) /\ V * (V - 4 * U) <= down * down
  BY <1>1, <1>3
<1> HIDE DEF U, V, up, down, s
<1>5. 10 * (en * V) <= 12 * (m * up)
  <2>1. n * (10 * (e * V)) <= n * (12 * (c * up))
    <3>1. e * V \in Nat /\ c * up \in Nat
      BY <1>1, <1>2, Products
    <3> QED
      BY <3>1, Products DEF V, up, U
  <2> QED
    BY <1>1, <1>2, <2>1
<1>6. 10 * (en * U) <= 12 * (s * (U + 5))
  <2>1. 10 * (en * V) * V <= 12 * (m * up) * V
    <3>1. 10 * (en * V) \in Nat /\ 12 * (m * up) \in Nat
      BY <1>1, <1>2, Products
    <3> QED
      BY <1>1, <1>5, <3>1, Products
  <2>2. up * (m * V) <= up * (s * up)
    <3>1. m * V \in Nat /\ s * up \in Nat
      BY <1>1, <1>2, Products
    <3>2. m * V <= s * up
      BY DEF V, up, U, s
    <3> QED
      BY <1>2, <3>1, <3>2, Products
  <2>3. s * (up * up) <= s * (V * (V + 5 * U))
    <3>1. up * up \in Nat /\ V * (V + 5 * U) \in Nat
      BY <1>1, <1>2, Products
    <3> QED
      BY <1>2, <1>4, <3>1, Products
  <2> DEFINE x == 10 * (en * U)
             y == 12 * (s * (U + 5))
  <2>4. x \in Nat /\ y \in Nat
    <3>1. en * U \in Nat /\ s * (U + 5) \in Nat
      BY <1>1, <1>2, Products
    <3> HIDE DEF en
    <3> QED
      BY <3>1
  <2>5. (V * U) * x <= (V * U) * y
    <3>1. (V * U) * x = 10 * (en * V) * V /\ (V * U) * y = 12 * (s * (V * (V + 5 * U)))
      BY <1>1, <1>2
    <3>2. 12 * (m * up) * V = 12 * (up * (m * V)) /\ up * (s * up) = s * (up * up)
      BY <1>1, <1>2
    <3> QED
      BY <1>1, <1>2, <2>1, <2>2, <2>3, <3>1, <3>2
  <2>6. V * U \in Nat \ {0}
    BY <1>1, <1>3
  <2> HIDE DEF x, y
  <2>7. x <= y
    BY <2>4, <2>5, <2>6, Products
  <2> QED
    BY <2>7 DEF x, y
<1>7. en >= t
  <2>1. CASE m >= t
    <3>1. n * c <= n * e
      BY Products
    <3>2. n * c = m /\ n * e = en
      OBVIOUS
    <3> QED
      BY <1>2, <2>1, <3>1, <3>2
  <2>2. CASE t > 8 * n /\ t * down <= m * V
    <3>1. 12 * (m * down) <= 10 * ((en + n) * V)
      <4>1. n * (12 * (c * down)) <= n * (10 * ((e + 1) * V))
        <5>1. c * down \in Nat /\ (e + 1) * V \in Nat
          BY <1>1, <1>2, Products
        <5> QED
          BY <5>1, Products DEF V, down, U
      <4> QED
        BY <1>1, <1>2, <4>1
    <3>2. V * (12 * (m * down)) <= V * (10 * ((en + n) * V))
      <4>1. m * down \in Nat /\ (en + n) * V \in Nat
        BY <1>1, <1>2, Products
      <4> QED
        BY <1>1, <3>1, <4>1, Products
    <3>3. down * (t * down) <= down * (m * V)
      <4>1. t * down \in Nat /\ m * V \in Nat
        BY <1>1, <1>2, Products
      <4> QED
        BY <1>2, <2>2, <4>1, Products
    <3>4. t * (V * (V - 4 * U)) <= t * (down * down)
      <4>1. V - 4 * U \in Nat
        BY <1>1
      <4>2. V * (V - 4 * U) \in Nat /\ down * down \in Nat
        BY <1>1, <1>2, <4>1, Products
      <4> QED
        BY <1>4, <4>2, Products
    <3> DEFINE x == 12 * (t * (U - 4))
               y == 10 * ((en + n) * U)
    <3>5. x \in Nat /\ y \in Nat
      <4>1. U - 4 \in Nat /\ en + n \in Nat
        BY <1>1, <1>2
      <4>2. t * (U - 4) \in Nat /\ (en + n) * U \in Nat
        BY <1>1, <4>1, Products
      <4> HIDE DEF en
      <4> QED
        BY <4>2
    <3>6. (V * U) * x <= (V * U) * y
      <4>1. (V * U) * x = 12 * (t * (V * (V - 4 * U))) /\ (V * U) * y = V * (10 * ((en + n) * V))
        BY <1>1, <1>2
      <4>2. V * (12 * (m * down)) = 12 * (down * (m * V)) /\ down * (t * down) = t * (down * down)
        BY <1>1, <1>2
      <4> QED
        BY <1>1, <1>2, <3>2, <3>3, <3>4, <4>1, <4>2
    <3>7. V * U \in Nat \ {0}
      BY <1>1, <1>3
    <3>8. x <= y
      <4> HIDE DEF x, y
      <4> QED
        BY <3>5, <3>6, <3>7, Products
    <3> DEFINE tu == t * U
               nu == n * U
               eu == en * U
    <3>9. 12 * tu <= 10 * eu + 10 * nu + 48 * t
      BY <1>1, <1>2, <3>8
    <3>10. /\ tu \in Nat /\ nu \in Nat /\ eu \in Nat
           /\ 8 * nu <= tu /\ 64 * t <= tu
      <4>1. U * (8 * n) <= U * t /\ t * 64 <= t * U
        BY <1>1, <2>2, Products
      <4>2. tu \in Nat /\ nu \in Nat /\ eu \in Nat
        BY <1>1, <1>2, Products
      <4> QED
        BY <1>1, <4>1, <4>2
    <3>11. tu <= eu
      <4> HIDE DEF tu, nu, eu
      <4> QED
        BY <3>9, <3>10
    <3>12. U * t <= U * en
      BY <1>1, <1>2, <3>11
    <3> QED
      BY <1>1, <1>2, <3>12, Products
  <2> QED
    BY <2>1, <2>2 DEF V, down, U
<1> QED
  <2>1. 10 * (e * n) * Unit = 10 * (en * U) /\ 12 * (t + n) * (Unit + 5) = 12 * (s * (U + 5))
    BY <1>1, <1>2 DEF U, s
  <2> QED
    BY <1>6, <1>7, <2>1

\* An answer is not longer than there are slots, and its floats are thought of.
LEMMA InRange ==
  ASSUME NEW list \in Seq(Sample), Unique(list)
  PROVE  /\ Len(list) <= MaxSamples
         /\ list # <<>> =>
              4 * (Unit * (Total(FeesOf(list)) + MaxSamples)) <= Largest
<1> DEFINE n == Len(list)
           fees == FeesOf(list)
           t == Total(fees)
           slot == [i \in 1..n |-> list[i].slot]
           M == MaxSamples
<1>1. n \in Nat /\ DOMAIN list = 1..n /\ (\A i \in 1..n : list[i] \in Sample)
  OBVIOUS
<1>2. /\ t \in Nat /\ t = SumFunctionOnSet(fees, 1..n)
      /\ \A i \in 1..n : fees[i] = list[i].fee
  BY FeesOfType
<1>3. M \in Nat \ {0} /\ Unit \in Nat \ {0} /\ Largest \in Nat
  BY FeeAssumption, FloatAssumption
<1> HIDE DEF n, fees, t
<1>4. IsFiniteSet(1..n) /\ Cardinality(1..n) = n /\ IsFiniteSet(1..M) /\ Cardinality(1..M) = M
  BY <1>1, <1>3, FS_Interval
<1>5. n <= M
  <2> DEFINE T == {slot[i] : i \in 1..n}
  <2>1. \A i, j \in 1..n : slot[i] = slot[j] => i = j
    BY <1>1 DEF Unique
  <2>2. T \subseteq 1..M
    BY <1>1 DEF Sample
  <2> HIDE DEF slot, M
  <2>3. IsFiniteSet(T) /\ Cardinality(T) = n
    <3> DEFINE D == 1..n
    <3>1. IsFiniteSet(D) /\ (\A i, j \in D : slot[i] = slot[j] => i = j)
      BY <1>4, <2>1
    <3> HIDE DEF D
    <3>2. /\ IsFiniteSet({slot[i] : i \in D})
          /\ Cardinality({slot[i] : i \in D}) = Cardinality(D)
      BY <3>1, CountRenamed
    <3> QED
      BY <1>4, <3>2 DEF D
  <2> HIDE DEF T
  <2>4. Cardinality(T) <= Cardinality(1..M)
    BY <1>4, <2>2, FS_Subset
  <2> QED
    BY <1>4, <2>3, <2>4
<1>6. ASSUME list # <<>>
      PROVE  4 * (Unit * (t + M)) <= Largest
  <2>1. \E i \in 1..n : \A j \in 1..n : fees[j] <= fees[i]
    <3> DEFINE F == {s \in SUBSET (1..n) :
                       s = {} \/ \E i \in s : \A j \in s : fees[j] <= fees[i]}
    <3>1. {} \in F
      OBVIOUS
    <3>2. \A i \in 1..n : fees[i] \in Nat
      BY <1>1, <1>2, FeeAssumption DEF Sample
    <3>3. ASSUME NEW s \in F, NEW x \in (1..n) \ s
          PROVE  s \cup {x} \in F
      BY <3>2
    <3>4. F \in SUBSET SUBSET (1..n)
      OBVIOUS
    <3> HIDE DEF F
    <3>5. 1..n \in F
      BY <1>4, <3>1, <3>3, <3>4, SubsetInduct
    <3>6. 1..n # {}
      BY <1>1, <1>6 DEF n
    <3> QED
      BY <3>5, <3>6 DEF F
  <2>2. PICK i \in 1..n : \A j \in 1..n : fees[j] <= fees[i]
    BY <2>1
  <2> DEFINE m == fees[i]
  <2>3. \A j \in 1..n : fees[j] \in Paid /\ fees[j] \in Nat
    BY <1>1, <1>2, FeeAssumption DEF Sample
  <2>4. m \in Nat /\ 4 * Unit * MaxSamples * (m + 1) <= Largest
    BY <2>3, FloatAssumption
  <2>5. t <= m * n
    BY <1>2, <1>4, <2>2, <2>3, <2>4, SumAtMost
  <2> HIDE DEF m, M
  <2>6. m * n <= m * M /\ m * M \in Nat /\ m * n \in Nat
    BY <1>1, <1>3, <1>5, <2>4, Products
  <2>7. t + M <= m * M + M
    BY <1>2, <1>3, <2>5, <2>6
  <2>8. Unit * (t + M) <= Unit * (m * M + M)
    BY <1>2, <1>3, <2>6, <2>7, Products
  <2>9. 4 * Unit * M * (m + 1) = 4 * (Unit * (m * M + M))
    BY <1>3, <2>4
  <2>10. Unit * (t + M) \in Nat /\ Unit * (m * M + M) \in Nat
    BY <1>2, <1>3, <2>6, Products
  <2> QED
    BY <1>3, <2>4, <2>8, <2>9, <2>10 DEF M
<1> QED
  BY <1>5, <1>6 DEF n, t, fees

LEMMA AlchemyEstimate ==
  ASSUME NEW list \in Seq(Sample), Unique(list)
  PROVE  LET n == Len(list)
             e == PlusFifth(CeilOfMean(FeesOf(list)))
             total == MapThenSumSet(LAMBDA s : s.fee, ToSet(list))
         IN  /\ e \in Nat
             /\ e * n >= total
             /\ n > 0 => 10 * (e * n) * Unit <= 12 * (total + n) * (Unit + 5)
<1> DEFINE n == Len(list)
           c == CeilOfMean(FeesOf(list))
           e == PlusFifth(c)
           t == Total(FeesOf(list))
           total == MapThenSumSet(LAMBDA s : s.fee, ToSet(list))
<1>1. total = t
  BY TotalOfSet
<1>2. /\ n \in Nat /\ t \in Nat /\ (n = 0 => t = 0) /\ n <= MaxSamples
      /\ FeesOf(list) \in Seq(Nat) /\ Len(FeesOf(list)) = n
  BY FeesOfType, SumEmpty, InRange
<1>3. CASE n = 0
  <2>1. c = 0
    BY <1>2, <1>3 DEF CeilOfMean
  <2>2. 2 * (Unit * c) <= Largest
    BY <2>1, FloatAssumption
  <2>3. e \in Nat
    BY <2>1, <2>2, PlusFifthIs
  <2> HIDE DEF n, c, e, t, total
  <2> QED
    BY <1>1, <1>2, <1>3, <2>3 DEF n, c, e, t, total
<1>4. CASE n # 0
  <2>1. list # <<>> /\ n \in 1..MaxSamples
    BY <1>2, <1>4, FeeAssumption
  <2>2. 4 * (Unit * (t + MaxSamples)) <= Largest
    BY <2>1, InRange
  <2>3. /\ c \in Nat /\ 2 * (Unit * c) <= Largest
        /\ (c * n) * Square <= (t + n) * (Square + 2 * Unit + 1)
        /\ \/ c * n >= t
           \/ t > 8 * n /\ t * (Square - 2 * Unit - 1) <= (c * n) * Square
    BY <1>2, <2>1, <2>2, CeilOfMeanIs
  <2>4. /\ e \in Nat /\ e >= c
        /\ 10 * (e * Square) <= 12 * (c * (Square + 2 * Unit + 1))
        /\ 12 * (c * (Square - 2 * Unit - 1)) <= 10 * ((e + 1) * Square)
    BY <2>3, PlusFifthIs
  <2> HIDE DEF n, c, e, t, total
  <2>5. n > 0
    BY <2>1
  <2>6. e * n >= t /\ 10 * (e * n) * Unit <= 12 * (t + n) * (Unit + 5)
    BY <1>2, <2>3, <2>4, <2>5, EstimateCovers
  <2> QED
    BY <1>1, <2>4, <2>6 DEF n, c, e, t, total
<1> QED
  BY <1>3, <1>4
-----------------------------------------------------------------------------
(***************************************************************************)
(* Triton.                                                                 *)
(***************************************************************************)
\* LaterThan counts indices as well as samples.
LEMMA LaterIs ==
  ASSUME answer \in Seq(Sample), Unique(answer), NEW i \in 1..Len(answer)
  PROVE  LaterThan(answer[i])
           = Cardinality({j \in 1..Len(answer) : answer[j].slot > answer[i].slot})
<1> DEFINE n == Len(answer)
           J == {j \in 1..n : answer[j].slot > answer[i].slot}
<1>1. n \in Nat /\ DOMAIN answer = 1..n
  OBVIOUS
<1>2. {t \in ToSet(answer) : t.slot > answer[i].slot} = {answer[j] : j \in J}
  BY <1>1 DEF ToSet
<1>3. IsFiniteSet(J)
  <2>1. IsFiniteSet(1..n) /\ J \in SUBSET (1..n)
    BY FS_Interval
  <2> QED
    BY <2>1, FS_Subset
<1>4. \A j, k \in J : answer[j] = answer[k] => j = k
  BY <1>1 DEF Unique
<1> HIDE DEF n, J
<1>5. Cardinality({answer[j] : j \in J}) = Cardinality(J)
  BY <1>3, <1>4, CountRenamed
<1> QED
  BY <1>2, <1>5 DEF LaterThan, J, n

LEMMA MeanIs ==
  ASSUME NEW n \in Nat \ {0}, NEW t \in Nat
  PROVE  /\ t \div n \in Nat
         /\ (t \div n) * n <= t /\ t < (t \div n + 1) * n
<1> DEFINE e == t \div n
<1>1. e \in Nat
  BY DivMod
<1>2. n * e <= t /\ t < n * e + n
  BY <1>1, DivRounds
<1> HIDE DEF e
<1>3. e * n = n * e /\ (e + 1) * n = n * e + n
  BY <1>1
<1> QED
  BY <1>1, <1>2, <1>3 DEF e

\* What Triton's estimate is of an answer in the order of its slots.
LEMMA TritonEstimate ==
  ASSUME answer \in Seq(Sample), answer # <<>>, InSlots(answer)
  PROVE  LET e == MeanOfLast(FeesOf(LastSlots(answer)))
             seen == {s \in ToSet(answer) : LaterThan(s) < Window}
             total == MapThenSumSet(LAMBDA s : s.fee, seen)
         IN  /\ e \in Nat
             /\ e * Cardinality(seen) <= total
             /\ total < (e + 1) * Cardinality(seen)
<1> DEFINE n == Len(answer)
           w == AtMost(Window, n)
           b == LastSlots(answer)
           fees == FeesOf(b)
           seen == {s \in ToSet(answer) : LaterThan(s) < Window}
<1>1. /\ n \in Nat \ {0} /\ DOMAIN answer = 1..n
      /\ \A i \in 1..n : answer[i] \in Sample /\ answer[i].slot = i
  BY DEF InSlots
<1>2. Window \in Nat \ {0}
  BY FeeAssumption
<1>3. w \in 1..n /\ w <= Window /\ (w = n \/ w = Window)
  BY <1>1, <1>2 DEF AtMost
<1>4. /\ b \in Seq(Sample) /\ Len(b) = w
      /\ \A i \in 1..w : b[i] = answer[n - w + i]
  <2> DEFINE m == n - w + 1
  <2>1. b = SubSeq(answer, m, n)
    BY DEF LastSlots
  <2> HIDE DEF n, w, b
  <2>2. m \in Int /\ n \in Int /\ m <= n /\ n - m + 1 = w
    BY <1>1, <1>3
  <2>3. \A i \in m..n : answer[i] \in Sample
    BY <1>1, <1>3
  <2>4. \A i \in 1..w : m + i - 1 = n - w + i
    BY <1>1, <1>3
  <2> HIDE DEF m
  <2>5. /\ SubSeq(answer, m, n) \in Seq(Sample)
        /\ Len(SubSeq(answer, m, n)) = n - m + 1
        /\ \A i \in 1..(n - m + 1) : SubSeq(answer, m, n)[i] = answer[m + i - 1]
    BY <2>2, <2>3, SubSeqProperties
  <2> QED
    BY <2>1, <2>2, <2>4, <2>5
<1>5. Unique(answer)
  BY <1>1 DEF Unique
<1>6. \A i \in 1..n : LaterThan(answer[i]) = n - i
  <2> SUFFICES ASSUME NEW i \in 1..n
               PROVE  LaterThan(answer[i]) = n - i
    OBVIOUS
  <2>1. {j \in 1..n : answer[j].slot > answer[i].slot} = (i + 1)..n
    BY <1>1
  <2>2. Cardinality((i + 1)..n) = n - i
    BY <1>1, FS_Interval
  <2> QED
    BY <1>5, <2>1, <2>2, LaterIs
<1> HIDE DEF n, w, b
<1>7. seen = {b[i] : i \in 1..w}
  <2>1. ToSet(answer) = {answer[i] : i \in 1..n}
    BY <1>1 DEF ToSet
  <2>2. ASSUME NEW s \in seen
        PROVE  \E i \in 1..w : s = b[i]
    <3>1. PICK j \in 1..n : s = answer[j]
      BY <2>1
    <3>2. n - j < Window
      BY <1>6, <3>1
    <3>3. j - (n - w) \in 1..w /\ n - w + (j - (n - w)) = j
      BY <1>1, <1>2, <1>3, <3>2
    <3> QED
      BY <1>4, <3>1, <3>3
  <2>3. ASSUME NEW i \in 1..w
        PROVE  b[i] \in seen
    <3>1. n - w + i \in 1..n /\ n - (n - w + i) < Window
      BY <1>1, <1>2, <1>3
    <3>2. answer[n - w + i] \in ToSet(answer)
      BY <2>1, <3>1
    <3> QED
      BY <1>4, <1>6, <3>1, <3>2
  <2> HIDE DEF seen
  <2> QED
    BY <2>2, <2>3 DEF seen
<1>8. /\ fees \in [1..w -> Nat] /\ Len(fees) = w
      /\ \A i \in 1..w : fees[i] = b[i].fee
      /\ Total(fees) = SumFunctionOnSet(fees, 1..w) /\ Total(fees) \in Nat
  BY <1>4, FeesOfType
<1>9. \A i, j \in 1..w : b[i] = b[j] => i = j
  <2> SUFFICES ASSUME NEW i \in 1..w, NEW j \in 1..w, b[i] = b[j]
               PROVE  i = j
    OBVIOUS
  <2>1. n - w + i \in 1..n /\ n - w + j \in 1..n
    BY <1>1, <1>3
  <2>2. n - w + i = n - w + j
    BY <1>1, <1>4, <2>1
  <2> QED
    BY <1>1, <1>3, <2>2
<1> HIDE DEF fees, seen
<1>10. /\ Cardinality(seen) = w
       /\ MapThenSumSet(LAMBDA s : s.fee, seen) = Total(fees)
  <2>1. b \in [1..w -> Sample] /\ w \in Nat
    BY <1>3, <1>4
  <2>2. Cardinality({b[i] : i \in 1..w}) = w
    <3>1. IsFiniteSet(1..w) /\ Cardinality(1..w) = w
      BY <2>1, FS_Interval
    <3> DEFINE D == 1..w
    <3>2. IsFiniteSet(D) /\ (\A i, j \in D : b[i] = b[j] => i = j)
      BY <1>9, <3>1
    <3> HIDE DEF D
    <3>3. Cardinality({b[i] : i \in D}) = Cardinality(D)
      BY <3>2, CountRenamed
    <3> QED
      BY <3>1, <3>3 DEF D
  <2>3. MapThenSumSet(LAMBDA s : s.fee, {b[i] : i \in 1..w})
          = SumFunctionOnSet(fees, 1..w)
    BY <1>8, <1>9, <2>1, FeeSumRenamed
  <2> QED
    BY <1>7, <1>8, <2>2, <2>3
<1>11. MeanOfLast(fees) = Total(fees) \div w /\ w \in Nat \ {0}
  BY <1>3, <1>8 DEF MeanOfLast
<1>12. /\ MeanOfLast(fees) \in Nat
       /\ MeanOfLast(fees) * w <= Total(fees)
       /\ Total(fees) < (MeanOfLast(fees) + 1) * w
  BY <1>8, <1>11, MeanIs
<1> QED
  BY <1>10, <1>12 DEF fees, b, seen
-----------------------------------------------------------------------------
(***************************************************************************)
(* LOCAL.                                                                  *)
(***************************************************************************)
\* How many fees are below the percentile, and how many are not above it.
LEMMA PercentileIs ==
  ASSUME NEW n \in Nat \ {0}, NEW fees \in [1..n -> Nat], Len(fees) = n
  PROVE  LET e == Percentile(fees, 75)
             below == {i \in 1..n : fees[i] < e}
             upto == {i \in 1..n : fees[i] <= e}
         IN  /\ \E i \in 1..n : fees[i] = e
             /\ IsFiniteSet(below) /\ IsFiniteSet(upto)
             /\ 4 * Cardinality(upto) >= 3 * n - 2
             /\ 4 * Cardinality(below) <= 3 * n - 2
<1> DEFINE e == Percentile(fees, 75)
           below == {i \in 1..n : fees[i] < e}
           upto == {i \in 1..n : fees[i] <= e}
           r == Rank(75, n)
           d == (2 * 75 * n + 100) \div 200
           i0 == At(fees, r)
<1>1. /\ d \in Nat
      /\ 200 * d <= 150 * n + 100 /\ 150 * n + 100 < 200 * d + 200
  <2>1. 2 * 75 * n + 100 \in Nat /\ 2 * 75 * n + 100 = 150 * n + 100
    OBVIOUS
  <2>2. d \in Nat
    BY <2>1, DivMod
  <2> HIDE DEF d
  <2>3. 200 * d <= 2 * 75 * n + 100 /\ 2 * 75 * n + 100 < 200 * d + 200
    BY <2>1, <2>2, DivRounds DEF d
  <2> QED
    BY <2>1, <2>2, <2>3
<1>2. r = IF d = 0 THEN 1 ELSE d
  BY DEF Rank
<1> HIDE DEF d, r
<1>3. r \in 1..n /\ 4 * r >= 3 * n - 2 /\ 4 * (r - 1) <= 3 * n - 2
  <2>1. d # 0
    BY <1>1
  <2> QED
    BY <1>1, <1>2, <2>1
<1>4. fees \in [1..n -> Int]
  OBVIOUS
<1>5. e = fees[i0] /\ i0 \in 1..n /\ Place(fees, i0) = r
  <2>1. e = SortedBy(fees, fees)[r]
    BY DEF Percentile, r
  <2>2. SortedBy(fees, fees)[r] = fees[At(fees, r)]
    BY <1>3, <1>4, SortedAt
  <2> QED
    BY <1>3, <1>4, <2>1, <2>2, AtPlace
<1> HIDE DEF e, i0
<1>6. /\ UpTo(fees, i0) \in SUBSET (1..n) /\ IsFiniteSet(UpTo(fees, i0))
      /\ Cardinality(UpTo(fees, i0)) = r
  BY <1>4, <1>5, PlaceType
<1>7. IsFiniteSet(1..n)
  BY FS_Interval
<1>8. IsFiniteSet(below) /\ IsFiniteSet(upto)
  <2>1. below \in SUBSET (1..n) /\ upto \in SUBSET (1..n)
    OBVIOUS
  <2> HIDE DEF below, upto
  <2> QED
    BY <1>7, <2>1, FS_Subset
<1>9. Cardinality(upto) >= r
  <2>1. UpTo(fees, i0) \in SUBSET upto
    BY <1>5 DEF UpTo
  <2>2. Cardinality(upto) \in Nat
    BY <1>8, FS_CardinalityType
  <2> HIDE DEF upto
  <2> QED
    BY <1>6, <1>8, <2>1, <2>2, FS_Subset
<1>10. Cardinality(below) <= r - 1
  <2>1. below \in SUBSET (UpTo(fees, i0) \ {i0}) /\ i0 \in UpTo(fees, i0)
    BY <1>5 DEF UpTo
  <2>2. /\ IsFiniteSet(UpTo(fees, i0) \ {i0})
        /\ Cardinality(UpTo(fees, i0) \ {i0}) = r - 1
    BY <1>6, <2>1, FS_RemoveElement
  <2> HIDE DEF below
  <2> QED
    BY <2>1, <2>2, FS_Subset
<1>11. Cardinality(upto) \in Nat /\ Cardinality(below) \in Nat
  BY <1>8, FS_CardinalityType
<1> HIDE DEF below, upto
<1>12. 4 * Cardinality(upto) >= 3 * n - 2 /\ 4 * Cardinality(below) <= 3 * n - 2
  BY <1>3, <1>9, <1>10, <1>11
<1> QED
  BY <1>5, <1>8, <1>12 DEF e, below, upto
SlotKey(list) == [i \in DOMAIN list |-> -list[i].slot]

\* Newest first, the k-th sample has k - 1 later ones, and all samples are there.
LEMMA NewestFirstIs ==
  ASSUME answer \in Seq(Sample), Unique(answer)
  PROVE  LET n == Len(answer)
             q == NewestFirst(answer)
         IN  /\ q \in [1..n -> Sample]
             /\ \A k \in 1..n : LaterThan(q[k]) = k - 1
             /\ ToSet(answer) = {q[k] : k \in 1..n}
<1> DEFINE n == Len(answer)
           q == NewestFirst(answer)
           key == SlotKey(answer)
<1>1. n \in Nat /\ DOMAIN answer = 1..n /\ answer \in [1..n -> Sample]
  OBVIOUS
<1>2. \A i \in 1..n : answer[i].slot \in Nat
  BY <1>1, FeeAssumption DEF Sample
<1>3. key \in [1..n -> Int] /\ (\A i \in 1..n : key[i] = -answer[i].slot)
  BY <1>1, <1>2 DEF SlotKey
<1>4. q = SortedBy(key, answer)
  BY DEF NewestFirst, SlotKey
<1> HIDE DEF n, q, key
<1>5. q \in [1..n -> Sample] /\ (\A k \in 1..n : q[k] = answer[At(key, k)])
  <2>1. n \in Nat /\ key \in [1..n -> Int] /\ answer \in [1..n -> Sample]
    BY <1>1, <1>3
  <2>2. SortedBy(key, answer) = [k \in 1..n |-> answer[At(key, k)]]
    BY <1>1, <2>1, SortedAt
  <2>3. \A k \in 1..n : At(key, k) \in 1..n
    BY <2>1, AtPlace
  <2> QED
    BY <1>4, <2>1, <2>2, <2>3
<1>6. \A i \in 1..n : LaterThan(answer[i]) = Place(key, i) - 1
  <2> SUFFICES ASSUME NEW i \in 1..n
               PROVE  LaterThan(answer[i]) = Place(key, i) - 1
    OBVIOUS
  <2> DEFINE J == {j \in 1..n : answer[j].slot > answer[i].slot}
  <2>1. UpTo(key, i) \ {i} = J /\ i \in UpTo(key, i)
    BY <1>1, <1>2, <1>3 DEF UpTo, Unique
  <2>2. IsFiniteSet(UpTo(key, i)) /\ Cardinality(UpTo(key, i)) = Place(key, i)
    BY <1>1, <1>3, PlaceType
  <2>3. Cardinality(J) = Place(key, i) - 1
    BY <2>1, <2>2, FS_RemoveElement
  <2>4. LaterThan(answer[i]) = Cardinality(J)
    BY LaterIs DEF n
  <2> QED
    BY <2>3, <2>4
<1>7. /\ \A k \in 1..n : At(key, k) \in 1..n /\ Place(key, At(key, k)) = k
      /\ \A i \in 1..n : Place(key, i) \in 1..n /\ At(key, Place(key, i)) = i
  BY <1>1, <1>3, AtPlace
<1>8. \A k \in 1..n : LaterThan(q[k]) = k - 1
  BY <1>5, <1>6, <1>7
<1>9. ToSet(answer) = {q[k] : k \in 1..n}
  <2>1. ToSet(answer) = {answer[i] : i \in 1..n}
    BY <1>1 DEF ToSet
  <2>2. \A i \in 1..n : \E k \in 1..n : answer[i] = q[k]
    BY <1>5, <1>7
  <2>3. \A k \in 1..n : \E i \in 1..n : answer[i] = q[k]
    BY <1>5, <1>7
  <2>4. ToSet(answer) \subseteq {q[k] : k \in 1..n}
    BY <2>1, <2>2
  <2>5. {q[k] : k \in 1..n} \subseteq ToSet(answer)
    BY <2>1, <2>3
  <2> QED
    BY <2>4, <2>5
<1> QED
  BY <1>5, <1>8, <1>9 DEF n, q

\* The chunk whose percentile stays starts after the whole chunks before it and
\* has at least one sample.
LEMMA LastChunkIs ==
  ASSUME NEW n \in Nat \ {0}, NEW list \in Seq(Sample), Len(list) = n
  PROVE  LET o == AtMost(Chunks - 1, (n - 1) \div ChunkSize)
             start == ChunkSize * o
             size == AtMost(start + ChunkSize, n) - start
             g == Chunk(list, LastChunk(list))
         IN  /\ o \in Nat /\ start \in Nat /\ start < n
             /\ size \in Nat \ {0}
             /\ g \in Seq(Sample) /\ Len(g) = size
             /\ \A i \in 1..size : g[i] = list[start + i]
<1> DEFINE x == (n - 1) \div ChunkSize
           o == AtMost(Chunks - 1, x)
           c == LastChunk(list)
           start == ChunkSize * o
           stop == AtMost(start + ChunkSize, n)
           size == stop - start
           g == Chunk(list, c)
<1>1. ChunkSize \in Nat \ {0} /\ Chunks \in Nat \ {0} /\ n - 1 \in Nat
  BY FeeAssumption
<1>2. x \in Nat
  BY <1>1, DivMod
<1>3. ChunkSize * x <= n - 1
  BY <1>1, <1>2, DivRounds
<1>4. (n + ChunkSize - 1) \div ChunkSize = x + 1
  <2>1. (n - 1) + ChunkSize = n + ChunkSize - 1
    BY <1>1
  <2>2. ((n - 1) + ChunkSize) \div ChunkSize = x + 1
    BY <1>1, DivRound
  <2> QED
    BY <2>1, <2>2
<1> HIDE DEF x
<1>5. o \in Nat /\ o <= x
  BY <1>1, <1>2 DEF AtMost
<1>6. c = o + 1
  BY <1>1, <1>2, <1>4 DEF LastChunk, AtMost
<1> HIDE DEF o, c
<1>7. start \in Nat /\ start < n
  <2>1. ChunkSize * o <= ChunkSize * x /\ ChunkSize * o \in Nat /\ ChunkSize * x \in Nat
    BY <1>1, <1>2, <1>5
  <2> QED
    BY <1>3, <2>1
<1>8. (c - 1) * ChunkSize = start /\ c * ChunkSize = start + ChunkSize
  BY <1>1, <1>5, <1>6
<1> HIDE DEF start
<1>9. stop \in Nat /\ stop <= n /\ stop > start
  BY <1>1, <1>7 DEF AtMost
<1>10. g = SubSeq(list, start + 1, stop)
  BY <1>8 DEF Chunk
<1> HIDE DEF stop, g
<1>11. /\ g \in Seq(Sample) /\ Len(g) = stop - start
       /\ \A i \in 1..(stop - start) : g[i] = list[start + i]
  <2> DEFINE m == start + 1
  <2>1. m \in Int /\ stop \in Int /\ m <= stop /\ stop - m + 1 = stop - start
    BY <1>7, <1>9
  <2>2. \A i \in m..stop : list[i] \in Sample
    BY <1>7, <1>9
  <2>3. \A i \in 1..(stop - start) : m + i - 1 = start + i
    BY <1>7, <1>9
  <2>4. g = SubSeq(list, m, stop)
    BY <1>10
  <2> HIDE DEF m
  <2>5. /\ SubSeq(list, m, stop) \in Seq(Sample)
        /\ Len(SubSeq(list, m, stop)) = stop - m + 1
        /\ \A i \in 1..(stop - m + 1) : SubSeq(list, m, stop)[i] = list[m + i - 1]
    BY <2>1, <2>2, SubSeqProperties
  <2> QED
    BY <2>1, <2>3, <2>4, <2>5
<1> QED
  BY <1>5, <1>7, <1>9, <1>11 DEF x, o, c, start, stop, g
\* What LOCAL's estimate is of an answer: LocalIsPercentile.
LEMMA LocalEstimate ==
  ASSUME answer \in Seq(Sample), Unique(answer), answer # <<>>
  PROVE  LET e == LocalFee(answer)
             group(s) == LaterThan(s) \div ChunkSize
             oldest == AtMost(Chunks - 1, (Len(answer) - 1) \div ChunkSize)
             seen == {s \in ToSet(answer) : group(s) = oldest}
             below == {s \in seen : s.fee < e}
             upto == {s \in seen : s.fee <= e}
         IN  /\ e \in Nat
             /\ 4 * Cardinality(upto) >= 3 * Cardinality(seen) - 2
             /\ 4 * Cardinality(below) <= 3 * Cardinality(seen) - 2
             /\ \E s \in seen : s.fee = e
<1> DEFINE n == Len(answer)
           q == NewestFirst(answer)
           oldest == AtMost(Chunks - 1, (n - 1) \div ChunkSize)
           start == ChunkSize * oldest
           size == AtMost(start + ChunkSize, n) - start
           g == Chunk(q, LastChunk(q))
           fees == FeesOf(g)
           e == Percentile(fees, 75)
           seen == {s \in ToSet(answer) : LaterThan(s) \div ChunkSize = oldest}
           below == {s \in seen : s.fee < e}
           upto == {s \in seen : s.fee <= e}
           D == 1..size
           Below == {i \in D : fees[i] < e}
           UpTo75 == {i \in D : fees[i] <= e}
<1>1. n \in Nat \ {0} /\ ChunkSize \in Nat \ {0}
  BY FeeAssumption
<1>2. /\ q \in [1..n -> Sample]
      /\ \A k \in 1..n : LaterThan(q[k]) = k - 1
      /\ ToSet(answer) = {q[k] : k \in 1..n}
  BY NewestFirstIs
<1>3. q \in Seq(Sample) /\ Len(q) = n
  <2> HIDE DEF n, q
  <2> QED
    BY <1>1, <1>2
<1>4. LocalFee(answer) = e
  BY <1>3 DEF LocalFee, LastChunk
<1> HIDE DEF n, q
<1>5. /\ oldest \in Nat /\ start \in Nat /\ start < n
      /\ size \in Nat \ {0}
      /\ g \in Seq(Sample) /\ Len(g) = size
      /\ \A i \in 1..size : g[i] = q[start + i]
  BY <1>1, <1>3, LastChunkIs
<1>6. /\ size <= ChunkSize /\ start + size <= n
      /\ size = ChunkSize \/ start + size = n
  <2> HIDE DEF start
  <2> QED
    BY <1>1, <1>5 DEF AtMost
<1>7. \A k \in 1..n : (k - 1) \div ChunkSize = oldest <=> k - start \in D
  <2> SUFFICES ASSUME NEW k \in 1..n
               PROVE  (k - 1) \div ChunkSize = oldest <=> k - start \in D
    OBVIOUS
  <2>1. k - 1 \in Nat
    BY <1>1
  <2>2. (k - 1) \div ChunkSize = oldest
          <=> (start <= k - 1 /\ k - 1 < start + ChunkSize)
    BY <1>1, <1>5, <2>1, DivRounds
  <2> HIDE DEF start, size, oldest
  <2> QED
    BY <1>1, <1>5, <1>6, <2>2
<1> HIDE DEF start, size, g
<1>8. seen = {g[i] : i \in D}
  <2>1. ASSUME NEW s \in seen
        PROVE  \E i \in D : s = g[i]
    <3>1. PICK k \in 1..n : s = q[k]
      BY <1>2
    <3>2. (k - 1) \div ChunkSize = oldest
      BY <1>2, <3>1
    <3>3. k - start \in D /\ start + (k - start) = k
      BY <1>5, <1>7, <3>2
    <3> QED
      BY <1>5, <3>1, <3>3
  <2>2. ASSUME NEW i \in D
        PROVE  g[i] \in seen
    <3>1. start + i \in 1..n /\ (start + i) - start = i
      BY <1>1, <1>5, <1>6
    <3>2. g[i] = q[start + i] /\ LaterThan(g[i]) = (start + i) - 1
      BY <1>2, <1>5, <3>1
    <3>3. ((start + i) - 1) \div ChunkSize = oldest
      BY <1>7, <3>1
    <3> QED
      BY <1>2, <3>1, <3>2, <3>3
  <2> HIDE DEF seen, D
  <2> QED
    BY <2>1, <2>2
<1>9. \A i, j \in D : g[i] = g[j] => i = j
  <2> SUFFICES ASSUME NEW i \in D, NEW j \in D, g[i] = g[j]
               PROVE  i = j
    OBVIOUS
  <2>1. start + i \in 1..n /\ start + j \in 1..n
    BY <1>1, <1>5, <1>6
  <2>2. (start + i) - 1 = (start + j) - 1
    BY <1>2, <1>5, <2>1
  <2> QED
    BY <1>5, <2>2
<1>10. /\ fees \in [1..size -> Nat] /\ Len(fees) = size
       /\ \A i \in D : fees[i] = g[i].fee
  BY <1>5, FeesOfType
<1>11. /\ \E i \in D : fees[i] = e
       /\ IsFiniteSet(Below) /\ IsFiniteSet(UpTo75)
       /\ 4 * Cardinality(UpTo75) >= 3 * size - 2
       /\ 4 * Cardinality(Below) <= 3 * size - 2
  BY <1>5, <1>10, PercentileIs
<1>12. IsFiniteSet(D) /\ Cardinality(D) = size
  BY <1>5, FS_Interval
<1> HIDE DEF seen, fees, e
<1>13. below = {g[i] : i \in Below} /\ upto = {g[i] : i \in UpTo75}
  <2>1. \A i \in D : g[i] \in seen
    BY <1>8
  <2>2. \A s \in seen : \E i \in D : s = g[i]
    BY <1>8
  <2> HIDE DEF D
  <2>3. below \subseteq {g[i] : i \in Below} /\ upto \subseteq {g[i] : i \in UpTo75}
    BY <1>10, <2>2
  <2>4. {g[i] : i \in Below} \subseteq below /\ {g[i] : i \in UpTo75} \subseteq upto
    BY <1>10, <2>1
  <2> QED
    BY <2>3, <2>4
<1>14. Below \in SUBSET D /\ UpTo75 \in SUBSET D
  OBVIOUS
<1> HIDE DEF D, Below, UpTo75
<1>15. /\ Cardinality(seen) = size
       /\ Cardinality(below) = Cardinality(Below)
       /\ Cardinality(upto) = Cardinality(UpTo75)
  <2>1. Cardinality({g[i] : i \in D}) = Cardinality(D)
    BY <1>9, <1>12, CountRenamed
  <2>2. Cardinality({g[i] : i \in Below}) = Cardinality(Below)
    BY <1>9, <1>11, <1>14, CountRenamed
  <2>3. Cardinality({g[i] : i \in UpTo75}) = Cardinality(UpTo75)
    BY <1>9, <1>11, <1>14, CountRenamed
  <2> QED
    BY <1>8, <1>12, <1>13, <2>1, <2>2, <2>3
<1>16. e \in Nat /\ (\E s \in seen : s.fee = e)
  <2>1. PICK i \in D : fees[i] = e
    BY <1>11
  <2>2. g[i] \in seen /\ g[i].fee = e /\ fees[i] \in Nat
    BY <1>8, <1>10, <2>1 DEF D
  <2> QED
    BY <2>1, <2>2
<1> HIDE DEF oldest, below, upto
<1> QED
  BY <1>4, <1>11, <1>15, <1>16 DEF n, seen, oldest, below, upto
-----------------------------------------------------------------------------
(***************************************************************************)
(* The invariant: an answer stays what it was when it came, and the        *)
(* estimate is the one its strategy makes of it.                           *)
(***************************************************************************)
Types ==
  /\ strategy \in Strategies
  /\ pc \in {"request", "parse", "estimated", "paid", "crashed"}
  /\ missing \in BOOLEAN
  /\ estimate \in Nat
  /\ fee \in 0..max_rpc_priority_fee

\* A request that got no answer leaves the empty one.
AnswerInv ==
  /\ answer \in Seq(Sample) /\ Unique(answer)
  /\ strategy = "Triton" => InSlots(answer)
  /\ (pc # "request" /\ ~missing) => AnswerIs(answer)

EstimateInv ==
  pc \in {"estimated", "paid"} /\ ~NoEstimate =>
    /\ estimate = Estimate
    /\ strategy = "Triton" => answer # <<>>

IInv == Types /\ AnswerInv /\ EstimateInv

LEMMA InitIInv == Init => IInv
<1> SUFFICES ASSUME Init PROVE IInv
  OBVIOUS
<1>1. /\ answer = <<>> /\ missing = FALSE /\ pc = "request"
      /\ estimate = 0 /\ fee = 0 /\ strategy \in Strategies
  BY DEF Init
<1>2. answer \in Seq(Sample) /\ Unique(answer) /\ InSlots(answer)
  BY <1>1 DEF Unique, InSlots
<1>3. 0 \in 0..max_rpc_priority_fee
  BY FeeAssumption
<1> QED
  BY <1>1, <1>2, <1>3 DEF IInv, Types, AnswerInv, EstimateInv

\* Every strategy's estimate is a natural.
LEMMA EstimateType ==
  ASSUME IInv, pc = "parse", ~NoEstimate, strategy = "Triton" => answer # <<>>
  PROVE  Estimate \in Nat
<1>1. answer \in Seq(Sample) /\ Unique(answer) /\ AnswerIs(answer)
  BY DEF IInv, AnswerInv, NoEstimate
<1>2. CASE strategy = "Alchemy"
  <2>1. PlusFifth(CeilOfMean(FeesOf(answer))) \in Nat
    BY <1>1, AlchemyEstimate
  <2> QED
    BY <1>2, <2>1 DEF Estimate
<1>3. CASE strategy = "Triton"
  <2>1. MeanOfLast(FeesOf(LastSlots(answer))) \in Nat
    BY <1>1, <1>3, TritonEstimate DEF AnswerIs
  <2> QED
    BY <1>3, <2>1 DEF Estimate
<1>4. CASE strategy = "LOCAL"
  <2>1. LocalFee(answer) \in Nat
    BY <1>1, <1>4, LocalEstimate DEF NoEstimate
  <2> QED
    BY <1>4, <2>1 DEF Estimate
<1>5. CASE strategy \in {"Helius", "Quiknode"}
  <2>1. answer[1] \in Sample
    BY <1>1, <1>5 DEF AnswerIs
  <2>2. answer[1].fee \in Nat
    BY <2>1, FeeAssumption DEF Sample
  <2> QED
    BY <1>5, <2>2 DEF Estimate
<1> QED
  BY <1>2, <1>3, <1>4, <1>5 DEF IInv, Types, Strategies

LEMMA NextIInv == IInv /\ [Next]_vars => IInv'
<1> SUFFICES ASSUME IInv, [Next]_vars
             PROVE  IInv'
  OBVIOUS
<1>1. CASE Request
  <2>1. pc = "request" /\ pc' = "parse" /\ UNCHANGED <<strategy, estimate, fee>>
    BY <1>1 DEF Request
  <2>2. Types' /\ EstimateInv'
    BY <1>1, <2>1 DEF IInv, Types, EstimateInv, Request
  <2>3. CASE missing' = TRUE /\ UNCHANGED answer
    BY <2>1, <2>2, <2>3 DEF IInv, AnswerInv
  <2>4. CASE answer' \in Answers /\ UNCHANGED missing
    <3>1. AnswerIs(answer')
      BY <2>4, AnswersAre
    <3>2. AnswerIs(answer)'
      BY <2>1, <3>1 DEF AnswerIs, Unique, InSlots
    <3> QED
      BY <2>2, <3>2 DEF IInv, AnswerInv, AnswerIs
  <2> QED
    BY <1>1, <2>3, <2>4 DEF Request
<1>2. CASE EmptyPanic
  BY <1>2 DEF EmptyPanic, IInv, Types, AnswerInv, EstimateInv, AnswerIs
<1>3. CASE Parse
  <2>1. Estimate \in Nat
    BY <1>3, EstimateType DEF Parse
  <2>2. (Estimate)' = Estimate /\ (NoEstimate)' = NoEstimate
    BY <1>3 DEF Parse, Estimate, NoEstimate
  <2>3. Types' /\ AnswerInv'
    BY <1>3, <2>1 DEF Parse, IInv, Types, AnswerInv, AnswerIs
  <2>4. EstimateInv'
    BY <1>3, <2>2 DEF Parse, EstimateInv
  <2> QED
    BY <2>3, <2>4 DEF IInv
<1>4. CASE ParseErr
  <2>1. (NoEstimate)' /\ priority_fee \in Nat
    BY <1>4, FeeAssumption DEF ParseErr, NoEstimate
  <2>2. Types' /\ AnswerInv'
    BY <1>4, <2>1 DEF ParseErr, IInv, Types, AnswerInv, AnswerIs
  <2>3. EstimateInv'
    BY <2>1 DEF EstimateInv
  <2> QED
    BY <2>2, <2>3 DEF IInv
<1>5. CASE Pay
  <2>1. Capped(estimate) \in 0..max_rpc_priority_fee
    BY FeeAssumption DEF IInv, Types, Capped, AtMost
  <2>2. (Estimate)' = Estimate /\ (NoEstimate)' = NoEstimate
    BY <1>5 DEF Pay, Estimate, NoEstimate
  <2>3. Types' /\ AnswerInv'
    BY <1>5, <2>1 DEF Pay, IInv, Types, AnswerInv, AnswerIs
  <2>4. EstimateInv'
    BY <1>5, <2>2 DEF Pay, IInv, EstimateInv
  <2> QED
    BY <2>3, <2>4 DEF IInv
<1>6. CASE UNCHANGED vars
  <2>1. (Estimate)' = Estimate /\ (NoEstimate)' = NoEstimate
    BY <1>6 DEF vars, Estimate, NoEstimate
  <2> QED
    BY <1>6, <2>1 DEF vars, IInv, Types, AnswerInv, EstimateInv, AnswerIs
<1> QED
  BY <1>1, <1>2, <1>3, <1>4, <1>5, <1>6 DEF Next

LEMMA Inductive == Spec => []IInv
  BY InitIInv, NextIInv, PTL DEF Spec

-----------------------------------------------------------------------------
\* The estimates are naturals, whatever the answer: nothing is divided by 0 or
\* taken from beyond a list, and what is paid never passes the cap.
THEOREM TypeCorrect == Spec => []TypeOK
<1>1. IInv => TypeOK
  BY DEF IInv, Types, AnswerInv, TypeOK
<1> QED
  BY <1>1, Inductive, PTL

\* Alchemy's estimate covers the mean of the answer, for answers of any length
\* and floats of any precision that Unit > 16 * MaxSamples allows, f32 among
\* them (dynamic_fee.rs:126).
THEOREM CoversMeanCorrect == Spec => []CoversMean
<1>1. IInv => CoversMean
  <2> SUFFICES ASSUME IInv, Made("Alchemy")
               PROVE  CoversMean
    BY DEF CoversMean
  <2>1. /\ answer \in Seq(Sample) /\ Unique(answer)
        /\ estimate = PlusFifth(CeilOfMean(FeesOf(answer)))
    BY DEF IInv, AnswerInv, EstimateInv, Made, Estimate
  <2> QED
    BY <2>1, AlchemyEstimate DEF CoversMean
<1> QED
  BY <1>1, Inductive, PTL

\* Triton's estimate is the mean of the latest slots, however many there are.
THEOREM AveragesLastSlotsCorrect == Spec => []AveragesLastSlots
<1>1. IInv => AveragesLastSlots
  <2> SUFFICES ASSUME IInv, Made("Triton")
               PROVE  AveragesLastSlots
    BY DEF AveragesLastSlots
  <2>1. /\ answer \in Seq(Sample) /\ InSlots(answer) /\ answer # <<>>
        /\ estimate = MeanOfLast(FeesOf(LastSlots(answer)))
    BY DEF IInv, AnswerInv, EstimateInv, Made, Estimate
  <2> QED
    BY <2>1, TritonEstimate DEF AveragesLastSlots
<1> QED
  BY <1>1, Inductive, PTL

\* LOCAL's estimate is the 75th percentile of the last chunk of slots that is
\* looked at, for every size of the chunks and every length of the last one.
THEOREM LocalIsPercentileCorrect == Spec => []LocalIsPercentile
<1>1. IInv => LocalIsPercentile
  <2> SUFFICES ASSUME IInv, Made("LOCAL")
               PROVE  LocalIsPercentile
    BY DEF LocalIsPercentile
  <2>1. /\ answer \in Seq(Sample) /\ Unique(answer) /\ answer # <<>>
        /\ estimate = LocalFee(answer)
    BY DEF IInv, AnswerInv, EstimateInv, Made, Estimate, NoEstimate
  <2> QED
    BY <2>1, LocalEstimate DEF LocalIsPercentile
<1> QED
  BY <1>1, Inductive, PTL
=============================================================================
