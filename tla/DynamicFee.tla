----------------------------- MODULE DynamicFee -----------------------------
(***************************************************************************)
(* The dynamic fee of the RPC route: the host of the RPC url selects a     *)
(* strategy, its answer, or the node's own list of recent fees, becomes an *)
(* estimate; --priority-fee stands in for one that could not be made.      *)
(***************************************************************************)
EXTENDS Integers, FiniteSets, SequencesExt

CONSTANTS
  Paid,        \* the fees that were paid in a slot
  MaxSamples,  \* bound on the length of an answer
  ChunkSize,   \* 150
  Chunks,      \* 3
  Window,      \* 20
  Unit,        \* numbers of a float's significand: 2^24 for f32
  Ulps,        \* the powers of 2 that the last place of a float may stand for
  Largest,     \* the largest float that is thought of, in parts of a Unit
  priority_fee, max_rpc_priority_fee

ASSUME FeeAssumption ==
  /\ Paid \subseteq Nat /\ MaxSamples \in Nat \ {0}
  /\ ChunkSize \in Nat \ {0} /\ Chunks \in Nat \ {0} /\ Window \in Nat \ {0}
  /\ priority_fee \in Nat /\ max_rpc_priority_fee \in Nat

\* x / Unit is a float in the binade whose last place stands for u / Unit.
IsUlp(u, x) == x < Unit * u /\ (u = 1 \/ Unit * u <= 2 * x)

ASSUME FloatAssumption ==
  /\ Unit \in Nat /\ Unit >= 64 /\ Unit > 16 * MaxSamples
  /\ Ulps \subseteq Nat \ {0}
  /\ Largest \in Nat /\ 2 * Unit <= Largest
  /\ \A x \in 0..Largest : \E u \in Ulps : IsUlp(u, x)
  /\ \A x \in Paid : 4 * Unit * MaxSamples * (x + 1) <= Largest

VARIABLES
  strategy,  \* FeeStrategy
  pc,
  missing,   \* the request failed, or the answer has no result
  answer,    \* the samples of the result, in the order they came
  estimate,  \* calculated_fee
  fee        \* what submit pays per compute unit

vars == <<strategy, pc, missing, answer, estimate, fee>>

Strategies == {"Helius", "Quiknode", "Alchemy", "Triton", "LOCAL"}

Sample == [slot : 1..MaxSamples, fee : Paid]

Init ==
  /\ strategy \in Strategies
  /\ pc = "request"
  /\ missing = FALSE /\ answer = <<>> /\ estimate = 0 /\ fee = 0

\* One sample per slot; in the order of the slots, or in some other.
InOrder(n) == {[i \in 1..n |-> [slot |-> i, fee |-> f[i]]] : f \in [1..n -> Paid]}

Shuffled(list, k) ==
  [i \in DOMAIN list |-> list[((i + k) % Len(list)) + 1]]

\* The services that estimate themselves give one value.
Answers ==
  IF strategy \in {"Helius", "Quiknode"} THEN InOrder(1)
  ELSE LET lists == UNION {InOrder(n) : n \in 0..MaxSamples}
       IN  IF strategy = "Triton" THEN lists
           ELSE lists \cup {Reverse(l) : l \in lists}
                      \cup {Shuffled(l, 1) : l \in lists}

Request ==
  /\ pc = "request"
  /\ pc' = "parse"
  /\ \/ missing' = TRUE /\ UNCHANGED answer
     \/ answer' \in Answers /\ UNCHANGED missing
  /\ UNCHANGED <<strategy, estimate, fee>>

-----------------------------------------------------------------------------
(* The estimates.                                                          *)

AtMost(bound, x) == IF x < bound THEN x ELSE bound

FeesOf(list) == [i \in DOMAIN list |-> list[i].fee]

Total(fees) == SumFunction(fees)

\* x / d rounded to an integer, and to the even one of two that are as near.
Nearest(x, d) ==
  LET q == x \div d
      r == x % d
  IN  IF 2 * r < d THEN q ELSE IF 2 * r > d THEN q + 1 ELSE q + (q % 2)

\* The float next to x / d, both in parts of a Unit.  (Below 1/2 the floats
\* are closer together; what is computed there is only rounded up.)
Float(x, d) ==
  LET u == CHOOSE u \in Ulps : IsUlp(u, x \div d)
  IN  u * Nearest(x, d * u)

MeanOf(fees) == Float(Float(Total(fees) * Unit, 1), Len(fees))

\* Alchemy: ceil() of the mean in f32, times 1.2, truncated; 0 / 0 is NaN, and
\* NaN as u64 is 0.  Mutant: the mean is truncated.
FloorOfMean(fees) == IF fees = <<>> THEN 0 ELSE MeanOf(fees) \div Unit

CeilOfMean(fees) ==
  IF fees = <<>> THEN 0 ELSE (MeanOf(fees) + Unit - 1) \div Unit

PlusFifth(x) == Float(x * Float(12 * Unit, 10), 1) \div Unit

\* Triton: rev().take(20).  Mutant: the oldest are averaged.
FirstSlots(list) == SubSeq(list, 1, AtMost(Window, Len(list)))

LastSlots(list) ==
  SubSeq(list, Len(list) - AtMost(Window, Len(list)) + 1, Len(list))

MeanOfLast(fees) == Total(fees) \div Len(fees)

\* A sort by a key: equal keys stay in the order of the list.
Place(key, i) ==
  Cardinality({j \in DOMAIN key :
                 key[j] < key[i] \/ (key[j] = key[i] /\ j <= i)})

SortedBy(key, list) ==
  [k \in DOMAIN list |-> list[CHOOSE i \in DOMAIN list : Place(key, i) = k]]

\* LOCAL: sort_by slot descending, chunks(150).take(3); every chunk replaces
\* the percentiles of the one before.
NewestFirst(list) == SortedBy([i \in DOMAIN list |-> -list[i].slot], list)

Chunk(list, k) ==
  SubSeq(list, (k - 1) * ChunkSize + 1, AtMost(k * ChunkSize, Len(list)))

LastChunk(list) ==
  AtMost(Chunks, (Len(list) + ChunkSize - 1) \div ChunkSize)

\* Mutant: a 0-based index is taken for a rank.
NextRank(p, len) == AtMost(len, (2 * p * len + 100) \div 200 + 1)

\* round(), half away from 0, saturating_sub(1), and from 0-based to 1-based.
Rank(p, len) ==
  LET rounded == (2 * p * len + 100) \div 200
  IN  IF rounded = 0 THEN 1 ELSE rounded

Percentile(fees, p) == SortedBy(fees, fees)[Rank(p, Len(fees))]

LocalFee(list) ==
  Percentile(FeesOf(Chunk(NewestFirst(list), LastChunk(list))), 75)

-----------------------------------------------------------------------------
\* The answer of a list strategy that an estimate can be made of.
Estimate ==
  IF strategy = "Alchemy" THEN PlusFifth(CeilOfMean(FeesOf(answer)))
  ELSE IF strategy = "Triton" THEN MeanOfLast(FeesOf(LastSlots(answer)))
  ELSE IF strategy = "LOCAL" THEN LocalFee(answer)
  ELSE answer[1].fee

NoEstimate == missing \/ (strategy = "LOCAL" /\ answer = <<>>)

\* estimate_prioritization_fee_micro_lamports has nothing to divide by.
EmptyPanic ==
  /\ pc = "parse"
  /\ strategy = "Triton" /\ ~missing /\ answer = <<>>
  /\ pc' = "crashed"
  /\ UNCHANGED <<strategy, missing, answer, estimate, fee>>

Parse ==
  /\ pc = "parse"
  /\ ~NoEstimate
  /\ strategy = "Triton" => answer # <<>>
  /\ pc' = "estimated"
  /\ estimate' = Estimate
  /\ UNCHANGED <<strategy, missing, answer, fee>>

ParseErr ==
  /\ pc = "parse"
  /\ NoEstimate
  /\ pc' = "estimated"
  /\ estimate' = priority_fee
  /\ UNCHANGED <<strategy, missing, answer, fee>>

\* Mutant: the cap is for --priority-fee alone.
CapOfFlag(x) == IF NoEstimate THEN AtMost(max_rpc_priority_fee, x) ELSE x

Capped(x) == AtMost(max_rpc_priority_fee, x)

Pay ==
  /\ pc = "estimated"
  /\ pc' = "paid"
  /\ fee' = Capped(estimate)
  /\ UNCHANGED <<strategy, missing, answer, estimate>>

Next == Request \/ EmptyPanic \/ Parse \/ ParseErr \/ Pay

Spec == Init /\ [][Next]_vars

-----------------------------------------------------------------------------
TypeOK ==
  /\ strategy \in Strategies
  /\ pc \in {"request", "parse", "estimated", "paid", "crashed"}
  /\ missing \in BOOLEAN
  /\ answer \in Seq(Sample)
  /\ estimate \in Nat
  /\ fee \in 0..max_rpc_priority_fee

Made(s) == strategy = s /\ pc \in {"estimated", "paid"} /\ ~NoEstimate

\* How many samples of an answer are of a later slot.
LaterThan(s) == Cardinality({t \in ToSet(answer) : t.slot > s.slot})

\* "Default to 75 percentile": among the oldest ChunkSize slots that are
\* looked at (all slots, when the node gives no more), three quarters paid
\* the estimate or less, and a quarter paid it or more, but for half a slot.
LocalIsPercentile ==
  Made("LOCAL") =>
    LET group(s) == LaterThan(s) \div ChunkSize
        oldest == AtMost(Chunks - 1, (Len(answer) - 1) \div ChunkSize)
        seen == {s \in ToSet(answer) : group(s) = oldest}
        below == {s \in seen : s.fee < estimate}
        upto == {s \in seen : s.fee <= estimate}
    IN  /\ 4 * Cardinality(upto) >= 3 * Cardinality(seen) - 2
        /\ 4 * Cardinality(below) <= 3 * Cardinality(seen) - 2
        /\ \E s \in seen : s.fee = estimate

\* "Our estimate is the average over the last 20 slots", of an answer that
\* has its slots in order.
AveragesLastSlots ==
  Made("Triton") =>
    LET seen == {s \in ToSet(answer) : LaterThan(s) < Window}
        total == MapThenSumSet(LAMBDA s : s.fee, seen)
    IN  /\ estimate * Cardinality(seen) <= total
        /\ total < (estimate + 1) * Cardinality(seen)

\* Alchemy's estimate is never below the mean of what was paid, whatever the
\* sum, the mean and the product lose as floats, nor above it by more than the
\* rounding up, the fifth that is added, and five roundings of floats.
CoversMean ==
  Made("Alchemy") =>
    LET n == Len(answer)
        total == MapThenSumSet(LAMBDA s : s.fee, ToSet(answer))
    IN  /\ estimate * n >= total
        /\ n > 0 => 10 * (estimate * n) * Unit <= 12 * (total + n) * (Unit + 5)
=============================================================================
