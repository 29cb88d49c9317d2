------------------------- MODULE NonceSearchProofs -------------------------
(***************************************************************************)
(* Proofs about NonceSearch: the threads of one challenge do not repeat    *)
(* each other's work, and a call answers with the best of its threads.     *)
(***************************************************************************)
EXTENDS NonceSearch, TLAPS

\* The shares of the counted cores fit into the nonces of a u64.
LEMMA ShareFits ==
  /\ nonce_unit \in Nat
  /\ nonce_unit * total_cores <= NonceSpace - 1
<1>1. NonceSpace - 1 \in Nat /\ total_cores \in Nat \ {0}
  BY SearchAssumption
<1>2. ASSUME NEW m \in Nat, NEW t \in Nat \ {0}
      PROVE  m \div t \in Nat /\ (m \div t) * t <= m
  BY SMT
<1> QED
  BY <1>1, <1>2 DEF nonce_unit

\* The share of a smaller core number ends before that of a larger one.
LEMMA ShareOrder ==
  ASSUME NEW u \in Nat, NEW i \in Nat, NEW j \in Nat, i < j
  PROVE  u * i + u <= u * j
<1>1. PICK k \in Nat : j = i + 1 + k
  <2>1. j - i - 1 \in Nat /\ j = i + 1 + (j - i - 1)
    OBVIOUS
  <2> QED
    BY <2>1
<1>2. u * k \in Nat /\ u * j = u * i + u + u * k /\ u * i \in Nat
  BY <1>1, SMT
<1> QED
  BY <1>2

\* A counted core starts at the first nonce of its share, and the share ends
\* before the last u64.
LEMMA ShareOf ==
  ASSUME NEW i \in Nat, i < total_cores
  PROVE  /\ nonce_unit * i \in Nat
         /\ StartNonce(i) = nonce_unit * i
         /\ nonce_unit * i + nonce_unit <= NonceSpace - 1
<1>1. nonce_unit * i \in Nat
  BY ShareFits, SMT
<1>2. nonce_unit * i + nonce_unit <= nonce_unit * total_cores
  BY ShareFits, ShareOrder, SearchAssumption
<1>3. nonce_unit * total_cores \in Nat
  BY ShareFits, SearchAssumption, SMT
<1>4. nonce_unit * i + nonce_unit <= NonceSpace - 1
  BY <1>1, <1>2, <1>3, ShareFits, SearchAssumption
<1> QED
  BY <1>1, <1>4, ShareFits, SearchAssumption DEF StartNonce

\* Hashing the nonce after an interval lengthens the interval.
LEMMA IntervalNext ==
  ASSUME NEW a \in Nat, NEW b \in Nat, a <= b
  PROVE  (a .. (b - 1)) \cup {b} = a .. b
  BY SMT

\* Core numbers are naturals.
LEMMA ThreadNat == Thread \subseteq Nat
  BY SearchAssumption, SMT DEF Thread, Threads

-----------------------------------------------------------------------------
(***************************************************************************)
(* The invariant.  A counted thread that has not been through its share is *)
(* still inside it, and has hashed what lies before its nonce; what a      *)
(* thread has found is the best it has tried, what a call has is the best  *)
(* of the threads it has joined, and those are done.                       *)
(***************************************************************************)
Walked(i) ==
  \/ Share(i) \subseteq tried[i]
  \/ /\ nonce[i] \in Share(i)
     /\ tried[i] = (nonce_unit * i) ..
                     (IF tpc[i] = "done" THEN nonce[i] ELSE nonce[i] - 1)

BestHit(hit, seen) ==
  hit.difficulty > 0 =>
    /\ hit.nonce \in seen
    /\ hit.hash = hit.nonce
    /\ hit.difficulty = Score[hit.nonce]

FoundBest(i) ==
  /\ \A n \in tried[i] : Score[n] <= found[i].difficulty
  /\ BestHit(found[i], tried[i])

JoinedThreads(c) == c.offset .. (c.offset + joined[c] - 1)

JoinedBest(c) ==
  /\ joined[c] <= c.cores
  /\ \A i \in JoinedThreads(c) : /\ tpc[i] = "done"
                                 /\ found[i].difficulty <= best[c].difficulty
  /\ best[c].difficulty > 0 =>
       \E i \in Threads(c) : BestHit(best[c], tried[i])

IInv ==
  /\ TypeOK
  /\ \A i \in Thread : i < total_cores => Walked(i)
  /\ \A i \in Thread : FoundBest(i)
  /\ \A c \in Calls : JoinedBest(c)

\* Every core starts at some nonce.
LEMMA StartTypes == \A i \in Thread : StartNonce(i) \in Nonce
<1> SUFFICES ASSUME NEW i \in Thread
             PROVE  StartNonce(i) \in Nonce
  OBVIOUS
<1>1. nonce_unit * i \in Nat
  BY ShareFits, ThreadNat, SMT
<1> QED
  BY <1>1, SearchAssumption DEF StartNonce, Nonce

\* The invariant holds at first.
LEMMA InitIInv == Init => IInv
<1> SUFFICES ASSUME Init
             PROVE  IInv
  OBVIOUS
<1> USE DEF Init
<1>1. TypeOK
  <2>1. 0 \in Nonce
    BY SearchAssumption DEF Nonce
  <2> QED
    BY <2>1, StartTypes, SearchAssumption DEF TypeOK, Hit, Nothing
<1>2. ASSUME NEW i \in Thread, i < total_cores
      PROVE  Walked(i)
  <2>1. i \in Nat
    BY ThreadNat
  <2>2. /\ nonce[i] = nonce_unit * i
        /\ nonce_unit * i \in Nat
    BY <1>2, <2>1, ShareOf
  <2>3. tried[i] = {} /\ tpc[i] = "spawned"
    OBVIOUS
  <2>4. CASE nonce_unit = 0
    BY <2>2, <2>4 DEF Walked, Share
  <2>5. CASE nonce_unit > 0
    BY <2>2, <2>3, <2>5, ShareFits DEF Walked, Share
  <2> QED
    BY <2>4, <2>5, ShareFits
<1>3. ASSUME NEW i \in Thread
      PROVE  FoundBest(i)
  BY DEF FoundBest, BestHit, Nothing
<1>4. ASSUME NEW c \in Calls
      PROVE  JoinedBest(c)
  BY SearchAssumption DEF JoinedBest, JoinedThreads, Nothing
<1> QED
  BY <1>1, <1>2, <1>3, <1>4 DEF IInv

-----------------------------------------------------------------------------
\* What a thread's round does to its own history and find.
LEMMA HashStep ==
  ASSUME IInv, NEW i \in Thread, HashNonce(i)
  PROVE  /\ TypeOK'
         /\ i < total_cores => Walked(i)'
         /\ FoundBest(i)'
<1> DEFINE n == nonce[i]
<1>1. TypeOK /\ n \in Nonce /\ tpc[i] = "hash" /\ Score[n] \in Nat
  BY SearchAssumption DEF IInv, TypeOK, HashNonce
<1>2. /\ tried' = [tried EXCEPT ![i] = @ \cup {n}]
      /\ tried'[i] = tried[i] \cup {n}
  BY <1>1 DEF TypeOK, HashNonce
<1>3. /\ found' = [found EXCEPT ![i] = BetterHit(i)]
      /\ found'[i] = BetterHit(i)
      /\ found[i] \in Hit
  BY <1>1 DEF TypeOK, HashNonce
<1>4. BetterHit(i) \in Hit
  BY <1>1, <1>3 DEF BetterHit, Hit
<1>5. \/ tpc'[i] = "done" /\ nonce'[i] = n
      \/ tpc'[i] = "hash" /\ nonce'[i] = (n + 1) % NonceSpace
  BY <1>1 DEF TypeOK, HashNonce, NextNonce
<1>6. (n + 1) % NonceSpace \in Nonce
  BY <1>1, SearchAssumption, SMT DEF Nonce
<1>7. TypeOK'
  <2>1. /\ nonce' \in [Thread -> Nonce]
        /\ tpc' \in [Thread -> {"spawned", "hash", "done"}]
    BY <1>1, <1>6 DEF TypeOK, HashNonce, NextNonce
  <2>2. late' \in [Thread -> Nat]
    BY <1>1 DEF TypeOK, HashNonce
  <2>3. tried' \in [Thread -> SUBSET Nonce] /\ found' \in [Thread -> Hit]
    BY <1>1, <1>2, <1>3, <1>4 DEF TypeOK
  <2>4. UNCHANGED <<elapsed, joined, best>>
    BY DEF HashNonce
  <2> QED
    BY <1>1, <2>1, <2>2, <2>3, <2>4 DEF TypeOK
<1>8. ASSUME i < total_cores
      PROVE  Walked(i)'
  <2> DEFINE first == nonce_unit * i
  <2>1. first \in Nat /\ nonce_unit \in Nat /\ n \in Nat
        /\ first + nonce_unit <= NonceSpace - 1
    BY <1>1, <1>8, ShareOf, ShareFits, ThreadNat DEF Nonce
  <2>2. CASE Share(i) \subseteq tried[i]
    BY <1>2, <2>2 DEF Walked, Share
  <2>3. CASE n \in Share(i) /\ tried[i] = first .. (n - 1)
    <3>1. first <= n /\ n <= first + nonce_unit - 1
      BY <2>1, <2>3 DEF Share
    <3>2. tried'[i] = first .. n
      BY <1>2, <2>1, <2>3, <3>1, IntervalNext
    <3>3. CASE tpc'[i] = "done" /\ nonce'[i] = n
      BY <2>3, <3>2, <3>3 DEF Walked, Share
    <3>4. CASE tpc'[i] = "hash" /\ nonce'[i] = (n + 1) % NonceSpace
      <4>1. nonce'[i] = n + 1
        BY <2>1, <3>1, <3>4, SearchAssumption, SMT
      <4>2. CASE n + 1 <= first + nonce_unit - 1
        BY <2>1, <3>1, <3>2, <3>4, <4>1, <4>2 DEF Walked, Share
      <4>3. CASE n + 1 = first + nonce_unit
        BY <2>1, <3>1, <3>2, <4>3 DEF Walked, Share
      <4> QED
        BY <2>1, <3>1, <4>2, <4>3
    <3> QED
      BY <1>5, <3>3, <3>4
  <2>4. Walked(i)
    BY <1>8 DEF IInv
  <2> QED
    BY <1>1, <2>2, <2>3, <2>4 DEF Walked
<1>9. FoundBest(i)'
  <2>1. FoundBest(i)
    BY DEF IInv
  <2>2. found[i].difficulty \in Nat /\ \A m \in tried[i] : Score[m] \in Nat
    BY <1>1, <1>3, SearchAssumption DEF Hit, TypeOK
  <2>3. CASE Score[n] > found[i].difficulty
    BY <1>1, <1>2, <1>3, <2>1, <2>2, <2>3 DEF FoundBest, BestHit, BetterHit
  <2>4. CASE ~(Score[n] > found[i].difficulty)
    BY <1>1, <1>2, <1>3, <2>1, <2>2, <2>4 DEF FoundBest, BestHit, BetterHit
  <2> QED
    BY <2>3, <2>4
<1> QED
  BY <1>7, <1>8, <1>9

\* Every step keeps the invariant: a round of one thread leaves the others'
\* history alone, a join takes in one more thread that is done.
LEMMA NextIInv == IInv /\ [Next]_vars => IInv'
<1> SUFFICES ASSUME IInv, [Next]_vars
             PROVE  IInv'
  OBVIOUS
<1>1. /\ TypeOK
      /\ \A i \in Thread : i < total_cores => Walked(i)
      /\ \A i \in Thread : FoundBest(i)
      /\ \A c \in Calls : JoinedBest(c)
  BY DEF IInv
<1>2. \A c \in Calls : Threads(c) \subseteq Thread
  BY DEF Thread
<1>3. ASSUME NEW i \in Thread, StartTimer(i)
      PROVE  IInv'
  <2>1. TypeOK'
    BY <1>1, <1>3 DEF TypeOK, StartTimer
  <2>2. UNCHANGED <<nonce, found, tried, joined, best>>
    BY <1>3 DEF StartTimer
  <2>3. \A j \in Thread : tpc[j] = "done" <=> tpc'[j] = "done"
    BY <1>1, <1>3 DEF StartTimer, TypeOK
  <2>4. \A j \in Thread : Walked(j) => Walked(j)'
    BY <2>2, <2>3 DEF Walked, Share
  <2>5. \A j \in Thread : FoundBest(j) => FoundBest(j)'
    BY <2>2 DEF FoundBest, BestHit
  <2>6. \A c \in Calls : JoinedBest(c) => JoinedBest(c)'
    <3> SUFFICES ASSUME NEW c \in Calls, JoinedBest(c)
                 PROVE  JoinedBest(c)'
      OBVIOUS
    <3>1. JoinedThreads(c)' = JoinedThreads(c)
      BY <2>2 DEF JoinedThreads
    <3>2. JoinedThreads(c) \subseteq Thread
      BY <1>1, <1>2, SearchAssumption, SMT
      DEF JoinedBest, JoinedThreads, Threads, TypeOK
    <3> QED
      BY <2>2, <2>3, <3>1, <3>2 DEF JoinedBest, BestHit
  <2> QED
    BY <1>1, <2>1, <2>4, <2>5, <2>6 DEF IInv
<1>4. ASSUME NEW i \in Thread, SecondPasses(i)
      PROVE  IInv'
  <2>1. TypeOK'
    BY <1>1, <1>4, SearchAssumption DEF TypeOK, SecondPasses
  <2>2. UNCHANGED <<tpc, nonce, found, tried, joined, best>>
    BY <1>4 DEF SecondPasses
  <2>3. \A j \in Thread : Walked(j) => Walked(j)'
    BY <2>2 DEF Walked, Share
  <2>4. \A j \in Thread : FoundBest(j) => FoundBest(j)'
    BY <2>2 DEF FoundBest, BestHit
  <2>5. \A c \in Calls : JoinedBest(c) => JoinedBest(c)'
    BY <2>2 DEF JoinedBest, BestHit, JoinedThreads
  <2> QED
    BY <1>1, <2>1, <2>3, <2>4, <2>5 DEF IInv
<1>5. ASSUME NEW i \in Thread, HashNonce(i)
      PROVE  IInv'
  <2>1. /\ TypeOK'
        /\ i < total_cores => Walked(i)'
        /\ FoundBest(i)'
    BY <1>5, HashStep
  <2>2. \A j \in Thread \ {i} :
          /\ tpc'[j] = tpc[j] /\ nonce'[j] = nonce[j]
          /\ found'[j] = found[j] /\ tried'[j] = tried[j]
    BY <1>1, <1>5 DEF HashNonce, TypeOK
  <2>3. \A j \in Thread \ {i} : Walked(j) => Walked(j)'
    BY <2>2 DEF Walked, Share
  <2>4. \A j \in Thread \ {i} : FoundBest(j) => FoundBest(j)'
    BY <2>2 DEF FoundBest, BestHit
  <2>5. tpc[i] # "done" /\ UNCHANGED <<joined, best>>
    BY <1>5 DEF HashNonce
  <2>6. \A j \in Thread : tried[j] \subseteq tried'[j]
    BY <1>1, <1>5, <2>2 DEF HashNonce, TypeOK
  <2>7. \A c \in Calls : JoinedBest(c) => JoinedBest(c)'
    <3> SUFFICES ASSUME NEW c \in Calls, JoinedBest(c)
                 PROVE  JoinedBest(c)'
      OBVIOUS
    <3>1. JoinedThreads(c)' = JoinedThreads(c)
      BY <2>5 DEF JoinedThreads
    <3>2. JoinedThreads(c) \subseteq Thread \ {i}
      BY <1>1, <1>2, <2>5, SearchAssumption, SMT
      DEF JoinedBest, JoinedThreads, Threads, TypeOK
    <3>3. \A j \in JoinedThreads(c)' :
            /\ tpc'[j] = "done"
            /\ found'[j].difficulty <= best'[c].difficulty
      BY <2>2, <2>5, <3>1, <3>2 DEF JoinedBest
    <3>4. best'[c].difficulty > 0 =>
            \E j \in Threads(c) : BestHit(best[c], tried'[j])
      BY <1>2, <2>5, <2>6 DEF JoinedBest, BestHit
    <3> QED
      BY <2>5, <3>3, <3>4 DEF JoinedBest, BestHit
  <2> QED
    BY <1>1, <2>1, <2>3, <2>4, <2>7 DEF IInv
<1>6. ASSUME NEW c \in Calls, Join(c)
      PROVE  IInv'
  <2> DEFINE i == c.offset + joined[c]
  <2>1. /\ c.offset \in Nat /\ c.cores \in Nat /\ joined[c] \in Nat
        /\ joined[c] < c.cores /\ tpc[i] = "done"
    BY <1>1, <1>6, SearchAssumption DEF Join, TypeOK
  <2>2. i \in Threads(c) /\ i \in Thread
    BY <1>2, <2>1 DEF Threads
  <2>3. UNCHANGED threadVars /\ joined' = [joined EXCEPT ![c] = @ + 1]
    BY <1>6 DEF Join
  <2>4. best' = [best EXCEPT ![c] =
                   IF found[i].difficulty > best[c].difficulty
                   THEN found[i] ELSE best[c]]
    BY <1>1, <1>6 DEF Join, TypeOK
  <2>5. /\ found[i] \in Hit /\ best[c] \in Hit
        /\ \A j \in Thread : found[j].difficulty \in Nat
    BY <1>1, <2>2 DEF TypeOK, Hit
  <2>6. TypeOK'
    BY <1>1, <2>1, <2>3, <2>4, <2>5 DEF TypeOK, threadVars
  <2>7. \A j \in Thread : Walked(j) => Walked(j)'
    BY <2>3 DEF Walked, Share, threadVars
  <2>8. \A j \in Thread : FoundBest(j) => FoundBest(j)'
    BY <2>3 DEF FoundBest, BestHit, threadVars
  <2>9. JoinedBest(c)'
    <3>1. joined'[c] = joined[c] + 1
      BY <1>1, <2>3 DEF TypeOK
    <3>2. /\ best'[c].difficulty \in Nat
          /\ found[i].difficulty <= best'[c].difficulty
          /\ best[c].difficulty <= best'[c].difficulty
          /\ best'[c] = found[i] \/ best'[c] = best[c]
      BY <1>1, <2>4, <2>5 DEF TypeOK, Hit
    <3>3. ASSUME NEW j \in JoinedThreads(c)'
          PROVE  /\ tpc'[j] = "done"
                 /\ found'[j].difficulty <= best'[c].difficulty
      <4>1. j \in JoinedThreads(c) \/ j = i
        BY <2>1, <3>1, <3>3 DEF JoinedThreads
      <4>2. CASE j = i
        BY <2>1, <2>3, <3>2, <4>2 DEF threadVars
      <4>3. CASE j \in JoinedThreads(c)
        <5>1. /\ tpc[j] = "done"
              /\ found[j].difficulty <= best[c].difficulty
          BY <1>1, <4>3 DEF JoinedBest
        <5>2. j \in Thread
          BY <1>2, <2>1, <4>3 DEF JoinedThreads, Threads
        <5> QED
          BY <2>3, <2>5, <3>2, <5>1, <5>2 DEF threadVars, Hit
      <4> QED
        BY <4>1, <4>2, <4>3
    <3>4. best'[c].difficulty > 0 =>
            \E j \in Threads(c) : BestHit(best'[c], tried[j])
      <4>1. BestHit(found[i], tried[i])
        BY <1>1, <2>2 DEF FoundBest
      <4>2. best[c].difficulty > 0 =>
              \E j \in Threads(c) : BestHit(best[c], tried[j])
        BY <1>1 DEF JoinedBest
      <4> QED
        BY <2>2, <3>2, <4>1, <4>2
    <3> QED
      BY <2>1, <2>3, <3>1, <3>3, <3>4 DEF JoinedBest, BestHit, threadVars
  <2>10. \A d \in Calls \ {c} : JoinedBest(d) => JoinedBest(d)'
    <3>1. \A d \in Calls \ {c} : joined'[d] = joined[d] /\ best'[d] = best[d]
      BY <1>1, <2>3, <2>4 DEF TypeOK
    <3> QED
      BY <2>3, <3>1 DEF JoinedBest, JoinedThreads, BestHit, threadVars
  <2> QED
    BY <1>1, <2>6, <2>7, <2>8, <2>9, <2>10 DEF IInv
<1>7. CASE UNCHANGED vars
  BY <1>1, <1>7
  DEF vars, threadVars, IInv, TypeOK, Walked, Share, FoundBest, BestHit,
      JoinedBest, JoinedThreads
<1> QED
  BY <1>3, <1>4, <1>5, <1>6, <1>7 DEF Next

\* The invariant is inductive.
LEMMA Inductive == Spec => []IInv
  BY InitIInv, NextIInv, PTL DEF Spec

-----------------------------------------------------------------------------
\* Every reachable state of the search is well-formed: no nonce leaves the
\* range of a u64, whatever the total and the offsets.
THEOREM SearchTypeCorrect == Spec => []TypeOK
<1>1. IInv => TypeOK
  BY DEF IInv
<1> QED
  BY <1>1, Inductive, PTL

\* Two counted cores hash the same nonce only after one of them has been
\* through its share of the u64 range, for every number of machines, cores
\* and nonces (find_hash_par's nonce_unit and saturating_mul).
THEOREM NoDoubleWorkCorrect == Spec => []NoDoubleWork
<1>1. IInv => NoDoubleWork
  <2> SUFFICES ASSUME IInv,
                      NEW i \in Thread, NEW j \in Thread, i < j,
                      i < total_cores, j < total_cores,
                      ~(Share(i) \subseteq tried[i]),
                      ~(Share(j) \subseteq tried[j])
               PROVE  tried[i] \cap tried[j] = {}
    <3>1. \A i, j \in Thread : i # j => i < j \/ j < i
      BY ThreadNat, SMT
    <3> QED
      BY <3>1 DEF NoDoubleWork
  <2>1. i \in Nat /\ j \in Nat /\ nonce_unit \in Nat
    BY ThreadNat, ShareFits
  <2>2. nonce_unit * i + nonce_unit <= nonce_unit * j
    BY <2>1, ShareOrder
  <2>3. nonce_unit * i \in Nat /\ nonce_unit * j \in Nat
    BY <2>1, ShareOf
  <2>4. \A k \in {i, j} : /\ nonce[k] \in Share(k)
                          /\ tried[k] \subseteq (nonce_unit * k) .. nonce[k]
    <3> SUFFICES ASSUME NEW k \in {i, j}
                 PROVE  /\ nonce[k] \in Share(k)
                        /\ tried[k] \subseteq (nonce_unit * k) .. nonce[k]
      OBVIOUS
    <3>1. Walked(k) /\ nonce[k] \in Nat /\ nonce_unit * k \in Nat
      BY <2>3 DEF IInv, TypeOK, Nonce
    <3> QED
      BY <3>1 DEF Walked
  <2>5. tried[i] \subseteq Share(i) /\ tried[j] \subseteq Share(j)
    BY <2>1, <2>3, <2>4 DEF Share
  <2>6. Share(i) \cap Share(j) = {}
    BY <2>1, <2>2, <2>3 DEF Share
  <2> QED
    BY <2>5, <2>6
<1> QED
  BY <1>1, Inductive, PTL

\* What a machine sends is the best its threads have hashed, and the digest
\* belongs to the nonce, for every outcome of drillx.
THEOREM AnswersBestCorrect == Spec => []AnswersBest
<1>1. IInv => AnswersBest
  <2> SUFFICES ASSUME IInv, NEW c \in Calls, Returned(c)
               PROVE  /\ \A i \in Threads(c), n \in Nonce :
                           n \in tried[i] => Score[n] <= best[c].difficulty
                      /\ best[c].difficulty > 0 =>
                           /\ \E i \in Threads(c) : best[c].nonce \in tried[i]
                           /\ best[c].hash = best[c].nonce
                           /\ best[c].difficulty = Score[best[c].nonce]
    BY DEF AnswersBest
  <2>1. JoinedBest(c) /\ JoinedThreads(c) = Threads(c)
    BY DEF IInv, Returned, JoinedThreads, Threads
  <2>2. ASSUME NEW i \in Threads(c), NEW n \in Nonce, n \in tried[i]
        PROVE  Score[n] <= best[c].difficulty
    <3>1. i \in Thread
      BY DEF Thread
    <3>2. Score[n] <= found[i].difficulty
      BY <2>2, <3>1 DEF IInv, FoundBest
    <3>3. found[i].difficulty <= best[c].difficulty
      BY <2>1 DEF JoinedBest
    <3>4. /\ Score[n] \in Nat /\ found[i].difficulty \in Nat
          /\ best[c].difficulty \in Nat
      BY <3>1, SearchAssumption DEF IInv, TypeOK, Hit
    <3> QED
      BY <3>2, <3>3, <3>4
  <2>3. best[c].difficulty > 0 =>
          \E i \in Threads(c) : BestHit(best[c], tried[i])
    BY <2>1 DEF JoinedBest
  <2> QED
    BY <2>2, <2>3 DEF BestHit
<1> QED
  BY <1>1, Inductive, PTL
-----------------------------------------------------------------------------
(***************************************************************************)
(* How long a thread overruns its time.                                    *)
(***************************************************************************)

\* Division with remainder.
LEMMA DivMod ==
  ASSUME NEW n \in Nat, NEW s \in Nat \ {0}
  PROVE  /\ n \div s \in Nat /\ n % s \in 0..(s - 1)
         /\ n = s * (n \div s) + (n % s)
BY SMT

\* The remainder counts up and falls back to 0.
LEMMA ModNext ==
  ASSUME NEW n \in Nat, NEW s \in Nat \ {0}
  PROVE  (n + 1) % s = 0 \/ (n + 1) % s = (n % s) + 1
<1> DEFINE q == n \div s
           r == n % s
           p == (n + 1) \div s
           t == (n + 1) % s
<1>1. q \in Nat /\ r \in 0..(s - 1) /\ n = s * q + r
  BY DivMod
<1>2. p \in Nat /\ t \in 0..(s - 1) /\ n + 1 = s * p + t
  <2>1. n + 1 \in Nat
    OBVIOUS
  <2> QED
    BY <2>1, DivMod
<1> HIDE DEF q, r, p, t
<1>3. s * q \in Nat /\ s * p \in Nat
  BY <1>1, <1>2, SMT
<1>4. CASE p < q
  <2>1. s * p + s <= s * q
    BY <1>1, <1>2, <1>4, ShareOrder
  <2> QED
    BY <1>1, <1>2, <1>3, <2>1
<1>5. CASE p = q
  BY <1>1, <1>2, <1>3, <1>5 DEF r, t
<1>6. CASE q < p
  <2>1. s * q + s <= s * p
    BY <1>1, <1>2, <1>6, ShareOrder
  <2> QED
    BY <1>1, <1>2, <1>3, <2>1 DEF r, t
<1> QED
  BY <1>1, <1>2, <1>4, <1>5, <1>6

\* Of the nonces since the last checkpoint, a thread that is still at it has
\* hashed no more than these after its time was up.
SinceCheckPoint(n) == IF CheckPoint(n) THEN Stride - 1 ELSE (n % Stride) - 1

LateInv ==
  \A i \in Thread :
    late[i] <= IF tpc[i] = "done" THEN Stride ELSE SinceCheckPoint(nonce[i])

\* What a nonce adds, and that the wrap at the end of a u64 is a checkpoint.
LEMMA SinceNext ==
  ASSUME NEW n \in Nonce
  PROVE  /\ SinceCheckPoint(n) \in 0..(Stride - 1)
         /\ SinceCheckPoint(NextNonce(n)) \in 0..(Stride - 1)
         /\ ~CheckPoint(n) =>
              SinceCheckPoint(n) + 1 <= SinceCheckPoint(NextNonce(n))
<1>1. Stride \in Nat \ {0} /\ n \in Nat
  BY SearchAssumption DEF Stride, Nonce
<1>2. n % Stride \in 0..(Stride - 1)
  BY <1>1, DivMod
<1>3. NextNonce(n) = 0 \/ NextNonce(n) = n + 1
  <2>1. NonceSpace \in Nat \ {0} /\ n < NonceSpace
    BY SearchAssumption DEF Nonce
  <2>2. CASE n + 1 = NonceSpace
    <3>1. NonceSpace % NonceSpace = 0
      BY <2>1, SMT
    <3> QED
      BY <2>2, <3>1 DEF NextNonce
  <2>3. CASE n + 1 < NonceSpace
    <3>1. (n + 1) % NonceSpace = n + 1
      BY <1>1, <2>1, <2>3, SMT
    <3> QED
      BY <3>1 DEF NextNonce
  <2> QED
    BY <1>1, <2>1, <2>2, <2>3
<1>4. 0 % Stride = 0
  BY <1>1, SMT
<1>5. n + 1 \in Nat /\ (n + 1) % Stride \in 0..(Stride - 1)
  <2>1. n + 1 \in Nat
    BY <1>1
  <2> QED
    BY <1>1, <2>1, DivMod
<1>6. (n + 1) % Stride = 0 \/ (n + 1) % Stride = (n % Stride) + 1
  BY <1>1, ModNext
<1> HIDE DEF Stride
<1>7. CASE NextNonce(n) = 0
  BY <1>1, <1>2, <1>4, <1>7 DEF SinceCheckPoint, CheckPoint
<1>8. CASE NextNonce(n) = n + 1
  BY <1>1, <1>2, <1>5, <1>6, <1>8 DEF SinceCheckPoint, CheckPoint
<1> QED
  BY <1>3, <1>7, <1>8

\* A thread looks at its timer once per stride, so it hashes at most Stride
\* nonces after its time was up, wherever its share starts and whether or not
\* it wraps.
THEOREM OverrunCorrect == Spec => []OverrunBounded
<1>1. Stride \in Nat \ {0}
  BY SearchAssumption DEF Stride
<1>2. Init => LateInv
  <2> SUFFICES ASSUME Init, NEW i \in Thread PROVE 0 <= SinceCheckPoint(nonce[i])
    BY DEF Init, LateInv
  <2>1. nonce[i] \in Nonce
    BY StartTypes DEF Init
  <2> QED
    BY <1>1, <2>1, SinceNext
<1>3. IInv /\ LateInv /\ [Next]_vars => LateInv'
  <2> SUFFICES ASSUME IInv, LateInv, [Next]_vars PROVE LateInv'
    OBVIOUS
  <2>1. TypeOK
    BY DEF IInv
  <2>2. CASE \E i \in Thread : StartTimer(i) \/ SecondPasses(i)
    <3> PICK i \in Thread : StartTimer(i) \/ SecondPasses(i)
      BY <2>2
    <3>1. /\ UNCHANGED <<nonce, late>>
          /\ \A j \in Thread : tpc'[j] = "done" <=> tpc[j] = "done"
      BY <2>1 DEF StartTimer, SecondPasses, TypeOK
    <3> QED
      BY <3>1 DEF LateInv
  <2>3. ASSUME NEW i \in Thread, HashNonce(i) PROVE LateInv'
    <3>1. /\ tpc[i] = "hash" /\ nonce[i] \in Nonce /\ late[i] \in Nat
          /\ late'[i] = IF TimeUp(i) THEN late[i] + 1 ELSE 0
      BY <2>1, <2>3 DEF HashNonce, TypeOK
    <3>2. late[i] <= SinceCheckPoint(nonce[i])
      BY <3>1 DEF LateInv
    <3>3. /\ SinceCheckPoint(nonce[i]) \in 0..(Stride - 1)
          /\ SinceCheckPoint(NextNonce(nonce[i])) \in 0..(Stride - 1)
          /\ ~CheckPoint(nonce[i]) =>
               SinceCheckPoint(nonce[i]) + 1
                 <= SinceCheckPoint(NextNonce(nonce[i]))
      BY <3>1, SinceNext
    <3>4. CASE CheckPoint(nonce[i]) /\ TimeUp(i)
      <4>1. tpc'[i] = "done" /\ late'[i] <= Stride
        BY <1>1, <2>1, <2>3, <3>1, <3>2, <3>3, <3>4 DEF HashNonce, TypeOK
      <4> QED
        BY <2>1, <2>3, <4>1 DEF LateInv, HashNonce, TypeOK
    <3>5. CASE ~(CheckPoint(nonce[i]) /\ TimeUp(i))
      <4>1. tpc' = tpc /\ nonce'[i] = NextNonce(nonce[i])
        BY <2>1, <2>3, <3>5 DEF HashNonce, TypeOK
      <4>2. late'[i] <= SinceCheckPoint(nonce'[i])
        BY <1>1, <3>1, <3>2, <3>3, <3>5, <4>1
      <4> QED
        BY <2>1, <2>3, <3>1, <3>5, <4>1, <4>2 DEF LateInv, HashNonce, TypeOK
    <3> QED
      BY <3>4, <3>5
  <2>4. CASE (\E c \in Calls : Join(c)) \/ UNCHANGED vars
    <3>1. UNCHANGED <<tpc, nonce, late>>
      BY <2>4 DEF Join, vars, threadVars
    <3> QED
      BY <3>1 DEF LateInv
  <2> QED
    BY <2>2, <2>3, <2>4 DEF Next
<1>4. IInv /\ LateInv => OverrunBounded
  <2> SUFFICES ASSUME IInv, LateInv, NEW i \in Thread PROVE late[i] <= Stride
    BY DEF OverrunBounded
  <2>1. nonce[i] \in Nonce /\ late[i] \in Nat
    BY DEF IInv, TypeOK
  <2>2. SinceCheckPoint(nonce[i]) \in 0..(Stride - 1)
    BY <2>1, SinceNext
  <2> QED
    BY <1>1, <2>1, <2>2 DEF LateInv
<1> QED
  BY <1>2, <1>3, <1>4, Inductive, PTL DEF Spec
=============================================================================
