------------------------ MODULE SendAndConfirmProofs ------------------------
(***************************************************************************)
(* Proofs about SendAndConfirm, for every number of retries, every limit   *)
(* and every pace of landings: the records of LandStatus add up, and the   *)
(* routes implement Submission.                                            *)
(***************************************************************************)
EXTENDS SendAndConfirm, Sums, SequenceTheorems

\* What the proofs need of the types; the averages are not among it.
RecordTypes ==
  /\ hits \in Nat /\ total_hash_times \in Nat /\ total_error_times \in Nat
  /\ total_failed_times \in Nat /\ count \in Nat
  /\ fallbacks \in Nat /\ unsigned \in Nat /\ changes \in {0, 1}
  /\ tx \in [Tx -> {"unsent", "sent", "ok", "err"}]

\* A call that is under way is one solution ahead of the records, until it
\* enters its route it is one behind in total_hash_times, and it has no
\* result.
Ahead == IF Busy THEN 1 ELSE 0
Behind == IF pc = "auto" THEN 1 ELSE 0

Records ==
  /\ hits = count + total_error_times + total_failed_times + unsigned + Ahead
  /\ total_hash_times + Behind = hits + fallbacks
  /\ Busy => result = "none"

\* A call on its first route has not turned, and before it signs there it has
\* sent nothing.
TurnedInv ==
  /\ Busy /\ (pc = "auto" \/ route = "jito") => changes = 0
  /\ pc \in {"auto", "blockhash"} /\ changes = 0 => \A k \in Tx : tx[k] = "unsent"

IInv == RecordTypes /\ Records /\ TurnedInv

\* At first nothing was submitted.
LEMMA InitIInv == Init => IInv
  BY DEF Init, IInv, RecordTypes, Records, Ahead, Behind, TurnedInv, Busy, NoTx,
         Tx

\* What entering a route does to the records.
LEMMA EnterRecords ==
  ASSUME NEW r, EnterRoute(r)
  PROVE  total_hash_times' = total_hash_times + 1 /\ route' = r
  BY DEF EnterRoute

\* Each route's transaction has a place in tx.
LEMMA TxOfType == \A r : TxOf(r) \in Tx
  BY DEF TxOf, Tx

\* Every step keeps the records: one case per action.
LEMMA NextIInv == IInv /\ [Next]_vars => IInv'
<1> SUFFICES ASSUME IInv, [Next]_vars
             PROVE  IInv'
  OBVIOUS
<1> USE DEF IInv, RecordTypes, Records, Ahead, Behind, TurnedInv, Busy
<1>1. CASE Mine
  BY <1>1 DEF Mine, landVars, recordVars, entryVars, callVars, historyVars
<1>2. CASE Submit
  <2>1. /\ NoTx \in [Tx -> {"unsent", "sent", "ok", "err"}]
        /\ \A k \in Tx : NoTx[k] = "unsent"
    BY DEF NoTx
  <2> QED
    BY <1>2, <2>1 DEF Submit, landVars, recordVars, entryVars, callVars, historyVars
<1>3. CASE ChooseRoute
  <2>1. total_hash_times' = total_hash_times + 1
    BY <1>3, EnterRecords
    DEF ChooseRoute, EnterJito, EnterDynamic, EnterRpc
  <2> QED
    BY <1>3, <2>1 DEF ChooseRoute, landVars, recordVars, historyVars
<1>4. CASE Signed
  BY <1>4 DEF Signed, landVars, recordVars, entryVars, callVars, historyVars
<1>5. CASE NoBlockhash
  BY <1>5 DEF NoBlockhash, Return, landVars, recordVars, entryVars, callVars
<1>6. CASE SendOk
  BY <1>6, TxOfType
  DEF SendOk, Reaches, landVars, recordVars, entryVars, callVars, historyVars
<1>7. ASSUME NEW taken \in BOOLEAN, SendErr(taken)
      PROVE  IInv'
  BY <1>7, TxOfType
  DEF SendErr, Reaches, landVars, recordVars, entryVars, callVars, historyVars
<1>8. CASE PollAgain
  BY <1>8 DEF PollAgain, landVars, recordVars, entryVars, callVars, historyVars
<1>9. CASE PollErr
  BY <1>9 DEF PollErr, Return, recordVars, entryVars, callVars, historyVars
<1>10. ASSUME NEW s \in Seconds, PollOk(s)
       PROVE  IInv'
  BY <1>10 DEF PollOk, Return, entryVars, callVars, historyVars
<1>11. CASE SendAgain
  BY <1>11 DEF SendAgain, landVars, recordVars, entryVars, callVars, historyVars
<1>12. CASE TurnToRpc
  <2>1. total_hash_times' = total_hash_times + 1 /\ route' = "rpc"
    BY <1>12, EnterRecords DEF TurnToRpc, EnterRpc
  <2> QED
    BY <1>12, <2>1 DEF TurnToRpc, FailedSoFar, recordVars
<1>13. CASE MaxRetries
  BY <1>13 DEF MaxRetries, Return, recordVars, entryVars, callVars, historyVars
<1>14. ASSUME NEW t \in Tips, StoreTip(t)
       PROVE  IInv'
  BY <1>14 DEF StoreTip, landVars, recordVars, entryVars, callVars, historyVars
<1>15. ASSUME NEW k \in Tx, Execute(k)
       PROVE  IInv'
  BY <1>15 DEF Execute, landVars, recordVars, entryVars, callVars, historyVars
<1>16. CASE UNCHANGED vars
  BY <1>16 DEF vars, landVars, recordVars, entryVars, callVars, historyVars
<1> QED
  BY <1>1, <1>2, <1>3, <1>4, <1>5, <1>6, <1>7, <1>8, <1>9, <1>10, <1>11,
     <1>12, <1>13, <1>14, <1>15, <1>16
  DEF Next, Proceeds

\* The invariant is inductive.
LEMMA Inductive == Spec => []IInv
  BY InitIInv, NextIInv, PTL DEF Spec

-----------------------------------------------------------------------------
\* Between two submissions the counters of LandStatus account for every
\* solution, however many retries, fallbacks and failures there were.
THEOREM AccountedCorrect == Spec => []Accounted
<1>1. IInv => Accounted
  BY DEF IInv, RecordTypes, Records, Ahead, Behind, Busy, Accounted
<1> QED
  BY <1>1, Inductive, PTL

-----------------------------------------------------------------------------
\* Nothing is sent or landed at first.
LEMMA InitPromise == Init => Promise!Init
  BY DEF Init, Promise!Init, Busy, NoTx, Tx

\* A send can only change "unsent" into "sent".
LEMMA ReachesOnly ==
  ASSUME IInv, NEW k \in Tx, Reaches(k)
  PROVE  /\ \E j \in Tx : tx'[j] # "unsent"
         /\ (\E j \in Tx : tx'[j] = "ok") <=> (\E j \in Tx : tx[j] = "ok")
<1>1. \A j \in Tx : /\ tx'[j] = "ok" <=> tx[j] = "ok"
                    /\ j = k => tx'[j] # "unsent"
  BY DEF IInv, RecordTypes, Reaches
<1> QED
  BY <1>1

\* Every step of the routes is a step of Submission, or none.
LEMMA NextPromise ==
  IInv /\ [Next]_vars => [Promise!Next]_(Promise!submissionVars)
<1> SUFFICES ASSUME IInv, [Next]_vars
             PROVE  Promise!Next \/ UNCHANGED Promise!submissionVars
  OBVIOUS
<1> USE DEF Busy, historyVars, Promise!Next, Promise!submissionVars
<1>1. CASE Mine
  BY <1>1 DEF Mine, Promise!Mine
<1>2. CASE Submit
  BY <1>2 DEF Submit, NoTx, historyVars, Promise!Begin
<1>3. CASE ChooseRoute
  BY <1>3 DEF ChooseRoute
<1>4. CASE Signed
  BY <1>4 DEF Signed, Promise!Sign
<1>5. CASE NoBlockhash
  <2>1. changes \in {0, 1} /\ UNCHANGED changes
    BY <1>5 DEF NoBlockhash, IInv, RecordTypes
  <2>2. CASE changes = 0
    <3>1. \A k \in Tx : tx[k] = "unsent"
      BY <1>5, <2>2 DEF NoBlockhash, IInv, TurnedInv
    <3>2. Promise!FailUnsigned
      BY <1>5, <2>1, <2>2, <3>1
      DEF NoBlockhash, Return, IInv, Records, Promise!FailUnsigned
    <3> QED
      BY <3>2
  <2>3. CASE changes = 1
    <3>1. Promise!FailTurned
      BY <1>5, <2>1, <2>3
      DEF NoBlockhash, Return, IInv, Records, Promise!FailTurned
    <3> QED
      BY <3>1
  <2> QED
    BY <2>1, <2>2, <2>3
<1>6. CASE SendOk
  <2>1. Reaches(TxOf(route))
    BY <1>6 DEF SendOk
  <2> QED
    BY <1>6, <2>1, ReachesOnly, TxOfType DEF SendOk, Promise!Send
<1>7. ASSUME NEW taken \in BOOLEAN, SendErr(taken)
      PROVE  Promise!Next \/ UNCHANGED Promise!submissionVars
  <2>1. CASE taken
    <3>1. Reaches(TxOf(route))
      BY <1>7, <2>1 DEF SendErr
    <3> QED
      BY <1>7, <3>1, ReachesOnly, TxOfType DEF SendErr, Promise!Send
  <2>2. CASE ~taken
    BY <1>7, <2>2 DEF SendErr
  <2> QED
    BY <2>1, <2>2
<1>8. CASE PollAgain
  BY <1>8 DEF PollAgain
<1>9. CASE PollErr
  BY <1>9 DEF PollErr, Return, IInv, Records, Promise!Fail
<1>10. ASSUME NEW s \in Seconds, PollOk(s)
       PROVE  Promise!Confirm
  BY <1>10, TxOfType DEF PollOk, ConfirmedStatus, Return, Promise!Confirm
<1>11. CASE SendAgain
  BY <1>11 DEF SendAgain
<1>12. CASE TurnToRpc
  BY <1>12 DEF TurnToRpc, JitoIsOver, IInv, TurnedInv, Promise!ChangeRoute
<1>13. CASE MaxRetries
  BY <1>13 DEF MaxRetries, Return, IInv, Records, Promise!Fail
<1>14. ASSUME NEW t \in Tips, StoreTip(t)
       PROVE  UNCHANGED Promise!submissionVars
  BY <1>14 DEF StoreTip
<1>15. ASSUME NEW k \in Tx, Execute(k)
       PROVE  Promise!Next \/ UNCHANGED Promise!submissionVars
  <2>1. PICK fate \in {"ok", "err"} :
          /\ fate = "ok" => \A j \in Tx : tx[j] # "ok"
          /\ tx' = [tx EXCEPT ![k] = fate]
    BY <1>15 DEF Execute
  <2>2. /\ tx[k] = "sent" /\ tx'[k] = fate
        /\ \A j \in Tx \ {k} : tx'[j] = tx[j]
    BY <1>15, <2>1 DEF Execute, IInv, RecordTypes
  <2>3. UNCHANGED <<pc, last_hash_at, result, changes>>
    BY <1>15 DEF Execute
  <2>4. CASE fate = "ok"
    BY <2>1, <2>2, <2>3, <2>4 DEF Promise!Land
  <2>5. CASE fate = "err"
    <3>1. (\E j \in Tx : tx'[j] = "ok") <=> (\E j \in Tx : tx[j] = "ok")
      BY <2>2, <2>5
    <3>2. (\E j \in Tx : tx'[j] # "unsent") <=> (\E j \in Tx : tx[j] # "unsent")
      BY <2>2, <2>5
    <3> QED
      BY <2>3, <3>1, <3>2
  <2> QED
    BY <2>4, <2>5
<1>16. CASE UNCHANGED vars
  BY <1>16 DEF vars
<1> QED
  BY <1>1, <1>2, <1>3, <1>4, <1>5, <1>6, <1>7, <1>8, <1>9, <1>10, <1>11,
     <1>12, <1>13, <1>14, <1>15, <1>16
  DEF Next, Proceeds

\* Whatever the RPC nodes, the chain and the tip stream do, submit's routes
\* implement Submission: success is reported only for a landed transaction,
\* no failure after signing on the present route keeps the local last_hash_at,
\* and one that keeps it either sent nothing or had turned to RPC before.
THEOREM SubmissionImplemented == Spec => ImplementsSubmission
  BY InitPromise, NextPromise, Inductive, PTL
  DEF Spec, ImplementsSubmission, Promise!Spec
-----------------------------------------------------------------------------
(***************************************************************************)
(* Types, the averages among them.                                         *)
(***************************************************************************)
\* What get_average_time divides is a sum of Sums.
LEMMA TotalIsSum ==
  ASSUME NEW ring
  PROVE  FoldFunction(+, 0, ring) = SumFunctionOnSet(ring, DOMAIN ring)
BY Zenon DEF FoldFunction, SumFunctionOnSet

\* The average of no landings is 0, and nothing is divided by 0.
LEMMA AverageType ==
  ASSUME NEW D, IsFiniteSet(D), NEW ring \in [D -> Nat]
  PROVE  AverageTime(ring) \in Nat
<1> DEFINE measured == {i \in DOMAIN ring : ring[i] # 0}
<1>1. SumFunctionOnSet(ring, DOMAIN ring) \in Nat
  BY SumType
<1>2. FoldFunction(+, 0, ring) \in Nat
  BY <1>1, TotalIsSum
<1>3. CASE measured = {}
  BY <1>3 DEF AverageTime
<1>4. CASE measured # {}
  <2>1. IsFiniteSet(measured)
    BY FS_Subset
  <2>2. Cardinality(measured) \in Nat \ {0}
    BY <1>4, <2>1, FS_CardinalityType, FS_EmptySet
  <2>3. FoldFunction(+, 0, ring) \div Cardinality(measured) \in Nat
    BY <1>2, <2>2, DivMod
  <2> QED
    BY <1>4, <2>3 DEF AverageTime
<1> QED
  BY <1>3, <1>4

\* What a fee is computed from, and its cap, are naturals.
LEMMA AtMostType ==
  ASSUME NEW bound \in Nat, NEW x \in Nat
  PROVE  AtMost(bound, x) \in 0..bound
BY DEF AtMost

LEMMA NextMultipleType ==
  ASSUME NEW m \in Nat, NEW pace \in Nat
  PROVE  NextMultiple(m, pace) \in 0..MaxMultiple
<1>1. MaxMultiple \in Nat /\ StepPercent \in Nat \ {0}
  BY SubmitAssumption
<1>2. m * StepPercent \in Nat /\ m * 100 \in Nat
  BY <1>1
<1>3. (m * StepPercent) \div 100 \in Nat /\ (m * 100) \div StepPercent \in Nat
  BY <1>1, <1>2, DivMod
<1>4. \A x \in Nat : Limit(x) \in 0..MaxMultiple
  BY <1>1, AtMostType DEF Limit
<1>5. PICK x \in Nat : NextMultiple(m, pace) = Limit(x)
  BY <1>3 DEF NextMultiple
<1> QED
  BY <1>4, <1>5

\* The same for each way into a route.
Entered ==
  /\ route' \in {"jito", "rpc", "dynamic"}
  /\ endpoint' \in {"send", "rpc"}
  /\ attempts' = 0 /\ polls' = 0
  /\ total_hash_times' \in Nat
  /\ fee_multiple' \in 0..(IF MaxMultiple < 1000 THEN 1000 ELSE MaxMultiple)
  /\ fee' \in Nat

LEMMA EnterRouteType ==
  ASSUME TypeOK, NEW r \in {"jito", "rpc", "dynamic"}, EnterRoute(r)
  PROVE  /\ route' \in {"jito", "rpc", "dynamic"}
         /\ endpoint' \in {"send", "rpc"}
         /\ attempts' = 0 /\ polls' = 0
         /\ total_hash_times' \in Nat
BY DEF TypeOK, EnterRoute

LEMMA EnterJitoType == ASSUME TypeOK, EnterJito PROVE Entered
<1>1. EnterRoute("jito")
  BY DEF EnterJito
<1> QED
  BY <1>1, EnterRouteType DEF TypeOK, EnterJito, Entered

LEMMA EnterRpcType ==
  ASSUME TypeOK, NEW pace \in Nat, EnterRpc(pace) PROVE Entered
<1>1. EnterRoute("rpc")
  BY DEF EnterRpc
<1>2. fee_multiple' \in 0..MaxMultiple /\ MaxMultiple \in Nat
  <2>1. fee_multiple \in Nat /\ MaxMultiple \in Nat
    BY SubmitAssumption DEF TypeOK
  <2> QED
    BY <2>1, NextMultipleType DEF EnterRpc
<1>3. fee' \in Nat
  <2>1. priority_fee * fee_multiple' \in Nat
    <3>1. priority_fee \in Nat /\ fee_multiple' \in Nat
      BY <1>2, SubmitAssumption
    <3>2. \A x, y \in Nat : x * y \in Nat
      OBVIOUS
    <3> QED
      BY <3>1, <3>2
  <2>2. (priority_fee * fee_multiple') \div 1000 \in Nat
    BY <2>1, DivMod
  <2> QED
    BY <2>2, AtMostType, SubmitAssumption DEF EnterRpc
<1> QED
  BY <1>1, <1>2, <1>3, EnterRouteType DEF Entered

LEMMA EnterDynamicType == ASSUME TypeOK, EnterDynamic PROVE Entered
<1>1. EnterRoute("dynamic")
  BY DEF EnterDynamic
<1>2. PICK estimate \in Fees \cup {priority_fee} :
        fee' = AtMost(max_rpc_priority_fee, estimate)
  BY DEF EnterDynamic
<1>3. fee' \in Nat
  <2>1. estimate \in Nat /\ max_rpc_priority_fee \in Nat
    BY SubmitAssumption
  <2> QED
    BY <1>2, <2>1, AtMostType
<1> QED
  BY <1>1, <1>3, EnterRouteType DEF TypeOK, EnterDynamic, Entered

\* A status is polled for only after a send was answered, which counts one
\* attempt: the retries of a landing are not negative.
TypeInv == TypeOK /\ (pc = "poll" => attempts > 0)

LEMMA InitTypeInv == Init => TypeInv
<1> SUFFICES ASSUME Init PROVE TypeInv
  OBVIOUS
<1>1. NoTx \in [Tx -> {"unsent", "sent", "ok", "err"}]
  BY DEF NoTx
<1>2. 1000 \in 0..(IF MaxMultiple < 1000 THEN 1000 ELSE MaxMultiple)
  BY SubmitAssumption
<1> QED
  BY <1>1, <1>2, SubmitAssumption DEF Init, TypeInv, TypeOK

\* Every step keeps the types: one case per action.
LEMMA NextTypeInv == TypeInv /\ [Next]_vars => TypeInv'
<1> SUFFICES ASSUME TypeInv, [Next]_vars
             PROVE  TypeInv'
  OBVIOUS
<1> USE DEF TypeInv, TypeOK, flags, landVars, recordVars, entryVars, callVars,
            historyVars
<1>1. CASE Mine
  BY <1>1 DEF Mine
<1>2. CASE Submit
  <2>1. NoTx \in [Tx -> {"unsent", "sent", "ok", "err"}]
    BY DEF NoTx
  <2> QED
    BY <1>2, <2>1 DEF Submit
<1>3. CASE ChooseRoute
  <2>1. per_time' \in Nat
    <3>1. IsFiniteSet(0..(RingSize - 1))
      BY SubmitAssumption, FS_Interval
    <3>2. AverageTime(last_15_times) \in Nat
      BY <3>1, AverageType
    <3> QED
      BY <1>3, <3>2 DEF ChooseRoute
  <2>2. Entered
    BY <1>3, <2>1, EnterJitoType, EnterRpcType, EnterDynamicType
    DEF ChooseRoute
  <2> QED
    BY <1>3, <2>1, <2>2 DEF ChooseRoute, Entered
<1>4. CASE Signed
  BY <1>4 DEF Signed
<1>5. CASE NoBlockhash
  BY <1>5 DEF NoBlockhash, Return
<1>6. CASE SendOk
  BY <1>6, TxOfType DEF SendOk, Reaches
<1>7. ASSUME NEW taken \in BOOLEAN, SendErr(taken)
      PROVE  TypeInv'
  BY <1>7, TxOfType DEF SendErr, Reaches, FailedAttempt, OtherEndpoint
<1>8. CASE PollAgain
  BY <1>8 DEF PollAgain
<1>9. CASE PollErr
  BY <1>9 DEF PollErr, Return
<1>10. ASSUME NEW s \in Seconds, PollOk(s)
       PROVE  TypeInv'
  <2>1. s * 1000 \in Nat
    BY SubmitAssumption
  <2>2. RingIndex \in 0..(RingSize - 1)
    BY SubmitAssumption, DivMod DEF RingIndex
  <2> QED
    BY <1>10, <2>1, <2>2 DEF PollOk, Return
<1>11. CASE SendAgain
  BY <1>11 DEF SendAgain
<1>12. CASE TurnToRpc
  <2>1. Entered
    BY <1>12, EnterRpcType DEF TurnToRpc
  <2> QED
    BY <1>12, <2>1 DEF TurnToRpc, Entered, FailedSoFar
<1>13. CASE MaxRetries
  BY <1>13 DEF MaxRetries, Return
<1>14. ASSUME NEW t \in Tips, StoreTip(t)
       PROVE  TypeInv'
  BY <1>14 DEF StoreTip
<1>15. ASSUME NEW k \in Tx, Execute(k)
       PROVE  TypeInv'
  BY <1>15 DEF Execute
<1>16. CASE UNCHANGED vars
  BY <1>16 DEF vars
<1> QED
  BY <1>1, <1>2, <1>3, <1>4, <1>5, <1>6, <1>7, <1>8, <1>9, <1>10, <1>11,
     <1>12, <1>13, <1>14, <1>15, <1>16
  DEF Next, Proceeds

LEMMA TypeInvariant == Spec => []TypeInv
  BY InitTypeInv, NextTypeInv, PTL DEF Spec

\* The counters of LandStatus, the averages and the fees are naturals in every
\* state, and the fee multiple never passes MAX_MULTIPLE: an average divides by
\* the number of landings only when there are some, and a landing has at least
\* one attempt to take from its retries.
THEOREM TypeCorrect == Spec => []TypeOK
  BY TypeInvariant, PTL DEF TypeInv
-----------------------------------------------------------------------------
(***************************************************************************)
(* last_15_times holds the latest landings, and nothing else.              *)
(***************************************************************************)
\* The landings still in the ring, and where each of them is.
Window == {k \in 1..count : k + RingSize > count}
Slot(k) == (k - 1) % RingSize

RingInv ==
  /\ Len(landings) = count
  /\ \A k \in Window : last_15_times[Slot(k)] = landings[k]
  /\ \A i \in 0..(RingSize - 1) :
       (\A k \in Window : Slot(k) # i) => last_15_times[i] = 0

LEMMA InitRingInv == Init => RingInv
BY DEF Init, RingInv, Window

\* A slot is a place of the ring, and landings less than a round apart do not
\* share one.
LEMMA SlotType ==
  ASSUME NEW k \in Nat \ {0}
  PROVE  Slot(k) \in 0..(RingSize - 1)
BY DivMod, SubmitAssumption DEF Slot

LEMMA SlotsDiffer ==
  ASSUME NEW j \in Nat \ {0}, NEW k \in Nat \ {0}, j < k, k < j + RingSize
  PROVE  Slot(j) # Slot(k)
<1>1. j - 1 \in Nat /\ k - 1 \in Nat /\ j - 1 < k - 1 /\ k - 1 < j - 1 + RingSize
  BY SubmitAssumption
<1> QED
  BY <1>1, ModDiffers, SubmitAssumption DEF Slot

\* A landing goes where the one a round before it was, and spares the others.
LEMMA LandingRingInv ==
  ASSUME TypeOK, RingInv, NEW s \in Seconds, PollOk(s)
  PROVE  RingInv'
<1> DEFINE n == count + 1
           time == s * 1000
<1>1. /\ count \in Nat /\ n \in Nat /\ RingSize \in Nat \ {0} /\ time \in Nat
      /\ landings \in Seq(Nat) /\ last_15_times \in [0..(RingSize - 1) -> Nat]
  BY SubmitAssumption DEF TypeOK
<1>2. /\ count' = n /\ landings' = Append(landings, time)
      /\ last_15_times' = [last_15_times EXCEPT ![RingIndex] = time]
  BY DEF PollOk
<1>3. RingIndex = Slot(n) /\ RingIndex \in 0..(RingSize - 1)
  BY <1>1, SlotType DEF RingIndex, Slot
<1>4. /\ \A k : k \in Window <=> (k \in 1..count /\ k + RingSize > count)
      /\ \A k : k \in Window' <=> (k \in 1..n /\ k + RingSize > n)
  BY <1>2 DEF Window
<1>5. \A k : (Slot(k))' = Slot(k)
  BY DEF Slot
<1>6. Len(landings') = n /\ landings'[n] = time
  BY <1>1, <1>2 DEF RingInv
<1>7. ASSUME NEW k \in Window'
      PROVE  last_15_times'[Slot(k)] = landings'[k]
  <2>1. CASE k = n
    BY <1>1, <1>2, <1>3, <1>6, <2>1
  <2>2. CASE k # n
    <3>1. k \in Window /\ k < n /\ n < k + RingSize /\ k \in Nat \ {0}
      BY <1>1, <1>4, <2>2
    <3>2. Slot(k) # Slot(n)
      BY <1>1, <3>1, SlotsDiffer
    <3>3. landings'[k] = landings[k]
      BY <1>1, <1>2, <1>4, <3>1 DEF RingInv
    <3>4. last_15_times'[Slot(k)] = last_15_times[Slot(k)]
      BY <1>1, <1>2, <1>3, <3>1, <3>2, SlotType
    <3> QED
      BY <3>1, <3>3, <3>4 DEF RingInv
  <2> QED
    BY <2>1, <2>2
<1>8. ASSUME NEW i \in 0..(RingSize - 1), \A k \in Window' : Slot(k) # i
      PROVE  last_15_times'[i] = 0
  <2>1. n \in Window'
    <3>1. n \in 1..n /\ n + RingSize > n
      BY <1>1
    <3> QED
      BY <1>4, <3>1
  <2>2. i # RingIndex
    BY <1>3, <1>8, <2>1
  <2>3. ASSUME NEW k \in Window, k \notin Window'
        PROVE  Slot(k) = Slot(n)
    <3>1. k \in Nat \ {0} /\ n = k + RingSize
      BY <1>1, <1>4, <2>3
    <3>2. k - 1 \in Nat /\ n - 1 = (k - 1) + RingSize
      BY <1>1, <3>1
    <3> QED
      BY <1>1, <3>2, ModRound DEF Slot
  <2>4. \A k \in Window : Slot(k) # i
    BY <1>3, <1>8, <2>2, <2>3
  <2>5. last_15_times[i] = 0
    BY <2>4 DEF RingInv
  <2> QED
    BY <1>1, <1>2, <1>3, <2>2, <2>5
<1> QED
  BY <1>2, <1>5, <1>6, <1>7, <1>8 DEF RingInv

\* No other step touches the ring.
LEMMA NextRingInv == TypeInv /\ RingInv /\ [Next]_vars => RingInv'
<1> SUFFICES ASSUME TypeInv, RingInv, [Next]_vars
             PROVE  RingInv'
  OBVIOUS
<1>1. ASSUME NEW s \in Seconds, PollOk(s)
      PROVE  RingInv'
  BY <1>1, LandingRingInv DEF TypeInv
<1>2. CASE UNCHANGED recordVars
  BY <1>2 DEF recordVars, RingInv, Window, Slot
<1>3. (\E s \in Seconds : PollOk(s)) \/ UNCHANGED recordVars
  BY DEF Next, Proceeds, Mine, Submit, ChooseRoute, Signed, NoBlockhash, SendOk,
         SendErr, PollAgain, PollErr, SendAgain, TurnToRpc, MaxRetries,
         StoreTip, Execute, landVars, vars
<1> QED
  BY <1>1, <1>2, <1>3

LEMMA RingInvariant == Spec => [](TypeInv /\ RingInv)
  BY TypeInvariant, InitRingInv, NextRingInv, PTL DEF Spec

\* An average is the same under other names of its landings, and among entries
\* of 0.
LEMMA AverageRenamed ==
  ASSUME NEW D, IsFiniteSet(D), NEW ring \in [D -> Nat],
         NEW E, IsFiniteSet(E), NEW recent \in [E -> Nat],
         NEW b, \A x, y \in E : b[x] = b[y] => x = y,
         \A x \in E : b[x] \in D /\ ring[b[x]] = recent[x],
         \A i \in D : (\A x \in E : b[x] # i) => ring[i] = 0
  PROVE  AverageTime(ring) = AverageTime(recent)
<1> DEFINE T == {b[x] : x \in E}
           M == {x \in DOMAIN recent : recent[x] # 0}
           N == {i \in DOMAIN ring : ring[i] # 0}
<1>1. SumFunctionOnSet(ring, D) = SumFunctionOnSet(recent, E)
  <2>1. SumFunctionOnSet(ring, D) = SumFunctionOnSet(ring, T)
    <3>1. T \in SUBSET D /\ (\A i \in D \ T : ring[i] = 0)
      OBVIOUS
    <3>2. \A i \in D : ring[i] \in Nat
      OBVIOUS
    <3> HIDE DEF T
    <3> QED
      BY <3>1, <3>2, SumZeros
  <2>2. SumFunctionOnSet(ring, T) = SumFunctionOnSet(recent, E)
    BY SumRenamed
  <2> QED
    BY <2>1, <2>2
<1>2. FoldFunction(+, 0, ring) = FoldFunction(+, 0, recent)
  BY <1>1, TotalIsSum
<1>3. N = {b[x] : x \in M}
  OBVIOUS
<1>4. Cardinality(N) = Cardinality(M)
  <2>1. IsFiniteSet(M) /\ (\A x, y \in M : b[x] = b[y] => x = y)
    BY FS_Subset
  <2> HIDE DEF M
  <2> QED
    BY <1>3, <2>1, CountRenamed
<1>5. (N = {}) <=> (M = {})
  BY <1>3
<1> HIDE DEF M, N
<1> QED
  BY <1>2, <1>4, <1>5 DEF AverageTime, M, N

\* The pace that the next fee follows is the average of the latest landings, in
\* whatever order the ring holds them and however full it is.
THEOREM PaceIsRecentCorrect == Spec => []PaceIsRecent
<1>1. TypeInv /\ RingInv => PaceIsRecent
  <2> SUFFICES ASSUME TypeOK, RingInv
               PROVE  AverageTime(last_15_times) = AverageTime(Latest)
    BY DEF TypeInv, PaceIsRecent
  <2> DEFINE m == IF count > RingSize THEN count - RingSize + 1 ELSE 1
             E == 1..(count - m + 1)
             b == [j \in E |-> Slot(m + j - 1)]
  <2>1. /\ count \in Nat /\ RingSize \in Nat \ {0} /\ landings \in Seq(Nat)
        /\ last_15_times \in [0..(RingSize - 1) -> Nat] /\ Len(landings) = count
    BY SubmitAssumption DEF TypeOK, RingInv
  <2>2. /\ m \in Nat \ {0} /\ m <= count + 1 /\ count < m + RingSize
        /\ Window = m..count
    BY <2>1 DEF Window
  <2>3. Latest \in [E -> Nat] /\ (\A j \in E : Latest[j] = landings[m + j - 1])
    <3>1. \A i \in m..count : landings[i] \in Nat
      BY <2>1, <2>2
    <3> DEFINE l == SubSeq(landings, m, count)
    <3>2. /\ l \in Seq(Nat) /\ Len(l) = count - m + 1
          /\ \A j \in E : l[j] = landings[m + j - 1]
      <4>1. m \in Int /\ count \in Int
        BY <2>1, <2>2
      <4>2. Len(l) = (IF m <= count THEN count - m + 1 ELSE 0)
        BY <3>1, <4>1, SubSeqProperties
      <4> HIDE DEF m
      <4> QED
        BY <2>1, <2>2, <3>1, <4>1, <4>2, SubSeqProperties
    <3>3. Latest = l
      BY DEF Latest
    <3> HIDE DEF m, l
    <3>4. l \in [E -> Nat]
      BY <3>2
    <3> QED
      BY <3>2, <3>3, <3>4
  <2> HIDE DEF m
  <2>4. \A j \in E : m + j - 1 \in Window /\ m + j - 1 \in Nat \ {0}
    BY <2>1, <2>2
  <2>5. \A j \in E : /\ b[j] \in 0..(RingSize - 1)
                     /\ last_15_times[b[j]] = Latest[j]
    BY <2>3, <2>4, SlotType DEF RingInv
  <2>6. \A i, j \in E : b[i] = b[j] => i = j
    <3>1. ASSUME NEW i \in E, NEW j \in E, i < j
          PROVE  Slot(m + i - 1) # Slot(m + j - 1)
      <4>1. m + i - 1 < m + j - 1 /\ m + j - 1 < m + i - 1 + RingSize
        BY <2>1, <2>2, <3>1
      <4> QED
        BY <2>4, <4>1, SlotsDiffer
    <3> QED
      BY <2>1, <2>2, <3>1
  <2>7. ASSUME NEW i \in 0..(RingSize - 1), \A j \in E : b[j] # i
        PROVE  last_15_times[i] = 0
    <3>1. ASSUME NEW k \in Window
          PROVE  Slot(k) # i
      <4>1. k - m + 1 \in E /\ m + (k - m + 1) - 1 = k
        BY <2>1, <2>2
      <4>2. b[k - m + 1] = Slot(k)
        BY <4>1
      <4> QED
        BY <2>7, <4>1, <4>2
    <3> QED
      BY <3>1 DEF RingInv
  <2>8. IsFiniteSet(0..(RingSize - 1)) /\ IsFiniteSet(E)
    BY <2>1, <2>2, FS_Interval
  <2> DEFINE D == 0..(RingSize - 1)
  <2>9. /\ last_15_times \in [D -> Nat] /\ Latest \in [E -> Nat]
        /\ IsFiniteSet(D) /\ IsFiniteSet(E)
    BY <2>1, <2>3, <2>8
  <2>10. \A i \in D : (\A j \in E : b[j] # i) => last_15_times[i] = 0
    BY <2>7
  <2>11. \A j \in E : b[j] \in D /\ last_15_times[b[j]] = Latest[j]
    BY <2>5
  <2> HIDE DEF b, E, D
  <2> QED
    BY <2>6, <2>9, <2>10, <2>11, AverageRenamed
<1> QED
  BY <1>1, RingInvariant, PTL
-----------------------------------------------------------------------------
(***************************************************************************)
(* The retries of a call run out.                                          *)
(***************************************************************************)
\* How far a call is in its rounds.
RoundInv ==
  /\ pc = "blockhash" => attempts = 0
  /\ pc = "send" => attempts <= gateway_retries
  /\ pc \in {"poll", "retry"} => attempts <= gateway_retries + 1
  /\ pc = "poll" => polls < confirm_retries

Turns(r) == IF r = "jito" THEN RouteSteps ELSE 0

\* Each send takes one round from what is left.
LEMMA RoundsLeft ==
  /\ \A a \in 0..(gateway_retries + 1) : RoundsAfter(a) \in Nat
  /\ \A a \in 0..gateway_retries :
       RoundsAfter(a) = RoundsAfter(a + 1) + confirm_retries + 3
  /\ RouteSteps = RoundsAfter(0) + 2
  /\ \A r : Turns(r) \in Nat /\ (r = "jito" => Turns(r) = RouteSteps)
                            /\ (r = "rpc" => Turns(r) = 0)
<1> DEFINE R == confirm_retries + 3
<1>1. gateway_retries \in Nat /\ confirm_retries \in Nat /\ R \in Nat
  BY SubmitAssumption
<1>2. \A a : RoundsAfter(a) = (gateway_retries + 1 - a) * R
  BY DEF RoundsAfter
<1> HIDE DEF R
<1>3. ASSUME NEW a \in 0..(gateway_retries + 1)
      PROVE  RoundsAfter(a) \in Nat
  <2>1. gateway_retries + 1 - a \in Nat
    BY <1>1
  <2>2. \A x, y \in Nat : x * y \in Nat
    OBVIOUS
  <2> QED
    BY <1>1, <1>2, <2>1, <2>2
<1>4. ASSUME NEW a \in 0..gateway_retries
      PROVE  RoundsAfter(a) = RoundsAfter(a + 1) + confirm_retries + 3
  <2> DEFINE x == gateway_retries + 1 - (a + 1)
  <2>1. x \in Nat /\ gateway_retries + 1 - a = x + 1
    BY <1>1
  <2> HIDE DEF x
  <2>2. (x + 1) * R = x * R + R /\ x * R \in Nat
    BY <1>1, <2>1
  <2> DEFINE y == x * R
  <2>3. RoundsAfter(a) = y + R /\ RoundsAfter(a + 1) = y /\ y \in Nat
    BY <1>2, <2>1, <2>2 DEF x
  <2> HIDE DEF y
  <2> QED
    BY <1>1, <2>3 DEF R
<1>5. RoundsAfter(0) \in Nat
  BY <1>1, <1>3
<1> QED
  BY <1>3, <1>4, <1>5 DEF RouteSteps, Turns

LEMMA StepsNow ==
  /\ pc = "idle" => StepsLeft = 0
  /\ pc = "auto" => StepsLeft = 2 * RouteSteps
  /\ pc = "blockhash" => StepsLeft = Turns(route) + RouteSteps - 1
  /\ pc = "send" => StepsLeft = Turns(route) + RoundsAfter(attempts)
  /\ pc = "poll" => StepsLeft = Turns(route) + RoundsAfter(attempts)
                                  + (confirm_retries - polls) + 1
  /\ pc = "retry" => StepsLeft = Turns(route) + RoundsAfter(attempts) + 1
BY DEF StepsLeft, Turns

LEMMA StepsThen ==
  /\ pc' = "idle" => StepsLeft' = 0
  /\ pc' = "auto" => StepsLeft' = 2 * RouteSteps
  /\ pc' = "blockhash" => StepsLeft' = Turns(route') + RouteSteps - 1
  /\ pc' = "send" => StepsLeft' = Turns(route') + RoundsAfter(attempts')
  /\ pc' = "poll" => StepsLeft' = Turns(route') + RoundsAfter(attempts')
                                   + (confirm_retries - polls') + 1
  /\ pc' = "retry" => StepsLeft' = Turns(route') + RoundsAfter(attempts') + 1
BY DEF StepsLeft, Turns, RouteSteps, RoundsAfter

\* What is left is positive in a call.
LEMMA StepsType ==
  ASSUME TypeInv, RoundInv
  PROVE  StepsLeft \in Nat /\ (Busy => StepsLeft > 0)
<1>1. gateway_retries \in Nat /\ confirm_retries \in Nat
  BY SubmitAssumption
<1>2. attempts \in Nat /\ polls \in Nat
  BY DEF TypeInv, TypeOK
<1>3. CASE pc \in {"idle", "auto", "blockhash"}
  BY <1>1, <1>3, StepsNow, RoundsLeft DEF Busy
<1>4. CASE pc = "send"
  <2>1. attempts \in 0..gateway_retries /\ attempts + 1 \in 0..(gateway_retries + 1)
    BY <1>1, <1>2, <1>4 DEF RoundInv
  <2> QED
    BY <1>1, <1>4, <2>1, StepsNow, RoundsLeft
<1>5. CASE pc \in {"poll", "retry"}
  <2>1. attempts \in 0..(gateway_retries + 1) /\ (pc = "poll" => polls < confirm_retries)
    BY <1>1, <1>2, <1>5 DEF RoundInv
  <2> QED
    BY <1>1, <1>2, <1>5, <2>1, StepsNow, RoundsLeft
<1> QED
  BY <1>3, <1>4, <1>5 DEF TypeInv, TypeOK

Closer == RoundInv' /\ StepsLeft' \in 0..(StepsLeft - 1)

\* A return leaves nothing to do.
LEMMA ReturnCloser ==
  ASSUME TypeInv, RoundInv, Busy, pc' = "idle"
  PROVE  Closer
<1>1. StepsLeft \in Nat /\ StepsLeft > 0 /\ StepsLeft' = 0
  BY StepsType, StepsThen
<1> QED
  BY <1>1 DEF Closer, RoundInv

\* Every step of a call brings it closer to its return: one case per action.
LEMMA ProceedsCloser ==
  ASSUME TypeInv, RoundInv, Proceeds
  PROVE  Closer
<1>1. gateway_retries \in Nat /\ confirm_retries \in Nat
  BY SubmitAssumption
<1>2. attempts \in Nat /\ polls \in Nat
  BY DEF TypeInv, TypeOK
<1>3. CASE ChooseRoute
  <2>1. /\ pc = "auto" /\ pc' = "blockhash" /\ attempts' = 0
    BY <1>3 DEF ChooseRoute, EnterJito, EnterDynamic, EnterRpc, EnterRoute
  <2>2. Turns(route') \in 0..RouteSteps /\ RouteSteps \in Nat /\ RouteSteps >= 2
    BY <1>1, RoundsLeft DEF Turns
  <2>3. StepsLeft = 2 * RouteSteps /\ StepsLeft' = Turns(route') + RouteSteps - 1
    BY <2>1, StepsNow, StepsThen
  <2>4. StepsLeft' \in 0..(StepsLeft - 1)
    <3> DEFINE x == Turns(route')
               y == RouteSteps
    <3>1. x \in 0..y /\ y \in Nat /\ y >= 2
      BY <2>2
    <3>2. StepsLeft = 2 * y /\ StepsLeft' = x + y - 1
      BY <2>3
    <3> HIDE DEF x, y
    <3> QED
      BY <3>1, <3>2
  <2>5. RoundInv'
    BY <2>1 DEF RoundInv
  <2> QED
    BY <2>4, <2>5 DEF Closer
<1>4. CASE Signed
  <2>1. /\ pc = "blockhash" /\ pc' = "send" /\ attempts = 0
        /\ attempts' = attempts /\ route' = route
    BY <1>4 DEF Signed, RoundInv, callVars
  <2>2. /\ StepsLeft = Turns(route) + RoundsAfter(0) + 1
        /\ StepsLeft' = Turns(route) + RoundsAfter(0)
    BY <1>1, <2>1, StepsNow, StepsThen, RoundsLeft
  <2>3. StepsLeft' \in 0..(StepsLeft - 1)
    BY <1>1, <2>2, RoundsLeft
  <2>4. RoundInv'
    BY <1>1, <2>1 DEF RoundInv
  <2> QED
    BY <2>3, <2>4 DEF Closer
<1>5. CASE NoBlockhash \/ PollErr \/ MaxRetries \/ (\E s \in Seconds : PollOk(s))
  <2>1. Busy /\ pc' = "idle"
    BY <1>5 DEF NoBlockhash, PollErr, MaxRetries, PollOk, Return, Busy
  <2> QED
    BY <2>1, ReturnCloser
<1>6. CASE SendOk
  <2>1. /\ pc = "send" /\ pc' = IF confirm_retries > 0 THEN "poll" ELSE "retry"
        /\ attempts' = attempts + 1 /\ polls' = 0 /\ route' = route
        /\ attempts <= gateway_retries
    BY <1>6 DEF SendOk, RoundInv
  <2>2. /\ attempts \in 0..gateway_retries
        /\ attempts + 1 \in 0..(gateway_retries + 1)
    BY <1>1, <1>2, <2>1
  <2>3. StepsLeft' \in 0..(StepsLeft - 1)
    BY <1>1, <2>1, <2>2, StepsNow, StepsThen, RoundsLeft
  <2> QED
    BY <1>1, <2>1, <2>2, <2>3 DEF Closer, RoundInv
<1>7. CASE \E taken \in BOOLEAN : SendErr(taken)
  <2>1. /\ pc = "send" /\ pc' = "retry" /\ attempts' = attempts + 1
        /\ route' = route /\ attempts <= gateway_retries
    BY <1>7 DEF SendErr, FailedAttempt, RoundInv
  <2>2. /\ attempts \in 0..gateway_retries
        /\ attempts + 1 \in 0..(gateway_retries + 1)
    BY <1>1, <1>2, <2>1
  <2>3. StepsLeft' \in 0..(StepsLeft - 1)
    BY <1>1, <2>1, <2>2, StepsNow, StepsThen, RoundsLeft
  <2> QED
    BY <1>1, <2>1, <2>2, <2>3 DEF Closer, RoundInv
<1>8. CASE PollAgain
  <2>1. /\ pc = "poll" /\ polls' = polls + 1
        /\ pc' = IF polls' < confirm_retries THEN "poll" ELSE "retry"
        /\ attempts' = attempts /\ route' = route
        /\ attempts <= gateway_retries + 1 /\ polls < confirm_retries
    BY <1>8 DEF PollAgain, RoundInv
  <2>2. attempts \in 0..(gateway_retries + 1)
    BY <1>1, <1>2, <2>1
  <2>3. StepsLeft' \in 0..(StepsLeft - 1)
    BY <1>1, <1>2, <2>1, <2>2, StepsNow, StepsThen, RoundsLeft
  <2> QED
    BY <1>1, <2>1, <2>3 DEF Closer, RoundInv
<1>9. CASE SendAgain
  <2>1. /\ pc = "retry" /\ pc' = "send" /\ attempts' = attempts
        /\ route' = route /\ attempts <= gateway_retries
    BY <1>9 DEF SendAgain, callVars
  <2>2. attempts \in 0..(gateway_retries + 1)
    BY <1>1, <1>2, <2>1
  <2>3. StepsLeft' \in 0..(StepsLeft - 1)
    BY <1>1, <2>1, <2>2, StepsNow, StepsThen, RoundsLeft
  <2> QED
    BY <1>1, <2>1, <2>3 DEF Closer, RoundInv
<1>10. CASE TurnToRpc
  <2>1. /\ pc = "retry" /\ pc' = "blockhash" /\ attempts' = 0
        /\ route = "jito" /\ route' = "rpc" /\ attempts <= gateway_retries + 1
    BY <1>10 DEF TurnToRpc, JitoIsOver, EnterRpc, EnterRoute, RoundInv
  <2>2. attempts \in 0..(gateway_retries + 1) /\ 0 \in 0..(gateway_retries + 1)
    BY <1>1, <1>2, <2>1
  <2>3. /\ Turns(route) = RouteSteps /\ Turns(route') = 0
        /\ RouteSteps = RoundsAfter(0) + 2
        /\ RoundsAfter(0) \in Nat /\ RoundsAfter(attempts) \in Nat
    BY <2>1, <2>2, RoundsLeft
  <2>4. StepsLeft' \in 0..(StepsLeft - 1)
    BY <2>1, <2>3, StepsNow, StepsThen
  <2> QED
    BY <2>1, <2>4 DEF Closer, RoundInv
<1> QED
  BY <1>3, <1>4, <1>5, <1>6, <1>7, <1>8, <1>9, <1>10 DEF Proceeds

\* What others do in the meantime does not concern the rounds.
LEMMA NextRoundInv ==
  ASSUME TypeInv, RoundInv, [Next]_vars
  PROVE  /\ RoundInv'
         /\ Busy => StepsLeft' \in 0..StepsLeft
<1>1. StepsLeft \in Nat
  BY StepsType
<1>2. CASE Proceeds
  BY <1>1, <1>2, ProceedsCloser DEF Closer
<1>3. CASE Submit
  BY <1>3 DEF Submit, RoundInv, Busy
<1>4. CASE Mine \/ (\E t \in Tips : StoreTip(t)) \/ (\E k \in Tx : Execute(k))
           \/ UNCHANGED vars
  <2>1. UNCHANGED <<pc, callVars>>
    BY <1>4 DEF Mine, StoreTip, Execute, vars
  <2>2. RoundInv' /\ StepsLeft' = StepsLeft
    BY <2>1 DEF RoundInv, callVars, StepsLeft, RoundsAfter, RouteSteps
  <2> QED
    BY <1>1, <2>2
<1> QED
  BY <1>2, <1>3, <1>4 DEF Next

\* Every call is over after a number of its own steps that gateway_retries and
\* confirm_retries bound, whatever the nodes, the chain and the tip stream do in
\* between: what SubmitReturns needs beside fairness.
THEOREM RetriesRunOutCorrect == Spec => RetriesRunOut
<1>1. Init => RoundInv
  BY DEF Init, RoundInv
<1>2. TypeInv /\ RoundInv /\ [Next]_vars => RoundInv'
  BY NextRoundInv
<1>3. TypeInv /\ RoundInv /\ [Next]_vars
        => [/\ Proceeds => StepsLeft' \in 0..(StepsLeft - 1)
            /\ Busy => StepsLeft' \in 0..StepsLeft]_vars
  BY NextRoundInv, ProceedsCloser DEF Closer
<1> QED
  BY <1>1, <1>2, <1>3, TypeInvariant, PTL DEF Spec, RetriesRunOut
=============================================================================
