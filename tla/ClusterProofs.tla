---------------------------- MODULE ClusterProofs ----------------------------
(***************************************************************************)
(* Proofs about Cluster, for any number of addresses and workers and any   *)
(* bounds: type correctness; total_cores is the exact sum over the counted *)
(* clients; no decision to submit is forgotten; Wait means nobody is there.*)
(* The inductive invariants speak of the critical sections: who holds the  *)
(* guard of clients, who is between his insertion and his count, and what  *)
(* the main loop can be about to do.                                       *)
(***************************************************************************)
EXTENDS Cluster, Integers, FiniteSetTheorems, FunctionTheorems, TLAPS

\* A finite set of clients has finitely many cores.
LEMMA CoreSlotsFinite ==
  ASSUME NEW C, IsFiniteSet(C), NEW k, \A c \in C : k[c] \in Nat
  PROVE  IsFiniteSet(CoreSlots(C, k))
<1> DEFINE f == [c \in C |-> {c} \X (1..k[c])]
           T == {{c} \X (1..k[c]) : c \in C}
<1>1. f \in Surjection(C, T)
  BY DEF Surjection
<1>2. IsFiniteSet(T)
  BY <1>1, FS_Surjection DEF ExistsSurjection
<1>3. \A S \in T : IsFiniteSet(S)
  <2> SUFFICES ASSUME NEW c \in C PROVE IsFiniteSet({c} \X (1..k[c]))
    OBVIOUS
  <2>1. IsFiniteSet(1..k[c])
    BY FS_Interval
  <2> QED
    BY <2>1, FS_Singleton, FS_Product
<1> QED
  BY <1>2, <1>3, FS_UNION DEF CoreSlots

\* A client that joins adds its own cores to the sum, and no others.
LEMMA CoreSlotsAdd ==
  ASSUME NEW C, IsFiniteSet(C), NEW k, NEW a, a \notin C,
         \A c \in C \cup {a} : k[c] \in Nat
  PROVE  Cardinality(CoreSlots(C \cup {a}, k)) =
           Cardinality(CoreSlots(C, k)) + k[a]
<1> DEFINE S == {a} \X (1..k[a])
<1>1. IsFiniteSet(S) /\ Cardinality(S) = k[a]
  <2>1. IsFiniteSet(1..k[a]) /\ Cardinality(1..k[a]) = k[a]
    BY FS_Interval
  <2>2. /\ Cardinality(S) = Cardinality({a}) * Cardinality(1..k[a])
        /\ IsFiniteSet(S)
    BY <2>1, FS_Singleton, FS_Product
  <2>3. Cardinality({a}) = 1
    BY FS_Singleton
  <2>4. k[a] \in Nat
    OBVIOUS
  <2> HIDE DEF S
  <2> QED
    BY <2>1, <2>2, <2>3, <2>4
<1>2. CoreSlots(C \cup {a}, k) = CoreSlots(C, k) \cup S
  BY DEF CoreSlots
<1>3. CoreSlots(C, k) \cap S = {}
  BY DEF CoreSlots
<1>4. IsFiniteSet(CoreSlots(C, k))
  BY CoreSlotsFinite
<1>5. Cardinality(CoreSlots(C, k) \cap S) = 0
  BY <1>3, FS_EmptySet
<1>6. Cardinality(CoreSlots(C, k)) \in Nat
  BY <1>4, FS_CardinalityType
<1> HIDE DEF S
<1>7. Cardinality(CoreSlots(C, k) \cup S) =
        Cardinality(CoreSlots(C, k)) + Cardinality(S)
          - Cardinality(CoreSlots(C, k) \cap S)
  BY <1>1, <1>4, FS_Union
<1>8. k[a] \in Nat
  OBVIOUS
<1>9. Cardinality(CoreSlots(C, k) \cup S) = Cardinality(CoreSlots(C, k)) + k[a]
  BY <1>1, <1>5, <1>6, <1>7, <1>8
<1> QED
  BY <1>2, <1>9

\* The sum looks at the cores of its clients only.
LEMMA CoreSlotsSame ==
  ASSUME NEW C, NEW k, NEW m, \A c \in C : k[c] = m[c]
  PROVE  CoreSlots(C, k) = CoreSlots(C, m)
BY DEF CoreSlots

-----------------------------------------------------------------------------
(***************************************************************************)
(* The inductive invariant.                                                *)
(***************************************************************************)

\* While main holds a proof it is one of the chain's; while it marks a client
\* there is one.
MainInv ==
  /\ mpc \in {"clock", "resend", "lock", "dispatch", "mark"} =>
       proof \in Challenge
  /\ mpc = "mark" => cur \in Addr

\* A worker that has not given up may still retry, a connected one has a
\* socket, a mining one a work order.
WorkerInv ==
  \A w \in Worker :
    /\ wpc[w] # "exited" => retry_count[w] < SERVER_RETRIES
    /\ wpc[w] \in {"greet", "waiting", "mining"} => sock[w] \in Addr
    /\ wpc[w] = "mining" => job[w] \in Work

\* Before a task inserts its client and after it removed it, the client is
\* not in the map; while the task counts the cores it is.
TaskInv ==
  \A a \in Addr :
    /\ hpc[a] \in {"none", "hello", "insert", "drain", "setWait", "waitWake"} =>
         a \notin clients
    /\ hpc[a] = "count" => a \in clients

CoreInv == IsFiniteSet(Counted) /\ TotalCoresExact

IInv == TypeOK /\ MainInv /\ WorkerInv /\ TaskInv /\ CoreInv

\* Core counts are naturals.
LEMMA CoresNat == {0} \cup Cores \subseteq Nat
BY NetworkAssumption

\* The invariant holds at first: nobody is connected, and main waits.
LEMMA InitIInv == Init => IInv
<1> SUFFICES ASSUME Init PROVE IInv
  OBVIOUS
<1>1. NetworkTypeOK
  BY NetworkAssumption DEF Init, NetworkInit, NetworkTypeOK
<1>2. GuideTypeOK
  <2>1. fetch \in [local : {0} \cup Challenge,
                   attempts : 0..ACCOUNT_QUERY_RETRIES]
    BY GuideAssumption DEF Init, GuideInit, NoFetch
  <2>2. chain \in Challenge
    BY NetworkAssumption DEF Init, GuideInit, Challenge
  <2> QED
    BY <2>1, <2>2 DEF Init, GuideInit, GuideTypeOK, MainPc, TaskPc
<1>3. WorkerTypeOK
  BY WorkerAssumption DEF Init, WorkerInit, WorkerTypeOK
<1>4. MainInv /\ WorkerInv /\ TaskInv
  BY WorkerAssumption
  DEF Init, GuideInit, WorkerInit, MainInv, WorkerInv, TaskInv
<1>5. CoreInv
  <2>1. Counted = {} /\ total_cores = 0
    BY DEF Init, GuideInit, Counted
  <2>2. CoreSlots({}, cores) = {}
    BY DEF CoreSlots
  <2> QED
    BY <2>1, <2>2, FS_EmptySet DEF CoreInv, TotalCoresExact
<1> QED
  BY <1>1, <1>2, <1>3, <1>4, <1>5 DEF IInv, TypeOK

\* Main keeps the types: one case per action.
LEMMA MainStepTypes ==
  ASSUME GuideTypeOK, NetworkTypeOK, MainInv, MainStep
  PROVE  GuideTypeOK' /\ NetworkTypeOK' /\ MainInv'
<1> USE NetworkAssumption, GuideAssumption
    DEF GuideTypeOK, NetworkTypeOK, MainInv, MainPc, TaskPc, Challenge,
        MainGoto, netVars, sharedVars, dispatchVars, mainVars, taskVars
<1>1. CASE \E a \in Addr : Accept(a)
  BY <1>1 DEF Accept
<1>2. CASE \E a \in Addr : DispatchWrite(a)
  <2> PICK a \in Addr : DispatchWrite(a)
    BY <1>2
  <2> DEFINE order == [challenge |-> proof, offset |-> offset,
                       total |-> total_cores]
  <2>1. order \in Work
    BY DEF DispatchWrite, Work
  <2>2. toWorker' = toWorker \/
        toWorker' = [toWorker EXCEPT ![a] = Append(toWorker[a], order)]
    BY DEF DispatchWrite, Deliver
  <2> HIDE DEF order
  <2>3. toWorker[a] \in Seq(Work)
    OBVIOUS
  <2>4. Append(toWorker[a], order) \in Seq(Work)
    BY <2>1, <2>3
  <2>5. toWorker' \in [Addr -> Seq(Work)]
    BY <2>2, <2>4
  <2> QED
    BY <2>5 DEF DispatchWrite
<1>3. CASE Notified \/ WokenSend \/ WokenWait
  BY <1>3 DEF Notified, WokenSend, WokenWait
<1>4. CASE WokenStart
  <2>1. fetch' \in [local : {0} \cup Challenge,
                    attempts : 0..ACCOUNT_QUERY_RETRIES]
    BY <1>4 DEF WokenStart
  <2> QED
    BY <1>4, <2>1 DEF WokenStart
<1>5. CASE \E seen \in Challenge : FetchProof(seen)
  BY <1>5 DEF FetchProof, NoFetch
<1>6. CASE FetchAgain
  BY <1>6 DEF FetchAgain
<1>7. CASE GetClock \/ ClockPanic
  BY <1>7 DEF GetClock, ClockPanic
<1>8. CASE ResendSetSend
  BY <1>8 DEF ResendSetSend
<1>9. CASE MainNotify("resendWake") \/ MainNotify("startWake")
  BY <1>9 DEF MainNotify
<1>10. CASE LockClients
  BY <1>10 DEF LockClients
<1>11. CASE MarkMining
  <2>1. cores[cur] \in {0} \cup Cores
    BY <1>11 DEF MarkMining
  <2>2. cores[cur] \in Nat
    BY <2>1, CoresNat
  <2>3. offset' \in Nat /\ mining_clients' \in SUBSET Addr
    BY <1>11, <2>2 DEF MarkMining, NextOffset
  <2> QED
    BY <1>11, <2>3 DEF MarkMining
<1>12. CASE DispatchDone
  BY <1>12 DEF DispatchDone
<1>13. CASE TakeSolution \/ UnwrapPanic
  BY <1>13 DEF TakeSolution, UnwrapPanic
<1>14. CASE SubmitConfirmed \/ SubmitRejected
             \/ \E sent \in BOOLEAN : SubmitGivesUp(sent)
  BY <1>14 DEF SubmitConfirmed, SubmitRejected, SubmitGivesUp, SubmitReturns
<1>15. CASE ResetBest \/ SetStart
  BY <1>15 DEF ResetBest, SetStart
<1> QED
  BY <1>1, <1>2, <1>3, <1>5, <1>6, <1>7, <1>8, <1>9, <1>10, <1>11, <1>12,
     <1>13, <1>14, <1>15, <1>4 DEF MainStep

\* So does the chain,
LEMMA TxLandsTypes ==
  ASSUME GuideTypeOK, NetworkTypeOK, MainInv, TxLands
  PROVE  GuideTypeOK' /\ NetworkTypeOK' /\ MainInv'
BY NetworkAssumption
DEF GuideTypeOK, NetworkTypeOK, MainInv, TxLands, Challenge, netVars,
    sharedVars, dispatchVars, taskVars

\* so do the tasks of the connections,
LEMMA TaskStepTypes ==
  ASSUME GuideTypeOK, NetworkTypeOK, MainInv, NEW a \in Addr, TaskStep(a),
         total_cores' \in Nat
  PROVE  GuideTypeOK' /\ NetworkTypeOK' /\ MainInv'
<1> USE DEF GuideTypeOK, NetworkTypeOK, MainInv, MainPc, TaskPc, TaskGoto,
            netVars, dispatchVars, mainVars
<1>1. CASE Hello(a)
  <2>1. hello[a] \in {0} \cup Cores
    OBVIOUS
  <2>2. cores' \in [Addr -> {0} \cup Cores]
    BY <1>1, <2>1 DEF Hello
  <2> QED
    BY <1>1, <2>2 DEF Hello
<1>2. CASE HelloEof(a)
  BY <1>2 DEF HelloEof, sharedVars
<1>3. CASE InsertClient(a)
  BY <1>3 DEF InsertClient
<1>4. CASE CountCores(a)
  BY <1>4 DEF CountCores
<1>5. CASE Receive(a)
  <2> DEFINE s == Head(toGuide[a])
  <2>1. s \in Solution /\ Tail(toGuide[a]) \in Seq(Solution)
    <3>1. toGuide[a] \in Seq(Solution) /\ toGuide[a] # <<>>
      BY <1>5 DEF Receive
    <3> QED
      BY <3>1
  <2>2. /\ got' = [got EXCEPT ![a] = IF Better(s) THEN s ELSE NoSolution]
        /\ toGuide' = [toGuide EXCEPT ![a] = Tail(toGuide[a])]
        /\ \/ hpc' = [hpc EXCEPT ![a] = "setBest"]
           \/ hpc' = [hpc EXCEPT ![a] = "finish"]
        /\ UNCHANGED <<link, hello, toWorker, chain, sharedVars, mainVars,
                       gone>>
    BY <1>5 DEF Receive
  <2> HIDE DEF s
  <2>3. toGuide' \in [Addr -> Seq(Solution)]
    BY <2>1, <2>2
  <2>4. got' \in [Addr -> Solution \cup {NoSolution}]
    BY <2>1, <2>2
  <2>5. hpc' \in [Addr -> TaskPc]
    BY <2>2
  <2> QED
    BY <2>2, <2>3, <2>4, <2>5 DEF sharedVars
<1>6. CASE ReceiveEof(a)
  BY <1>6 DEF ReceiveEof, sharedVars
<1>7. CASE SetBest(a)
  <2>1. got[a].difficulty \in Nat
    BY DEF Solution, NoSolution
  <2> QED
    BY <1>7, <2>1 DEF SetBest
<1>8. CASE SetSolution(a)
  BY <1>8 DEF SetSolution
<1>9. CASE Finish(a)
  BY <1>9 DEF Finish, AfterMessage
<1>10. CASE SetSend(a) \/ Wake(a)
  BY <1>10 DEF SetSend, Wake, AfterMessage
<1>11. CASE LeaveClients(a)
  <2>1. /\ clients' \in SUBSET Addr
        /\ cores' \in [Addr -> {0} \cup Cores]
        /\ hpc' \in [Addr -> TaskPc]
    BY <1>11 DEF LeaveClients
  <2>2. CASE clients' = {}
    BY <1>11, <2>1, <2>2 DEF LeaveClients
  <2>3. CASE clients' # {}
    <3>1. EndTask(a)
      BY <1>11, <2>3 DEF LeaveClients
    <3>2. NetworkTypeOK' /\ gone' \in [Addr -> BOOLEAN]
      BY <3>1 DEF EndTask, FreeLink
    <3>3. UNCHANGED <<chain, action_type, mining_clients, best_difficulty,
                      solution, permit, mainVars, got>>
      BY <1>11 DEF LeaveClients
    <3>4. GuideTypeOK' /\ MainInv'
      BY <2>1, <3>2, <3>3
    <3> QED
      BY <3>2, <3>4
  <2> QED
    BY <2>2, <2>3
<1>12. CASE DrainExit(a) \/ SetWait(a)
  BY <1>12 DEF DrainExit, SetWait, sharedVars
<1>13. CASE WaitWake(a)
  BY <1>13 DEF WaitWake, EndTask, FreeLink
<1> QED
  BY <1>1, <1>3, <1>4, <1>5, <1>6, <1>7, <1>8, <1>9, <1>10, <1>11, <1>12,
     <1>13, <1>2 DEF TaskStep

\* so does a connection that is lost,
LEMMA CloseLinkTypes ==
  ASSUME NetworkTypeOK, NEW a, CloseLink(a)
  PROVE  NetworkTypeOK'
<1> USE DEF NetworkTypeOK, CloseLink
<1>1. <<>> \in Seq(Work) /\ <<>> \in Seq(Solution)
  OBVIOUS
<1>2. toWorker' \in [Addr -> Seq(Work)]
  <2>1. toWorker' = [toWorker EXCEPT ![a] = <<>>]
    OBVIOUS
  <2> QED
    BY <1>1, <2>1
<1>3. toGuide' \in [Addr -> Seq(Solution)]
  <2>1. toGuide' = toGuide \/ toGuide' = [toGuide EXCEPT ![a] = <<>>]
    OBVIOUS
  <2> QED
    BY <1>1, <2>1
<1>4. /\ link' \in [Addr -> {"free", "open", "closed"}]
      /\ hello' \in [Addr -> {0} \cup Cores]
  OBVIOUS
<1> QED
  BY <1>2, <1>3, <1>4

\* and with it the stream of its worker,
LEMMA LoseSocketTypes ==
  ASSUME NetworkTypeOK, WorkerTypeOK, NEW w \in Worker, LoseSocket(w)
  PROVE  /\ NetworkTypeOK'
         /\ sock' = [sock EXCEPT ![w] = NoAddr]
         /\ sock' \in [Worker -> Addr \cup {NoAddr}]
         /\ job' = [job EXCEPT ![w] = NoWork]
         /\ job' \in [Worker -> Work \cup {NoWork}]
BY CloseLinkTypes DEF LoseSocket, WorkerTypeOK

\* and so do the workers.
LEMMA WorkerStepTypes ==
  ASSUME NetworkTypeOK, WorkerTypeOK, WorkerInv, NEW w \in Worker,
         WorkerStep(w) \/ Drop(w)
  PROVE  NetworkTypeOK' /\ WorkerTypeOK' /\ WorkerInv'
<1> USE WorkerAssumption
    DEF NetworkTypeOK, WorkerTypeOK, WorkerInv, WorkerGoto, netVars
<1>1. CASE SendCores(w)
  <2>1. NumCores[w] \in Cores
    OBVIOUS
  <2> QED
    BY <1>1, <2>1 DEF SendCores
<1>2. CASE ReadWork(w)
  <2>1. sock[w] \in Addr
    BY <1>2 DEF ReadWork
  <2>2. toWorker[sock[w]] \in Seq(Work) /\ toWorker[sock[w]] # <<>>
    BY <1>2, <2>1 DEF ReadWork
  <2>3. /\ Head(toWorker[sock[w]]) \in Work
        /\ Tail(toWorker[sock[w]]) \in Seq(Work)
    BY <2>2
  <2> QED
    BY <1>2, <2>1, <2>3 DEF ReadWork
<1>3. CASE DividePanic(w)
  <2>1. LoseSocket(w)
    BY <1>3 DEF DividePanic
  <2>2. UNCHANGED <<retry_count, drops>> /\ wpc' = [wpc EXCEPT ![w] = "exited"]
    BY <1>3 DEF DividePanic
  <2> QED
    BY <2>1, <2>2, LoseSocketTypes
<1>4. CASE \E a \in Addr : Connect(w, a)
  BY <1>4 DEF Connect, OpenLink
<1>5. CASE \E d \in Difficulty : MineAndSend(w, d)
  <2> PICK d \in Difficulty : MineAndSend(w, d)
    BY <1>5
  <2> DEFINE s == [challenge |-> job[w].challenge, difficulty |-> d]
  <2>1. s \in Solution
    BY NetworkAssumption DEF MineAndSend, Work, Solution
  <2>2. toGuide' = [toGuide EXCEPT ![sock[w]] = Append(toGuide[sock[w]], s)]
    BY DEF MineAndSend
  <2> HIDE DEF s
  <2>3. sock[w] \in Addr
    BY DEF MineAndSend
  <2>4. toGuide[sock[w]] \in Seq(Solution)
    BY <2>3
  <2>5. Append(toGuide[sock[w]], s) \in Seq(Solution)
    BY <2>1, <2>4
  <2>6. toGuide' \in [Addr -> Seq(Solution)]
    BY <2>2, <2>5
  <2> QED
    BY <2>6 DEF MineAndSend
<1>6. CASE ConnectRefused(w)
  <2>1. retry_count[w] + 1 \in 0..SERVER_RETRIES
    BY <1>6 DEF ConnectRefused
  <2> QED
    BY <1>6, <2>1 DEF ConnectRefused
<1>7. CASE GuideLost(w)
  <2>1. LoseSocket(w)
    BY <1>7 DEF GuideLost
  <2>2. /\ UNCHANGED <<retry_count, drops>>
        /\ \/ wpc' = [wpc EXCEPT ![w] = "exited"]
           \/ wpc[w] # "exited" /\ wpc' = [wpc EXCEPT ![w] = "connect"]
    BY <1>7 DEF GuideLost
  <2>3. NetworkTypeOK' /\ WorkerTypeOK'
    BY <2>1, <2>2, LoseSocketTypes
  <2>4. WorkerInv'
    BY <2>1, <2>2, LoseSocketTypes
  <2> QED
    BY <2>3, <2>4
<1>8. CASE Drop(w)
  <2>1. LoseSocket(w)
    BY <1>8 DEF Drop
  <2>2. /\ drops' \in 0..MaxDrops
        /\ wpc' = [wpc EXCEPT ![w] = "connect"]
        /\ retry_count' = [retry_count EXCEPT ![w] = 0]
    BY <1>8 DEF Drop
  <2>3. NetworkTypeOK' /\ WorkerTypeOK'
    BY <2>1, <2>2, LoseSocketTypes
  <2>4. WorkerInv'
    BY <2>1, <2>2, LoseSocketTypes
  <2> QED
    BY <2>3, <2>4
<1> QED
  BY <1>1, <1>2, <1>3, <1>4, <1>5, <1>6, <1>7, <1>8 DEF WorkerStep, Answer

\* Only its own task moves a client into the map and out of it.
LEMMA TaskInvStep ==
  ASSUME GuideTypeOK, TaskInv, GuideStep
  PROVE  TaskInv'
<1> USE DEF GuideTypeOK, TaskInv, TaskPc
<1>1. CASE MainStep
  <2>1. UNCHANGED clients
    BY <1>1 DEF MainStep, Accept, DispatchWrite, Notified, WokenStart,
       WokenSend, WokenWait, FetchProof, FetchAgain, GetClock, ClockPanic,
       ResendSetSend, MainNotify, LockClients, MarkMining, DispatchDone,
       TakeSolution, UnwrapPanic, SubmitConfirmed, SubmitRejected,
       SubmitGivesUp, SubmitReturns, ResetBest, SetStart, sharedVars
  <2>2. CASE \E a \in Addr : Accept(a)
    BY <2>1, <2>2 DEF Accept
  <2>3. CASE ~ \E a \in Addr : Accept(a)
    <3>1. UNCHANGED hpc
      BY <1>1, <2>3 DEF MainStep, DispatchWrite, Notified, WokenStart,
         WokenSend, WokenWait, FetchProof, FetchAgain, GetClock, ClockPanic,
         ResendSetSend, MainNotify, LockClients, MarkMining, DispatchDone,
         TakeSolution, UnwrapPanic, SubmitConfirmed, SubmitRejected,
         SubmitGivesUp, SubmitReturns, ResetBest, SetStart, taskVars
    <3> QED
      BY <2>1, <3>1
  <2> QED
    BY <2>2, <2>3
<1>2. CASE \E a \in Addr : TaskStep(a)
  <2> PICK a \in Addr : TaskStep(a)
    BY <1>2
  <2>1. CASE InsertClient(a)
    BY <2>1 DEF InsertClient, TaskGoto
  <2>2. CASE LeaveClients(a)
    BY <2>2 DEF LeaveClients, TaskGoto
  <2>3. CASE ~(InsertClient(a) \/ LeaveClients(a))
    <3>1. UNCHANGED clients
      BY <2>3 DEF TaskStep, Hello, HelloEof, CountCores, Receive, ReceiveEof,
         SetBest, SetSolution, Finish, SetSend, Wake, DrainExit, SetWait,
         WaitWake, sharedVars
    <3>2. \E to \in TaskPc :
            /\ hpc' = [hpc EXCEPT ![a] = to]
            /\ to # "count"
            /\ to \in {"none", "hello", "insert", "drain", "setWait",
                       "waitWake"} =>
                 hpc[a] \in {"hello", "drain", "setWait", "waitWake"}
      BY <2>3 DEF TaskStep, Hello, HelloEof, CountCores, Receive, ReceiveEof,
         SetBest, SetSolution, Finish, SetSend, Wake, DrainExit, SetWait,
         WaitWake, TaskGoto, AfterMessage
    <3> QED
      BY <3>1, <3>2
  <2> QED
    BY <2>1, <2>2, <2>3
<1>3. CASE TxLands
  BY <1>3 DEF TxLands, sharedVars, taskVars
<1> QED
  BY <1>1, <1>2, <1>3 DEF GuideStep

\* Main leaves the sum of the cores alone.
LEMMA CoreInvMainStep ==
  ASSUME GuideTypeOK, CoreInv, MainStep
  PROVE  CoreInv'
<1> USE DEF GuideTypeOK
<1>1. UNCHANGED <<clients, cores, total_cores>>
  BY DEF MainStep, Accept, DispatchWrite, Notified, WokenStart, WokenSend,
     WokenWait, FetchProof, FetchAgain, GetClock, ClockPanic, ResendSetSend,
     MainNotify, LockClients, MarkMining, DispatchDone, TakeSolution,
     UnwrapPanic, SubmitConfirmed, SubmitRejected, SubmitGivesUp,
     SubmitReturns, ResetBest, SetStart, sharedVars
<1>2. UNCHANGED Counted
  <2>1. CASE \E a \in Addr : Accept(a)
    BY <1>1, <2>1 DEF Accept, Counted
  <2>2. CASE ~ \E a \in Addr : Accept(a)
    <3>1. UNCHANGED hpc
      BY <2>2 DEF MainStep, DispatchWrite, Notified, WokenStart, WokenSend,
         WokenWait, FetchProof, FetchAgain, GetClock, ClockPanic,
         ResendSetSend, MainNotify, LockClients, MarkMining, DispatchDone,
         TakeSolution, UnwrapPanic, SubmitConfirmed, SubmitRejected,
         SubmitGivesUp, SubmitReturns, ResetBest, SetStart, taskVars
    <3> QED
      BY <1>1, <3>1 DEF Counted
  <2> QED
    BY <2>1, <2>2
<1> QED
  BY <1>1, <1>2 DEF CoreInv, TotalCoresExact, CoreSlots

\* A task that counts or removes its client keeps the sum exact.
LEMMA CoreInvTaskStep ==
  ASSUME GuideTypeOK, TaskInv, CoreInv, NEW a \in Addr, TaskStep(a)
  PROVE  CoreInv'
<1> USE DEF GuideTypeOK, TaskInv, TaskGoto
<1>1. Counted \subseteq Addr /\ IsFiniteSet(Counted)
  BY DEF Counted, CoreInv
<1>2. \A c \in Addr : cores[c] \in Nat
  BY CoresNat
<1>3. total_cores = Cardinality(CoreSlots(Counted, cores))
  BY DEF CoreInv, TotalCoresExact
<1>4. CASE Hello(a)
  <2>1. Counted' = Counted /\ total_cores' = total_cores
    BY <1>4 DEF Hello, Counted
  <2>2. \A c \in Counted : cores[c] = cores'[c]
    BY <1>4 DEF Hello, Counted
  <2>3. CoreSlots(Counted, cores) = CoreSlots(Counted, cores')
    BY <2>2, CoreSlotsSame
  <2> QED
    BY <1>1, <1>3, <2>1, <2>3 DEF CoreInv, TotalCoresExact, CoreSlots
<1>5. CASE InsertClient(a)
  <2>1. Counted' = Counted /\ UNCHANGED <<cores, total_cores>>
    BY <1>5 DEF InsertClient, Counted
  <2> QED
    BY <1>1, <1>3, <2>1 DEF CoreInv, TotalCoresExact, CoreSlots
<1>6. CASE CountCores(a)
  <2>1. a \notin Counted /\ Counted' = Counted \cup {a}
    BY <1>6 DEF CountCores, Counted
  <2>2. total_cores' = total_cores + cores[a] /\ cores' = cores
    BY <1>6 DEF CountCores
  <2>3. Cardinality(CoreSlots(Counted \cup {a}, cores)) =
          Cardinality(CoreSlots(Counted, cores)) + cores[a]
    BY <1>1, <1>2, <2>1, CoreSlotsAdd
  <2>4. IsFiniteSet(Counted \cup {a})
    BY <1>1, FS_AddElement
  <2> QED
    BY <1>3, <2>1, <2>2, <2>3, <2>4 DEF CoreInv, TotalCoresExact, CoreSlots
<1>7. CASE LeaveClients(a)
  <2>1. Counted' = Counted \ {a}
    BY <1>7 DEF LeaveClients, Counted
  <2>2. a \in clients <=> a \in Counted
    BY <1>7 DEF LeaveClients, Counted
  <2>3. IsFiniteSet(Counted')
    BY <1>1, <2>1, FS_RemoveElement
  <2>4. \A c \in Counted' : cores[c] = cores'[c]
    BY <1>1, <1>7, <2>1 DEF LeaveClients
  <2>5. CoreSlots(Counted', cores) = CoreSlots(Counted', cores')
    BY <2>4, CoreSlotsSame
  <2>6. total_cores' = Cardinality(CoreSlots(Counted', cores))
    <3>1. CASE a \in Counted
      <4>1. total_cores' = total_cores - cores[a]
        BY <1>7, <2>2, <3>1 DEF LeaveClients, LeavingCores
      <4>2. Counted = Counted' \cup {a} /\ a \notin Counted'
        BY <2>1, <3>1
      <4>3. \A c \in Counted' \cup {a} : cores[c] \in Nat
        BY <1>1, <1>2, <4>2
      <4>4. Cardinality(CoreSlots(Counted' \cup {a}, cores)) =
              Cardinality(CoreSlots(Counted', cores)) + cores[a]
        BY <2>3, <4>2, <4>3, CoreSlotsAdd
      <4>5. IsFiniteSet(CoreSlots(Counted', cores))
        BY <2>3, <4>3, CoreSlotsFinite
      <4>6. Cardinality(CoreSlots(Counted', cores)) \in Nat
        BY <4>5, FS_CardinalityType
      <4>7. total_cores = Cardinality(CoreSlots(Counted', cores)) + cores[a]
        BY <1>3, <4>2, <4>4
      <4> QED
        BY <1>2, <4>1, <4>6, <4>7
    <3>2. CASE a \notin Counted
      <4>1. total_cores' = total_cores
        BY <1>7, <2>2, <3>2 DEF LeaveClients, LeavingCores
      <4>2. Counted' = Counted
        BY <2>1, <3>2
      <4> QED
        BY <1>3, <4>1, <4>2
    <3> QED
      BY <3>1, <3>2
  <2> QED
    BY <2>3, <2>5, <2>6 DEF CoreInv, TotalCoresExact, CoreSlots
<1>8. CASE ~(Hello(a) \/ InsertClient(a) \/ CountCores(a) \/ LeaveClients(a))
  <2>1. UNCHANGED <<clients, cores, total_cores>>
    BY <1>8 DEF TaskStep, HelloEof, Receive, ReceiveEof, SetBest, SetSolution,
       Finish, SetSend, Wake, DrainExit, SetWait, WaitWake, sharedVars
  <2>2. \E to \in TaskPc \ {"count"} :
          hpc[a] # "count" /\ hpc' = [hpc EXCEPT ![a] = to]
    BY <1>8 DEF TaskStep, HelloEof, Receive, ReceiveEof, SetBest, SetSolution,
       Finish, SetSend, Wake, DrainExit, SetWait, WaitWake, AfterMessage,
       TaskPc
  <2>3. Counted' = Counted
    BY <2>1, <2>2 DEF Counted
  <2> QED
    BY <1>1, <1>3, <2>1, <2>3 DEF CoreInv, TotalCoresExact, CoreSlots
<1> QED
  BY <1>4, <1>5, <1>6, <1>7, <1>8

\* A total that is the exact sum never goes below zero.
LEMMA CoreInvTotal ==
  ASSUME CoreInv, Counted \subseteq Addr, cores \in [Addr -> {0} \cup Cores]
  PROVE  total_cores \in Nat
<1>1. \A c \in Counted : cores[c] \in Nat
  BY CoresNat
<1>2. IsFiniteSet(CoreSlots(Counted, cores))
  BY <1>1, CoreSlotsFinite DEF CoreInv
<1> QED
  BY <1>2, FS_CardinalityType DEF CoreInv, TotalCoresExact

\* Every step keeps the invariant.
LEMMA NextIInv == IInv /\ [Next]_vars => IInv'
<1> SUFFICES ASSUME IInv, [Next]_vars PROVE IInv'
  OBVIOUS
<1> USE DEF IInv, TypeOK
<1>1. CASE MainStep /\ UNCHANGED workerVars
  <2>1. GuideTypeOK' /\ NetworkTypeOK' /\ MainInv'
    BY <1>1, MainStepTypes
  <2>2. TaskInv' /\ CoreInv'
    BY <1>1, TaskInvStep, CoreInvMainStep DEF GuideStep
  <2>3. WorkerTypeOK' /\ WorkerInv'
    BY <1>1 DEF workerVars, WorkerTypeOK, WorkerInv
  <2> QED
    BY <2>1, <2>2, <2>3
<1>2. CASE TxLands /\ UNCHANGED workerVars
  <2>1. GuideTypeOK' /\ NetworkTypeOK' /\ MainInv'
    BY <1>2, TxLandsTypes
  <2>2. TaskInv'
    BY <1>2, TaskInvStep DEF GuideStep
  <2>3. CoreInv'
    BY <1>2 DEF TxLands, sharedVars, taskVars, CoreInv, TotalCoresExact,
       CoreSlots, Counted
  <2>4. WorkerTypeOK' /\ WorkerInv'
    BY <1>2 DEF workerVars, WorkerTypeOK, WorkerInv
  <2> QED
    BY <2>1, <2>2, <2>3, <2>4
<1>3. ASSUME NEW a \in Addr, TaskStep(a), UNCHANGED workerVars
      PROVE  IInv'
  <2>1. TaskInv' /\ CoreInv'
    BY <1>3, TaskInvStep, CoreInvTaskStep DEF GuideStep
  <2>2. clients' \subseteq Addr /\ cores' \in [Addr -> {0} \cup Cores]
    <3>1. CASE Hello(a)
      BY <3>1 DEF Hello, GuideTypeOK, NetworkTypeOK
    <3>2. CASE InsertClient(a)
      BY <3>2 DEF InsertClient, GuideTypeOK
    <3>3. CASE LeaveClients(a)
      BY <3>3 DEF LeaveClients, GuideTypeOK
    <3>4. CASE ~(Hello(a) \/ InsertClient(a) \/ LeaveClients(a))
      BY <1>3, <3>4 DEF TaskStep, HelloEof, CountCores, Receive, ReceiveEof,
         SetBest, SetSolution, Finish, SetSend, Wake, DrainExit, SetWait,
         WaitWake, sharedVars, GuideTypeOK
    <3> QED
      BY <3>1, <3>2, <3>3, <3>4
  <2>3. total_cores' \in Nat
    <3>1. Counted' \subseteq Addr
      BY <2>2 DEF Counted
    <3>2. (CoreInv /\ Counted \subseteq Addr
             /\ cores \in [Addr -> {0} \cup Cores] => total_cores \in Nat)'
      BY CoreInvTotal, PTL
    <3> QED
      BY <2>1, <2>2, <3>1, <3>2
  <2>4. GuideTypeOK' /\ NetworkTypeOK' /\ MainInv'
    BY <1>3, <2>3, TaskStepTypes
  <2>5. WorkerTypeOK' /\ WorkerInv'
    BY <1>3 DEF workerVars, WorkerTypeOK, WorkerInv
  <2> QED
    BY <2>1, <2>4, <2>5
<1>4. ASSUME NEW w \in Worker, WorkerStep(w) \/ Drop(w), UNCHANGED guideVars
      PROVE  IInv'
  <2>1. NetworkTypeOK' /\ WorkerTypeOK' /\ WorkerInv'
    BY <1>4, WorkerStepTypes
  <2>2. GuideTypeOK' /\ MainInv' /\ TaskInv' /\ CoreInv'
    BY <1>4 DEF guideVars, sharedVars, mainVars, dispatchVars, taskVars,
       GuideTypeOK, MainInv, TaskInv, CoreInv, TotalCoresExact, CoreSlots,
       Counted
  <2> QED
    BY <2>1, <2>2
<1>5. CASE UNCHANGED vars
  BY <1>5 DEF vars, netVars, guideVars, workerVars, sharedVars, mainVars,
     dispatchVars, taskVars, NetworkTypeOK, GuideTypeOK, WorkerTypeOK,
     MainInv, WorkerInv, TaskInv, CoreInv, TotalCoresExact, CoreSlots, Counted
<1> QED
  BY <1>1, <1>3, <1>4, <1>5, <1>2 DEF Next, GuideStep

\* The invariant is inductive.
LEMMA Inductive == Spec => []IInv
BY InitIInv, NextIInv, PTL DEF Spec

\* Every cell of the guide, the workers and their connections keeps its type,
\* for any number of workers, threads and retries: u64 total_cores never
\* goes below zero, no task leaves the code's control flow.
THEOREM TypeCorrect == Spec => []TypeOK
BY Inductive, PTL DEF IInv

\* total_cores is the exact sum of the counted clients' cores, however
\* registrations and departures interleave with each other and with main.
THEOREM TotalCoresCorrect == Spec => []TotalCoresExact
BY Inductive, PTL DEF IInv, CoreInv

-----------------------------------------------------------------------------
(***************************************************************************)
(* Wake-ups and the Wait mode.                                             *)
(***************************************************************************)

\* Main takes up a Send that it consumes the permit of.
LEMMA NoLostWakeupMain ==
  ASSUME GuideTypeOK, NoLostWakeup, MainStep
  PROVE  NoLostWakeup'
<1> USE DEF GuideTypeOK, NoLostWakeup, MainGoto, sharedVars, taskVars
<1>1. CASE \E a \in Addr : Accept(a)
  <2> PICK a \in Addr : Accept(a)
    BY <1>1
  <2>1. \A b \in Addr : hpc[b] = "wake" => hpc'[b] = "wake"
    BY DEF Accept
  <2>2. UNCHANGED <<action_type, permit, mpc>>
    BY DEF Accept, mainVars
  <2> QED
    BY <2>1, <2>2
<1>2. CASE (\E a \in Addr : DispatchWrite(a)) \/ LockClients \/ MarkMining
             \/ DispatchDone
  BY <1>2 DEF DispatchWrite, LockClients, MarkMining, DispatchDone
<1>3. CASE Notified \/ WokenStart \/ WokenSend \/ WokenWait
  BY <1>3 DEF Notified, WokenStart, WokenSend, WokenWait
<1>4. CASE (\E seen \in Challenge : FetchProof(seen)) \/ FetchAgain \/ GetClock \/ ClockPanic
  BY <1>4 DEF FetchProof, FetchAgain, GetClock, ClockPanic
<1>5. CASE ResendSetSend \/ MainNotify("resendWake") \/ MainNotify("startWake")
  BY <1>5 DEF ResendSetSend, MainNotify
<1>6. CASE TakeSolution \/ UnwrapPanic \/ ResetBest \/ SetStart
  BY <1>6 DEF TakeSolution, UnwrapPanic, ResetBest, SetStart
<1>7. CASE SubmitConfirmed \/ SubmitRejected
             \/ \E sent \in BOOLEAN : SubmitGivesUp(sent)
  BY <1>7 DEF SubmitConfirmed, SubmitRejected, SubmitGivesUp, SubmitReturns
<1> QED
  BY <1>1, <1>2, <1>3, <1>4, <1>5, <1>6, <1>7 DEF MainStep

\* A task that stores Send goes on to its wake-up.
LEMMA NoLostWakeupTask ==
  ASSUME GuideTypeOK, NoLostWakeup, NEW a \in Addr, TaskStep(a)
  PROVE  NoLostWakeup'
<1> USE DEF GuideTypeOK, NoLostWakeup, TaskGoto
<1>1. CASE Wake(a)
  BY <1>1 DEF Wake
<1>2. CASE SetSend(a)
  BY <1>2 DEF SetSend, mainVars
<1>3. CASE CountCores(a)
  <2>1. action_type' = "Send" => action_type = "Send" /\ permit' = permit
    BY <1>3 DEF CountCores
  <2>2. mpc' = mpc /\ \A b \in Addr : hpc[b] = "wake" => hpc'[b] = "wake"
    BY <1>3 DEF CountCores, mainVars
  <2> QED
    BY <2>1, <2>2
<1>4. CASE SetWait(a) \/ WaitWake(a)
  BY <1>4 DEF SetWait, WaitWake, mainVars
<1>5. CASE Hello(a) \/ HelloEof(a) \/ InsertClient(a) \/ Receive(a)
             \/ ReceiveEof(a) \/ SetBest(a) \/ SetSolution(a) \/ Finish(a)
             \/ LeaveClients(a) \/ DrainExit(a)
  <2>1. UNCHANGED <<action_type, permit, mpc>>
    BY <1>5 DEF Hello, HelloEof, InsertClient, Receive, ReceiveEof, SetBest,
       SetSolution, Finish, LeaveClients, DrainExit, sharedVars, mainVars
  <2>2. hpc[a] # "wake" /\ \E to : hpc' = [hpc EXCEPT ![a] = to]
    BY <1>5 DEF Hello, HelloEof, InsertClient, Receive, ReceiveEof, SetBest,
       SetSolution, Finish, LeaveClients, DrainExit
  <2>3. \A b \in Addr : hpc[b] = "wake" => hpc'[b] = "wake"
    BY <2>2
  <2> QED
    BY <2>1, <2>3
<1> QED
  BY <1>1, <1>2, <1>3, <1>4, <1>5 DEF TaskStep

\* A Send that was decided on is never forgotten, although permits merge.
THEOREM WakeupsKept == Spec => []NoLostWakeup
<1>1. Init => NoLostWakeup
  BY DEF Init, GuideInit, NoLostWakeup
<1>2. IInv /\ NoLostWakeup /\ [Next]_vars => NoLostWakeup'
  <2> SUFFICES ASSUME IInv, NoLostWakeup, [Next]_vars PROVE NoLostWakeup'
    OBVIOUS
  <2>1. GuideTypeOK
    BY DEF IInv, TypeOK
  <2>2. CASE TxLands
    BY <2>2 DEF TxLands, NoLostWakeup, sharedVars, taskVars
  <2>3. CASE GuideStep
    BY <2>1, <2>3, <2>2, NoLostWakeupMain, NoLostWakeupTask DEF GuideStep
  <2>4. CASE UNCHANGED guideVars
    BY <2>4 DEF NoLostWakeup, guideVars, sharedVars, mainVars, taskVars
  <2> QED
    BY <2>3, <2>4 DEF Next, vars, guideVars
<1> QED
  BY <1>1, <1>2, Inductive, PTL DEF Spec

\* The task that turns the guide to Wait has emptied the clients map, and
\* keeps it empty by its lock.
DrainInv == \A a \in Addr : TurningToWait(a) => clients = {}

\* A task keeps Wait and the counted clients apart, under the clients lock.
LEMMA WaitStep ==
  ASSUME GuideTypeOK, TaskInv, DrainInv, WaitOnlyWhenEmpty, NEW a \in Addr,
         TaskStep(a)
  PROVE  DrainInv' /\ WaitOnlyWhenEmpty'
<1> USE DEF GuideTypeOK, TaskInv, DrainInv, WaitOnlyWhenEmpty, Counted,
            TurningToWait, TaskGoto
<1>1. CASE InsertClient(a)
  BY <1>1 DEF InsertClient, ClientsLocked
<1>2. CASE CountCores(a)
  BY <1>2 DEF CountCores
<1>3. CASE LeaveClients(a)
  BY <1>3 DEF LeaveClients, ClientsLocked
<1>4. CASE SetWait(a)
  BY <1>4 DEF SetWait
<1>5. CASE SetSend(a)
  BY <1>5 DEF SetSend, AfterMessage
<1>6. CASE Hello(a) \/ HelloEof(a) \/ Receive(a) \/ ReceiveEof(a)
             \/ SetBest(a) \/ SetSolution(a) \/ Finish(a) \/ Wake(a)
             \/ DrainExit(a) \/ WaitWake(a)
  <2>1. UNCHANGED <<action_type, clients>>
    BY <1>6 DEF Hello, HelloEof, Receive, ReceiveEof, SetBest, SetSolution,
       Finish, Wake, DrainExit, WaitWake, sharedVars
  <2>2. \E to :
          /\ hpc' = [hpc EXCEPT ![a] = to]
          /\ hpc[a] # "count"
          /\ to \in {"drain", "setWait", "waitWake"} => TurningToWait(a)
    BY <1>6 DEF Hello, HelloEof, Receive, ReceiveEof, SetBest, SetSolution,
       Finish, Wake, DrainExit, WaitWake, AfterMessage
  <2> QED
    BY <2>1, <2>2
<1> QED
  BY <1>1, <1>2, <1>3, <1>4, <1>5, <1>6 DEF TaskStep

\* Main never returns to Wait, and counts nobody.
LEMMA WaitMainStep ==
  ASSUME GuideTypeOK, DrainInv, WaitOnlyWhenEmpty, MainStep
  PROVE  DrainInv' /\ WaitOnlyWhenEmpty'
<1> USE DEF GuideTypeOK, DrainInv, WaitOnlyWhenEmpty, Counted, TurningToWait
<1>1. CASE \E a \in Addr : Accept(a)
  BY <1>1 DEF Accept, sharedVars
<1>2. CASE ~ \E a \in Addr : Accept(a)
  <2>1. /\ UNCHANGED <<clients, hpc>>
        /\ action_type' = "Wait" => action_type = "Wait"
    BY <1>2 DEF MainStep, DispatchWrite, Notified, WokenStart, WokenSend,
       WokenWait, FetchProof, FetchAgain, GetClock, ClockPanic,
       ResendSetSend, MainNotify, LockClients, MarkMining, DispatchDone,
       TakeSolution, UnwrapPanic, SubmitConfirmed, SubmitRejected,
       SubmitGivesUp, SubmitReturns, ResetBest, SetStart, sharedVars, taskVars
  <2> QED
    BY <2>1
<1> QED
  BY <1>1, <1>2

\* The clients map stays empty while its last client's task turns to Wait.
LEMMA Draining == Spec => [](DrainInv /\ WaitOnlyWhenEmpty)
<1>1. Init => DrainInv /\ WaitOnlyWhenEmpty
  BY DEF Init, GuideInit, DrainInv, TurningToWait, WaitOnlyWhenEmpty, Counted
<1>2. IInv /\ DrainInv /\ WaitOnlyWhenEmpty /\ [Next]_vars
        => DrainInv' /\ WaitOnlyWhenEmpty'
  <2> SUFFICES ASSUME IInv, DrainInv, WaitOnlyWhenEmpty, [Next]_vars
               PROVE  DrainInv' /\ WaitOnlyWhenEmpty'
    OBVIOUS
  <2>1. GuideTypeOK /\ TaskInv
    BY DEF IInv, TypeOK
  <2>2. CASE TxLands
    BY <2>2 DEF TxLands, DrainInv, TurningToWait, WaitOnlyWhenEmpty, Counted,
       sharedVars, taskVars
  <2>3. CASE GuideStep
    BY <2>1, <2>3, <2>2, WaitMainStep, WaitStep DEF GuideStep
  <2>4. CASE UNCHANGED guideVars
    BY <2>4 DEF DrainInv, TurningToWait, WaitOnlyWhenEmpty, Counted,
       guideVars, sharedVars, taskVars
  <2> QED
    BY <2>3, <2>4 DEF Next, vars, guideVars
<1> QED
  BY <1>1, <1>2, Inductive, PTL DEF Spec

\* In the Wait mode no client is registered, so none is left without work
\* because everybody took the guide to be mining already.
THEOREM WaitIsEmpty == Spec => []WaitOnlyWhenEmpty
BY Draining, PTL
=============================================================================
