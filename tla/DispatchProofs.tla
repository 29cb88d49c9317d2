---------------------------- MODULE DispatchProofs ----------------------------
(***************************************************************************)
(* The dispatch loop hands out disjoint slices that tile the total, for    *)
(* any number of addresses and workers, however workers join, leave and    *)
(* answer.  What an order says rests on who may hold it: an address has at *)
(* most one worker, and an address in the map has that worker's cores.     *)
(* The same facts tell when an answer may not be left lying: at the end.   *)
(***************************************************************************)
EXTENDS ClusterProofs

\* A stream belongs to one worker, and only a worker with a stream mines.
SockInv ==
  /\ \A v, w \in Worker : (v # w /\ sock[v] # NoAddr) => sock[v] # sock[w]
  /\ \A w \in Worker :
       /\ wpc[w] \in {"connect", "exited"} => sock[w] = NoAddr
       /\ sock[w] = NoAddr => job[w] = NoWork
       /\ sock[w] # NoAddr => link[sock[w]] = "open"

\* Orders wait on open connections only, and an address is reused only after
\* its task has seen the end of the connection and is over.
LinkInv ==
  \A a \in Addr :
    /\ link[a] # "open" => toWorker[a] = <<>>
    /\ link[a] = "free" => hello[a] = 0
    /\ hpc[a] # "none" => link[a] # "free"
    /\ gone[a] => link[a] = "closed"
    /\ hpc[a] \in {"closing", "drain", "setWait", "waitWake"} => gone[a]

\* The guide knows an address by no other core count than its worker's.
SlotInv ==
  /\ \A a \in Addr :
       /\ hpc[a] \in {"none", "hello", "drain", "setWait", "waitWake"} =>
            cores[a] = 0
       /\ a \in clients \/ hpc[a] = "insert" => cores[a] # 0
  /\ \A w \in Worker : sock[w] # NoAddr =>
       /\ hello[sock[w]] \in {0, NumCores[w]}
       /\ cores[sock[w]] \in {0, NumCores[w]}

ConnInv == SockInv /\ LinkInv /\ SlotInv

\* Main dispatches another challenge each time, to clients of the map.
LoopInv ==
  /\ last_hash_at <= chain /\ proof <= chain
  /\ mpc \in {"lock", "dispatch", "mark"} => last_hash_at # proof
  /\ Dispatching => todo \subseteq clients
  /\ mpc = "mark" => cur \in todo

\* It is a newer and newer one, if the node it is read from is not behind.
FreshInv ==
  /\ last_hash_at <= proof
  /\ mpc \in {"lock", "dispatch", "mark"} => last_hash_at < proof

\* Orders for the challenge being handed out lie below the loop's offset; the
\* one just written starts there.
SliceInv ==
  \A w \in Worker : \A x \in Orders(w) :
    /\ x.challenge <= Handed
    /\ (Dispatching /\ x.challenge = proof) =>
         \/ x.offset + NumCores[w] <= offset
         \/ mpc = "mark" /\ sock[w] = cur /\ x.offset = offset

DispatchInv == ConnInv /\ LoopInv

ShareInv == FreshInv /\ SliceInv /\ WorkDisjoint

\* At first there are no connections, and no orders.
LEMMA InitDispatch == Init => DispatchInv /\ ShareInv
<1> SUFFICES ASSUME Init PROVE DispatchInv /\ ShareInv
  OBVIOUS
<1> USE DEF Init, NetworkInit, GuideInit, WorkerInit
<1>1. ConnInv
  BY NetworkAssumption DEF ConnInv, SockInv, LinkInv, SlotInv
<1>2. LoopInv
  BY DEF LoopInv, Dispatching
<1>3. \A w \in Worker : Orders(w) = {}
  BY DEF Orders
<1>4. FreshInv
  BY DEF FreshInv
<1> QED
  BY <1>1, <1>2, <1>3, <1>4 DEF DispatchInv, ShareInv, SliceInv, WorkDisjoint

-----------------------------------------------------------------------------
(***************************************************************************)
(* Connections.                                                            *)
(***************************************************************************)

\* Main accepts connections, and writes to open ones.
LEMMA ConnMain ==
  ASSUME IInv, ConnInv, MainStep, UNCHANGED workerVars
  PROVE  ConnInv'
<1> USE DEF IInv, TypeOK, NetworkTypeOK, GuideTypeOK, WorkerTypeOK, ConnInv,
            SockInv, LinkInv, SlotInv, workerVars
<1>1. CASE \E a \in Addr : Accept(a)
  BY <1>1 DEF Accept, netVars, sharedVars
<1>2. CASE \E a \in Addr : DispatchWrite(a)
  BY <1>2 DEF DispatchWrite, Deliver, sharedVars, taskVars
<1>3. CASE ~ \E a \in Addr : Accept(a) \/ DispatchWrite(a)
  <2>1. UNCHANGED <<netVars, clients, cores, taskVars>>
    BY <1>3 DEF MainStep, Notified, WokenStart, WokenSend, WokenWait,
       FetchProof, FetchAgain, GetClock, ClockPanic, ResendSetSend,
       MainNotify, LockClients, MarkMining, DispatchDone, TakeSolution,
       UnwrapPanic, SubmitConfirmed, SubmitRejected, SubmitGivesUp,
       SubmitReturns, ResetBest, SetStart, sharedVars
  <2> QED
    BY <2>1 DEF netVars, taskVars
<1> QED
  BY <1>1, <1>2, <1>3

\* No worker holds a closed address.
LEMMA ClosedIsNobodys ==
  ASSUME SockInv, NEW a \in Addr, link[a] # "open"
  PROVE  \A w \in Worker : sock[w] # a
BY NetworkAssumption DEF SockInv

\* The end of a task frees an address that its worker has left.
LEMMA ConnEnd ==
  ASSUME IInv, ConnInv, NEW a \in Addr, gone[a], EndTask(a),
         UNCHANGED workerVars, clients' = clients \ {a},
         cores' = [cores EXCEPT ![a] = 0],
         hpc' = [hpc EXCEPT ![a] = "none"]
  PROVE  ConnInv'
<1> USE DEF IInv, TypeOK, NetworkTypeOK, GuideTypeOK, WorkerTypeOK, ConnInv,
            workerVars, EndTask, FreeLink
<1>1. link[a] = "closed"
  BY DEF LinkInv
<1>2. \A w \in Worker : sock[w] # a
  BY <1>1, ClosedIsNobodys
<1>3. SockInv'
  BY <1>2 DEF SockInv
<1>4. LinkInv'
  BY DEF LinkInv
<1>5. SlotInv'
  BY <1>2, NetworkAssumption DEF SlotInv
<1> QED
  BY <1>3, <1>4, <1>5

\* A task ends after its connection, and forgets the cores with it.
LEMMA ConnTask ==
  ASSUME IInv, ConnInv, NEW a \in Addr, TaskStep(a), UNCHANGED workerVars
  PROVE  ConnInv'
<1> USE DEF IInv, TypeOK, NetworkTypeOK, GuideTypeOK, WorkerTypeOK, ConnInv,
            SockInv, LinkInv, SlotInv, TaskInv, workerVars, TaskGoto, netVars
<1>1. CASE Hello(a)
  BY <1>1 DEF Hello
<1>2. CASE InsertClient(a)
  BY <1>2 DEF InsertClient
<1>3. CASE Receive(a)
  <2>1. /\ UNCHANGED <<link, hello, toWorker, clients, cores, gone>>
        /\ hpc[a] = "reading"
        /\ hpc' \in {[hpc EXCEPT ![a] = "setBest"], [hpc EXCEPT ![a] = "finish"]}
    BY <1>3 DEF Receive, sharedVars
  <2> QED
    BY <2>1
<1>4. CASE ReceiveEof(a)
  BY <1>4 DEF ReceiveEof, sharedVars
<1>5. CASE LeaveClients(a)
  <2>1. /\ hpc[a] = "closing" /\ gone[a] /\ link[a] = "closed"
        /\ clients' = clients \ {a}
        /\ cores' = [cores EXCEPT ![a] = 0]
    BY <1>5 DEF LeaveClients
  <2>2. CASE clients' = {}
    BY <1>5, <2>1, <2>2 DEF LeaveClients
  <2>3. CASE clients' # {}
    BY <1>5, <2>1, <2>3, ConnEnd DEF LeaveClients
  <2> QED
    BY <2>2, <2>3
<1>6. CASE WaitWake(a)
  <2>1. hpc[a] = "waitWake" /\ gone[a] /\ cores[a] = 0 /\ a \notin clients
    BY <1>6 DEF WaitWake
  <2>2. cores' = [cores EXCEPT ![a] = 0] /\ clients' = clients \ {a}
    BY <1>6, <2>1 DEF WaitWake
  <2> QED
    BY <1>6, <2>1, <2>2, ConnEnd DEF WaitWake
<1>7. CASE HelloEof(a) \/ CountCores(a) \/ SetBest(a) \/ SetSolution(a)
             \/ SetSend(a) \/ DrainExit(a) \/ SetWait(a)
  BY <1>7 DEF HelloEof, CountCores, SetBest, SetSolution, SetSend, DrainExit,
     SetWait, sharedVars
<1>8. CASE Finish(a) \/ Wake(a)
  BY <1>8 DEF Finish, Wake, AfterMessage
<1> QED
  BY <1>1, <1>2, <1>3, <1>4, <1>5, <1>6, <1>7, <1>8 DEF TaskStep

\* A worker that loses its stream leaves a closed address.
LEMMA ConnLose ==
  ASSUME IInv, ConnInv, NEW w \in Worker, LoseSocket(w), sock[w] \in Addr,
         UNCHANGED <<clients, cores, hpc, gone>>,
         \/ wpc' = [wpc EXCEPT ![w] = "connect"]
         \/ wpc' = [wpc EXCEPT ![w] = "exited"]
  PROVE  ConnInv'
<1> USE DEF IInv, TypeOK, NetworkTypeOK, GuideTypeOK, WorkerTypeOK, ConnInv,
            SockInv, LinkInv, SlotInv, LoseSocket, CloseLink
<1>1. SockInv'
  BY NetworkAssumption
<1>2. LinkInv'
  BY NetworkAssumption
<1>3. SlotInv'
  BY NetworkAssumption
<1> QED
  BY <1>1, <1>2, <1>3

\* A worker that connects takes a free address, which no task and no map
\* knows; its other steps keep to its own.
LEMMA ConnWorker ==
  ASSUME IInv, ConnInv, NEW w \in Worker, WorkerStep(w) \/ Drop(w),
         UNCHANGED guideVars
  PROVE  ConnInv'
<1> USE DEF IInv, TypeOK, NetworkTypeOK, GuideTypeOK, WorkerTypeOK, ConnInv,
            SockInv, LinkInv, SlotInv, WorkerGoto, netVars
<1>0. UNCHANGED <<clients, cores, hpc, gone>>
  BY DEF guideVars, sharedVars, taskVars
<1>1. CASE SendCores(w)
  <2>1. sock[w] \in Addr
    BY <1>1 DEF SendCores, WorkerInv
  <2>2. SockInv' /\ LinkInv'
    BY <1>0, <1>1, <2>1, NetworkAssumption DEF SendCores
  <2>3. SlotInv'
    BY <1>0, <1>1, <2>1, NetworkAssumption DEF SendCores
  <2> QED
    BY <2>2, <2>3
<1>2. CASE ReadWork(w)
  <2>1. sock[w] \in Addr /\ link[sock[w]] = "open"
    BY <1>2, NetworkAssumption DEF ReadWork, WorkerInv
  <2>2. SockInv'
    BY <1>2, <2>1, NetworkAssumption DEF ReadWork
  <2>3. LinkInv'
    BY <1>0, <1>2, <2>1 DEF ReadWork
  <2>4. SlotInv'
    BY <1>0, <1>2 DEF ReadWork
  <2> QED
    BY <2>2, <2>3, <2>4
<1>3. CASE \E a \in Addr : hpc[a] = "none" /\ Connect(w, a)
  <2> PICK a \in Addr : hpc[a] = "none" /\ Connect(w, a)
    BY <1>3
  <2>1. \A v \in Worker : sock[v] # a
    BY NetworkAssumption DEF Connect, OpenLink
  <2>2. sock[w] = NoAddr /\ cores[a] = 0 /\ hello[a] = 0
    BY DEF Connect, OpenLink
  <2> QED
    BY <1>0, <2>1, <2>2, NetworkAssumption DEF Connect, OpenLink
<1>4. CASE \E d \in Difficulty : Answer(w, d)
  BY <1>0, <1>4 DEF Answer, MineAndSend
<1>5. CASE ConnectRefused(w)
  BY <1>0, <1>5 DEF ConnectRefused
<1>6. CASE DividePanic(w) \/ GuideLost(w) \/ Drop(w)
  <2>1. sock[w] \in Addr
    BY <1>6 DEF DividePanic, GuideLost, Drop, WorkerInv
  <2>2. /\ LoseSocket(w)
        /\ \/ wpc' = [wpc EXCEPT ![w] = "connect"]
           \/ wpc' = [wpc EXCEPT ![w] = "exited"]
    BY <1>6 DEF DividePanic, GuideLost, Drop
  <2> QED
    BY <1>0, <2>1, <2>2, ConnLose
<1> QED
  BY <1>1, <1>2, <1>3, <1>4, <1>5, <1>6 DEF WorkerStep
-----------------------------------------------------------------------------
(***************************************************************************)
(* The dispatch loop.                                                      *)
(***************************************************************************)

\* Main's copies of the challenge are some that the chain has had.
LEMMA LoopMain ==
  ASSUME IInv, LoopInv, MainStep
  PROVE  LoopInv'
<1> USE DEF IInv, TypeOK, GuideTypeOK, LoopInv, Dispatching, MainGoto,
            Challenge
<1>1. CASE \E a \in Addr : Accept(a)
  BY <1>1 DEF Accept, mainVars, sharedVars
<1>2. CASE (\E a \in Addr : DispatchWrite(a)) \/ LockClients \/ MarkMining
             \/ DispatchDone
  BY <1>2 DEF DispatchWrite, LockClients, MarkMining, DispatchDone, sharedVars
<1>3. CASE Notified \/ WokenStart \/ WokenSend \/ WokenWait
  BY <1>3 DEF Notified, WokenStart, WokenSend, WokenWait
<1>4. CASE \E seen \in Challenge : FetchProof(seen)
  BY <1>4, NetworkAssumption DEF FetchProof, Readable
<1>5. CASE FetchAgain \/ GetClock \/ ClockPanic
  BY <1>5, NetworkAssumption DEF FetchAgain, GetClock, ClockPanic, dispatchVars, sharedVars
<1>6. CASE ResendSetSend \/ MainNotify("resendWake") \/ MainNotify("startWake")
             \/ TakeSolution \/ UnwrapPanic \/ ResetBest \/ SetStart
  BY <1>6 DEF ResendSetSend, MainNotify, TakeSolution, UnwrapPanic, ResetBest,
     SetStart
<1>7. CASE SubmitConfirmed \/ SubmitRejected
             \/ \E sent \in BOOLEAN : SubmitGivesUp(sent)
  BY <1>7 DEF SubmitConfirmed, SubmitRejected, SubmitGivesUp, SubmitReturns
<1> QED
  BY <1>1, <1>2, <1>3, <1>4, <1>5, <1>6, <1>7 DEF MainStep

\* With reads that are up to date they only grow, each behind the next.
LEMMA FreshMain ==
  ASSUME ~LaggingNodes, IInv, LoopInv, FreshInv, MainStep
  PROVE  FreshInv'
<1> USE DEF IInv, TypeOK, GuideTypeOK, LoopInv, FreshInv, Dispatching, MainGoto,
            Challenge
<1>1. CASE \E a \in Addr : Accept(a)
  BY <1>1 DEF Accept, mainVars, sharedVars
<1>2. CASE (\E a \in Addr : DispatchWrite(a)) \/ LockClients \/ MarkMining
             \/ DispatchDone
  BY <1>2 DEF DispatchWrite, LockClients, MarkMining, DispatchDone, sharedVars
<1>3. CASE Notified \/ WokenStart \/ WokenSend \/ WokenWait
  BY <1>3 DEF Notified, WokenStart, WokenSend, WokenWait
<1>4. CASE \E seen \in Challenge : FetchProof(seen)
  BY <1>4, NetworkAssumption DEF FetchProof, Readable
<1>5. CASE FetchAgain \/ GetClock \/ ClockPanic
  BY <1>5, NetworkAssumption DEF FetchAgain, GetClock, ClockPanic, dispatchVars, sharedVars
<1>6. CASE ResendSetSend \/ MainNotify("resendWake") \/ MainNotify("startWake")
             \/ TakeSolution \/ UnwrapPanic \/ ResetBest \/ SetStart
  BY <1>6 DEF ResendSetSend, MainNotify, TakeSolution, UnwrapPanic, ResetBest,
     SetStart
<1>7. CASE SubmitConfirmed \/ SubmitRejected
             \/ \E sent \in BOOLEAN : SubmitGivesUp(sent)
  BY <1>7 DEF SubmitConfirmed, SubmitRejected, SubmitGivesUp, SubmitReturns
<1> QED
  BY <1>1, <1>2, <1>3, <1>4, <1>5, <1>6, <1>7 DEF MainStep

\* While main hands out, no task changes the map, the total, or the cores of
\* a client: it waits for the guards that the loop holds.
LEMMA DispatchFreezes ==
  ASSUME IInv, NEW a \in Addr, TaskStep(a), Dispatching
  PROVE  /\ UNCHANGED <<clients, total_cores>>
         /\ Counted' = Counted
         /\ \A c \in clients : cores'[c] = cores[c]
<1> USE DEF IInv, TypeOK, GuideTypeOK, TaskInv, TaskGoto
<1>1. CASE Hello(a)
  BY <1>1 DEF Hello, Counted
<1>2. CASE InsertClient(a) \/ CountCores(a) \/ LeaveClients(a)
  BY <1>2 DEF InsertClient, CountCores, LeaveClients, ClientsLocked
<1>3. CASE ~(Hello(a) \/ InsertClient(a) \/ CountCores(a) \/ LeaveClients(a))
  <2>1. UNCHANGED <<clients, cores, total_cores>>
    BY <1>3 DEF TaskStep, HelloEof, Receive, ReceiveEof, SetBest, SetSolution,
       Finish, SetSend, Wake, DrainExit, SetWait, WaitWake, sharedVars
  <2>2. \E to \in TaskPc \ {"count"} :
          hpc[a] # "count" /\ hpc' = [hpc EXCEPT ![a] = to]
    BY <1>3 DEF TaskStep, HelloEof, Receive, ReceiveEof, SetBest, SetSolution,
       Finish, SetSend, Wake, DrainExit, SetWait, WaitWake, AfterMessage,
       TaskPc
  <2>3. Counted' = Counted
    BY <2>1, <2>2 DEF Counted
  <2> QED
    BY <2>1, <2>3
<1> QED
  BY <1>1, <1>2, <1>3

\* Every step that is not main's leaves the loop's variables alone.
LEMMA LoopOthers ==
  ASSUME IInv, LoopInv,
         UNCHANGED <<mainVars, chain>>,
         Dispatching => UNCHANGED clients
  PROVE  LoopInv'
BY DEF LoopInv, Dispatching, mainVars, dispatchVars
-----------------------------------------------------------------------------
(***************************************************************************)
(* Orders.                                                                 *)
(***************************************************************************)

\* What a worker holds are orders.
LEMMA OrdersAreWork ==
  ASSUME NetworkTypeOK, WorkerTypeOK, NEW w \in Worker
  PROVE  Orders(w) \subseteq Work
<1> USE DEF NetworkTypeOK, WorkerTypeOK
<1>1. job[w] # NoWork => job[w] \in Work
  OBVIOUS
<1>2. sock[w] # NoAddr => Range(toWorker[sock[w]]) \subseteq Work
  <2> SUFFICES ASSUME sock[w] # NoAddr,
                      NEW i \in DOMAIN toWorker[sock[w]]
               PROVE  toWorker[sock[w]][i] \in Work
    BY DEF Range
  <2>1. toWorker[sock[w]] \in Seq(Work)
    OBVIOUS
  <2> QED
    BY <2>1
<1> QED
  BY <1>1, <1>2 DEF Orders

\* A step that neither adds an order nor moves the loop keeps the slices.
LEMMA FewerOrders ==
  ASSUME SliceInv, WorkDisjoint,
         UNCHANGED <<mpc, proof, last_hash_at, offset, cur>>,
         \A w \in Worker : Orders(w)' \subseteq Orders(w),
         \A w \in Worker : Orders(w)' # {} => sock'[w] = sock[w]
  PROVE  SliceInv' /\ WorkDisjoint'
<1>1. SliceInv'
  BY DEF SliceInv, Handed, Dispatching
<1>2. WorkDisjoint'
  BY DEF WorkDisjoint
<1> QED
  BY <1>1, <1>2

\* The queue of a fresh or closed connection is empty.
LEMMA RangeEmpty == Range(<<>>) = {}
BY DEF Range

\* Reading takes the oldest order from the queue.
LEMMA RangeTail ==
  ASSUME NEW S, NEW s \in Seq(S), s # <<>>
  PROVE  Head(s) \in Range(s) /\ Range(Tail(s)) \subseteq Range(s)
<1>1. Head(s) \in Range(s)
  BY DEF Range
<1>2. ASSUME NEW i \in DOMAIN Tail(s) PROVE Tail(s)[i] \in Range(s)
  <2>1. Tail(s)[i] = s[i + 1] /\ i + 1 \in DOMAIN s
    OBVIOUS
  <2> QED
    BY <2>1 DEF Range
<1> QED
  BY <1>1, <1>2 DEF Range

\* Writing adds one order to it.
LEMMA RangeAppend ==
  ASSUME NEW S, NEW s \in Seq(S), NEW x \in S
  PROVE  Range(Append(s, x)) = Range(s) \cup {x}
<1>1. Append(s, x) \in Seq(S) /\ DOMAIN Append(s, x) = 1..(Len(s) + 1)
  OBVIOUS
<1>2. \A i \in DOMAIN s : Append(s, x)[i] = s[i]
  OBVIOUS
<1>3. Append(s, x)[Len(s) + 1] = x
  OBVIOUS
<1>4. Range(Append(s, x)) \subseteq Range(s) \cup {x}
  <2> SUFFICES ASSUME NEW i \in 1..(Len(s) + 1)
               PROVE  Append(s, x)[i] \in Range(s) \cup {x}
    BY <1>1 DEF Range
  <2>1. CASE i = Len(s) + 1
    BY <1>3, <2>1
  <2>2. CASE i # Len(s) + 1
    BY <1>2, <2>2 DEF Range
  <2> QED
    BY <2>1, <2>2
<1>5. Range(s) \subseteq Range(Append(s, x))
  BY <1>1, <1>2 DEF Range
<1>6. x \in Range(Append(s, x))
  BY <1>1, <1>3 DEF Range
<1> QED
  BY <1>4, <1>5, <1>6

\* Workers only use orders up or lose them.
LEMMA OrdersWorker ==
  ASSUME IInv, ConnInv, NEW w \in Worker, WorkerStep(w) \/ Drop(w)
  PROVE  \A v \in Worker :
           Orders(v)' \subseteq Orders(v) /\ (Orders(v)' # {} => sock'[v] = sock[v])
<1> SUFFICES ASSUME NEW v \in Worker
             PROVE  /\ Orders(v)' \subseteq Orders(v)
                    /\ Orders(v)' # {} => sock'[v] = sock[v]
  OBVIOUS
<1> USE DEF IInv, TypeOK, NetworkTypeOK, WorkerTypeOK, WorkerGoto, netVars,
            Orders
<1>1. CASE SendCores(w) \/ ConnectRefused(w)
  BY <1>1 DEF SendCores, ConnectRefused
<1>2. CASE ReadWork(w)
  <2> DEFINE q == toWorker[sock[w]]
  <2>1. sock[w] \in Addr /\ q \in Seq(Work) /\ q # <<>>
    BY <1>2 DEF ReadWork, WorkerInv
  <2>2. Head(q) \in Range(q) /\ Range(Tail(q)) \subseteq Range(q)
    BY <2>1, RangeTail
  <2>3. /\ job' = [job EXCEPT ![w] = Head(q)]
        /\ toWorker' = [toWorker EXCEPT ![sock[w]] = Tail(q)]
        /\ sock' = sock
    BY <1>2 DEF ReadWork
  <2>4. sock[w] # NoAddr
    BY <2>1, NetworkAssumption
  <2> HIDE DEF q
  <2>5. CASE sock[v] = sock[w]
    <3>1. v = w
      BY <2>4, <2>5 DEF ConnInv, SockInv
    <3> QED
      BY <2>1, <2>2, <2>3, <2>4, <3>1 DEF q
  <2>6. CASE sock[v] # sock[w]
    <3>1. v # w /\ job'[v] = job[v]
      BY <2>3, <2>6
    <3>2. sock[v] # NoAddr => toWorker'[sock[v]] = toWorker[sock[v]]
      BY <2>3, <2>6
    <3> QED
      BY <2>3, <3>1, <3>2
  <2> QED
    BY <2>5, <2>6
<1>3. CASE \E a \in Addr : hpc[a] = "none" /\ Connect(w, a)
  <2> PICK a \in Addr : hpc[a] = "none" /\ Connect(w, a)
    BY <1>3
  <2>1. job[w] = NoWork /\ toWorker[a] = <<>>
    BY DEF Connect, OpenLink, ConnInv, SockInv, LinkInv
  <2>2. CASE v = w
    BY <2>1, <2>2, RangeEmpty DEF Connect
  <2>3. CASE v # w
    BY <2>3 DEF Connect
  <2> QED
    BY <2>2, <2>3
<1>4. CASE \E d \in Difficulty : Answer(w, d)
  BY <1>4 DEF Answer, MineAndSend
<1>5. CASE DividePanic(w) \/ GuideLost(w) \/ Drop(w)
  <2>1. /\ sock' = [sock EXCEPT ![w] = NoAddr]
        /\ job' = [job EXCEPT ![w] = NoWork]
        /\ toWorker' = [toWorker EXCEPT ![sock[w]] = <<>>]
    BY <1>5 DEF DividePanic, GuideLost, Drop, LoseSocket, CloseLink
  <2>2. CASE v = w
    BY <2>1, <2>2
  <2>3. CASE v # w
    BY <2>1, <2>3, RangeEmpty
  <2> QED
    BY <2>2, <2>3
<1> QED
  BY <1>1, <1>2, <1>3, <1>4, <1>5 DEF WorkerStep

\* So do the tasks, which free the queues of closed connections.
LEMMA OrdersTask ==
  ASSUME IInv, NEW a \in Addr, TaskStep(a), UNCHANGED workerVars
  PROVE  \A v \in Worker :
           Orders(v)' \subseteq Orders(v) /\ (Orders(v)' # {} => sock'[v] = sock[v])
<1> USE DEF IInv, TypeOK, NetworkTypeOK, WorkerTypeOK, workerVars, netVars,
            Orders
<1>1. toWorker' = toWorker \/ toWorker' = [toWorker EXCEPT ![a] = <<>>]
  BY DEF TaskStep, Hello, HelloEof, InsertClient, CountCores, Receive,
     ReceiveEof, SetBest, SetSolution, Finish, SetSend, Wake, LeaveClients,
     DrainExit, SetWait, WaitWake, EndTask, FreeLink
<1>2. CASE toWorker' = toWorker
  BY <1>2
<1>3. CASE toWorker' = [toWorker EXCEPT ![a] = <<>>]
  BY <1>3, RangeEmpty
<1> QED
  BY <1>1, <1>2, <1>3
-----------------------------------------------------------------------------
(***************************************************************************)
(* Main hands out disjoint slices.                                         *)
(***************************************************************************)

\* The order just written starts where all older ones of its challenge end.
LEMMA SliceWrite ==
  ASSUME IInv, DispatchInv, ShareInv, NEW a \in Addr, DispatchWrite(a),
         UNCHANGED workerVars
  PROVE  SliceInv' /\ WorkDisjoint'
<1> DEFINE order == [challenge |-> proof, offset |-> offset,
                     total |-> total_cores]
<1>1. /\ mpc = "dispatch" /\ mpc' = "mark" /\ cur' = a
      /\ UNCHANGED <<proof, offset, sock, job>>
  BY DEF DispatchWrite, MainGoto, workerVars
<1>2. offset \in Nat /\ proof \in Nat /\ order \in Work
      /\ \A w \in Worker : NumCores[w] \in Nat
  <2>1. offset \in Nat /\ proof \in Challenge /\ total_cores \in Nat
    BY <1>1 DEF IInv, TypeOK, GuideTypeOK, MainInv
  <2>2. order \in Work
    BY <2>1 DEF Work
  <2>3. proof \in Nat
    BY <2>1, NetworkAssumption DEF Challenge
  <2>4. \A w \in Worker : NumCores[w] \in Nat
    BY NetworkAssumption, WorkerAssumption
  <2> QED
    BY <2>1, <2>2, <2>3, <2>4
<1>3. \A w \in Worker :
        Orders(w)' \subseteq Orders(w) \cup (IF sock[w] = a THEN {order} ELSE {})
  <2> SUFFICES ASSUME NEW w \in Worker
               PROVE  Orders(w)' \subseteq
                        Orders(w) \cup (IF sock[w] = a THEN {order} ELSE {})
    OBVIOUS
  <2>1. toWorker[a] \in Seq(Work)
    BY DEF IInv, TypeOK, NetworkTypeOK
  <2>2. Range(Append(toWorker[a], order)) = Range(toWorker[a]) \cup {order}
    BY <1>2, <2>1, RangeAppend
  <2>3. \/ toWorker' = toWorker
        \/ toWorker' = [toWorker EXCEPT ![a] = Append(toWorker[a], order)]
    BY DEF DispatchWrite, Deliver
  <2> HIDE DEF order
  <2>4. CASE toWorker' = toWorker
    BY <1>1, <2>4 DEF Orders
  <2>5. CASE toWorker' = [toWorker EXCEPT ![a] = Append(toWorker[a], order)]
    <3>1. toWorker'[a] = Append(toWorker[a], order)
      BY <2>5 DEF IInv, TypeOK, NetworkTypeOK
    <3>2. sock[w] # a /\ sock[w] # NoAddr =>
            toWorker'[sock[w]] = toWorker[sock[w]]
      BY <2>5 DEF IInv, TypeOK, NetworkTypeOK, WorkerTypeOK
    <3> QED
      BY <1>1, <2>2, <3>1, <3>2 DEF Orders
  <2> QED
    BY <2>3, <2>4, <2>5
<1>4. ASSUME NEW w \in Worker, NEW x \in Orders(w)
      PROVE  /\ x.challenge <= proof
             /\ x.challenge = proof => x.offset + NumCores[w] <= offset
  BY <1>1 DEF ShareInv, SliceInv, Handed, Dispatching
<1>5. ASSUME NEW v \in Worker, NEW w \in Worker, sock[v] = a, sock[w] = a
      PROVE  v = w
  BY <1>5, NetworkAssumption DEF DispatchInv, ConnInv, SockInv
<1>6. order.challenge = proof /\ order.offset = offset
  OBVIOUS
<1> HIDE DEF order
<1>7. SliceInv'
  <2> SUFFICES ASSUME NEW w \in Worker, NEW x \in Orders(w)'
               PROVE  /\ x.challenge <= proof
                      /\ x.challenge = proof =>
                           \/ x.offset + NumCores[w] <= offset
                           \/ sock[w] = a /\ x.offset = offset
    BY <1>1 DEF SliceInv, Handed, Dispatching
  <2>1. CASE x \in Orders(w)
    BY <1>4, <2>1
  <2>2. CASE x = order /\ sock[w] = a
    BY <1>2, <1>6, <2>2
  <2> QED
    BY <1>3, <2>1, <2>2
<1>8. WorkDisjoint'
  <2> SUFFICES ASSUME NEW v \in Worker, NEW w \in Worker,
                      NEW x \in Orders(v)', NEW y \in Orders(w)',
                      v # w, x.challenge = y.challenge
               PROVE  \/ x.offset + NumCores[v] <= y.offset
                      \/ y.offset + NumCores[w] <= x.offset
    BY DEF WorkDisjoint
  <2>1. CASE x \in Orders(v) /\ y \in Orders(w)
    BY <2>1 DEF ShareInv, WorkDisjoint
  <2>2. CASE x \in Orders(v) /\ y = order
    BY <1>4, <1>6, <2>2
  <2>3. CASE x = order /\ y \in Orders(w)
    BY <1>4, <1>6, <2>3
  <2>4. CASE sock[v] = a /\ sock[w] = a
    BY <1>5, <2>4
  <2> QED
    BY <1>3, <2>1, <2>2, <2>3, <2>4
<1> QED
  BY <1>7, <1>8

\* The offset moves past the slice of the client just written to: the map's
\* core count of that address is its worker's.
LEMMA SliceMark ==
  ASSUME IInv, DispatchInv, ShareInv, MarkMining, UNCHANGED workerVars
  PROVE  SliceInv' /\ WorkDisjoint'
<1>1. /\ mpc = "mark" /\ mpc' = "dispatch" /\ offset' = offset + cores[cur]
      /\ UNCHANGED <<proof, last_hash_at, sock, job, toWorker>>
  BY DEF MarkMining, NextOffset, MainGoto, netVars, workerVars
<1>2. cur \in clients /\ cur \in Addr
  BY <1>1 DEF IInv, MainInv, DispatchInv, LoopInv, Dispatching
<1>3. cores[cur] \in Nat /\ offset \in Nat
  <2>1. cores[cur] \in {0} \cup Cores /\ offset \in Nat
    BY <1>2 DEF IInv, TypeOK, GuideTypeOK
  <2> QED
    BY <2>1, CoresNat
<1>4. \A w \in Worker : Orders(w)' = Orders(w)
  BY <1>1 DEF Orders
<1>5. \A w \in Worker : sock[w] = cur => cores[cur] = NumCores[w]
  BY <1>2, NetworkAssumption DEF DispatchInv, ConnInv, SlotInv
<1>6. \A w \in Worker : NumCores[w] \in Nat
  BY NetworkAssumption, WorkerAssumption
<1>7. SliceInv'
  <2> SUFFICES ASSUME NEW w \in Worker, NEW x \in Orders(w)
               PROVE  /\ x.challenge <= proof
                      /\ x.challenge = proof =>
                           x.offset + NumCores[w] <= offset + cores[cur]
    BY <1>1, <1>4 DEF SliceInv, Handed, Dispatching
  <2>1. x.offset \in Nat
    BY OrdersAreWork DEF IInv, TypeOK, Work
  <2>2. /\ x.challenge <= proof
        /\ x.challenge = proof => \/ x.offset + NumCores[w] <= offset
                                  \/ sock[w] = cur /\ x.offset = offset
    BY <1>1 DEF ShareInv, SliceInv, Handed, Dispatching
  <2> QED
    BY <1>3, <1>5, <1>6, <2>1, <2>2
<1>8. WorkDisjoint'
  BY <1>4 DEF ShareInv, WorkDisjoint
<1> QED
  BY <1>7, <1>8

\* A new round is for a challenge that no order has yet, and outside of a
\* round main writes no orders.
LEMMA SliceMain ==
  ASSUME IInv, DispatchInv, ShareInv, MainStep, UNCHANGED workerVars
  PROVE  SliceInv' /\ WorkDisjoint'
<1>1. CASE \E a \in Addr : DispatchWrite(a)
  BY <1>1, SliceWrite
<1>2. CASE MarkMining
  BY <1>2, SliceMark
<1>3. CASE ~(MarkMining \/ \E a \in Addr : DispatchWrite(a))
  <2>1. UNCHANGED <<toWorker, sock, job>>
    BY <1>3 DEF MainStep, Accept, Notified, WokenStart, WokenSend, WokenWait,
       FetchProof, FetchAgain, GetClock, ClockPanic, ResendSetSend,
       MainNotify, LockClients, DispatchDone, TakeSolution, UnwrapPanic,
       SubmitConfirmed, SubmitRejected, SubmitGivesUp, SubmitReturns,
       ResetBest, SetStart, workerVars, netVars
  <2>2. \A w \in Worker : Orders(w)' = Orders(w)
    BY <2>1 DEF Orders
  <2>3. WorkDisjoint'
    BY <2>2 DEF ShareInv, WorkDisjoint
  <2>4. \A w \in Worker : \A x \in Orders(w) :
          x.challenge \in Nat /\ x.challenge <= Handed
    BY OrdersAreWork DEF IInv, TypeOK, Work, Challenge, ShareInv, SliceInv
  <2>5. CASE LockClients
    <3>1. /\ ~Dispatching /\ Handed = last_hash_at /\ Handed' = proof
          /\ last_hash_at < proof
      BY <2>5 DEF LockClients, MainGoto, Handed, Dispatching, ShareInv,
         FreshInv
    <3>2. \A w \in Worker : \A x \in Orders(w) :
            x.challenge <= proof /\ x.challenge # proof
      BY <2>4, <3>1, NetworkAssumption DEF IInv, TypeOK, GuideTypeOK, Challenge
    <3>3. proof' = proof
      BY <2>5 DEF LockClients
    <3> QED
      BY <2>2, <2>3, <3>1, <3>2, <3>3 DEF SliceInv
  <2>6. CASE ~LockClients
    <3>1. ~Dispatching' /\ Handed' = Handed
      BY <1>3, <2>6 DEF MainStep, Accept, Notified, WokenStart, WokenSend,
         WokenWait, FetchProof, FetchAgain, GetClock, ClockPanic,
         ResendSetSend, MainNotify, DispatchDone, TakeSolution, UnwrapPanic,
         SubmitConfirmed, SubmitRejected, SubmitGivesUp, SubmitReturns,
         ResetBest, SetStart, MainGoto, mainVars, Dispatching, Handed
    <3> QED
      BY <2>2, <2>3, <2>4, <3>1 DEF SliceInv
  <2> QED
    BY <2>5, <2>6
<1> QED
  BY <1>1, <1>2, <1>3

\* Every step keeps the invariant.
LEMMA NextDispatch == IInv /\ DispatchInv /\ [Next]_vars => DispatchInv'
<1> SUFFICES ASSUME IInv, DispatchInv, [Next]_vars PROVE DispatchInv'
  OBVIOUS
<1> USE DEF DispatchInv
<1>1. CASE MainStep /\ UNCHANGED workerVars
  BY <1>1, ConnMain, LoopMain
<1>2. CASE TxLands /\ UNCHANGED workerVars
  <2>1. ConnInv'
    BY <1>2 DEF TxLands, ConnInv, SockInv, LinkInv, SlotInv, netVars,
       sharedVars, taskVars, workerVars
  <2>2. LoopInv'
    BY <1>2, NetworkAssumption DEF TxLands, LoopInv, Dispatching, sharedVars,
       dispatchVars, IInv, TypeOK, GuideTypeOK, Challenge
  <2> QED
    BY <2>1, <2>2
<1>3. ASSUME NEW a \in Addr, TaskStep(a), UNCHANGED workerVars
      PROVE  DispatchInv'
  <2>1. ConnInv'
    BY <1>3, ConnTask
  <2>2. UNCHANGED <<mainVars, chain>>
    BY <1>3 DEF TaskStep, Hello, HelloEof, InsertClient, CountCores, Receive,
       ReceiveEof, SetBest, SetSolution, Finish, SetSend, Wake, LeaveClients,
       DrainExit, SetWait, WaitWake
  <2>3. LoopInv'
    BY <1>3, <2>2, LoopOthers, DispatchFreezes
  <2> QED
    BY <2>1, <2>3
<1>4. ASSUME NEW w \in Worker, WorkerStep(w) \/ Drop(w), UNCHANGED guideVars
      PROVE  DispatchInv'
  <2>1. ConnInv'
    BY <1>4, ConnWorker
  <2>2. LoopInv'
    BY <1>4, LoopOthers DEF guideVars, sharedVars
  <2> QED
    BY <2>1, <2>2
<1>5. CASE UNCHANGED vars
  <2> USE <1>5 DEF vars, netVars, guideVars, workerVars, sharedVars, mainVars,
          dispatchVars, taskVars
  <2>1. ConnInv'
    BY DEF ConnInv, SockInv, LinkInv, SlotInv
  <2>2. LoopInv'
    BY DEF LoopInv, Dispatching
  <2> QED
    BY <2>1, <2>2
<1> QED
  BY <1>1, <1>2, <1>3, <1>4, <1>5 DEF Next, GuideStep

\* ... and, with reads that are up to date, the slices disjoint.
LEMMA NextShare ==
  ASSUME ~LaggingNodes
  PROVE  IInv /\ DispatchInv /\ ShareInv /\ [Next]_vars => ShareInv'
<1> SUFFICES ASSUME IInv, DispatchInv, ShareInv, [Next]_vars PROVE ShareInv'
  OBVIOUS
<1> USE DEF DispatchInv, ShareInv
<1>1. CASE MainStep /\ UNCHANGED workerVars
  BY <1>1, FreshMain, SliceMain
<1>2. CASE ~(MainStep /\ UNCHANGED workerVars)
  <2>1. UNCHANGED <<mpc, proof, last_hash_at, offset, cur>>
    BY <1>2 DEF Next, GuideStep, TxLands, TaskStep, Hello, HelloEof,
       InsertClient, CountCores, Receive, ReceiveEof, SetBest, SetSolution,
       Finish, SetSend, Wake, LeaveClients, DrainExit, SetWait, WaitWake, vars,
       guideVars, mainVars, dispatchVars
  <2>2. FreshInv'
    BY <2>1 DEF FreshInv
  <2>3. CASE \E a \in Addr : TaskStep(a) /\ UNCHANGED workerVars
    BY <2>1, <2>2, <2>3, OrdersTask, FewerOrders
  <2>4. CASE \E w \in Worker : (WorkerStep(w) \/ Drop(w)) /\ UNCHANGED guideVars
    BY <2>1, <2>2, <2>4, OrdersWorker, FewerOrders
  <2>5. CASE (TxLands /\ UNCHANGED workerVars) \/ UNCHANGED vars
    <3>1. \A w \in Worker : Orders(w)' = Orders(w) /\ sock'[w] = sock[w]
      BY <2>5 DEF TxLands, Orders, netVars, workerVars, vars
    <3> QED
      BY <2>1, <2>2, <3>1, FewerOrders
  <2> QED
    BY <1>2, <2>3, <2>4, <2>5 DEF Next, GuideStep
<1> QED
  BY <1>1, <1>2

\* Two workers never hold overlapping slices of a challenge, whoever joins,
\* drops out or answers while the loop writes: process_mining_data's offset
\* and the core counts of the connections agree.  The node that the proof is
\* read from must be up to date: a challenge that is handed out again is cut
\* anew, while somebody may still be at the first cut.
THEOREM WorkDisjointCorrect ==
  ASSUME ~LaggingNodes
  PROVE  Spec => []WorkDisjoint
BY Inductive, InitDispatch, NextDispatch, NextShare, PTL DEF Spec, ShareInv
-----------------------------------------------------------------------------
(***************************************************************************)
(* The slices tile the total.                                              *)
(***************************************************************************)

\* The sums over disjoint sets of clients add up.
LEMMA CoreSlotsUnion ==
  ASSUME NEW C, NEW D, IsFiniteSet(C), IsFiniteSet(D), C \cap D = {}, NEW k,
         \A c \in C \cup D : k[c] \in Nat
  PROVE  Cardinality(CoreSlots(C \cup D, k)) =
           Cardinality(CoreSlots(C, k)) + Cardinality(CoreSlots(D, k))
<1>1. CoreSlots(C \cup D, k) = CoreSlots(C, k) \cup CoreSlots(D, k)
  BY DEF CoreSlots
<1>2. CoreSlots(C, k) \cap CoreSlots(D, k) = {}
  BY DEF CoreSlots
<1>3. IsFiniteSet(CoreSlots(C, k)) /\ IsFiniteSet(CoreSlots(D, k))
  BY CoreSlotsFinite
<1>4. /\ Cardinality(CoreSlots(C, k)) \in Nat
      /\ Cardinality(CoreSlots(D, k)) \in Nat
  BY <1>3, FS_CardinalityType
<1>5. Cardinality(CoreSlots(C, k) \cup CoreSlots(D, k)) =
        Cardinality(CoreSlots(C, k)) + Cardinality(CoreSlots(D, k))
          - Cardinality(CoreSlots(C, k) \cap CoreSlots(D, k))
  BY <1>3, FS_Union
<1>6. Cardinality(CoreSlots(C, k) \cap CoreSlots(D, k)) = 0
  BY <1>2, FS_EmptySet
<1>7. Cardinality(CoreSlots(C, k) \cup CoreSlots(D, k)) =
        Cardinality(CoreSlots(C, k)) + Cardinality(CoreSlots(D, k))
  BY <1>4, <1>5, <1>6
<1> QED
  BY <1>1, <1>7

\* The loop starts with all clients before it ...
LEMMA TileLock ==
  ASSUME IInv, LockClients
  PROVE  SharesTile'
<1>1. /\ todo' = clients /\ offset' = 0
      /\ UNCHANGED <<clients, cores, total_cores, hpc>>
  BY DEF LockClients, sharedVars, taskVars
<1>2. Counted \subseteq clients /\ clients \subseteq Addr
  BY DEF Counted, IInv, TypeOK, GuideTypeOK
<1>3. IsFiniteSet(Counted) /\ IsFiniteSet(clients \ Counted)
  BY <1>2, NetworkAssumption, FS_Subset
<1>4. \A c \in clients : cores[c] \in Nat
  BY <1>2, CoresNat DEF IInv, TypeOK, GuideTypeOK
<1>5. Cardinality(CoreSlots(Counted \cup (clients \ Counted), cores)) =
        Cardinality(CoreSlots(Counted, cores))
          + Cardinality(CoreSlots(clients \ Counted, cores))
  BY <1>2, <1>3, <1>4, CoreSlotsUnion
<1>6. Counted \cup (clients \ Counted) = clients
  BY <1>2
<1>7. total_cores = Cardinality(CoreSlots(Counted, cores))
  BY DEF IInv, CoreInv, TotalCoresExact
<1>8. IsFiniteSet(CoreSlots(clients, cores))
  BY <1>2, <1>4, NetworkAssumption, FS_Subset, CoreSlotsFinite
<1>9. Cardinality(CoreSlots(clients, cores)) \in Nat
  BY <1>8, FS_CardinalityType
<1>10. 0 + Cardinality(CoreSlots(clients, cores)) =
         total_cores + Cardinality(CoreSlots(clients \ Counted, cores))
  BY <1>5, <1>6, <1>7, <1>9
<1>11. CoreSlots(todo, cores)' = CoreSlots(clients, cores)
       /\ CoreSlots(clients \ Counted, cores)' =
            CoreSlots(clients \ Counted, cores)
  BY <1>1 DEF CoreSlots, Counted
<1> QED
  BY <1>1, <1>10, <1>11 DEF SharesTile

\* ... and moves one at a time behind it.
LEMMA TileMark ==
  ASSUME IInv, LoopInv, SharesTile, MarkMining
  PROVE  SharesTile'
<1>1. /\ mpc = "mark" /\ todo' = todo \ {cur} /\ offset' = offset + cores[cur]
      /\ UNCHANGED <<clients, cores, total_cores, hpc>>
  BY DEF MarkMining, NextOffset, MainGoto, taskVars
<1>2. cur \in todo /\ todo \subseteq clients /\ clients \subseteq Addr
  BY <1>1 DEF LoopInv, Dispatching, IInv, TypeOK, GuideTypeOK
<1>3. /\ \A c \in todo : cores[c] \in Nat
      /\ offset \in Nat
  BY <1>2, CoresNat DEF IInv, TypeOK, GuideTypeOK
<1> DEFINE rest == todo \ {cur}
<1>4. IsFiniteSet(rest) /\ cur \notin rest /\ rest \cup {cur} = todo
  BY <1>2, NetworkAssumption, FS_Subset
<1> HIDE DEF rest
<1>5. Cardinality(CoreSlots(todo, cores)) =
        Cardinality(CoreSlots(rest, cores)) + cores[cur]
  <2>1. \A c \in rest \cup {cur} : cores[c] \in Nat
    BY <1>3, <1>4
  <2>2. Cardinality(CoreSlots(rest \cup {cur}, cores)) =
          Cardinality(CoreSlots(rest, cores)) + cores[cur]
    BY <1>4, <2>1, CoreSlotsAdd
  <2> QED
    BY <1>4, <2>2
<1>6. Cardinality(CoreSlots(rest, cores)) \in Nat
  <2>1. \A c \in rest : cores[c] \in Nat
    BY <1>3, <1>4
  <2>2. IsFiniteSet(CoreSlots(rest, cores))
    BY <1>4, <2>1, CoreSlotsFinite
  <2> QED
    BY <2>2, FS_CardinalityType
<1>7. (offset + cores[cur]) + Cardinality(CoreSlots(rest, cores)) =
        offset + Cardinality(CoreSlots(todo, cores))
  <2>1. cores[cur] \in Nat
    BY <1>2, <1>3
  <2> QED
    BY <1>3, <1>5, <1>6, <2>1
<1>8. offset + Cardinality(CoreSlots(todo, cores)) =
        total_cores + Cardinality(CoreSlots(clients \ Counted, cores))
  BY <1>1 DEF SharesTile, Dispatching
<1>9. CoreSlots(todo, cores)' = CoreSlots(rest, cores)
      /\ CoreSlots(clients \ Counted, cores)' =
           CoreSlots(clients \ Counted, cores)
  BY <1>1 DEF CoreSlots, Counted, rest
<1> QED
  BY <1>1, <1>7, <1>8, <1>9 DEF SharesTile

\* A step that is not main's neither moves the loop nor touches its sums.
LEMMA TileTask ==
  ASSUME IInv, LoopInv, SharesTile, NEW a \in Addr, TaskStep(a),
         UNCHANGED mainVars
  PROVE  SharesTile'
<1> SUFFICES ASSUME Dispatching PROVE SharesTile'
  BY DEF SharesTile, Dispatching, mainVars
<1>1. /\ UNCHANGED <<clients, total_cores>> /\ Counted' = Counted
      /\ \A c \in clients : cores[c] = cores'[c]
  BY DispatchFreezes
<1>2. UNCHANGED <<todo, offset>> /\ todo \subseteq clients
  BY DEF mainVars, dispatchVars, LoopInv
<1>3. CoreSlots(todo, cores) = CoreSlots(todo, cores')
  BY <1>1, <1>2, CoreSlotsSame
<1>4. CoreSlots(clients \ Counted, cores) = CoreSlots(clients \ Counted, cores')
  BY <1>1, CoreSlotsSame
<1>5. /\ CoreSlots(todo, cores)' = CoreSlots(todo, cores')
      /\ CoreSlots(clients \ Counted, cores)' =
           CoreSlots(clients \ Counted, cores')
  BY <1>1, <1>2 DEF CoreSlots
<1> QED
  BY <1>1, <1>2, <1>3, <1>4, <1>5 DEF SharesTile

\* Main's other steps leave the sums alone, or end the loop.
LEMMA TileMain ==
  ASSUME IInv, LoopInv, SharesTile, MainStep
  PROVE  SharesTile'
<1>1. CASE LockClients
  BY <1>1, TileLock
<1>2. CASE MarkMining
  BY <1>2, TileMark
<1>3. CASE \E a \in Addr : DispatchWrite(a)
  BY <1>3 DEF DispatchWrite, MainGoto, sharedVars, taskVars, SharesTile,
     Dispatching, CoreSlots, Counted
<1>4. CASE ~(LockClients \/ MarkMining \/ \E a \in Addr : DispatchWrite(a))
  <2>1. ~Dispatching'
    BY <1>4 DEF MainStep, Accept, Notified, WokenStart, WokenSend,
       WokenWait, FetchProof, FetchAgain, GetClock, ClockPanic,
       ResendSetSend, MainNotify, DispatchDone, TakeSolution, UnwrapPanic,
       SubmitConfirmed, SubmitRejected, SubmitGivesUp, SubmitReturns,
       ResetBest, SetStart, MainGoto, mainVars, Dispatching
  <2> QED
    BY <2>1 DEF SharesTile
<1> QED
  BY <1>1, <1>2, <1>3, <1>4

\* The slices of a round add up to the total that its orders carry, plus the
\* cores of the clients that are in the map but not yet in total_cores; that
\* excess neither grows nor shrinks while the loop runs.
THEOREM SharesTileCorrect == Spec => []SharesTile
<1>1. Init => SharesTile
  BY DEF Init, GuideInit, SharesTile, Dispatching
<1>2. IInv /\ DispatchInv /\ SharesTile /\ [Next]_vars => SharesTile'
  <2> SUFFICES ASSUME IInv, DispatchInv, SharesTile, [Next]_vars
               PROVE  SharesTile'
    OBVIOUS
  <2>1. LoopInv
    BY DEF DispatchInv
  <2>2. CASE TxLands
    BY <2>2 DEF TxLands, SharesTile, Dispatching, CoreSlots, Counted,
       sharedVars, dispatchVars, taskVars
  <2>3. CASE \E a \in Addr : TaskStep(a)
    <3> PICK a \in Addr : TaskStep(a)
      BY <2>3
    <3>1. UNCHANGED mainVars
      BY DEF TaskStep, Hello, HelloEof, InsertClient, CountCores, Receive,
         ReceiveEof, SetBest, SetSolution, Finish, SetSend, Wake,
         LeaveClients, DrainExit, SetWait, WaitWake
    <3> QED
      BY <2>1, <3>1, TileTask
  <2>4. CASE UNCHANGED guideVars
    BY <2>4 DEF SharesTile, Dispatching, CoreSlots, Counted, guideVars,
       sharedVars, mainVars, dispatchVars, taskVars
  <2> QED
    BY <2>1, <2>2, <2>3, <2>4, TileMain DEF Next, GuideStep, vars, guideVars
<1> QED
  BY <1>1, <1>2, Inductive, InitDispatch, NextDispatch, PTL DEF Spec

-----------------------------------------------------------------------------
(***************************************************************************)
(* An answer is not left lying (NoIdleAnswer), under drops, restarts and   *)
(* early answers.                                                          *)
(***************************************************************************)
\* One task at a time empties the clients map, and never while main is in
\* its dispatch: the clients lock.
LockInv ==
  /\ \A a, b \in Addr : TurningToWait(a) /\ TurningToWait(b) => a = b
  /\ Dispatching => \A a \in Addr : ~TurningToWait(a)

\* Work is outstanding for registered clients only: an order is written to a
\* client of the map, and it leaves the map after the end of its connection.
LeftInv ==
  \A a \in Addr : /\ Outstanding(a) => a \in clients
                  /\ gone[a] => toGuide[a] = <<>>

\* The mode changes under a submission only after the last client has left,
\* so then nothing is outstanding until the next dispatch ...
ArmInv ==
  mpc \in {"unwrap", "submit", "reset", "setStart"} /\ action_type # "Send" =>
    \A a \in Addr : ~Outstanding(a)

\* ... nothing becomes better than main's reset of best_difficulty ...
ResetInv ==
  (/\ mpc = "setStart"
   /\ action_type # "Send" \/ (clients = {} /\ \A a \in Addr : hpc[a] # "drain"))
    => best_difficulty = 0

\* ... and a Start that nobody is registered for, and that no task is about
\* to turn into Wait, has no answer.
EmptyInv ==
  (/\ action_type = "Start" /\ clients = {}
   /\ \A a \in Addr : hpc[a] \notin {"drain", "setWait"})
    => best_difficulty = 0

\* A task is on its way from an answer to its wake-up.
Answering == \E a \in Addr : hpc[a] \in {"setSolution", "finish", "setSend", "wake"}

\* Whoever makes the guide rest in Start without anybody to wait for, the last
\* answer's task or a dispatch loop that is done, has no answer to wait with.
RestInv ==
  (/\ action_type = "Start" /\ ~permit /\ mining_clients = {}
   /\ best_difficulty > 0 /\ ~Answering)
    => mpc # "select" /\ (mpc = "dispatch" => todo # {})

IdleInv ==
  LockInv /\ LeftInv /\ ArmInv /\ ResetInv /\ EmptyInv /\ RestInv

\* At first there is no answer.
LEMMA InitAnswer == Init => IdleInv
BY NetworkAssumption
   DEF Init, NetworkInit, GuideInit, WorkerInit, IdleInv, LockInv, LeftInv,
       ArmInv, ResetInv, EmptyInv, RestInv, TurningToWait, Dispatching,
       Outstanding

-----------------------------------------------------------------------------
(* Outstanding work comes from the dispatch loop alone.                    *)

LEMMA WorkerKeeps ==
  ASSUME IInv, ConnInv, NEW w \in Worker, WorkerStep(w) \/ Drop(w),
         UNCHANGED guideVars, NEW a \in Addr
  PROVE  /\ Outstanding(a)' => Outstanding(a)
         /\ toGuide'[a] # <<>> => toGuide[a] # <<>> \/ link[a] = "open"
<1> USE NetworkAssumption
    DEF IInv, TypeOK, NetworkTypeOK, WorkerTypeOK, ConnInv, SockInv, WorkerInv,
        Outstanding, WorkerGoto, netVars
<1>0. UNCHANGED hpc
  BY DEF guideVars, taskVars
<1>1. CASE SendCores(w)
  BY <1>0, <1>1 DEF SendCores
<1>2. CASE ReadWork(w)
  BY <1>0, <1>2 DEF ReadWork
<1>3. CASE \E b \in Addr : hpc[b] = "none" /\ Connect(w, b)
  BY <1>0, <1>3 DEF Connect
<1>4. CASE \E d \in Difficulty : Answer(w, d)
  <2>1. sock[w] \in Addr /\ job[w] # NoWork /\ link[sock[w]] = "open"
    BY <1>4 DEF Answer, MineAndSend, Work, NoWork, Challenge
  <2>2. /\ UNCHANGED <<toWorker, sock>>
        /\ job' = [job EXCEPT ![w] = NoWork]
        /\ \A b \in Addr : b # sock[w] => toGuide'[b] = toGuide[b]
    BY <1>4, <2>1 DEF Answer, MineAndSend
  <2> QED
    BY <1>0, <2>1, <2>2
<1>5. CASE ConnectRefused(w)
  BY <1>0, <1>5 DEF ConnectRefused
<1>6. CASE DividePanic(w) \/ GuideLost(w) \/ Drop(w)
  <2>1. LoseSocket(w)
    BY <1>6 DEF DividePanic, GuideLost, Drop
  <2> QED
    BY <1>0, <2>1 DEF LoseSocket, CloseLink
<1> QED
  BY <1>1, <1>2, <1>3, <1>4, <1>5, <1>6 DEF WorkerStep

LEMMA TaskKeeps ==
  ASSUME IInv, NEW c \in Addr, TaskStep(c), UNCHANGED workerVars, NEW a \in Addr
  PROVE  /\ Outstanding(a)' => Outstanding(a)
         /\ toGuide'[a] # <<>> => toGuide[a] # <<>>
<1> USE DEF IInv, TypeOK, NetworkTypeOK, GuideTypeOK, Outstanding, TaskGoto,
            netVars, workerVars
<1>1. CASE Receive(c)
  <2>1. /\ UNCHANGED toWorker
        /\ toGuide[c] # <<>>
        /\ \A b \in Addr : b # c => toGuide'[b] = toGuide[b] /\ hpc'[b] = hpc[b]
    BY <1>1 DEF Receive
  <2> QED
    BY <2>1
<1>2. CASE LeaveClients(c)
  BY <1>2 DEF LeaveClients, EndTask, FreeLink
<1>3. CASE WaitWake(c)
  BY <1>3 DEF WaitWake, EndTask, FreeLink
<1>4. CASE Finish(c) \/ Wake(c)
  BY <1>4 DEF Finish, Wake, AfterMessage
<1>5. CASE Hello(c) \/ HelloEof(c) \/ InsertClient(c) \/ CountCores(c)
             \/ ReceiveEof(c) \/ SetBest(c) \/ SetSolution(c) \/ SetSend(c)
             \/ DrainExit(c) \/ SetWait(c)
  BY <1>5 DEF Hello, HelloEof, InsertClient, CountCores, ReceiveEof, SetBest,
     SetSolution, SetSend, DrainExit, SetWait
<1> QED
  BY <1>1, <1>2, <1>3, <1>4, <1>5 DEF TaskStep

\* A task that leaves has read its connection to the end.
LEMMA LeftTask ==
  ASSUME IInv, ConnInv, LeftInv, NEW c \in Addr, TaskStep(c),
         UNCHANGED workerVars
  PROVE  LeftInv'
<1> USE DEF IInv, TypeOK, NetworkTypeOK, GuideTypeOK, LeftInv, TaskGoto
<1>0. \A a \in Addr : /\ Outstanding(a)' => Outstanding(a)
                      /\ toGuide'[a] # <<>> => toGuide[a] # <<>>
  BY TaskKeeps
<1>1. CASE LeaveClients(c)
  <2>1. gone[c] /\ link[c] = "closed" /\ hpc[c] = "closing"
    BY <1>1 DEF LeaveClients, ConnInv, LinkInv
  <2>2. toWorker[c] = <<>> /\ toGuide[c] = <<>> /\ \A w \in Worker : sock[w] # c
    BY <2>1, ClosedIsNobodys DEF ConnInv, LinkInv
  <2>3. ~Outstanding(c)
    BY <2>1, <2>2 DEF Outstanding
  <2> QED
    BY <1>0, <1>1, <2>3 DEF LeaveClients, EndTask
<1>2. CASE InsertClient(c)
  BY <1>0, <1>2 DEF InsertClient, taskVars
<1>3. CASE ReceiveEof(c)
  BY <1>0, <1>3 DEF ReceiveEof, sharedVars
<1>4. CASE ~LeaveClients(c) /\ ~InsertClient(c) /\ ~ReceiveEof(c)
  <2>1. UNCHANGED clients /\ (gone' = gone \/ gone' = [gone EXCEPT ![c] = FALSE])
    BY <1>4 DEF TaskStep, Hello, HelloEof, CountCores, Receive, SetBest,
       SetSolution, Finish, SetSend, Wake, DrainExit, SetWait, WaitWake,
       EndTask, sharedVars
  <2> QED
    BY <1>0, <2>1
<1> QED
  BY <1>1, <1>2, <1>3, <1>4

-----------------------------------------------------------------------------
(* The tasks, which decide on the mode.                                    *)

LEMMA AnswerTask ==
  ASSUME IInv, DrainInv, IdleInv, LeftInv', NEW c \in Addr, TaskStep(c),
         UNCHANGED workerVars
  PROVE  IdleInv'
<1> USE DEF IInv, TypeOK, GuideTypeOK, TaskInv, DrainInv, IdleInv, LockInv,
            ResetInv, EmptyInv, RestInv, Answering, TurningToWait,
            Dispatching, TaskGoto
<1>0. \A a \in Addr : Outstanding(a)' => Outstanding(a)
  BY TaskKeeps
<1>1. UNCHANGED mainVars
  BY DEF TaskStep, Hello, HelloEof, InsertClient, CountCores, Receive,
     ReceiveEof, SetBest, SetSolution, Finish, SetSend, Wake, LeaveClients,
     DrainExit, SetWait, WaitWake
<1>2. UNCHANGED <<mpc, todo>>
  BY <1>1 DEF mainVars, dispatchVars
<1>3. CASE InsertClient(c)
  BY <1>0, <1>2, <1>3 DEF InsertClient, ArmInv, ClientsLocked
<1>4. CASE CountCores(c)
  BY <1>0, <1>2, <1>4 DEF CountCores, ArmInv
<1>5. CASE SetBest(c)
  <2>1. Outstanding(c) /\ c \in clients
    BY <1>5 DEF SetBest, Outstanding, LeftInv
  <2> QED
    BY <1>0, <1>2, <1>5, <2>1 DEF SetBest, ArmInv
<1>6. CASE Finish(c)
  BY <1>0, <1>2, <1>6 DEF Finish, AfterMessage, AllAnswered, ArmInv
<1>7. CASE SetSend(c)
  BY <1>0, <1>2, <1>7 DEF SetSend, ArmInv
<1>8. CASE Wake(c)
  BY <1>0, <1>2, <1>8 DEF Wake, AfterMessage, ArmInv
<1>9. CASE LeaveClients(c)
  BY <1>0, <1>2, <1>9 DEF LeaveClients, ClientsLocked, ArmInv
<1>10. CASE DrainExit(c)
  BY <1>0, <1>2, <1>10 DEF DrainExit, sharedVars, ArmInv
<1>11. CASE SetWait(c)
  BY <1>0, <1>2, <1>11 DEF SetWait, ArmInv, LeftInv
<1>12. CASE WaitWake(c)
  BY <1>0, <1>2, <1>12 DEF WaitWake, ArmInv
<1>13. CASE Hello(c) \/ HelloEof(c) \/ Receive(c) \/ ReceiveEof(c)
              \/ SetSolution(c)
  BY <1>0, <1>2, <1>13 DEF Hello, HelloEof, Receive, ReceiveEof, SetSolution,
     sharedVars, ArmInv
<1> QED
  BY <1>3, <1>4, <1>5, <1>6, <1>7, <1>8, <1>9, <1>10, <1>11, <1>12, <1>13
  DEF TaskStep

-----------------------------------------------------------------------------
(* Main, which takes the permit and the mode, and hands out work.          *)

LEMMA AnswerMain ==
  ASSUME IInv, LoopInv, DrainInv, IdleInv, MainStep, UNCHANGED workerVars
  PROVE  IdleInv'
<1> USE DEF IInv, TypeOK, GuideTypeOK, MainInv, IdleInv, LockInv, ResetInv,
            EmptyInv, RestInv, Answering, TurningToWait, Dispatching, MainGoto
<1>1. CASE \E a \in Addr : Accept(a)
  BY <1>1 DEF Accept, LeftInv, ArmInv, Outstanding, netVars, sharedVars,
     mainVars, dispatchVars, workerVars
<1>2. CASE \E a \in Addr : DispatchWrite(a)
  <2> PICK a \in Addr : DispatchWrite(a)
    BY <1>2
  <2>1. a \in clients
    BY DEF DispatchWrite, LoopInv
  <2>2. \A b \in Addr : b # a => (Outstanding(b)' => Outstanding(b))
    BY DEF DispatchWrite, Deliver, NetworkTypeOK, Outstanding, taskVars,
       workerVars
  <2> QED
    BY <2>1, <2>2 DEF DispatchWrite, LeftInv, ArmInv, sharedVars, taskVars
<1>3. CASE ~ \E a \in Addr : Accept(a) \/ DispatchWrite(a)
  <2>1. UNCHANGED <<netVars, taskVars, clients>>
    BY <1>3 DEF MainStep, Notified, WokenStart, WokenSend, WokenWait,
       FetchProof, FetchAgain, GetClock, ClockPanic, ResendSetSend,
       MainNotify, LockClients, MarkMining, DispatchDone, TakeSolution,
       UnwrapPanic, SubmitConfirmed, SubmitRejected, SubmitGivesUp,
       SubmitReturns, ResetBest, SetStart, sharedVars
  <2>2. \A a \in Addr : Outstanding(a)' = Outstanding(a)
    BY <2>1 DEF Outstanding, netVars, taskVars, workerVars
  <2>3. LeftInv'
    BY <2>1, <2>2 DEF LeftInv, netVars, taskVars
  <2> USE <2>1, <2>2, <2>3 DEF taskVars, ArmInv
  <2>4. CASE Notified \/ WokenSend \/ ResendSetSend
    BY <2>4 DEF Notified, WokenSend, ResendSetSend, sharedVars, dispatchVars
  <2>5. CASE WokenStart \/ WokenWait \/ (\E seen \in Challenge : FetchProof(seen))
               \/ FetchAgain \/ GetClock \/ ClockPanic
    BY <2>5 DEF WokenStart, WokenWait, FetchProof, FetchAgain, GetClock,
       ClockPanic, sharedVars, dispatchVars
  <2>6. CASE MainNotify("resendWake") \/ MainNotify("startWake")
    BY <2>6 DEF MainNotify, dispatchVars
  <2>7. CASE LockClients
    BY <2>7 DEF LockClients, ClientsLocked, sharedVars
  <2>8. CASE MarkMining
    BY <2>8 DEF MarkMining
  <2>9. CASE DispatchDone
    BY <2>9 DEF DispatchDone, sharedVars
  <2>10. CASE TakeSolution \/ UnwrapPanic \/ SubmitConfirmed \/ SubmitRejected
                \/ \E sent \in BOOLEAN : SubmitGivesUp(sent)
    BY <2>10 DEF TakeSolution, UnwrapPanic, SubmitConfirmed, SubmitRejected,
       SubmitGivesUp, SubmitReturns, sharedVars, dispatchVars
  <2>11. CASE ResetBest \/ SetStart
    BY <2>11 DEF ResetBest, SetStart, dispatchVars
  <2> QED
    BY <1>3, <2>4, <2>5, <2>6, <2>7, <2>8, <2>9, <2>10, <2>11 DEF MainStep
<1> QED
  BY <1>1, <1>2, <1>3

-----------------------------------------------------------------------------
\* Every step keeps the invariant.
LEMMA NextAnswer ==
  IInv /\ DispatchInv /\ DrainInv /\ IdleInv /\ [Next]_vars => IdleInv'
<1> SUFFICES ASSUME IInv, DispatchInv, DrainInv, IdleInv, [Next]_vars
             PROVE  IdleInv'
  OBVIOUS
<1> USE DEF DispatchInv
<1>1. CASE MainStep /\ UNCHANGED workerVars
  BY <1>1, AnswerMain
<1>2. ASSUME NEW a \in Addr, TaskStep(a), UNCHANGED workerVars
      PROVE  IdleInv'
  BY <1>2, LeftTask, AnswerTask DEF IdleInv
<1>3. ASSUME NEW w \in Worker, WorkerStep(w) \/ Drop(w), UNCHANGED guideVars
      PROVE  IdleInv'
  <2>1. \A a \in Addr :
          /\ Outstanding(a)' => Outstanding(a)
          /\ toGuide'[a] # <<>> => toGuide[a] # <<>> \/ link[a] = "open"
    BY <1>3, WorkerKeeps
  <2>2. LeftInv' /\ ArmInv'
    BY <1>3, <2>1 DEF IdleInv, LeftInv, ArmInv, ConnInv, LinkInv, guideVars,
       sharedVars, mainVars, taskVars
  <2> QED
    BY <1>3, <2>2 DEF IdleInv, LockInv, ResetInv, EmptyInv, RestInv,
       Answering, TurningToWait, Dispatching, guideVars, sharedVars, mainVars,
       dispatchVars, taskVars
<1>4. CASE (TxLands /\ UNCHANGED workerVars) \/ UNCHANGED vars
  <2>1. UNCHANGED <<netVars, sharedVars, mpc, todo, taskVars, workerVars>>
    BY <1>4 DEF TxLands, vars, guideVars, mainVars, dispatchVars
  <2>2. \A a \in Addr : Outstanding(a)' = Outstanding(a)
    BY <2>1 DEF Outstanding, netVars, taskVars, workerVars
  <2> QED
    BY <2>1, <2>2 DEF IdleInv, LockInv, LeftInv, ArmInv, ResetInv, EmptyInv,
       RestInv, Answering, TurningToWait, Dispatching, netVars, sharedVars,
       taskVars
<1> QED
  BY <1>1, <1>2, <1>3, <1>4 DEF Next, GuideStep

\* An answer is not left lying, whatever workers drop out, come back or answer
\* early: the guide never rests in Start with an answer in best_difficulty,
\* nobody mining, and neither a permit nor a task on its way to Send.
THEOREM NoIdleAnswerCorrect == Spec => []NoIdleAnswer
<1>1. IdleInv => NoIdleAnswer
  BY DEF IdleInv, RestInv, Answering, NoIdleAnswer
<1> QED
  BY <1>1, Inductive, InitDispatch, NextDispatch, Draining, InitAnswer,
     NextAnswer, PTL DEF Spec
=============================================================================
