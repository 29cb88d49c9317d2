------------------------------ MODULE Cluster ------------------------------
(***************************************************************************)
(* The guide and its workers over their connections.                       *)
(***************************************************************************)
EXTENDS GuideServer, OreWorker, Functions

CONSTANT
  EarlyAnswers  \* may a worker answer while the guide is still handing out?

ASSUME EarlyAssumption == EarlyAnswers \in BOOLEAN

vars == <<netVars, guideVars, workerVars>>

Init == NetworkInit /\ GuideInit /\ WorkerInit

\* A worker mines for cutoff_time seconds, the dispatch loop only writes to
\* its sockets: an answer overtakes the loop only when cutoff_time is 0.
Answer(w, d) ==
  /\ Dispatching => EarlyAnswers
  /\ MineAndSend(w, d)

WorkerStep(w) ==
  \/ SendCores(w) \/ ReadWork(w) \/ DividePanic(w)
  \/ Up /\ \E a \in Addr : hpc[a] = "none" /\ Connect(w, a)
  \/ \E d \in Difficulty : Answer(w, d)
  \/ ~Up /\ (ConnectRefused(w) \/ GuideLost(w))

Next ==
  \/ GuideStep /\ UNCHANGED workerVars
  \/ \E w \in Worker : (WorkerStep(w) \/ Drop(w)) /\ UNCHANGED guideVars

Spec == Init /\ [][Next]_vars

-----------------------------------------------------------------------------
(***************************************************************************)
(* Fairness.  Tokio runs every ready task and main's own code in finite    *)
(* time; a 56-byte write finds room in the socket's buffer.  What main     *)
(* waits for needs more: sockets and timers are polled by an idle worker   *)
(* thread, so it comes about only while a thread is free.  select! picks   *)
(* among ready branches at random, and the drain loop's sleep ends at a    *)
(* time that no other loop is tied to.  Workers are separate, healthy      *)
(* processes.  A proof that is read again and again is at last the chain's *)
(* current one, and a submission that is repeated for ever lands.          *)
(***************************************************************************)
Submitted ==
  SubmitConfirmed \/ SubmitRejected \/ \E sent \in BOOLEAN : SubmitGivesUp(sent)

MainAwaits ==
  \/ \E seen \in Challenge : FetchProof(seen)
  \/ FetchAgain \/ GetClock \/ Submitted

MainRuns ==
  \/ Notified \/ WokenStart \/ WokenSend \/ WokenWait
  \/ ResendSetSend \/ MainNotify("resendWake") \/ MainNotify("startWake")
  \/ LockClients \/ (\E a \in Addr : DispatchWrite(a))
  \/ MarkMining \/ DispatchDone
  \/ TakeSolution \/ UnwrapPanic \/ ResetBest \/ SetStart

Fairness ==
  /\ WF_vars(MainRuns /\ UNCHANGED workerVars)
  /\ WF_vars(FreeThread /\ MainAwaits /\ UNCHANGED workerVars)
  /\ SF_vars(FreeThread /\ FetchProof(chain) /\ UNCHANGED workerVars)
  /\ SF_vars(TxLands /\ UNCHANGED workerVars)
  /\ \A a \in Addr : /\ SF_vars(FreeThread /\ Accept(a) /\ UNCHANGED workerVars)
                     /\ WF_vars(TaskStep(a) /\ UNCHANGED workerVars)
                     /\ SF_vars(DrainExit(a) /\ UNCHANGED workerVars)
  /\ \A w \in Worker : WF_vars(WorkerStep(w) /\ UNCHANGED guideVars)

FairSpec == Spec /\ Fairness

-----------------------------------------------------------------------------
TypeOK == NetworkTypeOK /\ GuideTypeOK /\ WorkerTypeOK

(***************************************************************************)
(* Safety under drops, restarts and early answers.                         *)
(***************************************************************************)

\* The clients whose cores are in total_cores.
Counted == {a \in clients : hpc[a] # "count"}

\* The cores of a set of clients, one by one.
CoreSlots(C, k) == UNION {{a} \X (1..k[a]) : a \in C}

\* total_cores, updated by each task in a critical section of its own, is at
\* every moment the exact sum over the counted clients: no update is lost,
\* applied twice, or subtracted for a client that never registered.
TotalCoresExact == total_cores = Cardinality(CoreSlots(Counted, cores))

\* notify_one stores a single permit, so two wake-ups may merge.  A Send that
\* somebody decided on is still never forgotten: main is yet to be woken for
\* it, or is at it already.
NoLostWakeup ==
  action_type = "Send" =>
    \/ permit
    \/ mpc \in {"woken", "unwrap", "submit", "reset", "setStart",
                "resendWake", "crashed"}
    \/ \E a \in Addr : hpc[a] = "wake"

\* While the mode is Wait nobody is registered: the last client's task stores
\* Wait under the lock that a newcomer must pass, and the newcomer's test for
\* the first mining comes after it.
WaitOnlyWhenEmpty == action_type = "Wait" => Counted = {}

Orders(w) ==
  (IF job[w] = NoWork THEN {} ELSE {job[w]})
    \cup (IF sock[w] = NoAddr THEN {} ELSE Range(toWorker[sock[w]]))

\* Two workers never search the same cores' share of a challenge: the slices
\* of the work orders they hold, by offset and core count, are disjoint,
\* whoever joined or left while the guide was handing out.
WorkDisjoint ==
  \A v, w \in Worker : \A x \in Orders(v), y \in Orders(w) :
    (v # w /\ x.challenge = y.challenge) =>
      \/ x.offset + NumCores[v] <= y.offset
      \/ y.offset + NumCores[w] <= x.offset

\* The slices handed out so far and those still to come add up to the total
\* that goes out with every order, plus the cores of the clients inserted but
\* not yet counted: nobody joins, leaves or is counted between the two sums.
SharesTile ==
  Dispatching =>
    offset + Cardinality(CoreSlots(todo, cores))
      = total_cores + Cardinality(CoreSlots(clients \ Counted, cores))

\* An answer is not left lying: while the guide rests in Start with nobody
\* left to wait for, an answer that is better than none is on its way into a
\* Send.  Whatever stalls an epoch, it is not a lost decision to submit.
NoIdleAnswer ==
  (/\ mpc = "select" /\ ~permit /\ action_type = "Start"
   /\ mining_clients = {} /\ best_difficulty > 0)
    => \E a \in Addr : hpc[a] \in {"setSolution", "finish", "setSend", "wake"}

-----------------------------------------------------------------------------
(***************************************************************************)
(* Claims of the source that drops refute.                                 *)
(***************************************************************************)

\* "Encounter some error, then proof.challenge may not be update, so just
\* resend the last difficulty": when main is about to submit, there is a last
\* solution.
ResendHasSolution == mpc = "unwrap" => solution # NoSolution

\* "Cannot change mode to Wait from Send".
NoSendToWait == [][~(action_type = "Send" /\ action_type' = "Wait")]_vars

\* "Turn into waiting if no clients": the task of the last client returns the
\* guide to Wait.
TurnsIntoWaiting ==
  \A a \in Addr : hpc[a] = "drain" ~> action_type = "Wait" \/ ~Up

\* "Update current mining number": who is counted as mining is a client.
MinersConnected == mining_clients \subseteq clients

-----------------------------------------------------------------------------
(***************************************************************************)
(* Promises of a calm cluster: MaxDrops = 0, ~EarlyAnswers.                *)
(***************************************************************************)

\* A client's work is outstanding from the write of the order to the end of
\* the task's update of best_difficulty and solution.
Outstanding(a) ==
  \/ toWorker[a] # <<>> \/ toGuide[a] # <<>>
  \/ hpc[a] \in {"setBest", "setSolution"}
  \/ \E w \in Worker : sock[w] = a /\ job[w] # NoWork

\* The guide decides to submit only once every client has answered and its
\* answer is in best_difficulty and solution.
SendAfterAllAnswers ==
  action_type = "Send" => \A a \in Addr : ~Outstanding(a)

\* Main never unwraps an absent solution, nor submits one for another
\* challenge than the one it handed out last.
SubmitsCurrent == mpc = "unwrap" => solution.challenge = proof

\* The epochs that the shared cells stand for.
Awaited ==
  {a \in Addr : /\ a \in mining_clients \/ (Dispatching /\ a \in todo)
                /\ hpc[a] # "finish"}

Mined(a) ==
  IF hpc[a] \in {"setBest", "setSolution"} THEN {got[a].difficulty}
  ELSE IF toGuide[a] # <<>> THEN {Head(toGuide[a]).difficulty} ELSE {}

Handed == IF Dispatching THEN proof ELSE last_hash_at

Epochs == INSTANCE MiningEpochs WITH
  Client     <- Addr,
  Stale      <- LaggingNodes,
  Parallel   <- THREADS > 1,
  registered <- clients,
  handed     <- Handed,
  awaited    <- Awaited,
  mined      <- [a \in Addr |-> Mined(a)],
  best       <- IF solution.challenge = Handed THEN solution.difficulty ELSE 0

\* The guide implements MiningEpochs: one order per client and challenge,
\* nothing submitted before the last answer, then one of the answers (the
\* best of them, if one thread takes them in), for ever.
ImplementsEpochs == Epochs!Spec

\* Every client that registers while challenges are left gets to mine, if
\* every answer is difficult enough for the chain.  An answer of difficulty 0
\* starts no submission, and one below MinDifficulty is submitted for ever:
\* either keeps those that joined meanwhile waiting.
ClientServed ==
  \A a \in Addr : (hpc[a] = "reading" /\ chain < MaxHashAt)
                    ~> a \in mining_clients
=============================================================================
