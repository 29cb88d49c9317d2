----------------------------- MODULE CalmProofs -----------------------------
(***************************************************************************)
(* Proofs about a calm cluster: no worker drops out, and no answer comes   *)
(* while the guide is handing out.  For any number of workers, threads and *)
(* retries, also with a guide that dies on a failed clock query, it        *)
(* decides to submit only after all answers, and submits a solution of the *)
(* challenge that it handed out last.                                      *)
(*                                                                         *)
(* The argument is that of a token.  At any time either somebody has the   *)
(* turn (a stored permit, main outside of its select and its dispatch, the *)
(* task that has found the last answer) and no work is under way, or       *)
(* nobody has, and every client has at most one piece of work and is       *)
(* marked as mining for it.  Such a cluster implements MiningEpochs: at    *)
(* the end.                                                                *)
(***************************************************************************)
EXTENDS DispatchProofs, SequenceTheorems

\* The client's task has an answer in hand that it has not yet accounted for.
Handling(a) == hpc[a] \in {"setBest", "setSolution", "finish"}

Jobless(a) == \A w \in Worker : sock[w] = a => job[w] = NoWork

\* Nothing is under way between the client, its worker and its task.
Idle(a) ==
  toWorker[a] = <<>> /\ toGuide[a] = <<>> /\ ~Handling(a) /\ Jobless(a)

Quiet == mining_clients = {} /\ \A a \in Addr : Idle(a)

\* Until a first client is counted the turn is nobody's, and as good as taken.
Turn ==
  \/ permit \/ action_type = "Wait" \/ MiningLocked
  \/ mpc \notin {"select", "dispatch", "mark"}

\* Nobody leaves, as long as the guide is there.
PeaceInv ==
  Up => \A a \in Addr :
    /\ link[a] # "closed" /\ ~gone[a]
    /\ hpc[a] \notin {"closing", "drain", "setWait", "waitWake"}

\* There is one turn, and the mode says whose.
TurnInv ==
  /\ permit \/ MiningLocked \/ action_type = "Wait" => mpc = "select"
  /\ MiningLocked \/ action_type = "Wait" => ~permit
  /\ action_type = "Wait" => ~MiningLocked
  /\ \A a, b \in Addr :
       hpc[a] \in {"setSend", "wake"} /\ hpc[b] \in {"setSend", "wake"} => a = b
  /\ \A a \in Addr : /\ hpc[a] = "setSend" => action_type = "Start"
                     /\ hpc[a] = "wake" => action_type = "Send"
  /\ mpc \in {"unwrap", "submit", "reset", "setStart", "resendWake"} =>
       action_type = "Send"
  /\ mpc \in {"fetch", "clock", "resend", "lock", "dispatch", "mark",
              "startWake", "crashed"} => action_type = "Start"
  /\ action_type = "Send" => Turn

\* A client has one piece of work at most ...
OneEach(a) ==
  /\ toWorker[a] # <<>> => /\ Len(toWorker[a]) = 1 /\ toGuide[a] = <<>>
                           /\ ~Handling(a) /\ Jobless(a)
  /\ toGuide[a] # <<>> => Len(toGuide[a]) = 1 /\ ~Handling(a) /\ Jobless(a)
  /\ Handling(a) => Jobless(a)

\* ... is marked as mining while it has one ...
Marked(a) == Idle(a) \/ a \in mining_clients \/ (mpc = "mark" /\ cur = a)

\* ... and during a dispatch has not answered, or not even been served.
Ahead(a) ==
  Dispatching => /\ toGuide[a] = <<>> /\ ~Handling(a)
                 /\ a \in todo => Idle(a) \/ (mpc = "mark" /\ cur = a)

WorkInv ==
  /\ Turn => Quiet
  /\ \A a \in Addr : OneEach(a) /\ Marked(a) /\ Ahead(a)

\* All work is for the proof that main has.
CurrentInv ==
  /\ \A a \in Addr :
       /\ toWorker[a] # <<>> =>
            toWorker[a][1].challenge = proof /\ toWorker[a][1].total > 0
       /\ toGuide[a] # <<>> => toGuide[a][1].challenge = proof
       /\ hpc[a] \in {"setBest", "setSolution"} => got[a].challenge = proof
  /\ \A w \in Worker :
       job[w] # NoWork => job[w].challenge = proof /\ job[w].total > 0

\* The best difficulty belongs to an answer to that proof, and is 0 from a
\* submission to the next dispatch; after the first one there is always a
\* solution to resend.
BestInv ==
  /\ mpc \notin {"clock", "lock", "dispatch", "mark", "crashed"} =>
       proof = last_hash_at
  /\ mining_clients # {} \/ MiningLocked \/ action_type = "Send" => proof # 0
  /\ Turn /\ last_hash_at # 0 => solution.challenge = last_hash_at
  /\ mpc = "select" /\ best_difficulty > 0 =>
       \/ solution.challenge = proof
       \/ \E a \in Addr : hpc[a] = "setSolution"
  /\ mpc \in {"setStart", "startWake", "fetch", "clock", "resend", "lock",
              "dispatch", "mark"} => best_difficulty = 0
  /\ action_type = "Wait" \/ (action_type = "Start" /\ (permit \/ mpc = "woken"))
       => best_difficulty = 0
  /\ action_type # "Wait" => total_cores > 0

CalmInv == PeaceInv /\ TurnInv /\ WorkInv /\ CurrentInv /\ BestInv

-----------------------------------------------------------------------------
(***************************************************************************)
(* Sequences of one element.                                               *)
(***************************************************************************)
LEMMA SingleTail ==
  ASSUME NEW S, NEW s \in Seq(S), Len(s) = 1
  PROVE  Head(s) = s[1] /\ Tail(s) = <<>> /\ s[1] \in S
<1>1. Tail(s) \in Seq(S) /\ Len(Tail(s)) = 0
  OBVIOUS
<1>2. Tail(s) = <<>>
  BY <1>1, EmptySeq
<1> QED
  BY <1>2

LEMMA SingleAppend ==
  ASSUME NEW S, NEW x \in S
  PROVE  LET s == Append(<<>>, x)
         IN  s # <<>> /\ Len(s) = 1 /\ s[1] = x
OBVIOUS

-----------------------------------------------------------------------------
(***************************************************************************)
(* Quiet.                                                                  *)
(***************************************************************************)

\* Nothing is wrong with no work.
LEMMA QuietIsWell == Quiet /\ SockInv /\ WorkerTypeOK => WorkInv /\ CurrentInv
<1> SUFFICES ASSUME Quiet, SockInv, WorkerTypeOK PROVE WorkInv /\ CurrentInv
  OBVIOUS
<1>1. WorkInv
  BY DEF Quiet, Idle, WorkInv, OneEach, Marked, Ahead
<1>2. \A w \in Worker : job[w] = NoWork
  BY DEF Quiet, Idle, Jobless, SockInv, WorkerTypeOK
<1>3. CurrentInv
  BY <1>2 DEF Quiet, Idle, Handling, CurrentInv
<1> QED
  BY <1>1, <1>3

LEMMA QuietIsWellNext ==
  Quiet' /\ SockInv' /\ WorkerTypeOK' => WorkInv' /\ CurrentInv'
BY QuietIsWell, PTL

\* Whatever leaves the connections, the jobs and the answers in hand alone
\* keeps the quiet.
LEMMA QuietStays ==
  ASSUME Quiet, UNCHANGED <<toWorker, toGuide, mining_clients, sock, job>>,
         \A a \in Addr : Handling(a)' => Handling(a)
  PROVE  Quiet'
BY DEF Quiet, Idle, Jobless

-----------------------------------------------------------------------------
(***************************************************************************)
(* Main.                                                                   *)
(***************************************************************************)

\* Main neither closes connections nor ends tasks.
LEMMA PeaceMain ==
  ASSUME GuideTypeOK, PeaceInv, MainStep
  PROVE  PeaceInv'
<1> USE DEF GuideTypeOK, PeaceInv, Up
<1>1. CASE \E a \in Addr : Accept(a)
  BY <1>1 DEF Accept, netVars, mainVars
<1>2. CASE ~ \E a \in Addr : Accept(a)
  <2>1. UNCHANGED <<link, taskVars>> /\ Up
    BY <1>2 DEF MainStep, DispatchWrite, Notified, WokenStart, WokenSend,
       WokenWait, FetchProof, FetchAgain, GetClock, ClockPanic, ResendSetSend,
       MainNotify, LockClients, MarkMining, DispatchDone, TakeSolution,
       UnwrapPanic, SubmitConfirmed, SubmitRejected, SubmitGivesUp,
       SubmitReturns, ResetBest, SetStart, MainGoto, netVars
  <2> QED
    BY <2>1 DEF taskVars
<1> QED
  BY <1>1, <1>2

\* Main's steps outside of a dispatch: it has the turn.
OwnStep ==
  \/ Notified \/ WokenStart \/ WokenSend \/ WokenWait
  \/ (\E seen \in Challenge : FetchProof(seen))
  \/ FetchAgain \/ GetClock \/ ClockPanic
  \/ ResendSetSend \/ MainNotify("resendWake") \/ MainNotify("startWake")
  \/ LockClients \/ TakeSolution \/ UnwrapPanic
  \/ SubmitConfirmed \/ SubmitRejected
  \/ (\E sent \in BOOLEAN : SubmitGivesUp(sent))
  \/ ResetBest \/ SetStart

\* ... and keeps the quiet.
LEMMA OwnQuiet ==
  ASSUME CalmInv, OwnStep, UNCHANGED workerVars
  PROVE  /\ Quiet /\ Quiet'
         /\ UNCHANGED <<netVars, taskVars, clients, cores, total_cores,
                       mining_clients, solution>>
<1>1. Turn
  BY DEF OwnStep, Notified, WokenStart, WokenSend, WokenWait, FetchProof,
     FetchAgain, GetClock, ClockPanic, ResendSetSend, MainNotify, LockClients,
     TakeSolution, UnwrapPanic, SubmitConfirmed, SubmitRejected,
     SubmitGivesUp, SubmitReturns, ResetBest, SetStart, MainGoto, Turn
<1>2. UNCHANGED <<netVars, taskVars, clients, cores, total_cores,
                  mining_clients, solution>>
  BY DEF OwnStep, Notified, WokenStart, WokenSend, WokenWait, FetchProof,
     FetchAgain, GetClock, ClockPanic, ResendSetSend, MainNotify, LockClients,
     TakeSolution, UnwrapPanic, SubmitConfirmed, SubmitRejected,
     SubmitGivesUp, SubmitReturns, ResetBest, SetStart, sharedVars
<1>3. Quiet
  BY <1>1 DEF CalmInv, WorkInv
<1>4. UNCHANGED <<toWorker, toGuide, sock, job, hpc>>
  BY <1>2 DEF netVars, taskVars, workerVars
<1>5. Quiet'
  BY <1>2, <1>3, <1>4, QuietStays DEF Handling
<1> QED
  BY <1>2, <1>3, <1>5

\* ... and hands the turn to itself, through the mode and the permit.
LEMMA OwnTurn ==
  ASSUME IInv, CalmInv, OwnStep, UNCHANGED workerVars
  PROVE  TurnInv' /\ BestInv'
<1> DEFINE vs == <<hpc, total_cores, mining_clients, solution>>
<1>1. UNCHANGED vs
  BY OwnQuiet DEF taskVars
<1>2. MiningLocked' = MiningLocked
  BY <1>1 DEF MiningLocked
<1>3. TurnInv /\ BestInv
  BY DEF CalmInv
<1>4. ~ \E a \in Addr : hpc[a] = "setSolution"
  BY OwnQuiet DEF Quiet, Idle, Handling
<1> USE DEF Turn, TurnInv, BestInv, MainGoto
<1>5. CASE Notified
  BY <1>1, <1>2, <1>3, <1>5 DEF Notified
<1>6. CASE WokenStart \/ WokenSend \/ WokenWait
  BY <1>1, <1>2, <1>3, <1>6 DEF WokenStart, WokenSend, WokenWait, sharedVars
<1>7. CASE \E seen \in Challenge : FetchProof(seen)
  <2>1. proof' # 0
    BY <1>7, NetworkAssumption
    DEF FetchProof, IInv, TypeOK, GuideTypeOK, Challenge
  <2> QED
    BY <1>1, <1>2, <1>3, <1>7, <2>1 DEF FetchProof, sharedVars
<1>8. CASE FetchAgain
  <2>1. UNCHANGED <<mpc, proof, last_hash_at, sharedVars>>
    BY <1>8 DEF FetchAgain
  <2> QED
    BY <1>1, <1>2, <1>3, <2>1 DEF sharedVars
<1>9. CASE GetClock \/ ClockPanic
  <2>1. /\ mpc = "clock" /\ mpc' \in {"lock", "resend", "crashed"}
        /\ mpc' = "resend" => proof = last_hash_at
        /\ UNCHANGED <<sharedVars, proof, last_hash_at>>
    BY <1>9 DEF GetClock, ClockPanic
  <2> QED
    BY <1>1, <1>2, <1>3, <2>1 DEF sharedVars
<1>10. CASE ResendSetSend
  <2>1. proof # 0
    BY <1>10, NetworkAssumption DEF ResendSetSend, IInv, MainInv, Challenge
  <2>2. \A a \in Addr : hpc[a] \notin {"setSend", "wake"}
    BY <1>3, <1>10 DEF ResendSetSend, MiningLocked
  <2> QED
    BY <1>1, <1>2, <1>3, <1>10, <2>1, <2>2 DEF ResendSetSend
<1>11. CASE MainNotify("resendWake") \/ MainNotify("startWake")
  BY <1>1, <1>2, <1>3, <1>11 DEF MainNotify
<1>12. CASE LockClients
  BY <1>1, <1>2, <1>3, <1>12 DEF LockClients, sharedVars
<1>13. CASE TakeSolution
  BY <1>1, <1>2, <1>3, <1>13 DEF TakeSolution, sharedVars
<1>14. CASE UnwrapPanic
  BY <1>1, <1>2, <1>3, <1>14 DEF UnwrapPanic, NoSolution
<1>15. CASE SubmitConfirmed \/ SubmitRejected
              \/ \E sent \in BOOLEAN : SubmitGivesUp(sent)
  <2>1. /\ MainGoto("submit", "reset")
        /\ UNCHANGED <<sharedVars, proof, last_hash_at>>
    BY <1>15 DEF SubmitConfirmed, SubmitRejected, SubmitGivesUp, SubmitReturns
  <2> QED
    BY <1>1, <1>2, <1>3, <2>1 DEF sharedVars
<1>16. CASE ResetBest
  BY <1>1, <1>2, <1>3, <1>16 DEF ResetBest
<1>17. CASE SetStart
  <2>1. \A a \in Addr : hpc[a] \notin {"setSend", "wake"}
    BY <1>3, <1>17 DEF SetStart, MiningLocked
  <2> QED
    BY <1>1, <1>2, <1>3, <1>17, <2>1 DEF SetStart
<1> QED
  BY <1>5, <1>6, <1>7, <1>8, <1>9, <1>10, <1>11, <1>12, <1>13, <1>14, <1>15,
     <1>16, <1>17 DEF OwnStep

\* An order goes to a client with no work.
LEMMA WriteCalm ==
  ASSUME IInv, CalmInv, NEW a \in Addr, DispatchWrite(a), UNCHANGED workerVars
  PROVE  TurnInv' /\ WorkInv' /\ CurrentInv' /\ BestInv'
<1> DEFINE order == [challenge |-> proof, offset |-> offset,
                     total |-> total_cores]
<1>1. /\ mpc = "dispatch" /\ mpc' = "mark" /\ cur' = a /\ a \in todo
      /\ UNCHANGED <<toGuide, sharedVars, proof, last_hash_at, todo, hpc, got,
                    sock, job>>
  BY DEF DispatchWrite, MainGoto, taskVars, workerVars
<1>2. MiningLocked' = MiningLocked
  BY <1>1 DEF MiningLocked
<1>3. TurnInv' /\ BestInv'
  BY <1>1, <1>2 DEF CalmInv, TurnInv, BestInv, Turn, sharedVars
<1>4. ~Turn'
  BY <1>1, <1>3 DEF TurnInv, Turn
<1>5. Idle(a)
  BY <1>1 DEF CalmInv, WorkInv, Ahead, Dispatching
<1>6. \A b \in Addr : b # a => toWorker'[b] = toWorker[b]
  BY DEF DispatchWrite, Deliver, IInv, TypeOK, NetworkTypeOK
<1>7. order \in Work /\ order.challenge = proof /\ order.total > 0
  <2>1. offset \in Nat /\ total_cores \in Nat /\ proof \in Challenge
    BY <1>1 DEF IInv, TypeOK, GuideTypeOK, MainInv
  <2>2. total_cores > 0
    BY <1>1 DEF CalmInv, TurnInv, BestInv
  <2> QED
    BY <2>1, <2>2 DEF Work
<1> HIDE DEF order
<1>8. \/ toWorker'[a] = <<>>
      \/ toWorker'[a] # <<>> /\ Len(toWorker'[a]) = 1 /\ toWorker'[a][1] = order
  <2>1. toWorker' = toWorker \/ toWorker'[a] = Append(toWorker[a], order)
    BY DEF DispatchWrite, Deliver, IInv, TypeOK, NetworkTypeOK, order
  <2>2. toWorker[a] = <<>>
    BY <1>5 DEF Idle
  <2> QED
    BY <1>7, <2>1, <2>2, SingleAppend
<1>9. \A b \in Addr : /\ Handling(b)' = Handling(b)
                      /\ Jobless(b)' = Jobless(b)
                      /\ b # a => Idle(b)' = Idle(b)
  BY <1>1, <1>6 DEF Handling, Jobless, Idle
<1>10. WorkInv'
  <2> SUFFICES ASSUME NEW b \in Addr PROVE OneEach(b)' /\ Marked(b)' /\ Ahead(b)'
    BY <1>4 DEF WorkInv
  <2>1. OneEach(b) /\ Marked(b) /\ Ahead(b)
    BY DEF CalmInv, WorkInv
  <2>2. CASE b = a
    BY <1>1, <1>5, <1>8, <1>9, <2>2 DEF OneEach, Marked, Ahead, Idle
  <2>3. CASE b # a
    BY <1>1, <1>6, <1>9, <2>1, <2>3
    DEF OneEach, Marked, Ahead, Dispatching, sharedVars
  <2> QED
    BY <2>2, <2>3
<1>11. CurrentInv'
  <2>1. CurrentInv
    BY DEF CalmInv
  <2> QED
    BY <1>1, <1>6, <1>7, <1>8, <2>1 DEF CurrentInv
<1> QED
  BY <1>3, <1>10, <1>11

\* A client is marked before it can answer.
LEMMA MarkCalm ==
  ASSUME IInv, CalmInv, MarkMining, UNCHANGED workerVars
  PROVE  TurnInv' /\ WorkInv' /\ CurrentInv' /\ BestInv'
<1>1. /\ mpc = "mark" /\ mpc' = "dispatch" /\ todo' = todo \ {cur}
      /\ mining_clients' = mining_clients \cup {cur}
      /\ UNCHANGED <<toGuide, toWorker, action_type, total_cores, solution,
                    best_difficulty, permit, proof, last_hash_at, hpc, got,
                    sock, job>>
  BY DEF MarkMining, MainGoto, taskVars, workerVars, netVars
<1>2. MiningLocked' = MiningLocked /\ proof # 0
  BY <1>1, NetworkAssumption DEF MiningLocked, IInv, MainInv, Challenge
<1>3. TurnInv' /\ BestInv'
  BY <1>1, <1>2 DEF CalmInv, TurnInv, BestInv, Turn
<1>4. ~Turn'
  BY <1>1, <1>3 DEF TurnInv, Turn
<1>5. \A b \in Addr : /\ Handling(b)' = Handling(b)
                      /\ Jobless(b)' = Jobless(b)
                      /\ Idle(b)' = Idle(b)
  BY <1>1 DEF Handling, Jobless, Idle
<1>6. WorkInv'
  BY <1>1, <1>4, <1>5
  DEF CalmInv, WorkInv, OneEach, Marked, Ahead, Dispatching
<1>7. CurrentInv'
  BY <1>1 DEF CalmInv, CurrentInv
<1> QED
  BY <1>3, <1>6, <1>7

\* The dispatch ends with nobody's turn.
LEMMA DoneCalm ==
  ASSUME IInv, CalmInv, DispatchDone, UNCHANGED workerVars
  PROVE  TurnInv' /\ WorkInv' /\ CurrentInv' /\ BestInv'
<1>1. /\ mpc = "dispatch" /\ mpc' = "select" /\ last_hash_at' = proof
      /\ UNCHANGED <<toGuide, toWorker, sharedVars, proof, hpc, got, sock, job>>
  BY DEF DispatchDone, MainGoto, taskVars, workerVars, netVars
<1>2. MiningLocked' = MiningLocked
  BY <1>1 DEF MiningLocked
<1>3. TurnInv' /\ BestInv'
  BY <1>1, <1>2 DEF CalmInv, TurnInv, BestInv, Turn, sharedVars
<1>4. ~Turn'
  BY <1>1, <1>2 DEF CalmInv, TurnInv, Turn, sharedVars
<1>5. \A b \in Addr : /\ Handling(b)' = Handling(b)
                      /\ Jobless(b)' = Jobless(b)
                      /\ Idle(b)' = Idle(b)
  BY <1>1 DEF Handling, Jobless, Idle
<1>6. WorkInv'
  BY <1>1, <1>4, <1>5
  DEF CalmInv, WorkInv, OneEach, Marked, Ahead, Dispatching, sharedVars
<1>7. CurrentInv'
  BY <1>1 DEF CalmInv, CurrentInv
<1> QED
  BY <1>3, <1>6, <1>7

\* A new task has nothing in hand.
LEMMA AcceptCalm ==
  ASSUME IInv, CalmInv, NEW a \in Addr, Accept(a), UNCHANGED workerVars
  PROVE  TurnInv' /\ WorkInv' /\ CurrentInv' /\ BestInv'
<1>1. /\ hpc[a] = "none" /\ hpc' = [hpc EXCEPT ![a] = "hello"]
      /\ hpc \in [Addr -> TaskPc]
      /\ UNCHANGED <<toGuide, toWorker, sharedVars, mpc, cur, todo, proof,
                    last_hash_at, got, sock, job>>
  BY DEF Accept, netVars, mainVars, dispatchVars, workerVars, IInv, TypeOK,
     GuideTypeOK
<1>2. MiningLocked' = MiningLocked
  BY <1>1 DEF MiningLocked
<1>3. Turn' = Turn
  BY <1>1, <1>2 DEF Turn, sharedVars
<1>4. \A b \in Addr : /\ Handling(b)' = Handling(b)
                      /\ Jobless(b)' = Jobless(b)
                      /\ Idle(b)' = Idle(b)
  BY <1>1 DEF Handling, Jobless, Idle
<1>5. TurnInv'
  BY <1>1, <1>2, <1>3 DEF CalmInv, TurnInv, sharedVars
<1>6. BestInv'
  BY <1>1, <1>2, <1>3 DEF CalmInv, BestInv, sharedVars
<1>7. WorkInv'
  BY <1>1, <1>3, <1>4
  DEF CalmInv, WorkInv, Quiet, OneEach, Marked, Ahead, Dispatching, sharedVars
<1>8. CurrentInv'
  BY <1>1 DEF CalmInv, CurrentInv
<1> QED
  BY <1>5, <1>6, <1>7, <1>8

\* Main keeps the calm.
LEMMA MainCalm ==
  ASSUME IInv, CalmInv, MainStep, UNCHANGED workerVars,
         SockInv', WorkerTypeOK'
  PROVE  CalmInv'
<1>1. PeaceInv'
  BY PeaceMain DEF IInv, TypeOK, CalmInv
<1>2. CASE \E a \in Addr : Accept(a) \/ DispatchWrite(a)
  BY <1>1, <1>2, AcceptCalm, WriteCalm DEF CalmInv
<1>3. CASE MarkMining \/ DispatchDone
  BY <1>1, <1>3, MarkCalm, DoneCalm DEF CalmInv
<1>4. CASE OwnStep
  BY <1>1, <1>4, OwnQuiet, OwnTurn, QuietIsWellNext DEF CalmInv
<1> QED
  BY <1>2, <1>3, <1>4 DEF MainStep, OwnStep
-----------------------------------------------------------------------------
(***************************************************************************)
(* Tasks.                                                                  *)
(***************************************************************************)

\* While there is work, nobody has the turn, and the mode is Start.
LEMMA WorkIsNobodysTurn ==
  ASSUME GuideTypeOK, CalmInv, NEW a \in Addr, ~Idle(a)
  PROVE  /\ ~Turn /\ ~permit /\ ~MiningLocked /\ action_type = "Start"
         /\ mpc \in {"select", "dispatch", "mark"}
<1>1. ~Turn
  BY DEF CalmInv, WorkInv, Quiet
<1> QED
  BY <1>1 DEF GuideTypeOK, CalmInv, TurnInv, Turn

\* A client's answer is dealt with while main waits, and its client is still
\* marked as mining.
LEMMA AnswerComesLate ==
  ASSUME GuideTypeOK, CalmInv, NEW a \in Addr, toGuide[a] # <<>> \/ Handling(a)
  PROVE  /\ mpc = "select" /\ a \in mining_clients
         /\ toWorker[a] = <<>> /\ Jobless(a)
         /\ ~Turn /\ ~permit /\ ~MiningLocked /\ action_type = "Start"
<1>1. ~Idle(a)
  BY DEF Idle
<1>2. OneEach(a) /\ Marked(a) /\ Ahead(a)
  BY DEF CalmInv, WorkInv
<1>3. ~Dispatching
  BY <1>2 DEF Ahead
<1>4. mpc = "select"
  BY <1>1, <1>3, WorkIsNobodysTurn DEF Dispatching
<1> QED
  BY <1>1, <1>2, <1>4, WorkIsNobodysTurn DEF OneEach, Marked

\* Tasks do not reach their ends.
LEMMA PeaceTask ==
  ASSUME GuideTypeOK, PeaceInv, NEW a \in Addr, TaskStep(a)
  PROVE  /\ PeaceInv' /\ AfterMessage(a) = "reading"
         /\ \/ Hello(a) \/ InsertClient(a) \/ CountCores(a) \/ Receive(a)
            \/ SetBest(a) \/ SetSolution(a) \/ Finish(a) \/ SetSend(a)
            \/ Wake(a)
<1>1. Up
  BY DEF TaskStep, Hello, HelloEof, InsertClient, CountCores, Receive,
     ReceiveEof, SetBest, SetSolution, Finish, SetSend, Wake, LeaveClients,
     DrainExit, SetWait, WaitWake, TaskGoto
<1>2. /\ link[a] # "closed" /\ ~gone[a]
      /\ hpc[a] \notin {"closing", "drain", "setWait", "waitWake"}
  BY <1>1 DEF PeaceInv
<1>3. ~(\/ HelloEof(a) \/ ReceiveEof(a) \/ LeaveClients(a) \/ DrainExit(a)
        \/ SetWait(a) \/ WaitWake(a))
  BY <1>2 DEF HelloEof, ReceiveEof, LeaveClients, DrainExit, SetWait,
     WaitWake, TaskGoto
<1>4. \/ Hello(a) \/ InsertClient(a) \/ CountCores(a) \/ Receive(a)
      \/ SetBest(a) \/ SetSolution(a) \/ Finish(a) \/ SetSend(a) \/ Wake(a)
  BY <1>3 DEF TaskStep
<1>5. AfterMessage(a) = "reading"
  BY <1>2 DEF AfterMessage
<1>6. /\ UNCHANGED <<link, gone>>
      /\ \E to \in TaskPc \ {"closing", "drain", "setWait", "waitWake"} :
           hpc' = [hpc EXCEPT ![a] = to]
  BY <1>4, <1>5 DEF Hello, InsertClient, CountCores, Receive, SetBest,
     SetSolution, Finish, SetSend, Wake, TaskGoto, netVars, TaskPc
<1>7. PeaceInv'
  BY <1>1, <1>6 DEF PeaceInv, GuideTypeOK, Up
<1> QED
  BY <1>4, <1>5, <1>7

\* A client registers: the first one's task gives main the turn, which nobody
\* could have while the mode was Wait.
LEMMA RegisterCalm ==
  ASSUME IInv, SlotInv, CalmInv, NEW a \in Addr, UNCHANGED workerVars,
         Hello(a) \/ InsertClient(a) \/ CountCores(a)
  PROVE  TurnInv' /\ WorkInv' /\ CurrentInv' /\ BestInv' /\ Turn' = Turn
<1>1. /\ UNCHANGED <<toGuide, toWorker, mining_clients, best_difficulty,
                    solution, mpc, cur, todo, proof, last_hash_at, got, sock,
                    job>>
      /\ hpc \in [Addr -> TaskPc] /\ action_type \in {"Wait", "Start", "Send"}
      /\ \E from, to \in {"hello", "insert", "count", "reading"} :
           hpc[a] = from /\ hpc' = [hpc EXCEPT ![a] = to]
  BY DEF Hello, InsertClient, CountCores, TaskGoto, netVars, mainVars,
     dispatchVars, workerVars, IInv, TypeOK, GuideTypeOK
<1>2. MiningLocked' = MiningLocked
  BY <1>1 DEF MiningLocked
<1>3. \A b \in Addr : /\ Handling(b)' = Handling(b)
                      /\ Jobless(b)' = Jobless(b)
                      /\ Idle(b)' = Idle(b)
  BY <1>1 DEF Handling, Jobless, Idle
<1>4. \/ UNCHANGED <<action_type, permit>>
      \/ action_type = "Wait" /\ action_type' = "Start" /\ permit'
  <2>1. CASE CountCores(a)
    <3>1. permit \in BOOLEAN /\ permit' = (permit \/ action_type = "Wait")
      BY <2>1 DEF CountCores, IInv, TypeOK, GuideTypeOK
    <3>2. action_type' = IF action_type = "Wait" THEN "Start" ELSE action_type
      BY <2>1 DEF CountCores
    <3> QED
      BY <3>1, <3>2
  <2>2. CASE ~CountCores(a)
    BY <2>2 DEF Hello, InsertClient
  <2> QED
    BY <2>1, <2>2
<1>5. Turn' = Turn
  BY <1>1, <1>2, <1>4 DEF Turn
<1>6. TurnInv'
  BY <1>1, <1>2, <1>4, <1>5 DEF CalmInv, TurnInv, MiningLocked
<1>7. total_cores > 0 \/ action_type' # "Wait" => total_cores' > 0
  <2>1. total_cores \in Nat /\ cores[a] \in Nat
    BY CoresNat DEF IInv, TypeOK, GuideTypeOK
  <2>2. CASE CountCores(a)
    <3>1. cores[a] > 0
      BY <2>1, <2>2 DEF CountCores, TaskGoto, IInv, TaskInv, SlotInv
    <3> QED
      BY <2>1, <2>2, <3>1 DEF CountCores
  <2>3. CASE ~CountCores(a)
    BY <2>3 DEF Hello, InsertClient, CalmInv, BestInv
  <2> QED
    BY <2>2, <2>3
<1>8. BestInv'
  BY <1>1, <1>2, <1>4, <1>5, <1>7 DEF CalmInv, BestInv
<1>9. WorkInv'
  BY <1>1, <1>3, <1>5
  DEF CalmInv, WorkInv, Quiet, OneEach, Marked, Ahead, Dispatching
<1>10. CurrentInv'
  BY <1>1 DEF CalmInv, CurrentInv
<1> QED
  BY <1>5, <1>6, <1>8, <1>9, <1>10

\* An answer goes from the stream into the task's hands.
LEMMA ReceiveCalm ==
  ASSUME IInv, CalmInv, NEW a \in Addr, Receive(a), UNCHANGED workerVars
  PROVE  TurnInv' /\ WorkInv' /\ CurrentInv' /\ BestInv'
<1> DEFINE s == Head(toGuide[a])
<1>1. /\ toGuide[a] # <<>> /\ hpc[a] = "reading"
      /\ hpc \in [Addr -> TaskPc] /\ got \in [Addr -> Solution \cup {NoSolution}]
      /\ toGuide \in [Addr -> Seq(Solution)]
      /\ UNCHANGED <<toWorker, sharedVars, mpc, cur, todo, proof, last_hash_at,
                    sock, job>>
      /\ toGuide' = [toGuide EXCEPT ![a] = Tail(@)]
      /\ \/ /\ hpc' = [hpc EXCEPT ![a] = "setBest"]
            /\ got' = [got EXCEPT ![a] = s]
         \/ /\ hpc' = [hpc EXCEPT ![a] = "finish"]
            /\ got' = [got EXCEPT ![a] = NoSolution]
  BY DEF Receive, TaskGoto, mainVars, dispatchVars, workerVars, IInv, TypeOK,
     GuideTypeOK, NetworkTypeOK
<1>2. /\ mpc = "select" /\ a \in mining_clients /\ toWorker[a] = <<>>
      /\ Jobless(a) /\ ~Turn
  BY <1>1, AnswerComesLate DEF IInv, TypeOK
<1>3. MiningLocked' = MiningLocked
  BY <1>1 DEF MiningLocked
<1>4. Turn' = Turn
  BY <1>1, <1>3 DEF Turn, sharedVars
<1>5. TurnInv'
  BY <1>1, <1>3, <1>4 DEF CalmInv, TurnInv, sharedVars
<1>6. BestInv'
  BY <1>1, <1>3, <1>4 DEF CalmInv, BestInv, sharedVars
<1>7. toGuide'[a] = <<>> /\ s = toGuide[a][1]
  <2>1. Len(toGuide[a]) = 1
    BY <1>1 DEF CalmInv, WorkInv, OneEach
  <2> QED
    BY <1>1, <2>1, SingleTail
<1>8. \A b \in Addr : /\ Jobless(b)' = Jobless(b)
                      /\ b # a => /\ Handling(b)' = Handling(b)
                                  /\ Idle(b)' = Idle(b)
                                  /\ toGuide'[b] = toGuide[b]
                                  /\ hpc'[b] = hpc[b] /\ got'[b] = got[b]
  BY <1>1 DEF Handling, Jobless, Idle
<1>9. WorkInv'
  <2> SUFFICES ASSUME NEW b \in Addr PROVE OneEach(b)' /\ Marked(b)' /\ Ahead(b)'
    BY <1>2, <1>4 DEF WorkInv
  <2>1. OneEach(b) /\ Marked(b) /\ Ahead(b)
    BY DEF CalmInv, WorkInv
  <2>2. CASE b = a
    BY <1>1, <1>2, <1>7, <1>8, <2>2
    DEF OneEach, Marked, Ahead, Dispatching, sharedVars
  <2>3. CASE b # a
    BY <1>1, <1>8, <2>1, <2>3
    DEF OneEach, Marked, Ahead, Dispatching, sharedVars
  <2> QED
    BY <2>2, <2>3
<1> HIDE DEF s
<1>10. CurrentInv'
  <2>1. CurrentInv
    BY DEF CalmInv
  <2> QED
    BY <1>1, <1>7, <1>8, <2>1 DEF CurrentInv
<1> QED
  BY <1>5, <1>6, <1>9, <1>10
\* The task records the answer, in two critical sections.
LEMMA RecordCalm ==
  ASSUME IInv, CalmInv, NEW a \in Addr, SetBest(a) \/ SetSolution(a),
         UNCHANGED workerVars
  PROVE  TurnInv' /\ WorkInv' /\ CurrentInv' /\ BestInv'
<1>1. /\ UNCHANGED <<toGuide, toWorker, mining_clients, action_type, permit,
                    total_cores, mpc, cur, todo, proof, last_hash_at, sock, job>>
      /\ hpc \in [Addr -> TaskPc] /\ got \in [Addr -> Solution \cup {NoSolution}]
      /\ Handling(a) /\ hpc[a] \in {"setBest", "setSolution"}
  BY DEF SetBest, SetSolution, TaskGoto, netVars, mainVars, dispatchVars,
     workerVars, IInv, TypeOK, GuideTypeOK, Handling
<1>2. \/ /\ hpc' = [hpc EXCEPT ![a] = "setSolution"]
         /\ UNCHANGED <<got, solution>>
      \/ /\ hpc' = [hpc EXCEPT ![a] = "finish"]
         /\ hpc[a] = "setSolution"
         /\ got' = [got EXCEPT ![a] = NoSolution] /\ solution' = got[a]
         /\ UNCHANGED best_difficulty
  BY DEF SetBest, SetSolution, TaskGoto
<1>3. mpc = "select" /\ ~Turn /\ ~permit /\ ~MiningLocked /\ action_type = "Start"
  BY <1>1, AnswerComesLate DEF IInv, TypeOK
<1>4. MiningLocked' = MiningLocked
  BY <1>1, <1>2 DEF MiningLocked
<1>5. Turn' = Turn
  BY <1>1, <1>4 DEF Turn
<1>6. TurnInv'
  BY <1>1, <1>2, <1>4, <1>5 DEF CalmInv, TurnInv
<1>7. got[a].challenge = proof
  BY <1>1 DEF CalmInv, CurrentInv
<1>8. BestInv'
  <2>1. best_difficulty' > 0 =>
          solution'.challenge = proof \/ \E b \in Addr : hpc'[b] = "setSolution"
    BY <1>1, <1>2, <1>7
  <2> QED
    BY <1>1, <1>3, <1>4, <1>5, <2>1 DEF CalmInv, BestInv
<1>9. \A b \in Addr : /\ Handling(b)' = Handling(b)
                      /\ Jobless(b)' = Jobless(b)
                      /\ Idle(b)' = Idle(b)
  BY <1>1, <1>2 DEF Handling, Jobless, Idle
<1>10. WorkInv'
  BY <1>1, <1>3, <1>5, <1>9
  DEF CalmInv, WorkInv, OneEach, Marked, Ahead, Dispatching
<1>11. CurrentInv'
  BY <1>1, <1>2, <1>7 DEF CalmInv, CurrentInv
<1> QED
  BY <1>6, <1>8, <1>10, <1>11

\* The last answer gives its task the turn; all work is done by then.
LEMMA FinishCalm ==
  ASSUME IInv, CalmInv, NEW a \in Addr, Finish(a), AfterMessage(a) = "reading",
         UNCHANGED workerVars, SockInv', WorkerTypeOK'
  PROVE  TurnInv' /\ WorkInv' /\ CurrentInv' /\ BestInv'
<1>1. /\ UNCHANGED <<toGuide, toWorker, action_type, permit, total_cores,
                    best_difficulty, solution, mpc, cur, todo, proof,
                    last_hash_at, got, sock, job>>
      /\ hpc \in [Addr -> TaskPc] /\ hpc[a] = "finish" /\ Handling(a)
      /\ mining_clients' = mining_clients \ {a}
      /\ hpc' = [hpc EXCEPT ![a] = IF AllAnswered(mining_clients')
                                   THEN "setSend" ELSE "reading"]
  BY DEF Finish, TaskGoto, netVars, mainVars, dispatchVars, workerVars, IInv,
     TypeOK, GuideTypeOK, Handling
<1>2. /\ mpc = "select" /\ a \in mining_clients /\ toWorker[a] = <<>>
      /\ Jobless(a) /\ ~Turn /\ ~permit /\ ~MiningLocked
      /\ action_type = "Start"
  BY <1>1, AnswerComesLate DEF IInv, TypeOK
<1>3. OneEach(a) /\ proof # 0 /\ proof = last_hash_at
  BY <1>2 DEF CalmInv, WorkInv, BestInv
<1>4. ~Handling(a)' /\ \A b \in Addr :
        /\ Jobless(b)' = Jobless(b)
        /\ b # a => Handling(b)' = Handling(b) /\ Idle(b)' = Idle(b)
  BY <1>1 DEF Handling, Jobless, Idle
<1>5. Idle(a)'
  BY <1>1, <1>2, <1>3, <1>4 DEF OneEach, Idle
<1>6. CASE AllAnswered(mining_clients')
  <2>1. mining_clients' = {} /\ best_difficulty > 0
        /\ hpc' = [hpc EXCEPT ![a] = "setSend"]
    BY <1>1, <1>6 DEF AllAnswered
  <2>2. \A b \in Addr : b # a => Idle(b)
    BY <1>1, <1>2, <2>1 DEF CalmInv, WorkInv, Marked
  <2>3. Quiet'
    BY <1>4, <1>5, <2>1, <2>2 DEF Quiet
  <2>4. solution.challenge = proof
    BY <1>1, <1>2, <2>1, <2>2 DEF Idle, Handling, CalmInv, BestInv
  <2>5. /\ MiningLocked'
        /\ \A b \in Addr : hpc'[b] \in {"setSend", "wake"} => b = a
    BY <1>1, <1>2, <2>1 DEF MiningLocked
  <2>6. TurnInv'
    BY <1>1, <1>2, <2>1, <2>5 DEF CalmInv, TurnInv, Turn
  <2>7. BestInv'
    BY <1>1, <1>2, <1>3, <2>1, <2>4, <2>5 DEF CalmInv, BestInv, Turn
  <2> QED
    BY <2>3, <2>6, <2>7, QuietIsWellNext
<1>7. CASE ~AllAnswered(mining_clients')
  <2>1. hpc' = [hpc EXCEPT ![a] = "reading"]
    BY <1>1, <1>7
  <2>2. MiningLocked' = MiningLocked
    BY <1>1, <2>1 DEF MiningLocked
  <2>3. Turn' = Turn
    BY <1>1, <2>2 DEF Turn
  <2>4. TurnInv'
    BY <1>1, <2>1, <2>2, <2>3 DEF CalmInv, TurnInv
  <2>5. BestInv'
    BY <1>1, <1>2, <1>3, <2>1, <2>2, <2>3 DEF CalmInv, BestInv
  <2>6. WorkInv'
    <3> SUFFICES ASSUME NEW b \in Addr
                 PROVE  OneEach(b)' /\ Marked(b)' /\ Ahead(b)'
      BY <1>2, <2>3 DEF WorkInv
    <3>1. OneEach(b) /\ Marked(b) /\ Ahead(b)
      BY DEF CalmInv, WorkInv
    <3>2. CASE b = a
      BY <1>1, <1>2, <1>5, <3>2 DEF Idle, OneEach, Marked, Ahead, Dispatching
    <3>3. CASE b # a
      BY <1>1, <1>4, <3>1, <3>3 DEF OneEach, Marked, Ahead, Dispatching
    <3> QED
      BY <3>2, <3>3
  <2>7. CurrentInv'
    BY <1>1, <2>1 DEF CalmInv, CurrentInv
  <2> QED
    BY <2>4, <2>5, <2>6, <2>7
<1> QED
  BY <1>6, <1>7

\* The turn goes from the task through Send and the permit to main.
LEMMA SendCalm ==
  ASSUME IInv, CalmInv, NEW a \in Addr, SetSend(a) \/ Wake(a),
         AfterMessage(a) = "reading", UNCHANGED workerVars,
         SockInv', WorkerTypeOK'
  PROVE  TurnInv' /\ WorkInv' /\ CurrentInv' /\ BestInv'
<1>1. /\ UNCHANGED <<toGuide, toWorker, mining_clients, total_cores,
                    best_difficulty, solution, mpc, proof, last_hash_at, sock,
                    job>>
      /\ hpc \in [Addr -> TaskPc] /\ hpc[a] \in {"setSend", "wake"}
      /\ MiningLocked
  BY DEF SetSend, Wake, TaskGoto, netVars, mainVars, workerVars, IInv, TypeOK,
     GuideTypeOK, MiningLocked
<1>2. /\ Turn /\ mpc = "select" /\ ~permit
      /\ \A b \in Addr : b # a => hpc[b] \notin {"setSend", "wake"}
  BY <1>1 DEF Turn, CalmInv, TurnInv
<1>3. \/ /\ hpc[a] = "setSend" /\ hpc' = [hpc EXCEPT ![a] = "wake"]
         /\ action_type' = "Send" /\ UNCHANGED permit
      \/ /\ hpc[a] = "wake" /\ hpc' = [hpc EXCEPT ![a] = "reading"]
         /\ permit' = TRUE /\ UNCHANGED action_type
  BY DEF SetSend, Wake, TaskGoto
<1>4. action_type \in {"Start", "Send"} /\ action_type' = "Send"
  BY <1>1, <1>3 DEF CalmInv, TurnInv
<1>5. Quiet'
  <2>1. Quiet
    BY <1>2 DEF CalmInv, WorkInv
  <2>2. \A b \in Addr : Handling(b)' => Handling(b)
    BY <1>1, <1>3 DEF Handling
  <2> QED
    BY <1>1, <2>1, <2>2, QuietStays
<1>6. MiningLocked' \/ permit'
  BY <1>1, <1>3 DEF MiningLocked
<1>7. permit' => ~MiningLocked'
  BY <1>1, <1>2, <1>3 DEF MiningLocked
<1>8. TurnInv'
  BY <1>1, <1>2, <1>3, <1>4, <1>6, <1>7 DEF CalmInv, TurnInv, Turn
<1>9. BestInv'
  BY <1>1, <1>2, <1>3, <1>4 DEF CalmInv, BestInv
<1> QED
  BY <1>5, <1>8, <1>9, QuietIsWellNext

\* Tasks keep the calm.
LEMMA TaskCalm ==
  ASSUME IInv, ConnInv, CalmInv, NEW a \in Addr, TaskStep(a),
         UNCHANGED workerVars, SockInv', WorkerTypeOK'
  PROVE  CalmInv'
<1>1. /\ PeaceInv' /\ AfterMessage(a) = "reading"
      /\ \/ Hello(a) \/ InsertClient(a) \/ CountCores(a) \/ Receive(a)
         \/ SetBest(a) \/ SetSolution(a) \/ Finish(a) \/ SetSend(a) \/ Wake(a)
  BY PeaceTask DEF IInv, TypeOK, CalmInv
<1>2. TurnInv' /\ WorkInv' /\ CurrentInv' /\ BestInv'
  BY <1>1, RegisterCalm, ReceiveCalm, RecordCalm, FinishCalm, SendCalm
  DEF ConnInv
<1> QED
  BY <1>1, <1>2 DEF CalmInv
-----------------------------------------------------------------------------
(***************************************************************************)
(* Workers.                                                                *)
(***************************************************************************)

\* A work order is not the absence of one.
LEMMA WorkIsSomething == NoWork \notin Work
BY NetworkAssumption DEF NoWork, Work, Challenge

\* What a worker does leaves the turn as it is.
LEMMA TurnOfGuide ==
  ASSUME CalmInv, UNCHANGED guideVars
  PROVE  TurnInv' /\ BestInv' /\ Turn' = Turn
<1>1. UNCHANGED <<sharedVars, mpc, proof, last_hash_at, hpc>>
  BY DEF guideVars, mainVars, taskVars
<1>2. MiningLocked' = MiningLocked
  BY <1>1 DEF MiningLocked
<1>3. Turn' = Turn
  BY <1>1, <1>2 DEF Turn, sharedVars
<1>4. TurnInv'
  BY <1>1, <1>2, <1>3 DEF CalmInv, TurnInv, sharedVars
<1>5. BestInv'
  BY <1>1, <1>2, <1>3 DEF CalmInv, BestInv, sharedVars
<1> QED
  BY <1>3, <1>4, <1>5

\* A worker that connects or greets has no work.
LEMMA ArriveCalm ==
  ASSUME IInv, SockInv, CalmInv, NEW w \in Worker, UNCHANGED guideVars,
         SendCores(w) \/ ConnectRefused(w) \/ \E a \in Addr : Connect(w, a)
  PROVE  CalmInv'
<1>1. /\ UNCHANGED <<toGuide, toWorker, mining_clients, job, mpc, cur, todo,
                    proof, hpc, got, gone>>
      /\ link' = link \/ \E a \in Addr : link' = [link EXCEPT ![a] = "open"]
      /\ link \in [Addr -> {"free", "open", "closed"}]
  BY DEF SendCores, ConnectRefused, Connect, OpenLink, netVars, guideVars,
     sharedVars, mainVars, dispatchVars, taskVars, IInv, TypeOK, NetworkTypeOK
<1>2. PeaceInv'
  BY <1>1 DEF CalmInv, PeaceInv, Up
<1>3. sock' = sock \/ (job[w] = NoWork /\ \E a \in Addr : sock' = [sock EXCEPT ![w] = a])
  BY DEF SendCores, ConnectRefused, Connect, WorkerGoto, SockInv
<1>4. \A b \in Addr : Jobless(b) => Jobless(b)'
  BY <1>1, <1>3 DEF Jobless, IInv, TypeOK, WorkerTypeOK
<1>5. \A b \in Addr : Handling(b)' = Handling(b) /\ (Idle(b) => Idle(b)')
  BY <1>1, <1>4 DEF Idle, Handling
<1>6. WorkInv'
  BY <1>1, <1>4, <1>5, TurnOfGuide
  DEF CalmInv, WorkInv, Quiet, OneEach, Marked, Ahead, Dispatching
<1>7. CurrentInv'
  BY <1>1 DEF CalmInv, CurrentInv
<1> QED
  BY <1>2, <1>6, <1>7, TurnOfGuide DEF CalmInv

\* A worker that reads its order or writes its answer keeps the one piece of
\* work that its client has.
LEMMA MineCalm ==
  ASSUME IInv, SockInv, CalmInv, ~EarlyAnswers, NEW w \in Worker,
         UNCHANGED guideVars,
         ReadWork(w) \/ \E d \in Difficulty : Answer(w, d)
  PROVE  CalmInv'
<1> DEFINE a == sock[w]
<1>1. /\ UNCHANGED <<link, sock, mining_clients, mpc, cur, todo, proof, hpc,
                    got, gone>>
      /\ toWorker \in [Addr -> Seq(Work)] /\ toGuide \in [Addr -> Seq(Solution)]
      /\ job \in [Worker -> Work \cup {NoWork}]
  BY DEF ReadWork, Answer, MineAndSend, guideVars, sharedVars, mainVars,
     dispatchVars, taskVars, IInv, TypeOK, NetworkTypeOK, WorkerTypeOK
<1>2. a \in Addr /\ \A v \in Worker : sock[v] = a => v = w
  BY NetworkAssumption
  DEF ReadWork, Answer, MineAndSend, WorkerGoto, IInv, WorkerInv, SockInv
<1>3. OneEach(a) /\ Marked(a) /\ Ahead(a)
  BY <1>2 DEF CalmInv, WorkInv
<1>4. CurrentInv
  BY DEF CalmInv
<1>5. PeaceInv'
  BY <1>1 DEF CalmInv, PeaceInv, Up
<1>6. CASE ReadWork(w)
  <2>1. /\ toWorker[a] # <<>>
        /\ job' = [job EXCEPT ![w] = Head(toWorker[a])]
        /\ toWorker' = [toWorker EXCEPT ![a] = Tail(@)]
        /\ toGuide' = toGuide
    BY <1>6 DEF ReadWork
  <2>2. ~Idle(a) /\ Len(toWorker[a]) = 1 /\ toGuide[a] = <<>> /\ ~Handling(a)
    BY <1>3, <2>1 DEF Idle, OneEach
  <2>3. toWorker'[a] = <<>> /\ job'[w] = toWorker[a][1]
    BY <1>1, <1>2, <2>1, <2>2, SingleTail
  <2>4. ~Turn
    BY <1>2, <2>2, WorkIsNobodysTurn DEF IInv, TypeOK
  <2>5. \A b \in Addr :
          /\ Handling(b)' = Handling(b)
          /\ b # a => /\ Jobless(b)' = Jobless(b) /\ Idle(b)' = Idle(b)
                      /\ toWorker'[b] = toWorker[b]
    BY <1>1, <1>2, <2>1 DEF Handling, Jobless, Idle
  <2>6. WorkInv'
    <3> SUFFICES ASSUME NEW b \in Addr
                 PROVE  OneEach(b)' /\ Marked(b)' /\ Ahead(b)'
      BY <2>4, TurnOfGuide DEF WorkInv
    <3>1. OneEach(b) /\ Marked(b) /\ Ahead(b)
      BY DEF CalmInv, WorkInv
    <3>2. CASE b = a
      BY <1>1, <1>3, <2>1, <2>2, <2>3, <2>5, <3>2
      DEF OneEach, Marked, Ahead, Dispatching
    <3>3. CASE b # a
      BY <1>1, <2>1, <2>5, <3>1, <3>3 DEF OneEach, Marked, Ahead, Dispatching
    <3> QED
      BY <3>2, <3>3
  <2>7. CurrentInv'
    BY <1>1, <1>2, <1>4, <2>1, <2>3, <2>5 DEF CurrentInv
  <2> QED
    BY <1>5, <2>6, <2>7, TurnOfGuide DEF CalmInv
<1>7. CASE \E d \in Difficulty : Answer(w, d)
  <2>1. PICK d \in Difficulty : Answer(w, d)
    BY <1>7
  <2> DEFINE s == [challenge |-> job[w].challenge, difficulty |-> d]
  <2>2. /\ toWorker' = toWorker /\ ~Dispatching
        /\ toGuide' = [toGuide EXCEPT ![a] = Append(@, s)]
        /\ job' = [job EXCEPT ![w] = NoWork]
    BY <2>1 DEF Answer, MineAndSend
  <2>3. job[w] \in Work /\ job[w] # NoWork
    BY <2>1, WorkIsSomething DEF Answer, MineAndSend, WorkerGoto, IInv, WorkerInv
  <2>4. ~Jobless(a) /\ ~Idle(a)
    BY <2>3 DEF Jobless, Idle
  <2>5. toWorker[a] = <<>> /\ toGuide[a] = <<>> /\ ~Handling(a)
    BY <1>3, <2>4 DEF OneEach
  <2>6. ~Turn
    BY <1>2, <2>4, WorkIsNobodysTurn DEF IInv, TypeOK
  <2>7. s \in Solution /\ s.challenge = proof
    <3>1. s.challenge = proof
      BY <1>4, <2>3 DEF CurrentInv
    <3>2. s \in Solution
      BY <2>3, NetworkAssumption DEF Work, Solution
    <3> QED
      BY <3>1, <3>2
  <2> HIDE DEF s
  <2>8. Len(toGuide'[a]) = 1 /\ toGuide'[a][1] = s
    BY <1>1, <1>2, <2>2, <2>5, <2>7, SingleAppend
  <2>9. Jobless(a)'
    BY <1>1, <1>2, <2>2 DEF Jobless
  <2>10. \A b \in Addr :
           /\ Handling(b)' = Handling(b)
           /\ b # a => /\ Jobless(b)' = Jobless(b) /\ Idle(b)' = Idle(b)
                       /\ toGuide'[b] = toGuide[b]
    BY <1>1, <1>2, <2>2 DEF Handling, Jobless, Idle
  <2>11. WorkInv'
    <3> SUFFICES ASSUME NEW b \in Addr
                 PROVE  OneEach(b)' /\ Marked(b)' /\ Ahead(b)'
      BY <2>6, TurnOfGuide DEF WorkInv
    <3>1. OneEach(b) /\ Marked(b) /\ Ahead(b)
      BY DEF CalmInv, WorkInv
    <3>2. CASE b = a
      BY <1>1, <1>3, <2>2, <2>4, <2>5, <2>8, <2>9, <2>10, <3>2
      DEF OneEach, Marked, Ahead, Dispatching
    <3>3. CASE b # a
      BY <1>1, <2>2, <2>10, <3>1, <3>3 DEF OneEach, Marked, Ahead, Dispatching
    <3> QED
      BY <3>2, <3>3
  <2>12. CurrentInv'
    BY <1>1, <1>2, <1>4, <2>2, <2>7, <2>8, <2>10 DEF CurrentInv
  <2> QED
    BY <1>5, <2>11, <2>12, TurnOfGuide DEF CalmInv
<1> QED
  BY <1>6, <1>7

\* A worker loses its stream only when the guide has ended, and then main had
\* the turn and no worker any work.
LEMMA LoseCalm ==
  ASSUME IInv, CalmInv, NEW w \in Worker, GuideLost(w), ~Up,
         UNCHANGED guideVars, SockInv', WorkerTypeOK'
  PROVE  CalmInv'
<1>1. /\ UNCHANGED <<mining_clients, mpc, hpc, gone>>
      /\ toWorker' = [toWorker EXCEPT ![sock[w]] = <<>>]
      /\ toGuide' = toGuide \/ toGuide' = [toGuide EXCEPT ![sock[w]] = <<>>]
      /\ sock' = [sock EXCEPT ![w] = NoAddr]
      /\ job' = [job EXCEPT ![w] = NoWork]
      /\ job \in [Worker -> Work \cup {NoWork}]
      /\ sock \in [Worker -> Addr \cup {NoAddr}]
      /\ toWorker \in [Addr -> Seq(Work)] /\ toGuide \in [Addr -> Seq(Solution)]
  BY DEF GuideLost, LoseSocket, CloseLink, guideVars, sharedVars, mainVars,
     taskVars, IInv, TypeOK, NetworkTypeOK, WorkerTypeOK
<1>2. Quiet
  BY DEF Up, CalmInv, WorkInv, Turn
<1>3. \A b \in Addr : Idle(b)'
  BY <1>1, <1>2, NetworkAssumption DEF Quiet, Idle, Handling, Jobless
<1>4. Quiet'
  BY <1>1, <1>2, <1>3 DEF Quiet
<1>5. PeaceInv'
  BY <1>1 DEF PeaceInv, Up
<1> QED
  BY <1>4, <1>5, TurnOfGuide, QuietIsWellNext DEF CalmInv

\* Workers keep the calm: none drops out or divides by zero.
LEMMA WorkerCalm ==
  ASSUME MaxDrops = 0, ~EarlyAnswers, IInv, ConnInv, CalmInv, NEW w \in Worker,
         WorkerStep(w) \/ Drop(w), UNCHANGED guideVars, SockInv', WorkerTypeOK'
  PROVE  CalmInv'
<1>1. ~Drop(w)
  BY DEF Drop, IInv, TypeOK, WorkerTypeOK
<1>2. ~DividePanic(w)
  BY WorkIsSomething
  DEF DividePanic, WorkerGoto, IInv, WorkerInv, CalmInv, CurrentInv
<1> QED
  BY <1>1, <1>2, ArriveCalm, MineCalm, LoseCalm DEF WorkerStep, ConnInv

-----------------------------------------------------------------------------
(***************************************************************************)
(* The theorems.                                                           *)
(***************************************************************************)

\* At first nobody is there.
LEMMA InitCalm == Init => CalmInv
<1> SUFFICES ASSUME Init PROVE CalmInv
  OBVIOUS
<1> USE DEF Init, NetworkInit, GuideInit, WorkerInit
<1>1. PeaceInv
  BY DEF PeaceInv
<1>2. TurnInv
  BY DEF TurnInv, MiningLocked
<1>3. WorkInv
  BY DEF WorkInv, Quiet, OneEach, Marked, Ahead, Idle, Handling, Jobless
<1>4. CurrentInv
  BY DEF CurrentInv
<1>5. BestInv
  BY DEF BestInv, MiningLocked
<1> QED
  BY <1>1, <1>2, <1>3, <1>4, <1>5 DEF CalmInv

\* Every step keeps the calm.
LEMMA NextCalm ==
  ASSUME MaxDrops = 0, ~EarlyAnswers
  PROVE  IInv /\ IInv' /\ DispatchInv /\ DispatchInv' /\ CalmInv /\ [Next]_vars
           => CalmInv'
<1> SUFFICES ASSUME IInv, IInv', DispatchInv, DispatchInv', CalmInv, [Next]_vars
             PROVE  CalmInv'
  OBVIOUS
<1>1. ConnInv /\ SockInv' /\ WorkerTypeOK'
  BY DEF DispatchInv, ConnInv, IInv, TypeOK
<1>2. CASE MainStep /\ UNCHANGED workerVars
  BY <1>1, <1>2, MainCalm
<1>3. ASSUME NEW a \in Addr, TaskStep(a), UNCHANGED workerVars
      PROVE  CalmInv'
  BY <1>1, <1>3, TaskCalm
<1>4. ASSUME NEW w \in Worker, WorkerStep(w) \/ Drop(w), UNCHANGED guideVars
      PROVE  CalmInv'
  BY <1>1, <1>4, WorkerCalm
<1>5. CASE (TxLands /\ UNCHANGED workerVars) \/ UNCHANGED vars
  <2>1. UNCHANGED <<netVars, sharedVars, mpc, proof, last_hash_at, todo, cur,
                   taskVars, workerVars>>
    BY <1>5 DEF TxLands, vars, guideVars, mainVars, dispatchVars
  <2> USE <2>1 DEF netVars, sharedVars, taskVars, workerVars
  <2>2. /\ MiningLocked' = MiningLocked
        /\ \A b \in Addr : /\ Handling(b)' = Handling(b)
                           /\ Jobless(b)' = Jobless(b)
    BY DEF MiningLocked, Handling, Jobless
  <2>3. Turn' = Turn /\ \A b \in Addr : Idle(b)' = Idle(b)
    BY <2>2 DEF Turn, Idle
  <2>4. PeaceInv' /\ TurnInv'
    BY <2>2, <2>3 DEF CalmInv, PeaceInv, Up, TurnInv
  <2>5. WorkInv'
    BY <2>2, <2>3
    DEF CalmInv, WorkInv, Quiet, OneEach, Marked, Ahead, Dispatching
  <2>6. CurrentInv' /\ BestInv'
    BY <2>2, <2>3 DEF CalmInv, CurrentInv, BestInv
  <2> QED
    BY <2>4, <2>5, <2>6 DEF CalmInv
<1> QED
  BY <1>2, <1>3, <1>4, <1>5 DEF Next, GuideStep

\* A cluster without drops and early answers is calm.
LEMMA Calm ==
  ASSUME MaxDrops = 0, ~EarlyAnswers
  PROVE  Spec => []CalmInv
<1>1. IInv /\ IInv' /\ DispatchInv /\ DispatchInv' /\ CalmInv /\ [Next]_vars
        => CalmInv'
  BY NextCalm
<1> QED
  BY <1>1, Inductive, InitDispatch, NextDispatch, InitCalm, PTL DEF Spec

\* While nobody leaves and no answer overtakes the dispatch loop, the guide
\* decides to submit only after the last answer of the epoch is accounted
\* for: handle_client's test of mining_clients and best_difficulty is enough.
THEOREM SendAfterAllAnswersCorrect ==
  ASSUME MaxDrops = 0, ~EarlyAnswers
  PROVE  Spec => []SendAfterAllAnswers
<1>1. CalmInv => SendAfterAllAnswers
  BY DEF CalmInv, TurnInv, WorkInv, Quiet, Idle, Handling, Jobless,
     SendAfterAllAnswers, Outstanding
<1> QED
  BY <1>1, Calm, PTL

\* ... and submit_mining_data never unwraps an absent solution, nor submits
\* one for another challenge than the last one handed out, whatever becomes
\* of the submissions, also when it is a resend.
THEOREM SubmitsCurrentCorrect ==
  ASSUME MaxDrops = 0, ~EarlyAnswers
  PROVE  Spec => []SubmitsCurrent
<1>1. CalmInv => SubmitsCurrent
  BY DEF CalmInv, TurnInv, BestInv, Turn, SubmitsCurrent
<1> QED
  BY <1>1, Calm, PTL

-----------------------------------------------------------------------------
(***************************************************************************)
(* A calm cluster implements MiningEpochs, for any number of workers,      *)
(* addresses and task threads, whatever the nodes' lag and the answers'    *)
(* difficulties: one order per client and challenge, one of the answers    *)
(* submitted, after the last of them, and nothing landed that was not      *)
(* submitted.                                                              *)
(***************************************************************************)
\* The difficulty of what would be submitted for the challenge handed out.
Best == IF solution.challenge = Handed THEN solution.difficulty ELSE 0

\* On one thread one task runs.
RunnerInv == THREADS = 1 => \A a, b \in Running : a = b

\* There is no solution before the first dispatch, and none of difficulty 0.
\* With reads that are up to date the proof to be handed out is the chain's:
\* what is still under way is for an older one, and cannot land.
ChainInv ==
  /\ last_hash_at = 0 => solution.challenge = 0
  /\ solution.challenge # 0 => solution.difficulty > 0
  /\ action_type # "Wait" => clients # {}
  /\ ~LaggingNodes =>
       /\ last_hash_at <= proof
       /\ last_hash_at < proof => proof = chain
       /\ solution.challenge <= last_hash_at
       /\ sending.challenge <= last_hash_at

\* An answer on its way to be stored is one.  On one thread the two cells of
\* the best answer agree, but between their two updates, and an answer that
\* was found better still is when it is stored.
AnswerInv ==
  /\ \A a \in Addr :
       hpc[a] \in {"setBest", "setSolution"} => got[a].difficulty > 0
  /\ THREADS = 1 =>
       /\ ~Turn => \/ best_difficulty = Best
                   \/ \E a \in Addr : hpc[a] = "setSolution"
       /\ \A a \in Addr :
            /\ hpc[a] \in {"setBest", "setSolution"} => got[a].difficulty > Best
            /\ hpc[a] = "setSolution" => best_difficulty = got[a].difficulty

EpochInv == RunnerInv /\ ChainInv /\ AnswerInv

AllInv == IInv /\ DispatchInv /\ CalmInv /\ EpochInv

\* A step of MiningEpochs, or none.
EpochStep == Epochs!Next \/ UNCHANGED Epochs!epochVars

-----------------------------------------------------------------------------
\* What changes none of the cells that the epochs are made of is a stutter.
LEMMA Stutter ==
  ASSUME UNCHANGED <<chain, clients, solution, sending>>, Handed' = Handed,
         Awaited' = Awaited, \A a \in Addr : Mined(a)' = Mined(a)
  PROVE  EpochStep
BY DEF EpochStep, Epochs!epochVars

\* A task that needs a free thread finds none of the others running.
LEMMA FreeIsAlone ==
  ASSUME THREADS = 1, FreeThread
  PROVE  Running = {}
<1>1. IsFiniteSet(Running)
  BY NetworkAssumption, FS_Subset DEF Running
<1>2. Cardinality(Running) = 0
  BY <1>1, FS_CardinalityType DEF FreeThread
<1> QED
  BY <1>1, <1>2, FS_EmptySet

\* While somebody has the turn, nothing is awaited.
LEMMA QuietAwaits ==
  ASSUME Quiet, ~Dispatching
  PROVE  Awaited = {}
BY DEF Quiet, Awaited

\* At first nothing is handed out.
LEMMA InitEpoch == Init => EpochInv /\ Epochs!Init
<1> SUFFICES ASSUME Init PROVE EpochInv /\ Epochs!Init
  OBVIOUS
<1> USE DEF Init, NetworkInit, GuideInit, WorkerInit
<1>1. EpochInv
  BY DEF EpochInv, RunnerInv, ChainInv, AnswerInv, Running, Turn, NoSolution
<1>2. Epochs!Init
  BY DEF Epochs!Init, Epochs!Nothing, Handed, Dispatching, Awaited, Mined,
     NoSolution
<1> QED
  BY <1>1, <1>2

-----------------------------------------------------------------------------
(***************************************************************************)
(* Main.                                                                   *)
(***************************************************************************)

\* Outside of a dispatch main changes nothing that the clients see; it takes
\* the solution to submit it, and drops it when the submission has failed.
LEMMA OwnEpoch ==
  ASSUME AllInv, OwnStep, ~LockClients, UNCHANGED workerVars
  PROVE  EpochInv' /\ EpochStep
<1>1. /\ Quiet /\ Quiet'
      /\ UNCHANGED <<netVars, taskVars, clients, cores, total_cores,
                    mining_clients, solution>>
  BY OwnQuiet DEF AllInv
<1>2. /\ UNCHANGED <<chain, last_hash_at>>
      /\ ~Dispatching /\ ~Dispatching'
  BY DEF OwnStep, Notified, WokenStart, WokenSend, WokenWait, FetchProof,
     FetchAgain, GetClock, ClockPanic, ResendSetSend, MainNotify,
     TakeSolution, UnwrapPanic, SubmitConfirmed, SubmitRejected,
     SubmitGivesUp, SubmitReturns, ResetBest, SetStart, MainGoto, Dispatching
<1>3. Turn /\ Turn'
  BY DEF OwnStep, Notified, WokenStart, WokenSend, WokenWait, FetchProof,
     FetchAgain, GetClock, ClockPanic, ResendSetSend, MainNotify,
     TakeSolution, UnwrapPanic, SubmitConfirmed, SubmitRejected,
     SubmitGivesUp, SubmitReturns, ResetBest, SetStart, MainGoto, Turn,
     sharedVars
<1>4. UNCHANGED <<hpc, got, toGuide>>
  BY <1>1 DEF taskVars, netVars
<1>5. /\ Handed = last_hash_at /\ Handed' = Handed /\ Best' = Best
      /\ Awaited = {} /\ Awaited' = Awaited
      /\ \A a \in Addr : Mined(a)' = Mined(a)
  BY <1>1, <1>2, <1>4, QuietAwaits DEF Handed, Best, Awaited, Mined
<1>6. ChainInv /\ last_hash_at \in Nat /\ proof \in Nat /\ chain \in Nat
  BY DEF AllInv, EpochInv, IInv, TypeOK, GuideTypeOK, Challenge
<1>7. EpochStep /\ (UNCHANGED sending \/ sending' \in {solution, NoSolution})
  <2>1. CASE TakeSolution
    <3>1. sending' = solution /\ solution # NoSolution /\ mpc = "unwrap"
      BY <2>1 DEF TakeSolution, MainGoto
    <3>2. solution \in Solution
      BY <3>1 DEF AllInv, IInv, TypeOK, GuideTypeOK
    <3>3. solution.challenge = last_hash_at /\ last_hash_at # 0
      BY <3>1 DEF AllInv, CalmInv, BestInv, TurnInv, Turn
    <3>4. Best = solution.difficulty /\ Best > 0
      BY <1>5, <1>6, <3>3 DEF Best, ChainInv
    <3>5. solution = [challenge |-> Handed, difficulty |-> Best]
      BY <1>5, <3>2, <3>3, <3>4 DEF Solution
    <3>6. Epochs!Submit
      BY <1>1, <1>2, <1>5, <3>1, <3>4, <3>5
      DEF Epochs!Submit, Epochs!Answered, Best
    <3> QED
      BY <3>1, <3>6 DEF EpochStep, Epochs!Next
  <2>2. CASE SubmitRejected
    <3>1. sending' = NoSolution
      BY <2>2 DEF SubmitRejected
    <3>2. Epochs!Fail
      BY <1>1, <1>2, <1>5, <3>1
      DEF Epochs!Fail, Epochs!Nothing, NoSolution, Best
    <3> QED
      BY <3>1, <3>2 DEF EpochStep, Epochs!Next
  <2>3. CASE ~TakeSolution /\ ~SubmitRejected
    <3>1. UNCHANGED sending
      BY <2>3 DEF OwnStep, Notified, WokenStart, WokenSend, WokenWait,
         FetchProof, FetchAgain, GetClock, ClockPanic, ResendSetSend,
         MainNotify, UnwrapPanic, SubmitConfirmed, SubmitGivesUp,
         SubmitReturns, ResetBest, SetStart
    <3> QED
      BY <1>1, <1>2, <1>5, <3>1, Stutter
  <2> QED
    BY <2>1, <2>2, <2>3
<1>8. proof' = proof \/ (~LaggingNodes => proof' = chain)
  BY DEF OwnStep, Notified, WokenStart, WokenSend, WokenWait, FetchProof,
     FetchAgain, GetClock, ClockPanic, ResendSetSend, MainNotify,
     TakeSolution, UnwrapPanic, SubmitConfirmed, SubmitRejected,
     SubmitGivesUp, SubmitReturns, ResetBest, SetStart, Readable
<1>9. action_type' # "Wait" => action_type # "Wait"
  BY DEF OwnStep, Notified, WokenStart, WokenSend, WokenWait, FetchProof,
     FetchAgain, GetClock, ClockPanic, ResendSetSend, MainNotify,
     TakeSolution, UnwrapPanic, SubmitConfirmed, SubmitRejected,
     SubmitGivesUp, SubmitReturns, ResetBest, SetStart, MainGoto, sharedVars,
     AllInv, CalmInv, TurnInv
<1>10. ChainInv'
  <2>1. last_hash_at <= chain
    BY DEF AllInv, DispatchInv, LoopInv
  <2> QED
    BY <1>1, <1>2, <1>6, <1>7, <1>8, <1>9, <2>1 DEF ChainInv, NoSolution
<1>11. AnswerInv'
  BY <1>1, <1>3 DEF AnswerInv, Quiet, Idle, Handling
<1>12. RunnerInv'
  BY <1>4 DEF AllInv, EpochInv, RunnerInv, Running
<1> QED
  BY <1>7, <1>10, <1>11, <1>12 DEF EpochInv

\* The dispatch begins: everybody gets the challenge, the last one having been
\* answered.
LEMMA LockEpoch ==
  ASSUME AllInv, LockClients, UNCHANGED workerVars
  PROVE  EpochInv' /\ EpochStep
<1>1. /\ mpc = "lock" /\ mpc' = "dispatch" /\ todo' = clients
      /\ UNCHANGED <<netVars, taskVars, chain, sharedVars, proof, last_hash_at,
                    sending>>
  BY DEF LockClients, MainGoto
<1>2. Quiet /\ best_difficulty = 0 /\ action_type = "Start"
  BY <1>1 DEF AllInv, CalmInv, WorkInv, Turn, BestInv, TurnInv
<1>3. /\ last_hash_at # proof /\ clients # {}
      /\ proof \in Challenge /\ proof <= chain /\ proof \in 1..chain
      /\ ~LaggingNodes => proof = chain
  <2>1. /\ last_hash_at # proof /\ clients # {} /\ proof <= chain
        /\ proof \in Challenge
    BY <1>1, <1>2 DEF AllInv, DispatchInv, LoopInv, EpochInv, ChainInv, IInv,
       MainInv
  <2>2. last_hash_at \in Nat /\ proof \in Nat \ {0} /\ chain \in Nat
    BY <2>1, NetworkAssumption DEF AllInv, IInv, TypeOK, GuideTypeOK, Challenge
  <2>3. ~LaggingNodes => proof = chain
    BY <2>1, <2>2 DEF AllInv, EpochInv, ChainInv
  <2> QED
    BY <2>1, <2>2, <2>3
<1>4. /\ Handed = last_hash_at /\ Handed' = proof
      /\ Dispatching' /\ ~Dispatching
  BY <1>1 DEF Handed, Dispatching
<1>5. /\ solution.challenge # proof
      /\ last_hash_at # 0 => Awaited = {} /\ Best > 0
  <2>1. Turn
    BY <1>1 DEF Turn
  <2>2. CASE last_hash_at = 0
    <3>1. proof # 0
      BY <1>3, NetworkAssumption DEF Challenge
    <3> QED
      BY <2>2, <3>1 DEF AllInv, EpochInv, ChainInv
  <2>3. CASE last_hash_at # 0
    BY <1>2, <1>3, <1>4, <2>1, <2>3, QuietAwaits
    DEF AllInv, CalmInv, BestInv, EpochInv, ChainInv, Best
  <2> QED
    BY <2>2, <2>3
<1>6. solution' = solution /\ Best' = 0
  BY <1>1, <1>4, <1>5 DEF Best, sharedVars
<1>7. UNCHANGED <<hpc, got, toGuide, clients, mining_clients, best_difficulty,
                 action_type>>
  BY <1>1 DEF taskVars, netVars, sharedVars
<1>8. Epochs!HandOut(proof)
  <2>1. Awaited' = clients
    <3>1. \A a \in Addr : hpc[a] # "finish"
      BY <1>2 DEF Quiet, Idle, Handling
    <3>2. clients \subseteq Addr
      BY DEF AllInv, IInv, TypeOK, GuideTypeOK
    <3> QED
      BY <1>1, <1>2, <1>4, <1>7, <3>1, <3>2 DEF Awaited, Quiet
  <2>2. \A a \in Addr : Mined(a)' = Mined(a)
    BY <1>7 DEF Mined
  <2> QED
    BY <1>1, <1>3, <1>4, <1>5, <1>6, <1>7, <2>1, <2>2
    DEF Epochs!HandOut, Epochs!Answered, Best
<1>9. ChainInv'
  BY <1>1, <1>4, <1>7 DEF AllInv, EpochInv, ChainInv, sharedVars
<1>10. AnswerInv'
  BY <1>2, <1>6, <1>7 DEF AnswerInv, Quiet, Idle, Handling
<1>11. RunnerInv'
  BY <1>7 DEF AllInv, EpochInv, RunnerInv, Running
<1> QED
  BY <1>3, <1>8, <1>9, <1>10, <1>11
  DEF EpochInv, EpochStep, Epochs!Next, Challenge

\* Neither the writes of a dispatch nor its end change an epoch: who is not
\* yet marked is still to do.
LEMMA LoopEpoch ==
  ASSUME AllInv, UNCHANGED workerVars,
         (\E a \in Addr : DispatchWrite(a)) \/ MarkMining \/ DispatchDone
  PROVE  EpochInv' /\ EpochStep
<1>1. /\ UNCHANGED <<chain, clients, total_cores, action_type,
                    best_difficulty, solution, permit, proof, sending,
                    toGuide, hpc, got>>
      /\ Dispatching /\ proof' = proof
      /\ \/ Dispatching' /\ last_hash_at' = last_hash_at
         \/ mpc' = "select" /\ last_hash_at' = proof
  BY DEF DispatchWrite, MarkMining, DispatchDone, MainGoto, Dispatching,
     sharedVars, taskVars, netVars
<1>2. Handed = proof /\ Handed' = proof
  BY <1>1 DEF Handed, Dispatching
<1>3. Best' = Best
  BY <1>1, <1>2 DEF Best
<1>4. ~Turn /\ ~Turn'
  <2>1. MiningLocked' = MiningLocked
    BY <1>1 DEF MiningLocked
  <2>2. ~permit /\ action_type = "Start" /\ ~MiningLocked
    BY <1>1 DEF AllInv, CalmInv, TurnInv, Dispatching
  <2> QED
    BY <1>1, <2>1, <2>2 DEF Turn, Dispatching
<1>5. Awaited' = Awaited
  <2>1. CASE \E a \in Addr : DispatchWrite(a)
    BY <1>1, <2>1 DEF DispatchWrite, MainGoto, Awaited, Dispatching, sharedVars
  <2>2. CASE MarkMining
    <3>1. /\ mining_clients' = mining_clients \cup {cur} /\ todo' = todo \ {cur}
          /\ cur \in todo /\ Dispatching'
      BY <2>2 DEF MarkMining, MainGoto, Dispatching, AllInv, DispatchInv, LoopInv
    <3> QED
      BY <1>1, <3>1 DEF Awaited
  <2>3. CASE DispatchDone
    BY <1>1, <2>3 DEF DispatchDone, MainGoto, Awaited, Dispatching, sharedVars
  <2> QED
    BY <2>1, <2>2, <2>3
<1>6. EpochStep
  BY <1>1, <1>2, <1>5, Stutter DEF Mined
<1>7. ChainInv'
  <2>1. /\ last_hash_at \in Nat /\ proof \in Challenge /\ proof \in Nat \ {0}
        /\ sending.challenge \in Nat /\ solution.challenge \in Nat
    BY <1>1, NetworkAssumption
    DEF AllInv, IInv, MainInv, TypeOK, GuideTypeOK, Challenge, Dispatching,
        Solution, NoSolution
  <2>2. ChainInv
    BY DEF AllInv, EpochInv
  <2>3. CASE Dispatching' /\ last_hash_at' = last_hash_at
    BY <1>1, <2>2, <2>3 DEF ChainInv
  <2>4. CASE mpc' = "select" /\ last_hash_at' = proof
    BY <1>1, <2>1, <2>2, <2>4 DEF ChainInv
  <2> QED
    BY <1>1, <2>3, <2>4
<1>8. AnswerInv'
  BY <1>1, <1>3, <1>4 DEF AllInv, EpochInv, AnswerInv
<1>9. RunnerInv'
  BY <1>1 DEF AllInv, EpochInv, RunnerInv, Running
<1> QED
  BY <1>6, <1>7, <1>8, <1>9 DEF EpochInv

\* A new task does not run yet.
LEMMA AcceptEpoch ==
  ASSUME AllInv, NEW a \in Addr, Accept(a), UNCHANGED workerVars
  PROVE  EpochInv' /\ EpochStep
<1>1. /\ UNCHANGED <<netVars, chain, sharedVars, mainVars, got>>
      /\ hpc[a] = "none" /\ hpc' = [hpc EXCEPT ![a] = "hello"]
      /\ hpc \in [Addr -> TaskPc]
  BY DEF Accept, AllInv, IInv, TypeOK, GuideTypeOK
<1>2. Handed' = Handed /\ Best' = Best
  BY <1>1 DEF Handed, Best, Dispatching, mainVars, sharedVars
<1>3. MiningLocked' = MiningLocked
  BY <1>1 DEF MiningLocked
<1>4. Turn' = Turn
  BY <1>1, <1>3 DEF Turn, mainVars, sharedVars
<1>5. EpochStep
  <2>1. Awaited' = Awaited
    BY <1>1 DEF Awaited, Dispatching, mainVars, dispatchVars, sharedVars
  <2>2. \A b \in Addr : Mined(b)' = Mined(b)
    BY <1>1 DEF Mined, netVars
  <2> QED
    BY <1>1, <1>2, <2>1, <2>2, Stutter DEF mainVars, sharedVars
<1>6. ChainInv'
  BY <1>1, <1>4 DEF AllInv, EpochInv, ChainInv, Dispatching, mainVars, sharedVars
<1>7. AnswerInv'
  BY <1>1, <1>2, <1>4 DEF AllInv, EpochInv, AnswerInv, netVars, sharedVars
<1>8. RunnerInv'
  BY <1>1 DEF AllInv, EpochInv, RunnerInv, Running
<1> QED
  BY <1>5, <1>6, <1>7, <1>8 DEF EpochInv

\* Main keeps the invariant and the epochs.
LEMMA MainEpoch ==
  ASSUME AllInv, MainStep, UNCHANGED workerVars
  PROVE  EpochInv' /\ EpochStep
<1>1. CASE \E a \in Addr : Accept(a)
  BY <1>1, AcceptEpoch
<1>2. CASE (\E a \in Addr : DispatchWrite(a)) \/ MarkMining \/ DispatchDone
  BY <1>2, LoopEpoch
<1>3. CASE LockClients
  BY <1>3, LockEpoch
<1>4. CASE OwnStep /\ ~LockClients
  BY <1>4, OwnEpoch
<1> QED
  BY <1>1, <1>2, <1>3, <1>4 DEF MainStep, OwnStep

\* What lands is what was submitted, also long after the call that sent it.
LEMMA LandEpoch ==
  ASSUME AllInv, TxLands, UNCHANGED workerVars
  PROVE  EpochInv' /\ EpochStep
<1>1. /\ UNCHANGED <<netVars, sharedVars, mpc, proof, last_hash_at,
                    dispatchVars, taskVars>>
      /\ sending.challenge = chain /\ sending.difficulty >= MinDifficulty
      /\ chain < MaxHashAt /\ chain' = chain + 1 /\ sending' = NoSolution
  BY DEF TxLands
<1>2. /\ chain \in Nat \ {0} /\ proof \in Nat /\ last_hash_at \in Nat
      /\ proof <= chain
  BY NetworkAssumption
  DEF AllInv, DispatchInv, LoopInv, IInv, TypeOK, GuideTypeOK, Challenge
<1>3. /\ Dispatching' = Dispatching /\ Handed' = Handed /\ Best' = Best
      /\ Awaited' = Awaited /\ \A a \in Addr : Mined(a)' = Mined(a)
  BY <1>1 DEF Dispatching, Handed, Best, Awaited, Mined, sharedVars,
     dispatchVars, taskVars, netVars
<1>4. Epochs!Land
  BY <1>1, <1>3 DEF Epochs!Land, Epochs!Nothing, NoSolution, Best, sharedVars
<1>5. MiningLocked' = MiningLocked /\ Turn' = Turn
  BY <1>1 DEF MiningLocked, Turn, sharedVars, taskVars
<1>6. ChainInv'
  <2>1. ~LaggingNodes => ~(last_hash_at < proof)
    BY <1>1, <1>2 DEF AllInv, EpochInv, ChainInv
  <2> QED
    BY <1>1, <1>2, <2>1 DEF AllInv, EpochInv, ChainInv, NoSolution, sharedVars
<1>7. AnswerInv'
  BY <1>1, <1>3, <1>5 DEF AllInv, EpochInv, AnswerInv, sharedVars, taskVars
<1>8. RunnerInv'
  BY <1>1 DEF AllInv, EpochInv, RunnerInv, Running, taskVars
<1> QED
  BY <1>4, <1>6, <1>7, <1>8 DEF EpochInv, EpochStep, Epochs!Next
-----------------------------------------------------------------------------
(***************************************************************************)
(* Tasks.                                                                  *)
(***************************************************************************)

\* A client joins when it is inserted.
LEMMA RegisterEpoch ==
  ASSUME AllInv, NEW a \in Addr, UNCHANGED workerVars,
         Hello(a) \/ InsertClient(a) \/ CountCores(a)
  PROVE  EpochInv' /\ EpochStep
<1>1. /\ UNCHANGED <<chain, toGuide, mainVars, mining_clients,
                    best_difficulty, solution, got>>
      /\ hpc \in [Addr -> TaskPc]
      /\ \/ hpc[a] = "hello" /\ FreeThread
         \/ hpc[a] \in {"insert", "count"}
      /\ \E to \in {"insert", "count", "reading"} : hpc' = [hpc EXCEPT ![a] = to]
      /\ clients' = clients \/ clients' = clients \cup {a}
  BY DEF Hello, InsertClient, CountCores, TaskGoto, netVars, AllInv, IInv,
     TypeOK, GuideTypeOK
<1>2. Turn' = Turn
  BY RegisterCalm DEF AllInv, DispatchInv, ConnInv
<1>3. /\ Dispatching' = Dispatching /\ Handed' = Handed /\ Best' = Best
      /\ Awaited' = Awaited /\ \A b \in Addr : Mined(b)' = Mined(b)
  BY <1>1 DEF Dispatching, Handed, Best, Awaited, Mined, mainVars, dispatchVars
<1>4. EpochStep
  <2>1. CASE InsertClient(a)
    <3>1. a \notin clients /\ clients' = clients \cup {a}
      BY <2>1 DEF InsertClient, TaskGoto, AllInv, IInv, TaskInv
    <3>2. Epochs!Join(a)
      BY <1>1, <1>3, <3>1 DEF Epochs!Join, Best, mainVars
    <3> QED
      BY <3>2 DEF EpochStep, Epochs!Next
  <2>2. CASE clients' = clients
    BY <1>1, <1>3, <2>2, Stutter DEF mainVars
  <2>3. InsertClient(a) \/ clients' = clients
    BY DEF Hello, CountCores
  <2> QED
    BY <2>1, <2>2, <2>3
<1>5. ChainInv'
  <2>1. action_type' # "Wait" => clients' # {}
    <3>1. CASE CountCores(a)
      BY <1>1, <3>1 DEF CountCores, TaskGoto, AllInv, IInv, TaskInv
    <3>2. CASE ~CountCores(a)
      BY <1>1, <3>2 DEF Hello, InsertClient, AllInv, EpochInv, ChainInv
    <3> QED
      BY <3>1, <3>2
  <2> QED
    BY <1>1, <1>2, <1>3, <2>1 DEF AllInv, EpochInv, ChainInv, mainVars
<1>6. AnswerInv'
  BY <1>1, <1>2, <1>3 DEF AllInv, EpochInv, AnswerInv
<1>7. RunnerInv'
  <2>1. THREADS = 1 => Running \subseteq {a}
    BY <1>1, FreeIsAlone DEF AllInv, EpochInv, RunnerInv, Running
  <2> QED
    BY <1>1, <2>1 DEF RunnerInv, Running
<1> QED
  BY <1>4, <1>5, <1>6, <1>7 DEF EpochInv

\* An answer that is no better is taken in when it is read, a better one when
\* it is stored.
LEMMA ReceiveEpoch ==
  ASSUME AllInv, NEW a \in Addr, Receive(a), UNCHANGED workerVars
  PROVE  EpochInv' /\ EpochStep
<1> DEFINE s == Head(toGuide[a])
<1>1. /\ toGuide[a] # <<>> /\ hpc[a] = "reading" /\ FreeThread
      /\ hpc \in [Addr -> TaskPc] /\ got \in [Addr -> Solution \cup {NoSolution}]
      /\ toGuide \in [Addr -> Seq(Solution)] /\ best_difficulty \in Nat
      /\ UNCHANGED <<chain, sharedVars, mainVars>>
      /\ toGuide' = [toGuide EXCEPT ![a] = Tail(@)]
      /\ \/ /\ s.difficulty > best_difficulty
            /\ hpc' = [hpc EXCEPT ![a] = "setBest"]
            /\ got' = [got EXCEPT ![a] = s]
         \/ /\ ~(s.difficulty > best_difficulty)
            /\ hpc' = [hpc EXCEPT ![a] = "finish"]
            /\ got' = [got EXCEPT ![a] = NoSolution]
  BY DEF Receive, TaskGoto, Better, AllInv, IInv, TypeOK, GuideTypeOK,
     NetworkTypeOK
<1>2. /\ mpc = "select" /\ a \in mining_clients /\ ~Turn
  BY <1>1, AnswerComesLate DEF AllInv, IInv, TypeOK
<1>3. THREADS = 1 => \A b \in Addr : hpc[b] \in {"none", "hello", "reading"}
  BY <1>1, FreeIsAlone DEF Running
<1>4. THREADS = 1 => best_difficulty = Best
  BY <1>2, <1>3 DEF AllInv, EpochInv, AnswerInv
<1>5. toGuide'[a] = <<>> /\ s = toGuide[a][1] /\ s \in Solution
  <2>1. Len(toGuide[a]) = 1
    BY <1>1 DEF AllInv, CalmInv, WorkInv, OneEach
  <2> QED
    BY <1>1, <2>1, SingleTail
<1>6. s.difficulty \in Nat
  BY <1>5 DEF Solution
<1> HIDE DEF s
<1>7. Handed' = Handed /\ Best' = Best /\ ~Dispatching /\ ~Dispatching'
  BY <1>1, <1>2 DEF Handed, Best, Dispatching, mainVars, sharedVars
<1>8. MiningLocked' = MiningLocked
  BY <1>1 DEF MiningLocked
<1>9. Turn' = Turn
  BY <1>1, <1>8 DEF Turn, mainVars, sharedVars
<1>10. \A b \in Addr : b # a =>
         hpc'[b] = hpc[b] /\ got'[b] = got[b] /\ toGuide'[b] = toGuide[b]
  BY <1>1
<1>11. Mined(a) = {s.difficulty}
  <2>1. s = Head(toGuide[a])
    BY DEF s
  <2> QED
    BY <1>1, <2>1 DEF Mined
<1>12. \A b \in Addr : b # a => Mined(b)' = Mined(b)
  BY <1>10 DEF Mined
<1>13. ChainInv'
  BY <1>1 DEF AllInv, EpochInv, ChainInv, sharedVars, mainVars
<1>14. RunnerInv'
  BY <1>1, <1>3 DEF RunnerInv, Running
<1>15. CASE s.difficulty > best_difficulty
  <2>1. /\ hpc' = [hpc EXCEPT ![a] = "setBest"]
        /\ got' = [got EXCEPT ![a] = s]
    BY <1>1, <1>15
  <2>2. EpochStep
    <3>1. Mined(a)' = Mined(a)
      BY <1>1, <1>11, <2>1 DEF Mined
    <3>2. Awaited' = Awaited
      BY <1>1, <1>7, <2>1 DEF Awaited, sharedVars, mainVars, dispatchVars
    <3> QED
      BY <1>1, <1>7, <1>12, <3>1, <3>2, Stutter DEF sharedVars, mainVars
  <2>3. AnswerInv'
    BY <1>1, <1>3, <1>4, <1>6, <1>7, <1>9, <1>10, <1>15, <2>1
    DEF AllInv, EpochInv, AnswerInv, sharedVars
  <2> QED
    BY <1>13, <1>14, <2>2, <2>3 DEF EpochInv
<1>16. CASE ~(s.difficulty > best_difficulty)
  <2>1. hpc' = [hpc EXCEPT ![a] = "finish"]
    BY <1>1, <1>16
  <2>2. EpochStep
    <3>1. Mined(a)' = {}
      BY <1>1, <1>5, <2>1 DEF Mined
    <3>2. a \in Awaited /\ Awaited' = Awaited \ {a}
      BY <1>1, <1>2, <1>7, <2>1 DEF Awaited, sharedVars
    <3>3. Best \in Nat
      BY DEF Best, AllInv, IInv, TypeOK, GuideTypeOK, Solution, NoSolution
    <3>4. ~(THREADS > 1) => Best >= s.difficulty
      BY <1>1, <1>4, <1>6, <1>16, <3>3, GuideAssumption
    <3>5. Best = 0 /\ s.difficulty > 0 =>
            \E b \in Awaited' : \E e \in Mined(b)' : e > 0
      <4> SUFFICES ASSUME Best = 0, s.difficulty > 0
                   PROVE  \E b \in Awaited' : \E e \in Mined(b)' : e > 0
        OBVIOUS
      <4>1. best_difficulty > 0
        BY <1>1, <1>6, <1>16
      <4>2. solution.challenge # proof
        <5>1. proof = last_hash_at /\ Handed = last_hash_at /\ proof # 0
          BY <1>2, <1>7 DEF AllInv, CalmInv, BestInv, Handed
        <5> QED
          BY <5>1 DEF Best, AllInv, EpochInv, ChainInv
      <4>3. PICK b \in Addr : hpc[b] = "setSolution"
        BY <1>2, <4>1, <4>2 DEF AllInv, CalmInv, BestInv
      <4>4. b # a /\ hpc'[b] = "setSolution" /\ b \in mining_clients
        BY <1>1, <4>3, AnswerComesLate
        DEF Handling, AllInv, IInv, TypeOK
      <4>5. b \in Awaited'
        BY <1>1, <1>7, <4>4 DEF Awaited, sharedVars
      <4>6. Mined(b)' = {got[b].difficulty} /\ got[b].difficulty > 0
        BY <1>10, <4>3, <4>4 DEF Mined, AllInv, EpochInv, AnswerInv
      <4> QED
        BY <4>5, <4>6
    <3>6. [b \in Addr |-> Mined(b)'] =
            [[b \in Addr |-> Mined(b)] EXCEPT ![a] = {}]
      BY <1>12, <3>1
    <3>7. Epochs!Answer(a)
      <4> DEFINE mined == [b \in Addr |-> Mined(b)]
      <4>1. s.difficulty \in mined[a]
        BY <1>11
      <4>2. \A b \in Awaited' : b # a /\ b \in Addr /\ mined[b] = Mined(b)'
        BY <1>12, <3>2 DEF Awaited
      <4> QED
        BY <1>1, <1>6, <1>7, <3>2, <3>3, <3>4, <3>5, <3>6, <4>1, <4>2
        DEF Epochs!Answer, Best, sharedVars, mainVars
    <3> QED
      BY <3>7 DEF EpochStep, Epochs!Next
  <2>3. AnswerInv'
    BY <1>1, <1>3, <1>4, <1>6, <1>7, <1>9, <1>10, <2>1
    DEF AllInv, EpochInv, AnswerInv, sharedVars
  <2> QED
    BY <1>13, <1>14, <2>2, <2>3 DEF EpochInv
<1> QED
  BY <1>15, <1>16

\* A better answer is taken in when it is stored, not when it is compared.
LEMMA RecordEpoch ==
  ASSUME AllInv, NEW a \in Addr, SetBest(a) \/ SetSolution(a),
         UNCHANGED workerVars
  PROVE  EpochInv' /\ EpochStep
<1>1. /\ UNCHANGED <<chain, toGuide, clients, mining_clients, action_type,
                    permit, mainVars>>
      /\ hpc \in [Addr -> TaskPc] /\ got \in [Addr -> Solution \cup {NoSolution}]
      /\ Handling(a) /\ hpc[a] \in {"setBest", "setSolution"}
  BY DEF SetBest, SetSolution, TaskGoto, netVars, AllInv, IInv, TypeOK,
     GuideTypeOK, Handling
<1>2. mpc = "select" /\ a \in mining_clients /\ ~Turn
  BY <1>1, AnswerComesLate DEF AllInv, IInv, TypeOK
<1>3. THREADS = 1 =>
        \A b \in Addr : b # a => hpc[b] \in {"none", "hello", "reading"}
  BY <1>1 DEF AllInv, EpochInv, RunnerInv, Running
<1>4. Handed' = Handed /\ ~Dispatching /\ ~Dispatching'
  BY <1>1, <1>2 DEF Handed, Dispatching, mainVars
<1>5. /\ Handed = last_hash_at /\ proof = last_hash_at /\ proof # 0
      /\ got[a].challenge = proof /\ got[a].difficulty > 0
      /\ toGuide[a] = <<>>
  BY <1>1, <1>2, <1>4
  DEF Handed, AllInv, CalmInv, BestInv, CurrentInv, EpochInv, AnswerInv,
      WorkInv, OneEach
<1>6. ChainInv /\ AnswerInv /\ RunnerInv
  BY DEF AllInv, EpochInv
<1>7. CASE SetBest(a)
  <2>1. /\ hpc[a] = "setBest" /\ hpc' = [hpc EXCEPT ![a] = "setSolution"]
        /\ best_difficulty' = got[a].difficulty /\ UNCHANGED <<got, solution>>
    BY <1>7 DEF SetBest, TaskGoto
  <2>2. Best' = Best
    BY <1>4, <2>1 DEF Best
  <2>3. MiningLocked' = MiningLocked
    BY <1>1, <2>1 DEF MiningLocked
  <2>4. Turn' = Turn
    BY <1>1, <2>3 DEF Turn, mainVars
  <2>5. EpochStep
    <3>1. Awaited' = Awaited
      BY <1>1, <1>4, <2>1 DEF Awaited
    <3>2. \A b \in Addr : Mined(b)' = Mined(b)
      BY <1>1, <2>1 DEF Mined
    <3> QED
      BY <1>1, <1>4, <2>1, <3>1, <3>2, Stutter DEF mainVars
  <2>6. ChainInv'
    BY <1>1, <1>6, <2>1 DEF ChainInv, mainVars
  <2>7. AnswerInv'
    BY <1>1, <1>3, <1>5, <1>6, <2>1, <2>2, <2>4 DEF AnswerInv
  <2>8. RunnerInv'
    BY <1>1, <1>3, <2>1 DEF RunnerInv, Running
  <2> QED
    BY <2>5, <2>6, <2>7, <2>8 DEF EpochInv
<1>8. CASE SetSolution(a)
  <2>1. /\ hpc[a] = "setSolution" /\ hpc' = [hpc EXCEPT ![a] = "finish"]
        /\ got' = [got EXCEPT ![a] = NoSolution] /\ solution' = got[a]
        /\ UNCHANGED best_difficulty
    BY <1>8 DEF SetSolution, TaskGoto
  <2>2. /\ Best' = got[a].difficulty
        /\ THREADS = 1 => best_difficulty = got[a].difficulty
    BY <1>4, <1>5, <1>6, <2>1 DEF Best, AnswerInv
  <2>3. MiningLocked' = MiningLocked
    BY <1>1, <2>1 DEF MiningLocked
  <2>4. Turn' = Turn
    BY <1>1, <2>3 DEF Turn, mainVars
  <2>5. EpochStep
    <3>1. a \in Awaited /\ Awaited' = Awaited \ {a}
      BY <1>1, <1>2, <1>4, <2>1 DEF Awaited
    <3>2. Mined(a) = {got[a].difficulty} /\ Mined(a)' = {}
      BY <1>1, <1>5, <2>1 DEF Mined
    <3>3. \A b \in Addr : b # a => Mined(b)' = Mined(b)
      BY <1>1, <2>1 DEF Mined
    <3>4. [b \in Addr |-> Mined(b)'] =
            [[b \in Addr |-> Mined(b)] EXCEPT ![a] = {}]
      BY <3>2, <3>3
    <3>5. /\ Best \in Nat /\ got[a].difficulty \in Nat
          /\ ~(THREADS > 1) => got[a].difficulty >= Best
      <4>1. Best \in Nat /\ got[a].difficulty \in Nat
        BY <1>1 DEF Best, AllInv, IInv, TypeOK, GuideTypeOK, Solution, NoSolution
      <4>2. THREADS = 1 => got[a].difficulty > Best
        BY <1>6, <2>1 DEF AnswerInv
      <4> QED
        BY <4>1, <4>2, GuideAssumption
    <3>6. Epochs!Answer(a)
      <4> DEFINE mined == [b \in Addr |-> Mined(b)]
      <4>1. got[a].difficulty \in mined[a]
        BY <3>2
      <4> QED
        BY <1>1, <1>4, <1>5, <2>2, <3>1, <3>4, <3>5, <4>1
        DEF Epochs!Answer, Best, mainVars
    <3> QED
      BY <3>6 DEF EpochStep, Epochs!Next
  <2>6. ChainInv'
    <3>1. /\ last_hash_at \in Nat
          /\ solution'.challenge = last_hash_at /\ solution'.difficulty > 0
      BY <1>5, <2>1 DEF AllInv, IInv, TypeOK, GuideTypeOK, Challenge
    <3> QED
      BY <1>1, <1>5, <1>6, <2>1, <3>1 DEF ChainInv, mainVars
  <2>7. AnswerInv'
    BY <1>1, <1>3, <1>6, <2>1, <2>2, <2>4 DEF AnswerInv
  <2>8. RunnerInv'
    BY <1>1, <1>3, <2>1 DEF RunnerInv, Running
  <2> QED
    BY <2>5, <2>6, <2>7, <2>8 DEF EpochInv
<1> QED
  BY <1>7, <1>8

\* After its answer a task changes nothing that the epochs are made of: it
\* gives the turn to main.
LEMMA FinishEpoch ==
  ASSUME AllInv, NEW a \in Addr, Finish(a) \/ SetSend(a) \/ Wake(a),
         AfterMessage(a) = "reading", UNCHANGED workerVars
  PROVE  EpochInv' /\ EpochStep
<1>1. /\ UNCHANGED <<chain, toGuide, clients, best_difficulty, solution, got,
                    mainVars>>
      /\ hpc \in [Addr -> TaskPc] /\ hpc[a] \in {"finish", "setSend", "wake"}
      /\ \E to \in {"setSend", "wake", "reading"} :
           hpc' = [hpc EXCEPT ![a] = to]
  BY DEF Finish, SetSend, Wake, TaskGoto, netVars, AllInv, IInv, TypeOK,
     GuideTypeOK
<1>2. Handed' = Handed /\ Best' = Best /\ Dispatching' = Dispatching
  BY <1>1 DEF Handed, Best, Dispatching, mainVars
<1>3. ~Dispatching
  <2>1. CASE Finish(a)
    BY <2>1, AnswerComesLate
    DEF Finish, TaskGoto, Handling, Dispatching, AllInv, IInv, TypeOK
  <2>2. CASE ~Finish(a)
    <3>1. MiningLocked
      BY <2>2 DEF SetSend, Wake, TaskGoto, MiningLocked
    <3> QED
      BY <3>1 DEF AllInv, CalmInv, TurnInv, Dispatching
  <2> QED
    BY <2>1, <2>2
<1>4. Turn => Turn'
  <2>1. CASE Finish(a)
    <3>1. ~Turn
      BY <2>1, AnswerComesLate DEF Finish, TaskGoto, Handling, AllInv, IInv, TypeOK
    <3> QED
      BY <3>1
  <2>2. CASE SetSend(a)
    <3>1. hpc'[a] = "wake"
      BY <1>1, <2>2 DEF SetSend, TaskGoto
    <3> QED
      BY <3>1 DEF Turn, MiningLocked
  <2>3. CASE Wake(a)
    BY <2>3 DEF Wake, Turn
  <2> QED
    BY <2>1, <2>2, <2>3
<1>5. EpochStep
  <2>1. Awaited' = Awaited
    <3>1. CASE Finish(a)
      BY <1>1, <1>2, <1>3, <3>1 DEF Finish, TaskGoto, Awaited
    <3>2. CASE ~Finish(a)
      BY <1>1, <1>2, <1>3, <3>2 DEF SetSend, Wake, TaskGoto, Awaited
    <3> QED
      BY <3>1, <3>2
  <2>2. \A b \in Addr : Mined(b)' = Mined(b)
    BY <1>1 DEF Mined
  <2> QED
    BY <1>1, <1>2, <2>1, <2>2, Stutter DEF mainVars
<1>6. ChainInv'
  <2>1. action_type' # "Wait" => clients' # {}
    BY <1>1 DEF Finish, SetSend, Wake, TaskGoto, AllInv, CalmInv, TurnInv,
       EpochInv, ChainInv
  <2> QED
    BY <1>1, <1>2, <1>4, <2>1 DEF AllInv, EpochInv, ChainInv, mainVars
<1>7. AnswerInv'
  BY <1>1, <1>2, <1>4 DEF AllInv, EpochInv, AnswerInv
<1>8. RunnerInv'
  BY <1>1 DEF AllInv, EpochInv, RunnerInv, Running
<1> QED
  BY <1>5, <1>6, <1>7, <1>8 DEF EpochInv
-----------------------------------------------------------------------------
(***************************************************************************)
(* Workers.                                                                *)
(***************************************************************************)

\* Of all that a worker does, an epoch sees its answers.
LEMMA GuideStill ==
  ASSUME AllInv, UNCHANGED guideVars
  PROVE  /\ EpochInv'
         /\ UNCHANGED <<chain, clients, solution, sending, hpc, got>>
         /\ Handed' = Handed /\ Awaited' = Awaited
<1>1. UNCHANGED <<chain, sharedVars, mpc, proof, last_hash_at, todo, sending,
                 hpc, got>>
  BY DEF guideVars, mainVars, dispatchVars, taskVars
<1>2. /\ Dispatching' = Dispatching /\ Handed' = Handed /\ Best' = Best
      /\ Awaited' = Awaited /\ Running' = Running /\ Turn' = Turn
  <2>1. MiningLocked' = MiningLocked
    BY <1>1 DEF MiningLocked
  <2> QED
    BY <1>1, <2>1 DEF Dispatching, Handed, Best, Awaited, Running, Turn,
       sharedVars
<1>3. AnswerInv'
  BY <1>1, <1>2 DEF AllInv, EpochInv, AnswerInv, sharedVars
<1>4. ChainInv' /\ RunnerInv'
  BY <1>1, <1>2 DEF AllInv, EpochInv, ChainInv, RunnerInv, sharedVars
<1> QED
  BY <1>1, <1>2, <1>3, <1>4 DEF EpochInv, sharedVars

\* An answer is on its way once, of a client that is awaited.
LEMMA AnswerEpoch ==
  ASSUME AllInv, MaxDrops = 0, ~EarlyAnswers, NEW w \in Worker, NEW d \in Difficulty, Answer(w, d),
         UNCHANGED guideVars
  PROVE  EpochInv' /\ EpochStep
<1>0. PICK a \in Addr : a = sock[w]
  BY DEF Answer, MineAndSend, WorkerGoto, AllInv, IInv, WorkerInv
<1> DEFINE s == [challenge |-> job[w].challenge, difficulty |-> d]
<1>1. /\ ~Dispatching
      /\ toGuide' = [toGuide EXCEPT ![a] = Append(@, s)]
      /\ toGuide \in [Addr -> Seq(Solution)]
      /\ job[w] \in Work /\ job[w] # NoWork
  BY <1>0, WorkIsSomething
  DEF Answer, MineAndSend, WorkerGoto, AllInv, IInv, WorkerInv, TypeOK,
      NetworkTypeOK
<1>2. ~Jobless(a) /\ ~Idle(a) /\ OneEach(a) /\ Marked(a)
  BY <1>0, <1>1 DEF Jobless, Idle, AllInv, CalmInv, WorkInv
<1>3. toGuide[a] = <<>> /\ ~Handling(a) /\ a \in mining_clients
  BY <1>1, <1>2 DEF OneEach, Marked, Dispatching
<1>4. s \in Solution /\ s.difficulty = d
  BY <1>1, NetworkAssumption DEF Work, Solution
<1> HIDE DEF s
<1>5. toGuide'[a] # <<>> /\ toGuide'[a][1] = s /\ Head(toGuide'[a]) = s
  <2>1. toGuide'[a] = Append(<<>>, s)
    BY <1>1, <1>3
  <2> QED
    BY <1>4, <2>1, SingleAppend
<1>6. \A b \in Addr : b # a => toGuide'[b] = toGuide[b]
  BY <1>1
<1>7. /\ EpochInv' /\ Handed' = Handed /\ Awaited' = Awaited
      /\ UNCHANGED <<chain, clients, solution, sending, hpc, got>>
  BY GuideStill
<1>8. a \in Awaited /\ Mined(a) = {} /\ Mined(a)' = {d}
  BY <1>1, <1>3, <1>4, <1>5, <1>7 DEF Awaited, Mined, Handling
<1>9. [b \in Addr |-> Mined(b)'] = [[b \in Addr |-> Mined(b)] EXCEPT ![a] = {d}]
  <2>1. \A b \in Addr : b # a => Mined(b)' = Mined(b)
    BY <1>6, <1>7 DEF Mined
  <2> QED
    BY <1>8, <2>1
<1>10. Epochs!Mine(a, d)
  BY <1>1, <1>7, <1>8, <1>9 DEF Epochs!Mine
<1> QED
  BY <1>1, <1>7, <1>10 DEF EpochStep, Epochs!Next

\* Workers keep the invariant and the epochs.
LEMMA WorkerEpoch ==
  ASSUME AllInv, MaxDrops = 0, ~EarlyAnswers, NEW w \in Worker, WorkerStep(w) \/ Drop(w),
         UNCHANGED guideVars
  PROVE  EpochInv' /\ EpochStep
<1>1. CASE \E d \in Difficulty : Answer(w, d)
  BY <1>1, AnswerEpoch
<1>2. CASE ~ \E d \in Difficulty : Answer(w, d)
  <2>1. ~Drop(w)
    BY DEF Drop, AllInv, IInv, TypeOK, WorkerTypeOK
  <2>2. ~DividePanic(w)
    BY WorkIsSomething
    DEF DividePanic, WorkerGoto, AllInv, IInv, WorkerInv, CalmInv, CurrentInv
  <2>3. toGuide' = toGuide
    <3>1. CASE ~Up /\ GuideLost(w)
      <4>1. \A b \in Addr : toGuide[b] = <<>>
        BY <3>1 DEF Up, AllInv, CalmInv, WorkInv, Turn, Quiet, Idle
      <4>2. \/ toGuide' = toGuide
            \/ toGuide' = [toGuide EXCEPT ![sock[w]] = <<>>]
        BY <3>1 DEF GuideLost, LoseSocket, CloseLink
      <4>3. toGuide \in [Addr -> Seq(Solution)]
        BY DEF AllInv, IInv, TypeOK, NetworkTypeOK
      <4> QED
        BY <4>1, <4>2, <4>3
    <3>2. CASE ~GuideLost(w)
      BY <1>2, <2>1, <2>2, <3>2
      DEF WorkerStep, SendCores, ReadWork, Connect, ConnectRefused, netVars
    <3> QED
      BY <1>2, <2>1, <2>2, <3>1, <3>2
      DEF WorkerStep, SendCores, ReadWork, Connect, ConnectRefused, netVars
  <2>4. /\ EpochInv' /\ Handed' = Handed /\ Awaited' = Awaited
        /\ UNCHANGED <<chain, clients, solution, sending, hpc, got>>
    BY GuideStill
  <2>5. \A b \in Addr : Mined(b)' = Mined(b)
    BY <2>3, <2>4 DEF Mined
  <2> QED
    BY <2>4, <2>5, Stutter
<1> QED
  BY <1>1, <1>2

-----------------------------------------------------------------------------
(***************************************************************************)
(* The theorem.                                                            *)
(***************************************************************************)

\* Every step keeps the invariant and is one of an epoch, or none.
LEMMA NextEpoch ==
  ASSUME MaxDrops = 0, ~EarlyAnswers
  PROVE  AllInv /\ [Next]_vars => EpochInv' /\ EpochStep
<1> SUFFICES ASSUME AllInv, [Next]_vars PROVE EpochInv' /\ EpochStep
  OBVIOUS
<1>1. CASE MainStep /\ UNCHANGED workerVars
  BY <1>1, MainEpoch
<1>2. CASE TxLands /\ UNCHANGED workerVars
  BY <1>2, LandEpoch
<1>3. ASSUME NEW a \in Addr, TaskStep(a), UNCHANGED workerVars
      PROVE  EpochInv' /\ EpochStep
  <2>1. /\ AfterMessage(a) = "reading"
        /\ \/ Hello(a) \/ InsertClient(a) \/ CountCores(a) \/ Receive(a)
           \/ SetBest(a) \/ SetSolution(a) \/ Finish(a) \/ SetSend(a)
           \/ Wake(a)
    BY <1>3, PeaceTask DEF AllInv, IInv, TypeOK, CalmInv
  <2> QED
    BY <1>3, <2>1, RegisterEpoch, ReceiveEpoch, RecordEpoch, FinishEpoch
<1>4. ASSUME NEW w \in Worker, WorkerStep(w) \/ Drop(w), UNCHANGED guideVars
      PROVE  EpochInv' /\ EpochStep
  BY <1>4, WorkerEpoch
<1>5. CASE UNCHANGED vars
  <2>1. UNCHANGED guideVars /\ toGuide' = toGuide
    BY <1>5 DEF vars, netVars
  <2>2. /\ EpochInv' /\ Handed' = Handed /\ Awaited' = Awaited
        /\ UNCHANGED <<chain, clients, solution, sending, hpc, got>>
    BY <2>1, GuideStill
  <2>3. \A b \in Addr : Mined(b)' = Mined(b)
    BY <2>1, <2>2 DEF Mined
  <2> QED
    BY <2>2, <2>3, Stutter
<1> QED
  BY <1>1, <1>2, <1>3, <1>4, <1>5 DEF Next, GuideStep

\* While nobody leaves, and no answer overtakes the dispatch loop, the guide's
\* cells, locks, tasks and permits implement the epochs of MiningEpochs, on
\* any number of threads, with nodes that lag or not, and with answers of any
\* difficulty: each registered client gets each challenge once, one of the
\* answers is submitted, after the last (the best of them on one thread), and
\* only what was submitted lands (all but its fairness).
THEOREM EpochsImplemented ==
  ASSUME MaxDrops = 0, ~EarlyAnswers
  PROVE  Spec => Epochs!Init /\ [][Epochs!Next]_(Epochs!epochVars)
<1>1. AllInv /\ [Next]_vars => EpochInv' /\ EpochStep
  BY NextEpoch
<1>2. Spec => []IInv /\ []DispatchInv /\ []CalmInv
  BY Inductive, InitDispatch, NextDispatch, Calm, PTL DEF Spec
<1>3. Spec => []AllInv
  BY <1>1, <1>2, InitEpoch, PTL DEF Spec, AllInv
<1> QED
  BY <1>1, <1>3, InitEpoch, PTL DEF Spec, EpochStep
=============================================================================
