---------------------------- MODULE GuideServer ----------------------------
(***************************************************************************)
(* ore-guide: the main loop, which waits for connections and for Notify    *)
(* permits, fetches the miner's proof, hands out work and submits          *)
(* solutions; and one handle_client task per connection.  They share the   *)
(* cells of SharedState, each behind a std RwLock.  One action is one      *)
(* critical section of the code, or one await.                             *)
(***************************************************************************)
EXTENDS Network

CONSTANTS
  ACCOUNT_QUERY_RETRIES,  \* reads of an old proof before any is accepted
  THREADS,                \* tokio worker threads that run handle_client
  LaggingNodes,           \* may the node that is read be behind the chain?
  MinDifficulty,          \* config.min_difficulty of the chain's program
  RpcFaults               \* may the unretried clock query fail?

ASSUME GuideAssumption ==
  /\ ACCOUNT_QUERY_RETRIES \in Nat \ {0}
  /\ THREADS \in Nat \ {0}
  /\ LaggingNodes \in BOOLEAN
  /\ MinDifficulty \in Nat
  /\ RpcFaults \in BOOLEAN

VARIABLES
  chain,            \* last_hash_at of the miner's proof account
  \* SharedState
  clients,          \* the keys of the clients map
  cores,            \* ClientInfo.cores
  total_cores,
  action_type,
  mining_clients,
  best_difficulty,
  solution,
  permit,           \* the Notify's single stored permit
  \* the main loop and the Miner it owns
  mpc,              \* where main is
  proof,            \* last_hash_at of proof_data
  last_hash_at,     \* main's own copy: the last challenge handed out
  miner_hash_at,    \* Miner.last_hash_at
  fetch,            \* the locals of get_proof_with_authority_retries
  todo,             \* clients the dispatch loop has not finished with
  cur,              \* the client it just wrote to
  offset,           \* the first core index of the next client
  sending,          \* the last transaction, until its fate is known
  \* handle_client
  hpc,              \* where the task of each address is
  got,              \* the solution it has just read
  gone              \* client_disconnected

sharedVars == <<clients, cores, total_cores, action_type, mining_clients,
                best_difficulty, solution, permit>>
dispatchVars == <<todo, cur, offset>>
mainVars == <<mpc, proof, last_hash_at, miner_hash_at, fetch, dispatchVars,
              sending>>
taskVars == <<hpc, got, gone>>
guideVars == <<chain, sharedVars, mainVars, taskVars>>

MainPc == {"select", "woken", "fetch", "clock", "resend", "resendWake",
           "lock", "dispatch", "mark", "unwrap", "submit", "reset",
           "setStart", "startWake", "crashed"}
TaskPc == {"none", "hello", "insert", "count", "reading", "setBest",
           "setSolution", "finish", "setSend", "wake", "closing", "drain",
           "setWait", "waitWake"}

GuideTypeOK ==
  /\ chain \in Challenge
  /\ clients \in SUBSET Addr
  /\ cores \in [Addr -> {0} \cup Cores]
  /\ total_cores \in Nat
  /\ action_type \in {"Wait", "Start", "Send"}
  /\ mining_clients \in SUBSET Addr
  /\ best_difficulty \in Nat
  /\ solution \in Solution \cup {NoSolution}
  /\ permit \in BOOLEAN
  /\ mpc \in MainPc
  /\ proof \in {0} \cup Challenge
  /\ last_hash_at \in {0} \cup Challenge
  /\ miner_hash_at \in {0} \cup Challenge
  /\ fetch \in [local : {0} \cup Challenge, attempts : 0..ACCOUNT_QUERY_RETRIES]
  /\ todo \in SUBSET Addr
  /\ cur \in Addr \cup {NoAddr}
  /\ offset \in Nat
  /\ sending \in Solution \cup {NoSolution}
  /\ hpc \in [Addr -> TaskPc]
  /\ got \in [Addr -> Solution \cup {NoSolution}]
  /\ gone \in [Addr -> BOOLEAN]

NoFetch == [local |-> 0, attempts |-> 0]

GuideInit ==
  /\ chain = 1
  /\ clients = {}
  /\ cores = [a \in Addr |-> 0]
  /\ total_cores = 0
  /\ action_type = "Wait"
  /\ mining_clients = {}
  /\ best_difficulty = 0
  /\ solution = NoSolution
  /\ permit = FALSE
  /\ mpc = "select"
  /\ proof = 0
  /\ last_hash_at = 0
  /\ miner_hash_at = 0
  /\ fetch = NoFetch
  /\ todo = {}
  /\ cur = NoAddr
  /\ offset = 0
  /\ sending = NoSolution
  /\ hpc = [a \in Addr |-> "none"]
  /\ got = [a \in Addr |-> NoSolution]
  /\ gone = [a \in Addr |-> FALSE]

(***************************************************************************)
(* Locks, as predicates over who is inside.  process_mining_data keeps the *)
(* write guard of clients and the read guard of total_cores over its whole *)
(* loop, awaits included; the last client's task keeps clients until it    *)
(* has returned to Wait; mining_clients is kept until notify_one.          *)
(***************************************************************************)
Up == mpc # "crashed"

Dispatching == mpc \in {"dispatch", "mark"}

TurningToWait(a) == hpc[a] \in {"drain", "setWait", "waitWake"}

\* Mutant: the last client's task drops its guard before it waits.
ClientsLockedByMain == Dispatching

ClientsLocked == Dispatching \/ \E a \in Addr : TurningToWait(a)

MiningLocked == \E a \in Addr : hpc[a] \in {"setSend", "wake"}

\* A task between two awaits, blocked in a lock or in thread::sleep included,
\* occupies one of the runtime's worker threads.
Running == {a \in Addr : hpc[a] \notin {"none", "hello", "reading"}}

FreeThread == Cardinality(Running) < THREADS

-----------------------------------------------------------------------------
(* The main loop: select! over accept and notified.                        *)

MainGoto(from, to) ==
  /\ mpc = from
  /\ mpc' = to

Accept(a) ==
  /\ mpc = "select"
  /\ link[a] # "free"
  /\ hpc[a] = "none"
  /\ hpc' = [hpc EXCEPT ![a] = "hello"]
  /\ UNCHANGED <<netVars, chain, sharedVars, mainVars, got, gone>>

Notified ==
  /\ MainGoto("select", "woken")
  /\ permit
  /\ permit' = FALSE
  /\ UNCHANGED <<netVars, chain, clients, cores, total_cores, action_type,
                 mining_clients, best_difficulty, solution, proof,
                 last_hash_at, miner_hash_at, fetch, dispatchVars, sending,
                 taskVars>>

\* The arms of the match on action_type.
WokenStart ==
  /\ MainGoto("woken", "fetch")
  /\ action_type = "Start"
  /\ fetch' = [local |-> miner_hash_at, attempts |-> 0]
  /\ UNCHANGED <<netVars, chain, sharedVars, proof, last_hash_at,
                 miner_hash_at, dispatchVars, sending, taskVars>>

WokenSend ==
  /\ MainGoto("woken", "unwrap")
  /\ action_type = "Send"
  /\ UNCHANGED <<netVars, chain, sharedVars, proof, last_hash_at,
                 miner_hash_at, fetch, dispatchVars, sending, taskVars>>

WokenWait ==
  /\ MainGoto("woken", "select")
  /\ action_type = "Wait"
  /\ miner_hash_at' = 0
  /\ UNCHANGED <<netVars, chain, sharedVars, proof, last_hash_at, fetch,
                 dispatchVars, sending, taskVars>>

\* The proofs that an RPC node may have: a node behind a load balancer may
\* have any that there ever was.
Readable == IF LaggingNodes THEN 1..chain ELSE {chain}

\* Miner::mine.  A proof newer than the local one is returned at once ...
FetchProof(seen) ==
  /\ MainGoto("fetch", "clock")
  /\ seen \in Readable
  /\ seen > fetch.local
  /\ proof' = seen
  /\ miner_hash_at' = seen
  /\ fetch' = NoFetch
  /\ UNCHANGED <<netVars, chain, sharedVars, last_hash_at, dispatchVars,
                 sending, taskVars>>

\* ... an old one or an RPC error is retried, and from some attempt on any
\* proof will do.  The attempt counter stops at its bound.
FetchAgain ==
  /\ mpc = "fetch"
  /\ fetch.attempts < ACCOUNT_QUERY_RETRIES
  /\ LET n == fetch.attempts + 1
     IN  fetch' = [local |-> IF n >= ACCOUNT_QUERY_RETRIES THEN 0
                             ELSE fetch.local,
                   attempts |-> n]
  /\ UNCHANGED <<netVars, chain, sharedVars, mpc, proof, last_hash_at,
                 miner_hash_at, dispatchVars, sending, taskVars>>

\* get_cutoff's clock query, then main's test for a new proof.
GetClock ==
  /\ MainGoto("clock", IF proof # last_hash_at THEN "lock" ELSE "resend")
  /\ UNCHANGED <<netVars, chain, sharedVars, proof, last_hash_at,
                 miner_hash_at, fetch, dispatchVars, sending, taskVars>>

\* get_clock expects its answer: one failed query ends the process.
ClockPanic ==
  /\ MainGoto("clock", "crashed")
  /\ RpcFaults
  /\ UNCHANGED <<netVars, chain, sharedVars, proof, last_hash_at,
                 miner_hash_at, fetch, dispatchVars, sending, taskVars>>

ResendSetSend ==
  /\ MainGoto("resend", "resendWake")
  /\ action_type' = "Send"
  /\ UNCHANGED <<netVars, chain, clients, cores, total_cores, mining_clients,
                 best_difficulty, solution, permit, proof, last_hash_at,
                 miner_hash_at, fetch, dispatchVars, sending, taskVars>>

\* Mutant: the submission ends without a wake-up.
MainForgets(from) ==
  /\ MainGoto(from, "select")
  /\ UNCHANGED <<netVars, chain, sharedVars, proof, last_hash_at,
                 miner_hash_at, fetch, dispatchVars, sending, taskVars>>

MainNotify(from) ==
  /\ MainGoto(from, "select")
  /\ permit' = TRUE
  /\ UNCHANGED <<netVars, chain, clients, cores, total_cores, action_type,
                 mining_clients, best_difficulty, solution, proof,
                 last_hash_at, miner_hash_at, fetch, dispatchVars, sending,
                 taskVars>>

-----------------------------------------------------------------------------
(* process_mining_data                                                     *)

LockClients ==
  /\ MainGoto("lock", "dispatch")
  /\ ~ClientsLocked
  /\ todo' = clients
  /\ offset' = 0
  /\ UNCHANGED <<netVars, chain, sharedVars, proof, last_hash_at,
                 miner_hash_at, fetch, cur, sending, taskVars>>

\* The map is iterated in no particular order.
DispatchWrite(a) ==
  /\ MainGoto("dispatch", "mark")
  /\ a \in todo
  /\ cur' = a
  /\ Deliver(a, [challenge |-> proof, offset |-> offset,
                 total |-> total_cores])
  /\ UNCHANGED <<link, hello, toGuide, chain, sharedVars, proof, last_hash_at,
                 miner_hash_at, fetch, todo, offset, sending, taskVars>>

\* Mutant: the offset counts clients, not cores.
OffsetByClient == offset + 1

NextOffset == offset + cores[cur]

MarkMining ==
  /\ MainGoto("mark", "dispatch")
  /\ ~MiningLocked
  /\ offset' = NextOffset
  /\ mining_clients' = mining_clients \cup {cur}
  /\ todo' = todo \ {cur}
  /\ cur' = NoAddr
  /\ UNCHANGED <<netVars, chain, clients, cores, total_cores, action_type,
                 best_difficulty, solution, permit, proof, last_hash_at,
                 miner_hash_at, fetch, sending, taskVars>>

DispatchDone ==
  /\ MainGoto("dispatch", "select")
  /\ todo = {}
  /\ last_hash_at' = proof
  /\ offset' = 0
  /\ UNCHANGED <<netVars, chain, sharedVars, proof, miner_hash_at, fetch,
                 todo, cur, sending, taskVars>>

-----------------------------------------------------------------------------
(* submit_mining_data, and the rest of the Send arm.                       *)

TakeSolution ==
  /\ MainGoto("unwrap", "submit")
  /\ solution # NoSolution
  /\ sending' = solution
  /\ UNCHANGED <<netVars, chain, sharedVars, proof, last_hash_at,
                 miner_hash_at, fetch, dispatchVars, taskVars>>

\* unwrap() of None; the release profile aborts on panic.
UnwrapPanic ==
  /\ MainGoto("unwrap", "crashed")
  /\ solution = NoSolution
  /\ UNCHANGED <<netVars, chain, sharedVars, proof, last_hash_at,
                 miner_hash_at, fetch, dispatchVars, sending, taskVars>>

\* The chain's program takes a transaction that solves its challenge and is
\* difficult enough, during Miner::submit or after it.  MaxHashAt bounds the
\* model: past it nothing lands any more.
TxLands ==
  /\ sending.challenge = chain
  /\ sending.difficulty >= MinDifficulty
  /\ chain < MaxHashAt
  /\ chain' = chain + 1
  /\ sending' = NoSolution
  /\ UNCHANGED <<netVars, sharedVars, mpc, proof, last_hash_at,
                 miner_hash_at, fetch, dispatchVars, taskVars>>

\* Miner::submit is over; its result is dropped.
SubmitReturns ==
  /\ MainGoto("submit", "reset")
  /\ UNCHANGED <<netVars, chain, sharedVars, proof, last_hash_at, fetch,
                 dispatchVars, taskVars>>

SubmitConfirmed ==
  /\ SubmitReturns
  /\ sending = NoSolution
  /\ UNCHANGED <<miner_hash_at, sending>>

\* The transaction's status is an error.
SubmitRejected ==
  /\ SubmitReturns
  /\ sending # NoSolution
  /\ miner_hash_at' = 0
  /\ sending' = NoSolution

\* Retries exhausted, or no blockhash: no status is known, a transaction that
\* was sent may land yet.
SubmitGivesUp(sent) ==
  /\ SubmitReturns
  /\ miner_hash_at' = IF sent THEN 0 ELSE miner_hash_at
  /\ UNCHANGED sending

\* Mutant: the best difficulty of one epoch survives into the next.
KeepBest ==
  /\ MainGoto("reset", "setStart")
  /\ UNCHANGED <<netVars, chain, sharedVars, proof, last_hash_at,
                 miner_hash_at, fetch, dispatchVars, sending, taskVars>>

ResetBest ==
  /\ MainGoto("reset", "setStart")
  /\ best_difficulty' = 0
  /\ UNCHANGED <<netVars, chain, clients, cores, total_cores, action_type,
                 mining_clients, solution, permit, proof, last_hash_at,
                 miner_hash_at, fetch, dispatchVars, sending, taskVars>>

SetStart ==
  /\ MainGoto("setStart", "startWake")
  /\ action_type' = "Start"
  /\ UNCHANGED <<netVars, chain, clients, cores, total_cores, mining_clients,
                 best_difficulty, solution, permit, proof, last_hash_at,
                 miner_hash_at, fetch, dispatchVars, sending, taskVars>>

-----------------------------------------------------------------------------
(* handle_client                                                           *)

TaskGoto(a, from, to) ==
  /\ Up
  /\ hpc[a] = from
  /\ hpc' = [hpc EXCEPT ![a] = to]

Hello(a) ==
  /\ TaskGoto(a, "hello", "insert")
  /\ FreeThread
  /\ hello[a] > 0
  /\ cores' = [cores EXCEPT ![a] = hello[a]]
  /\ UNCHANGED <<netVars, chain, clients, total_cores, action_type,
                 mining_clients, best_difficulty, solution, permit, mainVars,
                 got, gone>>

\* The connection ended before its CORES line: never registered, but the
\* task goes on to its read loop.
HelloEof(a) ==
  /\ TaskGoto(a, "hello", "reading")
  /\ FreeThread
  /\ hello[a] = 0
  /\ link[a] = "closed"
  /\ UNCHANGED <<netVars, chain, sharedVars, mainVars, got, gone>>

InsertClient(a) ==
  /\ TaskGoto(a, "insert", "count")
  /\ ~ClientsLocked
  /\ clients' = clients \cup {a}
  /\ UNCHANGED <<netVars, chain, cores, total_cores, action_type,
                 mining_clients, best_difficulty, solution, permit, mainVars,
                 got, gone>>

\* Mutant: only the client that starts the mining is counted.
CountFirstOnly(a) ==
  /\ TaskGoto(a, "count", "reading")
  /\ ~Dispatching
  /\ total_cores' = IF action_type = "Wait" THEN total_cores + cores[a]
                    ELSE total_cores
  /\ action_type' = IF action_type = "Wait" THEN "Start" ELSE action_type
  /\ permit' = (permit \/ action_type = "Wait")
  /\ UNCHANGED <<netVars, chain, clients, cores, mining_clients,
                 best_difficulty, solution, mainVars, got, gone>>

\* One critical section of total_cores, the first-mining test inside it.
CountCores(a) ==
  /\ TaskGoto(a, "count", "reading")
  /\ ~Dispatching
  /\ total_cores' = total_cores + cores[a]
  /\ action_type' = IF action_type = "Wait" THEN "Start" ELSE action_type
  /\ permit' = (permit \/ action_type = "Wait")
  /\ UNCHANGED <<netVars, chain, clients, cores, mining_clients,
                 best_difficulty, solution, mainVars, got, gone>>

\* Mutant: the latest answer wins.
AnyIsBetter(s) == s.difficulty > 0

Better(s) == s.difficulty > best_difficulty

\* read_exact, then the comparison under a read guard that is dropped again.
Receive(a) ==
  /\ FreeThread
  /\ toGuide[a] # <<>>
  /\ LET s == Head(toGuide[a])
     IN  /\ TaskGoto(a, "reading", IF Better(s) THEN "setBest" ELSE "finish")
         /\ got' = [got EXCEPT ![a] = IF Better(s) THEN s ELSE NoSolution]
  /\ toGuide' = [toGuide EXCEPT ![a] = Tail(@)]
  /\ UNCHANGED <<link, hello, toWorker, chain, sharedVars, mainVars, gone>>

ReceiveEof(a) ==
  /\ TaskGoto(a, "reading", "finish")
  /\ FreeThread
  /\ toGuide[a] = <<>>
  /\ link[a] = "closed"
  /\ gone' = [gone EXCEPT ![a] = TRUE]
  /\ UNCHANGED <<netVars, chain, sharedVars, mainVars, got>>

SetBest(a) ==
  /\ TaskGoto(a, "setBest", "setSolution")
  /\ best_difficulty' = got[a].difficulty
  /\ UNCHANGED <<netVars, chain, clients, cores, total_cores, action_type,
                 mining_clients, solution, permit, mainVars, got, gone>>

SetSolution(a) ==
  /\ TaskGoto(a, "setSolution", "finish")
  /\ solution' = got[a]
  /\ got' = [got EXCEPT ![a] = NoSolution]
  /\ UNCHANGED <<netVars, chain, clients, cores, total_cores, action_type,
                 mining_clients, best_difficulty, permit, mainVars, gone>>

\* Mutant: submit as soon as there is anything to submit.
AnyAnswered(rest) == best_difficulty > 0

\* Mutant: the test comes before the removal.
NobodyWasLeft(rest) == mining_clients = {} /\ best_difficulty > 0

AllAnswered(rest) == rest = {} /\ best_difficulty > 0

AfterMessage(a) == IF gone[a] THEN "closing" ELSE "reading"

\* mining_clients is locked from here to notify_one.
Finish(a) ==
  /\ ~MiningLocked
  /\ mining_clients' = mining_clients \ {a}
  /\ TaskGoto(a, "finish", IF AllAnswered(mining_clients') THEN "setSend"
                           ELSE AfterMessage(a))
  /\ UNCHANGED <<netVars, chain, clients, cores, total_cores, action_type,
                 best_difficulty, solution, permit, mainVars, got, gone>>

SetSend(a) ==
  /\ TaskGoto(a, "setSend", "wake")
  /\ action_type' = "Send"
  /\ UNCHANGED <<netVars, chain, clients, cores, total_cores, mining_clients,
                 best_difficulty, solution, permit, mainVars, got, gone>>

\* Mutant: notify_waiters, which stores no permit.
WakeWaiters(a) ==
  /\ TaskGoto(a, "wake", AfterMessage(a))
  /\ permit' = (permit \/ mpc = "select")
  /\ UNCHANGED <<netVars, chain, clients, cores, total_cores, action_type,
                 mining_clients, best_difficulty, solution, mainVars, got,
                 gone>>

Wake(a) ==
  /\ TaskGoto(a, "wake", AfterMessage(a))
  /\ permit' = TRUE
  /\ UNCHANGED <<netVars, chain, clients, cores, total_cores, action_type,
                 mining_clients, best_difficulty, solution, mainVars, got,
                 gone>>

\* The task is over: its socket and its locals are dropped.
EndTask(a) ==
  /\ FreeLink(a)
  /\ gone' = [gone EXCEPT ![a] = FALSE]

\* Mutant: the cores of a client that left stay in the total.
KeepsCores(a) == 0

LeavingCores(a) == IF a \in clients THEN cores[a] ELSE 0

\* Leave the maps under the clients lock, and keep it if nobody is left.
LeaveClients(a) ==
  /\ ~ClientsLocked
  /\ clients' = clients \ {a}
  /\ total_cores' = total_cores - LeavingCores(a)
  /\ cores' = [cores EXCEPT ![a] = 0]
  /\ TaskGoto(a, "closing", IF clients' = {} THEN "drain" ELSE "none")
  /\ IF clients' = {} THEN UNCHANGED <<netVars, gone>> ELSE EndTask(a)
  /\ UNCHANGED <<chain, action_type, mining_clients, best_difficulty,
                 solution, permit, mainVars, got>>

\* Leave the sleep loop; going round it once more changes nothing.
DrainExit(a) ==
  /\ TaskGoto(a, "drain", "setWait")
  /\ action_type # "Send"
  /\ UNCHANGED <<netVars, chain, sharedVars, mainVars, got, gone>>

SetWait(a) ==
  /\ TaskGoto(a, "setWait", "waitWake")
  /\ action_type' = "Wait"
  /\ UNCHANGED <<netVars, chain, clients, cores, total_cores, mining_clients,
                 best_difficulty, solution, permit, mainVars, got, gone>>

WaitWake(a) ==
  /\ TaskGoto(a, "waitWake", "none")
  /\ permit' = TRUE
  /\ EndTask(a)
  /\ UNCHANGED <<chain, clients, cores, total_cores, action_type,
                 mining_clients, best_difficulty, solution, mainVars, got>>

-----------------------------------------------------------------------------
MainStep ==
  \/ \E a \in Addr : Accept(a) \/ DispatchWrite(a)
  \/ Notified \/ WokenStart \/ WokenSend \/ WokenWait
  \/ (\E seen \in Challenge : FetchProof(seen))
  \/ FetchAgain \/ GetClock \/ ClockPanic
  \/ ResendSetSend \/ MainNotify("resendWake") \/ MainNotify("startWake")
  \/ LockClients \/ MarkMining \/ DispatchDone
  \/ TakeSolution \/ UnwrapPanic
  \/ SubmitConfirmed \/ SubmitRejected
  \/ \E sent \in BOOLEAN : SubmitGivesUp(sent)
  \/ ResetBest \/ SetStart

TaskStep(a) ==
  \/ Hello(a) \/ HelloEof(a) \/ InsertClient(a) \/ CountCores(a)
  \/ Receive(a) \/ ReceiveEof(a) \/ SetBest(a) \/ SetSolution(a)
  \/ Finish(a) \/ SetSend(a) \/ Wake(a)
  \/ LeaveClients(a) \/ DrainExit(a) \/ SetWait(a) \/ WaitWake(a)

GuideStep == MainStep \/ TxLands \/ \E a \in Addr : TaskStep(a)
=============================================================================
