----------------------------- MODULE OreWorker -----------------------------
(***************************************************************************)
(* ore-worker: connect, announce the cores, then read a work order, mine   *)
(* it and write the best solution back, for ever; reconnect when the guide *)
(* closes or (with --wait-time) stays silent for too long.                 *)
(***************************************************************************)
EXTENDS Network

CONSTANTS
  Worker,          \* the worker processes
  NumCores,        \* num_cpus::get() of each
  MaxDrops,        \* bound on the connections that workers may give up
  SERVER_RETRIES   \* failed connects in a row before a worker gives up

ASSUME WorkerAssumption ==
  /\ NumCores \in [Worker -> Cores]
  /\ MaxDrops \in Nat
  /\ SERVER_RETRIES \in Nat \ {0}

VARIABLES
  wpc,          \* where each worker is
  sock,         \* the local address of its stream
  job,          \* the work order it is mining
  retry_count,
  drops         \* how many connections were given up so far

workerVars == <<wpc, sock, job, retry_count, drops>>

WorkerTypeOK ==
  /\ wpc \in [Worker -> {"connect", "greet", "waiting", "mining", "exited"}]
  /\ sock \in [Worker -> Addr \cup {NoAddr}]
  /\ job \in [Worker -> Work \cup {NoWork}]
  /\ retry_count \in [Worker -> 0..SERVER_RETRIES]
  /\ drops \in 0..MaxDrops

WorkerInit ==
  /\ wpc = [w \in Worker |-> "connect"]
  /\ sock = [w \in Worker |-> NoAddr]
  /\ job = [w \in Worker |-> NoWork]
  /\ retry_count = [w \in Worker |-> 0]
  /\ drops = 0

WorkerGoto(w, from, to) ==
  /\ wpc[w] = from
  /\ wpc' = [wpc EXCEPT ![w] = to]

Connect(w, a) ==
  /\ WorkerGoto(w, "connect", "greet")
  /\ OpenLink(a)
  /\ sock' = [sock EXCEPT ![w] = a]
  /\ UNCHANGED <<hello, toGuide, toWorker, job, retry_count, drops>>

\* Nobody listens: sleep and retry, or give up.
ConnectRefused(w) ==
  /\ retry_count' = [retry_count EXCEPT ![w] = @ + 1]
  /\ WorkerGoto(w, "connect", IF retry_count[w] + 1 >= SERVER_RETRIES
                              THEN "exited" ELSE "connect")
  /\ UNCHANGED <<netVars, sock, job, drops>>

SendCores(w) ==
  /\ WorkerGoto(w, "greet", "waiting")
  /\ hello' = [hello EXCEPT ![sock[w]] = NumCores[w]]
  /\ retry_count' = [retry_count EXCEPT ![w] = 0]
  /\ UNCHANGED <<link, toGuide, toWorker, sock, job, drops>>

ReadWork(w) ==
  /\ WorkerGoto(w, "waiting", "mining")
  /\ toWorker[sock[w]] # <<>>
  /\ job' = [job EXCEPT ![w] = Head(toWorker[sock[w]])]
  /\ toWorker' = [toWorker EXCEPT ![sock[w]] = Tail(@)]
  /\ UNCHANGED <<link, hello, toGuide, sock, retry_count, drops>>

\* find_hash_par blocks until every thread's time is up; its outcome, a best
\* hash of some difficulty, is written to the guide.
MineAndSend(w, d) ==
  /\ WorkerGoto(w, "mining", "waiting")
  /\ job[w].total > 0
  /\ toGuide' = [toGuide EXCEPT ![sock[w]] =
                   Append(@, [challenge |-> job[w].challenge,
                              difficulty |-> d])]
  /\ job' = [job EXCEPT ![w] = NoWork]
  /\ UNCHANGED <<link, hello, toWorker, sock, retry_count, drops>>

\* The stream is dropped.
LoseSocket(w) ==
  /\ CloseLink(sock[w])
  /\ sock' = [sock EXCEPT ![w] = NoAddr]
  /\ job' = [job EXCEPT ![w] = NoWork]

\* u64::MAX.saturating_div(0) panics, and the release profile aborts.
DividePanic(w) ==
  /\ WorkerGoto(w, "mining", "exited")
  /\ job[w].total = 0
  /\ LoseSocket(w)
  /\ UNCHANGED <<retry_count, drops>>

\* A read timeout breaks to the outer loop; a killed worker is started again.
\* Either way the next thing the process does is connect.
Drop(w) ==
  /\ drops < MaxDrops
  /\ drops' = drops + 1
  /\ wpc[w] \in {"greet", "waiting", "mining"}
  /\ wpc' = [wpc EXCEPT ![w] = "connect"]
  /\ LoseSocket(w)
  /\ retry_count' = [retry_count EXCEPT ![w] = 0]

\* The guide's end is gone: a read ends the inner loop, a failed write_all
\* ends the process (the ? operator).
GuideLost(w) ==
  /\ \/ WorkerGoto(w, "waiting", "connect")
     \/ WorkerGoto(w, "greet", "exited")
     \/ WorkerGoto(w, "mining", "exited")
  /\ LoseSocket(w)
  /\ UNCHANGED <<retry_count, drops>>
=============================================================================
