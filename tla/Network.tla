------------------------------ MODULE Network ------------------------------
(***************************************************************************)
(* The TCP connections between ore-worker processes and the ore-guide      *)
(* process, as the two ends see them.  A connection is named by its client *)
(* address (SocketAddr, the key of every map of the guide).  Data arrives  *)
(* in order; a worker that closes may lose what it had not yet delivered.  *)
(***************************************************************************)
EXTENDS Naturals, Sequences, FiniteSets

CONSTANTS
  Addr,        \* client addresses; one is reused after both ends forgot it
  NoAddr,      \* the address of a worker or a loop that has none
  Cores,       \* the core counts a worker may announce
  Difficulty,  \* the difficulties a mining job may end with
  MaxHashAt    \* bound on the number of challenges of the chain

ASSUME NetworkAssumption ==
  /\ IsFiniteSet(Addr)
  /\ NoAddr \notin Addr
  /\ Cores \subseteq Nat \ {0}
  /\ Difficulty \subseteq Nat
  /\ MaxHashAt \in Nat \ {0}

VARIABLES
  link,      \* "free", "open", or "closed" by the worker's end
  hello,     \* the core count of the CORES line; 0 before it was sent
  toGuide,   \* 24-byte solutions under way to the guide
  toWorker   \* 56-byte work orders under way to the worker

netVars == <<link, hello, toGuide, toWorker>>

(***************************************************************************)
(* A challenge is named by the last_hash_at of the proof it belongs to: a  *)
(* proof gets a new challenge with every landed solution.                  *)
(***************************************************************************)
Challenge == 1..MaxHashAt

Work == [challenge : Challenge, offset : Nat, total : Nat]

Solution == [challenge : Challenge, difficulty : Nat]

\* Option::None of SharedState::solution, and "no work" in a worker.
NoSolution == [challenge |-> 0, difficulty |-> 0]
NoWork == [challenge |-> 0, offset |-> 0, total |-> 0]

NetworkTypeOK ==
  /\ link \in [Addr -> {"free", "open", "closed"}]
  /\ hello \in [Addr -> {0} \cup Cores]
  /\ toGuide \in [Addr -> Seq(Solution)]
  /\ toWorker \in [Addr -> Seq(Work)]

NetworkInit ==
  /\ link = [a \in Addr |-> "free"]
  /\ hello = [a \in Addr |-> 0]
  /\ toGuide = [a \in Addr |-> <<>>]
  /\ toWorker = [a \in Addr |-> <<>>]

\* connect() completes in the kernel, before the guide accepts.
OpenLink(a) ==
  /\ link[a] = "free"
  /\ link' = [link EXCEPT ![a] = "open"]

\* The worker's end goes away.  A FIN follows the data already written; a
\* reset destroys it.  Work the worker has not read is lost either way.
CloseLink(a) ==
  /\ link' = [link EXCEPT ![a] = "closed"]
  /\ toWorker' = [toWorker EXCEPT ![a] = <<>>]
  /\ \/ UNCHANGED <<hello, toGuide>>
     \/ /\ hello' = [hello EXCEPT ![a] = 0]
        /\ toGuide' = [toGuide EXCEPT ![a] = <<>>]

\* The guide's end goes away after the worker's: the address may be reused.
FreeLink(a) ==
  /\ link' = [link EXCEPT ![a] = "free"]
  /\ hello' = [hello EXCEPT ![a] = 0]
  /\ toGuide' = [toGuide EXCEPT ![a] = <<>>]
  /\ toWorker' = [toWorker EXCEPT ![a] = <<>>]

\* write_all of the guide: to a closed connection it is lost or an error,
\* and the caller only logs the error.
Deliver(a, work) ==
  toWorker' = IF link[a] = "open"
              THEN [toWorker EXCEPT ![a] = Append(@, work)]
              ELSE toWorker
=============================================================================
