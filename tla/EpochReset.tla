----------------------------- MODULE EpochReset -----------------------------
(***************************************************************************)
(* The guide's copy of config.last_reset_at.  The chain's program takes no *)
(* solution once an epoch has ended, until somebody resets it.  A listener *)
(* task keeps the copy, by polling or by a subscription, and Miner::submit *)
(* packs a reset instruction when the copy says that the end is near.      *)
(* Time is in seconds; the two clocks need not agree.                      *)
(***************************************************************************)
EXTENDS Integers, FiniteSets

CONSTANTS
  EPOCH_DURATION, WS_RETRY_DELAY,
  Buffer,    \* of submit: 5
  Latency,   \* what a query takes at most, with the scheduling of its task
  NodeLag,   \* how far behind the chain the state of a polled node is at most
  Skews,     \* the chain's clock minus the guide's
  Start,     \* when the guide is started
  Horizon,   \* bound on the guide's clock
  MaxFlying  \* bound on the transactions under way

ASSUME EpochAssumption ==
  /\ EPOCH_DURATION \in Nat \ {0} /\ WS_RETRY_DELAY \in Nat
  /\ Buffer \in Nat /\ Latency \in Nat /\ NodeLag \in Nat
  /\ MaxFlying \in Nat
  /\ Start \in Nat /\ Horizon \in Nat
  /\ Skews \subseteq Int /\ \A s \in Skews : Start + s > 0

VARIABLES
  now, skew,
  chain_reset,    \* Config.last_reset_at on the chain
  resets,         \* history: every value it has had
  \* the listener
  websocket,      \* was --websocket given?
  last_reset_at,  \* the shared copy
  lpc,            \* where the listener's task is
  config,         \* the polled value, before it is stored
  wake,           \* when the current poll began, or the next one will
  node,           \* the last reset that the connection has reported
  \* Miner::submit
  spc, read_at,   \* where it is, and the copy it has read
  flying          \* its transactions that may land

chainVars == <<skew, chain_reset, resets>>
pollVars == <<config, wake>>
listenVars == <<websocket, last_reset_at, lpc, pollVars, node>>
submitVars == <<spc, read_at, flying>>
vars == <<now, chainVars, listenVars, submitVars>>

ChainNow == now + skew

Ended == chain_reset + EPOCH_DURATION <= ChainNow

Init ==
  /\ now = Start /\ skew \in Skews
  /\ chain_reset \in 1..ChainNow /\ resets = {chain_reset}
  /\ websocket \in BOOLEAN
  /\ lpc = IF websocket THEN "connect" ELSE "query"
  /\ last_reset_at = 0 /\ config = 0 /\ wake = Start /\ node = 0
  /\ spc = "idle" /\ read_at = 0 /\ flying = {}

-----------------------------------------------------------------------------
(* get_config_pull                                                         *)

\* What the account was at some time of the last NodeLag seconds.
Recent == {r \in resets : \A r2 \in resets : r < r2 => ChainNow <= r2 + NodeLag}

\* utils::get_config: the account as the node has it, or Config of zeros.
QueryConfig ==
  /\ lpc = "query"
  /\ lpc' = "store"
  /\ config' \in {0} \cup Recent
  /\ UNCHANGED <<now, chainVars, websocket, last_reset_at, wake, node,
                 submitVars>>

AtLeast(bound, x) == IF x < bound THEN bound ELSE x

Monus(x, y) == IF x < y THEN 0 ELSE x - y

\* Mutant: sleep an epoch, however old the current one is.
WholeEpoch(v) == AtLeast(WS_RETRY_DELAY, EPOCH_DURATION)

WaitTime(v) == AtLeast(WS_RETRY_DELAY, Monus(v + EPOCH_DURATION, now))

\* Mutant: the copy holds the end of the epoch, not its start.
EpochEnd(v) == v + EPOCH_DURATION

ResetOf(v) == v

StoreConfig ==
  /\ lpc = "store"
  /\ lpc' = "asleep"
  /\ last_reset_at' = ResetOf(config)
  /\ wake' = now + WaitTime(config)
  /\ config' = 0
  /\ UNCHANGED <<now, chainVars, websocket, node, submitVars>>

WakeUp ==
  /\ lpc = "asleep"
  /\ now >= wake
  /\ lpc' = "query"
  /\ UNCHANGED <<now, chainVars, websocket, last_reset_at, pollVars, node,
                 submitVars>>

-----------------------------------------------------------------------------
(* get_config over get_account_subscribe                                   *)

\* The node may lag behind; a refused subscription is logged, and the task
\* listens on.  A failed attempt changes nothing.
Connect ==
  /\ lpc = "connect"
  /\ lpc' = "listen"
  /\ node' \in {0} \cup resets
  /\ UNCHANGED <<now, chainVars, websocket, last_reset_at, pollVars,
                 submitVars>>

StreamEnds ==
  /\ lpc = "listen"
  /\ lpc' = "connect"
  /\ UNCHANGED <<now, chainVars, websocket, last_reset_at, pollVars, node,
                 submitVars>>

Newer(v) == AtLeast(last_reset_at, v)

\* A connection reports in order, and may skip; nothing is reported that
\* was missed.  An account that cannot be parsed counts as never reset, a
\* message that cannot be decoded is dropped.
Notified(v) ==
  /\ lpc = "listen"
  /\ v > node
  /\ node' = v
  /\ last_reset_at' \in {Newer(v), 0}
  /\ UNCHANGED <<now, chainVars, websocket, lpc, pollVars, submitVars>>

-----------------------------------------------------------------------------
(* Miner::submit, which other submissions follow while one may still land. *)

ReadReset ==
  /\ spc = "idle"
  /\ spc' = "read"
  /\ read_at' = last_reset_at
  /\ UNCHANGED <<now, chainVars, listenVars, flying>>

\* Mutant: the boundary belongs to the old epoch.
DueLater(v) == v + EPOCH_DURATION - Buffer < now

\* Mutant: nothing is reset before the copy is known.
DueIfKnown(v) == v # 0 /\ v + EPOCH_DURATION - Buffer <= now

ResetDue(v) == v + EPOCH_DURATION - Buffer <= now

PackAndSend ==
  /\ spc = "read"
  /\ Cardinality(flying) < MaxFlying
  /\ spc' = "idle"
  /\ flying' = flying \cup {[decided |-> now, reset |-> ResetDue(read_at)]}
  /\ read_at' = 0
  /\ UNCHANGED <<now, chainVars, listenVars>>

-----------------------------------------------------------------------------
(* The chain and the clock.                                                *)

ResetNow ==
  /\ chain_reset' = ChainNow
  /\ resets' = resets \cup {ChainNow}

\* The reset instruction comes first, and does nothing before the end; what
\* comes after the end without one is refused.
Land(x) ==
  /\ flying' = flying \ {x}
  /\ IF x.reset /\ Ended THEN ResetNow ELSE UNCHANGED <<chain_reset, resets>>
  /\ UNCHANGED <<now, skew, listenVars, spc, read_at>>

\* Its blockhash is too old.
Expire(x) ==
  /\ flying' = flying \ {x}
  /\ UNCHANGED <<now, chainVars, listenVars, spc, read_at>>

OthersReset ==
  /\ Ended
  /\ ResetNow
  /\ UNCHANGED <<now, skew, listenVars, submitVars>>

\* A sleep ends on time, and a query is answered within Latency.
Tick ==
  /\ now < Horizon
  /\ ~websocket => now < (IF lpc = "asleep" THEN wake ELSE wake + Latency)
  /\ now' = now + 1
  /\ UNCHANGED <<chainVars, listenVars, submitVars>>

Next ==
  \/ QueryConfig \/ StoreConfig \/ WakeUp
  \/ Connect \/ StreamEnds \/ (\E v \in resets : Notified(v))
  \/ ReadReset \/ PackAndSend
  \/ (\E x \in flying : Land(x) \/ Expire(x)) \/ OthersReset \/ Tick

Spec == Init /\ [][Next]_vars

(***************************************************************************)
(* The guide has workers and goes on submitting; each transaction lands or *)
(* expires, and not all of those with a reset expire.  Nothing is asked of *)
(* the listener.                                                           *)
(***************************************************************************)
FairSpec ==
  /\ Spec
  /\ WF_vars(ReadReset) /\ WF_vars(PackAndSend)
  /\ WF_vars(\E x \in flying : Land(x) \/ Expire(x))
  /\ SF_vars(\E x \in flying : x.reset /\ Land(x))

-----------------------------------------------------------------------------
Flying == [decided : Nat, reset : BOOLEAN]

TypeOK ==
  /\ now \in Nat /\ skew \in Skews
  /\ chain_reset \in resets /\ resets \subseteq 1..ChainNow
  /\ websocket \in BOOLEAN
  /\ lpc \in (IF websocket THEN {"connect", "listen"}
              ELSE {"query", "store", "asleep"})
  /\ last_reset_at \in {0} \cup resets
  /\ config \in {0} \cup resets
  /\ wake \in Nat /\ node \in {0} \cup resets
  /\ spc \in {"idle", "read"} /\ read_at \in {0} \cup resets
  /\ flying \subseteq Flying

\* The comment "Buffer": however old the copy was that submit decided on, a
\* transaction without a reset is refused for want of one only if it is
\* executed more than Buffer - skew seconds after the decision: a chain clock
\* that is ahead of the guide's eats of the buffer.
BufferSuffices ==
  \A x \in flying : (~x.reset /\ Ended) => now - x.decided > Buffer - skew

\* Polling follows the chain: a copy that is neither current nor the 0 of a
\* failed query is replaced soon after the reset it has missed, although the
\* task sleeps to the end of the epoch it knows of, and the node that it asks
\* may still have the old state.
Lag == AtLeast(WS_RETRY_DELAY + 2 * Latency + NodeLag, skew + Latency)

PollFollows ==
  (~websocket /\ last_reset_at \notin {0, chain_reset})
    => ChainNow <= chain_reset + Lag

\* A guide whose clock is not further behind the chain's than Buffer resets an
\* epoch that has ended, were its copy never right: an unknown reset is 0, and
\* an old one is due.
EpochRenewed == (skew <= Buffer /\ Ended) ~> ~Ended
=============================================================================
