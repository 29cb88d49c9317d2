-------------------------- MODULE EpochResetProofs --------------------------
(***************************************************************************)
(* The properties of EpochReset, for every epoch, buffer, delay, latency   *)
(* and difference of the clocks.                                           *)
(***************************************************************************)
EXTENDS EpochReset, TLAPS

USE EpochAssumption

\* The epochs that were reset had ended; nobody's copy is ahead of the chain.
ChainInv ==
  \A r \in resets : r = chain_reset \/ r + EPOCH_DURATION <= chain_reset

\* What is sent without a reset was decided well before the end.
FlyingInv ==
  \A x \in flying :
    ~x.reset => x.decided + Buffer < chain_reset + EPOCH_DURATION

\* A poll runs for Latency at most, and nobody oversleeps.
OnTime ==
  IF lpc = "asleep" THEN now <= wake ELSE wake <= now /\ now <= wake + Latency

\* A sleep ends with the epoch that is known of, or after the delay.
SleepInv == wake <= last_reset_at + EPOCH_DURATION \/ wake <= now + WS_RETRY_DELAY

\* When the copy has missed a reset, the end of its sleep is near.
MissedInv ==
  last_reset_at \notin {0, chain_reset} =>
    \/ wake <= chain_reset
    \/ wake + skew <= chain_reset + NodeLag + WS_RETRY_DELAY + Latency

\* A polled value is old only if the reset came during the poll, or so short a
\* time before that the node had not seen it.
PolledInv ==
  config \notin {0, chain_reset} =>
    config + EPOCH_DURATION <= chain_reset
    /\ wake + skew <= chain_reset + NodeLag

PollInv ==
  ~websocket => /\ OnTime /\ SleepInv /\ MissedInv
                /\ lpc = "store" => PolledInv

IInv == TypeOK /\ ChainInv /\ FlyingInv /\ PollInv

-----------------------------------------------------------------------------
LEMMA TypeInit == Init => TypeOK
  BY DEF Init, TypeOK, ChainNow

\* The integers of a typed state.
LEMMA Ints ==
  ASSUME TypeOK
  PROVE  /\ now \in Int /\ skew \in Int /\ ChainNow \in Int
         /\ chain_reset \in Int /\ chain_reset > 0 /\ chain_reset <= ChainNow
         /\ last_reset_at \in Int /\ config \in Int /\ wake \in Int
         /\ read_at \in Int /\ read_at >= 0 /\ last_reset_at >= 0
         /\ config >= 0
         /\ \A r \in resets : r \in Int
  BY DEF TypeOK, ChainNow

LEMMA AtLeastInt ==
  ASSUME NEW x \in Int, NEW y \in Int
  PROVE  /\ AtLeast(x, y) \in Int
         /\ AtLeast(x, y) >= x /\ AtLeast(x, y) >= y
         /\ AtLeast(x, y) = x \/ AtLeast(x, y) = y
         /\ y > x => AtLeast(x, y) = y
  BY DEF AtLeast

\* The end of the sleep that a polled value leads to.
LEMMA WaitTimeIs ==
  ASSUME now \in Nat, NEW v \in Nat
  PROVE  /\ WaitTime(v) \in Nat
         /\ \/ now + WaitTime(v) <= v + EPOCH_DURATION
            \/ WaitTime(v) <= WS_RETRY_DELAY
  BY DEF WaitTime, AtLeast, Monus

LEMMA TypeNext ==
  ASSUME TypeOK, [Next]_vars
  PROVE  TypeOK'
<1> USE Ints DEF TypeOK, ChainNow, chainVars, pollVars, listenVars, submitVars
<1>1. CASE UNCHANGED vars
  BY <1>1 DEF vars
<1>2. CASE QueryConfig
  BY <1>2 DEF QueryConfig, Recent
<1>3. CASE StoreConfig
  <2>1. config \in Nat
    BY Ints
  <2>2. WaitTime(config) \in Nat
    BY <2>1, WaitTimeIs
  <2> QED
    BY <1>3, <2>2 DEF StoreConfig, ResetOf
<1>4. CASE WakeUp
  BY <1>4 DEF WakeUp
<1>5. CASE Connect
  BY <1>5 DEF Connect
<1>6. CASE StreamEnds
  BY <1>6 DEF StreamEnds
<1>7. ASSUME NEW v \in resets, Notified(v)
      PROVE  TypeOK'
  BY <1>7 DEF Notified, Newer, AtLeast
<1>8. CASE ReadReset
  BY <1>8 DEF ReadReset
<1>9. CASE PackAndSend
  <2>1. [decided |-> now, reset |-> ResetDue(read_at)] \in Flying
    BY DEF Flying, ResetDue
  <2> QED
    BY <1>9, <2>1 DEF PackAndSend
<1>10. ASSUME NEW x \in flying, Land(x)
       PROVE  TypeOK'
  <2>1. /\ flying' \subseteq flying /\ UNCHANGED <<now, skew, spc, read_at>>
        /\ UNCHANGED listenVars
        /\ ResetNow \/ UNCHANGED <<chain_reset, resets>>
    BY <1>10 DEF Land
  <2>2. CASE ResetNow
    BY <2>1, <2>2 DEF ResetNow
  <2>3. CASE UNCHANGED <<chain_reset, resets>>
    BY <2>1, <2>3
  <2> QED
    BY <2>1, <2>2, <2>3
<1>11. ASSUME NEW x \in flying, Expire(x)
       PROVE  TypeOK'
  BY <1>11 DEF Expire
<1>12. CASE OthersReset
  BY <1>12 DEF OthersReset, ResetNow
<1>13. CASE Tick
  BY <1>13 DEF Tick
<1> QED
  BY <1>1, <1>2, <1>3, <1>4, <1>5, <1>6, <1>7, <1>8, <1>9, <1>10, <1>11,
     <1>12, <1>13 DEF Next

\* What a step of the chain does to the latest reset.
LEMMA ChainNext ==
  ASSUME TypeOK, ChainInv, [Next]_vars
  PROVE  /\ ChainInv'
         /\ \/ UNCHANGED <<chain_reset, resets>>
            \/ /\ Ended /\ chain_reset' = ChainNow
               /\ UNCHANGED <<now, skew, listenVars>>
<1> USE DEF chainVars, ChainInv
<1>1. CASE UNCHANGED <<chain_reset, resets>>
  BY <1>1
<1>2. ASSUME Ended, ResetNow, UNCHANGED <<now, skew, listenVars>>
      PROVE  /\ ChainInv'
             /\ Ended /\ chain_reset' = ChainNow
             /\ UNCHANGED <<now, skew, listenVars>>
  BY <1>2, Ints DEF ResetNow, Ended, TypeOK
<1>3. \/ UNCHANGED <<chain_reset, resets>>
      \/ Ended /\ ResetNow /\ UNCHANGED <<now, skew, listenVars>>
  BY DEF Next, vars, QueryConfig, StoreConfig, WakeUp, Connect, StreamEnds,
         Notified, ReadReset, PackAndSend, Land, Expire, OthersReset, Tick
<1> QED
  BY <1>1, <1>2, <1>3

LEMMA FlyingNext ==
  ASSUME TypeOK, ChainInv, FlyingInv, [Next]_vars
  PROVE  FlyingInv'
<1>1. chain_reset' \in Int /\ chain_reset' >= chain_reset
  BY ChainNext, Ints
<1>2. /\ now \in Int /\ chain_reset \in Int /\ read_at \in Int
      /\ read_at <= chain_reset
      /\ \A x \in flying : x.decided \in Int
  BY Ints DEF TypeOK, ChainInv, Flying
<1>3. CASE flying' \subseteq flying
  BY <1>1, <1>2, <1>3 DEF FlyingInv
<1>4. CASE PackAndSend
  <2> DEFINE y == [decided |-> now, reset |-> ResetDue(read_at)]
  <2>1. ~y.reset => y.decided + Buffer < chain_reset + EPOCH_DURATION
    <3>1. y.decided = now /\ y.reset = ResetDue(read_at)
      OBVIOUS
    <3>2. ~ResetDue(read_at) => now + Buffer < chain_reset + EPOCH_DURATION
      BY <1>2 DEF ResetDue
    <3> QED
      BY <3>1, <3>2
  <2>2. flying' = flying \cup {y} /\ chain_reset' = chain_reset
    BY <1>4 DEF PackAndSend, chainVars
  <2> QED
    BY <2>1, <2>2 DEF FlyingInv
<1> QED
  BY <1>3, <1>4
     DEF Next, vars, QueryConfig, StoreConfig, WakeUp, Connect, StreamEnds,
         Notified, ReadReset, Land, Expire, OthersReset, Tick, submitVars

LEMMA PollNext ==
  ASSUME TypeOK, TypeOK', ChainInv, PollInv, [Next]_vars, ~websocket
  PROVE  PollInv'
<1> USE Ints DEF PollInv, OnTime, SleepInv, MissedInv, PolledInv
<1>1. lpc \in {"query", "store", "asleep"}
  BY DEF TypeOK
<1>2. CASE chain_reset' # chain_reset
  <2>1. /\ Ended /\ chain_reset' = ChainNow
        /\ UNCHANGED <<now, skew, listenVars>>
    BY <1>2, ChainNext
  <2>2. chain_reset + EPOCH_DURATION <= chain_reset'
    BY <2>1 DEF Ended
  <2>3. chain_reset' = now + skew
    BY <2>1 DEF ChainNow
  <2>4. MissedInv'
    <3>1. CASE last_reset_at = chain_reset
      BY <2>1, <2>2, <2>3, <3>1 DEF listenVars, pollVars
    <3>2. CASE last_reset_at # chain_reset
      BY <2>1, <2>2, <3>2 DEF listenVars, pollVars
    <3> QED
      BY <3>1, <3>2
  <2>5. lpc = "store" => PolledInv'
    <3>1. CASE config = chain_reset
      BY <2>1, <2>2, <2>3, <3>1 DEF listenVars, pollVars
    <3>2. CASE config # chain_reset
      BY <2>1, <2>2, <3>2 DEF listenVars, pollVars
    <3> QED
      BY <3>1, <3>2
  <2> QED
    BY <2>1, <2>4, <2>5 DEF listenVars, pollVars
<1>3. CASE chain_reset' = chain_reset
  <2>1. CASE QueryConfig
    <3>1. UNCHANGED <<now, skew, wake, last_reset_at>> /\ lpc = "query"
      BY <2>1 DEF QueryConfig, chainVars
    <3>2. ASSUME config' \notin {0, chain_reset}
          PROVE  /\ config' + EPOCH_DURATION <= chain_reset
                 /\ wake + skew <= chain_reset + NodeLag
      <4>1. config' \in Recent
        BY <2>1, <3>2 DEF QueryConfig
      <4>2. /\ config' \in resets /\ chain_reset \in resets
            /\ config' < chain_reset => ChainNow <= chain_reset + NodeLag
        BY <4>1 DEF Recent, TypeOK
      <4>3. config' + EPOCH_DURATION <= chain_reset
        BY <3>2, <4>2 DEF ChainInv
      <4> QED
        BY <3>1, <4>2, <4>3 DEF ChainNow
    <3> QED
      BY <1>3, <2>1, <3>1, <3>2 DEF QueryConfig
  <2>2. CASE StoreConfig
    <3>1. /\ lpc = "store" /\ lpc' = "asleep" /\ last_reset_at' = config
          /\ wake' = now + WaitTime(config) /\ now' = now /\ skew' = skew
      BY <2>2 DEF StoreConfig, ResetOf, chainVars
    <3>2. /\ WaitTime(config) \in Nat
          /\ \/ wake' <= config + EPOCH_DURATION
             \/ wake' <= now + WS_RETRY_DELAY
      <4>1. now \in Nat /\ config \in Nat
        BY DEF TypeOK
      <4>2. /\ WaitTime(config) \in Nat
            /\ \/ now + WaitTime(config) <= config + EPOCH_DURATION
               \/ WaitTime(config) <= WS_RETRY_DELAY
        BY <4>1, WaitTimeIs
      <4> QED
        BY <3>1, <4>2
    <3>3. MissedInv'
      BY <1>3, <3>1, <3>2
    <3> QED
      BY <3>1, <3>2, <3>3
  <2>3. CASE WakeUp
    BY <1>3, <2>3 DEF WakeUp, chainVars, pollVars
  <2>4. CASE Tick
    BY <1>3, <2>4 DEF Tick, chainVars, pollVars, listenVars
  <2>5. CASE UNCHANGED <<now, skew, listenVars>>
    BY <1>3, <2>5 DEF listenVars, pollVars
  <2> QED
    BY <1>1, <2>1, <2>2, <2>3, <2>4, <2>5
       DEF Next, vars, Connect, StreamEnds, Notified, ReadReset, PackAndSend,
           Land, Expire, OthersReset, chainVars
<1> QED
  BY <1>2, <1>3

-----------------------------------------------------------------------------
LEMMA InitIInv == Init => IInv
<1> SUFFICES ASSUME Init PROVE IInv
  OBVIOUS
<1>1. TypeOK
  BY TypeInit
<1>2. ChainInv /\ FlyingInv
  BY <1>1, Ints DEF Init, ChainInv, FlyingInv
<1>3. PollInv
  BY <1>1, Ints DEF Init, PollInv, OnTime, SleepInv, MissedInv
<1> QED
  BY <1>1, <1>2, <1>3 DEF IInv

LEMMA NextIInv == IInv /\ [Next]_vars => IInv'
<1> SUFFICES ASSUME IInv, [Next]_vars PROVE IInv'
  OBVIOUS
<1> USE DEF IInv
<1>1. TypeOK'
  BY TypeNext
<1>2. ChainInv' /\ FlyingInv'
  BY ChainNext, FlyingNext
<1>3. websocket' = websocket
  BY DEF Next, vars, QueryConfig, StoreConfig, WakeUp, Connect, StreamEnds,
         Notified, ReadReset, PackAndSend, Land, Expire, OthersReset, Tick,
         listenVars
<1>4. PollInv'
  <2>1. CASE websocket
    BY <1>3, <2>1 DEF PollInv
  <2>2. CASE ~websocket
    BY <1>1, <2>2, PollNext
  <2> QED
    BY <2>1, <2>2
<1> QED
  BY <1>1, <1>2, <1>4

LEMMA Inductive == Spec => []IInv
  BY InitIInv, NextIInv, PTL DEF Spec

\* Every field of the guide's copy holds a time the chain was reset, or 0.
THEOREM EpochTypeCorrect == Spec => []TypeOK
  BY Inductive, PTL DEF IInv

\* However old the copy, a solution that is executed within the buffer, less
\* what the chain's clock is ahead, is not refused for want of a reset
\* (mine.rs:112-119).
THEOREM BufferCorrect == Spec => []BufferSuffices
<1>1. IInv => BufferSuffices
  <2> SUFFICES ASSUME IInv, NEW x \in flying, ~x.reset, Ended
               PROVE  now - x.decided > Buffer - skew
    BY DEF BufferSuffices
  <2>1. x.decided \in Int /\ x.decided + Buffer < chain_reset + EPOCH_DURATION
    BY DEF IInv, FlyingInv, TypeOK, Flying
  <2> QED
    BY <2>1, Ints DEF IInv, Ended, ChainNow
<1> QED
  BY <1>1, Inductive, PTL

\* A reset that polling has missed is seen within Lag (listener.rs:60-73).
THEOREM PollCorrect == Spec => []PollFollows
<1>1. IInv => PollFollows
  <2> SUFFICES ASSUME IInv, ~websocket, last_reset_at \notin {0, chain_reset}
               PROVE  ChainNow <= chain_reset + Lag
    BY DEF PollFollows
  <2>1. now <= wake + Latency
    BY Ints DEF IInv, PollInv, OnTime
  <2>2. \/ wake <= chain_reset
        \/ wake + skew <= chain_reset + NodeLag + WS_RETRY_DELAY + Latency
    BY DEF IInv, PollInv, MissedInv
  <2>3. /\ Lag \in Int /\ Lag >= WS_RETRY_DELAY + 2 * Latency + NodeLag
        /\ Lag >= skew + Latency
    <3>1. skew + Latency \in Int /\ WS_RETRY_DELAY + 2 * Latency + NodeLag \in Int
      BY Ints DEF IInv
    <3> QED
      BY <3>1, AtLeastInt DEF Lag
  <2> QED
    BY <2>1, <2>2, <2>3, Ints DEF IInv, ChainNow
<1> QED
  BY <1>1, Inductive, PTL
=============================================================================
