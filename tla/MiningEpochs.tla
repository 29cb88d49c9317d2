---------------------------- MODULE MiningEpochs ----------------------------
(***************************************************************************)
(* What the guide promises its clients when nobody drops out: every        *)
(* registered client gets each challenge that is handed out once; nothing  *)
(* is submitted before all of them have answered, and then one of their    *)
(* answers is, the most difficult unless answers are taken in in parallel; *)
(* and only what was submitted moves the chain on.  No locks, permits,     *)
(* modes, sockets or RPC calls here.                                       *)
(***************************************************************************)
EXTENDS Naturals

CONSTANTS
  Client, Difficulty, MinDifficulty, MaxHashAt,
  Stale,    \* may a challenge be handed out that is not the chain's any more?
  Parallel  \* may answers be taken in at the same time?

VARIABLES
  chain,       \* the current challenge
  registered,  \* the clients that joined
  handed,      \* the last challenge handed out
  awaited,     \* the clients whose answer to it is outstanding
  mined,       \* what each has found and not yet answered: one or none
  best,        \* the difficulty of the answer that would be submitted
  sending      \* the submission that may still land

epochVars == <<chain, registered, handed, awaited, mined, best, sending>>

Nothing == [challenge |-> 0, difficulty |-> 0]

Init ==
  /\ chain = 1
  /\ registered = {}
  /\ handed = 0
  /\ awaited = {}
  /\ mined = [c \in Client |-> {}]
  /\ best = 0
  /\ sending = Nothing

Join(c) ==
  /\ c \notin registered
  /\ registered' = registered \cup {c}
  /\ UNCHANGED <<chain, handed, awaited, mined, best, sending>>

\* Everybody has answered, and there is something to submit.
Answered == awaited = {} /\ best > 0

\* The guide does not go on from a challenge that nobody has an answer to.
HandOut(challenge) ==
  /\ challenge \in (IF Stale THEN 1..chain ELSE {chain})
  /\ challenge # handed
  /\ handed = 0 \/ Answered
  /\ registered # {}
  /\ handed' = challenge
  /\ awaited' = registered
  /\ best' = 0
  /\ UNCHANGED <<chain, registered, mined, sending>>

Mine(c, d) ==
  /\ c \in awaited
  /\ mined[c] = {}
  /\ mined' = [mined EXCEPT ![c] = {d}]
  /\ UNCHANGED <<chain, registered, handed, awaited, best, sending>>

\* An answer is kept or not.  The first one with any difficulty is not lost,
\* unless another such is about to be taken in.
Answer(c) ==
  /\ c \in awaited
  /\ awaited' = awaited \ {c}
  /\ \E d \in mined[c] :
       /\ best' \in {best, d}
       /\ ~Parallel => best' >= best /\ best' >= d
       /\ best' = 0 /\ d > 0 => \E b \in awaited' : \E e \in mined[b] : e > 0
  /\ mined' = [mined EXCEPT ![c] = {}]
  /\ UNCHANGED <<chain, registered, handed, sending>>

Submit ==
  /\ Answered
  /\ sending' = [challenge |-> handed, difficulty |-> best]
  /\ UNCHANGED <<chain, registered, handed, awaited, mined, best>>

\* A submission that is known to have failed.
Fail ==
  /\ sending' = Nothing
  /\ UNCHANGED <<chain, registered, handed, awaited, mined, best>>

\* The chain takes what was submitted for its challenge, late or not.
Land ==
  /\ sending.challenge = chain
  /\ sending.difficulty >= MinDifficulty
  /\ chain < MaxHashAt
  /\ chain' = chain + 1
  /\ sending' = Nothing
  /\ UNCHANGED <<registered, handed, awaited, mined, best>>

Next ==
  \/ \E c \in Client : Join(c) \/ Answer(c)
  \/ \E challenge \in 1..MaxHashAt : HandOut(challenge)
  \/ Submit \/ Fail \/ Land
  \/ \E c \in Client, d \in Difficulty : Mine(c, d)

\* Every client that was given a challenge mines and answers; the answer is
\* submitted, and again when that fails, until it lands; a new challenge is
\* handed out.
Fairness ==
  /\ WF_epochVars(HandOut(chain)) /\ WF_epochVars(Submit)
  /\ SF_epochVars(Land)
  /\ \A c \in Client : WF_epochVars(Answer(c))
  /\ \A c \in Client : WF_epochVars(\E d \in Difficulty : Mine(c, d))

Spec == Init /\ [][Next]_epochVars /\ Fairness
=============================================================================
