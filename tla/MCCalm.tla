------------------------------- MODULE MCCalm -------------------------------
(***************************************************************************)
(* An instance of Cluster for TLC, with a history of the answers that the  *)
(* tasks have taken in since the last hand-out.                            *)
(***************************************************************************)
EXTENDS MCCluster, FiniteSetsExt

VARIABLES
  top,   \* the most difficult of them
  raced  \* two were between comparison and storing at the same time

allVars == <<vars, top, raced>>

Storing == {a \in Addr : hpc[a] \in {"setBest", "setSolution"}}

\* The difficulties of the answers that a step takes in.
Taken ==
  {Head(toGuide[a]).difficulty :
     a \in {b \in Addr : Len(toGuide'[b]) < Len(toGuide[b])}}

MCInit == Init /\ top = 0 /\ raced = FALSE

MCNext ==
  /\ Next
  /\ IF mpc = "lock" /\ mpc' = "dispatch" THEN raced' = FALSE /\ top' = 0
     ELSE /\ raced' = (raced \/ Cardinality(Storing') > 1)
          /\ top' = IF raced' THEN 0 ELSE Max({top} \cup Taken)

MCFairSpec == MCInit /\ [][MCNext]_allVars /\ Fairness

\* What is submitted is the most difficult of all answers, whichever task took
\* which in and in whatever order, unless two of them were being stored at the
\* same time: the comparison of main.rs:441 and the updates after it keep a
\* better answer when they meet no other, and the decision waits for the last.
SubmitsBest == mpc = "unwrap" => solution.difficulty >= top
=============================================================================
