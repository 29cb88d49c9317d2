----------------------------- MODULE Submission -----------------------------
(***************************************************************************)
(* What Miner::submit promises its caller about one solution after the     *)
(* other.  A transaction with the solution is signed on a route, and may   *)
(* land at any time once it was sent; a call may turn to a second route    *)
(* once, and sign another transaction there.  The call ends well only if   *)
(* one of them landed.  If it ends badly with a transaction signed on its  *)
(* present route, the local last_hash_at is forgotten, so that the next    *)
(* proof of the chain is taken as it is.  If it ends badly before signing  *)
(* there, last_hash_at is kept: then nothing was ever signed, or a         *)
(* transaction of the route it turned away from may still land.            *)
(***************************************************************************)
VARIABLES
  busy,    \* a call is under way
  signed,  \* it has a signed transaction on its present route
  turned,  \* the latest call has turned to its second route
  sent,    \* a transaction of the latest call may have reached the chain
  landed,  \* and succeeded
  known,   \* the local last_hash_at is not reset
  ok       \* the latest call that ended, ended well

submissionVars == <<busy, signed, turned, sent, landed, known, ok>>

Init ==
  /\ busy = FALSE /\ signed = FALSE /\ turned = FALSE
  /\ sent = FALSE /\ landed = FALSE
  /\ known = FALSE /\ ok = FALSE

\* The next proof was fetched.
Mine ==
  /\ ~busy
  /\ known' = TRUE
  /\ UNCHANGED <<busy, signed, turned, sent, landed, ok>>

Begin ==
  /\ ~busy
  /\ busy' = TRUE
  /\ turned' = FALSE
  /\ sent' = FALSE
  /\ landed' = FALSE
  /\ ok' = FALSE
  /\ UNCHANGED <<signed, known>>

Sign ==
  /\ busy /\ ~signed
  /\ signed' = TRUE
  /\ UNCHANGED <<busy, turned, sent, landed, known, ok>>

Send ==
  /\ signed
  /\ sent' = TRUE
  /\ UNCHANGED <<busy, signed, turned, landed, known, ok>>

Land ==
  /\ sent /\ ~landed
  /\ landed' = TRUE
  /\ UNCHANGED <<busy, signed, turned, sent, known, ok>>

ChangeRoute ==
  /\ signed /\ ~turned
  /\ signed' = FALSE
  /\ turned' = TRUE
  /\ UNCHANGED <<busy, sent, landed, known, ok>>

Confirm ==
  /\ signed /\ landed
  /\ busy' = FALSE
  /\ signed' = FALSE
  /\ ok' = TRUE
  /\ UNCHANGED <<turned, sent, landed, known>>

Fail ==
  /\ signed
  /\ busy' = FALSE
  /\ signed' = FALSE
  /\ known' = FALSE
  /\ UNCHANGED <<turned, sent, landed, ok>>

\* Nothing of this call can ever land.
FailUnsigned ==
  /\ busy /\ ~signed /\ ~turned /\ ~sent
  /\ busy' = FALSE
  /\ UNCHANGED <<signed, turned, sent, landed, known, ok>>

\* The first route's transaction may have landed, or may still.
FailTurned ==
  /\ busy /\ ~signed /\ turned
  /\ busy' = FALSE
  /\ UNCHANGED <<signed, turned, sent, landed, known, ok>>

Next ==
  \/ Mine \/ Begin \/ Sign \/ Send \/ Land \/ ChangeRoute
  \/ Confirm \/ Fail \/ FailUnsigned \/ FailTurned

Spec == Init /\ [][Next]_submissionVars
=============================================================================
