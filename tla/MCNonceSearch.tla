--------------------------- MODULE MCNonceSearch ---------------------------
(* Instances of NonceSearch for TLC. *)
EXTENDS NonceSearch

\* A machine of one core, and one of two, the second of which joined too
\* late for its core to be in the total of two.
MCCalls == {[offset |-> 0, cores |-> 1], [offset |-> 1, cores |-> 2]}

MCOneCall == {[offset |-> 0, cores |-> 1]}

\* Nonces without a hash, ties, and a maximum that only one thread meets
\* before the others have left their shares.
MCScore == [n \in Nonce |-> IF n = 5 THEN 3 ELSE n % 3]
=============================================================================
