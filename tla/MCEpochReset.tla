---------------------------- MODULE MCEpochReset ----------------------------
(* Instances of EpochReset for TLC.                                        *)
EXTENDS EpochReset

\* The chain's clock is behind the guide's, or ahead of it.
MCSkews == {-1, 2}
=============================================================================
