---------------------------- MODULE MCRateLedger ----------------------------
(* Instances of RateLedger for TLC.                                         *)
EXTENDS RateLedger, TLC

AttemptSymmetry == Permutations(Attempts)

=============================================================================
