----------------------------- MODULE MCCooldowns -----------------------------
(* Instances of Cooldowns for TLC.                                          *)
EXTENDS Cooldowns, TLC

AttemptSymmetry == Permutations(Attempts)

\* Two steps of escalation instead of four.
TwoDurations == <<1, 3>>
=============================================================================
