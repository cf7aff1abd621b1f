------------------------------ MODULE MCKeyHealth ------------------------------
(* An instance of KeyHealth for TLC.                                        *)
EXTENDS KeyHealth, TLC

CONSTANTS k1, groq

OneKey == k1 :> groq
=============================================================================
