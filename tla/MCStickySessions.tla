--------------------------- MODULE MCStickySessions ---------------------------
(* Instances of StickySessions for TLC.                                     *)
EXTENDS StickySessions, TLC

CONSTANTS c1, c2, c3, hello

\* Two conversations with one opening, one of them after two messages of the
\* system, and one without a text to hash.
MixedOpening == c1 :> hello @@ c2 :> hello @@ c3 :> Opaque
MixedPrelude == c1 :> 0 @@ c2 :> 2 @@ c3 :> 0

ModelSymmetry == Permutations(Models)
=============================================================================
