----------------------------- MODULE MCChatProxy -----------------------------
(* Instances of ChatProxy for TLC.                                          *)
EXTENDS ChatProxy, TLC

CONSTANTS r1, r2, m1, m2, k1, k2, k3, k4

TwoPlatforms == m1 :> {k1, k3} @@ m2 :> {k2, k4}
TwoKeys == m1 :> {k1, k2}

OneOrder == {<<m1, m2>>}
OneModel == {<<m1>>}

RequestAndKeySymmetry == Permutations(Requests) \cup Permutations(Keys)
=============================================================================
