---------------------------- MODULE MCMediaGroup ----------------------------
(* MediaGroup with two messages, each on an instance of its own. *)
EXTENDS MediaGroup, TLC

CONSTANTS i1, i2, j1, j2, m1, m2, d1, d2

Carried == (d1 :> m1) @@ (d2 :> m2)

Homes == (d1 :> i1) @@ (d2 :> i2)

MCSymmetry == Permutations(Jobs)

=============================================================================
