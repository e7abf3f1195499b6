--------------------------- MODULE MCMediaControl ---------------------------
(* Instances of MediaControl for TLC. *)
EXTENDS MediaControlStream, TLC

CONSTANTS p1, p2, k1, k2, k3, k4, i1, i2, tv, tablet, phone, watch

OneItem  == {<<i1>>}
TwoItems == {<<i1, i2>>}
AnyQueue == {<<i1, i2>>, <<i2>>}
TwoSessions == 1 .. 2
OneSession == {1}
Symmetry == UNION {Permutations(Callers), Permutations(Keys),
                   Permutations(Targets), Permutations(Actors)}
=============================================================================
