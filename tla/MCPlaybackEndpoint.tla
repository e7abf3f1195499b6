------------------------- MODULE MCPlaybackEndpoint -------------------------
(* Instances of PlaybackEndpoint for TLC. *)
EXTENDS PlaybackEndpoint

CONSTANTS p1, k1, k2, k3, i1, i2, tv, tablet

OneItem == {<<i1>>}
OneSession == {1}
EveryState == States
=============================================================================
