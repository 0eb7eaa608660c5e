------------------------------ MODULE MCGhosts ------------------------------
(* Two bonded particles on four ranks, one of them in the domain of rank 0;  *)
(* two ranks in a row.                                                       *)
EXTENDS GhostLayer

OneBond == {{"a", "b"}}
NoBonds == {}
NearCorners == {<<0, 0, 0>>, <<3, 0, 0>>, <<3, 1, 0>>}
Anywhere == Positions
EastAndSouth == {<<1, 0, 0>>, <<0, -1, 0>>}
EastAndWest == {<<1, 0, 0>>, <<-1, 0, 0>>}
=============================================================================
