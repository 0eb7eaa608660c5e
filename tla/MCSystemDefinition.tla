------------------------- MODULE MCSystemDefinition -------------------------
(* Three particles. With angles one of them has two places; on two ranks all *)
(* have. Two of the tuples are refused: a particle twice, and one that is not *)
(* there.                                                                    *)
EXTENDS SystemDefinition

FewMovable(n) == IF n = 1 THEN {0} ELSE Tags
Tuples == {<<0, 1, 2>>, <<1, 2, 0>>, <<0, 1, 0>>, <<0, 1, 3>>}
=============================================================================
