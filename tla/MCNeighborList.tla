--------------------------- MODULE MCNeighborList ---------------------------
(* Two particles about a periodic boundary between two ranks.                *)
EXTENDS NeighborList

AboutTheBoundary ==
    { [tag \in Tags |-> IF tag = 0 THEN <<x % Box(1), 0, 0>> ELSE <<y, 0, 0>>] :
        x \in -2 .. 0, y \in 1 .. 3 }
Approaching == { [tag \in Tags |-> IF tag = 0 THEN x ELSE -1] : x \in 0 .. 1 }
NarrowAndWide == {<<1, 2>>, <<1, 3>>}
EveryStepOrTwo == {<<2, TRUE>>, <<1, FALSE>>}
OnePair == { <<(<<0, 1>>)>> }
NoneOrReversed == { <<>>, <<(<<1, 0>>)>> }
=============================================================================
