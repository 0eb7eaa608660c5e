----------------------------- MODULE DomainGrid -----------------------------
(***************************************************************************)
(* DomainDecomposition: the grid of NX * NY * NZ domains, one per rank, and*)
(* the six directions in which neighbours communicate.                     *)
(* A coordinate is the number of the domain it lies in, counted from the   *)
(* lower end of the global box along one axis: -1 and n are the domains    *)
(* beyond the two ends of n domains.                                       *)
(***************************************************************************)
EXTENDS Integers, Sequences

CONSTANTS NX, NY, NZ

ASSUME GridAssumption == {NX, NY, NZ} \subseteq Nat \ {0}

Ranks == 0 .. NX * NY * NZ - 1
Size == <<NX, NY, NZ>>
Axes == 1..3

\* init.py 812: on one rank there is neither a decomposition nor a communicator.
ASSUME SeveralRanks == \E axis \in Axes : Size[axis] # 1

\* Directions, numbered as in the code: 0 east, 1 west, 2 north, 3 south, ...
Directions == 0..5
Axis(dir) == dir \div 2 + 1
Forward(dir) == IF dir % 2 = 0 THEN 1 ELSE -1
Opposite(dir) == IF dir % 2 = 0 THEN dir + 1 ELSE dir - 1

\* m_grid_pos: Index3D::getTriple() of the rank.
GridPositions ==
    [rank \in Ranks |-> <<rank % NX, (rank % (NX * NY)) \div NX, rank \div (NX * NY)>>]
GridPos(rank) == GridPositions[rank]

\* Index3D::operator()
RankAt(pos) == (pos[3] * NY + pos[2]) * NX + pos[1]

Neighbors ==
    [ rank \in Ranks |-> [ dir \in Directions |->
        LET axis == Axis(dir)
            next == GridPos(rank)[axis] + Forward(dir)
            n == Size[axis]
        IN  RankAt([GridPos(rank) EXCEPT ![axis] =
                        IF next < 0 THEN next + n
                        ELSE IF next = n THEN next - n ELSE next]) ] ]
NeighborRank(rank, dir) == Neighbors[rank][dir]

IsAtBoundary(rank, dir) ==
    GridPos(rank)[Axis(dir)] = IF Forward(dir) = 1 THEN Size[Axis(dir)] - 1 ELSE 0

\* A direction with one domain only is periodic within the domain.
IsCommunicating(dir) == Size[Axis(dir)] # 1

\* The directions of an axis, in the order of the loops over them.
OfAxis(axis) == IF Size[axis] = 1 THEN <<>> ELSE <<2 * axis - 2, 2 * axis - 1>>
Route == OfAxis(1) \o OfAxis(2) \o OfAxis(3)

\* f >= 1 or f < 0 along the direction, f the fraction in the rank's box.
BeyondFace(rank, pos, dir) ==
    LET axis == Axis(dir) IN
    IF Forward(dir) = 1 THEN pos[axis] > GridPos(rank)[axis]
                        ELSE pos[axis] < GridPos(rank)[axis]

\* The global box itself, without the shift.
FaultyWrapped(rank, pos) ==
    [ axis \in Axes |->
        LET x == pos[axis]
            n == Size[axis]
        IN  IF n = 1 THEN x
            ELSE IF x >= n THEN x - n ELSE IF x < 0 THEN x + n ELSE x ]

\* The image is shifted the wrong way.
MisshiftedPosition(rank, pos) ==
    [ axis \in Axes |->
        LET x == pos[axis]
            n == Size[axis]
        IN  IF n = 1 THEN x
            ELSE IF x >= n THEN x + n ELSE IF x < 0 THEN x - n ELSE x ]

\* BoxDim::wrap() with the box of getShiftedBox(): at a rank on the boundary
\* the global box is shifted outwards by twice the ghost width, so what lies
\* just beyond the end, still to be sent on, is not wrapped there.
Wrapped(rank, pos) ==
    [ axis \in Axes |->
        LET x == pos[axis]
            n == Size[axis]
            atUpper == GridPos(rank)[axis] = n - 1
            atLower == GridPos(rank)[axis] = 0
        IN  IF n = 1 THEN x
            ELSE IF x >= n /\ ~ (atUpper /\ x = n) THEN x - n
            ELSE IF x < 0 /\ ~ (atLower /\ x = -1) THEN x + n
            ELSE x ]
=============================================================================
