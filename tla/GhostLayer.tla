----------------------------- MODULE GhostLayer -----------------------------
(***************************************************************************)
(* The ghosts in a simulation without neighbour lists in the way: between  *)
(* two rounds of communication the particles move, and any round may be an *)
(* exchange or, while they have not moved too often, an update.            *)
(***************************************************************************)
EXTENDS GhostsGPU

CONSTANTS
    LayerWidth, \* m_r_ghost, in cells
    MaxBond,    \* how far bonds reach along each axis
    Steps,      \* displacements in one step of the integrator
    MaxMoves,   \* bound on the moves since an exchange
    Anchors     \* bound on the positions of one of the particles when they
                \* migrate, which stands for its translations by domains

\* setGhostLayerWidth(): the layer is narrower than half a domain.
ASSUME LayerAssumption ==
    /\ LayerWidth \in 1 .. L /\ 2 * LayerWidth < L
    /\ MaxBond \in 0 .. 2 * LayerWidth /\ 2 * MaxBond <= L
    /\ MaxMoves \in Nat /\ Steps \subseteq [Axes -> Int]

VARIABLES
    communicator,   \* the class that all ranks use: "CPU" or "GPU"
    moves           \* moves since the last exchange

layerVars == <<ghostVars, ghostBuffers, communicator, moves>>

Cells(axis) == IF Size[axis] = 1 THEN {0} ELSE 0 .. Box(axis) - 1
Positions == { pos \in [Axes -> Cells(1) \cup Cells(2) \cup Cells(3)] :
                 \A axis \in Axes : pos[axis] \in Cells(axis) }

\* The distance between two cells along a periodic axis.
AxisDistance(x, y, axis) ==
    LET d == (x - y) % Box(axis) IN IF 2 * d > Box(axis) THEN Box(axis) - d ELSE d

BondsShort(position) ==
    \A bond \in Bonds : \A a, b \in bond : \A axis \in Axes :
        AxisDistance(position[a][axis], position[b][axis], axis) <= MaxBond

\* Where the particles may be when they migrate.
Start(position) == BondsShort(position) /\ \E tag \in Tags : position[tag] \in Anchors

LayerInit ==
    /\ communicator \in {"CPU", "GPU"}
    /\ moves = 0
    /\ ghostIdx = [r \in Ranks |-> <<>>]
    /\ ghostBuf = [r \in Ranks |-> <<>>]
    /\ numGhosts = Cleared
    /\ phase = [r \in Ranks |-> "migrated"]
    /\ \E position \in [Tags -> Positions] : Start(position) /\ Placed(position)

Own(tag) == Particle(tag, OwnPosition[tag])
Displaced(p, d) == Particle(p.tag, [axis \in Axes |-> p.pos[axis] + d[axis]])

\* The round of communication is an update: positions alone.
MoveAndUpdate ==
    /\ AllCurrent /\ moves < MaxMoves
    /\ \E d \in Steps :
           ptls' = [r \in Ranks |-> [i \in DOMAIN ptls[r] |-> Displaced(ptls[r][i], d)]]
    /\ phase' = [r \in Ranks |-> "update"]
    /\ moves' = moves + 1
    /\ UNCHANGED <<stage, ghosts, plan, rtag, copyGhosts, numRecv, channel,
                   ghostBuffers, communicator>>

\* The local particles of a rank are put in another order (SFCPackUpdater)
\* before the round, an update.  On a GPU, where the lists hold indices, the
\* ghosts would be wrong from then on: there the update relies on a neighbour
\* list, which makes the round after a sort an exchange.
SortAndUpdate(r) ==
    /\ communicator = "CPU"
    /\ AllCurrent /\ Len(ptls[r]) > 1 /\ moves < MaxMoves
    /\ ptls' = [ptls EXCEPT ![r] = Reverse(@)]
    /\ rtag' = [rtag EXCEPT ![r] = Indexed(@, Reverse(ptls[r]))]
    /\ phase' = [s \in Ranks |-> "update"]
    /\ moves' = moves + 1
    /\ UNCHANGED <<stage, ghosts, plan, copyGhosts, numRecv, channel,
                   ghostBuffers, communicator>>

\* The round is a migration and an exchange.
MoveAndMigrate ==
    /\ AllCurrent
    /\ \E d \in Steps :
           LET position == [tag \in Tags |-> InBox(Displaced(Own(tag), d).pos)]
           IN  Start(position) /\ Migrated(position)
    /\ phase' = [r \in Ranks |-> "migrated"]
    /\ moves' = 0
    /\ copyGhosts' = Cleared
    /\ numRecv' = [r \in Ranks |-> [dir \in Directions |-> 0]]
    /\ ghostIdx' = [r \in Ranks |-> <<>>]
    /\ numGhosts' = Cleared
    /\ UNCHANGED <<stage, plan, channel, ghostBuf, communicator>>

\* The bounds on moves and positions may leave nothing to do between rounds.
Rest == AllCurrent /\ UNCHANGED layerVars

Step(r) ==
    /\ \/ communicator = "CPU" /\ GhostStep(r, LayerWidth) /\ UNCHANGED ghostBuffers
       \/ communicator = "GPU" /\ GhostStepGPU(r, LayerWidth)
    /\ UNCHANGED <<moves, communicator>>

LayerNext ==
    \/ MoveAndUpdate \/ MoveAndMigrate \/ Rest
    \/ \E r \in Ranks : SortAndUpdate(r) \/ Step(r)

\* The ranks keep running: while one of them can go on, some rank does.
LayerSpec == LayerInit /\ [][LayerNext]_layerVars /\ WF_layerVars(\E r \in Ranks : Step(r))

-----------------------------------------------------------------------------
LayerTypeOK ==
    /\ GhostTypeOK
    /\ phase \in [Ranks -> {"migrated", "exchange", "update", "updating",
                           "exchangeGPU", "updatingGPU", "current"}]
    /\ \A r \in Ranks : \A copy \in Range(ghostIdx[r]) : copy.idx \in DOMAIN ptls[r]
    /\ moves \in 0 .. MaxMoves

\* What a rank expects from its neighbour in each phase of a round.
Expected == [ exchange |-> "ghosts", updating |-> "positions",
              exchangeGPU |-> "exchangeGPU", updatingGPU |-> "updatingGPU" ]

\* The next message from a neighbour is of the kind and the direction the rank
\* waits for, and an update has as many positions as the exchange had ghosts:
\* the receive buffer is a part of the particle array, whose size nobody checks,
\* and a rank with a GPU posts receives of the sizes it remembers.
UpdatesFitLists ==
    \A r \in Ranks : phase[r] \in DOMAIN Expected /\ Arrived(r) =>
        /\ Message(r).dir = Route[stage[r]]
        /\ Message(r).kind = Expected[phase[r]]
        /\ phase[r] = "updating" => Len(Message(r).data) = numRecv[r][Route[stage[r]]]
        /\ phase[r] = "updatingGPU" => Sizes(Message(r).data) = numGhosts[r][Route[stage[r]]]

\* The images of a position under the periods of the box.
Images(pos) ==
    LET shifts(axis) == IF Size[axis] = 1 THEN {0} ELSE {-Box(axis), 0, Box(axis)}
    IN  { [axis \in Axes |-> pos[axis] + s[axis]] :
            s \in shifts(1) \X shifts(2) \X shifts(3) }

Within(r, pos, width) ==
    \A axis \in Axes :
        Size[axis] # 1 => Offset(r, pos, axis) \in -width .. L + width - 1

\* Whatever is within the ghost width of a rank's domain is on that rank, at
\* the image that is near the domain: across faces, edges and corners and the
\* periodic boundary.  The width shrinks with every move since the exchange.
LayerComplete ==
    AllCurrent =>
        \A r \in Ranks, tag \in Tags : \A pos \in Images(OwnPosition[tag]) :
            Within(r, pos, LayerWidth - moves) => Particle(tag, pos) \in Range(Arrays(r))

\* "Send incomplete bond member to the nearest plane in all directions",
\* Communicator.cc 873: a rank with one member of a bond has the other one too,
\* at its place next to the first, although it is beyond the ghost layer.  Bonds
\* may reach, with what the members moved, as far as getShiftedBox() allows.
BondsComplete ==
    AllCurrent /\ MaxBond + moves <= 2 * LayerWidth =>
        \A r \in Ranks : \A bond \in Bonds : \A a, b \in bond :
            a \in TagsOf(ptls[r]) =>
                /\ b \in TagsOf(Arrays(r))
                /\ \A axis \in Axes :
                       PositionIn(Arrays(r), b)[axis] - PositionIn(Arrays(r), a)[axis]
                           \in -MaxBond .. MaxBond

\* A round of communication that has begun ends on all ranks.
RoundCompletes == ~ AllCurrent ~> AllCurrent
=============================================================================
