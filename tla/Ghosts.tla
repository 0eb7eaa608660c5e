------------------------------- MODULE Ghosts -------------------------------
(***************************************************************************)
(* Communicator::exchangeGhosts() and updateGhosts(): every rank keeps     *)
(* copies of the particles near its domain, the ghosts.  The exchange      *)
(* decides which particles are sent in which directions and remembers it   *)
(* in the copy lists; the updates of the following time steps send the     *)
(* positions alone, in the order of those lists.  A particle bound for an  *)
(* edge or a corner is forwarded by the rank that received it first.       *)
(*                                                                         *)
(* A coordinate is a cell, L of them to a domain; a particle is at the     *)
(* centre of its cell, so never exactly on a face.  Only the directions    *)
(* with more than one domain appear in plans, the others are never read.   *)
(* Migration is the subject of its own module: here it is one step of all  *)
(* ranks that establishes what is checked there.                           *)
(***************************************************************************)
EXTENDS DomainGrid, PickedLists, SequencesExt

CONSTANTS
    Tags,           \* the particles
    Bonds,          \* sets of two of them
    L,              \* cells to a domain, along every axis
    NOT_LOCAL

ASSUME GhostAssumption ==
    /\ L \in Nat \ {0} /\ NOT_LOCAL \notin Int /\ IsFiniteSet(Tags)
    /\ \A bond \in Bonds : bond \subseteq Tags /\ Cardinality(bond) = 2

VARIABLES
    phase,      \* where each rank is
    stage,      \* position in Route of the direction each rank works on
    ptls,       \* local particles of each rank: tag and position
    ghosts,     \* the ghosts that follow them in the arrays
    plan,       \* m_plan: directions in which each of both is to be sent
    rtag,       \* m_rtag: index of a particle of each rank, or NOT_LOCAL
    copyGhosts, \* m_copy_ghosts: tags to send, for each rank and direction
    numRecv,    \* m_num_recv_ghosts
    channel     \* messages on their way, for each pair of ranks

ghostVars == <<phase, stage, ptls, ghosts, plan, rtag, copyGhosts, numRecv, channel>>

Particle(tag, pos) == [tag |-> tag, pos |-> pos]
TagsOf(list) == { list[i].tag : i \in DOMAIN list }
Communicating == Range(Route)

NoIndex == [tag \in Tags |-> NOT_LOCAL]

\* m_rtag after rtag[tag of list[i]] = i for every i, zero-based.
Indexed(index, list) ==
    [ tag \in Tags |->
        IF tag \in TagsOf(list)
        THEN (CHOOSE i \in DOMAIN list : list[i].tag = tag) - 1 ELSE index[tag] ]

-----------------------------------------------------------------------------
(* Geometry.                                                                *)

\* Cell within the rank's domain, counted from its lower face.
Offset(r, pos, axis) == pos[axis] - GridPos(r)[axis] * L

Box(axis) == Size[axis] * L

\* BoxDim::wrap() with getShiftedBox(): the global box, shifted outwards by
\* twice the ghost width at a rank on its boundary.
FaultyWrapGhost(r, pos, width) ==
    [ axis \in Axes |->
        LET shift == IF GridPos(r)[axis] = Size[axis] - 1 THEN width ELSE 0
        IN  IF Size[axis] = 1 THEN pos[axis]
            ELSE IF pos[axis] >= Box(axis) + shift THEN pos[axis] - Box(axis)
            ELSE IF pos[axis] < shift THEN pos[axis] + Box(axis)
            ELSE pos[axis] ]

WrapGhost(r, pos, width) ==
    [ axis \in Axes |->
        LET shift == IF GridPos(r)[axis] = 0 THEN -2 * width
                     ELSE IF GridPos(r)[axis] = Size[axis] - 1 THEN 2 * width ELSE 0
        IN  IF Size[axis] = 1 THEN pos[axis]
            ELSE IF pos[axis] >= Box(axis) + shift THEN pos[axis] - Box(axis)
            ELSE IF pos[axis] < shift THEN pos[axis] + Box(axis)
            ELSE pos[axis] ]

\* The rank in whose domain a position is, and the position in the global box.
HomeOf(pos) == RankAt([axis \in Axes |-> (pos[axis] % Box(axis)) \div L])
InBox(pos) == [axis \in Axes |-> pos[axis] % Box(axis)]

-----------------------------------------------------------------------------
(* Plans.                                                                   *)

\* f >= 1 - ghost_fraction, or f < ghost_fraction.
NearFace(r, pos, dir, width) ==
    LET c == Offset(r, pos, Axis(dir))
    IN  IF Forward(dir) = 1 THEN c >= L - width ELSE c < width

\* f > 0.5, or not: the nearer of the two faces along the axis.
NearerFace(r, pos, dir) ==
    LET c == Offset(r, pos, Axis(dir))
    IN  (2 * c + 1 > L) <=> (Forward(dir) = 1)

\* A bond of which the other member is not among the local particles.
Incomplete(r, tag) ==
    \E bond \in Bonds : tag \in bond /\ \E other \in bond : other \notin TagsOf(ptls[r])

\* Members of incomplete bonds are sent along the first axis only.
FaultyPlanOf(r, p, width) ==
    { dir \in Communicating :
        \/ Incomplete(r, p.tag) /\ Axis(dir) = 1 /\ NearerFace(r, p.pos, dir)
        \/ NearFace(r, p.pos, dir, width) }

\* What the two passes over the bonds and the particles mark.
PlanOf(r, p, width) ==
    { dir \in Communicating :
        \/ Incomplete(r, p.tag) /\ NearerFace(r, p.pos, dir)
        \/ NearFace(r, p.pos, dir, width) }

-----------------------------------------------------------------------------
(* Messages.                                                                *)

\* A rank that has nothing to send sends nothing.
FaultyPut(chan, from, to, message) ==
    IF message.data = <<>> THEN chan ELSE [chan EXCEPT ![<<from, to>>] = Append(@, message)]

\* MPI_Isend(), of the number of elements and of the elements.
Put(chan, from, to, message) == [chan EXCEPT ![<<from, to>>] = Append(@, message)]

\* The rank a message is expected from, and the first one that has come.
Source(r) == NeighborRank(r, Opposite(Route[stage[r]]))
Arrived(r) == channel[Source(r), r] # <<>>
Message(r) == Head(channel[Source(r), r])
Taken(r) == [channel EXCEPT ![<<Source(r), r>>] = Tail(@)]

-----------------------------------------------------------------------------
(* exchangeGhosts()                                                         *)

\* The first half of the loop body: fill the send buffer with the particles
\* and ghosts whose plan names the direction, remember their tags, send them.
\* After the last direction the plans are not read again.
SendGhosts(r, k, copies, plans, chan) ==
    IF k > Len(Route)
    THEN /\ phase' = [phase EXCEPT ![r] = "current"]
         /\ stage' = [stage EXCEPT ![r] = 0]
         /\ plan' = [plan EXCEPT ![r] = <<>>]
         /\ channel' = chan
         /\ UNCHANGED copyGhosts
    ELSE LET dir == Route[k]
             all == ptls[r] \o copies
             marked == [i \in DOMAIN all |-> [ptl |-> all[i], plan |-> plans[i]]]
             sent == Picked(marked, { i \in DOMAIN marked : dir \in marked[i].plan })
         IN  /\ phase' = [phase EXCEPT ![r] = "exchange"]
             /\ stage' = [stage EXCEPT ![r] = k]
             /\ copyGhosts' = [copyGhosts EXCEPT ![r][dir] =
                                  [i \in DOMAIN sent |-> sent[i].ptl.tag]]
             /\ channel' = Put(chan, r, NeighborRank(r, dir),
                              [kind |-> "ghosts", dir |-> dir, data |-> sent])
             /\ plan' = [plan EXCEPT ![r] = plans]

\* Mark the particles, with a ghost layer of the given width, and begin.
BeginExchange(r, width) ==
    /\ phase[r] = "migrated"
    /\ SendGhosts(r, 1, ghosts[r],
                  [i \in DOMAIN ptls[r] |-> PlanOf(r, ptls[r][i], width)], channel)
    /\ UNCHANGED <<ptls, ghosts, rtag, numRecv>>

\* Append what has come to the arrays, wrap it into the box, set its rtag;
\* then the next direction, for which the new ghosts are considered as well.
ReceiveGhosts(r, width) ==
    /\ phase[r] = "exchange" /\ Arrived(r)
    /\ LET data == Message(r).data
           new == [i \in DOMAIN data |->
                     Particle(data[i].ptl.tag, WrapGhost(r, data[i].ptl.pos, width))]
       IN  /\ ghosts' = [ghosts EXCEPT ![r] = @ \o new]
           /\ rtag' = [rtag EXCEPT ![r] = Indexed(@, ptls[r] \o ghosts'[r])]
           /\ numRecv' = [numRecv EXCEPT ![r][Route[stage[r]]] = Len(data)]
           /\ SendGhosts(r, stage[r] + 1, ghosts'[r],
                         plan[r] \o [i \in DOMAIN data |-> data[i].plan], Taken(r))
    /\ UNCHANGED ptls

-----------------------------------------------------------------------------
(* updateGhosts()                                                           *)

\* Ghosts are not sent on.
ForgetsToForward(r, k, all, chan) ==
    IF k > Len(Route)
    THEN /\ phase' = [phase EXCEPT ![r] = "current"]
         /\ stage' = [stage EXCEPT ![r] = 0]
         /\ channel' = chan
    ELSE LET dir == Route[k]
             sent == SelectSeq(copyGhosts[r][dir], LAMBDA tag : rtag[r][tag] < Len(ptls[r]))
         IN
         /\ channel' = Put(chan, r, NeighborRank(r, dir),
               [kind |-> "positions", dir |-> dir,
                data |-> [i \in DOMAIN sent |-> all[rtag[r][sent[i]] + 1].pos]])
         /\ phase' = [phase EXCEPT ![r] = "updating"]
         /\ stage' = [stage EXCEPT ![r] = k]

\* Sends what is at the place the particle had when the list was made.
FaultySendPositions(r, k, all, chan) ==
    IF k > Len(Route)
    THEN /\ phase' = [phase EXCEPT ![r] = "current"]
         /\ stage' = [stage EXCEPT ![r] = 0]
         /\ channel' = chan
    ELSE LET dir == Route[k] IN
         /\ channel' = Put(chan, r, NeighborRank(r, dir),
               [kind |-> "positions", dir |-> dir,
                data |-> [i \in DOMAIN copyGhosts[r][dir] |-> all[i].pos]])
         /\ phase' = [phase EXCEPT ![r] = "updating"]
         /\ stage' = [stage EXCEPT ![r] = k]

\* The positions of the particles the copy list names, wherever they are now.
SendPositions(r, k, all, chan) ==
    IF k > Len(Route)
    THEN /\ phase' = [phase EXCEPT ![r] = "current"]
         /\ stage' = [stage EXCEPT ![r] = 0]
         /\ channel' = chan
    ELSE LET dir == Route[k] IN
         /\ channel' = Put(chan, r, NeighborRank(r, dir),
               [kind |-> "positions", dir |-> dir,
                data |-> [i \in DOMAIN copyGhosts[r][dir] |->
                            all[rtag[r][copyGhosts[r][dir][i]] + 1].pos]])
         /\ phase' = [phase EXCEPT ![r] = "updating"]
         /\ stage' = [stage EXCEPT ![r] = k]

BeginUpdate(r) ==
    /\ phase[r] = "update"
    /\ SendPositions(r, 1, ptls[r] \o ghosts[r], channel)
    /\ UNCHANGED <<ptls, ghosts, plan, rtag, copyGhosts, numRecv>>

\* num_tot_recv_ghosts: the ghosts of the directions before one.
ReceivedBefore(r, dir) ==
    LET n(d) == IF d < dir /\ d \in Communicating THEN numRecv[r][d] ELSE 0
    IN  n(0) + n(1) + n(2) + n(3) + n(4) + n(5)

\* The positions are written over those of the ghosts that the exchange
\* received from this direction, and wrapped.
ReceivePositions(r, width) ==
    /\ phase[r] = "updating" /\ Arrived(r)
    /\ LET start == ReceivedBefore(r, Route[stage[r]])
           data == Message(r).data
           copies == [ i \in DOMAIN ghosts[r] |->
                         IF i - start \in DOMAIN data
                         THEN Particle(ghosts[r][i].tag, WrapGhost(r, data[i - start], width))
                         ELSE ghosts[r][i] ]
       IN  /\ ghosts' = [ghosts EXCEPT ![r] = copies]
           /\ SendPositions(r, stage[r] + 1, ptls[r] \o ghosts'[r], Taken(r))
    /\ UNCHANGED <<ptls, plan, rtag, copyGhosts, numRecv>>

-----------------------------------------------------------------------------
(* Migration, in one step.                                                  *)

HomeList(r, position) ==
    LET home == SetToSeq({ tag \in Tags : HomeOf(position[tag]) = r })
    IN  [i \in DOMAIN home |-> Particle(home[i], InBox(position[home[i]]))]

\* Where the owners say the particles are.
Owner(tag) == CHOOSE r \in Ranks : tag \in TagsOf(ptls[r])
PositionIn(list, tag) == (CHOOSE p \in Range(list) : p.tag = tag).pos
OwnPosition == [tag \in Tags |-> PositionIn(ptls[Owner(tag)], tag)]

\* The rtags of the ghosts are kept.
FaultyMigrated(position) ==
    /\ ptls' = [r \in Ranks |-> HomeList(r, position)]
    /\ ghosts' = [r \in Ranks |-> <<>>]
    /\ rtag' = [r \in Ranks |-> Indexed(rtag[r], HomeList(r, position))]

\* Ghosts are forgotten with their rtags; every particle is in its domain.
\* The copy lists and plans keep what the next exchange overwrites.
Migrated(position) ==
    /\ ptls' = [r \in Ranks |-> HomeList(r, position)]
    /\ ghosts' = [r \in Ranks |-> <<>>]
    /\ rtag' = [r \in Ranks |-> Indexed(NoIndex, ptls'[r])]

Cleared == [r \in Ranks |-> [dir \in Directions |-> <<>>]]
Placed(position) ==
    /\ stage = [r \in Ranks |-> 0]
    /\ ptls = [r \in Ranks |-> HomeList(r, position)]
    /\ ghosts = [r \in Ranks |-> <<>>]
    /\ plan = [r \in Ranks |-> <<>>]
    /\ rtag = [r \in Ranks |-> Indexed(NoIndex, HomeList(r, position))]
    /\ copyGhosts = Cleared
    /\ numRecv = [r \in Ranks |-> [dir \in Directions |-> 0]]
    /\ channel = [pair \in Ranks \X Ranks |-> <<>>]

GhostStep(r, width) ==
    \/ BeginExchange(r, width) \/ ReceiveGhosts(r, width)
    \/ BeginUpdate(r) \/ ReceivePositions(r, width)

-----------------------------------------------------------------------------
(* What the ranks promise each other.                                       *)

AllCurrent == \A r \in Ranks : phase[r] = "current"
Arrays(r) == ptls[r] \o ghosts[r]

GhostTypeOK ==
    /\ stage \in [Ranks -> 0 .. Len(Route)]
    /\ \A r \in Ranks :
           /\ TagsOf(Arrays(r)) \subseteq Tags
           /\ \A i \in DOMAIN plan[r] : plan[r][i] \subseteq Communicating
           /\ rtag[r] \in [Tags -> 0 .. Len(Arrays(r)) - 1 \cup {NOT_LOCAL}]
           /\ \A dir \in Directions :
                  Range(copyGhosts[r][dir]) \subseteq Tags /\ numRecv[r][dir] \in Nat
    /\ DOMAIN channel = Ranks \X Ranks

\* Assertion in exchangeGhosts(), Communicator.cc 1089: what is received was
\* not there.  No rank has a particle twice, be it local or a ghost, whatever
\* way it came; and the reverse lookup finds each where it is, and only those.
OneCopyOfEach ==
    \A r \in Ranks :
        /\ \A i, j \in DOMAIN Arrays(r) : Arrays(r)[i].tag = Arrays(r)[j].tag => i = j
        /\ rtag[r] = Indexed(NoIndex, Arrays(r))

\* The postcondition of updateGhosts(), Communicator.h 336: once a rank has
\* finished communicating, each ghost is where its owner has the particle, up
\* to a period of the box, also when it was forwarded and also when the owner
\* has since let it leave its domain or has put its particles in another order.
GhostsAreCurrent ==
    \A r \in Ranks : phase[r] = "current" =>
        \A i \in DOMAIN ghosts[r] : \A axis \in Axes :
            LET own == OwnPosition[ghosts[r][i].tag][axis]
                x == ghosts[r][i].pos[axis]
            IN  IF Size[axis] = 1 THEN x = own ELSE (x - own) % Box(axis) = 0
=============================================================================
