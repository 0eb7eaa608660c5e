---------------------------- MODULE ParticleData ----------------------------
(***************************************************************************)
(* ParticleData on one or more ranks, with the SFCPackUpdater that orders  *)
(* its arrays and a ParticleGroup that follows them.  Scripts name a       *)
(* particle by its tag; the arrays of every rank are in an order of their  *)
(* own, behind the reverse lookup m_rtag.                                  *)
(*                                                                         *)
(* The fields of a particle that move together stand as its place: the part*)
(* of the box in which its position is. Every part is in the domain of one *)
(* rank. Coordinates inside a part, periodic images and the type mapping   *)
(* are left out.  Accessors and snapshots are collective: scripts run alike*)
(* on all ranks, and what they do is a step of all of them.                *)
(***************************************************************************)
EXTENDS Integers, Sequences, SequencesExt, FiniteSets, Functions, PickedLists

CONSTANTS
    NGlobal,    \* number of particles, whose tags are 0 .. NGlobal - 1
    NPlaces,    \* number of parts of the box
    Sizes,      \* numbers of ranks
    Movable(_), \* particles whose place changes, for each number of ranks
    Group,      \* tags of the members of a ParticleGroup
    NOT_LOCAL   \* the lookup of a particle that a rank does not have

Tags == 0 .. NGlobal - 1
Places == 0 .. NPlaces - 1

ASSUME ParticleDataAssumption ==
    /\ NGlobal \in Nat \ {0} /\ NPlaces \in Nat \ {0}
    /\ Sizes \subseteq Nat \ {0}
    /\ \A n \in Sizes : Movable(n) \subseteq Tags
    /\ Group \subseteq Tags
    /\ NOT_LOCAL \notin Int

VARIABLES
    size,       \* number of ranks; there is a decomposition if it exceeds one
    ptls,       \* tag and place of the local particles of each rank, in order
    ghosts,     \* tags of the ghosts that follow them
    rtag,       \* m_rtag of each rank
    memberIdx,  \* m_member_idx of the group on each rank
    maxN,       \* m_max_nparticles of each rank, which its arrays have room for
    overrun     \* something has been written beyond the end of m_member_idx

memory == <<maxN, overrun>>
particleVars == <<size, ptls, ghosts, rtag, memberIdx, memory>>

Ranks == 0 .. size - 1
N(r) == Len(ptls[r])

Particle(tag, place) == [tag |-> tag, place |-> place]

TagList(list) == [i \in DOMAIN list |-> list[i].tag]

\* The rank whose domain has a place; all of the box belongs to the only rank.
DomainOf(place) == place % size

NoIndex == [tag \in Tags |-> NOT_LOCAL]

\* The reverse lookup after rtag[tags[i]] = i for every i, zero-based.
Numbered(index, tags) ==
    [ tag \in Tags |->
        IF Contains(tags, tag)
        THEN (CHOOSE i \in DOMAIN tags : tags[i] = tag) - 1 ELSE index[tag] ]

-----------------------------------------------------------------------------
(* ParticleGroup: the indices of the members, in index order.               *)

Indices(n) == [i \in 1..n |-> i - 1]

IndexList(list) ==
    Picked(Indices(Len(list)), { i \in DOMAIN list : list[i].tag \in Group })

\* m_member_idx has an entry for each member of the group; rebuildIndexList()
\* writes one for each particle with the tag of a member, and checks afterwards.
Fits(list) == Len(IndexList(list)) <= Cardinality(Group)

-----------------------------------------------------------------------------
(* Accessors.                                                               *)

\* Whether a lookup is not a special value.
FaultyFound(r, tag) == rtag[r][tag] # NOT_LOCAL

\* The index is of a local particle, not of a ghost.
Found(r, tag) == rtag[r][tag] \in 0 .. N(r) - 1

\* The ranks that getOwnerRank() counts; it throws unless there is exactly one.
Owners(tag) == { r \in Ranks : Found(r, tag) }

Owner(tag) == CHOOSE r \in Ranks : Found(r, tag)

\* getPosition() and the other getters: the owner broadcasts.
Nowhere == [place |-> NOT_LOCAL]
Get(tag) ==
    IF Cardinality(Owners(tag)) = 1
    THEN ptls[Owner(tag)][rtag[Owner(tag)][tag] + 1] ELSE Nowhere

\* setPosition() and the other setters, and the integration of a particle on
\* the rank that has it.
Set(tag, place) ==
    /\ Cardinality(Owners(tag)) = 1
    /\ ptls' = [ptls EXCEPT ![Owner(tag)][rtag[Owner(tag)][tag] + 1].place = place]
    /\ UNCHANGED <<size, ghosts, rtag, memberIdx, memory>>

-----------------------------------------------------------------------------
(* What moves particles in the arrays ends with notifyParticleSort(), to    *)
(* which groups are connected.                                              *)

Orders(n) == { order \in [1..n -> 1..n] : IsInjective(order) }

\* The group is left for later.
FaultySort(r, order) ==
    LET list == [i \in 1 .. N(r) |-> ptls[r][order[i]]]
    IN  /\ ptls' = [ptls EXCEPT ![r] = list]
        /\ rtag' = [rtag EXCEPT ![r] = Numbered(rtag[r], TagList(list))]
        /\ UNCHANGED <<size, ghosts, memberIdx, memory>>

\* SFCPackUpdater::update() on one rank, with the order it has found.
Sort(r, order) ==
    LET list == [i \in 1 .. N(r) |-> ptls[r][order[i]]]
    IN  /\ ptls' = [ptls EXCEPT ![r] = list]
        /\ rtag' = [rtag EXCEPT ![r] = Numbered(rtag[r], TagList(list))]
        /\ memberIdx' = [memberIdx EXCEPT ![r] = IndexList(list)]
        /\ UNCHANGED <<size, ghosts, memory>>

\* Where a list has the particles of the domain of a rank.
Within(r, list) == { i \in DOMAIN list : DomainOf(list[i].place) = r }

\* Local particles of a rank that stay with it, and those it is sent.
Stay(r) == Picked(ptls[r], Within(r, ptls[r]))
Arrive(r) ==
    SetToSeq(UNION { { ptls[s][i] : i \in Within(r, ptls[s]) } : s \in Ranks \ {r} })

\* The most room that arrays get which grow by m_resize_factor, 9/8, and one.
MostRoom == ((NGlobal - 1) * 9) \div 8 + 1

\* The room there may be after n particles and ghosts have been added in turn,
\* at times with others that have gone on to another rank by now.
Grown(max, n) == { room \in max .. MostRoom : room >= n }

\* Communicator::communicate(): every particle goes to its domain, and the
\* particles near a rank become its ghosts (Migration and Ghosts have the details).
\* Both come in one of many orders; a sort leads to the others. Arrays that grow
\* keep their tags, so the group lists that are rebuilt then fit.
Communicate(near) ==
    LET list(r) == Stay(r) \o Arrive(r)
        copies(r) == SetToSeq({ tag \in near : ~ Contains(TagList(list(r)), tag) })
    IN  /\ size > 1
        /\ ptls' = [r \in Ranks |-> list(r)]
        /\ ghosts' = [r \in Ranks |-> copies(r)]
        /\ rtag' = [r \in Ranks |-> Numbered(NoIndex, TagList(list(r)) \o copies(r))]
        /\ memberIdx' = [r \in Ranks |-> IndexList(list(r))]
        /\ \E room \in [Ranks -> 1 .. MostRoom] :
            /\ \A r \in Ranks : room[r] \in Grown(maxN[r], Len(list(r)) + Len(copies(r)))
            /\ maxN' = room
        /\ UNCHANGED <<size, overrun>>

-----------------------------------------------------------------------------
(* Snapshots of the particles: their places by tag.                         *)

\* takeSnapshot(): the root finds every tag on the first rank that has it.
HasTag(r, tag) == \E i \in DOMAIN ptls[r] : ptls[r][i].tag = tag
FirstWith(tag) ==
    CHOOSE r \in Ranks : HasTag(r, tag) /\ \A s \in Ranks : HasTag(s, tag) => r <= s
Gathered ==
    [ tag \in Tags |->
        LET list == ptls[FirstWith(tag)]
        IN  list[CHOOSE i \in DOMAIN list : list[i].tag = tag].place ]

\* The particles of a snapshot in the domain of a rank, in tag order.
Scattered(r, places) ==
    LET all == [i \in 1..NGlobal |-> Particle(i - 1, places[i - 1])]
    IN  Picked(all, Within(r, all))

\* The lookup of what a rank had before remains.
FaultyLookup(r, list) == Numbered(rtag[r], TagList(list))

\* The reverse lookup of a rank is reset before its new particles are entered.
Lookup(r, list) == Numbered(NoIndex, TagList(list))

\* Whether initializeFromSnapshot() calls allocate() where there is room for max
\* particles and n come: always in a single process, else when they need more.
Allocates(max, n) == size = 1 \/ max < n \/ max = 0

\* The room there is afterwards, for one particle if none comes.
Room(max, n) ==
    IF ~ Allocates(max, n) THEN max ELSE IF n = 0 THEN 1 ELSE n

\* The arrays that allocate() makes are cleared, so that every tag is 0.
Cleared(n) == [i \in 1..n |-> Particle(0, 0)]

\* allocate() notifies the groups, which rebuild their lists before the tags of
\* the n particles are filled in.
Reallocated(max, n) == Allocates(max, n) => Fits(Cleared(n))

\* initializeFromSnapshot(): scattered by domain, or all in tag order on one rank.
\* The groups are rebuilt when there are new arrays, and by notifyParticleSort()
\* at the end.
Scatter(places) ==
    LET n(r) == Len(Scattered(r, places))
    IN  /\ ptls' = [r \in Ranks |-> Scattered(r, places)]
        /\ ghosts' = [r \in Ranks |-> <<>>]
        /\ rtag' = [r \in Ranks |-> Lookup(r, Scattered(r, places))]
        /\ memberIdx' = [r \in Ranks |-> IndexList(Scattered(r, places))]
        /\ maxN' = [r \in Ranks |-> Room(maxN[r], n(r))]
        /\ overrun' = (overrun \/ \E r \in Ranks : ~ Reallocated(maxN[r], n(r)))
        /\ UNCHANGED size

\* The constructor is given a snapshot too; there are no groups yet.
ParticleInit ==
    /\ size \in Sizes
    /\ \E places \in [Tags -> Places] :
        /\ ptls = [r \in Ranks |-> Scattered(r, places)]
        /\ \A tag \in Tags \ Movable(size) : places[tag] = 0
    /\ ghosts = [r \in Ranks |-> <<>>]
    /\ rtag = [r \in Ranks |-> Numbered(NoIndex, TagList(ptls[r]))]
    /\ memberIdx = [r \in Ranks |-> IndexList(ptls[r])]
    /\ maxN = [r \in Ranks |-> Room(0, N(r))]
    /\ overrun = FALSE
=============================================================================
