------------------------------ MODULE Migration ------------------------------
(***************************************************************************)
(* Communicator::migrateParticles(): after the particles have moved, every *)
(* rank sends the ones beyond each face of its domain to the neighbour on  *)
(* that side, one direction after the other, with the bonds they belong to.*)
(* The ranks run on their own; only the receives wait.                     *)
(*                                                                         *)
(* A message stands for its size and its data, which follow each other on  *)
(* the same pair of ranks.                                                 *)
(***************************************************************************)
EXTENDS DomainGrid, BondTable, PickedLists, Functions

CONSTANTS Tags      \* the particles of the system

ASSUME MigrationAssumption ==
    /\ IsFiniteSet(Tags) /\ IsFiniteSet(BondTags)
    /\ \A bond \in BondTags : Members[bond] \subseteq Tags

VARIABLES
    phase,      \* where each rank is
    stage,      \* position in Route of the direction each rank works on
    ptls,       \* local particles of each rank: tag and position
    nghosts,    \* tags of the ghosts that follow them in the arrays
    rtag,       \* m_rtag: index of a particle of each rank, or NOT_LOCAL
    table,      \* the BondData of each rank
    sendBonds,  \* m_bond_send_buf
    removed,    \* m_bond_remove_mask: the bonds it marks
    channel     \* messages on their way, for each pair of ranks

migrationVars == <<phase, stage, ptls, nghosts, rtag, table, sendBonds, removed, channel>>

Particle(tag, pos) == [tag |-> tag, pos |-> pos]
TagsOf(list) == { list[i].tag : i \in DOMAIN list }

TagList(list) == [i \in DOMAIN list |-> list[i].tag]
NoIndex == [tag \in Tags |-> NOT_LOCAL]

\* The reverse lookup after rtag[tags[i]] = i for every i, zero-based.
Numbered(index, tags) ==
    [ tag \in Tags |->
        IF Contains(tags, tag)
        THEN (CHOOSE i \in DOMAIN tags : tags[i] = tag) - 1 ELSE index[tag] ]

Forgotten(index, tags) ==
    [tag \in Tags |-> IF Contains(tags, tag) THEN NOT_LOCAL ELSE index[tag]]

-----------------------------------------------------------------------------
(* One direction. The arrays are partitioned: what stays comes first.       *)

Beyond(rank, dir, list) == { i \in DOMAIN list : BeyondFace(rank, list[i].pos, dir) }

Stays(rank, dir, list) == Picked(list, DOMAIN list \ Beyond(rank, dir, list))
Leaves(rank, dir, list) == Picked(list, Beyond(rank, dir, list))

\* select_bond_migrate and select_bond_remove, with n the particles that stay.
LeavesDomain(index, n) == index # NOT_LOCAL /\ index \notin 0 .. n - 1
MigratesBond(bond, index, n) ==
    \E tag \in Members[bond] : LeavesDomain(index[tag], n)

RemovesBond(bond, index, n) ==
    \A tag \in Members[bond] : index[tag] \notin 0 .. n - 1

Put(chan, from, to, message) ==
    [chan EXCEPT ![<<from, to>>] = Append(@, message)]

\* The first half of the loop body for the stage-th direction of the route:
\* partition, select bonds, remove the particles, reset their rtags, send them.
\* At the end of the route the rank is done.
StartStage(r, k, list, old, bonds, chan) ==
    IF k > Len(Route)
    THEN /\ phase' = [phase EXCEPT ![r] = "idle"]
         /\ stage' = [stage EXCEPT ![r] = 0]
         /\ ptls' = [ptls EXCEPT ![r] = list]
         /\ rtag' = [rtag EXCEPT ![r] = old]
         /\ sendBonds' = [sendBonds EXCEPT ![r] = <<>>]
         /\ removed' = [removed EXCEPT ![r] = {}]
         /\ channel' = chan
    ELSE LET dir == Route[k]
             leave == Leaves(r, dir, list)
             index == Numbered(old, TagList(ptls'[r] \o leave))
             n == Len(ptls'[r])
         IN  /\ phase' = [phase EXCEPT ![r] = "particles"]
             /\ stage' = [stage EXCEPT ![r] = k]
             /\ ptls' = [ptls EXCEPT ![r] = Stays(r, dir, list)]
             /\ rtag' = [rtag EXCEPT ![r] = Forgotten(index, TagList(leave))]
             /\ sendBonds' = [sendBonds EXCEPT ![r] =
                    Picked(bonds, { i \in DOMAIN bonds : MigratesBond(bonds[i], index, n) })]
             /\ removed' = [removed EXCEPT ![r] =
                    { b \in Range(bonds) : RemovesBond(b, index, n) }]
             /\ channel' = Put(chan, r, NeighborRank(r, dir),
                               [dir |-> dir, kind |-> "particles", data |-> leave])

\* The ghosts are dropped, and their indices kept.
FaultyBeginMigration(r) ==
    /\ phase[r] = "moved"
    /\ nghosts' = [nghosts EXCEPT ![r] = <<>>]
    /\ StartStage(r, 1, ptls[r], rtag[r], table[r].bonds, channel)
    /\ UNCHANGED table

\* migrateParticles() begins: the ghosts are forgotten.
BeginMigration(r) ==
    /\ phase[r] = "moved"
    /\ nghosts' = [nghosts EXCEPT ![r] = <<>>]
    /\ StartStage(r, 1, ptls[r], Forgotten(rtag[r], nghosts[r]),
                  table[r].bonds, channel)
    /\ UNCHANGED table

\* Receives from the rank it sends to.
FaultySource(r) == NeighborRank(r, Route[stage[r]])

\* The rank a message is expected from, and the first one that has come.
Source(r) == NeighborRank(r, Opposite(Route[stage[r]]))
Arrived(r) == channel[<<Source(r), r>>] # <<>>
Message(r) == Head(channel[<<Source(r), r>>])
Taken(r) == [channel EXCEPT ![<<Source(r), r>>] = Tail(@)]

\* A rank that holds no bond does not take part in their exchange.
FaultyReceiveParticles(r) ==
    /\ phase[r] = "particles" /\ Arrived(r)
    /\ LET data == Message(r).data
           new == [i \in DOMAIN data |-> Particle(data[i].tag, Wrapped(r, data[i].pos))]
           list == ptls[r] \o new
           index == Numbered(rtag[r], TagList(list))
       IN  IF Held(table[r]) = {}
           THEN StartStage(r, stage[r] + 1, list, index, <<>>, Taken(r))
           ELSE /\ ptls' = [ptls EXCEPT ![r] = list]
                /\ rtag' = [rtag EXCEPT ![r] = index]
                /\ channel' = Put(Taken(r), r, NeighborRank(r, Route[stage[r]]),
                                  [dir |-> Route[stage[r]], kind |-> "bonds", data |-> sendBonds[r]])
                /\ phase' = [phase EXCEPT ![r] = "bonds"]
                /\ UNCHANGED <<stage, sendBonds, removed>>
    /\ UNCHANGED <<nghosts, table>>

\* Receive particles, wrap them into the box, append them; then send the bonds
\* that were selected, or go on to the next direction if there are no bonds.
ReceiveParticles(r) ==
    /\ phase[r] = "particles" /\ Arrived(r)
    /\ LET data == Message(r).data
           new == [i \in DOMAIN data |-> Particle(data[i].tag, Wrapped(r, data[i].pos))]
           list == ptls[r] \o new
           index == Numbered(rtag[r], TagList(list))
       IN  IF BondTags = {}
           THEN StartStage(r, stage[r] + 1, list, index, <<>>, Taken(r))
           ELSE /\ ptls' = [ptls EXCEPT ![r] = list]
                /\ rtag' = [rtag EXCEPT ![r] = index]
                /\ channel' = Put(Taken(r), r, NeighborRank(r, Route[stage[r]]),
                                  [dir |-> Route[stage[r]], kind |-> "bonds", data |-> sendBonds[r]])
                /\ phase' = [phase EXCEPT ![r] = "bonds"]
                /\ UNCHANGED <<stage, sendBonds, removed>>
    /\ UNCHANGED <<nghosts, table>>

\* Receive bonds, unpack them, and go on to the next direction.
ReceiveBonds(r) ==
    /\ phase[r] = "bonds" /\ Arrived(r)
    /\ LET new == UnpackRemove(table[r], removed[r], Message(r).data)
       IN  /\ table' = [table EXCEPT ![r] = new]
           /\ StartStage(r, stage[r] + 1, ptls[r], rtag[r], new.bonds, Taken(r))
    /\ UNCHANGED nghosts

CPUStep(r) == BeginMigration(r) \/ ReceiveParticles(r) \/ ReceiveBonds(r)
=============================================================================
