--------------------------- MODULE ParticleMigration ---------------------------
(***************************************************************************)
(* The migration of the particles as the rest of the program sees it, with *)
(* either of the two communicators: the particles move, and all ranks meet *)
(* in the Allreduce by which the neighbour lists ask for the migration.  A *)
(* particle moves by less than twice the ghost width beyond its domain.    *)
(***************************************************************************)
EXTENDS MigrationGPU

CONSTANT
    Motions     \* what may happen between two migrations

VARIABLE communicator   \* the class that all ranks use: "CPU" or "GPU"

\* Displacements along the axes that have more than one domain.
Displacements ==
    { d \in [Axes -> -1..1] : \A axis \in Axes : Size[axis] = 1 => d[axis] = 0 }

\* One for each particle, and whether the ghost layers hold all others or none.
ASSUME MotionAssumption == Motions \subseteq [step : [Tags -> Displacements], wide : BOOLEAN]

vars == <<migrationVars, buffers, communicator>>

-----------------------------------------------------------------------------
Moved(list, step) ==
    [ i \in DOMAIN list |->
        Particle(list[i].tag,
                 [axis \in Axes |-> list[i].pos[axis] + step[list[i].tag][axis]]) ]

\* Everything between two migrations, on all ranks: the ghost exchange leaves
\* each with no ghosts or with all particles of the others, the particles move.
GhostTags(r) == SetToSeq(Tags \ TagsOf(ptls[r]))

Integrate ==
    /\ \A r \in Ranks : phase[r] = "idle"
    /\ \E m \in Motions :
           LET ghosts(r) == IF m.wide THEN GhostTags(r) ELSE <<>>
           IN  /\ ptls' = [r \in Ranks |-> Moved(ptls[r], m.step)]
               /\ nghosts' = [r \in Ranks |-> ghosts(r)]
               /\ rtag' = [r \in Ranks |-> Numbered(rtag[r], TagList(ptls[r]) \o ghosts(r))]
    /\ phase' = [r \in Ranks |-> "moved"]
    /\ UNCHANGED <<stage, table, sendBonds, removed, channel, buffers, communicator>>

\* ParticleData and BondData, initialised from a snapshot on all ranks: each
\* keeps its particles, and the bonds with a local member.
Init ==
    /\ \E home \in [Tags -> Ranks] :
           LET local(r) == SetToSeq({ tag \in Tags : home[tag] = r })
               bonds(r) == SetToSeq({ bond \in BondTags :
                               \E tag \in Members[bond] : home[tag] = r })
           IN  /\ ptls = [ r \in Ranks |->
                     [i \in DOMAIN local(r) |-> Particle(local(r)[i], GridPos(r))] ]
               /\ rtag = [r \in Ranks |-> Numbered(NoIndex, local(r))]
               /\ table = [ r \in Ranks |->
                     [bonds |-> bonds(r),
                      rtag |-> LookUp(bonds(r), EmptyTable.rtag)] ]
    /\ nghosts = [r \in Ranks |-> <<>>]
    /\ phase = [r \in Ranks |-> "idle"]
    /\ stage = [r \in Ranks |-> 0]
    /\ sendBonds = [r \in Ranks |-> <<>>]
    /\ removed = [r \in Ranks |-> {}]
    /\ channel = [pair \in Ranks \X Ranks |-> <<>>]
    /\ mask = [r \in Ranks |-> {}]
    /\ ptlBuf = [r \in Ranks |-> NoElements]
    /\ bondBuf = [r \in Ranks |-> NoElements]
    /\ recvBuf = [r \in Ranks |-> {}]
    /\ communicator \in {"CPU", "GPU"}

RankStep(r) ==
    /\ \/ communicator = "CPU" /\ CPUStep(r) /\ UNCHANGED buffers
       \/ communicator = "GPU" /\ GPUStep(r)
    /\ UNCHANGED communicator

Next == Integrate \/ \E r \in Ranks : RankStep(r)

\* The ranks are processes that keep running: while one of them can go on,
\* some rank does.
Spec == Init /\ [][Next]_vars /\ WF_vars(\E r \in Ranks : RankStep(r))

-----------------------------------------------------------------------------
AllIdle == \A r \in Ranks : phase[r] = "idle"

TypeOK ==
    /\ phase \in [Ranks -> {"idle", "moved", "particles", "bonds", "ptlBuffers", "bondBuffers"}]
    /\ stage \in [Ranks -> 0 .. Len(Route)]
    /\ \A r \in Ranks :
           /\ \A i \in DOMAIN ptls[r] :
                  /\ ptls[r][i].tag \in Tags
                  /\ \A axis \in Axes : ptls[r][i].pos[axis] \in -1 .. Size[axis]
           /\ rtag[r] \in [Tags -> Nat \cup {NOT_LOCAL}]
           /\ Range(nghosts[r]) \subseteq Tags
           /\ Held(table[r]) \cup Range(sendBonds[r]) \cup removed[r] \subseteq BondTags
           /\ mask[r] \subseteq DOMAIN ptls[r]
    /\ DOMAIN channel = Ranks \X Ranks

\* Where a particle is: in the arrays of a rank, in a message, or in a buffer
\* that is still to be sent or to be put into the arrays.
HeldAt(tag) ==
    UNION { { <<r, i>> : i \in { i \in DOMAIN ptls[r] \ mask[r] : ptls[r][i].tag = tag } }
            : r \in Ranks }
Carried(message) ==
    CASE message.kind = "particles" -> TagsOf(message.data)
      [] message.kind = "ptlBuffers" -> { p.tag : p \in UNION Range(message.data) }
      [] OTHER -> {}
SentAt(tag) ==
    UNION { { <<pair, k>> : k \in { k \in DOMAIN channel[pair] : tag \in Carried(channel[pair][k]) } }
            : pair \in Ranks \X Ranks }
StillToSend(r, plan) == \A dir \in plan : dir > Route[stage[r]]
BufferedAt(tag) ==
    UNION { { <<r, plan>> : plan \in { plan \in Plans \cup {Local} :
                /\ phase[r] = "ptlBuffers" /\ StillToSend(r, plan)
                /\ \E p \in IF plan = Local THEN recvBuf[r] ELSE ptlBuf[r][plan] : p.tag = tag } }
            : r \in Ranks }

\* No particle is lost and none has two owners, not even while ranks are at
\* different directions of the route and particles are between them.
OneOwner ==
    \A tag \in Tags :
        Cardinality(HeldAt(tag)) + Cardinality(SentAt(tag)) + Cardinality(BufferedAt(tag)) = 1

\* The reverse lookup of the particles, which the selection of bonds relies on
\* and the assertions of migrateParticles() test, agrees with the arrays.
RtagsConsistent ==
    \A r \in Ranks :
        rtag[r] = [ tag \in Tags |->
            IF \E i \in mask[r] : ptls[r][i].tag = tag THEN NOT_LOCAL
            ELSE Numbered(NoIndex, TagList(ptls[r]) \o nghosts[r])[tag] ]

\* The two copies of what a bond is on a rank agree, whatever crosses.
BondTablesConsistent == \A r \in Ranks : TableConsistent(table[r])

\* The next message from the neighbour is of the direction and of the kind the
\* rank waits for, also when both neighbours along an axis are the same rank.
MessagesMatch ==
    \A r \in Ranks :
        phase[r] \notin {"idle", "moved"} /\ Arrived(r) =>
            Message(r).dir = Route[stage[r]] /\ Message(r).kind = phase[r]

\* Communicator.h 348, the postcondition of migrateParticles(): every particle
\* is inside the domain of its rank, through edges and corners of the grid and
\* the periodic boundaries.
EveryParticleHome ==
    AllIdle => \A r \in Ranks : \A i \in DOMAIN ptls[r] : ptls[r][i].pos = GridPos(r)

\* After a migration a rank holds exactly the bonds that have a member there,
\* as the force computations of its particles need.
BondsFollowParticles ==
    AllIdle => \A r \in Ranks :
        Held(table[r]) = { bond \in BondTags :
                             Members[bond] \cap TagsOf(ptls[r]) # {} }

\* A migration that has begun is completed by all ranks: the receives never
\* wait for each other in a circle.
MigrationCompletes == ~ AllIdle ~> AllIdle
=============================================================================
