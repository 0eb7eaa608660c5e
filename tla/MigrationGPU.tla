---------------------------- MODULE MigrationGPU ----------------------------
(***************************************************************************)
(* CommunicatorGPU::migrateParticles().  A rank decides once which of its  *)
(* particles leave, and sorts them into send buffers by their plan, the set*)
(* of the one, two or three directions that lead to the domain they are in *)
(* now: a face, an edge or a corner.  The buffers are sent direction by    *)
(* direction, and the routing table puts what has further to go into a send*)
(* buffer of the neighbour.  Only at the end is the received put into the  *)
(* arrays, where particles have left; the bonds follow in the same way.    *)
(*                                                                         *)
(* Threads fetch and store in any order, so a buffer is a set, and any of  *)
(* its elements may come to any gap.  The sizes of the buffers, which are  *)
(* enlarged until the particles fit, are left out.                         *)
(***************************************************************************)
EXTENDS Migration, Routing

VARIABLES
    mask,       \* m_remove_mask: indices of the particles that leave a rank
    ptlBuf,     \* m_face_send_buf, m_edge_send_buf, m_corner_send_buf
    bondBuf,    \* m_bond_face_send_buf, m_bond_edge_send_buf, ...
    recvBuf     \* m_recv_buf, later m_bond_recv_buf

buffers == <<mask, ptlBuf, bondBuf, recvBuf>>

NoElements == [plan \in Plans |-> {}]

-----------------------------------------------------------------------------
(* Routing.                                                                 *)

\* m_routing_table: the buffers that are sent in a direction and put there.
RoutingTable ==
    [ dir \in Directions |-> [ to \in Plans \cup {Local} |->
        { plan \in Plans : to \in Destination(dir, plan) } ] ]

\* What the rank sends in direction dir, for each buffer of the neighbour.
Sent(dir, buf) ==
    [to \in Plans \cup {Local} |-> UNION { buf[plan] : plan \in RoutingTable[dir][to] }]

\* communicateStepOne() and communicateStepTwo() send sizes and data alike.
SendBuffers(r, k, kind, buf, chan) ==
    /\ phase' = [phase EXCEPT ![r] = kind]
    /\ stage' = [stage EXCEPT ![r] = k]
    /\ channel' = Put(chan, r, NeighborRank(r, Route[k]),
                      [dir |-> Route[k], kind |-> kind, data |-> Sent(Route[k], buf)])

\* What has come is behind what the buffers held.
Stored(buf, data) == [plan \in Plans |-> buf[plan] \cup data[plan]]

Done(r) ==
    /\ phase' = [phase EXCEPT ![r] = "idle"]
    /\ stage' = [stage EXCEPT ![r] = 0]
    /\ channel' = Taken(r)

-----------------------------------------------------------------------------
(* Selection, by gpu_migrate_select_particles() and gpu_send_bonds().       *)

PlanOf(r, pos) == { Route[k] : k \in {k \in DOMAIN Route : BeyondFace(r, pos, Route[k])} }

\* The plan of each local particle that leaves.
Leaving(r) == { i \in DOMAIN ptls[r] : PlanOf(r, ptls[r][i].pos) # {} }

\* Whether a tag is of a local particle that leaves, or that stays.
IsLocal(r, index, tag) == index[tag] \in 0 .. Len(ptls[r]) - 1
LeavesRank(r, index, tag) == IsLocal(r, index, tag) /\ index[tag] + 1 \in Leaving(r)
StaysLocal(r, index, tag) == IsLocal(r, index, tag) /\ index[tag] + 1 \notin Leaving(r)

\* A bond goes with the first of its members that leaves.
FaultyCopies(r, index) ==
    { copy \in [bond : Held(table[r]), with : Tags] :
        /\ copy.with \in Members[copy.bond] /\ LeavesRank(r, index, copy.with)
        /\ \A tag \in Members[copy.bond] : LeavesRank(r, index, tag) =>
               index[copy.with] <= index[tag] }

\* A bond is sent with every member that leaves.
Copies(r, index) ==
    { copy \in [bond : Held(table[r]), with : Tags] :
        copy.with \in Members[copy.bond] /\ LeavesRank(r, index, copy.with) }

\* Ghosts are forgotten; plans are made, buffers filled, the bonds marked of
\* which no member stays, the rtags reset of what leaves; and the first sent.
BeginMigrationGPU(r) ==
    /\ phase[r] = "moved"
    /\ LET index == Forgotten(rtag[r], nghosts[r])
           planOf(tag) == PlanOf(r, ptls[r][index[tag] + 1].pos)
       IN  /\ nghosts' = [nghosts EXCEPT ![r] = <<>>]
           /\ mask' = [mask EXCEPT ![r] = Leaving(r)]
           /\ ptlBuf' = [ptlBuf EXCEPT ![r] = [ plan \in Plans |->
                  { ptls[r][i] : i \in {i \in mask'[r] : PlanOf(r, ptls[r][i].pos) = plan} } ]]
           /\ bondBuf' = [bondBuf EXCEPT ![r] = [ plan \in Plans |->
                  { copy \in Copies(r, index) : planOf(copy.with) = plan } ]]
           /\ removed' = [removed EXCEPT ![r] = { bond \in Held(table[r]) :
                  \A tag \in Members[bond] : ~ StaysLocal(r, index, tag) }]
           /\ rtag' = [rtag EXCEPT ![r] = [ tag \in Tags |->
                  IF LeavesRank(r, index, tag) THEN NOT_LOCAL ELSE index[tag] ]]
           /\ SendBuffers(r, 1, "ptlBuffers", ptlBuf'[r], channel)
    /\ UNCHANGED <<ptls, table, sendBonds, recvBuf>>

-----------------------------------------------------------------------------
(* Filling the arrays.                                                      *)

\* The lists that come of one with gaps when other elements are put into the
\* gaps and behind its end, or, if these do not suffice, elements of its end.
FilledLists(old, gaps, new) ==
    LET n == Len(old) - Cardinality(gaps) + Cardinality(new)
        kept == { i \in DOMAIN old \ gaps : i <= n }
        rest == { old[i] : i \in { i \in DOMAIN old \ gaps : i > n } }
    IN  { [i \in 1 .. n |-> IF i \in kept THEN old[i] ELSE fill[i]] :
            fill \in Bijection((1 .. n) \ kept, new \cup rest) }

\* gpu_migrate_fill_particle_arrays(): received particles are wrapped, and the
\* rtags set of what has been put somewhere.
FillParticles(r, received) ==
    \E list \in FilledLists(ptls[r], mask[r],
                    { Particle(p.tag, Wrapped(r, p.pos)) : p \in received }) :
        /\ ptls' = [ptls EXCEPT ![r] = list]
        /\ rtag' = [rtag EXCEPT ![r] = [ tag \in Tags |->
               IF tag \in TagsOf(list)
               THEN LET i == CHOOSE i \in DOMAIN list : list[i].tag = tag
                    IN  IF i \in mask[r] \/ i > Len(ptls[r]) THEN i - 1 ELSE @[tag]
               ELSE @[tag] ]]

\* gpu_mark_recv_bond_duplicates(): of the copies of a bond that is not here,
\* the first one counts; all do of one that is removed, and none of another.
ActiveCopies(index, remove, received) ==
    { active \in SUBSET received :
        \A bond \in BondTags :
            LET came == { copy \in received : copy.bond = bond }
            IN  IF index[bond] = NOT_LOCAL
                THEN Cardinality(active \cap came) = (IF came = {} THEN 0 ELSE 1)
                ELSE active \cap came = IF bond \in remove THEN came ELSE {} }

\* unpackRemoveBondsGPU(): the bond tables that can come of it.
UnpackedGPU(old, remove, received) ==
    LET elements == [i \in DOMAIN old.bonds |-> [bond |-> old.bonds[i], with |-> NOT_LOCAL]]
        gaps == { i \in DOMAIN old.bonds : old.bonds[i] \in remove }
        index == [bond \in BondTags |-> IF bond \in remove THEN NOT_LOCAL ELSE old.rtag[bond]]
        lists == UNION { FilledLists(elements, gaps, active) :
                           active \in ActiveCopies(old.rtag, remove, received) }
    IN  { [bonds |-> [i \in DOMAIN list |-> list[i].bond],
           rtag |-> LookUp([i \in DOMAIN list |-> list[i].bond], index)] : list \in lists }

-----------------------------------------------------------------------------
(* The two loops.  What is left in a buffer at the end is not read again.   *)

ReceiveParticlesGPU(r) ==
    /\ phase[r] = "ptlBuffers" /\ Arrived(r) /\ stage[r] < Len(Route)
    /\ ptlBuf' = [ptlBuf EXCEPT ![r] = Stored(@, Message(r).data)]
    /\ recvBuf' = [recvBuf EXCEPT ![r] = @ \cup Message(r).data[Local]]
    /\ SendBuffers(r, stage[r] + 1, "ptlBuffers", ptlBuf'[r], Taken(r))
    /\ UNCHANGED <<ptls, nghosts, rtag, table, sendBonds, removed, mask, bondBuf>>

\* After the last direction: the arrays, and then the bonds, if there are any.
CompleteParticlesGPU(r) ==
    /\ phase[r] = "ptlBuffers" /\ Arrived(r) /\ stage[r] = Len(Route)
    /\ FillParticles(r, recvBuf[r] \cup Message(r).data[Local])
    /\ mask' = [mask EXCEPT ![r] = {}]
    /\ ptlBuf' = [ptlBuf EXCEPT ![r] = NoElements]
    /\ recvBuf' = [recvBuf EXCEPT ![r] = {}]
    /\ IF BondTags = {} THEN Done(r)
       ELSE SendBuffers(r, 1, "bondBuffers", bondBuf[r], Taken(r))
    /\ UNCHANGED <<nghosts, table, sendBonds, removed, bondBuf>>

ReceiveBondsGPU(r) ==
    /\ phase[r] = "bondBuffers" /\ Arrived(r) /\ stage[r] < Len(Route)
    /\ bondBuf' = [bondBuf EXCEPT ![r] = Stored(@, Message(r).data)]
    /\ recvBuf' = [recvBuf EXCEPT ![r] = @ \cup Message(r).data[Local]]
    /\ SendBuffers(r, stage[r] + 1, "bondBuffers", bondBuf'[r], Taken(r))
    /\ UNCHANGED <<ptls, nghosts, rtag, table, sendBonds, removed, mask, ptlBuf>>

CompleteBondsGPU(r) ==
    /\ phase[r] = "bondBuffers" /\ Arrived(r) /\ stage[r] = Len(Route)
    /\ \E new \in UnpackedGPU(table[r], removed[r], recvBuf[r] \cup Message(r).data[Local]) :
           table' = [table EXCEPT ![r] = new]
    /\ removed' = [removed EXCEPT ![r] = {}]
    /\ bondBuf' = [bondBuf EXCEPT ![r] = NoElements]
    /\ recvBuf' = [recvBuf EXCEPT ![r] = {}]
    /\ Done(r)
    /\ UNCHANGED <<ptls, nghosts, rtag, sendBonds, mask, ptlBuf>>

GPUStep(r) ==
    \/ BeginMigrationGPU(r) \/ ReceiveParticlesGPU(r) \/ CompleteParticlesGPU(r)
    \/ ReceiveBondsGPU(r) \/ CompleteBondsGPU(r)
=============================================================================
