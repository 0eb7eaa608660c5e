------------------------------ MODULE GhostsGPU ------------------------------
(***************************************************************************)
(* CommunicatorGPU::exchangeGhosts() and updateGhosts().  The particles in *)
(* the ghost layer are copied into send buffers by their plan, and the     *)
(* routing table forwards the buffers as a whole.  A ghost for an edge or a*)
(* corner stays in the buffer in which it is forwarded: at the end a rank  *)
(* collects its ghosts from there and from what came for it alone.         *)
(*                                                                         *)
(* An update fills the buffers by the list of indices that the exchange has*)
(* made, and sends neither tags nor sizes: all ranks rely on the order and *)
(* on the numbers of the exchange.                                         *)
(*                                                                         *)
(* The buffers of a rank are one list of elements with the plans of their  *)
(* buffers, Local for the receive buffer; those of one plan are in order.  *)
(***************************************************************************)
EXTENDS Ghosts, Routing

VARIABLES
    ghostIdx,   \* m_ghost_idx_face, _edge, _corner: the indices copied
    ghostBuf,   \* m_face_ghosts_buf, ..., m_update_recv_buf
    numGhosts   \* m_n_recv_ghosts_face, _edge, _local, for each direction

ghostBuffers == <<ghostIdx, ghostBuf, numGhosts>>

\* The buffers are sent in this order, and ghosts are collected in that one.
CornerList == << {0, 2, 4}, {0, 2, 5}, {0, 3, 4}, {0, 3, 5},
                 {1, 2, 4}, {1, 2, 5}, {1, 3, 4}, {1, 3, 5} >>
EdgeList == << {0, 2}, {0, 3}, {0, 4}, {0, 5}, {1, 2}, {1, 3}, {1, 4}, {1, 5},
               {2, 4}, {2, 5}, {3, 4}, {3, 5} >>
FaceList == << {0}, {1}, {2}, {3}, {4}, {5} >>
SendOrder == CornerList \o EdgeList \o FaceList
UnpackOrder == <<Local>> \o FaceList \o EdgeList

\* The elements at some positions, one buffer after the other.
Place(order, to) == CHOOSE k \in DOMAIN order : order[k] = to
ByBuffer(buf, S, order) == PickedBy(buf, S, [i \in S |-> Place(order, buf[i].plan)])

\* communicateStepTwo(): what is sent, with the buffers of the neighbour.
Onward(dir, from) == CHOOSE to \in Table(dir, from) : TRUE
Forwarded(dir, buf) ==
    LET sent == ByBuffer(buf, { i \in DOMAIN buf : dir \in buf[i].plan }, SendOrder)
    IN  [i \in DOMAIN sent |-> [sent[i] EXCEPT !.plan = Onward(dir, @)]]

\* The numbers of elements that have come for each buffer.
Sizes(data) == [i \in DOMAIN data |-> data[i].plan]

SendGhostBuffers(r, k, kind, buf, chan) ==
    /\ phase' = [phase EXCEPT ![r] = kind]
    /\ stage' = [stage EXCEPT ![r] = k]
    /\ channel' = Put(chan, r, NeighborRank(r, Route[k]),
                      [kind |-> kind, dir |-> Route[k], data |-> Forwarded(Route[k], buf)])

\* gpu_exchange_ghosts(): threads put the local particles into the buffers of
\* their plans, in any order.
BeginExchangeGPU(r, width) ==
    /\ phase[r] = "migrated"
    /\ \E bound \in SetToSeqs(
              { [plan |-> PlanOf(r, ptls[r][i], width), idx |-> i] :
                  i \in { i \in DOMAIN ptls[r] : PlanOf(r, ptls[r][i], width) # {} } }) :
           LET buf == [n \in DOMAIN bound |->
                          [plan |-> bound[n].plan, ptl |-> ptls[r][bound[n].idx]]]
           IN  /\ ghostIdx' = [ghostIdx EXCEPT ![r] = bound]
               /\ ghostBuf' = [ghostBuf EXCEPT ![r] = buf]
               /\ SendGhostBuffers(r, 1, "exchangeGPU", buf, channel)
    /\ UNCHANGED <<ptls, ghosts, plan, rtag, copyGhosts, numRecv, numGhosts>>

\* gpu_update_ghosts_pack(): the positions at those indices.
BeginUpdateGPU(r) ==
    /\ phase[r] = "update"
    /\ LET buf == [n \in DOMAIN ghostIdx[r] |->
                      [plan |-> ghostIdx[r][n].plan, pos |-> ptls[r][ghostIdx[r][n].idx].pos]]
       IN  /\ ghostBuf' = [ghostBuf EXCEPT ![r] = buf]
           /\ SendGhostBuffers(r, 1, "updatingGPU", buf, channel)
    /\ UNCHANGED <<ptls, ghosts, plan, rtag, copyGhosts, numRecv, ghostIdx, numGhosts>>

\* What the message brings is put behind what the buffers hold.
Buffered(r) == ghostBuf[r] \o Message(r).data

\* The particles of this rank are not left out.
FaultyUnpacked(r, buf) ==
    ByBuffer(buf, { i \in DOMAIN buf : buf[i].plan \in Range(UnpackOrder) }, UnpackOrder)

\* gpu_exchange_ghosts_unpack(): the ghosts are what has come for this rank alone,
\* and then what is in the buffers of faces and edges behind its own particles.
Unpacked(r, buf) ==
    ByBuffer(buf, { i \in DOMAIN buf : /\ i > Len(ghostIdx[r])
                                     /\ buf[i].plan \in Range(UnpackOrder) }, UnpackOrder)

NextDirection(r, kind) ==
    /\ stage[r] < Len(Route)
    /\ ghostBuf' = [ghostBuf EXCEPT ![r] = Buffered(r)]
    /\ SendGhostBuffers(r, stage[r] + 1, kind, ghostBuf'[r], Taken(r))

\* After the last direction the buffers are not read again.
LastDirection(r) ==
    /\ stage[r] = Len(Route)
    /\ ghostBuf' = [ghostBuf EXCEPT ![r] = <<>>]
    /\ phase' = [phase EXCEPT ![r] = "current"]
    /\ stage' = [stage EXCEPT ![r] = 0]
    /\ channel' = Taken(r)

ReceiveGhostsGPU(r, width) ==
    /\ phase[r] = "exchangeGPU" /\ Arrived(r)
    /\ numGhosts' = [numGhosts EXCEPT ![r][Route[stage[r]]] = Sizes(Message(r).data)]
    /\ \/ NextDirection(r, "exchangeGPU") /\ UNCHANGED <<ghosts, rtag>>
       \/ /\ LastDirection(r)
          /\ LET new == Unpacked(r, Buffered(r))
             IN  ghosts' = [ghosts EXCEPT ![r] = [ i \in DOMAIN new |->
                     Particle(new[i].ptl.tag, WrapGhost(r, new[i].ptl.pos, width)) ]]
          /\ rtag' = [rtag EXCEPT ![r] = Indexed(@, ptls[r] \o ghosts'[r])]
    /\ UNCHANGED <<ptls, plan, copyGhosts, numRecv, ghostIdx>>

\* gpu_update_ghosts_unpack()
ReceivePositionsGPU(r, width) ==
    /\ phase[r] = "updatingGPU" /\ Arrived(r)
    /\ \/ NextDirection(r, "updatingGPU") /\ UNCHANGED ghosts
       \/ /\ LastDirection(r)
          /\ LET new == Unpacked(r, Buffered(r))
             IN  ghosts' = [ghosts EXCEPT ![r] = [ i \in DOMAIN ghosts[r] |->
                     Particle(ghosts[r][i].tag, WrapGhost(r, new[i].pos, width)) ]]
    /\ UNCHANGED <<ptls, plan, rtag, copyGhosts, numRecv, ghostIdx, numGhosts>>

GhostStepGPU(r, width) ==
    \/ BeginExchangeGPU(r, width) \/ ReceiveGhostsGPU(r, width)
    \/ BeginUpdateGPU(r) \/ ReceivePositionsGPU(r, width)
=============================================================================
