------------------------------- MODULE Routing -------------------------------
(***************************************************************************)
(* The routing table of the GPU communicator.  What leaves a domain has a  *)
(* plan, the set of the directions that lead to where it goes: a corner, an*)
(* edge or a face of the domain.  There is a send buffer for each plan; the*)
(* table says into which buffer of the neighbour a buffer is put when it is*)
(* sent, and hence which way it takes from there.                          *)
(***************************************************************************)
EXTENDS DomainGrid

\* corner_plan_lookup, edge_plan_lookup, face_plan_lookup.
Corners == { {x, y, z} : x \in {0, 1}, y \in {2, 3}, z \in {4, 5} }
Edges == { {x, y} : x \in {0, 1}, y \in {2, 3, 4, 5} }
             \cup { {y, z} : y \in {2, 3}, z \in {4, 5} }
Faces == { {f} : f \in Directions }
AllPlans == Corners \cup Edges \cup Faces

\* The plans of particles, which name only directions that communicate, and
\* where the buffer goes that stays in the neighbour.
Plans == { plan \in AllPlans : \A dir \in plan : IsCommunicating(dir) }
Local == {}

\* Edges of a corner none of whose faces has had its turn.
ActiveEdges(dir, plan) == { edge \in Edges : edge \subseteq plan /\ \A f \in edge : f > dir }

\* Further faces of a plan, not back through the opposite one: the first counts.
FurtherFaces(dir, plan) == { f \in plan : f >= dir + (IF dir % 2 = 1 THEN 1 ELSE 2) }
NextFace(dir, plan) ==
    { {f} : f \in { f \in FurtherFaces(dir, plan) : \A g \in FurtherFaces(dir, plan) : f <= g } }

\* setupRoutingTable(): the buffers of the neighbour in direction dir.
Table(dir, plan) ==
    IF dir \notin plan THEN {}
    ELSE IF plan \in Corners /\ ActiveEdges(dir, plan) # {} THEN ActiveEdges(dir, plan)
    ELSE IF plan \notin Faces /\ NextFace(dir, plan) # {} THEN NextFace(dir, plan)
    ELSE {Local}

\* A particle is replicated as a ghost is.
FaultyDestination(dir, plan) == Table(dir, plan)

\* With a unique destination a corner goes on to an edge only, and an edge to
\* a face only.
Destination(dir, plan) ==
    { to \in Table(dir, plan) :
        /\ plan \in Corners => to \in Edges
        /\ plan \in Edges => to \in Faces }
=============================================================================
