----------------------------- MODULE GridProofs -----------------------------
(***************************************************************************)
(* What the proofs about migration and about ghosts have in common: the    *)
(* routes of the GPU communicator, for all plans; the grid of the domains; *)
(* and the order in which the messages of a rank come to its neighbours.   *)
(***************************************************************************)
EXTENDS Routing, PickedListsProofs

-----------------------------------------------------------------------------
(* The routing table of the GPU communicator, for all 26 plans and all six  *)
(* directions: sending takes a direction off a plan and leaves the later    *)
(* ones, so a ghost gets into every domain its plan names once, and a       *)
(* particle that migrates goes through its faces in their order and is      *)
(* never replicated. First, what the plans look like.                       *)

LEMMA CornerForm ==
  ASSUME NEW plan \in Corners
  PROVE  \E x \in {0, 1}, y \in {2, 3}, z \in {4, 5} : plan = {x, y, z}
  BY DEF Corners

LEMMA EdgeForm ==
  ASSUME NEW plan \in Edges
  PROVE  \E x, y \in Directions : plan = {x, y} /\ x \div 2 < y \div 2
<1>1. CASE \E x \in {0, 1}, y \in {2, 3, 4, 5} : plan = {x, y}
  BY <1>1 DEF Directions
<1>2. CASE \E y \in {2, 3}, z \in {4, 5} : plan = {y, z}
  BY <1>2 DEF Directions
<1> QED BY <1>1, <1>2 DEF Edges

\* Any two faces of different axes are an edge.
LEMMA EdgeOf ==
  ASSUME NEW x \in Directions, NEW y \in Directions, x \div 2 < y \div 2
  PROVE  {x, y} \in Edges
<1>1. CASE x \in {0, 1}
  <2>1. y \in {2, 3, 4, 5} BY <1>1 DEF Directions
  <2> QED BY <1>1, <2>1 DEF Edges
<1>2. CASE x \in {2, 3}
  <2>1. y \in {4, 5} BY <1>2 DEF Directions
  <2> QED BY <1>2, <2>1 DEF Edges
<1> QED BY <1>1, <1>2 DEF Directions

LEMMA FaceForm ==
  ASSUME NEW plan \in Faces
  PROVE  \E x \in Directions : plan = {x}
  BY DEF Faces

\* A plan never names both faces of an axis.
LEMMA OneFaceOfAnAxis ==
  ASSUME NEW plan \in AllPlans
  PROVE  /\ plan \subseteq Directions
         /\ \A f, g \in plan : f \div 2 = g \div 2 => f = g
<1>1. CASE plan \in Corners
  BY <1>1, CornerForm DEF Directions
<1>2. CASE plan \in Edges
  BY <1>2, EdgeForm DEF Directions
<1>3. CASE plan \in Faces
  BY <1>3, FaceForm DEF Directions
<1> QED BY <1>1, <1>2, <1>3 DEF AllPlans

\* Leaving out the opposite face leaves out nothing.
LEMMA FurtherAreLater ==
  ASSUME NEW plan \in AllPlans, NEW dir \in plan
  PROVE  FurtherFaces(dir, plan) = {f \in plan : f > dir}
<1>1. ASSUME NEW f \in plan
      PROVE  f >= dir + (IF dir % 2 = 1 THEN 1 ELSE 2) <=> f > dir
  <2>1. f \in 0..5 /\ dir \in 0..5 /\ (f \div 2 = dir \div 2 => f = dir)
    BY OneFaceOfAnAxis DEF Directions
  <2> QED BY <2>1
<1> QED BY <1>1 DEF FurtherFaces

\* A corner has three faces and an edge two, so no plan is of two kinds.
LEMMA KindsDiffer ==
  /\ \A plan \in Corners : plan \notin Edges /\ plan \notin Faces
  /\ \A plan \in Edges : plan \notin Faces
<1>1. ASSUME NEW plan \in Corners PROVE plan \notin Edges /\ plan \notin Faces
  <2>1. PICK x \in {0, 1}, y \in {2, 3}, z \in {4, 5} : plan = {x, y, z}
    BY CornerForm
  <2>2. x # y /\ y # z /\ x # z
    OBVIOUS
  <2>3. \A a, b : plan # {a, b}
    BY <2>1, <2>2
  <2>4. \A a : plan # {a}
    BY <2>1, <2>2
  <2>5. plan \notin Edges
    BY <2>3, EdgeForm
  <2>6. plan \notin Faces
    BY <2>4, FaceForm
  <2> QED BY <2>5, <2>6
<1>2. ASSUME NEW plan \in Edges PROVE plan \notin Faces
  <2>1. PICK x, y \in Directions : plan = {x, y} /\ x \div 2 < y \div 2
    BY EdgeForm
  <2>2. x # y
    BY <2>1 DEF Directions
  <2>3. \A a : plan # {a}
    BY <2>1, <2>2
  <2> QED BY <2>3, FaceForm
<1> QED BY <1>1, <1>2

\* Only the first face of a corner leads to an edge.
LEMMA CornerEdges ==
  ASSUME NEW x \in {0, 1}, NEW y \in {2, 3}, NEW z \in {4, 5}, NEW dir \in {x, y, z}
  PROVE  ActiveEdges(dir, {x, y, z}) = IF dir = x THEN {{y, z}} ELSE {}
<1>1. x < y /\ y < z /\ x \in Int /\ y \in Int /\ z \in Int
  OBVIOUS
<1>2. {y, z} \in Edges
  BY EdgeOf DEF Directions
<1>3. ASSUME NEW edge \in ActiveEdges(dir, {x, y, z})
      PROVE  dir = x /\ edge = {y, z}
  <2>1. edge \in Edges /\ edge \subseteq {x, y, z} /\ \A f \in edge : f > dir
    BY <1>3 DEF ActiveEdges
  <2>2. PICK a, b \in Directions : edge = {a, b} /\ a \div 2 < b \div 2
    BY <2>1, EdgeForm
  <2>3. a < b /\ a \in Int /\ b \in Int
    BY <2>2 DEF Directions
  <2>4. a \in {x, y, z} /\ b \in {x, y, z} /\ a > dir /\ b > dir
    BY <2>1, <2>2
  <2>5. dir = x /\ a = y /\ b = z
    BY <1>1, <2>3, <2>4
  <2> QED BY <2>2, <2>5
<1>4. dir = x => {y, z} \in ActiveEdges(dir, {x, y, z})
  BY <1>1, <1>2 DEF ActiveEdges
<1> QED BY <1>3, <1>4

\* The next face is the one that is left, or the first of two.
LEMMA NextOfOne ==
  ASSUME NEW plan \in AllPlans, NEW dir \in plan, NEW g \in Int,
         {f \in plan : f > dir} = {g}
  PROVE  NextFace(dir, plan) = {{g}}
  BY FurtherAreLater DEF NextFace

LEMMA NextOfNone ==
  ASSUME NEW plan \in AllPlans, NEW dir \in plan, {f \in plan : f > dir} = {}
  PROVE  NextFace(dir, plan) = {}
  BY FurtherAreLater DEF NextFace

-----------------------------------------------------------------------------
(* The table, for the three kinds of plans.                                 *)

LEMMA CornerRoute ==
  ASSUME NEW plan \in Corners, NEW dir \in plan
  PROVE  Table(dir, plan) = {{f \in plan : f > dir}}
<1>1. PICK x \in {0, 1}, y \in {2, 3}, z \in {4, 5} : plan = {x, y, z}
  BY CornerForm
<1>2. x < y /\ y < z /\ x \in Int /\ y \in Int /\ z \in Int
  OBVIOUS
<1>3. plan \in AllPlans /\ plan \notin Faces
  BY KindsDiffer DEF AllPlans
<1>4. ActiveEdges(dir, plan) = IF dir = x THEN {{y, z}} ELSE {}
  BY <1>1, CornerEdges
<1>5. CASE dir = x
  <2>1. {f \in plan : f > dir} = {y, z} BY <1>1, <1>2, <1>5
  <2> QED BY <1>4, <1>5, <2>1 DEF Table
<1>6. CASE dir = y
  <2>1. {f \in plan : f > dir} = {z} BY <1>1, <1>2, <1>6
  <2>2. NextFace(dir, plan) = {{z}} BY <1>2, <1>3, <2>1, NextOfOne
  <2>3. dir # x BY <1>2, <1>6
  <2> QED BY <1>3, <1>4, <2>1, <2>2, <2>3 DEF Table
<1>7. CASE dir = z
  <2>1. {f \in plan : f > dir} = {} BY <1>1, <1>2, <1>7
  <2>2. NextFace(dir, plan) = {} BY <1>3, <2>1, NextOfNone
  <2>3. dir # x BY <1>2, <1>7
  <2> QED BY <1>3, <1>4, <2>1, <2>2, <2>3 DEF Table, Local
<1> QED BY <1>1, <1>5, <1>6, <1>7

LEMMA EdgeRoute ==
  ASSUME NEW plan \in Edges, NEW dir \in plan
  PROVE  Table(dir, plan) = {{f \in plan : f > dir}}
<1>1. PICK x, y \in Directions : plan = {x, y} /\ x \div 2 < y \div 2
  BY EdgeForm
<1>2. x < y /\ x \in Int /\ y \in Int
  BY <1>1 DEF Directions
<1>3. plan \in AllPlans /\ plan \notin Corners /\ plan \notin Faces
  BY KindsDiffer DEF AllPlans
<1>4. CASE dir = x
  <2>1. {f \in plan : f > dir} = {y} BY <1>1, <1>2, <1>4
  <2>2. NextFace(dir, plan) = {{y}} BY <1>2, <1>3, <2>1, NextOfOne
  <2> QED BY <1>3, <2>1, <2>2 DEF Table
<1>5. CASE dir = y
  <2>1. {f \in plan : f > dir} = {} BY <1>1, <1>2, <1>5
  <2>2. NextFace(dir, plan) = {} BY <1>3, <2>1, NextOfNone
  <2> QED BY <1>3, <2>1, <2>2 DEF Table, Local
<1> QED BY <1>1, <1>4, <1>5

LEMMA FaceRoute ==
  ASSUME NEW plan \in Faces, NEW dir \in plan
  PROVE  Table(dir, plan) = {{f \in plan : f > dir}}
<1>1. PICK x \in Directions : plan = {x}
  BY FaceForm
<1>2. {f \in plan : f > dir} = {}
  BY <1>1 DEF Directions
<1>3. plan \notin Corners
  BY KindsDiffer
<1> QED BY <1>2, <1>3 DEF Table, Local

-----------------------------------------------------------------------------
\* setupRoutingTable(): whatever the plan, a ghost that is sent in a direction
\* gets into the one buffer of the neighbour that names the later directions of
\* its plan; a buffer is sent in no other direction.
THEOREM GhostRoute ==
  ASSUME NEW plan \in AllPlans, NEW dir \in Directions
  PROVE  Table(dir, plan) = IF dir \in plan THEN {{f \in plan : f > dir}} ELSE {}
<1>1. CASE dir \in plan
  BY <1>1, CornerRoute, EdgeRoute, FaceRoute DEF AllPlans
<1>2. CASE dir \notin plan
  BY <1>2 DEF Table
<1> QED BY <1>1, <1>2

\* communicateStepTwo() with a unique destination: a particle that migrates is
\* sent only through the first face of its plan, and the rest of the plan is
\* left: nothing of it is skipped, and no second copy is made.
THEOREM ParticleRoute ==
  ASSUME NEW plan \in AllPlans, NEW dir \in Directions
  PROVE  Destination(dir, plan) =
           IF dir \in plan /\ \A f \in plan : f >= dir THEN {plan \ {dir}} ELSE {}
<1>1. CASE dir \notin plan
  BY <1>1, GhostRoute DEF Destination
<1>2. CASE dir \in plan
  <2> DEFINE rest == {f \in plan : f > dir}
  <2>1. Table(dir, plan) = {rest}
    BY <1>2, GhostRoute
  <2>2. plan \subseteq Int /\ dir \in Int
    BY OneFaceOfAnAxis DEF Directions
  <2>3. CASE plan \in Corners
    <3>1. PICK x \in {0, 1}, y \in {2, 3}, z \in {4, 5} : plan = {x, y, z}
      BY <2>3, CornerForm
    <3>2. x < y /\ y < z /\ x \in Int /\ y \in Int /\ z \in Int
      OBVIOUS
    <3>3. plan \notin Edges
      BY <2>3, KindsDiffer
    <3>4. Destination(dir, plan) = {to \in {rest} : to \in Edges}
      BY <2>1, <2>3, <3>3 DEF Destination
    <3>5. CASE dir = x
      <4>1. rest = {y, z} /\ plan \ {dir} = {y, z} /\ \A f \in plan : f >= dir
        BY <3>1, <3>2, <3>5
      <4>2. {y, z} \in Edges
        BY EdgeOf DEF Directions
      <4> QED BY <1>2, <3>4, <4>1, <4>2
    <3>6. CASE dir # x
      <4>1. ~ (x >= dir) /\ x \in plan
        BY <1>2, <3>1, <3>2, <3>6
      <4>2. rest \subseteq {z}
        BY <1>2, <3>1, <3>2, <3>6
      <4>3. rest \notin Edges
        <5>1. ASSUME rest \in Edges PROVE FALSE
          <6>1. PICK a, b \in Directions : rest = {a, b} /\ a \div 2 < b \div 2
            BY <5>1, EdgeForm
          <6>2. a # b
            BY <6>1 DEF Directions
          <6> QED BY <4>2, <6>1, <6>2
        <5> QED BY <5>1
      <4> QED BY <3>4, <4>1, <4>3
    <3> QED BY <3>5, <3>6
  <2>4. CASE plan \in Edges
    <3>1. PICK x, y \in Directions : plan = {x, y} /\ x \div 2 < y \div 2
      BY <2>4, EdgeForm
    <3>2. x < y /\ x \in Int /\ y \in Int
      BY <3>1 DEF Directions
    <3>3. plan \notin Corners
      BY <2>4, KindsDiffer
    <3>4. Destination(dir, plan) = {to \in {rest} : to \in Faces}
      BY <2>1, <2>4, <3>3 DEF Destination
    <3>5. CASE dir = x
      <4>1. rest = {y} /\ plan \ {dir} = {y} /\ \A f \in plan : f >= dir
        BY <3>1, <3>2, <3>5
      <4>2. {y} \in Faces
        BY DEF Faces
      <4> QED BY <1>2, <3>4, <4>1, <4>2
    <3>6. CASE dir = y
      <4>1. rest = {} /\ ~ (x >= dir) /\ x \in plan
        BY <3>1, <3>2, <3>6
      <4>2. {} \notin Faces
        BY FaceForm
      <4> QED BY <3>4, <4>1, <4>2
    <3> QED BY <1>2, <3>1, <3>5, <3>6
  <2>5. CASE plan \in Faces
    <3>1. plan = {dir}
      BY <1>2, <2>5, FaceForm
    <3>2. rest = {} /\ plan \ {dir} = {} /\ \A f \in plan : f >= dir
      BY <2>2, <3>1
    <3>3. plan \notin Corners /\ plan \notin Edges
      BY <2>5, KindsDiffer
    <3>4. Destination(dir, plan) = {rest}
      BY <2>1, <3>3 DEF Destination
    <3> QED BY <1>2, <3>2, <3>4
  <2> QED BY <2>3, <2>4, <2>5 DEF AllPlans
<1> QED BY <1>1, <1>2

-----------------------------------------------------------------------------
(* The grid.                                                                *)

LEMMA DivisionIsUnique ==
  ASSUME NEW b \in Nat \ {0}, NEW q \in Int, NEW p \in Int,
         NEW r \in 0 .. b - 1, NEW s \in 0 .. b - 1, q * b + r = p * b + s
  PROVE  q = p /\ r = s
<1>1. CASE q < p
  <2>1. p - q >= 1 /\ (p - q) * b = p * b - q * b
    BY <1>1
  <2>2. (p - q) * b >= b
    BY <2>1
  <2> QED
    BY <2>1, <2>2
<1>2. CASE p < q
  <2>1. q - p >= 1 /\ (q - p) * b = q * b - p * b
    BY <1>2
  <2>2. (q - p) * b >= b
    BY <2>1
  <2> QED
    BY <2>1, <2>2
<1> QED
  BY <1>1, <1>2

LEMMA Division ==
  ASSUME NEW a \in Nat, NEW b \in Nat \ {0}
  PROVE  a % b \in 0 .. b - 1 /\ a \div b \in Nat /\ a = (a \div b) * b + (a % b)
OBVIOUS

LEMMA DivisionIs ==
  ASSUME NEW b \in Nat \ {0}, NEW q \in Nat, NEW r \in 0 .. b - 1
  PROVE  (q * b + r) \div b = q /\ (q * b + r) % b = r
<1>1. q * b \in Nat
  OBVIOUS
<1>2. q * b + r \in Nat
  BY <1>1
<1> QED
  BY <1>2, Division, DivisionIsUnique

LEMMA SizesPositive ==
  /\ NX \in Nat \ {0} /\ NY \in Nat \ {0} /\ NZ \in Nat \ {0}
  /\ Size[1] = NX /\ Size[2] = NY /\ Size[3] = NZ
  /\ \A axis \in Axes : Size[axis] \in Nat \ {0}
BY GridAssumption DEF Size, Axes

LEMMA Directory ==
  ASSUME NEW dir \in Directions
  PROVE  /\ Axis(dir) \in Axes /\ Opposite(dir) \in Directions
         /\ Axis(Opposite(dir)) = Axis(dir) /\ Forward(Opposite(dir)) = - Forward(dir)
         /\ Opposite(Opposite(dir)) = dir
         /\ Forward(dir) \in {-1, 1}
         /\ dir = 2 * Axis(dir) - (IF Forward(dir) = 1 THEN 2 ELSE 1)
BY DEF Directions, Axis, Axes, Opposite, Forward

\* The grid positions: one number of a domain for each axis.
GridCells == { pos \in [Axes -> Int] : \A axis \in Axes : pos[axis] \in 0 .. Size[axis] - 1 }

LEMMA NumberOfCell ==
  ASSUME NEW nx \in Nat \ {0}, NEW ny \in Nat \ {0}, NEW nz \in Nat \ {0},
         NEW x \in 0 .. nx - 1, NEW y \in 0 .. ny - 1, NEW z \in 0 .. nz - 1,
         NEW rank, rank = (z * ny + y) * nx + x
  PROVE  /\ rank \in 0 .. nx * ny * nz - 1
         /\ rank % nx = x /\ (rank % (nx * ny)) \div nx = y
         /\ rank \div (nx * ny) = z
<1> DEFINE line == y * nx + x
           plane == nx * ny
<1>1. plane \in Nat \ {0} /\ line \in Nat /\ z * ny + y \in Nat /\ rank \in Nat
  <2>1. y * nx \in Nat /\ z * ny \in Nat /\ plane \in Nat /\ plane # 0
    OBVIOUS
  <2>2. z * ny + y \in Nat
    BY <2>1
  <2>3. (z * ny + y) * nx \in Nat
    BY <2>2
  <2> QED
    BY <2>1, <2>2, <2>3
<1>2. line <= plane - 1
  <2>1. y * nx <= (ny - 1) * nx
    OBVIOUS
  <2>2. (ny - 1) * nx = plane - nx
    OBVIOUS
  <2> HIDE DEF plane
  <2> QED
    BY <1>1, <2>1, <2>2
<1>3. rank = z * plane + line
  OBVIOUS
<1>4. rank % nx = x
  BY <1>1, DivisionIs
<1>5. line \div nx = y
  BY DivisionIs
<1> HIDE DEF line, plane
<1>6. rank \div plane = z /\ rank % plane = line
  <2>1. line \in 0 .. plane - 1
    BY <1>1, <1>2
  <2> QED
    BY <1>1, <1>3, <2>1, DivisionIs
<1>7. rank <= plane * nz - 1
  <2>1. z * plane <= (nz - 1) * plane
    BY <1>1
  <2>2. (nz - 1) * plane = plane * nz - plane
    BY <1>1
  <2>3. z * plane \in Int /\ plane * nz \in Int
    BY <1>1
  <2> QED
    BY <1>1, <1>2, <1>3, <2>1, <2>2, <2>3
<1>8. rank \in 0 .. plane * nz - 1
  BY <1>1, <1>7
<1> QED
  BY <1>4, <1>5, <1>6, <1>8 DEF plane

LEMMA CellOfNumber ==
  ASSUME NEW nx \in Nat \ {0}, NEW ny \in Nat \ {0}, NEW nz \in Nat \ {0},
         NEW rank \in 0 .. nx * ny * nz - 1
  PROVE  /\ rank % nx \in 0 .. nx - 1
         /\ (rank % (nx * ny)) \div nx \in 0 .. ny - 1
         /\ rank \div (nx * ny) \in 0 .. nz - 1
         /\ ((rank \div (nx * ny)) * ny + ((rank % (nx * ny)) \div nx)) * nx + (rank % nx) = rank
<1> DEFINE plane == nx * ny
           line == rank % plane
           x == rank % nx
           y == line \div nx
           z == rank \div plane
<1>1. plane \in Nat \ {0} /\ plane * nz \in Nat /\ rank \in Nat /\ rank <= plane * nz - 1
  <2>1. plane \in Nat /\ plane # 0
    OBVIOUS
  <2>2. plane * nz \in Nat
    BY <2>1
  <2> QED
    BY <2>1, <2>2
<1>2. plane = ny * nx
  OBVIOUS
<1> HIDE DEF plane
<1>3. line \in 0 .. plane - 1 /\ z \in Nat /\ rank = z * plane + line
  BY <1>1, Division
<1>4. x \in 0 .. nx - 1
  BY <1>1, Division
<1> HIDE DEF line, x, z
<1>5. line \in Nat /\ line <= plane - 1
  BY <1>1, <1>3
<1>6. y \in Nat /\ line % nx \in 0 .. nx - 1 /\ line = y * nx + (line % nx)
  BY <1>5, Division
<1> DEFINE x2 == line % nx
<1> HIDE DEF y, x2
<1>7. x2 \in 0 .. nx - 1 /\ line = y * nx + x2
  BY <1>6 DEF x2
<1>8. y <= ny - 1
  <2>1. SUFFICES ASSUME y >= ny PROVE FALSE
    BY <1>6
  <2>2. y * nx >= ny * nx
    BY <1>6, <2>1
  <2>3. y * nx \in Nat
    BY <1>6
  <2> QED
    BY <1>1, <1>2, <1>5, <1>7, <2>2, <2>3
<1>9. z <= nz - 1
  <2>1. SUFFICES ASSUME z >= nz PROVE FALSE
    BY <1>3
  <2>2. z * plane >= nz * plane /\ nz * plane = plane * nz
    BY <1>1, <1>3, <2>1
  <2>3. z * plane \in Nat
    BY <1>1, <1>3
  <2> QED
    BY <1>1, <1>3, <1>5, <2>2, <2>3
<1>10. rank = (z * ny + y) * nx + x2
  <2>1. z * plane = (z * ny) * nx
    BY <1>2, <1>3
  <2>2. z * ny \in Nat /\ (z * ny) * nx \in Nat /\ y * nx \in Nat
    BY <1>3, <1>6
  <2>3. (z * ny + y) * nx = (z * ny) * nx + y * nx
    BY <1>6, <2>2
  <2> QED
    BY <1>3, <1>7, <2>1, <2>2, <2>3
<1>11. x2 = x
  <2>1. z * ny + y \in Nat
    <3>1. z * ny \in Nat
      BY <1>3
    <3> QED
      BY <1>6, <3>1
  <2>2. rank % nx = x2
    BY <1>7, <1>10, <2>1, DivisionIs
  <2> QED
    BY <2>2 DEF x
<1>12. /\ x \in 0 .. nx - 1 /\ y \in 0 .. ny - 1 /\ z \in 0 .. nz - 1
       /\ (z * ny + y) * nx + x = rank
  BY <1>3, <1>4, <1>6, <1>8, <1>9, <1>10, <1>11
<1> QED
  BY <1>12 DEF x, y, z, line, plane

LEMMA GridPosIsCell ==
  ASSUME NEW rank \in Ranks
  PROVE  GridPos(rank) \in GridCells /\ RankAt(GridPos(rank)) = rank
<1> DEFINE x == rank % NX
           y == (rank % (NX * NY)) \div NX
           z == rank \div (NX * NY)
<1>1. /\ x \in 0 .. NX - 1 /\ y \in 0 .. NY - 1 /\ z \in 0 .. NZ - 1
      /\ (z * NY + y) * NX + x = rank
  <2>1. NX \in Nat \ {0} /\ NY \in Nat \ {0} /\ NZ \in Nat \ {0} /\ rank \in 0 .. NX * NY * NZ - 1
    BY SizesPositive DEF Ranks
  <2> QED
    BY <2>1, CellOfNumber
<1>2. GridPos(rank) = <<x, y, z>>
  BY DEF GridPos, GridPositions
<1> HIDE DEF x, y, z
<1>3. GridPos(rank) \in GridCells
  BY <1>1, <1>2, SizesPositive DEF GridCells, Axes
<1> QED
  BY <1>1, <1>2, <1>3 DEF RankAt

LEMMA CellHasRank ==
  ASSUME NEW pos \in GridCells
  PROVE  RankAt(pos) \in Ranks /\ GridPos(RankAt(pos)) = pos
<1> DEFINE x == pos[1]
           y == pos[2]
           z == pos[3]
           rank == RankAt(pos)
<1>1. x \in 0 .. NX - 1 /\ y \in 0 .. NY - 1 /\ z \in 0 .. NZ - 1
  BY SizesPositive DEF GridCells, Axes
<1>2. rank = (z * NY + y) * NX + x
  BY DEF RankAt
<1>3. pos = <<x, y, z>>
  BY DEF GridCells, Axes
<1> HIDE DEF x, y, z, rank
<1>4. /\ rank \in Ranks /\ rank % NX = x /\ (rank % (NX * NY)) \div NX = y
      /\ rank \div (NX * NY) = z
  <2>1. NX \in Nat \ {0} /\ NY \in Nat \ {0} /\ NZ \in Nat \ {0}
    BY SizesPositive
  <2> QED
    BY <1>1, <1>2, <2>1, NumberOfCell DEF Ranks
<1> QED
  BY <1>3, <1>4 DEF rank, GridPos, GridPositions

\* The next domain along an axis of n domains, periodically.
Around(x, n) == IF x < 0 THEN x + n ELSE IF x = n THEN x - n ELSE x

LEMMA NeighborIs ==
  ASSUME NEW rank \in Ranks, NEW dir \in Directions
  PROVE  /\ NeighborRank(rank, dir) \in Ranks
         /\ GridPos(NeighborRank(rank, dir)) =
               [GridPos(rank) EXCEPT ![Axis(dir)] =
                   Around(@ + Forward(dir), Size[Axis(dir)])]
<1> DEFINE axis == Axis(dir)
           pos == [GridPos(rank) EXCEPT ![axis] = Around(@ + Forward(dir), Size[axis])]
<1>1. NeighborRank(rank, dir) = RankAt(pos)
  BY DEF NeighborRank, Neighbors, Around
<1>2. pos \in GridCells
  <2>1. axis \in Axes /\ Forward(dir) \in {-1, 1} /\ Size[axis] \in Nat \ {0}
    BY Directory, SizesPositive
  <2>2. GridPos(rank) \in [Axes -> Int] /\ GridPos(rank)[axis] \in 0 .. Size[axis] - 1
    BY <2>1, GridPosIsCell DEF GridCells
  <2>3. Around(GridPos(rank)[axis] + Forward(dir), Size[axis]) \in 0 .. Size[axis] - 1
    BY <2>1, <2>2 DEF Around
  <2> QED
    BY <2>1, <2>2, <2>3, GridPosIsCell DEF GridCells
<1> QED
  BY <1>1, <1>2, CellHasRank

LEMMA NeighborBack ==
  ASSUME NEW rank \in Ranks, NEW dir \in Directions
  PROVE  NeighborRank(NeighborRank(rank, Opposite(dir)), dir) = rank
<1> DEFINE axis == Axis(dir)
           there == NeighborRank(rank, Opposite(dir))
           back == NeighborRank(there, dir)
<1>1. axis \in Axes /\ Forward(dir) \in {-1, 1} /\ Size[axis] \in Nat \ {0}
  BY Directory, SizesPositive
<1>2. there \in Ranks
      /\ GridPos(there) = [GridPos(rank) EXCEPT ![axis] = Around(@ - Forward(dir), Size[axis])]
  <2>1. Opposite(dir) \in Directions /\ Axis(Opposite(dir)) = axis /\ Forward(Opposite(dir)) = - Forward(dir)
    BY Directory
  <2>2. GridPos(rank)[axis] \in Int
    BY <1>1, GridPosIsCell DEF GridCells
  <2>3. GridPos(rank)[axis] + Forward(Opposite(dir)) = GridPos(rank)[axis] - Forward(dir)
    BY <1>1, <2>1, <2>2
  <2> QED
    BY <2>1, <2>3, NeighborIs
<1>3. back \in Ranks
      /\ GridPos(back) = [GridPos(there) EXCEPT ![axis] = Around(@ + Forward(dir), Size[axis])]
  BY <1>2, NeighborIs
<1> HIDE DEF there, back
<1>4. GridPos(rank) \in [Axes -> Int] /\ GridPos(rank)[axis] \in 0 .. Size[axis] - 1
  BY <1>1, GridPosIsCell DEF GridCells
<1> HIDE DEF axis
<1>5. Around(Around(GridPos(rank)[axis] - Forward(dir), Size[axis]) + Forward(dir), Size[axis])
         = GridPos(rank)[axis]
  BY <1>1, <1>4 DEF Around
<1>6. GridPos(back) = GridPos(rank)
  BY <1>1, <1>2, <1>3, <1>4, <1>5
<1>7. back = rank
  BY <1>3, <1>6, GridPosIsCell
<1> QED
  BY <1>7 DEF back, there

-----------------------------------------------------------------------------
(* The route.                                                               *)

LEMMA OneAxis ==
  ASSUME NEW axis \in Axes
  PROVE  /\ OfAxis(axis) \in Seq(Directions) /\ Len(OfAxis(axis)) \in {0, 2}
         /\ Len(OfAxis(axis)) = 0 <=> Size[axis] = 1
         /\ \A k \in 1 .. Len(OfAxis(axis)) : OfAxis(axis)[k] = 2 * axis - 3 + k
<1>1. CASE Size[axis] = 1
  BY <1>1 DEF OfAxis
<1>2. CASE Size[axis] # 1
  <2>1. OfAxis(axis) = <<2 * axis - 2, 2 * axis - 1>>
    BY <1>2 DEF OfAxis
  <2>2. 2 * axis - 2 \in Directions /\ 2 * axis - 1 \in Directions
    BY DEF Axes, Directions
  <2> QED
    BY <1>2, <2>1, <2>2 DEF Axes
<1> QED
  BY <1>1, <1>2

\* The route goes once through the directions that communicate, in order.
LEMMA RouteShape ==
  /\ Route \in Seq(Directions) /\ Len(Route) \in Nat \ {0} /\ DOMAIN Route = 1 .. Len(Route)
  /\ \A k \in DOMAIN Route : Route[k] \in Directions /\ IsCommunicating(Route[k])
  /\ \A dir \in Directions : IsCommunicating(dir) => \E k \in DOMAIN Route : Route[k] = dir
  /\ \A k, l \in DOMAIN Route : k < l => Route[k] < Route[l]
<1> DEFINE a == OfAxis(1)
           b == OfAxis(2)
           c == OfAxis(3)
           la == Len(a)
           lb == Len(b)
           lc == Len(c)
<1>1. /\ a \in Seq(Directions) /\ b \in Seq(Directions) /\ c \in Seq(Directions)
      /\ la \in {0, 2} /\ lb \in {0, 2} /\ lc \in {0, 2}
      /\ la = 0 <=> Size[1] = 1
      /\ lb = 0 <=> Size[2] = 1
      /\ lc = 0 <=> Size[3] = 1
      /\ \A k \in 1 .. la : a[k] = k - 1
      /\ \A k \in 1 .. lb : b[k] = k + 1
      /\ \A k \in 1 .. lc : c[k] = k + 3
  BY OneAxis DEF Axes
<1>2. Route = a \o b \o c
  BY DEF Route
<1> HIDE DEF a, b, c
<1>3. /\ a \o b \in Seq(Directions) /\ Len(a \o b) = la + lb
      /\ \A k \in 1 .. la + lb : (a \o b)[k] = IF k <= la THEN a[k] ELSE b[k - la]
  BY <1>1, ConcatProperties
<1>4. /\ Route \in Seq(Directions) /\ Len(Route) = la + lb + lc
      /\ \A k \in 1 .. la + lb + lc :
             Route[k] = IF k <= la + lb THEN (a \o b)[k] ELSE c[k - (la + lb)]
  BY <1>1, <1>2, <1>3, ConcatProperties
<1> HIDE DEF la, lb, lc
<1>5. DOMAIN Route = 1 .. la + lb + lc
  BY <1>4, LenProperties
<1>12. la \in Int /\ lb \in Int /\ lc \in Int /\ la >= 0 /\ lb >= 0 /\ lc >= 0
  BY <1>1
<1>6. \A k \in DOMAIN Route :
          Route[k] = IF k <= la THEN k - 1
                     ELSE IF k <= la + lb THEN k - la + 1 ELSE k - (la + lb) + 3
  <2>1. SUFFICES ASSUME NEW k \in DOMAIN Route
                 PROVE  Route[k] = IF k <= la THEN k - 1
                     ELSE IF k <= la + lb THEN k - la + 1 ELSE k - (la + lb) + 3
    OBVIOUS
  <2>5. k \in Int /\ 1 <= k /\ k <= la + lb + lc
    BY <1>5, <1>12
  <2>2. CASE k <= la
    <3>1. k \in 1 .. la /\ k \in 1 .. la + lb /\ k \in 1 .. la + lb + lc /\ k <= la + lb
      BY <1>12, <2>5, <2>2
    <3>2. Route[k] = (a \o b)[k] /\ (a \o b)[k] = a[k] /\ a[k] = k - 1
      BY <1>1, <1>3, <1>4, <2>2, <3>1
    <3> QED
      BY <2>2, <3>2
  <2>3. CASE la < k /\ k <= la + lb
    <3>1. k - la \in 1 .. lb /\ k \in 1 .. la + lb /\ k \in 1 .. la + lb + lc /\ ~ (k <= la)
      BY <1>12, <2>5, <2>3
    <3>2. Route[k] = (a \o b)[k] /\ (a \o b)[k] = b[k - la] /\ b[k - la] = (k - la) + 1
      BY <1>1, <1>3, <1>4, <2>3, <3>1
    <3> QED
      BY <2>3, <3>1, <3>2
  <2>4. CASE la + lb < k
    <3>1. k - (la + lb) \in 1 .. lc /\ k \in 1 .. la + lb + lc /\ ~ (k <= la) /\ ~ (k <= la + lb)
      BY <1>12, <2>5, <2>4
    <3>2. Route[k] = c[k - (la + lb)] /\ c[k - (la + lb)] = (k - (la + lb)) + 3
      BY <1>1, <1>4, <3>1
    <3> QED
      BY <3>1, <3>2
  <2> QED
    BY <1>12, <2>5, <2>2, <2>3, <2>4
<1>7. la + lb + lc \in Nat \ {0}
  BY <1>1, SeveralRanks DEF Axes
<1>8. \A k, l \in DOMAIN Route : k < l => Route[k] < Route[l]
  <2>1. SUFFICES ASSUME NEW k \in DOMAIN Route, NEW l \in DOMAIN Route, k < l
                 PROVE  Route[k] < Route[l]
    OBVIOUS
  <2>2. k \in Int /\ l \in Int /\ k >= 1
    BY <1>5, <1>12
  <2>3. /\ Route[k] = IF k <= la THEN k - 1
                      ELSE IF k <= la + lb THEN k - la + 1 ELSE k - (la + lb) + 3
        /\ Route[l] = IF l <= la THEN l - 1
                      ELSE IF l <= la + lb THEN l - la + 1 ELSE l - (la + lb) + 3
    BY <1>6
  <2>4. la \in {0, 2} /\ lb \in {0, 2} /\ lc \in {0, 2}
    BY <1>1
  <2> DEFINE x == Route[k]
             y == Route[l]
  <2>5. x < y
    <3>1. /\ x = IF k <= la THEN k - 1
                 ELSE IF k <= la + lb THEN k - la + 1 ELSE k - (la + lb) + 3
          /\ y = IF l <= la THEN l - 1
                 ELSE IF l <= la + lb THEN l - la + 1 ELSE l - (la + lb) + 3
      BY <2>3
    <3> HIDE DEF x, y
    <3> QED
      BY <2>1, <2>2, <2>4, <3>1
  <2> QED
    BY <2>5
<1>9. \A k \in DOMAIN Route : Route[k] \in Directions /\ IsCommunicating(Route[k])
  <2>1. SUFFICES ASSUME NEW k \in DOMAIN Route PROVE Route[k] \in Directions /\ IsCommunicating(Route[k])
    OBVIOUS
  <2> DEFINE x == Route[k]
  <2>2. /\ x = IF k <= la THEN k - 1
               ELSE IF k <= la + lb THEN k - la + 1 ELSE k - (la + lb) + 3
        /\ k \in Int /\ 1 <= k /\ k <= la + lb + lc
        /\ la \in {0, 2} /\ lb \in {0, 2} /\ lc \in {0, 2}
    BY <1>1, <1>5, <1>6, <1>12
  <2> HIDE DEF x
  <2>3. \/ la = 2 /\ x \in {0, 1}
        \/ lb = 2 /\ x \in {2, 3}
        \/ lc = 2 /\ x \in {4, 5}
    BY <2>2
  <2>4. /\ la = 2 => Size[1] # 1
        /\ lb = 2 => Size[2] # 1
        /\ lc = 2 => Size[3] # 1
    BY <1>1
  <2>5. x \in Directions /\ IsCommunicating(x)
    BY <2>3, <2>4 DEF Directions, IsCommunicating, Axis
  <2> QED
    BY <2>5 DEF x
<1>10. ASSUME NEW dir \in Directions, IsCommunicating(dir)
       PROVE  \E k \in DOMAIN Route : Route[k] = dir
  <2>1. CASE dir \in {0, 1}
    <3>1. la = 2
      <4>1. Axis(dir) = 1
        BY <2>1 DEF Axis
      <4> QED
        BY <1>1, <1>10, <4>1 DEF IsCommunicating
    <3>2. dir + 1 \in DOMAIN Route
      BY <1>1, <1>5, <2>1, <3>1
    <3>3. Route[dir + 1] = dir
      BY <1>1, <1>6, <2>1, <3>1, <3>2
    <3> QED
      BY <3>2, <3>3
  <2>2. CASE dir \in {2, 3}
    <3>1. lb = 2
      <4>1. Axis(dir) = 2
        BY <2>2 DEF Axis
      <4> QED
        BY <1>1, <1>10, <4>1 DEF IsCommunicating
    <3>2. la + (dir - 1) \in DOMAIN Route
      BY <1>1, <1>5, <2>2, <3>1
    <3>3. Route[la + (dir - 1)] = dir
      BY <1>1, <1>6, <2>2, <3>1, <3>2
    <3> QED
      BY <3>2, <3>3
  <2>3. CASE dir \in {4, 5}
    <3>1. lc = 2
      <4>1. Axis(dir) = 3
        BY <2>3 DEF Axis
      <4> QED
        BY <1>1, <1>10, <4>1 DEF IsCommunicating
    <3>2. la + lb + (dir - 3) \in DOMAIN Route
      BY <1>1, <1>5, <2>3, <3>1
    <3>3. Route[la + lb + (dir - 3)] = dir
      BY <1>1, <1>6, <2>3, <3>1, <3>2
    <3> QED
      BY <3>2, <3>3
  <2> QED
    BY <2>1, <2>2, <2>3 DEF Directions
<1>11. Route \in Seq(Directions) /\ Len(Route) \in Nat \ {0} /\ DOMAIN Route = 1 .. Len(Route)
  BY <1>4, <1>5, <1>7
<1> QED
  BY <1>8, <1>9, <1>10, <1>11

-----------------------------------------------------------------------------
(* The order of the messages.  A rank sends and receives one message at     *)
(* each of its steps; the number of a step, the clock of the rank, is the   *)
(* same on all ranks.  Between two ranks are those messages of the one that *)
(* the other has not come to.                                               *)

\* What ranks send to each other in one direction after the other: when
\* particles migrate, and when ghosts are exchanged or updated.
KindSets ==
    { {"particles"}, {"particles", "bonds"}, {"ptlBuffers"}, {"ptlBuffers", "bondBuffers"},
      {"ghosts"}, {"positions"}, {"exchangeGPU"}, {"updatingGPU"} }

\* The directions of the route.
Sending == { dir \in Directions : IsCommunicating(dir) }

Turn(dir, kind) ==
    CASE kind = "particles" -> 2 * dir
      [] kind = "bonds" -> 2 * dir + 1
      [] kind = "ptlBuffers" -> dir
      [] kind = "bondBuffers" -> 6 + dir
      [] OTHER -> dir

Number(message) == Turn(message.dir, message.kind)

LEMMA KindsApart ==
  ASSUME NEW kinds \in KindSets
  PROVE  \/ kinds \subseteq {"particles", "bonds"}
         \/ kinds \subseteq {"ptlBuffers", "bondBuffers"}
         \/ \E kind \in {"ghosts", "positions", "exchangeGPU", "updatingGPU"} : kinds = {kind}
BY DEF KindSets

LEMMA StepIs ==
  ASSUME NEW kinds \in KindSets, NEW dir \in Sending, NEW kind \in kinds
  PROVE  Turn(dir, kind) \in 0 .. 11
<1>1. dir \in 0 .. 5
  BY DEF Sending, Directions
<1>2. kind \in {"particles", "bonds", "ptlBuffers", "bondBuffers",
               "ghosts", "positions", "exchangeGPU", "updatingGPU"}
  BY KindsApart
<1> QED
  BY <1>1, <1>2 DEF Turn

LEMMA StepsDiffer ==
  ASSUME NEW kinds \in KindSets, NEW dir \in Sending, NEW kind \in kinds,
         NEW dir2 \in Sending, NEW kind2 \in kinds, Turn(dir, kind) = Turn(dir2, kind2)
  PROVE  dir = dir2 /\ kind = kind2
<1>1. dir \in 0 .. 5 /\ dir2 \in 0 .. 5
  BY DEF Sending, Directions
<1>2. CASE kinds \subseteq {"particles", "bonds"}
  BY <1>1, <1>2 DEF Turn
<1>3. CASE kinds \subseteq {"ptlBuffers", "bondBuffers"}
  BY <1>1, <1>3 DEF Turn
<1>4. ASSUME NEW only \in {"ghosts", "positions", "exchangeGPU", "updatingGPU"}, kinds = {only}
      PROVE  dir = dir2 /\ kind = kind2
  BY <1>1, <1>4 DEF Turn
<1> QED
  BY <1>2, <1>3, <1>4, KindsApart

\* Clocks: no step lies between the two.
Succeeds(kinds, clock, next) ==
    /\ clock < next
    /\ \A dir \in Sending, kind \in kinds :
           clock < Turn(dir, kind) => next <= Turn(dir, kind)

IsSomeList(list) == \E S : list \in Seq(S)

\* The messages on their way from one rank to another, whose clocks are given.
InOrder(kinds, list, from, to, sent, awaited) ==
    /\ IsSomeList(list)
    /\ \A i \in DOMAIN list :
           /\ list[i].dir \in Sending /\ list[i].kind \in kinds
           /\ NeighborRank(from, list[i].dir) = to
           /\ awaited <= Number(list[i]) /\ Number(list[i]) <= sent
    /\ \A i, j \in DOMAIN list : i < j => Number(list[i]) < Number(list[j])
    /\ \A dir \in Sending, kind \in kinds :
           NeighborRank(from, dir) = to =>
               /\ awaited <= Turn(dir, kind) /\ Turn(dir, kind) <= sent =>
                      \E i \in DOMAIN list : list[i].dir = dir /\ list[i].kind = kind
               /\ sent < Turn(dir, kind) => awaited <= Turn(dir, kind)

Clocks == -1 .. 12

LEMMA ListFacts ==
  ASSUME NEW list, IsSomeList(list)
  PROVE  /\ Len(list) \in Nat /\ DOMAIN list = 1 .. Len(list)
         /\ \A e : /\ IsSomeList(Append(list, e)) /\ DOMAIN Append(list, e) = 1 .. Len(list) + 1
                   /\ \A i \in 1 .. Len(list) : Append(list, e)[i] = list[i]
                   /\ Append(list, e)[Len(list) + 1] = e
         /\ list # <<>> => /\ Len(list) >= 1 /\ Head(list) = list[1]
                           /\ IsSomeList(Tail(list)) /\ DOMAIN Tail(list) = 1 .. Len(list) - 1
                           /\ \A i \in 1 .. Len(list) - 1 : Tail(list)[i] = list[i + 1]
<1>1. PICK S : list \in Seq(S)
  BY DEF IsSomeList
<1>2. Len(list) \in Nat /\ DOMAIN list = 1 .. Len(list)
  BY <1>1, LenProperties
<1>3. ASSUME NEW e
      PROVE  /\ IsSomeList(Append(list, e)) /\ DOMAIN Append(list, e) = 1 .. Len(list) + 1
             /\ \A i \in 1 .. Len(list) : Append(list, e)[i] = list[i]
             /\ Append(list, e)[Len(list) + 1] = e
  <2>1. list \in Seq(S \cup {e})
    BY <1>1, SeqMonotonic
  <2>2. /\ Append(list, e) \in Seq(S \cup {e}) /\ Len(Append(list, e)) = Len(list) + 1
        /\ \A i \in 1 .. Len(list) : Append(list, e)[i] = list[i]
        /\ Append(list, e)[Len(list) + 1] = e
    BY <2>1, AppendProperties
  <2> QED
    BY <2>2, LenProperties DEF IsSomeList
<1>4. ASSUME list # <<>>
      PROVE  /\ Len(list) >= 1 /\ Head(list) = list[1]
             /\ IsSomeList(Tail(list)) /\ DOMAIN Tail(list) = 1 .. Len(list) - 1
             /\ \A i \in 1 .. Len(list) - 1 : Tail(list)[i] = list[i + 1]
  <2>1. Len(list) >= 1 /\ Head(list) = list[1]
    BY <1>1, <1>2, <1>4, EmptySeq
  <2>2. /\ Tail(list) \in Seq(S) /\ Len(Tail(list)) = Len(list) - 1
        /\ \A i \in 1 .. Len(Tail(list)) : Tail(list)[i] = list[i + 1]
    BY <1>1, <1>4, HeadTailProperties
  <2>3. DOMAIN Tail(list) = 1 .. Len(Tail(list))
    BY <2>2, LenProperties
  <2> QED
    BY <2>1, <2>2, <2>3 DEF IsSomeList
<1> QED
  BY <1>2, <1>3, <1>4

\* The sender goes on to its next step, with a message for this rank or another.
LEMMA SenderGoesOn ==
  ASSUME NEW kinds \in KindSets, NEW list, NEW from \in Ranks, NEW to \in Ranks,
         NEW sent \in Clocks, NEW awaited \in Clocks,
         InOrder(kinds, list, from, to, sent, awaited),
         NEW message, message.dir \in Sending, message.kind \in kinds,
         Succeeds(kinds, sent, Number(message))
  PROVE  InOrder(kinds, IF NeighborRank(from, message.dir) = to THEN Append(list, message) ELSE list,
                 from, to, Number(message), awaited)
<1> DEFINE next == Number(message)
<1>1. next \in 0 .. 11 /\ sent < next
  BY StepIs DEF Number, Succeeds
<1>2. /\ \A i \in DOMAIN list :
             /\ list[i].dir \in Sending /\ list[i].kind \in kinds
             /\ NeighborRank(from, list[i].dir) = to
             /\ awaited <= Number(list[i]) /\ Number(list[i]) <= sent
             /\ Number(list[i]) \in 0 .. 11
      /\ \A i, j \in DOMAIN list : i < j => Number(list[i]) < Number(list[j])
  BY StepIs DEF InOrder, Number
<1>3. ASSUME NEW dir \in Sending, NEW kind \in kinds, NeighborRank(from, dir) = to
      PROVE  /\ awaited <= Turn(dir, kind) /\ Turn(dir, kind) <= next
                => \/ \E i \in DOMAIN list : list[i].dir = dir /\ list[i].kind = kind
                   \/ dir = message.dir /\ kind = message.kind
             /\ next < Turn(dir, kind) => awaited <= Turn(dir, kind)
  <2>1. /\ awaited <= Turn(dir, kind) /\ Turn(dir, kind) <= sent =>
               \E i \in DOMAIN list : list[i].dir = dir /\ list[i].kind = kind
        /\ sent < Turn(dir, kind) => awaited <= Turn(dir, kind)
        /\ sent < Turn(dir, kind) => next <= Turn(dir, kind)
    BY <1>3 DEF InOrder, Succeeds
  <2>2. Turn(dir, kind) \in 0 .. 11
    BY StepIs
  <2>3. Turn(dir, kind) = next => dir = message.dir /\ kind = message.kind
    BY StepsDiffer DEF Number
  <2> HIDE DEF next
  <2>4. Turn(dir, kind) <= next => Turn(dir, kind) <= sent \/ Turn(dir, kind) = next
    BY <1>1, <2>1, <2>2 DEF Clocks
  <2> QED
    BY <1>1, <2>1, <2>2, <2>3, <2>4 DEF Clocks
<1>4. IsSomeList(list)
  BY DEF InOrder
<1>5. CASE NeighborRank(from, message.dir) = to
  <2> DEFINE longer == Append(list, message)
             n == Len(list)
  <2>1. /\ n \in Nat /\ DOMAIN list = 1 .. n
        /\ IsSomeList(longer) /\ DOMAIN longer = 1 .. n + 1
        /\ \A i \in 1 .. n : longer[i] = list[i]
        /\ longer[n + 1] = message
    BY <1>4, ListFacts
  <2>2. awaited <= next
    BY <1>1, <1>5 DEF InOrder, Number
  <2> HIDE DEF longer, n
  <2>3. \A i \in 1 .. n + 1 : i \in 1 .. n \/ i = n + 1
    BY <2>1
  <2>4. \A i \in DOMAIN longer :
             /\ longer[i].dir \in Sending /\ longer[i].kind \in kinds
             /\ NeighborRank(from, longer[i].dir) = to
             /\ awaited <= Number(longer[i]) /\ Number(longer[i]) <= next
    <3>1. SUFFICES ASSUME NEW i \in DOMAIN longer
                   PROVE  /\ longer[i].dir \in Sending /\ longer[i].kind \in kinds
                          /\ NeighborRank(from, longer[i].dir) = to
                          /\ awaited <= Number(longer[i]) /\ Number(longer[i]) <= next
      OBVIOUS
    <3>2. CASE i \in 1 .. n
      <4>1. longer[i] = list[i] /\ i \in DOMAIN list
        BY <2>1, <3>2
      <4> HIDE DEF next
      <4>2. Number(list[i]) <= next
        BY <1>1, <1>2, <4>1 DEF Clocks
      <4> QED
        BY <1>2, <4>1, <4>2
    <3>3. CASE i = n + 1
      BY <1>1, <1>5, <2>1, <2>2, <3>3
    <3> QED
      BY <2>1, <2>3, <3>1, <3>2, <3>3
  <2>5. \A i, j \in DOMAIN longer : i < j => Number(longer[i]) < Number(longer[j])
    <3>1. SUFFICES ASSUME NEW i \in DOMAIN longer, NEW j \in DOMAIN longer, i < j
                   PROVE  Number(longer[i]) < Number(longer[j])
      OBVIOUS
    <3>2. i \in 1 .. n /\ longer[i] = list[i] /\ i \in DOMAIN list
      BY <2>1, <3>1
    <3>3. CASE j \in 1 .. n
      BY <1>2, <2>1, <3>1, <3>2, <3>3
    <3>4. CASE j = n + 1
      <4>1. Number(list[i]) <= sent /\ Number(list[i]) \in 0 .. 11 /\ longer[j] = message
        BY <1>2, <2>1, <3>2, <3>4
      <4> QED
        BY <1>1, <3>2, <4>1 DEF Clocks
    <3> QED
      BY <2>1, <2>3, <3>3, <3>4
  <2>6. ASSUME NEW dir \in Sending, NEW kind \in kinds, NeighborRank(from, dir) = to
        PROVE  /\ awaited <= Turn(dir, kind) /\ Turn(dir, kind) <= next =>
                      \E i \in DOMAIN longer : longer[i].dir = dir /\ longer[i].kind = kind
               /\ next < Turn(dir, kind) => awaited <= Turn(dir, kind)
    <3>1. \A i \in DOMAIN list : i \in DOMAIN longer /\ longer[i] = list[i]
      BY <2>1
    <3>2. n + 1 \in DOMAIN longer /\ longer[n + 1] = message
      BY <2>1
    <3> HIDE DEF next
    <3> QED
      BY <1>3, <2>6, <3>1, <3>2
  <2> HIDE DEF next
  <2>7. InOrder(kinds, longer, from, to, next, awaited)
    BY <2>1, <2>4, <2>5, <2>6 DEF InOrder
  <2> QED
    BY <1>5, <2>7 DEF longer, next
<1>6. CASE NeighborRank(from, message.dir) # to
  <2> HIDE DEF next
  <2>1. ASSUME NEW dir \in Sending, NEW kind \in kinds, NeighborRank(from, dir) = to
        PROVE  /\ awaited <= Turn(dir, kind) /\ Turn(dir, kind) <= next =>
                      \E i \in DOMAIN list : list[i].dir = dir /\ list[i].kind = kind
               /\ next < Turn(dir, kind) => awaited <= Turn(dir, kind)
    BY <1>3, <1>6, <2>1
  <2>2. \A i \in DOMAIN list : Number(list[i]) <= next
    BY <1>1, <1>2 DEF Clocks
  <2>3. InOrder(kinds, list, from, to, next, awaited)
    BY <1>2, <1>4, <2>1, <2>2 DEF InOrder
  <2> QED
    BY <1>6, <2>3 DEF next
<1> QED
  BY <1>5, <1>6

\* The sender is done: no step follows the one it is at.
LEMMA SenderEnds ==
  ASSUME NEW kinds \in KindSets, NEW list, NEW from \in Ranks, NEW to \in Ranks,
         NEW sent \in Clocks, NEW awaited \in Clocks,
         InOrder(kinds, list, from, to, sent, awaited), Succeeds(kinds, sent, 12)
  PROVE  InOrder(kinds, list, from, to, 12, awaited)
<1>1. \A dir \in Sending, kind \in kinds :
          Turn(dir, kind) \in 0 .. 11 /\ Turn(dir, kind) <= sent
  <2>1. SUFFICES ASSUME NEW dir \in Sending, NEW kind \in kinds
                 PROVE  Turn(dir, kind) \in 0 .. 11 /\ Turn(dir, kind) <= sent
    OBVIOUS
  <2>2. Turn(dir, kind) \in 0 .. 11 /\ (sent < Turn(dir, kind) => 12 <= Turn(dir, kind))
    BY StepIs DEF Succeeds
  <2> QED
    BY <2>2 DEF Clocks
<1>2. /\ IsSomeList(list)
      /\ \A i \in DOMAIN list :
             /\ list[i].dir \in Sending /\ list[i].kind \in kinds
             /\ NeighborRank(from, list[i].dir) = to
             /\ awaited <= Number(list[i])
      /\ \A i, j \in DOMAIN list : i < j => Number(list[i]) < Number(list[j])
      /\ \A dir \in Sending, kind \in kinds :
             (NeighborRank(from, dir) = to /\ awaited <= Turn(dir, kind) /\ Turn(dir, kind) <= sent) =>
                 \E i \in DOMAIN list : list[i].dir = dir /\ list[i].kind = kind
  BY DEF InOrder
<1>3. \A i \in DOMAIN list : Number(list[i]) <= 12
  <2>1. \A i \in DOMAIN list : Number(list[i]) \in 0 .. 11
    BY <1>1, <1>2 DEF Number
  <2> QED
    BY <2>1
<1>4. \A dir \in Sending, kind \in kinds : Turn(dir, kind) <= sent /\ ~ (12 < Turn(dir, kind))
  BY <1>1
<1> QED
  BY <1>2, <1>3, <1>4 DEF InOrder

\* The receiver goes on from a step at which it gets nothing from this rank.
LEMMA ReceiverGoesOn ==
  ASSUME NEW kinds \in KindSets, NEW list, NEW from \in Ranks, NEW to \in Ranks,
         NEW sent \in Clocks, NEW awaited \in Clocks, NEW next \in Clocks,
         InOrder(kinds, list, from, to, sent, awaited), Succeeds(kinds, awaited, next),
         \A dir \in Sending, kind \in kinds :
             Turn(dir, kind) = awaited => NeighborRank(from, dir) # to
  PROVE  InOrder(kinds, list, from, to, sent, next)
<1>1. ASSUME NEW dir \in Sending, NEW kind \in kinds, NeighborRank(from, dir) = to
      PROVE  /\ awaited <= Turn(dir, kind) => next <= Turn(dir, kind)
             /\ next <= Turn(dir, kind) => awaited <= Turn(dir, kind)
  <2>1. Turn(dir, kind) \in 0 .. 11 /\ Turn(dir, kind) # awaited /\ awaited < next
        /\ (awaited < Turn(dir, kind) => next <= Turn(dir, kind))
    BY <1>1, StepIs DEF Succeeds
  <2> QED
    BY <2>1 DEF Clocks
<1>2. \A i \in DOMAIN list : next <= Number(list[i])
  <2>1. SUFFICES ASSUME NEW i \in DOMAIN list PROVE next <= Number(list[i])
    OBVIOUS
  <2>2. /\ list[i].dir \in Sending /\ list[i].kind \in kinds
        /\ NeighborRank(from, list[i].dir) = to /\ awaited <= Number(list[i])
    BY DEF InOrder
  <2> QED
    BY <1>1, <2>2 DEF Number
<1>3. /\ IsSomeList(list)
      /\ \A i \in DOMAIN list :
             /\ list[i].dir \in Sending /\ list[i].kind \in kinds
             /\ NeighborRank(from, list[i].dir) = to
             /\ Number(list[i]) <= sent
      /\ \A i, j \in DOMAIN list : i < j => Number(list[i]) < Number(list[j])
      /\ \A dir \in Sending, kind \in kinds :
             NeighborRank(from, dir) = to =>
               /\ awaited <= Turn(dir, kind) /\ Turn(dir, kind) <= sent =>
                      \E i \in DOMAIN list : list[i].dir = dir /\ list[i].kind = kind
               /\ sent < Turn(dir, kind) => awaited <= Turn(dir, kind)
  BY DEF InOrder
<1> QED
  BY <1>1, <1>2, <1>3 DEF InOrder

\* The receiver takes the first message: it is the one it waits for.
LEMMA ReceiverGets ==
  ASSUME NEW kinds \in KindSets, NEW list, NEW from \in Ranks, NEW to \in Ranks,
         NEW sent \in Clocks,
         NEW dir \in Sending, NEW kind \in kinds, NeighborRank(from, dir) = to,
         InOrder(kinds, list, from, to, sent, Turn(dir, kind)), list # <<>>
  PROVE  Head(list).dir = dir /\ Head(list).kind = kind
<1> DEFINE now == Turn(dir, kind)
           n == Len(list)
<1>1. /\ n \in Nat /\ DOMAIN list = 1 .. n /\ n >= 1 /\ Head(list) = list[1]
      /\ IsSomeList(Tail(list)) /\ DOMAIN Tail(list) = 1 .. n - 1
      /\ \A i \in 1 .. n - 1 : Tail(list)[i] = list[i + 1]
  BY ListFacts DEF InOrder
<1>2. now \in 0 .. 11
  BY StepIs
<1>3. \A i \in DOMAIN list :
         /\ list[i].dir \in Sending /\ list[i].kind \in kinds
         /\ NeighborRank(from, list[i].dir) = to
         /\ now <= Number(list[i]) /\ Number(list[i]) <= sent
         /\ Number(list[i]) \in 0 .. 11
  BY StepIs DEF InOrder, Number
<1>4. \A i, j \in DOMAIN list : i < j => Number(list[i]) < Number(list[j])
  BY DEF InOrder
<1>5. list[1].dir = dir /\ list[1].kind = kind
  <2>1. 1 \in DOMAIN list
    BY <1>1
  <2>2. now <= sent
    <3> HIDE DEF now
    <3>1. now <= Number(list[1]) /\ Number(list[1]) <= sent /\ Number(list[1]) \in 0 .. 11
      BY <1>3, <2>1
    <3> QED
      BY <1>2, <3>1 DEF Clocks
  <2>3. now <= Turn(dir, kind)
    BY <1>2
  <2>4. PICK i \in DOMAIN list : list[i].dir = dir /\ list[i].kind = kind
    BY <2>2, <2>3 DEF InOrder
  <2>5. Number(list[i]) = now
    BY <2>4 DEF Number
  <2> HIDE DEF now
  <2>6. ~ (1 < i)
    <3>1. 1 < i => Number(list[1]) < now
      BY <1>4, <2>1, <2>4, <2>5
    <3>2. now <= Number(list[1]) /\ Number(list[1]) \in 0 .. 11
      BY <1>3, <2>1
    <3> QED
      BY <1>2, <3>1, <3>2
  <2>7. i = 1
    BY <1>1, <2>6
  <2> QED
    BY <2>4, <2>7
<1> QED
  BY <1>1, <1>5

LEMMA ReceiverTakes ==
  ASSUME NEW kinds \in KindSets, NEW list, NEW from \in Ranks, NEW to \in Ranks,
         NEW sent \in Clocks, NEW next \in Clocks,
         NEW dir \in Sending, NEW kind \in kinds, NeighborRank(from, dir) = to,
         InOrder(kinds, list, from, to, sent, Turn(dir, kind)), list # <<>>,
         Succeeds(kinds, Turn(dir, kind), next)
  PROVE  InOrder(kinds, Tail(list), from, to, sent, next)
<1> DEFINE now == Turn(dir, kind)
           n == Len(list)
<1>1. /\ n \in Nat /\ DOMAIN list = 1 .. n /\ n >= 1 /\ Head(list) = list[1]
      /\ IsSomeList(Tail(list)) /\ DOMAIN Tail(list) = 1 .. n - 1
      /\ \A i \in 1 .. n - 1 : Tail(list)[i] = list[i + 1]
  BY ListFacts DEF InOrder
<1>2. now \in 0 .. 11 /\ now \in Int /\ sent \in Int /\ next \in Int
  BY StepIs DEF Clocks
<1>3. \A i \in DOMAIN list :
         /\ list[i].dir \in Sending /\ list[i].kind \in kinds
         /\ NeighborRank(from, list[i].dir) = to
         /\ now <= Number(list[i]) /\ Number(list[i]) <= sent
         /\ Number(list[i]) \in 0 .. 11
  BY StepIs DEF InOrder, Number
<1>4. \A i, j \in DOMAIN list : i < j => Number(list[i]) < Number(list[j])
  BY DEF InOrder
<1>5. list[1].dir = dir /\ list[1].kind = kind
  BY <1>1, ReceiverGets
<1>6. InOrder(kinds, Tail(list), from, to, sent, next)
  <2> DEFINE rest == Tail(list)
  <2>1. \A i \in DOMAIN rest :
           /\ i + 1 \in DOMAIN list /\ rest[i] = list[i + 1]
           /\ next <= Number(rest[i])
    <3>1. SUFFICES ASSUME NEW i \in DOMAIN rest
                   PROVE  /\ i + 1 \in DOMAIN list /\ rest[i] = list[i + 1]
                          /\ next <= Number(rest[i])
      OBVIOUS
    <3>2. i + 1 \in DOMAIN list /\ rest[i] = list[i + 1] /\ 1 \in DOMAIN list /\ 1 < i + 1
      BY <1>1
    <3>3. Number(list[1]) < Number(list[i + 1])
      BY <1>4, <3>2
    <3>4. Number(list[1]) = now
      BY <1>5 DEF Number
    <3>5. now < Number(list[i + 1]) => next <= Number(list[i + 1])
      BY <1>3, <3>2 DEF Succeeds, Number
    <3> QED
      BY <3>2, <3>3, <3>4, <3>5
  <2>2. \A i, j \in DOMAIN rest : i < j => Number(rest[i]) < Number(rest[j])
    <3>1. SUFFICES ASSUME NEW i \in DOMAIN rest, NEW j \in DOMAIN rest, i < j
                   PROVE  Number(rest[i]) < Number(rest[j])
      OBVIOUS
    <3>2. i + 1 < j + 1
      BY <1>1, <3>1
    <3> QED
      BY <1>4, <2>1, <3>2
  <2>3. ASSUME NEW d \in Sending, NEW k \in kinds, NeighborRank(from, d) = to
        PROVE  /\ next <= Turn(d, k) /\ Turn(d, k) <= sent =>
                      \E i \in DOMAIN rest : rest[i].dir = d /\ rest[i].kind = k
               /\ sent < Turn(d, k) => next <= Turn(d, k)
    <3>1. Turn(d, k) \in 0 .. 11 /\ now < next
          /\ (now < Turn(d, k) => next <= Turn(d, k))
      BY StepIs DEF Succeeds
    <3>2. /\ now <= Turn(d, k) /\ Turn(d, k) <= sent =>
                \E i \in DOMAIN list : list[i].dir = d /\ list[i].kind = k
          /\ sent < Turn(d, k) => now <= Turn(d, k)
      BY <2>3 DEF InOrder
    <3>3. ASSUME next <= Turn(d, k), Turn(d, k) <= sent
          PROVE  \E i \in DOMAIN rest : rest[i].dir = d /\ rest[i].kind = k
      <4>1. now < Turn(d, k) /\ now <= Turn(d, k)
        <5> HIDE DEF now
        <5> QED
          BY <1>2, <3>1, <3>3
      <4>2. PICK i \in DOMAIN list : list[i].dir = d /\ list[i].kind = k
        BY <3>2, <3>3, <4>1
      <4>3. i # 1
        <5>1. CASE i = 1
          <6>1. Turn(d, k) = now
            BY <1>5, <4>2, <5>1
          <6> QED
            BY <1>2, <4>1, <6>1
        <5> QED
          BY <5>1
      <4>4. i - 1 \in DOMAIN rest /\ (i - 1) + 1 = i
        BY <1>1, <4>3
      <4>5. rest[i - 1] = list[i]
        BY <2>1, <4>4
      <4> QED
        BY <4>2, <4>4, <4>5
    <3>4. ASSUME sent < Turn(d, k) PROVE next <= Turn(d, k)
      <4>1. now <= Turn(d, k)
        BY <3>2, <3>4
      <4>2. now # Turn(d, k)
        <5>1. now <= sent
          <6> HIDE DEF now
          <6>1. 1 \in DOMAIN list
            BY <1>1
          <6>2. now <= Number(list[1]) /\ Number(list[1]) <= sent /\ Number(list[1]) \in 0 .. 11
            BY <1>3, <6>1
          <6> QED
            BY <1>2, <6>2
        <5> HIDE DEF now
        <5> QED
          BY <1>2, <3>1, <3>4, <5>1
      <4> HIDE DEF now
      <4> QED
        BY <1>2, <3>1, <4>1, <4>2
    <3> QED
      BY <3>3, <3>4
  <2>4. \A i \in DOMAIN rest :
           /\ rest[i].dir \in Sending /\ rest[i].kind \in kinds
           /\ NeighborRank(from, rest[i].dir) = to
           /\ next <= Number(rest[i]) /\ Number(rest[i]) <= sent
    BY <1>3, <2>1
  <2>5. IsSomeList(rest)
    BY <1>1
  <2> HIDE DEF rest
  <2>6. InOrder(kinds, rest, from, to, sent, next)
    BY <2>2, <2>3, <2>4, <2>5 DEF InOrder
  <2> QED
    BY <2>6 DEF rest
<1> QED
  BY <1>6

LEMMA RouteNext ==
  /\ \A k \in DOMAIN Route : Route[k] \in Sending
  /\ 1 \in DOMAIN Route /\ Len(Route) \in DOMAIN Route
  /\ \A dir \in Sending : Route[1] <= dir /\ dir <= Route[Len(Route)]
  /\ \A k \in DOMAIN Route, dir \in Sending :
         Route[k] < dir => k + 1 \in DOMAIN Route /\ Route[k + 1] <= dir
<1>1. \A k \in DOMAIN Route : Route[k] \in Sending
  BY RouteShape DEF Sending
<1>2. 1 \in DOMAIN Route /\ Len(Route) \in DOMAIN Route
  BY RouteShape
<1>3. ASSUME NEW dir \in Sending
      PROVE  Route[1] <= dir /\ dir <= Route[Len(Route)]
  <2>1. PICK l \in DOMAIN Route : Route[l] = dir
    BY RouteShape DEF Sending
  <2>2. l = 1 \/ 1 < l
    BY RouteShape
  <2>3. l = Len(Route) \/ l < Len(Route)
    BY RouteShape
  <2>4. dir \in Int /\ Route[1] \in Int /\ Route[Len(Route)] \in Int
    BY <1>1, <1>2 DEF Sending, Directions
  <2>5. Route[1] <= dir
    BY <1>2, <2>1, <2>2, <2>4, RouteShape
  <2>6. dir <= Route[Len(Route)]
    BY <1>2, <2>1, <2>3, <2>4, RouteShape
  <2> QED
    BY <2>5, <2>6
<1>4. ASSUME NEW k \in DOMAIN Route, NEW dir \in Sending, Route[k] < dir
      PROVE  k + 1 \in DOMAIN Route /\ Route[k + 1] <= dir
  <2>1. PICK l \in DOMAIN Route : Route[l] = dir
    BY RouteShape DEF Sending
  <2>2. k \in Nat /\ l \in Nat /\ Route[k] \in Int /\ Route[l] \in Int
    BY <1>1, RouteShape DEF Sending, Directions
  <2>3. ~ (l < k) /\ l # k
    BY <1>4, <2>1, <2>2, RouteShape
  <2>4. k + 1 <= l
    BY <2>2, <2>3
  <2>5. k + 1 \in DOMAIN Route
    BY <2>2, <2>4, RouteShape
  <2>6. l = k + 1 \/ k + 1 < l
    BY <2>2, <2>4
  <2>7. Route[k + 1] \in Int
    BY <1>1, <2>5 DEF Sending, Directions
  <2> QED
    BY <2>1, <2>2, <2>5, <2>6, <2>7, RouteShape
<1> QED
  BY <1>1, <1>2, <1>3, <1>4

\* Only one rank sends to a given rank in a given direction.
LEMMA OneSource ==
  ASSUME NEW from \in Ranks, NEW to \in Ranks, NEW dir \in Directions, NeighborRank(from, dir) = to
  PROVE  from = NeighborRank(to, Opposite(dir))
<1>1. Opposite(dir) \in Directions /\ Opposite(Opposite(dir)) = dir
  BY Directory
<1>2. NeighborRank(NeighborRank(from, Opposite(Opposite(dir))), Opposite(dir)) = from
  BY <1>1, NeighborBack
<1> QED
  BY <1>1, <1>2

-----------------------------------------------------------------------------
(* The messages between all pairs of ranks, given the clocks of the ranks.  *)

AllInOrder(kinds, chan, clock) ==
    /\ chan = [pair \in Ranks \X Ranks |-> chan[pair]]
    /\ \A from, to \in Ranks :
           InOrder(kinds, chan[<<from, to>>], from, to, clock[from], clock[to])

\* The messages that are left when a rank takes the one it waits for, if any.
TakesOne(kinds, chan, clock, r, rest) ==
    \/ clock[r] = -1 /\ rest = chan
    \/ \E dir \in Sending, kind \in kinds :
           /\ clock[r] = Turn(dir, kind)
           /\ chan[<<NeighborRank(r, Opposite(dir)), r>>] # <<>>
           /\ rest = [chan EXCEPT ![<<NeighborRank(r, Opposite(dir)), r>>] = Tail(@)]

LEMMA EmptyInOrder ==
  ASSUME NEW kinds \in KindSets, NEW from \in Ranks, NEW to \in Ranks, NEW c \in {-1, 12}
  PROVE  InOrder(kinds, <<>>, from, to, c, c)
<1>1. IsSomeList(<<>>) /\ DOMAIN <<>> = {}
  BY DEF IsSomeList
<1>2. \A dir \in Sending, kind \in kinds : Turn(dir, kind) \in 0 .. 11
  BY StepIs
<1> QED
  BY <1>1, <1>2 DEF InOrder

\* When all ranks are done, or none has begun, nothing is on its way.
LEMMA NothingLeft ==
  ASSUME NEW kinds \in KindSets, NEW list, NEW from \in Ranks, NEW to \in Ranks,
         NEW sent \in Clocks, NEW awaited \in Clocks, sent = -1 \/ awaited = 12,
         InOrder(kinds, list, from, to, sent, awaited)
  PROVE  list = <<>>
<1>1. ASSUME NEW j \in DOMAIN list PROVE FALSE
  <2>1. Number(list[j]) \in 0 .. 11 /\ awaited <= Number(list[j]) /\ Number(list[j]) <= sent
    BY StepIs DEF InOrder, Number
  <2> QED
    BY <2>1
<1>2. IsSomeList(list)
  BY DEF InOrder
<1>3. Len(list) \in Nat /\ DOMAIN list = 1 .. Len(list)
  BY <1>2, ListFacts
<1>4. 1 \notin DOMAIN list
  BY <1>1
<1>5. Len(list) = 0
  BY <1>3, <1>4
<1>6. PICK S : list \in Seq(S)
  BY <1>2 DEF IsSomeList
<1> QED
  BY <1>5, <1>6, EmptySeq

LEMMA AllReceived ==
  ASSUME NEW kinds \in KindSets, NEW chan, NEW clock \in [Ranks -> Clocks],
         AllInOrder(kinds, chan, clock), NEW r \in Ranks, NEW next \in Clocks,
         Succeeds(kinds, clock[r], next), NEW rest, TakesOne(kinds, chan, clock, r, rest)
  PROVE  /\ rest = [pair \in Ranks \X Ranks |-> rest[pair]]
         /\ \A from, to \in Ranks :
               InOrder(kinds, rest[<<from, to>>], from, to, clock[from],
                       IF to = r THEN next ELSE clock[to])
<1>1. chan = [pair \in Ranks \X Ranks |-> chan[pair]]
  BY DEF AllInOrder
<1>2. ASSUME NEW from \in Ranks, NEW to \in Ranks
      PROVE  /\ InOrder(kinds, chan[<<from, to>>], from, to, clock[from], clock[to])
             /\ clock[from] \in Clocks /\ clock[to] \in Clocks
  BY DEF AllInOrder
<1>3. CASE clock[r] = -1 /\ rest = chan
  <2>2. ASSUME NEW from \in Ranks
        PROVE  InOrder(kinds, chan[<<from, r>>], from, r, clock[from], next)
    <3>1. \A dir \in Sending, kind \in kinds : Turn(dir, kind) # clock[r]
      BY <1>3, StepIs
    <3> QED
      BY <1>2, <3>1, ReceiverGoesOn
  <2> QED
    BY <1>1, <1>2, <1>3, <2>2
<1>4. ASSUME NEW dir \in Sending, NEW kind \in kinds, NEW from, from = NeighborRank(r, Opposite(dir)),
             clock[r] = Turn(dir, kind), chan[<<from, r>>] # <<>>,
             rest = [chan EXCEPT ![<<from, r>>] = Tail(chan[<<from, r>>])]
      PROVE  /\ rest = [pair \in Ranks \X Ranks |-> rest[pair]]
             /\ \A s, q \in Ranks : InOrder(kinds, rest[<<s, q>>], s, q, clock[s],
                                            IF q = r THEN next ELSE clock[q])
  <2>2. from \in Ranks /\ NeighborRank(from, dir) = r
    BY <1>4, Directory, NeighborIs, NeighborBack DEF Sending
  <2>5. InOrder(kinds, Tail(chan[<<from, r>>]), from, r, clock[from], next)
    <3>1. InOrder(kinds, chan[<<from, r>>], from, r, clock[from], Turn(dir, kind))
      BY <1>2, <1>4, <2>2
    <3> QED
      BY <1>2, <1>4, <2>2, <3>1, ReceiverTakes
  <2>6. ASSUME NEW other \in Ranks, other # from
        PROVE  InOrder(kinds, chan[<<other, r>>], other, r, clock[other], next)
    <3>1. ASSUME NEW d \in Sending, NEW k \in kinds, Turn(d, k) = clock[r]
          PROVE  NeighborRank(other, d) # r
      <4>1. d = dir
        BY <1>4, <3>1, StepsDiffer
      <4>2. NeighborRank(other, dir) = r => other = from
        BY <1>4, OneSource DEF Sending
      <4> QED
        BY <2>6, <4>1, <4>2
    <3> QED
      BY <1>2, <3>1, ReceiverGoesOn
  <2>7. rest = [pair \in Ranks \X Ranks |-> rest[pair]]
    BY <1>1, <1>4
  <2>8. ASSUME NEW s \in Ranks, NEW q \in Ranks
        PROVE  InOrder(kinds, rest[<<s, q>>], s, q, clock[s], IF q = r THEN next ELSE clock[q])
    <3>1. CASE s = from /\ q = r
      <4>1. rest[<<s, q>>] = Tail(chan[<<from, r>>])
        BY <1>1, <1>4, <3>1
      <4> QED
        BY <2>5, <3>1, <4>1
    <3>2. CASE ~ (s = from /\ q = r)
      <4>1. rest[<<s, q>>] = chan[<<s, q>>]
        BY <1>1, <1>4, <2>2, <3>2
      <4> QED
        BY <1>2, <2>6, <3>2, <4>1
    <3> QED
      BY <3>1, <3>2
  <2> QED
    BY <2>7, <2>8
<1> QED
  BY <1>3, <1>4 DEF TakesOne

LEMMA AllSent ==
  ASSUME NEW kinds \in KindSets, NEW chan, NEW clock \in [Ranks -> Clocks],
         AllInOrder(kinds, chan, clock), NEW r \in Ranks, NEW rest,
         TakesOne(kinds, chan, clock, r, rest),
         NEW message, message.dir \in Sending, message.kind \in kinds,
         Succeeds(kinds, clock[r], Number(message)), NEW to, to = NeighborRank(r, message.dir)
  PROVE  AllInOrder(kinds, [rest EXCEPT ![<<r, to>>] = Append(@, message)],
                    [clock EXCEPT ![r] = Number(message)])
<1> DEFINE next == Number(message)
           chan2 == [rest EXCEPT ![<<r, to>>] = Append(@, message)]
           now == [clock EXCEPT ![r] = next]
<1>1. next \in Clocks /\ to \in Ranks
  BY StepIs, NeighborIs DEF Number, Clocks, Sending
<1>2. /\ rest = [pair \in Ranks \X Ranks |-> rest[pair]]
      /\ \A s, q \in Ranks : InOrder(kinds, rest[<<s, q>>], s, q, clock[s], now[q])
  <2>1. \A q \in Ranks : now[q] = IF q = r THEN next ELSE clock[q]
    OBVIOUS
  <2> HIDE DEF now, next
  <2>2. Succeeds(kinds, clock[r], next)
    BY DEF next
  <2>3. /\ rest = [pair \in Ranks \X Ranks |-> rest[pair]]
        /\ \A s, q \in Ranks : InOrder(kinds, rest[<<s, q>>], s, q, clock[s],
                                       IF q = r THEN next ELSE clock[q])
    BY <1>1, <2>2, AllReceived
  <2> QED
    BY <2>1, <2>3
<1>3. ASSUME NEW q \in Ranks
      PROVE  now[q] \in Clocks /\ clock[q] \in Clocks /\ (q # r => now[q] = clock[q]) /\ now[r] = next
  BY <1>1
<1>4. /\ chan2 = [pair \in Ranks \X Ranks |-> chan2[pair]]
      /\ \A s, q \in Ranks : chan2[<<s, q>>] =
            IF s = r /\ q = to THEN Append(rest[<<s, q>>], message) ELSE rest[<<s, q>>]
  BY <1>1, <1>2
<1> HIDE DEF now, next, chan2
<1>5. ASSUME NEW s \in Ranks, NEW q \in Ranks
      PROVE  InOrder(kinds, chan2[<<s, q>>], s, q, now[s], now[q])
  <2>1. CASE s = r
    <3>1. chan2[<<r, q>>] = IF NeighborRank(r, message.dir) = q
                            THEN Append(rest[<<r, q>>], message) ELSE rest[<<r, q>>]
      BY <1>1, <1>4
    <3>2. InOrder(kinds, rest[<<r, q>>], r, q, clock[r], now[q])
      BY <1>2
    <3>3. InOrder(kinds, IF NeighborRank(r, message.dir) = q
                         THEN Append(rest[<<r, q>>], message) ELSE rest[<<r, q>>],
                  r, q, Number(message), now[q])
      BY <1>3, <3>2, SenderGoesOn
    <3> QED
      BY <1>3, <2>1, <3>1, <3>3 DEF next
  <2>2. CASE s # r
    <3>1. chan2[<<s, q>>] = rest[<<s, q>>] /\ now[s] = clock[s]
      BY <1>3, <1>4, <2>2
    <3> QED
      BY <1>2, <3>1
  <2> QED
    BY <2>1, <2>2
<1>6. AllInOrder(kinds, chan2, now)
  BY <1>4, <1>5 DEF AllInOrder
<1> QED
  BY <1>6 DEF chan2, now, next

LEMMA AllEnded ==
  ASSUME NEW kinds \in KindSets, NEW chan, NEW clock \in [Ranks -> Clocks],
         AllInOrder(kinds, chan, clock), NEW r \in Ranks, NEW rest,
         TakesOne(kinds, chan, clock, r, rest), Succeeds(kinds, clock[r], 12)
  PROVE  AllInOrder(kinds, rest, [clock EXCEPT ![r] = 12])
<1> DEFINE now == [clock EXCEPT ![r] = 12]
<1>1. 12 \in Clocks
  BY DEF Clocks
<1>2. /\ rest = [pair \in Ranks \X Ranks |-> rest[pair]]
      /\ \A s, q \in Ranks : InOrder(kinds, rest[<<s, q>>], s, q, clock[s],
                                     IF q = r THEN 12 ELSE clock[q])
  BY <1>1, AllReceived
<1>3. ASSUME NEW q \in Ranks
      PROVE  now[q] \in Clocks /\ clock[q] \in Clocks /\ (q # r => now[q] = clock[q]) /\ now[r] = 12
  BY <1>1
<1> HIDE DEF now
<1>4. ASSUME NEW s \in Ranks, NEW q \in Ranks
      PROVE  InOrder(kinds, rest[<<s, q>>], s, q, now[s], now[q])
  <2>1. InOrder(kinds, rest[<<s, q>>], s, q, clock[s], now[q])
    BY <1>2, <1>3
  <2>2. CASE s = r
    <3>1. InOrder(kinds, rest[<<s, q>>], s, q, 12, now[q])
      BY <1>1, <1>3, <2>1, <2>2, SenderEnds
    <3> QED
      BY <1>3, <2>2, <3>1
  <2>3. CASE s # r
    BY <1>3, <2>1, <2>3
  <2> QED
    BY <2>2, <2>3
<1>5. AllInOrder(kinds, rest, now)
  BY <1>2, <1>4 DEF AllInOrder
<1> QED
  BY <1>5 DEF now

\* The message that a rank waits for is the first from the neighbour.
LEMMA AwaitedFirst ==
  ASSUME NEW kinds \in KindSets, NEW chan, NEW clock \in [Ranks -> Clocks],
         AllInOrder(kinds, chan, clock), NEW r \in Ranks, NEW dir \in Sending, NEW kind \in kinds,
         clock[r] = Turn(dir, kind), NEW from, from = NeighborRank(r, Opposite(dir)),
         chan[<<from, r>>] # <<>>
  PROVE  /\ from \in Ranks /\ NeighborRank(from, dir) = r
         /\ 1 \in DOMAIN chan[<<from, r>>] /\ Head(chan[<<from, r>>]) = chan[<<from, r>>][1]
         /\ chan[<<from, r>>][1].dir = dir /\ chan[<<from, r>>][1].kind = kind
<1>1. from \in Ranks /\ NeighborRank(from, dir) = r
  BY Directory, NeighborIs, NeighborBack DEF Sending
<1>2. InOrder(kinds, chan[<<from, r>>], from, r, clock[from], Turn(dir, kind))
  BY <1>1 DEF AllInOrder
<1>3. /\ Head(chan[<<from, r>>]).dir = dir /\ Head(chan[<<from, r>>]).kind = kind
  <2>1. ASSUME NEW list, NEW sent \in Clocks, InOrder(kinds, list, from, r, sent, Turn(dir, kind)),
               list # <<>>
        PROVE  Head(list).dir = dir /\ Head(list).kind = kind
    BY <1>1, <2>1, ReceiverGets
  <2>2. clock[from] \in Clocks
    BY <1>1
  <2> QED
    BY <1>2, <2>1, <2>2
<1>4. IsSomeList(chan[<<from, r>>])
  BY <1>2 DEF InOrder
<1>5. 1 \in DOMAIN chan[<<from, r>>] /\ Head(chan[<<from, r>>]) = chan[<<from, r>>][1]
  BY <1>4, ListFacts
<1> QED
  BY <1>1, <1>3, <1>5

\* A message that is on its way after a step was so before, or is the one sent.
AmongThese(list, others) == \A i \in DOMAIN list : \E j \in DOMAIN others : list[i] = others[j]

LEMMA RestMessages ==
  ASSUME NEW kinds \in KindSets, NEW chan, NEW clock \in [Ranks -> Clocks],
         AllInOrder(kinds, chan, clock), NEW r \in Ranks, NEW rest,
         TakesOne(kinds, chan, clock, r, rest), NEW from \in Ranks, NEW to \in Ranks
  PROVE  /\ IsSomeList(rest[<<from, to>>])
         /\ rest = [pair \in Ranks \X Ranks |-> rest[pair]]
         /\ AmongThese(rest[<<from, to>>], chan[<<from, to>>])
<1>0. AmongThese(chan[<<from, to>>], chan[<<from, to>>])
  BY DEF AmongThese
<1>1. IsSomeList(chan[<<from, to>>]) /\ chan = [pair \in Ranks \X Ranks |-> chan[pair]]
  <2>1. InOrder(kinds, chan[<<from, to>>], from, to, clock[from], clock[to])
    BY DEF AllInOrder
  <2> QED
    BY <2>1 DEF AllInOrder, InOrder
<1>2. CASE rest = chan
  BY <1>0, <1>1, <1>2
<1>3. ASSUME NEW s, chan[<<s, r>>] # <<>>, rest = [chan EXCEPT ![<<s, r>>] = Tail(chan[<<s, r>>])]
      PROVE  /\ IsSomeList(rest[<<from, to>>])
             /\ rest = [pair \in Ranks \X Ranks |-> rest[pair]]
             /\ AmongThese(rest[<<from, to>>], chan[<<from, to>>])
  <2>0. rest = [pair \in Ranks \X Ranks |-> rest[pair]]
    BY <1>1, <1>3
  <2>2. CASE from = s /\ to = r
    <3>1. chan[<<from, to>>] # <<>> /\ rest[<<from, to>>] = Tail(chan[<<from, to>>])
      BY <1>1, <1>3, <2>2
    <3> DEFINE list == chan[<<from, to>>]
    <3>2. list # <<>> /\ IsSomeList(list)
      BY <1>1, <3>1
    <3> HIDE DEF list
    <3>3. /\ Len(list) \in Nat /\ DOMAIN list = 1 .. Len(list)
          /\ IsSomeList(Tail(list)) /\ DOMAIN Tail(list) = 1 .. Len(list) - 1
          /\ \A i \in 1 .. Len(list) - 1 : Tail(list)[i] = list[i + 1]
      BY <3>2, ListFacts
    <3>4. ASSUME NEW i \in DOMAIN Tail(list)
          PROVE  i + 1 \in DOMAIN list /\ Tail(list)[i] = list[i + 1]
      BY <3>3
    <3> QED
      BY <2>0, <3>1, <3>3, <3>4 DEF list, AmongThese
  <2>3. CASE ~ (from = s /\ to = r)
    <3>1. rest[<<from, to>>] = chan[<<from, to>>]
      BY <1>1, <1>3, <2>3
    <3> QED
      BY <1>0, <1>1, <2>0, <3>1
  <2> QED
    BY <2>2, <2>3
<1> QED
  BY <1>2, <1>3 DEF TakesOne

WithSent(rest, r, next, message) == [rest EXCEPT ![<<r, next>>] = Append(@, message)]

LEMMA SentMessages ==
  ASSUME NEW kinds \in KindSets, NEW chan, NEW clock \in [Ranks -> Clocks],
         AllInOrder(kinds, chan, clock), NEW r \in Ranks, NEW rest,
         TakesOne(kinds, chan, clock, r, rest), NEW next \in Ranks, NEW message,
         NEW from \in Ranks, NEW to \in Ranks, NEW i \in DOMAIN WithSent(rest, r, next, message)[<<from, to>>]
  PROVE  \/ \E j \in DOMAIN chan[<<from, to>>] :
               WithSent(rest, r, next, message)[<<from, to>>][i] = chan[<<from, to>>][j]
         \/ from = r /\ to = next /\ WithSent(rest, r, next, message)[<<from, to>>][i] = message
<1> DEFINE chan2 == WithSent(rest, r, next, message)
<1>3. /\ IsSomeList(rest[<<from, to>>])
      /\ rest = [pair \in Ranks \X Ranks |-> rest[pair]]
      /\ AmongThese(rest[<<from, to>>], chan[<<from, to>>])
  BY RestMessages
<1>0. chan2 = [rest EXCEPT ![<<r, next>>] = Append(rest[<<r, next>>], message)]
  BY DEF WithSent
<1>01. i \in DOMAIN chan2[<<from, to>>]
  OBVIOUS
<1> HIDE DEF chan2
<1> SUFFICES \/ \E j \in DOMAIN chan[<<from, to>>] : chan2[<<from, to>>][i] = chan[<<from, to>>][j]
             \/ from = r /\ to = next /\ chan2[<<from, to>>][i] = message
  BY DEF chan2
<1>4. CASE from = r /\ to = next
  <2> DEFINE list == rest[<<from, to>>]
  <2>1. chan2[<<from, to>>] = Append(list, message) /\ IsSomeList(list)
    BY <1>0, <1>3, <1>4
  <2> HIDE DEF list
  <2>2. /\ Len(list) \in Nat /\ DOMAIN list = 1 .. Len(list)
        /\ DOMAIN Append(list, message) = 1 .. Len(list) + 1
        /\ \A k \in 1 .. Len(list) : Append(list, message)[k] = list[k]
        /\ Append(list, message)[Len(list) + 1] = message
    BY <2>1, ListFacts
  <2>3. i \in DOMAIN list \/ i = Len(list) + 1
    BY <1>01, <2>1, <2>2
  <2>4. CASE i \in DOMAIN list
    <3>1. chan2[<<from, to>>][i] = list[i]
      BY <2>1, <2>2, <2>4
    <3> QED
      BY <1>3, <2>4, <3>1 DEF list, AmongThese
  <2>5. CASE i = Len(list) + 1
    BY <1>4, <2>1, <2>2, <2>5
  <2> QED
    BY <2>3, <2>4, <2>5
<1>5. CASE ~ (from = r /\ to = next)
  <2>1. chan2[<<from, to>>] = rest[<<from, to>>]
    BY <1>0, <1>3, <1>5
  <2>2. AmongThese(chan2[<<from, to>>], chan[<<from, to>>])
    BY <1>3, <2>1
  <2> QED
    BY <1>01, <2>2, Zenon DEF AmongThese
<1> QED
  BY <1>4, <1>5

-----------------------------------------------------------------------------
(* Cells, domains and periods along an axis.                                *)

LEMMA Remainder ==
  ASSUME NEW x \in Int, NEW b \in Nat \ {0}
  PROVE  x % b \in 0 .. b - 1 /\ x \div b \in Int /\ x = (x \div b) * b + (x % b)
OBVIOUS

\* Whole periods, and what is left of the difference of two coordinates.
LEMMA WholePeriods ==
  ASSUME NEW b \in Nat \ {0}, NEW x \in Int, NEW k \in Int
  PROVE  /\ (x + k * b) % b = x % b
         /\ x % b = 0 <=> \E q \in Int : x = q * b
<1>1. ASSUME NEW a \in Int, NEW q \in Int, NEW c \in 0 .. b - 1, a = q * b + c
      PROVE  a % b = c
  <2>1. a % b \in 0 .. b - 1 /\ a \div b \in Int /\ a = (a \div b) * b + (a % b)
    BY Remainder
  <2> DEFINE p == a \div b
             e == a % b
  <2>2. p \in Int /\ e \in 0 .. b - 1 /\ p * b + e = q * b + c
    BY <1>1, <2>1
  <2> HIDE DEF p, e
  <2>3. e = c
    BY <2>2, DivisionIsUnique
  <2> QED
    BY <2>3 DEF e
<1>2. (x + k * b) % b = x % b
  <2>1. x % b \in 0 .. b - 1 /\ x \div b \in Int /\ x = (x \div b) * b + (x % b)
    BY Remainder
  <2> DEFINE q == x \div b
             c == x % b
  <2>2. (q + k) * b = q * b + k * b /\ k * b \in Int /\ q * b \in Int
    BY <2>1
  <2>3. x + k * b \in Int /\ x + k * b = (q + k) * b + c
    BY <2>1, <2>2
  <2>4. q + k \in Int /\ c \in 0 .. b - 1
    BY <2>1
  <2> HIDE DEF q, c
  <2>5. (x + k * b) % b = c
    BY <1>1, <2>3, <2>4
  <2> QED
    BY <2>5 DEF c
<1>3. ASSUME x % b = 0
      PROVE  \E q \in Int : x = q * b
  <2>1. x \div b \in Int /\ x = (x \div b) * b + (x % b)
    BY Remainder
  <2> DEFINE q == x \div b
  <2>2. q \in Int /\ x = q * b + 0
    BY <1>3, <2>1
  <2> HIDE DEF q
  <2>3. q * b \in Int
    BY <2>2
  <2>4. x = q * b
    BY <2>2, <2>3
  <2> QED
    BY <2>2, <2>4
<1>4. ASSUME NEW q \in Int, x = q * b
      PROVE  x % b = 0
  <2>1. x = q * b + 0 /\ 0 \in 0 .. b - 1
    BY <1>4
  <2> QED
    BY <1>1, <2>1
<1> QED
  BY <1>2, <1>3, <1>4

\* Two places in a box that are apart by periods are the same.
LEMMA OnePlace ==
  ASSUME NEW b \in Nat \ {0}, NEW shift \in Int, NEW x \in shift .. b + shift - 1,
         NEW p \in shift .. b + shift - 1, NEW y \in Int, (x - y) % b = 0, p - y \in {-b, 0, b}
  PROVE  x = p
<1>1. PICK q \in Int : x - y = q * b
  <2> DEFINE z == x - y
  <2>1. z \in Int /\ z % b = 0
    OBVIOUS
  <2> HIDE DEF z
  <2>2. \E q \in Int : z = q * b
    BY <2>1, WholePeriods
  <2>3. QED
    BY <2>2 DEF z
<1>2. PICK k \in {-1, 0, 1} : p - y = k * b
  <2>1. -b = (-1) * b /\ 0 = 0 * b /\ b = 1 * b
    OBVIOUS
  <2>2. QED
    BY <2>1
<1>3. q * b \in Int /\ k * b \in Int /\ (q - k) * b = q * b - k * b /\ q - k \in Int
  BY <1>1, <1>2
<1>4. (q - k) * b = x - p
  BY <1>1, <1>2, <1>3
<1>5. (q - k) * b > -b /\ (q - k) * b < b
  BY <1>4
<1>6. q - k = 0
  <2>1. CASE q - k >= 1
    <3>1. (q - k - 1) * b >= 0 /\ (q - k - 1) * b = (q - k) * b - b
      BY <1>3, <2>1
    <3>2. QED
      BY <1>3, <1>5, <3>1
  <2>2. CASE q - k <= -1
    <3>1. (k - q - 1) * b >= 0 /\ (k - q - 1) * b = -((q - k) * b) - b
      BY <1>3, <2>2
    <3>2. QED
      BY <1>3, <1>5, <3>1
  <2>3. QED
    BY <1>3, <2>1, <2>2
<1>7. QED
  BY <1>4, <1>6

\* There and back along a periodic axis.
LEMMA BackAround ==
  ASSUME NEW n \in Nat \ {0, 1}, NEW x \in 0 .. n - 1, NEW f \in {-1, 1}
  PROVE  Around(Around(x + f, n) - f, n) = x
BY DEF Around

\* A cell is in a domain, or in the layer around it on one side.
LEMMA WhichDomain ==
  ASSUME NEW n \in Nat \ {0, 1}, NEW l \in Nat \ {0}, NEW w \in 1 .. l, 2 * w < l,
         NEW home \in 0 .. n - 1, NEW here \in 0 .. n - 1, NEW s \in {-1, 0, 1}, NEW c \in 0 .. l - 1,
         c + (home - here + s * n) * l \in -w .. l + w - 1
  PROVE  \/ here = home
         \/ c >= l - w /\ here = Around(home + 1, n)
         \/ c < w /\ here = Around(home + (-1), n)
<1> DEFINE d == home - here + s * n
<1>1. s * n \in {-n, 0, n} /\ d \in Int
  OBVIOUS
<1>2. d * l \in Int /\ d * l <= l + w - 1 /\ d * l >= -w - (l - 1)
  BY <1>1
<1>3. d \in {-1, 0, 1}
  <2> HIDE DEF d
  <2>1. d >= 2 => d * l >= 2 * l
    BY <1>1
  <2>2. d <= -2 => d * l <= -2 * l
    BY <1>1
  <2>3. QED
    BY <1>1, <1>2, <2>1, <2>2
<1>4. CASE d = 0
  BY <1>1, <1>4
<1>5. CASE d = 1
  <2>1. c < w
    BY <1>5
  <2>2. here = Around(home + (-1), n)
    BY <1>1, <1>5 DEF Around
  <2>3. QED
    BY <2>1, <2>2
<1>6. CASE d = -1
  <2>1. c >= l - w
    BY <1>6
  <2>2. here = Around(home + 1, n)
    BY <1>1, <1>6 DEF Around
  <2>3. QED
    BY <2>1, <2>2
<1>7. QED
  BY <1>3, <1>4, <1>5, <1>6

\* What is near a domain is in the shifted box of its rank, which is moved by twice
\* the width of the layer at the boundary: with two domains along the axis, the
\* layer must not be wider than a third of a domain.
LEMMA NearInShiftedBox ==
  ASSUME NEW n \in Nat \ {0, 1}, NEW l \in Nat \ {0}, NEW w \in 1 .. l, 2 * w < l, n = 2 => 3 * w <= l,
         NEW g \in 0 .. n - 1, NEW v \in Int, v <= w, NEW p \in Int, p - g * l \in -v .. l + v - 1,
         NEW shift, shift = IF g = 0 THEN -2 * w ELSE IF g = n - 1 THEN 2 * w ELSE 0
  PROVE  p \in shift .. n * l + shift - 1
<1>1. n >= 2 /\ (n # 2 => n >= 3) /\ n * l \in Int /\ g * l \in Int
  OBVIOUS
<1>2. n # 2 => (n - 1) * l >= 2 * l
  <2>1. CASE n >= 3
    <3>1. (n - 3) * l >= 0
      BY <2>1
    <3>2. (n - 1) * l = (n - 3) * l + 2 * l
      OBVIOUS
    <3>3. QED
      BY <3>1, <3>2
  <2>2. QED
    BY <1>1, <2>1
<1>3. (n - 1) * l \in Int /\ (n - 1) * l = n * l - l
  OBVIOUS
<1>4. (n - 1) * l >= 3 * w
  <2>1. CASE n = 2
    BY <2>1
  <2>2. CASE n # 2
    BY <1>2, <1>3, <2>2
  <2>3. QED
    BY <2>1, <2>2
<1>5. CASE g = 0
  <2>1. g * l = 0 /\ shift = -2 * w
    BY <1>5
  <2>2. QED
    BY <1>1, <1>3, <1>4, <2>1
<1>6. CASE g # 0 /\ g = n - 1
  <2>1. g * l = (n - 1) * l /\ shift = 2 * w
    BY <1>6
  <2>2. QED
    BY <1>1, <1>3, <1>4, <2>1
<1>7. CASE g # 0 /\ g # n - 1
  <2>1. shift = 0 /\ g >= 1 /\ g <= n - 2
    BY <1>7
  <2>2. g * l >= l
    <3>1. (g - 1) * l >= 0 /\ (g - 1) * l = g * l - l
      BY <2>1
    <3>2. QED
      BY <1>1, <3>1
  <2>3. g * l + l <= (n - 1) * l
    <3>1. (n - 2 - g) * l >= 0 /\ (n - 2 - g) * l = (n - 1) * l - l - g * l
      BY <2>1
    <3>2. QED
      BY <1>1, <1>3, <3>1
  <2>4. QED
    BY <1>1, <1>3, <2>1, <2>2, <2>3
<1>8. QED
  BY <1>5, <1>6, <1>7

\* What is in a domain, or not far from it, is near the box.
LEMMA DomainInBox ==
  ASSUME NEW n \in Nat \ {0}, NEW l \in Nat \ {0}, NEW g \in 0 .. n - 1, NEW v \in 0 .. l,
         NEW p \in Int, p - g * l \in -v .. l - 1 + v
  PROVE  p \in -l .. n * l + l - 1
<1>1. g * l \in Int /\ n * l \in Int /\ g * l >= 0
  OBVIOUS
<1>2. g * l <= n * l - l
  <2>1. (n - 1 - g) * l >= 0 /\ (n - 1 - g) * l = n * l - l - g * l
    OBVIOUS
  <2>2. QED
    BY <1>1, <2>1
<1>3. QED
  BY <1>1, <1>2

\* Ranks at one place of the grid are the same.
LEMMA SamePlace ==
  ASSUME NEW r \in Ranks, NEW s \in Ranks, \A axis \in Axes : GridPos(r)[axis] = GridPos(s)[axis]
  PROVE  r = s
<1>1. GridPos(r) \in [Axes -> Int] /\ GridPos(s) \in [Axes -> Int]
  BY GridPosIsCell DEF GridCells
<1>2. GridPos(r) = GridPos(s)
  BY <1>1
<1>3. QED
  BY <1>2, GridPosIsCell

\* Lists, one after the other.
LEMMA Joined ==
  ASSUME NEW S, NEW a \in Seq(S), NEW b \in Seq(S)
  PROVE  /\ a \o b \in Seq(S) /\ Len(a) \in Nat /\ Len(b) \in Nat /\ Len(a \o b) = Len(a) + Len(b)
         /\ DOMAIN a = 1 .. Len(a) /\ DOMAIN b = 1 .. Len(b) /\ DOMAIN (a \o b) = 1 .. Len(a) + Len(b)
         /\ \A i \in DOMAIN a : i \in DOMAIN (a \o b) /\ (a \o b)[i] = a[i]
         /\ \A i \in DOMAIN b : Len(a) + i \in DOMAIN (a \o b) /\ (a \o b)[Len(a) + i] = b[i]
         /\ \A i \in DOMAIN (a \o b) :
               \/ i \in DOMAIN a
               \/ i - Len(a) \in DOMAIN b /\ (a \o b)[i] = b[i - Len(a)]
BY LenProperties, ConcatProperties

\* A property of the number of directions that are done, for all of them.
LEMMA RouteInduction ==
  ASSUME NEW S, 0 \in S, \A k \in DOMAIN Route : k - 1 \in S => k \in S
  PROVE  Len(Route) \in S
<1>1. Len(Route) \in 0 .. 6 /\ DOMAIN Route = 1 .. Len(Route)
  <2>1. \A axis \in Axes : OfAxis(axis) \in Seq(Directions) /\ Len(OfAxis(axis)) \in {0, 2}
    BY OneAxis
  <2>2. OfAxis(1) \in Seq(Directions) /\ OfAxis(2) \in Seq(Directions) /\ OfAxis(3) \in Seq(Directions)
        /\ Len(OfAxis(1)) \in {0, 2} /\ Len(OfAxis(2)) \in {0, 2} /\ Len(OfAxis(3)) \in {0, 2}
    BY <2>1 DEF Axes
  <2>3. OfAxis(1) \o OfAxis(2) \in Seq(Directions)
        /\ Len(OfAxis(1) \o OfAxis(2)) = Len(OfAxis(1)) + Len(OfAxis(2))
    BY <2>2, Joined
  <2>4. Len(Route) = Len(OfAxis(1) \o OfAxis(2)) + Len(OfAxis(3))
    BY <2>2, <2>3, Joined DEF Route
  <2>5. Len(Route) \in 0 .. 6
    <3> DEFINE a == Len(OfAxis(1))
               b == Len(OfAxis(2))
               c == Len(OfAxis(3))
               ab == Len(OfAxis(1) \o OfAxis(2))
               n == Len(Route)
    <3>1. a \in {0, 2} /\ b \in {0, 2} /\ c \in {0, 2} /\ ab = a + b /\ n = ab + c
      BY <2>2, <2>3, <2>4
    <3> HIDE DEF a, b, c, ab, n
    <3>2. n \in 0 .. 6
      BY <3>1
    <3>3. QED
      BY <3>2 DEF n
  <2>6. QED
    BY <2>5, RouteShape
<1>2. Len(Route) >= 1 => 1 \in S
  BY <1>1
<1>3. Len(Route) >= 2 => 2 \in S
  BY <1>1, <1>2
<1>4. Len(Route) >= 3 => 3 \in S
  BY <1>1, <1>3
<1>5. Len(Route) >= 4 => 4 \in S
  BY <1>1, <1>4
<1>6. Len(Route) >= 5 => 5 \in S
  BY <1>1, <1>5
<1>7. Len(Route) >= 6 => 6 \in S
  BY <1>1, <1>6
<1>8. QED
  BY <1>1, <1>2, <1>3, <1>4, <1>5, <1>6, <1>7

=============================================================================
