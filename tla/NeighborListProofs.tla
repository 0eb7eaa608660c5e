------------------------- MODULE NeighborListProofs -------------------------
(***************************************************************************)
(* What the neighbour lists need.  The ghost layer has all particles near  *)
(* a domain, for any grid of ranks, any particles and both communicators;  *)
(* and the ranks agree when they rebuild their lists.                      *)
(***************************************************************************)
EXTENDS NeighborList, GhostProofs

-----------------------------------------------------------------------------
(* The ranks that a particle is to come to, by the directions of its plan:  *)
(* along each axis they are where the owner is, or next to it.              *)
Target(r, home, way, k) ==
    \A axis \in Axes :
        \/ GridPos(r)[axis] = GridPos(home)[axis]
        \/ \E l \in 1 .. k :
              /\ Axis(Route[l]) = axis /\ Route[l] \in way
              /\ GridPos(r)[axis] = GridPos(NeighborRank(home, Route[l]))[axis]

LEMMA TargetFirst ==
  ASSUME NEW r \in Ranks, NEW home \in Ranks, NEW way, Target(r, home, way, 0)
  PROVE  r = home
BY SamePlace DEF Target

LEMMA TargetAlone ==
  ASSUME NEW r \in Ranks, NEW home \in Ranks, NEW k, Target(r, home, {}, k)
  PROVE  r = home
BY SamePlace DEF Target

\* What is on its way to a rank is there already, or sent by the neighbour.
LEMMA TargetNext ==
  ASSUME NEW k \in DOMAIN Route, NEW r \in Ranks, NEW home \in Ranks, NEW way, OneWay(way),
         Target(r, home, way, k)
  PROVE  \/ Target(r, home, way, k - 1)
         \/ Route[k] \in way /\ Target(Src(r, k), home, way, k - 1)
<1> DEFINE a == Axis(Route[k])
           g(s) == GridPos(s)
<1>1. k \in 1 .. Len(Route) /\ Len(Route) \in Nat /\ Route[k] \in Directions /\ Route[k] \in Sending
  BY RouteShape, SrcIs
<1>2. a \in Axes /\ Opposite(Route[k]) \in Directions /\ Axis(Opposite(Route[k])) = a
      /\ Forward(Opposite(Route[k])) = - Forward(Route[k]) /\ Forward(Route[k]) \in {-1, 1}
  BY <1>1, Directory
<1>3. \A l \in 1 .. k : l \in DOMAIN Route /\ (l = k \/ l \in 1 .. k - 1)
  BY <1>1, RouteShape
<1>4. CASE Route[k] \notin way
  <2>1. Target(r, home, way, k - 1)
    BY <1>3, <1>4 DEF Target
  <2>2. QED
    BY <2>1
<1>5. CASE Route[k] \in way /\ g(r)[a] = g(home)[a]
  <2>1. Target(r, home, way, k - 1)
    BY <1>3, <1>5 DEF Target
  <2>2. QED
    BY <2>1
<1>6. CASE Route[k] \in way /\ g(r)[a] # g(home)[a]
  <2>1. PICK l \in 1 .. k : /\ Axis(Route[l]) = a /\ Route[l] \in way
                            /\ g(r)[a] = g(NeighborRank(home, Route[l]))[a]
    BY <1>2, <1>6 DEF Target
  <2>2. Route[l] = Route[k]
    BY <2>1, <1>6 DEF OneWay
  <2>3. g(NeighborRank(home, Route[k])) =
          [g(home) EXCEPT ![a] = Around(@ + Forward(Route[k]), Size[a])]
    BY <1>1, NeighborIs
  <2>4. g(home) \in [Axes -> Int] /\ g(home)[a] \in 0 .. Size[a] - 1
        /\ g(r) \in [Axes -> Int] /\ Size[a] \in Nat \ {0}
    BY <1>2, GridPosIsCell, SizesPositive DEF GridCells
  <2>5. g(r)[a] = Around(g(home)[a] + Forward(Route[k]), Size[a])
    BY <2>1, <2>2, <2>3, <2>4, <1>2
  <2>6. g(Src(r, k)) = [g(r) EXCEPT ![a] = Around(@ + (- Forward(Route[k])), Size[a])]
    BY <1>1, <1>2, NeighborIs DEF Src
  <2>7. Size[a] # 1
    BY <1>1 DEF Sending, IsCommunicating
  <2>8. g(Src(r, k))[a] = g(home)[a]
    <3>1. Around(Around(g(home)[a] + Forward(Route[k]), Size[a]) - Forward(Route[k]), Size[a])
            = g(home)[a]
      BY <2>4, <2>7, <1>2, BackAround
    <3>2. g(Src(r, k))[a] = Around(g(r)[a] + (- Forward(Route[k])), Size[a])
      BY <2>6, <2>4, <1>2
    <3>3. g(r)[a] + (- Forward(Route[k])) = g(r)[a] - Forward(Route[k])
      BY <2>4, <1>2
    <3>4. QED
      BY <3>1, <3>2, <3>3, <2>5
  <2>9. \A axis \in Axes : axis # a => g(Src(r, k))[axis] = g(r)[axis]
    BY <2>6, <2>4
  <2>10. Target(Src(r, k), home, way, k - 1)
    <3> SUFFICES ASSUME NEW axis \in Axes, g(Src(r, k))[axis] # g(home)[axis]
                 PROVE  \E m \in 1 .. k - 1 :
                            /\ Axis(Route[m]) = axis /\ Route[m] \in way
                            /\ g(Src(r, k))[axis] = g(NeighborRank(home, Route[m]))[axis]
      BY DEF Target
    <3>1. axis # a /\ g(Src(r, k))[axis] = g(r)[axis]
      BY <2>8, <2>9
    <3>2. PICK m \in 1 .. k : /\ Axis(Route[m]) = axis /\ Route[m] \in way
                              /\ g(r)[axis] = g(NeighborRank(home, Route[m]))[axis]
      BY <3>1 DEF Target
    <3>3. QED
      BY <3>1, <3>2, <1>3
  <2>11. QED
    BY <1>6, <2>10
<1>7. QED
  BY <1>4, <1>5, <1>6

-----------------------------------------------------------------------------
(* Where an image of a particle is near a domain, the rank of that domain is *)
(* among those that the plan of the particle leads to.                       *)
Shifts(axis) == IF Size[axis] = 1 THEN {0} ELSE {-Box(axis), 0, Box(axis)}

LEMMA ImagesAre ==
  ASSUME NEW x \in [Axes -> Int], NEW pos
  PROVE  pos \in Images(x) <=>
           pos \in [Axes -> Int] /\ \A axis \in Axes : pos[axis] - x[axis] \in Shifts(axis)
<1>1. \A axis \in Axes : Shifts(axis) \subseteq Int
  BY Boxes DEF Shifts
<1>2. Axes = {1, 2, 3}
  BY DEF Axes
<1>3. ASSUME pos \in Images(x)
      PROVE  pos \in [Axes -> Int] /\ \A axis \in Axes : pos[axis] - x[axis] \in Shifts(axis)
  <2>1. PICK s \in Shifts(1) \X Shifts(2) \X Shifts(3) : pos = [axis \in Axes |-> x[axis] + s[axis]]
    BY <1>3 DEF Images, Shifts
  <2>2. s[1] \in Shifts(1) /\ s[2] \in Shifts(2) /\ s[3] \in Shifts(3)
    BY <2>1
  <2>3. \A axis \in Axes : s[axis] \in Shifts(axis) /\ s[axis] \in Int
    BY <2>2, <1>1, <1>2
  <2>4. QED
    BY <2>1, <2>3
<1>4. ASSUME pos \in [Axes -> Int], \A axis \in Axes : pos[axis] - x[axis] \in Shifts(axis)
      PROVE  pos \in Images(x)
  <2> DEFINE s == <<pos[1] - x[1], pos[2] - x[2], pos[3] - x[3]>>
  <2>1. s \in Shifts(1) \X Shifts(2) \X Shifts(3)
    BY <1>4, <1>2
  <2>2. \A axis \in Axes : s[axis] = pos[axis] - x[axis] /\ x[axis] + s[axis] = pos[axis]
    BY <1>4, <1>2
  <2>3. pos = [axis \in Axes |-> pos[axis]]
    BY <1>4
  <2>4. pos = [axis \in Axes |-> x[axis] + s[axis]]
    BY <2>2, <2>3, Zenon
  <2>5. QED
    BY <2>1, <2>4 DEF Images, Shifts
<1>5. QED
  BY <1>3, <1>4

\* A particle in the domain of a rank.
InDomain(r, pos, slack) ==
    \A axis \in Axes : Size[axis] # 1 => Offset(r, pos, axis) \in -slack .. L - 1 + slack

LEMMA OneDomain ==
  ASSUME NEW r \in Ranks, NEW axis \in Axes
  PROVE  GridPos(r)[axis] \in 0 .. Size[axis] - 1 /\ GridPos(r) \in [Axes -> Int]
         /\ (Size[axis] = 1 => GridPos(r)[axis] = 0)
BY GridPosIsCell, SizesPositive DEF GridCells

LEMMA NearIsTarget ==
  ASSUME NEW home \in Ranks, NEW tag, NEW own \in [Axes -> Int], InDomain(home, own, 0),
         NEW r \in Ranks, NEW pos \in Images(own), Within(r, pos, LayerWidth)
  PROVE  Target(r, home, PlanOf(home, Particle(tag, own), LayerWidth), Len(Route))
<1> DEFINE way == PlanOf(home, Particle(tag, own), LayerWidth)
<1>1. pos \in [Axes -> Int] /\ \A axis \in Axes : pos[axis] - own[axis] \in Shifts(axis)
  BY ImagesAre
<1> SUFFICES ASSUME NEW axis \in Axes, GridPos(r)[axis] # GridPos(home)[axis]
             PROVE  \E l \in 1 .. Len(Route) :
                        /\ Axis(Route[l]) = axis /\ Route[l] \in way
                        /\ GridPos(r)[axis] = GridPos(NeighborRank(home, Route[l]))[axis]
  BY DEF Target
<1>2. Size[axis] \in Nat \ {0, 1} /\ Box(axis) = Size[axis] * L /\ L \in Nat \ {0}
  BY OneDomain, Boxes
<1> DEFINE gh == GridPos(home)[axis]
           gr == GridPos(r)[axis]
           n == Size[axis]
           c == Offset(home, own, axis)
           e == IF pos[axis] - own[axis] = Box(axis) THEN 1
                ELSE IF pos[axis] - own[axis] = -Box(axis) THEN -1 ELSE 0
<1>3. gh \in 0 .. n - 1 /\ gr \in 0 .. n - 1
  BY OneDomain
<1>4. c \in 0 .. L - 1
  BY <1>2, <1>3 DEF InDomain
<1>5. e \in {-1, 0, 1} /\ pos[axis] = own[axis] + e * (n * L)
  <2>1. pos[axis] - own[axis] \in {-Box(axis), 0, Box(axis)}
    BY <1>1, <1>2 DEF Shifts
  <2>2. Box(axis) = n * L /\ n * L \in Int
    BY <1>2
  <2>3. n * L # - (n * L)
    BY <1>2
  <2>4. QED
    BY <2>1, <2>2, <2>3, <1>1
<1>6. c = own[axis] - gh * L /\ Offset(r, pos, axis) = pos[axis] - gr * L
  BY DEF Offset
<1>7. Offset(r, pos, axis) = c + (gh - gr + e * n) * L
  <2>1. (gh - gr + e * n) * L = gh * L - gr * L + e * (n * L)
    BY <1>2, <1>3, <1>5
  <2>2. gh * L \in Int /\ gr * L \in Int /\ e * (n * L) \in Int
    BY <1>2, <1>3, <1>5
  <2>3. QED
    BY <1>1, <1>5, <1>6, <2>1, <2>2
<1>8. c + (gh - gr + e * n) * L \in -LayerWidth .. L + LayerWidth - 1
  BY <1>7, <1>2 DEF Within
<1>9. LayerWidth \in 1 .. L /\ 2 * LayerWidth < L
  BY LayerAssumption
<1>10. \/ c >= L - LayerWidth /\ gr = Around(gh + 1, n)
       \/ c < LayerWidth /\ gr = Around(gh + (-1), n)
  <2> HIDE DEF gh, gr, n, c, e
  <2>1. gr # gh
    BY DEF gr, gh
  <2>2. n \in Nat \ {0, 1}
    BY <1>2 DEF n
  <2>3. QED
    BY <1>2, <1>3, <1>4, <1>5, <1>8, <1>9, <2>1, <2>2, WhichDomain
<1>11. ASSUME NEW f \in Directions, Axis(f) = axis, NearFace(home, own, f, LayerWidth),
              gr = Around(gh + Forward(f), n)
       PROVE  \E l \in 1 .. Len(Route) :
                        /\ Axis(Route[l]) = axis /\ Route[l] \in way
                        /\ GridPos(r)[axis] = GridPos(NeighborRank(home, Route[l]))[axis]
  <2>1. IsCommunicating(f)
    BY <1>2, <1>11 DEF IsCommunicating
  <2>2. PICK l \in DOMAIN Route : Route[l] = f
    BY <2>1, RouteShape
  <2>3. l \in 1 .. Len(Route) /\ f \in Communicating
    BY <2>2, RouteShape, RouteDirections
  <2>4. f \in way
    BY <2>3, <1>11 DEF PlanOf, Particle
  <2>5. GridPos(NeighborRank(home, f))[axis] = gr
    <3>1. GridPos(NeighborRank(home, f)) =
            [GridPos(home) EXCEPT ![axis] = Around(@ + Forward(f), n)]
      BY <1>11, NeighborIs
    <3>2. QED
      BY <3>1, <1>11, OneDomain
  <2>6. QED
    BY <2>2, <2>3, <2>4, <2>5, <1>11
<1>12. \E f, b \in Directions : /\ Axis(f) = axis /\ Forward(f) = 1
                                /\ Axis(b) = axis /\ Forward(b) = -1
  <2>1. CASE axis = 1
    <3>1. 0 \in Directions /\ 1 \in Directions /\ Axis(0) = 1 /\ Axis(1) = 1 /\ Forward(0) = 1 /\ Forward(1) = -1
      BY DEF Directions, Axis, Forward
    <3>2. QED
      BY <2>1, <3>1
  <2>2. CASE axis = 2
    <3>1. 2 \in Directions /\ 3 \in Directions /\ Axis(2) = 2 /\ Axis(3) = 2 /\ Forward(2) = 1 /\ Forward(3) = -1
      BY DEF Directions, Axis, Forward
    <3>2. QED
      BY <2>2, <3>1
  <2>3. CASE axis = 3
    <3>1. 4 \in Directions /\ 5 \in Directions /\ Axis(4) = 3 /\ Axis(5) = 3 /\ Forward(4) = 1 /\ Forward(5) = -1
      BY DEF Directions, Axis, Forward
    <3>2. QED
      BY <2>3, <3>1
  <2>4. QED
    BY <2>1, <2>2, <2>3 DEF Axes
<1>13. PICK f, b \in Directions : /\ Axis(f) = axis /\ Forward(f) = 1
                                  /\ Axis(b) = axis /\ Forward(b) = -1
  BY <1>12
<1>14. CASE c >= L - LayerWidth /\ gr = Around(gh + 1, n)
  <2>1. NearFace(home, own, f, LayerWidth)
    BY <1>13, <1>14 DEF NearFace
  <2>2. gr = Around(gh + Forward(f), n)
    BY <1>13, <1>14
  <2> HIDE DEF gr, gh, n, way
  <2>3. QED
    BY <2>1, <2>2, <1>11, <1>13
<1>15. CASE c < LayerWidth /\ gr = Around(gh + (-1), n)
  <2>1. NearFace(home, own, b, LayerWidth)
    BY <1>13, <1>15 DEF NearFace
  <2>2. gr = Around(gh + Forward(b), n)
    BY <1>13, <1>15
  <2> HIDE DEF gr, gh, n, way
  <2>3. QED
    BY <2>1, <2>2, <1>11, <1>13
<1>16. QED
  BY <1>10, <1>14, <1>15

-----------------------------------------------------------------------------
(* Communicator: a list names everything that the rank has, when it makes    *)
(* the list, with the direction in its plan.                                 *)
ListsAll(r) ==
    moves = 0 =>
        \A k \in 1 .. Announced(r), tag \in Tags :
            Known(ptls[r], ghosts[r], tag, Total(numRecv[r], k)) /\ Route[k] \in Way[tag] =>
                \E j \in DOMAIN copyGhosts[r][Route[k]] : copyGhosts[r][Route[k]][j] = tag

LEMMA KnownIsThere ==
  ASSUME NEW a \in Seq(Located), NEW b \in Seq(Located), NEW tag, NEW count, Known(a, b, tag, count)
  PROVE  \E i \in DOMAIN (a \o b) : (a \o b)[i].tag = tag
<1> DEFINE ab == a \o b
<1>1. /\ \A i \in DOMAIN a : i \in DOMAIN ab /\ ab[i] = a[i]
      /\ \A i \in DOMAIN b : Len(a) + i \in DOMAIN ab /\ ab[Len(a) + i] = b[i]
  BY Joined
<1> HIDE DEF ab
<1>2. CASE \E i \in DOMAIN a : a[i].tag = tag
  BY <1>1, <1>2 DEF ab
<1>3. CASE \E i \in DOMAIN b : b[i].tag = tag
  <2>1. PICK i \in DOMAIN b : b[i].tag = tag
    BY <1>3
  <2>2. QED
    BY <1>1, <2>1 DEF ab
<1>4. QED
  BY <1>2, <1>3 DEF Known

LEMMA ExchangeListsAll ==
  ASSUME RoundOrder, Owned, CopyLists, CopyPlaces, \A s \in Ranks : ListsAll(s),
         NEW r \in Ranks, NEW new, NEW plans, ExchangeStep(r, new, plans), TrueArrivals(r, new, plans)
  PROVE  \A s \in Ranks : ListsAll(s)'
<1>1. moves = 0 /\ UNCHANGED <<ptls, moves>> /\ Way' = Way
  BY SamePlaces DEF ExchangeStep
<1>2. /\ \A s \in Ranks : \A l \in 1 .. Announced(s) : copyGhosts'[s][Route[l]] = copyGhosts[s][Route[l]]
      /\ \A s \in Ranks : \A l \in 1 .. Announced(s) : Total(numRecv'[s], l) = Total(numRecv[s], l)
      /\ \A s \in Ranks : \A i \in DOMAIN ghosts[s] :
               i \in DOMAIN ghosts'[s] /\ ghosts'[s][i] = ghosts[s][i]
      /\ ListTypes'
  BY ExchangeFrame DEF CopyLists
<1>3. /\ stage[r] \in 0 .. Len(Route) /\ Announced(r) = stage[r]
      /\ Announced(r)' = IF stage[r] = Len(Route) THEN stage[r] ELSE stage[r] + 1
      /\ \A s \in Ranks \ {r} : Announced(s)' = Announced(s)
      /\ Len(Route) \in Nat /\ DOMAIN Route = 1 .. Len(Route)
  BY ExchangeProgress, RouteShape
<1>4. ASSUME NEW s \in Ranks, NEW k \in 1 .. Announced(s), NEW tag \in Tags,
             Known(ptls[s], ghosts'[s], tag, Total(numRecv'[s], k)), Route[k] \in Way[tag]
      PROVE  \E j \in DOMAIN copyGhosts'[s][Route[k]] : copyGhosts'[s][Route[k]][j] = tag
  <2>1. /\ Announced(s) \in 0 .. Len(Route) /\ Exchanged(s) \in 0 .. Len(Route)
        /\ k \in 1 .. Exchanged(s) + 1 /\ Exchanged(s) + 1 \in 1 .. Len(Route) + 1
        /\ k \in 1 .. Len(Route) + 1
    BY ProgressIs, <1>1 DEF Exchanged, Announced
  <2>2. /\ numRecv[s] \in [Directions -> Nat] /\ Len(ghosts[s]) = Total(numRecv[s], Exchanged(s) + 1)
        /\ ghosts[s] \in Seq(Located) /\ ghosts'[s] \in Seq(Located)
    BY <1>2 DEF CopyLists, ListTypes, ListsOf
  <2>3. Total(numRecv[s], k) <= Len(ghosts[s]) /\ Total(numRecv[s], k) \in Nat
    <3>1. Total(numRecv[s], k) <= Total(numRecv[s], Exchanged(s) + 1)
      BY <2>1, <2>2, TotalGrows
    <3>2. QED
      BY <2>1, <2>2, <3>1, TotalIs
  <2>4. DOMAIN ghosts[s] = 1 .. Len(ghosts[s]) /\ DOMAIN ghosts'[s] = 1 .. Len(ghosts'[s])
        /\ Len(ghosts[s]) \in Nat /\ Len(ghosts'[s]) \in Nat
    BY <2>2, LenProperties
  <2>5. Known(ptls[s], ghosts[s], tag, Total(numRecv[s], k))
    <3>1. Total(numRecv'[s], k) = Total(numRecv[s], k)
      BY <1>2
    <3>2. \A i \in DOMAIN ghosts'[s] : i <= Total(numRecv[s], k) =>
              i \in DOMAIN ghosts[s] /\ ghosts'[s][i] = ghosts[s][i]
      BY <1>2, <2>3, <2>4
    <3>3. QED
      BY <1>4, <3>1, <3>2 DEF Known
  <2>6. QED
    BY <1>1, <1>2, <1>4, <2>5 DEF ListsAll
<1>5. ASSUME stage[r] # Len(Route), NEW k \in DOMAIN Route, k = stage[r] + 1, NEW tag \in Tags,
             Known(ptls[r], ghosts'[r], tag, Total(numRecv'[r], k)), Route[k] \in Way[tag]
      PROVE  \E j \in DOMAIN copyGhosts'[r][Route[k]] : copyGhosts'[r][Route[k]][j] = tag
  <2> DEFINE all == ptls[r] \o ghosts'[r]
             sent == SentIn(Route[k], Marked(all, plans))
  <2>1. SentKnown(sent, all, plans, Route[k]) /\ copyGhosts'[r][Route[k]] = TagList(sent)
    BY <1>5, ExchangeSends DEF Remembers
  <2>2. ptls[r] \in Seq(Located) /\ ghosts'[r] \in Seq(Located)
    BY <1>2 DEF Owned, ListTypes
  <2>3. \E i \in DOMAIN all : all[i].tag = tag
    BY <1>5, <2>2, KnownIsThere
  <2>4. PICK i \in DOMAIN all : all[i].tag = tag
    BY <2>3
  <2>5. DOMAIN plans = DOMAIN all
    <3>1. plans \in Seq(SUBSET Communicating) /\ Len(plans) = Len(ptls[r]) + Len(ghosts'[r])
      BY DEF ExchangeStep
    <3>2. DOMAIN all = 1 .. Len(ptls[r]) + Len(ghosts'[r])
      BY <2>2, Joined
    <3>3. QED
      BY <3>1, <3>2, LenProperties
  <2>6. plans[i] = Way[tag]
    BY <2>4, <2>5 DEF TrueArrivals, PlansAre
  <2> HIDE DEF all, sent
  <2>7. PICK j \in DOMAIN sent : sent[j].ptl = all[i]
    BY <2>1, <2>6, <1>5 DEF SentKnown
  <2>8. j \in DOMAIN TagList(sent) /\ TagList(sent)[j] = tag
    BY <2>4, <2>7 DEF TagList
  <2>9. QED
    BY <2>1, <2>8
<1>6. ASSUME NEW s \in Ranks, NEW k \in 1 .. Announced(s)', NEW tag \in Tags,
             Known(ptls[s], ghosts'[s], tag, Total(numRecv'[s], k)), Route[k] \in Way[tag]
      PROVE  \E j \in DOMAIN copyGhosts'[s][Route[k]] : copyGhosts'[s][Route[k]][j] = tag
  <2>1. CASE k \in 1 .. Announced(s)
    BY <1>4, <1>6, <2>1
  <2>2. CASE k \notin 1 .. Announced(s)
    <3>1. s = r /\ stage[r] # Len(Route) /\ k = stage[r] + 1 /\ k \in DOMAIN Route
      BY <1>3, <1>6, <2>2
    <3>2. QED
      BY <1>5, <1>6, <3>1
  <2>3. QED
    BY <2>1, <2>2
<1>7. QED
  BY <1>1, <1>6 DEF ListsAll

\* At the end of an exchange everything is where it is to come.
Delivered ==
    \A r \in Ranks, tag \in Tags :
        Target(r, Home[tag], Way[tag], Len(Route)) => tag \in TagsOf(Arrays(r))

LEMMA OwnIsThere ==
  ASSUME Owned, NEW tag \in Tags
  PROVE  Home[tag] \in Ranks /\ \E i \in DOMAIN ptls[Home[tag]] : ptls[Home[tag]][i].tag = tag
<1>1. Owner(tag) \in Ranks /\ \E i \in DOMAIN ptls[Owner(tag)] : ptls[Owner(tag)][i] = Own(tag)
  BY OwnPositionIs
<1>2. QED
  BY <1>1 DEF Home, Own, Particle

LEMMA CopiesDelivered ==
  ASSUME RoundOrder, Owned, CopyLists, \A s \in Ranks : ListsAll(s), moves = 0, AllCurrent
  PROVE  Delivered
<1> SUFFICES ASSUME NEW r0 \in Ranks, NEW tag \in Tags,
                    Target(r0, Home[tag], Way[tag], Len(Route))
             PROVE  tag \in TagsOf(Arrays(r0))
  BY DEF Delivered
<1>1. Len(Route) \in Nat /\ DOMAIN Route = 1 .. Len(Route)
  BY RouteShape
<1>2. \A s \in Ranks : Exchanged(s) = Len(Route) /\ Announced(s) = Len(Route)
  BY SettledIs DEF Settled
<1>3. /\ \A s \in Ranks : numRecv[s] \in [Directions -> Nat]
      /\ \A s \in Ranks : ptls[s] \in Seq(Located) /\ ghosts[s] \in Seq(Located)
      /\ copyGhosts \in [Ranks -> [Directions -> Seq(Tags)]]
  BY DEF CopyLists, ListTypes, Owned
<1> DEFINE Has(k) == \A r \in Ranks : Target(r, Home[tag], Way[tag], k) =>
                         Known(ptls[r], ghosts[r], tag, Total(numRecv[r], k + 1))
           S == { k \in 0 .. Len(Route) : Has(k) }
<1>4. 0 \in S
  <2>1. ASSUME NEW r \in Ranks, Target(r, Home[tag], Way[tag], 0)
        PROVE  Known(ptls[r], ghosts[r], tag, Total(numRecv[r], 0 + 1))
    <3>1. r = Home[tag]
      BY <2>1, OwnIsThere, TargetFirst
    <3>2. QED
      BY <3>1, OwnIsThere DEF Known
  <2>2. QED
    BY <2>1, <1>1
<1>5. ASSUME NEW k \in DOMAIN Route, Has(k - 1)
      PROVE  Has(k)
  <2> SUFFICES ASSUME NEW r \in Ranks, Target(r, Home[tag], Way[tag], k)
               PROVE  Known(ptls[r], ghosts[r], tag, Total(numRecv[r], k + 1))
    OBVIOUS
  <2>1. \/ Target(r, Home[tag], Way[tag], k - 1)
        \/ Route[k] \in Way[tag] /\ Target(Src(r, k), Home[tag], Way[tag], k - 1)
    BY WayIs, TargetNext
  <2>2. /\ k \in 1 .. Len(Route) + 1 /\ k + 1 \in 1 .. Len(Route) + 1 /\ k - 1 + 1 = k /\ k <= k + 1
        /\ Src(r, k) \in Ranks /\ Route[k] \in Directions
    BY <1>1, SrcIs
  <2>3. /\ Total(numRecv[r], k) <= Total(numRecv[r], k + 1)
        /\ Total(numRecv[r], k + 1) = Total(numRecv[r], k) + numRecv[r][Route[k]]
        /\ Total(numRecv[r], k) \in Nat /\ Total(numRecv[r], k + 1) \in Nat
    BY <1>3, <2>2, TotalGrows, TotalNext, TotalIs
  <2>4. CASE Target(r, Home[tag], Way[tag], k - 1)
    <3>1. Known(ptls[r], ghosts[r], tag, Total(numRecv[r], k))
      BY <1>5, <2>2, <2>4
    <3>2. DOMAIN ghosts[r] \subseteq Int
      BY <1>3, LenProperties
    <3>3. QED
      BY <2>3, <3>1, <3>2 DEF Known
  <2>5. CASE Route[k] \in Way[tag] /\ Target(Src(r, k), Home[tag], Way[tag], k - 1)
    <3> DEFINE s == Src(r, k)
    <3>1. Known(ptls[s], ghosts[s], tag, Total(numRecv[s], k))
      BY <1>5, <2>2, <2>5
    <3>2. k \in 1 .. Announced(s)
      BY <1>1, <1>2, <2>2
    <3>3. PICK j \in DOMAIN copyGhosts[s][Route[k]] : copyGhosts[s][Route[k]][j] = tag
      BY <2>2, <2>5, <3>1, <3>2 DEF ListsAll
    <3>4. FromList(r, k)
      BY <1>1, <1>2 DEF CopyLists, ListsOf
    <3>5. /\ numRecv[r][Route[k]] = Len(copyGhosts[s][Route[k]])
          /\ Total(numRecv[r], k) + j \in DOMAIN ghosts[r]
          /\ ghosts[r][Total(numRecv[r], k) + j].tag = tag
      BY <3>3, <3>4 DEF FromList
    <3>6. copyGhosts[s][Route[k]] \in Seq(Tags)
      BY <1>3, <2>2
    <3>7. j \in Nat /\ j <= numRecv[r][Route[k]]
      BY <3>3, <3>5, <3>6, LenProperties
    <3>8. QED
      BY <2>3, <3>5, <3>7 DEF Known
  <2>6. QED
    BY <2>1, <2>4, <2>5
<1> HIDE DEF Has
<1>6. \A k \in DOMAIN Route : k - 1 \in S => k \in S
  BY <1>1, <1>5
<1>7. Len(Route) \in S
  <2> HIDE DEF S
  <2>1. QED
    BY <1>4, <1>6, RouteInduction
<1>8. Known(ptls[r0], ghosts[r0], tag, Total(numRecv[r0], Len(Route) + 1))
  BY <1>7 DEF Has
<1>9. QED
  <2>1. ptls[r0] \in Seq(Located) /\ ghosts[r0] \in Seq(Located)
    BY <1>3
  <2>2. QED
    <3> DEFINE count == Total(numRecv[r0], Len(Route) + 1)
               a == ptls[r0]
               b == ghosts[r0]
    <3>0. Known(a, b, tag, count) /\ a \in Seq(Located) /\ b \in Seq(Located)
      BY <1>8, <2>1
    <3>1. \E i \in DOMAIN Arrays(r0) : Arrays(r0)[i].tag = tag
      <4> HIDE DEF count, a, b
      <4>1. \E i \in DOMAIN (a \o b) : (a \o b)[i].tag = tag
        BY <3>0, KnownIsThere
      <4>2. QED
        BY <4>1 DEF Arrays, a, b
    <3>2. QED
      BY <3>1 DEF TagsOf

-----------------------------------------------------------------------------
(* CommunicatorGPU: everything with a plan is in the buffers from the start, *)
(* and what is sent on keeps the later directions.                           *)
IndexesAll(index, list, way) ==
    \A i \in DOMAIN list : way[list[i].tag] # {} =>
        \E n \in DOMAIN index : index[n].idx = i /\ index[n].plan = way[list[i].tag]
AllBound(r) ==
    communicator = "GPU" /\ moves = 0 /\ phase[r] \in {"exchangeGPU", "current"} =>
        IndexesAll(ghostIdx[r], ptls[r], Way)

LEMMA StepKeepsBound ==
  ASSUME RoundOrder, Owned, NEW r \in Ranks, Step(r), communicator = "GPU",
         ghostIdx \in [Ranks -> Seq(Index)], \A s \in Ranks : AllBound(s)
  PROVE  \A s \in Ranks : AllBound(s)'
<1>1. /\ UNCHANGED <<ptls, moves, communicator>> /\ GoesOn(r) /\ (SendsNext(r) \/ EndsRound(r))
      /\ Way' = Way
  BY StepShape, SamePlaces
<1>2. phase \in [Ranks -> {Beginning, Working, "current"}]
  BY DEF RoundOrder
<1>3. /\ \A s \in Ranks \ {r} : phase'[s] = phase[s]
      /\ phase[r] \in {Beginning, Working}
  BY <1>1, <1>2 DEF SendsNext, EndsRound, GoesOn
<1>4. CASE BeginExchangeGPU(r, LayerWidth)
  <2>1. PICK bound \in SetToSeqs(BoundParticles(r)) : ghostIdx' = [ghostIdx EXCEPT ![r] = bound]
    BY <1>4 DEF BeginExchangeGPU, BoundParticles, PlanFor
  <2>2. /\ \A n \in DOMAIN bound : bound[n].plan = PlanFor(r, bound[n].idx)
        /\ \A i \in DOMAIN ptls[r] : PlanFor(r, i) # {} => \E n \in DOMAIN bound : bound[n].idx = i
    BY BoundIsIndex
  <2>3. \A i \in DOMAIN ptls[r] : PlanFor(r, i) = Way[ptls[r][i].tag]
    BY PlanForIs
  <2>4. ghostIdx'[r] = bound /\ \A s \in Ranks \ {r} : ghostIdx'[s] = ghostIdx[s]
    BY <2>1
  <2>5. IndexesAll(bound, ptls[r], Way)
    BY <2>2, <2>3 DEF IndexesAll
  <2>6. \A s \in Ranks \ {r} : AllBound(s)'
    BY <1>1, <1>3, <2>4 DEF AllBound
  <2>7. AllBound(r)'
    BY <1>1, <2>4, <2>5 DEF AllBound
  <2>8. QED
    BY <2>6, <2>7
<1>5. CASE ~ BeginExchangeGPU(r, LayerWidth)
  <2>1. UNCHANGED ghostIdx
    BY <1>5 DEF Step, GhostStepGPU, ReceiveGhostsGPU, BeginUpdateGPU, ReceivePositionsGPU
  <2>2. moves = 0 => phase[r] = "exchangeGPU"
    <3>1. ReceiveGhostsGPU(r, LayerWidth) \/ BeginUpdateGPU(r) \/ ReceivePositionsGPU(r, LayerWidth)
      BY <1>5 DEF Step, GhostStepGPU
    <3>2. phase[r] # "current"
      BY <1>3, KindIs DEF RoundOrder
    <3>3. QED
      BY <3>1, <3>2, RoundOf DEF ReceiveGhostsGPU, BeginUpdateGPU, ReceivePositionsGPU
  <2>3. QED
    BY <1>1, <1>3, <2>1, <2>2 DEF AllBound
<1>6. QED
  BY <1>4, <1>5

LEMMA UnpackPlaces ==
  ASSUME NEW to \in {Local} \cup Faces \cup Edges
  PROVE  to \in Range(UnpackOrder)
<1> DEFINE own == <<Local>>
           first == own \o FaceList
<1>1. own \in Seq(SUBSET Int) /\ EdgeList \in Seq(SUBSET Int) /\ FaceList \in Seq(SUBSET Int)
  BY DEF EdgeList, FaceList, Local
<1>2. first \in Seq(SUBSET Int) /\ UnpackOrder = first \o EdgeList
  BY <1>1, Joined DEF UnpackOrder
<1>3. IsJoined(own, FaceList, first)
  BY <1>1, JoinedLists
<1>4. 1 \in DOMAIN own /\ own[1] = Local
  OBVIOUS
<1> HIDE DEF own
<1> HIDE DEF first
<1>5. IsJoined(first, EdgeList, UnpackOrder)
  BY <1>1, <1>2, JoinedLists
<1>6. \E k \in DOMAIN UnpackOrder : UnpackOrder[k] = to
  <2>1. CASE to = Local
    BY <1>3, <1>4, <1>5, <2>1 DEF IsJoined
  <2>2. CASE to \in Faces
    <3>1. \E k \in DOMAIN FaceList : FaceList[k] = to
      BY <2>2 DEF FaceList, Faces, Directions
    <3>2. QED
      BY <1>3, <1>5, <3>1 DEF IsJoined
  <2>3. CASE to \in Edges
    <3>1. \E k \in DOMAIN EdgeList : EdgeList[k] = to
      <4>1. ASSUME NEW x \in {0, 1}, NEW y \in {2, 3, 4, 5}, to = {x, y}
            PROVE  \E k \in DOMAIN EdgeList : EdgeList[k] = to
        BY <4>1 DEF EdgeList
      <4>2. ASSUME NEW y \in {2, 3}, NEW z \in {4, 5}, to = {y, z}
            PROVE  \E k \in DOMAIN EdgeList : EdgeList[k] = to
        BY <4>2 DEF EdgeList
      <4>3. QED
        BY <2>3, <4>1, <4>2 DEF Edges
    <3>2. QED
      BY <1>5, <3>1 DEF IsJoined
  <2>4. QED
    BY <2>1, <2>2, <2>3
<1>7. QED
  BY <1>6 DEF Range

\* What is left of a plan is not a corner: there is a place to unpack it from.
LEMMA NoCornerLeft ==
  ASSUME NEW plan0 \in AllPlans, NEW dir \in plan0,
         NEW rest \in AllPlans \cup {Local}, rest = {f \in plan0 : f > dir}
  PROVE  rest \in Range(UnpackOrder)
<1>1. rest \notin Corners
  <2> SUFFICES ASSUME rest \in Corners PROVE FALSE
    OBVIOUS
  <2>1. PICK x \in {0, 1}, y \in {2, 3}, z \in {4, 5} : rest = {x, y, z}
    BY CornerForm
  <2>2. /\ plan0 \subseteq Directions
        /\ \A f, g \in plan0 : f \div 2 = g \div 2 => f = g
    BY OneFaceOfAnAxis
  <2>3. dir \in {0, 1, 2, 3, 4, 5} /\ x \in plan0 /\ y \in plan0 /\ z \in plan0 /\ x > dir /\ y > dir /\ z > dir
    BY <2>1, <2>2 DEF Directions
  <2>4. 0 \div 2 = 1 \div 2
    OBVIOUS
  <2>5. dir = 0 /\ x = 1
    BY <2>3
  <2>6. QED
    BY <2>2, <2>3, <2>4, <2>5
<1>2. rest \in {Local} \cup Faces \cup Edges
  BY <1>1 DEF AllPlans
<1>3. QED
  BY <1>2, UnpackPlaces

\* A rank holds a particle and can send it in the directions after the k-th.
Carried(e, tag, way, k) ==
    e.tag = tag /\ \A l \in DOMAIN Route : l > k /\ Route[l] \in way => Route[l] \in e.plan
\* The particle is the rank's own, or will be unpacked.
Unpacks(r, i, e) ==
    \/ e.tag \in TagsOf(ptls[r])
    \/ i > Len(ghostIdx[r]) /\ e.plan \in Range(UnpackOrder)
Holds(r, list, tag, way, k) ==
    \E i \in DOMAIN list : Carried(list[i], tag, way, k) /\ Unpacks(r, i, list[i])

LEMMA HoldsOwn ==
  ASSUME Owned, NEW r \in Ranks, NEW index \in Seq(Index), NEW held, OwnHeld(index, ptls[r], held),
         held \in Seq(Held), \A n \in DOMAIN index : index[n].idx \in DOMAIN ptls[r],
         IndexesAll(index, ptls[r], Way), NEW tag \in Tags, Home[tag] = r, Way[tag] # {}
  PROVE  Holds(r, held, tag, Way[tag], 0)
<1>1. PICK i \in DOMAIN ptls[r] : ptls[r][i].tag = tag
  BY OwnIsThere
<1>2. PICK n \in DOMAIN index : index[n].idx = i /\ index[n].plan = Way[tag]
  <2>1. Way[ptls[r][i].tag] = Way[tag]
    BY <1>1
  <2>2. \E n \in DOMAIN index : index[n].idx = i /\ index[n].plan = Way[ptls[r][i].tag]
    BY <1>1, <2>1 DEF IndexesAll
  <2>3. QED
    BY <2>1, <2>2
<1>3. n \in DOMAIN held
  BY LenProperties DEF OwnHeld
<1>4. held[n].plan = Way[tag] /\ held[n].tag = tag
  BY <1>1, <1>2 DEF OwnHeld
<1>5. Carried(held[n], tag, Way[tag], 0)
  BY <1>4 DEF Carried
<1>6. held[n].tag \in TagsOf(ptls[r])
  BY <1>1, <1>4 DEF TagsOf
<1>7. QED
  BY <1>3, <1>5, <1>6 DEF Holds, Unpacks

\* What a rank has held, it holds when more has come.
LEMMA HoldsLonger ==
  ASSUME NEW r \in Ranks, NEW a \in Seq(Held), NEW b \in Seq(Held), NEW tag, NEW way,
         NEW k \in DOMAIN Route, Holds(r, a, tag, way, k - 1)
  PROVE  Holds(r, a \o b, tag, way, k)
<1>1. PICK i \in DOMAIN a : Carried(a[i], tag, way, k - 1) /\ Unpacks(r, i, a[i])
  BY DEF Holds
<1>2. IsJoined(a, b, a \o b)
  BY JoinedLists
<1> DEFINE ab == a \o b
<1> HIDE DEF ab
<1>3. i \in DOMAIN ab /\ ab[i] = a[i]
  BY <1>2 DEF IsJoined, ab
<1>4. Carried(a[i], tag, way, k)
  <2>1. DOMAIN Route \subseteq Int
    BY RouteShape
  <2>2. \A l \in DOMAIN Route : l > k => l > k - 1
    BY <2>1
  <2>3. QED
    BY <1>1, <2>2 DEF Carried
<1>5. Holds(r, ab, tag, way, k)
  BY <1>1, <1>3, <1>4 DEF Holds
<1>6. QED
  BY <1>5 DEF ab

\* What the neighbour has held, it sends in the direction of the plan.
LEMMA HoldsSent ==
  ASSUME NEW r \in Ranks, NEW s, NEW a \in Seq(Held), NEW b \in Seq(Held), NEW tag, NEW way,
         NEW k \in DOMAIN Route, Route[k] \in way, Holds(s, b, tag, way, k - 1),
         Len(ghostIdx[r]) \in Nat, Len(a) >= Len(ghostIdx[r])
  PROVE  Holds(r, a \o Forwarded(Route[k], b), tag, way, k)
<1> DEFINE dir == Route[k]
           sent == Forwarded(dir, b)
           ab == a \o sent
           P(j) == FromPlace(dir, Sizes(b), j)
<1>1. k \in 1 .. Len(Route) /\ Len(Route) \in Nat /\ dir \in Directions
      /\ DOMAIN Route = 1 .. Len(Route)
      /\ \A l \in DOMAIN Route : l > k => Route[l] > dir
  BY RouteShape
<1>2. SentOf(b, dir, sent)
  BY <1>1, HeldForwarded
<1>3. PICK i \in DOMAIN b : Carried(b[i], tag, way, k - 1)
  BY DEF Holds
<1>4. b[i].tag = tag /\ dir \in b[i].plan
  BY <1>1, <1>3 DEF Carried
<1> HIDE DEF dir, sent, P
<1>5. PICK j \in DOMAIN sent : P(j) = i
  BY <1>2, <1>4 DEF SentOf, P
<1>6. /\ sent \in Seq(Held) /\ sent[j].tag = tag /\ sent[j].plan = {f \in b[i].plan : f > dir}
  BY <1>2, <1>4, <1>5 DEF SentOf, P
<1>7. b[i] \in Held /\ sent[j] \in Held
  BY <1>3, <1>5, <1>6, LenProperties, ElementOfSeq
<1>8. sent[j].plan \in Range(UnpackOrder)
  <2>1. b[i].plan \in AllPlans
    BY <1>4, <1>7 DEF Held, Local
  <2>2. sent[j].plan \in AllPlans \cup {Local}
    BY <1>7 DEF Held
  <2>3. QED
    BY <1>4, <1>6, <2>1, <2>2, NoCornerLeft
<1>9. Carried(sent[j], tag, way, k)
  <2>1. ASSUME NEW l \in DOMAIN Route, l > k, Route[l] \in way
        PROVE  Route[l] \in sent[j].plan
    <3>1. Route[l] \in b[i].plan
      BY <1>1, <1>3, <2>1 DEF Carried
    <3>2. QED
      BY <1>1, <1>6, <2>1, <3>1
  <2>2. QED
    BY <1>6, <2>1 DEF Carried
<1>10. IsJoined(a, sent, ab)
  BY <1>6, JoinedLists
<1> HIDE DEF ab
<1>11. /\ Len(a) + j \in DOMAIN ab /\ ab[Len(a) + j] = sent[j] /\ Len(a) \in Nat
       /\ j \in Nat \ {0}
  BY <1>6, <1>10, LenProperties DEF IsJoined
<1>12. Len(a) + j > Len(ghostIdx[r])
  BY <1>11
<1>13. Unpacks(r, Len(a) + j, ab[Len(a) + j])
  BY <1>8, <1>11, <1>12 DEF Unpacks
<1>14. Holds(r, ab, tag, way, k)
  BY <1>9, <1>11, <1>13 DEF Holds
<1>15. QED
  BY <1>14 DEF ab, sent, dir

LEMMA BuffersDelivered ==
  ASSUME RoundOrder, Owned, NEW H, BufferInv(H), \A s \in Ranks : AllBound(s),
         communicator = "GPU", moves = 0, AllCurrent
  PROVE  Delivered
<1> SUFFICES ASSUME NEW r0 \in Ranks, NEW tag \in Tags,
                    Target(r0, Home[tag], Way[tag], Len(Route))
             PROVE  tag \in TagsOf(Arrays(r0))
  BY DEF Delivered
<1>1. Len(Route) \in Nat \ {0} /\ DOMAIN Route = 1 .. Len(Route)
  BY RouteShape
<1>2. \A s \in Ranks : phase[s] = "current" /\ Exchanged(s) = Len(Route) /\ Announced(s) = Len(Route)
  BY DEF AllCurrent, Exchanged, Announced
<1>3. /\ \A s \in Ranks : ptls[s] \in Seq(Located) /\ ghosts[s] \in Seq(Located)
      /\ \A s \in Ranks : ghostIdx[s] \in Seq(Index)
      /\ \A s \in Ranks : \A k \in 0 .. Len(Route) : H[<<s, k>>] \in Seq(Held)
      /\ \A s \in Ranks : IndexPlaces(s, H) /\ Received(s, H) /\ GhostPlaces(s, H)
  BY DEF BufferInv, BufferTypes, Owned, Histories
<1>4. ASSUME NEW s \in Ranks
      PROVE  /\ IndexesAll(ghostIdx[s], ptls[s], Way)
             /\ OwnHeld(ghostIdx[s], ptls[s], H[<<s, 0>>])
             /\ \A n \in DOMAIN ghostIdx[s] : ghostIdx[s][n].idx \in DOMAIN ptls[s]
  <2>1. AllBound(s) /\ phase[s] = "current"
    BY <1>2
  <2>2. IndexesAll(ghostIdx[s], ptls[s], Way)
    BY <2>1 DEF AllBound
  <2>3. IndexPlaces(s, H) /\ Announced(s) >= 1
    BY <1>1, <1>2, <1>3
  <2>4. QED
    BY <2>2, <2>3 DEF IndexPlaces
<1>5. ASSUME NEW s \in Ranks, NEW k \in DOMAIN Route
      PROVE  H[<<s, k>>] = H[<<s, k - 1>>] \o Forwarded(Route[k], H[<<Src(s, k), k - 1>>])
  <2>1. Received(s, H) /\ Exchanged(s) = Len(Route)
    BY <1>2, <1>3
  <2>2. H[<<s, k>>] = H[<<s, k - 1>>] \o Forwards(Src(s, k), k, H)
    BY <1>1, <2>1 DEF Received
  <2>3. QED
    BY <2>2 DEF Forwards
<1>6. CASE Way[tag] = {}
  <2>1. r0 = Home[tag]
    BY <1>6, TargetAlone, OwnIsThere
  <2>2. \E i \in DOMAIN ptls[r0] : ptls[r0][i].tag = tag
    BY <2>1, OwnIsThere
  <2>3. \E i \in DOMAIN Arrays(r0) : Arrays(r0)[i].tag = tag
    <3> DEFINE a == ptls[r0]
               b == ghosts[r0]
    <3>1. a \in Seq(Located) /\ b \in Seq(Located) /\ Known(a, b, tag, 0)
      BY <1>3, <2>2 DEF Known
    <3> HIDE DEF a, b
    <3>2. \E i \in DOMAIN (a \o b) : (a \o b)[i].tag = tag
      BY <3>1, KnownIsThere
    <3>3. QED
      BY <3>2 DEF a, b, Arrays
  <2>4. QED
    BY <2>3 DEF TagsOf
<1>7. CASE Way[tag] # {}
  <2> DEFINE Has(k) == \A r \in Ranks :
                 /\ Len(H[<<r, k>>]) >= Len(ghostIdx[r])
                 /\ Target(r, Home[tag], Way[tag], k) => Holds(r, H[<<r, k>>], tag, Way[tag], k)
             S == { k \in 0 .. Len(Route) : Has(k) }
  <2>1. \A s \in Ranks : Len(ghostIdx[s]) \in Nat
    BY <1>3, LenProperties
  <2>2. Has(0)
    <3>1. ASSUME NEW r \in Ranks PROVE Len(H[<<r, 0>>]) >= Len(ghostIdx[r])
      BY <1>4, <2>1 DEF OwnHeld
    <3>2. ASSUME NEW r \in Ranks, Target(r, Home[tag], Way[tag], 0)
          PROVE  Holds(r, H[<<r, 0>>], tag, Way[tag], 0)
      <4>1. r = Home[tag]
        BY <3>2, OwnIsThere, TargetFirst
      <4>2. H[<<r, 0>>] \in Seq(Held) /\ ghostIdx[r] \in Seq(Index)
        BY <1>1, <1>3
      <4> DEFINE held == H[<<r, 0>>]
                 index == ghostIdx[r]
      <4>3. /\ OwnHeld(index, ptls[r], held) /\ held \in Seq(Held) /\ index \in Seq(Index)
            /\ \A n \in DOMAIN index : index[n].idx \in DOMAIN ptls[r]
            /\ IndexesAll(index, ptls[r], Way)
        BY <1>4, <4>2
      <4> HIDE DEF held, index
      <4>4. Holds(r, held, tag, Way[tag], 0)
        BY <1>7, <4>1, <4>3, HoldsOwn
      <4>5. QED
        BY <4>4 DEF held
    <3>3. ASSUME NEW r \in Ranks
          PROVE  /\ Len(H[<<r, 0>>]) >= Len(ghostIdx[r])
                 /\ Target(r, Home[tag], Way[tag], 0) => Holds(r, H[<<r, 0>>], tag, Way[tag], 0)
      <4>1. Len(H[<<r, 0>>]) >= Len(ghostIdx[r])
        BY <3>1
      <4>2. Target(r, Home[tag], Way[tag], 0) => Holds(r, H[<<r, 0>>], tag, Way[tag], 0)
        BY <3>2
      <4>3. QED
        BY <4>1, <4>2
    <3>4. QED
      BY <3>3, Zenon
  <2>3. ASSUME NEW k \in DOMAIN Route, Has(k - 1)
        PROVE  Has(k)
    <3>1. ASSUME NEW r \in Ranks
          PROVE  /\ Len(H[<<r, k>>]) >= Len(ghostIdx[r])
                 /\ Target(r, Home[tag], Way[tag], k) => Holds(r, H[<<r, k>>], tag, Way[tag], k)
      <4> DEFINE s == Src(r, k)
                 a == H[<<r, k - 1>>]
                 b == H[<<s, k - 1>>]
                 c == Forwarded(Route[k], b)
      <4>1. s \in Ranks /\ k - 1 \in 0 .. Len(Route) /\ Route[k] \in Directions
        BY <1>1, SrcIs
      <4>2. a \in Seq(Held) /\ b \in Seq(Held) /\ H[<<r, k>>] = a \o c
        BY <1>3, <1>5, <4>1
      <4>3. Len(a) >= Len(ghostIdx[r]) /\ Len(ghostIdx[r]) \in Nat
        BY <2>1, <2>3
      <4>4. /\ Target(r, Home[tag], Way[tag], k - 1) => Holds(r, a, tag, Way[tag], k - 1)
            /\ Target(s, Home[tag], Way[tag], k - 1) => Holds(s, b, tag, Way[tag], k - 1)
        BY <2>3, <4>1
      <4> HIDE DEF Has, S
      <4>5. c \in Seq(Held)
        <5> HIDE DEF b, s
        <5>1. QED
          BY <4>1, <4>2, HeldForwarded DEF SentOf
      <4>6. Len(a \o c) >= Len(ghostIdx[r])
        <5> HIDE DEF a, c
        <5>1. Len(a \o c) = Len(a) + Len(c) /\ Len(a) \in Nat /\ Len(c) \in Nat
          BY <4>2, <4>5, Joined
        <5>2. QED
          BY <4>3, <5>1
      <4>7. ASSUME Target(r, Home[tag], Way[tag], k)
            PROVE  Holds(r, a \o c, tag, Way[tag], k)
        <5>1. \/ Target(r, Home[tag], Way[tag], k - 1)
              \/ Route[k] \in Way[tag] /\ Target(s, Home[tag], Way[tag], k - 1)
          BY <4>7, WayIs, TargetNext
        <5>2. CASE Target(r, Home[tag], Way[tag], k - 1)
          <6> HIDE DEF a, c, s
          <6>1. QED
            BY <4>2, <4>4, <4>5, <5>2, HoldsLonger
        <5>3. CASE Route[k] \in Way[tag] /\ Target(s, Home[tag], Way[tag], k - 1)
          <6>1. Holds(s, b, tag, Way[tag], k - 1)
            BY <4>4, <5>3
          <6> HIDE DEF a, b, s
          <6>2. Holds(r, a \o Forwarded(Route[k], b), tag, Way[tag], k)
            BY <4>2, <4>3, <5>3, <6>1, HoldsSent
          <6>3. QED
            BY <6>2
        <5>4. QED
          BY <5>1, <5>2, <5>3
      <4>8. QED
        BY <4>2, <4>6, <4>7
    <3>2. QED
      BY <3>1
  <2> HIDE DEF Has
  <2>4. 0 \in S /\ \A k \in DOMAIN Route : k - 1 \in S => k \in S
    BY <1>1, <2>2, <2>3
  <2>5. Len(Route) \in S
    <3> HIDE DEF S
    <3>1. QED
      BY <2>4, RouteInduction
  <2> DEFINE held == H[<<r0, Len(Route)>>]
  <2>6. held \in Seq(Held) /\ Holds(r0, held, tag, Way[tag], Len(Route))
    <3>1. Has(Len(Route))
      BY <2>5
    <3>2. QED
      BY <1>1, <1>3, <3>1 DEF Has
  <2>7. SameTags(ghosts[r0], Unpacked(r0, held))
    BY <1>2, <1>3 DEF GhostPlaces
  <2> HIDE DEF held
  <2>8. PICK i \in DOMAIN held : held[i].tag = tag /\ Unpacks(r0, i, held[i])
    BY <2>6 DEF Holds, Carried
  <2>9. \/ \E j \in DOMAIN ptls[r0] : ptls[r0][j].tag = tag
        \/ \E j \in DOMAIN ghosts[r0] : ghosts[r0][j].tag = tag
    <3>1. CASE tag \in TagsOf(ptls[r0])
      BY <3>1 DEF TagsOf
    <3>2. CASE i > Len(ghostIdx[r0]) /\ held[i].plan \in Range(UnpackOrder)
      <4> DEFINE n == Len(ghostIdx[r0])
                 new == Unpacked(r0, held)
      <4>1. Sizes(held) \in PlanLists /\ DOMAIN Sizes(held) = DOMAIN held /\ Sizes(held)[i] = held[i].plan
        BY <2>6, <2>8, HeldIs
      <4>2. i \in Kept(n, Sizes(held))
        BY <2>8, <3>2, <4>1 DEF Kept
      <4>3. new \in Seq(Held) /\ UnpackedOf(held, n, new)
        BY <2>6, <4>1, UnpackedIs
      <4> HIDE DEF n, new
      <4>4. PICK j \in DOMAIN new : KeptPlace(n, Sizes(held), j) = i
        BY <4>2, <4>3 DEF UnpackedOf
      <4>5. new[j].tag = tag
        BY <2>8, <4>3, <4>4 DEF UnpackedOf
      <4>6. j \in DOMAIN ghosts[r0] /\ ghosts[r0][j].tag = new[j].tag
        <5>1. Len(ghosts[r0]) = Len(new) /\ \A m \in DOMAIN ghosts[r0] : ghosts[r0][m].tag = new[m].tag
          BY <2>7 DEF SameTags, new
        <5>2. DOMAIN ghosts[r0] = 1 .. Len(ghosts[r0]) /\ DOMAIN new = 1 .. Len(new)
          BY <1>3, <4>3, LenProperties
        <5>3. QED
          BY <4>4, <5>1, <5>2
      <4>7. QED
        BY <4>5, <4>6
    <3>3. QED
      BY <2>8, <3>1, <3>2 DEF Unpacks
  <2>10. \E i2 \in DOMAIN Arrays(r0) : Arrays(r0)[i2].tag = tag
    <3> DEFINE a == ptls[r0]
               b == ghosts[r0]
    <3>1. a \in Seq(Located) /\ b \in Seq(Located) /\ Known(a, b, tag, Len(b))
      <4>1. a \in Seq(Located) /\ b \in Seq(Located)
        BY <1>3
      <4>2. \A j \in DOMAIN b : j <= Len(b)
        BY <4>1, LenProperties
      <4>3. QED
        BY <2>9, <4>1, <4>2 DEF Known
    <3> HIDE DEF a, b
    <3>2. \E j \in DOMAIN (a \o b) : (a \o b)[j].tag = tag
      BY <3>1, KnownIsThere
    <3>3. QED
      BY <3>2 DEF a, b, Arrays
  <2>11. QED
    BY <2>10 DEF TagsOf
<1>8. QED
  BY <1>6, <1>7

-----------------------------------------------------------------------------
(* While the particles move, they are as far outside their domains as they  *)
(* have moved, and the layer that is complete is narrower by as much.       *)
ShortSteps == \A d \in Steps : \A axis \in Axes : d[axis] \in -1 .. 1
OwnNear == \A tag \in Tags : InDomain(Home[tag], OwnPosition[tag], moves)
NearBy(width) ==
    \A r \in Ranks, tag \in Tags : \A pos \in Images(OwnPosition[tag]) :
        Within(r, pos, width) => tag \in TagsOf(Arrays(r))
PresentNear == moves > 0 => NearBy(LayerWidth - moves)
LayerKept ==
    /\ communicator = "CPU" => \A s \in Ranks : ListsAll(s)
    /\ \A s \in Ranks : AllBound(s)
    /\ OwnNear /\ PresentNear
LayerInv == GhostInv /\ LayerKept

\* What the arrays are in the next state.
LEMMA ArraysAlways ==
  GhostInv' => (\A r \in Ranks : ptls[r] \in Seq(Located) /\ ghosts[r] \in Seq(Located))'
<1>1. GhostInv => \A r \in Ranks : ptls[r] \in Seq(Located) /\ ghosts[r] \in Seq(Located)
  BY ArraysAre
<1>2. QED
  BY <1>1, PTL

LEMMA FreshNear ==
  RoundOrder /\ Fresh => LayerKept
<1> SUFFICES ASSUME RoundOrder, Fresh PROVE LayerKept
  OBVIOUS
<1>1. Owned /\ moves = 0 /\ phase = [r \in Ranks |-> "migrated"] /\ stage = [r \in Ranks |-> 0]
  BY FreshPlaces DEF Fresh
<1>2. PICK position \in [Tags -> [Axes -> Int]] : ptls = [r \in Ranks |-> HomeList(r, position)]
  BY DEF Fresh
<1>3. ASSUME NEW s \in Ranks
      PROVE  ListsAll(s) /\ AllBound(s)
  <2>1. phase[s] = "migrated" /\ Announced(s) = 0
    BY <1>1, <1>3 DEF Announced
  <2>2. 1 .. Announced(s) = {}
    BY <2>1
  <2>3. QED
    BY <2>1, <2>2 DEF ListsAll, AllBound
<1>4. ASSUME NEW tag \in Tags
      PROVE  InDomain(Home[tag], OwnPosition[tag], moves)
  <2>1. PICK r \in Ranks : r = Owner(tag) /\ \E i \in DOMAIN ptls[r] : ptls[r][i] = Own(tag)
    BY <1>1, <1>4, OwnPositionIs
  <2>2. PICK i \in DOMAIN HomeList(r, position) : HomeList(r, position)[i] = Own(tag)
    BY <1>2, <2>1
  <2>3. Own(tag).tag = tag /\ Own(tag).pos = OwnPosition[tag] /\ position[tag] \in [Axes -> Int]
    BY <1>4 DEF Own, Particle
  <2>4. HomeOf(position[tag]) = r /\ OwnPosition[tag] = InBox(position[tag])
    BY <2>2, <2>3, HomeListIs
  <2> DEFINE p == position[tag]
  <2>5. GridPos(r) = [axis \in Axes |-> (p[axis] % Box(axis)) \div L]
    BY <2>3, <2>4, HomeIs
  <2>6. ASSUME NEW axis \in Axes
        PROVE  Offset(r, OwnPosition[tag], axis) \in 0 .. L - 1
    <3> DEFINE x == p[axis] % Box(axis)
    <3>1. OwnPosition[tag][axis] = x /\ GridPos(r)[axis] = x \div L
      BY <2>4, <2>5, <2>6 DEF InBox
    <3>2. x \in Int
      BY <2>3, <2>6, Boxes, Remainder
    <3> HIDE DEF x
    <3>3. x % L \in 0 .. L - 1 /\ x \div L \in Int /\ x = (x \div L) * L + (x % L)
      BY <3>2, <2>6, Boxes, Remainder
    <3>4. QED
      BY <3>1, <3>2, <3>3, Boxes DEF Offset
  <2>7. Home[tag] = r /\ moves = 0
    BY <1>1, <1>4, <2>1 DEF Home
  <2>8. QED
    BY <2>6, <2>7, Boxes DEF InDomain
<1>5. QED
  BY <1>1, <1>3, <1>4 DEF LayerKept, OwnNear, PresentNear

LEMMA FreshNearNext ==
  RoundOrder' /\ Fresh' => LayerKept'
BY FreshNear, PTL

\* After a round everything within the layer is there.
LEMMA CurrentNear ==
  ASSUME LayerInv, AllCurrent
  PROVE  NearBy(LayerWidth - moves)
<1>1. RoundOrder /\ Owned /\ communicator \in {"CPU", "GPU"} /\ moves \in Nat
  BY DEF LayerInv, GhostInv, CopyInv, RoundOrder
<1>2. CASE moves > 0
  BY <1>2 DEF LayerInv, LayerKept, PresentNear
<1>3. CASE moves = 0
  <2>1. Delivered
    <3>1. CASE communicator = "CPU"
      BY <1>1, <1>3, <3>1, CopiesDelivered DEF LayerInv, LayerKept, GhostInv, CopyInv
    <3>2. CASE communicator = "GPU"
      <4>1. PICK H : BufferInv(H)
        BY <3>2 DEF LayerInv, GhostInv, BuffersInUse
      <4>2. QED
        BY <1>1, <1>3, <3>2, <4>1, BuffersDelivered DEF LayerInv, LayerKept
    <3>3. QED
      BY <1>1, <3>1, <3>2
  <2>2. ASSUME NEW r \in Ranks, NEW tag \in Tags, NEW pos \in Images(OwnPosition[tag]),
               Within(r, pos, LayerWidth)
        PROVE  tag \in TagsOf(Arrays(r))
    <3>1. OwnPosition[tag] \in [Axes -> Int] /\ Home[tag] \in Ranks
      BY <1>1, OwnPositionIs, WayIs
    <3>2. InDomain(Home[tag], OwnPosition[tag], 0)
      BY <1>3 DEF LayerInv, LayerKept, OwnNear
    <3>3. Way[tag] = PlanOf(Home[tag], Particle(tag, OwnPosition[tag]), LayerWidth)
      BY DEF Way, Home, Own
    <3> DEFINE own == OwnPosition[tag]
               home == Home[tag]
    <3> HIDE DEF own, home
    <3>4. Target(r, home, PlanOf(home, Particle(tag, own), LayerWidth), Len(Route))
      BY <2>2, <3>1, <3>2, NearIsTarget DEF own, home
    <3>5. Target(r, Home[tag], Way[tag], Len(Route))
      BY <3>3, <3>4 DEF own, home
    <3>6. QED
      BY <2>1, <3>5 DEF Delivered
  <2>3. LayerWidth - moves = LayerWidth
    BY <1>3, LayerAssumption
  <2>4. QED
    BY <2>2, <2>3 DEF NearBy
<1>4. QED
  BY <1>1, <1>2, <1>3

\* The lists are not made anew while the particles move.
LEMMA ListsMoved ==
  ASSUME moves' \in Nat, moves' > 0
  PROVE  \A s \in Ranks : ListsAll(s)' /\ AllBound(s)'
<1>1. moves' # 0
  OBVIOUS
<1>2. QED
  BY <1>1 DEF ListsAll, AllBound

\* The same tags in the arrays, whatever the places.
LEMMA SameTagsKnown ==
  ASSUME NEW a \in Seq(Located), NEW b \in Seq(Located), NEW a2 \in Seq(Located), NEW b2 \in Seq(Located),
         TagsOf(a) = TagsOf(a2), TagsOf(b) = TagsOf(b2)
  PROVE  TagsOf(a \o b) = TagsOf(a2 \o b2)
<1>1. ASSUME NEW x \in Seq(Located), NEW y \in Seq(Located)
      PROVE  TagsOf(x \o y) = TagsOf(x) \cup TagsOf(y)
  <2> DEFINE xy == x \o y
  <2>1. IsJoined(x, y, xy)
    BY <1>1, JoinedLists
  <2> HIDE DEF xy
  <2>2. ASSUME NEW tag
        PROVE  (\E k \in DOMAIN xy : xy[k].tag = tag) <=>
                   (\E i \in DOMAIN x : x[i].tag = tag) \/ (\E j \in DOMAIN y : y[j].tag = tag)
    <3>1. ASSUME NEW k \in DOMAIN xy, xy[k].tag = tag
          PROVE  (\E i \in DOMAIN x : x[i].tag = tag) \/ (\E j \in DOMAIN y : y[j].tag = tag)
      BY <2>1, <3>1 DEF IsJoined
    <3>2. ASSUME NEW i \in DOMAIN x, x[i].tag = tag
          PROVE  \E k \in DOMAIN xy : xy[k].tag = tag
      BY <2>1, <3>2 DEF IsJoined
    <3>3. ASSUME NEW j \in DOMAIN y, y[j].tag = tag
          PROVE  \E k \in DOMAIN xy : xy[k].tag = tag
      BY <2>1, <3>3 DEF IsJoined
    <3>4. QED
      BY <3>1, <3>2, <3>3
  <2>3. TagsOf(xy) = TagsOf(x) \cup TagsOf(y)
    BY <2>2 DEF TagsOf
  <2>4. QED
    BY <2>3 DEF xy
<1>2. TagsOf(a \o b) = TagsOf(a) \cup TagsOf(b)
  BY <1>1
<1>3. TagsOf(a2 \o b2) = TagsOf(a2) \cup TagsOf(b2)
  BY <1>1
<1>4. QED
  BY <1>2, <1>3

LEMMA MoveNear ==
  ASSUME ShortSteps, LayerInv, MoveAndUpdate, GhostInv'
  PROVE  LayerKept'
<1>1. RoundOrder /\ Owned /\ moves \in Nat /\ communicator \in {"CPU", "GPU"}
  BY DEF LayerInv, GhostInv, CopyInv, RoundOrder
<1>2. PICK d \in Steps :
        ptls' = [r \in Ranks |-> [i \in DOMAIN ptls[r] |-> Displaced(ptls[r][i], d)]]
  BY DEF MoveAndUpdate
<1>3. moves' = moves + 1 /\ ghosts' = ghosts /\ AllCurrent
  BY DEF MoveAndUpdate
<1>4. /\ Owned'
      /\ \A r \in Ranks : DOMAIN ptls'[r] = DOMAIN ptls[r] /\ Len(ptls'[r]) = Len(ptls[r])
      /\ \A r \in Ranks : \A i \in DOMAIN ptls[r] : ptls'[r][i].tag = ptls[r][i].tag
  BY <1>1, <1>2, OwnedAfterMove
<1>5. d \in [Axes -> Int] /\ \A axis \in Axes : d[axis] \in -1 .. 1
  BY LayerAssumption DEF ShortSteps
<1>6. ASSUME NEW tag \in Tags
      PROVE  /\ Home'[tag] = Home[tag] /\ Home[tag] \in Ranks /\ OwnPosition[tag] \in [Axes -> Int]
             /\ OwnPosition'[tag] = [axis \in Axes |-> OwnPosition[tag][axis] + d[axis]]
  <2>1. PICK r \in Ranks : \E i \in DOMAIN ptls[r] : ptls[r][i].tag = tag
    BY <1>1, <1>6 DEF Owned
  <2>2. PICK i \in DOMAIN ptls[r] : ptls[r][i].tag = tag
    BY <2>1
  <2>3. Owner(tag) = r /\ OwnPosition[tag] = ptls[r][i].pos /\ ptls[r][i].pos \in [Axes -> Int]
    BY <1>1, <2>2, OwnerIs
  <2>4. ptls'[r][i].tag = tag /\ i \in DOMAIN ptls'[r]
    BY <1>4, <2>2
  <2>5. Owner(tag)' = r /\ OwnPosition'[tag] = ptls'[r][i].pos
    <3>1. (\A s \in Ranks : \A j \in DOMAIN ptls[s] :
             Owner(ptls[s][j].tag) = s /\ OwnPosition[ptls[s][j].tag] = ptls[s][j].pos)'
      BY <1>4, OwnerNext
    <3>2. QED
      BY <2>4, <3>1
  <2>6. ptls'[r][i] = Displaced(ptls[r][i], d)
    BY <1>2, <2>2
  <2>7. ptls'[r][i].pos = [axis \in Axes |-> ptls[r][i].pos[axis] + d[axis]]
    BY <2>6 DEF Displaced, Particle
  <2>8. QED
    BY <1>6, <2>3, <2>5, <2>7 DEF Home
<1>7. ASSUME NEW tag \in Tags
      PROVE  InDomain(Home[tag], OwnPosition[tag], moves)'
  <2> DEFINE x == OwnPosition[tag]
             y == OwnPosition'[tag]
             home == Home[tag]
  <2>1. InDomain(home, x, moves)
    BY <1>7 DEF LayerInv, LayerKept, OwnNear
  <2>2. x \in [Axes -> Int] /\ y = [axis \in Axes |-> x[axis] + d[axis]] /\ home \in Ranks
    BY <1>6, <1>7
  <2> HIDE DEF x, y, home
  <2>3. ASSUME NEW axis \in Axes, Size[axis] # 1
        PROVE  Offset(home, y, axis) \in -(moves + 1) .. L - 1 + (moves + 1)
    <3>1. Offset(home, x, axis) \in -moves .. L - 1 + moves
      BY <2>1, <2>3 DEF InDomain
    <3>2. /\ y[axis] = x[axis] + d[axis] /\ d[axis] \in -1 .. 1 /\ x[axis] \in Int
          /\ GridPos(home)[axis] \in Int
      BY <1>5, <2>2, <2>3, OneDomain
    <3>3. QED
      BY <1>1, <3>1, <3>2, Boxes DEF Offset
  <2>4. InDomain(home, y, moves + 1)
    BY <2>3 DEF InDomain
  <2>5. InDomain(Home'[tag], OwnPosition'[tag], moves')
    BY <1>3, <1>6, <1>7, <2>4 DEF y, home
  <2>6. QED
    BY <2>5 DEF InDomain, Offset
<1>8. ASSUME NEW r \in Ranks
      PROVE  TagsOf(Arrays(r)') = TagsOf(Arrays(r))
  <2> DEFINE a == ptls[r]
             b == ghosts[r]
             a2 == ptls'[r]
  <2>1. a \in Seq(Located) /\ b \in Seq(Located)
    BY <1>8, ArraysAre DEF LayerInv
  <2>2. a2 \in Seq(Located)
    BY <1>4, <1>8 DEF Owned
  <2>3. DOMAIN a2 = DOMAIN a /\ \A i \in DOMAIN a : a2[i].tag = a[i].tag
    BY <1>4, <1>8
  <2> HIDE DEF a, b, a2
  <2>4. TagsOf(a) = TagsOf(a2)
    BY <2>3 DEF TagsOf
  <2>5. TagsOf(a \o b) = TagsOf(a2 \o b)
    BY <2>1, <2>2, <2>4, SameTagsKnown
  <2>6. QED
    BY <1>3, <2>5 DEF a, b, a2, Arrays
<1>9. ASSUME NEW r \in Ranks, NEW tag \in Tags, NEW pos \in Images(OwnPosition'[tag]),
             Within(r, pos, LayerWidth - (moves + 1))
      PROVE  tag \in TagsOf(Arrays(r)')
  <2> DEFINE x == OwnPosition[tag]
             y == OwnPosition'[tag]
             before == [axis \in Axes |-> pos[axis] - d[axis]]
  <2>1. x \in [Axes -> Int] /\ y = [axis \in Axes |-> x[axis] + d[axis]]
    BY <1>6, <1>9
  <2>2. y \in [Axes -> Int] /\ pos \in Images(y)
    BY <1>5, <1>9, <2>1
  <2> HIDE DEF x, y
  <2>3. pos \in [Axes -> Int] /\ \A axis \in Axes : pos[axis] - y[axis] \in Shifts(axis)
    BY <2>2, ImagesAre
  <2>4. before \in [Axes -> Int] /\ \A axis \in Axes : before[axis] = pos[axis] - d[axis]
    BY <1>5, <2>3
  <2> HIDE DEF before
  <2>5. \A axis \in Axes : before[axis] - x[axis] = pos[axis] - y[axis]
    BY <1>5, <2>1, <2>3, <2>4
  <2>6. before \in Images(x)
    BY <2>1, <2>3, <2>4, <2>5, ImagesAre
  <2>7. ASSUME NEW axis \in Axes, Size[axis] # 1
        PROVE  Offset(r, before, axis) \in -(LayerWidth - moves) .. L + (LayerWidth - moves) - 1
    <3>1. Offset(r, pos, axis) \in -(LayerWidth - (moves + 1)) .. L + (LayerWidth - (moves + 1)) - 1
      BY <1>9, <2>7 DEF Within
    <3>2. /\ before[axis] = pos[axis] - d[axis] /\ d[axis] \in -1 .. 1 /\ pos[axis] \in Int
          /\ GridPos(r)[axis] \in Int
      BY <1>5, <1>9, <2>3, <2>4, <2>7, OneDomain
    <3>3. QED
      BY <1>1, <3>1, <3>2, Boxes, LayerAssumption DEF Offset
  <2>8. Within(r, before, LayerWidth - moves)
    BY <2>7 DEF Within
  <2>9. NearBy(LayerWidth - moves)
    BY <1>3, CurrentNear
  <2>10. tag \in TagsOf(Arrays(r))
    BY <1>9, <2>6, <2>8, <2>9 DEF NearBy, x
  <2>11. QED
    BY <1>8, <1>9, <2>10
<1>10. NearBy(LayerWidth - moves)'
  BY <1>3, <1>9 DEF NearBy, Images, Within, Offset
<1>11. moves' \in Nat /\ moves' > 0
  BY <1>1, <1>3
<1>12. QED
  BY <1>7, <1>10, <1>11, ListsMoved DEF LayerKept, OwnNear, PresentNear

\* Nothing is nearer to a domain in a narrower layer.
LEMMA NearbyNarrower ==
  ASSUME NEW r \in Ranks, NEW pos, NEW w \in Int, Within(r, pos, w)
  PROVE  Within(r, pos, w + 1)
<1>1. ASSUME NEW axis \in Axes, Size[axis] # 1
      PROVE  Offset(r, pos, axis) \in -(w + 1) .. L + (w + 1) - 1
  <2>1. Offset(r, pos, axis) \in -w .. L + w - 1
    BY <1>1 DEF Within
  <2>2. QED
    BY <2>1, Boxes
<1>2. QED
  BY <1>1 DEF Within

LEMMA SortNear ==
  ASSUME LayerInv, NEW r \in Ranks, SortAndUpdate(r), GhostInv'
  PROVE  LayerKept'
<1>1. RoundOrder /\ Owned /\ moves \in Nat /\ communicator \in {"CPU", "GPU"}
  BY DEF LayerInv, GhostInv, CopyInv, RoundOrder
<1>2. /\ moves' = moves + 1 /\ ghosts' = ghosts /\ AllCurrent
      /\ ptls' = [ptls EXCEPT ![r] = Reverse(@)]
  BY DEF SortAndUpdate
<1>3. /\ DOMAIN ptls'[r] = DOMAIN ptls[r]
      /\ \A i \in DOMAIN ptls[r] : Len(ptls[r]) - i + 1 \in DOMAIN ptls[r]
      /\ \A i \in DOMAIN ptls[r] : ptls'[r][i] = ptls[r][Len(ptls[r]) - i + 1]
      /\ \A i \in DOMAIN ptls[r] : ptls[r][i] = ptls'[r][Len(ptls[r]) - i + 1]
      /\ \A s \in Ranks \ {r} : ptls'[s] = ptls[s]
      /\ \A tag \in Tags : Owner(tag)' = Owner(tag)
      /\ OwnPosition' = OwnPosition /\ Owned'
  BY <1>1, <1>2, OwnedAfterSort
<1>4. ASSUME NEW tag \in Tags
      PROVE  InDomain(Home[tag], OwnPosition[tag], moves)'
  <2> DEFINE x == OwnPosition[tag]
             home == Home[tag]
  <2>1. InDomain(home, x, moves)
    BY <1>4 DEF LayerInv, LayerKept, OwnNear
  <2>2. x \in [Axes -> Int] /\ home \in Ranks
    BY <1>1, <1>4, OwnPositionIs, WayIs
  <2> HIDE DEF x, home
  <2>3. ASSUME NEW axis \in Axes, Size[axis] # 1
        PROVE  Offset(home, x, axis) \in -(moves + 1) .. L - 1 + (moves + 1)
    <3>1. Offset(home, x, axis) \in -moves .. L - 1 + moves
      BY <2>1, <2>3 DEF InDomain
    <3>2. QED
      BY <1>1, <3>1, Boxes
  <2>4. InDomain(home, x, moves + 1)
    BY <2>3 DEF InDomain
  <2>5. Home'[tag] = Home[tag] /\ OwnPosition'[tag] = OwnPosition[tag]
    BY <1>3, <1>4 DEF Home
  <2>6. InDomain(Home'[tag], OwnPosition'[tag], moves')
    BY <1>2, <2>4, <2>5 DEF x, home
  <2>7. QED
    BY <2>6 DEF InDomain, Offset
<1>5. ASSUME NEW s \in Ranks
      PROVE  TagsOf(Arrays(s)') = TagsOf(Arrays(s))
  <2> DEFINE a == ptls[s]
             b == ghosts[s]
             a2 == ptls'[s]
  <2>1. a \in Seq(Located) /\ b \in Seq(Located)
    BY <1>5, ArraysAre DEF LayerInv
  <2>2. a2 \in Seq(Located)
    BY <1>3, <1>5 DEF Owned
  <2>3. TagsOf(a) = TagsOf(a2)
    <3>1. CASE s = r
      <4>1. \A i \in DOMAIN a : \E j \in DOMAIN a2 : a2[j].tag = a[i].tag
        BY <1>3, <3>1
      <4>2. ASSUME NEW i \in DOMAIN a2
            PROVE  \E j \in DOMAIN a : a[j].tag = a2[i].tag
        <5>1. i \in DOMAIN a /\ Len(a) - i + 1 \in DOMAIN a /\ a2[i] = a[Len(a) - i + 1]
          BY <1>3, <3>1, <4>2
        <5>2. QED
          BY <5>1
      <4> HIDE DEF a, a2
      <4>3. QED
        BY <4>1, <4>2 DEF TagsOf
    <3>2. CASE s # r
      BY <1>3, <1>5, <3>2
    <3>3. QED
      BY <3>1, <3>2
  <2> HIDE DEF a, b, a2
  <2>4. TagsOf(a \o b) = TagsOf(a2 \o b)
    BY <2>1, <2>2, <2>3, SameTagsKnown
  <2>5. QED
    BY <1>2, <2>4 DEF a, b, a2, Arrays
<1>6. ASSUME NEW s \in Ranks, NEW tag \in Tags, NEW pos \in Images(OwnPosition'[tag]),
             Within(s, pos, LayerWidth - (moves + 1))
      PROVE  tag \in TagsOf(Arrays(s)')
  <2>1. LayerWidth - (moves + 1) \in Int /\ LayerWidth - (moves + 1) + 1 = LayerWidth - moves
    BY <1>1, LayerAssumption
  <2>2. Within(s, pos, LayerWidth - moves)
    <3> DEFINE w == LayerWidth - (moves + 1)
    <3>1. w \in Int /\ Within(s, pos, w)
      BY <1>6, <2>1
    <3> HIDE DEF w
    <3>2. Within(s, pos, w + 1)
      BY <1>6, <3>1, NearbyNarrower
    <3>3. QED
      BY <2>1, <3>2 DEF w
  <2>3. NearBy(LayerWidth - moves)
    BY <1>2, CurrentNear
  <2>4. tag \in TagsOf(Arrays(s))
    BY <1>3, <1>6, <2>2, <2>3 DEF NearBy
  <2>5. QED
    BY <1>5, <1>6, <2>4
<1>7. NearBy(LayerWidth - moves)'
  BY <1>2, <1>6 DEF NearBy, Images, Within, Offset
<1>8. moves' \in Nat /\ moves' > 0
  BY <1>1, <1>2
<1>9. QED
  BY <1>4, <1>7, <1>8, ListsMoved DEF LayerKept, OwnNear, PresentNear

\* An update leaves the ghosts at their places.
LEMMA UpdateKeepsTags ==
  ASSUME GhostInv, NEW r \in Ranks, Step(r), moves > 0, GhostInv', NEW s \in Ranks
  PROVE  TagsOf(Arrays(s)') = TagsOf(Arrays(s))
<1>1. RoundOrder /\ Owned /\ communicator \in {"CPU", "GPU"} /\ moves \in Nat
  BY DEF GhostInv, CopyInv, RoundOrder
<1>2. UNCHANGED <<ptls, moves, communicator>> /\ GoesOn(r)
  BY <1>1, StepShape
<1>3. phase[r] # "current"
  BY <1>1, <1>2, KindIs DEF GoesOn, RoundOrder
<1>4. phase[r] # "migrated" /\ phase[r] # "exchange" /\ phase[r] # "exchangeGPU"
  BY <1>1, <1>3, RoundOf
<1>5. DOMAIN ghosts = Ranks
  <2>1. CASE communicator = "CPU"
    BY <2>1 DEF GhostInv, CopyInv, CopyLists, ListTypes
  <2>2. CASE communicator = "GPU"
    <3>1. PICK H : BufferInv(H)
      BY <2>2 DEF GhostInv, BuffersInUse
    <3>2. QED
      BY <3>1 DEF BufferInv, BufferTypes
  <2>3. QED
    BY <1>1, <2>1, <2>2
<1>6. /\ ptls[s] \in Seq(Located) /\ ghosts[s] \in Seq(Located)
      /\ ptls'[s] \in Seq(Located) /\ ghosts'[s] \in Seq(Located)
  <2>1. ptls[s] \in Seq(Located) /\ ghosts[s] \in Seq(Located)
    BY ArraysAre
  <2>2. (ptls[s] \in Seq(Located) /\ ghosts[s] \in Seq(Located))'
    BY ArraysAlways
  <2>3. QED
    BY <2>1, <2>2
<1>7. DOMAIN ghosts'[s] = DOMAIN ghosts[s] /\ \A i \in DOMAIN ghosts[s] : ghosts'[s][i].tag = ghosts[s][i].tag
  <2>1. CASE BeginUpdate(r)
    BY <2>1 DEF BeginUpdate
  <2>2. CASE ReceivePositions(r, LayerWidth)
    <3> DEFINE copies == Overwritten(r, ghosts[r], ReceivedBefore(r, Route[stage[r]]), Message(r).data)
    <3>1. ghosts' = [ghosts EXCEPT ![r] = copies]
      BY <2>2 DEF ReceivePositions, Overwritten
    <3>2. DOMAIN copies = DOMAIN ghosts[r] /\ \A i \in DOMAIN ghosts[r] : copies[i].tag = ghosts[r][i].tag
      BY DEF Overwritten, Particle
    <3> HIDE DEF copies
    <3>3. QED
      BY <1>5, <3>1, <3>2
  <2>3. CASE BeginUpdateGPU(r)
    BY <2>3 DEF BeginUpdateGPU
  <2>4. CASE ReceivePositionsGPU(r, LayerWidth)
    <3>1. CASE UNCHANGED ghosts
      BY <3>1
    <3>2. CASE ~ UNCHANGED ghosts
      <4> DEFINE new == Unpacked(r, Buffered(r))
                 copies == [i \in DOMAIN ghosts[r] |->
                     Particle(ghosts[r][i].tag, WrapGhost(r, new[i].pos, LayerWidth))]
      <4>1. ghosts' = [ghosts EXCEPT ![r] = copies]
        BY <2>4, <3>2 DEF ReceivePositionsGPU
      <4>2. DOMAIN copies = DOMAIN ghosts[r] /\ \A i \in DOMAIN ghosts[r] : copies[i].tag = ghosts[r][i].tag
        BY DEF Particle
      <4> HIDE DEF copies
      <4>3. QED
        BY <1>5, <4>1, <4>2
    <3>3. QED
      BY <3>1, <3>2
  <2>5. QED
    BY <1>4, <2>1, <2>2, <2>3, <2>4, Zenon
    DEF Step, GhostStep, GhostStepGPU, BeginExchange, ReceiveGhosts, BeginExchangeGPU, ReceiveGhostsGPU
<1> DEFINE a == ptls[s]
           b == ghosts[s]
           b2 == ghosts'[s]
<1>8. a \in Seq(Located) /\ b \in Seq(Located) /\ b2 \in Seq(Located) /\ ptls'[s] = a
  BY <1>2, <1>6
<1>9. TagsOf(b) = TagsOf(b2)
  BY <1>7 DEF TagsOf
<1> HIDE DEF a, b, b2
<1>10. TagsOf(a \o b) = TagsOf(a \o b2)
  BY <1>8, <1>9, SameTagsKnown
<1>11. QED
  BY <1>8, <1>10 DEF a, b, b2, Arrays

LEMMA StepNear ==
  ASSUME LayerInv, NEW r \in Ranks, Step(r), GhostInv'
  PROVE  LayerKept'
<1>1. RoundOrder /\ Owned /\ communicator \in {"CPU", "GPU"} /\ moves \in Nat /\ GhostInv /\ LayerKept
  BY DEF LayerInv, GhostInv, CopyInv, RoundOrder
<1>2. UNCHANGED <<ptls, moves, communicator>>
  BY <1>1, StepShape
<1>3. Home' = Home /\ Way' = Way /\ OwnPosition' = OwnPosition
  BY <1>2, SamePlaces
<1>4. OwnNear'
  BY <1>1, <1>2, <1>3 DEF LayerKept, OwnNear, InDomain, Offset
<1>5. PresentNear'
  <2>1. CASE moves > 0
    <3>1. \A s \in Ranks : TagsOf(Arrays(s)') = TagsOf(Arrays(s))
      BY <1>1, <2>1, UpdateKeepsTags
    <3>2. NearBy(LayerWidth - moves)
      BY <1>1, <2>1 DEF LayerKept, PresentNear
    <3>3. ASSUME NEW s \in Ranks, NEW tag \in Tags, NEW pos \in Images(OwnPosition'[tag]),
                 Within(s, pos, LayerWidth - moves)
          PROVE  tag \in TagsOf(Arrays(s)')
      BY <1>3, <3>1, <3>2, <3>3 DEF NearBy
    <3>4. NearBy(LayerWidth - moves)'
      BY <1>2, <3>3 DEF NearBy, Images, Within, Offset
    <3>5. QED
      BY <3>4 DEF PresentNear
  <2>2. CASE ~ moves > 0
    BY <1>2, <2>2 DEF PresentNear
  <2>3. QED
    BY <2>1, <2>2
<1>6. CASE moves # 0
  <2>1. moves' \in Nat /\ moves' > 0
    BY <1>1, <1>2, <1>6
  <2>2. QED
    BY <1>4, <1>5, <2>1, ListsMoved DEF LayerKept
<1>7. CASE moves = 0 /\ communicator = "CPU"
  <2>1. CopyLists /\ CopyPlaces /\ \A s \in Ranks : ListsAll(s)
    BY <1>1, <1>7 DEF GhostInv, CopyInv, LayerKept
  <2>2. \E new, plans : ExchangeStep(r, new, plans) /\ TrueArrivals(r, new, plans)
    <3>1. GoesOn(r)
      BY <1>1, StepShape
    <3>2. phase[r] # "current"
      BY <1>1, <3>1, KindIs DEF GoesOn, RoundOrder
    <3>3. phase[r] # "update" /\ phase[r] # "updating"
      BY <1>1, <1>7, <3>2, RoundOf
    <3>4. BeginExchange(r, LayerWidth) \/ ReceiveGhosts(r, LayerWidth)
      BY <1>7, <3>3 DEF Step, GhostStep, BeginUpdate, ReceivePositions
    <3>5. QED
      BY <1>1, <1>7, <2>1, <3>4, BeginIsTrue, ReceiveIsTrue
  <2>3. PICK new, plans : ExchangeStep(r, new, plans) /\ TrueArrivals(r, new, plans)
    BY <2>2
  <2>4. \A s \in Ranks : ListsAll(s)'
    BY <1>1, <2>1, <2>3, ExchangeListsAll
  <2>5. \A s \in Ranks : AllBound(s)'
    BY <1>2, <1>7 DEF AllBound
  <2>6. QED
    BY <1>4, <1>5, <2>4, <2>5 DEF LayerKept
<1>8. CASE moves = 0 /\ communicator = "GPU"
  <2>1. PICK H : BufferInv(H)
    BY <1>1, <1>8 DEF GhostInv, BuffersInUse
  <2>2. ghostIdx \in [Ranks -> Seq(Index)]
    BY <2>1 DEF BufferInv, BufferTypes
  <2>3. \A s \in Ranks : AllBound(s)'
    BY <1>1, <1>8, <2>2, StepKeepsBound DEF LayerKept
  <2>4. communicator' = "GPU"
    BY <1>2, <1>8
  <2>5. QED
    BY <1>4, <1>5, <2>3, <2>4 DEF LayerKept
<1>9. QED
  BY <1>1, <1>6, <1>7, <1>8

LEMMA SameNear ==
  ASSUME LayerInv, UNCHANGED layerVars
  PROVE  LayerKept'
<1>1. UNCHANGED <<phase, stage, ptls, ghosts, numRecv, copyGhosts, ghostIdx, moves, communicator>>
  BY DEF layerVars, ghostVars, ghostBuffers
<1>2. Home' = Home /\ Way' = Way /\ OwnPosition' = OwnPosition
  BY <1>1, SamePlaces
<1>3. LayerKept
  BY DEF LayerInv
<1>4. OwnNear'
  BY <1>1, <1>2, <1>3 DEF LayerKept, OwnNear, InDomain, Offset
<1>5. PresentNear'
  BY <1>1, <1>2, <1>3 DEF LayerKept, PresentNear, NearBy, Images, Within, Offset, Arrays
<1>6. communicator = "CPU" => \A s \in Ranks : ListsAll(s)'
  BY <1>1, <1>2, <1>3 DEF LayerKept, ListsAll, Announced
<1>7. \A s \in Ranks : AllBound(s)'
  BY <1>1, <1>2, <1>3 DEF LayerKept, AllBound
<1>8. QED
  BY <1>1, <1>4, <1>5, <1>6, <1>7 DEF LayerKept

LEMMA LayerInvNext ==
  ASSUME ShortSteps, LayerInv, [LayerNext]_layerVars, GhostInv'
  PROVE  LayerInv'
<1>1. CASE UNCHANGED layerVars
  BY <1>1, SameNear DEF LayerInv
<1>2. CASE MoveAndUpdate
  BY <1>2, MoveNear DEF LayerInv
<1>3. CASE MoveAndMigrate
  <2>1. RoundOrder /\ Owned /\ CopyInv
    BY DEF LayerInv, GhostInv, CopyInv
  <2>2. NoPlans
    BY <1>3, <2>1, NoPlansLeft DEF MoveAndMigrate
  <2>3. Fresh' /\ RoundOrder'
    BY <1>3, <2>1, <2>2, FreshAfterMigration, RoundOrderNext
  <2>4. QED
    BY <2>3, FreshNearNext DEF LayerInv
<1>4. ASSUME NEW r \in Ranks, SortAndUpdate(r)
      PROVE  LayerInv'
  BY <1>4, SortNear DEF LayerInv
<1>5. ASSUME NEW r \in Ranks, Step(r)
      PROVE  LayerInv'
  BY <1>5, StepNear DEF LayerInv
<1>6. Rest => UNCHANGED layerVars
  BY DEF Rest
<1>7. QED
  BY <1>1, <1>2, <1>3, <1>4, <1>5, <1>6 DEF LayerNext

-----------------------------------------------------------------------------
(* Where what is there is: at the image that is near the domain.  With two  *)
(* domains along an axis the shifted box has room for the layers of both    *)
(* sides only when the layer is not wider than a third of a domain.         *)
ThinLayer == \A axis \in Axes : Size[axis] = 2 => 3 * LayerWidth <= L

\* A coordinate of a ghost within the layer is that of the image.
LEMMA GhostCoordinate ==
  ASSUME ThinLayer, NEW home \in Ranks, NEW r \in Ranks, moves \in Nat,
         NEW own \in [Axes -> Int], InDomain(home, own, moves),
         NEW pos \in Images(own), Within(r, pos, LayerWidth - moves),
         NEW x \in [Axes -> Int], Mirrors(r, x, own)
  PROVE  x = pos
<1>1. pos \in [Axes -> Int] /\ \A axis \in Axes : pos[axis] - own[axis] \in Shifts(axis)
  BY ImagesAre
<1>2. ASSUME NEW axis \in Axes
      PROVE  x[axis] = pos[axis]
  <2>1. x[axis] \in Int /\ own[axis] \in Int /\ pos[axis] \in Int /\ pos[axis] - own[axis] \in Shifts(axis)
    BY <1>1, <1>2
  <2>2. CASE Size[axis] = 1
    BY <1>2, <2>1, <2>2 DEF Mirrors, Congruent, Shifts
  <2>3. CASE Size[axis] # 1
    <3> DEFINE n == Size[axis]
               b == Box(axis)
               shift == BoxShift(r, axis)
               g == GridPos(r)[axis]
               h == GridPos(home)[axis]
    <3>1. n \in Nat \ {0, 1} /\ L \in Nat \ {0} /\ b \in Nat \ {0} /\ b = n * L
          /\ g \in 0 .. n - 1 /\ h \in 0 .. n - 1
      BY <1>2, <2>3, Boxes, OneDomain
    <3>2. LayerWidth \in 1 .. L /\ 2 * LayerWidth < L /\ (n = 2 => 3 * LayerWidth <= L)
      BY <1>2, LayerAssumption DEF ThinLayer
    <3>3. /\ pos[axis] - g * L \in -(LayerWidth - moves) .. L + (LayerWidth - moves) - 1
          /\ own[axis] - h * L \in -moves .. L - 1 + moves
      BY <1>2, <2>3 DEF Within, InDomain, Offset
    <3>4. moves \in 0 .. L
      <4>1. -(LayerWidth - moves) <= L + (LayerWidth - moves) - 1
        BY <2>1, <3>1, <3>2, <3>3
      <4>2. QED
        BY <3>1, <3>2, <4>1
    <3>5. shift = IF g = 0 THEN -2 * LayerWidth ELSE IF g = n - 1 THEN 2 * LayerWidth ELSE 0
      BY DEF BoxShift
    <3>6. shift \in Int
      BY <1>2, <2>3, ShiftIs
    <3>7. (x[axis] - own[axis]) % b = 0
      BY <1>2, <2>3 DEF Mirrors, Congruent
    <3>8. pos[axis] - own[axis] \in {-b, 0, b}
      BY <2>1, <2>3 DEF Shifts
    <3>9. NearBox(own[axis], axis) => x[axis] \in shift .. b + shift - 1
      BY <1>2, <2>3 DEF Mirrors, InShiftedBox
    <3> HIDE DEF n, b, shift, g, h
    <3>10. own[axis] \in -L .. n * L + L - 1
      BY <2>1, <3>1, <3>3, <3>4, DomainInBox
    <3>11. x[axis] \in shift .. b + shift - 1
      BY <3>1, <3>9, <3>10 DEF NearBox, b
    <3>12. pos[axis] \in shift .. n * L + shift - 1
      <4> DEFINE v == LayerWidth - moves
      <4>1. v \in Int /\ v <= LayerWidth /\ pos[axis] - g * L \in -v .. L + v - 1
        BY <3>2, <3>3
      <4> HIDE DEF v
      <4>2. QED
        BY <2>1, <3>1, <3>2, <3>5, <4>1, NearInShiftedBox
    <3>13. QED
      BY <2>1, <3>1, <3>6, <3>7, <3>8, <3>11, <3>12, OnePlace
  <2>4. QED
    BY <2>2, <2>3
<1>3. QED
  BY <1>1, <1>2

\* A coordinate of a particle of the rank's own is that of the image.
LEMMA OwnCoordinate ==
  ASSUME NEW r \in Ranks, moves \in Nat, NEW own \in [Axes -> Int], InDomain(r, own, moves),
         NEW pos \in Images(own), Within(r, pos, LayerWidth - moves)
  PROVE  own = pos
<1>1. pos \in [Axes -> Int] /\ \A axis \in Axes : pos[axis] - own[axis] \in Shifts(axis)
  BY ImagesAre
<1>2. ASSUME NEW axis \in Axes
      PROVE  own[axis] = pos[axis]
  <2>1. own[axis] \in Int /\ pos[axis] \in Int /\ pos[axis] - own[axis] \in Shifts(axis)
        /\ GridPos(r)[axis] \in Int
    BY <1>1, <1>2, OneDomain
  <2>2. CASE Size[axis] = 1
    BY <1>2, <2>1, <2>2 DEF Shifts
  <2>3. CASE Size[axis] # 1
    <3>1. /\ pos[axis] - GridPos(r)[axis] * L \in -(LayerWidth - moves) .. L + (LayerWidth - moves) - 1
          /\ own[axis] - GridPos(r)[axis] * L \in -moves .. L - 1 + moves
      BY <1>2, <2>3 DEF Within, InDomain, Offset
    <3>2. pos[axis] - own[axis] \in {-Box(axis), 0, Box(axis)}
      BY <2>1, <2>3 DEF Shifts
    <3>3. Box(axis) \in Int /\ 2 * L <= Box(axis) /\ L \in Nat
      BY <1>2, <2>3, ShiftIs
    <3>4. LayerWidth \in 1 .. L /\ 2 * LayerWidth < L
      BY LayerAssumption
    <3> DEFINE off == GridPos(r)[axis] * L
    <3>5. off \in Int
      BY <2>1, <3>3
    <3> HIDE DEF off
    <3>6. /\ pos[axis] - off \in -(LayerWidth - moves) .. L + (LayerWidth - moves) - 1
          /\ own[axis] - off \in -moves .. L - 1 + moves
      BY <3>1 DEF off
    <3>7. QED
      BY <2>1, <3>2, <3>3, <3>4, <3>5, <3>6
  <2>4. QED
    BY <2>2, <2>3
<1>3. QED
  BY <1>1, <1>2

LEMMA LayerInvIsComplete ==
  ASSUME ThinLayer, LayerInv
  PROVE  LayerComplete
<1> SUFFICES ASSUME AllCurrent, NEW r \in Ranks, NEW tag \in Tags,
                    NEW pos \in Images(OwnPosition[tag]), Within(r, pos, LayerWidth - moves)
             PROVE  Particle(tag, pos) \in Range(Arrays(r))
  BY DEF LayerComplete
<1>1. RoundOrder /\ Owned /\ moves \in Nat /\ phase[r] = "current"
  BY DEF LayerInv, GhostInv, CopyInv, RoundOrder, AllCurrent
<1>2. OwnPosition[tag] \in [Axes -> Int] /\ Home[tag] \in Ranks
      /\ InDomain(Home[tag], OwnPosition[tag], moves)
  BY <1>1, OwnPositionIs, WayIs DEF LayerInv, LayerKept, OwnNear
<1>3. PICK i \in DOMAIN Arrays(r) : Arrays(r)[i].tag = tag
  BY CurrentNear DEF NearBy, TagsOf
<1>4. /\ ptls[r] \in Seq(Located) /\ ghosts[r] \in Seq(Located) /\ Arrays(r) \in Seq(Located)
      /\ CurrentGhosts(r, ghosts[r], OwnPosition, Len(ghosts[r]))
  BY <1>1, ArraysAre DEF LayerInv
<1>5. \/ \E j \in DOMAIN ptls[r] : Arrays(r)[i] = ptls[r][j]
      \/ \E j \in DOMAIN ghosts[r] : Arrays(r)[i] = ghosts[r][j]
  <2> DEFINE a == ptls[r]
             b == ghosts[r]
             ab == a \o b
  <2>1. a \in Seq(Located) /\ b \in Seq(Located) /\ ab = Arrays(r)
    BY <1>4 DEF Arrays
  <2> HIDE DEF a, b
  <2>2. IsJoined(a, b, ab)
    BY <2>1, JoinedLists
  <2> HIDE DEF ab
  <2>3. QED
    BY <1>3, <2>1, <2>2 DEF IsJoined, a, b
<1>6. Arrays(r)[i] \in Located
  BY <1>3, <1>4
<1> DEFINE x == Arrays(r)[i].pos
           own == OwnPosition[tag]
<1>7. x \in [Axes -> Int] /\ Arrays(r)[i] = Particle(tag, x)
  BY <1>3, <1>6 DEF Located, Particle
<1>8. x = pos
  <2>1. ASSUME NEW j \in DOMAIN ptls[r], Arrays(r)[i] = ptls[r][j]
        PROVE  x = pos
    <3>1. Owner(tag) = r /\ own = x
      BY <1>1, <1>3, <2>1, OwnerIs
    <3>2. Home[tag] = r
      BY <3>1 DEF Home
    <3> HIDE DEF x, own
    <3>3. own = pos
      BY <1>1, <1>2, <3>2, OwnCoordinate DEF own
    <3>4. QED
      BY <3>1, <3>3
  <2>2. ASSUME NEW j \in DOMAIN ghosts[r], Arrays(r)[i] = ghosts[r][j]
        PROVE  x = pos
    <3>1. j <= Len(ghosts[r])
      BY <1>4, <2>2, LenProperties
    <3>2. Mirrors(r, x, own)
      BY <1>3, <1>4, <2>2, <3>1 DEF CurrentGhosts
    <3> DEFINE home == Home[tag]
    <3>3. home \in Ranks /\ own \in [Axes -> Int] /\ InDomain(home, own, moves) /\ pos \in Images(own)
      BY <1>2
    <3> HIDE DEF x, own, home
    <3>4. QED
      BY <1>1, <1>7, <3>2, <3>3, GhostCoordinate
  <2>3. QED
    BY <1>5, <2>1, <2>2
<1>9. QED
  BY <1>3, <1>7, <1>8 DEF Range

\* Communicator and CommunicatorGPU, exchangeGhosts() and updateGhosts(): after
\* every round of communication a rank has all particles within the ghost layer
\* around its domain, at the images that are near it, across faces, edges and
\* corners and the periodic boundary; the layer is narrower by one cell for every
\* step since the exchange.  Steps are at most one cell; with two domains along
\* an axis the layer is at most a third of a domain.
THEOREM LayerHolds ==
  ASSUME ShortSteps, ThinLayer
  PROVE  LayerSpec => []LayerComplete
<1>1. LayerInit => LayerKept
  BY RoundOrderInit, FreshInit, FreshNear
<1>2. GhostInv /\ GhostInv' /\ LayerKept /\ [LayerNext]_layerVars => LayerKept'
  BY LayerInvNext DEF LayerInv
<1>3. GhostInv /\ LayerKept => LayerComplete
  BY LayerInvIsComplete DEF LayerInv
<1>4. QED
  BY <1>1, <1>2, <1>3, GhostsKept, PTL DEF LayerSpec

-----------------------------------------------------------------------------
(* When neighbour lists are rebuilt, for any number of ranks, particles,   *)
(* cutoffs and periods: the ranks come to one decision in every             *)
(* computation, whichever of them is ahead, and distances are taken between *)
(* the positions of the same particle.                                      *)

Locations == {"idle", "check", "wait", "update", "migrate", "ghosts", "waitBuild", "build", "forces"}

Lists(positions, pairs, exclusions) ==
    [force : BOOLEAN, checkedNow : BOOLEAN, result : BOOLEAN, age : Nat, done : BOOLEAN,
     moved : BOOLEAN, lastPos : {positions}, pairs : {pairs}, exIdx : {exclusions}]

IsList(n) == n \in Lists(n.lastPos, n.pairs, n.exIdx)

ListFields ==
    /\ at \in [Ranks -> Locations]
    /\ nlist = [r \in Ranks |-> nlist[r]] /\ \A r \in Ranks : IsList(nlist[r])
    /\ sorted \in [Ranks -> BOOLEAN] /\ forcesDone \in [Ranks -> BOOLEAN]
    /\ passes \in [Ranks -> 1 .. 2]
    /\ firstStep \in [Ranks -> BOOLEAN]

TagsInOrder(list) == [i \in DOMAIN list |-> list[i].tag]

\* The last positions are of the particles that are at their places now.
SameAsBuilt(r) == TagsInOrder(ptls[r]) = TagsInOrder(nlist[r].lastPos)

\* What a rank has done where it is.
PlacedAt(r) ==
    LET n == nlist[r]
    IN  /\ at[r] # "waitBuild"
        /\ at[r] = "wait" => Answer(n) = "ask"
        /\ at[r] \in {"migrate", "update"} =>
               n.checkedNow /\ ~ n.force /\ (at[r] = "migrate" <=> n.result \/ firstStep[r])
        /\ at[r] \in {"ghosts", "build", "forces"} => n.checkedNow /\ ~ firstStep[r]
        /\ at[r] \in {"build", "forces"} => ~ n.force
        /\ at[r] = "ghosts" /\ n.force => sorted[r]
        /\ at[r] = "idle" => passes[r] = 1
        /\ \/ at[r] \in {"wait", "update", "forces"}
           \/ at[r] \in {"idle", "check", "ghosts"} /\ ~ n.force
           => SameAsBuilt(r)

\* A rank that has done with a computation in which others still are.
Rested(r) == nlist[r].checkedNow /\ ~ nlist[r].force /\ ~ firstStep[r]

-----------------------------------------------------------------------------
(* What is settled for all ranks, although one of them does not know it yet: *)
(* whether they take the distance check, whether they migrate, the age of the*)
(* lists after that, and the migrations to go.                               *)

Asks(r) == at[r] = "wait" \/ (at[r] = "check" /\ Answer(nlist[r]) = "ask")

Migrates(r) ==
    \/ at[r] = "migrate"
    \/ at[r] = "check" /\ (Answer(nlist[r]) = "yes" \/ firstStep[r])
    \/ at[r] \notin {"check", "wait", "migrate", "update"} /\ (nlist[r].result \/ nlist[r].force)

\* The list keeps its age if nobody has to build it anew, or has done so.
Keeps(r) ==
    \/ Asks(r) \/ ~ Migrates(r)
    \/ nlist[r].result /\ (at[r] = "check" => Cached(nlist[r]))
AgeAfter(r) == IF Keeps(r) THEN nlist[r].age ELSE 0

Left(r) ==
    IF at[r] \in {"check", "wait", "migrate"} THEN passes[r]
    ELSE IF at[r] \in {"ghosts", "build", "forces"} THEN passes[r] - 1 ELSE 0

SameView(r, s) ==
    /\ Asks(r) <=> Asks(s)
    /\ ~ Asks(r) => (Migrates(r) <=> Migrates(s))
    /\ AgeAfter(r) = AgeAfter(s)
    /\ Asks(r) \/ Migrates(r) => Left(r) = Left(s)

Alike(n, m) ==
    /\ n.force = m.force /\ n.checkedNow = m.checkedNow
    /\ n.result = m.result /\ n.age = m.age

Common ==
    /\ \A r, s \in Ranks : firstStep[r] = firstStep[s]
    /\ AllIdle => \A r, s \in Ranks : Alike(nlist[r], nlist[s])
    /\ ~ AllIdle => \A r, s \in Ranks : SameView(r, s)
    /\ ~ AllIdle => \A r \in Ranks : at[r] = "idle" => Rested(r)

ListInv == ListFields /\ Common /\ \A r \in Ranks : PlacedAt(r)

-----------------------------------------------------------------------------
(* Answers.                                                                 *)

LEMMA AnswerIs ==
  ASSUME NEW n, IsList(n)
  PROVE  /\ Answer(n) \in {"yes", "no", "ask"}
         /\ Cached(n) => (Answer(n) = IF n.result THEN "yes" ELSE "no")
         /\ n.checkedNow => Answer(n) # "ask"
         /\ n.force => Answer(n) = "yes"
         /\ Answer(n) = "ask" => ~ Cached(n)
BY DEF Answer, Cached, IsList

LEMMA AlikeAnswer ==
  ASSUME NEW n, NEW m, Alike(n, m)
  PROVE  Answer(n) = Answer(m) /\ (Cached(n) <=> Cached(m))
<1>1. Cached(n) <=> Cached(m)
  BY DEF Alike, Cached
<1>2. BuildsAnyway(n) <=> BuildsAnyway(m)
  BY DEF Alike, BuildsAnyway
<1> QED
  BY <1>1, <1>2 DEF Alike, Answer

LEMMA AnsweredIs ==
  ASSUME NEW n, IsList(n), NEW yes \in BOOLEAN, NEW m, m = Answered(n, yes)
  PROVE  /\ IsList(m) /\ m.checkedNow /\ ~ m.force
         /\ m.result <=> IF Cached(n) THEN n.result ELSE yes
         /\ m.age = IF Cached(n) \/ ~ yes THEN n.age ELSE 0
         /\ m.lastPos = n.lastPos
<1>1. n \in Lists(n.lastPos, n.pairs, n.exIdx)
  BY DEF IsList
<1>2. CASE Cached(n)
  <2>1. m = [n EXCEPT !.force = FALSE]
    BY <1>2 DEF Answered
  <2>2. /\ m \in Lists(n.lastPos, n.pairs, n.exIdx) /\ m.force = FALSE
        /\ m.checkedNow = n.checkedNow /\ m.result = n.result /\ m.age = n.age
        /\ m.lastPos = n.lastPos /\ m.pairs = n.pairs /\ m.exIdx = n.exIdx
    BY <1>1, <2>1 DEF Lists
  <2> QED
    BY <1>2, <2>2 DEF IsList, Cached
<1>3. CASE ~ Cached(n)
  <2> DEFINE age == IF yes THEN 0 ELSE n.age
  <2>1. m = [n EXCEPT !.checkedNow = TRUE, !.result = yes, !.force = FALSE, !.age = age]
    BY <1>3 DEF Answered
  <2>2. age \in Nat
    BY <1>1 DEF Lists
  <2> HIDE DEF age
  <2>3. /\ m \in Lists(n.lastPos, n.pairs, n.exIdx) /\ m.force = FALSE
        /\ m.checkedNow = TRUE /\ m.result = yes /\ m.age = age
        /\ m.lastPos = n.lastPos /\ m.pairs = n.pairs /\ m.exIdx = n.exIdx
    BY <1>1, <2>1, <2>2 DEF Lists
  <2> QED
    BY <1>3, <2>3 DEF IsList, age
<1> QED
  BY <1>2, <1>3

-----------------------------------------------------------------------------
(* A step of one rank.                                                      *)

\* What of a rank the invariant speaks about.
Untouched(s) ==
    /\ at'[s] = at[s] /\ nlist'[s] = nlist[s] /\ passes'[s] = passes[s]
    /\ firstStep'[s] = firstStep[s]

KeepsView(r) ==
    /\ Asks(r)' <=> Asks(r)
    /\ ~ Asks(r) => (Migrates(r)' <=> Migrates(r))
    /\ AgeAfter(r)' = AgeAfter(r)
    /\ Asks(r) \/ Migrates(r) => Left(r)' = Left(r)

LEMMA AnswersStay ==
  ASSUME UNCHANGED <<cutoff, period>>, NEW s, nlist'[s] = nlist[s]
  PROVE  /\ Answer(nlist[s])' = Answer(nlist[s])
         /\ Cached(nlist[s])' <=> Cached(nlist[s])
<1>1. Cached(nlist[s])' <=> Cached(nlist[s])
  BY DEF Cached
<1>2. BuildsAnyway(nlist[s])' <=> BuildsAnyway(nlist[s])
  BY DEF BuildsAnyway, RBuff, DistCheck, Every
<1> QED
  BY <1>1, <1>2 DEF Answer, Every

LEMMA UntouchedView ==
  ASSUME UNCHANGED <<cutoff, period>>, NEW s, Untouched(s)
  PROVE  KeepsView(s)
<1>1. /\ Answer(nlist[s])' = Answer(nlist[s])
      /\ Cached(nlist[s])' <=> Cached(nlist[s])
  BY AnswersStay DEF Untouched
<1>2. Asks(s)' <=> Asks(s)
  BY <1>1 DEF Asks, Untouched
<1>3. Migrates(s)' <=> Migrates(s)
  BY <1>1 DEF Migrates, Untouched
<1>4. Keeps(s)' <=> Keeps(s)
  BY <1>1, <1>2, <1>3 DEF Keeps, Untouched
<1>5. AgeAfter(s)' = AgeAfter(s)
  BY <1>4 DEF AgeAfter, Untouched
<1>6. Left(s)' = Left(s)
  BY DEF Left, Untouched
<1> QED
  BY <1>2, <1>3, <1>5, <1>6 DEF KeepsView

LEMMA UntouchedPlaced ==
  ASSUME UNCHANGED <<cutoff, period>>, NEW s, Untouched(s), sorted'[s] = sorted[s],
         ptls'[s] = ptls[s], PlacedAt(s)
  PROVE  PlacedAt(s)'
<1>1. Answer(nlist[s])' = Answer(nlist[s])
  BY AnswersStay DEF Untouched
<1>2. SameAsBuilt(s)' <=> SameAsBuilt(s)
  BY DEF SameAsBuilt, TagsInOrder, Untouched
<1> QED
  BY <1>1, <1>2 DEF PlacedAt, Untouched

\* Ranks at rest have the same list, as far as decisions go.
LEMMA RestedAlike ==
  ASSUME ListFields, NEW r \in Ranks, NEW s \in Ranks, at[r] = "idle", at[s] = "idle",
         Rested(r), Rested(s), SameView(r, s)
  PROVE  Alike(nlist[r], nlist[s])
<1>1. ~ Asks(r) /\ ~ Asks(s)
  BY DEF Asks
<1>2. (Migrates(r) <=> nlist[r].result) /\ (Migrates(s) <=> nlist[s].result)
  BY DEF Migrates, Rested
<1>3. AgeAfter(r) = nlist[r].age /\ AgeAfter(s) = nlist[s].age
  BY <1>2 DEF AgeAfter, Keeps
<1>4. nlist[r].result \in BOOLEAN /\ nlist[s].result \in BOOLEAN
      /\ nlist[r].force \in BOOLEAN /\ nlist[s].force \in BOOLEAN
      /\ nlist[r].checkedNow \in BOOLEAN /\ nlist[s].checkedNow \in BOOLEAN
  BY DEF ListFields, IsList, Lists
<1>5. nlist[r].result <=> nlist[s].result
  BY <1>1, <1>2 DEF SameView
<1>6. nlist[r].result = nlist[s].result
  BY <1>4, <1>5
<1>7. nlist[r].force = nlist[s].force /\ nlist[r].checkedNow = nlist[s].checkedNow
  BY <1>4 DEF Rested
<1>8. nlist[r].age = nlist[s].age
  BY <1>3 DEF SameView
<1> QED
  BY <1>6, <1>7, <1>8 DEF Alike

AllRested == \A r \in Ranks : at[r] = "idle" /\ Rested(r)
AllSameView == \A r, s \in Ranks : SameView(r, s)
AllAlike == \A r, s \in Ranks : Alike(nlist[r], nlist[s])

LEMMA RestAgrees == ListFields /\ AllRested /\ AllSameView => AllAlike
BY RestedAlike DEF AllRested, AllSameView, AllAlike

LEMMA RestAgreesNext == ListFields' /\ AllRested' /\ AllSameView' => AllAlike'
BY RestAgrees, PTL

LEMMA AloneKeeps ==
  ASSUME ListInv, NEW r \in Ranks, at[r] # "idle",
         UNCHANGED <<cutoff, period, firstStep, ptls>>,
         \A s \in Ranks \ {r} : Untouched(s) /\ sorted'[s] = sorted[s],
         ListFields', PlacedAt(r)', KeepsView(r), at'[r] = "idle" => Rested(r)'
  PROVE  ListInv'
<1>1. ~ AllIdle
  BY DEF AllIdle
<1>2. \A s \in Ranks : KeepsView(s)
  BY UntouchedView
<1>3. \A s \in Ranks : PlacedAt(s)'
  <2>1. ASSUME NEW s \in Ranks \ {r} PROVE PlacedAt(s)'
    BY UntouchedPlaced DEF ListInv
  <2> QED
    BY <2>1
<1>4. \A s, t \in Ranks : SameView(s, t)'
  <2>1. ASSUME NEW s \in Ranks, NEW t \in Ranks PROVE SameView(s, t)'
    <3>1. SameView(s, t) /\ KeepsView(s) /\ KeepsView(t)
      BY <1>1, <1>2 DEF ListInv, Common
    <3> QED
      BY <3>1 DEF SameView, KeepsView
  <2> QED
    BY <2>1
<1>5. \A s \in Ranks : at'[s] = "idle" => Rested(s)'
  <2>1. ASSUME NEW s \in Ranks \ {r}, at'[s] = "idle" PROVE Rested(s)'
    <3>1. at[s] = "idle" /\ Rested(s)
      BY <1>1, <2>1 DEF Untouched, ListInv, Common
    <3> QED
      BY <3>1 DEF Rested, Untouched
  <2> QED
    BY <2>1
<1>6. AllIdle' => \A s, t \in Ranks : Alike(nlist'[s], nlist'[t])
  <2>1. AllSameView'
    BY <1>4 DEF AllSameView
  <2>2. AllIdle' => AllRested'
    BY <1>5 DEF AllIdle, AllRested
  <2> QED
    BY <2>1, <2>2, RestAgreesNext DEF AllAlike, Alike
<1>7. \A s, t \in Ranks : firstStep'[s] = firstStep'[t]
  BY DEF ListInv, Common
<1>8. Common'
  BY <1>4, <1>5, <1>6, <1>7 DEF Common, Alike
<1> QED
  BY <1>3, <1>8 DEF ListInv

-----------------------------------------------------------------------------
(* Asking.                                                                  *)

LEMMA ListIs ==
  ASSUME ListFields, NEW r \in Ranks
  PROVE  /\ nlist[r] \in Lists(nlist[r].lastPos, nlist[r].pairs, nlist[r].exIdx) /\ IsList(nlist[r])
         /\ at[r] \in Locations /\ passes[r] \in 1 .. 2
         /\ sorted[r] \in BOOLEAN /\ firstStep[r] \in BOOLEAN
BY DEF ListFields, IsList

\* What a rank answers later, with what it has by then.
LEMMA AnswerNext ==
  ASSUME UNCHANGED <<cutoff, period>>, NEW s, NEW m, nlist'[s] = m
  PROVE  /\ Answer(nlist[s])' = Answer(m)
         /\ Cached(nlist[s])' <=> Cached(m)
<1>1. Cached(nlist[s])' <=> Cached(m)
  BY DEF Cached
<1>2. BuildsAnyway(nlist[s])' <=> BuildsAnyway(m)
  BY DEF BuildsAnyway, RBuff, DistCheck, Every
<1> QED
  BY <1>1, <1>2 DEF Answer, Every

LEMMA OneListChanges ==
  ASSUME ListFields, NEW r \in Ranks, NEW m, IsList(m), NEW place \in Locations,
         at' = [at EXCEPT ![r] = place], nlist' = [nlist EXCEPT ![r] = m],
         UNCHANGED <<passes, firstStep>>,
         sorted' \in [Ranks -> BOOLEAN], forcesDone' \in [Ranks -> BOOLEAN]
  PROVE  /\ ListFields' /\ at'[r] = place /\ nlist'[r] = m
         /\ \A s \in Ranks \ {r} : Untouched(s)
<1>1. nlist' = [s \in Ranks |-> IF s = r THEN m ELSE nlist[s]]
  BY DEF ListFields
<1>2. nlist' = [s \in Ranks |-> nlist'[s]]
  BY <1>1
<1>3. \A s \in Ranks : IsList(nlist'[s])
  BY <1>1 DEF ListFields
<1>4. at' \in [Ranks -> Locations]
  BY DEF ListFields
<1>5. ListFields'
  BY <1>2, <1>3, <1>4 DEF ListFields, IsList
<1> QED
  BY <1>1, <1>5 DEF ListFields, Untouched

LEMMA AskIs ==
  ASSUME ListFields, NEW r \in Ranks, NEW n, IsList(n), Answer(n) # "ask",
         NEW yes \in Locations, NEW no \in Locations, NEW wait, Ask(r, n, yes, no, wait),
         UNCHANGED <<passes, firstStep>>,
         sorted' \in [Ranks -> BOOLEAN], forcesDone' \in [Ranks -> BOOLEAN]
  PROVE  /\ ListFields' /\ \A s \in Ranks \ {r} : Untouched(s)
         /\ at'[r] = IF Answer(n) = "yes" THEN yes ELSE no
         /\ nlist'[r].checkedNow /\ ~ nlist'[r].force
         /\ nlist'[r].result <=> Answer(n) = "yes"
         /\ nlist'[r].age = IF Cached(n) \/ Answer(n) # "yes" THEN n.age ELSE 0
         /\ nlist'[r].lastPos = n.lastPos
<1> DEFINE b == Answer(n) = "yes"
           m == Answered(n, b)
           place == IF b THEN yes ELSE no
<1>1. /\ at' = [at EXCEPT ![r] = place]
      /\ nlist' = [nlist EXCEPT ![r] = m]
  <2>1. Answer(n) \in {"yes", "no"}
    BY AnswerIs
  <2>2. (CASE Answer(n) = "yes" -> yes [] Answer(n) = "no" -> no [] OTHER -> wait) = place
    BY <2>1
  <2> HIDE DEF place
  <2> QED
    BY <2>2 DEF Ask
<1>2. b \in BOOLEAN /\ place \in Locations /\ m = Answered(n, b)
  OBVIOUS
<1>3. Cached(n) => (n.result <=> b)
  BY AnswerIs
<1> HIDE DEF b, m
<1>4. /\ IsList(m) /\ m.checkedNow /\ ~ m.force
      /\ m.result <=> IF Cached(n) THEN n.result ELSE b
      /\ m.age = IF Cached(n) \/ ~ b THEN n.age ELSE 0
      /\ m.lastPos = n.lastPos
  BY <1>2, AnsweredIs
<1> HIDE DEF place
<1>5. /\ ListFields' /\ at'[r] = place /\ nlist'[r] = m
      /\ \A s \in Ranks \ {r} : Untouched(s)
  <2>1. IsList(m) /\ place \in Locations
    BY <1>2, <1>4
  <2> QED
    BY <1>1, <2>1, OneListChanges
<1> QED
  BY <1>3, <1>4, <1>5 DEF b, place

LEMMA AskWaits ==
  ASSUME ListFields, NEW r \in Ranks, NEW yes, NEW no, NEW wait \in Locations,
         Ask(r, nlist[r], yes, no, wait), Answer(nlist[r]) = "ask",
         UNCHANGED <<passes, firstStep, sorted, forcesDone>>
  PROVE  /\ ListFields' /\ \A s \in Ranks \ {r} : Untouched(s)
         /\ at'[r] = wait /\ Alike(nlist'[r], nlist[r]) /\ nlist'[r].lastPos = nlist[r].lastPos
<1> DEFINE n == nlist[r]
           b == MovedTooFar(r)
           m == [n EXCEPT !.moved = b]
<1>1. at' = [at EXCEPT ![r] = wait] /\ nlist' = [nlist EXCEPT ![r] = m]
  BY DEF Ask
<1>2. b \in BOOLEAN
  BY DEF MovedTooFar
<1>3. n \in Lists(n.lastPos, n.pairs, n.exIdx)
  BY ListIs
<1> HIDE DEF n, b
<1>4. /\ m \in Lists(n.lastPos, n.pairs, n.exIdx)
      /\ m.lastPos = n.lastPos /\ m.pairs = n.pairs /\ m.exIdx = n.exIdx
      /\ Alike(m, n)
  BY <1>2, <1>3 DEF Lists, Alike
<1> HIDE DEF m
<1>5. IsList(m)
  BY <1>4 DEF IsList
<1>6. sorted' \in [Ranks -> BOOLEAN] /\ forcesDone' \in [Ranks -> BOOLEAN]
  BY DEF ListFields
<1>7. /\ ListFields' /\ at'[r] = wait /\ nlist'[r] = m
      /\ \A s \in Ranks \ {r} : Untouched(s)
  BY <1>1, <1>5, <1>6, OneListChanges
<1> QED
  BY <1>4, <1>7 DEF n

-----------------------------------------------------------------------------
(* The steps of a rank.                                                     *)

LEMMA CommunicateKeeps ==
  ASSUME ListInv, NEW r \in Ranks, Communicate(r)
  PROVE  ListInv'
<1> DEFINE n == nlist[r]
           no == IF firstStep[r] THEN "migrate" ELSE "update"
<1>1. /\ at[r] = "check" /\ Ask(r, n, "migrate", no, "wait")
      /\ UNCHANGED <<cutoff, period, firstStep, ptls, passes, sorted, forcesDone>>
  BY DEF Communicate, ghostVars, script
<1>2. ListFields /\ IsList(n) /\ PlacedAt(r) /\ firstStep[r] \in BOOLEAN
      /\ sorted \in [Ranks -> BOOLEAN] /\ forcesDone \in [Ranks -> BOOLEAN]
  BY ListIs DEF ListInv, ListFields
<1>3. /\ n.force => Answer(n) = "yes"
      /\ Cached(n) => (n.result <=> Answer(n) = "yes")
      /\ Answer(n) = "ask" => ~ Cached(n)
  BY <1>2, AnswerIs
<1>4. CASE Answer(n) # "ask"
  <2>1. no \in Locations /\ "migrate" \in Locations
    BY DEF Locations
  <2>2. /\ ListFields' /\ \A s \in Ranks \ {r} : Untouched(s)
        /\ at'[r] = IF Answer(n) = "yes" THEN "migrate" ELSE no
        /\ nlist'[r].checkedNow /\ ~ nlist'[r].force
        /\ nlist'[r].result <=> Answer(n) = "yes"
        /\ nlist'[r].age = IF Cached(n) \/ Answer(n) # "yes" THEN n.age ELSE 0
        /\ nlist'[r].lastPos = n.lastPos
    <3> HIDE DEF n, no
    <3> QED
      BY <1>1, <1>2, <1>4, <2>1, AskIs
  <2>3. at'[r] \in {"migrate", "update"} /\ (at'[r] = "migrate" <=> Answer(n) = "yes" \/ firstStep[r])
    BY <2>2
  <2>4. at'[r] = "update" => SameAsBuilt(r)'
    BY <1>1, <1>2, <1>3, <2>2, <2>3 DEF PlacedAt, SameAsBuilt, TagsInOrder
  <2>5. PlacedAt(r)'
    BY <1>1, <2>2, <2>3, <2>4 DEF PlacedAt
  <2>6. ~ Asks(r) /\ ~ Asks(r)'
    BY <1>1, <1>4, <2>3 DEF Asks
  <2>7. (Migrates(r) <=> Answer(n) = "yes" \/ firstStep[r]) /\ (Migrates(r)' <=> Migrates(r))
    BY <1>1, <2>3 DEF Migrates
  <2>8. AgeAfter(r)' = AgeAfter(r)
    BY <1>1, <1>3, <2>2, <2>3, <2>6, <2>7 DEF AgeAfter, Keeps
  <2>9. Migrates(r) => Left(r)' = Left(r)
    BY <1>1, <2>3, <2>7 DEF Left
  <2>10. KeepsView(r)
    BY <2>6, <2>7, <2>8, <2>9 DEF KeepsView
  <2>11. \A s \in Ranks \ {r} : Untouched(s) /\ sorted'[s] = sorted[s]
    BY <1>1, <2>2
  <2>12. at[r] # "idle" /\ at'[r] # "idle"
    BY <1>1, <2>3
  <2> QED
    BY <1>1, <2>2, <2>5, <2>10, <2>11, <2>12, AloneKeeps
<1>5. CASE Answer(n) = "ask"
  <2>1. /\ ListFields' /\ \A s \in Ranks \ {r} : Untouched(s)
        /\ at'[r] = "wait" /\ Alike(nlist'[r], n) /\ nlist'[r].lastPos = n.lastPos
    <3>1. "wait" \in Locations
      BY DEF Locations
    <3> HIDE DEF no
    <3> QED
      BY <1>1, <1>2, <1>5, <3>1, AskWaits
  <2>2. Answer(nlist[r])' = "ask"
    <3> DEFINE m == nlist'[r]
    <3>1. Answer(nlist[r])' = Answer(m)
      BY <1>1, AnswerNext
    <3> HIDE DEF m
    <3>2. Answer(m) = Answer(n)
      BY <2>1, AlikeAnswer DEF m
    <3> QED
      BY <1>5, <3>1, <3>2
  <2>3. SameAsBuilt(r)'
    BY <1>1, <1>2, <1>3, <1>5, <2>1 DEF PlacedAt, SameAsBuilt, TagsInOrder
  <2>4. PlacedAt(r)'
    BY <2>1, <2>2, <2>3 DEF PlacedAt
  <2>5. Asks(r) /\ Asks(r)'
    BY <1>1, <1>5, <2>1 DEF Asks
  <2>6. AgeAfter(r)' = AgeAfter(r)
    BY <2>1, <2>5 DEF AgeAfter, Keeps, Alike
  <2>7. Left(r)' = Left(r)
    BY <1>1, <2>1 DEF Left
  <2>8. KeepsView(r)
    BY <2>5, <2>6, <2>7 DEF KeepsView
  <2>9. \A s \in Ranks \ {r} : Untouched(s) /\ sorted'[s] = sorted[s]
    BY <1>1, <2>1
  <2>10. at[r] # "idle" /\ at'[r] # "idle"
    BY <1>1, <2>1
  <2> QED
    BY <1>1, <2>1, <2>4, <2>8, <2>9, <2>10, AloneKeeps
<1> QED
  BY <1>4, <1>5

LEMMA UpdateKeeps ==
  ASSUME ListInv, NEW r \in Ranks, Update(r)
  PROVE  ListInv'
<1>1. /\ at[r] = "update" /\ at' = [at EXCEPT ![r] = "ghosts"]
      /\ UNCHANGED <<cutoff, period, nlist, firstStep, ptls, passes, sorted, forcesDone>>
  BY DEF Update, script
<1>2. ListFields /\ PlacedAt(r)
  BY DEF ListInv
<1>3. ListFields' /\ at'[r] = "ghosts"
  BY <1>1, <1>2 DEF ListFields, Locations
<1>4. \A s \in Ranks \ {r} : Untouched(s) /\ sorted'[s] = sorted[s]
  BY <1>1, <1>2 DEF Untouched, ListFields
<1>5. /\ nlist[r].checkedNow /\ ~ nlist[r].force /\ ~ nlist[r].result /\ ~ firstStep[r] /\ SameAsBuilt(r)
  BY <1>1, <1>2 DEF PlacedAt
<1>6. PlacedAt(r)'
  BY <1>1, <1>3, <1>5 DEF PlacedAt, SameAsBuilt, TagsInOrder
<1>7. ~ Asks(r) /\ ~ Asks(r)' /\ ~ Migrates(r) /\ ~ Migrates(r)'
  BY <1>1, <1>3, <1>5 DEF Asks, Migrates
<1>8. AgeAfter(r)' = AgeAfter(r)
  BY <1>1, <1>7 DEF AgeAfter, Keeps
<1>9. KeepsView(r)
  BY <1>7, <1>8 DEF KeepsView
<1> QED
  BY <1>1, <1>3, <1>4, <1>6, <1>9, AloneKeeps

LEMMA ExchangeOrUpdateKeeps ==
  ASSUME ListInv, NEW r \in Ranks, ExchangeOrUpdate(r)
  PROVE  ListInv'
<1>1. ptls' = ptls
  <2>1. GhostStep(r, Width)
    BY DEF ExchangeOrUpdate
  <2> QED
    BY <2>1 DEF GhostStep, BeginExchange, ReceiveGhosts, BeginUpdate, ReceivePositions
<1>2. /\ at[r] = "ghosts"
      /\ UNCHANGED <<at, nlist, cutoff, period, firstStep, passes, sorted, forcesDone>>
  BY DEF ExchangeOrUpdate, listVars, script
<1>3. ListFields'
  BY <1>2 DEF ListInv, ListFields
<1>4. \A s \in Ranks : Untouched(s) /\ sorted'[s] = sorted[s] /\ ptls'[s] = ptls[s]
  BY <1>1, <1>2 DEF Untouched
<1>5. PlacedAt(r)' /\ KeepsView(r)
  BY <1>2, <1>4, UntouchedPlaced, UntouchedView DEF ListInv
<1> QED
  BY <1>1, <1>2, <1>3, <1>4, <1>5, AloneKeeps

\* A rank that has its forces is done, or communicates again.
LEMMA FinishKeeps ==
  ASSUME ListInv, NEW r \in Ranks, at[r] \in {"ghosts", "forces"}, ~ nlist[r].force,
         Finish(r), UNCHANGED <<cutoff, period, nlist, firstStep, ptls, sorted, forcesDone>>
  PROVE  ListInv'
<1> DEFINE n == nlist[r]
<1>1. ListFields /\ IsList(n) /\ PlacedAt(r) /\ passes[r] \in 1 .. 2
  BY ListIs DEF ListInv
<1>2. /\ at'[r] = IF passes[r] > 1 THEN "check" ELSE "idle"
      /\ passes'[r] = IF passes[r] > 1 THEN passes[r] - 1 ELSE 1
      /\ ListFields' /\ \A s \in Ranks \ {r} : Untouched(s) /\ sorted'[s] = sorted[s]
  <2>1. passes' \in [Ranks -> 1 .. 2] /\ at' \in [Ranks -> Locations]
    BY <1>1 DEF Finish, ListFields, Locations
  <2> QED
    BY <1>1, <2>1 DEF Finish, ListFields, Untouched
<1>3. n.checkedNow /\ ~ n.force /\ ~ firstStep[r] /\ SameAsBuilt(r)
  BY <1>1 DEF PlacedAt
<1>4. /\ Cached(n)' /\ Answer(n)' = IF n.result THEN "yes" ELSE "no"
  <2>1. (Answer(n)' = Answer(n)) /\ (Cached(n)' <=> Cached(n))
    BY AnswersStay
  <2>2. Cached(n)
    BY <1>3 DEF Cached
  <2> QED
    BY <1>1, <2>1, <2>2, AnswerIs
<1>5. PlacedAt(r)'
  <2>1. SameAsBuilt(r)'
    BY <1>3 DEF SameAsBuilt, TagsInOrder
  <2>2. at'[r] = "idle" => passes'[r] = 1
    BY <1>1, <1>2
  <2> QED
    BY <1>2, <2>1, <2>2 DEF PlacedAt
<1>6. ~ Asks(r) /\ ~ Asks(r)'
  BY <1>2, <1>4 DEF Asks
<1>7. (Migrates(r) <=> n.result) /\ (Migrates(r)' <=> n.result)
  <2>1. Migrates(r) <=> n.result
    BY <1>3 DEF Migrates
  <2>2. CASE at'[r] = "check"
    BY <1>3, <1>4, <2>2 DEF Migrates
  <2>3. CASE at'[r] = "idle"
    BY <1>3, <2>3 DEF Migrates
  <2> QED
    BY <1>2, <2>1, <2>2, <2>3
<1>8. AgeAfter(r) = n.age /\ AgeAfter(r)' = n.age
  BY <1>4, <1>6, <1>7 DEF AgeAfter, Keeps
<1>9. Left(r) = passes[r] - 1 /\ Left(r)' = Left(r)
  BY <1>1, <1>2 DEF Left
<1>10. KeepsView(r)
  BY <1>6, <1>7, <1>8, <1>9 DEF KeepsView
<1>11. Rested(r)' /\ at[r] # "idle"
  BY <1>3 DEF Rested
<1> QED
  BY <1>2, <1>5, <1>10, <1>11, AloneKeeps

LEMMA SkipForcesKeeps ==
  ASSUME ListInv, NEW r \in Ranks, SkipForces(r)
  PROVE  ListInv'
<1>1. /\ at[r] = "ghosts" /\ Finish(r) /\ ~ sorted[r]
      /\ UNCHANGED <<cutoff, period, nlist, firstStep, ptls, sorted, forcesDone>>
  BY DEF SkipForces, ForcesKnown, ghostVars, script
<1>2. ~ nlist[r].force
  BY <1>1 DEF ListInv, PlacedAt
<1> QED
  BY <1>1, <1>2, FinishKeeps

LEMMA UseListKeeps ==
  ASSUME ListInv, NEW r \in Ranks, UseList(r)
  PROVE  ListInv'
<1>1. /\ at[r] = "forces" /\ Finish(r)
      /\ UNCHANGED <<cutoff, period, nlist, firstStep, ptls, sorted, forcesDone>>
  BY DEF UseList, ghostVars, script
<1>2. ~ nlist[r].force
  BY <1>1 DEF ListInv, PlacedAt
<1> QED
  BY <1>1, <1>2, FinishKeeps

LEMMA ComputeKeeps ==
  ASSUME ListInv, NEW r \in Ranks, Compute(r)
  PROVE  ListInv'
<1> DEFINE n == nlist[r]
           exIdx == IF n.force /\ excluded # {} THEN Translated(r) ELSE n.exIdx
           m == [n EXCEPT !.done = TRUE, !.exIdx = exIdx]
<1>1. /\ at[r] = "ghosts"
      /\ sorted' = [sorted EXCEPT ![r] = FALSE]
      /\ forcesDone' = [forcesDone EXCEPT ![r] = @ \/ ~ sorted[r]]
      /\ IF n.done /\ ~ n.force
           THEN at' = [at EXCEPT ![r] = "forces"] /\ UNCHANGED nlist
           ELSE Ask(r, m, "build", "forces", "waitBuild")
      /\ UNCHANGED <<cutoff, period, firstStep, ptls, passes>>
  BY DEF Compute, ghostVars, script
<1>2. /\ ListFields /\ PlacedAt(r) /\ n \in Lists(n.lastPos, n.pairs, n.exIdx) /\ IsList(n)
  BY ListIs DEF ListInv
<1>3. /\ sorted' \in [Ranks -> BOOLEAN] /\ forcesDone' \in [Ranks -> BOOLEAN]
      /\ \A s \in Ranks \ {r} : sorted'[s] = sorted[s]
  BY <1>1, <1>2 DEF ListFields
<1>4. /\ n.checkedNow /\ ~ firstStep[r] /\ (~ n.force => SameAsBuilt(r))
  BY <1>1, <1>2 DEF PlacedAt
<1>5. ~ Asks(r) /\ (Migrates(r) <=> n.result \/ n.force)
  BY <1>1 DEF Asks, Migrates
<1>6. AgeAfter(r) = IF n.force /\ ~ n.result THEN 0 ELSE n.age
  BY <1>1, <1>5 DEF AgeAfter, Keeps
<1>7. SUFFICES /\ ListFields' /\ \A s \in Ranks \ {r} : Untouched(s)
               /\ at'[r] \in {"build", "forces"} /\ (at'[r] = "forces" => ~ n.force)
               /\ nlist'[r].checkedNow /\ ~ nlist'[r].force
               /\ nlist'[r].result <=> n.result \/ n.force
               /\ nlist'[r].age = IF n.force /\ ~ n.result THEN 0 ELSE n.age
               /\ nlist'[r].lastPos = n.lastPos
  <2>1. PlacedAt(r)'
    BY <1>1, <1>4, <1>7 DEF PlacedAt, SameAsBuilt, TagsInOrder
  <2>2. ~ Asks(r)' /\ (Migrates(r)' <=> Migrates(r))
    BY <1>5, <1>7 DEF Asks, Migrates
  <2>3. AgeAfter(r)' = AgeAfter(r)
    BY <1>5, <1>6, <1>7, <2>2 DEF AgeAfter, Keeps
  <2>4. Left(r)' = Left(r)
    BY <1>1, <1>7 DEF Left
  <2>5. KeepsView(r)
    BY <1>5, <2>2, <2>3, <2>4 DEF KeepsView
  <2>6. \A s \in Ranks \ {r} : Untouched(s) /\ sorted'[s] = sorted[s]
    BY <1>3, <1>7
  <2>7. at[r] # "idle" /\ at'[r] # "idle"
    BY <1>1, <1>7
  <2> QED
    BY <1>1, <1>7, <2>1, <2>5, <2>6, <2>7, AloneKeeps
<1>8. CASE n.done /\ ~ n.force
  <2>1. at' = [at EXCEPT ![r] = "forces"] /\ UNCHANGED nlist
    BY <1>1, <1>8
  <2>2. ListFields' /\ at'[r] = "forces"
    BY <1>1, <1>2, <1>3, <2>1 DEF ListFields, Locations
  <2>3. \A s \in Ranks \ {r} : Untouched(s)
    BY <1>1, <1>2, <2>1 DEF Untouched, ListFields
  <2> QED
    BY <1>4, <1>8, <2>1, <2>2, <2>3
<1>9. CASE ~ (n.done /\ ~ n.force)
  <2>1. Ask(r, m, "build", "forces", "waitBuild")
    BY <1>1, <1>9
  <2> HIDE DEF n, exIdx
  <2>2. /\ m \in Lists(n.lastPos, n.pairs, exIdx)
        /\ m.lastPos = n.lastPos /\ m.pairs = n.pairs /\ m.exIdx = exIdx
        /\ m.force = n.force /\ m.checkedNow = n.checkedNow /\ m.result = n.result /\ m.age = n.age
    BY <1>2 DEF Lists
  <2> HIDE DEF m
  <2>3. IsList(m)
    BY <2>2 DEF IsList
  <2>4. Cached(m) <=> ~ (n.force /\ ~ n.result)
    BY <1>4, <2>2 DEF Cached
  <2>5. Answer(m) # "ask" /\ (Answer(m) = "yes" <=> n.result \/ n.force)
    BY <1>4, <2>2, <2>3, <2>4, AnswerIs
  <2>6. "build" \in Locations /\ "forces" \in Locations
    BY DEF Locations
  <2>7. /\ ListFields' /\ \A s \in Ranks \ {r} : Untouched(s)
        /\ at'[r] = IF Answer(m) = "yes" THEN "build" ELSE "forces"
        /\ nlist'[r].checkedNow /\ ~ nlist'[r].force
        /\ nlist'[r].result <=> Answer(m) = "yes"
        /\ nlist'[r].age = IF Cached(m) \/ Answer(m) # "yes" THEN m.age ELSE 0
        /\ nlist'[r].lastPos = m.lastPos
    BY <1>1, <1>2, <1>3, <2>1, <2>3, <2>5, <2>6, AskIs
  <2> QED
    BY <2>2, <2>4, <2>5, <2>7
<1> QED
  BY <1>8, <1>9

LEMMA BuildKeeps ==
  ASSUME ListInv, NEW r \in Ranks, Build(r)
  PROVE  ListInv'
<1> DEFINE n == nlist[r]
           pairs == Near(r, Width) \ (IF excluded = {} THEN {} ELSE n.exIdx)
           m == [n EXCEPT !.pairs = pairs, !.lastPos = ptls[r]]
<1>1. /\ ListFields /\ PlacedAt(r) /\ n \in Lists(n.lastPos, n.pairs, n.exIdx)
      /\ sorted \in [Ranks -> BOOLEAN] /\ forcesDone \in [Ranks -> BOOLEAN]
  BY ListIs DEF ListInv, ListFields
<1>2. /\ at[r] = "build" /\ at' = [at EXCEPT ![r] = "forces"]
      /\ nlist' = [nlist EXCEPT ![r] = m]
      /\ UNCHANGED <<cutoff, period, firstStep, ptls, passes, sorted, forcesDone>>
  <2>1. nlist' = [nlist EXCEPT ![r].pairs = pairs, ![r].lastPos = ptls[r]]
    BY DEF Build
  <2> HIDE DEF pairs
  <2>2. nlist = [s \in Ranks |-> nlist[s]]
    BY <1>1 DEF ListFields
  <2>3. [nlist EXCEPT ![r].pairs = pairs, ![r].lastPos = ptls[r]] = [nlist EXCEPT ![r] = m]
    BY <2>2, Zenon
  <2> QED
    BY <2>1, <2>3 DEF Build, ghostVars, script
<1> HIDE DEF n, pairs
<1>3. /\ m \in Lists(ptls[r], pairs, n.exIdx)
      /\ m.lastPos = ptls[r] /\ m.pairs = pairs /\ m.exIdx = n.exIdx
      /\ Alike(m, n)
  BY <1>1 DEF Lists, Alike
<1> HIDE DEF m
<1>4. IsList(m)
  BY <1>3 DEF IsList
<1>5. /\ ListFields' /\ at'[r] = "forces" /\ nlist'[r] = m
      /\ \A s \in Ranks \ {r} : Untouched(s)
  BY <1>1, <1>2, <1>4, OneListChanges DEF Locations
<1>6. /\ n.checkedNow /\ ~ n.force /\ ~ firstStep[r]
  BY <1>1, <1>2 DEF PlacedAt, n
<1>7. SameAsBuilt(r)'
  BY <1>2, <1>3, <1>5 DEF SameAsBuilt, TagsInOrder
<1>8. PlacedAt(r)'
  BY <1>2, <1>3, <1>5, <1>6, <1>7 DEF PlacedAt, Alike
<1>9. ~ Asks(r) /\ ~ Asks(r)'
  BY <1>2, <1>5 DEF Asks
<1>10. Migrates(r)' <=> Migrates(r)
  BY <1>2, <1>3, <1>5 DEF Migrates, Alike, n
<1>11. AgeAfter(r)' = AgeAfter(r)
  BY <1>2, <1>3, <1>5, <1>9, <1>10 DEF AgeAfter, Keeps, Alike, n
<1>12. Left(r)' = Left(r)
  BY <1>2, <1>5 DEF Left
<1>13. KeepsView(r)
  BY <1>9, <1>10, <1>11, <1>12 DEF KeepsView
<1>14. \A s \in Ranks \ {r} : Untouched(s) /\ sorted'[s] = sorted[s]
  BY <1>2, <1>5
<1>15. at[r] # "idle" /\ at'[r] # "idle"
  BY <1>2, <1>5
<1> QED
  BY <1>2, <1>5, <1>8, <1>13, <1>14, <1>15, AloneKeeps

-----------------------------------------------------------------------------
(* The steps that all ranks take together.                                  *)

LEMMA ReduceKeeps ==
  ASSUME ListInv, Reduce
  PROVE  ListInv'
<1> DEFINE yes == \E s \in Ranks : nlist[s].moved
           place(r) == IF yes \/ firstStep[r] THEN "migrate" ELSE "update"
           m(r) == [Answered(nlist[r], yes) EXCEPT !.moved = FALSE]
<1>1. /\ ListFields /\ \A r \in Ranks : PlacedAt(r)
      /\ \A r \in Ranks : at[r] = "wait" /\ Answer(nlist[r]) = "ask" /\ SameAsBuilt(r)
  BY DEF ListInv, Reduce, PlacedAt
<1>2. /\ at' = [r \in Ranks |-> place(r)]
      /\ nlist' = [r \in Ranks |-> m(r)]
      /\ UNCHANGED <<ptls, cutoff, period, sorted, forcesDone, passes, firstStep>>
  BY <1>1 DEF Reduce, AfterWait, AnyMoved, ghostVars
<1> HIDE DEF yes
<1>3. yes \in BOOLEAN
  BY DEF yes
<1>4. ASSUME NEW r \in Ranks
      PROVE  /\ IsList(m(r)) /\ m(r).checkedNow /\ ~ m(r).force /\ (m(r).result <=> yes)
             /\ m(r).age = IF yes THEN 0 ELSE nlist[r].age
             /\ m(r).lastPos = nlist[r].lastPos
  <2> DEFINE n == nlist[r]
             k == Answered(n, yes)
  <2>1. IsList(n) /\ ~ Cached(n)
    BY <1>1, ListIs, AnswerIs
  <2>2. /\ IsList(k) /\ k.checkedNow /\ ~ k.force /\ (k.result <=> yes)
        /\ k.age = IF yes THEN 0 ELSE n.age
        /\ k.lastPos = n.lastPos
    <3> HIDE DEF n
    <3>1. k = Answered(n, yes)
      OBVIOUS
    <3> HIDE DEF k
    <3> QED
      BY <1>3, <2>1, <3>1, AnsweredIs
  <2> HIDE DEF k
  <2>3. k \in Lists(k.lastPos, k.pairs, k.exIdx)
    BY <2>2 DEF IsList
  <2> DEFINE w == [k EXCEPT !.moved = FALSE]
  <2>4. /\ w \in Lists(k.lastPos, k.pairs, k.exIdx)
        /\ w.lastPos = k.lastPos /\ w.pairs = k.pairs /\ w.exIdx = k.exIdx
        /\ Alike(w, k)
    BY <2>3 DEF Lists, Alike
  <2>5. m(r) = w
    BY DEF k
  <2> HIDE DEF w, m
  <2>6. IsList(w)
    BY <2>4 DEF IsList
  <2> QED
    BY <2>2, <2>4, <2>5, <2>6 DEF Alike
<1> HIDE DEF m
<1>5. ListFields'
  <2>1. \A r \in Ranks : nlist'[r] = m(r)
    BY <1>2
  <2>2. \A r \in Ranks : IsList(nlist'[r])
    BY <1>4, <2>1
  <2>3. at' \in [Ranks -> Locations] /\ nlist' = [r \in Ranks |-> nlist'[r]]
    BY <1>2 DEF Locations
  <2> QED
    BY <1>1, <1>2, <2>2, <2>3 DEF ListFields, IsList
<1>6. \A r \in Ranks :
        /\ at'[r] = place(r) /\ nlist'[r].checkedNow /\ ~ nlist'[r].force
        /\ nlist'[r].result <=> yes
        /\ nlist'[r].age = IF yes THEN 0 ELSE nlist[r].age
        /\ nlist'[r].lastPos = nlist[r].lastPos
  BY <1>2, <1>4
<1>7. ASSUME NEW r \in Ranks
      PROVE  /\ PlacedAt(r)' /\ ~ Asks(r)' /\ (Migrates(r)' <=> yes \/ firstStep[r])
             /\ AgeAfter(r)' = IF yes \/ firstStep[r] THEN IF yes THEN nlist'[r].age ELSE 0 ELSE nlist[r].age
             /\ Migrates(r)' => Left(r)' = passes[r]
  <2>1. at'[r] \in {"migrate", "update"} /\ (at'[r] = "migrate" <=> yes \/ firstStep[r])
    BY <1>6
  <2>2. PlacedAt(r)'
    BY <1>1, <1>2, <1>6, <2>1 DEF PlacedAt, SameAsBuilt, TagsInOrder
  <2>3. ~ Asks(r)' /\ (Migrates(r)' <=> yes \/ firstStep[r])
    BY <2>1 DEF Asks, Migrates
  <2>4. AgeAfter(r)' = IF yes \/ firstStep[r] THEN IF yes THEN nlist'[r].age ELSE 0 ELSE nlist[r].age
    BY <1>6, <2>1, <2>3 DEF AgeAfter, Keeps
  <2>5. Migrates(r)' => Left(r)' = passes[r]
    BY <1>2, <2>1, <2>3 DEF Left
  <2> QED
    BY <2>2, <2>3, <2>4, <2>5
<1>8. ASSUME NEW r \in Ranks, NEW s \in Ranks PROVE SameView(r, s)'
  <2>1. ~ AllIdle /\ SameView(r, s) /\ firstStep[r] = firstStep[s]
    BY <1>1 DEF AllIdle, ListInv, Common
  <2>2. nlist[r].age = nlist[s].age /\ passes[r] = passes[s]
    BY <1>1, <2>1 DEF SameView, Asks, AgeAfter, Keeps, Left
  <2> QED
    BY <1>6, <1>7, <2>1, <2>2 DEF SameView
<1>9. \A r \in Ranks : at'[r] # "idle"
  BY <1>6
<1>10. Common'
  BY <1>2, <1>8, <1>9 DEF Common, AllIdle, ListInv
<1> QED
  BY <1>5, <1>7, <1>10 DEF ListInv

\* Lists that are to be built again.
LEMMA ForcedIs ==
  ASSUME ListFields, NEW r \in Ranks
  PROVE  LET m == Forced(nlist[r])
         IN  /\ IsList(m) /\ m.force /\ m.checkedNow = nlist[r].checkedNow
             /\ m.result = nlist[r].result /\ m.age = nlist[r].age
             /\ m.lastPos = nlist[r].lastPos
<1> DEFINE n == nlist[r]
           m == [n EXCEPT !.force = TRUE]
<1>1. n \in Lists(n.lastPos, n.pairs, n.exIdx)
  BY ListIs
<1> HIDE DEF n
<1>2. /\ m \in Lists(n.lastPos, n.pairs, n.exIdx)
      /\ m.lastPos = n.lastPos /\ m.pairs = n.pairs /\ m.exIdx = n.exIdx
      /\ m.force /\ m.checkedNow = n.checkedNow /\ m.result = n.result /\ m.age = n.age
  BY <1>1 DEF Lists
<1> HIDE DEF m
<1>3. IsList(m)
  BY <1>2 DEF IsList
<1> QED
  BY <1>2, <1>3 DEF Forced, m, n

LEMMA MigrateKeeps ==
  ASSUME ListInv, Migrate
  PROVE  ListInv'
<1>1. /\ ListFields /\ \A r \in Ranks : at[r] = "migrate" /\ PlacedAt(r)
  BY DEF ListInv, Migrate
<1>2. /\ at' = [r \in Ranks |-> "ghosts"]
      /\ nlist' = [r \in Ranks |-> Forced(nlist[r])] /\ sorted' = [r \in Ranks |-> TRUE]
      /\ firstStep' = [r \in Ranks |-> FALSE]
      /\ UNCHANGED <<cutoff, period, forcesDone, passes>>
  BY DEF Migrate, Notify, script
<1>3. \A r \in Ranks :
        /\ IsList(nlist'[r]) /\ nlist'[r].force /\ nlist'[r].checkedNow = nlist[r].checkedNow
        /\ nlist'[r].result = nlist[r].result /\ nlist'[r].age = nlist[r].age
  BY <1>1, <1>2, ForcedIs
<1>4. ListFields'
  BY <1>1, <1>2, <1>3 DEF ListFields, Locations, IsList
<1>5. ASSUME NEW r \in Ranks
      PROVE  /\ PlacedAt(r)' /\ ~ Asks(r)' /\ Migrates(r)' /\ AgeAfter(r)' = AgeAfter(r)
             /\ Left(r)' = Left(r) - 1 /\ ~ Asks(r) /\ Migrates(r)
  <2>1. nlist[r].checkedNow /\ at[r] = "migrate" /\ passes[r] \in 1 .. 2
    BY <1>1, ListIs DEF PlacedAt
  <2>2. PlacedAt(r)'
    BY <1>2, <1>3, <2>1 DEF PlacedAt
  <2>3. ~ Asks(r)' /\ Migrates(r)' /\ ~ Asks(r) /\ Migrates(r)
    BY <1>2, <1>3, <2>1 DEF Asks, Migrates
  <2>4. AgeAfter(r)' = AgeAfter(r)
    BY <1>2, <1>3, <2>1, <2>3 DEF AgeAfter, Keeps
  <2>5. Left(r)' = Left(r) - 1
    BY <1>2, <2>1 DEF Left
  <2> QED
    BY <2>2, <2>3, <2>4, <2>5
<1>6. ASSUME NEW r \in Ranks, NEW s \in Ranks PROVE SameView(r, s)'
  <2>1. SameView(r, s)
    BY <1>1 DEF AllIdle, ListInv, Common
  <2> QED
    BY <1>5, <2>1 DEF SameView
<1>7. Common'
  BY <1>2, <1>6 DEF Common, AllIdle
<1> QED
  BY <1>4, <1>5, <1>7 DEF ListInv

-----------------------------------------------------------------------------
(* Between the computations.                                                *)

AtCheck ==
    /\ \A r \in Ranks : at[r] = "check"
    /\ \A r, s \in Ranks : firstStep[r] = firstStep[s] /\ passes[r] = passes[s]

LEMMA CheckView == AtCheck /\ AllAlike => AllSameView
<1> SUFFICES ASSUME AtCheck, AllAlike, NEW r \in Ranks, NEW s \in Ranks PROVE SameView(r, s)
  BY DEF AllSameView
<1> DEFINE n == nlist[r]
           m == nlist[s]
<1>1. /\ at[r] = "check" /\ at[s] = "check" /\ firstStep[r] = firstStep[s] /\ passes[r] = passes[s]
      /\ Alike(n, m)
  BY DEF AtCheck, AllAlike
<1>2. Answer(n) = Answer(m) /\ (Cached(n) <=> Cached(m))
  BY <1>1, AlikeAnswer
<1>3. (Asks(r) <=> Asks(s)) /\ (Migrates(r) <=> Migrates(s))
  BY <1>1, <1>2 DEF Asks, Migrates
<1>4. AgeAfter(r) = AgeAfter(s) /\ Left(r) = Left(s)
  BY <1>1, <1>2, <1>3 DEF AgeAfter, Keeps, Alike, Left
<1> QED
  BY <1>3, <1>4 DEF SameView

LEMMA CheckViewNext == AtCheck' /\ AllAlike' => AllSameView'
BY CheckView, PTL

LEMMA BeginKeeps ==
  ASSUME ListInv, UNCHANGED firstStep, at' = [r \in Ranks |-> "check"],
         passes' \in [Ranks -> 1 .. 2], \A r, s \in Ranks : passes'[r] = passes'[s],
         nlist' = [r \in Ranks |-> nlist'[r]], \A r \in Ranks : IsList(nlist'[r]),
         \A r, s \in Ranks : Alike(nlist'[r], nlist'[s]),
         sorted' \in [Ranks -> BOOLEAN], forcesDone' \in [Ranks -> BOOLEAN],
         \A r \in Ranks : ~ nlist'[r].force => SameAsBuilt(r)'
  PROVE  ListInv'
<1>1. ListFields'
  BY DEF ListInv, ListFields, Locations, IsList
<1>2. \A r \in Ranks : PlacedAt(r)'
  BY DEF PlacedAt
<1>3. AtCheck' /\ AllAlike'
  BY DEF AtCheck, AllAlike, ListInv, Common, Alike
<1>4. \A r, s \in Ranks : SameView(r, s)'
  BY <1>3, CheckViewNext DEF AllSameView
<1>5. Common'
  BY <1>3, <1>4 DEF Common, AtCheck, AllAlike
<1> QED
  BY <1>1, <1>2, <1>5 DEF ListInv

\* A rank that has got nothing to do has a list that fits its particles.
LEMMA IdleIs ==
  ASSUME ListInv, AllIdle, NEW r \in Ranks
  PROVE  /\ passes[r] = 1 /\ (~ nlist[r].force => SameAsBuilt(r))
         /\ \A s \in Ranks : Alike(nlist[r], nlist[s])
BY DEF AllIdle, ListInv, Common, PlacedAt

LEMMA StepOneKeeps ==
  ASSUME ListInv, StepOne
  PROVE  ListInv'
<1> DEFINE age(r) == IF nlist[r].age < MaxPeriod THEN nlist[r].age + 1 ELSE nlist[r].age
           m(r) == [nlist[r] EXCEPT !.checkedNow = FALSE, !.done = FALSE, !.age = age(r)]
<1>1. /\ ListFields /\ AllIdle
      /\ at' = [r \in Ranks |-> "check"] /\ nlist' = [r \in Ranks |-> m(r)]
      /\ forcesDone' = [r \in Ranks |-> FALSE]
      /\ UNCHANGED <<sorted, passes, firstStep>>
  BY Zenon DEF StepOne, ListInv
<1>2. PICK d : ptls' = [r \in Ranks |-> Shifted(ptls[r], d)]
  BY Zenon DEF StepOne
<1>3. \A r \in Ranks : nlist[r].age \in Nat => age(r) \in Nat
  OBVIOUS
<1>4. \A r, s \in Ranks : nlist[r].age = nlist[s].age => age(r) = age(s)
  BY Zenon
<1> HIDE DEF age, m
<1>5. ASSUME NEW r \in Ranks
      PROVE  /\ IsList(nlist'[r]) /\ ~ nlist'[r].checkedNow /\ nlist'[r].force = nlist[r].force
             /\ nlist'[r].result = nlist[r].result /\ nlist'[r].age = age(r)
             /\ nlist'[r].lastPos = nlist[r].lastPos
  <2> DEFINE n == nlist[r]
             a == age(r)
             k == [n EXCEPT !.checkedNow = FALSE, !.done = FALSE, !.age = a]
  <2>1. n \in Lists(n.lastPos, n.pairs, n.exIdx)
    BY <1>1, ListIs
  <2>2. a \in Nat
    BY <1>3, <2>1 DEF Lists
  <2>3. nlist'[r] = k
    <3>1. nlist'[r] = m(r)
      BY <1>1
    <3>2. m(r) = k
      BY Zenon DEF m
    <3> QED
      BY <3>1, <3>2, Zenon
  <2> HIDE DEF n, a
  <2>4. /\ k \in Lists(n.lastPos, n.pairs, n.exIdx)
        /\ k.lastPos = n.lastPos /\ k.pairs = n.pairs /\ k.exIdx = n.exIdx
        /\ ~ k.checkedNow /\ k.force = n.force /\ k.result = n.result /\ k.age = a
    BY <2>1, <2>2 DEF Lists
  <2> HIDE DEF k
  <2>5. IsList(k)
    BY <2>4 DEF IsList
  <2> QED
    BY <2>3, <2>4, <2>5 DEF n, a
<1>6. \A r \in Ranks : TagsInOrder(ptls'[r]) = TagsInOrder(ptls[r])
  BY <1>2 DEF TagsInOrder, Shifted, Particle
<1>7. \A r \in Ranks : ~ nlist'[r].force => SameAsBuilt(r)'
  BY <1>1, <1>5, <1>6, IdleIs DEF SameAsBuilt
<1>8. \A r, s \in Ranks : Alike(nlist'[r], nlist'[s])
  <2>1. ASSUME NEW r \in Ranks, NEW s \in Ranks PROVE Alike(nlist'[r], nlist'[s])
    <3>1. Alike(nlist[r], nlist[s])
      BY <1>1, IdleIs
    <3>2. age(r) = age(s)
      BY <1>4, <3>1 DEF Alike
    <3>3. nlist'[r].checkedNow \in BOOLEAN /\ nlist'[s].checkedNow \in BOOLEAN
      BY <1>5 DEF IsList, Lists
    <3>4. nlist'[r].checkedNow = nlist'[s].checkedNow
      BY <1>5, <3>3
    <3> QED
      BY <1>5, <3>1, <3>2, <3>4 DEF Alike
  <2> QED
    BY <2>1
<1>9. nlist' = [r \in Ranks |-> nlist'[r]]
  BY <1>1
<1>10. \A r, s \in Ranks : passes'[r] = passes'[s]
  BY <1>1, IdleIs
<1>11. /\ passes' \in [Ranks -> 1 .. 2] /\ sorted' \in [Ranks -> BOOLEAN]
      /\ forcesDone' \in [Ranks -> BOOLEAN]
  BY <1>1 DEF ListFields
<1>12. \A r \in Ranks : IsList(nlist'[r])
  BY <1>5
<1> QED
  BY <1>1, <1>7, <1>8, <1>9, <1>10, <1>11, <1>12, BeginKeeps

LEMMA PrepRunKeeps ==
  ASSUME ListInv, PrepRun
  PROVE  ListInv'
<1>1. /\ ListFields /\ AllIdle /\ at' = [r \in Ranks |-> "check"]
      /\ UNCHANGED <<ptls, nlist, sorted, forcesDone, firstStep>>
  BY DEF PrepRun, ListInv, ghostVars
<1>2. PICK n \in 1 .. 2 : passes' = [r \in Ranks |-> n]
  BY DEF PrepRun
<1>3. /\ passes' \in [Ranks -> 1 .. 2] /\ \A r, s \in Ranks : passes'[r] = passes'[s]
  BY <1>2
<1>4. /\ nlist' = [r \in Ranks |-> nlist'[r]] /\ \A r \in Ranks : IsList(nlist'[r])
      /\ sorted' \in [Ranks -> BOOLEAN] /\ forcesDone' \in [Ranks -> BOOLEAN]
  BY <1>1 DEF ListFields
<1>5. \A r \in Ranks : ~ nlist'[r].force => SameAsBuilt(r)'
  BY <1>1, IdleIs DEF SameAsBuilt, TagsInOrder
<1>6. \A r, s \in Ranks : Alike(nlist'[r], nlist'[s])
  BY <1>1, IdleIs
<1> QED
  BY <1>1, <1>3, <1>4, <1>5, <1>6, BeginKeeps

\* What makes all lists be built anew.
LEMMA NotifyKeeps ==
  ASSUME ListInv, AllIdle, UNCHANGED <<at, passes, firstStep, forcesDone>>,
         nlist' = [r \in Ranks |-> Forced(nlist[r])], sorted' \in [Ranks -> BOOLEAN]
  PROVE  ListInv'
<1>1. ListFields /\ \A r \in Ranks : at[r] = "idle" /\ passes[r] = 1
  BY IdleIs DEF ListInv, AllIdle
<1>2. \A r \in Ranks :
        /\ IsList(nlist'[r]) /\ nlist'[r].force /\ nlist'[r].checkedNow = nlist[r].checkedNow
        /\ nlist'[r].result = nlist[r].result /\ nlist'[r].age = nlist[r].age
  BY <1>1, ForcedIs
<1>3. ListFields'
  BY <1>1, <1>2 DEF ListFields, IsList
<1>4. \A r \in Ranks : PlacedAt(r)'
  BY <1>1, <1>2 DEF PlacedAt
<1>5. \A r, s \in Ranks : Alike(nlist'[r], nlist'[s])
  <2>1. ASSUME NEW r \in Ranks, NEW s \in Ranks PROVE Alike(nlist'[r], nlist'[s])
    <3>1. Alike(nlist[r], nlist[s])
      BY IdleIs
    <3>2. nlist'[r].force = nlist'[s].force
      BY <1>2 DEF IsList, Lists
    <3> QED
      BY <1>2, <3>1, <3>2 DEF Alike
  <2> QED
    BY <2>1
<1>6. Common'
  BY <1>1, <1>5 DEF Common, AllIdle, ListInv
<1> QED
  BY <1>3, <1>4, <1>6 DEF ListInv

LEMMA StillKeeps ==
  ASSUME ListInv, UNCHANGED <<ptls, at, nlist, cutoff, period, passes, firstStep, sorted, forcesDone>>
  PROVE  ListInv'
<1>1. ListFields'
  BY DEF ListInv, ListFields
<1>2. \A r \in Ranks : Untouched(r) /\ sorted'[r] = sorted[r] /\ ptls'[r] = ptls[r]
  BY DEF Untouched
<1>3. \A r \in Ranks : PlacedAt(r)' /\ KeepsView(r)
  BY <1>2, UntouchedPlaced, UntouchedView DEF ListInv
<1>4. ASSUME ~ AllIdle, NEW r \in Ranks, NEW s \in Ranks PROVE SameView(r, s)'
  <2>1. SameView(r, s) /\ KeepsView(r) /\ KeepsView(s)
    BY <1>3, <1>4 DEF ListInv, Common
  <2> QED
    BY <2>1 DEF SameView, KeepsView
<1>5. AllIdle' <=> AllIdle
  BY DEF AllIdle
<1>6. \A r \in Ranks : Rested(r)' <=> Rested(r)
  BY DEF Rested
<1>7. Common'
  BY <1>4, <1>5, <1>6 DEF Common, ListInv, Alike
<1> QED
  BY <1>1, <1>3, <1>7 DEF ListInv

LEMMA ScriptKeeps ==
  ASSUME ListInv, Script
  PROVE  ListInv'
<1>1. CASE StepOne
  BY <1>1, StepOneKeeps
<1>2. CASE PrepRun
  BY <1>2, PrepRunKeeps
<1>3. CASE NewIntegrator
  BY <1>3, StillKeeps DEF NewIntegrator, ghostVars
<1>4. sorted \in [Ranks -> BOOLEAN] /\ [r \in Ranks |-> TRUE] \in [Ranks -> BOOLEAN]
  BY DEF ListInv, ListFields
<1>5. CASE Sort
  BY <1>4, <1>5, NotifyKeeps DEF Sort, Notify
<1>6. CASE Restore
  BY <1>4, <1>6, NotifyKeeps DEF Restore, Notify
<1>7. CASE SetParameters
  BY <1>4, <1>7, NotifyKeeps DEF SetParameters
<1>8. CASE ResetExclusions
  BY <1>4, <1>8, NotifyKeeps DEF ResetExclusions
<1> QED
  BY <1>1, <1>2, <1>3, <1>5, <1>6, <1>7, <1>8 DEF Script

LEMMA RankStepKeeps ==
  ASSUME ListInv, NEW r \in Ranks, RankStep(r)
  PROVE  ListInv'
BY CommunicateKeeps, UpdateKeeps, ExchangeOrUpdateKeeps, SkipForcesKeeps, ComputeKeeps,
   BuildKeeps, UseListKeeps DEF RankStep

LEMMA InitHolds ==
  ASSUME Init
  PROVE  ListInv
<1>1. /\ at = [r \in Ranks |-> "idle"] /\ nlist = [r \in Ranks |-> NewList]
      /\ sorted = [r \in Ranks |-> FALSE] /\ forcesDone = [r \in Ranks |-> FALSE]
      /\ passes = [r \in Ranks |-> 1] /\ firstStep = [r \in Ranks |-> TRUE]
  BY DEF Init
<1>2. IsList(NewList) /\ NewList.force
  BY DEF IsList, Lists, NewList
<1> HIDE DEF NewList
<1>3. ListFields
  BY <1>1, <1>2 DEF ListFields, Locations
<1>4. \A r \in Ranks : PlacedAt(r)
  BY <1>1, <1>2 DEF PlacedAt
<1>5. Common
  BY <1>1 DEF Common, AllIdle, Alike
<1> QED
  BY <1>3, <1>4, <1>5 DEF ListInv

-----------------------------------------------------------------------------
(* The theorems.                                                            *)

\* Wherever the ranks are in a computation, their lists are due together:
\* each has been asked as often as its place requires, and what it has not
\* been told yet is settled by what the others know.
THEOREM Invariance == Spec => []ListInv
<1>1. Init => ListInv
  BY InitHolds
<1>2. ListInv /\ [Next]_vars => ListInv'
  <2> SUFFICES ASSUME ListInv, [Next]_vars PROVE ListInv'
    OBVIOUS
  <2>1. CASE Script
    BY <2>1, ScriptKeeps
  <2>2. CASE Reduce
    BY <2>2, ReduceKeeps
  <2>3. CASE Migrate
    BY <2>3, MigrateKeeps
  <2>4. CASE \E r \in Ranks : RankStep(r)
    BY <2>4, RankStepKeeps
  <2>5. CASE UNCHANGED vars
    BY <2>5, StillKeeps DEF vars, ghostVars, listVars, script
  <2> QED
    BY <2>1, <2>2, <2>3, <2>4, <2>5 DEF Next, Progress
<1> QED
  BY <1>1, <1>2, PTL DEF Spec

\* communicate() decides alike on all ranks: none updates its ghosts while
\* another one waits for the decision or migrates, and nobody enters the
\* collective migration that another rank has left behind.
THEOREM AlwaysAgree == Spec => []RanksAgree
<1>1. ListInv => RanksAgree
  <2> SUFFICES ASSUME ListInv, NEW r \in Ranks, NEW s \in Ranks, at[r] \in {"migrate", "wait"}
               PROVE  /\ at[s] # "update"
                      /\ passes[r] = passes[s] => at[s] \in {"check", "wait", "migrate"}
    BY DEF RanksAgree
  <2>1. SameView(r, s) /\ PlacedAt(r) /\ PlacedAt(s)
    BY DEF ListInv, Common, AllIdle
  <2>2. at[s] \in Locations /\ passes[s] \in 1 .. 2
    BY ListIs DEF ListInv
  <2>3. CASE at[r] = "wait"
    BY <2>1, <2>3 DEF SameView, Asks
  <2>4. CASE at[r] = "migrate"
    <3>1. Migrates(s) /\ Left(s) = passes[r]
      BY <2>1, <2>4 DEF SameView, Asks, Migrates, Left
    <3>2. at[s] # "update"
      BY <2>1, <3>1 DEF PlacedAt, Migrates
    <3>3. at[s] # "waitBuild"
      BY <2>1 DEF PlacedAt
    <3>4. CASE at[s] \in {"ghosts", "build", "forces", "idle"}
      BY <2>2, <3>1, <3>4 DEF Left
    <3> QED
      BY <2>2, <3>2, <3>3, <3>4 DEF Locations
  <2> QED
    BY <2>3, <2>4
<1> QED
  BY <1>1, Invariance, PTL

\* Whenever a rank compares positions with those of the last build, entry i
\* of both arrays is the same particle: what moves particles to other indices
\* forces a build before the next comparison.
THEOREM AlwaysSameParticles == Spec => []ChecksSameParticles
<1>1. ListInv => ChecksSameParticles
  BY DEF ListInv, PlacedAt, SameAsBuilt, TagsInOrder, ChecksSameParticles
<1> QED
  BY <1>1, Invariance, PTL
=============================================================================
