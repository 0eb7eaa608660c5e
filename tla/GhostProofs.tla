---------------------------- MODULE GhostProofs ----------------------------
(***************************************************************************)
(* The ghosts, for any grid of ranks, any particles and both communicators:*)
(* what has been sent and received, the copy lists and the buffers, and    *)
(* what follows for the ghosts of each rank.                               *)
(***************************************************************************)
EXTENDS GhostLayer, GridProofs

-----------------------------------------------------------------------------
(* Rounds of communication.  All ranks are in the same round, an exchange   *)
(* before the first move after a migration and else an update, and in a     *)
(* round a rank sends and receives one message for each of its directions.  *)

Kind ==
    IF moves = 0 THEN IF communicator = "CPU" THEN "ghosts" ELSE "exchangeGPU"
    ELSE IF communicator = "CPU" THEN "positions" ELSE "updatingGPU"

Beginning == IF moves = 0 THEN "migrated" ELSE "update"

Working ==
    IF moves = 0 THEN IF communicator = "CPU" THEN "exchange" ELSE "exchangeGPU"
    ELSE IF communicator = "CPU" THEN "updating" ELSE "updatingGPU"

RoundClock ==
    [ r \in Ranks |-> IF phase[r] = Beginning THEN -1
                      ELSE IF phase[r] = "current" THEN 12 ELSE Route[stage[r]] ]

RoundOrder ==
    /\ communicator \in {"CPU", "GPU"} /\ moves \in 0 .. MaxMoves
    /\ phase \in [Ranks -> {Beginning, Working, "current"}]
    /\ stage \in [Ranks -> 0 .. Len(Route)]
    /\ \A r \in Ranks : stage[r] = 0 <=> phase[r] # Working
    /\ AllInOrder({Kind}, channel, RoundClock)

LEMMA KindIs ==
  ASSUME communicator \in {"CPU", "GPU"}
  PROVE  /\ {Kind} \in KindSets
         /\ \A dir \in Sending : Turn(dir, Kind) = dir
         /\ Beginning # Working /\ Beginning # "current" /\ Working # "current"
<1>1. Kind \in {"ghosts", "positions", "exchangeGPU", "updatingGPU"}
  BY DEF Kind
<1>2. \A dir \in Sending : Turn(dir, Kind) = dir
  BY <1>1 DEF Turn
<1> QED
  BY <1>1, <1>2 DEF KindSets, Beginning, Working

LEMMA ClockIs ==
  ASSUME RoundOrder
  PROVE  /\ RoundClock \in [Ranks -> Clocks]
         /\ \A r \in Ranks :
               /\ phase[r] = Beginning => RoundClock[r] = -1 /\ stage[r] = 0
               /\ phase[r] = "current" => RoundClock[r] = 12 /\ stage[r] = 0
               /\ phase[r] = Working =>
                     /\ stage[r] \in DOMAIN Route /\ Route[stage[r]] \in Sending
                     /\ RoundClock[r] = Route[stage[r]]
                     /\ RoundClock[r] = Turn(Route[stage[r]], Kind)
<1>1. communicator \in {"CPU", "GPU"}
  BY DEF RoundOrder
<1>2. ASSUME NEW r \in Ranks
      PROVE  /\ RoundClock[r] \in Clocks
             /\ phase[r] = Beginning => RoundClock[r] = -1 /\ stage[r] = 0
             /\ phase[r] = "current" => RoundClock[r] = 12 /\ stage[r] = 0
             /\ phase[r] = Working =>
                   /\ stage[r] \in DOMAIN Route /\ Route[stage[r]] \in Sending
                   /\ RoundClock[r] = Route[stage[r]]
                   /\ RoundClock[r] = Turn(Route[stage[r]], Kind)
  <2>1. phase[r] \in {Beginning, Working, "current"} /\ (stage[r] = 0 <=> phase[r] # Working)
        /\ stage[r] \in 0 .. Len(Route)
    BY DEF RoundOrder
  <2>2. CASE phase[r] = Beginning
    BY <1>1, <2>1, <2>2, KindIs DEF RoundClock, Clocks
  <2>3. CASE phase[r] = "current"
    BY <1>1, <2>1, <2>3, KindIs DEF RoundClock, Clocks
  <2>4. CASE phase[r] = Working
    <3>1. stage[r] \in DOMAIN Route
      BY <2>1, <2>4, RouteShape
    <3>2. Route[stage[r]] \in Sending /\ Route[stage[r]] \in 0 .. 5
      BY <3>1, RouteNext DEF Sending, Directions
    <3>3. RoundClock[r] = Route[stage[r]] /\ phase[r] # Beginning /\ phase[r] # "current"
      BY <1>1, <2>4, KindIs DEF RoundClock
    <3> QED
      BY <1>1, <3>1, <3>2, <3>3, KindIs DEF Clocks
  <2> QED
    BY <2>1, <2>2, <2>3, <2>4
<1>3. RoundClock \in [Ranks -> Clocks]
  BY <1>2 DEF RoundClock
<1> QED
  BY <1>2, <1>3

\* The turns of a round follow each other: no other lies between two of them.
LEMMA TurnsFollow ==
  ASSUME communicator \in {"CPU", "GPU"}
  PROVE  /\ Succeeds({Kind}, -1, Turn(Route[1], Kind))
         /\ \A k \in DOMAIN Route : k + 1 \in DOMAIN Route =>
               Succeeds({Kind}, Turn(Route[k], Kind), Turn(Route[k + 1], Kind))
         /\ Succeeds({Kind}, Turn(Route[Len(Route)], Kind), 12)
<1>1. \A dir \in Sending : Turn(dir, Kind) = dir /\ dir \in 0 .. 5
  BY KindIs DEF Sending, Directions
<1>2. /\ \A k \in DOMAIN Route : Route[k] \in Sending
      /\ 1 \in DOMAIN Route /\ Len(Route) \in DOMAIN Route
      /\ \A dir \in Sending : Route[1] <= dir /\ dir <= Route[Len(Route)]
      /\ \A k \in DOMAIN Route, dir \in Sending :
             Route[k] < dir => k + 1 \in DOMAIN Route /\ Route[k + 1] <= dir
  BY RouteNext
<1>3. Succeeds({Kind}, -1, Turn(Route[1], Kind))
  BY <1>1, <1>2 DEF Succeeds
<1>4. ASSUME NEW k \in DOMAIN Route, k + 1 \in DOMAIN Route
      PROVE  Succeeds({Kind}, Turn(Route[k], Kind), Turn(Route[k + 1], Kind))
  <2>1. Route[k] < Route[k + 1]
    <3>1. k < k + 1
      BY RouteShape
    <3> QED
      BY <1>4, <3>1, RouteShape
  <2>2. \A dir \in Sending : Route[k] < dir => Route[k + 1] <= dir
    BY <1>2
  <2>3. Turn(Route[k], Kind) = Route[k] /\ Turn(Route[k + 1], Kind) = Route[k + 1]
    BY <1>1, <1>2, <1>4
  <2> QED
    BY <1>1, <2>1, <2>2, <2>3 DEF Succeeds
<1>5. Succeeds({Kind}, Turn(Route[Len(Route)], Kind), 12)
  <2>1. Turn(Route[Len(Route)], Kind) = Route[Len(Route)] /\ Route[Len(Route)] \in 0 .. 5
    BY <1>1, <1>2
  <2>2. \A dir \in Sending : ~ (Route[Len(Route)] < dir)
    BY <1>1, <1>2, <2>1
  <2> QED
    BY <1>1, <2>1, <2>2 DEF Succeeds
<1> QED
  BY <1>3, <1>4, <1>5

\* What a step does to the place of the rank on the route and to the messages.
LeftBy(r) == IF phase[r] = Beginning THEN channel ELSE Taken(r)

GoesOn(r) == phase[r] = Beginning \/ (phase[r] = Working /\ Arrived(r))

SendsNext(r) ==
    \E k \in DOMAIN Route : \E data :
        /\ k = stage[r] + 1
        /\ phase' = [phase EXCEPT ![r] = Working]
        /\ stage' = [stage EXCEPT ![r] = k]
        /\ channel' = Put(LeftBy(r), r, NeighborRank(r, Route[k]),
                          [kind |-> Kind, dir |-> Route[k], data |-> data])

EndsRound(r) ==
    /\ stage[r] = Len(Route)
    /\ phase' = [phase EXCEPT ![r] = "current"]
    /\ stage' = [stage EXCEPT ![r] = 0]
    /\ channel' = LeftBy(r)

\* Which of the steps a rank can take in which round.
LEMMA RoundOf ==
  ASSUME RoundOrder, NEW r \in Ranks, phase[r] # "current"
  PROVE  /\ phase[r] = "migrated" => moves = 0 /\ phase[r] = Beginning /\ stage[r] = 0
         /\ phase[r] = "update" => moves > 0 /\ phase[r] = Beginning /\ stage[r] = 0
         /\ phase[r] = "exchange" => communicator = "CPU" /\ moves = 0 /\ phase[r] = Working
         /\ phase[r] = "updating" => communicator = "CPU" /\ moves > 0 /\ phase[r] = Working
         /\ phase[r] = "exchangeGPU" => communicator = "GPU" /\ moves = 0 /\ phase[r] = Working
         /\ phase[r] = "updatingGPU" => communicator = "GPU" /\ moves > 0 /\ phase[r] = Working
         /\ phase[r] = Beginning => stage[r] = 0 /\ phase[r] # Working
         /\ phase[r] = Working => stage[r] \in DOMAIN Route /\ phase[r] # Beginning
<1>1. /\ phase[r] \in {Beginning, Working, "current"} /\ (stage[r] = 0 <=> phase[r] # Working)
      /\ stage[r] \in 0 .. Len(Route) /\ communicator \in {"CPU", "GPU"}
      /\ moves \in Int /\ moves >= 0
  BY LayerAssumption DEF RoundOrder
<1>2. stage[r] # 0 => stage[r] \in DOMAIN Route
  BY <1>1, RouteShape
<1> QED
  BY <1>1, <1>2 DEF Beginning, Working

\* Communicator: what a rank sends, it sends in the direction after its last.
LEMMA SendsGhosts ==
  ASSUME RoundOrder, NEW r \in Ranks, NEW k \in Nat, NEW copies, NEW plans, NEW chan,
         chan = LeftBy(r), k = stage[r] + 1, moves = 0, communicator = "CPU",
         SendGhosts(r, k, copies, plans, chan)
  PROVE  SendsNext(r) \/ EndsRound(r)
<1>1. stage[r] \in 0 .. Len(Route) /\ Len(Route) \in Nat /\ DOMAIN Route = 1 .. Len(Route)
  BY RouteShape DEF RoundOrder
<1>2. CASE k > Len(Route)
  <2>1. stage[r] = Len(Route)
    BY <1>1, <1>2
  <2> QED
    BY <1>2, <2>1, Zenon DEF SendGhosts, EndsRound
<1>3. CASE ~ (k > Len(Route))
  <2>1. k \in DOMAIN Route
    BY <1>1, <1>3
  <2>2. Kind = "ghosts" /\ Working = "exchange"
    BY DEF Kind, Working
  <2> QED
    BY <1>3, <2>1, <2>2, Zenon DEF SendGhosts, SendsNext
<1> QED
  BY <1>2, <1>3

LEMMA SendsPositions ==
  ASSUME RoundOrder, NEW r \in Ranks, NEW k \in Nat, NEW all, NEW chan,
         chan = LeftBy(r), k = stage[r] + 1, moves > 0, communicator = "CPU",
         SendPositions(r, k, all, chan)
  PROVE  SendsNext(r) \/ EndsRound(r)
<1>1. stage[r] \in 0 .. Len(Route) /\ Len(Route) \in Nat /\ DOMAIN Route = 1 .. Len(Route)
  BY RouteShape DEF RoundOrder
<1>2. CASE k > Len(Route)
  <2>1. stage[r] = Len(Route)
    BY <1>1, <1>2
  <2> QED
    BY <1>2, <2>1, Zenon DEF SendPositions, EndsRound
<1>3. CASE ~ (k > Len(Route))
  <2>1. k \in DOMAIN Route
    BY <1>1, <1>3
  <2>2. Kind = "positions" /\ Working = "updating"
    BY DEF Kind, Working
  <2> QED
    BY <1>3, <2>1, <2>2, Zenon DEF SendPositions, SendsNext
<1> QED
  BY <1>2, <1>3

\* CommunicatorGPU: the same.
LEMMA SendsBuffers ==
  ASSUME RoundOrder, NEW r \in Ranks, NEW k \in DOMAIN Route, NEW buf, NEW chan,
         chan = LeftBy(r), k = stage[r] + 1, Kind = Working,
         SendGhostBuffers(r, k, Kind, buf, chan)
  PROVE  SendsNext(r)
BY Zenon DEF SendGhostBuffers, SendsNext

LEMMA GoesOnGPU ==
  ASSUME RoundOrder, NEW r \in Ranks, phase[r] = Working, Kind = Working, Arrived(r),
         NextDirection(r, Kind) \/ LastDirection(r)
  PROVE  GoesOn(r) /\ (SendsNext(r) \/ EndsRound(r))
<1>1. stage[r] \in 1 .. Len(Route) /\ Len(Route) \in Nat /\ DOMAIN Route = 1 .. Len(Route)
      /\ phase[r] # Beginning
  BY RouteShape, KindIs DEF RoundOrder
<1>2. LeftBy(r) = Taken(r) /\ GoesOn(r)
  BY <1>1 DEF LeftBy, GoesOn
<1>3. CASE NextDirection(r, Kind)
  <2>1. stage[r] + 1 \in DOMAIN Route /\ SendGhostBuffers(r, stage[r] + 1, Kind, ghostBuf'[r], Taken(r))
    BY <1>1, <1>3 DEF NextDirection
  <2> QED
    BY <1>2, <2>1, SendsBuffers
<1>4. CASE LastDirection(r)
  BY <1>2, <1>4 DEF LastDirection, EndsRound
<1> QED
  BY <1>3, <1>4

LEMMA StepShape ==
  ASSUME RoundOrder, NEW r \in Ranks, Step(r)
  PROVE  /\ GoesOn(r) /\ (SendsNext(r) \/ EndsRound(r))
         /\ UNCHANGED <<ptls, moves, communicator>>
<1>0. UNCHANGED <<moves, communicator>> /\ 1 \in DOMAIN Route
  BY RouteNext DEF Step
<1>1. CASE communicator = "CPU" /\ BeginExchange(r, LayerWidth)
  <2>1. phase[r] = Beginning /\ moves = 0 /\ stage[r] = 0
    BY <1>1, RoundOf DEF BeginExchange
  <2>2. LeftBy(r) = channel /\ 1 = stage[r] + 1
    BY <2>1 DEF LeftBy
  <2>3. SendsNext(r) \/ EndsRound(r)
    BY <1>1, <2>1, <2>2, SendsGhosts DEF BeginExchange
  <2> QED
    BY <1>0, <1>1, <2>1, <2>3 DEF BeginExchange, GoesOn
<1>2. CASE communicator = "CPU" /\ ReceiveGhosts(r, LayerWidth)
  <2>1. phase[r] = Working /\ phase[r] # Beginning /\ moves = 0 /\ stage[r] \in DOMAIN Route
    BY <1>2, RoundOf DEF ReceiveGhosts
  <2>2. LeftBy(r) = Taken(r) /\ stage[r] + 1 \in Nat
    BY <2>1, RouteShape DEF LeftBy
  <2>3. SendsNext(r) \/ EndsRound(r)
    BY <1>2, <2>1, <2>2, SendsGhosts DEF ReceiveGhosts
  <2> QED
    BY <1>0, <1>2, <2>1, <2>3 DEF ReceiveGhosts, GoesOn
<1>3. CASE communicator = "CPU" /\ BeginUpdate(r)
  <2>1. phase[r] = Beginning /\ moves > 0 /\ stage[r] = 0
    BY <1>3, RoundOf DEF BeginUpdate
  <2>2. LeftBy(r) = channel /\ 1 = stage[r] + 1
    BY <2>1 DEF LeftBy
  <2>3. SendsNext(r) \/ EndsRound(r)
    BY <1>3, <2>1, <2>2, SendsPositions DEF BeginUpdate
  <2> QED
    BY <1>0, <1>3, <2>1, <2>3 DEF BeginUpdate, GoesOn
<1>4. CASE communicator = "CPU" /\ ReceivePositions(r, LayerWidth)
  <2>1. phase[r] = Working /\ phase[r] # Beginning /\ moves > 0 /\ stage[r] \in DOMAIN Route
    BY <1>4, RoundOf DEF ReceivePositions
  <2>2. LeftBy(r) = Taken(r) /\ stage[r] + 1 \in Nat
    BY <2>1, RouteShape DEF LeftBy
  <2>3. SendsNext(r) \/ EndsRound(r)
    BY <1>4, <2>1, <2>2, SendsPositions DEF ReceivePositions
  <2> QED
    BY <1>0, <1>4, <2>1, <2>3 DEF ReceivePositions, GoesOn
<1>5. CASE communicator = "GPU" /\ BeginExchangeGPU(r, LayerWidth)
  <2>1. phase[r] = Beginning /\ moves = 0 /\ stage[r] = 0
    BY <1>5, RoundOf DEF BeginExchangeGPU
  <2>2. LeftBy(r) = channel /\ 1 = stage[r] + 1 /\ Kind = "exchangeGPU" /\ Working = "exchangeGPU"
    BY <1>5, <2>1 DEF LeftBy, Kind, Working
  <2>3. \E buf : SendGhostBuffers(r, 1, "exchangeGPU", buf, channel)
    BY <1>5, Zenon DEF BeginExchangeGPU
  <2>4. SendsNext(r)
    BY <1>0, <2>2, <2>3, SendsBuffers
  <2> QED
    BY <1>0, <1>5, <2>1, <2>4 DEF BeginExchangeGPU, GoesOn
<1>6. CASE communicator = "GPU" /\ BeginUpdateGPU(r)
  <2>1. phase[r] = Beginning /\ moves > 0 /\ stage[r] = 0
    BY <1>6, RoundOf DEF BeginUpdateGPU
  <2>2. LeftBy(r) = channel /\ 1 = stage[r] + 1 /\ Kind = "updatingGPU" /\ Working = "updatingGPU"
    BY <1>6, <2>1 DEF LeftBy, Kind, Working
  <2>3. \E buf : SendGhostBuffers(r, 1, "updatingGPU", buf, channel)
    BY <1>6, Zenon DEF BeginUpdateGPU
  <2>4. SendsNext(r)
    BY <1>0, <2>2, <2>3, SendsBuffers
  <2> QED
    BY <1>0, <1>6, <2>1, <2>4 DEF BeginUpdateGPU, GoesOn
<1>7. CASE communicator = "GPU" /\ ReceiveGhostsGPU(r, LayerWidth)
  <2>1. phase[r] = Working /\ moves = 0
    BY <1>7, RoundOf DEF ReceiveGhostsGPU
  <2>2. Kind = "exchangeGPU" /\ Working = "exchangeGPU"
    BY <1>7, <2>1 DEF Kind, Working
  <2>3. Arrived(r) /\ (NextDirection(r, Kind) \/ LastDirection(r)) /\ UNCHANGED ptls
    BY <1>7, <2>2 DEF ReceiveGhostsGPU
  <2> QED
    BY <1>0, <2>1, <2>2, <2>3, GoesOnGPU
<1>8. CASE communicator = "GPU" /\ ReceivePositionsGPU(r, LayerWidth)
  <2>1. phase[r] = Working /\ moves > 0
    BY <1>8, RoundOf DEF ReceivePositionsGPU
  <2>2. Kind = "updatingGPU" /\ Working = "updatingGPU"
    BY <1>8, <2>1 DEF Kind, Working
  <2>3. Arrived(r) /\ (NextDirection(r, Kind) \/ LastDirection(r)) /\ UNCHANGED ptls
    BY <1>8, <2>2 DEF ReceivePositionsGPU
  <2> QED
    BY <1>0, <2>1, <2>2, <2>3, GoesOnGPU
<1> QED
  BY <1>1, <1>2, <1>3, <1>4, <1>5, <1>6, <1>7, <1>8 DEF Step, GhostStep, GhostStepGPU

LEMMA StepTakes ==
  ASSUME RoundOrder, NEW r \in Ranks, GoesOn(r)
  PROVE  TakesOne({Kind}, channel, RoundClock, r, LeftBy(r))
<1>1. CASE phase[r] = Beginning
  <2>1. RoundClock[r] = -1
    BY <1>1, ClockIs
  <2> QED
    BY <1>1, <2>1 DEF TakesOne, LeftBy
<1>2. CASE phase[r] = Working /\ Arrived(r)
  <2>1. /\ Route[stage[r]] \in Sending /\ RoundClock[r] = Turn(Route[stage[r]], Kind)
        /\ phase[r] # Beginning
    BY <1>2, ClockIs, KindIs DEF RoundOrder
  <2>2. LeftBy(r) = [channel EXCEPT ![<<Source(r), r>>] = Tail(@)] /\ channel[<<Source(r), r>>] # <<>>
    BY <1>2, <2>1, Zenon DEF LeftBy, Taken, Arrived
  <2> QED
    BY <2>1, <2>2, Zenon DEF TakesOne, Source
<1> QED
  BY <1>1, <1>2 DEF GoesOn

LEMMA ClockGoesOn ==
  ASSUME RoundOrder, NEW r \in Ranks, GoesOn(r)
  PROVE  /\ \A k \in DOMAIN Route : k = stage[r] + 1 => Succeeds({Kind}, RoundClock[r], Route[k])
         /\ stage[r] = Len(Route) => Succeeds({Kind}, RoundClock[r], 12)
<1>1. communicator \in {"CPU", "GPU"} /\ \A k \in DOMAIN Route : Turn(Route[k], Kind) = Route[k]
  BY KindIs, RouteNext DEF RoundOrder
<1>2. CASE phase[r] = Beginning
  <2>1. stage[r] = 0 /\ RoundClock[r] = -1 /\ 1 \in DOMAIN Route /\ stage[r] # Len(Route)
    BY <1>2, ClockIs, RouteNext, RouteShape
  <2> QED
    BY <1>1, <2>1, TurnsFollow
<1>3. CASE phase[r] = Working
  <2>1. stage[r] \in DOMAIN Route /\ RoundClock[r] = Turn(Route[stage[r]], Kind)
    BY <1>3, ClockIs
  <2> QED
    BY <1>1, <2>1, TurnsFollow
<1> QED
  BY <1>2, <1>3 DEF GoesOn

LEMMA StepKeepsOrder ==
  ASSUME RoundOrder, NEW r \in Ranks, Step(r)
  PROVE  RoundOrder'
<1>1. /\ GoesOn(r) /\ (SendsNext(r) \/ EndsRound(r))
      /\ UNCHANGED <<ptls, moves, communicator>>
  BY StepShape
<1>2. Kind' = Kind /\ Beginning' = Beginning /\ Working' = Working
  BY <1>1 DEF Kind, Beginning, Working
<1>3. /\ communicator \in {"CPU", "GPU"} /\ moves \in 0 .. MaxMoves
      /\ phase \in [Ranks -> {Beginning, Working, "current"}]
      /\ stage \in [Ranks -> 0 .. Len(Route)]
      /\ \A s \in Ranks : stage[s] = 0 <=> phase[s] # Working
      /\ AllInOrder({Kind}, channel, RoundClock)
  BY DEF RoundOrder
<1>4. RoundClock \in [Ranks -> Clocks] /\ {Kind} \in KindSets
      /\ Beginning # Working /\ Beginning # "current" /\ Working # "current"
  BY <1>3, ClockIs, KindIs
<1>5. TakesOne({Kind}, channel, RoundClock, r, LeftBy(r))
  BY <1>1, StepTakes
<1>6. CASE SendsNext(r)
  <2>0. PICK k \in DOMAIN Route : \E data :
        /\ k = stage[r] + 1
        /\ phase' = [phase EXCEPT ![r] = Working]
        /\ stage' = [stage EXCEPT ![r] = k]
        /\ channel' = Put(LeftBy(r), r, NeighborRank(r, Route[k]),
                          [kind |-> Kind, dir |-> Route[k], data |-> data])
    BY <1>6, Zenon DEF SendsNext
  <2>1. PICK data :
        /\ k = stage[r] + 1
        /\ phase' = [phase EXCEPT ![r] = Working]
        /\ stage' = [stage EXCEPT ![r] = k]
        /\ channel' = Put(LeftBy(r), r, NeighborRank(r, Route[k]),
                          [kind |-> Kind, dir |-> Route[k], data |-> data])
    BY <2>0, Zenon
  <2> DEFINE message == [kind |-> Kind, dir |-> Route[k], data |-> data]
  <2>2. message.dir = Route[k] /\ message.kind = Kind /\ Route[k] \in Sending
        /\ Route[k] \in 0 .. 5 /\ k \in 1 .. Len(Route)
    BY RouteNext, RouteShape DEF Directions
  <2>3. channel' = [LeftBy(r) EXCEPT ![<<r, NeighborRank(r, Route[k])>>] = Append(@, message)]
    BY <2>1, Zenon DEF Put
  <2> DEFINE to == NeighborRank(r, Route[k])
  <2> HIDE DEF message, to
  <2>9. /\ channel' = [LeftBy(r) EXCEPT ![<<r, to>>] = Append(@, message)]
        /\ to = NeighborRank(r, message.dir) /\ message.dir \in Sending /\ message.kind \in {Kind}
    BY <2>2, <2>3 DEF to
  <2>4. Number(message) = Route[k]
    BY <1>3, <2>2, KindIs DEF Number
  <2>5. Succeeds({Kind}, RoundClock[r], Number(message))
    BY <1>1, <2>1, <2>4, ClockGoesOn
  <2>6. AllInOrder({Kind}, channel', [RoundClock EXCEPT ![r] = Route[k]])
    <3>1. AllInOrder({Kind}, [LeftBy(r) EXCEPT ![<<r, to>>] = Append(@, message)],
                     [RoundClock EXCEPT ![r] = Number(message)])
      BY <1>3, <1>4, <1>5, <2>5, <2>9, AllSent
    <3> QED
      BY <2>4, <2>9, <3>1, Zenon
  <2>7. /\ phase' \in [Ranks -> {Beginning, Working, "current"}]
        /\ stage' \in [Ranks -> 0 .. Len(Route)]
        /\ \A s \in Ranks : stage'[s] = 0 <=> phase'[s] # Working
    BY <1>3, <2>1, <2>2, RouteShape
  <2>8. RoundClock' = [RoundClock EXCEPT ![r] = Route[k]]
    <3>1. ASSUME NEW s \in Ranks
          PROVE  (IF phase'[s] = Beginning THEN -1
                      ELSE IF phase'[s] = "current" THEN 12 ELSE Route[stage'[s]])
                 = [RoundClock EXCEPT ![r] = Route[k]][s]
      BY <1>3, <1>4, <2>1 DEF RoundClock
    <3> QED
      BY <1>2, <1>4, <3>1 DEF RoundClock
  <2> QED
    BY <1>1, <1>2, <1>3, <2>6, <2>7, <2>8 DEF RoundOrder
<1>7. CASE EndsRound(r)
  <2>1. /\ stage[r] = Len(Route) /\ phase' = [phase EXCEPT ![r] = "current"]
        /\ stage' = [stage EXCEPT ![r] = 0] /\ channel' = LeftBy(r)
    BY <1>7, Zenon DEF EndsRound
  <2>2. Succeeds({Kind}, RoundClock[r], 12)
    BY <1>1, <2>1, ClockGoesOn
  <2>3. AllInOrder({Kind}, channel', [RoundClock EXCEPT ![r] = 12])
    BY <1>3, <1>4, <1>5, <2>1, <2>2, AllEnded
  <2>4. /\ phase' \in [Ranks -> {Beginning, Working, "current"}]
        /\ stage' \in [Ranks -> 0 .. Len(Route)]
        /\ \A s \in Ranks : stage'[s] = 0 <=> phase'[s] # Working
    BY <1>3, <1>4, <2>1, RouteShape
  <2>5. RoundClock' = [RoundClock EXCEPT ![r] = 12]
    <3>1. ASSUME NEW s \in Ranks
          PROVE  (IF phase'[s] = Beginning THEN -1
                      ELSE IF phase'[s] = "current" THEN 12 ELSE Route[stage'[s]])
                 = [RoundClock EXCEPT ![r] = 12][s]
      BY <1>3, <1>4, <2>1 DEF RoundClock
    <3> QED
      BY <1>2, <1>4, <3>1 DEF RoundClock
  <2> QED
    BY <1>1, <1>2, <1>3, <2>3, <2>4, <2>5 DEF RoundOrder
<1> QED
  BY <1>1, <1>6, <1>7

\* Between two rounds nothing is on its way.
LEMMA NothingOnItsWay ==
  ASSUME RoundOrder, AllCurrent
  PROVE  /\ channel = [pair \in Ranks \X Ranks |-> <<>>]
         /\ \A from, to \in Ranks : channel[<<from, to>>] = <<>>
         /\ \A r \in Ranks : stage[r] = 0
<1>1. RoundClock \in [Ranks -> Clocks] /\ {Kind} \in KindSets
      /\ \A r \in Ranks : RoundClock[r] = 12 /\ stage[r] = 0
  BY ClockIs, KindIs DEF RoundOrder, AllCurrent
<1>2. ASSUME NEW from \in Ranks, NEW to \in Ranks
      PROVE  channel[<<from, to>>] = <<>>
  <2>1. InOrder({Kind}, channel[<<from, to>>], from, to, 12, 12)
    BY <1>1 DEF RoundOrder, AllInOrder
  <2> QED
    BY <1>1, <2>1, NothingLeft DEF Clocks
<1>3. channel = [pair \in Ranks \X Ranks |-> channel[pair]]
  BY DEF RoundOrder, AllInOrder
<1>4. ASSUME NEW pair \in Ranks \X Ranks
      PROVE  channel[pair] = <<>>
  <2>1. PICK from \in Ranks, to \in Ranks : pair = <<from, to>>
    OBVIOUS
  <2> QED
    BY <1>2, <2>1
<1>5. channel = [pair \in Ranks \X Ranks |-> <<>>]
  BY <1>3, <1>4, Zenon
<1> QED
  BY <1>1, <1>2, <1>5

\* A round begins in all ranks together.
LEMMA RoundBegins ==
  ASSUME communicator' \in {"CPU", "GPU"}, moves' \in 0 .. MaxMoves,
         phase' = [r \in Ranks |-> Beginning'], stage' = [r \in Ranks |-> 0],
         channel' = [pair \in Ranks \X Ranks |-> <<>>]
  PROVE  RoundOrder'
<1>1. /\ {Kind}' \in KindSets
      /\ Beginning' # Working' /\ Beginning' # "current" /\ Working' # "current"
  <2>1. Kind' \in {"ghosts", "positions", "exchangeGPU", "updatingGPU"}
    BY DEF Kind
  <2> QED
    BY <2>1 DEF KindSets, Beginning, Working
<1>2. RoundClock' = [r \in Ranks |-> -1]
  BY DEF RoundClock
<1>3. ASSUME NEW from \in Ranks, NEW to \in Ranks
      PROVE  InOrder({Kind}', <<>>, from, to, -1, -1)
  BY <1>1, EmptyInOrder
<1>4. AllInOrder({Kind}', channel', RoundClock')
  <2>1. /\ channel' = [pair \in Ranks \X Ranks |-> channel'[pair]]
        /\ \A from, to \in Ranks : channel'[<<from, to>>] = <<>> /\ RoundClock'[from] = -1
    BY <1>2
  <2> QED
    BY <1>3, <2>1 DEF AllInOrder
<1>5. phase' \in [Ranks -> {Beginning', Working', "current"}] /\ stage' \in [Ranks -> 0 .. Len(Route)]
      /\ \A s \in Ranks : stage'[s] = 0 <=> phase'[s] # Working'
  BY <1>1, RouteShape
<1> QED
  BY <1>4, <1>5 DEF RoundOrder

LEMMA StageIs ==
  ASSUME RoundOrder, AllCurrent
  PROVE  stage = [r \in Ranks |-> 0]
BY NothingOnItsWay DEF RoundOrder

LEMMA RoundOrderInit ==
  ASSUME LayerInit
  PROVE  RoundOrder
<1>1. /\ communicator \in {"CPU", "GPU"} /\ moves = 0 /\ phase = [r \in Ranks |-> "migrated"]
      /\ stage = [r \in Ranks |-> 0] /\ channel = [pair \in Ranks \X Ranks |-> <<>>]
  BY Zenon DEF LayerInit, Placed
<1>2. {Kind} \in KindSets /\ Beginning # Working /\ Beginning # "current" /\ Working # "current"
      /\ Beginning = "migrated"
  BY <1>1, KindIs DEF Beginning
<1>3. RoundClock = [r \in Ranks |-> -1]
  BY <1>1, <1>2 DEF RoundClock
<1>4. ASSUME NEW from \in Ranks, NEW to \in Ranks
      PROVE  InOrder({Kind}, <<>>, from, to, -1, -1)
  BY <1>2, EmptyInOrder
<1>5. AllInOrder({Kind}, channel, RoundClock)
  <2>1. /\ channel = [pair \in Ranks \X Ranks |-> channel[pair]]
        /\ \A from, to \in Ranks : channel[<<from, to>>] = <<>> /\ RoundClock[from] = -1
    BY <1>1, <1>3
  <2> QED
    BY <1>4, <2>1 DEF AllInOrder
<1>6. phase \in [Ranks -> {Beginning, Working, "current"}] /\ stage \in [Ranks -> 0 .. Len(Route)]
      /\ \A s \in Ranks : stage[s] = 0 <=> phase[s] # Working
  BY <1>1, <1>2, RouteShape
<1>7. moves \in 0 .. MaxMoves
  BY <1>1, LayerAssumption
<1> QED
  BY <1>1, <1>5, <1>6, <1>7 DEF RoundOrder

LEMMA RoundOrderNext ==
  ASSUME RoundOrder, [LayerNext]_layerVars
  PROVE  RoundOrder'
<1>0. communicator \in {"CPU", "GPU"} /\ moves \in 0 .. MaxMoves /\ MaxMoves \in Nat
  BY LayerAssumption DEF RoundOrder
<1>1. CASE MoveAndUpdate \/ \E r \in Ranks : SortAndUpdate(r)
  <2>1. AllCurrent /\ moves < MaxMoves /\ moves' = moves + 1 /\ phase' = [r \in Ranks |-> "update"]
        /\ UNCHANGED <<stage, channel, communicator>>
    BY <1>1 DEF MoveAndUpdate, SortAndUpdate
  <2>2. stage' = [r \in Ranks |-> 0] /\ channel' = [pair \in Ranks \X Ranks |-> <<>>]
    BY <2>1, NothingOnItsWay, StageIs
  <2>3. moves' \in 0 .. MaxMoves /\ moves' # 0
    BY <1>0, <2>1
  <2>4. Beginning' = "update"
    BY <2>3 DEF Beginning
  <2> QED
    BY <1>0, <2>1, <2>2, <2>3, <2>4, RoundBegins
<1>2. CASE MoveAndMigrate
  <2>1. AllCurrent /\ moves' = 0 /\ phase' = [r \in Ranks |-> "migrated"]
        /\ UNCHANGED <<stage, channel, communicator>>
    BY <1>2 DEF MoveAndMigrate
  <2>2. stage' = [r \in Ranks |-> 0] /\ channel' = [pair \in Ranks \X Ranks |-> <<>>]
    BY <2>1, NothingOnItsWay, StageIs
  <2>3. moves' \in 0 .. MaxMoves
    BY <1>0, <2>1
  <2>4. Beginning' = "migrated"
    BY <2>1 DEF Beginning
  <2> QED
    BY <1>0, <2>1, <2>2, <2>3, <2>4, RoundBegins
<1>3. CASE UNCHANGED layerVars
  BY <1>3 DEF layerVars, ghostVars, RoundOrder, RoundClock, Kind, Beginning, Working
<1>4. CASE \E r \in Ranks : Step(r)
  BY <1>4, StepKeepsOrder
<1> QED
  BY <1>1, <1>2, <1>3, <1>4 DEF LayerNext, Rest

\* Communicator and CommunicatorGPU: all ranks are in the same round of
\* communication; whoever is behind finds what it waits for, in the order of
\* the route, and nothing is left over when the round has ended.
THEOREM GhostRounds == LayerSpec => []RoundOrder
<1>1. LayerInit => RoundOrder
  BY RoundOrderInit
<1>2. RoundOrder /\ [LayerNext]_layerVars => RoundOrder'
  BY RoundOrderNext
<1> QED
  BY <1>1, <1>2, PTL DEF LayerSpec

-----------------------------------------------------------------------------
(* Every particle has one owner, in whatever order a rank has its own; the  *)
(* position that counts is where the owner says it is.                      *)

Located == [tag : Tags, pos : [Axes -> Int]]

Owned ==
    /\ ptls \in [Ranks -> Seq(Located)]
    /\ \A r, s \in Ranks : \A i \in DOMAIN ptls[r], j \in DOMAIN ptls[s] :
           ptls[r][i].tag = ptls[s][j].tag => r = s /\ i = j
    /\ \A tag \in Tags : \E r \in Ranks : \E i \in DOMAIN ptls[r] : ptls[r][i].tag = tag

LEMMA Boxes ==
  ASSUME NEW axis \in Axes
  PROVE  /\ Size[axis] \in Nat \ {0} /\ L \in Nat \ {0} /\ Box(axis) \in Nat \ {0}
         /\ Box(axis) = Size[axis] * L
<1>1. Size[axis] \in Nat \ {0} /\ L \in Nat \ {0}
  BY SizesPositive, GhostAssumption
<1>2. Size[axis] * L \in Nat /\ Size[axis] * L # 0
  BY <1>1
<1> QED
  BY <1>1, <1>2 DEF Box

LEMMA HomeIs ==
  ASSUME NEW pos \in [Axes -> Int]
  PROVE  /\ HomeOf(pos) \in Ranks /\ InBox(pos) \in [Axes -> Int]
         /\ GridPos(HomeOf(pos)) = [axis \in Axes |-> (pos[axis] % Box(axis)) \div L]
<1> DEFINE cell == [axis \in Axes |-> (pos[axis] % Box(axis)) \div L]
<1>1. ASSUME NEW axis \in Axes
      PROVE  /\ pos[axis] % Box(axis) \in Int
             /\ (pos[axis] % Box(axis)) \div L \in 0 .. Size[axis] - 1
  <2>1. /\ Box(axis) \in Nat \ {0} /\ L \in Nat \ {0} /\ Size[axis] \in Nat \ {0}
        /\ Box(axis) = Size[axis] * L /\ pos[axis] \in Int
    BY Boxes
  <2> DEFINE x == pos[axis] % Box(axis)
  <2>2. x \in 0 .. Size[axis] * L - 1
    BY <2>1, Remainder
  <2> HIDE DEF x
  <2>3. x % L \in 0 .. L - 1 /\ x \div L \in Int /\ x = (x \div L) * L + (x % L)
    <3>1. x \in Int
      BY <2>1, <2>2
    <3> QED
      BY <2>1, <3>1, Remainder
  <2>4. x \div L >= 0
    <3>1. CASE x \div L <= -1
      <4>1. (x \div L) * L <= - L
        BY <2>1, <2>3, <3>1
      <4> QED
        BY <2>1, <2>2, <2>3, <4>1
    <3> QED
      BY <2>3, <3>1
  <2>5. x \div L <= Size[axis] - 1
    <3>1. CASE x \div L >= Size[axis]
      <4>1. (x \div L) * L >= Size[axis] * L
        BY <2>1, <2>3, <3>1
      <4> QED
        BY <2>1, <2>2, <2>3, <4>1
    <3> QED
      BY <2>1, <2>3, <3>1
  <2> QED
    BY <2>1, <2>2, <2>3, <2>4, <2>5 DEF x
<1>2. cell \in GridCells
  BY <1>1 DEF GridCells
<1>3. HomeOf(pos) = RankAt(cell)
  BY DEF HomeOf
<1> QED
  BY <1>1, <1>2, <1>3, CellHasRank DEF InBox

\* What a rank has after a migration: the particles that are in its domain.
LEMMA HomeListIs ==
  ASSUME NEW position \in [Tags -> [Axes -> Int]], NEW r \in Ranks
  PROVE  /\ HomeList(r, position) \in Seq(Located)
         /\ \A i, j \in DOMAIN HomeList(r, position) :
               HomeList(r, position)[i].tag = HomeList(r, position)[j].tag => i = j
         /\ \A i \in DOMAIN HomeList(r, position) :
               /\ HomeOf(position[HomeList(r, position)[i].tag]) = r
               /\ HomeList(r, position)[i].pos = InBox(position[HomeList(r, position)[i].tag])
         /\ \A tag \in Tags : HomeOf(position[tag]) = r =>
               \E i \in DOMAIN HomeList(r, position) : HomeList(r, position)[i].tag = tag
<1> DEFINE S == { tag \in Tags : HomeOf(position[tag]) = r }
           home == SetToSeq(S)
<1>1. IsFiniteSet(S)
  BY GhostAssumption, FS_Subset
<1>2. /\ home \in Seq(S) /\ DOMAIN home = 1 .. Cardinality(S)
      /\ \A i, j \in DOMAIN home : home[i] = home[j] => i = j
      /\ \A e \in S : \E i \in DOMAIN home : home[i] = e
  BY <1>1, ListOfSet
<1>3. HomeList(r, position) = [i \in DOMAIN home |-> Particle(home[i], InBox(position[home[i]]))]
  BY DEF HomeList
<1> HIDE DEF home
<1>4. \A i \in DOMAIN home :
         /\ home[i] \in Tags /\ HomeOf(position[home[i]]) = r
         /\ InBox(position[home[i]]) \in [Axes -> Int]
  <2>1. ASSUME NEW i \in DOMAIN home
        PROVE  home[i] \in S
    BY <1>2, ElementOfSeq, LenProperties
  <2> QED
    BY <2>1, HomeIs
<1>5. \A i \in DOMAIN home : Particle(home[i], InBox(position[home[i]])) \in Located
  BY <1>4 DEF Particle, Located
<1>6. HomeList(r, position) \in Seq(Located)
  <2>1. HomeList(r, position) \in [1 .. Cardinality(S) -> Located] /\ Cardinality(S) \in Nat
    BY <1>1, <1>2, <1>3, <1>5, FS_CardinalityType
  <2> HIDE DEF S
  <2> QED
    BY <2>1, SeqDef
<1>7. /\ DOMAIN HomeList(r, position) = DOMAIN home
      /\ \A i \in DOMAIN home : /\ HomeList(r, position)[i].tag = home[i]
                               /\ HomeList(r, position)[i].pos = InBox(position[home[i]])
  BY <1>3 DEF Particle
<1>8. \A tag \in Tags : HomeOf(position[tag]) = r => \E i \in DOMAIN home : home[i] = tag
  BY <1>2
<1> DEFINE list == HomeList(r, position)
<1>9. /\ list \in Seq(Located) /\ DOMAIN list = DOMAIN home
      /\ \A i \in DOMAIN home : list[i].tag = home[i] /\ list[i].pos = InBox(position[home[i]])
  BY <1>6, <1>7
<1> HIDE DEF S, list
<1>10. \A i, j \in DOMAIN list : list[i].tag = list[j].tag => i = j
  BY <1>2, <1>9
<1>11. \A i \in DOMAIN list : /\ HomeOf(position[list[i].tag]) = r
                              /\ list[i].pos = InBox(position[list[i].tag])
  BY <1>4, <1>9
<1>12. \A tag \in Tags : HomeOf(position[tag]) = r => \E i \in DOMAIN list : list[i].tag = tag
  BY <1>8, <1>9
<1> QED
  BY <1>9, <1>10, <1>11, <1>12 DEF list

LEMMA OwnedByHome ==
  ASSUME NEW position \in [Tags -> [Axes -> Int]],
         ptls = [r \in Ranks |-> HomeList(r, position)]
  PROVE  Owned
<1>1. \A r \in Ranks : ptls[r] = HomeList(r, position)
  OBVIOUS
<1>2. ptls \in [Ranks -> Seq(Located)]
  BY <1>1, HomeListIs
<1>3. ASSUME NEW r \in Ranks, NEW s \in Ranks, NEW i \in DOMAIN ptls[r], NEW j \in DOMAIN ptls[s],
             ptls[r][i].tag = ptls[s][j].tag
      PROVE  r = s /\ i = j
  <2>1. HomeOf(position[ptls[r][i].tag]) = r /\ HomeOf(position[ptls[s][j].tag]) = s
    BY <1>1, HomeListIs
  <2>2. r = s
    BY <1>3, <2>1
  <2> QED
    BY <1>1, <1>3, <2>2, HomeListIs
<1>4. ASSUME NEW tag \in Tags
      PROVE  \E r \in Ranks : \E i \in DOMAIN ptls[r] : ptls[r][i].tag = tag
  <2>1. ASSUME NEW r \in Ranks
        PROVE  \A t \in Tags : HomeOf(position[t]) = r =>
                  \E i \in DOMAIN HomeList(r, position) : HomeList(r, position)[i].tag = t
    BY HomeListIs, Zenon
  <2>2. HomeOf(position[tag]) \in Ranks
    BY HomeIs
  <2> QED
    BY <1>1, <2>1, <2>2
<1> QED
  BY <1>2, <1>3, <1>4 DEF Owned

LEMMA OwnerIs ==
  ASSUME Owned, NEW r \in Ranks, NEW i \in DOMAIN ptls[r]
  PROVE  /\ ptls[r][i] \in Located /\ ptls[r][i].tag \in Tags /\ ptls[r][i].pos \in [Axes -> Int]
         /\ ptls[r][i] = Particle(ptls[r][i].tag, ptls[r][i].pos)
         /\ Owner(ptls[r][i].tag) = r /\ OwnPosition[ptls[r][i].tag] = ptls[r][i].pos
         /\ Own(ptls[r][i].tag) = ptls[r][i]
<1> DEFINE tag == ptls[r][i].tag
<1>1. ptls[r] \in Seq(Located)
  BY DEF Owned
<1>2. ptls[r][i] \in Located
  BY <1>1, ElementOfSeq, LenProperties
<1>3. /\ ptls[r][i].tag \in Tags /\ ptls[r][i].pos \in [Axes -> Int]
      /\ ptls[r][i] = Particle(ptls[r][i].tag, ptls[r][i].pos)
  BY <1>2 DEF Located, Particle
<1>4. \A s \in Ranks : tag \in TagsOf(ptls[s]) <=> s = r
  BY DEF Owned, TagsOf
<1>5. Owner(tag) = r
  BY <1>4 DEF Owner
<1>6. \A p \in Range(ptls[r]) : p.tag = tag <=> p = ptls[r][i]
  BY DEF Owned, Range
<1>7. ptls[r][i] \in Range(ptls[r])
  BY DEF Range
<1>8. PositionIn(ptls[r], tag) = ptls[r][i].pos
  <2>1. (CHOOSE p \in Range(ptls[r]) : p.tag = tag) = ptls[r][i]
    BY <1>6, <1>7
  <2> QED
    BY <2>1, Zenon DEF PositionIn
<1>9. OwnPosition[tag] = ptls[r][i].pos
  BY <1>3, <1>5, <1>8 DEF OwnPosition
<1> QED
  BY <1>2, <1>3, <1>5, <1>9 DEF Own

LEMMA OwnerAlways ==
  Owned => \A r \in Ranks : \A i \in DOMAIN ptls[r] :
      Owner(ptls[r][i].tag) = r /\ OwnPosition[ptls[r][i].tag] = ptls[r][i].pos
BY OwnerIs

LEMMA OwnerNext ==
  Owned' => (\A r \in Ranks : \A i \in DOMAIN ptls[r] :
      Owner(ptls[r][i].tag) = r /\ OwnPosition[ptls[r][i].tag] = ptls[r][i].pos)'
BY OwnerAlways, PTL

LEMMA OwnPositionIs ==
  ASSUME Owned, NEW tag \in Tags
  PROVE  /\ Owner(tag) \in Ranks /\ OwnPosition[tag] \in [Axes -> Int]
         /\ \E i \in DOMAIN ptls[Owner(tag)] : ptls[Owner(tag)][i] = Own(tag)
<1>1. PICK r \in Ranks : \E i \in DOMAIN ptls[r] : ptls[r][i].tag = tag
  BY DEF Owned
<1>2. PICK i \in DOMAIN ptls[r] : ptls[r][i].tag = tag
  BY <1>1
<1> QED
  BY <1>2, OwnerIs

LEMMA OwnedAfterMove ==
  ASSUME Owned, NEW d \in Steps,
         ptls' = [r \in Ranks |-> [i \in DOMAIN ptls[r] |-> Displaced(ptls[r][i], d)]]
  PROVE  /\ Owned'
         /\ \A r \in Ranks : DOMAIN ptls'[r] = DOMAIN ptls[r] /\ Len(ptls'[r]) = Len(ptls[r])
         /\ \A r \in Ranks : \A i \in DOMAIN ptls[r] : ptls'[r][i].tag = ptls[r][i].tag
<1>1. ASSUME NEW r \in Ranks
      PROVE  /\ ptls'[r] \in Seq(Located)
             /\ DOMAIN ptls'[r] = DOMAIN ptls[r] /\ Len(ptls'[r]) = Len(ptls[r])
             /\ \A i \in DOMAIN ptls[r] : ptls'[r][i].tag = ptls[r][i].tag
  <2>1. ptls[r] \in Seq(Located) /\ Len(ptls[r]) \in Nat /\ DOMAIN ptls[r] = 1 .. Len(ptls[r])
    BY LenProperties DEF Owned
  <2>2. ASSUME NEW i \in DOMAIN ptls[r]
        PROVE  Displaced(ptls[r][i], d) \in Located /\ Displaced(ptls[r][i], d).tag = ptls[r][i].tag
    <3>1. ptls[r][i].tag \in Tags /\ ptls[r][i].pos \in [Axes -> Int] /\ d \in [Axes -> Int]
      BY OwnerIs, LayerAssumption
    <3>2. [axis \in Axes |-> ptls[r][i].pos[axis] + d[axis]] \in [Axes -> Int]
      BY <3>1
    <3> QED
      BY <3>1, <3>2 DEF Displaced, Particle, Located
  <2>3. ptls'[r] = [i \in DOMAIN ptls[r] |-> Displaced(ptls[r][i], d)]
    OBVIOUS
  <2>4. ptls'[r] \in [1 .. Len(ptls[r]) -> Located]
    BY <2>1, <2>2, <2>3
  <2>5. ptls'[r] \in Seq(Located)
    BY <2>1, <2>4, SeqDef
  <2> QED
    BY <2>1, <2>2, <2>3, <2>4, <2>5, LenProperties
<1>2. ptls' \in [Ranks -> Seq(Located)]
  BY <1>1
<1>3. ASSUME NEW r \in Ranks, NEW s \in Ranks, NEW i \in DOMAIN ptls'[r], NEW j \in DOMAIN ptls'[s],
             ptls'[r][i].tag = ptls'[s][j].tag
      PROVE  r = s /\ i = j
  <2>1. i \in DOMAIN ptls[r] /\ ptls'[r][i].tag = ptls[r][i].tag
    BY <1>1
  <2>2. j \in DOMAIN ptls[s] /\ ptls'[s][j].tag = ptls[s][j].tag
    BY <1>1
  <2> QED
    BY <1>3, <2>1, <2>2 DEF Owned
<1>4. ASSUME NEW tag \in Tags
      PROVE  \E r \in Ranks : \E i \in DOMAIN ptls'[r] : ptls'[r][i].tag = tag
  <2>1. PICK r \in Ranks : \E i \in DOMAIN ptls[r] : ptls[r][i].tag = tag
    BY DEF Owned
  <2>2. PICK i \in DOMAIN ptls[r] : ptls[r][i].tag = tag
    BY <2>1
  <2>3. i \in DOMAIN ptls'[r] /\ ptls'[r][i].tag = tag
    BY <1>1, <2>2
  <2> QED
    BY <2>3
<1> QED
  BY <1>1, <1>2, <1>3, <1>4, Zenon DEF Owned

LEMMA ReverseIs ==
  ASSUME NEW S, NEW list \in Seq(S)
  PROVE  /\ Reverse(list) \in Seq(S) /\ Len(Reverse(list)) = Len(list)
         /\ Len(list) \in Nat /\ DOMAIN list = 1 .. Len(list) /\ DOMAIN Reverse(list) = DOMAIN list
         /\ \A i \in DOMAIN list : /\ Len(list) - i + 1 \in DOMAIN list
                                   /\ Reverse(list)[i] = list[Len(list) - i + 1]
                                   /\ list[i] = Reverse(list)[Len(list) - i + 1]
<1>1. Len(list) \in Nat /\ DOMAIN list = 1 .. Len(list) /\ \A i \in 1 .. Len(list) : list[i] \in S
  BY LenProperties, ElementOfSeq
<1> DEFINE n == Len(list)
<1>2. Reverse(list) = [i \in 1 .. n |-> list[(n - i) + 1]]
  BY DEF Reverse
<1> HIDE DEF n
<1>3. n \in Nat /\ \A i \in 1 .. n : (n - i) + 1 \in 1 .. n /\ n - ((n - i) + 1) + 1 = i
  BY <1>1 DEF n
<1>4. Reverse(list) \in [1 .. n -> S]
  BY <1>1, <1>2, <1>3 DEF n
<1>5. Reverse(list) \in Seq(S) /\ Len(Reverse(list)) = n
  BY <1>3, <1>4, SeqDef, LenProperties
<1> QED
  BY <1>1, <1>2, <1>3, <1>4, <1>5 DEF n

LEMMA OwnedAfterSort ==
  ASSUME Owned, NEW r \in Ranks, ptls' = [ptls EXCEPT ![r] = Reverse(@)]
  PROVE  /\ Owned' /\ DOMAIN ptls'[r] = DOMAIN ptls[r] /\ Len(ptls'[r]) = Len(ptls[r])
         /\ \A i \in DOMAIN ptls[r] : Len(ptls[r]) - i + 1 \in DOMAIN ptls[r]
         /\ \A i \in DOMAIN ptls[r] : ptls'[r][i] = ptls[r][Len(ptls[r]) - i + 1]
         /\ \A i \in DOMAIN ptls[r] : ptls[r][i] = ptls'[r][Len(ptls[r]) - i + 1]
         /\ \A s \in Ranks \ {r} : ptls'[s] = ptls[s]
         /\ \A tag \in Tags : Owner(tag)' = Owner(tag)
         /\ OwnPosition' = OwnPosition
<1>1. ptls \in [Ranks -> Seq(Located)]
  BY DEF Owned
<1>2. /\ ptls'[r] = Reverse(ptls[r]) /\ \A s \in Ranks \ {r} : ptls'[s] = ptls[s]
      /\ ptls[r] \in Seq(Located)
  BY <1>1
<1>3. /\ ptls'[r] \in Seq(Located) /\ Len(ptls'[r]) = Len(ptls[r])
      /\ Len(ptls[r]) \in Nat /\ DOMAIN ptls[r] = 1 .. Len(ptls[r]) /\ DOMAIN ptls'[r] = DOMAIN ptls[r]
      /\ \A i \in DOMAIN ptls[r] : /\ Len(ptls[r]) - i + 1 \in DOMAIN ptls[r]
                                   /\ ptls'[r][i] = ptls[r][Len(ptls[r]) - i + 1]
                                   /\ ptls[r][i] = ptls'[r][Len(ptls[r]) - i + 1]
  BY <1>2, ReverseIs
<1>4. ptls' \in [Ranks -> Seq(Located)]
  BY <1>1, <1>2, <1>3
<1>5. ASSUME NEW p \in Ranks, NEW s \in Ranks, NEW i \in DOMAIN ptls'[p], NEW j \in DOMAIN ptls'[s],
             ptls'[p][i].tag = ptls'[s][j].tag
      PROVE  p = s /\ i = j
  <2> DEFINE n == Len(ptls[r])
             k == IF p = r THEN n - i + 1 ELSE i
             l == IF s = r THEN n - j + 1 ELSE j
  <2>1. k \in DOMAIN ptls[p] /\ ptls'[p][i] = ptls[p][k] /\ l \in DOMAIN ptls[s] /\ ptls'[s][j] = ptls[s][l]
    BY <1>2, <1>3
  <2>2. p = s /\ k = l
    BY <1>5, <2>1 DEF Owned
  <2> QED
    BY <1>3, <2>2
<1>6. ASSUME NEW s \in Ranks, NEW i \in DOMAIN ptls[s]
      PROVE  \E j \in DOMAIN ptls'[s] : ptls'[s][j] = ptls[s][i]
  <2>1. CASE s = r
    <3>1. /\ Len(ptls[r]) - i + 1 \in DOMAIN ptls'[r]
          /\ ptls'[r][Len(ptls[r]) - i + 1] = ptls[r][i]
      BY <1>3, <2>1
    <3> QED
      BY <2>1, <3>1
  <2>2. CASE s # r
    BY <1>2, <2>2
  <2> QED
    BY <2>1, <2>2
<1>7. \A tag \in Tags : \E s \in Ranks : \E i \in DOMAIN ptls'[s] : ptls'[s][i].tag = tag
  BY <1>6 DEF Owned
<1>8. Owned'
  BY <1>4, <1>5, <1>7 DEF Owned
<1>9. ASSUME NEW tag \in Tags
      PROVE  Owner(tag)' = Owner(tag) /\ OwnPosition'[tag] = OwnPosition[tag]
  <2>1. PICK s \in Ranks : \E i \in DOMAIN ptls[s] : ptls[s][i].tag = tag
    BY DEF Owned
  <2>2. PICK i \in DOMAIN ptls[s] : ptls[s][i].tag = tag
    BY <2>1
  <2>3. PICK j \in DOMAIN ptls'[s] : ptls'[s][j] = ptls[s][i]
    BY <1>6
  <2>4. Owner(ptls[s][i].tag) = s /\ OwnPosition[ptls[s][i].tag] = ptls[s][i].pos
    BY OwnerIs
  <2>5. (Owner(ptls[s][j].tag) = s /\ OwnPosition[ptls[s][j].tag] = ptls[s][j].pos)'
    BY <1>8, OwnerNext
  <2> QED
    BY <2>2, <2>3, <2>4, <2>5
<1>10. OwnPosition' = OwnPosition
  BY <1>9 DEF OwnPosition
<1> QED
  BY <1>2, <1>3, <1>8, <1>9, <1>10

-----------------------------------------------------------------------------
(* Wrapping moves a position by periods of the box: a copy of a particle    *)
(* that is not far outside the box is not far outside either, and in the    *)
(* shifted box of the rank that has wrapped it.                             *)

NearBox(x, axis) == x \in -L .. Box(axis) + L - 1
Congruent(x, y) ==
    \A axis \in Axes :
        IF Size[axis] = 1 THEN x[axis] = y[axis]
        ELSE /\ (x[axis] - y[axis]) % Box(axis) = 0
             /\ NearBox(y[axis], axis) => NearBox(x[axis], axis)

BoxShift(r, axis) ==
    IF GridPos(r)[axis] = 0 THEN -2 * LayerWidth
    ELSE IF GridPos(r)[axis] = Size[axis] - 1 THEN 2 * LayerWidth ELSE 0
InShiftedBox(r, x, axis) == x \in BoxShift(r, axis) .. Box(axis) + BoxShift(r, axis) - 1

\* What a rank has of a particle that its owner has at y.
Mirrors(r, x, y) ==
    /\ Congruent(x, y)
    /\ \A axis \in Axes :
          Size[axis] # 1 /\ NearBox(y[axis], axis) => InShiftedBox(r, x[axis], axis)

LEMMA CongruentToItself ==
  ASSUME NEW x \in [Axes -> Int]
  PROVE  Congruent(x, x)
<1>1. ASSUME NEW axis \in Axes
      PROVE  (x[axis] - x[axis]) % Box(axis) = 0
  <2>1. x[axis] \in Int /\ x[axis] - x[axis] = 0 * Box(axis) /\ Box(axis) \in Nat \ {0}
    BY Boxes
  <2> QED
    BY <2>1, WholePeriods
<1> QED
  BY <1>1 DEF Congruent

\* The shifted box of a rank, along an axis with several domains.
LEMMA ShiftIs ==
  ASSUME NEW r \in Ranks, NEW axis \in Axes, Size[axis] # 1
  PROVE  /\ BoxShift(r, axis) \in Int /\ -L < BoxShift(r, axis) /\ BoxShift(r, axis) < L
         /\ Box(axis) \in Int /\ 2 * L <= Box(axis) /\ L \in Nat \ {0}
<1>1. Size[axis] \in Nat \ {0} /\ L \in Nat \ {0} /\ Box(axis) \in Nat \ {0} /\ Box(axis) = Size[axis] * L
  BY Boxes
<1>2. LayerWidth \in Nat /\ 2 * LayerWidth < L
  BY LayerAssumption
<1>3. 2 * L <= Size[axis] * L
  <2> DEFINE n == Size[axis] - 2
  <2>1. n \in Nat /\ L \in Nat
    BY <1>1
  <2>2. Size[axis] * L = (n + 2) * L
    BY <2>1, <1>1
  <2> HIDE DEF n
  <2>3. (n + 2) * L = n * L + 2 * L /\ n * L \in Nat
    BY <2>1
  <2> QED
    BY <2>1, <2>2, <2>3
<1>4. BoxShift(r, axis) \in {-2 * LayerWidth, 2 * LayerWidth, 0}
  BY DEF BoxShift
<1> QED
  BY <1>1, <1>2, <1>3, <1>4

LEMMA WrapIs ==
  ASSUME NEW r \in Ranks, NEW x \in [Axes -> Int], NEW y \in [Axes -> Int], Congruent(x, y)
  PROVE  /\ WrapGhost(r, x, LayerWidth) \in [Axes -> Int]
         /\ Mirrors(r, WrapGhost(r, x, LayerWidth), y)
<1> DEFINE w == WrapGhost(r, x, LayerWidth)
<1>1. ASSUME NEW axis \in Axes
      PROVE  /\ w[axis] \in Int
             /\ Size[axis] = 1 => w[axis] = x[axis]
             /\ \E k \in {-1, 0, 1} : w[axis] = x[axis] + k * Box(axis)
  <2>1. x[axis] \in Int /\ Box(axis) \in Nat \ {0} /\ Box(axis) \in Int
    BY Boxes
  <2>2. \/ w[axis] = x[axis]
        \/ Size[axis] # 1 /\ w[axis] = x[axis] - Box(axis)
        \/ Size[axis] # 1 /\ w[axis] = x[axis] + Box(axis)
    BY DEF WrapGhost
  <2> HIDE DEF w
  <2>3. CASE w[axis] = x[axis]
    <3>1. x[axis] = x[axis] + 0 * Box(axis)
      BY <2>1
    <3> QED
      BY <2>1, <2>3, <3>1
  <2>4. CASE Size[axis] # 1 /\ w[axis] = x[axis] - Box(axis)
    <3>1. x[axis] - Box(axis) = x[axis] + (-1) * Box(axis)
      BY <2>1
    <3> QED
      BY <2>1, <2>4, <3>1
  <2>5. CASE Size[axis] # 1 /\ w[axis] = x[axis] + Box(axis)
    <3>1. x[axis] + Box(axis) = x[axis] + 1 * Box(axis)
      BY <2>1
    <3> QED
      BY <2>1, <2>5, <3>1
  <2> QED
    BY <2>2, <2>3, <2>4, <2>5
<1>2. w \in [Axes -> Int]
  BY <1>1 DEF WrapGhost
<1>3. ASSUME NEW axis \in Axes, Size[axis] # 1, NearBox(x[axis], axis)
      PROVE  InShiftedBox(r, w[axis], axis)
  <2> DEFINE u == x[axis]
             b == Box(axis)
             c == BoxShift(r, axis)
  <2>1. u \in -L .. b + L - 1
    BY <1>3 DEF NearBox
  <2>2. c \in Int /\ b \in Int /\ -L < c /\ c < L /\ 2 * L <= b /\ L \in Nat
    BY <1>3, ShiftIs
  <2>3. w[axis] = IF u >= b + c THEN u - b ELSE IF u < c THEN u + b ELSE u
    BY <1>3 DEF WrapGhost, BoxShift
  <2> HIDE DEF u, b, c, w
  <2>4. w[axis] \in c .. b + c - 1
    BY <2>1, <2>2, <2>3
  <2> QED
    BY <2>4 DEF InShiftedBox, b, c
<1> HIDE DEF w
<1>4. ASSUME NEW axis \in Axes, Size[axis] # 1, NearBox(y[axis], axis)
      PROVE  InShiftedBox(r, w[axis], axis) /\ NearBox(w[axis], axis)
  <2>1. InShiftedBox(r, w[axis], axis)
    BY <1>3, <1>4 DEF Congruent
  <2> DEFINE b == Box(axis)
             c == BoxShift(r, axis)
  <2>2. c \in Int /\ b \in Int /\ -L < c /\ c < L /\ 2 * L <= b /\ L \in Nat
    BY <1>4, ShiftIs
  <2>3. w[axis] \in c .. b + c - 1
    BY <2>1 DEF InShiftedBox
  <2> HIDE DEF b, c
  <2>4. w[axis] \in -L .. b + L - 1
    BY <2>2, <2>3
  <2> QED
    BY <2>1, <2>4 DEF NearBox, b
<1>5. ASSUME NEW axis \in Axes
      PROVE  IF Size[axis] = 1 THEN w[axis] = y[axis] ELSE (w[axis] - y[axis]) % Box(axis) = 0
  <2>1. x[axis] \in Int /\ y[axis] \in Int /\ Box(axis) \in Nat \ {0}
    BY Boxes
  <2>2. CASE Size[axis] = 1
    BY <1>1, <2>2 DEF Congruent
  <2>3. CASE Size[axis] # 1
    <3>1. (x[axis] - y[axis]) % Box(axis) = 0
      BY <2>3 DEF Congruent
    <3>2. PICK k \in {-1, 0, 1} : w[axis] = x[axis] + k * Box(axis)
      BY <1>1
    <3> DEFINE b == Box(axis)
               u == x[axis]
               v == y[axis]
               d == u - v
    <3>3. d \in Int /\ k \in Int /\ b \in Nat \ {0}
      BY <2>1
    <3>4. k * b \in Int
      BY <3>3
    <3>5. w[axis] - y[axis] = d + k * b
      BY <2>1, <3>2, <3>4
    <3> HIDE DEF d, b
    <3>6. (d + k * b) % b = d % b
      BY <3>3, WholePeriods
    <3> QED
      BY <2>3, <3>1, <3>5, <3>6 DEF d, b
  <2> QED
    BY <2>2, <2>3
<1>6. Congruent(w, y)
  BY <1>4, <1>5 DEF Congruent
<1>7. Mirrors(r, w, y)
  BY <1>4, <1>6 DEF Mirrors
<1> QED
  BY <1>2, <1>7 DEF w

-----------------------------------------------------------------------------
(* The numbers of ghosts from the directions before one, which say where in *)
(* the arrays those of the next direction begin.                            *)

\* What is not before the k-th direction of the route.
Bound(k) == IF k \in DOMAIN Route THEN Route[k] ELSE 6

SumBefore(n, dir) ==
    LET m(d) == IF d < dir /\ d \in Communicating THEN n[d] ELSE 0
    IN  m(0) + m(1) + m(2) + m(3) + m(4) + m(5)

Total(n, k) == SumBefore(n, Bound(k))

LEMMA BoundIs ==
  ASSUME NEW k \in 1 .. Len(Route) + 1
  PROVE  /\ Bound(k) \in Int
         /\ \A l \in DOMAIN Route : Route[l] < Bound(k) <=> l < k
         /\ \A dir \in Directions : dir \in Communicating <=> \E l \in DOMAIN Route : Route[l] = dir
<1>1. /\ Len(Route) \in Nat /\ DOMAIN Route = 1 .. Len(Route)
      /\ \A l \in DOMAIN Route : Route[l] \in 0 .. 5
      /\ \A l, m \in DOMAIN Route : l < m => Route[l] < Route[m]
  BY RouteShape DEF Directions
<1>2. ASSUME NEW l \in DOMAIN Route
      PROVE  Route[l] < Bound(k) <=> l < k
  <2>1. CASE k \in DOMAIN Route
    <3>1. l < k \/ l = k \/ k < l
      BY <1>1
    <3> QED
      BY <1>1, <2>1, <3>1 DEF Bound
  <2>2. CASE k \notin DOMAIN Route
    BY <1>1, <2>2 DEF Bound
  <2> QED
    BY <2>1, <2>2
<1>3. Bound(k) \in Int
  BY <1>1 DEF Bound
<1> QED
  BY <1>2, <1>3 DEF Communicating, Range

LEMMA TotalIs ==
  ASSUME NEW n \in [Directions -> Nat], NEW k \in 1 .. Len(Route) + 1
  PROVE  Total(n, k) \in Nat
<1> DEFINE m(d) == IF d < Bound(k) /\ d \in Communicating THEN n[d] ELSE 0
<1>1. ASSUME NEW d \in 0 .. 5 PROVE m(d) \in Nat
  BY DEF Directions
<1>2. Total(n, k) = m(0) + m(1) + m(2) + m(3) + m(4) + m(5)
  BY DEF Total, SumBefore
<1> HIDE DEF m
<1>3. m(0) \in Nat /\ m(1) \in Nat /\ m(2) \in Nat /\ m(3) \in Nat /\ m(4) \in Nat /\ m(5) \in Nat
  BY <1>1
<1> QED
  BY <1>2, <1>3

LEMMA TotalFirst ==
  ASSUME NEW n \in [Directions -> Nat]
  PROVE  Total(n, 1) = 0
<1>1. 1 \in 1 .. Len(Route) + 1 /\ DOMAIN Route = 1 .. Len(Route) /\ Len(Route) \in Nat
  BY RouteShape
<1>2. \A d \in Directions : ~ (d \in Communicating /\ d < Bound(1))
  BY <1>1, BoundIs
<1> QED
  BY <1>2 DEF Total, SumBefore, Directions

LEMMA TotalNext ==
  ASSUME NEW n \in [Directions -> Nat], NEW k \in DOMAIN Route
  PROVE  Total(n, k + 1) = Total(n, k) + n[Route[k]]
<1>1. /\ k \in 1 .. Len(Route) + 1 /\ k + 1 \in 1 .. Len(Route) + 1
      /\ DOMAIN Route = 1 .. Len(Route) /\ Len(Route) \in Nat /\ Route[k] \in Directions
  BY RouteShape
<1>2. ASSUME NEW d \in Directions
      PROVE  /\ d \in Communicating /\ d < Bound(k + 1) <=>
                   (d \in Communicating /\ d < Bound(k)) \/ d = Route[k]
             /\ d \in Communicating /\ d < Bound(k) => d # Route[k]
  <2>1. CASE d \in Communicating
    <3>1. PICK l \in DOMAIN Route : Route[l] = d
      BY <1>1, <2>1, BoundIs
    <3>2. (d < Bound(k + 1) <=> l < k + 1) /\ (d < Bound(k) <=> l < k)
      BY <1>1, <3>1, BoundIs
    <3>3. d = Route[k] <=> l = k
      <4>1. l < k \/ l = k \/ k < l
        BY <1>1
      <4>2. Route[l] \in 0 .. 5 /\ Route[k] \in 0 .. 5
        BY RouteShape DEF Directions
      <4>3. (l < k => Route[l] < Route[k]) /\ (k < l => Route[k] < Route[l])
        BY RouteShape
      <4> QED
        BY <3>1, <4>1, <4>2, <4>3
    <3> QED
      BY <1>1, <2>1, <3>2, <3>3
  <2>2. CASE d \notin Communicating
    BY <1>1, <2>2, BoundIs
  <2> QED
    BY <2>1, <2>2
<1> DEFINE new(d) == IF d < Bound(k + 1) /\ d \in Communicating THEN n[d] ELSE 0
           old(d) == IF d < Bound(k) /\ d \in Communicating THEN n[d] ELSE 0
           spot(d) == IF d = Route[k] THEN n[d] ELSE 0
<1>3. ASSUME NEW d \in Directions
      PROVE  new(d) \in Nat /\ old(d) \in Nat /\ spot(d) \in Nat /\ new(d) = old(d) + spot(d)
  BY <1>2
<1>4. spot(0) + spot(1) + spot(2) + spot(3) + spot(4) + spot(5) = n[Route[k]]
  <2>1. ASSUME NEW e \in 0 .. 5, e = Route[k]
        PROVE  spot(0) + spot(1) + spot(2) + spot(3) + spot(4) + spot(5) = n[e]
    <3>1. n[e] \in Nat
      BY <2>1 DEF Directions
    <3>2. \A d : spot(d) = IF d = e THEN n[e] ELSE 0
      BY <2>1
    <3> HIDE DEF spot
    <3> QED
      BY <3>1, <3>2
  <2> QED
    BY <1>1, <2>1 DEF Directions
<1>5. /\ Total(n, k + 1) = new(0) + new(1) + new(2) + new(3) + new(4) + new(5)
      /\ Total(n, k) = old(0) + old(1) + old(2) + old(3) + old(4) + old(5)
  BY DEF Total, SumBefore
<1> HIDE DEF new, old, spot
<1>6. \A d \in 0 .. 5 : new(d) \in Nat /\ old(d) \in Nat /\ spot(d) \in Nat /\ new(d) = old(d) + spot(d)
  BY <1>3 DEF Directions
<1>7. /\ old(0) \in Nat /\ spot(0) \in Nat /\ new(0) = old(0) + spot(0)
      /\ old(1) \in Nat /\ spot(1) \in Nat /\ new(1) = old(1) + spot(1)
      /\ old(2) \in Nat /\ spot(2) \in Nat /\ new(2) = old(2) + spot(2)
      /\ old(3) \in Nat /\ spot(3) \in Nat /\ new(3) = old(3) + spot(3)
      /\ old(4) \in Nat /\ spot(4) \in Nat /\ new(4) = old(4) + spot(4)
      /\ old(5) \in Nat /\ spot(5) \in Nat /\ new(5) = old(5) + spot(5)
  BY <1>6
<1> QED
  BY <1>4, <1>5, <1>7

LEMMA TotalSame ==
  ASSUME NEW n \in [Directions -> Nat], NEW m \in [Directions -> Nat], NEW k \in 1 .. Len(Route) + 1,
         \A l \in DOMAIN Route : l < k => n[Route[l]] = m[Route[l]]
  PROVE  Total(n, k) = Total(m, k)
<1>1. ASSUME NEW d \in Directions, d \in Communicating, d < Bound(k)
      PROVE  n[d] = m[d]
  BY <1>1, BoundIs
<1>2. \A d \in 0 .. 5 : d \in Communicating /\ d < Bound(k) => n[d] = m[d]
  BY <1>1 DEF Directions
<1> QED
  BY <1>2 DEF Total, SumBefore

LEMMA SixTerms ==
  ASSUME NEW a0 \in Nat, NEW a1 \in Nat, NEW a2 \in Nat, NEW a3 \in Nat, NEW a4 \in Nat, NEW a5 \in Nat,
         NEW b0 \in Nat, NEW b1 \in Nat, NEW b2 \in Nat, NEW b3 \in Nat, NEW b4 \in Nat, NEW b5 \in Nat,
         a0 <= b0, a1 <= b1, a2 <= b2, a3 <= b3, a4 <= b4, a5 <= b5
  PROVE  a0 + a1 + a2 + a3 + a4 + a5 <= b0 + b1 + b2 + b3 + b4 + b5
OBVIOUS

LEMMA TotalGrows ==
  ASSUME NEW n \in [Directions -> Nat], NEW k \in 1 .. Len(Route) + 1,
         NEW l \in 1 .. Len(Route) + 1, k <= l
  PROVE  Total(n, k) <= Total(n, l)
<1>1. ASSUME NEW d \in Directions, d \in Communicating, d < Bound(k)
      PROVE  d < Bound(l)
  <2>1. PICK m \in DOMAIN Route : Route[m] = d
    BY <1>1, BoundIs
  <2>2. m < k
    BY <1>1, <2>1, BoundIs
  <2>3. m < l
    BY <2>2, RouteShape
  <2> QED
    BY <2>1, <2>3, BoundIs
<1> DEFINE new(d) == IF d < Bound(l) /\ d \in Communicating THEN n[d] ELSE 0
           old(d) == IF d < Bound(k) /\ d \in Communicating THEN n[d] ELSE 0
<1>2. ASSUME NEW d \in Directions
      PROVE  new(d) \in Nat /\ old(d) \in Nat /\ old(d) <= new(d)
  BY <1>1
<1>3. /\ Total(n, l) = new(0) + new(1) + new(2) + new(3) + new(4) + new(5)
      /\ Total(n, k) = old(0) + old(1) + old(2) + old(3) + old(4) + old(5)
  BY DEF Total, SumBefore
<1> HIDE DEF new, old
<1>4. \A d \in 0 .. 5 : new(d) \in Nat /\ old(d) \in Nat /\ old(d) <= new(d)
  BY <1>2 DEF Directions
<1>5. /\ old(0) \in Nat /\ new(0) \in Nat /\ old(0) <= new(0)
      /\ old(1) \in Nat /\ new(1) \in Nat /\ old(1) <= new(1)
      /\ old(2) \in Nat /\ new(2) \in Nat /\ old(2) <= new(2)
      /\ old(3) \in Nat /\ new(3) \in Nat /\ old(3) <= new(3)
      /\ old(4) \in Nat /\ new(4) \in Nat /\ old(4) <= new(4)
      /\ old(5) \in Nat /\ new(5) \in Nat /\ old(5) <= new(5)
  BY <1>4
<1> DEFINE o0 == old(0)
           o1 == old(1)
           o2 == old(2)
           o3 == old(3)
           o4 == old(4)
           o5 == old(5)
           n0 == new(0)
           n1 == new(1)
           n2 == new(2)
           n3 == new(3)
           n4 == new(4)
           n5 == new(5)
<1>6. /\ o0 \in Nat /\ o1 \in Nat /\ o2 \in Nat /\ o3 \in Nat /\ o4 \in Nat /\ o5 \in Nat
      /\ n0 \in Nat /\ n1 \in Nat /\ n2 \in Nat /\ n3 \in Nat /\ n4 \in Nat /\ n5 \in Nat
      /\ o0 <= n0 /\ o1 <= n1 /\ o2 <= n2 /\ o3 <= n3 /\ o4 <= n4 /\ o5 <= n5
  BY <1>5
<1>7. /\ Total(n, k) = o0 + o1 + o2 + o3 + o4 + o5
      /\ Total(n, l) = n0 + n1 + n2 + n3 + n4 + n5
  BY <1>3
<1> HIDE DEF o0, o1, o2, o3, o4, o5, n0, n1, n2, n3, n4, n5
<1> QED
  BY <1>6, <1>7, SixTerms

-----------------------------------------------------------------------------
(* Communicator: the copy lists of a rank and the ghosts of its neighbours. *)
(* The ghosts from a direction are those the list of the neighbour names,   *)
(* in its order, and begin where the directions before it end; a list names *)
(* only what its rank had when it made the list.                            *)

Src(r, k) == NeighborRank(r, Opposite(Route[k]))

\* For how many directions of the route a rank has received ghosts, and for how
\* many it has made its lists, since the last migration.
Exchanged(r) ==
    IF moves > 0 \/ phase[r] = "current" THEN Len(Route)
    ELSE IF stage[r] = 0 THEN 0 ELSE stage[r] - 1
Announced(r) == IF moves > 0 \/ phase[r] = "current" THEN Len(Route) ELSE stage[r]

FromList(r, k) ==
    /\ k <= Announced(Src(r, k))
    /\ numRecv[r][Route[k]] = Len(copyGhosts[Src(r, k)][Route[k]])
    /\ \A j \in DOMAIN copyGhosts[Src(r, k)][Route[k]] :
           /\ Total(numRecv[r], k) + j \in DOMAIN ghosts[r]
           /\ ghosts[r][Total(numRecv[r], k) + j].tag = copyGhosts[Src(r, k)][Route[k]][j]

\* A local particle, or one of the first ghosts.
Known(list, copies, tag, count) ==
    \/ \E i \in DOMAIN list : list[i].tag = tag
    \/ \E i \in DOMAIN copies : i <= count /\ copies[i].tag = tag

ToList(r, k) ==
    \A j \in DOMAIN copyGhosts[r][Route[k]] :
        Known(ptls[r], ghosts[r], copyGhosts[r][Route[k]][j], Total(numRecv[r], k))

GhostData == [ptl : Located, plan : SUBSET Communicating]

Fits(count, lists, m) ==
    \E k \in 1 .. count :
        /\ m.dir = Route[k]
        /\ Len(m.data) = Len(lists[Route[k]])
        /\ m.kind = "ghosts" =>
               /\ m.data \in Seq(GhostData)
               /\ \A j \in DOMAIN m.data : m.data[j].ptl.tag = lists[Route[k]][j]
        /\ m.kind = "positions" => m.data \in Seq([Axes -> Int])

FitsList(from, m) == Fits(Announced(from), copyGhosts[from], m)

ListTypes ==
    /\ numRecv \in [Ranks -> [Directions -> Nat]]
    /\ copyGhosts \in [Ranks -> [Directions -> Seq(Tags)]]
    /\ ghosts \in [Ranks -> Seq(Located)]
    /\ plan \in [Ranks -> Seq(SUBSET Communicating)]

ListsOf(r) ==
    /\ Len(ghosts[r]) = Total(numRecv[r], Exchanged(r) + 1)
    /\ \A k \in 1 .. Exchanged(r) : FromList(r, k)
    /\ \A k \in 1 .. Announced(r) : ToList(r, k)
    /\ IF moves = 0 /\ phase[r] = Working
       THEN Len(plan[r]) = Len(ptls[r]) + Len(ghosts[r]) ELSE plan[r] = <<>>

AllFit ==
    \A from, to \in Ranks : \A i \in DOMAIN channel[<<from, to>>] :
        FitsList(from, channel[<<from, to>>][i])

CopyLists == ListTypes /\ (\A r \in Ranks : ListsOf(r)) /\ AllFit

LEMMA ProgressIs ==
  ASSUME RoundOrder, NEW r \in Ranks
  PROVE  /\ Len(Route) \in Nat /\ DOMAIN Route = 1 .. Len(Route)
         /\ Exchanged(r) \in 0 .. Len(Route) /\ Announced(r) \in 0 .. Len(Route)
         /\ Exchanged(r) <= Announced(r)
         /\ moves = 0 /\ phase[r] = Beginning => stage[r] = 0 /\ Exchanged(r) = 0 /\ Announced(r) = 0
         /\ moves = 0 /\ phase[r] = Working =>
               stage[r] \in DOMAIN Route /\ Exchanged(r) = stage[r] - 1 /\ Announced(r) = stage[r]
         /\ moves > 0 \/ phase[r] = "current" => Exchanged(r) = Len(Route) /\ Announced(r) = Len(Route)
<1>1. /\ Len(Route) \in Nat \ {0} /\ DOMAIN Route = 1 .. Len(Route) /\ stage[r] \in 0 .. Len(Route)
      /\ moves \in Int /\ phase[r] \in {Beginning, Working, "current"}
      /\ (stage[r] = 0 <=> phase[r] # Working)
  BY RouteShape, LayerAssumption DEF RoundOrder
<1>2. communicator \in {"CPU", "GPU"} => Beginning # "current" /\ Working # "current" /\ Beginning # Working
  BY KindIs
<1>3. communicator \in {"CPU", "GPU"}
  BY DEF RoundOrder
<1> QED
  BY <1>1, <1>2, <1>3 DEF Exchanged, Announced

LEMMA SrcIs ==
  ASSUME NEW r \in Ranks, NEW k \in DOMAIN Route
  PROVE  /\ Src(r, k) \in Ranks /\ NeighborRank(Src(r, k), Route[k]) = r
         /\ NeighborRank(r, Route[k]) \in Ranks
         /\ Route[k] \in Directions /\ Route[k] \in Sending /\ Route[k] \in Communicating
<1>1. Route[k] \in Directions /\ Route[k] \in Sending
  BY RouteNext DEF Sending
<1>2. Route[k] \in Communicating
  BY DEF Communicating, Range
<1> QED
  BY <1>1, <1>2, Directory, NeighborIs, NeighborBack DEF Src

LEMMA RouteDirections ==
  ASSUME NEW k \in DOMAIN Route
  PROVE  Route[k] \in Directions /\ Route[k] \in Sending /\ Route[k] \in Communicating
<1>1. Route[k] \in Directions /\ Route[k] \in Sending
  BY RouteNext DEF Sending
<1> QED
  BY <1>1 DEF Communicating, Range

LEMMA RouteDiffers ==
  ASSUME NEW k \in DOMAIN Route, NEW l \in DOMAIN Route, Route[k] = Route[l]
  PROVE  k = l
<1>1. k \in Int /\ l \in Int /\ Route[k] \in 0 .. 5 /\ Route[l] \in 0 .. 5
      /\ \A x, y \in DOMAIN Route : x < y => Route[x] < Route[y]
  BY RouteShape DEF Directions
<1>2. k < l \/ k = l \/ l < k
  BY <1>1
<1> QED
  BY <1>1, <1>2

\* What SendGhosts() sends: particles that it has, marked with the direction.
Marked(all, plans) == [i \in DOMAIN all |-> [ptl |-> all[i], plan |-> plans[i]]]
BoundFor(dir, marked) == { i \in DOMAIN marked : dir \in marked[i].plan }
SentIn(dir, marked) == Picked(marked, BoundFor(dir, marked))

SentKnown(sent, all, plans, dir) ==
    /\ sent \in Seq(GhostData) /\ Len(sent) \in Nat /\ DOMAIN sent = 1 .. Len(sent)
    /\ \A j \in DOMAIN sent : \E i \in DOMAIN all :
          /\ dir \in plans[i] /\ sent[j].ptl = all[i] /\ sent[j].plan = plans[i]
          /\ i = Nth(BoundFor(dir, Marked(all, plans)), j)
    /\ \A i \in DOMAIN all : dir \in plans[i] => \E j \in DOMAIN sent : sent[j].ptl = all[i]
    /\ \A j, k \in DOMAIN sent :
          Nth(BoundFor(dir, Marked(all, plans)), j) = Nth(BoundFor(dir, Marked(all, plans)), k) => j = k

LEMMA SentIsKnown ==
  ASSUME NEW all \in Seq(Located), NEW plans \in Seq(SUBSET Communicating), Len(plans) = Len(all),
         NEW dir
  PROVE  SentKnown(SentIn(dir, Marked(all, plans)), all, plans, dir)
<1> DEFINE marked == Marked(all, plans)
           S == BoundFor(dir, marked)
           sent == SentIn(dir, marked)
<1>1. /\ Len(all) \in Nat /\ DOMAIN all = 1 .. Len(all) /\ DOMAIN plans = 1 .. Len(all)
      /\ \A i \in DOMAIN all : all[i] \in Located /\ plans[i] \in SUBSET Communicating
  BY LenProperties, ElementOfSeq
<1>2. \A i \in DOMAIN all : marked[i] \in GhostData /\ marked[i].ptl = all[i] /\ marked[i].plan = plans[i]
  BY <1>1 DEF GhostData, Marked
<1>3. marked \in [1 .. Len(all) -> GhostData] /\ DOMAIN marked = DOMAIN all
  BY <1>1, <1>2 DEF Marked
<1>4. sent = Picked(marked, S) /\ S = { i \in DOMAIN marked : dir \in marked[i].plan }
  BY DEF SentIn, BoundFor
<1> HIDE DEF marked, S, sent
<1>5. marked \in Seq(GhostData) /\ S \in SUBSET (DOMAIN marked)
      /\ \A i \in DOMAIN all : i \in S <=> dir \in plans[i]
  BY <1>1, <1>2, <1>3, <1>4, SeqDef
<1>6. /\ sent \in Seq(GhostData)
      /\ \A k \in DOMAIN sent : Nth(S, k) \in S /\ sent[k] = marked[Nth(S, k)]
      /\ \A i \in S : \E k \in DOMAIN sent : Nth(S, k) = i /\ sent[k] = marked[i]
      /\ DOMAIN sent = 1 .. Cardinality(S)
  <2>1. /\ Picked(marked, S) \in Seq(GhostData)
        /\ \A k \in DOMAIN Picked(marked, S) :
              Nth(S, k) \in S /\ Picked(marked, S)[k] = marked[Nth(S, k)]
        /\ \A i \in S : \E k \in DOMAIN Picked(marked, S) :
              Nth(S, k) = i /\ Picked(marked, S)[k] = marked[i]
        /\ DOMAIN Picked(marked, S) = 1 .. Cardinality(S)
    BY <1>5, PickedProperties
  <2> QED
    BY <1>4, <2>1
<1>7. Len(sent) \in Nat /\ DOMAIN sent = 1 .. Len(sent)
  BY <1>6, LenProperties
<1>8. \A j \in DOMAIN sent : \E i \in DOMAIN all :
         /\ dir \in plans[i] /\ sent[j].ptl = all[i] /\ sent[j].plan = plans[i]
         /\ i = Nth(S, j)
  BY <1>2, <1>3, <1>5, <1>6
<1>9. \A i \in DOMAIN all : dir \in plans[i] => \E j \in DOMAIN sent : sent[j].ptl = all[i]
  BY <1>2, <1>5, <1>6
<1>10. ASSUME NEW j \in DOMAIN sent, NEW k \in DOMAIN sent, Nth(S, j) = Nth(S, k)
       PROVE  j = k
  <2>1. S \in SUBSET (1 .. Len(all)) /\ j \in 1 .. Cardinality(S) /\ k \in 1 .. Cardinality(S)
    BY <1>1, <1>3, <1>5, <1>6
  <2>2. Cardinality(UpTo(S, Nth(S, j))) = j /\ Cardinality(UpTo(S, Nth(S, k))) = k
    BY <1>1, <2>1, NthIs
  <2> QED
    BY <1>10, <2>2
<1> QED
  BY <1>6, <1>7, <1>8, <1>9, <1>10 DEF marked, S, sent, SentKnown

\* The steps of an exchange: what a rank has received is put behind its ghosts,
\* and it sends in the next direction.
ExchangeStep(r, new, plans) ==
    /\ communicator = "CPU" /\ moves = 0 /\ GoesOn(r) /\ (SendsNext(r) \/ EndsRound(r))
    /\ UNCHANGED <<ptls, moves, communicator>>
    /\ new \in Seq(Located) /\ ghosts' = [ghosts EXCEPT ![r] = ghosts[r] \o new]
    /\ IF stage[r] = 0 THEN new = <<>> /\ UNCHANGED numRecv
       ELSE /\ numRecv' = [numRecv EXCEPT ![r] = [@ EXCEPT ![Route[stage[r]]] = Len(new)]]
            /\ stage[r] <= Announced(Src(r, stage[r]))
            /\ Len(new) = Len(copyGhosts[Src(r, stage[r])][Route[stage[r]]])
            /\ \A j \in DOMAIN new : new[j].tag = copyGhosts[Src(r, stage[r])][Route[stage[r]]][j]
    /\ plans \in Seq(SUBSET Communicating) /\ Len(plans) = Len(ptls[r]) + Len(ghosts'[r])
    /\ SendGhosts(r, stage[r] + 1, ghosts'[r], plans, LeftBy(r))

TagList(sent) == [i \in DOMAIN sent |-> sent[i].ptl.tag]

\* The same in other words.
SentGhosts(r, k, copies, plans, chan) ==
    /\ phase' = [phase EXCEPT ![r] = "exchange"] /\ stage' = [stage EXCEPT ![r] = k]
    /\ plan' = [plan EXCEPT ![r] = plans]
    /\ copyGhosts' = [copyGhosts EXCEPT ![r] = [copyGhosts[r] EXCEPT ![Route[k]] =
                           TagList(SentIn(Route[k], Marked(ptls[r] \o copies, plans)))]]
    /\ channel' = Put(chan, r, NeighborRank(r, Route[k]),
                      [kind |-> "ghosts", dir |-> Route[k],
                       data |-> SentIn(Route[k], Marked(ptls[r] \o copies, plans))])

LEMMA SendGhostsIs ==
  ASSUME NEW r, NEW k \in DOMAIN Route, NEW copies, NEW plans, NEW chan,
         SendGhosts(r, k, copies, plans, chan)
  PROVE  SentGhosts(r, k, copies, plans, chan)
<1>1. ~ (k > Len(Route))
  BY RouteShape
<1> QED
  BY <1>1, Zenon DEF SendGhosts, SentGhosts, SentIn, Marked, BoundFor, TagList

LEMMA SendGhostsEnds ==
  ASSUME NEW r, NEW k, k = Len(Route) + 1, NEW copies, NEW plans, NEW chan,
         SendGhosts(r, k, copies, plans, chan)
  PROVE  /\ phase' = [phase EXCEPT ![r] = "current"] /\ stage' = [stage EXCEPT ![r] = 0]
         /\ plan' = [plan EXCEPT ![r] = <<>>] /\ copyGhosts' = copyGhosts /\ channel' = chan
<1>1. k > Len(Route)
  BY RouteShape
<1> QED
  BY <1>1, Zenon DEF SendGhosts

\* How far the ranks are after the step.
LEMMA ExchangeProgress ==
  ASSUME RoundOrder, NEW r \in Ranks, NEW new, NEW plans, ExchangeStep(r, new, plans)
  PROVE  /\ stage[r] \in 0 .. Len(Route) /\ Announced(r) = stage[r] /\ phase[r] # "current"
         /\ Exchanged(r) = IF stage[r] = 0 THEN 0 ELSE stage[r] - 1
         /\ Exchanged(r)' = stage[r]
         /\ Announced(r)' = IF stage[r] = Len(Route) THEN stage[r] ELSE stage[r] + 1
         /\ \A s \in Ranks \ {r} : Exchanged(s)' = Exchanged(s) /\ Announced(s)' = Announced(s)
         /\ \A s \in Ranks \ {r} : phase'[s] = phase[s] /\ stage'[s] = stage[s]
         /\ Working = "exchange" /\ Working' = Working
         /\ IF stage[r] = Len(Route) THEN phase'[r] = "current" ELSE phase'[r] = "exchange"
<1>1. /\ communicator = "CPU" /\ moves = 0 /\ moves' = 0 /\ communicator' = "CPU" /\ GoesOn(r)
      /\ SendGhosts(r, stage[r] + 1, ghosts'[r], plans, LeftBy(r))
  BY DEF ExchangeStep
<1>2. /\ Working = "exchange" /\ Working' = "exchange" /\ phase[r] # "current"
      /\ stage \in [Ranks -> 0 .. Len(Route)] /\ DOMAIN phase = Ranks
  BY <1>1, KindIs DEF Working, RoundOrder, GoesOn
<1>3. /\ Announced(r) = stage[r] /\ Exchanged(r) = IF stage[r] = 0 THEN 0 ELSE stage[r] - 1
      /\ Len(Route) \in Nat /\ DOMAIN Route = 1 .. Len(Route) /\ stage[r] \in 0 .. Len(Route)
  BY <1>1, <1>2, RouteShape DEF Announced, Exchanged
<1>4. CASE stage[r] = Len(Route)
  <2>1. phase' = [phase EXCEPT ![r] = "current"] /\ stage' = [stage EXCEPT ![r] = 0]
    BY <1>1, <1>4, SendGhostsEnds
  <2>2. /\ phase'[r] = "current" /\ stage'[r] = 0
        /\ \A s \in Ranks \ {r} : phase'[s] = phase[s] /\ stage'[s] = stage[s]
    BY <1>2, <2>1
  <2>3. Exchanged(r)' = Len(Route) /\ Announced(r)' = Len(Route)
    BY <2>2 DEF Exchanged, Announced
  <2>4. \A s \in Ranks \ {r} : Exchanged(s)' = Exchanged(s) /\ Announced(s)' = Announced(s)
    BY <1>1, <2>2 DEF Exchanged, Announced
  <2> QED
    BY <1>2, <1>3, <1>4, <2>2, <2>3, <2>4
<1>5. CASE stage[r] # Len(Route)
  <2>1. stage[r] + 1 \in DOMAIN Route /\ stage[r] + 1 # 0 /\ (stage[r] + 1) - 1 = stage[r]
    BY <1>3, <1>5
  <2>2. phase' = [phase EXCEPT ![r] = "exchange"] /\ stage' = [stage EXCEPT ![r] = stage[r] + 1]
    <3>1. SentGhosts(r, stage[r] + 1, ghosts'[r], plans, LeftBy(r))
      BY <1>1, <2>1, SendGhostsIs
    <3> QED
      BY <3>1, Zenon DEF SentGhosts
  <2>3. /\ phase'[r] = "exchange" /\ stage'[r] = stage[r] + 1
        /\ \A s \in Ranks \ {r} : phase'[s] = phase[s] /\ stage'[s] = stage[s]
    BY <1>2, <2>2
  <2>4. Exchanged(r)' = stage[r] /\ Announced(r)' = stage[r] + 1
    BY <1>1, <2>1, <2>3 DEF Exchanged, Announced
  <2>5. \A s \in Ranks \ {r} : Exchanged(s)' = Exchanged(s) /\ Announced(s)' = Announced(s)
    BY <1>1, <2>3 DEF Exchanged, Announced
  <2> QED
    BY <1>2, <1>3, <1>5, <2>3, <2>4, <2>5
<1> QED
  BY <1>4, <1>5

\* What has been received and announced before the step stays as it was.
LEMMA ExchangeFrame ==
  ASSUME RoundOrder, Owned, ListTypes, \A s \in Ranks : ListsOf(s), NEW r \in Ranks, NEW new, NEW plans,
         ExchangeStep(r, new, plans)
  PROVE  /\ ListTypes'
         /\ \A s \in Ranks : \A l \in 1 .. Announced(s) : copyGhosts'[s][Route[l]] = copyGhosts[s][Route[l]]
         /\ \A s \in Ranks : \A l \in 1 .. Exchanged(s) : numRecv'[s][Route[l]] = numRecv[s][Route[l]]
         /\ \A s \in Ranks : \A l \in 1 .. Announced(s) : Total(numRecv'[s], l) = Total(numRecv[s], l)
         /\ \A s \in Ranks : \A i \in DOMAIN ghosts[s] :
               i \in DOMAIN ghosts'[s] /\ ghosts'[s][i] = ghosts[s][i]
         /\ Len(ghosts'[r]) = Len(ghosts[r]) + Len(new) /\ Len(ghosts[r]) \in Nat /\ Len(new) \in Nat
         /\ \A j \in DOMAIN new : Len(ghosts[r]) + j \in DOMAIN ghosts'[r]
                                  /\ ghosts'[r][Len(ghosts[r]) + j] = new[j]
         /\ stage[r] # 0 => numRecv'[r][Route[stage[r]]] = Len(new)
         /\ \A s \in Ranks \ {r} : numRecv'[s] = numRecv[s] /\ ghosts'[s] = ghosts[s]
         /\ stage[r] = 0 => numRecv' = numRecv /\ new = <<>>
<1>1. /\ new \in Seq(Located) /\ ghosts' = [ghosts EXCEPT ![r] = ghosts[r] \o new]
      /\ IF stage[r] = 0 THEN new = <<>> /\ UNCHANGED numRecv
         ELSE numRecv' = [numRecv EXCEPT ![r] = [@ EXCEPT ![Route[stage[r]]] = Len(new)]]
      /\ plans \in Seq(SUBSET Communicating) /\ Len(plans) = Len(ptls[r]) + Len(ghosts'[r])
      /\ SendGhosts(r, stage[r] + 1, ghosts'[r], plans, LeftBy(r))
      /\ UNCHANGED ptls
  BY DEF ExchangeStep
<1>2. /\ numRecv \in [Ranks -> [Directions -> Nat]]
      /\ copyGhosts \in [Ranks -> [Directions -> Seq(Tags)]]
      /\ ghosts \in [Ranks -> Seq(Located)]
      /\ plan \in [Ranks -> Seq(SUBSET Communicating)]
  BY DEF ListTypes
<1>3. /\ stage[r] \in 0 .. Len(Route) /\ Announced(r) = stage[r]
      /\ Exchanged(r) = IF stage[r] = 0 THEN 0 ELSE stage[r] - 1
      /\ Len(Route) \in Nat /\ DOMAIN Route = 1 .. Len(Route)
      /\ \A s \in Ranks : Announced(s) \in 0 .. Len(Route) /\ Exchanged(s) \in 0 .. Len(Route)
  BY ExchangeProgress, ProgressIs
<1> DEFINE both == ghosts[r] \o new
<1>4. ghosts[r] \in Seq(Located) /\ new \in Seq(Located) /\ ptls[r] \in Seq(Located)
  BY <1>1, <1>2 DEF Owned
<1>5. /\ both \in Seq(Located) /\ Len(ghosts[r]) \in Nat /\ Len(new) \in Nat
      /\ Len(both) = Len(ghosts[r]) + Len(new)
      /\ \A i \in DOMAIN ghosts[r] : i \in DOMAIN both /\ both[i] = ghosts[r][i]
      /\ \A i \in DOMAIN new : Len(ghosts[r]) + i \in DOMAIN both /\ both[Len(ghosts[r]) + i] = new[i]
      /\ DOMAIN new = 1 .. Len(new)
  BY <1>4, Joined
<1>6. ghosts' = [ghosts EXCEPT ![r] = both]
  BY <1>1
<1> HIDE DEF both
<1>7. ghosts'[r] = both /\ ghosts' \in [Ranks -> Seq(Located)] /\ \A s \in Ranks \ {r} : ghosts'[s] = ghosts[s]
  BY <1>2, <1>5, <1>6
<1>8. /\ numRecv' \in [Ranks -> [Directions -> Nat]]
      /\ \A s \in Ranks \ {r} : numRecv'[s] = numRecv[s]
      /\ stage[r] = 0 => numRecv' = numRecv
      /\ stage[r] # 0 => /\ numRecv'[r][Route[stage[r]]] = Len(new)
                         /\ \A l \in DOMAIN Route : l # stage[r] => numRecv'[r][Route[l]] = numRecv[r][Route[l]]
  <2>1. CASE stage[r] = 0
    BY <1>1, <1>2, <2>1
  <2>2. CASE stage[r] # 0
    <3> DEFINE k == stage[r]
               mine == [numRecv[r] EXCEPT ![Route[k]] = Len(new)]
    <3>1. k \in DOMAIN Route /\ \A l \in DOMAIN Route : Route[l] \in Directions /\ (l # k => Route[l] # Route[k])
      BY <1>3, <2>2, RouteDiffers, RouteDirections
    <3>2. /\ mine \in [Directions -> Nat] /\ mine[Route[k]] = Len(new)
          /\ \A l \in DOMAIN Route : l # k => mine[Route[l]] = numRecv[r][Route[l]]
      BY <1>2, <1>5, <3>1
    <3>3. numRecv' = [numRecv EXCEPT ![r] = mine]
      BY <1>1, <2>2
    <3> HIDE DEF mine
    <3> QED
      BY <1>2, <2>2, <3>2, <3>3
  <2> QED
    BY <2>1, <2>2
<1>9. ASSUME NEW s \in Ranks, NEW l \in 1 .. Announced(s)
      PROVE  Total(numRecv'[s], l) = Total(numRecv[s], l)
  <2>1. CASE s # r \/ stage[r] = 0
    BY <1>8, <2>1
  <2>2. CASE s = r /\ stage[r] # 0
    <3>1. l \in 1 .. Len(Route) + 1 /\ numRecv[r] \in [Directions -> Nat] /\ numRecv'[r] \in [Directions -> Nat]
      BY <1>2, <1>3, <1>8, <2>2
    <3>2. \A m \in DOMAIN Route : m < l => numRecv'[r][Route[m]] = numRecv[r][Route[m]]
      BY <1>3, <1>8, <2>2
    <3> QED
      BY <2>2, <3>1, <3>2, TotalSame
  <2> QED
    BY <2>1, <2>2
<1>10. ASSUME NEW s \in Ranks, NEW l \in 1 .. Exchanged(s)
       PROVE  numRecv'[s][Route[l]] = numRecv[s][Route[l]]
  <2>1. l \in DOMAIN Route /\ (s = r => l # stage[r])
    BY <1>3
  <2> QED
    BY <1>8, <2>1
<1>11. /\ copyGhosts' \in [Ranks -> [Directions -> Seq(Tags)]]
       /\ plan' \in [Ranks -> Seq(SUBSET Communicating)]
       /\ \A s \in Ranks : \A l \in 1 .. Announced(s) : copyGhosts'[s][Route[l]] = copyGhosts[s][Route[l]]
  <2>1. CASE stage[r] = Len(Route)
    <3>1. plan' = [plan EXCEPT ![r] = <<>>] /\ copyGhosts' = copyGhosts
      BY <1>1, <2>1, SendGhostsEnds
    <3>2. <<>> \in Seq(SUBSET Communicating)
      BY EmptySeq
    <3> QED
      BY <1>2, <3>1, <3>2
  <2>2. CASE stage[r] # Len(Route)
    <3> DEFINE k == stage[r] + 1
               all == ptls[r] \o ghosts'[r]
               sent == SentIn(Route[k], Marked(all, plans))
               tags == TagList(sent)
               lists == [copyGhosts[r] EXCEPT ![Route[k]] = tags]
    <3>0. k \in DOMAIN Route /\ SendGhosts(r, k, ghosts'[r], plans, LeftBy(r)) /\ k > stage[r]
      BY <1>1, <1>3, <2>2
    <3> HIDE DEF k
    <3>1. Route[k] \in Directions
      BY <3>0, RouteDirections
    <3>2. plan' = [plan EXCEPT ![r] = plans]
          /\ copyGhosts' = [copyGhosts EXCEPT ![r] = lists]
      <4>1. SentGhosts(r, k, ghosts'[r], plans, LeftBy(r))
        BY <3>0, SendGhostsIs
      <4> QED
        BY <4>1, Zenon DEF SentGhosts
    <3>3. all \in Seq(Located) /\ Len(plans) = Len(all) /\ plans \in Seq(SUBSET Communicating)
      BY <1>1, <1>4, <1>5, <1>7, Joined
    <3> HIDE DEF all
    <3>4. sent \in Seq(GhostData) /\ Len(sent) \in Nat /\ DOMAIN sent = 1 .. Len(sent)
      <4>1. SentKnown(SentIn(Route[k], Marked(all, plans)), all, plans, Route[k])
        BY <3>3, SentIsKnown
      <4> QED
        BY <4>1 DEF SentKnown
    <3> HIDE DEF sent
    <3>5. ASSUME NEW i \in DOMAIN sent
          PROVE  sent[i].ptl.tag \in Tags
      <4>1. sent[i] \in GhostData
        BY <3>4, ElementOfSeq
      <4> QED
        BY <4>1 DEF GhostData, Located
    <3>6. tags \in [1 .. Len(sent) -> Tags]
      BY <3>4, <3>5 DEF TagList
    <3>7. tags \in Seq(Tags)
      BY <3>4, <3>6, SeqDef
    <3> HIDE DEF tags
    <3>8. lists \in [Directions -> Seq(Tags)] /\ \A dir \in Directions \ {Route[k]} : lists[dir] = copyGhosts[r][dir]
      BY <1>2, <3>7
    <3>9. copyGhosts' = [copyGhosts EXCEPT ![r] = lists]
      BY <3>2
    <3> HIDE DEF lists
    <3>10. \A l \in 1 .. stage[r] : Route[l] \in Directions \ {Route[k]}
      <4>1. ASSUME NEW l \in 1 .. stage[r]
            PROVE  Route[l] \in Directions \ {Route[k]}
        <5>1. l \in DOMAIN Route /\ l # k
          BY <1>3, <3>0
        <5> QED
          BY <3>0, <5>1, RouteDiffers, RouteDirections
      <4> QED
        BY <4>1
    <3>11. copyGhosts' \in [Ranks -> [Directions -> Seq(Tags)]] /\ plan' \in [Ranks -> Seq(SUBSET Communicating)]
      BY <1>1, <1>2, <3>2, <3>8, <3>9
    <3>12. ASSUME NEW s \in Ranks, NEW l \in 1 .. Announced(s)
           PROVE  copyGhosts'[s][Route[l]] = copyGhosts[s][Route[l]]
      <4>1. CASE s = r
        BY <1>2, <1>3, <3>8, <3>9, <3>10, <4>1
      <4>2. CASE s # r
        BY <1>2, <3>9, <4>2
      <4> QED
        BY <4>1, <4>2
    <3> QED
      BY <3>11, <3>12
  <2> QED
    BY <2>1, <2>2
<1>12. \A s \in Ranks : \A i \in DOMAIN ghosts[s] : i \in DOMAIN ghosts'[s] /\ ghosts'[s][i] = ghosts[s][i]
  BY <1>5, <1>7
<1>13. ListTypes'
  BY <1>7, <1>8, <1>11 DEF ListTypes
<1>14. stage[r] = 0 => new = <<>>
  BY <1>1
<1> QED
  BY <1>5, <1>7, <1>8, <1>9, <1>10, <1>11, <1>12, <1>13, <1>14

LEMMA FitsLonger ==
  ASSUME NEW count \in Nat, NEW more \in Nat, count <= more, NEW lists, NEW lists2,
         \A l \in 1 .. count : lists2[Route[l]] = lists[Route[l]],
         NEW m, Fits(count, lists, m)
  PROVE  Fits(more, lists2, m)
<1>1. PICK k \in 1 .. count :
        /\ m.dir = Route[k]
        /\ Len(m.data) = Len(lists[Route[k]])
        /\ m.kind = "ghosts" =>
               /\ m.data \in Seq(GhostData)
               /\ \A j \in DOMAIN m.data : m.data[j].ptl.tag = lists[Route[k]][j]
        /\ m.kind = "positions" => m.data \in Seq([Axes -> Int])
  BY DEF Fits
<1>2. k \in 1 .. more /\ lists2[Route[k]] = lists[Route[k]]
  OBVIOUS
<1> QED
  BY <1>1, <1>2, Zenon DEF Fits

LEMMA ExchangeLists ==
  ASSUME RoundOrder, Owned, ListTypes, \A s \in Ranks : ListsOf(s), NEW r \in Ranks, NEW new, NEW plans,
         ExchangeStep(r, new, plans)
  PROVE  /\ \A s \in Ranks : Len(ghosts'[s]) = Total(numRecv'[s], Exchanged(s)' + 1)
         /\ \A s \in Ranks : \A l \in 1 .. Exchanged(s)' : FromList(s, l)'
<1>0. /\ stage[r] \in 0 .. Len(Route) /\ Announced(r) = stage[r]
      /\ Exchanged(r) = IF stage[r] = 0 THEN 0 ELSE stage[r] - 1
      /\ Exchanged(r)' = stage[r]
      /\ Announced(r)' = IF stage[r] = Len(Route) THEN stage[r] ELSE stage[r] + 1
      /\ \A s \in Ranks \ {r} : Exchanged(s)' = Exchanged(s) /\ Announced(s)' = Announced(s)
      /\ Len(Route) \in Nat /\ DOMAIN Route = 1 .. Len(Route)
  BY ExchangeProgress, ProgressIs
<1>1. \A s \in Ranks : /\ Announced(s) \in 0 .. Len(Route) /\ Exchanged(s) \in 0 .. Len(Route)
                       /\ Exchanged(s) <= Announced(s) /\ Announced(s) <= Announced(s)'
                       /\ Announced(s)' \in 0 .. Len(Route)
  BY <1>0, ProgressIs
<1>2. /\ ListTypes'
      /\ \A s \in Ranks : \A l \in 1 .. Announced(s) : copyGhosts'[s][Route[l]] = copyGhosts[s][Route[l]]
      /\ \A s \in Ranks : \A l \in 1 .. Exchanged(s) : numRecv'[s][Route[l]] = numRecv[s][Route[l]]
      /\ \A s \in Ranks : \A l \in 1 .. Announced(s) : Total(numRecv'[s], l) = Total(numRecv[s], l)
      /\ \A s \in Ranks : \A i \in DOMAIN ghosts[s] :
            i \in DOMAIN ghosts'[s] /\ ghosts'[s][i] = ghosts[s][i]
      /\ Len(ghosts'[r]) = Len(ghosts[r]) + Len(new) /\ Len(ghosts[r]) \in Nat /\ Len(new) \in Nat
      /\ \A j \in DOMAIN new : Len(ghosts[r]) + j \in DOMAIN ghosts'[r]
                               /\ ghosts'[r][Len(ghosts[r]) + j] = new[j]
      /\ stage[r] # 0 => numRecv'[r][Route[stage[r]]] = Len(new)
      /\ \A s \in Ranks \ {r} : numRecv'[s] = numRecv[s] /\ ghosts'[s] = ghosts[s]
      /\ stage[r] = 0 => numRecv' = numRecv /\ new = <<>>
  BY ExchangeFrame
<1>3. /\ stage[r] # 0 => /\ stage[r] <= Announced(Src(r, stage[r]))
                         /\ Len(new) = Len(copyGhosts[Src(r, stage[r])][Route[stage[r]]])
                         /\ \A j \in DOMAIN new : new[j].tag = copyGhosts[Src(r, stage[r])][Route[stage[r]]][j]
      /\ new \in Seq(Located)
  BY DEF ExchangeStep
<1>4. \A s \in Ranks : Len(ghosts[s]) = Total(numRecv[s], Exchanged(s) + 1)
      /\ \A l \in 1 .. Exchanged(s) : FromList(s, l)
  BY DEF ListsOf
<1>5. \A s \in Ranks : numRecv[s] \in [Directions -> Nat] /\ numRecv'[s] \in [Directions -> Nat]
  BY <1>2 DEF ListTypes
<1>6. stage[r] # 0 => Len(ghosts[r]) = Total(numRecv'[r], stage[r])
  <2>1. stage[r] # 0 => Exchanged(r) + 1 = stage[r] /\ stage[r] \in 1 .. Announced(r)
    BY <1>0
  <2> QED
    BY <1>2, <1>4, <2>1
<1>7. ASSUME NEW s \in Ranks
      PROVE  Len(ghosts'[s]) = Total(numRecv'[s], Exchanged(s)' + 1)
  <2>1. CASE s # r
    BY <1>0, <1>2, <1>4, <2>1
  <2>2. CASE s = r /\ stage[r] = 0
    <3>1. Len(new) = 0 /\ numRecv'[r] = numRecv[r] /\ Exchanged(r)' = Exchanged(r)
      BY <1>0, <1>2, <2>2
    <3> QED
      BY <1>2, <1>4, <2>2, <3>1
  <2>3. CASE s = r /\ stage[r] # 0
    <3>1. Total(numRecv'[r], stage[r] + 1) = Total(numRecv'[r], stage[r]) + numRecv'[r][Route[stage[r]]]
      BY <1>0, <1>5, <2>3, TotalNext
    <3> QED
      BY <1>0, <1>2, <1>6, <2>3, <3>1
  <2> QED
    BY <2>1, <2>2, <2>3
<1>8. ASSUME NEW s \in Ranks, NEW l \in 1 .. Exchanged(s)'
      PROVE  FromList(s, l)'
  <2>0. l \in DOMAIN Route /\ Src(s, l) \in Ranks /\ Src(s, l)' = Src(s, l)
    <3>1. l \in DOMAIN Route
      BY <1>0, <1>1
    <3> QED
      BY <3>1, SrcIs DEF Src
  <2>1. CASE l \in 1 .. Exchanged(s)
    <3>1. FromList(s, l)
      BY <1>4, <2>1
    <3>2. l <= Announced(Src(s, l))
      BY <3>1 DEF FromList
    <3>3. /\ l <= Announced(Src(s, l))'
          /\ copyGhosts'[Src(s, l)][Route[l]] = copyGhosts[Src(s, l)][Route[l]]
      BY <1>0, <1>1, <1>2, <2>0, <2>1, <3>2
    <3>4. l \in 1 .. Announced(s)
      BY <1>0, <1>1, <2>1
    <3>5. numRecv'[s][Route[l]] = numRecv[s][Route[l]] /\ Total(numRecv'[s], l) = Total(numRecv[s], l)
      BY <1>2, <2>1, <3>4
    <3> QED
      BY <1>2, <2>0, <3>1, <3>3, <3>5 DEF FromList
  <2>2. CASE l \notin 1 .. Exchanged(s)
    <3>1. s = r /\ l = stage[r] /\ stage[r] # 0
      BY <1>0, <1>1, <2>2
    <3>2. /\ l <= Announced(Src(r, l))'
          /\ copyGhosts'[Src(r, l)][Route[l]] = copyGhosts[Src(r, l)][Route[l]]
      BY <1>0, <1>1, <1>2, <1>3, <2>0, <3>1
    <3>3. numRecv'[r][Route[l]] = Len(copyGhosts'[Src(r, l)][Route[l]])
      BY <1>2, <1>3, <3>1, <3>2
    <3>4. copyGhosts[Src(r, l)][Route[l]] \in Seq(Tags)
      <4>1. Src(r, l) \in Ranks /\ Route[l] \in Directions
        BY <2>0, <3>1, RouteDirections
      <4> QED
        BY <4>1 DEF ListTypes
    <3>5. DOMAIN new = DOMAIN copyGhosts[Src(r, l)][Route[l]]
      <4>1. DOMAIN new = 1 .. Len(new)
            /\ DOMAIN copyGhosts[Src(r, l)][Route[l]] = 1 .. Len(copyGhosts[Src(r, l)][Route[l]])
        BY <1>3, <3>4, LenProperties
      <4> QED
        BY <1>3, <3>1, <4>1
    <3>6. ASSUME NEW j \in DOMAIN copyGhosts'[Src(r, l)][Route[l]]
          PROVE  /\ Total(numRecv'[r], l) + j \in DOMAIN ghosts'[r]
                 /\ ghosts'[r][Total(numRecv'[r], l) + j].tag = copyGhosts'[Src(r, l)][Route[l]][j]
      BY <1>2, <1>3, <1>6, <3>1, <3>2, <3>5
    <3> QED
      BY <2>0, <3>1, <3>2, <3>3, <3>6 DEF FromList
  <2> QED
    BY <2>1, <2>2
<1> QED
  BY <1>7, <1>8

LEMMA KnownLonger ==
  ASSUME NEW list, NEW copies, NEW copies2, NEW tag, NEW count, Known(list, copies, tag, count),
         \A i \in DOMAIN copies : i \in DOMAIN copies2 /\ copies2[i] = copies[i]
  PROVE  Known(list, copies2, tag, count)
BY DEF Known

LEMMA PutMessages ==
  ASSUME NEW kinds \in KindSets, NEW chan, NEW clock \in [Ranks -> Clocks],
         AllInOrder(kinds, chan, clock), NEW r \in Ranks, NEW rest,
         TakesOne(kinds, chan, clock, r, rest), NEW next \in Ranks, NEW message,
         NEW from \in Ranks, NEW to \in Ranks, NEW i \in DOMAIN Put(rest, r, next, message)[<<from, to>>]
  PROVE  \/ \E j \in DOMAIN chan[<<from, to>>] : Put(rest, r, next, message)[<<from, to>>][i] = chan[<<from, to>>][j]
         \/ from = r /\ to = next /\ Put(rest, r, next, message)[<<from, to>>][i] = message
<1>1. Put(rest, r, next, message) = WithSent(rest, r, next, message)
  BY Zenon DEF Put, WithSent
<1> QED
  BY <1>1, SentMessages

LEMMA ExchangeToLists ==
  ASSUME RoundOrder, Owned, ListTypes, \A s \in Ranks : ListsOf(s), NEW r \in Ranks, NEW new, NEW plans,
         ExchangeStep(r, new, plans)
  PROVE  /\ \A s \in Ranks : \A l \in 1 .. Announced(s)' : ToList(s, l)'
         /\ \A s \in Ranks :
               IF moves' = 0 /\ phase'[s] = Working'
               THEN Len(plan'[s]) = Len(ptls'[s]) + Len(ghosts'[s]) ELSE plan'[s] = <<>>
         /\ AllFit => AllFit'
<1>0. /\ stage[r] \in 0 .. Len(Route) /\ Announced(r) = stage[r]
      /\ Exchanged(r)' = stage[r]
      /\ Announced(r)' = IF stage[r] = Len(Route) THEN stage[r] ELSE stage[r] + 1
      /\ \A s \in Ranks \ {r} : Exchanged(s)' = Exchanged(s) /\ Announced(s)' = Announced(s)
      /\ \A s \in Ranks \ {r} : phase'[s] = phase[s] /\ stage'[s] = stage[s]
      /\ Working = "exchange" /\ Working' = Working
      /\ IF stage[r] = Len(Route) THEN phase'[r] = "current" ELSE phase'[r] = "exchange"
      /\ Len(Route) \in Nat /\ DOMAIN Route = 1 .. Len(Route)
  BY ExchangeProgress, ProgressIs
<1>1. \A s \in Ranks : /\ Announced(s) \in 0 .. Len(Route) /\ Announced(s) <= Announced(s)'
                       /\ Announced(s)' \in 0 .. Len(Route)
  BY <1>0, ProgressIs
<1>2. /\ ListTypes'
      /\ \A s \in Ranks : \A l \in 1 .. Announced(s) : copyGhosts'[s][Route[l]] = copyGhosts[s][Route[l]]
      /\ \A s \in Ranks : \A l \in 1 .. Announced(s) : Total(numRecv'[s], l) = Total(numRecv[s], l)
      /\ \A s \in Ranks : \A i \in DOMAIN ghosts[s] :
            i \in DOMAIN ghosts'[s] /\ ghosts'[s][i] = ghosts[s][i]
      /\ \A s \in Ranks \ {r} : numRecv'[s] = numRecv[s] /\ ghosts'[s] = ghosts[s]
  BY ExchangeFrame
<1>3. /\ communicator = "CPU" /\ moves = 0 /\ moves' = 0 /\ UNCHANGED ptls /\ GoesOn(r)
      /\ plans \in Seq(SUBSET Communicating) /\ Len(plans) = Len(ptls[r]) + Len(ghosts'[r])
      /\ SendGhosts(r, stage[r] + 1, ghosts'[r], plans, LeftBy(r))
  BY DEF ExchangeStep
<1>4. \A s \in Ranks : \A l \in 1 .. Announced(s) : ToList(s, l)
  BY DEF ListsOf
<1>5. \A s \in Ranks : IF phase[s] = Working
                       THEN Len(plan[s]) = Len(ptls[s]) + Len(ghosts[s]) ELSE plan[s] = <<>>
  BY <1>3 DEF ListsOf
<1>6. ASSUME NEW s \in Ranks, NEW l \in 1 .. Announced(s)
      PROVE  ToList(s, l)'
  <2>1. ToList(s, l)
    BY <1>4
  <2>2. \A j \in DOMAIN copyGhosts[s][Route[l]] :
           Known(ptls[s], ghosts[s], copyGhosts[s][Route[l]][j], Total(numRecv[s], l))
    BY <2>1 DEF ToList
  <2>4. copyGhosts'[s][Route[l]] = copyGhosts[s][Route[l]] /\ Total(numRecv'[s], l) = Total(numRecv[s], l)
    BY <1>2
  <2>5. ASSUME NEW j \in DOMAIN copyGhosts[s][Route[l]]
        PROVE  Known(ptls'[s], ghosts'[s], copyGhosts'[s][Route[l]][j], Total(numRecv'[s], l))
    <3> DEFINE tag == copyGhosts[s][Route[l]][j]
               count == Total(numRecv[s], l)
               copies == ghosts[s]
               copies2 == ghosts'[s]
    <3>1. Known(ptls[s], copies, tag, count)
      BY <2>2
    <3>2. \A i \in DOMAIN copies : i \in DOMAIN copies2 /\ copies2[i] = copies[i]
      BY <1>2
    <3>3. tag = copyGhosts'[s][Route[l]][j] /\ count = Total(numRecv'[s], l) /\ ptls'[s] = ptls[s]
      BY <1>3, <2>4
    <3> HIDE DEF tag, count, copies, copies2
    <3>4. Known(ptls[s], copies2, tag, count)
      BY <3>1, <3>2, KnownLonger
    <3> QED
      BY <3>3, <3>4 DEF copies2
  <2> QED
    BY <2>4, <2>5 DEF ToList
<1>7. /\ \A s \in Ranks : \A l \in 1 .. Announced(s)' : ToList(s, l)'
      /\ \A s \in Ranks :
            IF moves' = 0 /\ phase'[s] = Working'
            THEN Len(plan'[s]) = Len(ptls'[s]) + Len(ghosts'[s]) ELSE plan'[s] = <<>>
      /\ AllFit => AllFit'
  <2>1. CASE stage[r] = Len(Route)
    <3>1. plan' = [plan EXCEPT ![r] = <<>>] /\ copyGhosts' = copyGhosts /\ channel' = LeftBy(r)
      BY <1>3, <2>1, SendGhostsEnds
    <3>2. \A s \in Ranks : Announced(s)' = Announced(s)
      BY <1>0, <2>1
    <3>3. \A s \in Ranks :
            IF moves' = 0 /\ phase'[s] = Working'
            THEN Len(plan'[s]) = Len(ptls'[s]) + Len(ghosts'[s]) ELSE plan'[s] = <<>>
      BY <1>0, <1>2, <1>3, <1>5, <2>1, <3>1 DEF ListTypes
    <3>4. ASSUME AllFit, NEW from \in Ranks, NEW to \in Ranks, NEW i \in DOMAIN channel'[<<from, to>>]
          PROVE  Fits(Announced(from)', copyGhosts'[from], channel'[<<from, to>>][i])
      <4>1. TakesOne({Kind}, channel, RoundClock, r, LeftBy(r))
        BY <1>3, StepTakes
      <4>2. RoundClock \in [Ranks -> Clocks] /\ {Kind} \in KindSets /\ AllInOrder({Kind}, channel, RoundClock)
        BY ClockIs, KindIs DEF RoundOrder
      <4>3. AmongThese(channel'[<<from, to>>], channel[<<from, to>>])
        BY <3>1, <4>1, <4>2, RestMessages
      <4>4. PICK j \in DOMAIN channel[<<from, to>>] : channel'[<<from, to>>][i] = channel[<<from, to>>][j]
        BY <4>3 DEF AmongThese
      <4>5. Fits(Announced(from), copyGhosts[from], channel[<<from, to>>][j])
        BY <3>4 DEF AllFit, FitsList
      <4> QED
        BY <3>1, <3>2, <4>4, <4>5
    <3> QED
      BY <1>6, <3>2, <3>3, <3>4 DEF AllFit, FitsList
  <2>2. CASE stage[r] # Len(Route)
    <3>00. PICK k \in DOMAIN Route : k = stage[r] + 1
      BY <1>0, <2>2
    <3> DEFINE all == ptls[r] \o ghosts'[r]
               sent == SentIn(Route[k], Marked(all, plans))
               tags == TagList(sent)
               message == [kind |-> "ghosts", dir |-> Route[k], data |-> sent]
               next == NeighborRank(r, Route[k])
    <3>0. k \in DOMAIN Route /\ SendGhosts(r, k, ghosts'[r], plans, LeftBy(r)) /\ k = stage[r] + 1
      BY <1>3, <3>00
    <3>1. Route[k] \in Directions /\ next \in Ranks
      BY <3>0, RouteDirections, SrcIs
    <3>2. SentGhosts(r, k, ghosts'[r], plans, LeftBy(r))
      BY <3>0, SendGhostsIs
    <3>3. /\ plan' = [plan EXCEPT ![r] = plans]
          /\ copyGhosts' = [copyGhosts EXCEPT ![r] = [copyGhosts[r] EXCEPT ![Route[k]] = tags]]
          /\ channel' = Put(LeftBy(r), r, next, message)
      BY <3>2, Zenon DEF SentGhosts
    <3>4. ptls[r] \in Seq(Located) /\ ghosts'[r] \in Seq(Located)
      BY <1>2 DEF ListTypes, Owned
    <3>5. /\ all \in Seq(Located) /\ Len(plans) = Len(all)
          /\ \A i \in DOMAIN all :
                \/ i \in DOMAIN ptls[r] /\ all[i] = ptls[r][i]
                \/ i - Len(ptls[r]) \in DOMAIN ghosts'[r] /\ all[i] = ghosts'[r][i - Len(ptls[r])]
          /\ DOMAIN ghosts'[r] = 1 .. Len(ghosts'[r])
      <4> DEFINE mine == ptls[r]
                 copies == ghosts'[r]
      <4>1. mine \in Seq(Located) /\ copies \in Seq(Located) /\ all = mine \o copies
            /\ Len(plans) = Len(mine) + Len(copies)
        BY <1>3, <3>4
      <4> HIDE DEF mine, copies, all
      <4>2. /\ mine \o copies \in Seq(Located) /\ Len(mine \o copies) = Len(mine) + Len(copies)
            /\ DOMAIN copies = 1 .. Len(copies)
            /\ \A i \in DOMAIN mine : (mine \o copies)[i] = mine[i]
            /\ \A i \in DOMAIN (mine \o copies) :
                  \/ i \in DOMAIN mine
                  \/ i - Len(mine) \in DOMAIN copies /\ (mine \o copies)[i] = copies[i - Len(mine)]
        BY <4>1, Joined
      <4> QED
        BY <4>1, <4>2 DEF mine, copies
    <3> HIDE DEF all
    <3>6. /\ sent \in Seq(GhostData) /\ DOMAIN sent = 1 .. Len(sent) /\ Len(sent) \in Nat
          /\ \A j \in DOMAIN sent : \E i \in DOMAIN all : sent[j].ptl = all[i]
      <4> DEFINE dir == Route[k]
      <4>1. plans \in Seq(SUBSET Communicating) /\ all \in Seq(Located) /\ Len(plans) = Len(all)
        BY <1>3, <3>5
      <4> HIDE DEF dir
      <4>2. SentKnown(SentIn(dir, Marked(all, plans)), all, plans, dir)
        BY <4>1, SentIsKnown
      <4> QED
        BY <4>2 DEF dir, SentKnown
    <3> HIDE DEF sent
    <3>7. DOMAIN tags = DOMAIN sent /\ Len(tags) = Len(sent) /\ \A j \in DOMAIN sent : tags[j] = sent[j].ptl.tag
      BY <3>6 DEF TagList
    <3> HIDE DEF tags
    <3>8. /\ message.kind = "ghosts" /\ message.dir = Route[k] /\ message.data = sent
      OBVIOUS
    <3> HIDE DEF message, next
    <3>9. copyGhosts'[r][Route[k]] = tags
      BY <1>2, <3>1, <3>3 DEF ListTypes
    <3>10. /\ k \in 1 .. Announced(r)' /\ Announced(r)' = k
           /\ \A s \in Ranks : \A l \in 1 .. Announced(s)' : l \in 1 .. Announced(s) \/ (s = r /\ l = k)
      BY <1>0, <1>1, <2>2, <3>0
    <3>11. ToList(r, k)'
      <4>1. Len(ghosts'[r]) = Total(numRecv'[r], k)
        BY <1>0, <3>0, ExchangeLists
      <4>2. ASSUME NEW j \in DOMAIN tags
            PROVE  Known(ptls'[r], ghosts'[r], tags[j], Total(numRecv'[r], k))
        <5>1. PICK i \in DOMAIN all : sent[j].ptl = all[i]
          BY <3>6, <3>7
        <5>2. tags[j] = all[i].tag
          BY <3>7, <5>1
        <5>3. \/ \E i2 \in DOMAIN ptls'[r] : ptls'[r][i2].tag = tags[j]
              \/ \E i2 \in DOMAIN ghosts'[r] : i2 <= Total(numRecv'[r], k) /\ ghosts'[r][i2].tag = tags[j]
          BY <1>3, <3>5, <4>1, <5>2
        <5> QED
          BY <5>3 DEF Known
      <4> QED
        BY <3>9, <4>2 DEF ToList
    <3>12. \A s \in Ranks : \A l \in 1 .. Announced(s)' : ToList(s, l)'
      BY <1>6, <3>10, <3>11
    <3>13. \A s \in Ranks :
            IF moves' = 0 /\ phase'[s] = Working'
            THEN Len(plan'[s]) = Len(ptls'[s]) + Len(ghosts'[s]) ELSE plan'[s] = <<>>
      BY <1>0, <1>2, <1>3, <1>5, <2>2, <3>3, Zenon DEF ListTypes
    <3>14. ASSUME AllFit, NEW from \in Ranks, NEW to \in Ranks, NEW i \in DOMAIN channel'[<<from, to>>]
           PROVE  Fits(Announced(from)', copyGhosts'[from], channel'[<<from, to>>][i])
      <4>1. TakesOne({Kind}, channel, RoundClock, r, LeftBy(r))
        BY <1>3, StepTakes
      <4>2. RoundClock \in [Ranks -> Clocks] /\ {Kind} \in KindSets /\ AllInOrder({Kind}, channel, RoundClock)
        BY ClockIs, KindIs DEF RoundOrder
      <4>3. \/ \E j \in DOMAIN channel[<<from, to>>] : channel'[<<from, to>>][i] = channel[<<from, to>>][j]
            \/ from = r /\ to = next /\ channel'[<<from, to>>][i] = message
        <5> DEFINE chan == channel
                   chan2 == channel'
                   rest == LeftBy(r)
                   kinds == {Kind}
                   clock == RoundClock
        <5>1. /\ chan2 = Put(rest, r, next, message) /\ next \in Ranks
              /\ TakesOne(kinds, chan, clock, r, rest) /\ i \in DOMAIN chan2[<<from, to>>]
              /\ kinds \in KindSets /\ clock \in [Ranks -> Clocks] /\ AllInOrder(kinds, chan, clock)
          BY <3>1, <3>3, <4>1, <4>2 DEF next
        <5> HIDE DEF chan, chan2, rest, kinds, clock
        <5>2. \/ \E j \in DOMAIN chan[<<from, to>>] : chan2[<<from, to>>][i] = chan[<<from, to>>][j]
              \/ from = r /\ to = next /\ chan2[<<from, to>>][i] = message
          BY <5>1, PutMessages
        <5> QED
          BY <5>2 DEF chan, chan2
      <4>4. ASSUME NEW j \in DOMAIN channel[<<from, to>>], channel'[<<from, to>>][i] = channel[<<from, to>>][j]
            PROVE  Fits(Announced(from)', copyGhosts'[from], channel'[<<from, to>>][i])
        <5>1. Fits(Announced(from), copyGhosts[from], channel[<<from, to>>][j])
          BY <3>14 DEF AllFit, FitsList
        <5>2. /\ Announced(from) \in Nat /\ Announced(from)' \in Nat /\ Announced(from) <= Announced(from)'
              /\ \A l \in 1 .. Announced(from) : copyGhosts'[from][Route[l]] = copyGhosts[from][Route[l]]
          BY <1>1, <1>2
        <5>3. Fits(Announced(from)', copyGhosts'[from], channel[<<from, to>>][j])
          <6> DEFINE count == Announced(from)
                     more == Announced(from)'
                     lists == copyGhosts[from]
                     lists2 == copyGhosts'[from]
          <6>1. /\ count \in Nat /\ more \in Nat /\ count <= more
                /\ \A l \in 1 .. count : lists2[Route[l]] = lists[Route[l]]
                /\ Fits(count, lists, channel[<<from, to>>][j])
            BY <5>1, <5>2
          <6> HIDE DEF count, more, lists, lists2
          <6>2. Fits(more, lists2, channel[<<from, to>>][j])
            BY <6>1, FitsLonger
          <6> QED
            BY <6>2 DEF more, lists2
        <5> QED
          BY <4>4, <5>3
      <4>5. ASSUME from = r, channel'[<<from, to>>][i] = message
            PROVE  Fits(Announced(from)', copyGhosts'[from], channel'[<<from, to>>][i])
        <5>1. Fits(Announced(r)', copyGhosts'[r], message)
          BY <3>6, <3>7, <3>8, <3>9, <3>10 DEF Fits
        <5> QED
          BY <4>5, <5>1
      <4> QED
        BY <4>3, <4>4, <4>5
    <3> QED
      BY <3>12, <3>13, <3>14 DEF AllFit, FitsList
  <2> QED
    BY <2>1, <2>2
<1> QED
  BY <1>7

LEMMA ExchangeKeepsLists ==
  ASSUME RoundOrder, Owned, CopyLists, NEW r \in Ranks, NEW new, NEW plans, ExchangeStep(r, new, plans)
  PROVE  CopyLists'
<1>1. ListTypes /\ (\A s \in Ranks : ListsOf(s)) /\ AllFit
  BY DEF CopyLists
<1>2. /\ \A s \in Ranks : Len(ghosts'[s]) = Total(numRecv'[s], Exchanged(s)' + 1)
      /\ \A s \in Ranks : \A l \in 1 .. Exchanged(s)' : FromList(s, l)'
  BY <1>1, ExchangeLists
<1>3. /\ \A s \in Ranks : \A l \in 1 .. Announced(s)' : ToList(s, l)'
      /\ \A s \in Ranks :
            IF moves' = 0 /\ phase'[s] = Working'
            THEN Len(plan'[s]) = Len(ptls'[s]) + Len(ghosts'[s]) ELSE plan'[s] = <<>>
      /\ AllFit'
  BY <1>1, ExchangeToLists
<1>4. ListTypes'
  BY <1>1, ExchangeFrame
<1>5. (\A s \in Ranks : ListsOf(s))'
  <2>1. ASSUME NEW s \in Ranks
        PROVE  ListsOf(s)'
    BY <1>2, <1>3 DEF ListsOf
  <2> QED
    BY <2>1
<1> QED
  BY <1>3, <1>4, <1>5 DEF CopyLists

\* What a rank takes next is what it waits for.
LEMMA Awaited ==
  ASSUME RoundOrder, NEW r \in Ranks, phase[r] = Working, Arrived(r)
  PROVE  /\ stage[r] \in DOMAIN Route /\ Source(r) = Src(r, stage[r]) /\ Source(r) \in Ranks
         /\ 1 \in DOMAIN channel[<<Source(r), r>>] /\ Message(r) = channel[<<Source(r), r>>][1]
         /\ Message(r).dir = Route[stage[r]] /\ Message(r).kind = Kind
<1>1. /\ stage[r] \in DOMAIN Route /\ Route[stage[r]] \in Sending
      /\ RoundClock[r] = Turn(Route[stage[r]], Kind) /\ RoundClock \in [Ranks -> Clocks]
      /\ {Kind} \in KindSets /\ AllInOrder({Kind}, channel, RoundClock) /\ Kind \in {Kind}
  BY ClockIs, KindIs DEF RoundOrder
<1>2. /\ Source(r) = NeighborRank(r, Opposite(Route[stage[r]])) /\ channel[<<Source(r), r>>] # <<>>
      /\ Message(r) = Head(channel[<<Source(r), r>>])
  BY Zenon DEF Source, Arrived, Message
<1> DEFINE from == Source(r)
           dir == Route[stage[r]]
           kinds == {Kind}
           kind == Kind
<1>3. /\ dir \in Sending /\ from = NeighborRank(r, Opposite(dir)) /\ channel[<<from, r>>] # <<>>
      /\ kinds \in KindSets /\ kind \in kinds /\ AllInOrder(kinds, channel, RoundClock)
      /\ RoundClock[r] = Turn(dir, kind)
  BY <1>1, <1>2
<1> HIDE DEF from, dir, kinds, kind
<1>4. /\ from \in Ranks
      /\ 1 \in DOMAIN channel[<<from, r>>] /\ Head(channel[<<from, r>>]) = channel[<<from, r>>][1]
      /\ channel[<<from, r>>][1].dir = dir /\ channel[<<from, r>>][1].kind = kind
  BY <1>1, <1>3, AwaitedFirst
<1> QED
  BY <1>1, <1>2, <1>4 DEF from, dir, kind, Src

LEMMA AwaitedFits ==
  ASSUME RoundOrder, AllFit, NEW r \in Ranks, phase[r] = Working, Arrived(r)
  PROVE  /\ stage[r] <= Announced(Src(r, stage[r]))
         /\ Len(Message(r).data) = Len(copyGhosts[Src(r, stage[r])][Route[stage[r]]])
         /\ Kind = "ghosts" =>
               /\ Message(r).data \in Seq(GhostData)
               /\ \A j \in DOMAIN Message(r).data :
                     Message(r).data[j].ptl.tag = copyGhosts[Src(r, stage[r])][Route[stage[r]]][j]
         /\ Kind = "positions" => Message(r).data \in Seq([Axes -> Int])
<1>1. /\ stage[r] \in DOMAIN Route /\ Source(r) = Src(r, stage[r]) /\ Source(r) \in Ranks
      /\ 1 \in DOMAIN channel[<<Source(r), r>>] /\ Message(r) = channel[<<Source(r), r>>][1]
      /\ Message(r).dir = Route[stage[r]] /\ Message(r).kind = Kind
  BY Awaited
<1> DEFINE from == Source(r)
           m == Message(r)
<1>2. Fits(Announced(from), copyGhosts[from], m)
  BY <1>1 DEF AllFit, FitsList
<1> HIDE DEF from, m
<1>3. PICK k \in 1 .. Announced(from) :
        /\ m.dir = Route[k]
        /\ Len(m.data) = Len(copyGhosts[from][Route[k]])
        /\ m.kind = "ghosts" =>
               /\ m.data \in Seq(GhostData)
               /\ \A j \in DOMAIN m.data : m.data[j].ptl.tag = copyGhosts[from][Route[k]][j]
        /\ m.kind = "positions" => m.data \in Seq([Axes -> Int])
  BY <1>2 DEF Fits
<1>4. k = stage[r]
  <2>1. k \in DOMAIN Route
    BY <1>1, ProgressIs DEF from
  <2> QED
    BY <1>1, <1>3, <2>1, RouteDiffers DEF m
<1> QED
  BY <1>1, <1>3, <1>4 DEF from, m

MarkedPlans(r) == [i \in DOMAIN ptls[r] |-> PlanOf(r, ptls[r][i], LayerWidth)]

LEMMA BeginIsExchangeStep ==
  ASSUME RoundOrder, Owned, CopyLists, NEW r \in Ranks, Step(r), communicator = "CPU",
         BeginExchange(r, LayerWidth)
  PROVE  ExchangeStep(r, <<>>, MarkedPlans(r))
<1> DEFINE plans == MarkedPlans(r)
<1>1. /\ phase[r] = "migrated" /\ ghosts' = ghosts /\ numRecv' = numRecv
      /\ SendGhosts(r, 1, ghosts[r], plans, channel)
  BY DEF BeginExchange, MarkedPlans
<1>2. phase[r] = Beginning /\ moves = 0 /\ stage[r] = 0 /\ LeftBy(r) = channel
  BY <1>1, RoundOf DEF LeftBy
<1>3. /\ GoesOn(r) /\ (SendsNext(r) \/ EndsRound(r)) /\ UNCHANGED <<ptls, moves, communicator>>
  BY StepShape
<1>4. ghosts \in [Ranks -> Seq(Located)] /\ ptls[r] \in Seq(Located)
  BY DEF CopyLists, ListTypes, Owned
<1>5. ghosts[r] = <<>>
  <2>1. Len(ghosts[r]) = Total(numRecv[r], 0 + 1) /\ numRecv[r] \in [Directions -> Nat]
    BY <1>2, ProgressIs DEF CopyLists, ListsOf, ListTypes
  <2>2. Len(ghosts[r]) = 0
    BY <2>1, TotalFirst
  <2> QED
    BY <1>4, <2>2, EmptySeq
<1>6. /\ <<>> \in Seq(Located) /\ ghosts' = [ghosts EXCEPT ![r] = ghosts[r] \o <<>>]
      /\ ghosts'[r] = ghosts[r] /\ Len(ghosts'[r]) = 0
  BY <1>1, <1>4, <1>5, EmptySeq, ConcatEmptySeq
<1>7. plans \in Seq(SUBSET Communicating) /\ Len(plans) = Len(ptls[r])
  <2>1. Len(ptls[r]) \in Nat /\ DOMAIN ptls[r] = 1 .. Len(ptls[r])
    BY <1>4, LenProperties
  <2>2. plans \in [1 .. Len(ptls[r]) -> SUBSET Communicating]
    BY <2>1 DEF PlanOf, MarkedPlans
  <2> HIDE DEF plans
  <2>3. plans \in Seq(SUBSET Communicating)
    BY <2>1, <2>2, SeqDef
  <2> QED
    BY <2>1, <2>2, <2>3, LenProperties
<1> HIDE DEF plans
<1>8. Len(plans) = Len(ptls[r]) + Len(ghosts'[r])
  <2> DEFINE a == Len(plans)
             b == Len(ptls[r])
             c == Len(ghosts'[r])
  <2>1. b \in Nat
    BY <1>4, LenProperties
  <2>2. a = b /\ c = 0
    BY <1>6, <1>7
  <2> HIDE DEF a, b, c
  <2>3. a = b + c
    BY <2>1, <2>2
  <2> QED
    BY <2>3 DEF a, b, c
<1>9. SendGhosts(r, stage[r] + 1, ghosts'[r], plans, LeftBy(r))
  BY <1>1, <1>2
<1>10. ExchangeStep(r, <<>>, plans)
  BY <1>1, <1>2, <1>3, <1>6, <1>7, <1>8, <1>9 DEF ExchangeStep
<1> QED
  BY <1>10 DEF plans

Arriving(data, r) ==
    [i \in DOMAIN data |-> Particle(data[i].ptl.tag, WrapGhost(r, data[i].ptl.pos, LayerWidth))]
PlansOf(data) == [i \in DOMAIN data |-> data[i].plan]

LEMMA ArrivingIs ==
  ASSUME NEW r \in Ranks, NEW data \in Seq(GhostData)
  PROVE  /\ Arriving(data, r) \in Seq(Located) /\ PlansOf(data) \in Seq(SUBSET Communicating)
         /\ Len(Arriving(data, r)) = Len(data) /\ Len(PlansOf(data)) = Len(data) /\ Len(data) \in Nat
         /\ DOMAIN Arriving(data, r) = DOMAIN data /\ DOMAIN PlansOf(data) = DOMAIN data
         /\ DOMAIN data = 1 .. Len(data)
         /\ \A i \in DOMAIN data :
               /\ data[i] \in GhostData /\ Arriving(data, r)[i].tag = data[i].ptl.tag
               /\ Arriving(data, r)[i].pos = WrapGhost(r, data[i].ptl.pos, LayerWidth)
               /\ PlansOf(data)[i] = data[i].plan
<1>1. Len(data) \in Nat /\ DOMAIN data = 1 .. Len(data) /\ \A i \in DOMAIN data : data[i] \in GhostData
  BY LenProperties, ElementOfSeq
<1>2. LayerWidth \in Nat
  BY LayerAssumption, GhostAssumption
<1>3. ASSUME NEW i \in DOMAIN data
      PROVE  /\ Particle(data[i].ptl.tag, WrapGhost(r, data[i].ptl.pos, LayerWidth)) \in Located
             /\ data[i].plan \in SUBSET Communicating
  <2>1. data[i].ptl \in Located /\ data[i].plan \in SUBSET Communicating
    BY <1>1 DEF GhostData
  <2>2. data[i].ptl.tag \in Tags /\ data[i].ptl.pos \in [Axes -> Int]
    BY <2>1 DEF Located
  <2> DEFINE pos == data[i].ptl.pos
  <2>3. pos \in [Axes -> Int]
    BY <2>2
  <2> HIDE DEF pos
  <2>4. Congruent(pos, pos)
    BY <2>3, CongruentToItself
  <2>5. WrapGhost(r, pos, LayerWidth) \in [Axes -> Int]
    BY <1>2, <2>3, <2>4, WrapIs
  <2> QED
    BY <2>1, <2>2, <2>5 DEF Particle, Located, pos
<1>4. Arriving(data, r) \in [1 .. Len(data) -> Located] /\ PlansOf(data) \in [1 .. Len(data) -> SUBSET Communicating]
  BY <1>1, <1>3 DEF Arriving, PlansOf
<1>5. Arriving(data, r) \in Seq(Located) /\ PlansOf(data) \in Seq(SUBSET Communicating)
  BY <1>1, <1>4, SeqDef
<1>6. Len(Arriving(data, r)) = Len(data) /\ Len(PlansOf(data)) = Len(data)
  BY <1>1, <1>4, <1>5, LenProperties
<1>7. \A i \in DOMAIN data :
               /\ Arriving(data, r)[i].tag = data[i].ptl.tag
               /\ Arriving(data, r)[i].pos = WrapGhost(r, data[i].ptl.pos, LayerWidth)
               /\ PlansOf(data)[i] = data[i].plan
  BY DEF Arriving, PlansOf, Particle
<1> QED
  BY <1>1, <1>4, <1>5, <1>6, <1>7

LEMMA ReceiveIsExchangeStep ==
  ASSUME RoundOrder, Owned, CopyLists, NEW r \in Ranks, Step(r), communicator = "CPU",
         ReceiveGhosts(r, LayerWidth)
  PROVE  ExchangeStep(r, Arriving(Message(r).data, r), plan[r] \o PlansOf(Message(r).data))
<1> DEFINE data == Message(r).data
           new == Arriving(data, r)
           plans == plan[r] \o PlansOf(data)
<1>1. /\ phase[r] = "exchange" /\ Arrived(r) /\ ptls' = ptls
      /\ ghosts' = [ghosts EXCEPT ![r] = @ \o new]
      /\ numRecv' = [numRecv EXCEPT ![r][Route[stage[r]]] = Len(data)]
      /\ SendGhosts(r, stage[r] + 1, ghosts'[r], plans, Taken(r))
  BY Zenon DEF ReceiveGhosts, Arriving, PlansOf
<1>2. /\ phase[r] = Working /\ phase[r] # Beginning /\ moves = 0 /\ stage[r] \in DOMAIN Route
      /\ LeftBy(r) = Taken(r) /\ Kind = "ghosts" /\ stage[r] # 0
  <2>1. phase[r] = Working /\ phase[r] # Beginning /\ moves = 0 /\ stage[r] \in DOMAIN Route
    BY <1>1, RoundOf
  <2> QED
    BY <2>1, RouteShape DEF LeftBy, Kind
<1>3. /\ GoesOn(r) /\ (SendsNext(r) \/ EndsRound(r)) /\ UNCHANGED <<ptls, moves, communicator>>
  BY StepShape
<1>4. /\ ghosts \in [Ranks -> Seq(Located)] /\ ptls[r] \in Seq(Located) /\ plan[r] \in Seq(SUBSET Communicating)
      /\ Len(plan[r]) = Len(ptls[r]) + Len(ghosts[r]) /\ AllFit
  BY <1>2 DEF CopyLists, ListTypes, ListsOf, Owned
<1>5. /\ stage[r] <= Announced(Src(r, stage[r]))
      /\ Len(data) = Len(copyGhosts[Src(r, stage[r])][Route[stage[r]]])
      /\ data \in Seq(GhostData)
      /\ \A j \in DOMAIN data : data[j].ptl.tag = copyGhosts[Src(r, stage[r])][Route[stage[r]]][j]
  BY <1>1, <1>2, <1>4, AwaitedFits
<1> HIDE DEF data
<1>6. /\ new \in Seq(Located) /\ PlansOf(data) \in Seq(SUBSET Communicating)
      /\ Len(new) = Len(data) /\ Len(PlansOf(data)) = Len(data) /\ Len(data) \in Nat
      /\ DOMAIN new = DOMAIN data /\ \A i \in DOMAIN data : new[i].tag = data[i].ptl.tag
  BY <1>5, ArrivingIs
<1> HIDE DEF new
<1> DEFINE more == PlansOf(data)
<1>7. plans \in Seq(SUBSET Communicating) /\ Len(plans) = Len(plan[r]) + Len(data)
  <2> DEFINE first == plan[r]
             S == SUBSET Communicating
  <2>1. more \in Seq(S) /\ plans = first \o more /\ Len(more) = Len(data) /\ first \in Seq(S)
    BY <1>4, <1>6
  <2> HIDE DEF more, plans, first, S
  <2>2. first \o more \in Seq(S) /\ Len(first \o more) = Len(first) + Len(more)
    BY <2>1, Joined
  <2> QED
    BY <2>1, <2>2 DEF first, S
<1> HIDE DEF plans
<1>8. ghosts'[r] = ghosts[r] \o new
  BY <1>1, <1>4
<1>9. Len(ghosts'[r]) = Len(ghosts[r]) + Len(data) /\ Len(ghosts[r]) \in Nat /\ Len(ptls[r]) \in Nat
  <2> DEFINE first == ghosts[r]
  <2>1. first \in Seq(Located) /\ Len(ptls[r]) \in Nat /\ ghosts'[r] = first \o new
    BY <1>4, <1>8, LenProperties
  <2> HIDE DEF first
  <2>2. Len(first \o new) = Len(first) + Len(new) /\ Len(first) \in Nat
    BY <1>6, <2>1, Joined
  <2> QED
    BY <1>6, <2>1, <2>2 DEF first
<1>10. numRecv' = [numRecv EXCEPT ![r] = [@ EXCEPT ![Route[stage[r]]] = Len(new)]]
  BY <1>1, <1>6, Zenon
<1>11. Len(plans) = Len(ptls[r]) + Len(ghosts'[r])
  <2>1. /\ Len(plans) = Len(plan[r]) + Len(data) /\ Len(ghosts'[r]) = Len(ghosts[r]) + Len(data)
        /\ Len(plan[r]) = Len(ptls[r]) + Len(ghosts[r])
        /\ Len(ghosts[r]) \in Nat /\ Len(ptls[r]) \in Nat /\ Len(data) \in Nat
    BY <1>4, <1>6, <1>7, <1>9
  <2> DEFINE a == Len(plans)
             b == Len(ptls[r])
             c == Len(ghosts'[r])
             d == Len(ghosts[r])
             e == Len(plan[r])
             f == Len(data)
  <2>2. a = e + f /\ c = d + f /\ e = b + d /\ d \in Nat /\ b \in Nat /\ f \in Nat
    BY <2>1
  <2> HIDE DEF a, b, c, d, e, f
  <2>3. a = b + c
    BY <2>2
  <2> QED
    BY <2>3 DEF a, b, c
<1>12. SendGhosts(r, stage[r] + 1, ghosts'[r], plans, LeftBy(r))
  BY <1>1, <1>2
<1>13. ExchangeStep(r, new, plans)
  BY <1>1, <1>2, <1>3, <1>5, <1>6, <1>7, <1>10, <1>11, <1>12 DEF ExchangeStep
<1> QED
  BY <1>13 DEF new, plans, data

-----------------------------------------------------------------------------
(* Where a particle may come to in an exchange: the ranks that differ from  *)
(* its owner only along the axes of its plan.  A plan names one direction   *)
(* of an axis, so what comes in a direction was not there before.           *)

Home == [tag \in Tags |-> Owner(tag)]
Way == [tag \in Tags |-> PlanOf(Owner(tag), Own(tag), LayerWidth)]

Reached(r, home, way, k) ==
    \A axis \in Axes :
        \/ GridPos(r)[axis] = GridPos(home)[axis]
        \/ \E l \in 1 .. k : Axis(Route[l]) = axis /\ Route[l] \in way

LEMMA SamePlaces ==
  ASSUME UNCHANGED ptls
  PROVE  Home' = Home /\ Way' = Way /\ OwnPosition' = OwnPosition
<1>1. OwnPosition' = OwnPosition
  BY DEF OwnPosition, PositionIn, Owner, TagsOf
<1>2. Home' = Home
  BY DEF Home, Owner, TagsOf
<1>3. Way' = Way
  <2>1. ASSUME NEW tag \in Tags
        PROVE  PlanOf(Owner(tag), Own(tag), LayerWidth)' = PlanOf(Owner(tag), Own(tag), LayerWidth)
    <3>1. Owner(tag)' = Owner(tag)
      BY DEF Owner, TagsOf
    <3>2. Own(tag)' = Own(tag)
      BY <1>1 DEF Own
    <3> QED
      BY <3>1, <3>2 DEF PlanOf, Incomplete, TagsOf
  <2> QED
    BY <2>1 DEF Way
<1> QED
  BY <1>1, <1>2, <1>3

\* A plan names one of the two directions of an axis: the nearer face, and the
\* layer does not reach the middle of the domain.
OneWay(way) ==
    /\ way \subseteq Communicating
    /\ \A f, g \in way : Axis(f) = Axis(g) => f = g

LEMMA Nearer ==
  ASSUME NEW r \in Ranks, NEW tag, NEW pos \in [Axes -> Int], NEW f \in Directions,
         f \in PlanOf(r, Particle(tag, pos), LayerWidth)
  PROVE  NearerFace(r, pos, f)
<1>1. (Incomplete(r, tag) /\ NearerFace(r, pos, f)) \/ NearFace(r, pos, f, LayerWidth)
  BY DEF PlanOf, Particle
<1>2. ASSUME NearFace(r, pos, f, LayerWidth)
      PROVE  NearerFace(r, pos, f)
  <2> DEFINE c == Offset(r, pos, Axis(f))
             g == GridPos(r)[Axis(f)]
  <2>1. /\ LayerWidth \in Nat /\ 2 * LayerWidth < L /\ L \in Nat
        /\ Axis(f) \in Axes /\ g \in Int /\ Forward(f) \in {1, -1}
    BY LayerAssumption, GhostAssumption, Directory, GridPosIsCell DEF GridCells
  <2>2. c = pos[Axis(f)] - g * L
    BY DEF Offset
  <2>3. g * L \in Int
    BY <2>1
  <2>4. c \in Int
    BY <2>1, <2>2, <2>3
  <2>5. IF Forward(f) = 1 THEN c >= L - LayerWidth ELSE c < LayerWidth
    BY <1>2 DEF NearFace
  <2> HIDE DEF c, g
  <2>6. (2 * c + 1 > L) <=> (Forward(f) = 1)
    BY <2>1, <2>4, <2>5
  <2> QED
    BY <2>6 DEF NearerFace, c
<1> QED
  BY <1>1, <1>2

LEMMA PlanIsOneWay ==
  ASSUME NEW r \in Ranks, NEW tag, NEW pos \in [Axes -> Int]
  PROVE  OneWay(PlanOf(r, Particle(tag, pos), LayerWidth))
<1> DEFINE way == PlanOf(r, Particle(tag, pos), LayerWidth)
<1>1. way \subseteq Communicating /\ Communicating \subseteq Directions
  BY RouteShape DEF PlanOf, Communicating, Range
<1>2. ASSUME NEW f \in way, NEW g \in way, Axis(f) = Axis(g)
      PROVE  f = g
  <2>1. f \in Directions /\ g \in Directions /\ NearerFace(r, pos, f) /\ NearerFace(r, pos, g)
    BY <1>1, Nearer
  <2>2. (Forward(f) = 1) <=> (Forward(g) = 1)
    BY <1>2, <2>1 DEF NearerFace
  <2> QED
    BY <1>2, <2>1, <2>2 DEF Axis, Forward, Directions
<1> QED
  BY <1>1, <1>2 DEF OneWay

LEMMA WayIs ==
  ASSUME Owned, NEW tag \in Tags
  PROVE  Home[tag] \in Ranks /\ OneWay(Way[tag]) /\ Way[tag] \subseteq Communicating
<1>1. Owner(tag) \in Ranks /\ OwnPosition[tag] \in [Axes -> Int]
  BY OwnPositionIs
<1>2. Way[tag] = PlanOf(Owner(tag), Particle(tag, OwnPosition[tag]), LayerWidth)
  BY DEF Way, Own
<1>3. OneWay(Way[tag])
  BY <1>1, <1>2, PlanIsOneWay
<1> QED
  BY <1>1, <1>3 DEF Home, OneWay

LEMMA ReachedFirst ==
  ASSUME NEW r, NEW way, NEW k
  PROVE  Reached(r, r, way, k)
BY DEF Reached

LEMMA ReachedLonger ==
  ASSUME NEW r, NEW home, NEW way, NEW k \in Int, NEW l \in Int, k <= l, Reached(r, home, way, k)
  PROVE  Reached(r, home, way, l)
<1>1. \A m \in 1 .. k : m \in 1 .. l
  OBVIOUS
<1> QED
  BY <1>1 DEF Reached

LEMMA ReachedNext ==
  ASSUME NEW k \in DOMAIN Route, NEW r \in Ranks, NEW home \in Ranks, NEW way, OneWay(way),
         Route[k] \in way, Reached(Src(r, k), home, way, k - 1)
  PROVE  Reached(r, home, way, k) /\ ~ Reached(r, home, way, k - 1)
<1> DEFINE s == Src(r, k)
           dir == Route[k]
           axis == Axis(dir)
<1>1. /\ s \in Ranks /\ NeighborRank(s, dir) = r /\ dir \in Directions /\ dir \in Sending
      /\ k \in Nat /\ DOMAIN Route = 1 .. Len(Route) /\ Len(Route) \in Nat
  BY SrcIs, RouteDirections, RouteShape
<1>2. axis \in Axes /\ Forward(dir) \in {-1, 1} /\ Size[axis] \in Nat \ {0} /\ Size[axis] # 1
  BY <1>1, Directory, SizesPositive DEF Sending, IsCommunicating
<1>3. GridPos(r) = [GridPos(s) EXCEPT ![axis] = Around(@ + Forward(dir), Size[axis])]
  BY <1>1, NeighborIs
<1>4. GridPos(s) \in [Axes -> Int] /\ GridPos(s)[axis] \in 0 .. Size[axis] - 1
  BY <1>1, <1>2, GridPosIsCell DEF GridCells
<1>5. ASSUME NEW l \in 1 .. k - 1, Axis(Route[l]) = axis, Route[l] \in way
      PROVE  FALSE
  <2>1. l \in DOMAIN Route
    BY <1>1
  <2>2. Route[l] = Route[k]
    BY <1>5 DEF OneWay
  <2>3. l = k
    BY <2>1, <2>2, RouteDiffers
  <2> QED
    BY <2>3
<1>6. Reached(s, home, way, k - 1)
  OBVIOUS
<1> HIDE DEF s, axis, dir
<1>7. GridPos(s)[axis] = GridPos(home)[axis]
  BY <1>2, <1>5, <1>6 DEF Reached
<1>8. GridPos(r)[axis] # GridPos(home)[axis] /\ \A a \in Axes \ {axis} : GridPos(r)[a] = GridPos(s)[a]
  BY <1>2, <1>3, <1>4, <1>7 DEF Around
<1>9. ~ Reached(r, home, way, k - 1)
  BY <1>2, <1>5, <1>8 DEF Reached
<1>10. ASSUME NEW a \in Axes
       PROVE  GridPos(r)[a] = GridPos(home)[a] \/ \E l \in 1 .. k : Axis(Route[l]) = a /\ Route[l] \in way
  <2>1. CASE a = axis
    <3>1. k \in 1 .. k /\ Axis(Route[k]) = a /\ Route[k] \in way
      BY <1>1, <2>1 DEF axis, dir
    <3> QED
      BY <3>1
  <2>2. CASE a # axis
    <3>1. GridPos(s)[a] = GridPos(home)[a] \/ \E l \in 1 .. k - 1 : Axis(Route[l]) = a /\ Route[l] \in way
      BY <1>6 DEF Reached
    <3>2. \A l \in 1 .. k - 1 : l \in 1 .. k
      BY <1>1
    <3> QED
      BY <1>8, <2>2, <3>1, <3>2
  <2> QED
    BY <2>1, <2>2
<1>11. Reached(r, home, way, k)
  BY <1>10 DEF Reached
<1> QED
  BY <1>9, <1>11

TagsApart(list) == \A i, j \in DOMAIN list : list[i].tag = list[j].tag => i = j
Different(list) == \A i, j \in DOMAIN list : list[i] = list[j] => i = j

\* Particles a rank may have when it has received from k directions.
PlacedIn(r, all, home, way, k) ==
    \A i \in DOMAIN all : Reached(r, home[all[i].tag], way[all[i].tag], k)

\* Tags of particles that are sent in a direction, when k directions are done.
OnTheWay(r, list, dir, home, way, k) ==
    \A j \in DOMAIN list : dir \in way[list[j]] /\ Reached(r, home[list[j]], way[list[j]], k)

PlansAre(plans, all, way) == \A i \in DOMAIN plans : plans[i] = way[all[i].tag]

ArrayPlaces(r) ==
    /\ TagsApart(Arrays(r)) /\ rtag[r] = Indexed(NoIndex, Arrays(r))
    /\ moves = 0 => PlacedIn(r, Arrays(r), Home, Way, Exchanged(r))
    /\ moves = 0 /\ phase[r] = Working => PlansAre(plan[r], Arrays(r), Way)

ListPlaces(r) ==
    \A k \in 1 .. Announced(r) :
        /\ Different(copyGhosts[r][Route[k]])
        /\ moves = 0 => OnTheWay(r, copyGhosts[r][Route[k]], Route[k], Home, Way, k - 1)

TrueGhosts(m, way, own) ==
    m.kind = "ghosts" =>
        \A j \in DOMAIN m.data :
            /\ m.data[j].plan = way[m.data[j].ptl.tag]
            /\ Congruent(m.data[j].ptl.pos, own[m.data[j].ptl.tag])
TruePositions(m, lists, own) ==
    m.kind = "positions" =>
        \A j \in DOMAIN m.data : Congruent(m.data[j], own[lists[m.dir][j]])

AllTrue ==
    \A from, to \in Ranks : \A i \in DOMAIN channel[<<from, to>>] :
        /\ TrueGhosts(channel[<<from, to>>][i], Way, OwnPosition)
        /\ TruePositions(channel[<<from, to>>][i], copyGhosts[from], OwnPosition)

\* The first of the ghosts have the positions of their owners.
CurrentGhosts(r, copies, own, count) ==
    \A i \in DOMAIN copies : i <= count => Mirrors(r, copies[i].pos, own[copies[i].tag])
Updated(r) ==
    IF moves = 0 \/ phase[r] = "current" THEN Len(ghosts[r])
    ELSE IF stage[r] = 0 THEN 0 ELSE Total(numRecv[r], stage[r])

CopyPlaces ==
    /\ DOMAIN rtag = Ranks
    /\ \A r \in Ranks :
           ArrayPlaces(r) /\ ListPlaces(r) /\ CurrentGhosts(r, ghosts[r], OwnPosition, Updated(r))
    /\ AllTrue

-----------------------------------------------------------------------------
LEMMA ThreeJoined ==
  ASSUME NEW S, NEW a \in Seq(S), NEW b \in Seq(S), NEW c \in Seq(S),
         NEW ab, ab = a \o b, NEW bc, bc = b \o c
  PROVE  ab \o c = a \o bc
<1>1. (a \o b) \o c = a \o (b \o c)
  BY ConcatAssociative
<1> QED
  BY <1>1

LEMMA JoinedApart ==
  ASSUME NEW a \in Seq(Located), NEW b \in Seq(Located), TagsApart(a), TagsApart(b),
         \A i \in DOMAIN a, j \in DOMAIN b : a[i].tag # b[j].tag
  PROVE  TagsApart(a \o b)
<1>1. /\ Len(a) \in Nat /\ Len(b) \in Nat /\ DOMAIN (a \o b) = 1 .. Len(a) + Len(b)
      /\ DOMAIN a = 1 .. Len(a)
      /\ \A i \in DOMAIN (a \o b) :
            \/ i \in DOMAIN a
            \/ i - Len(a) \in DOMAIN b /\ (a \o b)[i] = b[i - Len(a)]
      /\ \A i \in DOMAIN a : (a \o b)[i] = a[i]
  BY Joined
<1> DEFINE all == a \o b
<1>2. ASSUME NEW i \in DOMAIN all, NEW j \in DOMAIN all, all[i].tag = all[j].tag
      PROVE  i = j
  <2>1. i \in Int /\ j \in Int /\ Len(a) \in Int
    BY <1>1
  <2>2. /\ (i \in DOMAIN a /\ all[i] = a[i]) \/ (i - Len(a) \in DOMAIN b /\ all[i] = b[i - Len(a)])
        /\ (j \in DOMAIN a /\ all[j] = a[j]) \/ (j - Len(a) \in DOMAIN b /\ all[j] = b[j - Len(a)])
    BY <1>1
  <2> HIDE DEF all
  <2>3. CASE i \in DOMAIN a /\ all[i] = a[i]
    BY <1>2, <2>2, <2>3 DEF TagsApart
  <2>4. CASE i - Len(a) \in DOMAIN b /\ all[i] = b[i - Len(a)]
    <3>1. j - Len(a) \in DOMAIN b /\ all[j] = b[j - Len(a)]
      BY <1>2, <2>2, <2>4
    <3>2. i - Len(a) = j - Len(a)
      BY <1>2, <2>4, <3>1 DEF TagsApart
    <3> QED
      BY <2>1, <3>2
  <2> QED
    BY <2>2, <2>3, <2>4
<1> QED
  BY <1>2 DEF TagsApart

\* Reverse lookup of a list in which no tag occurs twice.
LEMMA LookedUp ==
  ASSUME NEW all \in Seq(Located), TagsApart(all), NEW i \in DOMAIN all
  PROVE  all[i].tag \in Tags /\ Indexed(NoIndex, all)[all[i].tag] = i - 1
<1>1. all[i] \in Located
  BY ElementOfSeq, LenProperties
<1>2. all[i].tag \in Tags /\ all[i].tag \in TagsOf(all)
  BY <1>1 DEF Located, TagsOf
<1>3. (CHOOSE j \in DOMAIN all : all[j].tag = all[i].tag) = i
  BY DEF TagsApart
<1> QED
  BY <1>2, <1>3 DEF Indexed

\* What is looked up again, with no tag left out, is as if it had not been.
LEMMA IndexedAgain ==
  ASSUME NEW a, NEW b, TagsOf(a) \subseteq TagsOf(b)
  PROVE  Indexed(Indexed(NoIndex, a), b) = Indexed(NoIndex, b)
<1>1. ASSUME NEW tag \in Tags
      PROVE  Indexed(Indexed(NoIndex, a), b)[tag] = Indexed(NoIndex, b)[tag]
  <2>1. CASE tag \in TagsOf(b)
    BY <2>1 DEF Indexed
  <2>2. CASE tag \notin TagsOf(b)
    BY <2>2 DEF Indexed
  <2> QED
    BY <2>1, <2>2
<1> QED
  BY <1>1 DEF Indexed

\* Only the tags of a list count, and their order.
LEMMA IndexedSame ==
  ASSUME NEW index, NEW a, NEW b, DOMAIN a = DOMAIN b, \A i \in DOMAIN a : a[i].tag = b[i].tag
  PROVE  Indexed(index, a) = Indexed(index, b)
<1>1. TagsOf(a) = TagsOf(b)
  BY DEF TagsOf
<1>2. \A tag : (CHOOSE i \in DOMAIN a : a[i].tag = tag) = (CHOOSE i \in DOMAIN b : b[i].tag = tag)
  <2> TAKE tag
  <2>1. \A i : (i \in DOMAIN a /\ a[i].tag = tag) <=> (i \in DOMAIN b /\ b[i].tag = tag)
    OBVIOUS
  <2> QED
    BY <2>1
<1>3. ASSUME NEW tag \in Tags
      PROVE  Indexed(index, a)[tag] = Indexed(index, b)[tag]
  <2>1. (CHOOSE i \in DOMAIN a : a[i].tag = tag) = (CHOOSE i \in DOMAIN b : b[i].tag = tag)
    BY <1>2
  <2> DEFINE x == CHOOSE i \in DOMAIN a : a[i].tag = tag
             y == CHOOSE i \in DOMAIN b : b[i].tag = tag
  <2>2. /\ Indexed(index, a)[tag] = IF tag \in TagsOf(a) THEN x - 1 ELSE index[tag]
        /\ Indexed(index, b)[tag] = IF tag \in TagsOf(b) THEN y - 1 ELSE index[tag]
    BY Zenon DEF Indexed
  <2>3. x = y
    BY <2>1
  <2> HIDE DEF x, y
  <2> QED
    BY <1>1, <2>2, <2>3
<1> QED
  BY <1>3, Zenon DEF Indexed

-----------------------------------------------------------------------------
\* What comes to a rank in an exchange was not there.
LEMMA Arrivals ==
  ASSUME RoundOrder, Owned, CopyLists, CopyPlaces, NEW r \in Ranks, NEW new, NEW plans,
         ExchangeStep(r, new, plans), stage[r] # 0
  PROVE  /\ TagsApart(new) /\ PlacedIn(r, new, Home, Way, stage[r])
         /\ \A j \in DOMAIN new : new[j].tag \in Tags
         /\ \A j \in DOMAIN new : \A i \in DOMAIN Arrays(r) : Arrays(r)[i].tag # new[j].tag
<1>1. /\ moves = 0 /\ new \in Seq(Located)
      /\ stage[r] <= Announced(Src(r, stage[r]))
      /\ Len(new) = Len(copyGhosts[Src(r, stage[r])][Route[stage[r]]])
      /\ \A j \in DOMAIN new : new[j].tag = copyGhosts[Src(r, stage[r])][Route[stage[r]]][j]
  BY DEF ExchangeStep
<1>2. /\ stage[r] \in DOMAIN Route /\ stage[r] \in Nat /\ stage[r] >= 1 /\ Exchanged(r) = stage[r] - 1
  BY ExchangeProgress, ProgressIs
<1>3. PICK k \in DOMAIN Route : k = stage[r]
  BY <1>2
<1>4. Src(r, k) \in Ranks /\ Route[k] \in Directions
  BY SrcIs
<1> DEFINE list == copyGhosts[Src(r, k)][Route[k]]
<1>5. list \in Seq(Tags)
  BY <1>4 DEF CopyLists, ListTypes
<1>6. k \in 1 .. Announced(Src(r, k))
  BY <1>1, <1>2, <1>3, <1>4, ProgressIs
<1>7. Different(list) /\ OnTheWay(Src(r, k), list, Route[k], Home, Way, k - 1)
  BY <1>1, <1>4, <1>6 DEF CopyPlaces, ListPlaces
<1>8. /\ DOMAIN new = DOMAIN list /\ \A j \in DOMAIN new : new[j].tag = list[j]
      /\ \A j \in DOMAIN new : list[j] \in Tags
  BY <1>1, <1>3, <1>5, LenProperties, ElementOfSeq
<1> HIDE DEF list
<1>9. TagsApart(new)
  BY <1>7, <1>8 DEF TagsApart, Different
<1>10. ASSUME NEW j \in DOMAIN new
       PROVE  /\ Reached(r, Home[new[j].tag], Way[new[j].tag], k)
              /\ ~ Reached(r, Home[new[j].tag], Way[new[j].tag], k - 1)
  <2> DEFINE tag == new[j].tag
             home == Home[tag]
             way == Way[tag]
  <2>1. tag \in Tags
    BY <1>8
  <2>2. home \in Ranks /\ OneWay(way)
    BY <2>1, WayIs
  <2>3. Route[k] \in way /\ Reached(Src(r, k), home, way, k - 1)
    BY <1>7, <1>8 DEF OnTheWay
  <2> HIDE DEF home, way
  <2>4. Reached(r, home, way, k) /\ ~ Reached(r, home, way, k - 1)
    BY <2>2, <2>3, ReachedNext
  <2> QED
    BY <2>4 DEF home, way
<1>11. PlacedIn(r, Arrays(r), Home, Way, k - 1)
  BY <1>1, <1>2, <1>3 DEF CopyPlaces, ArrayPlaces
<1> QED
  BY <1>3, <1>8, <1>9, <1>10, <1>11 DEF PlacedIn

TrueArrivals(r, new, plans) ==
    /\ \A j \in DOMAIN new : Mirrors(r, new[j].pos, OwnPosition[new[j].tag])
    /\ PlansAre(plans, ptls[r] \o ghosts'[r], Way)
    /\ IF stage[r] = 0 THEN rtag' = rtag
       ELSE rtag' = [rtag EXCEPT ![r] = Indexed(rtag[r], ptls[r] \o ghosts'[r])]

\* The arrays after a step of an exchange.
LEMMA ExchangeArrays ==
  ASSUME RoundOrder, Owned, CopyLists, CopyPlaces, NEW r \in Ranks, NEW new, NEW plans,
         ExchangeStep(r, new, plans)
  PROVE  /\ ptls'[r] = ptls[r] /\ ptls[r] \o ghosts'[r] = Arrays(r) \o new
         /\ Arrays(r) \in Seq(Located) /\ new \in Seq(Located) /\ Arrays(r) \o new \in Seq(Located)
         /\ TagsApart(Arrays(r) \o new)
         /\ PlacedIn(r, Arrays(r) \o new, Home, Way, stage[r])
         /\ TagsOf(Arrays(r)) \subseteq TagsOf(Arrays(r) \o new)
<1>1. /\ moves = 0 /\ new \in Seq(Located) /\ ptls' = ptls
      /\ ghosts' = [ghosts EXCEPT ![r] = ghosts[r] \o new]
      /\ stage[r] = 0 => new = <<>>
  BY DEF ExchangeStep
<1>2. ghosts[r] \in Seq(Located) /\ ptls[r] \in Seq(Located) /\ ghosts \in [Ranks -> Seq(Located)]
  BY DEF CopyLists, ListTypes, Owned
<1> DEFINE a == ptls[r]
           b == ghosts[r]
           all == Arrays(r)
<1>3. all = a \o b /\ ghosts'[r] = b \o new /\ a \in Seq(Located) /\ b \in Seq(Located)
  BY <1>1, <1>2 DEF Arrays
<1>4. TagsApart(all) /\ PlacedIn(r, all, Home, Way, Exchanged(r))
  BY <1>1 DEF CopyPlaces, ArrayPlaces
<1>5. stage[r] \in Nat /\ Exchanged(r) \in Int /\ Exchanged(r) <= stage[r] /\ (stage[r] = 0 => Exchanged(r) = 0)
  BY ExchangeProgress, ProgressIs
<1>6. stage[r] # 0 =>
         /\ TagsApart(new) /\ PlacedIn(r, new, Home, Way, stage[r])
         /\ \A j \in DOMAIN new : \A i \in DOMAIN all : all[i].tag # new[j].tag
  BY Arrivals
<1>7. stage[r] = 0 => DOMAIN new = {}
  BY <1>1
<1> HIDE DEF a, b, all
<1>8. a \o (b \o new) = all \o new /\ all \in Seq(Located)
  <2> DEFINE c == b \o new
  <2>1. a \in Seq(Located) /\ b \in Seq(Located) /\ new \in Seq(Located) /\ all = a \o b /\ c = b \o new
    BY <1>1, <1>3
  <2> HIDE DEF c
  <2>3. all \o new = a \o c
    BY <2>1, ThreeJoined
  <2>2. a \o b \in Seq(Located)
    BY <1>3, Joined
  <2> QED
    BY <1>3, <2>2, <2>3 DEF c
<1>9. TagsApart(new) /\ PlacedIn(r, new, Home, Way, stage[r])
      /\ \A j \in DOMAIN new : \A i \in DOMAIN all : all[i].tag # new[j].tag
  BY <1>6, <1>7 DEF TagsApart, PlacedIn
<1>10. TagsApart(all \o new)
  BY <1>1, <1>4, <1>8, <1>9, JoinedApart
<1>11. /\ all \o new \in Seq(Located) /\ \A i \in DOMAIN all : i \in DOMAIN (all \o new) /\ (all \o new)[i] = all[i]
       /\ \A i \in DOMAIN (all \o new) :
            \/ i \in DOMAIN all
            \/ i - Len(all) \in DOMAIN new /\ (all \o new)[i] = new[i - Len(all)]
  BY <1>1, <1>8, Joined
<1>12. PlacedIn(r, all \o new, Home, Way, stage[r])
  <2>1. ASSUME NEW i \in DOMAIN (all \o new)
        PROVE  Reached(r, Home[(all \o new)[i].tag], Way[(all \o new)[i].tag], stage[r])
    <3>1. CASE i \in DOMAIN all
      <4>1. Reached(r, Home[all[i].tag], Way[all[i].tag], Exchanged(r))
        BY <1>4, <3>1 DEF PlacedIn
      <4>2. stage[r] \in Int
        BY <1>5
      <4>3. Reached(r, Home[all[i].tag], Way[all[i].tag], stage[r])
        BY <1>5, <4>1, <4>2, ReachedLonger
      <4> QED
        BY <1>11, <3>1, <4>3
    <3>2. CASE i - Len(all) \in DOMAIN new /\ (all \o new)[i] = new[i - Len(all)]
      BY <1>9, <3>2 DEF PlacedIn
    <3> QED
      BY <1>11, <3>1, <3>2
  <2> QED
    BY <2>1 DEF PlacedIn
<1>13. TagsOf(all) \subseteq TagsOf(all \o new)
  BY <1>11 DEF TagsOf
<1> QED
  BY <1>1, <1>3, <1>8, <1>10, <1>11, <1>12, <1>13 DEF all, a, b

LEMMA ExchangeArrayPlaces ==
  ASSUME RoundOrder, Owned, CopyLists, CopyPlaces, NEW r \in Ranks, NEW new, NEW plans,
         ExchangeStep(r, new, plans), TrueArrivals(r, new, plans)
  PROVE  \A s \in Ranks : ArrayPlaces(s)'
<1>1. Home' = Home /\ Way' = Way /\ ptls' = ptls /\ moves' = moves /\ moves = 0
  BY SamePlaces DEF ExchangeStep
<1>2. /\ \A s \in Ranks \ {r} : Exchanged(s)' = Exchanged(s) /\ phase'[s] = phase[s]
      /\ Working' = Working /\ Exchanged(r)' = stage[r] /\ stage[r] \in 0 .. Len(Route)
  BY ExchangeProgress
<1>3. /\ ghosts' = [ghosts EXCEPT ![r] = ghosts[r] \o new]
      /\ \A s \in Ranks \ {r} : ghosts'[s] = ghosts[s] /\ rtag'[s] = rtag[s] /\ plan'[s] = plan[s]
  <2>1. \A s \in Ranks \ {r} : ghosts'[s] = ghosts[s]
    BY ExchangeFrame DEF CopyLists
  <2>2. DOMAIN rtag = Ranks /\ plan \in [Ranks -> Seq(SUBSET Communicating)]
    BY DEF CopyPlaces, CopyLists, ListTypes
  <2>3. \A s \in Ranks \ {r} : rtag'[s] = rtag[s]
    <3>1. (rtag' = rtag) \/ (rtag' = [rtag EXCEPT ![r] = Indexed(rtag[r], ptls[r] \o ghosts'[r])])
      BY DEF TrueArrivals
    <3> QED
      BY <2>2, <3>1
  <2>4. \A s \in Ranks \ {r} : plan'[s] = plan[s]
    <3>1. SendGhosts(r, stage[r] + 1, ghosts'[r], plans, LeftBy(r))
      BY DEF ExchangeStep
    <3>2. (plan' = [plan EXCEPT ![r] = <<>>]) \/ (plan' = [plan EXCEPT ![r] = plans])
      BY <3>1, Zenon DEF SendGhosts
    <3> QED
      BY <2>2, <3>2
  <2> QED
    BY <2>1, <2>3, <2>4 DEF ExchangeStep
<1>4. ASSUME NEW s \in Ranks \ {r}
      PROVE  ArrayPlaces(s)'
  <2>1. ArrayPlaces(s)
    BY DEF CopyPlaces
  <2>2. Arrays(s)' = Arrays(s) /\ rtag'[s] = rtag[s] /\ plan'[s] = plan[s] /\ phase'[s] = phase[s]
        /\ Exchanged(s)' = Exchanged(s)
    BY <1>1, <1>2, <1>3 DEF Arrays
  <2> QED
    BY <1>1, <1>2, <2>1, <2>2 DEF ArrayPlaces
<1> DEFINE all == Arrays(r) \o new
<1>5. /\ ptls[r] \o ghosts'[r] = all /\ TagsApart(all) /\ PlacedIn(r, all, Home, Way, stage[r])
      /\ TagsOf(Arrays(r)) \subseteq TagsOf(all) /\ all \in Seq(Located)
  BY ExchangeArrays
<1>6. Arrays(r)' = all
  BY <1>1, <1>5 DEF Arrays
<1>7. rtag'[r] = Indexed(NoIndex, all)
  <2>1. rtag[r] = Indexed(NoIndex, Arrays(r))
    BY DEF CopyPlaces, ArrayPlaces
  <2>2. CASE stage[r] = 0
    <3>1. rtag' = rtag /\ new = <<>>
      BY <2>2 DEF TrueArrivals, ExchangeStep
    <3>2. all = Arrays(r)
      BY <3>1, ExchangeArrays, ConcatEmptySeq
    <3> QED
      BY <2>1, <3>1, <3>2
  <2>3. CASE stage[r] # 0
    <3>1. rtag' = [rtag EXCEPT ![r] = Indexed(rtag[r], all)]
      BY <1>5, <2>3 DEF TrueArrivals
    <3>2. Indexed(rtag[r], all) = Indexed(NoIndex, all)
      BY <1>5, <2>1, IndexedAgain
    <3>3. r \in DOMAIN rtag
      BY DEF CopyPlaces
    <3> QED
      BY <3>1, <3>2, <3>3
  <2> QED
    BY <2>2, <2>3
<1>8. phase'[r] = Working' => PlansAre(plan'[r], all, Way)
  <2>1. PlansAre(plans, all, Way)
    BY <1>5 DEF TrueArrivals
  <2>2. stage[r] # Len(Route) => plan'[r] = plans
    <3>1. SUFFICES ASSUME stage[r] # Len(Route) PROVE plan'[r] = plans
      OBVIOUS
    <3>2. SendGhosts(r, stage[r] + 1, ghosts'[r], plans, LeftBy(r)) /\ plan \in [Ranks -> Seq(SUBSET Communicating)]
      BY DEF ExchangeStep, CopyLists, ListTypes
    <3>3. ~ (stage[r] + 1 > Len(Route))
      BY <1>2, <3>1, RouteShape
    <3>4. plan' = [plan EXCEPT ![r] = plans]
      BY <3>2, <3>3, Zenon DEF SendGhosts
    <3> QED
      BY <3>2, <3>4
  <2>3. stage[r] = Len(Route) => phase'[r] # Working'
    BY ExchangeProgress
  <2> QED
    BY <2>1, <2>2, <2>3
<1>9. ArrayPlaces(r)'
  <2> HIDE DEF all
  <2> QED
    BY <1>1, <1>2, <1>5, <1>6, <1>7, <1>8 DEF ArrayPlaces
<1> QED
  BY <1>4, <1>9

-----------------------------------------------------------------------------
\* The messages after a step: those before it, and at most one more.
MessagesAfter(r, next, message) ==
    \A from, to \in Ranks : \A i \in DOMAIN channel'[<<from, to>>] :
        \/ \E j \in DOMAIN channel[<<from, to>>] : channel'[<<from, to>>][i] = channel[<<from, to>>][j]
        \/ from = r /\ to = next /\ channel'[<<from, to>>][i] = message
NoMessageMore ==
    \A from, to \in Ranks : \A i \in DOMAIN channel'[<<from, to>>] :
        \E j \in DOMAIN channel[<<from, to>>] : channel'[<<from, to>>][i] = channel[<<from, to>>][j]

LEMMA Sends ==
  ASSUME RoundOrder, NEW r \in Ranks, GoesOn(r), NEW next \in Ranks, NEW message,
         channel' = Put(LeftBy(r), r, next, message)
  PROVE  MessagesAfter(r, next, message)
<1>1. /\ TakesOne({Kind}, channel, RoundClock, r, LeftBy(r))
      /\ RoundClock \in [Ranks -> Clocks] /\ {Kind} \in KindSets /\ AllInOrder({Kind}, channel, RoundClock)
  BY StepTakes, ClockIs, KindIs DEF RoundOrder
<1>2. ASSUME NEW from \in Ranks, NEW to \in Ranks, NEW i \in DOMAIN channel'[<<from, to>>]
      PROVE  \/ \E j \in DOMAIN channel[<<from, to>>] : channel'[<<from, to>>][i] = channel[<<from, to>>][j]
             \/ from = r /\ to = next /\ channel'[<<from, to>>][i] = message
  <2> DEFINE chan == channel
             chan2 == channel'
             rest == LeftBy(r)
             kinds == {Kind}
             clock == RoundClock
  <2>1. /\ chan2 = Put(rest, r, next, message) /\ next \in Ranks
        /\ TakesOne(kinds, chan, clock, r, rest) /\ i \in DOMAIN chan2[<<from, to>>]
        /\ kinds \in KindSets /\ clock \in [Ranks -> Clocks] /\ AllInOrder(kinds, chan, clock)
    BY <1>1
  <2> HIDE DEF chan, chan2, rest, kinds, clock
  <2>2. \/ \E j \in DOMAIN chan[<<from, to>>] : chan2[<<from, to>>][i] = chan[<<from, to>>][j]
        \/ from = r /\ to = next /\ chan2[<<from, to>>][i] = message
    BY <2>1, PutMessages
  <2> QED
    BY <2>2 DEF chan, chan2
<1> QED
  BY <1>2, Zenon DEF MessagesAfter

LEMMA SendsNone ==
  ASSUME RoundOrder, NEW r \in Ranks, GoesOn(r), channel' = LeftBy(r)
  PROVE  NoMessageMore
<1>1. /\ TakesOne({Kind}, channel, RoundClock, r, LeftBy(r))
      /\ RoundClock \in [Ranks -> Clocks] /\ {Kind} \in KindSets /\ AllInOrder({Kind}, channel, RoundClock)
  BY StepTakes, ClockIs, KindIs DEF RoundOrder
<1>2. ASSUME NEW from \in Ranks, NEW to \in Ranks, NEW i \in DOMAIN channel'[<<from, to>>]
      PROVE  \E j \in DOMAIN channel[<<from, to>>] : channel'[<<from, to>>][i] = channel[<<from, to>>][j]
  <2>1. AmongThese(channel'[<<from, to>>], channel[<<from, to>>])
    BY <1>1, RestMessages
  <2> QED
    BY <2>1 DEF AmongThese
<1> QED
  BY <1>2, Zenon DEF NoMessageMore

\* What a rank sends in an exchange, and that it remembers it.
GhostMessage(dir, sent) == [kind |-> "ghosts", dir |-> dir, data |-> sent]
Remembers(r, dir, list) ==
    /\ copyGhosts'[r][dir] = list
    /\ \A d \in Directions \ {dir} : copyGhosts'[r][d] = copyGhosts[r][d]
    /\ \A s \in Ranks \ {r} : copyGhosts'[s] = copyGhosts[s]

LEMMA ExchangeSends ==
  ASSUME RoundOrder, Owned, CopyLists, NEW r \in Ranks, NEW new, NEW plans,
         ExchangeStep(r, new, plans), NEW k \in DOMAIN Route, k = stage[r] + 1
  PROVE  /\ SentKnown(SentIn(Route[k], Marked(ptls[r] \o ghosts'[r], plans)),
                      ptls[r] \o ghosts'[r], plans, Route[k])
         /\ Remembers(r, Route[k], TagList(SentIn(Route[k], Marked(ptls[r] \o ghosts'[r], plans))))
         /\ MessagesAfter(r, NeighborRank(r, Route[k]),
                GhostMessage(Route[k], SentIn(Route[k], Marked(ptls[r] \o ghosts'[r], plans))))
         /\ Announced(r)' = k /\ k \in Nat /\ k >= 1
<1>1. /\ GoesOn(r) /\ plans \in Seq(SUBSET Communicating) /\ Len(plans) = Len(ptls[r]) + Len(ghosts'[r])
      /\ SendGhosts(r, k, ghosts'[r], plans, LeftBy(r))
  BY DEF ExchangeStep
<1>2. Announced(r)' = k /\ k \in Nat /\ k >= 1
  BY ExchangeProgress, RouteShape
<1>3. SentGhosts(r, k, ghosts'[r], plans, LeftBy(r))
  BY <1>1, SendGhostsIs
<1>4. Route[k] \in Directions /\ NeighborRank(r, Route[k]) \in Ranks
  BY RouteDirections, SrcIs
<1>5. ptls[r] \in Seq(Located) /\ ghosts'[r] \in Seq(Located) /\ copyGhosts \in [Ranks -> [Directions -> Seq(Tags)]]
  BY ExchangeFrame DEF ListTypes, Owned, CopyLists
<1> DEFINE mine == ptls[r]
           copies == ghosts'[r]
           all == mine \o copies
           dir == Route[k]
           sent == SentIn(dir, Marked(all, plans))
           next == NeighborRank(r, dir)
<1>6. /\ copyGhosts' = [copyGhosts EXCEPT ![r] = [copyGhosts[r] EXCEPT ![dir] = TagList(sent)]]
      /\ channel' = Put(LeftBy(r), r, next, GhostMessage(dir, sent))
  BY <1>3, Zenon DEF SentGhosts, GhostMessage
<1>7. mine \in Seq(Located) /\ copies \in Seq(Located) /\ Len(plans) = Len(mine) + Len(copies)
      /\ dir \in Directions /\ next \in Ranks
  BY <1>1, <1>4, <1>5
<1> HIDE DEF mine, copies, dir, next
<1>8. all \in Seq(Located) /\ Len(plans) = Len(all)
  BY <1>7, Joined
<1> HIDE DEF all
<1>9. SentKnown(sent, all, plans, dir)
  BY <1>1, <1>8, SentIsKnown
<1> HIDE DEF sent
<1>10. MessagesAfter(r, next, GhostMessage(dir, sent))
  <2> DEFINE message == GhostMessage(dir, sent)
  <2>1. channel' = Put(LeftBy(r), r, next, message)
    BY <1>6
  <2> HIDE DEF message
  <2>2. MessagesAfter(r, next, message)
    BY <1>1, <1>7, <2>1, Sends
  <2> QED
    BY <2>2 DEF message
<1>11. Remembers(r, dir, TagList(sent))
  <2> DEFINE list == TagList(sent)
             lists == [copyGhosts[r] EXCEPT ![dir] = list]
  <2>1. copyGhosts' = [copyGhosts EXCEPT ![r] = lists]
    BY <1>6
  <2> HIDE DEF list
  <2>2. lists[dir] = list /\ \A d \in Directions \ {dir} : lists[d] = copyGhosts[r][d]
    BY <1>5, <1>7
  <2> HIDE DEF lists
  <2>3. Remembers(r, dir, list)
    BY <1>5, <2>1, <2>2 DEF Remembers
  <2> QED
    BY <2>3 DEF list
<1> QED
  BY <1>2, <1>9, <1>10, <1>11 DEF sent, all, mine, copies, dir, next

LEMMA ExchangeEnds ==
  ASSUME RoundOrder, NEW r \in Ranks, NEW new, NEW plans, ExchangeStep(r, new, plans),
         stage[r] = Len(Route)
  PROVE  copyGhosts' = copyGhosts /\ NoMessageMore /\ \A s \in Ranks : Announced(s)' = Announced(s)
<1>1. GoesOn(r) /\ SendGhosts(r, stage[r] + 1, ghosts'[r], plans, LeftBy(r))
  BY DEF ExchangeStep
<1>2. copyGhosts' = copyGhosts /\ channel' = LeftBy(r)
  BY <1>1, SendGhostsEnds
<1>3. NoMessageMore
  BY <1>1, <1>2, SendsNone
<1> QED
  BY <1>2, <1>3, ExchangeProgress

LEMMA ExchangeListPlaces ==
  ASSUME RoundOrder, Owned, CopyLists, CopyPlaces, NEW r \in Ranks, NEW new, NEW plans,
         ExchangeStep(r, new, plans), TrueArrivals(r, new, plans)
  PROVE  \A s \in Ranks : ListPlaces(s)'
<1>1. Home' = Home /\ Way' = Way /\ moves' = moves /\ moves = 0
  BY SamePlaces DEF ExchangeStep
<1>2. stage[r] \in 0 .. Len(Route) /\ Len(Route) \in Nat /\ DOMAIN Route = 1 .. Len(Route)
  BY ExchangeProgress, RouteShape
<1>3. \A s \in Ranks : \A l \in 1 .. Announced(s) : copyGhosts'[s][Route[l]] = copyGhosts[s][Route[l]]
  BY ExchangeFrame DEF CopyLists
<1>4. ASSUME NEW s \in Ranks, NEW l \in 1 .. Announced(s)
      PROVE  /\ Different(copyGhosts'[s][Route[l]])
             /\ OnTheWay(s, copyGhosts'[s][Route[l]], Route[l], Home', Way', l - 1)
  <2>1. Different(copyGhosts[s][Route[l]]) /\ OnTheWay(s, copyGhosts[s][Route[l]], Route[l], Home, Way, l - 1)
    BY <1>1 DEF CopyPlaces, ListPlaces
  <2> QED
    BY <1>1, <1>3, <2>1
<1>5. CASE stage[r] = Len(Route)
  <2>1. \A s \in Ranks : Announced(s)' = Announced(s)
    BY <1>5, ExchangeEnds
  <2> QED
    BY <1>1, <1>4, <2>1 DEF ListPlaces
<1>6. CASE stage[r] # Len(Route)
  <2>1. PICK k \in DOMAIN Route : k = stage[r] + 1
    BY <1>2, <1>6
  <2> DEFINE all == ptls[r] \o ghosts'[r]
             marked == Marked(all, plans)
             dir == Route[k]
             sent == SentIn(dir, marked)
  <2>2. SentKnown(sent, all, plans, dir) /\ Remembers(r, dir, TagList(sent)) /\ Announced(r)' = k /\ k \in Nat /\ k >= 1
    BY <2>1, ExchangeSends
  <2>3. TagsApart(all) /\ PlacedIn(r, all, Home, Way, k - 1)
    <3> DEFINE joined == Arrays(r) \o new
               n == stage[r]
    <3>1. all = joined /\ TagsApart(joined) /\ PlacedIn(r, joined, Home, Way, n)
      BY ExchangeArrays
    <3>2. n = k - 1
      BY <2>1, <1>2
    <3> HIDE DEF all, joined, n
    <3> QED
      BY <3>1, <3>2
  <2>4. PlansAre(plans, all, Way) /\ DOMAIN plans = DOMAIN all
    <3> DEFINE mine == ptls[r]
               copies == ghosts'[r]
    <3>1. mine \in Seq(Located) /\ copies \in Seq(Located) /\ Len(plans) = Len(mine) + Len(copies)
          /\ plans \in Seq(SUBSET Communicating) /\ all = mine \o copies
      BY ExchangeFrame DEF ListTypes, Owned, CopyLists, ExchangeStep
    <3> HIDE DEF mine, copies, all
    <3>2. DOMAIN plans = 1 .. Len(plans) /\ DOMAIN all = 1 .. Len(mine) + Len(copies)
      BY <3>1, Joined, LenProperties
    <3>3. PlansAre(plans, mine \o copies, Way)
      BY DEF TrueArrivals, mine, copies
    <3> QED
      BY <3>1, <3>2, <3>3
  <2> HIDE DEF sent, marked, all, dir
  <2>5. \A s \in Ranks : \A l \in 1 .. Announced(s)' : l \in 1 .. Announced(s) \/ (s = r /\ l = k)
    BY <2>1, <2>2, ExchangeProgress
  <2>6. \A j \in DOMAIN sent : \E i \in DOMAIN all :
          /\ dir \in plans[i] /\ sent[j].ptl = all[i]
          /\ i = Nth(BoundFor(dir, Marked(all, plans)), j)
    BY <2>2 DEF SentKnown
  <2>7. \A j, l \in DOMAIN sent :
          Nth(BoundFor(dir, Marked(all, plans)), j) = Nth(BoundFor(dir, Marked(all, plans)), l) => j = l
    BY <2>2 DEF SentKnown
  <2> DEFINE list == TagList(sent)
  <2>8. DOMAIN list = DOMAIN sent /\ \A j \in DOMAIN list : list[j] = sent[j].ptl.tag
    BY DEF TagList
  <2> HIDE DEF list
  <2>9. Different(list)
    <3>1. ASSUME NEW j \in DOMAIN list, NEW l \in DOMAIN list, list[j] = list[l]
          PROVE  j = l
      <4>1. PICK i \in DOMAIN all : sent[j].ptl = all[i] /\ i = Nth(BoundFor(dir, Marked(all, plans)), j)
        BY <2>6, <2>8
      <4>2. PICK i2 \in DOMAIN all : sent[l].ptl = all[i2] /\ i2 = Nth(BoundFor(dir, Marked(all, plans)), l)
        BY <2>6, <2>8
      <4>3. i = i2
        BY <2>3, <2>8, <3>1, <4>1, <4>2 DEF TagsApart
      <4> QED
        BY <2>7, <2>8, <4>1, <4>2, <4>3
    <3> QED
      BY <3>1 DEF Different
  <2>10. OnTheWay(r, list, dir, Home, Way, k - 1)
    <3>1. ASSUME NEW j \in DOMAIN list
          PROVE  dir \in Way[list[j]] /\ Reached(r, Home[list[j]], Way[list[j]], k - 1)
      <4>1. PICK i \in DOMAIN all : dir \in plans[i] /\ sent[j].ptl = all[i]
        BY <2>6, <2>8
      <4>2. plans[i] = Way[all[i].tag] /\ list[j] = all[i].tag
        BY <2>4, <2>8, <4>1 DEF PlansAre
      <4>3. Reached(r, Home[all[i].tag], Way[all[i].tag], k - 1)
        BY <2>3 DEF PlacedIn
      <4> QED
        BY <4>1, <4>2, <4>3
    <3> QED
      BY <3>1 DEF OnTheWay
  <2>11. copyGhosts'[r][dir] = list
    BY <2>2 DEF Remembers, list
  <2>12. ASSUME NEW s \in Ranks, NEW l \in 1 .. Announced(s)'
         PROVE  /\ Different(copyGhosts'[s][Route[l]])
                /\ OnTheWay(s, copyGhosts'[s][Route[l]], Route[l], Home', Way', l - 1)
    <3>1. CASE l \in 1 .. Announced(s)
      BY <1>4, <3>1
    <3>2. CASE s = r /\ l = k
      BY <1>1, <2>9, <2>10, <2>11, <3>2 DEF dir
    <3> QED
      BY <2>5, <3>1, <3>2
  <2> QED
    BY <2>12 DEF ListPlaces
<1> QED
  BY <1>5, <1>6

\* All messages are of the kind of the round.
LEMMA MessageKinds ==
  ASSUME RoundOrder, NEW from \in Ranks, NEW to \in Ranks, NEW i \in DOMAIN channel[<<from, to>>]
  PROVE  channel[<<from, to>>][i].kind = Kind
<1> DEFINE kinds == {Kind}
           list == channel[<<from, to>>]
           a == RoundClock[from]
           b == RoundClock[to]
<1>1. InOrder(kinds, list, from, to, a, b)
  BY DEF RoundOrder, AllInOrder
<1> HIDE DEF kinds, list, a, b
<1>2. \A j \in DOMAIN list : list[j].kind \in kinds
  BY <1>1 DEF InOrder
<1> QED
  BY <1>2 DEF kinds, list

LEMMA ExchangeTrue ==
  ASSUME RoundOrder, Owned, CopyLists, CopyPlaces, NEW r \in Ranks, NEW new, NEW plans,
         ExchangeStep(r, new, plans), TrueArrivals(r, new, plans),
         \A i \in DOMAIN (ptls[r] \o ghosts'[r]) :
             Congruent((ptls[r] \o ghosts'[r])[i].pos, OwnPosition[(ptls[r] \o ghosts'[r])[i].tag])
  PROVE  AllTrue'
<1>1. /\ Way' = Way /\ OwnPosition' = OwnPosition /\ Kind = "ghosts"
  BY SamePlaces DEF ExchangeStep, Kind
<1>2. stage[r] \in 0 .. Len(Route) /\ Len(Route) \in Nat /\ DOMAIN Route = 1 .. Len(Route)
  BY ExchangeProgress, RouteShape
<1>3. ASSUME NEW from \in Ranks, NEW to \in Ranks, NEW j \in DOMAIN channel[<<from, to>>]
      PROVE  /\ TrueGhosts(channel[<<from, to>>][j], Way', OwnPosition')
             /\ TruePositions(channel[<<from, to>>][j], copyGhosts'[from], OwnPosition')
  <2>1. TrueGhosts(channel[<<from, to>>][j], Way, OwnPosition)
    BY DEF CopyPlaces, AllTrue
  <2>2. channel[<<from, to>>][j].kind = "ghosts"
    BY <1>1, MessageKinds
  <2> QED
    BY <1>1, <2>1, <2>2 DEF TruePositions
<1>4. CASE stage[r] = Len(Route)
  <2>1. NoMessageMore
    BY <1>4, ExchangeEnds
  <2>2. ASSUME NEW from \in Ranks, NEW to \in Ranks, NEW i \in DOMAIN channel'[<<from, to>>]
        PROVE  /\ TrueGhosts(channel'[<<from, to>>][i], Way', OwnPosition')
               /\ TruePositions(channel'[<<from, to>>][i], copyGhosts'[from], OwnPosition')
    BY <1>3, <2>1 DEF NoMessageMore
  <2> QED
    BY <2>2, Zenon DEF AllTrue
<1>5. CASE stage[r] # Len(Route)
  <2>1. PICK k \in DOMAIN Route : k = stage[r] + 1
    BY <1>2, <1>5
  <2> DEFINE all == ptls[r] \o ghosts'[r]
             marked == Marked(all, plans)
             dir == Route[k]
             sent == SentIn(dir, marked)
             message == GhostMessage(dir, sent)
             next == NeighborRank(r, dir)
  <2>2. SentKnown(sent, all, plans, dir) /\ MessagesAfter(r, next, message)
    BY <2>1, ExchangeSends
  <2>3. /\ PlansAre(plans, all, Way) /\ DOMAIN plans = DOMAIN all
        /\ \A i \in DOMAIN all : Congruent(all[i].pos, OwnPosition[all[i].tag])
    <3>0. \A i \in DOMAIN all : Congruent(all[i].pos, OwnPosition[all[i].tag])
      OBVIOUS
    <3> DEFINE mine == ptls[r]
               copies == ghosts'[r]
    <3>1. mine \in Seq(Located) /\ copies \in Seq(Located) /\ Len(plans) = Len(mine) + Len(copies)
          /\ plans \in Seq(SUBSET Communicating) /\ all = mine \o copies
      BY ExchangeFrame DEF ListTypes, Owned, CopyLists, ExchangeStep
    <3>3. PlansAre(plans, all, Way)
      BY DEF TrueArrivals
    <3> HIDE DEF mine, copies, all
    <3>2. DOMAIN plans = 1 .. Len(plans) /\ DOMAIN all = 1 .. Len(mine) + Len(copies)
      BY <3>1, Joined, LenProperties
    <3> QED
      BY <3>0, <3>1, <3>2, <3>3
  <2>4. message.kind = "ghosts" /\ message.data = sent
    BY DEF GhostMessage
  <2> HIDE DEF sent, marked, all, dir, message, next
  <2>5. \A j \in DOMAIN sent : \E i \in DOMAIN all : sent[j].ptl = all[i] /\ sent[j].plan = plans[i]
    BY <2>2 DEF SentKnown
  <2>6. TrueGhosts(message, Way, OwnPosition) /\ TruePositions(message, copyGhosts'[r], OwnPosition)
    <3>1. ASSUME NEW j \in DOMAIN sent
          PROVE  sent[j].plan = Way[sent[j].ptl.tag] /\ Congruent(sent[j].ptl.pos, OwnPosition[sent[j].ptl.tag])
      <4>1. PICK i \in DOMAIN all : sent[j].ptl = all[i] /\ sent[j].plan = plans[i]
        BY <2>5
      <4> QED
        BY <2>3, <4>1 DEF PlansAre
    <3> QED
      BY <2>4, <3>1 DEF TrueGhosts, TruePositions
  <2>7. ASSUME NEW from \in Ranks, NEW to \in Ranks, NEW i \in DOMAIN channel'[<<from, to>>]
        PROVE  /\ TrueGhosts(channel'[<<from, to>>][i], Way', OwnPosition')
               /\ TruePositions(channel'[<<from, to>>][i], copyGhosts'[from], OwnPosition')
    <3>1. \/ \E j \in DOMAIN channel[<<from, to>>] : channel'[<<from, to>>][i] = channel[<<from, to>>][j]
          \/ from = r /\ to = next /\ channel'[<<from, to>>][i] = message
      BY <2>2 DEF MessagesAfter
    <3> QED
      BY <1>1, <1>3, <2>6, <3>1
  <2> QED
    BY <2>7, Zenon DEF AllTrue
<1> QED
  BY <1>4, <1>5

LEMMA ExchangeCurrent ==
  ASSUME RoundOrder, Owned, CopyLists, CopyPlaces, NEW r \in Ranks, NEW new, NEW plans,
         ExchangeStep(r, new, plans), TrueArrivals(r, new, plans)
  PROVE  /\ \A s \in Ranks : CurrentGhosts(s, ghosts'[s], OwnPosition', Updated(s)')
         /\ \A i \in DOMAIN (ptls[r] \o ghosts'[r]) :
                Congruent((ptls[r] \o ghosts'[r])[i].pos, OwnPosition[(ptls[r] \o ghosts'[r])[i].tag])
<1>1. OwnPosition' = OwnPosition /\ moves' = moves /\ moves = 0 /\ ptls' = ptls
  BY SamePlaces DEF ExchangeStep
<1>2. /\ \A s \in Ranks \ {r} : ghosts'[s] = ghosts[s]
      /\ ghosts' = [ghosts EXCEPT ![r] = ghosts[r] \o new] /\ new \in Seq(Located)
      /\ ghosts \in [Ranks -> Seq(Located)] /\ \A j \in DOMAIN new : Mirrors(r, new[j].pos, OwnPosition[new[j].tag])
  BY ExchangeFrame DEF CopyLists, ListTypes, ExchangeStep, TrueArrivals
<1>3. ASSUME NEW s \in Ranks, NEW i \in DOMAIN ghosts[s]
      PROVE  Mirrors(s, ghosts[s][i].pos, OwnPosition[ghosts[s][i].tag])
  <2>1. CurrentGhosts(s, ghosts[s], OwnPosition, Updated(s)) /\ Updated(s) = Len(ghosts[s])
    BY <1>1 DEF CopyPlaces, Updated
  <2>2. i <= Len(ghosts[s])
    BY <1>2, LenProperties
  <2> QED
    BY <2>1, <2>2 DEF CurrentGhosts
<1>4. ASSUME NEW i \in DOMAIN ghosts'[r]
      PROVE  Mirrors(r, ghosts'[r][i].pos, OwnPosition[ghosts'[r][i].tag])
  <2> DEFINE b == ghosts[r]
  <2>1. b \in Seq(Located) /\ ghosts'[r] = b \o new
    BY <1>2
  <2>2. \A j \in DOMAIN b : Mirrors(r, b[j].pos, OwnPosition[b[j].tag])
    BY <1>3
  <2> HIDE DEF b
  <2>3. /\ \A j \in DOMAIN b : (b \o new)[j] = b[j]
        /\ \A j \in DOMAIN (b \o new) :
                \/ j \in DOMAIN b
                \/ j - Len(b) \in DOMAIN new /\ (b \o new)[j] = new[j - Len(b)]
    BY <1>2, <2>1, Joined
  <2> QED
    BY <1>2, <2>1, <2>2, <2>3
<1>5. ASSUME NEW s \in Ranks
      PROVE  CurrentGhosts(s, ghosts'[s], OwnPosition', Updated(s)')
  <2>1. CASE s = r
    BY <1>1, <1>4, <2>1 DEF CurrentGhosts
  <2>2. CASE s # r
    BY <1>1, <1>2, <1>3, <2>2 DEF CurrentGhosts
  <2> QED
    BY <2>1, <2>2
<1>6. ASSUME NEW i \in DOMAIN (ptls[r] \o ghosts'[r])
      PROVE  Congruent((ptls[r] \o ghosts'[r])[i].pos, OwnPosition[(ptls[r] \o ghosts'[r])[i].tag])
  <2> DEFINE a == ptls[r]
             b == ghosts'[r]
  <2>1. a \in Seq(Located) /\ b \in Seq(Located)
    BY ExchangeFrame DEF ListTypes, Owned, CopyLists
  <2>2. ASSUME NEW j \in DOMAIN a
        PROVE  Congruent(a[j].pos, OwnPosition[a[j].tag])
    BY OwnerIs, CongruentToItself
  <2>3. \A j \in DOMAIN b : Congruent(b[j].pos, OwnPosition[b[j].tag])
    BY <1>4 DEF Mirrors
  <2>4. i \in DOMAIN (a \o b)
    OBVIOUS
  <2> HIDE DEF a, b
  <2>5. /\ \A j \in DOMAIN a : (a \o b)[j] = a[j]
        /\ \A j \in DOMAIN (a \o b) :
                \/ j \in DOMAIN a
                \/ j - Len(a) \in DOMAIN b /\ (a \o b)[j] = b[j - Len(a)]
    BY <2>1, Joined
  <2>6. Congruent((a \o b)[i].pos, OwnPosition[(a \o b)[i].tag])
    BY <2>2, <2>3, <2>4, <2>5
  <2> QED
    BY <2>6 DEF a, b
<1> QED
  BY <1>5, <1>6

LEMMA ExchangeKeepsPlaces ==
  ASSUME RoundOrder, Owned, CopyLists, CopyPlaces, NEW r \in Ranks, NEW new, NEW plans,
         ExchangeStep(r, new, plans), TrueArrivals(r, new, plans)
  PROVE  CopyPlaces'
<1>1. \A s \in Ranks : ArrayPlaces(s)'
  BY ExchangeArrayPlaces
<1>2. \A s \in Ranks : ListPlaces(s)'
  BY ExchangeListPlaces
<1>3. \A s \in Ranks : CurrentGhosts(s, ghosts'[s], OwnPosition', Updated(s)')
  BY ExchangeCurrent
<1>4. AllTrue'
  BY ExchangeCurrent, ExchangeTrue
<1>5. DOMAIN rtag' = Ranks
  <2>1. (rtag' = rtag) \/ (rtag' = [rtag EXCEPT ![r] = Indexed(rtag[r], ptls[r] \o ghosts'[r])])
    BY DEF TrueArrivals
  <2> QED
    BY <2>1 DEF CopyPlaces
<1> QED
  BY <1>1, <1>2, <1>3, <1>4, <1>5 DEF CopyPlaces

\* The two steps of an exchange.
LEMMA BeginIsTrue ==
  ASSUME RoundOrder, Owned, CopyLists, CopyPlaces, NEW r \in Ranks, Step(r), communicator = "CPU",
         BeginExchange(r, LayerWidth)
  PROVE  \E new, plans : ExchangeStep(r, new, plans) /\ TrueArrivals(r, new, plans)
<1>1. /\ ExchangeStep(r, <<>>, MarkedPlans(r))
  BY BeginIsExchangeStep
<1>2. rtag' = rtag /\ phase[r] = "migrated" /\ ghosts' = ghosts
  BY DEF BeginExchange
<1>3. stage[r] = 0
  BY <1>2, RoundOf
<1>4. ghosts[r] = <<>> /\ ptls[r] \in Seq(Located) /\ ptls[r] \o ghosts'[r] = ptls[r]
  <2>1. ghosts \in [Ranks -> Seq(Located)] /\ ptls[r] \in Seq(Located)
    BY DEF CopyLists, ListTypes, Owned
  <2>2. Len(ghosts[r]) = Total(numRecv[r], 0 + 1) /\ numRecv[r] \in [Directions -> Nat]
    BY <1>2, ProgressIs, RoundOf DEF CopyLists, ListsOf, ListTypes
  <2>3. Len(ghosts[r]) = 0
    BY <2>2, TotalFirst
  <2>4. ghosts[r] = <<>>
    BY <2>1, <2>3, EmptySeq
  <2> QED
    BY <1>2, <2>1, <2>4, ConcatEmptySeq
<1>5. ASSUME NEW i \in DOMAIN ptls[r]
      PROVE  MarkedPlans(r)[i] = Way[ptls[r][i].tag]
  <2>1. /\ ptls[r][i].tag \in Tags /\ Owner(ptls[r][i].tag) = r /\ Own(ptls[r][i].tag) = ptls[r][i]
    BY OwnerIs
  <2> QED
    BY <2>1 DEF Way, MarkedPlans
<1>6. PlansAre(MarkedPlans(r), ptls[r] \o ghosts'[r], Way)
  BY <1>4, <1>5 DEF PlansAre, MarkedPlans
<1> QED
  BY <1>1, <1>2, <1>3, <1>6 DEF TrueArrivals

LEMMA ReceiveIsTrue ==
  ASSUME RoundOrder, Owned, CopyLists, CopyPlaces, NEW r \in Ranks, Step(r), communicator = "CPU",
         ReceiveGhosts(r, LayerWidth)
  PROVE  \E new, plans : ExchangeStep(r, new, plans) /\ TrueArrivals(r, new, plans)
<1> DEFINE data == Message(r).data
           new == Arriving(data, r)
           plans == plan[r] \o PlansOf(data)
<1>1. ExchangeStep(r, new, plans)
  BY ReceiveIsExchangeStep
<1>2. /\ phase[r] = "exchange" /\ Arrived(r)
      /\ rtag' = [rtag EXCEPT ![r] = Indexed(@, ptls[r] \o ghosts'[r])]
  BY Zenon DEF ReceiveGhosts
<1>3. phase[r] = Working /\ Kind = "ghosts" /\ moves = 0
  BY <1>2, RoundOf DEF Kind
<1>4. /\ stage[r] \in DOMAIN Route /\ Source(r) = Src(r, stage[r]) /\ Source(r) \in Ranks
      /\ 1 \in DOMAIN channel[<<Source(r), r>>] /\ Message(r) = channel[<<Source(r), r>>][1]
      /\ Message(r).kind = "ghosts"
  BY <1>2, <1>3, Awaited
<1>5. stage[r] # 0
  BY <1>4, RouteShape
<1>6. TrueGhosts(Message(r), Way, OwnPosition)
  BY <1>4 DEF CopyPlaces, AllTrue
<1>7. \A j \in DOMAIN data : data[j].plan = Way[data[j].ptl.tag]
                             /\ Congruent(data[j].ptl.pos, OwnPosition[data[j].ptl.tag])
  BY <1>4, <1>6 DEF TrueGhosts
<1>8. data \in Seq(GhostData)
  BY <1>2, <1>3, AwaitedFits DEF CopyLists
<1> HIDE DEF data
<1>9. /\ new \in Seq(Located) /\ PlansOf(data) \in Seq(SUBSET Communicating)
      /\ Len(PlansOf(data)) = Len(data) /\ Len(data) \in Nat
      /\ DOMAIN new = DOMAIN data /\ DOMAIN PlansOf(data) = DOMAIN data
      /\ DOMAIN data = 1 .. Len(data)
      /\ \A i \in DOMAIN data :
            /\ data[i] \in GhostData /\ new[i].tag = data[i].ptl.tag
            /\ new[i].pos = WrapGhost(r, data[i].ptl.pos, LayerWidth)
            /\ PlansOf(data)[i] = data[i].plan
  BY <1>8, ArrivingIs
<1>10. ASSUME NEW j \in DOMAIN new
       PROVE  Mirrors(r, new[j].pos, OwnPosition[new[j].tag])
  <2> DEFINE x == data[j].ptl.pos
             y == OwnPosition[data[j].ptl.tag]
  <2>1. x \in [Axes -> Int] /\ data[j].ptl.tag \in Tags
    BY <1>9 DEF GhostData, Located
  <2>2. y \in [Axes -> Int] /\ Congruent(x, y)
    BY <1>7, <1>9, <2>1, OwnPositionIs
  <2> HIDE DEF x, y
  <2>3. Mirrors(r, WrapGhost(r, x, LayerWidth), y)
    BY <2>1, <2>2, WrapIs
  <2> QED
    BY <1>9, <2>3 DEF x, y
<1>11. ptls[r] \o ghosts'[r] = Arrays(r) \o new /\ Arrays(r) \in Seq(Located)
  BY <1>1, ExchangeArrays
<1>12. PlansAre(plan[r], Arrays(r), Way) /\ plan[r] \in Seq(SUBSET Communicating)
       /\ Len(plan[r]) = Len(ptls[r]) + Len(ghosts[r])
  BY <1>3 DEF CopyPlaces, ArrayPlaces, CopyLists, ListTypes, ListsOf
<1>13. Len(Arrays(r)) = Len(plan[r])
  <2> DEFINE a == ptls[r]
             b == ghosts[r]
  <2>1. a \in Seq(Located) /\ b \in Seq(Located) /\ Arrays(r) = a \o b /\ Len(plan[r]) = Len(a) + Len(b)
    BY <1>12 DEF Arrays, CopyLists, ListTypes, Owned
  <2> HIDE DEF a, b
  <2> QED
    BY <2>1, Joined
<1> DEFINE all == Arrays(r)
           more == PlansOf(data)
           old == plan[r]
<1>14. PlansAre(old \o more, all \o new, Way)
  <2>1. /\ all \in Seq(Located) /\ old \in Seq(SUBSET Communicating) /\ Len(all) = Len(old) /\ PlansAre(old, all, Way)
        /\ more \in Seq(SUBSET Communicating)
    BY <1>9, <1>11, <1>12, <1>13
  <2>2. \A j \in DOMAIN more : j \in DOMAIN new /\ more[j] = Way[new[j].tag]
    BY <1>7, <1>9
  <2>3. new \in Seq(Located)
    BY <1>9
  <2> HIDE DEF all, new, old, more
  <2>4. /\ Len(all) \in Nat /\ DOMAIN all = 1 .. Len(all)
        /\ \A i \in DOMAIN all : (all \o new)[i] = all[i]
        /\ \A i \in DOMAIN new : (all \o new)[Len(all) + i] = new[i]
    BY <2>1, <2>3, Joined
  <2>5. /\ DOMAIN old = 1 .. Len(old)
        /\ \A i \in DOMAIN old : (old \o more)[i] = old[i]
        /\ \A i \in DOMAIN (old \o more) :
              \/ i \in DOMAIN old
              \/ i - Len(old) \in DOMAIN more /\ (old \o more)[i] = more[i - Len(old)]
    BY <2>1, Joined
  <2>6. ASSUME NEW i \in DOMAIN (old \o more)
        PROVE  (old \o more)[i] = Way[(all \o new)[i].tag]
    <3>1. CASE i \in DOMAIN old
      BY <2>1, <2>4, <2>5, <3>1 DEF PlansAre
    <3>2. CASE i - Len(old) \in DOMAIN more /\ (old \o more)[i] = more[i - Len(old)]
      <4>1. PICK j \in DOMAIN more : j = i - Len(old)
        BY <3>2
      <4>2. i \in Int /\ Len(old) \in Int
        BY <2>1, Joined
      <4>3. i = Len(all) + j
        BY <2>1, <4>1, <4>2
      <4>4. (all \o new)[i] = new[j]
        BY <2>2, <2>4, <4>3
      <4> QED
        BY <2>2, <3>2, <4>1, <4>4
    <3> QED
      BY <2>5, <3>1, <3>2
  <2> QED
    BY <2>6 DEF PlansAre
<1>15. PlansAre(plans, ptls[r] \o ghosts'[r], Way)
  BY <1>11, <1>14
<1>16. TrueArrivals(r, new, plans)
  <2> HIDE DEF new, plans
  <2> QED
    BY <1>2, <1>5, <1>10, <1>15 DEF TrueArrivals
<1> QED
  BY <1>1, <1>16

-----------------------------------------------------------------------------
\* A state in which the lists of the exchange are in use.
Settled ==
    /\ \A s \in Ranks : Exchanged(s) = Len(Route) /\ Announced(s) = Len(Route) /\ plan[s] = <<>>

LEMMA SettledIs ==
  ASSUME RoundOrder, CopyLists, moves > 0 \/ AllCurrent
  PROVE  Settled
<1>1. ASSUME NEW s \in Ranks
      PROVE  Exchanged(s) = Len(Route) /\ Announced(s) = Len(Route) /\ plan[s] = <<>>
  <2>1. ListsOf(s) /\ moves \in Nat
    BY DEF CopyLists, RoundOrder
  <2>2. ~ (moves = 0 /\ phase[s] = Working)
    BY <2>1, KindIs DEF AllCurrent, RoundOrder
  <2> QED
    BY <2>1, <2>2 DEF ListsOf, Exchanged, Announced, AllCurrent
<1> QED
  BY <1>1 DEF Settled

LEMMA ListsKept ==
  ASSUME CopyLists, Settled, moves' > 0, UNCHANGED <<numRecv, copyGhosts, plan>>,
         ghosts' \in [Ranks -> Seq(Located)], ptls' \in [Ranks -> Seq(Located)],
         \A s \in Ranks : Len(ghosts'[s]) = Len(ghosts[s]),
         \A s \in Ranks : \A i \in DOMAIN ghosts[s] : ghosts'[s][i].tag = ghosts[s][i].tag,
         \A s \in Ranks : \A i \in DOMAIN ptls[s] : \E i2 \in DOMAIN ptls'[s] : ptls'[s][i2].tag = ptls[s][i].tag
  PROVE  ListTypes' /\ (\A s \in Ranks : ListsOf(s)') /\ \A s \in Ranks : Announced(s)' = Len(Route)
<1>1. ListTypes'
  BY DEF CopyLists, ListTypes
<1>2. \A s \in Ranks : Exchanged(s)' = Len(Route) /\ Announced(s)' = Len(Route)
  BY DEF Exchanged, Announced
<1>3. \A s \in Ranks : DOMAIN ghosts'[s] = DOMAIN ghosts[s]
  <2>1. ASSUME NEW s \in Ranks
        PROVE  DOMAIN ghosts'[s] = DOMAIN ghosts[s]
    <3>1. ghosts'[s] \in Seq(Located) /\ ghosts[s] \in Seq(Located) /\ Len(ghosts'[s]) = Len(ghosts[s])
      BY DEF CopyLists, ListTypes
    <3>2. DOMAIN ghosts'[s] = 1 .. Len(ghosts'[s]) /\ DOMAIN ghosts[s] = 1 .. Len(ghosts[s])
      BY <3>1, LenProperties
    <3> QED
      BY <3>1, <3>2
  <2> QED
    BY <2>1
<1>4. ASSUME NEW s \in Ranks
      PROVE  ListsOf(s)'
  <2>1. /\ Len(ghosts[s]) = Total(numRecv[s], Len(Route) + 1)
        /\ \A k \in 1 .. Len(Route) : FromList(s, k) /\ ToList(s, k)
        /\ plan[s] = <<>>
    BY DEF CopyLists, ListsOf, Settled
  <2>2. ASSUME NEW k \in 1 .. Len(Route)
        PROVE  FromList(s, k)'
    <3>1. FromList(s, k) /\ k <= Len(Route)
      BY <2>1
    <3>2. Src(s, k) \in Ranks /\ Announced(Src(s, k))' = Len(Route)
      BY <1>2, SrcIs, RouteShape
    <3>3. k <= Announced(Src(s, k))'
      BY <3>1, <3>2
    <3>4. numRecv' = numRecv /\ copyGhosts' = copyGhosts
      OBVIOUS
    <3>5. \A j \in DOMAIN copyGhosts[Src(s, k)][Route[k]] :
            /\ Total(numRecv[s], k) + j \in DOMAIN ghosts'[s]
            /\ ghosts'[s][Total(numRecv[s], k) + j].tag = copyGhosts[Src(s, k)][Route[k]][j]
      BY <1>3, <3>1 DEF FromList
    <3> QED
      BY <3>1, <3>3, <3>4, <3>5 DEF FromList
  <2>3. ASSUME NEW k \in 1 .. Len(Route)
        PROVE  ToList(s, k)'
    <3>1. \A j \in DOMAIN copyGhosts[s][Route[k]] :
             Known(ptls[s], ghosts[s], copyGhosts[s][Route[k]][j], Total(numRecv[s], k))
      BY <2>1 DEF ToList
    <3>2. \A j \in DOMAIN copyGhosts[s][Route[k]] :
             Known(ptls'[s], ghosts'[s], copyGhosts[s][Route[k]][j], Total(numRecv[s], k))
      <4>1. ASSUME NEW tag, NEW count, Known(ptls[s], ghosts[s], tag, count)
            PROVE  Known(ptls'[s], ghosts'[s], tag, count)
        BY <1>3, <4>1 DEF Known
      <4> QED
        BY <3>1, <4>1
    <3> QED
      BY <3>2 DEF ToList
  <2>4. plan'[s] = <<>> /\ ~ (moves' = 0 /\ phase'[s] = Working')
    BY <2>1
  <2> QED
    BY <1>2, <2>1, <2>2, <2>3, <2>4 DEF ListsOf
<1> QED
  BY <1>1, <1>2, <1>4

\* The particles keep their places in the arrays, or the ghosts do.
SameTags(a, b) == Len(a) = Len(b) /\ \A i \in DOMAIN a : a[i].tag = b[i].tag

LEMMA PlacesKept ==
  ASSUME NEW a \in Seq(Located), NEW b \in Seq(Located), NEW a2 \in Seq(Located), NEW b2 \in Seq(Located),
         SameTags(a, a2), SameTags(b, b2), TagsApart(a \o b)
  PROVE  /\ TagsApart(a2 \o b2) /\ Indexed(NoIndex, a \o b) = Indexed(NoIndex, a2 \o b2)
         /\ a2 \o b2 \in Seq(Located) /\ a \o b \in Seq(Located)
<1> DEFINE all == a \o b
           all2 == a2 \o b2
<1>1. /\ Len(a) \in Nat /\ Len(b) \in Nat /\ DOMAIN all = 1 .. Len(a) + Len(b)
      /\ DOMAIN a = 1 .. Len(a) /\ DOMAIN b = 1 .. Len(b) /\ all \in Seq(Located)
      /\ \A i \in DOMAIN all :
            \/ i \in DOMAIN a
            \/ i - Len(a) \in DOMAIN b /\ all[i] = b[i - Len(a)]
      /\ \A i \in DOMAIN a : all[i] = a[i]
  BY Joined
<1>2. /\ DOMAIN all2 = 1 .. Len(a2) + Len(b2) /\ all2 \in Seq(Located) /\ DOMAIN a2 = 1 .. Len(a2)
      /\ \A i \in DOMAIN a2 : all2[i] = a2[i]
      /\ \A i \in DOMAIN b2 : all2[Len(a2) + i] = b2[i]
      /\ DOMAIN b2 = 1 .. Len(b2)
  BY Joined
<1>0. /\ Len(a2) = Len(a) /\ Len(b2) = Len(b)
      /\ \A i \in DOMAIN a : a2[i].tag = a[i].tag
      /\ \A i \in DOMAIN b : b2[i].tag = b[i].tag
  BY DEF SameTags
<1> HIDE DEF all, all2
<1>3. DOMAIN all = DOMAIN all2
  BY <1>0, <1>1, <1>2
<1>4. ASSUME NEW i \in DOMAIN all
      PROVE  all[i].tag = all2[i].tag
  <2>1. CASE i \in DOMAIN a
    BY <1>0, <1>1, <1>2, <2>1
  <2>2. CASE i - Len(a) \in DOMAIN b /\ all[i] = b[i - Len(a)]
    <3>1. PICK j \in DOMAIN b : j = i - Len(a)
      BY <2>2
    <3>2. i \in Int /\ i = Len(a2) + j /\ j \in DOMAIN b2
      BY <1>0, <1>1, <1>2, <3>1
    <3> QED
      BY <1>0, <1>2, <2>2, <3>1, <3>2
  <2> QED
    BY <1>1, <2>1, <2>2
<1>5. TagsApart(all2)
  BY <1>3, <1>4 DEF TagsApart, all
<1>6. Indexed(NoIndex, all) = Indexed(NoIndex, all2)
  BY <1>3, <1>4, IndexedSame
<1> QED
  BY <1>1, <1>2, <1>5, <1>6 DEF all, all2

-----------------------------------------------------------------------------
\* The steps of an update: the positions of some ghosts are replaced by what has
\* come, and the rank sends in the next direction.
UpdateStep(r, copies) ==
    /\ communicator = "CPU" /\ moves > 0 /\ GoesOn(r) /\ (SendsNext(r) \/ EndsRound(r))
    /\ UNCHANGED <<ptls, moves, communicator, plan, rtag, copyGhosts, numRecv>>
    /\ ghosts' = [ghosts EXCEPT ![r] = copies]
    /\ copies \in Seq(Located) /\ Len(copies) = Len(ghosts[r])
    /\ \A i \in DOMAIN ghosts[r] : copies[i].tag = ghosts[r][i].tag
    /\ CurrentGhosts(r, copies, OwnPosition, IF stage[r] = 0 THEN 0 ELSE Total(numRecv[r], stage[r] + 1))
    /\ SendPositions(r, stage[r] + 1, ptls[r] \o copies, LeftBy(r))

LEMMA UpdateArrays ==
  ASSUME RoundOrder, Owned, CopyLists, CopyPlaces, NEW r \in Ranks, NEW copies, UpdateStep(r, copies)
  PROVE  /\ ListTypes' /\ (\A s \in Ranks : ListsOf(s)')
         /\ \A s \in Ranks : Announced(s)' = Len(Route) /\ Announced(s) = Len(Route)
         /\ \A s \in Ranks : ArrayPlaces(s)'
         /\ \A s \in Ranks : ListPlaces(s)'
         /\ \A s \in Ranks \ {r} : ghosts'[s] = ghosts[s]
         /\ ghosts'[r] = copies
<1>1. /\ moves > 0 /\ moves' = moves /\ ptls' = ptls /\ numRecv' = numRecv /\ copyGhosts' = copyGhosts
      /\ plan' = plan /\ rtag' = rtag
      /\ ghosts' = [ghosts EXCEPT ![r] = copies]
      /\ copies \in Seq(Located) /\ Len(copies) = Len(ghosts[r])
      /\ \A i \in DOMAIN ghosts[r] : copies[i].tag = ghosts[r][i].tag
  BY DEF UpdateStep
<1>2. ghosts \in [Ranks -> Seq(Located)] /\ ptls \in [Ranks -> Seq(Located)]
  BY DEF CopyLists, ListTypes, Owned
<1>3. /\ ghosts' \in [Ranks -> Seq(Located)] /\ ghosts'[r] = copies /\ \A s \in Ranks \ {r} : ghosts'[s] = ghosts[s]
  BY <1>1, <1>2
<1>4. /\ \A s \in Ranks : Len(ghosts'[s]) = Len(ghosts[s])
      /\ \A s \in Ranks : \A i \in DOMAIN ghosts[s] : ghosts'[s][i].tag = ghosts[s][i].tag
  BY <1>1, <1>3
<1>5. Settled /\ moves \in Nat
  BY <1>1, SettledIs DEF RoundOrder
<1>6. ListTypes' /\ (\A s \in Ranks : ListsOf(s)') /\ \A s \in Ranks : Announced(s)' = Len(Route)
  BY <1>1, <1>2, <1>3, <1>4, <1>5, ListsKept
<1>7. ASSUME NEW s \in Ranks
      PROVE  ArrayPlaces(s)'
  <2> DEFINE a == ptls[s]
             b == ghosts[s]
             b2 == ghosts'[s]
  <2>1. /\ a \in Seq(Located) /\ b \in Seq(Located) /\ b2 \in Seq(Located) /\ Len(b2) = Len(b)
        /\ TagsApart(a \o b) /\ \A i \in DOMAIN b : b2[i].tag = b[i].tag
        /\ rtag[s] = Indexed(NoIndex, a \o b)
    BY <1>2, <1>3, <1>4 DEF CopyPlaces, ArrayPlaces, Arrays
  <2>2. Arrays(s)' = a \o b2
    BY <1>1 DEF Arrays
  <2> HIDE DEF a, b, b2
  <2>3. TagsApart(a \o b2) /\ Indexed(NoIndex, a \o b) = Indexed(NoIndex, a \o b2)
    <3>1. SameTags(a, a) /\ SameTags(b, b2)
      BY <2>1 DEF SameTags
    <3>2. a \in Seq(Located) /\ b \in Seq(Located) /\ b2 \in Seq(Located) /\ TagsApart(a \o b)
      BY <2>1
    <3> QED
      BY <3>1, <3>2, PlacesKept
  <2> QED
    BY <1>1, <1>5, <2>1, <2>2, <2>3 DEF ArrayPlaces
<1>8. ASSUME NEW s \in Ranks
      PROVE  ListPlaces(s)'
  BY <1>1, <1>5, <1>6 DEF CopyPlaces, ListPlaces, Settled
<1> QED
  BY <1>3, <1>5, <1>6, <1>7, <1>8 DEF Settled

\* What is looked up in the arrays: the particles a list names, where they are.
LEMMA Found ==
  ASSUME NEW a \in Seq(Located), NEW b \in Seq(Located), TagsApart(a \o b), NEW tag, NEW count,
         Known(a, b, tag, count), NEW own, NEW r,
         \A i \in DOMAIN a : Congruent(a[i].pos, own[a[i].tag]), CurrentGhosts(r, b, own, count)
  PROVE  /\ (a \o b)[Indexed(NoIndex, a \o b)[tag] + 1].pos \in [Axes -> Int]
         /\ Congruent((a \o b)[Indexed(NoIndex, a \o b)[tag] + 1].pos, own[tag])
<1> DEFINE all == a \o b
<1>1. /\ all \in Seq(Located) /\ DOMAIN all = 1 .. Len(all) /\ Len(all) \in Nat
      /\ \A i \in DOMAIN a : i \in DOMAIN all /\ all[i] = a[i]
      /\ \A i \in DOMAIN b : Len(a) + i \in DOMAIN all /\ all[Len(a) + i] = b[i]
  BY Joined, LenProperties
<1>0. TagsApart(all)
  OBVIOUS
<1> HIDE DEF all
<1>2. PICK i \in DOMAIN all : all[i].tag = tag /\ Congruent(all[i].pos, own[tag])
  <2>1. CASE \E i \in DOMAIN a : a[i].tag = tag
    BY <1>1, <2>1
  <2>2. CASE \E i \in DOMAIN b : i <= count /\ b[i].tag = tag
    BY <1>1, <2>2 DEF CurrentGhosts, Mirrors
  <2> QED
    BY <2>1, <2>2 DEF Known
<1>3. Indexed(NoIndex, all)[tag] = i - 1
  BY <1>0, <1>1, <1>2, LookedUp
<1>4. Indexed(NoIndex, all)[tag] + 1 = i
  BY <1>1, <1>3
<1>5. all[i] \in Located
  BY <1>1, ElementOfSeq
<1> QED
  BY <1>2, <1>4, <1>5 DEF all, Located

\* The positions that are sent.
PositionsOf(all, index, list) == [i \in DOMAIN list |-> all[index[list[i]] + 1].pos]
PositionMessage(dir, data) == [kind |-> "positions", dir |-> dir, data |-> data]

LEMMA UpdateSends ==
  ASSUME RoundOrder, Owned, CopyLists, CopyPlaces, NEW r \in Ranks, NEW copies,
         UpdateStep(r, copies), NEW k \in DOMAIN Route, k = stage[r] + 1
  PROVE  /\ MessagesAfter(r, NeighborRank(r, Route[k]),
                PositionMessage(Route[k],
                    PositionsOf(ptls[r] \o copies, rtag[r], copyGhosts[r][Route[k]])))
         /\ PositionsOf(ptls[r] \o copies, rtag[r], copyGhosts[r][Route[k]]) \in Seq([Axes -> Int])
         /\ Len(PositionsOf(ptls[r] \o copies, rtag[r], copyGhosts[r][Route[k]])) = Len(copyGhosts[r][Route[k]])
         /\ \A j \in DOMAIN copyGhosts[r][Route[k]] :
               Congruent(PositionsOf(ptls[r] \o copies, rtag[r], copyGhosts[r][Route[k]])[j],
                         OwnPosition[copyGhosts[r][Route[k]][j]])
<1>1. /\ GoesOn(r) /\ SendPositions(r, k, ptls[r] \o copies, LeftBy(r)) /\ moves > 0
      /\ copies \in Seq(Located) /\ Len(copies) = Len(ghosts[r])
      /\ \A i \in DOMAIN ghosts[r] : copies[i].tag = ghosts[r][i].tag
      /\ CurrentGhosts(r, copies, OwnPosition, IF stage[r] = 0 THEN 0 ELSE Total(numRecv[r], stage[r] + 1))
  BY DEF UpdateStep
<1>2. Route[k] \in Directions /\ NeighborRank(r, Route[k]) \in Ranks /\ ~ (k > Len(Route)) /\ k \in Nat
  BY RouteDirections, SrcIs, RouteShape
<1>3. copyGhosts[r][Route[k]] \in Seq(Tags) /\ ptls[r] \in Seq(Located) /\ ghosts[r] \in Seq(Located)
      /\ numRecv[r] \in [Directions -> Nat]
  BY <1>2 DEF CopyLists, ListTypes, Owned
<1> DEFINE all == ptls[r] \o copies
           list == copyGhosts[r][Route[k]]
           data == PositionsOf(all, rtag[r], list)
           message == PositionMessage(Route[k], data)
           next == NeighborRank(r, Route[k])
<1>4. channel' = Put(LeftBy(r), r, next, message)
  BY <1>1, <1>2, Zenon DEF SendPositions, PositionMessage, PositionsOf
<1>5. MessagesAfter(r, next, message)
  <2> HIDE DEF message, next
  <2>1. next \in Ranks
    BY <1>2 DEF next
  <2> QED
    BY <1>1, <1>4, <2>1, Sends
<1>6. CurrentGhosts(r, copies, OwnPosition, Total(numRecv[r], k))
  <2>1. CASE stage[r] = 0
    <3>1. Total(numRecv[r], k) = 0
      BY <1>3, <2>1, TotalFirst
    <3> QED
      BY <1>1, <2>1, <3>1
  <2>2. CASE stage[r] # 0
    BY <1>1, <2>2
  <2> QED
    BY <2>1, <2>2
<1>7. \A j \in DOMAIN list : Known(ptls[r], copies, list[j], Total(numRecv[r], k))
  <2>1. k \in 1 .. Announced(r)
    BY <1>1, <1>2, SettledIs, RouteShape DEF Settled, RoundOrder
  <2>2. \A j \in DOMAIN list : Known(ptls[r], ghosts[r], list[j], Total(numRecv[r], k))
    BY <2>1 DEF CopyLists, ListsOf, ToList
  <2>3. DOMAIN copies = DOMAIN ghosts[r]
    BY <1>1, <1>3, LenProperties
  <2>4. ASSUME NEW tag, NEW count, Known(ptls[r], ghosts[r], tag, count)
        PROVE  Known(ptls[r], copies, tag, count)
    BY <1>1, <2>3, <2>4 DEF Known
  <2> HIDE DEF list
  <2> QED
    BY <2>2, <2>4
<1>8. TagsApart(all) /\ rtag[r] = Indexed(NoIndex, all)
  <2> DEFINE a == ptls[r]
             b == ghosts[r]
  <2>1. /\ a \in Seq(Located) /\ b \in Seq(Located) /\ copies \in Seq(Located)
        /\ SameTags(a, a) /\ SameTags(b, copies) /\ TagsApart(a \o b) /\ rtag[r] = Indexed(NoIndex, a \o b)
    BY <1>1, <1>3 DEF CopyPlaces, ArrayPlaces, Arrays, SameTags
  <2>2. all = a \o copies
    OBVIOUS
  <2> HIDE DEF a, b, all
  <2> QED
    BY <2>1, <2>2, PlacesKept
<1>9. \A i \in DOMAIN ptls[r] : Congruent(ptls[r][i].pos, OwnPosition[ptls[r][i].tag])
  BY OwnerIs, CongruentToItself
<1>10. ASSUME NEW j \in DOMAIN list
       PROVE  data[j] \in [Axes -> Int] /\ Congruent(data[j], OwnPosition[list[j]])
  <2> DEFINE a == ptls[r]
             tag == list[j]
             count == Total(numRecv[r], k)
             own == OwnPosition
  <2>1. /\ a \in Seq(Located) /\ copies \in Seq(Located) /\ TagsApart(a \o copies) /\ Known(a, copies, tag, count)
        /\ \A i \in DOMAIN a : Congruent(a[i].pos, own[a[i].tag]) /\ CurrentGhosts(r, copies, own, count)
    BY <1>1, <1>3, <1>6, <1>7, <1>8, <1>9
  <2>0. TagsApart(a \o copies) /\ Known(a, copies, tag, count) /\ CurrentGhosts(r, copies, own, count)
    BY <1>6, <1>7, <1>8
  <2>2. data[j] = (a \o copies)[Indexed(NoIndex, a \o copies)[tag] + 1].pos
    BY <1>8, Zenon DEF PositionsOf
  <2> HIDE DEF a, tag, count, own, data
  <2>3. /\ (a \o copies)[Indexed(NoIndex, a \o copies)[tag] + 1].pos \in [Axes -> Int]
        /\ Congruent((a \o copies)[Indexed(NoIndex, a \o copies)[tag] + 1].pos, own[tag])
    BY <2>0, <2>1, Found
  <2> QED
    BY <2>2, <2>3, Zenon DEF own, tag
<1>11. data \in Seq([Axes -> Int]) /\ Len(data) = Len(list)
  <2>1. Len(list) \in Nat /\ DOMAIN list = 1 .. Len(list) /\ DOMAIN data = DOMAIN list
    BY <1>3, LenProperties DEF PositionsOf
  <2>2. data = [i \in 1 .. Len(list) |-> data[i]]
    BY <2>1, Zenon DEF PositionsOf
  <2> HIDE DEF data, list
  <2>3. data \in [1 .. Len(list) -> [Axes -> Int]]
    BY <1>10, <2>1, <2>2
  <2>4. data \in Seq([Axes -> Int])
    BY <2>1, <2>3, SeqDef
  <2> QED
    BY <2>1, <2>3, <2>4, LenProperties
<1> QED
  BY <1>5, <1>10, <1>11

LEMMA UpdateMessages ==
  ASSUME RoundOrder, Owned, CopyLists, CopyPlaces, NEW r \in Ranks, NEW copies, UpdateStep(r, copies)
  PROVE  AllFit' /\ AllTrue'
<1>1. /\ Way' = Way /\ OwnPosition' = OwnPosition /\ Kind = "positions" /\ copyGhosts' = copyGhosts
      /\ GoesOn(r) /\ SendPositions(r, stage[r] + 1, ptls[r] \o copies, LeftBy(r))
  BY SamePlaces DEF UpdateStep, Kind, RoundOrder
<1>2. stage[r] \in 0 .. Len(Route) /\ Len(Route) \in Nat /\ DOMAIN Route = 1 .. Len(Route)
      /\ \A s \in Ranks : Announced(s)' = Announced(s) /\ Announced(s) = Len(Route)
  BY UpdateArrays, RouteShape DEF RoundOrder
<1>3. ASSUME NEW from \in Ranks, NEW to \in Ranks, NEW j \in DOMAIN channel[<<from, to>>]
      PROVE  /\ TrueGhosts(channel[<<from, to>>][j], Way', OwnPosition')
             /\ TruePositions(channel[<<from, to>>][j], copyGhosts'[from], OwnPosition')
             /\ Fits(Announced(from)', copyGhosts'[from], channel[<<from, to>>][j])
  <2>1. /\ TrueGhosts(channel[<<from, to>>][j], Way, OwnPosition)
        /\ TruePositions(channel[<<from, to>>][j], copyGhosts[from], OwnPosition)
    BY DEF CopyPlaces, AllTrue
  <2>2. Fits(Announced(from), copyGhosts[from], channel[<<from, to>>][j])
    BY DEF CopyLists, AllFit, FitsList
  <2>3. Announced(from)' = Announced(from)
    BY <1>2
  <2> QED
    BY <1>1, <2>1, <2>2, <2>3
<1>4. CASE stage[r] = Len(Route)
  <2>0. stage[r] + 1 > Len(Route)
    BY <1>2, <1>4
  <2>1. channel' = LeftBy(r)
    BY <1>1, <2>0, Zenon DEF SendPositions
  <2>2. NoMessageMore
    BY <1>1, <2>1, SendsNone
  <2>3. ASSUME NEW from \in Ranks, NEW to \in Ranks, NEW i \in DOMAIN channel'[<<from, to>>]
        PROVE  /\ TrueGhosts(channel'[<<from, to>>][i], Way', OwnPosition')
               /\ TruePositions(channel'[<<from, to>>][i], copyGhosts'[from], OwnPosition')
               /\ Fits(Announced(from)', copyGhosts'[from], channel'[<<from, to>>][i])
    BY <1>3, <2>2 DEF NoMessageMore
  <2> QED
    BY <2>3 DEF AllTrue, AllFit, FitsList
<1>5. CASE stage[r] # Len(Route)
  <2>1. PICK k \in DOMAIN Route : k = stage[r] + 1
    BY <1>2, <1>5
  <2> DEFINE list == copyGhosts[r][Route[k]]
             data == PositionsOf(ptls[r] \o copies, rtag[r], list)
             dir == Route[k]
             message == PositionMessage(dir, data)
             next == NeighborRank(r, dir)
  <2>2. /\ MessagesAfter(r, next, message) /\ data \in Seq([Axes -> Int]) /\ Len(data) = Len(list)
        /\ \A j \in DOMAIN list : Congruent(data[j], OwnPosition[list[j]])
    BY <2>1, UpdateSends
  <2>3. message.kind = "positions" /\ message.data = data /\ message.dir = dir
    BY DEF PositionMessage
  <2>4. dir \in Directions /\ k \in 1 .. Announced(r)' /\ dir = Route[k]
    BY <1>2, RouteDirections
  <2>5. DOMAIN data = DOMAIN list /\ list = copyGhosts'[r][dir]
    BY <1>1 DEF PositionsOf
  <2> HIDE DEF list, data, dir, message, next
  <2>6. /\ TrueGhosts(message, Way', OwnPosition') /\ TruePositions(message, copyGhosts'[r], OwnPosition')
    BY <1>1, <2>2, <2>3, <2>5 DEF TrueGhosts, TruePositions
  <2>7. Fits(Announced(r)', copyGhosts'[r], message)
    BY <2>2, <2>3, <2>4, <2>5 DEF Fits
  <2>8. ASSUME NEW from \in Ranks, NEW to \in Ranks, NEW i \in DOMAIN channel'[<<from, to>>]
        PROVE  /\ TrueGhosts(channel'[<<from, to>>][i], Way', OwnPosition')
               /\ TruePositions(channel'[<<from, to>>][i], copyGhosts'[from], OwnPosition')
               /\ Fits(Announced(from)', copyGhosts'[from], channel'[<<from, to>>][i])
    <3>1. \/ \E j \in DOMAIN channel[<<from, to>>] : channel'[<<from, to>>][i] = channel[<<from, to>>][j]
          \/ from = r /\ to = next /\ channel'[<<from, to>>][i] = message
      BY <2>2 DEF MessagesAfter
    <3>2. CASE \E j \in DOMAIN channel[<<from, to>>] : channel'[<<from, to>>][i] = channel[<<from, to>>][j]
      BY <1>3, <3>2
    <3>3. CASE from = r /\ to = next /\ channel'[<<from, to>>][i] = message
      BY <2>6, <2>7, <3>3
    <3> QED
      BY <3>1, <3>2, <3>3
  <2> QED
    BY <2>8 DEF AllTrue, AllFit, FitsList
<1> QED
  BY <1>4, <1>5

LEMMA UpdateKeepsPlaces ==
  ASSUME RoundOrder, Owned, CopyLists, CopyPlaces, NEW r \in Ranks, NEW copies, UpdateStep(r, copies)
  PROVE  CopyLists' /\ CopyPlaces'
<1>1. /\ ListTypes' /\ (\A s \in Ranks : ListsOf(s)')
      /\ \A s \in Ranks : ArrayPlaces(s)'
      /\ \A s \in Ranks : ListPlaces(s)'
      /\ \A s \in Ranks \ {r} : ghosts'[s] = ghosts[s]
      /\ ghosts'[r] = copies
  BY UpdateArrays
<1>2. AllFit' /\ AllTrue'
  BY UpdateMessages
<1>3. /\ moves > 0 /\ moves' = moves /\ OwnPosition' = OwnPosition /\ numRecv' = numRecv /\ rtag' = rtag
      /\ GoesOn(r) /\ SendPositions(r, stage[r] + 1, ptls[r] \o copies, LeftBy(r))
      /\ Len(copies) = Len(ghosts[r])
      /\ CurrentGhosts(r, copies, OwnPosition, IF stage[r] = 0 THEN 0 ELSE Total(numRecv[r], stage[r] + 1))
      /\ copies \in Seq(Located)
  BY SamePlaces DEF UpdateStep
<1>4. /\ stage \in [Ranks -> 0 .. Len(Route)] /\ Len(Route) \in Nat /\ Len(Route) # 0 /\ moves \in Nat
      /\ phase \in [Ranks -> {Beginning, Working, "current"}] /\ phase[r] # "current"
      /\ stage[r] \in 0 .. Len(Route)
  BY <1>3, RouteShape, KindIs DEF RoundOrder, GoesOn
<1>5. ASSUME NEW s \in Ranks
      PROVE  CurrentGhosts(s, ghosts'[s], OwnPosition', Updated(s)')
  <2>1. CASE s # r
    <3>1. phase'[s] = phase[s] /\ stage'[s] = stage[s]
      BY <1>3, <1>4, <2>1, Zenon DEF SendPositions
    <3>2. Updated(s)' = Updated(s) /\ ghosts'[s] = ghosts[s]
      BY <1>1, <1>3, <2>1, <3>1 DEF Updated
    <3> QED
      BY <1>3, <3>2 DEF CopyPlaces
  <2>2. CASE s = r /\ stage[r] = Len(Route)
    <3>1. CurrentGhosts(r, copies, OwnPosition, Total(numRecv[r], Len(Route) + 1))
      BY <1>3, <1>4, <2>2
    <3>2. Len(copies) = Total(numRecv[r], Len(Route) + 1)
      BY <1>3, <1>4, SettledIs DEF CopyLists, ListsOf, Settled
    <3>3. \A i \in DOMAIN copies : i <= Len(copies)
      BY <1>3, LenProperties
    <3> DEFINE count == Total(numRecv[r], Len(Route) + 1)
    <3>5. CurrentGhosts(r, copies, OwnPosition, count) /\ Len(copies) = count
      BY <3>1, <3>2
    <3> HIDE DEF count
    <3>4. \A i \in DOMAIN copies : Mirrors(r, copies[i].pos, OwnPosition[copies[i].tag])
      BY <3>3, <3>5 DEF CurrentGhosts
    <3> QED
      BY <1>1, <1>3, <2>2, <3>4 DEF CurrentGhosts
  <2>3. CASE s = r /\ stage[r] # Len(Route)
    <3>1. ~ (stage[r] + 1 > Len(Route)) /\ stage[r] + 1 # 0
      BY <1>4, <2>3
    <3>2. phase'[r] = "updating" /\ stage'[r] = stage[r] + 1
      BY <1>3, <1>4, <3>1, Zenon DEF SendPositions
    <3>3. Updated(r)' = Total(numRecv[r], stage[r] + 1)
      BY <1>3, <3>1, <3>2 DEF Updated
    <3>4. CASE stage[r] = 0
      <4>1. numRecv[r] \in [Directions -> Nat]
        BY DEF CopyLists, ListTypes
      <4>2. Total(numRecv[r], stage[r] + 1) = 0
        BY <3>4, <4>1, TotalFirst
      <4> QED
        BY <1>1, <1>3, <2>3, <3>3, <3>4, <4>2
    <3>5. CASE stage[r] # 0
      BY <1>1, <1>3, <2>3, <3>3, <3>5
    <3> QED
      BY <3>4, <3>5
  <2> QED
    BY <2>1, <2>2, <2>3
<1> QED
  BY <1>1, <1>2, <1>3, <1>5 DEF CopyLists, CopyPlaces

-----------------------------------------------------------------------------
\* updateGhosts(): the two steps of an update.
LEMMA BeginUpdateIs ==
  ASSUME RoundOrder, Owned, CopyLists, CopyPlaces, NEW r \in Ranks, Step(r), communicator = "CPU",
         BeginUpdate(r)
  PROVE  UpdateStep(r, ghosts[r])
<1>1. /\ phase[r] = "update" /\ SendPositions(r, 1, ptls[r] \o ghosts[r], channel)
      /\ UNCHANGED <<ptls, ghosts, plan, rtag, copyGhosts, numRecv>>
  BY DEF BeginUpdate
<1>2. /\ GoesOn(r) /\ (SendsNext(r) \/ EndsRound(r)) /\ UNCHANGED <<ptls, moves, communicator>>
  BY StepShape
<1>3. phase[r] = Beginning /\ moves > 0 /\ stage[r] = 0 /\ LeftBy(r) = channel
  BY <1>1, RoundOf DEF LeftBy
<1>4. ghosts \in [Ranks -> Seq(Located)] /\ ghosts' = [ghosts EXCEPT ![r] = ghosts[r]]
  BY <1>1 DEF CopyLists, ListTypes
<1>5. CurrentGhosts(r, ghosts[r], OwnPosition, 0)
  <2>1. \A i \in DOMAIN ghosts[r] : ~ (i <= 0)
    BY <1>4, LenProperties
  <2> QED
    BY <2>1 DEF CurrentGhosts
<1>6. SendPositions(r, stage[r] + 1, ptls[r] \o ghosts[r], LeftBy(r))
  BY <1>1, <1>3
<1>7. ghosts[r] \in Seq(Located)
  BY <1>4
<1> QED
  BY <1>1, <1>2, <1>3, <1>4, <1>5, <1>6, <1>7 DEF UpdateStep

\* What ReceivePositions() makes of the ghosts.
Overwritten(r, copies, start, data) ==
    [ i \in DOMAIN copies |->
        IF i - start \in DOMAIN data
        THEN Particle(copies[i].tag, WrapGhost(r, data[i - start], LayerWidth)) ELSE copies[i] ]

LEMMA ReceivePositionsIs ==
  ASSUME RoundOrder, Owned, CopyLists, CopyPlaces, NEW r \in Ranks, Step(r), communicator = "CPU",
         ReceivePositions(r, LayerWidth)
  PROVE  UpdateStep(r, Overwritten(r, ghosts[r], ReceivedBefore(r, Route[stage[r]]), Message(r).data))
<1> DEFINE start == ReceivedBefore(r, Route[stage[r]])
           data == Message(r).data
           copies == Overwritten(r, ghosts[r], start, data)
<1>1. /\ phase[r] = "updating" /\ Arrived(r) /\ ghosts' = [ghosts EXCEPT ![r] = copies]
      /\ SendPositions(r, stage[r] + 1, ptls[r] \o ghosts'[r], Taken(r))
      /\ UNCHANGED <<ptls, plan, rtag, copyGhosts, numRecv>>
  BY Zenon DEF ReceivePositions, Overwritten
<1>2. /\ GoesOn(r) /\ (SendsNext(r) \/ EndsRound(r)) /\ UNCHANGED <<ptls, moves, communicator>>
  BY StepShape
<1>3. /\ phase[r] = Working /\ moves > 0 /\ LeftBy(r) = Taken(r) /\ Kind = "positions"
      /\ stage[r] \in DOMAIN Route
  BY <1>1, RoundOf DEF LeftBy, Kind
<1>4. /\ ghosts \in [Ranks -> Seq(Located)] /\ ghosts[r] \in Seq(Located)
      /\ copyGhosts \in [Ranks -> [Directions -> Seq(Tags)]]
      /\ numRecv[r] \in [Directions -> Nat]
  BY DEF CopyLists, ListTypes
<1>5. PICK k \in DOMAIN Route : k = stage[r]
  BY <1>3
<1>6. /\ Source(r) = Src(r, k) /\ Src(r, k) \in Ranks /\ Route[k] \in Directions
      /\ 1 \in DOMAIN channel[<<Src(r, k), r>>] /\ Message(r) = channel[<<Src(r, k), r>>][1]
      /\ Message(r).kind = "positions" /\ Message(r).dir = Route[k]
  BY <1>1, <1>3, <1>5, Awaited, SrcIs
<1> DEFINE list == copyGhosts[Src(r, k)][Route[k]]
<1>7. data \in Seq([Axes -> Int]) /\ Len(data) = Len(list)
  BY <1>1, <1>3, <1>5, AwaitedFits DEF CopyLists
<1>8. \A j \in DOMAIN data : Congruent(data[j], OwnPosition[list[j]])
  <2>1. TruePositions(channel[<<Src(r, k), r>>][1], copyGhosts[Src(r, k)], OwnPosition)
    BY <1>6 DEF CopyPlaces, AllTrue
  <2> QED
    BY <1>6, <2>1 DEF TruePositions
<1>9. list \in Seq(Tags)
  BY <1>4, <1>6
<1>10. k \in 1 .. Exchanged(r) /\ k \in Nat /\ k \in 1 .. Len(Route) + 1
  BY <1>3, SettledIs, RouteShape DEF Settled, RoundOrder
<1>11. /\ \A j \in DOMAIN list : /\ Total(numRecv[r], k) + j \in DOMAIN ghosts[r]
                                 /\ ghosts[r][Total(numRecv[r], k) + j].tag = list[j]
       /\ numRecv[r][Route[k]] = Len(list)
  BY <1>10 DEF CopyLists, ListsOf, FromList
<1>12. start = Total(numRecv[r], k) /\ start \in Nat /\ Total(numRecv[r], k + 1) = start + Len(list)
  <2>1. start = Total(numRecv[r], k)
    BY <1>5, Zenon DEF ReceivedBefore, Total, SumBefore, Bound
  <2>2. Total(numRecv[r], k) \in Nat /\ Total(numRecv[r], k + 1) = Total(numRecv[r], k) + numRecv[r][Route[k]]
    BY <1>4, <1>10, TotalIs, TotalNext
  <2> DEFINE x == Total(numRecv[r], k)
             y == Total(numRecv[r], k + 1)
             z == numRecv[r][Route[k]]
  <2>3. start = x /\ x \in Nat /\ y = x + z /\ z = Len(list)
    BY <1>11, <2>1, <2>2
  <2> HIDE DEF start, list, x, y, z
  <2>4. start = x /\ start \in Nat /\ y = start + Len(list)
    BY <2>3
  <2> QED
    BY <2>4 DEF x, y
<1>13. CurrentGhosts(r, ghosts[r], OwnPosition, Total(numRecv[r], k))
  <2>1. CurrentGhosts(r, ghosts[r], OwnPosition, Updated(r))
    BY DEF CopyPlaces
  <2>2. Updated(r) = Total(numRecv[r], k)
    <3>1. phase[r] # "current" /\ k # 0 /\ moves # 0
      BY <1>1, <1>3, <1>10
    <3> QED
      BY <1>5, <3>1 DEF Updated
  <2> QED
    BY <2>1, <2>2
<1> HIDE DEF start, data, list
<1>14. /\ DOMAIN data = 1 .. Len(data) /\ DOMAIN list = 1 .. Len(list) /\ Len(list) \in Nat
       /\ DOMAIN ghosts[r] = 1 .. Len(ghosts[r]) /\ Len(ghosts[r]) \in Nat
       /\ \A i \in DOMAIN data : data[i] \in [Axes -> Int]
       /\ \A i \in DOMAIN ghosts[r] : ghosts[r][i] \in Located
  BY <1>4, <1>7, <1>9, LenProperties, ElementOfSeq
<1>15. ASSUME NEW i \in DOMAIN ghosts[r], i - start \in DOMAIN data
       PROVE  /\ copies[i] = Particle(ghosts[r][i].tag, WrapGhost(r, data[i - start], LayerWidth))
              /\ WrapGhost(r, data[i - start], LayerWidth) \in [Axes -> Int]
              /\ Mirrors(r, WrapGhost(r, data[i - start], LayerWidth), OwnPosition[ghosts[r][i].tag])
  <2>1. PICK j \in DOMAIN data : j = i - start
    BY <1>15
  <2>2. i = start + j /\ j \in DOMAIN list
    BY <1>7, <1>12, <1>14, <2>1
  <2>3. ghosts[r][i].tag = list[j] /\ ghosts[r][i].tag \in Tags
    BY <1>11, <1>12, <1>14, <2>2 DEF Located
  <2> DEFINE x == data[j]
             y == OwnPosition[ghosts[r][i].tag]
  <2>4. x \in [Axes -> Int] /\ y \in [Axes -> Int] /\ Congruent(x, y)
    BY <1>8, <1>14, <2>3, OwnPositionIs
  <2>5. copies[i] = Particle(ghosts[r][i].tag, WrapGhost(r, data[i - start], LayerWidth))
    BY <1>15 DEF Overwritten
  <2> HIDE DEF x, y
  <2>6. WrapGhost(r, x, LayerWidth) \in [Axes -> Int] /\ Mirrors(r, WrapGhost(r, x, LayerWidth), y)
    BY <2>4, WrapIs
  <2> QED
    BY <2>1, <2>5, <2>6 DEF x, y
<1>16. ASSUME NEW i \in DOMAIN ghosts[r], i - start \notin DOMAIN data
       PROVE  copies[i] = ghosts[r][i]
  BY <1>16 DEF Overwritten
<1>17. /\ DOMAIN copies = DOMAIN ghosts[r]
       /\ \A i \in DOMAIN ghosts[r] : copies[i] \in Located /\ copies[i].tag = ghosts[r][i].tag
       /\ copies = [i \in 1 .. Len(ghosts[r]) |-> copies[i]]
  <2>1. DOMAIN copies = DOMAIN ghosts[r] /\ copies = [i \in 1 .. Len(ghosts[r]) |-> copies[i]]
    BY <1>14 DEF Overwritten
  <2>2. ASSUME NEW i \in DOMAIN ghosts[r]
        PROVE  copies[i] \in Located /\ copies[i].tag = ghosts[r][i].tag
    <3> HIDE DEF copies
    <3>1. CASE i - start \in DOMAIN data
      <4> DEFINE tag == ghosts[r][i].tag
                 w == WrapGhost(r, data[i - start], LayerWidth)
      <4>1. copies[i] = Particle(tag, w) /\ w \in [Axes -> Int] /\ tag \in Tags
        BY <1>14, <1>15, <3>1 DEF Located
      <4> HIDE DEF tag, w
      <4>2. copies[i] \in Located /\ copies[i].tag = tag
        BY <4>1 DEF Particle, Located
      <4> QED
        BY <4>2 DEF tag
    <3>2. CASE i - start \notin DOMAIN data
      BY <1>14, <1>16, <3>2
    <3> QED
      BY <3>1, <3>2
  <2> QED
    BY <2>1, <2>2
<1> HIDE DEF copies
<1>18. copies \in Seq(Located) /\ Len(copies) = Len(ghosts[r])
  <2>1. copies \in [1 .. Len(ghosts[r]) -> Located]
    BY <1>14, <1>17
  <2>2. copies \in Seq(Located)
    BY <1>14, <2>1, SeqDef
  <2> QED
    BY <1>14, <2>1, <2>2, LenProperties
<1>19. CurrentGhosts(r, copies, OwnPosition, Total(numRecv[r], k + 1))
  <2>1. ASSUME NEW i \in DOMAIN ghosts[r], i <= Total(numRecv[r], k + 1)
        PROVE  Mirrors(r, copies[i].pos, OwnPosition[copies[i].tag])
    <3>1. CASE i - start \in DOMAIN data
      <4> DEFINE tag == ghosts[r][i].tag
                 w == WrapGhost(r, data[i - start], LayerWidth)
      <4>1. copies[i] = Particle(tag, w) /\ Mirrors(r, w, OwnPosition[tag]) /\ copies[i].tag = tag
        BY <1>15, <1>17, <3>1
      <4> HIDE DEF tag, w
      <4> QED
        BY <4>1 DEF Particle
    <3>2. CASE i - start \notin DOMAIN data
      <4>1. i <= start
        BY <1>7, <1>12, <1>14, <2>1, <3>2
      <4> QED
        BY <1>12, <1>13, <1>16, <3>2, <4>1 DEF CurrentGhosts
    <3> QED
      BY <3>1, <3>2
  <2> QED
    BY <1>17, <2>1 DEF CurrentGhosts
<1>20. CurrentGhosts(r, copies, OwnPosition, IF stage[r] = 0 THEN 0 ELSE Total(numRecv[r], stage[r] + 1))
  BY <1>5, <1>10, <1>19
<1>21. SendPositions(r, stage[r] + 1, ptls[r] \o copies, LeftBy(r))
  BY <1>1, <1>3, <1>4
<1> QED
  BY <1>1, <1>2, <1>3, <1>17, <1>18, <1>20, <1>21 DEF UpdateStep, copies, start, data

-----------------------------------------------------------------------------
(* Between the rounds: the particles move, or are put in another order, or  *)
(* all ranks begin again with what a migration has left.                    *)

NoPlans == plan = [r \in Ranks |-> <<>>]

Fresh ==
    /\ moves = 0 /\ phase = [r \in Ranks |-> "migrated"] /\ stage = [r \in Ranks |-> 0]
    /\ \E position \in [Tags -> [Axes -> Int]] : ptls = [r \in Ranks |-> HomeList(r, position)]
    /\ rtag = [r \in Ranks |-> Indexed(NoIndex, ptls[r])]
    /\ ghosts = [r \in Ranks |-> <<>>] /\ NoPlans /\ copyGhosts = Cleared
    /\ numRecv = [r \in Ranks |-> [dir \in Directions |-> 0]]
    /\ channel = [pair \in Ranks \X Ranks |-> <<>>]

LEMMA FreshPlaces ==
  RoundOrder /\ Fresh => Owned /\ CopyLists /\ CopyPlaces
<1> SUFFICES ASSUME RoundOrder, Fresh
             PROVE  Owned /\ CopyLists /\ CopyPlaces
  OBVIOUS
<1>1. /\ moves = 0 /\ phase = [r \in Ranks |-> "migrated"] /\ stage = [r \in Ranks |-> 0]
      /\ rtag = [r \in Ranks |-> Indexed(NoIndex, ptls[r])]
      /\ ghosts = [r \in Ranks |-> <<>>] /\ plan = [r \in Ranks |-> <<>>] /\ copyGhosts = Cleared
      /\ numRecv = [r \in Ranks |-> [dir \in Directions |-> 0]]
      /\ channel = [pair \in Ranks \X Ranks |-> <<>>]
  BY DEF Fresh, NoPlans
<1>2. Owned
  BY OwnedByHome DEF Fresh
<1>3. \A r \in Ranks : Exchanged(r) = 0 /\ Announced(r) = 0 /\ phase[r] # Working
  <2>1. ASSUME NEW r \in Ranks
        PROVE  Exchanged(r) = 0 /\ Announced(r) = 0 /\ phase[r] # Working
    <3>1. phase[r] = "migrated" /\ stage[r] = 0
      BY <1>1
    <3> QED
      BY <1>1, <3>1 DEF Exchanged, Announced, Working
  <2> QED
    BY <2>1
<1>4. ListTypes
  <2>1. <<>> \in Seq(Located) /\ <<>> \in Seq(SUBSET Communicating) /\ <<>> \in Seq(Tags)
    BY EmptySeq
  <2> QED
    BY <1>1, <2>1 DEF ListTypes, Cleared
<1>5. ASSUME NEW r \in Ranks
      PROVE  ListsOf(r)
  <2>1. numRecv[r] \in [Directions -> Nat] /\ ghosts[r] = <<>> /\ plan[r] = <<>>
    BY <1>1, <1>4 DEF ListTypes
  <2>2. Len(ghosts[r]) = Total(numRecv[r], 0 + 1)
    BY <2>1, TotalFirst, EmptySeq
  <2> QED
    BY <1>3, <2>1, <2>2 DEF ListsOf
<1>6. \A from, to \in Ranks : DOMAIN channel[<<from, to>>] = {}
  BY <1>1
<1>7. CopyLists
  BY <1>4, <1>5, <1>6 DEF CopyLists, AllFit
<1>8. ASSUME NEW r \in Ranks
      PROVE  ArrayPlaces(r)
  <2>1. Arrays(r) = ptls[r] /\ ptls[r] \in Seq(Located)
    <3>1. ghosts[r] = <<>> /\ ptls[r] \in Seq(Located)
      BY <1>1, <1>2 DEF Owned
    <3> QED
      BY <3>1, ConcatEmptySeq DEF Arrays
  <2>2. TagsApart(ptls[r])
    BY <1>2 DEF Owned, TagsApart
  <2>3. PlacedIn(r, ptls[r], Home, Way, 0)
    <3>1. ASSUME NEW i \in DOMAIN ptls[r]
          PROVE  Reached(r, Home[ptls[r][i].tag], Way[ptls[r][i].tag], 0)
      <4>1. Home[ptls[r][i].tag] = r
        BY <1>2, OwnerIs DEF Home
      <4> QED
        BY <4>1, ReachedFirst
    <3> QED
      BY <3>1 DEF PlacedIn
  <2>4. rtag[r] = Indexed(NoIndex, ptls[r])
    BY <1>1
  <2> QED
    BY <1>3, <2>1, <2>2, <2>3, <2>4 DEF ArrayPlaces
<1>9. ASSUME NEW r \in Ranks
      PROVE  ListPlaces(r)
  BY <1>3 DEF ListPlaces
<1>10. ASSUME NEW r \in Ranks
       PROVE  CurrentGhosts(r, ghosts[r], OwnPosition, Updated(r))
  BY <1>1 DEF CurrentGhosts
<1>11. AllTrue
  BY <1>6, Zenon DEF AllTrue
<1>12. DOMAIN rtag = Ranks
  BY <1>1
<1> QED
  BY <1>2, <1>7, <1>8, <1>9, <1>10, <1>11, <1>12 DEF CopyPlaces

LEMMA FreshPlacesNext ==
  RoundOrder' /\ Fresh' => Owned' /\ CopyLists' /\ CopyPlaces'
BY FreshPlaces, PTL

LEMMA FreshInit ==
  ASSUME LayerInit
  PROVE  Fresh
<1>1. PICK position \in [Tags -> Positions] : Placed(position)
  BY DEF LayerInit
<1>2. position \in [Tags -> [Axes -> Int]]
  <2>1. \A axis \in Axes : Cells(axis) \subseteq Int
    BY Boxes DEF Cells
  <2>2. 1 \in Axes /\ 2 \in Axes /\ 3 \in Axes
    BY DEF Axes
  <2>3. Positions \subseteq [Axes -> Int]
    BY <2>1, <2>2 DEF Positions
  <2> QED
    BY <2>3
<1>3. ptls = [r \in Ranks |-> HomeList(r, position)]
  BY <1>1, Zenon DEF Placed
<1>4. rtag = [r \in Ranks |-> Indexed(NoIndex, ptls[r])]
  <2>1. rtag = [r \in Ranks |-> Indexed(NoIndex, HomeList(r, position))]
    BY <1>1, Zenon DEF Placed
  <2>2. \A r \in Ranks : ptls[r] = HomeList(r, position)
    BY <1>3
  <2> QED
    BY <2>1, <2>2
<1>5. moves = 0 /\ phase = [r \in Ranks |-> "migrated"]
  BY DEF LayerInit
<1>6. /\ stage = [r \in Ranks |-> 0] /\ ghosts = [r \in Ranks |-> <<>>] /\ plan = [r \in Ranks |-> <<>>]
      /\ copyGhosts = Cleared /\ numRecv = [r \in Ranks |-> [dir \in Directions |-> 0]]
      /\ channel = [pair \in Ranks \X Ranks |-> <<>>]
  BY <1>1, Zenon DEF Placed
<1> QED
  BY <1>2, <1>3, <1>4, <1>5, <1>6 DEF Fresh, NoPlans

LEMMA FreshAfterMigration ==
  ASSUME RoundOrder, Owned, NoPlans, MoveAndMigrate
  PROVE  Fresh'
<1>1. AllCurrent
  BY DEF MoveAndMigrate
<1>2. PICK d \in Steps : Migrated([tag \in Tags |-> InBox(Displaced(Own(tag), d).pos)])
  BY Zenon DEF MoveAndMigrate
<1> DEFINE position == [tag \in Tags |-> InBox(Displaced(Own(tag), d).pos)]
<1>3. position \in [Tags -> [Axes -> Int]]
  <2>1. ASSUME NEW tag \in Tags
        PROVE  InBox(Displaced(Own(tag), d).pos) \in [Axes -> Int]
    <3>1. OwnPosition[tag] \in [Axes -> Int] /\ d \in [Axes -> Int]
      BY OwnPositionIs, LayerAssumption
    <3> DEFINE x == [axis \in Axes |-> OwnPosition[tag][axis] + d[axis]]
    <3>2. Displaced(Own(tag), d).pos = x
      BY DEF Displaced, Own, Particle
    <3>3. x \in [Axes -> Int]
      BY <3>1
    <3> HIDE DEF x
    <3>4. InBox(x) \in [Axes -> Int]
      BY <3>3, HomeIs
    <3> QED
      BY <3>2, <3>4
  <2> QED
    BY <2>1
<1>4. Migrated(position)
  BY <1>2
<1> HIDE DEF position
<1>5. /\ ptls' = [r \in Ranks |-> HomeList(r, position)]
      /\ ghosts' = [r \in Ranks |-> <<>>]
      /\ rtag' = [r \in Ranks |-> Indexed(NoIndex, ptls'[r])]
  BY <1>4, Zenon DEF Migrated
<1>6. /\ moves' = 0 /\ phase' = [r \in Ranks |-> "migrated"] /\ copyGhosts' = Cleared
      /\ numRecv' = [r \in Ranks |-> [dir \in Directions |-> 0]]
      /\ stage' = stage /\ plan' = plan /\ channel' = channel
  BY DEF MoveAndMigrate
<1>7. stage' = [r \in Ranks |-> 0] /\ channel' = [pair \in Ranks \X Ranks |-> <<>>]
  BY <1>1, <1>6, NothingOnItsWay, StageIs
<1> QED
  BY <1>3, <1>5, <1>6, <1>7 DEF Fresh, NoPlans, Cleared

\* What the moves between rounds have in common.
LEMMA BetweenRounds ==
  ASSUME RoundOrder, Owned, CopyLists, CopyPlaces, AllCurrent,
         moves' = moves + 1, phase' = [r \in Ranks |-> "update"],
         UNCHANGED <<stage, ghosts, plan, copyGhosts, numRecv, channel>>,
         ptls' \in [Ranks -> Seq(Located)], DOMAIN rtag' = Ranks,
         \A s \in Ranks : \A i \in DOMAIN ptls[s] : \E i2 \in DOMAIN ptls'[s] : ptls'[s][i2].tag = ptls[s][i].tag,
         \A s \in Ranks : TagsApart(ptls'[s] \o ghosts[s]) /\ rtag'[s] = Indexed(NoIndex, ptls'[s] \o ghosts[s])
  PROVE  CopyLists' /\ CopyPlaces'
<1>1. moves \in Nat /\ moves' > 0 /\ moves' # 0 /\ Settled
  BY SettledIs DEF RoundOrder
<1>2. ghosts' \in [Ranks -> Seq(Located)] /\ ghosts' = ghosts
  BY DEF CopyLists, ListTypes
<1>3. ListTypes' /\ (\A s \in Ranks : ListsOf(s)') /\ \A s \in Ranks : Announced(s)' = Len(Route)
  BY <1>1, <1>2, ListsKept
<1>4. \A from, to \in Ranks : DOMAIN channel'[<<from, to>>] = {}
  <2>1. \A from, to \in Ranks : channel'[<<from, to>>] = <<>>
    BY NothingOnItsWay, Zenon
  <2>2. DOMAIN <<>> = {}
    OBVIOUS
  <2> QED
    BY <2>1, <2>2, Zenon
<1>5. AllFit' /\ AllTrue'
  BY <1>4 DEF AllFit, AllTrue
<1>6. ASSUME NEW s \in Ranks
      PROVE  ArrayPlaces(s)'
  BY <1>1, <1>2 DEF ArrayPlaces, Arrays
<1>7. ASSUME NEW s \in Ranks
      PROVE  ListPlaces(s)'
  <2>1. \A k \in 1 .. Len(Route) : Different(copyGhosts[s][Route[k]])
    BY <1>1 DEF CopyPlaces, ListPlaces, Settled
  <2> QED
    BY <1>1, <1>3, <2>1 DEF ListPlaces
<1>8. ASSUME NEW s \in Ranks
      PROVE  CurrentGhosts(s, ghosts'[s], OwnPosition', Updated(s)')
  <2>1. phase'[s] = "update" /\ stage'[s] = 0
    BY NothingOnItsWay
  <2>2. Updated(s)' = 0
    BY <1>1, <2>1 DEF Updated
  <2>3. \A i \in DOMAIN ghosts'[s] : ~ (i <= 0)
    BY <1>2, LenProperties
  <2> QED
    BY <2>2, <2>3 DEF CurrentGhosts
<1> QED
  BY <1>3, <1>5, <1>6, <1>7, <1>8 DEF CopyLists, CopyPlaces

LEMMA MoveKeepsPlaces ==
  ASSUME RoundOrder, Owned, CopyLists, CopyPlaces, MoveAndUpdate
  PROVE  CopyLists' /\ CopyPlaces'
<1>1. /\ AllCurrent /\ moves' = moves + 1 /\ phase' = [r \in Ranks |-> "update"]
      /\ UNCHANGED <<stage, ghosts, plan, rtag, copyGhosts, numRecv, channel>>
  BY DEF MoveAndUpdate
<1>2. PICK d \in Steps :
        ptls' = [r \in Ranks |-> [i \in DOMAIN ptls[r] |-> Displaced(ptls[r][i], d)]]
  BY DEF MoveAndUpdate
<1>3. /\ Owned'
      /\ \A r \in Ranks : DOMAIN ptls'[r] = DOMAIN ptls[r] /\ Len(ptls'[r]) = Len(ptls[r])
      /\ \A r \in Ranks : \A i \in DOMAIN ptls[r] : ptls'[r][i].tag = ptls[r][i].tag
  BY <1>2, OwnedAfterMove
<1>4. ptls \in [Ranks -> Seq(Located)] /\ ptls' \in [Ranks -> Seq(Located)] /\ ghosts \in [Ranks -> Seq(Located)]
  BY <1>3 DEF Owned, CopyLists, ListTypes
<1>5. ASSUME NEW s \in Ranks
      PROVE  TagsApart(ptls'[s] \o ghosts[s]) /\ rtag'[s] = Indexed(NoIndex, ptls'[s] \o ghosts[s])
  <2> DEFINE a == ptls[s]
             a2 == ptls'[s]
             b == ghosts[s]
  <2>1. /\ a \in Seq(Located) /\ a2 \in Seq(Located) /\ b \in Seq(Located) /\ TagsApart(a \o b)
        /\ rtag'[s] = Indexed(NoIndex, a \o b)
    BY <1>1, <1>4 DEF CopyPlaces, ArrayPlaces, Arrays
  <2>2. SameTags(a, a2) /\ SameTags(b, b)
    BY <1>3 DEF SameTags
  <2> HIDE DEF a, a2, b
  <2>3. TagsApart(a2 \o b) /\ Indexed(NoIndex, a \o b) = Indexed(NoIndex, a2 \o b)
    BY <2>1, <2>2, PlacesKept
  <2> QED
    BY <2>1, <2>3 DEF a2, b
<1>6. DOMAIN rtag' = Ranks
  BY <1>1 DEF CopyPlaces
<1>7. \A s \in Ranks : \A i \in DOMAIN ptls[s] : \E i2 \in DOMAIN ptls'[s] : ptls'[s][i2].tag = ptls[s][i].tag
  BY <1>3
<1> QED
  BY <1>1, <1>4, <1>5, <1>6, <1>7, BetweenRounds

\* The particles are looked up again, the ghosts behind them are not.
LEMMA IndexedAnew ==
  ASSUME NEW a \in Seq(Located), NEW b \in Seq(Located), NEW a2 \in Seq(Located),
         Len(a2) = Len(a), TagsOf(a2) = TagsOf(a), TagsApart(a \o b), TagsApart(a2 \o b)
  PROVE  Indexed(Indexed(NoIndex, a \o b), a2) = Indexed(NoIndex, a2 \o b)
<1> DEFINE all == a \o b
           all2 == a2 \o b
<1>1. /\ all \in Seq(Located) /\ Len(a) \in Nat
      /\ \A i \in DOMAIN a : i \in DOMAIN all /\ all[i] = a[i]
      /\ \A i \in DOMAIN b : Len(a) + i \in DOMAIN all /\ all[Len(a) + i] = b[i]
      /\ \A i \in DOMAIN all :
            \/ i \in DOMAIN a
            \/ i - Len(a) \in DOMAIN b /\ all[i] = b[i - Len(a)]
  BY Joined
<1>2. /\ all2 \in Seq(Located)
      /\ \A i \in DOMAIN a2 : i \in DOMAIN all2 /\ all2[i] = a2[i]
      /\ \A i \in DOMAIN b : Len(a2) + i \in DOMAIN all2 /\ all2[Len(a2) + i] = b[i]
      /\ \A i \in DOMAIN all2 :
            \/ i \in DOMAIN a2
            \/ i - Len(a2) \in DOMAIN b /\ all2[i] = b[i - Len(a2)]
  <2>1. a2 \o b \in Seq(Located)
    BY Joined
  <2>2. \A i \in DOMAIN a2 : i \in DOMAIN (a2 \o b) /\ (a2 \o b)[i] = a2[i]
    BY Joined
  <2>3. \A i \in DOMAIN b : Len(a2) + i \in DOMAIN (a2 \o b) /\ (a2 \o b)[Len(a2) + i] = b[i]
    BY Joined
  <2>4. \A i \in DOMAIN (a2 \o b) :
            \/ i \in DOMAIN a2
            \/ i - Len(a2) \in DOMAIN b /\ (a2 \o b)[i] = b[i - Len(a2)]
    BY Joined
  <2> QED
    BY <2>1, <2>2, <2>3, <2>4
<1>3. TagsApart(all) /\ TagsApart(all2)
  OBVIOUS
<1> HIDE DEF all, all2
<1>4. ASSUME NEW tag \in Tags
      PROVE  Indexed(Indexed(NoIndex, all), a2)[tag] = Indexed(NoIndex, all2)[tag]
  <2>1. CASE tag \in TagsOf(a2)
    <3>1. PICK i \in DOMAIN a2 : a2[i].tag = tag
      BY <2>1 DEF TagsOf
    <3>2. i \in DOMAIN all2 /\ all2[i] = a2[i]
      BY <1>2, <3>1
    <3>3. Indexed(NoIndex, all2)[tag] = i - 1
      BY <1>2, <1>3, <3>1, <3>2, LookedUp
    <3>4. \A j \in DOMAIN a2 : a2[j].tag = tag => j = i
      BY <1>2, <1>3, <3>1 DEF TagsApart
    <3>5. (CHOOSE j \in DOMAIN a2 : a2[j].tag = tag) = i
      BY <3>1, <3>4
    <3>6. Indexed(Indexed(NoIndex, all), a2)[tag] = i - 1
      BY <2>1, <3>5 DEF Indexed
    <3> QED
      BY <3>3, <3>6
  <2>2. CASE tag \notin TagsOf(a2)
    <3>1. Indexed(Indexed(NoIndex, all), a2)[tag] = Indexed(NoIndex, all)[tag]
      BY <2>2 DEF Indexed
    <3>2. CASE \E j \in DOMAIN b : b[j].tag = tag
      <4>1. PICK j \in DOMAIN b : b[j].tag = tag
        BY <3>2
      <4> DEFINE i == Len(a) + j
      <4>2. i \in DOMAIN all /\ all[i] = b[j] /\ i \in DOMAIN all2 /\ all2[i] = b[j]
        BY <1>1, <1>2
      <4> HIDE DEF i
      <4>3. Indexed(NoIndex, all)[tag] = i - 1
        BY <1>1, <1>3, <4>1, <4>2, LookedUp
      <4>4. Indexed(NoIndex, all2)[tag] = i - 1
        BY <1>2, <1>3, <4>1, <4>2, LookedUp
      <4> QED
        BY <3>1, <4>3, <4>4
    <3>3. CASE ~ \E j \in DOMAIN b : b[j].tag = tag
      <4>1. tag \notin TagsOf(a) /\ \A i \in DOMAIN a : a[i].tag # tag
        BY <2>2 DEF TagsOf
      <4>0. \A i \in DOMAIN a2 : a2[i].tag # tag
        BY <2>2 DEF TagsOf
      <4>2. \A i \in DOMAIN all : all[i].tag # tag
        BY <1>1, <3>3, <4>1
      <4>3. \A i \in DOMAIN all2 : all2[i].tag # tag
        BY <1>2, <3>3, <4>0
      <4>4. tag \notin TagsOf(all) /\ tag \notin TagsOf(all2)
        BY <4>2, <4>3 DEF TagsOf
      <4> QED
        BY <3>1, <4>4 DEF Indexed
    <3> QED
      BY <3>2, <3>3
  <2> QED
    BY <2>1, <2>2
<1>5. Indexed(Indexed(NoIndex, all), a2) = Indexed(NoIndex, all2)
  BY <1>4, Zenon DEF Indexed
<1> QED
  BY <1>5 DEF all, all2

LEMMA SortKeepsPlaces ==
  ASSUME RoundOrder, Owned, CopyLists, CopyPlaces, NEW r \in Ranks, SortAndUpdate(r)
  PROVE  CopyLists' /\ CopyPlaces'
<1>1. /\ AllCurrent /\ moves' = moves + 1 /\ phase' = [s \in Ranks |-> "update"]
      /\ UNCHANGED <<stage, ghosts, plan, copyGhosts, numRecv, channel>>
      /\ ptls' = [ptls EXCEPT ![r] = Reverse(@)]
      /\ rtag' = [rtag EXCEPT ![r] = Indexed(@, Reverse(ptls[r]))]
  BY DEF SortAndUpdate
<1>2. /\ Owned' /\ DOMAIN ptls'[r] = DOMAIN ptls[r] /\ Len(ptls'[r]) = Len(ptls[r])
      /\ \A i \in DOMAIN ptls[r] : Len(ptls[r]) - i + 1 \in DOMAIN ptls[r]
      /\ \A i \in DOMAIN ptls[r] : ptls'[r][i] = ptls[r][Len(ptls[r]) - i + 1]
      /\ \A i \in DOMAIN ptls[r] : ptls[r][i] = ptls'[r][Len(ptls[r]) - i + 1]
      /\ \A s \in Ranks \ {r} : ptls'[s] = ptls[s]
  BY <1>1, OwnedAfterSort
<1>3. ptls \in [Ranks -> Seq(Located)] /\ ptls' \in [Ranks -> Seq(Located)] /\ ghosts \in [Ranks -> Seq(Located)]
  BY <1>2 DEF Owned, CopyLists, ListTypes
<1>4. DOMAIN rtag' = Ranks /\ DOMAIN rtag = Ranks
  BY <1>1 DEF CopyPlaces
<1>5. ASSUME NEW s \in Ranks
      PROVE  \A i \in DOMAIN ptls[s] : \E i2 \in DOMAIN ptls'[s] : ptls'[s][i2].tag = ptls[s][i].tag
  <2>1. CASE s = r
    <3>1. ASSUME NEW i \in DOMAIN ptls[r]
          PROVE  \E i2 \in DOMAIN ptls'[r] : ptls'[r][i2].tag = ptls[r][i].tag
      <4>1. PICK i2 \in DOMAIN ptls[r] : i2 = Len(ptls[r]) - i + 1
        BY <1>2
      <4>2. ptls[r][i] = ptls'[r][i2] /\ i2 \in DOMAIN ptls'[r]
        BY <1>2, <4>1
      <4> QED
        BY <4>2
    <3> QED
      BY <2>1, <3>1
  <2>2. CASE s # r
    BY <1>2, <2>2
  <2> QED
    BY <2>1, <2>2
<1>6. TagsApart(ptls'[r] \o ghosts[r]) /\ rtag'[r] = Indexed(NoIndex, ptls'[r] \o ghosts[r])
  <2> DEFINE a == ptls[r]
             a2 == ptls'[r]
             b == ghosts[r]
  <2>1. /\ a \in Seq(Located) /\ a2 \in Seq(Located) /\ b \in Seq(Located) /\ TagsApart(a \o b)
        /\ rtag[r] = Indexed(NoIndex, a \o b)
    BY <1>3 DEF CopyPlaces, ArrayPlaces, Arrays
  <2>2. Reverse(a) = a2
    BY <1>1, <1>3
  <2>3. rtag'[r] = Indexed(Indexed(NoIndex, a \o b), a2)
    BY <1>1, <1>4, <2>1, <2>2
  <2>4. TagsOf(a2) = TagsOf(a) /\ Len(a2) = Len(a)
    <3>1. \A i \in DOMAIN a : \E j \in DOMAIN a2 : a2[j] = a[i]
      BY <1>2
    <3>2. \A i \in DOMAIN a2 : \E j \in DOMAIN a : a[j] = a2[i]
      BY <1>2
    <3>3. Len(a2) = Len(a)
      BY <1>2
    <3> HIDE DEF a, a2
    <3> QED
      BY <3>1, <3>2, <3>3 DEF TagsOf
  <2>5. TagsApart(a2)
    <3> DEFINE n == Len(a) + 1
    <3>1. /\ Len(a) \in Nat /\ DOMAIN a = 1 .. Len(a) /\ DOMAIN a2 = DOMAIN a
          /\ \A i \in DOMAIN a2 : n - i \in DOMAIN a /\ a2[i] = a[n - i]
      BY <1>2, <2>1
    <3>2. \A i, j \in DOMAIN a : a[i].tag = a[j].tag => i = j
      BY DEF Owned
    <3> HIDE DEF a, a2
    <3>3. ASSUME NEW i \in DOMAIN a2, NEW j \in DOMAIN a2, a2[i].tag = a2[j].tag
          PROVE  i = j
      <4>1. n - i = n - j
        BY <3>1, <3>2, <3>3
      <4> QED
        BY <3>1, <4>1
    <3> QED
      BY <3>3 DEF TagsApart
  <2>6. TagsApart(a2 \o b)
    <3>0. \A i \in DOMAIN a2 : \E j \in DOMAIN a : a[j].tag = a2[i].tag
      BY <1>2
    <3> HIDE DEF a, a2, b
    <3>1. /\ \A i \in DOMAIN a : i \in DOMAIN (a \o b) /\ (a \o b)[i] = a[i]
          /\ \A i \in DOMAIN b : Len(a) + i \in DOMAIN (a \o b) /\ (a \o b)[Len(a) + i] = b[i]
          /\ Len(a) \in Nat /\ DOMAIN a = 1 .. Len(a) /\ DOMAIN b = 1 .. Len(b) /\ Len(b) \in Nat
      BY <2>1, Joined
    <3>2. ASSUME NEW i \in DOMAIN a, NEW j \in DOMAIN b, a[i].tag = b[j].tag
          PROVE  FALSE
      <4>1. i = Len(a) + j
        BY <2>1, <3>1, <3>2 DEF TagsApart
      <4> QED
        BY <3>1, <4>1
    <3>3. TagsApart(b)
      <4>1. ASSUME NEW i \in DOMAIN b, NEW j \in DOMAIN b, b[i].tag = b[j].tag
            PROVE  i = j
        <5>1. Len(a) + i = Len(a) + j
          BY <2>1, <3>1, <4>1 DEF TagsApart
        <5> QED
          BY <3>1, <5>1
      <4> QED
        BY <4>1 DEF TagsApart
    <3>4. \A i \in DOMAIN a2, j \in DOMAIN b : a2[i].tag # b[j].tag
      BY <3>0, <3>2
    <3> QED
      BY <2>1, <2>5, <3>3, <3>4, JoinedApart
  <2> HIDE DEF a, a2, b
  <2>7. Indexed(Indexed(NoIndex, a \o b), a2) = Indexed(NoIndex, a2 \o b)
    BY <2>1, <2>4, <2>6, IndexedAnew
  <2> QED
    BY <2>3, <2>6, <2>7 DEF a2, b
<1>7. ASSUME NEW s \in Ranks
      PROVE  TagsApart(ptls'[s] \o ghosts[s]) /\ rtag'[s] = Indexed(NoIndex, ptls'[s] \o ghosts[s])
  <2>1. CASE s = r
    BY <1>6, <2>1
  <2>2. CASE s # r
    <3>1. ptls'[s] = ptls[s] /\ rtag'[s] = rtag[s]
      BY <1>1, <1>2, <1>4, <2>2
    <3> QED
      BY <3>1 DEF CopyPlaces, ArrayPlaces, Arrays
  <2> QED
    BY <2>1, <2>2
<1> QED
  BY <1>1, <1>3, <1>4, <1>5, <1>7, BetweenRounds

-----------------------------------------------------------------------------
(* Communicator: what the ranks promise each other.                         *)

CopyInv ==
    /\ RoundOrder /\ Owned
    /\ communicator = "CPU" => CopyLists /\ CopyPlaces
    /\ communicator = "GPU" => NoPlans

LEMMA CopyInvInit ==
  ASSUME LayerInit
  PROVE  CopyInv
<1>1. RoundOrder /\ Fresh
  BY RoundOrderInit, FreshInit
<1>2. Owned /\ CopyLists /\ CopyPlaces
  BY <1>1, FreshPlaces
<1>3. NoPlans
  BY <1>1 DEF Fresh
<1> QED
  BY <1>1, <1>2, <1>3 DEF CopyInv

\* Between two rounds no plans are left, on a GPU never.
LEMMA NoPlansLeft ==
  ASSUME CopyInv, AllCurrent
  PROVE  NoPlans
<1>1. communicator \in {"CPU", "GPU"} /\ RoundOrder
  BY DEF CopyInv, RoundOrder
<1>2. CASE communicator = "GPU"
  BY <1>2 DEF CopyInv
<1>3. CASE communicator = "CPU"
  <2>1. CopyLists
    BY <1>3 DEF CopyInv
  <2>2. plan \in [Ranks -> Seq(SUBSET Communicating)]
    BY <2>1 DEF CopyLists, ListTypes
  <2>3. \A s \in Ranks : plan[s] = <<>>
    BY <1>1, <2>1, SettledIs DEF Settled
  <2> QED
    BY <2>2, <2>3 DEF NoPlans
<1> QED
  BY <1>1, <1>2, <1>3

LEMMA OwnedAlways ==
  Owned /\ UNCHANGED ptls => Owned'
BY DEF Owned

LEMMA StepKeepsCopies ==
  ASSUME CopyInv, NEW r \in Ranks, Step(r), communicator = "CPU"
  PROVE  CopyLists' /\ CopyPlaces'
<1>1. RoundOrder /\ Owned /\ CopyLists /\ CopyPlaces
  BY DEF CopyInv
<1>2. GhostStep(r, LayerWidth)
  BY DEF Step
<1>3. CASE BeginExchange(r, LayerWidth)
  <2>1. PICK new, plans : ExchangeStep(r, new, plans) /\ TrueArrivals(r, new, plans)
    BY <1>1, <1>3, BeginIsTrue
  <2> QED
    BY <1>1, <2>1, ExchangeKeepsLists, ExchangeKeepsPlaces
<1>4. CASE ReceiveGhosts(r, LayerWidth)
  <2>1. PICK new, plans : ExchangeStep(r, new, plans) /\ TrueArrivals(r, new, plans)
    BY <1>1, <1>4, ReceiveIsTrue
  <2> QED
    BY <1>1, <2>1, ExchangeKeepsLists, ExchangeKeepsPlaces
<1>5. CASE BeginUpdate(r)
  BY <1>1, <1>5, BeginUpdateIs, UpdateKeepsPlaces
<1>6. CASE ReceivePositions(r, LayerWidth)
  BY <1>1, <1>6, ReceivePositionsIs, UpdateKeepsPlaces
<1> QED
  BY <1>2, <1>3, <1>4, <1>5, <1>6 DEF GhostStep

LEMMA GPULeavesPlans ==
  ASSUME NEW r \in Ranks, Step(r), communicator = "GPU"
  PROVE  UNCHANGED plan
BY DEF Step, GhostStepGPU, BeginExchangeGPU, BeginUpdateGPU, ReceiveGhostsGPU, ReceivePositionsGPU

LEMMA SameCopies ==
  ASSUME UNCHANGED layerVars
  PROVE  /\ CopyLists => CopyLists'
         /\ CopyPlaces => CopyPlaces'
<1>1. UNCHANGED <<phase, stage, ptls, ghosts, plan, rtag, copyGhosts, numRecv, channel, moves>>
  BY DEF layerVars, ghostVars
<1>2. \A r \in Ranks : Exchanged(r)' = Exchanged(r) /\ Announced(r)' = Announced(r) /\ Updated(r)' = Updated(r)
  BY <1>1 DEF Exchanged, Announced, Updated
<1>3. Home' = Home /\ Way' = Way /\ OwnPosition' = OwnPosition
  BY <1>1, SamePlaces
<1>4. communicator' = communicator
  BY DEF layerVars
<1>5. Working' = Working
  BY <1>1, <1>4 DEF Working
<1>6. CopyLists => CopyLists'
  <2>1. ListTypes => ListTypes'
    BY <1>1 DEF ListTypes
  <2>2. ASSUME NEW r \in Ranks
        PROVE  ListsOf(r) => ListsOf(r)'
    <3>1. \A k : (FromList(r, k) => FromList(r, k)') /\ (ToList(r, k) => ToList(r, k)')
      <4> SUFFICES ASSUME NEW k
                   PROVE  (FromList(r, k) => FromList(r, k)') /\ (ToList(r, k) => ToList(r, k)')
        OBVIOUS
      <4>1. Announced(Src(r, k))' = Announced(Src(r, k))
        BY <1>1 DEF Announced
      <4> QED
        BY <1>1, <4>1 DEF FromList, ToList
    <3> QED
      BY <1>1, <1>2, <1>5, <3>1 DEF ListsOf
  <2>3. AllFit => AllFit'
    BY <1>1, <1>2, Zenon DEF AllFit, FitsList
  <2> QED
    BY <2>1, <2>2, <2>3 DEF CopyLists
<1>7. CopyPlaces => CopyPlaces'
  BY <1>1, <1>2, <1>3, <1>5 DEF CopyPlaces, ArrayPlaces, ListPlaces, AllTrue, Arrays
<1> QED
  BY <1>6, <1>7

LEMMA CopyInvNext ==
  ASSUME CopyInv, [LayerNext]_layerVars
  PROVE  CopyInv'
<1>1. RoundOrder /\ Owned /\ communicator \in {"CPU", "GPU"} /\ (communicator = "CPU" => CopyLists /\ CopyPlaces)
  BY DEF CopyInv, RoundOrder
<1>2. RoundOrder'
  BY <1>1, RoundOrderNext
<1>3. CASE UNCHANGED layerVars
  <2>1. UNCHANGED <<ptls, plan, communicator>>
    BY <1>3 DEF layerVars, ghostVars
  <2>2. Owned'
    BY <1>1, <2>1, OwnedAlways
  <2>3. communicator = "CPU" => CopyLists' /\ CopyPlaces'
    BY <1>1, <1>3, SameCopies
  <2> QED
    BY <1>2, <2>1, <2>2, <2>3 DEF CopyInv, NoPlans
<1>4. CASE MoveAndMigrate
  <2>1. NoPlans
    BY <1>4, NoPlansLeft DEF MoveAndMigrate
  <2>2. Fresh'
    BY <1>1, <1>4, <2>1, FreshAfterMigration
  <2>3. Owned' /\ CopyLists' /\ CopyPlaces'
    BY <1>2, <2>2, FreshPlacesNext
  <2>4. NoPlans'
    BY <2>2 DEF Fresh
  <2> QED
    BY <1>2, <2>3, <2>4 DEF CopyInv
<1>5. CASE MoveAndUpdate
  <2>1. UNCHANGED <<plan, communicator>>
    BY <1>5 DEF MoveAndUpdate
  <2>2. PICK d \in Steps :
          ptls' = [r \in Ranks |-> [i \in DOMAIN ptls[r] |-> Displaced(ptls[r][i], d)]]
    BY <1>5 DEF MoveAndUpdate
  <2>3. Owned'
    BY <1>1, <2>2, OwnedAfterMove
  <2>4. communicator = "CPU" => CopyLists' /\ CopyPlaces'
    BY <1>1, <1>5, MoveKeepsPlaces
  <2> QED
    BY <1>2, <2>1, <2>3, <2>4 DEF CopyInv, NoPlans
<1>6. ASSUME NEW r \in Ranks, SortAndUpdate(r)
      PROVE  CopyInv'
  <2>1. communicator = "CPU" /\ UNCHANGED <<plan, communicator>> /\ ptls' = [ptls EXCEPT ![r] = Reverse(@)]
    BY <1>6 DEF SortAndUpdate
  <2>2. Owned'
    BY <1>1, <2>1, OwnedAfterSort
  <2>3. CopyLists' /\ CopyPlaces'
    BY <1>1, <1>6, <2>1, SortKeepsPlaces
  <2> QED
    BY <1>2, <2>1, <2>2, <2>3 DEF CopyInv
<1>7. ASSUME NEW r \in Ranks, Step(r)
      PROVE  CopyInv'
  <2>1. UNCHANGED <<ptls, moves, communicator>>
    BY <1>1, <1>7, StepShape
  <2>2. Owned'
    BY <1>1, <2>1, OwnedAlways
  <2>3. communicator = "CPU" => CopyLists' /\ CopyPlaces'
    BY <1>7, StepKeepsCopies
  <2>4. communicator = "GPU" => UNCHANGED plan
    BY <1>7, GPULeavesPlans
  <2> QED
    BY <1>2, <2>1, <2>2, <2>3, <2>4 DEF CopyInv, NoPlans
<1>8. Rest => UNCHANGED layerVars
  BY DEF Rest
<1> QED
  BY <1>3, <1>4, <1>5, <1>6, <1>7, <1>8 DEF LayerNext

\* Communicator: what a rank sends in an update, and in which order, is what
\* its neighbour has received in the exchange, for whatever way a ghost took.
THEOREM CopiesKept == LayerSpec => []CopyInv
<1>1. LayerInit => CopyInv
  BY CopyInvInit
<1>2. CopyInv /\ [LayerNext]_layerVars => CopyInv'
  BY CopyInvNext
<1> QED
  BY <1>1, <1>2, PTL DEF LayerSpec

-----------------------------------------------------------------------------
(* CommunicatorGPU: what is in the buffers.  Every nonempty plan has its    *)
(* place in the order in which the buffers are sent, and what is sent on    *)
(* keeps the later directions of its plan.                                  *)

LEMMA FormsAPlan ==
  ASSUME NEW S \in SUBSET Directions, S # {}, \A f, g \in S : f \div 2 = g \div 2 => f = g
  PROVE  S \in AllPlans
<1> DEFINE inX == S \cap {0, 1}
           inY == S \cap {2, 3}
           inZ == S \cap {4, 5}
<1>1. S = inX \cup inY \cup inZ
  <2>1. Directions = {0, 1, 2, 3, 4, 5}
    BY DEF Directions
  <2> QED
    BY <2>1
<1>2. /\ inX = {} \/ \E x \in {0, 1} : inX = {x}
      /\ inY = {} \/ \E y \in {2, 3} : inY = {y}
      /\ inZ = {} \/ \E z \in {4, 5} : inZ = {z}
  <2>1. ~ (0 \in S /\ 1 \in S) /\ ~ (2 \in S /\ 3 \in S) /\ ~ (4 \in S /\ 5 \in S)
    BY DEF Directions
  <2> QED
    BY <2>1
<1> HIDE DEF inX, inY, inZ
<1>3. CASE inX # {} /\ inY # {} /\ inZ # {}
  <2>1. PICK x \in {0, 1}, y \in {2, 3}, z \in {4, 5} : inX = {x} /\ inY = {y} /\ inZ = {z}
    BY <1>2, <1>3
  <2>2. S = {x, y, z}
    BY <1>1, <2>1
  <2> QED
    BY <2>2 DEF AllPlans, Corners
<1>4. CASE inX # {} /\ inY # {} /\ inZ = {}
  <2>1. PICK x \in {0, 1}, y \in {2, 3} : inX = {x} /\ inY = {y}
    BY <1>2, <1>4
  <2>2. S = {x, y}
    BY <1>1, <1>4, <2>1
  <2> QED
    BY <2>2 DEF AllPlans, Edges
<1>5. CASE inX # {} /\ inY = {} /\ inZ # {}
  <2>1. PICK x \in {0, 1}, y \in {4, 5} : inX = {x} /\ inZ = {y}
    BY <1>2, <1>5
  <2>2. S = {x, y}
    BY <1>1, <1>5, <2>1
  <2> QED
    BY <2>2 DEF AllPlans, Edges
<1>6. CASE inX = {} /\ inY # {} /\ inZ # {}
  <2>1. PICK x \in {2, 3}, y \in {4, 5} : inY = {x} /\ inZ = {y}
    BY <1>2, <1>6
  <2>2. S = {x, y}
    BY <1>1, <1>6, <2>1
  <2> QED
    BY <2>2 DEF AllPlans, Edges
<1>7. CASE (inX # {} /\ inY = {} /\ inZ = {}) \/ (inX = {} /\ inY # {} /\ inZ = {}) \/ (inX = {} /\ inY = {} /\ inZ # {})
  <2>1. PICK f \in Directions : S = {f}
    BY <1>1, <1>2, <1>7 DEF Directions
  <2> QED
    BY <2>1 DEF AllPlans, Faces
<1> QED
  BY <1>1, <1>3, <1>4, <1>5, <1>6, <1>7

LEMMA OneWayIsPlan ==
  ASSUME NEW way, OneWay(way), way # {}
  PROVE  way \in AllPlans
<1>1. way \in SUBSET Directions
  BY RouteDirections DEF OneWay, Communicating, Range
<1>2. \A f, g \in way : f \div 2 = g \div 2 => f = g
  BY DEF OneWay, Axis
<1> QED
  BY <1>1, <1>2, FormsAPlan

LEMMA OnwardIs ==
  ASSUME NEW plan0 \in AllPlans, NEW dir \in Directions, dir \in plan0
  PROVE  /\ Onward(dir, plan0) = {f \in plan0 : f > dir}
         /\ Onward(dir, plan0) \in AllPlans \cup {Local}
<1>1. Table(dir, plan0) = {{f \in plan0 : f > dir}}
  BY GhostRoute
<1> DEFINE to == {f \in plan0 : f > dir}
<1>2. Onward(dir, plan0) = to
  BY <1>1 DEF Onward
<1>3. plan0 \subseteq Directions /\ \A f, g \in plan0 : f \div 2 = g \div 2 => f = g
  BY OneFaceOfAnAxis
<1>4. to # {} => to \in AllPlans
  BY <1>3, FormsAPlan
<1> QED
  BY <1>2, <1>4 DEF Local

IsJoined(a, b, ab) ==
    /\ \A i \in DOMAIN a : i \in DOMAIN ab /\ ab[i] = a[i]
    /\ \A i \in DOMAIN b : Len(a) + i \in DOMAIN ab /\ ab[Len(a) + i] = b[i]
    /\ DOMAIN ab = 1 .. Len(a) + Len(b) /\ Len(a) \in Nat /\ Len(b) \in Nat
    /\ \A i \in DOMAIN ab : i \in DOMAIN a \/ (i - Len(a) \in DOMAIN b /\ ab[i] = b[i - Len(a)])

LEMMA JoinedLists ==
  ASSUME NEW S, NEW a \in Seq(S), NEW b \in Seq(S), NEW ab, ab = a \o b
  PROVE  ab \in Seq(S) /\ IsJoined(a, b, ab)
BY Joined DEF IsJoined

LEMMA SendOrderIs ==
  ASSUME NEW plan0 \in AllPlans
  PROVE  Place(SendOrder, plan0) \in Int
<1>1. CornerList \in Seq(SUBSET Int) /\ Len(CornerList) = 8
  BY DEF CornerList
<1>2. EdgeList \in Seq(SUBSET Int) /\ Len(EdgeList) = 12
  BY DEF EdgeList
<1>3. FaceList \in Seq(SUBSET Int) /\ Len(FaceList) = 6
  BY DEF FaceList
<1> DEFINE first == CornerList \o EdgeList
<1>4. first \in Seq(SUBSET Int) /\ SendOrder = first \o FaceList
  BY <1>1, <1>2, Joined DEF SendOrder
<1>5. IsJoined(CornerList, EdgeList, first)
  BY <1>1, <1>2, JoinedLists
<1> HIDE DEF first
<1>6. IsJoined(first, FaceList, SendOrder)
  BY <1>3, <1>4, JoinedLists
<1>7. \E k \in DOMAIN SendOrder : SendOrder[k] = plan0
  <2>1. CASE plan0 \in Corners
    <3>1. \E k \in DOMAIN CornerList : CornerList[k] = plan0
      <4>1. PICK x \in {0, 1}, y \in {2, 3}, z \in {4, 5} : plan0 = {x, y, z}
        BY <2>1, CornerForm
      <4> QED
        BY <4>1 DEF CornerList
    <3> QED
      BY <1>5, <1>6, <3>1 DEF IsJoined
  <2>2. CASE plan0 \in Edges
    <3>1. \E k \in DOMAIN EdgeList : EdgeList[k] = plan0
      <4>1. ASSUME NEW x \in {0, 1}, NEW y \in {2, 3, 4, 5}, plan0 = {x, y}
            PROVE  \E k \in DOMAIN EdgeList : EdgeList[k] = plan0
        BY <4>1 DEF EdgeList
      <4>2. ASSUME NEW y \in {2, 3}, NEW z \in {4, 5}, plan0 = {y, z}
            PROVE  \E k \in DOMAIN EdgeList : EdgeList[k] = plan0
        BY <4>2 DEF EdgeList
      <4> QED
        BY <2>2, <4>1, <4>2 DEF Edges
    <3> QED
      BY <1>5, <1>6, <3>1 DEF IsJoined
  <2>3. CASE plan0 \in Faces
    <3>1. \E k \in DOMAIN FaceList : FaceList[k] = plan0
      BY <2>3 DEF FaceList, Faces, Directions
    <3> QED
      BY <1>6, <3>1 DEF IsJoined
  <2> QED
    BY <2>1, <2>2, <2>3 DEF AllPlans
<1>8. Place(SendOrder, plan0) \in DOMAIN SendOrder
  BY <1>7 DEF Place
<1> QED
  BY <1>6, <1>8 DEF IsJoined

LEMMA UnpackOrderIs ==
  ASSUME NEW to \in Range(UnpackOrder)
  PROVE  Place(UnpackOrder, to) \in Int
<1>1. <<Local>> \in Seq(SUBSET Int) /\ EdgeList \in Seq(SUBSET Int) /\ FaceList \in Seq(SUBSET Int)
  BY DEF EdgeList, FaceList, Local
<1>2. UnpackOrder \in Seq(SUBSET Int)
  BY <1>1, Joined DEF UnpackOrder
<1>3. DOMAIN UnpackOrder \subseteq Int
  BY <1>2, LenProperties
<1>4. \E k \in DOMAIN UnpackOrder : UnpackOrder[k] = to
  BY DEF Range
<1> QED
  BY <1>3, <1>4 DEF Place

-----------------------------------------------------------------------------
\* From which places of the buffers the elements come that are sent, or that are
\* unpacked: the plans alone decide.
PlanLists == Seq(AllPlans \cup {Local})

BoundTo(dir, plans) == { i \in DOMAIN plans : dir \in plans[i] }
Kept(n, plans) == { i \in DOMAIN plans : i > n /\ plans[i] \in Range(UnpackOrder) }
Keys(order, plans, S) == [i \in S |-> Place(order, plans[i])]
FromPlace(dir, plans, j) == NthBy(BoundTo(dir, plans), Keys(SendOrder, plans, BoundTo(dir, plans)), j)
KeptPlace(n, plans, j) == NthBy(Kept(n, plans), Keys(UnpackOrder, plans, Kept(n, plans)), j)

IsPickedBy(list, S, key, picked) ==
    /\ Cardinality(S) \in Nat /\ DOMAIN picked = 1 .. Cardinality(S)
    /\ \A k \in 1 .. Cardinality(S) : NthBy(S, key, k) \in S /\ picked[k] = list[NthBy(S, key, k)]
    /\ \A k, l \in 1 .. Cardinality(S) : NthBy(S, key, k) = NthBy(S, key, l) => k = l
    /\ \A i \in S : \E k \in 1 .. Cardinality(S) : NthBy(S, key, k) = i

LEMMA PickedByIs ==
  ASSUME NEW E, NEW list \in Seq(E), NEW S \in SUBSET (DOMAIN list), NEW key \in [S -> Int]
  PROVE  PickedBy(list, S, key) \in Seq(E) /\ IsPickedBy(list, S, key, PickedBy(list, S, key))
BY PickedByProperties DEF IsPickedBy

LEMMA ForwardedIs ==
  ASSUME NEW E, NEW list \in Seq(E), Sizes(list) \in PlanLists, NEW dir \in Directions
  PROVE  /\ Cardinality(BoundTo(dir, Sizes(list))) \in Nat
         /\ DOMAIN Forwarded(dir, list) = 1 .. Cardinality(BoundTo(dir, Sizes(list)))
         /\ Forwarded(dir, list) = [j \in DOMAIN Forwarded(dir, list) |-> Forwarded(dir, list)[j]]
         /\ \A j \in 1 .. Cardinality(BoundTo(dir, Sizes(list))) :
               /\ FromPlace(dir, Sizes(list), j) \in DOMAIN list
               /\ dir \in Sizes(list)[FromPlace(dir, Sizes(list), j)]
               /\ Forwarded(dir, list)[j] =
                     [list[FromPlace(dir, Sizes(list), j)] EXCEPT !.plan = Onward(dir, @)]
         /\ \A j, k \in 1 .. Cardinality(BoundTo(dir, Sizes(list))) :
               FromPlace(dir, Sizes(list), j) = FromPlace(dir, Sizes(list), k) => j = k
         /\ \A i \in DOMAIN list : dir \in Sizes(list)[i] =>
               \E j \in 1 .. Cardinality(BoundTo(dir, Sizes(list))) : FromPlace(dir, Sizes(list), j) = i
<1> DEFINE plans == Sizes(list)
           S == BoundTo(dir, plans)
           key == Keys(SendOrder, plans, S)
<1>1. DOMAIN plans = DOMAIN list /\ \A i \in DOMAIN list : plans[i] = list[i].plan
  BY DEF Sizes
<1>2. S = { i \in DOMAIN list : dir \in list[i].plan } /\ S \in SUBSET DOMAIN list
  BY <1>1 DEF BoundTo
<1>3. key = [i \in S |-> Place(SendOrder, list[i].plan)]
  BY <1>1, <1>2 DEF Keys
<1>4. key \in [S -> Int]
  <2>1. ASSUME NEW i \in S
        PROVE  Place(SendOrder, list[i].plan) \in Int
    <3>1. plans[i] \in AllPlans \cup {Local} /\ dir \in plans[i]
      BY <1>1, <1>2, ElementOfSeq DEF PlanLists
    <3>2. plans[i] \in AllPlans
      BY <3>1 DEF Local
    <3> QED
      BY <1>1, <1>2, <3>2, SendOrderIs
  <2> QED
    BY <1>3, <2>1
<1> DEFINE sent == PickedBy(list, S, key)
<1>5. Forwarded(dir, list) = [i \in DOMAIN sent |-> [sent[i] EXCEPT !.plan = Onward(dir, @)]]
  BY <1>2, <1>3, Zenon DEF Forwarded, ByBuffer
<1> HIDE DEF plans, S, key
<1>6. /\ Cardinality(S) \in Nat /\ DOMAIN sent = 1 .. Cardinality(S)
      /\ \A k \in 1 .. Cardinality(S) : NthBy(S, key, k) \in S /\ sent[k] = list[NthBy(S, key, k)]
      /\ \A k, l \in 1 .. Cardinality(S) : NthBy(S, key, k) = NthBy(S, key, l) => k = l
      /\ \A i \in S : \E k \in 1 .. Cardinality(S) : NthBy(S, key, k) = i
  <2>1. S \in SUBSET DOMAIN list
    BY <1>2
  <2> QED
    BY <1>4, <2>1, PickedByIs DEF IsPickedBy
<1> HIDE DEF sent
<1>7. \A k \in 1 .. Cardinality(S) : Forwarded(dir, list)[k] = [list[NthBy(S, key, k)] EXCEPT !.plan = Onward(dir, @)]
  BY <1>5, <1>6
<1>8. /\ DOMAIN Forwarded(dir, list) = 1 .. Cardinality(S)
      /\ Forwarded(dir, list) = [j \in DOMAIN Forwarded(dir, list) |-> Forwarded(dir, list)[j]]
  BY <1>5, <1>6
<1>9. \A k \in 1 .. Cardinality(S) : NthBy(S, key, k) \in DOMAIN list /\ dir \in plans[NthBy(S, key, k)]
  BY <1>1, <1>2, <1>6
<1>10. \A k : NthBy(S, key, k) = FromPlace(dir, plans, k)
  BY DEF FromPlace, S, key
<1>11. S = BoundTo(dir, plans)
  BY DEF S
<1>12. \A i \in DOMAIN list : dir \in plans[i] => i \in S
  BY <1>1, <1>11 DEF BoundTo
<1> HIDE DEF S
<1> QED
  BY <1>6, <1>7, <1>8, <1>9, <1>10, <1>11, <1>12 DEF plans

\* What is unpacked, of what is in the buffers.
UnpackedOf(list, n, in) ==
    /\ Cardinality(Kept(n, Sizes(list))) \in Nat
    /\ DOMAIN in = 1 .. Cardinality(Kept(n, Sizes(list)))
    /\ \A j \in 1 .. Cardinality(Kept(n, Sizes(list))) :
          /\ KeptPlace(n, Sizes(list), j) \in DOMAIN list /\ KeptPlace(n, Sizes(list), j) > n
          /\ in[j] = list[KeptPlace(n, Sizes(list), j)]
    /\ \A j, k \in 1 .. Cardinality(Kept(n, Sizes(list))) :
          KeptPlace(n, Sizes(list), j) = KeptPlace(n, Sizes(list), k) => j = k
    /\ \A i \in Kept(n, Sizes(list)) :
          \E j \in 1 .. Cardinality(Kept(n, Sizes(list))) : KeptPlace(n, Sizes(list), j) = i

LEMMA UnpackedIs ==
  ASSUME NEW E, NEW list \in Seq(E), Sizes(list) \in PlanLists, NEW r, NEW n, n = Len(ghostIdx[r])
  PROVE  Unpacked(r, list) \in Seq(E) /\ UnpackedOf(list, n, Unpacked(r, list))
<1> DEFINE plans == Sizes(list)
           S == Kept(n, plans)
           key == Keys(UnpackOrder, plans, S)
<1>1. DOMAIN plans = DOMAIN list /\ \A i \in DOMAIN list : plans[i] = list[i].plan
  BY DEF Sizes
<1>2. /\ S = { i \in DOMAIN list : i > Len(ghostIdx[r]) /\ list[i].plan \in Range(UnpackOrder) }
      /\ S \in SUBSET DOMAIN list /\ \A i \in S : i > n
  BY <1>1 DEF Kept
<1>3. key = [i \in S |-> Place(UnpackOrder, list[i].plan)]
  BY <1>1, <1>2 DEF Keys
<1>4. key \in [S -> Int]
  BY <1>2, <1>3, UnpackOrderIs
<1>5. Unpacked(r, list) = PickedBy(list, S, key)
  BY <1>2, <1>3, Zenon DEF Unpacked, ByBuffer
<1> HIDE DEF plans, S, key
<1>6. /\ Cardinality(S) \in Nat /\ DOMAIN PickedBy(list, S, key) = 1 .. Cardinality(S)
      /\ PickedBy(list, S, key) \in Seq(E)
      /\ \A k \in 1 .. Cardinality(S) : NthBy(S, key, k) \in S /\ PickedBy(list, S, key)[k] = list[NthBy(S, key, k)]
      /\ \A k, l \in 1 .. Cardinality(S) : NthBy(S, key, k) = NthBy(S, key, l) => k = l
      /\ \A i \in S : \E k \in 1 .. Cardinality(S) : NthBy(S, key, k) = i
  <2>1. S \in SUBSET DOMAIN list
    BY <1>2
  <2> QED
    BY <1>4, <2>1, PickedByIs DEF IsPickedBy
<1>9. \A k \in 1 .. Cardinality(S) : NthBy(S, key, k) \in DOMAIN list /\ NthBy(S, key, k) > n
  BY <1>2, <1>6
<1>10. \A k : NthBy(S, key, k) = KeptPlace(n, plans, k)
  BY DEF KeptPlace, S, key
<1>11. S = Kept(n, plans)
  BY DEF S
<1> HIDE DEF S
<1> QED
  BY <1>5, <1>6, <1>9, <1>10, <1>11 DEF plans, UnpackedOf

-----------------------------------------------------------------------------
\* The tags of what is in the buffers, and what a rank has in its memory or sends
\* for them: particles in an exchange, positions in an update.
Held == [plan : AllPlans \cup {Local}, tag : Tags]
GhostItem == [plan : AllPlans \cup {Local}, ptl : Located]
PositionItem == [plan : AllPlans \cup {Local}, pos : [Axes -> Int]]

IsLoad(e, item, own, kind) ==
    /\ item.plan = e.plan
    /\ IF kind = "exchangeGPU"
       THEN item \in GhostItem /\ item.ptl.tag = e.tag /\ item.ptl.pos = own[e.tag]
       ELSE item \in PositionItem /\ item.pos = own[e.tag]

Carries(list, data, own, kind) ==
    /\ data = [i \in 1 .. Len(list) |-> data[i]]
    /\ \A i \in 1 .. Len(list) : IsLoad(list[i], data[i], own, kind)

Items(kind) == IF kind = "exchangeGPU" THEN GhostItem ELSE PositionItem

LEMMA CarriesIs ==
  ASSUME NEW list \in Seq(Held), NEW data, NEW own, NEW kind, Carries(list, data, own, kind)
  PROVE  /\ data \in Seq(Items(kind)) /\ Len(data) = Len(list) /\ DOMAIN data = DOMAIN list
         /\ Len(list) \in Nat /\ DOMAIN list = 1 .. Len(list)
         /\ Sizes(data) = Sizes(list) /\ Sizes(list) \in PlanLists
<1>1. Len(list) \in Nat /\ DOMAIN list = 1 .. Len(list) /\ \A i \in 1 .. Len(list) : list[i] \in Held
  BY LenProperties, ElementOfSeq
<1>2. DOMAIN data = 1 .. Len(list) /\ \A i \in 1 .. Len(list) : data[i] \in Items(kind) /\ data[i].plan = list[i].plan
  BY DEF Carries, IsLoad, Items
<1>3. data \in [1 .. Len(list) -> Items(kind)]
  BY <1>2 DEF Carries
<1>4. data \in Seq(Items(kind)) /\ Len(data) = Len(list)
  BY <1>1, <1>3, SeqDef, LenProperties
<1>5. Sizes(data) = Sizes(list)
  BY <1>1, <1>2 DEF Sizes
<1>6. Sizes(list) \in [1 .. Len(list) -> AllPlans \cup {Local}]
  BY <1>1 DEF Sizes, Held
<1>7. Sizes(list) \in PlanLists
  BY <1>1, <1>6, SeqDef DEF PlanLists
<1> QED
  BY <1>1, <1>2, <1>4, <1>5, <1>7

LEMMA FunctionsAre ==
  ASSUME NEW n \in Nat, NEW S, NEW f, f = [i \in 1 .. n |-> f[i]], \A i \in 1 .. n : f[i] \in S
  PROVE  f \in Seq(S) /\ Len(f) = n /\ DOMAIN f = 1 .. n
<1>1. f \in [1 .. n -> S]
  OBVIOUS
<1> QED
  BY <1>1, SeqDef, LenProperties

LEMMA HeldIs ==
  ASSUME NEW list \in Seq(Held)
  PROVE  /\ Len(list) \in Nat /\ DOMAIN list = 1 .. Len(list) /\ Sizes(list) \in PlanLists
         /\ DOMAIN Sizes(list) = DOMAIN list
         /\ \A i \in DOMAIN list : list[i] \in Held /\ Sizes(list)[i] = list[i].plan /\ list[i].tag \in Tags
<1>1. Len(list) \in Nat /\ DOMAIN list = 1 .. Len(list) /\ \A i \in 1 .. Len(list) : list[i] \in Held
  BY LenProperties, ElementOfSeq
<1>6. Sizes(list) \in [1 .. Len(list) -> AllPlans \cup {Local}]
  BY <1>1 DEF Sizes, Held
<1>7. Sizes(list) \in PlanLists
  BY <1>1, <1>6, SeqDef DEF PlanLists
<1> QED
  BY <1>1, <1>7 DEF Sizes, Held

\* What is sent, of what is held.
SentOf(list, dir, sent) ==
    /\ sent \in Seq(Held) /\ Len(sent) = Cardinality(BoundTo(dir, Sizes(list)))
    /\ DOMAIN sent = 1 .. Cardinality(BoundTo(dir, Sizes(list)))
    /\ \A j \in DOMAIN sent :
          /\ FromPlace(dir, Sizes(list), j) \in DOMAIN list
          /\ dir \in list[FromPlace(dir, Sizes(list), j)].plan
          /\ sent[j].tag = list[FromPlace(dir, Sizes(list), j)].tag
          /\ sent[j].plan = {f \in list[FromPlace(dir, Sizes(list), j)].plan : f > dir}
          /\ sent[j].plan = Onward(dir, list[FromPlace(dir, Sizes(list), j)].plan)
    /\ \A j, k \in DOMAIN sent :
          FromPlace(dir, Sizes(list), j) = FromPlace(dir, Sizes(list), k) => j = k
    /\ \A i \in DOMAIN list : dir \in list[i].plan =>
          \E j \in DOMAIN sent : FromPlace(dir, Sizes(list), j) = i

LEMMA HeldForwarded ==
  ASSUME NEW list \in Seq(Held), NEW dir \in Directions
  PROVE  SentOf(list, dir, Forwarded(dir, list))
<1> DEFINE n == Cardinality(BoundTo(dir, Sizes(list)))
           P(j) == FromPlace(dir, Sizes(list), j)
           sent == Forwarded(dir, list)
<1>1. Sizes(list) \in PlanLists /\ \A i \in DOMAIN list : list[i] \in Held /\ Sizes(list)[i] = list[i].plan
  BY HeldIs
<1>2. /\ n \in Nat /\ DOMAIN sent = 1 .. n /\ sent = [j \in 1 .. n |-> sent[j]]
      /\ \A j \in 1 .. n : P(j) \in DOMAIN list /\ dir \in Sizes(list)[P(j)]
                           /\ sent[j] = [list[P(j)] EXCEPT !.plan = Onward(dir, @)]
      /\ \A j, k \in 1 .. n : P(j) = P(k) => j = k
      /\ \A i \in DOMAIN list : dir \in Sizes(list)[i] => \E j \in 1 .. n : P(j) = i
  BY <1>1, ForwardedIs
<1> HIDE DEF n, P, sent
<1>3. ASSUME NEW j \in 1 .. n
      PROVE  /\ P(j) \in DOMAIN list /\ dir \in list[P(j)].plan
             /\ sent[j].tag = list[P(j)].tag
             /\ sent[j].plan = {f \in list[P(j)].plan : f > dir}
             /\ sent[j].plan = Onward(dir, list[P(j)].plan)
             /\ sent[j] \in Held
  <2>1. list[P(j)] \in Held /\ dir \in list[P(j)].plan
    BY <1>1, <1>2
  <2>2. list[P(j)].plan \in AllPlans
    BY <2>1 DEF Held, Local
  <2>3. /\ Onward(dir, list[P(j)].plan) = {f \in list[P(j)].plan : f > dir}
        /\ Onward(dir, list[P(j)].plan) \in AllPlans \cup {Local}
    BY <2>1, <2>2, OnwardIs
  <2>4. sent[j].plan = Onward(dir, list[P(j)].plan) /\ sent[j].tag = list[P(j)].tag /\ sent[j] \in Held
    BY <1>2, <2>1, <2>3 DEF Held
  <2> QED
    BY <1>2, <2>1, <2>3, <2>4
<1>4. sent \in Seq(Held) /\ Len(sent) = n /\ DOMAIN sent = 1 .. n
  BY <1>2, <1>3, FunctionsAre
<1>5. \A i \in DOMAIN list : dir \in list[i].plan => \E j \in 1 .. n : P(j) = i
  BY <1>1, <1>2
<1> QED
  BY <1>2, <1>3, <1>4, <1>5 DEF SentOf, n, P, sent

\* Forwarding, joining and unpacking treat tags and what is loaded for them alike.
LEMMA CarriesForwarded ==
  ASSUME NEW list \in Seq(Held), NEW dir \in Directions, NEW data, NEW own, NEW kind,
         Carries(list, data, own, kind)
  PROVE  Carries(Forwarded(dir, list), Forwarded(dir, data), own, kind)
<1> DEFINE n == Cardinality(BoundTo(dir, Sizes(list)))
           P(j) == FromPlace(dir, Sizes(list), j)
           sent == Forwarded(dir, list)
           out == Forwarded(dir, data)
<1>1. /\ Sizes(data) = Sizes(list) /\ Sizes(list) \in PlanLists /\ data \in Seq(Items(kind))
      /\ DOMAIN data = DOMAIN list /\ DOMAIN list = 1 .. Len(list)
  BY CarriesIs
<1>2. /\ n \in Nat /\ DOMAIN out = 1 .. n /\ out = [j \in 1 .. n |-> out[j]]
      /\ \A j \in 1 .. n : P(j) \in DOMAIN data
                           /\ out[j] = [data[P(j)] EXCEPT !.plan = Onward(dir, @)]
  <2>1. Sizes(data) \in PlanLists
    BY <1>1
  <2> HIDE DEF n, P, out
  <2>2. n = Cardinality(BoundTo(dir, Sizes(data))) /\ \A j : P(j) = FromPlace(dir, Sizes(data), j)
    BY <1>1 DEF n, P
  <2> DEFINE m == Cardinality(BoundTo(dir, Sizes(data)))
             Q(j) == FromPlace(dir, Sizes(data), j)
             fwd == Forwarded(dir, data)
  <2>3. data \in Seq(Items(kind))
    BY <1>1
  <2>4. /\ m \in Nat /\ DOMAIN fwd = 1 .. m /\ fwd = [j \in DOMAIN fwd |-> fwd[j]]
        /\ \A j \in 1 .. m : /\ Q(j) \in DOMAIN data
                             /\ fwd[j] = [data[Q(j)] EXCEPT !.plan = Onward(dir, @)]
    BY <2>1, <2>3, ForwardedIs
  <2>5. n = m /\ out = fwd /\ \A j : P(j) = Q(j)
    BY <2>2 DEF out
  <2> HIDE DEF m, Q, fwd
  <2> QED
    BY <2>4, <2>5
<1>3. SentOf(list, dir, sent)
  BY HeldForwarded
<1>4. /\ sent \in Seq(Held) /\ Len(sent) = n /\ DOMAIN sent = 1 .. n
      /\ \A j \in 1 .. n : /\ P(j) \in DOMAIN list
                           /\ sent[j].tag = list[P(j)].tag
                           /\ sent[j].plan = Onward(dir, list[P(j)].plan)
  BY <1>3 DEF SentOf
<1> HIDE DEF n, P, sent, out
<1>5. ASSUME NEW j \in 1 .. n
      PROVE  IsLoad(sent[j], out[j], own, kind)
  <2>1. IsLoad(list[P(j)], data[P(j)], own, kind)
    BY <1>1, <1>4 DEF Carries
  <2>2. out[j] = [data[P(j)] EXCEPT !.plan = Onward(dir, @)] /\ data[P(j)].plan = list[P(j)].plan
    BY <1>2, <2>1 DEF IsLoad
  <2>3. sent[j] \in Held /\ sent[j].tag = list[P(j)].tag /\ sent[j].plan = Onward(dir, list[P(j)].plan)
    BY <1>4, ElementOfSeq
  <2>4. sent[j].plan \in AllPlans \cup {Local}
    BY <2>3 DEF Held
  <2>5. CASE kind = "exchangeGPU"
    <3>1. data[P(j)] \in GhostItem /\ data[P(j)].ptl.tag = list[P(j)].tag /\ data[P(j)].ptl.pos = own[list[P(j)].tag]
      BY <2>1, <2>5 DEF IsLoad
    <3>2. out[j] \in GhostItem /\ out[j].plan = sent[j].plan /\ out[j].ptl = data[P(j)].ptl
      BY <2>2, <2>3, <2>4, <3>1 DEF GhostItem
    <3> QED
      BY <2>3, <2>5, <3>1, <3>2 DEF IsLoad
  <2>6. CASE kind # "exchangeGPU"
    <3>1. data[P(j)] \in PositionItem /\ data[P(j)].pos = own[list[P(j)].tag]
      BY <2>1, <2>6 DEF IsLoad
    <3>2. out[j] \in PositionItem /\ out[j].plan = sent[j].plan /\ out[j].pos = data[P(j)].pos
      BY <2>2, <2>3, <2>4, <3>1 DEF PositionItem
    <3> QED
      BY <2>3, <2>6, <3>1, <3>2 DEF IsLoad
  <2> QED
    BY <2>5, <2>6
<1>6. Carries(sent, out, own, kind)
  BY <1>2, <1>4, <1>5 DEF Carries
<1> QED
  BY <1>6 DEF sent, out

LEMMA CarriesJoined ==
  ASSUME NEW a \in Seq(Held), NEW b \in Seq(Held), NEW x, NEW y, NEW own, NEW kind,
         Carries(a, x, own, kind), Carries(b, y, own, kind)
  PROVE  Carries(a \o b, x \o y, own, kind) /\ a \o b \in Seq(Held)
<1>1. /\ x \in Seq(Items(kind)) /\ y \in Seq(Items(kind)) /\ Len(x) = Len(a) /\ Len(y) = Len(b)
      /\ DOMAIN x = DOMAIN a /\ DOMAIN y = DOMAIN b
  BY CarriesIs
<1> DEFINE ab == a \o b
           xy == x \o y
<1>2. /\ ab \in Seq(Held) /\ DOMAIN ab = 1 .. Len(a) + Len(b) /\ Len(ab) = Len(a) + Len(b)
      /\ DOMAIN a = 1 .. Len(a) /\ DOMAIN b = 1 .. Len(b)
  BY Joined
<1>3. xy \in Seq(Items(kind)) /\ DOMAIN xy = 1 .. Len(x) + Len(y)
  BY <1>1, Joined
<1>4. IsJoined(a, b, ab) /\ IsJoined(x, y, xy) /\ Len(a) \in Nat /\ Len(b) \in Nat
  BY <1>1, JoinedLists, LenProperties
<1> HIDE DEF ab, xy
<1>5. xy = [i \in 1 .. Len(ab) |-> xy[i]]
  <2>1. xy = [i \in DOMAIN xy |-> xy[i]]
    BY <1>3, SeqDef
  <2>2. DOMAIN xy = 1 .. Len(ab)
    BY <1>1, <1>2, <1>3
  <2> QED
    BY <2>1, <2>2
<1>6. ASSUME NEW i \in 1 .. Len(ab)
      PROVE  IsLoad(ab[i], xy[i], own, kind)
  <2>1. CASE i \in DOMAIN a
    BY <1>1, <1>2, <1>4, <2>1 DEF IsJoined, Carries
  <2>2. CASE i \notin DOMAIN a
    <3>1. PICK j \in DOMAIN b : i = Len(a) + j
      <4>1. i - Len(a) \in DOMAIN b /\ i = Len(a) + (i - Len(a))
        BY <1>2, <1>4, <2>2
      <4> QED
        BY <4>1
    <3> QED
      BY <1>1, <1>2, <1>4, <3>1 DEF IsJoined, Carries
  <2> QED
    BY <2>1, <2>2
<1> QED
  BY <1>2, <1>5, <1>6 DEF Carries, ab, xy

\* What is unpacked in the place of what is held.
LEMMA CarriesUnpacked ==
  ASSUME NEW list \in Seq(Held), NEW data, NEW own, NEW kind, Carries(list, data, own, kind),
         NEW r, Len(ghostIdx[r]) \in Nat
  PROVE  /\ Unpacked(r, list) \in Seq(Held) /\ Unpacked(r, data) \in Seq(Items(kind))
         /\ Carries(Unpacked(r, list), Unpacked(r, data), own, kind)
         /\ Len(Unpacked(r, data)) = Len(Unpacked(r, list)) /\ DOMAIN Unpacked(r, data) = DOMAIN Unpacked(r, list)
<1> DEFINE n == Len(ghostIdx[r])
           c == Cardinality(Kept(n, Sizes(list)))
           P(j) == KeptPlace(n, Sizes(list), j)
           in == Unpacked(r, list)
           out == Unpacked(r, data)
<1>1. /\ Sizes(data) = Sizes(list) /\ Sizes(list) \in PlanLists /\ data \in Seq(Items(kind))
      /\ DOMAIN data = DOMAIN list /\ DOMAIN list = 1 .. Len(list)
  BY CarriesIs
<1>2. /\ c \in Nat /\ in \in Seq(Held) /\ DOMAIN in = 1 .. c
      /\ \A j \in 1 .. c : P(j) \in DOMAIN list /\ in[j] = list[P(j)]
  <2>1. in \in Seq(Held) /\ UnpackedOf(list, n, in)
    BY <1>1, UnpackedIs
  <2> QED
    BY <2>1 DEF UnpackedOf
<1>3. /\ out \in Seq(Items(kind)) /\ DOMAIN out = 1 .. c
      /\ \A j \in 1 .. c : out[j] = data[P(j)]
  <2>1. out \in Seq(Items(kind)) /\ UnpackedOf(data, n, out)
    BY <1>1, UnpackedIs
  <2> QED
    BY <1>1, <2>1 DEF UnpackedOf
<1> HIDE DEF n, c, P, in, out
<1>4. Len(in) = c /\ Len(out) = c
  BY <1>2, <1>3, LenProperties
<1>5. out = [j \in 1 .. Len(in) |-> out[j]]
  BY <1>3, <1>4, SeqDef
<1>6. \A j \in 1 .. c : IsLoad(in[j], out[j], own, kind)
  BY <1>1, <1>2, <1>3 DEF Carries
<1>7. Carries(in, out, own, kind)
  BY <1>4, <1>5, <1>6 DEF Carries
<1> QED
  BY <1>2, <1>3, <1>4, <1>7 DEF in, out

-----------------------------------------------------------------------------
(* How far the ranks are after a step of a round.                           *)

LEMMA StepProgress ==
  ASSUME RoundOrder, NEW r \in Ranks, GoesOn(r), SendsNext(r) \/ EndsRound(r),
         UNCHANGED <<moves, communicator>>
  PROVE  /\ stage[r] \in 0 .. Len(Route) /\ Len(Route) \in Nat \ {0} /\ DOMAIN Route = 1 .. Len(Route)
         /\ stage[r] = 0 <=> phase[r] = Beginning
         /\ stage[r] # 0 => phase[r] = Working
         /\ IF stage[r] = Len(Route) THEN phase'[r] = "current" /\ stage'[r] = 0
            ELSE phase'[r] = Working /\ stage'[r] = stage[r] + 1 /\ stage[r] + 1 \in DOMAIN Route
         /\ moves = 0 => /\ Announced(r) = stage[r]
                         /\ Exchanged(r) = IF stage[r] = 0 THEN 0 ELSE stage[r] - 1
                         /\ Exchanged(r)' = stage[r]
                         /\ Announced(r)' = IF stage[r] = Len(Route) THEN stage[r] ELSE stage[r] + 1
         /\ moves # 0 => \A s \in Ranks :
               /\ Announced(s) = Len(Route) /\ Exchanged(s) = Len(Route)
               /\ Announced(s)' = Len(Route) /\ Exchanged(s)' = Len(Route)
         /\ \A s \in Ranks \ {r} : Exchanged(s)' = Exchanged(s) /\ Announced(s)' = Announced(s)
         /\ \A s \in Ranks \ {r} : phase'[s] = phase[s] /\ stage'[s] = stage[s]
         /\ phase[r] # "current" /\ Working' = Working /\ Kind' = Kind /\ Working # "current"
<1>1. /\ Len(Route) \in Nat \ {0} /\ DOMAIN Route = 1 .. Len(Route)
      /\ stage \in [Ranks -> 0 .. Len(Route)] /\ DOMAIN phase = Ranks
      /\ phase[r] = Beginning \/ phase[r] = Working
      /\ stage[r] = 0 <=> phase[r] # Working
      /\ Beginning # "current" /\ Working # "current" /\ Beginning # Working
  BY RouteShape, KindIs DEF RoundOrder, GoesOn
<1>2. Working' = Working /\ Kind' = Kind
  BY DEF Working, Kind
<1>3. CASE stage[r] = Len(Route)
  <2>1. EndsRound(r)
    <3>0. stage[r] + 1 \notin DOMAIN Route
      BY <1>1, <1>3
    <3>1. ~ SendsNext(r)
      BY <3>0 DEF SendsNext
    <3> QED
      BY <3>1
  <2>2. /\ phase'[r] = "current" /\ stage'[r] = 0
        /\ \A s \in Ranks \ {r} : phase'[s] = phase[s] /\ stage'[s] = stage[s]
    BY <1>1, <2>1 DEF EndsRound
  <2>3. Exchanged(r)' = Len(Route) /\ Announced(r)' = Len(Route)
    BY <2>2 DEF Exchanged, Announced
  <2>4. \A s \in Ranks \ {r} : Exchanged(s)' = Exchanged(s) /\ Announced(s)' = Announced(s)
    BY <2>2 DEF Exchanged, Announced
  <2>5. moves # 0 => \A s \in Ranks :
               /\ Announced(s) = Len(Route) /\ Exchanged(s) = Len(Route)
               /\ Announced(s)' = Len(Route) /\ Exchanged(s)' = Len(Route)
    BY <2>3, <2>4, LayerAssumption DEF Exchanged, Announced, RoundOrder
  <2>6. moves = 0 => Announced(r) = stage[r] /\ Exchanged(r) = IF stage[r] = 0 THEN 0 ELSE stage[r] - 1
    BY <1>1 DEF Exchanged, Announced
  <2> QED
    BY <1>1, <1>2, <1>3, <2>2, <2>3, <2>4, <2>5, <2>6
<1>4. CASE stage[r] # Len(Route)
  <2>1. SendsNext(r) /\ stage[r] + 1 \in DOMAIN Route /\ stage[r] + 1 # 0 /\ (stage[r] + 1) - 1 = stage[r]
    BY <1>1, <1>4 DEF EndsRound
  <2>2. phase' = [phase EXCEPT ![r] = Working] /\ stage' = [stage EXCEPT ![r] = stage[r] + 1]
    BY <2>1 DEF SendsNext
  <2>3. /\ phase'[r] = Working /\ stage'[r] = stage[r] + 1
        /\ \A s \in Ranks \ {r} : phase'[s] = phase[s] /\ stage'[s] = stage[s]
    BY <1>1, <2>2
  <2>4. moves = 0 => Exchanged(r)' = stage[r] /\ Announced(r)' = stage[r] + 1
    BY <1>1, <2>1, <2>3 DEF Exchanged, Announced
  <2>5. \A s \in Ranks \ {r} : Exchanged(s)' = Exchanged(s) /\ Announced(s)' = Announced(s)
    BY <2>3 DEF Exchanged, Announced
  <2>6. moves # 0 => \A s \in Ranks :
               /\ Announced(s) = Len(Route) /\ Exchanged(s) = Len(Route)
               /\ Announced(s)' = Len(Route) /\ Exchanged(s)' = Len(Route)
    BY LayerAssumption DEF Exchanged, Announced, RoundOrder
  <2>7. moves = 0 => Announced(r) = stage[r] /\ Exchanged(r) = IF stage[r] = 0 THEN 0 ELSE stage[r] - 1
    BY <1>1 DEF Exchanged, Announced
  <2> QED
    BY <1>1, <1>2, <1>4, <2>1, <2>3, <2>4, <2>5, <2>6, <2>7
<1> QED
  BY <1>3, <1>4

-----------------------------------------------------------------------------
(* CommunicatorGPU: the buffers of the ranks.  H[<<r, k>>] are the plans    *)
(* and tags of what rank r holds when it has received from k directions.    *)

Histories == [Ranks \X (0 .. Len(Route)) -> Seq(Held)]
Index == [plan : AllPlans, idx : Nat]

\* What a rank sends in a direction.
Forwards(r, k, H) == Forwarded(Route[k], H[<<r, k - 1>>])

\* A rank's own particles are the first in its buffers, and found by index.
OwnHeld(index, list, held) ==
    /\ Len(held) = Len(index)
    /\ \A n \in DOMAIN index : held[n].plan = index[n].plan /\ held[n].tag = list[index[n].idx].tag

\* No particle is held twice; what is not the rank's own came on its way.
HeldAt(r, held, k, home, way, n, list) ==
    /\ TagsApart(held)
    /\ \A i \in DOMAIN held :
           held[i].plan \subseteq way[held[i].tag] /\ Reached(r, home[held[i].tag], way[held[i].tag], k)
    /\ \A i \in DOMAIN held : i > n => \A j \in DOMAIN list : list[j].tag # held[i].tag

CarriesOne(count, from, H, m, own, kind) ==
    \E k \in 1 .. count : m.dir = Route[k] /\ Carries(Forwards(from, k, H), m.data, own, kind)

BufferTypes ==
    /\ ghostIdx \in [Ranks -> Seq(Index)] /\ DOMAIN ghostBuf = Ranks
    /\ numGhosts \in [Ranks -> [Directions -> PlanLists]]
    /\ ghosts \in [Ranks -> Seq(Located)] /\ DOMAIN rtag = Ranks
    /\ copyGhosts = Cleared /\ numRecv = [r \in Ranks |-> [dir \in Directions |-> 0]]

IndexPlaces(r, H) ==
    /\ \A n \in DOMAIN ghostIdx[r] : ghostIdx[r][n].idx \in DOMAIN ptls[r]
    /\ Announced(r) >= 1 => OwnHeld(ghostIdx[r], ptls[r], H[<<r, 0>>])

Received(r, H) ==
    \A k \in 1 .. Exchanged(r) :
        /\ k <= Announced(Src(r, k))
        /\ H[<<r, k>>] = H[<<r, k - 1>>] \o Forwards(Src(r, k), k, H)
        /\ numGhosts[r][Route[k]] = Sizes(Forwards(Src(r, k), k, H))

HeldPlaces(r, H) ==
    moves = 0 /\ Announced(r) >= 1 =>
        \A k \in 0 .. Exchanged(r) : HeldAt(r, H[<<r, k>>], k, Home, Way, Len(ghostIdx[r]), ptls[r])

Loaded(r, H) ==
    phase[r] = Working => Carries(H[<<r, stage[r] - 1>>], ghostBuf[r], OwnPosition, Kind)

GhostPlaces(r, H) ==
    /\ TagsApart(Arrays(r)) /\ rtag[r] = Indexed(NoIndex, Arrays(r))
    /\ IF moves > 0 \/ phase[r] = "current"
       THEN SameTags(ghosts[r], Unpacked(r, H[<<r, Len(Route)>>])) ELSE ghosts[r] = <<>>
    /\ phase[r] = "current" => CurrentGhosts(r, ghosts[r], OwnPosition, Len(ghosts[r]))

AllLoaded(H) ==
    \A from, to \in Ranks : \A i \in DOMAIN channel[<<from, to>>] :
        CarriesOne(Announced(from), from, H, channel[<<from, to>>][i], OwnPosition, Kind)

BufferInv(H) ==
    /\ H \in Histories /\ BufferTypes
    /\ \A r \in Ranks : IndexPlaces(r, H) /\ Received(r, H) /\ HeldPlaces(r, H)
                        /\ Loaded(r, H) /\ GhostPlaces(r, H)
    /\ AllLoaded(H)

-----------------------------------------------------------------------------
\* The steps of a round: what a rank holds, buf, is a history longer by what has
\* come, or begins it with the particles of the rank.
BufferStep(r, H, H2, buf) ==
    /\ communicator = "GPU" /\ GoesOn(r) /\ UNCHANGED <<ptls, moves, communicator, plan, copyGhosts, numRecv>>
    /\ H2 \in Histories /\ \A p \in Ranks \X (0 .. Len(Route)) : p # <<r, stage[r]>> => H2[p] = H[p]
    /\ moves > 0 => H2 = H /\ UNCHANGED ghostIdx
    /\ ghostIdx' \in [Ranks -> Seq(Index)] /\ \A s \in Ranks \ {r} : ghostIdx'[s] = ghostIdx[s]
    /\ \A n \in DOMAIN ghostIdx'[r] : ghostIdx'[r][n].idx \in DOMAIN ptls[r]
    /\ IF stage[r] = 0
       THEN /\ OwnHeld(ghostIdx'[r], ptls[r], H2[<<r, 0>>]) /\ UNCHANGED numGhosts
            /\ moves = 0 => HeldAt(r, H2[<<r, 0>>], 0, Home, Way, Len(ghostIdx'[r]), ptls[r])
       ELSE /\ UNCHANGED ghostIdx /\ stage[r] <= Announced(Src(r, stage[r]))
            /\ H2[<<r, stage[r]>>] = H[<<r, stage[r] - 1>>] \o Forwards(Src(r, stage[r]), stage[r], H)
            /\ numGhosts' \in [Ranks -> [Directions -> PlanLists]]
            /\ numGhosts'[r][Route[stage[r]]] = Sizes(Forwards(Src(r, stage[r]), stage[r], H))
            /\ \A s \in Ranks : \A dir \in Directions :
                   <<s, dir>> # <<r, Route[stage[r]]>> => numGhosts'[s][dir] = numGhosts[s][dir]
    /\ Carries(H2[<<r, stage[r]>>], buf, OwnPosition, Kind)
    /\ IF stage[r] # Len(Route)
       THEN /\ ghostBuf' = [ghostBuf EXCEPT ![r] = buf] /\ UNCHANGED <<ghosts, rtag>>
            /\ SendGhostBuffers(r, stage[r] + 1, Kind, buf, LeftBy(r))
       ELSE /\ ghostBuf' = [ghostBuf EXCEPT ![r] = <<>>] /\ EndsRound(r)
            /\ ghosts' \in [Ranks -> Seq(Located)] /\ \A s \in Ranks \ {r} : ghosts'[s] = ghosts[s]
            /\ SameTags(ghosts'[r], Unpacked(r, H2[<<r, Len(Route)>>]))
            /\ CurrentGhosts(r, ghosts'[r], OwnPosition, Len(ghosts'[r]))
            /\ IF moves = 0 THEN rtag' = [rtag EXCEPT ![r] = Indexed(rtag[r], ptls[r] \o ghosts'[r])]
               ELSE UNCHANGED rtag

LEMMA BufferStepGoesOn ==
  ASSUME RoundOrder, NEW r \in Ranks, NEW H, NEW H2, NEW buf, BufferStep(r, H, H2, buf)
  PROVE  /\ GoesOn(r) /\ (SendsNext(r) \/ EndsRound(r)) /\ UNCHANGED <<ptls, moves, communicator>>
         /\ Kind = Working
<1>1. stage[r] \in 0 .. Len(Route) /\ Len(Route) \in Nat /\ DOMAIN Route = 1 .. Len(Route) /\ Kind = Working
  BY RouteShape DEF RoundOrder, BufferStep, Kind, Working
<1>2. CASE stage[r] = Len(Route)
  BY <1>1, <1>2 DEF BufferStep
<1>3. CASE stage[r] # Len(Route)
  <2>1. stage[r] + 1 \in DOMAIN Route
    BY <1>1, <1>3
  <2>2. SendGhostBuffers(r, stage[r] + 1, Kind, buf, LeftBy(r))
    BY <1>3 DEF BufferStep
  <2>3. SendsNext(r)
    BY <1>1, <2>1, <2>2, SendsBuffers
  <2> QED
    BY <1>1, <2>3 DEF BufferStep
<1> QED
  BY <1>2, <1>3

\* What has been announced of the history stays as it was.
LEMMA HistoryKept ==
  ASSUME RoundOrder, NEW r \in Ranks, NEW H, BufferInv(H), NEW H2, NEW buf, BufferStep(r, H, H2, buf)
  PROVE  /\ \A s \in Ranks \ {r} : \A k \in 0 .. Len(Route) : H2[<<s, k>>] = H[<<s, k>>]
         /\ \A s \in Ranks : \A k \in 0 .. Len(Route) : k < Announced(s) => H2[<<s, k>>] = H[<<s, k>>]
         /\ \A s \in Ranks : \A k \in 1 .. Announced(s) : Forwards(s, k, H2) = Forwards(s, k, H)
         /\ \A s \in Ranks : Announced(s) <= Announced(s)' /\ Announced(s)' \in 0 .. Len(Route)
<1>1. GoesOn(r) /\ (SendsNext(r) \/ EndsRound(r)) /\ UNCHANGED <<ptls, moves, communicator>>
  BY BufferStepGoesOn
<1>2. /\ \A p \in Ranks \X (0 .. Len(Route)) : p # <<r, stage[r]>> => H2[p] = H[p]
      /\ moves > 0 => H2 = H
  BY DEF BufferStep
<1>3. \A s \in Ranks \ {r} : \A k \in 0 .. Len(Route) : H2[<<s, k>>] = H[<<s, k>>]
  BY <1>2
<1>4. /\ stage[r] \in 0 .. Len(Route) /\ Len(Route) \in Nat
      /\ moves = 0 => Announced(r) = stage[r]
      /\ moves = 0 => Announced(r)' = IF stage[r] = Len(Route) THEN stage[r] ELSE stage[r] + 1
      /\ moves # 0 => \A s \in Ranks : Announced(s) = Len(Route) /\ Announced(s)' = Len(Route)
      /\ \A s \in Ranks \ {r} : Announced(s)' = Announced(s)
  BY <1>1, StepProgress
<1>5. \A s \in Ranks : Announced(s) \in 0 .. Len(Route)
  BY ProgressIs
<1>6. moves \in Nat
  BY LayerAssumption DEF RoundOrder
<1>7. \A s \in Ranks : \A k \in 0 .. Len(Route) : k < Announced(s) => H2[<<s, k>>] = H[<<s, k>>]
  <2>1. CASE moves = 0
    BY <1>2, <1>3, <1>4, <2>1
  <2>2. CASE moves # 0
    BY <1>2, <1>6, <2>2
  <2> QED
    BY <2>1, <2>2
<1>8. ASSUME NEW s \in Ranks, NEW k \in 1 .. Announced(s)
      PROVE  Forwards(s, k, H2) = Forwards(s, k, H)
  <2>1. k - 1 \in 0 .. Len(Route) /\ k - 1 < Announced(s)
    BY <1>4, <1>5
  <2>2. H2[<<s, k - 1>>] = H[<<s, k - 1>>]
    BY <1>7, <2>1
  <2> QED
    BY <2>2 DEF Forwards
<1>9. \A s \in Ranks : Announced(s) <= Announced(s)' /\ Announced(s)' \in 0 .. Len(Route)
  <2>1. CASE moves = 0
    BY <1>4, <1>5, <2>1
  <2>2. CASE moves # 0
    BY <1>4, <1>5, <2>2
  <2> QED
    BY <2>1, <2>2
<1> QED
  BY <1>3, <1>7, <1>8, <1>9

LEMMA BufferReceived ==
  ASSUME RoundOrder, NEW r \in Ranks, NEW H, BufferInv(H), NEW H2, NEW buf, BufferStep(r, H, H2, buf)
  PROVE  /\ \A s \in Ranks : Received(s, H2)'
         /\ numGhosts' \in [Ranks -> [Directions -> PlanLists]]
<1>1. GoesOn(r) /\ (SendsNext(r) \/ EndsRound(r)) /\ UNCHANGED <<ptls, moves, communicator>>
  BY BufferStepGoesOn
<1>2. /\ stage[r] \in 0 .. Len(Route) /\ Len(Route) \in Nat /\ DOMAIN Route = 1 .. Len(Route)
      /\ moves = 0 => Exchanged(r) = IF stage[r] = 0 THEN 0 ELSE stage[r] - 1
      /\ moves = 0 => Exchanged(r)' = stage[r] /\ Announced(r) = stage[r]
      /\ moves # 0 => Exchanged(r) = Len(Route) /\ Exchanged(r)' = Len(Route)
      /\ \A s \in Ranks \ {r} : Exchanged(s)' = Exchanged(s)
  BY <1>1, StepProgress
<1>3. /\ \A s \in Ranks \ {r} : \A k \in 0 .. Len(Route) : H2[<<s, k>>] = H[<<s, k>>]
      /\ \A s \in Ranks : \A k \in 0 .. Len(Route) : k < Announced(s) => H2[<<s, k>>] = H[<<s, k>>]
      /\ \A s \in Ranks : \A k \in 1 .. Announced(s) : Forwards(s, k, H2) = Forwards(s, k, H)
      /\ \A s \in Ranks : Announced(s) <= Announced(s)' /\ Announced(s)' \in 0 .. Len(Route)
  BY HistoryKept
<1>4. \A s \in Ranks : Announced(s) \in 0 .. Len(Route) /\ Exchanged(s) \in 0 .. Len(Route) /\ Exchanged(s) <= Announced(s)
  BY ProgressIs
<1>5. numGhosts \in [Ranks -> [Directions -> PlanLists]] /\ \A s \in Ranks : Received(s, H)
  BY DEF BufferInv, BufferTypes
<1>6. /\ IF stage[r] = 0 THEN UNCHANGED numGhosts
         ELSE /\ stage[r] <= Announced(Src(r, stage[r]))
              /\ H2[<<r, stage[r]>>] = H[<<r, stage[r] - 1>>] \o Forwards(Src(r, stage[r]), stage[r], H)
              /\ numGhosts' \in [Ranks -> [Directions -> PlanLists]]
              /\ numGhosts'[r][Route[stage[r]]] = Sizes(Forwards(Src(r, stage[r]), stage[r], H))
              /\ \A s \in Ranks : \A dir \in Directions :
                     <<s, dir>> # <<r, Route[stage[r]]>> => numGhosts'[s][dir] = numGhosts[s][dir]
      /\ moves > 0 => H2 = H
  BY DEF BufferStep
<1>7. moves \in Nat
  BY LayerAssumption DEF RoundOrder
<1>8. ASSUME NEW s \in Ranks, NEW k \in 1 .. Exchanged(s)', ~ (s = r /\ k = stage[r])
      PROVE  /\ k <= Announced(Src(s, k))'
             /\ H2[<<s, k>>] = H2[<<s, k - 1>>] \o Forwards(Src(s, k), k, H2)
             /\ numGhosts'[s][Route[k]] = Sizes(Forwards(Src(s, k), k, H2))
  <2>1. k \in 1 .. Exchanged(s) /\ k \in DOMAIN Route /\ k \in Nat /\ k >= 1
    <3>1. CASE moves = 0
      BY <1>2, <1>4, <1>8, <3>1
    <3>2. CASE moves # 0
      BY <1>2, <1>4, <1>8, <3>2
    <3> QED
      BY <3>1, <3>2
  <2>2. Src(s, k) \in Ranks /\ Route[k] \in Directions
    BY <2>1, SrcIs
  <2>3. /\ k <= Announced(Src(s, k))
        /\ H[<<s, k>>] = H[<<s, k - 1>>] \o Forwards(Src(s, k), k, H)
        /\ numGhosts[s][Route[k]] = Sizes(Forwards(Src(s, k), k, H))
    BY <1>5, <2>1 DEF Received
  <2>4. Forwards(Src(s, k), k, H2) = Forwards(Src(s, k), k, H)
    BY <1>3, <1>4, <2>1, <2>2, <2>3
  <2>5. H2[<<s, k>>] = H[<<s, k>>] /\ H2[<<s, k - 1>>] = H[<<s, k - 1>>]
    <3>1. k \in 0 .. Len(Route) /\ k - 1 \in 0 .. Len(Route) /\ k - 1 < Announced(s)
      BY <1>4, <2>1
    <3>2. H2[<<s, k - 1>>] = H[<<s, k - 1>>]
      BY <1>3, <3>1
    <3>3. CASE s = r
      <4>1. CASE moves = 0
        <5>1. k < stage[r] /\ stage[r] <= Announced(r)
          BY <1>2, <1>4, <1>8, <2>1, <3>3, <4>1
        <5>2. k < Announced(s)
          BY <1>2, <1>4, <3>3, <5>1, <2>1
        <5> QED
          BY <1>3, <3>1, <3>2, <5>2
      <4>2. CASE moves # 0
        BY <1>6, <1>7, <4>2
      <4> QED
        BY <4>1, <4>2
    <3>4. CASE s # r
      BY <1>3, <3>1, <3>4
    <3> QED
      BY <3>2, <3>3, <3>4
  <2>6. numGhosts'[s][Route[k]] = numGhosts[s][Route[k]]
    <3>1. CASE stage[r] = 0
      BY <1>6, <3>1
    <3>2. CASE stage[r] # 0
      <4>1. stage[r] \in DOMAIN Route
        BY <1>2, <3>2
      <4>2. s = r => Route[k] # Route[stage[r]]
        BY <1>8, <2>1, <4>1, RouteDiffers
      <4> QED
        BY <1>6, <2>2, <3>2, <4>2
    <3> QED
      BY <3>1, <3>2
  <2>7. k <= Announced(Src(s, k))'
    BY <1>3, <1>4, <2>1, <2>2, <2>3
  <2> QED
    BY <2>3, <2>4, <2>5, <2>6, <2>7
<1>9. ASSUME NEW k \in DOMAIN Route, k = stage[r]
      PROVE  /\ k <= Announced(Src(r, k))'
             /\ H2[<<r, k>>] = H2[<<r, k - 1>>] \o Forwards(Src(r, k), k, H2)
             /\ numGhosts'[r][Route[k]] = Sizes(Forwards(Src(r, k), k, H2))
  <2>1. stage[r] # 0
    BY <1>2, <1>9
  <2>2. Src(r, k) \in Ranks /\ k \in Nat /\ k >= 1 /\ k <= Announced(Src(r, k))
    BY <1>2, <1>6, <1>9, <2>1, SrcIs
  <2>3. k <= Announced(Src(r, k))' /\ Forwards(Src(r, k), k, H2) = Forwards(Src(r, k), k, H)
    BY <1>3, <1>4, <2>2
  <2>4. H2[<<r, k - 1>>] = H[<<r, k - 1>>]
    <3>1. k - 1 \in 0 .. Len(Route) /\ <<r, k - 1>> # <<r, stage[r]>>
      BY <1>2, <1>9, <2>2
    <3> QED
      BY <3>1 DEF BufferStep
  <2>5. /\ H2[<<r, k>>] = H[<<r, k - 1>>] \o Forwards(Src(r, k), k, H)
        /\ numGhosts'[r][Route[k]] = Sizes(Forwards(Src(r, k), k, H))
    BY <1>6, <1>9, <2>1
  <2> QED
    BY <2>3, <2>4, <2>5
<1>10. ASSUME NEW s \in Ranks, NEW k \in 1 .. Exchanged(s)'
       PROVE  /\ k <= Announced(Src(s, k))'
              /\ H2[<<s, k>>] = H2[<<s, k - 1>>] \o Forwards(Src(s, k), k, H2)
              /\ numGhosts'[s][Route[k]] = Sizes(Forwards(Src(s, k), k, H2))
  <2>1. CASE s = r /\ k = stage[r]
    <3>1. k \in DOMAIN Route
      BY <1>2, <2>1
    <3> QED
      BY <1>9, <2>1, <3>1
  <2> QED
    BY <1>8, <2>1
<1>11. \A s \in Ranks : Received(s, H2)'
  BY <1>10, Zenon DEF Received, Forwards
<1> QED
  BY <1>5, <1>6, <1>11

LEMMA BufferIndices ==
  ASSUME RoundOrder, NEW r \in Ranks, NEW H, BufferInv(H), NEW H2, NEW buf, BufferStep(r, H, H2, buf)
  PROVE  \A s \in Ranks : IndexPlaces(s, H2)'
<1>1. GoesOn(r) /\ (SendsNext(r) \/ EndsRound(r)) /\ UNCHANGED <<ptls, moves, communicator>>
  BY BufferStepGoesOn
<1>2. /\ \A s \in Ranks \ {r} : Announced(s)' = Announced(s)
      /\ stage[r] \in 0 .. Len(Route) /\ Len(Route) \in Nat
      /\ moves = 0 => Announced(r) = stage[r]
      /\ moves # 0 => Announced(r) = Len(Route) /\ Len(Route) >= 1
  BY <1>1, StepProgress
<1>3. /\ \A s \in Ranks \ {r} : \A k \in 0 .. Len(Route) : H2[<<s, k>>] = H[<<s, k>>]
      /\ \A k \in 0 .. Len(Route) : k < Announced(r) => H2[<<r, k>>] = H[<<r, k>>]
  BY HistoryKept
<1>4. \A s \in Ranks : IndexPlaces(s, H)
  BY DEF BufferInv
<1>5. /\ \A s \in Ranks \ {r} : ghostIdx'[s] = ghostIdx[s]
      /\ \A n \in DOMAIN ghostIdx'[r] : ghostIdx'[r][n].idx \in DOMAIN ptls[r]
      /\ IF stage[r] = 0 THEN OwnHeld(ghostIdx'[r], ptls[r], H2[<<r, 0>>]) ELSE UNCHANGED ghostIdx
  BY DEF BufferStep
<1>6. ASSUME NEW s \in Ranks, s # r
      PROVE  /\ \A n \in DOMAIN ghostIdx'[s] : ghostIdx'[s][n].idx \in DOMAIN ptls'[s]
             /\ Announced(s)' >= 1 => OwnHeld(ghostIdx'[s], ptls'[s], H2[<<s, 0>>])
  <2>1. H2[<<s, 0>>] = H[<<s, 0>>]
    BY <1>2, <1>3, <1>6
  <2> QED
    BY <1>1, <1>2, <1>4, <1>5, <1>6, <2>1 DEF IndexPlaces
<1>7. OwnHeld(ghostIdx'[r], ptls'[r], H2[<<r, 0>>])
  <2>1. CASE stage[r] = 0
    BY <1>1, <1>5, <2>1
  <2>2. CASE stage[r] # 0
    <3>1. Announced(r) >= 1
      <4>1. CASE moves = 0
        BY <1>2, <2>2, <4>1
      <4>2. CASE moves # 0
        BY <1>2, <4>2
      <4> QED
        BY <4>1, <4>2
    <3>2. Announced(r) \in Nat
      BY ProgressIs
    <3>3. H2[<<r, 0>>] = H[<<r, 0>>]
      BY <1>2, <1>3, <3>1, <3>2
    <3> QED
      BY <1>1, <1>4, <1>5, <2>2, <3>1, <3>3 DEF IndexPlaces
  <2> QED
    BY <2>1, <2>2
<1> QED
  BY <1>1, <1>5, <1>6, <1>7, Zenon DEF IndexPlaces

\* What a rank gets on the way of its plans was not there.
LEMMA HeldNext ==
  ASSUME Owned, NEW k \in DOMAIN Route, NEW r \in Ranks, NEW a \in Seq(Held), NEW b \in Seq(Held),
         NEW n, NEW m, NEW list, HeldAt(r, a, k - 1, Home, Way, n, ptls[r]),
         HeldAt(Src(r, k), b, k - 1, Home, Way, m, list)
  PROVE  HeldAt(r, a \o Forwarded(Route[k], b), k, Home, Way, n, ptls[r])
<1> DEFINE sent == Forwarded(Route[k], b)
           all == a \o sent
           P(j) == FromPlace(Route[k], Sizes(b), j)
<1>1. Route[k] \in Directions /\ Src(r, k) \in Ranks /\ k \in Nat /\ k - 1 \in Int /\ k - 1 <= k /\ k \in Int
  BY SrcIs, RouteShape
<1>2. SentOf(b, Route[k], sent)
  BY <1>1, HeldForwarded
<1>3. /\ sent \in Seq(Held)
      /\ \A j \in DOMAIN sent :
            /\ P(j) \in DOMAIN b /\ Route[k] \in b[P(j)].plan /\ sent[j].tag = b[P(j)].tag
            /\ sent[j].plan \subseteq b[P(j)].plan
      /\ \A i, j \in DOMAIN sent : P(i) = P(j) => i = j
  BY <1>2 DEF SentOf
<1> HIDE DEF sent, P
<1>4. /\ all \in Seq(Held) /\ IsJoined(a, sent, all)
      /\ \A i \in DOMAIN all : i \in DOMAIN a \/ (i - Len(a) \in DOMAIN sent /\ all[i] = sent[i - Len(a)])
      /\ Len(a) \in Nat /\ DOMAIN all \subseteq Int
  <2>1. all \in Seq(Held) /\ IsJoined(a, sent, all)
    BY <1>3, JoinedLists
  <2> QED
    BY <2>1 DEF IsJoined
<1>5. ASSUME NEW j \in DOMAIN sent
      PROVE  /\ sent[j].plan \subseteq Way[sent[j].tag] /\ sent[j].tag \in Tags
             /\ Reached(r, Home[sent[j].tag], Way[sent[j].tag], k)
             /\ ~ Reached(r, Home[sent[j].tag], Way[sent[j].tag], k - 1)
  <2> DEFINE tag == sent[j].tag
             home == Home[tag]
             way == Way[tag]
  <2>0. sent[j] \in Held
    BY <1>3, ElementOfSeq
  <2>1. tag \in Tags /\ tag = b[P(j)].tag
    BY <1>3, <2>0 DEF Held
  <2>2. home \in Ranks /\ OneWay(way)
    BY <2>1, WayIs
  <2>3. b[P(j)].plan \subseteq way /\ Reached(Src(r, k), home, way, k - 1)
    BY <1>3, <2>1 DEF HeldAt
  <2>4. Route[k] \in way /\ sent[j].plan \subseteq way
    BY <1>3, <2>3
  <2> HIDE DEF home, way
  <2>5. Reached(r, home, way, k) /\ ~ Reached(r, home, way, k - 1)
    BY <2>2, <2>3, <2>4, ReachedNext
  <2> QED
    BY <2>1, <2>4, <2>5 DEF home, way
<1>6. ASSUME NEW i \in DOMAIN a
      PROVE  /\ a[i].plan \subseteq Way[a[i].tag] /\ Reached(r, Home[a[i].tag], Way[a[i].tag], k - 1)
             /\ Reached(r, Home[a[i].tag], Way[a[i].tag], k)
  <2>1. a[i].plan \subseteq Way[a[i].tag] /\ Reached(r, Home[a[i].tag], Way[a[i].tag], k - 1)
    BY DEF HeldAt
  <2>2. Reached(r, Home[a[i].tag], Way[a[i].tag], k)
    BY <1>1, <2>1, ReachedLonger
  <2> QED
    BY <2>1, <2>2
<1>7. \A i \in DOMAIN a, j \in DOMAIN sent : a[i].tag # sent[j].tag
  BY <1>5, <1>6
<1>8. \A i \in DOMAIN ptls[r], j \in DOMAIN sent : ptls[r][i].tag # sent[j].tag
  <2>1. ASSUME NEW i \in DOMAIN ptls[r], NEW j \in DOMAIN sent, ptls[r][i].tag = sent[j].tag
        PROVE  FALSE
    <3>1. Home[sent[j].tag] = r
      BY <1>5, <2>1, OwnerIs DEF Home
    <3> QED
      BY <1>5, <3>1, ReachedFirst
  <2> QED
    BY <2>1
<1> HIDE DEF all
<1>9. TagsApart(all)
  <2>1. ASSUME NEW i \in DOMAIN all, NEW j \in DOMAIN all, all[i].tag = all[j].tag
        PROVE  i = j
    <3>1. CASE i \in DOMAIN a /\ j \in DOMAIN a
      BY <1>4, <2>1, <3>1 DEF IsJoined, HeldAt, TagsApart
    <3>2. CASE i \in DOMAIN a /\ j \notin DOMAIN a
      BY <1>4, <1>7, <2>1, <3>2 DEF IsJoined
    <3>3. CASE i \notin DOMAIN a /\ j \in DOMAIN a
      BY <1>4, <1>7, <2>1, <3>3 DEF IsJoined
    <3>4. CASE i \notin DOMAIN a /\ j \notin DOMAIN a
      <4> DEFINE x == i - Len(a)
                 y == j - Len(a)
      <4>1. x \in DOMAIN sent /\ y \in DOMAIN sent /\ all[i] = sent[x] /\ all[j] = sent[y]
        BY <1>4, <3>4
      <4> HIDE DEF x, y
      <4>2. b[P(x)].tag = b[P(y)].tag /\ P(x) \in DOMAIN b /\ P(y) \in DOMAIN b
        BY <1>3, <2>1, <4>1
      <4>3. P(x) = P(y)
        BY <4>2 DEF HeldAt, TagsApart
      <4>4. x = y
        BY <1>3, <4>1, <4>3
      <4> QED
        BY <1>4, <4>4 DEF x, y
    <3> QED
      BY <3>1, <3>2, <3>3, <3>4
  <2> QED
    BY <2>1 DEF TagsApart
<1>10. ASSUME NEW i \in DOMAIN all
       PROVE  /\ all[i].plan \subseteq Way[all[i].tag] /\ Reached(r, Home[all[i].tag], Way[all[i].tag], k)
              /\ i > n => \A j \in DOMAIN ptls[r] : ptls[r][j].tag # all[i].tag
  <2>1. CASE i \in DOMAIN a
    BY <1>4, <1>6, <2>1 DEF IsJoined, HeldAt
  <2>2. CASE i \notin DOMAIN a
    BY <1>4, <1>5, <1>8, <2>2
  <2> QED
    BY <2>1, <2>2
<1>11. HeldAt(r, all, k, Home, Way, n, ptls[r])
  BY <1>9, <1>10 DEF HeldAt
<1> QED
  BY <1>11 DEF all, sent

LEMMA BufferHeld ==
  ASSUME RoundOrder, Owned, NEW r \in Ranks, NEW H, BufferInv(H), NEW H2, NEW buf, BufferStep(r, H, H2, buf)
  PROVE  \A s \in Ranks : HeldPlaces(s, H2)'
<1>1. GoesOn(r) /\ (SendsNext(r) \/ EndsRound(r)) /\ UNCHANGED <<ptls, moves, communicator>>
  BY BufferStepGoesOn
<1>2. Home' = Home /\ Way' = Way
  BY <1>1, SamePlaces
<1>3. SUFFICES ASSUME moves = 0
               PROVE  \A s \in Ranks : HeldPlaces(s, H2)'
  BY <1>1 DEF HeldPlaces
<1>4. /\ stage[r] \in 0 .. Len(Route) /\ Len(Route) \in Nat /\ DOMAIN Route = 1 .. Len(Route)
      /\ Announced(r) = stage[r] /\ Exchanged(r) = IF stage[r] = 0 THEN 0 ELSE stage[r] - 1
      /\ Exchanged(r)' = stage[r]
      /\ \A s \in Ranks \ {r} : Exchanged(s)' = Exchanged(s) /\ Announced(s)' = Announced(s)
  BY <1>1, <1>3, StepProgress
<1>5. /\ \A s \in Ranks \ {r} : \A k \in 0 .. Len(Route) : H2[<<s, k>>] = H[<<s, k>>]
      /\ \A k \in 0 .. Len(Route) : k < Announced(r) => H2[<<r, k>>] = H[<<r, k>>]
  BY HistoryKept
<1>6. /\ \A s \in Ranks : HeldPlaces(s, H)
      /\ H \in Histories
  BY DEF BufferInv
<1>7. /\ \A s \in Ranks \ {r} : ghostIdx'[s] = ghostIdx[s]
      /\ IF stage[r] = 0 THEN HeldAt(r, H2[<<r, 0>>], 0, Home, Way, Len(ghostIdx'[r]), ptls[r])
         ELSE /\ UNCHANGED ghostIdx /\ stage[r] <= Announced(Src(r, stage[r]))
              /\ H2[<<r, stage[r]>>] = H[<<r, stage[r] - 1>>] \o Forwards(Src(r, stage[r]), stage[r], H)
  BY <1>3 DEF BufferStep
<1>8. ASSUME NEW s \in Ranks, s # r
      PROVE  HeldPlaces(s, H2)'
  <2>1. Exchanged(s) \in 0 .. Len(Route)
    BY ProgressIs
  <2>2. ASSUME Announced(s) >= 1, NEW k \in 0 .. Exchanged(s)
        PROVE  HeldAt(s, H2[<<s, k>>], k, Home, Way, Len(ghostIdx'[s]), ptls[s])
    <3>1. k \in 0 .. Len(Route)
      BY <1>4, <2>1
    <3>2. HeldAt(s, H[<<s, k>>], k, Home, Way, Len(ghostIdx[s]), ptls[s])
      BY <1>3, <1>6, <2>2 DEF HeldPlaces
    <3> QED
      BY <1>5, <1>7, <1>8, <3>1, <3>2
  <2> QED
    BY <1>1, <1>2, <1>3, <1>4, <1>8, <2>2 DEF HeldPlaces
<1>9. ASSUME NEW k \in 0 .. stage[r]
      PROVE  HeldAt(r, H2[<<r, k>>], k, Home, Way, Len(ghostIdx'[r]), ptls[r])
  <2>1. CASE stage[r] = 0
    <3>1. k = 0
      BY <1>4, <2>1
    <3> QED
      BY <1>7, <2>1, <3>1
  <2>2. CASE stage[r] # 0 /\ k # stage[r]
    <3>1. k \in 0 .. Exchanged(r) /\ k \in 0 .. Len(Route) /\ k < Announced(r) /\ Announced(r) >= 1
      BY <1>4, <2>2
    <3>2. HeldAt(r, H[<<r, k>>], k, Home, Way, Len(ghostIdx[r]), ptls[r])
      BY <1>3, <1>6, <3>1 DEF HeldPlaces
    <3> QED
      BY <1>5, <1>7, <2>2, <3>1, <3>2
  <2>3. CASE stage[r] # 0 /\ k = stage[r]
    <3>1. /\ k \in DOMAIN Route /\ k - 1 \in 0 .. Exchanged(r) /\ k - 1 \in 0 .. Len(Route) /\ Announced(r) >= 1
          /\ k >= 1 /\ k \in Nat
      BY <1>4, <2>3
    <3>2. Src(r, k) \in Ranks
      BY <3>1, SrcIs
    <3>3. Announced(Src(r, k)) >= k
      BY <1>7, <2>3
    <3>4. k - 1 \in 0 .. Exchanged(Src(r, k)) /\ Announced(Src(r, k)) >= 1
      <4>0. stage[Src(r, k)] \in 0 .. Len(Route)
        BY <3>2 DEF RoundOrder
      <4>1. Exchanged(Src(r, k)) >= Announced(Src(r, k)) - 1 /\ Announced(Src(r, k)) \in Nat /\ Exchanged(Src(r, k)) \in Nat
        BY <1>3, <1>4, <3>2, <4>0 DEF Exchanged, Announced
      <4> QED
        BY <3>1, <3>3, <4>1
    <3>5. HeldAt(r, H[<<r, k - 1>>], k - 1, Home, Way, Len(ghostIdx[r]), ptls[r])
      BY <1>3, <1>6, <3>1 DEF HeldPlaces
    <3>6. HeldAt(Src(r, k), H[<<Src(r, k), k - 1>>], k - 1, Home, Way, Len(ghostIdx[Src(r, k)]), ptls[Src(r, k)])
      BY <1>3, <1>6, <3>2, <3>4 DEF HeldPlaces
    <3>7. H[<<r, k - 1>>] \in Seq(Held) /\ H[<<Src(r, k), k - 1>>] \in Seq(Held)
      BY <1>6, <3>1, <3>2 DEF Histories
    <3>8. HeldAt(r, H[<<r, k - 1>>] \o Forwarded(Route[k], H[<<Src(r, k), k - 1>>]), k, Home, Way, Len(ghostIdx[r]), ptls[r])
      BY <3>1, <3>5, <3>6, <3>7, HeldNext
    <3>9. H2[<<r, k>>] = H[<<r, k - 1>>] \o Forwarded(Route[k], H[<<Src(r, k), k - 1>>])
      BY <1>7, <2>3 DEF Forwards
    <3> QED
      BY <1>7, <2>3, <3>8, <3>9
  <2> QED
    BY <2>1, <2>2, <2>3
<1>10. HeldPlaces(r, H2)'
  <2>1. PICK e : e = stage[r]
    OBVIOUS
  <2>2. Exchanged(r)' = e /\ \A k \in 0 .. e : HeldAt(r, H2[<<r, k>>], k, Home, Way, Len(ghostIdx'[r]), ptls[r])
    BY <1>4, <1>9, <2>1
  <2> QED
    BY <1>1, <1>2, <2>2 DEF HeldPlaces
<1> QED
  BY <1>8, <1>10

-----------------------------------------------------------------------------
\* The buffers and the messages after a step.
LEMMA BufferLoaded ==
  ASSUME RoundOrder, NEW r \in Ranks, NEW H, BufferInv(H), NEW H2, NEW buf, BufferStep(r, H, H2, buf)
  PROVE  /\ \A s \in Ranks : Loaded(s, H2)'
         /\ DOMAIN ghostBuf' = Ranks
<1>1. GoesOn(r) /\ (SendsNext(r) \/ EndsRound(r)) /\ UNCHANGED <<ptls, moves, communicator>>
  BY BufferStepGoesOn
<1>2. OwnPosition' = OwnPosition
  BY <1>1, SamePlaces
<1>3. /\ stage[r] \in 0 .. Len(Route)
      /\ IF stage[r] = Len(Route) THEN phase'[r] = "current" /\ stage'[r] = 0
         ELSE phase'[r] = Working /\ stage'[r] = stage[r] + 1
      /\ \A s \in Ranks \ {r} : phase'[s] = phase[s] /\ stage'[s] = stage[s]
      /\ Working' = Working /\ Kind' = Kind /\ Working # "current"
      /\ Len(Route) \in Nat
  BY <1>1, StepProgress
<1>4. \A s \in Ranks \ {r} : \A k \in 0 .. Len(Route) : H2[<<s, k>>] = H[<<s, k>>]
  <2>1. \A p \in Ranks \X (0 .. Len(Route)) : p # <<r, stage[r]>> => H2[p] = H[p]
    BY DEF BufferStep
  <2> QED
    BY <2>1
<1>5. /\ DOMAIN ghostBuf = Ranks /\ \A s \in Ranks : Loaded(s, H)
  BY DEF BufferInv, BufferTypes
<1>6. /\ Carries(H2[<<r, stage[r]>>], buf, OwnPosition, Kind)
      /\ ghostBuf' = [ghostBuf EXCEPT ![r] = IF stage[r] # Len(Route) THEN buf ELSE <<>>]
  BY DEF BufferStep
<1>7. /\ DOMAIN ghostBuf' = Ranks /\ \A s \in Ranks \ {r} : ghostBuf'[s] = ghostBuf[s]
      /\ stage[r] # Len(Route) => ghostBuf'[r] = buf
  BY <1>5, <1>6
<1>8. ASSUME NEW s \in Ranks, s # r
      PROVE  Loaded(s, H2)'
  <2>1. CASE phase[s] = Working
    <3>1. stage[s] - 1 \in 0 .. Len(Route)
      BY <1>3, <2>1 DEF RoundOrder
    <3>2. Carries(H2[<<s, stage'[s] - 1>>], ghostBuf'[s], OwnPosition, Kind)
      BY <1>3, <1>4, <1>5, <1>7, <1>8, <2>1, <3>1 DEF Loaded
    <3> QED
      BY <1>2, <1>3, <3>2 DEF Loaded
  <2>2. CASE phase[s] # Working
    BY <1>3, <1>8, <2>2 DEF Loaded
  <2> QED
    BY <2>1, <2>2
<1>9. Loaded(r, H2)'
  <2>1. CASE stage[r] = Len(Route)
    BY <1>3, <2>1 DEF Loaded
  <2>2. CASE stage[r] # Len(Route)
    <3>1. stage'[r] - 1 = stage[r] /\ ghostBuf'[r] = buf
      BY <1>3, <1>7, <2>2
    <3>2. Carries(H2[<<r, stage'[r] - 1>>], ghostBuf'[r], OwnPosition, Kind)
      BY <1>6, <3>1
    <3> QED
      BY <1>2, <1>3, <3>2 DEF Loaded
  <2> QED
    BY <2>1, <2>2
<1> QED
  BY <1>7, <1>8, <1>9

LEMMA CarriesOneLonger ==
  ASSUME NEW count \in Nat, NEW more \in Nat, count <= more, NEW from, NEW H, NEW H2, NEW m, NEW own, NEW kind,
         \A k \in 1 .. count : Forwards(from, k, H2) = Forwards(from, k, H),
         CarriesOne(count, from, H, m, own, kind)
  PROVE  CarriesOne(more, from, H2, m, own, kind)
<1>1. PICK k \in 1 .. count : m.dir = Route[k] /\ Carries(Forwards(from, k, H), m.data, own, kind)
  BY DEF CarriesOne
<1>2. k \in 1 .. more /\ Carries(Forwards(from, k, H2), m.data, own, kind)
  BY <1>1
<1> QED
  BY <1>1, <1>2 DEF CarriesOne

LEMMA BufferMessages ==
  ASSUME RoundOrder, NEW r \in Ranks, NEW H, BufferInv(H), NEW H2, NEW buf, BufferStep(r, H, H2, buf)
  PROVE  AllLoaded(H2)'
<1>1. GoesOn(r) /\ (SendsNext(r) \/ EndsRound(r)) /\ UNCHANGED <<ptls, moves, communicator>>
  BY BufferStepGoesOn
<1>2. OwnPosition' = OwnPosition
  BY <1>1, SamePlaces
<1>3. /\ stage[r] \in 0 .. Len(Route) /\ Kind' = Kind /\ Len(Route) \in Nat /\ DOMAIN Route = 1 .. Len(Route)
      /\ stage[r] # Len(Route) => stage[r] + 1 \in DOMAIN Route
      /\ moves = 0 /\ stage[r] # Len(Route) => Announced(r)' = stage[r] + 1
      /\ moves # 0 => Announced(r)' = Len(Route)
  BY <1>1, StepProgress
<1>4. /\ \A s \in Ranks : \A k \in 1 .. Announced(s) : Forwards(s, k, H2) = Forwards(s, k, H)
      /\ \A s \in Ranks : Announced(s) <= Announced(s)' /\ Announced(s)' \in 0 .. Len(Route)
  BY HistoryKept
<1>5. /\ AllLoaded(H) /\ H2 \in Histories
      /\ \A s \in Ranks : Announced(s) \in 0 .. Len(Route)
  BY ProgressIs DEF BufferInv, BufferStep
<1>6. ASSUME NEW from \in Ranks, NEW to \in Ranks, NEW j \in DOMAIN channel[<<from, to>>]
      PROVE  CarriesOne(Announced(from)', from, H2, channel[<<from, to>>][j], OwnPosition, Kind)
  <2>1. CarriesOne(Announced(from), from, H, channel[<<from, to>>][j], OwnPosition, Kind)
    BY <1>5 DEF AllLoaded
  <2> DEFINE count == Announced(from)
             more == Announced(from)'
             m == channel[<<from, to>>][j]
             own == OwnPosition
             kind == Kind
  <2>2. count \in Nat /\ more \in Nat /\ count <= more /\ \A k \in 1 .. count : Forwards(from, k, H2) = Forwards(from, k, H)
    BY <1>3, <1>4, <1>5
  <2> HIDE DEF count, more, m, own, kind
  <2>3. CarriesOne(more, from, H2, m, own, kind)
    BY <2>1, <2>2, CarriesOneLonger DEF count, m, own, kind
  <2> QED
    BY <2>3 DEF more, m, own, kind
<1>7. \A from, to \in Ranks : \A i \in DOMAIN channel'[<<from, to>>] :
          CarriesOne(Announced(from)', from, H2, channel'[<<from, to>>][i], OwnPosition, Kind)
  <2>1. CASE stage[r] = Len(Route)
    <3>1. NoMessageMore
      BY <1>1, <2>1, SendsNone DEF BufferStep, EndsRound
    <3> QED
      BY <1>6, <3>1, Zenon DEF NoMessageMore
  <2>2. CASE stage[r] # Len(Route)
    <3>1. PICK k \in DOMAIN Route : k = stage[r] + 1
      BY <1>3, <2>2
    <3> DEFINE message == [kind |-> Kind, dir |-> Route[k], data |-> Forwarded(Route[k], buf)]
    <3>2. NeighborRank(r, Route[k]) \in Ranks /\ Route[k] \in Directions
      BY SrcIs
    <3>3. channel' = Put(LeftBy(r), r, NeighborRank(r, Route[k]), message)
      BY <2>2, <3>1 DEF BufferStep, SendGhostBuffers
    <3>4. MessagesAfter(r, NeighborRank(r, Route[k]), message)
      <4> DEFINE next == NeighborRank(r, Route[k])
      <4>1. next \in Ranks /\ channel' = Put(LeftBy(r), r, next, message)
        BY <3>2, <3>3
      <4> HIDE DEF next, message
      <4>2. MessagesAfter(r, next, message)
        BY <1>1, <4>1, Sends
      <4> QED
        BY <4>2 DEF next
    <3>5. CarriesOne(Announced(r)', r, H2, message, OwnPosition, Kind)
      <4> DEFINE held == H2[<<r, k - 1>>]
                 own == OwnPosition
                 kind == Kind
      <4>1. k - 1 = stage[r] /\ k \in 1 .. Len(Route) /\ k - 1 \in 0 .. Len(Route)
        BY <1>3, <3>1
      <4>2. Carries(held, buf, own, kind) /\ held \in Seq(Held)
        <5>1. Carries(H2[<<r, stage[r]>>], buf, OwnPosition, Kind)
          BY DEF BufferStep
        <5> QED
          BY <1>5, <4>1, <5>1 DEF Histories
      <4> HIDE DEF held, own, kind
      <4>3. Carries(Forwarded(Route[k], held), Forwarded(Route[k], buf), own, kind)
        BY <3>2, <4>2, CarriesForwarded
      <4>4. k \in 1 .. Announced(r)'
        BY <1>3, <2>2, <3>1, <4>1
      <4>5. message.dir = Route[k] /\ message.data = Forwarded(Route[k], buf)
        OBVIOUS
      <4> HIDE DEF message
      <4> QED
        BY <4>3, <4>4, <4>5 DEF CarriesOne, Forwards, held, own, kind
    <3> HIDE DEF message
    <3> QED
      BY <1>6, <3>4, <3>5, Zenon DEF MessagesAfter
  <2> QED
    BY <2>1, <2>2, Zenon
<1> QED
  BY <1>2, <1>3, <1>7, Zenon DEF AllLoaded

-----------------------------------------------------------------------------
\* The ghosts behind the particles, once the last buffers have come.
LEMMA BufferGhosts ==
  ASSUME RoundOrder, Owned, NEW r \in Ranks, NEW H, BufferInv(H), NEW H2, NEW buf, BufferStep(r, H, H2, buf)
  PROVE  /\ \A s \in Ranks : GhostPlaces(s, H2)'
         /\ ghosts' \in [Ranks -> Seq(Located)] /\ DOMAIN rtag' = Ranks
<1>1. GoesOn(r) /\ (SendsNext(r) \/ EndsRound(r)) /\ UNCHANGED <<ptls, moves, communicator>>
  BY BufferStepGoesOn
<1>2. OwnPosition' = OwnPosition
  BY <1>1, SamePlaces
<1>3. /\ stage[r] \in 0 .. Len(Route) /\ Len(Route) \in Nat \ {0} /\ DOMAIN Route = 1 .. Len(Route)
      /\ IF stage[r] = Len(Route) THEN phase'[r] = "current" /\ stage'[r] = 0 ELSE phase'[r] = Working
      /\ \A s \in Ranks \ {r} : phase'[s] = phase[s]
      /\ phase[r] # "current" /\ Working # "current" /\ moves \in Nat
      /\ moves = 0 => Announced(r) = stage[r] /\ Exchanged(r) = IF stage[r] = 0 THEN 0 ELSE stage[r] - 1
      /\ moves # 0 => Announced(r) = Len(Route)
  BY <1>1, StepProgress, LayerAssumption DEF RoundOrder
<1>4. /\ \A s \in Ranks : GhostPlaces(s, H) /\ HeldPlaces(s, H) /\ IndexPlaces(s, H)
      /\ ghosts \in [Ranks -> Seq(Located)] /\ DOMAIN rtag = Ranks
      /\ ptls \in [Ranks -> Seq(Located)] /\ H \in Histories /\ H2 \in Histories
      /\ ghostIdx \in [Ranks -> Seq(Index)] /\ ghostIdx' \in [Ranks -> Seq(Index)]
  BY DEF BufferInv, BufferTypes, Owned, BufferStep
<1>5. \A s \in Ranks \ {r} : \A k \in 0 .. Len(Route) : H2[<<s, k>>] = H[<<s, k>>]
  <2>1. \A p \in Ranks \X (0 .. Len(Route)) : p # <<r, stage[r]>> => H2[p] = H[p]
    BY DEF BufferStep
  <2> QED
    BY <2>1
<1>6. \A s \in Ranks \ {r} : ghostIdx'[s] = ghostIdx[s]
  BY DEF BufferStep
<1>7. IF stage[r] # Len(Route) THEN UNCHANGED <<ghosts, rtag>>
      ELSE /\ ghosts' \in [Ranks -> Seq(Located)] /\ \A s \in Ranks \ {r} : ghosts'[s] = ghosts[s]
           /\ SameTags(ghosts'[r], Unpacked(r, H2[<<r, Len(Route)>>]))
           /\ CurrentGhosts(r, ghosts'[r], OwnPosition, Len(ghosts'[r]))
           /\ IF moves = 0 THEN rtag' = [rtag EXCEPT ![r] = Indexed(rtag[r], ptls[r] \o ghosts'[r])]
              ELSE UNCHANGED rtag
  BY DEF BufferStep
<1>8. /\ ghosts' \in [Ranks -> Seq(Located)] /\ DOMAIN rtag' = Ranks
      /\ \A s \in Ranks \ {r} : ghosts'[s] = ghosts[s] /\ rtag'[s] = rtag[s]
  BY <1>4, <1>7
<1>9. ASSUME NEW s \in Ranks, s # r
      PROVE  GhostPlaces(s, H2)'
  <2>1. Unpacked(s, H2[<<s, Len(Route)>>])' = Unpacked(s, H[<<s, Len(Route)>>])
    <3>1. H2[<<s, Len(Route)>>] = H[<<s, Len(Route)>>] /\ ghostIdx'[s] = ghostIdx[s]
      BY <1>3, <1>5, <1>6, <1>9
    <3> QED
      BY <3>1 DEF Unpacked
  <2>2. ghosts'[s] = ghosts[s] /\ rtag'[s] = rtag[s] /\ phase'[s] = phase[s] /\ ptls' = ptls /\ moves' = moves
    BY <1>1, <1>3, <1>8, <1>9
  <2>3. GhostPlaces(s, H)
    BY <1>4
  <2> QED
    BY <1>2, <2>1, <2>2, <2>3 DEF GhostPlaces, Arrays
<1>10. CASE stage[r] # Len(Route)
  <2>1. UNCHANGED <<ghosts, rtag, ptls, moves>> /\ phase'[r] # "current"
    BY <1>1, <1>3, <1>7, <1>10
  <2>2. GhostPlaces(r, H)
    BY <1>4
  <2>3. moves > 0 => Unpacked(r, H2[<<r, Len(Route)>>])' = Unpacked(r, H[<<r, Len(Route)>>])
    <3>1. moves > 0 => H2 = H /\ UNCHANGED ghostIdx
      BY DEF BufferStep
    <3> QED
      BY <3>1 DEF Unpacked
  <2>4. GhostPlaces(r, H2)'
    BY <1>3, <2>1, <2>2, <2>3 DEF GhostPlaces, Arrays
  <2> QED
    BY <1>8, <1>9, <2>4
<1>11. CASE stage[r] = Len(Route)
  <2> DEFINE list == ptls[r]
             copies == ghosts'[r]
             held == H2[<<r, Len(Route)>>]
             in == Unpacked(r, held)
             n == Len(ghostIdx[r])
  <2>1. UNCHANGED ghostIdx /\ stage[r] # 0
    BY <1>3, <1>11 DEF BufferStep
  <2>2. Unpacked(r, held)' = in
    BY <2>1 DEF Unpacked
  <2>3. /\ phase'[r] = "current" /\ SameTags(copies, in) /\ CurrentGhosts(r, copies, OwnPosition, Len(copies))
        /\ list \in Seq(Located) /\ copies \in Seq(Located) /\ held \in Seq(Held) /\ n \in Nat
    <3>1. Len(Route) \in 0 .. Len(Route)
      BY <1>3
    <3>2. held \in Seq(Held)
      BY <1>4, <3>1 DEF Histories
    <3>3. ghostIdx[r] \in Seq(Index)
      BY <1>4
    <3>4. n \in Nat
      BY <3>3, LenProperties
    <3> QED
      BY <1>3, <1>4, <1>7, <1>8, <1>11, <3>2, <3>4
  <2>4. TagsApart(list \o copies) /\ rtag'[r] = Indexed(NoIndex, list \o copies)
    <3>1. CASE moves = 0
      <4>1. HeldAt(r, held, Len(Route), Home, Way, n, list)
        <5>0. \A s \in Ranks : HeldPlaces(s, H2)'
          BY BufferHeld
        <5>1. Announced(r)' >= 1 /\ Exchanged(r)' = Len(Route)
          BY <1>1, <1>3, <1>11, <3>1, StepProgress
        <5>2. HeldAt(r, H2[<<r, Len(Route)>>], Len(Route), Home', Way', Len(ghostIdx'[r]), ptls'[r])
          BY <1>1, <1>3, <3>1, <5>0, <5>1 DEF HeldPlaces
        <5>3. Home' = Home /\ Way' = Way
          BY <1>1, SamePlaces
        <5> QED
          BY <1>1, <2>1, <5>2, <5>3
      <4>2. /\ in \in Seq(Held) /\ TagsApart(in)
            /\ \A i \in DOMAIN list, j \in DOMAIN in : list[i].tag # in[j].tag
        <5>1. Sizes(held) \in PlanLists
          BY <2>3, HeldIs
        <5>2. in \in Seq(Held) /\ UnpackedOf(held, n, in)
          BY <2>3, <5>1, UnpackedIs
        <5> DEFINE P(j) == KeptPlace(n, Sizes(held), j)
        <5>3. /\ \A j \in DOMAIN in : P(j) \in DOMAIN held /\ P(j) > n /\ in[j] = held[P(j)]
              /\ \A j, k \in DOMAIN in : P(j) = P(k) => j = k
          BY <5>2 DEF UnpackedOf
        <5> HIDE DEF P, in, held, n, list
        <5>4. TagsApart(in)
          BY <4>1, <5>3 DEF TagsApart, HeldAt
        <5>5. \A i \in DOMAIN list, j \in DOMAIN in : list[i].tag # in[j].tag
          BY <4>1, <5>3 DEF HeldAt
        <5> QED
          BY <5>2, <5>4, <5>5
      <4>3. /\ TagsApart(copies) /\ \A i \in DOMAIN list, j \in DOMAIN copies : list[i].tag # copies[j].tag
        <5>1. DOMAIN copies = DOMAIN in /\ \A i \in DOMAIN copies : copies[i].tag = in[i].tag
          <6>1. Len(copies) = Len(in) /\ \A i \in DOMAIN copies : copies[i].tag = in[i].tag
            BY <2>3 DEF SameTags
          <6>2. DOMAIN copies = 1 .. Len(copies) /\ DOMAIN in = 1 .. Len(in)
            BY <2>3, <4>2, LenProperties
          <6> QED
            BY <6>1, <6>2
        <5> HIDE DEF copies, in, list
        <5> QED
          BY <4>2, <5>1 DEF TagsApart
      <4>4. TagsApart(list)
        BY DEF TagsApart, Owned
      <4> HIDE DEF in, held, n
      <4>5. TagsApart(list \o copies)
        BY <2>3, <4>3, <4>4, JoinedApart
      <4>6. rtag[r] = Indexed(NoIndex, list)
        <5>0. GhostPlaces(r, H) /\ ~ (moves > 0 \/ phase[r] = "current")
          BY <1>3, <1>4, <3>1
        <5>1. rtag[r] = Indexed(NoIndex, Arrays(r)) /\ ghosts[r] = <<>>
          BY <5>0 DEF GhostPlaces
        <5>2. Arrays(r) = list
          BY <2>3, <5>1 DEF Arrays
        <5> QED
          BY <5>1, <5>2
      <4>7. TagsOf(list) \subseteq TagsOf(list \o copies)
        <5>1. IsJoined(list, copies, list \o copies)
          BY <2>3, JoinedLists
        <5> HIDE DEF list, copies
        <5> QED
          BY <5>1 DEF IsJoined, TagsOf
      <4>8. rtag'[r] = Indexed(rtag[r], list \o copies)
        BY <1>4, <1>7, <1>11, <3>1
      <4> HIDE DEF list, copies
      <4>9. Indexed(Indexed(NoIndex, list), list \o copies) = Indexed(NoIndex, list \o copies)
        BY <4>7, IndexedAgain
      <4> QED
        BY <4>5, <4>6, <4>8, <4>9
    <3>2. CASE moves # 0
      <4>1. H2 = H /\ rtag'[r] = rtag[r] /\ moves > 0
        BY <1>3, <1>7, <1>11, <3>2 DEF BufferStep
      <4>2. TagsApart(Arrays(r)) /\ rtag[r] = Indexed(NoIndex, Arrays(r)) /\ SameTags(ghosts[r], in)
        BY <1>4, <4>1 DEF GhostPlaces
      <4>3. SameTags(ghosts[r], copies) /\ SameTags(list, list) /\ ghosts[r] \in Seq(Located)
        <5>1. DOMAIN ghosts[r] = 1 .. Len(ghosts[r]) /\ DOMAIN copies = 1 .. Len(copies) /\ ghosts[r] \in Seq(Located)
          BY <1>4, <2>3, LenProperties
        <5> HIDE DEF in, copies, list
        <5> QED
          BY <2>3, <4>2, <5>1 DEF SameTags
      <4> HIDE DEF list, copies, in, held, n
      <4>4. Arrays(r) = list \o ghosts[r]
        BY DEF Arrays, list
      <4>5. TagsApart(list \o copies) /\ Indexed(NoIndex, list \o ghosts[r]) = Indexed(NoIndex, list \o copies)
        BY <2>3, <4>2, <4>3, <4>4, PlacesKept
      <4> QED
        BY <4>1, <4>2, <4>4, <4>5
    <3> QED
      BY <3>1, <3>2
  <2>5. GhostPlaces(r, H2)'
    <3>1. Arrays(r)' = list \o copies
      BY <1>1 DEF Arrays
    <3> HIDE DEF list, in
    <3> QED
      BY <1>2, <2>2, <2>3, <2>4, <3>1 DEF GhostPlaces
  <2> QED
    BY <1>8, <1>9, <2>5
<1> QED
  BY <1>10, <1>11

LEMMA BufferKeepsPlaces ==
  ASSUME RoundOrder, Owned, NEW r \in Ranks, NEW H, BufferInv(H), NEW H2, NEW buf, BufferStep(r, H, H2, buf)
  PROVE  BufferInv(H2)'
<1>1. /\ H2 \in Histories /\ UNCHANGED <<copyGhosts, numRecv>>
      /\ ghostIdx' \in [Ranks -> Seq(Index)]
  BY DEF BufferStep
<1>2. BufferTypes'
  BY <1>1, BufferReceived, BufferLoaded, BufferGhosts DEF BufferInv, BufferTypes, Cleared
<1>3. \A s \in Ranks : IndexPlaces(s, H2)' /\ Received(s, H2)' /\ HeldPlaces(s, H2)'
                       /\ Loaded(s, H2)' /\ GhostPlaces(s, H2)'
  BY BufferIndices, BufferReceived, BufferHeld, BufferLoaded, BufferGhosts
<1>4. AllLoaded(H2)'
  BY BufferMessages
<1> QED
  BY <1>1, <1>2, <1>3, <1>4 DEF BufferInv

-----------------------------------------------------------------------------
\* What a rank puts into its buffers: the particles with a plan, in some order.
PlanFor(r, i) == PlanOf(r, ptls[r][i], LayerWidth)
BoundParticles(r) ==
    { [plan |-> PlanFor(r, i), idx |-> i] : i \in { i \in DOMAIN ptls[r] : PlanFor(r, i) # {} } }
HeldOf(index, list) == [n \in DOMAIN index |-> [plan |-> index[n].plan, tag |-> list[index[n].idx].tag]]
GhostLoad(index, list) == [n \in DOMAIN index |-> [plan |-> index[n].plan, ptl |-> list[index[n].idx]]]
PositionLoad(index, list) ==
    [n \in DOMAIN index |-> [plan |-> index[n].plan, pos |-> list[index[n].idx].pos]]

LEMMA PlanForIs ==
  ASSUME Owned, NEW r \in Ranks, NEW i \in DOMAIN ptls[r]
  PROVE  /\ PlanFor(r, i) = Way[ptls[r][i].tag] /\ OneWay(PlanFor(r, i))
         /\ PlanFor(r, i) # {} => PlanFor(r, i) \in AllPlans
         /\ i \in Nat /\ Home[ptls[r][i].tag] = r
<1>1. /\ ptls[r][i].tag \in Tags /\ ptls[r][i].pos \in [Axes -> Int]
      /\ ptls[r][i] = Particle(ptls[r][i].tag, ptls[r][i].pos)
      /\ Owner(ptls[r][i].tag) = r /\ Own(ptls[r][i].tag) = ptls[r][i]
  BY OwnerIs
<1>2. PlanFor(r, i) = Way[ptls[r][i].tag] /\ Home[ptls[r][i].tag] = r
  BY <1>1 DEF Way, Home, PlanFor
<1>3. OneWay(PlanFor(r, i))
  <2> DEFINE tag == ptls[r][i].tag
             pos == ptls[r][i].pos
  <2>1. pos \in [Axes -> Int] /\ PlanFor(r, i) = PlanOf(r, Particle(tag, pos), LayerWidth)
    BY <1>1 DEF PlanFor
  <2> HIDE DEF tag, pos
  <2> QED
    BY <2>1, PlanIsOneWay
<1>4. PlanFor(r, i) # {} => PlanFor(r, i) \in AllPlans
  BY <1>3, OneWayIsPlan
<1>5. i \in Nat
  <2>1. ptls[r] \in Seq(Located)
    BY DEF Owned
  <2> QED
    BY <2>1, LenProperties
<1> QED
  BY <1>2, <1>3, <1>4, <1>5

LEMMA BoundIsIndex ==
  ASSUME Owned, NEW r \in Ranks, NEW index \in SetToSeqs(BoundParticles(r))
  PROVE  /\ index \in Seq(Index)
         /\ \A n \in DOMAIN index : /\ index[n].idx \in DOMAIN ptls[r]
                                    /\ index[n].plan = PlanFor(r, index[n].idx)
         /\ \A n, m \in DOMAIN index : index[n].idx = index[m].idx => n = m
         /\ \A i \in DOMAIN ptls[r] : PlanFor(r, i) # {} => \E n \in DOMAIN index : index[n].idx = i
<1> DEFINE S == BoundParticles(r)
<1>1. ASSUME NEW e \in S
      PROVE  /\ e \in Index /\ e.idx \in DOMAIN ptls[r] /\ e.plan = PlanFor(r, e.idx)
             /\ e = [plan |-> PlanFor(r, e.idx), idx |-> e.idx]
  <2>1. PICK i \in DOMAIN ptls[r] : PlanFor(r, i) # {} /\ e = [plan |-> PlanFor(r, i), idx |-> i]
    BY DEF BoundParticles
  <2>2. PlanFor(r, i) \in AllPlans /\ i \in Nat
    BY <2>1, PlanForIs
  <2> QED
    BY <2>1, <2>2 DEF Index
<1> HIDE DEF S
<1>2. IsFiniteSet(S)
  <2> DEFINE f == [e \in S |-> e.idx]
  <2>1. \A e, e2 \in S : f[e] = f[e2] => e = e2
    BY <1>1
  <2>2. f \in [S -> DOMAIN ptls[r]]
    BY <1>1
  <2>3. f \in Injection(S, DOMAIN ptls[r])
    BY <2>1, <2>2, Fun_IsInj
  <2>4. IsFiniteSet(DOMAIN ptls[r])
    <3>1. ptls[r] \in Seq(Located)
      BY DEF Owned
    <3>2. DOMAIN ptls[r] = 1 .. Len(ptls[r]) /\ Len(ptls[r]) \in Nat
      BY <3>1, LenProperties
    <3> QED
      BY <3>2, FS_Interval
  <2> HIDE DEF f
  <2> QED
    BY <2>3, <2>4, FS_Injection
<1>3. Cardinality(S) \in Nat
  BY <1>2, FS_CardinalityType
<1>4. /\ index \in [1 .. Cardinality(S) -> S]
      /\ \A i, j \in 1 .. Cardinality(S) : i # j => index[i] # index[j]
  BY DEF SetToSeqs, S
<1>5. index \in Seq(Index)
  <2>1. index \in [1 .. Cardinality(S) -> Index]
    BY <1>1, <1>4
  <2> QED
    BY <1>3, <2>1, SeqDef
<1>6. \A n \in DOMAIN index : /\ index[n].idx \in DOMAIN ptls[r]
                              /\ index[n].plan = PlanFor(r, index[n].idx)
                              /\ index[n] = [plan |-> PlanFor(r, index[n].idx), idx |-> index[n].idx]
  BY <1>1, <1>4
<1>7. \A n, m \in DOMAIN index : index[n].idx = index[m].idx => n = m
  <2>1. ASSUME NEW n \in DOMAIN index, NEW m \in DOMAIN index, index[n].idx = index[m].idx
        PROVE  n = m
    <3>1. index[n] = index[m]
      BY <1>6, <2>1
    <3> QED
      BY <1>4, <3>1
  <2> QED
    BY <2>1
<1>8. \A e \in S : \E n \in DOMAIN index : index[n] = e
  <2> DEFINE N == 1 .. Cardinality(S)
  <2>1. Cardinality(N) = Cardinality(S)
    BY <1>3, FS_Interval
  <2>2. index \in Injection(N, S)
    BY <1>4, Fun_IsInj
  <2>3. DOMAIN index = N
    BY <1>4
  <2> HIDE DEF N
  <2>4. index \in Surjection(N, S)
    BY <1>2, <2>1, <2>2, FS_Injection
  <2> QED
    BY <2>3, <2>4, Fun_SurjectionProperties
<1>9. ASSUME NEW i \in DOMAIN ptls[r], PlanFor(r, i) # {}
      PROVE  \E n \in DOMAIN index : index[n].idx = i
  <2>1. [plan |-> PlanFor(r, i), idx |-> i] \in S
    BY <1>9 DEF S, BoundParticles
  <2>2. PICK n \in DOMAIN index : index[n] = [plan |-> PlanFor(r, i), idx |-> i]
    BY <1>8, <2>1
  <2> QED
    BY <2>2
<1> QED
  BY <1>5, <1>6, <1>7, <1>9

\* What is put there carries the tags of the particles.
LEMMA LoadsAre ==
  ASSUME Owned, NEW r \in Ranks, NEW index \in Seq(Index),
         \A n \in DOMAIN index : index[n].idx \in DOMAIN ptls[r]
  PROVE  /\ HeldOf(index, ptls[r]) \in Seq(Held) /\ OwnHeld(index, ptls[r], HeldOf(index, ptls[r]))
         /\ DOMAIN HeldOf(index, ptls[r]) = DOMAIN index
         /\ Len(HeldOf(index, ptls[r])) = Len(index) /\ Len(index) \in Nat /\ DOMAIN index = 1 .. Len(index)
         /\ Carries(HeldOf(index, ptls[r]), GhostLoad(index, ptls[r]), OwnPosition, "exchangeGPU")
         /\ \A held \in Seq(Held) : OwnHeld(index, ptls[r], held) =>
               Carries(held, PositionLoad(index, ptls[r]), OwnPosition, "updatingGPU")
<1> DEFINE list == ptls[r]
<1>1. Len(index) \in Nat /\ DOMAIN index = 1 .. Len(index)
  BY LenProperties
<1>2. ASSUME NEW n \in 1 .. Len(index)
      PROVE  /\ index[n].plan \in AllPlans /\ list[index[n].idx] \in Located
             /\ list[index[n].idx].tag \in Tags /\ list[index[n].idx].pos \in [Axes -> Int]
             /\ OwnPosition[list[index[n].idx].tag] = list[index[n].idx].pos
  <2>1. index[n] \in Index
    BY <1>1, ElementOfSeq
  <2>2. index[n].idx \in DOMAIN ptls[r]
    BY <1>1
  <2> QED
    BY <2>1, <2>2, OwnerIs DEF Index
<1> HIDE DEF list
<1>3. /\ HeldOf(index, list) \in Seq(Held) /\ Len(HeldOf(index, list)) = Len(index)
      /\ DOMAIN HeldOf(index, list) = 1 .. Len(index)
  <2> DEFINE f == HeldOf(index, list)
  <2>1. f = [n \in 1 .. Len(index) |-> f[n]]
    BY <1>1 DEF HeldOf
  <2>2. \A n \in 1 .. Len(index) : f[n] \in Held
    BY <1>1, <1>2 DEF HeldOf, Held
  <2> HIDE DEF f
  <2>3. f \in Seq(Held) /\ Len(f) = Len(index) /\ DOMAIN f = 1 .. Len(index)
    BY <1>1, <2>1, <2>2, FunctionsAre
  <2> QED
    BY <2>3 DEF f
<1>4. OwnHeld(index, list, HeldOf(index, list))
  BY <1>1, <1>3 DEF OwnHeld, HeldOf
<1>5. Carries(HeldOf(index, list), GhostLoad(index, list), OwnPosition, "exchangeGPU")
  <2> DEFINE h == HeldOf(index, list)
             d == GhostLoad(index, list)
  <2>1. d = [n \in 1 .. Len(h) |-> d[n]]
    BY <1>1, <1>3 DEF GhostLoad
  <2>2. \A n \in 1 .. Len(h) : IsLoad(h[n], d[n], OwnPosition, "exchangeGPU")
    BY <1>1, <1>2, <1>3 DEF GhostLoad, HeldOf, IsLoad, GhostItem
  <2> HIDE DEF h, d
  <2>3. Carries(h, d, OwnPosition, "exchangeGPU")
    BY <2>1, <2>2 DEF Carries
  <2> QED
    BY <2>3 DEF h, d
<1>6. ASSUME NEW held \in Seq(Held), OwnHeld(index, list, held)
      PROVE  Carries(held, PositionLoad(index, list), OwnPosition, "updatingGPU")
  <2> DEFINE d == PositionLoad(index, list)
  <2>1. Len(held) = Len(index) /\ \A n \in 1 .. Len(index) :
            held[n].plan = index[n].plan /\ held[n].tag = list[index[n].idx].tag
    BY <1>1, <1>6 DEF OwnHeld
  <2>2. d = [n \in 1 .. Len(held) |-> d[n]]
    BY <1>1, <2>1 DEF PositionLoad
  <2>3. \A n \in 1 .. Len(held) : IsLoad(held[n], d[n], OwnPosition, "updatingGPU")
    BY <1>1, <1>2, <2>1 DEF PositionLoad, IsLoad, PositionItem
  <2> HIDE DEF d
  <2>4. Carries(held, d, OwnPosition, "updatingGPU")
    BY <2>2, <2>3 DEF Carries
  <2> QED
    BY <2>4 DEF d
<1> QED
  BY <1>1, <1>3, <1>4, <1>5, <1>6 DEF list

\* The first step of an exchange.
LEMMA BeginExchangeIsBuffered ==
  ASSUME RoundOrder, Owned, NEW r \in Ranks, NEW H, BufferInv(H), Step(r), communicator = "GPU",
         BeginExchangeGPU(r, LayerWidth)
  PROVE  \E H2, buf : BufferStep(r, H, H2, buf)
<1>1. /\ GoesOn(r) /\ UNCHANGED <<ptls, moves, communicator>>
  BY StepShape
<1>2. phase[r] = "migrated" /\ UNCHANGED <<ptls, ghosts, plan, rtag, copyGhosts, numRecv, numGhosts>>
  BY DEF BeginExchangeGPU
<1>3. moves = 0 /\ stage[r] = 0 /\ LeftBy(r) = channel /\ Kind = "exchangeGPU"
  BY <1>2, RoundOf DEF LeftBy, Kind
<1>4. PICK bound \in SetToSeqs(BoundParticles(r)) :
        /\ ghostIdx' = [ghostIdx EXCEPT ![r] = bound]
        /\ ghostBuf' = [ghostBuf EXCEPT ![r] = GhostLoad(bound, ptls[r])]
        /\ SendGhostBuffers(r, 1, "exchangeGPU", GhostLoad(bound, ptls[r]), channel)
  BY DEF BeginExchangeGPU, BoundParticles, PlanFor, GhostLoad
<1>5. /\ bound \in Seq(Index)
      /\ \A n \in DOMAIN bound : bound[n].idx \in DOMAIN ptls[r] /\ bound[n].plan = PlanFor(r, bound[n].idx)
      /\ \A n, m \in DOMAIN bound : bound[n].idx = bound[m].idx => n = m
  BY BoundIsIndex
<1> DEFINE held == HeldOf(bound, ptls[r])
           buf == GhostLoad(bound, ptls[r])
           H2 == [H EXCEPT ![<<r, 0>>] = held]
<1>6. /\ held \in Seq(Held) /\ OwnHeld(bound, ptls[r], held) /\ DOMAIN held = DOMAIN bound
      /\ Carries(held, buf, OwnPosition, "exchangeGPU")
      /\ Len(bound) \in Nat /\ DOMAIN bound = 1 .. Len(bound)
  BY <1>5, LoadsAre
<1>7. /\ H \in [Ranks \X (0 .. Len(Route)) -> Seq(Held)] /\ ghostIdx \in [Ranks -> Seq(Index)]
      /\ Len(Route) \in Nat \ {0} /\ 0 \in 0 .. Len(Route)
  BY RouteShape DEF BufferInv, BufferTypes, Histories
<1>8. /\ H2 \in Histories /\ H2[<<r, 0>>] = held
      /\ \A p \in Ranks \X (0 .. Len(Route)) : p # <<r, 0>> => H2[p] = H[p]
  <2> HIDE DEF held
  <2> QED
    BY <1>6, <1>7 DEF Histories
<1>9. /\ ghostIdx' \in [Ranks -> Seq(Index)] /\ ghostIdx'[r] = bound
      /\ \A s \in Ranks \ {r} : ghostIdx'[s] = ghostIdx[s]
  BY <1>4, <1>5, <1>7
<1>10. HeldAt(r, held, 0, Home, Way, Len(bound), ptls[r])
  <2>1. ASSUME NEW i \in DOMAIN held
        PROVE  /\ held[i].plan = bound[i].plan /\ held[i].tag = ptls[r][bound[i].idx].tag
               /\ bound[i].idx \in DOMAIN ptls[r] /\ i \in DOMAIN bound
               /\ held[i].plan = Way[held[i].tag] /\ Home[held[i].tag] = r
    <3>1. /\ held[i].plan = bound[i].plan /\ held[i].tag = ptls[r][bound[i].idx].tag
          /\ bound[i].idx \in DOMAIN ptls[r] /\ i \in DOMAIN bound
      BY <1>5, <1>6 DEF OwnHeld
    <3> DEFINE n == bound[i].idx
    <3>2. n \in DOMAIN ptls[r]
      BY <3>1
    <3> HIDE DEF n
    <3>3. PlanFor(r, n) = Way[ptls[r][n].tag] /\ Home[ptls[r][n].tag] = r
      BY <3>2, PlanForIs
    <3> QED
      BY <1>5, <3>1, <3>3 DEF n
  <2>2. TagsApart(held)
    <3>1. ASSUME NEW i \in DOMAIN held, NEW j \in DOMAIN held, held[i].tag = held[j].tag
          PROVE  i = j
      <4>1. bound[i].idx = bound[j].idx
        BY <2>1, <3>1 DEF Owned
      <4> QED
        BY <1>5, <1>6, <4>1
    <3> QED
      BY <3>1 DEF TagsApart
  <2>3. \A i \in DOMAIN held : held[i].plan \subseteq Way[held[i].tag] /\ Reached(r, Home[held[i].tag], Way[held[i].tag], 0)
    BY <2>1, ReachedFirst
  <2>4. \A i \in DOMAIN held : ~ (i > Len(bound))
    BY <1>6
  <2> HIDE DEF held
  <2> QED
    BY <2>2, <2>3, <2>4 DEF HeldAt
<1>11. stage[r] # Len(Route) /\ stage[r] + 1 = 1
  BY <1>3, <1>7
<1> HIDE DEF H2, buf, held
<1>12. SendGhostBuffers(r, stage[r] + 1, Kind, buf, LeftBy(r)) /\ ghostBuf' = [ghostBuf EXCEPT ![r] = buf]
  BY <1>3, <1>4, <1>11 DEF buf
<1>13. moves = 0 /\ ~ (moves > 0)
  BY <1>3
<1>14. BufferStep(r, H, H2, buf)
  BY <1>1, <1>2, <1>3, <1>5, <1>6, <1>8, <1>9, <1>10, <1>11, <1>12, <1>13 DEF BufferStep
<1> QED
  BY <1>14

\* The first step of an update.
LEMMA BeginUpdateIsBuffered ==
  ASSUME RoundOrder, Owned, NEW r \in Ranks, NEW H, BufferInv(H), Step(r), communicator = "GPU",
         BeginUpdateGPU(r)
  PROVE  \E H2, buf : BufferStep(r, H, H2, buf)
<1>1. /\ GoesOn(r) /\ UNCHANGED <<ptls, moves, communicator>>
  BY StepShape
<1> DEFINE buf == PositionLoad(ghostIdx[r], ptls[r])
<1>2. /\ phase[r] = "update"
      /\ UNCHANGED <<ptls, ghosts, plan, rtag, copyGhosts, numRecv, ghostIdx, numGhosts>>
      /\ ghostBuf' = [ghostBuf EXCEPT ![r] = buf] /\ SendGhostBuffers(r, 1, "updatingGPU", buf, channel)
  BY DEF BeginUpdateGPU, PositionLoad
<1>3. /\ moves > 0 /\ moves # 0 /\ stage[r] = 0 /\ LeftBy(r) = channel /\ Kind = "updatingGPU"
      /\ Len(Route) \in Nat \ {0} /\ 0 \in 0 .. Len(Route)
  <2>1. moves > 0 /\ stage[r] = 0 /\ phase[r] = Beginning
    BY <1>2, RoundOf
  <2> QED
    BY <2>1, RouteShape DEF LeftBy, Kind
<1>4. /\ H \in Histories /\ IndexPlaces(r, H) /\ ghostIdx \in [Ranks -> Seq(Index)]
  BY DEF BufferInv, BufferTypes
<1>5. H[<<r, 0>>] \in Seq(Held) /\ ghostIdx[r] \in Seq(Index)
  BY <1>3, <1>4 DEF Histories
<1>6. Announced(r) >= 1
  BY <1>3 DEF Announced
<1>7. /\ \A n \in DOMAIN ghostIdx[r] : ghostIdx[r][n].idx \in DOMAIN ptls[r]
      /\ OwnHeld(ghostIdx[r], ptls[r], H[<<r, 0>>])
  BY <1>4, <1>6 DEF IndexPlaces
<1>8. Carries(H[<<r, 0>>], buf, OwnPosition, "updatingGPU")
  BY <1>5, <1>7, LoadsAre
<1>9. stage[r] # Len(Route) /\ stage[r] + 1 = 1
  BY <1>3
<1> HIDE DEF buf
<1>10. SendGhostBuffers(r, stage[r] + 1, Kind, buf, LeftBy(r)) /\ ghostBuf' = [ghostBuf EXCEPT ![r] = buf]
  BY <1>2, <1>3, <1>9
<1>11. BufferStep(r, H, H, buf)
  BY <1>1, <1>2, <1>3, <1>4, <1>7, <1>8, <1>9, <1>10 DEF BufferStep
<1> QED
  BY <1>11

-----------------------------------------------------------------------------
\* What a rank has when it has put what has come behind what it had.
Longer(r, k, H) == H[<<r, k - 1>>] \o Forwards(Src(r, k), k, H)

LEMMA BroughtIs ==
  ASSUME RoundOrder, NEW r \in Ranks, NEW H, BufferInv(H), Kind = Working, phase[r] = Working, Arrived(r),
         NEW k \in DOMAIN Route, k = stage[r]
  PROVE  /\ k <= Announced(Src(r, k)) /\ Longer(r, k, H) \in Seq(Held)
         /\ Carries(Longer(r, k, H), Buffered(r), OwnPosition, Kind)
         /\ Sizes(Message(r).data) = Sizes(Forwards(Src(r, k), k, H))
         /\ Sizes(Forwards(Src(r, k), k, H)) \in PlanLists
         /\ k \in Nat /\ k >= 1 /\ k <= Len(Route) /\ Route[k] \in Directions
<1>1. /\ Source(r) = Src(r, k) /\ Src(r, k) \in Ranks
      /\ 1 \in DOMAIN channel[<<Src(r, k), r>>] /\ Message(r) = channel[<<Src(r, k), r>>][1]
      /\ Message(r).dir = Route[k]
  BY Awaited
<1>2. k \in Nat /\ k >= 1 /\ k <= Len(Route) /\ Route[k] \in Directions /\ DOMAIN Route = 1 .. Len(Route)
      /\ Len(Route) \in Nat
  BY RouteShape, SrcIs
<1> DEFINE from == Src(r, k)
           m == Message(r)
           own == OwnPosition
           kind == Kind
           before == H[<<r, k - 1>>]
           more == Forwards(from, k, H)
<1>3. CarriesOne(Announced(from), from, H, m, own, kind)
  BY <1>1 DEF BufferInv, AllLoaded
<1>4. Announced(from) \in 0 .. Len(Route)
  BY <1>1, ProgressIs
<1>5. k <= Announced(from) /\ Carries(more, m.data, own, kind)
  <2>1. PICK l \in 1 .. Announced(from) : m.dir = Route[l] /\ Carries(Forwards(from, l, H), m.data, own, kind)
    BY <1>3 DEF CarriesOne
  <2>2. l \in DOMAIN Route
    BY <1>2, <1>4, <2>1
  <2>3. l = k
    BY <1>1, <2>1, <2>2, RouteDiffers
  <2> QED
    BY <1>4, <2>1, <2>3
<1>6. H \in Histories /\ Loaded(r, H)
  BY DEF BufferInv
<1>7. before \in Seq(Held) /\ H[<<from, k - 1>>] \in Seq(Held)
  <2>1. k - 1 \in 0 .. Len(Route)
    BY <1>2
  <2> QED
    BY <1>1, <1>6, <2>1 DEF Histories
<1>8. more \in Seq(Held)
  <2>1. SentOf(H[<<from, k - 1>>], Route[k], Forwarded(Route[k], H[<<from, k - 1>>]))
    BY <1>2, <1>7, HeldForwarded
  <2> QED
    BY <2>1 DEF SentOf, Forwards
<1>9. Carries(before, ghostBuf[r], own, kind)
  BY <1>6 DEF Loaded
<1> HIDE DEF before, more, own, kind, m, from
<1>10. Carries(before \o more, ghostBuf[r] \o m.data, own, kind) /\ before \o more \in Seq(Held)
  BY <1>5, <1>7, <1>8, <1>9, CarriesJoined
<1>11. Sizes(m.data) = Sizes(more) /\ Sizes(more) \in PlanLists
  BY <1>5, <1>8, CarriesIs
<1>12. Longer(r, k, H) = before \o more /\ Buffered(r) = ghostBuf[r] \o m.data
  BY DEF Longer, Buffered, before, more, m, from
<1> QED
  BY <1>2, <1>5, <1>10, <1>11, <1>12 DEF own, kind, from, more, m

\* What the ghosts are in the end.
Collected(r, held) ==
    [i \in 1 .. Len(held) |-> Particle(held[i].tag, WrapGhost(r, OwnPosition[held[i].tag], LayerWidth))]

LEMMA CollectedIs ==
  ASSUME Owned, NEW r \in Ranks, NEW held \in Seq(Held)
  PROVE  /\ Collected(r, held) \in Seq(Located) /\ SameTags(Collected(r, held), held)
         /\ CurrentGhosts(r, Collected(r, held), OwnPosition, Len(Collected(r, held)))
<1> DEFINE copies == Collected(r, held)
<1>1. Len(held) \in Nat /\ DOMAIN held = 1 .. Len(held) /\ \A i \in 1 .. Len(held) : held[i].tag \in Tags
  BY HeldIs
<1>2. copies = [i \in 1 .. Len(held) |-> copies[i]]
  BY DEF Collected
<1>3. ASSUME NEW i \in 1 .. Len(held)
      PROVE  /\ copies[i] \in Located /\ copies[i].tag = held[i].tag
             /\ Mirrors(r, copies[i].pos, OwnPosition[copies[i].tag])
  <2> DEFINE tag == held[i].tag
             own == OwnPosition[tag]
             pos == WrapGhost(r, own, LayerWidth)
  <2>1. own \in [Axes -> Int] /\ tag \in Tags
    BY <1>1, OwnPositionIs
  <2>2. copies[i] = Particle(tag, pos)
    BY DEF Collected
  <2> HIDE DEF own, copies
  <2>4. pos \in [Axes -> Int] /\ Mirrors(r, pos, own)
    BY <2>1, CongruentToItself, WrapIs
  <2> HIDE DEF pos, tag
  <2>5. copies[i] \in Located /\ copies[i].tag = tag /\ copies[i].pos = pos
    BY <2>1, <2>2, <2>4 DEF Particle, Located
  <2> QED
    BY <2>4, <2>5 DEF tag, own
<1> HIDE DEF copies
<1>4. copies \in Seq(Located) /\ Len(copies) = Len(held) /\ DOMAIN copies = 1 .. Len(held)
  BY <1>1, <1>2, <1>3, FunctionsAre
<1>5. SameTags(copies, held)
  BY <1>3, <1>4 DEF SameTags
<1>6. CurrentGhosts(r, copies, OwnPosition, Len(copies))
  BY <1>3, <1>4 DEF CurrentGhosts
<1> QED
  BY <1>4, <1>5, <1>6 DEF copies

\* What has come, once more: the buffers hold it, or it is the last of it.
Goes(r, buf) ==
    IF stage[r] # Len(Route)
    THEN /\ ghostBuf' = [ghostBuf EXCEPT ![r] = buf] /\ UNCHANGED <<ghosts, rtag>>
         /\ SendGhostBuffers(r, stage[r] + 1, Kind, buf, LeftBy(r))
    ELSE ghostBuf' = [ghostBuf EXCEPT ![r] = <<>>] /\ EndsRound(r)

LEMMA GoesIs ==
  ASSUME RoundOrder, NEW r \in Ranks, NEW H, BufferInv(H), Kind = Working, phase[r] = Working, Arrived(r),
         (NextDirection(r, Kind) /\ UNCHANGED <<ghosts, rtag>>) \/ LastDirection(r)
  PROVE  /\ Goes(r, Buffered(r)) /\ GoesOn(r)
         /\ stage[r] = Len(Route) <=> LastDirection(r)
<1>1. /\ stage[r] \in DOMAIN Route /\ DOMAIN Route = 1 .. Len(Route) /\ Len(Route) \in Nat
      /\ DOMAIN ghostBuf = Ranks /\ Beginning # Working
  BY Awaited, RouteShape, KindIs DEF BufferInv, BufferTypes, RoundOrder
<1>2. LeftBy(r) = Taken(r) /\ GoesOn(r)
  BY <1>1 DEF LeftBy, GoesOn
<1>3. CASE NextDirection(r, Kind) /\ UNCHANGED <<ghosts, rtag>>
  <2>1. stage[r] # Len(Route)
    BY <1>1, <1>3 DEF NextDirection
  <2>2. ghostBuf' = [ghostBuf EXCEPT ![r] = Buffered(r)] /\ SendGhostBuffers(r, stage[r] + 1, Kind, ghostBuf'[r], Taken(r))
    BY <1>3 DEF NextDirection
  <2>3. ghostBuf'[r] = Buffered(r)
    BY <1>1, <2>2
  <2>4. SendGhostBuffers(r, stage[r] + 1, Kind, Buffered(r), LeftBy(r))
    BY <1>2, <2>2, <2>3
  <2>5. ~ LastDirection(r)
    BY <2>1 DEF LastDirection
  <2> QED
    BY <1>2, <1>3, <2>1, <2>2, <2>4, <2>5 DEF Goes
<1>4. CASE LastDirection(r)
  BY <1>2, <1>4 DEF Goes, LastDirection, EndsRound
<1> QED
  BY <1>3, <1>4

\* The other steps of an exchange.
LEMMA ReceiveGhostsIsBuffered ==
  ASSUME RoundOrder, Owned, NEW r \in Ranks, NEW H, BufferInv(H), Step(r), communicator = "GPU",
         ReceiveGhostsGPU(r, LayerWidth)
  PROVE  \E H2, buf : BufferStep(r, H, H2, buf)
<1>1. UNCHANGED <<ptls, moves, communicator>>
  BY StepShape
<1> DEFINE buf == Buffered(r)
           new == Unpacked(r, buf)
           copies == [ i \in DOMAIN new |-> Particle(new[i].ptl.tag, WrapGhost(r, new[i].ptl.pos, LayerWidth)) ]
<1>2. /\ phase[r] = "exchangeGPU" /\ Arrived(r)
      /\ UNCHANGED <<ptls, plan, copyGhosts, numRecv, ghostIdx>>
      /\ \/ NextDirection(r, "exchangeGPU") /\ UNCHANGED <<ghosts, rtag>>
         \/ /\ LastDirection(r) /\ ghosts' = [ghosts EXCEPT ![r] = copies]
            /\ rtag' = [rtag EXCEPT ![r] = Indexed(@, ptls[r] \o ghosts'[r])]
  BY Zenon DEF ReceiveGhostsGPU
<1>3. moves = 0 /\ ~ (moves > 0) /\ phase[r] = Working /\ Kind = "exchangeGPU" /\ Kind = Working
  <2>1. moves = 0 /\ communicator = "GPU"
    BY <1>2, RoundOf
  <2> QED
    BY <1>2, <2>1 DEF Kind, Working
<1>4. stage[r] \in DOMAIN Route
  BY <1>2, <1>3, Awaited
<1>5. PICK k \in DOMAIN Route : k = stage[r]
  BY <1>4
<1> DEFINE longer == Longer(r, k, H)
           sent == Forwards(Src(r, k), k, H)
           H2 == [H EXCEPT ![<<r, k>>] = longer]
<1>6. /\ k <= Announced(Src(r, k)) /\ longer \in Seq(Held) /\ Carries(longer, buf, OwnPosition, Kind)
      /\ Sizes(Message(r).data) = Sizes(sent) /\ Sizes(sent) \in PlanLists
      /\ k \in Nat /\ k >= 1 /\ k <= Len(Route) /\ Route[k] \in Directions
  BY <1>2, <1>3, <1>5, BroughtIs
<1>7. Goes(r, buf) /\ GoesOn(r) /\ (stage[r] = Len(Route) <=> LastDirection(r))
  BY <1>2, <1>3, GoesIs
<1>8. /\ H \in [Ranks \X (0 .. Len(Route)) -> Seq(Held)] /\ ghostIdx \in [Ranks -> Seq(Index)]
      /\ numGhosts \in [Ranks -> [Directions -> PlanLists]] /\ IndexPlaces(r, H)
      /\ ghosts \in [Ranks -> Seq(Located)] /\ DOMAIN rtag = Ranks
  BY DEF BufferInv, BufferTypes, Histories
<1>9. k \in 0 .. Len(Route) /\ <<r, k>> \in Ranks \X (0 .. Len(Route)) /\ k # 0
  BY <1>6, RouteShape
<1>10. /\ H2 \in Histories /\ H2[<<r, k>>] = longer
       /\ \A p \in Ranks \X (0 .. Len(Route)) : p # <<r, k>> => H2[p] = H[p]
  <2> HIDE DEF longer
  <2> QED
    BY <1>6, <1>8, <1>9 DEF Histories
<1>11. /\ numGhosts' \in [Ranks -> [Directions -> PlanLists]]
       /\ numGhosts'[r][Route[k]] = Sizes(sent)
       /\ \A s \in Ranks : \A dir \in Directions :
              <<s, dir>> # <<r, Route[k]>> => numGhosts'[s][dir] = numGhosts[s][dir]
  <2> DEFINE sizes == Sizes(sent)
             inner == [numGhosts[r] EXCEPT ![Route[k]] = sizes]
  <2>1. numGhosts' = [numGhosts EXCEPT ![r][Route[stage[r]]] = Sizes(Message(r).data)]
    BY DEF ReceiveGhostsGPU
  <2>2. numGhosts' = [numGhosts EXCEPT ![r] = inner]
    BY <1>5, <1>6, <2>1, Zenon
  <2> HIDE DEF sizes
  <2>3. sizes \in PlanLists /\ Route[k] \in Directions /\ numGhosts[r] \in [Directions -> PlanLists]
    BY <1>6, <1>8 DEF sizes
  <2>4. inner \in [Directions -> PlanLists] /\ inner[Route[k]] = sizes
        /\ \A dir \in Directions : dir # Route[k] => inner[dir] = numGhosts[r][dir]
    BY <2>3
  <2> HIDE DEF inner
  <2> QED
    BY <1>8, <2>2, <2>4 DEF sizes
<1>12. CASE k = Len(Route)
  <2> DEFINE held == Unpacked(r, longer)
  <2>1. /\ LastDirection(r) /\ ghosts' = [ghosts EXCEPT ![r] = copies]
        /\ rtag' = [rtag EXCEPT ![r] = Indexed(@, ptls[r] \o ghosts'[r])]
    <3>1. LastDirection(r) /\ ~ (stage[r] < Len(Route))
      BY <1>5, <1>6, <1>7, <1>12
    <3>2. ~ NextDirection(r, "exchangeGPU")
      BY <3>1 DEF NextDirection
    <3> QED
      BY <1>2, <3>1, <3>2
  <2>2. /\ held \in Seq(Held) /\ Carries(held, new, OwnPosition, Kind)
        /\ Len(new) = Len(held) /\ DOMAIN new = DOMAIN held
    <3>1. Len(ghostIdx[r]) \in Nat
      BY <1>8, LenProperties
    <3> HIDE DEF longer, buf
    <3> QED
      BY <1>6, <3>1, CarriesUnpacked
  <2>3. copies = Collected(r, held)
    <3>1. DOMAIN held = 1 .. Len(held)
      BY <2>2, HeldIs
    <3>2. ASSUME NEW i \in 1 .. Len(held)
          PROVE  new[i].ptl.tag = held[i].tag /\ new[i].ptl.pos = OwnPosition[held[i].tag]
      <4> HIDE DEF new, held
      <4>1. IsLoad(held[i], new[i], OwnPosition, "exchangeGPU")
        BY <1>3, <2>2 DEF Carries
      <4> QED
        BY <4>1 DEF IsLoad
    <3> HIDE DEF held, new
    <3> QED
      BY <2>2, <3>1, <3>2 DEF Collected
  <2>4. /\ Collected(r, held) \in Seq(Located) /\ SameTags(Collected(r, held), held)
        /\ CurrentGhosts(r, Collected(r, held), OwnPosition, Len(Collected(r, held)))
    BY <2>2, CollectedIs
  <2> HIDE DEF copies, held
  <2>5. /\ ghosts' \in [Ranks -> Seq(Located)] /\ ghosts'[r] = Collected(r, held)
        /\ \A s \in Ranks \ {r} : ghosts'[s] = ghosts[s]
    BY <1>8, <2>1, <2>3, <2>4
  <2>6. rtag' = [rtag EXCEPT ![r] = Indexed(rtag[r], ptls[r] \o ghosts'[r])]
    BY <2>1
  <2>7. stage[r] = Len(Route) /\ ghostBuf' = [ghostBuf EXCEPT ![r] = <<>>] /\ EndsRound(r)
    BY <1>5, <1>7, <1>12 DEF Goes
  <2>8. /\ SameTags(ghosts'[r], Unpacked(r, H2[<<r, Len(Route)>>]))
        /\ CurrentGhosts(r, ghosts'[r], OwnPosition, Len(ghosts'[r]))
    <3>1. Unpacked(r, H2[<<r, Len(Route)>>]) = held
      BY <1>10, <1>12 DEF held
    <3> QED
      BY <2>4, <2>5, <3>1
  <2> HIDE DEF H2, sent, longer, buf
  <2>9. /\ H2[<<r, stage[r]>>] = H[<<r, stage[r] - 1>>] \o Forwards(Src(r, stage[r]), stage[r], H)
        /\ Carries(H2[<<r, stage[r]>>], buf, OwnPosition, Kind) /\ stage[r] # 0
        /\ stage[r] <= Announced(Src(r, stage[r]))
        /\ \A p \in Ranks \X (0 .. Len(Route)) : p # <<r, stage[r]>> => H2[p] = H[p]
        /\ numGhosts'[r][Route[stage[r]]] = Sizes(Forwards(Src(r, stage[r]), stage[r], H))
        /\ \A s \in Ranks : \A dir \in Directions :
               <<s, dir>> # <<r, Route[stage[r]]>> => numGhosts'[s][dir] = numGhosts[s][dir]
    BY <1>5, <1>6, <1>9, <1>10, <1>11 DEF Longer, longer, sent
  <2>10. BufferStep(r, H, H2, buf)
    BY <1>1, <1>2, <1>3, <1>7, <1>8, <1>10, <1>11, <2>5, <2>6, <2>7, <2>8, <2>9 DEF BufferStep, IndexPlaces
  <2> QED
    BY <2>10
<1>13. CASE k # Len(Route)
  <2>1. stage[r] # Len(Route) /\ ghostBuf' = [ghostBuf EXCEPT ![r] = buf] /\ UNCHANGED <<ghosts, rtag>>
        /\ SendGhostBuffers(r, stage[r] + 1, Kind, buf, LeftBy(r))
    BY <1>5, <1>7, <1>13 DEF Goes
  <2> HIDE DEF H2, sent, longer, buf
  <2>9. /\ H2[<<r, stage[r]>>] = H[<<r, stage[r] - 1>>] \o Forwards(Src(r, stage[r]), stage[r], H)
        /\ Carries(H2[<<r, stage[r]>>], buf, OwnPosition, Kind) /\ stage[r] # 0
        /\ stage[r] <= Announced(Src(r, stage[r]))
        /\ \A p \in Ranks \X (0 .. Len(Route)) : p # <<r, stage[r]>> => H2[p] = H[p]
        /\ numGhosts'[r][Route[stage[r]]] = Sizes(Forwards(Src(r, stage[r]), stage[r], H))
        /\ \A s \in Ranks : \A dir \in Directions :
               <<s, dir>> # <<r, Route[stage[r]]>> => numGhosts'[s][dir] = numGhosts[s][dir]
    BY <1>5, <1>6, <1>9, <1>10, <1>11 DEF Longer, longer, sent
  <2>10. BufferStep(r, H, H2, buf)
    BY <1>1, <1>2, <1>3, <1>7, <1>8, <1>10, <1>11, <2>1, <2>9 DEF BufferStep, IndexPlaces
  <2> QED
    BY <2>10
<1> QED
  BY <1>12, <1>13

\* The other steps of an update.
LEMMA ReceivePositionsIsBuffered ==
  ASSUME RoundOrder, Owned, NEW r \in Ranks, NEW H, BufferInv(H), Step(r), communicator = "GPU",
         ReceivePositionsGPU(r, LayerWidth)
  PROVE  \E H2, buf : BufferStep(r, H, H2, buf)
<1>1. UNCHANGED <<ptls, moves, communicator>>
  BY StepShape
<1> DEFINE buf == Buffered(r)
           new == Unpacked(r, buf)
           copies == [ i \in DOMAIN ghosts[r] |-> Particle(ghosts[r][i].tag, WrapGhost(r, new[i].pos, LayerWidth)) ]
<1>2. /\ phase[r] = "updatingGPU" /\ Arrived(r)
      /\ UNCHANGED <<ptls, plan, rtag, copyGhosts, numRecv, ghostIdx, numGhosts>>
      /\ \/ NextDirection(r, "updatingGPU") /\ UNCHANGED ghosts
         \/ LastDirection(r) /\ ghosts' = [ghosts EXCEPT ![r] = copies]
  BY Zenon DEF ReceivePositionsGPU
<1>3. /\ moves > 0 /\ moves # 0 /\ phase[r] = Working /\ Kind = "updatingGPU" /\ Kind = Working
  <2>1. moves > 0 /\ moves # 0 /\ communicator = "GPU"
    BY <1>2, RoundOf
  <2> QED
    BY <1>2, <2>1 DEF Kind, Working
<1>4. stage[r] \in DOMAIN Route
  BY <1>2, <1>3, Awaited
<1>5. PICK k \in DOMAIN Route : k = stage[r]
  BY <1>4
<1> DEFINE longer == Longer(r, k, H)
           sent == Forwards(Src(r, k), k, H)
<1>6. /\ k <= Announced(Src(r, k)) /\ longer \in Seq(Held) /\ Carries(longer, buf, OwnPosition, Kind)
      /\ k \in Nat /\ k >= 1 /\ k <= Len(Route) /\ Route[k] \in Directions
  BY <1>2, <1>3, <1>5, BroughtIs
<1>7. Goes(r, buf) /\ GoesOn(r) /\ (stage[r] = Len(Route) <=> LastDirection(r))
  BY <1>2, <1>3, GoesIs
<1>8. /\ H \in Histories /\ ghostIdx \in [Ranks -> Seq(Index)]
      /\ numGhosts \in [Ranks -> [Directions -> PlanLists]]
      /\ ghosts \in [Ranks -> Seq(Located)] /\ DOMAIN rtag = Ranks
      /\ IndexPlaces(r, H) /\ Received(r, H) /\ GhostPlaces(r, H)
  BY DEF BufferInv, BufferTypes
<1>9. H[<<r, k>>] = longer /\ numGhosts[r][Route[k]] = Sizes(sent)
  <2>1. k \in 1 .. Exchanged(r)
    BY <1>3, <1>6 DEF Exchanged
  <2> QED
    BY <1>8, <2>1 DEF Received, Longer
<1> HIDE DEF longer, sent, buf
<1>10. /\ H[<<r, stage[r]>>] = H[<<r, stage[r] - 1>>] \o Forwards(Src(r, stage[r]), stage[r], H)
       /\ Carries(H[<<r, stage[r]>>], buf, OwnPosition, Kind) /\ stage[r] # 0
       /\ stage[r] <= Announced(Src(r, stage[r]))
       /\ numGhosts[r][Route[stage[r]]] = Sizes(Forwards(Src(r, stage[r]), stage[r], H))
  BY <1>5, <1>6, <1>9 DEF Longer, longer, sent
<1>11. /\ \A s \in Ranks \ {r} : ghostIdx'[s] = ghostIdx[s]
       /\ \A n \in DOMAIN ghostIdx'[r] : ghostIdx'[r][n].idx \in DOMAIN ptls[r]
       /\ ghostIdx' = ghostIdx /\ numGhosts' = numGhosts /\ rtag' = rtag
  BY <1>2, <1>8 DEF IndexPlaces
<1>12. CASE k = Len(Route)
  <2> DEFINE held == Unpacked(r, longer)
  <2>1. LastDirection(r) /\ ghosts' = [ghosts EXCEPT ![r] = copies]
    <3>1. LastDirection(r) /\ ~ (stage[r] < Len(Route))
      BY <1>5, <1>6, <1>7, <1>12
    <3>2. ~ NextDirection(r, "updatingGPU")
      BY <3>1 DEF NextDirection
    <3> QED
      BY <1>2, <3>1, <3>2
  <2>2. /\ held \in Seq(Held) /\ Carries(held, new, OwnPosition, Kind)
        /\ Len(new) = Len(held) /\ DOMAIN new = DOMAIN held
    <3>1. Len(ghostIdx[r]) \in Nat
      BY <1>8, LenProperties
    <3> QED
      BY <1>6, <3>1, CarriesUnpacked
  <2>3. SameTags(ghosts[r], held)
    BY <1>3, <1>8, <1>9, <1>12 DEF GhostPlaces
  <2>4. copies = Collected(r, held)
    <3>1. /\ DOMAIN held = 1 .. Len(held)
          /\ DOMAIN ghosts[r] = 1 .. Len(ghosts[r])
      BY <1>8, <2>2, HeldIs, LenProperties
    <3>2. ASSUME NEW i \in 1 .. Len(held)
          PROVE  new[i].pos = OwnPosition[held[i].tag]
      <4> HIDE DEF new, held
      <4>1. IsLoad(held[i], new[i], OwnPosition, "updatingGPU")
        BY <1>3, <2>2 DEF Carries
      <4> QED
        BY <4>1 DEF IsLoad
    <3> HIDE DEF held, new
    <3>3. DOMAIN ghosts[r] = 1 .. Len(held) /\ \A i \in 1 .. Len(held) : ghosts[r][i].tag = held[i].tag
      BY <2>3, <3>1 DEF SameTags
    <3> QED
      BY <3>2, <3>3 DEF Collected
  <2>5. /\ Collected(r, held) \in Seq(Located) /\ SameTags(Collected(r, held), held)
        /\ CurrentGhosts(r, Collected(r, held), OwnPosition, Len(Collected(r, held)))
    BY <2>2, CollectedIs
  <2> HIDE DEF copies, held
  <2>6. /\ ghosts' \in [Ranks -> Seq(Located)] /\ ghosts'[r] = Collected(r, held)
        /\ \A s \in Ranks \ {r} : ghosts'[s] = ghosts[s]
    BY <1>8, <2>1, <2>4, <2>5
  <2>7. stage[r] = Len(Route) /\ ghostBuf' = [ghostBuf EXCEPT ![r] = <<>>] /\ EndsRound(r)
    BY <1>5, <1>7, <1>12 DEF Goes
  <2>8. /\ SameTags(ghosts'[r], Unpacked(r, H[<<r, Len(Route)>>]))
        /\ CurrentGhosts(r, ghosts'[r], OwnPosition, Len(ghosts'[r]))
    <3>1. Unpacked(r, H[<<r, Len(Route)>>]) = held
      BY <1>9, <1>12 DEF held
    <3> QED
      BY <2>5, <2>6, <3>1
  <2>9. BufferStep(r, H, H, buf)
    BY <1>1, <1>2, <1>3, <1>7, <1>8, <1>10, <1>11, <2>6, <2>7, <2>8 DEF BufferStep
  <2> QED
    BY <2>9
<1>13. CASE k # Len(Route)
  <2>1. stage[r] # Len(Route) /\ ghostBuf' = [ghostBuf EXCEPT ![r] = buf] /\ UNCHANGED <<ghosts, rtag>>
        /\ SendGhostBuffers(r, stage[r] + 1, Kind, buf, LeftBy(r))
    BY <1>5, <1>7, <1>13 DEF Goes
  <2>2. BufferStep(r, H, H, buf)
    BY <1>1, <1>2, <1>3, <1>7, <1>8, <1>10, <1>11, <2>1 DEF BufferStep
  <2> QED
    BY <2>2
<1> QED
  BY <1>12, <1>13

-----------------------------------------------------------------------------
\* Before an exchange the buffers are empty, and no numbers are known.
NoBuffers == ghostIdx = [r \in Ranks |-> <<>>] /\ numGhosts = Cleared /\ DOMAIN ghostBuf = Ranks

LEMMA FreshBuffers ==
  RoundOrder /\ Fresh /\ NoBuffers => \E H : BufferInv(H)
<1> SUFFICES ASSUME RoundOrder, Fresh, NoBuffers
             PROVE  \E H : BufferInv(H)
  OBVIOUS
<1> DEFINE H == [p \in Ranks \X (0 .. Len(Route)) |-> <<>>]
<1>1. /\ moves = 0 /\ phase = [r \in Ranks |-> "migrated"] /\ stage = [r \in Ranks |-> 0]
      /\ ghosts = [r \in Ranks |-> <<>>] /\ copyGhosts = Cleared
      /\ numRecv = [r \in Ranks |-> [dir \in Directions |-> 0]]
      /\ channel = [pair \in Ranks \X Ranks |-> <<>>]
  BY DEF Fresh
<1>2. CopyPlaces
  BY FreshPlaces
<1>3. \A r \in Ranks : Exchanged(r) = 0 /\ Announced(r) = 0 /\ phase[r] # Working /\ phase[r] = "migrated"
  <2>1. ASSUME NEW r \in Ranks
        PROVE  Exchanged(r) = 0 /\ Announced(r) = 0 /\ phase[r] # Working /\ phase[r] = "migrated"
    <3>1. phase[r] = "migrated" /\ stage[r] = 0
      BY <1>1
    <3> QED
      BY <1>1, <3>1 DEF Exchanged, Announced, Working
  <2> QED
    BY <2>1
<1>4. BufferTypes
  <2>1. <<>> \in Seq(Located) /\ <<>> \in Seq(Index) /\ <<>> \in PlanLists
    BY EmptySeq DEF PlanLists
  <2>2. DOMAIN rtag = Ranks
    BY <1>2 DEF CopyPlaces
  <2> HIDE DEF CopyPlaces
  <2> QED
    BY <1>1, <2>1, <2>2 DEF BufferTypes, NoBuffers, Cleared
<1>5. H \in Histories
  <2>1. <<>> \in Seq(Held)
    BY EmptySeq
  <2> QED
    BY <2>1 DEF Histories
<1> HIDE DEF H
<1>6. ASSUME NEW r \in Ranks
      PROVE  IndexPlaces(r, H) /\ Received(r, H) /\ HeldPlaces(r, H) /\ Loaded(r, H) /\ GhostPlaces(r, H)
  <2>1. IndexPlaces(r, H)
    BY <1>3 DEF IndexPlaces, NoBuffers
  <2>2. Received(r, H)
    BY <1>3 DEF Received
  <2>3. HeldPlaces(r, H) /\ Loaded(r, H)
    BY <1>3 DEF HeldPlaces, Loaded
  <2>4. TagsApart(Arrays(r)) /\ rtag[r] = Indexed(NoIndex, Arrays(r))
    BY <1>2 DEF CopyPlaces, ArrayPlaces
  <2>5. ~ (moves > 0 \/ phase[r] = "current") /\ ghosts[r] = <<>>
    BY <1>1, <1>3
  <2>6. GhostPlaces(r, H)
    BY <2>4, <2>5 DEF GhostPlaces
  <2> QED
    BY <2>1, <2>2, <2>3, <2>6
<1>7. \A from, to \in Ranks : DOMAIN channel[<<from, to>>] = {}
  BY <1>1
<1>8. AllLoaded(H)
  BY <1>7, Zenon DEF AllLoaded
<1> QED
  BY <1>4, <1>5, <1>6, <1>8 DEF BufferInv

LEMMA FreshBuffersNext ==
  RoundOrder' /\ Fresh' /\ NoBuffers' => (\E H : BufferInv(H))'
BY FreshBuffers, PTL

\* Between two rounds the particles move, and everything stays where it is.
LEMMA MoveKeepsBuffers ==
  ASSUME RoundOrder, Owned, NEW H, BufferInv(H), communicator = "GPU", MoveAndUpdate
  PROVE  BufferInv(H)'
<1>1. /\ AllCurrent /\ moves' = moves + 1 /\ phase' = [r \in Ranks |-> "update"]
      /\ UNCHANGED <<stage, ghosts, rtag, copyGhosts, numRecv, channel, ghostIdx, ghostBuf, numGhosts>>
  BY DEF MoveAndUpdate, ghostBuffers
<1>2. PICK d \in Steps :
        ptls' = [r \in Ranks |-> [i \in DOMAIN ptls[r] |-> Displaced(ptls[r][i], d)]]
  BY DEF MoveAndUpdate
<1>3. /\ Owned'
      /\ \A r \in Ranks : DOMAIN ptls'[r] = DOMAIN ptls[r] /\ Len(ptls'[r]) = Len(ptls[r])
      /\ \A r \in Ranks : \A i \in DOMAIN ptls[r] : ptls'[r][i].tag = ptls[r][i].tag
  BY <1>2, OwnedAfterMove
<1>4. /\ moves \in Nat /\ moves' > 0 /\ moves' # 0
      /\ \A r \in Ranks : phase[r] = "current" /\ phase'[r] = "update"
  BY <1>1, LayerAssumption DEF RoundOrder, AllCurrent
<1>5. \A r \in Ranks : /\ Exchanged(r) = Len(Route) /\ Exchanged(r)' = Len(Route)
                       /\ Announced(r) = Len(Route) /\ Announced(r)' = Len(Route)
  BY <1>4 DEF Exchanged, Announced
<1>6. /\ H \in Histories /\ BufferTypes
      /\ \A r \in Ranks : IndexPlaces(r, H) /\ Received(r, H) /\ GhostPlaces(r, H)
  BY DEF BufferInv
<1>7. BufferTypes'
  BY <1>1, <1>6 DEF BufferTypes, Cleared
<1>8. ptls \in [Ranks -> Seq(Located)] /\ ptls' \in [Ranks -> Seq(Located)] /\ ghosts \in [Ranks -> Seq(Located)]
  BY <1>3, <1>6 DEF Owned, BufferTypes
<1>9. ASSUME NEW r \in Ranks
      PROVE  /\ IndexPlaces(r, H)' /\ Received(r, H)' /\ HeldPlaces(r, H)'
             /\ Loaded(r, H)' /\ GhostPlaces(r, H)'
  <2>0. IndexPlaces(r, H) /\ Received(r, H) /\ GhostPlaces(r, H) /\ Len(Route) >= 1
    BY <1>6, RouteShape
  <2>1. IndexPlaces(r, H)'
    <3>1. \A n \in DOMAIN ghostIdx[r] : ghostIdx[r][n].idx \in DOMAIN ptls[r]
      BY <2>0 DEF IndexPlaces
    <3>2. OwnHeld(ghostIdx[r], ptls[r], H[<<r, 0>>])
      BY <1>5, <2>0 DEF IndexPlaces
    <3>3. OwnHeld(ghostIdx[r], ptls'[r], H[<<r, 0>>])
      BY <1>3, <3>1, <3>2 DEF OwnHeld
    <3>4. \A n \in DOMAIN ghostIdx'[r] : ghostIdx'[r][n].idx \in DOMAIN ptls'[r]
      BY <1>1, <1>3, <3>1
    <3> QED
      BY <1>1, <3>3, <3>4 DEF IndexPlaces
  <2>2. Received(r, H)'
    <3>1. \A k \in 1 .. Len(Route) : Src(r, k) \in Ranks
      BY SrcIs, RouteShape
    <3>2. \A k \in 1 .. Len(Route) : Announced(Src(r, k))' = Announced(Src(r, k))
      <4>1. ASSUME NEW k \in 1 .. Len(Route)
            PROVE  Announced(Src(r, k))' = Announced(Src(r, k))
        <5>1. Src(r, k) \in Ranks
          BY <3>1
        <5> QED
          BY <1>4, <5>1 DEF Announced
      <4> QED
        BY <4>1
    <3> QED
      BY <1>1, <1>5, <2>0, <3>2 DEF Received, Forwards
  <2>3. HeldPlaces(r, H)'
    BY <1>4 DEF HeldPlaces
  <2>4. Loaded(r, H)'
    <3>1. phase'[r] # Working'
      BY <1>4 DEF Working
    <3> QED
      BY <3>1 DEF Loaded
  <2>5. GhostPlaces(r, H)'
    <3> DEFINE a == ptls[r]
               a2 == ptls'[r]
               b == ghosts[r]
    <3>1. /\ a \in Seq(Located) /\ a2 \in Seq(Located) /\ b \in Seq(Located) /\ TagsApart(a \o b)
          /\ rtag'[r] = Indexed(NoIndex, a \o b)
      BY <1>1, <1>8, <2>0 DEF GhostPlaces, Arrays
    <3>2. SameTags(a, a2) /\ SameTags(b, b)
      BY <1>3 DEF SameTags
    <3>3. SameTags(ghosts[r], Unpacked(r, H[<<r, Len(Route)>>]))
      BY <1>4, <2>0 DEF GhostPlaces
    <3>4. SameTags(ghosts'[r], Unpacked(r, H[<<r, Len(Route)>>])')
      BY <1>1, <3>3 DEF Unpacked
    <3>5. Arrays(r)' = a2 \o b
      BY <1>1 DEF Arrays
    <3> HIDE DEF a, a2, b
    <3>6. TagsApart(a2 \o b) /\ Indexed(NoIndex, a \o b) = Indexed(NoIndex, a2 \o b)
      BY <3>1, <3>2, PlacesKept
    <3>7. phase'[r] # "current" /\ moves' > 0
      BY <1>4
    <3> QED
      BY <3>1, <3>4, <3>5, <3>6, <3>7 DEF GhostPlaces
  <2> QED
    BY <2>1, <2>2, <2>3, <2>4, <2>5
<1>10. AllLoaded(H)'
  <2>0. AllCurrent /\ channel' = channel
    BY <1>1
  <2>1. \A from, to \in Ranks : DOMAIN channel'[<<from, to>>] = {}
    <3>1. channel' = [pair \in Ranks \X Ranks |-> <<>>]
      BY <2>0, NothingOnItsWay
    <3> QED
      BY <3>1
  <2> QED
    BY <2>1, Zenon DEF AllLoaded
<1> QED
  BY <1>6, <1>7, <1>9, <1>10 DEF BufferInv

LEMMA SameBuffers ==
  ASSUME UNCHANGED layerVars, NEW H, BufferInv(H)
  PROVE  BufferInv(H)'
<1>1. UNCHANGED <<phase, stage, ptls, ghosts, rtag, copyGhosts, numRecv, channel, moves, communicator,
                  ghostIdx, ghostBuf, numGhosts>>
  BY DEF layerVars, ghostVars, ghostBuffers
<1>2. \A r : Exchanged(r)' = Exchanged(r) /\ Announced(r)' = Announced(r)
  BY <1>1 DEF Exchanged, Announced
<1>3. Home' = Home /\ Way' = Way /\ OwnPosition' = OwnPosition /\ Working' = Working /\ Kind' = Kind
  BY <1>1, SamePlaces DEF Working, Kind
<1>4. BufferTypes'
  BY <1>1 DEF BufferInv, BufferTypes, Cleared
<1>5. ASSUME NEW r \in Ranks
      PROVE  /\ IndexPlaces(r, H)' /\ Received(r, H)' /\ HeldPlaces(r, H)'
             /\ Loaded(r, H)' /\ GhostPlaces(r, H)'
  <2>0. IndexPlaces(r, H) /\ Received(r, H) /\ HeldPlaces(r, H) /\ Loaded(r, H) /\ GhostPlaces(r, H)
    BY DEF BufferInv
  <2>1. IndexPlaces(r, H)'
    BY <1>1, <1>2, <2>0 DEF IndexPlaces
  <2>2. Received(r, H)'
    <3>1. \A k : Announced(Src(r, k))' = Announced(Src(r, k))
      BY <1>1 DEF Announced
    <3> QED
      BY <1>1, <1>2, <2>0, <3>1 DEF Received, Forwards
  <2>3. HeldPlaces(r, H)'
    BY <1>1, <1>2, <1>3, <2>0 DEF HeldPlaces
  <2>4. Loaded(r, H)'
    BY <1>1, <1>3, <2>0 DEF Loaded
  <2>5. GhostPlaces(r, H)'
    <3>1. Unpacked(r, H[<<r, Len(Route)>>])' = Unpacked(r, H[<<r, Len(Route)>>])
      BY <1>1 DEF Unpacked
    <3> QED
      BY <1>1, <1>3, <2>0, <3>1 DEF GhostPlaces, Arrays
  <2> QED
    BY <2>1, <2>2, <2>3, <2>4, <2>5
<1>6. AllLoaded(H)'
  BY <1>1, <1>2, <1>3, Zenon DEF BufferInv, AllLoaded
<1>7. H \in Histories
  BY DEF BufferInv
<1> QED
  BY <1>4, <1>5, <1>6, <1>7 DEF BufferInv

-----------------------------------------------------------------------------
(* CommunicatorGPU: what the ranks promise each other.                      *)
BuffersInUse == communicator = "GPU" => \E H : BufferInv(H)

LEMMA BuffersInit ==
  ASSUME LayerInit
  PROVE  BuffersInUse
<1>1. RoundOrder /\ Fresh
  BY RoundOrderInit, FreshInit
<1>2. NoBuffers
  BY DEF LayerInit, NoBuffers
<1> QED
  BY <1>1, <1>2, FreshBuffers DEF BuffersInUse

LEMMA StepKeepsBuffers ==
  ASSUME CopyInv, NEW r \in Ranks, Step(r), communicator = "GPU", NEW H, BufferInv(H)
  PROVE  (\E G : BufferInv(G))'
<1>1. RoundOrder /\ Owned
  BY DEF CopyInv
<1>2. GhostStepGPU(r, LayerWidth)
  BY DEF Step
<1>3. \E H2, buf : BufferStep(r, H, H2, buf)
  BY <1>1, <1>2, BeginExchangeIsBuffered, BeginUpdateIsBuffered, ReceiveGhostsIsBuffered,
     ReceivePositionsIsBuffered DEF GhostStepGPU
<1>4. PICK H2, buf : BufferStep(r, H, H2, buf)
  BY <1>3
<1>5. BufferInv(H2)'
  BY <1>1, <1>4, BufferKeepsPlaces
<1> QED
  BY <1>5

LEMMA BuffersNext ==
  ASSUME CopyInv, BuffersInUse, [LayerNext]_layerVars
  PROVE  BuffersInUse'
<1>1. RoundOrder /\ Owned /\ communicator \in {"CPU", "GPU"}
  BY DEF CopyInv, RoundOrder
<1>2. SUFFICES ASSUME communicator' = "GPU"
               PROVE  (\E G : BufferInv(G))'
  BY DEF BuffersInUse
<1>3. communicator' = communicator
  <2>1. \A r \in Ranks : Step(r) => communicator' = communicator
    BY DEF Step
  <2> QED
    BY <2>1 DEF LayerNext, MoveAndUpdate, MoveAndMigrate, Rest, SortAndUpdate, layerVars
<1>4. communicator = "GPU"
  BY <1>2, <1>3
<1>5. PICK H : BufferInv(H)
  BY <1>4 DEF BuffersInUse
<1>6. CASE UNCHANGED layerVars
  <2>1. BufferInv(H)'
    BY <1>5, <1>6, SameBuffers
  <2> QED
    BY <2>1
<1>7. CASE MoveAndUpdate
  <2>1. BufferInv(H)'
    BY <1>1, <1>4, <1>5, <1>7, MoveKeepsBuffers
  <2> QED
    BY <2>1
<1>8. CASE MoveAndMigrate
  <2>1. NoPlans
    BY <1>8, NoPlansLeft DEF MoveAndMigrate
  <2>2. Fresh' /\ RoundOrder'
    BY <1>1, <1>8, <2>1, FreshAfterMigration, RoundOrderNext
  <2>3. NoBuffers'
    <3>1. DOMAIN ghostBuf = Ranks
      BY <1>5 DEF BufferInv, BufferTypes
    <3> QED
      BY <1>8, <3>1 DEF MoveAndMigrate, NoBuffers, Cleared
  <2> QED
    BY <2>2, <2>3, FreshBuffersNext
<1>9. ASSUME NEW r \in Ranks, SortAndUpdate(r)
      PROVE  FALSE
  BY <1>4, <1>9 DEF SortAndUpdate
<1>10. ASSUME NEW r \in Ranks, Step(r)
       PROVE  (\E G : BufferInv(G))'
  BY <1>4, <1>5, <1>10, StepKeepsBuffers
<1>11. Rest => UNCHANGED layerVars
  BY DEF Rest
<1> QED
  BY <1>6, <1>7, <1>8, <1>9, <1>10, <1>11 DEF LayerNext

\* CommunicatorGPU: whatever order the threads put the particles into the
\* buffers, every rank can tell from the plans and the sizes of the exchange
\* what it holds and what comes in the updates.
THEOREM BuffersKept == LayerSpec => [](CopyInv /\ BuffersInUse)
<1>1. LayerInit => CopyInv /\ BuffersInUse
  BY CopyInvInit, BuffersInit
<1>2. CopyInv /\ BuffersInUse /\ [LayerNext]_layerVars => (CopyInv /\ BuffersInUse)'
  BY CopyInvNext, BuffersNext
<1> QED
  BY <1>1, <1>2, PTL DEF LayerSpec

-----------------------------------------------------------------------------
(* The properties of the ghosts follow, for both communicators.             *)
NoIndices == communicator = "CPU" => \A r \in Ranks : ghostIdx[r] = <<>>
GhostInv == CopyInv /\ BuffersInUse /\ NoIndices

LEMMA NoIndicesNext ==
  ASSUME NoIndices, [LayerNext]_layerVars
  PROVE  NoIndices'
<1>1. CASE UNCHANGED layerVars
  BY <1>1 DEF NoIndices, layerVars, ghostBuffers
<1>2. CASE MoveAndMigrate
  BY <1>2 DEF NoIndices, MoveAndMigrate
<1>3. CASE MoveAndUpdate
  BY <1>3 DEF NoIndices, MoveAndUpdate, ghostBuffers
<1>4. ASSUME NEW r \in Ranks, SortAndUpdate(r)
      PROVE  NoIndices'
  BY <1>4 DEF NoIndices, SortAndUpdate, ghostBuffers
<1>5. ASSUME NEW r \in Ranks, Step(r)
      PROVE  NoIndices'
  <2>1. communicator' = communicator /\ (communicator = "CPU" => UNCHANGED ghostBuffers)
    BY <1>5 DEF Step
  <2> QED
    BY <2>1 DEF NoIndices, ghostBuffers
<1>6. Rest => UNCHANGED layerVars
  BY DEF Rest
<1> QED
  BY <1>1, <1>2, <1>3, <1>4, <1>5, <1>6 DEF LayerNext

\* The two communicators together: what every rank holds, and what every
\* message brings, can be told from the copy lists or the buffers.
THEOREM GhostsKept == LayerSpec => []GhostInv
<1>1. LayerInit => NoIndices
  BY DEF LayerInit, NoIndices
<1>2. NoIndices /\ [LayerNext]_layerVars => NoIndices'
  BY NoIndicesNext
<1>3. LayerSpec => []NoIndices
  BY <1>1, <1>2, PTL DEF LayerSpec
<1>4. CopyInv /\ BuffersInUse /\ NoIndices => GhostInv
  BY DEF GhostInv
<1> QED
  BY <1>3, <1>4, BuffersKept, PTL

\* What follows for the arrays of a rank.
LEMMA ArraysAre ==
  ASSUME GhostInv, NEW r \in Ranks
  PROVE  /\ ptls[r] \in Seq(Located) /\ ghosts[r] \in Seq(Located) /\ Arrays(r) \in Seq(Located)
         /\ TagsApart(Arrays(r)) /\ rtag[r] = Indexed(NoIndex, Arrays(r))
         /\ phase[r] = "current" => CurrentGhosts(r, ghosts[r], OwnPosition, Len(ghosts[r]))
<1>1. RoundOrder /\ Owned /\ communicator \in {"CPU", "GPU"}
  BY DEF GhostInv, CopyInv, RoundOrder
<1>2. ptls[r] \in Seq(Located)
  BY <1>1 DEF Owned
<1>3. CASE communicator = "CPU"
  <2>1. ListTypes /\ CopyPlaces
    BY <1>3 DEF GhostInv, CopyInv, CopyLists
  <2>2. ghosts[r] \in Seq(Located)
    BY <2>1 DEF ListTypes
  <2>3. Arrays(r) \in Seq(Located)
    BY <1>2, <2>2 DEF Arrays
  <2>4. ArrayPlaces(r) /\ CurrentGhosts(r, ghosts[r], OwnPosition, Updated(r))
    BY <2>1 DEF CopyPlaces
  <2> QED
    BY <1>2, <2>2, <2>3, <2>4 DEF ArrayPlaces, Updated
<1>4. CASE communicator = "GPU"
  <2>1. PICK H : BufferInv(H)
    BY <1>4 DEF GhostInv, BuffersInUse
  <2>2. ghosts[r] \in Seq(Located) /\ GhostPlaces(r, H)
    BY <2>1 DEF BufferInv, BufferTypes
  <2>3. Arrays(r) \in Seq(Located)
    BY <1>2, <2>2 DEF Arrays
  <2> QED
    BY <1>2, <2>2, <2>3 DEF GhostPlaces
<1> QED
  BY <1>1, <1>3, <1>4

\* Communicator.cc 1089: no rank has a particle twice, local or ghost, whatever
\* way it came, on a grid of any size and with either communicator; the reverse
\* lookup finds each where it is.
THEOREM EachOnce == LayerSpec => []OneCopyOfEach
<1>1. GhostInv => OneCopyOfEach
  <2>1. ASSUME GhostInv, NEW r \in Ranks
        PROVE  /\ \A i, j \in DOMAIN Arrays(r) : Arrays(r)[i].tag = Arrays(r)[j].tag => i = j
               /\ rtag[r] = Indexed(NoIndex, Arrays(r))
    BY <2>1, ArraysAre DEF TagsApart
  <2> QED
    BY <2>1 DEF OneCopyOfEach
<1> QED
  BY <1>1, GhostsKept, PTL

\* Communicator.h 336: after a round of communication every ghost is where its
\* owner has the particle, up to periods of the box, for any sequence of moves,
\* sorts, exchanges and updates.
THEOREM GhostsFollow == LayerSpec => []GhostsAreCurrent
<1>1. GhostInv => GhostsAreCurrent
  <2>1. ASSUME GhostInv, NEW r \in Ranks, phase[r] = "current", NEW i \in DOMAIN ghosts[r]
        PROVE  Congruent(ghosts[r][i].pos, OwnPosition[ghosts[r][i].tag])
    <3>1. ghosts[r] \in Seq(Located) /\ CurrentGhosts(r, ghosts[r], OwnPosition, Len(ghosts[r]))
      BY <2>1, ArraysAre
    <3>2. i <= Len(ghosts[r])
      BY <3>1, LenProperties
    <3> QED
      BY <3>1, <3>2 DEF CurrentGhosts, Mirrors
  <2> QED
    BY <2>1 DEF GhostsAreCurrent, Congruent
<1> QED
  BY <1>1, GhostsKept, PTL

\* What a rank with a GPU or without receives has the size it expects: nobody
\* checks it, the order of the messages and of the lists makes it so.
THEOREM SizesFit == LayerSpec => []UpdatesFitLists
<1>1. GhostInv => UpdatesFitLists
  <2>1. ASSUME GhostInv, NEW r \in Ranks, phase[r] \in DOMAIN Expected, Arrived(r)
        PROVE  /\ Message(r).dir = Route[stage[r]]
               /\ Message(r).kind = Expected[phase[r]]
               /\ phase[r] = "updating" => Len(Message(r).data) = numRecv[r][Route[stage[r]]]
               /\ phase[r] = "updatingGPU" => Sizes(Message(r).data) = numGhosts[r][Route[stage[r]]]
    <3>1. RoundOrder /\ Owned /\ communicator \in {"CPU", "GPU"}
      BY <2>1 DEF GhostInv, CopyInv, RoundOrder
    <3>2. phase[r] \in {"exchange", "updating", "exchangeGPU", "updatingGPU"}
      BY <2>1 DEF Expected
    <3>3. /\ phase[r] = "exchange" => communicator = "CPU" /\ moves = 0 /\ phase[r] = Working
          /\ phase[r] = "updating" => communicator = "CPU" /\ moves > 0 /\ phase[r] = Working
          /\ phase[r] = "exchangeGPU" => communicator = "GPU" /\ moves = 0 /\ phase[r] = Working
          /\ phase[r] = "updatingGPU" => communicator = "GPU" /\ moves > 0 /\ phase[r] = Working
      BY <3>1, <3>2, RoundOf
    <3>4. phase[r] = Working /\ Kind = Expected[phase[r]]
      <4>1. moves > 0 => moves # 0
        OBVIOUS
      <4> QED
        BY <3>2, <3>3, <4>1 DEF Kind, Expected
    <3>5. stage[r] \in DOMAIN Route /\ Message(r).dir = Route[stage[r]] /\ Message(r).kind = Kind
      BY <2>1, <3>1, <3>4, Awaited
    <3>6. PICK k \in DOMAIN Route : k = stage[r]
      BY <3>5
    <3>7. k \in 1 .. Len(Route)
      BY RouteShape
    <3>8. moves > 0 => k \in 1 .. Exchanged(r)
      BY <3>7 DEF Exchanged
    <3>9. ASSUME phase[r] = "updating"
          PROVE  Len(Message(r).data) = numRecv[r][Route[k]]
      <4>1. CopyLists
        BY <2>1, <3>3, <3>9 DEF GhostInv, CopyInv
      <4>2. Len(Message(r).data) = Len(copyGhosts[Src(r, k)][Route[k]])
        BY <2>1, <3>1, <3>4, <3>6, <4>1, AwaitedFits DEF CopyLists
      <4>3. FromList(r, k)
        BY <3>3, <3>8, <3>9, <4>1 DEF CopyLists, ListsOf
      <4> QED
        BY <4>2, <4>3 DEF FromList
    <3>10. ASSUME phase[r] = "updatingGPU"
           PROVE  Sizes(Message(r).data) = numGhosts[r][Route[k]]
      <4>1. PICK H : BufferInv(H)
        BY <2>1, <3>3, <3>10 DEF GhostInv, BuffersInUse
      <4>2. Kind = Working
        BY <3>4, <3>10 DEF Expected
      <4>3. Sizes(Message(r).data) = Sizes(Forwards(Src(r, k), k, H))
        BY <2>1, <3>1, <3>4, <3>6, <4>1, <4>2, BroughtIs
      <4>4. Received(r, H)
        BY <4>1 DEF BufferInv
      <4> QED
        BY <3>3, <3>8, <3>10, <4>3, <4>4 DEF Received
    <3> QED
      BY <3>4, <3>5, <3>6, <3>9, <3>10
  <2> QED
    BY <2>1 DEF UpdatesFitLists
<1> QED
  BY <1>1, GhostsKept, PTL

\* The types of the ghost arrays, lists and buffers.
THEOREM LayerTypes == LayerSpec => []LayerTypeOK
<1>1. GhostInv => LayerTypeOK
  <2> SUFFICES ASSUME GhostInv
               PROVE  LayerTypeOK
    OBVIOUS
  <2>1. RoundOrder /\ Owned /\ communicator \in {"CPU", "GPU"}
    BY DEF GhostInv, CopyInv, RoundOrder
  <2>2. stage \in [Ranks -> 0 .. Len(Route)] /\ moves \in 0 .. MaxMoves
    BY <2>1 DEF RoundOrder
  <2>3. phase \in [Ranks -> {"migrated", "exchange", "update", "updating",
                             "exchangeGPU", "updatingGPU", "current"}]
    BY <2>1 DEF RoundOrder, Beginning, Working
  <2>4. DOMAIN channel = Ranks \X Ranks
    BY <2>1 DEF RoundOrder, AllInOrder
  <2>5. ASSUME NEW r \in Ranks
        PROVE  /\ TagsOf(Arrays(r)) \subseteq Tags
               /\ rtag[r] \in [Tags -> 0 .. Len(Arrays(r)) - 1 \cup {NOT_LOCAL}]
    <3> DEFINE all == Arrays(r)
    <3>1. all \in Seq(Located) /\ TagsApart(all) /\ rtag[r] = Indexed(NoIndex, all)
      BY ArraysAre
    <3> HIDE DEF all
    <3>2. DOMAIN all = 1 .. Len(all) /\ Len(all) \in Nat /\ \A i \in DOMAIN all : all[i].tag \in Tags
      <4>1. DOMAIN all = 1 .. Len(all) /\ Len(all) \in Nat
        BY <3>1, LenProperties
      <4>2. \A i \in DOMAIN all : all[i] \in Located
        BY <3>1, <4>1, ElementOfSeq
      <4> QED
        BY <4>1, <4>2 DEF Located
    <3>3. ASSUME NEW tag \in Tags
          PROVE  Indexed(NoIndex, all)[tag] \in 0 .. Len(all) - 1 \cup {NOT_LOCAL}
      <4>1. CASE tag \in TagsOf(all)
        <5>1. PICK i \in DOMAIN all : all[i].tag = tag
          BY <4>1 DEF TagsOf
        <5>2. Indexed(NoIndex, all)[tag] = i - 1
          BY <3>1, <5>1, LookedUp
        <5> QED
          BY <3>2, <5>2
      <4>2. CASE tag \notin TagsOf(all)
        BY <4>2 DEF Indexed, NoIndex
      <4> QED
        BY <4>1, <4>2
    <3>4. rtag[r] = [tag \in Tags |-> Indexed(NoIndex, all)[tag]]
      BY <3>1 DEF Indexed
    <3>5. rtag[r] \in [Tags -> 0 .. Len(all) - 1 \cup {NOT_LOCAL}]
      BY <3>3, <3>4
    <3>6. TagsOf(all) \subseteq Tags
      BY <3>2 DEF TagsOf
    <3> QED
      BY <3>5, <3>6 DEF all
  <2>6. ASSUME NEW r \in Ranks
        PROVE  /\ \A i \in DOMAIN plan[r] : plan[r][i] \subseteq Communicating
               /\ \A dir \in Directions : Range(copyGhosts[r][dir]) \subseteq Tags /\ numRecv[r][dir] \in Nat
               /\ \A copy \in Range(ghostIdx[r]) : copy.idx \in DOMAIN ptls[r]
    <3>1. CASE communicator = "CPU"
      <4>1. ListTypes
        BY <3>1 DEF GhostInv, CopyInv, CopyLists
      <4>2. /\ plan[r] \in Seq(SUBSET Communicating) /\ numRecv[r] \in [Directions -> Nat]
            /\ copyGhosts[r] \in [Directions -> Seq(Tags)]
        BY <4>1 DEF ListTypes
      <4>3. ghostIdx[r] = <<>>
        BY <3>1 DEF GhostInv, NoIndices
      <4>4. \A i \in DOMAIN plan[r] : plan[r][i] \in SUBSET Communicating
        BY <4>2, ElementOfSeq
      <4>5. \A dir \in Directions : Range(copyGhosts[r][dir]) \subseteq Tags /\ numRecv[r][dir] \in Nat
        BY <4>2 DEF Range
      <4> QED
        BY <4>3, <4>4, <4>5 DEF Range
    <3>2. CASE communicator = "GPU"
      <4>1. PICK H : BufferInv(H)
        BY <3>2 DEF GhostInv, BuffersInUse
      <4>2. BufferTypes /\ IndexPlaces(r, H)
        BY <4>1 DEF BufferInv
      <4>3. plan[r] = <<>>
        BY <3>2 DEF GhostInv, CopyInv, NoPlans
      <4>4. \A dir \in Directions : copyGhosts[r][dir] = <<>> /\ numRecv[r][dir] = 0
        BY <4>2 DEF BufferTypes, Cleared
      <4>5. \A copy \in Range(ghostIdx[r]) : copy.idx \in DOMAIN ptls[r]
        BY <4>2 DEF IndexPlaces, Range
      <4> QED
        BY <4>3, <4>4, <4>5 DEF Range
    <3> QED
      BY <2>1, <3>1, <3>2
  <2>7. GhostTypeOK
    BY <2>2, <2>4, <2>5, <2>6 DEF GhostTypeOK
  <2> QED
    BY <2>2, <2>3, <2>6, <2>7 DEF LayerTypeOK
<1> QED
  BY <1>1, GhostsKept, PTL
=============================================================================
