--------------------------- MODULE MigrationProofs ---------------------------
(***************************************************************************)
(* The migration, for any grid of ranks, any particles and bonds and any of*)
(* the two communicators: what a rank receives is what it waits for, every *)
(* particle comes to the rank of its domain and has one owner on its way,  *)
(* and the bonds follow the particles they join.                           *)
(***************************************************************************)
EXTENDS ParticleMigration, GridProofs

-----------------------------------------------------------------------------
(* What is sent when particles migrate.                                     *)

Kinds(com) ==
    IF com = "CPU" THEN IF BondTags = {} THEN {"particles"} ELSE {"particles", "bonds"}
    ELSE IF BondTags = {} THEN {"ptlBuffers"} ELSE {"ptlBuffers", "bondBuffers"}

LEMMA KindsIn ==
  ASSUME NEW com \in {"CPU", "GPU"}
  PROVE  Kinds(com) \in KindSets
BY DEF Kinds, KindSets

-----------------------------------------------------------------------------
(* The clocks of the ranks, and that every step of a rank goes on to the    *)
(* next of its steps.                                                       *)

Clock(r) ==
    CASE phase[r] = "moved" -> -1
      [] phase[r] = "idle" -> 12
      [] OTHER -> Turn(Route[stage[r]], phase[r])

Ordered ==
    /\ communicator \in {"CPU", "GPU"}
    /\ phase \in [Ranks -> {"idle", "moved"} \cup Kinds(communicator)]
    /\ stage \in [Ranks -> 0 .. Len(Route)]
    /\ \A r \in Ranks : stage[r] = 0 <=> phase[r] \in {"idle", "moved"}
    /\ channel = [pair \in Ranks \X Ranks |-> channel[pair]]
    /\ \A from, to \in Ranks :
           InOrder(Kinds(communicator), channel[<<from, to>>], from, to, Clock(from), Clock(to))

LEMMA KindsAre ==
  ASSUME NEW com \in {"CPU", "GPU"}
  PROVE  /\ Kinds(com) \subseteq {"particles", "bonds", "ptlBuffers", "bondBuffers"}
         /\ com = "CPU" => "particles" \in Kinds(com) /\ ("bonds" \in Kinds(com) <=> BondTags # {})
                           /\ "ptlBuffers" \notin Kinds(com) /\ "bondBuffers" \notin Kinds(com)
         /\ com = "GPU" => "ptlBuffers" \in Kinds(com) /\ ("bondBuffers" \in Kinds(com) <=> BondTags # {})
                           /\ "particles" \notin Kinds(com) /\ "bonds" \notin Kinds(com)
BY DEF Kinds

LEMMA FirstStep ==
  ASSUME NEW com \in {"CPU", "GPU"}
  PROVE  Succeeds(Kinds(com), -1, Turn(Route[1], IF com = "CPU" THEN "particles" ELSE "ptlBuffers"))
<1>1. Route[1] \in 0 .. 5
  BY RouteNext DEF Sending, Directions
<1>2. ASSUME NEW dir \in Sending, NEW kind \in Kinds(com)
      PROVE  Turn(Route[1], IF com = "CPU" THEN "particles" ELSE "ptlBuffers") <= Turn(dir, kind)
  <2>1. Route[1] <= dir /\ dir \in 0 .. 5
    BY RouteNext DEF Sending, Directions
  <2> QED
    BY <1>1, <2>1, KindsAre DEF Turn
<1>3. -1 < Turn(Route[1], IF com = "CPU" THEN "particles" ELSE "ptlBuffers")
  BY <1>1 DEF Turn
<1> QED
  BY <1>2, <1>3 DEF Succeeds

LEMMA NextSteps ==
  ASSUME NEW com \in {"CPU", "GPU"}, NEW k \in DOMAIN Route
  PROVE  /\ com = "CPU" /\ BondTags # {} =>
              Succeeds(Kinds(com), Turn(Route[k], "particles"), Turn(Route[k], "bonds"))
         /\ com = "CPU" => \A kind \in Kinds(com) : (kind = "bonds" \/ BondTags = {}) =>
              IF k + 1 \in DOMAIN Route
              THEN Succeeds(Kinds(com), Turn(Route[k], kind), Turn(Route[k + 1], "particles"))
              ELSE Succeeds(Kinds(com), Turn(Route[k], kind), 12)
         /\ com = "GPU" => \A kind \in Kinds(com) : k + 1 \in DOMAIN Route =>
              Succeeds(Kinds(com), Turn(Route[k], kind), Turn(Route[k + 1], kind))
         /\ com = "GPU" /\ BondTags # {} /\ k = Len(Route) =>
              /\ Succeeds(Kinds(com), Turn(Route[k], "ptlBuffers"), Turn(Route[1], "bondBuffers"))
              /\ Succeeds(Kinds(com), Turn(Route[k], "bondBuffers"), 12)
         /\ com = "GPU" /\ BondTags = {} /\ k = Len(Route) =>
              Succeeds(Kinds(com), Turn(Route[k], "ptlBuffers"), 12)
<1>1. /\ \A dir \in Sending : dir \in 0 .. 5
      /\ Route[k] \in 0 .. 5 /\ (k + 1 \in DOMAIN Route => Route[k + 1] \in 0 .. 5)
      /\ Route[1] \in 0 .. 5
  BY RouteNext DEF Sending, Directions
<1>2. k + 1 \in DOMAIN Route => Route[k] < Route[k + 1]
  <2>1. k \in Nat
    BY RouteShape
  <2> QED
    BY <2>1, RouteShape
<1>3. \A dir \in Sending : Route[k] < dir => k + 1 \in DOMAIN Route /\ Route[k + 1] <= dir
  BY RouteNext
<1>4. \A dir \in Sending : Route[1] <= dir /\ (k = Len(Route) => dir <= Route[k])
  BY RouteNext
<1>5. CASE com = "CPU"
  <2>1. Kinds(com) \subseteq {"particles", "bonds"} /\ (BondTags = {} => Kinds(com) = {"particles"})
    BY <1>5 DEF Kinds
  <2>2. Succeeds(Kinds(com), Turn(Route[k], "particles"), Turn(Route[k], "bonds"))
    BY <1>1, <2>1 DEF Succeeds, Turn
  <2>3. ASSUME NEW kind \in Kinds(com), kind = "bonds" \/ BondTags = {}
        PROVE  IF k + 1 \in DOMAIN Route
               THEN Succeeds(Kinds(com), Turn(Route[k], kind), Turn(Route[k + 1], "particles"))
               ELSE Succeeds(Kinds(com), Turn(Route[k], kind), 12)
    <3>1. \A dir \in Sending, other \in Kinds(com) : Turn(Route[k], kind) < Turn(dir, other) =>
              Route[k] < dir
      BY <1>1, <2>1, <2>3 DEF Turn
    <3>2. CASE k + 1 \in DOMAIN Route
      BY <1>1, <1>2, <1>3, <2>1, <3>1, <3>2 DEF Succeeds, Turn
    <3>3. CASE k + 1 \notin DOMAIN Route
      <4>1. Turn(Route[k], kind) < 12
        BY <1>1, <2>1 DEF Turn
      <4> QED
        BY <1>3, <3>1, <3>3, <4>1 DEF Succeeds
    <3> QED
      BY <3>2, <3>3
  <2> QED
    BY <1>5, <2>2, <2>3
<1>6. CASE com = "GPU"
  <2>1. Kinds(com) \subseteq {"ptlBuffers", "bondBuffers"} /\ (BondTags = {} => Kinds(com) = {"ptlBuffers"})
    BY <1>6 DEF Kinds
  <2>2. ASSUME NEW kind \in Kinds(com), k + 1 \in DOMAIN Route
        PROVE  Succeeds(Kinds(com), Turn(Route[k], kind), Turn(Route[k + 1], kind))
    <3>1. Turn(Route[k], kind) < Turn(Route[k + 1], kind)
      BY <1>1, <1>2, <2>1, <2>2 DEF Turn
    <3>2. ASSUME NEW dir \in Sending, NEW other \in Kinds(com),
                 Turn(Route[k], kind) < Turn(dir, other)
          PROVE  Turn(Route[k + 1], kind) <= Turn(dir, other)
      <4>1. dir \in 0 .. 5 /\ (Route[k] < dir => Route[k + 1] <= dir)
        BY <1>1, <1>3
      <4> QED
        BY <1>1, <2>1, <2>2, <3>2, <4>1 DEF Turn
    <3> QED
      BY <3>1, <3>2 DEF Succeeds
  <2>3. ASSUME k = Len(Route)
        PROVE  /\ Succeeds(Kinds(com), Turn(Route[k], "ptlBuffers"), Turn(Route[1], "bondBuffers"))
               /\ Succeeds(Kinds(com), Turn(Route[k], "bondBuffers"), 12)
               /\ BondTags = {} => Succeeds(Kinds(com), Turn(Route[k], "ptlBuffers"), 12)
    <3>1. ASSUME NEW dir \in Sending, NEW other \in Kinds(com)
          PROVE  /\ Turn(Route[k], "ptlBuffers") < Turn(dir, other) =>
                        other = "bondBuffers" /\ Turn(Route[1], "bondBuffers") <= Turn(dir, other)
                 /\ ~ (Turn(Route[k], "bondBuffers") < Turn(dir, other))
      <4>1. /\ dir \in 0 .. 5 /\ Route[1] <= dir /\ dir <= Route[k]
            /\ Route[k] \in 0 .. 5 /\ Route[1] \in 0 .. 5
        BY <1>1, <1>4, <2>3
      <4>2. CASE other = "ptlBuffers"
        BY <4>1, <4>2 DEF Turn
      <4>3. CASE other = "bondBuffers"
        BY <4>1, <4>3 DEF Turn
      <4> QED
        BY <2>1, <4>2, <4>3
    <3>2. /\ Turn(Route[k], "ptlBuffers") < Turn(Route[1], "bondBuffers")
          /\ Turn(Route[k], "bondBuffers") < 12 /\ Turn(Route[k], "ptlBuffers") < 12
      BY <1>1 DEF Turn
    <3> QED
      BY <2>1, <3>1, <3>2 DEF Succeeds
  <2> QED
    BY <1>6, <2>2, <2>3
<1> QED
  BY <1>5, <1>6

\* What a step of a rank does to its place on the route and to the messages: it
\* takes the message it waits for, if any, and sends the next, if any.
Remaining(r) == IF phase[r] = "moved" THEN channel ELSE Taken(r)

SendsNext(r) ==
    \E k \in DOMAIN Route, kind \in Kinds(communicator) : \E data :
        LET message == [dir |-> Route[k], kind |-> kind, data |-> data] IN
        /\ phase' = [phase EXCEPT ![r] = kind]
        /\ stage' = [stage EXCEPT ![r] = k]
        /\ channel' = Put(Remaining(r), r, NeighborRank(r, Route[k]), message)
        /\ Succeeds(Kinds(communicator), Clock(r), Turn(Route[k], kind))

IsLast(r) ==
    /\ phase' = [phase EXCEPT ![r] = "idle"]
    /\ stage' = [stage EXCEPT ![r] = 0]
    /\ channel' = Remaining(r)
    /\ Succeeds(Kinds(communicator), Clock(r), 12)

LEMMA StartStageShape ==
  ASSUME Ordered, NEW r \in Ranks, NEW k \in Nat \ {0}, NEW list, NEW old, NEW bonds,
         StartStage(r, k, list, old, bonds, Remaining(r)), communicator = "CPU",
         IF k \in DOMAIN Route THEN Succeeds(Kinds(communicator), Clock(r), Turn(Route[k], "particles"))
         ELSE Succeeds(Kinds(communicator), Clock(r), 12)
  PROVE  SendsNext(r) \/ IsLast(r)
<1>1. CASE k > Len(Route)
  <2>1. k \notin DOMAIN Route
    BY <1>1, RouteShape
  <2> QED
    BY <1>1, <2>1 DEF StartStage, IsLast
<1>2. CASE ~ (k > Len(Route))
  <2>1. k \in DOMAIN Route
    BY <1>2, RouteShape
  <2>2. "particles" \in Kinds(communicator)
    BY KindsAre
  <2>3. \E data :
          /\ phase' = [phase EXCEPT ![r] = "particles"]
          /\ stage' = [stage EXCEPT ![r] = k]
          /\ channel' = Put(Remaining(r), r, NeighborRank(r, Route[k]),
                            [dir |-> Route[k], kind |-> "particles", data |-> data])
    BY <1>2 DEF StartStage
  <2> QED
    BY <2>1, <2>2, <2>3 DEF SendsNext
<1> QED
  BY <1>1, <1>2

LEMMA StepShape ==
  ASSUME Ordered, NEW r \in Ranks, RankStep(r)
  PROVE  /\ communicator' = communicator
         /\ phase[r] = "moved" \/ (phase[r] \in Kinds(communicator) /\ Arrived(r))
         /\ SendsNext(r) \/ IsLast(r)
<1>0. communicator' = communicator
  BY DEF RankStep
<1>1. communicator \in {"CPU", "GPU"} /\ "moved" \notin Kinds(communicator)
      /\ (BondTags # {} \/ BondTags = {}) /\ phase[r] \in {"idle", "moved"} \cup Kinds(communicator)
  BY KindsAre DEF Ordered
<1>2. phase[r] \in Kinds(communicator) =>
          /\ stage[r] \in DOMAIN Route /\ Clock(r) = Turn(Route[stage[r]], phase[r])
          /\ stage[r] \in Nat /\ stage[r] + 1 \in Nat \ {0} /\ Remaining(r) = Taken(r)
  <2>1. SUFFICES ASSUME phase[r] \in Kinds(communicator)
                 PROVE  /\ stage[r] \in DOMAIN Route /\ Clock(r) = Turn(Route[stage[r]], phase[r])
                        /\ stage[r] \in Nat /\ stage[r] + 1 \in Nat \ {0} /\ Remaining(r) = Taken(r)
    OBVIOUS
  <2>2. phase[r] # "idle" /\ phase[r] # "moved"
    BY <1>1, <2>1, KindsAre
  <2>3. stage[r] \in 0 .. Len(Route) /\ stage[r] # 0
    BY <2>2 DEF Ordered
  <2>4. stage[r] \in DOMAIN Route
    BY <2>3, RouteShape
  <2>5. stage[r] \in Nat /\ stage[r] + 1 \in Nat \ {0}
    BY <2>3, RouteShape
  <2> QED
    BY <2>2, <2>4, <2>5 DEF Clock, Remaining
<1>3. phase[r] = "moved" => Clock(r) = -1 /\ Remaining(r) = channel
  BY DEF Clock, Remaining
<1>4. CASE communicator = "CPU" /\ BeginMigration(r)
  <2>1. phase[r] = "moved" /\ Clock(r) = -1
    BY <1>3, <1>4 DEF BeginMigration
  <2>2. StartStage(r, 1, ptls[r], Forgotten(rtag[r], nghosts[r]), table[r].bonds, Remaining(r))
    BY <1>3, <1>4 DEF BeginMigration
  <2>3. IF 1 \in DOMAIN Route THEN Succeeds(Kinds(communicator), Clock(r), Turn(Route[1], "particles"))
        ELSE Succeeds(Kinds(communicator), Clock(r), 12)
    BY <1>4, <2>1, FirstStep, RouteNext
  <2>4. 1 \in Nat \ {0}
    OBVIOUS
  <2> QED
    BY <1>0, <1>4, <2>1, <2>2, <2>3, <2>4, StartStageShape
<1>5. CASE communicator = "CPU" /\ ReceiveParticles(r)
  <2>1. phase[r] = "particles" /\ Arrived(r) /\ "particles" \in Kinds(communicator)
    BY <1>5, KindsAre DEF ReceiveParticles
  <2>2. CASE BondTags = {}
    <3>1. PICK list, index : StartStage(r, stage[r] + 1, list, index, <<>>, Remaining(r))
      BY <1>2, <1>5, <2>1, <2>2 DEF ReceiveParticles
    <3>2. IF stage[r] + 1 \in DOMAIN Route
          THEN Succeeds(Kinds(communicator), Clock(r), Turn(Route[stage[r] + 1], "particles"))
          ELSE Succeeds(Kinds(communicator), Clock(r), 12)
      BY <1>1, <1>2, <1>5, <2>1, <2>2, NextSteps
    <3>3. stage[r] + 1 \in Nat \ {0}
      BY <1>2, <2>1
    <3>4. SendsNext(r) \/ IsLast(r)
      BY <1>5, <3>1, <3>2, <3>3, StartStageShape
    <3> QED
      BY <1>0, <2>1, <3>4
  <2>3. CASE BondTags # {}
    <3>1. /\ channel' = Put(Remaining(r), r, NeighborRank(r, Route[stage[r]]),
                        [dir |-> Route[stage[r]], kind |-> "bonds", data |-> sendBonds[r]])
          /\ phase' = [phase EXCEPT ![r] = "bonds"] /\ stage' = stage
      BY <1>2, <1>5, <2>1, <2>3 DEF ReceiveParticles
    <3>2. "bonds" \in Kinds(communicator) /\ stage[r] \in DOMAIN Route
      BY <1>2, <1>5, <2>1, <2>3, KindsAre
    <3>3. stage' = [stage EXCEPT ![r] = stage[r]]
      BY <3>1 DEF Ordered
    <3>4. Succeeds(Kinds(communicator), Clock(r), Turn(Route[stage[r]], "bonds"))
      BY <1>1, <1>2, <1>5, <2>1, <2>3, NextSteps
    <3>5. SendsNext(r)
      BY <3>1, <3>2, <3>3, <3>4 DEF SendsNext
    <3> QED
      BY <1>0, <2>1, <3>5
  <2> QED
    BY <2>2, <2>3
<1>6. CASE communicator = "CPU" /\ ReceiveBonds(r)
  <2>1. phase[r] = "bonds" /\ Arrived(r)
    BY <1>6 DEF ReceiveBonds
  <2>2. "bonds" \in Kinds(communicator)
    BY <1>1, <2>1, KindsAre
  <2>3. PICK bonds : StartStage(r, stage[r] + 1, ptls[r], rtag[r], bonds, Remaining(r))
    BY <1>2, <1>6, <2>1, <2>2 DEF ReceiveBonds
  <2>4. IF stage[r] + 1 \in DOMAIN Route
        THEN Succeeds(Kinds(communicator), Clock(r), Turn(Route[stage[r] + 1], "particles"))
        ELSE Succeeds(Kinds(communicator), Clock(r), 12)
    BY <1>1, <1>2, <1>6, <2>1, <2>2, NextSteps
  <2>5. stage[r] + 1 \in Nat \ {0}
    BY <1>2, <2>1, <2>2
  <2>6. SendsNext(r) \/ IsLast(r)
    BY <1>6, <2>3, <2>4, <2>5, StartStageShape
  <2> QED
    BY <1>0, <2>1, <2>2, <2>6
<1>7. ASSUME NEW k \in DOMAIN Route, NEW kind \in Kinds(communicator), NEW buf,
             SendBuffers(r, k, kind, buf, Remaining(r)),
             Succeeds(Kinds(communicator), Clock(r), Turn(Route[k], kind))
      PROVE  SendsNext(r)
  BY <1>7 DEF SendBuffers, SendsNext
<1>8. ASSUME Done(r), phase[r] \in Kinds(communicator), Succeeds(Kinds(communicator), Clock(r), 12)
      PROVE  IsLast(r)
  BY <1>2, <1>8 DEF Done, IsLast
<1>9. CASE communicator = "GPU" /\ BeginMigrationGPU(r)
  <2>1. phase[r] = "moved" /\ Clock(r) = -1
    BY <1>3, <1>9 DEF BeginMigrationGPU
  <2>2. \E buf : SendBuffers(r, 1, "ptlBuffers", buf, Remaining(r))
    BY <1>3, <1>9 DEF BeginMigrationGPU
  <2>3. Succeeds(Kinds(communicator), Clock(r), Turn(Route[1], "ptlBuffers"))
    BY <1>9, <2>1, FirstStep
  <2>4. 1 \in DOMAIN Route /\ "ptlBuffers" \in Kinds(communicator)
    BY <1>9, RouteNext, KindsAre
  <2> QED
    BY <1>0, <1>7, <2>1, <2>2, <2>3, <2>4
<1>10. CASE communicator = "GPU" /\ (ReceiveParticlesGPU(r) \/ ReceiveBondsGPU(r))
  <2>1. PICK kind \in {"ptlBuffers", "bondBuffers"} :
          /\ phase[r] = kind /\ Arrived(r) /\ stage[r] < Len(Route)
          /\ \E buf : SendBuffers(r, stage[r] + 1, kind, buf, Taken(r))
    BY <1>10 DEF ReceiveParticlesGPU, ReceiveBondsGPU
  <2>2. kind \in Kinds(communicator)
    BY <1>1, <2>1, KindsAre
  <2>3. stage[r] + 1 \in DOMAIN Route /\ stage[r] \in DOMAIN Route
    BY <1>2, <2>1, <2>2, RouteShape
  <2>4. Succeeds(Kinds(communicator), Clock(r), Turn(Route[stage[r] + 1], kind))
    BY <1>1, <1>2, <1>10, <2>1, <2>2, <2>3, NextSteps
  <2> QED
    BY <1>0, <1>2, <1>7, <2>1, <2>2, <2>3, <2>4
<1>11. CASE communicator = "GPU" /\ CompleteParticlesGPU(r)
  <2>1. phase[r] = "ptlBuffers" /\ Arrived(r) /\ stage[r] = Len(Route)
    BY <1>11 DEF CompleteParticlesGPU
  <2>2. "ptlBuffers" \in Kinds(communicator) /\ Remaining(r) = Taken(r)
    BY <1>2, <1>11, <2>1, KindsAre
  <2>3. CASE BondTags = {}
    <3>1. Done(r)
      BY <1>11, <2>3 DEF CompleteParticlesGPU
    <3>2. Succeeds(Kinds(communicator), Clock(r), 12)
      BY <1>1, <1>2, <1>11, <2>1, <2>2, <2>3, NextSteps
    <3> QED
      BY <1>0, <1>8, <2>1, <2>2, <3>1, <3>2
  <2>4. CASE BondTags # {}
    <3>1. \E buf : SendBuffers(r, 1, "bondBuffers", buf, Taken(r))
      BY <1>11, <2>4 DEF CompleteParticlesGPU
    <3>2. Succeeds(Kinds(communicator), Clock(r), Turn(Route[1], "bondBuffers"))
      BY <1>1, <1>2, <1>11, <2>1, <2>2, <2>4, NextSteps
    <3>3. 1 \in DOMAIN Route /\ "bondBuffers" \in Kinds(communicator)
      BY <1>11, <2>4, RouteNext, KindsAre
    <3> QED
      BY <1>0, <1>7, <2>1, <2>2, <3>1, <3>2, <3>3
  <2> QED
    BY <2>3, <2>4
<1>12. CASE communicator = "GPU" /\ CompleteBondsGPU(r)
  <2>1. phase[r] = "bondBuffers" /\ Arrived(r) /\ stage[r] = Len(Route) /\ Done(r)
    BY <1>12 DEF CompleteBondsGPU
  <2>2. "bondBuffers" \in Kinds(communicator)
    BY <1>1, <2>1, KindsAre
  <2>3. BondTags # {}
    BY <1>12, <2>2, KindsAre
  <2>4. Succeeds(Kinds(communicator), Clock(r), 12)
    BY <1>1, <1>2, <1>12, <2>1, <2>2, <2>3, NextSteps
  <2> QED
    BY <1>0, <1>8, <2>1, <2>2, <2>4
<1>13. \/ communicator = "CPU" /\ (BeginMigration(r) \/ ReceiveParticles(r) \/ ReceiveBonds(r))
       \/ communicator = "GPU" /\ \/ BeginMigrationGPU(r) \/ ReceiveParticlesGPU(r)
                                  \/ CompleteParticlesGPU(r) \/ ReceiveBondsGPU(r) \/ CompleteBondsGPU(r)
  BY DEF RankStep, CPUStep, GPUStep
<1> QED
  BY <1>4, <1>5, <1>6, <1>9, <1>10, <1>11, <1>12, <1>13

LEMMA ClockIs ==
  ASSUME Ordered, NEW r \in Ranks
  PROVE  Clock(r) \in Clocks
<1>1. phase[r] \in {"idle", "moved"} \cup Kinds(communicator) /\ communicator \in {"CPU", "GPU"}
  BY DEF Ordered
<1>2. CASE phase[r] \in {"idle", "moved"}
  BY <1>2 DEF Clock, Clocks
<1>3. CASE phase[r] \notin {"idle", "moved"}
  <2>1. stage[r] \in DOMAIN Route /\ Clock(r) = Turn(Route[stage[r]], phase[r])
    BY <1>3, RouteShape DEF Ordered, Clock
  <2>2. Route[stage[r]] \in Sending /\ phase[r] \in Kinds(communicator)
    BY <1>1, <1>3, <2>1, RouteNext
  <2> QED
    BY <1>1, <2>1, <2>2, StepIs, KindsIn DEF Clocks
<1> QED
  BY <1>2, <1>3

\* What a rank waits for, and that it waits for it from one rank.
LEMMA Waiting ==
  ASSUME Ordered, NEW r \in Ranks, phase[r] \in Kinds(communicator)
  PROVE  /\ stage[r] \in DOMAIN Route /\ Route[stage[r]] \in Sending
         /\ Clock(r) = Turn(Route[stage[r]], phase[r])
         /\ Source(r) \in Ranks /\ NeighborRank(Source(r), Route[stage[r]]) = r
         /\ Arrived(r) => Message(r).dir = Route[stage[r]] /\ Message(r).kind = phase[r]
<1>1. communicator \in {"CPU", "GPU"}
  BY DEF Ordered
<1>2. phase[r] # "idle" /\ phase[r] # "moved"
  BY <1>1, KindsAre
<1>3. stage[r] \in DOMAIN Route
  BY <1>2, RouteShape DEF Ordered
<1>4. Route[stage[r]] \in Sending /\ Route[stage[r]] \in Directions
  BY <1>3, RouteNext DEF Sending
<1>5. Clock(r) = Turn(Route[stage[r]], phase[r])
  BY <1>2 DEF Clock
<1>6. Source(r) \in Ranks /\ NeighborRank(Source(r), Route[stage[r]]) = r
  BY <1>4, Directory, NeighborIs, NeighborBack DEF Source
<1>7. ASSUME Arrived(r) PROVE Message(r).dir = Route[stage[r]] /\ Message(r).kind = phase[r]
  <2>1. channel[<<Source(r), r>>] # <<>> /\ Message(r) = Head(channel[<<Source(r), r>>])
    BY <1>7 DEF Arrived, Message
  <2>2. InOrder(Kinds(communicator), channel[<<Source(r), r>>], Source(r), r, Clock(Source(r)),
                Turn(Route[stage[r]], phase[r]))
    BY <1>5, <1>6 DEF Ordered
  <2>3. Clock(Source(r)) \in Clocks /\ 12 \in Clocks
    BY <1>6, ClockIs DEF Clocks
  <2> DEFINE list == channel[<<Source(r), r>>]
             from == Source(r)
             dir == Route[stage[r]]
             kind == phase[r]
             sent == Clock(Source(r))
  <2>4. /\ from \in Ranks /\ sent \in Clocks /\ dir \in Sending /\ kind \in Kinds(communicator)
        /\ NeighborRank(from, dir) = r /\ list # <<>>
        /\ InOrder(Kinds(communicator), list, from, r, sent, Turn(dir, kind))
        /\ Kinds(communicator) \in KindSets
    BY <1>1, <1>4, <1>6, <2>1, <2>2, <2>3, KindsIn
  <2> HIDE DEF list, from, dir, kind, sent
  <2>5. Head(list).dir = dir /\ Head(list).kind = kind
    BY <2>4, ReceiverGets
  <2> QED
    BY <2>1, <2>5 DEF list, dir, kind
<1> QED
  BY <1>3, <1>4, <1>5, <1>6, <1>7

LEMMA OrderReceived ==
  ASSUME Ordered, NEW r \in Ranks, NEW next \in Clocks, Succeeds(Kinds(communicator), Clock(r), next),
         phase[r] = "moved" \/ (phase[r] \in Kinds(communicator) /\ Arrived(r))
  PROVE  /\ Remaining(r) = [pair \in Ranks \X Ranks |-> Remaining(r)[pair]]
         /\ \A from, to \in Ranks :
               InOrder(Kinds(communicator), Remaining(r)[<<from, to>>], from, to, Clock(from),
                       IF to = r THEN next ELSE Clock(to))
<1>1. communicator \in {"CPU", "GPU"} /\ channel = [pair \in Ranks \X Ranks |-> channel[pair]]
  BY DEF Ordered
<1>2. ASSUME NEW from \in Ranks, NEW to \in Ranks
      PROVE  /\ InOrder(Kinds(communicator), channel[<<from, to>>], from, to, Clock(from), Clock(to))
             /\ Clock(from) \in Clocks /\ Clock(to) \in Clocks
  BY ClockIs DEF Ordered
<1>3. CASE phase[r] = "moved"
  <2>1. Remaining(r) = channel /\ Clock(r) = -1
    BY <1>3 DEF Remaining, Clock
  <2>2. ASSUME NEW from \in Ranks
        PROVE  InOrder(Kinds(communicator), channel[<<from, r>>], from, r, Clock(from), next)
    <3>1. \A dir \in Sending, kind \in Kinds(communicator) : Turn(dir, kind) # Clock(r)
      BY <1>1, <2>1, StepIs, KindsIn
    <3> QED
      BY <1>1, <1>2, <3>1, ReceiverGoesOn, KindsIn
  <2> QED
    BY <1>1, <1>2, <2>1, <2>2
<1>4. CASE phase[r] # "moved"
  <2>1. phase[r] \in Kinds(communicator) /\ Arrived(r)
    BY <1>4
  <2> DEFINE dir == Route[stage[r]]
             from == Source(r)
             kind == phase[r]
  <2>2. /\ dir \in Sending /\ Clock(r) = Turn(dir, kind)
        /\ from \in Ranks /\ NeighborRank(from, dir) = r
    BY <2>1, Waiting
  <2>3. Remaining(r) = [channel EXCEPT ![<<from, r>>] = Tail(channel[<<from, r>>])]
    BY <1>4 DEF Remaining, Taken
  <2>4. channel[<<from, r>>] # <<>>
    BY <2>1 DEF Arrived
  <2> HIDE DEF dir, from, kind
  <2>5. InOrder(Kinds(communicator), Tail(channel[<<from, r>>]), from, r, Clock(from), next)
    <3>1. InOrder(Kinds(communicator), channel[<<from, r>>], from, r, Clock(from), Turn(dir, kind))
      BY <1>2, <2>2
    <3>2. kind \in Kinds(communicator) /\ Clock(from) \in Clocks
      BY <1>2, <2>1, <2>2 DEF kind
    <3> QED
      BY <1>1, <2>2, <2>4, <3>1, <3>2, ReceiverTakes, KindsIn
  <2>6. ASSUME NEW other \in Ranks, other # from
        PROVE  InOrder(Kinds(communicator), channel[<<other, r>>], other, r, Clock(other), next)
    <3>1. ASSUME NEW d \in Sending, NEW k \in Kinds(communicator), Turn(d, k) = Clock(r)
          PROVE  NeighborRank(other, d) # r
      <4>1. d = dir
        BY <1>1, <2>1, <2>2, <3>1, StepsDiffer, KindsIn DEF kind
      <4>2. NeighborRank(other, dir) = r => other = from
        BY <2>2, OneSource DEF Sending
      <4> QED
        BY <2>6, <4>1, <4>2
    <3> QED
      BY <1>1, <1>2, <3>1, ReceiverGoesOn, KindsIn
  <2>7. Remaining(r) = [pair \in Ranks \X Ranks |-> Remaining(r)[pair]]
    BY <1>1, <2>3
  <2>8. ASSUME NEW s \in Ranks, NEW q \in Ranks
        PROVE  InOrder(Kinds(communicator), Remaining(r)[<<s, q>>], s, q, Clock(s),
                       IF q = r THEN next ELSE Clock(q))
    <3>1. CASE s = from /\ q = r
      <4>1. Remaining(r)[<<s, q>>] = Tail(channel[<<from, r>>])
        BY <1>1, <2>3, <3>1
      <4> QED
        BY <2>5, <3>1, <4>1
    <3>2. CASE ~ (s = from /\ q = r)
      <4>1. Remaining(r)[<<s, q>>] = channel[<<s, q>>]
        BY <1>1, <2>2, <2>3, <3>2
      <4> QED
        BY <1>2, <2>6, <3>2, <4>1
    <3> QED
      BY <3>1, <3>2
  <2> QED
    BY <2>7, <2>8
<1> QED
  BY <1>3, <1>4

LEMMA OrderSent ==
  ASSUME Ordered, NEW r \in Ranks,
         NEW k \in DOMAIN Route, NEW kind \in Kinds(communicator), NEW message,
         message.dir = Route[k], message.kind = kind,
         phase' = [phase EXCEPT ![r] = kind], stage' = [stage EXCEPT ![r] = k],
         channel' = Put(Remaining(r), r, NeighborRank(r, Route[k]), message),
         Succeeds(Kinds(communicator), Clock(r), Turn(Route[k], kind)),
         phase[r] = "moved" \/ (phase[r] \in Kinds(communicator) /\ Arrived(r)),
         communicator' = communicator
  PROVE  Ordered'
<1> DEFINE dir == Route[k]
           next == Turn(dir, kind)
           to == NeighborRank(r, dir)
           now(q) == IF q = r THEN next ELSE Clock(q)
<1>1. communicator \in {"CPU", "GPU"} /\ dir \in Sending /\ dir \in Directions /\ to \in Ranks
  BY RouteNext, NeighborIs DEF Ordered, Sending
<1>2. next \in Clocks
  BY <1>1, StepIs, KindsIn DEF Clocks
<1>3. kind # "moved" /\ kind # "idle" /\ k # 0 /\ k \in 0 .. Len(Route)
  BY <1>1, KindsAre, RouteShape
<1>4. phase' \in [Ranks -> {"idle", "moved"} \cup Kinds(communicator)]
      /\ stage' \in [Ranks -> 0 .. Len(Route)]
      /\ \A q \in Ranks : stage'[q] = 0 <=> phase'[q] \in {"idle", "moved"}
  BY <1>3 DEF Ordered
<1>5. ASSUME NEW q \in Ranks
      PROVE  Clock(q)' = now(q)
  <2>1. CASE q = r
    <3>1. phase'[r] = kind /\ stage'[r] = k
      BY DEF Ordered
    <3> QED
      BY <1>3, <2>1, <3>1 DEF Clock
  <2>2. CASE q # r
    BY <2>2 DEF Clock, Ordered
  <2> QED
    BY <2>1, <2>2
<1>6. /\ Remaining(r) = [pair \in Ranks \X Ranks |-> Remaining(r)[pair]]
      /\ \A s, q \in Ranks : InOrder(Kinds(communicator), Remaining(r)[<<s, q>>], s, q, Clock(s), now(q))
  BY <1>2, OrderReceived
<1>7. channel' = [Remaining(r) EXCEPT ![<<r, to>>] = Append(Remaining(r)[<<r, to>>], message)]
  BY DEF Put
<1>8. ASSUME NEW q \in Ranks
      PROVE  now(q) \in Clocks /\ Clock(q) \in Clocks
  BY <1>2, ClockIs
<1> HIDE DEF now
<1>9. ASSUME NEW s \in Ranks, NEW q \in Ranks
      PROVE  InOrder(Kinds(communicator), channel'[<<s, q>>], s, q, now(s), now(q))
  <2>1. CASE s = r
    <3>1. channel'[<<r, q>>] = IF NeighborRank(r, message.dir) = q
                               THEN Append(Remaining(r)[<<r, q>>], message) ELSE Remaining(r)[<<r, q>>]
      BY <1>1, <1>6, <1>7
    <3>2. Number(message) = next /\ now(r) = next
      BY DEF Number, now
    <3>3. InOrder(Kinds(communicator), Remaining(r)[<<r, q>>], r, q, Clock(r), now(q))
      BY <1>6
    <3>4. message.dir \in Sending /\ message.kind \in Kinds(communicator)
          /\ Succeeds(Kinds(communicator), Clock(r), Number(message))
      BY <1>1, <3>2
    <3> HIDE DEF next
    <3>5. InOrder(Kinds(communicator), IF NeighborRank(r, message.dir) = q
                  THEN Append(Remaining(r)[<<r, q>>], message) ELSE Remaining(r)[<<r, q>>],
                  r, q, Number(message), now(q))
      BY <1>1, <1>8, <3>3, <3>4, SenderGoesOn, KindsIn
    <3> QED
      BY <2>1, <3>1, <3>2, <3>5
  <2>2. CASE s # r
    <3>1. channel'[<<s, q>>] = Remaining(r)[<<s, q>>] /\ now(s) = Clock(s)
      BY <1>6, <1>7, <2>2 DEF now
    <3> QED
      BY <1>6, <3>1
  <2> QED
    BY <2>1, <2>2
<1>10. channel' = [pair \in Ranks \X Ranks |-> channel'[pair]]
  BY <1>6, <1>7
<1>11. ASSUME NEW s \in Ranks, NEW q \in Ranks
       PROVE  InOrder(Kinds(communicator), channel'[<<s, q>>], s, q, Clock(s)', Clock(q)')
  <2>1. Clock(s)' = now(s) /\ Clock(q)' = now(q)
    BY <1>5
  <2> QED
    BY <1>9, <2>1
<1> QED
  BY <1>1, <1>4, <1>10, <1>11 DEF Ordered

LEMMA OrderEnded ==
  ASSUME Ordered, NEW r \in Ranks, IsLast(r), communicator' = communicator,
         phase[r] = "moved" \/ (phase[r] \in Kinds(communicator) /\ Arrived(r))
  PROVE  Ordered'
<1> DEFINE now(q) == IF q = r THEN 12 ELSE Clock(q)
<1>1. /\ phase' = [phase EXCEPT ![r] = "idle"] /\ stage' = [stage EXCEPT ![r] = 0]
      /\ channel' = Remaining(r) /\ Succeeds(Kinds(communicator), Clock(r), 12)
      /\ communicator \in {"CPU", "GPU"} /\ 12 \in Clocks
  BY DEF IsLast, Ordered, Clocks
<1>2. phase' \in [Ranks -> {"idle", "moved"} \cup Kinds(communicator)]
      /\ stage' \in [Ranks -> 0 .. Len(Route)]
      /\ \A q \in Ranks : stage'[q] = 0 <=> phase'[q] \in {"idle", "moved"}
  BY <1>1, RouteShape DEF Ordered
<1>3. ASSUME NEW q \in Ranks
      PROVE  Clock(q)' = now(q)
  <2>1. CASE q = r
    <3>1. phase'[r] = "idle"
      BY <1>1 DEF Ordered
    <3> QED
      BY <2>1, <3>1 DEF Clock
  <2>2. CASE q # r
    BY <1>1, <2>2 DEF Clock, Ordered
  <2> QED
    BY <2>1, <2>2
<1>4. /\ Remaining(r) = [pair \in Ranks \X Ranks |-> Remaining(r)[pair]]
      /\ \A s, q \in Ranks : InOrder(Kinds(communicator), Remaining(r)[<<s, q>>], s, q, Clock(s), now(q))
  BY <1>1, OrderReceived
<1>5. ASSUME NEW q \in Ranks
      PROVE  now(q) \in Clocks /\ Clock(q) \in Clocks
  BY <1>1, ClockIs
<1> HIDE DEF now
<1>6. ASSUME NEW s \in Ranks, NEW q \in Ranks
      PROVE  InOrder(Kinds(communicator), channel'[<<s, q>>], s, q, now(s), now(q))
  <2>1. CASE s = r
    <3>1. InOrder(Kinds(communicator), Remaining(r)[<<s, q>>], s, q, 12, now(q))
      BY <1>1, <1>4, <1>5, <2>1, SenderEnds, KindsIn
    <3> QED
      BY <1>1, <2>1, <3>1 DEF now
  <2>2. CASE s # r
    BY <1>1, <1>4, <2>2 DEF now
  <2> QED
    BY <2>1, <2>2
<1>7. ASSUME NEW s \in Ranks, NEW q \in Ranks
      PROVE  InOrder(Kinds(communicator), channel'[<<s, q>>], s, q, Clock(s)', Clock(q)')
  <2>1. Clock(s)' = now(s) /\ Clock(q)' = now(q)
    BY <1>3
  <2> QED
    BY <1>6, <2>1
<1> QED
  BY <1>1, <1>2, <1>4, <1>7 DEF Ordered

\* When all ranks are done, or none has begun, nothing is on its way.
LEMMA Quiet ==
  ASSUME Ordered, NEW from \in Ranks, NEW to \in Ranks, Clock(to) = 12 \/ Clock(from) = -1
  PROVE  channel[<<from, to>>] = <<>>
<1> DEFINE list == channel[<<from, to>>]
<1>1. communicator \in {"CPU", "GPU"} /\ InOrder(Kinds(communicator), list, from, to, Clock(from), Clock(to))
  BY DEF Ordered
<1> HIDE DEF list
<1>2. ASSUME NEW j \in DOMAIN list PROVE FALSE
  <2>1. Number(list[j]) \in 0 .. 11 /\ Clock(to) <= Number(list[j]) /\ Number(list[j]) <= Clock(from)
    BY <1>1, StepIs, KindsIn DEF InOrder, Number
  <2> QED
    BY <2>1
<1>3. list = <<>>
  <2>1. IsSomeList(list)
    BY <1>1 DEF InOrder
  <2>2. Len(list) \in Nat /\ DOMAIN list = 1 .. Len(list)
    BY <2>1, ListFacts
  <2>3. 1 \notin DOMAIN list
    BY <1>2
  <2>4. Len(list) = 0
    BY <2>2, <2>3
  <2>5. PICK S : list \in Seq(S)
    BY <2>1 DEF IsSomeList
  <2> QED
    BY <2>4, <2>5, EmptySeq
<1> QED
  BY <1>3 DEF list

LEMMA OrderedInit ==
  ASSUME Init
  PROVE  Ordered
<1>1. /\ communicator \in {"CPU", "GPU"} /\ phase = [r \in Ranks |-> "idle"]
      /\ stage = [r \in Ranks |-> 0] /\ channel = [pair \in Ranks \X Ranks |-> <<>>]
  BY DEF Init
<1>2. \A r \in Ranks : Clock(r) = 12
  BY <1>1 DEF Clock
<1>3. ASSUME NEW from \in Ranks, NEW to \in Ranks
      PROVE  InOrder(Kinds(communicator), channel[<<from, to>>], from, to, Clock(from), Clock(to))
  <2>1. channel[<<from, to>>] = <<>> /\ IsSomeList(<<>>) /\ DOMAIN <<>> = {}
    BY <1>1 DEF IsSomeList
  <2>2. \A dir \in Sending, kind \in Kinds(communicator) : Turn(dir, kind) \in 0 .. 11
    BY <1>1, StepIs, KindsIn
  <2> QED
    BY <1>2, <2>1, <2>2 DEF InOrder
<1> QED
  BY <1>1, <1>3, RouteShape DEF Ordered

LEMMA OrderedIntegrate ==
  ASSUME Ordered, Integrate
  PROVE  Ordered'
<1>1. /\ \A r \in Ranks : phase[r] = "idle" /\ phase'[r] = "moved"
      /\ phase' = [r \in Ranks |-> "moved"] /\ stage' = stage /\ channel' = channel
      /\ communicator' = communicator
  BY DEF Integrate
<1>2. \A r \in Ranks : Clock(r) = 12 /\ Clock(r)' = -1
  BY <1>1 DEF Clock
<1>3. ASSUME NEW from \in Ranks, NEW to \in Ranks
      PROVE  InOrder(Kinds(communicator), channel'[<<from, to>>], from, to, Clock(from)', Clock(to)')
  <2>1. channel'[<<from, to>>] = <<>> /\ IsSomeList(<<>>) /\ DOMAIN <<>> = {}
    BY <1>1, <1>2, Quiet DEF IsSomeList
  <2>2. \A dir \in Sending, kind \in Kinds(communicator) : Turn(dir, kind) \in 0 .. 11
    BY StepIs, KindsIn DEF Ordered
  <2> QED
    BY <1>2, <2>1, <2>2 DEF InOrder
<1> QED
  BY <1>1, <1>3 DEF Ordered

LEMMA OrderedNext ==
  ASSUME Ordered, [Next]_vars
  PROVE  Ordered'
<1>1. CASE Integrate
  BY <1>1, OrderedIntegrate
<1>2. ASSUME NEW r \in Ranks, RankStep(r) PROVE Ordered'
  <2>1. communicator' = communicator
        /\ (phase[r] = "moved" \/ (phase[r] \in Kinds(communicator) /\ Arrived(r)))
        /\ (SendsNext(r) \/ IsLast(r))
    BY <1>2, StepShape
  <2>2. CASE SendsNext(r)
    <3>0. PICK k \in DOMAIN Route, kind \in Kinds(communicator) : \E data :
            /\ phase' = [phase EXCEPT ![r] = kind]
            /\ stage' = [stage EXCEPT ![r] = k]
            /\ channel' = Put(Remaining(r), r, NeighborRank(r, Route[k]),
                              [dir |-> Route[k], kind |-> kind, data |-> data])
            /\ Succeeds(Kinds(communicator), Clock(r), Turn(Route[k], kind))
      BY <2>2 DEF SendsNext
    <3>1. PICK data :
            /\ phase' = [phase EXCEPT ![r] = kind]
            /\ stage' = [stage EXCEPT ![r] = k]
            /\ channel' = Put(Remaining(r), r, NeighborRank(r, Route[k]),
                              [dir |-> Route[k], kind |-> kind, data |-> data])
            /\ Succeeds(Kinds(communicator), Clock(r), Turn(Route[k], kind))
      BY <3>0
    <3> DEFINE message == [dir |-> Route[k], kind |-> kind, data |-> data]
    <3>2. message.dir = Route[k] /\ message.kind = kind
      OBVIOUS
    <3>3. channel' = Put(Remaining(r), r, NeighborRank(r, Route[k]), message)
      BY <3>1
    <3> HIDE DEF message
    <3> QED
      BY <2>1, <3>1, <3>2, <3>3, OrderSent
  <2>3. CASE IsLast(r)
    BY <2>1, <2>3, OrderEnded
  <2> QED
    BY <2>1, <2>2, <2>3
<1>3. CASE UNCHANGED vars
  BY <1>3 DEF vars, migrationVars, Ordered, Clock
<1> QED
  BY <1>1, <1>2, <1>3 DEF Next

\* Communicator.cc, the MPI_Isend and MPI_Irecv of migrateParticles(): the
\* messages of each pair of ranks follow the route, so that between two ranks
\* are just those that the one has sent and the other has not come to.
THEOREM AlwaysOrdered == Spec => []Ordered
<1>1. Init => Ordered
  BY OrderedInit
<1>2. Ordered /\ [Next]_vars => Ordered'
  BY OrderedNext
<1> QED
  BY <1>1, <1>2, PTL DEF Spec

\* The first message from the neighbour is of the direction and the kind that
\* the rank waits for: the receives of migrateParticles(), which name neither,
\* get what they are meant to get, also if both neighbours are the same rank.
THEOREM OnlyAwaited == Spec => []MessagesMatch
<1>1. Ordered => MessagesMatch
  <2>1. SUFFICES ASSUME Ordered, NEW r \in Ranks, phase[r] \notin {"idle", "moved"}, Arrived(r)
                 PROVE  Message(r).dir = Route[stage[r]] /\ Message(r).kind = phase[r]
    BY DEF MessagesMatch
  <2>2. phase[r] \in Kinds(communicator)
    BY <2>1 DEF Ordered
  <2> QED
    BY <2>1, <2>2, Waiting
<1> QED
  BY <1>1, AlwaysOrdered, PTL

-----------------------------------------------------------------------------
(* Where the particles are.  A position is near a rank that has sent what   *)
(* is beyond its faces in the directions up to dir: along the axes that are *)
(* done it is in the domain, along the others at most next to it.           *)

Offsets(axis, dir) ==
    IF Size[axis] = 1 \/ dir >= 2 * axis - 1 THEN {0}
    ELSE IF dir = 2 * axis - 2 THEN {-1, 0} ELSE {-1, 0, 1}

Near(rank, dir) ==
    { pos \in [Axes -> Int] : \A axis \in Axes :
        pos[axis] - GridPos(rank)[axis] \in Offsets(axis, dir) }

\* What a rank sends in a direction is beyond that face.
Crossing(rank, dir) ==
    { pos \in [Axes -> Int] : \A axis \in Axes :
        pos[axis] - GridPos(rank)[axis]
            \in IF axis = Axis(dir) THEN {Forward(dir)} ELSE Offsets(axis, dir) }

\* What the plan says of an axis, and the positions from which a plan leads.
Towards(axis, plan) ==
    IF 2 * axis - 2 \in plan THEN 1 ELSE IF 2 * axis - 1 \in plan THEN -1 ELSE 0

Heading(rank, plan) ==
    { pos \in [Axes -> Int] : \A axis \in Axes :
        /\ pos[axis] \in -1 .. Size[axis] /\ (Size[axis] = 1 => pos[axis] = 0)
        /\ Around(pos[axis], Size[axis])
              = Around(GridPos(rank)[axis] + Towards(axis, plan), Size[axis]) }

Particles(S) == [tag : Tags, pos : S]
Some(S) == { T \in SUBSET S : IsFiniteSet(T) }

\* The direction up to which the local particles of a rank have been sent.
SentUpTo(r) ==
    CASE phase[r] \in {"idle", "bondBuffers"} -> 6
      [] phase[r] \in {"particles", "bonds"} -> Route[stage[r]]
      [] OTHER -> -1

\* What holds of the arrays and buffers of a rank.
LocatedAt(r) ==
    /\ ptls[r] \in Seq(Particles(Near(r, SentUpTo(r))))
    /\ mask[r] = IF phase[r] = "ptlBuffers" THEN Leaving(r) ELSE {}
    /\ ptlBuf[r] = [plan \in Plans |-> ptlBuf[r][plan]]
    /\ \A plan \in Plans : ptlBuf[r][plan] \in Some(Particles(Heading(r, plan)))
    /\ phase[r] = "ptlBuffers" => recvBuf[r] \in Some(Particles(Heading(r, Local)))
    /\ phase[r] \notin {"ptlBuffers", "bondBuffers"} => recvBuf[r] = {}

\* What holds of a message from one rank to another.
Fits(from, to, message) ==
    /\ message.kind = "particles" =>
           message.data \in Seq(Particles(Crossing(from, message.dir)))
    /\ message.kind = "ptlBuffers" => \A plan \in Plans \cup {Local} :
           message.data[plan] \in Some(Particles(Heading(to, plan)))

Located ==
    /\ ptls = [r \in Ranks |-> ptls[r]] /\ mask = [r \in Ranks |-> mask[r]]
    /\ ptlBuf = [r \in Ranks |-> ptlBuf[r]] /\ recvBuf = [r \in Ranks |-> recvBuf[r]]
    /\ \A r \in Ranks : LocatedAt(r)
    /\ \A from, to \in Ranks : \A i \in DOMAIN channel[<<from, to>>] :
           Fits(from, to, channel[<<from, to>>][i])

LEMMA CellIs ==
  ASSUME NEW rank \in Ranks, NEW axis \in Axes
  PROVE  /\ Size[axis] \in Nat \ {0} /\ GridPos(rank)[axis] \in 0 .. Size[axis] - 1
         /\ GridPos(rank) \in [Axes -> Int]
BY SizesPositive, GridPosIsCell DEF GridCells

\* The partition for the next direction of the route.
LEMMA StaysNear ==
  ASSUME NEW rank \in Ranks, NEW dir \in Sending, NEW before \in -1 .. 5, before < dir,
         \A other \in Sending : before < other => dir <= other,
         NEW pos \in Near(rank, before)
  PROVE  IF BeyondFace(rank, pos, dir) THEN pos \in Crossing(rank, dir) ELSE pos \in Near(rank, dir)
<1>1. dir \in Directions /\ dir \in 0 .. 5 /\ Axis(dir) \in Axes /\ Size[Axis(dir)] # 1
  BY Directory DEF Sending, Directions, IsCommunicating
<1>2. pos \in [Axes -> Int]
  BY DEF Near
<1>3. ASSUME NEW axis \in Axes
      PROVE  /\ axis # Axis(dir) => pos[axis] - GridPos(rank)[axis] \in Offsets(axis, dir)
             /\ axis = Axis(dir) /\ ~ BeyondFace(rank, pos, dir) =>
                    pos[axis] - GridPos(rank)[axis] \in Offsets(axis, dir)
             /\ axis = Axis(dir) /\ BeyondFace(rank, pos, dir) =>
                    pos[axis] - GridPos(rank)[axis] = Forward(dir)
  <2>1. /\ pos[axis] - GridPos(rank)[axis] \in Offsets(axis, before)
        /\ pos[axis] \in Int /\ GridPos(rank)[axis] \in Int /\ axis \in 1 .. 3
    BY <1>2, CellIs DEF Near, Axes
  <2>2. Size[axis] # 1 => /\ before < 2 * axis - 2 => dir <= 2 * axis - 2
                          /\ before < 2 * axis - 1 => dir <= 2 * axis - 1
    <3>1. SUFFICES ASSUME Size[axis] # 1
                   PROVE  /\ before < 2 * axis - 2 => dir <= 2 * axis - 2
                          /\ before < 2 * axis - 1 => dir <= 2 * axis - 1
      OBVIOUS
    <3>2. 2 * axis - 2 \in Directions /\ 2 * axis - 1 \in Directions
          /\ Axis(2 * axis - 2) = axis /\ Axis(2 * axis - 1) = axis
      BY <2>1 DEF Directions, Axis
    <3>3. 2 * axis - 2 \in Sending /\ 2 * axis - 1 \in Sending
      BY <3>1, <3>2 DEF Sending, IsCommunicating
    <3> QED
      BY <3>3
  <2>3. /\ dir = 2 * Axis(dir) - (IF Forward(dir) = 1 THEN 2 ELSE 1) /\ Forward(dir) \in {-1, 1}
    BY <1>1, Directory
  <2>4. CASE Size[axis] = 1
    BY <1>1, <2>1, <2>4 DEF Offsets
  <2>5. CASE Size[axis] # 1 /\ axis = Axis(dir)
    <3>1. BeyondFace(rank, pos, dir) <=> IF Forward(dir) = 1 THEN pos[axis] > GridPos(rank)[axis]
                                         ELSE pos[axis] < GridPos(rank)[axis]
      BY <2>5 DEF BeyondFace
    <3>2. CASE Forward(dir) = 1
      BY <1>1, <2>1, <2>2, <2>3, <2>5, <3>1, <3>2 DEF Offsets
    <3>3. CASE Forward(dir) = -1
      BY <1>1, <2>1, <2>2, <2>3, <2>5, <3>1, <3>3 DEF Offsets
    <3> QED
      BY <2>3, <3>2, <3>3
  <2>6. CASE Size[axis] # 1 /\ axis # Axis(dir)
    <3>1. dir # 2 * axis - 2 /\ dir # 2 * axis - 1
      <4>1. Axis(2 * axis - 2) = axis /\ Axis(2 * axis - 1) = axis
        BY <2>1 DEF Axis
      <4> QED
        BY <2>6, <4>1
    <3> QED
      BY <1>1, <2>1, <2>2, <2>6, <3>1 DEF Offsets
  <2> QED
    BY <2>4, <2>5, <2>6
<1> QED
  BY <1>2, <1>3 DEF Near, Crossing

\* After the last direction, every particle is in the domain.
LEMMA AtHome ==
  ASSUME NEW rank \in Ranks, NEW before \in -1 .. 5,
         \A other \in Sending : ~ (before < other), NEW pos \in Near(rank, before)
  PROVE  pos \in Near(rank, 6)
<1>1. ASSUME NEW axis \in Axes
      PROVE  Offsets(axis, before) = Offsets(axis, 6)
  <2>1. CASE Size[axis] = 1
    BY <2>1 DEF Offsets
  <2>2. CASE Size[axis] # 1
    <3>1. 2 * axis - 1 \in Directions /\ Axis(2 * axis - 1) = axis
      BY DEF Axes, Directions, Axis
    <3>2. 2 * axis - 1 \in Sending
      BY <2>2, <3>1 DEF Sending, IsCommunicating
    <3>3. ~ (before < 2 * axis - 1) /\ axis \in 1 .. 3
      BY <3>2 DEF Axes
    <3> QED
      BY <3>3 DEF Offsets
  <2> QED
    BY <2>1, <2>2
<1> QED
  BY <1>1 DEF Near

LEMMA HomeIs ==
  ASSUME NEW rank \in Ranks
  PROVE  Near(rank, 6) = {GridPos(rank)}
<1>1. ASSUME NEW pos \in Near(rank, 6) PROVE pos = GridPos(rank)
  <2>1. ASSUME NEW axis \in Axes PROVE pos[axis] = GridPos(rank)[axis]
    <3>1. pos[axis] - GridPos(rank)[axis] \in Offsets(axis, 6) /\ pos[axis] \in Int /\ axis \in 1 .. 3
      BY DEF Near, Axes
    <3>2. Offsets(axis, 6) = {0}
      BY <3>1 DEF Offsets
    <3> QED
      BY <3>1, <3>2, CellIs
  <2>2. GridPos(rank) \in [Axes -> Int] /\ pos \in [Axes -> Int]
    BY GridPosIsCell DEF GridCells, Near
  <2> QED
    BY <2>1, <2>2
<1>2. GridPos(rank) \in Near(rank, 6)
  <2>1. GridPos(rank) \in [Axes -> Int]
    BY GridPosIsCell DEF GridCells
  <2>2. \A axis \in Axes : GridPos(rank)[axis] - GridPos(rank)[axis] \in Offsets(axis, 6)
    BY <2>1 DEF Offsets
  <2> QED
    BY <2>1, <2>2 DEF Near
<1> QED
  BY <1>1, <1>2

\* What was beyond a face of one domain is, wrapped, in or next to the other:
\* only what lies beyond the end of an axis still to be done is left there.
LEMMA ArrivesNear ==
  ASSUME NEW from \in Ranks, NEW dir \in Sending, NEW pos \in Crossing(from, dir),
         NEW to \in Ranks, to = NeighborRank(from, dir)
  PROVE  Wrapped(to, pos) \in Near(to, dir)
<1>1. dir \in Directions /\ dir \in 0 .. 5 /\ Axis(dir) \in Axes /\ Size[Axis(dir)] # 1
      /\ Forward(dir) \in {-1, 1}
  BY Directory DEF Sending, Directions, IsCommunicating
<1>2. GridPos(to) = [GridPos(from) EXCEPT ![Axis(dir)] = Around(@ + Forward(dir), Size[Axis(dir)])]
  BY <1>1, NeighborIs
<1>3. ASSUME NEW axis \in Axes
      PROVE  Wrapped(to, pos)[axis] \in Int /\ Wrapped(to, pos)[axis] - GridPos(to)[axis] \in Offsets(axis, dir)
  <2> DEFINE x == pos[axis]
             n == Size[axis]
             c == GridPos(from)[axis]
             d == GridPos(to)[axis]
             w == Wrapped(to, pos)[axis]
  <2>1. w = IF n = 1 THEN x
            ELSE IF x >= n /\ ~ (d = n - 1 /\ x = n) THEN x - n
            ELSE IF x < 0 /\ ~ (d = 0 /\ x = -1) THEN x + n
            ELSE x
    BY DEF Wrapped
  <2>2. x \in Int /\ n \in Nat \ {0} /\ c \in 0 .. n - 1 /\ d \in 0 .. n - 1 /\ axis \in 1 .. 3
        /\ GridPos(from) \in [Axes -> Int]
    BY CellIs DEF Crossing, Axes
  <2>3. CASE axis = Axis(dir)
    <3>1. x - c = Forward(dir) /\ d = Around(c + Forward(dir), n) /\ n # 1
      BY <1>1, <1>2, <2>2, <2>3 DEF Crossing
    <3>2. 0 \in Offsets(axis, dir)
      BY DEF Offsets
    <3> HIDE DEF x, n, c, d, w
    <3>3. w = d
      BY <1>1, <2>1, <2>2, <3>1 DEF Around
    <3> QED
      BY <2>2, <3>2, <3>3 DEF w, d
  <2>4. CASE axis # Axis(dir)
    <3>1. x - c \in Offsets(axis, dir) /\ d = c
      BY <1>2, <2>2, <2>4 DEF Crossing
    <3>2. Offsets(axis, dir) \subseteq -1 .. 1 /\ (n = 1 => Offsets(axis, dir) = {0})
      BY DEF Offsets
    <3> HIDE DEF x, n, c, d, w
    <3>3. w = x
      BY <2>1, <2>2, <3>1, <3>2
    <3> QED
      BY <2>2, <3>1, <3>3 DEF w, d
  <2> QED
    BY <2>3, <2>4
<1>4. Wrapped(to, pos) = [axis \in Axes |-> Wrapped(to, pos)[axis]]
  BY DEF Wrapped
<1> QED
  BY <1>3, <1>4 DEF Near

LEMMA PlanIs ==
  ASSUME NEW rank \in Ranks, NEW pos
  PROVE  PlanOf(rank, pos) = { dir \in Sending : BeyondFace(rank, pos, dir) }
BY RouteShape DEF PlanOf, Sending

\* The plan of a particle leads from the rank to the domain the particle is in.
LEMMA PlanLeads ==
  ASSUME NEW rank \in Ranks, NEW pos \in Near(rank, -1)
  PROVE  pos \in Heading(rank, PlanOf(rank, pos))
<1>1. ASSUME NEW axis \in Axes
      PROVE  /\ pos[axis] \in -1 .. Size[axis] /\ (Size[axis] = 1 => pos[axis] = 0)
             /\ Around(pos[axis], Size[axis])
                   = Around(GridPos(rank)[axis] + Towards(axis, PlanOf(rank, pos)), Size[axis])
  <2> DEFINE x == pos[axis]
             n == Size[axis]
             c == GridPos(rank)[axis]
             t == Towards(axis, PlanOf(rank, pos))
  <2>1. x \in Int /\ n \in Nat \ {0} /\ c \in 0 .. n - 1 /\ x - c \in Offsets(axis, -1) /\ axis \in 1 .. 3
    BY CellIs DEF Near, Axes
  <2>2. /\ 2 * axis - 2 \in Directions /\ Axis(2 * axis - 2) = axis /\ Forward(2 * axis - 2) = 1
        /\ 2 * axis - 1 \in Directions /\ Axis(2 * axis - 1) = axis /\ Forward(2 * axis - 1) = -1
    BY <2>1 DEF Directions, Axis, Forward
  <2>3. /\ 2 * axis - 2 \in PlanOf(rank, pos) <=> n # 1 /\ x > c
        /\ 2 * axis - 1 \in PlanOf(rank, pos) <=> n # 1 /\ x < c
    BY <2>2, PlanIs DEF Sending, IsCommunicating, BeyondFace
  <2>4. Offsets(axis, -1) = IF n = 1 THEN {0} ELSE {-1, 0, 1}
    BY <2>1 DEF Offsets
  <2>5. t = IF n # 1 /\ x > c THEN 1 ELSE IF n # 1 /\ x < c THEN -1 ELSE 0
    BY <2>3 DEF Towards
  <2> HIDE DEF x, n, c, t
  <2>6. c + t = x /\ x \in -1 .. n /\ (n = 1 => x = 0)
    BY <2>1, <2>4, <2>5
  <2> QED
    BY <2>6 DEF x, n, c, t
<1>2. pos \in [Axes -> Int]
  BY DEF Near
<1> QED
  BY <1>1, <1>2 DEF Heading

\* A particle that does not leave is in the domain.
LEMMA NoPlanAtHome ==
  ASSUME NEW rank \in Ranks, NEW pos \in Near(rank, -1), PlanOf(rank, pos) = {}
  PROVE  pos \in Near(rank, 6)
<1>1. ASSUME NEW axis \in Axes
      PROVE  pos[axis] - GridPos(rank)[axis] = 0
  <2>1. pos[axis] \in Int /\ GridPos(rank)[axis] \in Int /\ axis \in 1 .. 3
        /\ pos[axis] - GridPos(rank)[axis] \in Offsets(axis, -1)
    BY CellIs DEF Near, Axes
  <2>2. CASE Size[axis] = 1
    BY <2>1, <2>2 DEF Offsets
  <2>3. CASE Size[axis] # 1
    <3>1. /\ 2 * axis - 2 \in Directions /\ Axis(2 * axis - 2) = axis /\ Forward(2 * axis - 2) = 1
          /\ 2 * axis - 1 \in Directions /\ Axis(2 * axis - 1) = axis /\ Forward(2 * axis - 1) = -1
      BY <2>1 DEF Directions, Axis, Forward
    <3>2. ~ (pos[axis] > GridPos(rank)[axis]) /\ ~ (pos[axis] < GridPos(rank)[axis])
      BY <2>3, <3>1, PlanIs DEF Sending, IsCommunicating, BeyondFace
    <3> QED
      BY <2>1, <3>2
  <2> QED
    BY <2>2, <2>3
<1>2. pos \in [Axes -> Int] /\ \A axis \in Axes : 0 \in Offsets(axis, 6)
  BY DEF Near, Offsets
<1> QED
  BY <1>1, <1>2 DEF Near

\* In the buffer of the neighbour, what was sent has less far to go.
LEMMA SentHeading ==
  ASSUME NEW from \in Ranks, NEW dir \in Sending, NEW plan \in Plans, dir \in plan,
         NEW pos \in Heading(from, plan)
  PROVE  pos \in Heading(NeighborRank(from, dir), plan \ {dir})
<1>1. dir \in Directions /\ Axis(dir) \in Axes /\ Forward(dir) \in {-1, 1}
      /\ dir = 2 * Axis(dir) - (IF Forward(dir) = 1 THEN 2 ELSE 1)
  BY Directory DEF Sending
<1>2. NeighborRank(from, dir) \in Ranks
      /\ GridPos(NeighborRank(from, dir)) =
             [GridPos(from) EXCEPT ![Axis(dir)] = Around(@ + Forward(dir), Size[Axis(dir)])]
  BY <1>1, NeighborIs
<1>3. ASSUME NEW axis \in Axes
      PROVE  Around(GridPos(from)[axis] + Towards(axis, plan), Size[axis])
               = Around(GridPos(NeighborRank(from, dir))[axis] + Towards(axis, plan \ {dir}), Size[axis])
  <2> DEFINE n == Size[axis]
             c == GridPos(from)[axis]
             d == GridPos(NeighborRank(from, dir))[axis]
  <2>1. n \in Nat \ {0} /\ c \in 0 .. n - 1 /\ axis \in 1 .. 3 /\ GridPos(from) \in [Axes -> Int]
    BY CellIs DEF Axes
  <2>2. CASE axis = Axis(dir)
    <3>1. d = Around(c + Forward(dir), n)
      BY <1>2, <2>1, <2>2
    <3>2. Towards(axis, plan \ {dir}) = 0 /\ Towards(axis, plan) = Forward(dir)
      <4>1. \A f \in plan : f \div 2 = dir \div 2 => f = dir
        BY OneFaceOfAnAxis DEF Plans
      <4>2. (2 * axis - 2) \div 2 = axis - 1 /\ (2 * axis - 1) \div 2 = axis - 1 /\ dir \div 2 = axis - 1
        BY <1>1, <2>1, <2>2
      <4>3. \A f \in {2 * axis - 2, 2 * axis - 1} : f \in plan => f = dir
        BY <4>1, <4>2
      <4> QED
        BY <1>1, <2>1, <2>2, <4>3 DEF Towards
    <3>3. d \in 0 .. n - 1
      BY <1>2, CellIs
    <3> HIDE DEF n, c, d
    <3>4. Around(d + 0, n) = d
      BY <2>1, <3>3 DEF Around
    <3>5. Around(c + Forward(dir), n) = Around(d + 0, n)
      BY <3>1, <3>4
    <3> QED
      BY <3>2, <3>5 DEF n, c, d
  <2>3. CASE axis # Axis(dir)
    <3>1. d = c
      BY <1>2, <2>1, <2>3
    <3>2. Towards(axis, plan \ {dir}) = Towards(axis, plan)
      <4>1. dir # 2 * axis - 2 /\ dir # 2 * axis - 1
        BY <1>1, <2>1, <2>3 DEF Axes
      <4> QED
        BY <4>1 DEF Towards
    <3> QED
      BY <3>1, <3>2
  <2> QED
    BY <2>2, <2>3
<1> QED
  BY <1>3 DEF Heading

\* Where no plan leads on, the particle is, wrapped, in the domain.
LEMMA ArrivedHome ==
  ASSUME NEW rank \in Ranks, NEW pos \in Heading(rank, {})
  PROVE  Wrapped(rank, pos) \in Near(rank, 6)
<1>1. ASSUME NEW axis \in Axes
      PROVE  Wrapped(rank, pos)[axis] = GridPos(rank)[axis]
  <2> DEFINE x == pos[axis]
             n == Size[axis]
             d == GridPos(rank)[axis]
             w == Wrapped(rank, pos)[axis]
  <2>1. w = IF n = 1 THEN x
            ELSE IF x >= n /\ ~ (d = n - 1 /\ x = n) THEN x - n
            ELSE IF x < 0 /\ ~ (d = 0 /\ x = -1) THEN x + n
            ELSE x
    BY DEF Wrapped
  <2>2. x \in -1 .. n /\ n \in Nat \ {0} /\ d \in 0 .. n - 1 /\ (n = 1 => x = 0)
    BY CellIs DEF Heading
  <2>3. Around(x, n) = Around(d, n)
    <3>1. Towards(axis, {}) = 0
      BY DEF Towards
    <3>2. Around(x, n) = Around(d + 0, n)
      BY <3>1 DEF Heading
    <3> HIDE DEF d
    <3>3. d + 0 = d
      BY <2>2
    <3> QED
      BY <3>2, <3>3
  <2> HIDE DEF x, n, d, w
  <2>4. w = d
    BY <2>1, <2>2, <2>3 DEF Around
  <2> QED
    BY <2>4 DEF w, d
<1>2. Wrapped(rank, pos) = [axis \in Axes |-> Wrapped(rank, pos)[axis]]
      /\ GridPos(rank) \in [Axes -> Int]
  BY GridPosIsCell DEF Wrapped, GridCells
<1>3. Wrapped(rank, pos) = GridPos(rank)
  BY <1>1, <1>2
<1> QED
  BY <1>3, HomeIs

-----------------------------------------------------------------------------
(* The messages after a step: those before it, and the one that was sent.   *)

\* A rank that goes on: it begins, or what it waits for has come.
GoesOn(r) == phase[r] = "moved" \/ (phase[r] \in Kinds(communicator) /\ Arrived(r))

LEMMA FirstMessage ==
  ASSUME Ordered, NEW r \in Ranks, phase[r] \in Kinds(communicator), Arrived(r)
  PROVE  /\ Source(r) \in Ranks /\ 1 \in DOMAIN channel[<<Source(r), r>>]
         /\ Message(r) = channel[<<Source(r), r>>][1]
         /\ Message(r).dir = Route[stage[r]] /\ Message(r).kind = phase[r]
         /\ NeighborRank(Source(r), Route[stage[r]]) = r
<1>1. Source(r) \in Ranks /\ NeighborRank(Source(r), Route[stage[r]]) = r
      /\ Message(r).dir = Route[stage[r]] /\ Message(r).kind = phase[r]
  BY Waiting
<1>2. IsSomeList(channel[<<Source(r), r>>])
  BY <1>1 DEF Ordered, InOrder
<1>3. channel[<<Source(r), r>>] # <<>> /\ Message(r) = Head(channel[<<Source(r), r>>])
  BY DEF Arrived, Message
<1>4. 1 \in DOMAIN channel[<<Source(r), r>>] /\ Message(r) = channel[<<Source(r), r>>][1]
  BY <1>2, <1>3, ListFacts
<1> QED
  BY <1>1, <1>4

LEMMA RemainingMessages ==
  ASSUME Ordered, NEW r \in Ranks, GoesOn(r), NEW from \in Ranks, NEW to \in Ranks
  PROVE  /\ IsSomeList(Remaining(r)[<<from, to>>])
         /\ \A i \in DOMAIN Remaining(r)[<<from, to>>] : \E j \in DOMAIN channel[<<from, to>>] :
                Remaining(r)[<<from, to>>][i] = channel[<<from, to>>][j]
<1>0. InOrder(Kinds(communicator), channel[<<from, to>>], from, to, Clock(from), Clock(to))
      /\ channel = [pair \in Ranks \X Ranks |-> channel[pair]]
  BY DEF Ordered
<1>1. IsSomeList(channel[<<from, to>>]) /\ channel = [pair \in Ranks \X Ranks |-> channel[pair]]
  BY <1>0 DEF InOrder
<1>2. CASE phase[r] = "moved"
  BY <1>1, <1>2 DEF Remaining
<1>3. CASE phase[r] # "moved"
  <2>1. Remaining(r) = [channel EXCEPT ![<<Source(r), r>>] = Tail(channel[<<Source(r), r>>])]
    BY <1>3 DEF Remaining, Taken
  <2>2. CASE <<from, to>> = <<Source(r), r>>
    <3>1. channel[<<from, to>>] # <<>> /\ Remaining(r)[<<from, to>>] = Tail(channel[<<from, to>>])
      BY <1>1, <1>3, <2>1, <2>2 DEF GoesOn, Arrived
    <3> DEFINE list == channel[<<from, to>>]
    <3>2. list # <<>> /\ IsSomeList(list)
      BY <1>1, <3>1
    <3> HIDE DEF list
    <3>3. /\ Len(list) \in Nat /\ DOMAIN list = 1 .. Len(list)
          /\ IsSomeList(Tail(list)) /\ DOMAIN Tail(list) = 1 .. Len(list) - 1
          /\ \A i \in 1 .. Len(list) - 1 : Tail(list)[i] = list[i + 1]
      BY <3>2, ListFacts
    <3>4. ASSUME NEW i \in DOMAIN Tail(list)
          PROVE  i + 1 \in DOMAIN list /\ Tail(list)[i] = list[i + 1]
      BY <3>3
    <3> QED
      BY <3>1, <3>3, <3>4 DEF list
  <2>3. CASE <<from, to>> # <<Source(r), r>>
    BY <1>1, <2>1, <2>3
  <2> QED
    BY <2>2, <2>3
<1> QED
  BY <1>2, <1>3

LEMMA MessagesAfter ==
  ASSUME Ordered, NEW r \in Ranks, GoesOn(r), NEW next \in Ranks, NEW message,
         NEW chan, chan = Put(Remaining(r), r, next, message),
         NEW from \in Ranks, NEW to \in Ranks, NEW i \in DOMAIN chan[<<from, to>>]
  PROVE  \/ \E j \in DOMAIN channel[<<from, to>>] :
                chan[<<from, to>>][i] = channel[<<from, to>>][j]
         \/ from = r /\ to = next /\ chan[<<from, to>>][i] = message
<1>1. Remaining(r) = [pair \in Ranks \X Ranks |-> Remaining(r)[pair]]
  BY DEF Ordered, Remaining, Taken
<1>2. chan = [Remaining(r) EXCEPT ![<<r, next>>] = Append(Remaining(r)[<<r, next>>], message)]
  BY DEF Put
<1>3. /\ IsSomeList(Remaining(r)[<<from, to>>])
      /\ \A k \in DOMAIN Remaining(r)[<<from, to>>] : \E j \in DOMAIN channel[<<from, to>>] :
                Remaining(r)[<<from, to>>][k] = channel[<<from, to>>][j]
  BY RemainingMessages
<1>4. CASE from = r /\ to = next
  <2> DEFINE list == Remaining(r)[<<from, to>>]
  <2>1. chan[<<from, to>>] = Append(list, message) /\ IsSomeList(list)
    BY <1>1, <1>2, <1>3, <1>4
  <2> HIDE DEF list
  <2>2. /\ Len(list) \in Nat /\ DOMAIN list = 1 .. Len(list)
        /\ DOMAIN Append(list, message) = 1 .. Len(list) + 1
        /\ \A k \in 1 .. Len(list) : Append(list, message)[k] = list[k]
        /\ Append(list, message)[Len(list) + 1] = message
    BY <2>1, ListFacts
  <2>3. i \in DOMAIN list \/ i = Len(list) + 1
    BY <2>1, <2>2
  <2>4. CASE i \in DOMAIN list
    <3>1. chan[<<from, to>>][i] = list[i]
      BY <2>1, <2>2, <2>4
    <3> QED
      BY <1>3, <2>4, <3>1 DEF list
  <2>5. CASE i = Len(list) + 1
    BY <1>4, <2>1, <2>2, <2>5
  <2> QED
    BY <2>3, <2>4, <2>5
<1>5. CASE ~ (from = r /\ to = next)
  <2>1. chan[<<from, to>>] = Remaining(r)[<<from, to>>]
    BY <1>1, <1>2, <1>5
  <2> QED
    BY <1>3, <2>1
<1> QED
  BY <1>4, <1>5

LEMMA FitsAfter ==
  ASSUME Ordered, Located, NEW r \in Ranks, GoesOn(r), NEW next \in Ranks, NEW message,
         NEW chan, chan = Put(Remaining(r), r, next, message), Fits(r, next, message),
         NEW from \in Ranks, NEW to \in Ranks, NEW i \in DOMAIN chan[<<from, to>>]
  PROVE  Fits(from, to, chan[<<from, to>>][i])
<1>1. \A j \in DOMAIN channel[<<from, to>>] : Fits(from, to, channel[<<from, to>>][j])
  BY DEF Located
<1> QED
  BY <1>1, MessagesAfter

LEMMA FitsAtEnd ==
  ASSUME Ordered, Located, NEW r \in Ranks, GoesOn(r), NEW chan, chan = Remaining(r),
         NEW from \in Ranks, NEW to \in Ranks, NEW i \in DOMAIN chan[<<from, to>>]
  PROVE  Fits(from, to, chan[<<from, to>>][i])
<1>1. \A j \in DOMAIN channel[<<from, to>>] : Fits(from, to, channel[<<from, to>>][j])
  BY DEF Located
<1> QED
  BY <1>1, RemainingMessages

\* A step of a rank leaves the arrays and buffers of the others alone.
LEMMA OthersLocated ==
  ASSUME Ordered, Located, NEW r \in Ranks, NEW other \in Ranks, other # r,
         phase'[other] = phase[other], stage'[other] = stage[other],
         ptls'[other] = ptls[other], mask'[other] = mask[other],
         ptlBuf'[other] = ptlBuf[other], recvBuf'[other] = recvBuf[other]
  PROVE  LocatedAt(other)'
<1>1. LocatedAt(other)
  BY DEF Located
<1>2. SentUpTo(other)' = SentUpTo(other)
  BY DEF SentUpTo
<1>3. Leaving(other)' = Leaving(other)
  BY DEF Leaving
<1> QED
  BY <1>1, <1>2, <1>3 DEF LocatedAt

-----------------------------------------------------------------------------
(* Lists and sets of particles.                                             *)

LEMMA PickedIn ==
  ASSUME NEW E, NEW F, NEW list \in Seq(E), NEW S \in SUBSET (DOMAIN list),
         \A i \in S : list[i] \in F
  PROVE  Picked(list, S) \in Seq(F)
<1>1. Cardinality(S) \in Nat
  BY PickedProperties, LenProperties
<1>2. \A k \in 1 .. Cardinality(S) : list[Nth(S, k)] \in F
  BY PickedProperties
<1> QED
  BY <1>1, <1>2, SeqDef DEF Picked

LEMMA ParticleIs ==
  ASSUME NEW S, NEW p \in Particles(S)
  PROVE  p.tag \in Tags /\ p.pos \in S /\ p = Particle(p.tag, p.pos)
BY DEF Particles, Particle

LEMMA IsParticle ==
  ASSUME NEW S, NEW tag \in Tags, NEW pos \in S
  PROVE  /\ Particle(tag, pos) \in Particles(S)
         /\ Particle(tag, pos).tag = tag /\ Particle(tag, pos).pos = pos
BY DEF Particles, Particle

-----------------------------------------------------------------------------
(* A step of a rank, in parts: its own arrays and buffers, and its message.  *)

OnlyAt(r) ==
    /\ phase' = [phase EXCEPT ![r] = phase'[r]] /\ stage' = [stage EXCEPT ![r] = stage'[r]]
    /\ ptls' = [ptls EXCEPT ![r] = ptls'[r]] /\ mask' = [mask EXCEPT ![r] = mask'[r]]
    /\ ptlBuf' = [ptlBuf EXCEPT ![r] = ptlBuf'[r]]
    /\ recvBuf' = [recvBuf EXCEPT ![r] = recvBuf'[r]]

LEMMA LocatedAfter ==
  ASSUME Ordered, Located, NEW r \in Ranks, GoesOn(r), OnlyAt(r), LocatedAt(r)',
         \/ channel' = Remaining(r)
         \/ \E next \in Ranks : \E message :
               channel' = Put(Remaining(r), r, next, message) /\ Fits(r, next, message)
  PROVE  Located'
<1>1. ASSUME NEW q \in Ranks PROVE LocatedAt(q)'
  <2>1. CASE q = r
    BY <2>1
  <2>2. CASE q # r
    <3>1. /\ phase'[q] = phase[q] /\ stage'[q] = stage[q] /\ ptls'[q] = ptls[q] /\ mask'[q] = mask[q]
          /\ ptlBuf'[q] = ptlBuf[q] /\ recvBuf'[q] = recvBuf[q]
      BY <2>2 DEF OnlyAt, Located, Ordered
    <3> QED
      BY <2>2, <3>1, OthersLocated
  <2> QED
    BY <2>1, <2>2
<1>2. ASSUME NEW from \in Ranks, NEW to \in Ranks, NEW i \in DOMAIN channel'[<<from, to>>]
      PROVE  Fits(from, to, channel'[<<from, to>>][i])
  <2>1. CASE channel' = Remaining(r)
    BY <2>1, FitsAtEnd
  <2>2. ASSUME NEW next \in Ranks, NEW message,
               channel' = Put(Remaining(r), r, next, message), Fits(r, next, message)
        PROVE  Fits(from, to, channel'[<<from, to>>][i])
    BY <2>2, FitsAfter
  <2> QED
    BY <2>1, <2>2
<1>3. /\ ptls' = [q \in Ranks |-> ptls'[q]] /\ mask' = [q \in Ranks |-> mask'[q]]
      /\ ptlBuf' = [q \in Ranks |-> ptlBuf'[q]] /\ recvBuf' = [q \in Ranks |-> recvBuf'[q]]
  BY DEF OnlyAt, Located
<1> QED
  BY <1>1, <1>2, <1>3 DEF Located

LEMMA OnTheCPU ==
  ASSUME Ordered, Located, communicator = "CPU", NEW r \in Ranks, GoesOn(r)
  PROVE  /\ phase[r] \in {"moved", "particles", "bonds"} /\ recvBuf[r] = {} /\ mask[r] = {}
         /\ ptlBuf[r] = [plan \in Plans |-> ptlBuf[r][plan]]
         /\ \A plan \in Plans : ptlBuf[r][plan] \in Some(Particles(Heading(r, plan)))
         /\ phase[r] # "moved" => /\ phase[r] \in Kinds(communicator) /\ Arrived(r)
                                  /\ stage[r] \in DOMAIN Route /\ Route[stage[r]] \in Sending
                                  /\ SentUpTo(r) = Route[stage[r]]
<1>1. phase[r] \in {"moved", "particles", "bonds"}
  BY KindsAre DEF GoesOn
<1>2. phase[r] # "moved" => phase[r] \in Kinds(communicator) /\ Arrived(r)
  BY DEF GoesOn
<1>3. LocatedAt(r)
  BY DEF Located
<1>4. phase[r] # "moved" => stage[r] \in DOMAIN Route /\ Route[stage[r]] \in Sending
  BY <1>2, Waiting
<1> QED
  BY <1>1, <1>2, <1>3, <1>4 DEF LocatedAt, SentUpTo

LEMMA StartLocated ==
  ASSUME Ordered, Located, communicator = "CPU", NEW r \in Ranks, GoesOn(r),
         NEW k \in Nat \ {0}, NEW before \in -1 .. 5,
         IF k \in DOMAIN Route
         THEN before < Route[k] /\ \A other \in Sending : before < other => Route[k] <= other
         ELSE \A other \in Sending : ~ (before < other),
         NEW list \in Seq(Particles(Near(r, before))), NEW old, NEW bonds,
         StartStage(r, k, list, old, bonds, Remaining(r)),
         UNCHANGED <<mask, ptlBuf, recvBuf>>
  PROVE  Located'
<1>1. /\ recvBuf[r] = {} /\ mask[r] = {}
      /\ ptlBuf[r] = [plan \in Plans |-> ptlBuf[r][plan]]
      /\ \A plan \in Plans : ptlBuf[r][plan] \in Some(Particles(Heading(r, plan)))
  BY OnTheCPU
<1>2. /\ ptls = [q \in Ranks |-> ptls[q]] /\ mask = [q \in Ranks |-> mask[q]]
      /\ ptlBuf = [q \in Ranks |-> ptlBuf[q]] /\ recvBuf = [q \in Ranks |-> recvBuf[q]]
      /\ phase = [q \in Ranks |-> phase[q]] /\ stage = [q \in Ranks |-> stage[q]]
  BY DEF Located, Ordered
<1>3. \A i \in DOMAIN list : list[i] \in Particles(Near(r, before))
  BY ElementOfSeq, LenProperties
<1>4. CASE k > Len(Route)
  <2>1. /\ phase' = [phase EXCEPT ![r] = "idle"] /\ stage' = [stage EXCEPT ![r] = 0]
        /\ ptls' = [ptls EXCEPT ![r] = list] /\ channel' = Remaining(r)
    BY <1>4 DEF StartStage
  <2>2. phase'[r] = "idle" /\ ptls'[r] = list /\ OnlyAt(r)
    BY <1>2, <2>1 DEF OnlyAt
  <2>3. list \in Seq(Particles(Near(r, 6)))
    <3>1. k \notin DOMAIN Route
      BY <1>4, RouteShape
    <3>2. Near(r, before) \subseteq Near(r, 6)
      BY <3>1, AtHome
    <3>3. Particles(Near(r, before)) \subseteq Particles(Near(r, 6))
      BY <3>2 DEF Particles
    <3> QED
      BY <3>3, SeqMonotonic
  <2>4. LocatedAt(r)'
    <3>1. SentUpTo(r)' = 6
      BY <2>2 DEF SentUpTo
    <3> QED
      BY <1>1, <2>2, <2>3, <3>1 DEF LocatedAt
  <2> QED
    BY <2>1, <2>2, <2>4, LocatedAfter
<1>5. CASE ~ (k > Len(Route))
  <2> DEFINE dir == Route[k]
             leave == Leaves(r, dir, list)
             message == [dir |-> dir, kind |-> "particles", data |-> leave]
  <2>1. k \in DOMAIN Route /\ dir \in Sending
    BY <1>5, RouteShape, RouteNext
  <2>2. /\ phase' = [phase EXCEPT ![r] = "particles"] /\ stage' = [stage EXCEPT ![r] = k]
        /\ ptls' = [ptls EXCEPT ![r] = Stays(r, dir, list)]
        /\ channel' = Put(Remaining(r), r, NeighborRank(r, dir), message)
    BY <1>5 DEF StartStage
  <2>3. phase'[r] = "particles" /\ stage'[r] = k /\ ptls'[r] = Stays(r, dir, list) /\ OnlyAt(r)
    BY <1>2, <2>2 DEF OnlyAt
  <2> HIDE DEF message
  <2>4. ASSUME NEW i \in DOMAIN list
        PROVE  list[i] \in Particles(IF i \in Beyond(r, dir, list) THEN Crossing(r, dir) ELSE Near(r, dir))
    <3>1. list[i].pos \in Near(r, before) /\ list[i].tag \in Tags /\ list[i] = Particle(list[i].tag, list[i].pos)
      BY <1>3, ParticleIs
    <3>2. i \in Beyond(r, dir, list) <=> BeyondFace(r, list[i].pos, dir)
      BY DEF Beyond
    <3>3. list[i].pos \in IF BeyondFace(r, list[i].pos, dir) THEN Crossing(r, dir) ELSE Near(r, dir)
      BY <2>1, <3>1, StaysNear
    <3> QED
      BY <3>1, <3>2, <3>3, IsParticle
  <2>5. Stays(r, dir, list) \in Seq(Particles(Near(r, dir)))
    <3>1. DOMAIN list \ Beyond(r, dir, list) \in SUBSET (DOMAIN list)
      OBVIOUS
    <3>2. \A i \in DOMAIN list \ Beyond(r, dir, list) : list[i] \in Particles(Near(r, dir))
      BY <2>4
    <3> QED
      BY <3>1, <3>2, PickedIn DEF Stays
  <2>6. leave \in Seq(Particles(Crossing(r, dir)))
    <3>1. Beyond(r, dir, list) \in SUBSET (DOMAIN list)
      BY DEF Beyond
    <3>2. \A i \in Beyond(r, dir, list) : list[i] \in Particles(Crossing(r, dir))
      BY <2>4, <3>1
    <3> QED
      BY <3>1, <3>2, PickedIn DEF Leaves
  <2>7. LocatedAt(r)'
    <3>1. SentUpTo(r)' = dir
      BY <2>3 DEF SentUpTo
    <3> QED
      BY <1>1, <2>3, <2>5, <3>1 DEF LocatedAt
  <2>8. Fits(r, NeighborRank(r, dir), message)
    BY <2>6 DEF Fits, message
  <2>9. NeighborRank(r, dir) \in Ranks
    BY <2>1, NeighborIs DEF Sending
  <2> QED
    BY <2>2, <2>3, <2>7, <2>8, <2>9, LocatedAfter
<1> QED
  BY <1>4, <1>5

\* What the CPU communicator receives and appends.
LEMMA ReceivedLocated ==
  ASSUME Ordered, Located, communicator = "CPU", NEW r \in Ranks, GoesOn(r), phase[r] = "particles",
         NEW new, new = [i \in DOMAIN Message(r).data |->
             Particle(Message(r).data[i].tag, Wrapped(r, Message(r).data[i].pos))]
  PROVE  /\ SentUpTo(r) = Route[stage[r]]
         /\ ptls[r] \o new \in Seq(Particles(Near(r, SentUpTo(r))))
<1> DEFINE dir == Route[stage[r]]
           data == Message(r).data
<1>1. /\ phase[r] \in Kinds(communicator) /\ Arrived(r) /\ dir \in Sending /\ SentUpTo(r) = dir
      /\ stage[r] \in DOMAIN Route
  BY OnTheCPU
<1>2. /\ Source(r) \in Ranks /\ NeighborRank(Source(r), dir) = r
      /\ Message(r).dir = dir /\ Message(r).kind = "particles" /\ Fits(Source(r), r, Message(r))
  <2>1. /\ Source(r) \in Ranks /\ 1 \in DOMAIN channel[<<Source(r), r>>]
        /\ Message(r) = channel[<<Source(r), r>>][1]
        /\ Message(r).dir = dir /\ Message(r).kind = phase[r]
        /\ NeighborRank(Source(r), dir) = r
    BY <1>1, FirstMessage
  <2>2. Fits(Source(r), r, channel[<<Source(r), r>>][1])
    BY <2>1 DEF Located
  <2> QED
    BY <2>1, <2>2
<1>3. data \in Seq(Particles(Crossing(Source(r), dir)))
  BY <1>2 DEF Fits
<1> HIDE DEF dir, data
<1>4. Len(data) \in Nat /\ DOMAIN data = 1 .. Len(data)
      /\ \A i \in DOMAIN data : data[i] \in Particles(Crossing(Source(r), dir))
  BY <1>3, LenProperties, ElementOfSeq
<1>5. ASSUME NEW i \in DOMAIN data
      PROVE  Particle(data[i].tag, Wrapped(r, data[i].pos)) \in Particles(Near(r, dir))
  <2>1. data[i].tag \in Tags /\ data[i].pos \in Crossing(Source(r), dir)
    BY <1>4, ParticleIs
  <2>2. Wrapped(r, data[i].pos) \in Near(r, dir)
    BY <1>1, <1>2, <2>1, ArrivesNear DEF dir
  <2> QED
    BY <2>1, <2>2, IsParticle
<1>6. new = [i \in 1 .. Len(data) |-> Particle(data[i].tag, Wrapped(r, data[i].pos))]
  BY <1>4 DEF data
<1>7. new \in Seq(Particles(Near(r, dir)))
  BY <1>4, <1>5, <1>6, SeqDef
<1>8. ptls[r] \in Seq(Particles(Near(r, dir)))
  BY <1>1 DEF Located, LocatedAt
<1> QED
  BY <1>1, <1>7, <1>8, ConcatProperties DEF dir

LEMMA LocatedBegin ==
  ASSUME Ordered, Located, communicator = "CPU", NEW r \in Ranks, BeginMigration(r), UNCHANGED buffers
  PROVE  Located'
<1>1. phase[r] = "moved" /\ GoesOn(r) /\ SentUpTo(r) = -1 /\ Remaining(r) = channel
  BY DEF BeginMigration, GoesOn, SentUpTo, Remaining
<1>2. ptls[r] \in Seq(Particles(Near(r, -1)))
  BY <1>1 DEF Located, LocatedAt
<1>3. StartStage(r, 1, ptls[r], Forgotten(rtag[r], nghosts[r]), table[r].bonds, Remaining(r))
  BY <1>1 DEF BeginMigration
<1>4. 1 \in DOMAIN Route /\ -1 < Route[1] /\ \A other \in Sending : -1 < other => Route[1] <= other
  BY RouteNext DEF Sending, Directions
<1>5. UNCHANGED <<mask, ptlBuf, recvBuf>>
  BY DEF buffers
<1> QED
  BY <1>1, <1>2, <1>3, <1>4, <1>5, StartLocated

\* From one direction of the route to the next.
LEMMA NextDirection ==
  ASSUME NEW k \in DOMAIN Route
  PROVE  /\ k + 1 \in Nat \ {0} /\ Route[k] \in -1 .. 5
         /\ IF k + 1 \in DOMAIN Route
            THEN Route[k] < Route[k + 1] /\ \A other \in Sending : Route[k] < other => Route[k + 1] <= other
            ELSE \A other \in Sending : ~ (Route[k] < other)
<1>1. k \in Nat
  BY RouteShape
<1>2. k + 1 \in DOMAIN Route => Route[k] < Route[k + 1]
  BY <1>1, RouteShape
<1> QED
  BY <1>1, <1>2, RouteNext DEF Sending, Directions

LEMMA LocatedReceive ==
  ASSUME Ordered, Located, communicator = "CPU", NEW r \in Ranks, ReceiveParticles(r), UNCHANGED buffers
  PROVE  Located'
<1> DEFINE new == [i \in DOMAIN Message(r).data |->
                      Particle(Message(r).data[i].tag, Wrapped(r, Message(r).data[i].pos))]
           list == ptls[r] \o new
           index == Numbered(rtag[r], TagList(list))
           k == stage[r]
<1>1. /\ phase[r] = "particles" /\ Arrived(r) /\ phase[r] \in Kinds(communicator) /\ GoesOn(r)
      /\ Remaining(r) = Taken(r)
  BY KindsAre DEF ReceiveParticles, GoesOn, Remaining
<1>2. k \in DOMAIN Route /\ SentUpTo(r) = Route[k] /\ list \in Seq(Particles(Near(r, Route[k])))
  BY <1>1, OnTheCPU, ReceivedLocated
<1>3. UNCHANGED <<mask, ptlBuf, recvBuf>>
  BY DEF buffers
<1>4. IF BondTags = {}
      THEN StartStage(r, stage[r] + 1, list, index, <<>>, Taken(r))
      ELSE /\ ptls' = [ptls EXCEPT ![r] = list]
           /\ channel' = Put(Taken(r), r, NeighborRank(r, Route[stage[r]]),
                             [dir |-> Route[stage[r]], kind |-> "bonds", data |-> sendBonds[r]])
           /\ phase' = [phase EXCEPT ![r] = "bonds"]
           /\ UNCHANGED stage
  BY DEF ReceiveParticles
<1> HIDE DEF list, index
<1>5. CASE BondTags = {}
  <2>1. StartStage(r, k + 1, list, index, <<>>, Remaining(r))
    BY <1>1, <1>4, <1>5
  <2>2. /\ k + 1 \in Nat \ {0} /\ Route[k] \in -1 .. 5
        /\ IF k + 1 \in DOMAIN Route
           THEN Route[k] < Route[k + 1] /\ \A other \in Sending : Route[k] < other => Route[k + 1] <= other
           ELSE \A other \in Sending : ~ (Route[k] < other)
    BY <1>2, NextDirection
  <2> HIDE DEF k
  <2> QED
    BY <1>1, <1>2, <1>3, <2>1, <2>2, StartLocated
<1>6. CASE BondTags # {}
  <2> DEFINE message == [dir |-> Route[k], kind |-> "bonds", data |-> sendBonds[r]]
  <2>1. /\ ptls' = [ptls EXCEPT ![r] = list] /\ phase' = [phase EXCEPT ![r] = "bonds"] /\ stage' = stage
        /\ channel' = Put(Remaining(r), r, NeighborRank(r, Route[k]), message)
    BY <1>1, <1>4, <1>6
  <2>2. phase'[r] = "bonds" /\ ptls'[r] = list /\ stage'[r] = k /\ OnlyAt(r)
    BY <1>3, <2>1 DEF OnlyAt, Located, Ordered
  <2>3. LocatedAt(r)'
    <3>1. SentUpTo(r)' = Route[k]
      BY <2>2 DEF SentUpTo
    <3>2. /\ recvBuf'[r] = {} /\ mask'[r] = {}
          /\ ptlBuf'[r] = [plan \in Plans |-> ptlBuf'[r][plan]]
          /\ \A plan \in Plans : ptlBuf'[r][plan] \in Some(Particles(Heading(r, plan)))
      BY <1>1, <1>3, OnTheCPU
    <3> QED
      BY <1>2, <2>2, <3>1, <3>2 DEF LocatedAt
  <2>4. Fits(r, NeighborRank(r, Route[k]), message)
    BY DEF Fits
  <2>5. NeighborRank(r, Route[k]) \in Ranks
    BY <1>2, RouteNext, NeighborIs DEF Sending
  <2> HIDE DEF message
  <2> QED
    BY <1>1, <2>1, <2>2, <2>3, <2>4, <2>5, LocatedAfter
<1> QED
  BY <1>5, <1>6

LEMMA LocatedReceiveBonds ==
  ASSUME Ordered, Located, communicator = "CPU", NEW r \in Ranks, ReceiveBonds(r), UNCHANGED buffers
  PROVE  Located'
<1> DEFINE k == stage[r]
<1>1. /\ phase[r] = "bonds" /\ Arrived(r) /\ phase[r] \in Kinds(communicator) /\ GoesOn(r)
      /\ Remaining(r) = Taken(r)
  <2>1. phase[r] = "bonds" /\ Arrived(r)
    BY DEF ReceiveBonds
  <2>2. phase[r] \in Kinds(communicator)
    BY <2>1, KindsAre DEF Ordered
  <2> QED
    BY <2>1, <2>2 DEF GoesOn, Remaining
<1>2. k \in DOMAIN Route /\ SentUpTo(r) = Route[k]
  BY <1>1, OnTheCPU
<1>3. UNCHANGED <<mask, ptlBuf, recvBuf>>
  BY DEF buffers
<1>4. PICK bonds : StartStage(r, k + 1, ptls[r], rtag[r], bonds, Remaining(r))
  BY <1>1 DEF ReceiveBonds
<1>5. /\ k + 1 \in Nat \ {0} /\ Route[k] \in -1 .. 5
      /\ IF k + 1 \in DOMAIN Route
         THEN Route[k] < Route[k + 1] /\ \A other \in Sending : Route[k] < other => Route[k + 1] <= other
         ELSE \A other \in Sending : ~ (Route[k] < other)
  BY <1>2, NextDirection
<1>6. ptls[r] \in Seq(Particles(Near(r, Route[k])))
  BY <1>2 DEF Located, LocatedAt
<1> HIDE DEF k
<1> QED
  BY <1>1, <1>3, <1>4, <1>5, <1>6, StartLocated

-----------------------------------------------------------------------------
(* Finite sets, and lists with the gaps filled.                             *)

LEMMA FiniteImage ==
  ASSUME NEW S, IsFiniteSet(S), NEW f, f = [x \in S |-> f[x]]
  PROVE  IsFiniteSet({f[x] : x \in S})
<1> DEFINE T == {f[x] : x \in S}
<1>1. f \in Surjection(S, T)
  BY DEF Surjection
<1> HIDE DEF T
<1>2. IsFiniteSet(T)
  BY <1>1, FS_Surjection
<1> QED
  BY <1>2 DEF T

LEMMA PlansFinite == IsFiniteSet(Plans) /\ IsFiniteSet(Plans \cup {Local})
<1>1. IsFiniteSet(Directions)
  <2>1. 0 \in Int /\ 5 \in Int
    OBVIOUS
  <2>2. IsFiniteSet(0 .. 5)
    BY <2>1, FS_Interval
  <2> QED
    BY <2>2 DEF Directions
<1>2. IsFiniteSet(SUBSET Directions)
  BY <1>1, FS_SUBSET
<1>3. Plans \cup {Local} \in SUBSET (SUBSET Directions) /\ Plans \in SUBSET (SUBSET Directions)
  BY OneFaceOfAnAxis DEF Plans, Local
<1> QED
  BY <1>2, <1>3, FS_Subset

LEMMA SomeOf ==
  ASSUME NEW S, NEW A \in Some(S), NEW B \in Some(S)
  PROVE  A \cup B \in Some(S) /\ {} \in Some(S)
<1>1. IsFiniteSet(A \cup B)
  BY FS_Union DEF Some
<1>2. IsFiniteSet({})
  BY FS_EmptySet
<1> QED
  BY <1>1, <1>2 DEF Some

\* gpu_migrate_fill_particle_arrays(): the list holds what stays and what is new.
LEMMA FilledIn ==
  ASSUME NEW E, NEW F, NEW old \in Seq(E), NEW gaps \in SUBSET (DOMAIN old), NEW new \in Some(F),
         \A i \in DOMAIN old \ gaps : old[i] \in F, NEW list \in FilledLists(old, gaps, new)
  PROVE  list \in Seq(F)
<1> DEFINE n == Len(old) - Cardinality(gaps) + Cardinality(new)
           kept == { i \in DOMAIN old \ gaps : i <= n }
           rest == { old[i] : i \in { i \in DOMAIN old \ gaps : i > n } }
<1>1. PICK fill \in Bijection((1 .. n) \ kept, new \cup rest) :
          list = [i \in 1 .. n |-> IF i \in kept THEN old[i] ELSE fill[i]]
  BY DEF FilledLists
<1>2. n \in Nat
  <2>1. Len(old) \in Nat /\ DOMAIN old = 1 .. Len(old)
    BY LenProperties
  <2>2. Cardinality(gaps) \in 0 .. Len(old)
    BY <2>1, PositionsFinite
  <2>3. Cardinality(new) \in Nat
    BY FS_CardinalityType DEF Some
  <2> QED
    BY <2>1, <2>2, <2>3
<1>3. rest \subseteq F /\ (\A i \in kept : old[i] \in F) /\ new \subseteq F
  BY DEF Some
<1> HIDE DEF n, kept, rest
<1>4. fill \in [(1 .. n) \ kept -> new \cup rest]
  BY <1>1 DEF Bijection, Injection, Surjection
<1>5. \A i \in 1 .. n : (IF i \in kept THEN old[i] ELSE fill[i]) \in F
  BY <1>3, <1>4
<1> QED
  BY <1>1, <1>2, <1>5, SeqDef

-----------------------------------------------------------------------------
(* The steps of the GPU communicator.                                       *)

\* communicateStepTwo(): in the buffers of the neighbour, what is sent heads
\* for the domains it did, and nothing else is put there.
LEMMA SentFits ==
  ASSUME NEW r \in Ranks, NEW dir \in Sending, NEW buf,
         \A plan \in Plans : buf[plan] \in Some(Particles(Heading(r, plan)))
  PROVE  \A to \in Plans \cup {Local} :
             Sent(dir, buf)[to] \in Some(Particles(Heading(NeighborRank(r, dir), to)))
<1> DEFINE there == NeighborRank(r, dir)
<1>1. SUFFICES ASSUME NEW to \in Plans \cup {Local}
               PROVE  Sent(dir, buf)[to] \in Some(Particles(Heading(there, to)))
  OBVIOUS
<1> DEFINE from == { plan \in Plans : to \in Destination(dir, plan) }
           f == [plan \in from |-> buf[plan]]
           all == {f[plan] : plan \in from}
<1>2. Sent(dir, buf)[to] = UNION all
  <2>1. dir \in Directions
    BY DEF Sending
  <2>2. RoutingTable[dir][to] = from
    BY <2>1 DEF RoutingTable
  <2>3. all = {buf[plan] : plan \in from}
    OBVIOUS
  <2> QED
    BY <2>2, <2>3 DEF Sent
<1>3. ASSUME NEW plan \in from
      PROVE  dir \in plan /\ to = plan \ {dir} /\ plan \in Plans
  <2>1. plan \in AllPlans /\ dir \in Directions /\ plan \in Plans /\ to \in Destination(dir, plan)
    BY DEF Plans, Sending
  <2> QED
    BY <2>1, ParticleRoute
<1>4. ASSUME NEW plan \in from
      PROVE  f[plan] \in Some(Particles(Heading(there, to)))
  <2>1. Heading(r, plan) \subseteq Heading(there, to)
    BY <1>3, SentHeading
  <2>2. buf[plan] \in Some(Particles(Heading(r, plan)))
    BY <1>3
  <2>3. Particles(Heading(r, plan)) \subseteq Particles(Heading(there, to))
    BY <2>1 DEF Particles
  <2> QED
    BY <2>2, <2>3 DEF Some
<1>5. IsFiniteSet(from)
  BY PlansFinite, FS_Subset
<1> HIDE DEF from
<1>6. IsFiniteSet(all)
  BY <1>5, FiniteImage
<1>7. \A T \in all : T \in Some(Particles(Heading(there, to)))
  BY <1>4
<1> HIDE DEF all
<1>8. IsFiniteSet(UNION all)
  BY <1>6, <1>7, FS_UNION DEF Some
<1>9. UNION all \in Some(Particles(Heading(there, to)))
  BY <1>7, <1>8 DEF Some
<1> QED
  BY <1>2, <1>9

LEMMA OnTheGPU ==
  ASSUME Ordered, Located, NEW r \in Ranks, phase[r] \in {"ptlBuffers", "bondBuffers"}, Arrived(r)
  PROVE  /\ phase[r] \in Kinds(communicator) /\ GoesOn(r) /\ Remaining(r) = Taken(r)
         /\ stage[r] \in DOMAIN Route /\ Route[stage[r]] \in Sending
         /\ phase[r] = "ptlBuffers" => \A plan \in Plans \cup {Local} :
                Message(r).data[plan] \in Some(Particles(Heading(r, plan)))
<1>1. phase[r] \in Kinds(communicator)
  BY DEF Ordered
<1>2. stage[r] \in DOMAIN Route /\ Route[stage[r]] \in Sending
  BY <1>1, Waiting
<1>3. /\ Source(r) \in Ranks /\ 1 \in DOMAIN channel[<<Source(r), r>>]
      /\ Message(r) = channel[<<Source(r), r>>][1] /\ Message(r).kind = phase[r]
  BY <1>1, FirstMessage
<1>4. Fits(Source(r), r, channel[<<Source(r), r>>][1])
  BY <1>3 DEF Located
<1>5. phase[r] = "ptlBuffers" => \A plan \in Plans \cup {Local} :
                Message(r).data[plan] \in Some(Particles(Heading(r, plan)))
  BY <1>3, <1>4 DEF Fits
<1> QED
  BY <1>1, <1>2, <1>5 DEF GoesOn, Remaining

LEMMA LocatedBeginGPU ==
  ASSUME Ordered, Located, communicator = "GPU", NEW r \in Ranks, BeginMigrationGPU(r)
  PROVE  Located'
<1> DEFINE buf == [ plan \in Plans |->
                      { ptls[r][i] : i \in {i \in Leaving(r) : PlanOf(r, ptls[r][i].pos) = plan} } ]
           dir == Route[1]
           message == [dir |-> dir, kind |-> "ptlBuffers", data |-> Sent(dir, buf)]
<1>1. /\ phase[r] = "moved" /\ GoesOn(r) /\ SentUpTo(r) = -1 /\ Remaining(r) = channel
      /\ LocatedAt(r)
  BY DEF BeginMigrationGPU, GoesOn, SentUpTo, Remaining, Located
<1>2. ptls[r] \in Seq(Particles(Near(r, -1))) /\ recvBuf[r] = {}
  BY <1>1 DEF LocatedAt
<1>3. /\ ptls = [q \in Ranks |-> ptls[q]] /\ mask = [q \in Ranks |-> mask[q]]
      /\ ptlBuf = [q \in Ranks |-> ptlBuf[q]] /\ recvBuf = [q \in Ranks |-> recvBuf[q]]
      /\ phase = [q \in Ranks |-> phase[q]] /\ stage = [q \in Ranks |-> stage[q]]
  BY DEF Located, Ordered
<1>4. mask' = [mask EXCEPT ![r] = Leaving(r)]
  BY DEF BeginMigrationGPU
<1>5. mask'[r] = Leaving(r)
  BY <1>3, <1>4
<1>6. ptlBuf' = [ptlBuf EXCEPT ![r] = buf]
  <2>1. ptlBuf' = [ptlBuf EXCEPT ![r] = [ plan \in Plans |->
                  { ptls[r][i] : i \in {i \in mask'[r] : PlanOf(r, ptls[r][i].pos) = plan} } ]]
    BY DEF BeginMigrationGPU
  <2> QED
    BY <1>5, <2>1
<1>7. SendBuffers(r, 1, "ptlBuffers", ptlBuf'[r], channel) /\ UNCHANGED <<ptls, recvBuf>>
  BY DEF BeginMigrationGPU
<1>8. ptlBuf'[r] = buf
  BY <1>3, <1>6
<1> HIDE DEF buf
<1>9. /\ phase' = [phase EXCEPT ![r] = "ptlBuffers"] /\ stage' = [stage EXCEPT ![r] = 1]
      /\ channel' = Put(Remaining(r), r, NeighborRank(r, dir), message)
  BY <1>1, <1>7, <1>8 DEF SendBuffers
<1>10. OnlyAt(r) /\ phase'[r] = "ptlBuffers"
  BY <1>3, <1>4, <1>5, <1>6, <1>7, <1>8, <1>9 DEF OnlyAt
<1>11. ASSUME NEW plan \in Plans
       PROVE  buf[plan] \in Some(Particles(Heading(r, plan)))
  <2> DEFINE S == {i \in Leaving(r) : PlanOf(r, ptls[r][i].pos) = plan}
             f == [i \in S |-> ptls[r][i]]
  <2>1. S \in SUBSET (DOMAIN ptls[r])
    BY DEF Leaving
  <2>2. IsFiniteSet(S)
    BY <1>2, <2>1, LenProperties, PositionsFinite
  <2>3. ASSUME NEW i \in S
        PROVE  f[i] \in Particles(Heading(r, plan))
    <3>1. ptls[r][i] \in Particles(Near(r, -1)) /\ PlanOf(r, ptls[r][i].pos) = plan
      BY <1>2, <2>1, ElementOfSeq, LenProperties
    <3>2. /\ ptls[r][i].tag \in Tags /\ ptls[r][i].pos \in Near(r, -1)
          /\ ptls[r][i] = Particle(ptls[r][i].tag, ptls[r][i].pos)
      BY <3>1, ParticleIs
    <3>3. ptls[r][i].pos \in Heading(r, plan)
      BY <3>1, <3>2, PlanLeads
    <3> QED
      BY <3>2, <3>3, IsParticle
  <2>4. buf[plan] = {f[i] : i \in S}
    BY DEF buf
  <2> HIDE DEF S
  <2>5. IsFiniteSet({f[i] : i \in S})
    BY <2>2, FiniteImage
  <2>6. {f[i] : i \in S} \subseteq Particles(Heading(r, plan))
    BY <2>3
  <2> QED
    BY <2>4, <2>5, <2>6 DEF Some
<1>12. LocatedAt(r)'
  <2>1. SentUpTo(r)' = -1 /\ Leaving(r)' = Leaving(r)
    BY <1>7, <1>10 DEF SentUpTo, Leaving
  <2>2. recvBuf'[r] \in Some(Particles(Heading(r, Local)))
    BY <1>2, <1>7, FS_EmptySet DEF Some
  <2>3. ptlBuf'[r] = [plan \in Plans |-> ptlBuf'[r][plan]]
    BY <1>8 DEF buf
  <2>4. ptls'[r] \in Seq(Particles(Near(r, -1)))
    BY <1>2, <1>7
  <2> QED
    BY <1>5, <1>8, <1>10, <1>11, <2>1, <2>2, <2>3, <2>4 DEF LocatedAt
<1>13. dir \in Sending /\ NeighborRank(r, dir) \in Ranks
  BY RouteNext, NeighborIs DEF Sending
<1>14. Fits(r, NeighborRank(r, dir), message)
  <2>1. \A to \in Plans \cup {Local} :
             Sent(dir, buf)[to] \in Some(Particles(Heading(NeighborRank(r, dir), to)))
    BY <1>11, <1>13, SentFits
  <2> QED
    BY <2>1 DEF Fits
<1> HIDE DEF message
<1> QED
  BY <1>1, <1>9, <1>10, <1>12, <1>13, <1>14, LocatedAfter

\* A rank goes on with what it has received, and sends in the next direction.
LEMMA LocatedReceiveGPU ==
  ASSUME Ordered, Located, communicator = "GPU", NEW r \in Ranks, ReceiveParticlesGPU(r)
  PROVE  Located'
<1> DEFINE buf == Stored(ptlBuf[r], Message(r).data)
           dir == Route[stage[r] + 1]
           message == [dir |-> dir, kind |-> "ptlBuffers", data |-> Sent(dir, buf)]
<1>1. /\ phase[r] = "ptlBuffers" /\ Arrived(r) /\ stage[r] < Len(Route)
      /\ ptlBuf' = [ptlBuf EXCEPT ![r] = buf]
      /\ recvBuf' = [recvBuf EXCEPT ![r] = recvBuf[r] \cup Message(r).data[Local]]
      /\ SendBuffers(r, stage[r] + 1, "ptlBuffers", ptlBuf'[r], Taken(r))
      /\ UNCHANGED <<ptls, mask>>
  BY DEF ReceiveParticlesGPU
<1>2. /\ phase[r] \in Kinds(communicator) /\ GoesOn(r) /\ Remaining(r) = Taken(r)
      /\ stage[r] \in DOMAIN Route
      /\ \A plan \in Plans \cup {Local} : Message(r).data[plan] \in Some(Particles(Heading(r, plan)))
  BY <1>1, OnTheGPU
<1>3. /\ ptls = [q \in Ranks |-> ptls[q]] /\ mask = [q \in Ranks |-> mask[q]]
      /\ ptlBuf = [q \in Ranks |-> ptlBuf[q]] /\ recvBuf = [q \in Ranks |-> recvBuf[q]]
      /\ phase = [q \in Ranks |-> phase[q]] /\ stage = [q \in Ranks |-> stage[q]]
      /\ LocatedAt(r)
  BY DEF Located, Ordered
<1>4. stage[r] + 1 \in DOMAIN Route
  BY <1>1, <1>2, RouteShape
<1>5. ptlBuf'[r] = buf /\ recvBuf'[r] = recvBuf[r] \cup Message(r).data[Local]
  BY <1>1, <1>3
<1>6. /\ phase' = [phase EXCEPT ![r] = "ptlBuffers"] /\ stage' = [stage EXCEPT ![r] = stage[r] + 1]
      /\ channel' = Put(Remaining(r), r, NeighborRank(r, dir), message)
  BY <1>1, <1>2, <1>5 DEF SendBuffers
<1>7. OnlyAt(r) /\ phase'[r] = "ptlBuffers"
  BY <1>1, <1>3, <1>5, <1>6 DEF OnlyAt
<1>8. ASSUME NEW plan \in Plans
      PROVE  buf[plan] \in Some(Particles(Heading(r, plan)))
  <2>1. ptlBuf[r][plan] \in Some(Particles(Heading(r, plan)))
    BY <1>3 DEF LocatedAt
  <2>2. Message(r).data[plan] \in Some(Particles(Heading(r, plan)))
    BY <1>2
  <2> QED
    BY <2>1, <2>2, SomeOf DEF Stored
<1>9. recvBuf'[r] \in Some(Particles(Heading(r, Local)))
  <2>1. recvBuf[r] \in Some(Particles(Heading(r, Local)))
    BY <1>1, <1>3 DEF LocatedAt
  <2>2. Message(r).data[Local] \in Some(Particles(Heading(r, Local)))
    BY <1>2
  <2> QED
    BY <1>5, <2>1, <2>2, SomeOf
<1>10. LocatedAt(r)'
  <2>1. SentUpTo(r)' = -1 /\ SentUpTo(r) = -1 /\ Leaving(r)' = Leaving(r)
    BY <1>1, <1>7 DEF SentUpTo, Leaving
  <2>2. ptlBuf'[r] = [plan \in Plans |-> ptlBuf'[r][plan]]
    BY <1>5 DEF Stored
  <2>3. ptls'[r] \in Seq(Particles(Near(r, -1))) /\ mask'[r] = Leaving(r)
    BY <1>1, <1>3, <2>1 DEF LocatedAt
  <2> QED
    BY <1>5, <1>7, <1>8, <1>9, <2>1, <2>2, <2>3 DEF LocatedAt
<1>11. dir \in Sending /\ NeighborRank(r, dir) \in Ranks
  BY <1>4, RouteNext, NeighborIs DEF Sending
<1>12. Fits(r, NeighborRank(r, dir), message)
  <2> HIDE DEF buf
  <2>1. \A to \in Plans \cup {Local} :
             Sent(dir, buf)[to] \in Some(Particles(Heading(NeighborRank(r, dir), to)))
    BY <1>8, <1>11, SentFits
  <2> QED
    BY <2>1 DEF Fits
<1> HIDE DEF message
<1> QED
  BY <1>2, <1>6, <1>7, <1>10, <1>11, <1>12, LocatedAfter

\* At the end of the route, what was not sent on is in the domain.
LEMMA FilledHome ==
  ASSUME NEW r \in Ranks, NEW old \in Seq(Particles(Near(r, -1))),
         NEW received \in Some(Particles(Heading(r, Local))),
         NEW list \in FilledLists(old, { i \in DOMAIN old : PlanOf(r, old[i].pos) # {} },
                                  { Particle(p.tag, Wrapped(r, p.pos)) : p \in received })
  PROVE  list \in Seq(Particles(Near(r, 6)))
<1> DEFINE gaps == { i \in DOMAIN old : PlanOf(r, old[i].pos) # {} }
           f == [p \in received |-> Particle(p.tag, Wrapped(r, p.pos))]
           new == {f[p] : p \in received}
<1>1. new = { Particle(p.tag, Wrapped(r, p.pos)) : p \in received }
  OBVIOUS
<1>2. ASSUME NEW i \in DOMAIN old \ gaps PROVE old[i] \in Particles(Near(r, 6))
  <2>1. old[i] \in Particles(Near(r, -1)) /\ PlanOf(r, old[i].pos) = {}
    BY ElementOfSeq, LenProperties
  <2>2. old[i].tag \in Tags /\ old[i].pos \in Near(r, -1) /\ old[i] = Particle(old[i].tag, old[i].pos)
    BY <2>1, ParticleIs
  <2>3. old[i].pos \in Near(r, 6)
    BY <2>1, <2>2, NoPlanAtHome
  <2> QED
    BY <2>2, <2>3, IsParticle
<1>3. ASSUME NEW p \in received PROVE f[p] \in Particles(Near(r, 6))
  <2>1. p.tag \in Tags /\ p.pos \in Heading(r, {})
    BY ParticleIs DEF Some, Local
  <2>2. Wrapped(r, p.pos) \in Near(r, 6)
    BY <2>1, ArrivedHome
  <2> QED
    BY <2>1, <2>2, IsParticle
<1>4. new \in Some(Particles(Near(r, 6)))
  <2>1. IsFiniteSet(received)
    BY DEF Some
  <2>2. IsFiniteSet(new)
    BY <2>1, FiniteImage
  <2>3. new \subseteq Particles(Near(r, 6))
    BY <1>3
  <2> HIDE DEF new
  <2> QED
    BY <2>2, <2>3 DEF Some
<1>5. gaps \in SUBSET (DOMAIN old) /\ list \in FilledLists(old, gaps, new)
  BY <1>1
<1> HIDE DEF gaps, new
<1> QED
  BY <1>2, <1>4, <1>5, FilledIn

LEMMA LocatedCompleteGPU ==
  ASSUME Ordered, Located, communicator = "GPU", NEW r \in Ranks, CompleteParticlesGPU(r)
  PROVE  Located'
<1>1. /\ phase[r] = "ptlBuffers" /\ Arrived(r)
      /\ FillParticles(r, recvBuf[r] \cup Message(r).data[Local])
      /\ mask' = [mask EXCEPT ![r] = {}]
      /\ ptlBuf' = [ptlBuf EXCEPT ![r] = NoElements]
      /\ recvBuf' = [recvBuf EXCEPT ![r] = {}]
      /\ IF BondTags = {} THEN Done(r)
         ELSE SendBuffers(r, 1, "bondBuffers", bondBuf[r], Taken(r))
  BY DEF CompleteParticlesGPU
<1>2. /\ phase[r] \in Kinds(communicator) /\ GoesOn(r) /\ Remaining(r) = Taken(r)
      /\ \A plan \in Plans \cup {Local} : Message(r).data[plan] \in Some(Particles(Heading(r, plan)))
  BY <1>1, OnTheGPU
<1>3. /\ ptls = [q \in Ranks |-> ptls[q]] /\ mask = [q \in Ranks |-> mask[q]]
      /\ ptlBuf = [q \in Ranks |-> ptlBuf[q]] /\ recvBuf = [q \in Ranks |-> recvBuf[q]]
      /\ phase = [q \in Ranks |-> phase[q]] /\ stage = [q \in Ranks |-> stage[q]]
      /\ LocatedAt(r)
  BY DEF Located, Ordered
<1>4. /\ ptls[r] \in Seq(Particles(Near(r, -1))) /\ mask[r] = Leaving(r)
      /\ recvBuf[r] \in Some(Particles(Heading(r, Local)))
  BY <1>1, <1>3 DEF LocatedAt, SentUpTo
<1>5. PICK list \in FilledLists(ptls[r], mask[r],
                        { Particle(p.tag, Wrapped(r, p.pos)) : p \in recvBuf[r] \cup Message(r).data[Local] }) :
          ptls' = [ptls EXCEPT ![r] = list]
  BY <1>1 DEF FillParticles
<1>6. list \in Seq(Particles(Near(r, 6)))
  <2>1. Message(r).data[Local] \in Some(Particles(Heading(r, Local)))
    BY <1>2
  <2>2. recvBuf[r] \cup Message(r).data[Local] \in Some(Particles(Heading(r, Local)))
    BY <1>4, <2>1, SomeOf
  <2>3. mask[r] = { i \in DOMAIN ptls[r] : PlanOf(r, ptls[r][i].pos) # {} }
    BY <1>4 DEF Leaving
  <2> QED
    BY <1>4, <1>5, <2>2, <2>3, FilledHome
<1>7. /\ ptls'[r] = list /\ mask'[r] = {} /\ ptlBuf'[r] = NoElements /\ recvBuf'[r] = {}
  BY <1>1, <1>3, <1>5
<1>8. \A plan \in Plans : NoElements[plan] \in Some(Particles(Heading(r, plan)))
  BY FS_EmptySet DEF NoElements, Some
<1>9. ASSUME phase'[r] \in {"idle", "bondBuffers"} PROVE LocatedAt(r)'
  <2>1. SentUpTo(r)' = 6
    BY <1>9 DEF SentUpTo
  <2>2. ptlBuf'[r] = [plan \in Plans |-> ptlBuf'[r][plan]]
    BY <1>7 DEF NoElements
  <2> QED
    BY <1>6, <1>7, <1>8, <1>9, <2>1, <2>2 DEF LocatedAt
<1>10. CASE BondTags = {}
  <2>1. /\ phase' = [phase EXCEPT ![r] = "idle"] /\ stage' = [stage EXCEPT ![r] = 0]
        /\ channel' = Remaining(r)
    BY <1>1, <1>2, <1>10 DEF Done
  <2>2. OnlyAt(r) /\ phase'[r] = "idle"
    BY <1>1, <1>3, <1>5, <1>7, <2>1 DEF OnlyAt
  <2> QED
    BY <1>2, <1>9, <2>1, <2>2, LocatedAfter
<1>11. CASE BondTags # {}
  <2> DEFINE message == [dir |-> Route[1], kind |-> "bondBuffers", data |-> Sent(Route[1], bondBuf[r])]
  <2>1. /\ phase' = [phase EXCEPT ![r] = "bondBuffers"] /\ stage' = [stage EXCEPT ![r] = 1]
        /\ channel' = Put(Remaining(r), r, NeighborRank(r, Route[1]), message)
    BY <1>1, <1>2, <1>11 DEF SendBuffers
  <2>2. OnlyAt(r) /\ phase'[r] = "bondBuffers"
    BY <1>1, <1>3, <1>5, <1>7, <2>1 DEF OnlyAt
  <2>3. Fits(r, NeighborRank(r, Route[1]), message)
    BY DEF Fits
  <2>4. NeighborRank(r, Route[1]) \in Ranks
    BY RouteNext, NeighborIs DEF Sending
  <2> HIDE DEF message
  <2> QED
    BY <1>2, <1>9, <2>1, <2>2, <2>3, <2>4, LocatedAfter
<1> QED
  BY <1>10, <1>11

\* The bonds do not touch the particles.
LEMMA LocatedBondsGPU ==
  ASSUME Ordered, Located, communicator = "GPU", NEW r \in Ranks,
         ReceiveBondsGPU(r) \/ CompleteBondsGPU(r)
  PROVE  Located'
<1>1. /\ phase[r] = "bondBuffers" /\ Arrived(r) /\ UNCHANGED <<ptls, mask, ptlBuf>>
      /\ recvBuf' = [recvBuf EXCEPT ![r] = recvBuf'[r]]
      /\ CompleteBondsGPU(r) => recvBuf'[r] = {}
  BY DEF ReceiveBondsGPU, CompleteBondsGPU, Located
<1>2. /\ phase[r] \in Kinds(communicator) /\ GoesOn(r) /\ Remaining(r) = Taken(r)
      /\ stage[r] \in DOMAIN Route
  BY <1>1, OnTheGPU
<1>3. /\ ptls = [q \in Ranks |-> ptls[q]] /\ mask = [q \in Ranks |-> mask[q]]
      /\ ptlBuf = [q \in Ranks |-> ptlBuf[q]] /\ recvBuf = [q \in Ranks |-> recvBuf[q]]
      /\ phase = [q \in Ranks |-> phase[q]] /\ stage = [q \in Ranks |-> stage[q]]
      /\ LocatedAt(r)
  BY DEF Located, Ordered
<1>4. CASE ReceiveBondsGPU(r)
  <2> DEFINE k == stage[r] + 1
             message == [dir |-> Route[k], kind |-> "bondBuffers", data |-> Sent(Route[k], bondBuf'[r])]
  <2>1. /\ stage[r] < Len(Route)
        /\ phase' = [phase EXCEPT ![r] = "bondBuffers"] /\ stage' = [stage EXCEPT ![r] = k]
        /\ channel' = Put(Remaining(r), r, NeighborRank(r, Route[k]), message)
    BY <1>2, <1>4 DEF ReceiveBondsGPU, SendBuffers
  <2>2. OnlyAt(r) /\ phase'[r] = "bondBuffers"
    BY <1>1, <1>3, <2>1 DEF OnlyAt
  <2>3. LocatedAt(r)'
    <3>1. SentUpTo(r)' = 6 /\ SentUpTo(r) = 6
      BY <1>1, <2>2 DEF SentUpTo
    <3> QED
      BY <1>1, <1>3, <2>2, <3>1 DEF LocatedAt
  <2>4. Fits(r, NeighborRank(r, Route[k]), message)
    BY DEF Fits
  <2>5. NeighborRank(r, Route[k]) \in Ranks
    <3>1. k \in DOMAIN Route
      BY <1>2, <2>1, RouteShape
    <3> QED
      BY <3>1, RouteNext, NeighborIs DEF Sending
  <2> HIDE DEF message, k
  <2> QED
    BY <1>2, <2>1, <2>2, <2>3, <2>4, <2>5, LocatedAfter
<1>5. CASE CompleteBondsGPU(r)
  <2>1. /\ phase' = [phase EXCEPT ![r] = "idle"] /\ stage' = [stage EXCEPT ![r] = 0]
        /\ channel' = Remaining(r)
    BY <1>2, <1>5 DEF CompleteBondsGPU, Done
  <2>2. OnlyAt(r) /\ phase'[r] = "idle"
    BY <1>1, <1>3, <2>1 DEF OnlyAt
  <2>3. LocatedAt(r)'
    <3>1. SentUpTo(r)' = 6 /\ SentUpTo(r) = 6
      BY <1>1, <2>2 DEF SentUpTo
    <3> QED
      BY <1>1, <1>3, <1>5, <2>2, <3>1 DEF LocatedAt
  <2> QED
    BY <1>2, <2>1, <2>2, <2>3, LocatedAfter
<1> QED
  BY <1>4, <1>5

-----------------------------------------------------------------------------
(* The particles are located in every reachable state.                      *)

LEMMA LocatedInit ==
  ASSUME Init
  PROVE  Located
<1>1. PICK home \in [Tags -> Ranks] :
          ptls = [ r \in Ranks |->
                     [ i \in DOMAIN SetToSeq({ tag \in Tags : home[tag] = r }) |->
                         Particle(SetToSeq({ tag \in Tags : home[tag] = r })[i], GridPos(r)) ] ]
  BY DEF Init
<1>2. /\ phase = [r \in Ranks |-> "idle"] /\ channel = [pair \in Ranks \X Ranks |-> <<>>]
      /\ mask = [r \in Ranks |-> {}] /\ ptlBuf = [r \in Ranks |-> NoElements]
      /\ recvBuf = [r \in Ranks |-> {}]
  BY DEF Init
<1>3. ASSUME NEW r \in Ranks PROVE LocatedAt(r)
  <2> DEFINE here == { tag \in Tags : home[tag] = r }
             tags == SetToSeq(here)
  <2>1. IsFiniteSet(here)
    BY MigrationAssumption, FS_Subset
  <2>2. tags \in Seq(here) /\ DOMAIN tags = 1 .. Len(tags) /\ Len(tags) \in Nat
    BY <2>1, ListOfSet, LenProperties
  <2>3. ptls[r] = [i \in DOMAIN tags |-> Particle(tags[i], GridPos(r))]
    BY <1>1
  <2>4. ASSUME NEW i \in DOMAIN tags PROVE Particle(tags[i], GridPos(r)) \in Particles(Near(r, 6))
    <3>1. tags[i] \in Tags /\ GridPos(r) \in Near(r, 6)
      BY <2>2, HomeIs, ElementOfSeq
    <3> QED
      BY <3>1, IsParticle
  <2> HIDE DEF tags
  <2>5. ptls[r] \in Seq(Particles(Near(r, 6)))
    BY <2>2, <2>3, <2>4, SeqDef
  <2>6. SentUpTo(r) = 6
    BY <1>2 DEF SentUpTo
  <2>7. \A plan \in Plans : NoElements[plan] \in Some(Particles(Heading(r, plan)))
    BY FS_EmptySet DEF NoElements, Some
  <2>8. ptlBuf[r] = NoElements /\ NoElements = [plan \in Plans |-> NoElements[plan]]
        /\ mask[r] = {} /\ recvBuf[r] = {} /\ phase[r] = "idle"
    BY <1>2 DEF NoElements
  <2> QED
    BY <2>5, <2>6, <2>7, <2>8 DEF LocatedAt
<1>4. \A from, to \in Ranks : DOMAIN channel[<<from, to>>] = {}
  BY <1>2
<1> QED
  BY <1>1, <1>2, <1>3, <1>4 DEF Located

\* A particle leaves its domain by one domain along each axis at most.
LEMMA MovesNear ==
  ASSUME NEW r \in Ranks, NEW pos \in Near(r, 6), NEW step \in Displacements
  PROVE  [axis \in Axes |-> pos[axis] + step[axis]] \in Near(r, -1)
<1>1. ASSUME NEW axis \in Axes
      PROVE  /\ pos[axis] + step[axis] \in Int
             /\ (pos[axis] + step[axis]) - GridPos(r)[axis] \in Offsets(axis, -1)
  <2>1. pos[axis] = GridPos(r)[axis] /\ GridPos(r)[axis] \in Int
    BY HomeIs, CellIs
  <2>2. step[axis] \in -1 .. 1 /\ (Size[axis] = 1 => step[axis] = 0) /\ axis \in 1 .. 3
    BY DEF Displacements, Axes
  <2>3. Offsets(axis, -1) = IF Size[axis] = 1 THEN {0} ELSE {-1, 0, 1}
    BY <2>2 DEF Offsets
  <2>4. (pos[axis] + step[axis]) - GridPos(r)[axis] = step[axis]
    BY <2>1, <2>2
  <2> QED
    BY <2>1, <2>2, <2>3, <2>4
<1> QED
  BY <1>1 DEF Near

LEMMA LocatedIntegrate ==
  ASSUME Ordered, Located, Integrate
  PROVE  Located'
<1>1. PICK m \in Motions : ptls' = [r \in Ranks |-> Moved(ptls[r], m.step)]
  BY DEF Integrate
<1>2. /\ \A r \in Ranks : phase[r] = "idle" /\ phase'[r] = "moved"
      /\ channel' = channel /\ mask' = mask /\ ptlBuf' = ptlBuf /\ recvBuf' = recvBuf
  BY DEF Integrate, buffers
<1>3. ASSUME NEW r \in Ranks PROVE LocatedAt(r)'
  <2>1. LocatedAt(r) /\ SentUpTo(r) = 6 /\ SentUpTo(r)' = -1
    BY <1>2 DEF Located, SentUpTo
  <2>2. ptls[r] \in Seq(Particles(Near(r, 6)))
    BY <2>1 DEF LocatedAt
  <2>3. Len(ptls[r]) \in Nat /\ DOMAIN ptls[r] = 1 .. Len(ptls[r])
        /\ \A i \in DOMAIN ptls[r] : ptls[r][i] \in Particles(Near(r, 6))
    BY <2>2, LenProperties, ElementOfSeq
  <2> DEFINE list == ptls[r]
             moved(i) == Particle(list[i].tag,
                           [axis \in Axes |-> list[i].pos[axis] + m.step[list[i].tag][axis]])
  <2>4. ASSUME NEW i \in DOMAIN list PROVE moved(i) \in Particles(Near(r, -1))
    <3>1. list[i].tag \in Tags /\ list[i].pos \in Near(r, 6)
      BY <2>3, ParticleIs
    <3>2. m.step[list[i].tag] \in Displacements
      BY <3>1, MotionAssumption
    <3>3. [axis \in Axes |-> list[i].pos[axis] + m.step[list[i].tag][axis]] \in Near(r, -1)
      BY <3>1, <3>2, MovesNear
    <3> QED
      BY <3>1, <3>3, IsParticle
  <2>5. ptls'[r] = [i \in 1 .. Len(list) |-> moved(i)]
    BY <1>1, <2>3 DEF Moved
  <2>6. ptls'[r] \in Seq(Particles(Near(r, -1)))
    <3> HIDE DEF moved
    <3> QED
      BY <2>3, <2>4, <2>5, SeqDef
  <2>7. mask[r] = {} /\ recvBuf[r] = {}
    BY <1>2, <2>1 DEF LocatedAt
  <2> QED
    BY <1>2, <2>1, <2>6, <2>7 DEF LocatedAt
<1>4. ASSUME NEW from \in Ranks, NEW to \in Ranks, NEW i \in DOMAIN channel[<<from, to>>]
      PROVE  Fits(from, to, channel[<<from, to>>][i])
  BY DEF Located
<1> QED
  BY <1>1, <1>2, <1>3, <1>4 DEF Located

LEMMA LocatedNext ==
  ASSUME Ordered, Located, [Next]_vars
  PROVE  Located'
<1>1. CASE Integrate
  BY <1>1, LocatedIntegrate
<1>2. ASSUME NEW r \in Ranks, RankStep(r) PROVE Located'
  <2>1. CASE communicator = "CPU" /\ CPUStep(r) /\ UNCHANGED buffers
    BY <2>1, LocatedBegin, LocatedReceive, LocatedReceiveBonds DEF CPUStep
  <2>2. CASE communicator = "GPU" /\ GPUStep(r)
    BY <2>2, LocatedBeginGPU, LocatedReceiveGPU, LocatedCompleteGPU, LocatedBondsGPU DEF GPUStep
  <2> QED
    BY <1>2, <2>1, <2>2 DEF RankStep
<1>3. CASE UNCHANGED vars
  <2>1. UNCHANGED <<phase, stage, ptls, channel, mask, ptlBuf, recvBuf>>
    BY <1>3 DEF vars, migrationVars, buffers
  <2>2. \A r \in Ranks : LocatedAt(r)'
    BY <2>1 DEF Located, LocatedAt, SentUpTo, Leaving
  <2> QED
    BY <2>1, <2>2 DEF Located
<1> QED
  BY <1>1, <1>2, <1>3 DEF Next

\* Communicator.cc, the loop over the directions and its wrap into the box, and
\* CommunicatorGPU.cc, the routing by plans: on every rank the particles are in
\* the domain along the axes that are done and at most next to it along the
\* others; what is in a buffer or on its way is where its plan leads.
THEOREM AlwaysLocated == Spec => []Located
<1>1. Init => Located
  BY LocatedInit
<1>2. Ordered /\ Located /\ [Next]_vars => Located'
  BY LocatedNext
<1> QED
  BY <1>1, <1>2, AlwaysOrdered, PTL DEF Spec

\* Communicator.h 348, what migrateParticles() promises: when all ranks are
\* done, every particle is inside the domain of its rank, through edges, corners
\* and periodic boundaries, on any grid and with either communicator.
THEOREM AlwaysHome == Spec => []EveryParticleHome
<1>1. Located => EveryParticleHome
  <2>1. SUFFICES ASSUME Located, AllIdle, NEW r \in Ranks, NEW i \in DOMAIN ptls[r]
                 PROVE  ptls[r][i].pos = GridPos(r)
    BY DEF EveryParticleHome
  <2>2. SentUpTo(r) = 6 /\ LocatedAt(r)
    BY <2>1 DEF AllIdle, SentUpTo, Located
  <2>3. ptls[r] \in Seq(Particles(Near(r, 6)))
    BY <2>2 DEF LocatedAt
  <2>4. ptls[r][i] \in Particles(Near(r, 6))
    BY <2>3, ElementOfSeq, LenProperties
  <2> QED
    BY <2>4, ParticleIs, HomeIs
<1> QED
  BY <1>1, AlwaysLocated, PTL

-----------------------------------------------------------------------------
(***************************************************************************)
(* Every particle has exactly one owner.  The places a tag can be at are   *)
(* compared as sets: what a rank has after a step, with what it has sent   *)
(* in it, is what it had before, with what it has received, and the two    *)
(* parts share none.  The reverse lookup of the particles is then that of  *)
(* the arrays.                                                             *)
(***************************************************************************)

AllBuffers == Plans \cup {Local}

\* The buffers of a rank, with that of what has arrived.
Buffers(r) == [plan \in AllBuffers |-> IF plan = Local THEN recvBuf[r] ELSE ptlBuf[r][plan]]

\* The buffers that are still to be sent, or stay, after a direction.
Later(dir) == { plan \in AllBuffers : \A f \in plan : f > dir }

\* The tags in some of a number of buffers, and that none is there twice.
TagsIn(buf, S) == UNION { { p.tag : p \in buf[plan] } : plan \in S }
Once(buf, S) ==
    \A plan, other \in S : \A p \in buf[plan], q \in buf[other] :
        p.tag = q.tag => plan = other /\ p = q

Distinct(list) == \A i, j \in DOMAIN list : list[i].tag = list[j].tag => i = j

\* The tags a rank has in its arrays and in its buffers.
InArrays(r) == { ptls[r][i].tag : i \in DOMAIN ptls[r] \ mask[r] }
InBuffers(r) ==
    IF phase[r] = "ptlBuffers" THEN TagsIn(Buffers(r), Later(Route[stage[r]])) ELSE {}
At(r) == InArrays(r) \cup InBuffers(r)

\* Within a rank, and within a message.
OnceAt(r) ==
    /\ Distinct(ptls[r])
    /\ phase[r] = "ptlBuffers" => Once(Buffers(r), Later(Route[stage[r]]))
    /\ InArrays(r) \cap InBuffers(r) = {}

OnceIn(message) ==
    /\ message.kind = "particles" => Distinct(message.data)
    /\ message.kind = "ptlBuffers" =>
           /\ message.data = [plan \in AllBuffers |-> message.data[plan]]
           /\ Once(message.data, AllBuffers)
           /\ \A plan \in AllBuffers : message.data[plan] # {} => plan \in Later(message.dir)

\* Every tag is with one rank or in one message.
Exclusive(at, chan) ==
    /\ \A tag \in Tags :
           \/ \E r \in Ranks : tag \in at[r]
           \/ \E pair \in Ranks \X Ranks : \E k \in DOMAIN chan[pair] : tag \in Carried(chan[pair][k])
    /\ \A r, q \in Ranks : \A tag \in at[r] : tag \in at[q] => r = q
    /\ \A r \in Ranks, pair \in Ranks \X Ranks : \A k \in DOMAIN chan[pair] :
           \A tag \in at[r] : tag \notin Carried(chan[pair][k])
    /\ \A pair, other \in Ranks \X Ranks : \A k \in DOMAIN chan[pair], l \in DOMAIN chan[other] :
           \A tag \in Carried(chan[pair][k]) :
               tag \in Carried(chan[other][l]) => pair = other /\ k = l

Owned ==
    /\ \A r \in Ranks : OnceAt(r)
    /\ \A pair \in Ranks \X Ranks : \A k \in DOMAIN channel[pair] : OnceIn(channel[pair][k])
    /\ Exclusive([r \in Ranks |-> At(r)], channel)

-----------------------------------------------------------------------------
(* A message that is taken, and one that is sent.                           *)

LEMMA TakenExclusive ==
  ASSUME NEW at, at = [r \in Ranks |-> at[r]], NEW chan, chan = [pair \in Ranks \X Ranks |-> chan[pair]],
         \A pair \in Ranks \X Ranks : IsSomeList(chan[pair]), Exclusive(at, chan),
         NEW r \in Ranks, NEW first \in Ranks \X Ranks, chan[first] # <<>>
  PROVE  Exclusive([at EXCEPT ![r] = at[r] \cup Carried(Head(chan[first]))],
                   [chan EXCEPT ![first] = Tail(chan[first])])
<1> DEFINE taken == Head(chan[first])
           at2 == [at EXCEPT ![r] = at[r] \cup Carried(taken)]
           chan2 == [chan EXCEPT ![first] = Tail(chan[first])]
           old(pair, k) == IF pair = first THEN k + 1 ELSE k
<1>1. /\ \A pair \in Ranks \X Ranks : DOMAIN chan[pair] = 1 .. Len(chan[pair]) /\ Len(chan[pair]) \in Nat
      /\ Len(chan[first]) >= 1 /\ taken = chan[first][1]
      /\ DOMAIN Tail(chan[first]) = 1 .. Len(chan[first]) - 1
      /\ \A k \in 1 .. Len(chan[first]) - 1 : Tail(chan[first])[k] = chan[first][k + 1]
  BY ListFacts
<1>2. ASSUME NEW pair \in Ranks \X Ranks, NEW k \in DOMAIN chan2[pair]
      PROVE  /\ old(pair, k) \in DOMAIN chan[pair] /\ chan2[pair][k] = chan[pair][old(pair, k)]
             /\ k \in Nat /\ (pair = first => old(pair, k) # 1)
  BY <1>1, <1>2
<1>3. ASSUME NEW pair \in Ranks \X Ranks, NEW k \in DOMAIN chan[pair], pair # first \/ k # 1
      PROVE  \E l \in DOMAIN chan2[pair] : chan2[pair][l] = chan[pair][k]
  <2>1. CASE pair = first
    <3>1. k - 1 \in 1 .. Len(chan[first]) - 1 /\ k - 1 + 1 = k
      BY <1>1, <1>3, <2>1
    <3>2. k - 1 \in DOMAIN chan2[pair] /\ chan2[pair][k - 1] = chan[pair][k]
      BY <1>1, <2>1, <3>1
    <3> QED
      BY <3>2
  <2>2. CASE pair # first
    BY <2>2
  <2> QED
    BY <2>1, <2>2
<1>4. 1 \in DOMAIN chan[first] /\ taken = chan[first][1]
  BY <1>1
<1>5. /\ \A q \in Ranks : at2[q] = IF q = r THEN at[r] \cup Carried(taken) ELSE at[q]
  OBVIOUS
<1> HIDE DEF taken, at2, chan2
<1>6. ASSUME NEW tag \in Tags
      PROVE  \/ \E q \in Ranks : tag \in at2[q]
             \/ \E pair \in Ranks \X Ranks : \E k \in DOMAIN chan2[pair] : tag \in Carried(chan2[pair][k])
  <2>1. CASE \E q \in Ranks : tag \in at[q]
    BY <1>5, <2>1
  <2>2. ASSUME NEW pair \in Ranks \X Ranks, NEW k \in DOMAIN chan[pair], tag \in Carried(chan[pair][k])
        PROVE  \/ \E q \in Ranks : tag \in at2[q]
               \/ \E p \in Ranks \X Ranks : \E l \in DOMAIN chan2[p] : tag \in Carried(chan2[p][l])
    <3>1. CASE pair = first /\ k = 1
      BY <1>4, <1>5, <2>2, <3>1
    <3>2. CASE pair # first \/ k # 1
      <4>1. PICK l \in DOMAIN chan2[pair] : chan2[pair][l] = chan[pair][k]
        BY <1>3, <3>2
      <4> QED
        BY <2>2, <4>1
    <3> QED
      BY <3>1, <3>2
  <2> QED
    BY <2>1, <2>2 DEF Exclusive
<1>7. ASSUME NEW p \in Ranks, NEW q \in Ranks, NEW tag \in at2[p], tag \in at2[q]
      PROVE  p = q
  BY <1>4, <1>5, <1>7 DEF Exclusive
<1>8. ASSUME NEW q \in Ranks, NEW pair \in Ranks \X Ranks, NEW k \in DOMAIN chan2[pair], NEW tag \in at2[q]
      PROVE  tag \notin Carried(chan2[pair][k])
  <2>1. old(pair, k) \in DOMAIN chan[pair] /\ chan2[pair][k] = chan[pair][old(pair, k)]
        /\ (pair = first => old(pair, k) # 1)
    BY <1>2
  <2> HIDE DEF old
  <2>2. CASE tag \in at[q]
    BY <2>1, <2>2 DEF Exclusive
  <2>3. CASE tag \in Carried(taken)
    BY <1>4, <2>1, <2>3 DEF Exclusive
  <2> QED
    BY <1>5, <2>2, <2>3
<1>9. ASSUME NEW pair \in Ranks \X Ranks, NEW other \in Ranks \X Ranks,
             NEW k \in DOMAIN chan2[pair], NEW l \in DOMAIN chan2[other],
             NEW tag \in Carried(chan2[pair][k]), tag \in Carried(chan2[other][l])
      PROVE  pair = other /\ k = l
  <2>1. /\ old(pair, k) \in DOMAIN chan[pair] /\ chan2[pair][k] = chan[pair][old(pair, k)]
        /\ old(other, l) \in DOMAIN chan[other] /\ chan2[other][l] = chan[other][old(other, l)]
        /\ k \in Nat /\ l \in Nat
    BY <1>2
  <2>2. pair = other /\ old(pair, k) = old(other, l)
    <3> HIDE DEF old
    <3> QED
      BY <1>9, <2>1 DEF Exclusive
  <2> QED
    BY <2>1, <2>2
<1>10. Exclusive(at2, chan2)
  BY <1>6, <1>7, <1>8, <1>9 DEF Exclusive
<1> QED
  BY <1>10 DEF at2, chan2, taken

LEMMA PutExclusive ==
  ASSUME NEW at, at = [r \in Ranks |-> at[r]], NEW chan, chan = [pair \in Ranks \X Ranks |-> chan[pair]],
         \A pair \in Ranks \X Ranks : IsSomeList(chan[pair]), Exclusive(at, chan),
         NEW r \in Ranks, NEW here, NEW message, at[r] = here \cup Carried(message),
         here \cap Carried(message) = {}, NEW last \in Ranks \X Ranks
  PROVE  Exclusive([at EXCEPT ![r] = here], [chan EXCEPT ![last] = Append(chan[last], message)])
<1> DEFINE at2 == [at EXCEPT ![r] = here]
           chan2 == [chan EXCEPT ![last] = Append(chan[last], message)]
           n == Len(chan[last])
<1>1. /\ \A pair \in Ranks \X Ranks : DOMAIN chan[pair] = 1 .. Len(chan[pair]) /\ Len(chan[pair]) \in Nat
      /\ DOMAIN Append(chan[last], message) = 1 .. n + 1
      /\ \A k \in 1 .. n : Append(chan[last], message)[k] = chan[last][k]
      /\ Append(chan[last], message)[n + 1] = message
  BY ListFacts
<1>2. n \in Nat /\ DOMAIN chan[last] = 1 .. n
  BY <1>1
<1>3. /\ \A q \in Ranks : at2[q] = IF q = r THEN here ELSE at[q]
      /\ \A pair \in Ranks \X Ranks : chan2[pair] = IF pair = last THEN Append(chan[last], message) ELSE chan[pair]
  OBVIOUS
<1> HIDE DEF at2, chan2, n
<1>4. ASSUME NEW pair \in Ranks \X Ranks, NEW k \in DOMAIN chan2[pair]
      PROVE  \/ k \in DOMAIN chan[pair] /\ chan2[pair][k] = chan[pair][k]
             \/ pair = last /\ k = n + 1 /\ chan2[pair][k] = message
  <2>1. CASE pair = last
    <3>1. k \in 1 .. n + 1
      BY <1>1, <1>3, <1>4, <2>1
    <3>2. k \in 1 .. n \/ k = n + 1
      BY <1>2, <3>1
    <3> QED
      BY <1>1, <1>2, <1>3, <2>1, <3>2
  <2>2. CASE pair # last
    BY <1>3, <1>4, <2>2
  <2> QED
    BY <2>1, <2>2
<1>5. ASSUME NEW pair \in Ranks \X Ranks, NEW k \in DOMAIN chan[pair]
      PROVE  k \in DOMAIN chan2[pair] /\ chan2[pair][k] = chan[pair][k]
  <2>1. CASE pair = last
    <3>1. k \in 1 .. n /\ k \in 1 .. n + 1
      BY <1>2, <2>1
    <3> QED
      BY <1>1, <1>3, <2>1, <3>1
  <2>2. CASE pair # last
    BY <1>3, <2>2
  <2> QED
    BY <2>1, <2>2
<1>6. n + 1 \in DOMAIN chan2[last] /\ chan2[last][n + 1] = message
  <2>1. n + 1 \in 1 .. n + 1
    BY <1>2
  <2> QED
    BY <1>1, <1>3, <2>1
<1>7. ASSUME NEW tag \in Tags
      PROVE  \/ \E q \in Ranks : tag \in at2[q]
             \/ \E pair \in Ranks \X Ranks : \E k \in DOMAIN chan2[pair] : tag \in Carried(chan2[pair][k])
  <2>1. ASSUME NEW q \in Ranks, tag \in at[q]
        PROVE  tag \in at2[q] \/ tag \in Carried(message)
    BY <1>3, <2>1
  <2>2. CASE tag \in Carried(message)
    BY <1>6, <2>2
  <2>3. ASSUME NEW pair \in Ranks \X Ranks, NEW k \in DOMAIN chan[pair], tag \in Carried(chan[pair][k])
        PROVE  \E p \in Ranks \X Ranks : \E l \in DOMAIN chan2[p] : tag \in Carried(chan2[p][l])
    BY <1>5, <2>3
  <2> QED
    BY <2>1, <2>2, <2>3 DEF Exclusive
<1>8. ASSUME NEW p \in Ranks, NEW q \in Ranks, NEW tag \in at2[p], tag \in at2[q]
      PROVE  p = q
  BY <1>3, <1>8 DEF Exclusive
<1>9. ASSUME NEW q \in Ranks, NEW pair \in Ranks \X Ranks, NEW k \in DOMAIN chan2[pair], NEW tag \in at2[q]
      PROVE  tag \notin Carried(chan2[pair][k])
  <2>1. tag \in at[q] /\ (q = r => tag \notin Carried(message))
    BY <1>3
  <2>2. CASE k \in DOMAIN chan[pair] /\ chan2[pair][k] = chan[pair][k]
    BY <2>1, <2>2 DEF Exclusive
  <2>3. CASE chan2[pair][k] = message
    BY <2>1, <2>3 DEF Exclusive
  <2> QED
    BY <1>4, <2>2, <2>3
<1>10. ASSUME NEW pair \in Ranks \X Ranks, NEW k \in DOMAIN chan[pair], NEW tag \in Carried(message)
       PROVE  tag \notin Carried(chan[pair][k])
  <2>1. tag \in at[r]
    OBVIOUS
  <2> QED
    BY <2>1 DEF Exclusive
<1>11. ASSUME NEW pair \in Ranks \X Ranks, NEW other \in Ranks \X Ranks,
              NEW k \in DOMAIN chan2[pair], NEW l \in DOMAIN chan2[other],
              NEW tag \in Carried(chan2[pair][k]), tag \in Carried(chan2[other][l])
       PROVE  pair = other /\ k = l
  BY <1>4, <1>10, <1>11 DEF Exclusive
<1>12. Exclusive(at2, chan2)
  BY <1>7, <1>8, <1>9, <1>11 DEF Exclusive
<1> QED
  BY <1>12 DEF at2, chan2

-----------------------------------------------------------------------------
(* A step of a rank, in parts: what it has, and its message.                *)

\* What a rank has, with what has come for it.
Got(r) == At(r) \cup (IF phase[r] = "moved" THEN {} ELSE Carried(Message(r)))

LEMMA OthersKeep ==
  ASSUME Ordered, Located, NEW r \in Ranks, OnlyAt(r), NEW q \in Ranks, q # r
  PROVE  At(q)' = At(q) /\ (OnceAt(q) => OnceAt(q)')
<1>1. /\ phase'[q] = phase[q] /\ stage'[q] = stage[q] /\ ptls'[q] = ptls[q] /\ mask'[q] = mask[q]
      /\ ptlBuf'[q] = ptlBuf[q] /\ recvBuf'[q] = recvBuf[q]
  BY DEF OnlyAt, Located, Ordered
<1>2. Buffers(q)' = Buffers(q) /\ InArrays(q)' = InArrays(q)
  BY <1>1 DEF Buffers, InArrays
<1>3. InBuffers(q)' = InBuffers(q)
  BY <1>1, <1>2 DEF InBuffers
<1> QED
  BY <1>1, <1>2, <1>3 DEF At, OnceAt

LEMMA RemainingExclusive ==
  ASSUME Ordered, Owned, NEW r \in Ranks, GoesOn(r)
  PROVE  /\ Exclusive([[q \in Ranks |-> At(q)] EXCEPT ![r] = Got(r)], Remaining(r))
         /\ Remaining(r) = [pair \in Ranks \X Ranks |-> Remaining(r)[pair]]
         /\ \A pair \in Ranks \X Ranks : IsSomeList(Remaining(r)[pair])
<1> DEFINE at == [q \in Ranks |-> At(q)]
<1>1. /\ channel = [pair \in Ranks \X Ranks |-> channel[pair]] /\ Exclusive(at, channel)
  BY DEF Ordered, Owned
<1>2. ASSUME NEW pair \in Ranks \X Ranks PROVE IsSomeList(channel[pair])
  <2>1. PICK from \in Ranks, to \in Ranks : pair = <<from, to>>
    OBVIOUS
  <2> QED
    BY <2>1 DEF Ordered, InOrder
<1>3. ASSUME NEW pair \in Ranks \X Ranks PROVE IsSomeList(Remaining(r)[pair])
  <2>1. PICK from \in Ranks, to \in Ranks : pair = <<from, to>>
    OBVIOUS
  <2> QED
    BY <2>1, RemainingMessages
<1>4. CASE phase[r] = "moved"
  <2>1. Remaining(r) = channel /\ Got(r) = At(r)
    BY <1>4 DEF Remaining, Got
  <2>2. [at EXCEPT ![r] = At(r)] = at
    OBVIOUS
  <2> QED
    BY <1>1, <1>3, <2>1, <2>2
<1>5. CASE phase[r] # "moved"
  <2>1. phase[r] \in Kinds(communicator) /\ Arrived(r)
    BY <1>5 DEF GoesOn
  <2> DEFINE first == <<Source(r), r>>
  <2>2. /\ first \in Ranks \X Ranks /\ channel[first] # <<>>
        /\ Remaining(r) = [channel EXCEPT ![first] = Tail(channel[first])]
        /\ Got(r) = at[r] \cup Carried(Head(channel[first]))
    <3>1. Source(r) \in Ranks
      BY <2>1, FirstMessage
    <3> QED
      BY <1>5, <2>1, <3>1 DEF Arrived, Remaining, Taken, Got, Message
  <2> HIDE DEF first, at
  <2>3. at = [q \in Ranks |-> at[q]]
    BY DEF at
  <2>4. Exclusive([at EXCEPT ![r] = at[r] \cup Carried(Head(channel[first]))],
                  [channel EXCEPT ![first] = Tail(channel[first])])
    BY <1>1, <1>2, <2>2, <2>3, TakenExclusive
  <2>5. Exclusive([at EXCEPT ![r] = Got(r)], Remaining(r))
    BY <2>2, <2>4
  <2>6. Remaining(r) = [pair \in Ranks \X Ranks |-> Remaining(r)[pair]]
    BY <1>1, <2>2
  <2> QED
    BY <1>3, <2>5, <2>6 DEF at
<1> QED
  BY <1>4, <1>5

LEMMA OnceInRemaining ==
  ASSUME Ordered, Owned, NEW r \in Ranks, GoesOn(r),
         NEW pair \in Ranks \X Ranks, NEW k \in DOMAIN Remaining(r)[pair]
  PROVE  OnceIn(Remaining(r)[pair][k])
<1>1. PICK from \in Ranks, to \in Ranks : pair = <<from, to>>
  OBVIOUS
<1>2. PICK l \in DOMAIN channel[pair] : Remaining(r)[pair][k] = channel[pair][l]
  BY <1>1, RemainingMessages
<1> QED
  BY <1>2 DEF Owned

\* The step that ends the migration of a rank.
LEMMA OwnedAtEnd ==
  ASSUME Ordered, Located, Owned, NEW r \in Ranks, GoesOn(r), OnlyAt(r), OnceAt(r)',
         channel' = Remaining(r), At(r)' = Got(r)
  PROVE  Owned'
<1>1. \A q \in Ranks : OnceAt(q)'
  BY OthersKeep DEF Owned
<1>2. [q \in Ranks |-> At(q)'] = [[q \in Ranks |-> At(q)] EXCEPT ![r] = Got(r)]
  BY OthersKeep
<1>3. Exclusive([q \in Ranks |-> At(q)'], channel')
  BY <1>2, RemainingExclusive
<1>4. \A pair \in Ranks \X Ranks : \A k \in DOMAIN channel'[pair] : OnceIn(channel'[pair][k])
  BY OnceInRemaining
<1> QED
  BY <1>1, <1>3, <1>4 DEF Owned

\* A step that sends a message.
LEMMA OwnedAfter ==
  ASSUME Ordered, Located, Owned, NEW r \in Ranks, GoesOn(r), OnlyAt(r), OnceAt(r)',
         NEW next \in Ranks, NEW message, channel' = Put(Remaining(r), r, next, message),
         OnceIn(message), Got(r) = At(r)' \cup Carried(message), At(r)' \cap Carried(message) = {}
  PROVE  Owned'
<1> DEFINE at == [[q \in Ranks |-> At(q)] EXCEPT ![r] = Got(r)]
           chan == Remaining(r)
           last == <<r, next>>
           here == At(r)'
<1>1. \A q \in Ranks : OnceAt(q)'
  BY OthersKeep DEF Owned
<1>2. /\ Exclusive(at, chan) /\ chan = [pair \in Ranks \X Ranks |-> chan[pair]]
      /\ \A pair \in Ranks \X Ranks : IsSomeList(chan[pair])
  BY RemainingExclusive
<1>3. /\ at = [q \in Ranks |-> at[q]] /\ at[r] = here \cup Carried(message)
      /\ here \cap Carried(message) = {} /\ last \in Ranks \X Ranks
      /\ channel' = [chan EXCEPT ![last] = Append(chan[last], message)]
  BY DEF Put
<1>4. [q \in Ranks |-> At(q)'] = [at EXCEPT ![r] = here]
  BY OthersKeep
<1>5. \A pair \in Ranks \X Ranks : \A k \in DOMAIN chan[pair] : OnceIn(chan[pair][k])
  BY OnceInRemaining
<1> HIDE DEF at, chan, here, last
<1>6. Exclusive([at EXCEPT ![r] = here], channel')
  <2>1. at[r] = here \cup Carried(message) /\ at = [q \in Ranks |-> at[q]]
    BY <1>3
  <2>2. Exclusive([at EXCEPT ![r] = here], [chan EXCEPT ![last] = Append(chan[last], message)])
    BY <1>2, <1>3, <2>1, PutExclusive
  <2> QED
    BY <1>3, <2>2
<1>7. ASSUME NEW pair \in Ranks \X Ranks, NEW k \in DOMAIN channel'[pair]
      PROVE  OnceIn(channel'[pair][k])
  <2>1. CASE pair # last
    BY <1>2, <1>3, <1>5, <1>7, <2>1
  <2>2. CASE pair = last
    <3>1. channel'[pair] = Append(chan[last], message)
      BY <1>2, <1>3, <2>2
    <3>2. /\ Len(chan[last]) \in Nat /\ DOMAIN chan[last] = 1 .. Len(chan[last])
          /\ DOMAIN Append(chan[last], message) = 1 .. Len(chan[last]) + 1
          /\ \A i \in 1 .. Len(chan[last]) : Append(chan[last], message)[i] = chan[last][i]
          /\ Append(chan[last], message)[Len(chan[last]) + 1] = message
      BY <1>2, <1>3, ListFacts
    <3>3. k \in DOMAIN chan[last] \/ k = Len(chan[last]) + 1
      BY <1>7, <3>1, <3>2
    <3> QED
      BY <1>3, <1>5, <3>1, <3>2, <3>3
  <2> QED
    BY <2>1, <2>2
<1>8. Exclusive([q \in Ranks |-> At(q)'], channel')
  BY <1>4, <1>6
<1> QED
  BY <1>1, <1>7, <1>8 DEF Owned

-----------------------------------------------------------------------------
(* The steps of the CPU communicator.                                       *)

LEMMA PickedOnce ==
  ASSUME NEW E, NEW list \in Seq(E), NEW S \in SUBSET (DOMAIN list), Distinct(list)
  PROVE  /\ Distinct(Picked(list, S)) /\ DOMAIN Picked(list, S) \subseteq Nat
         /\ TagsOf(Picked(list, S)) = { list[i].tag : i \in S }
<1> DEFINE part == Picked(list, S)
           at(k) == Nth(S, k)
<1>1. /\ DOMAIN part = 1 .. Cardinality(S)
      /\ \A k \in DOMAIN part : at(k) \in S /\ part[k] = list[at(k)]
      /\ \A i \in S : \E k \in DOMAIN part : at(k) = i /\ part[k] = list[i]
  BY PickedProperties
<1>2. ASSUME NEW k \in DOMAIN part, NEW l \in DOMAIN part, k < l PROVE at(k) < at(l)
  BY <1>2, PickedInOrder
<1>3. \A k \in DOMAIN part : k \in Nat
  BY <1>1
<1>4. \A k \in DOMAIN part : at(k) \in Nat
  BY <1>1, LenProperties
<1> HIDE DEF part, at
<1>5. ASSUME NEW k \in DOMAIN part, NEW l \in DOMAIN part, part[k].tag = part[l].tag
      PROVE  k = l
  <2>1. at(k) = at(l)
    BY <1>1, <1>5 DEF Distinct
  <2>2. ~ (k < l) /\ ~ (l < k)
    BY <1>2, <1>4, <2>1
  <2> QED
    BY <1>3, <2>2
<1>6. TagsOf(part) = { list[i].tag : i \in S }
  BY <1>1 DEF TagsOf
<1> QED
  BY <1>3, <1>5, <1>6 DEF Distinct, part

\* A partition of a list.
LEMMA PartitionOnce ==
  ASSUME NEW E, NEW list \in Seq(E), NEW S \in SUBSET (DOMAIN list), Distinct(list),
         NEW stay, stay = Picked(list, DOMAIN list \ S), NEW leave, leave = Picked(list, S)
  PROVE  /\ Distinct(stay) /\ Distinct(leave)
         /\ TagsOf(list) = TagsOf(stay) \cup TagsOf(leave)
         /\ TagsOf(stay) \cap TagsOf(leave) = {}
<1>1. DOMAIN list \ S \in SUBSET (DOMAIN list)
  OBVIOUS
<1>2. Distinct(stay) /\ TagsOf(stay) = { list[i].tag : i \in DOMAIN list \ S }
  BY <1>1, PickedOnce
<1>3. Distinct(leave) /\ TagsOf(leave) = { list[i].tag : i \in S }
  BY PickedOnce
<1>4. TagsOf(list) = TagsOf(stay) \cup TagsOf(leave)
  BY <1>2, <1>3 DEF TagsOf
<1>5. ASSUME NEW i \in DOMAIN list \ S, NEW j \in S, list[i].tag = list[j].tag PROVE FALSE
  BY <1>5 DEF Distinct
<1>6. TagsOf(stay) \cap TagsOf(leave) = {}
  BY <1>2, <1>3, <1>5
<1> QED
  BY <1>2, <1>3, <1>4, <1>6

LEMMA JoinedOnce ==
  ASSUME NEW E, NEW list \in Seq(E), NEW new \in Seq(E), Distinct(list), Distinct(new),
         TagsOf(list) \cap TagsOf(new) = {}
  PROVE  Distinct(list \o new) /\ TagsOf(list \o new) = TagsOf(list) \cup TagsOf(new)
<1> DEFINE m == Len(list)
           n == Len(new)
           all == list \o new
<1>1. /\ m \in Nat /\ n \in Nat /\ DOMAIN list = 1 .. m /\ DOMAIN new = 1 .. n
      /\ all \in Seq(E) /\ Len(all) = m + n
      /\ \A i \in 1 .. m + n : all[i] = IF i <= m THEN list[i] ELSE new[i - m]
  BY LenProperties, ConcatProperties
<1>2. DOMAIN all = 1 .. m + n
  BY <1>1, LenProperties
<1> HIDE DEF m, n, all
<1>3. ASSUME NEW i \in DOMAIN all
      PROVE  /\ i \in Nat
             /\ \/ i \in DOMAIN list /\ i <= m /\ all[i] = list[i]
                \/ i - m \in DOMAIN new /\ i > m /\ all[i] = new[i - m]
  BY <1>1, <1>2
<1>4. ASSUME NEW i \in DOMAIN list PROVE i \in DOMAIN all /\ all[i] = list[i]
  <2>1. i \in Nat /\ 1 <= i /\ i <= m
    BY <1>1
  <2> QED
    BY <1>1, <1>2, <2>1
<1>5. ASSUME NEW i \in DOMAIN new PROVE i + m \in DOMAIN all /\ all[i + m] = new[i]
  <2>1. i \in Nat /\ 1 <= i /\ i <= n
    BY <1>1
  <2>2. i + m \in 1 .. m + n /\ ~ (i + m <= m) /\ (i + m) - m = i
    BY <1>1, <2>1
  <2> QED
    BY <1>1, <1>2, <2>2
<1>6. TagsOf(all) = TagsOf(list) \cup TagsOf(new)
  BY <1>3, <1>4, <1>5 DEF TagsOf
<1>7. ASSUME NEW i \in DOMAIN all, NEW j \in DOMAIN all, all[i].tag = all[j].tag
      PROVE  i = j
  <2>1. CASE i <= m /\ j <= m
    BY <1>1, <1>3, <1>7, <2>1 DEF Distinct
  <2>2. CASE i > m /\ j > m
    <3>1. i - m \in DOMAIN new /\ j - m \in DOMAIN new /\ new[i - m].tag = new[j - m].tag
      BY <1>1, <1>3, <1>7, <2>2
    <3>2. i - m = j - m
      BY <3>1 DEF Distinct
    <3> QED
      BY <1>1, <1>3, <3>2
  <2>3. CASE i <= m /\ j > m
    <3>0. i \in DOMAIN list /\ all[i] = list[i] /\ j - m \in DOMAIN new /\ all[j] = new[j - m]
      BY <1>1, <1>3, <2>3
    <3>1. all[i].tag \in TagsOf(list) /\ all[j].tag \in TagsOf(new)
      BY <3>0 DEF TagsOf
    <3> QED
      BY <1>7, <3>1
  <2>4. CASE i > m /\ j <= m
    <3>0. j \in DOMAIN list /\ all[j] = list[j] /\ i - m \in DOMAIN new /\ all[i] = new[i - m]
      BY <1>1, <1>3, <2>4
    <3>1. all[j].tag \in TagsOf(list) /\ all[i].tag \in TagsOf(new)
      BY <3>0 DEF TagsOf
    <3> QED
      BY <1>7, <3>1
  <2> QED
    BY <1>1, <1>3, <2>1, <2>2, <2>3, <2>4
<1> QED
  BY <1>6, <1>7 DEF Distinct, all

\* A rank of the CPU communicator has no particles but those of its arrays.
LEMMA InArraysOnly ==
  ASSUME NEW r \in Ranks, phase[r] # "ptlBuffers", mask[r] = {}
  PROVE  At(r) = TagsOf(ptls[r]) /\ InBuffers(r) = {}
BY DEF At, InArrays, InBuffers, TagsOf

LEMMA StartOwned ==
  ASSUME Ordered, Located, Owned, communicator = "CPU", NEW r \in Ranks, GoesOn(r),
         NEW k \in Nat \ {0}, NEW E, NEW list \in Seq(E), NEW old, NEW bonds,
         Distinct(list), TagsOf(list) = Got(r),
         StartStage(r, k, list, old, bonds, Remaining(r)),
         UNCHANGED <<mask, ptlBuf, recvBuf>>
  PROVE  Owned'
<1>1. recvBuf[r] = {} /\ mask[r] = {}
  BY OnTheCPU
<1>2. /\ ptls = [q \in Ranks |-> ptls[q]] /\ mask = [q \in Ranks |-> mask[q]]
      /\ ptlBuf = [q \in Ranks |-> ptlBuf[q]] /\ recvBuf = [q \in Ranks |-> recvBuf[q]]
      /\ phase = [q \in Ranks |-> phase[q]] /\ stage = [q \in Ranks |-> stage[q]]
  BY DEF Located, Ordered
<1>3. ASSUME phase'[r] # "ptlBuffers"
      PROVE  At(r)' = TagsOf(ptls'[r]) /\ InBuffers(r)' = {}
  BY <1>1, <1>3 DEF At, InArrays, InBuffers, TagsOf
<1>4. CASE k > Len(Route)
  <2>1. /\ phase' = [phase EXCEPT ![r] = "idle"] /\ stage' = [stage EXCEPT ![r] = 0]
        /\ ptls' = [ptls EXCEPT ![r] = list] /\ channel' = Remaining(r)
    BY <1>4 DEF StartStage
  <2>2. phase'[r] = "idle" /\ ptls'[r] = list /\ OnlyAt(r)
    BY <1>2, <2>1 DEF OnlyAt
  <2>3. At(r)' = Got(r) /\ OnceAt(r)'
    BY <1>3, <2>2 DEF OnceAt
  <2> QED
    BY <2>1, <2>2, <2>3, OwnedAtEnd
<1>5. CASE ~ (k > Len(Route))
  <2> DEFINE dir == Route[k]
             leave == Leaves(r, dir, list)
             message == [dir |-> dir, kind |-> "particles", data |-> leave]
  <2>1. k \in DOMAIN Route /\ dir \in Sending
    BY <1>5, RouteShape, RouteNext
  <2>2. /\ phase' = [phase EXCEPT ![r] = "particles"] /\ stage' = [stage EXCEPT ![r] = k]
        /\ ptls' = [ptls EXCEPT ![r] = Stays(r, dir, list)]
        /\ channel' = Put(Remaining(r), r, NeighborRank(r, dir), message)
    BY <1>5 DEF StartStage
  <2>3. phase'[r] = "particles" /\ ptls'[r] = Stays(r, dir, list) /\ OnlyAt(r)
    BY <1>2, <2>2 DEF OnlyAt
  <2>4. Carried(message) = TagsOf(leave)
    BY DEF Carried
  <2>5. /\ Distinct(Stays(r, dir, list)) /\ Distinct(leave)
        /\ TagsOf(list) = TagsOf(Stays(r, dir, list)) \cup TagsOf(leave)
        /\ TagsOf(Stays(r, dir, list)) \cap TagsOf(leave) = {}
    <3>1. Beyond(r, dir, list) \in SUBSET (DOMAIN list)
      BY DEF Beyond
    <3>2. /\ Stays(r, dir, list) = Picked(list, DOMAIN list \ Beyond(r, dir, list))
          /\ leave = Picked(list, Beyond(r, dir, list))
      BY DEF Stays, Leaves
    <3> HIDE DEF leave, dir
    <3> QED
      BY <3>1, <3>2, PartitionOnce
  <2>6. At(r)' = TagsOf(Stays(r, dir, list)) /\ OnceAt(r)'
    BY <1>3, <2>3, <2>5 DEF OnceAt
  <2>7. OnceIn(message)
    BY <2>5 DEF OnceIn
  <2>8. NeighborRank(r, dir) \in Ranks
    BY <2>1, NeighborIs DEF Sending
  <2>9. Got(r) = At(r)' \cup Carried(message) /\ At(r)' \cap Carried(message) = {}
    BY <2>4, <2>5, <2>6
  <2> HIDE DEF message
  <2> QED
    BY <2>2, <2>3, <2>6, <2>7, <2>8, <2>9, OwnedAfter
<1> QED
  BY <1>4, <1>5

LEMMA OwnedBegin ==
  ASSUME Ordered, Located, Owned, communicator = "CPU", NEW r \in Ranks, BeginMigration(r), UNCHANGED buffers
  PROVE  Owned'
<1>1. phase[r] = "moved" /\ GoesOn(r) /\ SentUpTo(r) = -1 /\ Remaining(r) = channel
  BY DEF BeginMigration, GoesOn, SentUpTo, Remaining
<1>2. ptls[r] \in Seq(Particles(Near(r, -1))) /\ Distinct(ptls[r]) /\ mask[r] = {}
  BY <1>1 DEF Located, LocatedAt, Owned, OnceAt
<1>3. StartStage(r, 1, ptls[r], Forgotten(rtag[r], nghosts[r]), table[r].bonds, Remaining(r))
  BY <1>1 DEF BeginMigration
<1>4. TagsOf(ptls[r]) = Got(r)
  BY <1>1, <1>2, InArraysOnly DEF Got
<1>5. UNCHANGED <<mask, ptlBuf, recvBuf>>
  BY DEF buffers
<1> QED
  BY <1>1, <1>2, <1>3, <1>4, <1>5, StartOwned

\* What is received has other tags than what is there.
LEMMA ReceivedOnce ==
  ASSUME Ordered, Located, Owned, communicator = "CPU", NEW r \in Ranks, GoesOn(r), phase[r] = "particles",
         NEW new, new = [i \in DOMAIN Message(r).data |->
             Particle(Message(r).data[i].tag, Wrapped(r, Message(r).data[i].pos))]
  PROVE  Distinct(ptls[r] \o new) /\ TagsOf(ptls[r] \o new) = Got(r)
<1> DEFINE data == Message(r).data
<1>1. /\ phase[r] \in Kinds(communicator) /\ Arrived(r) /\ mask[r] = {}
  BY OnTheCPU
<1>2. /\ Source(r) \in Ranks /\ 1 \in DOMAIN channel[<<Source(r), r>>]
      /\ Message(r) = channel[<<Source(r), r>>][1] /\ Message(r).kind = "particles"
  BY <1>1, FirstMessage
<1>3. Fits(Source(r), r, Message(r)) /\ OnceIn(Message(r))
  BY <1>2 DEF Located, Owned
<1>4. data \in Seq(Particles(Crossing(Source(r), Message(r).dir))) /\ Distinct(data)
  BY <1>2, <1>3 DEF Fits, OnceIn
<1>5. Carried(Message(r)) = TagsOf(data)
  BY <1>2 DEF Carried
<1>6. DOMAIN new = DOMAIN data /\ \A i \in DOMAIN new : new[i].tag = data[i].tag
  BY DEF Particle
<1> HIDE DEF data
<1>7. Distinct(new) /\ TagsOf(new) = TagsOf(data)
  <2>1. ASSUME NEW i \in DOMAIN new, NEW j \in DOMAIN new, new[i].tag = new[j].tag PROVE i = j
    <3>1. i \in DOMAIN data /\ j \in DOMAIN data /\ data[i].tag = data[j].tag
      BY <1>6, <2>1
    <3> QED
      BY <1>4, <3>1 DEF Distinct
  <2>2. TagsOf(new) = TagsOf(data)
    BY <1>6 DEF TagsOf
  <2> QED
    BY <2>1, <2>2 DEF Distinct
<1>8. At(r) = TagsOf(ptls[r]) /\ Distinct(ptls[r]) /\ ptls[r] \in Seq(Particles(Near(r, SentUpTo(r))))
  BY <1>1, InArraysOnly DEF Owned, OnceAt, Located, LocatedAt
<1>9. TagsOf(ptls[r]) \cap TagsOf(new) = {}
  <2> DEFINE at == [q \in Ranks |-> At(q)]
  <2>1. Exclusive(at, channel) /\ at[r] = At(r)
    BY DEF Owned
  <2> HIDE DEF at
  <2>2. \A tag \in at[r] : tag \notin Carried(channel[<<Source(r), r>>][1])
    BY <1>2, <2>1 DEF Exclusive
  <2> QED
    BY <1>2, <1>5, <1>7, <1>8, <2>1, <2>2
<1>10. \E E : ptls[r] \in Seq(E) /\ new \in Seq(E)
  <2> DEFINE E == Particles(Near(r, SentUpTo(r))) \cup { new[i] : i \in DOMAIN new }
  <2>1. ptls[r] \in Seq(E)
    BY <1>8, SeqMonotonic
  <2>2. DOMAIN new = 1 .. Len(data) /\ Len(data) \in Nat
    BY <1>4, <1>6, LenProperties
  <2>3. new = [i \in 1 .. Len(data) |-> new[i]] /\ \A i \in 1 .. Len(data) : new[i] \in E
    BY <2>2
  <2> HIDE DEF E
  <2>4. new \in [1 .. Len(data) -> E]
    BY <2>3
  <2>5. new \in Seq(E)
    BY <2>2, <2>4, SeqDef
  <2> QED
    BY <2>1, <2>5
<1>11. Distinct(ptls[r] \o new) /\ TagsOf(ptls[r] \o new) = TagsOf(ptls[r]) \cup TagsOf(new)
  BY <1>7, <1>8, <1>9, <1>10, JoinedOnce
<1> QED
  BY <1>5, <1>7, <1>8, <1>11 DEF Got

LEMMA OwnedReceive ==
  ASSUME Ordered, Located, Owned, communicator = "CPU", NEW r \in Ranks, ReceiveParticles(r), UNCHANGED buffers
  PROVE  Owned'
<1> DEFINE new == [i \in DOMAIN Message(r).data |->
                      Particle(Message(r).data[i].tag, Wrapped(r, Message(r).data[i].pos))]
           list == ptls[r] \o new
           index == Numbered(rtag[r], TagList(list))
           k == stage[r]
<1>1. /\ phase[r] = "particles" /\ Arrived(r) /\ phase[r] \in Kinds(communicator) /\ GoesOn(r)
      /\ Remaining(r) = Taken(r)
  BY KindsAre DEF ReceiveParticles, GoesOn, Remaining
<1>2. /\ k \in DOMAIN Route /\ list \in Seq(Particles(Near(r, SentUpTo(r))))
      /\ Distinct(list) /\ TagsOf(list) = Got(r) /\ mask[r] = {}
  BY <1>1, OnTheCPU, ReceivedLocated, ReceivedOnce
<1>3. UNCHANGED <<mask, ptlBuf, recvBuf>>
  BY DEF buffers
<1>4. IF BondTags = {}
      THEN StartStage(r, stage[r] + 1, list, index, <<>>, Taken(r))
      ELSE /\ ptls' = [ptls EXCEPT ![r] = list]
           /\ channel' = Put(Taken(r), r, NeighborRank(r, Route[stage[r]]),
                             [dir |-> Route[stage[r]], kind |-> "bonds", data |-> sendBonds[r]])
           /\ phase' = [phase EXCEPT ![r] = "bonds"]
           /\ UNCHANGED stage
  BY DEF ReceiveParticles
<1> HIDE DEF list, index
<1>5. CASE BondTags = {}
  <2>1. StartStage(r, k + 1, list, index, <<>>, Remaining(r))
    BY <1>1, <1>4, <1>5
  <2>2. k + 1 \in Nat \ {0}
    BY <1>2, NextDirection
  <2> HIDE DEF k
  <2> QED
    BY <1>1, <1>2, <1>3, <2>1, <2>2, StartOwned
<1>6. CASE BondTags # {}
  <2> DEFINE message == [dir |-> Route[k], kind |-> "bonds", data |-> sendBonds[r]]
  <2>1. /\ ptls' = [ptls EXCEPT ![r] = list] /\ phase' = [phase EXCEPT ![r] = "bonds"] /\ stage' = stage
        /\ channel' = Put(Remaining(r), r, NeighborRank(r, Route[k]), message)
    BY <1>1, <1>4, <1>6
  <2>2. phase'[r] = "bonds" /\ ptls'[r] = list /\ OnlyAt(r)
    BY <1>3, <2>1 DEF OnlyAt, Located, Ordered
  <2>3. At(r)' = TagsOf(list) /\ OnceAt(r)'
    BY <1>2, <1>3, <2>2 DEF At, InArrays, InBuffers, TagsOf, OnceAt
  <2>4. OnceIn(message) /\ Carried(message) = {}
    BY DEF OnceIn, Carried
  <2>5. NeighborRank(r, Route[k]) \in Ranks
    BY <1>2, RouteNext, NeighborIs DEF Sending
  <2>6. Got(r) = At(r)' \cup Carried(message) /\ At(r)' \cap Carried(message) = {}
    BY <1>2, <2>3, <2>4
  <2> HIDE DEF message
  <2> QED
    BY <1>1, <2>1, <2>2, <2>3, <2>4, <2>5, <2>6, OwnedAfter
<1> QED
  BY <1>5, <1>6

LEMMA OwnedReceiveBonds ==
  ASSUME Ordered, Located, Owned, communicator = "CPU", NEW r \in Ranks, ReceiveBonds(r), UNCHANGED buffers
  PROVE  Owned'
<1>1. phase[r] = "bonds" /\ Arrived(r)
  BY DEF ReceiveBonds
<1>2. phase[r] \in Kinds(communicator) /\ GoesOn(r) /\ Remaining(r) = Taken(r)
  BY <1>1, KindsAre DEF Ordered, GoesOn, Remaining
<1>3. stage[r] \in DOMAIN Route /\ mask[r] = {} /\ Message(r).kind = "bonds"
  BY <1>1, <1>2, OnTheCPU, FirstMessage
<1>4. UNCHANGED <<mask, ptlBuf, recvBuf>>
  BY DEF buffers
<1>5. PICK bonds : StartStage(r, stage[r] + 1, ptls[r], rtag[r], bonds, Remaining(r))
  BY <1>2 DEF ReceiveBonds
<1>6. stage[r] + 1 \in Nat \ {0}
  BY <1>3, NextDirection
<1>7. ptls[r] \in Seq(Particles(Near(r, SentUpTo(r)))) /\ Distinct(ptls[r])
  BY DEF Located, LocatedAt, Owned, OnceAt
<1>8. TagsOf(ptls[r]) = Got(r)
  BY <1>1, <1>3, InArraysOnly DEF Got, Carried
<1> QED
  BY <1>2, <1>4, <1>5, <1>6, <1>7, <1>8, StartOwned

-----------------------------------------------------------------------------
(* Sending a buffer.                                                        *)

LEMMA IsTagIn ==
  ASSUME NEW buf, NEW S, NEW tag
  PROVE  tag \in TagsIn(buf, S) <=> \E plan \in S : \E p \in buf[plan] : p.tag = tag
BY DEF TagsIn

LEMMA BufferKinds ==
  /\ Local \notin Plans
  /\ \A plan \in AllBuffers : plan \subseteq Sending /\ plan \subseteq Int
<1>1. ASSUME NEW plan \in AllPlans PROVE plan # {}
  BY CornerForm, EdgeForm, FaceForm DEF AllPlans
<1>2. ASSUME NEW plan \in AllBuffers PROVE plan \subseteq Sending /\ plan \subseteq Int
  BY OneFaceOfAnAxis DEF AllBuffers, Plans, Local, Sending, Directions
<1> QED
  BY <1>1, <1>2 DEF Plans, Local

LEMMA DestinationKinds ==
  ASSUME NEW plan \in AllPlans, NEW dir, NEW to \in Destination(dir, plan)
  PROVE  to \in AllPlans \cup {Local}
<1>1. to \in Table(dir, plan)
  BY DEF Destination
<1>2. to \in ActiveEdges(dir, plan) \/ to \in NextFace(dir, plan) \/ to = Local
  BY <1>1 DEF Table
<1>3. to \in ActiveEdges(dir, plan) => to \in Edges
  BY DEF ActiveEdges
<1>4. to \in NextFace(dir, plan) => to \in Faces
  BY OneFaceOfAnAxis DEF NextFace, FurtherFaces, Faces
<1> QED
  BY <1>2, <1>3, <1>4 DEF AllPlans

\* Faces of different axes are a plan.
LEMMA IsPlan ==
  ASSUME NEW P \in SUBSET Directions, P # {}, \A f, g \in P : f \div 2 = g \div 2 => f = g
  PROVE  P \in AllPlans
<1>1. /\ 0 \div 2 = 0 /\ 1 \div 2 = 0 /\ 2 \div 2 = 1 /\ 3 \div 2 = 1 /\ 4 \div 2 = 2 /\ 5 \div 2 = 2
      /\ P \subseteq {0, 1, 2, 3, 4, 5}
  BY DEF Directions
<1>2. ~ (0 \in P /\ 1 \in P) /\ ~ (2 \in P /\ 3 \in P) /\ ~ (4 \in P /\ 5 \in P)
  BY <1>1
<1>3. /\ P \cap {0, 1} = {} \/ \E x \in {0, 1} : P \cap {0, 1} = {x}
      /\ P \cap {2, 3} = {} \/ \E y \in {2, 3} : P \cap {2, 3} = {y}
      /\ P \cap {4, 5} = {} \/ \E z \in {4, 5} : P \cap {4, 5} = {z}
  BY <1>2
<1> DEFINE X == P \cap {0, 1}
           Y == P \cap {2, 3}
           Z == P \cap {4, 5}
<1>4. P = X \cup Y \cup Z
  BY <1>1
<1>5. /\ X = {} \/ \E x \in {0, 1} : X = {x}
      /\ Y = {} \/ \E y \in {2, 3} : Y = {y}
      /\ Z = {} \/ \E z \in {4, 5} : Z = {z}
  BY <1>3
<1> HIDE DEF X, Y, Z
<1>6. CASE X = {}
  <2>1. CASE Y = {}
    <3>1. PICK z \in {4, 5} : Z = {z}
      BY <1>4, <1>5, <1>6, <2>1
    <3>2. P = {z}
      BY <1>4, <1>6, <2>1, <3>1
    <3> QED
      BY <3>2 DEF AllPlans, Faces, Directions
  <2>2. ASSUME NEW y \in {2, 3}, Y = {y} PROVE P \in AllPlans
    <3>1. CASE Z = {}
      <4>1. P = {y}
        BY <1>4, <1>6, <2>2, <3>1
      <4> QED
        BY <4>1 DEF AllPlans, Faces, Directions
    <3>2. ASSUME NEW z \in {4, 5}, Z = {z} PROVE P \in AllPlans
      <4>1. P = {y, z}
        BY <1>4, <1>6, <2>2, <3>2
      <4> QED
        BY <4>1 DEF AllPlans, Edges
    <3> QED
      BY <1>5, <3>1, <3>2
  <2> QED
    BY <1>5, <2>1, <2>2
<1>7. ASSUME NEW x \in {0, 1}, X = {x} PROVE P \in AllPlans
  <2>1. CASE Y = {}
    <3>1. CASE Z = {}
      <4>1. P = {x}
        BY <1>4, <1>7, <2>1, <3>1
      <4> QED
        BY <4>1 DEF AllPlans, Faces, Directions
    <3>2. ASSUME NEW z \in {4, 5}, Z = {z} PROVE P \in AllPlans
      <4>1. P = {x, z}
        BY <1>4, <1>7, <2>1, <3>2
      <4> QED
        BY <4>1 DEF AllPlans, Edges
    <3> QED
      BY <1>5, <3>1, <3>2
  <2>2. ASSUME NEW y \in {2, 3}, Y = {y} PROVE P \in AllPlans
    <3>1. CASE Z = {}
      <4>1. P = {x, y}
        BY <1>4, <1>7, <2>2, <3>1
      <4> QED
        BY <4>1 DEF AllPlans, Edges
    <3>2. ASSUME NEW z \in {4, 5}, Z = {z} PROVE P \in AllPlans
      <4>1. P = {x, y, z}
        BY <1>4, <1>7, <2>2, <3>2
      <4> QED
        BY <4>1 DEF AllPlans, Corners
    <3> QED
      BY <1>5, <3>1, <3>2
  <2> QED
    BY <1>5, <2>1, <2>2
<1> QED
  BY <1>5, <1>6, <1>7

\* The plan of a particle that leaves has a buffer.
LEMMA PlanHasBuffer ==
  ASSUME NEW r \in Ranks, NEW pos \in [Axes -> Int], PlanOf(r, pos) # {}
  PROVE  PlanOf(r, pos) \in Plans
<1> DEFINE P == PlanOf(r, pos)
<1>1. P = { dir \in Sending : BeyondFace(r, pos, dir) }
  BY PlanIs
<1>2. P \in SUBSET Directions /\ \A dir \in P : IsCommunicating(dir)
  BY <1>1 DEF Sending
<1>3. ASSUME NEW f \in P, NEW g \in P, f \div 2 = g \div 2 PROVE f = g
  <2>1. f \in 0 .. 5 /\ g \in 0 .. 5 /\ Axis(f) = Axis(g) /\ Axis(f) \in Axes
    BY <1>2, <1>3, Directory DEF Axis, Directions
  <2>2. Forward(f) = Forward(g)
    <3>1. BeyondFace(r, pos, f) /\ BeyondFace(r, pos, g)
      BY <1>1
    <3>2. pos[Axis(f)] \in Int /\ GridPos(r)[Axis(f)] \in Int
      BY <2>1, CellIs
    <3>3. Forward(f) \in {-1, 1} /\ Forward(g) \in {-1, 1}
      BY <2>1 DEF Forward
    <3> QED
      BY <2>1, <3>1, <3>2, <3>3 DEF BeyondFace
  <2> QED
    BY <1>3, <2>1, <2>2 DEF Forward
<1> HIDE DEF P
<1>4. P # {}
  BY DEF P
<1>5. P \in AllPlans
  BY <1>2, <1>3, <1>4, IsPlan
<1>6. P \in Plans
  BY <1>2, <1>5 DEF Plans
<1> QED
  BY <1>6 DEF P

\* What a direction sends to a buffer of the neighbour.
LEMMA SentIs ==
  ASSUME NEW dir \in Sending, NEW to \in AllBuffers, NEW buf, NEW p
  PROVE  p \in Sent(dir, buf)[to] <=>
             \E plan \in Plans : /\ dir \in plan /\ (\A f \in plan : f >= dir)
                                 /\ to = plan \ {dir} /\ p \in buf[plan]
<1>1. dir \in Directions
  BY DEF Sending
<1>2. Sent(dir, buf)[to] = UNION { buf[plan] : plan \in { plan \in Plans : to \in Destination(dir, plan) } }
  BY <1>1 DEF Sent, RoutingTable, AllBuffers
<1>3. ASSUME NEW plan \in Plans
      PROVE  to \in Destination(dir, plan) <=>
                 dir \in plan /\ (\A f \in plan : f >= dir) /\ to = plan \ {dir}
  BY <1>1, ParticleRoute DEF Plans
<1> QED
  BY <1>2, <1>3

\* The directions of the route before and after which the same is left.
Before(prev, dir) ==
    /\ prev \in Int /\ prev < dir
    /\ \A other \in Sending : prev < other => dir <= other

LEMMA LaterIs ==
  ASSUME NEW dir \in Sending, NEW prev, Before(prev, dir), NEW plan \in AllBuffers
  PROVE  /\ plan \in Later(prev) <=> \A f \in plan : f >= dir
         /\ plan \in Later(dir) <=> plan \in Later(prev) /\ dir \notin plan
<1>1. plan \subseteq Sending /\ plan \subseteq Int /\ dir \in Int
  BY BufferKinds DEF Sending, Directions
<1>2. \A f \in plan : f > prev <=> f >= dir
  BY <1>1 DEF Before
<1>3. \A f \in plan : f > dir <=> f >= dir /\ f # dir
  BY <1>1
<1> QED
  BY <1>2, <1>3 DEF Later

LEMMA SentPart ==
  ASSUME NEW dir \in Sending, NEW prev, Before(prev, dir), NEW buf, Once(buf, Later(prev)),
         NEW data, data = Sent(dir, buf)
  PROVE  /\ data = [plan \in AllBuffers |-> data[plan]]
         /\ Once(data, AllBuffers)
         /\ \A to \in AllBuffers : data[to] # {} => to \in Later(dir)
         /\ TagsIn(buf, Later(prev)) = TagsIn(buf, Later(dir)) \cup TagsIn(data, AllBuffers)
         /\ TagsIn(buf, Later(dir)) \cap TagsIn(data, AllBuffers) = {}
<1>1. data = [plan \in AllBuffers |-> data[plan]]
  BY DEF Sent, AllBuffers
<1>2. ASSUME NEW to \in AllBuffers, NEW p \in data[to]
      PROVE  /\ to \cup {dir} \in Later(prev) /\ p \in buf[to \cup {dir}] /\ dir \notin to
             /\ to \in Later(dir)
  <2>1. PICK plan \in Plans : dir \in plan /\ (\A f \in plan : f >= dir) /\ to = plan \ {dir} /\ p \in buf[plan]
    BY SentIs
  <2>2. plan = to \cup {dir} /\ plan \in AllBuffers /\ dir \notin to
    BY <2>1 DEF AllBuffers
  <2>3. plan \in Later(prev)
    BY <2>1, <2>2, LaterIs
  <2>4. to \in Later(prev)
    BY <2>1, LaterIs
  <2>5. to \in Later(dir)
    BY <2>2, <2>4, LaterIs
  <2> QED
    BY <2>1, <2>2, <2>3, <2>5
<1>3. ASSUME NEW plan \in Later(prev), plan \notin Later(dir), NEW p \in buf[plan]
      PROVE  plan \ {dir} \in AllBuffers /\ p \in data[plan \ {dir}]
  <2>1. plan \in AllBuffers /\ dir \in plan /\ \A f \in plan : f >= dir
    BY <1>3, LaterIs DEF Later
  <2>2. plan \in Plans
    BY <2>1 DEF AllBuffers, Local
  <2>3. plan \ {dir} \in AllBuffers
    <3>1. Destination(dir, plan) = {plan \ {dir}}
      BY <2>1, <2>2, ParticleRoute DEF Plans, Sending
    <3>2. plan \ {dir} \in AllPlans \cup {Local}
      BY <3>1, <2>1, GhostRoute, <2>2, DestinationKinds DEF Plans, Sending
    <3> QED
      BY <2>2, <3>2 DEF AllBuffers, Plans
  <2> QED
    BY <2>1, <2>2, <2>3, SentIs
<1>4. ASSUME NEW plan \in AllBuffers, NEW other \in AllBuffers, NEW p \in data[plan], NEW q \in data[other],
             p.tag = q.tag
      PROVE  plan = other /\ p = q
  <2>1. /\ plan \cup {dir} \in Later(prev) /\ p \in buf[plan \cup {dir}] /\ dir \notin plan
        /\ other \cup {dir} \in Later(prev) /\ q \in buf[other \cup {dir}] /\ dir \notin other
    BY <1>2
  <2>2. plan \cup {dir} = other \cup {dir} /\ p = q
    BY <1>4, <2>1 DEF Once
  <2> QED
    BY <2>1, <2>2
<1>5. \A to \in AllBuffers : data[to] # {} => to \in Later(dir)
  BY <1>2
<1>6. ASSUME NEW tag
      PROVE  /\ tag \in TagsIn(buf, Later(prev)) =>
                    tag \in TagsIn(buf, Later(dir)) \cup TagsIn(data, AllBuffers)
             /\ tag \in TagsIn(buf, Later(dir)) => tag \in TagsIn(buf, Later(prev))
             /\ tag \in TagsIn(data, AllBuffers) => tag \in TagsIn(buf, Later(prev))
             /\ ~ (tag \in TagsIn(buf, Later(dir)) /\ tag \in TagsIn(data, AllBuffers))
  <2>1. ASSUME NEW plan \in Later(prev), NEW p \in buf[plan], p.tag = tag
        PROVE  tag \in TagsIn(buf, Later(dir)) \cup TagsIn(data, AllBuffers)
    <3>1. CASE plan \in Later(dir)
      BY <2>1, <3>1, IsTagIn
    <3>2. CASE plan \notin Later(dir)
      BY <1>3, <2>1, <3>2, IsTagIn
    <3> QED
      BY <3>1, <3>2
  <2>2. \A plan \in Later(dir) : plan \in Later(prev) /\ dir \notin plan
    BY LaterIs DEF Later
  <2>3. ASSUME NEW plan \in Later(dir), NEW p \in buf[plan], NEW to \in AllBuffers, NEW q \in data[to],
               p.tag = q.tag
        PROVE  FALSE
    <3>1. to \cup {dir} \in Later(prev) /\ q \in buf[to \cup {dir}]
      BY <1>2
    <3>2. plan = to \cup {dir}
      BY <2>2, <2>3, <3>1 DEF Once
    <3> QED
      BY <2>2, <3>2
  <2>4. tag \in TagsIn(buf, Later(dir)) => tag \in TagsIn(buf, Later(prev))
    BY <2>2, IsTagIn
  <2>5. ASSUME NEW to \in AllBuffers, NEW p \in data[to], p.tag = tag
        PROVE  tag \in TagsIn(buf, Later(prev))
    <3>1. to \cup {dir} \in Later(prev) /\ p \in buf[to \cup {dir}]
      BY <1>2
    <3> QED
      BY <2>5, <3>1, IsTagIn
  <2>8. tag \in TagsIn(data, AllBuffers) => tag \in TagsIn(buf, Later(prev))
    BY <2>5, IsTagIn
  <2>6. tag \in TagsIn(buf, Later(prev)) =>
            tag \in TagsIn(buf, Later(dir)) \cup TagsIn(data, AllBuffers)
    BY <2>1, IsTagIn
  <2>7. ~ (tag \in TagsIn(buf, Later(dir)) /\ tag \in TagsIn(data, AllBuffers))
    BY <2>3, IsTagIn
  <2> QED
    BY <2>4, <2>8, <2>6, <2>7
<1>7. Once(data, AllBuffers)
  BY <1>4 DEF Once
<1>8. TagsIn(buf, Later(prev)) = TagsIn(buf, Later(dir)) \cup TagsIn(data, AllBuffers)
  BY <1>6
<1>9. TagsIn(buf, Later(dir)) \cap TagsIn(data, AllBuffers) = {}
  BY <1>6
<1> QED
  BY <1>1, <1>5, <1>7, <1>8, <1>9

-----------------------------------------------------------------------------
(* The steps of the GPU communicator.                                       *)

LEMMA CarriedIs ==
  ASSUME NEW message, message.kind = "ptlBuffers",
         message.data = [plan \in AllBuffers |-> message.data[plan]]
  PROVE  Carried(message) = TagsIn(message.data, AllBuffers)
<1> DEFINE data == message.data
<1>1. Carried(message) = { p.tag : p \in UNION Range(data) }
  BY DEF Carried
<1>2. Range(data) = { data[plan] : plan \in AllBuffers }
  BY DEF Range
<1>3. \A p : p \in UNION Range(data) <=> \E plan \in AllBuffers : p \in data[plan]
  BY <1>2
<1> HIDE DEF data
<1>4. ASSUME NEW tag
      PROVE  tag \in { p.tag : p \in UNION Range(data) } <=> tag \in TagsIn(data, AllBuffers)
  <2>1. tag \in { p.tag : p \in UNION Range(data) } <=> \E p \in UNION Range(data) : p.tag = tag
    OBVIOUS
  <2> QED
    BY <1>3, <2>1, IsTagIn
<1>5. { p.tag : p \in UNION Range(data) } = TagsIn(data, AllBuffers)
  BY <1>4
<1> QED
  BY <1>1, <1>5 DEF data

\* What comes for a rank has other tags than what is there.
LEMMA ComesOnce ==
  ASSUME Ordered, Owned, NEW r \in Ranks, phase[r] \in Kinds(communicator), Arrived(r)
  PROVE  At(r) \cap Carried(Message(r)) = {} /\ OnceIn(Message(r))
<1> DEFINE at == [q \in Ranks |-> At(q)]
<1>1. /\ Source(r) \in Ranks /\ 1 \in DOMAIN channel[<<Source(r), r>>]
      /\ Message(r) = channel[<<Source(r), r>>][1]
  BY FirstMessage
<1>2. Exclusive(at, channel) /\ at[r] = At(r)
  BY DEF Owned
<1> HIDE DEF at
<1>3. \A tag \in at[r] : tag \notin Carried(channel[<<Source(r), r>>][1])
  BY <1>1, <1>2 DEF Exclusive
<1>4. OnceIn(channel[<<Source(r), r>>][1])
  BY <1>1 DEF Owned
<1> QED
  BY <1>1, <1>2, <1>3, <1>4

LEMMA StoredOnce ==
  ASSUME NEW S, NEW buf, NEW data, NEW new, \A plan \in S : new[plan] = buf[plan] \cup data[plan],
         Once(buf, S), Once(data, S), TagsIn(buf, S) \cap TagsIn(data, S) = {}
  PROVE  Once(new, S) /\ TagsIn(new, S) = TagsIn(buf, S) \cup TagsIn(data, S)
<1>1. ASSUME NEW plan \in S, NEW p \in buf[plan], NEW other \in S, NEW q \in data[other] PROVE p.tag # q.tag
  BY IsTagIn
<1>2. Once(new, S)
  BY <1>1 DEF Once
<1>3. ASSUME NEW tag
      PROVE  tag \in TagsIn(new, S) <=> tag \in TagsIn(buf, S) \/ tag \in TagsIn(data, S)
  <2>1. (\E plan \in S : \E p \in new[plan] : p.tag = tag)
           <=> \/ \E plan \in S : \E p \in buf[plan] : p.tag = tag
               \/ \E plan \in S : \E p \in data[plan] : p.tag = tag
    OBVIOUS
  <2> QED
    BY <2>1, IsTagIn
<1> QED
  BY <1>2, <1>3

\* A rank sends in a direction what it has for it, and keeps the rest.
LEMMA SendOwned ==
  ASSUME Ordered, Located, Owned, NEW r \in Ranks, GoesOn(r), OnlyAt(r), NEW k \in DOMAIN Route,
         NEW prev, Before(prev, Route[k]), phase'[r] = "ptlBuffers", stage'[r] = k, Distinct(ptls'[r]),
         NEW buf, buf = Buffers(r)', Once(buf, Later(prev)),
         Got(r) = InArrays(r)' \cup TagsIn(buf, Later(prev)),
         InArrays(r)' \cap TagsIn(buf, Later(prev)) = {},
         channel' = Put(Remaining(r), r, NeighborRank(r, Route[k]),
                        [dir |-> Route[k], kind |-> "ptlBuffers", data |-> Sent(Route[k], ptlBuf'[r])])
  PROVE  Owned'
<1> DEFINE dir == Route[k]
           data == Sent(dir, ptlBuf'[r])
           message == [dir |-> dir, kind |-> "ptlBuffers", data |-> data]
<1>1. dir \in Sending /\ NeighborRank(r, dir) \in Ranks
  BY RouteNext, NeighborIs DEF Sending
<1>2. data = Sent(dir, buf)
  <2>1. \A plan \in Plans : ptlBuf'[r][plan] = buf[plan]
    BY BufferKinds DEF Buffers, AllBuffers
  <2>2. ASSUME NEW to \in AllBuffers PROVE Sent(dir, ptlBuf'[r])[to] = Sent(dir, buf)[to]
    <3>1. \A p : p \in Sent(dir, ptlBuf'[r])[to] <=> p \in Sent(dir, buf)[to]
      BY <1>1, <2>1, SentIs
    <3> QED
      BY <3>1 DEF Sent
  <2> QED
    BY <2>2 DEF Sent, AllBuffers
<1> HIDE DEF dir, data
<1>3. /\ data = [plan \in AllBuffers |-> data[plan]]
      /\ Once(data, AllBuffers)
      /\ \A to \in AllBuffers : data[to] # {} => to \in Later(dir)
      /\ TagsIn(buf, Later(prev)) = TagsIn(buf, Later(dir)) \cup TagsIn(data, AllBuffers)
      /\ TagsIn(buf, Later(dir)) \cap TagsIn(data, AllBuffers) = {}
  BY <1>1, <1>2, SentPart DEF dir
<1>4. message.kind = "ptlBuffers" /\ message.data = data /\ message.dir = dir
  OBVIOUS
<1>5. channel' = Put(Remaining(r), r, NeighborRank(r, dir), message)
  BY DEF dir, data
<1> HIDE DEF message
<1>6. OnceIn(message) /\ Carried(message) = TagsIn(data, AllBuffers)
  BY <1>3, <1>4, CarriedIs DEF OnceIn
<1>7. InBuffers(r)' = TagsIn(buf, Later(dir))
  BY DEF InBuffers, dir
<1>8. Once(buf, Later(dir))
  <2>1. Later(dir) \subseteq Later(prev)
    BY <1>1, LaterIs DEF dir, Later
  <2> QED
    BY <2>1 DEF Once
<1>9. OnceAt(r)'
  BY <1>3, <1>7, <1>8 DEF OnceAt, dir
<1>10. Got(r) = At(r)' \cup Carried(message) /\ At(r)' \cap Carried(message) = {}
  BY <1>3, <1>6, <1>7 DEF At
<1> QED
  BY <1>1, <1>5, <1>6, <1>9, <1>10, OwnedAfter

LEMMA OwnedBeginGPU ==
  ASSUME Ordered, Located, Owned, communicator = "GPU", NEW r \in Ranks, BeginMigrationGPU(r)
  PROVE  Owned'
<1>1. phase[r] = "moved" /\ GoesOn(r) /\ Remaining(r) = channel
  BY DEF BeginMigrationGPU, GoesOn, Remaining
<1>2. ptls[r] \in Seq(Particles(Near(r, -1))) /\ Distinct(ptls[r]) /\ mask[r] = {} /\ recvBuf[r] = {}
  BY <1>1 DEF Located, LocatedAt, SentUpTo, Owned, OnceAt
<1>3. /\ ptls = [q \in Ranks |-> ptls[q]] /\ mask = [q \in Ranks |-> mask[q]]
      /\ ptlBuf = [q \in Ranks |-> ptlBuf[q]] /\ recvBuf = [q \in Ranks |-> recvBuf[q]]
      /\ phase = [q \in Ranks |-> phase[q]] /\ stage = [q \in Ranks |-> stage[q]]
  BY DEF Located, Ordered
<1>4. mask' = [mask EXCEPT ![r] = Leaving(r)] /\ mask'[r] = Leaving(r)
  BY <1>3 DEF BeginMigrationGPU
<1>5. ptlBuf' = [ptlBuf EXCEPT ![r] = [ plan \in Plans |->
                  { ptls[r][i] : i \in {i \in mask'[r] : PlanOf(r, ptls[r][i].pos) = plan} } ]]
  BY DEF BeginMigrationGPU
<1>6. /\ phase' = [phase EXCEPT ![r] = "ptlBuffers"] /\ stage' = [stage EXCEPT ![r] = 1]
      /\ channel' = Put(Remaining(r), r, NeighborRank(r, Route[1]),
                        [dir |-> Route[1], kind |-> "ptlBuffers", data |-> Sent(Route[1], ptlBuf'[r])])
      /\ UNCHANGED <<ptls, recvBuf>>
  BY <1>1 DEF BeginMigrationGPU, SendBuffers
<1>7. OnlyAt(r) /\ phase'[r] = "ptlBuffers" /\ stage'[r] = 1
  BY <1>3, <1>4, <1>5, <1>6 DEF OnlyAt
<1>8. 1 \in DOMAIN Route /\ Before(-1, Route[1])
  BY RouteNext DEF Before, Sending, Directions
<1> DEFINE buf == Buffers(r)'
           planOf(i) == PlanOf(r, ptls[r][i].pos)
<1>9. /\ \A plan \in Plans : buf[plan] = { ptls[r][i] : i \in {i \in Leaving(r) : planOf(i) = plan} }
      /\ buf[Local] = {}
  <2>1. ptlBuf'[r] = [ plan \in Plans |->
                  { ptls[r][i] : i \in {i \in mask'[r] : PlanOf(r, ptls[r][i].pos) = plan} } ]
    BY <1>3, <1>5
  <2>2. \A plan \in Plans : buf[plan] = ptlBuf'[r][plan]
    BY BufferKinds DEF Buffers, AllBuffers
  <2>3. buf[Local] = recvBuf'[r]
    BY DEF Buffers, AllBuffers
  <2> QED
    BY <1>2, <1>4, <1>6, <2>1, <2>2, <2>3
<1>10. ASSUME NEW i \in Leaving(r)
       PROVE  i \in DOMAIN ptls[r] /\ planOf(i) \in Plans /\ planOf(i) \in Later(-1)
  <2>1. i \in DOMAIN ptls[r] /\ planOf(i) # {}
    BY DEF Leaving
  <2>2. ptls[r][i] \in Particles(Near(r, -1))
    BY <1>2, <2>1, ElementOfSeq, LenProperties
  <2>3. ptls[r][i].pos \in [Axes -> Int]
    BY <2>2 DEF Particles, Near
  <2>4. planOf(i) \in Plans
    BY <2>1, <2>3, PlanHasBuffer
  <2>5. \A f \in planOf(i) : f > -1
    BY <2>4, BufferKinds DEF AllBuffers, Sending, Directions
  <2> QED
    BY <2>1, <2>4, <2>5 DEF Later, AllBuffers
<1>11. InArrays(r)' = { ptls[r][i].tag : i \in DOMAIN ptls[r] \ Leaving(r) }
  BY <1>4, <1>6 DEF InArrays
<1> HIDE DEF buf, planOf
<1>12. ASSUME NEW plan \in Later(-1), NEW p \in buf[plan]
       PROVE  \E i \in Leaving(r) : p = ptls[r][i] /\ planOf(i) = plan
  BY <1>9 DEF Later, AllBuffers
<1>13. Once(buf, Later(-1))
  <2>1. SUFFICES ASSUME NEW plan \in Later(-1), NEW other \in Later(-1), NEW p \in buf[plan],
                        NEW q \in buf[other], p.tag = q.tag
                 PROVE  plan = other /\ p = q
    BY DEF Once
  <2>2. PICK i \in Leaving(r) : p = ptls[r][i] /\ planOf(i) = plan
    BY <1>12
  <2>3. PICK j \in Leaving(r) : q = ptls[r][j] /\ planOf(j) = other
    BY <1>12
  <2>4. i = j
    BY <1>2, <1>10, <2>1, <2>2, <2>3 DEF Distinct
  <2> QED
    BY <2>2, <2>3, <2>4
<1>14. TagsIn(buf, Later(-1)) = { ptls[r][i].tag : i \in Leaving(r) }
  <2>1. ASSUME NEW tag, tag \in TagsIn(buf, Later(-1)) PROVE \E i \in Leaving(r) : tag = ptls[r][i].tag
    <3>1. PICK plan \in Later(-1) : \E p \in buf[plan] : p.tag = tag
      BY <2>1, IsTagIn
    <3> QED
      BY <3>1, <1>12
  <2>2. ASSUME NEW i \in Leaving(r) PROVE ptls[r][i].tag \in TagsIn(buf, Later(-1))
    <3>1. planOf(i) \in Later(-1) /\ ptls[r][i] \in buf[planOf(i)]
      BY <1>9, <1>10
    <3> QED
      BY <3>1, IsTagIn
  <2> QED
    BY <2>1, <2>2
<1>15. Got(r) = { ptls[r][i].tag : i \in DOMAIN ptls[r] }
  BY <1>1, <1>2, InArraysOnly DEF Got, TagsOf
<1>16. Got(r) = InArrays(r)' \cup TagsIn(buf, Later(-1))
  BY <1>10, <1>11, <1>14, <1>15
<1>17. InArrays(r)' \cap TagsIn(buf, Later(-1)) = {}
  <2>1. ASSUME NEW i \in DOMAIN ptls[r] \ Leaving(r), NEW j \in Leaving(r), ptls[r][i].tag = ptls[r][j].tag
        PROVE  FALSE
    BY <1>2, <1>10, <2>1 DEF Distinct
  <2> QED
    BY <1>11, <1>14, <2>1
<1>18. Distinct(ptls'[r]) /\ buf = Buffers(r)'
  BY <1>2, <1>6 DEF buf
<1> QED
  BY <1>1, <1>6, <1>7, <1>8, <1>13, <1>16, <1>17, <1>18, SendOwned

LEMMA OwnedReceiveGPU ==
  ASSUME Ordered, Located, Owned, communicator = "GPU", NEW r \in Ranks, ReceiveParticlesGPU(r)
  PROVE  Owned'
<1> DEFINE data == Message(r).data
           k == stage[r] + 1
           prev == Route[stage[r]]
<1>1. /\ phase[r] = "ptlBuffers" /\ Arrived(r) /\ stage[r] < Len(Route)
      /\ ptlBuf' = [ptlBuf EXCEPT ![r] = Stored(ptlBuf[r], data)]
      /\ recvBuf' = [recvBuf EXCEPT ![r] = recvBuf[r] \cup data[Local]]
      /\ SendBuffers(r, k, "ptlBuffers", ptlBuf'[r], Taken(r))
      /\ UNCHANGED <<ptls, mask>>
  BY DEF ReceiveParticlesGPU
<1>2. /\ phase[r] \in Kinds(communicator) /\ GoesOn(r) /\ Remaining(r) = Taken(r)
      /\ stage[r] \in DOMAIN Route
  BY <1>1, OnTheGPU
<1>3. /\ ptls = [q \in Ranks |-> ptls[q]] /\ mask = [q \in Ranks |-> mask[q]]
      /\ ptlBuf = [q \in Ranks |-> ptlBuf[q]] /\ recvBuf = [q \in Ranks |-> recvBuf[q]]
      /\ phase = [q \in Ranks |-> phase[q]] /\ stage = [q \in Ranks |-> stage[q]]
  BY DEF Located, Ordered
<1>4. k \in DOMAIN Route
  BY <1>1, <1>2, RouteShape
<1>5. Before(prev, Route[k])
  <2>1. /\ prev \in -1 .. 5 /\ prev < Route[k]
        /\ \A other \in Sending : prev < other => Route[k] <= other
    BY <1>2, <1>4, NextDirection
  <2> QED
    BY <2>1 DEF Before
<1>6. /\ phase' = [phase EXCEPT ![r] = "ptlBuffers"] /\ stage' = [stage EXCEPT ![r] = k]
      /\ channel' = Put(Remaining(r), r, NeighborRank(r, Route[k]),
                        [dir |-> Route[k], kind |-> "ptlBuffers", data |-> Sent(Route[k], ptlBuf'[r])])
  BY <1>1, <1>2 DEF SendBuffers
<1>7. OnlyAt(r) /\ phase'[r] = "ptlBuffers" /\ stage'[r] = k
  BY <1>1, <1>3, <1>6 DEF OnlyAt
<1>8. Message(r).dir = prev /\ Message(r).kind = "ptlBuffers"
  BY <1>1, <1>2, FirstMessage
<1>9. At(r) \cap Carried(Message(r)) = {} /\ OnceIn(Message(r))
  BY <1>1, <1>2, ComesOnce
<1> DEFINE buf == Buffers(r)'
           old == Buffers(r)
<1>10. \A plan \in AllBuffers : buf[plan] = old[plan] \cup data[plan]
  <2>1. ptlBuf'[r] = [plan \in Plans |-> ptlBuf[r][plan] \cup data[plan]]
        /\ recvBuf'[r] = recvBuf[r] \cup data[Local]
    BY <1>1, <1>3 DEF Stored
  <2> QED
    BY <2>1 DEF Buffers, AllBuffers
<1> HIDE DEF data, k, prev, buf, old
<1>11. /\ Once(data, AllBuffers) /\ Carried(Message(r)) = TagsIn(data, AllBuffers)
       /\ \A plan \in AllBuffers : data[plan] # {} => plan \in Later(prev)
  BY <1>8, <1>9, CarriedIs DEF OnceIn, data
<1>12. TagsIn(data, AllBuffers) = TagsIn(data, Later(prev)) /\ Once(data, Later(prev))
  <2>1. Later(prev) \subseteq AllBuffers
    BY DEF Later
  <2>2. \A tag : tag \in TagsIn(data, AllBuffers) <=> tag \in TagsIn(data, Later(prev))
    BY <1>11, <2>1, IsTagIn
  <2>3. Once(data, Later(prev))
    BY <1>11, <2>1 DEF Once
  <2> QED
    BY <2>2, <2>3
<1>13. /\ Distinct(ptls[r]) /\ Once(old, Later(prev)) /\ InArrays(r) \cap InBuffers(r) = {}
       /\ InBuffers(r) = TagsIn(old, Later(prev))
  BY <1>1 DEF Owned, OnceAt, InBuffers, old, prev
<1>14. Once(buf, Later(prev)) /\ TagsIn(buf, Later(prev)) = TagsIn(old, Later(prev)) \cup TagsIn(data, Later(prev))
  <2>1. TagsIn(old, Later(prev)) \cap TagsIn(data, Later(prev)) = {}
    BY <1>9, <1>11, <1>12, <1>13 DEF At
  <2>2. \A plan \in Later(prev) : buf[plan] = old[plan] \cup data[plan]
    BY <1>10 DEF Later
  <2> QED
    BY <1>12, <1>13, <2>1, <2>2, StoredOnce
<1>15. InArrays(r)' = InArrays(r)
  BY <1>1 DEF InArrays
<1>16. Got(r) = InArrays(r) \cup TagsIn(buf, Later(prev))
  BY <1>1, <1>11, <1>12, <1>13, <1>14 DEF Got, At
<1>17. InArrays(r) \cap TagsIn(buf, Later(prev)) = {}
  BY <1>9, <1>11, <1>12, <1>13, <1>14 DEF At
<1>18. Distinct(ptls'[r]) /\ buf = Buffers(r)'
  BY <1>1, <1>13 DEF buf
<1>19. /\ Got(r) = InArrays(r)' \cup TagsIn(buf, Later(prev))
       /\ InArrays(r)' \cap TagsIn(buf, Later(prev)) = {}
  BY <1>15, <1>16, <1>17
<1> QED
  BY <1>2, <1>4, <1>5, <1>6, <1>7, <1>14, <1>18, <1>19, SendOwned

-----------------------------------------------------------------------------
(* The arrays are filled.                                                   *)

\* No tag is twice in a set, and none of it is of an element that stays.
OnceEach(new) == \A p, q \in new : p.tag = q.tag => p = q
Apart(old, gaps, new) == \A p \in new : \A i \in DOMAIN old \ gaps : p.tag # old[i].tag

KeptTags(old, gaps) == { old[i].tag : i \in DOMAIN old \ gaps }

\* A list that comes of one with gaps.
Fills(E, old, gaps, new, list) ==
    /\ old \in Seq(E) /\ gaps \subseteq DOMAIN old /\ IsFiniteSet(new)
    /\ Distinct(old) /\ OnceEach(new) /\ Apart(old, gaps, new)
    /\ list \in FilledLists(old, gaps, new)

\* gpu_migrate_fill_particle_arrays(): what stays, where it is or in a gap, and
\* what is new, each once.
LEMMA FilledOnce ==
  ASSUME NEW E, NEW old, NEW gaps, NEW new, NEW list, Fills(E, old, gaps, new, list)
  PROVE  /\ Distinct(list)
         /\ \A tag : tag \in TagsOf(list) <=> tag \in KeptTags(old, gaps) \/ \E p \in new : p.tag = tag
         /\ \A i \in DOMAIN list : i \in DOMAIN old \ gaps => list[i] = old[i]
         /\ DOMAIN list = 1 .. Len(list) /\ Len(list) \in Nat /\ DOMAIN old = 1 .. Len(old) /\ Len(old) \in Nat
<1> DEFINE n == Len(old) - Cardinality(gaps) + Cardinality(new)
           kept == { i \in DOMAIN old \ gaps : i <= n }
           later == { i \in DOMAIN old \ gaps : i > n }
           rest == { old[i] : i \in later }
<1>0. /\ old \in Seq(E) /\ gaps \in SUBSET (DOMAIN old) /\ IsFiniteSet(new)
      /\ Distinct(old) /\ OnceEach(new) /\ Apart(old, gaps, new)
      /\ list \in FilledLists(old, gaps, new)
  BY DEF Fills
<1>1. PICK fill \in Bijection((1 .. n) \ kept, new \cup rest) :
          list = [i \in 1 .. n |-> IF i \in kept THEN old[i] ELSE fill[i]]
  BY <1>0 DEF FilledLists
<1>2. n \in Nat /\ Len(old) \in Nat /\ DOMAIN old = 1 .. Len(old)
  <2>1. Len(old) \in Nat /\ DOMAIN old = 1 .. Len(old)
    BY <1>0, LenProperties
  <2>2. Cardinality(gaps) \in 0 .. Len(old)
    BY <1>0, <2>1, PositionsFinite
  <2>3. Cardinality(new) \in Nat
    BY <1>0, FS_CardinalityType
  <2> QED
    BY <2>1, <2>2, <2>3
<1>3. /\ kept \subseteq 1 .. n /\ later \cap (1 .. n) = {}
      /\ DOMAIN old \ gaps = kept \cup later /\ kept \cap later = {}
      /\ kept = (DOMAIN old \ gaps) \cap (1 .. n)
  <2> HIDE DEF n
  <2> QED
    BY <1>2
<1> HIDE DEF n, kept, later
<1>4. /\ fill \in [(1 .. n) \ kept -> new \cup rest]
      /\ \A i, j \in (1 .. n) \ kept : fill[i] = fill[j] => i = j
      /\ \A p \in new \cup rest : \E i \in (1 .. n) \ kept : fill[i] = p
  BY <1>1 DEF Bijection, Injection, Surjection, IsInjective
<1>5. /\ DOMAIN list = 1 .. n /\ \A i \in kept : list[i] = old[i]
      /\ \A i \in (1 .. n) \ kept : list[i] = fill[i]
  BY <1>1, <1>3
<1>6. list \in Seq(new \cup { old[i] : i \in DOMAIN old })
  <2>1. \A i \in 1 .. n : list[i] \in new \cup { old[m] : m \in DOMAIN old }
    BY <1>3, <1>4, <1>5
  <2>2. list = [i \in 1 .. n |-> list[i]]
    BY <1>1
  <2>3. list \in [1 .. n -> new \cup { old[m] : m \in DOMAIN old }]
    BY <2>1, <2>2
  <2> QED
    BY <1>2, <2>3, SeqDef
<1>7. ASSUME NEW i \in 1 .. n, i \notin kept
      PROVE  list[i] \in new \/ \E m \in later : list[i] = old[m]
  BY <1>4, <1>5, <1>7
<1>8. /\ \A p \in new : \A i \in kept \cup later : p.tag # old[i].tag
      /\ \A p, q \in new : p.tag = q.tag => p = q
  BY <1>0, <1>3 DEF Apart, OnceEach
<1>9. \A i, j \in kept \cup later : old[i].tag = old[j].tag => i = j
  BY <1>0, <1>3 DEF Distinct
<1>10. Distinct(list)
  <2>1. SUFFICES ASSUME NEW i \in 1 .. n, NEW j \in 1 .. n, list[i].tag = list[j].tag PROVE i = j
    BY <1>5 DEF Distinct
  <2>2. ASSUME NEW a \in 1 .. n, NEW b \in 1 .. n, a \in kept, b \notin kept PROVE list[a].tag # list[b].tag
    <3>1. list[a] = old[a]
      BY <1>5, <2>2
    <3>2. CASE list[b] \in new
      BY <1>8, <2>2, <3>1, <3>2
    <3>3. CASE \E m \in later : list[b] = old[m]
      <4>1. PICK m \in later : list[b] = old[m]
        BY <3>3
      <4>2. a # m /\ a \in kept \cup later /\ m \in kept \cup later
        BY <1>3, <2>2
      <4> QED
        BY <1>9, <3>1, <4>1, <4>2
    <3> QED
      BY <1>7, <2>2, <3>2, <3>3
  <2>3. CASE i \in kept /\ j \in kept
    BY <1>5, <1>9, <2>1, <2>3
  <2>4. CASE i \notin kept /\ j \notin kept
    <3>1. list[i] = list[j]
      BY <1>7, <1>8, <1>9, <2>1, <2>4
    <3>2. fill[i] = fill[j]
      BY <1>5, <2>4, <3>1
    <3> QED
      BY <1>4, <2>4, <3>2
  <2> QED
    BY <2>1, <2>2, <2>3, <2>4
<1>11. TagsOf(list) = { old[i].tag : i \in DOMAIN old \ gaps } \cup { p.tag : p \in new }
  <2>1. ASSUME NEW i \in 1 .. n
        PROVE  list[i].tag \in { old[m].tag : m \in DOMAIN old \ gaps } \cup { p.tag : p \in new }
    BY <1>3, <1>5, <1>7
  <2>2. ASSUME NEW m \in DOMAIN old \ gaps PROVE old[m].tag \in TagsOf(list)
    <3>1. CASE m \in kept
      BY <1>3, <1>5, <3>1 DEF TagsOf
    <3>2. CASE m \in later
      <4>1. PICK i \in (1 .. n) \ kept : fill[i] = old[m]
        BY <1>4, <3>2
      <4> QED
        BY <1>5, <4>1 DEF TagsOf
    <3> QED
      BY <1>3, <3>1, <3>2
  <2>3. ASSUME NEW p \in new PROVE p.tag \in TagsOf(list)
    <3>1. PICK i \in (1 .. n) \ kept : fill[i] = p
      BY <1>4
    <3> QED
      BY <1>5, <3>1 DEF TagsOf
  <2>4. \A tag : tag \in TagsOf(list) => \E i \in 1 .. n : tag = list[i].tag
    BY <1>5 DEF TagsOf
  <2> QED
    BY <2>1, <2>2, <2>3, <2>4
<1>12. \A i \in DOMAIN list : i \in DOMAIN old \ gaps => list[i] = old[i]
  BY <1>3, <1>5
<1>13. DOMAIN list = 1 .. Len(list) /\ Len(list) \in Nat
  BY <1>6, LenProperties
<1>14. \A tag : tag \in TagsOf(list) <=> tag \in KeptTags(old, gaps) \/ \E p \in new : p.tag = tag
  BY <1>11 DEF KeptTags
<1> QED
  BY <1>2, <1>10, <1>12, <1>13, <1>14

\* The end of the route: of the buffers, only what stays is left.
LEMMA NothingLater ==
  ASSUME NEW plan \in AllBuffers, plan \in Later(Route[Len(Route)])
  PROVE  plan = Local
<1>1. \A f \in plan : f \in Sending /\ f > Route[Len(Route)]
  BY BufferKinds DEF Later
<1>2. \A f \in Sending : f \in Int /\ f <= Route[Len(Route)] /\ Route[Len(Route)] \in Int
  BY RouteNext DEF Sending, Directions
<1>3. plan = {}
  BY <1>1, <1>2
<1> QED
  BY <1>3 DEF Local

AllWrapped(r, received) == { Particle(p.tag, Wrapped(r, p.pos)) : p \in received }

LEMMA WrappedTags ==
  ASSUME NEW r \in Ranks, NEW received
  PROVE  /\ \A tag : (\E p \in AllWrapped(r, received) : p.tag = tag) <=> \E p \in received : p.tag = tag
         /\ OnceEach(received) => OnceEach(AllWrapped(r, received))
         /\ IsFiniteSet(received) => IsFiniteSet(AllWrapped(r, received))
<1> DEFINE f == [p \in received |-> Particle(p.tag, Wrapped(r, p.pos))]
           new == {f[p] : p \in received}
<1>1. \A p \in received : f[p].tag = p.tag
  BY DEF Particle
<1>2. new = AllWrapped(r, received) /\ f = [p \in received |-> f[p]]
  BY DEF AllWrapped
<1> HIDE DEF f
<1>3. \A tag : (\E p \in new : p.tag = tag) <=> \E p \in received : p.tag = tag
  BY <1>1
<1>4. ASSUME OnceEach(received) PROVE OnceEach(new)
  <2>1. ASSUME NEW p \in received, NEW q \in received, f[p].tag = f[q].tag PROVE f[p] = f[q]
    BY <1>1, <1>4, <2>1 DEF OnceEach
  <2> QED
    BY <2>1 DEF OnceEach
<1>5. IsFiniteSet(received) => IsFiniteSet(new)
  BY <1>2, FiniteImage
<1> QED
  BY <1>2, <1>3, <1>4, <1>5

\* What has come for a rank by the end of the route, for its arrays.
ForArrays(r) == AllWrapped(r, recvBuf[r] \cup Message(r).data[Local])

LEMMA CompleteFills ==
  ASSUME Ordered, Located, Owned, NEW r \in Ranks, CompleteParticlesGPU(r),
         NEW list \in FilledLists(ptls[r], mask[r], ForArrays(r))
  PROVE  /\ Fills(Particles(Near(r, -1)), ptls[r], mask[r], ForArrays(r), list)
         /\ \A tag : (\E p \in ForArrays(r) : p.tag = tag) <=> tag \in InBuffers(r) \/ tag \in Carried(Message(r))
<1> DEFINE data == Message(r).data
           prev == Route[stage[r]]
           received == recvBuf[r] \cup data[Local]
           new == ForArrays(r)
           old == Buffers(r)
<1>1. phase[r] = "ptlBuffers" /\ Arrived(r) /\ stage[r] = Len(Route)
  BY DEF CompleteParticlesGPU
<1>2. /\ phase[r] \in Kinds(communicator) /\ GoesOn(r) /\ Remaining(r) = Taken(r)
      /\ stage[r] \in DOMAIN Route
      /\ \A plan \in Plans \cup {Local} : data[plan] \in Some(Particles(Heading(r, plan)))
  BY <1>1, OnTheGPU
<1>3. LocatedAt(r) /\ OnceAt(r)
  BY DEF Located, Owned
<1>4. /\ ptls[r] \in Seq(Particles(Near(r, -1))) /\ mask[r] = Leaving(r) /\ mask[r] \in SUBSET (DOMAIN ptls[r])
      /\ recvBuf[r] \in Some(Particles(Heading(r, Local)))
  BY <1>1, <1>3 DEF LocatedAt, SentUpTo, Leaving
<1>6. new = AllWrapped(r, received)
  BY DEF ForArrays
<1>7. Message(r).dir = prev /\ Message(r).kind = "ptlBuffers"
  BY <1>1, <1>2, FirstMessage
<1>8. At(r) \cap Carried(Message(r)) = {} /\ OnceIn(Message(r))
  BY <1>1, <1>2, ComesOnce
<1>9. received \in Some(Particles(Heading(r, Local)))
  <2>1. data[Local] \in Some(Particles(Heading(r, Local)))
    BY <1>2
  <2> HIDE DEF data
  <2> QED
    BY <1>4, <2>1, SomeOf
<1>10. IsFiniteSet(received) /\ IsFiniteSet(new)
  <2>1. IsFiniteSet(received)
    BY <1>9 DEF Some
  <2> HIDE DEF received, new
  <2>2. IsFiniteSet(new)
    BY <1>6, <2>1, WrappedTags
  <2> QED
    BY <2>1, <2>2
<1>11. old[Local] = recvBuf[r] /\ Local \in AllBuffers /\ Local \in Later(prev)
  BY DEF Buffers, AllBuffers, Local, Later
<1>12. \A tag : (\E p \in new : p.tag = tag) <=> \E p \in received : p.tag = tag
  <2> HIDE DEF new, received
  <2> QED
    BY <1>6, WrappedTags
<1>14. \A plan \in Later(prev) : plan = Local
  BY <1>1, NothingLater DEF Later
<1> HIDE DEF data, prev, old
<1>15. /\ Once(data, AllBuffers) /\ Carried(Message(r)) = TagsIn(data, AllBuffers)
       /\ \A plan \in AllBuffers : data[plan] # {} => plan \in Later(prev)
  BY <1>7, <1>8, CarriedIs DEF OnceIn, data
<1>16. /\ Distinct(ptls[r]) /\ Once(old, Later(prev)) /\ InArrays(r) \cap InBuffers(r) = {}
       /\ InBuffers(r) = TagsIn(old, Later(prev))
  BY <1>1, <1>3 DEF OnceAt, InBuffers, old, prev
<1>17. ASSUME NEW tag
       PROVE  /\ tag \in InBuffers(r) <=> \E p \in recvBuf[r] : p.tag = tag
              /\ tag \in Carried(Message(r)) <=> \E p \in data[Local] : p.tag = tag
  <2>1. tag \in TagsIn(old, Later(prev)) <=> \E p \in old[Local] : p.tag = tag
    BY <1>11, <1>14, IsTagIn
  <2>2. \A plan \in AllBuffers : data[plan] # {} => plan = Local
    BY <1>14, <1>15
  <2>3. tag \in TagsIn(data, AllBuffers) <=> \E p \in data[Local] : p.tag = tag
    BY <1>11, <2>2, IsTagIn
  <2> QED
    BY <1>11, <1>15, <1>16, <2>1, <2>3
<1>18. OnceEach(received)
  <2>1. ASSUME NEW p \in recvBuf[r], NEW q \in data[Local] PROVE p.tag # q.tag
    <3>1. p.tag \in InBuffers(r) /\ q.tag \in Carried(Message(r))
      BY <1>17
    <3> QED
      BY <1>8, <3>1 DEF At
  <2>2. \A p, q \in recvBuf[r] : p.tag = q.tag => p = q
    BY <1>11, <1>16 DEF Once
  <2>3. \A p, q \in data[Local] : p.tag = q.tag => p = q
    BY <1>11, <1>15 DEF Once
  <2> QED
    BY <2>1, <2>2, <2>3 DEF OnceEach
<1>19. OnceEach(new)
  <2> HIDE DEF received, new
  <2> QED
    BY <1>6, <1>18, WrappedTags
<1> HIDE DEF new
<1>20. ASSUME NEW tag
       PROVE  (\E p \in received : p.tag = tag) <=> tag \in InBuffers(r) \/ tag \in Carried(Message(r))
  BY <1>17
<1> HIDE DEF received
<1>21. Apart(ptls[r], mask[r], new)
  <2>1. ASSUME NEW p \in new, NEW i \in DOMAIN ptls[r] \ mask[r], p.tag = ptls[r][i].tag PROVE FALSE
    <3>1. ptls[r][i].tag \in InArrays(r)
      BY DEF InArrays
    <3>2. p.tag \in InBuffers(r) \/ p.tag \in Carried(Message(r))
      BY <1>12, <1>20
    <3> QED
      BY <1>8, <1>16, <2>1, <3>1, <3>2 DEF At
  <2> QED
    BY <2>1 DEF Apart
<1>22. Fills(Particles(Near(r, -1)), ptls[r], mask[r], new, list)
  BY <1>4, <1>10, <1>16, <1>19, <1>21 DEF Fills, new
<1>23. \A tag : (\E p \in new : p.tag = tag) <=> tag \in InBuffers(r) \/ tag \in Carried(Message(r))
  BY <1>12, <1>20
<1> QED
  BY <1>22, <1>23 DEF new

LEMMA OwnedCompleteGPU ==
  ASSUME Ordered, Located, Owned, communicator = "GPU", NEW r \in Ranks, CompleteParticlesGPU(r)
  PROVE  Owned'
<1>1. /\ phase[r] = "ptlBuffers" /\ Arrived(r)
      /\ FillParticles(r, recvBuf[r] \cup Message(r).data[Local])
      /\ mask' = [mask EXCEPT ![r] = {}]
      /\ ptlBuf' = [ptlBuf EXCEPT ![r] = NoElements]
      /\ recvBuf' = [recvBuf EXCEPT ![r] = {}]
      /\ IF BondTags = {} THEN Done(r)
         ELSE SendBuffers(r, 1, "bondBuffers", bondBuf[r], Taken(r))
  BY DEF CompleteParticlesGPU
<1>2. GoesOn(r) /\ Remaining(r) = Taken(r)
  BY <1>1, OnTheGPU
<1>3. /\ ptls = [q \in Ranks |-> ptls[q]] /\ mask = [q \in Ranks |-> mask[q]]
      /\ ptlBuf = [q \in Ranks |-> ptlBuf[q]] /\ recvBuf = [q \in Ranks |-> recvBuf[q]]
      /\ phase = [q \in Ranks |-> phase[q]] /\ stage = [q \in Ranks |-> stage[q]]
  BY DEF Located, Ordered
<1>6. PICK list \in FilledLists(ptls[r], mask[r], ForArrays(r)) : ptls' = [ptls EXCEPT ![r] = list]
  BY <1>1 DEF FillParticles, ForArrays, AllWrapped
<1>22. /\ Distinct(list)
       /\ \A tag : tag \in TagsOf(list) <=> tag \in KeptTags(ptls[r], mask[r]) \/ \E p \in ForArrays(r) : p.tag = tag
  BY CompleteFills, FilledOnce
<1>23. TagsOf(list) = Got(r)
  <2>1. Got(r) = InArrays(r) \cup InBuffers(r) \cup Carried(Message(r))
    BY <1>1 DEF Got, At
  <2>2. KeptTags(ptls[r], mask[r]) = InArrays(r)
    BY DEF KeptTags, InArrays
  <2>3. \A tag : tag \in TagsOf(list) <=> tag \in Got(r)
    BY CompleteFills, <1>22, <2>1, <2>2
  <2> QED
    BY <2>3 DEF TagsOf, Got
<1>24. ptls'[r] = list /\ mask'[r] = {}
  BY <1>1, <1>3, <1>6
<1>25. ASSUME phase'[r] # "ptlBuffers" PROVE At(r)' = Got(r) /\ OnceAt(r)'
  <2>1. At(r)' = TagsOf(list) /\ InBuffers(r)' = {}
    BY <1>24, <1>25 DEF At, InArrays, InBuffers, TagsOf
  <2> QED
    BY <1>22, <1>23, <1>24, <1>25, <2>1 DEF OnceAt
<1>26. CASE BondTags = {}
  <2>1. /\ phase' = [phase EXCEPT ![r] = "idle"] /\ stage' = [stage EXCEPT ![r] = 0]
        /\ channel' = Remaining(r)
    BY <1>1, <1>2, <1>26 DEF Done
  <2>2. OnlyAt(r) /\ phase'[r] = "idle"
    BY <1>1, <1>3, <1>6, <1>24, <2>1 DEF OnlyAt
  <2> QED
    BY <1>2, <1>25, <2>1, <2>2, OwnedAtEnd
<1>27. CASE BondTags # {}
  <2> DEFINE message == [dir |-> Route[1], kind |-> "bondBuffers", data |-> Sent(Route[1], bondBuf[r])]
  <2>1. /\ phase' = [phase EXCEPT ![r] = "bondBuffers"] /\ stage' = [stage EXCEPT ![r] = 1]
        /\ channel' = Put(Remaining(r), r, NeighborRank(r, Route[1]), message)
    BY <1>1, <1>2, <1>27 DEF SendBuffers
  <2>2. OnlyAt(r) /\ phase'[r] = "bondBuffers"
    BY <1>1, <1>3, <1>6, <1>24, <2>1 DEF OnlyAt
  <2>3. OnceIn(message) /\ Carried(message) = {}
    BY DEF OnceIn, Carried
  <2>4. NeighborRank(r, Route[1]) \in Ranks
    BY RouteNext, NeighborIs DEF Sending
  <2>5. At(r)' = Got(r) /\ OnceAt(r)'
    BY <1>25, <2>2
  <2> HIDE DEF message
  <2> QED
    BY <1>2, <2>1, <2>2, <2>3, <2>4, <2>5, OwnedAfter
<1> QED
  BY <1>26, <1>27

\* The bonds do not touch the particles.
LEMMA OwnedBondsGPU ==
  ASSUME Ordered, Located, Owned, communicator = "GPU", NEW r \in Ranks,
         ReceiveBondsGPU(r) \/ CompleteBondsGPU(r)
  PROVE  Owned'
<1>1. /\ phase[r] = "bondBuffers" /\ Arrived(r) /\ UNCHANGED <<ptls, mask, ptlBuf>>
      /\ recvBuf' = [recvBuf EXCEPT ![r] = recvBuf'[r]]
  BY DEF ReceiveBondsGPU, CompleteBondsGPU, Located
<1>2. /\ phase[r] \in Kinds(communicator) /\ GoesOn(r) /\ Remaining(r) = Taken(r)
      /\ stage[r] \in DOMAIN Route
  BY <1>1, OnTheGPU
<1>3. /\ ptls = [q \in Ranks |-> ptls[q]] /\ mask = [q \in Ranks |-> mask[q]]
      /\ ptlBuf = [q \in Ranks |-> ptlBuf[q]] /\ recvBuf = [q \in Ranks |-> recvBuf[q]]
      /\ phase = [q \in Ranks |-> phase[q]] /\ stage = [q \in Ranks |-> stage[q]]
      /\ OnceAt(r)
  BY DEF Located, Ordered, Owned
<1>4. Carried(Message(r)) = {}
  <2>1. Message(r).kind = "bondBuffers"
    BY <1>1, <1>2, FirstMessage
  <2> QED
    BY <2>1 DEF Carried
<1>5. Got(r) = InArrays(r)
  BY <1>1, <1>4 DEF Got, At, InBuffers
<1>6. ASSUME phase'[r] # "ptlBuffers" PROVE At(r)' = Got(r) /\ OnceAt(r)'
  <2>1. InArrays(r)' = InArrays(r) /\ InBuffers(r)' = {}
    BY <1>1, <1>6 DEF InArrays, InBuffers
  <2>2. Distinct(ptls'[r])
    BY <1>1, <1>3 DEF OnceAt
  <2> QED
    BY <1>5, <1>6, <2>1, <2>2 DEF At, OnceAt
<1>7. CASE ReceiveBondsGPU(r)
  <2> DEFINE k == stage[r] + 1
             message == [dir |-> Route[k], kind |-> "bondBuffers", data |-> Sent(Route[k], bondBuf'[r])]
  <2>1. /\ stage[r] < Len(Route)
        /\ phase' = [phase EXCEPT ![r] = "bondBuffers"] /\ stage' = [stage EXCEPT ![r] = k]
        /\ channel' = Put(Remaining(r), r, NeighborRank(r, Route[k]), message)
    BY <1>2, <1>7 DEF ReceiveBondsGPU, SendBuffers
  <2>2. OnlyAt(r) /\ phase'[r] = "bondBuffers"
    BY <1>1, <1>3, <2>1 DEF OnlyAt
  <2>3. OnceIn(message) /\ Carried(message) = {}
    BY DEF OnceIn, Carried
  <2>4. NeighborRank(r, Route[k]) \in Ranks
    <3>1. k \in DOMAIN Route
      BY <1>2, <2>1, RouteShape
    <3> QED
      BY <3>1, RouteNext, NeighborIs DEF Sending
  <2>5. At(r)' = Got(r) /\ OnceAt(r)'
    BY <1>6, <2>2
  <2> HIDE DEF message, k
  <2> QED
    BY <1>2, <2>1, <2>2, <2>3, <2>4, <2>5, OwnedAfter
<1>8. CASE CompleteBondsGPU(r)
  <2>1. /\ phase' = [phase EXCEPT ![r] = "idle"] /\ stage' = [stage EXCEPT ![r] = 0]
        /\ channel' = Remaining(r)
    BY <1>2, <1>8 DEF CompleteBondsGPU, Done
  <2>2. OnlyAt(r) /\ phase'[r] = "idle"
    BY <1>1, <1>3, <2>1 DEF OnlyAt
  <2> QED
    BY <1>2, <1>6, <2>1, <2>2, OwnedAtEnd
<1> QED
  BY <1>7, <1>8

-----------------------------------------------------------------------------
(* Every particle is owned once in every reachable state.                   *)

LEMMA OwnedInit ==
  ASSUME Init
  PROVE  Owned
<1>1. PICK home \in [Tags -> Ranks] :
          ptls = [ r \in Ranks |->
                     [ i \in DOMAIN SetToSeq({ tag \in Tags : home[tag] = r }) |->
                         Particle(SetToSeq({ tag \in Tags : home[tag] = r })[i], GridPos(r)) ] ]
  BY DEF Init
<1>2. /\ phase = [r \in Ranks |-> "idle"] /\ channel = [pair \in Ranks \X Ranks |-> <<>>]
      /\ mask = [r \in Ranks |-> {}]
  BY DEF Init
<1>3. ASSUME NEW r \in Ranks
      PROVE  OnceAt(r) /\ At(r) = { tag \in Tags : home[tag] = r }
  <2> DEFINE here == { tag \in Tags : home[tag] = r }
             tags == SetToSeq(here)
  <2>1. IsFiniteSet(here)
    BY MigrationAssumption, FS_Subset
  <2>2. /\ tags \in Seq(here) /\ DOMAIN tags = 1 .. Len(tags)
        /\ \A i, j \in DOMAIN tags : tags[i] = tags[j] => i = j
        /\ \A e \in here : \E i \in DOMAIN tags : tags[i] = e
    BY <2>1, ListOfSet, LenProperties
  <2>3. ptls[r] = [i \in DOMAIN tags |-> Particle(tags[i], GridPos(r))]
    BY <1>1
  <2>4. \A i \in DOMAIN tags : tags[i] \in here
    BY <2>2, ElementOfSeq
  <2> HIDE DEF tags
  <2>5. DOMAIN ptls[r] = DOMAIN tags /\ \A i \in DOMAIN ptls[r] : ptls[r][i].tag = tags[i]
    BY <2>3 DEF Particle
  <2>6. Distinct(ptls[r])
    BY <2>2, <2>5 DEF Distinct
  <2>7. InArrays(r) = here
    <3>1. ASSUME NEW tag PROVE tag \in InArrays(r) <=> tag \in here
      <4>1. tag \in InArrays(r) <=> \E i \in DOMAIN ptls[r] : ptls[r][i].tag = tag
        BY <1>2 DEF InArrays
      <4>2. tag \in here <=> \E i \in DOMAIN tags : tags[i] = tag
        BY <2>2, <2>4
      <4> QED
        BY <2>5, <4>1, <4>2
    <3> QED
      BY <3>1
  <2>8. InBuffers(r) = {} /\ phase[r] # "ptlBuffers"
    BY <1>2 DEF InBuffers
  <2> QED
    BY <2>6, <2>7, <2>8 DEF OnceAt, At
<1>4. \A pair \in Ranks \X Ranks : DOMAIN channel[pair] = {}
  BY <1>2
<1>5. Exclusive([r \in Ranks |-> At(r)], channel)
  <2>1. \A tag \in Tags : home[tag] \in Ranks
    OBVIOUS
  <2>2. \A r \in Ranks : \A tag : tag \in At(r) <=> tag \in Tags /\ home[tag] = r
    BY <1>3
  <2> QED
    BY <1>4, <2>1, <2>2 DEF Exclusive
<1> QED
  BY <1>3, <1>4, <1>5 DEF Owned

LEMMA OwnedIntegrate ==
  ASSUME Ordered, Located, Owned, Integrate
  PROVE  Owned'
<1>1. PICK m \in Motions : ptls' = [r \in Ranks |-> Moved(ptls[r], m.step)]
  BY DEF Integrate
<1>2. /\ \A r \in Ranks : phase[r] = "idle" /\ phase'[r] = "moved"
      /\ channel' = channel /\ mask' = mask
  BY DEF Integrate, buffers
<1>3. ASSUME NEW r \in Ranks PROVE OnceAt(r)' /\ At(r)' = At(r)
  <2>1. DOMAIN ptls'[r] = DOMAIN ptls[r] /\ \A i \in DOMAIN ptls[r] : ptls'[r][i].tag = ptls[r][i].tag
    BY <1>1 DEF Moved, Particle
  <2>2. Distinct(ptls[r])
    BY DEF Owned, OnceAt
  <2>3. Distinct(ptls'[r])
    BY <2>1, <2>2 DEF Distinct
  <2>4. InArrays(r)' = InArrays(r)
    BY <1>2, <2>1 DEF InArrays
  <2>5. InBuffers(r)' = {} /\ InBuffers(r) = {} /\ phase'[r] # "ptlBuffers"
    BY <1>2 DEF InBuffers
  <2> QED
    BY <2>3, <2>4, <2>5 DEF OnceAt, At
<1>4. [r \in Ranks |-> At(r)'] = [r \in Ranks |-> At(r)]
  BY <1>3
<1>5. Exclusive([r \in Ranks |-> At(r)'], channel')
  BY <1>2, <1>4 DEF Owned
<1> QED
  BY <1>2, <1>3, <1>5 DEF Owned

LEMMA OwnedNext ==
  ASSUME Ordered, Located, Owned, [Next]_vars
  PROVE  Owned'
<1>1. CASE Integrate
  BY <1>1, OwnedIntegrate
<1>2. ASSUME NEW r \in Ranks, RankStep(r) PROVE Owned'
  <2>1. CASE communicator = "CPU" /\ CPUStep(r) /\ UNCHANGED buffers
    BY <2>1, OwnedBegin, OwnedReceive, OwnedReceiveBonds DEF CPUStep
  <2>2. CASE communicator = "GPU" /\ GPUStep(r)
    BY <2>2, OwnedBeginGPU, OwnedReceiveGPU, OwnedCompleteGPU, OwnedBondsGPU DEF GPUStep
  <2> QED
    BY <1>2, <2>1, <2>2 DEF RankStep
<1>3. CASE UNCHANGED vars
  <2>1. UNCHANGED <<phase, stage, ptls, channel, mask, ptlBuf, recvBuf>>
    BY <1>3 DEF vars, migrationVars, buffers
  <2>2. ASSUME NEW r \in Ranks PROVE OnceAt(r)' /\ At(r)' = At(r)
    <3>1. InArrays(r)' = InArrays(r) /\ Buffers(r)' = Buffers(r)
      BY <2>1 DEF InArrays, Buffers
    <3>2. InBuffers(r)' = InBuffers(r)
      BY <2>1, <3>1 DEF InBuffers
    <3> QED
      BY <2>1, <3>1, <3>2 DEF OnceAt, At, Owned
  <2>3. [r \in Ranks |-> At(r)'] = [r \in Ranks |-> At(r)]
    BY <2>2
  <2>4. Exclusive([r \in Ranks |-> At(r)'], channel')
    BY <2>1, <2>3 DEF Owned
  <2> QED
    BY <2>1, <2>2, <2>4 DEF Owned
<1> QED
  BY <1>1, <1>2, <1>3 DEF Next

\* Communicator.cc, migrateParticles(), and CommunicatorGPU.cc: the tags that
\* the ranks have in their arrays, in the buffers that are still to be sent and
\* in the messages on their way are all different, and all tags are there.
THEOREM AlwaysOwned == Spec => []Owned
<1>1. Init => Owned
  BY OwnedInit
<1>2. Ordered /\ Located /\ Owned /\ [Next]_vars => Owned'
  BY OwnedNext
<1> QED
  BY <1>1, <1>2, AlwaysOrdered, AlwaysLocated, PTL DEF Spec

-----------------------------------------------------------------------------
(* The places of a tag are counted.                                         *)

LEMMA AtMostOne ==
  ASSUME NEW S, \A x, y \in S : x = y
  PROVE  Cardinality(S) = IF S = {} THEN 0 ELSE 1
<1>1. CASE S = {}
  BY <1>1, FS_EmptySet
<1>2. CASE S # {}
  <2>1. PICK x \in S : TRUE
    BY <1>2
  <2>2. S = {x}
    BY <2>1
  <2> QED
    BY <1>2, <2>2, FS_Singleton
<1> QED
  BY <1>1, <1>2

LEMMA IsHeld ==
  ASSUME NEW tag, NEW x
  PROVE  x \in HeldAt(tag) <=>
             \E r \in Ranks : \E i \in DOMAIN ptls[r] \ mask[r] : x = <<r, i>> /\ ptls[r][i].tag = tag
BY DEF HeldAt

LEMMA IsSent ==
  ASSUME NEW tag, NEW x
  PROVE  x \in SentAt(tag) <=>
             \E pair \in Ranks \X Ranks : \E k \in DOMAIN channel[pair] :
                 x = <<pair, k>> /\ tag \in Carried(channel[pair][k])
BY DEF SentAt

LEMMA IsBuffered ==
  ASSUME NEW tag, NEW x
  PROVE  x \in BufferedAt(tag) <=>
             \E r \in Ranks : \E plan \in Later(Route[stage[r]]) :
                 x = <<r, plan>> /\ phase[r] = "ptlBuffers" /\ \E p \in Buffers(r)[plan] : p.tag = tag
<1>1. ASSUME NEW r \in Ranks, NEW plan \in AllBuffers
      PROVE  /\ Buffers(r)[plan] = IF plan = Local THEN recvBuf[r] ELSE ptlBuf[r][plan]
             /\ StillToSend(r, plan) <=> plan \in Later(Route[stage[r]])
  BY DEF Buffers, StillToSend, Later
<1>2. x \in BufferedAt(tag) <=>
          \E r \in Ranks : \E plan \in AllBuffers :
              /\ x = <<r, plan>> /\ phase[r] = "ptlBuffers" /\ StillToSend(r, plan)
              /\ \E p \in IF plan = Local THEN recvBuf[r] ELSE ptlBuf[r][plan] : p.tag = tag
  BY DEF BufferedAt, AllBuffers
<1>3. \A r \in Ranks : Later(Route[stage[r]]) \subseteq AllBuffers
  BY DEF Later
<1> QED
  BY <1>1, <1>2, <1>3

LEMMA CountedOnce ==
  ASSUME Owned, NEW tag \in Tags
  PROVE  Cardinality(HeldAt(tag)) + Cardinality(SentAt(tag)) + Cardinality(BufferedAt(tag)) = 1
<1> DEFINE at == [r \in Ranks |-> At(r)]
<1>1. Exclusive(at, channel) /\ \A r \in Ranks : OnceAt(r) /\ at[r] = InArrays(r) \cup InBuffers(r)
  BY DEF Owned, At
<1> HIDE DEF at
<1>2. ASSUME NEW r \in Ranks
      PROVE  /\ tag \in InArrays(r) <=> \E i \in DOMAIN ptls[r] \ mask[r] : ptls[r][i].tag = tag
             /\ tag \in InBuffers(r) <=>
                    /\ phase[r] = "ptlBuffers"
                    /\ \E plan \in Later(Route[stage[r]]) : \E p \in Buffers(r)[plan] : p.tag = tag
  BY IsTagIn DEF InArrays, InBuffers
<1>3. \A x, y \in HeldAt(tag) : x = y
  <2>1. SUFFICES ASSUME NEW x, NEW y, x \in HeldAt(tag), y \in HeldAt(tag) PROVE x = y
    OBVIOUS
  <2>2. PICK r, i : r \in Ranks /\ i \in DOMAIN ptls[r] \ mask[r] /\ x = <<r, i>> /\ ptls[r][i].tag = tag
    BY <2>1, IsHeld
  <2>3. PICK q, j : q \in Ranks /\ j \in DOMAIN ptls[q] \ mask[q] /\ y = <<q, j>> /\ ptls[q][j].tag = tag
    BY <2>1, IsHeld
  <2>4. tag \in at[r] /\ tag \in at[q]
    BY <1>1, <1>2, <2>2, <2>3
  <2>5. r = q
    BY <1>1, <2>2, <2>3, <2>4 DEF Exclusive
  <2>6. i = j
    BY <1>1, <2>2, <2>3, <2>5 DEF OnceAt, Distinct
  <2> QED
    BY <2>2, <2>3, <2>5, <2>6
<1>4. \A x, y \in SentAt(tag) : x = y
  <2>1. SUFFICES ASSUME NEW x, NEW y, x \in SentAt(tag), y \in SentAt(tag) PROVE x = y
    OBVIOUS
  <2>2. PICK pair, k : pair \in Ranks \X Ranks /\ k \in DOMAIN channel[pair] /\
            x = <<pair, k>> /\ tag \in Carried(channel[pair][k])
    BY <2>1, IsSent
  <2>3. PICK other, l : other \in Ranks \X Ranks /\ l \in DOMAIN channel[other] /\
            y = <<other, l>> /\ tag \in Carried(channel[other][l])
    BY <2>1, IsSent
  <2>4. pair = other /\ k = l
    BY <1>1, <2>2, <2>3 DEF Exclusive
  <2> QED
    BY <2>2, <2>3, <2>4
<1>5. \A x, y \in BufferedAt(tag) : x = y
  <2>1. SUFFICES ASSUME NEW x, NEW y, x \in BufferedAt(tag), y \in BufferedAt(tag) PROVE x = y
    OBVIOUS
  <2>2. PICK r, plan : r \in Ranks /\ plan \in Later(Route[stage[r]]) /\
            x = <<r, plan>> /\ phase[r] = "ptlBuffers" /\ \E p \in Buffers(r)[plan] : p.tag = tag
    BY <2>1, IsBuffered
  <2>3. PICK q, other : q \in Ranks /\ other \in Later(Route[stage[q]]) /\
            y = <<q, other>> /\ phase[q] = "ptlBuffers" /\ \E p \in Buffers(q)[other] : p.tag = tag
    BY <2>1, IsBuffered
  <2>4. tag \in at[r] /\ tag \in at[q]
    BY <1>1, <1>2, <2>2, <2>3
  <2>5. r = q
    BY <1>1, <2>2, <2>3, <2>4 DEF Exclusive
  <2>6. Once(Buffers(r), Later(Route[stage[r]]))
    BY <1>1, <2>2 DEF OnceAt
  <2>7. plan = other
    BY <2>2, <2>3, <2>5, <2>6 DEF Once
  <2> QED
    BY <2>2, <2>3, <2>5, <2>7
<1>6. HeldAt(tag) # {} <=> \E r \in Ranks : tag \in InArrays(r)
  <2>1. ASSUME NEW x, x \in HeldAt(tag) PROVE \E r \in Ranks : tag \in InArrays(r)
    BY <1>2, <2>1, IsHeld
  <2>2. ASSUME NEW r \in Ranks, tag \in InArrays(r) PROVE HeldAt(tag) # {}
    <3>1. PICK i \in DOMAIN ptls[r] \ mask[r] : ptls[r][i].tag = tag
      BY <1>2, <2>2
    <3>2. <<r, i>> \in HeldAt(tag)
      BY <3>1, IsHeld
    <3> QED
      BY <3>2
  <2> QED
    BY <2>1, <2>2
<1>7. BufferedAt(tag) # {} <=> \E r \in Ranks : tag \in InBuffers(r)
  <2>1. ASSUME NEW x, x \in BufferedAt(tag) PROVE \E r \in Ranks : tag \in InBuffers(r)
    BY <1>2, <2>1, IsBuffered
  <2>2. ASSUME NEW r \in Ranks, tag \in InBuffers(r) PROVE BufferedAt(tag) # {}
    <3>1. PICK plan \in Later(Route[stage[r]]) : phase[r] = "ptlBuffers" /\ \E p \in Buffers(r)[plan] : p.tag = tag
      BY <1>2, <2>2
    <3>2. <<r, plan>> \in BufferedAt(tag)
      BY <3>1, IsBuffered
    <3> QED
      BY <3>2
  <2> QED
    BY <2>1, <2>2
<1>8. SentAt(tag) # {} <=> \E pair \in Ranks \X Ranks : \E k \in DOMAIN channel[pair] :
                                tag \in Carried(channel[pair][k])
  <2>1. ASSUME NEW pair \in Ranks \X Ranks, NEW k \in DOMAIN channel[pair], tag \in Carried(channel[pair][k])
        PROVE  SentAt(tag) # {}
    <3>1. <<pair, k>> \in SentAt(tag)
      BY <2>1, IsSent
    <3> QED
      BY <3>1
  <2>2. ASSUME NEW x, x \in SentAt(tag)
        PROVE  \E pair \in Ranks \X Ranks : \E k \in DOMAIN channel[pair] : tag \in Carried(channel[pair][k])
    BY <2>2, IsSent
  <2> QED
    BY <2>1, <2>2
<1>9. HeldAt(tag) # {} \/ SentAt(tag) # {} \/ BufferedAt(tag) # {}
  BY <1>1, <1>6, <1>7, <1>8 DEF Exclusive
<1>10. ~ (HeldAt(tag) # {} /\ SentAt(tag) # {})
  BY <1>1, <1>6, <1>8 DEF Exclusive
<1>11. ~ (BufferedAt(tag) # {} /\ SentAt(tag) # {})
  BY <1>1, <1>7, <1>8 DEF Exclusive
<1>12. ~ (HeldAt(tag) # {} /\ BufferedAt(tag) # {})
  <2>1. SUFFICES ASSUME NEW r \in Ranks, NEW q \in Ranks, tag \in InArrays(r), tag \in InBuffers(q) PROVE FALSE
    BY <1>6, <1>7
  <2>2. r = q
    BY <1>1, <2>1 DEF Exclusive
  <2>3. InArrays(r) \cap InBuffers(r) = {}
    BY <1>1 DEF OnceAt
  <2> QED
    BY <2>1, <2>2, <2>3
<1>13. /\ Cardinality(HeldAt(tag)) = (IF HeldAt(tag) = {} THEN 0 ELSE 1)
       /\ Cardinality(SentAt(tag)) = (IF SentAt(tag) = {} THEN 0 ELSE 1)
       /\ Cardinality(BufferedAt(tag)) = (IF BufferedAt(tag) = {} THEN 0 ELSE 1)
  BY <1>3, <1>4, <1>5, AtMostOne
<1> QED
  BY <1>9, <1>10, <1>11, <1>12, <1>13

\* Communicator.cc 462 and 592, and CommunicatorGPU.cc 470: while particles are
\* removed from one rank, sent on through others and appended or filled into the
\* arrays of another, none is lost and none doubled, on any grid.
THEOREM NeverLost == Spec => []OneOwner
<1>1. Owned => OneOwner
  BY CountedOnce DEF OneOwner
<1> QED
  BY <1>1, AlwaysOwned, PTL

-----------------------------------------------------------------------------
(* The reverse lookup.  On each rank it has the index of every particle in  *)
(* the arrays, except of those that are marked to leave, and no other index;*)
(* until the migration begins, also those of the ghosts behind them.        *)

Single(tags) == \A i, j \in DOMAIN tags : tags[i] = tags[j] => i = j

IsIndex(index, list, gaps) ==
    /\ index = [tag \in Tags |-> index[tag]]
    /\ \A i \in DOMAIN list : index[list[i].tag] = IF i \in gaps THEN NOT_LOCAL ELSE i - 1
    /\ \A tag \in Tags \ TagsOf(list) : index[tag] = NOT_LOCAL

\* The tags of the arrays, with those of the ghosts.
AllTags(r) == TagList(ptls[r]) \o nghosts[r]

IndexedAt(r) ==
    IF phase[r] = "moved"
    THEN /\ nghosts[r] \in Seq(Tags) /\ Single(nghosts[r])
         /\ \A k \in DOMAIN nghosts[r] : nghosts[r][k] \notin TagsOf(ptls[r])
         /\ rtag[r] = Numbered(NoIndex, AllTags(r))
    ELSE nghosts[r] = <<>> /\ IsIndex(rtag[r], ptls[r], mask[r])

Indexed ==
    /\ rtag = [r \in Ranks |-> rtag[r]] /\ nghosts = [r \in Ranks |-> nghosts[r]]
    /\ \A r \in Ranks : IndexedAt(r)

LEMMA NumberedIs ==
  ASSUME NEW T, NEW tags \in Seq(T), Single(tags), NEW index
  PROVE  /\ Numbered(index, tags) = [tag \in Tags |-> Numbered(index, tags)[tag]]
         /\ \A i \in DOMAIN tags : tags[i] \in Tags => Numbered(index, tags)[tags[i]] = i - 1
         /\ \A tag \in Tags : (\A i \in DOMAIN tags : tags[i] # tag) =>
                Numbered(index, tags)[tag] = index[tag]
<1>1. DOMAIN tags = 1 .. Len(tags)
  BY LenProperties
<1>2. ASSUME NEW i \in DOMAIN tags
      PROVE  (CHOOSE j \in DOMAIN tags : tags[j] = tags[i]) = i
  BY DEF Single
<1>3. ASSUME NEW i \in DOMAIN tags, tags[i] \in Tags PROVE Numbered(index, tags)[tags[i]] = i - 1
  <2>1. Contains(tags, tags[i])
    BY <1>1 DEF Contains
  <2> QED
    BY <1>2, <1>3, <2>1 DEF Numbered
<1>4. ASSUME NEW tag \in Tags, \A i \in DOMAIN tags : tags[i] # tag
      PROVE  Numbered(index, tags)[tag] = index[tag]
  <2>1. ~ Contains(tags, tag)
    BY <1>1, <1>4 DEF Contains
  <2> QED
    BY <2>1 DEF Numbered
<1>5. Numbered(index, tags) = [tag \in Tags |-> Numbered(index, tags)[tag]]
  BY DEF Numbered
<1> QED
  BY <1>3, <1>4, <1>5

LEMMA NumberedForm ==
  ASSUME NEW tags, NEW index
  PROVE  Numbered(index, tags) = [tag \in Tags |-> Numbered(index, tags)[tag]]
BY DEF Numbered

LEMMA ForgottenIs ==
  ASSUME NEW T, NEW tags \in Seq(T), NEW index
  PROVE  /\ Forgotten(index, tags) = [tag \in Tags |-> Forgotten(index, tags)[tag]]
         /\ \A i \in DOMAIN tags : tags[i] \in Tags => Forgotten(index, tags)[tags[i]] = NOT_LOCAL
         /\ \A tag \in Tags : (\A i \in DOMAIN tags : tags[i] # tag) =>
                Forgotten(index, tags)[tag] = index[tag]
<1>1. DOMAIN tags = 1 .. Len(tags)
  BY LenProperties
<1>2. ASSUME NEW tag \in Tags
      PROVE  Forgotten(index, tags)[tag] = IF \E i \in DOMAIN tags : tags[i] = tag THEN NOT_LOCAL ELSE index[tag]
  BY <1>1 DEF Forgotten, Contains
<1>3. Forgotten(index, tags) = [tag \in Tags |-> Forgotten(index, tags)[tag]]
  BY DEF Forgotten
<1> QED
  BY <1>2, <1>3

\* The tags of a list of particles.
LEMMA TagListIs ==
  ASSUME NEW S, NEW list \in Seq(Particles(S))
  PROVE  /\ TagList(list) \in Seq(Tags) /\ Len(TagList(list)) = Len(list)
         /\ DOMAIN TagList(list) = DOMAIN list
         /\ \A i \in DOMAIN list : TagList(list)[i] = list[i].tag /\ list[i].tag \in Tags
         /\ Distinct(list) => Single(TagList(list))
<1>1. DOMAIN list = 1 .. Len(list) /\ Len(list) \in Nat
  BY LenProperties
<1>2. \A i \in DOMAIN list : list[i].tag \in Tags
  BY ElementOfSeq, LenProperties, ParticleIs
<1>3. TagList(list) = [i \in 1 .. Len(list) |-> list[i].tag]
  BY <1>1 DEF TagList
<1>4. TagList(list) \in Seq(Tags)
  BY <1>1, <1>2, <1>3, SeqDef
<1>5. Len(TagList(list)) = Len(list)
  BY <1>1, <1>3, <1>4, LenProperties
<1>6. Distinct(list) => Single(TagList(list))
  BY <1>1, <1>3 DEF Distinct, Single
<1> QED
  BY <1>1, <1>2, <1>3, <1>4, <1>5, <1>6

Joins(T, tags, more, all) ==
    /\ tags \in Seq(T) /\ more \in Seq(T) /\ Single(tags) /\ Single(more)
    /\ \A i \in DOMAIN tags, k \in DOMAIN more : tags[i] # more[k]
    /\ all = tags \o more

LEMMA JoinedTags ==
  ASSUME NEW T, NEW tags, NEW more, NEW all, Joins(T, tags, more, all)
  PROVE  /\ all \in Seq(T) /\ Single(all)
         /\ \A i \in DOMAIN tags : i \in DOMAIN all /\ all[i] = tags[i]
         /\ \A k \in DOMAIN more : \E i \in DOMAIN all : all[i] = more[k]
         /\ \A i \in DOMAIN all :
                \/ i \in DOMAIN tags /\ all[i] = tags[i]
                \/ \E k \in DOMAIN more : all[i] = more[k]
<1> DEFINE m == Len(tags)
           n == Len(more)
<1>1. /\ m \in Nat /\ n \in Nat /\ DOMAIN tags = 1 .. m /\ DOMAIN more = 1 .. n
      /\ all \in Seq(T) /\ Len(all) = m + n
      /\ \A i \in 1 .. m + n : all[i] = IF i <= m THEN tags[i] ELSE more[i - m]
  BY LenProperties, ConcatProperties DEF Joins
<1>2. DOMAIN all = 1 .. m + n
  BY <1>1, LenProperties
<1> HIDE DEF m, n
<1>3. ASSUME NEW i \in DOMAIN all
      PROVE  /\ i \in Nat
             /\ \/ i \in DOMAIN tags /\ i <= m /\ all[i] = tags[i]
                \/ i - m \in DOMAIN more /\ i > m /\ all[i] = more[i - m]
  BY <1>1, <1>2
<1>4. ASSUME NEW i \in DOMAIN tags PROVE i \in DOMAIN all /\ all[i] = tags[i]
  <2>1. i \in Nat /\ 1 <= i /\ i <= m
    BY <1>1
  <2> QED
    BY <1>1, <1>2, <2>1
<1>5. ASSUME NEW i \in DOMAIN more PROVE i + m \in DOMAIN all /\ all[i + m] = more[i]
  <2>1. i \in Nat /\ 1 <= i /\ i <= n
    BY <1>1
  <2>2. i + m \in 1 .. m + n /\ ~ (i + m <= m) /\ (i + m) - m = i
    BY <1>1, <2>1
  <2> QED
    BY <1>1, <1>2, <2>2
<1>6. ASSUME NEW i \in DOMAIN all, NEW j \in DOMAIN all, all[i] = all[j]
      PROVE  i = j
  <2>1. CASE i <= m /\ j <= m
    <3>1. i \in DOMAIN tags /\ j \in DOMAIN tags /\ tags[i] = tags[j]
      BY <1>1, <1>3, <1>6, <2>1
    <3> QED
      BY <3>1 DEF Single, Joins
  <2>2. CASE i > m /\ j > m
    <3>1. i - m \in DOMAIN more /\ j - m \in DOMAIN more /\ more[i - m] = more[j - m]
      BY <1>1, <1>3, <1>6, <2>2
    <3>2. i - m = j - m
      BY <3>1 DEF Single, Joins
    <3> QED
      BY <1>1, <1>3, <3>2
  <2>3. CASE i <= m /\ j > m
    <3>0. i \in DOMAIN tags /\ all[i] = tags[i] /\ j - m \in DOMAIN more /\ all[j] = more[j - m]
      BY <1>1, <1>3, <2>3
    <3> QED
      BY <1>6, <3>0 DEF Joins
  <2>4. CASE i > m /\ j <= m
    <3>0. j \in DOMAIN tags /\ all[j] = tags[j] /\ i - m \in DOMAIN more /\ all[i] = more[i - m]
      BY <1>1, <1>3, <2>4
    <3> QED
      BY <1>6, <3>0 DEF Joins
  <2> QED
    BY <1>1, <1>3, <2>1, <2>2, <2>3, <2>4
<1>7. Single(all)
  BY <1>6 DEF Single, Joins
<1>8. \A k \in DOMAIN more : \E i \in DOMAIN all : all[i] = more[k]
  BY <1>5
<1>9. \A i \in DOMAIN all :
        \/ i \in DOMAIN tags /\ all[i] = tags[i]
        \/ \E k \in DOMAIN more : all[i] = more[k]
  BY <1>3
<1> QED
  BY <1>1, <1>4, <1>7, <1>8, <1>9

\* Numbering the particles of a list that holds all that have an index.
LEMMA NumberedIndex ==
  ASSUME NEW S, NEW list \in Seq(Particles(S)), Distinct(list),
         NEW old, \A tag \in Tags \ TagsOf(list) : old[tag] = NOT_LOCAL
  PROVE  IsIndex(Numbered(old, TagList(list)), list, {})
<1> DEFINE tags == TagList(list)
           index == Numbered(old, tags)
<1>1. /\ tags \in Seq(Tags) /\ DOMAIN tags = DOMAIN list /\ Single(tags)
      /\ \A i \in DOMAIN list : tags[i] = list[i].tag /\ list[i].tag \in Tags
  BY TagListIs
<1> HIDE DEF tags
<1>2. /\ index = [tag \in Tags |-> index[tag]]
      /\ \A i \in DOMAIN tags : tags[i] \in Tags => index[tags[i]] = i - 1
      /\ \A tag \in Tags : (\A i \in DOMAIN tags : tags[i] # tag) => index[tag] = old[tag]
  BY <1>1, NumberedIs
<1> HIDE DEF index
<1>3. \A i \in DOMAIN list : index[list[i].tag] = i - 1
  BY <1>1, <1>2
<1>4. ASSUME NEW tag \in Tags \ TagsOf(list) PROVE index[tag] = NOT_LOCAL
  <2>1. \A i \in DOMAIN tags : tags[i] # tag
    BY <1>1 DEF TagsOf
  <2> QED
    BY <1>2, <2>1
<1>5. IsIndex(index, list, {})
  BY <1>2, <1>3, <1>4 DEF IsIndex
<1> QED
  BY <1>5 DEF index, tags

LEMMA OneIndex ==
  ASSUME NEW list, NEW gaps, NEW index, NEW other, IsIndex(index, list, gaps), IsIndex(other, list, gaps)
  PROVE  index = other
<1>1. ASSUME NEW tag \in Tags PROVE index[tag] = other[tag]
  <2>1. CASE tag \in TagsOf(list)
    <3>1. PICK i \in DOMAIN list : tag = list[i].tag
      BY <2>1 DEF TagsOf
    <3> QED
      BY <3>1 DEF IsIndex
  <2>2. CASE tag \notin TagsOf(list)
    BY <2>2 DEF IsIndex
  <2> QED
    BY <2>1, <2>2
<1>2. index = [tag \in Tags |-> index[tag]] /\ other = [tag \in Tags |-> other[tag]]
  BY DEF IsIndex
<1> QED
  BY <1>1, <1>2

\* Where every rank is: all arrays are lists of particles, each there once.
LEMMA ArraysAre ==
  ASSUME Located, Owned, NEW r \in Ranks
  PROVE  ptls[r] \in Seq(Particles(Near(r, SentUpTo(r)))) /\ Distinct(ptls[r])
BY DEF Located, LocatedAt, Owned, OnceAt

\* The tags of the arrays and of the ghosts behind them.
LEMMA AllTagsAre ==
  ASSUME NEW S, NEW r \in Ranks, ptls[r] \in Seq(Particles(S)), Distinct(ptls[r]),
         nghosts[r] \in Seq(Tags), Single(nghosts[r]),
         \A k \in DOMAIN nghosts[r] : nghosts[r][k] \notin TagsOf(ptls[r])
  PROVE  /\ AllTags(r) \in Seq(Tags) /\ Single(AllTags(r))
         /\ \A i \in DOMAIN ptls[r] : i \in DOMAIN AllTags(r) /\ AllTags(r)[i] = ptls[r][i].tag
         /\ \A k \in DOMAIN nghosts[r] : \E i \in DOMAIN AllTags(r) : AllTags(r)[i] = nghosts[r][k]
         /\ \A i \in DOMAIN AllTags(r) : \/ i \in DOMAIN ptls[r] /\ AllTags(r)[i] = ptls[r][i].tag
                                         \/ \E k \in DOMAIN nghosts[r] : AllTags(r)[i] = nghosts[r][k]
<1> DEFINE tags == TagList(ptls[r])
           more == nghosts[r]
           all == AllTags(r)
<1>1. /\ tags \in Seq(Tags) /\ DOMAIN tags = DOMAIN ptls[r] /\ Single(tags)
      /\ \A i \in DOMAIN ptls[r] : tags[i] = ptls[r][i].tag
      /\ more \in Seq(Tags) /\ Single(more)
  BY TagListIs
<1>2. \A i \in DOMAIN tags, k \in DOMAIN more : tags[i] # more[k]
  BY <1>1 DEF TagsOf
<1>3. all = tags \o more
  BY DEF AllTags
<1> HIDE DEF tags, more, all
<1>4. Joins(Tags, tags, more, all)
  BY <1>1, <1>2, <1>3 DEF Joins
<1>5. /\ all \in Seq(Tags) /\ Single(all)
      /\ \A i \in DOMAIN tags : i \in DOMAIN all /\ all[i] = tags[i]
      /\ \A k \in DOMAIN more : \E i \in DOMAIN all : all[i] = more[k]
      /\ \A i \in DOMAIN all :
                \/ i \in DOMAIN tags /\ all[i] = tags[i]
                \/ \E k \in DOMAIN more : all[i] = more[k]
  BY <1>4, JoinedTags
<1> QED
  BY <1>1, <1>5 DEF all, more

\* migrateParticles() begins: without the ghosts, the lookup is of the arrays.
LEMMA GhostsForgotten ==
  ASSUME Located, Owned, Indexed, NEW r \in Ranks, phase[r] = "moved"
  PROVE  IsIndex(Forgotten(rtag[r], nghosts[r]), ptls[r], {})
<1> DEFINE index == Forgotten(rtag[r], nghosts[r])
<1>1. /\ nghosts[r] \in Seq(Tags) /\ Single(nghosts[r])
      /\ \A k \in DOMAIN nghosts[r] : nghosts[r][k] \notin TagsOf(ptls[r])
      /\ rtag[r] = Numbered(NoIndex, AllTags(r))
  BY DEF Indexed, IndexedAt
<1>2. ptls[r] \in Seq(Particles(Near(r, SentUpTo(r)))) /\ Distinct(ptls[r])
  BY ArraysAre
<1>3. \A i \in DOMAIN ptls[r] : ptls[r][i].tag \in Tags
  BY <1>2, TagListIs
<1>4. /\ AllTags(r) \in Seq(Tags) /\ Single(AllTags(r))
      /\ \A i \in DOMAIN ptls[r] : i \in DOMAIN AllTags(r) /\ AllTags(r)[i] = ptls[r][i].tag
      /\ \A i \in DOMAIN AllTags(r) : \/ i \in DOMAIN ptls[r] /\ AllTags(r)[i] = ptls[r][i].tag
                                      \/ \E k \in DOMAIN nghosts[r] : AllTags(r)[i] = nghosts[r][k]
  BY <1>1, <1>2, AllTagsAre
<1>5. /\ \A i \in DOMAIN AllTags(r) : AllTags(r)[i] \in Tags => rtag[r][AllTags(r)[i]] = i - 1
      /\ \A tag \in Tags : (\A i \in DOMAIN AllTags(r) : AllTags(r)[i] # tag) => rtag[r][tag] = NoIndex[tag]
  BY <1>1, <1>4, NumberedIs
<1>6. /\ index = [tag \in Tags |-> index[tag]]
      /\ \A k \in DOMAIN nghosts[r] : nghosts[r][k] \in Tags => index[nghosts[r][k]] = NOT_LOCAL
      /\ \A tag \in Tags : (\A k \in DOMAIN nghosts[r] : nghosts[r][k] # tag) => index[tag] = rtag[r][tag]
  BY <1>1, ForgottenIs
<1> HIDE DEF index
<1>7. ASSUME NEW i \in DOMAIN ptls[r] PROVE index[ptls[r][i].tag] = i - 1
  <2>1. \A k \in DOMAIN nghosts[r] : nghosts[r][k] # ptls[r][i].tag
    BY <1>1 DEF TagsOf
  <2>2. index[ptls[r][i].tag] = rtag[r][ptls[r][i].tag]
    BY <1>3, <1>6, <2>1
  <2> QED
    BY <1>3, <1>4, <1>5, <2>2
<1>8. ASSUME NEW tag \in Tags, tag \notin TagsOf(ptls[r]) PROVE index[tag] = NOT_LOCAL
  <2>1. CASE \E k \in DOMAIN nghosts[r] : nghosts[r][k] = tag
    BY <1>6, <2>1
  <2>2. CASE \A k \in DOMAIN nghosts[r] : nghosts[r][k] # tag
    <3>1. \A i \in DOMAIN AllTags(r) : AllTags(r)[i] # tag
      BY <1>4, <1>8, <2>2 DEF TagsOf
    <3> QED
      BY <1>5, <1>6, <2>2, <3>1 DEF NoIndex
  <2> QED
    BY <2>1, <2>2
<1>9. IsIndex(index, ptls[r], {})
  BY <1>6, <1>7, <1>8 DEF IsIndex
<1> QED
  BY <1>9 DEF index

\* The partition: what stays comes first, and keeps these indices.
LEMMA StayingIndex ==
  ASSUME NEW S, NEW stay \in Seq(Particles(S)), NEW leave \in Seq(Particles(S)), Distinct(stay), Distinct(leave),
         TagsOf(stay) \cap TagsOf(leave) = {},
         NEW old, \A tag \in Tags \ (TagsOf(stay) \cup TagsOf(leave)) : old[tag] = NOT_LOCAL
  PROVE  IsIndex(Forgotten(Numbered(old, TagList(stay \o leave)), TagList(leave)), stay, {})
<1> DEFINE both == stay \o leave
           index == Numbered(old, TagList(both))
           new == Forgotten(index, TagList(leave))
<1>1. Distinct(both) /\ TagsOf(both) = TagsOf(stay) \cup TagsOf(leave)
  BY JoinedOnce
<1>2. /\ both \in Seq(Particles(S)) /\ DOMAIN both = 1 .. Len(stay) + Len(leave)
      /\ DOMAIN stay = 1 .. Len(stay) /\ Len(stay) \in Nat /\ Len(leave) \in Nat
      /\ \A i \in 1 .. Len(stay) + Len(leave) : both[i] = IF i <= Len(stay) THEN stay[i] ELSE leave[i - Len(stay)]
  BY ConcatProperties, LenProperties
<1> HIDE DEF both
<1>3. \A i \in DOMAIN stay : i \in DOMAIN both /\ both[i] = stay[i]
  BY <1>2
<1>4. IsIndex(index, both, {})
  BY <1>1, <1>2, NumberedIndex
<1>5. /\ TagList(leave) \in Seq(Tags) /\ DOMAIN TagList(leave) = DOMAIN leave
      /\ \A i \in DOMAIN leave : TagList(leave)[i] = leave[i].tag /\ leave[i].tag \in Tags
      /\ \A i \in DOMAIN stay : stay[i].tag \in Tags
  BY TagListIs
<1> HIDE DEF index
<1>6. /\ new = [tag \in Tags |-> new[tag]]
      /\ \A i \in DOMAIN TagList(leave) : TagList(leave)[i] \in Tags => new[TagList(leave)[i]] = NOT_LOCAL
      /\ \A tag \in Tags : (\A i \in DOMAIN TagList(leave) : TagList(leave)[i] # tag) => new[tag] = index[tag]
  BY <1>5, ForgottenIs
<1> HIDE DEF new
<1>7. ASSUME NEW i \in DOMAIN stay PROVE new[stay[i].tag] = i - 1
  <2>1. \A j \in DOMAIN leave : leave[j].tag # stay[i].tag
    BY DEF TagsOf
  <2>2. new[stay[i].tag] = index[stay[i].tag]
    BY <1>5, <1>6, <2>1
  <2> QED
    BY <1>3, <1>4, <2>2 DEF IsIndex
<1>8. ASSUME NEW tag \in Tags \ TagsOf(stay) PROVE new[tag] = NOT_LOCAL
  <2>1. CASE \E j \in DOMAIN leave : leave[j].tag = tag
    BY <1>5, <1>6, <2>1
  <2>2. CASE \A j \in DOMAIN leave : leave[j].tag # tag
    <3>1. tag \notin TagsOf(both)
      BY <1>1, <2>2 DEF TagsOf
    <3>2. new[tag] = index[tag]
      BY <1>5, <1>6, <2>2
    <3> QED
      BY <1>4, <3>1, <3>2 DEF IsIndex
  <2> QED
    BY <2>1, <2>2
<1>9. IsIndex(new, stay, {})
  BY <1>6, <1>7, <1>8 DEF IsIndex
<1> QED
  BY <1>9 DEF new, index, both

\* A step of a rank leaves the lookups of the others alone.
LEMMA IndexedAfter ==
  ASSUME Ordered, Located, Indexed, NEW r \in Ranks, IndexedAt(r)',
         phase' = [phase EXCEPT ![r] = phase'[r]], ptls' = [ptls EXCEPT ![r] = ptls'[r]],
         mask' = [mask EXCEPT ![r] = mask'[r]], rtag' = [rtag EXCEPT ![r] = rtag'[r]],
         nghosts' = [nghosts EXCEPT ![r] = nghosts'[r]]
  PROVE  Indexed'
<1>1. /\ phase = [q \in Ranks |-> phase[q]] /\ ptls = [q \in Ranks |-> ptls[q]]
      /\ mask = [q \in Ranks |-> mask[q]] /\ rtag = [q \in Ranks |-> rtag[q]]
      /\ nghosts = [q \in Ranks |-> nghosts[q]]
  BY DEF Ordered, Located, Indexed
<1>2. ASSUME NEW q \in Ranks, q # r PROVE IndexedAt(q)'
  <2>1. /\ phase'[q] = phase[q] /\ ptls'[q] = ptls[q] /\ mask'[q] = mask[q]
        /\ rtag'[q] = rtag[q] /\ nghosts'[q] = nghosts[q]
    BY <1>1, <1>2
  <2>2. IndexedAt(q) /\ AllTags(q)' = AllTags(q)
    BY <2>1 DEF Indexed, AllTags
  <2> QED
    BY <2>1, <2>2 DEF IndexedAt
<1> QED
  BY <1>1, <1>2 DEF Indexed

LEMMA StartIndexed ==
  ASSUME Ordered, Located, Owned, Indexed, NEW r \in Ranks,
         NEW k, NEW S, NEW list \in Seq(Particles(S)), Distinct(list), NEW old, IsIndex(old, list, {}),
         NEW bonds, NEW chan, StartStage(r, k, list, old, bonds, chan),
         mask[r] = {}, mask' = mask, nghosts' = [nghosts EXCEPT ![r] = <<>>]
  PROVE  Indexed'
<1>1. /\ phase = [q \in Ranks |-> phase[q]] /\ ptls = [q \in Ranks |-> ptls[q]]
      /\ mask = [q \in Ranks |-> mask[q]] /\ rtag = [q \in Ranks |-> rtag[q]]
      /\ nghosts = [q \in Ranks |-> nghosts[q]]
  BY DEF Ordered, Located, Indexed
<1>2. CASE k > Len(Route)
  <2>1. /\ phase' = [phase EXCEPT ![r] = "idle"] /\ ptls' = [ptls EXCEPT ![r] = list]
        /\ rtag' = [rtag EXCEPT ![r] = old]
    BY <1>2 DEF StartStage
  <2>2. IndexedAt(r)'
    BY <1>1, <2>1 DEF IndexedAt
  <2> QED
    BY <1>1, <2>1, <2>2, IndexedAfter
<1>3. CASE ~ (k > Len(Route))
  <2> DEFINE dir == Route[k]
             stay == Stays(r, dir, list)
             leave == Leaves(r, dir, list)
             index == Numbered(old, TagList(stay \o leave))
  <2>1. /\ phase' = [phase EXCEPT ![r] = "particles"] /\ ptls' = [ptls EXCEPT ![r] = stay]
        /\ rtag' = [rtag EXCEPT ![r] = Forgotten(Numbered(old, TagList(ptls'[r] \o leave)), TagList(leave))]
    BY <1>3 DEF StartStage
  <2>2. ptls'[r] = stay /\ phase'[r] = "particles" /\ rtag'[r] = Forgotten(index, TagList(leave))
    BY <1>1, <2>1
  <2>3. /\ stay = Picked(list, DOMAIN list \ Beyond(r, dir, list)) /\ leave = Picked(list, Beyond(r, dir, list))
        /\ Beyond(r, dir, list) \in SUBSET (DOMAIN list)
        /\ DOMAIN list \ Beyond(r, dir, list) \in SUBSET (DOMAIN list)
    BY DEF Stays, Leaves, Beyond
  <2>4. \A i \in DOMAIN list : list[i] \in Particles(S)
    BY ElementOfSeq, LenProperties
  <2> HIDE DEF stay, leave, dir
  <2>5. stay \in Seq(Particles(S)) /\ leave \in Seq(Particles(S))
    BY <2>3, <2>4, PickedIn
  <2>6. /\ Distinct(stay) /\ Distinct(leave) /\ TagsOf(list) = TagsOf(stay) \cup TagsOf(leave)
        /\ TagsOf(stay) \cap TagsOf(leave) = {}
    BY <2>3, PartitionOnce
  <2>7. \A tag \in Tags \ (TagsOf(stay) \cup TagsOf(leave)) : old[tag] = NOT_LOCAL
    BY <2>6 DEF IsIndex
  <2>8. IsIndex(Forgotten(index, TagList(leave)), stay, {})
    BY <2>5, <2>6, <2>7, StayingIndex
  <2>9. IndexedAt(r)'
    <3>1. mask'[r] = {} /\ nghosts'[r] = <<>> /\ phase'[r] # "moved"
      BY <1>1, <2>2
    <3>2. IsIndex(rtag'[r], ptls'[r], mask'[r])
      BY <2>2, <2>8, <3>1
    <3> QED
      BY <3>1, <3>2 DEF IndexedAt
  <2> QED
    BY <1>1, <2>1, <2>9, IndexedAfter
<1> QED
  BY <1>2, <1>3

LEMMA IndexedCPU ==
  ASSUME Ordered, Located, Owned, Indexed, communicator = "CPU", NEW r \in Ranks, CPUStep(r), UNCHANGED buffers
  PROVE  Indexed'
<1>1. mask' = mask /\ nghosts = [q \in Ranks |-> nghosts[q]]
  BY DEF buffers, Indexed
<1>2. ptls[r] \in Seq(Particles(Near(r, SentUpTo(r)))) /\ Distinct(ptls[r])
  BY ArraysAre
<1>3. ASSUME BeginMigration(r) PROVE Indexed'
  <2>1. phase[r] = "moved" /\ nghosts' = [nghosts EXCEPT ![r] = <<>>]
    BY <1>3 DEF BeginMigration
  <2>2. mask[r] = {}
    BY <2>1, OnTheCPU DEF GoesOn
  <2>3. IsIndex(Forgotten(rtag[r], nghosts[r]), ptls[r], {})
    BY <2>1, GhostsForgotten
  <2>4. StartStage(r, 1, ptls[r], Forgotten(rtag[r], nghosts[r]), table[r].bonds, channel)
    BY <1>3 DEF BeginMigration
  <2> QED
    BY <1>1, <1>2, <2>1, <2>2, <2>3, <2>4, StartIndexed
<1>4. ASSUME phase[r] \in {"particles", "bonds"}, Arrived(r), nghosts' = nghosts
      PROVE  /\ GoesOn(r) /\ mask[r] = {} /\ nghosts' = [nghosts EXCEPT ![r] = <<>>]
             /\ IsIndex(rtag[r], ptls[r], {})
  <2>1. GoesOn(r)
    BY <1>4 DEF GoesOn, Ordered
  <2>2. mask[r] = {}
    BY <2>1, OnTheCPU
  <2>3. nghosts[r] = <<>> /\ IsIndex(rtag[r], ptls[r], mask[r])
    BY <1>4 DEF Indexed, IndexedAt
  <2>4. nghosts' = [nghosts EXCEPT ![r] = <<>>]
    BY <1>1, <1>4, <2>3
  <2> QED
    BY <2>1, <2>2, <2>3, <2>4
<1>5. ASSUME ReceiveParticles(r) PROVE Indexed'
  <2> DEFINE new == [i \in DOMAIN Message(r).data |->
                       Particle(Message(r).data[i].tag, Wrapped(r, Message(r).data[i].pos))]
             list == ptls[r] \o new
             index == Numbered(rtag[r], TagList(list))
  <2>1. phase[r] = "particles" /\ Arrived(r) /\ nghosts' = nghosts
    BY <1>5 DEF ReceiveParticles
  <2>2. /\ GoesOn(r) /\ mask[r] = {} /\ nghosts' = [nghosts EXCEPT ![r] = <<>>]
        /\ IsIndex(rtag[r], ptls[r], {})
    BY <1>4, <2>1
  <2>3. list \in Seq(Particles(Near(r, SentUpTo(r)))) /\ Distinct(list) /\ TagsOf(list) = Got(r)
    BY <2>1, <2>2, ReceivedLocated, ReceivedOnce
  <2>4. IF BondTags = {}
        THEN StartStage(r, stage[r] + 1, list, index, <<>>, Taken(r))
        ELSE /\ ptls' = [ptls EXCEPT ![r] = list]
             /\ rtag' = [rtag EXCEPT ![r] = index]
             /\ phase' = [phase EXCEPT ![r] = "bonds"]
    BY <1>5 DEF ReceiveParticles
  <2> HIDE DEF list
  <2>5. TagsOf(ptls[r]) \subseteq TagsOf(list)
    <3>1. TagsOf(ptls[r]) = At(r)
      BY <2>1, <2>2, InArraysOnly
    <3> QED
      BY <2>3, <3>1 DEF Got
  <2>6. IsIndex(index, list, {})
    <3>1. \A tag \in Tags \ TagsOf(list) : rtag[r][tag] = NOT_LOCAL
      BY <2>2, <2>5 DEF IsIndex
    <3> QED
      BY <2>3, <3>1, NumberedIndex
  <2> HIDE DEF index
  <2>7. CASE BondTags = {}
    <3>1. StartStage(r, stage[r] + 1, list, index, <<>>, Taken(r))
      BY <2>4, <2>7
    <3> QED
      BY <1>1, <2>2, <2>3, <2>6, <3>1, StartIndexed
  <2>8. CASE BondTags # {}
    <3>1. /\ phase = [q \in Ranks |-> phase[q]] /\ ptls = [q \in Ranks |-> ptls[q]]
          /\ mask = [q \in Ranks |-> mask[q]] /\ rtag = [q \in Ranks |-> rtag[q]]
      BY DEF Ordered, Located, Indexed
    <3>2. /\ ptls' = [ptls EXCEPT ![r] = list] /\ rtag' = [rtag EXCEPT ![r] = index]
          /\ phase' = [phase EXCEPT ![r] = "bonds"]
      BY <2>4, <2>8
    <3>3. IndexedAt(r)'
      BY <1>1, <2>2, <2>6, <3>1, <3>2 DEF IndexedAt
    <3> QED
      BY <1>1, <2>1, <3>1, <3>2, <3>3, IndexedAfter
  <2> QED
    BY <2>7, <2>8
<1>6. ASSUME ReceiveBonds(r) PROVE Indexed'
  <2>1. phase[r] = "bonds" /\ Arrived(r) /\ nghosts' = nghosts
    BY <1>6 DEF ReceiveBonds
  <2>2. /\ GoesOn(r) /\ mask[r] = {} /\ nghosts' = [nghosts EXCEPT ![r] = <<>>]
        /\ IsIndex(rtag[r], ptls[r], {})
    BY <1>4, <2>1
  <2>3. PICK bonds : StartStage(r, stage[r] + 1, ptls[r], rtag[r], bonds, Taken(r))
    BY <1>6 DEF ReceiveBonds
  <2> QED
    BY <1>1, <1>2, <2>2, <2>3, StartIndexed
<1> QED
  BY <1>3, <1>5, <1>6 DEF CPUStep

LEMMA IndexedBeginGPU ==
  ASSUME Ordered, Located, Owned, Indexed, NEW r \in Ranks, BeginMigrationGPU(r)
  PROVE  Indexed'
<1> DEFINE index == Forgotten(rtag[r], nghosts[r])
           new == [tag \in Tags |-> IF LeavesRank(r, index, tag) THEN NOT_LOCAL ELSE index[tag]]
<1>1. /\ phase[r] = "moved" /\ nghosts' = [nghosts EXCEPT ![r] = <<>>]
      /\ mask' = [mask EXCEPT ![r] = Leaving(r)] /\ ptls' = ptls
      /\ rtag' = [rtag EXCEPT ![r] = new] /\ phase' = [phase EXCEPT ![r] = "ptlBuffers"]
  BY DEF BeginMigrationGPU, SendBuffers
<1>2. /\ phase = [q \in Ranks |-> phase[q]] /\ ptls = [q \in Ranks |-> ptls[q]]
      /\ mask = [q \in Ranks |-> mask[q]] /\ rtag = [q \in Ranks |-> rtag[q]]
      /\ nghosts = [q \in Ranks |-> nghosts[q]]
  BY DEF Ordered, Located, Indexed
<1>3. IsIndex(index, ptls[r], {})
  BY <1>1, GhostsForgotten
<1>4. /\ DOMAIN ptls[r] = 1 .. Len(ptls[r]) /\ Len(ptls[r]) \in Nat
      /\ \A i \in DOMAIN ptls[r] : ptls[r][i].tag \in Tags
  BY ArraysAre, LenProperties, TagListIs
<1> HIDE DEF index
<1>5. ASSUME NEW i \in DOMAIN ptls[r]
      PROVE  new[ptls[r][i].tag] = IF i \in Leaving(r) THEN NOT_LOCAL ELSE i - 1
  <2>1. index[ptls[r][i].tag] = i - 1 /\ ptls[r][i].tag \in Tags
    BY <1>3, <1>4 DEF IsIndex
  <2>2. i - 1 \in 0 .. Len(ptls[r]) - 1 /\ (i - 1) + 1 = i
    BY <1>4
  <2>3. LeavesRank(r, index, ptls[r][i].tag) <=> i \in Leaving(r)
    BY <2>1, <2>2 DEF LeavesRank, IsLocal
  <2> QED
    BY <2>1, <2>3
<1>6. ASSUME NEW tag \in Tags \ TagsOf(ptls[r]) PROVE new[tag] = NOT_LOCAL
  BY <1>3 DEF IsIndex
<1>7. IsIndex(new, ptls[r], Leaving(r))
  BY <1>5, <1>6 DEF IsIndex
<1> HIDE DEF new
<1>8. IndexedAt(r)'
  BY <1>1, <1>2, <1>7 DEF IndexedAt
<1> QED
  BY <1>1, <1>2, <1>8, IndexedAfter

\* The arrays are filled: an index is set where something has been put.
LEMMA IndexedCompleteGPU ==
  ASSUME Ordered, Located, Owned, Indexed, communicator = "GPU", NEW r \in Ranks, CompleteParticlesGPU(r)
  PROVE  Indexed'
<1>1. PICK list \in FilledLists(ptls[r], mask[r], ForArrays(r)) :
          /\ ptls' = [ptls EXCEPT ![r] = list]
          /\ rtag' = [rtag EXCEPT ![r] = [ tag \in Tags |->
               IF tag \in TagsOf(list)
               THEN LET i == CHOOSE i \in DOMAIN list : list[i].tag = tag
                    IN  IF i \in mask[r] \/ i > Len(ptls[r]) THEN i - 1 ELSE @[tag]
               ELSE @[tag] ]]
  BY DEF CompleteParticlesGPU, FillParticles, ForArrays, AllWrapped
<1>2. /\ phase = [q \in Ranks |-> phase[q]] /\ ptls = [q \in Ranks |-> ptls[q]]
      /\ mask = [q \in Ranks |-> mask[q]] /\ rtag = [q \in Ranks |-> rtag[q]]
      /\ nghosts = [q \in Ranks |-> nghosts[q]]
  BY DEF Ordered, Located, Indexed
<1>3. /\ phase[r] = "ptlBuffers" /\ nghosts' = nghosts /\ mask' = [mask EXCEPT ![r] = {}]
      /\ phase' = [phase EXCEPT ![r] = phase'[r]] /\ phase'[r] # "moved"
  BY <1>2 DEF CompleteParticlesGPU, Done, SendBuffers
<1>4. nghosts[r] = <<>> /\ IsIndex(rtag[r], ptls[r], mask[r])
  BY <1>3 DEF Indexed, IndexedAt
<1>5. /\ Distinct(list) /\ DOMAIN list = 1 .. Len(list) /\ Len(list) \in Nat
      /\ DOMAIN ptls[r] = 1 .. Len(ptls[r]) /\ Len(ptls[r]) \in Nat
      /\ \A i \in DOMAIN list : i \in DOMAIN ptls[r] \ mask[r] => list[i] = ptls[r][i]
      /\ \A tag : tag \in KeptTags(ptls[r], mask[r]) => tag \in TagsOf(list)
  BY CompleteFills, FilledOnce
<1> DEFINE at(tag) == CHOOSE i \in DOMAIN list : list[i].tag = tag
           index == [ tag \in Tags |->
               IF tag \in TagsOf(list)
               THEN IF at(tag) \in mask[r] \/ at(tag) > Len(ptls[r]) THEN at(tag) - 1 ELSE rtag[r][tag]
               ELSE rtag[r][tag] ]
<1>6. rtag' = [rtag EXCEPT ![r] = index]
  BY <1>1
<1>7. ASSUME NEW i \in DOMAIN list PROVE at(list[i].tag) = i /\ list[i].tag \in TagsOf(list)
  BY <1>5 DEF Distinct, TagsOf
<1> HIDE DEF at
<1>8. ASSUME NEW i \in DOMAIN list, list[i].tag \in Tags PROVE index[list[i].tag] = i - 1
  <2>1. CASE i \in mask[r] \/ i > Len(ptls[r])
    BY <1>7, <1>8, <2>1
  <2>2. CASE ~ (i \in mask[r] \/ i > Len(ptls[r]))
    <3>1. i \in DOMAIN ptls[r] \ mask[r]
      BY <1>5, <2>2
    <3>2. list[i] = ptls[r][i]
      BY <1>5, <3>1
    <3>3. rtag[r][list[i].tag] = i - 1
      BY <1>4, <3>1, <3>2 DEF IsIndex
    <3> QED
      BY <1>7, <1>8, <2>2, <3>3
  <2> QED
    BY <2>1, <2>2
<1>9. ASSUME NEW tag \in Tags \ TagsOf(list) PROVE index[tag] = NOT_LOCAL
  <2>1. rtag[r][tag] = NOT_LOCAL
    <3>1. CASE tag \in TagsOf(ptls[r])
      <4>1. PICK i \in DOMAIN ptls[r] : ptls[r][i].tag = tag
        BY <3>1 DEF TagsOf
      <4>2. i \in mask[r]
        <5>1. tag \notin KeptTags(ptls[r], mask[r])
          BY <1>5
        <5> QED
          BY <4>1, <5>1 DEF KeptTags
      <4> QED
        BY <1>4, <4>1, <4>2 DEF IsIndex
    <3>2. CASE tag \notin TagsOf(ptls[r])
      BY <1>4, <3>2 DEF IsIndex
    <3> QED
      BY <3>1, <3>2
  <2> QED
    BY <2>1
<1>10. \A i \in DOMAIN list : list[i].tag \in Tags
  <2>1. ptls'[r] = list /\ Located'
    BY <1>1, <1>2, LocatedCompleteGPU
  <2>2. list \in Seq(Particles(Near(r, SentUpTo(r)')))
    BY <2>1 DEF Located, LocatedAt
  <2> QED
    BY <2>2, TagListIs
<1> HIDE DEF index
<1>11. IsIndex(index, list, {})
  <2>1. index = [tag \in Tags |-> index[tag]]
    BY DEF index
  <2> QED
    BY <1>8, <1>9, <1>10, <2>1 DEF IsIndex
<1>12. IndexedAt(r)'
  BY <1>1, <1>2, <1>3, <1>4, <1>6, <1>11 DEF IndexedAt
<1> QED
  BY <1>1, <1>2, <1>3, <1>6, <1>12, IndexedAfter

\* The other steps of the GPU communicator touch neither arrays nor lookup.
LEMMA IndexedOtherGPU ==
  ASSUME Ordered, Located, Indexed, NEW r \in Ranks,
         ReceiveParticlesGPU(r) \/ ReceiveBondsGPU(r) \/ CompleteBondsGPU(r)
  PROVE  Indexed'
<1>1. /\ phase = [q \in Ranks |-> phase[q]] /\ ptls = [q \in Ranks |-> ptls[q]]
      /\ mask = [q \in Ranks |-> mask[q]] /\ rtag = [q \in Ranks |-> rtag[q]]
      /\ nghosts = [q \in Ranks |-> nghosts[q]]
  BY DEF Ordered, Located, Indexed
<1>2. /\ phase[r] # "moved" /\ UNCHANGED <<ptls, mask, rtag, nghosts>>
      /\ phase' = [phase EXCEPT ![r] = phase'[r]] /\ phase'[r] # "moved"
  BY <1>1 DEF ReceiveParticlesGPU, ReceiveBondsGPU, CompleteBondsGPU, Done, SendBuffers
<1>3. IndexedAt(r)'
  BY <1>2 DEF IndexedAt, Indexed
<1> QED
  BY <1>1, <1>2, <1>3, IndexedAfter

LEMMA IndexedInit ==
  ASSUME Init
  PROVE  Indexed
<1>1. PICK home \in [Tags -> Ranks] :
          /\ ptls = [ r \in Ranks |->
                     [ i \in DOMAIN SetToSeq({ tag \in Tags : home[tag] = r }) |->
                         Particle(SetToSeq({ tag \in Tags : home[tag] = r })[i], GridPos(r)) ] ]
          /\ rtag = [r \in Ranks |-> Numbered(NoIndex, SetToSeq({ tag \in Tags : home[tag] = r }))]
  BY DEF Init
<1>2. /\ phase = [r \in Ranks |-> "idle"] /\ nghosts = [r \in Ranks |-> <<>>]
      /\ mask = [r \in Ranks |-> {}]
  BY DEF Init
<1>3. ASSUME NEW r \in Ranks PROVE IndexedAt(r)
  <2> DEFINE here == { tag \in Tags : home[tag] = r }
             tags == SetToSeq(here)
  <2>1. IsFiniteSet(here)
    BY MigrationAssumption, FS_Subset
  <2>2. tags \in Seq(here) /\ \A i, j \in DOMAIN tags : tags[i] = tags[j] => i = j
    BY <2>1, ListOfSet
  <2>3. /\ ptls[r] = [i \in DOMAIN tags |-> Particle(tags[i], GridPos(r))]
        /\ rtag[r] = Numbered(NoIndex, tags)
    BY <1>1
  <2>4. \A i \in DOMAIN tags : tags[i] \in Tags
    <3>1. \A i \in DOMAIN tags : tags[i] \in here
      BY <2>2, LenProperties, ElementOfSeq
    <3> QED
      BY <3>1
  <2> HIDE DEF tags, here
  <2>5. DOMAIN ptls[r] = DOMAIN tags /\ \A i \in DOMAIN ptls[r] : ptls[r][i].tag = tags[i]
    BY <2>3 DEF Particle
  <2>6. Single(tags)
    BY <2>2 DEF Single
  <2>7. /\ rtag[r] = [tag \in Tags |-> rtag[r][tag]]
        /\ \A i \in DOMAIN tags : tags[i] \in Tags => rtag[r][tags[i]] = i - 1
        /\ \A tag \in Tags : (\A i \in DOMAIN tags : tags[i] # tag) => rtag[r][tag] = NoIndex[tag]
    BY <2>2, <2>3, <2>6, NumberedIs
  <2>8. \A tag \in Tags \ TagsOf(ptls[r]) : rtag[r][tag] = NOT_LOCAL
    BY <2>5, <2>7 DEF TagsOf, NoIndex
  <2>9. \A i \in DOMAIN ptls[r] : rtag[r][ptls[r][i].tag] = i - 1
    BY <2>4, <2>5, <2>7
  <2>10. mask[r] = {} /\ nghosts[r] = <<>> /\ phase[r] = "idle"
    BY <1>2
  <2>11. IsIndex(rtag[r], ptls[r], mask[r])
    BY <2>7, <2>8, <2>9, <2>10 DEF IsIndex
  <2> QED
    BY <2>10, <2>11 DEF IndexedAt
<1> QED
  BY <1>1, <1>2, <1>3 DEF Indexed

\* The ghosts of other ranks are numbered behind the particles.
LEMMA IndexedIntegrate ==
  ASSUME Ordered, Located, Owned, Indexed, Integrate
  PROVE  Indexed'
<1>1. PICK m \in Motions :
          /\ ptls' = [r \in Ranks |-> Moved(ptls[r], m.step)]
          /\ nghosts' = [r \in Ranks |-> IF m.wide THEN GhostTags(r) ELSE <<>>]
          /\ rtag' = [r \in Ranks |->
                 Numbered(rtag[r], TagList(ptls[r]) \o (IF m.wide THEN GhostTags(r) ELSE <<>>))]
  BY DEF Integrate
<1>2. /\ \A r \in Ranks : phase[r] = "idle" /\ phase'[r] = "moved"
      /\ mask' = mask
  BY DEF Integrate, buffers
<1>3. ASSUME NEW r \in Ranks PROVE IndexedAt(r)'
  <2> DEFINE ghosts == IF m.wide THEN GhostTags(r) ELSE <<>>
             tags == TagList(ptls[r])
             all == tags \o ghosts
  <2>1. /\ ptls[r] \in Seq(Particles(Near(r, SentUpTo(r)))) /\ Distinct(ptls[r])
        /\ IsIndex(rtag[r], ptls[r], mask[r]) /\ mask[r] = {}
    BY <1>2, ArraysAre DEF Indexed, IndexedAt, Located, LocatedAt
  <2>2. /\ tags \in Seq(Tags) /\ DOMAIN tags = DOMAIN ptls[r] /\ Single(tags)
        /\ \A i \in DOMAIN ptls[r] : tags[i] = ptls[r][i].tag
    BY <2>1, TagListIs
  <2>3. /\ ghosts \in Seq(Tags) /\ Single(ghosts)
        /\ \A k \in DOMAIN ghosts : ghosts[k] \notin TagsOf(ptls[r])
    <3>1. CASE m.wide
      <4> DEFINE away == Tags \ TagsOf(ptls[r])
                 list == SetToSeq(away)
      <4>1. IsFiniteSet(away)
        BY MigrationAssumption, FS_Subset
      <4>2. list \in Seq(away) /\ \A i, j \in DOMAIN list : list[i] = list[j] => i = j
        BY <4>1, ListOfSet
      <4>3. ghosts = list
        BY <3>1 DEF GhostTags
      <4> HIDE DEF list
      <4>4. \A k \in DOMAIN list : list[k] \in away
        BY <4>2, LenProperties, ElementOfSeq
      <4>5. list \in Seq(Tags)
        BY <4>2, SeqMonotonic
      <4>6. Single(list)
        BY <4>2 DEF Single
      <4> HIDE DEF ghosts
      <4> QED
        BY <4>3, <4>4, <4>5, <4>6
    <3>2. CASE ~ m.wide
      <4>1. ghosts = <<>>
        BY <3>2
      <4> HIDE DEF ghosts
      <4> QED
        BY <4>1 DEF Single
    <3> QED
      BY <3>1, <3>2
  <2>4. nghosts'[r] = ghosts /\ rtag'[r] = Numbered(rtag[r], all) /\ ptls'[r] = Moved(ptls[r], m.step)
    BY <1>1
  <2>5. DOMAIN ptls'[r] = DOMAIN ptls[r] /\ \A i \in DOMAIN ptls[r] : ptls'[r][i].tag = ptls[r][i].tag
    BY <2>4 DEF Moved, Particle
  <2>6. TagList(ptls'[r]) = tags /\ TagsOf(ptls'[r]) = TagsOf(ptls[r])
    BY <2>5 DEF TagList, TagsOf
  <2>7. AllTags(r)' = all
    BY <2>4, <2>6 DEF AllTags
  <2> HIDE DEF ghosts, tags, all
  <2>8. Numbered(rtag[r], all) = Numbered(NoIndex, all)
    <3>1. \A i \in DOMAIN tags, k \in DOMAIN ghosts : tags[i] # ghosts[k]
      BY <2>2, <2>3 DEF TagsOf
    <3>2. Joins(Tags, tags, ghosts, all)
      BY <2>2, <2>3, <3>1 DEF Joins, all
    <3>3. /\ all \in Seq(Tags) /\ Single(all)
          /\ \A i \in DOMAIN tags : i \in DOMAIN all /\ all[i] = tags[i]
      BY <3>2, JoinedTags
    <3>4. ASSUME NEW tag \in Tags PROVE Numbered(rtag[r], all)[tag] = Numbered(NoIndex, all)[tag]
      <4>1. CASE \E i \in DOMAIN all : all[i] = tag
        <5>1. PICK i \in DOMAIN all : all[i] = tag
          BY <4>1
        <5>2. Numbered(rtag[r], all)[tag] = i - 1
          BY <3>3, <5>1, NumberedIs
        <5>3. Numbered(NoIndex, all)[tag] = i - 1
          BY <3>3, <5>1, NumberedIs
        <5> QED
          BY <5>2, <5>3
      <4>2. CASE \A i \in DOMAIN all : all[i] # tag
        <5>1. tag \notin TagsOf(ptls[r])
          BY <2>2, <3>3, <4>2 DEF TagsOf
        <5>2. rtag[r][tag] = NOT_LOCAL /\ NoIndex[tag] = NOT_LOCAL
          BY <2>1, <5>1 DEF IsIndex, NoIndex
        <5>3. Numbered(rtag[r], all)[tag] = rtag[r][tag]
          BY <3>3, <4>2, NumberedIs
        <5>4. Numbered(NoIndex, all)[tag] = NoIndex[tag]
          BY <3>3, <4>2, NumberedIs
        <5> QED
          BY <5>2, <5>3, <5>4
      <4> QED
        BY <4>1, <4>2
    <3>5. /\ Numbered(rtag[r], all) = [tag \in Tags |-> Numbered(rtag[r], all)[tag]]
          /\ Numbered(NoIndex, all) = [tag \in Tags |-> Numbered(NoIndex, all)[tag]]
      BY <3>3, NumberedIs
    <3> QED
      BY <3>4, <3>5
  <2> QED
    BY <1>2, <2>3, <2>4, <2>6, <2>7, <2>8 DEF IndexedAt
<1> QED
  BY <1>1, <1>3 DEF Indexed

LEMMA IndexedNext ==
  ASSUME Ordered, Located, Owned, Indexed, [Next]_vars
  PROVE  Indexed'
<1>1. CASE Integrate
  BY <1>1, IndexedIntegrate
<1>2. ASSUME NEW r \in Ranks, RankStep(r) PROVE Indexed'
  <2>1. CASE communicator = "CPU" /\ CPUStep(r) /\ UNCHANGED buffers
    BY <2>1, IndexedCPU
  <2>2. CASE communicator = "GPU" /\ GPUStep(r)
    BY <2>2, IndexedBeginGPU, IndexedCompleteGPU, IndexedOtherGPU DEF GPUStep
  <2> QED
    BY <1>2, <2>1, <2>2 DEF RankStep
<1>3. CASE UNCHANGED vars
  <2>1. UNCHANGED <<phase, ptls, mask, rtag, nghosts>>
    BY <1>3 DEF vars, migrationVars, buffers
  <2>2. \A r \in Ranks : IndexedAt(r)'
    BY <2>1 DEF Indexed, IndexedAt, AllTags
  <2> QED
    BY <2>1, <2>2 DEF Indexed
<1> QED
  BY <1>1, <1>2, <1>3 DEF Next

\* The invariant is what the property says, element by element.
LEMMA IndexedIsConsistent ==
  ASSUME Located, Owned, Indexed, NEW r \in Ranks
  PROVE  rtag[r] = [ tag \in Tags |->
            IF \E i \in mask[r] : ptls[r][i].tag = tag THEN NOT_LOCAL
            ELSE Numbered(NoIndex, TagList(ptls[r]) \o nghosts[r])[tag] ]
<1> DEFINE list == ptls[r]
           all == Numbered(NoIndex, TagList(list) \o nghosts[r])
<1>1. list \in Seq(Particles(Near(r, SentUpTo(r)))) /\ Distinct(list)
  BY ArraysAre
<1>2. CASE phase[r] = "moved"
  <2>1. mask[r] = {} /\ rtag[r] = all
    BY <1>2 DEF Located, LocatedAt, Indexed, IndexedAt, AllTags
  <2>2. all = [tag \in Tags |-> all[tag]]
    BY NumberedForm
  <2> QED
    BY <2>1, <2>2
<1>3. CASE phase[r] # "moved"
  <2>1. nghosts[r] = <<>> /\ IsIndex(rtag[r], list, mask[r])
    BY <1>3 DEF Indexed, IndexedAt
  <2>2. mask[r] \subseteq DOMAIN list
    BY DEF Located, LocatedAt, Leaving
  <2>3. all = Numbered(NoIndex, TagList(list))
    <3>1. TagList(list) \in Seq(Tags)
      BY <1>1, TagListIs
    <3> HIDE DEF list
    <3> QED
      BY <2>1, <3>1, ConcatEmptySeq
  <2>4. IsIndex(all, list, {})
    <3>1. \A tag \in Tags \ TagsOf(list) : NoIndex[tag] = NOT_LOCAL
      BY DEF NoIndex
    <3> HIDE DEF list, all
    <3> QED
      BY <1>1, <2>3, <3>1, NumberedIndex
  <2> HIDE DEF all, list
  <2> DEFINE result == [ tag \in Tags |-> IF \E i \in mask[r] : list[i].tag = tag THEN NOT_LOCAL ELSE all[tag] ]
  <2>5. ASSUME NEW i \in DOMAIN list
        PROVE  result[list[i].tag] = IF i \in mask[r] THEN NOT_LOCAL ELSE i - 1
    <3>1. list[i].tag \in Tags /\ all[list[i].tag] = i - 1
      BY <1>1, <2>4, TagListIs DEF IsIndex
    <3>2. (\E j \in mask[r] : list[j].tag = list[i].tag) <=> i \in mask[r]
      BY <1>1, <2>2 DEF Distinct
    <3> QED
      BY <3>1, <3>2
  <2>6. ASSUME NEW tag \in Tags \ TagsOf(list) PROVE result[tag] = NOT_LOCAL
    BY <2>4 DEF IsIndex
  <2>7. IsIndex(result, list, mask[r])
    BY <2>5, <2>6 DEF IsIndex
  <2>8. rtag[r] = result
    BY <2>1, <2>7, OneIndex
  <2> QED
    BY <2>8 DEF list, all
<1> QED
  BY <1>2, <1>3

LEMMA AlwaysIndexed == Spec => []Indexed
<1>1. Init => Indexed
  BY IndexedInit
<1>2. Ordered /\ Located /\ Owned /\ Indexed /\ [Next]_vars => Indexed'
  BY IndexedNext
<1> QED
  BY <1>1, <1>2, AlwaysOrdered, AlwaysLocated, AlwaysOwned, PTL DEF Spec

\* Communicator.cc 470 to 500 and 610, and gpu_migrate_fill_particle_arrays():
\* whatever order particles leave and come in, the reverse lookup m_rtag always
\* is that of the arrays, without what is marked to leave.
THEOREM LookupAlwaysConsistent == Spec => []RtagsConsistent
<1>1. Located /\ Owned /\ Indexed => RtagsConsistent
  BY IndexedIsConsistent DEF RtagsConsistent
<1> QED
  BY <1>1, AlwaysLocated, AlwaysOwned, AlwaysIndexed, PTL
-----------------------------------------------------------------------------
(* The bonds follow the particles they join.  Communicator sends what it    *)
(* takes from the bonds of what it has sent just before, so the bonds of a  *)
(* message are those of the particles of the message before.                *)
(* CommunicatorGPU sends bonds long after particles: what both have in      *)
(* common is the domain where a particle goes, its home, which neither the  *)
(* particle nor a copy of its bonds changes on the way.                     *)

BondsOf(tags) == { bond \in BondTags : Members[bond] \cap tags # {} }

\* What is sent of a bond: one copy for each member that leaves.
BondCopies == { copy \in [bond : BondTags, with : Tags] : copy.with \in Members[copy.bond] }

-----------------------------------------------------------------------------
(* What the tables, buffers and messages of bonds consist of.               *)

IsTable(t) ==
    /\ t = [bonds |-> t.bonds, rtag |-> t.rtag]
    /\ t.bonds \in Seq(BondTags)
    /\ t.rtag = [bond \in BondTags |-> t.rtag[bond]]

TypedAt(r) ==
    /\ IsTable(table[r])
    /\ sendBonds[r] \in Seq(BondTags)
    /\ removed[r] \subseteq Held(table[r])
    /\ bondBuf[r] = [plan \in Plans |-> bondBuf[r][plan]]
    /\ \A plan \in Plans : bondBuf[r][plan] \subseteq BondCopies
    /\ phase[r] = "bondBuffers" => recvBuf[r] \subseteq BondCopies

TypedMessage(message) ==
    /\ message.kind = "bonds" => message.data \in Seq(BondTags)
    /\ message.kind = "bondBuffers" => \A plan \in AllBuffers : message.data[plan] \subseteq BondCopies

Typed ==
    /\ table = [r \in Ranks |-> table[r]] /\ sendBonds = [r \in Ranks |-> sendBonds[r]]
    /\ removed = [r \in Ranks |-> removed[r]] /\ bondBuf = [r \in Ranks |-> bondBuf[r]]
    /\ \A r \in Ranks : TypedAt(r)
    /\ \A pair \in Ranks \X Ranks : \A k \in DOMAIN channel[pair] : TypedMessage(channel[pair][k])

-----------------------------------------------------------------------------
(* Communicator.                                                            *)

Kept(r) == Held(table[r]) \ removed[r]
Data(message) == Range(message.data)

\* The bonds that are still to come to a rank, in a message or before it is sent.
FollowsAt(r) ==
    /\ phase[r] \in {"idle", "moved"} => Held(table[r]) = BondsOf(TagsOf(ptls[r]))
    /\ phase[r] = "particles" => Kept(r) = BondsOf(TagsOf(ptls[r]))
    /\ phase[r] = "bonds" =>
           /\ \A k \in DOMAIN channel[<<Source(r), r>>] :
                  LET message == channel[<<Source(r), r>>][k] IN
                  message.kind = "bonds" /\ message.dir = Route[stage[r]] =>
                      Kept(r) \cup Data(message) = BondsOf(TagsOf(ptls[r]))
           /\ phase[Source(r)] = "particles" /\ stage[Source(r)] = stage[r] =>
                  Kept(r) \cup Range(sendBonds[Source(r)]) = BondsOf(TagsOf(ptls[r]))

\* The bonds that belong to a message of particles.
Belong(from, chan) ==
    \A k \in DOMAIN chan : chan[k].kind = "particles" =>
        /\ \A l \in DOMAIN chan : chan[l].kind = "bonds" /\ chan[l].dir = chan[k].dir =>
               Data(chan[l]) = BondsOf(TagsOf(chan[k].data))
        /\ phase[from] = "particles" /\ Route[stage[from]] = chan[k].dir =>
               Range(sendBonds[from]) = BondsOf(TagsOf(chan[k].data))

Followed ==
    /\ \A r \in Ranks : TableConsistent(table[r]) /\ Single(sendBonds[r]) /\ FollowsAt(r)
    /\ \A from, to \in Ranks :
           /\ Belong(from, channel[<<from, to>>])
           /\ \A k \in DOMAIN channel[<<from, to>>] :
                  channel[<<from, to>>][k].kind = "bonds" => Single(channel[<<from, to>>][k].data)

-----------------------------------------------------------------------------
(* CommunicatorGPU.  home: the position of the domain where a particle goes. *)

IsAt(home, p) == \A axis \in Axes : Around(p.pos[axis], Size[axis]) = home[p.tag][axis]
Goes(home, copy, r, plan) == home[copy.with] \in Heading(r, plan)

BondBuffers(r) == [plan \in AllBuffers |-> IF plan = Local THEN recvBuf[r] ELSE bondBuf[r][plan]]

HomedAt(home, r) ==
    /\ \A i \in DOMAIN ptls[r] : IsAt(home, ptls[r][i])
    /\ phase[r] = "ptlBuffers" => \A plan \in AllBuffers : \A p \in Buffers(r)[plan] : IsAt(home, p)
    /\ phase[r] \in {"ptlBuffers", "bondBuffers"} =>
           /\ \A plan \in Plans : \A copy \in bondBuf[r][plan] : Goes(home, copy, r, plan)
           /\ \A bond \in removed[r] : \E tag \in Members[bond] : home[tag] # GridPos(r)
    /\ phase[r] = "bondBuffers" => \A copy \in recvBuf[r] : Goes(home, copy, r, Local)
    /\ phase[r] \in {"idle", "moved"} => removed[r] = {}
    /\ phase[r] = "moved" => Held(table[r]) = BondsOf(TagsOf(ptls[r]))
    /\ phase[r] # "moved" => \A bond \in Kept(r) : \E tag \in Members[bond] : home[tag] = GridPos(r)

HomedMessage(home, to, message) ==
    /\ message.kind = "ptlBuffers" =>
           \A plan \in AllBuffers : \A p \in message.data[plan] : IsAt(home, p)
    /\ message.kind = "bondBuffers" =>
           \A plan \in AllBuffers : \A copy \in message.data[plan] : Goes(home, copy, to, plan)

\* The copies that a rank, or a message, still has to bring somewhere.
CopiesAt(r) ==
    CASE phase[r] = "ptlBuffers" -> UNION { bondBuf[r][plan] : plan \in Plans }
      [] phase[r] = "bondBuffers" -> UNION { BondBuffers(r)[plan] : plan \in Later(Route[stage[r]]) }
      [] OTHER -> {}
CopiesSent(message) ==
    IF message.kind = "bondBuffers" THEN UNION { message.data[plan] : plan \in Later(message.dir) } ELSE {}

\* A bond is where a member goes, or on its way to there, or the member has not left.
Settled(home, copy, r) ==
    phase[r] # "moved" /\ home[copy.with] = GridPos(r) /\ copy.bond \in Kept(r)
Underway(copy, chan) ==
    \/ \E r \in Ranks : phase[r] = "moved" /\ copy.with \in TagsOf(ptls[r])
    \/ \E r \in Ranks : copy \in CopiesAt(r)
    \/ \E pair \in Ranks \X Ranks : \E k \in DOMAIN chan[pair] : copy \in CopiesSent(chan[pair][k])

Homed(home) ==
    /\ \A r \in Ranks : TableConsistent(table[r]) /\ HomedAt(home, r)
    /\ \A from, to \in Ranks : \A k \in DOMAIN channel[<<from, to>>] :
           HomedMessage(home, to, channel[<<from, to>>][k])
    /\ \A copy \in BondCopies : Underway(copy, channel) \/ \E r \in Ranks : Settled(home, copy, r)

Homes == [Tags -> { GridPos(r) : r \in Ranks }]

Bonded ==
    BondTags # {} =>
        /\ communicator = "CPU" => Followed
        /\ communicator = "GPU" => \E home \in Homes : Homed(home)

-----------------------------------------------------------------------------
(* The bonds of tables, buffers and messages are bonds, and the copies are   *)
(* of a bond and one of its members.                                         *)

\* A step of a rank: its own bonds, and its message.
BondsOnlyAt(r) ==
    /\ OnlyAt(r)
    /\ table' = [table EXCEPT ![r] = table'[r]]
    /\ sendBonds' = [sendBonds EXCEPT ![r] = sendBonds'[r]]
    /\ removed' = [removed EXCEPT ![r] = removed'[r]]
    /\ bondBuf' = [bondBuf EXCEPT ![r] = bondBuf'[r]]

LEMMA AllFunctions ==
  ASSUME Ordered, Located, Typed
  PROVE  /\ phase = [q \in Ranks |-> phase[q]] /\ stage = [q \in Ranks |-> stage[q]]
         /\ ptls = [q \in Ranks |-> ptls[q]] /\ mask = [q \in Ranks |-> mask[q]]
         /\ ptlBuf = [q \in Ranks |-> ptlBuf[q]] /\ recvBuf = [q \in Ranks |-> recvBuf[q]]
         /\ table = [q \in Ranks |-> table[q]] /\ sendBonds = [q \in Ranks |-> sendBonds[q]]
         /\ removed = [q \in Ranks |-> removed[q]] /\ bondBuf = [q \in Ranks |-> bondBuf[q]]
BY DEF Ordered, Located, Typed

LEMMA OthersSame ==
  ASSUME Ordered, Located, Typed, NEW r \in Ranks, BondsOnlyAt(r), NEW q \in Ranks, q # r
  PROVE  /\ phase'[q] = phase[q] /\ stage'[q] = stage[q] /\ ptls'[q] = ptls[q] /\ mask'[q] = mask[q]
         /\ ptlBuf'[q] = ptlBuf[q] /\ recvBuf'[q] = recvBuf[q] /\ table'[q] = table[q]
         /\ sendBonds'[q] = sendBonds[q] /\ removed'[q] = removed[q] /\ bondBuf'[q] = bondBuf[q]
BY AllFunctions DEF BondsOnlyAt, OnlyAt

LEMMA PairsOfRanks ==
  ASSUME NEW pair \in Ranks \X Ranks
  PROVE  pair = <<pair[1], pair[2]>> /\ pair[1] \in Ranks /\ pair[2] \in Ranks
OBVIOUS

LEMMA TypedAfter ==
  ASSUME Ordered, Located, Typed, NEW r \in Ranks, GoesOn(r), BondsOnlyAt(r), TypedAt(r)',
         \/ channel' = Remaining(r)
         \/ \E next \in Ranks : \E message :
               channel' = Put(Remaining(r), r, next, message) /\ TypedMessage(message)
  PROVE  Typed'
<1>1. ASSUME NEW q \in Ranks, q # r PROVE TypedAt(q)'
  <2>1. TypedAt(q)
    BY DEF Typed
  <2>2. /\ phase'[q] = phase[q] /\ recvBuf'[q] = recvBuf[q] /\ table'[q] = table[q]
        /\ sendBonds'[q] = sendBonds[q] /\ removed'[q] = removed[q] /\ bondBuf'[q] = bondBuf[q]
    BY <1>1, OthersSame
  <2> QED
    BY <2>1, <2>2 DEF TypedAt
<1>2. ASSUME NEW from \in Ranks, NEW to \in Ranks, NEW k \in DOMAIN channel'[<<from, to>>]
      PROVE  TypedMessage(channel'[<<from, to>>][k])
  <2>1. \A j \in DOMAIN channel[<<from, to>>] : TypedMessage(channel[<<from, to>>][j])
    BY DEF Typed
  <2>2. CASE channel' = Remaining(r)
    BY <2>1, <2>2, RemainingMessages
  <2>3. ASSUME NEW next \in Ranks, NEW message,
               channel' = Put(Remaining(r), r, next, message), TypedMessage(message)
        PROVE  TypedMessage(channel'[<<from, to>>][k])
    BY <2>1, <2>3, MessagesAfter
  <2> QED
    BY <2>2, <2>3
<1>3. ASSUME NEW pair \in Ranks \X Ranks, NEW k \in DOMAIN channel'[pair]
      PROVE  TypedMessage(channel'[pair][k])
  BY <1>2, PairsOfRanks
<1>4. /\ table' = [q \in Ranks |-> table'[q]] /\ sendBonds' = [q \in Ranks |-> sendBonds'[q]]
      /\ removed' = [q \in Ranks |-> removed'[q]] /\ bondBuf' = [q \in Ranks |-> bondBuf'[q]]
  BY AllFunctions DEF BondsOnlyAt
<1> QED
  BY <1>1, <1>3, <1>4 DEF Typed

LEMMA MessageIsTyped ==
  ASSUME Ordered, Typed, NEW r \in Ranks, phase[r] \in Kinds(communicator), Arrived(r)
  PROVE  TypedMessage(Message(r)) /\ Message(r).kind = phase[r] /\ Message(r).dir = Route[stage[r]]
<1>1. /\ Source(r) \in Ranks /\ 1 \in DOMAIN channel[<<Source(r), r>>]
      /\ Message(r) = channel[<<Source(r), r>>][1]
      /\ Message(r).dir = Route[stage[r]] /\ Message(r).kind = phase[r]
  BY FirstMessage
<1>2. <<Source(r), r>> \in Ranks \X Ranks
  BY <1>1
<1>3. \A k \in DOMAIN channel[<<Source(r), r>>] : TypedMessage(channel[<<Source(r), r>>][k])
  BY <1>2 DEF Typed
<1> QED
  BY <1>1, <1>3

\* The part of a list of bonds.
LEMMA PickedBonds ==
  ASSUME NEW T, NEW list \in Seq(T), NEW S \in SUBSET (DOMAIN list)
  PROVE  /\ Picked(list, S) \in Seq(T)
         /\ Range(Picked(list, S)) = { list[i] : i \in S }
         /\ Single(list) => Single(Picked(list, S))
<1> DEFINE part == Picked(list, S)
           at(k) == Nth(S, k)
<1>1. /\ DOMAIN part = 1 .. Cardinality(S) /\ part \in Seq(T)
      /\ \A k \in DOMAIN part : at(k) \in S /\ part[k] = list[at(k)]
      /\ \A i \in S : \E k \in DOMAIN part : at(k) = i /\ part[k] = list[i]
  BY PickedProperties
<1>2. ASSUME NEW k \in DOMAIN part, NEW l \in DOMAIN part, k < l PROVE at(k) < at(l)
  BY <1>2, PickedInOrder
<1>3. \A k \in DOMAIN part : k \in Nat
  BY <1>1
<1>4. \A k \in DOMAIN part : at(k) \in Nat
  BY <1>1, LenProperties
<1> HIDE DEF part, at
<1>5. ASSUME Single(list), NEW k \in DOMAIN part, NEW l \in DOMAIN part, part[k] = part[l]
      PROVE  k = l
  <2>1. at(k) = at(l)
    BY <1>1, <1>5 DEF Single
  <2>2. ~ (k < l) /\ ~ (l < k)
    BY <1>2, <1>4, <2>1
  <2> QED
    BY <1>3, <2>2
<1>6. Range(part) = { list[i] : i \in S }
  BY <1>1 DEF Range
<1>7. Single(list) => Single(part)
  BY <1>5 DEF Single
<1> QED
  BY <1>1, <1>6, <1>7 DEF part

LEMMA LookUpForm ==
  ASSUME NEW list, NEW old
  PROVE  LookUp(list, old) = [bond \in BondTags |-> LookUp(list, old)[bond]]
BY DEF LookUp

LEMMA TableIs ==
  ASSUME NEW list \in Seq(BondTags), NEW old
  PROVE  IsTable([bonds |-> list, rtag |-> LookUp(list, old)])
<1> DEFINE new == LookUp(list, old)
<1>1. new = [bond \in BondTags |-> new[bond]]
  BY LookUpForm
<1> HIDE DEF new
<1>2. IsTable([bonds |-> list, rtag |-> new])
  BY <1>1 DEF IsTable
<1> QED
  BY <1>2 DEF new

LEMMA UnpackTyped ==
  ASSUME NEW t, t.bonds \in Seq(BondTags), NEW remove, NEW received \in Seq(BondTags)
  PROVE  IsTable(UnpackRemove(t, remove, received))
<1> DEFINE old == [bond \in BondTags |-> IF bond \in remove THEN NOT_LOCAL ELSE t.rtag[bond]]
           stay == Staying(t.bonds, remove)
           fresh == Fresh(received, old)
<1>1. stay \in Seq(BondTags) /\ fresh \in Seq(BondTags)
  BY PickedBonds DEF Staying, Fresh
<1>2. UnpackRemove(t, remove, received)
        = [bonds |-> stay \o fresh, rtag |-> LookUp(stay \o fresh, old)]
  BY DEF UnpackRemove
<1> HIDE DEF old, stay, fresh
<1>3. stay \o fresh \in Seq(BondTags)
  BY <1>1, ConcatProperties
<1> QED
  BY <1>2, <1>3, TableIs

LEMMA StartTyped ==
  ASSUME Ordered, Located, Typed, NEW r \in Ranks, GoesOn(r), NEW k, NEW list, NEW old,
         NEW bonds \in Seq(BondTags), StartStage(r, k, list, old, bonds, Remaining(r)), UNCHANGED buffers,
         table' = [table EXCEPT ![r] = table'[r]], IsTable(table'[r]), Range(bonds) \subseteq Held(table'[r]),
         k \in Nat \ {0}
  PROVE  Typed'
<1>1. /\ UNCHANGED <<mask, ptlBuf, bondBuf, recvBuf>>
      /\ bondBuf[r] = [plan \in Plans |-> bondBuf[r][plan]]
      /\ \A plan \in Plans : bondBuf[r][plan] \subseteq BondCopies
  BY DEF buffers, Typed, TypedAt
<1>2. CASE k > Len(Route)
  <2>1. /\ phase' = [phase EXCEPT ![r] = "idle"] /\ stage' = [stage EXCEPT ![r] = 0]
        /\ ptls' = [ptls EXCEPT ![r] = list] /\ channel' = Remaining(r)
        /\ sendBonds' = [sendBonds EXCEPT ![r] = <<>>] /\ removed' = [removed EXCEPT ![r] = {}]
    BY <1>2 DEF StartStage
  <2>2. BondsOnlyAt(r)
    BY <1>1, <2>1, AllFunctions DEF BondsOnlyAt, OnlyAt
  <2>3. TypedAt(r)'
    BY <1>1, <2>1, AllFunctions DEF TypedAt
  <2> QED
    BY <2>1, <2>2, <2>3, TypedAfter
<1>3. CASE ~ (k > Len(Route))
  <2> DEFINE dir == Route[k]
             leave == Leaves(r, dir, list)
             index == Numbered(old, TagList(ptls'[r] \o leave))
             chosen == { i \in DOMAIN bonds : MigratesBond(bonds[i], index, Len(ptls'[r])) }
             gone == { b \in Range(bonds) : RemovesBond(b, index, Len(ptls'[r])) }
             message == [dir |-> dir, kind |-> "particles", data |-> leave]
  <2>1. /\ phase' = [phase EXCEPT ![r] = "particles"] /\ stage' = [stage EXCEPT ![r] = k]
        /\ ptls' = [ptls EXCEPT ![r] = Stays(r, dir, list)]
        /\ channel' = Put(Remaining(r), r, NeighborRank(r, dir), message)
        /\ sendBonds' = [sendBonds EXCEPT ![r] = Picked(bonds, chosen)]
        /\ removed' = [removed EXCEPT ![r] = gone]
    BY <1>3 DEF StartStage
  <2>2. NeighborRank(r, dir) \in Ranks
    <3>1. k \in DOMAIN Route
      BY <1>3, RouteShape
    <3> QED
      BY <3>1, RouteNext, NeighborIs DEF Sending
  <2>3. Picked(bonds, chosen) \in Seq(BondTags) /\ gone \subseteq Range(bonds)
    BY PickedBonds
  <2>4. TypedMessage(message)
    BY DEF TypedMessage
  <2> HIDE DEF chosen, gone, message, dir
  <2>5. BondsOnlyAt(r)
    BY <1>1, <2>1, AllFunctions DEF BondsOnlyAt, OnlyAt
  <2>6. TypedAt(r)'
    BY <1>1, <2>1, <2>3, AllFunctions DEF TypedAt
  <2> QED
    BY <2>1, <2>2, <2>4, <2>5, <2>6, TypedAfter
<1> QED
  BY <1>2, <1>3

LEMMA TypedBegin ==
  ASSUME Ordered, Located, Typed, NEW r \in Ranks, BeginMigration(r), UNCHANGED buffers
  PROVE  Typed'
<1>1. /\ phase[r] = "moved" /\ table' = table
      /\ StartStage(r, 1, ptls[r], Forgotten(rtag[r], nghosts[r]), table[r].bonds, channel)
  BY DEF BeginMigration
<1>2. GoesOn(r) /\ Remaining(r) = channel
  BY <1>1 DEF GoesOn, Remaining
<1>3. IsTable(table[r]) /\ table[r].bonds \in Seq(BondTags) /\ Range(table[r].bonds) = Held(table[r])
  BY DEF Typed, TypedAt, IsTable, Held
<1>4. table' = [table EXCEPT ![r] = table'[r]]
  BY <1>1, AllFunctions
<1>5. StartStage(r, 1, ptls[r], Forgotten(rtag[r], nghosts[r]), table[r].bonds, Remaining(r))
  BY <1>1, <1>2
<1> QED
  BY <1>1, <1>2, <1>3, <1>4, <1>5, StartTyped

LEMMA TypedReceive ==
  ASSUME Ordered, Located, Typed, NEW r \in Ranks, ReceiveParticles(r), UNCHANGED buffers
  PROVE  Typed'
<1> DEFINE message == [dir |-> Route[stage[r]], kind |-> "bonds", data |-> sendBonds[r]]
<1>1. PICK list, index :
          /\ phase[r] = "particles" /\ Arrived(r) /\ table' = table
          /\ IF BondTags = {}
             THEN StartStage(r, stage[r] + 1, list, index, <<>>, Taken(r))
             ELSE /\ ptls' = [ptls EXCEPT ![r] = list]
                  /\ channel' = Put(Taken(r), r, NeighborRank(r, Route[stage[r]]), message)
                  /\ phase' = [phase EXCEPT ![r] = "bonds"]
                  /\ UNCHANGED <<stage, sendBonds, removed>>
  BY DEF ReceiveParticles
<1>2. phase[r] \in Kinds(communicator) /\ GoesOn(r) /\ Remaining(r) = Taken(r)
      /\ stage[r] \in DOMAIN Route /\ stage[r] + 1 \in Nat \ {0}
  <2>1. phase[r] \in Kinds(communicator)
    BY <1>1 DEF Ordered
  <2>2. stage[r] \in DOMAIN Route
    BY <2>1, Waiting
  <2> QED
    BY <1>1, <2>1, <2>2, RouteShape DEF GoesOn, Remaining
<1>3. TypedAt(r) /\ table' = [table EXCEPT ![r] = table'[r]]
  BY <1>1, AllFunctions DEF Typed
<1>4. CASE BondTags = {}
  <2>1. StartStage(r, stage[r] + 1, list, index, <<>>, Remaining(r))
    BY <1>1, <1>2, <1>4
  <2>2. <<>> \in Seq(BondTags) /\ Range(<<>>) = {}
    BY DEF Range
  <2>3. IsTable(table'[r])
    BY <1>1, <1>3 DEF TypedAt
  <2>4. Range(<<>>) \subseteq Held(table'[r])
    BY <2>2
  <2> QED
    BY <1>2, <1>3, <2>1, <2>2, <2>3, <2>4, StartTyped
<1>5. CASE BondTags # {}
  <2>1. /\ ptls' = [ptls EXCEPT ![r] = list] /\ phase' = [phase EXCEPT ![r] = "bonds"]
        /\ channel' = Put(Remaining(r), r, NeighborRank(r, Route[stage[r]]), message)
        /\ UNCHANGED <<stage, sendBonds, removed, mask, ptlBuf, bondBuf, recvBuf>>
    BY <1>1, <1>2, <1>5 DEF buffers
  <2>2. BondsOnlyAt(r)
    BY <1>3, <2>1, AllFunctions DEF BondsOnlyAt, OnlyAt
  <2>3. TypedAt(r)'
    BY <1>1, <1>3, <2>1, AllFunctions DEF TypedAt
  <2>4. TypedMessage(message)
    BY <1>3 DEF TypedMessage, TypedAt
  <2>5. NeighborRank(r, Route[stage[r]]) \in Ranks
    BY <1>2, RouteNext, NeighborIs DEF Sending
  <2> HIDE DEF message
  <2> QED
    BY <1>2, <2>1, <2>2, <2>3, <2>4, <2>5, TypedAfter
<1> QED
  BY <1>4, <1>5

LEMMA TypedReceiveBonds ==
  ASSUME Ordered, Located, Typed, NEW r \in Ranks, ReceiveBonds(r), UNCHANGED buffers
  PROVE  Typed'
<1> DEFINE new == UnpackRemove(table[r], removed[r], Message(r).data)
<1>1. /\ phase[r] = "bonds" /\ Arrived(r) /\ table' = [table EXCEPT ![r] = new]
      /\ StartStage(r, stage[r] + 1, ptls[r], rtag[r], new.bonds, Taken(r))
  BY DEF ReceiveBonds
<1>2. phase[r] \in Kinds(communicator) /\ GoesOn(r) /\ Remaining(r) = Taken(r)
      /\ stage[r] \in DOMAIN Route /\ stage[r] + 1 \in Nat \ {0}
  <2>1. phase[r] \in Kinds(communicator)
    BY <1>1 DEF Ordered
  <2>2. stage[r] \in DOMAIN Route
    BY <2>1, Waiting
  <2> QED
    BY <1>1, <2>1, <2>2, RouteShape DEF GoesOn, Remaining
<1>3. TypedAt(r) /\ TypedMessage(Message(r)) /\ Message(r).kind = "bonds"
  BY <1>1, <1>2, MessageIsTyped DEF Typed
<1>4. IsTable(new)
  BY <1>3, UnpackTyped DEF TypedAt, IsTable, TypedMessage
<1> HIDE DEF new
<1>5. /\ table'[r] = new /\ table' = [table EXCEPT ![r] = table'[r]] /\ new.bonds \in Seq(BondTags)
      /\ Range(new.bonds) = Held(table'[r])
  BY <1>1, <1>4, AllFunctions DEF IsTable, Held
<1>6. StartStage(r, stage[r] + 1, ptls[r], rtag[r], new.bonds, Remaining(r))
  BY <1>1, <1>2
<1> QED
  BY <1>2, <1>4, <1>5, <1>6, StartTyped

\* The bonds that CommunicatorGPU sends.
LEMMA SentCopies ==
  ASSUME NEW dir \in Sending, NEW E, NEW buf, \A plan \in Plans : buf[plan] \subseteq E
  PROVE  \A to \in AllBuffers : Sent(dir, buf)[to] \subseteq E
BY SentIs

LEMMA CopiesFinite == IsFiniteSet(BondCopies)
<1> DEFINE f == [pair \in BondTags \X Tags |-> [bond |-> pair[1], with |-> pair[2]]]
           all == { f[pair] : pair \in BondTags \X Tags }
<1>1. IsFiniteSet(BondTags \X Tags)
  BY MigrationAssumption, FS_Product
<1>2. IsFiniteSet(all)
  <2>1. f = [pair \in BondTags \X Tags |-> f[pair]]
    OBVIOUS
  <2> HIDE DEF f
  <2> QED
    BY <1>1, <2>1, FiniteImage
<1>3. BondCopies \subseteq all
  <2>1. SUFFICES ASSUME NEW copy \in [bond : BondTags, with : Tags] PROVE copy \in all
    BY DEF BondCopies
  <2>2. <<copy.bond, copy.with>> \in BondTags \X Tags
        /\ copy = f[<<copy.bond, copy.with>>]
    OBVIOUS
  <2> HIDE DEF f
  <2> QED
    BY <2>2
<1> QED
  BY <1>2, <1>3, FS_Subset

\* unpackRemoveBondsGPU(), in parts.
Elements(t) == [i \in DOMAIN t.bonds |-> [bond |-> t.bonds[i], with |-> NOT_LOCAL]]
Gaps(t, remove) == { i \in DOMAIN t.bonds : t.bonds[i] \in remove }
Reset(t, remove) == [bond \in BondTags |-> IF bond \in remove THEN NOT_LOCAL ELSE t.rtag[bond]]
BondList(list) == [i \in DOMAIN list |-> list[i].bond]
InTable == [bond : BondTags, with : Tags \cup {NOT_LOCAL}]

LEMMA UnpackedIs ==
  ASSUME NEW t, IsTable(t), NEW remove, NEW received \in SUBSET BondCopies,
         NEW new \in UnpackedGPU(t, remove, received)
  PROVE  \E active \in ActiveCopies(t.rtag, remove, received) :
         \E list \in FilledLists(Elements(t), Gaps(t, remove), active) :
             /\ new = [bonds |-> BondList(list), rtag |-> LookUp(BondList(list), Reset(t, remove))]
             /\ active \in Some(BondCopies) /\ list \in Seq(InTable) /\ BondList(list) \in Seq(BondTags)
<1>1. PICK active \in ActiveCopies(t.rtag, remove, received) :
          \E list \in FilledLists(Elements(t), Gaps(t, remove), active) :
             new = [bonds |-> BondList(list), rtag |-> LookUp(BondList(list), Reset(t, remove))]
  BY DEF UnpackedGPU, Elements, Gaps, Reset, BondList
<1>2. PICK list \in FilledLists(Elements(t), Gaps(t, remove), active) :
          new = [bonds |-> BondList(list), rtag |-> LookUp(BondList(list), Reset(t, remove))]
  BY <1>1
<1>3. active \in Some(BondCopies)
  <2>1. active \subseteq received
    BY DEF ActiveCopies
  <2> QED
    BY <2>1, CopiesFinite, FS_Subset DEF Some
<1>4. Elements(t) \in Seq(InTable) /\ DOMAIN Elements(t) = DOMAIN t.bonds
  <2>1. /\ Len(t.bonds) \in Nat /\ DOMAIN t.bonds = 1 .. Len(t.bonds)
        /\ \A i \in DOMAIN t.bonds : t.bonds[i] \in BondTags
    BY LenProperties, ElementOfSeq DEF IsTable
  <2>2. Elements(t) \in [1 .. Len(t.bonds) -> InTable]
    BY <2>1 DEF Elements, InTable
  <2> QED
    BY <2>1, <2>2, SeqDef DEF Elements
<1>5. Gaps(t, remove) \in SUBSET (DOMAIN Elements(t)) /\ active \in Some(InTable)
  BY <1>3, <1>4 DEF Gaps, Some, BondCopies, InTable
<1>6. \A i \in DOMAIN Elements(t) \ Gaps(t, remove) : Elements(t)[i] \in InTable
  BY <1>4, ElementOfSeq, LenProperties
<1>7. list \in Seq(InTable)
  BY <1>2, <1>4, <1>5, <1>6, FilledIn
<1>8. BondList(list) \in Seq(BondTags)
  <2>1. Len(list) \in Nat /\ DOMAIN list = 1 .. Len(list) /\ \A i \in DOMAIN list : list[i] \in InTable
    BY <1>7, LenProperties, ElementOfSeq
  <2>2. BondList(list) \in [1 .. Len(list) -> BondTags]
    BY <2>1 DEF BondList, InTable
  <2> QED
    BY <2>1, <2>2, SeqDef
<1> QED
  BY <1>1, <1>2, <1>3, <1>7, <1>8

LEMMA TypedBeginGPU ==
  ASSUME Ordered, Located, Typed, NEW r \in Ranks, BeginMigrationGPU(r)
  PROVE  Typed'
<1> DEFINE index == Forgotten(rtag[r], nghosts[r])
           copies == [ plan \in Plans |->
                  { copy \in Copies(r, index) : PlanOf(r, ptls[r][index[copy.with] + 1].pos) = plan } ]
           gone == { bond \in Held(table[r]) : \A tag \in Members[bond] : ~ StaysLocal(r, index, tag) }
           message == [dir |-> Route[1], kind |-> "ptlBuffers", data |-> Sent(Route[1], ptlBuf'[r])]
<1>1. /\ phase[r] = "moved" /\ mask' = [mask EXCEPT ![r] = Leaving(r)]
      /\ ptlBuf' = [ptlBuf EXCEPT ![r] = ptlBuf'[r]]
      /\ bondBuf' = [bondBuf EXCEPT ![r] = copies]
      /\ removed' = [removed EXCEPT ![r] = gone]
      /\ phase' = [phase EXCEPT ![r] = "ptlBuffers"] /\ stage' = [stage EXCEPT ![r] = 1]
      /\ channel' = Put(channel, r, NeighborRank(r, Route[1]), message)
      /\ UNCHANGED <<ptls, table, sendBonds, recvBuf>>
  BY AllFunctions DEF BeginMigrationGPU, SendBuffers
<1>2. GoesOn(r) /\ Remaining(r) = channel /\ NeighborRank(r, Route[1]) \in Ranks
  BY <1>1, RouteNext, NeighborIs DEF GoesOn, Remaining, Sending
<1>3. Copies(r, index) \subseteq BondCopies
  <2>1. Held(table[r]) \subseteq BondTags
    <3>1. table[r].bonds \in Seq(BondTags)
      BY DEF Typed, TypedAt, IsTable
    <3> QED
      BY <3>1, ElementOfSeq, LenProperties DEF Held, Range
  <2> QED
    BY <2>1 DEF Copies, BondCopies
<1>4. /\ copies = [plan \in Plans |-> copies[plan]] /\ \A plan \in Plans : copies[plan] \subseteq BondCopies
      /\ gone \subseteq Held(table[r])
  BY <1>3
<1>5. TypedMessage(message)
  BY DEF TypedMessage
<1> HIDE DEF index, copies, gone, message
<1>6. BondsOnlyAt(r)
  BY <1>1, AllFunctions DEF BondsOnlyAt, OnlyAt
<1>7. TypedAt(r)'
  <2>1. phase'[r] = "ptlBuffers" /\ bondBuf'[r] = copies /\ removed'[r] = gone
    BY <1>1, AllFunctions
  <2>2. TypedAt(r) /\ UNCHANGED <<table, sendBonds>>
    BY <1>1 DEF Typed
  <2> QED
    BY <1>4, <2>1, <2>2 DEF TypedAt
<1> QED
  BY <1>1, <1>2, <1>5, <1>6, <1>7, TypedAfter

LEMMA TypedReceiveGPU ==
  ASSUME Ordered, Located, Typed, NEW r \in Ranks, ReceiveParticlesGPU(r)
  PROVE  Typed'
<1> DEFINE k == stage[r] + 1
           message == [dir |-> Route[k], kind |-> "ptlBuffers", data |-> Sent(Route[k], ptlBuf'[r])]
<1>1. /\ phase[r] = "ptlBuffers" /\ Arrived(r) /\ stage[r] < Len(Route)
      /\ ptlBuf' = [ptlBuf EXCEPT ![r] = ptlBuf'[r]]
      /\ recvBuf' = [recvBuf EXCEPT ![r] = recvBuf'[r]]
      /\ phase' = [phase EXCEPT ![r] = "ptlBuffers"] /\ stage' = [stage EXCEPT ![r] = k]
      /\ channel' = Put(Taken(r), r, NeighborRank(r, Route[k]), message)
      /\ UNCHANGED <<ptls, table, sendBonds, removed, mask, bondBuf>>
  BY AllFunctions DEF ReceiveParticlesGPU, SendBuffers
<1>2. /\ phase[r] \in Kinds(communicator) /\ GoesOn(r) /\ Remaining(r) = Taken(r)
      /\ stage[r] \in DOMAIN Route
  BY <1>1, OnTheGPU
<1>3. NeighborRank(r, Route[k]) \in Ranks
  <2>1. k \in DOMAIN Route
    BY <1>1, <1>2, RouteShape
  <2> QED
    BY <2>1, RouteNext, NeighborIs DEF Sending
<1>4. TypedMessage(message)
  BY DEF TypedMessage
<1> HIDE DEF message, k
<1>5. BondsOnlyAt(r)
  BY <1>1, AllFunctions DEF BondsOnlyAt, OnlyAt
<1>6. TypedAt(r)'
  <2>1. phase'[r] = "ptlBuffers" /\ TypedAt(r)
    BY <1>1, AllFunctions DEF Typed
  <2> QED
    BY <1>1, <2>1 DEF TypedAt
<1> QED
  BY <1>1, <1>2, <1>3, <1>4, <1>5, <1>6, TypedAfter

LEMMA TypedCompleteGPU ==
  ASSUME Ordered, Located, Typed, NEW r \in Ranks, CompleteParticlesGPU(r)
  PROVE  Typed'
<1> DEFINE message == [dir |-> Route[1], kind |-> "bondBuffers", data |-> Sent(Route[1], bondBuf[r])]
<1>1. /\ phase[r] = "ptlBuffers" /\ Arrived(r) /\ ptls' = [ptls EXCEPT ![r] = ptls'[r]]
      /\ mask' = [mask EXCEPT ![r] = {}] /\ ptlBuf' = [ptlBuf EXCEPT ![r] = NoElements]
      /\ recvBuf' = [recvBuf EXCEPT ![r] = {}]
      /\ IF BondTags = {} THEN Done(r)
         ELSE SendBuffers(r, 1, "bondBuffers", bondBuf[r], Taken(r))
      /\ UNCHANGED <<table, sendBonds, removed, bondBuf>>
  BY AllFunctions DEF CompleteParticlesGPU, FillParticles
<1>2. /\ phase[r] \in Kinds(communicator) /\ GoesOn(r) /\ Remaining(r) = Taken(r)
      /\ TypedAt(r) /\ Route[1] \in Sending /\ NeighborRank(r, Route[1]) \in Ranks
  BY <1>1, OnTheGPU, RouteNext, NeighborIs DEF Typed, Sending
<1>3. CASE BondTags = {}
  <2>1. /\ phase' = [phase EXCEPT ![r] = "idle"] /\ stage' = [stage EXCEPT ![r] = 0]
        /\ channel' = Remaining(r)
    BY <1>1, <1>2, <1>3 DEF Done
  <2>2. BondsOnlyAt(r)
    BY <1>1, <2>1, AllFunctions DEF BondsOnlyAt, OnlyAt
  <2>3. TypedAt(r)'
    BY <1>1, <1>2, <2>1, AllFunctions DEF TypedAt
  <2> QED
    BY <1>2, <2>1, <2>2, <2>3, TypedAfter
<1>4. CASE BondTags # {}
  <2>1. /\ phase' = [phase EXCEPT ![r] = "bondBuffers"] /\ stage' = [stage EXCEPT ![r] = 1]
        /\ channel' = Put(Remaining(r), r, NeighborRank(r, Route[1]), message)
    BY <1>1, <1>2, <1>4 DEF SendBuffers
  <2>2. BondsOnlyAt(r)
    BY <1>1, <2>1, AllFunctions DEF BondsOnlyAt, OnlyAt
  <2>3. TypedAt(r)'
    BY <1>1, <1>2, <2>1, AllFunctions DEF TypedAt
  <2>4. TypedMessage(message)
    BY <1>2, SentCopies DEF TypedMessage, TypedAt
  <2> HIDE DEF message
  <2> QED
    BY <1>2, <2>1, <2>2, <2>3, <2>4, TypedAfter
<1> QED
  BY <1>3, <1>4

LEMMA TypedBondsGPU ==
  ASSUME Ordered, Located, Typed, NEW r \in Ranks, ReceiveBondsGPU(r) \/ CompleteBondsGPU(r)
  PROVE  Typed'
<1>1. phase[r] = "bondBuffers" /\ Arrived(r)
  BY DEF ReceiveBondsGPU, CompleteBondsGPU
<1>2. /\ phase[r] \in Kinds(communicator) /\ GoesOn(r) /\ Remaining(r) = Taken(r)
      /\ stage[r] \in DOMAIN Route
  BY <1>1, OnTheGPU
<1>3. /\ TypedAt(r) /\ \A plan \in AllBuffers : Message(r).data[plan] \subseteq BondCopies
  BY <1>1, <1>2, MessageIsTyped DEF Typed, TypedMessage
<1>4. /\ IsTable(table[r]) /\ recvBuf[r] \cup Message(r).data[Local] \subseteq BondCopies
      /\ \A plan \in Plans : bondBuf[r][plan] \cup Message(r).data[plan] \subseteq BondCopies
  BY <1>1, <1>3 DEF TypedAt, AllBuffers
<1>5. ASSUME ReceiveBondsGPU(r) PROVE Typed'
  <2> DEFINE k == stage[r] + 1
             buf == Stored(bondBuf[r], Message(r).data)
             message == [dir |-> Route[k], kind |-> "bondBuffers", data |-> Sent(Route[k], buf)]
  <2>1. /\ stage[r] < Len(Route) /\ bondBuf' = [bondBuf EXCEPT ![r] = buf]
        /\ recvBuf' = [recvBuf EXCEPT ![r] = recvBuf[r] \cup Message(r).data[Local]]
        /\ SendBuffers(r, k, "bondBuffers", bondBuf'[r], Taken(r))
        /\ UNCHANGED <<ptls, table, sendBonds, removed, mask, ptlBuf>>
    BY <1>5 DEF ReceiveBondsGPU
  <2>2. /\ phase' = [phase EXCEPT ![r] = "bondBuffers"] /\ stage' = [stage EXCEPT ![r] = k]
        /\ channel' = Put(Remaining(r), r, NeighborRank(r, Route[k]), message)
    BY <1>2, <2>1, AllFunctions DEF SendBuffers
  <2>3. Route[k] \in Sending /\ NeighborRank(r, Route[k]) \in Ranks
    <3>1. k \in DOMAIN Route
      BY <1>2, <2>1, RouteShape
    <3> QED
      BY <3>1, RouteNext, NeighborIs DEF Sending
  <2>4. buf = [plan \in Plans |-> buf[plan]] /\ \A plan \in Plans : buf[plan] \subseteq BondCopies
    BY <1>4 DEF Stored
  <2> HIDE DEF buf
  <2>5. TypedMessage(message)
    BY <2>3, <2>4, SentCopies DEF TypedMessage
  <2> HIDE DEF message, k
  <2>6. BondsOnlyAt(r)
    BY <2>1, <2>2, AllFunctions DEF BondsOnlyAt, OnlyAt
  <2>7. TypedAt(r)'
    BY <1>3, <1>4, <2>1, <2>2, <2>4, AllFunctions DEF TypedAt
  <2> QED
    BY <1>2, <2>2, <2>3, <2>5, <2>6, <2>7, TypedAfter
<1>6. ASSUME CompleteBondsGPU(r) PROVE Typed'
  <2>1. PICK new \in UnpackedGPU(table[r], removed[r], recvBuf[r] \cup Message(r).data[Local]) :
            table' = [table EXCEPT ![r] = new]
    BY <1>6 DEF CompleteBondsGPU
  <2>2. /\ removed' = [removed EXCEPT ![r] = {}] /\ bondBuf' = [bondBuf EXCEPT ![r] = NoElements]
        /\ recvBuf' = [recvBuf EXCEPT ![r] = {}]
        /\ phase' = [phase EXCEPT ![r] = "idle"] /\ stage' = [stage EXCEPT ![r] = 0]
        /\ channel' = Remaining(r)
        /\ UNCHANGED <<ptls, sendBonds, mask, ptlBuf>>
    BY <1>2, <1>6 DEF CompleteBondsGPU, Done
  <2>3. IsTable(new)
    BY <1>4, <2>1, UnpackedIs, TableIs
  <2>4. BondsOnlyAt(r)
    BY <2>1, <2>2, AllFunctions DEF BondsOnlyAt, OnlyAt
  <2>5. TypedAt(r)'
    BY <1>3, <2>1, <2>2, <2>3, AllFunctions DEF TypedAt, NoElements
  <2> QED
    BY <1>2, <2>2, <2>4, <2>5, TypedAfter
<1> QED
  BY <1>5, <1>6

LEMMA TypedInit ==
  ASSUME Init
  PROVE  Typed
<1>1. PICK home \in [Tags -> Ranks] :
          table = [ r \in Ranks |->
            [ bonds |-> SetToSeq({ bond \in BondTags : \E tag \in Members[bond] : home[tag] = r }),
              rtag |-> LookUp(SetToSeq({ bond \in BondTags : \E tag \in Members[bond] : home[tag] = r }),
                              EmptyTable.rtag) ] ]
  BY DEF Init
<1>2. /\ phase = [r \in Ranks |-> "idle"] /\ sendBonds = [r \in Ranks |-> <<>>]
      /\ removed = [r \in Ranks |-> {}] /\ bondBuf = [r \in Ranks |-> NoElements]
      /\ channel = [pair \in Ranks \X Ranks |-> <<>>]
  BY DEF Init
<1>3. ASSUME NEW r \in Ranks PROVE TypedAt(r)
  <2> DEFINE here == { bond \in BondTags : \E tag \in Members[bond] : home[tag] = r }
             bonds == SetToSeq(here)
  <2>1. IsFiniteSet(here)
    BY MigrationAssumption, FS_Subset
  <2>2. bonds \in Seq(here)
    BY <2>1, ListOfSet
  <2>3. bonds \in Seq(BondTags)
    BY <2>2, SeqMonotonic
  <2>4. table[r] = [bonds |-> bonds, rtag |-> LookUp(bonds, EmptyTable.rtag)]
    BY <1>1
  <2> HIDE DEF bonds
  <2>5. IsTable(table[r])
    BY <2>3, <2>4, TableIs
  <2> QED
    BY <1>2, <2>5 DEF TypedAt, NoElements
<1>4. /\ table = [r \in Ranks |-> table[r]] /\ sendBonds = [r \in Ranks |-> sendBonds[r]]
      /\ removed = [r \in Ranks |-> removed[r]] /\ bondBuf = [r \in Ranks |-> bondBuf[r]]
  BY <1>1, <1>2
<1>5. \A pair \in Ranks \X Ranks : \A k \in DOMAIN channel[pair] : TypedMessage(channel[pair][k])
  BY <1>2
<1> QED
  BY <1>3, <1>4, <1>5 DEF Typed

LEMMA TypedIntegrate ==
  ASSUME Ordered, Typed, Integrate
  PROVE  Typed'
<1>1. /\ UNCHANGED <<table, sendBonds, removed, channel, bondBuf, recvBuf>>
      /\ phase' = [r \in Ranks |-> "moved"]
  BY DEF Integrate, buffers
<1>2. \A r \in Ranks : TypedAt(r)'
  BY <1>1 DEF Typed, TypedAt
<1> QED
  BY <1>1, <1>2 DEF Typed

LEMMA TypedNext ==
  ASSUME Ordered, Located, Typed, [Next]_vars
  PROVE  Typed'
<1>1. CASE Integrate
  BY <1>1, TypedIntegrate
<1>2. ASSUME NEW r \in Ranks, RankStep(r) PROVE Typed'
  <2>1. CASE communicator = "CPU" /\ CPUStep(r) /\ UNCHANGED buffers
    BY <2>1, TypedBegin, TypedReceive, TypedReceiveBonds DEF CPUStep
  <2>2. CASE communicator = "GPU" /\ GPUStep(r)
    BY <2>2, TypedBeginGPU, TypedReceiveGPU, TypedCompleteGPU, TypedBondsGPU DEF GPUStep
  <2> QED
    BY <1>2, <2>1, <2>2 DEF RankStep
<1>3. CASE UNCHANGED vars
  <2>1. UNCHANGED <<phase, table, sendBonds, removed, channel, bondBuf, recvBuf>>
    BY <1>3 DEF vars, migrationVars, buffers
  <2>2. \A r \in Ranks : TypedAt(r)'
    BY <2>1 DEF Typed, TypedAt
  <2> QED
    BY <2>1, <2>2 DEF Typed
<1> QED
  BY <1>1, <1>2, <1>3 DEF Next

LEMMA AlwaysTyped == Spec => []Typed
<1>1. Init => Typed
  BY TypedInit
<1>2. Ordered /\ Located /\ Typed /\ [Next]_vars => Typed'
  BY TypedNext
<1> QED
  BY <1>1, <1>2, AlwaysOrdered, AlwaysLocated, PTL DEF Spec

LEMMA NumbersAre ==
  ASSUME Located, Owned, Indexed, NEW r \in Ranks
  PROVE  rtag[r] \in [Tags -> Nat \cup {NOT_LOCAL}]
<1>1. ptls[r] \in Seq(Particles(Near(r, SentUpTo(r)))) /\ Distinct(ptls[r])
  BY ArraysAre
<1>2. CASE phase[r] = "moved"
  <2>1. /\ nghosts[r] \in Seq(Tags) /\ Single(nghosts[r])
        /\ \A k \in DOMAIN nghosts[r] : nghosts[r][k] \notin TagsOf(ptls[r])
        /\ rtag[r] = Numbered(NoIndex, AllTags(r))
    BY <1>2 DEF Indexed, IndexedAt
  <2>2. AllTags(r) \in Seq(Tags) /\ Single(AllTags(r))
    BY <1>1, <2>1, AllTagsAre
  <2>3. DOMAIN AllTags(r) = 1 .. Len(AllTags(r)) /\ Len(AllTags(r)) \in Nat
    BY <2>2, LenProperties
  <2>4. /\ rtag[r] = [tag \in Tags |-> rtag[r][tag]]
        /\ \A i \in DOMAIN AllTags(r) : AllTags(r)[i] \in Tags => rtag[r][AllTags(r)[i]] = i - 1
        /\ \A tag \in Tags : (\A i \in DOMAIN AllTags(r) : AllTags(r)[i] # tag) => rtag[r][tag] = NoIndex[tag]
    BY <2>1, <2>2, NumberedIs
  <2>5. ASSUME NEW tag \in Tags PROVE rtag[r][tag] \in Nat \cup {NOT_LOCAL}
    <3>1. CASE \E i \in DOMAIN AllTags(r) : AllTags(r)[i] = tag
      BY <2>3, <2>4, <3>1
    <3>2. CASE \A i \in DOMAIN AllTags(r) : AllTags(r)[i] # tag
      BY <2>4, <3>2 DEF NoIndex
    <3> QED
      BY <3>1, <3>2
  <2> QED
    BY <2>4, <2>5
<1>3. CASE phase[r] # "moved"
  <2>1. IsIndex(rtag[r], ptls[r], mask[r])
    BY <1>3 DEF Indexed, IndexedAt
  <2>2. DOMAIN ptls[r] = 1 .. Len(ptls[r]) /\ Len(ptls[r]) \in Nat
    BY <1>1, LenProperties
  <2>3. ASSUME NEW tag \in Tags PROVE rtag[r][tag] \in Nat \cup {NOT_LOCAL}
    <3>1. CASE tag \in TagsOf(ptls[r])
      <4>1. PICK i \in DOMAIN ptls[r] : ptls[r][i].tag = tag
        BY <3>1 DEF TagsOf
      <4>2. i - 1 \in Nat
        BY <2>2
      <4> QED
        BY <2>1, <4>1, <4>2 DEF IsIndex
    <3>2. CASE tag \notin TagsOf(ptls[r])
      BY <2>1, <3>2 DEF IsIndex
    <3> QED
      BY <3>1, <3>2
  <2> QED
    BY <2>1, <2>3 DEF IsIndex
<1> QED
  BY <1>2, <1>3

\* The types of all arrays, buffers and tables of all ranks: what the classes
\* declare, and that no particle is further than one domain from the global box
\* and no bond or particle is one the system does not have.
THEOREM TypeCorrect == Spec => []TypeOK
<1>1. ASSUME Ordered, Located, Owned, Indexed, Typed
      PROVE  TypeOK
  <2>1. /\ phase \in [Ranks -> {"idle", "moved", "particles", "bonds", "ptlBuffers", "bondBuffers"}]
        /\ stage \in [Ranks -> 0 .. Len(Route)] /\ DOMAIN channel = Ranks \X Ranks
    <3>1. communicator \in {"CPU", "GPU"} /\ phase \in [Ranks -> {"idle", "moved"} \cup Kinds(communicator)]
      BY <1>1 DEF Ordered
    <3>2. Kinds(communicator) \subseteq {"particles", "bonds", "ptlBuffers", "bondBuffers"}
      BY <3>1, KindsAre
    <3> QED
      BY <1>1, <3>1, <3>2 DEF Ordered
  <2>2. ASSUME NEW r \in Ranks, NEW i \in DOMAIN ptls[r]
        PROVE  /\ ptls[r][i].tag \in Tags
               /\ \A axis \in Axes : ptls[r][i].pos[axis] \in -1 .. Size[axis]
    <3>1. ptls[r] \in Seq(Particles(Near(r, SentUpTo(r))))
      BY <1>1, ArraysAre
    <3>2. ptls[r][i] \in Particles(Near(r, SentUpTo(r)))
      BY <3>1, ElementOfSeq, LenProperties
    <3>3. ptls[r][i].tag \in Tags /\ ptls[r][i].pos \in Near(r, SentUpTo(r))
      BY <3>2 DEF Particles
    <3>4. ASSUME NEW axis \in Axes PROVE ptls[r][i].pos[axis] \in -1 .. Size[axis]
      <4>1. /\ ptls[r][i].pos[axis] \in Int
            /\ ptls[r][i].pos[axis] - GridPos(r)[axis] \in Offsets(axis, SentUpTo(r))
            /\ Size[axis] \in Nat \ {0} /\ GridPos(r)[axis] \in 0 .. Size[axis] - 1
        BY <3>3, CellIs DEF Near
      <4>2. Offsets(axis, SentUpTo(r)) \subseteq {-1, 0, 1}
        BY DEF Offsets
      <4> QED
        BY <4>1, <4>2
    <3> QED
      BY <3>3, <3>4
  <2>3. ASSUME NEW r \in Ranks PROVE rtag[r] \in [Tags -> Nat \cup {NOT_LOCAL}]
    BY <1>1, NumbersAre
  <2>4. ASSUME NEW r \in Ranks PROVE Range(nghosts[r]) \subseteq Tags
    <3>1. nghosts[r] \in Seq(Tags) \/ nghosts[r] = <<>>
      BY <1>1 DEF Indexed, IndexedAt
    <3> QED
      BY <3>1, LenProperties, ElementOfSeq DEF Range
  <2>5. ASSUME NEW r \in Ranks
        PROVE  Held(table[r]) \cup Range(sendBonds[r]) \cup removed[r] \subseteq BondTags
    <3>1. /\ table[r].bonds \in Seq(BondTags) /\ sendBonds[r] \in Seq(BondTags)
          /\ removed[r] \subseteq Held(table[r])
      BY <1>1 DEF Typed, TypedAt, IsTable
    <3>2. Range(table[r].bonds) \subseteq BondTags /\ Range(sendBonds[r]) \subseteq BondTags
      BY <3>1, LenProperties, ElementOfSeq DEF Range
    <3> QED
      BY <3>1, <3>2 DEF Held
  <2>6. \A r \in Ranks : mask[r] \subseteq DOMAIN ptls[r]
    BY <1>1 DEF Located, LocatedAt, Leaving
  <2> QED
    BY <2>1, <2>2, <2>3, <2>4, <2>5, <2>6 DEF TypeOK
<1>2. Ordered /\ Located /\ Owned /\ Indexed /\ Typed => TypeOK
  BY <1>1
<1> QED
  BY <1>2, AlwaysOrdered, AlwaysLocated, AlwaysOwned, AlwaysIndexed, AlwaysTyped, PTL

-----------------------------------------------------------------------------
(* The tables: the reverse lookup is that of the list, which has no bond     *)
(* twice.                                                                    *)

LEMMA RangeOfBonds ==
  ASSUME NEW T, NEW list \in Seq(T)
  PROVE  /\ Range(list) \subseteq T /\ \A bond : bond \in Range(list) <=> \E i \in DOMAIN list : list[i] = bond
         /\ \A bond : Contains(list, bond) <=> bond \in Range(list)
<1>1. DOMAIN list = 1 .. Len(list) /\ \A i \in DOMAIN list : list[i] \in T
  BY LenProperties, ElementOfSeq
<1> QED
  BY <1>1 DEF Range, Contains

LEMMA TableMeans ==
  ASSUME NEW t, IsTable(t), TableConsistent(t)
  PROVE  /\ Single(t.bonds) /\ Held(t) \subseteq BondTags
         /\ \A bond \in BondTags : t.rtag[bond] = NOT_LOCAL <=> bond \notin Held(t)
<1>1. t.bonds \in Seq(BondTags)
  BY DEF IsTable
<1>2. /\ Range(t.bonds) \subseteq BondTags
      /\ \A bond : bond \in Range(t.bonds) <=> \E i \in DOMAIN t.bonds : t.bonds[i] = bond
  BY <1>1, RangeOfBonds
<1>3. DOMAIN t.bonds = 1 .. Len(t.bonds) /\ Len(t.bonds) \in Nat
  BY <1>1, LenProperties
<1>4. ASSUME NEW i \in DOMAIN t.bonds, NEW j \in DOMAIN t.bonds, t.bonds[i] = t.bonds[j] PROVE i = j
  <2>1. i - 1 = j - 1
    BY <1>4 DEF TableConsistent
  <2> QED
    BY <1>3, <2>1
<1>5. ASSUME NEW bond \in BondTags PROVE t.rtag[bond] = NOT_LOCAL <=> bond \notin Held(t)
  <2>1. ASSUME bond \in Held(t) PROVE t.rtag[bond] # NOT_LOCAL
    <3>1. PICK i \in DOMAIN t.bonds : t.bonds[i] = bond
      BY <1>2, <2>1 DEF Held
    <3>2. t.rtag[bond] = i - 1 /\ i - 1 \in Int
      BY <1>3, <3>1 DEF TableConsistent
    <3> QED
      BY <3>2, BondAssumption
  <2>2. ASSUME t.rtag[bond] # NOT_LOCAL PROVE bond \in Held(t)
    BY <1>2, <2>2 DEF TableConsistent, Held
  <2> QED
    BY <2>1, <2>2
<1> QED
  BY <1>2, <1>4, <1>5 DEF Single, Held

LEMMA TableFrom ==
  ASSUME NEW list \in Seq(BondTags), Single(list), NEW index,
         \A bond \in BondTags \ Range(list) : index[bond] = NOT_LOCAL,
         NEW t, t = [bonds |-> list, rtag |-> LookUp(list, index)]
  PROVE  TableConsistent(t) /\ Held(t) = Range(list)
<1>1. /\ Range(list) \subseteq BondTags
      /\ \A bond : bond \in Range(list) <=> \E i \in DOMAIN list : list[i] = bond
      /\ \A bond : Contains(list, bond) <=> bond \in Range(list)
  BY RangeOfBonds
<1>2. DOMAIN list = 1 .. Len(list) /\ Len(list) \in Nat
  BY LenProperties
<1> DEFINE last(bond) == CHOOSE i \in DOMAIN list :
                             list[i] = bond /\ \A j \in DOMAIN list : list[j] = bond => j <= i
<1>3. ASSUME NEW i \in DOMAIN list PROVE last(list[i]) = i
  <2>1. \A j \in DOMAIN list : list[j] = list[i] => j = i
    BY DEF Single
  <2>2. list[i] = list[i] /\ \A j \in DOMAIN list : list[j] = list[i] => j <= i
    BY <1>2, <2>1
  <2> QED
    BY <2>1, <2>2
<1>4. \A bond \in BondTags :
          LookUp(list, index)[bond] = IF Contains(list, bond) THEN last(bond) - 1 ELSE index[bond]
  BY DEF LookUp
<1> HIDE DEF last
<1>5. t.bonds = list /\ t.rtag = LookUp(list, index)
  OBVIOUS
<1>6. ASSUME NEW i \in DOMAIN list PROVE t.rtag[list[i]] = i - 1
  <2>1. list[i] \in BondTags /\ Contains(list, list[i])
    BY <1>1
  <2> QED
    BY <1>3, <1>4, <1>5, <2>1
<1>7. ASSUME NEW bond \in BondTags, t.rtag[bond] # NOT_LOCAL
      PROVE  t.rtag[bond] + 1 \in DOMAIN list /\ list[t.rtag[bond] + 1] = bond
  <2>1. bond \in Range(list)
    BY <1>1, <1>4, <1>5, <1>7
  <2>2. PICK i \in DOMAIN list : list[i] = bond
    BY <1>1, <2>1
  <2>3. t.rtag[bond] = i - 1 /\ (i - 1) + 1 = i
    BY <1>2, <1>6, <2>2
  <2> QED
    BY <2>2, <2>3
<1>8. TableConsistent(t)
  BY <1>5, <1>6, <1>7 DEF TableConsistent
<1> QED
  BY <1>5, <1>8 DEF Held

\* unpackRemoveBonds(): what is removed goes, what is received comes.
LEMMA UnpackIs ==
  ASSUME NEW t, IsTable(t), TableConsistent(t), NEW remove \in SUBSET Held(t),
         NEW received \in Seq(BondTags), Single(received),
         NEW new, new = UnpackRemove(t, remove, received)
  PROVE  TableConsistent(new) /\ Held(new) = (Held(t) \ remove) \cup Range(received)
<1> DEFINE old == [bond \in BondTags |-> IF bond \in remove THEN NOT_LOCAL ELSE t.rtag[bond]]
           stays == { i \in DOMAIN t.bonds : t.bonds[i] \notin remove }
           comes == { i \in DOMAIN received : old[received[i]] = NOT_LOCAL }
           stay == Staying(t.bonds, remove)
           fresh == Fresh(received, old)
           all == stay \o fresh
<1>1. /\ t.bonds \in Seq(BondTags) /\ Single(t.bonds) /\ Held(t) \subseteq BondTags
      /\ \A bond \in BondTags : t.rtag[bond] = NOT_LOCAL <=> bond \notin Held(t)
  BY TableMeans DEF IsTable
<1>2. \A bond \in BondTags : old[bond] = NOT_LOCAL <=> bond \notin Held(t) \ remove
  BY <1>1
<1>3. /\ stay = Picked(t.bonds, stays) /\ stays \in SUBSET (DOMAIN t.bonds)
      /\ fresh = Picked(received, comes) /\ comes \in SUBSET (DOMAIN received)
  BY DEF Staying, Fresh
<1>4. new = [bonds |-> all, rtag |-> LookUp(all, old)]
  BY DEF UnpackRemove
<1> HIDE DEF old, stay, fresh, stays, comes
<1>5. /\ stay \in Seq(BondTags) /\ Single(stay) /\ Range(stay) = { t.bonds[i] : i \in stays }
       /\ fresh \in Seq(BondTags) /\ Single(fresh) /\ Range(fresh) = { received[i] : i \in comes }
  BY <1>1, <1>3, PickedBonds
<1>6. Range(stay) = Held(t) \ remove
  <2>1. \A bond : bond \in Held(t) <=> \E i \in DOMAIN t.bonds : t.bonds[i] = bond
    BY <1>1, RangeOfBonds DEF Held
  <2> QED
    BY <1>5, <2>1 DEF stays
<1>7. Range(fresh) = Range(received) \ (Held(t) \ remove)
  <2>1. /\ Range(received) \subseteq BondTags
        /\ \A bond : bond \in Range(received) <=> \E i \in DOMAIN received : received[i] = bond
    BY RangeOfBonds
  <2>2. ASSUME NEW bond
        PROVE  bond \in { received[i] : i \in comes } <=> bond \in Range(received) \ (Held(t) \ remove)
    BY <1>2, <2>1 DEF comes
  <2> QED
    BY <1>5, <2>2
<1>8. Joins(BondTags, stay, fresh, all)
  <2>1. /\ \A i \in DOMAIN stay : stay[i] \in Range(stay)
        /\ \A k \in DOMAIN fresh : fresh[k] \in Range(fresh)
    BY DEF Range
  <2>2. \A i \in DOMAIN stay, k \in DOMAIN fresh : stay[i] # fresh[k]
    BY <1>6, <1>7, <2>1
  <2> QED
    BY <1>5, <2>2 DEF Joins
<1> HIDE DEF all
<1>9. /\ all \in Seq(BondTags) /\ Single(all)
      /\ \A i \in DOMAIN stay : i \in DOMAIN all /\ all[i] = stay[i]
      /\ \A k \in DOMAIN fresh : \E i \in DOMAIN all : all[i] = fresh[k]
      /\ \A i \in DOMAIN all :
                \/ i \in DOMAIN stay /\ all[i] = stay[i]
                \/ \E k \in DOMAIN fresh : all[i] = fresh[k]
  BY <1>8, JoinedTags
<1>10. Range(all) = Range(stay) \cup Range(fresh)
  BY <1>9 DEF Range
<1>11. \A bond \in BondTags \ Range(all) : old[bond] = NOT_LOCAL
  BY <1>2, <1>6, <1>10
<1>12. TableConsistent(new) /\ Held(new) = Range(all)
  BY <1>4, <1>9, <1>11, TableFrom
<1> QED
  BY <1>6, <1>7, <1>10, <1>12

-----------------------------------------------------------------------------
(* Communicator: the bonds that a direction takes.                          *)

\* A reverse-lookup table that has no index but for the tags of a set.
AbsentBut(set, index) == \A tag \in Tags \ set : index[tag] = NOT_LOCAL

LEMMA SelectedIndex ==
  ASSUME NEW S, NEW stay \in Seq(Particles(S)), NEW leave \in Seq(Particles(S)), Distinct(stay), Distinct(leave),
         TagsOf(stay) \cap TagsOf(leave) = {},
         NEW old, AbsentBut(TagsOf(stay) \cup TagsOf(leave), old),
         NEW index, index = Numbered(old, TagList(stay \o leave)), NEW tag \in Tags
  PROVE  /\ index[tag] \in 0 .. Len(stay) - 1 <=> tag \in TagsOf(stay)
         /\ LeavesDomain(index[tag], Len(stay)) <=> tag \in TagsOf(leave)
<1> DEFINE both == stay \o leave
<1>1. Distinct(both) /\ TagsOf(both) = TagsOf(stay) \cup TagsOf(leave)
  BY JoinedOnce
<1>2. /\ both \in Seq(Particles(S)) /\ DOMAIN both = 1 .. Len(stay) + Len(leave)
      /\ DOMAIN stay = 1 .. Len(stay) /\ Len(stay) \in Nat /\ Len(leave) \in Nat /\ DOMAIN leave = 1 .. Len(leave)
      /\ \A i \in 1 .. Len(stay) + Len(leave) : both[i] = IF i <= Len(stay) THEN stay[i] ELSE leave[i - Len(stay)]
  BY ConcatProperties, LenProperties
<1> HIDE DEF both
<1>3. IsIndex(index, both, {})
  BY <1>1, <1>2, NumberedIndex DEF both, AbsentBut
<1>4. NOT_LOCAL \notin Int
  BY BondAssumption
<1>5. CASE tag \in TagsOf(stay)
  <2>1. PICK i \in DOMAIN stay : stay[i].tag = tag
    BY <1>5 DEF TagsOf
  <2>2. i \in DOMAIN both /\ both[i].tag = tag /\ i \in 1 .. Len(stay)
    BY <1>2, <2>1
  <2>3. index[tag] = i - 1
    BY <1>3, <2>2 DEF IsIndex
  <2>4. index[tag] \in 0 .. Len(stay) - 1
    BY <1>2, <2>2, <2>3
  <2> QED
    BY <1>5, <2>4 DEF LeavesDomain
<1>6. CASE tag \in TagsOf(leave)
  <2>1. PICK i \in DOMAIN leave : leave[i].tag = tag
    BY <1>6 DEF TagsOf
  <2>2. i + Len(stay) \in DOMAIN both /\ both[i + Len(stay)] = leave[i] /\ i >= 1 /\ i \in Nat
    <3>1. /\ i \in 1 .. Len(leave) /\ i + Len(stay) \in 1 .. Len(stay) + Len(leave)
          /\ ~ (i + Len(stay) <= Len(stay)) /\ (i + Len(stay)) - Len(stay) = i
      BY <1>2
    <3> QED
      BY <1>2, <3>1
  <2>3. index[tag] = i + Len(stay) - 1
    BY <1>3, <2>1, <2>2 DEF IsIndex
  <2>4. index[tag] \in Int /\ index[tag] \notin 0 .. Len(stay) - 1
    BY <1>2, <2>2, <2>3
  <2> QED
    BY <1>4, <1>6, <2>4 DEF LeavesDomain
<1>7. CASE tag \notin TagsOf(stay) /\ tag \notin TagsOf(leave)
  <2>1. index[tag] = NOT_LOCAL
    BY <1>1, <1>3, <1>7 DEF IsIndex
  <2>2. NOT_LOCAL \notin 0 .. Len(stay) - 1
    BY <1>2, <1>4
  <2> QED
    BY <1>7, <2>1, <2>2 DEF LeavesDomain
<1> QED
  BY <1>5, <1>6, <1>7

\* A direction begins: what is sent of the bonds, and what is left of them.
LEMMA StartSelects ==
  ASSUME Ordered, Located, Typed, NEW r \in Ranks, NEW k \in DOMAIN Route,
         NEW S, NEW list \in Seq(Particles(S)), Distinct(list), NEW old, IsIndex(old, list, {}),
         NEW bonds \in Seq(BondTags), Single(bonds), Range(bonds) = BondsOf(TagsOf(list)),
         NEW chan, StartStage(r, k, list, old, bonds, chan)
  PROVE  \E leave :
         /\ phase' = [phase EXCEPT ![r] = "particles"] /\ stage' = [stage EXCEPT ![r] = k]
         /\ ptls' = [ptls EXCEPT ![r] = ptls'[r]]
         /\ sendBonds' = [sendBonds EXCEPT ![r] = sendBonds'[r]]
         /\ removed' = [removed EXCEPT ![r] = removed'[r]]
         /\ channel' = Put(chan, r, NeighborRank(r, Route[k]),
                           [dir |-> Route[k], kind |-> "particles", data |-> leave])
         /\ Single(sendBonds'[r]) /\ Range(sendBonds'[r]) = BondsOf(TagsOf(leave))
         /\ Range(bonds) \ removed'[r] = BondsOf(TagsOf(ptls'[r]))
<1> DEFINE dir == Route[k]
           stay == Stays(r, dir, list)
           leave == Leaves(r, dir, list)
           index == Numbered(old, TagList(stay \o leave))
           n == Len(stay)
           chosen == { i \in DOMAIN bonds : MigratesBond(bonds[i], index, n) }
           gone == { b \in Range(bonds) : RemovesBond(b, index, n) }
<1>1. ~ (k > Len(Route))
  BY RouteShape
<1>2. /\ phase' = [phase EXCEPT ![r] = "particles"] /\ stage' = [stage EXCEPT ![r] = k]
      /\ ptls' = [ptls EXCEPT ![r] = stay]
      /\ sendBonds' = [sendBonds EXCEPT ![r] =
            Picked(bonds, { i \in DOMAIN bonds :
                MigratesBond(bonds[i], Numbered(old, TagList(ptls'[r] \o leave)), Len(ptls'[r])) })]
      /\ removed' = [removed EXCEPT ![r] =
            { b \in Range(bonds) : RemovesBond(b, Numbered(old, TagList(ptls'[r] \o leave)), Len(ptls'[r])) }]
      /\ channel' = Put(chan, r, NeighborRank(r, dir), [dir |-> dir, kind |-> "particles", data |-> leave])
  BY <1>1 DEF StartStage
<1>3. ptls'[r] = stay
  BY <1>2, AllFunctions
<1>4. /\ sendBonds' = [sendBonds EXCEPT ![r] = Picked(bonds, chosen)]
      /\ removed' = [removed EXCEPT ![r] = gone]
  BY <1>2, <1>3
<1>5. /\ stay = Picked(list, DOMAIN list \ Beyond(r, dir, list)) /\ leave = Picked(list, Beyond(r, dir, list))
      /\ Beyond(r, dir, list) \in SUBSET (DOMAIN list)
      /\ DOMAIN list \ Beyond(r, dir, list) \in SUBSET (DOMAIN list)
  BY DEF Stays, Leaves, Beyond
<1>6. \A i \in DOMAIN list : list[i] \in Particles(S)
  BY ElementOfSeq, LenProperties
<1> HIDE DEF dir, stay, leave
<1>7. stay \in Seq(Particles(S)) /\ leave \in Seq(Particles(S))
  BY <1>5, <1>6, PickedIn
<1>8. /\ Distinct(stay) /\ Distinct(leave) /\ TagsOf(list) = TagsOf(stay) \cup TagsOf(leave)
      /\ TagsOf(stay) \cap TagsOf(leave) = {}
  BY <1>5, PartitionOnce
<1>9. AbsentBut(TagsOf(stay) \cup TagsOf(leave), old)
  BY <1>8 DEF IsIndex, AbsentBut
<1>10. ASSUME NEW tag \in Tags
       PROVE  /\ index[tag] \in 0 .. n - 1 <=> tag \in TagsOf(stay)
              /\ LeavesDomain(index[tag], n) <=> tag \in TagsOf(leave)
  <2>1. index = Numbered(old, TagList(stay \o leave)) /\ n = Len(stay)
    OBVIOUS
  <2> HIDE DEF index, n
  <2> QED
    BY <1>7, <1>8, <1>9, <2>1, SelectedIndex
<1> HIDE DEF index, n
<1>11. ASSUME NEW bond \in BondTags
       PROVE  /\ MigratesBond(bond, index, n) <=> bond \in BondsOf(TagsOf(leave))
              /\ RemovesBond(bond, index, n) <=> bond \notin BondsOf(TagsOf(stay))
  <2>1. Members[bond] \subseteq Tags
    BY MigrationAssumption
  <2>2. (\E tag \in Members[bond] : LeavesDomain(index[tag], n))
          <=> \E tag \in Members[bond] : tag \in TagsOf(leave)
    BY <1>10, <2>1
  <2>3. (\A tag \in Members[bond] : index[tag] \notin 0 .. n - 1)
          <=> \A tag \in Members[bond] : tag \notin TagsOf(stay)
    BY <1>10, <2>1
  <2>4. MigratesBond(bond, index, n) <=> bond \in BondsOf(TagsOf(leave))
    BY <2>2 DEF MigratesBond, BondsOf
  <2>5. RemovesBond(bond, index, n) <=> bond \notin BondsOf(TagsOf(stay))
    BY <2>3 DEF RemovesBond, BondsOf
  <2> QED
    BY <2>4, <2>5
<1>12. BondsOf(TagsOf(list)) = BondsOf(TagsOf(stay)) \cup BondsOf(TagsOf(leave))
  BY <1>8 DEF BondsOf
<1>13. /\ Range(bonds) \subseteq BondTags
       /\ \A bond : bond \in Range(bonds) <=> \E i \in DOMAIN bonds : bonds[i] = bond
  BY RangeOfBonds
<1>14. Range(bonds) \ gone = BondsOf(TagsOf(stay))
  BY <1>11, <1>12, <1>13
<1>15. { bonds[i] : i \in chosen } = BondsOf(TagsOf(leave))
  <2>1. ASSUME NEW bond
        PROVE  bond \in { bonds[i] : i \in chosen } <=> bond \in BondsOf(TagsOf(leave))
    BY <1>11, <1>12, <1>13 DEF BondsOf
  <2> QED
    BY <2>1
<1>16. chosen \in SUBSET (DOMAIN bonds)
  OBVIOUS
<1> HIDE DEF chosen, gone
<1>17. Single(Picked(bonds, chosen)) /\ Range(Picked(bonds, chosen)) = BondsOf(TagsOf(leave))
  <2>1. /\ Range(Picked(bonds, chosen)) = { bonds[i] : i \in chosen }
        /\ Single(bonds) => Single(Picked(bonds, chosen))
    BY <1>16, PickedBonds
  <2> QED
    BY <1>15, <2>1
<1>18. sendBonds'[r] = Picked(bonds, chosen) /\ removed'[r] = gone
  BY <1>4, AllFunctions
<1>19. /\ Single(sendBonds'[r]) /\ Range(sendBonds'[r]) = BondsOf(TagsOf(leave))
       /\ Range(bonds) \ removed'[r] = BondsOf(TagsOf(ptls'[r]))
  BY <1>3, <1>14, <1>17, <1>18
<1> QED
  BY <1>2, <1>3, <1>4, <1>18, <1>19 DEF dir

-----------------------------------------------------------------------------
(* Communicator: the bonds follow the particles.                            *)

\* What a rank has sent before, and whom it sends to.
LEMMA SentBefore ==
  ASSUME Ordered, NEW from \in Ranks, NEW to \in Ranks
  PROVE  /\ \A j \in DOMAIN channel[<<from, to>>] : Number(channel[<<from, to>>][j]) <= Clock(from)
         /\ \A dir \in Sending, kind \in Kinds(communicator) :
                NeighborRank(from, dir) = to /\ Clock(from) < Turn(dir, kind) => Clock(to) <= Turn(dir, kind)
<1> DEFINE list == channel[<<from, to>>]
<1>1. InOrder(Kinds(communicator), list, from, to, Clock(from), Clock(to))
  BY DEF Ordered
<1> HIDE DEF list
<1>2. \A j \in DOMAIN list : Number(list[j]) <= Clock(from)
  BY <1>1 DEF InOrder
<1>3. \A dir \in Sending, kind \in Kinds(communicator) :
          NeighborRank(from, dir) = to /\ Clock(from) < Turn(dir, kind) => Clock(to) <= Turn(dir, kind)
  BY <1>1 DEF InOrder
<1> QED
  BY <1>2, <1>3 DEF list

LEMMA BondsOfBoth ==
  ASSUME NEW A, NEW B
  PROVE  BondsOf(A \cup B) = BondsOf(A) \cup BondsOf(B)
BY DEF BondsOf

LEMMA RoutePlace ==
  ASSUME NEW k \in DOMAIN Route, NEW l \in DOMAIN Route, Route[k] = Route[l]
  PROVE  k = l
<1>1. k \in Int /\ l \in Int
  BY RouteShape
<1>2. ~ (k < l) /\ ~ (l < k)
  <2>1. Route[k] \in Int /\ Route[l] \in Int
    BY RouteShape DEF Directions
  <2> QED
    BY <2>1, RouteShape
<1> QED
  BY <1>1, <1>2

LEMMA FollowedStart ==
  ASSUME Ordered, Located, Typed, Followed, communicator = "CPU", "bonds" \in Kinds(communicator),
         NEW r \in Ranks, GoesOn(r), Distinct(ptls[r]),
         NEW k \in Nat \ {0}, k \in DOMAIN Route => Clock(r) < Turn(Route[k], "particles"),
         NEW old, IsIndex(old, ptls[r], {}), NEW new, IsTable(new), TableConsistent(new),
         Held(new) = BondsOf(TagsOf(ptls[r])), table' = [table EXCEPT ![r] = new],
         StartStage(r, k, ptls[r], old, new.bonds, Remaining(r)), UNCHANGED buffers
  PROVE  Followed'
<1>1. table'[r] = new /\ table' = [table EXCEPT ![r] = table'[r]]
  BY AllFunctions
<1>2. \A q \in Ranks : TableConsistent(table[q]) /\ Single(sendBonds[q]) /\ FollowsAt(q)
  BY DEF Followed
<1>3. ASSUME NEW from \in Ranks, NEW to \in Ranks
      PROVE  /\ Belong(from, channel[<<from, to>>])
             /\ \A j \in DOMAIN channel[<<from, to>>] :
                    channel[<<from, to>>][j].kind = "bonds" => Single(channel[<<from, to>>][j].data)
  BY DEF Followed
<1>4. CASE k \notin DOMAIN Route
  <2>1. k > Len(Route)
    BY <1>4, RouteShape
  <2>2. /\ phase' = [phase EXCEPT ![r] = "idle"] /\ stage' = [stage EXCEPT ![r] = 0]
        /\ ptls' = [ptls EXCEPT ![r] = ptls[r]] /\ channel' = Remaining(r)
        /\ sendBonds' = [sendBonds EXCEPT ![r] = <<>>] /\ removed' = [removed EXCEPT ![r] = {}]
    BY <2>1 DEF StartStage
  <2>3. /\ phase'[r] = "idle" /\ ptls'[r] = ptls[r] /\ sendBonds'[r] = <<>>
        /\ BondsOnlyAt(r)
    BY <1>1, <2>2, AllFunctions DEF BondsOnlyAt, OnlyAt, buffers
  <2>4. ASSUME NEW from \in Ranks, NEW to \in Ranks
        PROVE  \A i \in DOMAIN channel'[<<from, to>>] : \E j \in DOMAIN channel[<<from, to>>] :
                   channel'[<<from, to>>][i] = channel[<<from, to>>][j]
    BY <2>2, RemainingMessages
  <2>5. ASSUME NEW q \in Ranks
        PROVE  TableConsistent(table[q])' /\ Single(sendBonds[q])' /\ FollowsAt(q)'
    <3>1. CASE q = r
      <4>1. Single(sendBonds'[r])
        BY <2>3 DEF Single
      <4>2. FollowsAt(r)'
        BY <1>1, <2>3 DEF FollowsAt
      <4> QED
        BY <1>1, <3>1, <4>1, <4>2
    <3>2. CASE q # r
      <4>1. /\ phase'[q] = phase[q] /\ stage'[q] = stage[q] /\ ptls'[q] = ptls[q] /\ table'[q] = table[q]
            /\ sendBonds'[q] = sendBonds[q] /\ removed'[q] = removed[q]
        BY <2>3, <3>2, OthersSame
      <4>2. FollowsAt(q)'
        <5>1. Kept(q)' = Kept(q) /\ Source(q)' = Source(q)
          BY <4>1 DEF Kept, Source
        <5>2. ASSUME phase[q] = "bonds"
              PROVE  Source(q) \in Ranks
          BY <5>2, Waiting
        <5>3. ASSUME phase[q] = "bonds", phase'[Source(q)] = "particles"
              PROVE  /\ phase[Source(q)] = "particles" /\ stage'[Source(q)] = stage[Source(q)]
                     /\ sendBonds'[Source(q)] = sendBonds[Source(q)]
          BY <2>3, <5>2, <5>3, OthersSame
        <5>4. FollowsAt(q)
          BY <1>2
        <5>5. ASSUME phase[q] = "bonds", NEW i \in DOMAIN channel'[<<Source(q), q>>],
                     channel'[<<Source(q), q>>][i].kind = "bonds",
                     channel'[<<Source(q), q>>][i].dir = Route[stage[q]]
              PROVE  Kept(q) \cup Data(channel'[<<Source(q), q>>][i]) = BondsOf(TagsOf(ptls[q]))
          BY <2>4, <5>2, <5>4, <5>5 DEF FollowsAt
        <5>6. ASSUME phase[q] = "bonds", phase'[Source(q)] = "particles", stage'[Source(q)] = stage[q]
              PROVE  Kept(q) \cup Range(sendBonds'[Source(q)]) = BondsOf(TagsOf(ptls[q]))
          BY <5>3, <5>4, <5>6 DEF FollowsAt
        <5> QED
          BY <4>1, <5>1, <5>4, <5>5, <5>6 DEF FollowsAt, Data
      <4> QED
        BY <1>2, <4>1, <4>2
    <3> QED
      BY <3>1, <3>2
  <2>6. ASSUME NEW from \in Ranks, NEW to \in Ranks
        PROVE  /\ Belong(from, channel[<<from, to>>])'
               /\ \A i \in DOMAIN channel'[<<from, to>>] :
                      channel'[<<from, to>>][i].kind = "bonds" => Single(channel'[<<from, to>>][i].data)
    <3>1. phase'[from] = "particles" =>
              phase[from] = "particles" /\ stage'[from] = stage[from] /\ sendBonds'[from] = sendBonds[from]
      BY <2>3, OthersSame
    <3>2. Belong(from, channel[<<from, to>>])
      BY <1>3
    <3>3. Belong(from, channel[<<from, to>>])'
      BY <2>4, <3>1, <3>2 DEF Belong, Data
    <3> QED
      BY <1>3, <2>4, <3>3
  <2> QED
    BY <2>5, <2>6 DEF Followed
<1>5. CASE k \in DOMAIN Route
  <2> DEFINE dir == Route[k]
  <2>1. new.bonds \in Seq(BondTags) /\ Single(new.bonds) /\ Range(new.bonds) = BondsOf(TagsOf(ptls[r]))
    BY TableMeans DEF IsTable, Held
  <2>2. ptls[r] \in Seq(Particles(Near(r, SentUpTo(r))))
    BY DEF Located, LocatedAt
  <2>3. PICK leave :
            /\ phase' = [phase EXCEPT ![r] = "particles"] /\ stage' = [stage EXCEPT ![r] = k]
            /\ ptls' = [ptls EXCEPT ![r] = ptls'[r]]
            /\ sendBonds' = [sendBonds EXCEPT ![r] = sendBonds'[r]]
            /\ removed' = [removed EXCEPT ![r] = removed'[r]]
            /\ channel' = Put(Remaining(r), r, NeighborRank(r, Route[k]),
                              [dir |-> Route[k], kind |-> "particles", data |-> leave])
            /\ Single(sendBonds'[r]) /\ Range(sendBonds'[r]) = BondsOf(TagsOf(leave))
            /\ Range(new.bonds) \ removed'[r] = BondsOf(TagsOf(ptls'[r]))
    BY <1>5, <2>1, <2>2, StartSelects
  <2> DEFINE message == [dir |-> dir, kind |-> "particles", data |-> leave]
  <2>4. /\ phase'[r] = "particles" /\ stage'[r] = k /\ BondsOnlyAt(r) /\ dir \in Sending
        /\ NeighborRank(r, dir) \in Ranks
    <3>1. dir \in Sending
      BY <1>5, RouteNext
    <3> QED
      BY <1>1, <2>3, <3>1, AllFunctions, NeighborIs DEF BondsOnlyAt, OnlyAt, buffers, Sending
  <2>5. message.dir = dir /\ message.kind = "particles" /\ message.data = leave
    OBVIOUS
  <2>6. "particles" \in Kinds(communicator) /\ Clock(r) < 2 * dir /\ dir \in Int
    BY <1>5, <2>4, KindsAre DEF Turn, Ordered, Sending, Directions
  <2> HIDE DEF dir, message
  <2>7. channel' = Put(Remaining(r), r, NeighborRank(r, dir), message)
    BY <2>3 DEF dir, message
  <2>8. ASSUME NEW from \in Ranks, NEW to \in Ranks, NEW i \in DOMAIN channel'[<<from, to>>]
        PROVE  \/ \E j \in DOMAIN channel[<<from, to>>] :
                      channel'[<<from, to>>][i] = channel[<<from, to>>][j]
               \/ from = r /\ to = NeighborRank(r, dir) /\ channel'[<<from, to>>][i] = message
    BY <2>4, <2>7, MessagesAfter
  <2>9. ASSUME NEW to \in Ranks, NEW j \in DOMAIN channel[<<r, to>>],
               channel[<<r, to>>][j].kind \in {"particles", "bonds"}
        PROVE  channel[<<r, to>>][j].dir # dir
    <3>1. Number(channel[<<r, to>>][j]) <= Clock(r)
      BY SentBefore
    <3>2. SUFFICES ASSUME channel[<<r, to>>][j].dir = dir PROVE FALSE
      OBVIOUS
    <3>3. Number(channel[<<r, to>>][j]) \in {2 * dir, 2 * dir + 1}
      BY <2>9, <3>2 DEF Number, Turn
    <3>4. Clock(r) \in Int
      BY ClockIs DEF Clocks
    <3> QED
      BY <2>6, <3>1, <3>3, <3>4
  <2>10. ASSUME NEW q \in Ranks
         PROVE  TableConsistent(table[q])' /\ Single(sendBonds[q])' /\ FollowsAt(q)'
    <3>1. CASE q = r
      <4>1. FollowsAt(r)'
        BY <1>1, <2>3, <2>4 DEF FollowsAt, Kept, Held
      <4> QED
        BY <1>1, <2>3, <3>1, <4>1
    <3>2. CASE q # r
      <4>1. /\ phase'[q] = phase[q] /\ stage'[q] = stage[q] /\ ptls'[q] = ptls[q] /\ table'[q] = table[q]
            /\ sendBonds'[q] = sendBonds[q] /\ removed'[q] = removed[q]
        BY <2>4, <3>2, OthersSame
      <4>2. Kept(q)' = Kept(q) /\ Source(q)' = Source(q)
        BY <4>1 DEF Kept, Source
      <4>3. FollowsAt(q)
        BY <1>2
      <4>4. ASSUME phase[q] = "bonds"
            PROVE  /\ Source(q) \in Ranks /\ Clock(q) = 2 * Route[stage[q]] + 1 /\ stage[q] \in DOMAIN Route
                   /\ NeighborRank(Source(q), Route[stage[q]]) = q
        BY <4>4, Waiting DEF Turn
      <4>5. ASSUME phase[q] = "bonds", phase'[Source(q)] = "particles", stage'[Source(q)] = stage[q]
            PROVE  Kept(q) \cup Range(sendBonds'[Source(q)]) = BondsOf(TagsOf(ptls[q]))
        <5>1. CASE Source(q) # r
          <6>1. /\ phase[Source(q)] = "particles" /\ stage[Source(q)] = stage[q]
                /\ sendBonds'[Source(q)] = sendBonds[Source(q)]
            BY <2>4, <4>4, <4>5, <5>1, OthersSame
          <6> QED
            BY <4>3, <4>5, <6>1 DEF FollowsAt
        <5>2. CASE Source(q) = r
          <6>1. NeighborRank(r, dir) = q /\ Clock(q) = 2 * dir + 1
            BY <2>4, <4>4, <4>5, <5>2 DEF dir
          <6>2. Clock(r) < Turn(dir, "particles") /\ Turn(dir, "particles") = 2 * dir
            BY <2>6 DEF Turn
          <6>3. Clock(q) <= 2 * dir
            BY <2>4, <2>6, <6>1, <6>2, SentBefore
          <6> QED
            BY <2>6, <6>1, <6>3
        <5> QED
          BY <5>1, <5>2
      <4>6. ASSUME phase[q] = "bonds", NEW i \in DOMAIN channel'[<<Source(q), q>>],
                   channel'[<<Source(q), q>>][i].kind = "bonds",
                   channel'[<<Source(q), q>>][i].dir = Route[stage[q]]
            PROVE  Kept(q) \cup Data(channel'[<<Source(q), q>>][i]) = BondsOf(TagsOf(ptls[q]))
        <5>1. \E j \in DOMAIN channel[<<Source(q), q>>] :
                  channel'[<<Source(q), q>>][i] = channel[<<Source(q), q>>][j]
          BY <2>5, <2>8, <4>4, <4>6
        <5> QED
          BY <4>3, <4>6, <5>1 DEF FollowsAt
      <4>7. FollowsAt(q)'
        BY <4>1, <4>2, <4>3, <4>5, <4>6 DEF FollowsAt, Data
      <4> QED
        BY <1>2, <4>1, <4>7
    <3> QED
      BY <3>1, <3>2
  <2>11. ASSUME NEW from \in Ranks, NEW to \in Ranks
         PROVE  /\ Belong(from, channel[<<from, to>>])'
                /\ \A i \in DOMAIN channel'[<<from, to>>] :
                       channel'[<<from, to>>][i].kind = "bonds" => Single(channel'[<<from, to>>][i].data)
    <3>1. Belong(from, channel[<<from, to>>])
      BY <1>3
    <3>2. ASSUME NEW i \in DOMAIN channel'[<<from, to>>], channel'[<<from, to>>][i].kind = "bonds"
          PROVE  \E j \in DOMAIN channel[<<from, to>>] : channel'[<<from, to>>][i] = channel[<<from, to>>][j]
      BY <2>5, <2>8, <3>2
    <3>3. ASSUME NEW i \in DOMAIN channel'[<<from, to>>], channel'[<<from, to>>][i].kind = "particles",
                 NEW l \in DOMAIN channel'[<<from, to>>], channel'[<<from, to>>][l].kind = "bonds",
                 channel'[<<from, to>>][l].dir = channel'[<<from, to>>][i].dir
          PROVE  Data(channel'[<<from, to>>][l]) = BondsOf(TagsOf(channel'[<<from, to>>][i].data))
      <4>1. PICK m \in DOMAIN channel[<<from, to>>] : channel'[<<from, to>>][l] = channel[<<from, to>>][m]
        BY <3>2, <3>3
      <4>2. CASE \E j \in DOMAIN channel[<<from, to>>] :
                    channel'[<<from, to>>][i] = channel[<<from, to>>][j]
        BY <3>1, <3>3, <4>1, <4>2 DEF Belong
      <4>3. CASE from = r /\ channel'[<<from, to>>][i] = message
        BY <2>5, <2>9, <3>3, <4>1, <4>3
      <4> QED
        BY <2>8, <4>2, <4>3
    <3>4. ASSUME NEW i \in DOMAIN channel'[<<from, to>>], channel'[<<from, to>>][i].kind = "particles",
                 phase'[from] = "particles", Route[stage'[from]] = channel'[<<from, to>>][i].dir
          PROVE  Range(sendBonds'[from]) = BondsOf(TagsOf(channel'[<<from, to>>][i].data))
      <4>1. CASE from = r
        <5>1. channel'[<<from, to>>][i] = message
          BY <2>4, <2>8, <2>9, <3>4, <4>1 DEF dir
        <5> QED
          BY <2>3, <2>5, <4>1, <5>1
      <4>2. CASE from # r
        <5>1. /\ phase[from] = "particles" /\ stage'[from] = stage[from] /\ sendBonds'[from] = sendBonds[from]
          BY <2>4, <3>4, <4>2, OthersSame
        <5> QED
          BY <2>8, <3>1, <3>4, <4>2, <5>1 DEF Belong
      <4> QED
        BY <4>1, <4>2
    <3>5. Belong(from, channel[<<from, to>>])'
      BY <3>3, <3>4 DEF Belong, Data
    <3> QED
      BY <1>3, <3>2, <3>5
  <2> QED
    BY <2>10, <2>11 DEF Followed
<1> QED
  BY <1>4, <1>5

LEMMA FollowedBegin ==
  ASSUME Ordered, Located, Owned, Indexed, Typed, Followed, communicator = "CPU", BondTags # {},
         NEW r \in Ranks, BeginMigration(r), UNCHANGED buffers
  PROVE  Followed'
<1>1. /\ phase[r] = "moved" /\ table' = table
      /\ StartStage(r, 1, ptls[r], Forgotten(rtag[r], nghosts[r]), table[r].bonds, channel)
  BY DEF BeginMigration
<1>2. GoesOn(r) /\ Remaining(r) = channel /\ Clock(r) = -1
  BY <1>1 DEF GoesOn, Remaining, Clock
<1>3. IsIndex(Forgotten(rtag[r], nghosts[r]), ptls[r], {})
  BY <1>1, GhostsForgotten
<1>4. TableConsistent(table[r]) /\ Held(table[r]) = BondsOf(TagsOf(ptls[r])) /\ IsTable(table[r])
  BY <1>1 DEF Followed, FollowsAt, Typed, TypedAt
<1>5. table' = [table EXCEPT ![r] = table[r]]
  BY <1>1, AllFunctions
<1>6. Distinct(ptls[r])
  BY ArraysAre
<1>7. 1 \in Nat \ {0} /\ Clock(r) < Turn(Route[1], "particles")
  <2>1. Route[1] \in Nat
    BY RouteNext, RouteShape DEF Directions
  <2> QED
    BY <1>2, <2>1 DEF Turn
<1>8. "bonds" \in Kinds(communicator)
  BY KindsAre DEF Ordered
<1>9. StartStage(r, 1, ptls[r], Forgotten(rtag[r], nghosts[r]), table[r].bonds, Remaining(r))
  BY <1>1, <1>2
<1> QED
  BY <1>2, <1>3, <1>4, <1>5, <1>6, <1>7, <1>8, <1>9, FollowedStart

LEMMA FollowedReceiveBonds ==
  ASSUME Ordered, Located, Owned, Indexed, Typed, Followed, communicator = "CPU", BondTags # {},
         NEW r \in Ranks, ReceiveBonds(r), UNCHANGED buffers
  PROVE  Followed'
<1> DEFINE new == UnpackRemove(table[r], removed[r], Message(r).data)
           dir == Route[stage[r]]
<1>1. /\ phase[r] = "bonds" /\ Arrived(r) /\ table' = [table EXCEPT ![r] = new]
      /\ StartStage(r, stage[r] + 1, ptls[r], rtag[r], new.bonds, Taken(r))
  BY DEF ReceiveBonds
<1>2. /\ phase[r] \in Kinds(communicator) /\ GoesOn(r) /\ Remaining(r) = Taken(r)
      /\ stage[r] \in DOMAIN Route /\ stage[r] + 1 \in Nat \ {0}
      /\ Clock(r) = 2 * dir + 1 /\ dir \in Int
  <2>1. phase[r] \in Kinds(communicator)
    BY <1>1 DEF Ordered
  <2>2. stage[r] \in DOMAIN Route /\ Clock(r) = Turn(dir, "bonds")
    BY <1>1, <2>1, Waiting
  <2>3. Turn(dir, "bonds") = 2 * dir + 1
    BY DEF Turn
  <2> QED
    BY <1>1, <2>1, <2>2, <2>3, RouteShape DEF GoesOn, Remaining, Directions
<1>3. /\ Source(r) \in Ranks /\ 1 \in DOMAIN channel[<<Source(r), r>>]
      /\ Message(r) = channel[<<Source(r), r>>][1]
      /\ Message(r).dir = dir /\ Message(r).kind = "bonds"
  BY <1>1, <1>2, FirstMessage
<1>4. TypedAt(r) /\ Message(r).data \in Seq(BondTags)
  BY <1>1, <1>2, <1>3, MessageIsTyped DEF Typed, TypedMessage
<1>5. /\ TableConsistent(table[r]) /\ Single(Message(r).data)
      /\ Kept(r) \cup Data(Message(r)) = BondsOf(TagsOf(ptls[r]))
  <2>1. TableConsistent(table[r]) /\ FollowsAt(r)
    BY DEF Followed
  <2>2. Single(Message(r).data)
    BY <1>3 DEF Followed
  <2>3. Kept(r) \cup Data(Message(r)) = BondsOf(TagsOf(ptls[r]))
    BY <1>1, <1>3, <2>1 DEF FollowsAt
  <2> QED
    BY <2>1, <2>2, <2>3
<1>6. IsTable(table[r]) /\ table[r].bonds \in Seq(BondTags) /\ removed[r] \in SUBSET Held(table[r])
  BY <1>4 DEF TypedAt, IsTable
<1>7. IsTable(new)
  BY <1>4, <1>6, UnpackTyped
<1>8. TableConsistent(new) /\ Held(new) = Kept(r) \cup Data(Message(r))
  BY <1>4, <1>5, <1>6, UnpackIs DEF Kept, Data
<1> HIDE DEF new, dir
<1>9. IsIndex(rtag[r], ptls[r], {})
  <2>1. mask[r] = {}
    BY <1>1 DEF Located, LocatedAt
  <2> QED
    BY <1>1, <2>1 DEF Indexed, IndexedAt
<1>10. Distinct(ptls[r])
  BY ArraysAre
<1>11. ASSUME stage[r] + 1 \in DOMAIN Route
       PROVE  Clock(r) < Turn(Route[stage[r] + 1], "particles")
  <2>1. dir < Route[stage[r] + 1]
    BY <1>2, <1>11, NextDirection DEF dir
  <2>2. Turn(Route[stage[r] + 1], "particles") = 2 * Route[stage[r] + 1] /\ Route[stage[r] + 1] \in Int
    BY <1>11, RouteShape DEF Turn, Directions
  <2> QED
    BY <1>2, <2>1, <2>2
<1>12. "bonds" \in Kinds(communicator)
  BY KindsAre DEF Ordered
<1>13. StartStage(r, stage[r] + 1, ptls[r], rtag[r], new.bonds, Remaining(r))
  BY <1>1, <1>2
<1> QED
  BY <1>1, <1>2, <1>5, <1>7, <1>8, <1>9, <1>10, <1>11, <1>12, <1>13, FollowedStart

LEMMA FollowedReceive ==
  ASSUME Ordered, Located, Owned, Typed, Followed, communicator = "CPU", BondTags # {},
         NEW r \in Ranks, ReceiveParticles(r), UNCHANGED buffers
  PROVE  Followed'
<1> DEFINE dir == Route[stage[r]]
           new == [i \in DOMAIN Message(r).data |->
                      Particle(Message(r).data[i].tag, Wrapped(r, Message(r).data[i].pos))]
           message == [dir |-> dir, kind |-> "bonds", data |-> sendBonds[r]]
<1>1. /\ phase[r] = "particles" /\ Arrived(r) /\ table' = table
      /\ ptls' = [ptls EXCEPT ![r] = ptls[r] \o new]
      /\ channel' = Put(Taken(r), r, NeighborRank(r, dir), message)
      /\ phase' = [phase EXCEPT ![r] = "bonds"]
      /\ UNCHANGED <<stage, sendBonds, removed, mask, ptlBuf, bondBuf, recvBuf>>
  BY DEF ReceiveParticles, buffers
<1>2. /\ phase[r] \in Kinds(communicator) /\ GoesOn(r) /\ Remaining(r) = Taken(r)
      /\ stage[r] \in DOMAIN Route /\ dir \in Sending /\ NeighborRank(r, dir) \in Ranks
  <2>1. phase[r] \in Kinds(communicator)
    BY <1>1 DEF Ordered
  <2>2. stage[r] \in DOMAIN Route
    BY <2>1, Waiting
  <2> QED
    BY <1>1, <2>1, <2>2, RouteNext, NeighborIs DEF GoesOn, Remaining, Sending
<1>3. /\ Source(r) \in Ranks /\ 1 \in DOMAIN channel[<<Source(r), r>>]
      /\ Message(r) = channel[<<Source(r), r>>][1]
      /\ Message(r).dir = dir /\ Message(r).kind = "particles"
  BY <1>1, <1>2, FirstMessage
<1>4. TagsOf(ptls[r] \o new) = TagsOf(ptls[r]) \cup TagsOf(Message(r).data)
  <2>1. TagsOf(ptls[r] \o new) = At(r) \cup Carried(Message(r))
    BY <1>1, <1>2, ReceivedOnce DEF Got
  <2>2. mask[r] = {}
    BY <1>1 DEF Located, LocatedAt
  <2>3. At(r) = TagsOf(ptls[r])
    BY <1>1, <2>2, InArraysOnly
  <2> QED
    BY <1>3, <2>1, <2>3 DEF Carried
<1>5. message.dir = dir /\ message.kind = "bonds" /\ message.data = sendBonds[r]
  OBVIOUS
<1> HIDE DEF new, message
<1>6. phase'[r] = "bonds" /\ ptls'[r] = ptls[r] \o new /\ BondsOnlyAt(r)
  BY <1>1, AllFunctions DEF BondsOnlyAt, OnlyAt
<1>7. channel' = Put(Remaining(r), r, NeighborRank(r, dir), message)
  BY <1>1, <1>2
<1> HIDE DEF dir
<1>8. ASSUME NEW from \in Ranks, NEW to \in Ranks, NEW i \in DOMAIN channel'[<<from, to>>]
      PROVE  \/ \E j \in DOMAIN channel[<<from, to>>] :
                    channel'[<<from, to>>][i] = channel[<<from, to>>][j]
             \/ from = r /\ to = NeighborRank(r, dir) /\ channel'[<<from, to>>][i] = message
  BY <1>2, <1>7, MessagesAfter
<1>9. \A q \in Ranks : TableConsistent(table[q]) /\ Single(sendBonds[q]) /\ FollowsAt(q)
  BY DEF Followed
<1>10. ASSUME NEW from \in Ranks, NEW to \in Ranks
       PROVE  /\ Belong(from, channel[<<from, to>>])
              /\ \A j \in DOMAIN channel[<<from, to>>] :
                     channel[<<from, to>>][j].kind = "bonds" => Single(channel[<<from, to>>][j].data)
  BY DEF Followed
<1>11. ASSUME NEW q \in Ranks, phase'[q] = "particles"
       PROVE  /\ q # r /\ phase[q] = "particles" /\ sendBonds'[q] = sendBonds[q]
  BY <1>1, <1>6, <1>11, OthersSame
<1>12. FollowsAt(r)'
  <2>1. Source(r)' = Source(r) /\ stage'[r] = stage[r]
    BY <1>1 DEF Source
  <2>2. Kept(r)' = BondsOf(TagsOf(ptls[r]))
    BY <1>1, <1>9 DEF FollowsAt, Kept
  <2>3. BondsOf(TagsOf(ptls'[r])) = BondsOf(TagsOf(ptls[r])) \cup BondsOf(TagsOf(Message(r).data))
    BY <1>4, <1>6, BondsOfBoth
  <2>4. Belong(Source(r), channel[<<Source(r), r>>])
    BY <1>3, <1>10
  <2>5. ASSUME NEW i \in DOMAIN channel'[<<Source(r), r>>], channel'[<<Source(r), r>>][i].kind = "bonds",
               channel'[<<Source(r), r>>][i].dir = dir
        PROVE  Data(channel'[<<Source(r), r>>][i]) = BondsOf(TagsOf(Message(r).data))
    <3>1. CASE \E j \in DOMAIN channel[<<Source(r), r>>] :
                   channel'[<<Source(r), r>>][i] = channel[<<Source(r), r>>][j]
      BY <1>3, <2>4, <2>5, <3>1 DEF Belong
    <3>2. CASE Source(r) = r /\ channel'[<<Source(r), r>>][i] = message
      BY <1>1, <1>3, <1>5, <2>4, <3>2 DEF Belong, Data, dir
    <3> QED
      BY <1>3, <1>8, <3>1, <3>2
  <2>6. ASSUME phase'[Source(r)] = "particles", stage'[Source(r)] = stage[r]
        PROVE  Range(sendBonds'[Source(r)]) = BondsOf(TagsOf(Message(r).data))
    <3>1. /\ phase[Source(r)] = "particles" /\ sendBonds'[Source(r)] = sendBonds[Source(r)]
          /\ Route[stage[Source(r)]] = dir
      BY <1>1, <1>3, <1>11, <2>6 DEF dir
    <3> QED
      BY <1>3, <2>4, <3>1 DEF Belong
  <2> QED
    BY <1>6, <2>1, <2>2, <2>3, <2>5, <2>6 DEF FollowsAt, Data, dir
<1>13. ASSUME NEW q \in Ranks, q # r PROVE FollowsAt(q)'
  <2>1. /\ phase'[q] = phase[q] /\ stage'[q] = stage[q] /\ ptls'[q] = ptls[q] /\ table'[q] = table[q]
        /\ sendBonds'[q] = sendBonds[q] /\ removed'[q] = removed[q]
    BY <1>6, <1>13, OthersSame
  <2>2. Kept(q)' = Kept(q) /\ Source(q)' = Source(q)
    BY <2>1 DEF Kept, Source
  <2>3. FollowsAt(q)
    BY <1>9
  <2>4. ASSUME phase[q] = "bonds"
        PROVE  Source(q) \in Ranks /\ stage[q] \in DOMAIN Route
    <3>1. "bonds" \in Kinds(communicator)
      BY KindsAre DEF Ordered
    <3> QED
      BY <2>4, <3>1, Waiting
  <2>5. ASSUME phase[q] = "bonds", phase'[Source(q)] = "particles", stage'[Source(q)] = stage[q]
        PROVE  Kept(q) \cup Range(sendBonds'[Source(q)]) = BondsOf(TagsOf(ptls[q]))
    BY <1>1, <1>11, <2>3, <2>4, <2>5 DEF FollowsAt
  <2>6. ASSUME phase[q] = "bonds", NEW i \in DOMAIN channel'[<<Source(q), q>>],
               channel'[<<Source(q), q>>][i].kind = "bonds",
               channel'[<<Source(q), q>>][i].dir = Route[stage[q]]
        PROVE  Kept(q) \cup Data(channel'[<<Source(q), q>>][i]) = BondsOf(TagsOf(ptls[q]))
    <3>1. CASE \E j \in DOMAIN channel[<<Source(q), q>>] :
                   channel'[<<Source(q), q>>][i] = channel[<<Source(q), q>>][j]
      BY <2>3, <2>6, <3>1 DEF FollowsAt
    <3>2. CASE Source(q) = r /\ channel'[<<Source(q), q>>][i] = message
      <4>1. stage[q] = stage[r]
        BY <1>2, <1>5, <2>4, <2>6, <3>2, RoutePlace DEF dir
      <4> QED
        BY <1>1, <1>5, <2>3, <2>6, <3>2, <4>1 DEF FollowsAt, Data
    <3> QED
      BY <1>8, <2>4, <2>6, <3>1, <3>2
  <2> QED
    BY <2>1, <2>2, <2>3, <2>5, <2>6 DEF FollowsAt, Data
<1>14. ASSUME NEW from \in Ranks, NEW to \in Ranks
       PROVE  /\ Belong(from, channel[<<from, to>>])'
              /\ \A i \in DOMAIN channel'[<<from, to>>] :
                     channel'[<<from, to>>][i].kind = "bonds" => Single(channel'[<<from, to>>][i].data)
  <2>1. Belong(from, channel[<<from, to>>])
    BY <1>10
  <2>2. ASSUME NEW i \in DOMAIN channel'[<<from, to>>], channel'[<<from, to>>][i].kind = "particles"
        PROVE  \E j \in DOMAIN channel[<<from, to>>] : channel'[<<from, to>>][i] = channel[<<from, to>>][j]
    BY <1>5, <1>8, <2>2
  <2>3. ASSUME NEW i \in DOMAIN channel'[<<from, to>>], channel'[<<from, to>>][i].kind = "particles",
               NEW l \in DOMAIN channel'[<<from, to>>], channel'[<<from, to>>][l].kind = "bonds",
               channel'[<<from, to>>][l].dir = channel'[<<from, to>>][i].dir
        PROVE  Data(channel'[<<from, to>>][l]) = BondsOf(TagsOf(channel'[<<from, to>>][i].data))
    <3>1. PICK j \in DOMAIN channel[<<from, to>>] : channel'[<<from, to>>][i] = channel[<<from, to>>][j]
      BY <2>2, <2>3
    <3>2. CASE \E m \in DOMAIN channel[<<from, to>>] :
                  channel'[<<from, to>>][l] = channel[<<from, to>>][m]
      BY <2>1, <2>3, <3>1, <3>2 DEF Belong
    <3>3. CASE from = r /\ channel'[<<from, to>>][l] = message
      BY <1>1, <1>5, <2>1, <2>3, <3>1, <3>3 DEF Belong, Data, dir
    <3> QED
      BY <1>8, <3>2, <3>3
  <2>4. ASSUME NEW i \in DOMAIN channel'[<<from, to>>], channel'[<<from, to>>][i].kind = "particles",
               phase'[from] = "particles", Route[stage'[from]] = channel'[<<from, to>>][i].dir
        PROVE  Range(sendBonds'[from]) = BondsOf(TagsOf(channel'[<<from, to>>][i].data))
    BY <1>1, <1>11, <2>1, <2>2, <2>4 DEF Belong
  <2>5. Belong(from, channel[<<from, to>>])'
    BY <2>3, <2>4 DEF Belong, Data
  <2>6. ASSUME NEW i \in DOMAIN channel'[<<from, to>>], channel'[<<from, to>>][i].kind = "bonds"
        PROVE  Single(channel'[<<from, to>>][i].data)
    BY <1>5, <1>8, <1>9, <1>10, <2>6
  <2> QED
    BY <2>5, <2>6
<1>15. \A q \in Ranks : TableConsistent(table[q])' /\ Single(sendBonds[q])'
  BY <1>1, <1>9
<1> QED
  BY <1>12, <1>13, <1>14, <1>15 DEF Followed

-----------------------------------------------------------------------------
(* The domain where a particle goes.                                        *)

LEMMA HomeIsCell ==
  ASSUME NEW home \in Homes, NEW tag \in Tags
  PROVE  /\ home[tag] \in [Axes -> Int] /\ \E q \in Ranks : home[tag] = GridPos(q)
         /\ \A axis \in Axes : home[tag][axis] \in 0 .. Size[axis] - 1
<1>1. PICK q \in Ranks : home[tag] = GridPos(q)
  BY DEF Homes
<1>2. 1 \in Axes
  BY DEF Axes
<1> QED
  BY <1>1, <1>2, CellIs

LEMMA AroundIs ==
  ASSUME NEW n \in Nat \ {0}
  PROVE  /\ \A x \in 0 .. n - 1 : Around(x, n) = x
         /\ \A x \in -1 .. n : Around(x, n) \in 0 .. n - 1
BY DEF Around

\* What a plan says of the position of a particle it says of its home.
LEMMA HomeHeads ==
  ASSUME NEW home \in Homes, NEW r \in Ranks, NEW plan, NEW p, p.tag \in Tags,
         p.pos \in Heading(r, plan), IsAt(home, p)
  PROVE  home[p.tag] \in Heading(r, plan)
<1> DEFINE h == home[p.tag]
<1>1. h \in [Axes -> Int] /\ \A axis \in Axes : h[axis] \in 0 .. Size[axis] - 1
  BY HomeIsCell
<1>2. \A axis \in Axes : h[axis] = Around(p.pos[axis], Size[axis])
  BY DEF IsAt
<1> HIDE DEF h
<1>3. ASSUME NEW axis \in Axes
      PROVE  /\ h[axis] \in -1 .. Size[axis] /\ (Size[axis] = 1 => h[axis] = 0)
             /\ Around(h[axis], Size[axis])
                   = Around(GridPos(r)[axis] + Towards(axis, plan), Size[axis])
  <2>1. Size[axis] \in Nat \ {0} /\ h[axis] \in 0 .. Size[axis] - 1
    BY <1>1, SizesPositive
  <2>2. Around(h[axis], Size[axis]) = h[axis]
    BY <2>1, AroundIs
  <2>3. Around(p.pos[axis], Size[axis]) = Around(GridPos(r)[axis] + Towards(axis, plan), Size[axis])
    BY DEF Heading
  <2> QED
    BY <1>2, <2>1, <2>2, <2>3
<1> QED
  BY <1>1, <1>3 DEF Heading, h

\* Where no plan leads on is the domain.
LEMMA HeadsHome ==
  ASSUME NEW home \in Homes, NEW r \in Ranks, NEW tag \in Tags, home[tag] \in Heading(r, Local)
  PROVE  home[tag] = GridPos(r)
<1> DEFINE h == home[tag]
<1>1. h \in [Axes -> Int] /\ \A axis \in Axes : h[axis] \in 0 .. Size[axis] - 1
  BY HomeIsCell
<1> HIDE DEF h
<1>2. ASSUME NEW axis \in Axes PROVE h[axis] = GridPos(r)[axis]
  <2>1. Size[axis] \in Nat \ {0} /\ h[axis] \in 0 .. Size[axis] - 1 /\ GridPos(r)[axis] \in 0 .. Size[axis] - 1
    BY <1>1, CellIs
  <2>2. Around(h[axis], Size[axis]) = h[axis] /\ Around(GridPos(r)[axis], Size[axis]) = GridPos(r)[axis]
    BY <2>1, AroundIs
  <2>3. Towards(axis, Local) = 0
    BY DEF Towards, Local
  <2>4. GridPos(r)[axis] + 0 = GridPos(r)[axis]
    BY <2>1
  <2>5. h \in Heading(r, Local)
    BY DEF h
  <2> QED
    BY <2>2, <2>3, <2>4, <2>5 DEF Heading
<1>3. GridPos(r) \in [Axes -> Int]
  BY CellIs DEF Axes
<1> QED
  BY <1>1, <1>2, <1>3 DEF h

LEMMA StayIsHome ==
  ASSUME NEW home \in Homes, NEW r \in Ranks, NEW p, p.tag \in Tags, p.pos = GridPos(r)
  PROVE  IsAt(home, p) <=> home[p.tag] = GridPos(r)
<1>1. /\ home[p.tag] \in [Axes -> Int] /\ GridPos(r) \in [Axes -> Int]
      /\ \A axis \in Axes : Around(GridPos(r)[axis], Size[axis]) = GridPos(r)[axis]
  <2>1. home[p.tag] \in [Axes -> Int] /\ GridPos(r) \in [Axes -> Int]
    BY HomeIsCell, CellIs DEF Axes
  <2>2. ASSUME NEW axis \in Axes PROVE Around(GridPos(r)[axis], Size[axis]) = GridPos(r)[axis]
    BY CellIs, AroundIs
  <2> QED
    BY <2>1, <2>2
<1> QED
  BY <1>1 DEF IsAt

\* A particle that leaves goes to another domain.
LEMMA LeavesHome ==
  ASSUME NEW home \in Homes, NEW r \in Ranks, NEW p, p.tag \in Tags, p.pos \in Near(r, -1),
         PlanOf(r, p.pos) # {}, IsAt(home, p)
  PROVE  home[p.tag] # GridPos(r)
<1>1. PICK dir \in Sending : BeyondFace(r, p.pos, dir)
  BY PlanIs
<1>2. dir \in Directions /\ Size[Axis(dir)] # 1 /\ Axis(dir) \in Axes
  BY Directory DEF Sending, IsCommunicating
<1> DEFINE axis == Axis(dir)
           n == Size[axis]
           x == p.pos[axis]
           g == GridPos(r)[axis]
<1>3. n \in Nat \ {0} /\ n # 1 /\ g \in 0 .. n - 1
  BY <1>2, CellIs
<1>4. x # g
  BY <1>1, <1>3 DEF BeyondFace
<1>5. x \in Int /\ x - g \in {-1, 0, 1}
  BY <1>2 DEF Near, Offsets
<1>6. home[p.tag][axis] = Around(x, n)
  BY <1>2 DEF IsAt
<1> HIDE DEF axis, n, x, g
<1>7. Around(x, n) # g
  BY <1>3, <1>4, <1>5 DEF Around
<1> QED
  BY <1>6, <1>7 DEF g, n, x, axis

-----------------------------------------------------------------------------
(* CommunicatorGPU: the copies of bonds go where the particles go.          *)

\* A step takes one message and leaves the others.
LEMMA MessagesStay ==
  ASSUME Ordered, NEW r \in Ranks, GoesOn(r), NEW from \in Ranks, NEW to \in Ranks,
         NEW j \in DOMAIN channel[<<from, to>>]
  PROVE  \/ phase[r] # "moved" /\ channel[<<from, to>>][j] = Message(r)
         \/ \E i \in DOMAIN Remaining(r)[<<from, to>>] :
                Remaining(r)[<<from, to>>][i] = channel[<<from, to>>][j]
<1> DEFINE list == channel[<<from, to>>]
<1>1. IsSomeList(list) /\ channel = [pair \in Ranks \X Ranks |-> channel[pair]]
  <2>1. InOrder(Kinds(communicator), list, from, to, Clock(from), Clock(to))
    BY DEF Ordered
  <2>2. channel = [pair \in Ranks \X Ranks |-> channel[pair]]
    BY DEF Ordered
  <2> HIDE DEF list
  <2> QED
    BY <2>1, <2>2 DEF InOrder
<1>2. CASE phase[r] = "moved"
  BY <1>2 DEF Remaining
<1>3. CASE phase[r] # "moved"
  <2>1. phase[r] \in Kinds(communicator) /\ Arrived(r) /\ Remaining(r) = Taken(r)
    BY <1>3 DEF GoesOn, Remaining
  <2>2. Source(r) \in Ranks
    BY <2>1, FirstMessage
  <2>3. CASE <<Source(r), r>> = <<from, to>>
    <3>1. Remaining(r)[<<from, to>>] = Tail(list) /\ Message(r) = Head(list) /\ list # <<>>
      BY <1>1, <2>1, <2>2, <2>3 DEF Taken, Message, Arrived
    <3>2. /\ Head(list) = list[1] /\ DOMAIN list = 1 .. Len(list) /\ Len(list) \in Nat
          /\ DOMAIN Tail(list) = 1 .. Len(list) - 1
          /\ \A i \in 1 .. Len(list) - 1 : Tail(list)[i] = list[i + 1]
      BY <1>1, <3>1, ListFacts
    <3> HIDE DEF list
    <3>3. CASE j = 1
      BY <1>3, <3>1, <3>2, <3>3 DEF list
    <3>4. CASE j # 1
      <4>1. j - 1 \in 1 .. Len(list) - 1 /\ (j - 1) + 1 = j
        BY <3>2, <3>4 DEF list
      <4> QED
        BY <3>1, <3>2, <4>1 DEF list
    <3> QED
      BY <3>3, <3>4
  <2>4. CASE <<Source(r), r>> # <<from, to>>
    <3>1. Remaining(r)[<<from, to>>] = channel[<<from, to>>]
      BY <1>1, <2>1, <2>2, <2>4 DEF Taken
    <3> QED
      BY <3>1
  <2> QED
    BY <2>3, <2>4
<1> QED
  BY <1>2, <1>3

LEMMA MessagePut ==
  ASSUME Ordered, NEW r \in Ranks, GoesOn(r), NEW next \in Ranks, NEW message
  PROVE  /\ Put(Remaining(r), r, next, message)[<<r, next>>] = Append(Remaining(r)[<<r, next>>], message)
         /\ \E l \in DOMAIN Put(Remaining(r), r, next, message)[<<r, next>>] :
                Put(Remaining(r), r, next, message)[<<r, next>>][l] = message
<1> DEFINE rest == Remaining(r)[<<r, next>>]
<1>1. Remaining(r) = [pair \in Ranks \X Ranks |-> Remaining(r)[pair]]
  BY DEF Ordered, Remaining, Taken
<1>2. IsSomeList(rest)
  BY RemainingMessages
<1>3. Put(Remaining(r), r, next, message)[<<r, next>>] = Append(rest, message)
  <2>1. Put(Remaining(r), r, next, message)
            = [Remaining(r) EXCEPT ![<<r, next>>] = Append(rest, message)]
    BY DEF Put
  <2> HIDE DEF rest
  <2> QED
    BY <1>1, <2>1
<1> HIDE DEF rest
<1>4. /\ DOMAIN Append(rest, message) = 1 .. Len(rest) + 1 /\ Len(rest) \in Nat
      /\ Append(rest, message)[Len(rest) + 1] = message
  BY <1>2, ListFacts
<1>5. Len(rest) + 1 \in DOMAIN Append(rest, message)
  BY <1>4
<1> QED
  BY <1>3, <1>4, <1>5 DEF rest

LEMMA RestStays ==
  ASSUME Ordered, NEW r \in Ranks, GoesOn(r), NEW next \in Ranks, NEW message,
         NEW chan, chan = Put(Remaining(r), r, next, message),
         NEW from \in Ranks, NEW to \in Ranks, NEW i \in DOMAIN Remaining(r)[<<from, to>>]
  PROVE  \E l \in DOMAIN chan[<<from, to>>] :
             chan[<<from, to>>][l] = Remaining(r)[<<from, to>>][i]
<1> DEFINE rest == Remaining(r)[<<from, to>>]
<1>1. Remaining(r) = [pair \in Ranks \X Ranks |-> Remaining(r)[pair]]
  BY DEF Ordered, Remaining, Taken
<1>2. IsSomeList(rest)
  BY RemainingMessages
<1>3. CASE <<from, to>> # <<r, next>>
  <2>1. chan[<<from, to>>] = rest
    BY <1>1, <1>3 DEF Put
  <2> QED
    BY <2>1
<1>4. CASE <<from, to>> = <<r, next>>
  <2>1. chan[<<from, to>>] = Append(rest, message)
    BY <1>4, MessagePut
  <2> HIDE DEF rest
  <2>2. /\ DOMAIN Append(rest, message) = 1 .. Len(rest) + 1 /\ Len(rest) \in Nat /\ DOMAIN rest = 1 .. Len(rest)
        /\ \A l \in 1 .. Len(rest) : Append(rest, message)[l] = rest[l]
    BY <1>2, ListFacts
  <2>3. i \in 1 .. Len(rest) + 1
    BY <2>2 DEF rest
  <2> QED
    BY <2>1, <2>2, <2>3 DEF rest
<1> QED
  BY <1>3, <1>4

\* A copy of a bond that a rank holds or has got, and one that it holds or sends.
HasCopy(home, copy, r) ==
    \/ phase[r] = "moved" /\ copy.with \in TagsOf(ptls[r])
    \/ copy \in CopiesAt(r)
    \/ phase[r] # "moved" /\ copy \in CopiesSent(Message(r))
    \/ Settled(home, copy, r)
KeepsCopy(home, copy, r) == copy \in CopiesAt(r) \/ Settled(home, copy, r)

LEMMA HomedAfter ==
  ASSUME Ordered, Located, Typed, NEW home, Homed(home), NEW r \in Ranks, GoesOn(r), BondsOnlyAt(r),
         TableConsistent(table'[r]), HomedAt(home, r)',
         \/ /\ channel' = Remaining(r)
            /\ \A copy \in BondCopies : HasCopy(home, copy, r) => KeepsCopy(home, copy, r)'
         \/ \E next \in Ranks : \E message :
               /\ channel' = Put(Remaining(r), r, next, message) /\ HomedMessage(home, next, message)
               /\ \A copy \in BondCopies :
                      HasCopy(home, copy, r) => KeepsCopy(home, copy, r)' \/ copy \in CopiesSent(message)
  PROVE  Homed(home)'
<1>1. ASSUME NEW q \in Ranks, q # r
      PROVE  /\ HomedAt(home, q)' /\ TableConsistent(table'[q])
             /\ \A copy : Settled(home, copy, q)' <=> Settled(home, copy, q)
             /\ CopiesAt(q)' = CopiesAt(q)
             /\ phase'[q] = phase[q] /\ ptls'[q] = ptls[q]
  <2>1. /\ phase'[q] = phase[q] /\ stage'[q] = stage[q] /\ ptls'[q] = ptls[q] /\ table'[q] = table[q]
        /\ ptlBuf'[q] = ptlBuf[q] /\ recvBuf'[q] = recvBuf[q]
        /\ removed'[q] = removed[q] /\ bondBuf'[q] = bondBuf[q]
    BY <1>1, OthersSame
  <2>2. Kept(q)' = Kept(q) /\ Buffers(q)' = Buffers(q) /\ BondBuffers(q)' = BondBuffers(q)
    BY <2>1 DEF Kept, Buffers, BondBuffers
  <2>3. HomedAt(home, q) /\ TableConsistent(table[q])
    BY DEF Homed
  <2>4. HomedAt(home, q)'
    BY <2>1, <2>2, <2>3 DEF HomedAt
  <2>5. CopiesAt(q)' = CopiesAt(q)
    BY <2>1, <2>2 DEF CopiesAt
  <2> QED
    BY <2>1, <2>2, <2>3, <2>4, <2>5 DEF Settled
<1>2. ASSUME NEW from \in Ranks, NEW to \in Ranks, NEW i \in DOMAIN channel'[<<from, to>>]
      PROVE  HomedMessage(home, to, channel'[<<from, to>>][i])
  <2>1. \A j \in DOMAIN channel[<<from, to>>] : HomedMessage(home, to, channel[<<from, to>>][j])
    BY DEF Homed
  <2>2. CASE channel' = Remaining(r)
    BY <2>1, <2>2, RemainingMessages
  <2>3. ASSUME NEW next \in Ranks, NEW message, channel' = Put(Remaining(r), r, next, message),
               HomedMessage(home, next, message)
        PROVE  HomedMessage(home, to, channel'[<<from, to>>][i])
    BY <2>1, <2>3, MessagesAfter
  <2> QED
    BY <2>2, <2>3
<1>3. ASSUME NEW from \in Ranks, NEW to \in Ranks, NEW j \in DOMAIN channel[<<from, to>>]
      PROVE  \/ phase[r] # "moved" /\ channel[<<from, to>>][j] = Message(r)
             \/ \E i \in DOMAIN channel'[<<from, to>>] : channel'[<<from, to>>][i] = channel[<<from, to>>][j]
  <2>1. CASE channel' = Remaining(r)
    BY <2>1, MessagesStay
  <2>2. ASSUME NEW next \in Ranks, NEW message, channel' = Put(Remaining(r), r, next, message)
        PROVE  \/ phase[r] # "moved" /\ channel[<<from, to>>][j] = Message(r)
               \/ \E i \in DOMAIN channel'[<<from, to>>] : channel'[<<from, to>>][i] = channel[<<from, to>>][j]
    <3>1. \A i \in DOMAIN Remaining(r)[<<from, to>>] : \E l \in DOMAIN channel'[<<from, to>>] :
              channel'[<<from, to>>][l] = Remaining(r)[<<from, to>>][i]
      BY <2>2, RestStays
    <3> QED
      BY <3>1, MessagesStay
  <2> QED
    BY <2>1, <2>2
<1>4. ASSUME NEW copy \in BondCopies, HasCopy(home, copy, r)
      PROVE  Underway(copy, channel)' \/ \E q \in Ranks : Settled(home, copy, q)'
  <2>1. CASE KeepsCopy(home, copy, r)'
    BY <2>1 DEF KeepsCopy, Underway
  <2>2. ASSUME NEW next \in Ranks, NEW message, channel' = Put(Remaining(r), r, next, message),
               copy \in CopiesSent(message)
        PROVE  Underway(copy, channel)'
    <3>1. \E l \in DOMAIN channel'[<<r, next>>] : channel'[<<r, next>>][l] = message
      BY <2>2, MessagePut
    <3>2. <<r, next>> \in Ranks \X Ranks
      BY <2>2
    <3>3. \E pair \in Ranks \X Ranks : \E l \in DOMAIN channel'[pair] : copy \in CopiesSent(channel'[pair][l])
      BY <2>2, <3>1, <3>2
    <3> QED
      BY <3>3 DEF Underway, CopiesSent
  <2> QED
    BY <1>4, <2>1, <2>2
<1>5. ASSUME NEW copy \in BondCopies
      PROVE  Underway(copy, channel)' \/ \E q \in Ranks : Settled(home, copy, q)'
  <2>1. Underway(copy, channel) \/ \E q \in Ranks : Settled(home, copy, q)
    BY DEF Homed
  <2>2. ASSUME NEW q \in Ranks, Settled(home, copy, q)
        PROVE  HasCopy(home, copy, r) \/ \E s \in Ranks : Settled(home, copy, s)'
    BY <1>1, <2>2 DEF HasCopy
  <2>3. ASSUME NEW q \in Ranks, (phase[q] = "moved" /\ copy.with \in TagsOf(ptls[q])) \/ copy \in CopiesAt(q)
        PROVE  HasCopy(home, copy, r) \/ Underway(copy, channel)'
    <3>1. CASE q = r
      BY <2>3, <3>1 DEF HasCopy
    <3>2. CASE q # r
      <4>1. (phase'[q] = "moved" /\ copy.with \in TagsOf(ptls'[q])) \/ copy \in CopiesAt(q)'
        BY <1>1, <2>3, <3>2
      <4> QED
        BY <4>1 DEF Underway
    <3> QED
      BY <3>1, <3>2
  <2>4. ASSUME NEW pair \in Ranks \X Ranks, NEW j \in DOMAIN channel[pair], copy \in CopiesSent(channel[pair][j])
        PROVE  HasCopy(home, copy, r) \/ Underway(copy, channel)'
    <3>1. /\ pair = <<pair[1], pair[2]>> /\ pair[1] \in Ranks /\ pair[2] \in Ranks
      BY PairsOfRanks
    <3>2. CASE phase[r] # "moved" /\ channel[pair][j] = Message(r)
      BY <2>4, <3>2 DEF HasCopy
    <3>3. CASE \E i \in DOMAIN channel'[pair] : channel'[pair][i] = channel[pair][j]
      <4>1. \E i \in DOMAIN channel'[pair] : copy \in CopiesSent(channel'[pair][i])
        BY <2>4, <3>3
      <4> QED
        BY <4>1 DEF Underway, CopiesSent
    <3> QED
      BY <1>3, <3>1, <3>2, <3>3
  <2> QED
    BY <1>4, <2>1, <2>2, <2>3, <2>4 DEF Underway
<1>6. \A q \in Ranks : TableConsistent(table'[q]) /\ HomedAt(home, q)'
  BY <1>1
<1> QED
  BY <1>2, <1>5, <1>6 DEF Homed

\* What a direction sends on, and what a rank keeps for later ones.
LEMMA SentOrKept ==
  ASSUME NEW dir \in Sending, NEW prev, Before(prev, dir), NEW buf,
         NEW plan \in Later(prev), NEW copy \in buf[plan]
  PROVE  plan \in Later(dir) \/ \E to \in Later(dir) : copy \in Sent(dir, buf)[to]
<1>1. SUFFICES ASSUME plan \notin Later(dir)
               PROVE  \E to \in Later(dir) : copy \in Sent(dir, buf)[to]
  OBVIOUS
<1>2. plan \in AllBuffers /\ dir \in plan /\ \A f \in plan : f >= dir
  BY <1>1, LaterIs DEF Later
<1>3. plan \in Plans
  BY <1>2 DEF AllBuffers, Local
<1>4. plan \ {dir} \in AllBuffers
  <2>1. Destination(dir, plan) = {plan \ {dir}}
    BY <1>2, <1>3, ParticleRoute DEF Plans, Sending
  <2>2. plan \ {dir} \in AllPlans \cup {Local}
    BY <1>3, <2>1, DestinationKinds DEF Plans
  <2> QED
    BY <1>3, <2>2 DEF AllBuffers, Plans
<1>5. copy \in Sent(dir, buf)[plan \ {dir}]
  BY <1>2, <1>3, <1>4, SentIs
<1>6. plan \ {dir} \in Later(dir)
  <2>1. \A f \in plan \ {dir} : f >= dir
    BY <1>2
  <2>2. plan \ {dir} \in Later(prev) /\ dir \notin plan \ {dir}
    BY <1>4, <2>1, LaterIs
  <2> QED
    BY <1>4, <2>2, LaterIs
<1> QED
  BY <1>5, <1>6

\* A message of copies of bonds.
LEMMA CopiesHead ==
  ASSUME NEW home, NEW r \in Ranks, NEW dir \in Sending, NEW buf,
         \A plan \in Plans : \A copy \in buf[plan] : Goes(home, copy, r, plan),
         NEW message, message = [dir |-> dir, kind |-> "bondBuffers", data |-> Sent(dir, buf)]
  PROVE  HomedMessage(home, NeighborRank(r, dir), message)
<1>1. ASSUME NEW to \in AllBuffers, NEW copy \in Sent(dir, buf)[to]
      PROVE  Goes(home, copy, NeighborRank(r, dir), to)
  <2>1. PICK plan \in Plans : dir \in plan /\ to = plan \ {dir} /\ copy \in buf[plan]
    BY SentIs
  <2> QED
    BY <2>1, SentHeading DEF Goes
<1>2. /\ message.kind = "bondBuffers" /\ message.data = Sent(dir, buf)
  OBVIOUS
<1> QED
  BY <1>1, <1>2 DEF HomedMessage

LEMMA ParticlesHead ==
  ASSUME NEW home, NEW dir \in Sending, NEW buf,
         \A plan \in Plans : \A p \in buf[plan] : IsAt(home, p), NEW to,
         NEW message, message = [dir |-> dir, kind |-> "ptlBuffers", data |-> Sent(dir, buf)]
  PROVE  HomedMessage(home, to, message) /\ CopiesSent(message) = {}
<1>1. ASSUME NEW plan \in AllBuffers, NEW p \in Sent(dir, buf)[plan] PROVE IsAt(home, p)
  BY SentIs
<1>2. /\ message.kind = "ptlBuffers" /\ message.data = Sent(dir, buf)
  OBVIOUS
<1> QED
  BY <1>1, <1>2 DEF HomedMessage, CopiesSent

\* Where a bond has a member on the rank, and whether the member leaves.
LEMMA MemberHere ==
  ASSUME Located, Owned, NEW r \in Ranks, NEW index, IsIndex(index, ptls[r], {}), NEW tag \in Tags
  PROVE  /\ IsLocal(r, index, tag) <=> tag \in TagsOf(ptls[r])
         /\ IsLocal(r, index, tag) =>
                index[tag] + 1 \in DOMAIN ptls[r] /\ ptls[r][index[tag] + 1].tag = tag
<1>1. /\ DOMAIN ptls[r] = 1 .. Len(ptls[r]) /\ Len(ptls[r]) \in Nat
      /\ \A i \in DOMAIN ptls[r] : ptls[r][i].tag \in Tags
  BY ArraysAre, LenProperties, TagListIs
<1>2. CASE tag \in TagsOf(ptls[r])
  <2>1. PICK i \in DOMAIN ptls[r] : ptls[r][i].tag = tag
    BY <1>2 DEF TagsOf
  <2>2. index[tag] = i - 1 /\ i - 1 \in 0 .. Len(ptls[r]) - 1 /\ (i - 1) + 1 = i
    BY <1>1, <2>1 DEF IsIndex
  <2> QED
    BY <1>2, <2>1, <2>2 DEF IsLocal
<1>3. CASE tag \notin TagsOf(ptls[r])
  <2>1. index[tag] = NOT_LOCAL
    BY <1>3 DEF IsIndex
  <2>2. NOT_LOCAL \notin 0 .. Len(ptls[r]) - 1
    BY <1>1, BondAssumption
  <2> QED
    BY <1>3, <2>1, <2>2 DEF IsLocal
<1> QED
  BY <1>2, <1>3

LEMMA HomedBegin ==
  ASSUME Ordered, Located, Owned, Indexed, Typed, NEW home \in Homes, Homed(home),
         NEW r \in Ranks, BeginMigrationGPU(r)
  PROVE  Homed(home)'
<1> DEFINE index == Forgotten(rtag[r], nghosts[r])
           planOf(tag) == PlanOf(r, ptls[r][index[tag] + 1].pos)
           copies == [ plan \in Plans |-> { copy \in Copies(r, index) : planOf(copy.with) = plan } ]
           gone == { bond \in Held(table[r]) : \A tag \in Members[bond] : ~ StaysLocal(r, index, tag) }
           message == [dir |-> Route[1], kind |-> "ptlBuffers", data |-> Sent(Route[1], ptlBuf'[r])]
<1>1. /\ phase[r] = "moved" /\ mask' = [mask EXCEPT ![r] = Leaving(r)]
      /\ ptlBuf' = [ptlBuf EXCEPT ![r] = [ plan \in Plans |->
                  { ptls[r][i] : i \in {i \in mask'[r] : PlanOf(r, ptls[r][i].pos) = plan} } ]]
      /\ bondBuf' = [bondBuf EXCEPT ![r] = copies]
      /\ removed' = [removed EXCEPT ![r] = gone]
      /\ phase' = [phase EXCEPT ![r] = "ptlBuffers"] /\ stage' = [stage EXCEPT ![r] = 1]
      /\ channel' = Put(channel, r, NeighborRank(r, Route[1]), message)
      /\ UNCHANGED <<ptls, table, sendBonds, recvBuf>>
  BY DEF BeginMigrationGPU, SendBuffers
<1>2. GoesOn(r) /\ Remaining(r) = channel /\ Route[1] \in Sending /\ NeighborRank(r, Route[1]) \in Ranks
  BY <1>1, RouteNext, NeighborIs DEF GoesOn, Remaining, Sending
<1>3. /\ phase'[r] = "ptlBuffers" /\ bondBuf'[r] = copies /\ removed'[r] = gone /\ ptls' = ptls
      /\ table' = table /\ recvBuf'[r] = {} /\ mask'[r] = Leaving(r)
  BY <1>1, AllFunctions DEF Located, LocatedAt
<1>4. IsIndex(index, ptls[r], {})
  BY <1>1, GhostsForgotten
<1>5. ptlBuf'[r] = [ plan \in Plans |-> { ptls[r][i] : i \in {i \in Leaving(r) : PlanOf(r, ptls[r][i].pos) = plan} } ]
  BY <1>1, <1>3, AllFunctions
<1>6. /\ HomedAt(home, r) /\ TableConsistent(table[r]) /\ Held(table[r]) = BondsOf(TagsOf(ptls[r]))
      /\ removed[r] = {} /\ \A i \in DOMAIN ptls[r] : IsAt(home, ptls[r][i])
  BY <1>1 DEF Homed, HomedAt
<1>7. BondsOnlyAt(r)
  BY <1>1, AllFunctions DEF BondsOnlyAt, OnlyAt
<1>8. /\ \A i \in DOMAIN ptls[r] : ptls[r][i].tag \in Tags /\ ptls[r][i].pos \in Near(r, -1)
  <2>1. SentUpTo(r) = -1
    BY <1>1 DEF SentUpTo
  <2>2. ptls[r] \in Seq(Particles(Near(r, -1)))
    BY <2>1 DEF Located, LocatedAt
  <2> QED
    BY <2>2, LenProperties, ElementOfSeq, ParticleIs
<1>9. \A bond \in BondTags : Members[bond] \subseteq Tags
  BY MigrationAssumption
<1>10. \A tag \in Tags : /\ IsLocal(r, index, tag) <=> tag \in TagsOf(ptls[r])
                         /\ IsLocal(r, index, tag) =>
                                index[tag] + 1 \in DOMAIN ptls[r] /\ ptls[r][index[tag] + 1].tag = tag
  BY <1>4, MemberHere
<1> HIDE DEF index
<1>11. ASSUME NEW tag \in Tags, LeavesRank(r, index, tag)
       PROVE  /\ home[tag] # GridPos(r) /\ home[tag] \in Heading(r, planOf(tag)) /\ planOf(tag) \in Plans
  <2> DEFINE p == ptls[r][index[tag] + 1]
  <2>1. /\ p.tag = tag /\ p.pos \in Near(r, -1) /\ IsAt(home, p) /\ PlanOf(r, p.pos) # {}
    BY <1>6, <1>8, <1>10, <1>11 DEF LeavesRank, Leaving
  <2> HIDE DEF p
  <2>2. home[tag] # GridPos(r)
    BY <2>1, LeavesHome
  <2>3. home[tag] \in Heading(r, PlanOf(r, p.pos))
    BY <2>1, PlanLeads, HomeHeads
  <2>4. PlanOf(r, p.pos) \in Plans
    <3>1. p.pos \in [Axes -> Int]
      BY <2>1 DEF Near
    <3> QED
      BY <2>1, <3>1, PlanHasBuffer
  <2> QED
    BY <2>2, <2>3, <2>4 DEF p
<1>12. ASSUME NEW tag \in Tags, StaysLocal(r, index, tag)
       PROVE  home[tag] = GridPos(r)
  <2> DEFINE p == ptls[r][index[tag] + 1]
  <2>1. /\ p.tag = tag /\ p.pos \in Near(r, -1) /\ IsAt(home, p) /\ PlanOf(r, p.pos) = {}
    BY <1>6, <1>8, <1>10, <1>12 DEF StaysLocal, Leaving
  <2> HIDE DEF p
  <2>2. p.pos = GridPos(r)
    BY <2>1, NoPlanAtHome, HomeIs
  <2> QED
    BY <2>1, <2>2, StayIsHome
<1>13. \A tag \in TagsOf(ptls[r]) : tag \in Tags /\ (LeavesRank(r, index, tag) \/ StaysLocal(r, index, tag))
  <2>1. ASSUME NEW tag \in TagsOf(ptls[r]) PROVE tag \in Tags
    BY <1>8 DEF TagsOf
  <2> QED
    BY <1>10, <2>1 DEF LeavesRank, StaysLocal
<1>14. Kept(r)' = { bond \in Held(table[r]) : \E tag \in Members[bond] : StaysLocal(r, index, tag) }
  BY <1>3 DEF Kept
<1>15. \A bond \in Held(table[r]) : bond \in BondTags /\ \E tag \in Members[bond] : tag \in TagsOf(ptls[r])
  BY <1>6 DEF BondsOf
<1> HIDE DEF planOf
<1>16. ASSUME NEW plan \in Plans, NEW copy \in copies[plan] PROVE Goes(home, copy, r, plan)
  <2>1. copy.with \in Tags /\ LeavesRank(r, index, copy.with) /\ planOf(copy.with) = plan
    BY DEF Copies
  <2> QED
    BY <1>11, <2>1 DEF Goes
<1>17. \A plan \in Plans : \A p \in ptlBuf'[r][plan] : IsAt(home, p)
  BY <1>5, <1>6 DEF Leaving
<1>18. HomedAt(home, r)'
  <2>1. \A plan \in AllBuffers : \A p \in Buffers(r)'[plan] : IsAt(home, p)
    BY <1>3, <1>17 DEF Buffers, AllBuffers
  <2>2. \A bond \in gone : \E tag \in Members[bond] : home[tag] # GridPos(r)
    <3>1. ASSUME NEW bond \in gone PROVE \E tag \in Members[bond] : home[tag] # GridPos(r)
      <4>1. PICK tag \in Members[bond] : tag \in TagsOf(ptls[r])
        BY <1>15
      <4>2. ~ StaysLocal(r, index, tag)
        OBVIOUS
      <4> QED
        BY <1>11, <1>13, <4>1, <4>2
    <3> QED
      BY <3>1
  <2>3. \A bond \in Kept(r)' : \E tag \in Members[bond] : home[tag] = GridPos(r)
    BY <1>9, <1>12, <1>14, <1>15
  <2> HIDE DEF copies, gone
  <2> QED
    BY <1>3, <1>6, <1>16, <2>1, <2>2, <2>3 DEF HomedAt
<1>19. HomedMessage(home, NeighborRank(r, Route[1]), message)
  BY <1>2, <1>17, ParticlesHead
<1>20. ASSUME NEW copy \in BondCopies, HasCopy(home, copy, r)
       PROVE  KeepsCopy(home, copy, r)'
  <2>1. copy.with \in TagsOf(ptls[r])
    BY <1>1, <1>20 DEF HasCopy, CopiesAt, Settled
  <2>2. /\ copy.bond \in BondTags /\ copy.with \in Tags /\ copy.with \in Members[copy.bond]
        /\ copy = [bond |-> copy.bond, with |-> copy.with]
    BY DEF BondCopies
  <2>3. copy.bond \in Held(table[r])
    BY <1>6, <2>1, <2>2 DEF BondsOf
  <2>4. CASE StaysLocal(r, index, copy.with)
    <3>1. home[copy.with] = GridPos(r) /\ copy.bond \in Kept(r)'
      BY <1>12, <1>14, <2>2, <2>3, <2>4
    <3> QED
      BY <1>3, <3>1 DEF KeepsCopy, Settled
  <2>5. CASE LeavesRank(r, index, copy.with)
    <3>1. copy \in Copies(r, index)
      BY <2>2, <2>3, <2>5 DEF Copies
    <3>2. planOf(copy.with) \in Plans /\ copy \in copies[planOf(copy.with)]
      BY <1>11, <2>2, <2>5, <3>1
    <3> HIDE DEF copies
    <3>3. copy \in CopiesAt(r)'
      BY <1>3, <3>2 DEF CopiesAt
    <3> QED
      BY <3>3 DEF KeepsCopy
  <2> QED
    BY <1>13, <2>1, <2>4, <2>5
<1>21. channel' = Put(Remaining(r), r, NeighborRank(r, Route[1]), message)
  BY <1>1, <1>2
<1> HIDE DEF message
<1>22. TableConsistent(table'[r])
  BY <1>3, <1>6
<1> QED
  BY <1>2, <1>7, <1>18, <1>19, <1>20, <1>21, <1>22, HomedAfter

LEMMA HomedReceive ==
  ASSUME Ordered, Located, Owned, Typed, NEW home \in Homes, Homed(home),
         NEW r \in Ranks, ReceiveParticlesGPU(r)
  PROVE  Homed(home)'
<1> DEFINE k == stage[r] + 1
           buf == Stored(ptlBuf[r], Message(r).data)
           message == [dir |-> Route[k], kind |-> "ptlBuffers", data |-> Sent(Route[k], buf)]
<1>1. /\ phase[r] = "ptlBuffers" /\ Arrived(r) /\ stage[r] < Len(Route)
      /\ ptlBuf' = [ptlBuf EXCEPT ![r] = buf]
      /\ recvBuf' = [recvBuf EXCEPT ![r] = recvBuf[r] \cup Message(r).data[Local]]
      /\ SendBuffers(r, k, "ptlBuffers", ptlBuf'[r], Taken(r))
      /\ UNCHANGED <<ptls, table, sendBonds, removed, mask, bondBuf>>
  BY DEF ReceiveParticlesGPU
<1>2. /\ phase[r] \in Kinds(communicator) /\ GoesOn(r) /\ Remaining(r) = Taken(r)
      /\ stage[r] \in DOMAIN Route
  BY <1>1, OnTheGPU
<1>3. ptlBuf'[r] = buf /\ recvBuf'[r] = recvBuf[r] \cup Message(r).data[Local]
  BY <1>1, AllFunctions
<1>4. /\ phase' = [phase EXCEPT ![r] = "ptlBuffers"] /\ stage' = [stage EXCEPT ![r] = k]
      /\ channel' = Put(Remaining(r), r, NeighborRank(r, Route[k]), message)
  BY <1>1, <1>2, <1>3 DEF SendBuffers
<1>5. Route[k] \in Sending /\ NeighborRank(r, Route[k]) \in Ranks
  <2>1. k \in DOMAIN Route
    BY <1>1, <1>2, RouteShape
  <2> QED
    BY <2>1, RouteNext, NeighborIs DEF Sending
<1>6. BondsOnlyAt(r) /\ phase'[r] = "ptlBuffers"
  BY <1>1, <1>4, AllFunctions DEF BondsOnlyAt, OnlyAt
<1>7. HomedAt(home, r) /\ TableConsistent(table[r])
  BY DEF Homed
<1>8. \A plan \in AllBuffers : \A p \in Message(r).data[plan] : IsAt(home, p)
  <2>1. /\ Source(r) \in Ranks /\ 1 \in DOMAIN channel[<<Source(r), r>>]
        /\ Message(r) = channel[<<Source(r), r>>][1] /\ Message(r).kind = "ptlBuffers"
    BY <1>1, <1>2, FirstMessage
  <2>2. HomedMessage(home, r, Message(r))
    BY <2>1 DEF Homed
  <2> QED
    BY <2>1, <2>2 DEF HomedMessage
<1>9. \A plan \in AllBuffers : Buffers(r)'[plan] = Buffers(r)[plan] \cup Message(r).data[plan]
  BY <1>3, BufferKinds DEF Buffers, AllBuffers, Stored
<1>10. \A plan \in AllBuffers : \A p \in Buffers(r)'[plan] : IsAt(home, p)
  BY <1>1, <1>7, <1>8, <1>9 DEF HomedAt
<1>11. \A plan \in Plans : \A p \in buf[plan] : IsAt(home, p)
  <2>1. \A plan \in Plans : plan \in AllBuffers /\ Buffers(r)'[plan] = buf[plan]
    BY <1>3, BufferKinds DEF Buffers, AllBuffers
  <2> QED
    BY <1>10, <2>1
<1> HIDE DEF buf, k
<1>12. Kept(r)' = Kept(r)
  BY <1>1 DEF Kept
<1>13. HomedAt(home, r)'
  BY <1>1, <1>6, <1>7, <1>10, <1>12 DEF HomedAt
<1>14. HomedMessage(home, NeighborRank(r, Route[k]), message)
  BY <1>5, <1>11, ParticlesHead
<1>15. ASSUME NEW copy \in BondCopies, HasCopy(home, copy, r)
       PROVE  KeepsCopy(home, copy, r)'
  <2>1. CopiesSent(Message(r)) = {}
    BY <1>1, <1>2, FirstMessage DEF CopiesSent
  <2>2. CopiesAt(r)' = CopiesAt(r)
    BY <1>1, <1>6 DEF CopiesAt
  <2>3. Settled(home, copy, r)' <=> Settled(home, copy, r)
    BY <1>1, <1>6, <1>12 DEF Settled
  <2> QED
    BY <1>1, <1>15, <2>1, <2>2, <2>3 DEF HasCopy, KeepsCopy
<1> HIDE DEF message
<1>16. TableConsistent(table'[r])
  BY <1>1, <1>7
<1> QED
  BY <1>2, <1>4, <1>5, <1>6, <1>13, <1>14, <1>15, <1>16, HomedAfter

LEMMA HomedReceiveBonds ==
  ASSUME Ordered, Located, Owned, Typed, NEW home \in Homes, Homed(home),
         NEW r \in Ranks, ReceiveBondsGPU(r)
  PROVE  Homed(home)'
<1> DEFINE k == stage[r] + 1
           dir == Route[k]
           buf == Stored(bondBuf[r], Message(r).data)
           message == [dir |-> dir, kind |-> "bondBuffers", data |-> Sent(dir, buf)]
<1>1. /\ phase[r] = "bondBuffers" /\ Arrived(r) /\ stage[r] < Len(Route)
      /\ bondBuf' = [bondBuf EXCEPT ![r] = buf]
      /\ recvBuf' = [recvBuf EXCEPT ![r] = recvBuf[r] \cup Message(r).data[Local]]
      /\ SendBuffers(r, k, "bondBuffers", bondBuf'[r], Taken(r))
      /\ UNCHANGED <<ptls, table, sendBonds, removed, mask, ptlBuf>>
  BY DEF ReceiveBondsGPU
<1>2. /\ phase[r] \in Kinds(communicator) /\ GoesOn(r) /\ Remaining(r) = Taken(r)
      /\ stage[r] \in DOMAIN Route
  BY <1>1, OnTheGPU
<1>3. bondBuf'[r] = buf /\ recvBuf'[r] = recvBuf[r] \cup Message(r).data[Local]
  BY <1>1, AllFunctions
<1>4. /\ phase' = [phase EXCEPT ![r] = "bondBuffers"] /\ stage' = [stage EXCEPT ![r] = k]
      /\ channel' = Put(Remaining(r), r, NeighborRank(r, dir), message)
  BY <1>1, <1>2, <1>3 DEF SendBuffers
<1>5. dir \in Sending /\ NeighborRank(r, dir) \in Ranks /\ Before(Route[stage[r]], dir)
  <2>1. k \in DOMAIN Route
    BY <1>1, <1>2, RouteShape
  <2>2. Route[stage[r]] \in Int
    BY <1>2, RouteShape DEF Directions
  <2> QED
    BY <1>2, <2>1, <2>2, RouteNext, NeighborIs, NextDirection DEF Sending, Before
<1>6. BondsOnlyAt(r) /\ phase'[r] = "bondBuffers" /\ stage'[r] = k
  BY <1>1, <1>4, AllFunctions DEF BondsOnlyAt, OnlyAt
<1>7. HomedAt(home, r) /\ TableConsistent(table[r])
  BY DEF Homed
<1>8. /\ \A plan \in AllBuffers : \A copy \in Message(r).data[plan] : Goes(home, copy, r, plan)
      /\ Message(r).kind = "bondBuffers" /\ Message(r).dir = Route[stage[r]]
  <2>1. /\ Source(r) \in Ranks /\ 1 \in DOMAIN channel[<<Source(r), r>>]
        /\ Message(r) = channel[<<Source(r), r>>][1] /\ Message(r).kind = "bondBuffers"
        /\ Message(r).dir = Route[stage[r]]
    BY <1>1, <1>2, FirstMessage
  <2>2. HomedMessage(home, r, Message(r))
    BY <2>1 DEF Homed
  <2> QED
    BY <2>1, <2>2 DEF HomedMessage
<1>9. \A plan \in AllBuffers : BondBuffers(r)'[plan] = BondBuffers(r)[plan] \cup Message(r).data[plan]
  BY <1>3, BufferKinds DEF BondBuffers, AllBuffers, Stored
<1>10. /\ \A plan \in Plans : \A copy \in buf[plan] : Goes(home, copy, r, plan)
       /\ \A copy \in recvBuf'[r] : Goes(home, copy, r, Local)
  BY <1>1, <1>3, <1>7, <1>8 DEF HomedAt, Stored, AllBuffers
<1>11. \A plan \in Plans : BondBuffers(r)'[plan] = buf[plan]
  BY <1>3, BufferKinds DEF BondBuffers, AllBuffers
<1> HIDE DEF buf, k, dir
<1>12. Kept(r)' = Kept(r)
  BY <1>1 DEF Kept
<1>13. HomedAt(home, r)'
  BY <1>1, <1>3, <1>6, <1>7, <1>10, <1>12 DEF HomedAt
<1>14. HomedMessage(home, NeighborRank(r, dir), message)
  BY <1>5, <1>10, CopiesHead
<1>15. ASSUME NEW copy \in BondCopies, HasCopy(home, copy, r)
       PROVE  KeepsCopy(home, copy, r)' \/ copy \in CopiesSent(message)
  <2>1. CASE Settled(home, copy, r)
    BY <1>1, <1>6, <1>12, <2>1 DEF Settled, KeepsCopy
  <2>2. CASE \E plan \in Later(Route[stage[r]]) : copy \in BondBuffers(r)'[plan]
    <3>1. PICK plan \in Later(Route[stage[r]]) : copy \in BondBuffers(r)'[plan]
      BY <2>2
    <3>2. CASE plan \in Later(dir)
      <4>1. copy \in CopiesAt(r)'
        BY <1>6, <3>1, <3>2 DEF CopiesAt, dir
      <4> QED
        BY <4>1 DEF KeepsCopy
    <3>3. CASE plan \notin Later(dir)
      <4>1. plan \in Plans
        BY <3>3 DEF Later, AllBuffers, Local
      <4>2. \E to \in Later(dir) : copy \in Sent(dir, buf)[to]
        BY <1>5, <1>11, <3>1, <3>3, <4>1, SentOrKept
      <4>3. message.kind = "bondBuffers" /\ message.data = Sent(dir, buf) /\ message.dir = dir
        OBVIOUS
      <4> QED
        BY <4>2, <4>3 DEF CopiesSent
    <3> QED
      BY <3>2, <3>3
  <2>3. CASE copy \in CopiesAt(r) \/ copy \in CopiesSent(Message(r))
    <3>1. \E plan \in Later(Route[stage[r]]) : copy \in BondBuffers(r)[plan] \cup Message(r).data[plan]
      BY <1>1, <1>8, <2>3 DEF CopiesAt, CopiesSent
    <3> QED
      BY <1>9, <2>2, <3>1 DEF Later
  <2> QED
    BY <1>1, <1>15, <2>1, <2>3 DEF HasCopy
<1> HIDE DEF message
<1>16. TableConsistent(table'[r])
  BY <1>1, <1>7
<1> QED
  BY <1>2, <1>4, <1>5, <1>6, <1>13, <1>14, <1>15, <1>16, HomedAfter

\* What is in the arrays at the end of the route is at home.
LEMMA FilledIsHome ==
  ASSUME Ordered, Located, Owned, communicator = "GPU", NEW home \in Homes, Homed(home),
         NEW r \in Ranks, CompleteParticlesGPU(r), Located'
  PROVE  \A i \in DOMAIN ptls'[r] : IsAt(home, ptls'[r][i])
<1>1. /\ phase[r] = "ptlBuffers" /\ Arrived(r)
      /\ FillParticles(r, recvBuf[r] \cup Message(r).data[Local])
      /\ IF BondTags = {} THEN Done(r)
         ELSE SendBuffers(r, 1, "bondBuffers", bondBuf[r], Taken(r))
  BY DEF CompleteParticlesGPU
<1>2. /\ phase[r] \in Kinds(communicator) /\ GoesOn(r)
      /\ \A plan \in Plans \cup {Local} : Message(r).data[plan] \in Some(Particles(Heading(r, plan)))
  BY <1>1, OnTheGPU
<1>3. /\ ptls = [q \in Ranks |-> ptls[q]] /\ phase = [q \in Ranks |-> phase[q]]
      /\ LocatedAt(r) /\ LocatedAt(r)' /\ HomedAt(home, r)
  BY DEF Located, Ordered, Homed
<1>4. /\ ptls[r] \in Seq(Particles(Near(r, -1))) /\ mask[r] = Leaving(r)
      /\ recvBuf[r] \in Some(Particles(Heading(r, Local)))
  BY <1>1, <1>3 DEF LocatedAt, SentUpTo
<1>5. PICK list \in FilledLists(ptls[r], mask[r], ForArrays(r)) : ptls' = [ptls EXCEPT ![r] = list]
  BY <1>1 DEF FillParticles, ForArrays, AllWrapped
<1>6. /\ ptls'[r] = list
      /\ \A tag : tag \in TagsOf(list) <=> tag \in KeptTags(ptls[r], mask[r]) \/ \E p \in ForArrays(r) : p.tag = tag
  <2>1. ptls'[r] = list
    BY <1>3, <1>5
  <2>2. Fills(Particles(Near(r, -1)), ptls[r], mask[r], ForArrays(r), list)
    BY CompleteFills
  <2> QED
    BY <2>1, <2>2, FilledOnce
<1>7. phase'[r] \in {"idle", "bondBuffers"}
  BY <1>1, <1>3 DEF Done, SendBuffers
<1>8. ASSUME NEW i \in DOMAIN list PROVE list[i].tag \in Tags /\ list[i].pos = GridPos(r)
  <2>1. list \in Seq(Particles(Near(r, 6)))
    BY <1>3, <1>6, <1>7 DEF LocatedAt, SentUpTo
  <2>2. list[i] \in Particles(Near(r, 6))
    BY <2>1, LenProperties, ElementOfSeq
  <2> QED
    BY <2>2, ParticleIs, HomeIs
<1>9. ASSUME NEW i \in DOMAIN ptls[r] \ mask[r] PROVE home[ptls[r][i].tag] = GridPos(r)
  <2> DEFINE p == ptls[r][i]
  <2>1. p \in Particles(Near(r, -1)) /\ PlanOf(r, p.pos) = {} /\ IsAt(home, p)
    BY <1>3, <1>4, LenProperties, ElementOfSeq DEF Leaving, HomedAt
  <2> HIDE DEF p
  <2>2. p.tag \in Tags /\ p.pos \in Near(r, -1)
    BY <2>1, ParticleIs
  <2>3. p.pos = GridPos(r)
    BY <2>1, <2>2, NoPlanAtHome, HomeIs
  <2>4. home[p.tag] = GridPos(r)
    BY <2>1, <2>2, <2>3, StayIsHome
  <2> QED
    BY <2>4 DEF p
<1>10. ASSUME NEW p \in recvBuf[r] \cup Message(r).data[Local] PROVE home[p.tag] = GridPos(r)
  <2>1. Local \in AllBuffers /\ Buffers(r)[Local] = recvBuf[r]
    BY DEF AllBuffers, Buffers
  <2>2. p \in Particles(Heading(r, Local))
    BY <1>2, <1>4, <2>1 DEF AllBuffers, Some
  <2>3. IsAt(home, p)
    <3>1. /\ Source(r) \in Ranks /\ 1 \in DOMAIN channel[<<Source(r), r>>]
          /\ Message(r) = channel[<<Source(r), r>>][1] /\ Message(r).kind = "ptlBuffers"
      BY <1>1, <1>2, FirstMessage
    <3>2. HomedMessage(home, r, Message(r))
      BY <3>1 DEF Homed
    <3> QED
      BY <1>1, <1>3, <2>1, <3>1, <3>2 DEF HomedMessage, HomedAt
  <2>4. p.tag \in Tags /\ p.pos \in Heading(r, Local)
    BY <2>2, ParticleIs
  <2> QED
    BY <2>3, <2>4, HomeHeads, HeadsHome
<1>11. ASSUME NEW p \in ForArrays(r) PROVE home[p.tag] = GridPos(r)
  BY <1>10 DEF ForArrays, AllWrapped, Particle
<1>12. ASSUME NEW i \in DOMAIN list PROVE IsAt(home, list[i])
  <2>1. list[i].tag \in TagsOf(list)
    BY DEF TagsOf
  <2>2. home[list[i].tag] = GridPos(r)
    BY <1>6, <1>9, <1>11, <2>1 DEF KeptTags
  <2> QED
    BY <1>8, <2>2, StayIsHome
<1> QED
  BY <1>6, <1>12

LEMMA HomedComplete ==
  ASSUME Ordered, Located, Owned, Typed, communicator = "GPU", BondTags # {},
         NEW home \in Homes, Homed(home), NEW r \in Ranks, CompleteParticlesGPU(r)
  PROVE  Homed(home)'
<1> DEFINE dir == Route[1]
           message == [dir |-> dir, kind |-> "bondBuffers", data |-> Sent(dir, bondBuf[r])]
<1>1. /\ phase[r] = "ptlBuffers" /\ Arrived(r)
      /\ ptls' = [ptls EXCEPT ![r] = ptls'[r]]
      /\ mask' = [mask EXCEPT ![r] = {}] /\ ptlBuf' = [ptlBuf EXCEPT ![r] = NoElements]
      /\ recvBuf' = [recvBuf EXCEPT ![r] = {}]
      /\ SendBuffers(r, 1, "bondBuffers", bondBuf[r], Taken(r))
      /\ UNCHANGED <<table, sendBonds, removed, bondBuf>>
  BY AllFunctions DEF CompleteParticlesGPU, FillParticles
<1>2. /\ phase[r] \in Kinds(communicator) /\ GoesOn(r) /\ Remaining(r) = Taken(r)
      /\ dir \in Sending /\ NeighborRank(r, dir) \in Ranks
  BY <1>1, OnTheGPU, RouteNext, NeighborIs DEF Sending
<1>3. /\ phase' = [phase EXCEPT ![r] = "bondBuffers"] /\ stage' = [stage EXCEPT ![r] = 1]
      /\ channel' = Put(Remaining(r), r, NeighborRank(r, dir), message)
  BY <1>1, <1>2 DEF SendBuffers
<1>4. BondsOnlyAt(r) /\ phase'[r] = "bondBuffers" /\ stage'[r] = 1 /\ recvBuf'[r] = {}
  BY <1>1, <1>3, AllFunctions DEF BondsOnlyAt, OnlyAt
<1>5. HomedAt(home, r) /\ TableConsistent(table[r])
  BY DEF Homed
<1>6. \A i \in DOMAIN ptls'[r] : IsAt(home, ptls'[r][i])
  BY LocatedCompleteGPU, FilledIsHome
<1>7. Kept(r)' = Kept(r)
  BY <1>1 DEF Kept
<1>8. HomedAt(home, r)'
  BY <1>1, <1>4, <1>5, <1>6, <1>7 DEF HomedAt
<1>9. \A plan \in Plans : \A copy \in bondBuf[r][plan] : Goes(home, copy, r, plan)
  BY <1>1, <1>5 DEF HomedAt
<1> HIDE DEF dir
<1>10. HomedMessage(home, NeighborRank(r, dir), message)
  BY <1>2, <1>9, CopiesHead
<1>11. Before(-1, dir) /\ Plans \subseteq Later(-1)
  <2>1. Before(-1, dir)
    <3>1. dir \in Int /\ -1 < dir
      BY <1>2 DEF Sending, Directions
    <3>2. \A other \in Sending : dir <= other
      BY RouteNext DEF dir
    <3> QED
      BY <3>1, <3>2 DEF Before
  <2>2. ASSUME NEW plan \in Plans PROVE plan \in Later(-1)
    <3>1. plan \in AllBuffers
      BY DEF AllBuffers
    <3>2. \A f \in plan : f \in Sending
      BY <3>1, BufferKinds
    <3>3. \A f \in Sending : f > -1
      BY DEF Sending, Directions
    <3> QED
      BY <3>1, <3>2, <3>3 DEF Later
  <2> QED
    BY <2>1, <2>2
<1>12. ASSUME NEW copy \in BondCopies, HasCopy(home, copy, r)
       PROVE  KeepsCopy(home, copy, r)' \/ copy \in CopiesSent(message)
  <2>1. CASE Settled(home, copy, r)
    BY <1>1, <1>4, <1>7, <2>1 DEF Settled, KeepsCopy
  <2>2. CASE copy \in CopiesAt(r)
    <3>1. PICK plan \in Plans : copy \in bondBuf[r][plan]
      BY <1>1, <2>2 DEF CopiesAt
    <3>2. plan \in Later(-1) /\ plan \in AllBuffers
      BY <1>11 DEF Later
    <3>3. CASE plan \in Later(dir)
      <4>1. copy \in BondBuffers(r)'[plan]
        BY <1>1, <3>1, <3>2, BufferKinds DEF BondBuffers
      <4>2. copy \in CopiesAt(r)'
        BY <1>4, <3>3, <4>1 DEF CopiesAt, dir
      <4> QED
        BY <4>2 DEF KeepsCopy
    <3>4. CASE plan \notin Later(dir)
      <4>1. \E to \in Later(dir) : copy \in Sent(dir, bondBuf[r])[to]
        BY <1>2, <1>11, <3>1, <3>2, <3>4, SentOrKept
      <4>2. message.kind = "bondBuffers" /\ message.data = Sent(dir, bondBuf[r]) /\ message.dir = dir
        OBVIOUS
      <4> QED
        BY <4>1, <4>2 DEF CopiesSent
    <3> QED
      BY <3>3, <3>4
  <2>3. CopiesSent(Message(r)) = {}
    BY <1>1, <1>2, FirstMessage DEF CopiesSent
  <2> QED
    BY <1>1, <1>12, <2>1, <2>2, <2>3 DEF HasCopy
<1> HIDE DEF message
<1>13. TableConsistent(table'[r])
  BY <1>1, <1>5
<1> QED
  BY <1>2, <1>3, <1>4, <1>8, <1>10, <1>12, <1>13, HomedAfter

-----------------------------------------------------------------------------
(* CommunicatorGPU: the table that comes of what is removed and received.   *)

NoneOf(old, gaps, new) == \A p \in new : \A i \in DOMAIN old \ gaps : p # old[i]

HasEach(old, gaps, new, list) ==
    \A x : (\E i \in DOMAIN list : list[i] = x) <=>
              x \in new \/ \E i \in DOMAIN old \ gaps : old[i] = x

\* What a list with gaps is filled to holds each of what stays and what is new.
LEMMA FilledEach ==
  ASSUME NEW E, NEW old \in Seq(E), NEW gaps \in SUBSET (DOMAIN old), NEW new, IsFiniteSet(new),
         Single(old), NoneOf(old, gaps, new),
         NEW list \in FilledLists(old, gaps, new)
  PROVE  Single(list) /\ HasEach(old, gaps, new, list)
<1> DEFINE n == Len(old) - Cardinality(gaps) + Cardinality(new)
           kept == { i \in DOMAIN old \ gaps : i <= n }
           later == { i \in DOMAIN old \ gaps : i > n }
           rest == { old[i] : i \in later }
<1>1. PICK fill \in Bijection((1 .. n) \ kept, new \cup rest) :
          list = [i \in 1 .. n |-> IF i \in kept THEN old[i] ELSE fill[i]]
  BY DEF FilledLists
<1>2. n \in Nat /\ Len(old) \in Nat /\ DOMAIN old = 1 .. Len(old)
  <2>1. Len(old) \in Nat /\ DOMAIN old = 1 .. Len(old)
    BY LenProperties
  <2>2. Cardinality(gaps) \in 0 .. Len(old)
    BY <2>1, PositionsFinite
  <2>3. Cardinality(new) \in Nat
    BY FS_CardinalityType
  <2> QED
    BY <2>1, <2>2, <2>3
<1>3. /\ kept \subseteq 1 .. n /\ later \cap (1 .. n) = {}
      /\ DOMAIN old \ gaps = kept \cup later /\ kept \cap later = {}
  <2> HIDE DEF n
  <2> QED
    BY <1>2
<1> HIDE DEF n, kept, later
<1>4. /\ fill \in [(1 .. n) \ kept -> new \cup rest]
      /\ \A i, j \in (1 .. n) \ kept : fill[i] = fill[j] => i = j
      /\ \A p \in new \cup rest : \E i \in (1 .. n) \ kept : fill[i] = p
  BY <1>1 DEF Bijection, Injection, Surjection, IsInjective
<1>5. /\ DOMAIN list = 1 .. n /\ \A i \in kept : list[i] = old[i]
      /\ \A i \in (1 .. n) \ kept : list[i] = fill[i]
  BY <1>1, <1>3
<1>6. ASSUME NEW i \in (1 .. n) \ kept
      PROVE  list[i] \in new \/ \E m \in later : list[i] = old[m]
  BY <1>4, <1>5, <1>6
<1>7. /\ \A i, j \in kept \cup later : old[i] = old[j] => i = j
      /\ \A p \in new : \A i \in kept \cup later : p # old[i]
  BY <1>3 DEF Single, NoneOf
<1>8. Single(list)
  <2>1. SUFFICES ASSUME NEW i \in 1 .. n, NEW j \in 1 .. n, list[i] = list[j] PROVE i = j
    BY <1>5 DEF Single
  <2>2. ASSUME NEW a \in kept, NEW b \in (1 .. n) \ kept PROVE list[a] # list[b]
    <3>1. list[a] = old[a]
      BY <1>5
    <3>2. \A m \in later : m # a
      BY <1>3
    <3> QED
      BY <1>6, <1>7, <3>1, <3>2
  <2>3. CASE i \in kept /\ j \in kept
    BY <1>5, <1>7, <2>1, <2>3
  <2>4. CASE i \notin kept /\ j \notin kept
    BY <1>4, <1>5, <2>1, <2>4
  <2> QED
    BY <2>1, <2>2, <2>3, <2>4
<1>9. ASSUME NEW x, x \in new \/ \E i \in DOMAIN old \ gaps : old[i] = x
      PROVE  \E i \in 1 .. n : list[i] = x
  <2>1. CASE \E i \in kept : old[i] = x
    BY <1>3, <1>5, <2>1
  <2>2. CASE x \in new \cup rest
    <3>1. PICK i \in (1 .. n) \ kept : fill[i] = x
      BY <1>4, <2>2
    <3> QED
      BY <1>5, <3>1
  <2> QED
    BY <1>3, <1>9, <2>1, <2>2
<1>10. ASSUME NEW i \in 1 .. n
       PROVE  list[i] \in new \/ \E m \in DOMAIN old \ gaps : old[m] = list[i]
  BY <1>3, <1>5, <1>6
<1>11. ASSUME NEW x, NEW i \in 1 .. n, list[i] = x
       PROVE  x \in new \/ \E m \in DOMAIN old \ gaps : old[m] = x
  BY <1>10, <1>11
<1>12. DOMAIN list = 1 .. n
  BY <1>5
<1> HIDE DEF n
<1> QED
  BY <1>8, <1>9, <1>11, <1>12 DEF HasEach

\* At most one copy has come of each bond that is removed.
OneOfRemoved(remove, received) ==
    \A c, d \in received : c.bond = d.bond /\ c.bond \in remove => c = d

CountFor(t, remove, received, active) ==
    /\ active \in SUBSET received /\ IsFiniteSet(active)
    /\ \A c, d \in active : c.bond = d.bond => c = d
    /\ \A c \in active : c.bond \notin Held(t) \ remove
    /\ \A c \in received : c.bond \notin Held(t) \ remove => \E d \in active : d.bond = c.bond

\* Which copies count: one of each bond that is not here or that is removed.
LEMMA ActiveAre ==
  ASSUME NEW t, IsTable(t), TableConsistent(t), NEW remove \in SUBSET Held(t),
         NEW received \in SUBSET BondCopies,
         OneOfRemoved(remove, received),
         NEW active \in ActiveCopies(t.rtag, remove, received)
  PROVE  CountFor(t, remove, received, active)
<1> DEFINE came(bond) == { copy \in received : copy.bond = bond }
<1>1. /\ active \in SUBSET received
      /\ \A bond \in BondTags :
             IF t.rtag[bond] = NOT_LOCAL
             THEN Cardinality(active \cap came(bond)) = (IF came(bond) = {} THEN 0 ELSE 1)
             ELSE active \cap came(bond) = IF bond \in remove THEN came(bond) ELSE {}
  BY DEF ActiveCopies
<1>2. IsFiniteSet(active) /\ \A bond : IsFiniteSet(active \cap came(bond))
  <2>1. IsFiniteSet(active)
    BY <1>1, CopiesFinite, FS_Subset
  <2> QED
    BY <2>1, FS_Subset
<1>3. \A bond \in BondTags : t.rtag[bond] = NOT_LOCAL <=> bond \notin Held(t)
  BY TableMeans
<1>4. \A copy \in received : copy.bond \in BondTags /\ copy \in came(copy.bond)
  BY DEF BondCopies
<1> DEFINE of(bond) == active \cap came(bond)
<1>5. \A bond : \A c : c \in of(bond) <=> c \in active /\ c.bond = bond
  BY <1>1
<1>6. ASSUME NEW bond \in BondTags, bond \notin Held(t)
      PROVE  /\ came(bond) # {} => \E x : of(bond) = {x}
             /\ came(bond) = {} => of(bond) = {}
  <2>1. came(bond) # {} => Cardinality(of(bond)) = 1
    BY <1>1, <1>3, <1>6
  <2>2. IsFiniteSet(of(bond))
    BY <1>2
  <2> HIDE DEF of
  <2>3. came(bond) # {} => \E x : of(bond) = {x}
    BY <2>1, <2>2, FS_Singleton
  <2> QED
    BY <2>3 DEF of
<1>7. \A bond \in BondTags : bond \in remove => of(bond) = came(bond)
  BY <1>1, <1>3
<1>8. \A bond \in BondTags : bond \in Held(t) \ remove => of(bond) = {}
  BY <1>1, <1>3
<1> HIDE DEF of
<1>9. ASSUME NEW c \in active, NEW d \in active, c.bond = d.bond PROVE c = d
  <2>1. c.bond \in BondTags /\ c \in of(c.bond) /\ d \in of(c.bond) /\ c \in came(c.bond)
    BY <1>1, <1>4, <1>5, <1>9
  <2>2. CASE c.bond \in remove
    BY <1>1, <1>9, <2>2 DEF OneOfRemoved
  <2>3. CASE c.bond \notin Held(t)
    BY <1>6, <2>1, <2>3
  <2> QED
    BY <1>8, <2>1, <2>2, <2>3
<1>10. \A c \in active : c.bond \notin Held(t) \ remove
  BY <1>1, <1>4, <1>5, <1>8
<1>11. ASSUME NEW c \in received, c.bond \notin Held(t) \ remove
       PROVE  \E d \in active : d.bond = c.bond
  <2>1. c.bond \in BondTags /\ c \in came(c.bond)
    BY <1>4
  <2>2. of(c.bond) # {}
    BY <1>6, <1>7, <1>11, <2>1
  <2> QED
    BY <1>5, <2>2
<1> QED
  BY <1>1, <1>2, <1>9, <1>10, <1>11 DEF CountFor

\* unpackRemoveBondsGPU(): what is removed goes, what is received comes.
LEMMA UnpackedMeans ==
  ASSUME NEW t, IsTable(t), TableConsistent(t), NEW remove \in SUBSET Held(t),
         NEW received \in SUBSET BondCopies,
         OneOfRemoved(remove, received),
         NEW new \in UnpackedGPU(t, remove, received)
  PROVE  /\ TableConsistent(new)
         /\ Held(new) = (Held(t) \ remove) \cup { copy.bond : copy \in received }
<1> DEFINE old == Elements(t)
           gaps == Gaps(t, remove)
           index == Reset(t, remove)
<1>1. PICK active \in ActiveCopies(t.rtag, remove, received) :
          \E list \in FilledLists(old, gaps, active) :
             /\ new = [bonds |-> BondList(list), rtag |-> LookUp(BondList(list), index)]
             /\ active \in Some(BondCopies) /\ list \in Seq(InTable) /\ BondList(list) \in Seq(BondTags)
  BY UnpackedIs
<1>2. PICK list \in FilledLists(old, gaps, active) :
             /\ new = [bonds |-> BondList(list), rtag |-> LookUp(BondList(list), index)]
             /\ list \in Seq(InTable) /\ BondList(list) \in Seq(BondTags)
  BY <1>1
<1>3. /\ active \in SUBSET received /\ IsFiniteSet(active)
      /\ \A c, d \in active : c.bond = d.bond => c = d
      /\ \A c \in active : c.bond \notin Held(t) \ remove
      /\ \A c \in received : c.bond \notin Held(t) \ remove => \E d \in active : d.bond = c.bond
  <2>1. CountFor(t, remove, received, active)
    BY ActiveAre
  <2> QED
    BY <2>1 DEF CountFor
<1>4. /\ t.bonds \in Seq(BondTags) /\ Single(t.bonds) /\ Held(t) \subseteq BondTags
      /\ \A bond : bond \in Held(t) <=> \E i \in DOMAIN t.bonds : t.bonds[i] = bond
      /\ \A bond \in BondTags : t.rtag[bond] = NOT_LOCAL <=> bond \notin Held(t)
  BY TableMeans, RangeOfBonds DEF IsTable, Held
<1>5. DOMAIN old = DOMAIN t.bonds /\ \A i \in DOMAIN old : old[i].bond = t.bonds[i]
  BY DEF Elements
<1>6. old \in Seq(InTable) /\ Single(old) /\ gaps \in SUBSET (DOMAIN old)
  <2>1. /\ Len(t.bonds) \in Nat /\ DOMAIN t.bonds = 1 .. Len(t.bonds)
        /\ \A i \in DOMAIN t.bonds : t.bonds[i] \in BondTags
    BY <1>4, LenProperties, ElementOfSeq
  <2>2. old \in [1 .. Len(t.bonds) -> InTable]
    BY <2>1 DEF Elements, InTable
  <2>3. old \in Seq(InTable)
    BY <2>1, <2>2, SeqDef
  <2>4. Single(old)
    BY <1>4, <1>5 DEF Single
  <2> QED
    BY <1>5, <2>3, <2>4 DEF Gaps
<1>7. \A bond : (\E i \in DOMAIN old \ gaps : old[i].bond = bond) <=> bond \in Held(t) \ remove
  BY <1>4, <1>5 DEF Gaps
<1> HIDE DEF old, gaps
<1>8. \A p \in active : \A i \in DOMAIN old \ gaps : p.bond # old[i].bond
  BY <1>3, <1>7
<1>9. /\ Single(list)
      /\ \A x : (\E i \in DOMAIN list : list[i] = x) <=>
                    x \in active \/ \E i \in DOMAIN old \ gaps : old[i] = x
  <2>1. NoneOf(old, gaps, active)
    BY <1>8 DEF NoneOf
  <2>2. IsFiniteSet(active) /\ list \in FilledLists(old, gaps, active)
    BY <1>2, <1>3
  <2>3. Single(list) /\ HasEach(old, gaps, active, list)
    BY <1>6, <2>1, <2>2, FilledEach
  <2> QED
    BY <2>3 DEF HasEach
<1> DEFINE bonds == BondList(list)
<1>10. DOMAIN bonds = DOMAIN list /\ \A i \in DOMAIN list : bonds[i] = list[i].bond
  BY DEF BondList
<1> HIDE DEF bonds
<1>11. \A i, j \in DOMAIN old : old[i].bond = old[j].bond => i = j
  BY <1>4, <1>5 DEF Single
<1>12. Single(bonds)
  <2>1. SUFFICES ASSUME NEW i \in DOMAIN list, NEW j \in DOMAIN list, list[i].bond = list[j].bond
                 PROVE  i = j
    BY <1>10 DEF Single
  <2>2. /\ list[i] \in active \/ \E m \in DOMAIN old \ gaps : old[m] = list[i]
        /\ list[j] \in active \/ \E m \in DOMAIN old \ gaps : old[m] = list[j]
    BY <1>9
  <2>3. list[i] = list[j]
    BY <1>3, <1>8, <1>11, <2>1, <2>2
  <2> QED
    BY <1>9, <2>3 DEF Single
<1>13. \A bond : bond \in Range(bonds) <=> bond \in (Held(t) \ remove) \cup { copy.bond : copy \in active }
  <2>1. \A bond : bond \in Range(bonds) <=> \E i \in DOMAIN list : list[i].bond = bond
    BY <1>10 DEF Range
  <2>2. ASSUME NEW i \in DOMAIN list
        PROVE  list[i].bond \in (Held(t) \ remove) \cup { copy.bond : copy \in active }
    BY <1>7, <1>9
  <2>3. ASSUME NEW copy \in active PROVE \E i \in DOMAIN list : list[i].bond = copy.bond
    BY <1>9
  <2>4. ASSUME NEW bond \in Held(t) \ remove PROVE \E i \in DOMAIN list : list[i].bond = bond
    <3>1. PICK m \in DOMAIN old \ gaps : old[m].bond = bond
      BY <1>7
    <3>2. PICK i \in DOMAIN list : list[i] = old[m]
      BY <1>9
    <3> QED
      BY <3>1, <3>2
  <2> QED
    BY <2>1, <2>2, <2>3, <2>4
<1>14. Range(bonds) = (Held(t) \ remove) \cup { copy.bond : copy \in received }
  <2>1. ASSUME NEW copy \in received
        PROVE  copy.bond \in (Held(t) \ remove) \cup { c.bond : c \in active }
    BY <1>3
  <2> QED
    BY <1>3, <1>13, <2>1
<1>15. \A bond \in BondTags \ Range(bonds) : index[bond] = NOT_LOCAL
  BY <1>4, <1>14 DEF Reset
<1> HIDE DEF index
<1>16. TableConsistent(new) /\ Held(new) = Range(bonds)
  BY <1>2, <1>12, <1>15, TableFrom DEF bonds
<1> QED
  BY <1>14, <1>16

LEMMA TwoMembers ==
  ASSUME NEW bond \in BondTags, NEW a \in Members[bond], NEW b \in Members[bond],
         NEW c \in Members[bond], c # a, c # b
  PROVE  a = b
<1> DEFINE S == Members[bond]
<1>1. IsFiniteSet(S) /\ Cardinality(S) = 2
  BY MigrationAssumption, BondAssumption, FS_Subset
<1>2. a \in S \ {c} /\ b \in S \ {c} /\ c \in S
  OBVIOUS
<1> HIDE DEF S
<1>3. IsFiniteSet(S \ {c}) /\ Cardinality(S \ {c}) = 1
  BY <1>1, <1>2, FS_RemoveElement
<1>4. \E x : S \ {c} = {x}
  BY <1>3, FS_Singleton
<1> QED
  BY <1>2, <1>4

LEMMA HomedCompleteBonds ==
  ASSUME Ordered, Located, Owned, Typed, NEW home \in Homes, Homed(home),
         NEW r \in Ranks, CompleteBondsGPU(r)
  PROVE  Homed(home)'
<1> DEFINE last == Route[stage[r]]
           received == recvBuf[r] \cup Message(r).data[Local]
<1>1. /\ phase[r] = "bondBuffers" /\ Arrived(r) /\ stage[r] = Len(Route)
      /\ removed' = [removed EXCEPT ![r] = {}] /\ bondBuf' = [bondBuf EXCEPT ![r] = NoElements]
      /\ recvBuf' = [recvBuf EXCEPT ![r] = {}] /\ Done(r)
      /\ UNCHANGED <<ptls, sendBonds, mask, ptlBuf>>
  BY DEF CompleteBondsGPU
<1>2. PICK new \in UnpackedGPU(table[r], removed[r], received) : table' = [table EXCEPT ![r] = new]
  BY DEF CompleteBondsGPU
<1>3. /\ phase[r] \in Kinds(communicator) /\ GoesOn(r) /\ Remaining(r) = Taken(r)
      /\ stage[r] \in DOMAIN Route
  BY <1>1, OnTheGPU
<1>4. /\ phase' = [phase EXCEPT ![r] = "idle"] /\ stage' = [stage EXCEPT ![r] = 0]
      /\ channel' = Remaining(r)
  BY <1>1, <1>3 DEF Done
<1>5. BondsOnlyAt(r) /\ phase'[r] = "idle" /\ table'[r] = new /\ removed'[r] = {}
  BY <1>1, <1>2, <1>4, AllFunctions DEF BondsOnlyAt, OnlyAt
<1>6. HomedAt(home, r) /\ TableConsistent(table[r])
  BY DEF Homed
<1>7. /\ Message(r).kind = "bondBuffers" /\ Message(r).dir = last
      /\ \A plan \in AllBuffers : \A copy \in Message(r).data[plan] : Goes(home, copy, r, plan)
      /\ \A plan \in AllBuffers : Message(r).data[plan] \subseteq BondCopies
  <2>1. /\ Source(r) \in Ranks /\ 1 \in DOMAIN channel[<<Source(r), r>>]
        /\ Message(r) = channel[<<Source(r), r>>][1] /\ Message(r).kind = "bondBuffers"
        /\ Message(r).dir = last
    BY <1>1, <1>3, FirstMessage
  <2>2. HomedMessage(home, r, Message(r))
    BY <2>1 DEF Homed
  <2>3. TypedMessage(Message(r))
    BY <1>3, <1>1, MessageIsTyped
  <2> QED
    BY <2>1, <2>2, <2>3 DEF HomedMessage, TypedMessage
<1>8. /\ IsTable(table[r]) /\ removed[r] \in SUBSET Held(table[r]) /\ received \in SUBSET BondCopies
  <2>1. TypedAt(r)
    BY DEF Typed
  <2> QED
    BY <1>1, <1>7, <2>1 DEF TypedAt, AllBuffers
<1>9. ASSUME NEW copy \in received
      PROVE  /\ home[copy.with] = GridPos(r) /\ copy.with \in Members[copy.bond] /\ copy.bond \in BondTags
  <2>1. copy.bond \in BondTags /\ copy.with \in Tags /\ copy.with \in Members[copy.bond]
    BY <1>8 DEF BondCopies
  <2>2. Goes(home, copy, r, Local)
    BY <1>1, <1>6, <1>7 DEF HomedAt, AllBuffers
  <2> QED
    BY <2>1, <2>2, HeadsHome DEF Goes
<1>10. OneOfRemoved(removed[r], received)
  <2>1. ASSUME NEW c \in received, NEW d \in received, c.bond = d.bond, c.bond \in removed[r]
        PROVE  c = d
    <3>1. PICK tag \in Members[c.bond] : home[tag] # GridPos(r)
      BY <1>1, <1>6, <2>1 DEF HomedAt
    <3>2. c.with = d.with
      BY <1>9, <2>1, <3>1, TwoMembers
    <3>3. c = [bond |-> c.bond, with |-> c.with] /\ d = [bond |-> d.bond, with |-> d.with]
      BY <1>8 DEF BondCopies
    <3> QED
      BY <2>1, <3>2, <3>3
  <2> HIDE DEF received
  <2> QED
    BY <2>1 DEF OneOfRemoved
<1>11. TableConsistent(new) /\ Held(new) = Kept(r) \cup { copy.bond : copy \in received }
  <2> HIDE DEF received
  <2> QED
    BY <1>2, <1>6, <1>8, <1>10, UnpackedMeans DEF Kept
<1>12. Kept(r)' = Kept(r) \cup { copy.bond : copy \in received }
  BY <1>5, <1>11 DEF Kept
<1> HIDE DEF received, last
<1>13. HomedAt(home, r)'
  <2>1. \A bond \in Kept(r) : \E tag \in Members[bond] : home[tag] = GridPos(r)
    BY <1>1, <1>6 DEF HomedAt
  <2>2. \A bond \in Kept(r)' : \E tag \in Members[bond] : home[tag] = GridPos(r)
    BY <1>9, <1>12, <2>1
  <2>3. \A i \in DOMAIN ptls'[r] : IsAt(home, ptls'[r][i])
    BY <1>1, <1>6 DEF HomedAt
  <2> QED
    BY <1>5, <2>2, <2>3 DEF HomedAt
<1>14. ASSUME NEW copy \in BondCopies, HasCopy(home, copy, r)
       PROVE  KeepsCopy(home, copy, r)'
  <2>1. CASE Settled(home, copy, r)
    BY <1>5, <1>12, <2>1 DEF Settled, KeepsCopy
  <2>2. CASE copy \in received
    <3>1. home[copy.with] = GridPos(r) /\ copy.bond \in Kept(r)'
      BY <1>9, <1>12, <2>2
    <3> QED
      BY <1>5, <3>1 DEF Settled, KeepsCopy
  <2>3. CASE copy \in CopiesAt(r) \/ copy \in CopiesSent(Message(r))
    <3>1. PICK plan \in Later(last) : copy \in BondBuffers(r)[plan] \cup Message(r).data[plan]
      BY <1>1, <1>7, <2>3 DEF CopiesAt, CopiesSent, last
    <3>2. plan = Local
      BY <1>1, NothingLater DEF last, Later
    <3>3. BondBuffers(r)[Local] = recvBuf[r]
      BY DEF BondBuffers, AllBuffers
    <3> QED
      BY <2>2, <3>1, <3>2, <3>3 DEF received
  <2> QED
    BY <1>1, <1>14, <2>1, <2>3 DEF HasCopy
<1> QED
  BY <1>3, <1>4, <1>5, <1>11, <1>13, <1>14, HomedAfter

-----------------------------------------------------------------------------
(* The initial states, and the states in which all ranks are idle.          *)

\* ParticleData and BondData, initialised from a snapshot.
LEMMA StartTables ==
  ASSUME Init
  PROVE  \E home \in [Tags -> Ranks] : \A r \in Ranks :
           /\ TagsOf(ptls[r]) = { tag \in Tags : home[tag] = r }
           /\ \A i \in DOMAIN ptls[r] : ptls[r][i].tag \in Tags /\ ptls[r][i].pos = GridPos(r)
           /\ TableConsistent(table[r])
           /\ Held(table[r]) = { bond \in BondTags : \E tag \in Members[bond] : home[tag] = r }
<1>1. PICK home \in [Tags -> Ranks] :
          /\ ptls = [ r \in Ranks |->
                     [ i \in DOMAIN SetToSeq({ tag \in Tags : home[tag] = r }) |->
                         Particle(SetToSeq({ tag \in Tags : home[tag] = r })[i], GridPos(r)) ] ]
          /\ table = [ r \in Ranks |->
            [ bonds |-> SetToSeq({ bond \in BondTags : \E tag \in Members[bond] : home[tag] = r }),
              rtag |-> LookUp(SetToSeq({ bond \in BondTags : \E tag \in Members[bond] : home[tag] = r }),
                              EmptyTable.rtag) ] ]
  BY DEF Init
<1>2. ASSUME NEW r \in Ranks
      PROVE  /\ TagsOf(ptls[r]) = { tag \in Tags : home[tag] = r }
             /\ \A i \in DOMAIN ptls[r] : ptls[r][i].tag \in Tags /\ ptls[r][i].pos = GridPos(r)
  <2> DEFINE here == { tag \in Tags : home[tag] = r }
             tags == SetToSeq(here)
  <2>1. IsFiniteSet(here)
    BY MigrationAssumption, FS_Subset
  <2>2. /\ tags \in Seq(here) /\ DOMAIN tags = 1 .. Len(tags)
        /\ \A e \in here : \E i \in DOMAIN tags : tags[i] = e
    BY <2>1, ListOfSet, LenProperties
  <2>3. ptls[r] = [i \in DOMAIN tags |-> Particle(tags[i], GridPos(r))]
    BY <1>1
  <2>4. \A i \in DOMAIN tags : tags[i] \in here
    BY <2>2, ElementOfSeq
  <2> HIDE DEF tags
  <2>5. /\ DOMAIN ptls[r] = DOMAIN tags
        /\ \A i \in DOMAIN ptls[r] : ptls[r][i].tag = tags[i] /\ ptls[r][i].pos = GridPos(r)
    BY <2>3 DEF Particle
  <2>6. ASSUME NEW tag PROVE tag \in TagsOf(ptls[r]) <=> tag \in here
    <3>1. tag \in here <=> \E i \in DOMAIN tags : tags[i] = tag
      BY <2>2, <2>4
    <3> QED
      BY <2>5, <3>1 DEF TagsOf
  <2>7. TagsOf(ptls[r]) = here
    BY <2>6
  <2> QED
    BY <2>4, <2>5, <2>7
<1>3. ASSUME NEW r \in Ranks
      PROVE  /\ TableConsistent(table[r])
             /\ Held(table[r]) = { bond \in BondTags : \E tag \in Members[bond] : home[tag] = r }
  <2> DEFINE here == { bond \in BondTags : \E tag \in Members[bond] : home[tag] = r }
             bonds == SetToSeq(here)
             index == EmptyTable.rtag
  <2>1. IsFiniteSet(here)
    BY MigrationAssumption, FS_Subset
  <2>2. /\ bonds \in Seq(here) /\ Single(bonds)
        /\ \A e \in here : \E i \in DOMAIN bonds : bonds[i] = e
    BY <2>1, ListOfSet DEF Single
  <2>3. table[r] = [bonds |-> bonds, rtag |-> LookUp(bonds, index)]
    BY <1>1
  <2>4. \A bond \in BondTags : index[bond] = NOT_LOCAL
    BY DEF EmptyTable
  <2> HIDE DEF bonds, index
  <2>5. Range(bonds) = here
    <3>1. /\ Range(bonds) \subseteq here
          /\ \A bond : bond \in Range(bonds) <=> \E i \in DOMAIN bonds : bonds[i] = bond
      BY <2>2, RangeOfBonds
    <3> QED
      BY <2>2, <3>1
  <2>6. bonds \in Seq(BondTags)
    BY <2>2, SeqMonotonic
  <2>7. TableConsistent(table[r]) /\ Held(table[r]) = Range(bonds)
    BY <2>2, <2>3, <2>4, <2>6, TableFrom
  <2> QED
    BY <2>5, <2>7
<1> QED
  BY <1>2, <1>3

LEMMA BondedInit ==
  ASSUME Init
  PROVE  Bonded
<1>1. PICK start \in [Tags -> Ranks] : \A r \in Ranks :
           /\ TagsOf(ptls[r]) = { tag \in Tags : start[tag] = r }
           /\ \A i \in DOMAIN ptls[r] : ptls[r][i].tag \in Tags /\ ptls[r][i].pos = GridPos(r)
           /\ TableConsistent(table[r])
           /\ Held(table[r]) = { bond \in BondTags : \E tag \in Members[bond] : start[tag] = r }
  BY StartTables
<1>2. /\ phase = [r \in Ranks |-> "idle"] /\ sendBonds = [r \in Ranks |-> <<>>]
      /\ removed = [r \in Ranks |-> {}] /\ channel = [pair \in Ranks \X Ranks |-> <<>>]
  BY DEF Init
<1>3. \A from, to \in Ranks : DOMAIN channel[<<from, to>>] = {}
  BY <1>2
<1>4. \A bond \in BondTags : Members[bond] \subseteq Tags
  BY MigrationAssumption
<1>5. Followed
  <2>1. ASSUME NEW r \in Ranks PROVE TableConsistent(table[r]) /\ Single(sendBonds[r]) /\ FollowsAt(r)
    <3>1. Held(table[r]) = BondsOf(TagsOf(ptls[r]))
      BY <1>1, <1>4 DEF BondsOf
    <3> QED
      BY <1>1, <1>2, <3>1 DEF FollowsAt, Single
  <2> QED
    BY <1>3, <2>1 DEF Followed, Belong
<1> DEFINE home == [tag \in Tags |-> GridPos(start[tag])]
<1>6. home \in Homes /\ \A tag \in Tags : home[tag] = GridPos(start[tag]) /\ start[tag] \in Ranks
  BY DEF Homes
<1> HIDE DEF home
<1>7. \A r \in Ranks : Kept(r) = { bond \in BondTags : \E tag \in Members[bond] : start[tag] = r }
  BY <1>1, <1>2 DEF Kept
<1>8. ASSUME NEW r \in Ranks PROVE HomedAt(home, r)
  <2>1. ASSUME NEW i \in DOMAIN ptls[r] PROVE IsAt(home, ptls[r][i])
    <3>1. ptls[r][i].tag \in TagsOf(ptls[r])
      BY DEF TagsOf
    <3>2. ptls[r][i].tag \in Tags /\ ptls[r][i].pos = GridPos(r) /\ home[ptls[r][i].tag] = GridPos(r)
      BY <1>1, <1>6, <3>1
    <3> QED
      BY <1>6, <3>2, StayIsHome
  <2>2. ASSUME NEW bond \in Kept(r) PROVE \E tag \in Members[bond] : home[tag] = GridPos(r)
    BY <1>4, <1>6, <1>7
  <2> QED
    BY <1>2, <2>1, <2>2 DEF HomedAt
<1>9. ASSUME NEW copy \in BondCopies PROVE \E r \in Ranks : Settled(home, copy, r)
  <2>1. copy.with \in Tags /\ copy.with \in Members[copy.bond] /\ copy.bond \in BondTags
    BY DEF BondCopies
  <2>2. Settled(home, copy, start[copy.with])
    BY <1>2, <1>6, <1>7, <2>1 DEF Settled
  <2> QED
    BY <1>6, <2>1, <2>2
<1>10. Homed(home)
  BY <1>1, <1>3, <1>8, <1>9 DEF Homed
<1> QED
  BY <1>5, <1>6, <1>10 DEF Bonded

LEMMA NothingSent ==
  ASSUME Ordered, AllIdle, NEW from \in Ranks, NEW to \in Ranks
  PROVE  channel[<<from, to>>] = <<>> /\ DOMAIN channel[<<from, to>>] = {}
<1>1. Clock(to) = 12
  BY DEF AllIdle, Clock
<1>2. channel[<<from, to>>] = <<>>
  BY <1>1, Quiet
<1> QED
  BY <1>2

\* Every tag is then in the arrays of a rank.
LEMMA AllInArrays ==
  ASSUME Ordered, Owned, NEW tag \in Tags,
         \A r \in Ranks : phase[r] # "ptlBuffers",
         \A from, to \in Ranks : DOMAIN channel[<<from, to>>] = {}
  PROVE  \E r \in Ranks : tag \in TagsOf(ptls[r])
<1>1. \/ \E r \in Ranks : tag \in [q \in Ranks |-> At(q)][r]
      \/ \E pair \in Ranks \X Ranks : \E k \in DOMAIN channel[pair] : tag \in Carried(channel[pair][k])
  BY DEF Owned, Exclusive
<1>2. \A pair \in Ranks \X Ranks : DOMAIN channel[pair] = {}
  BY PairsOfRanks
<1>3. PICK r \in Ranks : tag \in At(r)
  BY <1>1, <1>2
<1>4. tag \in InArrays(r)
  BY <1>3 DEF At, InBuffers
<1> QED
  BY <1>4 DEF InArrays, TagsOf

LEMMA HomesDiffer ==
  ASSUME NEW r \in Ranks, NEW q \in Ranks, GridPos(r) = GridPos(q)
  PROVE  r = q
<1>1. RankAt(GridPos(r)) = r /\ RankAt(GridPos(q)) = q
  BY GridPosIsCell
<1> QED
  BY <1>1

\* When all ranks are idle, the bonds have followed the particles.
LEMMA IdleBonds ==
  ASSUME Ordered, Located, Owned, Typed, Bonded, BondTags # {}, AllIdle, NEW r \in Ranks
  PROVE  /\ TableConsistent(table[r]) /\ Held(table[r]) = BondsOf(TagsOf(ptls[r]))
         /\ communicator = "GPU" => removed[r] = {}
<1>1. communicator \in {"CPU", "GPU"} /\ \A q \in Ranks : phase[q] = "idle"
  BY DEF Ordered, AllIdle
<1>2. CASE communicator = "CPU"
  <2>1. TableConsistent(table[r]) /\ FollowsAt(r)
    BY <1>2 DEF Bonded, Followed
  <2> QED
    BY <1>1, <1>2, <2>1 DEF FollowsAt
<1>3. CASE communicator = "GPU"
  <2>1. PICK home \in Homes : Homed(home)
    BY <1>3 DEF Bonded
  <2>2. \A q \in Ranks : TableConsistent(table[q]) /\ HomedAt(home, q)
    BY <2>1 DEF Homed
  <2>3. removed[r] = {} /\ Kept(r) = Held(table[r])
    BY <1>1, <2>2 DEF HomedAt, Kept
  <2>4. ASSUME NEW q \in Ranks, NEW tag \in TagsOf(ptls[q])
        PROVE  tag \in Tags /\ home[tag] = GridPos(q)
    <3>1. PICK i \in DOMAIN ptls[q] : ptls[q][i].tag = tag
      BY <2>4 DEF TagsOf
    <3>2. ptls[q] \in Seq(Particles(Near(q, 6)))
      BY <1>1 DEF Located, LocatedAt, SentUpTo
    <3>3. ptls[q][i] \in Particles(Near(q, 6))
      BY <3>2, LenProperties, ElementOfSeq
    <3>4. ptls[q][i].tag \in Tags /\ ptls[q][i].pos = GridPos(q)
      BY <3>3, ParticleIs, HomeIs
    <3>5. IsAt(home, ptls[q][i])
      BY <2>2 DEF HomedAt
    <3> QED
      BY <2>1, <3>1, <3>4, <3>5, StayIsHome
  <2>5. \A from, to \in Ranks : DOMAIN channel[<<from, to>>] = {}
    <3>1. ASSUME NEW from \in Ranks, NEW to \in Ranks PROVE DOMAIN channel[<<from, to>>] = {}
      BY NothingSent
    <3> QED
      BY <3>1
  <2>6. ASSUME NEW bond \in Held(table[r]) PROVE bond \in BondsOf(TagsOf(ptls[r]))
    <3>1. PICK tag \in Members[bond] : home[tag] = GridPos(r)
      BY <1>1, <2>2, <2>3, <2>6 DEF HomedAt
    <3>2. bond \in BondTags
      <4>1. IsTable(table[r])
        BY DEF Typed, TypedAt
      <4> QED
        BY <2>2, <2>6, <4>1, TableMeans
    <3>3. tag \in Tags
      BY <3>1, <3>2, MigrationAssumption
    <3>4. PICK q \in Ranks : tag \in TagsOf(ptls[q])
      BY <1>1, <2>5, <3>3, AllInArrays
    <3>5. q = r
      BY <2>4, <3>1, <3>4, HomesDiffer
    <3> QED
      BY <3>1, <3>2, <3>4, <3>5 DEF BondsOf
  <2>7. ASSUME NEW bond \in BondsOf(TagsOf(ptls[r])) PROVE bond \in Held(table[r])
    <3>1. PICK tag \in Members[bond] : tag \in TagsOf(ptls[r])
      BY <2>7 DEF BondsOf
    <3>2. bond \in BondTags /\ tag \in Tags /\ home[tag] = GridPos(r)
      BY <2>4, <2>7, <3>1 DEF BondsOf
    <3> DEFINE copy == [bond |-> bond, with |-> tag]
    <3>3. copy \in BondCopies /\ copy.bond = bond /\ copy.with = tag
      BY <3>1, <3>2 DEF BondCopies
    <3> HIDE DEF copy
    <3>4. ~ Underway(copy, channel)
      <4>1. \A q \in Ranks : CopiesAt(q) = {}
        BY <1>1 DEF CopiesAt
      <4>2. \A pair \in Ranks \X Ranks : DOMAIN channel[pair] = {}
        BY <2>5, PairsOfRanks
      <4> QED
        BY <1>1, <4>1, <4>2 DEF Underway
    <3>5. PICK q \in Ranks : Settled(home, copy, q)
      BY <2>1, <3>3, <3>4 DEF Homed
    <3>6. q = r
      BY <3>2, <3>3, <3>5, HomesDiffer DEF Settled
    <3> QED
      BY <2>3, <3>3, <3>5, <3>6 DEF Settled
  <2> QED
    BY <2>2, <2>3, <2>6, <2>7
<1> QED
  BY <1>1, <1>2, <1>3

\* The program between two migrations: the particles move.
LEMMA FollowedIntegrate ==
  ASSUME Ordered, Located, Owned, Typed, Bonded, BondTags # {}, Integrate, communicator = "CPU"
  PROVE  Followed'
<1>1. PICK m \in Motions : ptls' = [r \in Ranks |-> Moved(ptls[r], m.step)]
  BY DEF Integrate
<1>2. /\ phase' = [r \in Ranks |-> "moved"] /\ AllIdle
      /\ channel' = channel /\ table' = table /\ sendBonds' = sendBonds /\ Followed
  BY DEF Integrate, AllIdle, Bonded
<1>3. ASSUME NEW r \in Ranks PROVE TableConsistent(table[r])' /\ Single(sendBonds[r])' /\ FollowsAt(r)'
  <2>1. DOMAIN ptls'[r] = DOMAIN ptls[r] /\ \A i \in DOMAIN ptls[r] : ptls'[r][i].tag = ptls[r][i].tag
    BY <1>1 DEF Moved, Particle
  <2>2. TagsOf(ptls'[r]) = TagsOf(ptls[r])
    BY <2>1 DEF TagsOf
  <2>3. TableConsistent(table[r]) /\ Single(sendBonds[r]) /\ Held(table[r]) = BondsOf(TagsOf(ptls[r]))
    BY <1>2, IdleBonds DEF Followed
  <2> QED
    BY <1>2, <2>2, <2>3 DEF FollowsAt
<1>4. ASSUME NEW from \in Ranks, NEW to \in Ranks PROVE DOMAIN channel'[<<from, to>>] = {}
  BY <1>2, NothingSent
<1> QED
  BY <1>3, <1>4 DEF Followed, Belong

AllMoved == \A r \in Ranks : phase[r] = "moved"
HomesKnown == \E home \in Homes : \A r \in Ranks : \A i \in DOMAIN ptls[r] : IsAt(home, ptls[r][i])

\* Where each particle goes now.
LEMMA HomesAfterMove == Located /\ Owned /\ AllMoved => HomesKnown
<1> SUFFICES ASSUME Located, Owned, AllMoved PROVE HomesKnown
  OBVIOUS
<1> DEFINE round(pos) == [axis \in Axes |-> Around(pos[axis], Size[axis])]
           has(tag, p) == p.tag = tag /\ \E r \in Ranks : \E i \in DOMAIN ptls[r] : ptls[r][i] = p
           cell(tag) == IF \E p : has(tag, p) THEN round((CHOOSE p : has(tag, p)).pos) ELSE [axis \in Axes |-> 0]
           home == [tag \in Tags |-> cell(tag)]
<1>1. ASSUME NEW r \in Ranks, NEW i \in DOMAIN ptls[r]
      PROVE  /\ ptls[r][i].tag \in Tags /\ ptls[r][i].tag \in At(r)
             /\ round(ptls[r][i].pos) \in { GridPos(q) : q \in Ranks }
  <2> DEFINE p == ptls[r][i]
  <2>1. ptls[r] \in Seq(Particles(Near(r, -1))) /\ mask[r] = {}
    BY DEF Located, LocatedAt, SentUpTo, AllMoved
  <2>2. p \in Particles(Near(r, -1))
    BY <2>1, LenProperties, ElementOfSeq
  <2>3. p.tag \in At(r)
    BY <2>1 DEF At, InArrays
  <2> HIDE DEF p
  <2>4. p.tag \in Tags /\ p.pos \in Near(r, -1)
    BY <2>2, ParticleIs
  <2>5. ASSUME NEW axis \in Axes PROVE Around(p.pos[axis], Size[axis]) \in 0 .. Size[axis] - 1
    <3>1. /\ Size[axis] \in Nat \ {0} /\ GridPos(r)[axis] \in 0 .. Size[axis] - 1
          /\ p.pos[axis] \in Int /\ p.pos[axis] - GridPos(r)[axis] \in {-1, 0, 1}
      BY <2>4, CellIs DEF Near, Offsets
    <3>2. p.pos[axis] \in -1 .. Size[axis]
      BY <3>1
    <3> QED
      BY <3>1, <3>2, AroundIs
  <2>6. round(p.pos) \in GridCells
    <3>1. \A axis \in Axes : Size[axis] \in Nat \ {0}
      BY CellIs
    <3>2. \A axis \in Axes : Around(p.pos[axis], Size[axis]) \in Int
      BY <2>5, <3>1
    <3> QED
      BY <2>5, <3>2 DEF GridCells
  <2> HIDE DEF round
  <2>7. RankAt(round(p.pos)) \in Ranks /\ GridPos(RankAt(round(p.pos))) = round(p.pos)
    BY <2>6, CellHasRank
  <2> QED
    BY <2>3, <2>4, <2>7 DEF p
<1>2. ASSUME NEW r \in Ranks, NEW i \in DOMAIN ptls[r], NEW q \in Ranks, NEW j \in DOMAIN ptls[q],
             ptls[r][i].tag = ptls[q][j].tag
      PROVE  ptls[r][i] = ptls[q][j]
  <2>1. ptls[r][i].tag \in At(r) /\ ptls[q][j].tag \in At(q)
    BY <1>1
  <2>2. \A a, b \in Ranks : \A tag \in At(a) : tag \in At(b) => a = b
    BY DEF Owned, Exclusive
  <2>3. r = q
    BY <1>2, <2>1, <2>2
  <2>4. Distinct(ptls[r])
    BY DEF Owned, OnceAt
  <2> QED
    BY <1>2, <2>3, <2>4 DEF Distinct
<1>3. ASSUME NEW r \in Ranks, NEW i \in DOMAIN ptls[r]
      PROVE  home[ptls[r][i].tag] = round(ptls[r][i].pos)
  <2> DEFINE tag == ptls[r][i].tag
  <2>1. has(tag, ptls[r][i])
    OBVIOUS
  <2>2. \A p : has(tag, p) => p = ptls[r][i]
    BY <1>2
  <2>3. tag \in Tags
    BY <1>1
  <2> HIDE DEF has, round, tag
  <2>4. (CHOOSE p : has(tag, p)) = ptls[r][i]
    BY <2>1, <2>2
  <2>5. cell(tag) = round(ptls[r][i].pos)
    BY <2>1, <2>4
  <2> QED
    BY <2>3, <2>5 DEF tag
<1>4. ASSUME NEW tag \in Tags PROVE cell(tag) \in { GridPos(q) : q \in Ranks }
  <2>1. CASE \E p : has(tag, p)
    <3>1. has(tag, CHOOSE p : has(tag, p))
      <4> HIDE DEF has
      <4> QED
        BY <2>1
    <3> DEFINE p == CHOOSE q : has(tag, q)
    <3>2. PICK r \in Ranks : \E i \in DOMAIN ptls[r] : ptls[r][i] = p
      BY <3>1
    <3>3. round(p.pos) \in { GridPos(q) : q \in Ranks }
      BY <1>1, <3>2
    <3> HIDE DEF has, round
    <3> QED
      BY <2>1, <3>3
  <2>2. CASE ~ \E p : has(tag, p)
    <3> DEFINE pos == [axis \in Axes |-> 0]
    <3>1. pos \in GridCells
      <4>1. \A axis \in Axes : 0 \in 0 .. Size[axis] - 1
        BY SizesPositive
      <4> QED
        BY <4>1 DEF GridCells
    <3> HIDE DEF has, pos
    <3>2. RankAt(pos) \in Ranks /\ GridPos(RankAt(pos)) = pos
      BY <3>1, CellHasRank
    <3> QED
      BY <2>2, <3>2 DEF pos
  <2> QED
    BY <2>1, <2>2
<1>5. home \in Homes
  <2> HIDE DEF cell
  <2> QED
    BY <1>4 DEF Homes
<1> HIDE DEF home
<1>6. ASSUME NEW r \in Ranks, NEW i \in DOMAIN ptls[r] PROVE IsAt(home, ptls[r][i])
  <2>1. \A axis \in Axes : round(ptls[r][i].pos)[axis] = Around(ptls[r][i].pos[axis], Size[axis])
    OBVIOUS
  <2> QED
    BY <1>3, <2>1 DEF IsAt
<1> QED
  BY <1>5, <1>6 DEF HomesKnown

LEMMA HomedIntegrate ==
  ASSUME Ordered, Located, Owned, Typed, Bonded, BondTags # {}, Integrate, communicator = "GPU"
  PROVE  \E home \in Homes : Homed(home)'
<1>1. PICK m \in Motions : ptls' = [r \in Ranks |-> Moved(ptls[r], m.step)]
  BY DEF Integrate
<1>2. /\ phase' = [r \in Ranks |-> "moved"] /\ AllIdle
      /\ channel' = channel /\ table' = table /\ removed' = removed
  BY DEF Integrate, AllIdle
<1>3. Located' /\ Owned'
  BY LocatedIntegrate, OwnedIntegrate
<1>4. \A r \in Ranks : phase'[r] = "moved"
  BY <1>2
<1>5. PICK home \in Homes : \A r \in Ranks : \A i \in DOMAIN ptls'[r] : IsAt(home, ptls'[r][i])
  <2>1. Located' /\ Owned' /\ AllMoved' => HomesKnown'
    BY HomesAfterMove, PTL
  <2>2. AllMoved'
    BY <1>4 DEF AllMoved
  <2>3. HomesKnown'
    BY <1>3, <2>1, <2>2
  <2> QED
    BY <2>3 DEF HomesKnown
<1>6. ASSUME NEW r \in Ranks
      PROVE  TableConsistent(table'[r]) /\ HomedAt(home, r)' /\ TagsOf(ptls'[r]) = TagsOf(ptls[r])
  <2>1. DOMAIN ptls'[r] = DOMAIN ptls[r] /\ \A i \in DOMAIN ptls[r] : ptls'[r][i].tag = ptls[r][i].tag
    BY <1>1 DEF Moved, Particle
  <2>2. TagsOf(ptls'[r]) = TagsOf(ptls[r])
    BY <2>1 DEF TagsOf
  <2>3. TableConsistent(table[r]) /\ Held(table[r]) = BondsOf(TagsOf(ptls[r])) /\ removed[r] = {}
    BY <1>2, IdleBonds
  <2> QED
    BY <1>2, <1>4, <1>5, <2>2, <2>3 DEF HomedAt
<1>7. \A from, to \in Ranks : DOMAIN channel'[<<from, to>>] = {}
  <2>1. ASSUME NEW from \in Ranks, NEW to \in Ranks PROVE DOMAIN channel'[<<from, to>>] = {}
    BY <1>2, NothingSent
  <2> QED
    BY <2>1
<1>8. ASSUME NEW copy \in BondCopies PROVE Underway(copy, channel)'
  <2>1. copy.with \in Tags
    BY DEF BondCopies
  <2>2. PICK r \in Ranks : copy.with \in TagsOf(ptls[r])
    <3>1. \A q \in Ranks : phase[q] # "ptlBuffers"
      BY <1>2 DEF AllIdle
    <3>2. \A from, to \in Ranks : DOMAIN channel[<<from, to>>] = {}
      BY <1>2, <1>7
    <3> QED
      BY <2>1, <3>1, <3>2, AllInArrays
  <2> QED
    BY <1>4, <1>6, <2>2 DEF Underway
<1> QED
  BY <1>5, <1>6, <1>7, <1>8 DEF Homed

LEMMA BondedNext ==
  ASSUME Ordered, Located, Owned, Indexed, Typed, Bonded, [Next]_vars
  PROVE  Bonded'
<1>1. SUFFICES ASSUME BondTags # {} PROVE Bonded'
  BY DEF Bonded
<1>2. CASE Integrate
  <2>1. communicator' = communicator
    BY <1>2 DEF Integrate
  <2> QED
    BY <1>1, <1>2, <2>1, FollowedIntegrate, HomedIntegrate DEF Bonded
<1>3. ASSUME NEW r \in Ranks, RankStep(r) PROVE Bonded'
  <2>1. communicator' = communicator
    BY <1>3 DEF RankStep
  <2>2. CASE communicator = "CPU" /\ CPUStep(r) /\ UNCHANGED buffers
    <3>1. Followed
      BY <1>1, <2>2 DEF Bonded
    <3>2. ASSUME BeginMigration(r) PROVE Followed'
      BY <1>1, <2>2, <3>1, <3>2, FollowedBegin
    <3>3. ASSUME ReceiveParticles(r) PROVE Followed'
      BY <1>1, <2>2, <3>1, <3>3, FollowedReceive
    <3>4. ASSUME ReceiveBonds(r) PROVE Followed'
      BY <1>1, <2>2, <3>1, <3>4, FollowedReceiveBonds
    <3> QED
      BY <2>1, <2>2, <3>2, <3>3, <3>4 DEF Bonded, CPUStep
  <2>3. CASE communicator = "GPU" /\ GPUStep(r)
    <3>1. PICK home \in Homes : Homed(home)
      BY <1>1, <2>3 DEF Bonded
    <3>2. Homed(home)'
      BY <1>1, <2>3, <3>1, HomedBegin, HomedReceive, HomedComplete, HomedReceiveBonds,
         HomedCompleteBonds DEF GPUStep
    <3> QED
      BY <2>1, <2>3, <3>1, <3>2 DEF Bonded
  <2> QED
    BY <1>3, <2>2, <2>3 DEF RankStep
<1>4. CASE UNCHANGED vars
  <2>1. UNCHANGED <<phase, stage, ptls, channel, mask, ptlBuf, recvBuf, table, sendBonds, removed,
                    bondBuf, communicator>>
    BY <1>4 DEF vars, migrationVars, buffers
  <2>2. ASSUME NEW r \in Ranks
        PROVE  /\ Kept(r)' = Kept(r) /\ Buffers(r)' = Buffers(r) /\ BondBuffers(r)' = BondBuffers(r)
               /\ Source(r)' = Source(r)
    BY <2>1 DEF Kept, Buffers, BondBuffers, Source
  <2>3. ASSUME Followed PROVE Followed'
    <3>1. \A r \in Ranks : FollowsAt(r)' <=> FollowsAt(r)
      BY <2>1, <2>2 DEF FollowsAt
    <3>2. \A from, to \in Ranks : Belong(from, channel[<<from, to>>])' <=> Belong(from, channel[<<from, to>>])
      BY <2>1 DEF Belong
    <3> QED
      BY <2>1, <2>3, <3>1, <3>2 DEF Followed
  <2>4. ASSUME NEW home \in Homes, Homed(home) PROVE Homed(home)'
    <3>1. ASSUME NEW r \in Ranks
          PROVE  /\ HomedAt(home, r)' <=> HomedAt(home, r)
                 /\ CopiesAt(r)' = CopiesAt(r)
                 /\ \A copy : Settled(home, copy, r)' <=> Settled(home, copy, r)
      BY <2>1, <2>2 DEF HomedAt, CopiesAt, Settled
    <3>2. ASSUME NEW copy, Underway(copy, channel) PROVE Underway(copy, channel)'
      <4>1. CASE \E r \in Ranks : phase[r] = "moved" /\ copy.with \in TagsOf(ptls[r])
        BY <2>1, <4>1 DEF Underway
      <4>2. CASE \E r \in Ranks : copy \in CopiesAt(r)
        <5>1. PICK r \in Ranks : copy \in CopiesAt(r)
          BY <4>2
        <5>2. copy \in CopiesAt(r)'
          BY <3>1, <5>1
        <5> QED
          BY <5>2 DEF Underway
      <4>3. CASE \E pair \in Ranks \X Ranks : \E k \in DOMAIN channel[pair] :
                     copy \in CopiesSent(channel[pair][k])
        BY <2>1, <4>3 DEF Underway, CopiesSent
      <4> QED
        BY <3>2, <4>1, <4>2, <4>3 DEF Underway
    <3>3. ASSUME NEW copy \in BondCopies
          PROVE  Underway(copy, channel)' \/ \E r \in Ranks : Settled(home, copy, r)'
      BY <2>4, <3>1, <3>2 DEF Homed
    <3>4. ASSUME NEW r \in Ranks PROVE TableConsistent(table'[r]) /\ HomedAt(home, r)'
      BY <2>1, <2>4, <3>1 DEF Homed
    <3>5. ASSUME NEW from \in Ranks, NEW to \in Ranks, NEW k \in DOMAIN channel'[<<from, to>>]
          PROVE  HomedMessage(home, to, channel'[<<from, to>>][k])
      <4>1. \A l \in DOMAIN channel[<<from, to>>] : HomedMessage(home, to, channel[<<from, to>>][l])
        BY <2>4 DEF Homed
      <4> QED
        BY <2>1, <4>1
    <3> QED
      BY <3>3, <3>4, <3>5 DEF Homed
  <2> QED
    BY <1>1, <2>1, <2>3, <2>4 DEF Bonded
<1> QED
  BY <1>2, <1>3, <1>4 DEF Next

\* Communicator.cc, the bonds that are sent after the particles of a direction,
\* and CommunicatorGPU.cc, the copies of bonds that are sent after all
\* particles: in every reachable state the bonds a rank keeps are those of its
\* particles but for what is on its way, and what is on its way goes to where
\* the member of the bond goes.
THEOREM AlwaysBonded == Spec => []Bonded
<1>1. Init => Bonded
  BY BondedInit
<1>2. Ordered /\ Located /\ Owned /\ Indexed /\ Typed /\ Bonded /\ [Next]_vars => Bonded'
  BY BondedNext
<1> QED
  BY <1>1, <1>2, AlwaysOrdered, AlwaysLocated, AlwaysOwned, AlwaysIndexed, AlwaysTyped, PTL DEF Spec

\* BondData.cc, unpackRemoveBonds(), and its GPU counterpart: the list of the
\* bonds of a rank and the lookup by tag agree in every reachable state,
\* whatever the ranks have removed and received before.
THEOREM TablesAlwaysConsistent == Spec => []BondTablesConsistent
<1>1. Typed /\ Bonded /\ communicator \in {"CPU", "GPU"} => BondTablesConsistent
  <2>1. SUFFICES ASSUME Typed, Bonded, communicator \in {"CPU", "GPU"}, NEW r \in Ranks
                 PROVE  TableConsistent(table[r])
    BY DEF BondTablesConsistent
  <2>2. CASE BondTags # {}
    BY <2>1, <2>2 DEF Bonded, Followed, Homed
  <2>3. CASE BondTags = {}
    <3>1. table[r].bonds \in Seq(BondTags)
      <4>1. IsTable(table[r])
        BY <2>1 DEF Typed, TypedAt
      <4> QED
        BY <4>1 DEF IsTable
    <3>2. DOMAIN table[r].bonds = {}
      BY <2>3, <3>1, LenProperties, ElementOfSeq
    <3> QED
      BY <2>3, <3>2 DEF TableConsistent
  <2> QED
    BY <2>2, <2>3
<1>2. Ordered => communicator \in {"CPU", "GPU"}
  BY DEF Ordered
<1> QED
  BY <1>1, <1>2, AlwaysOrdered, AlwaysTyped, AlwaysBonded, PTL

\* Communicator.cc and CommunicatorGPU.cc, what migrateParticles() does with the
\* bonds: when all ranks are done, each holds exactly the bonds that have a
\* member among its particles, on any grid and whichever particles have moved.
THEOREM BondsAlwaysFollow == Spec => []BondsFollowParticles
<1>1. Ordered /\ Located /\ Owned /\ Typed /\ Bonded => BondsFollowParticles
  <2>1. SUFFICES ASSUME Ordered, Located, Owned, Typed, Bonded, AllIdle, NEW r \in Ranks
                 PROVE  Held(table[r]) = BondsOf(TagsOf(ptls[r]))
    BY DEF BondsFollowParticles, BondsOf
  <2>2. CASE BondTags # {}
    BY <2>1, <2>2, IdleBonds
  <2>3. CASE BondTags = {}
    <3>1. Held(table[r]) \subseteq BondTags
      <4>1. IsTable(table[r])
        BY <2>1 DEF Typed, TypedAt
      <4>2. table[r].bonds \in Seq(BondTags)
        BY <4>1 DEF IsTable
      <4> QED
        BY <4>2, RangeOfBonds DEF Held
    <3> QED
      BY <2>3, <3>1 DEF BondsOf
  <2> QED
    BY <2>2, <2>3
<1> QED
  BY <1>1, AlwaysOrdered, AlwaysLocated, AlwaysOwned, AlwaysTyped, AlwaysBonded, PTL
=============================================================================
