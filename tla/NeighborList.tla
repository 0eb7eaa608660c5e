---------------------------- MODULE NeighborList ----------------------------
(***************************************************************************)
(* When a neighbour list is rebuilt, on several ranks.  A list holds the   *)
(* pairs within r_cut + r_buff and is good until a particle has moved by   *)
(* half of r_buff; the same check decides whether particles migrate and    *)
(* ghosts are exchanged, so the ranks must come to the same answer.  The   *)
(* list, the exclusions and the positions of the last build are kept by    *)
(* index, which sorts and migrations change.                               *)
(*                                                                         *)
(* Positions are cells along the first axis, and moves are whole cells.    *)
(* A time step begins on all ranks together.  The time is not kept: what   *)
(* matters is the number of steps since the last build, counted up to      *)
(* MaxPeriod, and whether something has happened in this step already.     *)
(***************************************************************************)
EXTENDS Ghosts

CONSTANTS
    Cutoffs,    \* pairs <<r_cut, r_buff>> that the script may set
    Periods,    \* pairs <<every, dist_check>> that it may set
    Exclusions, \* sequences of pairs of tags that it may exclude
    Places,     \* where the particles may be
    Moves       \* how they may move in one step

ASSUME NeighborAssumption ==
    /\ Cutoffs \subseteq (Nat \ {0}) \X Nat /\ Periods \subseteq Nat \X BOOLEAN
    \* setGhostLayerWidth(), and getShiftedBox() for two domains
    /\ \A c \in Cutoffs : 3 * (c[1] + c[2]) < L

MaxPeriod == Max({ p[1] : p \in Periods }) + 1

VARIABLES
    at,         \* where each rank is in communicate() and compute()
    nlist,      \* the NeighborList of each rank
    cutoff,     \* <<m_r_cut, m_r_buff>>
    period,     \* <<m_every, m_dist_check>>
    excluded,   \* pairs of tags the script has excluded since it cleared them
    exTag,      \* m_ex_list_tag: the exclusions of each tag on each rank
    sorted,     \* m_particles_sorted of the forces of each rank
    forcesDone, \* they have been computed for this time step
    passes,     \* communications to go in prepRun(), else 1
    firstStep,  \* m_is_first_step of the communicators
    prepared    \* prepRun() has been called on this integrator

script == <<cutoff, period, excluded, exTag, prepared>>
listVars == <<script, at, nlist, sorted, forcesDone, passes, firstStep>>
vars == <<ghostVars, listVars>>

RCut == cutoff[1]
RBuff == cutoff[2]
Width == RCut + RBuff
Every == period[1]
DistCheck == period[2]

NewList == [force |-> TRUE, checkedNow |-> FALSE, result |-> TRUE, age |-> 0,
            done |-> FALSE, moved |-> FALSE, lastPos |-> <<>>, pairs |-> {}, exIdx |-> {}]

AllIdle == \A r \in Ranks : at[r] = "idle"
X(p) == p.pos[1]
Distance(x, y) == IF x > y THEN x - y ELSE y - x

Init ==
    /\ \E position \in Places : Placed(position)
    /\ phase = [r \in Ranks |-> "current"]
    /\ at = [r \in Ranks |-> "idle"]
    /\ nlist = [r \in Ranks |-> NewList]
    /\ cutoff \in Cutoffs /\ period \in Periods /\ excluded = {}
    /\ exTag = [r \in Ranks |-> [tag \in Tags |-> {}]]
    /\ sorted = [r \in Ranks |-> FALSE]
    /\ forcesDone = [r \in Ranks |-> FALSE]
    /\ passes = [r \in Ranks |-> 1]
    /\ firstStep = [r \in Ranks |-> TRUE]
    /\ prepared = FALSE

-----------------------------------------------------------------------------
(* needsUpdating()                                                          *)

\* Whether it was asked in this time step already.
Cached(n) == n.checkedNow /\ (~ n.force \/ n.result)

\* Without a buffer, or with dist_check off, which with a period of one step
\* makes no difference.
BuildsAnyway(n) ==
    \/ RBuff = 0
    \/ ~ DistCheck /\ (Every = 0 \/ (Every > 1 /\ n.age = Every))

\* What it returns; "ask" if that takes the distance check of all ranks.
Answer(n) ==
    IF Cached(n) THEN IF n.result THEN "yes" ELSE "no"
    ELSE IF n.force THEN "yes"
    ELSE IF n.age < Every THEN "no"
    ELSE IF BuildsAnyway(n) THEN "yes" ELSE "ask"

\* What it leaves behind.
Answered(n, yes) ==
    IF Cached(n) THEN [n EXCEPT !.force = FALSE]
    ELSE [n EXCEPT !.checkedNow = TRUE, !.result = yes, !.force = FALSE,
                   !.age = IF yes THEN 0 ELSE @]

\* distanceCheck() before the reduction, with delta_max = r_buff / 2.
FaultyMovedTooFar(r) ==
    \E i \in DOMAIN ptls[r] : Distance(X(ptls[r][i]), X(nlist[r].lastPos[i])) >= RBuff
MovedTooFar(r) ==
    \E i \in DOMAIN ptls[r] : 2 * Distance(X(ptls[r][i]), X(nlist[r].lastPos[i])) >= RBuff

\* The rank asks the list in communicate() or in compute(), and goes on, or
\* waits for the others with the result of its own check.
Ask(r, n, yes, no, wait) ==
    LET answer == Answer(n)
    IN  /\ at' = [at EXCEPT ![r] = CASE answer = "yes" -> yes
                                     [] answer = "no" -> no
                                     [] OTHER -> wait]
        /\ nlist' = [nlist EXCEPT ![r] = IF answer = "ask" THEN [n EXCEPT !.moved = MovedTooFar(r)]
                                         ELSE Answered(n, answer = "yes")]

\* Every rank goes by its own check.
FaultyAnyMoved(r) == nlist[r].moved
\* MPI_Allreduce() with MPI_MAX
AnyMoved(r) == \E s \in Ranks : nlist[s].moved

\* What a rank does that waits in the reduction.
AfterWait(r, yes) ==
    IF at[r] = "waitBuild" THEN IF yes THEN "build" ELSE "forces"
    ELSE IF yes \/ firstStep[r] THEN "migrate" ELSE "update"

Reduce ==
    /\ \A r \in Ranks : at[r] \in {"wait", "waitBuild"}
    /\ at' = [r \in Ranks |-> AfterWait(r, AnyMoved(r))]
    /\ nlist' = [r \in Ranks |-> [Answered(nlist[r], AnyMoved(r)) EXCEPT !.moved = FALSE]]
    /\ UNCHANGED <<ghostVars, cutoff, period, excluded, exTag, sorted, forcesDone, passes,
                   firstStep, prepared>>

-----------------------------------------------------------------------------
(* communicate()                                                            *)

Communicate(r) ==
    /\ at[r] = "check"
    /\ Ask(r, nlist[r], "migrate", IF firstStep[r] THEN "migrate" ELSE "update", "wait")
    /\ UNCHANGED <<ghostVars, script, sorted, forcesDone, passes, firstStep>>

Update(r) ==
    /\ at[r] = "update"
    /\ at' = [at EXCEPT ![r] = "ghosts"]
    /\ phase' = [phase EXCEPT ![r] = "update"]
    /\ UNCHANGED <<stage, ptls, ghosts, plan, rtag, copyGhosts, numRecv, channel,
                   script, nlist, sorted, forcesDone, passes, firstStep>>

\* What notifyParticleSort() tells the lists and the forces.
FaultyForced(n) == n
Forced(n) == [n EXCEPT !.force = TRUE]

Notify ==
    /\ nlist' = [r \in Ranks |-> Forced(nlist[r])]
    /\ sorted' = [r \in Ranks |-> TRUE]

\* migrateParticles(), which all ranks enter together.  The exchange that
\* follows overwrites the copy lists.
Migrate ==
    /\ \A r \in Ranks : at[r] = "migrate"
    /\ at' = [r \in Ranks |-> "ghosts"]
    /\ phase' = [r \in Ranks |-> "migrated"]
    /\ Migrated(OwnPosition)
    /\ Notify
    /\ firstStep' = [r \in Ranks |-> FALSE]
    /\ copyGhosts' = Cleared
    /\ numRecv' = [r \in Ranks |-> [dir \in Directions |-> 0]]
    /\ UNCHANGED <<stage, plan, channel, script, forcesDone, passes>>

ExchangeOrUpdate(r) ==
    /\ at[r] = "ghosts"
    /\ UNCHANGED listVars
    /\ GhostStep(r, Width)

-----------------------------------------------------------------------------
(* ForceCompute::compute() and NeighborList::compute()                      *)

\* updateExListIdx()
Translated(r) ==
    UNION { { <<i, rtag[r][tag] + 1>> :
                tag \in {t \in exTag[r][ptls[r][i].tag] : rtag[r][t] # NOT_LOCAL} } :
            i \in DOMAIN ptls[r] }

\* After the forces, computeAccelerations() in prepRun() communicates again.
Finish(r) ==
    /\ at' = [at EXCEPT ![r] = IF passes[r] > 1 THEN "check" ELSE "idle"]
    /\ passes' = [passes EXCEPT ![r] = IF @ > 1 THEN @ - 1 ELSE 1]

ForcesKnown(r) == forcesDone[r] /\ ~ sorted[r]

SkipForces(r) ==
    /\ at[r] = "ghosts" /\ phase[r] = "current" /\ ForcesKnown(r)
    /\ Finish(r)
    /\ UNCHANGED <<ghostVars, script, nlist, sorted, forcesDone, firstStep>>

\* Forces of sorted particles are computed again, which is not remembered.
\* The list is used as it is if it was asked for in this time step and nothing
\* forces it; else exclusions are translated when it is forced, and it is asked.
Compute(r) ==
    /\ at[r] = "ghosts" /\ phase[r] = "current" /\ ~ ForcesKnown(r)
    /\ sorted' = [sorted EXCEPT ![r] = FALSE]
    /\ forcesDone' = [forcesDone EXCEPT ![r] = @ \/ ~ sorted[r]]
    /\ LET n == nlist[r]
           exIdx == IF n.force /\ excluded # {} THEN Translated(r) ELSE n.exIdx
       IN  IF n.done /\ ~ n.force
           THEN at' = [at EXCEPT ![r] = "forces"] /\ UNCHANGED nlist
           ELSE Ask(r, [n EXCEPT !.done = TRUE, !.exIdx = exIdx], "build", "forces", "waitBuild")
    /\ UNCHANGED <<ghostVars, script, passes, firstStep>>

\* buildNlist(), in half storage: each local particle with what follows it.
Near(r, width) ==
    { pair \in (DOMAIN ptls[r]) \X (DOMAIN Arrays(r)) :
        /\ pair[1] < pair[2]
        /\ Distance(X(Arrays(r)[pair[1]]), X(Arrays(r)[pair[2]])) <= width }

\* With filterNlist() and setLastUpdatedPos().
Build(r) ==
    /\ at[r] = "build"
    /\ at' = [at EXCEPT ![r] = "forces"]
    /\ nlist' = [nlist EXCEPT ![r].pairs = Near(r, Width) \ (IF excluded = {} THEN {} ELSE nlist[r].exIdx),
                              ![r].lastPos = ptls[r]]
    /\ UNCHANGED <<ghostVars, script, sorted, forcesDone, passes, firstStep>>

UseList(r) ==
    /\ at[r] = "forces"
    /\ Finish(r)
    /\ UNCHANGED <<ghostVars, script, nlist, sorted, forcesDone, firstStep>>

-----------------------------------------------------------------------------
(* Between the computations, on all ranks.                                  *)

Shifted(list, d) == [i \in DOMAIN list |-> Particle(list[i].tag, <<X(list[i]) + d[list[i].tag], 0, 0>>)]
After(d) == [tag \in Tags |-> InBox(<<OwnPosition[tag][1] + d[tag], 0, 0>>)]

\* A time step: the particles move, then the ranks communicate.
StepOne ==
    /\ AllIdle /\ prepared
    /\ \E d \in Moves :
           /\ After(d) \in Places
           /\ ptls' = [r \in Ranks |-> Shifted(ptls[r], d)]
    /\ at' = [r \in Ranks |-> "check"]
    /\ nlist' = [r \in Ranks |->
                   [nlist[r] EXCEPT !.checkedNow = FALSE, !.done = FALSE,
                                    !.age = IF @ < MaxPeriod THEN @ + 1 ELSE @]]
    /\ forcesDone' = [r \in Ranks |-> FALSE]
    /\ UNCHANGED <<phase, stage, ghosts, plan, rtag, copyGhosts, numRecv, channel,
                   script, sorted, passes, firstStep>>

\* The first run with an integrator, in the time step at which the last ended.
PrepRun ==
    /\ AllIdle /\ ~ prepared
    /\ prepared' = TRUE
    /\ \E n \in 1 .. 2 : passes' = [r \in Ranks |-> n]
    /\ at' = [r \in Ranks |-> "check"]
    /\ UNCHANGED <<ghostVars, cutoff, period, excluded, exTag, nlist, sorted, forcesDone, firstStep>>

NewIntegrator ==
    /\ AllIdle /\ prepared
    /\ prepared' = FALSE
    /\ UNCHANGED <<ghostVars, cutoff, period, excluded, exTag, at, nlist, sorted, forcesDone,
                   passes, firstStep>>

\* SFCPackUpdater
Sort ==
    /\ AllIdle
    /\ \E r \in Ranks : Len(ptls[r]) > 1
    /\ ptls' = [r \in Ranks |-> Reverse(ptls[r])]
    /\ rtag' = [r \in Ranks |-> Indexed(rtag[r], Reverse(ptls[r]))]
    /\ Notify
    /\ UNCHANGED <<phase, stage, ghosts, plan, copyGhosts, numRecv, channel,
                   script, at, forcesDone, passes, firstStep>>

\* initializeFromSnapshot(): the communicator is not told.
Restore ==
    /\ AllIdle
    /\ \E position \in Places : Migrated(position)
    /\ Notify
    /\ UNCHANGED <<phase, stage, plan, copyGhosts, numRecv, channel,
                   script, at, forcesDone, passes, firstStep>>

\* setRCut() and setEvery()
SetParameters ==
    /\ AllIdle
    /\ cutoff' \in Cutoffs /\ period' \in Periods
    /\ nlist' = [r \in Ranks |-> Forced(nlist[r])]
    /\ UNCHANGED <<ghostVars, at, excluded, exTag, sorted, forcesDone, passes, firstStep, prepared>>

\* clearExclusions(): the counts of as many tags as the rank has particles.
Unexcluded(r) == [tag \in Tags |-> IF tag < Len(ptls[r]) THEN {} ELSE exTag[r][tag]]

\* addExclusion(), unless the first of the pair has the second already.
Add(ex, pair) ==
    IF pair[2] \in ex[pair[1]] THEN ex
    ELSE [ex EXCEPT ![pair[1]] = @ \cup {pair[2]}, ![pair[2]] = @ \cup {pair[1]}]

\* reset_exclusions() in pair.py: all are cleared and others added.
ResetExclusions ==
    /\ AllIdle
    /\ \E pairs \in Exclusions :
           /\ excluded' = { {pairs[i][1], pairs[i][2]} : i \in DOMAIN pairs }
           /\ exTag' = [r \in Ranks |-> FoldLeft(Add, Unexcluded(r), pairs)]
    /\ nlist' = [r \in Ranks |-> Forced(nlist[r])]
    /\ UNCHANGED <<ghostVars, at, cutoff, period, sorted, forcesDone, passes, firstStep, prepared>>

-----------------------------------------------------------------------------
RankStep(r) ==
    \/ Communicate(r) \/ Update(r) \/ ExchangeOrUpdate(r)
    \/ SkipForces(r) \/ Compute(r) \/ Build(r) \/ UseList(r)

Script == StepOne \/ PrepRun \/ NewIntegrator \/ Sort \/ Restore \/ SetParameters \/ ResetExclusions

Progress == Reduce \/ Migrate \/ \E r \in Ranks : RankStep(r)

Next == Script \/ Progress

\* A step that has begun goes on; another one need not begin.
Spec == Init /\ [][Next]_vars /\ WF_vars(Progress)

-----------------------------------------------------------------------------
TypeOK ==
    /\ GhostTypeOK
    /\ at \in [Ranks -> {"idle", "check", "wait", "update", "migrate", "ghosts",
                         "waitBuild", "build", "forces"}]
    /\ \A r \in Ranks :
           /\ nlist[r].age \in 0 .. MaxPeriod
           /\ \A pair \in nlist[r].pairs : pair[1] < pair[2]
           /\ exTag[r] \in [Tags -> SUBSET Tags]
    /\ cutoff \in Cutoffs /\ period \in Periods
    /\ passes \in [Ranks -> 1 .. 2]

\* Positions of two particles along the periodic axis.
Apart(a, b) ==
    LET d == (OwnPosition[a][1] - OwnPosition[b][1]) % Box(1)
    IN  IF 2 * d > Box(1) THEN Box(1) - d ELSE d

\* "It is guaruanteed that the processor can correctly calculate the forces on
\* its particles", Communicator.h 217: when a rank uses its list, each of its
\* particles finds in it every other one of the system that is within r_cut at
\* that moment and not excluded, whoever owns it and however it has moved,
\* been sorted or been restored since the list was built.
Listed(r, i, tag) ==
    \E j \in DOMAIN Arrays(r) :
        /\ Arrays(r)[j].tag = tag
        /\ Distance(X(Arrays(r)[i]), X(Arrays(r)[j])) <= RCut
        /\ {<<i, j>>, <<j, i>>} \cap nlist[r].pairs # {}

ListComplete ==
    \A r \in Ranks : at[r] = "forces" =>
        \A i \in DOMAIN ptls[r] : \A tag \in Tags \ {ptls[r][i].tag} :
            Apart(ptls[r][i].tag, tag) <= RCut /\ {ptls[r][i].tag, tag} \notin excluded =>
                Listed(r, i, tag)

\* The postcondition of addExclusion(), NeighborList.cc 331: "The pair tag1,
\* tag2 will not appear in the neighborlist", although it is filtered by
\* indices that sorts, migrations and exchanges change.
ExcludedNeverListed ==
    \A r \in Ranks : at[r] = "forces" =>
        \A pair \in nlist[r].pairs :
            {Arrays(r)[pair[1]].tag, Arrays(r)[pair[2]].tag} \notin excluded

\* Migration is collective: no rank updates ghosts in a computation in which
\* another one migrates or still waits for the common decision, and no rank
\* enters a migration that another one has come out of, or finished without.
RanksAgree ==
    \A r, s \in Ranks : at[r] \in {"migrate", "wait"} =>
        /\ at[s] # "update"
        /\ passes[r] = passes[s] => at[s] \in {"check", "wait", "migrate"}

\* The distance check compares each particle with its own last position: the
\* array of last positions is in index order, and nobody sorts it.
ChecksSameParticles ==
    \A r \in Ranks : at[r] \in {"wait", "waitBuild"} =>
        [i \in DOMAIN ptls[r] |-> ptls[r][i].tag] =
            [i \in DOMAIN nlist[r].lastPos |-> nlist[r].lastPos[i].tag]

\* A time step that has begun ends on all ranks.
StepCompletes == ~ AllIdle ~> AllIdle
=============================================================================
