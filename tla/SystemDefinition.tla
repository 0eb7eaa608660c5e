-------------------------- MODULE SystemDefinition --------------------------
(***************************************************************************)
(* SystemDefinition: the particles with a group and the angles of a system *)
(* and the snapshots of chosen parts that a script takes and restores. The *)
(* other parts of a snapshot are in BondData, or are not modelled.         *)
(***************************************************************************)
EXTENDS ParticleData, AngleData

VARIABLE snapshot   \* the SnapshotSystemData a script holds

vars == <<particleVars, angleVars, snapshot>>

Parts == {"particles", "angles"}

\* m_sort_signal, as far as angles listen to it; groups are in ParticleData.
FaultyNotifyParticleSort == UNCHANGED angleVars

NotifyParticleSort == SetDirty

Init ==
    /\ ParticleInit
    /\ AngleInit(NGlobal)
    /\ snapshot = [parts |-> {}, places |-> <<>>, angles |-> <<>>]

SetParticle ==
    /\ \E tag \in Movable(size), place \in Places : Set(tag, place)
    /\ UNCHANGED <<angleVars, snapshot>>

SortParticles ==
    /\ \E r \in Ranks : \E order \in Orders(N(r)) : Sort(r, order)
    /\ NotifyParticleSort
    /\ UNCHANGED snapshot

\* The particles near a domain boundary are of either kind, or none is.
MigrateParticles ==
    /\ \E near \in {{}, Movable(size)} : Communicate(near)
    /\ NotifyParticleSort
    /\ UNCHANGED snapshot

\* With a decomposition there are no angles.
NewAngle ==
    /\ size = 1
    /\ \E angle \in Triples : AddAngle(angle, N(0))
    /\ UNCHANGED <<particleVars, snapshot>>

DeleteAngle ==
    /\ \E tag \in 0 .. Len(angleRtag) - 1 : RemoveAngle(tag)
    /\ UNCHANGED <<particleVars, snapshot>>

\* A force asks for the table; without angles none does.
ComputeAngles ==
    /\ size = 1
    /\ GetAngleList(N(0), rtag[0])
    /\ UNCHANGED <<particleVars, snapshot>>

\* takeSnapshot(): the flags say which parts it has.
TakeSnapshot(parts) ==
    /\ snapshot' = [ parts |-> parts,
                     places |-> IF "particles" \in parts THEN Gathered ELSE <<>>,
                     angles |-> IF "angles" \in parts THEN angles ELSE <<>> ]
    /\ UNCHANGED <<particleVars, angleVars>>

\* initializeFromSnapshot(): the particles first, whose arrival is a sort for
\* the angles of before, then the angles.
InitializeFromSnapshot ==
    LET particles == "particles" \in snapshot.parts
    IN  /\ IF particles THEN Scatter(snapshot.places) ELSE UNCHANGED particleVars
        /\ IF "angles" \in snapshot.parts
           THEN FromSnapshot(snapshot.angles, dirty \/ particles)
           ELSE IF particles THEN NotifyParticleSort ELSE UNCHANGED angleVars
        /\ UNCHANGED snapshot

\* Once m_member_idx has been overrun an assertion has ended the program, or other
\* memory is lost: nothing is said of what follows.
Next ==
    /\ ~ overrun
    /\ \/ SetParticle
       \/ SortParticles
       \/ MigrateParticles
       \/ NewAngle
       \/ DeleteAngle
       \/ ComputeAngles
       \/ \E parts \in SUBSET Parts : TakeSnapshot(parts)
       \/ InitializeFromSnapshot

Spec == Init /\ [][Next]_vars

-----------------------------------------------------------------------------
ValidAngles == { angle \in Triples : Accepted(angle, NGlobal) }

KnownAngles == 0 .. Len(angleRtag) - 1
LiveAngles == { tag \in KnownAngles : angleRtag[tag + 1] # NO_ANGLE }

TypeOK ==
    /\ size \in Sizes
    /\ \A r \in Ranks :
        /\ ptls[r] \in Seq([tag : Tags, place : Places])
        /\ ghosts[r] \in Seq(Tags)
        /\ rtag[r] \in [Tags -> (0 .. N(r) + Len(ghosts[r]) - 1) \cup {NOT_LOCAL}]
        /\ memberIdx[r] \in Seq(0 .. N(r) - 1)
        /\ maxN[r] \in Nat /\ maxN[r] >= N(r) + Len(ghosts[r])
    /\ overrun \in BOOLEAN
    /\ angles \in Seq(ValidAngles) /\ Len(angles) <= MaxAngles
    /\ angleTags \in Seq(0 .. MaxAngles - 1) /\ Len(angleTags) = Len(angles)
    /\ angleRtag \in Seq(0 .. Len(angles) - 1 \cup {NO_ANGLE})
    /\ deleted \in Seq(0 .. MaxAngles - 1)
    /\ dirty \in BOOLEAN
    /\ table \in [Tags -> Seq([1..3 -> 0 .. NGlobal - 1])]
    /\ snapshot.parts \subseteq Parts
    /\ snapshot.places \in {<<>>} \cup [Tags -> Places]
    /\ snapshot.angles \in Seq(ValidAngles)

\* What getAngleByTag() returns for a tag in use.
AngleOf == [tag \in LiveAngles |-> angles[angleRtag[tag + 1] + 1]]

\* A script sees one system (SystemState): a particle under its tag, found on
\* exactly one rank however the arrays were sorted, migrated or restored, and
\* ghosts notwithstanding; an angle under its tag; and a snapshot brings back
\* exactly the parts it has (data.py 372, SystemDefinition.cc 265).
State == INSTANCE SystemState WITH
    Angles <- ValidAngles,
    placeOf <- [tag \in Tags |-> Get(tag).place], angleOf <- AngleOf,
    saved <- snapshot

ImplementsState == State!Spec

\* Integrators and computes find the members of a group by its indices: on
\* every rank these are the local members, each once, after anything that
\* rearranges the arrays (ParticleGroup.cc 322), and no list has been rebuilt on
\* the way with more entries than the group has members (assertion at 586). The
\* second part is true of groups with all particles, or without particle 0 only:
\* a restore rebuilds them while every tag is 0 (ParticleData.cc 425, 750).
GroupsFollow ==
    /\ ~ overrun
    /\ \A r \in Ranks :
        /\ { ptls[r][memberIdx[r][i] + 1].tag : i \in DOMAIN memberIdx[r] }
             = Group \cap { ptls[r][i].tag : i \in DOMAIN ptls[r] }
        /\ \A i \in 2 .. Len(memberIdx[r]) : memberIdx[r][i - 1] < memberIdx[r][i]

\* A table that is not marked for a rebuild describes the angles and the arrays
\* as they are, so that forces act on the right particles after a sort, a restore
\* or a change of the angles. Without angles the table may be that of earlier
\* ones: AngleData.cc 529 clears them and leaves the flag alone.
TableCurrent ==
    size = 1 /\ angles # <<>> /\ ~ dirty => table = TableOf(angles, N(0), rtag[0])
=============================================================================
