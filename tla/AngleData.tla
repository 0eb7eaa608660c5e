------------------------------ MODULE AngleData ------------------------------
(***************************************************************************)
(* AngleData (DihedralData and the impropers are the same code for four    *)
(* particles): angles between particle tags, the tags of the angles with   *)
(* the stack of deleted ones, and the table of angles by particle index    *)
(* from which forces are computed, rebuilt when it is asked for and dirty. *)
(*                                                                         *)
(* Angles exist in a single process only. Types are left out.              *)
(***************************************************************************)
EXTENDS Integers, Sequences, PickedLists

CONSTANTS
    Triples,    \* what scripts pass to addAngle(): tuples of tags
    NO_ANGLE,   \* the lookup of a deleted tag
    MaxAngles   \* bound on the angles at a time

ASSUME AngleDataAssumption ==
    MaxAngles \in Nat /\ NO_ANGLE \notin Int /\ Triples \subseteq [1..3 -> Nat]

VARIABLES
    angles,     \* m_angles
    angleTags,  \* m_tags
    angleRtag,  \* m_angle_rtag
    deleted,    \* m_deleted_tags, the top first
    dirty,      \* m_angles_dirty
    table       \* m_gpu_anglelist and m_n_angles: a column for each index

angleVars == <<angles, angleTags, angleRtag, deleted, dirty, table>>

\* The errors of addAngle(), with n particles: out of bounds, or a particle twice.
Accepted(angle, n) ==
    /\ \A i \in DOMAIN angle : angle[i] < n
    /\ \A i, j \in DOMAIN angle : angle[i] = angle[j] => i = j

\* Recycle the tag deleted last, or generate the next one.
NewTag == IF deleted # <<>> THEN Head(deleted) ELSE Len(angles)

\* addAngle(), for an angle without an error; otherwise nothing has changed.
AddAngle(angle, n) ==
    /\ Len(angles) < MaxAngles
    /\ Accepted(angle, n)
    /\ IF deleted # <<>>
       THEN /\ deleted' = Tail(deleted)
            /\ angleRtag' = [angleRtag EXCEPT ![NewTag + 1] = Len(angles)]
       ELSE /\ angleRtag' = Append(angleRtag, Len(angles))
            /\ UNCHANGED deleted
    /\ angles' = Append(angles, angle)
    /\ angleTags' = Append(angleTags, NewTag)
    /\ dirty' = TRUE
    /\ UNCHANGED table

\* Fill the hole at a position with the last element and drop that one.
Without(list, position) ==
    [ i \in 1 .. Len(list) - 1 |->
        IF i = position THEN list[Len(list)] ELSE list[i] ]

\* The lookup after the last angle has moved to the place of the removed one.
Removed(tag) ==
    LET id == angleRtag[tag + 1]
        reset == [angleRtag EXCEPT ![tag + 1] = NO_ANGLE]
    IN  IF id < Len(angles) - 1
        THEN [reset EXCEPT ![angleTags[Len(angleTags)] + 1] = id] ELSE reset

\* removeAngle(); it refuses a tag that is not in use.
RemoveAngle(tag) ==
    /\ angleRtag[tag + 1] # NO_ANGLE
    /\ angleRtag' = Removed(tag)
    /\ angles' = Without(angles, angleRtag[tag + 1] + 1)
    /\ angleTags' = Without(angleTags, angleRtag[tag + 1] + 1)
    /\ deleted' = <<tag>> \o deleted
    /\ dirty' = TRUE
    /\ UNCHANGED table

\* updateAngleTable(): the angles of each of n particles, in terms of the index
\* of their members, in the order of the list.
TableOf(list, n, index) ==
    LET resolved == [i \in DOMAIN list |-> [k \in DOMAIN list[i] |-> index[list[i][k]]]]
    IN  [ idx \in 0 .. n - 1 |->
            Picked(resolved, { i \in DOMAIN list : \E k \in DOMAIN list[i] : resolved[i][k] = idx }) ]

\* getGPUAngleList().
GetAngleList(n, index) ==
    /\ table' = IF dirty THEN TableOf(angles, n, index) ELSE table
    /\ dirty' = FALSE
    /\ UNCHANGED <<angles, angleTags, angleRtag, deleted>>

\* The slot connected to the sort signal.
SetDirty ==
    /\ dirty' = TRUE
    /\ UNCHANGED <<angles, angleTags, angleRtag, deleted, table>>

\* initializeFromSnapshot(): everything is cleared, and addAngle() called for one
\* angle after the other; the first call sets the flag, clearing does not.
FromSnapshot(list, wasDirty) ==
    /\ angles' = list
    /\ angleTags' = [i \in DOMAIN list |-> i - 1]
    /\ angleRtag' = [i \in DOMAIN list |-> i - 1]
    /\ deleted' = <<>>
    /\ dirty' = (wasDirty \/ list # <<>>)
    /\ UNCHANGED table

\* allocateAngleTable(): no angles yet.
AngleInit(n) ==
    /\ angles = <<>> /\ angleTags = <<>> /\ angleRtag = <<>> /\ deleted = <<>>
    /\ dirty = FALSE
    /\ table = [idx \in 0 .. n - 1 |-> <<>>]
=============================================================================
