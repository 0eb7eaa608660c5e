----------------------------- MODULE SystemState -----------------------------
(***************************************************************************)
(* What SystemDefinition promises a script, on any number of processes:    *)
(* every particle has its properties under its tag, whichever process has  *)
(* it and wherever it is in the arrays; every angle keeps its tag until it *)
(* is removed; a snapshot brings back the parts that were saved in it.     *)
(***************************************************************************)
EXTENDS Integers, Sequences

CONSTANTS
    Tags,       \* tags of the particles
    Places,     \* what a script may read and set of a particle
    Angles,     \* the angles a system may have
    MaxAngles   \* bound on the number of angles at a time

VARIABLES
    placeOf,    \* the property of every particle
    angleOf,    \* the angle of every angle tag in use
    saved       \* the snapshot, a set of parts and what is in each

vars == <<placeOf, angleOf, saved>>

InUse == DOMAIN angleOf

\* The ways to list a set of angle tags.
Listings(tags) ==
    { order \in UNION { [1..n -> tags] : n \in 0..MaxAngles } :
        /\ \A tag \in tags : \E i \in DOMAIN order : order[i] = tag
        /\ \A i, j \in DOMAIN order : order[i] = order[j] => i = j }

Init ==
    /\ placeOf \in [Tags -> Places]
    /\ angleOf = [tag \in {} |-> 0]
    /\ saved = [parts |-> {}, places |-> <<>>, angles |-> <<>>]

SetPlace == \E tag \in Tags, place \in Places :
    /\ placeOf' = [placeOf EXCEPT ![tag] = place]
    /\ UNCHANGED <<angleOf, saved>>

AddAngle == \E tag \in (0 .. MaxAngles - 1) \ InUse, angle \in Angles :
    /\ angleOf' = [t \in InUse \cup {tag} |-> IF t = tag THEN angle ELSE angleOf[t]]
    /\ UNCHANGED <<placeOf, saved>>

RemoveAngle == \E tag \in InUse :
    /\ angleOf' = [t \in InUse \ {tag} |-> angleOf[t]]
    /\ UNCHANGED <<placeOf, saved>>

Save == \E parts \in SUBSET {"particles", "angles"}, order \in Listings(InUse) :
    /\ saved' = [ parts |-> parts,
                  places |-> IF "particles" \in parts THEN placeOf ELSE <<>>,
                  angles |-> IF "angles" \in parts
                             THEN [i \in DOMAIN order |-> angleOf[order[i]]] ELSE <<>> ]
    /\ UNCHANGED <<placeOf, angleOf>>

Restore ==
    /\ placeOf' = IF "particles" \in saved.parts THEN saved.places ELSE placeOf
    /\ angleOf' = IF "angles" \in saved.parts
                  THEN [tag \in 0 .. Len(saved.angles) - 1 |-> saved.angles[tag + 1]]
                  ELSE angleOf
    /\ UNCHANGED saved

Next == SetPlace \/ AddAngle \/ RemoveAngle \/ Save \/ Restore

Spec == Init /\ [][Next]_vars
=============================================================================
