------------------------------ MODULE BondMap ------------------------------
(***************************************************************************)
(* What BondData promises a script in a single process: bonds behind tags. *)
(* A bond keeps its tag until it is removed, whatever happens to the       *)
(* others; the tag of a new bond is free; the bonds of a snapshot come     *)
(* back, numbered from zero.                                               *)
(***************************************************************************)
EXTENDS Integers, Sequences

CONSTANTS
    Bonds,      \* the bonds a system may have
    MaxBonds    \* bound on the number of bonds at a time

VARIABLES bondOf,   \* the bond of every tag in use
          saved     \* the bonds of the last snapshot

vars == <<bondOf, saved>>

InUse == DOMAIN bondOf

\* The ways to list a set of tags.
Listings(tags) ==
    { order \in UNION { [1..n -> tags] : n \in 0..MaxBonds } :
        /\ \A tag \in tags : \E i \in DOMAIN order : order[i] = tag
        /\ \A i, j \in DOMAIN order : order[i] = order[j] => i = j }

Init == bondOf = [tag \in {} |-> 0] /\ saved = <<>>

Add == \E tag \in (0 .. MaxBonds - 1) \ InUse, bond \in Bonds :
          /\ bondOf' = [t \in InUse \cup {tag} |-> IF t = tag THEN bond ELSE bondOf[t]]
          /\ UNCHANGED saved

Remove == \E tag \in InUse :
          /\ bondOf' = [t \in InUse \ {tag} |-> bondOf[t]]
          /\ UNCHANGED saved

Save == /\ \E order \in Listings(InUse) :
               saved' = [i \in DOMAIN order |-> bondOf[order[i]]]
        /\ UNCHANGED bondOf

Restore == /\ bondOf' = [tag \in 0 .. Len(saved) - 1 |-> saved[tag + 1]]
           /\ UNCHANGED saved

Next == Add \/ Remove \/ Save \/ Restore

Spec == Init /\ [][Next]_vars
=============================================================================
