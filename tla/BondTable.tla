------------------------------ MODULE BondTable ------------------------------
(***************************************************************************)
(* The local bonds of a rank, as BondData keeps them: the list of bonds    *)
(* with their tags (m_bonds, m_tags), and the reverse lookup m_bond_rtag.  *)
(***************************************************************************)
EXTENDS Integers, Sequences, FiniteSets, SequencesExt, PickedLists

CONSTANTS
    BondTags,       \* the tags of all bonds, m_num_bonds_global of them
    Members,        \* the two particles of every bond
    NOT_LOCAL       \* NOT_LOCAL, BOND_NOT_LOCAL: of no element of this rank

ASSUME BondAssumption ==
    /\ NOT_LOCAL \notin Int
    /\ \A bond \in BondTags : Cardinality(Members[bond]) = 2

EmptyTable == [bonds |-> <<>>, rtag |-> [bond \in BondTags |-> NOT_LOCAL]]

\* Zero-based positions, as the indices of the code.
LookUp(list, rtag) ==
    [ bond \in BondTags |->
        IF Contains(list, bond)
        THEN (CHOOSE i \in DOMAIN list :
                  list[i] = bond /\ \A j \in DOMAIN list : list[j] = bond => j <= i) - 1
        ELSE rtag[bond] ]

\* What is left of a list of bonds, and what is new of one that was received.
Staying(bonds, removed) ==
    Picked(bonds, { i \in DOMAIN bonds : bonds[i] \notin removed })
Fresh(received, rtag) ==
    Picked(received, { i \in DOMAIN received : rtag[received[i]] = NOT_LOCAL })

\* The rtags of the bonds that are removed stay as they are.
FaultyUnpackRemove(table, removed, received) ==
    LET list == Staying(table.bonds, removed) \o Fresh(received, table.rtag)
    IN  [bonds |-> list, rtag |-> LookUp(list, table.rtag)]

\* unpackRemoveBonds(): reset the rtags of the bonds to remove, close the gaps
\* they leave, append what was received and is not held, renew the rtags.
UnpackRemove(table, removed, received) ==
    LET rtag == [ bond \in BondTags |->
                    IF bond \in removed THEN NOT_LOCAL ELSE table.rtag[bond] ]
        list == Staying(table.bonds, removed) \o Fresh(received, rtag)
    IN  [bonds |-> list, rtag |-> LookUp(list, rtag)]

Held(table) == Range(table.bonds)

\* The reverse lookup is the inverse of the list, which has no bond twice.
TableConsistent(table) ==
    /\ \A i \in DOMAIN table.bonds : table.rtag[table.bonds[i]] = i - 1
    /\ \A bond \in BondTags :
           table.rtag[bond] # NOT_LOCAL =>
               /\ table.rtag[bond] + 1 \in DOMAIN table.bonds
               /\ table.bonds[table.rtag[bond] + 1] = bond
=============================================================================
