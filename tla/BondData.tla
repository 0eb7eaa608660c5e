------------------------------ MODULE BondData ------------------------------
(***************************************************************************)
(* BondData in a single process: the arrays of bonds and their tags, the   *)
(* reverse lookup, the stack of deleted tags and the count of bonds, with  *)
(* the snapshots a script takes of it and restores.  AngleData and         *)
(* DihedralData keep their tags in the same way.                           *)
(*                                                                         *)
(* Indices and tags count from zero as in the code, sequences from one.    *)
(* A tag beyond the reverse lookup is an index out of bounds, for which    *)
(* the code has an assertion only: scripts pass tags they were given.      *)
(***************************************************************************)
EXTENDS Integers, Sequences

CONSTANTS
    NGlobal,    \* number of particles, whose tags are 0 .. NGlobal - 1
    NTypes,     \* number of bond types
    NOT_LOCAL,  \* BOND_NOT_LOCAL: the lookup of a deleted tag
    MaxBonds,   \* bound on the bonds at a time
    MaxCount    \* bound on the count of bonds

ASSUME BondDataAssumption ==
    /\ NGlobal \in Nat /\ NTypes \in Nat \ {0}
    /\ MaxBonds \in Nat /\ MaxCount \in Nat
    /\ NOT_LOCAL \notin Int

VARIABLES
    bonds,      \* m_bonds and m_bond_type
    tags,       \* m_tags
    rtag,       \* m_bond_rtag
    deleted,    \* m_deleted_tags, the top first
    num,        \* m_num_bonds_global
    snapshot    \* the SnapshotBondData a script holds

vars == <<bonds, tags, rtag, deleted, num, snapshot>>

\* What scripts pass to addBond(): members and types up to the first invalid one.
Bond == [a : 0..NGlobal, b : 0..NGlobal, type : 0..NTypes]

\* Accepts a bond of a particle with itself.
FaultyAccepted(bond) ==
    bond.a < NGlobal /\ bond.b < NGlobal /\ bond.type < NTypes

\* The errors of addBond().
Accepted(bond) ==
    /\ bond.a < NGlobal /\ bond.b < NGlobal
    /\ bond.a # bond.b
    /\ bond.type < NTypes

\* A new tag from the size of the list alone.
FaultyNewTag == Len(bonds)

\* Recycle the tag deleted last, or generate the next one.
NewTag == IF deleted # <<>> THEN Head(deleted) ELSE Len(bonds)

\* A recycled tag is of a bond that has been counted.
FaultyAddBond(bond) ==
    /\ Len(bonds) < MaxBonds /\ num < MaxCount
    /\ Accepted(bond)
    /\ IF deleted # <<>>
       THEN /\ deleted' = Tail(deleted)
            /\ rtag' = [rtag EXCEPT ![NewTag + 1] = Len(bonds)]
            /\ UNCHANGED num
       ELSE /\ rtag' = Append(rtag, Len(bonds))
            /\ UNCHANGED deleted
            /\ num' = num + 1
    /\ bonds' = Append(bonds, bond)
    /\ tags' = Append(tags, NewTag)
    /\ UNCHANGED snapshot

\* addBond(), for a bond without an error; otherwise nothing has changed.
AddBond(bond) ==
    /\ Len(bonds) < MaxBonds /\ num < MaxCount
    /\ Accepted(bond)
    /\ IF deleted # <<>>
       THEN /\ deleted' = Tail(deleted)
            /\ rtag' = [rtag EXCEPT ![NewTag + 1] = Len(bonds)]
       ELSE /\ rtag' = Append(rtag, Len(bonds))
            /\ UNCHANGED deleted
    /\ bonds' = Append(bonds, bond)
    /\ tags' = Append(tags, NewTag)
    /\ num' = num + 1
    /\ UNCHANGED snapshot

-----------------------------------------------------------------------------
\* Fill the hole at a position with the last element and drop that one.
Without(list, position) ==
    [ i \in 1 .. Len(list) - 1 |->
        IF i = position THEN list[Len(list)] ELSE list[i] ]

\* The last bond is moved, and looked up where it was.
FaultyRemoved(tag) == [rtag EXCEPT ![tag + 1] = NOT_LOCAL]

\* The lookup after the last bond has moved to the place of the removed one.
Removed(tag) ==
    LET last == tags[Len(tags)]
        id == rtag[tag + 1]
        reset == [rtag EXCEPT ![tag + 1] = NOT_LOCAL]
    IN  IF id < Len(bonds) - 1 THEN [reset EXCEPT ![last + 1] = id] ELSE reset

\* removeBond(); it refuses a tag that is not in use.
RemoveBond(tag) ==
    /\ rtag[tag + 1] # NOT_LOCAL
    /\ rtag' = Removed(tag)
    /\ bonds' = Without(bonds, rtag[tag + 1] + 1)
    /\ tags' = Without(tags, rtag[tag + 1] + 1)
    /\ deleted' = <<tag>> \o deleted
    /\ num' = num - 1
    /\ UNCHANGED snapshot

-----------------------------------------------------------------------------
\* Elements that are not written: uint2 and type of std::vector::resize().
NoBond == [a |-> 0, b |-> 0, type |-> 0]

\* takeSnapshot(): as many elements as are counted, the first ones written.
TakeSnapshot ==
    /\ snapshot' = [ i \in 1..num |-> IF i \in DOMAIN bonds THEN bonds[i] ELSE NoBond ]
    /\ UNCHANGED <<bonds, tags, rtag, deleted, num>>

\* The bonds of a list before the first that addBond() refuses.
AcceptedUpTo(list, n) ==
    /\ \A i \in 1..n : Accepted(list[i])
    /\ n < Len(list) => ~ Accepted(list[n + 1])

AcceptedLength(list) == CHOOSE n \in 0 .. Len(list) : AcceptedUpTo(list, n)

Start(list) == [i \in 1 .. AcceptedLength(list) |-> list[i]]

\* Deleted tags are kept for recycling.
FaultyInitializeFromSnapshot ==
    /\ num + AcceptedLength(snapshot) <= MaxCount
    /\ bonds' = Start(snapshot)
    /\ tags' = [i \in 1 .. AcceptedLength(snapshot) |-> i - 1]
    /\ rtag' = [i \in 1 .. AcceptedLength(snapshot) |-> i - 1]
    /\ num' = num + AcceptedLength(snapshot)
    /\ UNCHANGED <<deleted, snapshot>>

\* initializeFromSnapshot(): everything but the count is cleared, and addBond()
\* called for one bond after the other until it throws. Without deleted tags
\* it gives each the next tag.
InitializeFromSnapshot ==
    /\ num + AcceptedLength(snapshot) <= MaxCount
    /\ bonds' = Start(snapshot)
    /\ tags' = [i \in 1 .. AcceptedLength(snapshot) |-> i - 1]
    /\ rtag' = [i \in 1 .. AcceptedLength(snapshot) |-> i - 1]
    /\ deleted' = <<>>
    /\ num' = num + AcceptedLength(snapshot)
    /\ UNCHANGED snapshot

\* The constructor without a snapshot.
Init ==
    /\ bonds = <<>> /\ tags = <<>> /\ rtag = <<>> /\ deleted = <<>>
    /\ num = 0
    /\ snapshot = <<>>

Next ==
    \/ \E bond \in Bond : AddBond(bond)
    \/ \E tag \in 0 .. Len(rtag) - 1 : RemoveBond(tag)
    \/ TakeSnapshot
    \/ InitializeFromSnapshot

Spec == Init /\ [][Next]_vars

-----------------------------------------------------------------------------
\* Bonds between two different particles of the system, of a known type.
ValidBonds ==
    { bond \in [a : 0 .. NGlobal - 1, b : 0 .. NGlobal - 1, type : 0 .. NTypes - 1] :
        bond.a # bond.b }
KnownTags == 0 .. Len(rtag) - 1
LiveTags == { tag \in KnownTags : rtag[tag + 1] # NOT_LOCAL }

TypeOK ==
    /\ bonds \in Seq(ValidBonds)
    /\ tags \in Seq(Nat) /\ Len(tags) = Len(bonds)
    /\ rtag \in Seq(Nat \cup {NOT_LOCAL})
    /\ deleted \in Seq(Nat)
    /\ Len(rtag) <= MaxBonds
    /\ num \in 0..MaxCount
    /\ snapshot \in Seq(Bond)

\* What getBondByTag() returns for a tag in use.
BondOf == [tag \in LiveTags |-> bonds[rtag[tag + 1] + 1]]

\* Every bond is found under its tag and a tag in use leads to its bond, after
\* any removals that move bonds and any recycling of tags.
LookupConsistent ==
    /\ \A i \in 1 .. Len(tags) : tags[i] \in KnownTags /\ rtag[tags[i] + 1] = i - 1
    /\ \A tag \in LiveTags :
           /\ rtag[tag + 1] \in 0 .. Len(tags) - 1
           /\ tags[rtag[tag + 1] + 1] = tag

\* The stack holds exactly the tags that are free, once each: the assertions of
\* addBond() hold, which expect no gap in the lookup when the stack is empty.
DeletedTagsAreFree ==
    /\ \A i \in 1 .. Len(deleted) : deleted[i] \in KnownTags \ LiveTags
    /\ \A tag \in KnownTags \ LiveTags : \E i \in 1 .. Len(deleted) : deleted[i] = tag
    /\ \A i, j \in 1 .. Len(deleted) : deleted[i] = deleted[j] => i = j
    /\ Len(rtag) = Len(bonds) + Len(deleted)

\* The arrays of a snapshot are never written beyond their end.
SnapshotHasRoom == Len(bonds) <= num

\* A script sees bonds behind stable tags (BondMap): removals move bonds in the
\* arrays but never change what another tag stands for, and a snapshot brings
\* the same bonds back. What a snapshot holds after them is refused by addBond().
Map == INSTANCE BondMap WITH
    Bonds <- ValidBonds, bondOf <- BondOf, saved <- Start(snapshot)

ImplementsMap == Map!Spec

\* BondData.h 356, 212: the count is the number of bonds, which all are of this
\* process. BondData.cc 690: the restore clears what there was before.
CountIsNumberOfBonds == num = Len(bonds)
=============================================================================
