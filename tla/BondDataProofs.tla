--------------------------- MODULE BondDataProofs ---------------------------
(***************************************************************************)
(* The tags of BondData are consistent after any additions, removals and   *)
(* restores, and scripts see a map from tags to bonds (BondMap).           *)
(* The inductive invariant adds to what the runs check that the elements of*)
(* a snapshot which are not written follow the bonds, so that a restore    *)
(* ends in front of them.                                                  *)
(***************************************************************************)
EXTENDS BondData, SequenceTheorems, TLAPS

SnapshotShape == \E n \in 0..MaxBonds : n <= Len(snapshot) /\ AcceptedUpTo(snapshot, n)

Inv == TypeOK /\ LookupConsistent /\ DeletedTagsAreFree /\ SnapshotHasRoom /\ SnapshotShape

-----------------------------------------------------------------------------
LEMMA SequenceIsFunction ==
  ASSUME NEW S, NEW n \in Nat, NEW f \in [1..n -> S]
  PROVE  f \in Seq(S) /\ Len(f) = n /\ DOMAIN f = 1..n
<1>1. f \in Seq(S)
  BY SeqDef
<1> QED
  BY <1>1, LenProperties

(* Where addBond() stops in a list. *)

LEMMA AcceptedLengthUnique ==
  ASSUME NEW list, Len(list) \in Nat,
         NEW n \in 0 .. Len(list), AcceptedUpTo(list, n)
  PROVE  AcceptedLength(list) = n
<1> DEFINE m == AcceptedLength(list)
<1>1. m \in 0 .. Len(list) /\ AcceptedUpTo(list, m)
  BY DEF AcceptedLength
<1>2. ~ (m < n)
  BY <1>1 DEF AcceptedUpTo
<1>3. ~ (n < m)
  BY <1>1 DEF AcceptedUpTo
<1> QED
  BY <1>1, <1>2, <1>3

LEMMA AcceptedIsValid ==
  ASSUME NEW bond \in Bond, Accepted(bond)
  PROVE  bond \in ValidBonds
  BY BondDataAssumption DEF Bond, Accepted, ValidBonds

LEMMA ValidIsAccepted ==
  ASSUME NEW bond \in ValidBonds
  PROVE  bond \in Bond /\ Accepted(bond)
  BY BondDataAssumption DEF Bond, Accepted, ValidBonds

LEMMA NoBondRefused == NoBond \in Bond /\ ~ Accepted(NoBond)
  BY BondDataAssumption DEF NoBond, Bond, Accepted

LEMMA WholeSnapshot ==
  ASSUME TypeOK, SnapshotShape
  PROVE  LET n == AcceptedLength(snapshot)
         IN  /\ n \in 0..MaxBonds /\ n <= Len(snapshot)
             /\ \A i \in 1..n : snapshot[i] \in ValidBonds
             /\ Start(snapshot) \in Seq(ValidBonds)
             /\ Start(snapshot) = [i \in 1..n |-> snapshot[i]]
             /\ Len(Start(snapshot)) = n
<1>1. PICK n \in 0..MaxBonds : n <= Len(snapshot) /\ AcceptedUpTo(snapshot, n)
  BY DEF SnapshotShape
<1>2. Len(snapshot) \in Nat /\ n \in 0 .. Len(snapshot)
  BY <1>1, BondDataAssumption DEF TypeOK
<1>3. AcceptedLength(snapshot) = n
  BY <1>1, <1>2, AcceptedLengthUnique
<1>4. \A i \in 1..n : snapshot[i] \in ValidBonds
  <2>1. \A i \in 1..n : snapshot[i] \in Bond /\ Accepted(snapshot[i])
    BY <1>1, <1>2 DEF TypeOK, AcceptedUpTo
  <2> QED
    BY <2>1, AcceptedIsValid
<1>5. Start(snapshot) = [i \in 1..n |-> snapshot[i]]
  BY <1>3 DEF Start
<1>6. [i \in 1..n |-> snapshot[i]] \in Seq(ValidBonds) /\ Len([i \in 1..n |-> snapshot[i]]) = n
  BY <1>4, <1>2, SequenceIsFunction
<1> QED
  BY <1>1, <1>3, <1>4, <1>5, <1>6

-----------------------------------------------------------------------------
(* The operations. *)

LEMMA Shapes ==
  ASSUME TypeOK
  PROVE  /\ Len(bonds) \in Nat /\ Len(rtag) \in Nat /\ Len(deleted) \in Nat
         /\ Len(snapshot) \in Nat /\ Len(tags) = Len(bonds)
         /\ bonds \in [1 .. Len(bonds) -> ValidBonds]
         /\ tags \in [1 .. Len(bonds) -> Nat]
         /\ rtag \in [1 .. Len(rtag) -> Nat \cup {NOT_LOCAL}]
         /\ deleted \in [1 .. Len(deleted) -> Nat]
         /\ num \in Nat
  BY LenProperties, BondDataAssumption DEF TypeOK

LEMMA NewTagFree ==
  ASSUME Inv, NEW bond \in Bond, AddBond(bond)
  PROVE  /\ NewTag \in 0 .. MaxBonds - 1 /\ NewTag \notin LiveTags
         /\ rtag' \in Seq(Nat \cup {NOT_LOCAL})
         /\ Len(rtag') <= MaxBonds
         /\ KnownTags' = KnownTags \cup {NewTag}
         /\ \A tag \in KnownTags' :
                rtag'[tag + 1] = IF tag = NewTag THEN Len(bonds) ELSE rtag[tag + 1]
         /\ deleted' \in Seq(Nat)
         /\ \A tag \in KnownTags' :
                (\E i \in 1 .. Len(deleted') : deleted'[i] = tag)
                    <=> tag # NewTag /\ \E i \in 1 .. Len(deleted) : deleted[i] = tag
         /\ \A i \in 1 .. Len(deleted') : deleted'[i] \in KnownTags
         /\ \A i, j \in 1 .. Len(deleted') : deleted'[i] = deleted'[j] => i = j
         /\ Len(rtag') = Len(bonds) + 1 + Len(deleted')
<1> USE BondDataAssumption
<1>1. TypeOK /\ LookupConsistent /\ DeletedTagsAreFree
  BY DEF Inv
<1>2. /\ Len(bonds) \in Nat /\ Len(bonds) < MaxBonds
      /\ rtag \in Seq(Nat \cup {NOT_LOCAL}) /\ Len(rtag) \in Nat
      /\ deleted \in Seq(Nat) /\ Len(deleted) \in Nat /\ Len(rtag) <= MaxBonds
      /\ DOMAIN deleted = 1 .. Len(deleted)
      /\ Len(rtag) = Len(bonds) + Len(deleted)
  BY <1>1, Shapes DEF AddBond, TypeOK, DeletedTagsAreFree
<1>3. CASE deleted # <<>>
  <2>1. /\ NewTag = Head(deleted) /\ deleted' = Tail(deleted)
        /\ rtag' = [rtag EXCEPT ![NewTag + 1] = Len(bonds)]
    BY <1>3 DEF AddBond, NewTag
  <2>2. /\ Len(deleted) > 0 /\ Head(deleted) = deleted[1]
        /\ Len(deleted') = Len(deleted) - 1 /\ deleted' \in Seq(Nat)
        /\ 1 .. Len(deleted') = 1 .. Len(deleted) - 1
        /\ \A i \in 1 .. Len(deleted) - 1 : deleted'[i] = deleted[i + 1]
    BY <1>2, <1>3, <2>1, HeadTailProperties, EmptySeq, LenProperties
  <2>3. NewTag \in KnownTags \ LiveTags
    BY <1>1, <1>2, <2>1, <2>2 DEF DeletedTagsAreFree
  <2>4. NewTag \in 0 .. MaxBonds - 1 /\ NewTag \notin LiveTags
    BY <1>2, <2>3 DEF KnownTags
  <2>5. /\ Len(rtag') = Len(rtag) /\ rtag' \in Seq(Nat \cup {NOT_LOCAL})
        /\ \A i \in 1 .. Len(rtag) : rtag'[i] = IF i = NewTag + 1 THEN Len(bonds) ELSE rtag[i]
    BY <1>2, <2>1, <2>3, ExceptSeq DEF KnownTags
  <2>6. KnownTags' = KnownTags /\ KnownTags = KnownTags \cup {NewTag}
    BY <2>5, <2>3 DEF KnownTags
  <2>7. \A tag \in KnownTags' :
            rtag'[tag + 1] = IF tag = NewTag THEN Len(bonds) ELSE rtag[tag + 1]
    BY <1>2, <2>5, <2>6, <2>3 DEF KnownTags
  <2>8. \A i \in 1 .. Len(deleted) : deleted[i] \in KnownTags \ LiveTags
    BY <1>1, <1>2 DEF DeletedTagsAreFree
  <2>9. \A i, j \in 1 .. Len(deleted) : deleted[i] = deleted[j] => i = j
    BY <1>1, <1>2 DEF DeletedTagsAreFree
  <2>10. /\ \A i \in 1 .. Len(deleted') : deleted'[i] \in KnownTags /\ deleted'[i] # NewTag
         /\ \A i, j \in 1 .. Len(deleted') : deleted'[i] = deleted'[j] => i = j
    BY <1>2, <2>1, <2>2, <2>8, <2>9
  <2>11. \A tag \in KnownTags' :
            (\E i \in 1 .. Len(deleted') : deleted'[i] = tag)
                <=> tag # NewTag /\ \E i \in 1 .. Len(deleted) : deleted[i] = tag
    <3>1. TAKE tag \in KnownTags'
    <3>2. ASSUME NEW i \in 1 .. Len(deleted'), deleted'[i] = tag
          PROVE  tag # NewTag /\ \E k \in 1 .. Len(deleted) : deleted[k] = tag
      <4>1. i + 1 \in 1 .. Len(deleted) /\ deleted[i + 1] = tag
        BY <1>2, <2>2, <3>2
      <4> QED
        BY <4>1, <3>2, <2>10
    <3>3. ASSUME tag # NewTag, NEW i \in 1 .. Len(deleted), deleted[i] = tag
          PROVE  \E k \in 1 .. Len(deleted') : deleted'[k] = tag
      <4>1. i # 1
        BY <3>3, <2>1, <2>2
      <4>2. i - 1 \in 1 .. Len(deleted') /\ deleted'[i - 1] = tag
        BY <1>2, <2>2, <3>3, <4>1
      <4> QED
        BY <4>2
    <3> QED
      BY <3>2, <3>3
  <2> QED
    BY <1>2, <2>2, <2>4, <2>5, <2>6, <2>7, <2>10, <2>11
<1>4. CASE deleted = <<>>
  <2>1. /\ NewTag = Len(bonds) /\ deleted' = deleted
        /\ rtag' = Append(rtag, Len(bonds))
    BY <1>4 DEF AddBond, NewTag
  <2>2. Len(deleted) = 0 /\ DOMAIN deleted = {} /\ Len(rtag) = Len(bonds)
    BY <1>2, <1>4, EmptySeq
  <2>3. /\ Len(rtag') = Len(rtag) + 1 /\ rtag' \in Seq(Nat \cup {NOT_LOCAL})
        /\ \A i \in 1 .. Len(rtag) : rtag'[i] = rtag[i]
        /\ rtag'[Len(rtag) + 1] = Len(bonds)
    BY <1>2, <2>1, AppendProperties
  <2>4. NewTag \in 0 .. MaxBonds - 1 /\ NewTag \notin LiveTags
    BY <1>2, <2>1, <2>2 DEF LiveTags, KnownTags
  <2>5. KnownTags' = KnownTags \cup {NewTag}
    BY <1>2, <2>1, <2>2, <2>3 DEF KnownTags
  <2>6. \A tag \in KnownTags' :
            rtag'[tag + 1] = IF tag = NewTag THEN Len(bonds) ELSE rtag[tag + 1]
    BY <1>2, <2>1, <2>2, <2>3, <2>5 DEF KnownTags
  <2>7. /\ deleted' \in Seq(Nat) /\ Len(deleted') = 0
        /\ 1 .. Len(deleted) = {} /\ 1 .. Len(deleted') = {}
    BY <1>2, <2>1, <2>2
  <2>8. Len(rtag') <= MaxBonds /\ Len(rtag') = Len(bonds) + 1 + Len(deleted')
    BY <1>2, <2>2, <2>3, <2>7
  <2> QED
    BY <2>3, <2>4, <2>5, <2>6, <2>7, <2>8
<1> QED
  BY <1>3, <1>4

LEMMA AddBondKeeps ==
  ASSUME Inv, NEW bond \in Bond, AddBond(bond)
  PROVE  Inv' /\ LiveTags' = LiveTags \cup {NewTag}
         /\ \A tag \in LiveTags' :
                BondOf'[tag] = IF tag = NewTag THEN bond ELSE BondOf[tag]
<1> USE BondDataAssumption
<1>1. TypeOK /\ LookupConsistent /\ DeletedTagsAreFree /\ SnapshotHasRoom /\ SnapshotShape
  BY DEF Inv
<1>2. /\ Len(bonds) \in Nat /\ Len(rtag) \in Nat /\ Len(tags) = Len(bonds)
      /\ bonds \in Seq(ValidBonds) /\ tags \in Seq(Nat) /\ num \in Nat /\ num < MaxCount
      /\ Len(bonds) <= num
  BY <1>1, Shapes DEF TypeOK, AddBond, SnapshotHasRoom
<1> DEFINE n == Len(bonds)
<1>3. /\ NewTag \in 0 .. MaxBonds - 1 /\ NewTag \notin LiveTags
      /\ KnownTags' = KnownTags \cup {NewTag}
      /\ \A tag \in KnownTags' : rtag'[tag + 1] = IF tag = NewTag THEN n ELSE rtag[tag + 1]
  BY NewTagFree
<1>4. NewTag \in Nat /\ bond \in ValidBonds
  BY <1>3, AcceptedIsValid DEF AddBond
<1>5. /\ bonds' \in Seq(ValidBonds) /\ Len(bonds') = n + 1
      /\ \A i \in 1..n : bonds'[i] = bonds[i]
      /\ bonds'[n + 1] = bond
  BY <1>2, <1>4, AppendProperties DEF AddBond
<1>6. /\ tags' \in Seq(Nat) /\ Len(tags') = n + 1
      /\ \A i \in 1..n : tags'[i] = tags[i]
      /\ tags'[n + 1] = NewTag
  BY <1>2, <1>4, AppendProperties DEF AddBond
<1>7. LiveTags' = LiveTags \cup {NewTag}
  BY <1>2, <1>3 DEF LiveTags
<1>8. \A tag \in LiveTags : rtag[tag + 1] \in 0 .. n - 1 /\ tags[rtag[tag + 1] + 1] = tag
  BY <1>1, <1>2 DEF LookupConsistent
<1>9. TypeOK'
  <2>1. num' \in 0..MaxCount /\ snapshot' = snapshot
    BY <1>2 DEF AddBond
  <2>2. rtag' \in Seq(Nat \cup {NOT_LOCAL}) /\ deleted' \in Seq(Nat) /\ Len(rtag') <= MaxBonds
    BY NewTagFree
  <2> QED
    BY <1>1, <1>5, <1>6, <2>1, <2>2 DEF TypeOK, ValidBonds, Bond
<1>10. LookupConsistent'
  <2>1. \A i \in 1 .. Len(tags') : tags'[i] \in KnownTags' /\ rtag'[tags'[i] + 1] = i - 1
    <3>1. TAKE i \in 1 .. Len(tags')
    <3>2. CASE i = n + 1
      BY <3>2, <1>2, <1>3, <1>6
    <3>3. CASE i \in 1..n
      <4>1. tags'[i] = tags[i] /\ tags[i] \in KnownTags /\ rtag[tags[i] + 1] = i - 1
        BY <3>3, <1>1, <1>2, <1>6 DEF LookupConsistent
      <4>2. tags[i] \in LiveTags
        BY <4>1, <3>3 DEF LiveTags
      <4> QED
        BY <4>1, <4>2, <1>3
    <3> QED
      BY <3>2, <3>3, <1>2, <1>6
  <2>2. \A tag \in LiveTags' : /\ rtag'[tag + 1] \in 0 .. Len(tags') - 1
                               /\ tags'[rtag'[tag + 1] + 1] = tag
    <3>1. TAKE tag \in LiveTags'
    <3>2. CASE tag = NewTag
      <4>1. rtag'[tag + 1] = n
        BY <3>2, <1>3
      <4> QED
        BY <4>1, <3>2, <1>2, <1>6
    <3>3. CASE tag \in LiveTags /\ tag # NewTag
      <4>1. rtag'[tag + 1] = rtag[tag + 1]
        BY <3>3, <1>3 DEF LiveTags
      <4>2. rtag[tag + 1] \in 0 .. n - 1 /\ tags[rtag[tag + 1] + 1] = tag
        BY <3>3, <1>8
      <4>3. PICK k \in 0 .. n - 1 : k = rtag[tag + 1]
        BY <4>2
      <4>4. k + 1 \in 1..n /\ k \in 0 .. (n + 1) - 1
        BY <1>2
      <4>5. tags'[k + 1] = tags[k + 1]
        BY <4>4, <1>6
      <4> QED
        BY <4>1, <4>2, <4>3, <4>4, <4>5, <1>6
    <3> QED
      BY <3>2, <3>3, <1>7
  <2> QED
    BY <2>1, <2>2 DEF LookupConsistent
<1>11. DeletedTagsAreFree'
  <2>1. \A tag \in KnownTags' : tag \in LiveTags' <=> tag = NewTag \/ tag \in LiveTags
    BY <1>7
  <2>2. \A tag \in KnownTags' :
            (\E i \in 1 .. Len(deleted') : deleted'[i] = tag)
                <=> tag # NewTag /\ \E i \in 1 .. Len(deleted) : deleted[i] = tag
    BY NewTagFree
  <2>3. \A i \in 1 .. Len(deleted) : deleted[i] \in KnownTags \ LiveTags
    BY <1>1 DEF DeletedTagsAreFree
  <2>4. \A tag \in KnownTags \ LiveTags : \E i \in 1 .. Len(deleted) : deleted[i] = tag
    BY <1>1 DEF DeletedTagsAreFree
  <2>5. \A i \in 1 .. Len(deleted') : deleted'[i] \in KnownTags
    BY NewTagFree
  <2>6. \A i \in 1 .. Len(deleted') : deleted'[i] \in KnownTags' \ LiveTags'
    BY <2>1, <2>2, <2>3, <2>5, <1>3
  <2>7. \A tag \in KnownTags' \ LiveTags' : \E i \in 1 .. Len(deleted') : deleted'[i] = tag
    BY <2>1, <2>2, <2>4, <1>3, <1>7
  <2>8. /\ \A i, j \in 1 .. Len(deleted') : deleted'[i] = deleted'[j] => i = j
        /\ Len(rtag') = Len(bonds') + Len(deleted')
    BY NewTagFree, <1>5
  <2> QED
    BY <2>6, <2>7, <2>8 DEF DeletedTagsAreFree
<1>12. SnapshotHasRoom' /\ SnapshotShape'
  <2>1. SnapshotHasRoom'
    BY <1>2, <1>5 DEF SnapshotHasRoom, AddBond
  <2>2. snapshot' = snapshot
    BY DEF AddBond
  <2> QED
    BY <1>1, <2>1, <2>2 DEF SnapshotShape, AcceptedUpTo
<1>13. \A tag \in LiveTags' : BondOf'[tag] = IF tag = NewTag THEN bond ELSE BondOf[tag]
  <2>1. TAKE tag \in LiveTags'
  <2>2. BondOf'[tag] = bonds'[rtag'[tag + 1] + 1]
    BY DEF BondOf
  <2>3. CASE tag = NewTag
    BY <2>2, <2>3, <1>2, <1>3, <1>5
  <2>4. CASE tag # NewTag /\ tag \in LiveTags
    <3>1. rtag'[tag + 1] = rtag[tag + 1] /\ rtag[tag + 1] \in 0 .. n - 1
      BY <2>4, <1>3, <1>8 DEF LiveTags
    <3>2. BondOf[tag] = bonds[rtag[tag + 1] + 1]
      BY <2>4 DEF BondOf
    <3> QED
      BY <2>2, <2>4, <3>1, <3>2, <1>2, <1>5
  <2> QED
    BY <2>3, <2>4, <1>7
<1> QED
  BY <1>7, <1>9, <1>10, <1>11, <1>12, <1>13 DEF Inv

LEMMA HoleFilled ==
  ASSUME NEW S, NEW list \in Seq(S), NEW position \in 1 .. Len(list)
  PROVE  /\ Without(list, position) \in Seq(S)
         /\ Len(Without(list, position)) = Len(list) - 1
         /\ \A i \in 1 .. Len(list) - 1 :
                Without(list, position)[i] = IF i = position THEN list[Len(list)] ELSE list[i]
<1>1. Len(list) \in Nat /\ Len(list) > 0 /\ list \in [1 .. Len(list) -> S]
  BY LenProperties
<1>2. Len(list) - 1 \in Nat /\ Len(list) \in 1 .. Len(list)
  BY <1>1
<1>3. Without(list, position) \in [1 .. Len(list) - 1 -> S]
  BY <1>1, <1>2 DEF Without
<1>4. \A i \in 1 .. Len(list) - 1 :
          Without(list, position)[i] = IF i = position THEN list[Len(list)] ELSE list[i]
  BY DEF Without
<1> QED
  BY <1>2, <1>3, <1>4, SequenceIsFunction

LEMMA RemovedLookup ==
  ASSUME Inv, NEW tag \in KnownTags, RemoveBond(tag)
  PROVE  LET n == Len(bonds)
             id == rtag[tag + 1]
             last == tags[n]
         IN  /\ id \in 0 .. n - 1 /\ n \in Nat /\ tag \in LiveTags
             /\ last \in LiveTags /\ rtag[last + 1] = n - 1
             /\ id < n - 1 => last # tag
             /\ id = n - 1 => last = tag
             /\ rtag' \in Seq(Nat \cup {NOT_LOCAL}) /\ Len(rtag') = Len(rtag)
             /\ KnownTags' = KnownTags
             /\ \A t \in KnownTags :
                    rtag'[t + 1] = IF t = tag THEN NOT_LOCAL
                                   ELSE IF t = last THEN id ELSE rtag[t + 1]
<1> DEFINE n == Len(bonds)
           id == rtag[tag + 1]
           last == tags[n]
           reset == [rtag EXCEPT ![tag + 1] = NOT_LOCAL]
<1> USE BondDataAssumption
<1>1. TypeOK /\ LookupConsistent
  BY DEF Inv
<1>2. /\ n \in Nat /\ Len(tags) = n /\ Len(rtag) \in Nat
      /\ rtag \in Seq(Nat \cup {NOT_LOCAL}) /\ tags \in Seq(Nat)
  BY <1>1, Shapes DEF TypeOK
<1>3. tag \in LiveTags /\ tag \in Nat
  BY <1>2 DEF RemoveBond, LiveTags, KnownTags
<1>4. id \in 0 .. n - 1 /\ tags[id + 1] = tag
  BY <1>1, <1>2, <1>3 DEF LookupConsistent
<1>5. n \in 1 .. n
  BY <1>2, <1>4
<1>6. last \in KnownTags /\ rtag[last + 1] = n - 1
  BY <1>1, <1>2, <1>5 DEF LookupConsistent
<1>7. last \in LiveTags
  BY <1>2, <1>6 DEF LiveTags
<1>8. id < n - 1 => last # tag
  BY <1>2, <1>4, <1>6
<1>9. id = n - 1 => last = tag
  BY <1>2, <1>4
<1>10. tag + 1 \in 1 .. Len(rtag) /\ last + 1 \in 1 .. Len(rtag)
  BY <1>2, <1>3, <1>6 DEF KnownTags
<1>11. /\ reset \in Seq(Nat \cup {NOT_LOCAL}) /\ Len(reset) = Len(rtag)
       /\ \A i \in 1 .. Len(rtag) : reset[i] = IF i = tag + 1 THEN NOT_LOCAL ELSE rtag[i]
  BY <1>2, <1>10, ExceptSeq
<1> HIDE DEF reset
<1>12. rtag' = IF id < n - 1 THEN [reset EXCEPT ![last + 1] = id] ELSE reset
  BY <1>2 DEF RemoveBond, Removed, reset
<1>13. /\ rtag' \in Seq(Nat \cup {NOT_LOCAL}) /\ Len(rtag') = Len(rtag)
       /\ \A i \in 1 .. Len(rtag) :
              rtag'[i] = IF i = tag + 1 THEN NOT_LOCAL
                         ELSE IF i = last + 1 THEN id ELSE rtag[i]
  <2>1. CASE id < n - 1
    <3>1. rtag' = [reset EXCEPT ![last + 1] = id]
      BY <2>1, <1>12
    <3>2. last + 1 \in 1 .. Len(reset) /\ id \in Nat \cup {NOT_LOCAL}
      BY <1>2, <1>4, <1>10, <1>11
    <3>3. /\ [reset EXCEPT ![last + 1] = id] \in Seq(Nat \cup {NOT_LOCAL})
          /\ Len([reset EXCEPT ![last + 1] = id]) = Len(reset)
          /\ \A i \in 1 .. Len(reset) :
                 [reset EXCEPT ![last + 1] = id][i] = IF i = last + 1 THEN id ELSE reset[i]
      BY <1>11, <3>2, ExceptSeq
    <3>4. last + 1 # tag + 1
      BY <1>8, <2>1, <1>3, <1>6, <1>2 DEF KnownTags
    <3> QED
      BY <3>1, <3>3, <3>4, <1>11
  <2>2. CASE id = n - 1
    <3>1. rtag' = reset
      BY <2>2, <1>2, <1>12
    <3> QED
      BY <3>1, <2>2, <1>9, <1>11
  <2> QED
    BY <2>1, <2>2, <1>2, <1>4
<1>14. KnownTags' = KnownTags
  BY <1>13 DEF KnownTags
<1>15. \A t \in KnownTags : t + 1 \in 1 .. Len(rtag) /\ (t + 1 = tag + 1 <=> t = tag)
                            /\ (t + 1 = last + 1 <=> t = last)
  BY <1>2, <1>3, <1>6 DEF KnownTags
<1>16. \A t \in KnownTags :
          rtag'[t + 1] = IF t = tag THEN NOT_LOCAL
                         ELSE IF t = last THEN id ELSE rtag[t + 1]
  BY <1>13, <1>15
<1> QED
  BY <1>2, <1>3, <1>4, <1>6, <1>7, <1>8, <1>9, <1>13, <1>14, <1>16

LEMMA RemoveBondKeeps ==
  ASSUME Inv, NEW tag \in KnownTags, RemoveBond(tag)
  PROVE  Inv' /\ tag \in LiveTags /\ LiveTags' = LiveTags \ {tag}
         /\ \A t \in LiveTags' : BondOf'[t] = BondOf[t]
<1> DEFINE n == Len(bonds)
           id == rtag[tag + 1]
           last == tags[n]
<1> USE BondDataAssumption
<1>1. TypeOK /\ LookupConsistent /\ DeletedTagsAreFree /\ SnapshotHasRoom /\ SnapshotShape
  BY DEF Inv
<1>2. /\ id \in 0 .. n - 1 /\ n \in Nat /\ tag \in LiveTags
      /\ last \in LiveTags /\ rtag[last + 1] = n - 1
      /\ id < n - 1 => last # tag
      /\ id = n - 1 => last = tag
      /\ rtag' \in Seq(Nat \cup {NOT_LOCAL}) /\ Len(rtag') = Len(rtag)
      /\ KnownTags' = KnownTags
      /\ \A t \in KnownTags :
             rtag'[t + 1] = IF t = tag THEN NOT_LOCAL
                            ELSE IF t = last THEN id ELSE rtag[t + 1]
  BY RemovedLookup
<1>3. /\ bonds \in Seq(ValidBonds) /\ tags \in Seq(Nat) /\ Len(tags) = n
      /\ num \in Nat /\ n <= num /\ Len(rtag) \in Nat /\ id + 1 \in 1..n
      /\ deleted \in Seq(Nat) /\ Len(deleted) \in Nat
  BY <1>1, <1>2, Shapes DEF TypeOK, SnapshotHasRoom
<1>4. /\ bonds' \in Seq(ValidBonds) /\ Len(bonds') = n - 1
      /\ \A i \in 1 .. n - 1 : bonds'[i] = IF i = id + 1 THEN bonds[n] ELSE bonds[i]
  BY <1>3, HoleFilled DEF RemoveBond
<1>5. /\ tags' \in Seq(Nat) /\ Len(tags') = n - 1
      /\ \A i \in 1 .. n - 1 : tags'[i] = IF i = id + 1 THEN last ELSE tags[i]
  <2>1. tags' = Without(tags, id + 1)
    BY DEF RemoveBond
  <2>2. id + 1 \in 1 .. Len(tags)
    BY <1>3
  <2>3. /\ Without(tags, id + 1) \in Seq(Nat)
        /\ Len(Without(tags, id + 1)) = Len(tags) - 1
        /\ \A i \in 1 .. Len(tags) - 1 :
               Without(tags, id + 1)[i] = IF i = id + 1 THEN tags[Len(tags)] ELSE tags[i]
    BY <1>3, <2>2, HoleFilled
  <2> QED
    BY <1>3, <2>1, <2>3
<1>6. /\ deleted' \in Seq(Nat) /\ Len(deleted') = Len(deleted) + 1
      /\ deleted'[1] = tag
      /\ \A i \in 2 .. Len(deleted) + 1 : deleted'[i] = deleted[i - 1]
  <2>1. <<tag>> \in Seq(Nat) /\ Len(<<tag>>) = 1 /\ <<tag>>[1] = tag
    BY DEF KnownTags
  <2>2. /\ deleted' \in Seq(Nat) /\ Len(deleted') = 1 + Len(deleted)
        /\ \A i \in 1 .. 1 + Len(deleted) :
               deleted'[i] = IF i <= 1 THEN <<tag>>[i] ELSE deleted[i - 1]
    BY <1>3, <2>1, ConcatProperties DEF RemoveBond
  <2>3. 1 \in 1 .. 1 + Len(deleted)
    BY <1>3
  <2>4. deleted'[1] = tag
    BY <2>1, <2>2, <2>3
  <2>5. \A i \in 2 .. Len(deleted) + 1 : i \in 1 .. 1 + Len(deleted) /\ ~ (i <= 1)
    BY <1>3
  <2>6. \A i \in 2 .. Len(deleted) + 1 : deleted'[i] = deleted[i - 1]
    BY <2>2, <2>5
  <2>7. Len(deleted') = Len(deleted) + 1
    BY <1>3, <2>2
  <2> QED
    BY <2>2, <2>4, <2>6, <2>7
<1>7. LiveTags' = LiveTags \ {tag}
  <2>1. \A t \in KnownTags : t # tag => (rtag'[t + 1] # NOT_LOCAL <=> rtag[t + 1] # NOT_LOCAL)
    BY <1>2 DEF LiveTags
  <2> QED
    BY <2>1, <1>2 DEF LiveTags
<1>8. \A t \in LiveTags : rtag[t + 1] \in 0 .. n - 1 /\ tags[rtag[t + 1] + 1] = t
  BY <1>1, <1>3 DEF LookupConsistent
<1>9. \A i \in 1..n : tags[i] \in KnownTags /\ rtag[tags[i] + 1] = i - 1
  BY <1>1, <1>3 DEF LookupConsistent
\* Where the bonds that stay are found.
<1>10. \A t \in LiveTags' : /\ t \in LiveTags /\ t \in KnownTags /\ t # tag
                            /\ rtag'[t + 1] = IF t = last THEN id ELSE rtag[t + 1]
                            /\ rtag'[t + 1] \in 0 .. n - 2
                            /\ t = last => id < n - 1
                            /\ t # last => rtag[t + 1] # id /\ rtag[t + 1] # n - 1
  <2>1. TAKE t \in LiveTags'
  <2>2. t \in LiveTags /\ t \in KnownTags /\ t # tag
    BY <1>7 DEF LiveTags
  <2>3. rtag'[t + 1] = IF t = last THEN id ELSE rtag[t + 1]
    BY <2>2, <1>2
  <2>4. rtag[t + 1] # id
    BY <2>2, <1>2, <1>8
  <2>5. t # last => rtag[t + 1] # n - 1
    BY <2>2, <1>2, <1>8
  <2>6. t = last => id < n - 1
    BY <2>2, <1>2
  <2>7. rtag[t + 1] \in 0 .. n - 1
    BY <2>2, <1>8
  <2> QED
    BY <2>2, <2>3, <2>4, <2>5, <2>6, <2>7, <1>2
<1>11. TypeOK'
  <2>1. num' \in 0..MaxCount /\ snapshot' = snapshot
    BY <1>1, <1>2, <1>3 DEF RemoveBond, TypeOK
  <2> QED
    BY <1>1, <1>2, <1>4, <1>5, <1>6, <2>1 DEF TypeOK, ValidBonds, Bond
<1>12. LookupConsistent'
  <2>1. \A i \in 1 .. Len(tags') : tags'[i] \in KnownTags' /\ rtag'[tags'[i] + 1] = i - 1
    <3>1. TAKE i \in 1 .. Len(tags')
    <3>2. i \in 1 .. n - 1 /\ i \in 1..n
      BY <1>2, <1>5
    <3>3. CASE i = id + 1
      <4>1. id < n - 1
        BY <3>2, <3>3, <1>2
      <4>2. last # tag /\ last \in KnownTags
        BY <4>1, <1>2 DEF LiveTags
      <4>3. tags'[i] = last
        BY <3>2, <3>3, <1>5
      <4>4. rtag'[last + 1] = id /\ id = i - 1
        BY <4>2, <3>3, <1>2
      <4> QED
        BY <4>2, <4>3, <4>4, <1>2
    <3>4. CASE i # id + 1
      <4>1. tags'[i] = tags[i] /\ tags[i] \in KnownTags /\ rtag[tags[i] + 1] = i - 1
        BY <3>2, <3>4, <1>5, <1>9
      <4>2. tags[i] # tag /\ tags[i] # last
        BY <3>2, <3>4, <4>1, <1>2
      <4> QED
        BY <4>1, <4>2, <1>2
    <3> QED
      BY <3>3, <3>4
  <2>2. \A t \in LiveTags' : /\ rtag'[t + 1] \in 0 .. Len(tags') - 1
                             /\ tags'[rtag'[t + 1] + 1] = t
    <3>1. TAKE t \in LiveTags'
    <3>2. PICK k \in 0 .. n - 2 : k = rtag'[t + 1]
      BY <1>10
    <3>3. k \in 0 .. Len(tags') - 1 /\ k + 1 \in 1 .. n - 1
      BY <1>2, <1>5
    <3>4. tags'[k + 1] = t
      <4>1. CASE t = last
        BY <4>1, <3>2, <3>3, <1>5, <1>10
      <4>2. CASE t # last
        <5>1. k = rtag[t + 1] /\ k # id
          BY <4>2, <3>2, <1>10
        <5>2. tags[k + 1] = t
          BY <5>1, <1>8, <1>10
        <5>3. k + 1 # id + 1
          BY <5>1, <1>2
        <5> QED
          BY <5>2, <5>3, <3>3, <1>5
      <4> QED
        BY <4>1, <4>2
    <3> QED
      BY <3>2, <3>3, <3>4
  <2> QED
    BY <2>1, <2>2 DEF LookupConsistent
<1>13. DeletedTagsAreFree'
  <2>1. \A i \in 1 .. Len(deleted) : deleted[i] \in KnownTags \ LiveTags
    BY <1>1 DEF DeletedTagsAreFree
  <2>2. \A i \in 1 .. Len(deleted') : i = 1 \/ (i \in 2 .. Len(deleted) + 1
                                               /\ i - 1 \in 1 .. Len(deleted))
    BY <1>3, <1>6
  <2>3. \A i \in 1 .. Len(deleted') : deleted'[i] \in KnownTags' \ LiveTags'
    <3>1. TAKE i \in 1 .. Len(deleted')
    <3>2. CASE i = 1
      BY <3>2, <1>2, <1>6, <1>7
    <3>3. CASE i \in 2 .. Len(deleted) + 1
      <4>1. deleted'[i] = deleted[i - 1]
        BY <3>3, <1>6
      <4>2. i - 1 \in 1 .. Len(deleted)
        BY <3>3, <1>3
      <4>3. deleted[i - 1] \in KnownTags \ LiveTags
        BY <4>2, <2>1
      <4> QED
        BY <4>1, <4>3, <1>2, <1>7
    <3> QED
      BY <3>2, <3>3, <2>2
  <2>4. \A t \in KnownTags' \ LiveTags' : \E i \in 1 .. Len(deleted') : deleted'[i] = t
    <3>1. TAKE t \in KnownTags' \ LiveTags'
    <3>2. CASE t = tag
      <4>1. 1 \in 1 .. Len(deleted')
        BY <1>3, <1>6
      <4> QED
        BY <4>1, <3>2, <1>6
    <3>3. CASE t \in KnownTags \ LiveTags
      <4>1. PICK i \in 1 .. Len(deleted) : deleted[i] = t
        BY <3>3, <1>1 DEF DeletedTagsAreFree
      <4>2. i + 1 \in 2 .. Len(deleted) + 1 /\ i + 1 \in 1 .. Len(deleted') /\ (i + 1) - 1 = i
        BY <1>3, <1>6
      <4> QED
        BY <4>1, <4>2, <1>6
    <3> QED
      BY <3>2, <3>3, <1>2, <1>7
  <2>5. \A i, j \in 1 .. Len(deleted') : deleted'[i] = deleted'[j] => i = j
    <3>1. TAKE i, j \in 1 .. Len(deleted')
    <3>2. \A k \in 2 .. Len(deleted) + 1 : k - 1 \in 1 .. Len(deleted) /\ deleted'[k] # tag
      <4>1. TAKE k \in 2 .. Len(deleted) + 1
      <4>2. k - 1 \in 1 .. Len(deleted) /\ deleted'[k] = deleted[k - 1]
        BY <1>3, <1>6
      <4>3. deleted[k - 1] \notin LiveTags
        BY <4>2, <2>1
      <4> QED
        BY <4>2, <4>3, <1>2
    <3>3. CASE i = 1 \/ j = 1
      BY <3>2, <3>3, <2>2, <1>6
    <3>4. CASE i \in 2 .. Len(deleted) + 1 /\ j \in 2 .. Len(deleted) + 1
      <4>1. deleted'[i] = deleted[i - 1] /\ deleted'[j] = deleted[j - 1]
        BY <3>4, <1>6
      <4>2. deleted[i - 1] = deleted[j - 1] => i - 1 = j - 1
        BY <3>2, <3>4, <1>1 DEF DeletedTagsAreFree
      <4> QED
        BY <4>1, <4>2, <3>4, <1>3
    <3> QED
      BY <3>3, <3>4, <2>2
  <2>6. Len(rtag') = Len(bonds') + Len(deleted')
    BY <1>1, <1>2, <1>3, <1>4, <1>6 DEF DeletedTagsAreFree
  <2> QED
    BY <2>3, <2>4, <2>5, <2>6 DEF DeletedTagsAreFree
<1>14. SnapshotHasRoom' /\ SnapshotShape'
  <2>1. SnapshotHasRoom'
    BY <1>2, <1>3, <1>4 DEF SnapshotHasRoom, RemoveBond
  <2>2. snapshot' = snapshot
    BY DEF RemoveBond
  <2> QED
    BY <1>1, <2>1, <2>2 DEF SnapshotShape, AcceptedUpTo
<1>15. \A t \in LiveTags' : BondOf'[t] = BondOf[t]
  <2>1. TAKE t \in LiveTags'
  <2>2. BondOf'[t] = bonds'[rtag'[t + 1] + 1] /\ BondOf[t] = bonds[rtag[t + 1] + 1]
    BY <1>10 DEF BondOf
  <2>3. PICK k \in 0 .. n - 2 : k = rtag'[t + 1]
    BY <1>10
  <2>4. k + 1 \in 1 .. n - 1
    BY <1>2
  <2>5. CASE t = last
    <3>1. k = id /\ rtag[t + 1] + 1 = n
      BY <2>3, <2>5, <1>2, <1>10
    <3> QED
      BY <2>2, <2>3, <2>4, <3>1, <1>4
  <2>6. CASE t # last
    <3>1. k = rtag[t + 1] /\ k # id
      BY <2>3, <2>6, <1>10
    <3>2. k + 1 # id + 1
      BY <3>1, <1>2
    <3>3. bonds'[k + 1] = bonds[k + 1]
      BY <2>4, <3>2, <1>4
    <3> QED
      BY <2>2, <2>3, <3>1, <3>3
  <2> QED
    BY <2>5, <2>6
<1> QED
  BY <1>2, <1>7, <1>11, <1>12, <1>13, <1>14, <1>15 DEF Inv

LEMMA TakeSnapshotKeeps ==
  ASSUME Inv, TakeSnapshot
  PROVE  Inv' /\ LiveTags' = LiveTags /\ BondOf' = BondOf
         /\ Start(snapshot)' = [i \in 1 .. Len(bonds) |-> bonds[i]]
<1> DEFINE n == Len(bonds)
<1> USE BondDataAssumption
<1>1. TypeOK /\ LookupConsistent /\ DeletedTagsAreFree /\ SnapshotHasRoom
  BY DEF Inv
<1>2. /\ n \in Nat /\ num \in Nat /\ n <= num /\ bonds \in [1..n -> ValidBonds]
      /\ DOMAIN bonds = 1..n /\ Len(rtag) \in Nat /\ Len(deleted) \in Nat
  BY <1>1, Shapes DEF SnapshotHasRoom
<1>3. n \in 0..MaxBonds
  BY <1>1, <1>2 DEF TypeOK, DeletedTagsAreFree
<1>4. /\ snapshot' \in [1..num -> Bond]
      /\ \A i \in 1..n : snapshot'[i] = bonds[i]
      /\ \A i \in 1..num : i > n => snapshot'[i] = NoBond
  <2>1. \A i \in 1..num : (i \in DOMAIN bonds <=> ~ (i > n))
    BY <1>2
  <2>2. \A i \in 1..n : i \in 1..num /\ bonds[i] \in Bond
    BY <1>2, ValidIsAccepted
  <2>3. \A i \in 1..num : ~ (i > n) => i \in 1..n
    BY <1>2
  <2>4. snapshot' = [i \in 1..num |-> IF i \in DOMAIN bonds THEN bonds[i] ELSE NoBond]
    BY DEF TakeSnapshot
  <2> QED
    BY <2>1, <2>2, <2>3, <2>4, <1>2, NoBondRefused
<1>5. snapshot' \in Seq(Bond) /\ Len(snapshot') = num
  BY <1>2, <1>4, SequenceIsFunction
<1>6. AcceptedUpTo(snapshot', n)
  <2>1. \A i \in 1..n : Accepted(snapshot'[i])
    BY <1>2, <1>4, ValidIsAccepted
  <2>2. n < num => n + 1 \in 1..num /\ n + 1 > n
    BY <1>2
  <2> QED
    BY <2>1, <2>2, <1>4, <1>5, NoBondRefused DEF AcceptedUpTo
<1>7. AcceptedLength(snapshot') = n
  BY <1>2, <1>5, <1>6, AcceptedLengthUnique
<1>8. Start(snapshot)' = [i \in 1..n |-> bonds[i]]
  <2>1. Start(snapshot)' = [i \in 1..n |-> snapshot'[i]]
    BY <1>7 DEF Start
  <2> QED
    BY <2>1, <1>4
<1>9. UNCHANGED <<bonds, tags, rtag, deleted, num>>
  BY DEF TakeSnapshot
<1>10. TypeOK' /\ LookupConsistent' /\ DeletedTagsAreFree' /\ SnapshotHasRoom'
  <2>1. TypeOK'
    BY <1>1, <1>5, <1>9 DEF TypeOK, ValidBonds, Bond
  <2>2. LookupConsistent' /\ DeletedTagsAreFree' /\ SnapshotHasRoom'
    BY <1>1, <1>9 DEF LookupConsistent, DeletedTagsAreFree, SnapshotHasRoom, LiveTags, KnownTags
  <2> QED
    BY <2>1, <2>2
<1>11. SnapshotShape'
  BY <1>2, <1>3, <1>5, <1>6 DEF SnapshotShape, AcceptedUpTo
<1>12. LiveTags' = LiveTags /\ BondOf' = BondOf
  BY <1>9 DEF BondOf, LiveTags, KnownTags
<1> QED
  BY <1>8, <1>10, <1>11, <1>12 DEF Inv

LEMMA InitializeKeeps ==
  ASSUME Inv, InitializeFromSnapshot
  PROVE  Inv' /\ LiveTags' = 0 .. Len(Start(snapshot)) - 1
         /\ snapshot' = snapshot
         /\ \A tag \in LiveTags' : BondOf'[tag] = Start(snapshot)[tag + 1]
<1> DEFINE n == AcceptedLength(snapshot)
           numbers == [i \in 1..n |-> i - 1]
<1> USE BondDataAssumption
<1>1. TypeOK /\ SnapshotHasRoom /\ SnapshotShape
  BY DEF Inv
<1>2. /\ n \in 0..MaxBonds /\ n <= Len(snapshot)
      /\ Start(snapshot) \in Seq(ValidBonds) /\ Len(Start(snapshot)) = n
  BY <1>1, WholeSnapshot
<1>3. n \in Nat /\ Len(snapshot) \in Nat /\ num \in Nat
  BY <1>1, <1>2, Shapes
<1>4. /\ bonds' = Start(snapshot) /\ tags' = numbers /\ rtag' = numbers
      /\ deleted' = <<>> /\ num' = num + n /\ num + n <= MaxCount /\ snapshot' = snapshot
  BY DEF InitializeFromSnapshot
<1> HIDE DEF n
<1>5. /\ numbers \in [1..n -> Nat] /\ \A i \in 1..n : numbers[i] = i - 1
  BY <1>3
<1>6. numbers \in Seq(Nat) /\ Len(numbers) = n
  BY <1>3, <1>5, SequenceIsFunction
<1>7. numbers \in Seq(Nat \cup {NOT_LOCAL})
  <2>1. numbers \in [1..n -> Nat \cup {NOT_LOCAL}]
    BY <1>5
  <2> QED
    BY <1>3, <2>1, SequenceIsFunction
<1> HIDE DEF numbers
<1>8. KnownTags' = 0 .. n - 1
  BY <1>4, <1>6 DEF KnownTags
<1>9. \A tag \in 0 .. n - 1 : tag + 1 \in 1..n /\ rtag'[tag + 1] = tag /\ tags'[tag + 1] = tag
  BY <1>3, <1>4, <1>5
<1>10. LiveTags' = 0 .. n - 1
  BY <1>8, <1>9 DEF LiveTags
<1>11. TypeOK'
  <2>1. /\ bonds' \in Seq(ValidBonds) /\ tags' \in Seq(Nat) /\ Len(tags') = Len(bonds')
        /\ rtag' \in Seq(Nat \cup {NOT_LOCAL}) /\ Len(rtag') <= MaxBonds
        /\ num' \in 0..MaxCount /\ snapshot' \in Seq(Bond)
    BY <1>1, <1>2, <1>3, <1>4, <1>6, <1>7 DEF TypeOK
  <2>2. deleted' \in Seq(Nat)
    BY <1>4, EmptySeq
  <2> QED
    BY <2>1, <2>2 DEF TypeOK, ValidBonds, Bond
<1>12. LookupConsistent'
  <2>1. \A i \in 1 .. Len(tags') : tags'[i] \in KnownTags' /\ rtag'[tags'[i] + 1] = i - 1
    <3>1. TAKE i \in 1 .. Len(tags')
    <3>2. i \in 1..n /\ i - 1 \in 0 .. n - 1
      BY <1>3, <1>4, <1>6
    <3>3. tags'[i] = i - 1
      BY <3>2, <1>4, <1>5
    <3> QED
      BY <3>2, <3>3, <1>8, <1>9
  <2>2. \A tag \in LiveTags' : /\ rtag'[tag + 1] \in 0 .. Len(tags') - 1
                               /\ tags'[rtag'[tag + 1] + 1] = tag
    BY <1>4, <1>6, <1>9, <1>10
  <2> QED
    BY <2>1, <2>2 DEF LookupConsistent
<1>13. DeletedTagsAreFree'
  <2>1. Len(deleted') = 0 /\ 1 .. Len(deleted') = {}
    BY <1>4
  <2>2. KnownTags' \ LiveTags' = {}
    BY <1>8, <1>10
  <2>3. Len(rtag') = Len(bonds') + Len(deleted')
    BY <1>2, <1>3, <1>4, <1>6, <2>1
  <2> QED
    BY <2>1, <2>2, <2>3 DEF DeletedTagsAreFree
<1>14. SnapshotHasRoom'
  BY <1>2, <1>3, <1>4 DEF SnapshotHasRoom
<1>15. SnapshotShape'
  BY <1>1, <1>4 DEF SnapshotShape, AcceptedUpTo
<1>16. \A tag \in LiveTags' : BondOf'[tag] = Start(snapshot)[tag + 1]
  BY <1>4, <1>9, <1>10 DEF BondOf
<1> QED
  BY <1>2, <1>4, <1>10, <1>11, <1>12, <1>13, <1>14, <1>15, <1>16 DEF Inv

-----------------------------------------------------------------------------
LEMMA InitInv == Init => Inv
<1> SUFFICES ASSUME Init PROVE Inv
  OBVIOUS
<1> USE BondDataAssumption DEF Init
<1>1. Len(<<>>) = 0 /\ 1..0 = {}
  OBVIOUS
<1>2. TypeOK
  BY <1>1, EmptySeq DEF TypeOK
<1>3. KnownTags = {} /\ LiveTags = {}
  BY <1>1 DEF KnownTags, LiveTags
<1>4. LookupConsistent /\ DeletedTagsAreFree /\ SnapshotHasRoom
  BY <1>1, <1>3 DEF LookupConsistent, DeletedTagsAreFree, SnapshotHasRoom
<1>5. AcceptedUpTo(snapshot, 0) /\ 0 \in 0..MaxBonds /\ 0 <= Len(snapshot)
  BY <1>1 DEF AcceptedUpTo
<1> QED
  BY <1>2, <1>4, <1>5 DEF Inv, SnapshotShape

LEMMA StutterKeeps == Inv /\ UNCHANGED vars => Inv' /\ BondOf' = BondOf
                                               /\ Start(snapshot)' = Start(snapshot)
<1> SUFFICES ASSUME Inv, UNCHANGED vars
             PROVE  Inv' /\ BondOf' = BondOf /\ Start(snapshot)' = Start(snapshot)
  OBVIOUS
<1> USE DEF vars
<1>1. TypeOK' /\ LookupConsistent' /\ DeletedTagsAreFree' /\ SnapshotHasRoom'
  BY DEF Inv, TypeOK, LookupConsistent, DeletedTagsAreFree, SnapshotHasRoom,
         LiveTags, KnownTags, ValidBonds, Bond
<1>2. SnapshotShape'
  BY DEF Inv, SnapshotShape, AcceptedUpTo
<1>3. BondOf' = BondOf /\ Start(snapshot)' = Start(snapshot)
  BY DEF BondOf, LiveTags, KnownTags, Start, AcceptedLength, AcceptedUpTo
<1> QED
  BY <1>1, <1>2, <1>3 DEF Inv

\* The arrays, the lookup and the stack of BondData are consistent in every
\* reachable state.
THEOREM Invariance == Spec => []Inv
<1>1. Init => Inv
  BY InitInv
<1>2. Inv /\ [Next]_vars => Inv'
  <2> SUFFICES ASSUME Inv, [Next]_vars PROVE Inv'
    OBVIOUS
  <2>1. ASSUME NEW bond \in Bond, AddBond(bond) PROVE Inv'
    BY <2>1, AddBondKeeps
  <2>2. ASSUME NEW tag \in 0 .. Len(rtag) - 1, RemoveBond(tag) PROVE Inv'
    BY <2>2, RemoveBondKeeps DEF KnownTags
  <2>3. CASE TakeSnapshot
    BY <2>3, TakeSnapshotKeeps
  <2>4. CASE InitializeFromSnapshot
    BY <2>4, InitializeKeeps
  <2>5. CASE UNCHANGED vars
    BY <2>5, StutterKeeps
  <2> QED
    BY <2>1, <2>2, <2>3, <2>4, <2>5 DEF Next
<1> QED
  BY <1>1, <1>2, PTL DEF Spec

\* Type correctness of the members of BondData.
THEOREM TypeCorrect == Spec => []TypeOK
<1>1. Inv => TypeOK
  BY DEF Inv
<1> QED
  BY <1>1, Invariance, PTL

\* The lookup and the array of tags are inverse to each other, for any number
\* of bonds.
THEOREM LookupAlwaysConsistent == Spec => []LookupConsistent
<1>1. Inv => LookupConsistent
  BY DEF Inv
<1> QED
  BY <1>1, Invariance, PTL

\* The stack of deleted tags holds exactly the free ones, each once.
THEOREM DeletedTagsAlwaysFree == Spec => []DeletedTagsAreFree
<1>1. Inv => DeletedTagsAreFree
  BY DEF Inv
<1> QED
  BY <1>1, Invariance, PTL

\* takeSnapshot() never writes beyond the arrays of the snapshot.
THEOREM SnapshotAlwaysHasRoom == Spec => []SnapshotHasRoom
<1>1. Inv => SnapshotHasRoom
  BY DEF Inv
<1> QED
  BY <1>1, Invariance, PTL

-----------------------------------------------------------------------------
(* BondData implements BondMap: each operation is the one of the same name. *)

LEMMA InitIsMapInit == Init => Map!Init
<1> SUFFICES ASSUME Init PROVE Map!Init
  OBVIOUS
<1>1. Inv /\ LiveTags = {}
  BY InitInv DEF Init, LiveTags, KnownTags
<1>2. BondOf = [tag \in {} |-> 0]
  BY <1>1 DEF BondOf
<1>3. Len(Start(snapshot)) = 0 /\ Start(snapshot) \in Seq(ValidBonds)
  <2>1. AcceptedLength(snapshot) \in 0 .. Len(snapshot) /\ Len(snapshot) = 0
    BY <1>1, WholeSnapshot DEF Inv, Init
  <2> QED
    BY <1>1, <2>1, WholeSnapshot DEF Inv
<1>4. Start(snapshot) = <<>>
  BY <1>3, EmptySeq
<1> QED
  BY <1>2, <1>4 DEF Map!Init

LEMMA AddBondIsAdd ==
  ASSUME Inv, NEW bond \in Bond, AddBond(bond)
  PROVE  Map!Add
<1>1. /\ LiveTags' = LiveTags \cup {NewTag}
      /\ \A tag \in LiveTags' : BondOf'[tag] = IF tag = NewTag THEN bond ELSE BondOf[tag]
  BY AddBondKeeps
<1>2. NewTag \in (0 .. MaxBonds - 1) \ LiveTags /\ bond \in ValidBonds
  BY NewTagFree, AcceptedIsValid DEF AddBond
<1>3. DOMAIN BondOf = LiveTags
  BY DEF BondOf
<1>4. BondOf' = [t \in LiveTags \cup {NewTag} |-> IF t = NewTag THEN bond ELSE BondOf[t]]
  <2>1. BondOf' = [t \in LiveTags' |-> BondOf'[t]]
    BY DEF BondOf
  <2> QED
    BY <2>1, <1>1
<1>5. Start(snapshot)' = Start(snapshot)
  BY DEF AddBond, Start, AcceptedLength, AcceptedUpTo
<1> QED
  BY <1>2, <1>3, <1>4, <1>5 DEF Map!Add, Map!InUse

LEMMA RemoveBondIsRemove ==
  ASSUME Inv, NEW tag \in KnownTags, RemoveBond(tag)
  PROVE  Map!Remove
<1>1. /\ tag \in LiveTags /\ LiveTags' = LiveTags \ {tag}
      /\ \A t \in LiveTags' : BondOf'[t] = BondOf[t]
  BY RemoveBondKeeps
<1>2. DOMAIN BondOf = LiveTags
  BY DEF BondOf
<1>3. BondOf' = [t \in LiveTags \ {tag} |-> BondOf[t]]
  <2>1. BondOf' = [t \in LiveTags' |-> BondOf'[t]]
    BY DEF BondOf
  <2> QED
    BY <2>1, <1>1
<1>4. Start(snapshot)' = Start(snapshot)
  BY DEF RemoveBond, Start, AcceptedLength, AcceptedUpTo
<1> QED
  BY <1>1, <1>2, <1>3, <1>4 DEF Map!Remove, Map!InUse

LEMMA TakeSnapshotIsSave ==
  ASSUME Inv, TakeSnapshot
  PROVE  Map!Save
<1> DEFINE n == Len(bonds)
<1> USE BondDataAssumption
<1>1. TypeOK /\ LookupConsistent /\ DeletedTagsAreFree
  BY DEF Inv
<1>2. /\ n \in 0..MaxBonds /\ Len(tags) = n /\ tags \in [1..n -> Nat] /\ DOMAIN tags = 1..n
      /\ n \in Nat
  BY <1>1, Shapes DEF TypeOK, DeletedTagsAreFree
<1>3. DOMAIN BondOf = LiveTags
  BY DEF BondOf
<1>4. \A i \in 1..n : tags[i] \in LiveTags /\ rtag[tags[i] + 1] = i - 1
  BY <1>1, <1>2 DEF LookupConsistent, LiveTags
<1>5. tags \in Map!Listings(LiveTags)
  <2>1. tags \in [1..n -> LiveTags]
    BY <1>2, <1>4
  <2>2. \A tag \in LiveTags : \E i \in 1..n : tags[i] = tag
    <3>1. TAKE tag \in LiveTags
    <3>2. rtag[tag + 1] \in 0 .. n - 1 /\ tags[rtag[tag + 1] + 1] = tag
      BY <1>1, <1>2 DEF LookupConsistent
    <3>3. rtag[tag + 1] + 1 \in 1..n
      BY <3>2, <1>2
    <3> QED
      BY <3>2, <3>3
  <2>3. \A i, j \in 1..n : tags[i] = tags[j] => i = j
    BY <1>4
  <2> QED
    BY <2>1, <2>2, <2>3, <1>2 DEF Map!Listings
<1>6. \A i \in 1..n : BondOf[tags[i]] = bonds[i]
  BY <1>4 DEF BondOf
<1>7. Start(snapshot)' = [i \in 1..n |-> bonds[i]] /\ BondOf' = BondOf
  BY TakeSnapshotKeeps
<1>8. Start(snapshot)' = [i \in DOMAIN tags |-> BondOf[tags[i]]]
  BY <1>2, <1>6, <1>7
<1> QED
  BY <1>3, <1>5, <1>7, <1>8 DEF Map!Save, Map!InUse

LEMMA InitializeIsRestore ==
  ASSUME Inv, InitializeFromSnapshot
  PROVE  Map!Restore
<1>1. /\ LiveTags' = 0 .. Len(Start(snapshot)) - 1 /\ snapshot' = snapshot
      /\ \A tag \in LiveTags' : BondOf'[tag] = Start(snapshot)[tag + 1]
  BY InitializeKeeps
<1>2. BondOf' = [tag \in 0 .. Len(Start(snapshot)) - 1 |-> Start(snapshot)[tag + 1]]
  <2>1. BondOf' = [tag \in LiveTags' |-> BondOf'[tag]]
    BY DEF BondOf
  <2> QED
    BY <2>1, <1>1
<1>3. Start(snapshot)' = Start(snapshot)
  BY <1>1 DEF Start, AcceptedLength, AcceptedUpTo
<1> QED
  BY <1>2, <1>3 DEF Map!Restore

\* Scripts see a map from stable tags to bonds, for any number of bonds.
THEOREM MapRefinement == Spec => ImplementsMap
<1>1. Init => Map!Init
  BY InitIsMapInit
<1>2. Inv /\ [Next]_vars => [Map!Next]_(Map!vars)
  <2> SUFFICES ASSUME Inv, [Next]_vars PROVE [Map!Next]_(Map!vars)
    OBVIOUS
  <2>1. ASSUME NEW bond \in Bond, AddBond(bond) PROVE Map!Next
    BY <2>1, AddBondIsAdd DEF Map!Next
  <2>2. ASSUME NEW tag \in 0 .. Len(rtag) - 1, RemoveBond(tag) PROVE Map!Next
    BY <2>2, RemoveBondIsRemove DEF KnownTags, Map!Next
  <2>3. CASE TakeSnapshot
    BY <2>3, TakeSnapshotIsSave DEF Map!Next
  <2>4. CASE InitializeFromSnapshot
    BY <2>4, InitializeIsRestore DEF Map!Next
  <2>5. CASE UNCHANGED vars
    BY <2>5, StutterKeeps DEF Map!vars
  <2> QED
    BY <2>1, <2>2, <2>3, <2>4, <2>5 DEF Next
<1> QED
  BY <1>1, <1>2, Invariance, PTL DEF Spec, ImplementsMap, Map!Spec
=============================================================================
