----------------------------- MODULE PickedLists -----------------------------
(***************************************************************************)
(* The part of a list that a stable partition, a removal by a mask or a    *)
(* test per element leaves: the elements at a set of its positions, in the *)
(* order they had.  With a key for each position, the same in the order of *)
(* the keys, those of one key in the order they had.                       *)
(***************************************************************************)
EXTENDS Integers, Sequences, FiniteSets

\* The k-th of a set of positions.
Nth(S, k) == CHOOSE i \in S : Cardinality({ j \in S : j <= i }) = k

Picked(list, S) == [k \in 1 .. Cardinality(S) |-> list[Nth(S, k)]]

NotAfter(S, key, i) == { j \in S : key[j] < key[i] \/ (key[j] = key[i] /\ j <= i) }
NthBy(S, key, k) == CHOOSE i \in S : Cardinality(NotAfter(S, key, i)) = k

PickedBy(list, S, key) == [k \in 1 .. Cardinality(S) |-> list[NthBy(S, key, k)]]
=============================================================================
