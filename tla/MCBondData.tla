----------------------------- MODULE MCBondData -----------------------------
(***************************************************************************)
(* Two particles with one bond type: the bond in either direction is valid,*)
(* and NGlobal and NTypes themselves stand for what is out of bounds.      *)
(***************************************************************************)
EXTENDS BondData
=============================================================================
