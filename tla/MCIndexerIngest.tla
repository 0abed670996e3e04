-------------------------- MODULE MCIndexerIngest --------------------------
(***************************************************************************)
(* Instances of the ingestion pipeline, all about one pool.                *)
(* CreateMintTouch: its creation, a CL mint and a swap.  TwiceCreated: the *)
(* router and the factory both emit a creation event before the mint.      *)
(***************************************************************************)
EXTENDS IndexerIngest, TLC

CONSTANTS p1

OnePool == {p1}
SamePool == <<p1, p1, p1>>
CreateMintTouch == <<"create", "mint", "touch">>
TwiceCreated == <<"create", "create", "mint">>

SlotSymmetry == Permutations(Slot)
=============================================================================
