---------------------------- MODULE MCDurableStore ----------------------------
(* DurableStore for one peer: two record values, so that a later write can be *)
(* told from an earlier one, and two epochs, so that a floor can be offered a *)
(* lower value.                                                               *)
EXTENDS DurableStore

BothDamages == {"ABSENT", "CORRUPT"}
NoDamage == {}
=============================================================================
