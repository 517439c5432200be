-------------------------------- MODULE Tier --------------------------------
(***************************************************************************)
(* The access tiers of src/domain/tier.rs: a closed enumeration whose      *)
(* total order is given by rank(), and the one permission rule of the      *)
(* system, can_access().                                                   *)
(***************************************************************************)
EXTENDS Integers

Tiers == {"Silver", "Gold", "Diamond", "Platinum"}

Rank == [Silver |-> 1, Gold |-> 2, Diamond |-> 3, Platinum |-> 4]

CanAccess(passengerTier, minTier) == Rank[passengerTier] >= Rank[minTier]
=============================================================================
