------------------------- MODULE MCInventoryCounts -------------------------
(* One location with two variants and two counts. *)
EXTENDS InventoryCounts, TLC

CONSTANTS shop, north

MCBranchOf == [l \in Location |-> north]
Symmetry == Permutations(MovementId) \cup Permutations(CountId)
              \cup Permutations(Variant)
=============================================================================
