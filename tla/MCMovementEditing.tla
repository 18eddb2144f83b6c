------------------------- MODULE MCMovementEditing -------------------------
(* One shop, two callers. *)
EXTENDS MovementEditing, TLC

CONSTANTS shop, north

MCBranchOf == [l \in Location |-> north]
Symmetry == Permutations(MovementId) \cup Permutations(Caller)
=============================================================================
