--------------------- MODULE MCInventoryReconciliation ---------------------
(* Scans differ in nothing but their names, nor do repairs. *)
EXTENDS InventoryReconciliation, TLC

(* Short of a unit, and with one too many of each. *)
DamagedRows == {<<0, 0>>, <<2, 1>>}

Interchangeable == Permutations(Scan) \cup Permutations(Repair)
=============================================================================
