------------------------- MODULE MCCatalogVariants -------------------------
(* CatalogVariants for TLC: every value is a colour.                       *)
EXTENDS CatalogVariants, TLC

CONSTANT colour

Defined == [w \in Value |-> colour]

Interchangeable == Permutations(Variant)
=============================================================================
