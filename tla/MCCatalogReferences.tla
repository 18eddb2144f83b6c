------------------------ MODULE MCCatalogReferences ------------------------
(* CatalogReferences for TLC: categories are interchangeable.              *)
EXTENDS CatalogReferences, TLC

Interchangeable == Permutations(Category)
=============================================================================
