------------------------------ MODULE MCCatalog ------------------------------
(* Instances of Catalog for TLC. *)
EXTENDS Catalog, TLC

CONSTANTS c1, c2, k1, k2, t1, t2, f1, f2, f3, f4

CatalogSymmetry ==
  Permutations(Calls) \cup Permutations(Keys) \cup Permutations(Titles) \cup Permutations(Files)

=============================================================================
