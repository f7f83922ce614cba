------------------------------ MODULE MCCatalog ------------------------------
(* Catalog on small instances: intervals are one below the smallest allowed *)
(* and the smallest allowed, which is not the default of a new source.      *)
EXTENDS Catalog

MCIntervals == {-2, -1}

===============================================================================
