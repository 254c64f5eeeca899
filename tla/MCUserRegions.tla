--------------------------- MODULE MCUserRegions ---------------------------
(* TLC instances of UserRegions; node addresses are interchangeable.        *)
EXTENDS UserRegions, TLC

Symmetry == Permutations(Regions)
=============================================================================
