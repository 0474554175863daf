------------------------- MODULE MCProviderRegistry -------------------------
(* A registry of a few interchangeable providers. *)
EXTENDS ProviderRegistry, TLC

Symmetry == Permutations(Providers)
=============================================================================
