------------------------- MODULE MCProjectPromotion -------------------------
(* Files are interchangeable, and so are data. *)
EXTENDS ProjectPromotion, TLC

Symmetry == Permutations(Files) \union Permutations(Data)
=============================================================================
