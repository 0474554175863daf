------------------------- MODULE MCFileBackedData -------------------------
(* Small instances of FileBackedData: one value besides the default, a file  *)
(* that is empty (and cannot be decoded), and the encodings of both values.  *)
EXTENDS FileBackedData, TLC

CONSTANTS v0, v1, b0, b1, empty

MCValues   == {v0, v1}
MCContents == {b0, b1, empty}
MCEncode   == [v \in MCValues |-> IF v = v0 THEN b0 ELSE b1]
MCDecode   == [c \in MCContents |->
                 IF c = b0 THEN v0 ELSE IF c = b1 THEN v1 ELSE NoValue]

Symmetry == Permutations(Providers) \union Permutations(Paths)
=============================================================================
