----------------------------- MODULE MCUndoStack -----------------------------
(* Two bytes of data. *)
EXTENDS UndoStack

MCOriginal == <<1, 0>>
MCTexts == {<<0>>, <<1>>, <<0, 1>>}
\* Nothing is typed, pasted or imported.
MCNoTexts == {}
=============================================================================
