-------------------------- MODULE MCProjectAutosave --------------------------
(* Two providers: one is in the project from the start, one comes later. *)
EXTENDS ProjectAutosave
=============================================================================
