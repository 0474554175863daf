---------------------------- MODULE MCTaskManager ----------------------------
(* A pool of a few workers, and tasks that create each other. *)
EXTENDS TaskManager
=============================================================================
