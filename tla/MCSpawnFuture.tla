---------------------------- MODULE MCSpawnFuture ----------------------------
(* The instance of SpawnFuture that TLC checks; it has no parameters. *)
EXTENDS SpawnFuture
=============================================================================
