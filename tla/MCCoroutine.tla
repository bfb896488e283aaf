----------------------------- MODULE MCCoroutine -----------------------------
(* A Task that awaits a Task: the instances of Coroutine that TLC checks. *)
EXTENDS Coroutine
=============================================================================
