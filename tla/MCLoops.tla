------------------------------- MODULE MCLoops -------------------------------
(* A loop of two loops, of every kind, on two threads. *)
EXTENDS Loops

All == {<<"repeat_n">> \o inner : inner \in [1 .. 2 -> Kinds]}
=============================================================================
