------------------------------- MODULE Future -------------------------------
(***************************************************************************)
(* What spawn_future promises: the consumer of a started future gets the   *)
(* operation's result or, after asking for a stop, nothing; it never waits *)
(* for the operation once it asked; and the storage of the operation is    *)
(* released once the operation has finished and nobody will read the       *)
(* result any more, as nobody ever does whose future was dropped, or who   *)
(* spawned without one.  SpawnFuture implements it.                        *)
(***************************************************************************)
VARIABLES
    operation,   \* "running" | "finished"
    consumer,    \* "holding" the future, "waiting", "dropped" it, "served", "stopped"
    asked,       \* whether the consumer was asked to stop
    storage      \* "held" | "released"

vars == <<operation, consumer, asked, storage>>

Init ==
    /\ operation = "running"
    /\ consumer \in {"holding", "dropped"}
    /\ asked = FALSE
    /\ storage = "held"

Ask    == asked' = TRUE /\ UNCHANGED <<operation, consumer, storage>>
Finish == operation' = "finished" /\ UNCHANGED <<consumer, asked, storage>>

Leave(next) ==
    /\ consumer = "holding" /\ next \in {"waiting", "dropped"}
    /\ consumer' = next
    /\ UNCHANGED <<operation, asked, storage>>

Serve ==
    /\ consumer = "waiting" /\ operation = "finished" /\ storage = "held"
    /\ consumer' = "served"
    /\ UNCHANGED <<operation, asked, storage>>

Stop ==
    /\ consumer = "waiting" /\ asked
    /\ consumer' = "stopped"
    /\ UNCHANGED <<operation, asked, storage>>

Release ==
    /\ operation = "finished" /\ storage = "held"
    /\ consumer \in {"served", "stopped", "dropped"} \/ (consumer = "waiting" /\ asked)
    /\ storage' = "released"
    /\ UNCHANGED <<operation, consumer, asked>>

Next == Ask \/ Finish \/ (\E next \in {"waiting", "dropped"} : Leave(next)) \/ Serve \/ Stop \/ Release

Spec == Init /\ [][Next]_vars

(* The consumer is not left waiting, neither for an operation that has     *)
(* finished nor at all once it asked to stop, and an operation that has    *)
(* finished does not keep its storage.                                     *)
Settled ==
    /\ consumer = "waiting" => ~asked /\ operation = "running"
    /\ operation = "finished" /\ consumer # "holding" => storage = "released"

Kept == []<>Settled
=============================================================================
