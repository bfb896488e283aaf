---------------------------- MODULE MCThreadPool ----------------------------
(* Tasks alone, and a job that a task or a client publishes. *)
EXTENDS ThreadPool

Plan(tasks, publishers, spurious) == [tasks |-> tasks, publishers |-> publishers, spurious |-> spurious]
CONSTANT First      \* one of the Tasks
MCPlans == {Plan(Tasks, {}, 0), Plan({First}, {}, 1), Plan({First}, Workers, 0), Plan({}, Clients, 0)}
===============================================================================
