------------------------------ MODULE MCAdaptors ------------------------------
(* Adaptors alone, pairs of those that store, bind, hop or forward, what   *)
(* the others are lowered to, and a token without a source.                *)
EXTENDS Adaptors

Both == {"c1", "c2"}
Plains == {Associate, Unstoppable, WriteEnv, StopWhen, AnySender}
Singles ==
    {IntoVariant(TRUE), Call("error", FALSE), Call("stopped", FALSE), Let("error", TRUE, Pool),
     Let("stopped", FALSE, Async), ContinuesOn(Parallel, FALSE), Bulk({}, FALSE),
     Bulk({"c1"}, TRUE)} \cup Plains
Paired ==
    {Let("value", TRUE, Async), ContinuesOn(Pool, TRUE), Bulk(Both, TRUE), StopWhen, AnySender}
Lowered ==
    {StoppedAsOptional, StoppedAsError, On(Pool, Async, Parallel), OnClosure(Pool, <<Bulk(Both, TRUE)>>, Parallel)}

Cross(chains, leaves) == [chain : chains, leaf : leaves, foreign : BOOLEAN]
Every ==
    Cross({<<single>> : single \in Singles} \cup Lowered, {Just("value"), Just("error"), Pool, Parallel, Async})
    \cup Cross({<<Unstoppable, AnySender, StopWhen>>}, {Just("value"), Async})
    \cup Cross({pair \in Paired \X Paired : pair[1] # pair[2]}, {Just("value"), Pool, Parallel, Async})

(* The type of the receiver's token matters to any_sender and to a backend. *)
Sees(case) ==
    case.leaf = Parallel \/ \E i \in DOMAIN case.chain :
        case.chain[i].kind = "any_sender" \/ case.chain[i].leaf = Parallel

Cases == {case \in Every : case.foreign => Sees(case)}

(* A child that completes inside the request its adaptor forwards, below a *)
(* change of thread.                                                       *)
Forwarded == {[chain |-> <<ContinuesOn(Pool, FALSE), AnySender>>, leaf |-> Async, foreign |-> TRUE]}
===============================================================================
