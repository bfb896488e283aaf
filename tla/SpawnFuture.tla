----------------------------- MODULE SpawnFuture -----------------------------
(***************************************************************************)
(* The state of a spawned operation (include/lexec/algorithms/spawn.hpp).  *)
(* spawn's frees itself.  spawn_future's is shared with the future: one    *)
(* byte of flags decides which of the operation, the future's consumer and *)
(* the consumer's stop callback delivers the result, completes the         *)
(* consumer with stopped, and frees the state.                             *)
(*                                                                         *)
(* Three threads: the consumer runs the state, unless the scope refused    *)
(* it, and starts or drops the future, the stopper requests stop of the    *)
(* consumer's receiver, the producer completes the operation unless it     *)
(* completes inside a stop request, on the thread that makes it.  The stop *)
(* callback behaves as StopToken shows it to.                              *)
(***************************************************************************)
EXTENDS Naturals, FiniteSets

Threads == {"consumer", "stopper", "producer"}

VARIABLES
    mode,         \* "spawn" or "spawn_future"
    flags,        \* the atomic byte
    finished,     \* whether the spawned operation has begun to complete
    allocated,    \* whether the state is allocated
    association,  \* the state's, with the scope: "held", "refused" or "ended"
    operation,    \* the future_operation: has_callback, its lifetime, and
                  \* how its receiver was completed
    callback,     \* the stop callback's status, and the thread that runs it
    asked,        \* whether stop was requested of the consumer's receiver
    pc,           \* where a thread is
    back,         \* where a thread goes on after the complete() it is inside
    served        \* history: the number of completions of the receiver

vars == <<mode, flags, finished, allocated, association, operation, callback, asked, pc, back, served>>

(* Where spawn() and spawn_future() return to. *)
Caller == IF mode = "spawn" THEN "end" ELSE "start"

Init ==
    /\ mode \in {"spawn", "spawn_future"}
    /\ flags = {}
    /\ finished = FALSE
    /\ allocated = TRUE
    /\ association \in {"held", "refused"}
    /\ operation = [hasCallback |-> FALSE, alive |-> TRUE, outcome |-> "none"]
    /\ callback = [status |-> "none", on |-> "nobody"]
    /\ asked = FALSE
    /\ pc = [[t \in Threads |-> "start"] EXCEPT !["consumer"] = "run"]
    /\ back = [[t \in Threads |-> "end"] EXCEPT !["consumer"] = Caller]
    /\ served = 0

At(t, where) == pc[t] = where
Goto(t, where) == pc' = [pc EXCEPT ![t] = where]

-----------------------------------------------------------------------------
(* run(): a refused state completes at once; a started operation may        *)
(* complete inside start().                                                *)
Run ==
    /\ At("consumer", "run")
    /\ \/ finished' = TRUE /\ Goto("consumer", "complete")
       \/ association = "held" /\ Goto("consumer", Caller) /\ UNCHANGED finished
    /\ UNCHANGED <<mode, flags, allocated, association, operation, callback, asked, back, served>>

(* complete() of spawn's state *)
CompleteSpawned(t) ==
    /\ At(t, "complete") /\ mode = "spawn"
    /\ Goto(t, "free")
    /\ UNCHANGED <<mode, flags, finished, allocated, association, operation, callback, asked, back, served>>

(* complete(): the operation has finished and the result is stored.        *)

(* Mutant: the operation completes the consumer inside try_cancel. *)
AfterCompleteUnaware(t) ==
    CASE "abandoned" \in flags -> "free"
      [] "abandoned" \notin flags /\ "consumed" \in flags ->
            IF "stopped" \in flags THEN "free" ELSE "deliver"
      [] OTHER -> back[t]

AfterComplete(t) ==
    CASE "abandoned" \in flags -> "free"
      [] flags \cap {"abandoned", "consumed", "cancelling"} = {"consumed"} ->
            IF "stopped" \in flags THEN "free" ELSE "deliver"
      [] OTHER -> back[t]

Complete(t) ==
    /\ At(t, "complete") /\ mode = "spawn_future"
    /\ flags' = flags \cup {"completed"}
    /\ Goto(t, AfterComplete(t))
    /\ UNCHANGED <<mode, finished, allocated, association, operation, callback, asked, back, served>>

(* The operation finishes on the producer's thread. *)
Finish ==
    /\ At("producer", "start") /\ ~finished /\ ~At("consumer", "run")
    /\ finished' = TRUE
    /\ Goto("producer", "complete")
    /\ UNCHANGED <<mode, flags, allocated, association, operation, callback, asked, back, served>>

(* request_stop(): the operation may finish inside it. *)
RequestStop(t, from, to) ==
    /\ At(t, from)
    /\ back' = [back EXCEPT ![t] = to]
    /\ \/ Goto(t, to) /\ UNCHANGED finished
       \/ ~finished /\ finished' = TRUE /\ Goto(t, "complete")
    /\ UNCHANGED <<mode, flags, allocated, association, operation, callback, asked, served>>

(* Mutant: the callback's destructor does not wait. *)
MayDropAlways(t) == TRUE

MayDrop(t) == operation.hasCallback => callback.on \in {"nobody", t}

(* drop_callback(): ~stop_callback_type waits for the callback while       *)
(* another thread runs it.                                                 *)
DropCallback(t, from, to) ==
    /\ At(t, from) /\ MayDrop(t)
    /\ operation' = [operation EXCEPT !.hasCallback = FALSE]
    /\ callback' = IF operation.hasCallback THEN [callback EXCEPT !.status = "gone"] ELSE callback
    /\ Goto(t, to)
    /\ UNCHANGED <<mode, flags, finished, allocated, association, asked, back, served>>

(* The receiver is completed, after which its operation may be destroyed.  *)
CompleteReceiver(t, from, outcome, to) ==
    /\ At(t, from)
    /\ operation' = [operation EXCEPT !.outcome = outcome]
    /\ served' = served + 1
    /\ Goto(t, to)
    /\ UNCHANGED <<mode, flags, finished, allocated, association, callback, asked, back>>

(* deliver_result(), which destroy() follows. *)
DeliverDrop(t)   == DropCallback(t, "deliver", "deliver_value")
DeliverResult(t) == CompleteReceiver(t, "deliver_value", "result", "free")

(* finish_stopped(), the last thing the consumer or its callback does.     *)
StoppedDrop(t)    == DropCallback(t, "stopped", "deliver_stopped")
StoppedDeliver(t) ==
    CompleteReceiver(t, "deliver_stopped", "stopped", IF callback.on = t THEN "return" ELSE "end")

(* destroy(): the memory goes first, then the association. *)
Free(t) ==
    /\ At(t, "free")
    /\ allocated' = FALSE
    /\ Goto(t, "release")
    /\ UNCHANGED <<mode, flags, finished, association, operation, callback, asked, back, served>>

Release(t) ==
    /\ At(t, "release")
    /\ association' = IF association = "held" THEN "ended" ELSE association
    /\ Goto(t, back[t])
    /\ UNCHANGED <<mode, flags, finished, allocated, operation, callback, asked, back, served>>

-----------------------------------------------------------------------------
(* The consumer's thread drops the future: abandon(). *)

Drop ==
    /\ At("consumer", "start")
    /\ Goto("consumer", "abandon_stop")
    /\ UNCHANGED <<mode, flags, finished, allocated, association, operation, callback, asked, back, served>>

AbandonStop == RequestStop("consumer", "abandon_stop", "abandon")

Abandon ==
    /\ At("consumer", "abandon")
    /\ flags' = flags \cup {"abandoned"}
    /\ Goto("consumer", IF "completed" \in flags THEN "free" ELSE "end")
    /\ back' = [back EXCEPT !["consumer"] = "end"]
    /\ UNCHANGED <<mode, finished, allocated, association, operation, callback, asked, served>>

-----------------------------------------------------------------------------
(* The consumer's thread starts the future: future_operation::start().     *)

Register ==
    /\ At("consumer", "start") /\ ~asked
    /\ callback' = [callback EXCEPT !.status = "armed"]
    /\ Goto("consumer", "registered")
    /\ UNCHANGED <<mode, flags, finished, allocated, association, operation, asked, back, served>>

(* Stop was requested already: the callback runs in its constructor. *)
RegisterInline ==
    /\ At("consumer", "start") /\ asked
    /\ callback' = [status |-> "inline", on |-> "consumer"]
    /\ Goto("consumer", "cancel")
    /\ UNCHANGED <<mode, flags, finished, allocated, association, operation, asked, back, served>>

Registered ==
    /\ At("consumer", "registered")
    /\ operation' = [operation EXCEPT !.hasCallback = TRUE]
    /\ Goto("consumer", "consume")
    /\ UNCHANGED <<mode, flags, finished, allocated, association, callback, asked, back, served>>

AfterConsume ==
    CASE "cancelling" \in flags -> "end"
      [] flags \cap {"cancelling", "completed"} = {"completed"} -> "deliver"
      [] flags \cap {"cancelling", "completed", "stopped"} = {"stopped"} -> "stopped"
      [] OTHER -> "end"

Consume ==
    /\ At("consumer", "consume")
    /\ flags' = flags \cup {"consumed"}
    /\ Goto("consumer", AfterConsume)
    /\ back' = [back EXCEPT !["consumer"] = "end"]
    /\ UNCHANGED <<mode, finished, allocated, association, operation, callback, asked, served>>

-----------------------------------------------------------------------------
(* The stop callback: cancel::operator() and try_cancel(), on the thread   *)
(* that requests stop or, inline, on the consumer's.                       *)

Ask ==
    /\ At("stopper", "start")
    /\ asked' = TRUE
    /\ IF callback.status = "armed"
          THEN callback' = [status |-> "running", on |-> "stopper"] /\ Goto("stopper", "cancel")
          ELSE UNCHANGED callback /\ Goto("stopper", "end")
    /\ UNCHANGED <<mode, flags, finished, allocated, association, operation, back, served>>

AfterCancel ==
    CASE {"completed", "consumed"} \subseteq flags -> "return"
      [] "completed" \notin flags                  -> "cancel_stop"
      [] OTHER                                     -> "cancelled"

Cancel(t) ==
    /\ At(t, "cancel")
    /\ flags' = flags \cup {"cancelling"}
    /\ Goto(t, AfterCancel)
    /\ UNCHANGED <<mode, finished, allocated, association, operation, callback, asked, back, served>>

CancelStop(t) == RequestStop(t, "cancel_stop", "cancelled")

(* Mutant: nobody destroys the state of an operation that completed inside *)
(* the stop request.                                                       *)
AfterCancelledKept == IF "consumed" \in flags THEN "stopped" ELSE "return"

AfterCancelled ==
    CASE "consumed" \notin flags -> "return"
      [] flags \cap {"consumed", "completed"} = {"consumed", "completed"} -> "free"
      [] flags \cap {"consumed", "completed"} = {"consumed"} -> "stopped"

(* fetch_xor(cancelling | stopped) *)
Cancelled(t) ==
    /\ At(t, "cancelled")
    /\ flags' = (flags \ {"cancelling", "stopped"}) \cup ({"cancelling", "stopped"} \ flags)
    /\ Goto(t, AfterCancelled)
    /\ back' = [back EXCEPT ![t] = "stopped"]
    /\ UNCHANGED <<mode, finished, allocated, association, operation, callback, asked, served>>

(* The callback's body returns; a callback dropped meanwhile is not touched. *)
CallbackReturns(t) ==
    /\ At(t, "return")
    /\ callback' = [status |-> IF callback.status = "gone" THEN "gone" ELSE "done", on |-> "nobody"]
    /\ Goto(t, IF callback.status = "inline" THEN "registered" ELSE "end")
    /\ back' = [back EXCEPT ![t] = "end"]
    /\ UNCHANGED <<mode, flags, finished, allocated, association, operation, asked, served>>

(* The completed receiver's owner destroys the operation. *)
DestroyOperation ==
    /\ operation.outcome # "none" /\ operation.alive
    /\ operation' = [operation EXCEPT !.alive = FALSE]
    /\ UNCHANGED <<mode, flags, finished, allocated, association, callback, asked, pc, back, served>>

-----------------------------------------------------------------------------
(* What a thread goes on to do once the future was started or dropped, the *)
(* operation finished or stop was requested.                               *)
Step(t) ==
    \/ CompleteSpawned(t) \/ Complete(t) \/ DeliverDrop(t) \/ DeliverResult(t) \/ StoppedDrop(t) \/ StoppedDeliver(t)
    \/ Free(t) \/ Release(t)
    \/ Cancel(t) \/ CancelStop(t) \/ Cancelled(t) \/ CallbackReturns(t)
    \/ t = "consumer" /\ (Run \/ AbandonStop \/ Abandon \/ Registered \/ Consume)

Resting == \A t \in Threads : pc[t] \in {"start", "end"}

(* The operation need not finish, nor stop be requested. *)
Idle == Resting /\ UNCHANGED vars

Next ==
    \/ \E t \in Threads : Step(t)
    \/ Finish \/ Drop \/ Register \/ RegisterInline \/ Ask \/ DestroyOperation
    \/ Idle

(* Threads inside the library are scheduled.  Whether and when the         *)
(* operation finishes, the consumer acts or stop is requested is open.     *)
Spec == Init /\ [][Next]_vars /\ \A t \in Threads : WF_vars(Step(t))

-----------------------------------------------------------------------------
(* The variables have their types; the receiver is completed at most once. *)
TypeOK ==
    /\ mode \in {"spawn", "spawn_future"}
    /\ flags \subseteq {"completed", "consumed", "stopped", "abandoned", "cancelling"}
    /\ finished \in BOOLEAN /\ allocated \in BOOLEAN /\ association \in {"held", "refused", "ended"}
    /\ asked \in BOOLEAN
    /\ operation \in [hasCallback : BOOLEAN, alive : BOOLEAN, outcome : {"none", "result", "stopped"}]
    /\ callback \in [status : {"none", "armed", "inline", "running", "gone", "done"},
                     on : Threads \cup {"nobody"}]
    /\ pc \in [Threads -> {"run", "start", "complete", "deliver", "deliver_value", "stopped", "deliver_stopped",
                           "free", "release", "abandon_stop", "abandon", "registered", "consume",
                           "cancel", "cancel_stop", "cancelled", "return", "end"}]
    /\ back \in [Threads -> {"end", "start", "stopped", "cancelled", "abandon"}]
    /\ served \in 0 .. 1

(* The freed state and the destroyed future_operation are not touched: not *)
(* by the thread that frees or completes the other's, not by the callback  *)
(* that returns late, and the state is not freed twice.                    *)
NoUseAfterFree ==
    /\ TypeOK
    /\ ~allocated => \A t \in Threads :
          pc[t] \notin {"run", "complete", "deliver", "deliver_value", "free", "abandon_stop", "abandon",
                       "consume", "cancel", "cancel_stop", "cancelled"}
    /\ \A t, u \in Threads : pc[t] \in {"free", "release"} /\ pc[u] \in {"free", "release"} => t = u
    /\ ~operation.alive => \A t \in Threads :
          /\ pc[t] \notin {"registered", "consume", "cancel", "deliver", "deliver_value", "stopped",
                          "deliver_stopped"}
          /\ pc[t] = "return" => callback.status = "gone"
    /\ ~operation.alive => ~operation.hasCallback
    /\ association = "ended" => ~allocated

(* The promise of a future is kept; spawn's is dropped from the beginning. *)
Holding == pc["consumer"] \in {"run", "start"} \/ (At("consumer", "complete") /\ back["consumer"] = "start")
Dropped == pc["consumer"] = "abandon_stop" \/ back["consumer"] = "abandon" \/ "abandoned" \in flags

Promise == INSTANCE Future WITH
    operation <- IF finished THEN "finished" ELSE "running",
    consumer <- CASE operation.outcome = "result"  -> "served"
                  [] operation.outcome = "stopped" -> "stopped"
                  [] operation.outcome = "none"    ->
                        IF mode = "spawn" THEN "dropped" ELSE IF Holding THEN "holding"
                        ELSE IF Dropped THEN "dropped" ELSE "waiting",
    asked <- asked,
    storage <- IF allocated THEN "held" ELSE "released"

(* The flags implement Future: each side leaves the consumer and the       *)
(* storage in a state the others may rely on, whatever the order.          *)
ImplementsFuture == Promise!Spec

(* The consumer is answered, also when its stop request finds the          *)
(* operation running and the operation never finishes; and the state is    *)
(* freed, by whichever thread comes last.                                  *)
PromiseKept == Promise!Kept
=============================================================================
