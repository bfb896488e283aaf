------------------------------- MODULE WhenAll -------------------------------
(***************************************************************************)
(* The operation states of when_all and when_any                           *)
(* (include/lexec/algorithms/): the children complete on whatever thread   *)
(* they like, the first failure or, of when_any, the first completion asks *)
(* the others to stop, a stop request of the receiver is forwarded to      *)
(* them, and the last child to arrive completes the receiver, whose owner  *)
(* destroys the operation at once.                                         *)
(*                                                                         *)
(* A child completes on a thread of its own, inside its own start(), or    *)
(* inside the request_stop that asks it to stop.  `within` names the call  *)
(* it completes inside; the caller goes on when the child has returned.    *)
(* The stop source and the callback behave as StopToken shows them to.     *)
(***************************************************************************)
EXTENDS Naturals

CONSTANT N             \* the number of children

ASSUME WhenAllAssumption == N \in Nat \ {0}

Children == 1 .. N     \* the child operations, by their position
Nobody == 0
Starter == N + 1       \* the thread that calls start()
Stopper == N + 2       \* the thread that requests stop of the receiver

Threads == 1 .. N + 2

(* A value, a value whose copy throws, an error or stopped. *)
Tags == {"value", "throw", "error", "stopped"}

VARIABLES
    any,           \* whether it is a when_any
    first,         \* when_any: the child that set emplaced, or Nobody, and
                   \* the result that is stored
    disposition,   \* when_all_disposition
    remaining,     \* the children that have not arrived
    values,        \* the children whose values are stored
    error,         \* the child whose error is stored, or Nobody
    stop,          \* whether stop_source was asked to stop
    notifier,      \* the call inside which stop_source runs callbacks
    onStop,        \* on_stop: its status and the thread that runs it
    asked,         \* whether stop was requested of the receiver
    child,         \* where a child is, how it completes, on which thread
    pc,            \* where the starter and the stopper are
    next,          \* the child that start() starts next
    outcome,       \* how the receiver was completed
    destroyer      \* the thread that destroyed the operation, or Nobody

vars == <<any, first, disposition, remaining, values, error, stop, notifier, onStop, asked, child, pc, next,
          outcome, destroyer>>

Init ==
    /\ any \in BOOLEAN
    /\ first = [by |-> Nobody, result |-> "none"]
    /\ disposition = "started"
    /\ remaining = N
    /\ values = {}
    /\ error = Nobody
    /\ stop = FALSE
    /\ notifier = Nobody
    /\ onStop = [status |-> "none", on |-> Nobody]
    /\ asked = FALSE
    /\ child = [c \in Children |-> [pc |-> "unstarted", tag |-> "none", on |-> Nobody, within |-> Nobody]]
    /\ pc = [starter |-> "idle", stopper |-> "idle"]
    /\ next = 1
    /\ outcome = "none"
    /\ destroyer = Nobody

result == <<any, first, disposition, values, error>>

At(c, where) == child[c].pc = where
Goto(c, where) == child' = [child EXCEPT ![c].pc = where]
Busy(call) == \E c \in Children : child[c].within = call /\ child[c].pc # "returned"

-----------------------------------------------------------------------------
(* An error, and a value whose copy throws, are the same to when_any.      *)
Completions == IF any THEN Tags \ {"error"} ELSE Tags

(* A running child completes: on its own thread, or inside the call that   *)
(* asks it to stop or that starts it.                                      *)
CompleteOn(c, thread, call) ==
    \E tag \in Completions :
        child' = [child EXCEPT ![c] = [pc |-> tag, tag |-> tag, on |-> thread, within |-> call]]

CompleteAsync(c) ==
    /\ At(c, "running")
    /\ CompleteOn(c, c, Nobody)
    /\ UNCHANGED <<result, remaining, stop, notifier, onStop, asked, pc, next, outcome, destroyer>>

CompleteStopped(c) ==
    /\ At(c, "running") /\ notifier # Nobody /\ ~Busy(notifier)
    /\ CompleteOn(c, IF notifier \in Children THEN child[notifier].on ELSE notifier, notifier)
    /\ UNCHANGED <<result, remaining, stop, notifier, onStop, asked, pc, next, outcome, destroyer>>

(* store_values: a child's values are not stored once another has failed.  *)
LoadDisposition(c) ==
    /\ child[c].pc \in {"value", "throw"} /\ ~any
    /\ Goto(c, IF disposition # "started" THEN "arrive"
               ELSE IF At(c, "throw") THEN "error" ELSE "store")
    /\ UNCHANGED <<result, remaining, stop, notifier, onStop, asked, pc, next, outcome, destroyer>>

StoreValues(c) ==
    /\ At(c, "store")
    /\ values' = values \cup {c}
    /\ Goto(c, "arrive")
    /\ UNCHANGED <<any, first, disposition, error, remaining, stop, notifier, onStop, asked, pc, next, outcome, destroyer>>

(* set_error: only the first error is stored. *)
SetError(c) ==
    /\ At(c, "error") /\ ~any
    /\ disposition' = "error"
    /\ Goto(c, IF disposition = "error" THEN "arrive" ELSE "store_error")
    /\ UNCHANGED <<any, first, values, error, remaining, stop, notifier, onStop, asked, pc, next, outcome, destroyer>>

StoreError(c) ==
    /\ At(c, "store_error")
    /\ error' = c
    /\ Goto(c, "request_stop")
    /\ UNCHANGED <<any, first, disposition, values, remaining, stop, notifier, onStop, asked, pc, next, outcome, destroyer>>

(* Mutant: stopped overrides an error. *)
StoppedFromAny == {"started", "error"}

(* set_stopped: the exchange succeeds only while nothing has failed. *)
StoppedFrom == {"started"}

SetStopped(c) ==
    /\ At(c, "stopped") /\ ~any
    /\ IF disposition \in StoppedFrom
          THEN disposition' = "stopped" /\ Goto(c, "request_stop")
          ELSE UNCHANGED disposition /\ Goto(c, "arrive")
    /\ UNCHANGED <<any, first, values, error, remaining, stop, notifier, onStop, asked, pc, next, outcome, destroyer>>

(* when_any's notify: the first completion of any kind is stored.          *)
Emplace(c) ==
    /\ child[c].pc \in Tags /\ any
    /\ IF first.by = Nobody
          THEN first' = [first EXCEPT !.by = c] /\ Goto(c, "store_result")
          ELSE UNCHANGED first /\ Goto(c, "arrive")
    /\ UNCHANGED <<any, disposition, values, error, remaining, stop, notifier, onStop, asked, pc, next, outcome, destroyer>>

Sent(tag) == IF tag = "throw" THEN "error" ELSE tag

StoreResult(c) ==
    /\ At(c, "store_result")
    /\ first' = [first EXCEPT !.result = Sent(child[c].tag)]
    /\ Goto(c, "request_stop")
    /\ UNCHANGED <<any, disposition, values, error, remaining, stop, notifier, onStop, asked, pc, next, outcome, destroyer>>

(* stop_source.request_stop(): the first call runs the children's          *)
(* callbacks and returns after them, any other returns at once.            *)
FirstRequest(call) ==
    /\ ~stop
    /\ stop' = TRUE
    /\ notifier' = call

ChildRequests(c) ==
    /\ At(c, "request_stop")
    /\ \/ FirstRequest(c) /\ Goto(c, "notify")
       \/ stop /\ Goto(c, "arrive") /\ UNCHANGED <<stop, notifier>>
    /\ UNCHANGED <<result, remaining, onStop, asked, pc, next, outcome, destroyer>>

ChildNotified(c) ==
    /\ At(c, "notify") /\ ~Busy(c)
    /\ notifier' = Nobody
    /\ Goto(c, "arrive")
    /\ UNCHANGED <<result, remaining, stop, onStop, asked, pc, next, outcome, destroyer>>

(* Mutant: the child after the last one completes the receiver. *)
LastAfter == remaining = 0

(* fetch_sub returned 1. *)
Last == remaining = 1

Arrive(c) ==
    /\ At(c, "arrive")
    /\ remaining' = remaining - 1
    /\ Goto(c, IF Last THEN "reset" ELSE "returned")
    /\ UNCHANGED <<result, stop, notifier, onStop, asked, pc, next, outcome, destroyer>>

(* Mutant: the receiver's callback is destroyed without waiting for it. *)
MayResetAlways(thread) == TRUE

(* on_stop.reset(): the destructor waits while another thread runs it.     *)
MayReset(thread) == onStop.on \in {Nobody, thread}

Reset(thread) == MayReset(thread) /\ onStop' = [onStop EXCEPT !.status = "gone"]

ResetByLast(c) ==
    /\ At(c, "reset")
    /\ Reset(child[c].on)
    /\ Goto(c, "complete")
    /\ UNCHANGED <<result, remaining, stop, notifier, asked, pc, next, outcome, destroyer>>

(* complete: what the disposition calls for; when_any's first result,      *)
(* unless stop was requested of the receiver by now.                       *)
OutcomeOf ==
    IF ~any THEN IF disposition = "started" THEN "value" ELSE disposition
    ELSE IF asked THEN "stopped" ELSE first.result

(* The receiver is completed; its owner destroys the operation at once.    *)
CompleteReceiver(c) ==
    /\ At(c, "complete")
    /\ outcome' = OutcomeOf
    /\ destroyer' = child[c].on
    /\ Goto(c, "returned")
    /\ UNCHANGED <<result, remaining, stop, notifier, onStop, asked, pc, next>>

-----------------------------------------------------------------------------
(* start(), on the starter's thread. *)

StarterGoto(where) == pc' = [pc EXCEPT !.starter = where]

(* The receiver's stop callback is registered, or runs at once. *)
Start ==
    /\ pc.starter = "idle"
    /\ IF asked THEN stop' = TRUE /\ UNCHANGED onStop
                ELSE onStop' = [onStop EXCEPT !.status = "armed"] /\ UNCHANGED stop
    /\ StarterGoto("check")
    /\ UNCHANGED <<result, remaining, notifier, asked, child, next, outcome, destroyer>>

CheckStop ==
    /\ pc.starter = "check"
    /\ StarterGoto(IF stop THEN "reset" ELSE "start_children")
    /\ UNCHANGED <<result, remaining, stop, notifier, onStop, asked, child, next, outcome, destroyer>>

ResetByStart ==
    /\ pc.starter = "reset"
    /\ Reset(Starter)
    /\ StarterGoto("stopped")
    /\ UNCHANGED <<result, remaining, stop, notifier, asked, child, next, outcome, destroyer>>

StoppedByStart ==
    /\ pc.starter = "stopped"
    /\ outcome' = "stopped"
    /\ destroyer' = Starter
    /\ StarterGoto("end")
    /\ UNCHANGED <<result, remaining, stop, notifier, onStop, asked, child, next>>

(* One child after the other is started; it may complete inside.           *)
StartChild ==
    /\ pc.starter = "start_children" /\ next \in Children /\ ~Busy(Starter)
    /\ \/ Goto(next, "running")
       \/ CompleteOn(next, Starter, Starter)
    /\ next' = next + 1
    /\ UNCHANGED <<result, remaining, stop, notifier, onStop, asked, pc, outcome, destroyer>>

StartReturns ==
    /\ pc.starter = "start_children" /\ next \notin Children /\ ~Busy(Starter)
    /\ StarterGoto("end")
    /\ UNCHANGED <<result, remaining, stop, notifier, onStop, asked, child, next, outcome, destroyer>>

-----------------------------------------------------------------------------
(* The receiver's stop request, on the stopper's thread. *)

StopperGoto(where) == pc' = [pc EXCEPT !.stopper = where]

Ask ==
    /\ pc.stopper = "idle"
    /\ asked' = TRUE
    /\ IF onStop.status = "armed"
          THEN onStop' = [status |-> "running", on |-> Stopper] /\ StopperGoto("forward")
          ELSE UNCHANGED onStop /\ StopperGoto("end")
    /\ UNCHANGED <<result, remaining, stop, notifier, child, next, outcome, destroyer>>

(* on_stop_request *)
Forward ==
    /\ pc.stopper = "forward"
    /\ \/ FirstRequest(Stopper) /\ StopperGoto("notify")
       \/ stop /\ StopperGoto("return") /\ UNCHANGED <<stop, notifier>>
    /\ UNCHANGED <<result, remaining, onStop, asked, child, next, outcome, destroyer>>

Forwarded ==
    /\ pc.stopper = "notify" /\ ~Busy(Stopper)
    /\ notifier' = Nobody
    /\ StopperGoto("return")
    /\ UNCHANGED <<result, remaining, stop, onStop, asked, child, next, outcome, destroyer>>

(* A callback that was destroyed meanwhile is left alone. *)
ForwardReturns ==
    /\ pc.stopper = "return"
    /\ onStop' = [status |-> IF onStop.status = "gone" THEN "gone" ELSE "done", on |-> Nobody]
    /\ StopperGoto("end")
    /\ UNCHANGED <<result, remaining, stop, notifier, asked, child, next, outcome, destroyer>>

-----------------------------------------------------------------------------
ChildStep(c) ==
    \/ LoadDisposition(c) \/ StoreValues(c) \/ SetError(c) \/ StoreError(c) \/ SetStopped(c)
    \/ Emplace(c) \/ StoreResult(c) \/ ChildRequests(c) \/ ChildNotified(c) \/ Arrive(c) \/ ResetByLast(c) \/ CompleteReceiver(c)

StarterStep == CheckStop \/ ResetByStart \/ StoppedByStart \/ StartChild \/ StartReturns
StopperStep == Forward \/ Forwarded \/ ForwardReturns

Resting ==
    /\ pc.starter \in {"idle", "end"} /\ pc.stopper \in {"idle", "end"}
    /\ \A c \in Children : child[c].pc \in {"unstarted", "running", "returned"}

(* The children need not complete, nor stop be requested. *)
Idle == Resting /\ UNCHANGED vars

Next ==
    \/ \E c \in Children : ChildStep(c) \/ CompleteAsync(c) \/ CompleteStopped(c)
    \/ Start \/ StarterStep
    \/ Ask \/ StopperStep
    \/ Idle

(* Threads inside the operation are scheduled. *)
Spec ==
    /\ Init /\ [][Next]_vars
    /\ \A c \in Children : WF_vars(ChildStep(c))
    /\ WF_vars(StarterStep) /\ WF_vars(StopperStep)

-----------------------------------------------------------------------------
ChildState ==
    [pc : Tags \cup {"unstarted", "running", "store", "store_error", "store_result",
                     "request_stop", "notify", "arrive", "reset", "complete", "returned"},
     tag : Tags \cup {"none"}, on : Threads \cup {Nobody}, within : Threads \cup {Nobody}]

(* The variables have their types; no more children arrive than there are. *)
TypeOK ==
    /\ any \in BOOLEAN
    /\ first \in [by : Children \cup {Nobody}, result : {"none", "value", "error", "stopped"}]
    /\ disposition \in {"started", "error", "stopped"}
    /\ remaining \in 0 .. N
    /\ values \subseteq Children /\ error \in Children \cup {Nobody}
    /\ stop \in BOOLEAN /\ asked \in BOOLEAN
    /\ destroyer \in Threads \cup {Nobody}
    /\ notifier \in Children \cup {Stopper, Nobody}
    /\ onStop \in [status : {"none", "armed", "running", "done", "gone"}, on : {Stopper, Nobody}]
    /\ child \in [Children -> ChildState]
    /\ pc \in [starter : {"idle", "check", "reset", "stopped", "start_children", "end"},
               stopper : {"idle", "forward", "notify", "return", "end"}]
    /\ next \in 1 .. N + 1
    /\ outcome \in {"none", "value", "error", "stopped"}

(* The operation state is destroyed only when no thread will touch it      *)
(* again: no child is on its way to arrive, start() has no child left to   *)
(* start, and a stop callback that is still running runs on the thread     *)
(* that destroyed the operation inside it.                                 *)
NoUseAfterDestroy ==
    /\ TypeOK
    /\ destroyer # Nobody =>
        /\ \A c \in Children : child[c].pc \in {"unstarted", "returned"}
        /\ pc.starter = "end" \/ (pc.starter = "start_children" /\ next \notin Children)
        /\ pc.stopper # "forward"
        /\ pc.stopper \in {"notify", "return"} => destroyer = Stopper

(* The receiver is completed once, with what the children's completions    *)
(* call for.  when_all: all values, every one of them stored; or the first *)
(* error, which wins over stopped and is not replaced; or stopped, when a  *)
(* child stopped and none failed or no child was started.  when_any: the   *)
(* first completion, or stopped after a stop request of the receiver.      *)
AllOutcome ==
    /\ outcome = "value" => values = Children /\ \A c \in Children : child[c].tag = "value"
    /\ outcome = "error" => error # Nobody /\ child[error].tag \in {"error", "throw"}
    /\ outcome = "stopped" =>
          \/ asked /\ \A c \in Children : At(c, "unstarted")
          \/ /\ \E c \in Children : child[c].tag = "stopped"
             /\ \A c \in Children : child[c].tag # "error"
    /\ error # Nobody => \A c \in Children : ~At(c, "store_error")

AnyOutcome ==
    /\ outcome \in {"none", "stopped"} \/ (first.by # Nobody /\ outcome = Sent(child[first.by].tag))
    /\ outcome = "stopped" => asked \/ child[first.by].tag = "stopped"
    /\ first.result # "none" => \A c \in Children : ~At(c, "store_result")

OutcomeFollowsChildren ==
    /\ IF any THEN AnyOutcome ELSE AllOutcome
    /\ outcome # "none" =>
          /\ pc.starter \notin {"reset", "stopped"}
          /\ \A c \in Children : child[c].pc \notin {"reset", "complete"}

(* When every child has completed, or stop was requested before any was    *)
(* started, the receiver is completed: the wait for the stop callback ends.*)
Completes ==
    (pc.starter \in {"reset", "stopped"} \/ \A c \in Children : child[c].pc \notin {"unstarted", "running"})
        ~> outcome # "none"
=============================================================================
