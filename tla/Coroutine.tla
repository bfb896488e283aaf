------------------------------ MODULE Coroutine ------------------------------
(***************************************************************************)
(* co2 coroutines that await senders, and Tasks run as senders             *)
(* (include/lexec/coro/co2.hpp).  Task 1 is started as an operation; every *)
(* Task but the last awaits the next Task first and then other senders,    *)
(* the last one only those.                                                *)
(*                                                                         *)
(* A thread's stack has a frame for each body it resumes, for each start() *)
(* that an await_suspend is in, and for the stop callback.  The awaiters   *)
(* of a coroutine follow one another in co2's inline slot: they share one  *)
(* address, the coroutine's.  current_start points to the start() frame it *)
(* was set by.  Where and how a sender completes is its own business.      *)
(***************************************************************************)
EXTENDS Naturals, Sequences

CONSTANTS
    None,          \* no thread
    Threads,       \* the threads that run coroutines, pool work and stop requests
    Tasks,         \* the number of Tasks, each awaited by the one before it
    Awaits,        \* the operations a coroutine awaits, one after the other
    CompletesLater \* whether a start() may complete what its coroutine awaits later

ASSUME CoroutineAssumption ==
    Tasks \in Nat \ {0} /\ Awaits \in Nat \ {0} /\ CompletesLater \in BOOLEAN

Coroutines == 1 .. Tasks
Root == 1
Outcomes == {"value", "error", "stopped"}

VARIABLES
    stack,         \* the frames of each thread, the innermost last
    current_start, \* the start() frame a thread is in, or 0
    awaiting,      \* how many operations a coroutine has awaited
    op,            \* the operation a coroutine's awaiter holds, until it completes
    outcome,       \* the awaiter's outcome
    result,        \* how a Task ended
    stop,          \* whether the Task's co2 stop source was asked to stop
    asked,         \* whether stop was requested of the receiver
    callback,      \* the receiver's callback that forwards to the stop source
    destroyer      \* the thread that completed the first Task's receiver, or None

vars == <<stack, current_start, awaiting, op, outcome, result, stop, asked, callback, destroyer>>

Init ==
    /\ stack = [t \in Threads |-> <<>>]
    /\ current_start = [t \in Threads |-> 0]
    /\ awaiting = [c \in Coroutines |-> 0]
    /\ op = [c \in Coroutines |-> "none"]
    /\ outcome = [c \in Coroutines |-> "none"]
    /\ result = [c \in Coroutines |-> "unstarted"]
    /\ stop = FALSE
    /\ asked = FALSE
    /\ callback = "none"
    /\ destroyer = None

Frame(kind, c, n, outer) == [kind |-> kind, co |-> c, n |-> n, outer |-> outer, mark |-> 0]
Body(c) == Frame("body", c, 0, 0)
Callback == Frame("callback", 0, 0, 0)

Idle(t) == stack[t] = <<>>
Top(t) == stack[t][Len(stack[t])]
Runs(t, kind) == ~Idle(t) /\ Top(t).kind = kind
Below(s, k) == SubSeq(s, 1, Len(s) - k)
SetStack(t, s) == stack' = [stack EXCEPT ![t] = s]

stopping == <<stop, asked, callback, destroyer>>

-----------------------------------------------------------------------------
(* Starting the first Task: a token that can stop gets a stop source and a *)
(* callback, which runs at once if stop was requested already.             *)
RootToken ==
    \/ callback' = "armed" /\ stop' = asked
    \/ UNCHANGED <<callback, stop>>

Start(t) ==
    /\ result[Root] = "unstarted" /\ Idle(t)
    /\ RootToken
    /\ result' = [result EXCEPT ![Root] = "running"]
    /\ SetStack(t, <<Body(Root)>>)
    /\ UNCHANGED <<current_start, awaiting, op, outcome, asked, destroyer>>

AwaitsTask(c) == awaiting[c] = 0 /\ c + 1 \in Coroutines

(* await_suspend up to start(): the operation is connected in place, and   *)
(* the thread remembers which awaiter it is starting.  Starting a Task     *)
(* runs its body.  An awaiter that threw may have been caught.             *)
Await(t) ==
    /\ Runs(t, "body") /\ awaiting[Top(t).co] < Awaits
    /\ LET c == Top(t).co
           start == Append(stack[t], Frame("start", c, awaiting[c] + 1, current_start[t]))
       IN  /\ awaiting' = [awaiting EXCEPT ![c] = @ + 1]
           /\ outcome' = [outcome EXCEPT ![c] = "none"]
           /\ IF AwaitsTask(c)
                 THEN /\ op' = [op EXCEPT ![c] = "task"]
                      /\ result' = [result EXCEPT ![c + 1] = "running"]
                      /\ SetStack(t, Append(start, Body(c + 1)))
                 ELSE /\ \E kind \in {"schedule", "sender"} : op' = [op EXCEPT ![c] = kind]
                      /\ SetStack(t, start)
                      /\ UNCHANGED result
           /\ current_start' = [current_start EXCEPT ![t] = Len(start)]
    /\ UNCHANGED stopping

(* Mutant: any completion inside a start() counts as that start()'s own.   *)
StartsAwaiterAny(t, c) == current_start[t] # 0

(* current_start.awaiter == this: the awaiters are told by their address.  *)
StartsAwaiter(t, c) == current_start[t] # 0 /\ stack[t][current_start[t]].co = c

(* complete, with the frames below it: the start() that this thread is in  *)
(* is told, or the coroutine is resumed on top of them.                    *)
CompleteAwaiter(t, frames, c, kind) ==
    /\ outcome' = [outcome EXCEPT ![c] = kind]
    /\ op' = [op EXCEPT ![c] = "none"]
    /\ SetStack(t, IF StartsAwaiter(t, c)
                      THEN [frames EXCEPT ![current_start[t]].mark = awaiting[c]]
                      ELSE Append(frames, Body(c)))

(* A sender completes inside its start(), on a thread with nothing else to *)
(* do, inside the stop request, or inside another operation's start().     *)
MayComplete(t, c) ==
    \/ Idle(t)
    \/ Runs(t, "callback") /\ stop
    \/ /\ Runs(t, "start")
       /\ Top(t).co = c => Top(t).n = awaiting[c] \/ CompletesLater

SenderCompletes(t, c) ==
    /\ op[c] = "sender" /\ MayComplete(t, c)
    /\ \E kind \in Outcomes : CompleteAwaiter(t, stack[t], c, kind)
    /\ UNCHANGED <<current_start, awaiting, result, stopping>>

(* schedule_operation::run, on a thread of the scheduler. *)
ScheduleOutcome == IF stop THEN "stopped" ELSE "value"

ScheduleRuns(t, c) ==
    /\ op[c] = "schedule" /\ Idle(t)
    /\ CompleteAwaiter(t, stack[t], c, ScheduleOutcome)
    /\ UNCHANGED <<current_start, awaiting, result, stopping>>

Restored(t) == [current_start EXCEPT ![t] = Top(t).outer]

(* Mutant: await_suspend always suspends. *)
ReturningAll(f) == 2

(* What returns with start(): the body below, too, unless it goes on.      *)
Returning(f) == IF f.mark # 0 THEN 1 ELSE 2

(* await_suspend after start(): it looks at its own frame only.  The body  *)
(* below goes on if it was told of a completion, and returns otherwise.    *)
StartReturns(t) ==
    /\ Runs(t, "start")
    /\ current_start' = Restored(t)
    /\ SetStack(t, Below(stack[t], Returning(Top(t))))
    /\ UNCHANGED <<awaiting, op, outcome, result, stopping>>

-----------------------------------------------------------------------------
(* await_resume throws for every outcome but a value, and an exception may *)
(* leave the body at any await; taking the Task's value may throw, too.    *)
MayEndWith(c) ==
    IF outcome[c] \in {"error", "stopped"} THEN {outcome[c]}
    ELSE IF awaiting[c] = Awaits THEN {"value", "error"} ELSE {}

(* Mutant: the callback is destroyed while another thread runs it.         *)
MayDropCallbackAlways(t) == TRUE

(* The callback's destructor waits while another thread runs it. *)
MayDropCallback(t) ==
    \A u \in Threads \ {t} : \A i \in DOMAIN stack[u] : stack[u][i].kind # "callback"

(* finish: the first Task's receiver is completed after the callback is    *)
(* gone; any other Task completes the awaiter of the one before it.        *)
Finish(t) ==
    /\ Runs(t, "body")
    /\ LET c == Top(t).co
       IN  \E kind \in MayEndWith(c) :
              /\ result' = [result EXCEPT ![c] = kind]
              /\ IF c = Root
                    THEN /\ callback # "none" => MayDropCallback(t)
                         /\ callback' = IF callback = "none" THEN "none" ELSE "gone"
                         /\ destroyer' = t
                         /\ SetStack(t, Below(stack[t], 1))
                         /\ UNCHANGED <<op, outcome>>
                    ELSE /\ CompleteAwaiter(t, Below(stack[t], 1), c - 1, kind)
                         /\ UNCHANGED <<callback, destroyer>>
    /\ UNCHANGED <<current_start, awaiting, stop, asked>>

(* The receiver's stop request: the callback forwards it. *)
RequestStop(t) ==
    /\ ~asked /\ Idle(t)
    /\ asked' = TRUE
    /\ IF callback = "armed"
          THEN stop' = TRUE /\ SetStack(t, <<Callback>>)
          ELSE UNCHANGED <<stop, stack>>
    /\ UNCHANGED <<current_start, awaiting, op, outcome, result, callback, destroyer>>

CallbackReturns(t) ==
    /\ Runs(t, "callback")
    /\ SetStack(t, Below(stack[t], 1))
    /\ UNCHANGED <<current_start, awaiting, op, outcome, result, stopping>>

-----------------------------------------------------------------------------
ThreadStep(t) == Await(t) \/ StartReturns(t) \/ Finish(t) \/ CallbackReturns(t)
Completes(t, c) == SenderCompletes(t, c) \/ ScheduleRuns(t, c)

(* Nothing runs: no Task is started, or the last of them has ended. *)
Rest == (\A t \in Threads : Idle(t)) /\ UNCHANGED vars

Next ==
    \/ \E t \in Threads :
          \/ Start(t) \/ ThreadStep(t) \/ RequestStop(t)
          \/ \E c \in Coroutines : Completes(t, c)
    \/ Rest

(* Threads are scheduled, and what is awaited completes. *)
Spec ==
    /\ Init /\ [][Next]_vars
    /\ \A t \in Threads : WF_vars(ThreadStep(t))
    /\ \A c \in Coroutines : WF_vars(\E t \in Threads : Completes(t, c))

-----------------------------------------------------------------------------
Frames(t) == {stack[t][i] : i \in DOMAIN stack[t]}

(* Where a thread is going on with a coroutine's body: not below a start() *)
(* that was told of no completion.                                         *)
Going(t, c) ==
    {i \in DOMAIN stack[t] : stack[t][i] = Body(c) /\ (i = Len(stack[t]) \/ stack[t][i + 1].mark # 0)}

(* A start() is told of a completion only if its own operation completed:  *)
(* that is what lets await_suspend go on in place, while "any other        *)
(* completion resumes the coroutine where it happens".                     *)
MarksOwnStart ==
    \A t \in Threads : \A f \in Frames(t) : f.mark \in {0, f.n}

(* A coroutine is resumed once for each operation it awaits: one thread    *)
(* goes on with its body, at one place, and only while it awaits nothing.  *)
(* current_start never points into a start() that has returned.            *)
RunsInOnePlace ==
    /\ MarksOwnStart
    /\ \A c \in Coroutines, t, u \in Threads : \A i \in Going(t, c), j \in Going(u, c) :
          <<t, i>> = <<u, j>> /\ op[c] = "none" /\ result[c] = "running"
    /\ \A t \in Threads :
          /\ current_start[t] \in {0} \cup DOMAIN stack[t]
          /\ current_start[t] # 0 => stack[t][current_start[t]].kind = "start"

(* When the first Task's receiver is completed, its owner may destroy the  *)
(* operation, with the callback and the frames of the Tasks: by then only  *)
(* the thread that completes it may be inside the callback, no callback is *)
(* left to run, and no thread goes on with a body or will resume one.      *)
NoUseAfterDestroy ==
    destroyer # None =>
        /\ callback # "armed"
        /\ \A t \in Threads \ {destroyer} : Callback \notin Frames(t)
        /\ \A c \in Coroutines, t \in Threads : Going(t, c) = {} /\ op[c] = "none"

(* A Task that is started ends: no completion is missed between the start  *)
(* of an operation and the suspension of the coroutine that awaits it.     *)
TaskEnds == result[Root] = "running" ~> result[Root] \in Outcomes
=============================================================================
