-------------------------------- MODULE Loops --------------------------------
(***************************************************************************)
(* repeat, repeat_n and repeat_until (include/lexec/algorithms/repeat.hpp) *)
(* on the trampoline (include/lexec/schedulers/trampoline_scheduler.hpp).  *)
(*                                                                         *)
(* Loop 1 is a repeat_n whose child starts the inner loops and completes   *)
(* with the last of them; their children are plain senders or schedule()   *)
(* of a trampoline_scheduler, and complete inside start() or on another    *)
(* thread.  The work of all of them meets in the trampoline of a thread.   *)
(*                                                                         *)
(* A thread's stack has the frames that still have something to do: the    *)
(* outermost run, a nested run that will restore the depth, a task that is *)
(* about to execute, a child's start(), or a child's completion.           *)
(***************************************************************************)
EXTENDS Naturals, Sequences, FiniteSets

CONSTANTS
    None,          \* no task, no trampoline
    Threads,       \* the threads that run loops and complete children
    N,             \* the number of loops
    Mixes,         \* the combinations of kinds they may have
    Count,         \* the bound of a repeat_n
    MaxDepth       \* trampoline_limits::max_depth

Loops == 1 .. N
Outer == 1
Inner == Loops \ {Outer}
Kinds == {"repeat", "repeat_n", "repeat_until"}

ASSUME LoopsAssumption ==
    /\ N \in Nat /\ N > 1 /\ Count \in Nat \ {0} /\ MaxDepth \in Nat \ {0}
    /\ Mixes \subseteq [Loops -> Kinds] /\ \A mix \in Mixes : mix[Outer] = "repeat_n"

(* trampoline_task: a loop_state, or the trampoline_operation it awaits.   *)
Tasks == [loop : Loops, what : {"iteration", "child"}]
Iteration(l) == [loop |-> l, what |-> "iteration"]
Child(l) == [loop |-> l, what |-> "child"]

(* trampoline_frame *)
Trampolines == [depth : Nat, head : Tasks \cup {None}, tail : Tasks \cup {None}]

ASSUME NoneAssumption == None \notin Tasks /\ None \notin Trampolines

VARIABLES
    kind,          \* which loop it is
    left,          \* data: the iterations left of a repeat_n
    result,        \* how a loop completed
    pending,       \* the loops whose child will complete on some thread
    stop,          \* whether stop was requested of the receiver
    stack,         \* the frames of each thread, the innermost last
    trampoline,    \* current_trampoline: depth, head and tail, or None
    next,          \* trampoline_task::next
    waiting        \* the tasks handed over to a thread's queue, in order

vars == <<kind, left, result, pending, stop, stack, trampoline, next, waiting>>

Init ==
    /\ kind \in Mixes
    /\ left \in [Loops -> {0, Count}] /\ \A l \in Inner : left[l] = Count
    /\ result = [l \in Loops |-> "unstarted"]
    /\ pending = {}
    /\ stop = FALSE
    /\ stack = [t \in Threads |-> <<>>]
    /\ trampoline = [t \in Threads |-> None]
    /\ next = [k \in Tasks |-> None]
    /\ waiting = [t \in Threads |-> <<>>]

Outermost == [at |-> "outermost"]
Nested == [at |-> "nested"]
Execute(k) == [at |-> "execute", task |-> k]
Starting(l, i) == [at |-> "start", loop |-> l, next |-> i]
Completing(l, tag) == [at |-> "complete", loop |-> l, tag |-> tag]

Idle(t) == stack[t] = <<>>
Top(t) == stack[t][Len(stack[t])]
Runs(t, at) == ~Idle(t) /\ Top(t).at = at
Popped(t) == SubSeq(stack[t], 1, Len(stack[t]) - 1)
SetStack(t, frames) == stack' = [stack EXCEPT ![t] = frames]

loops == <<kind, left, result, pending, stop>>
queue == <<trampoline, next, waiting>>

-----------------------------------------------------------------------------
(* trampoline_run *)

(* The stack limit may forbid what the depth allows. *)
MayNest(t) == trampoline[t].depth < MaxDepth

(* Mutant: the first task stays in the queue while it runs. *)
HeadAfterKept(t) == IF next[trampoline[t].head] = None THEN trampoline[t].head ELSE next[trampoline[t].head]

HeadAfter(t) == next[trampoline[t].head]

(* Mutant: the last task is taken from the queue, and the tail stays.      *)
TailAfterKept(t) == trampoline[t].tail

TailAfter(t) ==
    IF HeadAfter(t) = None THEN None ELSE trampoline[t].tail

(* The outermost run has a queue; a run nested in it happens at once, or   *)
(* waits in that queue.                                                    *)
RunOutermost(t, frames, k) ==
    /\ trampoline[t] = None
    /\ trampoline' = [trampoline EXCEPT ![t] = [depth |-> 1, head |-> None, tail |-> None]]
    /\ SetStack(t, frames \o <<Outermost, Execute(k)>>)
    /\ UNCHANGED <<next, waiting>>

RunNested(t, frames, k) ==
    /\ trampoline[t] # None /\ MayNest(t)
    /\ trampoline' = [trampoline EXCEPT ![t].depth = @ + 1]
    /\ SetStack(t, frames \o <<Nested, Execute(k)>>)
    /\ UNCHANGED <<next, waiting>>

Enqueue(t, frames, k) ==
    /\ trampoline[t] # None
    /\ LET tail == trampoline[t].tail
       IN  /\ next' = [j \in Tasks |-> IF j = k THEN None ELSE IF j = tail THEN k ELSE next[j]]
           /\ trampoline' = [trampoline EXCEPT ![t].tail = k, ![t].head = IF tail = None THEN k ELSE @]
    /\ waiting' = [waiting EXCEPT ![t] = Append(@, k)]
    /\ SetStack(t, frames)

Run(t, frames, k) == RunOutermost(t, frames, k) \/ RunNested(t, frames, k) \/ Enqueue(t, frames, k)

(* A nested run returns. *)
NestedReturns(t) ==
    /\ Runs(t, "nested")
    /\ trampoline' = [trampoline EXCEPT ![t].depth = @ - 1]
    /\ SetStack(t, Popped(t))
    /\ UNCHANGED <<loops, next, waiting>>

(* What ran in the outermost run has returned: the next task is taken.  A  *)
(* link that has been followed is not looked at again.                     *)
RunQueued(t) ==
    /\ Runs(t, "outermost") /\ trampoline[t].head # None
    /\ LET k == trampoline[t].head
       IN  /\ trampoline' = [trampoline EXCEPT ![t].head = HeadAfter(t), ![t].tail = TailAfter(t)]
           /\ SetStack(t, Append(stack[t], Execute(k)))
           /\ next' = [next EXCEPT ![k] = None]
    /\ waiting' = [waiting EXCEPT ![t] = SubSeq(@, 2, Len(@))]
    /\ UNCHANGED loops

RunReturns(t) ==
    /\ Runs(t, "outermost") /\ trampoline[t].head = None
    /\ trampoline' = [trampoline EXCEPT ![t] = None]
    /\ SetStack(t, Popped(t))
    /\ UNCHANGED <<loops, next, waiting>>

-----------------------------------------------------------------------------
(* The loops *)

(* A loop completes its receiver; the last inner one completes the outer   *)
(* loop's child, with an error or stopped if any of them did.              *)
Unfinished(l) == {i \in Inner \ {l} : result[i] \in {"unstarted", "running"}}
Joined(l, tag) ==
    IF \E i \in Inner : result[i] = "error" \/ tag = "error" THEN "error"
    ELSE IF \E i \in Inner : result[i] = "stopped" \/ tag = "stopped" THEN "stopped" ELSE "value"

Finish(t, frames, l, tag) ==
    /\ result' = [result EXCEPT ![l] = tag]
    /\ SetStack(t, IF l # Outer /\ Unfinished(l) = {}
                      THEN Append(frames, Completing(Outer, Joined(l, tag))) ELSE frames)
    /\ UNCHANGED queue

(* loop_state::start: a count of zero completes at once. *)
StartLoop(t, frames, l) ==
    IF kind[l] = "repeat_n" /\ left[l] = 0
       THEN Finish(t, frames, l, "value")
       ELSE result' = [result EXCEPT ![l] = "running"] /\ Run(t, frames, Iteration(l))

Start(t) ==
    /\ Idle(t) /\ result[Outer] = "unstarted"
    /\ StartLoop(t, <<>>, Outer)
    /\ UNCHANGED <<kind, left, pending, stop>>

(* Mutant: only the outer loop looks for stop. *)
EndsBeforeOuter(l) == stop /\ l = Outer

EndsBefore(l) == stop

(* iterate: stop is checked, then the child is started. *)
Iterate(t) ==
    /\ Runs(t, "execute") /\ Top(t).task.what = "iteration"
    /\ LET l == Top(t).task.loop
       IN  IF EndsBefore(l) THEN Finish(t, Popped(t), l, "stopped")
                   ELSE /\ SetStack(t, Append(Popped(t), Starting(l, 2)))
                        /\ UNCHANGED <<result, queue>>
    /\ UNCHANGED <<kind, left, pending, stop>>

(* trampoline_operation::run *)
ScheduleRuns(t) ==
    /\ Runs(t, "execute") /\ Top(t).task.what = "child"
    /\ SetStack(t, Append(Popped(t), Completing(Top(t).task.loop, IF stop THEN "stopped" ELSE "value")))
    /\ UNCHANGED <<loops, queue>>

(* The outer loop's child starts the inner loops one after the other.      *)
StartInner(t) ==
    /\ Runs(t, "start") /\ Top(t).loop = Outer
    /\ LET i == Top(t).next
       IN  StartLoop(t, IF i = N THEN Popped(t) ELSE Append(Popped(t), Starting(Outer, i + 1)), i)
    /\ UNCHANGED <<kind, left, pending, stop>>

(* An inner loop's child completes inside start(), is schedule() on the    *)
(* trampoline, or completes later.                                         *)
StartChild(t) ==
    /\ Runs(t, "start") /\ Top(t).loop # Outer
    /\ LET l == Top(t).loop
       IN  \/ /\ \E tag \in {"value", "error", "stopped"} : SetStack(t, Append(Popped(t), Completing(l, tag)))
              /\ UNCHANGED <<pending, queue>>
           \/ Run(t, Popped(t), Child(l)) /\ UNCHANGED pending
           \/ /\ pending' = pending \cup {l}
              /\ SetStack(t, Popped(t))
              /\ UNCHANGED queue
    /\ UNCHANGED <<kind, left, result, stop>>

ChildCompletes(t, l) ==
    /\ Idle(t) /\ l \in pending
    /\ pending' = pending \ {l}
    /\ \E tag \in {"value", "error", "stopped"} : SetStack(t, <<Completing(l, tag)>>)
    /\ UNCHANGED <<kind, left, result, stop, queue>>

(* A replaced outer child has new inner loops. *)
Reconnected(l, f, value) == [i \in Loops |-> IF l = Outer /\ i \in Inner THEN value ELSE f[i]]

(* iteration_done of a value: converting it, or connecting the child for   *)
(* the next iteration, may throw.                                          *)
EndsAfter(l) ==
    CASE kind[l] = "repeat" -> {"next", "error"}
      [] kind[l] = "repeat_n" -> IF left[l] = 1 THEN {"value"} ELSE {"next", "error"}
      [] kind[l] = "repeat_until" -> {"value", "next", "error"}

Outcomes(l, tag) == IF tag = "value" THEN EndsAfter(l) ELSE {tag}

IterationDone(t) ==
    /\ Runs(t, "complete")
    /\ LET l == Top(t).loop
       IN  \E how \in Outcomes(l, Top(t).tag) :
              /\ left' = IF how = "next" THEN Reconnected(l, [left EXCEPT ![l] = IF kind[l] = "repeat_n" THEN @ - 1 ELSE @], Count)
                                         ELSE left
              /\ IF how = "next"
                    THEN result' = Reconnected(l, result, "unstarted") /\ Run(t, Popped(t), Iteration(l))
                    ELSE Finish(t, Popped(t), l, how)
    /\ UNCHANGED <<kind, pending, stop>>

RequestStop ==
    /\ ~stop
    /\ stop' = TRUE
    /\ UNCHANGED <<kind, left, result, pending, stack, queue>>

-----------------------------------------------------------------------------
ThreadStep(t) ==
    \/ NestedReturns(t) \/ RunQueued(t) \/ RunReturns(t)
    \/ Iterate(t) \/ ScheduleRuns(t) \/ StartInner(t) \/ StartChild(t) \/ IterationDone(t)

(* The loops have ended, or were never started. *)
Rest == (\A t \in Threads : Idle(t)) /\ pending = {} /\ UNCHANGED vars

Next ==
    \/ \E t \in Threads : Start(t) \/ ThreadStep(t) \/ \E l \in Inner : ChildCompletes(t, l)
    \/ RequestStop
    \/ Rest

(* Threads are scheduled, and children complete. *)
Spec ==
    /\ Init /\ [][Next]_vars
    /\ \A t \in Threads : WF_vars(ThreadStep(t))
    /\ \A l \in Inner : WF_vars(\E t \in Threads : ChildCompletes(t, l))

-----------------------------------------------------------------------------
(* Where a loop is: in a frame of some stack, or in a queue.               *)
Mentions(f, l) ==
    \/ f.at = "execute" /\ f.task.loop = l
    \/ f.at \in {"start", "complete"} /\ f.loop = l

Places(l) ==
    (UNION {   {<<t, "stack", i>> : i \in {j \in DOMAIN stack[t] : Mentions(stack[t][j], l)}}
          \cup {<<t, "queue", i>> : i \in {j \in DOMAIN waiting[t] : waiting[t][j].loop = l}} : t \in Threads})
    \cup (IF l \in pending THEN {<<l, "pending", 0>>} ELSE {})

(* A running loop has one iteration at a time, in one place: about to      *)
(* start, queued, with its child, or at the child's completion.  A loop    *)
(* that has completed, or whose operation was replaced by the next         *)
(* iteration of the loop around it, is in none: its owner may destroy it.  *)
OneIterationAtATime ==
    /\ \A l \in Inner :
          Cardinality(Places(l)) = IF result[l] = "running" THEN 1 ELSE 0
    /\ \A l \in Inner : result[l] = "running" => result[Outer] = "running"
    /\ IF result[Outer] = "running"
          THEN \/ Cardinality(Places(Outer)) = 1
               \/ Places(Outer) = {} /\ \E l \in Inner : result[l] = "running"
          ELSE Places(Outer) = {}

Nests(t) == {i \in DOMAIN stack[t] : stack[t][i] = Nested}

(* Trampolined work nests no deeper than its limit, counted from where the *)
(* work in progress began; and the tasks handed over to a thread are those *)
(* on its list, from head to tail, in order: none is dropped or doubled.   *)
NestsAndQueues ==
    \A t \in Threads :
        IF trampoline[t] = None
           THEN waiting[t] = <<>> /\ \A i \in DOMAIN stack[t] : stack[t][i] \notin {Outermost, Nested}
           ELSE LET tasks == waiting[t]
                    last == Len(tasks)
                IN  /\ trampoline[t].depth = 1 + Cardinality(Nests(t))
                    /\ trampoline[t].depth <= MaxDepth
                    /\ {i \in DOMAIN stack[t] : stack[t][i] = Outermost} = {1}
                    /\ trampoline[t].head = IF last = 0 THEN None ELSE tasks[1]
                    /\ trampoline[t].tail = IF last = 0 THEN None ELSE tasks[last]
                    /\ \A i \in 1 .. last : next[tasks[i]] = IF i = last THEN None ELSE tasks[i + 1]

Queued(l) == \E t \in Threads : \E i \in DOMAIN waiting[t] : waiting[t][i] = Iteration(l)

(* A stop request ends the loops before their next iterations, and a task  *)
(* that waits in a queue runs, also beside a loop that never ends.         *)
LoopsGiveWay ==
    /\ (stop /\ result[Outer] = "running") ~> result[Outer] \notin {"unstarted", "running"}
    /\ \A l \in Inner : Queued(l) ~> ~Queued(l)
=============================================================================
