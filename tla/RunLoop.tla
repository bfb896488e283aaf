------------------------------- MODULE RunLoop -------------------------------
(***************************************************************************)
(* run_loop (include/lexec/schedulers/run_loop.hpp) as sync_wait drives it *)
(* (include/lexec/algorithms/sync_wait.hpp): the driver starts an          *)
(* operation, runs the loop until the operation's receiver calls finish()  *)
(* and the queue is empty, and destroys the loop as soon as run() returns. *)
(*                                                                         *)
(* The operation schedules tasks on the loop, and completes, from other    *)
(* threads, from the driver before run(), or from a task the loop runs.    *)
(* A thread outside the library is at "user"; what it may do there is the  *)
(* contract of a completion: it comes last.                                *)
(***************************************************************************)
EXTENDS Naturals, Sequences

CONSTANTS Workers,    \* the other threads the operation runs on
          Driver,     \* the thread that calls sync_wait
          Tasks,      \* the operations scheduled on the loop; one may be started
                      \* again, in the same storage, when it has completed
          MaxPushes,    \* bound: how often tasks are pushed
          MaxSpurious,  \* bound: spurious wakeups
          None        \* no owner of the mutex, no task

ASSUME RunLoopAssumption ==
    /\ Driver \notin Workers /\ None \notin Workers \cup {Driver} /\ None \notin Tasks
    /\ MaxPushes \in Nat /\ MaxSpurious \in Nat

Threads == Workers \cup {Driver}

VARIABLES
    state,       \* loop_state
    head, tail,  \* the intrusive list
    next,        \* run_loop_task::next
    mutex,       \* the thread that holds the mutex
    waiting,     \* whether the driver waits on the condition variable
    alive,       \* the loop's lifetime
    pc, arg,     \* where a thread is, and the task it pushes
    running,     \* whether the driver is inside run()
    current,     \* the task the driver has popped, or executes
    result,      \* whether the receiver has stored what sync_wait returns
    pushed,      \* history: the tasks in the order of their push_back
    executed,    \* history: the tasks in the order of their execution
    spurious     \* how often the driver woke without a notification

list == <<head, tail, next>>
vars == <<state, list, mutex, waiting, alive, pc, arg, running, current, result, pushed, executed, spurious>>

Init ==
    /\ state = "starting"
    /\ head = None /\ tail = None
    /\ next = [k \in Tasks |-> None]
    /\ mutex = None
    /\ waiting = FALSE
    /\ alive = TRUE
    /\ pc = [t \in Threads |-> "user"]
    /\ arg = [t \in Threads |-> None]
    /\ running = FALSE
    /\ current = None
    /\ result = FALSE
    /\ pushed = << >>
    /\ executed = << >>
    /\ spurious = 0

At(t, where) == pc[t] = where
Goto(t, where) == pc' = [pc EXCEPT ![t] = where]

Lock(t, from, to) ==
    /\ At(t, from) /\ mutex = None
    /\ mutex' = t
    /\ Goto(t, to)
    /\ UNCHANGED <<state, list, waiting, alive, arg, running, current, result, pushed, executed, spurious>>

Unlock(t, from, to) ==
    /\ At(t, from)
    /\ mutex' = None
    /\ Goto(t, to)
    /\ UNCHANGED <<state, list, waiting, alive, arg, running, current, result, pushed, executed, spurious>>

(* notify_one and notify_all: nobody but the driver waits. *)
Notify == waiting' = FALSE

-----------------------------------------------------------------------------
(* start() of a scheduled operation: push_back.                            *)

(* The positions in pushed of the tasks that wait for their execution.     *)
Waits == Len(executed) + 1 .. Len(pushed)
Queued(k) == \E i \in Waits : pushed[i] = k

(* Whose operation has completed, perhaps in the execute_fn that run() is  *)
(* inside of, may start it again.                                          *)
BeginPush(t, k) ==
    /\ At(t, "user") /\ arg[t] = None
    /\ ~Queued(k) /\ \A u \in Threads : arg[u] # k
    /\ ~result \/ (t = Driver /\ current # None)
    /\ Len(pushed) < MaxPushes
    /\ arg' = [arg EXCEPT ![t] = k]
    /\ Goto(t, "push_lock")
    /\ UNCHANGED <<state, list, mutex, waiting, alive, running, current, result, pushed, executed, spurious>>

PushLock(t) == Lock(t, "push_lock", "push")

(* The task's own link is cleared, then the last one's is set to it.       *)
LinkLast(k) ==
    \/ /\ tail = None
       /\ head' = k
       /\ next' = [next EXCEPT ![k] = None]
    \/ /\ tail # None
       /\ next' = [next EXCEPT ![k] = None, ![tail] = k]
       /\ UNCHANGED head

Push(t) ==
    /\ At(t, "push")
    /\ LinkLast(arg[t])
    /\ pushed' = Append(pushed, arg[t])
    /\ Goto(t, "push_tail")
    /\ UNCHANGED <<state, tail, mutex, waiting, alive, arg, running, current, result, executed, spurious>>

(* Mutant: the driver is woken only when it could not have been waiting. *)
NotifyLate == IF tail # None THEN Notify ELSE UNCHANGED waiting

NotifyOne == Notify

PushTail(t) ==
    /\ At(t, "push_tail")
    /\ tail' = arg[t]
    /\ NotifyOne
    /\ Goto(t, "push_unlock")
    /\ UNCHANGED <<state, head, next, mutex, alive, arg, running, current, result, pushed, executed, spurious>>

PushUnlock(t) ==
    /\ At(t, "push_unlock")
    /\ mutex' = None
    /\ arg' = [arg EXCEPT ![t] = None]
    /\ Goto(t, "user")
    /\ UNCHANGED <<state, list, waiting, alive, running, current, result, pushed, executed, spurious>>

-----------------------------------------------------------------------------
(* The operation completes: sync_wait_receiver stores the result and calls *)
(* finish().  No other thread is still starting anything on the loop.      *)

BeginFinish(t) ==
    /\ At(t, "user") /\ ~result
    /\ \A u \in Threads : arg[u] = None
    /\ result' = TRUE
    /\ Goto(t, "finish_lock")
    /\ UNCHANGED <<state, list, mutex, waiting, alive, arg, running, current, pushed, executed, spurious>>

FinishLock(t) == Lock(t, "finish_lock", "finish")

(* Mutant: the mutex is released before the notification. *)
FinishUnlocked(t) ==
    /\ At(t, "finish")
    /\ state' = "finishing"
    /\ mutex' = None
    /\ Goto(t, "finish_notify")
    /\ UNCHANGED <<list, waiting, alive, arg, running, current, result, pushed, executed, spurious>>

Finish(t) ==
    /\ At(t, "finish")
    /\ state' = "finishing"
    /\ Goto(t, "finish_notify")
    /\ UNCHANGED <<list, mutex, waiting, alive, arg, running, current, result, pushed, executed, spurious>>

FinishNotify(t) ==
    /\ At(t, "finish_notify")
    /\ Notify
    /\ Goto(t, "finish_unlock")
    /\ UNCHANGED <<state, list, mutex, alive, arg, running, current, result, pushed, executed, spurious>>

FinishUnlock(t) == Unlock(t, "finish_unlock", "user")

-----------------------------------------------------------------------------
(* run() and pop_front(), on the driver. *)

BeginRun ==
    /\ At(Driver, "user") /\ ~running
    /\ running' = TRUE
    /\ Goto(Driver, "run_lock")
    /\ UNCHANGED <<state, list, mutex, waiting, alive, arg, current, result, pushed, executed, spurious>>

RunLock == Lock(Driver, "run_lock", "run")

Run ==
    /\ At(Driver, "run")
    /\ state' = IF state = "starting" THEN "running" ELSE state
    /\ mutex' = None
    /\ Goto(Driver, "pop_lock")
    /\ UNCHANGED <<list, waiting, alive, arg, running, current, result, pushed, executed, spurious>>

PopLock == Lock(Driver, "pop_lock", "pop")

MayPop == head # None \/ state = "finishing"

(* cv.wait releases the mutex in the step in which it begins to wait. *)
Wait ==
    /\ At(Driver, "pop") /\ ~MayPop
    /\ waiting' = TRUE
    /\ mutex' = None
    /\ Goto(Driver, "wait")
    /\ UNCHANGED <<state, list, alive, arg, running, current, result, pushed, executed, spurious>>

Wake ==
    /\ At(Driver, "wait") /\ ~waiting /\ mutex = None
    /\ mutex' = Driver
    /\ Goto(Driver, "pop")
    /\ UNCHANGED <<state, list, waiting, alive, arg, running, current, result, pushed, executed, spurious>>

SpuriousWakeup ==
    /\ At(Driver, "wait") /\ waiting /\ spurious < MaxSpurious
    /\ waiting' = FALSE
    /\ spurious' = spurious + 1
    /\ UNCHANGED <<state, list, mutex, alive, pc, arg, running, current, result, pushed, executed>>

Pop ==
    /\ At(Driver, "pop") /\ MayPop /\ head # None
    /\ current' = head
    /\ head' = next[head]
    /\ Goto(Driver, "pop_tail")
    /\ UNCHANGED <<state, tail, next, mutex, waiting, alive, arg, running, result, pushed, executed, spurious>>

(* Mutant: the tail stays when the last task is taken. *)
TailKept == tail

TailAfterPop == IF head = None THEN None ELSE tail

(* pop_front returns the task, and run() calls its execute_fn. *)
PopTail ==
    /\ At(Driver, "pop_tail")
    /\ tail' = TailAfterPop
    /\ mutex' = None
    /\ executed' = Append(executed, current)
    /\ Goto(Driver, "user")
    /\ UNCHANGED <<state, head, next, waiting, alive, arg, running, current, result, pushed, spurious>>

(* The task's execute_fn returns to run(). *)
TaskReturns ==
    /\ At(Driver, "user") /\ current # None
    /\ current' = None
    /\ Goto(Driver, "pop_lock")
    /\ UNCHANGED <<state, list, mutex, waiting, alive, arg, running, result, pushed, executed, spurious>>

RunReturns ==
    /\ At(Driver, "pop") /\ MayPop /\ head = None
    /\ state' = "finished"
    /\ mutex' = None
    /\ Goto(Driver, "returned")
    /\ UNCHANGED <<list, waiting, alive, arg, running, current, result, pushed, executed, spurious>>

(* run_sync_wait returns: ~run_loop. *)
Destroy ==
    /\ At(Driver, "returned") /\ alive
    /\ alive' = FALSE
    /\ UNCHANGED <<state, list, mutex, waiting, pc, arg, running, current, result, pushed, executed, spurious>>

-----------------------------------------------------------------------------
Step(t) ==
    \/ PushLock(t) \/ Push(t) \/ PushTail(t) \/ PushUnlock(t)
    \/ FinishLock(t) \/ Finish(t) \/ FinishNotify(t) \/ FinishUnlock(t)
    \/ t = Driver /\ (BeginRun \/ RunLock \/ Run \/ PopLock \/ Wait \/ Wake \/ Pop
                      \/ PopTail \/ TaskReturns \/ RunReturns \/ Destroy)

(* sync_wait has returned, or the operation has not completed yet. *)
Idle ==
    /\ \A t \in Workers : At(t, "user")
    /\ ~alive \/ (~result /\ At(Driver, "wait"))
    /\ UNCHANGED vars

Next ==
    \/ \E t \in Threads : Step(t) \/ BeginFinish(t) \/ \E k \in Tasks : BeginPush(t, k)
    \/ SpuriousWakeup
    \/ Idle

(* Threads inside the library are scheduled, and a task the loop runs      *)
(* returns; the operation need not complete.                               *)
Spec == Init /\ [][Next]_vars /\ \A t \in Threads : WF_vars(Step(t))

-----------------------------------------------------------------------------
(* The variables have their types, and the mutex is held by the thread     *)
(* that is between lock and unlock and by nobody else.                     *)
TypeOK ==
    /\ state \in {"starting", "running", "finishing", "finished"}
    /\ head \in Tasks \cup {None} /\ tail \in Tasks \cup {None}
    /\ next \in [Tasks -> Tasks \cup {None}]
    /\ pushed \in Seq(Tasks) /\ executed \in Seq(Tasks)
    /\ mutex \in Threads \cup {None}
    /\ waiting \in BOOLEAN /\ alive \in BOOLEAN /\ running \in BOOLEAN /\ result \in BOOLEAN
    /\ arg \in [Threads -> Tasks \cup {None}]
    /\ current \in Tasks \cup {None}
    /\ spurious \in 0 .. MaxSpurious
    /\ pc \in [Threads -> {"user", "push_lock", "push", "push_tail", "push_unlock", "finish_lock",
                           "finish", "finish_notify", "finish_unlock", "run_lock", "run", "pop_lock",
                           "pop", "pop_tail", "wait", "returned"}]
    /\ \A t \in Threads :
          mutex = t <=> pc[t] \in {"push", "push_tail", "push_unlock", "finish", "finish_notify",
                                   "finish_unlock", "run", "pop", "pop_tail"}

(* Once run() has returned, its caller may destroy the loop at once:       *)
(* everything scheduled has run, the receiver was completed, the           *)
(* destructor does not terminate, and finish() on another thread no longer *)
(* touches the loop.                                                       *)
SafeReturn ==
    /\ TypeOK
    /\ At(Driver, "returned") =>
          /\ result /\ head = None /\ Waits = {} /\ state = "finished"
          /\ \A t \in Workers : At(t, "user")

(* What runs is what was pushed, in the order of the push_back calls; and  *)
(* whenever the mutex is free, head, the links and tail lead to the tasks  *)
(* that wait, to each of them once and in that order.  None is dropped,    *)
(* doubled or overtaken, also not when the storage of a task that runs is  *)
(* on the list again.                                                      *)
Linked ==
    /\ head = IF Waits = {} THEN None ELSE pushed[Len(executed) + 1]
    /\ tail = IF Waits = {} THEN None ELSE pushed[Len(pushed)]
    /\ \A i \in Waits : next[pushed[i]] = IF i = Len(pushed) THEN None ELSE pushed[i + 1]

FirstInFirstOut ==
    /\ Len(executed) <= Len(pushed) /\ \A i \in DOMAIN executed : executed[i] = pushed[i]
    /\ mutex = None => Linked

(* No wakeup is lost: a scheduled task runs, whether or not anything is    *)
(* scheduled after it, and sync_wait returns once the operation has        *)
(* completed.  Again and again nothing of this is pending.                 *)
Quiet == Waits = {} /\ (result => ~alive)

SyncWaitReturns == []<>Quiet
=============================================================================
