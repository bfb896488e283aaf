---------------------------- MODULE RunLoop_proofs ----------------------------
(***************************************************************************)
(* The invariants of RunLoop, for every set of threads and of tasks: head, *)
(* the links and tail lead to the tasks that wait, which run in the order  *)
(* in which they were pushed, and the loop may be destroyed as soon as     *)
(* run() returns.                                                          *)
(***************************************************************************)
EXTENDS RunLoop, TLAPS

Pushing(t) == pc[t] \in {"push_lock", "push", "push_tail", "push_unlock"}
Completing(t) == pc[t] \in {"finish_lock", "finish", "finish_notify", "finish_unlock"}

(* A thread has a task in its hands exactly while it pushes one, nobody    *)
(* else has the same, and it does not wait on the list before it is pushed. *)
ArgInv ==
    /\ \A t \in Threads : arg[t] # None <=> Pushing(t)
    /\ \A t, u \in Threads : arg[t] # None /\ arg[t] = arg[u] => t = u
    /\ \A t \in Threads : pc[t] \in {"push_lock", "push"} => ~Queued(arg[t])

(* Only the driver runs the loop; once the operation has completed no      *)
(* other thread schedules anything.                                        *)
WorkerInv ==
    \A w \in Workers :
        /\ At(w, "user") \/ Pushing(w) \/ Completing(w)
        /\ result => ~Pushing(w)

(* The operation completes once; the loop is told to finish after that.    *)
FinishInv ==
    /\ \A t \in Threads : Completing(t) => result
    /\ \A t, u \in Threads : Completing(t) /\ Completing(u) => t = u
    /\ state \in {"finishing", "finished"} =>
           result /\ \A t \in Threads : pc[t] \notin {"finish_lock", "finish"}
    /\ state = "finished" <=> At(Driver, "returned")

(* The tasks that have run are the first of those pushed, and the others   *)
(* wait at one position each.                                              *)
OrderInv ==
    /\ Len(executed) <= Len(pushed) /\ \A i \in DOMAIN executed : executed[i] = pushed[i]
    /\ \A i, j \in Waits : pushed[i] = pushed[j] => i = j

(* The list, when head is at the one and tail at the other position of     *)
(* pushed, and every link leads from a waiting task to the next.           *)
ListAt(first, last) ==
    /\ head = IF first <= Len(pushed) THEN pushed[first] ELSE None
    /\ tail = IF Len(executed) < last THEN pushed[last] ELSE None
    /\ \A i \in Waits : next[pushed[i]] = IF i = Len(pushed) THEN None ELSE pushed[i + 1]

(* The tail is one behind while a thread is inside push_back, the head one *)
(* ahead while the driver is inside pop_front; everywhere else the list is *)
(* the tasks that wait.                                                    *)
PushingInv(t) ==
    /\ Waits # {} /\ pushed[Len(pushed)] = arg[t]
    /\ ListAt(Len(executed) + 1, Len(pushed) - 1)
PoppingInv ==
    /\ Waits # {} /\ pushed[Len(executed) + 1] = current
    /\ ListAt(Len(executed) + 2, Len(pushed))
RestingInv == ListAt(Len(executed) + 1, Len(pushed))

Torn == At(Driver, "pop_tail") \/ \E t \in Threads : At(t, "push_tail")

ListInv ==
    /\ \A t \in Threads : At(t, "push_tail") => PushingInv(t)
    /\ At(Driver, "pop_tail") => PoppingInv
    /\ ~Torn => RestingInv

IInv == SafeReturn /\ ArgInv /\ WorkerInv /\ FinishInv /\ OrderInv /\ ListInv

-----------------------------------------------------------------------------
(* The initial state satisfies the invariant. *)
LEMMA InitInv == Init => IInv
<1> SUFFICES ASSUME Init PROVE IInv
  OBVIOUS
<1>1. TypeOK
  <2>1. pushed \in Seq(Tasks) /\ executed \in Seq(Tasks) /\ next \in [Tasks -> Tasks \cup {None}]
    BY DEF Init
  <2>2. spurious \in 0 .. MaxSpurious
    BY RunLoopAssumption DEF Init
  <2>3. QED BY <2>1, <2>2, RunLoopAssumption DEF Init, TypeOK, Threads
<1>2. Waits = {}
  BY DEF Init, Waits
<1>3. SafeReturn
  BY <1>1 DEF Init, SafeReturn, At, Threads
<1>4. ArgInv
  BY <1>2 DEF Init, ArgInv, Pushing, Queued
<1>5. WorkerInv /\ FinishInv
  BY DEF Init, WorkerInv, FinishInv, Pushing, Completing, At, Threads
<1>6. OrderInv
  BY <1>2 DEF Init, OrderInv
<1>7. ListInv
  BY <1>2, RunLoopAssumption DEF Init, ListInv, RestingInv, ListAt, At, Threads
<1>8. QED BY <1>3, <1>4, <1>5, <1>6, <1>7 DEF IInv

(* One thread moves at a time. *)
LEMMA Moved ==
    ASSUME TypeOK, NEW t \in Threads, NEW where, Goto(t, where)
    PROVE  \A u \in Threads : pc'[u] = IF u = t THEN where ELSE pc[u]
BY DEF TypeOK, Goto

(* The three steps that lock, and the mutex as the type invariant knows it *)
(* after any step that takes or releases it.                               *)
Locked == {"push", "push_tail", "push_unlock", "finish", "finish_notify", "finish_unlock", "run",
           "pop", "pop_tail"}
Places == Locked \cup {"user", "push_lock", "finish_lock", "run_lock", "pop_lock", "wait", "returned"}

LEMMA MutexStep ==
    ASSUME TypeOK, NEW t \in Threads, NEW where \in Places, Goto(t, where),
           \/ mutex = None /\ mutex' = t /\ where \in Locked
           \/ mutex = t /\ mutex' = None /\ where \notin Locked
           \/ mutex' = mutex /\ (where \in Locked <=> pc[t] \in Locked)
    PROVE  /\ pc' \in [Threads -> Places]
           /\ mutex' \in Threads \cup {None}
           /\ \A u \in Threads : mutex' = u <=> pc'[u] \in Locked
<1>1. None \notin Threads
  BY RunLoopAssumption DEF Threads
<1>2. pc \in [Threads -> Places]
  BY DEF TypeOK, Places, Locked
<1>3. \A u \in Threads : mutex = u <=> pc[u] \in Locked
  BY DEF TypeOK, Locked
<1>4. pc' \in [Threads -> Places]
  BY <1>2 DEF Goto
<1>5. mutex' \in Threads \cup {None}
  BY DEF TypeOK
<1>6. QED BY <1>1, <1>3, <1>4, <1>5, Moved

(* The driver is one of the threads, and what it does alone. *)
LEMMA DriverIsThread == Driver \in Threads /\ Driver \notin Workers /\ None \notin Threads
BY RunLoopAssumption DEF Threads

(* Every step keeps the types. *)
LEMMA TypeStep ==
    ASSUME TypeOK, ArgInv, OrderInv, ListInv, [Next]_vars
    PROVE  TypeOK'
<1> USE DriverIsThread
<1> DEFINE Data == /\ state \in {"starting", "running", "finishing", "finished"}
                   /\ head \in Tasks \cup {None} /\ tail \in Tasks \cup {None}
                   /\ next \in [Tasks -> Tasks \cup {None}]
                   /\ pushed \in Seq(Tasks) /\ executed \in Seq(Tasks)
                   /\ waiting \in BOOLEAN /\ alive \in BOOLEAN /\ running \in BOOLEAN /\ result \in BOOLEAN
                   /\ arg \in [Threads -> Tasks \cup {None}]
                   /\ current \in Tasks \cup {None}
                   /\ spurious \in 0 .. MaxSpurious
           Control == /\ pc \in [Threads -> Places]
                      /\ mutex \in Threads \cup {None}
                      /\ \A u \in Threads : mutex = u <=> pc[u] \in Locked
<1>1. TypeOK <=> Data /\ Control
  BY DEF TypeOK, Places, Locked
<1>2. TypeOK' <=> Data' /\ Control'
  BY DEF TypeOK, Places, Locked
<1>3. ASSUME NEW t \in Threads, PushLock(t) \/ FinishLock(t) \/ RunLock \/ PopLock PROVE Data' /\ Control'
  <2>1. Data'
    BY <1>1, <1>3 DEF PushLock, FinishLock, RunLock, PopLock, Lock, list
  <2>2. PICK u \in Threads, where \in Locked : Goto(u, where) /\ mutex = None /\ mutex' = u
    BY <1>3 DEF PushLock, FinishLock, RunLock, PopLock, Lock, Locked
  <2>3. QED BY <2>1, <2>2, MutexStep DEF Places
<1>4. ASSUME NEW t \in Threads, FinishUnlock(t) \/ PushUnlock(t) PROVE Data' /\ Control'
  <2>1. Data'
    BY <1>1, <1>4 DEF FinishUnlock, PushUnlock, Unlock, list
  <2>2. Goto(t, "user") /\ mutex = t /\ mutex' = None
    BY <1>1, <1>4 DEF FinishUnlock, PushUnlock, Unlock, At, Locked
  <2>3. QED BY <2>1, <2>2, MutexStep DEF Places, Locked
<1>5. ASSUME NEW t \in Threads, NEW k \in Tasks, BeginPush(t, k) PROVE Data' /\ Control'
  <2>1. Data'
    BY <1>1, <1>5 DEF BeginPush, list
  <2>2. QED BY <1>5, <2>1, MutexStep DEF BeginPush, At, Places, Locked
<1>6. ASSUME NEW t \in Threads, Push(t) \/ PushTail(t) PROVE Data' /\ Control'
  <2>1. arg[t] \in Tasks
    BY <1>1, <1>6 DEF Push, PushTail, ArgInv, Pushing, At
  <2>2. CASE Push(t)
    <3>1. pushed' \in Seq(Tasks)
      BY <1>1, <2>1, <2>2 DEF Push
    <3>2. head' \in Tasks \cup {None} /\ next' \in [Tasks -> Tasks \cup {None}]
      BY <1>1, <2>1, <2>2 DEF Push, LinkLast
    <3>3. Data'
      BY <1>1, <2>2, <3>1, <3>2 DEF Push
    <3>4. QED BY <2>2, <3>3, MutexStep DEF Push, At, Places, Locked
  <2>3. CASE PushTail(t)
    <3>1. Data'
      BY <1>1, <2>1, <2>3 DEF PushTail, NotifyOne, Notify
    <3>2. QED BY <2>3, <3>1, MutexStep DEF PushTail, At, Places, Locked
  <2>4. QED BY <1>6, <2>2, <2>3
<1>7. ASSUME NEW t \in Threads, BeginFinish(t) \/ Finish(t) \/ FinishNotify(t) PROVE Data' /\ Control'
  <2>1. Data'
    BY <1>1, <1>7 DEF BeginFinish, Finish, FinishNotify, Notify, list
  <2>2. QED BY <1>7, <2>1, MutexStep DEF BeginFinish, Finish, FinishNotify, At, Places, Locked
<1>8. CASE BeginRun \/ TaskReturns
  <2>1. Data'
    BY <1>1, <1>8 DEF BeginRun, TaskReturns, list
  <2>2. PICK where \in {"run_lock", "pop_lock"} : Goto(Driver, where) /\ mutex' = mutex /\ pc[Driver] = "user"
    BY <1>8 DEF BeginRun, TaskReturns, At
  <2>3. Control'
    BY <2>2, MutexStep DEF Places, Locked
  <2>4. QED BY <1>2, <2>1, <2>3
<1>9. CASE Run \/ Wait \/ RunReturns
  <2>1. Data'
    BY <1>1, <1>9 DEF Run, Wait, RunReturns, list
  <2>2. mutex = Driver /\ mutex' = None
    BY <1>1, <1>9 DEF Run, Wait, RunReturns, At, Locked
  <2>3. PICK where \in {"pop_lock", "wait", "returned"} : Goto(Driver, where)
    BY <1>9 DEF Run, Wait, RunReturns
  <2>4. Control'
    BY <2>2, <2>3, MutexStep DEF Places, Locked
  <2>5. QED BY <1>2, <2>1, <2>4
<1>10. CASE Pop \/ PopTail
  <2>1. CASE Pop
    <3>1. head \in Tasks /\ current' = head /\ head' = next[head]
      BY <1>1, <2>1 DEF Pop
    <3>2. Data'
      BY <1>1, <2>1, <3>1 DEF Pop
    <3>3. Control'
      BY <2>1, MutexStep DEF Pop, At, Places, Locked
    <3>4. QED BY <1>2, <3>2, <3>3
  <2>2. CASE PopTail
    <3>1. current \in Tasks
      BY <2>2 DEF PopTail, At, OrderInv, ListInv, PoppingInv, TypeOK, Waits
    <3>2. executed' \in Seq(Tasks)
      BY <1>1, <2>2, <3>1 DEF PopTail
    <3>3. Data'
      BY <1>1, <2>2, <3>2 DEF PopTail, TailAfterPop
    <3>4. mutex = Driver /\ mutex' = None /\ Goto(Driver, "user")
      BY <1>1, <2>2 DEF PopTail, At, Locked
    <3>5. Control'
      BY <3>4, MutexStep DEF Places, Locked
    <3>6. QED BY <1>2, <3>3, <3>5
  <2>3. QED BY <1>10, <2>1, <2>2
<1>11. CASE Wake
  <2>1. Data'
    BY <1>1, <1>11 DEF Wake, list
  <2>2. Goto(Driver, "pop") /\ mutex = None /\ mutex' = Driver
    BY <1>11 DEF Wake
  <2>3. Control'
    BY <2>2, MutexStep DEF Places, Locked
  <2>4. QED BY <1>2, <2>1, <2>3
<1>12. CASE SpuriousWakeup \/ Destroy \/ UNCHANGED vars
  <2>1. UNCHANGED <<state, list, mutex, pc, arg, running, current, result, pushed, executed>>
    BY <1>12 DEF SpuriousWakeup, Destroy, vars
  <2>2. waiting' \in BOOLEAN /\ alive' \in BOOLEAN /\ spurious' \in 0 .. MaxSpurious
    <3>1. waiting \in BOOLEAN /\ alive \in BOOLEAN /\ spurious \in 0 .. MaxSpurious /\ MaxSpurious \in Nat
      BY <1>1, RunLoopAssumption
    <3>2. CASE SpuriousWakeup
      <4>1. waiting' = FALSE /\ alive' = alive /\ spurious < MaxSpurious /\ spurious' = spurious + 1
        BY <3>2 DEF SpuriousWakeup
      <4>2. spurious' \in 0 .. MaxSpurious
        BY <3>1, <4>1
      <4>3. QED BY <3>1, <4>1, <4>2
    <3>3. CASE Destroy \/ UNCHANGED vars
      BY <3>1, <3>3 DEF Destroy, vars
    <3>4. QED BY <1>12, <3>2, <3>3
  <2>3. Data'
    BY <1>1, <2>1, <2>2 DEF list
  <2>4. Control'
    BY <1>1, <2>1
  <2>5. QED BY <1>2, <2>3, <2>4
<1>13. QED
  BY <1>1, <1>2, <1>3, <1>4, <1>5, <1>6, <1>7, <1>8, <1>9, <1>10, <1>11, <1>12 DEF Next, Step, Idle

-----------------------------------------------------------------------------
(* The driver's own steps: it goes from one place in run() to another.     *)
DriverStep ==
    \/ BeginRun \/ RunLock \/ Run \/ PopLock \/ Wait \/ Wake
    \/ Pop \/ PopTail \/ TaskReturns \/ RunReturns

LEMMA DriverMoves ==
    ASSUME TypeOK, DriverStep
    PROVE  /\ UNCHANGED <<arg, result, pushed>>
           /\ \A u \in Threads \ {Driver} : pc'[u] = pc[u]
           /\ pc[Driver] \in {"user", "run_lock", "run", "pop_lock", "pop", "pop_tail", "wait"}
           /\ pc'[Driver] \in {"user", "run_lock", "run", "pop_lock", "pop", "pop_tail", "wait", "returned"}
           /\ pc'[Driver] = "returned" => RunReturns
<1> USE DriverIsThread, Moved
<1>1. UNCHANGED <<arg, result, pushed>>
  BY DEF DriverStep, BeginRun, RunLock, Run, PopLock, Wait, Wake, Pop, PopTail, TaskReturns, RunReturns, Lock
<1>2. pc[Driver] \in {"user", "run_lock", "run", "pop_lock", "pop", "pop_tail", "wait"}
  BY DEF DriverStep, BeginRun, RunLock, Run, PopLock, Wait, Wake, Pop, PopTail, TaskReturns, RunReturns, Lock, At
<1>3. \/ RunReturns /\ Goto(Driver, "returned")
      \/ \E where \in {"user", "run_lock", "run", "pop_lock", "pop", "pop_tail", "wait"} : Goto(Driver, where)
  BY DEF DriverStep, BeginRun, RunLock, Run, PopLock, Wait, Wake, Pop, PopTail, TaskReturns, RunReturns, Lock
<1>4. QED BY <1>1, <1>2, <1>3

(* A completing thread's steps: it stays one, or returns. *)
FinishStep(t) == BeginFinish(t) \/ FinishLock(t) \/ Finish(t) \/ FinishNotify(t) \/ FinishUnlock(t)

LEMMA FinishMoves ==
    ASSUME TypeOK, NEW t \in Threads, FinishStep(t)
    PROVE  /\ UNCHANGED <<arg, list, pushed, executed>>
           /\ \A u \in Threads \ {t} : pc'[u] = pc[u]
           /\ pc[t] = "user" \/ Completing(t)
           /\ pc'[t] = "user" \/ Completing(t)'
<1>1. UNCHANGED <<arg, list, pushed, executed>>
  BY DEF FinishStep, BeginFinish, FinishLock, Finish, FinishNotify, FinishUnlock, Lock, Unlock
<1>2. pc[t] = "user" \/ Completing(t)
  BY DEF FinishStep, BeginFinish, FinishLock, Finish, FinishNotify, FinishUnlock, Lock, Unlock, At, Completing
<1>3. \E where \in {"user", "finish_lock", "finish", "finish_notify", "finish_unlock"} : Goto(t, where)
  BY DEF FinishStep, BeginFinish, FinishLock, Finish, FinishNotify, FinishUnlock, Lock, Unlock
<1>4. QED BY <1>1, <1>2, <1>3, Moved DEF Completing

(* What is left moves nobody. *)
RestStep == SpuriousWakeup \/ Destroy \/ UNCHANGED vars

LEMMA RestMoves ==
    ASSUME RestStep
    PROVE  UNCHANGED <<state, list, mutex, pc, arg, running, current, result, pushed, executed>>
BY DEF RestStep, SpuriousWakeup, Destroy, vars

LEMMA Steps ==
    ASSUME [Next]_vars
    PROVE  \/ \E t \in Threads, k \in Tasks : BeginPush(t, k)
           \/ \E t \in Threads : PushLock(t) \/ Push(t) \/ PushTail(t) \/ PushUnlock(t) \/ FinishStep(t)
           \/ DriverStep
           \/ RestStep
BY DEF Next, Step, Idle, FinishStep, DriverStep, RestStep

-----------------------------------------------------------------------------
(* Which of push_back's and pop_front's halves changes what.               *)
LEMMA ListSteps ==
    ASSUME TypeOK, [Next]_vars, \A t \in Threads : ~Push(t) /\ ~PushTail(t), ~Pop, ~PopTail
    PROVE  /\ UNCHANGED <<list, pushed, executed>>
           /\ \A t \in Threads : At(t, "push_tail")' <=> At(t, "push_tail")
           /\ \A t \in Threads : At(t, "push_tail") => arg'[t] = arg[t]
           /\ At(Driver, "pop_tail")' <=> At(Driver, "pop_tail")
           /\ At(Driver, "pop_tail") => current' = current
<1> USE DriverIsThread
<1>1. ASSUME NEW t \in Threads, NEW k \in Tasks, BeginPush(t, k)
      PROVE  /\ UNCHANGED <<list, pushed, executed, current>>
             /\ pc[t] = "user" /\ \A u \in Threads : pc'[u] = IF u = t THEN "push_lock" ELSE pc[u]
             /\ \A u \in Threads \ {t} : arg'[u] = arg[u]
  BY <1>1, Moved DEF BeginPush, At, TypeOK
<1>2. ASSUME NEW t \in Threads, PushLock(t)
      PROVE  /\ UNCHANGED <<list, pushed, executed, current, arg>>
             /\ pc[t] = "push_lock" /\ \A u \in Threads : pc'[u] = IF u = t THEN "push" ELSE pc[u]
  BY <1>2, Moved DEF PushLock, Lock, At
<1>3. ASSUME NEW t \in Threads, PushUnlock(t)
      PROVE  /\ UNCHANGED <<list, pushed, executed, current>>
             /\ pc[t] = "push_unlock" /\ \A u \in Threads : pc'[u] = IF u = t THEN "user" ELSE pc[u]
             /\ \A u \in Threads \ {t} : arg'[u] = arg[u]
  BY <1>3, Moved DEF PushUnlock, At, TypeOK
<1>4. ASSUME NEW t \in Threads, FinishStep(t)
      PROVE  /\ UNCHANGED <<list, pushed, executed, arg, current>>
             /\ \A u \in Threads : pc'[u] = pc[u] \/ (/\ pc[u] \notin {"push_tail", "pop_tail"}
                                                    /\ pc'[u] \notin {"push_tail", "pop_tail"})
  <2>1. current' = current
    BY <1>4 DEF FinishStep, BeginFinish, FinishLock, Finish, FinishNotify, FinishUnlock, Lock, Unlock
  <2>2. QED BY <1>4, <2>1, FinishMoves DEF Completing
<1>5. ASSUME DriverStep, ~Pop, ~PopTail
      PROVE  /\ UNCHANGED <<list, pushed, executed, arg>>
             /\ \A u \in Threads \ {Driver} : pc'[u] = pc[u]
             /\ pc[Driver] \in {"user", "run_lock", "run", "pop_lock", "pop", "wait"}
             /\ pc'[Driver] \in {"user", "run_lock", "run", "pop_lock", "pop", "wait", "returned"}
  <2>1. UNCHANGED <<list, pushed, executed, arg>>
    BY <1>5 DEF DriverStep, BeginRun, RunLock, Run, PopLock, Wait, Wake, TaskReturns, RunReturns, Lock
  <2>2. pc[Driver] \in {"user", "run_lock", "run", "pop_lock", "pop", "wait"}
    BY <1>5 DEF DriverStep, BeginRun, RunLock, Run, PopLock, Wait, Wake, TaskReturns, RunReturns, Lock, At
  <2>3. \E where \in {"user", "run_lock", "run", "pop_lock", "pop", "wait", "returned"} : Goto(Driver, where)
    BY <1>5 DEF DriverStep, BeginRun, RunLock, Run, PopLock, Wait, Wake, TaskReturns, RunReturns, Lock
  <2>4. QED BY <1>5, <2>1, <2>2, <2>3, Moved, DriverMoves
<1>6. CASE RestStep
  BY <1>6, RestMoves DEF At
<1>7. CASE \E t \in Threads, k \in Tasks : BeginPush(t, k)
  BY <1>1, <1>7 DEF At
<1>8. CASE \E t \in Threads : PushLock(t) \/ PushUnlock(t) \/ FinishStep(t)
  BY <1>2, <1>3, <1>4, <1>8 DEF At
<1>9. CASE DriverStep
  BY <1>5, <1>9 DEF At
<1>10. QED BY <1>6, <1>7, <1>8, <1>9, Steps

(* A push adds the last position of the list, a pop takes the first. *)
LEMMA Appended ==
    ASSUME TypeOK, NEW k \in Tasks, pushed' = Append(pushed, k)
    PROVE  /\ Len(pushed') = Len(pushed) + 1 /\ pushed'[Len(pushed) + 1] = k
           /\ \A i \in 1 .. Len(pushed) : pushed'[i] = pushed[i]
BY DEF TypeOK

LEMMA Taken ==
    ASSUME TypeOK, OrderInv, ListInv, PopTail
    PROVE  /\ Waits # {} /\ pushed[Len(executed) + 1] = current /\ current \in Tasks
           /\ Len(executed') = Len(executed) + 1 /\ executed'[Len(executed) + 1] = current
           /\ \A i \in 1 .. Len(executed) : executed'[i] = executed[i]
           /\ Waits' = Waits \ {Len(executed) + 1}
           /\ pushed' = pushed
<1>1. Waits # {} /\ pushed[Len(executed) + 1] = current /\ pushed' = pushed
  BY DEF PopTail, ListInv, PoppingInv
<1>2. Len(executed) + 1 \in 1 .. Len(pushed)
  BY <1>1 DEF Waits, TypeOK
<1>3. current \in Tasks
  BY <1>1, <1>2 DEF TypeOK
<1>4. /\ Len(executed') = Len(executed) + 1 /\ executed'[Len(executed) + 1] = current
      /\ \A i \in 1 .. Len(executed) : executed'[i] = executed[i]
  BY <1>3 DEF PopTail, TypeOK
<1>5. Waits' = Waits \ {Len(executed) + 1}
  BY <1>1, <1>4 DEF Waits, TypeOK
<1>6. QED BY <1>1, <1>3, <1>4, <1>5

-----------------------------------------------------------------------------
(* A task is in the hands of one thread until it is on the list. *)
LEMMA ArgStep ==
    ASSUME TypeOK, ArgInv, OrderInv, ListInv, [Next]_vars
    PROVE  ArgInv'
<1> USE DriverIsThread, RunLoopAssumption
<1>1. ASSUME NEW t \in Threads, NEW k \in Tasks, BeginPush(t, k) PROVE ArgInv'
  <2>1. pc[t] = "user" /\ k # None /\ ~Queued(k) /\ \A u \in Threads : arg[u] # k
    BY <1>1 DEF BeginPush, At
  <2>2. \A u \in Threads : pc'[u] = IF u = t THEN "push_lock" ELSE pc[u]
    BY <1>1, Moved DEF BeginPush
  <2>3. \A u \in Threads : arg'[u] = IF u = t THEN k ELSE arg[u]
    BY <1>1 DEF BeginPush, TypeOK
  <2>4. \A c \in Tasks \cup {None} : Queued(c)' <=> Queued(c)
    BY <1>1 DEF BeginPush, Queued, Waits
  <2>5. arg \in [Threads -> Tasks \cup {None}]
    BY DEF TypeOK
  <2>6. QED BY <2>1, <2>2, <2>3, <2>4, <2>5 DEF ArgInv, Pushing, Queued
<1>2. ASSUME NEW t \in Threads, PushLock(t) PROVE ArgInv'
  <2>1. pc[t] = "push_lock" /\ UNCHANGED <<arg, pushed, executed>>
    BY <1>2 DEF PushLock, Lock, At
  <2>2. \A u \in Threads : pc'[u] = IF u = t THEN "push" ELSE pc[u]
    BY <1>2, Moved DEF PushLock, Lock
  <2>3. QED BY <2>1, <2>2 DEF ArgInv, Pushing, Queued, Waits
<1>3. ASSUME NEW t \in Threads, Push(t) PROVE ArgInv'
  <2>1. pc[t] = "push" /\ arg' = arg /\ executed' = executed /\ pushed' = Append(pushed, arg[t]) /\ arg[t] # None
    BY <1>3 DEF Push, At, ArgInv, Pushing
  <2>2. \A u \in Threads : pc'[u] = IF u = t THEN "push_tail" ELSE pc[u]
    BY <1>3, Moved DEF Push
  <2>3. arg[t] \in Tasks
    BY <2>1 DEF TypeOK
  <2>4. ASSUME NEW u \in Threads, pc'[u] \in {"push_lock", "push"} PROVE ~Queued(arg[u])'
    <3>1. u # t /\ pc[u] \in {"push_lock", "push"}
      BY <2>2, <2>4
    <3>2. ~Queued(arg[u]) /\ arg[u] # arg[t]
      BY <2>1, <3>1 DEF ArgInv
    <3>3. QED BY <2>1, <2>3, <3>2, Appended DEF Queued, Waits, TypeOK
  <2>5. QED BY <2>1, <2>2, <2>4 DEF ArgInv, Pushing
<1>4. ASSUME NEW t \in Threads, PushTail(t) PROVE ArgInv'
  <2>1. pc[t] = "push_tail" /\ UNCHANGED <<arg, pushed, executed>>
    BY <1>4 DEF PushTail, At
  <2>2. \A u \in Threads : pc'[u] = IF u = t THEN "push_unlock" ELSE pc[u]
    BY <1>4, Moved DEF PushTail
  <2>3. QED BY <2>1, <2>2 DEF ArgInv, Pushing, Queued, Waits
<1>5. ASSUME NEW t \in Threads, PushUnlock(t) PROVE ArgInv'
  <2>1. pc[t] = "push_unlock" /\ pushed' = pushed /\ executed' = executed
    BY <1>5 DEF PushUnlock, At
  <2>2. \A u \in Threads : pc'[u] = IF u = t THEN "user" ELSE pc[u]
    BY <1>5, Moved DEF PushUnlock
  <2>3. \A u \in Threads : arg'[u] = IF u = t THEN None ELSE arg[u]
    BY <1>5 DEF PushUnlock, TypeOK
  <2>4. QED BY <2>1, <2>2, <2>3 DEF ArgInv, Pushing, Queued, Waits
<1>6. ASSUME NEW t \in Threads, FinishStep(t) PROVE ArgInv'
  BY <1>6, FinishMoves DEF ArgInv, Pushing, Completing, Queued, Waits
<1>7. CASE DriverStep
  <2>1. /\ arg' = arg /\ \A u \in Threads : Pushing(u)' <=> Pushing(u)
        /\ \A u \in Threads : pc'[u] \in {"push_lock", "push"} => pc[u] \in {"push_lock", "push"}
    BY <1>7, DriverMoves DEF Pushing
  <2>2. \A c \in Tasks \cup {None} : Queued(c)' => Queued(c)
    <3>1. CASE PopTail
      BY <3>1, Taken DEF Queued
    <3>2. CASE ~PopTail
      BY <1>7, <3>2 DEF DriverStep, BeginRun, RunLock, Run, PopLock, Wait, Wake, Pop, TaskReturns, RunReturns, Lock,
                        Queued, Waits
    <3>3. QED BY <3>1, <3>2
  <2>3. arg \in [Threads -> Tasks \cup {None}]
    BY DEF TypeOK
  <2>4. ASSUME NEW u \in Threads, pc'[u] \in {"push_lock", "push"} PROVE ~Queued(arg[u])'
    <3>1. pc[u] \in {"push_lock", "push"}
      BY <2>1, <2>4
    <3>2. ~Queued(arg[u])
      BY <3>1 DEF ArgInv
    <3>3. arg'[u] = arg[u] /\ arg[u] \in Tasks \cup {None}
      BY <2>1, <2>3
    <3>4. QED BY <2>2, <3>2, <3>3 DEF Queued
  <2>5. QED BY <2>1, <2>4 DEF ArgInv, Pushing
<1>8. CASE RestStep
  BY <1>8, RestMoves DEF ArgInv, Pushing, Queued, Waits
<1>9. QED BY <1>1, <1>2, <1>3, <1>4, <1>5, <1>6, <1>7, <1>8, Steps

(* The other threads push or complete, and push no more once the operation *)
(* has completed.                                                          *)
LEMMA WorkerStep ==
    ASSUME TypeOK, ArgInv, WorkerInv, [Next]_vars
    PROVE  WorkerInv'
<1> USE DriverIsThread
<1> USE DEF Threads
<1>1. ASSUME NEW t \in Threads, NEW k \in Tasks, BeginPush(t, k) PROVE WorkerInv'
  <2>1. result' = result /\ (t \in Workers => ~result)
    BY <1>1 DEF BeginPush
  <2>2. \A u \in Threads : pc'[u] = IF u = t THEN "push_lock" ELSE pc[u]
    BY <1>1, Moved DEF BeginPush
  <2>3. QED BY <2>1, <2>2 DEF WorkerInv, Pushing, Completing, At
<1>2. ASSUME NEW t \in Threads, PushLock(t) \/ Push(t) \/ PushTail(t) \/ PushUnlock(t) PROVE WorkerInv'
  <2>1. result' = result /\ Pushing(t)
    BY <1>2 DEF PushLock, Push, PushTail, PushUnlock, Lock, At, Pushing
  <2>2. PICK where \in {"push", "push_tail", "push_unlock", "user"} : \A u \in Threads : pc'[u] = IF u = t THEN where ELSE pc[u]
    BY <1>2, Moved DEF PushLock, Push, PushTail, PushUnlock, Lock
  <2>3. QED BY <2>1, <2>2 DEF WorkerInv, Pushing, Completing, At
<1>3. ASSUME NEW t \in Threads, BeginFinish(t) PROVE WorkerInv'
  <2>1. \A u \in Threads : ~Pushing(u)
    BY <1>3 DEF BeginFinish, ArgInv
  <2>2. QED BY <1>3, <2>1, Moved DEF BeginFinish, WorkerInv, Pushing, Completing, At
<1>4. ASSUME NEW t \in Threads, FinishLock(t) \/ Finish(t) \/ FinishNotify(t) \/ FinishUnlock(t)
     PROVE WorkerInv'
  <2>1. result' = result
    BY <1>4 DEF FinishLock, Finish, FinishNotify, FinishUnlock, Lock, Unlock
  <2>2. QED BY <1>4, <2>1, FinishMoves DEF FinishStep, WorkerInv, Pushing, Completing, At
<1>5. CASE DriverStep
  BY <1>5, DriverMoves DEF WorkerInv, Pushing, Completing, At
<1>6. CASE RestStep
  BY <1>6, RestMoves DEF WorkerInv, Pushing, Completing, At
<1>7. QED BY <1>1, <1>2, <1>3, <1>4, <1>5, <1>6, Steps DEF FinishStep

(* One thread completes the operation, and the loop finishes after that.   *)
LEMMA FinishInvStep ==
    ASSUME TypeOK, FinishInv, [Next]_vars
    PROVE  FinishInv'
<1> USE DriverIsThread
<1>1. ASSUME NEW t \in Threads, NEW k \in Tasks, BeginPush(t, k) PROVE FinishInv'
  <2>1. UNCHANGED <<state, result>> /\ pc[t] = "user"
    BY <1>1 DEF BeginPush, At
  <2>2. \A u \in Threads : pc'[u] = IF u = t THEN "push_lock" ELSE pc[u]
    BY <1>1, Moved DEF BeginPush
  <2>3. QED BY <2>1, <2>2 DEF FinishInv, Completing, At
<1>2. ASSUME NEW t \in Threads, PushLock(t) \/ Push(t) \/ PushTail(t) \/ PushUnlock(t) PROVE FinishInv'
  <2>1. UNCHANGED <<state, result>> /\ Pushing(t)
    BY <1>2 DEF PushLock, Push, PushTail, PushUnlock, Lock, At, Pushing
  <2>2. PICK where \in {"push", "push_tail", "push_unlock", "user"} : \A u \in Threads : pc'[u] = IF u = t THEN where ELSE pc[u]
    BY <1>2, Moved DEF PushLock, Push, PushTail, PushUnlock, Lock
  <2>3. QED BY <2>1, <2>2 DEF FinishInv, Pushing, Completing, At
<1>3. ASSUME NEW t \in Threads, BeginFinish(t) PROVE FinishInv'
  <2>1. ~result /\ result' /\ state' = state /\ pc[t] = "user"
    BY <1>3 DEF BeginFinish, At
  <2>2. \A u \in Threads : pc'[u] = IF u = t THEN "finish_lock" ELSE pc[u]
    BY <1>3, Moved DEF BeginFinish
  <2>3. QED BY <2>1, <2>2 DEF FinishInv, Completing, At
<1>4. ASSUME NEW t \in Threads, FinishLock(t) \/ Finish(t) \/ FinishNotify(t) \/ FinishUnlock(t)
     PROVE FinishInv'
  <2>1. result' = result /\ Completing(t) /\ result
    BY <1>4 DEF FinishLock, Finish, FinishNotify, FinishUnlock, Lock, Unlock, At, Completing, FinishInv
  <2>2. \A u \in Threads \ {t} : pc'[u] = pc[u] /\ ~Completing(u)
    BY <1>4, <2>1, FinishMoves DEF FinishStep, FinishInv
  <2>3. CASE FinishLock(t)
    <3>1. state' = state /\ pc[t] = "finish_lock" /\ pc'[t] = "finish"
      BY <2>3, Moved DEF FinishLock, Lock, At
    <3>2. QED BY <2>1, <2>2, <3>1 DEF FinishInv, Completing, At
  <2>4. CASE Finish(t)
    <3>1. state' = "finishing" /\ pc[t] = "finish" /\ pc'[t] = "finish_notify"
      BY <2>4, Moved DEF Finish, At
    <3>2. QED BY <2>1, <2>2, <3>1 DEF FinishInv, Completing, At
  <2>5. CASE FinishNotify(t) \/ FinishUnlock(t)
    <3>1. /\ state' = state /\ pc[t] \in {"finish_notify", "finish_unlock"}
          /\ pc'[t] \in {"finish_unlock", "user"}
      BY <2>5, Moved DEF FinishNotify, FinishUnlock, Unlock, At
    <3>2. QED BY <2>1, <2>2, <3>1 DEF FinishInv, Completing, At
  <2>6. QED BY <1>4, <2>3, <2>4, <2>5
<1>5. CASE DriverStep
  <2>1. \A u \in Threads : Completing(u)' <=> Completing(u)
    BY <1>5, DriverMoves DEF Completing
  <2>2. CASE RunReturns
    <3>1. state = "finishing" /\ state' = "finished" /\ pc'[Driver] = "returned"
      BY <2>2, Moved DEF RunReturns, MayPop
    <3>2. QED BY <1>5, <2>1, <3>1, DriverMoves DEF FinishInv, Completing, At
  <2>3. CASE ~RunReturns
    <3>1. state' = state \/ (state = "starting" /\ state' = "running")
      BY <1>5, <2>3 DEF DriverStep, BeginRun, RunLock, Run, PopLock, Wait, Wake, Pop, PopTail, TaskReturns, Lock
    <3>2. pc[Driver] # "returned" /\ pc'[Driver] # "returned"
      BY <1>5, <2>3, DriverMoves
    <3>3. QED BY <1>5, <2>1, <3>1, <3>2, DriverMoves DEF FinishInv, Completing, At
  <2>4. QED BY <2>2, <2>3
<1>6. CASE RestStep
  BY <1>6, RestMoves DEF FinishInv, Completing, At
<1>7. QED BY <1>1, <1>2, <1>3, <1>4, <1>5, <1>6, Steps DEF FinishStep

-----------------------------------------------------------------------------
(* What runs is what was pushed, in order, and nothing waits twice. *)
LEMMA OrderStep ==
    ASSUME TypeOK, ArgInv, OrderInv, ListInv, [Next]_vars
    PROVE  OrderInv'
<1>1. ASSUME NEW t \in Threads, Push(t) PROVE OrderInv'
  <2>1. pushed' = Append(pushed, arg[t]) /\ executed' = executed /\ ~Queued(arg[t]) /\ arg[t] # None
    BY <1>1 DEF Push, At, ArgInv, Pushing
  <2>2. arg[t] \in Tasks
    BY <2>1 DEF TypeOK
  <2>3. Waits' = Waits \cup {Len(pushed) + 1} /\ Waits \subseteq 1 .. Len(pushed)
    BY <2>1, <2>2, Appended DEF Waits, OrderInv, TypeOK
  <2>4. Len(executed') <= Len(pushed') /\ \A i \in DOMAIN executed' : executed'[i] = pushed'[i]
    BY <2>1, <2>2, Appended DEF OrderInv, TypeOK
  <2>5. \A i, j \in Waits' : pushed'[i] = pushed'[j] => i = j
    BY <2>1, <2>2, <2>3, Appended DEF OrderInv, Queued, TypeOK
  <2>6. QED BY <2>4, <2>5 DEF OrderInv
<1>2. CASE PopTail
  <2>1. Len(executed') <= Len(pushed')
    BY <1>2, Taken DEF Waits, TypeOK
  <2>2. \A i \in DOMAIN executed' : executed'[i] = pushed'[i]
    <3>1. DOMAIN executed' = 1 .. Len(executed) + 1 /\ DOMAIN executed = 1 .. Len(executed)
      BY <1>2, Taken DEF PopTail, TypeOK
    <3>2. QED BY <1>2, <3>1, Taken DEF OrderInv
  <2>3. QED BY <1>2, <2>1, <2>2, Taken DEF OrderInv
<1>3. CASE UNCHANGED <<pushed, executed>>
  BY <1>3 DEF OrderInv, Waits
<1>4. (\A t \in Threads : ~Push(t)) /\ ~PopTail => UNCHANGED <<pushed, executed>>
  BY ListSteps DEF PushTail, Pop
<1>5. QED BY <1>1, <1>2, <1>3, <1>4

(* One thread at a time is inside push_back or pop_front. *)
LEMMA Alone ==
    ASSUME TypeOK, NEW t \in Threads, pc[t] \in Locked
    PROVE  \A u \in Threads \ {t} : pc[u] \notin Locked
BY DEF TypeOK, Locked

(* push_back's first half: the link to the new task is set, the tail is    *)
(* one behind.                                                             *)
LEMMA PushStep ==
    ASSUME TypeOK, ArgInv, OrderInv, ListInv, NEW t \in Threads, Push(t)
    PROVE  ListInv'
<1> USE DriverIsThread, RunLoopAssumption
<1>1. pc[t] = "push" /\ \A u \in Threads : pc'[u] = IF u = t THEN "push_tail" ELSE pc[u]
  BY Moved DEF Push, At
<1>2. \A u \in Threads \ {t} : pc[u] \notin {"push_tail", "pop_tail"}
  BY <1>1, Alone DEF Locked
<1>3. RestingInv
  BY <1>1, <1>2 DEF ListInv, Torn, At
<1>4. /\ arg' = arg /\ tail' = tail /\ executed' = executed /\ pushed' = Append(pushed, arg[t])
      /\ LinkLast(arg[t]) /\ arg[t] # None /\ ~Queued(arg[t])
  BY <1>1 DEF Push, ArgInv, Pushing
<1>5. arg[t] \in Tasks
  BY <1>4 DEF TypeOK
<1>6. /\ Len(executed) \in Nat /\ Len(pushed) \in Nat /\ Len(executed) <= Len(pushed)
      /\ \A i \in 1 .. Len(pushed) : pushed[i] \in Tasks
      /\ next \in [Tasks -> Tasks \cup {None}]
  BY DEF TypeOK, OrderInv
<1>7. /\ Len(pushed') = Len(pushed) + 1 /\ pushed'[Len(pushed) + 1] = arg[t]
      /\ \A i \in 1 .. Len(pushed) : pushed'[i] = pushed[i]
  BY <1>4, <1>5, Appended
<1>8. /\ Waits' = Waits \cup {Len(pushed) + 1}
      /\ \A i \in Waits : i \in 1 .. Len(pushed) /\ pushed[i] # arg[t]
  BY <1>4, <1>6, <1>7 DEF Waits, Queued
<1>9. head' = pushed'[Len(executed) + 1]
  BY <1>3, <1>4, <1>6, <1>7 DEF RestingInv, ListAt, LinkLast
<1>10. tail' = IF Len(executed) < Len(pushed) THEN pushed'[Len(pushed)] ELSE None
  BY <1>3, <1>4, <1>6, <1>7 DEF RestingInv, ListAt
<1>11. ASSUME NEW i \in Waits' PROVE next'[pushed'[i]] = IF i = Len(pushed') THEN None ELSE pushed'[i + 1]
  <2>1. CASE i = Len(pushed) + 1
    <3>1. tail # None => tail # arg[t]
      BY <1>3, <1>6, <1>8 DEF RestingInv, ListAt, Waits
    <3>2. next'[arg[t]] = None
      BY <1>4, <1>5, <1>6, <3>1 DEF LinkLast
    <3>3. QED BY <1>7, <2>1, <3>2
  <2>2. CASE i = Len(pushed) /\ i \in Waits
    <3>1. tail = pushed[Len(pushed)] /\ tail \in Tasks
      BY <1>3, <1>6, <2>2 DEF RestingInv, ListAt, Waits
    <3>2. next'[tail] = arg[t]
      BY <1>4, <1>6, <3>1 DEF LinkLast
    <3>3. QED BY <1>6, <1>7, <1>8, <2>2, <3>1, <3>2
  <2>3. CASE i < Len(pushed) /\ i \in Waits
    <3>1. tail = pushed[Len(pushed)] /\ Len(pushed) \in Waits
      BY <1>3, <1>6, <2>3 DEF RestingInv, ListAt, Waits
    <3>2. pushed[i] # tail /\ pushed[i] # arg[t] /\ pushed[i] \in Tasks
      BY <1>6, <1>8, <2>3, <3>1 DEF OrderInv
    <3>3. next'[pushed[i]] = next[pushed[i]]
      BY <1>4, <1>6, <3>2 DEF LinkLast
    <3>4. next[pushed[i]] = pushed[i + 1]
      BY <1>3, <2>3 DEF RestingInv, ListAt
    <3>5. i + 1 \in 1 .. Len(pushed) /\ i \in 1 .. Len(pushed) /\ i # Len(pushed')
      BY <1>6, <1>7, <1>8, <2>3
    <3>6. QED BY <1>7, <3>3, <3>4, <3>5
  <2>4. QED BY <1>6, <1>8, <2>1, <2>2, <2>3
<1>12. PushingInv(t)'
  <2>1. Waits' # {} /\ pushed'[Len(pushed')] = arg'[t]
    BY <1>4, <1>7, <1>8
  <2>2. Len(pushed') - 1 = Len(pushed) /\ Len(executed') + 1 <= Len(pushed')
    BY <1>4, <1>6, <1>7
  <2>3. ListAt(Len(executed) + 1, Len(pushed) - 1)'
    BY <1>4, <1>9, <1>10, <1>11, <2>2 DEF ListAt
  <2>4. QED BY <2>1, <2>3 DEF PushingInv
<1>13. QED BY <1>1, <1>2, <1>12 DEF ListInv, Torn, At, PushingInv

(* Its second half: the tail is the new task. *)
LEMMA PushTailStep ==
    ASSUME TypeOK, OrderInv, ListInv, NEW t \in Threads, PushTail(t)
    PROVE  ListInv'
<1> USE DriverIsThread
<1>1. pc[t] = "push_tail" /\ \A u \in Threads : pc'[u] = IF u = t THEN "push_unlock" ELSE pc[u]
  BY Moved DEF PushTail, At
<1>2. \A u \in Threads : pc'[u] \notin {"push_tail", "pop_tail"}
  BY <1>1, Alone DEF Locked
<1>3. PushingInv(t)
  BY <1>1 DEF ListInv, At
<1>4. tail' = arg[t] /\ UNCHANGED <<head, next, pushed, executed>>
  BY DEF PushTail
<1>5. Len(executed) < Len(pushed)
  BY <1>3 DEF PushingInv, Waits, TypeOK
<1>6. RestingInv'
  BY <1>3, <1>4, <1>5 DEF PushingInv, RestingInv, ListAt, Waits
<1>7. QED BY <1>2, <1>6 DEF ListInv, At

(* pop_front's first half: head leads on to what waits behind the task.    *)
LEMMA PopStep ==
    ASSUME TypeOK, OrderInv, ListInv, Pop
    PROVE  ListInv'
<1> USE DriverIsThread, RunLoopAssumption
<1>1. pc[Driver] = "pop" /\ \A u \in Threads : pc'[u] = IF u = Driver THEN "pop_tail" ELSE pc[u]
  BY Moved DEF Pop, At
<1>2. \A u \in Threads : pc[u] \notin {"push_tail", "pop_tail"}
  BY <1>1, Alone DEF Locked
<1>3. RestingInv
  BY <1>2 DEF ListInv, Torn, At
<1>4. head # None /\ current' = head /\ head' = next[head] /\ UNCHANGED <<tail, next, pushed, executed>>
  BY DEF Pop
<1>5. Len(executed) \in Nat /\ Len(pushed) \in Nat
  BY DEF TypeOK
<1>6. Len(executed) < Len(pushed) /\ head = pushed[Len(executed) + 1]
  BY <1>3, <1>4, <1>5 DEF RestingInv, ListAt
<1>7. Len(executed) + 1 \in Waits
  BY <1>5, <1>6 DEF Waits
<1>8. head' = IF Len(executed) + 1 = Len(pushed) THEN None ELSE pushed[Len(executed) + 2]
  BY <1>3, <1>4, <1>5, <1>6, <1>7 DEF RestingInv, ListAt
<1>9. ListAt(Len(executed) + 2, Len(pushed))'
  BY <1>3, <1>4, <1>5, <1>6, <1>8 DEF RestingInv, ListAt, Waits
<1>10. PoppingInv'
  BY <1>4, <1>6, <1>7, <1>9 DEF PoppingInv, Waits
<1>11. \A u \in Threads : pc'[u] # "push_tail"
  BY <1>1, <1>2
<1>12. Torn'
  BY <1>1 DEF Torn, At
<1>13. QED BY <1>10, <1>11, <1>12 DEF ListInv, At

(* Its second half: the tail is reset with the last task. *)
LEMMA PopTailStep ==
    ASSUME TypeOK, OrderInv, ListInv, PopTail
    PROVE  ListInv'
<1> USE DriverIsThread, RunLoopAssumption
<1>1. pc[Driver] = "pop_tail" /\ \A u \in Threads : pc'[u] = IF u = Driver THEN "user" ELSE pc[u]
  BY Moved DEF PopTail, At
<1>2. \A u \in Threads : pc'[u] \notin {"push_tail", "pop_tail"}
  BY <1>1, Alone DEF Locked
<1>3. PoppingInv
  BY <1>1 DEF ListInv, At
<1>4. tail' = (IF head = None THEN None ELSE tail) /\ UNCHANGED <<head, next>>
  BY DEF PopTail, TailAfterPop
<1>5. /\ Len(executed) \in Nat /\ Len(pushed) \in Nat /\ Len(executed) < Len(pushed)
      /\ \A i \in 1 .. Len(pushed) : pushed[i] \in Tasks
  BY <1>3 DEF PoppingInv, Waits, TypeOK
<1>6. Len(executed') = Len(executed) + 1 /\ Waits' \subseteq Waits /\ pushed' = pushed
  BY Taken
<1>7. head = None <=> Len(executed) + 1 = Len(pushed)
  BY <1>3, <1>5 DEF PoppingInv, ListAt
<1>8. ListAt(Len(executed) + 1, Len(pushed))'
  BY <1>3, <1>4, <1>5, <1>6, <1>7 DEF PoppingInv, ListAt
<1>9. QED BY <1>2, <1>8 DEF ListInv, RestingInv, At

LEMMA ListStep ==
    ASSUME TypeOK, ArgInv, OrderInv, ListInv, [Next]_vars
    PROVE  ListInv'
<1>1. CASE (\E t \in Threads : Push(t) \/ PushTail(t)) \/ Pop \/ PopTail
  BY <1>1, PushStep, PushTailStep, PopStep, PopTailStep
<1>2. CASE ~((\E t \in Threads : Push(t) \/ PushTail(t)) \/ Pop \/ PopTail)
  <2>1. /\ UNCHANGED <<head, tail, next, pushed, executed>>
        /\ \A t \in Threads : At(t, "push_tail")' <=> At(t, "push_tail")
        /\ \A t \in Threads : At(t, "push_tail") => arg'[t] = arg[t]
        /\ At(Driver, "pop_tail")' <=> At(Driver, "pop_tail")
        /\ At(Driver, "pop_tail") => current' = current
    BY <1>2, ListSteps DEF list
  <2>2. RestingInv' <=> RestingInv
    BY <2>1 DEF RestingInv, ListAt, Waits
  <2>3. ASSUME At(Driver, "pop_tail") PROVE PoppingInv' <=> PoppingInv
    BY <2>1, <2>3 DEF PoppingInv, ListAt, Waits
  <2>4. ASSUME NEW t \in Threads, At(t, "push_tail") PROVE PushingInv(t)' <=> PushingInv(t)
    BY <2>1, <2>4 DEF PushingInv, ListAt, Waits
  <2>5. Torn' <=> Torn
    BY <2>1 DEF Torn
  <2>6. QED BY <2>1, <2>2, <2>3, <2>4, <2>5 DEF ListInv
<1>3. QED BY <1>1, <1>2

(* run() returns when nothing more will happen to the loop. *)
LEMMA SafeReturnStep ==
    ASSUME TypeOK', SafeReturn, ArgInv, WorkerInv, FinishInv, OrderInv, ListInv, [Next]_vars
    PROVE  SafeReturn'
<1> USE DriverIsThread
<1>1. TypeOK
  BY DEF SafeReturn
<1>2. CASE At(Driver, "returned")
  <2>1. /\ result /\ head = None /\ Waits = {} /\ state = "finished"
        /\ \A t \in Threads : pc[t] \in {"user", "returned"}
    BY <1>2 DEF SafeReturn, Threads, At
  <2>2. ASSUME NEW t \in Threads PROVE /\ \A k \in Tasks : ~BeginPush(t, k)
                                       /\ ~PushLock(t) /\ ~Push(t) /\ ~PushTail(t) /\ ~PushUnlock(t)
                                       /\ ~FinishStep(t)
    BY <1>2, <2>1 DEF BeginPush, PushLock, Push, PushTail, PushUnlock, FinishStep, BeginFinish, FinishLock, Finish,
                      FinishNotify, FinishUnlock, Lock, Unlock, At
  <2>3. ~DriverStep
    BY <1>1, <1>2, DriverMoves DEF At
  <2>4. RestStep
    BY <2>2, <2>3, Steps
  <2>5. QED BY <2>4, RestMoves DEF SafeReturn, At, Waits, list
<1>3. CASE RunReturns
  <2>1. /\ state = "finishing" /\ head = None /\ state' = "finished" /\ result' = result
        /\ UNCHANGED <<head, pushed, executed>> /\ pc[Driver] = "pop"
    BY <1>3 DEF RunReturns, MayPop, At, list
  <2>2. result
    BY <2>1 DEF FinishInv
  <2>3. ASSUME NEW w \in Workers PROVE pc'[w] = "user"
    <3>1. w \in Threads /\ w # Driver
      BY DEF Threads
    <3>2. mutex = Driver
      BY <1>1, <2>1 DEF TypeOK
    <3>3. pc[w] \notin {"finish_notify", "finish_unlock"}
      BY <1>1, <3>1, <3>2 DEF TypeOK
    <3>4. pc[w] \notin {"finish_lock", "finish"}
      BY <2>1, <3>1 DEF FinishInv
    <3>5. pc[w] = "user"
      BY <2>2, <3>3, <3>4 DEF WorkerInv, Completing, At
    <3>6. QED BY <1>1, <1>3, <3>1, <3>5, Moved DEF RunReturns
  <2>4. Waits = {}
    <3>1. \A u \in Threads : pc[u] \notin {"push_tail", "pop_tail"}
      BY <1>1, <2>1, Alone DEF Locked
    <3>2. RestingInv
      BY <3>1 DEF ListInv, Torn, At
    <3>3. ~(Len(executed) + 1 <= Len(pushed))
      BY <1>1, <2>1, <3>2, RunLoopAssumption DEF RestingInv, ListAt, TypeOK
    <3>4. QED BY <1>1, <3>3 DEF Waits, TypeOK
  <2>5. QED BY <2>1, <2>2, <2>3, <2>4 DEF SafeReturn, At, Waits
<1>4. ASSUME ~At(Driver, "returned"), ~RunReturns PROVE ~At(Driver, "returned")'
  <2>1. ASSUME NEW t \in Threads, NEW k \in Tasks, BeginPush(t, k) PROVE pc'[Driver] # "returned"
    BY <1>1, <1>4, <2>1, Moved DEF BeginPush, At
  <2>2. ASSUME NEW t \in Threads, PushLock(t) \/ Push(t) \/ PushTail(t) \/ PushUnlock(t) PROVE pc'[Driver] # "returned"
    BY <1>1, <1>4, <2>2, Moved DEF PushLock, Push, PushTail, PushUnlock, Lock, At
  <2>3. ASSUME NEW t \in Threads, FinishStep(t) PROVE pc'[Driver] # "returned"
    BY <1>1, <1>4, <2>3, FinishMoves DEF At, Completing
  <2>4. QED BY <1>1, <1>4, <2>1, <2>2, <2>3, DriverMoves, RestMoves, Steps DEF At
<1>5. QED BY <1>2, <1>3, <1>4 DEF SafeReturn

(* The invariant is inductive. *)
LEMMA NextInv == IInv /\ [Next]_vars => IInv'
<1> SUFFICES ASSUME IInv, [Next]_vars PROVE IInv'
  OBVIOUS
<1>1. TypeOK /\ SafeReturn /\ ArgInv /\ WorkerInv /\ FinishInv /\ OrderInv /\ ListInv
  BY DEF IInv, SafeReturn
<1>2. TypeOK'
  BY <1>1, TypeStep
<1>3. ArgInv' /\ WorkerInv' /\ FinishInv'
  BY <1>1, ArgStep, WorkerStep, FinishInvStep
<1>4. OrderInv' /\ ListInv'
  BY <1>1, OrderStep, ListStep
<1>5. SafeReturn'
  BY <1>1, <1>2, SafeReturnStep
<1>6. QED BY <1>3, <1>4, <1>5 DEF IInv

-----------------------------------------------------------------------------
(* The inductive invariant holds of every reachable state, however many    *)
(* threads and tasks there are.                                            *)
THEOREM Invariance == Spec => []IInv
BY InitInv, NextInv, PTL DEF Spec

(* When run() returns the loop may be destroyed at once: everything that   *)
(* was scheduled has run, the receiver was completed, and the thread that  *)
(* called finish() is out of it.                                           *)
THEOREM ReturnsSafely == Spec => []SafeReturn
<1>1. IInv => SafeReturn
  BY DEF IInv
<1>2. QED BY <1>1, Invariance, PTL

(* Tasks run in the order of the push_back calls, and whenever the mutex   *)
(* is free, head, the links and tail lead to exactly the tasks that wait:  *)
(* push_back and pop_front keep the intrusive list, in whatever order      *)
(* threads take the mutex and however often a task is pushed again.        *)
THEOREM InOrder == Spec => []FirstInFirstOut
<1>1. ASSUME IInv PROVE FirstInFirstOut
  <2>1. TypeOK /\ OrderInv /\ ListInv /\ Driver \in Threads /\ None \notin Threads
    BY <1>1, DriverIsThread DEF IInv, SafeReturn
  <2>2. mutex = None => ~Torn
    BY <2>1 DEF TypeOK, Torn, At
  <2>3. RestingInv => Linked
    <3>1. Len(executed) \in Nat /\ Len(pushed) \in Nat
      BY <2>1 DEF TypeOK
    <3>2. Len(executed) < Len(pushed) => Len(executed) + 1 \in Waits
      BY <3>1 DEF Waits
    <3>3. ~(Len(executed) < Len(pushed)) => Waits = {}
      BY <3>1 DEF Waits
    <3>4. QED BY <2>1, <3>1, <3>2, <3>3 DEF RestingInv, ListAt, Linked
  <2>4. QED BY <2>1, <2>2, <2>3 DEF FirstInFirstOut, OrderInv, ListInv
<1>2. QED BY <1>1, Invariance, PTL
=============================================================================
