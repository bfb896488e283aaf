------------------------------ MODULE ThreadPool ------------------------------
(***************************************************************************)
(* static_thread_pool (src/static_thread_pool.cpp): the workers' queues,   *)
(* how workers fall asleep and are woken, bulk jobs, and the destructor.   *)
(*                                                                         *)
(* Clients are threads outside the pool.  A task that a worker runs        *)
(* ("task") and a client ("user") may submit tasks and publish jobs.  A    *)
(* call of the library that both make (notify, wake_idle, participate)     *)
(* goes on at `back` or `home` when it is done.                            *)
(*                                                                         *)
(* Abstractions: the local bwos_queue is a bounded sequence, from which a  *)
(* thief may get nothing; each critical section of bulk_mutex is one step; *)
(* moving remote submissions to the local queue is one step; the rounds of *)
(* spinning, which differ from the loop of run() only in how many victims  *)
(* they try, are that loop; atomics are sequentially consistent.           *)
(***************************************************************************)
EXTENDS Naturals, Sequences, FiniteSets, SequencesExt

CONSTANTS N,                \* the number of workers
          Clients,          \* threads outside the pool
          Tasks,            \* the tasks that are submitted, each once
          Jobs,             \* the bulk jobs, each published once
          Size,             \* the number of indices of a job
          ChunksPerWorker,  \* kChunksPerWorker
          Capacity,         \* the number of tasks a local queue holds
          Plans,            \* bounds: the tasks that are submitted, the threads
                            \* that publish a job, and the spurious wakeups
          None

Workers == 1 .. N
Threads == Workers \cup Clients
Indices == 0 .. Size - 1

ASSUME ThreadPoolAssumption ==
    /\ {N, Size, ChunksPerWorker, Capacity} \subseteq Nat \ {0}
    /\ \A p \in Plans : p.tasks \subseteq Tasks /\ p.publishers \subseteq Threads /\ p.spurious \in Nat
    /\ Workers \cap Clients = {} /\ IsFiniteSet(Clients) /\ None \notin Threads \cup Tasks \cup Jobs

VARIABLES
    plan,    \* the one of Plans that is followed
    wk,      \* the workers: state, local (front to back), remote (newest first),
             \* who holds the mutex, whether the worker waits on wakeup
    pool,    \* sleepers, stopping, the listed jobs, oldest first, and how
             \* often a worker woke without a notification
    job,     \* the jobs: their members, who published them and whether they are
             \* "new", "live" or "done"; ran is a history, 2 is "twice or more"
    th,      \* the threads: where they are, and the arguments of their calls
    owner,   \* the thread in ~thread_pool_impl, and the worker it is at
    task     \* history of the tasks: whether they were submitted, and how often
             \* they were executed

vars == <<plan, wk, pool, job, th, owner, task>>

Init ==
    /\ plan \in Plans
    /\ wk = [w \in Workers |-> [state |-> "running", local |-> << >>, remote |-> << >>,
                                mutex |-> None, waiting |-> FALSE]]
    /\ pool = [sleepers |-> 0, stopping |-> FALSE, list |-> << >>, spurious |-> 0]
    /\ job = [j \in Jobs |-> [life |-> "new", next |-> 0, refs |-> 0, by |-> None,
                              ran |-> [i \in Indices |-> 0]]]
    /\ th = [t \in Threads |-> [pc |-> IF t \in Workers THEN "look" ELSE "user", task |-> None,
                                job |-> None, chunk |-> 0, target |-> 1, scanning |-> FALSE,
                                back |-> "user", home |-> "user", search |-> "sleep"]]
    /\ owner = [pc |-> "idle", at |-> 1]
    /\ task = [k \in Tasks |-> [given |-> FALSE, ran |-> 0]]

At(t, where) == th[t].pc = where
Goto(t, where) == th' = [th EXCEPT ![t].pc = where]
Return(t) ==
    th' = [th EXCEPT ![t].pc = th[t].back, ![t].target = 1, ![t].scanning = FALSE, ![t].back = "user"]
Smaller(a, b) == IF a < b THEN a ELSE b
Up(n) == IF n = 0 THEN 1 ELSE 2
Submit(k) == k \in plan.tasks /\ ~task[k].given /\ task' = [task EXCEPT ![k].given = TRUE]

-----------------------------------------------------------------------------
(* enqueue *)

(* Submissions go round the workers; between two of these there may be any *)
(* number of others, and the first one goes to worker 1.                   *)
EnqueueRemote(c, k) ==
    /\ At(c, "user") /\ c \in Clients /\ owner.pc = "idle" /\ Submit(k)
    /\ \E w \in Workers :
          /\ w = 1 \/ \E given \in Tasks : task[given].given
          /\ wk' = [wk EXCEPT ![w].remote = <<k>> \o @]
          /\ th' = [th EXCEPT ![c].pc = "notify", ![c].target = w, ![c].scanning = FALSE, ![c].back = "user"]
    /\ UNCHANGED <<plan, pool, job, owner>>

(* A full local queue sends the task to the worker's own remote queue.     *)
EnqueueLocal(w, k) ==
    /\ At(w, "task") /\ Submit(k)
    /\ wk' = IF Len(wk[w].local) < Capacity THEN [wk EXCEPT ![w].local = Append(@, k)]
                                            ELSE [wk EXCEPT ![w].remote = <<k>> \o @]
    /\ th' = [th EXCEPT ![w].pc = "wake", ![w].back = "task"]
    /\ UNCHANGED <<plan, pool, job, owner>>

(* wake_idle: the first worker that is found sleeping, and is when it is   *)
(* notified.                                                               *)
WakeIdle(t) ==
    /\ At(t, "wake")
    /\ IF pool.sleepers = 0 THEN Return(t)
                            ELSE th' = [th EXCEPT ![t].pc = "scan", ![t].scanning = TRUE]
    /\ UNCHANGED <<plan, wk, pool, job, owner, task>>

Scan(t) ==
    /\ At(t, "scan")
    /\ LET i == th[t].target IN
          IF i \notin Workers THEN Return(t)
          ELSE IF i # t /\ wk[i].state = "sleeping" THEN Goto(t, "notify")
          ELSE th' = [th EXCEPT ![t].target = i + 1]
    /\ UNCHANGED <<plan, wk, pool, job, owner, task>>

(* notify: only a sleeping worker needs more than the exchange.            *)
Notify(t) ==
    /\ At(t, "notify")
    /\ LET i == th[t].target IN
          /\ wk' = [wk EXCEPT ![i].state = "notified"]
          /\ \/ wk[i].state = "sleeping" /\ Goto(t, "notify_lock")
             \/ /\ wk[i].state # "sleeping" /\ th[t].scanning
                /\ th' = [th EXCEPT ![t].pc = "scan", ![t].target = i + 1]
             \/ wk[i].state # "sleeping" /\ ~th[t].scanning /\ Return(t)
    /\ UNCHANGED <<plan, pool, job, owner, task>>

(* Mutant: the notifier does not take the worker's mutex. *)
MutexIgnored(w) == TRUE

MutexFree(w) == wk[w].mutex = None

(* The mutex is taken and released: the worker waits, or will look again.  *)
NotifyLock(t) ==
    /\ At(t, "notify_lock") /\ MutexFree(th[t].target)
    /\ Goto(t, "notify_one")
    /\ UNCHANGED <<plan, wk, pool, job, owner, task>>

NotifyOne(t) ==
    /\ At(t, "notify_one")
    /\ wk' = [wk EXCEPT ![th[t].target].waiting = FALSE]
    /\ Return(t)
    /\ UNCHANGED <<plan, pool, job, owner, task>>

-----------------------------------------------------------------------------
(* run and find_task.  A search goes on at `search` when it finds nothing: *)
(* "sleep" after looking around, "rejoin" after waking, "exit" after the   *)
(* last look of a stopping worker.                                         *)

Execute(w, k) ==
    /\ task' = [task EXCEPT ![k].ran = Up(@)]
    /\ th' = [th EXCEPT ![w].pc = "task", ![w].task = None, ![w].search = "sleep"]

(* take_remote: the oldest is returned, the others go to the local queue   *)
(* while it has room, and back otherwise.                                  *)
(* Mutant: what does not fit is dropped. *)
TakenLossy(w) ==
    LET kept == Front(wk[w].remote)
    IN  [wk[w] EXCEPT !.local = @ \o SubSeq(kept, 1, Smaller(Len(kept), Capacity - Len(wk[w].local))),
                      !.remote = << >>]

Taken(w) ==
    LET kept == Front(wk[w].remote)
        moved == Smaller(Len(kept), Capacity - Len(wk[w].local))
    IN  [wk[w] EXCEPT !.local = @ \o SubSeq(kept, 1, moved),
                      !.remote = Reverse(SubSeq(kept, moved + 1, Len(kept)))]

Search(w, next) == th' = [th EXCEPT ![w].pc = "find", ![w].search = next]

(* The task has returned, if one ran, and bulk_front is read; a job that   *)
(* was listed is looked for under the mutex.                               *)
Look(w) ==
    /\ th[w].pc \in {"look", "task"}
    /\ IF pool.list = << >> THEN Search(w, "sleep") ELSE Goto(w, "join")
    /\ UNCHANGED <<plan, wk, pool, job, owner, task>>

Find(w) ==
    /\ At(w, "find") /\ wk[w].local # << >>
    /\ Execute(w, Last(wk[w].local))
    /\ wk' = [wk EXCEPT ![w].local = Front(@)]
    /\ UNCHANGED <<plan, pool, job, owner>>

(* After the local queue, or, now and then, before it. *)
FindRemote(w) ==
    /\ At(w, "find") /\ wk[w].remote # << >>
    /\ wk[w].local = << >> \/ th[w].search = "sleep"
    /\ Execute(w, Last(wk[w].remote))
    /\ wk' = [wk EXCEPT ![w] = Taken(w)]
    /\ UNCHANGED <<plan, pool, job, owner>>

Steal(w) ==
    /\ At(w, "find") /\ wk[w].local = << >> /\ wk[w].remote = << >>
    /\ \E v \in Workers \ {w} :
          /\ wk[v].local # << >>
          /\ Execute(w, Head(wk[v].local))
          /\ wk' = [wk EXCEPT ![v].local = Tail(@)]
    /\ UNCHANGED <<plan, pool, job, owner>>

FindNothing(w) ==
    /\ At(w, "find") /\ wk[w].local = << >> /\ wk[w].remote = << >>
    /\ Goto(w, th[w].search)
    /\ UNCHANGED <<plan, wk, pool, job, owner, task>>

-----------------------------------------------------------------------------
(* wait_for_task: falling asleep, with the worker's mutex held. *)

(* Mutant: a worker leaves when the pool is stopping. *)
LastLookNone(w) == Goto(w, "exit")

LastLook(w) == Search(w, "exit")

SleepLock(w) ==
    /\ At(w, "sleep") /\ MutexFree(w)
    /\ IF pool.stopping THEN LastLook(w) /\ UNCHANGED wk
                        ELSE Goto(w, "fall_asleep") /\ wk' = [wk EXCEPT ![w].mutex = w]
    /\ UNCHANGED <<plan, pool, job, owner, task>>

FallAsleep(w) ==
    /\ At(w, "fall_asleep")
    /\ IF wk[w].state = "running" THEN wk' = [wk EXCEPT ![w].state = "sleeping"] /\ Goto(w, "recheck")
                                  ELSE UNCHANGED wk /\ Goto(w, "wake_up")
    /\ UNCHANGED <<plan, pool, job, owner, task>>

(* A submission that came before the worker was seen to sleep is taken.    *)
Recheck(w) ==
    /\ At(w, "recheck")
    /\ IF wk[w].remote # << >>
          THEN /\ th' = [th EXCEPT ![w].pc = "got_remote", ![w].task = Last(wk[w].remote)]
               /\ wk' = [wk EXCEPT ![w] = Taken(w)]
          ELSE Goto(w, "count") /\ UNCHANGED wk
    /\ UNCHANGED <<plan, pool, job, owner, task>>

GotRemote(w) ==
    /\ At(w, "got_remote")
    /\ wk' = [wk EXCEPT ![w].state = "running", ![w].mutex = None]
    /\ Execute(w, th[w].task)
    /\ UNCHANGED <<plan, pool, job, owner>>

Count(w) ==
    /\ At(w, "count")
    /\ pool' = [pool EXCEPT !.sleepers = @ + 1]
    /\ Goto(w, "check_bulk")
    /\ UNCHANGED <<plan, wk, job, owner, task>>

(* joinable_job finds the oldest listed job with chunks to claim.          *)
ChunkCount == IF Size <= N * ChunksPerWorker THEN Size ELSE N * ChunksPerWorker
Joinable == {j \in Range(pool.list) : job[j].next < ChunkCount}

(* Mutant: the list of jobs is not looked at again. *)
MaySleepAlways == TRUE

(* has_bulk_job *)
MaySleep == Joinable = {}

CheckBulk(w) ==
    /\ At(w, "check_bulk")
    /\ Goto(w, IF MaySleep THEN "wait" ELSE "uncount")
    /\ UNCHANGED <<plan, wk, pool, job, owner, task>>

(* Mutant: a worker waits on although the pool is stopping. *)
KeepsWaitingStopped(w) == wk[w].state = "sleeping"

KeepsWaiting(w) == wk[w].state = "sleeping" /\ ~pool.stopping

Wait(w) ==
    /\ At(w, "wait")
    /\ Goto(w, IF KeepsWaiting(w) THEN "block" ELSE "uncount")
    /\ UNCHANGED <<plan, wk, pool, job, owner, task>>

(* wakeup.wait releases the mutex in the step in which it begins to wait.  *)
Block(w) ==
    /\ At(w, "block")
    /\ wk' = [wk EXCEPT ![w].waiting = TRUE, ![w].mutex = None]
    /\ Goto(w, "asleep")
    /\ UNCHANGED <<plan, pool, job, owner, task>>

Wake(w) ==
    /\ At(w, "asleep") /\ ~wk[w].waiting /\ MutexFree(w)
    /\ wk' = [wk EXCEPT ![w].mutex = w]
    /\ Goto(w, "wait")
    /\ UNCHANGED <<plan, pool, job, owner, task>>

SpuriousWakeup(w) ==
    /\ At(w, "asleep") /\ wk[w].waiting /\ pool.spurious < plan.spurious
    /\ wk' = [wk EXCEPT ![w].waiting = FALSE]
    /\ pool' = [pool EXCEPT !.spurious = @ + 1]
    /\ UNCHANGED <<plan, job, th, owner, task>>

Uncount(w) ==
    /\ At(w, "uncount")
    /\ pool' = [pool EXCEPT !.sleepers = @ - 1]
    /\ Goto(w, "wake_up")
    /\ UNCHANGED <<plan, wk, job, owner, task>>

WakeUp(w) ==
    /\ At(w, "wake_up")
    /\ wk' = [wk EXCEPT ![w].state = "running", ![w].mutex = None]
    /\ Search(w, "rejoin")
    /\ UNCHANGED <<plan, pool, job, owner, task>>

(* join_bulk after waking: without a job the worker goes back to sleep.    *)
Rejoin(w) ==
    /\ At(w, "rejoin")
    /\ Goto(w, IF pool.list = << >> THEN "sleep" ELSE "join_woken")
    /\ UNCHANGED <<plan, wk, pool, job, owner, task>>

-----------------------------------------------------------------------------
(* Bulk jobs. *)

(* join_bulk: the participant's reference is taken under the mutex.        *)
Join(w) ==
    /\ th[w].pc \in {"join", "join_woken"}
    /\ \/ \E i \in DOMAIN pool.list :
          /\ pool.list[i] \in Joinable /\ \A h \in 1 .. i - 1 : pool.list[h] \notin Joinable
          /\ job' = [job EXCEPT ![pool.list[i]].refs = @ + 1]
          /\ th' = [th EXCEPT ![w].pc = "participate", ![w].job = pool.list[i], ![w].home = "look"]
       \/ /\ Joinable = {}
          /\ IF At(w, "join") THEN Search(w, "sleep") ELSE Goto(w, "sleep")
          /\ UNCHANGED job
    /\ UNCHANGED <<plan, wk, pool, owner, task>>

(* run_bulk: the job is listed, or run at once when it is not worth it.    *)
RunBulk(t, j) ==
    /\ At(t, "task") \/ (At(t, "user") /\ owner.pc = "idle")
    /\ t \in plan.publishers /\ job[j].life = "new"
    /\ IF N = 1 \/ ChunkCount = 1
          THEN /\ job' = [job EXCEPT ![j].life = "done", ![j].ran = [i \in Indices |-> 1]]
               /\ UNCHANGED <<plan, pool, th>>
          ELSE /\ job' = [job EXCEPT ![j].life = "live", ![j].refs = 2, ![j].by = t]
               /\ pool' = [pool EXCEPT !.list = Append(@, j)]
               /\ th' = [th EXCEPT ![t].pc = "participate", ![t].job = j, ![t].home = th[t].pc]
    /\ UNCHANGED <<plan, wk, owner, task>>

Participate(t) ==
    /\ At(t, "participate")
    /\ th' = [th EXCEPT ![t].pc = IF job[th[t].job].next + 1 < ChunkCount THEN "wake" ELSE "claim",
                        ![t].back = IF job[th[t].job].next + 1 < ChunkCount THEN "claim" ELSE "user"]
    /\ UNCHANGED <<plan, wk, pool, job, owner, task>>

(* Exactly one participant claims one past the last chunk. *)
Claim(t) ==
    /\ At(t, "claim")
    /\ LET chunk == job[th[t].job].next IN
          /\ job' = [job EXCEPT ![th[t].job].next = @ + 1]
          /\ th' = [th EXCEPT ![t].chunk = chunk,
                              ![t].pc = CASE chunk < ChunkCount -> "chunk"
                                          [] chunk = ChunkCount -> "unlist"
                                          [] OTHER              -> "drop"]
    /\ UNCHANGED <<plan, wk, pool, owner, task>>

(* chunk_bounds: near-equal parts of the indices.                          *)
ChunkOf(chunk) ==
    LET quotient == Size \div ChunkCount
        remainder == Size % ChunkCount
        begin == chunk * quotient + Smaller(chunk, remainder)
    IN  begin .. begin + quotient + (IF chunk < remainder THEN 1 ELSE 0) - 1

RunChunk(t) ==
    /\ At(t, "chunk")
    /\ job' = [job EXCEPT ![th[t].job].ran =
                  [i \in Indices |-> IF i \in ChunkOf(th[t].chunk) THEN Up(@[i]) ELSE @[i]]]
    /\ Goto(t, "claim")
    /\ UNCHANGED <<plan, wk, pool, owner, task>>

Unlist(t) ==
    /\ At(t, "unlist")
    /\ pool' = [pool EXCEPT !.list = RemoveAt(@, CHOOSE i \in DOMAIN @ : @[i] = th[t].job)]
    /\ Goto(t, "drop")
    /\ UNCHANGED <<plan, wk, job, owner, task>>

(* Mutant: the list's reference is dropped by every participant. *)
DroppedTwo(t) == 2

(* The participant that unlisted the job drops the list's reference too.   *)
Dropped(t) == IF th[t].chunk = ChunkCount THEN 2 ELSE 1

(* Whoever drops the last reference completes the job. *)
Drop(t) ==
    /\ At(t, "drop")
    /\ LET j == th[t].job IN
          job' = [job EXCEPT ![j].refs = @ - Dropped(t),
                             ![j].life = IF job[j].refs = Dropped(t) THEN "done" ELSE @]
    /\ th' = [th EXCEPT ![t].pc = th[t].home, ![t].job = None, ![t].chunk = 0, ![t].home = "user"]
    /\ UNCHANGED <<plan, wk, pool, owner, task>>

-----------------------------------------------------------------------------
(* The destructor: nothing may be scheduled from outside by then. *)

BeginDestroy ==
    /\ owner.pc = "idle" /\ \A c \in Clients : At(c, "user")
    /\ owner' = [owner EXCEPT !.pc = "stop"]
    /\ UNCHANGED <<plan, wk, pool, job, th, task>>

StopLock ==
    /\ owner.pc = "stop" /\ MutexFree(owner.at)
    /\ pool' = [pool EXCEPT !.stopping = TRUE]
    /\ owner' = [owner EXCEPT !.pc = "stop_notify"]
    /\ UNCHANGED <<plan, wk, job, th, task>>

StopNotify ==
    /\ owner.pc = "stop_notify"
    /\ wk' = [wk EXCEPT ![owner.at].waiting = FALSE]
    /\ owner' = IF owner.at < N THEN [pc |-> "stop", at |-> owner.at + 1]
                                ELSE [pc |-> "join", at |-> 1]
    /\ UNCHANGED <<plan, pool, job, th, task>>

JoinThreads ==
    /\ owner.pc = "join" /\ \A w \in Workers : At(w, "exit")
    /\ owner' = [owner EXCEPT !.pc = "destroyed"]
    /\ UNCHANGED <<plan, wk, pool, job, th, task>>

-----------------------------------------------------------------------------
Step(t) ==
    \/ WakeIdle(t) \/ Scan(t) \/ Notify(t) \/ NotifyLock(t) \/ NotifyOne(t)
    \/ Participate(t) \/ Claim(t) \/ RunChunk(t) \/ Unlist(t) \/ Drop(t)

WorkerStep(w) ==
    \/ Look(w) \/ Find(w) \/ FindRemote(w) \/ Steal(w) \/ FindNothing(w)
    \/ SleepLock(w) \/ FallAsleep(w) \/ Recheck(w) \/ GotRemote(w) \/ Count(w) \/ CheckBulk(w)
    \/ Wait(w) \/ Block(w) \/ Wake(w) \/ Uncount(w) \/ WakeUp(w) \/ Rejoin(w) \/ Join(w)

DestructorStep == StopLock \/ StopNotify \/ JoinThreads

Done == owner.pc = "destroyed" /\ UNCHANGED vars

Next ==
    \/ \E t \in Threads : Step(t) \/ \E j \in Jobs : RunBulk(t, j)
    \/ \E w \in Workers : WorkerStep(w) \/ SpuriousWakeup(w) \/ \E k \in Tasks : EnqueueLocal(w, k)
    \/ \E c \in Clients, k \in Tasks : EnqueueRemote(c, k)
    \/ BeginDestroy \/ DestructorStep \/ Done

(* Threads inside the library are scheduled, and tasks and chunks return.  *)
Spec ==
    /\ Init /\ [][Next]_vars
    /\ \A t \in Threads : WF_vars(Step(t))
    /\ \A w \in Workers : WF_vars(WorkerStep(w))
    /\ WF_vars(DestructorStep)

-----------------------------------------------------------------------------
DropsForList(j) == \E t \in Threads : th[t].job = j /\ At(t, "drop") /\ th[t].chunk = ChunkCount

(* Types; a worker's mutex is held exactly between its lock and its unlock; *)
(* sleepers counts the workers between their count and uncount; a job's    *)
(* references are those of its participants and of the list.               *)
TypeOK ==
    /\ \A w \in Workers :
          /\ wk[w].state \in {"running", "sleeping", "notified"}
          /\ wk[w].local \in Seq(Tasks) /\ Len(wk[w].local) <= Capacity
          /\ wk[w].remote \in Seq(Tasks)
          /\ wk[w].mutex = w <=> th[w].pc \in {"fall_asleep", "recheck", "got_remote", "count",
                                               "check_bulk", "wait", "block", "uncount", "wake_up"}
          /\ wk[w].waiting => At(w, "asleep")
    /\ pool.sleepers = Cardinality({w \in Workers :
                          th[w].pc \in {"check_bulk", "wait", "block", "asleep", "uncount"}})
    /\ pool.stopping \in BOOLEAN /\ pool.list \in Seq(Jobs) /\ pool.spurious \in 0 .. plan.spurious
    /\ \A j \in Jobs :
          /\ job[j].life \in {"new", "live", "done"} /\ job[j].by \in Threads \cup {None}
          /\ job[j].refs = Cardinality({t \in Threads : th[t].job = j})
                           + (IF j \in Range(pool.list) \/ DropsForList(j) THEN 1 ELSE 0)
    /\ owner.pc \in {"idle", "stop", "stop_notify", "join", "destroyed"} /\ owner.at \in Workers
    /\ task \in [Tasks -> [given : BOOLEAN, ran : 0 .. 2]]

(* A submitted task is in one place: queued once, in one worker's hand, or *)
(* executed once.  It is neither lost between the queues nor run twice.    *)
Queue(w) == wk[w].local \o wk[w].remote
Queued(k) == UNION {{<<w, i>> : i \in {i \in DOMAIN Queue(w) : Queue(w)[i] = k}} : w \in Workers}
Held(k) == {t \in Threads : th[t].task = k}

InOnePlace ==
    \A k \in Tasks :
        task[k].ran + Cardinality(Held(k)) + Cardinality(Queued(k)) = IF task[k].given THEN 1 ELSE 0

(* No wakeup is lost: a worker does not stay asleep with submissions of    *)
(* its own, unless a thread is on its way to wake it.                      *)
Asleep(w) == At(w, "asleep") /\ wk[w].waiting
Waking(w) == \E t \in Threads : th[t].pc \in {"notify", "notify_lock", "notify_one"} /\ th[t].target = w

NoLostWakeup == \A w \in Workers : Asleep(w) /\ wk[w].remote # << >> => Waking(w)

(* A job that still has chunks, and whose publisher has looked for someone *)
(* to help, does not find every other worker asleep.                       *)
Recruiting(t, j) ==
    th[t].job = j /\ th[t].pc \in {"participate", "wake", "scan", "notify", "notify_lock", "notify_one"}

JobFindsHelp ==
    \A j \in Joinable :
        ~Recruiting(job[j].by, j) => \E w \in Workers \ {job[j].by} : ~Asleep(w) \/ Waking(w)

(* A job's references are counted (see TypeOK); it completes when every    *)
(* index has run exactly once, and nothing touches it from then on: its    *)
(* operation may be destroyed.                                             *)
JobCompletesLast ==
    /\ TypeOK
    /\ \A j \in Jobs :
        /\ \A i \in Indices : job[j].ran[i] <= 1
        /\ job[j].life = "done" =>
              /\ \A i \in Indices : job[j].ran[i] = 1
              /\ j \notin Range(pool.list) /\ \A t \in Threads : th[t].job # j

(* The destructor returns only after everything that was queued has run.   *)
Drained ==
    owner.pc = "destroyed" =>
        /\ \A k \in Tasks : task[k].given => task[k].ran = 1
        /\ \A j \in Jobs : job[j].life # "live"
        /\ \A t \in Threads : th[t].pc \in {"user", "exit"}

(* Every task that is submitted runs, every job that is published          *)
(* completes, and a destructor that was called returns: again and again    *)
(* nothing is pending.                                                     *)
Quiet ==
    /\ \A k \in Tasks : task[k].given => task[k].ran = 1
    /\ \A j \in Jobs : job[j].life # "live"
    /\ owner.pc \in {"idle", "destroyed"}

WorkCompletes == []<>Quiet
=============================================================================
