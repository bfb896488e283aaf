-------------------------- MODULE ThreadPool_proofs --------------------------
(***************************************************************************)
(* The tasks and the sleep of ThreadPool, for any number of workers,       *)
(* clients, tasks and jobs and any capacity of the local queues: no        *)
(* submitted task is lost or run twice, no wakeup is lost, and a worker    *)
(* leaves only when it has nothing queued; then its bulk jobs: the         *)
(* references of a job are those of its participants and of the list,      *)
(* every index runs exactly once, nothing touches a job that is done, and  *)
(* the destructor leaves no job behind.                                    *)
(***************************************************************************)
EXTENDS ThreadPool, SequenceTheorems, FiniteSetTheorems, TLAPS

(* Where a thread is: in wake_idle or notify, in participate, or holding   *)
(* its own mutex in wait_for_task.                                         *)
Notifying == {"notify", "notify_lock", "notify_one"}
Calling == Notifying \cup {"wake", "scan"}
Working == {"participate", "claim", "chunk", "unlist", "drop"}
Holding == {"fall_asleep", "recheck", "got_remote", "count", "check_bulk", "wait", "block", "uncount", "wake_up"}
Counted == {"check_bulk", "wait", "block", "asleep", "uncount"}
Other == {"user", "look", "task", "find", "sleep", "asleep", "rejoin", "exit", "join", "join_woken"}

ThreadState ==
    [pc : Calling \cup Working \cup Holding \cup Other, task : Tasks \cup {None}, job : Jobs \cup {None},
     chunk : Nat, target : Nat, scanning : BOOLEAN, back : {"user", "task", "claim"},
     home : {"user", "look", "task"}, search : {"sleep", "rejoin", "exit"}]
WorkerState ==
    [state : {"running", "sleeping", "notified"}, local : Seq(Tasks), remote : Seq(Tasks),
     mutex : Workers \cup {None}, waiting : BOOLEAN]
JobState ==
    [life : {"new", "live", "done"}, next : Nat, refs : Int, by : Threads \cup {None}, ran : [Indices -> 0 .. 2]]
PoolState == [sleepers : Int, stopping : BOOLEAN, list : Seq(Jobs), spurious : Nat]
TaskState == [given : BOOLEAN, ran : 0 .. 2]

Types ==
    /\ plan \in Plans
    /\ wk \in [Workers -> WorkerState]
    /\ pool \in PoolState
    /\ job \in [Jobs -> JobState]
    /\ th \in [Threads -> ThreadState]
    /\ owner \in [pc : {"idle", "stop", "stop_notify", "join", "destroyed"}, at : Workers]
    /\ task \in [Tasks -> TaskState]

(* The calls of a thread return to where they were made: r is the state of *)
(* thread t.                                                               *)
Helping(r) == r.pc \in Working \/ (r.pc \in Calling /\ r.back = "claim")
Call(t, r) ==
    /\ t \in Clients => r.pc \in Calling \cup Working \cup {"user"}
    /\ t \in Workers => r.pc # "user"
    /\ r.pc \in Calling => r.back \in {"claim", IF t \in Workers THEN "task" ELSE "user"}
    /\ r.job # None <=> Helping(r)
    /\ Helping(r) => IF t \in Workers THEN r.home \in {"look", "task"} ELSE r.home = "user"
    /\ r.pc \in Notifying => r.target \in Workers
    /\ r.pc \notin Notifying \cup {"scan"} => r.target = 1 /\ ~r.scanning
    /\ r.pc = "scan" => r.scanning
    /\ r.pc \in Notifying /\ r.back # "user" => r.scanning
    /\ r.pc \in Notifying /\ r.scanning => r.target # t
    /\ r.task # None <=> r.pc = "got_remote"

CallInv == \A t \in Threads : Call(t, th[t])

(* A worker's mutex is held exactly by the worker between lock and unlock, *)
(* and a worker that waits has released it.                                *)
Mutexed(w) ==
    /\ wk[w].mutex = IF th[w].pc \in Holding THEN w ELSE None
    /\ wk[w].waiting => At(w, "asleep")

MutexInv == \A w \in Workers : Mutexed(w)

(* A worker that blocks is known to sleep, or its notifier has yet to pass *)
(* the mutex; and a submission it has not looked at is followed by its     *)
(* notification.                                                           *)
Notifies(w, where) == \E t \in Threads : th[t].pc \in where /\ th[t].target = w

Slept(w) ==
    /\ th[w].pc \in {"recheck", "got_remote", "count", "check_bulk", "wait", "block", "asleep"} =>
          wk[w].state # "running"
    /\ At(w, "block") => wk[w].state = "sleeping" \/ Notifies(w, {"notify_lock"})
    /\ Asleep(w) => wk[w].state = "sleeping" \/ Notifies(w, {"notify_lock", "notify_one"})
    /\ th[w].pc \in {"count", "check_bulk", "wait", "block", "asleep"} /\ wk[w].remote # << >> =>
          wk[w].state = "notified" \/ Notifies(w, {"notify"})

SleepInv == \A w \in Workers : Slept(w)

(* sleepers counts the workers between their count and uncount.            *)
Sleepers == {w \in Workers : th[w].pc \in Counted}
SleepersInv == pool.sleepers = Cardinality(Sleepers)

(* A task is queued at one place, in one worker's hand, or was executed.   *)
Stored(w) == Range(wk[w].local) \cup Range(wk[w].remote)
Distinct(w) ==
    /\ IsInjective(wk[w].local) /\ IsInjective(wk[w].remote)
    /\ Range(wk[w].local) \cap Range(wk[w].remote) = {}

TaskInv ==
    /\ \A k \in Tasks :
          /\ task[k].given <=> \/ task[k].ran = 1
                               \/ \E t \in Threads : th[t].task = k
                               \/ \E w \in Workers : k \in Stored(w)
          /\ task[k].ran # 2
          /\ \A t \in Threads : th[t].task = k =>
                /\ task[k].ran = 0
                /\ \A w \in Workers : k \notin Stored(w)
                /\ \A u \in Threads : th[u].task = k => u = t
          /\ \A w \in Workers : k \in Stored(w) =>
                /\ task[k].ran = 0
                /\ \A v \in Workers : k \in Stored(v) => v = w
    /\ \A w \in Workers : Distinct(w) /\ Len(wk[w].local) <= Capacity

(* A worker stops looking for work when nothing can be submitted to it any *)
(* more.                                                                   *)
ExitInv ==
    /\ pool.stopping => owner.pc # "idle"
    /\ owner.pc # "idle" => \A c \in Clients : At(c, "user")
    /\ owner.pc = "destroyed" => \A w \in Workers : At(w, "exit")
    /\ \A w \in Workers :
          /\ th[w].search = "exit" => pool.stopping
          /\ At(w, "exit") => pool.stopping /\ wk[w].local = << >> /\ wk[w].remote = << >>

(* A job is listed while it has chunks to claim, and until the one who     *)
(* claimed past the last has unlisted it.                                  *)
ListInv ==
    /\ IsInjective(pool.list)
    /\ \A j \in Range(pool.list) : job[j].life # "new"
    /\ \A t \in Threads : th[t].job # None =>
          LET j == th[t].job IN
          /\ job[j].life # "new"
          /\ job[j].next <= ChunkCount => j \in Range(pool.list)
          /\ At(t, "unlist") =>
                /\ j \in Range(pool.list) /\ job[j].next > ChunkCount
                /\ \A u \in Threads : At(u, "unlist") /\ th[u].job = j => u = t

IInv == Types /\ CallInv /\ MutexInv /\ SleepInv /\ SleepersInv /\ TaskInv /\ ExitInv /\ ListInv


-----------------------------------------------------------------------------
(* What the queues and lists do to elements that occur once.               *)

(* What is put in front of a sequence without repetitions. *)
LEMMA Prepended ==
    ASSUME NEW S, NEW s \in Seq(S), NEW e \in S
    PROVE  /\ <<e>> \o s \in Seq(S)
           /\ Range(<<e>> \o s) = Range(s) \cup {e}
           /\ IsInjective(s) /\ e \notin Range(s) => IsInjective(<<e>> \o s)
<1> DEFINE r == <<e>> \o s
<1>1. <<e>> \in Seq(S) /\ Len(<<e>>) = 1 /\ <<e>>[1] = e
  OBVIOUS
<1>2. r \in Seq(S) /\ Len(r) = Len(s) + 1
  BY <1>1, ConcatProperties
<1>3. r[1] = e /\ \A i \in 1 .. Len(s) : r[i + 1] = s[i]
  BY <1>1, ConcatProperties
<1>4. DOMAIN r = 1 .. Len(s) + 1 /\ DOMAIN s = 1 .. Len(s) /\ Len(s) \in Nat
  BY <1>2, LenProperties
<1>5. \A i \in 1 .. Len(s) + 1 : i = 1 \/ (i - 1 \in 1 .. Len(s) /\ r[i] = s[i - 1])
  BY <1>3, <1>4
<1> HIDE DEF r
<1>6. Range(r) = Range(s) \cup {e}
  <2>1. \A i \in DOMAIN r : r[i] \in Range(s) \cup {e}
    BY <1>3, <1>4, <1>5 DEF Range
  <2>2. \A i \in DOMAIN s : i + 1 \in DOMAIN r /\ s[i] = r[i + 1]
    BY <1>3, <1>4
  <2>3. 1 \in DOMAIN r /\ r[1] = e
    BY <1>3, <1>4
  <2>4. QED BY <2>1, <2>2, <2>3 DEF Range
<1>7. ASSUME IsInjective(s), e \notin Range(s), NEW i \in DOMAIN r, NEW j \in DOMAIN r, r[i] = r[j]
      PROVE  i = j
  <2>1. \A k \in DOMAIN s : s[k] # e
    BY <1>7 DEF Range
  <2>2. \A k, l \in DOMAIN s : s[k] = s[l] => k = l
    BY <1>7 DEF IsInjective
  <2>3. CASE i = 1 \/ j = 1
    BY <1>3, <1>4, <1>5, <1>7, <2>1, <2>3
  <2>4. CASE i # 1 /\ j # 1
    <3>1. i - 1 = j - 1
      BY <1>4, <1>5, <1>7, <2>2, <2>4
    <3>2. QED BY <1>4, <3>1
  <2>5. QED BY <2>3, <2>4
<1>8. QED BY <1>2, <1>6, <1>7 DEF IsInjective, r

(* What is left when the first element is taken off. *)
LEMMA TakenOff ==
    ASSUME NEW S, NEW s \in Seq(S), s # << >>, IsInjective(s)
    PROVE  /\ Head(s) \in Range(s) /\ Head(s) \in S /\ Tail(s) \in Seq(S) /\ Len(Tail(s)) = Len(s) - 1
           /\ Range(Tail(s)) = Range(s) \ {Head(s)}
           /\ IsInjective(Tail(s))
<1>1. Len(s) \in Nat \ {0} /\ DOMAIN s = 1 .. Len(s) /\ Head(s) = s[1] /\ Head(s) \in S
  BY HeadTailProperties, LenProperties, EmptySeq
<1>2. Tail(s) \in Seq(S) /\ Len(Tail(s)) = Len(s) - 1 /\ DOMAIN Tail(s) = 1 .. Len(s) - 1
  BY HeadTailProperties, LenProperties
<1>3. \A i \in 1 .. Len(s) - 1 : Tail(s)[i] = s[i + 1] /\ i + 1 \in DOMAIN s
  BY <1>1, HeadTailProperties
<1>4. \A i, j \in DOMAIN s : s[i] = s[j] => i = j
  BY DEF IsInjective
<1>5. Range(Tail(s)) = Range(s) \ {Head(s)}
  <2>1. \A i \in DOMAIN Tail(s) : i + 1 # 1 /\ Tail(s)[i] = s[i + 1] /\ i + 1 \in DOMAIN s
    BY <1>1, <1>2, <1>3
  <2>2. \A i \in DOMAIN s : s[i] # s[1] => i - 1 \in DOMAIN Tail(s) /\ s[i] = Tail(s)[i - 1]
    BY <1>1, <1>2, <1>3
  <2>3. 1 \in DOMAIN s
    BY <1>1
  <2>4. QED BY <1>1, <1>4, <2>1, <2>2, <2>3 DEF Range
<1>6. IsInjective(Tail(s))
  BY <1>1, <1>2, <1>3, <1>4 DEF IsInjective
<1>7. 1 \in DOMAIN s
  BY <1>1
<1>8. QED BY <1>1, <1>2, <1>5, <1>6, <1>7 DEF Range

(* What is left when one element is removed. *)
LEMMA Removed ==
    ASSUME NEW S, NEW s \in Seq(S), NEW e \in Range(s), IsInjective(s)
    PROVE  LET r == RemoveAt(s, CHOOSE i \in DOMAIN s : s[i] = e)
           IN  r \in Seq(S) /\ Range(r) = Range(s) \ {e} /\ IsInjective(r)
<1> DEFINE k == CHOOSE i \in DOMAIN s : s[i] = e
           a == SubSeq(s, 1, k - 1)
           b == SubSeq(s, k + 1, Len(s))
           r == a \o b
<1>1. k \in DOMAIN s /\ s[k] = e
  BY DEF Range
<1>2. Len(s) \in Nat /\ DOMAIN s = 1 .. Len(s) /\ \A i \in 1 .. Len(s) : s[i] \in S
  BY LenProperties, ElementOfSeq
<1> HIDE DEF k
<1>3. a \in Seq(S) /\ Len(a) = k - 1 /\ \A i \in 1 .. k - 1 : a[i] = s[i]
  BY <1>1, <1>2, SubSeqProperties
<1>4. b \in Seq(S) /\ Len(b) = Len(s) - k /\ \A i \in 1 .. Len(s) - k : b[i] = s[k + i]
  BY <1>1, <1>2, SubSeqProperties
<1> HIDE DEF a, b
<1>5. /\ r \in Seq(S) /\ Len(r) = Len(s) - 1
      /\ \A i \in 1 .. k - 1 : r[i] = s[i]
      /\ \A i \in k .. Len(s) - 1 : r[i] = s[i + 1]
  <2>1. a \in Seq(S) /\ b \in Seq(S)
    BY <1>3, <1>4
  <2>2. /\ r \in Seq(S) /\ Len(r) = Len(a) + Len(b)
        /\ \A i \in 1 .. Len(a) + Len(b) : r[i] = IF i <= Len(a) THEN a[i] ELSE b[i - Len(a)]
    BY <2>1, ConcatProperties
  <2>3. k \in Nat \ {0} /\ k <= Len(s) /\ Len(a) + Len(b) = Len(s) - 1
    BY <1>1, <1>2, <1>3, <1>4
  <2> HIDE DEF r
  <2>4. ASSUME NEW i \in 1 .. k - 1 PROVE r[i] = s[i]
    BY <1>2, <1>3, <2>2, <2>3
  <2>5. ASSUME NEW i \in k .. Len(s) - 1 PROVE r[i] = s[i + 1]
    <3>1. r[i] = b[i - (k - 1)] /\ i - (k - 1) \in 1 .. Len(s) - k
      BY <1>2, <1>3, <2>2, <2>3
    <3>2. b[i - (k - 1)] = s[k + (i - (k - 1))]
      BY <1>4, <3>1
    <3>3. QED BY <1>2, <2>3, <3>1, <3>2
  <2>6. QED BY <2>2, <2>3, <2>4, <2>5
<1>7. DOMAIN r = 1 .. Len(s) - 1
  BY <1>5, LenProperties
<1> HIDE DEF r
<1>8. \A i, j \in DOMAIN s : s[i] = s[j] => i = j
  BY DEF IsInjective
<1>9. Range(r) = Range(s) \ {e}
  <2>1. \A i \in DOMAIN r : \E j \in DOMAIN s : j # k /\ r[i] = s[j]
    BY SMTT(30), <1>1, <1>2, <1>5, <1>7
  <2>2. \A j \in DOMAIN s : j # k => \E i \in DOMAIN r : r[i] = s[j]
    <3> SUFFICES ASSUME NEW j \in DOMAIN s, j # k PROVE \E i \in DOMAIN r : r[i] = s[j]
      OBVIOUS
    <3>1. CASE j < k
      BY <1>1, <1>2, <1>5, <1>7, <3>1
    <3>2. CASE j > k
      <4>1. j - 1 \in DOMAIN r /\ r[j - 1] = s[j]
        BY <1>1, <1>2, <1>5, <1>7, <3>2
      <4>2. QED BY <4>1
    <3>3. QED BY <1>1, <1>2, <3>1, <3>2
  <2>3. QED BY <1>1, <1>8, <2>1, <2>2 DEF Range
<1>10. ASSUME NEW i \in DOMAIN r, NEW j \in DOMAIN r, r[i] = r[j] PROVE i = j
  <2>1. \A n \in DOMAIN r : \/ (n < k /\ n \in DOMAIN s /\ r[n] = s[n])
                            \/ (n >= k /\ n + 1 \in DOMAIN s /\ r[n] = s[n + 1])
    BY SMTT(30), <1>1, <1>2, <1>5, <1>7
  <2>2. i \in Nat /\ j \in Nat /\ k \in Nat
    BY <1>1, <1>2, <1>7
  <2>3. QED BY <1>8, <1>10, <2>1, <2>2
<1>11. QED BY <1>5, <1>9, <1>10 DEF r, a, b, k, RemoveAt, IsInjective

(* The last element, and what is before it. *)
LEMMA FrontLast ==
    ASSUME NEW S, NEW s \in Seq(S), s # << >>
    PROVE  /\ Front(s) \in Seq(S) /\ Len(Front(s)) = Len(s) - 1 /\ Last(s) \in S
           /\ Last(s) = s[Len(s)] /\ Len(s) \in DOMAIN s
           /\ \A i \in 1 .. Len(s) - 1 : i \in DOMAIN s /\ Front(s)[i] = s[i]
           /\ DOMAIN Front(s) = 1 .. Len(s) - 1
<1>1. Len(s) \in Nat /\ DOMAIN s = 1 .. Len(s) /\ \A i \in 1 .. Len(s) : s[i] \in S
  BY LenProperties, ElementOfSeq
<1>2. Len(s) # 0
  BY EmptySeq
<1>3. Len(s) - 1 \in 0 .. Len(s) /\ 1 \in 1 .. Len(s)
  BY <1>1, <1>2
<1>4. /\ Front(s) \in Seq(S) /\ Len(Front(s)) = Len(s) - 1
      /\ \A i \in 1 .. Len(s) - 1 : Front(s)[i] = s[i]
  BY <1>1, <1>2, <1>3, SubSeqProperties DEF Front
<1>5. DOMAIN Front(s) = 1 .. Len(s) - 1
  BY <1>4, LenProperties
<1>6. QED BY <1>1, <1>2, <1>3, <1>4, <1>5 DEF Last

(* What is left when the last element is taken off. *)
LEMMA TakenLast ==
    ASSUME NEW S, NEW s \in Seq(S), s # << >>, IsInjective(s)
    PROVE  /\ IsInjective(Front(s)) /\ Range(Front(s)) = Range(s) \ {Last(s)} /\ Last(s) \in Range(s)
<1>1. IsInjective(Front(s))
  <2> SUFFICES ASSUME NEW i \in DOMAIN Front(s), NEW j \in DOMAIN Front(s), Front(s)[i] = Front(s)[j] PROVE i = j
    BY DEF IsInjective
  <2>1. i \in DOMAIN s /\ j \in DOMAIN s /\ s[i] = s[j]
    BY FrontLast
  <2>2. QED BY <2>1 DEF IsInjective
<1>2. Last(s) \in Range(s)
  BY FrontLast DEF Range
<1>3. ASSUME NEW k \in Range(Front(s)) PROVE k \in Range(s) \ {Last(s)}
  <2>1. PICK i \in DOMAIN Front(s) : k = Front(s)[i]
    BY DEF Range
  <2>2. i \in DOMAIN s /\ s[i] = k /\ i # Len(s)
    BY <2>1, FrontLast
  <2>3. QED BY <2>2, FrontLast DEF IsInjective, Range
<1>4. ASSUME NEW k \in Range(s), k # Last(s) PROVE k \in Range(Front(s))
  <2>1. PICK i \in DOMAIN s : k = s[i]
    BY DEF Range
  <2>2. i \in 1 .. Len(s) - 1
    <3>1. Last(s) = s[Len(s)] /\ DOMAIN s = 1 .. Len(s) /\ Len(s) \in Nat
      BY FrontLast, LenProperties
    <3>2. QED BY <1>4, <2>1, <3>1
  <2>3. QED BY <2>1, <2>2, FrontLast DEF Range
<1>5. QED BY <1>1, <1>2, <1>3, <1>4

(* What is put at the end of a sequence without repetitions. *)
LEMMA Appended ==
    ASSUME NEW S, NEW s \in Seq(S), NEW k \in S, IsInjective(s), k \notin Range(s)
    PROVE  /\ Append(s, k) \in Seq(S) /\ Len(Append(s, k)) = Len(s) + 1
           /\ IsInjective(Append(s, k)) /\ Range(Append(s, k)) = Range(s) \cup {k}
<1> DEFINE r == Append(s, k)
<1>1. /\ r \in Seq(S) /\ Len(r) = Len(s) + 1 /\ DOMAIN s = 1 .. Len(s) /\ Len(s) \in Nat
      /\ DOMAIN r = 1 .. Len(s) + 1 /\ r[Len(s) + 1] = k /\ \A i \in 1 .. Len(s) : r[i] = s[i]
  BY AppendProperties, LenProperties
<1> HIDE DEF r
<1>2. \A i \in DOMAIN s : s[i] # k
  BY DEF Range
<1>3. IsInjective(r)
  <2> SUFFICES ASSUME NEW i \in DOMAIN r, NEW j \in DOMAIN r, r[i] = r[j] PROVE i = j
    BY DEF IsInjective
  <2>1. CASE i \in DOMAIN s /\ j \in DOMAIN s
    BY <1>1, <2>1 DEF IsInjective
  <2>2. QED BY <1>1, <1>2, <2>1
<1>4. Range(r) \subseteq Range(s) \cup {k}
  BY <1>1 DEF Range
<1>5. \A x \in Range(s) : x \in Range(r)
  BY <1>1 DEF Range
<1>6. k \in Range(r)
  BY <1>1 DEF Range
<1>7. QED BY <1>1, <1>3, <1>4, <1>5, <1>6 DEF r

(* Two sequences without a common element, one after the other. *)
LEMMA Concatenated ==
    ASSUME NEW S, NEW a \in Seq(S), NEW b \in Seq(S)
    PROVE  /\ a \o b \in Seq(S)
           /\ Range(a \o b) = Range(a) \cup Range(b)
           /\ IsInjective(a) /\ IsInjective(b) /\ Range(a) \cap Range(b) = {} => IsInjective(a \o b)
<1> DEFINE r == a \o b
<1>1. /\ r \in Seq(S) /\ Len(a) \in Nat /\ Len(b) \in Nat
      /\ DOMAIN a = 1 .. Len(a) /\ DOMAIN b = 1 .. Len(b) /\ DOMAIN r = 1 .. Len(a) + Len(b)
      /\ \A i \in 1 .. Len(a) : r[i] = a[i]
      /\ \A i \in 1 .. Len(b) : r[Len(a) + i] = b[i]
  BY ConcatProperties, LenProperties
<1> HIDE DEF r
<1>2. \A i \in DOMAIN r : i \in DOMAIN a \/ (i - Len(a) \in DOMAIN b /\ r[i] = b[i - Len(a)])
  <2> SUFFICES ASSUME NEW i \in DOMAIN r, i \notin DOMAIN a
               PROVE  i - Len(a) \in DOMAIN b /\ r[i] = b[i - Len(a)]
    OBVIOUS
  <2>1. i - Len(a) \in 1 .. Len(b) /\ Len(a) + (i - Len(a)) = i
    BY <1>1
  <2>2. QED BY <1>1, <2>1
<1>3. Range(r) = Range(a) \cup Range(b)
  <2>1. \A i \in DOMAIN a : i \in DOMAIN r /\ r[i] = a[i]
    BY <1>1
  <2>2. \A i \in DOMAIN b : Len(a) + i \in DOMAIN r /\ r[Len(a) + i] = b[i]
    BY <1>1
  <2>3. QED BY <1>2, <2>1, <2>2 DEF Range
<1>4. ASSUME IsInjective(a), IsInjective(b), Range(a) \cap Range(b) = {} PROVE IsInjective(r)
  <2> SUFFICES ASSUME NEW i \in DOMAIN r, NEW j \in DOMAIN r, r[i] = r[j] PROVE i = j
    BY DEF IsInjective
  <2>1. \A h \in DOMAIN r : h \in DOMAIN a => r[h] = a[h] /\ r[h] \in Range(a)
    BY <1>1 DEF Range
  <2>2. \A h \in DOMAIN r : h \notin DOMAIN a => h - Len(a) \in DOMAIN b /\ r[h] = b[h - Len(a)] /\ r[h] \in Range(b)
    BY <1>2 DEF Range
  <2>3. CASE i \in DOMAIN a /\ j \in DOMAIN a
    BY <1>4, <2>1, <2>3 DEF IsInjective
  <2>4. CASE i \notin DOMAIN a /\ j \notin DOMAIN a
    <3>1. i - Len(a) = j - Len(a)
      BY <1>4, <2>2, <2>4 DEF IsInjective
    <3>2. QED BY <1>1, <3>1
  <2>5. CASE i \in DOMAIN a <=> j \notin DOMAIN a
    BY <1>4, <2>1, <2>2, <2>5
  <2>6. QED BY <2>3, <2>4, <2>5
<1>5. QED BY <1>1, <1>3, <1>4 DEF r

-----------------------------------------------------------------------------
(* take_remote leaves the last task out and moves the others, each to one  *)
(* place.                                                                  *)
LEMMA Shared ==
    ASSUME NEW s \in Seq(Tasks), NEW r \in Seq(Tasks), r # << >>, NEW m \in Nat, m <= Len(r) - 1
    PROVE  LET kept == Front(r)
               local == s \o SubSeq(kept, 1, m)
               remote == Reverse(SubSeq(kept, m + 1, Len(kept)))
           IN  /\ local \in Seq(Tasks) /\ Len(local) = Len(s) + m /\ DOMAIN local = 1 .. Len(s) + m
               /\ \A i \in 1 .. Len(s) : local[i] = s[i]
               /\ \A i \in 1 .. m : local[Len(s) + i] = r[i]
               /\ remote \in Seq(Tasks) /\ DOMAIN remote = 1 .. Len(r) - 1 - m
               /\ \A i \in 1 .. Len(r) - 1 - m : remote[i] = r[Len(r) - i]
<1> DEFINE kept == Front(r)
           head == SubSeq(kept, 1, m)
           tail == SubSeq(kept, m + 1, Len(kept))
           n == Len(r) - 1 - m
<1>1. /\ kept \in Seq(Tasks) /\ Len(kept) = Len(r) - 1 /\ DOMAIN kept = 1 .. Len(r) - 1
      /\ \A i \in 1 .. Len(r) - 1 : kept[i] = r[i]
      /\ \A i \in 1 .. Len(r) - 1 : kept[i] \in Tasks
      /\ Len(r) \in Nat /\ Len(s) \in Nat /\ n \in Nat
  BY SMTT(30), FrontLast, LenProperties, ElementOfSeq
<1> HIDE DEF kept
<1>2. /\ head \in Seq(Tasks) /\ Len(head) = m /\ \A i \in 1 .. m : head[i] = kept[i]
  <2>1. \A i \in 1 .. m : kept[i] \in Tasks
    BY <1>1
  <2>2. QED BY <1>1, <2>1, SubSeqProperties
<1>3. /\ tail \in Seq(Tasks) /\ Len(tail) = n /\ \A i \in 1 .. n : tail[i] = kept[m + i]
  <2>1. \A i \in m + 1 .. Len(kept) : kept[i] \in Tasks
    BY <1>1
  <2>2. /\ tail \in Seq(Tasks) /\ Len(tail) = IF m + 1 <= Len(kept) THEN Len(kept) - (m + 1) + 1 ELSE 0
        /\ \A i \in 1 .. Len(kept) - (m + 1) + 1 : tail[i] = kept[m + 1 + i - 1]
    BY <1>1, <2>1, SubSeqProperties
  <2>3. QED BY <1>1, <2>2
<1> HIDE DEF head, tail, n
<1>4. /\ s \o head \in Seq(Tasks) /\ Len(s \o head) = Len(s) + m /\ DOMAIN (s \o head) = 1 .. Len(s) + m
      /\ \A i \in 1 .. Len(s) : (s \o head)[i] = s[i]
      /\ \A i \in 1 .. m : (s \o head)[Len(s) + i] = head[i]
  <2>1. /\ s \o head \in Seq(Tasks) /\ Len(s \o head) = Len(s) + Len(head)
        /\ \A i \in 1 .. Len(s) + Len(head) :
              (s \o head)[i] = IF i <= Len(s) THEN s[i] ELSE head[i - Len(s)]
    BY <1>2, ConcatProperties
  <2>2. QED BY <1>1, <1>2, <2>1, LenProperties
<1>5. /\ Reverse(tail) \in Seq(Tasks) /\ DOMAIN Reverse(tail) = 1 .. n
      /\ \A i \in 1 .. n : Reverse(tail)[i] = tail[n - i + 1]
  <2>1. \A i \in 1 .. n : n - i + 1 \in 1 .. n
    BY <1>1
  <2>2. \A i \in 1 .. n : tail[i] \in Tasks
    BY <1>3, ElementOfSeq
  <2>3. Reverse(tail) = [i \in 1 .. n |-> tail[n - i + 1]]
    BY <1>3 DEF Reverse
  <2>4. Reverse(tail) \in [1 .. n -> Tasks]
    BY <2>1, <2>2, <2>3
  <2>5. QED BY <1>1, <2>3, <2>4
<1>6. \A i \in 1 .. m : head[i] = r[i]
  <2> SUFFICES ASSUME NEW i \in 1 .. m PROVE head[i] = r[i]
    OBVIOUS
  <2>1. i \in 1 .. Len(r) - 1
    BY <1>1
  <2>2. QED BY <1>1, <1>2, <2>1
<1>7. \A i \in 1 .. n : Reverse(tail)[i] = r[Len(r) - i]
  <2> SUFFICES ASSUME NEW i \in 1 .. n PROVE Reverse(tail)[i] = r[Len(r) - i]
    OBVIOUS
  <2>1. n - i + 1 \in 1 .. n /\ m + (n - i + 1) = Len(r) - i /\ Len(r) - i \in 1 .. Len(r) - 1
    BY <1>1 DEF n
  <2>2. tail[n - i + 1] = kept[Len(r) - i]
    BY <1>3, <2>1
  <2>3. QED BY <1>1, <1>5, <2>1, <2>2
<1>8. QED
  BY <1>1, <1>4, <1>5, <1>6, <1>7 DEF kept, head, tail, n

(* Nothing of a worker's queues is lost or doubled when it takes a task    *)
(* from its remote queue, and its local queue does not grow too long.      *)
LEMMA TakenTasks ==
    ASSUME Types, NEW w \in Workers, Distinct(w), Len(wk[w].local) <= Capacity, wk[w].remote # << >>
    PROVE  LET k == Last(wk[w].remote)
               taken == Taken(w)
           IN  /\ taken \in WorkerState
               /\ taken.state = wk[w].state /\ taken.mutex = wk[w].mutex /\ taken.waiting = wk[w].waiting
               /\ Len(taken.local) <= Capacity
               /\ IsInjective(taken.local) /\ IsInjective(taken.remote)
               /\ Range(taken.local) \cap Range(taken.remote) = {}
               /\ k \in Tasks /\ k \in Stored(w)
               /\ Range(taken.local) \cup Range(taken.remote) = Stored(w) \ {k}
<1> DEFINE s == wk[w].local
           r == wk[w].remote
           k == Last(r)
           m == Smaller(Len(Front(r)), Capacity - Len(s))
           local == s \o SubSeq(Front(r), 1, m)
           remote == Reverse(SubSeq(Front(r), m + 1, Len(Front(r))))
<1>1. /\ wk[w] \in WorkerState /\ s \in Seq(Tasks) /\ r \in Seq(Tasks) /\ r # << >> /\ Len(s) <= Capacity
      /\ IsInjective(s) /\ IsInjective(r) /\ Range(s) \cap Range(r) = {}
  BY DEF Types, WorkerState, Distinct
<1>2. Taken(w) = [wk[w] EXCEPT !.local = local, !.remote = remote]
  BY DEF Taken
<1>3. Stored(w) = Range(s) \cup Range(r)
  BY DEF Stored
<1> HIDE DEF s, r
<1>4. /\ Len(s) \in Nat /\ Len(r) \in Nat /\ Len(Front(r)) = Len(r) - 1 /\ Len(r) # 0
      /\ DOMAIN s = 1 .. Len(s) /\ DOMAIN r = 1 .. Len(r) /\ k = r[Len(r)] /\ k \in Tasks
  BY <1>1, FrontLast, LenProperties, EmptySeq
<1>5. m \in Nat /\ m <= Len(r) - 1 /\ Len(s) + m <= Capacity
  BY <1>1, <1>4, ThreadPoolAssumption DEF Smaller
<1> HIDE DEF k, m
<1>6. /\ local \in Seq(Tasks) /\ Len(local) = Len(s) + m /\ DOMAIN local = 1 .. Len(s) + m
      /\ \A i \in 1 .. Len(s) : local[i] = s[i]
      /\ \A i \in 1 .. m : local[Len(s) + i] = r[i]
      /\ remote \in Seq(Tasks) /\ DOMAIN remote = 1 .. Len(r) - 1 - m
      /\ \A i \in 1 .. Len(r) - 1 - m : remote[i] = r[Len(r) - i]
  BY <1>1, <1>5, Shared
<1> HIDE DEF local, remote
<1>7. \A i \in DOMAIN local :
         \/ i \in DOMAIN s /\ local[i] = s[i]
         \/ i - Len(s) \in 1 .. m /\ i - Len(s) \in DOMAIN r /\ local[i] = r[i - Len(s)]
  <2> SUFFICES ASSUME NEW i \in DOMAIN local, i \notin DOMAIN s
               PROVE  i - Len(s) \in 1 .. m /\ i - Len(s) \in DOMAIN r /\ local[i] = r[i - Len(s)]
    BY <1>6, <1>4
  <2>1. i - Len(s) \in 1 .. m /\ i - Len(s) \in DOMAIN r /\ Len(s) + (i - Len(s)) = i
    BY <1>4, <1>5, <1>6
  <2>2. QED BY <1>6, <2>1
<1>8. \A i \in DOMAIN remote :
         Len(r) - i \in m + 1 .. Len(r) - 1 /\ Len(r) - i \in DOMAIN r /\ remote[i] = r[Len(r) - i]
  <2> SUFFICES ASSUME NEW i \in 1 .. Len(r) - 1 - m
               PROVE  Len(r) - i \in m + 1 .. Len(r) - 1 /\ Len(r) - i \in DOMAIN r
    BY <1>6
  <2>1. QED BY <1>4, <1>5
<1>9. \A i \in DOMAIN s, j \in DOMAIN r : s[i] # r[j]
  BY <1>1 DEF Range
<1>10. IsInjective(local)
  <2> SUFFICES ASSUME NEW i \in DOMAIN local, NEW j \in DOMAIN local, local[i] = local[j] PROVE i = j
    BY DEF IsInjective
  <2>1. CASE i \in DOMAIN s /\ local[i] = s[i] /\ j \in DOMAIN s /\ local[j] = s[j]
    BY <1>1, <2>1 DEF IsInjective
  <2>2. CASE /\ i - Len(s) \in DOMAIN r /\ local[i] = r[i - Len(s)]
             /\ j - Len(s) \in DOMAIN r /\ local[j] = r[j - Len(s)]
    <3>1. i - Len(s) = j - Len(s)
      BY <1>1, <2>2 DEF IsInjective
    <3>2. QED BY <1>4, <1>6, <3>1
  <2>3. QED BY <1>7, <1>9, <2>1, <2>2
<1>11. IsInjective(remote)
  <2> SUFFICES ASSUME NEW i \in DOMAIN remote, NEW j \in DOMAIN remote, remote[i] = remote[j] PROVE i = j
    BY DEF IsInjective
  <2>1. Len(r) - i = Len(r) - j
    BY <1>1, <1>8 DEF IsInjective
  <2>2. QED BY <1>4, <1>6, <2>1
<1>12. ASSUME NEW i \in DOMAIN local, NEW j \in DOMAIN remote PROVE local[i] # remote[j]
  <2>1. CASE i \in DOMAIN s /\ local[i] = s[i]
    BY <1>8, <1>9, <2>1
  <2>2. CASE i - Len(s) \in 1 .. m /\ i - Len(s) \in DOMAIN r /\ local[i] = r[i - Len(s)]
    <3>1. i - Len(s) # Len(r) - j
      BY <1>4, <1>5, <1>8, <2>2
    <3>2. QED BY <1>1, <1>8, <2>2, <3>1 DEF IsInjective
  <2>3. QED BY <1>7, <2>1, <2>2
<1>13. Range(local) \cap Range(remote) = {}
  BY <1>12 DEF Range
<1>14. k \in Range(r) /\ k \notin Range(s)
  BY <1>4, <1>9 DEF Range
<1>15. ASSUME NEW x \in Range(local) \cup Range(remote) PROVE x \in (Range(s) \cup Range(r)) \ {k}
  <2>1. CASE \E i \in DOMAIN s : x = s[i]
    BY <1>14, <2>1 DEF Range
  <2>2. CASE \E i \in DOMAIN r : x = r[i] /\ i <= Len(r) - 1
    <3>1. PICK i \in DOMAIN r : x = r[i] /\ i <= Len(r) - 1
      BY <2>2
    <3>2. i # Len(r) /\ Len(r) \in DOMAIN r
      BY <1>4, <3>1
    <3>3. QED BY <1>1, <1>4, <3>1, <3>2 DEF IsInjective, Range
  <2>3. CASE x \in Range(local)
    <3>1. PICK i \in DOMAIN local : x = local[i]
      BY <2>3 DEF Range
    <3>2. i - Len(s) \in 1 .. m => i - Len(s) <= Len(r) - 1
      BY <1>4, <1>5
    <3>3. QED BY <1>7, <2>1, <2>2, <3>1, <3>2
  <2>4. CASE x \in Range(remote)
    <3>1. PICK i \in DOMAIN remote : x = remote[i]
      BY <2>4 DEF Range
    <3>2. Len(r) - i <= Len(r) - 1
      BY <1>4, <1>5, <1>8, <3>1
    <3>3. QED BY <1>8, <2>2, <3>1, <3>2
  <2>5. QED BY <2>3, <2>4
<1>16. ASSUME NEW x \in Range(s) \cup Range(r), x # k PROVE x \in Range(local) \cup Range(remote)
  <2>1. CASE x \in Range(s)
    <3>1. PICK i \in DOMAIN s : x = s[i]
      BY <2>1 DEF Range
    <3>2. i \in DOMAIN local /\ local[i] = x
      BY <1>4, <1>5, <1>6, <3>1
    <3>3. QED BY <3>2 DEF Range
  <2>2. CASE x \in Range(r)
    <3>1. PICK i \in DOMAIN r : x = r[i]
      BY <2>2 DEF Range
    <3>2. i \in 1 .. Len(r) - 1
      BY <1>4, <1>16, <3>1
    <3>3. CASE i <= m
      <4>1. Len(s) + i \in DOMAIN local /\ local[Len(s) + i] = x
        BY <1>4, <1>5, <1>6, <3>1, <3>2, <3>3
      <4>2. QED BY <4>1 DEF Range
    <3>4. CASE ~(i <= m)
      <4>1. Len(r) - i \in DOMAIN remote /\ remote[Len(r) - i] = r[Len(r) - (Len(r) - i)]
        BY SMTT(30), <1>4, <1>5, <1>6, <3>2, <3>4
      <4>2. Len(r) - (Len(r) - i) = i
        BY <1>4, <3>2
      <4>3. QED BY <3>1, <4>1, <4>2 DEF Range
    <3>5. QED BY <3>3, <3>4
  <2>3. QED BY <1>16, <2>1, <2>2
<1>17. Range(local) \cup Range(remote) = (Range(s) \cup Range(r)) \ {k}
  BY <1>15, <1>16
<1>18. /\ Taken(w) \in WorkerState /\ Taken(w).state = wk[w].state /\ Taken(w).mutex = wk[w].mutex
       /\ Taken(w).waiting = wk[w].waiting /\ Taken(w).local = local /\ Taken(w).remote = remote
  BY <1>1, <1>2, <1>6 DEF WorkerState
<1>19. QED
  BY <1>3, <1>4, <1>5, <1>6, <1>10, <1>11, <1>13, <1>14, <1>17, <1>18 DEF k, r

-----------------------------------------------------------------------------
(* How steps change one thread's record, or one worker's.                  *)
Sets(t, r) ==
    /\ th' \in [Threads -> ThreadState] /\ th'[t] = r
    /\ \A u \in Threads : u # t => th'[u] = th[u]
SetsWorker(w, r) ==
    /\ wk' \in [Workers -> WorkerState] /\ wk'[w] = r
    /\ \A v \in Workers : v # w => wk'[v] = wk[v]

Goes(t, where) == Sets(t, [th[t] EXCEPT !.pc = where])
Returns(t) == Sets(t, [th[t] EXCEPT !.pc = th[t].back, !.target = 1, !.scanning = FALSE, !.back = "user"])
Searches(t, next) == Sets(t, [th[t] EXCEPT !.pc = "find", !.search = next])
Runs(t) == Sets(t, [th[t] EXCEPT !.pc = "task", !.task = None, !.search = "sleep"])

LEMMA SetThread ==
    ASSUME Types, NEW t \in Threads, NEW r \in ThreadState, th' = [th EXCEPT ![t] = r]
    PROVE  Sets(t, r)
BY DEF Types, Sets

LEMMA SetWorker ==
    ASSUME Types, NEW w \in Workers, NEW r \in WorkerState, wk' = [wk EXCEPT ![w] = r]
    PROVE  SetsWorker(w, r)
BY DEF Types, SetsWorker

LEMMA Known ==
    ASSUME Types
    PROVE  /\ \A t \in Threads : th[t] \in ThreadState
           /\ \A w \in Workers : wk[w] \in WorkerState /\ w \in Threads
           /\ \A c \in Clients : c \in Threads /\ c \notin Workers
           /\ \A t \in Threads : t \in Workers \/ t \in Clients
           /\ None \notin Threads \cup Tasks \cup Jobs
BY ThreadPoolAssumption DEF Types, Threads

Somewhere == Calling \cup Working \cup Holding \cup Other

LEMMA Going ==
    ASSUME Types, NEW t \in Threads, NEW where \in Somewhere, Goto(t, where)
    PROVE  Goes(t, where)
<1> DEFINE r == [th[t] EXCEPT !.pc = where]
<1>1. r \in ThreadState
  BY Known DEF ThreadState, Somewhere
<1>2. th' = [th EXCEPT ![t] = r]
  BY DEF Goto
<1>3. QED BY <1>1, <1>2, SetThread DEF Goes

LEMMA Returning ==
    ASSUME Types, NEW t \in Threads, Return(t)
    PROVE  Returns(t)
<1> DEFINE r == [th[t] EXCEPT !.pc = th[t].back, !.target = 1, !.scanning = FALSE, !.back = "user"]
<1>0. th[t] \in ThreadState /\ th[t].back \in Somewhere
  BY Known DEF ThreadState, Somewhere, Other, Working
<1>1. r \in ThreadState
  BY <1>0 DEF ThreadState, Somewhere
<1>2. th' = [th EXCEPT ![t] = r]
  BY DEF Return
<1>3. QED BY <1>1, <1>2, SetThread DEF Returns

LEMMA Searching ==
    ASSUME Types, NEW w \in Workers, NEW next \in {"sleep", "rejoin", "exit"}, Search(w, next)
    PROVE  Searches(w, next)
<1> DEFINE r == [th[w] EXCEPT !.pc = "find", !.search = next]
<1>0. th[w] \in ThreadState /\ w \in Threads
  BY Known
<1>1. r \in ThreadState
  BY <1>0 DEF ThreadState, Other
<1>2. th' = [th EXCEPT ![w] = r]
  BY DEF Search
<1>3. QED BY <1>0, <1>1, <1>2, SetThread DEF Searches

LEMMA Executing ==
    ASSUME Types, NEW w \in Workers, NEW k \in Tasks, Execute(w, k)
    PROVE  /\ Runs(w)
           /\ task' = [task EXCEPT ![k].ran = Up(@)]
           /\ task' \in [Tasks -> TaskState]
<1> DEFINE r == [th[w] EXCEPT !.pc = "task", !.task = None, !.search = "sleep"]
<1>0. th[w] \in ThreadState /\ w \in Threads
  BY Known
<1>1. r \in ThreadState
  BY <1>0 DEF ThreadState, Other
<1>2. th' = [th EXCEPT ![w] = r]
  BY DEF Execute
<1>3. [task[k] EXCEPT !.ran = Up(@)] \in TaskState
  BY DEF Types, Up, TaskState
<1>4. QED BY <1>0, <1>1, <1>2, <1>3, SetThread DEF Runs, Execute, Types

(* The steps of wake_idle and notify. *)
LEMMA WakeIdleEffect ==
    ASSUME Types, NEW t \in Threads, WakeIdle(t)
    PROVE  /\ At(t, "wake") /\ UNCHANGED <<plan, wk, pool, job, owner, task>>
           /\ \/ pool.sleepers = 0 /\ Returns(t)
              \/ Sets(t, [th[t] EXCEPT !.pc = "scan", !.scanning = TRUE])
<1> DEFINE r == [th[t] EXCEPT !.pc = "scan", !.scanning = TRUE]
<1>1. th[t] \in ThreadState
  BY Known
<1>2. r \in ThreadState
  BY <1>1 DEF ThreadState, Calling
<1>3. ASSUME th' = [th EXCEPT ![t].pc = "scan", ![t].scanning = TRUE] PROVE Sets(t, r)
  <2>1. th' = [th EXCEPT ![t] = r]
    BY <1>3
  <2>2. QED BY <1>2, <2>1, SetThread
<1>4. QED BY <1>3, Returning DEF WakeIdle

LEMMA ScanEffect ==
    ASSUME Types, NEW t \in Threads, Scan(t)
    PROVE  LET i == th[t].target
           IN  /\ At(t, "scan") /\ UNCHANGED <<plan, wk, pool, job, owner, task>>
               /\ \/ i \notin Workers /\ Returns(t)
                  \/ i \in Workers /\ i # t /\ wk[i].state = "sleeping" /\ Goes(t, "notify")
                  \/ /\ i \in Workers /\ (i = t \/ wk[i].state # "sleeping")
                     /\ Sets(t, [th[t] EXCEPT !.target = i + 1])
<1> DEFINE i == th[t].target
           r == [th[t] EXCEPT !.target = i + 1]
<1>1. th[t] \in ThreadState /\ i \in Nat
  BY Known DEF ThreadState
<1>2. i + 1 \in Nat
  BY <1>1
<1>3. r \in ThreadState
  BY <1>1, <1>2 DEF ThreadState
<1>4. ASSUME th' = [th EXCEPT ![t].target = i + 1] PROVE Sets(t, r)
  <2>1. th' = [th EXCEPT ![t] = r]
    BY <1>4
  <2>2. QED BY <1>3, <2>1, SetThread
<1>5. Goto(t, "notify") => Goes(t, "notify")
  BY Going DEF Somewhere, Calling, Notifying
<1>6. QED BY <1>4, <1>5, Returning DEF Scan

LEMMA NotifyEffect ==
    ASSUME Types, CallInv, NEW t \in Threads, Notify(t)
    PROVE  LET i == th[t].target
           IN  /\ At(t, "notify") /\ i \in Workers /\ UNCHANGED <<plan, pool, job, owner, task>>
               /\ SetsWorker(i, [wk[i] EXCEPT !.state = "notified"])
               /\ \/ wk[i].state = "sleeping" /\ Goes(t, "notify_lock")
                  \/ /\ wk[i].state # "sleeping" /\ th[t].scanning
                     /\ Sets(t, [th[t] EXCEPT !.pc = "scan", !.target = i + 1])
                  \/ wk[i].state # "sleeping" /\ ~th[t].scanning /\ Returns(t)
<1> DEFINE i == th[t].target
           r == [th[t] EXCEPT !.pc = "scan", !.target = i + 1]
<1>1. th[t] \in ThreadState /\ i \in Nat
  BY Known DEF ThreadState
<1>2. i + 1 \in Nat
  BY <1>1
<1>3. r \in ThreadState
  BY <1>1, <1>2 DEF ThreadState, Calling
<1>4. ASSUME th' = [th EXCEPT ![t].pc = "scan", ![t].target = i + 1] PROVE Sets(t, r)
  <2>1. th' = [th EXCEPT ![t] = r]
    BY <1>4
  <2>2. QED BY <1>3, <2>1, SetThread
<1>5. Goto(t, "notify_lock") => Goes(t, "notify_lock")
  BY Going DEF Somewhere, Calling, Notifying
<1>6. At(t, "notify") /\ i \in Workers
  BY DEF Notify, CallInv, Call, At, Notifying
<1>7. [wk[i] EXCEPT !.state = "notified"] \in WorkerState
  BY <1>6, Known DEF WorkerState
<1>8. wk' = [wk EXCEPT ![i] = [wk[i] EXCEPT !.state = "notified"]]
  BY DEF Notify
<1>9. SetsWorker(i, [wk[i] EXCEPT !.state = "notified"])
  BY <1>6, <1>7, <1>8, SetWorker
<1>10. QED BY <1>4, <1>5, <1>6, <1>9, Returning DEF Notify

LEMMA NotifyOneEffect ==
    ASSUME Types, CallInv, NEW t \in Threads, NotifyOne(t)
    PROVE  LET i == th[t].target
           IN  /\ At(t, "notify_one") /\ i \in Workers /\ UNCHANGED <<plan, pool, job, owner, task>>
               /\ SetsWorker(i, [wk[i] EXCEPT !.waiting = FALSE]) /\ Returns(t)
<1> DEFINE i == th[t].target
<1>1. At(t, "notify_one") /\ i \in Workers
  BY DEF NotifyOne, CallInv, Call, At, Notifying
<1>2. [wk[i] EXCEPT !.waiting = FALSE] \in WorkerState
  BY <1>1, Known DEF WorkerState
<1>3. wk' = [wk EXCEPT ![i] = [wk[i] EXCEPT !.waiting = FALSE]]
  BY DEF NotifyOne
<1>4. QED BY <1>1, <1>2, <1>3, SetWorker, Returning DEF NotifyOne

(* A submission is queued, and its thread goes on to notify a worker.      *)
LEMMA EnqueueRemoteEffect ==
    ASSUME Types, TaskInv, NEW c \in Clients, NEW k \in Tasks, EnqueueRemote(c, k)
    PROVE  /\ At(c, "user") /\ owner.pc = "idle" /\ ~task[k].given
           /\ task' = [task EXCEPT ![k].given = TRUE] /\ UNCHANGED <<plan, pool, job, owner>>
           /\ \E w \in Workers :
                 /\ SetsWorker(w, [wk[w] EXCEPT !.remote = <<k>> \o wk[w].remote])
                 /\ Sets(c, [th[c] EXCEPT !.pc = "notify", !.target = w, !.scanning = FALSE, !.back = "user"])
<1>1. PICK w \in Workers :
         /\ wk' = [wk EXCEPT ![w].remote = <<k>> \o @]
         /\ th' = [th EXCEPT ![c].pc = "notify", ![c].target = w, ![c].scanning = FALSE, ![c].back = "user"]
  BY DEF EnqueueRemote
<1> DEFINE r == [th[c] EXCEPT !.pc = "notify", !.target = w, !.scanning = FALSE, !.back = "user"]
           q == [wk[w] EXCEPT !.remote = <<k>> \o wk[w].remote]
<1>2. c \in Threads /\ th[c] \in ThreadState /\ wk[w] \in WorkerState
  BY Known
<1>3. w \in Nat
  BY ThreadPoolAssumption DEF Workers
<1>4. r \in ThreadState
  BY <1>2, <1>3 DEF ThreadState, Calling, Notifying
<1>5. <<k>> \o wk[w].remote \in Seq(Tasks)
  BY <1>2 DEF WorkerState
<1>6. q \in WorkerState
  BY <1>2, <1>5 DEF WorkerState
<1>7. th' = [th EXCEPT ![c] = r] /\ wk' = [wk EXCEPT ![w] = q]
  BY <1>1
<1>8. Sets(c, r) /\ SetsWorker(w, q)
  BY <1>2, <1>4, <1>6, <1>7, SetThread, SetWorker
<1>9. QED BY <1>8 DEF EnqueueRemote, Submit

LEMMA EnqueueLocalEffect ==
    ASSUME Types, TaskInv, NEW w \in Workers, NEW k \in Tasks, EnqueueLocal(w, k)
    PROVE  /\ At(w, "task") /\ ~task[k].given
           /\ task' = [task EXCEPT ![k].given = TRUE] /\ UNCHANGED <<plan, pool, job, owner>>
           /\ Sets(w, [th[w] EXCEPT !.pc = "wake", !.back = "task"])
           /\ \/ /\ Len(wk[w].local) < Capacity
                 /\ SetsWorker(w, [wk[w] EXCEPT !.local = Append(wk[w].local, k)])
              \/ SetsWorker(w, [wk[w] EXCEPT !.remote = <<k>> \o wk[w].remote])
<1> DEFINE r == [th[w] EXCEPT !.pc = "wake", !.back = "task"]
           p == [wk[w] EXCEPT !.local = Append(wk[w].local, k)]
           q == [wk[w] EXCEPT !.remote = <<k>> \o wk[w].remote]
<1>1. w \in Threads /\ th[w] \in ThreadState /\ wk[w] \in WorkerState
  BY Known
<1>2. r \in ThreadState
  BY <1>1 DEF ThreadState, Calling
<1>3. <<k>> \o wk[w].remote \in Seq(Tasks) /\ Append(wk[w].local, k) \in Seq(Tasks)
  BY <1>1 DEF WorkerState
<1>4. p \in WorkerState /\ q \in WorkerState
  BY <1>1, <1>3 DEF WorkerState
<1>5. th' = [th EXCEPT ![w] = r] /\ wk' = IF Len(wk[w].local) < Capacity THEN [wk EXCEPT ![w] = p]
                                                                         ELSE [wk EXCEPT ![w] = q]
  BY DEF EnqueueLocal
<1>6. Sets(w, r) /\ IF Len(wk[w].local) < Capacity THEN SetsWorker(w, p) ELSE SetsWorker(w, q)
  BY <1>1, <1>2, <1>4, <1>5, SetThread, SetWorker
<1>7. QED BY <1>6 DEF EnqueueLocal, Submit

(* The steps of wait_for_task. *)
LEMMA SleepLockEffect ==
    ASSUME Types, NEW w \in Workers, SleepLock(w)
    PROVE  /\ At(w, "sleep") /\ UNCHANGED <<plan, pool, job, owner, task>> /\ wk[w].mutex = None
           /\ \/ pool.stopping /\ Searches(w, "exit") /\ UNCHANGED wk
              \/ Goes(w, "fall_asleep") /\ SetsWorker(w, [wk[w] EXCEPT !.mutex = w])
<1> DEFINE q == [wk[w] EXCEPT !.mutex = w]
<1>1. w \in Threads /\ wk[w] \in WorkerState
  BY Known
<1>2. q \in WorkerState
  BY <1>1 DEF WorkerState
<1>3. wk' = [wk EXCEPT ![w].mutex = w] => SetsWorker(w, q)
  <2>1. SUFFICES ASSUME wk' = [wk EXCEPT ![w].mutex = w] PROVE wk' = [wk EXCEPT ![w] = q]
    BY <1>2, SetWorker
  <2>2. QED BY <2>1
<1>4. Goto(w, "fall_asleep") => Goes(w, "fall_asleep")
  BY <1>1, Going DEF Somewhere, Holding
<1>5. QED BY <1>3, <1>4, Searching DEF SleepLock, LastLook, MutexFree

LEMMA FallAsleepEffect ==
    ASSUME Types, NEW w \in Workers, FallAsleep(w)
    PROVE  /\ At(w, "fall_asleep") /\ UNCHANGED <<plan, pool, job, owner, task>>
           /\ \/ Goes(w, "recheck") /\ SetsWorker(w, [wk[w] EXCEPT !.state = "sleeping"])
              \/ Goes(w, "wake_up") /\ UNCHANGED wk
<1> DEFINE q == [wk[w] EXCEPT !.state = "sleeping"]
<1>1. w \in Threads /\ wk[w] \in WorkerState
  BY Known
<1>2. q \in WorkerState
  BY <1>1 DEF WorkerState
<1>3. wk' = [wk EXCEPT ![w].state = "sleeping"] => SetsWorker(w, q)
  <2>1. SUFFICES ASSUME wk' = [wk EXCEPT ![w].state = "sleeping"] PROVE wk' = [wk EXCEPT ![w] = q]
    BY <1>2, SetWorker
  <2>2. QED BY <2>1
<1>4. /\ Goto(w, "recheck") => Goes(w, "recheck")
      /\ Goto(w, "wake_up") => Goes(w, "wake_up")
  BY <1>1, Going DEF Somewhere, Holding
<1>5. QED BY <1>3, <1>4 DEF FallAsleep

LEMMA RecheckEffect ==
    ASSUME Types, TaskInv, NEW w \in Workers, Recheck(w)
    PROVE  /\ At(w, "recheck") /\ UNCHANGED <<plan, pool, job, owner, task>>
           /\ \/ /\ wk[w].remote # << >> /\ SetsWorker(w, Taken(w))
                 /\ Sets(w, [th[w] EXCEPT !.pc = "got_remote", !.task = Last(wk[w].remote)])
              \/ wk[w].remote = << >> /\ Goes(w, "count") /\ UNCHANGED wk
<1> DEFINE r == [th[w] EXCEPT !.pc = "got_remote", !.task = Last(wk[w].remote)]
<1>1. w \in Threads /\ th[w] \in ThreadState
  BY Known
<1>2. CASE wk[w].remote # << >>
  <2>1. Taken(w) \in WorkerState /\ Last(wk[w].remote) \in Tasks
    BY <1>2, TakenTasks DEF TaskInv
  <2>2. r \in ThreadState
    BY <1>1, <2>1 DEF ThreadState, Holding
  <2>3. th' = [th EXCEPT ![w] = r] /\ wk' = [wk EXCEPT ![w] = Taken(w)]
    BY <1>2 DEF Recheck
  <2>4. QED BY <1>1, <1>2, <2>1, <2>2, <2>3, SetThread, SetWorker DEF Recheck
<1>3. CASE wk[w].remote = << >>
  BY <1>1, <1>3, Going DEF Recheck, Somewhere, Holding
<1>4. QED BY <1>2, <1>3

LEMMA GotRemoteEffect ==
    ASSUME Types, CallInv, NEW w \in Workers, GotRemote(w)
    PROVE  /\ At(w, "got_remote") /\ th[w].task \in Tasks /\ UNCHANGED <<plan, pool, job, owner>>
           /\ SetsWorker(w, [wk[w] EXCEPT !.state = "running", !.mutex = None])
           /\ Runs(w) /\ task' = [task EXCEPT ![th[w].task].ran = Up(@)]
           /\ task' \in [Tasks -> TaskState]
<1> DEFINE q == [wk[w] EXCEPT !.state = "running", !.mutex = None]
<1>1. w \in Threads /\ wk[w] \in WorkerState /\ th[w] \in ThreadState
  BY Known
<1>2. At(w, "got_remote") /\ th[w].task \in Tasks
  BY <1>1 DEF GotRemote, CallInv, Call, At, ThreadState
<1>3. q \in WorkerState
  BY <1>1 DEF WorkerState
<1>4. wk' = [wk EXCEPT ![w] = q]
  BY DEF GotRemote
<1>5. QED BY <1>2, <1>3, <1>4, SetWorker, Executing DEF GotRemote

LEMMA BlockEffect ==
    ASSUME Types, NEW w \in Workers, Block(w)
    PROVE  /\ At(w, "block") /\ UNCHANGED <<plan, pool, job, owner, task>> /\ Goes(w, "asleep")
           /\ SetsWorker(w, [wk[w] EXCEPT !.waiting = TRUE, !.mutex = None])
<1> DEFINE q == [wk[w] EXCEPT !.waiting = TRUE, !.mutex = None]
<1>1. w \in Threads /\ wk[w] \in WorkerState
  BY Known
<1>2. q \in WorkerState
  BY <1>1 DEF WorkerState
<1>3. wk' = [wk EXCEPT ![w] = q]
  BY DEF Block
<1>4. QED BY <1>1, <1>2, <1>3, SetWorker, Going DEF Block, Somewhere, Other

LEMMA WakeEffect ==
    ASSUME Types, NEW w \in Workers, Wake(w)
    PROVE  /\ At(w, "asleep") /\ ~wk[w].waiting /\ wk[w].mutex = None
           /\ UNCHANGED <<plan, pool, job, owner, task>>
           /\ Goes(w, "wait") /\ SetsWorker(w, [wk[w] EXCEPT !.mutex = w])
<1> DEFINE q == [wk[w] EXCEPT !.mutex = w]
<1>1. w \in Threads /\ wk[w] \in WorkerState
  BY Known
<1>2. q \in WorkerState
  BY <1>1 DEF WorkerState
<1>3. wk' = [wk EXCEPT ![w] = q]
  BY DEF Wake
<1>4. QED BY <1>1, <1>2, <1>3, SetWorker, Going DEF Wake, MutexFree, Somewhere, Holding

LEMMA WakeUpEffect ==
    ASSUME Types, NEW w \in Workers, WakeUp(w)
    PROVE  /\ At(w, "wake_up") /\ UNCHANGED <<plan, pool, job, owner, task>>
           /\ Searches(w, "rejoin") /\ SetsWorker(w, [wk[w] EXCEPT !.state = "running", !.mutex = None])
<1> DEFINE q == [wk[w] EXCEPT !.state = "running", !.mutex = None]
<1>1. wk[w] \in WorkerState
  BY Known
<1>2. q \in WorkerState
  BY <1>1 DEF WorkerState
<1>3. wk' = [wk EXCEPT ![w] = q]
  BY DEF WakeUp
<1>4. QED BY <1>2, <1>3, SetWorker, Searching DEF WakeUp

(* A waiting worker is woken by the destructor, or by nobody.              *)
LEMMA Woken ==
    ASSUME Types, NEW w \in Workers, wk' = [wk EXCEPT ![w].waiting = FALSE]
    PROVE  SetsWorker(w, [wk[w] EXCEPT !.waiting = FALSE])
<1> DEFINE q == [wk[w] EXCEPT !.waiting = FALSE]
<1>1. wk[w] \in WorkerState
  BY Known
<1>2. q \in WorkerState
  BY <1>1 DEF WorkerState
<1>3. wk' = [wk EXCEPT ![w] = q]
  OBVIOUS
<1>4. QED BY <1>2, <1>3, SetWorker

(* A worker that finds a task executes it. *)
LEMMA FindEffect ==
    ASSUME Types, NEW w \in Workers, Find(w)
    PROVE  LET k == Last(wk[w].local)
           IN  /\ At(w, "find") /\ wk[w].local # << >> /\ k \in Tasks /\ UNCHANGED <<plan, pool, job, owner>>
               /\ SetsWorker(w, [wk[w] EXCEPT !.local = Front(wk[w].local)])
               /\ Runs(w) /\ task' = [task EXCEPT ![k].ran = Up(@)]
               /\ task' \in [Tasks -> TaskState]
<1> DEFINE q == [wk[w] EXCEPT !.local = Front(wk[w].local)]
           k == Last(wk[w].local)
<1>1. wk[w] \in WorkerState /\ wk[w].local \in Seq(Tasks) /\ wk[w].local # << >>
  BY Known DEF WorkerState, Find
<1>2. Front(wk[w].local) \in Seq(Tasks) /\ k \in Tasks
  BY <1>1, FrontLast
<1>3. q \in WorkerState
  BY <1>1, <1>2 DEF WorkerState
<1>4. wk' = [wk EXCEPT ![w] = q]
  BY DEF Find
<1>5. Execute(w, k)
  BY DEF Find
<1>6. QED BY <1>1, <1>2, <1>3, <1>4, <1>5, SetWorker, Executing DEF Find

LEMMA FindRemoteEffect ==
    ASSUME Types, TaskInv, NEW w \in Workers, FindRemote(w)
    PROVE  LET k == Last(wk[w].remote)
           IN  /\ At(w, "find") /\ wk[w].remote # << >> /\ k \in Tasks /\ UNCHANGED <<plan, pool, job, owner>>
               /\ SetsWorker(w, Taken(w))
               /\ Runs(w) /\ task' = [task EXCEPT ![k].ran = Up(@)]
               /\ task' \in [Tasks -> TaskState]
<1> DEFINE k == Last(wk[w].remote)
<1>1. Taken(w) \in WorkerState /\ k \in Tasks
  BY TakenTasks DEF TaskInv, FindRemote
<1>2. wk' = [wk EXCEPT ![w] = Taken(w)] /\ Execute(w, k)
  BY DEF FindRemote
<1>3. QED BY <1>1, <1>2, SetWorker, Executing DEF FindRemote

LEMMA StealEffect ==
    ASSUME Types, TaskInv, NEW w \in Workers, Steal(w)
    PROVE  /\ At(w, "find") /\ UNCHANGED <<plan, pool, job, owner>>
           /\ \E v \in Workers \ {w} :
                 LET k == Head(wk[v].local)
                 IN  /\ wk[v].local # << >> /\ k \in Tasks
                     /\ SetsWorker(v, [wk[v] EXCEPT !.local = Tail(wk[v].local)])
                     /\ Runs(w) /\ task' = [task EXCEPT ![k].ran = Up(@)]
                     /\ task' \in [Tasks -> TaskState]
<1>1. PICK v \in Workers \ {w} :
         wk[v].local # << >> /\ Execute(w, Head(wk[v].local)) /\ wk' = [wk EXCEPT ![v].local = Tail(@)]
  BY DEF Steal
<1> DEFINE q == [wk[v] EXCEPT !.local = Tail(wk[v].local)]
           k == Head(wk[v].local)
<1>2. wk[v] \in WorkerState /\ wk[v].local \in Seq(Tasks) /\ IsInjective(wk[v].local)
  BY Known DEF WorkerState, TaskInv, Distinct
<1>3. Tail(wk[v].local) \in Seq(Tasks) /\ k \in Tasks
  BY <1>1, <1>2, TakenOff
<1>4. q \in WorkerState
  BY <1>2, <1>3 DEF WorkerState
<1>5. wk' = [wk EXCEPT ![v] = q]
  BY <1>1
<1>6. SetsWorker(v, q) /\ Runs(w) /\ task' = [task EXCEPT ![k].ran = Up(@)]
      /\ task' \in [Tasks -> TaskState]
  BY <1>1, <1>3, <1>4, <1>5, SetWorker, Executing
<1>7. QED BY <1>1, <1>3, <1>6 DEF Steal

(* The steps of bulk jobs. *)
SetsJob(j, r) ==
    /\ job' \in [Jobs -> JobState] /\ job'[j] = r
    /\ \A i \in Jobs : i # j => job'[i] = job[i]

LEMMA SetJob ==
    ASSUME Types, NEW j \in Jobs, NEW r \in JobState, job' = [job EXCEPT ![j] = r]
    PROVE  SetsJob(j, r)
BY DEF Types, SetsJob

LEMMA Employed ==
    ASSUME Types, CallInv, NEW t \in Threads, th[t].pc \in Working
    PROVE  th[t].job \in Jobs /\ job[th[t].job] \in JobState
BY DEF Types, CallInv, Call, Helping, ThreadState

LEMMA JoinEffect ==
    ASSUME Types, NEW w \in Workers, Join(w)
    PROVE  /\ th[w].pc \in {"join", "join_woken"} /\ UNCHANGED <<plan, wk, pool, owner, task>>
           /\ \/ \E j \in Joinable :
                    /\ j \in Jobs /\ SetsJob(j, [job[j] EXCEPT !.refs = job[j].refs + 1])
                    /\ Sets(w, [th[w] EXCEPT !.pc = "participate", !.job = j, !.home = "look"])
              \/ Joinable = {} /\ UNCHANGED job /\ (Searches(w, "sleep") \/ Goes(w, "sleep"))
<1>1. w \in Threads /\ th[w] \in ThreadState
  BY Known
<1>2. CASE \E i \in DOMAIN pool.list :
              /\ pool.list[i] \in Joinable
              /\ job' = [job EXCEPT ![pool.list[i]].refs = @ + 1]
              /\ th' = [th EXCEPT ![w].pc = "participate", ![w].job = pool.list[i], ![w].home = "look"]
  <2>1. PICK j \in Joinable :
           /\ job' = [job EXCEPT ![j].refs = @ + 1]
           /\ th' = [th EXCEPT ![w].pc = "participate", ![w].job = j, ![w].home = "look"]
    BY <1>2
  <2> DEFINE q == [job[j] EXCEPT !.refs = job[j].refs + 1]
             r == [th[w] EXCEPT !.pc = "participate", !.job = j, !.home = "look"]
  <2>2. j \in Jobs
    BY RangeOfSeq DEF Types, PoolState, Joinable, Range
  <2>3. job[j] \in JobState
    BY <2>2 DEF Types
  <2>4. job[j].refs + 1 \in Int
    BY <2>3 DEF JobState
  <2>5. q \in JobState
    BY <2>3, <2>4 DEF JobState
  <2>6. r \in ThreadState
    BY <1>1, <2>2 DEF ThreadState, Working
  <2>7. job' = [job EXCEPT ![j] = q] /\ th' = [th EXCEPT ![w] = r]
    BY <2>1
  <2>8. SetsJob(j, q) /\ Sets(w, r)
    BY <1>1, <2>2, <2>5, <2>6, <2>7, SetThread, SetJob
  <2>9. QED BY <2>2, <2>8 DEF Join
<1>3. CASE /\ Joinable = {} /\ UNCHANGED job
           /\ IF At(w, "join") THEN Search(w, "sleep") ELSE Goto(w, "sleep")
  BY <1>1, <1>3, Searching, Going DEF Somewhere, Other, Join
<1>4. QED BY <1>2, <1>3 DEF Join

LEMMA RunBulkEffect ==
    ASSUME Types, NEW t \in Threads, NEW j \in Jobs, RunBulk(t, j)
    PROVE  /\ At(t, "task") \/ (At(t, "user") /\ owner.pc = "idle")
           /\ job[j].life = "new" /\ UNCHANGED <<plan, wk, owner, task>>
           /\ \/ /\ SetsJob(j, [job[j] EXCEPT !.life = "done", !.ran = [i \in Indices |-> 1]])
                 /\ UNCHANGED <<pool, th>>
              \/ /\ N # 1 /\ ChunkCount # 1
                 /\ SetsJob(j, [job[j] EXCEPT !.life = "live", !.refs = 2, !.by = t])
                 /\ pool' = [pool EXCEPT !.list = Append(pool.list, j)] /\ Append(pool.list, j) \in Seq(Jobs)
                 /\ Sets(t, [th[t] EXCEPT !.pc = "participate", !.job = j, !.home = th[t].pc])
<1> DEFINE p == [job[j] EXCEPT !.life = "done", !.ran = [i \in Indices |-> 1]]
           q == [job[j] EXCEPT !.life = "live", !.refs = 2, !.by = t]
           r == [th[t] EXCEPT !.pc = "participate", !.job = j, !.home = th[t].pc]
<1>1. th[t] \in ThreadState /\ job[j] \in JobState /\ pool.list \in Seq(Jobs)
  BY Known DEF Types, PoolState
<1>2. th[t].pc \in {"user", "look", "task"}
  BY DEF RunBulk, At
<1>3. r \in ThreadState
  BY <1>1, <1>2 DEF ThreadState, Working
<1>4. [i \in Indices |-> 1] \in [Indices -> 0 .. 2]
  OBVIOUS
<1>5. p \in JobState
  BY <1>1, <1>4 DEF JobState
<1>6. q \in JobState
  <2>1. \A n \in Int : [job[j] EXCEPT !.life = "live", !.refs = n, !.by = t] \in JobState
    BY <1>1 DEF JobState
  <2>2. 2 \in Int
    OBVIOUS
  <2>3. QED BY <2>1, <2>2, Zenon
<1>7. Append(pool.list, j) \in Seq(Jobs)
  BY <1>1
<1>8. CASE N = 1 \/ ChunkCount = 1
  <2>1. job' = [job EXCEPT ![j] = p]
    BY <1>8 DEF RunBulk
  <2>2. QED BY <1>5, <1>8, <2>1, SetJob DEF RunBulk
<1>9. CASE ~(N = 1 \/ ChunkCount = 1)
  <2>1. job' = [job EXCEPT ![j] = q] /\ th' = [th EXCEPT ![t] = r]
    BY <1>9 DEF RunBulk
  <2>2. QED BY <1>3, <1>6, <1>7, <1>9, <2>1, SetJob, SetThread DEF RunBulk
<1>10. QED BY <1>8, <1>9

LEMMA ParticipateEffect ==
    ASSUME Types, CallInv, NEW t \in Threads, Participate(t)
    PROVE  /\ At(t, "participate") /\ UNCHANGED <<plan, wk, pool, job, owner, task>>
           /\ \/ Sets(t, [th[t] EXCEPT !.pc = "wake", !.back = "claim"])
              \/ /\ ~(job[th[t].job].next + 1 < ChunkCount)
                 /\ Sets(t, [th[t] EXCEPT !.pc = "claim", !.back = "user"])
<1> DEFINE p == [th[t] EXCEPT !.pc = "wake", !.back = "claim"]
           q == [th[t] EXCEPT !.pc = "claim", !.back = "user"]
<1>1. th[t] \in ThreadState
  BY Known
<1>2. p \in ThreadState /\ q \in ThreadState
  BY <1>1 DEF ThreadState, Calling, Working
<1>3. th' = [th EXCEPT ![t] = IF job[th[t].job].next + 1 < ChunkCount THEN p ELSE q]
  BY DEF Participate
<1>4. QED BY <1>2, <1>3, SetThread DEF Participate

LEMMA ClaimEffect ==
    ASSUME Types, CallInv, NEW t \in Threads, Claim(t)
    PROVE  LET j == th[t].job
               chunk == job[j].next
           IN  /\ At(t, "claim") /\ UNCHANGED <<plan, wk, pool, owner, task>> /\ j \in Jobs /\ chunk \in Nat
               /\ SetsJob(j, [job[j] EXCEPT !.next = chunk + 1])
               /\ \E where \in {"chunk", "unlist", "drop"} :
                     /\ where = (CASE chunk < ChunkCount -> "chunk" [] chunk = ChunkCount -> "unlist" [] OTHER -> "drop")
                     /\ Sets(t, [th[t] EXCEPT !.chunk = chunk, !.pc = where])
<1> DEFINE j == th[t].job
           chunk == job[j].next
           where == CASE chunk < ChunkCount -> "chunk" [] chunk = ChunkCount -> "unlist" [] OTHER -> "drop"
           q == [job[j] EXCEPT !.next = chunk + 1]
           r == [th[t] EXCEPT !.chunk = chunk, !.pc = where]
<1>1. th[t] \in ThreadState /\ At(t, "claim")
  BY Known DEF Claim
<1>2. j \in Jobs /\ job[j] \in JobState
  BY <1>1, Employed DEF At, Working
<1>3. chunk \in Nat /\ chunk + 1 \in Nat
  BY <1>2 DEF JobState
<1>4. where \in {"chunk", "unlist", "drop"}
  OBVIOUS
<1>5. q \in JobState
  BY <1>2, <1>3 DEF JobState
<1>6. job' = [job EXCEPT ![j] = q] /\ th' = [th EXCEPT ![t] = r]
  <2>1. job' = [job EXCEPT ![j].next = @ + 1]
    BY DEF Claim
  <2>2. th' = [th EXCEPT ![t].chunk = chunk, ![t].pc = where]
    BY DEF Claim
  <2>3. job' = [job EXCEPT ![j] = q]
    BY <2>1
  <2> HIDE DEF where, chunk
  <2>4. th' = [th EXCEPT ![t] = r]
    BY <2>2
  <2>5. QED BY <2>3, <2>4
<1> HIDE DEF where
<1>7. r \in ThreadState
  BY <1>1, <1>3, <1>4 DEF ThreadState, Working
<1>8. SetsJob(j, q) /\ Sets(t, r)
  BY <1>2, <1>5, <1>6, <1>7, SetJob, SetThread
<1>9. QED BY <1>1, <1>2, <1>3, <1>4, <1>8 DEF Claim, where

LEMMA RunChunkEffect ==
    ASSUME Types, CallInv, NEW t \in Threads, RunChunk(t)
    PROVE  LET j == th[t].job
           IN  /\ At(t, "chunk") /\ UNCHANGED <<plan, wk, pool, owner, task>> /\ j \in Jobs /\ Goes(t, "claim")
               /\ SetsJob(j, [job[j] EXCEPT !.ran =
                     [i \in Indices |-> IF i \in ChunkOf(th[t].chunk) THEN Up(job[j].ran[i]) ELSE job[j].ran[i]]])
<1> DEFINE j == th[t].job
           ran == [i \in Indices |-> IF i \in ChunkOf(th[t].chunk) THEN Up(job[j].ran[i]) ELSE job[j].ran[i]]
           q == [job[j] EXCEPT !.ran = ran]
<1>1. At(t, "chunk") /\ j \in Jobs /\ job[j] \in JobState
  BY Employed DEF RunChunk, At, Working
<1>2. ran \in [Indices -> 0 .. 2]
  BY <1>1 DEF JobState, Up
<1> HIDE DEF ran
<1>3. q \in JobState
  BY <1>1, <1>2 DEF JobState
<1>4. job' = [job EXCEPT ![j] = q]
  BY <1>1 DEF RunChunk, ran
<1>5. SetsJob(j, q)
  BY <1>1, <1>3, <1>4, SetJob
<1>6. QED BY <1>1, <1>5, Going DEF RunChunk, Somewhere, Working, ran

LEMMA DropEffect ==
    ASSUME Types, CallInv, NEW t \in Threads, Drop(t)
    PROVE  LET j == th[t].job
           IN  /\ At(t, "drop") /\ UNCHANGED <<plan, wk, pool, owner, task>> /\ j \in Jobs /\ job[j] \in JobState
               /\ SetsJob(j, [job[j] EXCEPT !.refs = job[j].refs - Dropped(t),
                                            !.life = IF job[j].refs = Dropped(t) THEN "done" ELSE job[j].life])
               /\ Sets(t, [th[t] EXCEPT !.pc = th[t].home, !.job = None, !.chunk = 0, !.home = "user"])
<1> DEFINE j == th[t].job
           life == IF job[j].refs = Dropped(t) THEN "done" ELSE job[j].life
           refs == job[j].refs - Dropped(t)
           q == [job[j] EXCEPT !.refs = refs, !.life = life]
           r == [th[t] EXCEPT !.pc = th[t].home, !.job = None, !.chunk = 0, !.home = "user"]
<1>1. At(t, "drop") /\ j \in Jobs /\ job[j] \in JobState /\ th[t] \in ThreadState
  BY Employed, Known DEF Drop, At, Working
<1>2. life \in {"new", "live", "done"} /\ refs \in Int
  BY <1>1 DEF JobState, Dropped
<1>3. job' = [job EXCEPT ![j] = q]
  BY DEF Drop
<1> HIDE DEF life, refs
<1>4. q \in JobState
  BY <1>1, <1>2 DEF JobState
<1>5. r \in ThreadState
  BY <1>1 DEF ThreadState, Other
<1>6. th' = [th EXCEPT ![t] = r]
  BY DEF Drop
<1>7. SetsJob(j, q) /\ Sets(t, r)
  BY <1>1, <1>3, <1>4, <1>5, <1>6, SetJob, SetThread
<1>8. QED BY <1>1, <1>7 DEF Drop, life, refs

LEMMA UnlistEffect ==
    ASSUME Types, CallInv, ListInv, NEW t \in Threads, Unlist(t)
    PROVE  LET j == th[t].job
           IN  /\ At(t, "unlist") /\ UNCHANGED <<plan, wk, job, owner, task>> /\ j \in Jobs /\ Goes(t, "drop")
               /\ pool' \in PoolState
               /\ pool'.sleepers = pool.sleepers /\ (pool'.stopping <=> pool.stopping)
               /\ IsInjective(pool'.list) /\ Range(pool'.list) = Range(pool.list) \ {j}
<1> DEFINE j == th[t].job
           list == RemoveAt(pool.list, CHOOSE i \in DOMAIN pool.list : pool.list[i] = j)
<1>1. At(t, "unlist") /\ j \in Jobs
  BY Employed DEF Unlist, At, Working
<1>2. j \in Range(pool.list) /\ IsInjective(pool.list) /\ pool.list \in Seq(Jobs)
  BY <1>1, ThreadPoolAssumption DEF ListInv, Types, PoolState
<1>3. list \in Seq(Jobs) /\ Range(list) = Range(pool.list) \ {j} /\ IsInjective(list)
  BY <1>2, Removed
<1>4. pool' = [pool EXCEPT !.list = list]
  BY DEF Unlist
<1> HIDE DEF list
<1>5. pool' \in PoolState
  BY <1>3, <1>4 DEF Types, PoolState
<1>6. pool'.sleepers = pool.sleepers /\ (pool'.stopping <=> pool.stopping) /\ pool'.list = list
  BY <1>4 DEF Types, PoolState
<1>7. QED BY <1>1, <1>3, <1>5, <1>6, Going DEF Unlist, Somewhere, Working

(* Steps of a worker that change no worker, no job and no task.            *)
Moving(w) ==
    Look(w) \/ FindNothing(w) \/ Count(w) \/ CheckBulk(w) \/ Wait(w) \/ Uncount(w) \/ Rejoin(w)

LEMMA Moves ==
    ASSUME Types, NEW w \in Workers
    PROVE  /\ Look(w) => /\ th[w].pc \in {"look", "task"} /\ UNCHANGED pool
                         /\ Searches(w, "sleep") \/ Goes(w, "join")
           /\ FindNothing(w) => /\ At(w, "find") /\ wk[w].local = << >> /\ wk[w].remote = << >> /\ UNCHANGED pool
                                /\ Goes(w, th[w].search)
           /\ Count(w) => At(w, "count") /\ Goes(w, "check_bulk") /\ pool' = [pool EXCEPT !.sleepers = @ + 1]
           /\ CheckBulk(w) => At(w, "check_bulk") /\ UNCHANGED pool /\ (Goes(w, "wait") \/ Goes(w, "uncount"))
           /\ Wait(w) => /\ At(w, "wait") /\ UNCHANGED pool
                         /\ (wk[w].state = "sleeping" /\ Goes(w, "block")) \/ Goes(w, "uncount")
           /\ Uncount(w) => At(w, "uncount") /\ Goes(w, "wake_up") /\ pool' = [pool EXCEPT !.sleepers = @ - 1]
           /\ Rejoin(w) => At(w, "rejoin") /\ UNCHANGED pool /\ (Goes(w, "sleep") \/ Goes(w, "join_woken"))
           /\ Moving(w) => UNCHANGED <<plan, wk, job, owner, task>>
<1>1. w \in Threads /\ th[w].search \in {"sleep", "rejoin", "exit"}
  BY Known DEF ThreadState
<1>2. \A where \in {"join", "sleep", "rejoin", "exit", "check_bulk", "wait", "uncount", "block", "wake_up", "join_woken"} :
         Goto(w, where) => Goes(w, where)
  BY <1>1, Going DEF Somewhere, Other, Holding
<1>3. Search(w, "sleep") => Searches(w, "sleep")
  BY Searching
<1>4. QED
  BY <1>1, <1>2, <1>3 DEF Look, FindNothing, Count, CheckBulk, Wait, KeepsWaiting, Uncount, Rejoin, Moving

LEMMA NotifyLockEffect ==
    ASSUME Types, CallInv, NEW t \in Threads, NotifyLock(t)
    PROVE  /\ At(t, "notify_lock") /\ th[t].target \in Workers /\ wk[th[t].target].mutex = None
           /\ UNCHANGED <<plan, wk, pool, job, owner, task>> /\ Goes(t, "notify_one")
BY Going DEF NotifyLock, CallInv, Call, At, Notifying, MutexFree, Somewhere, Calling

-----------------------------------------------------------------------------
(* The initial state satisfies the invariant. *)
LEMMA InitInv == Init => IInv
<1> SUFFICES ASSUME Init PROVE IInv
  OBVIOUS
<1> USE DEF Init
<1>1. /\ \A t \in Threads : th[t] = [pc |-> IF t \in Workers THEN "look" ELSE "user", task |-> None,
                                     job |-> None, chunk |-> 0, target |-> 1, scanning |-> FALSE,
                                     back |-> "user", home |-> "user", search |-> "sleep"]
      /\ \A w \in Workers : wk[w] = [state |-> "running", local |-> << >>, remote |-> << >>,
                                     mutex |-> None, waiting |-> FALSE]
      /\ \A k \in Tasks : task[k] = [given |-> FALSE, ran |-> 0]
      /\ \A t \in Threads : t \in Workers \/ t \in Clients
      /\ \A t \in Clients : t \in Threads /\ t \notin Workers
      /\ \A w \in Workers : w \in Threads
  BY ThreadPoolAssumption DEF Threads
<1>2. Types
  <2>1. \A p \in {"look", "user"} :
           [pc |-> p, task |-> None, job |-> None, chunk |-> 0, target |-> 1, scanning |-> FALSE,
            back |-> "user", home |-> "user", search |-> "sleep"] \in ThreadState
    BY DEF ThreadState, Other
  <2>2. th \in [Threads -> ThreadState]
    BY <2>1
  <2>3. wk \in [Workers -> WorkerState]
    BY DEF WorkerState
  <2>4. job \in [Jobs -> JobState]
    <3>1. [life |-> "new", next |-> 0, refs |-> 0, by |-> None, ran |-> [i \in Indices |-> 0]] \in JobState
      BY DEF JobState
    <3>2. QED BY <3>1
  <2>5. 1 \in Workers
    BY ThreadPoolAssumption DEF Workers
  <2>6. pool \in PoolState
    <3>1. << >> \in Seq(Jobs)
      OBVIOUS
    <3>2. QED BY <3>1 DEF PoolState
  <2>7. task \in [Tasks -> TaskState]
    BY DEF TaskState
  <2>8. owner \in [pc : {"idle", "stop", "stop_notify", "join", "destroyed"}, at : Workers]
    BY <2>5
  <2>9. plan \in Plans
    OBVIOUS
  <2>10. QED BY <2>2, <2>3, <2>4, <2>6, <2>7, <2>8, <2>9 DEF Types
<1>3. CallInv
  BY <1>1, ThreadPoolAssumption DEF CallInv, Call, Helping, At, Calling, Notifying, Working
<1>4. MutexInv /\ SleepInv
  BY <1>1 DEF MutexInv, Mutexed, SleepInv, Slept, Holding, Asleep, At
<1>5. SleepersInv
  <2>1. Sleepers = {}
    BY <1>1 DEF Sleepers, Counted
  <2>2. QED BY <2>1, FS_EmptySet DEF SleepersInv
<1>6. TaskInv
  <2>1. \A w \in Workers : Stored(w) = {} /\ Distinct(w) /\ Len(wk[w].local) = 0
    BY <1>1 DEF Stored, Distinct, Range, IsInjective
  <2>2. \A k \in Tasks : task[k].given = FALSE /\ task[k].ran = 0 /\ task[k].ran # 1 /\ task[k].ran # 2 /\ \A t \in Threads : th[t].task # k
    BY <1>1, ThreadPoolAssumption
  <2>3. Capacity \in Nat
    BY ThreadPoolAssumption
  <2>4. \A w \in Workers : Distinct(w) /\ Len(wk[w].local) <= Capacity
    BY <2>1, <2>3
  <2>5. \A k \in Tasks, w \in Workers : k \notin Stored(w)
    BY <2>1
  <2>6. QED BY <2>2, <2>4, <2>5, Zenon DEF TaskInv
<1>7. ExitInv
  BY <1>1 DEF ExitInv, At
<1>8. ListInv
  BY <1>1 DEF ListInv, IsInjective, Range
<1>9. QED BY <1>2, <1>3, <1>4, <1>5, <1>6, <1>7, <1>8 DEF IInv

(* Every step keeps the types. *)
LEMMA PoolTypes ==
    ASSUME Types
    PROVE  /\ [pool EXCEPT !.sleepers = @ + 1] \in PoolState /\ [pool EXCEPT !.sleepers = @ - 1] \in PoolState
           /\ [pool EXCEPT !.stopping = TRUE] \in PoolState /\ [pool EXCEPT !.spurious = @ + 1] \in PoolState
           /\ \A list \in Seq(Jobs) : [pool EXCEPT !.list = list] \in PoolState
<1>1. pool \in PoolState
  BY DEF Types
<1>2. pool.sleepers \in Int /\ pool.spurious \in Nat
  BY <1>1 DEF PoolState
<1>3. pool.sleepers + 1 \in Int /\ pool.sleepers - 1 \in Int /\ pool.spurious + 1 \in Nat
  BY <1>2
<1>4. QED BY <1>1, <1>3 DEF PoolState

LEMMA TypesStep ==
    ASSUME IInv, [Next]_vars
    PROVE  Types'
<1>0. Types /\ CallInv /\ TaskInv /\ ListInv
  BY DEF IInv
<1> USE DEF Sets, SetsWorker, SetsJob, Goes, Returns, Searches, Runs
<1>1. ASSUME NEW t \in Threads, WakeIdle(t) \/ Scan(t) \/ Notify(t) \/ NotifyLock(t) \/ NotifyOne(t) PROVE Types'
  BY <1>0, <1>1, WakeIdleEffect, ScanEffect, NotifyEffect, NotifyLockEffect, NotifyOneEffect DEF Types
<1>2. ASSUME NEW t \in Threads, Participate(t) \/ Claim(t) \/ RunChunk(t) PROVE Types'
  BY <1>0, <1>2, ParticipateEffect, ClaimEffect, RunChunkEffect DEF Types
<1>3. ASSUME NEW t \in Threads, Unlist(t) PROVE Types'
  BY <1>0, <1>3, UnlistEffect DEF Types
<1>4. ASSUME NEW t \in Threads, Drop(t) PROVE Types'
  <2>1. UNCHANGED <<plan, wk, pool, owner, task>> /\ th' \in [Threads -> ThreadState] /\ job' \in [Jobs -> JobState]
    BY <1>0, <1>4, DropEffect
  <2>2. QED BY <1>0, <2>1 DEF Types
<1>5. ASSUME NEW t \in Threads, NEW j \in Jobs, RunBulk(t, j) PROVE Types'
  <2>1. UNCHANGED <<plan, wk, owner, task>> /\ th' \in [Threads -> ThreadState] /\ job' \in [Jobs -> JobState]
    BY <1>0, <1>5, RunBulkEffect DEF Types
  <2>2. pool' = pool \/ \E list \in Seq(Jobs) : pool' = [pool EXCEPT !.list = list]
    BY <1>0, <1>5, RunBulkEffect
  <2>3. pool' \in PoolState
    BY <1>0, <2>2, PoolTypes DEF Types
  <2>4. QED BY <1>0, <2>1, <2>3 DEF Types
<1>6. ASSUME NEW w \in Workers, Find(w) \/ FindRemote(w) \/ Steal(w) \/ GotRemote(w) PROVE Types'
  BY <1>0, <1>6, FindEffect, FindRemoteEffect, StealEffect, GotRemoteEffect DEF Types
<1>7. ASSUME NEW w \in Workers, SleepLock(w) \/ FallAsleep(w) \/ Recheck(w) \/ Block(w) \/ Wake(w) \/ WakeUp(w)
      PROVE Types'
  BY <1>0, <1>7, SleepLockEffect, FallAsleepEffect, RecheckEffect, BlockEffect, WakeEffect, WakeUpEffect DEF Types
<1>8. ASSUME NEW w \in Workers, Moving(w) PROVE Types'
  <2>1. UNCHANGED <<plan, wk, job, owner, task>>
    BY <1>0, <1>8, Moves
  <2>2. th' \in [Threads -> ThreadState]
    BY <1>0, <1>8, Moves DEF Moving
  <2>3. pool' \in PoolState
    BY <1>0, <1>8, Moves, PoolTypes DEF Moving, Types
  <2>4. QED BY <1>0, <2>1, <2>2, <2>3 DEF Types
<1>9. ASSUME NEW w \in Workers, Join(w) PROVE Types'
  BY <1>0, <1>9, JoinEffect DEF Types
<1>10. ASSUME NEW w \in Workers, SpuriousWakeup(w) PROVE Types'
  <2>1. wk' \in [Workers -> WorkerState]
    BY <1>0, <1>10, Woken DEF SpuriousWakeup
  <2>2. pool' \in PoolState
    BY <1>0, <1>10, PoolTypes DEF SpuriousWakeup
  <2>3. QED BY <1>0, <1>10, <2>1, <2>2 DEF SpuriousWakeup, Types
<1>11. ASSUME NEW k \in Tasks, task' = [task EXCEPT ![k].given = TRUE] PROVE task' \in [Tasks -> TaskState]
  <2>1. [task[k] EXCEPT !.given = TRUE] \in TaskState
    BY <1>0 DEF Types, TaskState
  <2>2. QED BY <1>0, <1>11, <2>1 DEF Types
<1>12. ASSUME NEW w \in Workers, NEW k \in Tasks, EnqueueLocal(w, k) PROVE Types'
  <2>1. UNCHANGED <<plan, pool, job, owner>> /\ th' \in [Threads -> ThreadState] /\ wk' \in [Workers -> WorkerState]
        /\ task' = [task EXCEPT ![k].given = TRUE]
    BY <1>0, <1>12, EnqueueLocalEffect
  <2>2. QED BY <1>0, <1>11, <2>1 DEF Types
<1>13. ASSUME NEW c \in Clients, NEW k \in Tasks, EnqueueRemote(c, k) PROVE Types'
  <2>1. UNCHANGED <<plan, pool, job, owner>> /\ th' \in [Threads -> ThreadState] /\ wk' \in [Workers -> WorkerState]
        /\ task' = [task EXCEPT ![k].given = TRUE]
    BY <1>0, <1>13, EnqueueRemoteEffect
  <2>2. QED BY <1>0, <1>11, <2>1 DEF Types
<1>14. ASSUME BeginDestroy \/ StopLock \/ StopNotify \/ JoinThreads PROVE Types'
  <2>1. owner.at \in Workers /\ 1 \in Workers
    BY <1>0, ThreadPoolAssumption DEF Types, Workers
  <2>2. owner.at < N => owner.at + 1 \in Workers
    BY <2>1, ThreadPoolAssumption DEF Workers
  <2>3. owner' \in [pc : {"idle", "stop", "stop_notify", "join", "destroyed"}, at : Workers]
    BY <1>0, <1>14, <2>1, <2>2 DEF BeginDestroy, StopLock, StopNotify, JoinThreads, Types
  <2>4. wk' \in [Workers -> WorkerState]
    BY <1>0, <1>14, <2>1, Woken DEF BeginDestroy, StopLock, StopNotify, JoinThreads, Types
  <2>5. pool' \in PoolState
    BY <1>0, <1>14, PoolTypes DEF BeginDestroy, StopLock, StopNotify, JoinThreads, Types
  <2>6. UNCHANGED <<plan, job, th, task>>
    BY <1>14 DEF BeginDestroy, StopLock, StopNotify, JoinThreads
  <2>7. QED BY <1>0, <2>3, <2>4, <2>5, <2>6 DEF Types
<1>15. ASSUME UNCHANGED vars PROVE Types'
  BY <1>0, <1>15 DEF Types, vars
<1>16. QED
  BY <1>1, <1>2, <1>3, <1>4, <1>5, <1>6, <1>7, <1>8, <1>9, <1>10, <1>12, <1>13, <1>14, <1>15
  DEF Next, Step, WorkerStep, DestructorStep, Done, Moving

-----------------------------------------------------------------------------
(* The calls. *)
LEMMA CallFrame ==
    ASSUME Types, CallInv, NEW t \in Threads, NEW r, Sets(t, r), Call(t, r)
    PROVE  CallInv'
BY DEF CallInv, Call, Helping, Sets

LEMMA CallReturn ==
    ASSUME Types, CallInv, NEW t \in Threads, th[t].pc \in Calling, Returns(t)
    PROVE  CallInv'
<1> DEFINE r == [th[t] EXCEPT !.pc = th[t].back, !.target = 1, !.scanning = FALSE, !.back = "user"]
<1>1. th[t] \in ThreadState /\ Call(t, th[t]) /\ (t \in Workers <=> t \notin Clients)
  BY Known DEF CallInv
<1>2. r.pc = th[t].back /\ r.target = 1 /\ ~r.scanning /\ r.job = th[t].job /\ r.home = th[t].home /\ r.task = th[t].task
  BY <1>1 DEF ThreadState
<1> HIDE DEF r
<1>3. Call(t, r)
  BY <1>1, <1>2 DEF Call, Helping, Calling, Working, Notifying
<1>4. QED BY <1>3, CallFrame DEF Returns, r

LEMMA CallStep ==
    ASSUME IInv, [Next]_vars
    PROVE  CallInv'
<1>0. Types /\ CallInv /\ TaskInv /\ ListInv
  BY DEF IInv
<1>1. \A t \in Threads : th[t] \in ThreadState /\ Call(t, th[t]) /\ (t \in Workers <=> t \notin Clients)
  BY <1>0, Known DEF CallInv
<1>2. \A t \in Threads, where \in Somewhere :
         /\ Goes(t, where)
         /\ \/ th[t].pc \in Holding \cup Other /\ where \in Holding \cup Other /\ (where = "user" <=> At(t, "user"))
               /\ where # "got_remote" /\ ~At(t, "got_remote")
            \/ th[t].pc \in Working /\ where \in Working
         => CallInv'
  <2> SUFFICES ASSUME NEW t \in Threads, NEW where \in Somewhere, Goes(t, where),
                      \/ th[t].pc \in Holding \cup Other /\ where \in Holding \cup Other
                         /\ (where = "user" <=> At(t, "user"))
                         /\ where # "got_remote" /\ ~At(t, "got_remote")
                      \/ th[t].pc \in Working /\ where \in Working
               PROVE  CallInv'
    BY Zenon
  <2> DEFINE r == [th[t] EXCEPT !.pc = where]
  <2>1. r.pc = where /\ r.back = th[t].back /\ r.target = th[t].target /\ (r.scanning <=> th[t].scanning)
        /\ r.job = th[t].job /\ r.home = th[t].home /\ r.task = th[t].task
    BY <1>1 DEF ThreadState
  <2> HIDE DEF r
  <2>2. Call(t, r)
    BY <1>1, <2>1 DEF Call, Helping, Calling, Working, Notifying, Holding, Other, At
  <2>3. QED BY <1>0, <2>2, CallFrame DEF Goes, r
<1>3. \A w \in Workers, next \in {"sleep", "rejoin", "exit"} :
         Searches(w, next) /\ th[w].pc \in Holding \cup Other /\ ~At(w, "got_remote") => CallInv'
  <2> SUFFICES ASSUME NEW w \in Workers, NEW next \in {"sleep", "rejoin", "exit"}, Searches(w, next),
                      th[w].pc \in Holding \cup Other, ~At(w, "got_remote")
               PROVE  CallInv'
    BY Zenon
  <2> DEFINE r == [th[w] EXCEPT !.pc = "find", !.search = next]
  <2>0. w \in Threads
    BY <1>0, Known
  <2>1. r.pc = "find" /\ r.back = th[w].back /\ r.target = th[w].target /\ (r.scanning <=> th[w].scanning)
        /\ r.job = th[w].job /\ r.home = th[w].home /\ r.task = th[w].task
    BY <1>1, <2>0 DEF ThreadState
  <2> HIDE DEF r
  <2>2. Call(w, r)
    BY <1>1, <2>0, <2>1 DEF Call, Helping, Calling, Working, Notifying, Holding, Other, At
  <2>3. QED BY <1>0, <2>0, <2>2, CallFrame DEF Searches, r
<1>4. \A w \in Workers : Runs(w) /\ th[w].pc \in Holding \cup Other => CallInv'
  <2> SUFFICES ASSUME NEW w \in Workers, Runs(w), th[w].pc \in Holding \cup Other
               PROVE  CallInv'
    BY Zenon
  <2> DEFINE r == [th[w] EXCEPT !.pc = "task", !.task = None, !.search = "sleep"]
  <2>0. w \in Threads
    BY <1>0, Known
  <2>1. r.pc = "task" /\ r.back = th[w].back /\ r.target = th[w].target /\ (r.scanning <=> th[w].scanning)
        /\ r.job = th[w].job /\ r.home = th[w].home /\ r.task = None
    BY <1>1, <2>0 DEF ThreadState
  <2> HIDE DEF r
  <2>2. Call(w, r)
    BY <1>1, <2>0, <2>1 DEF Call, Helping, Calling, Working, Notifying, Holding, Other, At
  <2>3. QED BY <1>0, <2>0, <2>2, CallFrame DEF Runs, r
<1>5. UNCHANGED th => CallInv'
  BY <1>0 DEF CallInv
<1>6. ASSUME NEW t \in Threads, WakeIdle(t) PROVE CallInv'
  <2> DEFINE r == [th[t] EXCEPT !.pc = "scan", !.scanning = TRUE]
  <2>1. At(t, "wake") /\ (Returns(t) \/ Sets(t, r))
    BY <1>0, <1>6, WakeIdleEffect
  <2>2. r.pc = "scan" /\ r.back = th[t].back /\ r.target = th[t].target /\ r.scanning
        /\ r.job = th[t].job /\ r.home = th[t].home /\ r.task = th[t].task
    BY <1>1 DEF ThreadState
  <2> HIDE DEF r
  <2>3. Call(t, r)
    BY <1>1, <2>1, <2>2 DEF Call, Helping, Calling, Working, Notifying, At
  <2>4. th[t].pc \in Calling
    BY <2>1 DEF At, Calling
  <2>5. QED BY <1>0, <2>1, <2>3, <2>4, CallFrame, CallReturn
<1>7. ASSUME NEW t \in Threads, Scan(t) PROVE CallInv'
  <2> DEFINE i == th[t].target
             r == [th[t] EXCEPT !.target = i + 1]
             q == [th[t] EXCEPT !.pc = "notify"]
  <2>1. At(t, "scan") /\ (Returns(t) \/ (i \in Workers /\ i # t /\ Sets(t, q)) \/ Sets(t, r))
    BY <1>0, <1>7, ScanEffect DEF Goes
  <2>2. r.pc = "scan" /\ r.back = th[t].back /\ (r.scanning <=> th[t].scanning)
        /\ r.job = th[t].job /\ r.home = th[t].home /\ r.task = th[t].task
    BY <1>1, <2>1 DEF ThreadState, At
  <2>3. q.pc = "notify" /\ q.back = th[t].back /\ q.target = i /\ (q.scanning <=> th[t].scanning)
        /\ q.job = th[t].job /\ q.home = th[t].home /\ q.task = th[t].task
    BY <1>1 DEF ThreadState
  <2> HIDE DEF r, q
  <2>4. Call(t, r) /\ (i \in Workers /\ i # t => Call(t, q))
    BY <1>1, <2>1, <2>2, <2>3 DEF Call, Helping, Calling, Working, Notifying, At
  <2>5. th[t].pc \in Calling
    BY <2>1 DEF At, Calling
  <2>6. QED BY <1>0, <2>1, <2>4, <2>5, CallFrame, CallReturn
<1>8. ASSUME NEW t \in Threads, Notify(t) \/ NotifyLock(t) \/ NotifyOne(t) PROVE CallInv'
  <2> DEFINE i == th[t].target
             r == [th[t] EXCEPT !.pc = "scan", !.target = i + 1]
             q(where) == [th[t] EXCEPT !.pc = where]
  <2>1. th[t].pc \in Notifying
        /\ (Returns(t) \/ (th[t].scanning /\ Sets(t, r)) \/ \E where \in Notifying : Sets(t, q(where)))
    BY <1>0, <1>8, NotifyEffect, NotifyLockEffect, NotifyOneEffect DEF Goes, Notifying, At
  <2>2. r.pc = "scan" /\ r.back = th[t].back /\ (r.scanning <=> th[t].scanning)
        /\ r.job = th[t].job /\ r.home = th[t].home /\ r.task = th[t].task
    BY <1>1 DEF ThreadState
  <2>3. \A where \in Notifying :
           q(where).pc = where /\ q(where).back = th[t].back /\ q(where).target = i
           /\ (q(where).scanning <=> th[t].scanning) /\ q(where).job = th[t].job
           /\ q(where).home = th[t].home /\ q(where).task = th[t].task
    BY <1>1 DEF ThreadState
  <2> HIDE DEF r, q
  <2>4. th[t].scanning => Call(t, r)
    BY <1>1, <2>1, <2>2 DEF Call, Helping, Calling, Working, Notifying
  <2>5. \A where \in Notifying : Call(t, q(where))
    BY <1>1, <2>1, <2>3 DEF Call, Helping, Calling, Working, Notifying
  <2>6. th[t].pc \in Calling
    BY <2>1 DEF Calling
  <2>7. QED BY <1>0, <2>1, <2>4, <2>5, <2>6, CallFrame, CallReturn
<1>9. ASSUME NEW t \in Threads, Participate(t) PROVE CallInv'
  <2> DEFINE p == [th[t] EXCEPT !.pc = "wake", !.back = "claim"]
             q == [th[t] EXCEPT !.pc = "claim", !.back = "user"]
  <2>1. At(t, "participate") /\ (Sets(t, p) \/ Sets(t, q))
    BY <1>0, <1>9, ParticipateEffect
  <2>2. p.pc = "wake" /\ p.back = "claim" /\ p.target = th[t].target /\ (p.scanning <=> th[t].scanning)
        /\ p.job = th[t].job /\ p.home = th[t].home /\ p.task = th[t].task
    BY <1>1 DEF ThreadState
  <2>3. q.pc = "claim" /\ q.target = th[t].target /\ (q.scanning <=> th[t].scanning)
        /\ q.job = th[t].job /\ q.home = th[t].home /\ q.task = th[t].task
    BY <1>1 DEF ThreadState
  <2> HIDE DEF p, q
  <2>4. Call(t, p) /\ Call(t, q)
    BY <1>1, <2>1, <2>2, <2>3 DEF Call, Helping, Calling, Working, Notifying, At
  <2>5. QED BY <1>0, <2>1, <2>4, CallFrame
<1>10. ASSUME NEW t \in Threads, Claim(t) PROVE CallInv'
  <2>1. At(t, "claim") /\ \E chunk \in Nat, where \in {"chunk", "unlist", "drop"} :
                             Sets(t, [th[t] EXCEPT !.chunk = chunk, !.pc = where])
    BY <1>0, <1>10, ClaimEffect
  <2>2. PICK chunk \in Nat, where \in {"chunk", "unlist", "drop"} :
                             Sets(t, [th[t] EXCEPT !.chunk = chunk, !.pc = where])
    BY <2>1
  <2> DEFINE r == [th[t] EXCEPT !.chunk = chunk, !.pc = where]
  <2>3. r.pc = where /\ r.back = th[t].back /\ r.target = th[t].target /\ (r.scanning <=> th[t].scanning)
        /\ r.job = th[t].job /\ r.home = th[t].home /\ r.task = th[t].task
    BY <1>1 DEF ThreadState
  <2> HIDE DEF r
  <2>4. Call(t, r)
    BY <1>1, <2>1, <2>3 DEF Call, Helping, Calling, Working, Notifying, At
  <2>5. QED BY <1>0, <2>2, <2>4, CallFrame DEF r
<1>11. ASSUME NEW t \in Threads, RunChunk(t) \/ Unlist(t) PROVE CallInv'
  <2>1. th[t].pc \in Working /\ (Goes(t, "claim") \/ Goes(t, "drop"))
    BY <1>0, <1>11, RunChunkEffect, UnlistEffect DEF At, Working
  <2>2. {"claim", "drop"} \subseteq Working \cap Somewhere
    BY DEF Working, Somewhere
  <2>3. QED BY <1>2, <2>1, <2>2
<1>12. ASSUME NEW t \in Threads, Drop(t) PROVE CallInv'
  <2> DEFINE r == [th[t] EXCEPT !.pc = th[t].home, !.job = None, !.chunk = 0, !.home = "user"]
  <2>1. At(t, "drop") /\ Sets(t, r)
    BY <1>0, <1>12, DropEffect
  <2>2. r.pc = th[t].home /\ r.back = th[t].back /\ r.target = th[t].target /\ (r.scanning <=> th[t].scanning)
        /\ r.job = None /\ r.home = "user" /\ r.task = th[t].task
    BY <1>1 DEF ThreadState
  <2> HIDE DEF r
  <2>3. Call(t, r)
    BY <1>1, <2>1, <2>2 DEF Call, Helping, Calling, Working, Notifying, At
  <2>4. QED BY <1>0, <2>1, <2>3, CallFrame
<1>13. ASSUME NEW t \in Threads, NEW j \in Jobs, RunBulk(t, j) PROVE CallInv'
  <2> DEFINE r == [th[t] EXCEPT !.pc = "participate", !.job = j, !.home = th[t].pc]
  <2>1. (At(t, "task") \/ At(t, "user")) /\ (UNCHANGED th \/ Sets(t, r))
    BY <1>0, <1>13, RunBulkEffect
  <2>2. r.pc = "participate" /\ r.back = th[t].back /\ r.target = th[t].target /\ (r.scanning <=> th[t].scanning)
        /\ r.job = j /\ r.home = th[t].pc /\ r.task = th[t].task
    BY <1>1 DEF ThreadState
  <2> HIDE DEF r
  <2>3. j # None
    BY ThreadPoolAssumption
  <2>4. Call(t, r)
    BY <1>1, <2>1, <2>2, <2>3 DEF Call, Helping, Calling, Working, Notifying, At
  <2>5. QED BY <1>0, <1>5, <2>1, <2>4, CallFrame
<1>14. ASSUME NEW w \in Workers, Join(w) PROVE CallInv'
  <2>0. w \in Threads
    BY <1>0, Known
  <2>1. th[w].pc \in {"join", "join_woken"}
        /\ \/ \E j \in Jobs : Sets(w, [th[w] EXCEPT !.pc = "participate", !.job = j, !.home = "look"])
           \/ Searches(w, "sleep") \/ Goes(w, "sleep")
    BY <1>0, <1>14, JoinEffect
  <2>2. CASE \E j \in Jobs : Sets(w, [th[w] EXCEPT !.pc = "participate", !.job = j, !.home = "look"])
    <3>1. PICK j \in Jobs : Sets(w, [th[w] EXCEPT !.pc = "participate", !.job = j, !.home = "look"])
      BY <2>2
    <3> DEFINE r == [th[w] EXCEPT !.pc = "participate", !.job = j, !.home = "look"]
    <3>2. r.pc = "participate" /\ r.back = th[w].back /\ r.target = th[w].target /\ (r.scanning <=> th[w].scanning)
          /\ r.job = j /\ r.home = "look" /\ r.task = th[w].task
      BY <1>1, <2>0 DEF ThreadState
    <3> HIDE DEF r
    <3>3. j # None
      BY ThreadPoolAssumption
    <3>4. Call(w, r)
      BY <1>1, <2>0, <2>1, <3>2, <3>3 DEF Call, Helping, Calling, Working, Notifying, At
    <3>5. QED BY <1>0, <2>0, <3>1, <3>4, CallFrame DEF r
  <2>3. th[w].pc \in Holding \cup Other /\ ~At(w, "got_remote") /\ ~At(w, "user") /\ "sleep" \in Holding \cup Other
        /\ "sleep" \in Somewhere
    BY <2>1 DEF Other, At, Somewhere
  <2>4. QED BY <1>2, <1>3, <2>0, <2>1, <2>2, <2>3
<1>15. Holding \cup Other \subseteq Somewhere
  BY DEF Somewhere
<1>16. ASSUME NEW w \in Workers, Look(w) \/ FindNothing(w) PROVE CallInv'
  <2>0. w \in Threads /\ th[w].search \in {"sleep", "rejoin", "exit"}
    BY <1>0, Known DEF ThreadState
  <2>1. th[w].pc \in {"look", "task", "find"}
        /\ (Searches(w, "sleep") \/ \E where \in {"join", "sleep", "rejoin", "exit"} : Goes(w, where))
    BY <1>0, <1>16, <2>0, Moves DEF At
  <2>2. th[w].pc \in Holding \cup Other /\ ~At(w, "got_remote") /\ ~At(w, "user")
        /\ \A where \in {"join", "sleep", "rejoin", "exit"} :
              where \in Holding \cup Other /\ where # "user" /\ where # "got_remote"
    BY <2>1 DEF Other, At
  <2>3. QED BY <1>2, <1>3, <1>15, <2>0, <2>1, <2>2
<1>17. ASSUME NEW w \in Workers, Count(w) \/ CheckBulk(w) \/ Wait(w) \/ Uncount(w) \/ Rejoin(w) PROVE CallInv'
  <2>0. w \in Threads
    BY <1>0, Known
  <2>1. th[w].pc \in {"count", "check_bulk", "wait", "uncount", "rejoin"}
        /\ \E where \in {"check_bulk", "wait", "uncount", "block", "wake_up", "sleep", "join_woken"} : Goes(w, where)
    BY <1>0, <1>17, Moves DEF At
  <2>2. th[w].pc \in Holding \cup Other /\ ~At(w, "got_remote") /\ ~At(w, "user")
        /\ \A where \in {"check_bulk", "wait", "uncount", "block", "wake_up", "sleep", "join_woken"} :
              where \in Holding \cup Other /\ where # "user" /\ where # "got_remote"
    BY <2>1 DEF Holding, Other, At
  <2>3. QED BY <1>2, <1>15, <2>0, <2>1, <2>2
<1>18. ASSUME NEW w \in Workers, Find(w) \/ FindRemote(w) \/ Steal(w) \/ GotRemote(w) PROVE CallInv'
  <2>1. (At(w, "find") \/ At(w, "got_remote")) /\ Runs(w)
    BY <1>0, <1>18, FindEffect, FindRemoteEffect, StealEffect, GotRemoteEffect
  <2>2. th[w].pc \in Holding \cup Other
    BY <2>1 DEF Holding, Other, At
  <2>3. QED BY <1>4, <2>1, <2>2
<1>19. ASSUME NEW w \in Workers, SleepLock(w) \/ FallAsleep(w) \/ Block(w) \/ Wake(w) \/ WakeUp(w) PROVE CallInv'
  <2>0. w \in Threads
    BY <1>0, Known
  <2>1. th[w].pc \in {"sleep", "fall_asleep", "block", "asleep", "wake_up"}
        /\ \/ Searches(w, "exit") \/ Searches(w, "rejoin")
           \/ \E where \in {"fall_asleep", "recheck", "wake_up", "asleep", "wait"} : Goes(w, where)
    BY <1>0, <1>19, SleepLockEffect, FallAsleepEffect, BlockEffect, WakeEffect, WakeUpEffect DEF At
  <2>2. th[w].pc \in Holding \cup Other /\ ~At(w, "got_remote") /\ ~At(w, "user")
        /\ \A where \in {"fall_asleep", "recheck", "wake_up", "asleep", "wait"} :
              where \in Holding \cup Other /\ where # "user" /\ where # "got_remote"
    BY <2>1 DEF Holding, Other, At
  <2>3. QED BY <1>2, <1>3, <1>15, <2>0, <2>1, <2>2
<1>20. ASSUME NEW w \in Workers, Recheck(w) PROVE CallInv'
  <2>0. w \in Threads
    BY <1>0, Known
  <2>1. At(w, "recheck") /\ (Goes(w, "count") \/ \E k \in Tasks : Sets(w, [th[w] EXCEPT !.pc = "got_remote", !.task = k]))
    <3>1. CASE wk[w].remote # << >>
      BY <1>0, <1>20, <3>1, RecheckEffect, TakenTasks DEF TaskInv
    <3>2. CASE wk[w].remote = << >>
      BY <1>0, <1>20, <3>2, RecheckEffect
    <3>3. QED BY <3>1, <3>2
  <2>2. CASE \E k \in Tasks : Sets(w, [th[w] EXCEPT !.pc = "got_remote", !.task = k])
    <3>1. PICK k \in Tasks : Sets(w, [th[w] EXCEPT !.pc = "got_remote", !.task = k])
      BY <2>2
    <3> DEFINE r == [th[w] EXCEPT !.pc = "got_remote", !.task = k]
    <3>2. r.pc = "got_remote" /\ r.back = th[w].back /\ r.target = th[w].target /\ (r.scanning <=> th[w].scanning)
          /\ r.job = th[w].job /\ r.home = th[w].home /\ r.task = k
      BY <1>1, <2>0 DEF ThreadState
    <3> HIDE DEF r
    <3>3. k # None
      BY ThreadPoolAssumption
    <3>4. Call(w, r)
      BY <1>1, <2>0, <2>1, <3>2, <3>3 DEF Call, Helping, Calling, Working, Notifying, At
    <3>5. QED BY <1>0, <2>0, <3>1, <3>4, CallFrame DEF r
  <2>3. th[w].pc \in Holding \cup Other /\ ~At(w, "got_remote") /\ ~At(w, "user")
        /\ "count" \in Holding \cup Other /\ "count" \in Somewhere
    BY <2>1 DEF Holding, At, Somewhere
  <2>4. QED BY <1>2, <2>0, <2>1, <2>2, <2>3
<1>21. ASSUME NEW w \in Workers, NEW k \in Tasks, EnqueueLocal(w, k) PROVE CallInv'
  <2> DEFINE r == [th[w] EXCEPT !.pc = "wake", !.back = "task"]
  <2>0. w \in Threads
    BY <1>0, Known
  <2>1. At(w, "task") /\ Sets(w, r)
    BY <1>0, <1>21, EnqueueLocalEffect
  <2>2. r.pc = "wake" /\ r.back = "task" /\ r.target = th[w].target /\ (r.scanning <=> th[w].scanning)
        /\ r.job = th[w].job /\ r.home = th[w].home /\ r.task = th[w].task
    BY <1>1, <2>0 DEF ThreadState
  <2> HIDE DEF r
  <2>3. Call(w, r)
    BY <1>1, <2>0, <2>1, <2>2 DEF Call, Helping, Calling, Working, Notifying, At
  <2>4. QED BY <1>0, <2>0, <2>1, <2>3, CallFrame
<1>22. ASSUME NEW c \in Clients, NEW k \in Tasks, EnqueueRemote(c, k) PROVE CallInv'
  <2>0. c \in Threads /\ c \notin Workers
    BY <1>0, Known
  <2>1. PICK w \in Workers : Sets(c, [th[c] EXCEPT !.pc = "notify", !.target = w, !.scanning = FALSE, !.back = "user"])
    BY <1>0, <1>22, EnqueueRemoteEffect
  <2> DEFINE r == [th[c] EXCEPT !.pc = "notify", !.target = w, !.scanning = FALSE, !.back = "user"]
  <2>2. r.pc = "notify" /\ r.back = "user" /\ r.target = w /\ ~r.scanning
        /\ r.job = th[c].job /\ r.home = th[c].home /\ r.task = th[c].task
    BY <1>1, <2>0 DEF ThreadState
  <2>3. At(c, "user")
    BY <1>22 DEF EnqueueRemote
  <2> HIDE DEF r
  <2>4. Call(c, r)
    BY <1>1, <2>0, <2>2, <2>3 DEF Call, Helping, Calling, Working, Notifying, At
  <2>5. QED BY <1>0, <2>0, <2>1, <2>4, CallFrame DEF r
<1>23. ASSUME \/ \E w \in Workers : SpuriousWakeup(w)
              \/ BeginDestroy \/ StopLock \/ StopNotify \/ JoinThreads \/ UNCHANGED vars
       PROVE  CallInv'
  BY <1>5, <1>23 DEF SpuriousWakeup, BeginDestroy, StopLock, StopNotify, JoinThreads, vars
<1>24. QED
  BY <1>6, <1>7, <1>8, <1>9, <1>10, <1>11, <1>12, <1>13, <1>14, <1>16, <1>17, <1>18, <1>19, <1>20, <1>21, <1>22, <1>23
  DEF Next, Step, WorkerStep, DestructorStep, Done

-----------------------------------------------------------------------------
(* Falling asleep and waking.  Calm steps have no part in it. *)
Awake == Calling \cup Working \cup (Other \ {"asleep"})

Calm(t) ==
    /\ th[t].pc \in Awake \ Notifying /\ th'[t].pc \in Awake
    /\ \A u \in Threads : u # t => th'[u] = th[u]
    /\ pool'.sleepers = pool.sleepers
    /\ \A w \in Workers :
          /\ wk'[w].mutex = wk[w].mutex /\ (wk'[w].waiting <=> wk[w].waiting)
          /\ th[w].pc \notin Awake => wk'[w].state = wk[w].state /\ wk'[w].remote = wk[w].remote

SleepingInv == MutexInv /\ SleepInv /\ SleepersInv

LEMMA CalmKeeps ==
    ASSUME Types, SleepingInv, NEW t \in Threads, Calm(t)
    PROVE  SleepingInv'
<1>0. \A w \in Workers : w \in Threads /\ Mutexed(w) /\ Slept(w)
  BY Known DEF SleepingInv, MutexInv, SleepInv
<1>1. \A w \in Workers : IF w = t THEN th[w].pc \in Awake /\ th'[w].pc \in Awake ELSE th'[w] = th[w]
  BY <1>0 DEF Calm
<1>2. MutexInv'
  BY <1>0, <1>1 DEF MutexInv, Mutexed, Calm, Awake, Calling, Notifying, Working, Holding, Other, At
<1>3. SleepersInv'
  <2>1. \A w \in Workers : th'[w].pc \in Counted <=> th[w].pc \in Counted
    BY <1>1 DEF Awake, Calling, Notifying, Working, Counted, Other
  <2>2. Sleepers' = Sleepers
    BY <2>1 DEF Sleepers
  <2>3. QED BY <2>2 DEF SleepersInv, SleepingInv, Calm
<1>4. ASSUME NEW w \in Workers PROVE Slept(w)'
  <2>1. CASE w = t
    BY <1>1, <2>1 DEF Slept, Awake, Calling, Notifying, Working, Other, At, Asleep
  <2>2. CASE w # t /\ th[w].pc \in Awake
    BY <1>1, <2>2 DEF Slept, Awake, Calling, Notifying, Working, Other, At, Asleep
  <2>3. CASE w # t /\ th[w].pc \notin Awake
    <3>1. \A where \in SUBSET Notifying : Notifies(w, where) => Notifies(w, where)'
      BY DEF Notifies, Calm
    <3>2. {"notify"} \in SUBSET Notifying /\ {"notify_lock"} \in SUBSET Notifying
          /\ {"notify_lock", "notify_one"} \in SUBSET Notifying
      BY DEF Notifying
    <3>3. th'[w] = th[w] /\ wk'[w].state = wk[w].state /\ wk'[w].remote = wk[w].remote
          /\ (wk'[w].waiting <=> wk[w].waiting)
      BY <1>0, <2>3 DEF Calm
    <3>4. QED BY <1>0, <3>1, <3>2, <3>3 DEF Slept, At, Asleep
  <2>4. QED BY <2>1, <2>2, <2>3
<1>5. QED BY <1>2, <1>3, <1>4 DEF SleepingInv, SleepInv

(* A step of a worker that holds its mutex, or is about to take it.        *)
LEMMA WorkerKeeps ==
    ASSUME Types, SleepingInv, NEW w \in Workers, th[w].pc \notin Notifying,
           \A u \in Threads : u # w => th'[u] = th[u],
           \A v \in Workers : v # w => wk'[v] = wk[v],
           Mutexed(w)', Slept(w)'
    PROVE  MutexInv' /\ SleepInv'
<1>0. \A v \in Workers : v \in Threads /\ Mutexed(v) /\ Slept(v)
  BY Known DEF SleepingInv, MutexInv, SleepInv
<1>1. ASSUME NEW v \in Workers, v # w PROVE Mutexed(v)' /\ Slept(v)'
  <2>1. th'[v] = th[v] /\ wk'[v] = wk[v]
    BY <1>0, <1>1
  <2>2. \A where \in SUBSET Notifying : Notifies(v, where) => Notifies(v, where)'
    BY DEF Notifies
  <2>3. {"notify"} \in SUBSET Notifying /\ {"notify_lock"} \in SUBSET Notifying
        /\ {"notify_lock", "notify_one"} \in SUBSET Notifying
    BY DEF Notifying
  <2>4. QED BY <1>0, <2>1, <2>2, <2>3 DEF Mutexed, Slept, At, Asleep
<1>2. QED BY <1>1 DEF MutexInv, SleepInv

LEMMA SleepersKept ==
    ASSUME SleepingInv, \A w \in Workers : th'[w].pc \in Counted <=> th[w].pc \in Counted,
           pool'.sleepers = pool.sleepers
    PROVE  SleepersInv'
<1>1. Sleepers' = Sleepers
  BY DEF Sleepers
<1>2. QED BY <1>1 DEF SleepersInv, SleepingInv

(* Where a thread is after a step. *)
LEMMA Lands ==
    ASSUME Types, NEW t \in Threads
    PROVE  /\ \A where \in Somewhere : Goes(t, where) => th'[t] = [th[t] EXCEPT !.pc = where] /\ th'[t].pc = where
           /\ Returns(t) => th'[t].pc = th[t].back
           /\ \A next : Searches(t, next) => th'[t].pc = "find"
           /\ Runs(t) => th'[t].pc = "task"
           /\ th[t] \in ThreadState
BY Known DEF Goes, Returns, Searches, Runs, Sets, ThreadState

LEMMA OneQueue ==
    ASSUME Types, NEW w \in Workers, NEW q
    PROVE  /\ SetsWorker(w, [wk[w] EXCEPT !.local = q]) =>
                 \A v \in Workers : /\ wk'[v].mutex = wk[v].mutex /\ (wk'[v].waiting <=> wk[v].waiting)
                                    /\ wk'[v].state = wk[v].state /\ wk'[v].remote = wk[v].remote
           /\ SetsWorker(w, [wk[w] EXCEPT !.remote = q]) =>
                 \A v \in Workers : /\ wk'[v].mutex = wk[v].mutex /\ (wk'[v].waiting <=> wk[v].waiting)
                                    /\ wk'[v].state = wk[v].state /\ (v # w => wk'[v].remote = wk[v].remote)
<1>1. wk[w] \in WorkerState
  BY Known
<1>2. ASSUME NEW r, r = [wk[w] EXCEPT !.local = q]
      PROVE  r.mutex = wk[w].mutex /\ r.waiting = wk[w].waiting /\ r.state = wk[w].state /\ r.remote = wk[w].remote
  BY <1>1, <1>2 DEF WorkerState
<1>3. ASSUME NEW r, r = [wk[w] EXCEPT !.remote = q]
      PROVE  r.mutex = wk[w].mutex /\ r.waiting = wk[w].waiting /\ r.state = wk[w].state
  BY <1>1, <1>3 DEF WorkerState
<1>4. QED BY <1>2, <1>3 DEF SetsWorker

LEMMA CalmCalls ==
    ASSUME IInv, NEW t \in Threads,
           \/ WakeIdle(t) \/ Scan(t) \/ Participate(t) \/ Claim(t) \/ RunChunk(t) \/ Unlist(t) \/ Drop(t)
           \/ \E j \in Jobs : RunBulk(t, j)
    PROVE  Calm(t)
<1>0. Types /\ CallInv /\ ListInv /\ th[t] \in ThreadState
  BY Known DEF IInv
<1>1. UNCHANGED wk
  BY DEF WakeIdle, Scan, Participate, Claim, RunChunk, Unlist, Drop, RunBulk
<1>2. pool'.sleepers = pool.sleepers
  <2>1. Unlist(t) => pool'.sleepers = pool.sleepers
    BY <1>0, UnlistEffect
  <2>2. \A j \in Jobs : RunBulk(t, j) => pool'.sleepers = pool.sleepers
    BY <1>0 DEF RunBulk, Types, PoolState
  <2>3. QED BY <2>1, <2>2 DEF WakeIdle, Scan, Participate, Claim, RunChunk, Drop
<1>3. th[t].back \in Awake /\ th[t].home \in Awake
  BY <1>0 DEF ThreadState, Awake, Other, Working
<1>4. {"wake", "scan", "notify", "claim", "chunk", "unlist", "drop", "participate", "find", "join", "task", "user",
        "sleep", "rejoin", "exit", "join_woken"} \subseteq Awake \cap Somewhere
      /\ {"wake", "scan", "participate", "claim", "chunk", "unlist", "drop", "task", "user"} \cap Notifying = {}
  BY DEF Awake, Calling, Working, Notifying, Other, Somewhere
<1>5. /\ th[t].pc \in {"wake", "scan", "participate", "claim", "chunk", "unlist", "drop", "task", "user"}
      /\ th'[t].pc \in Awake /\ \A u \in Threads : u # t => th'[u] = th[u]
  <2>1. CASE WakeIdle(t)
    <3>1. At(t, "wake") /\ (Returns(t) \/ Sets(t, [th[t] EXCEPT !.pc = "scan", !.scanning = TRUE]))
      BY <1>0, <2>1, WakeIdleEffect
    <3>2. [th[t] EXCEPT !.pc = "scan", !.scanning = TRUE].pc = "scan"
      BY <1>0 DEF ThreadState
    <3>3. QED BY <1>0, <1>3, <1>4, <3>1, <3>2, Lands DEF At, Sets, Returns
  <2>2. CASE Scan(t)
    <3>1. At(t, "scan") /\ (Returns(t) \/ Goes(t, "notify") \/ Sets(t, [th[t] EXCEPT !.target = th[t].target + 1]))
      BY <1>0, <2>2, ScanEffect
    <3>2. [th[t] EXCEPT !.target = th[t].target + 1].pc = th[t].pc
      BY <1>0 DEF ThreadState
    <3>3. QED BY <1>0, <1>3, <1>4, <3>1, <3>2, Lands DEF At, Sets, Returns, Goes
  <2>3. CASE Participate(t)
    <3>1. At(t, "participate") /\ (\/ Sets(t, [th[t] EXCEPT !.pc = "wake", !.back = "claim"])
                                   \/ Sets(t, [th[t] EXCEPT !.pc = "claim", !.back = "user"]))
      BY <1>0, <2>3, ParticipateEffect
    <3>2. [th[t] EXCEPT !.pc = "wake", !.back = "claim"].pc = "wake"
          /\ [th[t] EXCEPT !.pc = "claim", !.back = "user"].pc = "claim"
      BY <1>0 DEF ThreadState
    <3>3. QED BY <1>0, <1>4, <3>1, <3>2 DEF At, Sets
  <2>4. CASE Claim(t)
    <3>1. At(t, "claim") /\ \E chunk \in Nat, where \in {"chunk", "unlist", "drop"} :
                               Sets(t, [th[t] EXCEPT !.chunk = chunk, !.pc = where])
      BY <1>0, <2>4, ClaimEffect
    <3>2. \A chunk \in Nat, where \in {"chunk", "unlist", "drop"} :
             [th[t] EXCEPT !.chunk = chunk, !.pc = where].pc = where
      BY <1>0 DEF ThreadState
    <3>3. QED BY <1>0, <1>4, <3>1, <3>2 DEF At, Sets
  <2>5. CASE RunChunk(t) \/ Unlist(t)
    <3>1. (At(t, "chunk") /\ Goes(t, "claim")) \/ (At(t, "unlist") /\ Goes(t, "drop"))
      BY <1>0, <2>5, RunChunkEffect, UnlistEffect
    <3>2. QED BY <1>0, <1>4, <3>1, Lands DEF At, Goes, Sets
  <2>6. CASE Drop(t)
    <3>1. At(t, "drop") /\ Sets(t, [th[t] EXCEPT !.pc = th[t].home, !.job = None, !.chunk = 0, !.home = "user"])
      BY <1>0, <2>6, DropEffect
    <3>2. [th[t] EXCEPT !.pc = th[t].home, !.job = None, !.chunk = 0, !.home = "user"].pc = th[t].home
      BY <1>0 DEF ThreadState
    <3>3. QED BY <1>0, <1>3, <1>4, <3>1, <3>2 DEF At, Sets
  <2>7. CASE \E j \in Jobs : RunBulk(t, j)
    <3>1. PICK j \in Jobs : RunBulk(t, j)
      BY <2>7
    <3>2. At(t, "task") \/ At(t, "user")
      BY <3>1 DEF RunBulk
    <3>3. UNCHANGED th \/ Sets(t, [th[t] EXCEPT !.pc = "participate", !.job = j, !.home = th[t].pc])
      BY <1>0, <3>1, RunBulkEffect
    <3>4. [th[t] EXCEPT !.pc = "participate", !.job = j, !.home = th[t].pc].pc = "participate"
      BY <1>0 DEF ThreadState
    <3>5. QED BY <1>0, <1>4, <3>2, <3>3, <3>4 DEF At, Sets
  <2>8. QED BY <2>1, <2>2, <2>3, <2>4, <2>5, <2>6, <2>7
<1>6. th[t].pc \in Awake \ Notifying
  BY <1>4, <1>5
<1>7. QED BY <1>1, <1>2, <1>5, <1>6 DEF Calm

LEMMA CalmWork ==
    ASSUME IInv, NEW w \in Workers,
           \/ Look(w) \/ Find(w) \/ FindRemote(w) \/ Steal(w) \/ FindNothing(w) \/ Rejoin(w) \/ Join(w)
           \/ \E k \in Tasks : EnqueueLocal(w, k)
           \/ SleepLock(w) /\ pool.stopping
    PROVE  Calm(w)
<1>0. Types /\ CallInv /\ TaskInv /\ w \in Threads /\ th[w] \in ThreadState /\ \A v \in Workers : wk[v] \in WorkerState
  BY Known DEF IInv
<1>1. UNCHANGED pool
  BY <1>0 DEF Look, Find, FindRemote, Steal, FindNothing, Rejoin, Join, EnqueueLocal, SleepLock
<1>2. {"look", "find", "join", "task", "sleep", "rejoin", "exit", "join_woken", "wake", "participate"}
         \subseteq Awake \cap Somewhere
      /\ {"look", "find", "join", "task", "sleep", "rejoin", "join_woken"} \cap Notifying = {}
  BY DEF Awake, Calling, Working, Notifying, Other, Somewhere
<1>3. /\ th[w].pc \in {"look", "find", "join", "task", "sleep", "rejoin", "join_woken"}
      /\ th'[w].pc \in Awake /\ \A u \in Threads : u # w => th'[u] = th[u]
  <2>1. CASE Look(w) \/ FindNothing(w) \/ Rejoin(w)
    <3>1. th[w].pc \in {"look", "task", "find", "rejoin"}
          /\ \/ Searches(w, "sleep")
             \/ \E where \in {"join", "sleep", "rejoin", "exit", "join_woken"} : Goes(w, where)
      BY <1>0, <2>1, Moves DEF ThreadState, At
    <3>2. CASE Searches(w, "sleep")
      BY <1>0, <1>2, <3>1, <3>2, Lands DEF Searches, Sets
    <3>3. CASE \E where \in {"join", "sleep", "rejoin", "exit", "join_woken"} : Goes(w, where)
      BY <1>0, <1>2, <3>1, <3>3, Lands DEF Goes, Sets
    <3>4. QED BY <3>1, <3>2, <3>3
  <2>2. CASE Find(w) \/ FindRemote(w) \/ Steal(w)
    <3>1. At(w, "find") /\ Runs(w)
      BY <1>0, <2>2, FindEffect, FindRemoteEffect, StealEffect
    <3>2. QED BY <1>0, <1>2, <3>1, Lands DEF At, Runs, Sets
  <2>3. CASE Join(w)
    <3>1. th[w].pc \in {"join", "join_woken"}
          /\ \/ \E j \in Jobs : Sets(w, [th[w] EXCEPT !.pc = "participate", !.job = j, !.home = "look"])
             \/ Searches(w, "sleep") \/ Goes(w, "sleep")
      BY <1>0, <2>3, JoinEffect
    <3>2. \A j \in Jobs : [th[w] EXCEPT !.pc = "participate", !.job = j, !.home = "look"].pc = "participate"
      BY <1>0 DEF ThreadState
    <3>3. CASE Searches(w, "sleep")
      BY <1>0, <1>2, <3>1, <3>3, Lands DEF Searches, Sets
    <3>4. CASE Goes(w, "sleep")
      BY <1>0, <1>2, <3>1, <3>4, Lands DEF Goes, Sets
    <3>5. CASE \E j \in Jobs : Sets(w, [th[w] EXCEPT !.pc = "participate", !.job = j, !.home = "look"])
      BY <1>0, <1>2, <3>1, <3>2, <3>5 DEF Sets
    <3>6. QED BY <3>1, <3>3, <3>4, <3>5
  <2>4. CASE \E k \in Tasks : EnqueueLocal(w, k)
    <3>1. At(w, "task") /\ Sets(w, [th[w] EXCEPT !.pc = "wake", !.back = "task"])
      BY <1>0, <2>4, EnqueueLocalEffect
    <3>2. [th[w] EXCEPT !.pc = "wake", !.back = "task"].pc = "wake"
      BY <1>0 DEF ThreadState
    <3>3. QED BY <1>0, <1>2, <3>1, <3>2 DEF At, Sets
  <2>5. CASE SleepLock(w) /\ pool.stopping
    <3>1. At(w, "sleep") /\ Search(w, "exit")
      BY <2>5 DEF SleepLock, LastLook
    <3>2. Searches(w, "exit")
      BY <1>0, <3>1, Searching
    <3>3. QED BY <1>0, <1>2, <3>1, <3>2, Lands DEF At, Searches, Sets
  <2>6. QED BY <2>1, <2>2, <2>3, <2>4, <2>5
<1>4. \A v \in Workers : /\ wk'[v].mutex = wk[v].mutex /\ (wk'[v].waiting <=> wk[v].waiting)
                         /\ th[v].pc \notin Awake => wk'[v].state = wk[v].state /\ wk'[v].remote = wk[v].remote
  <2>1. CASE UNCHANGED wk
    BY <2>1
  <2>2. CASE Find(w)
    <3>1. SetsWorker(w, [wk[w] EXCEPT !.local = Front(wk[w].local)])
      BY <1>0, <2>2, FindEffect
    <3>2. QED BY <1>0, <3>1, OneQueue
  <2>3. CASE FindRemote(w)
    <3>1. wk[w].remote # << >> /\ SetsWorker(w, Taken(w))
      BY <1>0, <2>3, FindRemoteEffect
    <3>2. Taken(w).mutex = wk[w].mutex /\ Taken(w).waiting = wk[w].waiting
      BY <1>0, <3>1, TakenTasks DEF TaskInv
    <3>3. QED BY <1>2, <1>3, <3>1, <3>2 DEF SetsWorker
  <2>4. CASE Steal(w)
    <3>1. PICK v \in Workers : SetsWorker(v, [wk[v] EXCEPT !.local = Tail(wk[v].local)])
      BY <1>0, <2>4, StealEffect
    <3>2. QED BY <1>0, <3>1, OneQueue
  <2>5. CASE \E k \in Tasks : EnqueueLocal(w, k)
    <3>1. PICK k \in Tasks : EnqueueLocal(w, k)
      BY <2>5
    <3>2. \/ SetsWorker(w, [wk[w] EXCEPT !.local = Append(wk[w].local, k)])
          \/ SetsWorker(w, [wk[w] EXCEPT !.remote = <<k>> \o wk[w].remote])
      BY <1>0, <3>1, EnqueueLocalEffect
    <3>3. th[w].pc \in Awake
      BY <1>2, <1>3
    <3>4. QED BY <1>0, <3>2, <3>3, OneQueue
  <2>6. QED BY <2>1, <2>2, <2>3, <2>4, <2>5 DEF Look, FindNothing, Rejoin, Join, SleepLock
<1>5. QED BY <1>1, <1>2, <1>3, <1>4 DEF Calm

(* The notifiers' steps, and a submission from outside. *)
LEMMA NotifyKeeps ==
    ASSUME IInv, NEW t \in Threads, Notify(t)
    PROVE  SleepingInv'
<1> DEFINE i == th[t].target
<1>0. Types /\ CallInv /\ SleepingInv /\ th[t] \in ThreadState /\ \A w \in Workers : w \in Threads /\ wk[w] \in WorkerState
  BY Known DEF IInv, SleepingInv
<1>1. /\ At(t, "notify") /\ i \in Workers /\ UNCHANGED <<plan, pool, job, owner, task>>
      /\ SetsWorker(i, [wk[i] EXCEPT !.state = "notified"])
      /\ \/ wk[i].state = "sleeping" /\ Goes(t, "notify_lock")
         \/ wk[i].state # "sleeping" /\ Sets(t, [th[t] EXCEPT !.pc = "scan", !.target = i + 1])
         \/ wk[i].state # "sleeping" /\ Returns(t)
  BY <1>0, NotifyEffect
<1>2. /\ th'[t].pc \in Awake /\ \A u \in Threads : u # t => th'[u] = th[u]
      /\ wk[i].state = "sleeping" => th'[t].pc = "notify_lock" /\ th'[t].target = i
  <2>1. [th[t] EXCEPT !.pc = "scan", !.target = i + 1].pc = "scan"
        /\ [th[t] EXCEPT !.pc = "notify_lock"].pc = "notify_lock"
        /\ [th[t] EXCEPT !.pc = "notify_lock"].target = i
    BY <1>0 DEF ThreadState
  <2>2. th[t].back \in Awake /\ {"scan", "notify_lock"} \subseteq Awake
    BY <1>0 DEF ThreadState, Awake, Other, Calling, Working, Notifying
  <2>3. Returns(t) => th'[t].pc = th[t].back
    BY <1>0, Lands
  <2>4. Returns(t) => \A u \in Threads : u # t => th'[u] = th[u]
    BY DEF Returns, Sets
  <2>5. QED BY <1>1, <2>1, <2>2, <2>3, <2>4 DEF Goes, Sets
<1>3. /\ wk'[i].state = "notified" /\ \A w \in Workers : w # i => wk'[w] = wk[w]
      /\ wk'[i].mutex = wk[i].mutex /\ (wk'[i].waiting <=> wk[i].waiting) /\ wk'[i].remote = wk[i].remote
  BY <1>0, <1>1 DEF SetsWorker, WorkerState
<1>4. th[t].pc \in Awake /\ ~(th[t].pc \in {"notify_lock", "notify_one"})
  BY <1>1 DEF Awake, Calling, Notifying, At
<1>5. \A w \in Workers : w # t => th'[w] = th[w]
  BY <1>0, <1>2
<1>6. MutexInv'
  BY <1>0, <1>2, <1>3, <1>4, <1>5 DEF SleepingInv, MutexInv, Mutexed, Awake, Calling, Notifying, Working, Holding, Other, At
<1>7. SleepersInv'
  <2>1. \A w \in Workers : th'[w].pc \in Counted <=> th[w].pc \in Counted
    BY <1>2, <1>4, <1>5 DEF Awake, Calling, Notifying, Working, Counted, Other
  <2>2. QED BY <1>0, <1>1, <2>1, SleepersKept
<1>8. ASSUME NEW w \in Workers PROVE Slept(w)'
  <2>0. Slept(w) /\ w \in Threads
    BY <1>0 DEF SleepingInv, SleepInv
  <2>1. CASE th[w].pc \in Awake
    <3>1. th'[w].pc \in Awake
      BY <1>2, <1>5, <2>1
    <3>2. QED BY <3>1 DEF Slept, Awake, Calling, Notifying, Working, Other, At, Asleep
  <2>2. CASE th[w].pc \notin Awake
    <3>1. w # t /\ th'[w] = th[w]
      BY <1>4, <1>5, <2>2
    <3>2. ASSUME NEW where \in SUBSET {"notify_lock", "notify_one"}, Notifies(w, where) PROVE Notifies(w, where)'
      BY <1>2, <1>4, <3>2 DEF Notifies
    <3>3. {"notify_lock"} \in SUBSET {"notify_lock", "notify_one"}
          /\ {"notify_lock", "notify_one"} \in SUBSET {"notify_lock", "notify_one"}
      OBVIOUS
    <3>4. CASE w # i
      <4>1. wk'[w] = wk[w]
        BY <1>3, <3>4
      <4>2. Notifies(w, {"notify"}) => Notifies(w, {"notify"})'
        BY <1>2, <3>4 DEF Notifies
      <4>3. QED BY <2>0, <3>1, <3>2, <3>3, <4>1, <4>2 DEF Slept, At, Asleep
    <3>5. CASE w = i
      <4>1. wk[w].state = "sleeping" =>
               Notifies(w, {"notify_lock"})' /\ Notifies(w, {"notify_lock", "notify_one"})'
        BY <1>2, <3>5 DEF Notifies
      <4>2. QED BY <1>3, <2>0, <3>1, <3>2, <3>3, <3>5, <4>1 DEF Slept, At, Asleep
    <3>6. QED BY <3>4, <3>5
  <2>3. QED BY <2>1, <2>2
<1>9. QED BY <1>6, <1>7, <1>8 DEF SleepingInv, SleepInv

LEMMA NotifyLockKeeps ==
    ASSUME IInv, NEW t \in Threads, NotifyLock(t)
    PROVE  SleepingInv'
<1> DEFINE i == th[t].target
<1>0. Types /\ CallInv /\ SleepingInv /\ th[t] \in ThreadState /\ \A w \in Workers : w \in Threads
  BY Known DEF IInv, SleepingInv
<1>1. /\ At(t, "notify_lock") /\ i \in Workers /\ wk[i].mutex = None
      /\ UNCHANGED <<plan, wk, pool, job, owner, task>> /\ Goes(t, "notify_one")
  BY <1>0, NotifyLockEffect
<1>2. th'[t].pc = "notify_one" /\ th'[t].target = i /\ \A u \in Threads : u # t => th'[u] = th[u]
  BY <1>0, <1>1 DEF Goes, Sets, ThreadState
<1>3. \A w \in Workers : w # t => th'[w] = th[w]
  BY <1>0, <1>2
<1>4. MutexInv'
  BY <1>0, <1>1, <1>2, <1>3 DEF SleepingInv, MutexInv, Mutexed, Holding, At
<1>5. SleepersInv'
  <2>1. \A w \in Workers : th'[w].pc \in Counted <=> th[w].pc \in Counted
    BY <1>1, <1>2, <1>3 DEF Counted, At
  <2>2. QED BY <1>0, <1>1, <2>1, SleepersKept
<1>6. ASSUME NEW w \in Workers PROVE Slept(w)'
  <2>0. Slept(w) /\ Mutexed(w) /\ w \in Threads /\ w # None
    BY <1>0, Known DEF SleepingInv, SleepInv, MutexInv
  <2>1. CASE w = t
    BY <1>2, <2>1 DEF Slept, At, Asleep
  <2>2. CASE w # t
    <3>1. th'[w] = th[w] /\ wk'[w] = wk[w]
      BY <1>1, <1>3, <2>2
    <3>2. Notifies(w, {"notify"}) => Notifies(w, {"notify"})'
      BY <1>1, <1>2 DEF Notifies, At
    <3>3. At(w, "block") => i # w
      BY <1>1, <2>0 DEF Mutexed, Holding, At
    <3>4. At(w, "block") /\ Notifies(w, {"notify_lock"}) => Notifies(w, {"notify_lock"})'
      BY <1>2, <3>3 DEF Notifies
    <3>5. Notifies(w, {"notify_lock", "notify_one"}) => Notifies(w, {"notify_lock", "notify_one"})'
      BY <1>2 DEF Notifies
    <3>6. QED BY <2>0, <3>1, <3>2, <3>4, <3>5 DEF Slept, At, Asleep
  <2>3. QED BY <2>1, <2>2
<1>7. QED BY <1>4, <1>5, <1>6 DEF SleepingInv, SleepInv

LEMMA NotifyOneKeeps ==
    ASSUME IInv, NEW t \in Threads, NotifyOne(t)
    PROVE  SleepingInv'
<1> DEFINE i == th[t].target
<1>0. Types /\ CallInv /\ SleepingInv /\ th[t] \in ThreadState /\ \A w \in Workers : w \in Threads /\ wk[w] \in WorkerState
  BY Known DEF IInv, SleepingInv
<1>1. /\ At(t, "notify_one") /\ i \in Workers /\ UNCHANGED <<plan, pool, job, owner, task>>
      /\ SetsWorker(i, [wk[i] EXCEPT !.waiting = FALSE]) /\ Returns(t)
  BY <1>0, NotifyOneEffect
<1>2. th'[t].pc \in Awake /\ \A u \in Threads : u # t => th'[u] = th[u]
  <2>1. th[t].back \in Awake
    BY <1>0 DEF ThreadState, Awake, Other, Working
  <2>2. QED BY <1>0, <1>1, <2>1, Lands DEF Returns, Sets
<1>3. /\ ~wk'[i].waiting /\ \A w \in Workers : w # i => wk'[w] = wk[w]
      /\ wk'[i].mutex = wk[i].mutex /\ wk'[i].state = wk[i].state /\ wk'[i].remote = wk[i].remote
  BY <1>0, <1>1 DEF SetsWorker, WorkerState
<1>4. th[t].pc \in Awake /\ th[t].pc \notin {"notify", "notify_lock"}
  BY <1>1 DEF Awake, Calling, Notifying, At
<1>5. \A w \in Workers : w # t => th'[w] = th[w]
  BY <1>0, <1>2
<1>6. MutexInv'
  BY <1>0, <1>2, <1>3, <1>4, <1>5 DEF SleepingInv, MutexInv, Mutexed, Awake, Calling, Notifying, Working, Holding, Other, At
<1>7. SleepersInv'
  <2>1. \A w \in Workers : th'[w].pc \in Counted <=> th[w].pc \in Counted
    BY <1>2, <1>4, <1>5 DEF Awake, Calling, Notifying, Working, Counted, Other
  <2>2. QED BY <1>0, <1>1, <2>1, SleepersKept
<1>8. ASSUME NEW w \in Workers PROVE Slept(w)'
  <2>0. Slept(w) /\ w \in Threads
    BY <1>0 DEF SleepingInv, SleepInv
  <2>1. CASE th[w].pc \in Awake
    <3>1. th'[w].pc \in Awake
      BY <1>2, <1>5, <2>1
    <3>2. QED BY <3>1 DEF Slept, Awake, Calling, Notifying, Working, Other, At, Asleep
  <2>2. CASE th[w].pc \notin Awake
    <3>1. w # t /\ th'[w] = th[w] /\ wk'[w].state = wk[w].state /\ wk'[w].remote = wk[w].remote
      BY <1>3, <1>4, <1>5, <2>2
    <3>2. Notifies(w, {"notify"}) => Notifies(w, {"notify"})'
      BY <1>2, <1>4 DEF Notifies
    <3>3. Notifies(w, {"notify_lock"}) => Notifies(w, {"notify_lock"})'
      BY <1>2, <1>4 DEF Notifies
    <3>4. wk'[w].waiting => w # i /\ wk[w].waiting
      BY <1>3
    <3>5. w # i /\ Notifies(w, {"notify_lock", "notify_one"}) => Notifies(w, {"notify_lock", "notify_one"})'
      BY <1>2 DEF Notifies
    <3>6. QED BY <2>0, <3>1, <3>2, <3>3, <3>4, <3>5 DEF Slept, At, Asleep
  <2>3. QED BY <2>1, <2>2
<1>9. QED BY <1>6, <1>7, <1>8 DEF SleepingInv, SleepInv

LEMMA SubmitKeeps ==
    ASSUME IInv, NEW c \in Clients, NEW k \in Tasks, EnqueueRemote(c, k)
    PROVE  SleepingInv'
<1>0. /\ Types /\ TaskInv /\ SleepingInv /\ c \in Threads /\ c \notin Workers /\ th[c] \in ThreadState
      /\ \A w \in Workers : w \in Threads /\ wk[w] \in WorkerState
  BY Known DEF IInv, SleepingInv
<1>1. /\ At(c, "user") /\ UNCHANGED pool
      /\ \E i \in Workers :
            /\ SetsWorker(i, [wk[i] EXCEPT !.remote = <<k>> \o wk[i].remote])
            /\ Sets(c, [th[c] EXCEPT !.pc = "notify", !.target = i, !.scanning = FALSE, !.back = "user"])
  BY <1>0, EnqueueRemoteEffect
<1>2. PICK i \in Workers :
            /\ SetsWorker(i, [wk[i] EXCEPT !.remote = <<k>> \o wk[i].remote])
            /\ Sets(c, [th[c] EXCEPT !.pc = "notify", !.target = i, !.scanning = FALSE, !.back = "user"])
  BY <1>1
<1>3. th'[c].pc = "notify" /\ th'[c].target = i /\ \A u \in Threads : u # c => th'[u] = th[u]
  BY <1>0, <1>2 DEF Sets, ThreadState
<1>4. \A w \in Workers : /\ wk'[w].mutex = wk[w].mutex /\ (wk'[w].waiting <=> wk[w].waiting)
                         /\ wk'[w].state = wk[w].state /\ (w # i => wk'[w].remote = wk[w].remote)
  BY <1>0, <1>2, OneQueue
<1>5. \A w \in Workers : th'[w] = th[w]
  BY <1>0, <1>3
<1>6. MutexInv'
  BY <1>0, <1>4, <1>5 DEF SleepingInv, MutexInv, Mutexed, At
<1>7. SleepersInv'
  BY <1>0, <1>1, <1>5, SleepersKept
<1>8. ASSUME NEW w \in Workers PROVE Slept(w)'
  <2>0. Slept(w)
    BY <1>0 DEF SleepingInv, SleepInv
  <2>1. \A where \in SUBSET Notifying : Notifies(w, where) => Notifies(w, where)'
    BY <1>1, <1>3 DEF Notifies, Notifying, At
  <2>2. {"notify"} \in SUBSET Notifying /\ {"notify_lock"} \in SUBSET Notifying
        /\ {"notify_lock", "notify_one"} \in SUBSET Notifying
    BY DEF Notifying
  <2>3. w = i => Notifies(w, {"notify"})'
    BY <1>0, <1>3 DEF Notifies
  <2>4. QED BY <1>4, <1>5, <2>0, <2>1, <2>2, <2>3 DEF Slept, At, Asleep
<1>9. QED BY <1>6, <1>7, <1>8 DEF SleepingInv, SleepInv

(* The steps of a worker that falls asleep, sleeps and wakes.              *)
LEMMA SleeperKeeps ==
    ASSUME IInv, NEW w \in Workers,
           \/ SleepLock(w) /\ ~pool.stopping
           \/ FallAsleep(w) \/ Recheck(w) \/ GotRemote(w) \/ CheckBulk(w) \/ Wait(w) \/ Block(w) \/ Wake(w) \/ WakeUp(w)
    PROVE  SleepingInv'
<1>0. /\ Types /\ CallInv /\ TaskInv /\ SleepingInv /\ w \in Threads /\ w # None
      /\ th[w] \in ThreadState /\ wk[w] \in WorkerState /\ Mutexed(w) /\ Slept(w)
  BY Known DEF IInv, SleepingInv, MutexInv, SleepInv
<1>1. ASSUME NEW from \in Holding \cup {"asleep", "sleep"}, NEW to \in Holding \cup {"asleep", "find", "task"},
             At(w, from), th'[w].pc = to, \A u \in Threads : u # w => th'[u] = th[u],
             \A v \in Workers : v # w => wk'[v] = wk[v], UNCHANGED pool,
             to \in Counted <=> from \in Counted, Mutexed(w)', Slept(w)'
      PROVE  SleepingInv'
  <2>1. th[w].pc \notin Notifying
    BY <1>1 DEF At, Holding, Notifying
  <2>2. MutexInv' /\ SleepInv'
    BY <1>0, <1>1, <2>1, WorkerKeeps
  <2>3. \A v \in Workers : th'[v].pc \in Counted <=> th[v].pc \in Counted
    BY <1>0, <1>1, Known DEF At
  <2>4. SleepersInv'
    BY <1>0, <1>1, <2>3, SleepersKept
  <2>5. QED BY <2>2, <2>4 DEF SleepingInv
<1>2. ASSUME NEW v \in Workers, NEW where \in SUBSET Notifying, th[w].pc \notin Notifying,
             \A u \in Threads : u # w => th'[u] = th[u], Notifies(v, where)
      PROVE  Notifies(v, where)'
  BY <1>2 DEF Notifies
<1>3. {"notify"} \in SUBSET Notifying /\ {"notify_lock"} \in SUBSET Notifying
      /\ {"notify_lock", "notify_one"} \in SUBSET Notifying
  BY DEF Notifying
<1>4. \A where \in Somewhere : Goes(w, where) => th'[w].pc = where /\ \A u \in Threads : u # w => th'[u] = th[u]
  BY <1>0, Lands DEF Goes, Sets
<1>5. Holding \cup {"asleep", "find", "task"} \subseteq Somewhere
  BY DEF Somewhere, Other
<1>6. CASE SleepLock(w) /\ ~pool.stopping
  <2>1. At(w, "sleep") /\ UNCHANGED pool /\ Goes(w, "fall_asleep") /\ SetsWorker(w, [wk[w] EXCEPT !.mutex = w])
    BY <1>0, <1>6, SleepLockEffect
  <2>2. "fall_asleep" \in Holding /\ "fall_asleep" \notin Counted /\ "sleep" \notin Counted /\ "sleep" \notin Holding
    BY DEF Holding, Counted
  <2>3. th'[w].pc = "fall_asleep" /\ \A u \in Threads : u # w => th'[u] = th[u]
    BY <1>4, <1>5, <2>1, <2>2
  <2>4. wk'[w].mutex = w /\ (wk'[w].waiting <=> wk[w].waiting) /\ \A v \in Workers : v # w => wk'[v] = wk[v]
    BY <1>0, <2>1 DEF SetsWorker, WorkerState
  <2>5. Mutexed(w)'
    BY <1>0, <2>1, <2>2, <2>3, <2>4 DEF Mutexed, At
  <2>6. Slept(w)'
    BY <2>3 DEF Slept, At, Asleep
  <2>7. QED BY <1>1, <2>1, <2>2, <2>3, <2>4, <2>5, <2>6
<1>7. CASE FallAsleep(w)
  <2>1. At(w, "fall_asleep") /\ UNCHANGED pool
        /\ \/ Goes(w, "recheck") /\ SetsWorker(w, [wk[w] EXCEPT !.state = "sleeping"])
           \/ Goes(w, "wake_up") /\ UNCHANGED wk
    BY <1>0, <1>7, FallAsleepEffect
  <2>2. {"fall_asleep", "recheck", "wake_up"} \subseteq Holding /\ {"fall_asleep", "recheck", "wake_up"} \cap Counted = {}
    BY DEF Holding, Counted
  <2>3. th'[w].pc \in {"recheck", "wake_up"} /\ \A u \in Threads : u # w => th'[u] = th[u]
    BY <1>4, <1>5, <2>1, <2>2
  <2>4. wk'[w].mutex = wk[w].mutex /\ (wk'[w].waiting <=> wk[w].waiting) /\ \A v \in Workers : v # w => wk'[v] = wk[v]
    BY <1>0, <2>1 DEF SetsWorker, WorkerState
  <2>5. At(w, "recheck")' => wk'[w].state = "sleeping"
    BY <1>0, <1>4, <1>5, <2>1, <2>2 DEF SetsWorker, WorkerState, At
  <2>6. Mutexed(w)'
    BY <1>0, <2>1, <2>2, <2>3, <2>4 DEF Mutexed, At
  <2>7. Slept(w)'
    BY <2>3, <2>5 DEF Slept, At, Asleep
  <2>8. QED BY <1>1, <2>1, <2>2, <2>3, <2>4, <2>6, <2>7 DEF At
<1>8. CASE Recheck(w)
  <2>1. At(w, "recheck") /\ UNCHANGED pool
        /\ \/ /\ wk[w].remote # << >> /\ SetsWorker(w, Taken(w))
              /\ Sets(w, [th[w] EXCEPT !.pc = "got_remote", !.task = Last(wk[w].remote)])
           \/ wk[w].remote = << >> /\ Goes(w, "count") /\ UNCHANGED wk
    BY <1>0, <1>8, RecheckEffect
  <2>2. {"recheck", "got_remote", "count"} \subseteq Holding /\ {"recheck", "got_remote", "count"} \cap Counted = {}
    BY DEF Holding, Counted
  <2>3. [th[w] EXCEPT !.pc = "got_remote", !.task = Last(wk[w].remote)].pc = "got_remote"
    BY <1>0 DEF ThreadState
  <2>4. th'[w].pc \in {"got_remote", "count"} /\ \A u \in Threads : u # w => th'[u] = th[u]
    BY <1>4, <1>5, <2>1, <2>2, <2>3 DEF Sets
  <2>5. wk[w].remote # << >> =>
           Taken(w).mutex = wk[w].mutex /\ Taken(w).waiting = wk[w].waiting /\ Taken(w).state = wk[w].state
    BY <1>0, TakenTasks DEF TaskInv
  <2>6. wk'[w].mutex = wk[w].mutex /\ (wk'[w].waiting <=> wk[w].waiting) /\ wk'[w].state = wk[w].state
        /\ \A v \in Workers : v # w => wk'[v] = wk[v]
    BY <2>1, <2>5 DEF SetsWorker
  <2>7. At(w, "count")' => wk'[w].remote = << >>
    BY <2>1, <2>3 DEF Sets, At
  <2>8. Mutexed(w)'
    BY <1>0, <2>1, <2>2, <2>4, <2>6 DEF Mutexed, At
  <2>9. Slept(w)'
    BY <1>0, <2>1, <2>4, <2>6, <2>7 DEF Slept, At, Asleep
  <2>10. QED BY <1>1, <2>1, <2>2, <2>4, <2>6, <2>8, <2>9 DEF At
<1>9. CASE GotRemote(w)
  <2>1. At(w, "got_remote") /\ UNCHANGED pool /\ Runs(w)
        /\ SetsWorker(w, [wk[w] EXCEPT !.state = "running", !.mutex = None])
    BY <1>0, <1>9, GotRemoteEffect
  <2>2. "got_remote" \in Holding /\ "task" \notin Holding /\ "got_remote" \notin Counted /\ "task" \notin Counted
    BY DEF Holding, Counted
  <2>3. th'[w].pc = "task" /\ \A u \in Threads : u # w => th'[u] = th[u]
    BY <1>0, <2>1, Lands DEF Runs, Sets
  <2>4. wk'[w].mutex = None /\ (wk'[w].waiting <=> wk[w].waiting) /\ \A v \in Workers : v # w => wk'[v] = wk[v]
    BY <1>0, <2>1 DEF SetsWorker, WorkerState
  <2>5. Mutexed(w)'
    BY <1>0, <2>1, <2>2, <2>3, <2>4 DEF Mutexed, At
  <2>6. Slept(w)'
    BY <2>3 DEF Slept, At, Asleep
  <2>7. QED BY <1>1, <2>1, <2>2, <2>3, <2>4, <2>5, <2>6
<1>10. CASE CheckBulk(w) \/ Wait(w)
  <2>1. th[w].pc \in {"check_bulk", "wait"} /\ UNCHANGED <<pool, wk>>
        /\ \/ Goes(w, "wait") \/ Goes(w, "uncount")
           \/ wk[w].state = "sleeping" /\ Goes(w, "block")
    BY <1>0, <1>10, Moves DEF Moving, At
  <2>2. {"check_bulk", "wait", "uncount", "block"} \subseteq Holding \cap Counted
    BY DEF Holding, Counted
  <2>3. th'[w].pc \in {"wait", "uncount", "block"} /\ (At(w, "block")' => wk[w].state = "sleeping")
        /\ \A u \in Threads : u # w => th'[u] = th[u]
    BY <1>4, <1>5, <2>1, <2>2 DEF At
  <2>4. Mutexed(w)'
    BY <1>0, <2>1, <2>2, <2>3 DEF Mutexed, At
  <2>5. th[w].pc \notin Notifying
    BY <2>1 DEF Notifying
  <2>6. Notifies(w, {"notify"}) => Notifies(w, {"notify"})'
    BY <1>2, <1>3, <2>3, <2>5
  <2>7. Slept(w)'
    BY <1>0, <2>1, <2>3, <2>6 DEF Slept, At, Asleep
  <2>8. QED BY <1>1, <2>1, <2>2, <2>3, <2>4, <2>7 DEF At
<1>11. CASE Block(w)
  <2>1. At(w, "block") /\ UNCHANGED pool /\ Goes(w, "asleep")
        /\ SetsWorker(w, [wk[w] EXCEPT !.waiting = TRUE, !.mutex = None])
    BY <1>0, <1>11, BlockEffect
  <2>2. "block" \in Holding /\ "asleep" \notin Holding /\ {"block", "asleep"} \subseteq Counted
    BY DEF Holding, Counted
  <2>3. th'[w].pc = "asleep" /\ \A u \in Threads : u # w => th'[u] = th[u]
    BY <1>4, <1>5, <2>1
  <2>4. wk'[w].mutex = None /\ wk'[w].state = wk[w].state /\ wk'[w].remote = wk[w].remote
        /\ \A v \in Workers : v # w => wk'[v] = wk[v]
    BY <1>0, <2>1 DEF SetsWorker, WorkerState
  <2>5. Mutexed(w)'
    BY <2>2, <2>3, <2>4 DEF Mutexed, At
  <2>6. th[w].pc \notin Notifying
    BY <2>1 DEF Notifying, At
  <2>7. Notifies(w, {"notify"}) => Notifies(w, {"notify"})'
    BY <1>2, <1>3, <2>3, <2>6
  <2>8. Notifies(w, {"notify_lock"}) => Notifies(w, {"notify_lock", "notify_one"})'
    BY <2>3, <2>1 DEF Notifies, At
  <2>9. Slept(w)'
    BY <1>0, <2>1, <2>3, <2>4, <2>7, <2>8 DEF Slept, At, Asleep
  <2>10. QED BY <1>1, <2>1, <2>2, <2>3, <2>4, <2>5, <2>9
<1>12. CASE Wake(w)
  <2>1. At(w, "asleep") /\ ~wk[w].waiting /\ UNCHANGED pool /\ Goes(w, "wait")
        /\ SetsWorker(w, [wk[w] EXCEPT !.mutex = w])
    BY <1>0, <1>12, WakeEffect
  <2>2. "wait" \in Holding /\ {"asleep", "wait"} \subseteq Counted
    BY DEF Holding, Counted
  <2>3. th'[w].pc = "wait" /\ \A u \in Threads : u # w => th'[u] = th[u]
    BY <1>4, <1>5, <2>1, <2>2
  <2>4. wk'[w].mutex = w /\ wk'[w].state = wk[w].state /\ wk'[w].remote = wk[w].remote /\ ~wk'[w].waiting
        /\ \A v \in Workers : v # w => wk'[v] = wk[v]
    BY <1>0, <2>1 DEF SetsWorker, WorkerState
  <2>5. Mutexed(w)'
    BY <2>2, <2>3, <2>4 DEF Mutexed, At
  <2>6. th[w].pc \notin Notifying
    BY <2>1 DEF Notifying, At
  <2>7. Notifies(w, {"notify"}) => Notifies(w, {"notify"})'
    BY <1>2, <1>3, <2>3, <2>6
  <2>8. Slept(w)'
    BY <1>0, <2>1, <2>3, <2>4, <2>7 DEF Slept, At, Asleep
  <2>9. QED BY <1>1, <2>1, <2>2, <2>3, <2>4, <2>5, <2>8
<1>13. CASE WakeUp(w)
  <2>1. At(w, "wake_up") /\ UNCHANGED pool /\ Searches(w, "rejoin")
        /\ SetsWorker(w, [wk[w] EXCEPT !.state = "running", !.mutex = None])
    BY <1>0, <1>13, WakeUpEffect
  <2>2. "wake_up" \in Holding /\ "find" \notin Holding /\ "wake_up" \notin Counted /\ "find" \notin Counted
    BY DEF Holding, Counted
  <2>3. th'[w].pc = "find" /\ \A u \in Threads : u # w => th'[u] = th[u]
    BY <1>0, <2>1, Lands DEF Searches, Sets
  <2>4. wk'[w].mutex = None /\ (wk'[w].waiting <=> wk[w].waiting) /\ \A v \in Workers : v # w => wk'[v] = wk[v]
    BY <1>0, <2>1 DEF SetsWorker, WorkerState
  <2>5. Mutexed(w)'
    BY <1>0, <2>1, <2>2, <2>3, <2>4 DEF Mutexed, At
  <2>6. Slept(w)'
    BY <2>3 DEF Slept, At, Asleep
  <2>7. QED BY <1>1, <2>1, <2>2, <2>3, <2>4, <2>5, <2>6
<1>14. QED BY <1>6, <1>7, <1>8, <1>9, <1>10, <1>11, <1>12, <1>13

LEMMA CountKeeps ==
    ASSUME IInv, NEW w \in Workers, Count(w) \/ Uncount(w)
    PROVE  SleepingInv'
<1>0. /\ Types /\ SleepingInv /\ w \in Threads /\ th[w] \in ThreadState /\ Mutexed(w) /\ Slept(w)
      /\ \A v \in Workers : v \in Threads
  BY Known DEF IInv, SleepingInv, MutexInv, SleepInv
<1>1. /\ UNCHANGED wk
      /\ \/ At(w, "count") /\ Goes(w, "check_bulk") /\ pool' = [pool EXCEPT !.sleepers = @ + 1]
         \/ At(w, "uncount") /\ Goes(w, "wake_up") /\ pool' = [pool EXCEPT !.sleepers = @ - 1]
  BY <1>0, Moves DEF Moving
<1>2. {"count", "check_bulk", "uncount", "wake_up"} \subseteq Holding \cap Somewhere /\ {"check_bulk", "uncount"} \subseteq Counted
      /\ "count" \notin Counted /\ "wake_up" \notin Counted
  BY DEF Holding, Somewhere, Counted
<1>3. /\ \/ At(w, "count") /\ th'[w].pc = "check_bulk"
         \/ At(w, "uncount") /\ th'[w].pc = "wake_up"
      /\ \A u \in Threads : u # w => th'[u] = th[u]
  BY <1>0, <1>1, <1>2, Lands DEF Goes, Sets
<1>4. MutexInv' /\ SleepInv'
  <2>1. th[w].pc \notin Notifying
    BY <1>1 DEF Notifying, At
  <2>2. Mutexed(w)'
    BY <1>0, <1>1, <1>2, <1>3 DEF Mutexed, At
  <2>3. Notifies(w, {"notify"}) => Notifies(w, {"notify"})'
    BY <1>1, <1>3 DEF Notifies, At
  <2>4. Slept(w)'
    BY <1>0, <1>1, <1>3, <2>3 DEF Slept, At, Asleep
  <2>5. QED BY <1>0, <1>1, <1>3, <2>1, <2>2, <2>4, WorkerKeeps
<1>5. IsFiniteSet(Sleepers) /\ pool.sleepers = Cardinality(Sleepers) /\ Cardinality(Sleepers) \in Nat
  <2>1. IsFiniteSet(Workers)
    BY ThreadPoolAssumption, FS_Interval DEF Workers
  <2>2. Sleepers \subseteq Workers
    BY DEF Sleepers
  <2>3. QED BY <1>0, <2>1, <2>2, FS_Subset, FS_CardinalityType DEF SleepingInv, SleepersInv
<1>6. \A v \in Workers : v # w => (th'[v].pc \in Counted <=> th[v].pc \in Counted)
  BY <1>0, <1>3
<1>7. CASE At(w, "count")
  <2>1. th'[w].pc = "check_bulk" /\ pool' = [pool EXCEPT !.sleepers = @ + 1]
    BY <1>1, <1>3, <1>7 DEF At
  <2>2. w \notin Sleepers /\ Sleepers' = Sleepers \cup {w}
    BY <1>2, <1>6, <1>7, <2>1 DEF Sleepers, At
  <2>3. Cardinality(Sleepers') = Cardinality(Sleepers) + 1
    BY <1>5, <2>2, FS_AddElement
  <2>4. pool'.sleepers = pool.sleepers + 1
    BY <1>0, <2>1 DEF Types, PoolState
  <2>5. QED BY <1>4, <1>5, <2>3, <2>4 DEF SleepingInv, SleepersInv
<1>8. CASE At(w, "uncount")
  <2>1. th'[w].pc = "wake_up" /\ pool' = [pool EXCEPT !.sleepers = @ - 1]
    BY <1>1, <1>3, <1>8 DEF At
  <2>2. w \in Sleepers /\ Sleepers' = Sleepers \ {w}
    BY <1>2, <1>6, <1>8, <2>1 DEF Sleepers, At
  <2>3. Cardinality(Sleepers') = Cardinality(Sleepers) - 1
    BY <1>5, <2>2, FS_RemoveElement
  <2>4. pool'.sleepers = pool.sleepers - 1
    BY <1>0, <2>1 DEF Types, PoolState
  <2>5. QED BY <1>4, <1>5, <2>3, <2>4 DEF SleepingInv, SleepersInv
<1>9. QED BY <1>1, <1>7, <1>8

(* A worker that is woken without a notification, or by the destructor.    *)
LEMMA WokenKeeps ==
    ASSUME IInv, NEW w \in Workers, wk' = [wk EXCEPT ![w].waiting = FALSE], UNCHANGED th,
           pool'.sleepers = pool.sleepers
    PROVE  SleepingInv'
<1>0. Types /\ SleepingInv /\ wk[w] \in WorkerState
  BY Known DEF IInv, SleepingInv
<1>1. SetsWorker(w, [wk[w] EXCEPT !.waiting = FALSE])
  BY <1>0, Woken
<1>2. \A v \in Workers : /\ wk'[v].mutex = wk[v].mutex /\ wk'[v].state = wk[v].state /\ wk'[v].remote = wk[v].remote
                         /\ wk'[v].waiting => wk[v].waiting
  BY <1>0, <1>1 DEF SetsWorker, WorkerState
<1>3. MutexInv'
  BY <1>0, <1>2 DEF SleepingInv, MutexInv, Mutexed, At
<1>4. SleepInv'
  BY <1>0, <1>2 DEF SleepingInv, SleepInv, Slept, Notifies, At, Asleep
<1>5. SleepersInv'
  BY <1>0, SleepersKept
<1>6. QED BY <1>3, <1>4, <1>5 DEF SleepingInv

LEMMA SleepingStep ==
    ASSUME IInv, [Next]_vars
    PROVE  SleepingInv'
<1>0. Types /\ SleepingInv /\ \A w \in Workers : w \in Threads
  BY Known DEF IInv, SleepingInv
<1>1. ASSUME NEW t \in Threads, Calm(t) PROVE SleepingInv'
  BY <1>0, <1>1, CalmKeeps
<1>2. UNCHANGED <<wk, th, pool>> => SleepingInv'
  BY <1>0 DEF SleepingInv, MutexInv, Mutexed, SleepInv, Slept, SleepersInv, Sleepers, Notifies, At, Asleep
<1>3. ASSUME NEW t \in Threads, Step(t) \/ \E j \in Jobs : RunBulk(t, j) PROVE SleepingInv'
  BY <1>1, <1>3, CalmCalls, NotifyKeeps, NotifyLockKeeps, NotifyOneKeeps DEF Step
<1>4. ASSUME NEW w \in Workers, WorkerStep(w) \/ \E k \in Tasks : EnqueueLocal(w, k) PROVE SleepingInv'
  <2>1. CASE Count(w) \/ Uncount(w)
    BY <2>1, CountKeeps
  <2>2. CASE \/ SleepLock(w) /\ ~pool.stopping
             \/ FallAsleep(w) \/ Recheck(w) \/ GotRemote(w) \/ CheckBulk(w) \/ Wait(w) \/ Block(w) \/ Wake(w) \/ WakeUp(w)
    BY <2>2, SleeperKeeps
  <2>3. CASE \/ Look(w) \/ Find(w) \/ FindRemote(w) \/ Steal(w) \/ FindNothing(w) \/ Rejoin(w) \/ Join(w)
             \/ \E k \in Tasks : EnqueueLocal(w, k)
             \/ SleepLock(w) /\ pool.stopping
    BY <1>0, <1>1, <2>3, CalmWork
  <2>4. QED BY <1>4, <2>1, <2>2, <2>3 DEF WorkerStep
<1>5. ASSUME NEW w \in Workers, SpuriousWakeup(w) PROVE SleepingInv'
  <2>1. pool'.sleepers = pool.sleepers
    BY <1>0, <1>5 DEF SpuriousWakeup, Types, PoolState
  <2>2. QED BY <1>5, <2>1, WokenKeeps DEF SpuriousWakeup
<1>6. ASSUME NEW c \in Clients, NEW k \in Tasks, EnqueueRemote(c, k) PROVE SleepingInv'
  BY <1>6, SubmitKeeps
<1>7. CASE StopLock
  <2>1. pool'.sleepers = pool.sleepers /\ UNCHANGED <<wk, th>>
    BY <1>0, <1>7 DEF StopLock, Types, PoolState
  <2>2. QED
    BY <1>0, <2>1 DEF SleepingInv, MutexInv, Mutexed, SleepInv, Slept, SleepersInv, Sleepers, Notifies, At, Asleep
<1>8. CASE StopNotify
  <2>1. owner.at \in Workers
    BY <1>0 DEF Types
  <2>2. QED BY <1>8, <2>1, WokenKeeps DEF StopNotify
<1>9. CASE BeginDestroy \/ JoinThreads \/ UNCHANGED vars
  BY <1>2, <1>9 DEF BeginDestroy, JoinThreads, vars
<1>10. QED BY <1>3, <1>4, <1>5, <1>6, <1>7, <1>8, <1>9 DEF Next, DestructorStep, Done

-----------------------------------------------------------------------------
(* The tasks.  A step leaves them where they are, or moves one.            *)
LEMMA TasksStay ==
    ASSUME TaskInv, UNCHANGED task, \A t \in Threads : th'[t].task = th[t].task,
           \A w \in Workers : wk'[w].local = wk[w].local /\ wk'[w].remote = wk[w].remote
    PROVE  TaskInv'
<1>1. \A w \in Workers : Stored(w)' = Stored(w) /\ (Distinct(w) => Distinct(w)')
  BY DEF Stored, Distinct
<1>2. QED BY <1>1 DEF TaskInv

LEMMA TaskQueued ==
    ASSUME Types, TaskInv, NEW k \in Tasks, NEW w \in Workers, ~task[k].given,
           task' = [task EXCEPT ![k].given = TRUE], \A t \in Threads : th'[t].task = th[t].task,
           \A v \in Workers : v # w => wk'[v] = wk[v],
           Stored(w)' = Stored(w) \cup {k}, Distinct(w)', Len(wk'[w].local) <= Capacity
    PROVE  TaskInv'
<1>1. task'[k].given /\ task'[k].ran = task[k].ran /\ \A l \in Tasks : l # k => task'[l] = task[l]
  BY DEF Types, TaskState
<1>2. task[k].ran = 0 /\ (\A t \in Threads : th[t].task # k) /\ \A v \in Workers : k \notin Stored(v)
  <2>1. task[k].ran \in 0 .. 2 /\ task[k].ran # 2 /\ task[k].ran # 1
    BY DEF TaskInv, Types, TaskState
  <2>2. QED BY <2>1 DEF TaskInv
<1>3. \A v \in Workers : v # w => Stored(v)' = Stored(v) /\ (Distinct(v) => Distinct(v)')
  BY DEF Stored, Distinct
<1>4. \A v \in Workers : Distinct(v)' /\ Len(wk'[v].local) <= Capacity
  BY <1>3 DEF TaskInv
<1>5. ASSUME NEW l \in Tasks
      PROVE  /\ task'[l].given <=> \/ task'[l].ran = 1
                                   \/ \E t \in Threads : th'[t].task = l
                                   \/ \E v \in Workers : l \in Stored(v)'
             /\ task'[l].ran # 2
             /\ \A t \in Threads : th'[t].task = l =>
                   /\ task'[l].ran = 0
                   /\ \A v \in Workers : l \notin Stored(v)'
                   /\ \A u \in Threads : th'[u].task = l => u = t
             /\ \A v \in Workers : l \in Stored(v)' =>
                   /\ task'[l].ran = 0
                   /\ \A x \in Workers : l \in Stored(x)' => x = v
  <2>1. CASE l = k
    BY <1>1, <1>2, <1>3, <2>1
  <2>2. CASE l # k
    <3>1. task'[l] = task[l] /\ \A v \in Workers : l \in Stored(v)' <=> l \in Stored(v)
      BY <1>1, <1>3, <2>2
    <3>2. QED BY <3>1 DEF TaskInv
  <2>3. QED BY <2>1, <2>2
<1>6. QED BY <1>4, <1>5 DEF TaskInv

LEMMA TaskRun ==
    ASSUME Types, TaskInv, NEW k \in Tasks, NEW w \in Workers, k \in Stored(w),
           task' = [task EXCEPT ![k].ran = Up(@)], \A t \in Threads : th'[t].task = th[t].task,
           \A v \in Workers : v # w => wk'[v] = wk[v],
           Stored(w)' = Stored(w) \ {k}, Distinct(w)', Len(wk'[w].local) <= Capacity
    PROVE  TaskInv'
<1>1. /\ task[k].given /\ task[k].ran = 0 /\ (\A t \in Threads : th[t].task # k)
      /\ \A v \in Workers : k \in Stored(v) => v = w
  BY DEF TaskInv
<1>2. /\ task'[k].ran = 1 /\ (task'[k].given <=> task[k].given) /\ \A l \in Tasks : l # k => task'[l] = task[l]
  BY <1>1 DEF Types, TaskState, Up
<1>3. \A v \in Workers : v # w => Stored(v)' = Stored(v) /\ (Distinct(v) => Distinct(v)')
  BY DEF Stored, Distinct
<1>4. \A v \in Workers : Distinct(v)' /\ Len(wk'[v].local) <= Capacity
  BY <1>3 DEF TaskInv
<1>5. ASSUME NEW l \in Tasks
      PROVE  /\ task'[l].given <=> \/ task'[l].ran = 1
                                   \/ \E t \in Threads : th'[t].task = l
                                   \/ \E v \in Workers : l \in Stored(v)'
             /\ task'[l].ran # 2
             /\ \A t \in Threads : th'[t].task = l =>
                   /\ task'[l].ran = 0
                   /\ \A v \in Workers : l \notin Stored(v)'
                   /\ \A u \in Threads : th'[u].task = l => u = t
             /\ \A v \in Workers : l \in Stored(v)' =>
                   /\ task'[l].ran = 0
                   /\ \A x \in Workers : l \in Stored(x)' => x = v
  <2>1. CASE l = k
    <3>1. \A v \in Workers : k \notin Stored(v)'
      BY <1>1, <1>3
    <3>2. QED BY <1>1, <1>2, <2>1, <3>1
  <2>2. CASE l # k
    <3>1. task'[l] = task[l] /\ \A v \in Workers : l \in Stored(v)' <=> l \in Stored(v)
      BY <1>2, <1>3, <2>2
    <3>2. QED BY <3>1 DEF TaskInv
  <2>3. QED BY <2>1, <2>2
<1>6. QED BY <1>4, <1>5 DEF TaskInv

LEMMA TaskPicked ==
    ASSUME Types, TaskInv, NEW k \in Tasks, NEW w \in Workers, k \in Stored(w), th[w].task = None, w \in Threads,
           UNCHANGED task, th'[w].task = k, \A t \in Threads : t # w => th'[t].task = th[t].task,
           \A v \in Workers : v # w => wk'[v] = wk[v],
           Stored(w)' = Stored(w) \ {k}, Distinct(w)', Len(wk'[w].local) <= Capacity
    PROVE  TaskInv'
<1>1. /\ task[k].given /\ task[k].ran = 0 /\ (\A t \in Threads : th[t].task # k)
      /\ \A v \in Workers : k \in Stored(v) => v = w
  BY DEF TaskInv
<1>2. \A v \in Workers : v # w => Stored(v)' = Stored(v) /\ (Distinct(v) => Distinct(v)')
  BY DEF Stored, Distinct
<1>3. \A v \in Workers : Distinct(v)' /\ Len(wk'[v].local) <= Capacity
  BY <1>2 DEF TaskInv
<1>4. ASSUME NEW l \in Tasks
      PROVE  /\ task[l].given <=> \/ task[l].ran = 1
                                  \/ \E t \in Threads : th'[t].task = l
                                  \/ \E v \in Workers : l \in Stored(v)'
             /\ task[l].ran # 2
             /\ \A t \in Threads : th'[t].task = l =>
                   /\ task[l].ran = 0
                   /\ \A v \in Workers : l \notin Stored(v)'
                   /\ \A u \in Threads : th'[u].task = l => u = t
             /\ \A v \in Workers : l \in Stored(v)' =>
                   /\ task[l].ran = 0
                   /\ \A x \in Workers : l \in Stored(x)' => x = v
  <2>1. CASE l = k
    <3>1. \A v \in Workers : k \notin Stored(v)'
      BY <1>1, <1>2
    <3>2. \A t \in Threads : th'[t].task = k <=> t = w
      BY <1>1
    <3>3. QED BY <1>1, <2>1, <3>1, <3>2
  <2>2. CASE l # k
    <3>1. \A v \in Workers : l \in Stored(v)' <=> l \in Stored(v)
      BY <1>2, <2>2
    <3>2. l # None
      BY ThreadPoolAssumption
    <3>3. \A t \in Threads : th'[t].task = l <=> th[t].task = l
      BY <2>2, <3>2
    <3>4. QED BY <3>1, <3>3 DEF TaskInv
  <2>3. QED BY <2>1, <2>2
<1>5. QED BY <1>3, <1>4 DEF TaskInv

LEMMA HeldRun ==
    ASSUME Types, TaskInv, NEW w \in Workers, NEW k \in Tasks, th[w].task = k, w \in Threads, th'[w].task = None,
           task' = [task EXCEPT ![k].ran = Up(@)], \A t \in Threads : t # w => th'[t].task = th[t].task,
           \A v \in Workers : wk'[v].local = wk[v].local /\ wk'[v].remote = wk[v].remote
    PROVE  TaskInv'
<1>1. /\ task[k].given /\ task[k].ran = 0 /\ (\A t \in Threads : th[t].task = k => t = w)
      /\ \A v \in Workers : k \notin Stored(v)
  BY DEF TaskInv
<1>2. /\ task'[k].ran = 1 /\ (task'[k].given <=> task[k].given) /\ \A l \in Tasks : l # k => task'[l] = task[l]
  BY <1>1 DEF Types, TaskState, Up
<1>3. \A v \in Workers : Stored(v)' = Stored(v) /\ Distinct(v)' /\ Len(wk'[v].local) <= Capacity
  BY DEF Stored, Distinct, TaskInv
<1>4. k # None
  BY ThreadPoolAssumption
<1>5. ASSUME NEW l \in Tasks
      PROVE  /\ task'[l].given <=> \/ task'[l].ran = 1
                                   \/ \E t \in Threads : th'[t].task = l
                                   \/ \E v \in Workers : l \in Stored(v)'
             /\ task'[l].ran # 2
             /\ \A t \in Threads : th'[t].task = l =>
                   /\ task'[l].ran = 0
                   /\ \A v \in Workers : l \notin Stored(v)'
                   /\ \A u \in Threads : th'[u].task = l => u = t
             /\ \A v \in Workers : l \in Stored(v)' =>
                   /\ task'[l].ran = 0
                   /\ \A x \in Workers : l \in Stored(x)' => x = v
  <2>1. CASE l = k
    <3>1. \A t \in Threads : th'[t].task # k
      BY <1>1, <1>4
    <3>2. QED BY <1>1, <1>2, <1>3, <2>1, <3>1
  <2>2. CASE l # k
    <3>1. l # None
      BY ThreadPoolAssumption
    <3>2. \A t \in Threads : th'[t].task = l <=> th[t].task = l
      BY <2>2, <3>1
    <3>3. task'[l] = task[l] /\ \A v \in Workers : l \in Stored(v)' <=> l \in Stored(v)
      BY <1>2, <1>3, <2>2
    <3>4. /\ task[l].given <=> \/ task[l].ran = 1
                               \/ \E t \in Threads : th[t].task = l
                               \/ \E v \in Workers : l \in Stored(v)
          /\ task[l].ran # 2
          /\ \A t \in Threads : th[t].task = l =>
                /\ task[l].ran = 0
                /\ \A v \in Workers : l \notin Stored(v)
                /\ \A u \in Threads : th[u].task = l => u = t
          /\ \A v \in Workers : l \in Stored(v) =>
                /\ task[l].ran = 0
                /\ \A x \in Workers : l \in Stored(x) => x = v
      BY DEF TaskInv
    <3>5. QED BY <3>2, <3>3, <3>4
  <2>3. QED BY <2>1, <2>2
<1>6. QED BY <1>3, <1>5 DEF TaskInv

LEMMA TaskStep ==
    ASSUME IInv, [Next]_vars
    PROVE  TaskInv'
<1>0. /\ Types /\ CallInv /\ TaskInv /\ ListInv /\ \A w \in Workers : w \in Threads /\ wk[w] \in WorkerState
      /\ \A t \in Threads : th[t] \in ThreadState /\ (th[t].task # None <=> At(t, "got_remote"))
      /\ \A c \in Clients : c \in Threads
      /\ \A w \in Workers : Distinct(w) /\ Len(wk[w].local) <= Capacity
      /\ \A w \in Workers : wk[w].local \in Seq(Tasks) /\ wk[w].remote \in Seq(Tasks)
  BY Known DEF IInv, CallInv, Call, TaskInv, At, WorkerState
<1>1. \A t \in Threads :
         /\ \A where : [th[t] EXCEPT !.pc = where].task = th[t].task
         /\ \A next : [th[t] EXCEPT !.pc = "find", !.search = next].task = th[t].task
         /\ [th[t] EXCEPT !.pc = th[t].back, !.target = 1, !.scanning = FALSE, !.back = "user"].task = th[t].task
  BY <1>0 DEF ThreadState
<1>2. \A t \in Threads :
         \/ \E where : Goes(t, where)
         \/ Returns(t)
         \/ \E next : Searches(t, next)
         => \A u \in Threads : th'[u].task = th[u].task
  <2>1. \A t \in Threads : \A r : Sets(t, r) /\ r.task = th[t].task => \A u \in Threads : th'[u].task = th[u].task
    BY DEF Sets
  <2>2. ASSUME NEW t \in Threads, NEW where, Goes(t, where) PROVE \A u \in Threads : th'[u].task = th[u].task
    BY <1>1, <2>1, <2>2 DEF Goes
  <2>3. ASSUME NEW t \in Threads, Returns(t) PROVE \A u \in Threads : th'[u].task = th[u].task
    BY <1>1, <2>1, <2>3 DEF Returns
  <2>4. ASSUME NEW t \in Threads, NEW next, Searches(t, next) PROVE \A u \in Threads : th'[u].task = th[u].task
    BY <1>1, <2>1, <2>4 DEF Searches
  <2>5. QED BY <2>2, <2>3, <2>4
<1>3. ASSUME NEW t \in Threads,
             WakeIdle(t) \/ Scan(t) \/ Notify(t) \/ NotifyLock(t) \/ NotifyOne(t)
      PROVE  TaskInv'
  <2>1. UNCHANGED task
    BY <1>3 DEF WakeIdle, Scan, Notify, NotifyLock, NotifyOne
  <2>2. \A u \in Threads : th'[u].task = th[u].task
    <3>1. \/ Returns(t) \/ (\E where : Goes(t, where))
          \/ Sets(t, [th[t] EXCEPT !.pc = "scan", !.scanning = TRUE])
          \/ Sets(t, [th[t] EXCEPT !.target = th[t].target + 1])
          \/ Sets(t, [th[t] EXCEPT !.pc = "scan", !.target = th[t].target + 1])
      BY <1>0, <1>3, WakeIdleEffect, ScanEffect, NotifyEffect, NotifyLockEffect, NotifyOneEffect
    <3>2. /\ [th[t] EXCEPT !.pc = "scan", !.scanning = TRUE].task = th[t].task
          /\ [th[t] EXCEPT !.target = th[t].target + 1].task = th[t].task
          /\ [th[t] EXCEPT !.pc = "scan", !.target = th[t].target + 1].task = th[t].task
      BY <1>0 DEF ThreadState
    <3>3. QED BY <1>2, <3>1, <3>2 DEF Sets
  <2>3. \A w \in Workers : wk'[w].local = wk[w].local /\ wk'[w].remote = wk[w].remote
    <3>1. CASE WakeIdle(t) \/ Scan(t) \/ NotifyLock(t)
      BY <3>1 DEF WakeIdle, Scan, NotifyLock
    <3>2. CASE Notify(t) \/ NotifyOne(t)
      <4>1. th[t].target \in Workers
            /\ \/ SetsWorker(th[t].target, [wk[th[t].target] EXCEPT !.state = "notified"])
               \/ SetsWorker(th[t].target, [wk[th[t].target] EXCEPT !.waiting = FALSE])
        BY <1>0, <3>2, NotifyEffect, NotifyOneEffect
      <4>2. QED BY ZenonT(60), <1>0, <4>1 DEF SetsWorker, WorkerState
    <3>3. QED BY <1>3, <3>1, <3>2
  <2>4. QED BY <1>0, <2>1, <2>2, <2>3, TasksStay
<1>4. ASSUME NEW t \in Threads,
             \/ Participate(t) \/ Claim(t) \/ RunChunk(t) \/ Unlist(t) \/ Drop(t)
             \/ \E j \in Jobs : RunBulk(t, j)
      PROVE  TaskInv'
  <2>1. UNCHANGED <<task, wk>>
    BY <1>4 DEF Participate, Claim, RunChunk, Unlist, Drop, RunBulk
  <2>2. \A u \in Threads : th'[u].task = th[u].task
    <3>1. CASE Participate(t)
      <4>1. \/ Sets(t, [th[t] EXCEPT !.pc = "wake", !.back = "claim"])
            \/ Sets(t, [th[t] EXCEPT !.pc = "claim", !.back = "user"])
        BY <1>0, <3>1, ParticipateEffect
      <4>2. [th[t] EXCEPT !.pc = "wake", !.back = "claim"].task = th[t].task
            /\ [th[t] EXCEPT !.pc = "claim", !.back = "user"].task = th[t].task
        BY <1>0 DEF ThreadState
      <4>3. QED BY <4>1, <4>2 DEF Sets
    <3>2. CASE Claim(t)
      <4>1. \E chunk \in Nat, where \in {"chunk", "unlist", "drop"} :
               Sets(t, [th[t] EXCEPT !.chunk = chunk, !.pc = where])
        BY <1>0, <3>2, ClaimEffect
      <4>2. \A chunk \in Nat, where \in {"chunk", "unlist", "drop"} :
               [th[t] EXCEPT !.chunk = chunk, !.pc = where].task = th[t].task
        BY <1>0 DEF ThreadState
      <4>3. QED BY <4>1, <4>2 DEF Sets
    <3>3. CASE RunChunk(t) \/ Unlist(t)
      BY <1>0, <1>2, <3>3, RunChunkEffect, UnlistEffect
    <3>4. CASE Drop(t)
      <4>1. Sets(t, [th[t] EXCEPT !.pc = th[t].home, !.job = None, !.chunk = 0, !.home = "user"])
        BY <1>0, <3>4, DropEffect
      <4>2. [th[t] EXCEPT !.pc = th[t].home, !.job = None, !.chunk = 0, !.home = "user"].task = th[t].task
        BY <1>0 DEF ThreadState
      <4>3. QED BY <4>1, <4>2 DEF Sets
    <3>5. CASE \E j \in Jobs : RunBulk(t, j)
      <4>1. UNCHANGED th \/ \E j \in Jobs : Sets(t, [th[t] EXCEPT !.pc = "participate", !.job = j, !.home = th[t].pc])
        BY <1>0, <3>5, RunBulkEffect
      <4>2. \A j \in Jobs : [th[t] EXCEPT !.pc = "participate", !.job = j, !.home = th[t].pc].task = th[t].task
        BY <1>0 DEF ThreadState
      <4>3. QED BY <4>1, <4>2 DEF Sets
    <3>6. QED BY <1>4, <3>1, <3>2, <3>3, <3>4, <3>5
  <2>3. QED BY <1>0, <2>1, <2>2, TasksStay
<1>5. ASSUME NEW w \in Workers,
             \/ Look(w) \/ FindNothing(w) \/ SleepLock(w) \/ FallAsleep(w) \/ Count(w) \/ CheckBulk(w)
             \/ Wait(w) \/ Block(w) \/ Wake(w) \/ Uncount(w) \/ WakeUp(w) \/ Rejoin(w)
      PROVE  TaskInv'
  <2>1. UNCHANGED task
    BY <1>0, <1>5, Moves DEF Moving, SleepLock, FallAsleep, Block, Wake, WakeUp
  <2>2. \A u \in Threads : th'[u].task = th[u].task
    <3>1. (\E where : Goes(w, where)) \/ (\E next : Searches(w, next))
      <4>1. CASE Look(w) \/ FindNothing(w) \/ Count(w) \/ CheckBulk(w) \/ Wait(w) \/ Uncount(w) \/ Rejoin(w)
        BY <1>0, <4>1, Moves
      <4>2. CASE SleepLock(w) \/ FallAsleep(w) \/ Block(w) \/ Wake(w) \/ WakeUp(w)
        BY <1>0, <4>2, SleepLockEffect, FallAsleepEffect, BlockEffect, WakeEffect, WakeUpEffect
      <4>3. QED BY <1>5, <4>1, <4>2
    <3>2. QED BY <1>0, <1>2, <3>1
  <2>3. \A v \in Workers : wk'[v].local = wk[v].local /\ wk'[v].remote = wk[v].remote
    <3>1. \/ UNCHANGED wk
          \/ SetsWorker(w, [wk[w] EXCEPT !.mutex = w])
          \/ SetsWorker(w, [wk[w] EXCEPT !.state = "sleeping"])
          \/ SetsWorker(w, [wk[w] EXCEPT !.waiting = TRUE, !.mutex = None])
          \/ SetsWorker(w, [wk[w] EXCEPT !.state = "running", !.mutex = None])
      BY <1>0, <1>5, Moves, SleepLockEffect, FallAsleepEffect, BlockEffect, WakeEffect, WakeUpEffect DEF Moving
    <3>2. \A q \in {[wk[w] EXCEPT !.mutex = w], [wk[w] EXCEPT !.state = "sleeping"],
                     [wk[w] EXCEPT !.waiting = TRUE, !.mutex = None],
                     [wk[w] EXCEPT !.state = "running", !.mutex = None]} :
             q.local = wk[w].local /\ q.remote = wk[w].remote
      BY <1>0 DEF WorkerState
    <3>3. QED BY <3>1, <3>2 DEF SetsWorker
  <2>4. QED BY <1>0, <2>1, <2>2, <2>3, TasksStay
<1>6. ASSUME NEW w \in Workers, Join(w) PROVE TaskInv'
  <2>1. UNCHANGED <<task, wk>>
    BY <1>6 DEF Join
  <2>2. \/ (\E where : Goes(w, where)) \/ (\E next : Searches(w, next))
        \/ \E j \in Jobs : Sets(w, [th[w] EXCEPT !.pc = "participate", !.job = j, !.home = "look"])
    BY <1>0, <1>6, JoinEffect
  <2>3. \A j \in Jobs : [th[w] EXCEPT !.pc = "participate", !.job = j, !.home = "look"].task = th[w].task
    BY <1>0 DEF ThreadState
  <2>4. \A u \in Threads : th'[u].task = th[u].task
    BY ZenonT(60), <1>0, <1>2, <2>2, <2>3 DEF Sets
  <2>5. QED BY <1>0, <2>1, <2>4, TasksStay
<1>7. ASSUME NEW w \in Workers, Runs(w), th[w].task = None PROVE \A u \in Threads : th'[u].task = th[u].task
  <2>1. [th[w] EXCEPT !.pc = "task", !.task = None, !.search = "sleep"].task = None
    BY <1>0 DEF ThreadState
  <2>2. QED BY <1>7, <2>1 DEF Runs, Sets
<1>8. \A v \in Workers : wk[v].local # << >> =>
         /\ IsInjective(Front(wk[v].local)) /\ Front(wk[v].local) \in Seq(Tasks)
         /\ Range(Front(wk[v].local)) = Range(wk[v].local) \ {Last(wk[v].local)}
         /\ Len(Front(wk[v].local)) = Len(wk[v].local) - 1 /\ Last(wk[v].local) \in Range(wk[v].local)
         /\ IsInjective(Tail(wk[v].local)) /\ Tail(wk[v].local) \in Seq(Tasks)
         /\ Range(Tail(wk[v].local)) = Range(wk[v].local) \ {Head(wk[v].local)}
         /\ Len(Tail(wk[v].local)) = Len(wk[v].local) - 1 /\ Head(wk[v].local) \in Range(wk[v].local)
  BY <1>0, TakenLast, TakenOff, FrontLast DEF Distinct
<1>9. ASSUME NEW v \in Workers, NEW k \in Tasks, NEW q, wk[v].local # << >>,
             SetsWorker(v, [wk[v] EXCEPT !.local = q]), q \in Seq(Tasks), IsInjective(q),
             Range(q) = Range(wk[v].local) \ {k}, Len(q) = Len(wk[v].local) - 1, k \in Range(wk[v].local)
      PROVE  /\ k \in Stored(v) /\ Stored(v)' = Stored(v) \ {k} /\ Distinct(v)' /\ Len(wk'[v].local) <= Capacity
             /\ \A u \in Workers : u # v => wk'[u] = wk[u]
  <2>1. wk'[v].local = q /\ wk'[v].remote = wk[v].remote
    BY <1>0, <1>9 DEF SetsWorker, WorkerState
  <2>2. k \notin Range(wk[v].remote) /\ IsInjective(wk[v].remote)
        /\ Range(wk[v].local) \cap Range(wk[v].remote) = {}
    BY <1>0, <1>9 DEF Distinct
  <2>3. Len(q) <= Capacity
    <3>1. Len(wk[v].local) \in Nat /\ Len(wk[v].local) <= Capacity /\ Capacity \in Nat
      BY <1>0, LenProperties, ThreadPoolAssumption
    <3>2. QED BY <1>9, <3>1
  <2>4. Stored(v)' = Stored(v) \ {k}
    BY <1>9, <2>1, <2>2 DEF Stored
  <2>5. Distinct(v)'
    BY <1>9, <2>1, <2>2 DEF Distinct
  <2>6. QED BY <1>9, <2>1, <2>3, <2>4, <2>5 DEF Stored, SetsWorker
<1>10. ASSUME NEW w \in Workers, Find(w) PROVE TaskInv'
  <2> DEFINE k == Last(wk[w].local)
  <2>1. /\ At(w, "find") /\ wk[w].local # << >> /\ k \in Tasks /\ Runs(w)
        /\ SetsWorker(w, [wk[w] EXCEPT !.local = Front(wk[w].local)])
        /\ task' = [task EXCEPT ![k].ran = Up(@)]
    BY <1>0, <1>10, FindEffect
  <2>2. \A u \in Threads : th'[u].task = th[u].task
    BY <1>0, <1>7, <2>1 DEF At
  <2> HIDE DEF k
  <2>3. /\ k \in Stored(w) /\ Stored(w)' = Stored(w) \ {k} /\ Distinct(w)' /\ Len(wk'[w].local) <= Capacity
        /\ \A u \in Workers : u # w => wk'[u] = wk[u]
    BY <1>8, <1>9, <2>1 DEF k
  <2>4. QED BY <1>0, <2>1, <2>2, <2>3, TaskRun
<1>11. ASSUME NEW w \in Workers, Steal(w) PROVE TaskInv'
  <2>1. At(w, "find") /\ \E v \in Workers \ {w} :
                 LET k == Head(wk[v].local)
                 IN  /\ wk[v].local # << >> /\ k \in Tasks
                     /\ SetsWorker(v, [wk[v] EXCEPT !.local = Tail(wk[v].local)])
                     /\ Runs(w) /\ task' = [task EXCEPT ![k].ran = Up(@)]
    BY <1>0, <1>11, StealEffect
  <2>2. PICK v \in Workers : /\ wk[v].local # << >> /\ Head(wk[v].local) \in Tasks
                             /\ SetsWorker(v, [wk[v] EXCEPT !.local = Tail(wk[v].local)])
                             /\ Runs(w) /\ task' = [task EXCEPT ![Head(wk[v].local)].ran = Up(@)]
    BY <2>1
  <2> DEFINE k == Head(wk[v].local)
  <2>3. \A u \in Threads : th'[u].task = th[u].task
    BY <1>0, <1>7, <2>1, <2>2 DEF At
  <2>4. k \in Tasks /\ task' = [task EXCEPT ![k].ran = Up(@)]
    BY <2>2
  <2> HIDE DEF k
  <2>5. /\ k \in Stored(v) /\ Stored(v)' = Stored(v) \ {k} /\ Distinct(v)' /\ Len(wk'[v].local) <= Capacity
        /\ \A u \in Workers : u # v => wk'[u] = wk[u]
    BY <1>8, <1>9, <2>2, <2>4 DEF k
  <2>6. QED BY <1>0, <2>3, <2>4, <2>5, TaskRun
<1>12. ASSUME NEW w \in Workers, wk[w].remote # << >>, SetsWorker(w, Taken(w))
       PROVE  LET k == Last(wk[w].remote)
              IN  /\ k \in Tasks /\ k \in Stored(w) /\ Stored(w)' = Stored(w) \ {k} /\ Distinct(w)'
                  /\ Len(wk'[w].local) <= Capacity /\ \A u \in Workers : u # w => wk'[u] = wk[u]
  BY <1>0, <1>12, TakenTasks DEF SetsWorker, Stored, Distinct
<1>13. ASSUME NEW w \in Workers, FindRemote(w) PROVE TaskInv'
  <2> DEFINE k == Last(wk[w].remote)
  <2>1. /\ At(w, "find") /\ wk[w].remote # << >> /\ Runs(w) /\ SetsWorker(w, Taken(w))
        /\ task' = [task EXCEPT ![k].ran = Up(@)]
    BY <1>0, <1>13, FindRemoteEffect
  <2>2. \A u \in Threads : th'[u].task = th[u].task
    BY <1>0, <1>7, <2>1 DEF At
  <2>3. /\ k \in Tasks /\ k \in Stored(w) /\ Stored(w)' = Stored(w) \ {k} /\ Distinct(w)'
        /\ Len(wk'[w].local) <= Capacity /\ \A u \in Workers : u # w => wk'[u] = wk[u]
    BY <1>12, <2>1
  <2> HIDE DEF k
  <2>4. QED BY <1>0, <2>1, <2>2, <2>3, TaskRun
<1>14. ASSUME NEW w \in Workers, Recheck(w) PROVE TaskInv'
  <2>1. /\ At(w, "recheck") /\ UNCHANGED task
        /\ \/ /\ wk[w].remote # << >> /\ SetsWorker(w, Taken(w))
              /\ Sets(w, [th[w] EXCEPT !.pc = "got_remote", !.task = Last(wk[w].remote)])
           \/ Goes(w, "count") /\ UNCHANGED wk
    BY <1>0, <1>14, RecheckEffect
  <2>2. CASE Goes(w, "count") /\ UNCHANGED wk
    BY <1>0, <1>2, <2>1, <2>2, TasksStay
  <2>3. CASE /\ wk[w].remote # << >> /\ SetsWorker(w, Taken(w))
             /\ Sets(w, [th[w] EXCEPT !.pc = "got_remote", !.task = Last(wk[w].remote)])
    <3> DEFINE k == Last(wk[w].remote)
    <3>1. /\ k \in Tasks /\ k \in Stored(w) /\ Stored(w)' = Stored(w) \ {k} /\ Distinct(w)'
          /\ Len(wk'[w].local) <= Capacity /\ \A u \in Workers : u # w => wk'[u] = wk[u]
      BY <1>12, <2>3
    <3>2. [th[w] EXCEPT !.pc = "got_remote", !.task = k].task = k
      BY <1>0 DEF ThreadState
    <3>3. th'[w].task = k /\ \A t \in Threads : t # w => th'[t].task = th[t].task
      BY <2>3, <3>2 DEF Sets
    <3>4. th[w].task = None
      BY <1>0, <2>1 DEF At
    <3> HIDE DEF k
    <3>5. QED BY <1>0, <2>1, <3>1, <3>3, <3>4, TaskPicked
  <2>4. QED BY <2>1, <2>2, <2>3
<1>15. ASSUME NEW w \in Workers, GotRemote(w) PROVE TaskInv'
  <2> DEFINE k == th[w].task
  <2>1. /\ k \in Tasks /\ Runs(w) /\ task' = [task EXCEPT ![k].ran = Up(@)]
        /\ SetsWorker(w, [wk[w] EXCEPT !.state = "running", !.mutex = None])
    BY <1>0, <1>15, GotRemoteEffect
  <2>2. [wk[w] EXCEPT !.state = "running", !.mutex = None].local = wk[w].local
        /\ [wk[w] EXCEPT !.state = "running", !.mutex = None].remote = wk[w].remote
        /\ [th[w] EXCEPT !.pc = "task", !.task = None, !.search = "sleep"].task = None
    BY <1>0 DEF WorkerState, ThreadState
  <2>3. \A v \in Workers : wk'[v].local = wk[v].local /\ wk'[v].remote = wk[v].remote
    BY <2>1, <2>2 DEF SetsWorker
  <2>4. th'[w].task = None /\ \A t \in Threads : t # w => th'[t].task = th[t].task
    BY <2>1, <2>2 DEF Runs, Sets
  <2>5. QED BY <1>0, <2>1, <2>3, <2>4, HeldRun
<1>16. ASSUME NEW k \in Tasks, ~task[k].given PROVE \A w \in Workers : k \notin Stored(w)
  BY <1>0, <1>16 DEF TaskInv
<1>17. ASSUME NEW k \in Tasks, ~task[k].given, NEW w \in Workers,
              SetsWorker(w, [wk[w] EXCEPT !.remote = <<k>> \o wk[w].remote])
       PROVE  /\ Stored(w)' = Stored(w) \cup {k} /\ Distinct(w)' /\ Len(wk'[w].local) <= Capacity
              /\ \A u \in Workers : u # w => wk'[u] = wk[u]
  <2> DEFINE q == <<k>> \o wk[w].remote
  <2>1. k \notin Range(wk[w].local) /\ k \notin Range(wk[w].remote)
    BY <1>16, <1>17 DEF Stored
  <2>2. Range(q) = Range(wk[w].remote) \cup {k} /\ IsInjective(q)
    BY <1>0, <2>1, Prepended DEF Distinct
  <2> HIDE DEF q
  <2>3. wk'[w].local = wk[w].local /\ wk'[w].remote = q
    <3>1. [wk[w] EXCEPT !.remote = q].local = wk[w].local /\ [wk[w] EXCEPT !.remote = q].remote = q
      BY <1>0 DEF WorkerState
    <3>2. QED BY <1>17, <3>1 DEF SetsWorker, q
  <2>4. Stored(w)' = Stored(w) \cup {k}
    BY <2>2, <2>3 DEF Stored
  <2>5. Distinct(w)'
    BY <1>0, <2>1, <2>2, <2>3 DEF Distinct
  <2>6. QED BY <1>0, <1>17, <2>3, <2>4, <2>5 DEF SetsWorker
<1>18. ASSUME NEW w \in Workers, NEW k \in Tasks, EnqueueLocal(w, k) PROVE TaskInv'
  <2>1. /\ ~task[k].given /\ task' = [task EXCEPT ![k].given = TRUE]
        /\ Sets(w, [th[w] EXCEPT !.pc = "wake", !.back = "task"])
        /\ \/ /\ Len(wk[w].local) < Capacity
              /\ SetsWorker(w, [wk[w] EXCEPT !.local = Append(wk[w].local, k)])
           \/ SetsWorker(w, [wk[w] EXCEPT !.remote = <<k>> \o wk[w].remote])
    BY <1>0, <1>18, EnqueueLocalEffect
  <2>2. \A u \in Threads : th'[u].task = th[u].task
    <3>1. [th[w] EXCEPT !.pc = "wake", !.back = "task"].task = th[w].task
      BY <1>0 DEF ThreadState
    <3>2. QED BY <2>1, <3>1 DEF Sets
  <2>3. CASE /\ Len(wk[w].local) < Capacity
             /\ SetsWorker(w, [wk[w] EXCEPT !.local = Append(wk[w].local, k)])
    <3> DEFINE q == Append(wk[w].local, k)
    <3>1. k \notin Range(wk[w].local) /\ k \notin Range(wk[w].remote)
      BY <1>16, <2>1 DEF Stored
    <3>2. Range(q) = Range(wk[w].local) \cup {k} /\ IsInjective(q) /\ Len(q) = Len(wk[w].local) + 1
      BY <1>0, <3>1, Appended DEF Distinct
    <3>3. Len(wk[w].local) + 1 <= Capacity
      BY <1>0, <2>3, LenProperties, ThreadPoolAssumption
    <3> HIDE DEF q
    <3>4. wk'[w].local = q /\ wk'[w].remote = wk[w].remote
      <4>1. [wk[w] EXCEPT !.local = q].local = q /\ [wk[w] EXCEPT !.local = q].remote = wk[w].remote
        BY <1>0 DEF WorkerState
      <4>2. QED BY <2>3, <4>1 DEF SetsWorker, q
    <3>5. Stored(w)' = Stored(w) \cup {k}
      BY <3>2, <3>4 DEF Stored
    <3>6. Distinct(w)'
      BY <1>0, <3>1, <3>2, <3>4 DEF Distinct
    <3>7. Len(wk'[w].local) <= Capacity
      BY <3>2, <3>3, <3>4
    <3>8. \A u \in Workers : u # w => wk'[u] = wk[u]
      BY <2>3 DEF SetsWorker
    <3>9. QED BY <1>0, <2>1, <2>2, <3>5, <3>6, <3>7, <3>8, TaskQueued
  <2>4. CASE SetsWorker(w, [wk[w] EXCEPT !.remote = <<k>> \o wk[w].remote])
    <3>1. /\ Stored(w)' = Stored(w) \cup {k} /\ Distinct(w)' /\ Len(wk'[w].local) <= Capacity
          /\ \A u \in Workers : u # w => wk'[u] = wk[u]
      BY <1>17, <2>1, <2>4
    <3>2. QED BY <1>0, <2>1, <2>2, <3>1, TaskQueued
  <2>5. QED BY <2>1, <2>3, <2>4
<1>19. ASSUME NEW c \in Clients, NEW k \in Tasks, EnqueueRemote(c, k) PROVE TaskInv'
  <2>1. ~task[k].given /\ task' = [task EXCEPT ![k].given = TRUE]
    BY <1>0, <1>19, EnqueueRemoteEffect
  <2>2. PICK w \in Workers :
           /\ SetsWorker(w, [wk[w] EXCEPT !.remote = <<k>> \o wk[w].remote])
           /\ Sets(c, [th[c] EXCEPT !.pc = "notify", !.target = w, !.scanning = FALSE, !.back = "user"])
    BY <1>0, <1>19, EnqueueRemoteEffect
  <2>3. \A u \in Threads : th'[u].task = th[u].task
    <3>1. [th[c] EXCEPT !.pc = "notify", !.target = w, !.scanning = FALSE, !.back = "user"].task = th[c].task
      BY <1>0 DEF ThreadState
    <3>2. QED BY <2>2, <3>1 DEF Sets
  <2>4. /\ Stored(w)' = Stored(w) \cup {k} /\ Distinct(w)' /\ Len(wk'[w].local) <= Capacity
        /\ \A u \in Workers : u # w => wk'[u] = wk[u]
    BY <1>17, <2>1, <2>2
  <2>5. QED BY <1>0, <2>1, <2>3, <2>4, TaskQueued
<1>20. ASSUME NEW w \in Workers, wk' = [wk EXCEPT ![w].waiting = FALSE], UNCHANGED <<th, task>> PROVE TaskInv'
  <2>1. SetsWorker(w, [wk[w] EXCEPT !.waiting = FALSE])
    BY <1>0, <1>20, Woken
  <2>2. [wk[w] EXCEPT !.waiting = FALSE].local = wk[w].local /\ [wk[w] EXCEPT !.waiting = FALSE].remote = wk[w].remote
    BY <1>0 DEF WorkerState
  <2>3. \A v \in Workers : wk'[v].local = wk[v].local /\ wk'[v].remote = wk[v].remote
    BY <2>1, <2>2 DEF SetsWorker
  <2>4. QED BY <1>0, <1>20, <2>3, TasksStay
<1>21. CASE (\E w \in Workers : SpuriousWakeup(w)) \/ StopNotify
  <2>1. owner.at \in Workers
    BY <1>0 DEF Types
  <2>2. QED BY <1>20, <1>21, <2>1 DEF SpuriousWakeup, StopNotify
<1>22. CASE BeginDestroy \/ StopLock \/ JoinThreads \/ UNCHANGED vars
  BY <1>0, <1>22, TasksStay DEF BeginDestroy, StopLock, JoinThreads, vars
<1>23. QED
  BY <1>3, <1>4, <1>5, <1>6, <1>10, <1>11, <1>13, <1>14, <1>15, <1>18, <1>19, <1>21, <1>22
  DEF Next, Step, WorkerStep, DestructorStep, Done

-----------------------------------------------------------------------------
(* Jobs and exits.  A tame step takes no part in either. *)
Settled == {"chunk", "unlist", "drop", "exit"}
TameThreads ==
    \A u \in Threads :
        /\ th'[u].job = th[u].job /\ th'[u].chunk = th[u].chunk
        /\ th[u].pc \in Settled \/ th'[u].pc \in Settled => th'[u].pc = th[u].pc
        /\ u \in Workers /\ th'[u].search = "exit" => pool.stopping
        /\ u \in Clients /\ owner.pc # "idle" => th'[u].pc = "user"
TameWorkers == \A w \in Workers : At(w, "exit") => wk'[w].local = wk[w].local /\ wk'[w].remote = wk[w].remote
Tame ==
    /\ UNCHANGED <<job, owner>> /\ pool'.list = pool.list /\ (pool'.stopping <=> pool.stopping)
    /\ TameThreads /\ TameWorkers

LEMMA TameKeeps ==
    ASSUME Types, ExitInv, ListInv, Tame
    PROVE  ExitInv' /\ ListInv'
<1>1. ExitInv'
  <2>1. \A w \in Workers : th'[w].pc = "exit" => th[w].pc = "exit"
    BY Known DEF Tame, TameThreads, Settled
  <2>2. \A w \in Workers : th'[w].search = "exit" => pool.stopping
    BY Known DEF Tame, TameThreads
  <2>3. \A c \in Clients : owner.pc # "idle" => th'[c].pc = "user"
    BY Known DEF Tame, TameThreads
  <2>4. \A w \in Workers : At(w, "exit") => th'[w].pc = "exit"
    BY Known DEF Tame, TameThreads, At, Settled
  <2>5. QED BY <2>1, <2>2, <2>3, <2>4 DEF ExitInv, Tame, TameWorkers, At
<1>2. ListInv'
  BY DEF ListInv, Tame, TameThreads, At, Settled
<1>3. QED BY <1>1, <1>2

(* One thread's record changes. *)
LEMMA TameSets ==
    ASSUME IInv, NEW t \in Threads, th[t].pc \notin Settled, NEW r, Sets(t, r),
           r.job = th[t].job, r.chunk = th[t].chunk, r.pc \notin Settled,
           t \in Workers /\ r.search = "exit" => pool.stopping, t \in Clients => owner.pc = "idle"
    PROVE  TameThreads
BY Known DEF IInv, ExitInv, Sets, TameThreads, At

LEMMA TameGoes ==
    ASSUME IInv, NEW t \in Threads, th[t].pc \notin Settled, t \in Clients => owner.pc = "idle"
    PROVE  /\ \A where \in Somewhere \ Settled : Goes(t, where) => TameThreads
           /\ Returns(t) => TameThreads
           /\ \A next \in {"sleep", "rejoin", "exit"} :
                 Searches(t, next) /\ (next = "exit" => pool.stopping) => TameThreads
           /\ Runs(t) => TameThreads
<1>1. th[t] \in ThreadState /\ (t \in Workers => (th[t].search = "exit" => pool.stopping))
  BY Known DEF IInv, ExitInv
<1>2. ASSUME NEW where \in Somewhere \ Settled, Goes(t, where) PROVE TameThreads
  <2> DEFINE r == [th[t] EXCEPT !.pc = where]
  <2>1. r.job = th[t].job /\ r.chunk = th[t].chunk /\ r.pc = where /\ r.search = th[t].search
    BY <1>1 DEF ThreadState
  <2>2. Sets(t, r)
    BY <1>2 DEF Goes
  <2> HIDE DEF r
  <2>3. QED BY <1>1, <2>1, <2>2, TameSets
<1>3. ASSUME Returns(t) PROVE TameThreads
  <2> DEFINE r == [th[t] EXCEPT !.pc = th[t].back, !.target = 1, !.scanning = FALSE, !.back = "user"]
  <2>1. r.job = th[t].job /\ r.chunk = th[t].chunk /\ r.pc = th[t].back /\ r.search = th[t].search
    BY <1>1 DEF ThreadState
  <2>2. Sets(t, r)
    BY <1>3 DEF Returns
  <2>3. th[t].back \notin Settled
    BY <1>1 DEF ThreadState, Settled
  <2> HIDE DEF r
  <2>4. QED BY <1>1, <2>1, <2>2, <2>3, TameSets
<1>4. ASSUME NEW next \in {"sleep", "rejoin", "exit"}, Searches(t, next), next = "exit" => pool.stopping
      PROVE  TameThreads
  <2> DEFINE r == [th[t] EXCEPT !.pc = "find", !.search = next]
  <2>1. r.job = th[t].job /\ r.chunk = th[t].chunk /\ r.pc = "find" /\ r.search = next
    BY <1>1 DEF ThreadState
  <2>2. Sets(t, r)
    BY <1>4 DEF Searches
  <2> HIDE DEF r
  <2>3. QED BY <1>1, <1>4, <2>1, <2>2, TameSets DEF Settled
<1>5. ASSUME Runs(t) PROVE TameThreads
  <2> DEFINE r == [th[t] EXCEPT !.pc = "task", !.task = None, !.search = "sleep"]
  <2>1. r.job = th[t].job /\ r.chunk = th[t].chunk /\ r.pc = "task" /\ r.search = "sleep"
    BY <1>1 DEF ThreadState
  <2>2. Sets(t, r)
    BY <1>5 DEF Runs
  <2> HIDE DEF r
  <2>3. QED BY <1>1, <2>1, <2>2, TameSets DEF Settled
<1>6. QED BY <1>2, <1>3, <1>4, <1>5

(* Steps of a call that neither claims a chunk nor drops a job.            *)
LEMMA TameCalls ==
    ASSUME IInv, NEW t \in Threads,
           WakeIdle(t) \/ Scan(t) \/ Notify(t) \/ NotifyLock(t) \/ NotifyOne(t) \/ Participate(t)
    PROVE  Tame
<1>0. Types /\ CallInv /\ ExitInv /\ th[t] \in ThreadState /\ \A w \in Workers : w \in Threads /\ wk[w] \in WorkerState
  BY Known DEF IInv
<1>1. th[t].pc \in {"wake", "scan", "notify", "notify_lock", "notify_one", "participate"}
  BY DEF WakeIdle, Scan, Notify, NotifyLock, NotifyOne, Participate, At
<1>2. t \in Clients => owner.pc = "idle"
  BY <1>0, <1>1 DEF ExitInv, At
<1>3. UNCHANGED <<job, owner, pool>>
  BY DEF WakeIdle, Scan, Notify, NotifyLock, NotifyOne, Participate
<1>4. TameThreads
  <2>1. th[t].search = "exit" /\ t \in Workers => pool.stopping
    BY <1>0 DEF ExitInv
  <2>2. {"notify", "notify_lock", "notify_one"} \subseteq Somewhere \ Settled
    BY DEF Somewhere, Calling, Notifying, Settled
  <2> DEFINE a == [th[t] EXCEPT !.pc = "scan", !.scanning = TRUE]
             b == [th[t] EXCEPT !.target = th[t].target + 1]
             c == [th[t] EXCEPT !.pc = "scan", !.target = th[t].target + 1]
             d == [th[t] EXCEPT !.pc = "wake", !.back = "claim"]
             e == [th[t] EXCEPT !.pc = "claim", !.back = "user"]
  <2>3. \A r \in {a, b, c, d, e} :
           r.job = th[t].job /\ r.chunk = th[t].chunk /\ r.search = th[t].search /\ r.pc \in {"scan", "wake", "claim", th[t].pc}
    BY <1>0 DEF ThreadState
  <2>4. \/ Returns(t)
        \/ \E where \in {"notify", "notify_lock", "notify_one"} : Goes(t, where)
        \/ \E r \in {a, b, c, d, e} : Sets(t, r)
    BY <1>0, WakeIdleEffect, ScanEffect, NotifyEffect, NotifyLockEffect, NotifyOneEffect, ParticipateEffect
  <2> HIDE DEF a, b, c, d, e
  <2>5. ASSUME NEW r \in {a, b, c, d, e}, Sets(t, r) PROVE TameThreads
    BY <1>0, <1>1, <1>2, <2>1, <2>3, <2>5, TameSets DEF Settled
  <2>6. QED BY <1>1, <1>2, <2>2, <2>4, <2>5, TameGoes DEF Settled
<1>5. TameWorkers
  <2>1. CASE UNCHANGED wk
    BY <2>1 DEF TameWorkers
  <2>2. CASE Notify(t) \/ NotifyOne(t)
    <3> DEFINE i == th[t].target
               p == [wk[i] EXCEPT !.state = "notified"]
               q == [wk[i] EXCEPT !.waiting = FALSE]
    <3>1. i \in Workers /\ (SetsWorker(i, p) \/ SetsWorker(i, q))
      BY <1>0, <2>2, NotifyEffect, NotifyOneEffect
    <3>2. p.local = wk[i].local /\ q.local = wk[i].local /\ p.remote = wk[i].remote /\ q.remote = wk[i].remote
      BY <1>0, <3>1 DEF WorkerState
    <3> HIDE DEF p, q, i
    <3>3. QED BY <3>1, <3>2 DEF SetsWorker, TameWorkers
  <2>3. QED BY <2>1, <2>2 DEF WakeIdle, Scan, NotifyLock, Participate
<1>6. QED BY <1>1, <1>3, <1>4, <1>5 DEF Tame

(* Steps of a worker that neither joins a job nor leaves. *)
LEMMA TameWork ==
    ASSUME IInv, NEW w \in Workers,
           \/ Look(w) \/ Find(w) \/ FindRemote(w) \/ Steal(w)
           \/ SleepLock(w) \/ FallAsleep(w) \/ Recheck(w) \/ GotRemote(w) \/ Count(w) \/ CheckBulk(w)
           \/ Wait(w) \/ Block(w) \/ Wake(w) \/ Uncount(w) \/ WakeUp(w) \/ Rejoin(w)
           \/ \E k \in Tasks : EnqueueLocal(w, k)
    PROVE  Tame
<1>0. /\ Types /\ CallInv /\ ExitInv /\ TaskInv /\ w \in Threads /\ th[w] \in ThreadState /\ w \notin Clients
      /\ \A v \in Workers : wk[v] \in WorkerState
  BY Known DEF IInv
<1>1. th[w].pc \notin Settled
  BY DEF Look, Find, FindRemote, Steal, SleepLock, FallAsleep, Recheck, GotRemote, Count, CheckBulk,
         Wait, Block, Wake, Uncount, WakeUp, Rejoin, EnqueueLocal, At, Settled
<1>2. UNCHANGED <<job, owner>>
  BY DEF Look, Find, FindRemote, Steal, SleepLock, FallAsleep, Recheck, GotRemote, Count, CheckBulk,
         Wait, Block, Wake, Uncount, WakeUp, Rejoin, EnqueueLocal
<1>3. pool'.list = pool.list /\ (pool'.stopping <=> pool.stopping)
  <2>1. CASE Count(w) \/ Uncount(w)
    BY <1>0, <2>1 DEF Count, Uncount, Types, PoolState
  <2>2. CASE UNCHANGED pool
    BY <2>2
  <2>3. QED BY <2>1, <2>2 DEF Look, Find, FindRemote, Steal, SleepLock, FallAsleep, Recheck, GotRemote, CheckBulk,
         Wait, Block, Wake, WakeUp, Rejoin, EnqueueLocal
<1>4. TameThreads
  <2>1. th[w].search = "exit" => pool.stopping
    BY <1>0 DEF ExitInv
  <2> DEFINE Place == {"join", "check_bulk", "wait", "uncount", "block", "wake_up", "sleep", "join_woken",
                       "fall_asleep", "recheck", "count", "asleep"}
             a == [th[w] EXCEPT !.pc = "got_remote", !.task = Last(wk[w].remote)]
             b == [th[w] EXCEPT !.pc = "wake", !.back = "task"]
  <2>2. Place \subseteq Somewhere \ Settled
    BY DEF Somewhere, Holding, Other, Settled
  <2>3. \A r \in {a, b} : r.job = th[w].job /\ r.chunk = th[w].chunk /\ r.search = th[w].search /\ r.pc \in {"got_remote", "wake"}
    BY <1>0 DEF ThreadState
  <2>4. \/ \E where \in Place : Goes(w, where)
        \/ Searches(w, "sleep") \/ Searches(w, "rejoin") \/ (Searches(w, "exit") /\ pool.stopping)
        \/ Runs(w)
        \/ \E r \in {a, b} : Sets(w, r)
    <3>1. CASE Look(w) \/ Count(w) \/ CheckBulk(w) \/ Wait(w) \/ Uncount(w) \/ Rejoin(w)
      BY <1>0, <3>1, Moves
    <3>2. CASE Find(w) \/ FindRemote(w) \/ Steal(w) \/ GotRemote(w)
      BY <1>0, <3>2, FindEffect, FindRemoteEffect, StealEffect, GotRemoteEffect
    <3>3. CASE SleepLock(w) \/ FallAsleep(w) \/ Block(w) \/ Wake(w) \/ WakeUp(w)
      BY <1>0, <3>3, SleepLockEffect, FallAsleepEffect, BlockEffect, WakeEffect, WakeUpEffect
    <3>4. CASE Recheck(w) \/ \E k \in Tasks : EnqueueLocal(w, k)
      BY <1>0, <3>4, RecheckEffect, EnqueueLocalEffect
    <3>5. QED BY <3>1, <3>2, <3>3, <3>4
  <2> HIDE DEF a, b, Place
  <2>5. ASSUME NEW r \in {a, b}, Sets(w, r) PROVE TameThreads
    BY <1>0, <1>1, <2>1, <2>3, <2>5, TameSets DEF Settled
  <2>6. QED BY <1>0, <1>1, <2>2, <2>4, <2>5, TameGoes
<1>5. TameWorkers
  <2>1. CASE ~Steal(w)
    <3>1. \A v \in Workers : v # w => wk'[v] = wk[v]
      BY <1>0, <2>1 DEF Look, Find, FindRemote, SleepLock, FallAsleep, Recheck, GotRemote, Count, CheckBulk,
         Wait, Block, Wake, Uncount, WakeUp, Rejoin, EnqueueLocal, Types
    <3>2. QED BY <1>1, <3>1 DEF TameWorkers, At, Settled
  <2>2. CASE Steal(w)
    <3>1. PICK v \in Workers : wk[v].local # << >> /\ SetsWorker(v, [wk[v] EXCEPT !.local = Tail(wk[v].local)])
      BY <1>0, <2>2, StealEffect
    <3>2. ~At(v, "exit")
      BY <1>0, <3>1 DEF ExitInv
    <3>3. QED BY <3>1, <3>2 DEF SetsWorker, TameWorkers
  <2>3. QED BY <2>1, <2>2
<1>6. QED BY <1>1, <1>2, <1>3, <1>4, <1>5 DEF Tame

LEMMA TameRest ==
    ASSUME IInv,
           \/ \E c \in Clients, k \in Tasks : EnqueueRemote(c, k)
           \/ \E w \in Workers : SpuriousWakeup(w)
           \/ UNCHANGED vars
    PROVE  Tame
<1>0. /\ Types /\ CallInv /\ ExitInv /\ TaskInv /\ \A w \in Workers : w \in Threads /\ wk[w] \in WorkerState
      /\ \A c \in Clients : c \in Threads /\ c \notin Workers /\ th[c] \in ThreadState
  BY Known DEF IInv
<1>1. ASSUME UNCHANGED th PROVE TameThreads
  BY <1>0, <1>1 DEF TameThreads, ExitInv, At
<1>2. CASE \E c \in Clients, k \in Tasks : EnqueueRemote(c, k)
  <2>1. PICK c \in Clients, k \in Tasks : EnqueueRemote(c, k)
    BY <1>2
  <2>2. /\ At(c, "user") /\ owner.pc = "idle" /\ UNCHANGED <<pool, job, owner>>
        /\ \E w \in Workers : Sets(c, [th[c] EXCEPT !.pc = "notify", !.target = w, !.scanning = FALSE, !.back = "user"])
    BY <1>0, <2>1, EnqueueRemoteEffect
  <2>3. PICK w \in Workers : Sets(c, [th[c] EXCEPT !.pc = "notify", !.target = w, !.scanning = FALSE, !.back = "user"])
    BY <2>2
  <2> DEFINE r == [th[c] EXCEPT !.pc = "notify", !.target = w, !.scanning = FALSE, !.back = "user"]
  <2>4. r.job = th[c].job /\ r.chunk = th[c].chunk /\ r.pc = "notify"
    BY <1>0 DEF ThreadState
  <2>5. Sets(c, r)
    BY <2>3
  <2> HIDE DEF r
  <2>6. TameThreads
    BY <1>0, <2>2, <2>4, <2>5, TameSets DEF At, Settled
  <2>7. TameWorkers
    BY <1>0, <2>2 DEF ExitInv, TameWorkers
  <2>8. QED BY <2>2, <2>6, <2>7 DEF Tame
<1>3. CASE \E w \in Workers : SpuriousWakeup(w)
  <2>1. PICK w \in Workers : SpuriousWakeup(w)
    BY <1>3
  <2>2. pool'.list = pool.list /\ (pool'.stopping <=> pool.stopping) /\ UNCHANGED <<job, owner, th>>
    BY <1>0, <2>1 DEF SpuriousWakeup, Types, PoolState
  <2>3. At(w, "asleep") /\ SetsWorker(w, [wk[w] EXCEPT !.waiting = FALSE])
    BY <1>0, <2>1, Woken DEF SpuriousWakeup
  <2>4. TameWorkers
    BY <2>3 DEF TameWorkers, SetsWorker, At
  <2>5. QED BY <1>1, <2>2, <2>4 DEF Tame
<1>4. CASE UNCHANGED vars
  BY <1>1, <1>4 DEF vars, Tame, TameWorkers
<1>5. QED BY <1>2, <1>3, <1>4

(* The steps that are not tame: first the exits. *)
LEMMA ExitKept ==
    ASSUME IInv, NEW t \in Threads, UNCHANGED <<wk, owner>>, pool'.stopping <=> pool.stopping,
           th[t].pc # "exit", \A u \in Threads : u # t => th'[u] = th[u],
           th'[t].pc = "exit" => /\ t \in Workers /\ th[t].search = "exit"
                                 /\ wk[t].local = << >> /\ wk[t].remote = << >>,
           t \in Workers /\ th'[t].search = "exit" => pool.stopping,
           t \in Clients => owner.pc = "idle"
    PROVE  ExitInv'
<1>0. Types /\ ExitInv /\ \A w \in Workers : w \in Threads
  BY Known DEF IInv
<1>1. \A c \in Clients : c \in Threads
  BY Known DEF IInv
<1>2. \A w \in Workers : th'[w].search = "exit" => pool.stopping
  BY <1>0 DEF ExitInv
<1>3. \A w \in Workers : th'[w].pc = "exit" => pool.stopping /\ wk[w].local = << >> /\ wk[w].remote = << >>
  BY <1>0 DEF ExitInv, At
<1>4. \A w \in Workers : th[w].pc = "exit" => th'[w].pc = "exit"
  BY <1>0
<1>5. owner.pc # "idle" => \A c \in Clients : th'[c].pc = "user"
  BY <1>0, <1>1 DEF ExitInv, At
<1>6. QED BY <1>0, <1>2, <1>3, <1>4, <1>5 DEF ExitInv, At

LEMMA ExitStep ==
    ASSUME IInv, [Next]_vars
    PROVE  ExitInv'
<1>0. /\ Types /\ CallInv /\ ExitInv /\ ListInv /\ TaskInv
      /\ \A w \in Workers : w \in Threads /\ wk[w] \in WorkerState
      /\ \A t \in Threads : th[t] \in ThreadState /\ (t \in Workers => (th[t].search = "exit" => pool.stopping))
      /\ \A c \in Clients : c \in Threads /\ c \notin Workers
  BY Known DEF IInv, ExitInv
<1>1. ASSUME Tame PROVE ExitInv'
  BY <1>0, <1>1, TameKeeps
<1>2. ASSUME NEW t \in Threads, NEW r, Sets(t, r), UNCHANGED <<wk, owner>>, pool'.stopping <=> pool.stopping,
             th[t].pc # "exit", r.pc # "exit", r.search = th[t].search, t \in Clients => owner.pc = "idle"
      PROVE  ExitInv'
  <2>1. th'[t] = r /\ \A u \in Threads : u # t => th'[u] = th[u]
    BY <1>2 DEF Sets
  <2>2. QED BY <1>0, <1>2, <2>1, ExitKept
<1>3. ASSUME NEW t \in Threads, Claim(t) \/ RunChunk(t) \/ Unlist(t) \/ Drop(t) PROVE ExitInv'
  <2> DEFINE a(where) == [th[t] EXCEPT !.pc = where]
             b(chunk, where) == [th[t] EXCEPT !.chunk = chunk, !.pc = where]
             c == [th[t] EXCEPT !.pc = th[t].home, !.job = None, !.chunk = 0, !.home = "user"]
  <2>1. th[t].pc \in {"claim", "chunk", "unlist", "drop"} /\ UNCHANGED <<wk, owner>>
    BY <1>3 DEF Claim, RunChunk, Unlist, Drop, At
  <2>2. pool'.stopping <=> pool.stopping
    BY <1>0, <1>3, UnlistEffect DEF Claim, RunChunk, Drop
  <2>3. t \in Clients => owner.pc = "idle"
    BY <1>0, <2>1 DEF ExitInv, At
  <2>4. /\ \A where \in {"claim", "drop"} : a(where).pc = where /\ a(where).search = th[t].search
        /\ \A chunk \in Nat, where \in {"chunk", "unlist", "drop"} :
              b(chunk, where).pc = where /\ b(chunk, where).search = th[t].search
        /\ c.pc = th[t].home /\ c.search = th[t].search /\ th[t].home # "exit"
    BY <1>0 DEF ThreadState
  <2>5. \/ \E where \in {"claim", "drop"} : Sets(t, a(where))
        \/ \E chunk \in Nat, where \in {"chunk", "unlist", "drop"} : Sets(t, b(chunk, where))
        \/ Sets(t, c)
    BY <1>0, <1>3, ClaimEffect, RunChunkEffect, UnlistEffect, DropEffect DEF Goes
  <2> HIDE DEF a, b, c
  <2>6. PICK r : Sets(t, r) /\ r.pc # "exit" /\ r.search = th[t].search
    BY <2>4, <2>5
  <2>7. QED BY <1>2, <2>1, <2>2, <2>3, <2>6
<1>4. ASSUME NEW t \in Threads, NEW j \in Jobs, RunBulk(t, j) PROVE ExitInv'
  <2> DEFINE r == [th[t] EXCEPT !.pc = "participate", !.job = j, !.home = th[t].pc]
  <2>1. At(t, "task") \/ (At(t, "user") /\ owner.pc = "idle")
    BY <1>4 DEF RunBulk
  <2>2. UNCHANGED <<wk, owner>>
    BY <1>4 DEF RunBulk
  <2>3. pool'.stopping <=> pool.stopping
    BY <1>0, <1>4 DEF RunBulk, Types, PoolState
  <2>4. t \in Clients => owner.pc = "idle"
    BY <1>0, <2>1 DEF ExitInv, At
  <2>5. r.pc = "participate" /\ r.search = th[t].search
    BY <1>0 DEF ThreadState
  <2>6. UNCHANGED th \/ Sets(t, r)
    BY <1>0, <1>4, RunBulkEffect
  <2> HIDE DEF r
  <2>7. UNCHANGED th => ExitInv'
    BY <1>0, <2>2, <2>3 DEF ExitInv, At
  <2>8. QED BY <1>2, <2>1, <2>2, <2>3, <2>4, <2>5, <2>6, <2>7 DEF At
<1>5. ASSUME NEW w \in Workers, Join(w) PROVE ExitInv'
  <2>1. /\ th[w].pc \in {"join", "join_woken"} /\ UNCHANGED <<wk, pool, owner>>
        /\ \/ \E j \in Jobs : Sets(w, [th[w] EXCEPT !.pc = "participate", !.job = j, !.home = "look"])
           \/ Searches(w, "sleep") \/ Goes(w, "sleep")
    BY <1>0, <1>5, JoinEffect
  <2>2. /\ \A j \in Jobs : /\ [th[w] EXCEPT !.pc = "participate", !.job = j, !.home = "look"].pc = "participate"
                           /\ [th[w] EXCEPT !.pc = "participate", !.job = j, !.home = "look"].search = th[w].search
        /\ [th[w] EXCEPT !.pc = "sleep"].pc = "sleep" /\ [th[w] EXCEPT !.pc = "sleep"].search = th[w].search
        /\ [th[w] EXCEPT !.pc = "find", !.search = "sleep"].pc = "find"
        /\ [th[w] EXCEPT !.pc = "find", !.search = "sleep"].search = "sleep"
    BY <1>0 DEF ThreadState
  <2>3. /\ \A u \in Threads : u # w => th'[u] = th[u]
        /\ th'[w].pc # "exit" /\ (th'[w].search = th[w].search \/ th'[w].search = "sleep")
    BY <1>0, <2>1, <2>2 DEF Sets, Goes, Searches
  <2>4. QED BY <1>0, <2>1, <2>3, ExitKept
<1>6. ASSUME NEW w \in Workers, FindNothing(w) PROVE ExitInv'
  <2>1. /\ At(w, "find") /\ wk[w].local = << >> /\ wk[w].remote = << >> /\ UNCHANGED <<wk, pool, owner>>
        /\ Goes(w, th[w].search)
    BY <1>0, <1>6, Moves DEF Moving
  <2>2. [th[w] EXCEPT !.pc = th[w].search].pc = th[w].search /\ [th[w] EXCEPT !.pc = th[w].search].search = th[w].search
    BY <1>0 DEF ThreadState
  <2>3. /\ \A u \in Threads : u # w => th'[u] = th[u]
        /\ th'[w].pc = th[w].search /\ th'[w].search = th[w].search
    BY <2>1, <2>2 DEF Sets, Goes
  <2>4. QED BY <1>0, <2>1, <2>3, ExitKept DEF At
<1>7. ASSUME BeginDestroy \/ StopLock \/ StopNotify \/ JoinThreads PROVE ExitInv'
  <2>1. CASE BeginDestroy
    BY <1>0, <2>1 DEF BeginDestroy, ExitInv, Types, At
  <2>2. CASE StopLock
    <3>1. owner.pc = "stop" /\ owner'.pc = "stop_notify" /\ pool'.stopping /\ UNCHANGED <<wk, th>>
      BY <1>0, <2>2 DEF StopLock, Types, PoolState
    <3>2. QED BY <1>0, <3>1 DEF ExitInv, At
  <2>3. CASE StopNotify
    <3>1. owner.pc = "stop_notify" /\ owner'.pc \in {"stop", "join"} /\ UNCHANGED <<pool, th>> /\ owner.at \in Workers
      BY <1>0, <2>3 DEF StopNotify, Types
    <3>2. SetsWorker(owner.at, [wk[owner.at] EXCEPT !.waiting = FALSE])
      BY <1>0, <2>3, <3>1, Woken DEF StopNotify
    <3>3. [wk[owner.at] EXCEPT !.waiting = FALSE].local = wk[owner.at].local
          /\ [wk[owner.at] EXCEPT !.waiting = FALSE].remote = wk[owner.at].remote
      BY <1>0, <3>1 DEF WorkerState
    <3>4. \A w \in Workers : wk'[w].local = wk[w].local /\ wk'[w].remote = wk[w].remote
      BY <3>2, <3>3 DEF SetsWorker
    <3>5. QED BY <1>0, <3>1, <3>4 DEF ExitInv, At
  <2>4. CASE JoinThreads
    <3>1. owner.pc = "join" /\ owner'.pc = "destroyed" /\ UNCHANGED <<wk, pool, th>> /\ \A w \in Workers : At(w, "exit")
      BY <1>0, <2>4 DEF JoinThreads, Types
    <3>2. QED BY <1>0, <3>1 DEF ExitInv, At
  <2>5. QED BY <1>7, <2>1, <2>2, <2>3, <2>4
<1>8. QED
  BY <1>1, <1>3, <1>4, <1>5, <1>6, <1>7, TameCalls, TameWork, TameRest DEF Next, Step, WorkerStep, DestructorStep, Done

LEMMA ChunkCountType == ChunkCount \in Nat
<1>1. N \in Nat /\ Size \in Nat /\ ChunksPerWorker \in Nat
  BY ThreadPoolAssumption
<1>2. N * ChunksPerWorker \in Nat
  BY <1>1
<1>3. QED BY <1>1, <1>2 DEF ChunkCount

LEMMA ListStep ==
    ASSUME IInv, [Next]_vars
    PROVE  ListInv'
<1>0. /\ Types /\ CallInv /\ ExitInv /\ ListInv /\ IsInjective(pool.list) /\ pool.list \in Seq(Jobs)
      /\ \A j \in Jobs : job[j] \in JobState
      /\ \A w \in Workers : w \in Threads
      /\ \A t \in Threads : th[t] \in ThreadState /\ (th[t].job # None => th[t].job \in Jobs)
      /\ ChunkCount \in Nat /\ None \notin Jobs
  BY Known, ChunkCountType DEF IInv, ListInv, Types, PoolState, ThreadState
<1>1. ASSUME Tame PROVE ListInv'
  BY <1>0, <1>1, TameKeeps
<1>2. ASSUME UNCHANGED job, pool'.list = pool.list,
             \A t \in Threads : th'[t].job = th[t].job /\ (th'[t].pc = "unlist" => th[t].pc = "unlist")
      PROVE  ListInv'
  BY <1>0, <1>2 DEF ListInv, At
<1>3. ASSUME NEW t \in Threads, Claim(t) PROVE ListInv'
  <2> DEFINE j == th[t].job
             chunk == job[j].next
             q == [job[j] EXCEPT !.next = chunk + 1]
             r(where) == [th[t] EXCEPT !.chunk = chunk, !.pc = where]
  <2>1. /\ At(t, "claim") /\ UNCHANGED pool /\ j \in Jobs /\ chunk \in Nat /\ SetsJob(j, q)
        /\ \E where \in {"chunk", "unlist", "drop"} :
              /\ where = (CASE chunk < ChunkCount -> "chunk" [] chunk = ChunkCount -> "unlist" [] OTHER -> "drop")
              /\ Sets(t, r(where))
    BY <1>0, <1>3, ClaimEffect
  <2>2. q.next = chunk + 1 /\ q.life = job[j].life
    BY <1>0, <2>1 DEF JobState
  <2>3. \A where : r(where).job = j /\ r(where).pc = where
    BY <1>0 DEF ThreadState
  <2>4. job'[j].next = chunk + 1 /\ job'[j].life = job[j].life /\ \A i \in Jobs : i # j => job'[i] = job[i]
    BY <2>1, <2>2 DEF SetsJob
  <2>5. /\ th'[t].job = j /\ (th'[t].pc = "unlist" => chunk = ChunkCount)
        /\ \A u \in Threads : u # t => th'[u] = th[u]
    BY <1>0, <2>1, <2>3 DEF Sets
  <2>6. j # None
    BY <1>0, <2>1
  <2> HIDE DEF j, chunk, q, r
  <2>7. job[j].next = chunk /\ th[t].job = j
    BY DEF chunk, j
  <2>8. /\ job[j].life # "new" /\ (chunk <= ChunkCount => j \in Range(pool.list))
        /\ \A u \in Threads : At(u, "unlist") /\ th[u].job = j => chunk > ChunkCount /\ j \in Range(pool.list)
    BY <1>0, <2>6, <2>7 DEF ListInv
  <2>9. IsInjective(pool'.list) /\ \A i \in Range(pool'.list) : job'[i].life # "new"
    BY <1>0, <2>1, <2>4, RangeOfSeq DEF ListInv
  <2>10. ASSUME NEW u \in Threads, th'[u].job # None
         PROVE  /\ job'[th'[u].job].life # "new"
                /\ job'[th'[u].job].next <= ChunkCount => th'[u].job \in Range(pool'.list)
                /\ th'[u].pc = "unlist" =>
                      /\ th'[u].job \in Range(pool'.list) /\ job'[th'[u].job].next > ChunkCount
                      /\ \A v \in Threads : th'[v].pc = "unlist" /\ th'[v].job = th'[u].job => v = u
    <3>1. th'[u].job = th[u].job /\ th[u].job \in Jobs
      BY <1>0, <2>5, <2>7, <2>10
    <3>2. CASE th[u].job = j
      <4>1. job'[j].life # "new" /\ (job'[j].next <= ChunkCount => j \in Range(pool'.list))
        BY <1>0, <2>1, <2>4, <2>8
      <4>2. ASSUME NEW v \in Threads, th'[v].pc = "unlist", th'[v].job = j
            PROVE  \/ v = t /\ chunk = ChunkCount
                   \/ v # t /\ chunk > ChunkCount /\ j \in Range(pool.list)
        BY <2>5, <2>7, <2>8, <4>2 DEF At
      <4>3. th'[u].pc = "unlist" => j \in Range(pool'.list) /\ chunk + 1 > ChunkCount
        BY <1>0, <2>1, <2>8, <3>1, <3>2, <4>2
      <4>4. ASSUME NEW v \in Threads, th'[v].pc = "unlist", th'[v].job = j, th'[u].pc = "unlist" PROVE v = u
        <5>1. CASE chunk = ChunkCount
          BY <1>0, <3>1, <3>2, <4>2, <4>4, <5>1
        <5>2. CASE chunk # ChunkCount
          <6>1. u # t /\ v # t /\ th'[u] = th[u] /\ th'[v] = th[v]
            BY <2>5, <3>1, <3>2, <4>4, <5>2
          <6>2. QED BY <1>0, <2>6, <3>1, <3>2, <4>4, <6>1 DEF ListInv, At
        <5>3. QED BY <5>1, <5>2
      <4>5. QED BY <2>4, <3>1, <3>2, <4>1, <4>3, <4>4
    <3>3. CASE th[u].job # j
      <4>1. u # t /\ job'[th[u].job] = job[th[u].job] /\ th'[u] = th[u]
        BY <2>4, <2>5, <2>7, <3>1, <3>3
      <4>2. \A v \in Threads : th'[v].job = th[u].job => v # t /\ th'[v] = th[v]
        BY <2>5, <3>3
      <4>3. QED BY <1>0, <2>1, <2>10, <4>1, <4>2 DEF ListInv, At
    <3>4. QED BY <3>2, <3>3
  <2>11. QED BY <2>9, <2>10 DEF ListInv, At
<1>4. ASSUME NEW t \in Threads, RunChunk(t) PROVE ListInv'
  <2> DEFINE j == th[t].job
             ran == [i \in Indices |-> IF i \in ChunkOf(th[t].chunk) THEN Up(job[j].ran[i]) ELSE job[j].ran[i]]
             q == [job[j] EXCEPT !.ran = ran]
  <2>1. UNCHANGED pool /\ j \in Jobs /\ Goes(t, "claim") /\ SetsJob(j, q)
    BY <1>0, <1>4, RunChunkEffect
  <2> HIDE DEF ran
  <2>2. q.next = job[j].next /\ q.life = job[j].life
    BY <1>0, <2>1 DEF JobState
  <2>3. [th[t] EXCEPT !.pc = "claim"].job = j /\ [th[t] EXCEPT !.pc = "claim"].pc = "claim"
    BY <1>0 DEF ThreadState
  <2> HIDE DEF q
  <2>4. \A i \in Jobs : job'[i].next = job[i].next /\ job'[i].life = job[i].life
    BY <2>1, <2>2 DEF SetsJob
  <2>5. \A u \in Threads : th'[u].job = th[u].job /\ (th'[u].pc = "unlist" => th[u].pc = "unlist")
    BY <2>1, <2>3 DEF Goes, Sets
  <2>6. \A i \in Range(pool.list) : i \in Jobs
    BY <1>0, RangeOfSeq
  <2>7. QED BY <1>0, <2>1, <2>4, <2>5, <2>6 DEF ListInv, At
<1>5. ASSUME NEW t \in Threads, Unlist(t) PROVE ListInv'
  <2> DEFINE j == th[t].job
  <2>1. /\ At(t, "unlist") /\ UNCHANGED job /\ j \in Jobs /\ Goes(t, "drop")
        /\ IsInjective(pool'.list) /\ Range(pool'.list) = Range(pool.list) \ {j}
    BY <1>0, <1>5, UnlistEffect
  <2>2. [th[t] EXCEPT !.pc = "drop"].job = j /\ [th[t] EXCEPT !.pc = "drop"].pc = "drop"
    BY <1>0 DEF ThreadState
  <2>3. th'[t].pc = "drop" /\ th'[t].job = j /\ \A u \in Threads : u # t => th'[u] = th[u]
    BY <2>1, <2>2 DEF Goes, Sets
  <2> HIDE DEF j
  <2>4. th[t].job = j /\ j # None
    BY <1>0, <2>1 DEF j
  <2>5. job[j].next > ChunkCount /\ \A u \in Threads : At(u, "unlist") /\ th[u].job = j => u = t
    BY <1>0, <2>1, <2>4 DEF ListInv
  <2>6. job[j].next \in Nat
    BY <1>0, <2>1 DEF JobState
  <2>7. ASSUME NEW u \in Threads, th'[u].job # None
        PROVE  /\ job'[th'[u].job].life # "new"
               /\ job'[th'[u].job].next <= ChunkCount => th'[u].job \in Range(pool'.list)
               /\ th'[u].pc = "unlist" =>
                     /\ th'[u].job \in Range(pool'.list) /\ job'[th'[u].job].next > ChunkCount
                     /\ \A v \in Threads : th'[v].pc = "unlist" /\ th'[v].job = th'[u].job => v = u
    <3>1. th'[u].job = th[u].job /\ (th'[u].pc = "unlist" => u # t /\ th[u].pc = "unlist")
      BY <2>3, <2>4
    <3>2. CASE th[u].job = j
      BY <1>0, <2>1, <2>4, <2>5, <2>6, <2>7, <3>1, <3>2 DEF ListInv, At
    <3>3. CASE th[u].job # j
      <4>1. \A v \in Threads : th'[v].pc = "unlist" /\ th'[v].job = th[u].job => th[v].pc = "unlist" /\ th[v].job = th[u].job
        BY <2>3
      <4>2. QED BY <1>0, <2>1, <2>7, <3>1, <3>3, <4>1 DEF ListInv, At
    <3>4. QED BY <3>2, <3>3
  <2>8. \A i \in Range(pool'.list) : job'[i].life # "new"
    BY <1>0, <2>1 DEF ListInv
  <2>9. QED BY <2>1, <2>7, <2>8 DEF ListInv, At
<1>6. ASSUME NEW t \in Threads, Drop(t) PROVE ListInv'
  <2> DEFINE j == th[t].job
             life == IF job[j].refs = Dropped(t) THEN "done" ELSE job[j].life
             refs == job[j].refs - Dropped(t)
             q == [job[j] EXCEPT !.refs = refs, !.life = life]
             r == [th[t] EXCEPT !.pc = th[t].home, !.job = None, !.chunk = 0, !.home = "user"]
  <2>1. UNCHANGED pool /\ j \in Jobs /\ SetsJob(j, q) /\ Sets(t, r)
    BY <1>0, <1>6, DropEffect
  <2>2. life # "new" \/ life = job[j].life
    OBVIOUS
  <2> HIDE DEF life, refs
  <2>3. q.next = job[j].next /\ q.life = life /\ r.job = None
    BY <1>0, <2>1 DEF JobState, ThreadState
  <2> HIDE DEF q, r
  <2>4. \A i \in Jobs : job'[i].next = job[i].next /\ (job'[i].life = "new" => job[i].life = "new")
    BY <2>1, <2>2, <2>3 DEF SetsJob
  <2>5. \A u \in Threads : th'[u].job # None => u # t /\ th'[u] = th[u]
    BY <2>1, <2>3 DEF Sets
  <2>6. \A i \in Range(pool.list) : i \in Jobs
    BY <1>0, RangeOfSeq
  <2>7. QED BY <1>0, <2>1, <2>4, <2>5, <2>6 DEF ListInv, At
<1>7. ASSUME NEW t \in Threads, NEW j \in Jobs, RunBulk(t, j) PROVE ListInv'
  <2> DEFINE p == [job[j] EXCEPT !.life = "done", !.ran = [i \in Indices |-> 1]]
             q == [job[j] EXCEPT !.life = "live", !.refs = 2, !.by = t]
             r == [th[t] EXCEPT !.pc = "participate", !.job = j, !.home = th[t].pc]
  <2>1. /\ job[j].life = "new"
        /\ \/ SetsJob(j, p) /\ UNCHANGED <<pool, th>>
           \/ SetsJob(j, q) /\ pool' = [pool EXCEPT !.list = Append(pool.list, j)] /\ Sets(t, r)
    BY <1>0, <1>7, RunBulkEffect
  <2>2. p.next = job[j].next /\ p.life = "done" /\ q.next = job[j].next /\ q.life = "live"
    BY <1>0 DEF JobState
  <2>3. r.job = j /\ r.pc = "participate"
    BY <1>0 DEF ThreadState
  <2> HIDE DEF p, q, r
  <2>4. \A i \in Jobs : job'[i].next = job[i].next /\ (job'[i].life = "new" => job[i].life = "new")
    BY <2>1, <2>2 DEF SetsJob
  <2>5. \A i \in Range(pool.list) : i \in Jobs
    BY <1>0, RangeOfSeq
  <2>6. CASE UNCHANGED <<pool, th>>
    BY <1>0, <2>4, <2>5, <2>6 DEF ListInv, At
  <2>7. CASE SetsJob(j, q) /\ pool' = [pool EXCEPT !.list = Append(pool.list, j)] /\ Sets(t, r)
    <3>1. pool'.list = Append(pool.list, j)
      BY <1>0, <2>7 DEF Types, PoolState
    <3>2. j \notin Range(pool.list)
      BY <1>0, <2>1 DEF ListInv
    <3>3. IsInjective(pool'.list) /\ Range(pool'.list) = Range(pool.list) \cup {j}
      BY <1>0, <3>1, <3>2, Appended
    <3>4. job'[j].life = "live"
      BY <2>2, <2>7 DEF SetsJob
    <3>5. \A u \in Threads : u # t => th'[u] = th[u] /\ th[u].job # j
      BY <1>0, <2>1, <2>7 DEF Sets, ListInv
    <3>6. th'[t].job = j /\ th'[t].pc = "participate"
      BY <2>3, <2>7 DEF Sets
    <3>7. QED BY <1>0, <2>4, <2>5, <3>3, <3>4, <3>5, <3>6 DEF ListInv, At
  <2>8. QED BY <2>1, <2>6, <2>7
<1>8. ASSUME NEW w \in Workers, Join(w) PROVE ListInv'
  <2>1. /\ UNCHANGED pool
        /\ \/ \E j \in Joinable :
                 /\ j \in Jobs /\ SetsJob(j, [job[j] EXCEPT !.refs = job[j].refs + 1])
                 /\ Sets(w, [th[w] EXCEPT !.pc = "participate", !.job = j, !.home = "look"])
           \/ UNCHANGED job /\ (Searches(w, "sleep") \/ Goes(w, "sleep"))
    BY <1>0, <1>8, JoinEffect
  <2>2. /\ \A j \in Jobs : /\ [th[w] EXCEPT !.pc = "participate", !.job = j, !.home = "look"].job = j
                           /\ [th[w] EXCEPT !.pc = "participate", !.job = j, !.home = "look"].pc = "participate"
        /\ [th[w] EXCEPT !.pc = "sleep"].job = th[w].job /\ [th[w] EXCEPT !.pc = "sleep"].pc = "sleep"
        /\ [th[w] EXCEPT !.pc = "find", !.search = "sleep"].job = th[w].job
        /\ [th[w] EXCEPT !.pc = "find", !.search = "sleep"].pc = "find"
    BY <1>0 DEF ThreadState
  <2>3. CASE UNCHANGED job /\ (Searches(w, "sleep") \/ Goes(w, "sleep"))
    BY <1>2, <2>1, <2>2, <2>3 DEF Searches, Goes, Sets
  <2>4. CASE \E j \in Joinable :
                 /\ j \in Jobs /\ SetsJob(j, [job[j] EXCEPT !.refs = job[j].refs + 1])
                 /\ Sets(w, [th[w] EXCEPT !.pc = "participate", !.job = j, !.home = "look"])
    <3>1. PICK j \in Joinable :
                 /\ j \in Jobs /\ SetsJob(j, [job[j] EXCEPT !.refs = job[j].refs + 1])
                 /\ Sets(w, [th[w] EXCEPT !.pc = "participate", !.job = j, !.home = "look"])
      BY <2>4
    <3>2. [job[j] EXCEPT !.refs = job[j].refs + 1].next = job[j].next
          /\ [job[j] EXCEPT !.refs = job[j].refs + 1].life = job[j].life
      BY <1>0, <3>1 DEF JobState
    <3>3. \A i \in Jobs : job'[i].next = job[i].next /\ job'[i].life = job[i].life
      BY <3>1, <3>2 DEF SetsJob
    <3>4. th'[w].job = j /\ th'[w].pc = "participate" /\ \A u \in Threads : u # w => th'[u] = th[u]
      BY <2>2, <3>1 DEF Sets
    <3>5. j \in Range(pool.list) /\ \A i \in Range(pool.list) : i \in Jobs
      BY <1>0, <3>1, RangeOfSeq DEF Joinable
    <3>6. ASSUME NEW u \in Threads, th'[u].job # None
          PROVE  /\ job'[th'[u].job].life # "new"
                 /\ job'[th'[u].job].next <= ChunkCount => th'[u].job \in Range(pool.list)
                 /\ th'[u].pc = "unlist" =>
                       /\ th'[u].job \in Range(pool.list) /\ job'[th'[u].job].next > ChunkCount
                       /\ \A v \in Threads : th'[v].pc = "unlist" /\ th'[v].job = th'[u].job => v = u
      <4>1. CASE u = w
        BY <1>0, <3>1, <3>3, <3>4, <3>5, <4>1 DEF ListInv
      <4>2. CASE u # w
        <5>1. th'[u] = th[u] /\ th[u].job \in Jobs
          BY <1>0, <3>4, <3>6, <4>2
        <5>2. job'[th[u].job].next = job[th[u].job].next /\ job'[th[u].job].life = job[th[u].job].life
          BY <3>3, <5>1
        <5>3. \A v \in Threads : th'[v].pc = "unlist" => th'[v] = th[v]
          BY <3>4
        <5>4. QED BY <1>0, <3>6, <5>1, <5>2, <5>3 DEF ListInv, At
      <4>3. QED BY <4>1, <4>2
    <3>7. QED BY <1>0, <2>1, <3>3, <3>5, <3>6 DEF ListInv, At
  <2>5. QED BY <2>1, <2>3, <2>4
<1>9. ASSUME NEW w \in Workers, FindNothing(w) PROVE ListInv'
  <2>1. UNCHANGED <<job, pool>> /\ Goes(w, th[w].search)
    BY <1>0, <1>9, Moves DEF Moving
  <2>2. [th[w] EXCEPT !.pc = th[w].search].pc = th[w].search /\ [th[w] EXCEPT !.pc = th[w].search].job = th[w].job
        /\ th[w].search # "unlist"
    BY <1>0 DEF ThreadState
  <2>3. QED BY <1>2, <2>1, <2>2 DEF Goes, Sets
<1>10. ASSUME BeginDestroy \/ StopLock \/ StopNotify \/ JoinThreads PROVE ListInv'
  <2>1. UNCHANGED <<job, th>> /\ pool'.list = pool.list
    BY <1>0, <1>10 DEF BeginDestroy, StopLock, StopNotify, JoinThreads, Types, PoolState
  <2>2. QED BY <1>2, <2>1
<1>11. QED
  BY <1>1, <1>3, <1>4, <1>5, <1>6, <1>7, <1>8, <1>9, <1>10, TameCalls, TameWork, TameRest
  DEF Next, Step, WorkerStep, DestructorStep, Done

-----------------------------------------------------------------------------
(* The invariant holds in every state: what a worker, a client or the      *)
(* destructor may do next never breaks it.                                 *)
THEOREM Invariance == Spec => []IInv
<1>1. IInv /\ [Next]_vars => IInv'
  BY TypesStep, CallStep, SleepingStep, TaskStep, ExitStep, ListStep DEF IInv, SleepingInv
<1>2. QED BY InitInv, <1>1, PTL DEF Spec

(* No wakeup is lost: a worker does not stay asleep with a submission in   *)
(* its remote queue, unless a thread is on its way to wake it              *)
(* (wait_for_task, notify).                                                *)
THEOREM WakeupsKept == Spec => []NoLostWakeup
<1>1. IInv => NoLostWakeup
  <2> SUFFICES ASSUME IInv, NEW w \in Workers, Asleep(w), wk[w].remote # << >> PROVE Waking(w)
    BY DEF NoLostWakeup
  <2>1. Slept(w) /\ At(w, "asleep")
    BY DEF IInv, SleepInv, Asleep
  <2>2. wk[w].state = "notified" \/ Notifies(w, {"notify"})
    BY <2>1 DEF Slept, At
  <2>3. wk[w].state = "sleeping" \/ Notifies(w, {"notify_lock", "notify_one"})
    BY <2>1 DEF Slept
  <2>4. QED BY <2>2, <2>3 DEF Notifies, Waking
<1>2. QED BY Invariance, <1>1, PTL

(* A submitted task is queued once, in one worker's hand, or was executed  *)
(* once (enqueue, find_task, take_remote, steal).                          *)
LEMMA OnePlace == IInv => InOnePlace
<1> SUFFICES ASSUME IInv, NEW k \in Tasks
             PROVE  task[k].ran + Cardinality(Held(k)) + Cardinality(Queued(k)) = IF task[k].given THEN 1 ELSE 0
  BY DEF InOnePlace
<1>1. /\ Types /\ TaskInv /\ task[k].ran \in {0, 1}
      /\ \A w \in Workers : wk[w].local \in Seq(Tasks) /\ wk[w].remote \in Seq(Tasks)
  <2>1. Types /\ TaskInv
    BY DEF IInv
  <2>2. \A w \in Workers : wk[w].local \in Seq(Tasks) /\ wk[w].remote \in Seq(Tasks)
    BY <2>1, Known DEF WorkerState
  <2>3. task[k].ran \in 0 .. 2 /\ task[k].ran # 2
    BY <2>1 DEF TaskInv, Types, TaskState
  <2>4. QED BY <2>1, <2>2, <2>3
<1>2. \A w \in Workers : /\ Queue(w) \in Seq(Tasks) /\ Range(Queue(w)) = Stored(w) /\ IsInjective(Queue(w))
  <2> SUFFICES ASSUME NEW w \in Workers
               PROVE  Queue(w) \in Seq(Tasks) /\ Range(Queue(w)) = Stored(w) /\ IsInjective(Queue(w))
    OBVIOUS
  <2>1. /\ wk[w].local \in Seq(Tasks) /\ wk[w].remote \in Seq(Tasks)
        /\ IsInjective(wk[w].local) /\ IsInjective(wk[w].remote) /\ Range(wk[w].local) \cap Range(wk[w].remote) = {}
    BY <1>1 DEF TaskInv, Distinct
  <2>2. QED BY <2>1, Concatenated DEF Queue, Stored
<1>3. (\A t \in Threads : th[t].task # k) => Cardinality(Held(k)) = 0
  <2>1. (\A t \in Threads : th[t].task # k) => Held(k) = {}
    BY DEF Held
  <2>2. QED BY <2>1, FS_EmptySet
<1>4. \A t \in Threads : th[t].task = k => Cardinality(Held(k)) = 1
  <2>1. \A t \in Threads : th[t].task = k => Held(k) = {t}
    BY <1>1 DEF Held, TaskInv
  <2>2. QED BY <2>1, FS_Singleton
<1>5. (\A w \in Workers : k \notin Stored(w)) => Cardinality(Queued(k)) = 0
  <2>1. ASSUME \A w \in Workers : k \notin Stored(w) PROVE Queued(k) = {}
    <3>1. \A w \in Workers : \A i \in DOMAIN Queue(w) : Queue(w)[i] # k
      BY <1>2, <2>1 DEF Range
    <3>2. QED BY <3>1 DEF Queued
  <2>2. QED BY <2>1, FS_EmptySet
<1>6. \A w \in Workers : k \in Stored(w) => Cardinality(Queued(k)) = 1
  <2> SUFFICES ASSUME NEW w \in Workers, k \in Stored(w) PROVE Cardinality(Queued(k)) = 1
    OBVIOUS
  <2>1. PICK i \in DOMAIN Queue(w) : Queue(w)[i] = k
    BY <1>2 DEF Range
  <2>2. \A h \in DOMAIN Queue(w) : Queue(w)[h] = k => h = i
    BY <1>2, <2>1 DEF IsInjective
  <2>3. \A v \in Workers : v # w => \A h \in DOMAIN Queue(v) : Queue(v)[h] # k
    BY <1>1, <1>2 DEF TaskInv, Range
  <2>4. Queued(k) = {<<w, i>>}
    BY <2>1, <2>2, <2>3 DEF Queued
  <2>5. QED BY <2>4, FS_Singleton
<1>7. CASE task[k].ran = 1
  BY <1>1, <1>3, <1>5, <1>7 DEF TaskInv
<1>8. CASE task[k].ran = 0
  BY <1>1, <1>3, <1>4, <1>5, <1>6, <1>8 DEF TaskInv
<1>9. QED BY <1>1, <1>7, <1>8

THEOREM TasksKept == Spec => []InOnePlace
BY Invariance, OnePlace, PTL

(* What is left when the destructor returns: the workers have left, and    *)
(* every submitted task has run.  (Drained also speaks of the jobs, below.) *)
LEMMA TasksDrained ==
    IInv => (owner.pc = "destroyed" =>
                /\ \A k \in Tasks : task[k].given => task[k].ran = 1
                /\ \A t \in Threads : th[t].pc \in {"user", "exit"})
<1> SUFFICES ASSUME IInv, owner.pc = "destroyed"
             PROVE  /\ \A k \in Tasks : task[k].given => task[k].ran = 1
                    /\ \A t \in Threads : th[t].pc \in {"user", "exit"}
  OBVIOUS
<1>1. \A t \in Threads : th[t].pc \in {"user", "exit"}
  BY Known DEF IInv, ExitInv, At
<1>2. \A w \in Workers : Stored(w) = {}
  BY DEF IInv, ExitInv, Stored, Range
<1>3. \A t \in Threads, k \in Tasks : th[t].task # k
  BY <1>1, ThreadPoolAssumption DEF IInv, CallInv, Call
<1>4. QED BY <1>1, <1>2, <1>3 DEF IInv, TaskInv

-----------------------------------------------------------------------------
(* The bulk jobs *)

(* Where a participant has claimed a chunk, or one past the last.          *)
Claimed == {"chunk", "unlist", "drop"}
Chunks == 0 .. ChunkCount - 1
Team(j) == {t \in Threads : th[t].job = j}
Runner(j, c) == \E t \in Team(j) : At(t, "chunk") /\ th[t].chunk = c

(* One reference for each participant, and one for the list until the one  *)
(* who unlisted the job drops it; the job is live while there are any.     *)
Referred(j) ==
    /\ job[j].refs = Cardinality(Team(j)) + (IF j \in Range(pool.list) \/ DropsForList(j) THEN 1 ELSE 0)
    /\ job[j].life = "live" <=> job[j].refs # 0

(* No two participants hold the same chunk, and exactly one of them the    *)
(* one past the last, who is there while the job is listed.                *)
Claims(j) ==
    /\ \A t \in Team(j) : th[t].pc \in Claimed =>
          /\ th[t].chunk < job[j].next
          /\ At(t, "chunk") => th[t].chunk < ChunkCount
          /\ At(t, "unlist") => th[t].chunk = ChunkCount
          /\ At(t, "drop") => th[t].chunk >= ChunkCount /\ (j \in Range(pool.list) => th[t].chunk # ChunkCount)
          /\ \A u \in Team(j) : th[u].pc \in Claimed /\ th[u].chunk = th[t].chunk => u = t
    /\ j \in Range(pool.list) => \E t \in Team(j) : job[j].next > ChunkCount => At(t, "unlist")

(* The indices that have run are those of the chunks that were claimed and *)
(* are not being run.                                                      *)
RanChunks(j) ==
    /\ job[j].life = "new" => job[j].next = 0 /\ \A i \in Indices : job[j].ran[i] = 0
    /\ job[j].life = "live" => \A c \in Chunks : \A i \in ChunkOf(c) :
          job[j].ran[i] = IF c < job[j].next /\ ~Runner(j, c) THEN 1 ELSE 0
    /\ job[j].life = "done" => \A i \in Indices : job[j].ran[i] = 1

JobInv(j) == Referred(j) /\ Claims(j) /\ RanChunks(j)
JobsInv == pool.spurious <= plan.spurious /\ \A j \in Jobs : JobInv(j)

-----------------------------------------------------------------------------
(* chunk_bounds: every index belongs to exactly one chunk.                 *)
LEMMA ChunkCountRange == ChunkCount \in Nat \ {0} /\ ChunkCount <= Size
<1>1. {N, Size, ChunksPerWorker} \subseteq Nat \ {0}
  BY ThreadPoolAssumption
<1>2. N * ChunksPerWorker \in Nat \ {0}
  BY <1>1
<1>3. QED BY <1>1, <1>2 DEF ChunkCount

Begin(c) == c * (Size \div ChunkCount) + Smaller(c, Size % ChunkCount)

(* Division with a remainder. *)
LEMMA Divided ==
    ASSUME NEW n \in Nat, NEW p \in Nat \ {0}
    PROVE  n \div p \in Nat /\ n = p * (n \div p) + (n % p) /\ n % p \in 0 .. p - 1
OBVIOUS

LEMMA Division ==
    /\ Size \div ChunkCount \in Nat \ {0} /\ Size % ChunkCount \in 0 .. ChunkCount - 1
    /\ Size = ChunkCount * (Size \div ChunkCount) + (Size % ChunkCount) /\ Size \in Nat
<1> DEFINE C == ChunkCount
<1>1. C \in Nat \ {0} /\ C <= Size /\ Size \in Nat
  BY ChunkCountRange, ThreadPoolAssumption
<1> HIDE DEF C
<1>2. Size \div C \in Nat /\ Size % C \in 0 .. C - 1 /\ Size = C * (Size \div C) + (Size % C)
  BY <1>1, Divided
<1>3. Size \div C # 0
  BY <1>1, <1>2
<1>4. QED BY <1>1, <1>2, <1>3 DEF C

LEMMA ChunkIs ==
    ASSUME NEW c \in Nat
    PROVE  /\ Begin(c) \in Nat /\ Begin(c + 1) \in Nat /\ ChunkOf(c) = Begin(c) .. Begin(c + 1) - 1
           /\ Begin(c) < Begin(c + 1) /\ Begin(c + 1) <= Begin(c) + (Size \div ChunkCount) + 1
<1> DEFINE q == Size \div ChunkCount
           r == Size % ChunkCount
<1>1. q \in Nat \ {0} /\ r \in Nat
  BY Division
<1>2. ChunkOf(c) = c * q + Smaller(c, r) .. c * q + Smaller(c, r) + q + (IF c < r THEN 1 ELSE 0) - 1
  BY DEF ChunkOf
<1>3. Begin(c) = c * q + Smaller(c, r) /\ Begin(c + 1) = (c + 1) * q + Smaller(c + 1, r)
  BY DEF Begin
<1> HIDE DEF q, r
<1>4. (c + 1) * q = c * q + q /\ c * q \in Nat
  BY <1>1
<1>5. Smaller(c + 1, r) = Smaller(c, r) + (IF c < r THEN 1 ELSE 0) /\ Smaller(c, r) \in Nat
  BY <1>1 DEF Smaller
<1>6. /\ Begin(c) \in Nat /\ Begin(c + 1) \in Nat /\ ChunkOf(c) = Begin(c) .. Begin(c + 1) - 1
      /\ Begin(c) < Begin(c + 1) /\ Begin(c + 1) <= Begin(c) + q + 1
  BY SMTT(30), <1>1, <1>2, <1>3, <1>4, <1>5
<1>7. QED BY <1>6 DEF q

LEMMA ChunksInOrder ==
    ASSUME NEW c \in Nat, NEW d \in Nat, c < d
    PROVE  Begin(c + 1) <= Begin(d)
<1> DEFINE q == Size \div ChunkCount
           r == Size % ChunkCount
<1>1. q \in Nat /\ r \in Nat
  BY Division
<1>2. Begin(d) = d * q + Smaller(d, r) /\ Begin(c + 1) = (c + 1) * q + Smaller(c + 1, r)
  BY DEF Begin
<1> HIDE DEF q, r
<1>3. (c + 1) * q <= d * q /\ (c + 1) * q \in Nat /\ d * q \in Nat
  BY <1>1
<1>4. Smaller(c + 1, r) <= Smaller(d, r) /\ Smaller(c + 1, r) \in Nat /\ Smaller(d, r) \in Nat
  BY <1>1 DEF Smaller
<1>5. QED BY <1>2, <1>3, <1>4

(* The index i is in chunk i \div (q + 1) when that is one of the r longer *)
(* chunks, and in one of the shorter ones after them otherwise.            *)
LEMMA ChunksCover ==
    ASSUME NEW i \in Indices
    PROVE  \E c \in Chunks : i \in ChunkOf(c)
<1> DEFINE q == Size \div ChunkCount
           r == Size % ChunkCount
           C == ChunkCount
<1>1. /\ q \in Nat \ {0} /\ r \in 0 .. C - 1 /\ C \in Nat \ {0} /\ Size = C * q + r /\ i \in Nat /\ i < Size
  BY Division, ChunkCountRange DEF Indices
<1>2. /\ \A c \in Nat : /\ ChunkOf(c) = Begin(c) .. Begin(c + 1) - 1
                        /\ Begin(c) = c * q + Smaller(c, r) /\ Begin(c + 1) = (c + 1) * q + Smaller(c + 1, r)
                        /\ Begin(c) \in Nat /\ Begin(c + 1) \in Nat
      /\ Chunks = 0 .. C - 1
  BY ChunkIs DEF Begin, Chunks
<1> HIDE DEF q, r, C
<1> DEFINE long == r * (q + 1)
<1>3. long \in Nat /\ long = r * q + r
  BY <1>1
<1>4. CASE i < long
  <2> DEFINE p == q + 1
             c == i \div p
  <2>0. p \in Nat \ {0} /\ p = q + 1
    BY <1>1
  <2> HIDE DEF p
  <2>1. c \in Nat /\ i = p * c + (i % p) /\ i % p \in 0 .. q
    <3>1. i \in Nat /\ p - 1 = q
      BY <1>1, <2>0
    <3>2. c \in Nat /\ i = p * c + (i % p) /\ i % p \in 0 .. p - 1
      BY <2>0, <3>1, Divided
    <3>3. QED BY <3>1, <3>2
  <2> HIDE DEF c
  <2>2. c < r
    <3> SUFFICES ASSUME r <= c PROVE FALSE
      BY <1>1, <2>1
    <3>1. p * r <= p * c /\ p * r = long
      BY <1>1, <2>0, <2>1
    <3>2. QED BY <1>1, <1>3, <1>4, <2>0, <2>1, <3>1
  <2>3. Smaller(c, r) = c /\ Smaller(c + 1, r) = c + 1
    BY <1>1, <2>1, <2>2 DEF Smaller
  <2>4. p * c = c * q + c /\ (c + 1) * q = c * q + q /\ c * q \in Nat
    BY <1>1, <2>0, <2>1
  <2>5. i \in ChunkOf(c)
    <3>1. ChunkOf(c) = c * q + c .. ((c + 1) * q + (c + 1)) - 1
      <4>1. /\ ChunkOf(c) = Begin(c) .. Begin(c + 1) - 1
            /\ Begin(c) = c * q + Smaller(c, r) /\ Begin(c + 1) = (c + 1) * q + Smaller(c + 1, r)
        BY <1>2, <2>1, Zenon
      <4>2. QED BY <2>3, <4>1, Zenon
    <3>2. i >= c * q + c /\ i <= (c + 1) * q + (c + 1) - 1
      BY <1>1, <2>1, <2>4
    <3>3. QED BY <1>1, <3>1, <3>2, <2>1, <2>4
  <2>6. c \in Chunks
    BY <1>1, <1>2, <2>1, <2>2
  <2>7. QED BY <2>5, <2>6
<1>5. CASE ~(i < long)
  <2> DEFINE o == i - long
             d == o \div q
             c == r + d
  <2>0. o \in Nat
    BY <1>1, <1>3, <1>5
  <2> HIDE DEF o
  <2>1. d \in Nat /\ o = q * d + (o % q) /\ o % q \in 0 .. q - 1
    BY <1>1, <2>0, Divided
  <2> HIDE DEF d
  <2>2. q * c = r * q + q * d /\ q * d \in Nat /\ r * q \in Nat /\ c \in Nat /\ (c + 1) * q = q * c + q /\ c * q = q * c
    BY <1>1, <2>1
  <2> HIDE DEF c
  <2>3. i = q * c + r + (o % q)
    BY <1>1, <1>3, <2>0, <2>1, <2>2 DEF o
  <2>4. c < C
    <3> SUFFICES ASSUME C <= c PROVE FALSE
      BY <1>1, <2>2
    <3>1. q * C <= q * c /\ q * C = C * q /\ q * C \in Nat /\ q * c \in Nat
      BY <1>1, <2>2
    <3>2. QED BY <1>1, <2>1, <2>3, <3>1
  <2>5. c >= r
    BY <1>1, <2>1 DEF c
  <2>6. Smaller(c, r) = r /\ Smaller(c + 1, r) = r
    BY <1>1, <2>2, <2>5 DEF Smaller
  <2>7. i \in ChunkOf(c)
    <3>1. ChunkOf(c) = c * q + r .. ((c + 1) * q + r) - 1
      <4>1. /\ ChunkOf(c) = Begin(c) .. Begin(c + 1) - 1
            /\ Begin(c) = c * q + Smaller(c, r) /\ Begin(c + 1) = (c + 1) * q + Smaller(c + 1, r)
        BY <1>2, <2>2, Zenon
      <4>2. QED BY <2>6, <4>1, Zenon
    <3>2. c * q \in Nat
      BY <1>1, <2>2
    <3>3. i >= c * q + r /\ i <= (c + 1) * q + r - 1
      BY <1>1, <2>1, <2>2, <2>3, <3>2
    <3>4. QED BY <1>1, <2>2, <3>1, <3>2, <3>3
  <2>8. c \in Chunks
    BY <1>1, <1>2, <2>2, <2>4
  <2>9. QED BY <2>7, <2>8
<1>6. QED BY <1>4, <1>5

LEMMA ChunksDisjoint ==
    ASSUME NEW c \in Nat, NEW d \in Nat, NEW i \in ChunkOf(c), i \in ChunkOf(d)
    PROVE  c = d
<1>1. /\ Begin(c) \in Nat /\ Begin(c + 1) \in Nat /\ i \in Begin(c) .. Begin(c + 1) - 1
      /\ Begin(d) \in Nat /\ Begin(d + 1) \in Nat /\ i \in Begin(d) .. Begin(d + 1) - 1
  BY ChunkIs
<1>2. ~(c < d) /\ ~(d < c)
  BY <1>1, ChunksInOrder
<1>3. QED BY <1>2

(* The chunks are parts of the indices that do not overlap, leave none out *)
(* and differ by at most one in size (chunk_bounds).                       *)
THEOREM ChunksPartition ==
    /\ \A i \in Indices : \E c \in Chunks : i \in ChunkOf(c) /\ \A d \in Chunks : i \in ChunkOf(d) => d = c
    /\ \A c \in Chunks : /\ ChunkOf(c) # {} /\ ChunkOf(c) \subseteq Indices
                         /\ Begin(c + 1) - Begin(c) - (Size \div ChunkCount) \in {0, 1}
<1>1. ChunkCount \in Nat /\ \A c \in Chunks : c \in Nat /\ c + 1 <= ChunkCount
  BY ChunkCountRange DEF Chunks
<1>2. \A i \in Indices : \E c \in Chunks : i \in ChunkOf(c) /\ \A d \in Chunks : i \in ChunkOf(d) => d = c
  BY <1>1, ChunksCover, ChunksDisjoint
<1>3. ASSUME NEW c \in Chunks
      PROVE  /\ ChunkOf(c) # {} /\ ChunkOf(c) \subseteq Indices
             /\ Begin(c + 1) - Begin(c) - (Size \div ChunkCount) \in {0, 1}
  <2>1. /\ Begin(c) \in Nat /\ Begin(c + 1) \in Nat /\ ChunkOf(c) = Begin(c) .. Begin(c + 1) - 1
        /\ Begin(c) < Begin(c + 1)
    BY <1>1, ChunkIs
  <2>2. Begin(ChunkCount) = Size
    <3> DEFINE C == ChunkCount
               q == Size \div C
               r == Size % C
    <3>1. r \in 0 .. C - 1 /\ Size = C * q + r /\ Begin(C) = C * q + Smaller(C, r) /\ C \in Nat
      BY <1>1, Division DEF Begin
    <3> HIDE DEF q, r, C
    <3>2. Smaller(C, r) = r
      BY <3>1 DEF Smaller
    <3>3. QED BY <3>1, <3>2 DEF C
  <2>3. Begin(c + 1) <= Size
    <3>1. CASE c + 1 < ChunkCount
      <4>1. c + 1 \in Nat
        BY <1>1
      <4>2. Begin(c + 1) < Begin(c + 1 + 1) /\ Begin(c + 1 + 1) \in Nat
        BY <4>1, ChunkIs
      <4>3. Begin(c + 1 + 1) <= Begin(ChunkCount)
        BY <1>1, <3>1, <4>1, ChunksInOrder
      <4>4. QED BY <2>1, <2>2, <4>2, <4>3, ThreadPoolAssumption
    <3>2. CASE c + 1 = ChunkCount
      BY <2>2, <3>2, Division
    <3>3. QED BY <1>1, <3>1, <3>2
  <2>4. ChunkOf(c) # {} /\ ChunkOf(c) \subseteq Indices
    BY <2>1, <2>3, Division DEF Indices
  <2>5. Begin(c + 1) - Begin(c) - (Size \div ChunkCount) \in {0, 1}
    <3> DEFINE q == Size \div ChunkCount
               r == Size % ChunkCount
    <3>1. q \in Nat /\ r \in Nat
      BY Division
    <3>2. Begin(c) = c * q + Smaller(c, r) /\ Begin(c + 1) = (c + 1) * q + Smaller(c + 1, r)
      BY DEF Begin
    <3> HIDE DEF q, r
    <3>3. (c + 1) * q = c * q + q /\ c * q \in Nat
      BY <1>1, <3>1
    <3>4. Smaller(c + 1, r) - Smaller(c, r) \in {0, 1} /\ Smaller(c, r) \in Nat /\ Smaller(c + 1, r) \in Nat
      BY <1>1, <3>1 DEF Smaller
    <3>5. QED BY <3>1, <3>2, <3>3, <3>4 DEF q
  <2>6. QED BY <2>4, <2>5
<1>4. QED BY <1>2, <1>3

-----------------------------------------------------------------------------
LEMMA TeamFinite == \A S \in SUBSET Threads : IsFiniteSet(S) /\ Cardinality(S) \in Nat
<1>1. IsFiniteSet(Workers) /\ IsFiniteSet(Clients)
  BY FS_Interval, ThreadPoolAssumption DEF Workers
<1>2. IsFiniteSet(Threads)
  BY <1>1, FS_Union DEF Threads
<1>3. QED BY <1>2, FS_Subset, FS_CardinalityType

(* A step that has nothing to do with the job j.                           *)
Untouched(j) ==
    /\ job'[j] = job[j]
    /\ j \in Range(pool'.list) <=> j \in Range(pool.list)
    /\ \A u \in Threads :
          /\ th'[u].job = j <=> th[u].job = j
          /\ th[u].job = j => /\ th'[u].chunk = th[u].chunk
                              /\ \A where \in Claimed : th'[u].pc = where <=> th[u].pc = where

LEMMA UntouchedKeeps ==
    ASSUME NEW j \in Jobs, JobInv(j), Untouched(j)
    PROVE  JobInv(j)'
<1>1. Team(j)' = Team(j)
  BY DEF Team, Untouched
<1>2. /\ \A t \in Team(j) : t \in Threads /\ th[t].job = j /\ th'[t].chunk = th[t].chunk
      /\ \A t \in Team(j) : \A where \in Claimed : th'[t].pc = where <=> th[t].pc = where
  BY DEF Team, Untouched
<1>3. \A t \in Team(j) : th'[t].pc \in Claimed <=> th[t].pc \in Claimed
  BY <1>2
<1>4. /\ "chunk" \in Claimed /\ "unlist" \in Claimed /\ "drop" \in Claimed
  BY DEF Claimed
<1>5. DropsForList(j)' <=> DropsForList(j)
  BY <1>2, <1>4 DEF DropsForList, Untouched, At
<1>6. Referred(j)'
  BY <1>1, <1>5 DEF Referred, JobInv, Untouched
<1>7. Claims(j)'
  BY <1>1, <1>2, <1>3, <1>4 DEF Claims, JobInv, Untouched, At
<1>8. \A c : Runner(j, c)' <=> Runner(j, c)
  BY <1>1, <1>2, <1>4 DEF Runner, At
<1>9. RanChunks(j)'
  BY <1>8 DEF RanChunks, JobInv, Untouched
<1>10. QED BY <1>6, <1>7, <1>9 DEF JobInv

(* One thread moves, and not from or to a place where it has a chunk; or a *)
(* step that takes part in no job.                                         *)
LEMMA TameUntouched ==
    ASSUME Tame, NEW j \in Jobs
    PROVE  Untouched(j)
BY DEF Tame, TameThreads, Untouched, Claimed, Settled

(* One thread's step on the job j touches no other job.                    *)
LEMMA OthersUntouched ==
    ASSUME Types, NEW t \in Threads, NEW j \in Jobs, NEW q, NEW r, SetsJob(j, q), Sets(t, r),
           th[t].job \in {j, None}, r.job \in {j, None},
           Range(pool'.list) \ {j} = Range(pool.list) \ {j}
    PROVE  \A i \in Jobs \ {j} : Untouched(i)
BY Known DEF SetsJob, Sets, Untouched

LEMMA OthersKept ==
    ASSUME JobsInv, UNCHANGED plan, pool'.spurious = pool.spurious, NEW j \in Jobs,
           \A i \in Jobs \ {j} : Untouched(i), JobInv(j)'
    PROVE  JobsInv'
BY UntouchedKeeps DEF JobsInv

(* A job with a participant is live. *)
LEMMA Live ==
    ASSUME IInv, NEW t \in Threads, NEW j \in Jobs, th[t].job = j, JobInv(j)
    PROVE  job[j].life = "live" /\ t \in Team(j) /\ job[j] \in JobState
<1>1. t \in Team(j) /\ Team(j) \in SUBSET Threads /\ job[j] \in JobState
  BY DEF Team, IInv, Types
<1>2. Cardinality(Team(j)) \in Nat /\ Cardinality(Team(j)) # 0
  BY <1>1, TeamFinite, FS_EmptySet
<1>3. job[j].refs # 0
  BY <1>2 DEF JobInv, Referred
<1>4. QED BY <1>1, <1>3 DEF JobInv, Referred

LEMMA ClaimKeeps ==
    ASSUME IInv, JobsInv, NEW t \in Threads, Claim(t)
    PROVE  JobsInv'
<1>0. Types /\ CallInv /\ th[t] \in ThreadState
  BY Known DEF IInv
<1>a. PICK j \in Jobs : j = th[t].job
  BY <1>0, ClaimEffect
<1>b. PICK c \in Nat : c = job[j].next
  BY <1>a DEF IInv, Types, JobState
<1> DEFINE where == CASE c < ChunkCount -> "chunk" [] c = ChunkCount -> "unlist" [] OTHER -> "drop"
           q == [job[j] EXCEPT !.next = c + 1]
           r == [th[t] EXCEPT !.chunk = c, !.pc = where]
<1>1. At(t, "claim") /\ UNCHANGED <<plan, pool>> /\ SetsJob(j, q) /\ Sets(t, r)
  BY <1>0, <1>a, <1>b, ClaimEffect
<1>2. JobInv(j) /\ job[j].life = "live" /\ t \in Team(j) /\ job[j] \in JobState /\ ChunkCount \in Nat
  BY <1>a, Live, ChunkCountRange DEF JobsInv
<1>3. q.next = c + 1 /\ q.life = job[j].life /\ q.refs = job[j].refs /\ q.ran = job[j].ran
  BY <1>2 DEF JobState
<1> HIDE DEF where
<1>4. r.job = j /\ r.chunk = c /\ r.pc = where
  BY <1>0, <1>a DEF ThreadState
<1>5. /\ c < ChunkCount => where = "chunk"
      /\ c = ChunkCount => where = "unlist"
      /\ c > ChunkCount => where = "drop"
  BY <1>2 DEF where
<1> HIDE DEF q, r
<1>6. \A i \in Jobs \ {j} : Untouched(i)
  BY <1>0, <1>a, <1>1, <1>4, OthersUntouched
<1>7. /\ th'[t].job = j /\ th'[t].chunk = c /\ th'[t].pc = where /\ \A u \in Threads : u # t => th'[u] = th[u]
      /\ job'[j].next = c + 1 /\ job'[j].life = job[j].life /\ job'[j].refs = job[j].refs /\ job'[j].ran = job[j].ran
  BY <1>1, <1>3, <1>4 DEF Sets, SetsJob
<1>8. th[t].job = j /\ job[j].next = c /\ th[t].pc = "claim"
  BY <1>a, <1>b, <1>1 DEF At
<1>9. Team(j)' = Team(j) /\ Team(j) \subseteq Threads
  BY <1>7, <1>8 DEF Team
<1>10. Referred(j)'
  <2>1. DropsForList(j)' <=> DropsForList(j)
    BY <1>1, <1>2, <1>5, <1>7, <1>8 DEF DropsForList, At
  <2>2. QED BY <1>1, <1>2, <1>7, <1>9, <2>1 DEF Referred, JobInv
<1>11. Claims(j)'
  <2>1. ASSUME NEW u \in Team(j), th'[u].pc \in Claimed
        PROVE  /\ th'[u].chunk < c + 1
               /\ th'[u].pc = "chunk" => th'[u].chunk < ChunkCount
               /\ th'[u].pc = "unlist" => th'[u].chunk = ChunkCount
               /\ th'[u].pc = "drop" => th'[u].chunk >= ChunkCount /\ (j \in Range(pool.list) => th'[u].chunk # ChunkCount)
               /\ \A v \in Team(j) : th'[v].pc \in Claimed /\ th'[v].chunk = th'[u].chunk => v = u
    <3>1. \A v \in Team(j) : v # t => th'[v] = th[v]
      BY <1>7, <1>9
    <3>2. \A v \in Team(j) : th[v].pc \in Claimed => th[v].chunk < c
      BY <1>2, <1>8 DEF JobInv, Claims
    <3>3. \A v \in Team(j) : v \in Threads /\ th[v].chunk \in Nat
      BY <1>0, <1>9, Known DEF ThreadState
    <3>4. CASE u = t
      <4>1. \A v \in Team(j) : v # t /\ th'[v].pc \in Claimed => th'[v].chunk # c
        BY <1>1, <3>1, <3>2, <3>3
      <4>2. c < ChunkCount \/ c = ChunkCount \/ c > ChunkCount
        BY <1>1, <1>2
      <4>3. /\ where = "chunk" => c < ChunkCount
            /\ where = "unlist" => c = ChunkCount
            /\ where = "drop" => c > ChunkCount
        BY <1>5, <4>2
      <4>4. QED BY <1>1, <1>2, <1>7, <3>4, <4>1, <4>3
    <3>5. CASE u # t
      <4>1. th'[u] = th[u] /\ th[u].chunk < c /\ th[u].chunk \in Nat
        BY <2>1, <3>1, <3>2, <3>3, <3>5
      <4>2. \A v \in Team(j) : th'[v].pc \in Claimed /\ th'[v].chunk = th[u].chunk => v # t
        BY <1>1, <1>7, <4>1
      <4>3. QED BY <1>1, <1>2, <2>1, <3>1, <4>1, <4>2 DEF JobInv, Claims, At
    <3>6. QED BY <3>4, <3>5
  <2>2. ASSUME j \in Range(pool.list) PROVE \E u \in Team(j) : c + 1 > ChunkCount => th'[u].pc = "unlist"
    <3>1. CASE c <= ChunkCount
      BY <1>1, <1>2, <1>5, <1>7, <3>1
    <3>2. CASE c > ChunkCount
      <4>1. PICK u \in Team(j) : At(u, "unlist")
        BY <1>2, <1>8, <2>2, <3>2 DEF JobInv, Claims
      <4>2. u # t /\ u \in Threads
        BY <1>8, <1>9, <4>1 DEF At
      <4>3. QED BY <1>7, <4>1, <4>2 DEF At
    <3>3. QED BY <1>1, <1>2, <3>1, <3>2
  <2>3. QED BY <1>1, <1>7, <1>9, <2>1, <2>2 DEF Claims, At
<1>12. RanChunks(j)'
  <2> SUFFICES ASSUME NEW d \in Chunks, NEW i \in ChunkOf(d)
               PROVE  job[j].ran[i] = IF d < c + 1 /\ ~Runner(j, d)' THEN 1 ELSE 0
    BY <1>2, <1>7 DEF RanChunks
  <2>1. d \in Nat /\ d < ChunkCount
    BY <1>2 DEF Chunks
  <2>2. job[j].ran[i] = IF d < c /\ ~Runner(j, d) THEN 1 ELSE 0
    BY <1>2, <1>8 DEF JobInv, RanChunks
  <2>3. CASE d = c
    <3>1. Runner(j, d)'
      BY <1>2, <1>5, <1>7, <1>9, <2>1, <2>3 DEF Runner, At
    <3>2. QED BY <2>1, <2>2, <2>3, <3>1
  <2>4. CASE d # c
    <3>1. Runner(j, d)' <=> Runner(j, d)
      BY <1>7, <1>8, <1>9, <2>4 DEF Runner, At
    <3>2. QED BY <1>1, <2>1, <2>2, <2>4, <3>1
  <2>5. QED BY <2>3, <2>4
<1>13. QED
  BY <1>1, <1>6, <1>10, <1>11, <1>12, OthersKept DEF JobInv

LEMMA RunChunkKeeps ==
    ASSUME IInv, JobsInv, NEW t \in Threads, RunChunk(t)
    PROVE  JobsInv'
<1>0. Types /\ CallInv /\ th[t] \in ThreadState
  BY Known DEF IInv
<1>a. PICK j \in Jobs : j = th[t].job
  BY <1>0, RunChunkEffect
<1>b. PICK c \in Nat : c = th[t].chunk
  BY <1>0 DEF ThreadState
<1> DEFINE ran == [i \in Indices |-> IF i \in ChunkOf(c) THEN Up(job[j].ran[i]) ELSE job[j].ran[i]]
           q == [job[j] EXCEPT !.ran = ran]
           r == [th[t] EXCEPT !.pc = "claim"]
<1>1. At(t, "chunk") /\ UNCHANGED <<plan, pool>> /\ SetsJob(j, q) /\ Sets(t, r)
  BY <1>0, <1>a, <1>b, RunChunkEffect DEF Goes
<1>2. JobInv(j) /\ job[j].life = "live" /\ t \in Team(j) /\ job[j] \in JobState /\ ChunkCount \in Nat
  BY <1>a, Live, ChunkCountRange DEF JobsInv
<1> HIDE DEF ran
<1>3. q.next = job[j].next /\ q.life = job[j].life /\ q.refs = job[j].refs /\ q.ran = ran
  BY <1>2 DEF JobState
<1>4. r.job = j /\ r.chunk = c /\ r.pc = "claim"
  BY <1>0, <1>a, <1>b DEF ThreadState
<1> HIDE DEF q, r
<1>5. \A i \in Jobs \ {j} : Untouched(i)
  BY <1>0, <1>a, <1>1, <1>4, OthersUntouched
<1>6. /\ th'[t].job = j /\ th'[t].chunk = c /\ th'[t].pc = "claim" /\ \A u \in Threads : u # t => th'[u] = th[u]
      /\ job'[j].next = job[j].next /\ job'[j].life = job[j].life /\ job'[j].refs = job[j].refs /\ job'[j].ran = ran
  BY <1>1, <1>3, <1>4 DEF Sets, SetsJob
<1>7. th[t].job = j /\ th[t].chunk = c /\ th[t].pc = "chunk"
  BY <1>a, <1>b, <1>1 DEF At
<1>8. Team(j)' = Team(j) /\ Team(j) \subseteq Threads
  BY <1>6, <1>7 DEF Team
<1>9. \A u \in Team(j) : /\ u # t => th'[u] = th[u]
                         /\ th'[u].pc \in Claimed => u # t
  BY <1>6, <1>8 DEF Claimed
<1>10. Referred(j)'
  <2>1. DropsForList(j)' <=> DropsForList(j)
    BY <1>6, <1>7 DEF DropsForList, At
  <2>2. QED BY <1>1, <1>2, <1>6, <1>8, <2>1 DEF Referred, JobInv
<1>11. Claims(j)'
  <2>1. ASSUME j \in Range(pool.list) PROVE \E u \in Team(j) : job[j].next > ChunkCount => th'[u].pc = "unlist"
    <3>1. PICK u \in Team(j) : job[j].next > ChunkCount => At(u, "unlist")
      BY <1>2, <2>1 DEF JobInv, Claims
    <3>2. u = t => ~At(u, "unlist")
      BY <1>7 DEF At
    <3>3. QED BY <1>9, <3>1, <3>2 DEF At
  <2>2. QED BY <1>1, <1>2, <1>6, <1>8, <1>9, <2>1 DEF JobInv, Claims, At
<1>12. RanChunks(j)'
  <2> SUFFICES ASSUME NEW d \in Chunks, NEW i \in ChunkOf(d)
               PROVE  ran[i] = IF d < job[j].next /\ ~Runner(j, d)' THEN 1 ELSE 0
    BY <1>2, <1>6 DEF RanChunks
  <2>1. d \in Nat /\ i \in Indices
    BY <1>2, ChunksPartition DEF Chunks
  <2>2. job[j].ran[i] = IF d < job[j].next /\ ~Runner(j, d) THEN 1 ELSE 0
    BY <1>2 DEF JobInv, RanChunks
  <2>3. Runner(j, c) /\ c < job[j].next
    BY <1>2, <1>7 DEF Runner, JobInv, Claims, Claimed, At
  <2>4. ~Runner(j, c)'
    <3> SUFFICES ASSUME NEW u \in Team(j), th'[u].pc = "chunk", th'[u].chunk = c PROVE FALSE
      BY <1>8 DEF Runner, At
    <3>1. u # t /\ th[u].pc = "chunk" /\ th[u].chunk = c
      BY <1>9 DEF Claimed
    <3>2. QED BY <1>2, <1>7, <3>1 DEF JobInv, Claims, Claimed
  <2>5. CASE d = c
    <3>1. ran[i] = 1
      BY <2>1, <2>2, <2>3, <2>5 DEF ran, Up
    <3>2. QED BY <2>3, <2>4, <2>5, <3>1
  <2>6. CASE d # c
    <3>1. i \notin ChunkOf(c)
      BY <2>1, <2>6, ChunksDisjoint
    <3>2. ran[i] = job[j].ran[i]
      BY <2>1, <3>1 DEF ran
    <3>3. Runner(j, d)' <=> Runner(j, d)
      BY <1>6, <1>7, <1>8, <2>6 DEF Runner, At
    <3>4. QED BY <2>2, <3>2, <3>3
  <2>7. QED BY <2>5, <2>6
<1>13. QED
  BY <1>1, <1>5, <1>10, <1>11, <1>12, OthersKept DEF JobInv

LEMMA UnlistKeeps ==
    ASSUME IInv, JobsInv, NEW t \in Threads, Unlist(t)
    PROVE  JobsInv'
<1>0. Types /\ CallInv /\ ListInv /\ th[t] \in ThreadState
  BY Known DEF IInv
<1>a. PICK j \in Jobs : j = th[t].job
  BY <1>0, UnlistEffect
<1> DEFINE r == [th[t] EXCEPT !.pc = "drop"]
<1>1. /\ At(t, "unlist") /\ UNCHANGED <<plan, job>> /\ Sets(t, r)
      /\ Range(pool'.list) = Range(pool.list) \ {j}
  BY <1>0, <1>a, UnlistEffect DEF Goes
<1>2. JobInv(j) /\ job[j].life = "live" /\ t \in Team(j) /\ job[j] \in JobState /\ ChunkCount \in Nat
  BY <1>a, Live, ChunkCountRange DEF JobsInv
<1>3. r.job = j /\ r.chunk = th[t].chunk /\ r.pc = "drop"
  BY <1>0, <1>a DEF ThreadState
<1> HIDE DEF r
<1>4. \A i \in Jobs \ {j} : Untouched(i)
  BY <1>0, <1>a, <1>1, <1>3, Known DEF Sets, Untouched
<1>5. /\ th'[t].job = j /\ th'[t].chunk = th[t].chunk /\ th'[t].pc = "drop"
      /\ \A u \in Threads : u # t => th'[u] = th[u]
  BY <1>1, <1>3 DEF Sets
<1>6. th[t].job = j /\ th[t].pc = "unlist" /\ th[t].chunk = ChunkCount
  BY <1>a, <1>1, <1>2 DEF At, JobInv, Claims, Claimed
<1>7. Team(j)' = Team(j) /\ Team(j) \subseteq Threads
  BY <1>5, <1>6 DEF Team
<1>8. \A u \in Team(j) : u # t => th'[u] = th[u] /\ (th[u].pc \in Claimed => th[u].chunk # ChunkCount)
  BY <1>2, <1>5, <1>6, <1>7 DEF JobInv, Claims, Claimed
<1>9. j \in Range(pool.list) /\ j \notin Range(pool'.list)
  BY <1>0, <1>a, <1>1, ThreadPoolAssumption DEF ListInv
<1>10. Referred(j)'
  <2>1. DropsForList(j)'
    BY <1>5, <1>6 DEF DropsForList, At
  <2>2. QED BY <1>1, <1>2, <1>7, <1>9, <2>1 DEF Referred, JobInv
<1>11. Claims(j)'
  <2>1. "drop" \in Claimed /\ "unlist" \in Claimed /\ ChunkCount >= ChunkCount
    BY <1>2 DEF Claimed
  <2>2. QED BY <1>1, <1>2, <1>5, <1>6, <1>7, <1>8, <1>9, <2>1 DEF JobInv, Claims, At
<1>12. RanChunks(j)'
  <2>1. \A d \in Chunks : Runner(j, d)' <=> Runner(j, d)
    BY <1>5, <1>6, <1>7 DEF Runner, At
  <2>2. QED BY <1>1, <1>2, <2>1 DEF RanChunks, JobInv
<1>13. pool'.spurious = pool.spurious
  BY <1>0 DEF Unlist, Types, PoolState
<1>14. QED
  BY <1>1, <1>4, <1>10, <1>11, <1>12, <1>13, OthersKept DEF JobInv

LEMMA DropKeeps ==
    ASSUME IInv, JobsInv, NEW t \in Threads, Drop(t)
    PROVE  JobsInv'
<1>0. Types /\ CallInv /\ th[t] \in ThreadState
  BY Known DEF IInv
<1>a. PICK j \in Jobs : j = th[t].job
  BY <1>0, DropEffect
<1>b. PICK n \in {1, 2} : n = Dropped(t)
  BY DEF Dropped
<1> DEFINE life == IF job[j].refs = n THEN "done" ELSE job[j].life
           refs == job[j].refs - n
           q == [job[j] EXCEPT !.refs = refs, !.life = life]
           r == [th[t] EXCEPT !.pc = th[t].home, !.job = None, !.chunk = 0, !.home = "user"]
<1>1. At(t, "drop") /\ UNCHANGED <<plan, pool>> /\ SetsJob(j, q) /\ Sets(t, r)
  BY <1>0, <1>a, <1>b, DropEffect
<1>2. JobInv(j) /\ job[j].life = "live" /\ t \in Team(j) /\ job[j] \in JobState /\ ChunkCount \in Nat
  BY <1>a, Live, ChunkCountRange DEF JobsInv
<1> HIDE DEF life, refs
<1>3. q.next = job[j].next /\ q.life = life /\ q.refs = refs /\ q.ran = job[j].ran
  BY <1>2 DEF JobState
<1>4. r.job = None
  BY <1>0 DEF ThreadState
<1> HIDE DEF q, r
<1>5. \A i \in Jobs \ {j} : Untouched(i)
  BY <1>0, <1>a, <1>1, <1>4, OthersUntouched
<1>6. /\ th'[t].job = None /\ \A u \in Threads : u # t => th'[u] = th[u]
      /\ job'[j].next = job[j].next /\ job'[j].life = life /\ job'[j].refs = refs /\ job'[j].ran = job[j].ran
  BY <1>1, <1>3, <1>4 DEF Sets, SetsJob
<1>7. th[t].job = j /\ th[t].pc = "drop" /\ (n = 2 <=> th[t].chunk = ChunkCount) /\ j # None
  BY <1>a, <1>b, <1>1, ThreadPoolAssumption DEF At, Dropped
<1>8. /\ Team(j)' = Team(j) \ {t} /\ Team(j) \subseteq Threads /\ t \notin Team(j)'
      /\ \A u \in Team(j)' : u \in Team(j) /\ th'[u] = th[u]
  BY <1>6, <1>7 DEF Team
<1>9. /\ th[t].chunk \in Nat /\ job[j].next \in Nat /\ th[t].chunk < job[j].next /\ th[t].chunk >= ChunkCount
      /\ j \in Range(pool.list) => n = 1
      /\ \A u \in Team(j) \ {t} : th[u].pc \in Claimed => th[u].chunk # th[t].chunk
  BY <1>0, <1>2, <1>7 DEF JobInv, Claims, Claimed, ThreadState, JobState, At
<1>10. Cardinality(Team(j)') = Cardinality(Team(j)) - 1 /\ Cardinality(Team(j)') \in Nat
       /\ Cardinality(Team(j)) \in Nat
  <2>1. IsFiniteSet(Team(j)) /\ Team(j) \ {t} \in SUBSET Threads /\ Team(j) \in SUBSET Threads
    BY <1>8, TeamFinite
  <2>2. QED BY <1>2, <1>8, <2>1, TeamFinite, FS_RemoveElement
<1>11. job[j].refs = Cardinality(Team(j)) + (IF j \in Range(pool.list) \/ DropsForList(j) THEN 1 ELSE 0)
  BY <1>2 DEF JobInv, Referred
<1>12. refs = Cardinality(Team(j)') + (IF j \in Range(pool.list) \/ DropsForList(j)' THEN 1 ELSE 0)
  <2>1. CASE n = 2
    <3>1. DropsForList(j)
      BY <1>7, <2>1 DEF DropsForList, At
    <3>2. ~DropsForList(j)'
      <4> SUFFICES ASSUME NEW u \in Threads, th'[u].job = j, th'[u].pc = "drop", th'[u].chunk = ChunkCount PROVE FALSE
        BY DEF DropsForList, At
      <4>1. u \in Team(j) \ {t} /\ th[u].pc = "drop" /\ th[u].chunk = ChunkCount
        BY <1>6, <1>7 DEF Team
      <4>2. QED BY <1>7, <1>9, <2>1, <4>1 DEF Claimed
    <3>3. QED BY <1>9, <1>10, <1>11, <2>1, <3>1, <3>2 DEF refs
  <2>2. CASE n = 1
    <3>1. DropsForList(j)' <=> DropsForList(j)
      BY <1>6, <1>7, <2>2 DEF DropsForList, At
    <3>2. QED BY <1>10, <1>11, <2>2, <3>1 DEF refs
  <2>3. QED BY <2>1, <2>2
<1>13. life = "live" <=> refs # 0
  BY <1>2, <1>b DEF life, refs, JobState
<1>14. Referred(j)'
  BY <1>1, <1>6, <1>12, <1>13 DEF Referred
<1>15. Claims(j)'
  <2>1. ASSUME j \in Range(pool.list) PROVE \E u \in Team(j)' : job[j].next > ChunkCount => th'[u].pc = "unlist"
    <3>1. PICK u \in Team(j) : At(u, "unlist")
      BY <1>2, <1>9, <2>1 DEF JobInv, Claims
    <3>2. u # t
      BY <1>7, <3>1 DEF At
    <3>3. QED BY <1>8, <3>1, <3>2 DEF At
  <2>2. QED BY <1>1, <1>2, <1>6, <1>8, <2>1 DEF JobInv, Claims, At
<1>16. RanChunks(j)'
  <2>1. \A d \in Chunks : Runner(j, d)' <=> Runner(j, d)
    <3>1. \A u \in Team(j) : At(u, "chunk") => u # t
      BY <1>7 DEF At
    <3>2. QED BY <1>8, <3>1 DEF Runner, At
  <2>2. CASE refs # 0
    <3>1. life = "live"
      BY <1>13, <2>2
    <3>2. QED BY <1>2, <1>6, <2>1, <3>1 DEF RanChunks, JobInv
  <2>3. CASE refs = 0
    <3>1. life = "done"
      BY <1>2, <1>b, <2>3 DEF life, refs, JobState
    <3>2. Team(j)' = {}
      <4>1. Cardinality(Team(j)') = 0 /\ Team(j) \ {t} \in SUBSET Threads
        BY <1>8, <1>10, <1>12, <2>3
      <4>2. QED BY <1>8, <4>1, TeamFinite, FS_EmptySet
    <3>3. \A d \in Chunks : ~Runner(j, d) /\ d < job[j].next
      BY <1>2, <1>9, <2>1, <3>2 DEF Runner, Chunks
    <3>4. \A i \in Indices : job[j].ran[i] = 1
      BY <1>2, <3>3, ChunksCover DEF JobInv, RanChunks
    <3>5. QED BY <1>6, <3>1, <3>4 DEF RanChunks
  <2>4. QED BY <2>2, <2>3
<1>17. QED
  BY <1>1, <1>5, <1>14, <1>15, <1>16, OthersKept DEF JobInv

LEMMA RunBulkKeeps ==
    ASSUME IInv, JobsInv, NEW t \in Threads, NEW j \in Jobs, RunBulk(t, j)
    PROVE  JobsInv'
<1>0. Types /\ CallInv /\ ListInv /\ th[t] \in ThreadState /\ job[j] \in JobState /\ ChunkCount \in Nat
  BY Known, ChunkCountRange DEF IInv, Types
<1> DEFINE p == [job[j] EXCEPT !.life = "done", !.ran = [i \in Indices |-> 1]]
           q == [job[j] EXCEPT !.life = "live", !.refs = 2, !.by = t]
           r == [th[t] EXCEPT !.pc = "participate", !.job = j, !.home = th[t].pc]
<1>1. /\ At(t, "task") \/ At(t, "user")
      /\ UNCHANGED plan
      /\ job[j].life = "new"
      /\ \/ SetsJob(j, p) /\ UNCHANGED <<pool, th>>
         \/ /\ SetsJob(j, q) /\ Sets(t, r)
            /\ pool' = [pool EXCEPT !.list = Append(pool.list, j)]
  BY <1>0, RunBulkEffect
<1>2. /\ JobInv(j) /\ job[j].next = 0 /\ \A i \in Indices : job[j].ran[i] = 0
      /\ UNCHANGED plan
  BY <1>1 DEF JobsInv, JobInv, RanChunks, RunBulk
<1>3. Team(j) = {} /\ j \notin Range(pool.list) /\ j # None
  BY <1>0, <1>1, ThreadPoolAssumption DEF ListInv, Team
<1>4. job[j].refs = 0
  <2>1. job[j].refs = 0 + (IF DropsForList(j) THEN 1 ELSE 0)
    BY <1>2, <1>3, FS_EmptySet DEF JobInv, Referred
  <2>2. ~DropsForList(j)
    BY <1>3 DEF DropsForList, Team
  <2>3. QED BY <2>1, <2>2
<1>5. /\ p.next = 0 /\ p.life = "done" /\ p.refs = 0 /\ p.ran = [i \in Indices |-> 1]
      /\ q.next = 0 /\ q.life = "live" /\ q.refs = 2 /\ q.ran = job[j].ran
  BY <1>0, <1>2, <1>4 DEF JobState
<1>6. r.job = j /\ r.pc = "participate"
  BY <1>0 DEF ThreadState
<1>7. th[t].job = None
  BY <1>0, <1>1 DEF CallInv, Call, Helping, Working, Calling, Notifying, At
<1> HIDE DEF p, q, r
<1>8. CASE SetsJob(j, p) /\ UNCHANGED <<pool, th>>
  <2>1. \A i \in Jobs \ {j} : Untouched(i)
    BY <1>8 DEF SetsJob, Untouched
  <2>2. Team(j)' = {} /\ job'[j] = p
    BY <1>3, <1>8 DEF Team, SetsJob
  <2>3. ~DropsForList(j)'
    BY <2>2 DEF DropsForList, Team
  <2>4. Referred(j)'
    BY <1>3, <1>5, <1>8, <2>2, <2>3, FS_EmptySet DEF Referred
  <2>5. Claims(j)'
    BY <1>3, <1>8, <2>2 DEF Claims
  <2>6. RanChunks(j)'
    BY <1>5, <2>2 DEF RanChunks
  <2>7. QED BY <1>2, <1>8, <2>1, <2>4, <2>5, <2>6, OthersKept DEF JobInv
<1>9. CASE /\ SetsJob(j, q) /\ Sets(t, r)
           /\ pool' = [pool EXCEPT !.list = Append(pool.list, j)]
  <2>1. pool'.list = Append(pool.list, j) /\ pool'.spurious = pool.spurious /\ pool.list \in Seq(Jobs)
    BY <1>0, <1>9 DEF Types, PoolState
  <2>2. Range(pool'.list) = Range(pool.list) \cup {j}
    BY <1>0, <1>3, <2>1, Appended DEF ListInv
  <2>3. \A i \in Jobs \ {j} : Untouched(i)
    BY <1>0, <1>6, <1>7, <1>9, <2>2, OthersUntouched
  <2>4. Team(j)' = {t} /\ job'[j] = q /\ th'[t].pc = "participate"
    BY <1>3, <1>6, <1>9 DEF Team, SetsJob, Sets
  <2>5. Referred(j)'
    <3>1. Cardinality(Team(j)') = 1 /\ j \in Range(pool'.list)
      BY <2>2, <2>4, FS_Singleton
    <3>2. job'[j].refs = 2 /\ job'[j].life = "live"
      BY <1>5, <2>4
    <3>3. QED BY <3>1, <3>2 DEF Referred
  <2>6. Claims(j)'
    BY <1>0, <1>5, <2>4 DEF Claims, Claimed
  <2>7. RanChunks(j)'
    <3> SUFFICES ASSUME NEW d \in Chunks, NEW i \in ChunkOf(d) PROVE job[j].ran[i] = IF d < 0 /\ ~Runner(j, d)' THEN 1 ELSE 0
      BY <1>5, <2>4 DEF RanChunks
    <3>1. i \in Indices /\ ~(d < 0)
      BY <1>0, ChunksPartition DEF Chunks
    <3>2. QED BY <1>2, <3>1
  <2>8. QED BY <1>2, <2>1, <2>3, <2>5, <2>6, <2>7, OthersKept DEF JobInv
<1>10. QED BY <1>1, <1>8, <1>9

LEMMA JoinKeeps ==
    ASSUME IInv, JobsInv, NEW w \in Workers, Join(w)
    PROVE  JobsInv'
<1>0. Types /\ CallInv /\ ListInv /\ th[w] \in ThreadState /\ w \in Threads
  BY Known DEF IInv
<1>1. th[w].pc \in {"join", "join_woken"} /\ UNCHANGED <<plan, pool>>
  BY <1>0, JoinEffect
<1>2. th[w].job = None /\ ChunkCount \in Nat
  BY <1>0, <1>1, ChunkCountRange DEF CallInv, Call, Helping, Working, Calling, Notifying
<1>3. CASE UNCHANGED job /\ (Searches(w, "sleep") \/ Goes(w, "sleep"))
  <2> DEFINE a == [th[w] EXCEPT !.pc = "find", !.search = "sleep"]
             b == [th[w] EXCEPT !.pc = "sleep"]
  <2>1. Sets(w, a) \/ Sets(w, b)
    BY <1>3 DEF Searches, Goes
  <2>2. a.job = None /\ b.job = None
    BY <1>0, <1>2 DEF ThreadState
  <2> HIDE DEF a, b
  <2>3. \A i \in Jobs : Untouched(i)
    BY <1>0, <1>1, <1>2, <1>3, <2>1, <2>2, Known DEF Sets, Untouched
  <2>4. QED BY <1>1, <2>3, UntouchedKeeps DEF JobsInv
<1>4. CASE \E j \in Joinable :
              /\ j \in Jobs /\ SetsJob(j, [job[j] EXCEPT !.refs = job[j].refs + 1])
              /\ Sets(w, [th[w] EXCEPT !.pc = "participate", !.job = j, !.home = "look"])
  <2>1. PICK j \in Jobs :
              /\ j \in Joinable /\ SetsJob(j, [job[j] EXCEPT !.refs = job[j].refs + 1])
              /\ Sets(w, [th[w] EXCEPT !.pc = "participate", !.job = j, !.home = "look"])
    BY <1>4
  <2> DEFINE q == [job[j] EXCEPT !.refs = job[j].refs + 1]
             r == [th[w] EXCEPT !.pc = "participate", !.job = j, !.home = "look"]
  <2>2. JobInv(j) /\ job[j] \in JobState /\ j \in Range(pool.list) /\ job[j].next < ChunkCount /\ j # None
    BY <1>0, <2>1, ThreadPoolAssumption DEF JobsInv, Types, Joinable
  <2>3. q.next = job[j].next /\ q.life = job[j].life /\ q.refs = job[j].refs + 1 /\ q.ran = job[j].ran
    BY <2>2 DEF JobState
  <2>4. r.job = j /\ r.pc = "participate"
    BY <1>0 DEF ThreadState
  <2>5. SetsJob(j, q) /\ Sets(w, r)
    BY <2>1
  <2> HIDE DEF q, r
  <2>6. \A i \in Jobs \ {j} : Untouched(i)
    BY <1>0, <1>1, <1>2, <2>4, <2>5, OthersUntouched
  <2>7. /\ th'[w].job = j /\ th'[w].pc = "participate" /\ \A u \in Threads : u # w => th'[u] = th[u]
        /\ job'[j] = q
    BY <2>4, <2>5 DEF Sets, SetsJob
  <2>8. /\ Team(j)' = Team(j) \cup {w} /\ Team(j) \subseteq Threads /\ w \notin Team(j)
        /\ \A u \in Team(j) : th'[u] = th[u]
    BY <1>0, <1>2, <2>2, <2>7 DEF Team
  <2>9. Cardinality(Team(j)') = Cardinality(Team(j)) + 1 /\ Cardinality(Team(j)) \in Nat
    BY <2>8, TeamFinite, FS_AddElement
  <2>10. job[j].refs = Cardinality(Team(j)) + 1 /\ (job[j].life = "live" <=> job[j].refs # 0)
    BY <2>2 DEF JobInv, Referred
  <2>11. Referred(j)'
    <3>1. q.refs = Cardinality(Team(j)') + 1 /\ (job[j].life = "live" <=> q.refs # 0)
      BY <2>3, <2>9, <2>10
    <3>2. QED BY <1>1, <2>2, <2>3, <2>7, <3>1 DEF Referred
  <2>12. Claims(j)'
    <3>1. \A u \in Team(j)' : th'[u].pc \in Claimed => u \in Team(j) /\ th'[u] = th[u]
      BY <2>7, <2>8 DEF Claimed
    <3>2. ~(job[j].next > ChunkCount)
      BY <1>2, <2>2 DEF JobState
    <3>3. w \in Team(j)'
      BY <2>8
    <3>4. QED BY <1>1, <2>2, <2>3, <2>7, <3>1, <3>2, <3>3 DEF Claims, JobInv, At
  <2>13. RanChunks(j)'
    <3>1. \A d : Runner(j, d)' <=> Runner(j, d)
      BY <2>7, <2>8 DEF Runner, At
    <3>2. QED BY <2>2, <2>3, <2>7, <3>1 DEF RanChunks, JobInv
  <2>14. QED BY <1>1, <2>6, <2>11, <2>12, <2>13, OthersKept DEF JobInv
<1>5. QED BY <1>0, <1>3, <1>4, JoinEffect

LEMMA SpuriousKept ==
    ASSUME IInv, pool.spurious <= plan.spurious, [Next]_vars
    PROVE  pool'.spurious <= plan'.spurious
<1>0. pool \in PoolState /\ plan.spurious \in Nat /\ pool.spurious \in Nat
  BY ThreadPoolAssumption DEF IInv, Types, PoolState
<1>1. ASSUME NEW w \in Workers, SpuriousWakeup(w) PROVE pool'.spurious <= plan'.spurious
  <2>1. pool' = [pool EXCEPT !.spurious = @ + 1] /\ pool.spurious < plan.spurious /\ UNCHANGED plan
    BY <1>1 DEF SpuriousWakeup
  <2>2. pool'.spurious = pool.spurious + 1
    BY <1>0, <2>1 DEF PoolState
  <2>3. QED BY <1>0, <2>1, <2>2
<1>2. ASSUME NEW t \in Threads, Step(t) \/ \E j \in Jobs : RunBulk(t, j)
      PROVE  pool'.spurious = pool.spurious /\ UNCHANGED plan
  <2>1. UNCHANGED plan /\ (UNCHANGED pool \/ \E list : pool' = [pool EXCEPT !.list = list])
    BY <1>2 DEF Step, WakeIdle, Scan, Notify, NotifyLock, NotifyOne, Participate, Claim, RunChunk, Unlist, Drop,
                RunBulk
  <2>2. QED BY <1>0, <2>1 DEF PoolState
<1>3. ASSUME NEW w \in Workers, WorkerStep(w) \/ \E k \in Tasks : EnqueueLocal(w, k)
      PROVE  pool'.spurious = pool.spurious /\ UNCHANGED plan
  <2>1. UNCHANGED plan /\ (UNCHANGED pool \/ \E n : pool' = [pool EXCEPT !.sleepers = n])
    BY <1>3 DEF WorkerStep, Look, Find, FindRemote, Steal, FindNothing, SleepLock, FallAsleep, Recheck, GotRemote,
                Count, CheckBulk, Wait, Block, Wake, Uncount, WakeUp, Rejoin, Join, EnqueueLocal
  <2>2. QED BY <1>0, <2>1 DEF PoolState
<1>4. ASSUME \/ \E c \in Clients, k \in Tasks : EnqueueRemote(c, k)
             \/ BeginDestroy \/ DestructorStep \/ UNCHANGED vars
      PROVE  pool'.spurious = pool.spurious /\ UNCHANGED plan
  <2>1. UNCHANGED plan /\ (UNCHANGED pool \/ pool' = [pool EXCEPT !.stopping = TRUE])
    BY <1>4 DEF EnqueueRemote, BeginDestroy, DestructorStep, StopLock, StopNotify, JoinThreads, vars
  <2>2. QED BY <1>0, <2>1 DEF PoolState
<1>5. QED BY <1>1, <1>2, <1>3, <1>4 DEF Next, Done

(* Every step keeps the invariant of every job. *)
LEMMA JobsStep ==
    ASSUME IInv, JobsInv, [Next]_vars
    PROVE  JobsInv'
<1>0. Types /\ CallInv /\ pool'.spurious <= plan'.spurious
  BY SpuriousKept DEF IInv, JobsInv
<1>1. ASSUME \A j \in Jobs : Untouched(j) PROVE JobsInv'
  BY <1>0, <1>1, UntouchedKeeps DEF JobsInv
<1>2. ASSUME Tame PROVE JobsInv'
  BY <1>1, <1>2, TameUntouched
<1>3. ASSUME NEW w \in Workers, FindNothing(w) PROVE JobsInv'
  <2> DEFINE r == [th[w] EXCEPT !.pc = th[w].search]
  <2>1. /\ At(w, "find") /\ UNCHANGED <<job, pool>> /\ Sets(w, r) /\ w \in Threads
        /\ th[w] \in ThreadState
    BY <1>0, <1>3, Moves, Known DEF Moving, Goes
  <2>2. th[w].search \notin Claimed /\ r.pc = th[w].search /\ r.job = th[w].job /\ r.chunk = th[w].chunk
    BY <2>1 DEF ThreadState, Claimed
  <2> HIDE DEF r
  <2>3. \A j \in Jobs : Untouched(j)
    BY <2>1, <2>2 DEF Untouched, Sets, At, Claimed
  <2>4. QED BY <1>1, <2>3
<1>4. ASSUME BeginDestroy \/ StopLock \/ StopNotify \/ JoinThreads PROVE JobsInv'
  <2>1. UNCHANGED <<job, th>> /\ pool'.list = pool.list
    BY <1>0, <1>4 DEF BeginDestroy, StopLock, StopNotify, JoinThreads, Types, PoolState
  <2>2. \A j \in Jobs : Untouched(j)
    BY <2>1 DEF Untouched
  <2>3. QED BY <1>1, <2>2
<1>5. QED
  BY <1>2, <1>3, <1>4, TameCalls, TameWork, TameRest, ClaimKeeps, RunChunkKeeps, UnlistKeeps, DropKeeps,
     RunBulkKeeps, JoinKeeps
  DEF Next, Step, WorkerStep, DestructorStep, Done

LEMMA JobsInit == Init => JobsInv
<1> SUFFICES ASSUME Init, NEW j \in Jobs PROVE JobInv(j) /\ pool.spurious <= plan.spurious
  BY ThreadPoolAssumption DEF JobsInv, Init
<1>1. /\ job[j] = [life |-> "new", next |-> 0, refs |-> 0, by |-> None, ran |-> [i \in Indices |-> 0]]
      /\ pool = [sleepers |-> 0, stopping |-> FALSE, list |-> << >>, spurious |-> 0]
      /\ \A t \in Threads : th[t].job = None
      /\ j # None /\ plan.spurious \in Nat
  BY ThreadPoolAssumption DEF Init
<1>2. Team(j) = {} /\ ~DropsForList(j) /\ j \notin Range(pool.list)
  BY <1>1 DEF Team, DropsForList, Range
<1>3. Referred(j)
  BY <1>1, <1>2, FS_EmptySet DEF Referred
<1>4. Claims(j) /\ RanChunks(j)
  BY <1>1, <1>2 DEF Claims, RanChunks
<1>5. QED BY <1>1, <1>3, <1>4 DEF JobInv

(* The invariant of the jobs holds in every state. *)
THEOREM JobsInvariance == Spec => []JobsInv
<1>1. IInv /\ JobsInv /\ [Next]_vars => JobsInv'
  BY JobsStep
<1>2. QED BY Invariance, JobsInit, <1>1, PTL DEF Spec

(* The destructor returns only after every submitted task has run, every   *)
(* published job is done and the workers have left (~thread_pool_impl).    *)
THEOREM DestructorDrains == Spec => []Drained
<1>1. IInv /\ JobsInv => Drained
  <2> SUFFICES ASSUME IInv, JobsInv, owner.pc = "destroyed", NEW j \in Jobs PROVE job[j].life # "live"
    BY TasksDrained DEF Drained
  <2>1. \A t \in Threads : th[t].job = None
    BY TasksDrained DEF IInv, CallInv, Call, Helping, Working, Calling, Notifying
  <2>2. Team(j) = {} /\ ~DropsForList(j)
    BY <2>1, ThreadPoolAssumption DEF Team, DropsForList
  <2>3. j \notin Range(pool.list)
    BY <2>2 DEF JobsInv, JobInv, Claims
  <2>4. Cardinality(Team(j)) = 0
    BY <2>2, FS_EmptySet
  <2>5. job[j].refs = 0
    BY <2>2, <2>3, <2>4 DEF JobsInv, JobInv, Referred
  <2>6. QED BY <2>5 DEF JobsInv, JobInv, Referred
<1>2. QED BY Invariance, JobsInvariance, <1>1, PTL

LEMMA TypesOK == IInv /\ JobsInv => TypeOK
<1> SUFFICES ASSUME IInv, JobsInv PROVE TypeOK
  OBVIOUS
<1>1. ASSUME NEW w \in Workers
      PROVE  /\ wk[w].state \in {"running", "sleeping", "notified"}
             /\ wk[w].local \in Seq(Tasks) /\ Len(wk[w].local) <= Capacity
             /\ wk[w].remote \in Seq(Tasks)
             /\ wk[w].mutex = w <=> th[w].pc \in Holding
             /\ wk[w].waiting => At(w, "asleep")
  <2>1. wk[w] \in WorkerState /\ Mutexed(w) /\ Len(wk[w].local) <= Capacity /\ w # None
    BY Known DEF IInv, MutexInv, TaskInv
  <2>2. QED BY <2>1 DEF WorkerState, Mutexed
<1>2. pool.sleepers = Cardinality({w \in Workers : th[w].pc \in Counted})
  BY DEF IInv, SleepersInv, Sleepers
<1>3. pool.stopping \in BOOLEAN /\ pool.list \in Seq(Jobs) /\ pool.spurious \in 0 .. plan.spurious
  BY ThreadPoolAssumption DEF IInv, Types, PoolState, JobsInv
<1>4. ASSUME NEW j \in Jobs
      PROVE  /\ job[j].life \in {"new", "live", "done"} /\ job[j].by \in Threads \cup {None}
             /\ job[j].refs = Cardinality(Team(j)) + (IF j \in Range(pool.list) \/ DropsForList(j) THEN 1 ELSE 0)
  BY DEF IInv, Types, JobState, JobsInv, JobInv, Referred
<1>5. /\ owner.pc \in {"idle", "stop", "stop_notify", "join", "destroyed"} /\ owner.at \in Workers
      /\ task \in [Tasks -> [given : BOOLEAN, ran : 0 .. 2]]
  BY DEF IInv, Types, TaskState
<1>6. QED BY <1>1, <1>2, <1>3, <1>4, <1>5 DEF TypeOK, Team, Holding, Counted

(* Every index of a job runs exactly once, the job is done when the last   *)
(* of its references is dropped, and then no thread has it and the list    *)
(* does not either: its operation may be destroyed (run_bulk, participate, *)
(* drop).                                                                  *)
THEOREM JobsComplete == Spec => []JobCompletesLast
<1>1. IInv /\ JobsInv => JobCompletesLast
  <2> SUFFICES ASSUME IInv, JobsInv, NEW j \in Jobs
               PROVE  /\ \A i \in Indices : job[j].ran[i] <= 1
                      /\ job[j].life = "done" =>
                            /\ \A i \in Indices : job[j].ran[i] = 1
                            /\ j \notin Range(pool.list) /\ \A t \in Threads : th[t].job # j
    BY TypesOK DEF JobCompletesLast
  <2>1. JobInv(j) /\ job[j] \in JobState
    BY DEF IInv, JobsInv, Types
  <2>2. \A i \in Indices : job[j].ran[i] \in {0, 1}
    BY <2>1, ChunksCover DEF JobInv, RanChunks, JobState
  <2>3. ASSUME job[j].life = "done"
        PROVE  j \notin Range(pool.list) /\ \A t \in Threads : th[t].job # j
    <3>1. job[j].refs = 0
      BY <2>1, <2>3 DEF JobInv, Referred
    <3>2. j \notin Range(pool.list) /\ Cardinality(Team(j)) = 0
      <4>1. Cardinality(Team(j)) \in Nat
        BY TeamFinite DEF Team
      <4>2. QED BY <2>1, <3>1, <4>1 DEF JobInv, Referred
    <3>3. QED BY <2>3, <3>2, Live, <2>1
  <2>4. QED BY <2>1, <2>2, <2>3 DEF JobInv, RanChunks
<1>2. QED BY Invariance, JobsInvariance, <1>1, PTL
-----------------------------------------------------------------------------
(* A published job finds help.  A worker is committed to sleep when it has *)
(* looked at the list of jobs and was not notified since; while there is a *)
(* job to join, no worker commits itself any more.                         *)
Committed(w) == th[w].pc \in {"wait", "block", "asleep"} /\ wk[w].state = "sleeping"
Helper(p) == \E w \in Workers \ {p} : ~Committed(w)
Passed(p) == th[p].target >= 1 /\ \A w \in Workers \ {p} : w < th[p].target => ~Committed(w)

(* Unless a worker is not committed, the publisher has yet to look for one *)
(* that it can notify, and those it has passed were not committed.         *)
Recruits(p, j) ==
    /\ job[j].next = 0 /\ th[p].job = j
    /\ th[p].pc \in {"participate", "wake"} \/ (th[p].pc \in {"scan", "notify"} /\ Passed(p))

Helped(j) ==
    /\ job[j].by \in Threads /\ N # 1 /\ ChunkCount # 1
    /\ \A t \in Team(j) : t # job[j].by => t \in Workers
    /\ job[j].next < ChunkCount => Helper(job[j].by) \/ Recruits(job[j].by, j)

HelpInv == \A j \in Range(pool.list) : Helped(j)

(* A worker that is committed after a step was committed before it.        *)
LEMMA CommittedBefore ==
    ASSUME IInv, [Next]_vars, Joinable # {}, NEW w \in Workers, Committed(w)'
    PROVE  Committed(w)
<1>0. /\ Types /\ CallInv /\ TaskInv /\ w \in Threads /\ wk[w] \in WorkerState /\ th[w] \in ThreadState
      /\ th'[w].pc \in {"wait", "block", "asleep"} /\ wk'[w].state = "sleeping"
  BY Known DEF IInv, Committed
<1>1. ASSUME NEW t \in Threads, Calm(t) PROVE Committed(w)
  <2>1. th'[w].pc \notin Awake
    BY <1>0 DEF Awake, Calling, Notifying, Working, Other
  <2>2. w # t /\ th'[w] = th[w]
    BY <1>0, <1>1, <2>1 DEF Calm
  <2>3. QED BY <1>0, <1>1, <2>1, <2>2 DEF Calm, Committed
<1>2. ASSUME th'[w] = th[w], wk'[w].state = "sleeping" => wk[w].state = "sleeping" PROVE Committed(w)
  BY <1>0, <1>2 DEF Committed
<1>3. ASSUME NEW t \in Threads, Step(t) \/ \E j \in Jobs : RunBulk(t, j) PROVE Committed(w)
  <2>1. CASE Notify(t)
    <3> DEFINE i == th[t].target
               r == [th[t] EXCEPT !.pc = "scan", !.target = i + 1]
    <3>1. /\ i \in Workers /\ SetsWorker(i, [wk[i] EXCEPT !.state = "notified"]) /\ At(t, "notify")
          /\ Goes(t, "notify_lock") \/ Sets(t, r) \/ Returns(t)
      BY <1>0, <2>1, NotifyEffect
    <3>2. r.pc = "scan" /\ th[t].back \notin {"wait", "block", "asleep"} /\ "notify_lock" \in Somewhere
          /\ [wk[i] EXCEPT !.state = "notified"].state = "notified"
      BY <1>0, <3>1, Known DEF ThreadState, WorkerState, Somewhere, Calling, Notifying
    <3> HIDE DEF r, i
    <3>3. th'[t].pc \notin {"wait", "block", "asleep"} /\ \A u \in Threads : u # t => th'[u] = th[u]
      BY <1>0, <3>1, <3>2, Lands DEF Goes, Returns, Sets
    <3>4. w # t /\ w # i
      BY <1>0, <3>1, <3>2, <3>3 DEF SetsWorker
    <3>5. QED BY <1>0, <1>2, <3>1, <3>3, <3>4 DEF SetsWorker
  <2>2. CASE NotifyLock(t) \/ NotifyOne(t)
    <3> DEFINE i == th[t].target
               q == [wk[i] EXCEPT !.waiting = FALSE]
    <3>1. i \in Workers /\ (SetsWorker(i, q) \/ UNCHANGED wk) /\ (Goes(t, "notify_one") \/ Returns(t))
      BY <1>0, <2>2, NotifyLockEffect, NotifyOneEffect
    <3>2. th[t].back \notin {"wait", "block", "asleep"} /\ "notify_one" \in Somewhere /\ q.state = wk[i].state
      BY <1>0, <3>1, Known DEF ThreadState, WorkerState, Somewhere, Calling, Notifying
    <3> HIDE DEF q, i
    <3>3. th'[t].pc \notin {"wait", "block", "asleep"} /\ \A u \in Threads : u # t => th'[u] = th[u]
      BY <1>0, <3>1, <3>2, Lands DEF Goes, Returns, Sets
    <3>4. wk'[w].state = wk[w].state
      BY <3>1, <3>2 DEF SetsWorker
    <3>5. QED BY <1>0, <1>2, <3>3, <3>4
  <2>3. CASE ~(Notify(t) \/ NotifyLock(t) \/ NotifyOne(t))
    BY <1>1, <1>3, <2>3, CalmCalls DEF Step
  <2>4. QED BY <2>1, <2>2, <2>3
<1>4. ASSUME NEW v \in Workers, WorkerStep(v) \/ \E k \in Tasks : EnqueueLocal(v, k) PROVE Committed(w)
  <2>0. v \in Threads
    BY <1>0, Known
  <2>1. CASE \/ Look(v) \/ Find(v) \/ FindRemote(v) \/ Steal(v) \/ FindNothing(v) \/ Rejoin(v) \/ Join(v)
             \/ \E k \in Tasks : EnqueueLocal(v, k)
             \/ SleepLock(v) /\ pool.stopping
    BY <1>1, <2>0, <2>1, CalmWork
  <2>2. CASE Count(v) \/ Uncount(v) \/ CheckBulk(v) \/ Wait(v)
    <3>1. CheckBulk(v) => Goes(v, "uncount")
      BY <1>0, <2>0, Going DEF CheckBulk, MaySleep, Somewhere, Holding
    <3>2. /\ UNCHANGED wk
          /\ \/ Goes(v, "check_bulk") \/ Goes(v, "wake_up") \/ Goes(v, "uncount")
             \/ At(v, "wait") /\ Goes(v, "block")
      BY <1>0, <2>2, <3>1, Moves DEF Moving
    <3>3. {"check_bulk", "wake_up", "uncount", "block"} \subseteq Somewhere
      BY DEF Somewhere, Holding
    <3>4. v # w => th'[w] = th[w]
      BY <1>0, <3>2 DEF Goes, Sets
    <3>5. v = w => At(v, "wait")
      BY <1>0, <2>0, <3>2, <3>3, Lands
    <3>6. QED BY <1>0, <1>2, <3>2, <3>4, <3>5 DEF Committed, At
  <2>3. CASE \/ SleepLock(v) /\ ~pool.stopping
             \/ FallAsleep(v) \/ Recheck(v) \/ GotRemote(v) \/ WakeUp(v)
    <3>1. /\ th'[v].pc \notin {"wait", "block", "asleep"} /\ \A u \in Threads : u # v => th'[u] = th[u]
          /\ \A u \in Workers : u # v => wk'[u] = wk[u]
      <4>1. \/ \E where \in {"fall_asleep", "recheck", "wake_up", "count"} : Goes(v, where)
            \/ Sets(v, [th[v] EXCEPT !.pc = "got_remote", !.task = Last(wk[v].remote)])
            \/ Runs(v) \/ Searches(v, "rejoin")
        BY <1>0, <2>3, SleepLockEffect, FallAsleepEffect, RecheckEffect, GotRemoteEffect, WakeUpEffect
      <4>2. \E q : SetsWorker(v, q) \/ UNCHANGED wk
        BY <1>0, <2>3, SleepLockEffect, FallAsleepEffect, RecheckEffect, GotRemoteEffect, WakeUpEffect
      <4>3. [th[v] EXCEPT !.pc = "got_remote", !.task = Last(wk[v].remote)].pc = "got_remote"
            /\ {"fall_asleep", "recheck", "wake_up", "count"} \subseteq Somewhere
        BY <1>0, <2>0, Known DEF ThreadState, Somewhere, Holding
      <4>4. QED BY <1>0, <2>0, <4>1, <4>2, <4>3, Lands DEF Goes, Runs, Searches, Sets, SetsWorker
    <3>2. QED BY <1>0, <1>2, <3>1
  <2>4. CASE Block(v) \/ Wake(v)
    <3> DEFINE q == [wk[v] EXCEPT !.waiting = TRUE, !.mutex = None]
               r == [wk[v] EXCEPT !.mutex = v]
    <3>1. /\ th[v].pc \in {"block", "asleep"} /\ (Goes(v, "asleep") \/ Goes(v, "wait"))
          /\ SetsWorker(v, q) \/ SetsWorker(v, r)
      BY <1>0, <2>4, BlockEffect, WakeEffect DEF At
    <3>2. q.state = wk[v].state /\ r.state = wk[v].state
      BY Known, <1>0 DEF WorkerState
    <3> HIDE DEF q, r
    <3>3. wk'[w].state = wk[w].state /\ (w # v => th'[w] = th[w])
      BY <1>0, <3>1, <3>2 DEF SetsWorker, Goes, Sets
    <3>4. QED BY <1>0, <1>2, <3>1, <3>3 DEF Committed
  <2>5. QED BY <1>4, <2>1, <2>2, <2>3, <2>4 DEF WorkerStep
<1>5. ASSUME NEW c \in Clients, NEW k \in Tasks, EnqueueRemote(c, k) PROVE Committed(w)
  <2>1. PICK v \in Workers : /\ SetsWorker(v, [wk[v] EXCEPT !.remote = <<k>> \o wk[v].remote])
                             /\ \A u \in Threads : u # c => th'[u] = th[u]
    BY <1>0, <1>5, EnqueueRemoteEffect DEF Sets
  <2>2. w # c /\ wk'[w].state = wk[w].state
    BY <1>0, <2>1, Known, OneQueue
  <2>3. QED BY <1>0, <1>2, <2>1, <2>2
<1>6. ASSUME NEW v \in Workers, wk' = [wk EXCEPT ![v].waiting = FALSE], UNCHANGED th PROVE Committed(w)
  <2>1. SetsWorker(v, [wk[v] EXCEPT !.waiting = FALSE]) /\ wk[v] \in WorkerState
    BY <1>0, <1>6, Woken, Known
  <2>2. wk'[w].state = wk[w].state
    BY <2>1 DEF SetsWorker, WorkerState
  <2>3. QED BY <1>2, <1>6, <2>2
<1>7. (\E v \in Workers : SpuriousWakeup(v)) \/ StopNotify => Committed(w)
  BY <1>0, <1>6 DEF SpuriousWakeup, StopNotify, Types
<1>8. BeginDestroy \/ StopLock \/ JoinThreads \/ UNCHANGED vars => Committed(w)
  BY <1>2 DEF BeginDestroy, StopLock, JoinThreads, vars
<1>9. QED BY <1>3, <1>4, <1>5, <1>7, <1>8 DEF Next, DestructorStep, Done


(* What a step does to a listed job, unless it publishes it.               *)
LEMMA JobFrame ==
    ASSUME IInv, [Next]_vars, NEW j \in Jobs, j \in Range(pool'.list),
           ~\E t \in Threads : RunBulk(t, j)
    PROVE  /\ j \in Range(pool.list) /\ job'[j].by = job[j].by
           /\ \/ job'[j].next = job[j].next
              \/ job'[j].next = job[j].next + 1 /\ \E t \in Team(j) : At(t, "claim")
           /\ \A t \in Team(j)' : t \in Team(j) \/ t \in Workers
<1> DEFINE Frame == /\ j \in Range(pool.list) /\ job'[j].by = job[j].by
                    /\ \/ job'[j].next = job[j].next
                       \/ job'[j].next = job[j].next + 1 /\ \E t \in Team(j) : At(t, "claim")
                    /\ \A t \in Team(j)' : t \in Team(j) \/ t \in Workers
<1>0. /\ Types /\ CallInv /\ ListInv /\ job[j] \in JobState
      /\ \A t \in Threads : th[t] \in ThreadState
      /\ \A i \in Jobs : job[i] \in JobState /\ i # None
  BY Known DEF IInv, Types
<1>1. ASSUME job'[j].by = job[j].by, job'[j].next = job[j].next, pool'.list = pool.list,
             \A t \in Threads : th'[t].job = th[t].job
      PROVE  Frame
  BY <1>1 DEF Team
<1>2. ASSUME Tame PROVE Frame
  BY <1>1, <1>2 DEF Tame, TameThreads
<1>3. ASSUME NEW w \in Workers, FindNothing(w) PROVE Frame
  <2> DEFINE r == [th[w] EXCEPT !.pc = th[w].search]
  <2>1. UNCHANGED <<job, pool>> /\ Sets(w, r) /\ w \in Threads
    BY <1>0, <1>3, Moves, Known DEF Moving, Goes
  <2>2. r.job = th[w].job
    BY <1>0, <2>1 DEF ThreadState
  <2> HIDE DEF r
  <2>3. QED BY <1>1, <2>1, <2>2 DEF Sets
<1>4. ASSUME BeginDestroy \/ StopLock \/ StopNotify \/ JoinThreads PROVE Frame
  <2>1. UNCHANGED <<job, th>> /\ pool'.list = pool.list
    BY <1>0, <1>4 DEF BeginDestroy, StopLock, StopNotify, JoinThreads, Types, PoolState
  <2>2. QED BY <1>1, <2>1
<1>5. ASSUME NEW t \in Threads, Claim(t) PROVE Frame
  <2>1. PICK i \in Jobs : i = th[t].job
    BY <1>0, <1>5, ClaimEffect
  <2> DEFINE q == [job[i] EXCEPT !.next = job[i].next + 1]
  <2>2. PICK c, where : SetsJob(i, q) /\ Sets(t, [th[t] EXCEPT !.chunk = c, !.pc = where])
    BY <1>0, <1>5, <2>1, ClaimEffect
  <2> DEFINE r == [th[t] EXCEPT !.chunk = c, !.pc = where]
  <2>3. At(t, "claim") /\ UNCHANGED pool
    BY <1>0, <1>5, ClaimEffect
  <2>4. r.job = i /\ q.by = job[i].by /\ q.next = job[i].next + 1
    BY <1>0, <2>1 DEF ThreadState, JobState
  <2> HIDE DEF r, q
  <2>5. \A u \in Threads : th'[u].job = th[u].job
    BY <2>1, <2>2, <2>4 DEF Sets, r
  <2>6. t \in Team(i)
    BY <2>1 DEF Team
  <2>7. QED BY <1>1, <2>2, <2>3, <2>4, <2>5, <2>6 DEF SetsJob, Team
<1>6. ASSUME NEW t \in Threads, RunChunk(t) PROVE Frame
  <2>1. PICK i \in Jobs : i = th[t].job
    BY <1>0, <1>6, RunChunkEffect
  <2> DEFINE r == [th[t] EXCEPT !.pc = "claim"]
  <2>2. PICK ran : SetsJob(i, [job[i] EXCEPT !.ran = ran])
    BY <1>0, <1>6, <2>1, RunChunkEffect
  <2> DEFINE q == [job[i] EXCEPT !.ran = ran]
  <2>3. Sets(t, r) /\ UNCHANGED pool
    BY <1>0, <1>6, RunChunkEffect DEF Goes
  <2>4. r.job = th[t].job /\ q.by = job[i].by /\ q.next = job[i].next
    BY <1>0, <2>1 DEF ThreadState, JobState
  <2> HIDE DEF r, q
  <2>5. QED BY <1>1, <2>2, <2>3, <2>4 DEF Sets, SetsJob, q
<1>7. ASSUME NEW t \in Threads, Unlist(t) PROVE Frame
  <2> DEFINE r == [th[t] EXCEPT !.pc = "drop"]
  <2>1. Sets(t, r) /\ UNCHANGED job /\ Range(pool'.list) \subseteq Range(pool.list)
    BY <1>0, <1>7, UnlistEffect DEF Goes
  <2>2. r.job = th[t].job
    BY <1>0 DEF ThreadState
  <2> HIDE DEF r
  <2>3. QED BY <2>1, <2>2 DEF Sets, Team
<1>8. ASSUME NEW t \in Threads, Drop(t) PROVE Frame
  <2>1. PICK i \in Jobs : i = th[t].job
    BY <1>0, <1>8, DropEffect
  <2> DEFINE r == [th[t] EXCEPT !.pc = th[t].home, !.job = None, !.chunk = 0, !.home = "user"]
  <2>2. PICK refs, life : SetsJob(i, [job[i] EXCEPT !.refs = refs, !.life = life])
    BY <1>0, <1>8, <2>1, DropEffect
  <2> DEFINE q == [job[i] EXCEPT !.refs = refs, !.life = life]
  <2>3. Sets(t, r) /\ UNCHANGED pool
    BY <1>0, <1>8, DropEffect
  <2>4. r.job = None /\ q.by = job[i].by /\ q.next = job[i].next
    BY <1>0, <2>1 DEF ThreadState, JobState
  <2> HIDE DEF r, q
  <2>5. job'[j].by = job[j].by /\ job'[j].next = job[j].next
    BY <2>2, <2>4 DEF SetsJob, q
  <2>6. QED BY <1>0, <2>3, <2>4, <2>5 DEF Sets, Team
<1>9. ASSUME NEW t \in Threads, NEW i \in Jobs, RunBulk(t, i) PROVE Frame
  <2>0. i # j
    BY <1>9
  <2> DEFINE p == [job[i] EXCEPT !.life = "done", !.ran = [k \in Indices |-> 1]]
             q == [job[i] EXCEPT !.life = "live", !.refs = 2, !.by = t]
             r == [th[t] EXCEPT !.pc = "participate", !.job = i, !.home = th[t].pc]
  <2>1. \/ SetsJob(i, p) /\ UNCHANGED <<pool, th>>
        \/ SetsJob(i, q) /\ Sets(t, r) /\ pool' = [pool EXCEPT !.list = Append(pool.list, i)]
    BY <1>0, <1>9, RunBulkEffect
  <2>2. r.job = i
    BY <1>0 DEF ThreadState
  <2> HIDE DEF p, q, r
  <2>3. job'[j] = job[j]
    BY <2>0, <2>1 DEF SetsJob
  <2>4. CASE UNCHANGED <<pool, th>>
    BY <1>1, <2>3, <2>4
  <2>5. CASE Sets(t, r) /\ pool' = [pool EXCEPT !.list = Append(pool.list, i)]
    <3>1. pool'.list = Append(pool.list, i) /\ pool.list \in Seq(Jobs)
      BY <1>0, <2>5 DEF Types, PoolState
    <3>2. Range(pool'.list) = Range(pool.list) \cup {i}
      <4>1. i \notin Range(pool.list) /\ IsInjective(pool.list)
        BY <1>0, <1>9, RunBulkEffect DEF ListInv
      <4>2. QED BY <3>1, <4>1, Appended
    <3>3. QED BY <2>0, <2>2, <2>3, <2>5, <3>2 DEF Sets, Team
  <2>6. QED BY <2>1, <2>4, <2>5
<1>10. ASSUME NEW w \in Workers, Join(w) PROVE Frame
  <2>1. UNCHANGED pool /\ w \in Threads
    BY <1>0, <1>10, JoinEffect, Known
  <2>2. CASE \E i \in Joinable : /\ i \in Jobs /\ SetsJob(i, [job[i] EXCEPT !.refs = job[i].refs + 1])
                                 /\ Sets(w, [th[w] EXCEPT !.pc = "participate", !.job = i, !.home = "look"])
    <3>1. PICK i \in Jobs : /\ SetsJob(i, [job[i] EXCEPT !.refs = job[i].refs + 1])
                            /\ Sets(w, [th[w] EXCEPT !.pc = "participate", !.job = i, !.home = "look"])
      BY <2>2
    <3> DEFINE q == [job[i] EXCEPT !.refs = job[i].refs + 1]
    <3>2. q.by = job[i].by /\ q.next = job[i].next
      BY <1>0 DEF JobState
    <3> HIDE DEF q
    <3>3. job'[j].by = job[j].by /\ job'[j].next = job[j].next
      BY <3>1, <3>2 DEF SetsJob, q
    <3>4. QED BY <2>1, <3>1, <3>3 DEF Sets, Team
  <2>3. CASE UNCHANGED job /\ (Searches(w, "sleep") \/ Goes(w, "sleep"))
    <3> DEFINE r == [th[w] EXCEPT !.pc = "find", !.search = "sleep"]
               s == [th[w] EXCEPT !.pc = "sleep"]
    <3>1. r.job = th[w].job /\ s.job = th[w].job
      BY <1>0, <2>1 DEF ThreadState
    <3>2. Sets(w, r) \/ Sets(w, s)
      BY <2>3 DEF Searches, Goes
    <3> HIDE DEF r, s
    <3>3. \A t \in Threads : th'[t].job = th[t].job
      BY <3>1, <3>2 DEF Sets
    <3>4. QED BY <1>1, <2>1, <2>3, <3>3
  <2>4. QED BY <1>0, <1>10, <2>2, <2>3, JoinEffect
<1>11. QED
  BY <1>2, <1>3, <1>4, <1>5, <1>6, <1>7, <1>8, <1>9, <1>10, TameCalls, TameWork, TameRest
  DEF Next, Step, WorkerStep, DestructorStep, Done

(* A publisher that looks for help is moved only by its own steps.         *)
LEMMA Unmoved ==
    ASSUME IInv, [Next]_vars, NEW p \in Threads, th[p].pc \in {"participate", "wake", "scan", "notify"},
           ~(WakeIdle(p) \/ Scan(p) \/ Notify(p) \/ Participate(p))
    PROVE  th'[p] = th[p]
<1>0. /\ th \in [Threads -> ThreadState] /\ owner.at \in Workers
      /\ \A w \in Workers : w \in Threads
      /\ \A c \in Clients : c \in Threads
  BY Known DEF IInv, Types
<1>1. ASSUME NEW t \in Threads, \/ WakeIdle(t) \/ Scan(t) \/ Notify(t) \/ Participate(t) \/ NotifyLock(t) \/ NotifyOne(t)
      PROVE  th'[p] = th[p]
  <2>1. NotifyLock(t) \/ NotifyOne(t) => t # p
    BY DEF NotifyLock, NotifyOne, At
  <2>2. t # p => \/ th'[p] = th[p]
    BY <1>0, <1>1 DEF WakeIdle, Scan, Notify, Participate, NotifyLock, NotifyOne, Goto, Return
  <2>3. QED BY <1>1, <2>1, <2>2
<1>2. ASSUME NEW t \in Threads, Claim(t) \/ RunChunk(t) \/ Unlist(t) \/ Drop(t) \/ \E j \in Jobs : RunBulk(t, j)
      PROVE  th'[p] = th[p]
  <2>1. t # p
    BY <1>2 DEF Claim, RunChunk, Unlist, Drop, RunBulk, At
  <2>2. QED BY <1>0, <1>2, <2>1 DEF Claim, RunChunk, Unlist, Drop, RunBulk, Goto
<1>3. ASSUME NEW w \in Workers, WorkerStep(w) \/ \E k \in Tasks : EnqueueLocal(w, k)
      PROVE  th'[p] = th[p]
  <2>1. w # p
    BY <1>3 DEF WorkerStep, Look, Find, FindRemote, Steal, FindNothing, SleepLock, FallAsleep, Recheck, GotRemote,
                Count, CheckBulk, Wait, Block, Wake, Uncount, WakeUp, Rejoin, Join, EnqueueLocal, At
  <2>2. CASE Look(w) \/ Find(w) \/ FindRemote(w) \/ Steal(w) \/ FindNothing(w) \/ SleepLock(w) \/ FallAsleep(w)
    BY <1>0, <2>1, <2>2 DEF Look, Find, FindRemote, Steal, FindNothing, SleepLock, FallAsleep, LastLook,
                            Goto, Search, Execute
  <2>3. CASE Recheck(w) \/ GotRemote(w) \/ Count(w) \/ CheckBulk(w) \/ Wait(w) \/ Block(w) \/ Wake(w)
    BY <1>0, <2>1, <2>3 DEF Recheck, GotRemote, Count, CheckBulk, Wait, Block, Wake, Goto, Search, Execute
  <2>4. CASE Uncount(w) \/ WakeUp(w) \/ Rejoin(w) \/ Join(w) \/ \E k \in Tasks : EnqueueLocal(w, k)
    BY <1>0, <2>1, <2>4 DEF Uncount, WakeUp, Rejoin, Join, EnqueueLocal, Goto, Search
  <2>5. QED BY <1>3, <2>2, <2>3, <2>4 DEF WorkerStep
<1>4. ASSUME NEW c \in Clients, NEW k \in Tasks, EnqueueRemote(c, k) PROVE th'[p] = th[p]
  BY <1>0, <1>4 DEF EnqueueRemote, At
<1>5. ASSUME \/ BeginDestroy \/ StopLock \/ StopNotify \/ JoinThreads \/ UNCHANGED vars
             \/ \E w \in Workers : SpuriousWakeup(w)
      PROVE  th'[p] = th[p]
  BY <1>5 DEF BeginDestroy, StopLock, StopNotify, JoinThreads, vars, SpuriousWakeup
<1>6. QED BY <1>1, <1>2, <1>3, <1>4, <1>5 DEF Next, Step, DestructorStep, Done

(* The publisher finds a worker that is not committed, or goes on looking. *)
LEMMA RecruitsStep ==
    ASSUME IInv, [Next]_vars, N # 1, ChunkCount # 1,
           NEW j \in Joinable, NEW p \in Threads, Recruits(p, j), job'[j].next = 0
    PROVE  Helper(p)' \/ Recruits(p, j)'
<1> SUFFICES ASSUME ~Helper(p)' PROVE Recruits(p, j)'
  OBVIOUS
<1>0. /\ Types /\ CallInv /\ SleepersInv /\ th[p] \in ThreadState /\ p # None /\ j \in Jobs
      /\ N \in Nat /\ N >= 2 /\ ChunkCount \in Nat /\ ChunkCount >= 2
  <2>1. j \in Jobs
    BY DEF Joinable, Range, IInv, Types, PoolState
  <2>2. QED BY <2>1, Known, ThreadPoolAssumption, ChunkCountRange DEF IInv
<1>1. /\ job[j].next = 0 /\ th[p].job = j /\ th[p].pc \in {"participate", "wake", "scan", "notify"}
      /\ th[p].pc \in {"scan", "notify"} => Passed(p)
  BY DEF Recruits
<1>2. \A w \in Workers \ {p} : Committed(w)' /\ Committed(w)
  <2>1. \A w \in Workers \ {p} : Committed(w)'
    BY DEF Helper
  <2>2. QED BY <2>1, CommittedBefore
<1>3. PICK w \in Workers : w # p
  BY <1>0 DEF Workers
<1>4. CASE th'[p] = th[p]
  BY <1>1, <1>2, <1>4 DEF Recruits, Passed
<1>5. CASE Participate(p)
  <2> DEFINE r == [th[p] EXCEPT !.pc = "wake", !.back = "claim"]
  <2>1. Sets(p, r)
    <3>1. job[th[p].job].next + 1 < ChunkCount
      BY <1>0, <1>1
    <3>2. QED BY <1>0, <1>5, <3>1, ParticipateEffect
  <2>2. r.pc = "wake" /\ r.job = j
    BY <1>0, <1>1 DEF ThreadState
  <2> HIDE DEF r
  <2>3. QED BY <2>1, <2>2 DEF Recruits, Sets
<1>6. CASE WakeIdle(p)
  <2> DEFINE r == [th[p] EXCEPT !.pc = "scan", !.scanning = TRUE]
  <2>1. pool.sleepers # 0
    <3>1. w \in Sleepers /\ Sleepers \in SUBSET Threads
      BY <1>2, <1>3 DEF Committed, Sleepers, Counted, Threads
    <3>2. Cardinality(Sleepers) # 0
      BY <3>1, TeamFinite, FS_EmptySet
    <3>3. QED BY <1>0, <3>2 DEF SleepersInv
  <2>2. At(p, "wake") /\ Sets(p, r)
    BY <1>0, <1>6, <2>1, WakeIdleEffect
  <2>3. r.pc = "scan" /\ r.job = j /\ r.target = th[p].target
    BY <1>0, <1>1 DEF ThreadState
  <2>4. th[p].target = 1
    BY <1>0, <2>2 DEF CallInv, Call, Notifying, At
  <2> HIDE DEF r
  <2>5. Passed(p)'
    BY <2>2, <2>3, <2>4 DEF Passed, Sets, Workers
  <2>6. QED BY <2>2, <2>3, <2>5 DEF Recruits, Sets
<1>7. CASE Scan(p)
  <2>1. PICK i \in Nat : i = th[p].target
    BY <1>0 DEF ThreadState
  <2>2. At(p, "scan") /\ i >= 1 /\ \A v \in Workers \ {p} : ~(v < i)
    BY <1>0, <1>1, <1>2, <1>7, <2>1, ScanEffect DEF Passed, At
  <2>3. i \in Workers
    BY <1>0, <1>3, <2>2 DEF Workers
  <2> DEFINE q == [th[p] EXCEPT !.pc = "notify"]
             r == [th[p] EXCEPT !.target = i + 1]
  <2>4. q.pc = "notify" /\ q.job = j /\ q.target = i /\ r.pc = "scan" /\ r.job = j /\ r.target = i + 1
    BY <1>0, <1>1, <2>1, <2>2 DEF ThreadState, At
  <2>5. Sets(p, q) \/ ((i = p \/ wk[i].state # "sleeping") /\ Sets(p, r))
    BY <1>0, <1>7, <2>1, <2>3, ScanEffect DEF Goes
  <2> HIDE DEF q, r
  <2>6. CASE Sets(p, q)
    <3>1. Passed(p)'
      BY <2>2, <2>4, <2>6 DEF Passed, Sets
    <3>2. QED BY <2>4, <2>6, <3>1 DEF Recruits, Sets
  <2>7. CASE (i = p \/ wk[i].state # "sleeping") /\ Sets(p, r)
    <3>1. i = p
      BY <1>2, <2>3, <2>7 DEF Committed
    <3>2. \A v \in Workers \ {p} : ~(v < i + 1)
      BY <2>1, <2>2, <3>1 DEF Workers
    <3>3. Passed(p)'
      BY <2>2, <2>4, <2>7, <3>2 DEF Passed, Sets
    <3>4. QED BY <2>4, <2>7, <3>3 DEF Recruits, Sets
  <2>8. QED BY <2>5, <2>6, <2>7
<1>8. CASE Notify(p)
  <2>1. PICK i \in Workers : i = th[p].target /\ SetsWorker(i, [wk[i] EXCEPT !.state = "notified"])
    BY <1>0, <1>8, NotifyEffect
  <2>2. i # p
    BY <1>0, <1>1, <1>8, <2>1 DEF Notify, At, CallInv, Call, Helping, Working, Calling, Notifying
  <2>3. wk'[i].state = "notified"
    BY <1>0, <2>1, Known DEF SetsWorker, WorkerState
  <2>4. QED BY <1>2, <2>2, <2>3 DEF Committed
<1>9. QED BY <1>1, <1>4, <1>5, <1>6, <1>7, <1>8, Unmoved

LEMMA HelpStep ==
    ASSUME IInv, JobsInv, HelpInv, [Next]_vars
    PROVE  HelpInv'
<1> SUFFICES ASSUME NEW j \in Range(pool'.list) PROVE Helped(j)'
  BY DEF HelpInv
<1>0. /\ Types /\ CallInv /\ ListInv /\ j \in Jobs /\ job[j] \in JobState /\ ChunkCount \in Nat
  BY TypesStep, ChunkCountRange DEF IInv, Types, PoolState, Range
<1>1. ASSUME NEW t \in Threads, RunBulk(t, j) PROVE Helped(j)'
  <2> DEFINE p == [job[j] EXCEPT !.life = "done", !.ran = [k \in Indices |-> 1]]
             q == [job[j] EXCEPT !.life = "live", !.refs = 2, !.by = t]
             r == [th[t] EXCEPT !.pc = "participate", !.job = j, !.home = th[t].pc]
  <2>1. /\ job[j].life = "new"
        /\ \/ UNCHANGED pool
           \/ N # 1 /\ ChunkCount # 1 /\ SetsJob(j, q) /\ Sets(t, r)
    BY <1>0, <1>1, RunBulkEffect
  <2>2. j \notin Range(pool.list) /\ j # None /\ \A u \in Threads : th[u].job # j
    BY <1>0, <2>1, Known DEF ListInv
  <2>3. job[j].next = 0
    BY <1>0, <2>1 DEF JobsInv, JobInv, RanChunks
  <2>4. q.by = t /\ q.next = 0 /\ r.job = j /\ r.pc = "participate"
    BY <1>0, <2>3, Known DEF JobState, ThreadState
  <2> HIDE DEF p, q, r
  <2>5. N # 1 /\ ChunkCount # 1 /\ SetsJob(j, q) /\ Sets(t, r)
    BY <2>1, <2>2
  <2>6. Recruits(t, j)' /\ job'[j].by = t
    BY <2>4, <2>5 DEF Recruits, Sets, SetsJob
  <2>7. \A u \in Team(j)' : u = t
    BY <2>2, <2>5 DEF Team, Sets
  <2>8. QED BY <2>5, <2>6, <2>7 DEF Helped
<1>2. CASE ~\E t \in Threads : RunBulk(t, j)
  <2>1. PICK p \in Threads : p = job[j].by
    BY <1>0, <1>2, JobFrame DEF HelpInv, Helped
  <2>2. /\ j \in Range(pool.list) /\ job'[j].by = p
        /\ \/ job'[j].next = job[j].next
           \/ job'[j].next = job[j].next + 1 /\ \E t \in Team(j) : At(t, "claim")
        /\ \A t \in Team(j)' : t \in Team(j) \/ t \in Workers
    BY <1>0, <1>2, <2>1, JobFrame
  <2>3. /\ N # 1 /\ ChunkCount # 1
        /\ \A t \in Team(j) : t # p => t \in Workers
        /\ job[j].next < ChunkCount => Helper(p) \/ Recruits(p, j)
    BY <2>1, <2>2 DEF HelpInv, Helped
  <2>4. ASSUME job'[j].next < ChunkCount PROVE Helper(p)' \/ Recruits(p, j)'
    <3>1. job[j].next < ChunkCount /\ j \in Joinable
      BY <1>0, <2>2, <2>4 DEF JobState, Joinable
    <3>2. CASE Helper(p)
      BY <3>1, <3>2, CommittedBefore DEF Helper
    <3>3. CASE ~Helper(p)
      <4>1. Recruits(p, j) /\ \A w \in Workers \ {p} : Committed(w)
        BY <2>3, <3>1, <3>3 DEF Helper
      <4>2. \A t \in Team(j) : ~At(t, "claim")
        BY <2>3, <4>1 DEF Recruits, Committed, At
      <4>3. job'[j].next = 0
        BY <2>2, <4>1, <4>2 DEF Recruits
      <4>4. QED BY <2>3, <3>1, <4>1, <4>3, RecruitsStep
    <3>4. QED BY <3>2, <3>3
  <2>5. QED BY <2>1, <2>2, <2>3, <2>4 DEF Helped
<1>3. QED BY <1>1, <1>2

THEOREM HelpInvariance == Spec => []HelpInv
<1>1. Init => HelpInv
  BY DEF Init, HelpInv, Range
<1>2. IInv /\ JobsInv /\ HelpInv /\ [Next]_vars => HelpInv'
  BY HelpStep
<1>3. QED BY Invariance, JobsInvariance, <1>1, <1>2, PTL DEF Spec

(* A job with chunks to claim, whose publisher has looked for help, has a  *)
(* worker besides its publisher that is awake or being woken (publish in   *)
(* run_bulk, wake_idle, has_bulk_job).                                     *)
THEOREM HelpFound == Spec => []JobFindsHelp
<1>1. IInv /\ HelpInv => JobFindsHelp
  <2> SUFFICES ASSUME IInv, HelpInv, NEW j \in Joinable, ~Recruiting(job[j].by, j)
               PROVE  \E w \in Workers \ {job[j].by} : ~Asleep(w) \/ Waking(w)
    BY DEF JobFindsHelp
  <2>1. Helper(job[j].by)
    BY DEF HelpInv, Helped, Joinable, Recruits, Recruiting
  <2>2. PICK w \in Workers \ {job[j].by} : ~Committed(w)
    BY <2>1 DEF Helper
  <2>3. Asleep(w) => Waking(w)
    BY <2>2 DEF IInv, SleepInv, Slept, Asleep, At, Committed, Notifies, Waking
  <2>4. QED BY <2>2, <2>3
<1>2. QED BY Invariance, HelpInvariance, <1>1, PTL
=============================================================================
