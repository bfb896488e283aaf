--------------------------- MODULE StopToken_proofs ---------------------------
(***************************************************************************)
(* The invariants of StopToken, for any number of threads and callbacks:   *)
(* nothing is used after it was destroyed, and a stop request reaches each *)
(* callback once.                                                          *)
(***************************************************************************)
EXTENDS StopToken, SequenceTheorems, TLAPS

(* The callbacks in the list, the bodies a thread is inside, and the calls *)
(* it may be in.                                                           *)
Listed == Range(src.list)
Bodies(t) == Range(th[t].stack)
Notify(f) == f.kind = "notify"
Adding(t) == th[t].pc \in {"add_lock", "add"}
Removing(t) == th[t].pc \in {"rm_lock", "rm_unlink", "rm_wait"}
Looping(t) == th[t].pc \in {"rs_loop", "rs_exec", "rs_complete", "rs_relock"}
Holding(t) == th[t].pc \in {"add", "rm_unlink", "rs_loop"}

(* The call of request_stop that made the request has not returned. *)
Notifying(t) == Looping(t) \/ \E f \in Bodies(t) : Notify(f)

(* The lock has one holder, and no callback is added after the request. *)
LockInv ==
    /\ \A t \in Threads : Holding(t) => src.locked
    /\ \A t, u \in Threads : Holding(t) /\ Holding(u) => t = u
    /\ \A t \in Threads : At(t, "add") => ~src.stop

(* One call makes the request, and it runs one body at a time. *)
NotifierInv ==
    /\ \A t \in Threads : Notifying(t) => src.notifying = t /\ src.destroyedPtr /\ wins = 0
    /\ \A t \in Threads : \A f \in Bodies(t) : Notify(f) => ~Looping(t)
    /\ \A t \in Threads : \A f, g \in Bodies(t) : Notify(f) /\ Notify(g) => f = g
    /\ src.stop <=> src.notifying # None
    /\ ~src.stop => wins = 0
    /\ src.stop /\ (\A t \in Threads : ~Notifying(t)) => Listed = {}

(* Who is left when the source is destroyed. *)
SourceInv ==
    /\ local.destroyed => ~src.alive
    /\ ~src.alive => /\ \A t \in Threads : At(t, "user")
                     /\ \A c \in Callbacks : cb[c].source => cb[c].life = "dead"
                     /\ \A t \in Threads : \A f \in Bodies(t) : Notify(f) => local.destroyed

(* A listed callback is registered once and has not run. *)
ListInv ==
    /\ IsInjective(src.list)
    /\ \A c \in Listed : cb[c].life \in {"alive", "destroying"} /\ cb[c].source /\ cb[c].runs = 0

(* The callback a call is about, and that no other call is. *)
AddingInv ==
    \A t \in Threads : Adding(t) =>
        /\ Arg(t) \in Callbacks /\ cb[Arg(t)].life = "constructing"
        /\ cb[Arg(t)].source /\ cb[Arg(t)].runs = 0
        /\ \A u \in Threads : Adding(u) /\ Arg(u) = Arg(t) => u = t

RemovingInv ==
    \A t \in Threads : Removing(t) =>
        /\ Arg(t) \in Callbacks /\ cb[Arg(t)].life = "destroying" /\ cb[Arg(t)].source
        /\ \A u \in Threads : Removing(u) /\ Arg(u) = Arg(t) => u = t

TakenInv ==
    \A t \in Threads : th[t].pc \in {"rs_exec", "rs_complete"} =>
        /\ Arg(t) \in Callbacks /\ cb[Arg(t)].life \in {"alive", "destroying"} /\ cb[Arg(t)].source
        /\ At(t, "rs_exec") => cb[Arg(t)].runs = 0 /\ Arg(t) \notin Listed
        /\ At(t, "rs_complete") => cb[Arg(t)].runs = 1 /\ ~cb[Arg(t)].completed

CallInv == AddingInv /\ RemovingInv /\ TakenInv

(* The callback a body belongs to, and that it has one body. *)
BodyOf(f) ==
    /\ cb[f.cb].runs = 1
    /\ ~Notify(f) => cb[f.cb].life = "constructing" /\ ~cb[f.cb].source
    /\ Notify(f) => /\ cb[f.cb].life \in {"alive", "destroying", "dead"}
                    /\ cb[f.cb].source /\ cb[f.cb].removedPtr /\ ~cb[f.cb].completed
                    /\ cb[f.cb].life = "dead" => local.removed

OneBody ==
    /\ \A t \in Threads : IsInjective(th[t].stack)
    /\ \A t, u \in Threads : \A f \in Bodies(t), g \in Bodies(u) : f.cb = g.cb => t = u /\ f = g

BodyInv == OneBody /\ \A t \in Threads : \A f \in Bodies(t) : BodyOf(f)

(* When a callback has run. *)
RunInv ==
    \A c \in Callbacks :
        /\ cb[c].runs <= IF src.stop THEN 1 ELSE 0
        /\ cb[c].life = "unborn" => cb[c].runs = 0
        /\ cb[c].completed => cb[c].runs = 1
        /\ cb[c].life = "alive" /\ cb[c].runs = 0 =>
               c \in Listed \/ \E t \in Threads : At(t, "rs_exec") /\ Arg(t) = c

IInv == TypeOK /\ LockInv /\ NotifierInv /\ SourceInv /\ ListInv /\ CallInv /\ BodyInv /\ RunInv

-----------------------------------------------------------------------------
(* What the list and the stack do to elements that occur once.             *)

(* What is put in front of a sequence without repetitions. *)
LEMMA Prepended ==
    ASSUME NEW S, NEW s \in Seq(S), NEW e \in S
    PROVE  /\ <<e>> \o s \in Seq(S)
           /\ Range(<<e>> \o s) = Range(s) \cup {e}
           /\ IsInjective(s) /\ e \notin Range(s) => IsInjective(<<e>> \o s)
<1> DEFINE r == <<e>> \o s
<1>1. <<e>> \in Seq(S) /\ Len(<<e>>) = 1 /\ <<e>>[1] = e
  OBVIOUS
<1>2. r \in Seq(S) /\ Len(r) = Len(s) + 1
  BY <1>1, ConcatProperties
<1>3. r[1] = e /\ \A i \in 1 .. Len(s) : r[i + 1] = s[i]
  BY <1>1, ConcatProperties
<1>4. DOMAIN r = 1 .. Len(s) + 1 /\ DOMAIN s = 1 .. Len(s) /\ Len(s) \in Nat
  BY <1>2, LenProperties
<1>5. \A i \in 1 .. Len(s) + 1 : i = 1 \/ (i - 1 \in 1 .. Len(s) /\ r[i] = s[i - 1])
  BY <1>3, <1>4
<1> HIDE DEF r
<1>6. Range(r) = Range(s) \cup {e}
  <2>1. \A i \in DOMAIN r : r[i] \in Range(s) \cup {e}
    BY <1>3, <1>4, <1>5 DEF Range
  <2>2. \A i \in DOMAIN s : i + 1 \in DOMAIN r /\ s[i] = r[i + 1]
    BY <1>3, <1>4
  <2>3. 1 \in DOMAIN r /\ r[1] = e
    BY <1>3, <1>4
  <2>4. QED BY <2>1, <2>2, <2>3 DEF Range
<1>7. ASSUME IsInjective(s), e \notin Range(s), NEW i \in DOMAIN r, NEW j \in DOMAIN r, r[i] = r[j]
      PROVE  i = j
  <2>1. \A k \in DOMAIN s : s[k] # e
    BY <1>7 DEF Range
  <2>2. \A k, l \in DOMAIN s : s[k] = s[l] => k = l
    BY <1>7 DEF IsInjective
  <2>3. CASE i = 1 \/ j = 1
    BY <1>3, <1>4, <1>5, <1>7, <2>1, <2>3
  <2>4. CASE i # 1 /\ j # 1
    <3>1. i - 1 = j - 1
      BY <1>4, <1>5, <1>7, <2>2, <2>4
    <3>2. QED BY <1>4, <3>1
  <2>5. QED BY <2>3, <2>4
<1>8. QED BY <1>2, <1>6, <1>7 DEF IsInjective, r

(* What is left when the first element is taken off. *)
LEMMA TakenOff ==
    ASSUME NEW S, NEW s \in Seq(S), s # << >>, IsInjective(s)
    PROVE  /\ Head(s) \in Range(s) /\ Head(s) \in S /\ Tail(s) \in Seq(S) /\ Len(Tail(s)) = Len(s) - 1
           /\ Range(Tail(s)) = Range(s) \ {Head(s)}
           /\ IsInjective(Tail(s))
<1>1. Len(s) \in Nat \ {0} /\ DOMAIN s = 1 .. Len(s) /\ Head(s) = s[1] /\ Head(s) \in S
  BY HeadTailProperties, LenProperties, EmptySeq
<1>2. Tail(s) \in Seq(S) /\ Len(Tail(s)) = Len(s) - 1 /\ DOMAIN Tail(s) = 1 .. Len(s) - 1
  BY HeadTailProperties, LenProperties
<1>3. \A i \in 1 .. Len(s) - 1 : Tail(s)[i] = s[i + 1] /\ i + 1 \in DOMAIN s
  BY <1>1, HeadTailProperties
<1>4. \A i, j \in DOMAIN s : s[i] = s[j] => i = j
  BY DEF IsInjective
<1>5. Range(Tail(s)) = Range(s) \ {Head(s)}
  <2>1. \A i \in DOMAIN Tail(s) : i + 1 # 1 /\ Tail(s)[i] = s[i + 1] /\ i + 1 \in DOMAIN s
    BY <1>1, <1>2, <1>3
  <2>2. \A i \in DOMAIN s : s[i] # s[1] => i - 1 \in DOMAIN Tail(s) /\ s[i] = Tail(s)[i - 1]
    BY <1>1, <1>2, <1>3
  <2>3. 1 \in DOMAIN s
    BY <1>1
  <2>4. QED BY <1>1, <1>4, <2>1, <2>2, <2>3 DEF Range
<1>6. IsInjective(Tail(s))
  BY <1>1, <1>2, <1>3, <1>4 DEF IsInjective
<1>7. 1 \in DOMAIN s
  BY <1>1
<1>8. QED BY <1>1, <1>2, <1>5, <1>6, <1>7 DEF Range

(* What is left when one element is removed. *)
LEMMA Removed ==
    ASSUME NEW S, NEW s \in Seq(S), NEW e \in Range(s), IsInjective(s)
    PROVE  LET r == RemoveAt(s, CHOOSE i \in DOMAIN s : s[i] = e)
           IN  r \in Seq(S) /\ Range(r) = Range(s) \ {e} /\ IsInjective(r)
<1> DEFINE k == CHOOSE i \in DOMAIN s : s[i] = e
           a == SubSeq(s, 1, k - 1)
           b == SubSeq(s, k + 1, Len(s))
           r == a \o b
<1>1. k \in DOMAIN s /\ s[k] = e
  BY DEF Range
<1>2. Len(s) \in Nat /\ DOMAIN s = 1 .. Len(s) /\ \A i \in 1 .. Len(s) : s[i] \in S
  BY LenProperties, ElementOfSeq
<1> HIDE DEF k
<1>3. a \in Seq(S) /\ Len(a) = k - 1 /\ \A i \in 1 .. k - 1 : a[i] = s[i]
  BY <1>1, <1>2, SubSeqProperties
<1>4. b \in Seq(S) /\ Len(b) = Len(s) - k /\ \A i \in 1 .. Len(s) - k : b[i] = s[k + i]
  BY <1>1, <1>2, SubSeqProperties
<1> HIDE DEF a, b
<1>5. /\ r \in Seq(S) /\ Len(r) = Len(s) - 1
      /\ \A i \in 1 .. k - 1 : r[i] = s[i]
      /\ \A i \in k .. Len(s) - 1 : r[i] = s[i + 1]
  <2>1. a \in Seq(S) /\ b \in Seq(S)
    BY <1>3, <1>4
  <2>2. /\ r \in Seq(S) /\ Len(r) = Len(a) + Len(b)
        /\ \A i \in 1 .. Len(a) + Len(b) : r[i] = IF i <= Len(a) THEN a[i] ELSE b[i - Len(a)]
    BY <2>1, ConcatProperties
  <2>3. k \in Nat \ {0} /\ k <= Len(s) /\ Len(a) + Len(b) = Len(s) - 1
    BY <1>1, <1>2, <1>3, <1>4
  <2> HIDE DEF r
  <2>4. ASSUME NEW i \in 1 .. k - 1 PROVE r[i] = s[i]
    BY <1>2, <1>3, <2>2, <2>3
  <2>5. ASSUME NEW i \in k .. Len(s) - 1 PROVE r[i] = s[i + 1]
    <3>1. r[i] = b[i - (k - 1)] /\ i - (k - 1) \in 1 .. Len(s) - k
      BY <1>2, <1>3, <2>2, <2>3
    <3>2. b[i - (k - 1)] = s[k + (i - (k - 1))]
      BY <1>4, <3>1
    <3>3. QED BY <1>2, <2>3, <3>1, <3>2
  <2>6. QED BY <2>2, <2>3, <2>4, <2>5
<1>7. DOMAIN r = 1 .. Len(s) - 1
  BY <1>5, LenProperties
<1> HIDE DEF r
<1>8. \A i, j \in DOMAIN s : s[i] = s[j] => i = j
  BY DEF IsInjective
<1>9. Range(r) = Range(s) \ {e}
  <2>1. \A i \in DOMAIN r : \E j \in DOMAIN s : j # k /\ r[i] = s[j]
    BY SMTT(30), <1>1, <1>2, <1>5, <1>7
  <2>2. \A j \in DOMAIN s : j # k => \E i \in DOMAIN r : r[i] = s[j]
    <3> SUFFICES ASSUME NEW j \in DOMAIN s, j # k PROVE \E i \in DOMAIN r : r[i] = s[j]
      OBVIOUS
    <3>1. CASE j < k
      BY <1>1, <1>2, <1>5, <1>7, <3>1
    <3>2. CASE j > k
      <4>1. j - 1 \in DOMAIN r /\ r[j - 1] = s[j]
        BY SMTT(30), <1>1, <1>2, <1>5, <1>7, <3>2
      <4>2. QED BY <4>1
    <3>3. QED BY <1>1, <1>2, <3>1, <3>2
  <2>3. QED BY <1>1, <1>8, <2>1, <2>2 DEF Range
<1>10. ASSUME NEW i \in DOMAIN r, NEW j \in DOMAIN r, r[i] = r[j] PROVE i = j
  <2>1. \A n \in DOMAIN r : \/ (n < k /\ n \in DOMAIN s /\ r[n] = s[n])
                            \/ (n >= k /\ n + 1 \in DOMAIN s /\ r[n] = s[n + 1])
    BY SMTT(30), <1>1, <1>2, <1>5, <1>7
  <2>2. i \in Nat /\ j \in Nat /\ k \in Nat
    BY <1>1, <1>2, <1>7
  <2>3. QED BY <1>8, <1>10, <2>1, <2>2
<1>11. QED BY <1>5, <1>9, <1>10 DEF r, a, b, k, RemoveAt, IsInjective

-----------------------------------------------------------------------------
(* The initial state satisfies the invariant. *)
LEMMA InitInv == Init => IInv
<1> SUFFICES ASSUME Init PROVE IInv
  OBVIOUS
<1> USE StopTokenAssumption DEF Init
<1>1. TypeOK
  BY DEF TypeOK, SourceState, CallbackState, ThreadState, Places
<1>2. Listed = {} /\ \A t \in Threads : Bodies(t) = {}
  BY DEF Listed, Bodies, Range
<1>3. IsInjective(src.list) /\ \A t \in Threads : IsInjective(th[t].stack)
  BY DEF IsInjective
<1>4. LockInv /\ NotifierInv /\ SourceInv
  BY <1>2 DEF LockInv, NotifierInv, SourceInv, Holding, Notifying, Looping, At
<1>5. ListInv /\ CallInv /\ BodyInv /\ RunInv
  BY <1>2, <1>3 DEF ListInv, CallInv, AddingInv, RemovingInv, TakenInv, BodyInv, OneBody, RunInv, Adding,
       Removing, At
<1>6. QED BY <1>1, <1>4, <1>5 DEF IInv

(* What the list and the stacks are made of. *)
LEMMA Members ==
    ASSUME TypeOK
    PROVE  /\ Listed \subseteq Callbacks
           /\ \A t \in Threads : \A f \in Bodies(t) : f \in BodyState /\ f.cb \in Callbacks
           /\ \A c \in Callbacks : cb[c].runs \in 0 .. 2
<1>1. src.list \in Seq(Callbacks) /\ \A t \in Threads : th[t].stack \in Seq(BodyState)
  BY DEF TypeOK, SourceState, ThreadState
<1>2. Listed \subseteq Callbacks
  BY <1>1, ElementOfSeq, LenProperties DEF Listed, Range
<1>3. \A t \in Threads : \A f \in Bodies(t) : f \in BodyState
  BY <1>1, ElementOfSeq, LenProperties DEF Bodies, Range
<1>4. QED BY <1>2, <1>3 DEF BodyState, TypeOK, CallbackState

-----------------------------------------------------------------------------
(* What a step does to the threads, the callbacks and the list. *)
Moved(t, where, c) ==
    /\ th' \in [Threads -> ThreadState]
    /\ \A u \in Threads : /\ th'[u].pc = IF u = t THEN where ELSE th[u].pc
                          /\ th'[u].arg = IF u = t THEN c ELSE th[u].arg
                          /\ th'[u].requests = th[u].requests

Entered(t, new) ==
    \A u \in Threads : /\ Bodies(u)' = Bodies(u) \cup IF u = t THEN new ELSE {}
                       /\ IsInjective(th[u].stack) => IsInjective(th'[u].stack)

Left(t, old) ==
    \A u \in Threads : /\ Bodies(u)' = Bodies(u) \ IF u = t THEN old ELSE {}
                       /\ IsInjective(th[u].stack) => IsInjective(th'[u].stack)

BodiesKept ==
    \A u \in Threads : /\ Bodies(u)' = Bodies(u)
                       /\ IsInjective(th[u].stack) => IsInjective(th'[u].stack)

Lived(c, stage) ==
    /\ cb' \in [Callbacks -> CallbackState]
    /\ \A d \in Callbacks : d # c => cb'[d] = cb[d]
    /\ cb'[c].life = stage /\ cb'[c].runs = cb[c].runs
    /\ cb'[c].source <=> cb[c].source
    /\ cb'[c].removedPtr <=> cb[c].removedPtr
    /\ cb'[c].completed <=> cb[c].completed

ListKept == Listed' = Listed /\ (IsInjective(src.list) => IsInjective(src'.list))

(* A thread goes on. *)
LEMMA Goes ==
    ASSUME TypeOK, NEW t \in Threads, NEW where \in Places, Goto(t, where)
    PROVE  Moved(t, where, Arg(t)) /\ BodiesKept
<1>1. Moved(t, where, Arg(t)) /\ \A u \in Threads : th'[u].stack = th[u].stack
  BY DEF TypeOK, ThreadState, Goto, Moved, Arg
<1>2. QED BY <1>1 DEF BodiesKept, Bodies

(* A thread makes or goes on with a call. *)
LEMMA Calls ==
    ASSUME TypeOK, NEW t \in Threads, NEW where \in Places, NEW c \in Callbacks, Call(t, where, c)
    PROVE  Moved(t, where, c) /\ BodiesKept
<1>1. Moved(t, where, c) /\ \A u \in Threads : th'[u].stack = th[u].stack
  BY DEF TypeOK, ThreadState, Call, Moved
<1>2. QED BY <1>1 DEF BodiesKept, Bodies

(* No thread moves. *)
LEMMA Stays ==
    ASSUME TypeOK, th' = th
    PROVE  /\ th' \in [Threads -> ThreadState]
           /\ \A u \in Threads : th'[u].pc = th[u].pc /\ th'[u].arg = th[u].arg
           /\ BodiesKept
BY DEF TypeOK, BodiesKept, Bodies

(* The list does not change. *)
LEMMA Keeps == src'.list = src.list => ListKept
BY DEF ListKept, Listed

(* A callback's lifetime goes on. *)
LEMMA Lives ==
    ASSUME TypeOK, NEW c \in Callbacks,
           NEW stage \in {"unborn", "constructing", "alive", "destroying", "dead"}, SetLife(c, stage)
    PROVE  Lived(c, stage)
BY DEF TypeOK, CallbackState, SetLife, Lived

(* A body starts. *)
LEMMA Executes ==
    ASSUME TypeOK, NEW t \in Threads, NEW kind \in {"inline", "notify"}, NEW c \in Callbacks,
           Execute(t, kind, c), IsInjective(th[t].stack), \A f \in Bodies(t) : f.cb # c
    PROVE  /\ Moved(t, "user", Arg(t)) /\ Entered(t, {[kind |-> kind, cb |-> c]})
           /\ cb' \in [Callbacks -> CallbackState]
           /\ \A d \in Callbacks : d # c => cb'[d] = cb[d]
           /\ cb'[c].life = cb[c].life /\ cb'[c].completed = cb[c].completed
           /\ cb'[c].source <=> kind = "notify"
           /\ cb'[c].removedPtr <=> kind = "notify"
           /\ cb[c].runs = 0 => cb'[c].runs = 1
<1> DEFINE f == [kind |-> kind, cb |-> c]
<1>1. f \in BodyState /\ f \notin Bodies(t) /\ \A u \in Threads : th[u].stack \in Seq(BodyState)
  BY DEF BodyState, TypeOK, ThreadState
<1>2. LET s == <<f>> \o th[t].stack
      IN  s \in Seq(BodyState) /\ Range(s) = Bodies(t) \cup {f} /\ IsInjective(s)
  BY <1>1, Prepended DEF Bodies
<1>3. th' = [th EXCEPT ![t].pc = "user", ![t].stack = <<f>> \o th[t].stack]
  BY DEF Execute, Body, TypeOK
<1> HIDE DEF f
<1>4. /\ Moved(t, "user", Arg(t))
      /\ \A u \in Threads : th'[u].stack = IF u = t THEN <<f>> \o th[t].stack ELSE th[u].stack
  BY <1>2, <1>3 DEF TypeOK, ThreadState, Places, Moved, Arg
<1>5. Entered(t, {f})
  BY <1>2, <1>4 DEF Bodies, Entered
<1>6. cb' \in [Callbacks -> CallbackState]
  <2> DEFINE n == IF cb[c].runs = 0 THEN 1 ELSE 2
             b == kind = "notify"
             r == [cb[c] EXCEPT !.runs = n, !.source = b, !.removedPtr = b]
  <2>1. cb[c] \in CallbackState /\ n \in 0 .. 2 /\ b \in BOOLEAN
    BY DEF TypeOK
  <2>2. cb' = [cb EXCEPT ![c] = r]
    BY DEF Execute, TypeOK
  <2> HIDE DEF n, b
  <2>3. r \in CallbackState
    BY <2>1 DEF CallbackState
  <2>4. QED BY <2>2, <2>3 DEF TypeOK
<1>7. /\ \A d \in Callbacks : d # c => cb'[d] = cb[d]
      /\ cb'[c].life = cb[c].life /\ cb'[c].completed = cb[c].completed
      /\ cb'[c].source <=> kind = "notify"
      /\ cb'[c].removedPtr <=> kind = "notify"
      /\ cb[c].runs = 0 => cb'[c].runs = 1
  BY DEF Execute, TypeOK, CallbackState
<1>8. QED BY <1>4, <1>5, <1>6, <1>7 DEF f

(* A body returns. *)
LEMMA Returned ==
    ASSUME TypeOK, NEW t \in Threads, NEW where \in Places, ReturnTo(t, where),
           th[t].stack # << >>, IsInjective(th[t].stack)
    PROVE  LET f == Head(th[t].stack)
           IN  f \in Bodies(t) /\ f \in BodyState /\ Moved(t, where, f.cb) /\ Left(t, {f})
<1>1. \A u \in Threads : th[u].stack \in Seq(BodyState)
  BY DEF TypeOK, ThreadState
<1>2. LET s == th[t].stack
      IN  /\ Head(s) \in Range(s) /\ Tail(s) \in Seq(BodyState)
          /\ Range(Tail(s)) = Range(s) \ {Head(s)} /\ IsInjective(Tail(s))
  BY <1>1, TakenOff
<1>3. Head(th[t].stack) \in BodyState
  BY <1>1, HeadTailProperties
<1>4. /\ Moved(t, where, Head(th[t].stack).cb)
      /\ \A u \in Threads : th'[u].stack = IF u = t THEN Tail(th[u].stack) ELSE th[u].stack
  BY <1>2, <1>3 DEF TypeOK, ThreadState, BodyState, ReturnTo, Moved
<1>5. QED BY <1>2, <1>3, <1>4 DEF Bodies, Left

-----------------------------------------------------------------------------
(* A registration begins. *)
LEMMA BeginConstructInv ==
    ASSUME IInv, NEW t \in Threads, NEW c \in Callbacks, BeginConstruct(t, c)
    PROVE  IInv'
<1> USE DEF IInv
<1>1. /\ At(t, "user") /\ src.alive /\ cb[c].life = "unborn"
      /\ src' = src /\ src \in SourceState
      /\ local' = local /\ wins' = wins
      /\ src'.list = src.list
  BY DEF BeginConstruct, TypeOK, SourceState
<1>2. Moved(t, "add_lock", c) /\ BodiesKept
  <2>1. Call(t, "add_lock", c) /\ "add_lock" \in Places
    BY <1>1 DEF BeginConstruct, Places
  <2>2. QED BY <1>1, <2>1, Calls
<1>3. ListKept
  BY <1>1, Keeps
<1>4. /\ cb' \in [Callbacks -> CallbackState]
      /\ \A d \in Callbacks :
            d # c => cb'[d] = cb[d]
      /\ cb'[c].life = "constructing" /\ cb'[c].source /\ cb'[c].removedPtr = cb[c].removedPtr
      /\ cb'[c].completed = cb[c].completed /\ cb'[c].runs = cb[c].runs
  BY DEF BeginConstruct, TypeOK, CallbackState
<1>5. TypeOK'
  BY <1>1, <1>2, <1>3, <1>4 DEF TypeOK, Moved
<1>6. LockInv' /\ SourceInv'
  BY <1>1, <1>2, <1>3, <1>4, Members DEF LockInv, SourceInv, Holding, At, Notify, Moved, BodiesKept,
     ListKept
<1>7. NotifierInv'
  BY <1>1, <1>2, <1>3, <1>4 DEF NotifierInv, Notifying, Notify, Looping, At, Moved, BodiesKept, ListKept
<1>8. ListInv'
  BY <1>1, <1>2, <1>3, <1>4, Members DEF ListInv, Moved, BodiesKept, ListKept
<1>9. CallInv'
  <2>1. AddingInv'
    BY <1>1, <1>2, <1>3, <1>4, Members DEF CallInv, AddingInv, Adding, At, Arg, Moved, BodiesKept,
       ListKept, RunInv
  <2>2. RemovingInv'
    BY <1>1, <1>2, <1>3, <1>4 DEF CallInv, RemovingInv, Removing, At, Arg, Moved, BodiesKept, ListKept
  <2>3. TakenInv'
    BY <1>1, <1>2, <1>3, <1>4 DEF CallInv, TakenInv, At, Arg, Moved, BodiesKept, ListKept
  <2>4. QED BY <2>1, <2>2, <2>3 DEF CallInv
<1>10. BodyInv'
  <2>1. OneBody'
    BY <1>1, <1>2, <1>3, <1>4 DEF BodyInv, OneBody, Moved, BodiesKept, ListKept
  <2>2. \A u \in Threads : \A f \in Bodies(u)' : BodyOf(f)'
    BY <1>1, <1>2, <1>3, <1>4, Members DEF BodyInv, BodyOf, Notify, Moved, BodiesKept, ListKept, RunInv
  <2>3. QED BY <2>1, <2>2 DEF BodyInv
<1>11. RunInv'
  BY <1>1, <1>2, <1>3, <1>4, Members DEF RunInv, At, Arg, Moved, BodiesKept, ListKept
<1>12. QED BY <1>5, <1>6, <1>7, <1>8, <1>9, <1>10, <1>11

(* A registration is refused: the callback runs in its constructor. *)
LEMMA AddRefusedInv ==
    ASSUME IInv, NEW t \in Threads, AddRefused(t)
    PROVE  IInv'
<1> USE DEF IInv
<1>1. /\ At(t, "add_lock") /\ src.stop
      /\ src' = src /\ src \in SourceState
      /\ local' = local /\ wins' = wins
      /\ src'.list = src.list
  BY DEF AddRefused, TypeOK, SourceState
<1>2. /\ Arg(t) \in Callbacks /\ cb[Arg(t)].life = "constructing" /\ cb[Arg(t)].runs = 0
      /\ IsInjective(th[t].stack) /\ \A u \in Threads : \A f \in Bodies(u) : f.cb # Arg(t)
  BY <1>1 DEF CallInv, AddingInv, BodyInv, OneBody, BodyOf, Adding, At
<1>3. /\ Moved(t, "user", Arg(t)) /\ Entered(t, {[kind |-> "inline", cb |-> Arg(t)]})
      /\ cb' \in [Callbacks -> CallbackState]
      /\ \A d \in Callbacks : d # Arg(t) => cb'[d] = cb[d]
      /\ cb'[Arg(t)].life = cb[Arg(t)].life /\ cb'[Arg(t)].completed = cb[Arg(t)].completed
      /\ ~cb'[Arg(t)].source /\ ~cb'[Arg(t)].removedPtr /\ cb'[Arg(t)].runs = 1
  <2>1. Execute(t, "inline", Arg(t)) /\ IsInjective(th[t].stack)
    BY <1>2 DEF AddRefused
  <2>2. /\ Moved(t, "user", Arg(t)) /\ Entered(t, {[kind |-> "inline", cb |-> Arg(t)]})
        /\ cb' \in [Callbacks -> CallbackState]
    BY <1>2, <2>1, Executes
  <2>3. QED BY <1>2, <2>1, <2>2, Executes
<1>4. ListKept
  BY <1>1, Keeps
<1>5. TypeOK'
  BY <1>1, <1>2, <1>3, <1>4 DEF TypeOK, Moved
<1>6. LockInv' /\ SourceInv'
  BY <1>1, <1>2, <1>3, <1>4, Members DEF LockInv, SourceInv, Holding, At, Notify, Moved, ListKept, Entered
<1>7. NotifierInv'
  BY <1>1, <1>2, <1>3, <1>4 DEF NotifierInv, Notifying, Notify, Looping, At, Moved, ListKept, Entered
<1>8. ListInv'
  BY <1>1, <1>2, <1>3, <1>4, Members DEF ListInv, Moved, ListKept, Entered
<1>9. CallInv'
  <2>1. AddingInv'
    BY <1>1, <1>2, <1>3, <1>4, Members DEF CallInv, AddingInv, Adding, At, Arg, Moved, ListKept, Entered
  <2>2. RemovingInv'
    BY <1>1, <1>2, <1>3, <1>4 DEF CallInv, RemovingInv, Removing, At, Arg, Moved, ListKept, Entered
  <2>3. TakenInv'
    BY <1>1, <1>2, <1>3, <1>4 DEF CallInv, TakenInv, At, Arg, Moved, ListKept, Entered
  <2>4. QED BY <2>1, <2>2, <2>3 DEF CallInv
<1>10. BodyInv'
  <2>1. OneBody'
    BY <1>1, <1>2, <1>3, <1>4 DEF BodyInv, OneBody, Moved, ListKept, Entered
  <2>2. \A u \in Threads : \A f \in Bodies(u)' : BodyOf(f)'
    BY <1>1, <1>2, <1>3, <1>4, Members DEF BodyInv, BodyOf, Notify, Moved, ListKept, Entered
  <2>3. QED BY <2>1, <2>2 DEF BodyInv
<1>11. RunInv'
  BY <1>1, <1>2, <1>3, <1>4, Members DEF RunInv, At, Arg, Moved, ListKept, Entered
<1>12. QED BY <1>5, <1>6, <1>7, <1>8, <1>9, <1>10, <1>11

(* A registration takes the lock. *)
LEMMA AddLockInv ==
    ASSUME IInv, NEW t \in Threads, AddLock(t)
    PROVE  IInv'
<1> USE DEF IInv
<1>1. /\ At(t, "add_lock") /\ ~src.stop /\ ~src.locked
      /\ src'.alive = src.alive /\ src'.stop = src.stop /\ src'.locked
      /\ src'.notifying = src.notifying /\ src'.destroyedPtr = src.destroyedPtr /\ src' \in SourceState
      /\ local' = local /\ wins' = wins /\ cb' = cb
      /\ src'.list = src.list
  BY DEF AddLock, TypeOK, SourceState, MayLock
<1>2. Moved(t, "add", Arg(t)) /\ BodiesKept
  <2>1. Goto(t, "add") /\ "add" \in Places
    BY DEF AddLock, Places
  <2>2. QED BY <2>1, Goes
<1>3. ListKept
  BY <1>1, Keeps
<1>4. TypeOK'
  BY <1>1, <1>2, <1>3 DEF TypeOK, Moved
<1>5. LockInv' /\ SourceInv'
  BY <1>1, <1>2, <1>3, Members DEF LockInv, SourceInv, Holding, At, Notify, Moved, BodiesKept, ListKept
<1>6. NotifierInv'
  BY <1>1, <1>2, <1>3 DEF NotifierInv, Notifying, Notify, Looping, At, Moved, BodiesKept, ListKept
<1>7. ListInv'
  BY <1>1, <1>2, <1>3, Members DEF ListInv, Moved, BodiesKept, ListKept
<1>8. CallInv'
  BY <1>1, <1>2, <1>3 DEF CallInv, AddingInv, RemovingInv, TakenInv, Adding, Removing, At, Arg, Moved,
     BodiesKept, ListKept
<1>9. BodyInv'
  <2>1. OneBody'
    BY <1>1, <1>2, <1>3 DEF BodyInv, OneBody, Moved, BodiesKept, ListKept
  <2>2. \A u \in Threads : \A f \in Bodies(u)' : BodyOf(f)'
    BY <1>1, <1>2, <1>3, Members DEF BodyInv, BodyOf, Notify, Moved, BodiesKept, ListKept
  <2>3. QED BY <2>1, <2>2 DEF BodyInv
<1>10. RunInv'
  BY <1>1, <1>2, <1>3, Members DEF RunInv, At, Arg, Moved, BodiesKept, ListKept
<1>11. QED BY <1>4, <1>5, <1>6, <1>7, <1>8, <1>9, <1>10

(* A callback is put in front of the list. *)
LEMMA AddInv ==
    ASSUME IInv, NEW t \in Threads, Add(t)
    PROVE  IInv'
<1> USE DEF IInv
<1>1. /\ At(t, "add")
      /\ src'.alive = src.alive /\ src'.stop = src.stop /\ ~src'.locked
      /\ src'.notifying = src.notifying /\ src'.destroyedPtr = src.destroyedPtr
      /\ local' = local /\ wins' = wins
  BY DEF Add, TypeOK, SourceState
<1>2. Arg(t) \in Callbacks /\ cb[Arg(t)].life = "constructing" /\ cb[Arg(t)].source /\ cb[Arg(t)].runs = 0
  BY <1>1 DEF CallInv, AddingInv, Adding, At
<1>3. Moved(t, "user", Arg(t)) /\ BodiesKept
  <2>1. Goto(t, "user") /\ "user" \in Places
    BY DEF Add, Places
  <2>2. QED BY <2>1, Goes
<1>4. /\ Listed' = Listed \cup {Arg(t)} /\ IsInjective(src'.list) /\ Arg(t) \notin Listed
      /\ src' \in SourceState
  <2>1. src'.list = <<Arg(t)>> \o src.list /\ src.list \in Seq(Callbacks) /\ Arg(t) \notin Listed
    BY <1>2 DEF Add, TypeOK, SourceState, ListInv
  <2>2. Listed' = Listed \cup {Arg(t)} /\ IsInjective(src'.list) /\ src'.list \in Seq(Callbacks)
    BY <1>2, <2>1, Prepended DEF Listed, ListInv
  <2>3. QED BY <2>1, <2>2 DEF Add, TypeOK, SourceState
<1>5. Lived(Arg(t), "alive")
  <2>1. SetLife(Arg(t), "alive") /\ Arg(t) \in Callbacks
    BY <1>1 DEF Add, CallInv, AddingInv, RemovingInv, Adding, Removing, At
  <2>2. QED BY <2>1, Lives
<1>6. TypeOK'
  BY <1>1, <1>2, <1>3, <1>4, <1>5 DEF TypeOK, Moved, Lived
<1>7. LockInv' /\ SourceInv'
  BY <1>1, <1>2, <1>3, <1>4, <1>5, Members DEF LockInv, SourceInv, Holding, At, Notify, Moved,
     BodiesKept, Lived
<1>8. NotifierInv'
  BY <1>1, <1>2, <1>3, <1>4, <1>5 DEF NotifierInv, Notifying, Notify, Looping, At, Moved, BodiesKept,
     Lived, LockInv
<1>9. ListInv'
  BY <1>1, <1>2, <1>3, <1>4, <1>5, Members DEF ListInv, Moved, BodiesKept, Lived
<1>10. CallInv'
  <2>1. AddingInv'
    BY <1>1, <1>2, <1>3, <1>4, <1>5, Members DEF CallInv, AddingInv, Adding, At, Arg, Moved, BodiesKept,
       Lived
  <2>2. RemovingInv'
    BY <1>1, <1>2, <1>3, <1>4, <1>5 DEF CallInv, RemovingInv, Removing, At, Arg, Moved, BodiesKept, Lived
  <2>3. TakenInv'
    BY <1>1, <1>2, <1>3, <1>4, <1>5 DEF CallInv, TakenInv, At, Arg, Moved, BodiesKept, Lived
  <2>4. QED BY <2>1, <2>2, <2>3 DEF CallInv
<1>11. BodyInv'
  <2>1. OneBody'
    BY <1>1, <1>2, <1>3, <1>4, <1>5 DEF BodyInv, OneBody, Moved, BodiesKept, Lived
  <2>2. \A u \in Threads : \A f \in Bodies(u)' : BodyOf(f)'
    BY <1>1, <1>2, <1>3, <1>4, <1>5, Members DEF BodyInv, BodyOf, Notify, Moved, BodiesKept, Lived
  <2>3. QED BY <2>1, <2>2 DEF BodyInv
<1>12. RunInv'
  BY <1>1, <1>2, <1>3, <1>4, <1>5, Members DEF RunInv, At, Arg, Moved, BodiesKept, Lived
<1>13. QED BY <1>6, <1>7, <1>8, <1>9, <1>10, <1>11, <1>12

(* A destructor takes the lock. *)
LEMMA RemoveLockInv ==
    ASSUME IInv, NEW t \in Threads, RemoveLock(t)
    PROVE  IInv'
<1> USE DEF IInv
<1>1. /\ At(t, "rm_lock") /\ ~src.locked
      /\ src'.alive = src.alive /\ src'.stop = src.stop /\ src'.locked
      /\ src'.notifying = src.notifying /\ src'.destroyedPtr = src.destroyedPtr /\ src' \in SourceState
      /\ local' = local /\ wins' = wins /\ cb' = cb
      /\ src'.list = src.list
  BY DEF RemoveLock, TypeOK, SourceState
<1>2. Moved(t, "rm_unlink", Arg(t)) /\ BodiesKept
  <2>1. Goto(t, "rm_unlink") /\ "rm_unlink" \in Places
    BY DEF RemoveLock, Places
  <2>2. QED BY <2>1, Goes
<1>3. ListKept
  BY <1>1, Keeps
<1>4. TypeOK'
  BY <1>1, <1>2, <1>3 DEF TypeOK, Moved
<1>5. LockInv' /\ SourceInv'
  BY <1>1, <1>2, <1>3, Members DEF LockInv, SourceInv, Holding, At, Notify, Moved, BodiesKept, ListKept
<1>6. NotifierInv'
  BY <1>1, <1>2, <1>3 DEF NotifierInv, Notifying, Notify, Looping, At, Moved, BodiesKept, ListKept
<1>7. ListInv'
  BY <1>1, <1>2, <1>3, Members DEF ListInv, Moved, BodiesKept, ListKept
<1>8. CallInv'
  BY <1>1, <1>2, <1>3 DEF CallInv, AddingInv, RemovingInv, TakenInv, Adding, Removing, At, Arg, Moved,
     BodiesKept, ListKept
<1>9. BodyInv'
  <2>1. OneBody'
    BY <1>1, <1>2, <1>3 DEF BodyInv, OneBody, Moved, BodiesKept, ListKept
  <2>2. \A u \in Threads : \A f \in Bodies(u)' : BodyOf(f)'
    BY <1>1, <1>2, <1>3, Members DEF BodyInv, BodyOf, Notify, Moved, BodiesKept, ListKept
  <2>3. QED BY <2>1, <2>2 DEF BodyInv
<1>10. RunInv'
  BY <1>1, <1>2, <1>3, Members DEF RunInv, At, Arg, Moved, BodiesKept, ListKept
<1>11. QED BY <1>4, <1>5, <1>6, <1>7, <1>8, <1>9, <1>10

(* A callback that has not run is unlinked. *)
LEMMA RemoveUnlinkInv ==
    ASSUME IInv, NEW t \in Threads, RemoveUnlink(t)
    PROVE  IInv'
<1> USE DEF IInv
<1>1. /\ At(t, "rm_unlink") /\ Arg(t) \in Listed
      /\ src'.alive = src.alive /\ src'.stop = src.stop /\ ~src'.locked
      /\ src'.notifying = src.notifying /\ src'.destroyedPtr = src.destroyedPtr
      /\ local' = local /\ wins' = wins
  BY DEF RemoveUnlink, TypeOK, SourceState, Registered, Listed
<1>2. Arg(t) \in Callbacks /\ cb[Arg(t)].life = "destroying" /\ cb[Arg(t)].source
  BY <1>1 DEF CallInv, RemovingInv, Removing, At
<1>3. Moved(t, "user", Arg(t)) /\ BodiesKept
  <2>1. Goto(t, "user") /\ "user" \in Places
    BY DEF RemoveUnlink, Places
  <2>2. QED BY <2>1, Goes
<1>4. Listed' = Listed \ {Arg(t)} /\ IsInjective(src'.list) /\ src' \in SourceState
  <2>1. src'.list = Without(Arg(t)) /\ src.list \in Seq(Callbacks) /\ IsInjective(src.list)
    BY DEF RemoveUnlink, TypeOK, SourceState, ListInv
  <2>2. Listed' = Listed \ {Arg(t)} /\ IsInjective(src'.list) /\ src'.list \in Seq(Callbacks)
    BY <1>1, <2>1, Removed DEF Listed, Without
  <2>3. QED BY <2>2 DEF RemoveUnlink, TypeOK, SourceState
<1>5. Lived(Arg(t), "dead")
  <2>1. SetLife(Arg(t), "dead") /\ Arg(t) \in Callbacks
    BY <1>1 DEF RemoveUnlink, CallInv, AddingInv, RemovingInv, Adding, Removing, At
  <2>2. QED BY <2>1, Lives
<1>6. TypeOK'
  BY <1>1, <1>2, <1>3, <1>4, <1>5 DEF TypeOK, Moved, Lived
<1>7. LockInv' /\ SourceInv'
  BY <1>1, <1>2, <1>3, <1>4, <1>5, Members DEF LockInv, SourceInv, Holding, At, Notify, Moved,
     BodiesKept, Lived
<1>8. NotifierInv'
  BY <1>1, <1>2, <1>3, <1>4, <1>5 DEF NotifierInv, Notifying, Notify, Looping, At, Moved, BodiesKept, Lived
<1>9. ListInv'
  BY <1>1, <1>2, <1>3, <1>4, <1>5, Members DEF ListInv, Moved, BodiesKept, Lived
<1>10. CallInv'
  <2>1. AddingInv'
    BY <1>1, <1>2, <1>3, <1>4, <1>5, Members DEF CallInv, AddingInv, Adding, At, Arg, Moved, BodiesKept,
       Lived
  <2>2. RemovingInv'
    BY <1>1, <1>2, <1>3, <1>4, <1>5 DEF CallInv, RemovingInv, Removing, At, Arg, Moved, BodiesKept, Lived
  <2>3. TakenInv'
    BY <1>1, <1>2, <1>3, <1>4, <1>5 DEF CallInv, TakenInv, At, Arg, Moved, BodiesKept, Lived, ListInv
  <2>4. QED BY <2>1, <2>2, <2>3 DEF CallInv
<1>11. BodyInv'
  <2>1. OneBody'
    BY <1>1, <1>2, <1>3, <1>4, <1>5 DEF BodyInv, OneBody, Moved, BodiesKept, Lived
  <2>2. \A u \in Threads : \A f \in Bodies(u)' : BodyOf(f)'
    BY <1>1, <1>2, <1>3, <1>4, <1>5, Members DEF BodyInv, BodyOf, Notify, Moved, BodiesKept, Lived, ListInv
  <2>3. QED BY <2>1, <2>2 DEF BodyInv
<1>12. RunInv'
  BY <1>1, <1>2, <1>3, <1>4, <1>5, Members DEF RunInv, At, Arg, Moved, BodiesKept, Lived
<1>13. QED BY <1>6, <1>7, <1>8, <1>9, <1>10, <1>11, <1>12

(* A callback is destroyed from inside its body, or after it. *)
LEMMA RemoveSelfInv ==
    ASSUME IInv, NEW t \in Threads, RemoveSelf(t)
    PROVE  IInv'
<1> USE DEF IInv
<1>1. /\ At(t, "rm_unlink") /\ Arg(t) \notin Listed /\ src.notifying = t
      /\ src'.alive = src.alive /\ src'.stop = src.stop /\ ~src'.locked
      /\ src'.notifying = src.notifying /\ src'.destroyedPtr = src.destroyedPtr /\ src' \in SourceState
      /\ local' \in [destroyed : BOOLEAN, removed : BOOLEAN] /\ local'.destroyed = local.destroyed
      /\ (local'.removed <=> local.removed \/ cb[Arg(t)].removedPtr) /\ wins' = wins
      /\ src'.list = src.list
  BY DEF RemoveSelf, TypeOK, SourceState, Registered, Listed, MarkRemoved
<1>2. Arg(t) \in Callbacks /\ cb[Arg(t)].life = "destroying" /\ cb[Arg(t)].source
  BY <1>1 DEF CallInv, RemovingInv, Removing, At
<1>3. Moved(t, "user", Arg(t)) /\ BodiesKept
  <2>1. Goto(t, "user") /\ "user" \in Places
    BY DEF RemoveSelf, Places
  <2>2. QED BY <2>1, Goes
<1>4. ListKept
  BY <1>1, Keeps
<1>5. Lived(Arg(t), "dead")
  <2>1. SetLife(Arg(t), "dead") /\ Arg(t) \in Callbacks
    BY <1>1 DEF RemoveSelf, CallInv, AddingInv, RemovingInv, Adding, Removing, At
  <2>2. QED BY <2>1, Lives
<1>6. TypeOK'
  BY <1>1, <1>2, <1>3, <1>4, <1>5 DEF TypeOK, Moved, Lived
<1>7. LockInv' /\ SourceInv'
  BY <1>1, <1>2, <1>3, <1>4, <1>5, Members DEF LockInv, SourceInv, Holding, At, Notify, Moved,
     BodiesKept, ListKept, Lived
<1>8. NotifierInv'
  BY <1>1, <1>2, <1>3, <1>4, <1>5 DEF NotifierInv, Notifying, Notify, Looping, At, Moved, BodiesKept,
     ListKept, Lived
<1>9. ListInv'
  BY <1>1, <1>2, <1>3, <1>4, <1>5, Members DEF ListInv, Moved, BodiesKept, ListKept, Lived
<1>10. CallInv'
  <2>1. AddingInv'
    BY <1>1, <1>2, <1>3, <1>4, <1>5, Members DEF CallInv, AddingInv, Adding, At, Arg, Moved, BodiesKept,
       ListKept, Lived
  <2>2. RemovingInv'
    BY <1>1, <1>2, <1>3, <1>4, <1>5 DEF CallInv, RemovingInv, Removing, At, Arg, Moved, BodiesKept,
       ListKept, Lived
  <2>3. TakenInv'
    BY <1>1, <1>2, <1>3, <1>4, <1>5 DEF CallInv, TakenInv, At, Arg, Moved, BodiesKept, ListKept, Lived,
       NotifierInv, Notifying, Looping
  <2>4. QED BY <2>1, <2>2, <2>3 DEF CallInv
<1>11. BodyInv'
  <2>1. OneBody'
    BY <1>1, <1>2, <1>3, <1>4, <1>5 DEF BodyInv, OneBody, Moved, BodiesKept, ListKept, Lived
  <2>2. \A u \in Threads : \A f \in Bodies(u)' : BodyOf(f)'
    BY <1>1, <1>2, <1>3, <1>4, <1>5, Members DEF BodyInv, BodyOf, Notify, Moved, BodiesKept, ListKept, Lived
  <2>3. QED BY <2>1, <2>2 DEF BodyInv
<1>12. RunInv'
  BY <1>1, <1>2, <1>3, <1>4, <1>5, Members DEF RunInv, At, Arg, Moved, BodiesKept, ListKept, Lived
<1>13. QED BY <1>6, <1>7, <1>8, <1>9, <1>10, <1>11, <1>12

(* A destructor finds its callback taken by another thread. *)
LEMMA RemoveOtherInv ==
    ASSUME IInv, NEW t \in Threads, RemoveOther(t)
    PROVE  IInv'
<1> USE DEF IInv
<1>1. /\ At(t, "rm_unlink")
      /\ src'.alive = src.alive /\ src'.stop = src.stop /\ ~src'.locked
      /\ src'.notifying = src.notifying /\ src'.destroyedPtr = src.destroyedPtr /\ src' \in SourceState
      /\ local' = local /\ wins' = wins /\ cb' = cb
      /\ src'.list = src.list
  BY DEF RemoveOther, TypeOK, SourceState
<1>2. Moved(t, "rm_wait", Arg(t)) /\ BodiesKept
  <2>1. Goto(t, "rm_wait") /\ "rm_wait" \in Places
    BY DEF RemoveOther, Places
  <2>2. QED BY <2>1, Goes
<1>3. ListKept
  BY <1>1, Keeps
<1>4. TypeOK'
  BY <1>1, <1>2, <1>3 DEF TypeOK, Moved
<1>5. LockInv' /\ SourceInv'
  BY <1>1, <1>2, <1>3, Members DEF LockInv, SourceInv, Holding, At, Notify, Moved, BodiesKept, ListKept
<1>6. NotifierInv'
  BY <1>1, <1>2, <1>3 DEF NotifierInv, Notifying, Notify, Looping, At, Moved, BodiesKept, ListKept
<1>7. ListInv'
  BY <1>1, <1>2, <1>3, Members DEF ListInv, Moved, BodiesKept, ListKept
<1>8. CallInv'
  BY <1>1, <1>2, <1>3 DEF CallInv, AddingInv, RemovingInv, TakenInv, Adding, Removing, At, Arg, Moved,
     BodiesKept, ListKept
<1>9. BodyInv'
  <2>1. OneBody'
    BY <1>1, <1>2, <1>3 DEF BodyInv, OneBody, Moved, BodiesKept, ListKept
  <2>2. \A u \in Threads : \A f \in Bodies(u)' : BodyOf(f)'
    BY <1>1, <1>2, <1>3, Members DEF BodyInv, BodyOf, Notify, Moved, BodiesKept, ListKept
  <2>3. QED BY <2>1, <2>2 DEF BodyInv
<1>10. RunInv'
  BY <1>1, <1>2, <1>3, Members DEF RunInv, At, Arg, Moved, BodiesKept, ListKept
<1>11. QED BY <1>4, <1>5, <1>6, <1>7, <1>8, <1>9, <1>10

(* A destructor sees that its callback has run. *)
LEMMA RemoveWaitInv ==
    ASSUME IInv, NEW t \in Threads, RemoveWait(t)
    PROVE  IInv'
<1> USE DEF IInv
<1>1. /\ At(t, "rm_wait") /\ cb[Arg(t)].completed
      /\ src' = src /\ src \in SourceState
      /\ local' = local /\ wins' = wins
      /\ src'.list = src.list
  BY DEF RemoveWait, TypeOK, SourceState, MayStopWaiting
<1>2. Arg(t) \in Callbacks /\ cb[Arg(t)].life = "destroying" /\ cb[Arg(t)].source
  BY <1>1 DEF CallInv, RemovingInv, Removing, At
<1>3. Moved(t, "user", Arg(t)) /\ BodiesKept
  <2>1. Goto(t, "user") /\ "user" \in Places
    BY DEF RemoveWait, Places
  <2>2. QED BY <2>1, Goes
<1>4. ListKept
  BY <1>1, Keeps
<1>5. Lived(Arg(t), "dead")
  <2>1. SetLife(Arg(t), "dead") /\ Arg(t) \in Callbacks
    BY <1>1 DEF RemoveWait, CallInv, AddingInv, RemovingInv, Adding, Removing, At
  <2>2. QED BY <2>1, Lives
<1>6. TypeOK'
  BY <1>1, <1>2, <1>3, <1>4, <1>5 DEF TypeOK, Moved, Lived
<1>7. LockInv' /\ SourceInv'
  BY <1>1, <1>2, <1>3, <1>4, <1>5, Members DEF LockInv, SourceInv, Holding, At, Notify, Moved,
     BodiesKept, ListKept, Lived
<1>8. NotifierInv'
  BY <1>1, <1>2, <1>3, <1>4, <1>5 DEF NotifierInv, Notifying, Notify, Looping, At, Moved, BodiesKept,
     ListKept, Lived
<1>9. ListInv'
  BY <1>1, <1>2, <1>3, <1>4, <1>5, Members DEF ListInv, Moved, BodiesKept, ListKept, Lived, RunInv
<1>10. CallInv'
  <2>1. AddingInv'
    BY <1>1, <1>2, <1>3, <1>4, <1>5, Members DEF CallInv, AddingInv, Adding, At, Arg, Moved, BodiesKept,
       ListKept, Lived
  <2>2. RemovingInv'
    BY <1>1, <1>2, <1>3, <1>4, <1>5 DEF CallInv, RemovingInv, Removing, At, Arg, Moved, BodiesKept,
       ListKept, Lived
  <2>3. TakenInv'
    BY <1>1, <1>2, <1>3, <1>4, <1>5 DEF CallInv, TakenInv, At, Arg, Moved, BodiesKept, ListKept, Lived,
       RunInv
  <2>4. QED BY <2>1, <2>2, <2>3 DEF CallInv
<1>11. BodyInv'
  <2>1. OneBody'
    BY <1>1, <1>2, <1>3, <1>4, <1>5 DEF BodyInv, OneBody, Moved, BodiesKept, ListKept, Lived
  <2>2. \A u \in Threads : \A f \in Bodies(u)' : BodyOf(f)'
    BY <1>1, <1>2, <1>3, <1>4, <1>5, Members DEF BodyInv, BodyOf, Notify, Moved, BodiesKept, ListKept, Lived
  <2>3. QED BY <2>1, <2>2 DEF BodyInv
<1>12. RunInv'
  BY <1>1, <1>2, <1>3, <1>4, <1>5, Members DEF RunInv, At, Arg, Moved, BodiesKept, ListKept, Lived
<1>13. QED BY <1>6, <1>7, <1>8, <1>9, <1>10, <1>11, <1>12

(* Stop was requested before. *)
LEMMA RequestRefusedInv ==
    ASSUME IInv, NEW t \in Threads, RequestRefused(t)
    PROVE  IInv'
<1> USE DEF IInv
<1>1. /\ At(t, "rs_try")
      /\ src' = src /\ src \in SourceState
      /\ local' = local /\ wins' = wins /\ cb' = cb
      /\ src'.list = src.list
  BY DEF RequestRefused, TypeOK, SourceState
<1>2. Moved(t, "user", Arg(t)) /\ BodiesKept
  <2>1. Goto(t, "user") /\ "user" \in Places
    BY DEF RequestRefused, Places
  <2>2. QED BY <2>1, Goes
<1>3. ListKept
  BY <1>1, Keeps
<1>4. TypeOK'
  BY <1>1, <1>2, <1>3 DEF TypeOK, Moved
<1>5. LockInv' /\ SourceInv'
  BY <1>1, <1>2, <1>3, Members DEF LockInv, SourceInv, Holding, At, Notify, Moved, BodiesKept, ListKept
<1>6. NotifierInv'
  BY <1>1, <1>2, <1>3 DEF NotifierInv, Notifying, Notify, Looping, At, Moved, BodiesKept, ListKept
<1>7. ListInv'
  BY <1>1, <1>2, <1>3, Members DEF ListInv, Moved, BodiesKept, ListKept
<1>8. CallInv'
  BY <1>1, <1>2, <1>3 DEF CallInv, AddingInv, RemovingInv, TakenInv, Adding, Removing, At, Arg, Moved,
     BodiesKept, ListKept
<1>9. BodyInv'
  <2>1. OneBody'
    BY <1>1, <1>2, <1>3 DEF BodyInv, OneBody, Moved, BodiesKept, ListKept
  <2>2. \A u \in Threads : \A f \in Bodies(u)' : BodyOf(f)'
    BY <1>1, <1>2, <1>3, Members DEF BodyInv, BodyOf, Notify, Moved, BodiesKept, ListKept
  <2>3. QED BY <2>1, <2>2 DEF BodyInv
<1>10. RunInv'
  BY <1>1, <1>2, <1>3, Members DEF RunInv, At, Arg, Moved, BodiesKept, ListKept
<1>11. QED BY <1>4, <1>5, <1>6, <1>7, <1>8, <1>9, <1>10

(* A call makes the request. *)
LEMMA RequestLockInv ==
    ASSUME IInv, NEW t \in Threads, RequestLock(t)
    PROVE  IInv'
<1> USE DEF IInv
<1>1. /\ At(t, "rs_try") /\ ~src.stop /\ ~src.locked
      /\ src'.alive = src.alive /\ src'.stop /\ src'.locked
      /\ src'.notifying = t /\ src'.destroyedPtr /\ src' \in SourceState
      /\ local' \in [destroyed : BOOLEAN, removed : BOOLEAN] /\ ~local'.destroyed
      /\ local'.removed = local.removed /\ wins' = wins /\ cb' = cb
      /\ src'.list = src.list
  BY DEF RequestLock, TypeOK, SourceState, MayLock
<1>2. Moved(t, "rs_loop", Arg(t)) /\ BodiesKept
  <2>1. Goto(t, "rs_loop") /\ "rs_loop" \in Places
    BY DEF RequestLock, Places
  <2>2. QED BY <2>1, Goes
<1>3. ListKept
  BY <1>1, Keeps
<1>4. TypeOK'
  BY <1>1, <1>2, <1>3 DEF TypeOK, Moved
<1>5. LockInv' /\ SourceInv'
  BY <1>1, <1>2, <1>3, Members DEF LockInv, SourceInv, Holding, At, Notify, Moved, BodiesKept, ListKept
<1>6. NotifierInv'
  BY <1>1, <1>2, <1>3, StopTokenAssumption DEF NotifierInv, Notifying, Notify, Looping, At, Moved,
     BodiesKept, ListKept
<1>7. ListInv'
  BY <1>1, <1>2, <1>3, Members DEF ListInv, Moved, BodiesKept, ListKept
<1>8. CallInv'
  BY <1>1, <1>2, <1>3 DEF CallInv, AddingInv, RemovingInv, TakenInv, Adding, Removing, At, Arg, Moved,
     BodiesKept, ListKept
<1>9. BodyInv'
  <2>1. OneBody'
    BY <1>1, <1>2, <1>3 DEF BodyInv, OneBody, Moved, BodiesKept, ListKept
  <2>2. \A u \in Threads : \A f \in Bodies(u)' : BodyOf(f)'
    BY <1>1, <1>2, <1>3, Members DEF BodyInv, BodyOf, Notify, Moved, BodiesKept, ListKept
  <2>3. QED BY <2>1, <2>2 DEF BodyInv
<1>10. RunInv'
  BY <1>1, <1>2, <1>3, Members DEF RunInv, At, Arg, Moved, BodiesKept, ListKept
<1>11. QED BY <1>4, <1>5, <1>6, <1>7, <1>8, <1>9, <1>10

(* The call that made the request returns. *)
LEMMA RequestDoneInv ==
    ASSUME IInv, NEW t \in Threads, RequestDone(t)
    PROVE  IInv'
<1> USE DEF IInv
<1>1. /\ At(t, "rs_loop") /\ src.list = << >>
      /\ src'.alive = src.alive /\ src'.stop = src.stop /\ ~src'.locked
      /\ src'.notifying = src.notifying /\ ~src'.destroyedPtr /\ src' \in SourceState
      /\ local' = local /\ wins' = wins + 1 /\ cb' = cb
      /\ src'.list = src.list
  BY DEF RequestDone, TypeOK, SourceState
<1>2. Listed = {}
  BY <1>1 DEF Listed, Range
<1>3. Moved(t, "user", Arg(t)) /\ BodiesKept
  <2>1. Goto(t, "user") /\ "user" \in Places
    BY DEF RequestDone, Places
  <2>2. QED BY <2>1, Goes
<1>4. ListKept
  BY <1>1, Keeps
<1>5. TypeOK'
  BY <1>1, <1>2, <1>3, <1>4 DEF TypeOK, Moved, NotifierInv, Notifying, Looping, At
<1>6. LockInv' /\ SourceInv'
  BY <1>1, <1>2, <1>3, <1>4, Members DEF LockInv, SourceInv, Holding, At, Notify, Moved, BodiesKept,
     ListKept, NotifierInv, Notifying, Looping
<1>7. NotifierInv'
  BY <1>1, <1>2, <1>3, <1>4, StopTokenAssumption DEF NotifierInv, Notifying, Notify, Looping, At, Moved,
     BodiesKept, ListKept
<1>8. ListInv'
  BY <1>1, <1>2, <1>3, <1>4, Members DEF ListInv, Moved, BodiesKept, ListKept
<1>9. CallInv'
  BY <1>1, <1>2, <1>3, <1>4 DEF CallInv, AddingInv, RemovingInv, TakenInv, Adding, Removing, At, Arg,
     Moved, BodiesKept, ListKept
<1>10. BodyInv'
  <2>1. OneBody'
    BY <1>1, <1>2, <1>3, <1>4 DEF BodyInv, OneBody, Moved, BodiesKept, ListKept
  <2>2. \A u \in Threads : \A f \in Bodies(u)' : BodyOf(f)'
    BY <1>1, <1>2, <1>3, <1>4, Members DEF BodyInv, BodyOf, Notify, Moved, BodiesKept, ListKept
  <2>3. QED BY <2>1, <2>2 DEF BodyInv
<1>11. RunInv'
  BY <1>1, <1>2, <1>3, <1>4, Members DEF RunInv, At, Arg, Moved, BodiesKept, ListKept
<1>12. QED BY <1>5, <1>6, <1>7, <1>8, <1>9, <1>10, <1>11

(* The first callback of the list is taken. *)
LEMMA RequestPopInv ==
    ASSUME IInv, NEW t \in Threads, RequestPop(t)
    PROVE  IInv'
<1> USE DEF IInv
<1>1. /\ At(t, "rs_loop") /\ src.list # << >>
      /\ src'.alive = src.alive /\ src'.stop = src.stop /\ ~src'.locked
      /\ src'.notifying = src.notifying /\ src'.destroyedPtr = src.destroyedPtr
      /\ local' = local /\ wins' = wins /\ cb' = cb
  BY DEF RequestPop, TypeOK, SourceState
<1>2. /\ Head(src.list) \in Callbacks /\ Head(src.list) \in Listed
      /\ Listed' = Listed \ {Head(src.list)} /\ IsInjective(src'.list)
      /\ src' \in SourceState
  <2>1. src'.list = Tail(src.list) /\ src.list \in Seq(Callbacks) /\ IsInjective(src.list)
    BY DEF RequestPop, TypeOK, SourceState, ListInv
  <2>2. Head(src.list) \in Callbacks
    BY <1>1, <2>1, HeadTailProperties
  <2>3. /\ Head(src.list) \in Listed /\ Listed' = Listed \ {Head(src.list)}
        /\ IsInjective(src'.list) /\ Tail(src.list) \in Seq(Callbacks)
    BY <1>1, <2>1, TakenOff DEF Listed
  <2>4. QED BY <2>2, <2>3 DEF RequestPop, TypeOK, SourceState
<1>3. Moved(t, "rs_exec", Head(src.list)) /\ BodiesKept
  <2>1. Call(t, "rs_exec", Head(src.list)) /\ "rs_exec" \in Places
    BY DEF RequestPop, Places
  <2>2. QED BY <1>2, <2>1, Calls
<1>4. Head(src.list) \in Listed
  BY <1>2
<1>5. TypeOK'
  BY <1>1, <1>2, <1>3, <1>4 DEF TypeOK, Moved
<1>6. LockInv' /\ SourceInv'
  BY <1>1, <1>2, <1>3, <1>4, Members DEF LockInv, SourceInv, Holding, At, Notify, Moved, BodiesKept,
     NotifierInv, Notifying, Looping
<1>7. NotifierInv'
  BY <1>1, <1>2, <1>3, <1>4 DEF NotifierInv, Notifying, Notify, Looping, At, Moved, BodiesKept
<1>8. ListInv'
  BY <1>1, <1>2, <1>3, <1>4, Members DEF ListInv, Moved, BodiesKept
<1>9. CallInv'
  BY <1>1, <1>2, <1>3, <1>4 DEF CallInv, AddingInv, RemovingInv, TakenInv, Adding, Removing, At, Arg,
     Moved, BodiesKept, ListInv
<1>10. BodyInv'
  <2>1. OneBody'
    BY <1>1, <1>2, <1>3, <1>4 DEF BodyInv, OneBody, Moved, BodiesKept
  <2>2. \A u \in Threads : \A f \in Bodies(u)' : BodyOf(f)'
    BY <1>1, <1>2, <1>3, <1>4, Members DEF BodyInv, BodyOf, Notify, Moved, BodiesKept
  <2>3. QED BY <2>1, <2>2 DEF BodyInv
<1>11. RunInv'
  BY <1>1, <1>2, <1>3, <1>4, Members DEF RunInv, At, Arg, Moved, BodiesKept
<1>12. QED BY <1>5, <1>6, <1>7, <1>8, <1>9, <1>10, <1>11

(* The taken callback runs. *)
LEMMA RequestExecuteInv ==
    ASSUME IInv, NEW t \in Threads, RequestExecute(t)
    PROVE  IInv'
<1> USE DEF IInv
<1>1. /\ At(t, "rs_exec")
      /\ src' = src /\ src \in SourceState
      /\ local' \in [destroyed : BOOLEAN, removed : BOOLEAN] /\ ~local'.removed
      /\ local'.destroyed = local.destroyed /\ wins' = wins
      /\ src'.list = src.list
  BY DEF RequestExecute, TypeOK, SourceState
<1>2. /\ Arg(t) \in Callbacks /\ cb[Arg(t)].runs = 0 /\ cb[Arg(t)].life \in {"alive", "destroying"}
      /\ cb[Arg(t)].source /\ ~cb[Arg(t)].completed /\ Arg(t) \notin Listed /\ src.stop
      /\ IsInjective(th[t].stack) /\ \A u \in Threads : \A f \in Bodies(u) : f.cb # Arg(t) /\ ~Notify(f)
      /\ \A u \in Threads : Looping(u) => u = t
  BY <1>1, StopTokenAssumption DEF CallInv, TakenInv, BodyInv, OneBody, BodyOf, RunInv, NotifierInv,
     Notifying, Looping, At
<1>3. /\ Moved(t, "user", Arg(t)) /\ Entered(t, {[kind |-> "notify", cb |-> Arg(t)]})
      /\ cb' \in [Callbacks -> CallbackState]
      /\ \A d \in Callbacks : d # Arg(t) => cb'[d] = cb[d]
      /\ cb'[Arg(t)].life = cb[Arg(t)].life /\ cb'[Arg(t)].completed = cb[Arg(t)].completed
      /\ cb'[Arg(t)].source /\ cb'[Arg(t)].removedPtr /\ cb'[Arg(t)].runs = 1
  <2>1. Execute(t, "notify", Arg(t))
    BY DEF RequestExecute
  <2>2. /\ Moved(t, "user", Arg(t)) /\ Entered(t, {[kind |-> "notify", cb |-> Arg(t)]})
        /\ cb' \in [Callbacks -> CallbackState]
    BY <1>2, <2>1, Executes
  <2>3. QED BY <1>2, <2>1, <2>2, Executes
<1>4. ListKept
  BY <1>1, Keeps
<1>5. TypeOK'
  BY <1>1, <1>2, <1>3, <1>4 DEF TypeOK, Moved
<1>6. LockInv' /\ SourceInv'
  BY <1>1, <1>2, <1>3, <1>4, Members DEF LockInv, SourceInv, Holding, At, Notify, Moved, ListKept, Entered
<1>7. NotifierInv'
  <2>1. /\ \A u \in Threads : ~Looping(u)'
        /\ \A u \in Threads : \A f \in Bodies(u)' :
              Notify(f) => u = t /\ f = [kind |-> "notify", cb |-> Arg(t)]
    BY <1>2, <1>3 DEF Looping, Moved, Entered
  <2>2. Notifying(t) /\ Notifying(t)'
    <3>1. \E f \in Bodies(t)' : Notify(f)
      <4> DEFINE f == [kind |-> "notify", cb |-> Arg(t)]
      <4>1. f \in Bodies(t)' /\ f.kind = "notify"
        BY <1>3 DEF Entered
      <4>2. QED BY <4>1, Zenon DEF Notify
    <3>2. QED BY <1>1, <3>1 DEF Notifying, Looping, At
  <2>3. QED BY <1>1, <1>4, <2>1, <2>2 DEF NotifierInv, Notifying, ListKept
<1>8. ListInv'
  BY <1>1, <1>2, <1>3, <1>4, Members DEF ListInv, Moved, ListKept, Entered, Looping
<1>9. CallInv'
  <2>1. AddingInv'
    BY <1>1, <1>2, <1>3, <1>4, Members DEF CallInv, AddingInv, Adding, At, Arg, Moved, ListKept, Entered
  <2>2. RemovingInv'
    BY <1>1, <1>2, <1>3, <1>4 DEF CallInv, RemovingInv, Removing, At, Arg, Moved, ListKept, Entered
  <2>3. TakenInv'
    BY <1>1, <1>2, <1>3, <1>4 DEF CallInv, TakenInv, At, Arg, Moved, ListKept, Entered, Looping
  <2>4. QED BY <2>1, <2>2, <2>3 DEF CallInv
<1>10. BodyInv'
  <2>1. OneBody'
    BY <1>1, <1>2, <1>3, <1>4 DEF BodyInv, OneBody, Moved, ListKept, Entered
  <2>2. \A u \in Threads : \A f \in Bodies(u)' : BodyOf(f)'
    BY <1>1, <1>2, <1>3, <1>4, Members DEF BodyInv, BodyOf, Notify, Moved, ListKept, Entered
  <2>3. QED BY <2>1, <2>2 DEF BodyInv
<1>11. RunInv'
  BY <1>1, <1>2, <1>3, <1>4, Members DEF RunInv, At, Arg, Moved, ListKept, Entered
<1>12. QED BY <1>5, <1>6, <1>7, <1>8, <1>9, <1>10, <1>11

(* The callback that ran is marked completed. *)
LEMMA RequestCompleteInv ==
    ASSUME IInv, NEW t \in Threads, RequestComplete(t)
    PROVE  IInv'
<1> USE DEF IInv
<1>1. /\ At(t, "rs_complete")
      /\ src' = src /\ src \in SourceState
      /\ local' = local /\ wins' = wins
      /\ src'.list = src.list
  BY DEF RequestComplete, TypeOK, SourceState
<1>2. /\ Arg(t) \in Callbacks /\ cb[Arg(t)].runs = 1
      /\ \A u \in Threads : \A f \in Bodies(u) : ~Notify(f)
      /\ \A u \in Threads : Looping(u) => u = t
  BY <1>1 DEF CallInv, TakenInv, NotifierInv, Notifying, Looping, At
<1>3. Moved(t, "rs_relock", Arg(t)) /\ BodiesKept
  <2>1. Goto(t, "rs_relock") /\ "rs_relock" \in Places
    BY DEF RequestComplete, Places
  <2>2. QED BY <2>1, Goes
<1>4. ListKept
  BY <1>1, Keeps
<1>5. /\ cb' \in [Callbacks -> CallbackState]
      /\ \A d \in Callbacks : d # Arg(t) => cb'[d] = cb[d]
      /\ cb'[Arg(t)].life = cb[Arg(t)].life /\ cb'[Arg(t)].source = cb[Arg(t)].source
      /\ cb'[Arg(t)].runs = cb[Arg(t)].runs /\ cb'[Arg(t)].completed
  BY <1>2 DEF RequestComplete, TypeOK, CallbackState
<1>6. TypeOK'
  BY <1>1, <1>2, <1>3, <1>4, <1>5 DEF TypeOK, Moved
<1>7. LockInv' /\ SourceInv'
  BY <1>1, <1>2, <1>3, <1>4, <1>5, Members DEF LockInv, SourceInv, Holding, At, Notify, Moved,
     BodiesKept, ListKept
<1>8. NotifierInv'
  BY <1>1, <1>2, <1>3, <1>4, <1>5 DEF NotifierInv, Notifying, Notify, Looping, At, Moved, BodiesKept,
     ListKept
<1>9. ListInv'
  BY <1>1, <1>2, <1>3, <1>4, <1>5, Members DEF ListInv, Moved, BodiesKept, ListKept
<1>10. CallInv'
  <2>1. AddingInv'
    BY <1>1, <1>2, <1>3, <1>4, <1>5, Members DEF CallInv, AddingInv, Adding, At, Arg, Moved, BodiesKept,
       ListKept
  <2>2. RemovingInv'
    BY <1>1, <1>2, <1>3, <1>4, <1>5 DEF CallInv, RemovingInv, Removing, At, Arg, Moved, BodiesKept, ListKept
  <2>3. TakenInv'
    BY <1>1, <1>2, <1>3, <1>4, <1>5 DEF CallInv, TakenInv, At, Arg, Moved, BodiesKept, ListKept, Looping
  <2>4. QED BY <2>1, <2>2, <2>3 DEF CallInv
<1>11. BodyInv'
  <2>1. OneBody'
    BY <1>1, <1>2, <1>3, <1>4, <1>5 DEF BodyInv, OneBody, Moved, BodiesKept, ListKept
  <2>2. \A u \in Threads : \A f \in Bodies(u)' : BodyOf(f)'
    BY <1>1, <1>2, <1>3, <1>4, <1>5, Members DEF BodyInv, BodyOf, Notify, Moved, BodiesKept, ListKept
  <2>3. QED BY <2>1, <2>2 DEF BodyInv
<1>12. RunInv'
  BY <1>1, <1>2, <1>3, <1>4, <1>5, Members DEF RunInv, At, Arg, Moved, BodiesKept, ListKept
<1>13. QED BY <1>6, <1>7, <1>8, <1>9, <1>10, <1>11, <1>12

(* request_stop goes on to the next callback. *)
LEMMA RequestRelockInv ==
    ASSUME IInv, NEW t \in Threads, RequestRelock(t)
    PROVE  IInv'
<1> USE DEF IInv
<1>1. /\ At(t, "rs_relock") /\ ~src.locked
      /\ src'.alive = src.alive /\ src'.stop = src.stop /\ src'.locked
      /\ src'.notifying = src.notifying /\ src'.destroyedPtr = src.destroyedPtr /\ src' \in SourceState
      /\ local' = local /\ wins' = wins /\ cb' = cb
      /\ src'.list = src.list
  BY DEF RequestRelock, TypeOK, SourceState
<1>2. Moved(t, "rs_loop", Arg(t)) /\ BodiesKept
  <2>1. Goto(t, "rs_loop") /\ "rs_loop" \in Places
    BY DEF RequestRelock, Places
  <2>2. QED BY <2>1, Goes
<1>3. ListKept
  BY <1>1, Keeps
<1>4. TypeOK'
  BY <1>1, <1>2, <1>3 DEF TypeOK, Moved
<1>5. LockInv' /\ SourceInv'
  BY <1>1, <1>2, <1>3, Members DEF LockInv, SourceInv, Holding, At, Notify, Moved, BodiesKept, ListKept
<1>6. NotifierInv'
  BY <1>1, <1>2, <1>3 DEF NotifierInv, Notifying, Notify, Looping, At, Moved, BodiesKept, ListKept
<1>7. ListInv'
  BY <1>1, <1>2, <1>3, Members DEF ListInv, Moved, BodiesKept, ListKept
<1>8. CallInv'
  BY <1>1, <1>2, <1>3 DEF CallInv, AddingInv, RemovingInv, TakenInv, Adding, Removing, At, Arg, Moved,
     BodiesKept, ListKept
<1>9. BodyInv'
  <2>1. OneBody'
    BY <1>1, <1>2, <1>3 DEF BodyInv, OneBody, Moved, BodiesKept, ListKept
  <2>2. \A u \in Threads : \A f \in Bodies(u)' : BodyOf(f)'
    BY <1>1, <1>2, <1>3, Members DEF BodyInv, BodyOf, Notify, Moved, BodiesKept, ListKept
  <2>3. QED BY <2>1, <2>2 DEF BodyInv
<1>10. RunInv'
  BY <1>1, <1>2, <1>3, Members DEF RunInv, At, Arg, Moved, BodiesKept, ListKept
<1>11. QED BY <1>4, <1>5, <1>6, <1>7, <1>8, <1>9, <1>10

(* A constructor that ran its callback returns. *)
LEMMA ReturnInlineInv ==
    ASSUME IInv, NEW t \in Threads, ReturnInline(t)
    PROVE  IInv'
<1> USE DEF IInv
<1> DEFINE f == Head(th[t].stack)
<1>1. At(t, "user") /\ f.kind = "inline" /\ src' = src /\ local' = local /\ wins' = wins
  BY DEF ReturnInline, Returns
<1>2. f \in Bodies(t) /\ f \in BodyState /\ Moved(t, "user", f.cb) /\ Left(t, {f})
  <2>1. ReturnTo(t, "user") /\ "user" \in Places /\ IsInjective(th[t].stack)
    BY DEF ReturnInline, Places, BodyInv, OneBody
  <2>2. th[t].stack # << >>
    BY DEF ReturnInline, Returns
  <2>3. QED BY <2>1, <2>2, Returned
<1>3. f.cb \in Callbacks /\ BodyOf(f)
  BY <1>2, Members DEF BodyInv
<1>4. Lived(f.cb, "alive")
  BY <1>3, Lives DEF ReturnInline
<1> HIDE DEF f
<1>5. ListKept
  BY <1>1, Keeps
<1>6. cb[f.cb].life = "constructing" /\ ~cb[f.cb].source /\ cb[f.cb].runs = 1
  BY <1>1, <1>3 DEF BodyOf, Notify
<1>7. TypeOK'
  BY <1>1, <1>2, <1>4 DEF TypeOK, Moved, Lived
<1>8. LockInv' /\ SourceInv'
  BY <1>1, <1>2, <1>3, <1>4, <1>6 DEF LockInv, SourceInv, Holding, At, Notify, Moved, Left, Lived
<1>9. NotifierInv'
  BY <1>1, <1>2, <1>5 DEF NotifierInv, Notifying, Notify, Looping, At, Moved, ListKept, Left
<1>10. ListInv'
  BY <1>1, <1>3, <1>4, <1>5, <1>6, Members DEF ListInv, ListKept, Lived
<1>11. CallInv'
  <2>1. \A u \in Threads : Adding(u) \/ Removing(u) \/ th[u].pc \in {"rs_exec", "rs_complete"} =>
            u # t /\ Arg(u) \in Callbacks /\ Arg(u) # f.cb
    BY <1>1, <1>2, <1>6 DEF CallInv, AddingInv, RemovingInv, TakenInv, At, Adding, Removing
  <2>2. QED BY <1>2, <1>4, <1>5, <2>1 DEF CallInv, AddingInv, RemovingInv, TakenInv, Adding, Removing,
     At, Arg, Moved, ListKept, Lived
<1>12. BodyInv'
  <2>1. OneBody'
    BY <1>2 DEF BodyInv, OneBody, Left
  <2>2. \A u \in Threads : \A g \in Bodies(u)' : g \in Bodies(u) /\ g.cb # f.cb
    BY <1>2 DEF BodyInv, OneBody, Left
  <2>3. \A u \in Threads : \A g \in Bodies(u)' : BodyOf(g)'
    BY <1>1, <1>3, <1>4, <2>2, Members DEF BodyInv, BodyOf, Notify, Lived
  <2>4. QED BY <2>1, <2>3 DEF BodyInv
<1>13. RunInv'
  BY <1>1, <1>2, <1>3, <1>4, <1>5, <1>6 DEF RunInv, At, Arg, Moved, ListKept, Lived
<1>14. QED BY <1>7, <1>8, <1>9, <1>10, <1>11, <1>12, <1>13

(* A callback that request_stop ran returns to it. *)
LEMMA ReturnNotifyInv ==
    ASSUME IInv, NEW t \in Threads, ReturnNotify(t)
    PROVE  IInv'
<1> USE DEF IInv
<1> DEFINE f == Head(th[t].stack)
<1>1. At(t, "user") /\ f.kind = "notify" /\ src' = src /\ local' = local 
      /\ wins' = IF AfterBody = "user" THEN wins + 1 ELSE wins
  BY DEF ReturnNotify, Returns
<1>2. f \in Bodies(t) /\ f \in BodyState /\ Moved(t, AfterBody, f.cb) /\ Left(t, {f})
  <2>1. ReturnTo(t, AfterBody) /\ AfterBody \in Places /\ IsInjective(th[t].stack)
    BY DEF ReturnNotify, AfterBody, Places, BodyInv, OneBody
  <2>2. th[t].stack # << >>
    BY DEF ReturnNotify, Returns
  <2>3. QED BY <2>1, <2>2, Returned
<1>3. f.cb \in Callbacks /\ BodyOf(f)
  BY <1>2, Members DEF BodyInv
<1>4. cb' = cb
  BY DEF ReturnNotify
<1> HIDE DEF f
<1>5. ListKept
  BY <1>1, Keeps
<1>6. /\ src.notifying = t /\ wins = 0 /\ (local.destroyed <=> ~src.alive)
      /\ \A u \in Threads : ~Looping(u) /\ \A g \in Bodies(u) : Notify(g) => g = f
  <2>1. Notifying(t) /\ src.notifying = t /\ wins = 0
    BY <1>1, <1>2 DEF NotifierInv, Notifying, Notify
  <2>2. local.destroyed <=> ~src.alive
    BY <1>1, <1>2 DEF SourceInv, Notify
  <2>3. QED BY <1>1, <1>2, <2>1, <2>2 DEF NotifierInv, Notifying, Notify
<1>7. TypeOK'
  BY <1>1, <1>2, <1>4, <1>6 DEF TypeOK, Moved
<1>8. LockInv' /\ SourceInv'
  <2>1. ~src.alive => AfterBody = "user"
    BY <1>6 DEF AfterBody
  <2>2. AfterBody \notin {"add", "rm_unlink", "rs_loop"}
    BY DEF AfterBody
  <2>3. QED BY <1>1, <1>2, <1>4, <2>1, <2>2 DEF LockInv, SourceInv, Holding, At, Notify, Moved, Left
<1>9. ListInv' /\ Listed \subseteq Callbacks
  BY <1>4, <1>5, Members DEF ListInv, ListKept
<1>10. NotifierInv'
  <2>1. \A u \in Threads : \A g \in Bodies(u)' : ~Notify(g)
    BY <1>2, <1>6 DEF Left, OneBody, BodyInv
  <2>2. CASE AfterBody = "user"
    <3>1. ~src.alive
      BY <1>6, <2>2 DEF AfterBody
    <3>2. Listed = {}
      BY <1>9, <3>1 DEF SourceInv, ListInv
    <3>3. QED BY <1>1, <1>2, <1>5, <1>6, <2>1, <2>2, <3>2, StopTokenAssumption DEF NotifierInv,
       Notifying, Looping, Moved, ListKept
  <2>3. CASE AfterBody # "user"
    <3>1. wins' = wins /\ Looping(t)'
      BY <1>1, <1>2, <2>3 DEF AfterBody, Moved, Looping
    <3>2. \A u \in Threads : Notifying(u)' => u = t
      BY <1>2, <1>6, <2>1 DEF Notifying, Looping, Moved
    <3>3. src.destroyedPtr /\ src.stop
      BY <1>1, <1>2, <1>6, StopTokenAssumption DEF NotifierInv, Notifying, Notify
    <3>4. QED BY <1>1, <1>6, <2>1, <3>1, <3>2, <3>3, StopTokenAssumption DEF NotifierInv, Notifying
  <2>4. QED BY <2>2, <2>3
<1>11. CallInv'
  <2>1. AfterBody \in {"user", "rs_relock", "rs_complete"}
    BY DEF AfterBody
  <2>2. AddingInv'
    BY <1>2, <1>4, <2>1 DEF CallInv, AddingInv, Adding, Arg, Moved
  <2>3. RemovingInv'
    BY <1>2, <1>4, <2>1 DEF CallInv, RemovingInv, Removing, Arg, Moved
  <2>4. TakenInv'
    <3>1. \A u \in Threads : th'[u].pc \in {"rs_exec", "rs_complete"} => u = t /\ AfterBody = "rs_complete"
      BY <1>2, <1>6, <2>1 DEF Looping, Moved
    <3>2. AfterBody = "rs_complete" => ~local.removed
      BY DEF AfterBody
    <3>3. QED BY <1>1, <1>2, <1>3, <1>4, <3>1, <3>2 DEF TakenInv, BodyOf, Notify, Arg, At, Moved
  <2>5. QED BY <2>2, <2>3, <2>4 DEF CallInv
<1>12. BodyInv'
  BY <1>1, <1>2, <1>4 DEF BodyInv, OneBody, BodyOf, Left
<1>13. RunInv'
  BY <1>1, <1>2, <1>4, <1>5, <1>6 DEF RunInv, At, Arg, Moved, ListKept, Looping
<1>14. QED BY <1>7, <1>8, <1>9, <1>10, <1>11, <1>12, <1>13

(* A thread calls request_stop. *)
LEMMA BeginRequestInv ==
    ASSUME IInv, NEW t \in Threads, BeginRequest(t)
    PROVE  IInv'
<1> USE DEF IInv
<1>1. /\ At(t, "user") /\ src.alive
      /\ src' = src /\ src \in SourceState
      /\ local' = local /\ wins' = wins /\ cb' = cb
      /\ src'.list = src.list
  BY DEF BeginRequest, TypeOK, SourceState
<1>2. /\ th' \in [Threads -> ThreadState] /\ BodiesKept
      /\ \A u \in Threads : /\ th'[u].pc = IF u = t THEN "rs_try" ELSE th[u].pc
                            /\ th'[u].arg = th[u].arg
  <2>1. \A u \in Threads : th'[u].stack = th[u].stack /\ th'[u].arg = th[u].arg
                            /\ th'[u].pc = IF u = t THEN "rs_try" ELSE th[u].pc
    BY DEF BeginRequest, TypeOK, ThreadState
  <2>2. th' \in [Threads -> ThreadState]
    <3>1. th[t].requests + 1 \in 0 .. MaxRequests
      BY StopTokenAssumption DEF BeginRequest, TypeOK, ThreadState
    <3>2. QED BY <3>1 DEF BeginRequest, TypeOK, ThreadState, Places
  <2>3. QED BY <2>1, <2>2 DEF BodiesKept, Bodies
<1>3. ListKept
  BY <1>1, Keeps
<1>4. TypeOK'
  BY <1>1, <1>2, <1>3 DEF TypeOK
<1>5. LockInv' /\ SourceInv'
  BY <1>1, <1>2, <1>3, Members DEF LockInv, SourceInv, Holding, At, Notify, BodiesKept, ListKept
<1>6. NotifierInv'
  BY <1>1, <1>2, <1>3 DEF NotifierInv, Notifying, Notify, Looping, At, BodiesKept, ListKept
<1>7. ListInv'
  BY <1>1, <1>2, <1>3, Members DEF ListInv, BodiesKept, ListKept
<1>8. CallInv'
  BY <1>1, <1>2, <1>3 DEF CallInv, AddingInv, RemovingInv, TakenInv, Adding, Removing, At, Arg,
     BodiesKept, ListKept
<1>9. BodyInv'
  <2>1. OneBody'
    BY <1>1, <1>2, <1>3 DEF BodyInv, OneBody, BodiesKept, ListKept
  <2>2. \A u \in Threads : \A f \in Bodies(u)' : BodyOf(f)'
    BY <1>1, <1>2, <1>3, Members DEF BodyInv, BodyOf, Notify, BodiesKept, ListKept
  <2>3. QED BY <2>1, <2>2 DEF BodyInv
<1>10. RunInv'
  BY <1>1, <1>2, <1>3, Members DEF RunInv, At, Arg, BodiesKept, ListKept
<1>11. QED BY <1>4, <1>5, <1>6, <1>7, <1>8, <1>9, <1>10

(* The source is destroyed. *)
LEMMA DestroySourceInv ==
    ASSUME IInv, NEW t \in Threads, DestroySource(t)
    PROVE  IInv'
<1> USE DEF IInv
<1>1. /\ At(t, "user") /\ src.alive /\ MayDestroySource(t)
      /\ ~src'.alive /\ src'.stop = src.stop /\ src'.locked = src.locked
      /\ src'.notifying = src.notifying /\ src'.destroyedPtr = src.destroyedPtr /\ src' \in SourceState
      /\ local' \in [destroyed : BOOLEAN, removed : BOOLEAN]
      /\ local'.destroyed <=> local.destroyed \/ src.destroyedPtr
      /\ local'.removed = local.removed /\ wins' = wins /\ cb' = cb
      /\ src'.list = src.list
  BY DEF DestroySource, TypeOK, SourceState
<1>2. /\ th' \in [Threads -> ThreadState] /\ BodiesKept
      /\ \A u \in Threads : th'[u].pc = th[u].pc /\ th'[u].arg = th[u].arg
  BY Stays DEF DestroySource
<1>3. ListKept
  BY <1>1, Keeps
<1>4. TypeOK'
  BY <1>1, <1>2, <1>3 DEF TypeOK
<1>5. LockInv' /\ SourceInv'
  BY <1>1, <1>2, <1>3, Members DEF LockInv, SourceInv, Holding, At, Notify, BodiesKept, ListKept,
     MayDestroySource, NotifierInv, Notifying
<1>6. NotifierInv'
  BY <1>1, <1>2, <1>3 DEF NotifierInv, Notifying, Notify, Looping, At, BodiesKept, ListKept
<1>7. ListInv'
  BY <1>1, <1>2, <1>3, Members DEF ListInv, BodiesKept, ListKept
<1>8. CallInv'
  BY <1>1, <1>2, <1>3 DEF CallInv, AddingInv, RemovingInv, TakenInv, Adding, Removing, At, Arg,
     BodiesKept, ListKept
<1>9. BodyInv'
  <2>1. OneBody'
    BY <1>1, <1>2, <1>3 DEF BodyInv, OneBody, BodiesKept, ListKept
  <2>2. \A u \in Threads : \A f \in Bodies(u)' : BodyOf(f)'
    BY <1>1, <1>2, <1>3, Members DEF BodyInv, BodyOf, Notify, BodiesKept, ListKept
  <2>3. QED BY <2>1, <2>2 DEF BodyInv
<1>10. RunInv'
  BY <1>1, <1>2, <1>3, Members DEF RunInv, At, Arg, BodiesKept, ListKept
<1>11. QED BY <1>4, <1>5, <1>6, <1>7, <1>8, <1>9, <1>10

(* The destructor of a callback begins. *)
LEMMA BeginDestroyInv ==
    ASSUME IInv, NEW t \in Threads, NEW c \in Callbacks, BeginDestroy(t, c)
    PROVE  IInv'
<1> USE DEF IInv
<1>1. CASE cb[c].source
  <2>1. /\ At(t, "user") /\ cb[c].life = "alive" /\ cb[c].source
        /\ src' = src /\ local' = local /\ wins' = wins
        /\ Lived(c, "destroying")
    <3>1. SetLife(c, "destroying")
      BY <1>1 DEF BeginDestroy
    <3>2. QED BY <1>1, <3>1, Lives DEF BeginDestroy
  <2>2. Moved(t, "rm_lock", c) /\ BodiesKept
    <3>1. Call(t, "rm_lock", c) /\ "rm_lock" \in Places
      BY <1>1 DEF BeginDestroy, Places
    <3>2. QED BY <3>1, Calls
  <2>3. ListKept
    BY <2>1, Keeps
  <2>4. TypeOK'
    BY <2>1, <2>2 DEF TypeOK, Moved, Lived
  <2>5. LockInv' /\ SourceInv'
    BY <2>1, <2>2, <2>3 DEF LockInv, SourceInv, Holding, At, Notify, Moved, BodiesKept, ListKept, Lived
  <2>6. NotifierInv'
    BY <2>1, <2>2, <2>3 DEF NotifierInv, Notifying, Notify, Looping, At, Moved, BodiesKept, ListKept, Lived
  <2>7. ListInv'
    BY <2>1, <2>2, <2>3, Members DEF ListInv, Moved, BodiesKept, ListKept, Lived
  <2>8. CallInv'
    <3>1. AddingInv'
      BY <2>1, <2>2, <2>3 DEF CallInv, AddingInv, Adding, At, Arg, Moved, BodiesKept, ListKept, Lived
    <3>2. RemovingInv'
      <4>1. \A u \in Threads : Removing(u) => u # t /\ Arg(u) \in Callbacks /\ Arg(u) # c
        BY <2>1 DEF CallInv, RemovingInv, Removing, At
      <4>2. QED BY <2>1, <2>2, <4>1 DEF CallInv, RemovingInv, Removing, Arg, Moved, BodiesKept, ListKept,
         Lived
    <3>3. TakenInv'
      BY <2>1, <2>2, <2>3 DEF CallInv, TakenInv, At, Arg, Moved, BodiesKept, ListKept, Lived
    <3>4. QED BY <3>1, <3>2, <3>3 DEF CallInv
  <2>9. BodyInv'
    <3>1. OneBody'
      BY <2>2 DEF BodyInv, OneBody, Moved, BodiesKept, ListKept, Lived
    <3>2. \A u \in Threads : \A f \in Bodies(u)' : BodyOf(f)'
      BY <2>1, <2>2, Members DEF BodyInv, BodyOf, Notify, Moved, BodiesKept, ListKept, Lived
    <3>3. QED BY <3>1, <3>2 DEF BodyInv
  <2>10. RunInv'
    BY <2>1, <2>2, <2>3, Members DEF RunInv, At, Arg, Moved, BodiesKept, ListKept, Lived
  <2>11. QED BY <2>4, <2>5, <2>6, <2>7, <2>8, <2>9, <2>10
<1>2. CASE ~cb[c].source
  <2>1. /\ At(t, "user") /\ cb[c].life = "alive" /\ ~cb[c].source
        /\ src' = src /\ local' = local /\ wins' = wins
        /\ Lived(c, "dead")
    <3>1. SetLife(c, "dead")
      BY <1>2 DEF BeginDestroy
    <3>2. QED BY <1>2, <3>1, Lives DEF BeginDestroy
  <2>2. /\ th' \in [Threads -> ThreadState] /\ BodiesKept
        /\ \A u \in Threads : th'[u].pc = th[u].pc /\ th'[u].arg = th[u].arg
    BY <1>2, Stays DEF BeginDestroy
  <2>3. ListKept
    BY <2>1, Keeps
  <2>4. TypeOK'
    BY <2>1, <2>2 DEF TypeOK, Moved, Lived
  <2>5. LockInv' /\ SourceInv'
    BY <2>1, <2>2, <2>3 DEF LockInv, SourceInv, Holding, At, Notify, BodiesKept, ListKept, Lived
  <2>6. NotifierInv'
    BY <2>1, <2>2, <2>3 DEF NotifierInv, Notifying, Notify, Looping, At, BodiesKept, ListKept, Lived
  <2>7. ListInv'
    BY <2>1, <2>2, <2>3, Members DEF ListInv, BodiesKept, ListKept, Lived
  <2>8. CallInv'
    <3>1. AddingInv'
      BY <2>1, <2>2, <2>3 DEF CallInv, AddingInv, Adding, At, Arg, BodiesKept, ListKept, Lived
    <3>2. RemovingInv'
      <4>1. \A u \in Threads : Removing(u) => u # t /\ Arg(u) \in Callbacks /\ Arg(u) # c
        BY <2>1 DEF CallInv, RemovingInv, Removing, At
      <4>2. QED BY <2>1, <2>2, <4>1 DEF CallInv, RemovingInv, Removing, Arg, BodiesKept, ListKept, Lived
    <3>3. TakenInv'
      BY <2>1, <2>2, <2>3 DEF CallInv, TakenInv, At, Arg, BodiesKept, ListKept, Lived
    <3>4. QED BY <3>1, <3>2, <3>3 DEF CallInv
  <2>9. BodyInv'
    <3>1. OneBody'
      BY <2>2 DEF BodyInv, OneBody, BodiesKept, ListKept, Lived
    <3>2. \A u \in Threads : \A f \in Bodies(u)' : BodyOf(f)'
      BY <2>1, <2>2, Members DEF BodyInv, BodyOf, Notify, BodiesKept, ListKept, Lived
    <3>3. QED BY <3>1, <3>2 DEF BodyInv
  <2>10. RunInv'
    BY <2>1, <2>2, <2>3, Members DEF RunInv, At, Arg, BodiesKept, ListKept, Lived
  <2>11. QED BY <2>4, <2>5, <2>6, <2>7, <2>8, <2>9, <2>10
<1>3. QED BY <1>1, <1>2

-----------------------------------------------------------------------------
(* Every step keeps the invariant. *)
LEMMA NextInv ==
    ASSUME IInv, [Next]_vars
    PROVE  IInv'
<1>1. ASSUME NEW t \in Threads, Step(t) PROVE IInv'
  BY <1>1, AddRefusedInv, AddLockInv, AddInv, RemoveLockInv, RemoveUnlinkInv, RemoveSelfInv, RemoveOtherInv,
     RemoveWaitInv, RequestRefusedInv, RequestLockInv, RequestDoneInv, RequestPopInv, RequestExecuteInv,
     RequestCompleteInv, RequestRelockInv, ReturnInlineInv, ReturnNotifyInv DEF Step
<1>2. ASSUME NEW t \in Threads, UserCall(t) PROVE IInv'
  BY <1>2, BeginConstructInv, BeginDestroyInv, BeginRequestInv, DestroySourceInv DEF UserCall
<1>3. CASE UNCHANGED vars
  <2>1. /\ src' = src /\ local' = local /\ cb' = cb /\ th' = th /\ wins' = wins
        /\ Listed' = Listed /\ \A t \in Threads : Bodies(t)' = Bodies(t)
    BY <1>3 DEF vars, Listed, Bodies
  <2>2. LockInv' /\ NotifierInv' /\ SourceInv'
    BY <2>1 DEF IInv, LockInv, NotifierInv, SourceInv, Holding, Notifying, Looping, At
  <2>3. ListInv' /\ CallInv'
    BY <2>1 DEF IInv, ListInv, CallInv, AddingInv, RemovingInv, TakenInv, Adding, Removing, At, Arg
  <2>4. BodyInv' /\ RunInv'
    BY <2>1 DEF IInv, BodyInv, OneBody, BodyOf, RunInv, At, Arg
  <2>5. TypeOK'
    BY <2>1 DEF IInv, TypeOK
  <2>6. QED BY <2>2, <2>3, <2>4, <2>5 DEF IInv
<1>4. QED BY <1>1, <1>2, <1>3 DEF Next, Idle

(* The types and the whole of the invariant hold in every reachable state. *)
THEOREM Invariance == Spec => []IInv
<1>1. Init => IInv
  BY InitInv
<1>2. IInv /\ [Next]_vars => IInv'
  BY NextInv
<1>3. QED BY <1>1, <1>2, PTL DEF Spec

(* A source, a callback and a callback's body are not used after they were *)
(* destroyed: by request_stop and remove_callback, with any number of      *)
(* threads that register, destroy and request stop, also from inside the   *)
(* callbacks that request_stop and the constructors run.                   *)
THEOREM NothingUsedAfterDestroy == Spec => []NoUseAfterDestroy
<1>1. ASSUME IInv PROVE NoUseAfterDestroy
  <2>1. TypeOK /\ (~src.alive => \A t \in Threads : At(t, "user"))
    BY <1>1 DEF IInv, SourceInv
  <2>2. \A t \in Threads : th[t].pc \in {"rs_exec", "rs_complete"} => cb[Arg(t)].life # "dead"
    BY <1>1 DEF IInv, CallInv, TakenInv
  <2>3. \A t \in Threads : \A f \in Bodies(t) : f.kind = "notify" /\ cb[f.cb].life = "dead" => local.removed
    BY <1>1 DEF IInv, BodyInv, BodyOf, Notify
  <2>4. \A c \in Listed : cb[c].life \in {"alive", "destroying"}
    BY <1>1 DEF IInv, ListInv
  <2>5. QED BY <2>1, <2>2, <2>3, <2>4 DEF NoUseAfterDestroy, Bodies, Listed
<1>2. QED BY <1>1, Invariance, PTL

(* request_stop runs each registered callback once, and a registration     *)
(* that comes after it runs its callback itself: none runs twice or before *)
(* the request, and none is left out.                                      *)
THEOREM ReachesEachOnce == Spec => []StopReachesEachOnce
<1>1. ASSUME IInv PROVE StopReachesEachOnce
  <2>1. \A c \in Callbacks : cb[c].runs <= IF src.stop THEN 1 ELSE 0
    BY <1>1 DEF IInv, RunInv
  <2>2. ASSUME AllReturned, src.stop, NEW c \in Callbacks, cb[c].life = "alive" PROVE cb[c].runs = 1
    <3>1. \A t \in Threads : At(t, "user") /\ Bodies(t) = {}
      BY <2>2 DEF AllReturned, Bodies, Range
    <3>2. Listed = {}
      BY <1>1, <2>2, <3>1 DEF IInv, NotifierInv, Notifying, Looping, At
    <3>3. cb[c].runs # 0
      BY <1>1, <2>2, <3>1, <3>2 DEF IInv, RunInv, At
    <3>4. cb[c].runs \in 0 .. 2 /\ cb[c].runs <= 1
      BY <1>1, <2>1, <2>2, Members DEF IInv
    <3>5. QED BY <3>3, <3>4
  <2>3. QED BY <2>1, <2>2 DEF StopReachesEachOnce
<1>2. QED BY <1>1, Invariance, PTL

(* Nothing writes to a callback that was destroyed: not the request_stop   *)
(* call that ran it, nor a second destructor or constructor.               *)
THEOREM DestroyedStaysUntouched ==
    Spec => [][\A c \in Callbacks : cb[c].life = "dead" => cb'[c] = cb[c]]_vars
<1>1. ASSUME IInv, [Next]_vars
      PROVE  [\A c \in Callbacks : cb[c].life = "dead" => cb'[c] = cb[c]]_vars
  <2> USE <1>1 DEF IInv
  <2>1. ASSUME NEW t \in Threads, Step(t)
        PROVE  \A c \in Callbacks : cb[c].life = "dead" => cb'[c] = cb[c]
    <3>1. CASE AddRefused(t) \/ Add(t)
      <4>1. Arg(t) \in Callbacks /\ cb[Arg(t)].life # "dead"
        BY <3>1 DEF AddRefused, Add, CallInv, AddingInv, Adding, At
      <4>2. QED BY <3>1, <4>1 DEF AddRefused, Add, Execute, SetLife, TypeOK
    <3>2. CASE RemoveUnlink(t) \/ RemoveSelf(t) \/ RemoveWait(t)
      <4>1. Arg(t) \in Callbacks /\ cb[Arg(t)].life # "dead"
        BY <3>2 DEF RemoveUnlink, RemoveSelf, RemoveWait, CallInv, RemovingInv, Removing, At
      <4>2. QED BY <3>2, <4>1 DEF RemoveUnlink, RemoveSelf, RemoveWait, SetLife, TypeOK
    <3>3. CASE RequestExecute(t) \/ RequestComplete(t)
      <4>1. Arg(t) \in Callbacks /\ cb[Arg(t)].life # "dead"
        BY <3>3 DEF RequestExecute, RequestComplete, CallInv, TakenInv, At
      <4>2. QED BY <3>3, <4>1 DEF RequestExecute, RequestComplete, Execute, TypeOK
    <3>4. CASE ReturnInline(t)
      <4> DEFINE f == Head(th[t].stack)
      <4>1. f \in Bodies(t) /\ f.kind = "inline"
        <5>1. ReturnTo(t, "user") /\ "user" \in Places /\ IsInjective(th[t].stack) /\ th[t].stack # << >>
          BY <3>4 DEF ReturnInline, Returns, Places, BodyInv, OneBody
        <5>2. QED BY <3>4, <5>1, Returned DEF ReturnInline, Returns
      <4>2. f.cb \in Callbacks /\ cb[f.cb].life # "dead"
        BY <4>1, Members DEF BodyInv, BodyOf, Notify
      <4>3. SetLife(f.cb, "alive")
        BY <3>4 DEF ReturnInline
      <4> HIDE DEF f
      <4>4. QED BY <4>2, <4>3 DEF SetLife, TypeOK
    <3>5. CASE UNCHANGED cb
      BY <3>5
    <3>6. QED
      BY <2>1, <3>1, <3>2, <3>3, <3>4, <3>5 DEF Step, AddLock, RemoveLock, RemoveOther, RequestRefused,
         RequestLock, RequestDone, RequestPop, RequestRelock, ReturnNotify
  <2>2. ASSUME NEW t \in Threads, UserCall(t)
        PROVE  \A c \in Callbacks : cb[c].life = "dead" => cb'[c] = cb[c]
    BY <2>2 DEF UserCall, BeginConstruct, BeginDestroy, BeginRequest, DestroySource, SetLife, TypeOK
  <2>3. QED BY <1>1, <2>1, <2>2 DEF Next, Idle
<1>2. QED BY <1>1, Invariance, PTL DEF Spec
=============================================================================
