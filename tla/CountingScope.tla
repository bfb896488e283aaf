--------------------------- MODULE CountingScope ---------------------------
(***************************************************************************)
(* The state machine that simple_counting_scope and counting_scope share   *)
(* (include/lexec/scopes/counting_scope.hpp): the state and the number of  *)
(* associations live in one atomic word, and registering a join and        *)
(* completing the joins also hold a mutex.                                 *)
(*                                                                         *)
(* A compare-exchange loop depends on the word alone and changes nothing   *)
(* until it succeeds, so it is one step.  What start_join does under the   *)
(* mutex is not one step: the word can change after its compare-exchange   *)
(* and before the waiter is in the list.  The waiters are a set, because   *)
(* the joins of a scope may complete in any order.                         *)
(***************************************************************************)
EXTENDS Naturals, FiniteSets

CONSTANTS Work,             \* operations that associate with the scope, each once
          Joins,            \* join operations, each started at most once
          ScheduledJoins,   \* the joins whose receiver has a start scheduler
          MaxAssociations,  \* max_associations
          None              \* no owner of the mutex

ASSUME CountingScopeAssumption ==
    /\ IsFiniteSet(Work)
    /\ ScheduledJoins \subseteq Joins
    /\ MaxAssociations \in Nat
    /\ None \notin Joins

VARIABLES
    word,       \* the packed atomic: state and count
    mutex,      \* the join that holds the mutex
    waiters,    \* the registered joins
    list,       \* complete_joins' local: the joins still to be completed
    work,       \* where each operation is
    join,       \* where each join operation is
    destroyed   \* whether the scope's destructor has run

vars == <<word, mutex, waiters, list, work, join, destroyed>>

State == {"unused", "open", "closed", "open_and_joining", "closed_and_joining",
          "unused_and_closed", "joined"}

Init ==
    /\ word = [state |-> "unused", count |-> 0]
    /\ mutex = None
    /\ waiters = {}
    /\ list = {}
    /\ work = [w \in Work |-> "new"]
    /\ join = [j \in Joins |-> "new"]
    /\ destroyed = FALSE

-----------------------------------------------------------------------------
(* Associations. *)

AcceptsIn(state) == state \in {"unused", "open", "open_and_joining"}

(* Mutant: the count has no limit. *)
RefusesUncapped == ~AcceptsIn(word.state)

Refuses == word.count = MaxAssociations \/ ~AcceptsIn(word.state)

Associate(w) ==
    /\ work[w] = "new" /\ ~destroyed /\ ~Refuses
    /\ word' = [state |-> IF word.state = "unused" THEN "open" ELSE word.state,
                count |-> word.count + 1]
    /\ work' = [work EXCEPT ![w] = "held"]
    /\ UNCHANGED <<mutex, waiters, list, join, destroyed>>

AssociateRefused(w) ==
    /\ work[w] = "new" /\ ~destroyed /\ Refuses
    /\ work' = [work EXCEPT ![w] = "refused"]
    /\ UNCHANGED <<word, mutex, waiters, list, join, destroyed>>

(* Mutants: any disassociation of a joining scope finishes it, or only one *)
(* of a scope that is still open.                                          *)
FinishingEarly(left) == word.state \in {"open_and_joining", "closed_and_joining"}
FinishingOpen(left) == left = 0 /\ word.state = "open_and_joining"

(* The last disassociation of a joining scope makes it joined in the same  *)
(* update of the word.                                                     *)
Finishing(left) == left = 0 /\ word.state \in {"open_and_joining", "closed_and_joining"}

Disassociate(w) ==
    /\ work[w] = "held"
    /\ word' = [state |-> IF Finishing(word.count - 1) THEN "joined" ELSE word.state,
                count |-> word.count - 1]
    /\ work' = [work EXCEPT ![w] = IF Finishing(word.count - 1) THEN "take" ELSE "ended"]
    /\ UNCHANGED <<mutex, waiters, list, join, destroyed>>

(* Mutant: nothing is locked. *)
MutexIgnored == TRUE

MutexFree == mutex = None

(* Mutant: the waiters are not taken all at once. *)
TakeOneWaiter(w) ==
    /\ work[w] = "take" /\ MutexFree
    /\ \E j \in waiters : list' = {j} /\ waiters' = waiters \ {j}
    /\ work' = [work EXCEPT ![w] = "completing"]
    /\ UNCHANGED <<word, mutex, join, destroyed>>

(* complete_joins: the waiters are taken under the mutex, then completed.  *)
TakeWaiters(w) ==
    /\ work[w] = "take" /\ MutexFree
    /\ list' = waiters
    /\ waiters' = {}
    /\ work' = [work EXCEPT ![w] = "completing"]
    /\ UNCHANGED <<word, mutex, join, destroyed>>

(* join_schedule::start: inline, or through the receiver's scheduler. *)
CompleteJoin(w) ==
    /\ work[w] = "completing"
    /\ \E j \in list :
          /\ list' = list \ {j}
          /\ join' = [join EXCEPT ![j] = IF j \in ScheduledJoins THEN "scheduled" ELSE "done"]
    /\ UNCHANGED <<word, mutex, waiters, work, destroyed>>

AllCompleted(w) ==
    /\ work[w] = "completing" /\ list = {}
    /\ work' = [work EXCEPT ![w] = "ended"]
    /\ UNCHANGED <<word, mutex, waiters, list, join, destroyed>>

-----------------------------------------------------------------------------
(* Joins: join_operation::start and start_join.  A join that finds nothing *)
(* to wait for completes inside start() ("returned"), the others later.    *)

StartJoin(j) ==
    /\ join[j] = "new" /\ ~destroyed
    /\ join' = [join EXCEPT ![j] = "lock"]
    /\ UNCHANGED <<word, mutex, waiters, list, work, destroyed>>

LockMutex(j) ==
    /\ join[j] = "lock" /\ MutexFree
    /\ mutex' = j
    /\ join' = [join EXCEPT ![j] = "decide"]
    /\ UNCHANGED <<word, waiters, list, work, destroyed>>

(* Mutant: joining a closed scope opens it. *)
StateAfterJoinOpened == IF word.count = 0 THEN "joined" ELSE "open_and_joining"

StateAfterJoin ==
    CASE word.count = 0 -> "joined"
      [] word.count # 0 /\ word.state \in {"open", "open_and_joining"} -> "open_and_joining"
      [] OTHER -> "closed_and_joining"

Decide(j) ==
    /\ join[j] = "decide"
    /\ word' = [word EXCEPT !.state = StateAfterJoin]
    /\ join' = [join EXCEPT ![j] = IF StateAfterJoin = "joined" THEN "now" ELSE "push"]
    /\ UNCHANGED <<mutex, waiters, list, work, destroyed>>

Register(j) ==
    /\ join[j] = "push"
    /\ waiters' = waiters \cup {j}
    /\ mutex' = None
    /\ join' = [join EXCEPT ![j] = "waiting"]
    /\ UNCHANGED <<word, list, work, destroyed>>

CompleteNow(j) ==
    /\ join[j] = "now"
    /\ mutex' = None
    /\ join' = [join EXCEPT ![j] = "returned"]
    /\ UNCHANGED <<word, waiters, list, work, destroyed>>

(* The start scheduler runs the join's schedule operation, which completes *)
(* the join's receiver in one way or another.                              *)
ScheduleCompletes(j) ==
    /\ join[j] = "scheduled"
    /\ join' = [join EXCEPT ![j] = "done"]
    /\ UNCHANGED <<word, mutex, waiters, list, work, destroyed>>

-----------------------------------------------------------------------------
StateAfterClose ==
    CASE word.state = "unused"           -> "unused_and_closed"
      [] word.state = "open"             -> "closed"
      [] word.state = "open_and_joining" -> "closed_and_joining"
      [] OTHER                           -> word.state

Close ==
    /\ ~destroyed
    /\ word' = [word EXCEPT !.state = StateAfterClose]
    /\ UNCHANGED <<mutex, waiters, list, work, join, destroyed>>

InStart(j) == join[j] \in {"lock", "decide", "push", "now"}
Completed(j) == join[j] \in {"returned", "done"}

(* The owner destroys a scope it never used, or one whose joins, all those *)
(* it started, have completed, or it does so in a join's completion that   *)
(* complete_joins brought, although other joins have yet to hear of theirs.*)
(* It cannot see whether the operation that ended the last association is  *)
(* still inside disassociate().                                            *)
MayDestroy ==
    /\ \A j \in Joins : ~InStart(j)
    /\ \/ \A j \in Joins : join[j] = "new" \/ Completed(j)
       \/ \E j \in Joins : join[j] = "done"
    /\ \/ word.state \in {"unused", "unused_and_closed"}
       \/ \E j \in Joins : Completed(j)

Destroy ==
    /\ ~destroyed /\ MayDestroy
    /\ destroyed' = TRUE
    /\ UNCHANGED <<word, mutex, waiters, list, work, join>>

-----------------------------------------------------------------------------
(* What the library and the tracked operations go on to do. *)
WorkStep(w) == Disassociate(w) \/ TakeWaiters(w) \/ CompleteJoin(w) \/ AllCompleted(w)
JoinStep(j) == LockMutex(j) \/ Decide(j) \/ Register(j) \/ CompleteNow(j) \/ ScheduleCompletes(j)

Resting ==
    /\ \A w \in Work : work[w] \in {"new", "refused", "ended"}
    /\ \A j \in Joins : join[j] = "new" \/ Completed(j)

(* The users of a scope may stop calling it. *)
Idle == Resting /\ UNCHANGED vars

Next ==
    \/ \E w \in Work : Associate(w) \/ AssociateRefused(w) \/ WorkStep(w)
    \/ \E j \in Joins : StartJoin(j) \/ JoinStep(j)
    \/ Close \/ Destroy \/ Idle

Safety == Init /\ [][Next]_vars

(* Tracked operations end, and a thread inside the library is scheduled.   *)
Spec ==
    /\ Safety
    /\ \A w \in Work : WF_vars(WorkStep(w))
    /\ \A j \in Joins : WF_vars(JoinStep(j))

-----------------------------------------------------------------------------
Held == {w \in Work : work[w] = "held"}

(* The variables have their types; above all, the count of the word stays *)
(* between zero and max_associations.                                      *)
TypeOK ==
    /\ word \in [state : State, count : 0 .. MaxAssociations]
    /\ mutex \in Joins \cup {None}
    /\ waiters \subseteq Joins
    /\ list \subseteq Joins
    /\ work \in [Work -> {"new", "held", "refused", "take", "completing", "ended"}]
    /\ join \in [Joins -> {"new", "lock", "decide", "push", "waiting", "now", "returned", "scheduled", "done"}]
    /\ destroyed \in BOOLEAN

(* A scope whose join has completed may be destroyed at once, by the join's *)
(* own receiver and with more joins still to complete: the destructor      *)
(* finds a state in which it does not terminate the program, nothing is    *)
(* left in the scope, and no operation still touches the word, the mutex   *)
(* or the waiters; who completes the other joins has a list of its own.    *)
DestroyIsSafe ==
    destroyed =>
        /\ word.state \in {"unused", "unused_and_closed", "joined"}
        /\ Held = {} /\ \A w \in Work : work[w] # "take"
        /\ waiters = {} /\ mutex = None
        /\ \A j \in Joins : ~InStart(j)

(* A join that completes, or is about to, means that the scope is joined   *)
(* and no operation holds an association.                                  *)
JoinMeansEmpty ==
    (\E j \in Joins : join[j] \in {"now", "returned", "scheduled", "done"}) => word.state = "joined" /\ Held = {}

(* No registration is lost: while a join is registered or about to be,     *)
(* there is an operation that will complete it, either one that still      *)
(* holds an association or the one that ended the last.                    *)
NoLostJoin ==
    (\E j \in Joins : join[j] \in {"push", "waiting"}) =>
        Held # {} \/ \E w \in Work : work[w] \in {"take", "completing"}

(* Every join that is started completes once the tracked operations end.   *)
JoinCompletes == \A j \in Joins : join[j] = "lock" ~> Completed(j)

(* The promise of a joinable scope is kept. *)
Promise == INSTANCE JoinableScope WITH
    gate <- AcceptsIn(word.state),
    sealed <- word.state = "joined",
    active <- Held,
    join <- [j \in Joins |-> CASE join[j] = "new" -> "idle"
                               [] Completed(j)    -> "done"
                               [] OTHER           -> "waiting"]

(* The packed word, the mutex and the waiters implement JoinableScope.     *)
ImplementsJoinableScope == Promise!Spec
=============================================================================
