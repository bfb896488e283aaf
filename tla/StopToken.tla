------------------------------ MODULE StopToken ------------------------------
(***************************************************************************)
(* One inplace_stop_source, the inplace_stop_callbacks registered with it  *)
(* and the threads that call it (include/lexec/stop_token.hpp).            *)
(*                                                                         *)
(* A thread is either in user code (pc = "user") or inside a call of the   *)
(* library.  The body of a callback is user code too: it runs in a frame   *)
(* pushed by request_stop ("notify") or, when stop was requested before    *)
(* the registration, by the callback's constructor ("inline"), and it may  *)
(* make any legal call, destroy its own callback or destroy the source.    *)
(*                                                                         *)
(* The intrusive list is a sequence, and prev_ptr # nullptr is membership  *)
(* in it.  Atomics are sequentially consistent, and a failed               *)
(* compare-exchange of a spin loop is a step that is not taken.            *)
(***************************************************************************)
EXTENDS Naturals, Sequences, SequencesExt

CONSTANTS Threads,       \* the threads that call the source
          Callbacks,     \* callback objects, each constructed at most once
          None,          \* no thread, no callback
          MaxRequests    \* bound: calls of request_stop per thread

ASSUME StopTokenAssumption == None \notin Threads \cup Callbacks /\ MaxRequests \in Nat

VARIABLES
    src,     \* the source: its members, and whether it is alive
    local,   \* request_stop's locals destroyed and removed_during_callback
    cb,      \* the callbacks: their members and lifetime; runs is a history, 2 is "twice or more"
    th,      \* where a thread is, the callback its call is about, the bodies
             \* it is inside (innermost first) and the requests it has made
    wins     \* history: request_stop calls that returned true

vars == <<src, local, cb, th, wins>>

Init ==
    /\ src = [alive |-> TRUE, stop |-> FALSE, locked |-> FALSE, list |-> << >>,
              notifying |-> None, destroyedPtr |-> FALSE]
    /\ local = [destroyed |-> FALSE, removed |-> FALSE]
    /\ cb = [c \in Callbacks |-> [life |-> "unborn", source |-> FALSE, removedPtr |-> FALSE,
                                  completed |-> FALSE, runs |-> 0]]
    /\ th = [t \in Threads |-> [pc |-> "user", arg |-> None, stack |-> << >>, requests |-> 0]]
    /\ wins = 0

At(t, where) == th[t].pc = where
Goto(t, where) == th' = [th EXCEPT ![t].pc = where]
Call(t, where, c) == th' = [th EXCEPT ![t].pc = where, ![t].arg = c]
Arg(t) == th[t].arg
SetLife(c, stage) == cb' = [cb EXCEPT ![c].life = stage]
Registered(c) == c \in Range(src.list)

(* Mutant: only the lock is looked at. *)
MayLockStopped == ~src.locked

(* try_lock_unless_stop_requested succeeds. *)
MayLock == ~src.stop /\ ~src.locked

(* The list without a callback that is unlinked. *)
Without(c) == RemoveAt(src.list, CHOOSE i \in DOMAIN src.list : src.list[i] = c)

(* execute(): the thread enters the body of a callback. *)
Body(kind, c) == <<[kind |-> kind, cb |-> c]>>
Execute(t, kind, c) ==
    /\ th' = [th EXCEPT ![t].pc = "user", ![t].stack = Body(kind, c) \o @]
    /\ cb' = [cb EXCEPT ![c].runs = IF @ = 0 THEN 1 ELSE 2,
                        ![c].source = (kind = "notify"),
                        ![c].removedPtr = (kind = "notify")]

-----------------------------------------------------------------------------
(* Construction: register_callback and try_add_callback. *)

BeginConstruct(t, c) ==
    /\ At(t, "user") /\ src.alive /\ cb[c].life = "unborn"
    /\ Call(t, "add_lock", c)
    /\ cb' = [cb EXCEPT ![c].life = "constructing", ![c].source = TRUE]
    /\ UNCHANGED <<src, local, wins>>

AddRefused(t) ==
    /\ At(t, "add_lock") /\ src.stop
    /\ Execute(t, "inline", Arg(t))
    /\ UNCHANGED <<src, local, wins>>

AddLock(t) ==
    /\ At(t, "add_lock") /\ MayLock
    /\ Goto(t, "add")
    /\ src' = [src EXCEPT !.locked = TRUE]
    /\ UNCHANGED <<local, cb, wins>>

Add(t) ==
    /\ At(t, "add")
    /\ Goto(t, "user")
    /\ src' = [src EXCEPT !.list = <<Arg(t)>> \o @, !.locked = FALSE]
    /\ SetLife(Arg(t), "alive")
    /\ UNCHANGED <<local, wins>>

-----------------------------------------------------------------------------
(* Destruction: ~inplace_stop_callback and remove_callback. *)

BeginDestroy(t, c) ==
    /\ At(t, "user") /\ cb[c].life = "alive"
    /\ IF cb[c].source THEN Call(t, "rm_lock", c) /\ SetLife(c, "destroying")
                       ELSE UNCHANGED th /\ SetLife(c, "dead")
    /\ UNCHANGED <<src, local, wins>>

RemoveLock(t) ==
    /\ At(t, "rm_lock") /\ ~src.locked
    /\ Goto(t, "rm_unlink")
    /\ src' = [src EXCEPT !.locked = TRUE]
    /\ UNCHANGED <<local, cb, wins>>

RemoveUnlink(t) ==
    /\ At(t, "rm_unlink") /\ Registered(Arg(t))
    /\ Goto(t, "user")
    /\ src' = [src EXCEPT !.list = Without(Arg(t)), !.locked = FALSE]
    /\ SetLife(Arg(t), "dead")
    /\ UNCHANGED <<local, wins>>

(* Mutant: the write goes through a pointer that is not set. *)
MarkRemovedAlways(c) == local' = [local EXCEPT !.removed = TRUE]

(* The notifying thread destroys a callback it runs or ran: only it uses   *)
(* removed_during_callback, so the unlock and the write are one step.      *)
MarkRemoved(c) == local' = [local EXCEPT !.removed = @ \/ cb[c].removedPtr]

RemoveSelf(t) ==
    /\ At(t, "rm_unlink") /\ ~Registered(Arg(t)) /\ src.notifying = t
    /\ Goto(t, "user")
    /\ src' = [src EXCEPT !.locked = FALSE]
    /\ MarkRemoved(Arg(t))
    /\ SetLife(Arg(t), "dead")
    /\ UNCHANGED wins

RemoveOther(t) ==
    /\ At(t, "rm_unlink") /\ ~Registered(Arg(t)) /\ src.notifying # t
    /\ Goto(t, "rm_wait")
    /\ src' = [src EXCEPT !.locked = FALSE]
    /\ UNCHANGED <<local, cb, wins>>

MayStopWaiting(c) == cb[c].completed

RemoveWait(t) ==
    /\ At(t, "rm_wait") /\ MayStopWaiting(Arg(t))
    /\ Goto(t, "user")
    /\ SetLife(Arg(t), "dead")
    /\ UNCHANGED <<src, local, wins>>

-----------------------------------------------------------------------------
(* request_stop. *)

BeginRequest(t) ==
    /\ At(t, "user") /\ src.alive /\ th[t].requests < MaxRequests
    /\ th' = [th EXCEPT ![t].pc = "rs_try", ![t].requests = @ + 1]
    /\ UNCHANGED <<src, local, cb, wins>>

RequestRefused(t) ==
    /\ At(t, "rs_try") /\ src.stop
    /\ Goto(t, "user")
    /\ UNCHANGED <<src, local, cb, wins>>

RequestLock(t) ==
    /\ At(t, "rs_try") /\ MayLock
    /\ Goto(t, "rs_loop")
    /\ src' = [src EXCEPT !.stop = TRUE, !.locked = TRUE, !.notifying = t, !.destroyedPtr = TRUE]
    /\ local' = [local EXCEPT !.destroyed = FALSE]
    /\ UNCHANGED <<cb, wins>>

RequestDone(t) ==
    /\ At(t, "rs_loop") /\ src.list = << >>
    /\ Goto(t, "user")
    /\ src' = [src EXCEPT !.destroyedPtr = FALSE, !.locked = FALSE]
    /\ wins' = wins + 1
    /\ UNCHANGED <<local, cb>>

RequestPop(t) ==
    /\ At(t, "rs_loop") /\ src.list # << >>
    /\ Call(t, "rs_exec", Head(src.list))
    /\ src' = [src EXCEPT !.list = Tail(@), !.locked = FALSE]
    /\ UNCHANGED <<local, cb, wins>>

RequestExecute(t) ==
    /\ At(t, "rs_exec")
    /\ local' = [local EXCEPT !.removed = FALSE]
    /\ Execute(t, "notify", Arg(t))
    /\ UNCHANGED <<src, wins>>

RequestComplete(t) ==
    /\ At(t, "rs_complete")
    /\ Goto(t, "rs_relock")
    /\ cb' = [cb EXCEPT ![Arg(t)].removedPtr = FALSE, ![Arg(t)].completed = TRUE]
    /\ UNCHANGED <<src, local, wins>>

RequestRelock(t) ==
    /\ At(t, "rs_relock") /\ ~src.locked
    /\ Goto(t, "rs_loop")
    /\ src' = [src EXCEPT !.locked = TRUE]
    /\ UNCHANGED <<local, cb, wins>>

-----------------------------------------------------------------------------
(* The innermost body of a thread returns to the call that runs it. *)

Returns(t, kind) == At(t, "user") /\ th[t].stack # << >> /\ Head(th[t].stack).kind = kind

ReturnTo(t, where) ==
    th' = [th EXCEPT ![t].pc = where, ![t].arg = Head(th[t].stack).cb, ![t].stack = Tail(@)]

ReturnInline(t) ==
    /\ Returns(t, "inline")
    /\ ReturnTo(t, "user")
    /\ SetLife(Head(th[t].stack).cb, "alive")
    /\ UNCHANGED <<src, local, wins>>

(* Mutant: the source is taken to exist. *)
AfterBodySourceKept == IF local.removed THEN "rs_relock" ELSE "rs_complete"

(* request_stop returns if the source is gone, and leaves the callback     *)
(* alone if it is.                                                         *)
AfterBody == IF local.destroyed THEN "user"
             ELSE IF local.removed THEN "rs_relock" ELSE "rs_complete"

ReturnNotify(t) ==
    /\ Returns(t, "notify")
    /\ ReturnTo(t, AfterBody)
    /\ wins' = IF AfterBody = "user" THEN wins + 1 ELSE wins
    /\ UNCHANGED <<src, local, cb>>

(* ~inplace_stop_source.  Its user has destroyed every callback that still *)
(* refers to it, and no other thread is in a call; the thread that runs    *)
(* request_stop may do it from inside a callback's body.                   *)
MayDestroySource(t) ==
    /\ \A c \in Callbacks : cb[c].source => cb[c].life = "dead"
    /\ \A u \in Threads \ {t} :
          At(u, "user") /\ \A f \in Range(th[u].stack) : f.kind = "inline"

DestroySource(t) ==
    /\ At(t, "user") /\ src.alive /\ MayDestroySource(t)
    /\ src' = [src EXCEPT !.alive = FALSE]
    /\ local' = [local EXCEPT !.destroyed = @ \/ src.destroyedPtr]
    /\ UNCHANGED <<cb, th, wins>>

-----------------------------------------------------------------------------
(* The steps a thread inside a call or a body goes on to take. *)
Step(t) ==
    \/ AddRefused(t) \/ AddLock(t) \/ Add(t)
    \/ RemoveLock(t) \/ RemoveUnlink(t) \/ RemoveSelf(t) \/ RemoveOther(t) \/ RemoveWait(t)
    \/ RequestRefused(t) \/ RequestLock(t) \/ RequestDone(t) \/ RequestPop(t)
    \/ RequestExecute(t) \/ RequestComplete(t) \/ RequestRelock(t)
    \/ ReturnInline(t) \/ ReturnNotify(t)

(* The calls user code may choose to make. *)
UserCall(t) ==
    \/ \E c \in Callbacks : BeginConstruct(t, c) \/ BeginDestroy(t, c)
    \/ BeginRequest(t)
    \/ DestroySource(t)

AllReturned == \A t \in Threads : At(t, "user") /\ th[t].stack = << >>

(* User code may stop making calls. *)
Idle == AllReturned /\ UNCHANGED vars

Next == (\E t \in Threads : Step(t) \/ UserCall(t)) \/ Idle

(* A thread in a call is scheduled, and a callback's body returns. *)
Spec == Init /\ [][Next]_vars /\ \A t \in Threads : WF_vars(Step(t))

-----------------------------------------------------------------------------
Places == {"user", "add_lock", "add", "rm_lock", "rm_unlink", "rm_wait",
           "rs_try", "rs_loop", "rs_exec", "rs_complete", "rs_relock"}
BodyState == [kind : {"inline", "notify"}, cb : Callbacks]

SourceState == [alive : BOOLEAN, stop : BOOLEAN, locked : BOOLEAN, list : Seq(Callbacks),
                notifying : Threads \cup {None}, destroyedPtr : BOOLEAN]
CallbackState == [life : {"unborn", "constructing", "alive", "destroying", "dead"},
                  source : BOOLEAN, removedPtr : BOOLEAN, completed : BOOLEAN, runs : 0 .. 2]
ThreadState == [pc : Places, arg : Callbacks \cup {None}, stack : Seq(BodyState),
                requests : 0 .. MaxRequests]

(* The variables have their types; request_stop returns true at most once. *)
TypeOK ==
    /\ src \in SourceState
    /\ local \in [destroyed : BOOLEAN, removed : BOOLEAN]
    /\ cb \in [Callbacks -> CallbackState]
    /\ th \in [Threads -> ThreadState]
    /\ wins \in 0 .. 1

(* Nothing is used after its destructor has returned.  No call goes on     *)
(* with a destroyed source; request_stop reaches for a callback, to run it *)
(* or to mark it completed, only while it exists; a callback's body runs   *)
(* on after its destruction only on the thread that destroyed it from      *)
(* inside; and the list holds no destroyed callback.                       *)
NoUseAfterDestroy ==
    /\ TypeOK
    /\ ~src.alive => \A t \in Threads : At(t, "user")
    /\ \A t \in Threads : th[t].pc \in {"rs_exec", "rs_complete"} => cb[Arg(t)].life # "dead"
    /\ \A t \in Threads : \A f \in Range(th[t].stack) :
          f.kind = "notify" /\ cb[f.cb].life = "dead" => local.removed
    /\ \A c \in Range(src.list) : cb[c].life \in {"alive", "destroying"}

(* A stop request reaches every callback exactly once, wherever its        *)
(* registration or destruction fell: no callback runs twice or before the  *)
(* request, and when all calls have returned each callback that still      *)
(* exists has run if stop was requested.                                   *)
StopReachesEachOnce ==
    /\ \A c \in Callbacks : cb[c].runs <= IF src.stop THEN 1 ELSE 0
    /\ AllReturned /\ src.stop => \A c \in Callbacks : cb[c].life = "alive" => cb[c].runs = 1

(* No call waits for ever: neither a destructor for a callback that        *)
(* another thread runs, nor the request_stop call that made the request,   *)
(* also when one of the callbacks it runs destroys the source.             *)
CallsReturn ==
    /\ \A c \in Callbacks : cb[c].life = "destroying" ~> cb[c].life = "dead"
    /\ src.stop ~> (wins = 1)
=============================================================================
