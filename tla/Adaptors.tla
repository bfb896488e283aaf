------------------------------- MODULE Adaptors -------------------------------
(***************************************************************************)
(* Chains of sender adaptors over a leaf, connected and started: then,     *)
(* let, continues_on, bulk on its schedulers, associate, stop_when,        *)
(* any_sender and the adaptors that are lowered to these.                  *)
(*                                                                         *)
(* Operations are numbered from the outermost adaptor, 1, which owns the   *)
(* next one, down to the leaf; an adaptor may own a second operation, its  *)
(* Aux: what let's function returned, or a hop to a scheduler.  Whoever    *)
(* receives the completion of 1 destroys the whole chain there and then.   *)
(*                                                                         *)
(* A thread's stack holds what it has still to do.  start() and the        *)
(* completion functions do nothing after the call they end with, so the    *)
(* call replaces them; request_stop() and a callback's body stay below the *)
(* calls they make.  Stop sources and callbacks behave as StopToken shows, *)
(* and a job's chunks are handed out as ThreadPool shows.                  *)
(***************************************************************************)
EXTENDS Naturals, Sequences, FiniteSets

CONSTANTS
    Nobody,      \* no thread
    Workers,     \* the scheduler's threads, which also complete async leaves
    Depth,       \* bound: the adaptors of a chain
    Settings     \* the chains, leaves and receivers that are connected

Starter == "starter"     \* the thread that starts the operation
Asker == "asker"         \* the thread that requests stop of the receiver
Closer == "closer"       \* the thread that requests stop through stop_when's token
Threads == Workers \cup {Starter, Asker, Closer}

ASSUME AdaptorsAssumption ==
    /\ Depth \in Nat \ {0} /\ IsFiniteSet(Workers)
    /\ Workers \cap {Starter, Asker, Closer} = {} /\ Nobody \notin Threads

Root == 0                \* the receiver, and its stop source
Leaf == Depth + 1
Extra == Depth + 1       \* the source of stop_when's token
Never == Depth + 2       \* a token of a type that is never stopped
NoSource == Depth + 3    \* an inplace_stop_token that refers to no source
Ops == 1 .. 2 * Depth + 1
Aux(x) == Leaf + x
Callbacks == Ops \X {"receiver", "extra"}

(* Completions; an "exception" is an error that adds itself to the others. *)
Tags == {"value", "error", "exception", "stopped"}
OnChannel(tag, on) == tag = on \/ (tag = "exception" /\ on = "error")

-----------------------------------------------------------------------------
(* Senders without children, and adaptors: their kind, the channel they    *)
(* act on, whether what they call or copy may throw, the second sender,    *)
(* and the chunks of a bulk job, none of which means an empty shape.       *)

Just(tag) == [mode |-> "just", tag |-> tag]       \* just*, and the inline scheduler's
Pool      == [mode |-> "pool", tag |-> "value"]
Parallel  == [mode |-> "parallel", tag |-> "value"]
Async     == [mode |-> "async", tag |-> "value"]  \* completes as it likes, or when it is asked to stop

Adaptor(kind, on, throws, leaf, chunks) ==
    [kind |-> kind, on |-> on, throws |-> throws, leaf |-> leaf, chunks |-> chunks]

Plain(kind)         == Adaptor(kind, "none", FALSE, Async, {})
Call(on, throws)    == Adaptor("call", on, throws, Async, {})
Let(on, throws, sndr)      == Adaptor("let", on, throws, sndr, {})
ContinuesOn(sch, throws)   == Adaptor("continues_on", "none", throws, sch, {})
Bulk(chunks, throws)       == Adaptor("bulk", "value", throws, [mode |-> "hop", tag |-> "value"], chunks)

IntoVariant(throws)    == Call("value", throws)
WriteEnv               == Plain("write_env")
Unstoppable            == Plain("unstoppable")
StopWhen               == Plain("stop_when")
AnySender              == Plain("any_sender")
Associate              == Plain("associate")
StoppedAsOptional      == <<Let("stopped", FALSE, Just("value")), Call("value", FALSE)>>
StoppedAsError         == <<Let("stopped", TRUE, Just("error"))>>
StartsOn(sch, sndr)    == <<Let("value", TRUE, sndr), ContinuesOn(sch, FALSE)>>  \* over Just("value")
On(sch, sndr, back)    == <<ContinuesOn(back, FALSE)>> \o StartsOn(sch, sndr)
OnClosure(sch, closure, back) == <<ContinuesOn(back, FALSE)>> \o closure \o <<ContinuesOn(sch, FALSE)>>

VARIABLES
    set,      \* what is connected: the chain, the leaf, whether the receiver's
              \* token is of another type than inplace_stop_token
    gone,     \* by which thread an operation was destroyed, or Nobody; "unborn"
              \* is an Aux that is not connected yet
    op,       \* the leaves: "idle", "queued", "waiting" or "over"
    stored,   \* the completion a continues_on keeps for its scheduler
    job,      \* the bulk jobs: the chunks not claimed, the participants, the
              \* chunks that ran to their end, whether one failed, and those
              \* whose exception was written
    asked,    \* the sources that were asked to stop
    cb,       \* the callbacks' status, and the thread that runs their body
    stack,    \* what a thread has to do, innermost first
    outcome   \* how the receiver was completed, and on which scheduler's worker

vars == <<set, gone, op, stored, job, asked, cb, stack, outcome>>

Chain == set.chain
Levels == 1 .. Len(Chain)
Kind(x) == IF x \in Levels THEN Chain[x].kind ELSE "leaf"
Child(x) == IF x = Len(Chain) THEN Leaf ELSE x + 1
Parent(x) == CASE x < Leaf -> x - 1 [] x = Leaf -> Len(Chain) [] OTHER -> x - Leaf
LeafOf(x) == IF x = Leaf THEN set.leaf ELSE Chain[Parent(x)].leaf
Below(x) == {y \in Ops : y > x /\ y <= Leaf} \cup {Aux(y) : y \in {z \in Levels : z > x}}

(* The receiver's token, as each operation sees it: stop_when and          *)
(* any_sender put a source of their own in its place, that they forward    *)
(* to, unless there is nothing to forward, or nothing to convert.          *)
StopWhenForwards(x, token) == Kind(x) = "stop_when" /\ token # Never
Adapts(x, token) == Kind(x) = "any_sender" /\ token = Root /\ set.foreign
Forwards(x, token) == StopWhenForwards(x, token) \/ Adapts(x, token)

Shown(x, token) ==
    CASE Kind(x) = "unstoppable"                 -> Never
      [] Forwards(x, token)                      -> x
      [] Kind(x) = "stop_when" /\ token = Never  -> Extra
      [] Kind(x) = "any_sender" /\ token = Never -> NoSource
      [] OTHER                                   -> token

Tokens ==
    LET seen[x \in 1 .. Len(Chain) + 1] == IF x = 1 THEN Root ELSE Shown(x - 1, seen[x - 1])
    IN  seen

LevelOf(x) == CASE x < Leaf -> x [] x = Leaf -> Len(Chain) + 1 [] OTHER -> Parent(x)
Token(x) == Tokens[LevelOf(x)]
SourceOf(c) == IF c[2] = "extra" THEN Extra ELSE Token(c[1])
Stopped(token) == token \in asked

(* The scheduler a sender claims to send its value on: a let does not know *)
(* its second sender, and associate and any_sender tell nothing.           *)
LeafClaims(leaf) == IF leaf.mode \in {"pool", "parallel"} THEN leaf.mode ELSE "none"
LetClaims == "none"
ContinuesOnClaims(level) == LeafClaims(level.leaf)

Claims ==
    LET on[x \in 1 .. Len(Chain) + 1] ==
            IF x > Len(Chain) THEN LeafClaims(set.leaf)
            ELSE CASE Kind(x) = "let"                       -> LetClaims
                   [] Kind(x) = "continues_on"              -> ContinuesOnClaims(Chain[x])
                   [] Kind(x) \in {"associate", "any_sender"} -> "none"
                   [] OTHER                                 -> on[x + 1]
    IN  on

(* A bulk runs on the scheduler its predecessor claims, or where it is.    *)
OnPool(x) == Claims[x + 1] = "pool"
OnBackend(x) == Claims[x + 1] = "parallel"
Here(x) == ~OnPool(x) /\ ~OnBackend(x)

(* The completions a sender declares. *)
LeafSigs(leaf) ==
    CASE leaf.mode = "just"     -> {leaf.tag}
      [] leaf.mode = "pool"     -> {"value", "stopped"}
      [] leaf.mode = "parallel" -> {"value", "stopped", "exception"}
      [] leaf.mode = "async"    -> {"value", "error", "stopped"}

Thrown(level, when) == IF when /\ level.throws THEN {"exception"} ELSE {}

(* Those of one channel are replaced, if there are any. *)
Transformed(level, below, into) ==
    LET taken == {tag \in below : OnChannel(tag, level.on)} IN
        (below \ taken) \cup (IF taken = {} THEN {} ELSE into) \cup Thrown(level, taken # {})

CallSigs(level, below)         == Transformed(level, below, {"value"})
LetSigs(level, below)          == Transformed(level, below, LeafSigs(level.leaf))
BulkSigs(level, below)         == Transformed(level, below, {"value"})
BackendBulkSigs(level, below)  == BulkSigs(level, below) \cup {"exception", "stopped"}
AssociateSigs(below)           == below \cup {"stopped"}
ContinuesOnSigs(level, below)  ==
    below \cup (LeafSigs(level.leaf) \ {"value"}) \cup Thrown(level, below \cap {"value", "error"} # {})

Sigs ==
    LET declared[x \in 1 .. Len(Chain) + 1] ==
            IF x > Len(Chain) THEN LeafSigs(set.leaf)
            ELSE LET level == Chain[x]
                     below == declared[x + 1]
                 IN  CASE level.kind = "call"         -> CallSigs(level, below)
                       [] level.kind = "let"          -> LetSigs(level, below)
                       [] level.kind = "continues_on" -> ContinuesOnSigs(level, below)
                       [] level.kind = "associate"    -> AssociateSigs(below)
                       [] level.kind = "bulk"         -> IF OnBackend(x) THEN BackendBulkSigs(level, below)
                                                                         ELSE BulkSigs(level, below)
                       [] OTHER                       -> below
    IN  declared

-----------------------------------------------------------------------------
NoJob == [left |-> {}, in |-> {}, ran |-> {}, failed |-> FALSE, error |-> {}]

Init ==
    /\ set \in Settings
    /\ gone = [x \in Ops |-> IF x > Leaf /\ Kind(Parent(x)) = "let" THEN "unborn" ELSE Nobody]
    /\ op = [x \in Ops |-> "idle"]
    /\ stored = [x \in Ops |-> "none"]
    /\ job = [x \in Ops |-> NoJob]
    /\ asked = {}
    /\ cb = [c \in Callbacks |-> [status |-> "none", on |-> Nobody]]
    /\ stack = [t \in Threads |-> << >>]
    /\ outcome = [tag |-> "unstarted", on |-> "none"]

Item(do, x, tag) == [do |-> do, at |-> x, tag |-> tag]
Idle(t) == stack[t] = << >>
Top(t, do) == ~Idle(t) /\ Head(stack[t]).do = do
At(t) == Head(stack[t]).at
Tag(t) == Head(stack[t]).tag

(* What a scheduler's worker runs has its scheduler at the bottom.         *)
OnWorker(place, items) == items \o <<Item("worker", Root, place)>>
Place(t) == LET bottom == stack[t][Len(stack[t])] IN IF bottom.do = "worker" THEN bottom.tag ELSE "none"

(* A thread goes on with these items instead of the one it is at.          *)
Continue(t, items) ==
    LET rest == items \o Tail(stack[t])
        done == rest # << >> /\ Head(rest).do = "worker" IN
    stack' = [stack EXCEPT ![t] = IF done THEN << >> ELSE rest]
Deliver(x, tag) == <<Item("deliver", x, tag)>>
End(t, x, tag) == Continue(t, Deliver(x, tag))

OnlyStack == UNCHANGED <<set, gone, op, stored, job, asked, cb, outcome>>

-----------------------------------------------------------------------------
(* Stop sources and callbacks. *)

(* A callback joins its source's list, or runs now if stop was requested.  *)
Register(t) ==
    /\ Top(t, "register")
    /\ LET c == <<At(t), Tag(t)>>
           late == Stopped(SourceOf(c)) IN
          /\ cb' = [cb EXCEPT ![c] = IF late THEN [status |-> "running", on |-> t]
                                             ELSE [status |-> "armed", on |-> Nobody]]
          /\ Continue(t, IF late THEN <<Item("body", c[1], c[2])>> ELSE << >>)
    /\ UNCHANGED <<set, gone, op, stored, job, asked, outcome>>

(* The destructor waits for a body that another thread runs. *)
MayDrop(c, t) == cb[c].on \in {Nobody, t}

Drop(t) ==
    /\ Top(t, "drop")
    /\ LET c == <<At(t), Tag(t)>> IN
          /\ MayDrop(c, t)
          /\ cb' = [cb EXCEPT ![c].status = "gone"]
    /\ Continue(t, << >>)
    /\ UNCHANGED <<set, gone, op, stored, job, asked, outcome>>

(* request_stop: the first call runs the callbacks, one after the other.   *)
Request(t) ==
    /\ Top(t, "request")
    /\ asked' = asked \cup {At(t)}
    /\ Continue(t, IF Stopped(At(t)) THEN << >> ELSE <<Item("notify", At(t), "none")>>)
    /\ UNCHANGED <<set, gone, op, stored, job, cb, outcome>>

Armed(s) == {c \in Callbacks : cb[c].status = "armed" /\ SourceOf(c) = s}

Notify(t) ==
    /\ Top(t, "notify")
    /\ \/ \E c \in Armed(At(t)) :
             /\ cb' = [cb EXCEPT ![c] = [status |-> "running", on |-> t]]
             /\ stack' = [stack EXCEPT ![t] = <<Item("body", c[1], c[2])>> \o @]
       \/ Armed(At(t)) = {} /\ Continue(t, << >>) /\ UNCHANGED cb
    /\ UNCHANGED <<set, gone, op, stored, job, asked, outcome>>

Running(t) == Item("return", At(t), Tag(t))

(* forward_stop *)
ForwardStop(t) ==
    /\ Top(t, "body") /\ At(t) \in Levels
    /\ Continue(t, <<Item("request", At(t), "none"), Running(t)>>)
    /\ OnlyStack

(* A leaf's own callback completes it if nothing else has. *)
StopLeaf(t) ==
    /\ Top(t, "body") /\ At(t) \notin Levels
    /\ LET x == At(t) IN
          IF op[x] = "waiting"
             THEN /\ op' = [op EXCEPT ![x] = "over"]
                  /\ Continue(t, <<Item("drop", x, "receiver")>> \o Deliver(x, "stopped") \o <<Running(t)>>)
             ELSE Continue(t, <<Running(t)>>) /\ UNCHANGED op
    /\ UNCHANGED <<set, gone, stored, job, asked, cb, outcome>>

(* A callback that was destroyed meanwhile is left alone. *)
Return(t) ==
    /\ Top(t, "return")
    /\ LET c == <<At(t), Tag(t)>> IN
          cb' = [cb EXCEPT ![c] = [status |-> IF @.status = "gone" THEN "gone" ELSE "done", on |-> Nobody]]
    /\ Continue(t, << >>)
    /\ UNCHANGED <<set, gone, op, stored, job, asked, outcome>>

-----------------------------------------------------------------------------
(* start() *)

(* Mutant: only the requests of the receiver's token are forwarded. *)
ForwardingReceiver(x) == <<Item("register", x, "receiver")>>

Forwarding(x) == <<Item("register", x, "extra"), Item("register", x, "receiver")>>

Starts(t, kinds, items) ==
    /\ Top(t, "start") /\ Kind(At(t)) \in kinds
    /\ Continue(t, items \o <<Item("start", Child(At(t)), "none")>>)
    /\ OnlyStack

StartChild(t) == Starts(t, {"call", "let", "continues_on", "bulk", "write_env", "unstoppable", "associate"}, << >>)

StartStopWhen(t) ==
    Starts(t, {"stop_when"}, IF StopWhenForwards(At(t), Token(At(t))) THEN Forwarding(At(t)) ELSE << >>)

AttachAndStart(t) ==
    Starts(t, {"any_sender"}, IF Adapts(At(t), Token(At(t))) THEN <<Item("register", At(t), "receiver")>> ELSE << >>)

(* The scope of an associate accepts no more associations. *)
Refuse(t) ==
    /\ Top(t, "start") /\ Kind(At(t)) = "associate"
    /\ End(t, At(t), "stopped")
    /\ OnlyStack

StartsLeaf(t, modes) == Top(t, "start") /\ Kind(At(t)) = "leaf" /\ LeafOf(At(t)).mode \in modes

StartJust(t) ==
    /\ StartsLeaf(t, {"just"})
    /\ op' = [op EXCEPT ![At(t)] = "over"]
    /\ End(t, At(t), LeafOf(At(t)).tag)
    /\ UNCHANGED <<set, gone, stored, job, asked, cb, outcome>>

(* The pool's operation is a task of the pool; the backend makes one.      *)
Enqueue(t) ==
    /\ StartsLeaf(t, {"pool", "parallel", "hop"})
    /\ op' = [op EXCEPT ![At(t)] = "queued"]
    /\ Continue(t, << >>)
    /\ UNCHANGED <<set, gone, stored, job, asked, cb, outcome>>

StartAsync(t) ==
    /\ StartsLeaf(t, {"async"})
    /\ LET x == At(t) IN
          IF Stopped(Token(x))
             THEN op' = [op EXCEPT ![x] = "over"] /\ End(t, x, "stopped") /\ UNCHANGED cb
             ELSE /\ op' = [op EXCEPT ![x] = "waiting"]
                  /\ cb' = IF Token(x) = Never THEN cb ELSE [cb EXCEPT ![<<x, "receiver">>].status = "armed"]
                  /\ Continue(t, << >>)
    /\ UNCHANGED <<set, gone, stored, job, asked, outcome>>

(* A worker runs a queued operation. *)
Execute(w, x, modes, stopped) ==
    /\ op[x] = "queued" /\ LeafOf(x).mode \in modes /\ Idle(w)
    /\ op' = [op EXCEPT ![x] = "over"]
    /\ LET place == IF LeafOf(x).mode = "pool" THEN "pool" ELSE "parallel" IN
          stack' = [stack EXCEPT ![w] = OnWorker(place, Deliver(x, IF stopped THEN "stopped" ELSE "value"))]
    /\ UNCHANGED <<set, gone, stored, job, asked, cb, outcome>>

(* The backend is shown the token only if it is an inplace_stop_token.     *)
Queried(x) == ~(Token(x) = Root /\ set.foreign)

ExecutePool(w, x) == Execute(w, x, {"pool"}, Stopped(Token(x)))
ExecuteParallel(w, x) == Execute(w, x, {"parallel"}, Stopped(Token(x)) /\ Queried(x))
ExecuteHop(w, x) == Execute(w, x, {"hop"}, FALSE)

(* An async leaf completes on a thread of its own. *)
CompleteAsync(w, x) ==
    /\ op[x] = "waiting" /\ Idle(w)
    /\ op' = [op EXCEPT ![x] = "over"]
    /\ \E tag \in LeafSigs(Async) :
          stack' = [stack EXCEPT ![w] =
              (IF Token(x) = Never THEN << >> ELSE <<Item("drop", x, "receiver")>>) \o Deliver(x, tag)]
    /\ UNCHANGED <<set, gone, stored, job, asked, cb, outcome>>

-----------------------------------------------------------------------------
(* complete(): the parent of the operation at hand receives its completion. *)

Receives(t, kind) == Top(t, "deliver") /\ At(t) # 1 /\ Kind(Parent(At(t))) = kind
FromAux(t) == At(t) > Leaf
Throws(x) == Chain[x].throws /\ x \in Levels

(* The default, and the completions an adaptor does not act on. *)
DefaultPasses(t, x) ==
    \/ Kind(x) \in {"write_env", "unstoppable", "associate"}
    \/ Kind(x) = "call" /\ ~OnChannel(Tag(t), Chain[x].on)

RelayPasses(t, x) == Kind(x) = "any_sender" /\ ~Adapts(x, Token(x))
StopWhenPasses(t, x) == Kind(x) = "stop_when" /\ ~StopWhenForwards(x, Token(x))
LetPasses(t, x) == Kind(x) = "let" /\ (FromAux(t) \/ ~OnChannel(Tag(t), Chain[x].on))
ContinuesOnPasses(t, x) == Kind(x) = "continues_on" /\ FromAux(t) /\ Tag(t) # "value"
BulkPasses(t, x) == Kind(x) = "bulk" /\ ~FromAux(t) /\ Tag(t) # "value"

PassOn(t) ==
    /\ Top(t, "deliver") /\ At(t) # 1
    /\ LET x == Parent(At(t)) IN
          /\ \/ DefaultPasses(t, x) \/ RelayPasses(t, x) \/ StopWhenPasses(t, x)
             \/ LetPasses(t, x) \/ ContinuesOnPasses(t, x) \/ BulkPasses(t, x)
          /\ End(t, x, Tag(t))
    /\ OnlyStack

(* Calling a function, or moving the results, may throw. *)
Calls(t) ==
    /\ LET x == Parent(At(t)) IN
          /\ OnChannel(Tag(t), Chain[x].on)
          /\ \/ End(t, x, "value")
             \/ Throws(x) /\ End(t, x, "exception")
    /\ OnlyStack

CallFunction(t) == Receives(t, "call") /\ Calls(t)

(* bulk where no scheduler runs it *)
RunHere(t) == Receives(t, "bulk") /\ Here(Parent(At(t))) /\ Calls(t)

Destroyed(t, xs) == [x \in Ops |-> IF x \in xs THEN t ELSE gone[x]]

(* let: the results are stored, the child is destroyed, the second sender  *)
(* is made, connected in its place and started.  Each may throw.           *)
Bind(t) ==
    /\ Receives(t, "let") /\ ~FromAux(t) /\ OnChannel(Tag(t), Chain[Parent(At(t))].on)
    /\ LET x == Parent(At(t)) IN
          \/ gone' = [Destroyed(t, Below(x)) EXCEPT ![Aux(x)] = Nobody]
             /\ Continue(t, <<Item("start", Aux(x), "none")>>)
          \/ /\ Throws(x)
             /\ gone' \in {gone, Destroyed(t, Below(x))}
             /\ End(t, x, "exception")
    /\ UNCHANGED <<set, op, stored, job, asked, cb, outcome>>

(* continues_on: whatever the child sends is kept, then the scheduler runs. *)
Store(t) ==
    /\ Receives(t, "continues_on") /\ ~FromAux(t)
    /\ LET x == Parent(At(t)) IN
          \/ /\ stored' = [stored EXCEPT ![x] = Tag(t)]
             /\ Continue(t, <<Item("start", Aux(x), "none")>>)
          \/ Throws(x) /\ Tag(t) \in {"value", "error"} /\ End(t, x, "exception") /\ UNCHANGED stored
    /\ UNCHANGED <<set, gone, op, job, asked, cb, outcome>>

Replay(t) ==
    /\ Receives(t, "continues_on") /\ FromAux(t) /\ Tag(t) = "value"
    /\ End(t, Parent(At(t)), stored[Parent(At(t))])
    /\ OnlyStack

(* Mutant: the adaptor's callbacks stay registered. *)
ReleasingNone(x) == << >>

(* stop_when: both callbacks go before the receiver is completed.          *)
Releasing(x) == <<Item("drop", x, "receiver"), Item("drop", x, "extra")>>

ReleaseCallbacks(t) ==
    /\ Receives(t, "stop_when")
    /\ LET x == Parent(At(t)) IN
          StopWhenForwards(x, Token(x)) /\ Continue(t, Releasing(x) \o Deliver(x, Tag(t)))
    /\ OnlyStack

(* any_sender's operation: so does its one. *)
Detach(t) ==
    /\ Receives(t, "any_sender")
    /\ LET x == Parent(At(t)) IN
          Adapts(x, Token(x)) /\ Continue(t, <<Item("drop", x, "receiver")>> \o Deliver(x, Tag(t)))
    /\ OnlyStack

(* The receiver is completed, and the operation destroyed at once. *)
CompleteReceiver(t) ==
    /\ Top(t, "deliver") /\ At(t) = 1
    /\ outcome' = [tag |-> Tag(t), on |-> Place(t)]
    /\ gone' = [x \in Ops |-> IF gone[x] = Nobody THEN t ELSE gone[x]]
    /\ Continue(t, << >>)
    /\ UNCHANGED <<set, op, stored, job, asked, cb>>

-----------------------------------------------------------------------------
(* Bulk work that a scheduler runs: pool_bulk_operation, and, after a hop  *)
(* to a worker, parallel_bulk_operation.                                   *)

RunJob(t, x) ==
    IF Chain[x].chunks = {} THEN End(t, x, "value") /\ UNCHANGED job
    ELSE /\ job' = [job EXCEPT ![x] = [NoJob EXCEPT !.left = Chain[x].chunks, !.in = {t}]]
         /\ Continue(t, <<Item("participate", x, "none")>>)

(* The values are stored first, which may throw. *)
StoresValues(t) == Receives(t, "bulk") /\ ~FromAux(t) /\ Tag(t) = "value"

StartJob(t) ==
    /\ StoresValues(t)
    /\ LET x == Parent(At(t)) IN
          /\ OnPool(x)
          /\ RunJob(t, x) \/ (Throws(x) /\ End(t, x, "exception") /\ UNCHANGED job)
    /\ UNCHANGED <<set, gone, op, stored, asked, cb, outcome>>

StartBackend(t) ==
    /\ StoresValues(t)
    /\ LET x == Parent(At(t)) IN
          /\ OnBackend(x)
          /\ Continue(t, <<Item("start", Aux(x), "none")>>) \/ (Throws(x) /\ End(t, x, "exception"))
    /\ OnlyStack

Hop(t) ==
    /\ Receives(t, "bulk") /\ FromAux(t)
    /\ RunJob(t, Parent(At(t)))
    /\ UNCHANGED <<set, gone, op, stored, asked, cb, outcome>>

Join(w, x) ==
    /\ Idle(w) /\ job[x].left # {}
    /\ job' = [job EXCEPT ![x].in = @ \cup {w}]
    /\ stack' = [stack EXCEPT ![w] = OnWorker(Claims[x + 1], <<Item("participate", x, "none")>>)]
    /\ UNCHANGED <<set, gone, op, stored, asked, cb, outcome>>

Claim(t) ==
    /\ Top(t, "participate")
    /\ \E chunk \in job[At(t)].left :
          /\ job' = [job EXCEPT ![At(t)].left = @ \ {chunk}]
          /\ Continue(t, <<Item("chunk", At(t), chunk), Item("participate", At(t), "none")>>)
    /\ UNCHANGED <<set, gone, op, stored, asked, cb, outcome>>

(* run_chunk_of, run_of: after a failure the other chunks are skipped. *)
RunChunk(t) ==
    /\ Top(t, "chunk")
    /\ Continue(t, IF job[At(t)].failed THEN << >> ELSE <<Item("invoke", At(t), Tag(t))>>)
    /\ OnlyStack

Invoke(t) ==
    /\ Top(t, "invoke")
    /\ LET x == At(t) IN
          \/ /\ job' = [job EXCEPT ![x].ran = @ \cup {Tag(t)}]
             /\ Continue(t, << >>)
          \/ /\ Throws(x)
             /\ job' = [job EXCEPT ![x].failed = TRUE]
             /\ Continue(t, IF job[x].failed THEN << >> ELSE <<Item("keep", x, Tag(t))>>)
    /\ UNCHANGED <<set, gone, op, stored, asked, cb, outcome>>

(* The one that set the flag writes its exception, without a lock. *)
KeepError(t) ==
    /\ Top(t, "keep")
    /\ job' = [job EXCEPT ![At(t)].error = @ \cup {Tag(t)}]
    /\ Continue(t, << >>)
    /\ UNCHANGED <<set, gone, op, stored, asked, cb, outcome>>

(* Mutant: the participant that finds no chunk completes the job. *)
LastToLeaveAny(t, x) == TRUE

LastToLeave(t, x) == job[x].in = {t}

JobOutcome(x) == IF job[x].failed THEN "exception" ELSE "value"

(* complete_of, and finish and send_of, by the last participant. *)
Leave(t) ==
    /\ Top(t, "participate") /\ job[At(t)].left = {}
    /\ job' = [job EXCEPT ![At(t)].in = @ \ {t}]
    /\ Continue(t, IF ~LastToLeave(t, At(t)) THEN << >>
                   ELSE Deliver(At(t), JobOutcome(At(t))))
    /\ UNCHANGED <<set, gone, op, stored, asked, cb, outcome>>

-----------------------------------------------------------------------------
Step(t) ==
    \/ Register(t) \/ Drop(t) \/ Request(t) \/ Notify(t) \/ ForwardStop(t) \/ StopLeaf(t) \/ Return(t)
    \/ StartChild(t) \/ StartStopWhen(t) \/ AttachAndStart(t) \/ Refuse(t)
    \/ StartJust(t) \/ Enqueue(t) \/ StartAsync(t)
    \/ PassOn(t) \/ CallFunction(t) \/ RunHere(t) \/ Bind(t) \/ Store(t) \/ Replay(t)
    \/ ReleaseCallbacks(t) \/ Detach(t) \/ CompleteReceiver(t)
    \/ StartJob(t) \/ StartBackend(t) \/ Hop(t)
    \/ Claim(t) \/ RunChunk(t) \/ Invoke(t) \/ KeepError(t) \/ Leave(t)

Begin(t, items) == Idle(t) /\ stack' = [stack EXCEPT ![t] = items]

StartRoot ==
    /\ outcome.tag = "unstarted"
    /\ outcome' = [outcome EXCEPT !.tag = "none"]
    /\ Begin(Starter, <<Item("start", 1, "none")>>)
    /\ UNCHANGED <<set, gone, op, stored, job, asked, cb>>

Ask(t, source) ==
    /\ ~Stopped(source)
    /\ Begin(t, <<Item("request", source, "none")>>)
    /\ OnlyStack

Work(w, x) == ExecutePool(w, x) \/ ExecuteParallel(w, x) \/ ExecuteHop(w, x) \/ Join(w, x)

(* Nothing need be started, asked to stop or, being async, complete. *)
Rest == (\A t \in Threads : Idle(t)) /\ UNCHANGED vars

Next ==
    \/ \E t \in Threads : Step(t)
    \/ \E w \in Workers, x \in Ops : Work(w, x) \/ CompleteAsync(w, x)
    \/ StartRoot \/ Ask(Asker, Root) \/ Ask(Closer, Extra)
    \/ Rest

(* Threads are scheduled, and workers look for work. *)
Spec ==
    /\ Init /\ [][Next]_vars
    /\ \A t \in Threads : WF_vars(Step(t))
    /\ \A w \in Workers : WF_vars(\E x \in Ops : Work(w, x))

-----------------------------------------------------------------------------
(* The variables have their types. *)
TypeOK ==
    /\ set \in Settings
    /\ gone \in [Ops -> Threads \cup {Nobody, "unborn"}]
    /\ op \in [Ops -> {"idle", "queued", "waiting", "over"}]
    /\ stored \in [Ops -> Tags \cup {"none"}]
    /\ \A x \in Ops : job[x].in \subseteq Threads /\ job[x].failed \in BOOLEAN
    /\ asked \subseteq 0 .. Depth + 1
    /\ cb \in [Callbacks -> [status : {"none", "armed", "running", "done", "gone"}, on : Threads \cup {Nobody}]]
    /\ outcome \in [tag : Tags \cup {"unstarted", "none"}, on : {"none", "pool", "parallel"}]

(* No thread goes on to touch an operation that was destroyed, and no      *)
(* callback outlives its operation or the source it is registered with.    *)
(* Whether a request_stop() may go on is SourceOutlivesRequest's question. *)
Alive(x) == x \in {Root, Extra, NoSource} \/ gone[x] = Nobody

Touches(item) ==
    CASE item.do = "request" -> Alive(item.at)
      [] item.do \in {"notify", "worker"} -> TRUE
      [] item.do = "return"  -> gone[item.at] = Nobody \/ cb[<<item.at, item.tag>>].status = "gone"
      [] OTHER               -> gone[item.at] = Nobody

NoUseAfterDestroy ==
    /\ TypeOK
    /\ \A t \in Threads : \A i \in DOMAIN stack[t] : Touches(stack[t][i])
    /\ \A c \in Callbacks : cb[c].status \in {"armed", "running"} =>
          gone[c[1]] = Nobody /\ Alive(SourceOf(c))

(* A stop source that a thread is in request_stop() of is destroyed by     *)
(* that thread alone, inside a callback ("on whose thread alone the source *)
(* may go", stop_token.hpp:105), which request_stop() finds out.           *)
SourceOutlivesRequest ==
    \A t \in Threads : \A i \in DOMAIN stack[t] :
        stack[t][i].do = "notify" => Alive(stack[t][i].at) \/ gone[stack[t][i].at] = t

(* The receiver is completed in a way the chain declares, and with a value *)
(* on the scheduler the chain claims, unless an error was made a value     *)
(* behind it.  A bulk that sends a value ran every chunk; one that failed  *)
(* sends an exception that one chunk alone has written, however many have  *)
(* thrown; either way nobody is in it any more.                            *)
Recovers == \E x \in Levels : Kind(x) = "call" /\ Chain[x].on # "value" /\ Claims[x] # "none"

Finished(x, tag) ==
    /\ job[x].in = {}
    /\ tag = "value" => job[x].ran = Chain[x].chunks
    /\ tag = "exception" /\ job[x].failed => Cardinality(job[x].error) = 1

CompletesAsDeclared ==
    /\ outcome.tag \in Tags =>
          /\ outcome.tag \in Sigs[1]
          /\ outcome.tag = "value" /\ Claims[1] # "none" /\ ~Recovers => outcome.on = Claims[1]
    /\ \A t \in Threads, x \in Levels :
          Top(t, "deliver") /\ At(t) = x /\ Kind(x) = "bulk" /\ ~Here(x) => Finished(x, Tag(t))

(* A started chain completes its receiver, unless an async leaf waits that *)
(* nobody asked to stop: neither the receiver's source nor that of a       *)
(* stop_when's token above it, unless unstoppable comes in between.        *)
Hears ==
    LET from[x \in 1 .. Len(Chain) + 1] ==
            IF x = 1 THEN {Root}
            ELSE CASE Kind(x - 1) = "unstoppable" -> {}
                   [] Kind(x - 1) = "stop_when"   -> from[x - 1] \cup {Extra}
                   [] OTHER                       -> from[x - 1]
    IN  from

MayWait(x) == op[x] = "waiting" /\ asked \cap Hears[LevelOf(x)] = {}
Settled == outcome.tag \in Tags \cup {"unstarted"} \/ \E x \in Ops : MayWait(x)

ChainCompletes == []<>Settled
===============================================================================
