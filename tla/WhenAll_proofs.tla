---------------------------- MODULE WhenAll_proofs ----------------------------
(***************************************************************************)
(* The invariants of WhenAll, for any number of children: the operation is *)
(* not touched after it was destroyed, and its receiver is completed once, *)
(* with what the children's completions call for.                          *)
(***************************************************************************)
EXTENDS WhenAll, FiniteSetTheorems, TLAPS

(* The children that have not arrived, and those that arrived as the last. *)
Untouched(c) == child[c].pc \in {"unstarted", "running"}
Finishing(c) == child[c].pc \in {"reset", "complete"}
Pending == {c \in Children : child[c].pc \notin {"reset", "complete", "returned"}}

Counted == remaining = Cardinality(Pending)

(* How far start() has come. *)
Started ==
    /\ pc.starter \in {"idle", "check", "reset", "stopped"} => next = 1
    /\ pc.starter = "end" => next = N + 1 \/ (next = 1 /\ destroyer # Nobody)
    /\ \A c \in Children : At(c, "unstarted") <=> c >= next
    /\ pc.starter \in {"idle", "check"} /\ stop => asked
    /\ pc.starter \in {"reset", "stopped"} => asked
    /\ pc.starter = "stopped" => onStop = [status |-> "gone", on |-> Nobody]

(* Where a child completes: it is on the stopper's thread only inside the  *)
(* one call of request_stop that the stopper made.                         *)
Inside ==
    \A c \in Children :
        /\ child[c].tag = "none" <=> Untouched(c)
        /\ ~Untouched(c) => child[c].on # Nobody
        /\ notifier = c <=> At(c, "notify")
        /\ child[c].on = Stopper => /\ stop /\ notifier \notin Children /\ child[c].within = Stopper
                                    /\ At(c, "returned") \/ pc.stopper = "notify"

Forwarding ==
    /\ notifier = Stopper <=> pc.stopper = "notify"
    /\ notifier # Nobody => stop
    /\ onStop.on = Stopper <=> pc.stopper \in {"forward", "notify", "return"}
    /\ pc.stopper # "idle" => asked

(* One child arrives last; it waits for the callback before it completes.  *)
LastOne ==
    \A c \in Children : Finishing(c) =>
        /\ remaining = 0
        /\ \A d \in Children : Finishing(d) => d = c
        /\ At(c, "complete") => onStop.status = "gone" /\ onStop.on \in {Nobody, child[c].on}

Destroyed ==
    /\ outcome # "none" => destroyer # Nobody
    /\ destroyer # Nobody => onStop.status = "gone"

(* when_all: what the disposition says of the children. *)
AllTags ==
    /\ \A c \in Children :
        /\ ~At(c, "store_result")
        /\ child[c].pc \in {"value", "throw", "stopped"} => child[c].tag = child[c].pc
        /\ At(c, "store") => child[c].tag = "value"
        /\ child[c].pc \in {"error", "store_error"} => child[c].tag \in {"error", "throw"}
        /\ child[c].tag = "error" => disposition = "error" \/ At(c, "error")
        /\ disposition = "started" /\ ~Untouched(c) /\ child[c].pc \notin Tags \cup {"store"} =>
               c \in values /\ child[c].tag = "value"
    /\ disposition = "stopped" => \E c \in Children : child[c].tag = "stopped"

AllErrors ==
    /\ disposition = "error" => error # Nobody \/ \E c \in Children : At(c, "store_error")
    /\ error # Nobody => disposition = "error" /\ child[error].tag \in {"error", "throw"}
    /\ \A c \in Children : At(c, "store_error") =>
           /\ disposition = "error" /\ error = Nobody
           /\ \A d \in Children : At(d, "store_error") => d = c

(* when_any: what the first completion says of the children. *)
AnyFirst ==
    /\ \A c \in Children :
        /\ child[c].pc \notin {"store", "store_error"}
        /\ At(c, "store_result") => first.by = c
        /\ first.by = Nobody => Untouched(c) \/ child[c].pc \in Tags
    /\ first.by = Nobody => first.result = "none"
    /\ first.by # Nobody =>
           /\ ~Untouched(first.by)
           /\ \/ first.result = "none" /\ At(first.by, "store_result")
              \/ first.result = Sent(child[first.by].tag) /\ ~At(first.by, "store_result")

Control == Counted /\ Started /\ Inside /\ Forwarding /\ LastOne /\ Destroyed /\ NoUseAfterDestroy
Results == IF any THEN AnyFirst ELSE AllTags /\ AllErrors

IInv == Control /\ Results /\ OutcomeFollowsChildren

-----------------------------------------------------------------------------
(* The initial state satisfies the invariant. *)
LEMMA InitInv == Init => IInv
<1> SUFFICES ASSUME Init PROVE IInv
  OBVIOUS
<1> USE WhenAllAssumption DEF Init
<1>1. Pending = 1 .. N
  BY DEF Pending, Children
<1>2. Counted
  <2>1. Cardinality(1 .. N) = N
    BY FS_Interval
  <2>2. QED BY <1>1, <2>1 DEF Counted
<1>3. TypeOK
  <2>1. child \in [Children -> ChildState]
    BY DEF ChildState, Nobody
  <2>2. /\ remaining \in 0 .. N /\ next \in 1 .. N + 1
        /\ notifier \in Children \cup {Stopper, Nobody} /\ destroyer \in Threads \cup {Nobody}
        /\ values \subseteq Children /\ error \in Children \cup {Nobody}
    BY DEF Nobody
  <2>3. first \in [by : Children \cup {Nobody}, result : {"none", "value", "error", "stopped"}]
    BY DEF Nobody
  <2>4. onStop \in [status : {"none", "armed", "running", "done", "gone"}, on : {Stopper, Nobody}]
    BY DEF Nobody
  <2>5. pc \in [starter : {"idle", "check", "reset", "stopped", "start_children", "end"},
               stopper : {"idle", "forward", "notify", "return", "end"}]
    OBVIOUS
  <2>6. QED BY <2>1, <2>2, <2>3, <2>4, <2>5 DEF TypeOK
<1>4. Started /\ Inside /\ Forwarding /\ LastOne /\ Destroyed
  BY DEF Started, Inside, Forwarding, LastOne, Destroyed, Untouched, Finishing, At, Children, Nobody, Stopper
<1>5. NoUseAfterDestroy
  BY <1>3 DEF NoUseAfterDestroy
<1>6. Results
  BY DEF Results, AnyFirst, AllTags, AllErrors, Untouched, At, Tags
<1>7. OutcomeFollowsChildren
  BY DEF OutcomeFollowsChildren, AllOutcome, AnyOutcome, At, Tags
<1>8. QED
  BY <1>2, <1>3, <1>4, <1>5, <1>6, <1>7 DEF IInv, Control

(* A child goes on: only its place changes. *)
LEMMA Moved ==
    ASSUME TypeOK, NEW c \in Children, NEW where, Goto(c, where), NEW d \in Children
    PROVE  /\ child'[d].pc = IF d = c THEN where ELSE child[d].pc
           /\ child'[d].tag = child[d].tag
           /\ child'[d].on = child[d].on
           /\ child'[d].within = child[d].within
BY DEF TypeOK, Goto

(* A child completes: only its own entry changes. *)
LEMMA Completed ==
    ASSUME TypeOK, NEW c \in Children, NEW thread, NEW call, CompleteOn(c, thread, call)
    PROVE  \E tag \in Tags :
              /\ any => tag # "error"
              /\ \A d \in Children :
                    /\ child'[d].pc = IF d = c THEN tag ELSE child[d].pc
                    /\ child'[d].tag = IF d = c THEN tag ELSE child[d].tag
                    /\ child'[d].on = IF d = c THEN thread ELSE child[d].on
                    /\ child'[d].within = IF d = c THEN call ELSE child[d].within
BY DEF TypeOK, CompleteOn, Completions, Tags

(* A child stores what it completed with and decides what to do next: the  *)
(* state that orders the completions, start() and the destruction is left  *)
(* alone.                                                                  *)
Storing(c) ==
    \/ LoadDisposition(c) \/ StoreValues(c) \/ SetError(c) \/ StoreError(c) \/ SetStopped(c)
    \/ Emplace(c) \/ StoreResult(c)

control == <<any, remaining, stop, notifier, onStop, asked, pc, next, outcome, destroyer>>

(* A child that stores its result changes nothing but that and its place. *)
LEMMA StoringMoves ==
    ASSUME NEW c \in Children, Storing(c)
    PROVE  /\ child[c].pc \in Tags \cup {"store", "store_error", "store_result"}
           /\ \E where \in {"error", "store", "store_error", "store_result", "request_stop", "arrive"} :
                 Goto(c, where)
           /\ UNCHANGED control
BY DEF Storing, LoadDisposition, StoreValues, SetError, StoreError, SetStopped, Emplace, StoreResult,
       At, Tags, control, result

(* A child that goes on, or completes, stays a child. *)
LEMMA ChildType ==
    ASSUME TypeOK, NEW c \in Children,
           NEW where \in {"running", "error", "store", "store_error", "store_result", "request_stop",
                          "notify", "arrive",
                          "reset", "complete", "returned"}, Goto(c, where)
    PROVE  child' \in [Children -> ChildState]
BY DEF TypeOK, Goto, ChildState, Tags

(* A child that completes gets a thread, a tag and a place. *)
LEMMA CompletedType ==
    ASSUME TypeOK, NEW c \in Children, NEW thread \in Threads, NEW call \in Threads \cup {Nobody},
           CompleteOn(c, thread, call)
    PROVE  child' \in [Children -> ChildState]
BY DEF TypeOK, CompleteOn, Completions, ChildState, Tags

(* Where a child completes: its own thread or the caller's. *)
LEMMA CompletingThread ==
    ASSUME TypeOK, Inside, NEW c \in Children, CompleteAsync(c) \/ CompleteStopped(c)
    PROVE  /\ At(c, "running")
           /\ \/ CompleteOn(c, c, Nobody)
              \/ /\ notifier # Nobody
                 /\ CompleteOn(c, IF notifier \in Children THEN child[notifier].on ELSE notifier, notifier)
           /\ UNCHANGED <<control, result>>
           /\ child' \in [Children -> ChildState]
<1>1. CASE CompleteAsync(c)
  <2>1. c \in Threads
    BY WhenAllAssumption DEF Children, Threads
  <2>2. QED BY <1>1, <2>1, CompletedType DEF CompleteAsync, control, result
<1>2. CASE CompleteStopped(c)
  <2> DEFINE on == IF notifier \in Children THEN child[notifier].on ELSE notifier
  <2>1. on \in Threads
    <3>1. CASE notifier \in Children
      <4>1. child[notifier].on # Nobody /\ child[notifier] \in ChildState
        BY <3>1 DEF Inside, Untouched, At, TypeOK
      <4>2. QED BY <3>1, <4>1 DEF ChildState
    <3>2. CASE notifier \notin Children
      BY <1>2, <3>2, WhenAllAssumption DEF CompleteStopped, TypeOK, Stopper, Threads
    <3>3. QED BY <3>1, <3>2
  <2>2. notifier \in Threads
    BY <1>2, WhenAllAssumption DEF CompleteStopped, TypeOK, Stopper, Threads, Children
  <2>3. CompleteOn(c, on, notifier) /\ notifier # Nobody
    BY <1>2 DEF CompleteStopped
  <2> HIDE DEF on
  <2>4. child' \in [Children -> ChildState]
    BY <2>1, <2>2, <2>3, CompletedType
  <2>5. QED BY <1>2, <2>3, <2>4 DEF CompleteStopped, control, result, on
<1>3. QED BY <1>1, <1>2

(* start() starts the next child, which may complete inside. *)
LEMMA Starting ==
    ASSUME TypeOK, StartChild
    PROVE  /\ next \in Children
           /\ \/ Goto(next, "running")
              \/ CompleteOn(next, Starter, Starter)
           /\ child' \in [Children -> ChildState]
<1>1. next \in Children /\ (Goto(next, "running") \/ CompleteOn(next, Starter, Starter))
  BY DEF StartChild
<1>2. Starter \in Threads
  BY WhenAllAssumption DEF Starter, Threads
<1>3. QED BY <1>1, <1>2, ChildType, CompletedType

-----------------------------------------------------------------------------
(* Counting the children that have not arrived. *)
LEMMA PendingCount ==
    ASSUME TypeOK, Counted, NEW c \in Pending
    PROVE  /\ remaining \in 1 .. N
           /\ Cardinality(Pending \ {c}) = remaining - 1
           /\ remaining = 1 => Pending = {c}
<1>1. IsFiniteSet(Children)
  BY WhenAllAssumption, FS_Interval DEF Children
<1>2. IsFiniteSet(Pending)
  BY <1>1, FS_Subset DEF Pending
<1>3. Cardinality(Pending \ {c}) = Cardinality(Pending) - 1 /\ IsFiniteSet(Pending \ {c})
  BY <1>2, FS_RemoveElement
<1>4. Cardinality(Pending \ {c}) \in Nat
  BY <1>3, FS_CardinalityType
<1>5. remaining \in 1 .. N
  BY <1>3, <1>4, WhenAllAssumption DEF Counted, TypeOK
<1>6. ASSUME remaining = 1 PROVE Pending = {c}
  <2>1. Pending \ {c} = {}
    BY <1>3, <1>6, FS_EmptySet DEF Counted
  <2>2. QED BY <2>1
<1>7. QED BY <1>3, <1>5, <1>6 DEF Counted

(* When no child is counted any more, none is pending. *)
LEMMA NonePending ==
    ASSUME TypeOK, Counted, remaining = 0
    PROVE  \A c \in Children : child[c].pc \in {"reset", "complete", "returned"}
<1>1. Pending = {}
  BY PendingCount
<1>2. QED BY <1>1 DEF Pending

-----------------------------------------------------------------------------
(* Every step keeps the types. *)
LEMMA TypeStep ==
    ASSUME TypeOK, Counted, Inside, [Next]_vars
    PROVE  TypeOK'
<1> USE DEF control, result
<1>1. ASSUME NEW c \in Children, Storing(c) PROVE TypeOK'
  <2>1. child' \in [Children -> ChildState] /\ UNCHANGED control
    BY <1>1, StoringMoves, ChildType
  <2>2. first' \in [by : Children \cup {Nobody}, result : {"none", "value", "error", "stopped"}]
    <3>1. CASE Emplace(c)
      BY <3>1 DEF Emplace, TypeOK
    <3>2. CASE StoreResult(c)
      BY <3>2 DEF StoreResult, At, Sent, TypeOK, ChildState, Tags
    <3>3. CASE UNCHANGED first
      BY <3>3 DEF TypeOK
    <3>4. QED
      BY <1>1, <3>1, <3>2, <3>3 DEF Storing, LoadDisposition, StoreValues, SetError, StoreError, SetStopped
  <2>3. /\ disposition' \in {"started", "error", "stopped"}
        /\ values' \subseteq Children /\ error' \in Children \cup {Nobody}
    BY <1>1 DEF Storing, LoadDisposition, StoreValues, SetError, StoreError, SetStopped, Emplace,
         StoreResult, TypeOK
  <2>4. QED BY <2>1, <2>2, <2>3 DEF TypeOK
<1>2. ASSUME NEW c \in Children, CompleteAsync(c) \/ CompleteStopped(c) PROVE TypeOK'
  BY <1>2, CompletingThread DEF TypeOK
<1>3. ASSUME NEW c \in Children, ChildRequests(c) PROVE TypeOK'
  <2>1. child' \in [Children -> ChildState]
    BY <1>3, ChildType DEF ChildRequests
  <2>2. stop' \in BOOLEAN /\ notifier' \in Children \cup {Stopper, Nobody}
    BY <1>3 DEF ChildRequests, FirstRequest, TypeOK
  <2>3. QED BY <1>3, <2>1, <2>2 DEF ChildRequests, TypeOK
<1>4. ASSUME NEW c \in Children, ChildNotified(c) PROVE TypeOK'
  <2>1. child' \in [Children -> ChildState]
    BY <1>4, ChildType DEF ChildNotified
  <2>2. QED BY <1>4, <2>1 DEF ChildNotified, TypeOK
<1>5. ASSUME NEW c \in Children, Arrive(c) PROVE TypeOK'
  <2>1. child' \in [Children -> ChildState]
    BY <1>5, ChildType DEF Arrive
  <2>2. remaining' \in 0 .. N
    <3>1. c \in Pending
      BY <1>5 DEF Arrive, At, Pending
    <3>2. remaining \in 1 .. N
      BY <3>1, PendingCount
    <3>3. QED BY <1>5, <3>2, WhenAllAssumption DEF Arrive
  <2>3. QED BY <1>5, <2>1, <2>2 DEF Arrive, TypeOK
<1>6. ASSUME NEW c \in Children, ResetByLast(c) PROVE TypeOK'
  <2>1. child' \in [Children -> ChildState]
    BY <1>6, ChildType DEF ResetByLast
  <2>2. QED BY <1>6, <2>1 DEF ResetByLast, Reset, TypeOK
<1>7. ASSUME NEW c \in Children, CompleteReceiver(c) PROVE TypeOK'
  <2>1. child' \in [Children -> ChildState]
    BY <1>7, ChildType DEF CompleteReceiver
  <2>2. outcome' \in {"none", "value", "error", "stopped"}
    BY <1>7 DEF CompleteReceiver, OutcomeOf, TypeOK
  <2>3. destroyer' \in Threads \cup {Nobody}
    BY <1>7 DEF CompleteReceiver, TypeOK, ChildState
  <2>4. QED BY <1>7, <2>1, <2>2, <2>3 DEF CompleteReceiver, TypeOK
<1>8. CASE StartChild
  <2>1. next' \in 1 .. N + 1
    BY <1>8, WhenAllAssumption DEF StartChild, Children
  <2>2. QED BY <1>8, <2>1, Starting DEF StartChild, TypeOK
<1>9. CASE Start \/ CheckStop \/ ResetByStart \/ StartReturns
  <2>1. stop' \in BOOLEAN
    BY <1>9 DEF Start, CheckStop, ResetByStart, StartReturns, TypeOK
  <2>2. onStop' \in [status : {"none", "armed", "running", "done", "gone"}, on : {Stopper, Nobody}]
    BY <1>9 DEF Start, CheckStop, ResetByStart, StartReturns, Reset, TypeOK
  <2>3. pc' \in [starter : {"idle", "check", "reset", "stopped", "start_children", "end"},
                stopper : {"idle", "forward", "notify", "return", "end"}]
    BY <1>9 DEF Start, CheckStop, ResetByStart, StartReturns, StarterGoto, TypeOK
  <2>4. UNCHANGED <<result, remaining, notifier, asked, child, next, outcome, destroyer>>
    BY <1>9 DEF Start, CheckStop, ResetByStart, StartReturns
  <2>5. QED BY <2>1, <2>2, <2>3, <2>4 DEF TypeOK
<1>10. CASE StoppedByStart
  <2>1. Starter \in Threads
    BY WhenAllAssumption DEF Starter, Threads
  <2>2. QED BY <1>10, <2>1 DEF StoppedByStart, StarterGoto, TypeOK
<1>11. CASE Ask \/ Forward \/ Forwarded \/ ForwardReturns
  <2>1. /\ stop' \in BOOLEAN /\ asked' \in BOOLEAN
        /\ notifier' \in Children \cup {Stopper, Nobody}
    BY <1>11 DEF Ask, Forward, Forwarded, ForwardReturns, FirstRequest, TypeOK
  <2>2. onStop' \in [status : {"none", "armed", "running", "done", "gone"}, on : {Stopper, Nobody}]
    BY <1>11 DEF Ask, Forward, Forwarded, ForwardReturns, TypeOK
  <2>3. pc' \in [starter : {"idle", "check", "reset", "stopped", "start_children", "end"},
                stopper : {"idle", "forward", "notify", "return", "end"}]
    BY <1>11 DEF Ask, Forward, Forwarded, ForwardReturns, StopperGoto, TypeOK
  <2>4. UNCHANGED <<any, first, disposition, values, error, remaining, child, next, outcome, destroyer>>
    BY <1>11 DEF Ask, Forward, Forwarded, ForwardReturns
  <2>5. QED BY <2>1, <2>2, <2>3, <2>4 DEF TypeOK
<1>12. CASE UNCHANGED vars
  BY <1>12 DEF vars, TypeOK
<1>13. QED
  BY <1>1, <1>2, <1>3, <1>4, <1>5, <1>6, <1>7, <1>8, <1>9, <1>10, <1>11, <1>12
  DEF Next, ChildStep, Storing, StarterStep, StopperStep, Idle

(* The children that have not arrived are counted. *)
LEMMA CountedStep ==
    ASSUME TypeOK, Counted, Started, Inside, [Next]_vars
    PROVE  Counted'
<1>1. ASSUME NEW c \in Children, NEW where, Goto(c, where), where \notin {"reset", "complete", "returned"},
             ~(child[c].pc \in {"reset", "complete", "returned"})
      PROVE  Pending' = Pending
  BY <1>1, Moved DEF Pending
<1>2. ASSUME NEW c \in Children, Arrive(c) PROVE Counted'
  <2>1. c \in Pending
    BY <1>2 DEF Arrive, At, Pending
  <2>2. Pending' = Pending \ {c}
    BY <1>2, Moved DEF Arrive, Pending
  <2>3. QED BY <1>2, <2>1, <2>2, PendingCount DEF Arrive, Counted
<1>3. ASSUME NEW c \in Children, Storing(c) PROVE Pending' = Pending /\ remaining' = remaining
  BY <1>1, <1>3, StoringMoves DEF control, Tags
<1>4. ASSUME NEW c \in Children, CompleteAsync(c) \/ CompleteStopped(c)
      PROVE  Pending' = Pending /\ remaining' = remaining
  <2>1. /\ At(c, "running") /\ remaining' = remaining
        /\ \E thread, call : CompleteOn(c, thread, call)
    BY <1>4, CompletingThread DEF control
  <2>2. QED BY <2>1, Completed DEF Pending, At, Tags
<1>5. ASSUME NEW c \in Children, ChildRequests(c) \/ ChildNotified(c)
      PROVE  Pending' = Pending /\ remaining' = remaining
  BY <1>1, <1>5 DEF ChildRequests, ChildNotified, At
<1>6. ASSUME NEW c \in Children, ResetByLast(c) \/ CompleteReceiver(c)
      PROVE  Pending' = Pending /\ remaining' = remaining
  BY <1>6, Moved DEF ResetByLast, CompleteReceiver, Pending, At
<1>7. ASSUME StartChild PROVE Pending' = Pending /\ remaining' = remaining
  <2>1. next \in Children /\ At(next, "unstarted")
    BY <1>7, Starting DEF Started, Children
  <2>2. CASE Goto(next, "running")
    BY <1>1, <1>7, <2>1, <2>2 DEF StartChild, At
  <2>3. CASE CompleteOn(next, Starter, Starter)
    BY <1>7, <2>1, <2>3, Completed DEF StartChild, Pending, At, Tags
  <2>4. QED BY <1>7, <2>2, <2>3, Starting
<1>8. CASE \/ Start \/ CheckStop \/ ResetByStart \/ StoppedByStart \/ StartReturns
           \/ Ask \/ StopperStep \/ UNCHANGED vars
  BY <1>8 DEF Start, CheckStop, ResetByStart, StoppedByStart, StartReturns, Ask, StopperStep, Forward,
       Forwarded,
              ForwardReturns, vars, Counted, Pending
<1>9. QED
  BY <1>2, <1>3, <1>4, <1>5, <1>6, <1>7, <1>8 DEF Next, ChildStep, Storing, StarterStep, Idle, Counted

-----------------------------------------------------------------------------
(* start() registers, checks, and starts one child after the other. *)
LEMMA StartedStep ==
    ASSUME TypeOK, Started, Inside, Forwarding, [Next]_vars
    PROVE  Started'
<1> USE WhenAllAssumption
<1>1. ASSUME NEW c \in Children, ~At(c, "unstarted")
      PROVE  next # 1 /\ pc.starter \in {"start_children", "end"}
  BY <1>1 DEF Started, Children, TypeOK
<1>2. ASSUME NEW c \in Children, NEW where, Goto(c, where), ~At(c, "unstarted"), where # "unstarted",
             pc' = pc, next' = next, onStop' = onStop \/ pc.starter # "stopped"
      PROVE  Started'
  <2>1. \A d \in Children : At(d, "unstarted")' <=> At(d, "unstarted")
    BY <1>2, Moved DEF At
  <2>2. QED BY <1>1, <1>2, <2>1 DEF Started
<1>3. ASSUME NEW c \in Children, Storing(c) PROVE Started'
  BY <1>2, <1>3, StoringMoves DEF control, At, Tags
<1>4. ASSUME NEW c \in Children, CompleteAsync(c) \/ CompleteStopped(c) PROVE Started'
  <2>1. /\ At(c, "running") /\ UNCHANGED control
        /\ \E thread, call : CompleteOn(c, thread, call)
    BY <1>4, CompletingThread
  <2>2. \A d \in Children : At(d, "unstarted")' <=> At(d, "unstarted")
    BY <2>1, Completed DEF At, Tags
  <2>3. QED BY <2>1, <2>2 DEF Started, control
<1>5. ASSUME NEW c \in Children, \/ ChildRequests(c) \/ ChildNotified(c) \/ Arrive(c)
                                 \/ ResetByLast(c) \/ CompleteReceiver(c)
      PROVE  Started'
  <2>1. ~At(c, "unstarted") /\ pc.starter \in {"start_children", "end"}
    BY <1>1, <1>5 DEF ChildRequests, ChildNotified, Arrive, ResetByLast, CompleteReceiver, At
  <2>2. pc' = pc /\ next' = next
    BY <1>5 DEF ChildRequests, ChildNotified, Arrive, ResetByLast, CompleteReceiver
  <2>3. \E where \in {"notify", "arrive", "reset", "complete", "returned"} : Goto(c, where)
    BY <1>5 DEF ChildRequests, ChildNotified, Arrive, ResetByLast, CompleteReceiver
  <2>4. QED BY <1>2, <2>1, <2>2, <2>3
<1>6. CASE Start \/ CheckStop \/ ResetByStart \/ StoppedByStart \/ StartReturns
  <2>1. UNCHANGED <<child, next, asked>> /\ pc'.starter \in {"check", "reset", "stopped", "start_children",
  "end"}
    BY <1>6 DEF Start, CheckStop, ResetByStart, StoppedByStart, StartReturns, StarterGoto, TypeOK
  <2>2. pc'.starter # "end" => next' = 1
    BY <1>6 DEF Start, CheckStop, ResetByStart, StoppedByStart, StartReturns, StarterGoto, TypeOK, Started
  <2>3. pc'.starter = "end" => next' = N + 1 \/ (next' = 1 /\ destroyer' # Nobody)
    BY <1>6 DEF Start, CheckStop, ResetByStart, StoppedByStart, StartReturns, StarterGoto, TypeOK, Started,
                Starter, Nobody, Children
  <2>4. pc'.starter = "check" /\ stop' => asked'
    BY <1>6 DEF Start, CheckStop, ResetByStart, StoppedByStart, StartReturns, StarterGoto, TypeOK, Started
  <2>5. pc'.starter \in {"reset", "stopped"} => asked'
    BY <1>6 DEF Start, CheckStop, ResetByStart, StoppedByStart, StartReturns, StarterGoto, TypeOK, Started
  <2>6. pc'.starter = "stopped" => onStop' = [status |-> "gone", on |-> Nobody]
    BY <1>6 DEF Start, CheckStop, ResetByStart, StoppedByStart, StartReturns, StarterGoto, TypeOK, Reset,
                MayReset, Starter, Stopper
  <2>7. QED BY <2>1, <2>2, <2>3, <2>4, <2>5, <2>6 DEF Started, At
<1>7. CASE StartChild
  <2>1. next \in Children /\ next' = next + 1 /\ UNCHANGED <<pc, stop, asked, onStop>>
    BY <1>7 DEF StartChild
  <2>2. \A d \in Children : At(d, "unstarted")' <=> At(d, "unstarted") /\ d # next
    BY <1>7, Starting, Moved, Completed DEF At, Tags
  <2>3. \A d \in Children : At(d, "unstarted")' <=> d >= next'
    BY <2>1, <2>2 DEF Started, Children
  <2>4. pc.starter = "start_children"
    BY <1>7 DEF StartChild
  <2>5. QED BY <2>1, <2>3, <2>4 DEF Started
<1>8. CASE Ask \/ StopperStep
  <2>1. UNCHANGED <<child, next, destroyer>> /\ pc'.starter = pc.starter /\ (asked => asked')
    BY <1>8 DEF Ask, StopperStep, Forward, Forwarded, ForwardReturns, StopperGoto, TypeOK
  <2>2. stop' => stop \/ asked'
    BY <1>8 DEF Ask, StopperStep, Forward, Forwarded, ForwardReturns, FirstRequest, Forwarding
  <2>3. onStop = [status |-> "gone", on |-> Nobody] => onStop' = onStop
    BY <1>8 DEF Ask, StopperStep, Forward, Forwarded, ForwardReturns
  <2>4. QED BY <2>1, <2>2, <2>3 DEF Started, At
<1>9. CASE UNCHANGED vars
  BY <1>9 DEF vars, Started, At
<1>10. QED
  BY <1>3, <1>4, <1>5, <1>6, <1>7, <1>8, <1>9 DEF Next, ChildStep, Storing, StarterStep, Idle

(* The calls of request_stop and what completes inside them. *)
LEMMA InsideStep ==
    ASSUME TypeOK, Started, Inside, Forwarding, [Next]_vars
    PROVE  Inside'
<1> USE WhenAllAssumption
<1>1. ASSUME NEW c \in Children, NEW where, Goto(c, where), ~Untouched(c), ~At(c, "notify"), ~At(c,
"returned"),
             where \notin {"unstarted", "running", "notify"}, UNCHANGED <<stop, notifier, pc>>
      PROVE  Inside'
  BY <1>1, Moved DEF Inside, Untouched, At
<1>2. ASSUME NEW c \in Children, Storing(c) PROVE Inside'
  BY <1>1, <1>2, StoringMoves DEF control, At, Tags, Untouched
<1>3. ASSUME NEW c \in Children, CompleteAsync(c) \/ CompleteStopped(c) PROVE Inside'
  <2>1. PICK thread, call :
           /\ CompleteOn(c, thread, call) /\ thread # Nobody
           /\ thread = Stopper => notifier = Stopper /\ call = Stopper
    <3>1. CASE CompleteOn(c, c, Nobody)
      BY <3>1 DEF Children, Nobody, Stopper
    <3>2. CASE /\ notifier # Nobody
               /\ CompleteOn(c, IF notifier \in Children THEN child[notifier].on ELSE notifier, notifier)
      <4>1. notifier \in Children => child[notifier].on # Nobody /\ child[notifier].on # Stopper
        BY DEF Inside, Untouched, At
      <4>2. QED BY <3>2, <4>1
    <3>3. QED BY <1>3, <3>1, <3>2, CompletingThread
  <2>2. At(c, "running") /\ UNCHANGED control
    BY <1>3, CompletingThread
  <2>3. notifier = Stopper => stop /\ notifier \notin Children /\ pc.stopper = "notify"
    BY DEF Forwarding, Stopper, Nobody, Children
  <2>4. PICK tag \in Tags : \A d \in Children :
           /\ child'[d].pc = IF d = c THEN tag ELSE child[d].pc
           /\ child'[d].tag = IF d = c THEN tag ELSE child[d].tag
           /\ child'[d].on = IF d = c THEN thread ELSE child[d].on
           /\ child'[d].within = IF d = c THEN call ELSE child[d].within
    BY <2>1, Completed
  <2>5. QED BY <2>1, <2>2, <2>3, <2>4 DEF Inside, Untouched, At, Tags, control
<1>4. ASSUME NEW c \in Children, ChildRequests(c) PROVE Inside'
  <2>1. CASE FirstRequest(c) /\ Goto(c, "notify")
    <3>1. \A d \in Children : child[d].on # Stopper /\ notifier # d
      BY <2>1 DEF FirstRequest, Inside, Forwarding, Children, Nobody
    <3>2. QED BY <1>4, <2>1, <3>1, Moved DEF ChildRequests, FirstRequest, Inside, Untouched, At
  <2>2. CASE Goto(c, "arrive") /\ UNCHANGED <<stop, notifier>>
    BY <1>1, <1>4, <2>2 DEF ChildRequests, Untouched, At
  <2>3. QED BY <1>4, <2>1, <2>2 DEF ChildRequests
<1>5. ASSUME NEW c \in Children, ChildNotified(c) PROVE Inside'
  BY <1>5, Moved DEF ChildNotified, Inside, Untouched, At, Nobody, Children
<1>6. ASSUME NEW c \in Children, Arrive(c) \/ ResetByLast(c) \/ CompleteReceiver(c) PROVE Inside'
  <2>1. \E where \in {"reset", "complete", "returned"} : Goto(c, where)
    BY <1>6 DEF Arrive, ResetByLast, CompleteReceiver
  <2>2. QED BY <1>1, <1>6, <2>1 DEF Arrive, ResetByLast, CompleteReceiver, Untouched, At
<1>7. CASE StartChild
  <2>1. next \in Children /\ At(next, "unstarted") /\ UNCHANGED <<stop, notifier, pc>>
    BY <1>7 DEF StartChild, Started, Children
  <2>2. CASE Goto(next, "running")
    BY <2>1, <2>2, Moved DEF Inside, Untouched, At
  <2>3. CASE CompleteOn(next, Starter, Starter)
    <3>1. Starter # Nobody /\ Starter # Stopper
      BY DEF Starter, Nobody, Stopper
    <3>2. PICK tag \in Tags : \A d \in Children :
             /\ child'[d].pc = IF d = next THEN tag ELSE child[d].pc
             /\ child'[d].tag = IF d = next THEN tag ELSE child[d].tag
             /\ child'[d].on = IF d = next THEN Starter ELSE child[d].on
             /\ child'[d].within = IF d = next THEN Starter ELSE child[d].within
      BY <2>1, <2>3, Completed
    <3>3. QED BY <2>1, <3>1, <3>2 DEF Inside, Untouched, At, Tags
  <2>4. QED BY <1>7, <2>2, <2>3, Starting
<1>8. CASE Start \/ CheckStop \/ ResetByStart \/ StoppedByStart \/ StartReturns \/ Ask
  <2>1. UNCHANGED <<child, notifier>> /\ (stop => stop')
    BY <1>8 DEF Start, CheckStop, ResetByStart, StoppedByStart, StartReturns, Ask
  <2>2. pc.stopper = "notify" => pc'.stopper = "notify"
    BY <1>8 DEF Start, CheckStop, ResetByStart, StoppedByStart, StartReturns, Ask, StarterGoto, TypeOK
  <2>3. QED BY <2>1, <2>2 DEF Inside, Untouched, At
<1>9. CASE Forward
  <2>1. pc.stopper = "forward" /\ child' = child
    BY <1>9 DEF Forward
  <2>2. CASE FirstRequest(Stopper) /\ StopperGoto("notify")
    <3>1. \A d \in Children : child[d].on # Stopper /\ notifier # d
      BY <2>2 DEF FirstRequest, Inside, Forwarding, Children, Nobody
    <3>2. notifier' = Stopper /\ Stopper \notin Children
      BY <2>2 DEF FirstRequest, Stopper, Children
    <3>3. QED BY <2>1, <3>1, <3>2 DEF Inside, Untouched, At
  <2>3. CASE stop /\ UNCHANGED <<stop, notifier>>
    BY <2>1, <2>3 DEF Inside, Untouched, At
  <2>4. QED BY <1>9, <2>2, <2>3 DEF Forward
<1>10. CASE Forwarded
  <2>1. notifier = Stopper /\ Stopper \notin Children /\ ~Busy(Stopper)
    BY <1>10 DEF Forwarded, Forwarding, Stopper, Children
  <2>2. QED BY <1>10, <2>1 DEF Forwarded, Inside, Untouched, At, Busy, Children, Nobody
<1>11. CASE ForwardReturns
  <2>1. pc.stopper = "return" /\ UNCHANGED <<child, stop, notifier>>
    BY <1>11 DEF ForwardReturns
  <2>2. QED BY <2>1 DEF Inside, Untouched, At
<1>12. CASE UNCHANGED vars
  BY <1>12 DEF vars, Inside, Untouched, At
<1>13. QED
  BY <1>2, <1>3, <1>4, <1>5, <1>6, <1>7, <1>8, <1>9, <1>10, <1>11, <1>12
  DEF Next, ChildStep, Storing, StarterStep, StopperStep, Idle

(* The stopper's way through the receiver's stop callback. *)
LEMMA ForwardingStep ==
    ASSUME TypeOK, Inside, Forwarding, [Next]_vars
    PROVE  Forwarding'
<1> USE WhenAllAssumption
<1>1. ASSUME NEW c \in Children, Storing(c) \/ CompleteAsync(c) \/ CompleteStopped(c) PROVE Forwarding'
  <2>1. UNCHANGED control
    BY <1>1, StoringMoves, CompletingThread
  <2>2. QED BY <2>1 DEF control, Forwarding
<1>2. ASSUME NEW c \in Children, ChildRequests(c) PROVE Forwarding'
  <2>1. c # Stopper /\ c # Nobody /\ Stopper # Nobody
    BY DEF Children, Stopper, Nobody
  <2>2. UNCHANGED <<onStop, asked, pc>>
    BY <1>2 DEF ChildRequests
  <2>3. \/ ~stop /\ stop' /\ notifier' = c
        \/ UNCHANGED <<stop, notifier>>
    BY <1>2 DEF ChildRequests, FirstRequest
  <2>4. QED BY <2>1, <2>2, <2>3 DEF Forwarding
<1>3. ASSUME NEW c \in Children, ChildNotified(c) PROVE Forwarding'
  <2>1. notifier = c /\ c # Stopper /\ Stopper # Nobody
    BY <1>3 DEF ChildNotified, Inside, Children, Stopper, Nobody
  <2>2. QED BY <1>3, <2>1 DEF ChildNotified, Forwarding
<1>4. ASSUME NEW c \in Children, Arrive(c) \/ ResetByLast(c) \/ CompleteReceiver(c) PROVE Forwarding'
  <2>1. UNCHANGED <<stop, notifier, asked, pc>> /\ onStop'.on = onStop.on
    BY <1>4 DEF Arrive, ResetByLast, CompleteReceiver, Reset, TypeOK
  <2>2. QED BY <2>1 DEF Forwarding
<1>5. CASE Start \/ CheckStop \/ ResetByStart \/ StoppedByStart \/ StartChild \/ StartReturns
  <2>1. /\ UNCHANGED <<notifier, asked>> /\ (stop => stop') /\ onStop'.on = onStop.on
        /\ pc'.stopper = pc.stopper
    BY <1>5 DEF Start, CheckStop, ResetByStart, StoppedByStart, StartChild, StartReturns, StarterGoto,
         Reset, TypeOK
  <2>2. QED BY <2>1 DEF Forwarding
<1>6. CASE Ask
  <2>1. /\ asked' /\ UNCHANGED <<stop, notifier>>
        /\ pc.stopper = "idle" /\ pc'.stopper \in {"forward", "end"}
        /\ IF pc'.stopper = "forward" THEN onStop'.on = Stopper ELSE onStop' = onStop
    BY <1>6 DEF Ask, StopperGoto, TypeOK
  <2>2. QED BY <2>1 DEF Forwarding
<1>7. CASE Forward
  <2>1. /\ UNCHANGED <<onStop, asked>> /\ pc.stopper = "forward" /\ stop'
        /\ \/ notifier' = Stopper /\ pc'.stopper = "notify"
           \/ notifier' = notifier /\ pc'.stopper = "return"
    BY <1>7 DEF Forward, FirstRequest, StopperGoto, TypeOK
  <2>2. QED BY <2>1 DEF Forwarding
<1>8. CASE Forwarded
  <2>1. /\ UNCHANGED <<onStop, asked, stop>> /\ notifier' = Nobody /\ Nobody # Stopper
        /\ pc.stopper = "notify" /\ pc'.stopper = "return"
    BY <1>8 DEF Forwarded, StopperGoto, TypeOK, Nobody, Stopper
  <2>2. QED BY <2>1 DEF Forwarding
<1>9. CASE ForwardReturns
  <2>1. /\ UNCHANGED <<notifier, asked, stop>> /\ onStop'.on = Nobody /\ Nobody # Stopper
        /\ pc.stopper = "return" /\ pc'.stopper = "end"
    BY <1>9 DEF ForwardReturns, StopperGoto, TypeOK, Nobody, Stopper
  <2>2. QED BY <2>1 DEF Forwarding
<1>10. CASE UNCHANGED vars
  BY <1>10 DEF vars, Forwarding
<1>11. QED
  BY <1>1, <1>2, <1>3, <1>4, <1>5, <1>6, <1>7, <1>8, <1>9, <1>10
  DEF Next, ChildStep, Storing, StarterStep, StopperStep, Idle

(* While one child is about to complete the receiver, all others are done. *)
LEMMA WhenLast ==
    ASSUME TypeOK, Counted, LastOne, NEW c \in Children, Finishing(c)
    PROVE  /\ remaining = 0
           /\ \A d \in Children \ {c} : At(d, "returned")
           /\ \A d \in Children : child[d].pc \in {"reset", "complete", "returned"}
BY NonePending DEF LastOne, Finishing, At

(* One child, at most, is the last. *)
LEMMA LastOneStep ==
    ASSUME TypeOK, Counted, Started, LastOne, Inside, [Next]_vars
    PROVE  LastOne'
<1> USE WhenAllAssumption
<1>1. ASSUME remaining' = remaining, onStop' = onStop,
             \A d \in Children : /\ Finishing(d)' => Finishing(d)
                                 /\ At(d, "complete")' => At(d, "complete") /\ child'[d].on = child[d].on
      PROVE  LastOne'
  BY <1>1 DEF LastOne
<1>2. ASSUME NEW c \in Children, Storing(c) PROVE LastOne'
  BY <1>1, <1>2, StoringMoves, Moved DEF control, Finishing, At
<1>3. ASSUME NEW c \in Children, CompleteAsync(c) \/ CompleteStopped(c) PROVE LastOne'
  <2>1. UNCHANGED control /\ \E thread, call : CompleteOn(c, thread, call)
    BY <1>3, CompletingThread
  <2>2. QED BY <1>1, <2>1, Completed DEF control, Finishing, At, Tags
<1>4. ASSUME NEW c \in Children, ChildRequests(c) \/ ChildNotified(c) PROVE LastOne'
  BY <1>1, <1>4, Moved DEF ChildRequests, ChildNotified, Finishing, At
<1>5. ASSUME NEW c \in Children, Arrive(c) PROVE LastOne'
  <2>1. c \in Pending
    BY <1>5 DEF Arrive, At, Pending
  <2>2. \A d \in Children : ~Finishing(d)
    BY <2>1, WhenLast DEF Pending
  <2>3. remaining = 1 => remaining' = 0
    BY <1>5 DEF Arrive
  <2>4. QED BY <1>5, <2>2, <2>3, Moved DEF Arrive, Last, LastOne, Finishing, At
<1>6. ASSUME NEW c \in Children, ResetByLast(c) PROVE LastOne'
  <2>1. Finishing(c) /\ remaining' = remaining
    BY <1>6 DEF ResetByLast, Finishing, At
  <2>2. onStop'.status = "gone" /\ onStop'.on \in {Nobody, child[c].on}
    BY <1>6 DEF ResetByLast, Reset, MayReset, TypeOK
  <2>3. QED BY <1>6, <2>1, <2>2, Moved DEF ResetByLast, LastOne, Finishing, At
<1>7. ASSUME NEW c \in Children, CompleteReceiver(c) PROVE LastOne'
  BY <1>1, <1>7, Moved DEF CompleteReceiver, Finishing, At
<1>8. CASE Start \/ ResetByStart
  <2>1. \A d \in Children : At(d, "unstarted")
    BY <1>8 DEF Start, ResetByStart, Started, Children
  <2>2. QED BY <1>8, <2>1 DEF Start, ResetByStart, LastOne, Finishing, At
<1>9. CASE CheckStop \/ StoppedByStart \/ StartReturns \/ Forward \/ Forwarded
  BY <1>1, <1>9 DEF CheckStop, StoppedByStart, StartReturns, Forward, Forwarded, Finishing, At
<1>10. CASE StartChild
  <2>1. UNCHANGED <<remaining, onStop>>
    BY <1>10 DEF StartChild
  <2>2. QED BY <1>1, <1>10, <2>1, Starting, Moved, Completed DEF Finishing, At, Tags
<1>11. CASE Ask \/ ForwardReturns
  <2>1. UNCHANGED <<child, remaining>>
    BY <1>11 DEF Ask, ForwardReturns
  <2>2. onStop.status = "gone" => onStop'.status = "gone" /\ onStop'.on \in {Nobody, onStop.on}
    BY <1>11 DEF Ask, ForwardReturns
  <2>3. QED BY <2>1, <2>2 DEF LastOne, Finishing, At
<1>12. CASE UNCHANGED vars
  BY <1>1, <1>12 DEF vars, Finishing, At
<1>13. QED
  BY <1>2, <1>3, <1>4, <1>5, <1>6, <1>7, <1>8, <1>9, <1>10, <1>11, <1>12
  DEF Next, ChildStep, Storing, StarterStep, StopperStep, Idle

-----------------------------------------------------------------------------
(* Once the operation is destroyed nothing happens to it but that the      *)
(* calls it was destroyed inside return.                                   *)
LEMMA AfterDestruction ==
    ASSUME TypeOK, NoUseAfterDestroy, Destroyed, destroyer # Nobody, [Next]_vars
    PROVE  /\ UNCHANGED <<any, first, disposition, values, error, child, next, outcome, destroyer>>
           /\ asked => asked'
           /\ onStop'.status = "gone"
           /\ pc'.starter \in {pc.starter, "end"}
           /\ pc'.stopper # "forward"
           /\ pc'.stopper \in {"notify", "return"} => pc.stopper \in {"notify", "return"}
<1> USE DEF NoUseAfterDestroy, Destroyed
<1>1. ASSUME NEW c \in Children PROVE ~ChildStep(c) /\ ~CompleteAsync(c) /\ ~CompleteStopped(c)
  BY <1>1 DEF ChildStep, LoadDisposition, StoreValues, SetError, StoreError, SetStopped, Emplace, StoreResult,
     ChildRequests, ChildNotified, Arrive, ResetByLast, CompleteReceiver, CompleteAsync, CompleteStopped,
     At, Tags
<1>2. ~Start /\ ~CheckStop /\ ~ResetByStart /\ ~StoppedByStart /\ ~StartChild /\ ~Forward
  BY DEF Start, CheckStop, ResetByStart, StoppedByStart, StartChild, Forward
<1>3. CASE StartReturns
  BY <1>3 DEF StartReturns, StarterGoto, result, TypeOK
<1>4. CASE Ask \/ Forwarded \/ ForwardReturns
  BY <1>4 DEF Ask, Forwarded, ForwardReturns, StopperGoto, result, TypeOK
<1>5. CASE UNCHANGED vars
  BY <1>5 DEF vars
<1>6. QED BY <1>1, <1>2, <1>3, <1>4, <1>5 DEF Next, StarterStep, StopperStep, Idle

(* The operation is destroyed when nothing is left to touch it. *)
LEMMA DestroyedStep ==
    ASSUME Control, TypeOK', [Next]_vars
    PROVE  Destroyed' /\ NoUseAfterDestroy'
<1> USE DEF Control
<1>1. TypeOK
  BY DEF NoUseAfterDestroy
<1>2. CASE destroyer # Nobody
  BY <1>1, <1>2, AfterDestruction DEF Destroyed, NoUseAfterDestroy
<1>3. ASSUME destroyer = Nobody, NEW c \in Children, CompleteReceiver(c)
     PROVE Destroyed' /\ NoUseAfterDestroy'
  <2>1. Finishing(c) /\ At(c, "complete") /\ ~Untouched(c)
    BY <1>3 DEF CompleteReceiver, Finishing, At, Untouched
  <2>2. \A d \in Children : child'[d].pc = "returned"
    BY <1>1, <1>3, <2>1, WhenLast, Moved DEF CompleteReceiver, At
  <2>3. destroyer' = child[c].on /\ child[c].on # Nobody /\ UNCHANGED <<onStop, pc, next>>
    BY <1>3, <2>1 DEF CompleteReceiver, Inside
  <2>4. next \notin Children /\ pc.starter \in {"start_children", "end"}
    <3>1. \A d \in Children : ~At(d, "unstarted")
      BY <1>1, <2>1, WhenLast DEF At
    <3>2. 1 \in Children
      BY WhenAllAssumption DEF Children
    <3>3. next # 1 /\ next \notin Children
      BY <3>1, <3>2 DEF Started, Children
    <3>4. QED BY <1>1, <3>3 DEF Started, TypeOK
  <2>5. onStop.status = "gone" /\ onStop.on \in {Nobody, child[c].on}
    BY <2>1 DEF LastOne
  <2>6. pc.stopper \in {"forward", "notify", "return"} => child[c].on = Stopper
    BY <2>5, WhenAllAssumption DEF Forwarding, Nobody, Stopper
  <2>7. pc.stopper # "forward"
    BY <2>1, <2>6 DEF Inside, At
  <2>8. Destroyed'
    BY <2>3, <2>5 DEF Destroyed
  <2>9. QED BY <2>2, <2>3, <2>4, <2>6, <2>7, <2>8 DEF NoUseAfterDestroy
<1>4. CASE StoppedByStart
  <2>1. /\ onStop = [status |-> "gone", on |-> Nobody] /\ next = 1 /\ onStop' = onStop
        /\ destroyer' = Starter /\ child' = child
    BY <1>4 DEF StoppedByStart, Started
  <2>2. pc'.starter = "end" /\ pc'.stopper = pc.stopper
    BY <1>1, <1>4 DEF StoppedByStart, StarterGoto, TypeOK
  <2>3. pc.stopper \notin {"forward", "notify", "return"}
    BY <2>1, WhenAllAssumption DEF Forwarding, Nobody, Stopper
  <2>4. \A d \in Children : At(d, "unstarted")
    BY <2>1 DEF Started, Children
  <2>5. Starter # Nobody
    BY WhenAllAssumption DEF Starter, Nobody
  <2>6. QED BY <2>1, <2>2, <2>3, <2>4, <2>5 DEF Destroyed, NoUseAfterDestroy, At
<1>5. CASE UNCHANGED <<outcome, destroyer>> /\ destroyer = Nobody
  BY <1>5 DEF Destroyed, NoUseAfterDestroy
<1>6. ASSUME ~StoppedByStart, \A c \in Children : ~CompleteReceiver(c) PROVE UNCHANGED <<outcome, destroyer>>
  BY <1>6 DEF Next, ChildStep, LoadDisposition, StoreValues, SetError, StoreError, SetStopped, Emplace,
       StoreResult,
     ChildRequests, ChildNotified, Arrive, ResetByLast, CompleteAsync, CompleteStopped, Start, StarterStep,
     CheckStop, ResetByStart, StartChild, StartReturns, Ask, StopperStep, Forward, Forwarded,
     ForwardReturns, Idle, vars
<1>7. QED BY <1>2, <1>3, <1>4, <1>5, <1>6

-----------------------------------------------------------------------------
(* A child that has decided goes on to arrive and to finish. *)
Past == {"request_stop", "notify", "arrive", "reset", "complete", "returned"}

(* From there it does not come back. *)
LEMMA PastMoves ==
    ASSUME NEW c \in Children,
           ChildRequests(c) \/ ChildNotified(c) \/ Arrive(c) \/ ResetByLast(c) \/ CompleteReceiver(c)
    PROVE  /\ child[c].pc \in Past
           /\ \E where \in Past : Goto(c, where)
           /\ UNCHANGED result
BY DEF ChildRequests, ChildNotified, Arrive, ResetByLast, CompleteReceiver, Past, At

(* A child completes on its own, when it is asked to stop, or in start().  *)
LEMMA Completing ==
    ASSUME TypeOK, Inside, Started, NEW c \in Children,
           CompleteAsync(c) \/ CompleteStopped(c) \/ (StartChild /\ c = next)
    PROVE  /\ Untouched(c)
           /\ UNCHANGED result
           /\ \E thread, call : CompleteOn(c, thread, call) \/ Goto(c, "running")
<1>1. CASE CompleteAsync(c) \/ CompleteStopped(c)
  BY <1>1, CompletingThread DEF control, result, Untouched, At
<1>2. CASE StartChild /\ c = next
  <2>1. At(c, "unstarted") /\ UNCHANGED result
    BY <1>2 DEF StartChild, Started, Children
  <2>2. QED BY <1>2, <2>1, Starting DEF Untouched, At
<1>3. QED BY <1>1, <1>2

(* Any other step leaves the children and their results alone. *)
LEMMA OtherSteps ==
    ASSUME [Next]_vars,
           \A c \in Children :
              /\ ~Storing(c)
              /\ ~(ChildRequests(c) \/ ChildNotified(c) \/ Arrive(c) \/ ResetByLast(c) \/ CompleteReceiver(c))
              /\ ~CompleteAsync(c) /\ ~CompleteStopped(c),
           ~StartChild
    PROVE  UNCHANGED <<result, child>>
BY DEF Next, ChildStep, Storing, Start, StarterStep, CheckStop, ResetByStart, StoppedByStart, StartReturns,
     Ask,
       StopperStep, Forward, Forwarded, ForwardReturns, Idle, vars, result

(* An operation stays a when_all or a when_any. *)
LEMMA SameKind ==
    ASSUME [Next]_vars
    PROVE  any' = any
BY DEF Next, ChildStep, LoadDisposition, StoreValues, SetError, StoreError, SetStopped, Emplace, StoreResult,
   ChildRequests, ChildNotified, Arrive, ResetByLast, CompleteReceiver, CompleteAsync, CompleteStopped, Start,
   StarterStep, CheckStop, ResetByStart, StoppedByStart, StartChild, StartReturns, Ask, StopperStep, Forward,
   Forwarded, ForwardReturns, Idle, vars, result

(* when_all: the disposition follows the children's completions. *)
LEMMA AllStep ==
    ASSUME TypeOK, Started, Inside, ~any, AllTags, AllErrors, [Next]_vars
    PROVE  (AllTags /\ AllErrors)'
<1>1. ASSUME NEW c \in Children, LoadDisposition(c) PROVE (AllTags /\ AllErrors)'
  <2>1. /\ child[c].pc \in {"value", "throw"} /\ child[c].tag = child[c].pc
        /\ UNCHANGED <<disposition, values, error>>
    BY <1>1 DEF LoadDisposition, AllTags, result
  <2>2. \/ disposition # "started" /\ Goto(c, "arrive")
        \/ disposition = "started" /\ At(c, "throw") /\ Goto(c, "error")
        \/ disposition = "started" /\ At(c, "value") /\ Goto(c, "store")
    BY <1>1 DEF LoadDisposition, At
  <2>3. AllTags'
    BY <2>1, <2>2, Moved DEF AllTags, At, Tags, Untouched
  <2>4. AllErrors'
    BY <2>1, <2>2, Moved DEF AllErrors, At, TypeOK, Nobody
  <2>5. QED BY <2>3, <2>4
<1>2. ASSUME NEW c \in Children, StoreValues(c) PROVE (AllTags /\ AllErrors)'
  <2>1. AllTags'
    BY <1>2, Moved DEF StoreValues, AllTags, At, Tags, Untouched
  <2>2. AllErrors'
    BY <1>2, Moved DEF StoreValues, AllErrors, At, TypeOK, Nobody
  <2>3. QED BY <2>1, <2>2
<1>3. ASSUME NEW c \in Children, SetError(c) PROVE (AllTags /\ AllErrors)'
  <2>1. /\ At(c, "error") /\ child[c].tag \in {"error", "throw"}
        /\ disposition' = "error" /\ UNCHANGED <<values, error>>
    BY <1>3 DEF SetError, AllTags, At
  <2>2. \/ disposition = "error" /\ Goto(c, "arrive")
        \/ disposition # "error" /\ Goto(c, "store_error")
    BY <1>3 DEF SetError
  <2>3. AllTags'
    BY <2>1, <2>2, Moved DEF AllTags, At, Tags, Untouched
  <2>4. AllErrors'
    BY <2>1, <2>2, Moved DEF AllErrors, At, TypeOK, Nobody
  <2>5. QED BY <2>3, <2>4
<1>4. ASSUME NEW c \in Children, StoreError(c) PROVE (AllTags /\ AllErrors)'
  <2>1. AllTags'
    BY <1>4, Moved DEF StoreError, AllTags, AllErrors, At, Tags, Untouched
  <2>2. AllErrors'
    BY <1>4, Moved DEF StoreError, AllTags, AllErrors, At, TypeOK, Nobody, Children
  <2>3. QED BY <2>1, <2>2
<1>5. ASSUME NEW c \in Children, SetStopped(c) PROVE (AllTags /\ AllErrors)'
  <2>1. At(c, "stopped") /\ child[c].tag = "stopped" /\ UNCHANGED <<values, error>>
    BY <1>5 DEF SetStopped, AllTags, At
  <2>2. \/ disposition = "started" /\ disposition' = "stopped" /\ Goto(c, "request_stop")
        \/ disposition # "started" /\ disposition' = disposition /\ Goto(c, "arrive")
    BY <1>5 DEF SetStopped, StoppedFrom
  <2>3. AllTags'
    BY <2>1, <2>2, Moved DEF AllTags, At, Tags, Untouched
  <2>4. AllErrors'
    BY <2>1, <2>2, Moved DEF AllErrors, At, TypeOK, Nobody
  <2>5. QED BY <2>3, <2>4
<1>6. ASSUME NEW c \in Children,
             ChildRequests(c) \/ ChildNotified(c) \/ Arrive(c) \/ ResetByLast(c) \/ CompleteReceiver(c)
      PROVE  (AllTags /\ AllErrors)'
  <2>1. PICK where \in Past : Goto(c, where)
    BY <1>6, PastMoves
  <2>2. child[c].pc \in Past /\ UNCHANGED <<disposition, values, error>>
    BY <1>6, PastMoves DEF result
  <2>3. AllTags'
    BY <2>1, <2>2, Moved DEF AllTags, At, Tags, Untouched, Past
  <2>4. AllErrors'
    BY <2>1, <2>2, Moved DEF AllErrors, At, TypeOK, Nobody, Past
  <2>5. QED BY <2>3, <2>4
<1>7. ASSUME NEW c \in Children, CompleteAsync(c) \/ CompleteStopped(c) \/ (StartChild /\ c = next)
      PROVE  (AllTags /\ AllErrors)'
  <2>1. Untouched(c) /\ child[c].tag = "none" /\ UNCHANGED <<disposition, values, error>>
    BY <1>7, Completing DEF result, Inside
  <2>2. CASE Goto(c, "running")
    BY <2>1, <2>2, Moved DEF AllTags, AllErrors, Untouched, At, Tags, TypeOK, Nobody
  <2>3. CASE \E thread, call : CompleteOn(c, thread, call)
    <3>1. PICK tag \in Tags : \A d \in Children :
             /\ child'[d].pc = IF d = c THEN tag ELSE child[d].pc
             /\ child'[d].tag = IF d = c THEN tag ELSE child[d].tag
      BY <2>3, Completed
    <3>2. AllTags'
      BY <2>1, <3>1 DEF AllTags, Untouched, At, Tags
    <3>3. AllErrors'
      BY <2>1, <3>1 DEF AllErrors, Untouched, At, Tags, TypeOK, Nobody
    <3>4. QED BY <3>2, <3>3
  <2>4. QED BY <1>7, <2>2, <2>3, Completing
<1>8. CASE UNCHANGED <<result, child>>
  BY <1>8 DEF result, AllTags, AllErrors, At, Untouched
<1>9. \A c \in Children : ~Emplace(c) /\ (StoreResult(c) => FALSE)
  BY DEF Emplace, StoreResult, AllTags
<1>10. QED
  BY <1>1, <1>2, <1>3, <1>4, <1>5, <1>6, <1>7, <1>8, <1>9, OtherSteps, Starting DEF Storing

(* when_any: the first completion is stored, and stays. *)
LEMMA AnyStep ==
    ASSUME TypeOK, Started, Inside, any, AnyFirst, [Next]_vars
    PROVE  AnyFirst'
<1>1. ASSUME NEW c \in Children, Emplace(c) PROVE AnyFirst'
  <2>1. child[c].pc \in Tags
    BY <1>1 DEF Emplace
  <2>2. CASE first.by = Nobody
    <3>1. /\ Goto(c, "store_result") /\ first'.by = c /\ first'.result = "none"
          /\ \A d \in Children : ~At(d, "store_result")
          /\ c # Nobody
      BY <1>1, <2>2 DEF Emplace, AnyFirst, TypeOK, Children, Nobody
    <3>2. QED BY <2>1, <2>2, <3>1, Moved DEF AnyFirst, Untouched, At, Tags
  <2>3. CASE first.by # Nobody
    <3>1. Goto(c, "arrive") /\ first' = first
      BY <1>1, <2>3 DEF Emplace
    <3>2. first.by \in Children
      BY <2>3 DEF TypeOK
    <3>3. QED BY <2>1, <2>3, <3>1, <3>2, Moved DEF AnyFirst, Untouched, At, Tags
  <2>4. QED BY <2>2, <2>3
<1>2. ASSUME NEW c \in Children, StoreResult(c) PROVE AnyFirst'
  <2>1. /\ At(c, "store_result") /\ Goto(c, "request_stop")
        /\ first.by = c /\ first'.by = c /\ first'.result = Sent(child[c].tag)
    BY <1>2 DEF StoreResult, AnyFirst, TypeOK
  <2>2. c # Nobody
    BY DEF Children, Nobody
  <2>3. QED BY <2>1, <2>2, Moved DEF AnyFirst, Untouched, At, Tags
<1>3. ASSUME NEW c \in Children,
             ChildRequests(c) \/ ChildNotified(c) \/ Arrive(c) \/ ResetByLast(c) \/ CompleteReceiver(c)
      PROVE  AnyFirst'
  <2>1. PICK where \in Past : Goto(c, where)
    BY <1>3, PastMoves
  <2>2. child[c].pc \in Past /\ first' = first
    BY <1>3, PastMoves DEF result
  <2>3. first.by \in Children
    BY <2>2 DEF AnyFirst, Untouched, Tags, Past, TypeOK
  <2>4. QED BY <2>1, <2>2, <2>3, Moved DEF AnyFirst, At, Tags, Untouched, Past
<1>4. ASSUME NEW c \in Children, CompleteAsync(c) \/ CompleteStopped(c) \/ (StartChild /\ c = next)
      PROVE  AnyFirst'
  <2>1. Untouched(c) /\ first' = first
    BY <1>4, Completing DEF result
  <2>2. first.by # c /\ first.by \in Children \cup {Nobody}
    BY <2>1 DEF AnyFirst, Untouched, Children, Nobody, TypeOK
  <2>3. CASE Goto(c, "running")
    BY <2>1, <2>2, <2>3, Moved DEF AnyFirst, Untouched, At, Tags
  <2>4. CASE \E thread, call : CompleteOn(c, thread, call)
    <3>1. PICK tag \in Tags : \A d \in Children :
             /\ child'[d].pc = IF d = c THEN tag ELSE child[d].pc
             /\ child'[d].tag = IF d = c THEN tag ELSE child[d].tag
      BY <2>4, Completed
    <3>2. QED BY <2>1, <2>2, <3>1 DEF AnyFirst, Untouched, At, Tags
  <2>5. QED BY <1>4, <2>3, <2>4, Completing
<1>5. CASE UNCHANGED <<result, child>>
  BY <1>5 DEF result, AnyFirst, At, Untouched
<1>6. ASSUME NEW c \in Children
      PROVE  ~LoadDisposition(c) /\ ~StoreValues(c) /\ ~SetError(c) /\ ~StoreError(c) /\ ~SetStopped(c)
  BY DEF LoadDisposition, StoreValues, SetError, StoreError, SetStopped, AnyFirst, At
<1>7. QED
  BY <1>1, <1>2, <1>3, <1>4, <1>5, <1>6, OtherSteps, Starting DEF Storing

-----------------------------------------------------------------------------
(* The receiver is completed with what the children's completions call for. *)
LEMMA OutcomeStep ==
    ASSUME IInv, TypeOK', Control', Results', [Next]_vars
    PROVE  OutcomeFollowsChildren'
<1> USE DEF IInv, Control
<1>1. TypeOK /\ any' = any
  BY SameKind DEF NoUseAfterDestroy
<1>2. outcome' # "none" =>
          /\ pc'.starter \notin {"reset", "stopped"}
          /\ \A c \in Children : child'[c].pc \notin {"reset", "complete"}
  BY DEF Destroyed, NoUseAfterDestroy
<1>3. ~any => (error' # Nobody => \A c \in Children : child'[c].pc # "store_error")
  BY <1>1 DEF Results, AllErrors, At
<1>4. any => (first'.result # "none" => \A c \in Children : child'[c].pc # "store_result")
  BY <1>1 DEF Results, AnyFirst, At
<1>5. CASE destroyer # Nobody
  <2>1. /\ UNCHANGED <<any, first, disposition, values, error, child, outcome>>
        /\ asked => asked'
    BY <1>1, <1>5, AfterDestruction
  <2>2. CASE any
    BY <1>2, <1>4, <2>1, <2>2 DEF OutcomeFollowsChildren, AnyOutcome, At
  <2>3. CASE ~any
    BY <1>2, <1>3, <2>1, <2>3 DEF OutcomeFollowsChildren, AllOutcome, At
  <2>4. QED BY <2>2, <2>3
<1>6. ASSUME NEW c \in Children, CompleteReceiver(c) PROVE OutcomeFollowsChildren'
  <2>1. /\ outcome' = OutcomeOf
        /\ UNCHANGED <<any, first, disposition, values, error, asked>>
        /\ \A d \in Children : child[d].pc \in {"reset", "complete", "returned"}
    BY <1>1, <1>6, WhenLast DEF CompleteReceiver, result, Finishing, At
  <2>2. \A d \in Children : child'[d].tag = child[d].tag
    BY <1>1, <1>6, Moved DEF CompleteReceiver
  <2>3. CASE any
    <3>1. /\ first.by \in Children
          /\ first.result = Sent(child[first.by].tag)
      BY <1>1, <1>6, <2>1, <2>3 DEF Results, AnyFirst, Untouched, Tags, TypeOK, At
    <3>2. outcome' = "stopped" => asked \/ child[first.by].tag = "stopped"
      BY <2>1, <2>3, <3>1 DEF OutcomeOf, Sent
    <3>3. outcome' = "stopped" \/ outcome' = Sent(child[first.by].tag)
      BY <2>1, <2>3, <3>1 DEF OutcomeOf
    <3>4. first.by # Nobody
      BY <3>1 DEF Children, Nobody
    <3>5. AnyOutcome'
      BY <1>4, <2>1, <2>2, <2>3, <3>1, <3>2, <3>3, <3>4 DEF AnyOutcome, At, Sent
    <3>6. QED BY <1>1, <1>2, <2>3, <3>5 DEF OutcomeFollowsChildren
  <2>4. CASE ~any
    <3>1. outcome' = IF disposition = "started" THEN "value" ELSE disposition
      BY <2>1, <2>4 DEF OutcomeOf
    <3>2. \A d \in Children : ~Untouched(d) /\ child[d].pc \notin Tags \cup {"store", "store_error"}
      BY <2>1 DEF Untouched, Tags
    <3>3. disposition = "started" => values = Children /\ \A d \in Children : child[d].tag = "value"
      BY <1>1, <2>4, <3>2 DEF Results, AllTags, TypeOK
    <3>4. disposition = "error" => error \in Children /\ child[error].tag \in {"error",
    "throw"} /\ error # Nobody
      BY <1>1, <2>4, <3>2 DEF Results, AllErrors, TypeOK, At
    <3>5. disposition = "stopped" => /\ \E d \in Children : child[d].tag = "stopped"
                                     /\ \A d \in Children : child[d].tag # "error"
      BY <2>4, <3>2 DEF Results, AllTags, At, Tags
    <3>6. disposition \in {"started", "error", "stopped"}
      BY <1>1 DEF TypeOK
    <3>7. AllOutcome'
      BY <1>3, <2>1, <2>2, <2>4, <3>1, <3>3, <3>4, <3>5, <3>6 DEF AllOutcome, At
    <3>8. QED BY <1>1, <1>2, <2>4, <3>7 DEF OutcomeFollowsChildren
  <2>5. QED BY <2>3, <2>4
<1>7. CASE StoppedByStart
  <2>1. outcome' = "stopped" /\ asked /\ UNCHANGED <<child, first, asked>>
    BY <1>7 DEF StoppedByStart, Started, result
  <2>2. \A d \in Children : child'[d].pc = "unstarted"
    BY <1>7 DEF StoppedByStart, Started, Children, At
  <2>3. CASE any
    BY <1>1, <1>2, <1>4, <2>1, <2>3 DEF OutcomeFollowsChildren, AnyOutcome, At
  <2>4. CASE ~any
    BY <1>1, <1>2, <1>3, <2>1, <2>2, <2>4 DEF OutcomeFollowsChildren, AllOutcome, At
  <2>5. QED BY <2>3, <2>4
<1>8. ASSUME destroyer = Nobody, outcome' = outcome PROVE OutcomeFollowsChildren'
  <2>1. outcome' = "none"
    BY <1>8 DEF Destroyed
  <2>2. CASE any
    BY <1>1, <1>4, <2>1, <2>2 DEF OutcomeFollowsChildren, AnyOutcome, At
  <2>3. CASE ~any
    BY <1>1, <1>3, <2>1, <2>3 DEF OutcomeFollowsChildren, AllOutcome, At
  <2>4. QED BY <2>2, <2>3
<1>9. ASSUME ~StoppedByStart, \A c \in Children : ~CompleteReceiver(c) PROVE outcome' = outcome
  BY <1>9 DEF Next, ChildStep, LoadDisposition, StoreValues, SetError, StoreError, SetStopped, Emplace,
       StoreResult,
     ChildRequests, ChildNotified, Arrive, ResetByLast, CompleteAsync, CompleteStopped, Start, StarterStep,
     CheckStop, ResetByStart, StartChild, StartReturns, Ask, StopperStep, Forward, Forwarded,
     ForwardReturns, Idle, vars
<1>10. QED BY <1>5, <1>6, <1>7, <1>8, <1>9

(* The invariant is inductive. *)
LEMMA NextInv == IInv /\ [Next]_vars => IInv'
<1> SUFFICES ASSUME IInv, [Next]_vars PROVE IInv'
  OBVIOUS
<1>1. /\ TypeOK /\ Counted /\ Started /\ Inside /\ Forwarding /\ LastOne
      /\ Control /\ Results
  BY DEF IInv, Control, NoUseAfterDestroy
<1>2. TypeOK' /\ Counted' /\ Started' /\ Inside' /\ Forwarding' /\ LastOne'
  BY <1>1, TypeStep, CountedStep, StartedStep, InsideStep, ForwardingStep, LastOneStep
<1>3. Destroyed' /\ NoUseAfterDestroy'
  BY <1>1, <1>2, DestroyedStep
<1>4. Results'
  <2>1. any' = any
    BY SameKind
  <2>2. CASE any
    BY <1>1, <2>1, <2>2, AnyStep DEF Results
  <2>3. CASE ~any
    BY <1>1, <2>1, <2>3, AllStep DEF Results
  <2>4. QED BY <2>2, <2>3
<1>5. Control'
  BY <1>2, <1>3 DEF Control
<1>6. OutcomeFollowsChildren'
  BY <1>2, <1>4, <1>5, OutcomeStep
<1>7. QED BY <1>4, <1>5, <1>6 DEF IInv

(* The inductive invariant holds of every reachable state of a when_all or *)
(* a when_any of any number of children.                                   *)
THEOREM Invariance == Spec => []IInv
BY InitInv, NextInv, PTL DEF Spec

(* However many children complete, on whatever threads, the operation      *)
(* state is destroyed only when no child is left to arrive, start() has    *)
(* none left to start, and no other thread is inside on_stop_request.      *)
THEOREM SafeDestruction == Spec => []NoUseAfterDestroy
<1>1. IInv => NoUseAfterDestroy
  BY DEF IInv, Control
<1>2. QED BY <1>1, Invariance, PTL

(* The receiver is completed once, and with the values, the error or the   *)
(* stop that the children's completions call for.                          *)
THEOREM Outcomes == Spec => []OutcomeFollowsChildren
<1>1. IInv => OutcomeFollowsChildren
  BY DEF IInv
<1>2. QED BY <1>1, Invariance, PTL

(* The receiver is completed, and the operation destroyed, at most once:   *)
(* what it was completed with and by whom never changes afterwards.        *)
THEOREM CompletesOnce == Spec => [][destroyer # Nobody => UNCHANGED <<outcome, destroyer>>]_vars
<1>1. IInv /\ [Next]_vars => [destroyer # Nobody => UNCHANGED <<outcome, destroyer>>]_vars
  BY AfterDestruction DEF IInv, Control, NoUseAfterDestroy
<1>2. QED BY <1>1, Invariance, PTL DEF Spec
=============================================================================
