------------------------ MODULE CountingScope_proofs ------------------------
(***************************************************************************)
(* The invariants of CountingScope, and that it implements JoinableScope,  *)
(* for every set of operations, every set of joins and every limit on the  *)
(* associations.                                                           *)
(***************************************************************************)
EXTENDS CountingScope, FiniteSetTheorems, TLAPS

Joining == word.state \in {"open_and_joining", "closed_and_joining"}
Finisher(w) == work[w] \in {"take", "completing"}

(* Some join is registered, or has decided to be, and not yet taken.       *)
Pending == waiters # {} \/ \E j \in Joins : join[j] = "push"

(* The count is the number of associations, and the states that promise a  *)
(* count of zero have one.                                                 *)
CountInv ==
    /\ word.count = Cardinality(Held)
    /\ word.state \in {"unused", "unused_and_closed", "joined"} => word.count = 0
    /\ Joining => word.count # 0

(* The mutex is held exactly by the join that is between lock and unlock.  *)
MutexInv == \A j \in Joins : join[j] \in {"decide", "push", "now"} <=> mutex = j

(* A waiting join is in the scope's list or in complete_joins' own.        *)
ListInv ==
    /\ \A j \in Joins : join[j] = "waiting" <=> j \in waiters \cup list
    /\ list # {} => \E w \in Work : work[w] = "completing"

(* One operation at most ended the last association, and it did so in the  *)
(* update that made the scope joined; until it takes the waiters there are *)
(* some, and so there are in a joining scope.                              *)
FinishInv ==
    /\ \A w \in Work : Finisher(w) => word.state = "joined"
    /\ \A v, w \in Work : Finisher(v) /\ Finisher(w) => v = w
    /\ \A w \in Work : work[w] = "take" => Pending
    /\ Joining => Pending
    /\ Pending => Joining \/ \E w \in Work : work[w] = "take"
    /\ \A j \in Joins : join[j] \in {"now", "returned", "scheduled", "done"} => word.state = "joined"

(* A join that complete_joins has completed tells that the waiters were    *)
(* taken, for good.                                                        *)
TakenInv ==
    (\E w \in Work : work[w] = "completing") \/ (\E j \in Joins : join[j] \in {"scheduled", "done"})
        => \A w \in Work : work[w] # "take"

(* What the owner knew when it destroyed the scope stays true.             *)
DestroyInv ==
    destroyed =>
        /\ word.state \in {"unused", "unused_and_closed", "joined"}
        /\ \A j \in Joins : ~InStart(j)
        /\ \A w \in Work : work[w] # "take"

IInv == TypeOK /\ CountInv /\ MutexInv /\ ListInv /\ FinishInv /\ TakenInv /\ DestroyInv

-----------------------------------------------------------------------------
(* Finitely many pieces of work hold an association. *)
LEMMA HeldFinite == IsFiniteSet(Held)
BY CountingScopeAssumption, FS_Subset DEF Held

(* The count of the scope's word is zero exactly when no work holds one. *)
LEMMA NothingHeld == TypeOK /\ CountInv => (word.count = 0 <=> Held = {})
BY HeldFinite, FS_EmptySet DEF CountInv

(* Only associating and disassociating change the set of associations. *)
LEMMA HeldUnchanged ==
    ASSUME TypeOK, NEW w \in Work, NEW where \in {"refused", "take", "completing", "ended"},
           work[w] # "held", work' = [work EXCEPT ![w] = where]
    PROVE  Held' = Held
BY DEF Held, TypeOK

(* try_associate adds one association. *)
LEMMA HeldAssociate ==
    ASSUME TypeOK, NEW w \in Work, Associate(w)
    PROVE  Held' = Held \cup {w} /\ Cardinality(Held') = Cardinality(Held) + 1
<1>1. w \notin Held /\ Held' = Held \cup {w}
  BY DEF Held, Associate, TypeOK
<1> QED
  BY <1>1, HeldFinite, FS_AddElement

(* disassociate removes one association, of which there was at least one. *)
LEMMA HeldDisassociate ==
    ASSUME TypeOK, NEW w \in Work, Disassociate(w)
    PROVE  /\ Held' = Held \ {w}
           /\ Cardinality(Held) \in Nat \ {0}
           /\ Cardinality(Held') = Cardinality(Held) - 1
<1>1. w \in Held /\ Held' = Held \ {w}
  BY DEF Held, Disassociate, TypeOK
<1>2. Cardinality(Held) \in Nat /\ Cardinality(Held') = Cardinality(Held) - 1
  BY <1>1, HeldFinite, FS_RemoveElement, FS_CardinalityType
<1>3. Cardinality(Held) # 0
  BY <1>1, HeldFinite, FS_EmptySet
<1> QED
  BY <1>1, <1>2, <1>3

-----------------------------------------------------------------------------
(* The strengthened invariant holds initially. *)
LEMMA InitInv == Init => IInv
<1> SUFFICES ASSUME Init PROVE IInv
  OBVIOUS
<1>1. TypeOK
  <2>1. word \in [state : State, count : 0 .. MaxAssociations]
    BY CountingScopeAssumption DEF Init, State
  <2>2. /\ mutex \in Joins \cup {None} /\ waiters \subseteq Joins /\ list \subseteq Joins
        /\ destroyed \in BOOLEAN
    BY DEF Init
  <2>3. work \in [Work -> {"new", "held", "refused", "take", "completing", "ended"}]
    BY DEF Init
  <2>4. join \in [Joins -> {"new", "lock", "decide", "push", "waiting", "now", "returned", "scheduled", "done"}]
    BY DEF Init
  <2> QED
    BY <2>1, <2>2, <2>3, <2>4 DEF TypeOK
<1>2. CountInv
  <2>1. Held = {}
    BY DEF Init, Held
  <2> QED
    BY <2>1, FS_EmptySet DEF Init, CountInv, Joining
<1>3. MutexInv /\ ListInv /\ FinishInv /\ TakenInv /\ DestroyInv
  BY CountingScopeAssumption
  DEF Init, MutexInv, ListInv, FinishInv, TakenInv, DestroyInv, InStart, Finisher, Pending, Joining
<1> QED
  BY <1>1, <1>2, <1>3 DEF IInv

(* Every step preserves the types. *)
LEMMA TypeStep == ASSUME TypeOK, CountInv, [Next]_vars PROVE TypeOK'
<1> USE CountingScopeAssumption DEF TypeOK, State
<1>1. ASSUME NEW w \in Work, Associate(w) PROVE TypeOK'
  BY <1>1 DEF Associate, Refuses, AcceptsIn
<1>2. ASSUME NEW w \in Work, AssociateRefused(w) PROVE TypeOK'
  BY <1>2 DEF AssociateRefused
<1>3. ASSUME NEW w \in Work, Disassociate(w) PROVE TypeOK'
  <2>1. word.count - 1 \in 0 .. MaxAssociations
    BY <1>3, HeldDisassociate DEF CountInv
  <2> QED
    BY <1>3, <2>1 DEF Disassociate
<1>4. ASSUME NEW w \in Work, TakeWaiters(w) PROVE TypeOK'
  BY <1>4 DEF TakeWaiters
<1>5. ASSUME NEW w \in Work, CompleteJoin(w) PROVE TypeOK'
  BY <1>5 DEF CompleteJoin
<1>6. ASSUME NEW w \in Work, AllCompleted(w) PROVE TypeOK'
  BY <1>6 DEF AllCompleted
<1>7. ASSUME NEW j \in Joins, StartJoin(j) PROVE TypeOK'
  BY <1>7 DEF StartJoin
<1>8. ASSUME NEW j \in Joins, JoinStep(j) PROVE TypeOK'
  BY <1>8 DEF JoinStep, LockMutex, Decide, StateAfterJoin, Register, CompleteNow, ScheduleCompletes
<1>9. CASE Close
  BY <1>9 DEF Close, StateAfterClose
<1>10. CASE Destroy \/ UNCHANGED vars
  BY <1>10 DEF Destroy, vars
<1> QED
  BY <1>1, <1>2, <1>3, <1>4, <1>5, <1>6, <1>7, <1>8, <1>9, <1>10
  DEF Next, WorkStep, Idle
-----------------------------------------------------------------------------
(* Every step preserves the strengthened invariant. *)
LEMMA NextInv == ASSUME IInv, [Next]_vars PROVE IInv'
<1> USE DEF Joining, Finisher, Pending
<1>0. TypeOK /\ TypeOK' /\ CountInv /\ MutexInv /\ ListInv /\ FinishInv /\ TakenInv /\ DestroyInv
  BY TypeStep DEF IInv
<1>t. /\ word.state \in State /\ word.count \in Nat /\ DOMAIN work = Work /\ DOMAIN join = Joins
      /\ word = [state |-> word.state, count |-> word.count]
  BY <1>0 DEF TypeOK
<1>1. ASSUME NEW w \in Work, Associate(w) PROVE IInv'
  <2>a. Cardinality(Held') = Cardinality(Held) + 1
    BY <1>0, <1>1, HeldAssociate
  <2> USE DEF Associate, Refuses, AcceptsIn
  <2>1. CountInv'
    BY <1>1, <1>0, <1>t, <2>a DEF CountInv, State
  <2>2. MutexInv'
    BY <1>1, <1>0, <1>t DEF MutexInv, TypeOK
  <2>3. ListInv'
    BY <1>1, <1>0, <1>t DEF ListInv, FinishInv
  <2>4. FinishInv'
    BY <1>1, <1>0, <1>t DEF FinishInv, ListInv, CountInv, MutexInv, State
  <2>5. TakenInv'
    BY <1>1, <1>0, <1>t DEF TakenInv, FinishInv, TypeOK
  <2>6. DestroyInv'
    BY <1>1, <1>0, <1>t DEF DestroyInv, InStart, FinishInv, ListInv, CountInv
  <2> QED
    BY <1>0, <2>1, <2>2, <2>3, <2>4, <2>5, <2>6 DEF IInv
<1>2. ASSUME NEW w \in Work, AssociateRefused(w) PROVE IInv'
  <2> USE DEF AssociateRefused
  <2>1. CountInv'
    BY <1>2, <1>0, <1>t, HeldUnchanged DEF CountInv
  <2>2. MutexInv'
    BY <1>2, <1>0, <1>t DEF MutexInv, TypeOK
  <2>3. ListInv'
    BY <1>2, <1>0, <1>t DEF ListInv, FinishInv
  <2>4. FinishInv'
    BY <1>2, <1>0, <1>t DEF FinishInv, ListInv, CountInv, MutexInv, State
  <2>5. TakenInv'
    BY <1>2, <1>0, <1>t DEF TakenInv, FinishInv, TypeOK
  <2>6. DestroyInv'
    BY <1>2, <1>0, <1>t DEF DestroyInv, InStart, FinishInv, ListInv, CountInv
  <2> QED
    BY <1>0, <2>1, <2>2, <2>3, <2>4, <2>5, <2>6 DEF IInv
<1>3. ASSUME NEW w \in Work, Disassociate(w) PROVE IInv'
  <2> USE DEF Disassociate, Finishing
  <2>1. CountInv'
    BY <1>3, <1>0, <1>t, HeldDisassociate DEF CountInv, State
  <2>2. MutexInv'
    BY <1>3, <1>0, <1>t DEF MutexInv, TypeOK
  <2>3. ListInv'
    BY <1>3, <1>0, <1>t DEF ListInv, FinishInv
  <2>4. FinishInv'
    BY <1>3, <1>0, <1>t DEF FinishInv, ListInv, CountInv, MutexInv, State
  <2>5. TakenInv'
    BY <1>3, <1>0, <1>t DEF TakenInv, FinishInv, TypeOK
  <2>6. DestroyInv'
    BY <1>3, <1>0, <1>t DEF DestroyInv, InStart, FinishInv, ListInv, CountInv
  <2> QED
    BY <1>0, <2>1, <2>2, <2>3, <2>4, <2>5, <2>6 DEF IInv
<1>4. ASSUME NEW w \in Work, TakeWaiters(w) PROVE IInv'
  <2> USE DEF TakeWaiters, MutexFree
  <2>1. CountInv'
    BY <1>4, <1>0, <1>t, HeldUnchanged DEF CountInv
  <2>2. MutexInv'
    BY <1>4, <1>0, <1>t DEF MutexInv, TypeOK
  <2>3. ListInv'
    BY <1>4, <1>0, <1>t DEF ListInv, FinishInv
  <2>4. FinishInv'
    BY <1>4, <1>0, <1>t, CountingScopeAssumption DEF FinishInv, ListInv, CountInv, MutexInv, State
  <2>5. TakenInv'
    BY <1>4, <1>0, <1>t DEF TakenInv, FinishInv, TypeOK
  <2>6. DestroyInv'
    BY <1>4, <1>0, <1>t DEF DestroyInv, InStart, FinishInv, ListInv, CountInv
  <2> QED
    BY <1>0, <2>1, <2>2, <2>3, <2>4, <2>5, <2>6 DEF IInv
<1>5. ASSUME NEW w \in Work, CompleteJoin(w) PROVE IInv'
  <2> USE DEF CompleteJoin
  <2>h. Held' = Held
    BY <1>5 DEF Held
  <2>1. CountInv'
    BY <1>5, <1>0, <2>h DEF CountInv
  <2>2. MutexInv'
    BY <1>5, <1>0, <1>t DEF MutexInv, ListInv, TypeOK
  <2>3. ListInv'
    BY <1>5, <1>0, <1>t DEF ListInv, FinishInv
  <2>4. FinishInv'
    BY <1>5, <1>0, <1>t DEF FinishInv, ListInv, CountInv, MutexInv, State
  <2>5. TakenInv'
    BY <1>5, <1>0, <1>t DEF TakenInv, FinishInv, TypeOK
  <2>6. DestroyInv'
    BY <1>5, <1>0, <1>t DEF DestroyInv, InStart, FinishInv, ListInv, CountInv
  <2> QED
    BY <1>0, <2>1, <2>2, <2>3, <2>4, <2>5, <2>6 DEF IInv
<1>6. ASSUME NEW w \in Work, AllCompleted(w) PROVE IInv'
  <2> USE DEF AllCompleted
  <2>1. CountInv'
    BY <1>6, <1>0, <1>t, HeldUnchanged DEF CountInv
  <2>2. MutexInv'
    BY <1>6, <1>0, <1>t DEF MutexInv, TypeOK
  <2>3. ListInv'
    BY <1>6, <1>0, <1>t DEF ListInv, FinishInv
  <2>4. FinishInv'
    BY <1>6, <1>0, <1>t DEF FinishInv, ListInv, CountInv, MutexInv, State
  <2>5. TakenInv'
    BY <1>6, <1>0, <1>t DEF TakenInv, FinishInv, TypeOK
  <2>6. DestroyInv'
    BY <1>6, <1>0, <1>t DEF DestroyInv, InStart, FinishInv, ListInv, CountInv
  <2> QED
    BY <1>0, <2>1, <2>2, <2>3, <2>4, <2>5, <2>6 DEF IInv
<1>7. ASSUME NEW j \in Joins, StartJoin(j) PROVE IInv'
  <2> USE DEF StartJoin
  <2>h. Held' = Held
    BY <1>7 DEF Held
  <2>1. CountInv'
    BY <1>7, <1>0, <2>h DEF CountInv
  <2>2. MutexInv'
    BY <1>7, <1>0, <1>t DEF MutexInv, TypeOK
  <2>3. ListInv'
    BY <1>7, <1>0, <1>t DEF ListInv, FinishInv
  <2>4. FinishInv'
    BY <1>7, <1>0, <1>t DEF FinishInv, ListInv, CountInv, MutexInv, State
  <2>5. TakenInv'
    BY <1>7, <1>0, <1>t DEF TakenInv, FinishInv, TypeOK
  <2>6. DestroyInv'
    BY <1>7, <1>0, <1>t DEF DestroyInv, InStart, FinishInv, ListInv, CountInv
  <2> QED
    BY <1>0, <2>1, <2>2, <2>3, <2>4, <2>5, <2>6 DEF IInv
<1>8. ASSUME NEW j \in Joins, LockMutex(j) PROVE IInv'
  <2> USE DEF LockMutex, MutexFree
  <2>h. Held' = Held
    BY <1>8 DEF Held
  <2>1. CountInv'
    BY <1>8, <1>0, <2>h DEF CountInv
  <2>2. MutexInv'
    BY <1>8, <1>0, <1>t, CountingScopeAssumption DEF MutexInv, TypeOK
  <2>3. ListInv'
    BY <1>8, <1>0, <1>t DEF ListInv, FinishInv
  <2>4. FinishInv'
    BY <1>8, <1>0, <1>t DEF FinishInv, ListInv, CountInv, MutexInv, State
  <2>5. TakenInv'
    BY <1>8, <1>0, <1>t DEF TakenInv, FinishInv, TypeOK
  <2>6. DestroyInv'
    BY <1>8, <1>0, <1>t DEF DestroyInv, InStart, FinishInv, ListInv, CountInv
  <2> QED
    BY <1>0, <2>1, <2>2, <2>3, <2>4, <2>5, <2>6 DEF IInv
<1>9. ASSUME NEW j \in Joins, Decide(j) PROVE IInv'
  <2> USE DEF Decide, StateAfterJoin
  <2>h. Held' = Held
    BY <1>9 DEF Held
  <2>1. CountInv'
    BY <1>9, <1>0, <1>t, <2>h DEF CountInv, State
  <2>2. MutexInv'
    BY <1>9, <1>0, <1>t DEF MutexInv, TypeOK
  <2>3. ListInv'
    BY <1>9, <1>0, <1>t DEF ListInv, FinishInv
  <2>4. FinishInv'
    BY <1>9, <1>0, <1>t DEF FinishInv, ListInv, CountInv, MutexInv, State
  <2>5. TakenInv'
    BY <1>9, <1>0, <1>t DEF TakenInv, FinishInv, TypeOK
  <2>6. DestroyInv'
    BY <1>9, <1>0, <1>t DEF DestroyInv, InStart, FinishInv, ListInv, CountInv
  <2> QED
    BY <1>0, <2>1, <2>2, <2>3, <2>4, <2>5, <2>6 DEF IInv
<1>10. ASSUME NEW j \in Joins, Register(j) PROVE IInv'
  <2> USE DEF Register
  <2>h. Held' = Held
    BY <1>10 DEF Held
  <2>1. CountInv'
    BY <1>10, <1>0, <2>h DEF CountInv
  <2>2. MutexInv'
    BY <1>10, <1>0, <1>t, CountingScopeAssumption DEF MutexInv, TypeOK
  <2>3. ListInv'
    BY <1>10, <1>0, <1>t DEF ListInv, FinishInv
  <2>4. FinishInv'
    BY <1>10, <1>0, <1>t DEF FinishInv, ListInv, CountInv, MutexInv, State
  <2>5. TakenInv'
    BY <1>10, <1>0, <1>t DEF TakenInv, FinishInv, TypeOK
  <2>6. DestroyInv'
    BY <1>10, <1>0, <1>t DEF DestroyInv, InStart, FinishInv, ListInv, CountInv
  <2> QED
    BY <1>0, <2>1, <2>2, <2>3, <2>4, <2>5, <2>6 DEF IInv
<1>11. ASSUME NEW j \in Joins, CompleteNow(j) PROVE IInv'
  <2> USE DEF CompleteNow
  <2>h. Held' = Held
    BY <1>11 DEF Held
  <2>1. CountInv'
    BY <1>11, <1>0, <2>h DEF CountInv
  <2>2. MutexInv'
    BY <1>11, <1>0, <1>t, CountingScopeAssumption DEF MutexInv, TypeOK
  <2>3. ListInv'
    BY <1>11, <1>0, <1>t DEF ListInv, FinishInv
  <2>4. FinishInv'
    BY <1>11, <1>0, <1>t DEF FinishInv, ListInv, CountInv, MutexInv, State
  <2>5. TakenInv'
    BY <1>11, <1>0, <1>t DEF TakenInv, FinishInv, TypeOK
  <2>6. DestroyInv'
    BY <1>11, <1>0, <1>t DEF DestroyInv, InStart, FinishInv, ListInv, CountInv
  <2> QED
    BY <1>0, <2>1, <2>2, <2>3, <2>4, <2>5, <2>6 DEF IInv
<1>12. ASSUME NEW j \in Joins, ScheduleCompletes(j) PROVE IInv'
  <2> USE DEF ScheduleCompletes
  <2>h. Held' = Held
    BY <1>12 DEF Held
  <2>1. CountInv'
    BY <1>12, <1>0, <2>h DEF CountInv
  <2>2. MutexInv'
    BY <1>12, <1>0, <1>t DEF MutexInv, TypeOK
  <2>3. ListInv'
    BY <1>12, <1>0, <1>t DEF ListInv, FinishInv
  <2>4. FinishInv'
    BY <1>12, <1>0, <1>t DEF FinishInv, ListInv, CountInv, MutexInv, State
  <2>5. TakenInv'
    BY <1>12, <1>0, <1>t DEF TakenInv, FinishInv, TypeOK
  <2>6. DestroyInv'
    BY <1>12, <1>0, <1>t DEF DestroyInv, InStart, FinishInv, ListInv, CountInv
  <2> QED
    BY <1>0, <2>1, <2>2, <2>3, <2>4, <2>5, <2>6 DEF IInv
<1>13. ASSUME Close PROVE IInv'
  <2> USE DEF Close, StateAfterClose
  <2>h. Held' = Held
    BY <1>13 DEF Held
  <2>1. CountInv'
    BY <1>13, <1>0, <1>t, <2>h DEF CountInv, State
  <2>2. MutexInv'
    BY <1>13, <1>0, <1>t DEF MutexInv, TypeOK
  <2>3. ListInv'
    BY <1>13, <1>0, <1>t DEF ListInv, FinishInv
  <2>4. FinishInv'
    BY <1>13, <1>0, <1>t DEF FinishInv, ListInv, CountInv, MutexInv, State
  <2>5. TakenInv'
    BY <1>13, <1>0, <1>t DEF TakenInv, FinishInv, TypeOK
  <2>6. DestroyInv'
    BY <1>13, <1>0, <1>t DEF DestroyInv, InStart, FinishInv, ListInv, CountInv
  <2> QED
    BY <1>0, <2>1, <2>2, <2>3, <2>4, <2>5, <2>6 DEF IInv
<1>14. ASSUME Destroy PROVE IInv'
  <2> USE DEF Destroy, MayDestroy
  <2>h. Held' = Held
    BY <1>14 DEF Held
  <2>1. CountInv'
    BY <1>14, <1>0, <2>h DEF CountInv
  <2>2. MutexInv'
    BY <1>14, <1>0, <1>t DEF MutexInv, TypeOK
  <2>3. ListInv'
    BY <1>14, <1>0, <1>t DEF ListInv, FinishInv
  <2>4. FinishInv'
    BY <1>14, <1>0, <1>t DEF FinishInv, ListInv, CountInv, MutexInv, State
  <2>5. TakenInv'
    BY <1>14, <1>0, <1>t DEF TakenInv, FinishInv, TypeOK
  <2>6. DestroyInv'
    <3>1. word' = word /\ work' = work /\ join' = join /\ \A j \in Joins : ~InStart(j)
      BY <1>14
    <3>2. word.state \in {"unused", "unused_and_closed", "joined"}
      BY <1>14, <1>0 DEF Completed, FinishInv
    <3>3. CASE \E j \in Joins : join[j] = "done"
      <4>1. \A w \in Work : work[w] # "take"
        BY <1>0, <3>3 DEF TakenInv
      <4> QED
        BY <3>1, <3>2, <4>1 DEF DestroyInv, InStart
    <3>4. CASE \A j \in Joins : join[j] = "new" \/ Completed(j)
      <4>1. ~Pending
        BY <1>0, <3>4 DEF Completed, ListInv, TypeOK
      <4>2. \A w \in Work : work[w] # "take"
        BY <1>0, <4>1 DEF FinishInv
      <4> QED
        BY <3>1, <3>2, <4>2 DEF DestroyInv, InStart
    <3> QED
      BY <1>14, <3>3, <3>4
  <2> QED
    BY <1>0, <2>1, <2>2, <2>3, <2>4, <2>5, <2>6 DEF IInv
<1>15. ASSUME UNCHANGED vars PROVE IInv'
  <2> USE DEF vars
  <2>h. Held' = Held
    BY <1>15 DEF Held
  <2>1. CountInv'
    BY <1>15, <1>0, <2>h DEF CountInv
  <2>2. MutexInv'
    BY <1>15, <1>0, <1>t DEF MutexInv, TypeOK
  <2>3. ListInv'
    BY <1>15, <1>0, <1>t DEF ListInv, FinishInv
  <2>4. FinishInv'
    BY <1>15, <1>0, <1>t DEF FinishInv, ListInv, CountInv, MutexInv, State
  <2>5. TakenInv'
    BY <1>15, <1>0, <1>t DEF TakenInv, FinishInv, TypeOK
  <2>6. DestroyInv'
    BY <1>15, <1>0, <1>t DEF DestroyInv, InStart, FinishInv, ListInv, CountInv
  <2> QED
    BY <1>0, <2>1, <2>2, <2>3, <2>4, <2>5, <2>6 DEF IInv
<1> QED
  BY <1>1, <1>2, <1>3, <1>4, <1>5, <1>6, <1>7, <1>8, <1>9, <1>10, <1>11, <1>12, <1>13, <1>14, <1>15
  DEF Next, WorkStep, JoinStep, Idle

-----------------------------------------------------------------------------
(* The strengthened invariant holds in every reachable state. *)
THEOREM Invariance == Spec => []IInv
BY InitInv, NextInv, PTL DEF Spec, Safety

(* The word, the mutex and the lists always have their types: above all    *)
(* the count neither exceeds max_associations nor drops below zero.        *)
THEOREM TypeCorrectness == Spec => []TypeOK
BY Invariance, PTL DEF IInv

(* A scope may be destroyed as soon as a join has completed, also when     *)
(* complete_joins has more of them to complete.                            *)
THEOREM SafeDestruction == Spec => []DestroyIsSafe
<1>1. IInv => DestroyIsSafe
  <2> SUFFICES ASSUME IInv, destroyed PROVE DestroyIsSafe
    BY DEF DestroyIsSafe
  <2>1. /\ word.state \in {"unused", "unused_and_closed", "joined"}
        /\ \A j \in Joins : ~InStart(j)
        /\ \A w \in Work : work[w] # "take"
    BY DEF IInv, DestroyInv
  <2>2. Held = {}
    BY <2>1, NothingHeld DEF IInv, CountInv
  <2>3. waiters = {}
    BY <2>1 DEF IInv, FinishInv, Pending, Joining
  <2>4. mutex = None
    BY <2>1 DEF IInv, TypeOK, MutexInv, InStart
  <2> QED
    BY <2>1, <2>2, <2>3, <2>4 DEF DestroyIsSafe
<1> QED
  BY <1>1, Invariance, PTL

(* A join completes only on a scope that is joined and empty.              *)
THEOREM JoinSafety == Spec => []JoinMeansEmpty
<1>1. IInv => JoinMeansEmpty
  BY NothingHeld DEF IInv, JoinMeansEmpty, FinishInv, CountInv
<1> QED
  BY <1>1, Invariance, PTL

(* While a join is registered there is an operation that will complete it. *)
THEOREM JoinIsKept == Spec => []NoLostJoin
<1>1. IInv => NoLostJoin
  <2> SUFFICES ASSUME IInv, NEW j \in Joins, join[j] \in {"push", "waiting"}
               PROVE  Held # {} \/ \E w \in Work : work[w] \in {"take", "completing"}
    BY DEF NoLostJoin
  <2>1. Pending \/ list # {}
    BY DEF IInv, ListInv, Pending
  <2>2. CASE Pending
    BY <2>2, NothingHeld DEF IInv, FinishInv, CountInv
  <2>3. CASE list # {}
    BY <2>3 DEF IInv, ListInv
  <2> QED
    BY <2>1, <2>2, <2>3
<1> QED
  BY <1>1, Invariance, PTL

-----------------------------------------------------------------------------
(* Every step of the scope is a step of JoinableScope or changes nothing   *)
(* that its users can see.                                                 *)
LEMMA StepPromise == ASSUME IInv, IInv', [Next]_vars PROVE [Promise!Next]_(Promise!vars)
<1>0. TypeOK /\ TypeOK' /\ CountInv /\ CountInv' /\ ListInv /\ FinishInv
  BY DEF IInv
<1>t. /\ word.state \in State /\ DOMAIN join = Joins /\ DOMAIN work = Work
      /\ word.count \in Nat /\ word = [state |-> word.state, count |-> word.count]
  BY <1>0 DEF TypeOK
<1> USE DEF Completed
<1> DEFINE Seen(k) == CASE k = "new" -> "idle" [] k \in {"returned", "done"} -> "done" [] OTHER -> "waiting"
<1>1. ASSUME NEW w \in Work, Associate(w) PROVE Promise!Enter(w)
  <2>1. Held' = Held \cup {w} /\ w \notin Held
    BY <1>0, <1>1, HeldAssociate DEF Associate, Held
  <2> QED
    BY <1>1, <1>t, <2>1 DEF Associate, Refuses, AcceptsIn, Promise!Enter
<1>3. ASSUME NEW w \in Work, Disassociate(w) PROVE Promise!Leave(w)
  <2>1. w \in Held /\ Held' = Held \ {w}
    BY <1>0, <1>3, HeldDisassociate DEF Disassociate, Held
  <2>2. CASE Finishing(word.count - 1)
    <3>1. word.state # "joined" /\ word'.state = "joined" /\ UNCHANGED join
      BY <1>3, <2>2, <1>t DEF Disassociate, Finishing
    <3>2. Held' = {}
      <4>1. Cardinality(Held') = 0
        BY <1>0, <1>3, <2>2, HeldDisassociate DEF CountInv, Finishing
      <4>2. IsFiniteSet(Held')
        BY <2>1, HeldFinite, FS_Subset
      <4> QED
        BY <4>1, <4>2, FS_EmptySet
    <3>3. \E j \in Joins : join[j] \in {"push", "waiting"}
      BY <1>0, <2>2 DEF Finishing, FinishInv, Joining, Pending, ListInv, TypeOK
    <3> QED
      BY <2>1, <2>2, <3>1, <3>2, <3>3 DEF AcceptsIn, Promise!Leave
  <2>3. CASE ~Finishing(word.count - 1)
    BY <1>3, <2>3, <2>1, <1>t DEF Disassociate, AcceptsIn, Promise!Leave
  <2> QED
    BY <2>2, <2>3
<1>4. ASSUME NEW w \in Work, AssociateRefused(w) \/ TakeWaiters(w) \/ AllCompleted(w)
      PROVE  UNCHANGED Promise!vars
  <2>1. Held' = Held
    BY <1>0, <1>4, HeldUnchanged DEF AssociateRefused, TakeWaiters, AllCompleted
  <2> QED
    BY <1>4, <2>1 DEF AssociateRefused, TakeWaiters, AllCompleted, Promise!vars
<1>5. ASSUME NEW w \in Work, CompleteJoin(w)
      PROVE  (\E j \in Joins : Promise!Complete(j)) \/ UNCHANGED Promise!vars
  <2> PICK j \in list : join' = [join EXCEPT ![j] = IF j \in ScheduledJoins THEN "scheduled" ELSE "done"]
    BY <1>5 DEF CompleteJoin
  <2>1. j \in Joins /\ join[j] = "waiting" /\ word.state = "joined"
    BY <1>0, <1>5 DEF TypeOK, ListInv, CompleteJoin, FinishInv, Finisher
  <2>2. Held' = Held /\ word' = word
    BY <1>5 DEF Held, CompleteJoin
  <2>3. CASE j \in ScheduledJoins
    BY <1>t, <2>1, <2>2, <2>3 DEF Promise!vars
  <2>4. CASE j \notin ScheduledJoins
    BY <1>t, <2>1, <2>2, <2>4 DEF Promise!Complete
  <2> QED
    BY <2>1, <2>3, <2>4
<1>6. ASSUME NEW j \in Joins, StartJoin(j) PROVE Promise!Wait(j)
  BY <1>6, <1>t DEF StartJoin, Held, Promise!Wait
<1>7. ASSUME NEW j \in Joins, LockMutex(j) \/ Register(j) PROVE UNCHANGED Promise!vars
  BY <1>7, <1>t DEF LockMutex, Register, Held, Promise!vars
<1>8. ASSUME NEW j \in Joins, Decide(j) PROVE Promise!Seal(j) \/ UNCHANGED Promise!vars
  <2>1. Held' = Held /\ \A k \in Joins : Seen(join'[k]) = Seen(join[k]) /\ Seen(join[j]) = "waiting"
    BY <1>8, <1>t DEF Decide, Held
  <2>2. CASE word.count = 0
    BY <1>0, <1>8, <1>t, <2>1, <2>2, NothingHeld DEF Decide, StateAfterJoin, AcceptsIn, Promise!Seal
  <2>3. CASE word.count # 0
    BY <1>0, <1>8, <1>t, <2>1, <2>3 DEF Decide, StateAfterJoin, AcceptsIn, CountInv, State, Promise!vars
  <2> QED
    BY <2>2, <2>3
<1>9. ASSUME NEW j \in Joins, CompleteNow(j) \/ ScheduleCompletes(j) PROVE Promise!Complete(j)
  <2>1. word.state = "joined" /\ Held' = Held /\ word' = word
    BY <1>0, <1>9 DEF CompleteNow, ScheduleCompletes, FinishInv, Held
  <2> QED
    BY <1>9, <1>t, <2>1 DEF CompleteNow, ScheduleCompletes, Promise!Complete
<1>10. ASSUME Close PROVE Promise!Close
  BY <1>10, <1>t DEF Close, StateAfterClose, AcceptsIn, Held, Promise!Close
<1>11. ASSUME Destroy \/ UNCHANGED vars PROVE UNCHANGED Promise!vars
  BY <1>11 DEF Destroy, vars, Held, Promise!vars
<1> QED
  BY <1>1, <1>3, <1>4, <1>5, <1>6, <1>7, <1>8, <1>9, <1>10, <1>11
  DEF Next, WorkStep, JoinStep, Idle, Promise!Next

(* A counting scope keeps the promise of JoinableScope.                    *)
THEOREM Refinement == Spec => ImplementsJoinableScope
<1>1. Init => Promise!Init
  BY DEF Init, Held, AcceptsIn, Completed, Promise!Init
<1> QED
  BY <1>1, Invariance, StepPromise, PTL DEF Spec, Safety, ImplementsJoinableScope, Promise!Spec
=============================================================================
