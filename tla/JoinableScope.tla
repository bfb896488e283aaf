--------------------------- MODULE JoinableScope ---------------------------
(***************************************************************************)
(* What a counting scope promises its users: work is admitted while the    *)
(* scope's gate is open, and a join completes only after the scope was     *)
(* sealed, which happens at a moment when no work is active and after      *)
(* which none is ever admitted.  CountingScope implements it.              *)
(***************************************************************************)
CONSTANTS Work, Joins

VARIABLES
    gate,      \* whether new work may be admitted
    sealed,    \* whether the scope is joined
    active,    \* the work that is associated with the scope
    join       \* how far each join has come

vars == <<gate, sealed, active, join>>

Init ==
    /\ gate = TRUE
    /\ sealed = FALSE
    /\ active = {}
    /\ join = [j \in Joins |-> "idle"]

Enter(w) ==
    /\ gate /\ w \notin active
    /\ active' = active \cup {w}
    /\ UNCHANGED <<gate, sealed, join>>

Leave(w) ==
    /\ w \in active
    /\ active' = active \ {w}
    /\ sealed' \in {sealed, active' = {} /\ \E j \in Joins : join[j] = "waiting"}
    /\ gate' = (gate /\ ~sealed')
    /\ UNCHANGED join

Close ==
    /\ gate' = FALSE
    /\ UNCHANGED <<sealed, active, join>>

Wait(j) ==
    /\ join[j] = "idle"
    /\ join' = [join EXCEPT ![j] = "waiting"]
    /\ UNCHANGED <<gate, sealed, active>>

(* A join that finds no active work seals the scope itself. *)
Seal(j) ==
    /\ join[j] = "waiting" /\ active = {}
    /\ sealed' = TRUE /\ gate' = FALSE
    /\ UNCHANGED <<active, join>>

Complete(j) ==
    /\ join[j] = "waiting" /\ sealed
    /\ join' = [join EXCEPT ![j] = "done"]
    /\ UNCHANGED <<gate, sealed, active>>

Next ==
    \/ \E w \in Work : Enter(w) \/ Leave(w)
    \/ Close
    \/ \E j \in Joins : Wait(j) \/ Seal(j) \/ Complete(j)

Spec == Init /\ [][Next]_vars
=============================================================================
