----------------------------- MODULE StealQueue -----------------------------
(***************************************************************************)
(* What a work-stealing queue promises: its owner pops the newest item     *)
(* that is queued, thieves steal any of them, and each item is delivered   *)
(* to one of them only.  Items are numbered in the order of their pushes.  *)
(* BwosQueue implements it.                                                *)
(***************************************************************************)
EXTENDS Naturals

CONSTANT Items

VARIABLES
    queue,       \* the items that are queued
    delivered    \* how often an item was taken

vars == <<queue, delivered>>

Init == queue = {} /\ delivered = [i \in Items |-> 0]

Push(i) ==
    /\ \A k \in Items : k \in queue \/ delivered[k] # 0 => k < i
    /\ queue' = queue \cup {i}
    /\ UNCHANGED delivered

Deliver(i) ==
    /\ queue' = queue \ {i}
    /\ delivered' = [delivered EXCEPT ![i] = @ + 1]

Newest(i) == i \in queue /\ \A k \in queue : k <= i

Pop == \E i \in Items : Newest(i) /\ Deliver(i)

Steal == \E i \in queue : Deliver(i)

Next == (\E i \in Items : Push(i)) \/ Pop \/ Steal

Spec == Init /\ [][Next]_vars
=============================================================================
