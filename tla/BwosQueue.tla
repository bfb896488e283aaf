------------------------------ MODULE BwosQueue ------------------------------
(***************************************************************************)
(* The pool's block-based work-stealing queue (src/bwos_queue.hpp): one    *)
(* owner pushes and pops at the back, thieves steal from the front.  The   *)
(* owner works in its current block, from which nobody steals; it grants   *)
(* the block to the thieves when it moves on, takes it over when it moves  *)
(* back, and reclaims an exhausted block to use it for the next round.     *)
(*                                                                         *)
(* A block's head, and the queue's last_block, are read by the owner alone *)
(* or written by it alone, so its accesses to them are steps only where a  *)
(* thief looks.  A counter is a pair of a round and an index; the rounds   *)
(* do not wrap, which the code's do after 2^32 laps, and the round before  *)
(* the first, ~0 in the code, is -1.  Atomics are sequentially consistent. *)
(***************************************************************************)
EXTENDS Integers, FiniteSets

CONSTANTS Thieves,    \* the threads that steal
          NumItems,   \* bound: the items that are pushed are 1, 2, ...
          Blocks,     \* the number of blocks, rounded up to a power of two
          Size        \* the number of items a block holds

Owner == "owner"

ASSUME BwosQueueAssumption ==
    /\ NumItems \in Nat /\ {Blocks, Size} \subseteq Nat \ {0}
    /\ IsFiniteSet(Thieves) /\ Owner \notin Thieves

Items == 1 .. NumItems
Slots == 0 .. Size - 1
BlockIds == 0 .. Blocks - 1

VARIABLES
    block,    \* the blocks: head, tail, steal_count, steal_tail and ring
    last,     \* last_block
    start,    \* start_block
    pc,       \* where a thread is
    thief,    \* the locals of steal_front: the counter, steal_tail as it was
              \* loaded, and, as a history, the item that was claimed
    pushed,   \* history: the number of items pushed
    taken     \* history: how often an item was taken, 2 is "twice or more"

vars == <<block, last, start, pc, thief, pushed, taken>>

Counter(round, index) == [round |-> round, index |-> index]

(* next_counter and previous_counter *)
Following(c) ==
    LET index == (c.index + 1) % Blocks
    IN  Counter(IF index = 0 THEN c.round + 1 ELSE c.round, index)

Preceding(c) ==
    Counter(IF c.index = 0 THEN c.round - 1 ELSE c.round, (c.index + Blocks - 1) % Blocks)

Before(c, d) == c.round < d.round \/ (c.round = d.round /\ c.index < d.index)

NoThief == [at |-> Counter(0, 0), position |-> Counter(0, 0), claim |-> 0]

Init ==
    /\ block = [b \in BlockIds |->
                   [head  |-> IF b = 0 THEN Counter(0, 0) ELSE Counter(-1, Size),
                    tail  |-> IF b = 0 THEN 0 ELSE Size,
                    count |-> IF b = 0 THEN 0 ELSE Size,
                    steal |-> Counter(IF b = 0 THEN 0 ELSE -1, Size),
                    ring  |-> [s \in Slots |-> 0]]]
    /\ last = Counter(0, 0) /\ start = Counter(0, 0)
    /\ pc = [t \in Thieves \cup {Owner} |-> "idle"]
    /\ thief = [t \in Thieves |-> NoThief]
    /\ pushed = 0 /\ taken = [i \in Items |-> 0]

At(t, where) == pc[t] = where
Goto(t, where) == pc' = [pc EXCEPT ![t] = where]
Take(i) == taken' = [taken EXCEPT ![i] = IF @ = 0 THEN 1 ELSE 2]
current == block[last.index]

-----------------------------------------------------------------------------
(* The owner pushes: put, and advance_put_index when the block is full.    *)

HasRoom == current.tail < Size

Put ==
    /\ pc[Owner] \in {"idle", "put"} /\ pushed < NumItems
    /\ IF HasRoom
          THEN /\ block' = [block EXCEPT ![last.index].ring[current.tail] = pushed + 1,
                                         ![last.index].tail = @ + 1]
               /\ pushed' = pushed + 1
               /\ Goto(Owner, "idle")
          ELSE Goto(Owner, "advance") /\ UNCHANGED <<block, pushed>>
    /\ UNCHANGED <<last, start, thief, taken>>

(* is_writable: the block was exhausted in the round before, or emptied.   *)
IsWritable(c) == block[c.index].steal = Counter(c.round - 1, Size)
MayAdvance == Blocks > 1 /\ IsWritable(Following(last))

(* What the queue's front is before it moves off the block to be reused.   *)
Advance ==
    /\ At(Owner, "advance")
    /\ IF MayAdvance
          THEN /\ start' = IF Following(last).index = start.index THEN Following(start) ELSE start
               /\ Goto(Owner, "grant")
          ELSE Goto(Owner, "idle") /\ UNCHANGED start
    /\ UNCHANGED <<block, last, thief, pushed, taken>>

Grant ==
    /\ At(Owner, "grant")
    /\ block' = [block EXCEPT ![last.index].head = current.steal, ![last.index].steal = current.head]
    /\ Goto(Owner, "reclaim")
    /\ UNCHANGED <<last, start, thief, pushed, taken>>

(* Mutant: thieves that still read are not waited for. *)
AllReadAlways(c) == TRUE

AllRead(c) == block[c.index].count = block[c.index].head.index

Reclaim ==
    /\ At(Owner, "reclaim") /\ AllRead(Following(last))
    /\ block' = [block EXCEPT ![Following(last).index].head = Counter(Following(last).round, 0),
                              ![Following(last).index].tail = 0]
    /\ Goto(Owner, "renew")
    /\ UNCHANGED <<last, start, thief, pushed, taken>>

Renew ==
    /\ At(Owner, "renew")
    /\ block' = [block EXCEPT ![Following(last).index].steal = Counter(Following(last).round, Size)]
    /\ Goto(Owner, "recount")
    /\ UNCHANGED <<last, start, thief, pushed, taken>>

(* Mutant: the count goes on from the last round. *)
RecountedFrom(count) == count

Recounted(count) == 0

Recount ==
    /\ At(Owner, "recount")
    /\ block' = [block EXCEPT ![Following(last).index].count = Recounted(@)]
    /\ Goto(Owner, "move_on")
    /\ UNCHANGED <<last, start, thief, pushed, taken>>

MoveOn ==
    /\ At(Owner, "move_on")
    /\ last' = Following(last)
    /\ Goto(Owner, "put")
    /\ UNCHANGED <<block, start, thief, pushed, taken>>

-----------------------------------------------------------------------------
(* The owner pops: get, and advance_get_index when the block is empty.     *)

Empty == current.tail = 0 \/ current.head.index = current.tail

Get ==
    /\ pc[Owner] \in {"idle", "get"}
    /\ \/ /\ ~Empty
          /\ Take(current.ring[current.tail - 1])
          /\ block' = [block EXCEPT ![last.index].tail = @ - 1]
          /\ Goto(Owner, "idle")
       \/ /\ Empty
          /\ Goto(Owner, IF start = last THEN "idle" ELSE "reduce")
          /\ UNCHANGED <<block, taken>>
    /\ UNCHANGED <<last, start, thief, pushed>>

(* Mutant: the emptied block keeps its round. *)
ReducedNot(steal) == steal

(* The emptied block becomes writable again for the same round. *)
Reduced(steal) == Counter(steal.round - 1, steal.index)

ReduceRound ==
    /\ At(Owner, "reduce")
    /\ block' = [block EXCEPT ![last.index].steal = Reduced(@)]
    /\ Goto(Owner, "takeover")
    /\ UNCHANGED <<last, start, thief, pushed, taken>>

(* Mutant: the items that thieves have claimed are not given up. *)
TakenOverAll(b) == [b EXCEPT !.steal = b.head, !.head = Counter(b.steal.round, 0)]

(* One exchange ends the stealing and tells how far it went. *)
TakenOver(b) == [b EXCEPT !.steal = b.head, !.head = b.steal]

Takeover ==
    /\ At(Owner, "takeover")
    /\ block' = [block EXCEPT ![Preceding(last).index] = TakenOver(@)]
    /\ Goto(Owner, "move_back")
    /\ UNCHANGED <<last, start, thief, pushed, taken>>

MoveBack ==
    /\ At(Owner, "move_back")
    /\ last' = Preceding(last)
    /\ Goto(Owner, "get")
    /\ UNCHANGED <<block, start, thief, pushed, taken>>

-----------------------------------------------------------------------------
(* A thief steals: steal, and advance_steal_index when a block is done.    *)

Target(t) == block[thief[t].at.index]
Return(t) == Goto(t, "idle") /\ thief' = [thief EXCEPT ![t] = NoThief]

StealFront(t) ==
    /\ At(t, "idle")
    /\ thief' = [thief EXCEPT ![t].at = start]
    /\ Goto(t, "load")
    /\ UNCHANGED <<block, last, start, pushed, taken>>

(* The index says whether there is anything; if not, the round says        *)
(* whether that is for good.                                               *)
Load(t) ==
    /\ At(t, "load")
    /\ LET position == Target(t).steal IN
          \/ /\ position.index # Size
             /\ thief' = [thief EXCEPT ![t].position = position]
             /\ Goto(t, "check")
          \/ /\ position.index = Size /\ position.round = thief[t].at.round
             /\ Goto(t, "next") /\ UNCHANGED thief
          \/ /\ position.index = Size /\ position.round # thief[t].at.round
             /\ Return(t)
    /\ UNCHANGED <<block, last, start, pushed, taken>>

CheckTail(t) ==
    /\ At(t, "check")
    /\ IF thief[t].position.index = Target(t).tail THEN Return(t) ELSE Goto(t, "claim") /\ UNCHANGED thief
    /\ UNCHANGED <<block, last, start, pushed, taken>>

Claim(t) ==
    /\ At(t, "claim")
    /\ IF Target(t).steal = thief[t].position
          THEN LET b == thief[t].at.index
                   item == block[b].ring[thief[t].position.index] IN
               /\ block' = [block EXCEPT ![b].steal.index = @ + 1]
               /\ Take(item)
               /\ thief' = [thief EXCEPT ![t].claim = item]
               /\ Goto(t, "read")
          ELSE Goto(t, "load") /\ UNCHANGED <<block, thief, taken>>
    /\ UNCHANGED <<last, start, pushed>>

(* The slot is read after the claim, and counted as read. *)
Read(t) ==
    /\ At(t, "read")
    /\ Goto(t, "count")
    /\ UNCHANGED <<block, last, start, thief, pushed, taken>>

CountRead(t) ==
    /\ At(t, "count")
    /\ block' = [block EXCEPT ![thief[t].at.index].count = @ + 1]
    /\ Return(t)
    /\ UNCHANGED <<last, start, pushed, taken>>

AdvanceSteal(t) ==
    /\ At(t, "next")
    /\ IF Before(Following(thief[t].at), last)
          THEN /\ thief' = [thief EXCEPT ![t].at = Following(@)]
               /\ Goto(t, "load")
          ELSE Return(t)
    /\ UNCHANGED <<block, last, start, pushed, taken>>

-----------------------------------------------------------------------------
OwnerStep ==
    \/ Advance \/ Grant \/ Reclaim \/ Renew \/ Recount \/ MoveOn
    \/ ReduceRound \/ Takeover \/ MoveBack
    \/ At(Owner, "put") /\ Put
    \/ At(Owner, "get") /\ Get

ThiefStep(t) ==
    Load(t) \/ CheckTail(t) \/ Claim(t) \/ Read(t) \/ CountRead(t) \/ AdvanceSteal(t)

Next ==
    \/ OwnerStep
    \/ At(Owner, "idle") /\ (Put \/ Get)
    \/ \E t \in Thieves : StealFront(t) \/ ThiefStep(t)

(* Threads inside a call are scheduled. *)
Spec ==
    /\ Init /\ [][Next]_vars
    /\ WF_vars(OwnerStep) /\ \A t \in Thieves : WF_vars(ThiefStep(t))

-----------------------------------------------------------------------------
Positions == [round : Int, index : 0 .. Size]

(* The variables have their types, and a block's counters their ranges.    *)
TypeOK ==
    /\ block \in [BlockIds -> [head : Positions, tail : 0 .. Size, count : 0 .. Size, steal : Positions,
                               ring : [Slots -> 0 .. NumItems]]]
    /\ {last, start} \subseteq [round : Nat, index : BlockIds]
    /\ pc \in [Thieves \cup {Owner} ->
                  {"idle", "put", "advance", "grant", "reclaim", "renew", "recount", "move_on", "get",
                   "reduce", "takeover", "move_back", "load", "check", "claim", "read", "count", "next"}]
    /\ thief \in [Thieves -> [at : [round : Nat, index : BlockIds], position : Positions, claim : 0 .. NumItems]]
    /\ pushed \in 0 .. NumItems /\ taken \in [Items -> 0 .. 2]

(* A thief reads the item that it claimed: neither the owner's pushes nor  *)
(* the reuse of the block overwrite a slot that is still to be read.       *)
ReadsItsClaim ==
    /\ TypeOK
    /\ \A t \in Thieves : At(t, "read") =>
          /\ thief[t].claim \in Items
          /\ Target(t).ring[thief[t].position.index] = thief[t].claim

Queued == {i \in 1 .. pushed : taken[i] = 0}

(* The owner is told the truth: there is nothing to pop only when no item  *)
(* is queued in any block, and a push is refused only when some are.       *)
AnswersAreTrue ==
    /\ pc[Owner] \in {"idle", "get"} /\ Empty /\ start = last => Queued = {}
    /\ At(Owner, "advance") /\ ~MayAdvance => Queued # {}

Promise == INSTANCE StealQueue WITH queue <- Queued, delivered <- taken

(* The blocks implement StealQueue: every item is delivered once, and the  *)
(* owner's pops are last in, first out.                                    *)
ImplementsStealQueue == Promise!Spec

(* A push that reclaims a block does not wait for ever, and a thief that   *)
(* loses its claim to others returns in the end.                           *)
CallsReturn == \A t \in Thieves \cup {Owner} : ~At(t, "idle") ~> At(t, "idle")
=============================================================================
