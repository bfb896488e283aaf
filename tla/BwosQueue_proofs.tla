--------------------------- MODULE BwosQueue_proofs ---------------------------
(***************************************************************************)
(* The invariants of BwosQueue, for any number of thieves, items and       *)
(* blocks of any size, and that it implements StealQueue.                  *)
(***************************************************************************)
EXTENDS BwosQueue, FiniteSetTheorems, TLAPS

(* Where the owner has granted the current block and goes on to the next,  *)
(* where that one is ready to be written, and where it goes back.          *)
Leaving == {"reclaim", "renew", "recount", "move_on"}
Fresh == {"renew", "recount", "move_on"}
Returning == {"reduce", "takeover", "move_back"}

(* The round in which the owner is in a block, or was there last; the      *)
(* blocks that may have queued items are those from start to last.         *)
Round(b) == IF b <= last.index THEN last.round ELSE last.round - 1
Within(b) == start.round < Round(b) \/ (start.round = Round(b) /\ start.index <= b)

(* A block that the owner works in, one that it granted to the thieves,    *)
(* and one in which nothing is left.                                       *)
Steals(b, round, index) == block[b].steal.round = round /\ block[b].steal.index = index
Heads(b, round, index) == block[b].head.round = round /\ block[b].head.index = index
Written(b) == Steals(b, Round(b), Size) /\ block[b].head.round = Round(b) /\ block[b].head.index <= block[b].tail
Granted(b) == block[b].steal.round = Round(b) /\ Heads(b, Round(b), Size) /\ block[b].tail = Size

CurrentInv ==
    LET b == last.index IN
    /\ pc[Owner] \in Leaving => Granted(b)
    /\ pc[Owner] \in {"takeover", "move_back"} => Steals(b, last.round - 1, Size)
    /\ pc[Owner] \notin Leaving \cup {"takeover", "move_back"} => Written(b)

OtherInv(b) ==
    /\ Within(b) => IF At(Owner, "move_back") /\ b = Preceding(last).index
                       THEN Written(b) /\ block[b].tail = Size
                       ELSE Granted(b)
    /\ ~Within(b) => IF pc[Owner] \in {"recount", "move_on"} /\ b = Following(last).index
                        THEN Steals(b, Following(last).round, Size)
                        ELSE Steals(b, Round(b), Size)

BlockInv == CurrentInv /\ \A b \in BlockIds \ {last.index} : OtherInv(b)

(* What the owner knows of the block it is in, and of the next one.        *)
OwnerInv ==
    /\ \/ start.round = last.round /\ start.index <= last.index
       \/ start.round = last.round - 1 /\ start.index > last.index
    /\ pc[Owner] \in {"advance", "grant"} => current.tail = Size
    /\ pc[Owner] \in {"grant"} \cup Leaving => Blocks > 1 /\ ~Within(Following(last).index)
    /\ pc[Owner] \in Returning => start # last /\ current.head.index = current.tail
    /\ Blocks = 1 => current.head.index = 0

FreshInv ==
    LET b == Following(last).index IN
    pc[Owner] \in Fresh => Heads(b, Following(last).round, 0) /\ block[b].tail = 0

Control == BlockInv /\ OwnerInv /\ FreshInv

(* A slot that was claimed is counted when it has been read; the claimed   *)
(* slots are below the next one to be claimed, or below where the owner    *)
(* ended the stealing.                                                     *)
Reader(t) == pc[t] \in {"read", "count"}
Readers(b) == {t \in Thieves : Reader(t) /\ thief[t].at.index = b}
Claimed(b) == IF block[b].steal.index < Size THEN block[b].steal.index ELSE block[b].head.index

Recounts(b) == pc[Owner] \in {"renew", "recount"} /\ b = Following(last).index
CountInv ==
    /\ pc[Owner] \in Fresh => Readers(Following(last).index) = {}
    /\ \A b \in BlockIds : Recounts(b) \/ block[b].count + Cardinality(Readers(b)) = Claimed(b)

Reading(t) ==
    LET b == thief[t].at.index
        s == thief[t].position.index
    IN  s \in Slots /\ s < Claimed(b) /\ thief[t].claim \in Items /\ block[b].ring[s] = thief[t].claim

ThiefInv ==
    \A t \in Thieves :
        /\ pc[t] \in {"check", "claim"} => thief[t].position.index # Size
        /\ Reader(t) => Reading(t)

(* The slots with queued items: these are all queued items, in the order   *)
(* of the blocks' rounds.                                                  *)
Working == IF At(Owner, "move_back") THEN Preceding(last).index ELSE last.index
Holds(b, s) ==
    IF block[b].steal.index < Size THEN block[b].steal.index <= s
                                   ELSE b = Working /\ block[b].head.index <= s /\ s < block[b].tail
Sooner(b, c) ==
    block[b].steal.round < block[c].steal.round \/ (block[b].steal.round = block[c].steal.round /\ b < c)

HeldInv == \A b \in BlockIds, s \in Slots : Holds(b, s) => block[b].ring[s] \in Queued
FoundInv == \A i \in Queued : \E b \in BlockIds, s \in Slots : Holds(b, s) /\ block[b].ring[s] = i
OrderInv ==
    \A b, c \in BlockIds, s, r \in Slots :
        Holds(b, s) /\ Holds(c, r) /\ (Sooner(b, c) \/ (b = c /\ s < r)) => block[b].ring[s] < block[c].ring[r]

PushedInv == \A i \in Items : taken[i] # 0 => i <= pushed /\ taken[i] = 1

ItemInv == HeldInv /\ FoundInv /\ OrderInv /\ PushedInv

IInv == TypeOK /\ Control /\ CountInv /\ ThiefInv /\ ItemInv

-----------------------------------------------------------------------------
(* Where the counters lead, and how steps change one thread's place or one *)
(* block.                                                                  *)
Counters == [round : Nat, index : BlockIds]
BlockState ==
    [head : Positions, tail : 0 .. Size, count : 0 .. Size, steal : Positions, ring : [Slots -> 0 .. NumItems]]
Threads == Thieves \cup {Owner}
Places ==
    {"idle", "put", "advance", "grant", "reclaim", "renew", "recount", "move_on", "get",
     "reduce", "takeover", "move_back", "load", "check", "claim", "read", "count", "next"}

Moves(t, where) == pc' \in [Threads -> Places] /\ pc'[t] = where /\ \A u \in Threads : u # t => pc'[u] = pc[u]
Changes(b) == block' \in [BlockIds -> BlockState] /\ \A c \in BlockIds : c # b => block'[c] = block[c]

LEMMA Constants ==
    /\ Blocks \in Nat \ {0} /\ Size \in Nat \ {0} /\ NumItems \in Nat
    /\ BlockIds = 0 .. Blocks - 1 /\ Slots = 0 .. Size - 1 /\ Items = 1 .. NumItems
    /\ Owner \notin Thieves /\ IsFiniteSet(Thieves)
BY BwosQueueAssumption DEF BlockIds, Slots, Items

LEMMA Known ==
    ASSUME TypeOK
    PROVE  /\ block \in [BlockIds -> BlockState]
           /\ \A b \in BlockIds :
                 /\ block[b] \in BlockState /\ block[b].tail \in 0 .. Size /\ block[b].count \in 0 .. Size
                 /\ block[b].head \in Positions /\ block[b].head.round \in Int /\ block[b].head.index \in 0 .. Size
                 /\ block[b].steal \in Positions /\ block[b].steal.round \in Int /\ block[b].steal.index \in 0 .. Size
                 /\ block[b].ring \in [Slots -> 0 .. NumItems]
           /\ last \in Counters /\ last.round \in Nat /\ last.index \in BlockIds
           /\ start \in Counters /\ start.round \in Nat /\ start.index \in BlockIds
           /\ pc \in [Threads -> Places] /\ Owner \in Threads
           /\ \A t \in Thieves : /\ t \in Threads /\ t # Owner /\ thief[t].at \in Counters
                                 /\ thief[t].at.index \in BlockIds /\ thief[t].position.index \in 0 .. Size
           /\ pushed \in 0 .. NumItems /\ taken \in [Items -> 0 .. 2]
BY Constants DEF TypeOK, BlockState, Positions, Counters, Threads, Places

LEMMA FollowingIs ==
    ASSUME NEW c \in Counters
    PROVE  /\ Following(c) \in Counters /\ Following(c).index \in BlockIds /\ Following(c).round \in Nat
           /\ c.index + 1 < Blocks => Following(c).index = c.index + 1 /\ Following(c).round = c.round
           /\ ~(c.index + 1 < Blocks) => Following(c).index = 0 /\ Following(c).round = c.round + 1
<1>1. c.round \in Nat /\ c.index \in Nat /\ c.index + 1 <= Blocks /\ Blocks \in Nat \ {0} /\ c.index \in BlockIds
  BY Constants DEF Counters
<1>2. (c.index + 1) % Blocks = IF c.index + 1 < Blocks THEN c.index + 1 ELSE 0
  BY <1>1
<1>3. QED BY <1>1, <1>2, Constants DEF Following, Counter, Counters

LEMMA PrecedingIs ==
    ASSUME NEW c \in Counters
    PROVE  /\ Preceding(c).index \in BlockIds
           /\ c.index = 0 => Preceding(c).index = Blocks - 1 /\ Preceding(c).round = c.round - 1
           /\ c.index # 0 => Preceding(c).index = c.index - 1 /\ Preceding(c).round = c.round
<1>1. c.round \in Nat /\ c.index \in Nat /\ c.index + 1 <= Blocks /\ Blocks \in Nat \ {0} /\ c.index \in BlockIds
  BY Constants DEF Counters
<1>2. c.index = 0 => (c.index + Blocks - 1) % Blocks = Blocks - 1
  BY <1>1
<1>3. c.index # 0 => (c.index + Blocks - 1) % Blocks = c.index - 1
  <2> SUFFICES ASSUME c.index # 0 PROVE (c.index + Blocks - 1) % Blocks = c.index - 1
    OBVIOUS
  <2> DEFINE d == c.index - 1
  <2>1. d \in Nat /\ d < Blocks /\ c.index + Blocks - 1 = d + Blocks
    BY <1>1
  <2> HIDE DEF d
  <2>2. (d + Blocks) % Blocks = d
    BY <1>1, <2>1
  <2>3. QED BY <2>1, <2>2 DEF d
<1>4. QED BY <1>1, <1>2, <1>3, Constants DEF Preceding, Counter, Counters

LEMMA Moved ==
    ASSUME TypeOK, NEW t \in Threads, NEW where \in Places, Goto(t, where)
    PROVE  Moves(t, where)
BY Known DEF Goto, Moves

LEMMA SetBlock ==
    ASSUME TypeOK, NEW b \in BlockIds, NEW q \in BlockState, block' = [block EXCEPT ![b] = q]
    PROVE  Changes(b) /\ block'[b] = q
BY Known DEF Changes

-----------------------------------------------------------------------------
(* What the owner's steps do to the block they change.                     *)
Keeps == UNCHANGED <<last, start, thief>>
SameRing(b) == block'[b].ring = block[b].ring
SameHead(b) == block'[b].head = block[b].head
SameSteal(b) == block'[b].steal = block[b].steal
SameTail(b) == block'[b].tail = block[b].tail
SameCount(b) == block'[b].count = block[b].count

LEMMA PutEffect ==
    ASSUME TypeOK, Put, HasRoom
    PROVE  LET b == last.index IN
           /\ Changes(b) /\ Moves(Owner, "idle") /\ Keeps
           /\ SameHead(b) /\ SameSteal(b) /\ SameCount(b) /\ block'[b].tail = block[b].tail + 1
           /\ block[b].tail \in Slots /\ block'[b].ring[block[b].tail] = pushed + 1
           /\ \A s \in Slots : s # block[b].tail => block'[b].ring[s] = block[b].ring[s]
           /\ pushed' = pushed + 1 /\ pushed < NumItems /\ taken' = taken
<1> DEFINE b == last.index
           q == [block[b] EXCEPT !.ring = [block[b].ring EXCEPT ![block[b].tail] = pushed + 1],
                                 !.tail = block[b].tail + 1]
<1>1. b \in BlockIds /\ block[b].tail \in Slots /\ pushed + 1 \in 0 .. NumItems
  BY SMTT(30), Known, Constants DEF Put, HasRoom, current
<1>a. block[b].tail + 1 \in 0 .. Size
  BY <1>1, Constants
<1>b. [block[b].ring EXCEPT ![block[b].tail] = pushed + 1] \in [Slots -> 0 .. NumItems]
  BY <1>1, Known
<1>2. q \in BlockState
  BY Known, <1>1, <1>a, <1>b DEF BlockState
<1>3. block' = [block EXCEPT ![b] = q]
  BY Known, <1>1 DEF Put, HasRoom, current, BlockState
<1>4. Changes(b) /\ block'[b] = q
  <2> HIDE DEF q
  <2> QED BY <1>1, <1>2, <1>3, SetBlock
<1>5. Moves(Owner, "idle")
  BY Moved, Known DEF Put, Places
<1>6. QED BY <1>1, <1>4, <1>5, Known DEF Put, Keeps, SameHead, SameSteal, SameCount, BlockState

LEMMA GrantEffect ==
    ASSUME TypeOK, Grant
    PROVE  LET b == last.index IN
           /\ Changes(b) /\ Moves(Owner, "reclaim") /\ Keeps /\ UNCHANGED <<pushed, taken>>
           /\ block'[b].head = block[b].steal /\ block'[b].steal = block[b].head
           /\ SameTail(b) /\ SameCount(b) /\ SameRing(b)
<1> DEFINE b == last.index
           q == [block[b] EXCEPT !.head = block[b].steal, !.steal = block[b].head]
<1>1. b \in BlockIds /\ q \in BlockState
  BY Known DEF BlockState
<1>2. block' = [block EXCEPT ![b] = q]
  BY Known, <1>1 DEF Grant, current, BlockState
<1>3. Changes(b) /\ block'[b] = q
  <2> HIDE DEF q
  <2> QED BY <1>1, <1>2, SetBlock
<1>4. Moves(Owner, "reclaim")
  BY Moved, Known DEF Grant, Places
<1>5. QED BY <1>1, <1>3, <1>4, Known DEF Grant, Keeps, SameTail, SameCount, SameRing, BlockState

LEMMA ReclaimEffect ==
    ASSUME TypeOK, Reclaim
    PROVE  LET b == Following(last).index IN
           /\ Changes(b) /\ Moves(Owner, "renew") /\ Keeps /\ UNCHANGED <<pushed, taken>>
           /\ block'[b].head.round = Following(last).round /\ block'[b].head.index = 0 /\ block'[b].tail = 0
           /\ SameSteal(b) /\ SameCount(b) /\ SameRing(b)
<1> DEFINE b == Following(last).index
           q == [block[b] EXCEPT !.head = Counter(Following(last).round, 0), !.tail = 0]
<1>0. b \in BlockIds /\ Following(last).round \in Nat
  BY Known, FollowingIs
<1>a. 0 \in 0 .. Size /\ Counter(Following(last).round, 0) \in Positions
  BY <1>0, Constants DEF Positions, Counter
<1>1. q \in BlockState
  BY <1>0, <1>a, Known DEF BlockState
<1>2. block' = [block EXCEPT ![b] = q]
  BY Known, <1>0 DEF Reclaim, BlockState
<1>3. Changes(b) /\ block'[b] = q
  <2> HIDE DEF q
  <2> QED BY <1>0, <1>1, <1>2, SetBlock
<1>4. Moves(Owner, "renew")
  BY Moved, Known DEF Reclaim, Places
<1>5. QED BY <1>0, <1>3, <1>4, Known DEF Reclaim, Keeps, SameSteal, SameCount, SameRing, BlockState, Counter

LEMMA RenewEffect ==
    ASSUME TypeOK, Renew
    PROVE  LET b == Following(last).index IN
           /\ Changes(b) /\ Moves(Owner, "recount") /\ Keeps /\ UNCHANGED <<pushed, taken>>
           /\ block'[b].steal.round = Following(last).round /\ block'[b].steal.index = Size
           /\ SameHead(b) /\ SameTail(b) /\ SameCount(b) /\ SameRing(b)
<1> DEFINE b == Following(last).index
           q == [block[b] EXCEPT !.steal = Counter(Following(last).round, Size)]
<1>0. b \in BlockIds /\ Following(last).round \in Nat
  BY Known, FollowingIs
<1>a. Counter(Following(last).round, Size) \in Positions
  BY <1>0, Constants DEF Positions, Counter
<1>1. q \in BlockState
  BY <1>0, <1>a, Known DEF BlockState
<1>2. block' = [block EXCEPT ![b] = q]
  BY Known, <1>0 DEF Renew, BlockState
<1>3. Changes(b) /\ block'[b] = q
  <2> HIDE DEF q
  <2> QED BY <1>0, <1>1, <1>2, SetBlock
<1>4. Moves(Owner, "recount")
  BY Moved, Known DEF Renew, Places
<1>5. QED BY <1>0, <1>3, <1>4, Known DEF Renew, Keeps, SameHead, SameTail, SameCount, SameRing, BlockState, Counter

LEMMA RecountEffect ==
    ASSUME TypeOK, Recount
    PROVE  LET b == Following(last).index IN
           /\ Changes(b) /\ Moves(Owner, "move_on") /\ Keeps /\ UNCHANGED <<pushed, taken>>
           /\ block'[b].count = 0
           /\ SameHead(b) /\ SameTail(b) /\ SameSteal(b) /\ SameRing(b)
<1> DEFINE b == Following(last).index
           q == [block[b] EXCEPT !.count = 0]
<1>0. b \in BlockIds
  BY Known, FollowingIs
<1>a. 0 \in 0 .. Size
  BY <1>0, Known, Constants
<1>1. q \in BlockState
  BY <1>0, <1>a, Known DEF BlockState
<1>2. block' = [block EXCEPT ![b] = q]
  BY Known, <1>0 DEF Recount, Recounted, BlockState
<1>3. Changes(b) /\ block'[b] = q
  <2> HIDE DEF q
  <2> QED BY <1>0, <1>1, <1>2, SetBlock
<1>4. Moves(Owner, "move_on")
  BY Moved, Known DEF Recount, Places
<1>5. QED BY <1>0, <1>3, <1>4, Known DEF Recount, Keeps, SameHead, SameTail, SameSteal, SameRing, BlockState

LEMMA GetEffect ==
    ASSUME TypeOK, Get, ~Empty
    PROVE  LET b == last.index IN
           /\ Changes(b) /\ Moves(Owner, "idle") /\ Keeps
           /\ SameHead(b) /\ SameSteal(b) /\ SameCount(b) /\ SameRing(b)
           /\ block[b].tail # 0 /\ block'[b].tail = block[b].tail - 1
           /\ pushed' = pushed /\ Take(block[b].ring[block[b].tail - 1])
<1> DEFINE b == last.index
           q == [block[b] EXCEPT !.tail = block[b].tail - 1]
<1>0. b \in BlockIds /\ block[b].tail # 0
  BY Known DEF Empty, current
<1>a. block[b].tail - 1 \in 0 .. Size
  BY SMTT(30), <1>0, Known, Constants
<1>1. q \in BlockState
  BY <1>0, <1>a, Known DEF BlockState
<1>2. block' = [block EXCEPT ![b] = q]
  BY Known, <1>0 DEF Get, BlockState, current
<1>3. Changes(b) /\ block'[b] = q
  <2> HIDE DEF q
  <2> QED BY <1>0, <1>1, <1>2, SetBlock
<1>4. Moves(Owner, "idle")
  BY Moved, Known DEF Get, Places
<1>5. QED BY <1>0, <1>3, <1>4, Known DEF Get, current, Keeps, SameHead, SameSteal, SameCount, SameRing, BlockState

LEMMA ReduceEffect ==
    ASSUME TypeOK, ReduceRound
    PROVE  LET b == last.index IN
           /\ Changes(b) /\ Moves(Owner, "takeover") /\ Keeps /\ UNCHANGED <<pushed, taken>>
           /\ block'[b].steal.round = block[b].steal.round - 1 /\ block'[b].steal.index = block[b].steal.index
           /\ SameHead(b) /\ SameTail(b) /\ SameCount(b) /\ SameRing(b)
<1> DEFINE b == last.index
           q == [block[b] EXCEPT !.steal = Counter(block[b].steal.round - 1, block[b].steal.index)]
<1>0. b \in BlockIds
  BY Known
<1>1. q \in BlockState
  BY <1>0, Known DEF BlockState, Positions, Counter
<1>2. block' = [block EXCEPT ![b] = q]
  BY Known, <1>0 DEF ReduceRound, Reduced, BlockState
<1>3. Changes(b) /\ block'[b] = q
  <2> HIDE DEF q
  <2> QED BY <1>0, <1>1, <1>2, SetBlock
<1>4. Moves(Owner, "takeover")
  BY Moved, Known DEF ReduceRound, Places
<1>5. QED BY <1>0, <1>3, <1>4, Known DEF ReduceRound, Keeps, SameHead, SameTail, SameCount, SameRing, BlockState, Counter

LEMMA TakeoverEffect ==
    ASSUME TypeOK, Takeover
    PROVE  LET b == Preceding(last).index IN
           /\ Changes(b) /\ Moves(Owner, "move_back") /\ Keeps /\ UNCHANGED <<pushed, taken>>
           /\ block'[b].head = block[b].steal /\ block'[b].steal = block[b].head
           /\ SameTail(b) /\ SameCount(b) /\ SameRing(b)
<1> DEFINE b == Preceding(last).index
           q == [block[b] EXCEPT !.steal = block[b].head, !.head = block[b].steal]
<1>0. b \in BlockIds
  BY Known, PrecedingIs
<1>1. q \in BlockState
  BY <1>0, Known DEF BlockState
<1>2. block' = [block EXCEPT ![b] = q]
  BY Known, <1>0 DEF Takeover, TakenOver, BlockState
<1>3. Changes(b) /\ block'[b] = q
  <2> HIDE DEF q
  <2> QED BY <1>0, <1>1, <1>2, SetBlock
<1>4. Moves(Owner, "move_back")
  BY Moved, Known DEF Takeover, Places
<1>5. QED BY <1>0, <1>3, <1>4, Known DEF Takeover, Keeps, SameTail, SameCount, SameRing, BlockState

(* And what the thieves' steps do.                                         *)
LEMMA ClaimEffect ==
    ASSUME TypeOK, NEW t \in Thieves, Claim(t), Target(t).steal = thief[t].position,
           thief[t].position.index # Size
    PROVE  LET b == thief[t].at.index
               s == thief[t].position.index IN
           /\ Changes(b) /\ Moves(t, "read") /\ UNCHANGED <<last, start, pushed>>
           /\ b \in BlockIds /\ s \in Slots /\ block[b].steal.index = s
           /\ block'[b].steal.round = block[b].steal.round /\ block'[b].steal.index = s + 1
           /\ SameHead(b) /\ SameTail(b) /\ SameCount(b) /\ SameRing(b)
           /\ Take(block[b].ring[s])
           /\ thief' = [thief EXCEPT ![t].claim = block[b].ring[s]]
<1> DEFINE b == thief[t].at.index
           s == thief[t].position.index
           q == [block[b] EXCEPT !.steal = [block[b].steal EXCEPT !.index = s + 1]]
<1>0. b \in BlockIds /\ s \in Slots /\ block[b].steal.index = s
  BY Known, Constants DEF Target
<1>a. s + 1 \in 0 .. Size
  BY <1>0, Constants
<1>b. [block[b].steal EXCEPT !.index = s + 1] \in Positions
  BY <1>0, <1>a, Known DEF Positions
<1>1. q \in BlockState
  BY <1>0, <1>b, Known DEF BlockState
<1>2. block' = [block EXCEPT ![b] = q]
  BY Known, <1>0 DEF Claim, BlockState, Positions
<1>3. Changes(b) /\ block'[b] = q
  <2> HIDE DEF q
  <2> QED BY <1>0, <1>1, <1>2, SetBlock
<1>4. Moves(t, "read")
  BY Moved, Known DEF Claim, Places
<1>5. block'[b].steal.round = block[b].steal.round /\ block'[b].steal.index = s + 1
  <2> DEFINE st == [block[b].steal EXCEPT !.index = s + 1]
  <2>1. block[b].steal \in [round : Int, index : 0 .. Size]
    BY <1>0, Known DEF Positions
  <2>2. st.round = block[b].steal.round /\ st.index = s + 1
    BY <2>1
  <2> HIDE DEF st
  <2>3. block[b] \in [head : Positions, tail : 0 .. Size, count : 0 .. Size, steal : Positions,
                      ring : [Slots -> 0 .. NumItems]]
    BY <1>0, Known DEF BlockState
  <2>4. block'[b].steal = st
    BY <1>3, <2>3 DEF st
  <2>5. QED BY <2>2, <2>4
<1>6. SameHead(b) /\ SameTail(b) /\ SameCount(b) /\ SameRing(b)
  BY <1>0, <1>3, Known DEF SameHead, SameTail, SameCount, SameRing, BlockState
<1>7. /\ UNCHANGED <<last, start, pushed>> /\ Take(block[b].ring[s])
      /\ thief' = [thief EXCEPT ![t].claim = block[b].ring[s]]
  BY DEF Claim
<1>8. QED BY <1>0, <1>3, <1>4, <1>5, <1>6, <1>7

LEMMA CountEffect ==
    ASSUME TypeOK, NEW t \in Thieves, CountRead(t), block[thief[t].at.index].count < Size
    PROVE  LET b == thief[t].at.index IN
           /\ b \in BlockIds /\ Changes(b) /\ Moves(t, "idle") /\ UNCHANGED <<last, start, pushed, taken>>
           /\ block'[b].count = block[b].count + 1
           /\ SameHead(b) /\ SameTail(b) /\ SameSteal(b) /\ SameRing(b)
           /\ thief' = [thief EXCEPT ![t] = NoThief]
<1> DEFINE b == thief[t].at.index
           q == [block[b] EXCEPT !.count = block[b].count + 1]
<1>0. b \in BlockIds
  BY Known
<1>a. block[b].count + 1 \in 0 .. Size
  <2>1. block[b].count \in 0 .. Size /\ block[b].count < Size
    BY <1>0, Known
  <2>2. Size \in Nat
    BY Constants
  <2>3. QED BY <2>1, <2>2
<1>1. q \in BlockState
  BY <1>0, <1>a, Known DEF BlockState
<1>2. block' = [block EXCEPT ![b] = q]
  BY Known, <1>0 DEF CountRead, BlockState
<1>3. Changes(b) /\ block'[b] = q
  <2> HIDE DEF q
  <2> QED BY <1>0, <1>1, <1>2, SetBlock
<1>4. Moves(t, "idle")
  BY Moved, Known DEF CountRead, Return, Places
<1>5. QED BY <1>0, <1>3, <1>4, Known DEF CountRead, Return, SameHead, SameTail, SameSteal, SameRing, BlockState

-----------------------------------------------------------------------------
(* The rounds of the blocks, and how they change when the owner moves.     *)
LEMMA Lap ==
    ASSUME TypeOK
    PROVE  LET F == Following(last).index
               P == Preceding(last).index IN
           /\ F \in BlockIds /\ P \in BlockIds
           /\ \A b \in BlockIds : Round(b) \in Int
           /\ Round(last.index) = last.round
           /\ Blocks > 1 => F # last.index /\ Round(F) = Following(last).round - 1
           /\ Blocks > 1 => P # last.index /\ Round(P) = Preceding(last).round
<1>1. last \in Counters /\ last.round \in Nat /\ last.index \in 0 .. Blocks - 1 /\ Blocks \in Nat \ {0}
  BY Known, Constants
<1> DEFINE L == last.index
           F == Following(last).index
           P == Preceding(last).index
<1>2. /\ F \in BlockIds /\ Following(last).round \in Nat
      /\ L + 1 < Blocks => F = L + 1 /\ Following(last).round = last.round
      /\ ~(L + 1 < Blocks) => F = 0 /\ Following(last).round = last.round + 1
  BY <1>1, FollowingIs
<1>3. /\ P \in BlockIds
      /\ L = 0 => P = Blocks - 1 /\ Preceding(last).round = last.round - 1
      /\ L # 0 => P = L - 1 /\ Preceding(last).round = last.round
  BY <1>1, PrecedingIs
<1>4. \A b \in BlockIds : Round(b) \in Int
  BY <1>1, Constants DEF Round
<1>5. Round(L) = last.round
  BY <1>1 DEF Round
<1>6. Blocks > 1 => F # L /\ Round(F) = Following(last).round - 1
  BY <1>1, <1>2 DEF Round
<1>7. Blocks > 1 => P # L /\ Round(P) = Preceding(last).round
  BY <1>1, <1>3 DEF Round
<1>8. QED BY <1>2, <1>3, <1>4, <1>5, <1>6, <1>7

LEMMA MovesOn ==
    ASSUME TypeOK, last' = Following(last), Blocks > 1
    PROVE  \A b \in BlockIds :
              Round(b)' = IF b = Following(last).index THEN Following(last).round ELSE Round(b)
<1>1. last \in Counters /\ last.round \in Nat /\ last.index \in 0 .. Blocks - 1 /\ Blocks \in Nat \ {0}
  BY Known, Constants
<1> DEFINE L == last.index
           F == Following(last).index
<1>2. /\ F \in BlockIds /\ Following(last).round \in Nat
      /\ L + 1 < Blocks => F = L + 1 /\ Following(last).round = last.round
      /\ ~(L + 1 < Blocks) => F = 0 /\ Following(last).round = last.round + 1
  BY <1>1, FollowingIs
<1> SUFFICES ASSUME NEW b \in BlockIds
             PROVE  Round(b)' = IF b = F THEN Following(last).round ELSE Round(b)
  OBVIOUS
<1>3. b \in 0 .. Blocks - 1
  BY Constants
<1>4. Round(b)' = IF b <= F THEN Following(last).round ELSE Following(last).round - 1
  BY DEF Round
<1> HIDE DEF F
<1>5. QED BY <1>1, <1>2, <1>3, <1>4 DEF Round

LEMMA MovesBack ==
    ASSUME TypeOK, last' = Preceding(last), Blocks > 1
    PROVE  \A b \in BlockIds :
              Round(b)' = IF b = last.index THEN last.round - 1 ELSE Round(b)
<1>1. last \in Counters /\ last.round \in Nat /\ last.index \in 0 .. Blocks - 1 /\ Blocks \in Nat \ {0}
  BY Known, Constants
<1>2. QED BY <1>1, PrecedingIs, Constants DEF Round

(* The counters of a block, as far as the blocks' invariants need them.    *)
Unmoved(b) ==
    /\ SameHead(b) /\ SameTail(b) /\ block'[b].steal.round = block[b].steal.round
    /\ block[b].steal.index < Size \/ block'[b].steal.index = block[b].steal.index

LEMMA Stays ==
    ASSUME TypeOK, UNCHANGED <<last, start>>
    PROVE  /\ \A b \in BlockIds : Round(b)' = Round(b) /\ Within(b)' = Within(b)
           /\ Following(last)' = Following(last) /\ Preceding(last)' = Preceding(last)
BY DEF Round, Within, Following, Preceding, Counter

LEMMA UnmovedBlock ==
    ASSUME TypeOK, UNCHANGED <<last, start>>, NEW b \in BlockIds, Unmoved(b)
    PROVE  /\ Granted(b) => Granted(b)'
           /\ Written(b) => Written(b)'
           /\ \A r \in Int : Steals(b, r, Size) => Steals(b, r, Size)'
           /\ \A r \in Int, i \in Int : Heads(b, r, i) => Heads(b, r, i)'
BY SMTT(30), Stays, Known, Constants DEF Unmoved, Granted, Written, Steals, Heads, SameHead, SameTail

(* The thieves do not disturb what the owner knows.                        *)
LEMMA ControlKept ==
    ASSUME TypeOK, Control, UNCHANGED <<last, start>>, pc'[Owner] = pc[Owner],
           \A b \in BlockIds : Unmoved(b)
    PROVE  Control'
<1>1. \A b \in BlockIds : Round(b) \in Int
  BY Lap
<1>2. last.index \in BlockIds /\ last.round \in Nat /\ Following(last) \in Counters /\ Following(last).index \in BlockIds /\ Following(last).round \in Nat
  BY Known, FollowingIs
<1>3. CurrentInv'
  BY <1>1, <1>2, UnmovedBlock, Constants DEF Control, BlockInv, CurrentInv
<1>4. ASSUME NEW b \in BlockIds, b # last.index
      PROVE  OtherInv(b)'
  <2>1. OtherInv(b)
    BY <1>4 DEF Control, BlockInv
  <2>2. QED
    BY <1>1, <1>2, <2>1, Stays, UnmovedBlock, Constants DEF OtherInv, At, Unmoved, SameTail
<1>5. OwnerInv'
  BY <1>2, Stays DEF Control, OwnerInv, current, Unmoved, SameHead, SameTail
<1>6. FreshInv'
  BY <1>2, Stays, UnmovedBlock DEF Control, FreshInv, Unmoved, SameTail
<1>7. QED BY <1>3, <1>4, <1>5, <1>6 DEF Control, BlockInv

-----------------------------------------------------------------------------
(* The owner's steps keep what it knows of the blocks.                     *)
Settled == {"idle", "put", "get", "advance", "grant", "reduce"}

LEMMA OtherBlocks ==
    ASSUME TypeOK, Control, UNCHANGED <<last, start>>, NEW b \in BlockIds \ {last.index}, Unmoved(b),
           At(Owner, "move_back")' = At(Owner, "move_back") \/ b # Preceding(last).index,
           (pc[Owner] \in {"recount", "move_on"})' = (pc[Owner] \in {"recount", "move_on"})
              \/ b # Following(last).index
    PROVE  OtherInv(b)'
<1>1. OtherInv(b) /\ Round(b) \in Int /\ Following(last).round \in Int
  BY Lap, Known, FollowingIs DEF Control, BlockInv
<1>2. QED BY <1>1, Stays, UnmovedBlock DEF OtherInv, At, Unmoved, SameTail

LEMMA ControlPut ==
    ASSUME TypeOK, Control, Put
    PROVE  Control'
<1>1. pc[Owner] \in {"idle", "put"} /\ UNCHANGED <<last, start>> /\ last.index \in BlockIds
  BY Known DEF Put
<1>2. CASE HasRoom
  <2> DEFINE L == last.index
  <2>1. /\ Changes(L) /\ pc'[Owner] = "idle" /\ SameHead(L) /\ SameSteal(L)
        /\ block'[L].tail = block[L].tail + 1
    BY <1>2, PutEffect, Known DEF Moves
  <2>2. \A b \in BlockIds \ {L} : OtherInv(b)'
    BY <1>1, <2>1, OtherBlocks DEF Changes, Unmoved, SameHead, SameTail, At
  <2>3. Written(L)'
    BY <1>1, <2>1, Stays, Known DEF Control, BlockInv, CurrentInv, Leaving, Written, Steals, SameHead, SameSteal
  <2>4. QED
    BY <1>1, <2>1, <2>2, <2>3
    DEF Control, BlockInv, CurrentInv, OwnerInv, FreshInv, Leaving, Fresh, Returning, current, SameHead
<1>3. CASE ~HasRoom
  <2>1. block' = block /\ pc'[Owner] = "advance" /\ current.tail = Size
    BY <1>1, <1>3, Known, Constants DEF Put, HasRoom, Goto, current
  <2>2. \A b \in BlockIds \ {last.index} : OtherInv(b)'
    BY <1>1, <2>1, OtherBlocks DEF Unmoved, SameHead, SameTail, At
  <2>3. Written(last.index)'
    BY <1>1, <2>1, Stays DEF Control, BlockInv, CurrentInv, Leaving, Written, Steals
  <2>4. QED
    BY <1>1, <2>1, <2>2, <2>3
    DEF Control, BlockInv, CurrentInv, OwnerInv, FreshInv, Leaving, Fresh, Returning, current
<1>4. QED BY <1>2, <1>3

LEMMA ControlGet ==
    ASSUME TypeOK, Control, Get
    PROVE  Control'
<1>1. pc[Owner] \in {"idle", "get"} /\ UNCHANGED <<last, start>> /\ last.index \in BlockIds
  BY Known DEF Get
<1> DEFINE L == last.index
<1>a. Written(L) /\ (Blocks = 1 => block[L].head.index = 0)
  BY <1>1 DEF Control, BlockInv, CurrentInv, OwnerInv, Leaving, current
<1>2. CASE ~Empty
  <2>1. /\ Changes(L) /\ pc'[Owner] = "idle" /\ SameHead(L) /\ SameSteal(L)
        /\ block'[L].tail = block[L].tail - 1
    BY <1>2, GetEffect, Known DEF Moves
  <2>2. \A b \in BlockIds \ {L} : OtherInv(b)'
    BY <1>1, <2>1, OtherBlocks DEF Changes, Unmoved, SameHead, SameTail, At
  <2>3. Written(L)'
    <3>1. block[L].head.index # block[L].tail
      BY <1>2 DEF Empty, current
    <3>2. block[L].head.index \in 0 .. Size /\ block[L].tail \in 0 .. Size /\ Size \in Nat
      BY <1>1, Known, Constants
    <3>3. block'[L].head.index <= block'[L].tail
      BY <1>a, <2>1, <3>1, <3>2 DEF Written, SameHead
    <3>4. Round(L)' = Round(L)
      BY <1>1, Stays
    <3>5. QED BY <1>1, <1>a, <2>1, <3>3, <3>4 DEF Written, Steals, SameHead, SameSteal
  <2>4. QED
    BY <1>1, <2>1, <2>2, <2>3
    DEF Control, BlockInv, CurrentInv, OwnerInv, FreshInv, Leaving, Fresh, Returning, current, SameHead
<1>3. CASE Empty
  <2>1. block' = block /\ pc'[Owner] = IF start = last THEN "idle" ELSE "reduce"
    BY <1>1, <1>3, Known DEF Get, Goto
  <2>2. \A b \in BlockIds \ {last.index} : OtherInv(b)'
    BY <1>1, <2>1, OtherBlocks DEF Unmoved, SameHead, SameTail, At
  <2>3. Written(last.index)'
    BY <1>1, <1>a, <2>1, Stays DEF Written, Steals
  <2>4. block[L].head.index = block[L].tail
    BY <1>1, <1>3, <1>a, Known DEF Empty, current, Written
  <2>5. QED
    BY <1>1, <2>1, <2>2, <2>3, <2>4
    DEF Control, BlockInv, CurrentInv, OwnerInv, FreshInv, Leaving, Fresh, Returning, current
<1>4. QED BY <1>2, <1>3

(* The block to be reused is not among those that may have items: if it is *)
(* the first of them, the queue's front moves off it.                      *)
LEMMA FrontMoves ==
    ASSUME TypeOK, Control, Blocks > 1, UNCHANGED last,
           start' = IF Following(last).index = start.index THEN Following(start) ELSE start
    PROVE  /\ ~Within(Following(last).index)'
           /\ \A b \in BlockIds : b # Following(last).index => Within(b)' = Within(b)
           /\ \/ start'.round = last.round /\ start'.index <= last.index
              \/ start'.round = last.round - 1 /\ start'.index > last.index
<1> DEFINE L == last.index
           F == Following(last).index
           G == Following(start)
<1>1. /\ last.round \in Nat /\ start.round \in Nat /\ L \in 0 .. Blocks - 1 /\ start.index \in 0 .. Blocks - 1
      /\ last \in Counters /\ start \in Counters /\ Blocks \in Nat \ {0}
  BY Known, Constants
<1>2. /\ F \in BlockIds
      /\ L + 1 < Blocks => F = L + 1
      /\ ~(L + 1 < Blocks) => F = 0
  BY <1>1, FollowingIs
<1>3. /\ G \in Counters
      /\ start.index + 1 < Blocks => G.index = start.index + 1 /\ G.round = start.round
      /\ ~(start.index + 1 < Blocks) => G.index = 0 /\ G.round = start.round + 1
  BY <1>1, FollowingIs
<1>4. \/ start.round = last.round /\ start.index <= L
      \/ start.round = last.round - 1 /\ start.index > L
  BY DEF Control, OwnerInv
<1>5. \A b \in BlockIds : Round(b)' = Round(b) /\ b \in 0 .. Blocks - 1
  BY Constants DEF Round
<1>9. F' = F
  BY DEF Following, Counter
<1>6. CASE F = start.index
  <2>1. start' = G
    BY <1>6
  <2> HIDE DEF F, G
  <2>2. \/ start'.round = last.round /\ start'.index <= L
        \/ start'.round = last.round - 1 /\ start'.index > L
    BY <1>1, <1>2, <1>3, <1>4, <1>6, <2>1
  <2>3. ~Within(F)'
    BY <1>1, <1>2, <1>3, <1>4, <1>5, <1>6, <1>9, <2>1 DEF Within, Round
  <2>4. ASSUME NEW b \in BlockIds, b # F PROVE Within(b)' = Within(b)
    <3>1. b \in 0 .. Blocks - 1 /\ b # start.index
      BY <1>5, <1>6, <2>4
    <3>2. CASE b <= L
      BY <1>1, <1>2, <1>3, <1>4, <1>5, <1>6, <2>1, <3>1, <3>2 DEF Within, Round
    <3>3. CASE b > L
      BY <1>1, <1>2, <1>3, <1>4, <1>5, <1>6, <2>1, <3>1, <3>3 DEF Within, Round
    <3>4. QED BY <1>1, <3>1, <3>2, <3>3
  <2>5. QED BY <2>2, <2>3, <2>4 DEF F
<1>7. CASE F # start.index
  <2>1. start' = start
    BY <1>7
  <2> HIDE DEF F
  <2>2. ~Within(F)
    BY <1>1, <1>2, <1>4, <1>7 DEF Within, Round
  <2>3. \A b \in BlockIds : Within(b)' = Within(b)
    BY <1>5, <2>1 DEF Within
  <2>4. QED BY <1>2, <1>4, <2>1, <2>2, <2>3 DEF F
<1>8. QED BY <1>6, <1>7

LEMMA ControlAdvance ==
    ASSUME TypeOK, Control, Advance
    PROVE  Control'
<1> DEFINE L == last.index
           F == Following(last).index
<1>1. /\ At(Owner, "advance") /\ UNCHANGED <<block, last>> /\ L \in BlockIds
      /\ current.tail = Size /\ Written(L)
  BY Known DEF Advance, Control, OwnerInv, BlockInv, CurrentInv, At, Leaving
<1>2. CASE MayAdvance
  <2>1. /\ Blocks > 1 /\ pc'[Owner] = "grant" /\ Steals(F, Round(F), Size) /\ F \in BlockIds /\ F # L
        /\ start' = IF Following(last).index = start.index THEN Following(start) ELSE start
    BY <1>1, <1>2, Known, Lap DEF Advance, MayAdvance, IsWritable, Counter, Steals, Goto
  <2>2. \A b \in BlockIds : Round(b)' = Round(b)
    BY <1>1 DEF Round
  <2>3. /\ ~Within(F)' /\ \A b \in BlockIds : b # F => Within(b)' = Within(b)
        /\ \/ start'.round = last.round /\ start'.index <= last.index
           \/ start'.round = last.round - 1 /\ start'.index > last.index
    BY <1>1, <2>1, FrontMoves
  <2>4. Written(L)'
    BY <1>1, <2>2 DEF Written, Steals
  <2>5. ASSUME NEW b \in BlockIds, b # L PROVE OtherInv(b)'
    <3>1. OtherInv(b)
      BY <2>5 DEF Control, BlockInv
    <3>2. CASE b = F
      BY <1>1, <2>1, <2>2, <2>3, <3>2 DEF OtherInv, Steals, At
    <3>3. CASE b # F
      BY <1>1, <2>1, <2>2, <2>3, <3>1, <3>3 DEF OtherInv, Steals, Granted, Heads, At
    <3>4. QED BY <3>2, <3>3
  <2>6. (Following(last).index)' = F
    BY <1>1 DEF Following, Counter
  <2>7. QED
    BY <1>1, <2>1, <2>3, <2>4, <2>5, <2>6
    DEF Control, BlockInv, CurrentInv, OwnerInv, FreshInv, Leaving, Fresh, Returning, current, At
<1>3. CASE ~MayAdvance
  <2>1. start' = start /\ pc'[Owner] = "idle"
    BY <1>1, <1>3, Known DEF Advance, Goto
  <2>2. \A b \in BlockIds \ {last.index} : OtherInv(b)'
    BY <1>1, <2>1, OtherBlocks DEF Unmoved, SameHead, SameTail, At
  <2>3. Written(last.index)'
    BY <1>1, <2>1, Stays DEF Written, Steals
  <2>4. QED
    BY <1>1, <2>1, <2>2, <2>3
    DEF Control, BlockInv, CurrentInv, OwnerInv, FreshInv, Leaving, Fresh, Returning, current, At
<1>4. QED BY <1>2, <1>3

LEMMA ControlGrant ==
    ASSUME TypeOK, Control, Grant
    PROVE  Control'
<1> DEFINE L == last.index
           F == Following(last).index
<1>1. At(Owner, "grant") /\ UNCHANGED <<last, start>> /\ L \in BlockIds
  BY Known DEF Grant
<1>2. /\ Changes(L) /\ pc'[Owner] = "reclaim" /\ block'[L].tail = block[L].tail
      /\ block'[L].head = block[L].steal /\ block'[L].steal = block[L].head
  BY GrantEffect, Known DEF Moves, SameTail
<1>3. Written(L) /\ block[L].tail = Size /\ Blocks > 1 /\ ~Within(F) /\ F \in BlockIds
  BY <1>1, Lap DEF Control, BlockInv, CurrentInv, OwnerInv, Leaving, current, At
<1>4. \A b \in BlockIds \ {L} : OtherInv(b)'
  BY <1>1, <1>2, OtherBlocks DEF Changes, Unmoved, SameHead, SameTail, At
<1>5. Granted(L)'
  BY <1>1, <1>2, <1>3, Stays DEF Written, Granted, Steals, Heads
<1>6. QED
  BY <1>1, <1>2, <1>3, <1>4, <1>5, Stays
  DEF Control, BlockInv, CurrentInv, OwnerInv, FreshInv, Leaving, Fresh, Returning, At

LEMMA ControlReclaim ==
    ASSUME TypeOK, Control, Reclaim
    PROVE  Control'
<1> DEFINE L == last.index
           F == Following(last).index
<1>1. At(Owner, "reclaim") /\ UNCHANGED <<last, start>> /\ L \in BlockIds /\ F \in BlockIds
  BY Known, Lap DEF Reclaim
<1>2. /\ Changes(F) /\ pc'[Owner] = "renew" /\ block'[F].tail = 0 /\ SameSteal(F)
      /\ block'[F].head.round = Following(last).round /\ block'[F].head.index = 0
  BY ReclaimEffect, Known DEF Moves
<1>3. Granted(L) /\ Blocks > 1 /\ ~Within(F) /\ F # L /\ OtherInv(F)
  BY <1>1, Lap DEF Control, BlockInv, CurrentInv, OwnerInv, Leaving, At
<1>4. \A b \in BlockIds \ {L, F} : OtherInv(b)'
  BY <1>1, <1>2, OtherBlocks DEF Changes, Unmoved, SameHead, SameTail, At
<1>5. Granted(L)'
  BY <1>1, <1>2, <1>3, UnmovedBlock DEF Changes, Unmoved, SameHead, SameTail
<1>6. OtherInv(F)'
  BY <1>1, <1>2, <1>3, Stays DEF OtherInv, Steals, SameSteal, At
<1>7. FreshInv'
  BY <1>1, <1>2, Stays DEF FreshInv, Heads
<1>8. QED
  BY <1>1, <1>2, <1>3, <1>4, <1>5, <1>6, <1>7, Stays
  DEF Control, BlockInv, CurrentInv, OwnerInv, Leaving, Returning, At

LEMMA ControlRenew ==
    ASSUME TypeOK, Control, Renew
    PROVE  Control'
<1> DEFINE L == last.index
           F == Following(last).index
<1>1. At(Owner, "renew") /\ UNCHANGED <<last, start>> /\ L \in BlockIds /\ F \in BlockIds
  BY Known, Lap DEF Renew
<1>2. /\ Changes(F) /\ pc'[Owner] = "recount" /\ SameHead(F) /\ SameTail(F)
      /\ block'[F].steal.round = Following(last).round /\ block'[F].steal.index = Size
  BY RenewEffect, Known DEF Moves
<1>3. Granted(L) /\ Blocks > 1 /\ ~Within(F) /\ F # L
  BY <1>1, Lap DEF Control, BlockInv, CurrentInv, OwnerInv, Leaving, At
<1>4. \A b \in BlockIds \ {L, F} : OtherInv(b)'
  BY <1>1, <1>2, OtherBlocks DEF Changes, Unmoved, SameHead, SameTail, At
<1>5. Granted(L)'
  BY <1>1, <1>2, <1>3, UnmovedBlock DEF Changes, Unmoved, SameHead, SameTail
<1>6. OtherInv(F)'
  BY <1>1, <1>2, <1>3, Stays DEF OtherInv, Steals, At
<1>7. FreshInv'
  BY <1>1, <1>2, Stays DEF Control, FreshInv, Heads, Fresh, SameHead, SameTail, At
<1>8. QED
  BY <1>1, <1>2, <1>3, <1>4, <1>5, <1>6, <1>7, Stays
  DEF Control, BlockInv, CurrentInv, OwnerInv, Leaving, Returning, At

LEMMA ControlRecount ==
    ASSUME TypeOK, Control, Recount
    PROVE  Control'
<1> DEFINE L == last.index
           F == Following(last).index
<1>1. At(Owner, "recount") /\ UNCHANGED <<last, start>> /\ L \in BlockIds /\ F \in BlockIds
  BY Known, Lap DEF Recount
<1>2. Changes(F) /\ pc'[Owner] = "move_on" /\ SameHead(F) /\ SameTail(F) /\ SameSteal(F)
  BY RecountEffect, Known DEF Moves
<1>3. Granted(L) /\ Blocks > 1 /\ ~Within(F) /\ F # L
  BY <1>1, Lap DEF Control, BlockInv, CurrentInv, OwnerInv, Leaving, At
<1>a. \A b \in BlockIds : Unmoved(b)
  BY <1>1, <1>2 DEF Changes, Unmoved, SameHead, SameTail, SameSteal
<1>4. \A b \in BlockIds \ {L} : OtherInv(b)'
  BY <1>1, <1>2, <1>a, OtherBlocks DEF At
<1>5. Granted(L)'
  BY <1>1, <1>3, <1>a, UnmovedBlock
<1>7. FreshInv'
  BY <1>1, <1>2, Stays DEF Control, FreshInv, Heads, Fresh, SameHead, SameTail, At
<1>8. QED
  BY <1>1, <1>2, <1>3, <1>4, <1>5, <1>7, Stays
  DEF Control, BlockInv, CurrentInv, OwnerInv, Leaving, Returning, At

(* The owner is now in the next block, which is the newest of those that   *)
(* may have items.                                                         *)
LEMMA ControlMoveOn ==
    ASSUME TypeOK, Control, MoveOn
    PROVE  Control'
<1>0. PICK L \in BlockIds, F \in BlockIds : L = last.index /\ F = Following(last).index
  BY Known, Lap
<1>1. /\ At(Owner, "move_on") /\ UNCHANGED <<start, block>> /\ L \in BlockIds /\ F \in BlockIds
      /\ last' = Following(last) /\ pc'[Owner] = "put"
  BY <1>0, Known DEF MoveOn, Goto
<1>2. Granted(L) /\ Blocks > 1 /\ ~Within(F) /\ F # L /\ OtherInv(F) /\ Heads(F, Following(last).round, 0) /\ block[F].tail = 0
  BY <1>0, <1>1, Lap DEF Control, BlockInv, CurrentInv, OwnerInv, FreshInv, Leaving, Fresh, At
<1>3. /\ \A b \in BlockIds \ {F} : Round(b)' = Round(b) /\ Within(b)' = Within(b)
      /\ Round(F)' = Following(last).round
  BY <1>0, <1>1, <1>2, MovesOn DEF Within
<1>4. Written(F)'
  BY <1>0, <1>1, <1>2, <1>3 DEF Written, OtherInv, Steals, Heads, At
<1>5. ASSUME NEW b \in BlockIds, b # F PROVE OtherInv(b)'
  <2>1. CASE b = L
    <3>1. Within(L)
      BY <1>0, Known, Lap DEF Control, OwnerInv, Within
    <3>2. QED BY <1>1, <1>2, <1>3, <1>5, <2>1, <3>1 DEF OtherInv, Granted, Heads, At
  <2>2. CASE b # L
    <3>1. OtherInv(b)
      BY <1>0, <2>2 DEF Control, BlockInv
    <3>2. QED BY <1>0, <1>1, <1>3, <1>5, <2>2, <3>1 DEF OtherInv, Granted, Heads, Steals, At
  <2>3. QED BY <2>1, <2>2
<1>6. \/ start.round = last'.round /\ start.index <= last'.index
      \/ start.round = last'.round - 1 /\ start.index > last'.index
  <2>1. /\ last.round \in Nat /\ start.round \in Nat /\ L \in 0 .. Blocks - 1 /\ start.index \in 0 .. Blocks - 1
        /\ last \in Counters /\ Blocks \in Nat \ {0}
    BY <1>0, Known, Constants
  <2>2. /\ L + 1 < Blocks => F = L + 1 /\ Following(last).round = last.round
        /\ ~(L + 1 < Blocks) => F = 0 /\ Following(last).round = last.round + 1
    BY <1>0, <2>1, FollowingIs
  <2>3. ~(start.round < Round(F) \/ (start.round = Round(F) /\ start.index <= F))
    BY <1>2 DEF Within
  <2>4. Round(F) = IF F <= L THEN last.round ELSE last.round - 1
    BY <1>0 DEF Round
  <2>5. \/ start.round = last.round /\ start.index <= L
        \/ start.round = last.round - 1 /\ start.index > L
    BY <1>0 DEF Control, OwnerInv
  <2>6. last'.round = Following(last).round /\ last'.index = F
    BY <1>0, <1>1
  <2>7. QED BY <2>1, <2>2, <2>3, <2>4, <2>5, <2>6
<1>7. OwnerInv'
  BY <1>1, <1>2, <1>6 DEF OwnerInv, Leaving, Returning
<1>8. BlockInv'
  BY <1>0, <1>1, <1>4, <1>5 DEF BlockInv, CurrentInv, Leaving
<1>9. QED BY <1>1, <1>7, <1>8 DEF Control, FreshInv, Fresh

LEMMA ControlReduceRound ==
    ASSUME TypeOK, Control, ReduceRound
    PROVE  Control'
<1> DEFINE L == last.index
<1>1. At(Owner, "reduce") /\ UNCHANGED <<last, start>> /\ L \in BlockIds
  BY Known DEF ReduceRound
<1>2. /\ Changes(L) /\ pc'[Owner] = "takeover" /\ SameHead(L) /\ SameTail(L)
      /\ block'[L].steal.round = block[L].steal.round - 1 /\ block'[L].steal.index = block[L].steal.index
  BY ReduceEffect, Known DEF Moves
<1>3. Written(L) /\ Round(L) = last.round
  BY <1>1, Lap DEF Control, BlockInv, CurrentInv, Leaving, At
<1>4. \A b \in BlockIds \ {L} : OtherInv(b)'
  BY <1>1, <1>2, OtherBlocks DEF Changes, Unmoved, SameHead, SameTail, At
<1>5. Steals(L, last.round - 1, Size)'
  BY <1>1, <1>2, <1>3 DEF Written, Steals
<1>6. QED
  BY <1>1, <1>2, <1>4, <1>5
  DEF Control, BlockInv, CurrentInv, OwnerInv, FreshInv, Leaving, Fresh, Returning, At, current, SameHead, SameTail

(* Behind the block that the owner leaves there is one that may have items. *)
LEMMA Behind ==
    ASSUME TypeOK, Control, start # last
    PROVE  /\ Blocks > 1 /\ Within(Preceding(last).index) /\ Preceding(last) \in Counters
           /\ \/ start.round = Preceding(last).round /\ start.index <= Preceding(last).index
              \/ start.round = Preceding(last).round - 1 /\ start.index > Preceding(last).index
<1> DEFINE L == last.index
           P == Preceding(last).index
<1>1. /\ last.round \in Nat /\ start.round \in Nat /\ L \in 0 .. Blocks - 1 /\ start.index \in 0 .. Blocks - 1
      /\ last \in Counters /\ start \in Counters /\ Blocks \in Nat \ {0}
  BY Known, Constants
<1>2. /\ L = 0 => P = Blocks - 1 /\ Preceding(last).round = last.round - 1
      /\ L # 0 => P = L - 1 /\ Preceding(last).round = last.round
  BY <1>1, PrecedingIs
<1>3. \/ start.round = last.round /\ start.index <= L
      \/ start.round = last.round - 1 /\ start.index > L
  BY DEF Control, OwnerInv
<1>4. start.round # last.round \/ start.index # L
  BY <1>1 DEF Counters
<1>5. Blocks > 1
  BY <1>1, <1>3, <1>4
<1>6. \/ start.round = Preceding(last).round /\ start.index <= P
      \/ start.round = Preceding(last).round - 1 /\ start.index > P
  <2> HIDE DEF P
  <2> QED BY <1>1, <1>2, <1>3, <1>4
<1>7. Within(P)
  BY <1>5, <1>6, Lap DEF Within
<1>8. Preceding(last).round \in Nat /\ P \in BlockIds
  BY <1>1, <1>2, <1>3, <1>4, PrecedingIs
<1>9. QED BY <1>5, <1>6, <1>7, <1>8 DEF Preceding, Counter, Counters

LEMMA ControlTakeover ==
    ASSUME TypeOK, Control, Takeover
    PROVE  Control'
<1> DEFINE L == last.index
           P == Preceding(last).index
<1>1. At(Owner, "takeover") /\ UNCHANGED <<last, start>> /\ L \in BlockIds /\ P \in BlockIds
  BY Known, Lap DEF Takeover
<1>2. /\ Changes(P) /\ pc'[Owner] = "move_back" /\ SameTail(P)
      /\ block'[P].head = block[P].steal /\ block'[P].steal = block[P].head
  BY TakeoverEffect, Known DEF Moves
<1>3. /\ start # last /\ Steals(L, last.round - 1, Size)
      /\ block[L].head.index = block[L].tail
  BY <1>1 DEF Control, BlockInv, CurrentInv, OwnerInv, Leaving, Returning, At, current
<1>4. Blocks > 1 /\ P # L /\ Within(P) /\ OtherInv(P)
  BY <1>1, <1>3, Behind, Lap DEF Control, BlockInv
<1>5. \A b \in BlockIds \ {L, P} : OtherInv(b)'
  BY <1>1, <1>2, OtherBlocks DEF Changes, Unmoved, SameHead, SameTail, At
<1>6. block'[L] = block[L]
  BY <1>1, <1>2, <1>4 DEF Changes
<1>7. Granted(P) /\ block[P].steal.index \in 0 .. Size
  BY <1>1, <1>4, Known DEF OtherInv, At
<1>8. (Written(P) /\ block[P].tail = Size)'
  BY <1>1, <1>2, <1>7, Stays, Constants DEF Written, Granted, Steals, Heads, SameTail
<1>9. OtherInv(P)'
  BY <1>1, <1>2, <1>4, <1>8, Stays DEF OtherInv, At
<1>10. QED
  BY <1>1, <1>2, <1>3, <1>4, <1>5, <1>6, <1>9
  DEF Control, BlockInv, CurrentInv, OwnerInv, FreshInv, Leaving, Fresh, Returning, At, Steals, current

(* The owner is now in the block it took over; the one it left is writable *)
(* in the round it was left in.                                            *)
LEMMA ControlMoveBack ==
    ASSUME TypeOK, Control, MoveBack
    PROVE  Control'
<1>0. PICK L \in BlockIds, P \in BlockIds : L = last.index /\ P = Preceding(last).index
  BY Known, Lap
<1>1. /\ At(Owner, "move_back") /\ UNCHANGED <<start, block>> /\ L \in BlockIds /\ P \in BlockIds
      /\ last' = Preceding(last) /\ pc'[Owner] = "get"
  BY <1>0, Known DEF MoveBack, Goto
<1>2. start # last /\ Steals(L, last.round - 1, Size)
  BY <1>0, <1>1 DEF Control, BlockInv, CurrentInv, OwnerInv, Leaving, Returning, At
<1>3. /\ Blocks > 1 /\ P # L /\ Within(P) /\ OtherInv(P) /\ Round(P) = Preceding(last).round
      /\ \/ start.round = Preceding(last).round /\ start.index <= P
         \/ start.round = Preceding(last).round - 1 /\ start.index > P
  BY <1>0, <1>1, <1>2, Behind, Lap DEF Control, BlockInv
<1>4. /\ \A b \in BlockIds \ {L} : Round(b)' = Round(b) /\ Within(b)' = Within(b)
      /\ Round(L)' = last.round - 1
  BY <1>0, <1>1, <1>3, MovesBack DEF Within
<1>5. Written(P)'
  BY <1>0, <1>1, <1>3, <1>4 DEF Written, OtherInv, Steals, At
<1>6. ~Within(L)'
  <2>1. \/ start.round = last.round /\ start.index <= L
        \/ start.round = last.round - 1 /\ start.index > L
    BY <1>0 DEF Control, OwnerInv
  <2>2. last.round \in Nat /\ start.round \in Nat /\ L \in Nat /\ start.index \in Nat
    BY <1>0, Known, Constants
  <2>3. ~(start.round < last.round - 1 \/ (start.round = last.round - 1 /\ start.index <= L))
    BY <2>1, <2>2
  <2>4. QED BY <1>0, <1>1, <1>4, <2>3 DEF Within
<1>7. ASSUME NEW b \in BlockIds, b # P PROVE OtherInv(b)'
  <2>1. CASE b = L
    BY <1>1, <1>2, <1>4, <1>6, <2>1 DEF OtherInv, Steals, At
  <2>2. CASE b # L
    <3>1. OtherInv(b)
      BY <1>0, <2>2 DEF Control, BlockInv
    <3>2. QED BY <1>0, <1>1, <1>4, <1>7, <2>2, <3>1 DEF OtherInv, Granted, Heads, Steals, At
  <2>3. QED BY <2>1, <2>2
<1>8. OwnerInv'
  BY <1>0, <1>1, <1>3 DEF OwnerInv, Leaving, Returning
<1>9. BlockInv'
  BY <1>0, <1>1, <1>5, <1>7 DEF BlockInv, CurrentInv, Leaving
<1>10. QED BY <1>1, <1>8, <1>9 DEF Control, FreshInv, Fresh

-----------------------------------------------------------------------------
(* Every step keeps the types.                                             *)
ThiefState == [at : Counters, position : Positions, claim : 0 .. NumItems]

LEMMA TypeParts ==
    TypeOK <=> /\ block \in [BlockIds -> BlockState] /\ last \in Counters /\ start \in Counters
               /\ pc \in [Threads -> Places] /\ thief \in [Thieves -> ThiefState]
               /\ pushed \in 0 .. NumItems /\ taken \in [Items -> 0 .. 2]
BY DEF TypeOK, BlockState, Counters, Threads, Places, ThiefState

LEMMA TypePartsNext ==
    TypeOK' <=> /\ block' \in [BlockIds -> BlockState] /\ last' \in Counters /\ start' \in Counters
                /\ pc' \in [Threads -> Places] /\ thief' \in [Thieves -> ThiefState]
                /\ pushed' \in 0 .. NumItems /\ taken' \in [Items -> 0 .. 2]
BY DEF TypeOK, BlockState, Counters, Threads, Places, ThiefState

LEMMA TakeType ==
    ASSUME TypeOK, NEW i \in 0 .. NumItems, Take(i)
    PROVE  taken' \in [Items -> 0 .. 2]
<1>1. taken \in [Items -> 0 .. 2] /\ 1 \in 0 .. 2 /\ 2 \in 0 .. 2
  BY DEF TypeOK
<1>2. taken' = [taken EXCEPT ![i] = IF taken[i] = 0 THEN 1 ELSE 2]
  BY DEF Take
<1>3. QED BY <1>1, <1>2

LEMMA OwnerType ==
    ASSUME TypeOK, Control,
           Advance \/ Grant \/ Reclaim \/ Renew \/ Recount \/ MoveOn \/ ReduceRound \/ Takeover \/ MoveBack
           \/ Put \/ Get
    PROVE  TypeOK'
<1> USE TypePartsNext
<1>0. TypeOK <=> /\ block \in [BlockIds -> BlockState] /\ last \in Counters /\ start \in Counters
                 /\ pc \in [Threads -> Places] /\ thief \in [Thieves -> ThiefState]
                 /\ pushed \in 0 .. NumItems /\ taken \in [Items -> 0 .. 2]
  BY TypeParts
<1>1. Following(last) \in Counters /\ Following(start) \in Counters /\ Owner \in Threads
  BY <1>0, FollowingIs, Known
<1>2. \A where \in Places : Goto(Owner, where) => pc' \in [Threads -> Places]
  BY <1>1, Moved DEF Moves
<1>3. CASE Put
  <2>1. CASE HasRoom
    <3>1. pushed' \in 0 .. NumItems
      BY <1>0, <2>1, <1>3, PutEffect, Constants
    <3>2. QED BY <1>0, <2>1, <1>3, <3>1, PutEffect DEF Changes, Moves, Keeps
  <2>2. CASE ~HasRoom
    BY <1>0, <1>2, <1>3, <2>2 DEF Put, Places
  <2>3. QED BY <2>1, <2>2
<1>4. CASE Get
  <2>1. CASE ~Empty
    <3> DEFINE i == block[last.index].ring[block[last.index].tail - 1]
    <3>1. i \in 0 .. NumItems
      <4>1. /\ block[last.index].tail # 0 /\ block[last.index].tail \in 0 .. Size /\ Size \in Nat
            /\ block[last.index].ring \in [Slots -> 0 .. NumItems] /\ Slots = 0 .. Size - 1
        BY <2>1, Known, Constants DEF Empty, current
      <4>2. block[last.index].tail - 1 \in Slots
        BY SMTT(30), <4>1
      <4>3. QED BY <4>1, <4>2
    <3>2. taken' \in [Items -> 0 .. 2]
      BY <3>1, <1>4, <2>1, GetEffect, TakeType
    <3>3. QED BY <1>0, <2>1, <1>4, <3>2, GetEffect DEF Changes, Moves, Keeps
  <2>2. CASE Empty
    BY <1>0, <1>2, <1>4, <2>2 DEF Get, Places
  <2>3. QED BY <2>1, <2>2
<1>5. CASE Advance
  BY <1>0, <1>1, <1>2, <1>5 DEF Advance, Places
<1>6. CASE Grant
  BY <1>0, <1>6, GrantEffect DEF Changes, Moves, Keeps
<1>7. CASE Reclaim
  BY <1>0, <1>7, ReclaimEffect DEF Changes, Moves, Keeps
<1>8. CASE Renew
  BY <1>0, <1>8, RenewEffect DEF Changes, Moves, Keeps
<1>9. CASE Recount
  BY <1>0, <1>9, RecountEffect DEF Changes, Moves, Keeps
<1>10. CASE MoveOn
  BY <1>0, <1>1, <1>2, <1>10 DEF MoveOn, Places
<1>11. CASE ReduceRound
  BY <1>0, <1>11, ReduceEffect DEF Changes, Moves, Keeps
<1>12. CASE Takeover
  BY <1>0, <1>12, TakeoverEffect DEF Changes, Moves, Keeps
<1>13. CASE MoveBack
  <2>1. start # last
    BY <1>13 DEF MoveBack, Control, OwnerInv, Returning, At
  <2>2. QED BY <1>0, <1>2, <1>13, <2>1, Behind DEF MoveBack, Places
<1>14. QED
  BY <1>3, <1>4, <1>5, <1>6, <1>7, <1>8, <1>9, <1>10, <1>11, <1>12, <1>13

-----------------------------------------------------------------------------
(* Counting the thieves that still read.                                   *)
LEMMA ReadersFinite ==
    \A b : IsFiniteSet(Readers(b)) /\ Cardinality(Readers(b)) \in Nat
BY Constants, FS_Subset, FS_CardinalityType DEF Readers

LEMMA StealEnds ==
    ASSUME TypeOK, Control, NEW b \in BlockIds
    PROVE  /\ block[b].steal.index < Size => /\ Granted(b) /\ Within(b)
                                             /\ b = last.index => pc[Owner] \in Leaving
                                             /\ At(Owner, "move_back") => b # Preceding(last).index
           /\ Claimed(b) \in 0 .. Size
<1>1. Size \in Nat /\ block[b].steal.index \in 0 .. Size /\ block[b].head.index \in 0 .. Size
  BY Known, Constants
<1>2. Claimed(b) \in 0 .. Size
  BY <1>1 DEF Claimed
<1>3. ASSUME block[b].steal.index < Size
      PROVE  /\ Granted(b) /\ Within(b)
             /\ b = last.index => pc[Owner] \in Leaving
             /\ At(Owner, "move_back") => b # Preceding(last).index
  <2>1. block[b].steal.index # Size
    BY <1>1, <1>3
  <2>2. CASE b = last.index
    <3>1. Granted(b) /\ pc[Owner] \in Leaving
      BY <2>1, <2>2 DEF Control, BlockInv, CurrentInv, Written, Steals
    <3>2. Within(b)
      BY <2>2, Known, Lap DEF Control, OwnerInv, Within
    <3>3. QED BY <3>1, <3>2, <2>2 DEF Leaving, At
  <2>3. CASE b # last.index
    <3>1. OtherInv(b)
      BY <2>3 DEF Control, BlockInv
    <3>2. QED BY <2>1, <2>3, <3>1 DEF OtherInv, Written, Steals
  <2>4. QED BY <2>2, <2>3
<1>4. QED BY <1>2, <1>3

(* A block that is emptied or reused has no slot left to claim.            *)
LEMMA NextIsDone ==
    ASSUME TypeOK, Control, pc[Owner] \in {"grant"} \cup Leaving
    PROVE  /\ Following(last).index \in BlockIds /\ Following(last).index # last.index
           /\ block[Following(last).index].steal.index = Size
<1> DEFINE F == Following(last).index
<1>1. Blocks > 1 /\ ~Within(F) /\ F \in BlockIds /\ F # last.index
  BY Lap DEF Control, OwnerInv
<1>2. ~(block[F].steal.index < Size)
  BY <1>1, StealEnds
<1>3. block[F].steal.index \in 0 .. Size /\ Size \in Nat
  BY <1>1, Known, Constants
<1>4. block[F].steal.index = Size
  BY <1>2, <1>3
<1>5. QED BY <1>1, <1>4

LEMMA CountsBelow ==
    ASSUME TypeOK, Control, CountInv, NEW t \in Thieves, Reader(t)
    PROVE  /\ ~Recounts(thief[t].at.index) /\ block[thief[t].at.index].count < Size
           /\ pc[Owner] \in Fresh => thief[t].at.index # Following(last).index
<1> DEFINE b == thief[t].at.index
<1>1. t \in Readers(b) /\ b \in BlockIds
  BY Known DEF Readers
<1>2. Cardinality(Readers(b)) # 0
  BY <1>1, ReadersFinite, FS_EmptySet
<1>3. pc[Owner] \in Fresh => b # Following(last).index
  BY <1>1 DEF CountInv
<1>4. ~Recounts(b)
  BY <1>3 DEF Recounts, Fresh
<1>5. block[b].count + Cardinality(Readers(b)) = Claimed(b)
  BY <1>1, <1>4 DEF CountInv
<1>6. Claimed(b) \in 0 .. Size /\ block[b].count \in 0 .. Size /\ Cardinality(Readers(b)) \in Nat /\ Size \in Nat
  BY <1>1, StealEnds, Known, ReadersFinite, Constants
<1>7. block[b].count < Size
  BY <1>2, <1>5, <1>6
<1>8. QED BY <1>3, <1>4, <1>7

-----------------------------------------------------------------------------
(* The owner's steps leave the thieves where they are, and the slots that  *)
(* these have claimed.                                                     *)
ThievesStay == thief' = thief /\ \A t \in Thieves : pc'[t] = pc[t]
ClaimedNext(b) == IF block'[b].steal.index < Size THEN block'[b].steal.index ELSE block'[b].head.index
SameClaims(b) == ClaimedNext(b) = Claimed(b)

LEMMA ClaimedPrime ==
    \A b \in BlockIds : Claimed(b)' = ClaimedNext(b)
BY DEF Claimed, ClaimedNext

LEMMA ReadersStay ==
    ASSUME ThievesStay
    PROVE  /\ \A b : Readers(b)' = Readers(b)
           /\ \A t \in Thieves : Reader(t)' = Reader(t)
BY DEF ThievesStay, Readers, Reader

LEMMA CountsStay ==
    ASSUME CountInv, ThievesStay, pc'[Owner] \notin Fresh, pc[Owner] \notin Fresh,
           \A b \in BlockIds : SameCount(b) /\ SameClaims(b)
    PROVE  CountInv'
<1>1. \A b : ~Recounts(b) /\ ~Recounts(b)'
  BY DEF Recounts, Fresh
<1>2. ASSUME NEW b \in BlockIds
      PROVE  (block[b].count + Cardinality(Readers(b)) = Claimed(b))'
  <2>1. block[b].count + Cardinality(Readers(b)) = Claimed(b)
    BY <1>1 DEF CountInv
  <2>2. Readers(b)' = Readers(b)
    BY ReadersStay
  <2>3. Cardinality(Readers(b))' = Cardinality(Readers(b))
    BY <2>2
  <2>4. QED BY <2>1, <2>3, ClaimedPrime DEF SameCount, SameClaims
<1>3. QED BY <1>2 DEF CountInv

LEMMA ClaimsStay ==
    ASSUME TypeOK, ThiefInv, ThievesStay,
           \A b \in BlockIds : Readers(b) = {} \/ /\ SameClaims(b)
                                                  /\ \A s \in Slots : s < Claimed(b) => block'[b].ring[s] = block[b].ring[s]
    PROVE  ThiefInv'
<1> SUFFICES ASSUME NEW t \in Thieves
             PROVE  /\ pc'[t] \in {"check", "claim"} => thief'[t].position.index # Size
                    /\ Reader(t)' => Reading(t)'
  BY DEF ThiefInv
<1>1. pc'[t] = pc[t] /\ thief'[t] = thief[t]
  BY DEF ThievesStay
<1>2. ASSUME Reader(t) PROVE Reading(t)'
  <2> DEFINE b == thief[t].at.index
  <2>1. b \in BlockIds /\ Readers(b) # {}
    BY <1>2, Known DEF Readers
  <2>2. Reading(t)
    BY <1>2 DEF ThiefInv
  <2>3. QED BY <1>1, <2>1, <2>2, ClaimedPrime DEF Reading, SameClaims
<1>3. QED BY <1>1, <1>2 DEF ThiefInv, Reader

LEMMA UnmovedClaims ==
    ASSUME NEW b, SameHead(b), SameSteal(b)
    PROVE  SameClaims(b)
BY DEF SameHead, SameSteal, SameClaims, ClaimedNext, Claimed

LEMMA SameAll ==
    ASSUME NEW b, block'[b] = block[b]
    PROVE  SameHead(b) /\ SameSteal(b) /\ SameTail(b) /\ SameCount(b) /\ SameRing(b) /\ SameClaims(b)
BY DEF SameHead, SameSteal, SameTail, SameCount, SameRing, SameClaims, ClaimedNext, Claimed

LEMMA OwnerMoves ==
    ASSUME TypeOK, NEW where, Moves(Owner, where), thief' = thief
    PROVE  ThievesStay /\ pc'[Owner] = where
BY Known DEF Moves, ThievesStay

LEMMA OwnerGoes ==
    ASSUME TypeOK, NEW where, Goto(Owner, where), thief' = thief
    PROVE  ThievesStay /\ pc'[Owner] = where
BY Known DEF Goto, ThievesStay

Counting == CountInv /\ ThiefInv

(* A step that does not touch the blocks.                                  *)
LEMMA CountingQuiet ==
    ASSUME TypeOK, Counting, ThievesStay, block' = block, pc'[Owner] \notin Fresh, pc[Owner] \notin Fresh
    PROVE  Counting'
<1>1. \A b \in BlockIds : SameCount(b) /\ SameClaims(b) /\ block'[b] = block[b]
  BY SameAll
<1>2. QED BY <1>1, CountsStay, ClaimsStay DEF Counting

LEMMA CountingPut ==
    ASSUME TypeOK, Control, Counting, Put
    PROVE  Counting'
<1>1. pc[Owner] \in {"idle", "put"}
  BY DEF Put
<1>2. CASE HasRoom
  <2> DEFINE L == last.index
  <2>1. /\ Changes(L) /\ pc'[Owner] = "idle" /\ SameHead(L) /\ SameSteal(L) /\ SameCount(L) /\ ThievesStay
        /\ \A s \in Slots : s # block[L].tail => block'[L].ring[s] = block[L].ring[s]
    BY <1>2, PutEffect, OwnerMoves DEF Keeps
  <2>2. \A b \in BlockIds : SameCount(b) /\ SameClaims(b)
    BY <2>1, SameAll, UnmovedClaims DEF Changes
  <2>3. CountInv'
    BY <1>1, <2>1, <2>2, CountsStay DEF Counting, Fresh
  <2>4. Claimed(L) <= block[L].tail
    BY <1>1, Known DEF Control, BlockInv, CurrentInv, Written, Steals, Leaving, Claimed
  <2>5. ASSUME NEW b \in BlockIds, NEW s \in Slots, s < Claimed(b)
        PROVE  block'[b].ring[s] = block[b].ring[s]
    <3>1. CASE b = L
      <4>1. s # block[L].tail
        BY <2>4, <2>5, <3>1, Known, Constants, StealEnds
      <4>2. QED BY <2>1, <3>1, <4>1
    <3>2. CASE b # L
      BY <2>1, <3>2 DEF Changes
    <3>3. QED BY <3>1, <3>2
  <2>6. ThiefInv'
    BY <2>1, <2>2, <2>5, ClaimsStay DEF Counting
  <2>7. QED BY <2>3, <2>6 DEF Counting
<1>3. CASE ~HasRoom
  <2>1. ThievesStay /\ pc'[Owner] = "advance" /\ block' = block
    BY <1>3, OwnerGoes DEF Put
  <2>2. QED BY <1>1, <2>1, CountingQuiet DEF Fresh
<1>4. QED BY <1>2, <1>3

LEMMA CountingGet ==
    ASSUME TypeOK, Control, Counting, Get
    PROVE  Counting'
<1>1. pc[Owner] \in {"idle", "get"}
  BY DEF Get
<1>2. CASE ~Empty
  <2> DEFINE L == last.index
  <2>1. /\ Changes(L) /\ pc'[Owner] = "idle" /\ SameHead(L) /\ SameSteal(L) /\ SameCount(L) /\ ThievesStay /\ SameRing(L)
    BY <1>2, GetEffect, OwnerMoves DEF Keeps
  <2>2. \A b \in BlockIds : SameCount(b) /\ SameClaims(b) /\ SameRing(b)
    BY <2>1, SameAll, UnmovedClaims DEF Changes
  <2>3. QED BY <1>1, <2>1, <2>2, CountsStay, ClaimsStay DEF Counting, Fresh, SameRing
<1>3. CASE Empty
  <2>1. block' = block /\ ThievesStay /\ pc'[Owner] \in {"idle", "reduce"}
    BY <1>3, OwnerGoes DEF Get
  <2>2. QED BY <1>1, <2>1, CountingQuiet DEF Fresh
<1>4. QED BY <1>2, <1>3

LEMMA CountingAdvance ==
    ASSUME TypeOK, Control, Counting, Advance
    PROVE  Counting'
<1>1. pc[Owner] = "advance" /\ block' = block /\ ThievesStay /\ pc'[Owner] \in {"idle", "grant"}
  BY OwnerGoes DEF Advance, At
<1>2. QED BY <1>1, CountingQuiet DEF Fresh

(* What was claimed of a block does not change when it is granted, and is  *)
(* what the exchange finds when it is taken over.                          *)
LEMMA CountingGrant ==
    ASSUME TypeOK, Control, Counting, Grant
    PROVE  Counting'
<1> DEFINE L == last.index
<1>1. /\ Changes(L) /\ pc[Owner] = "grant" /\ pc'[Owner] = "reclaim" /\ SameCount(L) /\ SameRing(L) /\ ThievesStay
      /\ block'[L].head = block[L].steal /\ block'[L].steal = block[L].head
  BY GrantEffect, OwnerMoves DEF Keeps, Grant, At
<1>2. block[L].steal.index = Size /\ block[L].head.index \in 0 .. Size /\ Size \in Nat
  BY <1>1, Known, Constants DEF Control, BlockInv, CurrentInv, Written, Steals, Leaving
<1>3. SameClaims(L)
  BY <1>1, <1>2 DEF SameClaims, ClaimedNext, Claimed
<1>4. \A b \in BlockIds : SameCount(b) /\ SameClaims(b) /\ SameRing(b)
  BY <1>1, <1>3, SameAll DEF Changes
<1>5. QED BY <1>1, <1>4, CountsStay, ClaimsStay DEF Counting, Fresh, SameRing

LEMMA CountingReduceRound ==
    ASSUME TypeOK, Control, Counting, ReduceRound
    PROVE  Counting'
<1> DEFINE L == last.index
<1>1. /\ Changes(L) /\ pc[Owner] = "reduce" /\ pc'[Owner] = "takeover" /\ SameCount(L) /\ SameRing(L) /\ ThievesStay
      /\ SameHead(L) /\ block'[L].steal.index = block[L].steal.index
  BY ReduceEffect, OwnerMoves DEF Keeps, ReduceRound, At
<1>3. SameClaims(L)
  BY <1>1 DEF SameClaims, ClaimedNext, Claimed, SameHead
<1>4. \A b \in BlockIds : SameCount(b) /\ SameClaims(b) /\ SameRing(b)
  BY <1>1, <1>3, SameAll DEF Changes
<1>5. QED BY <1>1, <1>4, CountsStay, ClaimsStay DEF Counting, Fresh, SameRing

LEMMA CountingTakeover ==
    ASSUME TypeOK, Control, Counting, Takeover
    PROVE  Counting'
<1> DEFINE P == Preceding(last).index
<1>1. /\ Changes(P) /\ pc[Owner] = "takeover" /\ pc'[Owner] = "move_back" /\ SameCount(P) /\ SameRing(P) /\ ThievesStay
      /\ block'[P].head = block[P].steal /\ block'[P].steal = block[P].head
  BY TakeoverEffect, OwnerMoves DEF Keeps, Takeover, At
<1>2. start # last /\ P \in BlockIds
  BY <1>1, Lap DEF Control, OwnerInv, Returning
<1>a. Within(P) /\ P # last.index
  BY <1>2, Lap, Behind
<1>b. OtherInv(P)
  BY <1>2, <1>a DEF Control, BlockInv
<1>3. block[P].head.index = Size /\ block[P].steal.index \in 0 .. Size /\ Size \in Nat
  BY <1>1, <1>2, <1>a, <1>b, Known, Constants DEF OtherInv, Granted, Heads, At
<1>4. SameClaims(P)
  BY <1>1, <1>3 DEF SameClaims, ClaimedNext, Claimed
<1>5. \A b \in BlockIds : SameCount(b) /\ SameClaims(b) /\ SameRing(b)
  BY <1>1, <1>4, SameAll DEF Changes
<1>6. QED BY <1>1, <1>5, CountsStay, ClaimsStay DEF Counting, Fresh, SameRing

LEMMA CountingMoveBack ==
    ASSUME TypeOK, Control, Counting, MoveBack
    PROVE  Counting'
<1>1. pc[Owner] = "move_back" /\ block' = block /\ ThievesStay /\ pc'[Owner] = "get"
  BY OwnerGoes DEF MoveBack, At
<1>2. QED BY <1>1, CountingQuiet DEF Fresh

(* All have read the block that is reclaimed, and none can claim in it.    *)
LEMMA CountingReclaim ==
    ASSUME TypeOK, Control, Counting, Reclaim
    PROVE  Counting'
<1> DEFINE F == Following(last).index
<1>1. /\ Changes(F) /\ pc[Owner] = "reclaim" /\ pc'[Owner] = "renew" /\ SameCount(F) /\ SameRing(F) /\ ThievesStay
      /\ UNCHANGED <<last, start>> /\ block[F].count = block[F].head.index
  BY ReclaimEffect, OwnerMoves DEF Keeps, Reclaim, At, AllRead
<1>2. F \in BlockIds /\ block[F].steal.index = Size
  BY <1>1, NextIsDone DEF Leaving
<1>3. ~Recounts(F)
  BY <1>1 DEF Recounts
<1>4. block[F].count + Cardinality(Readers(F)) = block[F].head.index
  BY <1>2, <1>3, Constants DEF Counting, CountInv, Claimed
<1>a. block[F].count \in 0 .. Size /\ Size \in Nat /\ Cardinality(Readers(F)) \in Nat
  BY <1>2, Known, Constants, ReadersFinite
<1>b. Cardinality(Readers(F)) = 0
  <2> HIDE DEF F
  <2> QED BY <1>1, <1>4, <1>a
<1>5. Readers(F) = {}
  BY <1>b, ReadersFinite, FS_EmptySet
<1>6. F' = F
  BY <1>1, Stays
<1>7. \A b \in BlockIds \ {F} : SameCount(b) /\ SameClaims(b) /\ SameRing(b)
  BY <1>1, SameAll DEF Changes
<1>8. ThiefInv'
  BY <1>1, <1>5, <1>7, ClaimsStay DEF Counting, SameRing
<1>9. ASSUME NEW b \in BlockIds PROVE (Recounts(b) \/ block[b].count + Cardinality(Readers(b)) = Claimed(b))'
  <2>1. CASE b = F
    BY <1>1, <1>6, <2>1 DEF Recounts
  <2>2. CASE b # F
    <3>1. block[b].count + Cardinality(Readers(b)) = Claimed(b)
      BY <1>1 DEF Counting, CountInv, Recounts
    <3>2. Readers(b)' = Readers(b)
      BY <1>1, ReadersStay
    <3>3. QED BY <1>7, <2>2, <3>1, <3>2, ClaimedPrime DEF SameCount, SameClaims
  <2>3. QED BY <2>1, <2>2
<1>10. Readers(F)' = {}
  BY <1>1, <1>5, ReadersStay
<1>11. CountInv'
  BY <1>6, <1>9, <1>10 DEF CountInv
<1>12. QED BY <1>8, <1>11 DEF Counting

LEMMA CountingRenew ==
    ASSUME TypeOK, Control, Counting, Renew
    PROVE  Counting'
<1> DEFINE F == Following(last).index
<1>1. /\ Changes(F) /\ pc[Owner] = "renew" /\ pc'[Owner] = "recount" /\ SameCount(F) /\ SameRing(F) /\ ThievesStay
      /\ UNCHANGED <<last, start>>
  BY RenewEffect, OwnerMoves DEF Keeps, Renew, At
<1>5. Readers(F) = {}
  BY <1>1 DEF Counting, CountInv, Fresh
<1>6. F' = F
  BY <1>1, Stays
<1>7. \A b \in BlockIds \ {F} : SameCount(b) /\ SameClaims(b) /\ SameRing(b)
  BY <1>1, SameAll DEF Changes
<1>8. ThiefInv'
  BY <1>1, <1>5, <1>7, ClaimsStay DEF Counting, SameRing
<1>9. ASSUME NEW b \in BlockIds PROVE (Recounts(b) \/ block[b].count + Cardinality(Readers(b)) = Claimed(b))'
  <2>1. CASE b = F
    BY <1>1, <1>6, <2>1 DEF Recounts
  <2>2. CASE b # F
    <3>1. block[b].count + Cardinality(Readers(b)) = Claimed(b)
      BY <1>1, <2>2 DEF Counting, CountInv, Recounts
    <3>2. Readers(b)' = Readers(b)
      BY <1>1, ReadersStay
    <3>3. QED BY <1>7, <2>2, <3>1, <3>2, ClaimedPrime DEF SameCount, SameClaims
  <2>3. QED BY <2>1, <2>2
<1>10. Readers(F)' = {}
  BY <1>1, <1>5, ReadersStay
<1>11. CountInv'
  BY <1>6, <1>9, <1>10 DEF CountInv
<1>12. QED BY <1>8, <1>11 DEF Counting

LEMMA CountingRecount ==
    ASSUME TypeOK, Control, Counting, Recount
    PROVE  Counting'
<1> DEFINE F == Following(last).index
<1>1. /\ Changes(F) /\ pc[Owner] = "recount" /\ pc'[Owner] = "move_on" /\ SameRing(F) /\ ThievesStay
      /\ SameHead(F) /\ SameSteal(F) /\ block'[F].count = 0 /\ UNCHANGED <<last, start>>
  BY RecountEffect, OwnerMoves DEF Keeps, Recount, At
<1>2. F \in BlockIds /\ block[F].steal.index = Size
  BY <1>1, NextIsDone DEF Leaving
<1>3. block[F].head.index = 0
  BY <1>1 DEF Control, FreshInv, Heads, Fresh
<1>4. Claimed(F) = 0 /\ SameClaims(F)
  BY <1>1, <1>2, <1>3, Constants DEF Claimed, ClaimedNext, SameClaims, SameHead, SameSteal
<1>5. Readers(F) = {}
  BY <1>1 DEF Counting, CountInv, Fresh
<1>6. F' = F
  BY <1>1, Stays
<1>7. \A b \in BlockIds \ {F} : SameCount(b) /\ SameClaims(b) /\ SameRing(b)
  BY <1>1, SameAll DEF Changes
<1>8. ThiefInv'
  BY <1>1, <1>5, <1>7, ClaimsStay DEF Counting, SameRing
<1>9. ASSUME NEW b \in BlockIds PROVE (block[b].count + Cardinality(Readers(b)) = Claimed(b))'
  <2>1. CASE b = F
    <3>1. Cardinality(Readers(F))' = 0
      BY <1>1, <1>5, ReadersStay, FS_EmptySet
    <3>2. QED BY <1>1, <1>2, <1>4, <1>6, <2>1, <3>1, ClaimedPrime DEF SameClaims
  <2>2. CASE b # F
    <3>1. block[b].count + Cardinality(Readers(b)) = Claimed(b)
      BY <1>1, <2>2 DEF Counting, CountInv, Recounts
    <3>2. Readers(b)' = Readers(b)
      BY <1>1, ReadersStay
    <3>3. QED BY <1>7, <2>2, <3>1, <3>2, ClaimedPrime DEF SameCount, SameClaims
  <2>3. QED BY <2>1, <2>2
<1>10. Readers(F)' = {}
  BY <1>1, <1>5, ReadersStay
<1>11. CountInv'
  BY <1>6, <1>9, <1>10 DEF CountInv
<1>12. QED BY <1>8, <1>11 DEF Counting

LEMMA CountingMoveOn ==
    ASSUME TypeOK, Control, Counting, MoveOn
    PROVE  Counting'
<1>1. pc[Owner] = "move_on" /\ block' = block /\ ThievesStay /\ pc'[Owner] = "put"
  BY OwnerGoes DEF MoveOn, At
<1>2. \A b \in BlockIds : SameCount(b) /\ SameClaims(b) /\ SameRing(b)
  BY <1>1, SameAll
<1>3. ThiefInv'
  BY <1>1, <1>2, ClaimsStay DEF Counting, SameRing
<1>4. ASSUME NEW b \in BlockIds PROVE (block[b].count + Cardinality(Readers(b)) = Claimed(b))'
  <2>1. block[b].count + Cardinality(Readers(b)) = Claimed(b)
    BY <1>1 DEF Counting, CountInv, Recounts
  <2>2. Readers(b)' = Readers(b)
    BY <1>1, ReadersStay
  <2>3. QED BY <1>2, <2>1, <2>2, ClaimedPrime DEF SameCount, SameClaims
<1>5. CountInv'
  BY <1>1, <1>4 DEF CountInv, Fresh
<1>6. QED BY <1>3, <1>5 DEF Counting

-----------------------------------------------------------------------------
(* The slots with queued items.                                            *)
SameHeld ==
    \A b \in BlockIds :
        /\ \A s \in Slots : Holds(b, s)' <=> Holds(b, s)
        /\ \A s \in Slots : Holds(b, s) => /\ block'[b].ring[s] = block[b].ring[s]
                                           /\ block'[b].steal.round = block[b].steal.round

LEMMA SoonerKept ==
    ASSUME NEW b \in BlockIds, NEW c \in BlockIds,
           block'[b].steal.round = block[b].steal.round, block'[c].steal.round = block[c].steal.round
    PROVE  Sooner(b, c)' = Sooner(b, c)
BY DEF Sooner

LEMMA SlotsKept ==
    ASSUME ItemInv, SameHeld, UNCHANGED <<pushed, taken>>
    PROVE  ItemInv'
<1>1. Queued' = Queued
  BY DEF Queued
<1>2. HeldInv'
  BY <1>1 DEF ItemInv, HeldInv, SameHeld
<1>3. FoundInv'
  <2> SUFFICES ASSUME NEW i \in Queued'
               PROVE  \E b \in BlockIds, s \in Slots : Holds(b, s)' /\ block'[b].ring[s] = i
    BY DEF FoundInv
  <2>1. PICK b \in BlockIds, s \in Slots : Holds(b, s) /\ block[b].ring[s] = i
    BY <1>1 DEF ItemInv, FoundInv
  <2>2. QED BY <2>1 DEF SameHeld
<1>4. OrderInv'
  <2> SUFFICES ASSUME NEW b \in BlockIds, NEW c \in BlockIds, NEW s \in Slots, NEW r \in Slots,
                      Holds(b, s)', Holds(c, r)', Sooner(b, c)' \/ (b = c /\ s < r)
               PROVE  block'[b].ring[s] < block'[c].ring[r]
    BY DEF OrderInv
  <2>1. /\ Holds(b, s) /\ Holds(c, r)
        /\ block'[b].ring[s] = block[b].ring[s] /\ block'[c].ring[r] = block[c].ring[r]
        /\ block'[b].steal.round = block[b].steal.round /\ block'[c].steal.round = block[c].steal.round
    BY DEF SameHeld
  <2>2. Sooner(b, c)' = Sooner(b, c)
    BY <2>1, SoonerKept
  <2>3. QED BY <2>1, <2>2 DEF ItemInv, OrderInv
<1>5. PushedInv'
  BY DEF ItemInv, PushedInv
<1>6. QED BY <1>2, <1>3, <1>4, <1>5 DEF ItemInv

(* Two slots hold two items.                                               *)
LEMMA SlotsDiffer ==
    ASSUME TypeOK, ItemInv, NEW b \in BlockIds, NEW c \in BlockIds, NEW s \in Slots, NEW r \in Slots,
           Holds(b, s), Holds(c, r), block[b].ring[s] = block[c].ring[r]
    PROVE  b = c /\ s = r
<1>1. /\ b \in Nat /\ c \in Nat /\ s \in Nat /\ r \in Nat
      /\ block[b].steal.round \in Int /\ block[c].steal.round \in Int
      /\ block[b].ring[s] \in 0 .. NumItems /\ block[c].ring[r] \in 0 .. NumItems
      /\ NumItems \in Nat
  BY Known, Constants
<1>2. /\ Sooner(b, c) \/ (b = c /\ s < r) => block[b].ring[s] < block[c].ring[r]
      /\ Sooner(c, b) \/ (c = b /\ r < s) => block[c].ring[r] < block[b].ring[s]
  BY DEF ItemInv, OrderInv
<1>3. ~Sooner(b, c) /\ ~Sooner(c, b) /\ ~(b = c /\ s < r) /\ ~(c = b /\ r < s)
  BY <1>1, <1>2
<1>4. QED BY <1>1, <1>3 DEF Sooner

LEMMA QueuedTaken ==
    ASSUME TypeOK, NEW i \in Queued, Take(i), pushed' = pushed
    PROVE  Queued' = Queued \ {i} /\ i \in Items /\ taken' = [taken EXCEPT ![i] = 1]
<1>1. /\ taken \in [Items -> 0 .. 2] /\ pushed \in Nat /\ 1 .. pushed \subseteq Items
      /\ i \in 1 .. pushed /\ taken[i] = 0
  BY Known, Constants DEF Queued
<1>2. taken' = [taken EXCEPT ![i] = 1]
  BY <1>1 DEF Take
<1>3. \A k \in Items : taken'[k] = IF k = i THEN 1 ELSE taken[k]
  BY <1>1, <1>2
<1>4. QED BY <1>1, <1>2, <1>3 DEF Queued

(* One slot is emptied.                                                    *)
LEMMA SlotTaken ==
    ASSUME TypeOK, ItemInv, NEW c \in BlockIds, NEW r \in Slots, Holds(c, r),
           Take(block[c].ring[r]), pushed' = pushed,
           \A b \in BlockIds : SameRing(b) /\ block'[b].steal.round = block[b].steal.round,
           \A b \in BlockIds, s \in Slots : Holds(b, s)' <=> (Holds(b, s) /\ ~(b = c /\ s = r))
    PROVE  ItemInv'
<1> DEFINE i == block[c].ring[r]
<1>1. i \in Queued
  BY DEF ItemInv, HeldInv
<1>2. Queued' = Queued \ {i} /\ i \in Items /\ taken' = [taken EXCEPT ![i] = 1]
  BY <1>1, QueuedTaken
<1>3. HeldInv'
  <2> SUFFICES ASSUME NEW b \in BlockIds, NEW s \in Slots, Holds(b, s)'
               PROVE  block'[b].ring[s] \in Queued'
    BY DEF HeldInv
  <2>1. Holds(b, s) /\ ~(b = c /\ s = r) /\ block'[b].ring[s] = block[b].ring[s]
    BY DEF SameRing
  <2>2. block[b].ring[s] \in Queued /\ block[b].ring[s] # i
    BY <2>1, SlotsDiffer DEF ItemInv, HeldInv
  <2>3. QED BY <1>2, <2>1, <2>2
<1>4. FoundInv'
  <2> SUFFICES ASSUME NEW k \in Queued'
               PROVE  \E b \in BlockIds, s \in Slots : Holds(b, s)' /\ block'[b].ring[s] = k
    BY DEF FoundInv
  <2>1. k \in Queued /\ k # i
    BY <1>2
  <2>2. PICK b \in BlockIds, s \in Slots : Holds(b, s) /\ block[b].ring[s] = k
    BY <2>1 DEF ItemInv, FoundInv
  <2>3. Holds(b, s)' /\ block'[b].ring[s] = k
    BY <2>1, <2>2 DEF SameRing
  <2>4. QED BY <2>3
<1>5. OrderInv'
  <2> SUFFICES ASSUME NEW b \in BlockIds, NEW d \in BlockIds, NEW s \in Slots, NEW q \in Slots,
                      Holds(b, s)', Holds(d, q)', Sooner(b, d)' \/ (b = d /\ s < q)
               PROVE  block'[b].ring[s] < block'[d].ring[q]
    BY DEF OrderInv
  <2>1. /\ Holds(b, s) /\ Holds(d, q)
        /\ block'[b].ring[s] = block[b].ring[s] /\ block'[d].ring[q] = block[d].ring[q]
        /\ block'[b].steal.round = block[b].steal.round /\ block'[d].steal.round = block[d].steal.round
    BY DEF SameRing
  <2>2. Sooner(b, d)' = Sooner(b, d)
    BY <2>1, SoonerKept
  <2>3. QED BY <2>1, <2>2 DEF ItemInv, OrderInv
<1>6. PushedInv'
  <2>1. \A k \in Items : taken'[k] = IF k = i THEN 1 ELSE taken[k]
    BY <1>2, Known
  <2>2. i <= pushed
    BY <1>1, Known DEF Queued
  <2>3. QED BY <2>1, <2>2 DEF ItemInv, PushedInv
<1>7. QED BY <1>3, <1>4, <1>5, <1>6 DEF ItemInv

(* A slot of the current block is filled with the newest item.             *)
LEMMA SlotFilled ==
    ASSUME TypeOK, ItemInv, NEW c \in BlockIds, NEW r \in Slots, ~Holds(c, r), pushed < NumItems,
           pushed' = pushed + 1, taken' = taken, block'[c].ring[r] = pushed + 1,
           \A b \in BlockIds : block'[b].steal.round = block[b].steal.round,
           \A b \in BlockIds, s \in Slots : ~(b = c /\ s = r) => block'[b].ring[s] = block[b].ring[s],
           \A b \in BlockIds, s \in Slots : Holds(b, s)' <=> (Holds(b, s) \/ (b = c /\ s = r)),
           \A b \in BlockIds, s \in Slots : Holds(b, s) => ~Sooner(c, b) /\ (b = c => s < r)
    PROVE  ItemInv'
<1>1. /\ pushed \in Nat /\ NumItems \in Nat /\ taken \in [Items -> 0 .. 2] /\ pushed + 1 \in Items
      /\ Items = 1 .. NumItems
  BY Known, Constants
<1>2. taken[pushed + 1] = 0
  BY <1>1, Known DEF ItemInv, PushedInv
<1>3. Queued' = Queued \cup {pushed + 1}
  BY <1>1, <1>2 DEF Queued
<1>4. \A i \in Queued : i <= pushed
  BY <1>1 DEF Queued
<1>5. HeldInv'
  BY <1>3 DEF ItemInv, HeldInv
<1>6. FoundInv'
  <2> SUFFICES ASSUME NEW k \in Queued'
               PROVE  \E b \in BlockIds, s \in Slots : Holds(b, s)' /\ block'[b].ring[s] = k
    BY DEF FoundInv
  <2>1. CASE k = pushed + 1
    BY <2>1
  <2>2. CASE k # pushed + 1
    <3>1. PICK b \in BlockIds, s \in Slots : Holds(b, s) /\ block[b].ring[s] = k
      BY <1>3, <2>2 DEF ItemInv, FoundInv
    <3>2. Holds(b, s)' /\ block'[b].ring[s] = k
      BY <3>1
    <3>3. QED BY <3>2
  <2>3. QED BY <2>1, <2>2
<1>7. OrderInv'
  <2> SUFFICES ASSUME NEW b \in BlockIds, NEW d \in BlockIds, NEW s \in Slots, NEW q \in Slots,
                      Holds(b, s)', Holds(d, q)', Sooner(b, d)' \/ (b = d /\ s < q)
               PROVE  block'[b].ring[s] < block'[d].ring[q]
    BY DEF OrderInv
  <2>1. Sooner(b, d)' = Sooner(b, d)
    BY SoonerKept
  <2>2. s \in Nat /\ q \in Nat /\ r \in Nat /\ b \in Nat /\ d \in Nat
    BY Constants
  <2>3. CASE d = c /\ q = r
    <3>1. block'[d].ring[q] = pushed + 1
      BY <2>3
    <3>2. ~(b = c /\ s = r)
      <4>1. ~Sooner(c, c)
        BY SMTT(30), Known, Constants DEF Sooner
      <4>2. QED BY <2>1, <2>2, <2>3, <4>1
    <3>3. Holds(b, s) /\ block'[b].ring[s] = block[b].ring[s]
      BY <3>2
    <3>4. block[b].ring[s] \in Queued
      BY <3>3 DEF ItemInv, HeldInv
    <3>5. block[b].ring[s] \in Nat /\ block[b].ring[s] <= pushed
      BY <1>1, <1>4, <3>4 DEF Queued
    <3>6. QED BY <1>1, <3>1, <3>3, <3>5
  <2>4. CASE ~(d = c /\ q = r)
    <3>1. Holds(d, q) /\ block'[d].ring[q] = block[d].ring[q]
      BY <2>4
    <3>2. ~(b = c /\ s = r)
      <4>1. ~Sooner(c, d) /\ (d = c => q < r)
        BY <3>1
      <4>2. QED BY <2>1, <2>2, <4>1
    <3>3. Holds(b, s) /\ block'[b].ring[s] = block[b].ring[s]
      BY <3>2
    <3>4. QED BY <2>1, <3>1, <3>3 DEF ItemInv, OrderInv
  <2>5. QED BY <2>3, <2>4
<1>8. PushedInv'
  BY <1>1, Known DEF ItemInv, PushedInv
<1>9. QED BY <1>5, <1>6, <1>7, <1>8 DEF ItemInv

-----------------------------------------------------------------------------
(* Which slots the owner's steps fill, empty, or leave as they are.        *)
SameHeldIn(b) ==
    /\ \A s \in Slots : Holds(b, s)' <=> Holds(b, s)
    /\ \A s \in Slots : Holds(b, s) => /\ block'[b].ring[s] = block[b].ring[s]
                                       /\ block'[b].steal.round = block[b].steal.round

LEMMA HeldIsUnchanged ==
    ASSUME NEW b \in BlockIds, SameHead(b), SameTail(b), SameSteal(b), SameRing(b), (b = Working)' = (b = Working)
    PROVE  SameHeldIn(b)
BY DEF SameHead, SameTail, SameSteal, SameRing, SameHeldIn, Holds

LEMMA HeldIsNone ==
    ASSUME NEW b \in BlockIds, \A s \in Slots : ~Holds(b, s) /\ ~Holds(b, s)'
    PROVE  SameHeldIn(b)
BY DEF SameHeldIn

LEMMA AllHeld ==
    ASSUME ItemInv, UNCHANGED <<pushed, taken>>, \A b \in BlockIds : SameHeldIn(b)
    PROVE  ItemInv'
<1>1. SameHeld
  BY DEF SameHeld, SameHeldIn
<1>2. QED BY <1>1, SlotsKept

(* The owner's block is the newest.                                        *)
LEMMA CurrentIsNewest ==
    ASSUME TypeOK, Control, pc[Owner] \in {"idle", "put", "get"},
           NEW b \in BlockIds, NEW s \in Slots, Holds(b, s), b # last.index
    PROVE  Sooner(b, last.index) /\ ~Sooner(last.index, b)
<1> DEFINE L == last.index
<1>1. Written(L) /\ Working = L
  BY DEF Control, BlockInv, CurrentInv, Leaving, Working, At
<1>2. block[b].steal.index < Size
  BY <1>1 DEF Holds
<1>3. Granted(b)
  BY <1>2, StealEnds
<1>4. block[b].steal.round = Round(b) /\ block[L].steal.round = Round(L) /\ Round(L) = last.round
  BY <1>1, <1>3, Lap DEF Granted, Written, Steals
<1>5. b \in Nat /\ L \in Nat /\ last.round \in Nat
  BY Known, Constants
<1>6. QED BY <1>4, <1>5 DEF Round, Sooner

LEMMA ItemsPut ==
    ASSUME TypeOK, Control, ItemInv, Put
    PROVE  ItemInv'
<1>0. PICK L \in BlockIds : L = last.index
  BY Known
<1>1. pc[Owner] \in {"idle", "put"} /\ UNCHANGED <<last, start>> /\ Working = L
  BY <1>0 DEF Put, Working, At
<1>2. Steals(L, Round(L), Size) /\ block[L].head.index <= block[L].tail
  BY <1>0, <1>1 DEF Control, BlockInv, CurrentInv, Written, Leaving
<1>3. CASE HasRoom
  <2> DEFINE r == block[L].tail
  <2>1. /\ Changes(L) /\ SameHead(L) /\ SameSteal(L) /\ block'[L].tail = r + 1 /\ r \in Slots
        /\ block'[L].ring[r] = pushed + 1
        /\ \A s \in Slots : s # r => block'[L].ring[s] = block[L].ring[s]
        /\ pushed' = pushed + 1 /\ pushed < NumItems /\ taken' = taken /\ pc'[Owner] = "idle"
    BY <1>0, <1>3, PutEffect, Known DEF Moves
  <2>2. Working' = L
    BY <1>0, <1>1, <2>1 DEF Working, At
  <2>3. r \in Nat /\ block[L].head.index \in Nat /\ \A s \in Slots : s \in Nat
    BY <1>0, <2>1, Known, Constants
  <2>4. \A s \in Slots : /\ Holds(L, s) <=> (block[L].head.index <= s /\ s < r)
                         /\ Holds(L, s)' <=> (block[L].head.index <= s /\ s < r + 1)
    BY <1>1, <1>2, <2>1, <2>2, Constants DEF Holds, Steals, SameHead, SameSteal
  <2>5. ~Holds(L, r) /\ \A s \in Slots : (Holds(L, s)' <=> Holds(L, s) \/ s = r) /\ (Holds(L, s) => s < r)
    <3> HIDE DEF r
    <3> QED BY <1>2, <2>1, <2>3, <2>4 DEF r
  <2>6. ASSUME NEW b \in BlockIds, b # L
        PROVE  /\ \A s \in Slots : (Holds(b, s)' <=> Holds(b, s)) /\ block'[b].ring[s] = block[b].ring[s]
               /\ block'[b].steal.round = block[b].steal.round
    BY <1>1, <2>1, <2>2, <2>6 DEF Changes, Holds
  <2>7. ASSUME NEW b \in BlockIds, NEW s \in Slots, Holds(b, s) PROVE ~Sooner(L, b) /\ (b = L => s < r)
    <3>1. CASE b = L
      <4>1. ~Sooner(L, L)
        BY Known, Constants DEF Sooner
      <4>2. QED BY <2>5, <2>7, <3>1, <4>1
    <3>2. CASE b # L
      BY <1>0, <1>1, <2>7, <3>2, CurrentIsNewest
    <3>3. QED BY <3>1, <3>2
  <2>8. \A b \in BlockIds : block'[b].steal.round = block[b].steal.round
    BY <2>1, <2>6 DEF SameSteal
  <2>9. ASSUME NEW b \in BlockIds, NEW s \in Slots
        PROVE  /\ ~(b = L /\ s = r) => block'[b].ring[s] = block[b].ring[s]
               /\ Holds(b, s)' <=> (Holds(b, s) \/ (b = L /\ s = r))
    <3> HIDE DEF r
    <3>1. CASE b = L
      BY <2>1, <2>5, <3>1
    <3>2. CASE b # L
      BY <2>6, <3>2
    <3>3. QED BY <3>1, <3>2
  <2> HIDE DEF r
  <2>10. QED BY <2>1, <2>5, <2>7, <2>8, <2>9, SlotFilled
<1>4. CASE ~HasRoom
  <2>1. block' = block /\ pc'[Owner] = "advance" /\ UNCHANGED <<pushed, taken>>
    BY <1>4, OwnerGoes DEF Put
  <2>2. Working' = Working
    BY <1>0, <1>1, <2>1 DEF Working, At
  <2>3. \A b \in BlockIds : SameHeldIn(b)
    BY <2>1, <2>2, SameAll, HeldIsUnchanged
  <2>4. QED BY <2>1, <2>3, AllHeld
<1>5. QED BY <1>3, <1>4

LEMMA ItemsGet ==
    ASSUME TypeOK, Control, ItemInv, Get
    PROVE  ItemInv'
<1>0. PICK L \in BlockIds : L = last.index
  BY Known
<1>1. pc[Owner] \in {"idle", "get"} /\ UNCHANGED <<last, start>> /\ Working = L
  BY <1>0 DEF Get, Working, At
<1>2. Steals(L, Round(L), Size) /\ block[L].head.index <= block[L].tail
  BY <1>0, <1>1 DEF Control, BlockInv, CurrentInv, Written, Leaving
<1>3. CASE ~Empty
  <2> DEFINE r == block[L].tail - 1
  <2>1. /\ Changes(L) /\ SameHead(L) /\ SameSteal(L) /\ SameRing(L) /\ block'[L].tail = r
        /\ Take(block[L].ring[r]) /\ pushed' = pushed /\ pc'[Owner] = "idle"
    BY <1>0, <1>3, GetEffect, Known DEF Moves
  <2>2. Working' = L
    BY <1>0, <1>1, <2>1 DEF Working, At
  <2>3. /\ block[L].tail \in 0 .. Size /\ block[L].head.index \in 0 .. Size /\ block[L].tail # 0
        /\ block[L].head.index # block[L].tail /\ Size \in Nat /\ Slots = 0 .. Size - 1
    BY <1>0, <1>3, Known, Constants DEF Empty, current
  <2>4. \A s \in Slots : /\ Holds(L, s) <=> (block[L].head.index <= s /\ s < block[L].tail)
                         /\ Holds(L, s)' <=> (block[L].head.index <= s /\ s < r)
    BY <1>1, <1>2, <2>1, <2>2, Constants DEF Holds, Steals, SameHead, SameSteal
  <2>5. r \in Slots /\ Holds(L, r) /\ \A s \in Slots : Holds(L, s)' <=> (Holds(L, s) /\ s # r)
    <3>1. r \in Slots
      BY <2>3
    <3>2. Holds(L, r)
      BY <1>2, <2>3, <2>4, <3>1
    <3>3. ASSUME NEW s \in Slots PROVE Holds(L, s)' <=> (Holds(L, s) /\ s # r)
      BY <2>3, <2>4
    <3>4. QED BY <3>1, <3>2, <3>3
  <2>6. ASSUME NEW b \in BlockIds, b # L
        PROVE  /\ \A s \in Slots : Holds(b, s)' <=> Holds(b, s)
               /\ SameRing(b) /\ block'[b].steal.round = block[b].steal.round
    BY <1>1, <2>1, <2>2, <2>6 DEF Changes, Holds, SameRing
  <2>7. \A b \in BlockIds : SameRing(b) /\ block'[b].steal.round = block[b].steal.round
    BY <2>1, <2>6 DEF SameSteal
  <2>8. \A b \in BlockIds, s \in Slots : Holds(b, s)' <=> (Holds(b, s) /\ ~(b = L /\ s = r))
    BY <2>5, <2>6
  <2> HIDE DEF r
  <2>9. QED BY <2>1, <2>5, <2>7, <2>8, SlotTaken
<1>4. CASE Empty
  <2>1. block' = block /\ pc'[Owner] \in {"idle", "reduce"} /\ UNCHANGED <<pushed, taken>>
    BY <1>4, OwnerGoes DEF Get
  <2>2. Working' = Working
    BY <1>0, <1>1, <2>1 DEF Working, At
  <2>3. \A b \in BlockIds : SameHeldIn(b)
    BY <2>1, <2>2, SameAll, HeldIsUnchanged
  <2>4. QED BY <2>1, <2>3, AllHeld
<1>5. QED BY <1>3, <1>4

LEMMA ItemsAdvance ==
    ASSUME TypeOK, ItemInv, Advance
    PROVE  ItemInv'
<1>1. /\ UNCHANGED <<block, last, pushed, taken>> /\ pc[Owner] = "advance" /\ pc'[Owner] \in {"idle", "grant"}
  BY OwnerGoes DEF Advance, At
<1>2. Working' = Working
  BY <1>1 DEF Working, At
<1>3. \A b \in BlockIds : SameHeldIn(b)
  BY <1>1, <1>2, SameAll, HeldIsUnchanged
<1>4. QED BY <1>1, <1>3, AllHeld

LEMMA ItemsGrant ==
    ASSUME TypeOK, Control, ItemInv, Grant
    PROVE  ItemInv'
<1>0. PICK L \in BlockIds : L = last.index
  BY Known
<1>1. /\ Changes(L) /\ pc[Owner] = "grant" /\ pc'[Owner] = "reclaim" /\ UNCHANGED <<last, start, pushed, taken>>
      /\ SameTail(L) /\ SameRing(L) /\ block'[L].head = block[L].steal /\ block'[L].steal = block[L].head
  BY <1>0, GrantEffect, Known DEF Moves, Keeps, Grant, At
<1>2. Written(L) /\ block[L].tail = Size /\ Size \in Nat /\ block[L].head.index \in 0 .. Size
  BY <1>0, <1>1, Known, Constants DEF Control, BlockInv, CurrentInv, OwnerInv, Leaving, current
<1>3. Working = L /\ Working' = L
  BY <1>0, <1>1 DEF Working, At
<1>4. \A s \in Slots : s \in Nat /\ s < Size
  BY Constants
<1>5. \A s \in Slots : Holds(L, s)' <=> Holds(L, s)
  <2>1. ASSUME NEW s \in Slots PROVE Holds(L, s) <=> (block[L].head.index <= s)
    BY <1>2, <1>3, <1>4 DEF Holds, Written, Steals
  <2>2. ASSUME NEW s \in Slots PROVE Holds(L, s)' <=> (block[L].head.index <= s)
    BY <1>1, <1>2, <1>3, <1>4 DEF Holds, Written, Steals, SameTail
  <2>3. QED BY <2>1, <2>2
<1>6. SameHeldIn(L)
  BY <1>1, <1>2, <1>5 DEF SameHeldIn, SameRing, Written, Steals
<1>7. \A b \in BlockIds : b # L => SameHeldIn(b)
  BY <1>1, <1>3, SameAll, HeldIsUnchanged DEF Changes
<1>8. QED BY <1>1, <1>6, <1>7, AllHeld

(* The next block holds nothing before the owner is in it.                 *)
LEMMA ItemsNext ==
    ASSUME TypeOK, Control, ItemInv, UNCHANGED <<last, start, pushed, taken>>,
           NEW b \in BlockIds, b = Following(last).index, Changes(b), pc[Owner] \in Leaving,
           pc'[Owner] # "move_back", block'[b].steal.index = Size
    PROVE  ItemInv'
<1>1. b # last.index /\ block[b].steal.index = Size /\ Working = last.index /\ Working' = last.index
  BY NextIsDone DEF Leaving, Working, At
<1>2. \A s \in Slots : ~Holds(b, s) /\ ~Holds(b, s)'
  BY <1>1, Constants DEF Holds
<1>3. \A c \in BlockIds : SameHeldIn(c)
  BY <1>1, <1>2, HeldIsNone, SameAll, HeldIsUnchanged DEF Changes
<1>4. QED BY <1>3, AllHeld

LEMMA ItemsReuse ==
    ASSUME TypeOK, Control, ItemInv, Reclaim \/ Renew \/ Recount
    PROVE  ItemInv'
<1>0. PICK F \in BlockIds : F = Following(last).index
  BY Lap
<1>1. CASE Reclaim
  <2>1. /\ Changes(F) /\ SameSteal(F) /\ pc[Owner] \in Leaving /\ pc'[Owner] = "renew"
        /\ UNCHANGED <<last, start, pushed, taken>>
    BY <1>0, <1>1, ReclaimEffect, Known DEF Moves, Keeps, Reclaim, At, Leaving
  <2>2. QED BY <1>0, <2>1, NextIsDone, ItemsNext DEF SameSteal
<1>2. CASE Renew
  <2>1. /\ Changes(F) /\ block'[F].steal.index = Size /\ pc[Owner] \in Leaving /\ pc'[Owner] = "recount"
        /\ UNCHANGED <<last, start, pushed, taken>>
    BY <1>0, <1>2, RenewEffect, Known DEF Moves, Keeps, Renew, At, Leaving
  <2>2. QED BY <1>0, <2>1, ItemsNext
<1>3. CASE Recount
  <2>1. /\ Changes(F) /\ SameSteal(F) /\ pc[Owner] \in Leaving /\ pc'[Owner] = "move_on"
        /\ UNCHANGED <<last, start, pushed, taken>>
    BY <1>0, <1>3, RecountEffect, Known DEF Moves, Keeps, Recount, At, Leaving
  <2>2. QED BY <1>0, <2>1, NextIsDone, ItemsNext DEF SameSteal
<1>4. QED BY <1>1, <1>2, <1>3

LEMMA ItemsMoveOn ==
    ASSUME TypeOK, Control, ItemInv, MoveOn
    PROVE  ItemInv'
<1>0. PICK L \in BlockIds, F \in BlockIds : L = last.index /\ F = Following(last).index
  BY Known, Lap
<1>1. /\ UNCHANGED <<block, start, pushed, taken>> /\ last' = Following(last)
      /\ pc[Owner] = "move_on" /\ pc'[Owner] = "put"
  BY OwnerGoes DEF MoveOn, At
<1>2. /\ F # L /\ block[F].steal.index = Size /\ block[F].head.index = 0 /\ block[F].tail = 0
      /\ block[L].head.index = Size
  BY <1>0, <1>1, NextIsDone DEF Control, BlockInv, CurrentInv, FreshInv, Heads, Granted, Leaving, Fresh
<1>3. Working = L /\ Working' = F
  BY <1>0, <1>1 DEF Working, At
<1>4. \A s \in Slots : s \in Nat /\ s < Size /\ Size \in Nat
  BY Constants
<1>5. \A s \in Slots : ~Holds(F, s) /\ ~Holds(F, s)'
  BY <1>1, <1>2, <1>3, <1>4 DEF Holds
<1>6. \A s \in Slots : Holds(L, s)' <=> Holds(L, s)
  BY <1>1, <1>2, <1>3, <1>4 DEF Holds
<1>7. SameHeldIn(L)
  BY <1>1, <1>6 DEF SameHeldIn
<1>8. \A b \in BlockIds : b \notin {L, F} => SameHeldIn(b)
  BY <1>1, <1>3, SameAll, HeldIsUnchanged
<1>9. \A b \in BlockIds : SameHeldIn(b)
  BY <1>5, <1>7, <1>8, HeldIsNone
<1>10. QED BY <1>1, <1>9, AllHeld

LEMMA ItemsReduceRound ==
    ASSUME TypeOK, Control, ItemInv, ReduceRound
    PROVE  ItemInv'
<1>0. PICK L \in BlockIds : L = last.index
  BY Known
<1>1. /\ Changes(L) /\ pc[Owner] = "reduce" /\ pc'[Owner] = "takeover" /\ UNCHANGED <<last, start, pushed, taken>>
      /\ SameHead(L) /\ SameTail(L) /\ block'[L].steal.index = block[L].steal.index
  BY <1>0, ReduceEffect, Known DEF Moves, Keeps, ReduceRound, At
<1>2. /\ block[L].steal.index = Size /\ block[L].head.index = block[L].tail /\ Size \in Nat
      /\ block[L].tail \in 0 .. Size
  BY <1>0, <1>1, Known, Constants
  DEF Control, BlockInv, CurrentInv, OwnerInv, Leaving, Returning, Written, Steals, current
<1>3. Working' = Working
  BY <1>1 DEF Working, At
<1>4. \A s \in Slots : s \in Nat
  BY Constants
<1>5. \A s \in Slots : ~Holds(L, s) /\ ~Holds(L, s)'
  BY <1>1, <1>2, <1>4 DEF Holds, SameHead, SameTail
<1>6. \A b \in BlockIds : b # L => SameHeldIn(b)
  BY <1>1, <1>3, SameAll, HeldIsUnchanged DEF Changes
<1>7. \A b \in BlockIds : SameHeldIn(b)
  BY <1>5, <1>6, HeldIsNone
<1>8. QED BY <1>1, <1>7, AllHeld

LEMMA ItemsTakeover ==
    ASSUME TypeOK, Control, ItemInv, Takeover
    PROVE  ItemInv'
<1>0. PICK L \in BlockIds, P \in BlockIds : L = last.index /\ P = Preceding(last).index
  BY Known, Lap
<1>1. /\ Changes(P) /\ pc[Owner] = "takeover" /\ pc'[Owner] = "move_back" /\ UNCHANGED <<last, start, pushed, taken>>
      /\ SameTail(P) /\ SameRing(P) /\ block'[P].head = block[P].steal /\ block'[P].steal = block[P].head
  BY <1>0, TakeoverEffect, Known DEF Moves, Keeps, Takeover, At
<1>2. start # last
  BY <1>1 DEF Control, OwnerInv, Returning
<1>3. Within(P) /\ P # L
  BY <1>0, <1>2, Lap, Behind
<1>4. OtherInv(P)
  BY <1>0, <1>3 DEF Control, BlockInv
<1>5. Granted(P) /\ block[P].steal.index \in 0 .. Size /\ Size \in Nat
  BY <1>1, <1>3, <1>4, Known, Constants DEF OtherInv, At
<1>6. Working = L /\ Working' = P
  BY <1>0, <1>1 DEF Working, At, Preceding, Counter
<1>7. \A s \in Slots : s \in Nat /\ s < Size
  BY Constants
<1>8. \A s \in Slots : Holds(P, s)' <=> Holds(P, s)
  <2>1. ASSUME NEW s \in Slots PROVE Holds(P, s) <=> (block[P].steal.index <= s)
    BY <1>3, <1>5, <1>6, <1>7 DEF Holds
  <2>2. ASSUME NEW s \in Slots PROVE Holds(P, s)' <=> (block[P].steal.index <= s)
    BY <1>1, <1>5, <1>6, <1>7 DEF Holds, Granted, Heads, SameTail
  <2>3. QED BY <2>1, <2>2
<1>9. SameHeldIn(P)
  BY <1>1, <1>5, <1>8 DEF SameHeldIn, SameRing, Granted, Heads
<1>10. /\ block[L].steal.index = Size /\ block'[L] = block[L]
       /\ block[L].head.index = block[L].tail /\ block[L].tail \in 0 .. Size
  BY <1>0, <1>1, <1>3, Known
  DEF Changes, Control, BlockInv, CurrentInv, OwnerInv, Leaving, Returning, Steals, current
<1>11. \A s \in Slots : ~Holds(L, s) /\ ~Holds(L, s)'
  BY <1>3, <1>5, <1>6, <1>7, <1>10 DEF Holds
<1>12. \A b \in BlockIds : b \notin {L, P} => SameHeldIn(b)
  BY <1>1, <1>6, SameAll, HeldIsUnchanged DEF Changes
<1>13. \A b \in BlockIds : SameHeldIn(b)
  BY <1>9, <1>11, <1>12, HeldIsNone
<1>14. QED BY <1>1, <1>13, AllHeld

LEMMA ItemsMoveBack ==
    ASSUME TypeOK, Control, ItemInv, MoveBack
    PROVE  ItemInv'
<1>1. /\ UNCHANGED <<block, pushed, taken>> /\ last' = Preceding(last)
      /\ pc[Owner] = "move_back" /\ pc'[Owner] = "get"
  BY OwnerGoes DEF MoveBack, At
<1>2. Working' = Working
  BY <1>1 DEF Working, At
<1>3. \A b \in BlockIds : SameHeldIn(b)
  BY <1>1, <1>2, SameAll, HeldIsUnchanged
<1>4. QED BY <1>1, <1>3, AllHeld

-----------------------------------------------------------------------------
(* The thieves' steps.                                                     *)
LEMMA ItemsUntouched ==
    ASSUME ItemInv, UNCHANGED <<block, last, pushed, taken>>, pc'[Owner] = pc[Owner]
    PROVE  ItemInv'
<1>1. Working' = Working
  BY DEF Working, At
<1>2. \A b \in BlockIds : SameHeldIn(b)
  BY <1>1, SameAll, HeldIsUnchanged
<1>3. QED BY <1>2, AllHeld

LEMMA ControlUntouched ==
    ASSUME TypeOK, Control, UNCHANGED <<block, last, start>>, pc'[Owner] = pc[Owner]
    PROVE  Control'
<1>1. \A b \in BlockIds : Unmoved(b)
  BY DEF Unmoved, SameHead, SameTail
<1>2. QED BY <1>1, ControlKept

(* A step of a thief that neither claims a slot nor has claimed one.       *)
LEMMA ThiefQuiet ==
    ASSUME IInv, NEW t \in Thieves, NEW where \in Places \ {"read", "count"}, Goto(t, where), ~Reader(t),
           UNCHANGED <<block, last, start, pushed, taken>>,
           thief' \in [Thieves -> ThiefState], \A u \in Thieves : u # t => thief'[u] = thief[u],
           where \in {"check", "claim"} => thief'[t].position.index # Size
    PROVE  IInv'
<1>1. /\ pc' \in [Threads -> Places] /\ pc'[t] = where /\ pc'[Owner] = pc[Owner]
      /\ \A u \in Thieves : u # t => pc'[u] = pc[u]
  BY Moved, Known DEF IInv, Moves
<1>2. TypeOK'
  BY <1>1, TypeParts, TypePartsNext DEF IInv
<1>3. Control' /\ ItemInv'
  BY <1>1, ControlUntouched, ItemsUntouched DEF IInv
<1>4. ~Reader(t)' /\ \A u \in Thieves : u # t => Reader(u)' = Reader(u)
  BY <1>1 DEF Reader
<1>5. \A b : Readers(b)' = Readers(b)
  BY <1>4 DEF Readers
<1>6. CountInv'
  <2>1. \A b \in BlockIds : Recounts(b)' = Recounts(b) /\ Claimed(b)' = Claimed(b)
    BY <1>1 DEF Recounts, Following, Counter, Claimed
  <2>2. \A b \in BlockIds : Cardinality(Readers(b))' = Cardinality(Readers(b))
    BY <1>5
  <2>3. Following(last)' = Following(last)
    BY DEF Following, Counter
  <2>4. (pc[Owner] \in Fresh => Readers(Following(last).index) = {})'
    BY <1>1, <1>5, <2>3 DEF IInv, CountInv
  <2>5. \A b \in BlockIds : (Recounts(b) \/ block[b].count + Cardinality(Readers(b)) = Claimed(b))'
    BY <2>1, <2>2 DEF IInv, CountInv
  <2>6. QED BY <2>4, <2>5 DEF CountInv
<1>7. ThiefInv'
  <2> SUFFICES ASSUME NEW u \in Thieves
               PROVE  /\ pc'[u] \in {"check", "claim"} => thief'[u].position.index # Size
                      /\ Reader(u)' => Reading(u)'
    BY DEF ThiefInv
  <2>1. CASE u = t
    BY <1>1, <1>4, <2>1
  <2>2. CASE u # t
    BY <1>1, <1>4, <2>2 DEF IInv, ThiefInv, Reading, Claimed
  <2>3. QED BY <2>1, <2>2
<1>8. QED BY <1>2, <1>3, <1>6, <1>7 DEF IInv

LEMMA ThiefStates ==
    ASSUME TypeOK, NEW t \in Thieves
    PROVE  /\ thief \in [Thieves -> ThiefState] /\ NoThief \in ThiefState
           /\ \A c \in Counters : [thief[t] EXCEPT !.at = c] \in ThiefState
           /\ \A c \in Positions : [thief[t] EXCEPT !.position = c] \in ThiefState
           /\ \A i \in 0 .. NumItems : [thief[t] EXCEPT !.claim = i] \in ThiefState
<1>1. thief \in [Thieves -> ThiefState]
  BY TypeParts
<1>2. Counter(0, 0) \in Counters /\ Counter(0, 0) \in Positions /\ 0 \in 0 .. NumItems
  BY Constants DEF Counter, Counters, Positions
<1>3. QED BY <1>1, <1>2 DEF NoThief, ThiefState

LEMMA KeptByStealFront ==
    ASSUME IInv, NEW t \in Thieves, StealFront(t)
    PROVE  IInv'
<1>1. /\ thief' \in [Thieves -> ThiefState] /\ \A u \in Thieves : u # t => thief'[u] = thief[u]
  BY ThiefStates, Known DEF IInv, StealFront
<1>2. QED BY <1>1, ThiefQuiet DEF StealFront, Places, Reader, At

LEMMA Returns ==
    ASSUME IInv, NEW t \in Thieves, Return(t)
    PROVE  thief' \in [Thieves -> ThiefState] /\ \A u \in Thieves : u # t => thief'[u] = thief[u]
BY ThiefStates DEF IInv, Return

LEMMA KeptByLoad ==
    ASSUME IInv, NEW t \in Thieves, Load(t)
    PROVE  IInv'
<1>0. ~Reader(t) /\ UNCHANGED <<block, last, start, pushed, taken>> /\ thief \in [Thieves -> ThiefState]
  BY ThiefStates DEF IInv, Load, Reader, At
<1> DEFINE position == Target(t).steal
<1>1. CASE /\ position.index # Size
           /\ thief' = [thief EXCEPT ![t].position = position] /\ Goto(t, "check")
  <2>1. position \in Positions
    BY Known DEF IInv, Target
  <2>2. thief' \in [Thieves -> ThiefState] /\ \A u \in Thieves : u # t => thief'[u] = thief[u]
    BY <1>0, <1>1, <2>1, ThiefStates DEF IInv
  <2>3. thief'[t].position = position
    BY <1>0, <1>1 DEF ThiefState
  <2>4. QED BY <1>0, <1>1, <2>2, <2>3, ThiefQuiet DEF Places
<1>2. CASE Goto(t, "next") /\ UNCHANGED thief
  BY <1>0, <1>2, ThiefQuiet DEF Places
<1>3. CASE Return(t)
  BY <1>0, <1>3, Returns, ThiefQuiet DEF Places, Return
<1>4. QED BY <1>1, <1>2, <1>3 DEF Load

LEMMA KeptByCheckTail ==
    ASSUME IInv, NEW t \in Thieves, CheckTail(t)
    PROVE  IInv'
<1>0. /\ ~Reader(t) /\ UNCHANGED <<block, last, start, pushed, taken>> /\ thief \in [Thieves -> ThiefState]
      /\ thief[t].position.index # Size
  BY ThiefStates DEF IInv, ThiefInv, CheckTail, Reader, At
<1>1. CASE Goto(t, "claim") /\ UNCHANGED thief
  BY <1>0, <1>1, ThiefQuiet DEF Places
<1>2. CASE Return(t)
  BY <1>0, <1>2, Returns, ThiefQuiet DEF Places, Return
<1>3. QED BY <1>1, <1>2 DEF CheckTail

LEMMA KeptByAdvanceSteal ==
    ASSUME IInv, NEW t \in Thieves, AdvanceSteal(t)
    PROVE  IInv'
<1>0. ~Reader(t) /\ UNCHANGED <<block, last, start, pushed, taken>> /\ thief \in [Thieves -> ThiefState]
  BY ThiefStates DEF IInv, AdvanceSteal, Reader, At
<1>1. CASE thief' = [thief EXCEPT ![t].at = Following(@)] /\ Goto(t, "load")
  <2>1. Following(thief[t].at) \in Counters
    BY Known, FollowingIs DEF IInv
  <2>2. thief' \in [Thieves -> ThiefState] /\ \A u \in Thieves : u # t => thief'[u] = thief[u]
    BY <1>0, <1>1, <2>1, ThiefStates DEF IInv
  <2>3. QED BY <1>0, <1>1, <2>2, ThiefQuiet DEF Places
<1>2. CASE Return(t)
  BY <1>0, <1>2, Returns, ThiefQuiet DEF Places, Return
<1>3. QED BY <1>1, <1>2 DEF AdvanceSteal

LEMMA KeptByRead ==
    ASSUME IInv, NEW t \in Thieves, Read(t)
    PROVE  IInv'
<1>1. /\ pc' \in [Threads -> Places] /\ pc'[t] = "count" /\ pc'[Owner] = pc[Owner] /\ pc[t] = "read"
      /\ \A u \in Thieves : u # t => pc'[u] = pc[u]
      /\ UNCHANGED <<block, last, start, thief, pushed, taken>>
  BY Moved, Known DEF IInv, Moves, Read, Places, At
<1>2. TypeOK'
  BY <1>1, TypeParts, TypePartsNext DEF IInv
<1>3. Control' /\ ItemInv'
  BY <1>1, ControlUntouched, ItemsUntouched DEF IInv
<1>4. \A u \in Thieves : Reader(u)' = Reader(u)
  BY <1>1 DEF Reader
<1>5. \A b : Readers(b)' = Readers(b)
  BY <1>1, <1>4 DEF Readers
<1>6. CountInv'
  <2>1. \A b \in BlockIds : Recounts(b)' = Recounts(b) /\ Claimed(b)' = Claimed(b)
    BY <1>1 DEF Recounts, Following, Counter, Claimed
  <2>2. \A b \in BlockIds : Cardinality(Readers(b))' = Cardinality(Readers(b))
    BY <1>5
  <2>3. Following(last)' = Following(last)
    BY <1>1 DEF Following, Counter
  <2>4. (pc[Owner] \in Fresh => Readers(Following(last).index) = {})'
    BY <1>1, <1>5, <2>3 DEF IInv, CountInv
  <2>5. \A b \in BlockIds : (Recounts(b) \/ block[b].count + Cardinality(Readers(b)) = Claimed(b))'
    BY <1>1, <2>1, <2>2 DEF IInv, CountInv
  <2>6. QED BY <2>4, <2>5 DEF CountInv
<1>7. ThiefInv'
  <2> SUFFICES ASSUME NEW u \in Thieves
               PROVE  /\ pc'[u] \in {"check", "claim"} => thief'[u].position.index # Size
                      /\ Reader(u)' => Reading(u)'
    BY DEF ThiefInv
  <2>1. pc'[u] \in {"check", "claim"} => pc[u] \in {"check", "claim"}
    BY <1>1
  <2>2. QED BY <1>1, <1>4, <2>1 DEF IInv, ThiefInv, Reading, Claimed
<1>8. QED BY <1>2, <1>3, <1>6, <1>7 DEF IInv

(* A claim takes the first of the granted block's queued items.            *)
LEMMA KeptByClaim ==
    ASSUME IInv, NEW t \in Thieves, Claim(t)
    PROVE  IInv'
<1>0. /\ ~Reader(t) /\ thief \in [Thieves -> ThiefState] /\ pc[t] = "claim"
      /\ thief[t].position.index # Size
  BY ThiefStates DEF IInv, ThiefInv, Claim, Reader, At
<1>1. CASE Target(t).steal # thief[t].position
  <2>1. Goto(t, "load") /\ UNCHANGED <<block, last, start, thief, pushed, taken>>
    BY <1>1 DEF Claim
  <2>2. QED BY <1>0, <2>1, ThiefQuiet DEF Places
<1>2. CASE Target(t).steal = thief[t].position
  <2>0. PICK c \in BlockIds, r \in Slots : c = thief[t].at.index /\ r = thief[t].position.index
    <3>1. thief[t].position.index \in 0 .. Size /\ thief[t].at.index \in BlockIds
      BY Known DEF IInv
    <3>2. thief[t].position.index \in Slots
      BY <1>0, <3>1, Constants
    <3>3. QED BY <3>1, <3>2
  <2>1. /\ Changes(c) /\ Moves(t, "read") /\ UNCHANGED <<last, start, pushed>>
        /\ block[c].steal.index = r
        /\ block'[c].steal.round = block[c].steal.round /\ block'[c].steal.index = r + 1
        /\ SameHead(c) /\ SameTail(c) /\ SameCount(c) /\ SameRing(c)
        /\ Take(block[c].ring[r])
        /\ thief' = [thief EXCEPT ![t].claim = block[c].ring[r]]
    BY <1>0, <1>2, <2>0, ClaimEffect DEF IInv
  <2>2. /\ pc' \in [Threads -> Places] /\ pc'[t] = "read" /\ pc'[Owner] = pc[Owner]
        /\ \A u \in Thieves : u # t => pc'[u] = pc[u]
    BY <2>1, Known DEF IInv, Moves
  <2>3. r \in Nat /\ r < Size /\ Size \in Nat /\ \A s \in Slots : s \in Nat /\ s < Size
    BY Constants
  <2>4. /\ Granted(c) /\ (c = last.index => pc[Owner] \in Leaving)
        /\ (At(Owner, "move_back") => c # Preceding(last).index)
    BY <2>1, <2>3, StealEnds DEF IInv
  <2>5. Holds(c, r)
    BY <2>1, <2>3 DEF Holds
  <2>6. block[c].ring[r] \in Queued /\ block[c].ring[r] \in Items /\ block[c].ring[r] \in 0 .. NumItems
    BY <2>1, <2>5, QueuedTaken, Known DEF IInv, ItemInv, HeldInv
  <2>7. TypeOK'
    <3>1. thief' \in [Thieves -> ThiefState]
      BY <2>1, <2>6, ThiefStates DEF IInv
    <3>2. taken' \in [Items -> 0 .. 2]
      BY <2>1, <2>6, TakeType DEF IInv
    <3>3. QED BY <2>1, <2>2, <3>1, <3>2, TypeParts, TypePartsNext DEF IInv, Changes
  <2>8. Control'
    <3>1. Unmoved(c)
      BY <2>1, <2>3 DEF Unmoved
    <3>2. \A b \in BlockIds : Unmoved(b)
      BY <2>1, <3>1 DEF Changes, Unmoved, SameHead, SameTail
    <3>3. QED BY <2>1, <2>2, <3>2, ControlKept DEF IInv
  <2>9. ItemInv'
    <3>1. Working' = Working
      BY <2>1, <2>2 DEF Working, At, Preceding, Counter
    <3>2. ASSUME NEW s \in Slots PROVE Holds(c, s)' <=> (Holds(c, s) /\ s # r)
      <4>1. Holds(c, s) <=> r <= s
        BY <2>1, <2>3 DEF Holds
      <4>2. Holds(c, s)' <=> r + 1 <= s
        <5>1. CASE r + 1 < Size
          BY <2>1, <2>3, <5>1 DEF Holds
        <5>2. CASE ~(r + 1 < Size)
          BY <2>1, <2>3, <2>4, <5>2 DEF Holds, SameHead, Granted, Heads
        <5>3. QED BY <5>1, <5>2
      <4>3. QED BY <2>3, <4>1, <4>2
    <3>3. ASSUME NEW b \in BlockIds, b # c
          PROVE  /\ \A s \in Slots : Holds(b, s)' <=> Holds(b, s)
                 /\ SameRing(b) /\ block'[b].steal.round = block[b].steal.round
      BY <2>1, <3>1, <3>3 DEF Changes, Holds, SameRing
    <3>4. \A b \in BlockIds : SameRing(b) /\ block'[b].steal.round = block[b].steal.round
      BY <2>1, <3>3
    <3>5. \A b \in BlockIds, s \in Slots : Holds(b, s)' <=> (Holds(b, s) /\ ~(b = c /\ s = r))
      BY <3>2, <3>3
    <3>6. QED BY <2>1, <2>5, <3>4, <3>5, SlotTaken DEF IInv
  <2>10. Claimed(c) = r /\ Claimed(c)' = r + 1 /\ \A b \in BlockIds : b # c => Claimed(b)' = Claimed(b)
    <3>1. Claimed(c) = r
      BY <2>1, <2>3 DEF Claimed
    <3>2. Claimed(c)' = r + 1
      BY <2>1, <2>3, <2>4 DEF Claimed, SameHead, Granted, Heads
    <3>3. QED BY <2>1, <3>1, <3>2 DEF Changes, Claimed
  <2>11. /\ thief'[t].at.index = c /\ thief'[t].position.index = r /\ thief'[t].claim = block[c].ring[r]
         /\ \A u \in Thieves : u # t => thief'[u] = thief[u]
    BY <1>0, <2>0, <2>1 DEF ThiefState
  <2>12. ThiefInv'
    <3> SUFFICES ASSUME NEW u \in Thieves
                 PROVE  /\ pc'[u] \in {"check", "claim"} => thief'[u].position.index # Size
                        /\ Reader(u)' => Reading(u)'
      BY DEF ThiefInv
    <3>1. CASE u = t
      <4>1. Reading(t)'
        BY <2>1, <2>3, <2>6, <2>10, <2>11 DEF Reading, SameRing
      <4>2. QED BY <2>2, <3>1, <4>1
    <3>2. CASE u # t
      <4>1. pc'[u] = pc[u] /\ thief'[u] = thief[u]
        BY <2>2, <2>11, <3>2
      <4>2. ASSUME Reader(u) PROVE Reading(u)'
        <5> DEFINE b == thief[u].at.index
                   s == thief[u].position.index
        <5>1. Reading(u) /\ b \in BlockIds
          BY <4>2, Known DEF IInv, ThiefInv
        <5>2. block'[b].ring = block[b].ring
          BY <2>1, <5>1 DEF Changes, SameRing
        <5>3. s \in Slots /\ s < Claimed(b) /\ thief[u].claim \in Items /\ block[b].ring[s] = thief[u].claim
          BY <5>1 DEF Reading
        <5>4. \A d \in BlockIds : d = b => s < Claimed(d)'
          <6>1. Claimed(c) = r /\ r \in Nat /\ s \in Nat
            BY <2>3, <2>10, <5>3
          <6>2. ASSUME NEW d \in BlockIds, d = b PROVE s < Claimed(d)'
            <7>1. CASE d = c
              BY <2>10, <5>3, <6>1, <6>2, <7>1
            <7>2. CASE d # c
              BY <2>10, <5>3, <6>2, <7>2
            <7>3. QED BY <7>1, <7>2
          <6>3. QED BY <6>2
        <5>5. QED BY <4>1, <5>1, <5>2, <5>3, <5>4 DEF Reading
      <4>3. QED BY <4>1, <4>2 DEF IInv, ThiefInv, Reader
    <3>3. QED BY <3>1, <3>2
  <2>13. t \notin Readers(c) /\ Readers(c)' = Readers(c) \cup {t} /\ \A b \in BlockIds : b # c => Readers(b)' = Readers(b)
    BY <1>0, <2>0, <2>2, <2>11 DEF Readers, Reader
  <2>14. pc[Owner] \in Fresh \cup {"grant"} \cup Leaving => c # Following(last).index
    BY <2>1, <2>3, NextIsDone DEF IInv, Fresh, Leaving
  <2>15. Following(last)' = Following(last)
    BY <2>1 DEF Following, Counter
  <2>16. CountInv'
    <3>1. (pc[Owner] \in Fresh => Readers(Following(last).index) = {})'
      <4>1. Following(last).index \in BlockIds
        BY Lap DEF IInv
      <4>2. pc[Owner] \in Fresh => \A b \in BlockIds : b = Following(last).index => Readers(b)' = {}
        BY <2>13, <2>14 DEF IInv, CountInv
      <4>3. QED BY <2>2, <2>15, <4>1, <4>2
    <3>2. ASSUME NEW b \in BlockIds PROVE (Recounts(b) \/ block[b].count + Cardinality(Readers(b)) = Claimed(b))'
      <4>1. Recounts(b)' <=> Recounts(b)
        BY <2>2, <2>15 DEF Recounts
      <4>2. CASE b = c
        <5>1. block[c].count + Cardinality(Readers(c)) = r
          BY <2>10, <2>14, <4>2 DEF IInv, CountInv, Recounts, Fresh
        <5>2. Cardinality(Readers(c))' = Cardinality(Readers(c)) + 1
          BY <2>13, ReadersFinite, FS_AddElement
        <5>3. block[c].count \in Nat /\ Cardinality(Readers(c)) \in Nat
          BY Known, Constants, ReadersFinite DEF IInv
        <5>4. QED BY <2>1, <2>3, <2>10, <4>2, <5>1, <5>2, <5>3 DEF SameCount
      <4>3. CASE b # c
        <5>1. Cardinality(Readers(b))' = Cardinality(Readers(b)) /\ block'[b] = block[b]
          BY <2>1, <2>13, <4>3 DEF Changes
        <5>2. QED BY <2>10, <4>1, <4>3, <5>1 DEF IInv, CountInv
      <4>4. QED BY <4>2, <4>3
    <3>3. QED BY <3>1, <3>2 DEF CountInv
  <2>17. QED BY <2>7, <2>8, <2>9, <2>12, <2>16 DEF IInv
<1>3. QED BY <1>1, <1>2

LEMMA KeptByCountRead ==
    ASSUME IInv, NEW t \in Thieves, CountRead(t)
    PROVE  IInv'
<1>1. /\ Reader(t) /\ pc[t] = "count" /\ thief \in [Thieves -> ThiefState]
  BY ThiefStates DEF IInv, CountRead, Reader, At
<1>2. PICK c \in BlockIds : c = thief[t].at.index
  BY Known DEF IInv
<1>3. ~Recounts(c) /\ block[c].count < Size /\ (pc[Owner] \in Fresh => c # Following(last).index)
  BY <1>1, <1>2, CountsBelow DEF IInv
<1>4. /\ Changes(c) /\ Moves(t, "idle") /\ UNCHANGED <<last, start, pushed, taken>>
      /\ block'[c].count = block[c].count + 1
      /\ SameHead(c) /\ SameTail(c) /\ SameSteal(c) /\ SameRing(c)
      /\ thief' = [thief EXCEPT ![t] = NoThief]
  BY <1>2, <1>3, CountEffect DEF IInv
<1>5. /\ pc' \in [Threads -> Places] /\ pc'[t] = "idle" /\ pc'[Owner] = pc[Owner]
      /\ \A u \in Thieves : u # t => pc'[u] = pc[u]
  BY <1>4, Known DEF IInv, Moves
<1>6. thief' \in [Thieves -> ThiefState] /\ \A u \in Thieves : u # t => thief'[u] = thief[u]
  BY <1>1, <1>4, ThiefStates DEF IInv
<1>7. TypeOK'
  BY <1>4, <1>5, <1>6, TypeParts, TypePartsNext DEF IInv, Changes
<1>8. Control'
  <2>1. \A b \in BlockIds : Unmoved(b)
    BY <1>4 DEF Changes, Unmoved, SameHead, SameTail, SameSteal
  <2>2. QED BY <1>4, <1>5, <2>1, ControlKept DEF IInv
<1>9. ItemInv'
  <2>1. Working' = Working
    BY <1>4, <1>5 DEF Working, At, Preceding, Counter
  <2>2. \A b \in BlockIds : SameHeldIn(b)
    BY <1>4, <2>1, SameAll, HeldIsUnchanged DEF Changes
  <2>3. QED BY <1>4, <2>2, AllHeld DEF IInv
<1>10. \A b \in BlockIds : Claimed(b)' = Claimed(b) /\ block'[b].ring = block[b].ring
  BY <1>4 DEF Changes, Claimed, SameHead, SameSteal, SameRing
<1>11. ThiefInv'
  <2> SUFFICES ASSUME NEW u \in Thieves
               PROVE  /\ pc'[u] \in {"check", "claim"} => thief'[u].position.index # Size
                      /\ Reader(u)' => Reading(u)'
    BY DEF ThiefInv
  <2>1. CASE u = t
    BY <1>5, <2>1 DEF Reader
  <2>2. CASE u # t
    <3>1. pc'[u] = pc[u] /\ thief'[u] = thief[u] /\ thief[u].at.index \in BlockIds
      BY <1>5, <1>6, <2>2, Known DEF IInv
    <3>2. ASSUME Reader(u) PROVE Reading(u)'
      <4>1. Reading(u)
        BY <3>2 DEF IInv, ThiefInv
      <4>2. QED BY <1>10, <3>1, <4>1 DEF Reading
    <3>3. QED BY <3>1, <3>2 DEF IInv, ThiefInv, Reader
  <2>3. QED BY <2>1, <2>2
<1>12. t \in Readers(c) /\ Readers(c)' = Readers(c) \ {t} /\ \A b \in BlockIds : b # c => Readers(b)' = Readers(b)
  BY <1>1, <1>2, <1>5, <1>6 DEF Readers, Reader
<1>13. Following(last)' = Following(last)
  BY <1>4 DEF Following, Counter
<1>14. CountInv'
  <2>1. (pc[Owner] \in Fresh => Readers(Following(last).index) = {})'
    <3>1. Following(last).index \in BlockIds
      BY Lap DEF IInv
    <3>2. pc[Owner] \in Fresh => \A b \in BlockIds : b = Following(last).index => Readers(b)' = {}
      BY <1>3, <1>12 DEF IInv, CountInv
    <3>3. QED BY <1>5, <1>13, <3>1, <3>2
  <2>2. ASSUME NEW b \in BlockIds PROVE (Recounts(b) \/ block[b].count + Cardinality(Readers(b)) = Claimed(b))'
    <3>1. Recounts(b)' <=> Recounts(b)
      BY <1>5, <1>13 DEF Recounts
    <3>2. CASE b = c
      <4>1. block[c].count + Cardinality(Readers(c)) = Claimed(c)
        BY <1>3 DEF IInv, CountInv
      <4>2. Cardinality(Readers(c))' = Cardinality(Readers(c)) - 1
        BY <1>12, ReadersFinite, FS_RemoveElement
      <4>3. block[c].count \in Nat /\ Cardinality(Readers(c)) \in Nat
        BY Known, Constants, ReadersFinite DEF IInv
      <4>4. (block[c].count + 1) + (Cardinality(Readers(c)) - 1) = Claimed(c)
        BY <4>1, <4>3
      <4>5. QED BY <1>4, <1>10, <3>2, <4>2, <4>4
    <3>3. CASE b # c
      <4>1. Cardinality(Readers(b))' = Cardinality(Readers(b)) /\ block'[b] = block[b]
        BY <1>4, <1>12, <3>3 DEF Changes
      <4>2. QED BY <1>10, <3>1, <4>1 DEF IInv, CountInv
    <3>4. QED BY <3>2, <3>3
  <2>3. QED BY <2>1, <2>2 DEF CountInv
<1>15. QED BY <1>7, <1>8, <1>9, <1>11, <1>14 DEF IInv

-----------------------------------------------------------------------------
(* The first block is the owner's, and nothing is queued.                  *)
LEMMA Beginning == Init => IInv
<1> SUFFICES ASSUME Init PROVE IInv
  OBVIOUS
<1>1. /\ Blocks \in Nat \ {0} /\ Size \in Nat \ {0} /\ NumItems \in Nat /\ BlockIds = 0 .. Blocks - 1
      /\ 0 \in BlockIds /\ Owner \notin Thieves
  BY Constants
<1>2. /\ last.round = 0 /\ last.index = 0 /\ start = last /\ start.round = 0 /\ start.index = 0
      /\ pc[Owner] = "idle" /\ \A t \in Thieves : pc[t] = "idle"
  BY DEF Init, Counter
<1>3. /\ block[0].head.round = 0 /\ block[0].head.index = 0 /\ block[0].tail = 0 /\ block[0].count = 0
      /\ block[0].steal.round = 0 /\ block[0].steal.index = Size
  BY <1>1 DEF Init, Counter
<1>4. \A b \in BlockIds : b # 0 => /\ block[b].head.index = Size /\ block[b].tail = Size /\ block[b].count = Size
                                   /\ block[b].steal.round = -1 /\ block[b].steal.index = Size
  BY <1>1 DEF Init, Counter
<1>5. TypeOK
  <2>1. \A i \in {0, Size}, r \in {0, -1} : Counter(r, i) \in Positions
    BY <1>1 DEF Counter, Positions
  <2>2. [s \in Slots |-> 0] \in [Slots -> 0 .. NumItems] /\ 0 \in 0 .. Size /\ Size \in 0 .. Size
    BY <1>1
  <2>3. block \in [BlockIds -> BlockState]
    BY <2>1, <2>2 DEF Init, BlockState
  <2>4. Counter(0, 0) \in Counters
    BY <1>1 DEF Counter, Counters
  <2>5. NoThief \in ThiefState
    BY <1>1, <2>1, <2>4 DEF NoThief, ThiefState
  <2>6. pc \in [Threads -> Places]
    BY DEF Init, Threads, Places
  <2>7. thief \in [Thieves -> ThiefState] /\ taken \in [Items -> 0 .. 2] /\ pushed \in 0 .. NumItems
    BY <1>1, <2>5 DEF Init
  <2>8. QED BY <2>3, <2>4, <2>6, <2>7, TypeParts DEF Init
<1>6. \A b \in BlockIds : Round(b) = (IF b = 0 THEN 0 ELSE -1) /\ (Within(b) <=> b = 0)
  BY <1>1, <1>2 DEF Round, Within
<1>7. Control
  <2>1. Written(0)
    BY <1>1, <1>3, <1>6 DEF Written, Steals
  <2>2. ASSUME NEW b \in BlockIds, b # 0 PROVE OtherInv(b)
    BY <1>2, <1>4, <1>6, <2>2 DEF OtherInv, Steals, At
  <2>3. BlockInv
    BY <1>2, <2>1, <2>2 DEF BlockInv, CurrentInv, Leaving
  <2>4. OwnerInv /\ FreshInv
    BY <1>2, <1>3 DEF OwnerInv, FreshInv, Leaving, Fresh, Returning, current
  <2>5. QED BY <2>3, <2>4 DEF Control
<1>8. CountInv
  <2>1. \A b : Readers(b) = {} /\ Cardinality(Readers(b)) = 0
    BY <1>2, FS_EmptySet DEF Readers, Reader
  <2>2. \A b \in BlockIds : block[b].count + 0 = Claimed(b)
    BY <1>1, <1>3, <1>4 DEF Claimed
  <2>3. QED BY <2>1, <2>2 DEF CountInv
<1>9. ThiefInv
  BY <1>2 DEF ThiefInv, Reader
<1>10. ItemInv
  <2>1. Working = 0
    BY <1>2 DEF Working, At
  <2>2. \A b \in BlockIds, s \in Slots : ~Holds(b, s)
    BY <1>1, <1>3, <1>4, <2>1, Constants DEF Holds
  <2>3. Queued = {}
    BY DEF Init, Queued
  <2>4. PushedInv
    BY DEF Init, PushedInv
  <2>5. QED BY <2>2, <2>3, <2>4 DEF ItemInv, HeldInv, FoundInv, OrderInv
<1>11. QED BY <1>5, <1>7, <1>8, <1>9, <1>10 DEF IInv

LEMMA KeptByOwner ==
    ASSUME IInv,
           Advance \/ Grant \/ Reclaim \/ Renew \/ Recount \/ MoveOn \/ ReduceRound \/ Takeover \/ MoveBack
           \/ Put \/ Get
    PROVE  IInv'
<1>1. TypeOK /\ Control /\ CountInv /\ ThiefInv /\ ItemInv /\ Counting
  BY DEF IInv, Counting
<1>2. TypeOK'
  BY <1>1, OwnerType
<1>3. Control'
  BY <1>1, ControlAdvance, ControlGrant, ControlReclaim, ControlRenew, ControlRecount, ControlMoveOn,
     ControlReduceRound, ControlTakeover, ControlMoveBack, ControlPut, ControlGet
<1>4. Counting'
  BY <1>1, CountingAdvance, CountingGrant, CountingReclaim, CountingRenew, CountingRecount, CountingMoveOn,
     CountingReduceRound, CountingTakeover, CountingMoveBack, CountingPut, CountingGet
<1>5. ItemInv'
  BY <1>1, ItemsAdvance, ItemsGrant, ItemsReuse, ItemsMoveOn, ItemsReduceRound, ItemsTakeover,
     ItemsMoveBack, ItemsPut, ItemsGet
<1>6. QED BY <1>2, <1>3, <1>4, <1>5 DEF IInv, Counting

LEMMA KeptByStuttering ==
    ASSUME IInv, UNCHANGED vars
    PROVE  IInv'
<1>1. UNCHANGED <<block, last, start, pc, thief, pushed, taken>>
  BY DEF vars
<1>2. TypeOK'
  BY <1>1, TypeParts, TypePartsNext DEF IInv
<1>3. Control' /\ ItemInv'
  BY <1>1, ControlUntouched, ItemsUntouched DEF IInv
<1>4. CountInv' /\ ThiefInv'
  BY <1>1 DEF IInv, CountInv, ThiefInv, Fresh, Readers, Reader, Recounts, Claimed, Reading, Following, Counter
<1>5. QED BY <1>2, <1>3, <1>4 DEF IInv

(* The invariant of the queue: the types, what the owner knows of the      *)
(* blocks' counters, that a block's readers are those that it was not told *)
(* of, that claimed slots stay as they are, and where the items are.       *)
THEOREM Invariance == Spec => []IInv
<1>1. IInv /\ [Next]_vars => IInv'
  <2> SUFFICES ASSUME IInv, [Next]_vars PROVE IInv'
    OBVIOUS
  <2>1. CASE Advance \/ Grant \/ Reclaim \/ Renew \/ Recount \/ MoveOn \/ ReduceRound \/ Takeover \/ MoveBack
             \/ Put \/ Get
    BY <2>1, KeptByOwner
  <2>2. ASSUME NEW t \in Thieves, StealFront(t) \/ ThiefStep(t) PROVE IInv'
    BY <2>2, KeptByStealFront, KeptByLoad, KeptByCheckTail, KeptByClaim, KeptByRead, KeptByCountRead,
       KeptByAdvanceSteal DEF ThiefStep
  <2>3. CASE UNCHANGED vars
    BY <2>3, KeptByStuttering
  <2>4. QED BY <2>1, <2>2, <2>3 DEF Next, OwnerStep
<1>2. QED BY Beginning, <1>1, PTL DEF Spec

(* The variables have their types.                                         *)
THEOREM Types == Spec => []TypeOK
<1>1. IInv => TypeOK
  BY DEF IInv
<1>2. QED BY Invariance, <1>1, PTL

(* A thief reads the item it claimed, for any number of blocks, of any     *)
(* size, that the owner reuses while the thief has yet to read.            *)
THEOREM ClaimsAreRead == Spec => []ReadsItsClaim
<1>1. IInv => ReadsItsClaim
  BY DEF IInv, ThiefInv, Reader, Reading, ReadsItsClaim, Target, At
<1>2. QED BY Invariance, <1>1, PTL

(* With start at the current block, no other block holds an item.          *)
LEMMA ToldEmpty ==
    ASSUME IInv, pc[Owner] \in {"idle", "get"}, Empty, start = last
    PROVE  Queued = {}
<1>0. PICK L \in BlockIds : L = last.index
  BY Known DEF IInv
<1>1. /\ Written(L) /\ Working = L
      /\ block[L].tail = 0 \/ block[L].head.index = block[L].tail
  BY <1>0 DEF IInv, Control, BlockInv, CurrentInv, Leaving, Empty, current, Working, At
<1>2. ASSUME NEW b \in BlockIds, NEW s \in Slots PROVE ~Holds(b, s)
  <2>1. CASE b = L
    <3>1. /\ block[L].steal.index = Size /\ block[L].head.index = block[L].tail
          /\ block[L].tail \in Nat /\ s \in Nat /\ Size \in Nat
      BY <1>1, Known, Constants DEF IInv, Written, Steals
    <3>2. QED BY <2>1, <3>1 DEF Holds
  <2>2. CASE b # L
    <3>1. ~Within(b)
      <4>1. last.round \in Nat /\ last.index \in Nat /\ b \in Nat
        BY Known, Constants DEF IInv
      <4>2. QED BY <1>0, <2>2, <4>1 DEF Within, Round
    <3>2. ~(block[b].steal.index < Size)
      BY <3>1, StealEnds DEF IInv
    <3>3. QED BY <1>1, <2>2, <3>2 DEF Holds
  <2>3. QED BY <2>1, <2>2
<1>3. QED BY <1>2 DEF IInv, ItemInv, FoundInv

(* The next block is not writable because it still holds an item.          *)
LEMMA ToldFull ==
    ASSUME IInv, At(Owner, "advance"), ~MayAdvance
    PROVE  Queued # {}
<1>0. PICK L \in BlockIds, F \in BlockIds : L = last.index /\ F = Following(last).index
  BY Known, Lap DEF IInv
<1>1. Written(L) /\ Working = L /\ block[L].tail = Size
  BY <1>0 DEF IInv, Control, BlockInv, CurrentInv, OwnerInv, Leaving, current, Working, At
<1>2. Size \in Nat \ {0} /\ 0 \in Slots /\ Slots = 0 .. Size - 1 /\ Blocks \in Nat \ {0}
  BY Constants
<1>3. CASE Blocks = 1
  <2>1. block[L].head.index = 0
    BY <1>0, <1>3 DEF IInv, Control, OwnerInv, current
  <2>2. Holds(L, 0)
    BY <1>1, <1>2, <2>1 DEF Holds, Written, Steals
  <2>3. QED BY <1>2, <2>2 DEF IInv, ItemInv, HeldInv
<1>4. CASE Blocks > 1
  <2>1. /\ F # L /\ Round(F) = Following(last).round - 1
        /\ block[F].steal \in Positions /\ block[F].steal.index \in 0 .. Size
    BY <1>0, <1>4, Lap, Known DEF IInv
  <2>2. ~Steals(F, Round(F), Size)
    BY <1>0, <1>4, <2>1 DEF MayAdvance, IsWritable, Counter, Steals, Positions
  <2>3. OtherInv(F)
    BY <1>0, <2>1 DEF IInv, Control, BlockInv
  <2>4. Granted(F)
    BY <2>2, <2>3 DEF OtherInv, At
  <2>5. block[F].steal.index \in Slots /\ block[F].steal.index < Size
    BY <1>2, <2>1, <2>2, <2>4 DEF Granted, Steals
  <2>6. Holds(F, block[F].steal.index)
    BY <1>2, <2>5 DEF Holds
  <2>7. QED BY <2>5, <2>6 DEF IInv, ItemInv, HeldInv
<1>5. QED BY <1>2, <1>3, <1>4

(* The owner is told that the queue is empty only when it is, and that it  *)
(* is full only when it is not empty.                                      *)
THEOREM AnswersTrue == Spec => []AnswersAreTrue
<1>1. IInv => AnswersAreTrue
  BY ToldEmpty, ToldFull DEF AnswersAreTrue
<1>2. QED BY Invariance, <1>1, PTL

(* An item is never delivered twice, whether the owner popped it or a      *)
(* thief has stolen it.                                                    *)
THEOREM TakenOnce == Spec => [](\A i \in Items : taken[i] \in {0, 1})
<1>1. IInv => \A i \in Items : taken[i] \in {0, 1}
  BY DEF IInv, ItemInv, PushedInv
<1>2. QED BY Invariance, <1>1, PTL

-----------------------------------------------------------------------------
(* The steps that deliver an item, or queue one.                           *)
LEMMA Delivers ==
    ASSUME IInv, NEW i \in Queued, Take(i), pushed' = pushed
    PROVE  Promise!Deliver(i) /\ i \in Items
<1>1. Queued' = Queued \ {i} /\ i \in Items /\ taken' = [taken EXCEPT ![i] = 1]
  BY QueuedTaken DEF IInv
<1>2. taken[i] = 0
  BY DEF Queued
<1>3. taken' = [taken EXCEPT ![i] = @ + 1]
  BY <1>1, <1>2
<1>4. QED BY <1>1, <1>3 DEF Promise!Deliver

LEMMA PutPushes ==
    ASSUME IInv, Put
    PROVE  Promise!Next \/ UNCHANGED <<Queued, taken>>
<1>1. CASE HasRoom
  <2>1. pushed' = pushed + 1 /\ pushed < NumItems /\ taken' = taken
    BY <1>1, PutEffect DEF IInv
  <2>2. pushed \in Nat /\ NumItems \in Nat /\ Items = 1 .. NumItems /\ pushed + 1 \in Items
    BY <2>1, Known, Constants DEF IInv
  <2>3. \A k \in Items : k \in Queued \/ taken[k] # 0 => k < pushed + 1
    <3>1. \A k \in Items : taken[k] # 0 => k <= pushed
      BY DEF IInv, ItemInv, PushedInv
    <3>2. \A k \in Queued : k <= pushed
      BY <2>2 DEF Queued
    <3>3. QED BY <2>2, <3>1, <3>2
  <2>4. taken[pushed + 1] = 0
    BY <2>2 DEF IInv, ItemInv, PushedInv
  <2>5. Queued' = Queued \cup {pushed + 1}
    BY <2>1, <2>2, <2>4 DEF Queued
  <2>6. Promise!Push(pushed + 1)
    BY <2>1, <2>3, <2>5 DEF Promise!Push
  <2>7. QED BY <2>2, <2>6 DEF Promise!Next
<1>2. CASE ~HasRoom
  BY <1>2 DEF Put, Queued
<1>3. QED BY <1>1, <1>2

LEMMA GetPops ==
    ASSUME IInv, Get
    PROVE  Promise!Next \/ UNCHANGED <<Queued, taken>>
<1>0. PICK L \in BlockIds : L = last.index
  BY Known DEF IInv
<1>1. CASE ~Empty
  <2> DEFINE r == block[L].tail - 1
             i == block[L].ring[r]
  <2>1. /\ Take(i) /\ pushed' = pushed /\ pc[Owner] \in {"idle", "get"}
    BY <1>0, <1>1, GetEffect DEF IInv, Get
  <2>2. Written(L) /\ Working = L
    BY <1>0, <2>1 DEF IInv, Control, BlockInv, CurrentInv, Leaving, Working, At
  <2>3. /\ block[L].tail \in 0 .. Size /\ block[L].head.index \in 0 .. Size /\ block[L].tail # 0
        /\ block[L].head.index # block[L].tail /\ Size \in Nat /\ Slots = 0 .. Size - 1
    BY <1>0, <1>1, Known, Constants DEF IInv, Empty, current
  <2>4. r \in Slots /\ block[L].head.index <= r /\ r < block[L].tail
    BY <2>2, <2>3 DEF Written
  <2>5. Holds(L, r)
    BY <2>2, <2>3, <2>4 DEF Holds, Written, Steals
  <2>6. i \in Queued
    BY <2>4, <2>5 DEF IInv, ItemInv, HeldInv
  <2>a. \A k \in Queued : k \in Nat
    BY Known, Constants DEF IInv, Queued
  <2>7. ASSUME NEW k \in Queued PROVE k <= i
    <3>1. PICK b \in BlockIds, s \in Slots : Holds(b, s) /\ block[b].ring[s] = k
      BY DEF IInv, ItemInv, FoundInv
    <3>2. k \in Nat /\ i \in Nat
      BY <2>6, <2>a
    <3>3. CASE b = L /\ s = r
      BY <3>1, <3>2, <3>3
    <3>4. CASE b = L /\ s # r
      <4>1. s < r
        BY <2>2, <2>3, <3>1, <3>4 DEF Holds, Written, Steals
      <4>2. k < i
        BY <2>4, <2>5, <3>1, <3>4, <4>1 DEF IInv, ItemInv, OrderInv
      <4>3. QED BY <3>2, <4>2
    <3>5. CASE b # L
      <4>1. Sooner(b, L)
        BY <1>0, <2>1, <3>1, <3>5, CurrentIsNewest DEF IInv
      <4>2. k < i
        BY <2>4, <2>5, <3>1, <4>1 DEF IInv, ItemInv, OrderInv
      <4>3. QED BY <3>2, <4>2
    <3>6. QED BY <3>3, <3>4, <3>5
  <2> HIDE DEF i
  <2>8. Promise!Newest(i) /\ Promise!Deliver(i) /\ i \in Items
    BY <2>1, <2>6, <2>7, Delivers DEF Promise!Newest
  <2>9. QED BY <2>8 DEF Promise!Next, Promise!Pop
<1>2. CASE Empty
  BY <1>2 DEF Get, Queued
<1>3. QED BY <1>1, <1>2

LEMMA ClaimSteals ==
    ASSUME IInv, NEW t \in Thieves, Claim(t)
    PROVE  Promise!Next \/ UNCHANGED <<Queued, taken>>
<1>0. thief[t].position.index # Size
  BY DEF IInv, ThiefInv, Claim, At
<1>1. CASE Target(t).steal = thief[t].position
  <2> DEFINE c == thief[t].at.index
             r == thief[t].position.index
             i == block[c].ring[r]
  <2>1. c \in BlockIds /\ r \in Slots /\ block[c].steal.index = r /\ Take(i) /\ pushed' = pushed
    BY <1>0, <1>1, ClaimEffect DEF IInv
  <2>2. r \in Nat /\ r < Size
    BY <2>1, Constants
  <2>3. Holds(c, r)
    BY <2>1, <2>2 DEF Holds
  <2>4. i \in Queued
    BY <2>1, <2>3 DEF IInv, ItemInv, HeldInv
  <2> HIDE DEF i
  <2>5. QED BY <2>1, <2>4, Delivers DEF Promise!Next, Promise!Steal
<1>2. CASE Target(t).steal # thief[t].position
  BY <1>2 DEF Claim, Queued
<1>3. QED BY <1>1, <1>2

(* The queue implements StealQueue: a put that finds room is its Push, a   *)
(* get that finds an item its Pop, a claim that succeeds its Steal, and    *)
(* all other steps leave what is queued and delivered alone.               *)
THEOREM Refinement == Spec => ImplementsStealQueue
<1>1. Init => Promise!Init
  BY DEF Init, Promise!Init, Queued
<1>2. IInv /\ [Next]_vars => [Promise!Next]_(Promise!vars)
  <2> SUFFICES ASSUME IInv, [Next]_vars PROVE Promise!Next \/ UNCHANGED <<Queued, taken>>
    BY DEF Promise!vars
  <2>1. CASE Put
    BY <2>1, PutPushes
  <2>2. CASE Get
    BY <2>2, GetPops
  <2>3. CASE Advance \/ Grant \/ Reclaim \/ Renew \/ Recount \/ MoveOn \/ ReduceRound \/ Takeover \/ MoveBack
    BY <2>3 DEF Advance, Grant, Reclaim, Renew, Recount, MoveOn, ReduceRound, Takeover, MoveBack, Queued
  <2>4. ASSUME NEW t \in Thieves, StealFront(t) \/ ThiefStep(t)
        PROVE  Promise!Next \/ UNCHANGED <<Queued, taken>>
    <3>1. CASE Claim(t)
      BY <3>1, ClaimSteals
    <3>2. CASE ~Claim(t)
      BY <2>4, <3>2 DEF StealFront, ThiefStep, Load, CheckTail, Read, CountRead, AdvanceSteal, Queued
    <3>3. QED BY <3>1, <3>2
  <2>5. CASE UNCHANGED vars
    BY <2>5 DEF vars, Queued
  <2>6. QED BY <2>1, <2>2, <2>3, <2>4, <2>5 DEF Next, OwnerStep
<1>3. QED BY Invariance, <1>1, <1>2, PTL DEF Spec, ImplementsStealQueue, Promise!Spec
=============================================================================
