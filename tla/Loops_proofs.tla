---------------------------- MODULE Loops_proofs ----------------------------
(***************************************************************************)
(* The loops and the trampolines of Loops, for any number of threads and   *)
(* loops, any count and any depth: an iteration is in one place at a time, *)
(* a loop that is not running is in none, work nests no deeper than the    *)
(* limit, and the linked list of a thread holds what was handed over to    *)
(* it, in order.                                                           *)
(***************************************************************************)
EXTENDS Loops, SequenceTheorems, FiniteSetTheorems, TLAPS

Tags == {"value", "error", "stopped"}
Links == Tasks \cup {None}

FrameSet ==
         {Outermost, Nested}
    \cup {Execute(k) : k \in Tasks}
    \cup {Starting(l, i) : l \in Loops, i \in Inner}
    \cup {Completing(l, tag) : l \in Loops, tag \in Tags}

(* Where a sequence has an element of F. *)
Positions(q, F) == {i \in DOMAIN q : q[i] \in F}

TypeOK ==
    /\ kind \in [Loops -> Kinds]
    /\ result \in [Loops -> Tags \cup {"unstarted", "running"}]
    /\ pending \subseteq Inner
    /\ stop \in BOOLEAN
    /\ stack \in [Threads -> Seq(FrameSet)]
    /\ trampoline \in [Threads -> Trampolines \cup {None}]
    /\ next \in [Tasks -> Links]
    /\ waiting \in [Threads -> Seq(Tasks)]

-----------------------------------------------------------------------------
(* Where a loop is, in any stacks s and queues w and with any children p   *)
(* pending: a loop is nowhere, or in one place.                            *)
FramesOf(l) == {f \in FrameSet : Mentions(f, l)}
TasksOf(l) == {Iteration(l), Child(l)}

PlacesIn(s, w, p, l) ==
    (UNION {   {<<t, "stack", i>> : i \in Positions(s[t], FramesOf(l))}
          \cup {<<t, "queue", i>> : i \in Positions(w[t], TasksOf(l))} : t \in Threads})
    \cup (IF l \in p THEN {<<l, "pending", 0>>} ELSE {})

Alone(S) == \E p : S = {p}

(* An inner loop is in one place while it runs.  The outer loop is, too,   *)
(* or has started all of them, and waits for the last of them.             *)
InnerPlaced(l) == IF result[l] = "running" THEN Alone(Places(l)) ELSE Places(l) = {}

AllUnstarted == \A i \in Inner : result[i] = "unstarted"
NoneUnstarted == \A i \in Inner : result[i] # "unstarted"
SomeRuns == \E i \in Inner : result[i] = "running"

OuterPlaced ==
    /\ result[Outer] = "unstarted" => AllUnstarted
    /\ IF result[Outer] = "running"
          THEN Alone(Places(Outer)) \/ (Places(Outer) = {} /\ NoneUnstarted /\ SomeRuns)
          ELSE Places(Outer) = {} /\ ~SomeRuns

(* What the inner loops have done by the outer loop's next step, with the  *)
(* results r of the loops.                                                 *)
Fits(f, r) ==
    Mentions(f, Outer) =>
        /\ f.at = "execute" => f.task = Iteration(Outer) /\ \A i \in Inner : r[i] = "unstarted"
        /\ f.at = "start" => \A i \in Inner : i >= f.next <=> r[i] = "unstarted"
        /\ f.at = "complete" => \A i \in Inner : r[i] \notin {"unstarted", "running"}

Staged ==
    \A t \in Threads :
        /\ \A i \in DOMAIN stack[t] : Fits(stack[t][i], result)
        /\ \A i \in DOMAIN waiting[t] :
              waiting[t][i].loop = Outer => waiting[t][i] = Iteration(Outer) /\ AllUnstarted

(* Outside a trampoline a thread is at a completion at most. *)
Based ==
    \A t \in Threads : trampoline[t] = None =>
        \/ stack[t] = <<>>
        \/ Len(stack[t]) = 1 /\ stack[t][1].at = "complete"

Placed == (\A l \in Inner : InnerPlaced(l)) /\ OuterPlaced /\ Staged

IInv == TypeOK /\ Placed /\ Based /\ NestsAndQueues

-----------------------------------------------------------------------------
(* Where the elements of a stack or of a queue are, as it changes.         *)

(* Positions are those of the elements. *)
LEMMA PositionsBounded ==
    ASSUME NEW S, NEW s \in Seq(S), NEW F
    PROVE  /\ Positions(s, F) \subseteq 1 .. Len(s) /\ DOMAIN s = 1 .. Len(s) /\ Len(s) \in Nat
           /\ \A i \in 1 .. Len(s) : s[i] \in S /\ (i \in Positions(s, F) <=> s[i] \in F)
           /\ s = << >> <=> Len(s) = 0
BY LenProperties, ElementOfSeq, EmptySeq DEF Positions

(* An element at the end has the position after the others. *)
LEMMA PositionsAppended ==
    ASSUME NEW S, NEW s \in Seq(S), NEW e \in S, NEW F
    PROVE  /\ Append(s, e) \in Seq(S) /\ Len(Append(s, e)) = Len(s) + 1
           /\ Append(s, e)[Len(s) + 1] = e /\ \A i \in 1 .. Len(s) : Append(s, e)[i] = s[i]
           /\ Positions(Append(s, e), F) = Positions(s, F) \cup (IF e \in F THEN {Len(s) + 1} ELSE {})
<1> DEFINE r == Append(s, e)
<1>1. /\ r \in Seq(S) /\ Len(r) = Len(s) + 1 /\ DOMAIN s = 1 .. Len(s) /\ Len(s) \in Nat
      /\ DOMAIN r = 1 .. Len(s) + 1 /\ r[Len(s) + 1] = e /\ \A i \in 1 .. Len(s) : r[i] = s[i]
  BY AppendProperties, LenProperties
<1> HIDE DEF r
<1>2. Positions(r, F) = Positions(s, F) \cup (IF e \in F THEN {Len(s) + 1} ELSE {})
  BY <1>1 DEF Positions
<1>3. QED BY <1>1, <1>2 DEF r

(* Without the last element the others keep their positions. *)
LEMMA PositionsPopped ==
    ASSUME NEW S, NEW s \in Seq(S), s # << >>, NEW F
    PROVE  LET r == SubSeq(s, 1, Len(s) - 1)
           IN  /\ r \in Seq(S) /\ Len(s) \in Nat /\ Len(s) # 0 /\ Len(r) = Len(s) - 1 /\ s[Len(s)] \in S
               /\ \A i \in 1 .. Len(s) - 1 : r[i] = s[i]
               /\ Positions(r, F) = Positions(s, F) \ {Len(s)}
               /\ Len(s) \in Positions(s, F) <=> s[Len(s)] \in F
<1> DEFINE r == SubSeq(s, 1, Len(s) - 1)
<1>1. Len(s) \in Nat /\ DOMAIN s = 1 .. Len(s) /\ \A i \in 1 .. Len(s) : s[i] \in S
  BY LenProperties, ElementOfSeq
<1>2. Len(s) # 0
  BY EmptySeq
<1>3. /\ r \in Seq(S) /\ Len(r) = Len(s) - 1
      /\ \A i \in 1 .. Len(s) - 1 : r[i] = s[i]
  BY <1>1, <1>2, SubSeqProperties
<1>4. DOMAIN r = 1 .. Len(s) - 1
  BY <1>3, LenProperties
<1> HIDE DEF r
<1>5. Positions(r, F) = Positions(s, F) \ {Len(s)}
  BY <1>1, <1>3, <1>4 DEF Positions
<1>6. Len(s) \in Positions(s, F) <=> s[Len(s)] \in F
  BY <1>1, <1>2 DEF Positions
<1>7. s[Len(s)] \in S
  BY <1>1, <1>2
<1>8. QED BY <1>1, <1>2, <1>3, <1>5, <1>6, <1>7 DEF r

(* Without the first element the others move up. *)
LEMMA PositionsRest ==
    ASSUME NEW S, NEW s \in Seq(S), s # << >>, NEW F
    PROVE  LET r == SubSeq(s, 2, Len(s))
           IN  /\ r \in Seq(S) /\ Len(s) \in Nat /\ Len(s) # 0 /\ Len(r) = Len(s) - 1 /\ s[1] \in S
               /\ \A i \in 1 .. Len(s) - 1 : r[i] = s[i + 1]
               /\ Positions(r, F) = {i \in 1 .. Len(s) - 1 : i + 1 \in Positions(s, F)}
               /\ 1 \in Positions(s, F) <=> s[1] \in F
<1> DEFINE r == SubSeq(s, 2, Len(s))
<1>1. Len(s) \in Nat /\ DOMAIN s = 1 .. Len(s) /\ \A i \in 1 .. Len(s) : s[i] \in S
  BY LenProperties, ElementOfSeq
<1>2. Len(s) # 0
  BY EmptySeq
<1>3. r = Tail(s) /\ r \in Seq(S) /\ Len(r) = Len(s) - 1
  BY TailIsSubSeq, HeadTailProperties
<1>4. \A i \in 1 .. Len(s) - 1 : r[i] = s[i + 1]
  BY <1>3, HeadTailProperties
<1>5. DOMAIN r = 1 .. Len(s) - 1
  BY <1>3, LenProperties
<1> HIDE DEF r
<1>6. Positions(r, F) = {i \in 1 .. Len(s) - 1 : i + 1 \in Positions(s, F)}
  BY <1>1, <1>4, <1>5 DEF Positions
<1>7. (1 \in Positions(s, F) <=> s[1] \in F) /\ s[1] \in S
  BY <1>1, <1>2 DEF Positions
<1>8. QED BY <1>1, <1>2, <1>3, <1>4, <1>6, <1>7 DEF r

-----------------------------------------------------------------------------
(* The kinds of frames, told apart by where they are. *)
LEMMA FrameKinds ==
    ASSUME NEW f \in FrameSet
    PROVE  /\ f.at \in {"outermost", "nested", "execute", "start", "complete"}
           /\ f.at = "outermost" <=> f = Outermost
           /\ f.at = "nested" <=> f = Nested
           /\ f.at = "execute" => f.task \in Tasks /\ f = Execute(f.task)
           /\ f.at = "start" => f.loop \in Loops /\ f.next \in Inner /\ f = Starting(f.loop, f.next)
           /\ f.at = "complete" => f.loop \in Loops /\ f.tag \in Tags /\ f = Completing(f.loop, f.tag)
<1>1. CASE f \in {Outermost, Nested}
  BY <1>1 DEF Outermost, Nested
<1>2. ASSUME NEW k \in Tasks, f = Execute(k) PROVE f.at = "execute" /\ f.task = k
  BY <1>2 DEF Execute
<1>3. ASSUME NEW l \in Loops, NEW i \in Inner, f = Starting(l, i)
      PROVE  f.at = "start" /\ f.loop = l /\ f.next = i
  BY <1>3 DEF Starting
<1>4. ASSUME NEW l \in Loops, NEW tag \in Tags, f = Completing(l, tag)
      PROVE  f.at = "complete" /\ f.loop = l /\ f.tag = tag
  BY <1>4 DEF Completing
<1>5. Outermost.at = "outermost" /\ Nested.at = "nested"
  BY DEF Outermost, Nested
<1>6. QED BY <1>1, <1>2, <1>3, <1>4, <1>5 DEF FrameSet

(* Which frames there are, and which loop they are about. *)
LEMMA FramesMade ==
    /\ Outermost \in FrameSet /\ Nested \in FrameSet
    /\ Outermost.at = "outermost" /\ Nested.at = "nested" /\ Outermost # Nested
    /\ \A l \in Loops : ~Mentions(Outermost, l) /\ ~Mentions(Nested, l)
    /\ \A k \in Tasks :
          /\ Execute(k) \in FrameSet /\ Execute(k).at = "execute" /\ Execute(k).task = k
          /\ Execute(k) # Outermost /\ Execute(k) # Nested
          /\ \A l \in Loops : Mentions(Execute(k), l) <=> k.loop = l
    /\ \A m \in Loops, i \in Inner :
          /\ Starting(m, i) \in FrameSet /\ Starting(m, i).at = "start"
          /\ Starting(m, i).loop = m /\ Starting(m, i).next = i
          /\ Starting(m, i) # Outermost /\ Starting(m, i) # Nested
          /\ \A l \in Loops : Mentions(Starting(m, i), l) <=> m = l
    /\ \A m \in Loops, tag \in Tags :
          /\ Completing(m, tag) \in FrameSet /\ Completing(m, tag).at = "complete"
          /\ Completing(m, tag).loop = m /\ Completing(m, tag).tag = tag
          /\ Completing(m, tag) # Outermost /\ Completing(m, tag) # Nested
          /\ \A l \in Loops : Mentions(Completing(m, tag), l) <=> m = l
<1>1. /\ Outermost \in FrameSet /\ Nested \in FrameSet
      /\ Outermost.at = "outermost" /\ Nested.at = "nested"
  BY DEF FrameSet, Outermost, Nested
<1>2. ASSUME NEW k \in Tasks
      PROVE  Execute(k) \in FrameSet /\ Execute(k).at = "execute" /\ Execute(k).task = k
  BY DEF FrameSet, Execute
<1>3. ASSUME NEW m \in Loops, NEW i \in Inner
      PROVE  /\ Starting(m, i) \in FrameSet /\ Starting(m, i).at = "start"
             /\ Starting(m, i).loop = m /\ Starting(m, i).next = i
  BY DEF FrameSet, Starting
<1>4. ASSUME NEW m \in Loops, NEW tag \in Tags
      PROVE  /\ Completing(m, tag) \in FrameSet /\ Completing(m, tag).at = "complete"
             /\ Completing(m, tag).loop = m /\ Completing(m, tag).tag = tag
  BY DEF FrameSet, Completing
<1>5. QED BY <1>1, <1>2, <1>3, <1>4 DEF Mentions

(* A frame is about one loop at most. *)
LEMMA MentionsOne ==
    ASSUME NEW f \in FrameSet, NEW l \in Loops, NEW m \in Loops, Mentions(f, l), Mentions(f, m)
    PROVE  l = m
BY DEF Mentions

(* The tasks, and the loops they are of. *)
LEMMA TasksMade ==
    /\ \A l \in Loops : Iteration(l) \in Tasks /\ Child(l) \in Tasks /\ Iteration(l).loop = l /\ Child(l).loop = l
    /\ \A l \in Loops : Iteration(l).what = "iteration" /\ Child(l).what = "child"
    /\ \A k \in Tasks : k.loop \in Loops /\ k.what \in {"iteration", "child"}
    /\ \A k \in Tasks, l \in Loops : k \in TasksOf(l) <=> k.loop = l
    /\ \A k \in Tasks : IF k.what = "iteration" THEN k = Iteration(k.loop) ELSE k = Child(k.loop)
BY DEF Tasks, Iteration, Child, TasksOf

(* Outer and Inner are the loops. *)
LEMMA LoopNumbers ==
    /\ Outer \in Loops /\ Inner \subseteq Loops /\ Outer \notin Inner /\ Loops = Inner \cup {Outer}
    /\ N \in Inner /\ 2 \in Inner /\ N \in Nat
    /\ \A i \in Inner : i \in Nat /\ i <= N /\ (i # N => i + 1 \in Inner)
BY LoopsAssumption DEF Loops, Inner, Outer

-----------------------------------------------------------------------------
(* The places of a loop, one by one. *)
LEMMA PlacesElements ==
    ASSUME NEW s, NEW w, NEW p, NEW l \in Loops
    PROVE  \A x : x \in PlacesIn(s, w, p, l) <=>
                 \/ \E t \in Threads : \E i \in Positions(s[t], FramesOf(l)) : x = <<t, "stack", i>>
                 \/ \E t \in Threads : \E i \in Positions(w[t], TasksOf(l)) : x = <<t, "queue", i>>
                 \/ l \in p /\ x = <<l, "pending", 0>>
<1> DEFINE E(t) ==    {<<t, "stack", i>> : i \in Positions(s[t], FramesOf(l))}
                 \cup {<<t, "queue", i>> : i \in Positions(w[t], TasksOf(l))}
<1>1. PlacesIn(s, w, p, l) = (UNION {E(t) : t \in Threads}) \cup (IF l \in p THEN {<<l, "pending", 0>>} ELSE {})
  BY DEF PlacesIn
<1>2. \A t, x : x \in E(t) <=>
               \/ \E i \in Positions(s[t], FramesOf(l)) : x = <<t, "stack", i>>
               \/ \E i \in Positions(w[t], TasksOf(l)) : x = <<t, "queue", i>>
  OBVIOUS
<1> HIDE DEF E
<1>3. \A x : x \in PlacesIn(s, w, p, l) <=>
               (\E t \in Threads : x \in E(t)) \/ (l \in p /\ x = <<l, "pending", 0>>)
  <2>1. \A x : x \in UNION {E(t) : t \in Threads} <=> \E t \in Threads : x \in E(t)
    OBVIOUS
  <2> DEFINE U == UNION {E(t) : t \in Threads}
         R == IF l \in p THEN {<<l, "pending", 0>>} ELSE {}
  <2>2. \A x : x \in R <=> l \in p /\ x = <<l, "pending", 0>>
    OBVIOUS
  <2>3. PlacesIn(s, w, p, l) = U \cup R
    BY <1>1
  <2> HIDE DEF U, R
  <2>4. \A x : x \in PlacesIn(s, w, p, l) <=> x \in U \/ x \in R
    BY <2>3
  <2>5. QED BY <2>1, <2>2, <2>4 DEF U
<1>4. QED BY <1>2, <1>3

(* The places of a loop, told by their kinds. *)
LEMMA PlacesKinds ==
    ASSUME NEW s, NEW w, NEW p, NEW l \in Loops
    PROVE  /\ \A t \in Threads : \A i : <<t, "stack", i>> \in PlacesIn(s, w, p, l) <=> i \in Positions(s[t], FramesOf(l))
           /\ \A t \in Threads : \A i : <<t, "queue", i>> \in PlacesIn(s, w, p, l) <=> i \in Positions(w[t], TasksOf(l))
           /\ <<l, "pending", 0>> \in PlacesIn(s, w, p, l) <=> l \in p
BY PlacesElements

Stacks == [Threads -> Seq(FrameSet)]
Queues == [Threads -> Seq(Tasks)]

(* Places, of any stacks s, queues w and pending children p. *)
PlacesListed(s, w, p, l) ==
    (UNION {   {<<t, "stack", i>> : i \in {j \in DOMAIN s[t] : Mentions(s[t][j], l)}}
          \cup {<<t, "queue", i>> : i \in {j \in DOMAIN w[t] : w[t][j].loop = l}} : t \in Threads})
    \cup (IF l \in p THEN {<<l, "pending", 0>>} ELSE {})

LEMMA ListedPlaces ==
    ASSUME NEW s \in Stacks, NEW w \in Queues, NEW p, NEW l \in Loops
    PROVE  PlacesListed(s, w, p, l) = PlacesIn(s, w, p, l)
<1>1. ASSUME NEW t \in Threads
      PROVE  /\ {j \in DOMAIN s[t] : Mentions(s[t][j], l)} = Positions(s[t], FramesOf(l))
             /\ {j \in DOMAIN w[t] : w[t][j].loop = l} = Positions(w[t], TasksOf(l))
  <2>1. s[t] \in Seq(FrameSet) /\ w[t] \in Seq(Tasks)
    BY DEF Stacks, Queues
  <2>2. /\ \A j \in DOMAIN s[t] : s[t][j] \in FrameSet
        /\ \A j \in DOMAIN w[t] : w[t][j] \in Tasks
    BY <2>1, PositionsBounded
  <2>3. QED BY <2>2, TasksMade DEF Positions, FramesOf
<1> DEFINE E(t) ==    {<<t, "stack", i>> : i \in {j \in DOMAIN s[t] : Mentions(s[t][j], l)}}
                 \cup {<<t, "queue", i>> : i \in {j \in DOMAIN w[t] : w[t][j].loop = l}}
           F(t) ==    {<<t, "stack", i>> : i \in Positions(s[t], FramesOf(l))}
                 \cup {<<t, "queue", i>> : i \in Positions(w[t], TasksOf(l))}
<1>2. \A t \in Threads : E(t) = F(t)
  BY <1>1
<1>3. /\ PlacesListed(s, w, p, l) = (UNION {E(t) : t \in Threads}) \cup (IF l \in p THEN {<<l, "pending", 0>>} ELSE {})
      /\ PlacesIn(s, w, p, l) =
            (UNION {F(t) : t \in Threads}) \cup (IF l \in p THEN {<<l, "pending", 0>>} ELSE {})
  BY DEF PlacesListed, PlacesIn
<1> HIDE DEF E, F
<1>4. {E(t) : t \in Threads} = {F(t) : t \in Threads}
  BY <1>2
<1>5. QED BY <1>3, <1>4

(* The places of the specification are these. *)
LEMMA PlacesAre ==
    ASSUME TypeOK, NEW l \in Loops
    PROVE  Places(l) = PlacesIn(stack, waiting, pending, l)
<1>1. stack \in Stacks /\ waiting \in Queues
  BY DEF TypeOK, Stacks, Queues
<1>2. Places(l) = PlacesListed(stack, waiting, pending, l)
  BY DEF Places, PlacesListed
<1>3. QED BY <1>1, <1>2, ListedPlaces

-----------------------------------------------------------------------------
(* Taking the innermost frame off leaves the other places. *)
LEMMA PlacesPopped ==
    ASSUME NEW s \in Stacks, NEW w, NEW p, NEW t \in Threads, s[t] # << >>, NEW l \in Loops
    PROVE  LET place == <<t, "stack", Len(s[t])>>
           IN  /\ PlacesIn([s EXCEPT ![t] = SubSeq(s[t], 1, Len(s[t]) - 1)], w, p, l) = PlacesIn(s, w, p, l) \ {place}
               /\ place \in PlacesIn(s, w, p, l) <=> Mentions(s[t][Len(s[t])], l)
<1> DEFINE n == Len(s[t])
           q == SubSeq(s[t], 1, n - 1)
           r == [s EXCEPT ![t] = q]
<1>1. /\ Positions(q, FramesOf(l)) = Positions(s[t], FramesOf(l)) \ {n}
      /\ n \in Positions(s[t], FramesOf(l)) <=> s[t][n] \in FramesOf(l)
      /\ s[t][n] \in FrameSet
  BY PositionsPopped DEF Stacks
<1>2. r[t] = q /\ \A u \in Threads : u # t => r[u] = s[u]
  BY DEF Stacks
<1> HIDE DEF r, q, n
<1>3. \A u \in Threads : \A i : i \in Positions(r[u], FramesOf(l)) <=>
          i \in Positions(s[u], FramesOf(l)) /\ <<u, "stack", i>> # <<t, "stack", n>>
  BY <1>1, <1>2
<1>4. \A x : x \in PlacesIn(r, w, p, l) <=>
                 \/ \E u \in Threads : \E i \in Positions(r[u], FramesOf(l)) : x = <<u, "stack", i>>
                 \/ \E u \in Threads : \E i \in Positions(w[u], TasksOf(l)) : x = <<u, "queue", i>>
                 \/ l \in p /\ x = <<l, "pending", 0>>
  BY PlacesElements
<1>5. \A x : x \in PlacesIn(s, w, p, l) <=>
                 \/ \E u \in Threads : \E i \in Positions(s[u], FramesOf(l)) : x = <<u, "stack", i>>
                 \/ \E u \in Threads : \E i \in Positions(w[u], TasksOf(l)) : x = <<u, "queue", i>>
                 \/ l \in p /\ x = <<l, "pending", 0>>
  BY PlacesElements
<1>6. \A x : x \in PlacesIn(r, w, p, l) <=> x \in PlacesIn(s, w, p, l) /\ x # <<t, "stack", n>>
  <2> SUFFICES ASSUME NEW x PROVE x \in PlacesIn(r, w, p, l) <=> x \in PlacesIn(s, w, p, l) /\ x # <<t, "stack", n>>
    OBVIOUS
  <2>1. /\ \A u, i : <<u, "queue", i>> # <<t, "stack", n>>
        /\ <<l, "pending", 0>> # <<t, "stack", n>>
    OBVIOUS
  <2>2. QED BY <1>3, <2>1, <1>4, <1>5
<1>7. <<t, "stack", n>> \in PlacesIn(s, w, p, l) <=> Mentions(s[t][n], l)
  <2>1. <<t, "stack", n>> \in PlacesIn(s, w, p, l) <=> n \in Positions(s[t], FramesOf(l))
    BY PlacesKinds
  <2>2. QED BY <1>1, <2>1 DEF FramesOf
<1>8. PlacesIn(r, w, p, l) = PlacesIn(s, w, p, l) \ {<<t, "stack", n>>}
  BY <1>6
<1>9. QED BY <1>7, <1>8 DEF r, q, n

(* A frame put on a stack q of a thread is a place of its loop. *)
PlaceAdded(r, a, w, p, t, q, f, l) ==
    IF Mentions(f, l) THEN PlacesIn(a, w, p, l) = PlacesIn(r, w, p, l) \cup {<<t, "stack", Len(q) + 1>>}
                      ELSE PlacesIn(a, w, p, l) = PlacesIn(r, w, p, l)

LEMMA PlacesPushed ==
    ASSUME NEW w, NEW p, NEW t \in Threads, NEW q \in Seq(FrameSet), NEW f \in FrameSet, NEW l \in Loops,
           NEW r, r[t] = q, NEW a, a[t] = Append(q, f), \A u \in Threads : u # t => r[u] = a[u]
    PROVE  PlaceAdded(r, a, w, p, t, q, f, l)
<1> DEFINE n == Len(q) + 1
           add == IF f \in FramesOf(l) THEN {n} ELSE {}
<1>1. Positions(Append(q, f), FramesOf(l)) = Positions(q, FramesOf(l)) \cup add
  BY PositionsAppended
<1>2. \A i : i \in add <=> Mentions(f, l) /\ i = n
  BY DEF FramesOf
<1> HIDE DEF n, add
<1>3. \A u \in Threads : \A i : i \in Positions(a[u], FramesOf(l)) <=>
          i \in Positions(r[u], FramesOf(l)) \/ (u = t /\ i = n /\ Mentions(f, l))
  BY <1>1, <1>2
<1>4. \A x : x \in PlacesIn(r, w, p, l) <=>
                 \/ \E u \in Threads : \E i \in Positions(r[u], FramesOf(l)) : x = <<u, "stack", i>>
                 \/ \E u \in Threads : \E i \in Positions(w[u], TasksOf(l)) : x = <<u, "queue", i>>
                 \/ l \in p /\ x = <<l, "pending", 0>>
  BY PlacesElements
<1>5. \A x : x \in PlacesIn(a, w, p, l) <=>
                 \/ \E u \in Threads : \E i \in Positions(a[u], FramesOf(l)) : x = <<u, "stack", i>>
                 \/ \E u \in Threads : \E i \in Positions(w[u], TasksOf(l)) : x = <<u, "queue", i>>
                 \/ l \in p /\ x = <<l, "pending", 0>>
  BY PlacesElements
<1>6. \A x : x \in PlacesIn(a, w, p, l) <=> x \in PlacesIn(r, w, p, l) \/ (Mentions(f, l) /\ x = <<t, "stack", n>>)
  BY <1>3, <1>4, <1>5
<1>7. IF Mentions(f, l) THEN PlacesIn(a, w, p, l) = PlacesIn(r, w, p, l) \cup {<<t, "stack", n>>}
                        ELSE PlacesIn(a, w, p, l) = PlacesIn(r, w, p, l)
  <2>1. CASE Mentions(f, l)
    <3>1. PlacesIn(a, w, p, l) = PlacesIn(r, w, p, l) \cup {<<t, "stack", n>>}
      BY <1>6, <2>1
    <3>2. QED BY <2>1, <3>1
  <2>2. CASE ~Mentions(f, l)
    <3>1. PlacesIn(a, w, p, l) = PlacesIn(r, w, p, l)
      BY <1>6, <2>2
    <3>2. QED BY <2>2, <3>1
  <2>3. QED BY <2>1, <2>2
<1>8. QED BY <1>7 DEF n, PlaceAdded

(* A task at the end of a queue is a place of its loop. *)
PlaceQueued(s, w, a, p, t, k, l) ==
    IF k.loop = l THEN PlacesIn(s, a, p, l) = PlacesIn(s, w, p, l) \cup {<<t, "queue", Len(w[t]) + 1>>}
                  ELSE PlacesIn(s, a, p, l) = PlacesIn(s, w, p, l)

LEMMA PlacesQueued ==
    ASSUME NEW s, NEW w \in Queues, NEW p, NEW t \in Threads, NEW k \in Tasks, NEW l \in Loops,
           NEW a, a[t] = Append(w[t], k), \A u \in Threads : u # t => a[u] = w[u]
    PROVE  PlaceQueued(s, w, a, p, t, k, l)
<1> DEFINE n == Len(w[t]) + 1
           add == IF k \in TasksOf(l) THEN {n} ELSE {}
<1>1. Positions(Append(w[t], k), TasksOf(l)) = Positions(w[t], TasksOf(l)) \cup add
  BY PositionsAppended DEF Queues
<1>2. \A i : i \in add <=> k.loop = l /\ i = n
  BY TasksMade
<1> HIDE DEF n, add
<1>3. \A u \in Threads : \A i : i \in Positions(a[u], TasksOf(l)) <=>
          i \in Positions(w[u], TasksOf(l)) \/ (u = t /\ i = n /\ k.loop = l)
  BY <1>1, <1>2
<1>4. \A x : x \in PlacesIn(s, w, p, l) <=>
                 \/ \E u \in Threads : \E i \in Positions(s[u], FramesOf(l)) : x = <<u, "stack", i>>
                 \/ \E u \in Threads : \E i \in Positions(w[u], TasksOf(l)) : x = <<u, "queue", i>>
                 \/ l \in p /\ x = <<l, "pending", 0>>
  BY PlacesElements
<1>5. \A x : x \in PlacesIn(s, a, p, l) <=>
                 \/ \E u \in Threads : \E i \in Positions(s[u], FramesOf(l)) : x = <<u, "stack", i>>
                 \/ \E u \in Threads : \E i \in Positions(a[u], TasksOf(l)) : x = <<u, "queue", i>>
                 \/ l \in p /\ x = <<l, "pending", 0>>
  BY PlacesElements
<1>6. \A x : x \in PlacesIn(s, a, p, l) <=> x \in PlacesIn(s, w, p, l) \/ (k.loop = l /\ x = <<t, "queue", n>>)
  BY <1>3, <1>4, <1>5
<1>7. IF k.loop = l THEN PlacesIn(s, a, p, l) = PlacesIn(s, w, p, l) \cup {<<t, "queue", n>>}
                    ELSE PlacesIn(s, a, p, l) = PlacesIn(s, w, p, l)
  <2>1. CASE k.loop = l
    <3>1. PlacesIn(s, a, p, l) = PlacesIn(s, w, p, l) \cup {<<t, "queue", n>>}
      BY <1>6, <2>1
    <3>2. QED BY <2>1, <3>1
  <2>2. CASE k.loop # l
    <3>1. PlacesIn(s, a, p, l) = PlacesIn(s, w, p, l)
      BY <1>6, <2>2
    <3>2. QED BY <2>2, <3>1
  <2>3. QED BY <2>1, <2>2
<1>8. QED BY <1>7 DEF n, PlaceQueued

(* The other loops of a queue that moves up are where they were, or nowhere *)
(* and alone as before; the loop of its first task is in that queue no     *)
(* longer.                                                                 *)
PlaceTaken(s, w, a, p, t, l) ==
    LET before == PlacesIn(s, w, p, l)
        after == PlacesIn(s, a, p, l)
    IN  /\ w[t][1].loop # l => (before = {} => after = {}) /\ (Alone(before) => Alone(after))
        /\ w[t][1].loop = l => before # {} /\ (Alone(before) => after = {})

LEMMA PlacesTaken ==
    ASSUME NEW s, NEW w \in Queues, NEW p, NEW t \in Threads, w[t] # << >>, NEW l \in Loops,
           NEW a, a[t] = SubSeq(w[t], 2, Len(w[t])), \A u \in Threads : u # t => a[u] = w[u]
    PROVE  PlaceTaken(s, w, a, p, t, l)
<1> DEFINE n == Len(w[t])
           F == TasksOf(l)
           before == PlacesIn(s, w, p, l)
           after == PlacesIn(s, a, p, l)
<1>1. /\ n \in Nat /\ n # 0 /\ w[t][1] \in Tasks
      /\ Positions(SubSeq(w[t], 2, n), F) = {i \in 1 .. n - 1 : i + 1 \in Positions(w[t], F)}
      /\ 1 \in Positions(w[t], F) <=> w[t][1].loop = l
      /\ Positions(w[t], F) \subseteq 1 .. n
  BY PositionsRest, PositionsBounded, TasksMade DEF Queues
<1>2. a[t] = SubSeq(w[t], 2, n) /\ \A u \in Threads : u # t => a[u] = w[u]
  OBVIOUS
<1> HIDE DEF n, F
<1>3. \A i : i \in Positions(a[t], F) <=> i \in 1 .. n - 1 /\ i + 1 \in Positions(w[t], F)
  BY <1>1, <1>2
<1> DEFINE Up(x, y) == IF x[1] = t /\ x[2] = "queue" THEN \E i \in Nat : x = <<t, "queue", i>> /\ y = <<t, "queue", i + 1>>
                                                     ELSE y = x
<1>4. \A x : x \in before <=>
                 \/ \E u \in Threads : \E i \in Positions(s[u], FramesOf(l)) : x = <<u, "stack", i>>
                 \/ \E u \in Threads : \E i \in Positions(w[u], F) : x = <<u, "queue", i>>
                 \/ l \in p /\ x = <<l, "pending", 0>>
  BY PlacesElements DEF F
<1>5. \A x : x \in after <=>
                 \/ \E u \in Threads : \E i \in Positions(s[u], FramesOf(l)) : x = <<u, "stack", i>>
                 \/ \E u \in Threads : \E i \in Positions(a[u], F) : x = <<u, "queue", i>>
                 \/ l \in p /\ x = <<l, "pending", 0>>
  BY PlacesElements DEF F
<1> HIDE DEF before, after
<1>6. ASSUME NEW x \in after
      PROVE  \E y \in before : Up(x, y) /\ y # <<t, "queue", 1>>
  <2>1. CASE \E i \in Positions(a[t], F) : x = <<t, "queue", i>>
    <3>1. PICK i \in Positions(a[t], F) : x = <<t, "queue", i>>
      BY <2>1
    <3>2. i \in Nat /\ i # 0 /\ i + 1 \in Positions(w[t], F)
      BY <1>1, <1>3
    <3>3. <<t, "queue", i + 1>> \in before /\ x[1] = t /\ x[2] = "queue" /\ i + 1 # 1
      BY <3>1, <3>2, <1>4
    <3>4. QED BY <3>1, <3>2, <3>3
  <2>2. CASE ~\E i \in Positions(a[t], F) : x = <<t, "queue", i>>
    <3>1. x \in before /\ ~(x[1] = t /\ x[2] = "queue")
      <4>1. CASE \E u \in Threads : \E i \in Positions(s[u], FramesOf(l)) : x = <<u, "stack", i>>
        BY <4>1, <1>4, <1>5
      <4>2. CASE \E u \in Threads : \E i \in Positions(a[u], F) : x = <<u, "queue", i>>
        <5>1. PICK u \in Threads : \E i \in Positions(a[u], F) : x = <<u, "queue", i>>
          BY <4>2
        <5>2. u # t
          BY <2>2, <5>1
        <5>3. a[u] = w[u]
          BY <1>2, <5>2
        <5>4. x \in before
          BY <5>1, <5>3, <1>4
        <5>5. QED BY <5>1, <5>2, <5>4
      <4>3. CASE l \in p /\ x = <<l, "pending", 0>>
        BY <4>3, <1>4, <1>5
      <4>4. QED BY <4>1, <4>2, <4>3, <1>4, <1>5
    <3>2. x # <<t, "queue", 1>>
      BY <3>1
    <3>3. QED BY <3>1, <3>2
  <2>3. QED BY <2>1, <2>2
<1>7. ASSUME NEW y \in before, y # <<t, "queue", 1>>
      PROVE  \E x \in after : Up(x, y)
  <2>1. CASE \E i \in Positions(w[t], F) : y = <<t, "queue", i>>
    <3>1. PICK i \in Positions(w[t], F) : y = <<t, "queue", i>>
      BY <2>1
    <3>2. i \in 1 .. n /\ i # 1
      BY <1>1, <1>7, <3>1
    <3>3. i - 1 \in 1 .. n - 1 /\ i - 1 + 1 = i /\ i - 1 \in Nat
      BY <1>1, <3>2
    <3>4. i - 1 \in Positions(a[t], F)
      BY <1>3, <3>3
    <3> DEFINE x == <<t, "queue", i - 1>>
    <3>5. x \in after /\ x[1] = t /\ x[2] = "queue"
      BY <3>4, <1>5
    <3>6. Up(x, y)
      BY <3>1, <3>3, <3>5
    <3>7. QED BY <3>5, <3>6
  <2>2. CASE ~\E i \in Positions(w[t], F) : y = <<t, "queue", i>>
    <3>1. y \in after /\ ~(y[1] = t /\ y[2] = "queue")
      <4>1. CASE \E u \in Threads : \E i \in Positions(s[u], FramesOf(l)) : y = <<u, "stack", i>>
        BY <4>1, <1>4, <1>5
      <4>2. CASE \E u \in Threads : \E i \in Positions(w[u], F) : y = <<u, "queue", i>>
        BY <4>2, <2>2, <1>2, <1>4, <1>5
      <4>3. CASE l \in p /\ y = <<l, "pending", 0>>
        BY <4>3, <1>4, <1>5
      <4>4. QED BY <4>1, <4>2, <4>3, <1>4, <1>5
    <3>2. QED BY <3>1
  <2>3. QED BY <2>1, <2>2
<1>8. \A x1, x2, y1, y2 : Up(x1, y1) /\ Up(x2, y2) /\ y1 = y2 /\ x1 \in after /\ x2 \in after => x1 = x2
  <2> SUFFICES ASSUME NEW x1 \in after, NEW x2 \in after, NEW y, Up(x1, y), Up(x2, y) PROVE x1 = x2
    OBVIOUS
  <2>1. CASE x1[1] = t /\ x1[2] = "queue" /\ x2[1] = t /\ x2[2] = "queue"
    BY <2>1
  <2>2. CASE ~(x1[1] = t /\ x1[2] = "queue") /\ ~(x2[1] = t /\ x2[2] = "queue")
    BY <2>2
  <2>3. CASE x1[1] = t /\ x1[2] = "queue" /\ ~(x2[1] = t /\ x2[2] = "queue")
    BY <2>3
  <2>4. CASE ~(x1[1] = t /\ x1[2] = "queue") /\ x2[1] = t /\ x2[2] = "queue"
    BY <2>4
  <2>5. QED BY <2>1, <2>2, <2>3, <2>4
<1>9. <<t, "queue", 1>> \in before <=> w[t][1].loop = l
  BY <1>1, <1>4
<1> HIDE DEF Up
<1>10. CASE w[t][1].loop # l
  <2>1. before = {} => after = {}
    BY <1>6
  <2>2. ASSUME Alone(before) PROVE Alone(after)
    <3>1. PICK y : before = {y}
      BY <2>2 DEF Alone
    <3>2. y # <<t, "queue", 1>>
      BY <1>9, <1>10, <3>1
    <3>3. PICK x \in after : Up(x, y)
      BY <1>7, <3>1, <3>2
    <3>4. \A z \in after : z = x
      BY <1>6, <1>8, <3>1, <3>3
    <3>5. after = {x}
      BY <3>4
    <3>6. QED BY <3>5 DEF Alone
  <2>3. QED BY <2>1, <2>2, <1>10 DEF before, after, n, PlaceTaken
<1>11. CASE w[t][1].loop = l
  <2>1. before # {}
    BY <1>9, <1>11
  <2>2. ASSUME Alone(before) PROVE after = {}
    BY <1>6, <1>9, <1>11, <2>2 DEF Alone
  <2>3. QED BY <2>1, <2>2, <1>11 DEF before, after, n, PlaceTaken
<1>12. QED BY <1>10, <1>11

-----------------------------------------------------------------------------
(* The frames and the tasks of every thread, as the types give them. *)
LEMMA Typed ==
    ASSUME TypeOK
    PROVE  /\ stack \in Stacks /\ waiting \in Queues
           /\ \A t \in Threads :
                 /\ stack[t] \in Seq(FrameSet) /\ DOMAIN stack[t] = 1 .. Len(stack[t]) /\ Len(stack[t]) \in Nat
                 /\ \A i \in DOMAIN stack[t] : stack[t][i] \in FrameSet
                 /\ waiting[t] \in Seq(Tasks) /\ DOMAIN waiting[t] = 1 .. Len(waiting[t]) /\ Len(waiting[t]) \in Nat
                 /\ \A i \in DOMAIN waiting[t] : waiting[t][i] \in Tasks
                 /\ trampoline[t] # None => trampoline[t] \in Trampolines
<1>1. stack \in Stacks /\ waiting \in Queues
  BY DEF TypeOK, Stacks, Queues
<1>2. ASSUME NEW t \in Threads
      PROVE  /\ stack[t] \in Seq(FrameSet) /\ DOMAIN stack[t] = 1 .. Len(stack[t]) /\ Len(stack[t]) \in Nat
             /\ \A i \in DOMAIN stack[t] : stack[t][i] \in FrameSet
             /\ waiting[t] \in Seq(Tasks) /\ DOMAIN waiting[t] = 1 .. Len(waiting[t]) /\ Len(waiting[t]) \in Nat
             /\ \A i \in DOMAIN waiting[t] : waiting[t][i] \in Tasks
             /\ trampoline[t] # None => trampoline[t] \in Trampolines
  <2>1. stack[t] \in Seq(FrameSet) /\ waiting[t] \in Seq(Tasks)
    BY DEF TypeOK
  <2>2. trampoline[t] # None => trampoline[t] \in Trampolines
    BY DEF TypeOK
  <2>3. QED BY <2>1, <2>2, PositionsBounded
<1>3. QED BY <1>1, <1>2

(* The places of loop l were the frames of thread t these. *)
Base(t, frames, l) == PlacesIn([stack EXCEPT ![t] = frames], waiting, pending, l)

(* What has no frame left of a loop is in no queue either, and so on: a    *)
(* loop is nowhere or in one place.                                        *)
LEMMA NowhereOrAlone ==
    ASSUME TypeOK, Placed, NEW l \in Loops
    PROVE  Places(l) = {} \/ Alone(Places(l))
BY LoopNumbers DEF Placed, InnerPlaced, OuterPlaced

(* A thread's frames without the innermost, and where the loops are then.  *)
LEMMA Popping ==
    ASSUME TypeOK, NEW t \in Threads, ~Idle(t)
    PROVE  /\ Top(t) \in FrameSet /\ Len(stack[t]) \in DOMAIN stack[t]
           /\ Popped(t) \in Seq(FrameSet) /\ Len(Popped(t)) = Len(stack[t]) - 1
           /\ \A i \in 1 .. Len(stack[t]) - 1 : Popped(t)[i] = stack[t][i]
           /\ \A F : Positions(Popped(t), F) = Positions(stack[t], F) \ {Len(stack[t])}
           /\ \A F : Len(stack[t]) \in Positions(stack[t], F) <=> Top(t) \in F
           /\ \A l \in Loops :
                 /\ Base(t, Popped(t), l) = Places(l) \ {<<t, "stack", Len(stack[t])>>}
                 /\ <<t, "stack", Len(stack[t])>> \in Places(l) <=> Mentions(Top(t), l)
<1>1. stack[t] \in Seq(FrameSet) /\ stack[t] # << >> /\ DOMAIN stack[t] = 1 .. Len(stack[t])
  BY Typed DEF Idle
<1>2. /\ Top(t) \in FrameSet /\ Popped(t) \in Seq(FrameSet) /\ Len(Popped(t)) = Len(stack[t]) - 1
      /\ Len(stack[t]) \in Nat /\ Len(stack[t]) # 0
      /\ \A i \in 1 .. Len(stack[t]) - 1 : Popped(t)[i] = stack[t][i]
  BY <1>1, PositionsPopped DEF Top, Popped
<1>3. ASSUME NEW F
      PROVE  /\ Positions(Popped(t), F) = Positions(stack[t], F) \ {Len(stack[t])}
             /\ Len(stack[t]) \in Positions(stack[t], F) <=> Top(t) \in F
  BY <1>1, PositionsPopped DEF Top, Popped
<1>4. ASSUME NEW l \in Loops
      PROVE  /\ Base(t, Popped(t), l) = Places(l) \ {<<t, "stack", Len(stack[t])>>}
             /\ <<t, "stack", Len(stack[t])>> \in Places(l) <=> Mentions(Top(t), l)
  <2>1. Places(l) = PlacesIn(stack, waiting, pending, l) /\ stack \in Stacks
    BY PlacesAre, Typed
  <2>2. /\ PlacesIn([stack EXCEPT ![t] = SubSeq(stack[t], 1, Len(stack[t]) - 1)], waiting, pending, l)
              = PlacesIn(stack, waiting, pending, l) \ {<<t, "stack", Len(stack[t])>>}
        /\ <<t, "stack", Len(stack[t])>> \in PlacesIn(stack, waiting, pending, l)
              <=> Mentions(stack[t][Len(stack[t])], l)
    BY <1>1, <2>1, PlacesPopped
  <2>3. QED BY <2>1, <2>2 DEF Top, Popped, Base
<1>5. QED BY <1>1, <1>2, <1>3, <1>4

(* No two tasks that wait are of the same loop. *)
LEMMA WaitingApart ==
    ASSUME TypeOK, Placed, NEW t \in Threads, NEW u \in Threads,
           NEW i \in DOMAIN waiting[t], NEW j \in DOMAIN waiting[u],
           waiting[t][i].loop = waiting[u][j].loop
    PROVE  t = u /\ i = j
<1> DEFINE l == waiting[t][i].loop
<1>1. l \in Loops /\ waiting[t][i] \in Tasks /\ waiting[u][j] \in Tasks
  BY Typed, TasksMade
<1>2. i \in Positions(waiting[t], TasksOf(l)) /\ j \in Positions(waiting[u], TasksOf(l))
  BY <1>1, TasksMade DEF Positions
<1>3. <<t, "queue", i>> \in Places(l) /\ <<u, "queue", j>> \in Places(l)
  <2>1. Places(l) = PlacesIn(stack, waiting, pending, l)
    BY <1>1, PlacesAre
  <2>2. /\ <<t, "queue", i>> \in PlacesIn(stack, waiting, pending, l)
        /\ <<u, "queue", j>> \in PlacesIn(stack, waiting, pending, l)
    BY <1>1, <1>2, PlacesKinds
  <2>3. QED BY <2>1, <2>2
<1>4. Places(l) = {} \/ Alone(Places(l))
  BY <1>1, NowhereOrAlone
<1>5. QED BY <1>3, <1>4 DEF Alone

(* A loop whose frame was taken off, or that was nowhere, waits nowhere. *)
LEMMA WaitsNowhere ==
    ASSUME TypeOK, NEW t \in Threads, NEW frames, NEW l \in Loops, Base(t, frames, l) = {}
    PROVE  /\ \A u \in Threads : \A i \in DOMAIN waiting[u] : waiting[u][i].loop # l
           /\ l \notin pending
           /\ \A u \in Threads \ {t} : \A i \in DOMAIN stack[u] : ~Mentions(stack[u][i], l)
           /\ frames \in Seq(FrameSet) => \A i \in DOMAIN frames : ~Mentions(frames[i], l)
<1> DEFINE s == [stack EXCEPT ![t] = frames]
<1>1. /\ \A u \in Threads : Positions(s[u], FramesOf(l)) = {} /\ Positions(waiting[u], TasksOf(l)) = {}
      /\ l \notin pending
  BY PlacesKinds DEF Base
<1>2. s[t] = frames /\ \A u \in Threads \ {t} : s[u] = stack[u]
  BY Typed DEF Stacks
<1> HIDE DEF s
<1>3. ASSUME NEW u \in Threads, NEW i \in DOMAIN waiting[u] PROVE waiting[u][i].loop # l
  BY <1>1, TasksMade, Typed DEF Positions
<1>4. ASSUME NEW u \in Threads \ {t}, NEW i \in DOMAIN stack[u] PROVE ~Mentions(stack[u][i], l)
  <2>1. stack[u][i] \in FrameSet /\ Positions(stack[u], FramesOf(l)) = {}
    BY <1>1, <1>2, Typed
  <2>2. QED BY <2>1 DEF Positions, FramesOf
<1>5. ASSUME frames \in Seq(FrameSet), NEW i \in DOMAIN frames PROVE ~Mentions(frames[i], l)
  <2>1. frames[i] \in FrameSet
    BY <1>5, ElementOfSeq, LenProperties
  <2>2. Positions(frames, FramesOf(l)) = {}
    BY <1>1, <1>2
  <2>3. QED BY <1>5, <2>1, <2>2 DEF Positions, FramesOf
<1>6. QED BY <1>1, <1>3, <1>4, <1>5

-----------------------------------------------------------------------------
(* NestsAndQueues of one thread: how its work nests, and its queue.        *)
NestedIn(t) ==
    IF trampoline[t] = None
       THEN /\ waiting[t] = << >>
            /\ Positions(stack[t], {Nested}) = {} /\ Positions(stack[t], {Outermost}) = {}
       ELSE /\ trampoline[t].depth = 1 + Cardinality(Positions(stack[t], {Nested}))
            /\ trampoline[t].depth <= MaxDepth
            /\ Positions(stack[t], {Outermost}) = {1}

Linked(t) ==
    trampoline[t] # None =>
        LET last == Len(waiting[t])
        IN  /\ trampoline[t].head = IF last = 0 THEN None ELSE waiting[t][1]
            /\ trampoline[t].tail = IF last = 0 THEN None ELSE waiting[t][last]
            /\ \A i \in 1 .. last : next[waiting[t][i]] = IF i = last THEN None ELSE waiting[t][i + 1]

LEMMA QueueParts == NestsAndQueues <=> \A t \in Threads : NestedIn(t) /\ Linked(t)
<1>1. ASSUME NEW t \in Threads
      PROVE  /\ Nests(t) = Positions(stack[t], {Nested})
             /\ ({i \in DOMAIN stack[t] : stack[t][i] = Outermost} = Positions(stack[t], {Outermost}))
             /\ ((\A i \in DOMAIN stack[t] : stack[t][i] \notin {Outermost, Nested})
                   <=> Positions(stack[t], {Nested}) = {} /\ Positions(stack[t], {Outermost}) = {})
  BY DEF Nests, Positions
<1> DEFINE A(t) == \A i \in DOMAIN stack[t] : stack[t][i] \notin {Outermost, Nested}
           B(t) == {i \in DOMAIN stack[t] : stack[t][i] = Outermost} = {1}
           C(t) == IF trampoline[t] = None
                      THEN waiting[t] = << >> /\ A(t)
                      ELSE /\ trampoline[t].depth = 1 + Cardinality(Nests(t))
                           /\ trampoline[t].depth <= MaxDepth
                           /\ B(t)
<1>2. NestsAndQueues <=> \A t \in Threads : C(t) /\ Linked(t)
  BY DEF NestsAndQueues, Linked
<1>3. ASSUME NEW t \in Threads PROVE C(t) <=> NestedIn(t)
  BY <1>1 DEF NestedIn
<1> HIDE DEF C
<1>4. QED BY <1>2, <1>3

LEMMA QueuePartsNext == NestsAndQueues' <=> \A t \in Threads : NestedIn(t)' /\ Linked(t)'
<1>1. ASSUME NEW t \in Threads
      PROVE  /\ Nests(t)' = Positions(stack[t], {Nested})'
             /\ ({i \in DOMAIN stack[t] : stack[t][i] = Outermost} = Positions(stack[t], {Outermost}))'
             /\ ((\A i \in DOMAIN stack[t] : stack[t][i] \notin {Outermost, Nested})
                   <=> Positions(stack[t], {Nested}) = {} /\ Positions(stack[t], {Outermost}) = {})'
  BY DEF Nests, Positions
<1> DEFINE A(t) == \A i \in DOMAIN stack[t] : stack[t][i] \notin {Outermost, Nested}
           B(t) == {i \in DOMAIN stack[t] : stack[t][i] = Outermost} = {1}
           C(t) == IF trampoline[t] = None
                      THEN waiting[t] = << >> /\ A(t)
                      ELSE /\ trampoline[t].depth = 1 + Cardinality(Nests(t))
                           /\ trampoline[t].depth <= MaxDepth
                           /\ B(t)
<1>2. NestsAndQueues' <=> \A t \in Threads : C(t)' /\ Linked(t)'
  BY DEF NestsAndQueues, Linked
<1>3. ASSUME NEW t \in Threads PROVE C(t)' <=> NestedIn(t)'
  BY <1>1 DEF NestedIn
<1> HIDE DEF C
<1>4. QED BY <1>2, <1>3

(* Based, of one thread. *)
BasedIn(t) ==
    trampoline[t] = None =>
        \/ stack[t] = << >>
        \/ Len(stack[t]) = 1 /\ stack[t][1].at = "complete"

(* What a thread that runs a task may leave of its stack: its runs.        *)
Flat(t, frames) ==
    /\ frames \in Seq(FrameSet)
    /\ \A f \in {Nested, Outermost} : Positions(frames, {f}) = Positions(stack[t], {f})
    /\ trampoline[t] = None => frames = << >>

LEMMA TwoAppended ==
    ASSUME NEW S, NEW s \in Seq(S), NEW a \in S, NEW b \in S
    PROVE  s \o <<a, b>> = Append(Append(s, a), b)
<1>1. <<a, b>> \in Seq(S) /\ Len(<<a, b>>) = 2 /\ <<a, b>>[1] = a /\ <<a, b>>[2] = b
  OBVIOUS
<1>2. Len(s) \in Nat
  BY LenProperties
<1> DEFINE c == s \o <<a, b>>
           d == Append(s, a)
           e == Append(d, b)
<1>3. c \in Seq(S) /\ Len(c) = Len(s) + 2 /\ \A i \in 1 .. Len(s) + 2 : c[i] = IF i <= Len(s) THEN s[i] ELSE <<a, b>>[i - Len(s)]
  <2> HIDE DEF c
  <2>1. c \in Seq(S) /\ Len(c) = Len(s) + Len(<<a, b>>)
        /\ \A i \in 1 .. Len(s) + Len(<<a, b>>) : c[i] = IF i <= Len(s) THEN s[i] ELSE <<a, b>>[i - Len(s)]
    BY <1>1, ConcatProperties DEF c
  <2>2. QED BY <1>1, <2>1
<1>4. d \in Seq(S) /\ Len(d) = Len(s) + 1 /\ d[Len(s) + 1] = a /\ \A i \in 1 .. Len(s) : d[i] = s[i]
  BY AppendProperties
<1> HIDE DEF d
<1>5. e \in Seq(S) /\ Len(e) = Len(d) + 1 /\ e[Len(d) + 1] = b /\ \A i \in 1 .. Len(d) : e[i] = d[i]
  BY <1>4, AppendProperties
<1> HIDE DEF c, e
<1>6. ASSUME NEW i \in 1 .. Len(s) PROVE c[i] = e[i]
  <2>1. i <= Len(s) /\ i \in 1 .. Len(s) + 2 /\ i \in 1 .. Len(d)
    BY <1>2, <1>4
  <2>2. c[i] = s[i]
    BY <1>3, <2>1
  <2>3. QED BY <1>4, <1>5, <2>1, <2>2
<1>7. c[Len(s) + 1] = e[Len(s) + 1]
  <2>1. Len(s) + 1 - Len(s) = 1 /\ ~(Len(s) + 1 <= Len(s)) /\ Len(s) + 1 \in 1 .. Len(s) + 2
    BY <1>2
  <2>2. c[Len(s) + 1] = a
    BY <1>1, <1>3, <2>1
  <2>3. e[Len(s) + 1] = a
    BY <1>2, <1>4, <1>5
  <2>4. QED BY <2>2, <2>3
<1>8. c[Len(s) + 2] = e[Len(s) + 2]
  <2>1. Len(s) + 2 - Len(s) = 2 /\ ~(Len(s) + 2 <= Len(s)) /\ Len(s) + 2 \in 1 .. Len(s) + 2
    BY <1>2
  <2>2. c[Len(s) + 2] = b
    BY <1>1, <1>3, <2>1
  <2>3. e[Len(s) + 2] = b
    BY <1>2, <1>4, <1>5
  <2>4. QED BY <2>2, <2>3
<1>9. \A i \in 1 .. Len(c) : c[i] = e[i]
  BY <1>2, <1>3, <1>6, <1>7, <1>8
<1>10. c = e
  BY <1>2, <1>3, <1>4, <1>5, <1>9, SeqEqual
<1>11. QED BY <1>10 DEF c, d, e

(* The runs of a stack are finitely many. *)
LEMMA RunsFinite ==
    ASSUME TypeOK, NEW t \in Threads, NEW F
    PROVE  /\ IsFiniteSet(Positions(stack[t], F)) /\ Cardinality(Positions(stack[t], F)) \in Nat
           /\ Positions(stack[t], F) \subseteq 1 .. Len(stack[t])
<1>1. stack[t] \in Seq(FrameSet) /\ Len(stack[t]) \in Nat
  BY Typed
<1>2. Positions(stack[t], F) \subseteq 1 .. Len(stack[t])
  BY <1>1, PositionsBounded
<1>3. IsFiniteSet(1 .. Len(stack[t]))
  BY <1>1, FS_Interval
<1>4. QED BY <1>2, <1>3, FS_Subset, FS_CardinalityType

(* Where the other threads' work nests and waits is not affected.          *)
LEMMA OthersQueues ==
    ASSUME TypeOK, NestsAndQueues, Based, NEW t \in Threads, NEW u \in Threads \ {t},
           stack'[u] = stack[u], trampoline'[u] = trampoline[u], waiting'[u] = waiting[u],
           \A i \in DOMAIN waiting[u] : next'[waiting[u][i]] = next[waiting[u][i]]
    PROVE  NestedIn(u)' /\ Linked(u)' /\ BasedIn(u)'
<1>1. NestedIn(u) /\ Linked(u) /\ BasedIn(u)
  BY QueueParts DEF Based, BasedIn
<1>2. NestedIn(u)'
  BY <1>1 DEF NestedIn
<1>3. BasedIn(u)'
  BY <1>1 DEF BasedIn
<1>4. Linked(u)'
  <2>1. DOMAIN waiting[u] = 1 .. Len(waiting[u])
    BY Typed
  <2>2. QED BY <1>1, <2>1 DEF Linked
<1>5. QED BY <1>2, <1>3, <1>4

-----------------------------------------------------------------------------
(* What a run of task k on frames of thread t changes, and what it keeps:  *)
(* every other loop is where it was, and the task's is in one place.       *)
RanTypes ==
    /\ stack' \in Stacks /\ waiting' \in Queues
    /\ trampoline' \in [Threads -> Trampolines \cup {None}] /\ next' \in [Tasks -> Links]

RanPlaces(t, frames, k) ==
    \A l \in Loops : IF k.loop = l THEN Alone(PlacesIn(stack', waiting', pending, l))
                                   ELSE PlacesIn(stack', waiting', pending, l) = Base(t, frames, l)

RanFrames(t, frames, k) ==
    \A u \in Threads :
        /\ \A i \in DOMAIN stack'[u] : Mentions(stack'[u][i], Outer) =>
              \/ stack'[u][i] = Execute(k)
              \/ \E j \in DOMAIN [stack EXCEPT ![t] = frames][u] : stack'[u][i] = [stack EXCEPT ![t] = frames][u][j]
        /\ \A i \in DOMAIN waiting'[u] :
              waiting'[u][i] = k \/ \E j \in DOMAIN waiting[u] : waiting'[u][i] = waiting[u][j]

Ran(t, frames, k) == RanTypes /\ NestsAndQueues' /\ Based' /\ RanPlaces(t, frames, k) /\ RanFrames(t, frames, k)

(* A run's frame and its task's frame, put on frames. *)
RunPushes(t, frames, k, a) ==
    /\ stack' \in Stacks /\ RanPlaces(t, frames, k) /\ RanFrames(t, frames, k)
    /\ \A u \in Threads : u # t => stack'[u] = stack[u]
    /\ \A f \in {Nested, Outermost} :
          Positions(stack'[t], {f}) = Positions(frames, {f}) \cup (IF f = a THEN {Len(frames) + 1} ELSE {})
    /\ Len(stack'[t]) = Len(frames) + 2

LEMMA RunPushed ==
    ASSUME TypeOK, NEW t \in Threads, NEW frames \in Seq(FrameSet), NEW k \in Tasks,
           Base(t, frames, k.loop) = {}, NEW a \in {Outermost, Nested},
           stack' = [stack EXCEPT ![t] = frames \o <<a, Execute(k)>>], waiting' = waiting
    PROVE  RunPushes(t, frames, k, a)
<1> DEFINE q == Append(frames, a)
           r == Append(q, Execute(k))
           e == Execute(k)
<1>1. a \in FrameSet /\ e \in FrameSet /\ k.loop \in Loops /\ e # Outermost /\ e # Nested
  BY FramesMade, TasksMade
<1>2. frames \o <<a, e>> = r
  BY <1>1, TwoAppended
<1>3. stack \in Stacks /\ stack' = [stack EXCEPT ![t] = r]
  BY <1>2, Typed
<1>4. /\ q \in Seq(FrameSet) /\ Len(q) = Len(frames) + 1 /\ q[Len(frames) + 1] = a
      /\ \A i \in 1 .. Len(frames) : q[i] = frames[i]
      /\ \A F : Positions(q, F) = Positions(frames, F) \cup (IF a \in F THEN {Len(frames) + 1} ELSE {})
  BY <1>1, PositionsAppended
<1> HIDE DEF q
<1>5. /\ r \in Seq(FrameSet) /\ Len(r) = Len(q) + 1 /\ r[Len(q) + 1] = e
      /\ \A i \in 1 .. Len(q) : r[i] = q[i]
      /\ \A F : Positions(r, F) = Positions(q, F) \cup (IF e \in F THEN {Len(q) + 1} ELSE {})
  BY <1>1, <1>4, PositionsAppended
<1> HIDE DEF r
<1>6. stack' \in Stacks /\ stack'[t] = r /\ \A u \in Threads : u # t => stack'[u] = stack[u]
  BY <1>3, <1>5 DEF Stacks
<1>7. \A f \in {Nested, Outermost} :
         Positions(stack'[t], {f}) = Positions(frames, {f}) \cup (IF f = a THEN {Len(frames) + 1} ELSE {})
  <2> SUFFICES ASSUME NEW f \in {Nested, Outermost}
               PROVE  Positions(r, {f}) = Positions(frames, {f}) \cup (IF f = a THEN {Len(frames) + 1} ELSE {})
    BY <1>6
  <2>1. Positions(r, {f}) = Positions(q, {f}) \cup (IF e \in {f} THEN {Len(q) + 1} ELSE {})
    BY <1>5
  <2>2. e \notin {f}
    BY <1>1
  <2>3. Positions(q, {f}) = Positions(frames, {f}) \cup (IF a \in {f} THEN {Len(frames) + 1} ELSE {})
    BY <1>4
  <2>4. QED BY <2>1, <2>2, <2>3
<1>8. Len(stack'[t]) = Len(frames) + 2
  <2>1. Len(frames) \in Nat
    BY LenProperties
  <2>2. QED BY <2>1, <1>4, <1>5, <1>6
<1>9. ASSUME NEW l \in Loops
      PROVE  IF k.loop = l THEN Alone(PlacesIn(stack', waiting', pending, l))
                           ELSE PlacesIn(stack', waiting', pending, l) = Base(t, frames, l)
  <2>1. PlacesIn([stack EXCEPT ![t] = q], waiting, pending, l) = Base(t, frames, l)
    <3>1. ~Mentions(a, l)
      BY FramesMade
    <3>2. /\ [stack EXCEPT ![t] = frames][t] = frames /\ [stack EXCEPT ![t] = q][t] = Append(frames, a)
          /\ \A u \in Threads : u # t => [stack EXCEPT ![t] = frames][u] = [stack EXCEPT ![t] = q][u]
      BY <1>3 DEF Stacks, q
    <3>3. PlaceAdded([stack EXCEPT ![t] = frames], [stack EXCEPT ![t] = q], waiting, pending, t, frames, a, l)
      BY <1>1, <3>2, PlacesPushed
    <3>4. QED BY <3>1, <3>3 DEF Base, PlaceAdded
  <2>2. IF Mentions(e, l)
           THEN PlacesIn(stack', waiting, pending, l)
                  = PlacesIn([stack EXCEPT ![t] = q], waiting, pending, l) \cup {<<t, "stack", Len(q) + 1>>}
           ELSE PlacesIn(stack', waiting, pending, l)
                  = PlacesIn([stack EXCEPT ![t] = q], waiting, pending, l)
    <3>1. /\ [stack EXCEPT ![t] = q][t] = q /\ stack'[t] = Append(q, e)
          /\ \A u \in Threads : u # t => [stack EXCEPT ![t] = q][u] = stack'[u]
      BY <1>3, <1>6 DEF Stacks, r
    <3> HIDE DEF e
    <3>2. q \in Seq(FrameSet) /\ e \in FrameSet
      BY <1>1, <1>4
    <3>3. PlaceAdded([stack EXCEPT ![t] = q], stack', waiting, pending, t, q, e, l)
      BY <3>1, <3>2, PlacesPushed
    <3>4. QED BY <3>3 DEF PlaceAdded
  <2>3. Mentions(e, l) <=> k.loop = l
    BY FramesMade
  <2>4. CASE k.loop = l
    <3>1. PlacesIn(stack', waiting', pending, l) = PlacesIn(stack', waiting, pending, l) /\ Base(t, frames, l) = {}
      BY <2>4
    <3>2. PlacesIn(stack', waiting', pending, l) = {<<t, "stack", Len(q) + 1>>}
      BY <2>1, <2>2, <2>3, <2>4, <3>1
    <3>3. QED BY <2>4, <3>2 DEF Alone
  <2>5. CASE k.loop # l
    BY <1>3, <2>1, <2>2, <2>3, <2>5
  <2>6. QED BY <2>4, <2>5
<1>10. RanFrames(t, frames, k)
  <2> SUFFICES ASSUME NEW u \in Threads, NEW i \in DOMAIN stack'[u], Mentions(stack'[u][i], Outer)
               PROVE  \/ stack'[u][i] = e
                      \/ \E j \in DOMAIN [stack EXCEPT ![t] = frames][u] : stack'[u][i] = [stack EXCEPT ![t] = frames][u][j]
    BY DEF RanFrames
  <2>1. CASE u # t
    BY <1>3, <1>6, <2>1 DEF Stacks
  <2>2. CASE u = t
    <3>1. /\ DOMAIN r = 1 .. Len(frames) + 2 /\ DOMAIN frames = 1 .. Len(frames) /\ Len(frames) \in Nat
          /\ [stack EXCEPT ![t] = frames][t] = frames
      BY <1>3, <1>4, <1>5, LenProperties DEF Stacks
    <3>2. i \in 1 .. Len(frames) \/ i = Len(frames) + 1 \/ i = Len(frames) + 2
      BY <1>6, <2>2, <3>1
    <3>3. CASE i \in 1 .. Len(frames)
      <4>1. stack'[u][i] = frames[i]
        BY <1>4, <1>5, <1>6, <2>2, <3>1, <3>3
      <4>2. QED BY <2>2, <3>1, <3>3, <4>1
    <3>4. CASE i = Len(frames) + 1
      <4>1. stack'[u][i] = a
        BY <1>4, <1>5, <1>6, <2>2, <3>1, <3>4
      <4>2. ~Mentions(a, Outer)
        BY FramesMade, LoopNumbers
      <4>3. QED BY <4>1, <4>2
    <3>5. CASE i = Len(frames) + 2
      <4>1. stack'[u][i] = e
        BY <1>4, <1>5, <1>6, <2>2, <3>1, <3>5
      <4>2. QED BY <4>1
    <3>6. QED BY <3>2, <3>3, <3>4, <3>5
  <2>3. QED BY <2>1, <2>2
<1>11. QED BY <1>6, <1>7, <1>8, <1>9, <1>10 DEF RanPlaces, RunPushes

(* A first run on a thread begins its trampoline. *)
LEMMA OutermostRuns ==
    ASSUME IInv, NEW t \in Threads, NEW frames, Flat(t, frames), NEW k \in Tasks,
           Base(t, frames, k.loop) = {}, RunOutermost(t, frames, k)
    PROVE  Ran(t, frames, k)
<1>1. /\ trampoline[t] = None /\ frames = << >> /\ frames \in Seq(FrameSet) /\ Len(frames) = 0
      /\ trampoline' = [trampoline EXCEPT ![t] = [depth |-> 1, head |-> None, tail |-> None]]
      /\ stack' = [stack EXCEPT ![t] = frames \o <<Outermost, Execute(k)>>]
      /\ next' = next /\ waiting' = waiting
  BY EmptySeq DEF RunOutermost, Flat, SetStack
<1>2. /\ stack' \in Stacks /\ RanPlaces(t, frames, k) /\ RanFrames(t, frames, k)
      /\ \A u \in Threads : u # t => stack'[u] = stack[u]
      /\ \A f \in {Nested, Outermost} :
            Positions(stack'[t], {f}) = Positions(frames, {f}) \cup (IF f = Outermost THEN {Len(frames) + 1} ELSE {})
      /\ Len(stack'[t]) = Len(frames) + 2
  <2>1. TypeOK /\ Outermost \in {Outermost, Nested}
    BY DEF IInv
  <2>2. RunPushes(t, frames, k, Outermost)
    BY <1>1, <2>1, RunPushed
  <2>3. QED BY <2>2 DEF RunPushes
<1>3. /\ trampoline'[t] = [depth |-> 1, head |-> None, tail |-> None]
      /\ trampoline'[t] \in Trampolines /\ trampoline'[t] # None
      /\ \A u \in Threads : u # t => trampoline'[u] = trampoline[u]
  BY <1>1, NoneAssumption DEF IInv, TypeOK, Trampolines
<1>4. RanTypes
  <2>1. trampoline' \in [Threads -> Trampolines \cup {None}]
    BY <1>1, <1>3 DEF IInv, TypeOK
  <2>2. QED BY <1>1, <1>2, <2>1, Typed DEF RanTypes, IInv, TypeOK
<1>5. NestedIn(t)'
  <2>1. Positions(frames, {Nested}) = {} /\ Positions(frames, {Outermost}) = {}
    <3>1. Positions(frames, {Nested}) \subseteq 1 .. 0 /\ Positions(frames, {Outermost}) \subseteq 1 .. 0
      BY <1>1, PositionsBounded
    <3>2. QED BY <3>1
  <2>2. Positions(stack'[t], {Nested}) = {} /\ Positions(stack'[t], {Outermost}) = {1}
    <3>1. Outermost # Nested /\ Len(frames) + 1 = 1
      BY <1>1, FramesMade
    <3>2. Positions(stack'[t], {Nested}) = {}
      BY <1>2, <2>1, <3>1
    <3>3. Positions(stack'[t], {Outermost}) = {} \cup {1}
      BY <1>2, <2>1, <3>1
    <3>4. QED BY <3>2, <3>3
  <2>3. Cardinality(Positions(stack'[t], {Nested})) = 0
    BY <2>2, FS_EmptySet
  <2>4. 1 <= MaxDepth /\ trampoline'[t].depth = 1
    BY <1>3, LoopsAssumption
  <2>5. trampoline'[t].depth = 1 + Cardinality(Positions(stack'[t], {Nested}))
    BY <2>3, <2>4
  <2>6. QED BY <1>3, <2>2, <2>4, <2>5 DEF NestedIn
<1>6. Linked(t)'
  <2>1. waiting[t] = << >>
    BY <1>1, QueueParts DEF NestedIn, IInv
  <2>2. Len(waiting'[t]) = 0
    BY <1>1, <2>1, EmptySeq
  <2>3. QED BY <1>3, <2>2 DEF Linked
<1>7. BasedIn(t)'
  BY <1>3 DEF BasedIn
<1>8. \A u \in Threads \ {t} : NestedIn(u)' /\ Linked(u)' /\ BasedIn(u)'
  BY <1>1, <1>2, <1>3, OthersQueues DEF IInv
<1>9. NestsAndQueues' /\ Based'
  <2>1. \A u \in Threads : NestedIn(u)' /\ Linked(u)' /\ BasedIn(u)'
    BY <1>5, <1>6, <1>7, <1>8
  <2>2. QED BY <2>1, QueuePartsNext DEF Based, BasedIn
<1>10. QED BY <1>2, <1>4, <1>9 DEF Ran

(* A run nested in another one counts itself. *)
LEMMA NestedRuns ==
    ASSUME IInv, NEW t \in Threads, NEW frames, Flat(t, frames), NEW k \in Tasks,
           Base(t, frames, k.loop) = {}, RunNested(t, frames, k)
    PROVE  Ran(t, frames, k)
<1>1. /\ trampoline[t] # None /\ trampoline[t].depth < MaxDepth /\ frames \in Seq(FrameSet)
      /\ trampoline' = [trampoline EXCEPT ![t].depth = @ + 1]
      /\ stack' = [stack EXCEPT ![t] = frames \o <<Nested, Execute(k)>>]
      /\ next' = next /\ waiting' = waiting
  BY DEF RunNested, MayNest, Flat, SetStack
<1>2. RunPushes(t, frames, k, Nested)
  <2>1. TypeOK /\ Nested \in {Outermost, Nested}
    BY DEF IInv
  <2>2. QED BY <1>1, <2>1, RunPushed
<1>3. trampoline \in [Threads -> Trampolines \cup {None}] /\ trampoline[t] \in Trampolines
  BY <1>1 DEF IInv, TypeOK
<1>4. /\ trampoline'[t] = [trampoline[t] EXCEPT !.depth = @ + 1]
      /\ \A u \in Threads : u # t => trampoline'[u] = trampoline[u]
      /\ trampoline' = [trampoline EXCEPT ![t] = trampoline'[t]]
  BY <1>1, <1>3
<1>5. /\ trampoline'[t].depth = trampoline[t].depth + 1 /\ trampoline'[t].head = trampoline[t].head
      /\ trampoline'[t].tail = trampoline[t].tail /\ trampoline'[t] \in Trampolines /\ trampoline'[t] # None
      /\ trampoline[t].depth \in Nat
  <2>1. /\ trampoline'[t].depth = trampoline[t].depth + 1 /\ trampoline'[t].head = trampoline[t].head
        /\ trampoline'[t].tail = trampoline[t].tail /\ trampoline'[t] \in Trampolines /\ trampoline[t].depth \in Nat
    BY <1>3, <1>4 DEF Trampolines
  <2>2. QED BY <2>1, NoneAssumption
<1>6. RanTypes
  <2>1. trampoline' \in [Threads -> Trampolines \cup {None}]
    BY <1>3, <1>4, <1>5
  <2>2. QED BY <1>1, <1>2, <2>1, Typed DEF RanTypes, RunPushes, IInv, TypeOK
<1>7. NestedIn(t) /\ Linked(t)
  BY QueueParts DEF IInv
<1>8. NestedIn(t)'
  <2> DEFINE P == Positions(stack[t], {Nested})
             n == Len(frames) + 1
  <2>1. /\ Positions(frames, {Nested}) = P /\ Positions(frames, {Outermost}) = Positions(stack[t], {Outermost})
        /\ P \subseteq 1 .. Len(frames) /\ Len(frames) \in Nat
    BY <1>1, PositionsBounded DEF Flat
  <2>2. Positions(stack'[t], {Nested}) = P \cup {n} /\ Positions(stack'[t], {Outermost}) = {1}
    <3>1. Nested # Outermost /\ Positions(stack[t], {Outermost}) = {1}
      BY <1>1, <1>7, FramesMade DEF NestedIn
    <3>2. Positions(stack'[t], {Nested}) = P \cup {n}
      BY <1>2, <2>1 DEF RunPushes
    <3>3. Positions(stack'[t], {Outermost}) = {1} \cup {}
      BY <1>2, <2>1, <3>1 DEF RunPushes
    <3>4. QED BY <3>2, <3>3
  <2>3. Cardinality(P \cup {n}) = Cardinality(P) + 1 /\ Cardinality(P) \in Nat
    <3>1. IsFiniteSet(P) /\ Cardinality(P) \in Nat
      BY RunsFinite DEF IInv
    <3>2. n \notin P
      <4>1. Len(frames) + 1 \notin 1 .. Len(frames)
        BY <2>1
      <4> HIDE DEF P
      <4>2. QED BY <2>1, <4>1
    <3> HIDE DEF P, n
    <3>3. QED BY <3>1, <3>2, FS_AddElement
  <2>4. trampoline[t].depth = 1 + Cardinality(P)
    BY <1>1, <1>7 DEF NestedIn
  <2> HIDE DEF P, n
  <2>5. trampoline'[t].depth = 1 + Cardinality(Positions(stack'[t], {Nested}))
    <3>1. Cardinality(Positions(stack'[t], {Nested})) = Cardinality(P) + 1
      BY <2>2, <2>3
    <3>2. trampoline'[t].depth = 1 + Cardinality(P) + 1
      BY <1>5, <2>4
    <3>3. QED BY <2>3, <3>1, <3>2
  <2>6. trampoline'[t].depth <= MaxDepth
    BY <1>1, <1>5, LoopsAssumption
  <2>7. QED BY <1>5, <2>2, <2>5, <2>6 DEF NestedIn
<1>9. Linked(t)'
  BY <1>1, <1>5, <1>7 DEF Linked
<1>10. BasedIn(t)'
  BY <1>5 DEF BasedIn
<1>11. \A u \in Threads \ {t} : NestedIn(u)' /\ Linked(u)' /\ BasedIn(u)'
  BY <1>1, <1>2, <1>4, OthersQueues DEF IInv, RunPushes
<1>12. NestsAndQueues' /\ Based'
  <2>1. \A u \in Threads : NestedIn(u)' /\ Linked(u)' /\ BasedIn(u)'
    BY <1>8, <1>9, <1>10, <1>11
  <2>2. QED BY <2>1, QueuePartsNext DEF Based, BasedIn
<1>13. QED BY <1>2, <1>6, <1>12 DEF Ran, RunPushes

(* A task handed over to a queue is its last, and linked to what was. *)
LEMMA TaskEnqueued ==
    ASSUME IInv, NEW t \in Threads, NEW frames, Flat(t, frames), NEW k \in Tasks,
           Base(t, frames, k.loop) = {}, Enqueue(t, frames, k)
    PROVE  Ran(t, frames, k)
<1> DEFINE tail == trampoline[t].tail
           w == waiting[t]
           n == Len(waiting[t])
<1>1. /\ trampoline[t] # None /\ frames \in Seq(FrameSet)
      /\ next' = [j \in Tasks |-> IF j = k THEN None ELSE IF j = tail THEN k ELSE next[j]]
      /\ trampoline' = [trampoline EXCEPT ![t].tail = k, ![t].head = IF tail = None THEN k ELSE @]
      /\ waiting' = [waiting EXCEPT ![t] = Append(@, k)]
      /\ stack' = [stack EXCEPT ![t] = frames]
  BY DEF Enqueue, Flat, SetStack
<1>2. TypeOK /\ stack \in Stacks /\ waiting \in Queues /\ next \in [Tasks -> Links]
  BY Typed DEF IInv, TypeOK
<1>3. trampoline \in [Threads -> Trampolines \cup {None}] /\ trampoline[t] \in Trampolines
  BY <1>1 DEF IInv, TypeOK
<1>4. /\ trampoline'[t].depth = trampoline[t].depth /\ trampoline'[t].tail = k
      /\ trampoline'[t].head = (IF tail = None THEN k ELSE trampoline[t].head)
      /\ trampoline'[t] \in Trampolines /\ trampoline'[t] # None
      /\ \A u \in Threads : u # t => trampoline'[u] = trampoline[u]
      /\ trampoline' = [trampoline EXCEPT ![t] = trampoline'[t]]
  <2>1. /\ trampoline'[t].depth = trampoline[t].depth /\ trampoline'[t].tail = k
        /\ trampoline'[t].head = (IF tail = None THEN k ELSE trampoline[t].head)
        /\ trampoline'[t] \in Trampolines
    BY <1>1, <1>3 DEF Trampolines
  <2>2. /\ \A u \in Threads : u # t => trampoline'[u] = trampoline[u]
        /\ trampoline' = [trampoline EXCEPT ![t] = trampoline'[t]]
    BY <1>1, <1>3
  <2>3. QED BY <2>1, <2>2, NoneAssumption
<1>5. /\ waiting'[t] = Append(w, k) /\ \A u \in Threads : u # t => waiting'[u] = waiting[u]
      /\ stack'[t] = frames /\ \A u \in Threads : u # t => stack'[u] = stack[u]
  BY <1>1, <1>2 DEF Stacks, Queues
<1>6. /\ Append(w, k) \in Seq(Tasks) /\ Len(Append(w, k)) = n + 1 /\ n \in Nat
      /\ Append(w, k)[n + 1] = k /\ \A i \in 1 .. n : Append(w, k)[i] = w[i] /\ w[i] \in Tasks
      /\ DOMAIN w = 1 .. n
  BY <1>2, PositionsAppended, PositionsBounded DEF Queues
<1>7. RanTypes
  <2>1. trampoline' \in [Threads -> Trampolines \cup {None}]
    BY <1>3, <1>4
  <2>2. stack' \in Stacks /\ waiting' \in Queues
    BY <1>1, <1>2, <1>6 DEF Stacks, Queues
  <2>3. next' \in [Tasks -> Links]
    BY <1>1, <1>2 DEF Links
  <2>4. QED BY <2>1, <2>2, <2>3 DEF RanTypes
<1>8. NestedIn(t) /\ Linked(t)
  BY QueueParts DEF IInv
<1>9. \A u \in Threads : \A i \in DOMAIN waiting[u] : waiting[u][i] # k
  <2>1. k.loop \in Loops
    BY TasksMade
  <2>2. QED BY <1>2, <2>1, WaitsNowhere
<1>10. NestedIn(t)'
  <2>1. /\ Positions(stack'[t], {Nested}) = Positions(stack[t], {Nested})
        /\ Positions(stack'[t], {Outermost}) = Positions(stack[t], {Outermost})
    BY <1>5 DEF Flat
  <2>2. QED BY <1>1, <1>4, <1>8, <2>1 DEF NestedIn
<1>11. tail = IF n = 0 THEN None ELSE w[n]
  BY <1>1, <1>8 DEF Linked
<1>12. Linked(t)'
  <2> DEFINE v == Append(w, k)
  <2>1. trampoline'[t].tail = v[n + 1] /\ Len(v) = n + 1 /\ n + 1 # 0
    BY <1>4, <1>6
  <2>2. trampoline'[t].head = v[1]
    <3>1. CASE n = 0
      BY <1>4, <1>6, <1>11, <3>1
    <3>2. CASE n # 0
      <4>1. 1 \in 1 .. n /\ n \in 1 .. n
        BY <1>6, <3>2
      <4>2. w[n] \in Tasks /\ v[1] = w[1]
        BY <1>6, <4>1
      <4>3. tail # None
        BY <1>11, <3>2, <4>2, NoneAssumption
      <4>4. trampoline[t].head = w[1]
        BY <1>1, <1>8, <3>2 DEF Linked
      <4>5. QED BY <1>4, <4>2, <4>3, <4>4
    <3>3. QED BY <3>1, <3>2
  <2>3. ASSUME NEW i \in 1 .. n + 1
        PROVE  next'[v[i]] = IF i = n + 1 THEN None ELSE v[i + 1]
    <3>1. CASE i = n + 1
      BY <1>1, <1>6, <3>1
    <3>2. CASE i = n /\ n # 0
      <4>1. n \in 1 .. n /\ v[n] = w[n] /\ w[n] \in Tasks /\ v[n + 1] = k /\ n # n + 1
        BY <1>6, <3>2
      <4>2. w[n] # k /\ tail = w[n]
        BY <1>6, <1>9, <1>11, <3>2, <4>1
      <4>3. next'[w[n]] = k
        BY <1>1, <4>1, <4>2
      <4>4. QED BY <3>2, <4>1, <4>3
    <3>3. CASE i < n
      <4>1. i \in 1 .. n /\ n \in 1 .. n /\ i + 1 \in 1 .. n /\ i # n + 1 /\ i # n /\ n # 0
        BY <1>6, <3>3
      <4>2. v[i] = w[i] /\ v[i + 1] = w[i + 1] /\ w[i] \in Tasks /\ w[i] # k
        BY <1>6, <1>9, <4>1
      <4>3. tail = w[n] /\ w[i] # w[n]
        <5>1. tail = w[n]
          BY <1>11, <4>1
        <5>2. w[i] # w[n]
          BY <1>6, <4>1, WaitingApart DEF IInv
        <5>3. QED BY <5>1, <5>2
      <4>4. next'[w[i]] = next[w[i]]
        BY <1>1, <4>2, <4>3
      <4>5. next[w[i]] = w[i + 1]
        BY <1>1, <1>8, <4>1 DEF Linked
      <4>6. QED BY <4>1, <4>2, <4>4, <4>5
    <3>4. i = n + 1 \/ (i = n /\ n # 0) \/ i < n
      BY <1>6
    <3>5. QED BY <3>1, <3>2, <3>3, <3>4
  <2> HIDE DEF v
  <2>4. waiting'[t] = v
    BY <1>5 DEF v
  <2>5. QED BY <2>1, <2>2, <2>3, <2>4 DEF Linked
<1>13. BasedIn(t)'
  BY <1>4 DEF BasedIn
<1>14. ASSUME NEW u \in Threads \ {t} PROVE NestedIn(u)' /\ Linked(u)' /\ BasedIn(u)'
  <2>1. ASSUME NEW i \in DOMAIN waiting[u] PROVE next'[waiting[u][i]] = next[waiting[u][i]]
    <3>1. waiting[u][i] \in Tasks /\ waiting[u][i] # k
      BY <1>2, <1>9, Typed
    <3>2. waiting[u][i] # tail
      <4>1. CASE n = 0
        BY <1>11, <3>1, <4>1, NoneAssumption
      <4>2. CASE n # 0
        <5>1. tail = w[n] /\ n \in DOMAIN w
          BY <1>6, <1>11, <4>2
        <5>2. QED BY <5>1, WaitingApart DEF IInv
      <4>3. QED BY <4>1, <4>2
    <3>3. QED BY <1>1, <3>1, <3>2
  <2>2. QED BY <1>4, <1>5, <2>1, OthersQueues DEF IInv
<1>15. NestsAndQueues' /\ Based'
  <2>1. \A u \in Threads : NestedIn(u)' /\ Linked(u)' /\ BasedIn(u)'
    BY <1>10, <1>12, <1>13, <1>14
  <2>2. QED BY <2>1, QueuePartsNext DEF Based, BasedIn
<1>16. RanPlaces(t, frames, k)
  <2> SUFFICES ASSUME NEW l \in Loops
               PROVE  IF k.loop = l THEN Alone(PlacesIn(stack', waiting', pending, l))
                                    ELSE PlacesIn(stack', waiting', pending, l) = Base(t, frames, l)
    BY DEF RanPlaces
  <2>1. PlacesIn(stack', waiting, pending, l) = Base(t, frames, l)
    BY <1>1 DEF Base
  <2>2. IF k.loop = l
           THEN PlacesIn(stack', waiting', pending, l)
                  = PlacesIn(stack', waiting, pending, l) \cup {<<t, "queue", n + 1>>}
           ELSE PlacesIn(stack', waiting', pending, l) = PlacesIn(stack', waiting, pending, l)
    <3>1. PlaceQueued(stack', waiting, waiting', pending, t, k, l)
      BY <1>2, <1>5, PlacesQueued
    <3>2. QED BY <3>1 DEF PlaceQueued
  <2>3. CASE k.loop = l
    <3>1. PlacesIn(stack', waiting', pending, l) = {<<t, "queue", n + 1>>}
      BY <2>1, <2>2, <2>3
    <3>2. QED BY <2>3, <3>1 DEF Alone
  <2>4. CASE k.loop # l
    BY <2>1, <2>2, <2>4
  <2>5. QED BY <2>3, <2>4
<1>17. RanFrames(t, frames, k)
  <2>1. ASSUME NEW u \in Threads, NEW i \in DOMAIN waiting'[u]
        PROVE  waiting'[u][i] = k \/ \E j \in DOMAIN waiting[u] : waiting'[u][i] = waiting[u][j]
    <3>1. CASE u # t
      BY <1>5, <3>1
    <3>2. CASE u = t
      <4>1. DOMAIN Append(w, k) = 1 .. n + 1
        BY <1>6, LenProperties
      <4>2. i \in 1 .. n \/ i = n + 1
        BY <1>5, <1>6, <3>2, <4>1
      <4>3. QED BY <1>5, <1>6, <3>2, <4>2
    <3>3. QED BY <3>1, <3>2
  <2>2. QED BY <1>1, <2>1 DEF RanFrames
<1>18. QED BY <1>7, <1>15, <1>16, <1>17 DEF Ran

(* A run, in each of its ways. *)
LEMMA TaskRuns ==
    ASSUME IInv, NEW t \in Threads, NEW frames, Flat(t, frames), NEW k \in Tasks,
           Base(t, frames, k.loop) = {}, Run(t, frames, k)
    PROVE  Ran(t, frames, k)
BY OutermostRuns, NestedRuns, TaskEnqueued DEF Run

-----------------------------------------------------------------------------
(* A thread that leaves frames, or puts one more on them, and no more.     *)
Leaves(t, frames) ==
    /\ stack' \in Stacks /\ NestsAndQueues' /\ Based'
    /\ stack'[t] = frames /\ \A u \in Threads : u # t => stack'[u] = stack[u]

Pushes(t, frames, f) ==
    /\ stack' \in Stacks /\ NestsAndQueues' /\ Based'
    /\ \A l \in Loops : PlaceAdded([stack EXCEPT ![t] = frames], stack', waiting', pending', t, frames, f, l)
    /\ \A u \in Threads : \A i \in DOMAIN stack'[u] :
          \/ stack'[u][i] = f
          \/ \E j \in DOMAIN [stack EXCEPT ![t] = frames][u] : stack'[u][i] = [stack EXCEPT ![t] = frames][u][j]

LEMMA SameQueues ==
    ASSUME IInv, NEW t \in Threads, queue' = queue,
           \A u \in Threads : u # t => stack'[u] = stack[u],
           \A f \in {Nested, Outermost} : Positions(stack'[t], {f}) = Positions(stack[t], {f}),
           BasedIn(t)'
    PROVE  NestsAndQueues' /\ Based'
<1>1. trampoline' = trampoline /\ next' = next /\ waiting' = waiting
  BY DEF queue
<1>2. NestedIn(t) /\ Linked(t)
  BY QueueParts DEF IInv
<1>3. NestedIn(t)' /\ Linked(t)'
  BY <1>1, <1>2 DEF NestedIn, Linked
<1>4. \A u \in Threads \ {t} : NestedIn(u)' /\ Linked(u)' /\ BasedIn(u)'
  BY <1>1, OthersQueues DEF IInv
<1>5. \A u \in Threads : NestedIn(u)' /\ Linked(u)' /\ BasedIn(u)'
  BY <1>3, <1>4
<1>6. QED BY <1>5, QueuePartsNext DEF Based, BasedIn

LEMMA FramesLeft ==
    ASSUME IInv, NEW t \in Threads, NEW frames, Flat(t, frames), queue' = queue, SetStack(t, frames)
    PROVE  Leaves(t, frames)
<1>1. /\ stack \in Stacks /\ stack' = [stack EXCEPT ![t] = frames] /\ frames \in Seq(FrameSet)
      /\ trampoline' = trampoline
  BY Typed DEF IInv, SetStack, Flat, queue
<1>2. stack' \in Stacks /\ stack'[t] = frames /\ \A u \in Threads : u # t => stack'[u] = stack[u]
  BY <1>1 DEF Stacks
<1>3. BasedIn(t)'
  BY <1>1, <1>2 DEF BasedIn, Flat
<1>4. NestsAndQueues' /\ Based'
  BY <1>2, <1>3, SameQueues DEF Flat
<1>5. QED BY <1>2, <1>4 DEF Leaves

LEMMA FramePushed ==
    ASSUME IInv, NEW t \in Threads, NEW frames, Flat(t, frames), queue' = queue,
           NEW f \in FrameSet, f # Outermost, f # Nested, trampoline[t] = None => f.at = "complete",
           SetStack(t, Append(frames, f))
    PROVE  Pushes(t, frames, f)
<1> DEFINE q == Append(frames, f)
           b == [stack EXCEPT ![t] = frames]
<1>1. /\ stack \in Stacks /\ stack' = [stack EXCEPT ![t] = q] /\ frames \in Seq(FrameSet)
      /\ trampoline' = trampoline /\ waiting' = waiting
  BY Typed DEF IInv, SetStack, Flat, queue
<1>2. /\ q \in Seq(FrameSet) /\ Len(q) = Len(frames) + 1 /\ q[Len(frames) + 1] = f
      /\ \A i \in 1 .. Len(frames) : q[i] = frames[i]
      /\ \A F : Positions(q, F) = Positions(frames, F) \cup (IF f \in F THEN {Len(frames) + 1} ELSE {})
      /\ DOMAIN frames = 1 .. Len(frames) /\ Len(frames) \in Nat
  BY <1>1, PositionsAppended, PositionsBounded
<1>3. /\ stack' \in Stacks /\ stack'[t] = Append(frames, f) /\ b[t] = frames
      /\ \A u \in Threads : u # t => stack'[u] = stack[u] /\ b[u] = stack[u]
  BY <1>1, <1>2 DEF Stacks
<1>4. \A l \in Loops : PlaceAdded(b, stack', waiting', pending', t, frames, f, l)
  <2> HIDE DEF b
  <2>1. \A u \in Threads : u # t => b[u] = stack'[u]
    BY <1>3
  <2>2. QED BY ZenonT(60), <1>1, <1>3, <2>1, PlacesPushed
<1> HIDE DEF q, b
<1>5. stack'[t] = q
  BY <1>3 DEF q
<1>6. ASSUME NEW u \in Threads, NEW i \in DOMAIN stack'[u]
      PROVE  stack'[u][i] = f \/ \E j \in DOMAIN b[u] : stack'[u][i] = b[u][j]
  <2>1. CASE u # t
    BY <1>3, <2>1
  <2>2. CASE u = t
    <3>1. DOMAIN q = 1 .. Len(frames) + 1
      BY <1>2, LenProperties
    <3>2. i \in 1 .. Len(frames) \/ i = Len(frames) + 1
      BY <1>2, <1>5, <2>2, <3>1
    <3>3. QED BY <1>2, <1>3, <1>5, <2>2, <3>2
  <2>3. QED BY <2>1, <2>2
<1>7. \A e \in {Nested, Outermost} : Positions(stack'[t], {e}) = Positions(stack[t], {e})
  <2> SUFFICES ASSUME NEW e \in {Nested, Outermost} PROVE Positions(q, {e}) = Positions(stack[t], {e})
    BY <1>5
  <2>1. f \notin {e}
    OBVIOUS
  <2>2. Positions(q, {e}) = Positions(frames, {e}) \cup {}
    BY <1>2, <2>1
  <2>3. QED BY <2>2 DEF Flat
<1>8. BasedIn(t)'
  <2> SUFFICES ASSUME trampoline[t] = None PROVE Len(q) = 1 /\ q[1].at = "complete"
    BY <1>1, <1>5 DEF BasedIn
  <2>1. frames = << >> /\ Len(frames) = 0
    BY EmptySeq DEF Flat
  <2>2. QED BY <1>2, <2>1
<1>9. NestsAndQueues' /\ Based'
  BY <1>3, <1>7, <1>8, SameQueues
<1>10. QED BY <1>3, <1>4, <1>6, <1>9 DEF Pushes, b

(* A frame of work taken off leaves the runs as they are. *)
LEMMA PoppedFlat ==
    ASSUME IInv, NEW t \in Threads, ~Idle(t), Top(t) # Outermost, Top(t) # Nested
    PROVE  Flat(t, Popped(t))
<1>1. /\ Popped(t) \in Seq(FrameSet) /\ Len(Popped(t)) = Len(stack[t]) - 1
      /\ \A F : Positions(Popped(t), F) = Positions(stack[t], F) \ {Len(stack[t])}
      /\ \A F : Len(stack[t]) \in Positions(stack[t], F) <=> Top(t) \in F
  BY Popping DEF IInv
<1>2. ASSUME NEW f \in {Nested, Outermost} PROVE Positions(Popped(t), {f}) = Positions(stack[t], {f})
  <2>1. Top(t) \notin {f}
    OBVIOUS
  <2>2. Positions(Popped(t), {f}) = Positions(stack[t], {f}) \ {Len(stack[t])}
    BY <1>1
  <2>3. Len(stack[t]) \notin Positions(stack[t], {f})
    BY <1>1, <2>1
  <2>4. QED BY <2>2, <2>3
<1>3. ASSUME trampoline[t] = None PROVE Popped(t) = << >>
  <2>1. Len(stack[t]) = 1
    BY <1>3 DEF IInv, Based, Idle
  <2>2. Len(Popped(t)) = 0
    BY <1>1, <2>1
  <2>3. QED BY <1>1, <2>2, EmptySeq
<1>4. QED BY <1>1, <1>2, <1>3 DEF Flat

(* Work that is not a completion is done inside a trampoline. *)
LEMMA InTrampoline ==
    ASSUME IInv, NEW t \in Threads, ~Idle(t), Top(t).at # "complete"
    PROVE  trampoline[t] # None
<1>1. ASSUME trampoline[t] = None PROVE FALSE
  <2>1. Len(stack[t]) = 1 /\ stack[t][1].at = "complete"
    BY <1>1 DEF IInv, Based, Idle
  <2>2. QED BY <2>1 DEF Top
<1>2. QED BY <1>1

-----------------------------------------------------------------------------
(* Thread t, with frames left, is about to have loop l complete, or go on: *)
(* the loop is nowhere, the others are where they should be, and the outer *)
(* one is where the end or the start of l finds it.                        *)
FitsBefore(f, l) ==
    Mentions(f, Outer) => f.at = "start" /\ l < f.next /\ \A i \in Inner \ {l} : i >= f.next <=> result[i] = "unstarted"

OuterReady(t, frames, l) ==
    /\ result[Outer] = "running"
    /\ \/ Alone(Base(t, frames, Outer))
       \/ Base(t, frames, Outer) = {} /\ \A m \in Inner \ {l} : result[m] # "unstarted"
    /\ \A u \in Threads :
          /\ \A i \in DOMAIN [stack EXCEPT ![t] = frames][u] : FitsBefore([stack EXCEPT ![t] = frames][u][i], l)
          /\ \A i \in DOMAIN waiting[u] : waiting[u][i].loop # Outer

Ready(t, frames, l) ==
    /\ Flat(t, frames)
    /\ Base(t, frames, l) = {}
    /\ \A m \in Inner \ {l} :
          IF result[m] = "running" THEN Alone(Base(t, frames, m)) ELSE Base(t, frames, m) = {}
    /\ IF l = Outer THEN ~SomeRuns ELSE OuterReady(t, frames, l)

(* Where no frame and no task is of a loop, the base has none. *)
LEMMA BaseWithout ==
    ASSUME TypeOK, NEW t \in Threads, NEW frames \in Seq(FrameSet), NEW l \in Loops, Base(t, frames, l) = {}
    PROVE  /\ \A u \in Threads : \A i \in DOMAIN [stack EXCEPT ![t] = frames][u] :
                 ~Mentions([stack EXCEPT ![t] = frames][u][i], l)
           /\ \A u \in Threads : \A i \in DOMAIN waiting[u] : waiting[u][i].loop # l
<1> DEFINE b == [stack EXCEPT ![t] = frames]
<1>1. b[t] = frames /\ \A u \in Threads : u # t => b[u] = stack[u]
  BY Typed DEF Stacks
<1> HIDE DEF b
<1>2. /\ \A u \in Threads : \A i \in DOMAIN waiting[u] : waiting[u][i].loop # l
      /\ \A u \in Threads \ {t} : \A i \in DOMAIN stack[u] : ~Mentions(stack[u][i], l)
      /\ \A i \in DOMAIN frames : ~Mentions(frames[i], l)
  BY WaitsNowhere
<1>3. \A u \in Threads : \A i \in DOMAIN b[u] : ~Mentions(b[u][i], l)
  BY <1>1, <1>2
<1>4. QED BY <1>2, <1>3 DEF b

(* The inner loops other than l, after a step about l. *)
LEMMA InnerKept ==
    ASSUME TypeOK, NEW t \in Threads, NEW frames, NEW l \in Loops, Ready(t, frames, l),
           NEW m \in Inner \ {l}, result'[m] = result[m], Places(m)' = Base(t, frames, m)
    PROVE  InnerPlaced(m)'
BY DEF Ready, InnerPlaced

LEMMA PlacesAreNext ==
    ASSUME TypeOK', NEW l \in Loops
    PROVE  Places(l)' = PlacesIn(stack', waiting', pending', l)
<1>1. stack' \in Stacks /\ waiting' \in Queues
  BY DEF TypeOK, Stacks, Queues
<1>2. Places(l)' = PlacesListed(stack', waiting', pending', l)
  BY DEF Places, PlacesListed
<1>3. QED BY <1>1, <1>2, ListedPlaces

(* A loop that ends leaves the loops in their places: the last inner one   *)
(* puts the outer loop back into one, its child's completion.              *)
LEMMA FinishPlaces ==
    ASSUME IInv, NEW t \in Threads, NEW frames, NEW l \in Loops, NEW tag \in Tags, Ready(t, frames, l),
           Finish(t, frames, l, tag), pending' = pending, kind' = kind, stop' \in BOOLEAN
    PROVE  TypeOK' /\ Placed' /\ NestsAndQueues' /\ Based'
<1> DEFINE b == [stack EXCEPT ![t] = frames]
           f == Completing(Outer, Joined(l, tag))
           last == l # Outer /\ Unfinished(l) = {}
<1>1. /\ TypeOK /\ result' = [result EXCEPT ![l] = tag] /\ queue' = queue /\ waiting' = waiting
      /\ SetStack(t, IF last THEN Append(frames, f) ELSE frames)
      /\ Flat(t, frames) /\ frames \in Seq(FrameSet) /\ stack \in Stacks
  BY Typed DEF Finish, IInv, queue, Ready, Flat
<1>2. f \in FrameSet /\ f # Outermost /\ f # Nested /\ f.at = "complete" /\ \A m \in Loops : Mentions(f, m) <=> m = Outer
  <2>1. Joined(l, tag) \in Tags /\ Outer \in Loops
    BY LoopNumbers DEF Joined, Tags
  <2>2. QED BY <2>1, FramesMade
<1> HIDE DEF f
<1>3. CASE last
  <2>1. Pushes(t, frames, f)
    BY <1>1, <1>2, <1>3, FramePushed
  <2>2. l \in Inner /\ \A m \in Inner \ {l} : result[m] # "unstarted" /\ result[m] # "running"
    BY <1>3, LoopNumbers DEF Unfinished
  <2>3. TypeOK'
    <3>1. queue' = queue => trampoline' = trampoline /\ next' = next /\ waiting' = waiting
      BY DEF queue
    <3>2. QED BY <1>1, <2>1, <3>1 DEF TypeOK, Pushes, Stacks
  <2>4. \A m \in Loops : PlaceAdded(b, stack', waiting, pending, t, frames, f, m)
    BY <1>1, <2>1 DEF Pushes
  <2>5. ASSUME NEW m \in Loops
        PROVE  IF m = Outer THEN Places(m)' = Base(t, frames, m) \cup {<<t, "stack", Len(frames) + 1>>}
                            ELSE Places(m)' = Base(t, frames, m)
    <3>1. Places(m)' = PlacesIn(stack', waiting, pending, m)
      BY <1>1, <2>3, PlacesAreNext
    <3>2. QED BY <1>2, <2>4, <3>1 DEF PlaceAdded, Base
  <2>6. OuterReady(t, frames, l) /\ Base(t, frames, l) = {} /\ l # Outer
    BY <1>3 DEF Ready
  <2>7. result'[l] = tag /\ \A m \in Loops : m # l => result'[m] = result[m]
    BY <1>1 DEF TypeOK
  <2>8. Base(t, frames, Outer) = {}
    <3>1. ASSUME Alone(Base(t, frames, Outer)) PROVE FALSE
      <4>1. PICK x : x \in PlacesIn(b, waiting, pending, Outer)
        BY <3>1 DEF Alone, Base
      <4>2. Outer \in Loops /\ Outer \notin pending
        BY <1>1, LoopNumbers DEF TypeOK
      <4>3. /\ \A u \in Threads : b[u] \in Seq(FrameSet) /\ waiting[u] \in Seq(Tasks)
        BY <1>1, Typed DEF Stacks
      <4>4. \A u \in Threads : Positions(waiting[u], TasksOf(Outer)) = {}
        <5>1. ASSUME NEW u \in Threads, NEW i \in Positions(waiting[u], TasksOf(Outer)) PROVE FALSE
          <6>1. i \in DOMAIN waiting[u] /\ waiting[u][i].loop # Outer /\ waiting[u][i] \in TasksOf(Outer)
            BY <2>6 DEF OuterReady, Positions
          <6>2. waiting[u][i] \in Tasks
            BY <1>1, <6>1, Typed
          <6>3. QED BY <4>2, <6>1, <6>2, TasksMade
        <5>2. QED BY <5>1
      <4>5. \E u \in Threads : \E i \in Positions(b[u], FramesOf(Outer)) : TRUE
        BY <4>1, <4>2, <4>4, PlacesElements
      <4>6. PICK u \in Threads : \E i \in Positions(b[u], FramesOf(Outer)) : TRUE
        BY <4>5
      <4> PICK i \in Positions(b[u], FramesOf(Outer)) : TRUE
        BY <4>6
      <4>7. i \in DOMAIN b[u] /\ b[u][i] \in FrameSet /\ Mentions(b[u][i], Outer)
        BY DEF Positions, FramesOf
      <4>8. b[u][i].at = "start" /\ l < b[u][i].next /\ \A j \in Inner \ {l} : j >= b[u][i].next <=> result[j] = "unstarted"
        BY <2>6, <4>7 DEF OuterReady, FitsBefore
      <4>9. b[u][i].next \in Inner
        BY <4>7, <4>8, FrameKinds
      <4>10. b[u][i].next # l /\ b[u][i].next >= b[u][i].next
        <5>1. \A n \in Inner : l < n => n # l /\ n >= n
          BY <2>2, LoopNumbers
        <5>2. QED BY <4>8, <4>9, <5>1
      <4>11. QED BY <2>2, <4>8, <4>9, <4>10
    <3>2. QED BY <2>6, <3>1 DEF OuterReady
  <2>9. \A m \in Inner : InnerPlaced(m)'
    <3>1. ASSUME NEW m \in Inner \ {l} PROVE InnerPlaced(m)'
      BY <1>1, <2>5, <2>7, LoopNumbers, InnerKept
    <3>2. InnerPlaced(l)'
      BY <2>2, <2>5, <2>6, <2>7 DEF InnerPlaced, Tags
    <3>3. QED BY <3>1, <3>2
  <2>10. \A m \in Inner : result'[m] # "unstarted" /\ result'[m] # "running"
    BY <2>2, <2>7, LoopNumbers DEF Tags
  <2>11. OuterPlaced'
    <3>1. result'[Outer] = "running"
      BY <2>6, <2>7, LoopNumbers DEF OuterReady
    <3>2. Places(Outer)' = {<<t, "stack", Len(frames) + 1>>}
      BY <2>5, <2>8, LoopNumbers
    <3>3. Alone(Places(Outer))'
      BY <3>2 DEF Alone
    <3>4. QED BY <3>1, <3>3 DEF OuterPlaced
  <2>12. Staged'
    <3>1. ASSUME NEW u \in Threads, NEW i \in DOMAIN stack'[u] PROVE Fits(stack'[u][i], result')
      <4>1. CASE stack'[u][i] = f
        BY <1>2, <2>10, <4>1 DEF Fits
      <4>2. CASE \E j \in DOMAIN b[u] : stack'[u][i] = b[u][j]
        <5>1. ~Mentions(stack'[u][i], Outer)
          BY <1>1, <2>8, <4>2, BaseWithout, LoopNumbers
        <5>2. QED BY <5>1 DEF Fits
      <4>3. QED BY <2>1, <4>1, <4>2 DEF Pushes
    <3>2. \A u \in Threads : \A i \in DOMAIN waiting'[u] : waiting'[u][i].loop # Outer
      BY <1>1, <2>6 DEF OuterReady
    <3>3. QED BY <3>1, <3>2 DEF Staged
  <2>13. QED BY <2>1, <2>3, <2>9, <2>11, <2>12 DEF Placed, Pushes
<1>4. CASE ~last
  <2>1. Leaves(t, frames)
    BY <1>1, <1>4, FramesLeft
  <2>2. stack' = b
    BY <1>1, <1>4 DEF SetStack
  <2>3. TypeOK'
    <3>1. queue' = queue => trampoline' = trampoline /\ next' = next /\ waiting' = waiting
      BY DEF queue
    <3>2. QED BY <1>1, <2>1, <3>1 DEF TypeOK, Leaves, Stacks
  <2>4. \A m \in Loops : Places(m)' = Base(t, frames, m)
    BY <1>1, <2>2, <2>3, PlacesAreNext DEF Base
  <2>5. result'[l] = tag /\ \A m \in Loops : m # l => result'[m] = result[m]
    BY <1>1 DEF TypeOK
  <2>6. Base(t, frames, l) = {} /\ result'[l] # "running" /\ result'[l] # "unstarted"
    BY <2>5 DEF Ready, Tags
  <2>7. \A m \in Inner : InnerPlaced(m)'
    <3>1. ASSUME NEW m \in Inner \ {l} PROVE InnerPlaced(m)'
      BY <1>1, <2>4, <2>5, LoopNumbers, InnerKept
    <3>2. InnerPlaced(l)'
      BY <2>4, <2>6 DEF InnerPlaced
    <3>3. QED BY <3>1, <3>2
  <2>8. CASE l = Outer
    <3>1. ~SomeRuns'
      BY <2>5, <2>8, LoopNumbers DEF Ready, SomeRuns
    <3>2. Places(Outer)' = {} /\ result'[Outer] # "running" /\ result'[Outer] # "unstarted"
      BY <2>4, <2>6, <2>8
    <3>3. OuterPlaced'
      BY <3>1, <3>2 DEF OuterPlaced
    <3>4. Staged'
      BY <1>1, <2>2, <2>6, <2>8, BaseWithout DEF Staged, Fits
    <3>5. QED BY <2>1, <2>3, <2>7, <3>3, <3>4 DEF Placed, Leaves
  <2>9. CASE l # Outer
    <3>1. l \in Inner /\ OuterReady(t, frames, l) /\ result'[Outer] = "running"
      BY <2>5, <2>9, LoopNumbers DEF Ready, OuterReady
    <3>2. PICK m \in Inner \ {l} : result[m] \in {"unstarted", "running"}
      BY <1>4, <2>9 DEF Unfinished
    <3>3. OuterPlaced'
      <4>1. CASE Alone(Base(t, frames, Outer))
        <5>1. Alone(Places(Outer)')
          BY <2>4, <4>1, LoopNumbers
        <5>2. QED BY <3>1, <5>1 DEF OuterPlaced, Alone
      <4>2. CASE Base(t, frames, Outer) = {} /\ \A i \in Inner \ {l} : result[i] # "unstarted"
        <5>1. Places(Outer)' = {}
          BY <2>4, <4>2, LoopNumbers
        <5>2. result'[m] = "running"
          BY <2>5, <3>2, <4>2, LoopNumbers
        <5>3. NoneUnstarted' /\ SomeRuns'
          BY <2>5, <2>6, <4>2, <5>2, LoopNumbers DEF NoneUnstarted, SomeRuns
        <5>4. QED BY <3>1, <5>1, <5>3 DEF OuterPlaced
      <4>3. QED BY <3>1, <4>1, <4>2 DEF OuterReady
    <3>4. Staged'
      <4>1. ASSUME NEW u \in Threads, NEW i \in DOMAIN stack'[u], Mentions(stack'[u][i], Outer) PROVE Fits(stack'[u][i], result')
        <5> DEFINE g == stack'[u][i]
        <5>1. g.at = "start" /\ l < g.next /\ \A j \in Inner \ {l} : j >= g.next <=> result[j] = "unstarted"
          BY <2>2, <3>1, <4>1 DEF OuterReady, FitsBefore
        <5>2. g \in FrameSet
          BY <2>1, <4>1, PositionsBounded DEF Leaves, Stacks
        <5>3. g.next \in Inner
          BY <5>1, <5>2, FrameKinds
        <5>4. ~(l >= g.next)
          <6>1. \A n \in Inner : l < n => ~(l >= n)
            BY <3>1, LoopNumbers
          <6>2. QED BY <5>1, <5>3, <6>1
        <5>5. \A j \in Inner : j >= g.next <=> result'[j] = "unstarted"
          BY <2>5, <2>6, <5>1, <5>4, LoopNumbers
        <5>6. QED BY <5>1, <5>5 DEF Fits
      <4>2. \A u \in Threads : \A i \in DOMAIN waiting'[u] : waiting'[u][i].loop # Outer
        BY <1>1, <3>1 DEF OuterReady
      <4>3. ASSUME NEW u \in Threads, NEW i \in DOMAIN stack'[u] PROVE Fits(stack'[u][i], result')
        BY <4>1 DEF Fits
      <4>4. QED BY <4>2, <4>3 DEF Staged
    <3>5. QED BY <2>1, <2>3, <2>7, <3>3, <3>4 DEF Placed, Leaves
  <2>10. QED BY <2>8, <2>9
<1>5. QED BY <1>3, <1>4

(* A loop that goes on, or starts, is in one place. *)
LEMMA IterationPlaces ==
    ASSUME IInv, NEW t \in Threads, NEW frames, NEW l \in Loops, Ready(t, frames, l),
           Ran(t, frames, Iteration(l)), pending' = pending, kind' = kind, stop' \in BOOLEAN,
           result' \in [Loops -> Tags \cup {"unstarted", "running"}], result'[l] = "running",
           IF l = Outer THEN \A m \in Inner : result'[m] = "unstarted"
                        ELSE \A m \in Loops \ {l} : result'[m] = result[m]
    PROVE  TypeOK' /\ Placed' /\ NestsAndQueues' /\ Based'
<1> DEFINE b == [stack EXCEPT ![t] = frames]
           k == Iteration(l)
<1>1. /\ TypeOK /\ frames \in Seq(FrameSet) /\ k \in Tasks /\ k.loop = l /\ Base(t, frames, l) = {}
  BY TasksMade DEF IInv, Ready, Flat
<1>2. TypeOK'
  BY <1>1 DEF TypeOK, Ran, RanTypes, Stacks, Queues
<1>3. \A m \in Loops : IF m = l THEN Alone(Places(m)') ELSE Places(m)' = Base(t, frames, m)
  <2> SUFFICES ASSUME NEW m \in Loops PROVE IF m = l THEN Alone(Places(m)') ELSE Places(m)' = Base(t, frames, m)
    OBVIOUS
  <2>1. Places(m)' = PlacesIn(stack', waiting', pending', m) /\ pending' = pending
    BY <1>2, PlacesAreNext
  <2>2. IF k.loop = m THEN Alone(PlacesIn(stack', waiting', pending, m))
                      ELSE PlacesIn(stack', waiting', pending, m) = Base(t, frames, m)
    BY DEF Ran, RanPlaces
  <2>3. QED BY <1>1, <2>1, <2>2
<1>4. ASSUME NEW u \in Threads
      PROVE  /\ \A i \in DOMAIN stack'[u] : Mentions(stack'[u][i], Outer) =>
                  stack'[u][i] = Execute(k) \/ \E j \in DOMAIN b[u] : stack'[u][i] = b[u][j]
             /\ \A i \in DOMAIN waiting'[u] :
                  waiting'[u][i] = k \/ \E j \in DOMAIN waiting[u] : waiting'[u][i] = waiting[u][j]
             /\ \A i \in DOMAIN stack'[u] : stack'[u][i] \in FrameSet
  <2>1. stack'[u] \in Seq(FrameSet)
    BY DEF Ran, RanTypes, Stacks
  <2>2. QED BY <2>1, PositionsBounded DEF Ran, RanFrames
<1>5. Execute(k).at = "execute" /\ Execute(k).task = k /\ \A m \in Loops : Mentions(Execute(k), m) <=> m = l
  BY <1>1, FramesMade
<1> HIDE DEF b
<1>6. CASE l = Outer
  <2>1. \A m \in Inner : Places(m)' = {} /\ result'[m] = "unstarted"
    <3>1. \A m \in Inner : Base(t, frames, m) = {} /\ m # l
      BY <1>6, LoopNumbers DEF Ready, SomeRuns
    <3>2. QED BY <1>3, <1>6, <3>1, LoopNumbers
  <2>2. \A m \in Inner : InnerPlaced(m)'
    BY <2>1 DEF InnerPlaced
  <2>3. OuterPlaced'
    <3>1. Alone(Places(Outer)') /\ result'[Outer] = "running"
      BY <1>3, <1>6
    <3>2. QED BY <3>1 DEF OuterPlaced, Alone
  <2>4. ASSUME NEW u \in Threads, NEW i \in DOMAIN stack'[u] PROVE Fits(stack'[u][i], result')
    <3> SUFFICES ASSUME Mentions(stack'[u][i], Outer) PROVE Fits(stack'[u][i], result')
      BY DEF Fits
    <3>1. stack'[u][i] = Execute(k)
      BY <1>1, <1>4, <1>6, BaseWithout DEF b
    <3>2. QED BY <1>5, <1>6, <2>1, <3>1 DEF Fits
  <2>5. ASSUME NEW u \in Threads, NEW i \in DOMAIN waiting'[u], waiting'[u][i].loop = Outer
        PROVE  waiting'[u][i] = Iteration(Outer) /\ AllUnstarted'
    <3>1. waiting'[u][i] = k
      BY <1>1, <1>4, <1>6, <2>5, BaseWithout
    <3>2. QED BY <1>6, <2>1, <3>1 DEF AllUnstarted
  <2>6. Staged'
    BY <2>4, <2>5 DEF Staged
  <2>7. QED BY <1>2, <2>2, <2>3, <2>6 DEF Placed, Ran
<1>7. CASE l # Outer
  <2>1. l \in Inner /\ OuterReady(t, frames, l) /\ \A m \in Loops \ {l} : result'[m] = result[m]
    BY <1>7, LoopNumbers DEF Ready
  <2>2. \A m \in Inner : InnerPlaced(m)'
    <3>1. ASSUME NEW m \in Inner \ {l} PROVE InnerPlaced(m)'
      BY <1>1, <1>3, <2>1, LoopNumbers, InnerKept
    <3>2. InnerPlaced(l)'
      BY <1>3 DEF InnerPlaced, Alone
    <3>3. QED BY <3>1, <3>2
  <2>3. OuterPlaced'
    <3>1. result'[Outer] = "running" /\ Places(Outer)' = Base(t, frames, Outer)
      BY <1>3, <1>7, <2>1, LoopNumbers DEF OuterReady
    <3>2. (\A m \in Inner \ {l} : result[m] # "unstarted") => NoneUnstarted'
      BY <2>1, LoopNumbers DEF NoneUnstarted
    <3>3. SomeRuns'
      BY <2>1 DEF SomeRuns
    <3>4. QED BY <2>1, <3>1, <3>2, <3>3 DEF OuterPlaced, OuterReady, Alone
  <2>4. ASSUME NEW u \in Threads, NEW i \in DOMAIN stack'[u] PROVE Fits(stack'[u][i], result')
    <3> SUFFICES ASSUME Mentions(stack'[u][i], Outer) PROVE Fits(stack'[u][i], result')
      BY DEF Fits
    <3> DEFINE g == stack'[u][i]
    <3>1. \E j \in DOMAIN b[u] : g = b[u][j]
      BY <1>4, <1>5, <1>7, LoopNumbers
    <3>2. g.at = "start" /\ l < g.next /\ \A j \in Inner \ {l} : j >= g.next <=> result[j] = "unstarted"
      BY <2>1, <3>1 DEF OuterReady, FitsBefore, b
    <3>3. g.next \in Inner
      BY <1>4, <3>2, FrameKinds
    <3>4. ~(l >= g.next)
      <4>1. \A n \in Inner : l < n => ~(l >= n)
        BY <2>1, LoopNumbers
      <4>2. QED BY <3>2, <3>3, <4>1
    <3>5. \A j \in Inner : j >= g.next <=> result'[j] = "unstarted"
      BY <2>1, <3>2, <3>4, LoopNumbers
    <3>6. QED BY <3>2, <3>5 DEF Fits
  <2>5. ASSUME NEW u \in Threads, NEW i \in DOMAIN waiting'[u] PROVE waiting'[u][i].loop # Outer
    BY <1>1, <1>4, <1>7, <2>1 DEF OuterReady
  <2>6. Staged'
    BY <2>4, <2>5 DEF Staged
  <2>7. QED BY <1>2, <2>2, <2>3, <2>6 DEF Placed, Ran
<1>8. QED BY <1>6, <1>7

(* A step that moves loops about, and changes no result. *)
LEMMA PlacedKept ==
    ASSUME TypeOK, Placed, result' = result, Staged',
           \A l \in Loops : /\ Places(l) = {} => Places(l)' = {}
                            /\ Alone(Places(l)) => Alone(Places(l)')
    PROVE  Placed'
<1>1. \A l \in Inner : InnerPlaced(l)'
  BY LoopNumbers DEF Placed, InnerPlaced, Alone
<1>2. OuterPlaced'
  <2>1. AllUnstarted' = AllUnstarted /\ NoneUnstarted' = NoneUnstarted /\ SomeRuns' = SomeRuns
    BY DEF AllUnstarted, NoneUnstarted, SomeRuns
  <2>2. Alone(Places(Outer))' <=> Alone(Places(Outer)')
    BY DEF Alone
  <2>3. QED BY <2>1, <2>2, LoopNumbers DEF Placed, OuterPlaced
<1>3. QED BY <1>1, <1>2 DEF Placed

(* What is left of a stack whose innermost frame was about loop l, and the *)
(* loops' places then.                                                     *)
LEMMA PoppedPlaces ==
    ASSUME IInv, NEW t \in Threads, ~Idle(t), NEW l \in Loops, Mentions(Top(t), l)
    PROVE  /\ Alone(Places(l)) /\ Base(t, Popped(t), l) = {} /\ result[l] = "running"
           /\ \A m \in Loops \ {l} : Base(t, Popped(t), m) = Places(m)
<1> DEFINE place == <<t, "stack", Len(stack[t])>>
<1>1. /\ TypeOK /\ Placed /\ Top(t) \in FrameSet
      /\ \A m \in Loops : /\ Base(t, Popped(t), m) = Places(m) \ {place}
                          /\ place \in Places(m) <=> Mentions(Top(t), m)
  BY Popping DEF IInv
<1> HIDE DEF place
<1>2. place \in Places(l) /\ Base(t, Popped(t), l) = Places(l) \ {place}
  BY <1>1
<1>3. Alone(Places(l))
  BY <1>1, <1>2, NowhereOrAlone
<1>4. Base(t, Popped(t), l) = {}
  BY <1>2, <1>3 DEF Alone
<1>5. ASSUME NEW m \in Loops \ {l} PROVE Base(t, Popped(t), m) = Places(m)
  <2>1. ~Mentions(Top(t), m)
    BY <1>1, MentionsOne
  <2>2. place \notin Places(m) /\ Base(t, Popped(t), m) = Places(m) \ {place}
    BY <1>1, <2>1
  <2>3. QED BY <2>2
<1>6. result[l] = "running"
  BY <1>1, <1>2, LoopNumbers DEF Placed, InnerPlaced, OuterPlaced
<1>7. QED BY <1>3, <1>4, <1>5, <1>6

LEMMA PoppedFrames ==
    ASSUME TypeOK, NEW t \in Threads, ~Idle(t), NEW u \in Threads,
           NEW i \in DOMAIN [stack EXCEPT ![t] = Popped(t)][u]
    PROVE  \E j \in DOMAIN stack[u] : [stack EXCEPT ![t] = Popped(t)][u][i] = stack[u][j]
<1>1. CASE u # t
  BY <1>1, Typed DEF Stacks
<1>2. CASE u = t
  <2>1. /\ Popped(t) \in Seq(FrameSet) /\ Len(Popped(t)) = Len(stack[t]) - 1
        /\ \A j \in 1 .. Len(stack[t]) - 1 : Popped(t)[j] = stack[t][j]
    BY Popping
  <2>2. /\ [stack EXCEPT ![t] = Popped(t)][u] = Popped(t) /\ DOMAIN Popped(t) = 1 .. Len(stack[t]) - 1
        /\ DOMAIN stack[t] = 1 .. Len(stack[t]) /\ Len(stack[t]) \in Nat
    BY <1>2, <2>1, Typed, LenProperties DEF Stacks
  <2>3. QED BY <1>2, <2>1, <2>2
<1>3. QED BY <1>1, <1>2

(* The thread whose innermost frame is loop l's next step is ready for it. *)
LEMMA ReadyPopped ==
    ASSUME IInv, NEW t \in Threads, ~Idle(t), NEW l \in Loops, Mentions(Top(t), l),
           Top(t).at \in {"execute", "complete"}
    PROVE  Ready(t, Popped(t), l) /\ result[l] = "running"
<1> DEFINE b == [stack EXCEPT ![t] = Popped(t)]
<1>1. TypeOK /\ Placed /\ Top(t) \in FrameSet /\ Len(stack[t]) \in DOMAIN stack[t]
  BY Popping DEF IInv
<1>2. Alone(Places(l)) /\ Base(t, Popped(t), l) = {}
  BY PoppedPlaces
<1>3. \A m \in Loops \ {l} : Base(t, Popped(t), m) = Places(m)
  BY PoppedPlaces
<1>4. Flat(t, Popped(t))
  BY <1>1, PoppedFlat, FramesMade
<1>5. result[l] = "running"
  BY PoppedPlaces
<1>6. \A m \in Inner \ {l} :
         IF result[m] = "running" THEN Alone(Base(t, Popped(t), m)) ELSE Base(t, Popped(t), m) = {}
  BY <1>1, <1>3, LoopNumbers DEF Placed, InnerPlaced
<1>7. CASE l = Outer
  <2>1. Fits(Top(t), result)
    BY <1>1 DEF Placed, Staged, Top
  <2>2. ~SomeRuns
    BY <1>7, <2>1 DEF Fits, SomeRuns
  <2>3. QED BY <1>2, <1>4, <1>5, <1>6, <1>7, <2>2 DEF Ready
<1>8. CASE l # Outer
  <2>1. l \in Inner /\ SomeRuns
    BY <1>5, <1>8, LoopNumbers DEF SomeRuns
  <2>2. /\ result[Outer] = "running"
        /\ Alone(Base(t, Popped(t), Outer)) \/ (Base(t, Popped(t), Outer) = {} /\ NoneUnstarted)
    BY <1>1, <1>3, <1>8, <2>1, LoopNumbers DEF Placed, OuterPlaced
  <2>3. ASSUME NEW u \in Threads, NEW i \in DOMAIN b[u] PROVE FitsBefore(b[u][i], l)
    <3> SUFFICES ASSUME Mentions(b[u][i], Outer) PROVE FitsBefore(b[u][i], l)
      BY DEF FitsBefore
    <3>1. \E j \in DOMAIN stack[u] : b[u][i] = stack[u][j]
      BY <1>1, PoppedFrames
    <3>2. PICK j \in DOMAIN stack[u] : b[u][i] = stack[u][j]
      BY <3>1
    <3> DEFINE g == stack[u][j]
    <3>3. Fits(g, result) /\ g \in FrameSet /\ Mentions(g, Outer)
      BY <1>1, <3>2, Typed DEF Placed, Staged
    <3>4. g.at = "start"
      <4>1. g.at \in {"execute", "start", "complete"}
        BY <3>3 DEF Mentions
      <4>2. QED BY <1>5, <2>1, <3>3, <4>1 DEF Fits
    <3>5. g.next \in Inner
      BY <3>3, <3>4, FrameKinds
    <3>6. \A n \in Inner : ~(l >= n) => l < n
      BY <2>1, LoopNumbers
    <3>7. QED BY <1>5, <2>1, <3>2, <3>3, <3>4, <3>5, <3>6 DEF Fits, FitsBefore
  <2>4. ASSUME NEW u \in Threads, NEW i \in DOMAIN waiting[u] PROVE waiting[u][i].loop # Outer
    BY <1>1, <1>5, <2>1 DEF Placed, Staged, AllUnstarted
  <2>5. OuterReady(t, Popped(t), l)
    BY <2>2, <2>3, <2>4 DEF OuterReady, NoneUnstarted
  <2>6. QED BY <1>2, <1>4, <1>5, <1>6, <1>8, <2>5 DEF Ready
<1>9. QED BY <1>7, <1>8

(* A frame that gives way to another one about the same loop.              *)
LEMMA FrameReplaced ==
    ASSUME IInv, NEW t \in Threads, ~Idle(t), NEW l \in Loops, Mentions(Top(t), l),
           NEW f \in FrameSet, Mentions(f, l), Fits(f, result), trampoline[t] # None,
           SetStack(t, Append(Popped(t), f)), queue' = queue,
           pending' = pending, kind' = kind, stop' = stop, result' = result
    PROVE  IInv'
<1> DEFINE b == [stack EXCEPT ![t] = Popped(t)]
<1>1. /\ TypeOK /\ Placed /\ Top(t) \in FrameSet /\ Popped(t) \in Seq(FrameSet)
      /\ waiting' = waiting /\ trampoline' = trampoline /\ next' = next
  BY Popping DEF IInv, queue
<1>2. Top(t) # Outermost /\ Top(t) # Nested /\ f # Outermost /\ f # Nested
  BY FramesMade
<1>3. Pushes(t, Popped(t), f)
  BY <1>2, PoppedFlat, FramePushed
<1>4. TypeOK'
  BY <1>1, <1>3 DEF TypeOK, Pushes, Stacks
<1>5. Alone(Places(l)) /\ Base(t, Popped(t), l) = {} /\ \A m \in Loops \ {l} : Base(t, Popped(t), m) = Places(m)
  BY PoppedPlaces
<1>6. ASSUME NEW m \in Loops PROVE IF m = l THEN Alone(Places(m)') ELSE Places(m)' = Places(m)
  <2>1. Places(m)' = PlacesIn(stack', waiting', pending', m)
    BY <1>4, PlacesAreNext
  <2>2. PlaceAdded(b, stack', waiting, pending, t, Popped(t), f, m)
    BY <1>1, <1>3 DEF Pushes
  <2>3. Mentions(f, m) <=> m = l
    BY MentionsOne
  <2>4. CASE m = l
    <3>1. Places(m)' = {<<t, "stack", Len(Popped(t)) + 1>>}
      BY <1>1, <1>5, <2>1, <2>2, <2>3, <2>4 DEF PlaceAdded, Base
    <3>2. QED BY <2>4, <3>1 DEF Alone
  <2>5. CASE m # l
    BY <1>1, <1>5, <2>1, <2>2, <2>3, <2>5 DEF PlaceAdded, Base
  <2>6. QED BY <2>4, <2>5
<1>7. Staged'
  <2>1. ASSUME NEW u \in Threads, NEW i \in DOMAIN stack'[u] PROVE Fits(stack'[u][i], result)
    <3>1. CASE stack'[u][i] = f
      BY <3>1
    <3>2. CASE \E j \in DOMAIN b[u] : stack'[u][i] = b[u][j]
      <4>1. \E j \in DOMAIN stack[u] : stack'[u][i] = stack[u][j]
        BY <1>1, <3>2, PoppedFrames
      <4>2. QED BY <1>1, <4>1 DEF Placed, Staged
    <3>3. QED BY <1>3, <3>1, <3>2 DEF Pushes
  <2>2. QED BY <1>1, <2>1 DEF Staged, Placed, AllUnstarted
<1>8. Placed'
  <2>1. \A m \in Loops : /\ Places(m) = {} => Places(m)' = {}
                         /\ Alone(Places(m)) => Alone(Places(m)')
    BY <1>5, <1>6 DEF Alone
  <2>2. QED BY <1>1, <1>7, <2>1, PlacedKept
<1>9. QED BY <1>3, <1>4, <1>8 DEF IInv, Pushes

(* A loop that is ready starts, or ends at once. *)
LEMMA LoopStarted ==
    ASSUME IInv, NEW t \in Threads, NEW frames, NEW l \in Loops, Ready(t, frames, l),
           StartLoop(t, frames, l), l = Outer => AllUnstarted,
           pending' = pending, kind' = kind, stop' = stop
    PROVE  IInv'
<1>1. TypeOK /\ stop' \in BOOLEAN
  BY DEF IInv, TypeOK
<1>2. CASE Finish(t, frames, l, "value")
  BY <1>1, <1>2, FinishPlaces DEF IInv, Tags
<1>3. CASE result' = [result EXCEPT ![l] = "running"] /\ Run(t, frames, Iteration(l))
  <2>1. Iteration(l) \in Tasks /\ Iteration(l).loop = l
    BY TasksMade
  <2>2. Ran(t, frames, Iteration(l))
    BY <1>3, <2>1, TaskRuns DEF Ready
  <2>3. /\ result' \in [Loops -> Tags \cup {"unstarted", "running"}] /\ result'[l] = "running"
        /\ \A m \in Loops \ {l} : result'[m] = result[m]
    BY <1>1, <1>3 DEF TypeOK
  <2>4. l = Outer => \A m \in Inner : result'[m] = "unstarted"
    BY <2>3, LoopNumbers DEF AllUnstarted
  <2>5. QED BY <1>1, <2>2, <2>3, <2>4, IterationPlaces DEF IInv
<1>4. QED BY <1>2, <1>3 DEF StartLoop

LEMMA StartKeeps ==
    ASSUME IInv, NEW t \in Threads, Start(t)
    PROVE  IInv'
<1>1. /\ TypeOK /\ Placed /\ stack[t] = << >> /\ result[Outer] = "unstarted" /\ stack \in Stacks
      /\ StartLoop(t, << >>, Outer) /\ pending' = pending /\ kind' = kind /\ stop' = stop
  BY Typed DEF Start, Idle, IInv
<1>2. [stack EXCEPT ![t] = << >>] = stack
  BY <1>1 DEF Stacks
<1>3. \A m \in Loops : Base(t, << >>, m) = Places(m)
  BY <1>1, <1>2, PlacesAre DEF Base
<1>4. AllUnstarted /\ ~SomeRuns /\ Places(Outer) = {}
  BY <1>1 DEF Placed, OuterPlaced
<1>5. Flat(t, << >>)
  BY <1>1, Typed DEF Flat
<1>6. Ready(t, << >>, Outer)
  BY <1>1, <1>3, <1>4, <1>5, LoopNumbers DEF Ready, Placed, InnerPlaced
<1>7. QED BY <1>1, <1>4, <1>6, LoopStarted, LoopNumbers

LEMMA IterateKeeps ==
    ASSUME IInv, NEW t \in Threads, Iterate(t)
    PROVE  IInv'
<1> DEFINE l == Top(t).task.loop
<1>1. /\ ~Idle(t) /\ Top(t).at = "execute" /\ Top(t).task.what = "iteration"
      /\ pending' = pending /\ kind' = kind /\ stop' = stop
  BY DEF Iterate, Runs
<1>2. /\ Top(t) \in FrameSet /\ Top(t).task \in Tasks /\ l \in Loops /\ Mentions(Top(t), l)
      /\ trampoline[t] # None /\ TypeOK /\ Placed /\ Fits(Top(t), result) /\ stop' \in BOOLEAN
  <2>1. Top(t) \in FrameSet /\ Len(stack[t]) \in DOMAIN stack[t] /\ TypeOK /\ Placed
    BY <1>1, Popping DEF IInv
  <2>2. Fits(Top(t), result)
    BY <2>1 DEF Placed, Staged, Top
  <2>3. QED BY <1>1, <2>1, <2>2, FrameKinds, TasksMade, InTrampoline DEF Mentions, TypeOK
<1> HIDE DEF l
<1>3. CASE Finish(t, Popped(t), l, "stopped")
  BY <1>1, <1>2, <1>3, ReadyPopped, FinishPlaces DEF IInv, Tags
<1>4. CASE /\ SetStack(t, Append(Popped(t), Starting(l, 2)))
           /\ UNCHANGED <<result, queue>>
  <2>1. /\ Starting(l, 2) \in FrameSet /\ Mentions(Starting(l, 2), l)
        /\ Starting(l, 2).at = "start" /\ Starting(l, 2).next = 2
    BY <1>2, FramesMade, LoopNumbers
  <2>2. Fits(Starting(l, 2), result)
    <3> SUFFICES ASSUME Mentions(Starting(l, 2), Outer)
                 PROVE  \A i \in Inner : i >= 2 <=> result[i] = "unstarted"
      BY <2>1 DEF Fits
    <3>1. l = Outer
      BY <1>2, <2>1, MentionsOne, LoopNumbers
    <3>2. \A i \in Inner : result[i] = "unstarted"
      BY <1>1, <1>2, <3>1 DEF Fits
    <3>3. \A i \in Inner : i >= 2
      BY DEF Inner, Loops, Outer
    <3>4. QED BY <3>2, <3>3
  <2>3. QED BY <1>1, <1>2, <1>4, <2>1, <2>2, FrameReplaced
<1>5. QED BY <1>3, <1>4 DEF Iterate, l

LEMMA ScheduleRunsKeeps ==
    ASSUME IInv, NEW t \in Threads, ScheduleRuns(t)
    PROVE  IInv'
<1> DEFINE l == Top(t).task.loop
           tag == IF stop THEN "stopped" ELSE "value"
           f == Completing(l, tag)
<1>1. /\ ~Idle(t) /\ Top(t).at = "execute" /\ Top(t).task.what = "child"
      /\ pending' = pending /\ kind' = kind /\ stop' = stop /\ result' = result /\ queue' = queue
      /\ SetStack(t, Append(Popped(t), f))
  BY DEF ScheduleRuns, Runs, loops
<1>2. /\ Top(t) \in FrameSet /\ Top(t).task \in Tasks /\ l \in Loops /\ Mentions(Top(t), l)
      /\ trampoline[t] # None /\ Fits(Top(t), result)
  <2>1. Top(t) \in FrameSet /\ Len(stack[t]) \in DOMAIN stack[t] /\ Placed
    BY <1>1, Popping DEF IInv
  <2>2. Fits(Top(t), result)
    BY <2>1 DEF Placed, Staged, Top
  <2>3. QED BY <1>1, <2>1, <2>2, FrameKinds, TasksMade, InTrampoline DEF Mentions
<1>3. tag \in Tags
  BY DEF Tags
<1> HIDE DEF l, tag
<1>4. f \in FrameSet /\ \A m \in Loops : Mentions(f, m) <=> l = m
  BY <1>2, <1>3, FramesMade
<1>5. l # Outer
  <2>1. Iteration(Outer).what = "iteration"
    BY DEF Iteration
  <2>2. QED BY <1>1, <1>2, <2>1 DEF Fits
<1>6. Fits(f, result)
  BY <1>4, <1>5, LoopNumbers DEF Fits
<1> HIDE DEF f
<1>7. QED BY <1>1, <1>2, <1>4, <1>6, FrameReplaced

(* The frame of the outer child's start(), and the inner loop it is at.    *)
LEMMA AtInner ==
    ASSUME IInv, NEW t \in Threads, ~Idle(t), Top(t).at = "start"
    PROVE  /\ Top(t) \in FrameSet /\ Top(t).loop \in Loops /\ Top(t).next \in Inner /\ Mentions(Top(t), Top(t).loop)
           /\ trampoline[t] # None /\ TypeOK /\ Placed /\ Popped(t) \in Seq(FrameSet) /\ Flat(t, Popped(t))
           /\ Top(t).loop = Outer => \A i \in Inner : i >= Top(t).next <=> result[i] = "unstarted"
<1>1. /\ Top(t) \in FrameSet /\ Len(stack[t]) \in DOMAIN stack[t] /\ TypeOK /\ Placed
      /\ Popped(t) \in Seq(FrameSet)
  BY Popping DEF IInv
<1>2. Fits(Top(t), result)
  BY <1>1 DEF Placed, Staged, Top
<1>3. Top(t).loop \in Loops /\ Top(t).next \in Inner /\ Mentions(Top(t), Top(t).loop) /\ trampoline[t] # None
  BY <1>1, FrameKinds, InTrampoline DEF Mentions
<1>4. Top(t).loop = Outer => \A i \in Inner : i >= Top(t).next <=> result[i] = "unstarted"
  BY <1>2, <1>3 DEF Fits
<1>5. Flat(t, Popped(t))
  BY <1>1, PoppedFlat, FramesMade
<1>6. QED BY <1>1, <1>3, <1>4, <1>5

LEMMA StartInnerKeeps ==
    ASSUME IInv, NEW t \in Threads, StartInner(t)
    PROVE  IInv'
<1> DEFINE i == Top(t).next
           f == Starting(Outer, i + 1)
           frames == IF i = N THEN Popped(t) ELSE Append(Popped(t), f)
           b == [stack EXCEPT ![t] = Popped(t)]
           c == [stack EXCEPT ![t] = frames]
<1>1. /\ ~Idle(t) /\ Top(t).at = "start" /\ Top(t).loop = Outer /\ StartLoop(t, frames, i)
      /\ pending' = pending /\ kind' = kind /\ stop' = stop
  BY DEF StartInner, Runs
<1>2. /\ Top(t) \in FrameSet /\ i \in Inner /\ Mentions(Top(t), Outer) /\ trampoline[t] # None
      /\ TypeOK /\ Placed /\ Popped(t) \in Seq(FrameSet) /\ Flat(t, Popped(t))
      /\ \A m \in Inner : m >= i <=> result[m] = "unstarted"
  BY <1>1, AtInner
<1> HIDE DEF i
<1>3. /\ Base(t, Popped(t), Outer) = {} /\ result[Outer] = "running"
      /\ \A m \in Loops \ {Outer} : Base(t, Popped(t), m) = Places(m)
  BY <1>1, <1>2, PoppedPlaces, LoopNumbers
<1>4. /\ result[i] = "unstarted" /\ Places(i) = {}
  <2>1. i >= i
    BY <1>2, LoopNumbers
  <2>2. QED BY <1>2, <2>1 DEF Placed, InnerPlaced
<1>5. /\ \A u \in Threads : \A j \in DOMAIN b[u] : ~Mentions(b[u][j], Outer)
      /\ \A u \in Threads : \A j \in DOMAIN waiting[u] : waiting[u][j].loop # Outer
  BY <1>2, <1>3, BaseWithout, LoopNumbers
<1>6. stack \in Stacks /\ b[t] = Popped(t) /\ \A u \in Threads : u # t => b[u] = stack[u]
  BY <1>2, Typed DEF Stacks
<1>7. \A m \in Inner : m # i => (IF result[m] = "running" THEN Alone(Places(m)) ELSE Places(m) = {})
  BY <1>2 DEF Placed, InnerPlaced
<1>8. CASE i = N
  <2>1. frames = Popped(t)
    BY <1>8
  <2>2. \A m \in Inner \ {i} : result[m] # "unstarted"
    <3>1. \A m \in Inner : m # N => ~(m >= N)
      BY LoopNumbers
    <3>2. QED BY <1>2, <1>8, <3>1
  <2>3. OuterReady(t, frames, i)
    BY <1>3, <1>5, <2>1, <2>2 DEF OuterReady, FitsBefore
  <2>4. Ready(t, frames, i)
    BY <1>2, <1>3, <1>4, <1>7, <2>1, <2>3, LoopNumbers DEF Ready
  <2>5. QED BY <1>1, <1>2, <2>4, LoopStarted, LoopNumbers
<1>9. CASE i # N
  <2>1. frames = Append(Popped(t), f) /\ i + 1 \in Inner
    BY <1>2, <1>9, LoopNumbers
  <2>2. /\ f \in FrameSet /\ f.at = "start" /\ f.next = i + 1 /\ f # Outermost /\ f # Nested
        /\ \A m \in Loops : Mentions(f, m) <=> Outer = m
    <3>1. ASSUME NEW n \in Inner, NEW g, g = Starting(Outer, n)
          PROVE  /\ g \in FrameSet /\ g.at = "start" /\ g.next = n /\ g # Outermost /\ g # Nested
                 /\ \A m \in Loops : Mentions(g, m) <=> Outer = m
      BY <3>1, FramesMade, LoopNumbers
    <3>2. QED BY <2>1, <3>1
  <2> HIDE DEF f, frames
  <2>3. /\ frames \in Seq(FrameSet) /\ Len(frames) = Len(Popped(t)) + 1 /\ frames[Len(Popped(t)) + 1] = f
        /\ \A j \in 1 .. Len(Popped(t)) : frames[j] = Popped(t)[j]
        /\ \A F : Positions(frames, F) = Positions(Popped(t), F) \cup (IF f \in F THEN {Len(Popped(t)) + 1} ELSE {})
        /\ Len(Popped(t)) \in Nat /\ DOMAIN Popped(t) = 1 .. Len(Popped(t)) /\ DOMAIN frames = 1 .. Len(frames)
    <3>1. Len(Popped(t)) \in Nat /\ DOMAIN Popped(t) = 1 .. Len(Popped(t))
      BY <1>2, LenProperties
    <3>2. /\ frames \in Seq(FrameSet) /\ Len(frames) = Len(Popped(t)) + 1 /\ frames[Len(Popped(t)) + 1] = f
          /\ \A j \in 1 .. Len(Popped(t)) : frames[j] = Popped(t)[j]
          /\ \A F : Positions(frames, F) = Positions(Popped(t), F) \cup (IF f \in F THEN {Len(Popped(t)) + 1} ELSE {})
      BY <1>2, <2>1, <2>2, PositionsAppended
    <3>3. QED BY <3>1, <3>2, LenProperties
  <2>4. Flat(t, frames)
    <3>1. ASSUME NEW e \in {Nested, Outermost} PROVE Positions(frames, {e}) = Positions(stack[t], {e})
      <4>1. f \notin {e}
        BY <2>2
      <4>2. Positions(frames, {e}) = Positions(Popped(t), {e}) \cup {}
        BY <2>3, <4>1
      <4>3. QED BY <1>2, <4>2 DEF Flat
    <3>2. QED BY <1>2, <2>3, <3>1 DEF Flat
  <2>5. c[t] = frames /\ \A u \in Threads : u # t => c[u] = stack[u]
    BY <1>6 DEF Stacks
  <2> HIDE DEF b, c
  <2>6. \A m \in Loops : PlaceAdded(b, c, waiting, pending, t, Popped(t), f, m)
    BY <1>2, <1>6, <2>1, <2>2, <2>5, PlacesPushed
  <2>7. ASSUME NEW m \in Loops
        PROVE  IF m = Outer THEN Alone(Base(t, frames, m)) ELSE Base(t, frames, m) = Places(m)
    <3>1. Base(t, frames, m) = PlacesIn(c, waiting, pending, m)
          /\ Base(t, Popped(t), m) = PlacesIn(b, waiting, pending, m)
      BY DEF Base, b, c
    <3>2. PlaceAdded(b, c, waiting, pending, t, Popped(t), f, m)
      BY <2>6
    <3>3. CASE m = Outer
      <4>1. Base(t, frames, m) = {<<t, "stack", Len(Popped(t)) + 1>>}
        BY <1>3, <2>2, <3>1, <3>2, <3>3 DEF PlaceAdded
      <4>2. QED BY <3>3, <4>1 DEF Alone
    <3>4. CASE m # Outer
      BY <1>3, <2>2, <3>1, <3>2, <3>4 DEF PlaceAdded
    <3>5. QED BY <3>3, <3>4
  <2>8. ASSUME NEW u \in Threads, NEW j \in DOMAIN c[u] PROVE FitsBefore(c[u][j], i)
    <3>1. CASE u # t
      BY <1>5, <1>6, <2>5, <2>8, <3>1 DEF FitsBefore, b
    <3>2. CASE u = t /\ j # Len(Popped(t)) + 1
      <4>1. j \in DOMAIN Popped(t) /\ c[u][j] = Popped(t)[j]
        BY <2>3, <2>5, <2>8, <3>2
      <4>2. ~Mentions(c[u][j], Outer)
        BY <1>5, <1>6, <3>2, <4>1 DEF b
      <4>3. QED BY <4>2 DEF FitsBefore
    <3>3. CASE u = t /\ j = Len(Popped(t)) + 1
      <4>1. c[u][j] = f /\ i < i + 1
        BY <1>2, <2>3, <2>5, <3>3, LoopNumbers
      <4>2. \A m \in Inner : m # i => (m >= i + 1 <=> m >= i)
        <5>1. \A m \in Nat, n \in Nat : m # n => (m >= n + 1 <=> m >= n)
          OBVIOUS
        <5>2. QED BY <1>2, <5>1, LoopNumbers
      <4>3. \A m \in Inner \ {i} : m >= i + 1 <=> result[m] = "unstarted"
        BY <1>2, <4>2
      <4>4. QED BY <2>2, <4>1, <4>3 DEF FitsBefore
    <3>4. QED BY <3>1, <3>2, <3>3
  <2>9. OuterReady(t, frames, i)
    BY <1>3, <1>5, <2>7, <2>8, LoopNumbers DEF OuterReady, c
  <2>10. Ready(t, frames, i)
    BY <1>2, <1>4, <1>7, <2>4, <2>7, <2>9, LoopNumbers DEF Ready
  <2>11. QED BY <1>1, <1>2, <2>10, LoopStarted, LoopNumbers DEF f, frames
<1>10. QED BY <1>8, <1>9

(* The places with one more child pending, or one fewer. *)
PendingPlaces(s, w, p, q, l, m) ==
    /\ m # l => PlacesIn(s, w, q, m) = PlacesIn(s, w, p, m)
    /\ l \notin p /\ l \in q => PlacesIn(s, w, q, l) = PlacesIn(s, w, p, l) \cup {<<l, "pending", 0>>}
    /\ l \in p /\ l \notin q => PlacesIn(s, w, p, l) = PlacesIn(s, w, q, l) \cup {<<l, "pending", 0>>}

LEMMA PlacesPending ==
    ASSUME NEW s, NEW w, NEW p, NEW q, NEW l, NEW m, q = p \cup {l} \/ q = p \ {l}
    PROVE  PendingPlaces(s, w, p, q, l, m)
<1>1. m # l => (m \in q <=> m \in p)
  OBVIOUS
<1>2. QED BY <1>1 DEF PlacesIn, PendingPlaces

LEMMA StartChildKeeps ==
    ASSUME IInv, NEW t \in Threads, StartChild(t)
    PROVE  IInv'
<1> DEFINE l == Top(t).loop
           b == [stack EXCEPT ![t] = Popped(t)]
<1>1. /\ ~Idle(t) /\ Top(t).at = "start" /\ l # Outer
      /\ kind' = kind /\ stop' = stop /\ result' = result
  BY DEF StartChild, Runs
<1>2. /\ Top(t) \in FrameSet /\ l \in Loops /\ Mentions(Top(t), l) /\ trampoline[t] # None
      /\ TypeOK /\ Placed /\ Popped(t) \in Seq(FrameSet) /\ Flat(t, Popped(t))
  BY <1>1, AtInner
<1> HIDE DEF l
<1>3. Alone(Places(l)) /\ Base(t, Popped(t), l) = {} /\ \A m \in Loops \ {l} : Base(t, Popped(t), m) = Places(m)
  BY <1>1, <1>2, PoppedPlaces
<1>4. l \in Inner
  BY <1>1, <1>2, LoopNumbers
<1>5. ASSUME NEW tag \in Tags, SetStack(t, Append(Popped(t), Completing(l, tag))), pending' = pending, queue' = queue
      PROVE  IInv'
  <2>1. Completing(l, tag) \in FrameSet /\ \A m \in Loops : Mentions(Completing(l, tag), m) <=> l = m
    BY <1>2, FramesMade
  <2>2. Fits(Completing(l, tag), result)
    BY <1>1, <2>1, LoopNumbers DEF Fits
  <2>3. QED BY <1>1, <1>2, <1>5, <2>1, <2>2, FrameReplaced
<1>6. ASSUME Run(t, Popped(t), Child(l)), pending' = pending PROVE IInv'
  <2> DEFINE k == Child(l)
  <2>1. k \in Tasks /\ k.loop = l
    BY <1>2, TasksMade
  <2> HIDE DEF k
  <2>2. Ran(t, Popped(t), k)
    BY <1>2, <1>3, <1>6, <2>1, TaskRuns DEF k
  <2>3. TypeOK'
    BY <1>1, <1>2, <1>6, <2>2 DEF TypeOK, Ran, RanTypes, Stacks, Queues
  <2>4. ASSUME NEW m \in Loops PROVE IF m = l THEN Alone(Places(m)') ELSE Places(m)' = Places(m)
    <3>1. Places(m)' = PlacesIn(stack', waiting', pending', m)
      BY <2>3, PlacesAreNext
    <3>2. IF k.loop = m THEN Alone(PlacesIn(stack', waiting', pending', m))
                        ELSE PlacesIn(stack', waiting', pending', m) = Base(t, Popped(t), m)
      <4>1. RanPlaces(t, Popped(t), k)
        BY <2>2 DEF Ran
      <4>2. QED BY <1>6, <4>1 DEF RanPlaces
    <3>3. QED BY <1>3, <2>1, <3>1, <3>2
  <2>5. ASSUME NEW u \in Threads, NEW i \in DOMAIN stack'[u] PROVE Fits(stack'[u][i], result)
    <3> SUFFICES ASSUME Mentions(stack'[u][i], Outer) PROVE Fits(stack'[u][i], result)
      BY DEF Fits
    <3>1. stack'[u][i] # Execute(k)
      BY <1>1, <2>1, FramesMade, LoopNumbers
    <3>2. \E j \in DOMAIN b[u] : stack'[u][i] = b[u][j]
      BY <2>2, <2>5, <3>1 DEF Ran, RanFrames
    <3>3. \E j \in DOMAIN stack[u] : stack'[u][i] = stack[u][j]
      BY <1>1, <1>2, <3>2, PoppedFrames
    <3>4. QED BY <1>2, <3>3 DEF Placed, Staged
  <2>6. ASSUME NEW u \in Threads, NEW i \in DOMAIN waiting'[u], waiting'[u][i].loop = Outer
        PROVE  waiting'[u][i] = Iteration(Outer) /\ AllUnstarted
    <3>1. waiting'[u][i] # k
      BY <1>1, <2>1, <2>6
    <3>2. \E j \in DOMAIN waiting[u] : waiting'[u][i] = waiting[u][j]
      BY <2>2, <3>1 DEF Ran, RanFrames
    <3>3. QED BY <1>2, <2>6, <3>2 DEF Placed, Staged
  <2>7. Staged'
    BY <1>1, <2>5, <2>6 DEF Staged, AllUnstarted
  <2>8. Placed'
    <3>1. \A m \in Loops : /\ Places(m) = {} => Places(m)' = {}
                           /\ Alone(Places(m)) => Alone(Places(m)')
      BY <1>3, <2>4 DEF Alone
    <3>2. QED BY <1>1, <1>2, <2>7, <3>1, PlacedKept
  <2>9. QED BY <2>2, <2>3, <2>8 DEF IInv, Ran
<1>7. ASSUME pending' = pending \cup {l}, SetStack(t, Popped(t)), queue' = queue PROVE IInv'
  <2>1. Leaves(t, Popped(t)) /\ stack' = b /\ waiting' = waiting /\ trampoline' = trampoline /\ next' = next
    BY <1>2, <1>7, FramesLeft DEF SetStack, queue
  <2>2. TypeOK'
    BY <1>1, <1>2, <1>4, <1>7, <2>1 DEF TypeOK, Leaves, Stacks
  <2>3. l \notin pending
    BY <1>2, <1>3, WaitsNowhere
  <2>4. ASSUME NEW m \in Loops PROVE IF m = l THEN Alone(Places(m)') ELSE Places(m)' = Places(m)
    <3>1. Places(m)' = PlacesIn(b, waiting, pending', m) /\ Base(t, Popped(t), m) = PlacesIn(b, waiting, pending, m)
      BY <2>1, <2>2, PlacesAreNext DEF Base
    <3>2. IF m = l THEN PlacesIn(b, waiting, pending', m) = PlacesIn(b, waiting, pending, m) \cup {<<l, "pending", 0>>}
                   ELSE PlacesIn(b, waiting, pending', m) = PlacesIn(b, waiting, pending, m)
      <4>1. PendingPlaces(b, waiting, pending, pending', l, m)
        BY <1>7, PlacesPending
      <4>2. QED BY <1>7, <2>3, <4>1 DEF PendingPlaces
    <3>3. CASE m = l
      <4>1. Places(m)' = {<<l, "pending", 0>>}
        BY <1>3, <3>1, <3>2, <3>3
      <4>2. QED BY <3>3, <4>1 DEF Alone
    <3>4. QED BY <1>3, <3>1, <3>2, <3>3
  <2>5. Staged'
    <3>1. ASSUME NEW u \in Threads, NEW i \in DOMAIN stack'[u] PROVE Fits(stack'[u][i], result)
      <4>1. \E j \in DOMAIN stack[u] : stack'[u][i] = stack[u][j]
        BY <1>1, <1>2, <2>1, PoppedFrames
      <4>2. QED BY <1>2, <4>1 DEF Placed, Staged
    <3>2. QED BY <1>1, <1>2, <2>1, <3>1 DEF Placed, Staged, AllUnstarted
  <2>6. Placed'
    <3>1. \A m \in Loops : /\ Places(m) = {} => Places(m)' = {}
                           /\ Alone(Places(m)) => Alone(Places(m)')
      BY <1>3, <2>4 DEF Alone
    <3>2. QED BY <1>1, <1>2, <2>5, <3>1, PlacedKept
  <2>7. QED BY <2>1, <2>2, <2>6 DEF IInv, Leaves
<1>8. QED BY <1>5, <1>6, <1>7 DEF StartChild, l, Tags

LEMMA ChildCompletesKeeps ==
    ASSUME IInv, NEW t \in Threads, NEW l \in Inner, ChildCompletes(t, l)
    PROVE  IInv'
<1>1. /\ TypeOK /\ Placed /\ stack[t] = << >> /\ stack \in Stacks /\ l \in pending /\ pending' = pending \ {l}
      /\ kind' = kind /\ result' = result /\ stop' = stop /\ queue' = queue
      /\ waiting' = waiting /\ trampoline' = trampoline /\ next' = next
      /\ l \in Loops /\ l # Outer /\ << >> \in Seq(FrameSet) /\ NestedIn(t)
  BY Typed, LoopNumbers, QueueParts DEF ChildCompletes, Idle, IInv, queue
<1>2. PICK tag \in Tags : SetStack(t, <<Completing(l, tag)>>)
  BY DEF ChildCompletes, Tags
<1> DEFINE f == Completing(l, tag)
<1>3. /\ f \in FrameSet /\ f.at = "complete" /\ f # Outermost /\ f # Nested
      /\ \A m \in Loops : Mentions(f, m) <=> l = m
  BY <1>1, FramesMade
<1> HIDE DEF f
<1>4. SetStack(t, Append(<< >>, f)) /\ [stack EXCEPT ![t] = << >>] = stack
  <2>1. Append(<< >>, f) = <<f>>
    OBVIOUS
  <2>2. QED BY <1>1, <1>2, <2>1 DEF f, Stacks
<1>5. Flat(t, << >>)
  BY <1>1 DEF Flat
<1>6. Pushes(t, << >>, f)
  BY <1>1, <1>3, <1>4, <1>5, FramePushed
<1>7. TypeOK'
  BY <1>1, <1>6 DEF TypeOK, Pushes, Stacks
<1>8. ASSUME NEW m \in Loops PROVE IF m = l THEN Alone(Places(m)') ELSE Places(m)' = Places(m)
  <2>1. Places(m)' = PlacesIn(stack', waiting', pending', m) /\ Places(m) = PlacesIn(stack, waiting, pending, m)
    BY <1>1, <1>7, PlacesAreNext, PlacesAre
  <2>2. PlaceAdded(stack, stack', waiting', pending', t, << >>, f, m)
    BY <1>4, <1>6 DEF Pushes
  <2>3. PendingPlaces(stack, waiting, pending, pending', l, m)
    BY <1>1, PlacesPending
  <2>4. CASE m = l
    <3>1. Places(l) = {} \/ Alone(Places(l))
      BY <1>1, NowhereOrAlone
    <3>2. PlacesIn(stack, waiting, pending, l) = PlacesIn(stack, waiting, pending', l) \cup {<<l, "pending", 0>>}
      BY <1>1, <2>3 DEF PendingPlaces
    <3>3. <<l, "pending", 0>> \notin PlacesIn(stack, waiting, pending', l)
      BY <1>1, PlacesKinds
    <3>4. PlacesIn(stack, waiting, pending', l) = {}
      BY <2>1, <2>4, <3>1, <3>2, <3>3 DEF Alone
    <3>5. Places(m)' = {<<t, "stack", Len(<< >>) + 1>>}
      BY <1>1, <1>3, <2>1, <2>2, <2>4, <3>4 DEF PlaceAdded
    <3>6. QED BY <2>4, <3>5 DEF Alone
  <2>5. CASE m # l
    BY <1>1, <1>3, <2>1, <2>2, <2>3, <2>5 DEF PlaceAdded, PendingPlaces
  <2>6. QED BY <2>4, <2>5
<1>9. Staged'
  <2>1. ASSUME NEW u \in Threads, NEW i \in DOMAIN stack'[u] PROVE Fits(stack'[u][i], result)
    <3>1. CASE stack'[u][i] = f
      BY <1>1, <1>3, <3>1, LoopNumbers DEF Fits
    <3>2. CASE \E j \in DOMAIN stack[u] : stack'[u][i] = stack[u][j]
      BY <1>1, <3>2 DEF Placed, Staged
    <3>3. QED BY <1>4, <1>6, <3>1, <3>2 DEF Pushes
  <2>2. QED BY <1>1, <2>1 DEF Placed, Staged, AllUnstarted
<1>10. Placed'
  <2>1. Places(l) = {} \/ Alone(Places(l))
    BY <1>1, NowhereOrAlone
  <2>2. Places(l) # {}
    <3>1. Places(l) = PlacesIn(stack, waiting, pending, l)
      BY <1>1, PlacesAre
    <3>2. <<l, "pending", 0>> \in PlacesIn(stack, waiting, pending, l)
      BY <1>1, PlacesKinds
    <3>3. QED BY <3>1, <3>2
  <2>3. \A m \in Loops : /\ Places(m) = {} => Places(m)' = {}
                         /\ Alone(Places(m)) => Alone(Places(m)')
    BY <1>8, <2>2 DEF Alone
  <2>4. QED BY <1>1, <1>9, <2>3, PlacedKept
<1>11. QED BY <1>6, <1>7, <1>10 DEF IInv, Pushes

LEMMA IterationDoneKeeps ==
    ASSUME IInv, NEW t \in Threads, IterationDone(t)
    PROVE  IInv'
<1> DEFINE l == Top(t).loop
<1>1. /\ ~Idle(t) /\ Top(t).at = "complete" /\ kind' = kind /\ pending' = pending /\ stop' = stop /\ TypeOK
  BY DEF IterationDone, Runs, IInv
<1>2. /\ Top(t) \in FrameSet /\ l \in Loops /\ Mentions(Top(t), l) /\ Top(t).tag \in Tags /\ stop' \in BOOLEAN
  <2>1. Top(t) \in FrameSet
    BY <1>1, Popping
  <2>2. QED BY <1>1, <2>1, FrameKinds DEF Mentions, TypeOK
<1>3. PICK how \in Outcomes(l, Top(t).tag) :
         IF how = "next"
            THEN result' = Reconnected(l, result, "unstarted") /\ Run(t, Popped(t), Iteration(l))
            ELSE Finish(t, Popped(t), l, how)
  BY DEF IterationDone
<1>4. how \in Tags \/ how = "next"
  <2>1. kind[l] \in Kinds
    BY <1>1, <1>2 DEF TypeOK
  <2>2. EndsAfter(l) \subseteq Tags \cup {"next"}
    BY <2>1 DEF EndsAfter, Kinds, Tags
  <2>3. QED BY <1>2, <2>2 DEF Outcomes
<1> HIDE DEF l
<1>5. Ready(t, Popped(t), l) /\ result[l] = "running"
  BY <1>1, <1>2, ReadyPopped
<1>6. CASE how = "next"
  <2>1. Iteration(l) \in Tasks /\ Iteration(l).loop = l
    BY <1>2, TasksMade
  <2>2. Ran(t, Popped(t), Iteration(l))
    BY <1>3, <1>5, <1>6, <2>1, TaskRuns DEF Ready
  <2>3. result' = [i \in Loops |-> IF l = Outer /\ i \in Inner THEN "unstarted" ELSE result[i]]
    BY <1>3, <1>6 DEF Reconnected
  <2>4. /\ result' \in [Loops -> Tags \cup {"unstarted", "running"}] /\ result'[l] = "running"
        /\ l = Outer => \A m \in Inner : result'[m] = "unstarted"
        /\ l # Outer => \A m \in Loops \ {l} : result'[m] = result[m]
    BY <1>1, <1>2, <1>5, <2>3, LoopNumbers DEF TypeOK
  <2>5. QED BY <1>1, <1>2, <1>5, <2>2, <2>4, IterationPlaces DEF IInv
<1>7. CASE how # "next"
  BY <1>1, <1>2, <1>3, <1>4, <1>5, <1>7, FinishPlaces DEF IInv
<1>8. QED BY <1>6, <1>7

(* The frame of a run that is about no loop: taking it off moves nobody.   *)
LEMMA RunPopped ==
    ASSUME IInv, NEW t \in Threads, ~Idle(t), Top(t) \in {Outermost, Nested},
           SetStack(t, Popped(t)), NestsAndQueues', Based',
           kind' = kind, pending' = pending, stop' = stop, result' = result, waiting' = waiting,
           trampoline' \in [Threads -> Trampolines \cup {None}], next' = next
    PROVE  IInv'
<1> DEFINE b == [stack EXCEPT ![t] = Popped(t)]
<1>1. /\ TypeOK /\ Placed /\ Popped(t) \in Seq(FrameSet) /\ stack \in Stacks /\ stack' = b
  BY Popping, Typed DEF IInv, SetStack
<1>2. TypeOK'
  BY <1>1 DEF TypeOK, Stacks
<1>3. ASSUME NEW m \in Loops PROVE Places(m)' = Places(m)
  <2>1. Places(m)' = Base(t, Popped(t), m)
    BY <1>1, <1>2, PlacesAreNext DEF Base
  <2> DEFINE place == <<t, "stack", Len(stack[t])>>
  <2>2. Base(t, Popped(t), m) = Places(m) \ {place} /\ (place \in Places(m) <=> Mentions(Top(t), m))
    BY <1>1, Popping
  <2>3. ~Mentions(Top(t), m)
    BY FramesMade
  <2> HIDE DEF place
  <2>4. QED BY <2>1, <2>2, <2>3
<1>4. Staged'
  <2>1. ASSUME NEW u \in Threads, NEW i \in DOMAIN stack'[u] PROVE Fits(stack'[u][i], result)
    <3>1. \E j \in DOMAIN stack[u] : stack'[u][i] = stack[u][j]
      BY <1>1, PoppedFrames
    <3>2. QED BY <1>1, <3>1 DEF Placed, Staged
  <2>2. QED BY <1>1, <2>1 DEF Placed, Staged, AllUnstarted
<1>5. Placed'
  BY <1>1, <1>3, <1>4, PlacedKept
<1>6. QED BY <1>2, <1>5 DEF IInv

LEMMA NestedReturnsKeeps ==
    ASSUME IInv, NEW t \in Threads, NestedReturns(t)
    PROVE  IInv'
<1> DEFINE n == Len(stack[t])
           P == Positions(stack[t], {Nested})
<1>1. /\ ~Idle(t) /\ Top(t).at = "nested" /\ SetStack(t, Popped(t)) /\ next' = next /\ waiting' = waiting
      /\ kind' = kind /\ pending' = pending /\ stop' = stop /\ result' = result
      /\ trampoline' = [trampoline EXCEPT ![t].depth = @ - 1]
  BY DEF NestedReturns, Runs, loops
<1>2. /\ TypeOK /\ stack \in Stacks /\ Top(t) \in FrameSet /\ Popped(t) \in Seq(FrameSet)
      /\ \A F : Positions(Popped(t), F) = Positions(stack[t], F) \ {n}
      /\ \A F : n \in Positions(stack[t], F) <=> Top(t) \in F
  BY <1>1, Popping, Typed DEF IInv
<1>3. Top(t) = Nested /\ Outermost # Nested /\ trampoline[t] # None
  BY <1>1, <1>2, FrameKinds, FramesMade, InTrampoline
<1>4. NestedIn(t) /\ Linked(t)
  BY QueueParts DEF IInv
<1>5. /\ IsFiniteSet(P) /\ n \in P /\ Cardinality(P \ {n}) = Cardinality(P) - 1 /\ Cardinality(P) \in Nat
      /\ Cardinality(P) # 0 /\ Cardinality(P \ {n}) \in Nat
  <2>1. IsFiniteSet(P) /\ n \in P /\ Cardinality(P) \in Nat
    BY <1>2, <1>3, RunsFinite
  <2> HIDE DEF P, n
  <2>2. Cardinality(P \ {n}) = Cardinality(P) - 1 /\ IsFiniteSet(P \ {n})
    BY <2>1, FS_RemoveElement
  <2>3. Cardinality(P \ {n}) \in Nat
    BY <2>2, FS_CardinalityType
  <2>4. QED BY <2>1, <2>2, <2>3
<1> HIDE DEF P, n
<1>6. /\ trampoline[t] \in Trampolines /\ trampoline[t].depth \in Nat
      /\ trampoline[t].depth = 1 + Cardinality(P) /\ trampoline[t].depth <= MaxDepth
      /\ Positions(stack[t], {Outermost}) = {1}
  BY <1>2, <1>3, <1>4, Typed DEF NestedIn, Trampolines, P
<1>7. /\ trampoline' = [trampoline EXCEPT ![t] = trampoline'[t]]
      /\ trampoline'[t] = [trampoline[t] EXCEPT !.depth = @ - 1]
      /\ \A u \in Threads : u # t => trampoline'[u] = trampoline[u]
  BY <1>1, <1>2 DEF TypeOK
<1>8. /\ trampoline'[t].depth = Cardinality(P)
      /\ trampoline'[t].head = trampoline[t].head /\ trampoline'[t].tail = trampoline[t].tail
      /\ trampoline'[t] \in Trampolines /\ trampoline'[t] # None
  <2>1. trampoline[t].depth - 1 = Cardinality(P)
    BY <1>5, <1>6
  <2>2. /\ trampoline'[t].depth = trampoline[t].depth - 1
        /\ trampoline'[t].head = trampoline[t].head /\ trampoline'[t].tail = trampoline[t].tail
    BY <1>6, <1>7 DEF Trampolines
  <2>3. trampoline'[t] \in Trampolines
    BY <1>5, <1>6, <1>7, <2>1 DEF Trampolines
  <2>4. QED BY <2>1, <2>2, <2>3, NoneAssumption
<1>9. trampoline' \in [Threads -> Trampolines \cup {None}]
  BY <1>2, <1>7, <1>8 DEF TypeOK
<1>10. stack'[t] = Popped(t) /\ \A u \in Threads : u # t => stack'[u] = stack[u]
  BY <1>1, <1>2 DEF SetStack, Stacks
<1>11. NestedIn(t)'
  <2>1. Positions(stack'[t], {Nested}) = P \ {n}
    BY <1>2, <1>10 DEF P
  <2>2. Positions(stack'[t], {Outermost}) = {1}
    <3>1. n \notin Positions(stack[t], {Outermost})
      BY <1>2, <1>3
    <3>2. Positions(stack'[t], {Outermost}) = Positions(stack[t], {Outermost}) \ {n}
      BY <1>2, <1>10
    <3>3. QED BY <1>6, <3>1, <3>2
  <2>3. trampoline'[t].depth = 1 + Cardinality(Positions(stack'[t], {Nested}))
    <3>1. Cardinality(P) = 1 + Cardinality(P \ {n})
      BY <1>5
    <3>2. QED BY <1>8, <2>1, <3>1
  <2>4. trampoline'[t].depth <= MaxDepth
    BY <1>5, <1>6, <1>8, LoopsAssumption
  <2>5. QED BY <1>8, <2>2, <2>3, <2>4 DEF NestedIn
<1>12. Linked(t)' /\ BasedIn(t)'
  BY <1>1, <1>3, <1>4, <1>8 DEF Linked, BasedIn
<1>13. \A u \in Threads \ {t} : NestedIn(u)' /\ Linked(u)' /\ BasedIn(u)'
  BY <1>1, <1>7, <1>10, OthersQueues DEF IInv
<1>14. NestsAndQueues' /\ Based'
  <2>1. \A u \in Threads : NestedIn(u)' /\ Linked(u)' /\ BasedIn(u)'
    BY <1>11, <1>12, <1>13
  <2>2. QED BY <2>1, QueuePartsNext DEF Based, BasedIn
<1>15. QED BY <1>1, <1>3, <1>9, <1>14, RunPopped

(* The outermost run is the only frame left when it looks at its queue.    *)
LEMMA AtOutermost ==
    ASSUME IInv, NEW t \in Threads, Runs(t, "outermost")
    PROVE  /\ ~Idle(t) /\ Top(t) = Outermost /\ Len(stack[t]) = 1 /\ trampoline[t] # None /\ Popped(t) = << >>
           /\ Positions(stack[t], {Outermost}) = {1}
<1>1. ~Idle(t) /\ Top(t).at = "outermost"
  BY DEF Runs
<1>2. /\ Top(t) = Outermost /\ Popped(t) \in Seq(FrameSet) /\ Len(Popped(t)) = Len(stack[t]) - 1
      /\ \A F : Len(stack[t]) \in Positions(stack[t], F) <=> Top(t) \in F
  BY <1>1, Popping, FrameKinds DEF IInv
<1>3. trampoline[t] # None
  BY <1>1, InTrampoline
<1>4. Positions(stack[t], {Outermost}) = {1}
  BY <1>3, QueueParts DEF IInv, NestedIn
<1>5. Len(stack[t]) = 1
  BY <1>2, <1>4
<1>6. Popped(t) = << >>
  BY <1>2, <1>5, EmptySeq
<1>7. QED BY <1>1, <1>2, <1>3, <1>4, <1>5, <1>6

LEMMA RunReturnsKeeps ==
    ASSUME IInv, NEW t \in Threads, RunReturns(t)
    PROVE  IInv'
<1>1. /\ Runs(t, "outermost") /\ trampoline[t].head = None /\ SetStack(t, Popped(t))
      /\ trampoline' = [trampoline EXCEPT ![t] = None] /\ next' = next /\ waiting' = waiting
      /\ kind' = kind /\ pending' = pending /\ stop' = stop /\ result' = result
  BY DEF RunReturns, loops
<1>2. ~Idle(t) /\ Top(t) = Outermost /\ trampoline[t] # None /\ Popped(t) = << >>
  BY <1>1, AtOutermost
<1>3. TypeOK /\ stack \in Stacks /\ waiting[t] \in Seq(Tasks) /\ trampoline \in [Threads -> Trampolines \cup {None}]
  BY Typed DEF IInv, TypeOK
<1>4. waiting[t] = << >>
  <2>1. trampoline[t].head = IF Len(waiting[t]) = 0 THEN None ELSE waiting[t][1]
    BY <1>2, QueueParts DEF IInv, Linked
  <2>2. ASSUME Len(waiting[t]) # 0 PROVE FALSE
    <3>1. Len(waiting[t]) \in Nat /\ DOMAIN waiting[t] = 1 .. Len(waiting[t])
      BY <1>3, LenProperties
    <3>2. 1 \in DOMAIN waiting[t]
      BY <2>2, <3>1
    <3>3. waiting[t][1] \in Tasks
      BY <1>3, <3>2, Typed
    <3>4. QED BY <1>1, <2>1, <2>2, <3>3, NoneAssumption
  <2>3. QED BY <1>3, <2>2, EmptySeq
<1>5. /\ stack'[t] = << >> /\ trampoline'[t] = None
      /\ \A u \in Threads : u # t => stack'[u] = stack[u] /\ trampoline'[u] = trampoline[u]
  BY <1>1, <1>2, <1>3 DEF SetStack, Stacks
<1>6. NestedIn(t)' /\ Linked(t)' /\ BasedIn(t)'
  <2>1. \A F : Positions(stack'[t], F) = {}
    BY <1>5 DEF Positions
  <2>2. QED BY <1>1, <1>4, <1>5, <2>1 DEF NestedIn, Linked, BasedIn
<1>7. \A u \in Threads \ {t} : NestedIn(u)' /\ Linked(u)' /\ BasedIn(u)'
  BY <1>1, <1>5, OthersQueues DEF IInv
<1>8. NestsAndQueues' /\ Based'
  <2>1. \A u \in Threads : NestedIn(u)' /\ Linked(u)' /\ BasedIn(u)'
    BY <1>6, <1>7
  <2>2. QED BY <2>1, QueuePartsNext DEF Based, BasedIn
<1>9. trampoline' \in [Threads -> Trampolines \cup {None}]
  BY <1>1, <1>3
<1>10. QED BY <1>1, <1>2, <1>8, <1>9, RunPopped

(* The task that an outermost run takes is the first that was handed over. *)
LEMMA TakenLinks ==
    ASSUME IInv, NEW t \in Threads, RunQueued(t)
    PROVE  LET w == waiting[t]
               v == waiting'[t]
               k == trampoline[t].head
           IN  /\ w # << >> /\ k = w[1] /\ k \in Tasks /\ v = SubSeq(w, 2, Len(w)) /\ v \in Seq(Tasks)
               /\ Len(w) \in Nat /\ Len(w) # 0 /\ Len(v) = Len(w) - 1
               /\ \A i \in 1 .. Len(w) - 1 : v[i] = w[i + 1] /\ v[i] \in Tasks /\ v[i] # k
               /\ HeadAfter(t) = IF Len(v) = 0 THEN None ELSE v[1]
               /\ TailAfter(t) = IF Len(v) = 0 THEN None ELSE v[Len(v)]
               /\ \A i \in 1 .. Len(v) : next[v[i]] = IF i = Len(v) THEN None ELSE v[i + 1]
<1> DEFINE w == waiting[t]
           v == waiting'[t]
           k == trampoline[t].head
           n == Len(w)
<1>1. /\ trampoline[t].head # None /\ waiting' = [waiting EXCEPT ![t] = SubSeq(@, 2, Len(@))]
      /\ trampoline[t] # None /\ TypeOK /\ Placed
  BY AtOutermost DEF RunQueued, IInv
<1>2. w \in Seq(Tasks) /\ n \in Nat /\ DOMAIN w = 1 .. n /\ \A i \in 1 .. n : w[i] \in Tasks
  BY <1>1, Typed
<1>3. /\ k = (IF n = 0 THEN None ELSE w[1])
      /\ trampoline[t].tail = (IF n = 0 THEN None ELSE w[n])
      /\ \A i \in 1 .. n : next[w[i]] = IF i = n THEN None ELSE w[i + 1]
  BY <1>1, QueueParts DEF IInv, Linked
<1>4. n # 0 /\ k = w[1] /\ 1 \in 1 .. n /\ k \in Tasks
  <2>1. n # 0 /\ k = w[1]
    BY <1>1, <1>3
  <2>2. 1 \in 1 .. n
    BY <1>2, <2>1
  <2>3. QED BY <1>2, <2>1, <2>2
<1>5. v = SubSeq(w, 2, n) /\ w # << >>
  <2>1. w # << >>
    BY <1>4, EmptySeq
  <2>2. QED BY <1>1, <2>1, Typed DEF Queues
<1>6. v \in Seq(Tasks) /\ Len(v) = n - 1 /\ \A i \in 1 .. n - 1 : v[i] = w[i + 1]
  BY <1>2, <1>5, PositionsRest
<1>7. ASSUME NEW i \in 1 .. n - 1 PROVE v[i] \in Tasks /\ v[i] # k
  <2>1. i + 1 \in 1 .. n /\ i + 1 # 1 /\ v[i] = w[i + 1]
    BY <1>2, <1>6
  <2>2. \A j \in 1 .. n : j # 1 => w[j] # w[1]
    BY <1>1, <1>2, <1>4, WaitingApart
  <2>3. QED BY <1>2, <1>4, <2>1, <2>2
<1>8. HeadAfter(t) = next[w[1]] /\ next[w[1]] = IF 1 = n THEN None ELSE w[2]
  <2>1. next[w[1]] = IF 1 = n THEN None ELSE w[1 + 1]
    BY <1>3, <1>4
  <2>2. QED BY <1>4, <2>1 DEF HeadAfter
<1> HIDE DEF w, v, k, n
<1>9. HeadAfter(t) = IF Len(v) = 0 THEN None ELSE v[1]
  <2>1. CASE n = 1
    BY <1>6, <1>8, <2>1
  <2>2. CASE n # 1
    <3>1. 1 \in 1 .. n - 1 /\ Len(v) # 0
      BY <1>2, <1>4, <1>6, <2>2
    <3>2. v[1] = w[2]
      BY <1>6, <3>1
    <3>3. QED BY <1>8, <2>2, <3>1, <3>2
  <2>3. QED BY <2>1, <2>2
<1>10. TailAfter(t) = IF Len(v) = 0 THEN None ELSE v[Len(v)]
  <2>1. CASE n = 1
    BY <1>6, <1>8, <2>1 DEF TailAfter
  <2>2. CASE n # 1
    <3>1. 1 \in 1 .. n - 1 /\ n - 1 \in 1 .. n - 1 /\ Len(v) # 0 /\ n - 1 + 1 = n
      BY <1>2, <1>4, <1>6, <2>2
    <3>2. v[Len(v)] = w[n]
      BY <1>6, <3>1
    <3>3. HeadAfter(t) # None
      BY <1>7, <1>9, <3>1, NoneAssumption
    <3>4. trampoline[t].tail = w[n]
      BY <1>3, <1>4
    <3>5. QED BY <3>1, <3>2, <3>3, <3>4 DEF TailAfter
  <2>3. QED BY <2>1, <2>2
<1>11. ASSUME NEW i \in 1 .. Len(v) PROVE next[v[i]] = IF i = Len(v) THEN None ELSE v[i + 1]
  <2>1. i \in 1 .. n - 1 /\ i + 1 \in 1 .. n
    BY <1>2, <1>6
  <2>2. v[i] = w[i + 1] /\ next[w[i + 1]] = IF i + 1 = n THEN None ELSE w[i + 1 + 1]
    BY <1>3, <1>6, <2>1
  <2>3. CASE i = n - 1
    <3>1. i + 1 = n /\ i = Len(v)
      BY <1>2, <1>6, <2>3
    <3>2. QED BY <2>2, <3>1
  <2>4. CASE i # n - 1
    <3>1. i + 1 \in 1 .. n - 1 /\ i + 1 # n /\ i # Len(v)
      BY <1>2, <1>6, <2>1, <2>4
    <3>2. v[i + 1] = w[i + 1 + 1]
      BY <1>6, <3>1
    <3>3. QED BY <2>2, <3>1, <3>2
  <2>5. QED BY <2>3, <2>4
<1>12. QED BY <1>2, <1>4, <1>5, <1>6, <1>7, <1>9, <1>10, <1>11 DEF w, v, k, n

LEMMA RunQueuedKeeps ==
    ASSUME IInv, NEW t \in Threads, RunQueued(t)
    PROVE  IInv'
<1> DEFINE w == waiting[t]
           v == waiting'[t]
           k == trampoline[t].head
           f == Execute(k)
           l == k.loop
<1>1. /\ Runs(t, "outermost") /\ SetStack(t, Append(stack[t], Execute(k)))
      /\ trampoline' = [trampoline EXCEPT ![t].head = HeadAfter(t), ![t].tail = TailAfter(t)]
      /\ next' = [next EXCEPT ![k] = None]
      /\ waiting' = [waiting EXCEPT ![t] = SubSeq(@, 2, Len(@))]
      /\ kind' = kind /\ pending' = pending /\ stop' = stop /\ result' = result
  BY DEF RunQueued, loops
<1>2. /\ TypeOK /\ Placed /\ stack \in Stacks /\ waiting \in Queues /\ stack[t] \in Seq(FrameSet)
      /\ trampoline \in [Threads -> Trampolines \cup {None}] /\ next \in [Tasks -> Links]
  BY Typed DEF IInv, TypeOK
<1>3. trampoline[t] # None /\ trampoline[t] \in Trampolines
  BY <1>1, <1>2, AtOutermost
<1>4. /\ w # << >> /\ k = w[1] /\ k \in Tasks /\ v = SubSeq(w, 2, Len(w)) /\ v \in Seq(Tasks)
      /\ Len(w) \in Nat /\ Len(w) # 0 /\ Len(v) = Len(w) - 1
      /\ \A i \in 1 .. Len(w) - 1 : v[i] = w[i + 1] /\ v[i] \in Tasks /\ v[i] # k
  BY TakenLinks
<1>5. /\ HeadAfter(t) = IF Len(v) = 0 THEN None ELSE v[1]
      /\ TailAfter(t) = IF Len(v) = 0 THEN None ELSE v[Len(v)]
      /\ \A i \in 1 .. Len(v) : next[v[i]] = IF i = Len(v) THEN None ELSE v[i + 1]
  BY TakenLinks
<1>6. l \in Loops /\ f \in FrameSet /\ f.at = "execute" /\ f.task = k /\ f # Outermost /\ f # Nested
      /\ \A m \in Loops : Mentions(f, m) <=> l = m
  BY <1>4, TasksMade, FramesMade
<1>7. waiting' \in Queues /\ \A u \in Threads : u # t => waiting'[u] = waiting[u]
  BY <1>1, <1>2, <1>4 DEF Queues
<1> HIDE DEF w, v, k, f, l
<1>8. HeadAfter(t) \in Links /\ TailAfter(t) \in Links
  <2>1. CASE Len(v) = 0
    BY <1>5, <2>1 DEF Links
  <2>2. CASE Len(v) # 0
    <3>1. 1 \in 1 .. Len(w) - 1 /\ Len(v) \in 1 .. Len(w) - 1
      BY <1>4, <2>2
    <3>2. v[1] \in Tasks /\ v[Len(v)] \in Tasks
      BY <1>4, <3>1
    <3>3. QED BY <1>5, <2>2, <3>2 DEF Links
  <2>3. QED BY <2>1, <2>2
<1>9. /\ trampoline'[t].depth = trampoline[t].depth
      /\ trampoline'[t].head = HeadAfter(t) /\ trampoline'[t].tail = TailAfter(t)
      /\ trampoline'[t] \in Trampolines /\ trampoline'[t] # None
      /\ trampoline' \in [Threads -> Trampolines \cup {None}]
      /\ \A u \in Threads : u # t => trampoline'[u] = trampoline[u]
  <2>1. /\ trampoline'[t] = [trampoline[t] EXCEPT !.head = HeadAfter(t), !.tail = TailAfter(t)]
        /\ \A u \in Threads : u # t => trampoline'[u] = trampoline[u]
        /\ trampoline' = [trampoline EXCEPT ![t] = trampoline'[t]]
    BY <1>1, <1>2
  <2>2. /\ trampoline'[t].depth = trampoline[t].depth
        /\ trampoline'[t].head = HeadAfter(t) /\ trampoline'[t].tail = TailAfter(t)
        /\ trampoline'[t] \in Trampolines
    BY <1>3, <1>8, <2>1 DEF Trampolines, Links
  <2>3. trampoline'[t] # None
    BY <2>2, NoneAssumption
  <2>4. trampoline' \in [Threads -> Trampolines \cup {None}]
    BY <1>2, <2>1, <2>2
  <2>5. QED BY <2>1, <2>2, <2>3, <2>4
<1>10. /\ stack'[t] = Append(stack[t], f) /\ stack' \in Stacks
       /\ \A u \in Threads : u # t => stack'[u] = stack[u]
  <2>1. Append(stack[t], f) \in Seq(FrameSet)
    BY <1>2, <1>6, PositionsAppended
  <2>2. stack' = [stack EXCEPT ![t] = Append(stack[t], f)]
    BY <1>1 DEF SetStack, f
  <2>3. QED BY <1>2, <2>1, <2>2 DEF Stacks
<1>11. next' \in [Tasks -> Links] /\ \A j \in Tasks : j # k => next'[j] = next[j]
  BY <1>1, <1>2 DEF Links
<1>12. TypeOK'
  BY <1>1, <1>2, <1>7, <1>9, <1>10, <1>11 DEF TypeOK, Stacks, Queues
<1>13. NestedIn(t)'
  <2>1. NestedIn(t)
    BY QueueParts DEF IInv
  <2>2. ASSUME NEW e \in {Nested, Outermost} PROVE Positions(stack'[t], {e}) = Positions(stack[t], {e})
    <3>1. f \notin {e}
      BY <1>6
    <3>2. Positions(Append(stack[t], f), {e}) = Positions(stack[t], {e}) \cup (IF f \in {e} THEN {Len(stack[t]) + 1} ELSE {})
      BY <1>2, <1>6, PositionsAppended
    <3>3. QED BY <1>10, <3>1, <3>2
  <2>3. Positions(stack'[t], {Nested}) = Positions(stack[t], {Nested})
    BY <2>2
  <2>4. Positions(stack'[t], {Outermost}) = Positions(stack[t], {Outermost})
    BY <2>2
  <2>5. QED BY <1>3, <1>9, <2>1, <2>3, <2>4 DEF NestedIn
<1>14. Linked(t)'
  <2>1. ASSUME NEW i \in 1 .. Len(v) PROVE next'[v[i]] = IF i = Len(v) THEN None ELSE v[i + 1]
    <3>1. v[i] \in Tasks /\ v[i] # k
      BY <1>4
    <3>2. QED BY <1>5, <1>11, <3>1
  <2>2. waiting'[t] = v
    BY DEF v
  <2>3. QED BY <1>5, <1>9, <2>1, <2>2 DEF Linked
<1>15. BasedIn(t)'
  BY <1>9 DEF BasedIn
<1>16. ASSUME NEW u \in Threads \ {t} PROVE NestedIn(u)' /\ Linked(u)' /\ BasedIn(u)'
  <2>1. ASSUME NEW i \in DOMAIN waiting[u] PROVE next'[waiting[u][i]] = next[waiting[u][i]]
    <3>1. 1 \in DOMAIN w /\ waiting[u][i] \in Tasks
      BY <1>2, <1>4, Typed DEF w
    <3>2. waiting[u][i] # k
      BY <1>2, <1>4, <3>1, WaitingApart DEF w
    <3>3. QED BY <1>11, <3>1, <3>2
  <2>2. QED BY <1>7, <1>9, <1>10, <2>1, OthersQueues DEF IInv
<1>17. NestsAndQueues' /\ Based'
  <2>1. \A u \in Threads : NestedIn(u)' /\ Linked(u)' /\ BasedIn(u)'
    BY <1>13, <1>14, <1>15, <1>16
  <2>2. QED BY <2>1, QueuePartsNext DEF Based, BasedIn
<1>18. ASSUME NEW m \in Loops
       PROVE  /\ Places(m) = {} => Places(m)' = {}
              /\ Alone(Places(m)) => Alone(Places(m)')
  <2> DEFINE before == PlacesIn(stack, waiting, pending, m)
             taken == PlacesIn(stack, waiting', pending, m)
             after == PlacesIn(stack', waiting', pending, m)
  <2>1. Places(m) = before /\ Places(m)' = after
    BY <1>1, <1>2, <1>12, PlacesAre, PlacesAreNext
  <2>2. /\ l # m => (before = {} => taken = {}) /\ (Alone(before) => Alone(taken))
        /\ l = m => before # {} /\ (Alone(before) => taken = {})
    <3>1. waiting[t] # << >> /\ waiting[t][1].loop = l /\ waiting' = [waiting EXCEPT ![t] = SubSeq(@, 2, Len(@))]
      BY <1>1, <1>4 DEF w, l
    <3>2. waiting'[t] = SubSeq(waiting[t], 2, Len(waiting[t]))
      BY <1>2, <3>1 DEF Queues
    <3>3. PlaceTaken(stack, waiting, waiting', pending, t, m)
      BY <1>2, <1>7, <3>1, <3>2, PlacesTaken
    <3>4. QED BY <3>1, <3>3 DEF PlaceTaken
  <2>3. PlaceAdded(stack, stack', waiting', pending, t, stack[t], f, m)
    BY <1>2, <1>6, <1>10, PlacesPushed
  <2>4. CASE l # m
    <3>1. after = taken
      BY <1>6, <2>3, <2>4 DEF PlaceAdded
    <3>2. QED BY <2>1, <2>2, <2>4, <3>1
  <2>5. CASE l = m
    <3>1. after = taken \cup {<<t, "stack", Len(stack[t]) + 1>>}
      BY <1>6, <2>3, <2>5 DEF PlaceAdded
    <3> HIDE DEF before, taken, after
    <3>2. Alone(before) => after = {<<t, "stack", Len(stack[t]) + 1>>}
      BY <2>2, <2>5, <3>1
    <3>3. QED BY <2>1, <2>2, <2>5, <3>2 DEF Alone
  <2>6. QED BY <2>4, <2>5
<1>19. Staged'
  <2>1. Fits(f, result)
    <3> SUFFICES ASSUME Mentions(f, Outer) PROVE Fits(f, result)
      BY DEF Fits
    <3>1. l = Outer /\ 1 \in DOMAIN waiting[t] /\ waiting[t][1] = k
      BY <1>2, <1>4, <1>6, Typed, LoopNumbers DEF w
    <3>2. k = Iteration(Outer) /\ AllUnstarted
      BY <1>2, <3>1 DEF Placed, Staged, l
    <3>3. QED BY <1>6, <3>2 DEF Fits, AllUnstarted
  <2>2. ASSUME NEW u \in Threads, NEW i \in DOMAIN stack'[u] PROVE Fits(stack'[u][i], result)
    <3>1. CASE u # t
      BY <1>2, <1>10, <2>2, <3>1 DEF Placed, Staged
    <3>2. CASE u = t
      <4>1. /\ stack'[t] \in Seq(FrameSet) /\ Len(stack'[t]) = Len(stack[t]) + 1 /\ stack'[t][Len(stack[t]) + 1] = f
            /\ \A j \in 1 .. Len(stack[t]) : stack'[t][j] = stack[t][j]
            /\ DOMAIN stack[t] = 1 .. Len(stack[t]) /\ Len(stack[t]) \in Nat
        BY <1>2, <1>6, <1>10, PositionsAppended, Typed
      <4>2. DOMAIN stack'[t] = 1 .. Len(stack[t]) + 1
        BY <4>1, LenProperties
      <4>3. i \in 1 .. Len(stack[t]) \/ i = Len(stack[t]) + 1
        BY <2>2, <3>2, <4>1, <4>2
      <4>4. QED BY <1>2, <2>1, <3>2, <4>1, <4>3 DEF Placed, Staged
    <3>3. QED BY <3>1, <3>2
  <2>3. ASSUME NEW u \in Threads, NEW i \in DOMAIN waiting'[u], waiting'[u][i].loop = Outer
        PROVE  waiting'[u][i] = Iteration(Outer) /\ AllUnstarted
    <3>1. \E j \in DOMAIN waiting[u] : waiting'[u][i] = waiting[u][j]
      <4>1. CASE u # t
        BY <1>7, <2>3, <4>1
      <4>2. CASE u = t
        <5>1. DOMAIN v = 1 .. Len(w) - 1 /\ DOMAIN w = 1 .. Len(w)
          BY <1>2, <1>4, LenProperties, Typed DEF w
        <5>2. i \in 1 .. Len(w) - 1 /\ i + 1 \in 1 .. Len(w)
          BY <1>4, <2>3, <4>2, <5>1 DEF v
        <5>3. v[i] = w[i + 1]
          BY <1>4, <5>2
        <5>4. QED BY <4>2, <5>1, <5>2, <5>3 DEF v, w
      <4>3. QED BY <4>1, <4>2
    <3>2. QED BY <1>2, <2>3, <3>1 DEF Placed, Staged
  <2>4. QED BY <1>1, <2>2, <2>3 DEF Staged, AllUnstarted
<1>20. Placed'
  BY <1>1, <1>2, <1>18, <1>19, PlacedKept
<1>21. QED BY <1>12, <1>17, <1>20 DEF IInv

(* A request to stop changes nothing else, and neither does resting. *)
LEMMA StopKeeps ==
    ASSUME IInv, RequestStop \/ UNCHANGED vars
    PROVE  IInv'
<1>1. /\ kind' = kind /\ result' = result /\ pending' = pending /\ stop' \in BOOLEAN /\ stack' = stack
      /\ trampoline' = trampoline /\ next' = next /\ waiting' = waiting
  BY DEF RequestStop, queue, vars, IInv, TypeOK
<1>2. TypeOK'
  BY <1>1 DEF IInv, TypeOK
<1>3. \A l : Places(l)' = Places(l)
  BY <1>1 DEF Places
<1>4. Placed'
  BY <1>1, <1>3 DEF IInv, Placed, InnerPlaced, OuterPlaced, Staged, AllUnstarted, NoneUnstarted, SomeRuns, Alone
<1>5. ASSUME NEW t \in Threads PROVE NestedIn(t)' /\ Linked(t)' /\ BasedIn(t)'
  <2>1. NestedIn(t) /\ Linked(t) /\ BasedIn(t)
    BY QueueParts DEF IInv, Based, BasedIn
  <2>2. QED BY <1>1, <2>1 DEF NestedIn, Linked, BasedIn
<1>6. NestsAndQueues' /\ Based'
  BY <1>5, QueuePartsNext DEF Based, BasedIn
<1>7. QED BY <1>2, <1>4, <1>6 DEF IInv

-----------------------------------------------------------------------------
(* Nothing runs at first. *)
LEMMA Beginning == Init => IInv
<1> SUFFICES ASSUME Init PROVE IInv
  OBVIOUS
<1>1. /\ kind \in Mixes /\ result = [l \in Loops |-> "unstarted"] /\ pending = {} /\ stop = FALSE
      /\ stack = [t \in Threads |-> << >>] /\ trampoline = [t \in Threads |-> None]
      /\ next = [k \in Tasks |-> None] /\ waiting = [t \in Threads |-> << >>]
  BY DEF Init
<1>2. TypeOK
  <2>1. kind \in [Loops -> Kinds]
    BY <1>1, LoopsAssumption
  <2>2. << >> \in Seq(FrameSet) /\ << >> \in Seq(Tasks)
    OBVIOUS
  <2>3. stack \in [Threads -> Seq(FrameSet)] /\ waiting \in [Threads -> Seq(Tasks)]
    BY <1>1, <2>2
  <2>4. QED BY <1>1, <2>1, <2>3 DEF TypeOK, Links
<1>3. \A t \in Threads : DOMAIN stack[t] = {} /\ DOMAIN waiting[t] = {} /\ \A F : Positions(stack[t], F) = {}
  BY <1>1 DEF Positions
<1>4. \A l \in Loops : Places(l) = {} /\ result[l] = "unstarted"
  <2> SUFFICES ASSUME NEW l \in Loops PROVE Places(l) = {}
    BY <1>1
  <2>1. Places(l) = PlacesIn(stack, waiting, pending, l)
    BY <1>2, PlacesAre
  <2>2. \A t \in Threads : Positions(stack[t], FramesOf(l)) = {} /\ Positions(waiting[t], TasksOf(l)) = {}
    BY <1>1 DEF Positions
  <2>3. \A x : x \notin PlacesIn(stack, waiting, pending, l)
    BY <1>1, <2>2, PlacesElements
  <2>4. QED BY <2>1, <2>3
<1>5. Placed
  BY <1>3, <1>4, LoopNumbers DEF Placed, InnerPlaced, OuterPlaced, Staged, AllUnstarted, SomeRuns
<1>6. Based
  BY <1>1 DEF Based
<1>7. NestsAndQueues
  BY <1>1, <1>3, QueueParts DEF NestedIn, Linked
<1>8. QED BY <1>2, <1>5, <1>6, <1>7 DEF IInv

(* Every step keeps the invariant. *)
LEMMA Step == IInv /\ [Next]_vars => IInv'
<1> SUFFICES ASSUME IInv, [Next]_vars PROVE IInv'
  OBVIOUS
<1>1. ASSUME NEW t \in Threads, Start(t) PROVE IInv'
  BY <1>1, StartKeeps
<1>2. ASSUME NEW t \in Threads, ThreadStep(t) PROVE IInv'
  <2>1. CASE NestedReturns(t)
    BY <2>1, NestedReturnsKeeps
  <2>2. CASE RunQueued(t)
    BY <2>2, RunQueuedKeeps
  <2>3. CASE RunReturns(t)
    BY <2>3, RunReturnsKeeps
  <2>4. CASE Iterate(t)
    BY <2>4, IterateKeeps
  <2>5. CASE ScheduleRuns(t)
    BY <2>5, ScheduleRunsKeeps
  <2>6. CASE StartInner(t)
    BY <2>6, StartInnerKeeps
  <2>7. CASE StartChild(t)
    BY <2>7, StartChildKeeps
  <2>8. CASE IterationDone(t)
    BY <2>8, IterationDoneKeeps
  <2>9. QED BY <1>2, <2>1, <2>2, <2>3, <2>4, <2>5, <2>6, <2>7, <2>8 DEF ThreadStep
<1>3. ASSUME NEW t \in Threads, NEW l \in Inner, ChildCompletes(t, l) PROVE IInv'
  BY <1>3, ChildCompletesKeeps
<1>4. CASE RequestStop
  BY <1>4, StopKeeps
<1>5. CASE Rest
  BY <1>5, StopKeeps DEF Rest
<1>6. CASE UNCHANGED vars
  BY <1>6, StopKeeps
<1>7. QED BY <1>1, <1>2, <1>3, <1>4, <1>5, <1>6 DEF Next

(* Being in one place, counted. *)
LEMMA Counted ==
    ASSUME IInv
    PROVE  OneIterationAtATime
<1>1. Placed
  BY DEF IInv
<1>2. \A S : Alone(S) => Cardinality(S) = 1
  <2> SUFFICES ASSUME NEW S, Alone(S) PROVE Cardinality(S) = 1
    OBVIOUS
  <2>1. PICK x : S = {} \cup {x}
    BY DEF Alone
  <2>2. QED BY <2>1, FS_EmptySet, FS_AddElement
<1>3. Cardinality({}) = 0
  BY FS_EmptySet
<1>4. \A l \in Inner : Cardinality(Places(l)) = IF result[l] = "running" THEN 1 ELSE 0
  BY <1>1, <1>2, <1>3 DEF Placed, InnerPlaced
<1>5. \A l \in Inner : result[l] = "running" => result[Outer] = "running"
  BY <1>1 DEF Placed, OuterPlaced, SomeRuns
<1>6. IF result[Outer] = "running"
         THEN \/ Cardinality(Places(Outer)) = 1
              \/ Places(Outer) = {} /\ \E l \in Inner : result[l] = "running"
         ELSE Places(Outer) = {}
  BY <1>1, <1>2 DEF Placed, OuterPlaced, SomeRuns
<1>7. QED BY <1>4, <1>5, <1>6 DEF OneIterationAtATime

-----------------------------------------------------------------------------
(* The frames, the tasks and the trampolines always have their types: what *)
(* is on a thread's stack, and what its trampoline's head and tail link.   *)
THEOREM TypeCorrect == Spec => []TypeOK
<1>1. IInv => TypeOK
  BY DEF IInv
<1>2. QED BY Beginning, Step, <1>1, PTL DEF Spec

(* A running loop is always in one place, about to start, queued, with its *)
(* child or at the child's completion, and a loop that has completed or    *)
(* was replaced is in none, so that the owner of its operation state may   *)
(* destroy it, for any number of loops and threads.                        *)
THEOREM IterationsAlone == Spec => []OneIterationAtATime
BY Beginning, Step, Counted, PTL DEF Spec

(* The depth that a trampoline counts is always that of the runs on its    *)
(* thread's stack, within max_depth, and its list is always what was       *)
(* handed over and has not run, in order, for any number of tasks.         *)
THEOREM TrampolinesSound == Spec => []NestsAndQueues
<1>1. IInv => NestsAndQueues
  BY DEF IInv
<1>2. QED BY Beginning, Step, <1>1, PTL DEF Spec
=============================================================================
