--------------------------- MODULE Coroutine_proofs ---------------------------
(***************************************************************************)
(* Proofs about Coroutine: a coroutine goes on at one place at a time, and *)
(* nothing is left to go on when the first Task's receiver is completed,   *)
(* for every number of threads, Tasks and awaited operations, if a start() *)
(* completes no operation that its coroutine awaits later.                 *)
(***************************************************************************)
EXTENDS Coroutine, SequenceTheorems, TLAPS

FrameSet == [kind : {"body", "start", "callback"}, co : Nat, n : Nat, outer : Nat, mark : Nat]

TypeOK ==
    /\ stack \in [Threads -> Seq(FrameSet)]
    /\ current_start \in [Threads -> Nat]
    /\ awaiting \in [Coroutines -> 0 .. Awaits]
    /\ op \in [Coroutines -> {"none", "task", "schedule", "sender"}]
    /\ outcome \in [Coroutines -> {"none"} \cup Outcomes]
    /\ result \in [Coroutines -> {"unstarted", "running"} \cup Outcomes]
    /\ stop \in BOOLEAN /\ asked \in BOOLEAN
    /\ callback \in {"none", "armed", "gone"}
    /\ destroyer \in Threads \cup {None}

(* The place of a start() frame, or 0. *)
StartAt(s, i) == IF i \in DOMAIN s /\ s[i].kind = "start" THEN i ELSE 0

(* The frame of the innermost start() that nothing was started in. *)
Innermost(s) == IF StartAt(s, Len(s)) # 0 THEN Len(s) ELSE StartAt(s, Len(s) - 1)

(* What may be where on a stack, and what a start() frame says.  a is how  *)
(* many operations each coroutine has awaited.                             *)
IsCallback(s, i) == s[i] = Callback /\ i = 1
IsBody(s, i) == \E c \in Coroutines : s[i] = Body(c) /\ (i # 1 => s[i - 1].kind # "body")
IsStart(s, i, a) ==
    /\ s[i].kind = "start" /\ s[i].co \in Coroutines
    /\ i # 1 /\ s[i - 1] = Body(s[i].co)
    /\ s[i].n \in 1 .. a[s[i].co]
    /\ s[i].mark \in {0, s[i].n}
    /\ s[i].outer = StartAt(s, i - 2)

Nested(s, a) == \A i \in DOMAIN s : IsCallback(s, i) \/ IsBody(s, i) \/ IsStart(s, i, a)

WellNested ==
    \A t \in Threads : Nested(stack[t], awaiting) /\ current_start[t] = Innermost(stack[t])

(* Where a coroutine goes on: at one place, or nowhere. *)
Alone(c) ==
    \E t \in Threads : \E i \in Going(t, c) : \A u \in Threads : \A j \in Going(u, c) : u = t /\ j = i
Nowhere(c) == \A t \in Threads : Going(t, c) = {}

Places ==
    \A c \in Coroutines :
        /\ result[c] = "running" /\ op[c] = "none" => Alone(c)
        /\ result[c] # "running" \/ op[c] # "none" => Nowhere(c)

(* Each Task that runs is awaited by the one before it. *)
Awaited ==
    \A c \in Coroutines :
        /\ op[c] # "none" => result[c] = "running"
        /\ op[c] = "task" => awaiting[c] = 1
        /\ result[c] = "running" => \A d \in Coroutines : d < c => result[d] = "running" /\ op[d] = "task"

Forwards(s) == \E i \in DOMAIN s : s[i].kind = "callback"

Owned ==
    /\ \A t \in Threads : Forwards(stack[t]) => callback # "none"
    /\ destroyer # None =>
          /\ result[Root] \in Outcomes /\ callback # "armed"
          /\ \A t \in Threads \ {destroyer} : ~Forwards(stack[t])

IInv == TypeOK /\ WellNested /\ Places /\ Awaited /\ Owned

-----------------------------------------------------------------------------
(* The frames. *)
LEMMA Kinds ==
    /\ \A c : Body(c).kind = "body" /\ Body(c).co = c /\ Body(c).mark = 0
    /\ Callback.kind = "callback" /\ Callback.mark = 0 /\ Callback \in FrameSet
    /\ \A c \in Nat : Body(c) \in FrameSet
BY DEF Body, Callback, Frame, FrameSet

(* A coroutine has one body. *)
LEMMA OneBody ==
    ASSUME NEW c, NEW d
    PROVE  Body(c) = Body(d) <=> d = c
<1>1. Body(c).co = c
  BY Kinds
<1>2. Body(d).co = d
  BY Kinds
<1>3. QED BY <1>1, <1>2

(* The frame of a start(). *)
LEMMA StartFrame ==
    ASSUME NEW c \in Nat, NEW n \in Nat, NEW o \in Nat
    PROVE  LET f == Frame("start", c, n, o)
           IN  f \in FrameSet /\ f.kind = "start" /\ f.co = c /\ f.n = n /\ f.outer = o /\ f.mark = 0
BY DEF Frame, FrameSet

(* The numbers of the coroutines. *)
LEMMA Numbers ==
    /\ Coroutines \subseteq Nat /\ Root \in Coroutines
    /\ \A c \in Coroutines : c # Root => c - 1 \in Coroutines
    /\ \A c \in Coroutines : ~(c < Root)
BY CoroutineAssumption DEF Coroutines, Root

(* A stack as a function. *)
LEMMA Stacks ==
    ASSUME NEW s \in Seq(FrameSet)
    PROVE  /\ Len(s) \in Nat /\ DOMAIN s = 1 .. Len(s) /\ (s = << >> <=> Len(s) = 0)
           /\ \A i \in 1 .. Len(s) : s[i] \in FrameSet /\ s[i].kind \in {"body", "start", "callback"}
                                    /\ s[i].mark \in Nat /\ s[i].co \in Nat
<1>1. Len(s) \in Nat /\ DOMAIN s = 1 .. Len(s) /\ \A i \in 1 .. Len(s) : s[i] \in FrameSet
  BY LenProperties, ElementOfSeq
<1>2. s = << >> <=> Len(s) = 0
  BY EmptySeq
<1>3. \A f \in FrameSet : f.kind \in {"body", "start", "callback"} /\ f.mark \in Nat /\ f.co \in Nat
  BY DEF FrameSet
<1>4. QED BY <1>1, <1>2, <1>3

(* What a frame is, by its kind. *)
LEMMA ByKind ==
    ASSUME NEW s \in Seq(FrameSet), NEW a, Nested(s, a), NEW i \in 1 .. Len(s)
    PROVE  /\ s[i].kind = "body" => IsBody(s, i) /\ s[i].co \in Coroutines /\ s[i] = Body(s[i].co) /\ s[i].mark = 0
           /\ s[i].kind = "start" => IsStart(s, i, a)
           /\ s[i].kind = "callback" => IsCallback(s, i) /\ s[i].mark = 0
<1>1. IsCallback(s, i) \/ IsBody(s, i) \/ IsStart(s, i, a)
  BY Stacks DEF Nested
<1>2. CASE IsCallback(s, i)
  BY <1>2, Kinds DEF IsCallback
<1>3. CASE IsBody(s, i)
  BY <1>3, Kinds DEF IsBody
<1>4. CASE IsStart(s, i, a)
  BY <1>4 DEF IsStart
<1>5. QED BY <1>1, <1>2, <1>3, <1>4

(* Where a stack goes on with a coroutine's body. *)
GoingOn(s, c) ==
    {i \in DOMAIN s : s[i] = Body(c) /\ (i = Len(s) \/ s[i + 1].mark # 0)}

(* What is on a stack depends on the frames below it only. *)
LEMMA FramesBelow ==
    ASSUME NEW s \in Seq(FrameSet), NEW r \in Seq(FrameSet), NEW a, NEW b,
           NEW k \in Nat, k <= Len(s), k <= Len(r), \A i \in 1 .. k : r[i] = s[i],
           Nested(s, a), \A c \in Coroutines : a[c] \in Nat /\ b[c] \in Nat /\ a[c] <= b[c]
    PROVE  /\ \A i \in 1 .. k : IsCallback(r, i) \/ IsBody(r, i) \/ IsStart(r, i, b)
           /\ \A i \in Int : i <= k => StartAt(r, i) = StartAt(s, i)
<1>1. Len(s) \in Nat /\ Len(r) \in Nat /\ DOMAIN s = 1 .. Len(s) /\ DOMAIN r = 1 .. Len(r)
  BY Stacks
<1>2. ASSUME NEW i \in Int, i <= k PROVE StartAt(r, i) = StartAt(s, i)
  <2>1. (i \in 1 .. Len(s) <=> i \in 1 .. k) /\ (i \in 1 .. Len(r) <=> i \in 1 .. k)
    BY <1>1, <1>2
  <2>2. QED BY <1>1, <2>1 DEF StartAt
<1>3. ASSUME NEW i \in 1 .. k PROVE IsCallback(r, i) \/ IsBody(r, i) \/ IsStart(r, i, b)
  <2>1. i \in DOMAIN s /\ r[i] = s[i] /\ (i # 1 => i - 1 \in 1 .. k /\ r[i - 1] = s[i - 1])
    BY <1>1
  <2>2. IsCallback(s, i) \/ IsBody(s, i) \/ IsStart(s, i, a)
    BY <2>1 DEF Nested
  <2>3. CASE IsCallback(s, i)
    BY <2>1, <2>3 DEF IsCallback
  <2>4. CASE IsBody(s, i)
    BY <2>1, <2>4 DEF IsBody
  <2>5. CASE IsStart(s, i, a)
    <3>1. i - 2 \in Int /\ i - 2 <= k
      OBVIOUS
    <3>2. StartAt(r, i - 2) = StartAt(s, i - 2)
      BY <1>2, <3>1
    <3>3. \A n \in 1 .. a[s[i].co] : n \in 1 .. b[s[i].co]
      BY <2>5 DEF IsStart
    <3>4. QED BY <2>1, <2>5, <3>2, <3>3 DEF IsStart
  <2>6. QED BY <2>2, <2>3, <2>4, <2>5
<1>4. QED BY <1>2, <1>3

(* Nothing is started below the frame of a callback. *)
LEMMA InnermostOnTop ==
    ASSUME NEW s \in Seq(FrameSet), NEW a, Nested(s, a), Len(s) # 0 => s[Len(s)].kind # "body"
    PROVE  Innermost(s) = StartAt(s, Len(s))
<1>1. Len(s) \in Nat /\ DOMAIN s = 1 .. Len(s)
  BY Stacks
<1>2. CASE StartAt(s, Len(s)) # 0
  BY <1>2 DEF Innermost, StartAt
<1>3. CASE StartAt(s, Len(s)) = 0
  <2>1. Len(s) = 0 \/ (Len(s) \in 1 .. Len(s) /\ s[Len(s)].kind = "callback")
    BY <1>1, <1>3, Stacks DEF StartAt
  <2>2. Len(s) \in {0, 1}
    BY <1>1, <2>1, ByKind DEF IsCallback
  <2>3. Len(s) - 1 \notin 1 .. Len(s)
    BY <1>1, <2>2
  <2>4. QED BY <1>1, <1>3, <2>3 DEF Innermost, StartAt
<1>4. QED BY <1>2, <1>3

(* A body is resumed on top of a stack. *)
LEMMA PushedBody ==
    ASSUME NEW s \in Seq(FrameSet), NEW a \in [Coroutines -> Nat], Nested(s, a), NEW c \in Coroutines,
           Len(s) # 0 => s[Len(s)].kind # "body"
    PROVE  LET r == Append(s, Body(c))
           IN  /\ r \in Seq(FrameSet) /\ Nested(r, a)
               /\ Innermost(r) = Innermost(s)
               /\ Forwards(r) <=> Forwards(s)
               /\ \A d : GoingOn(r, d) = GoingOn(s, d) \cup (IF d = c THEN {Len(s) + 1} ELSE {})
<1> DEFINE r == Append(s, Body(c))
           k == Len(s)
<1>1. Body(c) \in FrameSet
  BY Kinds, Numbers
<1>2. /\ r \in Seq(FrameSet) /\ Len(r) = k + 1 /\ r[k + 1] = Body(c)
      /\ \A i \in 1 .. k : r[i] = s[i]
  BY <1>1, AppendProperties
<1>3. k \in Nat /\ DOMAIN s = 1 .. k /\ DOMAIN r = 1 .. k + 1
  BY <1>2, Stacks
<1>4. k # 0 => s[k].kind # "body"
  OBVIOUS
<1> HIDE DEF r, k
<1>5. k = Len(s)
  BY DEF k
<1>6. /\ \A i \in 1 .. k : IsCallback(r, i) \/ IsBody(r, i) \/ IsStart(r, i, a)
      /\ \A i \in Int : i <= k => StartAt(r, i) = StartAt(s, i)
  BY SMTT(30), <1>2, <1>3, <1>5, FramesBelow
<1>7. IsBody(r, k + 1)
  BY <1>2, <1>3, <1>4 DEF IsBody
<1>8. Nested(r, a)
  BY <1>3, <1>6, <1>7 DEF Nested
<1>9. Innermost(r) = Innermost(s)
  <2>1. StartAt(r, k + 1) = 0
    BY <1>2, Kinds DEF StartAt
  <2>2. StartAt(r, k) = StartAt(s, k) /\ (k + 1) - 1 = k
    BY <1>3, <1>6
  <2>3. QED BY <1>2, <1>4, <1>5, <2>1, <2>2, InnermostOnTop DEF Innermost
<1>10. Forwards(r) <=> Forwards(s)
  <2>1. r[k + 1].kind # "callback"
    BY <1>2, Kinds
  <2>2. \A i \in 1 .. k + 1 : i # k + 1 => i \in 1 .. k
    BY <1>3
  <2>3. \A i \in 1 .. k : i \in 1 .. k + 1
    BY <1>3
  <2>4. QED BY <1>2, <1>3, <2>1, <2>2, <2>3 DEF Forwards
<1>11. ASSUME NEW d PROVE GoingOn(r, d) = GoingOn(s, d) \cup (IF d = c THEN {k + 1} ELSE {})
  <2>1. ASSUME NEW i \in 1 .. k PROVE i \in GoingOn(r, d) <=> i \in GoingOn(s, d)
    <3>1. CASE i = k
      <4>1. s[k] # Body(d) /\ r[k] # Body(d)
        BY <1>2, <1>4, <3>1, Kinds
      <4>2. QED BY <3>1, <4>1 DEF GoingOn
    <3>2. CASE i # k
      <4>1. i + 1 \in 1 .. k /\ i # k + 1 /\ i \in DOMAIN r /\ i \in DOMAIN s
        BY <1>3, <3>2
      <4>2. r[i + 1] = s[i + 1] /\ r[i] = s[i]
        BY <1>2, <4>1
      <4>3. QED BY <1>2, <1>5, <3>2, <4>1, <4>2 DEF GoingOn
    <3>3. QED BY <3>1, <3>2
  <2>2. k + 1 \in GoingOn(r, d) <=> d = c
    <3>1. Body(c) = Body(d) <=> d = c
      BY OneBody
    <3>2. QED BY <1>2, <1>3, <3>1 DEF GoingOn
  <2>3. GoingOn(r, d) \subseteq 1 .. k + 1 /\ GoingOn(s, d) \subseteq 1 .. k
    BY <1>3 DEF GoingOn
  <2>4. QED BY <1>3, <2>1, <2>2, <2>3
<1>12. QED BY <1>2, <1>8, <1>9, <1>10, <1>11 DEF r, k

(* A body starts what it awaits. *)
LEMMA PushedStart ==
    ASSUME NEW s \in Seq(FrameSet), NEW a \in [Coroutines -> Nat], Nested(s, a), NEW c \in Coroutines,
           Len(s) # 0, s[Len(s)].kind = "body", s[Len(s)].co = c,
           NEW b \in [Coroutines -> Nat], b[c] = a[c] + 1, \A d \in Coroutines : a[d] <= b[d]
    PROVE  LET r == Append(s, Frame("start", c, a[c] + 1, Innermost(s)))
           IN  /\ r \in Seq(FrameSet) /\ Len(r) = Len(s) + 1 /\ Nested(r, b) /\ r[Len(r)].kind = "start"
               /\ Innermost(r) = Len(r)
               /\ Forwards(r) <=> Forwards(s)
               /\ \A d : GoingOn(r, d) = GoingOn(s, d) \ (IF d = c THEN {Len(s)} ELSE {})
<1> DEFINE f == Frame("start", c, a[c] + 1, Innermost(s))
           r == Append(s, f)
           k == Len(s)
<1>1. k \in Nat /\ DOMAIN s = 1 .. k /\ k # 0
  BY Stacks
<1>2. s[k] = Body(c) /\ k \in 1 .. k
  BY <1>1, ByKind
<1>3. Innermost(s) = StartAt(s, k - 1) /\ Innermost(s) \in Nat
  BY <1>1, <1>2, Kinds DEF Innermost, StartAt
<1>4. a[c] + 1 \in Nat /\ a[c] + 1 \in 1 .. b[c] /\ c \in Nat
  BY Numbers
<1>5. /\ f.kind = "start" /\ f.co = c /\ f.n = a[c] + 1 /\ f.outer = StartAt(s, k - 1) /\ f.mark = 0
      /\ f \in FrameSet
  <2>1. c \in Nat /\ a[c] + 1 \in Nat /\ Innermost(s) \in Nat
    BY <1>3, <1>4
  <2>2. /\ f.kind = "start" /\ f.co = c /\ f.n = a[c] + 1 /\ f.outer = Innermost(s) /\ f.mark = 0
        /\ f \in FrameSet
    BY SMTT(30), <2>1, StartFrame
  <2>3. QED BY <1>3, <2>2
<1> HIDE DEF f
<1>6. /\ r \in Seq(FrameSet) /\ Len(r) = k + 1 /\ r[k + 1] = f
      /\ \A i \in 1 .. k : r[i] = s[i]
  BY <1>5, AppendProperties
<1> HIDE DEF r, k
<1>7. k = Len(s) /\ DOMAIN r = 1 .. k + 1
  BY <1>6, Stacks DEF k
<1>8. /\ \A i \in 1 .. k : IsCallback(r, i) \/ IsBody(r, i) \/ IsStart(r, i, b)
      /\ \A i \in Int : i <= k => StartAt(r, i) = StartAt(s, i)
  <2>1. \A d \in Coroutines : a[d] \in Nat /\ b[d] \in Nat /\ a[d] <= b[d]
    OBVIOUS
  <2>2. k <= Len(s) /\ k <= Len(r)
    BY <1>1, <1>6, <1>7
  <2>3. QED BY ZenonT(60), <1>1, <1>6, <2>1, <2>2, FramesBelow
<1>9. IsStart(r, k + 1, b)
  <2>1. k + 1 # 1 /\ (k + 1) - 1 = k /\ (k + 1) - 2 = k - 1 /\ k - 1 \in Int /\ k - 1 <= k
    BY <1>1
  <2>2. StartAt(r, k - 1) = StartAt(s, k - 1)
    BY <1>8, <2>1
  <2>3. QED BY <1>2, <1>4, <1>5, <1>6, <2>1, <2>2 DEF IsStart
<1>10. Nested(r, b)
  BY <1>1, <1>7, <1>8, <1>9 DEF Nested
<1>11. Innermost(r) = k + 1
  BY <1>1, <1>5, <1>6, <1>7 DEF Innermost, StartAt
<1>12. Forwards(r) <=> Forwards(s)
  <2>1. r[k + 1].kind # "callback"
    BY <1>5, <1>6
  <2>2. \A i \in 1 .. k + 1 : i # k + 1 => i \in 1 .. k
    BY <1>1
  <2>3. \A i \in 1 .. k : i \in 1 .. k + 1
    BY <1>1
  <2>4. QED BY <1>1, <1>6, <1>7, <2>1, <2>2, <2>3 DEF Forwards
<1>13. ASSUME NEW d PROVE GoingOn(r, d) = GoingOn(s, d) \ (IF d = c THEN {k} ELSE {})
  <2>1. ASSUME NEW i \in 1 .. k, i # k PROVE i \in GoingOn(r, d) <=> i \in GoingOn(s, d)
    <3>1. i + 1 \in 1 .. k /\ i # k + 1 /\ i \in 1 .. k + 1
      BY <1>1, <2>1
    <3>2. r[i + 1] = s[i + 1] /\ r[i] = s[i]
      BY <1>6, <3>1
    <3>3. QED BY <1>1, <1>6, <1>7, <2>1, <3>1, <3>2 DEF GoingOn
  <2>2. k + 1 \notin GoingOn(r, d) /\ k \notin GoingOn(r, d)
    <3>1. r[k + 1] # Body(d) /\ k # k + 1
      BY <1>1, <1>5, <1>6, Kinds
    <3>2. QED BY <1>5, <1>6, <3>1 DEF GoingOn
  <2>3. k \in GoingOn(s, d) <=> d = c
    <3>1. Body(c) = Body(d) <=> d = c
      BY OneBody
    <3>2. QED BY <1>1, <1>2, <1>7, <3>1 DEF GoingOn
  <2>4. GoingOn(r, d) \subseteq 1 .. k + 1 /\ GoingOn(s, d) \subseteq 1 .. k
    BY <1>1, <1>7 DEF GoingOn
  <2>5. QED BY <1>1, <2>1, <2>2, <2>3, <2>4
<1>14. QED BY <1>5, <1>6, <1>10, <1>11, <1>12, <1>13 DEF r, k, f

(* A start() is told that what it started completed. *)
LEMMA Marked ==
    ASSUME NEW s \in Seq(FrameSet), NEW a \in [Coroutines -> Nat], Nested(s, a),
           NEW c \in Coroutines, Len(s) # 0, s[Len(s)].kind = "start", s[Len(s)].co = c, s[Len(s)].n = a[c],
           NEW r \in Seq(FrameSet), Len(r) = Len(s), r[Len(s)] = [s[Len(s)] EXCEPT !.mark = a[c]],
           \A i \in 1 .. Len(s) : i # Len(s) => r[i] = s[i]
    PROVE  /\ Nested(r, a)
           /\ Innermost(r) = Innermost(s)
           /\ Forwards(r) <=> Forwards(s)
           /\ \A d : GoingOn(r, d) = GoingOn(s, d) \cup (IF d = c THEN {Len(s) - 1} ELSE {})
<1> DEFINE k == Len(s)
           f == [s[k] EXCEPT !.mark = a[c]]
<1>1. k \in Nat /\ DOMAIN s = 1 .. k /\ k # 0 /\ k \in 1 .. k /\ s[k] \in FrameSet
  BY Stacks
<1>2. IsStart(s, k, a)
  BY <1>1, ByKind
<1>3. k # 1 /\ s[k - 1] = Body(c) /\ a[c] # 0 /\ a[c] \in Nat /\ s[k].outer = StartAt(s, k - 2) /\ a[c] \in 1 .. a[c]
  BY <1>2 DEF IsStart
<1>4. f \in FrameSet /\ f.kind = "start" /\ f.co = c /\ f.n = a[c] /\ f.mark = a[c] /\ f.outer = s[k].outer
  BY <1>1, <1>3 DEF FrameSet
<1>6. /\ r \in Seq(FrameSet) /\ Len(r) = k /\ r[k] = f
      /\ \A i \in 1 .. k : i # k => r[i] = s[i]
  OBVIOUS
<1> HIDE DEF f
<1> HIDE DEF k
<1>7. k = Len(s) /\ DOMAIN r = 1 .. k
  BY <1>6, Stacks DEF k
<1>8. k - 1 \in Nat /\ k - 1 <= k /\ \A i \in 1 .. k - 1 : i \in 1 .. k /\ i # k /\ r[i] = s[i]
  BY <1>1, <1>6
<1>9. /\ \A i \in 1 .. k - 1 : IsCallback(r, i) \/ IsBody(r, i) \/ IsStart(r, i, a)
      /\ \A i \in Int : i <= k - 1 => StartAt(r, i) = StartAt(s, i)
  <2>1. \A d \in Coroutines : a[d] \in Nat /\ a[d] <= a[d]
    OBVIOUS
  <2> DEFINE h == k - 1
  <2>2. h \in Nat /\ h <= Len(s) /\ h <= Len(r) /\ \A i \in 1 .. h : r[i] = s[i]
    BY <1>6, <1>7, <1>8
  <2> HIDE DEF h
  <2>3. /\ \A i \in 1 .. h : IsCallback(r, i) \/ IsBody(r, i) \/ IsStart(r, i, a)
        /\ \A i \in Int : i <= h => StartAt(r, i) = StartAt(s, i)
    BY <2>1, <2>2, FramesBelow
  <2>4. QED BY <2>3 DEF h
<1>10. IsStart(r, k, a)
  <2>1. k - 1 \in 1 .. k - 1 /\ k - 2 \in Int /\ k - 2 <= k - 1
    BY <1>1, <1>3
  <2>2. StartAt(r, k - 2) = StartAt(s, k - 2) /\ r[k - 1] = s[k - 1]
    BY <1>8, <1>9, <2>1
  <2>3. QED BY <1>3, <1>4, <1>6, <2>2 DEF IsStart
<1>11. Nested(r, a)
  <2>1. \A i \in 1 .. k : i = k \/ i \in 1 .. k - 1
    BY <1>1
  <2>2. QED BY <1>7, <1>9, <1>10, <2>1 DEF Nested
<1>12. Innermost(r) = k /\ Innermost(s) = k
  BY <1>1, <1>4, <1>6, <1>7 DEF Innermost, StartAt
<1>13. Forwards(r) <=> Forwards(s)
  BY <1>1, <1>4, <1>6, <1>7 DEF Forwards
<1>14. ASSUME NEW d PROVE GoingOn(r, d) = GoingOn(s, d) \cup (IF d = c THEN {k - 1} ELSE {})
  <2>1. ASSUME NEW i \in 1 .. k, i # k, i # k - 1 PROVE i \in GoingOn(r, d) <=> i \in GoingOn(s, d)
    <3>1. i + 1 \in 1 .. k /\ i + 1 # k
      BY <1>1, <2>1
    <3>2. r[i + 1] = s[i + 1] /\ r[i] = s[i]
      BY <1>6, <2>1, <3>1
    <3>3. QED BY <1>1, <1>6, <1>7, <2>1, <3>2 DEF GoingOn
  <2>2. k \notin GoingOn(r, d) /\ k \notin GoingOn(s, d)
    <3>1. r[k] # Body(d) /\ s[k] # Body(d)
      BY <1>4, <1>6, <1>7, Kinds
    <3>2. QED BY <3>1 DEF GoingOn
  <2>3. k - 1 \in GoingOn(r, d) <=> d = c
    <3>1. Body(c) = Body(d) <=> d = c
      BY OneBody
    <3>2. k - 1 \in 1 .. k /\ k - 1 # k /\ (k - 1) + 1 = k /\ r[k - 1] = Body(c)
      BY <1>1, <1>3, <1>8
    <3>3. QED BY <1>3, <1>4, <1>6, <1>7, <3>1, <3>2 DEF GoingOn
  <2>4. k - 1 \in GoingOn(s, d) => d = c
    <3>1. Body(c) = Body(d) <=> d = c
      BY OneBody
    <3>2. QED BY <1>3, <3>1 DEF GoingOn
  <2>5. GoingOn(r, d) \subseteq 1 .. k /\ GoingOn(s, d) \subseteq 1 .. k
    BY <1>1, <1>7 DEF GoingOn
  <2>6. QED BY <1>1, <2>1, <2>2, <2>3, <2>4, <2>5
<1>15. QED BY <1>6, <1>8, <1>11, <1>12, <1>13, <1>14 DEF k

(* The front of a stack. *)
LEMMA StackFront ==
    ASSUME NEW s \in Seq(FrameSet), NEW a \in [Coroutines -> Nat], Nested(s, a), NEW k \in Nat, k <= Len(s)
    PROVE  LET r == SubSeq(s, 1, k)
           IN  /\ r \in Seq(FrameSet) /\ Len(r) = k /\ Nested(r, a)
               /\ \A i \in 1 .. k : r[i] = s[i]
               /\ \A i \in Int : i <= k => StartAt(r, i) = StartAt(s, i)
<1> DEFINE r == SubSeq(s, 1, k)
<1>1. Len(s) \in Nat /\ DOMAIN s = 1 .. Len(s) /\ \A i \in 1 .. Len(s) : s[i] \in FrameSet
  BY Stacks
<1>2. r \in Seq(FrameSet) /\ Len(r) = k /\ \A i \in 1 .. k : r[i] = s[i]
  BY <1>1, SubSeqProperties
<1> HIDE DEF r
<1>3. DOMAIN r = 1 .. k
  BY <1>2, Stacks
<1>4. /\ \A i \in 1 .. k : IsCallback(r, i) \/ IsBody(r, i) \/ IsStart(r, i, a)
      /\ \A i \in Int : i <= k => StartAt(r, i) = StartAt(s, i)
  <2>1. \A d \in Coroutines : a[d] \in Nat /\ a[d] <= a[d]
    OBVIOUS
  <2>2. k <= Len(s) /\ k <= Len(r)
    BY <1>2
  <2>3. QED BY <1>2, <2>1, <2>2, FramesBelow
<1>5. Nested(r, a)
  BY <1>3, <1>4 DEF Nested
<1>6. QED BY <1>2, <1>4, <1>5 DEF r

(* A body returns. *)
LEMMA PoppedBody ==
    ASSUME NEW s \in Seq(FrameSet), NEW a \in [Coroutines -> Nat], Nested(s, a), NEW c \in Coroutines,
           Len(s) # 0, s[Len(s)].kind = "body", s[Len(s)].co = c
    PROVE  LET r == Below(s, 1)
           IN  /\ r \in Seq(FrameSet) /\ Nested(r, a)
               /\ Len(r) = Len(s) - 1 /\ (Len(r) # 0 => r[Len(r)].kind # "body")
               /\ Innermost(r) = Innermost(s)
               /\ Forwards(r) <=> Forwards(s)
               /\ Len(s) \in GoingOn(s, c)
               /\ \A d : GoingOn(r, d) = GoingOn(s, d) \ (IF d = c THEN {Len(s)} ELSE {})
<1> DEFINE k == Len(s)
           r == Below(s, 1)
<1>1. k \in Nat /\ DOMAIN s = 1 .. k /\ k # 0 /\ k \in 1 .. k
  BY Stacks
<1>2. s[k] = Body(c) /\ IsBody(s, k)
  BY <1>1, ByKind
<1>3. k - 1 \in Nat /\ k - 1 <= Len(s) /\ r = SubSeq(s, 1, k - 1)
  BY <1>1 DEF Below
<1>4. /\ r \in Seq(FrameSet) /\ Len(r) = k - 1 /\ Nested(r, a)
      /\ \A i \in 1 .. k - 1 : r[i] = s[i]
      /\ \A i \in Int : i <= k - 1 => StartAt(r, i) = StartAt(s, i)
  <2> DEFINE h == k - 1
  <2>1. h \in Nat /\ h <= Len(s) /\ r = SubSeq(s, 1, h)
    BY <1>3
  <2> HIDE DEF h, r
  <2>2. /\ r \in Seq(FrameSet) /\ Len(r) = h /\ Nested(r, a)
        /\ \A i \in 1 .. h : r[i] = s[i]
        /\ \A i \in Int : i <= h => StartAt(r, i) = StartAt(s, i)
    BY <2>1, StackFront
  <2>3. QED BY <2>2 DEF h
<1> HIDE DEF r, k
<1>5. k = Len(s) /\ DOMAIN r = 1 .. k - 1
  BY <1>4, Stacks DEF k
<1>6. k - 1 # 0 => k - 1 \in 1 .. k - 1 /\ k # 1
  BY <1>1
<1>7. k - 1 # 0 => r[k - 1].kind # "body"
  BY <1>2, <1>4, <1>6, Kinds DEF IsBody
<1>8. Innermost(r) = Innermost(s)
  <2>1. Innermost(r) = StartAt(r, k - 1)
    BY <1>4, <1>7, InnermostOnTop
  <2>2. Innermost(s) = StartAt(s, k - 1)
    BY <1>2, <1>5, Kinds DEF Innermost, StartAt
  <2>3. k - 1 \in Int /\ k - 1 <= k - 1
    BY <1>1
  <2>4. QED BY <1>4, <2>1, <2>2, <2>3
<1>9. Forwards(r) <=> Forwards(s)
  <2>1. s[k].kind # "callback"
    BY <1>2, Kinds
  <2>2. \A i \in 1 .. k : i # k => i \in 1 .. k - 1
    BY <1>1
  <2>3. \A i \in 1 .. k - 1 : i \in 1 .. k
    BY <1>1
  <2>4. QED BY <1>1, <1>4, <1>5, <2>1, <2>2, <2>3 DEF Forwards
<1>10. k \in GoingOn(s, c)
  BY <1>1, <1>2, <1>5 DEF GoingOn
<1>11. ASSUME NEW d PROVE GoingOn(r, d) = GoingOn(s, d) \ (IF d = c THEN {k} ELSE {})
  <2>1. ASSUME NEW i \in 1 .. k - 1 PROVE i \in GoingOn(r, d) <=> i \in GoingOn(s, d)
    <3>1. CASE i = k - 1
      <4>1. r[i] # Body(d) /\ r[i] = s[i]
        BY <1>1, <1>4, <1>7, <3>1, Kinds
      <4>2. QED BY <4>1 DEF GoingOn
    <3>2. CASE i # k - 1
      <4>1. i + 1 \in 1 .. k - 1 /\ i \in 1 .. k /\ i # k
        BY <1>1, <3>2
      <4>2. r[i + 1] = s[i + 1] /\ r[i] = s[i]
        BY <1>4, <4>1
      <4>3. QED BY <1>1, <1>4, <1>5, <3>2, <4>1, <4>2 DEF GoingOn
    <3>3. QED BY <3>1, <3>2
  <2>2. k \in GoingOn(s, d) => d = c
    <3>1. Body(c) = Body(d) <=> d = c
      BY OneBody
    <3>2. QED BY <1>2, <3>1 DEF GoingOn
  <2>3. GoingOn(r, d) \subseteq 1 .. k - 1 /\ GoingOn(s, d) \subseteq 1 .. k
    BY <1>1, <1>5 DEF GoingOn
  <2>4. QED BY <1>1, <1>10, <2>1, <2>2, <2>3
<1>12. QED BY <1>4, <1>5, <1>7, <1>8, <1>9, <1>10, <1>11 DEF r, k

(* A start() returns, with the body below it unless that goes on. *)
LEMMA Returned ==
    ASSUME NEW s \in Seq(FrameSet), NEW a \in [Coroutines -> Nat], Nested(s, a),
           Len(s) # 0, s[Len(s)].kind = "start"
    PROVE  LET r == Below(s, Returning(s[Len(s)]))
           IN  /\ r \in Seq(FrameSet) /\ Nested(r, a)
               /\ Innermost(r) = s[Len(s)].outer
               /\ Forwards(r) <=> Forwards(s)
               /\ \A d : GoingOn(r, d) = GoingOn(s, d)
<1> DEFINE k == Len(s)
           h == k - Returning(s[k])
           r == Below(s, Returning(s[k]))
<1>1. k \in Nat /\ DOMAIN s = 1 .. k /\ k # 0 /\ k \in 1 .. k
  BY Stacks
<1>2. IsStart(s, k, a)
  BY <1>1, ByKind
<1>3. k # 1 /\ k - 1 \in 1 .. k /\ s[k - 1] = Body(s[k].co) /\ s[k].outer = StartAt(s, k - 2)
  BY <1>1, <1>2 DEF IsStart
<1>4. s[k - 1].kind = "body" /\ s[k].kind = "start"
  BY <1>3, Kinds
<1>5. IsBody(s, k - 1)
  BY <1>3, <1>4, ByKind
<1>6. /\ s[k].mark # 0 => h = k - 1
      /\ s[k].mark = 0 => h = k - 2
  BY <1>1 DEF Returning
<1>7. h \in Nat /\ h <= Len(s) /\ r = SubSeq(s, 1, h)
  BY <1>1, <1>3, <1>6 DEF Below
<1> HIDE DEF h, r, k
<1>8. /\ r \in Seq(FrameSet) /\ Len(r) = h /\ Nested(r, a)
      /\ \A i \in 1 .. h : r[i] = s[i]
      /\ \A i \in Int : i <= h => StartAt(r, i) = StartAt(s, i)
  BY <1>7, StackFront
<1>9. k = Len(s) /\ DOMAIN r = 1 .. h
  BY <1>8, Stacks DEF k
<1>10. Innermost(r) = s[k].outer
  <2>1. k - 2 \in Int /\ k - 2 <= h
    BY <1>1, <1>6
  <2>2. StartAt(r, k - 2) = StartAt(s, k - 2)
    BY <1>8, <2>1
  <2>3. CASE s[k].mark # 0
    <3>1. StartAt(r, h) = 0 /\ h - 1 = k - 2
      BY <1>1, <1>3, <1>4, <1>6, <1>8, <2>3 DEF StartAt
    <3>2. QED BY <1>3, <1>8, <2>2, <3>1 DEF Innermost
  <2>4. CASE s[k].mark = 0
    <3>1. h = k - 2 /\ (h # 0 => h \in 1 .. h /\ k - 1 # 1 /\ (k - 1) - 1 = h)
      BY <1>1, <1>6, <1>7, <2>4
    <3>2. h # 0 => r[h].kind # "body"
      BY <1>5, <1>8, <3>1 DEF IsBody
    <3>3. Innermost(r) = StartAt(r, h)
      BY <1>8, <3>2, InnermostOnTop
    <3>4. QED BY <1>3, <2>2, <3>1, <3>3
  <2>5. QED BY <2>3, <2>4
<1>11. Forwards(r) <=> Forwards(s)
  <2>1. \A i \in 1 .. k : i \notin 1 .. h => i = k \/ i = k - 1
    BY <1>1, <1>6
  <2>2. \A i \in 1 .. h : i \in 1 .. k
    BY <1>1, <1>7, <1>9
  <2>3. QED BY <1>1, <1>4, <1>8, <1>9, <2>1, <2>2 DEF Forwards
<1>12. ASSUME NEW d PROVE GoingOn(r, d) = GoingOn(s, d)
  <2>1. ASSUME NEW i \in 1 .. h, i # h PROVE i \in GoingOn(r, d) <=> i \in GoingOn(s, d)
    <3>1. h < k
      BY <1>1, <1>6
    <3>2. i + 1 \in 1 .. h /\ i \in 1 .. k /\ i # k
      BY <1>1, <1>7, <2>1, <3>1
    <3>3. r[i + 1] = s[i + 1] /\ r[i] = s[i]
      BY <1>8, <3>2
    <3>4. QED BY <1>1, <1>8, <1>9, <2>1, <3>2, <3>3 DEF GoingOn
  <2>2. k \notin GoingOn(s, d)
    <3>1. s[k] # Body(d)
      BY <1>4, Kinds
    <3>2. QED BY <3>1 DEF GoingOn
  <2>3. CASE s[k].mark # 0
    <3>1. h = k - 1 /\ h \in 1 .. h /\ h \in 1 .. k /\ h # k /\ h + 1 = k
      BY <1>1, <1>3, <1>6, <2>3
    <3>2. h \in GoingOn(r, d) <=> h \in GoingOn(s, d)
      BY <1>1, <1>8, <1>9, <2>3, <3>1 DEF GoingOn
    <3>3. GoingOn(r, d) \subseteq 1 .. h /\ GoingOn(s, d) \subseteq 1 .. k
      BY <1>1, <1>9 DEF GoingOn
    <3>4. \A i \in 1 .. k : i = k \/ i \in 1 .. h
      BY <1>1, <3>1
    <3>5. k \notin 1 .. h /\ \A i \in 1 .. h : i \in 1 .. k
      BY <1>1, <3>1
    <3>6. \A i \in 1 .. h : i \in GoingOn(r, d) <=> i \in GoingOn(s, d)
      BY <2>1, <3>2
    <3>7. \A i \in 1 .. k : i \in GoingOn(r, d) <=> i \in GoingOn(s, d)
      BY <2>2, <3>3, <3>4, <3>5, <3>6
    <3>8. QED BY <3>3, <3>5, <3>7
  <2>4. CASE s[k].mark = 0
    <3>1. h = k - 2 /\ k - 1 # k /\ (k - 1) + 1 = k /\ (h # 0 => h \in 1 .. h /\ k - 1 # 1 /\ (k - 1) - 1 = h)
      BY <1>1, <1>6, <1>7, <2>4
    <3>2. h # 0 => r[h].kind # "body" /\ r[h] = s[h]
      BY <1>5, <1>8, <3>1 DEF IsBody
    <3>3. h # 0 => h \notin GoingOn(r, d) /\ h \notin GoingOn(s, d)
      BY <3>2, Kinds DEF GoingOn
    <3>4. k - 1 \notin GoingOn(s, d)
      BY <1>9, <2>4, <3>1 DEF GoingOn
    <3>5. GoingOn(r, d) \subseteq 1 .. h /\ GoingOn(s, d) \subseteq 1 .. k
      BY <1>1, <1>9 DEF GoingOn
    <3>6. \A i \in 1 .. k : i = k \/ i = k - 1 \/ i \in 1 .. h
      BY <1>1, <3>1
    <3>7. /\ \A i \in 1 .. h : (i # h \/ h # 0) /\ i \in 1 .. k
          /\ k \notin 1 .. h /\ k - 1 \notin 1 .. h
      BY <1>1, <1>7, <3>1
    <3>8. \A i \in 1 .. h : i \in GoingOn(r, d) <=> i \in GoingOn(s, d)
      BY <2>1, <3>3, <3>7
    <3>9. \A i \in 1 .. k : i \in GoingOn(r, d) <=> i \in GoingOn(s, d)
      BY <2>2, <3>4, <3>5, <3>6, <3>7, <3>8
    <3>10. QED BY <3>5, <3>7, <3>9
  <2>5. QED BY <2>3, <2>4
<1>13. QED BY <1>8, <1>10, <1>11, <1>12 DEF r, k

(* The stop callback is all that its thread runs, but for what it resumes. *)
LEMMA CallbackReturned ==
    ASSUME NEW s \in Seq(FrameSet), NEW a, Nested(s, a), Len(s) # 0, s[Len(s)].kind = "callback"
    PROVE  Below(s, 1) = << >> /\ Innermost(s) = 0 /\ \A d : GoingOn(s, d) = {}
<1>1. Len(s) \in Nat /\ DOMAIN s = 1 .. Len(s) /\ Len(s) \in 1 .. Len(s)
  BY Stacks
<1>2. IsCallback(s, Len(s))
  BY <1>1, ByKind
<1>3. Len(s) = 1 /\ s[1] = Callback
  BY <1>2 DEF IsCallback
<1>4. Below(s, 1) = << >>
  BY <1>3, SubSeqEmpty DEF Below
<1>5. StartAt(s, 1) = 0 /\ StartAt(s, 0) = 0
  BY <1>1, <1>3, Kinds DEF StartAt
<1>6. Innermost(s) = 0
  BY <1>3, <1>5 DEF Innermost
<1>7. ASSUME NEW d PROVE GoingOn(s, d) = {}
  <2>1. Callback # Body(d)
    BY Kinds
  <2>2. DOMAIN s = {1}
    BY <1>1, <1>3
  <2>3. QED BY <1>3, <2>1, <2>2 DEF GoingOn
<1>8. QED BY <1>4, <1>6, <1>7

(* Nothing runs on an empty stack. *)
LEMMA EmptyStack ==
    /\ << >> \in Seq(FrameSet) /\ \A a : Nested(<< >>, a)
    /\ Innermost(<< >>) = 0 /\ ~Forwards(<< >>)
    /\ \A d : GoingOn(<< >>, d) = {}
<1>1. << >> \in Seq(FrameSet) /\ Len(<< >>) = 0 /\ DOMAIN << >> = {}
  OBVIOUS
<1>2. QED BY <1>1 DEF Nested, Innermost, StartAt, Forwards, GoingOn

(* complete: the innermost start() is told, or the body is resumed on top. *)
Complete(s, a, c) ==
    IF Innermost(s) # 0 /\ s[Innermost(s)].co = c
       THEN [s EXCEPT ![Innermost(s)].mark = a[c]] ELSE Append(s, Body(c))

(* The coroutine goes on, at one more place. *)
LEMMA Completed ==
    ASSUME NEW s \in Seq(FrameSet), NEW a \in [Coroutines -> Nat], Nested(s, a), NEW c \in Coroutines,
           Len(s) # 0 => s[Len(s)].kind # "body",
           Innermost(s) # 0 /\ s[Innermost(s)].co = c => s[Len(s)].n = a[c]
    PROVE  LET r == Complete(s, a, c)
           IN  /\ r \in Seq(FrameSet) /\ Nested(r, a)
               /\ Innermost(r) = Innermost(s)
               /\ Forwards(r) <=> Forwards(s)
               /\ \E k : \A d : GoingOn(r, d) = GoingOn(s, d) \cup (IF d = c THEN {k} ELSE {})
<1>1. Innermost(s) = StartAt(s, Len(s))
  BY InnermostOnTop
<1>2. CASE Innermost(s) # 0 /\ s[Innermost(s)].co = c
  <2>1. Innermost(s) = Len(s) /\ Len(s) # 0 /\ s[Len(s)].kind = "start" /\ s[Len(s)].co = c /\ s[Len(s)].n = a[c]
    BY <1>1, <1>2 DEF StartAt
  <2> DEFINE f == [s[Len(s)] EXCEPT !.mark = a[c]]
             r == [s EXCEPT ![Len(s)].mark = a[c]]
  <2>2. Len(s) \in 1 .. Len(s) /\ s[Len(s)] \in FrameSet /\ f \in FrameSet
    <3>1. Len(s) \in 1 .. Len(s) /\ s[Len(s)] \in FrameSet
      BY <2>1, Stacks
    <3>2. a[c] \in Nat
      OBVIOUS
    <3>3. QED BY <3>1, <3>2 DEF FrameSet
  <2>3. r = [s EXCEPT ![Len(s)] = f]
    OBVIOUS
  <2> HIDE DEF f
  <2>4. /\ r \in Seq(FrameSet) /\ Len(r) = Len(s) /\ r[Len(s)] = f
        /\ \A i \in 1 .. Len(s) : i # Len(s) => r[i] = s[i]
    BY <2>2, <2>3, ExceptSeq
  <2> HIDE DEF r
  <2>5. r[Len(s)] = [s[Len(s)] EXCEPT !.mark = a[c]]
    BY <2>4 DEF f
  <2>6. /\ Nested(r, a) /\ Innermost(r) = Innermost(s)
        /\ Forwards(r) <=> Forwards(s)
        /\ \A d : GoingOn(r, d) = GoingOn(s, d) \cup (IF d = c THEN {Len(s) - 1} ELSE {})
    BY SMTT(30), <2>1, <2>4, <2>5, Marked
  <2>7. \E k : \A d : GoingOn(r, d) = GoingOn(s, d) \cup (IF d = c THEN {k} ELSE {})
    BY <2>6
  <2>8. QED BY <1>2, <2>1, <2>4, <2>6, <2>7 DEF r, Complete
<1>3. CASE ~(Innermost(s) # 0 /\ s[Innermost(s)].co = c)
  <2> DEFINE r == Append(s, Body(c))
  <2>1. /\ r \in Seq(FrameSet) /\ Nested(r, a) /\ Innermost(r) = Innermost(s)
        /\ Forwards(r) <=> Forwards(s)
        /\ \A d : GoingOn(r, d) = GoingOn(s, d) \cup (IF d = c THEN {Len(s) + 1} ELSE {})
    BY PushedBody
  <2> HIDE DEF r
  <2>2. \E k : \A d : GoingOn(r, d) = GoingOn(s, d) \cup (IF d = c THEN {k} ELSE {})
    BY <2>1
  <2>3. QED BY <1>3, <2>1, <2>2 DEF r, Complete
<1>4. QED BY <1>2, <1>3

-----------------------------------------------------------------------------
(* A coroutine stops going on at the only place it does. *)
LEMMA PlaceLeft ==
    ASSUME NEW t \in Threads, NEW c, NEW k \in Going(t, c), Alone(c),
           \A u \in Threads \ {t} : Going(u, c)' = Going(u, c), Going(t, c)' = Going(t, c) \ {k}
    PROVE  Nowhere(c)'
<1>1. PICK v \in Threads : \E i \in Going(v, c) : \A u \in Threads : \A j \in Going(u, c) : u = v /\ j = i
  BY DEF Alone
<1>2. \A u \in Threads : \A j \in Going(u, c) : u = t /\ j = k
  BY <1>1
<1>3. ASSUME NEW u \in Threads PROVE Going(u, c)' = {}
  BY <1>2
<1>4. QED BY <1>3 DEF Nowhere

(* It goes on again at one place. *)
LEMMA PlaceTaken ==
    ASSUME NEW t \in Threads, NEW c, NEW k, Nowhere(c),
           \A u \in Threads \ {t} : Going(u, c)' = Going(u, c), Going(t, c)' = Going(t, c) \cup {k}
    PROVE  Alone(c)'
<1>1. \A u \in Threads : Going(u, c) = {}
  BY DEF Nowhere
<1>2. Going(t, c)' = {k} /\ \A u \in Threads \ {t} : Going(u, c)' = {}
  BY <1>1
<1>3. \A u \in Threads : \A j \in Going(u, c)' : u = t /\ j = k
  BY <1>2
<1>4. k \in Going(t, c)'
  BY <1>2
<1>5. QED BY <1>3, <1>4 DEF Alone

(* The others stay where they are. *)
LEMMA PlaceKept ==
    ASSUME NEW c, \A u \in Threads : Going(u, c)' = Going(u, c)
    PROVE  (Alone(c)' <=> Alone(c)) /\ (Nowhere(c)' <=> Nowhere(c))
BY DEF Alone, Nowhere

-----------------------------------------------------------------------------
(* A thread's stack is replaced; the others stay as they are. *)
LEMMA Replaced ==
    ASSUME TypeOK, WellNested, NEW t \in Threads, NEW s \in Seq(FrameSet),
           SetStack(t, s), Nested(s, awaiting'),
           current_start'[t] = Innermost(s), \A u \in Threads \ {t} : current_start'[u] = current_start[u],
           awaiting' \in [Coroutines -> 0 .. Awaits], \A d \in Coroutines : awaiting[d] <= awaiting'[d]
    PROVE  /\ stack' \in [Threads -> Seq(FrameSet)] /\ WellNested'
           /\ stack'[t] = s /\ \A u \in Threads \ {t} : stack'[u] = stack[u]
           /\ \A d : Going(t, d)' = GoingOn(s, d)
           /\ \A d : \A u \in Threads \ {t} : Going(u, d)' = Going(u, d)
<1>1. stack \in [Threads -> Seq(FrameSet)] /\ stack' = [stack EXCEPT ![t] = s]
  BY DEF TypeOK, SetStack
<1>2. stack' \in [Threads -> Seq(FrameSet)] /\ stack'[t] = s /\ \A u \in Threads \ {t} : stack'[u] = stack[u]
  BY <1>1
<1>3. \A d \in Coroutines : awaiting[d] \in Nat /\ awaiting'[d] \in Nat /\ awaiting[d] <= awaiting'[d]
  BY DEF TypeOK
<1>4. ASSUME NEW u \in Threads \ {t} PROVE Nested(stack[u], awaiting')
  <2> DEFINE r == stack[u]
             n == Len(r)
             b == awaiting'
  <2>1. r \in Seq(FrameSet) /\ Nested(r, awaiting) /\ \A d \in Coroutines : awaiting[d] \in Nat /\ b[d] \in Nat /\ awaiting[d] <= b[d]
    BY <1>1, <1>3 DEF WellNested
  <2>2. n \in Nat /\ n <= Len(r) /\ DOMAIN r = 1 .. n
    BY <2>1, Stacks
  <2> HIDE DEF r, n, b
  <2>3. \A i \in 1 .. n : IsCallback(r, i) \/ IsBody(r, i) \/ IsStart(r, i, b)
    BY <2>1, <2>2, FramesBelow
  <2>4. Nested(r, b)
    BY <2>2, <2>3 DEF Nested
  <2>5. QED BY <2>4 DEF r, b
<1>5. ASSUME NEW u \in Threads PROVE Nested(stack'[u], awaiting') /\ current_start'[u] = Innermost(stack'[u])
  BY <1>2, <1>4 DEF WellNested
<1>6. WellNested'
  BY <1>5 DEF WellNested
<1>7. \A d : Going(t, d)' = GoingOn(s, d)
  BY <1>2 DEF Going, GoingOn
<1>8. \A d : \A u \in Threads \ {t} : Going(u, d)' = Going(u, d)
  BY <1>2 DEF Going
<1>9. QED BY <1>2, <1>6, <1>7, <1>8

(* What is known of a thread. *)
LEMMA OfThread ==
    ASSUME TypeOK, WellNested, NEW t \in Threads
    PROVE  /\ stack[t] \in Seq(FrameSet) /\ Nested(stack[t], awaiting)
           /\ current_start[t] = Innermost(stack[t])
           /\ awaiting \in [Coroutines -> Nat]
           /\ \A d : Going(t, d) = GoingOn(stack[t], d)
           /\ \A kind : Runs(t, kind) <=> Len(stack[t]) # 0 /\ stack[t][Len(stack[t])].kind = kind
           /\ Idle(t) <=> Len(stack[t]) = 0
<1>1. stack[t] \in Seq(FrameSet) /\ Nested(stack[t], awaiting) /\ current_start[t] = Innermost(stack[t])
  BY DEF TypeOK, WellNested
<1>2. awaiting \in [Coroutines -> Nat]
  BY DEF TypeOK
<1>3. stack[t] = << >> <=> Len(stack[t]) = 0
  BY <1>1, Stacks
<1>4. QED BY <1>1, <1>2, <1>3 DEF Going, GoingOn, Runs, Idle, Top

(* Nothing changes for the owner of the first Task. *)
LEMMA OwnedKept ==
    ASSUME Owned, \A u \in Threads : Forwards(stack'[u]) <=> Forwards(stack[u]),
           result'[Root] = result[Root], callback' = callback, destroyer' = destroyer
    PROVE  Owned'
<1>1. \A u \in Threads : Forwards(stack'[u]) => callback' # "none"
  BY DEF Owned
<1>2. destroyer' # None => /\ result'[Root] \in Outcomes /\ callback' # "armed"
                           /\ \A u \in Threads \ {destroyer'} : ~Forwards(stack'[u])
  BY DEF Owned
<1>3. QED BY <1>1, <1>2 DEF Owned

LEMMA Beginning ==
    Init => IInv
<1> SUFFICES ASSUME Init PROVE IInv
  OBVIOUS
<1>1. TypeOK
  <2>1. stack \in [Threads -> Seq(FrameSet)]
    BY EmptyStack DEF Init
  <2>2. awaiting \in [Coroutines -> 0 .. Awaits]
    BY CoroutineAssumption DEF Init
  <2>3. QED BY <2>1, <2>2 DEF Init, TypeOK
<1>2. ASSUME NEW t \in Threads
      PROVE  /\ Nested(stack[t], awaiting) /\ current_start[t] = Innermost(stack[t])
             /\ ~Forwards(stack[t]) /\ \A c : Going(t, c) = {}
  <2>1. stack[t] = << >> /\ current_start[t] = 0
    BY DEF Init
  <2>2. QED BY <2>1, EmptyStack DEF Going, GoingOn
<1>3. WellNested
  BY <1>2 DEF WellNested
<1>4. Places
  BY <1>2 DEF Init, Places, Nowhere
<1>5. Awaited
  BY DEF Init, Awaited
<1>6. Owned
  BY <1>2 DEF Init, Owned
<1>7. QED BY <1>1, <1>3, <1>4, <1>5, <1>6 DEF IInv

-----------------------------------------------------------------------------
(* The first Task is started on an idle thread. *)
LEMMA StartStep ==
    ASSUME IInv, NEW t \in Threads, Start(t)
    PROVE  IInv'
<1> DEFINE s == Append(<< >>, Body(Root))
<1>1. TypeOK /\ WellNested /\ Places /\ Awaited /\ Owned
  BY DEF IInv
<1>2. /\ result[Root] = "unstarted" /\ result' = [result EXCEPT ![Root] = "running"]
      /\ RootToken /\ SetStack(t, s) /\ stack[t] = << >>
      /\ UNCHANGED <<current_start, awaiting, op, outcome, asked, destroyer>>
  BY DEF Start, Idle
<1>3. Root \in Coroutines /\ Len(<< >>) = 0 /\ awaiting \in [Coroutines -> Nat]
  BY <1>1, Numbers, OfThread
<1>4. /\ s \in Seq(FrameSet) /\ Nested(s, awaiting) /\ Innermost(s) = 0 /\ ~Forwards(s)
      /\ \A d : GoingOn(s, d) = {} \cup (IF d = Root THEN {1} ELSE {})
  <2> DEFINE e == << >>
  <2>1. /\ e \in Seq(FrameSet) /\ Nested(e, awaiting) /\ Innermost(e) = 0 /\ ~Forwards(e)
        /\ \A d : GoingOn(e, d) = {}
    BY EmptyStack
  <2>2. Len(e) = 0
    OBVIOUS
  <2> HIDE DEF e
  <2>3. ASSUME NEW c \in Coroutines
        PROVE  LET r == Append(e, Body(c))
        IN  /\ r \in Seq(FrameSet) /\ Nested(r, awaiting)
            /\ Innermost(r) = Innermost(e)
            /\ Forwards(r) <=> Forwards(e)
            /\ \A d : GoingOn(r, d) = GoingOn(e, d) \cup (IF d = c THEN {Len(e) + 1} ELSE {})
    <3>1. e \in Seq(FrameSet) /\ Nested(e, awaiting)
      BY <2>1
    <3>2. Len(e) # 0 => e[Len(e)].kind # "body"
      BY <2>2
    <3>3. awaiting \in [Coroutines -> Nat]
      BY <1>3
    <3>4. QED BY <3>1, <3>2, <3>3, PushedBody
  <2>4. s = Append(e, Body(Root)) /\ Len(e) + 1 = 1
    BY <2>2 DEF e
  <2>5. QED BY <1>3, <2>1, <2>3, <2>4
<1> HIDE DEF s
<1>5. current_start[t] = 0 /\ \A d : Going(t, d) = {}
  BY <1>1, <1>2, OfThread, EmptyStack
<1>6. /\ awaiting' = awaiting /\ awaiting' \in [Coroutines -> 0 .. Awaits]
      /\ \A d \in Coroutines : awaiting[d] <= awaiting'[d]
  BY <1>1, <1>2 DEF TypeOK
<1>7. /\ stack' \in [Threads -> Seq(FrameSet)] /\ WellNested'
      /\ stack'[t] = s /\ \A u \in Threads \ {t} : stack'[u] = stack[u]
      /\ \A d : Going(t, d)' = GoingOn(s, d)
      /\ \A d : \A u \in Threads \ {t} : Going(u, d)' = Going(u, d)
  BY <1>1, <1>2, <1>4, <1>5, <1>6, Replaced
<1>8. TypeOK'
  BY <1>1, <1>2, <1>7 DEF TypeOK, RootToken
<1>9. Places'
  <2>1. op[Root] = "none" /\ Nowhere(Root) /\ result'[Root] = "running"
    BY <1>1, <1>2, <1>3 DEF Awaited, Places, TypeOK
  <2>2. Alone(Root)'
    BY <1>4, <1>5, <1>7, <2>1, PlaceTaken
  <2>3. ASSUME NEW d \in Coroutines, d # Root
        PROVE  result'[d] = result[d] /\ (Alone(d)' <=> Alone(d)) /\ (Nowhere(d)' <=> Nowhere(d))
    <3>1. \A u \in Threads : Going(u, d)' = Going(u, d)
      BY <1>4, <1>5, <1>7, <2>3
    <3>2. QED BY <1>1, <1>2, <2>3, <3>1, PlaceKept DEF TypeOK
  <2>4. QED BY <1>1, <1>2, <2>1, <2>2, <2>3 DEF Places
<1>10. Awaited'
  <2>1. \A d \in Coroutines : d # Root => result'[d] = result[d]
    BY <1>1, <1>2 DEF TypeOK
  <2>2. result'[Root] = "running"
    BY <1>1, <1>2, <1>3 DEF TypeOK
  <2>3. \A d \in Coroutines : result[d] = "running" => ~(Root < d)
    BY <1>1, <1>2, <1>3 DEF Awaited
  <2>4. \A d \in Coroutines : ~(d < Root)
    BY Numbers
  <2>5. \A d \in Coroutines : d = Root \/ Root < d
    BY DEF Coroutines, Root
  <2>6. QED BY <1>1, <1>2, <2>1, <2>2, <2>3, <2>4, <2>5 DEF Awaited
<1>11. Owned'
  <2>1. destroyer = None
    BY <1>1, <1>2 DEF Owned, Outcomes
  <2>2. ASSUME NEW u \in Threads PROVE Forwards(stack'[u]) => callback # "none"
    <3>1. CASE u = t
      BY <1>4, <1>7, <3>1
    <3>2. CASE u # t
      BY <1>1, <1>7, <3>2 DEF Owned
    <3>3. QED BY <3>1, <3>2
  <2>3. callback # "none" => callback' # "none"
    BY <1>2 DEF RootToken
  <2>4. QED BY <1>2, <2>1, <2>2, <2>3 DEF Owned
<1>12. QED BY <1>7, <1>8, <1>9, <1>10, <1>11 DEF IInv

(* A step that only pops frames which nothing goes on in, or adds such. *)
LEMMA NothingGoesOn ==
    ASSUME IInv, NEW t \in Threads, NEW s \in Seq(FrameSet), SetStack(t, s), Nested(s, awaiting),
           current_start' = [current_start EXCEPT ![t] = Innermost(s)],
           \A d : GoingOn(s, d) = Going(t, d),
           UNCHANGED <<awaiting, op, outcome, result, callback, destroyer>>,
           stop' \in BOOLEAN, asked' \in BOOLEAN,
           Forwards(s) => Forwards(stack[t]) \/ callback = "armed"
    PROVE  IInv'
<1>1. TypeOK /\ WellNested /\ Places /\ Awaited /\ Owned
  BY DEF IInv
<1>2. current_start' \in [Threads -> Nat] /\ current_start'[t] = Innermost(s)
      /\ \A u \in Threads \ {t} : current_start'[u] = current_start[u]
  <2>1. Innermost(s) \in Nat
    BY Stacks DEF Innermost, StartAt
  <2>2. QED BY <1>1, <2>1 DEF TypeOK
<1>3. /\ awaiting' \in [Coroutines -> 0 .. Awaits] /\ Nested(s, awaiting')
      /\ \A d \in Coroutines : awaiting[d] <= awaiting'[d]
  BY <1>1 DEF TypeOK
<1>4. /\ stack' \in [Threads -> Seq(FrameSet)] /\ WellNested'
      /\ stack'[t] = s /\ \A u \in Threads \ {t} : stack'[u] = stack[u]
      /\ \A d : Going(t, d)' = GoingOn(s, d)
      /\ \A d : \A u \in Threads \ {t} : Going(u, d)' = Going(u, d)
  BY <1>1, <1>2, <1>3, Replaced
<1>5. TypeOK'
  BY <1>1, <1>2, <1>4 DEF TypeOK
<1>6. Places'
  <2>1. ASSUME NEW d \in Coroutines PROVE (Alone(d)' <=> Alone(d)) /\ (Nowhere(d)' <=> Nowhere(d))
    <3>1. \A u \in Threads : Going(u, d)' = Going(u, d)
      BY <1>4
    <3>2. QED BY <3>1, PlaceKept
  <2>2. QED BY <1>1, <2>1 DEF Places
<1>7. Awaited'
  BY <1>1 DEF Awaited
<1>8. Owned'
  <2>1. ASSUME NEW u \in Threads PROVE Forwards(stack'[u]) => Forwards(stack[u]) \/ callback = "armed"
    <3>1. CASE u = t
      BY <1>4, <3>1
    <3>2. CASE u # t
      BY <1>4, <3>2
    <3>3. QED BY <3>1, <3>2
  <2>2. \A u \in Threads : Forwards(stack'[u]) => callback' # "none"
    BY <1>1, <2>1 DEF Owned
  <2>3. destroyer' # None => /\ result'[Root] \in Outcomes /\ callback' # "armed"
                             /\ \A u \in Threads \ {destroyer'} : ~Forwards(stack'[u])
    BY <1>1, <2>1 DEF Owned
  <2>4. QED BY <2>2, <2>3 DEF Owned
<1>9. QED BY <1>4, <1>5, <1>6, <1>7, <1>8 DEF IInv

LEMMA StartReturnsStep ==
    ASSUME IInv, NEW t \in Threads, StartReturns(t)
    PROVE  IInv'
<1> DEFINE f == stack[t][Len(stack[t])]
           s == Below(stack[t], Returning(f))
<1>1. TypeOK /\ WellNested
  BY DEF IInv
<1>2. /\ Runs(t, "start") /\ SetStack(t, s) /\ current_start' = [current_start EXCEPT ![t] = f.outer]
      /\ UNCHANGED <<awaiting, op, outcome, result, stop, asked, callback, destroyer>>
  BY DEF StartReturns, Restored, Top, stopping
<1>3. /\ s \in Seq(FrameSet) /\ Nested(s, awaiting) /\ Innermost(s) = f.outer
      /\ Forwards(s) <=> Forwards(stack[t])
      /\ \A d : GoingOn(s, d) = Going(t, d)
  BY <1>1, <1>2, OfThread, Returned
<1>4. stop' \in BOOLEAN /\ asked' \in BOOLEAN
  BY <1>1, <1>2 DEF TypeOK
<1> HIDE DEF s, f
<1>5. QED BY <1>2, <1>3, <1>4, NothingGoesOn

LEMMA CallbackReturnsStep ==
    ASSUME IInv, NEW t \in Threads, CallbackReturns(t)
    PROVE  IInv'
<1> DEFINE s == << >>
<1>1. TypeOK /\ WellNested
  BY DEF IInv
<1>2. /\ Runs(t, "callback") /\ SetStack(t, Below(stack[t], 1))
      /\ UNCHANGED <<current_start, awaiting, op, outcome, result, stop, asked, callback, destroyer>>
  BY DEF CallbackReturns, stopping
<1>3. Below(stack[t], 1) = << >> /\ current_start[t] = 0 /\ \A d : Going(t, d) = {}
  BY <1>1, <1>2, OfThread, CallbackReturned
<1>4. /\ s \in Seq(FrameSet) /\ Nested(s, awaiting) /\ Innermost(s) = 0 /\ ~Forwards(s)
      /\ \A d : GoingOn(s, d) = Going(t, d)
  BY <1>3, EmptyStack
<1>5. SetStack(t, s)
  BY <1>2, <1>3
<1>6. stop' \in BOOLEAN /\ asked' \in BOOLEAN
  BY <1>1, <1>2 DEF TypeOK
<1> HIDE DEF s
<1>7. current_start' = [current_start EXCEPT ![t] = Innermost(s)]
  BY <1>1, <1>2, <1>3, <1>4 DEF TypeOK
<1>8. QED BY <1>2, <1>4, <1>5, <1>6, <1>7, NothingGoesOn

LEMMA RequestStopStep ==
    ASSUME IInv, NEW t \in Threads, RequestStop(t)
    PROVE  IInv'
<1>1. TypeOK /\ WellNested
  BY DEF IInv
<1>2. /\ stack[t] = << >> /\ asked' = TRUE /\ stop' \in BOOLEAN
      /\ UNCHANGED <<current_start, awaiting, op, outcome, result, callback, destroyer>>
  BY <1>1 DEF RequestStop, Idle, TypeOK
<1>3. current_start[t] = 0 /\ \A d : Going(t, d) = {}
  BY <1>1, <1>2, OfThread, EmptyStack
<1>4. current_start' = [current_start EXCEPT ![t] = 0]
  BY <1>1, <1>2, <1>3 DEF TypeOK
<1>5. CASE callback = "armed"
  <2> DEFINE s == <<Callback>>
  <2>1. SetStack(t, s)
    BY <1>5 DEF RequestStop
  <2>2. Len(s) = 1 /\ s[1] = Callback /\ s \in Seq(FrameSet)
    BY Kinds
  <2>3. Below(s, 1) = << >> /\ DOMAIN s = {1}
    BY <2>2, SubSeqEmpty DEF Below
  <2> HIDE DEF s
  <2>4. Nested(s, awaiting)
    BY <2>2, <2>3 DEF Nested, IsCallback
  <2>5. Innermost(s) = 0 /\ \A d : GoingOn(s, d) = {}
    <3>1. Len(s) # 0 /\ s[Len(s)].kind = "callback"
      BY <2>2, Kinds
    <3>2. QED BY <2>2, <2>4, <3>1, CallbackReturned
  <2>6. QED BY <1>2, <1>3, <1>4, <1>5, <2>1, <2>2, <2>4, <2>5, NothingGoesOn
<1>6. CASE callback # "armed"
  <2> DEFINE s == << >>
  <2>1. SetStack(t, s)
    BY <1>1, <1>2, <1>6 DEF RequestStop, SetStack, TypeOK
  <2>2. /\ s \in Seq(FrameSet) /\ Nested(s, awaiting) /\ Innermost(s) = 0 /\ ~Forwards(s)
        /\ \A d : GoingOn(s, d) = {}
    BY EmptyStack
  <2> HIDE DEF s
  <2>3. QED BY <1>2, <1>3, <1>4, <2>1, <2>2, NothingGoesOn
<1>7. QED BY <1>5, <1>6

-----------------------------------------------------------------------------
(* The body on top of a stack is the place where its coroutine goes on. *)
LEMMA TopBody ==
    ASSUME IInv, NEW t \in Threads, Runs(t, "body")
    PROVE  LET c == Top(t).co
           IN  /\ c \in Coroutines /\ Len(stack[t]) \in Going(t, c)
               /\ Alone(c) /\ result[c] = "running" /\ op[c] = "none"
<1> DEFINE c == Top(t).co
           s == stack[t]
<1>1. TypeOK /\ WellNested /\ Places
  BY DEF IInv
<1>2. /\ s \in Seq(FrameSet) /\ Nested(s, awaiting) /\ Len(s) # 0 /\ s[Len(s)].kind = "body"
      /\ awaiting \in [Coroutines -> Nat] /\ \A d : Going(t, d) = GoingOn(s, d)
  BY <1>1, OfThread
<1>3. Len(s) \in 1 .. Len(s) /\ c = s[Len(s)].co
  BY <1>2, Stacks DEF Top
<1> HIDE DEF s, c
<1>4. c \in Coroutines
  BY <1>2, <1>3, ByKind
<1>5. Len(s) \in GoingOn(s, c)
  BY <1>2, <1>3, <1>4, PoppedBody
<1>6. ~Nowhere(c)
  BY <1>2, <1>5 DEF Nowhere
<1>7. QED BY <1>1, <1>2, <1>4, <1>5, <1>6 DEF Places, s, c

(* What an await does to the counts and the places. *)
LEMMA AwaitCounts ==
    ASSUME IInv, NEW t \in Threads, Await(t)
    PROVE  LET c == Top(t).co
           IN  /\ awaiting' \in [Coroutines -> 0 .. Awaits] /\ awaiting' \in [Coroutines -> Nat]
               /\ awaiting'[c] = awaiting[c] + 1
               /\ \A d \in Coroutines : d # c => awaiting'[d] = awaiting[d]
               /\ \A d \in Coroutines : awaiting[d] <= awaiting'[d]
               /\ outcome' \in [Coroutines -> {"none"} \cup Outcomes]
<1> DEFINE c == Top(t).co
<1>1. TypeOK
  BY DEF IInv
<1>2. /\ Runs(t, "body") /\ awaiting[c] < Awaits /\ awaiting' = [awaiting EXCEPT ![c] = @ + 1]
      /\ outcome' = [outcome EXCEPT ![c] = "none"]
  BY DEF Await
<1>3. c \in Coroutines
  BY <1>2, TopBody
<1> HIDE DEF c
<1>4. Awaits \in Nat /\ awaiting \in [Coroutines -> 0 .. Awaits] /\ outcome \in [Coroutines -> {"none"} \cup Outcomes]
  BY <1>1, CoroutineAssumption DEF TypeOK
<1>5. awaiting[c] + 1 \in 0 .. Awaits
  BY <1>2, <1>3, <1>4
<1>6. awaiting' \in [Coroutines -> 0 .. Awaits]
  BY <1>2, <1>3, <1>4, <1>5
<1>7. awaiting' \in [Coroutines -> Nat]
  BY <1>4, <1>6
<1>8. awaiting'[c] = awaiting[c] + 1 /\ \A d \in Coroutines : d # c => awaiting'[d] = awaiting[d]
  BY <1>2, <1>3, <1>4
<1>9. \A d \in Coroutines : awaiting[d] <= awaiting'[d]
  BY <1>4, <1>8
<1>10. outcome' \in [Coroutines -> {"none"} \cup Outcomes]
  BY <1>2, <1>4
<1>11. QED BY <1>6, <1>7, <1>8, <1>9, <1>10 DEF c

(* A Task is awaited: its body runs on top of the start(). *)
LEMMA AwaitTaskStep ==
    ASSUME IInv, NEW t \in Threads, Await(t), NEW c, c = Top(t).co, AwaitsTask(c),
           NEW k, k = Len(stack[t])
    PROVE  IInv'
<1> DEFINE s == stack[t]
           r == Append(s, Frame("start", c, awaiting[c] + 1, Innermost(s)))
           q == Append(r, Body(c + 1))
<1>1. TypeOK /\ WellNested /\ Places /\ Awaited /\ Owned
  BY DEF IInv
<1>2. /\ s \in Seq(FrameSet) /\ Nested(s, awaiting) /\ current_start[t] = Innermost(s)
      /\ awaiting \in [Coroutines -> Nat] /\ \A d : Going(t, d) = GoingOn(s, d)
      /\ Runs(t, "body") /\ k # 0 /\ s[k].kind = "body" /\ s[k].co = c
  <2>1. Runs(t, "body")
    BY DEF Await
  <2>2. QED BY <1>1, <2>1, OfThread DEF Top
<1>3. /\ op' = [op EXCEPT ![c] = "task"] /\ result' = [result EXCEPT ![c + 1] = "running"]
      /\ SetStack(t, q) /\ current_start' = [current_start EXCEPT ![t] = Len(r)]
      /\ UNCHANGED <<stop, asked, callback, destroyer>>
  BY <1>2 DEF Await, stopping
<1>4. c \in Coroutines /\ k \in Going(t, c) /\ Alone(c) /\ result[c] = "running" /\ op[c] = "none"
  BY <1>2, TopBody
<1>5. /\ awaiting' \in [Coroutines -> 0 .. Awaits] /\ awaiting' \in [Coroutines -> Nat]
      /\ awaiting'[c] = awaiting[c] + 1
      /\ \A d \in Coroutines : d # c => awaiting'[d] = awaiting[d]
      /\ \A d \in Coroutines : awaiting[d] <= awaiting'[d]
      /\ outcome' \in [Coroutines -> {"none"} \cup Outcomes]
  BY AwaitCounts
<1>6. awaiting[c] = 0 /\ c + 1 \in Coroutines /\ k = Len(s)
  BY DEF AwaitsTask
<1> HIDE DEF s
<1>7. c \in Nat /\ c # c + 1 /\ c + 1 # Root
  BY <1>4, Numbers DEF Coroutines, Root
<1>8. /\ r \in Seq(FrameSet) /\ Len(r) = Len(s) + 1 /\ Nested(r, awaiting') /\ r[Len(r)].kind = "start"
      /\ Innermost(r) = Len(r)
      /\ Forwards(r) <=> Forwards(s)
      /\ \A d : GoingOn(r, d) = GoingOn(s, d) \ (IF d = c THEN {Len(s)} ELSE {})
  <2> DEFINE b == awaiting'
  <2>1. b \in [Coroutines -> Nat] /\ b[c] = awaiting[c] + 1 /\ \A d \in Coroutines : awaiting[d] <= b[d]
    BY <1>5
  <2>2. Len(s) # 0 /\ s[Len(s)].kind = "body" /\ s[Len(s)].co = c
    BY <1>2, <1>6
  <2> HIDE DEF b
  <2>3. LET r1 == Append(s, Frame("start", c, awaiting[c] + 1, Innermost(s)))
        IN  /\ r1 \in Seq(FrameSet) /\ Len(r1) = Len(s) + 1 /\ Nested(r1, b) /\ r1[Len(r1)].kind = "start"
            /\ Innermost(r1) = Len(r1)
            /\ Forwards(r1) <=> Forwards(s)
            /\ \A d : GoingOn(r1, d) = GoingOn(s, d) \ (IF d = c THEN {Len(s)} ELSE {})
    BY ZenonT(60), <1>2, <1>4, <2>1, <2>2, PushedStart
  <2>4. QED BY <2>3 DEF b
<1> HIDE DEF r
<1>9. /\ q \in Seq(FrameSet) /\ Nested(q, awaiting')
      /\ Innermost(q) = Innermost(r)
      /\ Forwards(q) <=> Forwards(r)
      /\ \A d : GoingOn(q, d) = GoingOn(r, d) \cup (IF d = c + 1 THEN {Len(r) + 1} ELSE {})
  <2> DEFINE b == awaiting'
             e == c + 1
  <2>1. b \in [Coroutines -> Nat] /\ e \in Coroutines /\ r \in Seq(FrameSet) /\ Nested(r, b)
    BY <1>5, <1>6, <1>8
  <2>2. Len(r) # 0 => r[Len(r)].kind # "body"
    BY <1>8
  <2> HIDE DEF b, e
  <2>3. LET r1 == Append(r, Body(e))
        IN  /\ r1 \in Seq(FrameSet) /\ Nested(r1, b)
            /\ Innermost(r1) = Innermost(r)
            /\ Forwards(r1) <=> Forwards(r)
            /\ \A d : GoingOn(r1, d) = GoingOn(r, d) \cup (IF d = e THEN {Len(r) + 1} ELSE {})
    BY <2>1, <2>2, PushedBody
  <2>4. QED BY <2>3 DEF b, e
<1> HIDE DEF q
<1>10. /\ current_start' \in [Threads -> Nat] /\ current_start'[t] = Innermost(q)
       /\ \A u \in Threads \ {t} : current_start'[u] = current_start[u]
  <2>1. Len(r) \in Nat
    BY <1>8, Stacks
  <2>2. QED BY <1>1, <1>3, <1>8, <1>9, <2>1 DEF TypeOK
<1>11. /\ stack' \in [Threads -> Seq(FrameSet)] /\ WellNested'
       /\ stack'[t] = q /\ \A u \in Threads \ {t} : stack'[u] = stack[u]
       /\ \A d : Going(t, d)' = GoingOn(q, d)
       /\ \A d : \A u \in Threads \ {t} : Going(u, d)' = Going(u, d)
  BY <1>1, <1>3, <1>5, <1>9, <1>10, Replaced
<1>12. \A d : Going(t, d)' = (Going(t, d) \ (IF d = c THEN {k} ELSE {})) \cup (IF d = c + 1 THEN {Len(r) + 1} ELSE {})
  BY <1>2, <1>6, <1>8, <1>9, <1>11
<1>13. /\ op' \in [Coroutines -> {"none", "task", "schedule", "sender"}]
       /\ result' \in [Coroutines -> {"unstarted", "running"} \cup Outcomes]
       /\ op'[c] = "task" /\ \A d \in Coroutines : d # c => op'[d] = op[d]
       /\ result'[c + 1] = "running" /\ \A d \in Coroutines : d # c + 1 => result'[d] = result[d]
  BY <1>1, <1>3, <1>4, <1>6 DEF TypeOK
<1>14. TypeOK'
  BY <1>1, <1>3, <1>5, <1>10, <1>11, <1>13 DEF TypeOK
<1>15. result[c + 1] # "running" /\ op[c + 1] = "none" /\ \A d \in Coroutines : c < d => result[d] # "running"
  <2>1. \A d \in Coroutines : c < d => result[d] # "running"
    BY <1>1, <1>4 DEF Awaited
  <2>2. QED BY <1>1, <1>6, <1>7, <2>1 DEF Awaited
<1>16. Places'
  <2>1. Nowhere(c)'
    <3>1. Going(t, c)' = Going(t, c) \ {k}
      BY <1>7, <1>12
    <3>2. QED BY <1>4, <1>11, <3>1, PlaceLeft
  <2>2. Alone(c + 1)'
    <3>1. PICK n : n = Len(r) + 1
      OBVIOUS
    <3>2. Nowhere(c + 1) /\ Going(t, c + 1)' = Going(t, c + 1) \cup {n}
      BY <1>1, <1>6, <1>7, <1>12, <1>15, <3>1 DEF Places
    <3>3. QED BY ZenonT(60), <1>11, <3>2, PlaceTaken
  <2>3. ASSUME NEW d \in Coroutines, d # c, d # c + 1
        PROVE  (Alone(d)' <=> Alone(d)) /\ (Nowhere(d)' <=> Nowhere(d))
    <3>1. Going(t, d)' = Going(t, d)
      BY <1>12, <2>3
    <3>2. \A u \in Threads : Going(u, d)' = Going(u, d)
      BY <1>11, <3>1
    <3>3. QED BY <3>2, PlaceKept
  <2>4. op'[c + 1] = "none" /\ op'[c] = "task"
    BY <1>6, <1>7, <1>13, <1>15
  <2>5. ASSUME NEW d \in Coroutines
        PROVE  /\ result'[d] = "running" /\ op'[d] = "none" => Alone(d)'
               /\ result'[d] # "running" \/ op'[d] # "none" => Nowhere(d)'
    <3>1. CASE d = c
      BY <2>1, <2>4, <3>1
    <3>2. CASE d = c + 1
      BY <1>13, <2>2, <2>4, <3>2
    <3>3. CASE d # c /\ d # c + 1
      BY <1>1, <1>13, <2>3, <3>3 DEF Places
    <3>4. QED BY <3>1, <3>2, <3>3
  <2>6. QED BY <2>5 DEF Places
<1>17. Awaited'
  <2>1. awaiting'[c] = 1
    BY <1>5, <1>6
  <2>2. result'[c] = "running"
    BY <1>4, <1>7, <1>13
  <2>3. ASSUME NEW d \in Coroutines PROVE op'[d] # "none" => result'[d] = "running"
    BY <1>1, <1>13, <2>2 DEF Awaited
  <2>4. ASSUME NEW d \in Coroutines PROVE op'[d] = "task" => awaiting'[d] = 1
    BY <1>1, <1>5, <1>13, <2>1 DEF Awaited
  <2>5. ASSUME NEW d \in Coroutines, result'[d] = "running", NEW e \in Coroutines, e < d
        PROVE  result'[e] = "running" /\ op'[e] = "task"
    <3>1. d \in Nat /\ e \in Nat
      BY Numbers
    <3>2. d <= c + 1
      BY <1>7, <1>13, <1>15, <2>5, <3>1
    <3>3. CASE e = c
      BY <1>13, <2>2, <3>3
    <3>4. CASE e # c
      <4>1. e < c
        BY <1>7, <2>5, <3>1, <3>2, <3>4
      <4>2. result[e] = "running" /\ op[e] = "task"
        BY <1>1, <1>4, <4>1 DEF Awaited
      <4>3. e # c + 1
        BY <1>7, <3>1, <4>1
      <4>4. QED BY <1>13, <3>4, <4>2, <4>3
    <3>5. QED BY <3>3, <3>4
  <2>6. QED BY <2>3, <2>4, <2>5 DEF Awaited
<1>18. Owned'
  <2>1. \A u \in Threads : Forwards(stack'[u]) <=> Forwards(stack[u])
    BY <1>8, <1>9, <1>11 DEF s
  <2>2. result'[Root] = result[Root]
    BY <1>7, <1>13, Numbers
  <2>3. QED BY <1>1, <1>3, <2>1, <2>2, OwnedKept
<1>19. QED BY <1>11, <1>14, <1>16, <1>17, <1>18 DEF IInv

(* Another sender is awaited: nothing goes on above the start(). *)
LEMMA AwaitSenderStep ==
    ASSUME IInv, NEW t \in Threads, Await(t), NEW c, c = Top(t).co, ~AwaitsTask(c),
           NEW k, k = Len(stack[t])
    PROVE  IInv'
<1> DEFINE s == stack[t]
           r == Append(s, Frame("start", c, awaiting[c] + 1, Innermost(s)))
<1>1. TypeOK /\ WellNested /\ Places /\ Awaited /\ Owned
  BY DEF IInv
<1>2. /\ s \in Seq(FrameSet) /\ Nested(s, awaiting) /\ current_start[t] = Innermost(s)
      /\ awaiting \in [Coroutines -> Nat] /\ \A d : Going(t, d) = GoingOn(s, d)
      /\ Runs(t, "body") /\ k # 0 /\ s[k].kind = "body" /\ s[k].co = c
  <2>1. Runs(t, "body")
    BY DEF Await
  <2>2. QED BY <1>1, <2>1, OfThread DEF Top
<1>3. /\ \E kind \in {"schedule", "sender"} : op' = [op EXCEPT ![c] = kind]
      /\ SetStack(t, r) /\ current_start' = [current_start EXCEPT ![t] = Len(r)]
      /\ UNCHANGED <<result, stop, asked, callback, destroyer>>
  BY <1>2 DEF Await, stopping
<1>4. c \in Coroutines /\ k \in Going(t, c) /\ Alone(c) /\ result[c] = "running" /\ op[c] = "none"
  BY <1>2, TopBody
<1>5. /\ awaiting' \in [Coroutines -> 0 .. Awaits] /\ awaiting' \in [Coroutines -> Nat]
      /\ awaiting'[c] = awaiting[c] + 1
      /\ \A d \in Coroutines : d # c => awaiting'[d] = awaiting[d]
      /\ \A d \in Coroutines : awaiting[d] <= awaiting'[d]
      /\ outcome' \in [Coroutines -> {"none"} \cup Outcomes]
  BY AwaitCounts
<1>6. k = Len(s)
  OBVIOUS
<1> HIDE DEF s
<1>7. /\ r \in Seq(FrameSet) /\ Len(r) = Len(s) + 1 /\ Nested(r, awaiting') /\ r[Len(r)].kind = "start"
      /\ Innermost(r) = Len(r)
      /\ Forwards(r) <=> Forwards(s)
      /\ \A d : GoingOn(r, d) = GoingOn(s, d) \ (IF d = c THEN {Len(s)} ELSE {})
  <2> DEFINE b == awaiting'
  <2>1. b \in [Coroutines -> Nat] /\ b[c] = awaiting[c] + 1 /\ \A d \in Coroutines : awaiting[d] <= b[d]
    BY <1>5
  <2>2. Len(s) # 0 /\ s[Len(s)].kind = "body" /\ s[Len(s)].co = c
    BY <1>2, <1>6
  <2> HIDE DEF b
  <2>3. LET r1 == Append(s, Frame("start", c, awaiting[c] + 1, Innermost(s)))
        IN  /\ r1 \in Seq(FrameSet) /\ Len(r1) = Len(s) + 1 /\ Nested(r1, b) /\ r1[Len(r1)].kind = "start"
            /\ Innermost(r1) = Len(r1)
            /\ Forwards(r1) <=> Forwards(s)
            /\ \A d : GoingOn(r1, d) = GoingOn(s, d) \ (IF d = c THEN {Len(s)} ELSE {})
    BY ZenonT(60), <1>2, <1>4, <2>1, <2>2, PushedStart
  <2>4. QED BY <2>3 DEF b
<1> HIDE DEF r
<1>8. /\ current_start' \in [Threads -> Nat] /\ current_start'[t] = Innermost(r)
      /\ \A u \in Threads \ {t} : current_start'[u] = current_start[u]
  <2>1. Len(r) \in Nat
    BY <1>7, Stacks
  <2>2. QED BY <1>1, <1>3, <1>7, <2>1 DEF TypeOK
<1>9. /\ stack' \in [Threads -> Seq(FrameSet)] /\ WellNested'
      /\ stack'[t] = r /\ \A u \in Threads \ {t} : stack'[u] = stack[u]
      /\ \A d : Going(t, d)' = GoingOn(r, d)
      /\ \A d : \A u \in Threads \ {t} : Going(u, d)' = Going(u, d)
  BY <1>1, <1>3, <1>5, <1>7, <1>8, Replaced
<1>10. \A d : Going(t, d)' = Going(t, d) \ (IF d = c THEN {k} ELSE {})
  BY <1>2, <1>6, <1>7, <1>9
<1>11. /\ op' \in [Coroutines -> {"none", "task", "schedule", "sender"}]
       /\ op'[c] \in {"schedule", "sender"} /\ \A d \in Coroutines : d # c => op'[d] = op[d]
  BY <1>1, <1>3, <1>4 DEF TypeOK
<1>12. TypeOK'
  BY <1>1, <1>3, <1>5, <1>8, <1>9, <1>11 DEF TypeOK
<1>13. Places'
  <2>1. Nowhere(c)'
    <3>1. Going(t, c)' = Going(t, c) \ {k}
      BY <1>10
    <3>2. QED BY <1>4, <1>9, <3>1, PlaceLeft
  <2>2. ASSUME NEW d \in Coroutines, d # c
        PROVE  (Alone(d)' <=> Alone(d)) /\ (Nowhere(d)' <=> Nowhere(d))
    <3>1. Going(t, d)' = Going(t, d)
      BY <1>10, <2>2
    <3>2. \A u \in Threads : Going(u, d)' = Going(u, d)
      BY <1>9, <3>1
    <3>3. QED BY <3>2, PlaceKept
  <2>3. ASSUME NEW d \in Coroutines
        PROVE  /\ result'[d] = "running" /\ op'[d] = "none" => Alone(d)'
               /\ result'[d] # "running" \/ op'[d] # "none" => Nowhere(d)'
    <3>1. CASE d = c
      BY <1>11, <2>1, <3>1
    <3>2. CASE d # c
      BY <1>1, <1>3, <1>11, <2>2, <3>2 DEF Places
    <3>3. QED BY <3>1, <3>2
  <2>4. QED BY <2>3 DEF Places
<1>14. Awaited'
  <2>1. ASSUME NEW d \in Coroutines PROVE op'[d] # "none" => result'[d] = "running"
    BY <1>1, <1>3, <1>4, <1>11 DEF Awaited
  <2>2. ASSUME NEW d \in Coroutines PROVE op'[d] = "task" => awaiting'[d] = 1
    BY <1>1, <1>5, <1>11 DEF Awaited
  <2>3. ASSUME NEW d \in Coroutines, result'[d] = "running", NEW e \in Coroutines, e < d
        PROVE  result'[e] = "running" /\ op'[e] = "task"
    <3>1. result[e] = "running" /\ op[e] = "task"
      BY <1>1, <1>3, <2>3 DEF Awaited
    <3>2. QED BY <1>3, <1>4, <1>11, <3>1
  <2>4. QED BY <2>1, <2>2, <2>3 DEF Awaited
<1>15. Owned'
  <2>1. \A u \in Threads : Forwards(stack'[u]) <=> Forwards(stack[u])
    BY <1>7, <1>9 DEF s
  <2>2. QED BY <1>1, <1>3, <2>1, OwnedKept
<1>16. QED BY <1>9, <1>12, <1>13, <1>14, <1>15 DEF IInv

-----------------------------------------------------------------------------
(* complete, with the frames s: the coroutine goes on at one more place,   *)
(* and every start() stays as it is or is told of its own completion.      *)
LEMMA Completing ==
    ASSUME TypeOK, WellNested, NEW t \in Threads, NEW c \in Coroutines, NEW kind \in Outcomes,
           NEW s \in Seq(FrameSet), Nested(s, awaiting), Len(s) # 0 => s[Len(s)].kind # "body",
           Innermost(s) = Innermost(stack[t]),
           Innermost(s) # 0 => s[Innermost(s)] = stack[t][Innermost(s)],
           Innermost(s) # 0 /\ s[Innermost(s)].co = c => s[Len(s)].n = awaiting[c],
           CompleteAwaiter(t, s, c, kind), UNCHANGED <<current_start, awaiting>>
    PROVE  /\ stack' \in [Threads -> Seq(FrameSet)] /\ WellNested'
           /\ \A u \in Threads \ {t} : stack'[u] = stack[u]
           /\ Forwards(stack'[t]) <=> Forwards(s)
           /\ \E k : \A d : Going(t, d)' = GoingOn(s, d) \cup (IF d = c THEN {k} ELSE {})
           /\ \A d : \A u \in Threads \ {t} : Going(u, d)' = Going(u, d)
           /\ op' \in [Coroutines -> {"none", "task", "schedule", "sender"}]
           /\ op'[c] = "none" /\ \A d \in Coroutines : d # c => op'[d] = op[d]
           /\ outcome' \in [Coroutines -> {"none"} \cup Outcomes]
<1> DEFINE r == Complete(s, awaiting, c)
<1>1. current_start[t] = Innermost(s) /\ awaiting \in [Coroutines -> Nat]
  BY OfThread
<1>2. StartsAwaiter(t, c) <=> Innermost(s) # 0 /\ s[Innermost(s)].co = c
  BY <1>1 DEF StartsAwaiter
<1>3. SetStack(t, r)
  BY <1>1, <1>2 DEF CompleteAwaiter, Complete
<1>4. /\ r \in Seq(FrameSet) /\ Nested(r, awaiting) /\ Innermost(r) = Innermost(s)
      /\ Forwards(r) <=> Forwards(s)
      /\ \E k : \A d : GoingOn(r, d) = GoingOn(s, d) \cup (IF d = c THEN {k} ELSE {})
  BY ZenonT(60), <1>1, Completed
<1> HIDE DEF r
<1>5. /\ awaiting' \in [Coroutines -> 0 .. Awaits] /\ Nested(r, awaiting')
      /\ \A d \in Coroutines : awaiting[d] <= awaiting'[d]
      /\ current_start'[t] = Innermost(r) /\ \A u \in Threads \ {t} : current_start'[u] = current_start[u]
  BY <1>1, <1>4 DEF TypeOK
<1>6. /\ stack' \in [Threads -> Seq(FrameSet)] /\ WellNested'
      /\ stack'[t] = r /\ \A u \in Threads \ {t} : stack'[u] = stack[u]
      /\ \A d : Going(t, d)' = GoingOn(r, d)
      /\ \A d : \A u \in Threads \ {t} : Going(u, d)' = Going(u, d)
  BY <1>3, <1>4, <1>5, Replaced
<1>7. \E k : \A d : Going(t, d)' = GoingOn(s, d) \cup (IF d = c THEN {k} ELSE {})
  BY <1>4, <1>6
<1>8. /\ op' \in [Coroutines -> {"none", "task", "schedule", "sender"}]
      /\ op'[c] = "none" /\ \A d \in Coroutines : d # c => op'[d] = op[d]
      /\ outcome' \in [Coroutines -> {"none"} \cup Outcomes]
  BY DEF CompleteAwaiter, TypeOK
<1>9. QED BY <1>4, <1>6, <1>7, <1>8

(* A sender completes: its coroutine goes on. *)
LEMMA SenderDone ==
    ASSUME IInv, NEW t \in Threads, NEW c \in Coroutines, op[c] \in {"schedule", "sender"}, NEW kind \in Outcomes,
           ~Runs(t, "body"), Runs(t, "start") /\ Top(t).co = c => Top(t).n = awaiting[c],
           CompleteAwaiter(t, stack[t], c, kind), UNCHANGED <<current_start, awaiting, result, stopping>>
    PROVE  IInv'
<1> DEFINE s == stack[t]
<1>1. TypeOK /\ WellNested /\ Places /\ Awaited /\ Owned
  BY DEF IInv
<1>2. /\ s \in Seq(FrameSet) /\ Nested(s, awaiting) /\ (Len(s) # 0 => s[Len(s)].kind # "body")
      /\ \A d : Going(t, d) = GoingOn(s, d)
  BY <1>1, OfThread
<1>3. Innermost(s) # 0 /\ s[Innermost(s)].co = c => s[Len(s)].n = awaiting[c]
  <2>1. Innermost(s) = StartAt(s, Len(s))
    BY <1>2, InnermostOnTop
  <2>2. Innermost(s) # 0 => Innermost(s) = Len(s) /\ Len(s) # 0 /\ s[Len(s)].kind = "start"
    BY <1>2, <2>1, Stacks DEF StartAt
  <2>3. Innermost(s) # 0 => Runs(t, "start") /\ Top(t) = s[Innermost(s)]
    BY <1>1, <2>2, OfThread DEF Top
  <2>4. QED BY <2>2, <2>3
<1>4. PICK k : /\ stack' \in [Threads -> Seq(FrameSet)] /\ WellNested'
               /\ \A u \in Threads \ {t} : stack'[u] = stack[u]
               /\ Forwards(stack'[t]) <=> Forwards(s)
               /\ \A d : Going(t, d)' = GoingOn(s, d) \cup (IF d = c THEN {k} ELSE {})
               /\ \A d : \A u \in Threads \ {t} : Going(u, d)' = Going(u, d)
               /\ op' \in [Coroutines -> {"none", "task", "schedule", "sender"}]
               /\ op'[c] = "none" /\ \A d \in Coroutines : d # c => op'[d] = op[d]
               /\ outcome' \in [Coroutines -> {"none"} \cup Outcomes]
  <2>1. /\ stack' \in [Threads -> Seq(FrameSet)] /\ WellNested'
        /\ \A u \in Threads \ {t} : stack'[u] = stack[u]
        /\ Forwards(stack'[t]) <=> Forwards(s)
        /\ \E k : \A d : Going(t, d)' = GoingOn(s, d) \cup (IF d = c THEN {k} ELSE {})
        /\ \A d : \A u \in Threads \ {t} : Going(u, d)' = Going(u, d)
        /\ op' \in [Coroutines -> {"none", "task", "schedule", "sender"}]
        /\ op'[c] = "none" /\ \A d \in Coroutines : d # c => op'[d] = op[d]
        /\ outcome' \in [Coroutines -> {"none"} \cup Outcomes]
    BY <1>1, <1>2, <1>3, Completing
  <2>2. QED BY <2>1
<1> HIDE DEF s
<1>5. UNCHANGED <<current_start, awaiting, result, stop, asked, callback, destroyer>>
  BY DEF stopping
<1>6. TypeOK'
  BY <1>1, <1>4, <1>5 DEF TypeOK
<1>7. result[c] = "running" /\ Nowhere(c)
  BY <1>1 DEF Awaited, Places
<1>8. Places'
  <2>1. Alone(c)'
    <3>1. Going(t, c)' = Going(t, c) \cup {k}
      BY <1>2, <1>4
    <3>2. QED BY <1>4, <1>7, <3>1, PlaceTaken
  <2>2. ASSUME NEW d \in Coroutines, d # c
        PROVE  (Alone(d)' <=> Alone(d)) /\ (Nowhere(d)' <=> Nowhere(d))
    <3>1. Going(t, d)' = GoingOn(s, d) \cup {} /\ Going(t, d) = GoingOn(s, d)
      BY <1>2, <1>4, <2>2
    <3>2. \A u \in Threads : Going(u, d)' = Going(u, d)
      BY <1>4, <3>1
    <3>3. QED BY <3>2, PlaceKept
  <2>3. ASSUME NEW d \in Coroutines
        PROVE  /\ result'[d] = "running" /\ op'[d] = "none" => Alone(d)'
               /\ result'[d] # "running" \/ op'[d] # "none" => Nowhere(d)'
    <3>1. CASE d = c
      BY <1>4, <1>5, <1>7, <2>1, <3>1
    <3>2. CASE d # c
      BY <1>1, <1>4, <1>5, <2>2, <3>2 DEF Places
    <3>3. QED BY <3>1, <3>2
  <2>4. QED BY <2>3 DEF Places
<1>9. Awaited'
  <2>1. \A d \in Coroutines : op'[d] # "none" => op'[d] = op[d]
    BY <1>4
  <2>2. ASSUME NEW d \in Coroutines, result'[d] = "running", NEW e \in Coroutines, e < d
        PROVE  result'[e] = "running" /\ op'[e] = "task"
    <3>1. result[e] = "running" /\ op[e] = "task"
      BY <1>1, <1>5, <2>2 DEF Awaited
    <3>2. QED BY <1>4, <1>5, <3>1
  <2>3. QED BY <1>1, <1>5, <2>1, <2>2 DEF Awaited
<1>10. Owned'
  <2>1. \A u \in Threads : Forwards(stack'[u]) <=> Forwards(stack[u])
    BY <1>4 DEF s
  <2>2. QED BY <1>1, <1>5, <2>1, OwnedKept
<1>11. QED BY <1>4, <1>6, <1>8, <1>9, <1>10 DEF IInv

LEMMA SenderCompletesStep ==
    ASSUME CompletesLater = FALSE, IInv, NEW t \in Threads, NEW c \in Coroutines, SenderCompletes(t, c)
    PROVE  IInv'
<1>1. TypeOK /\ WellNested
  BY DEF IInv
<1>2. /\ op[c] = "sender" /\ MayComplete(t, c)
      /\ UNCHANGED <<current_start, awaiting, result, stopping>>
  BY DEF SenderCompletes
<1>3. ~Runs(t, "body") /\ (Runs(t, "start") /\ Top(t).co = c => Top(t).n = awaiting[c])
  BY <1>2 DEF MayComplete, Runs
<1>4. PICK kind \in Outcomes : CompleteAwaiter(t, stack[t], c, kind)
  BY DEF SenderCompletes
<1>5. QED BY <1>2, <1>3, <1>4, SenderDone

LEMMA ScheduleRunsStep ==
    ASSUME IInv, NEW t \in Threads, NEW c \in Coroutines, ScheduleRuns(t, c)
    PROVE  IInv'
<1>1. /\ op[c] = "schedule" /\ Idle(t) /\ ScheduleOutcome \in Outcomes
      /\ CompleteAwaiter(t, stack[t], c, ScheduleOutcome)
      /\ UNCHANGED <<current_start, awaiting, result, stopping>>
  BY DEF ScheduleRuns, ScheduleOutcome, Outcomes
<1>2. ~Runs(t, "body") /\ ~Runs(t, "start")
  BY <1>1 DEF Runs
<1>3. QED BY <1>1, <1>2, SenderDone

-----------------------------------------------------------------------------
(* How a Task may end. *)
LEMMA Endings ==
    ASSUME NEW c
    PROVE  MayEndWith(c) \subseteq Outcomes
BY DEF MayEndWith, Outcomes

(* The first Task ends: its receiver is completed. *)
LEMMA FinishRootStep ==
    ASSUME IInv, NEW t \in Threads, Finish(t), NEW c, c = Top(t).co, c = Root, NEW k, k = Len(stack[t])
    PROVE  IInv'
<1> DEFINE s == stack[t]
           r == Below(s, 1)
<1>1. TypeOK /\ WellNested /\ Places /\ Awaited /\ Owned
  BY DEF IInv
<1>2. /\ s \in Seq(FrameSet) /\ Nested(s, awaiting) /\ current_start[t] = Innermost(s)
      /\ awaiting \in [Coroutines -> Nat] /\ \A d : Going(t, d) = GoingOn(s, d)
      /\ Runs(t, "body") /\ k # 0 /\ s[k].kind = "body" /\ s[k].co = c /\ k = Len(s)
  <2>1. Runs(t, "body")
    BY DEF Finish
  <2>2. QED BY <1>1, <2>1, OfThread DEF Top
<1>3. /\ \E kind \in Outcomes : result' = [result EXCEPT ![c] = kind]
      /\ callback # "none" => MayDropCallback(t)
      /\ callback' = (IF callback = "none" THEN "none" ELSE "gone")
      /\ destroyer' = t /\ SetStack(t, r)
      /\ UNCHANGED <<op, outcome, current_start, awaiting, stop, asked>>
  BY Endings DEF Finish
<1>4. c \in Coroutines /\ k \in Going(t, c) /\ Alone(c) /\ result[c] = "running" /\ op[c] = "none"
  BY <1>2, TopBody
<1> HIDE DEF s
<1>5. /\ r \in Seq(FrameSet) /\ Nested(r, awaiting) /\ Innermost(r) = Innermost(s)
      /\ Forwards(r) <=> Forwards(s)
      /\ \A d : GoingOn(r, d) = GoingOn(s, d) \ (IF d = c THEN {k} ELSE {})
  BY <1>2, <1>4, PoppedBody
<1> HIDE DEF r
<1>6. /\ awaiting' \in [Coroutines -> 0 .. Awaits] /\ Nested(r, awaiting')
      /\ \A d \in Coroutines : awaiting[d] <= awaiting'[d]
      /\ current_start'[t] = Innermost(r) /\ \A u \in Threads \ {t} : current_start'[u] = current_start[u]
  BY <1>1, <1>2, <1>3, <1>5 DEF TypeOK
<1>7. /\ stack' \in [Threads -> Seq(FrameSet)] /\ WellNested'
      /\ stack'[t] = r /\ \A u \in Threads \ {t} : stack'[u] = stack[u]
      /\ \A d : Going(t, d)' = GoingOn(r, d)
      /\ \A d : \A u \in Threads \ {t} : Going(u, d)' = Going(u, d)
  BY <1>1, <1>3, <1>5, <1>6, Replaced
<1>8. /\ result' \in [Coroutines -> {"unstarted", "running"} \cup Outcomes]
      /\ result'[c] \in Outcomes /\ \A d \in Coroutines : d # c => result'[d] = result[d]
  BY <1>1, <1>3, <1>4 DEF TypeOK
<1>9. TypeOK'
  BY <1>1, <1>3, <1>7, <1>8 DEF TypeOK
<1>10. result'[c] # "running"
  BY <1>8 DEF Outcomes
<1>11. Places'
  <2>1. Nowhere(c)'
    <3>1. Going(t, c)' = Going(t, c) \ {k}
      BY <1>2, <1>5, <1>7
    <3>2. QED BY <1>4, <1>7, <3>1, PlaceLeft
  <2>2. ASSUME NEW d \in Coroutines, d # c
        PROVE  (Alone(d)' <=> Alone(d)) /\ (Nowhere(d)' <=> Nowhere(d))
    <3>1. Going(t, d)' = GoingOn(s, d) \ {} /\ Going(t, d) = GoingOn(s, d)
      BY <1>2, <1>5, <1>7, <2>2
    <3>2. \A u \in Threads : Going(u, d)' = Going(u, d)
      BY <1>7, <3>1
    <3>3. QED BY <3>2, PlaceKept
  <2>3. ASSUME NEW d \in Coroutines
        PROVE  /\ result'[d] = "running" /\ op'[d] = "none" => Alone(d)'
               /\ result'[d] # "running" \/ op'[d] # "none" => Nowhere(d)'
    <3>1. CASE d = c
      BY <1>10, <2>1, <3>1
    <3>2. CASE d # c
      BY <1>1, <1>3, <1>8, <2>2, <3>2 DEF Places
    <3>3. QED BY <3>1, <3>2
  <2>4. QED BY <2>3 DEF Places
<1>12. Awaited'
  <2>1. ASSUME NEW d \in Coroutines PROVE op'[d] # "none" => result'[d] = "running"
    BY <1>1, <1>3, <1>4, <1>8 DEF Awaited
  <2>2. ASSUME NEW d \in Coroutines PROVE op'[d] = "task" => awaiting'[d] = 1
    BY <1>1, <1>3 DEF Awaited
  <2>3. ASSUME NEW d \in Coroutines, result'[d] = "running", NEW e \in Coroutines, e < d
        PROVE  result'[e] = "running" /\ op'[e] = "task"
    <3>1. d # c /\ result[d] = "running"
      BY <1>8, <1>10, <2>3
    <3>2. result[e] = "running" /\ op[e] = "task"
      BY <1>1, <2>3, <3>1 DEF Awaited
    <3>3. QED BY <1>3, <1>4, <1>8, <3>2
  <2>4. QED BY <2>1, <2>2, <2>3 DEF Awaited
<1>13. Owned'
  <2>1. \A u \in Threads : Forwards(stack'[u]) <=> Forwards(stack[u])
    BY <1>5, <1>7 DEF s
  <2>2. callback' # "armed" /\ (callback # "none" => callback' # "none")
    BY <1>3
  <2>3. ASSUME NEW u \in Threads \ {t} PROVE ~Forwards(stack[u])
    <3>1. CASE callback = "none"
      BY <1>1, <3>1 DEF Owned
    <3>2. CASE callback # "none"
      BY <1>3, <3>2 DEF MayDropCallback, Forwards
    <3>3. QED BY <3>1, <3>2
  <2>4. result'[Root] \in Outcomes
    BY <1>8
  <2>5. QED BY <1>1, <1>3, <2>1, <2>2, <2>3, <2>4 DEF Owned
<1>14. QED BY <1>7, <1>9, <1>11, <1>12, <1>13 DEF IInv

(* Another Task ends: it completes the awaiter of the one before it. *)
LEMMA FinishTaskStep ==
    ASSUME IInv, NEW t \in Threads, Finish(t), NEW c, c = Top(t).co, c # Root, NEW k, k = Len(stack[t]),
           NEW b, b = c - 1
    PROVE  IInv'
<1> DEFINE s == stack[t]
           r == Below(s, 1)
<1>1. TypeOK /\ WellNested /\ Places /\ Awaited /\ Owned
  BY DEF IInv
<1>2. /\ s \in Seq(FrameSet) /\ Nested(s, awaiting) /\ current_start[t] = Innermost(s)
      /\ awaiting \in [Coroutines -> Nat] /\ \A d : Going(t, d) = GoingOn(s, d)
      /\ Runs(t, "body") /\ k # 0 /\ s[k].kind = "body" /\ s[k].co = c /\ k = Len(s)
  <2>1. Runs(t, "body")
    BY DEF Finish
  <2>2. QED BY <1>1, <2>1, OfThread DEF Top
<1>3. PICK kind \in Outcomes :
         /\ result' = [result EXCEPT ![c] = kind] /\ CompleteAwaiter(t, r, b, kind)
         /\ UNCHANGED <<callback, destroyer, current_start, awaiting, stop, asked>>
  BY Endings DEF Finish
<1>4. c \in Coroutines /\ k \in Going(t, c) /\ Alone(c) /\ result[c] = "running" /\ op[c] = "none"
  BY <1>2, TopBody
<1>5. b \in Coroutines /\ b < c /\ b # c /\ \A d \in Coroutines : d < c => d = b \/ d < b
  BY <1>4, Numbers DEF Coroutines, Root
<1> HIDE DEF s
<1>6. /\ r \in Seq(FrameSet) /\ Nested(r, awaiting) /\ Innermost(r) = Innermost(s)
      /\ Len(r) = k - 1 /\ (Len(r) # 0 => r[Len(r)].kind # "body")
      /\ Forwards(r) <=> Forwards(s)
      /\ \A d : GoingOn(r, d) = GoingOn(s, d) \ (IF d = c THEN {k} ELSE {})
  BY <1>2, <1>4, PoppedBody
<1>7. \A i \in 1 .. Len(r) : r[i] = s[i]
  <2>1. Len(s) \in Nat /\ \A i \in 1 .. Len(s) : s[i] \in FrameSet
    BY <1>2, Stacks
  <2>2. Len(s) - 1 \in Nat /\ Len(s) - 1 <= Len(s)
    BY <1>2, <2>1
  <2> DEFINE h == Len(s) - 1
  <2>3. h \in Nat /\ h <= Len(s)
    BY <2>2
  <2>4. r = SubSeq(s, 1, h) /\ Len(r) = h
    BY <1>2, <1>6 DEF Below
  <2> HIDE DEF h, r
  <2>5. \A i \in 1 .. h : SubSeq(s, 1, h)[i] = s[i]
    BY <1>2, <2>3, StackFront
  <2>6. QED BY <2>4, <2>5
<1> HIDE DEF r
<1>8. result[b] = "running" /\ op[b] = "task" /\ awaiting[b] = 1 /\ Nowhere(b)
  BY <1>1, <1>4, <1>5 DEF Awaited, Places
<1>9. Innermost(r) # 0 => /\ Innermost(r) = Len(r) /\ Len(r) \in 1 .. Len(r) /\ r[Len(r)].kind = "start"
  <2>1. Innermost(r) = StartAt(r, Len(r))
    BY <1>6, InnermostOnTop
  <2>2. DOMAIN r = 1 .. Len(r)
    BY <1>6, Stacks
  <2>3. QED BY <2>1, <2>2 DEF StartAt
<1>10. Innermost(r) # 0 => r[Innermost(r)] = s[Innermost(r)]
  BY <1>7, <1>9
<1>11. Innermost(r) # 0 /\ r[Innermost(r)].co = b => r[Len(r)].n = awaiting[b]
  <2> SUFFICES ASSUME Innermost(r) # 0, r[Innermost(r)].co = b PROVE r[Len(r)].n = awaiting[b]
    OBVIOUS
  <2>1. IsStart(r, Len(r), awaiting)
    BY <1>6, <1>9, ByKind
  <2>2. r[Len(r)].n \in 1 .. awaiting[b]
    BY <1>9, <2>1 DEF IsStart
  <2>3. QED BY <1>8, <2>2
<1>12. PICK n : /\ stack' \in [Threads -> Seq(FrameSet)] /\ WellNested'
                /\ \A u \in Threads \ {t} : stack'[u] = stack[u]
                /\ Forwards(stack'[t]) <=> Forwards(r)
                /\ \A d : Going(t, d)' = GoingOn(r, d) \cup (IF d = b THEN {n} ELSE {})
                /\ \A d : \A u \in Threads \ {t} : Going(u, d)' = Going(u, d)
                /\ op' \in [Coroutines -> {"none", "task", "schedule", "sender"}]
                /\ op'[b] = "none" /\ \A d \in Coroutines : d # b => op'[d] = op[d]
                /\ outcome' \in [Coroutines -> {"none"} \cup Outcomes]
  <2>1. Innermost(r) = Innermost(stack[t]) /\ (Innermost(r) # 0 => r[Innermost(r)] = stack[t][Innermost(r)])
    BY <1>6, <1>10 DEF s
  <2>2. /\ stack' \in [Threads -> Seq(FrameSet)] /\ WellNested'
        /\ \A u \in Threads \ {t} : stack'[u] = stack[u]
        /\ Forwards(stack'[t]) <=> Forwards(r)
        /\ \E n : \A d : Going(t, d)' = GoingOn(r, d) \cup (IF d = b THEN {n} ELSE {})
        /\ \A d : \A u \in Threads \ {t} : Going(u, d)' = Going(u, d)
        /\ op' \in [Coroutines -> {"none", "task", "schedule", "sender"}]
        /\ op'[b] = "none" /\ \A d \in Coroutines : d # b => op'[d] = op[d]
        /\ outcome' \in [Coroutines -> {"none"} \cup Outcomes]
    BY <1>1, <1>3, <1>5, <1>6, <1>11, <2>1, Completing
  <2>3. QED BY <2>2
<1>13. \A d : Going(t, d)' = (Going(t, d) \ (IF d = c THEN {k} ELSE {})) \cup (IF d = b THEN {n} ELSE {})
  BY <1>2, <1>6, <1>12
<1>14. /\ result' \in [Coroutines -> {"unstarted", "running"} \cup Outcomes]
       /\ result'[c] \in Outcomes /\ \A d \in Coroutines : d # c => result'[d] = result[d]
  BY <1>1, <1>3, <1>4 DEF TypeOK
<1>15. TypeOK'
  BY <1>1, <1>3, <1>12, <1>14 DEF TypeOK
<1>16. result'[c] # "running" /\ result'[b] = "running"
  BY <1>5, <1>8, <1>14 DEF Outcomes
<1>17. Places'
  <2>1. Nowhere(c)'
    <3>1. Going(t, c)' = Going(t, c) \ {k}
      BY <1>5, <1>13
    <3>2. QED BY <1>4, <1>12, <3>1, PlaceLeft
  <2>2. Alone(b)'
    <3>1. Going(t, b)' = Going(t, b) \cup {n}
      BY <1>5, <1>13
    <3>2. QED BY ZenonT(60), <1>8, <1>12, <3>1, PlaceTaken
  <2>3. ASSUME NEW d \in Coroutines, d # c, d # b
        PROVE  (Alone(d)' <=> Alone(d)) /\ (Nowhere(d)' <=> Nowhere(d))
    <3>1. Going(t, d)' = Going(t, d)
      BY <1>13, <2>3
    <3>2. \A u \in Threads : Going(u, d)' = Going(u, d)
      BY <1>12, <3>1
    <3>3. QED BY <3>2, PlaceKept
  <2>4. ASSUME NEW d \in Coroutines
        PROVE  /\ result'[d] = "running" /\ op'[d] = "none" => Alone(d)'
               /\ result'[d] # "running" \/ op'[d] # "none" => Nowhere(d)'
    <3>1. CASE d = c
      BY <1>16, <2>1, <3>1
    <3>2. CASE d = b
      BY <1>12, <1>16, <2>2, <3>2
    <3>3. CASE d # c /\ d # b
      BY <1>1, <1>12, <1>14, <2>3, <3>3 DEF Places
    <3>4. QED BY <3>1, <3>2, <3>3
  <2>5. QED BY <2>4 DEF Places
<1>18. Awaited'
  <2>1. ASSUME NEW d \in Coroutines PROVE op'[d] # "none" => result'[d] = "running"
    BY <1>1, <1>4, <1>5, <1>12, <1>14 DEF Awaited
  <2>2. ASSUME NEW d \in Coroutines PROVE op'[d] = "task" => awaiting'[d] = 1
    BY <1>1, <1>3, <1>12 DEF Awaited
  <2>3. ASSUME NEW d \in Coroutines, result'[d] = "running", NEW e \in Coroutines, e < d
        PROVE  result'[e] = "running" /\ op'[e] = "task"
    <3>1. d # c /\ result[d] = "running"
      BY <1>14, <1>16, <2>3
    <3>2. result[e] = "running" /\ op[e] = "task"
      BY <1>1, <2>3, <3>1 DEF Awaited
    <3>3. ~(c < d)
      BY <1>1, <1>4, <3>1 DEF Awaited
    <3>4. c \in Nat /\ d \in Nat /\ e \in Nat /\ b \in Nat
      BY <1>4, <1>5, Numbers
    <3>5. e # b /\ e # c
      BY <1>5, <2>3, <3>1, <3>3, <3>4
    <3>6. QED BY <1>12, <1>14, <3>2, <3>5
  <2>4. QED BY <2>1, <2>2, <2>3 DEF Awaited
<1>19. Owned'
  <2>1. \A u \in Threads : Forwards(stack'[u]) <=> Forwards(stack[u])
    BY <1>6, <1>12 DEF s
  <2>2. result'[Root] = result[Root]
    BY <1>14, Numbers
  <2>3. QED BY <1>1, <1>3, <2>1, <2>2, OwnedKept
<1>20. QED BY <1>12, <1>15, <1>17, <1>18, <1>19 DEF IInv

-----------------------------------------------------------------------------
LEMMA AwaitStep ==
    ASSUME IInv, NEW t \in Threads, Await(t)
    PROVE  IInv'
<1>1. PICK c : c = Top(t).co
  OBVIOUS
<1>2. PICK k : k = Len(stack[t])
  OBVIOUS
<1>3. CASE AwaitsTask(c)
  BY <1>1, <1>2, <1>3, AwaitTaskStep
<1>4. CASE ~AwaitsTask(c)
  BY <1>1, <1>2, <1>4, AwaitSenderStep
<1>5. QED BY <1>3, <1>4

LEMMA FinishStep ==
    ASSUME IInv, NEW t \in Threads, Finish(t)
    PROVE  IInv'
<1>1. PICK c : c = Top(t).co
  OBVIOUS
<1>2. PICK k : k = Len(stack[t])
  OBVIOUS
<1>3. PICK b : b = c - 1
  OBVIOUS
<1>4. CASE c = Root
  BY <1>1, <1>2, <1>4, FinishRootStep
<1>5. CASE c # Root
  BY <1>1, <1>2, <1>3, <1>5, FinishTaskStep
<1>6. QED BY <1>4, <1>5

LEMMA Unchanged ==
    ASSUME IInv, UNCHANGED vars
    PROVE  IInv'
<1>1. UNCHANGED <<stack, current_start, awaiting, op, outcome, result, stop, asked, callback, destroyer>>
  BY DEF vars
<1>2. TypeOK' /\ WellNested' /\ Awaited' /\ Owned'
  BY <1>1 DEF IInv, TypeOK, WellNested, Awaited, Owned
<1>3. Places'
  <2>1. ASSUME NEW c \in Coroutines PROVE (Alone(c)' <=> Alone(c)) /\ (Nowhere(c)' <=> Nowhere(c))
    <3>1. \A u \in Threads : Going(u, c)' = Going(u, c)
      BY <1>1 DEF Going
    <3>2. QED BY <3>1, PlaceKept
  <2>2. QED BY <1>1, <2>1 DEF IInv, Places
<1>4. QED BY <1>2, <1>3 DEF IInv

LEMMA Step ==
    ASSUME CompletesLater = FALSE
    PROVE  IInv /\ [Next]_vars => IInv'
<1> SUFFICES ASSUME IInv, [Next]_vars PROVE IInv'
  OBVIOUS
<1>1. ASSUME NEW t \in Threads, Start(t) PROVE IInv'
  BY <1>1, StartStep
<1>2. ASSUME NEW t \in Threads, ThreadStep(t) PROVE IInv'
  BY <1>2, AwaitStep, StartReturnsStep, FinishStep, CallbackReturnsStep DEF ThreadStep
<1>3. ASSUME NEW t \in Threads, RequestStop(t) PROVE IInv'
  BY <1>3, RequestStopStep
<1>4. ASSUME NEW t \in Threads, NEW c \in Coroutines, Completes(t, c) PROVE IInv'
  BY <1>4, SenderCompletesStep, ScheduleRunsStep DEF Completes
<1>5. CASE Rest \/ UNCHANGED vars
  BY <1>5, Unchanged DEF Rest
<1>6. QED BY <1>1, <1>2, <1>3, <1>4, <1>5 DEF Next

-----------------------------------------------------------------------------
(* The places where coroutines go on are those of coroutines that run and  *)
(* await nothing, one for each.                                            *)
LEMMA OnePlace ==
    ASSUME Places, NEW c \in Coroutines, NEW t \in Threads, NEW i \in Going(t, c)
    PROVE  /\ result[c] = "running" /\ op[c] = "none"
           /\ \A u \in Threads : \A j \in Going(u, c) : u = t /\ j = i
<1>1. ~Nowhere(c)
  BY DEF Nowhere
<1>2. result[c] = "running" /\ op[c] = "none" /\ Alone(c)
  BY <1>1 DEF Places
<1>3. PICK v \in Threads : \E k \in Going(v, c) : \A u \in Threads : \A j \in Going(u, c) : u = v /\ j = k
  BY <1>2 DEF Alone
<1>4. \A u \in Threads : \A j \in Going(u, c) : u = t /\ j = i
  BY <1>3
<1>5. QED BY <1>2, <1>4

LEMMA InOnePlace ==
    IInv => RunsInOnePlace
<1> SUFFICES ASSUME IInv PROVE RunsInOnePlace
  OBVIOUS
<1>1. TypeOK /\ WellNested /\ Places
  BY DEF IInv
<1>2. MarksOwnStart
  <2>1. ASSUME NEW t \in Threads, NEW i \in DOMAIN stack[t] PROVE stack[t][i].mark \in {0, stack[t][i].n}
    <3>1. stack[t] \in Seq(FrameSet) /\ Nested(stack[t], awaiting)
      BY <1>1, OfThread
    <3>2. i \in 1 .. Len(stack[t]) /\ stack[t][i].kind \in {"body", "start", "callback"}
      BY <3>1, Stacks
    <3>3. QED BY <3>1, <3>2, ByKind DEF IsStart
  <2>2. QED BY <2>1 DEF MarksOwnStart, Frames
<1>3. \A c \in Coroutines, t, u \in Threads : \A i \in Going(t, c), j \in Going(u, c) :
         <<t, i>> = <<u, j>> /\ op[c] = "none" /\ result[c] = "running"
  BY <1>1, OnePlace
<1>4. ASSUME NEW t \in Threads
      PROVE  /\ current_start[t] \in {0} \cup DOMAIN stack[t]
             /\ current_start[t] # 0 => stack[t][current_start[t]].kind = "start"
  BY <1>1, OfThread DEF Innermost, StartAt
<1>5. QED BY <1>2, <1>3, <1>4 DEF RunsInOnePlace

LEMMA AllEnded ==
    ASSUME IInv, destroyer # None
    PROVE  /\ result[Root] \in Outcomes /\ callback # "armed"
           /\ \A c \in Coroutines : result[c] # "running" /\ op[c] = "none"
<1>1. Awaited /\ Owned
  BY DEF IInv
<1>2. result[Root] \in Outcomes /\ result[Root] # "running" /\ callback # "armed"
  BY <1>1 DEF Owned, Outcomes
<1>3. ASSUME NEW c \in Coroutines PROVE result[c] # "running"
  <2>1. c # Root => Root < c
    BY DEF Coroutines, Root
  <2>2. QED BY <1>1, <1>2, <2>1, Numbers DEF Awaited
<1>4. \A c \in Coroutines : op[c] = "none"
  BY <1>1, <1>3 DEF Awaited
<1>5. QED BY <1>2, <1>3, <1>4

LEMMA NothingLeft ==
    IInv => NoUseAfterDestroy
<1> SUFFICES ASSUME IInv, destroyer # None
             PROVE  /\ callback # "armed"
                    /\ \A t \in Threads \ {destroyer} : Callback \notin Frames(t)
                    /\ \A c \in Coroutines, t \in Threads : Going(t, c) = {} /\ op[c] = "none"
  BY DEF NoUseAfterDestroy
<1>1. Places /\ Owned
  BY DEF IInv
<1>2. ASSUME NEW t \in Threads \ {destroyer} PROVE Callback \notin Frames(t)
  BY <1>1, Kinds DEF Owned, Forwards, Frames
<1>3. ASSUME NEW c \in Coroutines, NEW t \in Threads PROVE Going(t, c) = {} /\ op[c] = "none"
  BY <1>1, AllEnded DEF Places, Nowhere
<1>4. QED BY <1>2, <1>3, AllEnded

LEMMA NothingWritten ==
    ASSUME IInv, [Next]_vars, destroyer # None
    PROVE  UNCHANGED <<awaiting, op, outcome, result, stop, callback, destroyer>>
<1> DEFINE Untouched == UNCHANGED <<awaiting, op, outcome, result, stop, callback, destroyer>>
<1>1. ASSUME NEW t \in Threads, Start(t) PROVE FALSE
  BY <1>1, AllEnded DEF Start, Outcomes
<1>2. ASSUME NEW t \in Threads, Runs(t, "body") PROVE FALSE
  BY <1>2, TopBody, AllEnded
<1>3. ASSUME NEW t \in Threads, ThreadStep(t) PROVE Untouched
  BY <1>2, <1>3 DEF ThreadStep, Await, Finish, StartReturns, CallbackReturns, stopping
<1>4. ASSUME NEW t \in Threads, RequestStop(t) PROVE Untouched
  BY <1>4, AllEnded DEF RequestStop
<1>5. ASSUME NEW t \in Threads, NEW c \in Coroutines, Completes(t, c) PROVE FALSE
  BY <1>5, AllEnded DEF Completes, SenderCompletes, ScheduleRuns
<1>6. CASE Rest \/ UNCHANGED vars
  BY <1>6 DEF Rest, vars
<1>7. QED BY <1>1, <1>3, <1>4, <1>5, <1>6 DEF Next

-----------------------------------------------------------------------------
(* The state keeps its types: of the frames and current_start of each      *)
(* thread, and of what each coroutine awaits (co2.hpp).                    *)
THEOREM TypeCorrect ==
    ASSUME CompletesLater = FALSE
    PROVE  Spec => []TypeOK
<1>1. IInv => TypeOK
  BY DEF IInv
<1>2. QED BY Beginning, Step, <1>1, PTL DEF Spec

(* A coroutine goes on at one place at a time, and only while it awaits    *)
(* nothing; a start() is told of its own completion only, and              *)
(* current_start never points into one that has returned: await_suspend    *)
(* and complete in co2.hpp.                                                *)
THEOREM ResumedOnce ==
    ASSUME CompletesLater = FALSE
    PROVE  Spec => []RunsInOnePlace
<1>1. QED BY Beginning, Step, InOnePlace, PTL DEF Spec

(* When the first Task's receiver is completed, no other thread is inside  *)
(* the stop callback, none is left to run, and no coroutine goes on or is  *)
(* awaited: finish in co2.hpp.                                             *)
THEOREM DestroyedAtRest ==
    ASSUME CompletesLater = FALSE
    PROVE  Spec => []NoUseAfterDestroy
<1>1. QED BY Beginning, Step, NothingLeft, PTL DEF Spec

(* Once the first Task's receiver was completed, and its owner may have    *)
(* destroyed the operation, no step writes to what belongs to it: to an    *)
(* awaiter, a Task, the stop source or the callback (finish, complete and  *)
(* the stop callback in co2.hpp).                                          *)
THEOREM DestroyedStaysUntouched ==
    ASSUME CompletesLater = FALSE
    PROVE  Spec => [][destroyer # None =>
                         UNCHANGED <<awaiting, op, outcome, result, stop, callback, destroyer>>]_vars
<1> DEFINE Untouched == UNCHANGED <<awaiting, op, outcome, result, stop, callback, destroyer>>
<1>1. IInv /\ [Next]_vars => [destroyer # None => Untouched]_vars
  BY NothingWritten
<1>2. QED BY Beginning, Step, <1>1, PTL DEF Spec
=============================================================================
