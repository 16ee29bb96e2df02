--------------------------- MODULE OutQueueProofs ---------------------------
(***************************************************************************)
(* OutQueue, for any reports, usages and interfaces, any length of the     *)
(* queue and width of the relative field: its types, that prev_reports is  *)
(* what is newest on its way to the host (OutQueueInv), and that no motion *)
(* is lost or invented (MotionConserved).                                  *)
(*                                                                         *)
(* The model folds over sequences.  What a fold computes is proved by      *)
(* induction on its length, as a statement about a set of numbers (UpTo).  *)
(***************************************************************************)
EXTENDS OutQueue, SequenceTheorems, WellFoundedInduction, TLAPS

-----------------------------------------------------------------------------
(* Induction, and folds from the left.                                     *)

\* A set of numbers has a least one.
LEMMA LeastElement ==
  ASSUME NEW T \in SUBSET Nat, T # {}
  PROVE  \E x \in T : \A y \in T : x <= y
<1>1. PICK x \in T : \A y \in T : <<y, x>> \notin OpToRel(<, Nat)
  BY NatLessThanWellFounded, WFMin
<1>2. \A y \in T : ~(y < x)
  BY <1>1 DEF OpToRel
<1> QED
  BY <1>2

\* A set with 0 and with the successor of each of its members below N has every number up to N.
LEMMA UpTo ==
  ASSUME NEW N \in Nat, NEW T, 0 \in T, \A n \in 0 .. N - 1 : n \in T => n + 1 \in T
  PROVE  \A n \in 0 .. N : n \in T
<1> SUFFICES ASSUME NEW m \in 0 .. N, m \notin T PROVE FALSE
  OBVIOUS
<1> DEFINE U == {n \in 0 .. N : n \notin T}
<1>1. PICK x \in U : \A y \in U : x <= y
  <2>1. U \in SUBSET Nat /\ U # {}
    OBVIOUS
  <2> HIDE DEF U
  <2> QED
    BY <2>1, LeastElement
<1>2. x \in 0 .. N /\ x \notin T /\ x # 0 /\ x - 1 \in 0 .. N - 1
  BY <1>1
<1>3. x - 1 \notin U
  <2>1. ~(x <= x - 1)
    BY <1>2
  <2> QED
    BY <1>1, <2>1
<1>4. x - 1 \in T
  BY <1>2, <1>3
<1>5. x - 1 + 1 = x
  BY <1>2
<1> QED
  BY <1>2, <1>4, <1>5

\* The greatest element of a set, ...
LEMMA MaxIs ==
  ASSUME NEW S \in SUBSET Nat, NEW m \in S, \A x \in S : x <= m
  PROVE  Max(S) = m
<1>1. /\ Max(S) \in S /\ \A x \in S : Max(S) >= x
  BY DEF Max
<1>2. Max(S) \in Nat /\ m \in Nat /\ Max(S) >= m /\ Max(S) <= m
  BY <1>1
<1> QED
  BY <1>2

\* ... which a set of indices has.
LEMMA MaxIn ==
  ASSUME NEW L \in Nat, NEW S \in SUBSET (1 .. L), S # {}
  PROVE  Max(S) \in S /\ \A x \in S : x <= Max(S)
<1> DEFINE U == {m \in 0 .. L : \A x \in S : x <= m}
<1>1. PICK m \in U : \A y \in U : m <= y
  <2>1. U \in SUBSET Nat /\ L \in U
    OBVIOUS
  <2> HIDE DEF U
  <2> QED
    BY <2>1, LeastElement
<1>2. m # 0
  <2>1. PICK x \in S : TRUE
    OBVIOUS
  <2>2. x <= m /\ x \in 1 .. L /\ m \in Nat
    BY <2>1
  <2> QED
    BY <2>2
<1>3. m \in S
  <2> SUFFICES ASSUME m \notin S PROVE FALSE
    OBVIOUS
  <2>1. m - 1 \in U
    BY <1>2
  <2> QED
    BY <1>1, <2>1
<1> QED
  BY <1>1, <1>3, MaxIs

\* The function by which FoldLeft is defined, for accumulators in Acc and one step per index.
IsFold(g, Acc, base, n, step) ==
  /\ g \in [SUBSET (1 .. n) -> Acc]
  /\ \A s \in SUBSET (1 .. n) :
       g[s] = IF s = {} THEN base ELSE step[Max(s)][g[s \ {Max(s)}]]

\* There is one, whatever the steps.
LEMMA FoldExists ==
  ASSUME NEW Acc, NEW base \in Acc, NEW L \in Nat, NEW step \in [1 .. L -> [Acc -> Acc]]
  PROVE  \E g : IsFold(g, Acc, base, L, step)
<1> USE DEF IsFold
<1> DEFINE T == {n \in 0 .. L : \E g : IsFold(g, Acc, base, n, step)}
<1>1. 0 \in T
  <2> DEFINE g == [s \in SUBSET (1 .. 0) |-> base]
  <2>1. \A s \in SUBSET (1 .. 0) : s = {}
    OBVIOUS
  <2>2. IsFold(g, Acc, base, 0, step)
    BY <2>1
  <2> HIDE DEF IsFold, g
  <2> QED
    BY <2>2
<1>2. ASSUME NEW n \in 0 .. L - 1, n \in T PROVE n + 1 \in T
  <2>1. PICK g : IsFold(g, Acc, base, n, step)
    BY <1>2
  <2> DEFINE h == [s \in SUBSET (1 .. n + 1) |->
                     IF n + 1 \in s THEN step[n + 1][g[s \ {n + 1}]] ELSE g[s]]
  <2>2. \A s \in SUBSET (1 .. n + 1) : s \ {n + 1} \in SUBSET (1 .. n)
    BY <1>2
  <2>3. n + 1 \in 1 .. L /\ \A x \in 1 .. n + 1 : x <= n + 1
    BY <1>2
  <2>4. \A s \in SUBSET (1 .. n + 1) : n + 1 \in s => Max(s) = n + 1
    BY <1>2, <2>3, MaxIs
  <2>5. \A s \in SUBSET (1 .. n + 1) : n + 1 \notin s => s \in SUBSET (1 .. n)
    BY <2>2
  <2>6. \A s \in SUBSET (1 .. n + 1) : h[s] \in Acc
    BY <2>1, <2>2, <2>3, <2>5
  <2>7. ASSUME NEW s \in SUBSET (1 .. n + 1)
        PROVE  h[s] = IF s = {} THEN base ELSE step[Max(s)][h[s \ {Max(s)}]]
    <3>1. CASE n + 1 \in s
      <4>1. n + 1 \notin s \ {n + 1} /\ s \ {n + 1} \in SUBSET (1 .. n + 1)
        BY <2>2
      <4>2. h[s \ {n + 1}] = g[s \ {n + 1}]
        BY <4>1
      <4> QED
        BY <2>4, <3>1, <4>2
    <3>2. CASE n + 1 \notin s
      <4>1. s \in SUBSET (1 .. n) /\ h[s] = g[s]
        BY <2>5, <3>2
      <4>2. s \ {Max(s)} \in SUBSET (1 .. n + 1) /\ n + 1 \notin s \ {Max(s)}
        BY <3>2
      <4>3. h[s \ {Max(s)}] = g[s \ {Max(s)}]
        BY <4>2
      <4> QED
        BY <2>1, <4>1, <4>3
    <3> QED
      BY <3>1, <3>2
  <2>8. IsFold(h, Acc, base, n + 1, step)
    BY <2>6, <2>7
  <2>9. n + 1 \in 0 .. L
    BY <1>2
  <2> HIDE DEF IsFold, h
  <2> QED
    BY <2>8, <2>9
<1>3. L \in T
  <2> HIDE DEF T
  <2>1. \A n \in 0 .. L : n \in T
    BY <1>1, <1>2, UpTo
  <2> QED
    BY <2>1
<1> QED
  BY <1>3

\* The value of a fold after each of its steps.
FoldValues(f, Acc, base, L, step, total) ==
  /\ f \in [0 .. L -> Acc]
  /\ f[0] = base
  /\ \A n \in 0 .. L - 1 : f[n + 1] = step[n + 1][f[n]]
  /\ f[L] = total

\* What the recursion does to an index at a time.
Unfolds(iter, Acc, base, L, step) ==
  /\ iter[{}] = base
  /\ \A s \in SUBSET (1 .. L) :
       s # {} /\ iter[s \ {Max(s)}] \in Acc => iter[s] = step[Max(s)][iter[s \ {Max(s)}]]

LEMMA FoldSteps ==
  ASSUME NEW Acc, NEW base \in Acc, NEW L \in Nat, NEW step \in [1 .. L -> [Acc -> Acc]], NEW iter,
         Unfolds(iter, Acc, base, L, step)
  PROVE  \E f : FoldValues(f, Acc, base, L, step, iter[1 .. L])
<1> DEFINE f == [n \in 0 .. L |-> iter[1 .. n]]
<1>1. \A n \in 0 .. L : (1 .. n) \in SUBSET (1 .. L)
  OBVIOUS
<1>2. f[0] = base
  <2>1. (1 .. 0) = {} /\ 0 \in 0 .. L
    OBVIOUS
  <2> QED
    BY <1>1, <2>1 DEF Unfolds
<1>3. ASSUME NEW n \in 0 .. L - 1, f[n] \in Acc PROVE f[n + 1] = step[n + 1][f[n]]
  <2>1. /\ n + 1 \in 0 .. L /\ n \in 0 .. L /\ n + 1 \in 1 .. n + 1
        /\ \A x \in 1 .. n + 1 : x <= n + 1
        /\ (1 .. n + 1) \in SUBSET Nat
    OBVIOUS
  <2>2. Max(1 .. n + 1) = n + 1
    BY <2>1, MaxIs
  <2>3. (1 .. n + 1) # {}
    BY <2>1
  <2>4. (1 .. n + 1) \ {n + 1} = 1 .. n
    <3>1. \A x \in 1 .. n + 1 : x # n + 1 => x \in 1 .. n
      OBVIOUS
    <3>2. \A x \in 1 .. n : x \in 1 .. n + 1 /\ x # n + 1
      OBVIOUS
    <3> QED
      BY <3>1, <3>2
  <2>5. iter[1 .. n] \in Acc
    BY <1>3, <2>1
  <2>6. iter[1 .. n + 1] = step[n + 1][iter[1 .. n]]
    BY <1>1, <2>1, <2>2, <2>3, <2>4, <2>5 DEF Unfolds
  <2> QED
    BY <2>1, <2>6
<1> HIDE DEF f
<1>4. \A n \in 0 .. L : f[n] \in Acc
  <2> DEFINE T == {n \in 0 .. L : f[n] \in Acc}
  <2>1. 0 \in T
    BY <1>2
  <2>2. ASSUME NEW n \in 0 .. L - 1, n \in T PROVE n + 1 \in T
    BY <1>3, <2>2
  <2> HIDE DEF T
  <2>3. \A n \in 0 .. L : n \in T
    BY <2>1, <2>2, UpTo
  <2> QED
    BY <2>3 DEF T
<1>5. f[L] = iter[1 .. L] /\ f = [n \in 0 .. L |-> f[n]]
  BY DEF f
<1>6. f \in [0 .. L -> Acc]
  BY <1>4, <1>5
<1>7. \A n \in 0 .. L - 1 : f[n + 1] = step[n + 1][f[n]]
  BY <1>3, <1>4
<1>8. FoldValues(f, Acc, base, L, step, iter[1 .. L])
  BY <1>2, <1>5, <1>6, <1>7 DEF FoldValues
<1> QED
  BY <1>8

-----------------------------------------------------------------------------
(* The motion in the queue.                                                *)

\* An item's motion is a number.
LEMMA MotionType == ASSUME NEW item \in Items PROVE Motion(item) \in Int
  BY OutQueueAssumption DEF Motion, Items, Contents, Half

QueuedValues(f, items) ==
  /\ f \in [0 .. Len(items) -> Int]
  /\ f[0] = 0
  /\ \A n \in 0 .. Len(items) - 1 : f[n + 1] = f[n] + Motion(items[n + 1])

\* The sum is what adding the items up one after the other comes to.
LEMMA QueuedSteps ==
  ASSUME NEW items \in Seq(Items)
  PROVE  \E f : QueuedValues(f, items) /\ f[Len(items)] = Queued(items)
<1> DEFINE L == Len(items)
           step == [i \in 1 .. L |-> [sum \in Int |-> sum + Motion(items[i])]]
           Is(g) == g = [s \in SUBSET (DOMAIN items) |->
                           IF s = {} THEN 0 ELSE g[s \ {Max(s)}] + Motion(items[Max(s)])]
           iter == CHOOSE g : Is(g)
<1>1. Queued(items) = iter[DOMAIN items]
  BY DEF Queued, FoldLeft, MapThenFoldSet
<1>2. L \in Nat /\ DOMAIN items = 1 .. L /\ \A i \in 1 .. L : Motion(items[i]) \in Int
  BY MotionType
<1>3. L \in Nat /\ step \in [1 .. L -> [Int -> Int]] /\ 0 \in Int
  BY <1>2
<1> HIDE DEF L
<1>4. PICK g : IsFold(g, Int, 0, L, step)
  <2> HIDE DEF step
  <2> QED
    BY <1>3, FoldExists, Zenon
<1>5. ASSUME NEW h, Is(h), NEW s \in SUBSET (1 .. L)
      PROVE  h[s] = IF s = {} THEN 0 ELSE h[s \ {Max(s)}] + Motion(items[Max(s)])
  BY <1>2, <1>5
<1>6. ASSUME NEW s \in SUBSET (1 .. L)
      PROVE  g[s] = IF s = {} THEN 0 ELSE g[s \ {Max(s)}] + Motion(items[Max(s)])
  <2>1. CASE s = {}
    BY <1>4, <2>1 DEF IsFold
  <2>2. CASE s # {}
    <3>1. Max(s) \in 1 .. L /\ s \ {Max(s)} \in SUBSET (1 .. L)
      BY <1>2, <2>2, MaxIn
    <3>2. g[s \ {Max(s)}] \in Int
      BY <1>4, <3>1 DEF IsFold
    <3> QED
      BY <1>4, <2>2, <3>1, <3>2 DEF IsFold
  <2> QED
    BY <2>1, <2>2
<1>7. Is(g)
  BY <1>2, <1>4, <1>6 DEF IsFold
<1>8. Is(iter)
  <2> HIDE DEF Is
  <2> QED
    BY <1>7
<1> HIDE DEF iter
<1>9. Unfolds(iter, Int, 0, L, step)
  <2>1. iter[{}] = 0
    BY <1>5, <1>8
  <2>2. ASSUME NEW s \in SUBSET (1 .. L), s # {}, iter[s \ {Max(s)}] \in Int
        PROVE  iter[s] = step[Max(s)][iter[s \ {Max(s)}]]
    <3>1. Max(s) \in 1 .. L
      BY <1>2, <2>2, MaxIn
    <3>2. iter[s] = iter[s \ {Max(s)}] + Motion(items[Max(s)])
      BY <1>5, <1>8, <2>2
    <3> QED
      BY <2>2, <3>1, <3>2
  <2> QED
    BY <2>1, <2>2 DEF Unfolds
<1>10. PICK f : FoldValues(f, Int, 0, L, step, iter[1 .. L])
  <2> HIDE DEF step
  <2> QED
    BY <1>3, <1>9, FoldSteps, Zenon
<1>11. ASSUME NEW n \in 0 .. L - 1 PROVE f[n + 1] = f[n] + Motion(items[n + 1])
  <2>1. n \in 0 .. L /\ n + 1 \in 1 .. L /\ f[n] \in Int
    BY <1>2, <1>10 DEF FoldValues
  <2> QED
    BY <1>10, <2>1 DEF FoldValues
<1>12. QueuedValues(f, items)
  BY <1>2, <1>10, <1>11 DEF FoldValues, QueuedValues, L
<1> QED
  BY <1>1, <1>2, <1>10, <1>12 DEF L, FoldValues

\* The sum of a queue is a number, and 0 of an empty one.
LEMMA QueuedType == ASSUME NEW items \in Seq(Items) PROVE Queued(items) \in Int
<1>1. PICK f : QueuedValues(f, items) /\ f[Len(items)] = Queued(items)
  BY QueuedSteps
<1>2. Len(items) \in 0 .. Len(items)
  BY LenProperties
<1> QED
  BY <1>1, <1>2 DEF QueuedValues

LEMMA QueuedEmpty == Queued(<< >>) = 0
<1>1. << >> \in Seq(Items) /\ Len(<< >>) = 0
  BY EmptySeq
<1>2. PICK f : QueuedValues(f, << >>) /\ f[Len(<< >>)] = Queued(<< >>)
  BY <1>1, QueuedSteps
<1> QED
  BY <1>1, <1>2 DEF QueuedValues

\* Queues that begin alike have equal sums up to there.
LEMMA QueuedPrefix ==
  ASSUME NEW s \in Seq(Items), NEW t \in Seq(Items), NEW L \in Nat, L <= Len(s), L <= Len(t),
         \A p \in 1 .. L : s[p] = t[p],
         NEW f, QueuedValues(f, s), NEW g, QueuedValues(g, t)
  PROVE  f[L] = g[L]
<1> DEFINE T == {n \in 0 .. L : f[n] = g[n]}
<1>0. Len(s) \in Nat /\ Len(t) \in Nat
  BY LenProperties
<1>1. 0 \in T
  BY DEF QueuedValues
<1>2. ASSUME NEW n \in 0 .. L - 1, n \in T PROVE n + 1 \in T
  <2>1. n + 1 \in 1 .. L /\ n + 1 \in 0 .. L /\ n \in 0 .. Len(s) - 1 /\ n \in 0 .. Len(t) - 1
    BY <1>0
  <2>2. f[n + 1] = f[n] + Motion(s[n + 1]) /\ g[n + 1] = g[n] + Motion(t[n + 1])
    BY <2>1 DEF QueuedValues
  <2> QED
    BY <1>2, <2>1, <2>2
<1> HIDE DEF T
<1>3. L \in T
  <2>1. \A n \in 0 .. L : n \in T
    BY <1>1, <1>2, UpTo
  <2> QED
    BY <2>1
<1> QED
  BY <1>3 DEF T

\* An item appended adds its motion, ...
LEMMA QueuedAppend ==
  ASSUME NEW items \in Seq(Items), NEW item \in Items
  PROVE  Queued(Append(items, item)) = Queued(items) + Motion(item)
<1> DEFINE n == Len(items)
           more == Append(items, item)
<1>1. /\ more \in Seq(Items) /\ n \in Nat /\ Len(more) = n + 1 /\ more[n + 1] = item
      /\ \A p \in 1 .. n : items[p] = more[p]
  BY AppendProperties, LenProperties
<1>2. PICK f : QueuedValues(f, items) /\ f[n] = Queued(items)
  BY QueuedSteps
<1>3. PICK g : QueuedValues(g, more) /\ g[n + 1] = Queued(more)
  <2> HIDE DEF n, more
  <2> QED
    BY <1>1, QueuedSteps
<1> HIDE DEF n, more
<1>4. f[n] = g[n]
  <2>1. n <= Len(items) /\ n <= Len(more)
    BY <1>1 DEF n
  <2> QED
    BY <1>1, <1>2, <1>3, <2>1, QueuedPrefix
<1>5. g[n + 1] = g[n] + Motion(more[n + 1])
  <2>1. n \in 0 .. Len(more) - 1
    BY <1>1
  <2> QED
    BY <1>3, <2>1 DEF QueuedValues
<1> QED
  BY <1>1, <1>2, <1>3, <1>4, <1>5 DEF more

\* ... the head takes its own away, ...
LEMMA QueuedTail ==
  ASSUME NEW items \in Seq(Items), items # << >>
  PROVE  Queued(items) = Motion(Head(items)) + Queued(Tail(items))
<1> DEFINE n == Len(items)
           rest == Tail(items)
<1>1. /\ rest \in Seq(Items) /\ n \in Nat \ {0} /\ Len(rest) = n - 1 /\ Head(items) = items[1]
      /\ \A p \in 1 .. n - 1 : rest[p] = items[p + 1]
  BY HeadTailProperties, LenProperties, EmptySeq
<1>2. PICK f : QueuedValues(f, items) /\ f[n] = Queued(items)
  BY QueuedSteps
<1>3. PICK g : QueuedValues(g, rest) /\ g[n - 1] = Queued(rest)
  <2> HIDE DEF n, rest
  <2> QED
    BY <1>1, QueuedSteps
<1>0. \A p \in 1 .. n : Motion(items[p]) \in Int
  BY MotionType
<1> HIDE DEF n, rest
<1> DEFINE T == {k \in 0 .. n - 1 : f[k + 1] = Motion(items[1]) + g[k] /\ g[k] \in Int}
<1>4. 0 \in T
  <2>1. 0 \in 0 .. Len(items) - 1 /\ 0 \in 0 .. n - 1 /\ 1 \in 1 .. n
    BY <1>1 DEF n
  <2> QED
    BY <1>0, <1>2, <1>3, <2>1 DEF QueuedValues
<1>5. ASSUME NEW k \in 0 .. (n - 1) - 1, k \in T PROVE k + 1 \in T
  <2>1. /\ k \in 0 .. Len(rest) - 1 /\ k + 1 \in 0 .. Len(items) - 1 /\ k + 1 \in 0 .. n - 1
        /\ k + 1 \in 1 .. n - 1 /\ k + 1 + 1 \in 1 .. n /\ 1 \in 1 .. n
    BY <1>1 DEF n
  <2>2. g[k + 1] = g[k] + Motion(rest[k + 1]) /\ f[k + 1 + 1] = f[k + 1] + Motion(items[k + 1 + 1])
    BY <1>2, <1>3, <2>1 DEF QueuedValues
  <2>3. rest[k + 1] = items[k + 1 + 1]
    BY <1>1, <2>1
  <2> QED
    BY <1>0, <1>5, <2>1, <2>2, <2>3
<1> HIDE DEF T
<1>6. n - 1 \in T
  <2>1. n - 1 \in Nat
    BY <1>1
  <2>2. \A k \in 0 .. n - 1 : k \in T
    BY <1>4, <1>5, <2>1, UpTo
  <2> QED
    BY <2>1, <2>2
<1>7. f[n] = Motion(items[1]) + g[n - 1]
  <2>1. n - 1 + 1 = n
    BY <1>1
  <2> QED
    BY <1>6, <2>1 DEF T
<1> QED
  BY <1>1, <1>2, <1>3, <1>7 DEF rest

\* ... and a last item that is exchanged for another changes the sum by their difference.
LEMMA QueuedLast ==
  ASSUME NEW items \in Seq(Items), items # << >>, NEW item \in Items
  PROVE  Queued([items EXCEPT ![Len(items)] = item])
           = Queued(items) - Motion(items[Len(items)]) + Motion(item)
<1> DEFINE n == Len(items)
           other == [items EXCEPT ![Len(items)] = item]
<1>1. /\ other \in Seq(Items) /\ n \in Nat \ {0} /\ Len(other) = n /\ other[n] = item
      /\ \A p \in 1 .. n - 1 : items[p] = other[p]
  <2>1. n \in Nat \ {0} /\ n \in 1 .. Len(items)
    BY LenProperties, EmptySeq
  <2>2. other \in Seq(Items) /\ Len(other) = n /\ \A p \in 1 .. n : other[p] = IF p = n THEN item ELSE items[p]
    BY <2>1, ExceptSeq
  <2> HIDE DEF n, other
  <2>3. n \in 1 .. n /\ \A p \in 1 .. n - 1 : p \in 1 .. n /\ p # n
    BY <2>1
  <2> QED
    BY <2>1, <2>2, <2>3
<1>2. PICK f : QueuedValues(f, items) /\ f[n] = Queued(items)
  BY QueuedSteps
<1>3. PICK g : QueuedValues(g, other) /\ g[n] = Queued(other)
  <2> HIDE DEF n, other
  <2> QED
    BY <1>1, QueuedSteps
<1>0. Motion(items[n]) \in Int /\ Motion(item) \in Int /\ Len(items) = n
  <2>1. n \in 1 .. Len(items)
    BY LenProperties, EmptySeq
  <2>2. items[n] \in Items
    BY <2>1, ElementOfSeq
  <2> QED
    BY <2>2, MotionType
<1> HIDE DEF n, other
<1>4. n - 1 \in 0 .. n - 1 /\ n - 1 + 1 = n /\ n - 1 \in Nat /\ n - 1 <= n
  BY <1>1
<1>5. f[n - 1] = g[n - 1]
  BY <1>0, <1>1, <1>2, <1>3, <1>4, QueuedPrefix
<1>6. f[n] = f[n - 1] + Motion(items[n]) /\ g[n] = g[n - 1] + Motion(other[n]) /\ f[n - 1] \in Int
  BY <1>0, <1>1, <1>2, <1>3, <1>4 DEF QueuedValues
<1>7. Queued(other) = Queued(items) - Motion(items[n]) + Motion(item)
  BY <1>0, <1>1, <1>2, <1>3, <1>5, <1>6
<1> QED
  BY <1>0, <1>7 DEF other

-----------------------------------------------------------------------------
(* The relative field.                                                     *)

\* The multiples of m, ...
LEMMA MultipleOf == ASSUME NEW m \in Nat \ {0}, NEW q \in Int PROVE (m * q) % m = 0
  BY SMT

LEMMA IsMultiple ==
  ASSUME NEW m \in Nat \ {0}, NEW a \in Int, a % m = 0 PROVE \E q \in Int : a = m * q
  BY SMT

\* ... which add up and subtract to multiples of m, ...
LEMMA Multiples ==
  ASSUME NEW m \in Nat \ {0}, NEW a \in Int, NEW b \in Int, a % m = 0, b % m = 0
  PROVE  (a + b) % m = 0 /\ (a - b) % m = 0
<1>1. PICK p \in Int, q \in Int : a = m * p /\ b = m * q
  BY IsMultiple
<1>2. a + b = m * (p + q) /\ a - b = m * (p - q) /\ p + q \in Int /\ p - q \in Int
  BY <1>1
<1> QED
  BY <1>2, MultipleOf

\* ... and a number without its remainder is one.
LEMMA Remainder ==
  ASSUME NEW m \in Nat \ {0}, NEW a \in Int
  PROVE  a % m \in 0 .. m - 1 /\ ((a % m) - a) % m = 0
<1> DEFINE q == a \div m
           r == a - m * q
<1>1. q \in Int /\ r \in 0 .. m - 1
  BY SMT
<1> HIDE DEF q
<1>2. a = m * q + r
  BY <1>1
<1> HIDE DEF r
<1>3. a % m = r
  BY <1>1, <1>2, SMT
<1>4. r - a = m * (0 - q) /\ 0 - q \in Int
  BY <1>1, <1>2
<1> QED
  BY <1>1, <1>3, <1>4, MultipleOf

\* A value that is wrapped is in the field, differs from the value by a multiple of the field's
\* size, and is the value itself if that was in the field.
LEMMA WrapType ==
  ASSUME NEW v \in Int
  PROVE  /\ WrapField(v) \in (0 - Half) .. LogicalMaximum
         /\ (WrapField(v) - v) % (2 * Half) = 0
<1> DEFINE m == 2 * Half
<1>1. Half \in Nat \ {0} /\ m \in Nat \ {0} /\ LogicalMaximum = Half - 1
  BY OutQueueAssumption DEF Half
<1>2. v + Half \in Int /\ (v + Half) % m \in 0 .. m - 1
  BY <1>1
<1>3. WrapField(v) \in (0 - Half) .. LogicalMaximum
  BY <1>1, <1>2 DEF WrapField
<1>4. WrapField(v) - v = ((v + Half) % m) - (v + Half)
  BY <1>1, <1>2 DEF WrapField
<1>5. (((v + Half) % m) - (v + Half)) % m = 0
  BY <1>1, <1>2, Remainder
<1> QED
  BY <1>3, <1>4, <1>5

LEMMA WrapSame ==
  ASSUME NEW v \in (0 - Half) .. LogicalMaximum
  PROVE  WrapField(v) = v
<1> DEFINE m == 2 * Half
<1>1. Half \in Nat \ {0} /\ m \in Nat \ {0} /\ LogicalMaximum = Half - 1
  BY OutQueueAssumption DEF Half
<1>2. v + Half \in 0 .. m - 1
  BY <1>1
<1>3. (v + Half) % m = v + Half
  <2> HIDE DEF m
  <2> QED
    BY <1>1, <1>2, SMT
<1> QED
  BY <1>1, <1>3 DEF WrapField

-----------------------------------------------------------------------------
(* The report built in a frame.                                            *)

\* Putting a usage into a report leaves its motion.
LEMMA PutType ==
  ASSUME NEW report \in Contents, NEW u \in Usages
  PROVE  PutUsage(report, u) \in Contents /\ PutUsage(report, u).rel = report.rel
<1>1. /\ report.keys \in Seq(ArrayUsages) /\ report.bits \in SUBSET (Usages \ ArrayUsages)
      /\ report.rel \in (0 - Half) .. LogicalMaximum
      /\ report = [keys |-> report.keys, bits |-> report.bits, rel |-> report.rel]
  BY DEF Contents
<1>2. CASE u \notin ArrayUsages
  <2>1. PutUsage(report, u) = [keys |-> report.keys, bits |-> report.bits \cup {u}, rel |-> report.rel]
    BY <1>1, <1>2 DEF PutUsage
  <2>2. report.bits \cup {u} \in SUBSET (Usages \ ArrayUsages)
    BY <1>1, <1>2
  <2> QED
    BY <1>1, <2>1, <2>2 DEF Contents
<1>3. CASE u \in ArrayUsages /\ Len(report.keys) < ArrayCount
  <2>1. PutUsage(report, u) = [keys |-> Append(report.keys, u), bits |-> report.bits, rel |-> report.rel]
    BY <1>1, <1>3 DEF PutUsage
  <2>2. Append(report.keys, u) \in Seq(ArrayUsages)
    BY <1>1, <1>3, AppendProperties
  <2> QED
    BY <1>1, <2>1, <2>2 DEF Contents
<1>4. CASE u \in ArrayUsages /\ ~(Len(report.keys) < ArrayCount)
  BY <1>4 DEF PutUsage
<1> QED
  BY <1>2, <1>3, <1>4

\* What is active goes into the report; only the frame's motion changes its relative field.
LEMMA BuiltType ==
  ASSUME TypeOK, NEW id \in Ids
  PROVE  /\ Built(id) \in Contents
         /\ Built(id).rel = IF id = RelativeId THEN WrapField(reports[id].rel + moved)
                            ELSE reports[id].rel
<1> DEFINE put(report, u) == IF u \in pressed /\ ReportOf[u] = id THEN PutUsage(report, u) ELSE report
           filled == FoldLeft(put, reports[id], MappingOrder)
           L == Len(MappingOrder)
           base == reports[id]
           Acc == {c \in Contents : c.rel = base.rel}
           step == [i \in 1 .. L |-> [c \in Acc |-> put(c, MappingOrder[i])]]
           Is(g) == g = [s \in SUBSET (DOMAIN MappingOrder) |->
                           IF s = {} THEN base ELSE put(g[s \ {Max(s)}], MappingOrder[Max(s)])]
           iter == CHOOSE g : Is(g)
<1>1. filled = iter[DOMAIN MappingOrder]
  BY DEF FoldLeft, MapThenFoldSet
<1>2. L \in Nat /\ DOMAIN MappingOrder = 1 .. L /\ \A i \in 1 .. L : MappingOrder[i] \in Usages
  BY OutQueueAssumption, LenProperties, ElementOfSeq
<1>3. L \in Nat /\ step \in [1 .. L -> [Acc -> Acc]] /\ base \in Acc
  <2>1. base \in Contents
    BY DEF TypeOK
  <2>2. \A i \in 1 .. L, c \in Acc : put(c, MappingOrder[i]) \in Acc
    BY <1>2, PutType
  <2> HIDE DEF put
  <2> QED
    BY <1>2, <2>1, <2>2
<1>0. Built(id) = IF id = RelativeId THEN [filled EXCEPT !.rel = WrapField(@ + moved)] ELSE filled
  BY DEF Built
<1> HIDE DEF L, base, Acc, put, filled
<1>4. PICK g : IsFold(g, Acc, base, L, step)
  <2> HIDE DEF step
  <2> QED
    BY <1>3, FoldExists, Zenon
<1>5. ASSUME NEW h, Is(h), NEW s \in SUBSET (1 .. L)
      PROVE  h[s] = IF s = {} THEN base ELSE put(h[s \ {Max(s)}], MappingOrder[Max(s)])
  BY <1>2, <1>5
<1>6. ASSUME NEW s \in SUBSET (1 .. L)
      PROVE  g[s] = IF s = {} THEN base ELSE put(g[s \ {Max(s)}], MappingOrder[Max(s)])
  <2>1. CASE s = {}
    BY <1>4, <2>1 DEF IsFold
  <2>2. CASE s # {}
    <3>1. Max(s) \in 1 .. L /\ s \ {Max(s)} \in SUBSET (1 .. L)
      BY <1>2, <2>2, MaxIn
    <3>2. g[s \ {Max(s)}] \in Acc
      BY <1>4, <3>1 DEF IsFold
    <3> QED
      BY <1>4, <2>2, <3>1, <3>2 DEF IsFold
  <2> QED
    BY <2>1, <2>2
<1>7. Is(g)
  BY <1>2, <1>4, <1>6 DEF IsFold
<1>8. Is(iter)
  <2> HIDE DEF Is
  <2> QED
    BY <1>7
<1> HIDE DEF iter
<1>9. Unfolds(iter, Acc, base, L, step)
  <2>1. iter[{}] = base
    BY <1>5, <1>8
  <2>2. ASSUME NEW s \in SUBSET (1 .. L), s # {}, iter[s \ {Max(s)}] \in Acc
        PROVE  iter[s] = step[Max(s)][iter[s \ {Max(s)}]]
    <3>1. Max(s) \in 1 .. L
      BY <1>2, <2>2, MaxIn
    <3>2. iter[s] = put(iter[s \ {Max(s)}], MappingOrder[Max(s)])
      BY <1>5, <1>8, <2>2
    <3> QED
      BY <2>2, <3>1, <3>2
  <2> QED
    BY <2>1, <2>2 DEF Unfolds
<1>10. PICK f : FoldValues(f, Acc, base, L, step, iter[1 .. L])
  <2> HIDE DEF step
  <2> QED
    BY <1>3, <1>9, FoldSteps, Zenon
<1>11. filled \in Acc
  BY <1>1, <1>2, <1>10 DEF FoldValues
<1>12. CASE id # RelativeId
  BY <1>0, <1>11, <1>12 DEF Acc, base
<1>13. CASE id = RelativeId
  <2>1. filled \in Contents /\ filled.rel = reports[id].rel
    BY <1>11 DEF Acc, base
  <2>2. filled.rel + moved \in Int
    BY <2>1, OutQueueAssumption, SMTT(30) DEF TypeOK, Contents, Half
  <2>3. WrapField(filled.rel + moved) \in (0 - Half) .. LogicalMaximum
    BY <2>2, WrapType
  <2>4. Built(id) = [filled EXCEPT !.rel = WrapField(filled.rel + moved)]
    BY <1>0, <1>13, <2>1 DEF Contents
  <2> QED
    BY <1>13, <2>1, <2>3, <2>4 DEF Contents
<1> QED
  BY <1>12, <1>13

-----------------------------------------------------------------------------
(* Queueing the reports of a frame.                                        *)

\* content is what the host will show of report id once queue has arrived, if it is before
\* that without the queue.
IsNewest(queue, id, content, before) ==
  \/ \E p \in 1 .. Len(queue) :
       /\ queue[p].id = id
       /\ \A q \in 1 .. Len(queue) : p < q => queue[q].id # id
       /\ content = Absolute(queue[p].report)
  \/ /\ \A p \in 1 .. Len(queue) : queue[p].id # id
     /\ content = before

\* What every step of the loop over report_ids keeps: the motion in the report being built and
\* in the queue together, and that prev_reports is the newest of each report.
Accs(total, before) ==
  {acc \in [built : [Ids -> Contents], queue : Seq(Items), prev : [Ids -> Contents],
            overflow : BOOLEAN] :
     /\ Len(acc.queue) <= OR_BUFSIZE
     /\ \A id \in Ids : id # RelativeId => acc.built[id].rel = 0
     /\ \A p \in 1 .. Len(acc.queue) :
          acc.queue[p].id # RelativeId => acc.queue[p].report.rel = 0
     /\ acc.built[RelativeId].rel + Queued(acc.queue) = total
     /\ \A id \in Ids : IsNewest(acc.queue, id, Absolute(acc.prev[id]), before[id])}

LEMMA BlankType == Blank \in Contents /\ Blank.rel = 0
<1>1. << >> \in Seq(ArrayUsages) /\ 0 \in (0 - Half) .. LogicalMaximum
  BY EmptySeq, OutQueueAssumption DEF Half
<1> QED
  BY <1>1 DEF Blank, Contents

\* Adding a report's motion to a queued item, when the sum stays within the field.
LEMMA AggregateType ==
  ASSUME NEW item \in Items, NEW report \in Contents, Aggregates(item.report, report)
  PROVE  /\ aggregate_relative(item, report) \in Items
         /\ aggregate_relative(item, report).id = item.id
         /\ aggregate_relative(item, report).report.rel = item.report.rel + report.rel
         /\ Absolute(aggregate_relative(item, report).report) = Absolute(item.report)
<1> DEFINE r == item.report
           v == r.rel + report.rel
           sum == [keys |-> r.keys, bits |-> r.bits, rel |-> v]
<1>1. r \in Contents /\ item.id \in Ids /\ item = [id |-> item.id, report |-> r]
  BY DEF Items
<1>2. r = [keys |-> r.keys, bits |-> r.bits, rel |-> r.rel]
  BY <1>1 DEF Contents
<1>3. v \in (0 - LogicalMaximum) .. LogicalMaximum
  BY DEF Aggregates
<1>4. v \in (0 - Half) .. LogicalMaximum
  BY <1>3, OutQueueAssumption DEF Half
<1>5. WrapField(v) = v
  BY <1>4, WrapSame
<1>6. [r EXCEPT !.rel = WrapField(@ + report.rel)] = sum
  BY <1>2, <1>5
<1>7. aggregate_relative(item, report) = [item EXCEPT !.report = [r EXCEPT !.rel = WrapField(@ + report.rel)]]
  BY <1>1 DEF aggregate_relative
<1>8. aggregate_relative(item, report) = [id |-> item.id, report |-> sum]
  BY <1>1, <1>6, <1>7
<1>9. sum \in Contents /\ sum.rel = v /\ Absolute(sum) = Absolute(r)
  BY <1>1, <1>4 DEF Contents, Absolute
<1> HIDE DEF sum, r, v
<1> QED
  <2>1. [id |-> item.id, report |-> sum] \in Items
    BY <1>1, <1>9 DEF Items
  <2> QED
    BY <1>8, <1>9, <2>1 DEF r, v

\* The cases of one step of the loop.
LEMMA QueueReportIs ==
  ASSUME NEW acc \in [built : [Ids -> Contents], queue : Seq(Items), prev : [Ids -> Contents],
                      overflow : BOOLEAN],
         NEW id \in Ids
  PROVE  LET report == acc.built[id]
             cleared == [acc.built EXCEPT ![id] = Blank]
             n == Len(acc.queue)
         IN  \/ acc.overflow /\ QueueReport(acc, id) = acc
             \/ /\ ~acc.overflow /\ ~needs_to_be_sent(report, acc.prev[id])
                /\ QueueReport(acc, id) =
                     [built |-> cleared, queue |-> acc.queue, prev |-> acc.prev, overflow |-> FALSE]
             \/ /\ ~acc.overflow
                /\ QueueReport(acc, id) =
                     [built |-> acc.built, queue |-> acc.queue, prev |-> acc.prev, overflow |-> TRUE]
             \/ /\ ~acc.overflow /\ acc.queue # << >> /\ acc.queue[n].id = id
                /\ ~differ_on_absolute(acc.queue[n].report, report)
                /\ Aggregates(acc.queue[n].report, report)
                /\ QueueReport(acc, id) =
                     [built |-> cleared,
                      queue |-> [acc.queue EXCEPT ![n] = aggregate_relative(acc.queue[n], report)],
                      prev |-> acc.prev, overflow |-> FALSE]
             \/ /\ ~acc.overflow /\ n # OR_BUFSIZE
                /\ QueueReport(acc, id) =
                     [built |-> cleared, queue |-> Append(acc.queue, [id |-> id, report |-> report]),
                      prev |-> [acc.prev EXCEPT ![id] = report], overflow |-> FALSE]
<1> DEFINE report == acc.built[id]
           b == [acc.built EXCEPT ![id] = Blank]
           n == Len(acc.queue)
           cleared == [acc EXCEPT !.built[id] = Blank]
           aggregates == /\ acc.queue # << >>
                         /\ acc.queue[n].id = id
                         /\ ~differ_on_absolute(acc.queue[n].report, report)
                         /\ Aggregates(acc.queue[n].report, report)
<1>1. acc = [built |-> acc.built, queue |-> acc.queue, prev |-> acc.prev, overflow |-> acc.overflow]
      /\ acc.overflow \in BOOLEAN
  OBVIOUS
<1>2. cleared = [acc EXCEPT !.built = b]
  BY <1>1
<1>3. cleared = [built |-> b, queue |-> acc.queue, prev |-> acc.prev, overflow |-> acc.overflow]
  BY <1>1, <1>2
<1>4. QueueReport(acc, id) =
        IF acc.overflow THEN acc
        ELSE IF ~needs_to_be_sent(report, acc.prev[id]) THEN cleared
        ELSE IF n = OR_BUFSIZE THEN [acc EXCEPT !.overflow = TRUE]
        ELSE IF aggregates
             THEN [cleared EXCEPT !.queue[n] = aggregate_relative(@, report)]
             ELSE [cleared EXCEPT !.queue = Append(@, [id |-> id, report |-> report]),
                                  !.prev[id] = report]
  BY DEF QueueReport
<1>5. CASE acc.overflow
  BY <1>4, <1>5
<1>6. CASE ~acc.overflow /\ ~needs_to_be_sent(report, acc.prev[id])
  <2>1. acc.overflow = FALSE
    BY <1>1, <1>6
  <2> HIDE DEF cleared, b, n, report, aggregates
  <2>2. QueueReport(acc, id) = cleared
    BY <1>4, <1>6
  <2> QED
    BY <1>3, <1>6, <2>1, <2>2 DEF b, report
<1>7. CASE ~acc.overflow /\ needs_to_be_sent(report, acc.prev[id]) /\ n = OR_BUFSIZE
  <2> DEFINE full == TRUE
  <2> HIDE DEF full
  <2>0. [acc EXCEPT !.overflow = full]
          = [built |-> acc.built, queue |-> acc.queue, prev |-> acc.prev, overflow |-> full]
    BY <1>1
  <2>1. [acc EXCEPT !.overflow = TRUE]
          = [built |-> acc.built, queue |-> acc.queue, prev |-> acc.prev, overflow |-> TRUE]
    BY <2>0 DEF full
  <2> HIDE DEF cleared, b, n, report, aggregates
  <2>2. QueueReport(acc, id) = [acc EXCEPT !.overflow = TRUE]
    BY <1>4, <1>7
  <2> QED
    BY <1>7, <2>1, <2>2
<1>8. CASE ~acc.overflow /\ needs_to_be_sent(report, acc.prev[id]) /\ n # OR_BUFSIZE /\ aggregates
  <2>1. acc.overflow = FALSE
    BY <1>1, <1>8
  <2>2. [cleared EXCEPT !.queue[n] = aggregate_relative(@, report)]
          = [cleared EXCEPT !.queue = [cleared.queue EXCEPT ![n] = aggregate_relative(cleared.queue[n], report)]]
    <3> HIDE DEF cleared, n, report
    <3> QED
      OBVIOUS
  <2>3. [cleared EXCEPT !.queue = [cleared.queue EXCEPT ![n] = aggregate_relative(cleared.queue[n], report)]]
          = [built |-> b, queue |-> [acc.queue EXCEPT ![n] = aggregate_relative(acc.queue[n], report)],
             prev |-> acc.prev, overflow |-> FALSE]
    <3> HIDE DEF cleared, b, n, report
    <3> DEFINE queued == [acc.queue EXCEPT ![n] = aggregate_relative(acc.queue[n], report)]
               o == acc.overflow
    <3> HIDE DEF queued, o
    <3>1. cleared = [built |-> b, queue |-> acc.queue, prev |-> acc.prev, overflow |-> o]
      BY <1>3 DEF o
    <3>2. cleared.queue = acc.queue
      BY <3>1
    <3>3. [cleared EXCEPT !.queue = queued]
            = [built |-> b, queue |-> queued, prev |-> acc.prev, overflow |-> o]
      BY <3>1
    <3> QED
      BY <2>1, <3>2, <3>3 DEF queued, o
  <2>4. QueueReport(acc, id) = [cleared EXCEPT !.queue[n] = aggregate_relative(@, report)]
    <3> HIDE DEF cleared, b, n, report, aggregates
    <3> QED
      BY <1>4, <1>8
  <2>5. QueueReport(acc, id)
          = [built |-> b, queue |-> [acc.queue EXCEPT ![n] = aggregate_relative(acc.queue[n], report)],
             prev |-> acc.prev, overflow |-> FALSE]
    <3> HIDE DEF cleared, b, n, report
    <3> QED
      BY <2>2, <2>3, <2>4
  <2> QED
    BY <1>8, <2>5
<1>9. CASE ~acc.overflow /\ needs_to_be_sent(report, acc.prev[id]) /\ n # OR_BUFSIZE /\ ~aggregates
  <2>1. acc.overflow = FALSE
    BY <1>1, <1>9
  <2> DEFINE item == [id |-> id, report |-> report]
             new == [cleared EXCEPT !.queue = Append(@, item), !.prev[id] = report]
  <2>2. new = [built |-> b, queue |-> Append(acc.queue, item),
               prev |-> [acc.prev EXCEPT ![id] = report], overflow |-> FALSE]
    <3>1. new = [[cleared EXCEPT !.queue = Append(cleared.queue, item)]
                  EXCEPT !.prev = [cleared.prev EXCEPT ![id] = report]]
      <4>1. cleared.queue = acc.queue /\ cleared.prev = acc.prev
        BY <1>3
      <4> HIDE DEF cleared, n, report, item
      <4> QED
        BY <1>3, <4>1
    <3> HIDE DEF cleared, b, n, report, item, new
    <3> DEFINE o == acc.overflow
    <3> HIDE DEF o
    <3>2. cleared = [built |-> b, queue |-> acc.queue, prev |-> acc.prev, overflow |-> o]
      BY <1>3 DEF o
    <3>3. cleared.queue = acc.queue /\ cleared.prev = acc.prev
      BY <3>2
    <3> DEFINE queued == Append(acc.queue, item)
               noted == [acc.prev EXCEPT ![id] = report]
               longer == [built |-> b, queue |-> queued, prev |-> acc.prev, overflow |-> o]
    <3> HIDE DEF queued, noted
    <3>4. [cleared EXCEPT !.queue = queued] = longer
      BY <3>2
    <3>5. [longer EXCEPT !.prev = noted]
            = [built |-> b, queue |-> queued, prev |-> noted, overflow |-> o]
      OBVIOUS
    <3>6. new = [[cleared EXCEPT !.queue = queued] EXCEPT !.prev = noted]
      BY <3>1, <3>3 DEF queued, noted
    <3> QED
      BY <2>1, <3>4, <3>5, <3>6 DEF queued, noted, o
  <2>3. QueueReport(acc, id) = new
    <3> HIDE DEF cleared, b, n, aggregates
    <3> QED
      BY <1>4, <1>9
  <2> HIDE DEF new
  <2> QED
    BY <1>9, <2>2, <2>3
<1> QED
  BY <1>5, <1>6, <1>7, <1>8, <1>9

\* A queue whose items keep their reports' ids and what these show keeps its newest of each.
LEMMA NewestKept ==
  ASSUME NEW s \in Seq(Items), NEW t \in Seq(Items), Len(s) = Len(t),
         \A p \in 1 .. Len(s) : s[p].id = t[p].id /\ Absolute(s[p].report) = Absolute(t[p].report),
         NEW id, NEW content, NEW before, IsNewest(s, id, content, before)
  PROVE  IsNewest(t, id, content, before)
<1>1. CASE \A p \in 1 .. Len(s) : s[p].id # id
  <2>1. content = before
    BY <1>1 DEF IsNewest
  <2>2. \A p \in 1 .. Len(t) : t[p].id # id
    BY <1>1
  <2> QED
    BY <2>1, <2>2 DEF IsNewest
<1>2. CASE \E p \in 1 .. Len(s) : s[p].id = id
  <2>1. PICK p \in 1 .. Len(s) : /\ s[p].id = id
                                 /\ \A q \in 1 .. Len(s) : p < q => s[q].id # id
                                 /\ content = Absolute(s[p].report)
    BY <1>2 DEF IsNewest
  <2>2. /\ p \in 1 .. Len(t) /\ t[p].id = id
        /\ \A q \in 1 .. Len(t) : p < q => t[q].id # id
        /\ content = Absolute(t[p].report)
    BY <2>1
  <2> QED
    BY <2>2 DEF IsNewest
<1> QED
  BY <1>1, <1>2

\* An item appended is the newest of its report and of no other.
LEMMA NewestAppended ==
  ASSUME NEW s \in Seq(Items), NEW item \in Items,
         NEW id, NEW content, NEW before, IsNewest(s, id, content, before)
  PROVE  /\ item.id # id => IsNewest(Append(s, item), id, content, before)
         /\ item.id = id => IsNewest(Append(s, item), id, Absolute(item.report), before)
<1> DEFINE t == Append(s, item)
           n == Len(s)
<1>1. n \in Nat /\ Len(t) = n + 1 /\ t[n + 1] = item /\ \A p \in 1 .. n : t[p] = s[p]
  BY AppendProperties, LenProperties
<1> HIDE DEF t
<1>2. ASSUME item.id = id PROVE IsNewest(t, id, Absolute(item.report), before)
  <2>1. n + 1 \in 1 .. Len(t) /\ \A q \in 1 .. Len(t) : ~(n + 1 < q)
    BY <1>1
  <2> QED
    BY <1>1, <1>2, <2>1 DEF IsNewest
<1>3. ASSUME item.id # id PROVE IsNewest(t, id, content, before)
  <2>0. \A q \in 1 .. Len(t) : q \in 1 .. n \/ q = n + 1
    BY <1>1
  <2>1. CASE \A p \in 1 .. n : s[p].id # id
    <3>1. content = before
      BY <2>1 DEF IsNewest
    <3>2. \A p \in 1 .. Len(t) : t[p].id # id
      BY <1>1, <1>3, <2>0, <2>1
    <3> QED
      BY <3>1, <3>2 DEF IsNewest
  <2>2. CASE \E p \in 1 .. n : s[p].id = id
    <3>1. PICK p \in 1 .. n : /\ s[p].id = id
                              /\ \A q \in 1 .. n : p < q => s[q].id # id
                              /\ content = Absolute(s[p].report)
      BY <2>2 DEF IsNewest
    <3>2. p \in 1 .. Len(t) /\ t[p] = s[p]
      BY <1>1, <3>1
    <3>3. \A q \in 1 .. Len(t) : p < q => t[q].id # id
      BY <1>1, <1>3, <2>0, <3>1
    <3> QED
      BY <3>1, <3>2, <3>3 DEF IsNewest
  <2> QED
    BY <2>1, <2>2
<1> QED
  BY <1>2, <1>3 DEF t

\* What makes the loop's record one of Accs.
LEMMA AccsIs ==
  ASSUME NEW total, NEW before, NEW b \in [Ids -> Contents], NEW q \in Seq(Items),
         NEW p \in [Ids -> Contents], NEW o \in BOOLEAN,
         Len(q) <= OR_BUFSIZE,
         \A id \in Ids : id # RelativeId => b[id].rel = 0,
         \A n \in 1 .. Len(q) : q[n].id # RelativeId => q[n].report.rel = 0,
         b[RelativeId].rel + Queued(q) = total,
         \A id \in Ids : IsNewest(q, id, Absolute(p[id]), before[id])
  PROVE  [built |-> b, queue |-> q, prev |-> p, overflow |-> o] \in Accs(total, before)
<1> DEFINE acc == [built |-> b, queue |-> q, prev |-> p, overflow |-> o]
<1>1. acc \in [built : [Ids -> Contents], queue : Seq(Items), prev : [Ids -> Contents], overflow : BOOLEAN]
  OBVIOUS
<1>2. acc.built = b /\ acc.queue = q /\ acc.prev = p
  OBVIOUS
<1> HIDE DEF acc
<1>3. acc \in Accs(total, before)
  BY <1>1, <1>2 DEF Accs
<1> QED
  BY <1>3 DEF acc

\* A step of the loop keeps it, changes nothing after a report that met a full queue, and
\* clears the report unless it is such a one.
LEMMA QueueReportKeeps ==
  ASSUME NEW total \in Int, NEW before, NEW acc \in Accs(total, before), NEW id \in Ids
  PROVE  /\ QueueReport(acc, id) \in Accs(total, before)
         /\ ~QueueReport(acc, id).overflow =>
              ~acc.overflow /\ QueueReport(acc, id).built = [acc.built EXCEPT ![id] = Blank]
<1> DEFINE report == acc.built[id]
           b == [acc.built EXCEPT ![id] = Blank]
           q == acc.queue
           n == Len(q)
           item == [id |-> id, report |-> report]
<1>1. /\ acc \in [built : [Ids -> Contents], queue : Seq(Items), prev : [Ids -> Contents], overflow : BOOLEAN]
      /\ n <= OR_BUFSIZE
      /\ \A i \in Ids : i # RelativeId => acc.built[i].rel = 0
      /\ \A i \in 1 .. n : q[i].id # RelativeId => q[i].report.rel = 0
      /\ acc.built[RelativeId].rel + Queued(q) = total
      /\ \A i \in Ids : IsNewest(q, i, Absolute(acc.prev[i]), before[i])
  BY DEF Accs
<1>2. /\ acc.built \in [Ids -> Contents] /\ q \in Seq(Items) /\ acc.prev \in [Ids -> Contents]
      /\ report \in Contents /\ RelativeId \in Ids /\ n \in Nat /\ Queued(q) \in Int
  BY <1>1, OutQueueAssumption, LenProperties, QueuedType
<1>3. report.rel \in Int /\ acc.built[RelativeId].rel \in Int
  BY <1>2, OutQueueAssumption, SMTT(30) DEF Contents, Half
<1>4. /\ b \in [Ids -> Contents] /\ \A i \in Ids : i # RelativeId => b[i].rel = 0
      /\ b[RelativeId].rel = IF id = RelativeId THEN 0 ELSE acc.built[RelativeId].rel
  BY <1>1, <1>2, BlankType
<1>5. id # RelativeId => report.rel = 0
  BY <1>1
<1>6. item \in Items /\ item.id = id /\ item.report = report
      /\ Motion(item) = IF id = RelativeId THEN report.rel ELSE 0
  BY <1>2 DEF Items, Motion
<1>7. \/ acc.overflow /\ QueueReport(acc, id) = acc
      \/ /\ ~acc.overflow /\ ~needs_to_be_sent(report, acc.prev[id])
         /\ QueueReport(acc, id) = [built |-> b, queue |-> q, prev |-> acc.prev, overflow |-> FALSE]
      \/ /\ ~acc.overflow
         /\ QueueReport(acc, id) =
              [built |-> acc.built, queue |-> q, prev |-> acc.prev, overflow |-> TRUE]
      \/ /\ ~acc.overflow /\ q # << >> /\ q[n].id = id
         /\ ~differ_on_absolute(q[n].report, report)
         /\ Aggregates(q[n].report, report)
         /\ QueueReport(acc, id) =
              [built |-> b, queue |-> [q EXCEPT ![n] = aggregate_relative(q[n], report)],
               prev |-> acc.prev, overflow |-> FALSE]
      \/ /\ ~acc.overflow /\ n # OR_BUFSIZE
         /\ QueueReport(acc, id) =
              [built |-> b, queue |-> Append(q, item),
               prev |-> [acc.prev EXCEPT ![id] = report], overflow |-> FALSE]
  BY <1>1, QueueReportIs
<1> HIDE DEF report, b, q, n, item
<1>8. CASE acc.overflow /\ QueueReport(acc, id) = acc
  BY <1>8
<1>9. CASE /\ ~acc.overflow /\ ~needs_to_be_sent(report, acc.prev[id])
           /\ QueueReport(acc, id) = [built |-> b, queue |-> q, prev |-> acc.prev, overflow |-> FALSE]
  <2>1. report.rel = 0
    BY <1>9 DEF needs_to_be_sent
  <2>2. b[RelativeId].rel + Queued(q) = total
    BY <1>1, <1>4, <2>1 DEF report
  <2>3. [built |-> b, queue |-> q, prev |-> acc.prev, overflow |-> FALSE] \in Accs(total, before)
    BY <1>1, <1>2, <1>4, <2>2, AccsIs DEF n, q
  <2> QED
    BY <1>9, <2>3 DEF b
<1>10. CASE /\ ~acc.overflow
            /\ QueueReport(acc, id) =
                 [built |-> acc.built, queue |-> q, prev |-> acc.prev, overflow |-> TRUE]
  <2>1. [built |-> acc.built, queue |-> q, prev |-> acc.prev, overflow |-> TRUE] \in Accs(total, before)
    BY <1>1, <1>2, AccsIs DEF n, q
  <2> QED
    BY <1>10, <2>1
<1>11. CASE /\ ~acc.overflow /\ q # << >> /\ q[n].id = id
            /\ ~differ_on_absolute(q[n].report, report)
            /\ Aggregates(q[n].report, report)
            /\ QueueReport(acc, id) =
                 [built |-> b, queue |-> [q EXCEPT ![n] = aggregate_relative(q[n], report)],
                  prev |-> acc.prev, overflow |-> FALSE]
  <2> DEFINE last == q[n]
             new == aggregate_relative(last, report)
             other == [q EXCEPT ![n] = new]
  <2>1. n \in 1 .. Len(q) /\ n \in Nat \ {0}
    BY <1>2, <1>11, EmptySeq, LenProperties DEF n
  <2>2. last \in Items
    BY <1>2, <2>1, ElementOfSeq
  <2>3. /\ new \in Items /\ new.id = id /\ new.report.rel = last.report.rel + report.rel
        /\ Absolute(new.report) = Absolute(last.report)
    <3> HIDE DEF last
    <3>1. Aggregates(last.report, report) /\ last.id = id
      BY <1>11 DEF last
    <3> QED
      BY <1>2, <2>2, <3>1, AggregateType
  <2>4. last.report.rel \in Int /\ last.id = id
    BY <1>11, <2>2, OutQueueAssumption DEF Items, Contents, Half
  <2>5. Motion(last) = (IF id = RelativeId THEN last.report.rel ELSE 0)
        /\ Motion(new) = IF id = RelativeId THEN last.report.rel + report.rel ELSE 0
    BY <2>3, <2>4 DEF Motion
  <2>6. id # RelativeId => new.report.rel = 0
    <3>1. id # RelativeId => last.report.rel = 0
      BY <1>1, <2>1, <2>4 DEF n
    <3> QED
      BY <1>3, <1>5, <2>3, <3>1
  <2>7. /\ other \in Seq(Items) /\ Len(other) = n
        /\ \A i \in 1 .. n : other[i] = IF i = n THEN new ELSE q[i]
    <3> HIDE DEF new
    <3> QED
      BY <1>2, <2>1, <2>3, ExceptSeq DEF n
  <2>8. Queued(other) = Queued(q) - Motion(last) + Motion(new)
    <3> HIDE DEF new
    <3> QED
      BY <1>2, <1>11, <2>3, QueuedLast DEF n, last
  <2>9. \A i \in 1 .. n : q[i].id = other[i].id /\ Absolute(q[i].report) = Absolute(other[i].report)
    BY <2>3, <2>4, <2>7
  <2>10. \A i \in 1 .. n : other[i].id # RelativeId => other[i].report.rel = 0
    BY <1>1, <2>3, <2>6, <2>7
  <2> HIDE DEF other, new, last
  <2>11. b[RelativeId].rel + Queued(other) = total
    BY <1>1, <1>2, <1>3, <1>4, <2>4, <2>5, <2>8 DEF report
  <2>12. \A i \in Ids : IsNewest(other, i, Absolute(acc.prev[i]), before[i])
    BY <1>1, <1>2, <2>7, <2>9, NewestKept DEF n
  <2>13. [built |-> b, queue |-> other, prev |-> acc.prev, overflow |-> FALSE] \in Accs(total, before)
    BY <1>1, <1>2, <1>4, <2>7, <2>10, <2>11, <2>12, AccsIs
  <2> QED
    BY <1>11, <2>13 DEF other, new, last, b
<1>12. CASE /\ ~acc.overflow /\ n # OR_BUFSIZE
            /\ QueueReport(acc, id) =
                 [built |-> b, queue |-> Append(q, item),
                  prev |-> [acc.prev EXCEPT ![id] = report], overflow |-> FALSE]
  <2> DEFINE more == Append(q, item)
             noted == [acc.prev EXCEPT ![id] = report]
  <2>1. /\ more \in Seq(Items) /\ Len(more) = n + 1 /\ more[n + 1] = item
        /\ \A i \in 1 .. n : more[i] = q[i]
    BY <1>2, <1>6, AppendProperties DEF n
  <2>2. Queued(more) = Queued(q) + Motion(item)
    BY <1>2, <1>6, QueuedAppend
  <2>3. noted \in [Ids -> Contents] /\ \A i \in Ids : noted[i] = IF i = id THEN report ELSE acc.prev[i]
    BY <1>2
  <2>4. \A i \in Ids : IsNewest(more, i, Absolute(noted[i]), before[i])
    <3> SUFFICES ASSUME NEW i \in Ids PROVE IsNewest(more, i, Absolute(noted[i]), before[i])
      OBVIOUS
    <3>1. IsNewest(q, i, Absolute(acc.prev[i]), before[i])
      BY <1>1
    <3>2. /\ id # i => IsNewest(more, i, Absolute(acc.prev[i]), before[i])
          /\ id = i => IsNewest(more, i, Absolute(report), before[i])
      BY <1>2, <1>6, <3>1, NewestAppended
    <3> QED
      BY <2>3, <3>2
  <2> HIDE DEF more, noted
  <2>5. Len(more) <= OR_BUFSIZE
    BY <1>1, <1>2, <1>12, <2>1, OutQueueAssumption
  <2>6. \A i \in 1 .. Len(more) : more[i].id # RelativeId => more[i].report.rel = 0
    <3>1. \A i \in 1 .. Len(more) : i \in 1 .. n \/ i = n + 1
      BY <1>2, <2>1
    <3> QED
      BY <1>1, <1>5, <1>6, <2>1, <3>1
  <2>7. b[RelativeId].rel + Queued(more) = total
    BY <1>1, <1>2, <1>3, <1>4, <1>6, <2>2 DEF report
  <2>8. [built |-> b, queue |-> more, prev |-> noted, overflow |-> FALSE] \in Accs(total, before)
    BY <1>4, <2>1, <2>3, <2>4, <2>5, <2>6, <2>7, AccsIs
  <2> QED
    BY <1>12, <2>8 DEF more, noted, b
<1> QED
  BY <1>7, <1>8, <1>9, <1>10, <1>11, <1>12

\* The whole loop keeps it too, and clears every report if none met a full queue.
LEMMA LoopKeeps ==
  ASSUME NEW total \in Int, NEW before, NEW first \in Accs(total, before)
  PROVE  LET done == FoldLeft(QueueReport, first, ReportIds)
         IN  /\ done \in Accs(total, before)
             /\ ~done.overflow => \A id \in Ids : done.built[id] = Blank
<1> DEFINE done == FoldLeft(QueueReport, first, ReportIds)
           L == Len(ReportIds)
           Acc == Accs(total, before)
           step == [i \in 1 .. L |-> [acc \in Acc |-> QueueReport(acc, ReportIds[i])]]
           Is(g) == g = [s \in SUBSET (DOMAIN ReportIds) |->
                           IF s = {} THEN first ELSE QueueReport(g[s \ {Max(s)}], ReportIds[Max(s)])]
           iter == CHOOSE g : Is(g)
<1>1. done = iter[DOMAIN ReportIds]
  BY DEF FoldLeft, MapThenFoldSet
<1>2. L \in Nat /\ DOMAIN ReportIds = 1 .. L /\ \A i \in 1 .. L : ReportIds[i] \in Ids
  BY OutQueueAssumption, LenProperties, ElementOfSeq
<1>3. L \in Nat /\ step \in [1 .. L -> [Acc -> Acc]] /\ first \in Acc
  <2>1. \A i \in 1 .. L, acc \in Acc : QueueReport(acc, ReportIds[i]) \in Acc
    BY <1>2, QueueReportKeeps
  <2>2. first \in Acc
    OBVIOUS
  <2> HIDE DEF Acc, L
  <2> QED
    BY <1>2, <2>1, <2>2
<1> HIDE DEF L, done
<1>4. PICK g : IsFold(g, Acc, first, L, step)
  <2> HIDE DEF step, Acc
  <2> QED
    BY <1>3, FoldExists, Zenon
<1>5. ASSUME NEW h, Is(h), NEW s \in SUBSET (1 .. L)
      PROVE  h[s] = IF s = {} THEN first ELSE QueueReport(h[s \ {Max(s)}], ReportIds[Max(s)])
  BY <1>2, <1>5
<1>6. ASSUME NEW s \in SUBSET (1 .. L)
      PROVE  g[s] = IF s = {} THEN first ELSE QueueReport(g[s \ {Max(s)}], ReportIds[Max(s)])
  <2> HIDE DEF Acc
  <2>1. CASE s = {}
    BY <1>4, <2>1 DEF IsFold
  <2>2. CASE s # {}
    <3>1. Max(s) \in 1 .. L /\ s \ {Max(s)} \in SUBSET (1 .. L)
      BY <1>2, <2>2, MaxIn
    <3>2. g[s \ {Max(s)}] \in Acc
      BY <1>4, <3>1 DEF IsFold
    <3> QED
      BY <1>4, <2>2, <3>1, <3>2 DEF IsFold
  <2> QED
    BY <2>1, <2>2
<1> HIDE DEF Acc
<1>7. Is(g)
  BY <1>2, <1>4, <1>6 DEF IsFold
<1>8. Is(iter)
  <2> HIDE DEF Is
  <2> QED
    BY <1>7
<1> HIDE DEF iter
<1>9. Unfolds(iter, Acc, first, L, step)
  <2>1. iter[{}] = first
    BY <1>5, <1>8
  <2>2. ASSUME NEW s \in SUBSET (1 .. L), s # {}, iter[s \ {Max(s)}] \in Acc
        PROVE  iter[s] = step[Max(s)][iter[s \ {Max(s)}]]
    <3>1. Max(s) \in 1 .. L
      BY <1>2, <2>2, MaxIn
    <3>2. iter[s] = QueueReport(iter[s \ {Max(s)}], ReportIds[Max(s)])
      BY <1>5, <1>8, <2>2
    <3> QED
      BY <2>2, <3>1, <3>2
  <2> QED
    BY <2>1, <2>2 DEF Unfolds
<1>10. PICK f : FoldValues(f, Acc, first, L, step, iter[1 .. L])
  <2> HIDE DEF step
  <2> QED
    BY <1>3, <1>9, FoldSteps, Zenon
<1>11. f[L] = done /\ L \in 0 .. L /\ \A n \in 0 .. L : f[n] \in Acc
  BY <1>1, <1>2, <1>10 DEF FoldValues
<1>12. ASSUME NEW n \in 0 .. L - 1 PROVE f[n + 1] = QueueReport(f[n], ReportIds[n + 1])
  <2>1. n \in 0 .. L /\ n + 1 \in 1 .. L /\ f[n] \in Acc
    BY <1>2, <1>11
  <2> QED
    BY <1>10, <2>1 DEF FoldValues
<1> DEFINE T == {n \in 0 .. L : ~f[n].overflow => \A p \in 1 .. n : f[n].built[ReportIds[p]] = Blank}
<1>13. \A n \in 0 .. L : n \in T
  <2>1. 0 \in T
    BY <1>2
  <2>2. ASSUME NEW n \in 0 .. L - 1, n \in T PROVE n + 1 \in T
    <3>1. n \in 0 .. L /\ n + 1 \in 0 .. L /\ n + 1 \in 1 .. L /\ ReportIds[n + 1] \in Ids
      BY <1>2
    <3> SUFFICES ASSUME ~f[n + 1].overflow, NEW p \in 1 .. n + 1
                 PROVE  f[n + 1].built[ReportIds[p]] = Blank
      BY <3>1
    <3>2. ~f[n].overflow /\ f[n + 1].built = [f[n].built EXCEPT ![ReportIds[n + 1]] = Blank]
      <4>1. f[n] \in Accs(total, before)
        BY <1>11, <3>1 DEF Acc
      <4>2. f[n + 1] = QueueReport(f[n], ReportIds[n + 1])
        BY <1>12
      <4> DEFINE acc == f[n]
                 id == ReportIds[n + 1]
      <4>3. acc \in Accs(total, before) /\ id \in Ids
        BY <3>1, <4>1
      <4> HIDE DEF acc, id
      <4>4. ~QueueReport(acc, id).overflow =>
              ~acc.overflow /\ QueueReport(acc, id).built = [acc.built EXCEPT ![id] = Blank]
        BY <4>3, QueueReportKeeps
      <4> QED
        BY <4>2, <4>4 DEF acc, id
    <3>3. f[n].built \in [Ids -> Contents]
      BY <1>11, <3>1 DEF Acc, Accs
    <3>4. p \in 1 .. n \/ p = n + 1
      OBVIOUS
    <3>5. p \in 1 .. n => f[n].built[ReportIds[p]] = Blank
      BY <2>2, <3>2
    <3>6. ReportIds[p] \in Ids
      <4>1. p \in 1 .. L
        BY <1>2
      <4> QED
        BY <1>2, <4>1
    <3> QED
      BY <3>1, <3>2, <3>3, <3>4, <3>5, <3>6
  <2> HIDE DEF T
  <2> QED
    BY <1>2, <2>1, <2>2, UpTo
<1>14. ASSUME ~done.overflow, NEW id \in Ids PROVE done.built[id] = Blank
  <2>1. PICK p \in 1 .. L : ReportIds[p] = id
    BY <1>2 DEF Ids, Range
  <2> QED
    BY <1>11, <1>13, <1>14, <2>1
<1> QED
  BY <1>11, <1>14 DEF done, Acc

-----------------------------------------------------------------------------
(* The inductive invariant.                                                *)

\* What the host will show of a report if nothing of it is queued.
Beyond(id) ==
  LET busy == endpoint[InterfaceOf[id]]
  IN  IF busy # Idle /\ busy.id = id THEN Absolute(busy.report) ELSE host[id]

\* Only one report has a relative field, and an endpoint sends the reports of its interface.
FieldsFit ==
  /\ \A id \in Ids : id # RelativeId => reports[id].rel = 0
  /\ \A p \in 1 .. Len(outgoing_reports) :
       outgoing_reports[p].id # RelativeId => outgoing_reports[p].report.rel = 0
  /\ \A i \in Endpoints : endpoint[i] # Idle =>
       /\ InterfaceOf[endpoint[i].id] = i
       /\ endpoint[i].id # RelativeId => endpoint[i].report.rel = 0

\* The frames leave nothing in the reports until one meets a full queue.
BlankBetween == ~overflowed => \A id \in Ids : reports[id] = Blank

Newest == \A id \in Ids :
  IsNewest(outgoing_reports, id, Absolute(prev_reports[id]), Beyond(id))

IInv == TypeOK /\ FieldsFit /\ BlankBetween /\ Newest /\ MotionConserved

\* The endpoint of a report, and what an endpoint sends of the motion.
LEMMA EndpointOf ==
  ASSUME NEW id \in Ids PROVE InterfaceOf[id] \in Endpoints
  BY OutQueueAssumption DEF Endpoints, Range

LEMMA SendingType ==
  ASSUME NEW item \in Items \cup {Idle} PROVE Sending(item) \in Int
<1>1. CASE item = Idle
  BY <1>1 DEF Sending
<1>2. CASE item \in Items
  BY <1>2, MotionType, OutQueueAssumption DEF Sending
<1> QED
  BY <1>1, <1>2

LEMMA OnTheWayType ==
  ASSUME TypeOK
  PROVE  /\ OnTheWay \in Int /\ moved \in Int /\ owed \in Int /\ reports[RelativeId].rel \in Int
         /\ Queued(outgoing_reports) \in Int
         /\ endpoint[InterfaceOf[RelativeId]] \in Items \cup {Idle}
         /\ Sending(endpoint[InterfaceOf[RelativeId]]) \in Int
<1>1. RelativeId \in Ids /\ LogicalMaximum \in Nat
  BY OutQueueAssumption
<1>2. endpoint[InterfaceOf[RelativeId]] \in Items \cup {Idle}
  BY <1>1, EndpointOf DEF TypeOK
<1>3. Sending(endpoint[InterfaceOf[RelativeId]]) \in Int
  BY <1>2, SendingType
<1>4. Queued(outgoing_reports) \in Int
  BY QueuedType DEF TypeOK
<1>5. moved \in Int /\ owed \in Int /\ reports[RelativeId].rel \in Int
  BY <1>1 DEF TypeOK, Contents, Half
<1> QED
  BY <1>2, <1>3, <1>4, <1>5 DEF OnTheWay

\* The newest by position is the newest by its definition in the property.
LEMMA NewestIs ==
  ASSUME TypeOK, Newest PROVE PrevIsNewestInFlight
<1> SUFFICES ASSUME NEW id \in Ids PROVE Absolute(prev_reports[id]) = NewestInFlight(id)
  BY DEF PrevIsNewestInFlight
<1> DEFINE L == Len(outgoing_reports)
           queued == {p \in 1 .. L : outgoing_reports[p].id = id}
<1>1. IsNewest(outgoing_reports, id, Absolute(prev_reports[id]), Beyond(id))
  BY DEF Newest
<1>2. NewestInFlight(id) = IF queued # {} THEN Absolute(outgoing_reports[Max(queued)].report)
                           ELSE Beyond(id)
  BY DEF NewestInFlight, Beyond
<1>3. CASE queued = {}
  <2>1. \A p \in 1 .. L : outgoing_reports[p].id # id
    BY <1>3
  <2> QED
    BY <1>1, <1>2, <1>3, <2>1 DEF IsNewest
<1>4. CASE queued # {}
  <2>1. PICK p \in 1 .. L : /\ outgoing_reports[p].id = id
                            /\ \A q \in 1 .. L : p < q => outgoing_reports[q].id # id
                            /\ Absolute(prev_reports[id]) = Absolute(outgoing_reports[p].report)
    BY <1>1, <1>4 DEF IsNewest
  <2>2. p \in queued /\ queued \in SUBSET Nat
    BY <2>1
  <2>3. \A q \in queued : q <= p
    BY <2>1
  <2> HIDE DEF queued
  <2>4. Max(queued) = p
    BY <2>2, <2>3, MaxIs
  <2> QED
    BY <1>2, <1>4, <2>1, <2>4
<1> QED
  BY <1>3, <1>4

LEMMA InitHolds == Init => IInv
<1> SUFFICES ASSUME Init PROVE IInv
  OBVIOUS
<1>0. << >> \in Seq(Items) /\ Len(<< >>) = 0 /\ << >> \in Seq(ArrayUsages)
  BY EmptySeq
<1>1. TypeOK
  <2>1. 0 \in (0 - LogicalMaximum) .. LogicalMaximum /\ 0 <= OR_BUFSIZE
    BY OutQueueAssumption
  <2>2. Absolute(Blank) \in [keys : Seq(ArrayUsages), bits : SUBSET (Usages \ ArrayUsages)]
    BY <1>0 DEF Absolute, Blank
  <2>3. /\ reports \in [Ids -> Contents] /\ prev_reports \in [Ids -> Contents]
        /\ endpoint \in [Endpoints -> Items \cup {Idle}]
    BY BlankType DEF Init
  <2>4. host \in [Ids -> [keys : Seq(ArrayUsages), bits : SUBSET (Usages \ ArrayUsages)]]
    <3> HIDE DEF Absolute
    <3> QED
      BY <2>2 DEF Init
  <2>5. outgoing_reports \in Seq(Items) /\ Len(outgoing_reports) <= OR_BUFSIZE
    BY <1>0, <2>1 DEF Init
  <2>6. /\ pc = "map" /\ pressed = {} /\ moved = 0 /\ silent = FALSE /\ owed = 0
        /\ overflowed = FALSE /\ unshown = {}
    BY DEF Init
  <2>7. silent \in BOOLEAN /\ overflowed \in BOOLEAN
    BY <2>6, Zenon
  <2>8. pc \in {"map", "send"} /\ owed \in Int /\ moved \in (0 - LogicalMaximum) .. LogicalMaximum
        /\ pressed \subseteq Usages /\ unshown \subseteq Usages
    BY <2>1, <2>6
  <2> QED
    BY <2>3, <2>4, <2>5, <2>7, <2>8, Zenon DEF TypeOK
<1>2. FieldsFit
  BY <1>0, BlankType DEF Init, FieldsFit
<1>3. BlankBetween
  BY DEF Init, BlankBetween
<1>4. Newest
  <2> SUFFICES ASSUME NEW id \in Ids
               PROVE  IsNewest(outgoing_reports, id, Absolute(prev_reports[id]), Beyond(id))
    BY DEF Newest
  <2>1. endpoint[InterfaceOf[id]] = Idle
    BY EndpointOf DEF Init
  <2>2. Absolute(prev_reports[id]) = Beyond(id)
    BY <2>1 DEF Beyond, Init
  <2> QED
    BY <1>0, <2>2 DEF IsNewest, Init
<1>5. MotionConserved
  <2>1. OnTheWay = 0 /\ owed = 0
    <3>1. RelativeId \in Ids /\ InterfaceOf[RelativeId] \in Endpoints
      BY EndpointOf, OutQueueAssumption
    <3> QED
      BY <3>1, QueuedEmpty, BlankType DEF Init, OnTheWay, Sending
  <2>2. 2 * Half \in Nat \ {0}
    BY OutQueueAssumption DEF Half
  <2> QED
    BY <2>1, <2>2 DEF MotionConserved
<1> QED
  BY <1>1, <1>2, <1>3, <1>4, <1>5 DEF IInv

-----------------------------------------------------------------------------
(* The steps.                                                              *)

\* A frame: the loop starts with the reports built from what is active and moved.
LEMMA FrameStep == IInv /\ process_mapping => IInv'
<1> SUFFICES ASSUME IInv, process_mapping PROVE IInv'
  OBVIOUS
<1> DEFINE total == Built(RelativeId).rel + Queued(outgoing_reports)
           before == [id \in Ids |-> Beyond(id)]
           first == [built |-> [id \in Ids |-> Built(id)], queue |-> outgoing_reports,
                     prev |-> prev_reports, overflow |-> FALSE]
           done == FoldLeft(QueueReport, first, ReportIds)
           v == reports[RelativeId].rel + moved
<1>1. /\ pc' = "send" /\ moved' = 0
      /\ unshown' = unshown \cup {u \in pressed : u \notin Active(prev_reports[ReportOf[u]])}
      /\ pressed' = pressed /\ endpoint' = endpoint /\ silent' = silent /\ host' = host /\ owed' = owed
      /\ reports' = done.built /\ outgoing_reports' = done.queue /\ prev_reports' = done.prev
      /\ overflowed' = (overflowed \/ done.overflow)
  BY DEF process_mapping
<1>2. TypeOK /\ FieldsFit /\ BlankBetween /\ Newest /\ MotionConserved
  BY DEF IInv
<1>3. /\ OnTheWay \in Int /\ moved \in Int /\ owed \in Int /\ reports[RelativeId].rel \in Int
      /\ Queued(outgoing_reports) \in Int /\ Sending(endpoint[InterfaceOf[RelativeId]]) \in Int
  BY <1>2, OnTheWayType
<1>4. /\ \A id \in Ids : Built(id) \in Contents
      /\ Built(RelativeId).rel = WrapField(v)
      /\ \A id \in Ids : id # RelativeId => Built(id).rel = 0
  BY <1>2, BuiltType, OutQueueAssumption DEF FieldsFit
<1>5. /\ WrapField(v) \in Int /\ total \in Int
      /\ (WrapField(v) - v) % (2 * Half) = 0 /\ 2 * Half \in Nat \ {0}
  <2>1. v \in Int
    BY <1>3
  <2>2. WrapField(v) \in (0 - Half) .. LogicalMaximum /\ (WrapField(v) - v) % (2 * Half) = 0
    BY <2>1, WrapType
  <2> QED
    BY <1>3, <1>4, <2>2, OutQueueAssumption DEF Half
<1>6. first \in Accs(total, before)
  <2> DEFINE b == [id \in Ids |-> Built(id)]
  <2>1. b \in [Ids -> Contents] /\ \A id \in Ids : b[id] = Built(id)
    BY <1>4
  <2>2. b[RelativeId] = Built(RelativeId) /\ RelativeId \in Ids
    BY <2>1, OutQueueAssumption
  <2>3. \A id \in Ids : IsNewest(outgoing_reports, id, Absolute(prev_reports[id]), before[id])
    BY <1>2 DEF Newest
  <2>4. /\ outgoing_reports \in Seq(Items) /\ prev_reports \in [Ids -> Contents]
        /\ Len(outgoing_reports) <= OR_BUFSIZE
        /\ \A n \in 1 .. Len(outgoing_reports) :
             outgoing_reports[n].id # RelativeId => outgoing_reports[n].report.rel = 0
    BY <1>2 DEF TypeOK, FieldsFit
  <2>5. b[RelativeId].rel + Queued(outgoing_reports) = total
    BY <2>2
  <2>6. \A id \in Ids : id # RelativeId => b[id].rel = 0
    BY <1>4, <2>1
  <2>7. FALSE \in BOOLEAN
    OBVIOUS
  <2> HIDE DEF b, total, before
  <2> QED
    BY <2>1, <2>3, <2>4, <2>5, <2>6, <2>7, AccsIs DEF b
<1>7. /\ done \in Accs(total, before)
      /\ ~done.overflow => \A id \in Ids : done.built[id] = Blank
  <2> HIDE DEF total, before, first
  <2> QED
    BY <1>5, <1>6, LoopKeeps
<1> HIDE DEF done
<1>8. /\ done.built \in [Ids -> Contents] /\ done.queue \in Seq(Items)
      /\ done.prev \in [Ids -> Contents] /\ done.overflow \in BOOLEAN
      /\ Len(done.queue) <= OR_BUFSIZE
      /\ \A id \in Ids : id # RelativeId => done.built[id].rel = 0
      /\ \A p \in 1 .. Len(done.queue) : done.queue[p].id # RelativeId => done.queue[p].report.rel = 0
      /\ done.built[RelativeId].rel + Queued(done.queue) = total
      /\ \A id \in Ids : IsNewest(done.queue, id, Absolute(done.prev[id]), before[id])
  BY <1>7 DEF Accs
<1>9. TypeOK'
  <2>1. moved' \in (0 - LogicalMaximum) .. LogicalMaximum
    BY <1>1, OutQueueAssumption
  <2>2. unshown' \subseteq Usages
    BY <1>1, <1>2 DEF TypeOK
  <2>3. overflowed' \in BOOLEAN
    BY <1>1, <1>2, <1>8, Zenon DEF TypeOK
  <2> HIDE DEF total, before
  <2> QED
    BY <1>1, <1>2, <1>8, <2>1, <2>2, <2>3 DEF TypeOK
<1>10. FieldsFit'
  <2> HIDE DEF total, before
  <2> QED
    BY <1>1, <1>2, <1>8 DEF FieldsFit
<1>11. BlankBetween'
  BY <1>1, <1>7 DEF BlankBetween
<1>12. Newest'
  <2> SUFFICES ASSUME NEW id \in Ids
               PROVE  IsNewest(outgoing_reports, id, Absolute(prev_reports[id]), Beyond(id))'
    BY DEF Newest
  <2>1. IsNewest(done.queue, id, Absolute(done.prev[id]), Beyond(id))
    BY <1>8
  <2>2. Beyond(id)' = Beyond(id)
    BY <1>1 DEF Beyond
  <2> HIDE DEF total, before
  <2> QED
    BY <1>1, <2>1, <2>2 DEF IsNewest, Absolute
<1>13. MotionConserved'
  <2> DEFINE s == Sending(endpoint[InterfaceOf[RelativeId]])
  <2>1. OnTheWay' = moved' + reports'[RelativeId].rel + Queued(outgoing_reports')
                      + Sending(endpoint'[InterfaceOf[RelativeId]])
    BY DEF OnTheWay
  <2>2. done.built[RelativeId].rel \in Int /\ Queued(done.queue) \in Int
    BY <1>8, QueuedType, OutQueueAssumption DEF Contents, Half
  <2>3. OnTheWay' = 0 + done.built[RelativeId].rel + Queued(done.queue) + s
    BY <1>1, <2>1
  <2>4. total = WrapField(v) + Queued(outgoing_reports)
    BY <1>4
  <2>5. OnTheWay = moved + reports[RelativeId].rel + Queued(outgoing_reports) + s
    BY DEF OnTheWay
  <2>6. v \in Int /\ s \in Int
    BY <1>3
  <2> DEFINE rel == reports[RelativeId].rel
             queued == Queued(outgoing_reports)
  <2>11. v = rel + moved /\ rel \in Int /\ queued \in Int
    BY <1>3
  <2> HIDE DEF s, total, before, v
  <2>12. OnTheWay' = WrapField(v) + queued + s
    BY <1>3, <1>5, <1>8, <2>2, <2>3, <2>4, <2>6, SMTT(30)
  <2>13. OnTheWay = moved + rel + queued + s
    BY <2>5
  <2> HIDE DEF rel, queued
  <2>7. OnTheWay' - OnTheWay = WrapField(v) - v /\ OnTheWay' \in Int
    BY <1>3, <1>5, <2>6, <2>11, <2>12, <2>13
  <2>8. owed' - OnTheWay' = (owed - OnTheWay) - (WrapField(v) - v)
    BY <1>1, <1>3, <1>5, <2>6, <2>7
  <2>9. (owed' - OnTheWay') % (2 * Half) = 0
    <3>1. (owed - OnTheWay) % (2 * Half) = 0
      BY <1>2 DEF MotionConserved
    <3>2. owed - OnTheWay \in Int /\ WrapField(v) - v \in Int
      BY <1>3, <1>5, <2>6
    <3> QED
      BY <1>5, <2>8, <3>1, <3>2, Multiples
  <2>10. ASSUME ~overflowed' PROVE owed' = OnTheWay'
    <3>1. ~overflowed /\ owed = OnTheWay
      BY <1>1, <1>2, <2>10 DEF MotionConserved
    <3>2. reports[RelativeId].rel = 0
      BY <1>2, <3>1, BlankType, OutQueueAssumption DEF BlankBetween
    <3>3. v \in (0 - Half) .. LogicalMaximum
      BY <1>2, <1>3, <3>2, OutQueueAssumption DEF v, TypeOK, Half
    <3>4. WrapField(v) = v
      BY <3>3, WrapSame
    <3>5. OnTheWay' - OnTheWay = v - v /\ OnTheWay' \in Int /\ OnTheWay \in Int /\ v \in Int
      BY <1>3, <2>6, <2>7, <3>4
    <3>6. OnTheWay' = OnTheWay
      <4> DEFINE a == OnTheWay'
                 b == OnTheWay
                 c == v
      <4>1. a - b = c - c /\ a \in Int /\ b \in Int /\ c \in Int
        BY <3>5
      <4> HIDE DEF a, b, c
      <4>2. a = b
        BY <4>1
      <4> QED
        BY <4>2 DEF a, b
    <3> QED
      BY <1>1, <3>1, <3>6
  <2>14. Half' = Half
    BY DEF Half
  <2> QED
    BY <2>9, <2>10, <2>14 DEF MotionConserved
<1> QED
  BY <1>9, <1>10, <1>11, <1>12, <1>13 DEF IInv

\* The sum of the queue, the newest of a report and the motion, as they are after a step.
LEMMA Primed ==
  /\ OnTheWay' = moved' + reports'[RelativeId].rel + Queued(outgoing_reports')
                   + Sending(endpoint'[InterfaceOf[RelativeId]])
  /\ MotionConserved' <=> /\ (owed' - OnTheWay') % (2 * Half) = 0
                          /\ ~overflowed' => owed' = OnTheWay'
<1>1. Half' = Half
  BY DEF Half
<1> QED
  BY <1>1 DEF OnTheWay, MotionConserved

\* The device sends: what it moved is owed to the host and on its way.
LEMMA ReadStep == IInv /\ ReadReport => IInv'
<1> SUFFICES ASSUME IInv, ReadReport PROVE IInv'
  OBVIOUS
<1>1. TypeOK /\ FieldsFit /\ BlankBetween /\ Newest /\ MotionConserved
  BY DEF IInv
<1>2. /\ pc' = pc /\ reports' = reports /\ prev_reports' = prev_reports
      /\ outgoing_reports' = outgoing_reports /\ overflowed' = overflowed
      /\ endpoint' = endpoint /\ silent' = silent /\ host' = host /\ unshown' = unshown
  BY DEF ReadReport, building
<1>3. FieldsFit' /\ BlankBetween'
  BY <1>1, <1>2 DEF FieldsFit, BlankBetween
<1>4. Newest'
  BY <1>1, <1>2 DEF Newest, IsNewest, Beyond, Absolute
<1>5. /\ OnTheWay \in Int /\ moved \in Int /\ owed \in Int /\ reports[RelativeId].rel \in Int
      /\ Queued(outgoing_reports) \in Int /\ Sending(endpoint[InterfaceOf[RelativeId]]) \in Int
  BY <1>1, OnTheWayType
<1>6. PICK d \in Int : /\ moved' = moved + d /\ owed' = owed + d
                       /\ moved' \in (0 - LogicalMaximum) .. LogicalMaximum
                       /\ pressed' \subseteq Usages
  <2>1. CASE \E u \in Usages :
               /\ pressed' = IF u \in pressed THEN pressed \ {u} ELSE pressed \cup {u}
               /\ UNCHANGED <<moved, owed>>
    <3>1. pressed' \subseteq Usages
      BY <1>1, <2>1 DEF TypeOK
    <3>2. moved' = moved + 0 /\ owed' = owed + 0 /\ moved' \in (0 - LogicalMaximum) .. LogicalMaximum
      BY <1>1, <1>5, <2>1 DEF TypeOK
    <3> QED
      BY <3>1, <3>2
  <2>2. CASE \E d \in Motions :
               /\ moved + d \in (0 - LogicalMaximum) .. LogicalMaximum
               /\ owed + d \in (0 - MaxOwed) .. MaxOwed
               /\ moved' = moved + d
               /\ owed' = owed + d
               /\ UNCHANGED pressed
    <3>1. \A d \in Motions : d \in Int
      BY OutQueueAssumption
    <3> QED
      BY <1>1, <2>2, <3>1 DEF TypeOK
  <2> QED
    BY <2>1, <2>2 DEF ReadReport
<1>7. TypeOK'
  BY <1>1, <1>2, <1>5, <1>6 DEF TypeOK
<1>8. OnTheWay' = OnTheWay + d
  BY <1>2, <1>5, <1>6, Primed DEF OnTheWay
<1>9. owed' - OnTheWay' = owed - OnTheWay /\ (owed' = OnTheWay' <=> owed = OnTheWay)
  BY <1>5, <1>6, <1>8
<1>10. MotionConserved'
  BY <1>1, <1>2, <1>9, Primed DEF MotionConserved
<1> QED
  BY <1>3, <1>4, <1>7, <1>10 DEF IInv

\* The head of the queue goes to its endpoint: its motion too, and it is still the newest of its
\* report, if it was.
LEMMA SendStep == IInv /\ send_report => IInv'
<1> SUFFICES ASSUME IInv, send_report PROVE IInv'
  OBVIOUS
<1> DEFINE q == outgoing_reports
           item == Head(q)
           iface == InterfaceOf[item.id]
           L == Len(q)
<1>1. TypeOK /\ FieldsFit /\ BlankBetween /\ Newest /\ MotionConserved
  BY DEF IInv
<1>2. /\ q # << >> /\ endpoint[iface] = Idle
      /\ endpoint' = [endpoint EXCEPT ![iface] = item]
      /\ outgoing_reports' = Tail(q) /\ pc' = "map"
      /\ pressed' = pressed /\ moved' = moved /\ reports' = reports /\ prev_reports' = prev_reports
      /\ overflowed' = overflowed /\ silent' = silent /\ host' = host /\ owed' = owed
      /\ unshown' = unshown
  BY DEF send_report, CanSend
<1>3. /\ q \in Seq(Items) /\ item \in Items /\ Tail(q) \in Seq(Items)
      /\ L \in Nat \ {0} /\ Len(Tail(q)) = L - 1 /\ item = q[1]
      /\ \A p \in 1 .. L - 1 : Tail(q)[p] = q[p + 1]
  <2>1. q \in Seq(Items)
    BY <1>1 DEF TypeOK
  <2>2. L \in Nat \ {0}
    BY <1>2, <2>1, EmptySeq
  <2> QED
    BY <1>2, <2>1, <2>2, HeadTailProperties
<1>4. item.id \in Ids /\ iface \in Endpoints
  BY <1>3, EndpointOf DEF Items
<1>5. endpoint \in [Endpoints -> Items \cup {Idle}]
  BY <1>1 DEF TypeOK
<1>6. \A id \in Ids : endpoint'[InterfaceOf[id]] = IF InterfaceOf[id] = iface THEN item
                                                    ELSE endpoint[InterfaceOf[id]]
  BY <1>2, <1>5, EndpointOf
<1>7. item # Idle
  BY <1>3, OutQueueAssumption
<1>8. TypeOK'
  <2>1. endpoint' \in [Endpoints -> Items \cup {Idle}]
    BY <1>2, <1>3, <1>5
  <2>2. Len(outgoing_reports') <= OR_BUFSIZE
    BY <1>1, <1>2, <1>3, OutQueueAssumption DEF TypeOK
  <2> HIDE DEF q, item
  <2> QED
    BY <1>1, <1>2, <1>3, <2>1, <2>2 DEF TypeOK
<1>9. item.id # RelativeId => item.report.rel = 0
  BY <1>1, <1>3 DEF FieldsFit
<1>10. FieldsFit'
  <2>1. \A p \in 1 .. Len(outgoing_reports') :
          outgoing_reports'[p].id # RelativeId => outgoing_reports'[p].report.rel = 0
    <3>1. \A p \in 1 .. L - 1 : p + 1 \in 1 .. L
      BY <1>3
    <3> HIDE DEF q
    <3>2. \A p \in 1 .. L : q[p].id # RelativeId => q[p].report.rel = 0
      BY <1>1 DEF FieldsFit, q
    <3> QED
      BY <1>2, <1>3, <3>1, <3>2
  <2>2. ASSUME NEW i \in Endpoints, endpoint'[i] # Idle
        PROVE  /\ InterfaceOf[endpoint'[i].id] = i
               /\ endpoint'[i].id # RelativeId => endpoint'[i].report.rel = 0
    <3>1. CASE i = iface
      <4>1. endpoint'[i] = item
        BY <1>2, <1>4, <1>5, <3>1
      <4> QED
        BY <1>9, <3>1, <4>1
    <3>2. CASE i # iface
      <4>1. endpoint'[i] = endpoint[i]
        BY <1>2, <1>5, <3>2
      <4> QED
        BY <1>1, <2>2, <4>1 DEF FieldsFit
    <3> QED
      BY <3>1, <3>2
  <2>3. \A id \in Ids : id # RelativeId => reports'[id].rel = 0
    BY <1>1, <1>2 DEF FieldsFit
  <2> QED
    BY <2>1, <2>2, <2>3 DEF FieldsFit
<1>11. BlankBetween'
  BY <1>1, <1>2 DEF BlankBetween
<1>12. Newest'
  <2> SUFFICES ASSUME NEW id \in Ids
               PROVE  IsNewest(outgoing_reports, id, Absolute(prev_reports[id]), Beyond(id))'
    BY DEF Newest
  <2> DEFINE rest == Tail(q)
             content == Absolute(prev_reports[id])
             beyond == IF endpoint'[InterfaceOf[id]] # Idle /\ endpoint'[InterfaceOf[id]].id = id
                       THEN Absolute(endpoint'[InterfaceOf[id]].report) ELSE host[id]
  <2>1. Beyond(id)' = beyond
    BY <1>2 DEF Beyond, Absolute
  <2> SUFFICES IsNewest(rest, id, content, beyond)
    BY <1>2, <2>1 DEF IsNewest, Absolute
  <2>2. IsNewest(q, id, content, Beyond(id))
    BY <1>1 DEF Newest
  <2>3. item.id = id => beyond = Absolute(item.report)
    BY <1>6, <1>7
  <2>4. item.id # id => beyond = Beyond(id)
    <3>1. CASE InterfaceOf[id] = iface
      BY <1>2, <1>6, <3>1 DEF Beyond
    <3>2. CASE InterfaceOf[id] # iface
      BY <1>6, <3>2 DEF Beyond
    <3> QED
      BY <3>1, <3>2
  <2> HIDE DEF beyond, item, rest, q, content
  <2>5. Len(rest) = L - 1 /\ \A p \in 1 .. L - 1 : rest[p] = q[p + 1] /\ p + 1 \in 1 .. L
    BY <1>3 DEF rest
  <2>6. CASE \A p \in 1 .. L : q[p].id # id
    <3>1. content = Beyond(id) /\ item.id # id
      BY <1>3, <2>2, <2>6 DEF IsNewest, L
    <3>2. \A p \in 1 .. Len(rest) : rest[p].id # id
      BY <2>5, <2>6
    <3> QED
      BY <2>4, <3>1, <3>2 DEF IsNewest
  <2>7. CASE \E p \in 1 .. L : q[p].id = id
    <3>1. PICK p \in 1 .. L : /\ q[p].id = id
                              /\ \A n \in 1 .. L : p < n => q[n].id # id
                              /\ content = Absolute(q[p].report)
      BY <2>2, <2>7 DEF IsNewest, L
    <3>2. CASE p = 1
      <4>1. \A n \in 1 .. L - 1 : 1 < n + 1
        BY <1>3
      <4>2. \A n \in 1 .. Len(rest) : rest[n].id # id
        BY <2>5, <3>1, <3>2, <4>1
      <4>3. content = beyond
        BY <1>3, <2>3, <3>1, <3>2
      <4> QED
        BY <4>2, <4>3 DEF IsNewest
    <3>3. CASE p # 1
      <4>1. p - 1 \in 1 .. L - 1 /\ p - 1 + 1 = p
        BY <1>3, <3>1, <3>3
      <4>2. rest[p - 1] = q[p]
        BY <2>5, <4>1
      <4>3. \A n \in 1 .. L - 1 : p - 1 < n => p < n + 1
        BY <1>3, <4>1
      <4>4. \A n \in 1 .. Len(rest) : p - 1 < n => rest[n].id # id
        BY <2>5, <3>1, <4>3
      <4> QED
        BY <2>5, <3>1, <4>1, <4>2, <4>4 DEF IsNewest
    <3> QED
      BY <3>2, <3>3
  <2> QED
    BY <2>6, <2>7
<1>13. MotionConserved'
  <2>1. /\ OnTheWay \in Int /\ moved \in Int /\ owed \in Int /\ reports[RelativeId].rel \in Int
        /\ Queued(q) \in Int /\ Sending(endpoint[InterfaceOf[RelativeId]]) \in Int
    BY <1>1, OnTheWayType
  <2>2. Queued(q) = Motion(item) + Queued(Tail(q)) /\ Motion(item) \in Int /\ Queued(Tail(q)) \in Int
    BY <1>2, <1>3, QueuedTail, QueuedType, MotionType
  <2>3. RelativeId \in Ids
    BY OutQueueAssumption
  <2>4. Sending(endpoint'[InterfaceOf[RelativeId]])
          = Sending(endpoint[InterfaceOf[RelativeId]]) + Motion(item)
    <3>1. CASE InterfaceOf[RelativeId] = iface
      <4>1. endpoint[InterfaceOf[RelativeId]] = Idle /\ endpoint'[InterfaceOf[RelativeId]] = item
        BY <1>2, <1>6, <2>3, <3>1
      <4> HIDE DEF item
      <4> QED
        BY <1>7, <2>2, <4>1 DEF Sending
    <3>2. CASE InterfaceOf[RelativeId] # iface
      <4>1. endpoint'[InterfaceOf[RelativeId]] = endpoint[InterfaceOf[RelativeId]]
        BY <1>6, <2>3, <3>2
      <4>2. item.id # RelativeId
        BY <3>2
      <4>3. Motion(item) = 0
        BY <4>2 DEF Motion
      <4> QED
        BY <2>1, <4>1, <4>3
    <3> QED
      BY <3>1, <3>2
  <2>5. OnTheWay' = moved + reports[RelativeId].rel + Queued(Tail(q))
                      + Sending(endpoint'[InterfaceOf[RelativeId]])
    BY <1>2, Primed
  <2>6. OnTheWay = moved + reports[RelativeId].rel + Queued(q)
                     + Sending(endpoint[InterfaceOf[RelativeId]])
    BY DEF OnTheWay
  <2> HIDE DEF q, item
  <2>7. OnTheWay' = OnTheWay
    BY <2>1, <2>2, <2>4, <2>5, <2>6
  <2> QED
    BY <1>1, <1>2, <2>7, Primed DEF MotionConserved
<1> QED
  BY <1>8, <1>10, <1>11, <1>12, <1>13 DEF IInv

\* The host takes the report: its motion has arrived.
LEMMA PollStep == ASSUME NEW i \in Endpoints PROVE IInv /\ HostPoll(i) => IInv'
<1> SUFFICES ASSUME IInv, HostPoll(i) PROVE IInv'
  OBVIOUS
<1> DEFINE item == endpoint[i]
<1>1. TypeOK /\ FieldsFit /\ BlankBetween /\ Newest /\ MotionConserved
  BY DEF IInv
<1>2. /\ item # Idle
      /\ endpoint' = [endpoint EXCEPT ![i] = Idle]
      /\ host' = [host EXCEPT ![item.id] = Absolute(item.report)]
      /\ owed' = owed - item.report.rel
      /\ unshown' = unshown \ Active(item.report)
      /\ pc' = pc /\ pressed' = pressed /\ moved' = moved /\ reports' = reports
      /\ prev_reports' = prev_reports /\ outgoing_reports' = outgoing_reports
      /\ overflowed' = overflowed /\ silent' = silent
  BY DEF HostPoll, building
<1>3. endpoint \in [Endpoints -> Items \cup {Idle}] /\ item \in Items
  BY <1>1, <1>2 DEF TypeOK
<1>4. /\ item.id \in Ids /\ InterfaceOf[item.id] = i /\ item.report \in Contents
      /\ item.id # RelativeId => item.report.rel = 0
  BY <1>1, <1>2, <1>3 DEF FieldsFit, Items
<1>5. item.report.rel \in Int
  BY <1>4, OutQueueAssumption DEF Contents, Half
<1>6. \A id \in Ids : endpoint'[InterfaceOf[id]] = IF InterfaceOf[id] = i THEN Idle
                                                    ELSE endpoint[InterfaceOf[id]]
  BY <1>2, <1>3, EndpointOf
<1>7. Absolute(item.report) \in [keys : Seq(ArrayUsages), bits : SUBSET (Usages \ ArrayUsages)]
  BY <1>4 DEF Absolute, Contents
<1>8. TypeOK'
  <2>1. endpoint' \in [Endpoints -> Items \cup {Idle}]
    BY <1>2, <1>3
  <2>2. host' \in [Ids -> [keys : Seq(ArrayUsages), bits : SUBSET (Usages \ ArrayUsages)]]
    BY <1>1, <1>2, <1>7 DEF TypeOK
  <2>3. owed' \in Int /\ unshown' \subseteq Usages
    BY <1>1, <1>2, <1>5 DEF TypeOK
  <2> HIDE DEF item
  <2> QED
    BY <1>1, <1>2, <2>1, <2>2, <2>3 DEF TypeOK
<1>9. FieldsFit'
  <2>1. ASSUME NEW j \in Endpoints, endpoint'[j] # Idle PROVE endpoint'[j] = endpoint[j]
    BY <1>2, <1>3, <2>1
  <2> QED
    BY <1>1, <1>2, <2>1 DEF FieldsFit
<1>10. BlankBetween'
  BY <1>1, <1>2 DEF BlankBetween
<1>11. Newest'
  <2> SUFFICES ASSUME NEW id \in Ids
               PROVE  IsNewest(outgoing_reports, id, Absolute(prev_reports[id]), Beyond(id))'
    BY DEF Newest
  <2> DEFINE beyond == IF endpoint'[InterfaceOf[id]] # Idle /\ endpoint'[InterfaceOf[id]].id = id
                       THEN Absolute(endpoint'[InterfaceOf[id]].report) ELSE host'[id]
  <2>1. Beyond(id)' = beyond
    BY DEF Beyond, Absolute
  <2>2. host'[id] = IF id = item.id THEN Absolute(item.report) ELSE host[id]
    BY <1>1, <1>2, <1>4 DEF TypeOK
  <2>3. beyond = Beyond(id)
    <3>1. CASE id = item.id
      BY <1>2, <1>4, <1>6, <2>2, <3>1 DEF Beyond
    <3>2. CASE id # item.id /\ InterfaceOf[id] = i
      BY <1>6, <2>2, <3>2 DEF Beyond
    <3>3. CASE id # item.id /\ InterfaceOf[id] # i
      BY <1>6, <2>2, <3>3 DEF Beyond
    <3> QED
      BY <3>1, <3>2, <3>3
  <2>4. IsNewest(outgoing_reports, id, Absolute(prev_reports[id]), beyond)
    BY <1>1, <2>3 DEF Newest
  <2> HIDE DEF beyond
  <2> QED
    BY <1>2, <2>1, <2>4 DEF IsNewest, Absolute
<1>12. MotionConserved'
  <2>1. /\ OnTheWay \in Int /\ moved \in Int /\ owed \in Int /\ reports[RelativeId].rel \in Int
        /\ Queued(outgoing_reports) \in Int /\ Sending(endpoint[InterfaceOf[RelativeId]]) \in Int
    BY <1>1, OnTheWayType
  <2>2. RelativeId \in Ids
    BY OutQueueAssumption
  <2>3. Sending(endpoint'[InterfaceOf[RelativeId]])
          = Sending(endpoint[InterfaceOf[RelativeId]]) - item.report.rel
    <3>1. CASE InterfaceOf[RelativeId] = i
      <4>1. endpoint[InterfaceOf[RelativeId]] = item /\ endpoint'[InterfaceOf[RelativeId]] = Idle
        BY <1>6, <2>2, <3>1
      <4>2. Motion(item) = item.report.rel
        BY <1>4 DEF Motion
      <4>3. Sending(item) = item.report.rel
        BY <1>2, <4>2 DEF Sending
      <4>4. Sending(Idle) = 0
        BY DEF Sending
      <4> HIDE DEF item
      <4> QED
        BY <1>5, <4>1, <4>3, <4>4
    <3>2. CASE InterfaceOf[RelativeId] # i
      <4>1. endpoint'[InterfaceOf[RelativeId]] = endpoint[InterfaceOf[RelativeId]]
        BY <1>6, <2>2, <3>2
      <4>2. item.report.rel = 0
        BY <1>4, <3>2
      <4> QED
        BY <2>1, <4>1, <4>2
    <3> QED
      BY <3>1, <3>2
  <2>4. OnTheWay' = moved + reports[RelativeId].rel + Queued(outgoing_reports)
                      + Sending(endpoint'[InterfaceOf[RelativeId]])
    BY <1>2, Primed
  <2>5. OnTheWay = moved + reports[RelativeId].rel + Queued(outgoing_reports)
                     + Sending(endpoint[InterfaceOf[RelativeId]])
    BY DEF OnTheWay
  <2> HIDE DEF item
  <2>6. OnTheWay' = OnTheWay - item.report.rel
    BY <1>5, <2>1, <2>3, <2>4, <2>5
  <2>7. owed' - OnTheWay' = owed - OnTheWay /\ (owed' = OnTheWay' <=> owed = OnTheWay)
    BY <1>2, <1>5, <2>1, <2>6
  <2> QED
    BY <1>1, <1>2, <2>7, Primed DEF MotionConserved
<1> QED
  BY <1>8, <1>9, <1>10, <1>11, <1>12 DEF IInv

\* Nothing that the invariant speaks of changes.
LEMMA SameStep ==
  ASSUME IInv, pc' \in {"map", "send"}, silent' \in BOOLEAN,
         UNCHANGED <<pressed, moved, building, endpoint, host, owed, unshown>>
  PROVE  IInv'
<1>1. TypeOK /\ FieldsFit /\ BlankBetween /\ Newest /\ MotionConserved
  BY DEF IInv
<1>2. /\ pressed' = pressed /\ moved' = moved /\ reports' = reports /\ prev_reports' = prev_reports
      /\ outgoing_reports' = outgoing_reports /\ overflowed' = overflowed /\ endpoint' = endpoint
      /\ host' = host /\ owed' = owed /\ unshown' = unshown
  BY DEF building
<1>3. TypeOK'
  BY <1>1, <1>2 DEF TypeOK
<1>4. FieldsFit' /\ BlankBetween'
  BY <1>1, <1>2 DEF FieldsFit, BlankBetween
<1>5. Newest'
  BY <1>1, <1>2 DEF Newest, IsNewest, Beyond, Absolute
<1>6. OnTheWay' = OnTheWay
  BY <1>2, Primed DEF OnTheWay
<1>7. MotionConserved'
  BY <1>1, <1>2, <1>6, Primed DEF MotionConserved
<1> QED
  BY <1>3, <1>4, <1>5, <1>7 DEF IInv

-----------------------------------------------------------------------------
(* Theorems.                                                               *)

LEMMA IInvHolds == Spec => []IInv
<1>1. IInv /\ [Next]_vars => IInv'
  <2> SUFFICES ASSUME IInv, [Next]_vars PROVE IInv'
    OBVIOUS
  <2>0. pc \in {"map", "send"} /\ silent \in BOOLEAN
    BY DEF IInv, TypeOK
  <2>1. CASE ReadReport
    BY <2>1, ReadStep
  <2>2. CASE process_mapping
    BY <2>2, FrameStep
  <2>3. CASE send_report
    BY <2>3, SendStep
  <2>4. CASE SendNothing
    <3>1. /\ pc' = "map" /\ silent' = silent
          /\ UNCHANGED <<pressed, moved, building, endpoint, host, owed, unshown>>
      BY <2>4 DEF SendNothing
    <3> QED
      BY <2>0, <3>1, SameStep
  <2>5. ASSUME NEW i \in Endpoints, HostPoll(i) PROVE IInv'
    BY <2>5, PollStep
  <2>6. CASE FallSilent
    <3>1. /\ pc' = pc /\ silent' = TRUE
          /\ UNCHANGED <<pressed, moved, building, endpoint, host, owed, unshown>>
      BY <2>6 DEF FallSilent
    <3> QED
      BY <2>0, <3>1, SameStep
  <2>7. CASE UNCHANGED vars
    <3>1. /\ pc' = pc /\ silent' = silent
          /\ UNCHANGED <<pressed, moved, building, endpoint, host, owed, unshown>>
      BY <2>7 DEF vars
    <3> QED
      BY <2>0, <3>1, SameStep
  <2> QED
    BY <2>1, <2>2, <2>3, <2>4, <2>5, <2>6, <2>7 DEF Next
<1> QED
  BY InitHolds, <1>1, PTL DEF Spec

\* The types hold, and what a frame compares a report with (prev_reports) is what the host will
\* show of it once all that is in flight has arrived.
THEOREM PrevIsWhatHostWillShow == Spec => []OutQueueInv
<1>1. IInv => OutQueueInv
  BY NewestIs DEF IInv, OutQueueInv
<1> QED
  BY IInvHolds, <1>1, PTL

\* The motion the host is still owed is what the stages between hold: exactly until a frame has
\* met a full queue, and in the low bits of the field ever after.
THEOREM NoMotionLost == Spec => []MotionConserved
<1>1. IInv => MotionConserved
  BY DEF IInv
<1> QED
  BY IInvHolds, <1>1, PTL

=============================================================================
