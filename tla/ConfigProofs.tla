---------------------------- MODULE ConfigProofs ----------------------------
(***************************************************************************)
(* Config, for any number of macros and expressions, any packets and any   *)
(* sectors: what is saved is what is read (SavedIsRead, by the offsets of  *)
(* the blocks of a sector), a client that is told SUCCESS can pull the     *)
(* plug, the board starts with what was saved, macros and expressions are  *)
(* downloaded whole, and no frame runs on what was not compiled.           *)
(***************************************************************************)
EXTENDS Config, SequenceTheorems, WellFoundedInduction, TLAPS

-----------------------------------------------------------------------------
(* Induction up to a length, and functions defined step by step.           *)

LEMMA LeastElement ==
  ASSUME NEW T \in SUBSET Nat, T # {}
  PROVE  \E x \in T : \A y \in T : x <= y
<1>1. PICK x \in T : \A y \in T : <<y, x>> \notin OpToRel(<, Nat)
  BY NatLessThanWellFounded, WFMin
<1>2. \A y \in T : ~(y < x)
  BY <1>1 DEF OpToRel
<1>3. QED
  BY <1>2

LEMMA UpTo ==
  ASSUME NEW N \in Nat, NEW T, 0 \in T, \A n \in 0 .. N - 1 : n \in T => n + 1 \in T
  PROVE  \A n \in 0 .. N : n \in T
<1> SUFFICES ASSUME NEW m \in 0 .. N, m \notin T PROVE FALSE
  OBVIOUS
<1> DEFINE U == {n \in 0 .. N : n \notin T}
<1>1. PICK x \in U : \A y \in U : x <= y
  <2>1. U \in SUBSET Nat /\ U # {}
    OBVIOUS
  <2> HIDE DEF U
  <2> QED
    BY <2>1, LeastElement
<1>2. x \in 0 .. N /\ x \notin T /\ x # 0 /\ x - 1 \in 0 .. N - 1
  BY <1>1
<1>3. x - 1 \notin U
  <2>1. ~(x <= x - 1)
    BY <1>2
  <2> QED
    BY <1>1, <2>1
<1>4. x - 1 \in T
  BY <1>2, <1>3
<1>5. x - 1 + 1 = x
  BY <1>2
<1> QED
  BY <1>2, <1>4, <1>5

\* f starts from base and goes on step by step.
Follows(f, Acc, base, N, step) ==
  /\ f \in [0 .. N -> Acc]
  /\ f[0] = base
  /\ \A n \in 0 .. N - 1 : f[n + 1] = step[n + 1][f[n]]

LEMMA FollowsExists ==
  ASSUME NEW Acc, NEW base \in Acc, NEW N \in Nat, NEW step \in [1 .. N -> [Acc -> Acc]]
  PROVE  \E f : Follows(f, Acc, base, N, step)
<1> DEFINE T == {n \in 0 .. N : \E f : Follows(f, Acc, base, n, step)}
<1>1. 0 \in T
  <2> DEFINE f == [n \in 0 .. 0 |-> base]
  <2>1. Follows(f, Acc, base, 0, step)
    BY DEF Follows
  <2> HIDE DEF f
  <2> QED
    BY <2>1
<1>2. ASSUME NEW n \in 0 .. N - 1, n \in T PROVE n + 1 \in T
  <2>1. PICK f : Follows(f, Acc, base, n, step)
    BY <1>2
  <2> DEFINE g == [m \in 0 .. n + 1 |-> IF m = n + 1 THEN step[n + 1][f[n]] ELSE f[m]]
  <2>2. f \in [0 .. n -> Acc] /\ n \in 0 .. n /\ f[n] \in Acc /\ n + 1 \in 1 .. N
    BY <2>1 DEF Follows
  <2>3. step[n + 1][f[n]] \in Acc
    BY <2>2
  <2>4. g \in [0 .. n + 1 -> Acc]
    BY <2>2, <2>3
  <2>5. g[0] = base
    BY <2>1 DEF Follows
  <2>6. ASSUME NEW m \in 0 .. (n + 1) - 1 PROVE g[m + 1] = step[m + 1][g[m]]
    <3>1. CASE m = n
      BY <3>1
    <3>2. CASE m # n
      <4>1. m \in 0 .. n - 1 /\ m + 1 \in 0 .. n + 1 /\ m + 1 # n + 1 /\ m # n + 1 /\ m \in 0 .. n + 1
        BY <3>2
      <4>2. f[m + 1] = step[m + 1][f[m]]
        BY <2>1, <4>1 DEF Follows
      <4> QED
        BY <4>1, <4>2
    <3> QED
      BY <3>1, <3>2
  <2>7. Follows(g, Acc, base, n + 1, step) /\ n + 1 \in 0 .. N
    <3> HIDE DEF g
    <3> QED
      BY <2>4, <2>5, <2>6 DEF Follows
  <2> HIDE DEF g
  <2> QED
    BY <2>7
<1>3. \A n \in 0 .. N : n \in T
  <2> HIDE DEF T
  <2> QED
    BY <1>1, <1>2, UpTo
<1> QED
  BY <1>3

-----------------------------------------------------------------------------
(* FlattenSeq, by the concatenations of the first sequences.               *)

IsFlat(f, seqs, T) ==
  /\ f \in [0 .. Len(seqs) -> Seq(T)]
  /\ f[0] = << >>
  /\ \A n \in 0 .. Len(seqs) - 1 : f[n + 1] = f[n] \o seqs[n + 1]

LEMMA FlattenIs ==
  ASSUME NEW T, NEW seqs \in Seq(Seq(T))
  PROVE  \E f : IsFlat(f, seqs, T) /\ FlattenSeq(seqs) = f[Len(seqs)]
<1> DEFINE N == Len(seqs)
           step == [n \in 1 .. N |-> [s \in Seq(T) |-> s \o seqs[n]]]
<1>1. N \in Nat /\ (\A n \in 1 .. N : seqs[n] \in Seq(T)) /\ << >> \in Seq(T)
  BY LenProperties, ElementOfSeq, EmptySeq
<1>2. step \in [1 .. N -> [Seq(T) -> Seq(T)]]
  BY <1>1, ConcatProperties
<1>3. PICK f : Follows(f, Seq(T), << >>, N, step)
  <2> HIDE DEF step, N
  <2> QED
    BY <1>1, <1>2, FollowsExists
<1>4. f \in [0 .. N -> Seq(T)] /\ f[0] = << >>
  BY <1>3 DEF Follows
<1>5. \A n \in 0 .. N - 1 : f[n + 1] = f[n] \o seqs[n + 1]
  <2> TAKE n \in 0 .. N - 1
  <2>1. n + 1 \in 1 .. N /\ n \in 0 .. N
    BY <1>1
  <2>2. step[n + 1] = [s \in Seq(T) |-> s \o seqs[n + 1]]
    BY <2>1
  <2>3. step[n + 1][f[n]] = f[n] \o seqs[n + 1]
    BY <2>1, <2>2, <1>4
  <2>4. f[n + 1] = step[n + 1][f[n]]
    BY <1>3 DEF Follows
  <2> QED
    BY <2>3, <2>4
<1>6. IsFlat(f, seqs, T)
  BY <1>4, <1>5 DEF IsFlat
<1>7. FlattenSeq(seqs) = f[N]
  <2>1. CASE N = 0
    <3>1. seqs = << >>
      BY <2>1, EmptySeq
    <3> QED
      BY <2>1, <3>1, <1>4 DEF FlattenSeq
  <2>2. CASE N # 0
    <3> DEFINE Is(g) == g = [i \in 1 .. N |-> IF i = 1 THEN seqs[i] ELSE g[i - 1] \o seqs[i]]
               own == [i \in 1 .. N |-> f[i]]
               flatten == CHOOSE g : Is(g)
    <3>1. Is(own)
      <4> SUFFICES ASSUME NEW i \in 1 .. N
                   PROVE  f[i] = IF i = 1 THEN seqs[i] ELSE own[i - 1] \o seqs[i]
        OBVIOUS
      <4>1. i - 1 \in 0 .. N - 1 /\ i - 1 + 1 = i
        BY <1>1
      <4>2. f[i] = f[i - 1] \o seqs[i]
        BY <4>1, <1>5
      <4>3. CASE i = 1
        <5>1. f[i - 1] = << >>
          BY <4>3, <1>4
        <5> QED
          BY <5>1, <4>2, <4>3, <1>1, ConcatEmptySeq
      <4>4. CASE i # 1
        <5>1. i - 1 \in 1 .. N
          BY <4>4, <1>1
        <5> QED
          BY <5>1, <4>2, <4>4
      <4> QED
        BY <4>3, <4>4
    <3>2. Is(flatten)
      <4> HIDE DEF own, Is
      <4> QED
        BY <3>1
    <3> HIDE DEF flatten
    <3> DEFINE U == {n \in 0 .. N : n = 0 \/ flatten[n] = f[n]}
    <3>3. 0 \in U
      BY <1>1
    <3>4. ASSUME NEW n \in 0 .. N - 1, n \in U PROVE n + 1 \in U
      <4>1. n + 1 \in 1 .. N /\ n + 1 \in 0 .. N /\ n + 1 - 1 = n
        BY <1>1
      <4>2. flatten[n + 1] = IF n + 1 = 1 THEN seqs[n + 1] ELSE flatten[n + 1 - 1] \o seqs[n + 1]
        <5> HIDE DEF own, N, U
        <5>1. \A i \in 1 .. N : flatten[i] = IF i = 1 THEN seqs[i] ELSE flatten[i - 1] \o seqs[i]
          BY <3>2
        <5> HIDE DEF Is
        <5> QED
          BY <5>1, <4>1
      <4>3. f[n + 1] = f[n] \o seqs[n + 1]
        BY <1>5
      <4>4. CASE n = 0
        <5>1. f[n + 1] = << >> \o seqs[n + 1]
          BY <4>3, <4>4, <1>4
        <5>2. f[n + 1] = seqs[n + 1]
          BY <5>1, <4>1, <1>1, ConcatEmptySeq
        <5> QED
          BY <5>2, <4>2, <4>4, <4>1
      <4>5. CASE n # 0
        <5>1. flatten[n] = f[n] /\ n + 1 # 1
          BY <3>4, <4>5
        <5>2. flatten[n + 1] = f[n + 1]
          BY <5>1, <4>1, <4>2, <4>3
        <5> QED
          BY <5>2, <4>1
      <4> QED
        BY <4>4, <4>5
    <3>5. \A n \in 0 .. N : n \in U
      <4> HIDE DEF U, N
      <4> QED
        BY <1>1, <3>3, <3>4, UpTo
    <3>6. flatten[N] = f[N]
      BY <3>5, <2>2, <1>1
    <3>7. FlattenSeq(seqs) = flatten[N]
      BY <2>2 DEF FlattenSeq, flatten
    <3> QED
      BY <3>6, <3>7
  <2> QED
    BY <2>1, <2>2
<1> QED
  BY <1>6, <1>7

\* Sequence n of seqs is in F after the first o[n - 1] elements.
Offsets(o, F, seqs) ==
  /\ o \in [0 .. Len(seqs) -> Nat]
  /\ o[0] = 0
  /\ o[Len(seqs)] = Len(F)
  /\ \A n \in 0 .. Len(seqs) - 1 :
       /\ o[n + 1] = o[n] + Len(seqs[n + 1])
       /\ o[n + 1] <= Len(F)
       /\ \A k \in 1 .. Len(seqs[n + 1]) : F[o[n] + k] = seqs[n + 1][k]

LEMMA FlatOffsets ==
  ASSUME NEW T, NEW seqs \in Seq(Seq(T))
  PROVE  FlattenSeq(seqs) \in Seq(T) /\ \E o : Offsets(o, FlattenSeq(seqs), seqs)
<1> DEFINE N == Len(seqs)
<1>1. N \in Nat /\ \A n \in 0 .. N - 1 : seqs[n + 1] \in Seq(T) /\ Len(seqs[n + 1]) \in Nat
  <2>1. N \in Nat
    BY LenProperties
  <2>2. ASSUME NEW n \in 0 .. N - 1 PROVE seqs[n + 1] \in Seq(T)
    <3>1. n + 1 \in 1 .. N
      BY <2>1
    <3> QED
      BY <3>1, ElementOfSeq
  <2> QED
    BY <2>1, <2>2, LenProperties
<1>2. PICK f : IsFlat(f, seqs, T) /\ FlattenSeq(seqs) = f[N]
  BY FlattenIs
<1> HIDE DEF N
<1>3. /\ \A n \in 0 .. N : f[n] \in Seq(T) /\ Len(f[n]) \in Nat
      /\ f[0] = << >>
      /\ \A n \in 0 .. N - 1 : f[n + 1] = f[n] \o seqs[n + 1]
  BY <1>2, LenProperties DEF IsFlat, N
<1> DEFINE At(n, m) ==
             /\ Len(f[n + 1]) <= Len(f[m])
             /\ \A k \in 1 .. Len(seqs[n + 1]) : f[m][Len(f[n]) + k] = seqs[n + 1][k]
           U == {m \in 0 .. N : \A n \in 0 .. m - 1 : At(n, m)}
<1>4. ASSUME NEW n \in 0 .. N - 1
      PROVE  /\ Len(f[n + 1]) = Len(f[n]) + Len(seqs[n + 1])
             /\ At(n, n + 1)
             /\ \A j \in 1 .. Len(f[n]) : f[n + 1][j] = f[n][j]
  <2> DEFINE a == f[n]
             b == seqs[n + 1]
             c == f[n + 1]
  <2>1. a \in Seq(T) /\ b \in Seq(T) /\ c = a \o b /\ Len(a) \in Nat /\ Len(b) \in Nat
    <3>1. n \in 0 .. N
      BY <1>1
    <3> QED
      BY <3>1, <1>1, <1>3
  <2> HIDE DEF a, b, c
  <2>2. Len(c) = Len(a) + Len(b)
    BY <2>1, ConcatProperties
  <2>3. \A j \in 1 .. Len(a) : c[j] = a[j]
    BY <2>1, ConcatProperties
  <2>4. \A k \in 1 .. Len(b) : c[Len(a) + k] = b[k]
    <3> TAKE k \in 1 .. Len(b)
    <3>1. Len(a) + k \in 1 .. Len(a) + Len(b) /\ ~(Len(a) + k <= Len(a)) /\ Len(a) + k - Len(a) = k
      BY <2>1
    <3> QED
      BY <2>1, <3>1, ConcatProperties
  <2>5. Len(c) <= Len(c)
    BY <2>1, <2>2
  <2> QED
    BY <2>2, <2>3, <2>4, <2>5 DEF a, b, c
<1>5. 0 \in U
  BY <1>1
<1>6. ASSUME NEW m \in 0 .. N - 1, m \in U PROVE m + 1 \in U
  <2>1. m + 1 \in 0 .. N /\ m \in 0 .. N
    BY <1>1
  <2>2. ASSUME NEW n \in 0 .. (m + 1) - 1 PROVE At(n, m + 1)
    <3>1. CASE n = m
      BY <3>1, <1>4
    <3>2. CASE n # m
      <4>1. n \in 0 .. m - 1 /\ n \in 0 .. N - 1 /\ n \in 0 .. N /\ n + 1 \in 0 .. N
        BY <3>2, <1>1
      <4>2. At(n, m)
        BY <1>6, <4>1
      <4>3. Len(f[m + 1]) = Len(f[m]) + Len(seqs[m + 1]) /\ Len(f[n + 1]) = Len(f[n]) + Len(seqs[n + 1])
        BY <1>4, <4>1
      <4>4. /\ Len(f[m]) \in Nat /\ Len(f[n]) \in Nat /\ Len(f[n + 1]) \in Nat
            /\ Len(seqs[m + 1]) \in Nat /\ Len(seqs[n + 1]) \in Nat
        BY <1>1, <1>3, <2>1, <4>1
      <4>5. Len(f[n + 1]) <= Len(f[m]) /\ Len(f[m]) <= Len(f[m + 1])
        <5>1. Len(f[n + 1]) <= Len(f[m])
          BY <4>2
        <5> HIDE DEF U, At
        <5>2. Len(f[m]) <= Len(f[m + 1])
          <6> DEFINE z == Len(f[m])
                     v == Len(f[m + 1])
                     w == Len(seqs[m + 1])
          <6>1. z \in Nat /\ w \in Nat /\ v = z + w
            BY <4>3, <4>4
          <6> HIDE DEF z, v, w
          <6>2. z <= v
            BY <6>1
          <6> QED
            BY <6>2 DEF z, v
        <5> QED
          BY <5>1, <5>2
      <4>6. ASSUME NEW k \in 1 .. Len(seqs[n + 1])
            PROVE  f[m + 1][Len(f[n]) + k] = seqs[n + 1][k]
        <5>1. Len(f[n]) + k \in 1 .. Len(f[m])
          <6> DEFINE x == Len(f[n])
                     y == Len(f[n + 1])
                     z == Len(f[m])
                     w == Len(seqs[n + 1])
          <6>1. x \in Nat /\ z \in Nat /\ w \in Nat /\ y = x + w /\ y <= z /\ k \in 1 .. w
            BY <4>3, <4>4, <4>5
          <6> HIDE DEF x, y, z, w
          <6>2. x + k \in 1 .. z
            BY <6>1
          <6> QED
            BY <6>2 DEF x, z
        <5>2. f[m + 1][Len(f[n]) + k] = f[m][Len(f[n]) + k]
          BY <5>1, <1>4
        <5> QED
          BY <5>2, <4>2
      <4>7. Len(f[n + 1]) <= Len(f[m + 1])
        <5> HIDE DEF U, At
        <5>1. Len(f[m + 1]) \in Nat
          BY <1>3, <2>1
        <5> DEFINE z == Len(f[m])
                   v == Len(f[m + 1])
                   y == Len(f[n + 1])
        <5>2. z \in Nat /\ v \in Nat /\ y \in Nat /\ y <= z /\ z <= v
          BY <5>1, <4>4, <4>5
        <5> HIDE DEF z, v, y
        <5>3. y <= v
          BY <5>2
        <5> QED
          BY <5>3 DEF y, v
      <4> QED
        BY <4>6, <4>7
    <3> QED
      BY <3>1, <3>2
  <2> HIDE DEF At
  <2> QED
    BY <2>1, <2>2
<1>7. \A m \in 0 .. N : m \in U
  <2> HIDE DEF U
  <2> QED
    BY <1>1, <1>5, <1>6, UpTo
<1>8. \A n \in 0 .. N - 1 : At(n, N)
  BY <1>7, <1>1
<1> DEFINE o == [n \in 0 .. N |-> Len(f[n])]
<1>9. Offsets(o, f[N], seqs)
  <2>1. o \in [0 .. N -> Nat] /\ o[0] = 0 /\ o[N] = Len(f[N])
    BY <1>3, <1>1, EmptySeq
  <2>2. ASSUME NEW n \in 0 .. N - 1
        PROVE  /\ o[n + 1] = o[n] + Len(seqs[n + 1])
               /\ o[n + 1] <= Len(f[N])
               /\ \A k \in 1 .. Len(seqs[n + 1]) : f[N][o[n] + k] = seqs[n + 1][k]
    <3>1. o[n] = Len(f[n]) /\ o[n + 1] = Len(f[n + 1])
      BY <1>1
    <3> HIDE DEF o
    <3> QED
      BY <3>1, <1>4, <1>8, ZenonT(40)
  <2> HIDE DEF o, At
  <2> QED
    BY <2>1, <2>2 DEF Offsets, N
<1> HIDE DEF o
<1>10. f[N] \in Seq(T)
  BY <1>3, <1>1
<1> QED
  BY <1>2, <1>9, <1>10 DEF N

-----------------------------------------------------------------------------
(* The blocks of a sector.                                                 *)

\* Block by block, q tells where those end that begin after p.
Ends(q, body, p, N) ==
  /\ q \in [0 .. N -> Nat]
  /\ q[0] = p
  /\ \A i \in 0 .. N - 1 : q[i + 1] = q[i] + 1 + body[q[i] + 1]

LEMMA EndIs ==
  ASSUME NEW body, NEW p \in Nat, NEW N \in Nat, NEW q, Ends(q, body, p, N)
  PROVE  \A n \in 0 .. N : End(body, p, n) = q[n]
<1> TAKE n \in 0 .. N
<1>0. /\ q \in [0 .. N -> Nat] /\ q[0] = p
      /\ \A i \in 0 .. N - 1 : q[i + 1] = q[i] + 1 + body[q[i] + 1]
  BY DEF Ends
<1> DEFINE Is(g) == g = [i \in 0 .. n |-> IF i = 0 THEN p ELSE g[i - 1] + 1 + body[g[i - 1] + 1]]
           own == [i \in 0 .. n |-> q[i]]
           after == CHOOSE g : Is(g)
<1>1. Is(own)
  <2> SUFFICES ASSUME NEW i \in 0 .. n
               PROVE  q[i] = IF i = 0 THEN p ELSE own[i - 1] + 1 + body[own[i - 1] + 1]
    OBVIOUS
  <2>1. CASE i = 0
    BY <2>1, <1>0
  <2>2. CASE i # 0
    <3>1. i - 1 \in 0 .. n /\ i - 1 \in 0 .. N - 1 /\ i - 1 + 1 = i
      BY <2>2
    <3>2. own[i - 1] = q[i - 1]
      BY <3>1
    <3>3. q[i - 1 + 1] = q[i - 1] + 1 + body[q[i - 1] + 1]
      BY <3>1, <1>0
    <3> QED
      BY <3>1, <3>2, <3>3, <2>2
  <2> QED
    BY <2>1, <2>2
<1>2. Is(after)
  <2> HIDE DEF own, Is
  <2> QED
    BY <1>1
<1> HIDE DEF after
<1> DEFINE U == {i \in 0 .. n : after[i] = q[i]}
<1>3. \A i \in 0 .. n : after[i] = IF i = 0 THEN p ELSE after[i - 1] + 1 + body[after[i - 1] + 1]
  <2> HIDE DEF own, U
  <2> QED
    BY <1>2
<1> HIDE DEF Is, own
<1>4. 0 \in U
  <2>1. 0 \in 0 .. n
    OBVIOUS
  <2> QED
    BY <2>1, <1>3, <1>0
<1>5. ASSUME NEW i \in 0 .. n - 1, i \in U PROVE i + 1 \in U
  <2>1. i + 1 \in 0 .. n /\ i \in 0 .. N - 1 /\ i + 1 # 0 /\ i + 1 - 1 = i /\ after[i] = q[i]
    BY <1>5
  <2>2. q[i + 1] = q[i] + 1 + body[q[i] + 1]
    BY <2>1, <1>0
  <2>3. after[i + 1] = after[i] + 1 + body[after[i] + 1]
    <3> HIDE DEF U
    <3>1. after[i + 1] = after[i + 1 - 1] + 1 + body[after[i + 1 - 1] + 1]
      BY <2>1, <1>3
    <3> QED
      BY <3>1, <2>1
  <2>4. after[i + 1] = q[i + 1]
    BY <2>1, <2>2, <2>3
  <2> QED
    BY <2>1, <2>4
<1>6. \A i \in 0 .. n : i \in U
  <2>1. n \in Nat
    OBVIOUS
  <2> HIDE DEF U
  <2> QED
    BY <2>1, <1>4, <1>5, UpTo
<1>7. after[n] = q[n]
  BY <1>6
<1> QED
  BY <1>7 DEF End, after, Is

\* The body of a sector has F after its first p elements.
Holds(body, p, F) ==
  /\ p + Len(F) <= Len(body)
  /\ \A k \in 1 .. Len(F) : body[p + k] = F[k]

\* A length before a sequence.
LEMMA LengthFirst ==
  ASSUME NEW T, NEW s \in Seq(T), NEW n \in T
  PROVE  /\ <<n>> \o s \in Seq(T)
         /\ Len(s) \in Nat
         /\ Len(<<n>> \o s) = 1 + Len(s)
         /\ (<<n>> \o s)[1] = n
         /\ \A k \in 1 .. Len(s) : (<<n>> \o s)[1 + k] = s[k]
<1> DEFINE h == <<n>>
<1>1. h \in Seq(T) /\ Len(h) = 1 /\ h[1] = n /\ Len(s) \in Nat
  BY LenProperties
<1> HIDE DEF h
<1>2. h \o s \in Seq(T) /\ Len(h \o s) = 1 + Len(s)
  <2>1. h \o s \in Seq(T) /\ Len(h \o s) = Len(h) + Len(s)
    BY <1>1, ConcatProperties
  <2> QED
    BY <2>1, <1>1
<1>3. \A i \in 1 .. Len(h) + Len(s) : (h \o s)[i] = IF i <= Len(h) THEN h[i] ELSE s[i - Len(h)]
  BY <1>1, ConcatProperties
<1>4. (h \o s)[1] = n
  BY <1>1, <1>3
<1>5. \A k \in 1 .. Len(s) : (h \o s)[1 + k] = s[k]
  <2> TAKE k \in 1 .. Len(s)
  <2> DEFINE m == 1 + k
  <2>1. m \in 1 .. Len(h) + Len(s) /\ ~(m <= Len(h)) /\ m - Len(h) = k
    BY <1>1
  <2> HIDE DEF m
  <2>2. (h \o s)[m] = s[k]
    BY <1>3, <2>1
  <2> QED
    BY <2>2 DEF m
<1> QED
  BY <1>1, <1>2, <1>4, <1>5 DEF h

\* Blocks of a length and what it counts: what MacroBody writes when the lengths fit.
Prefixed(parts) == [j \in DOMAIN parts |-> <<Len(parts[j])>> \o parts[j]]
Counted(parts) == FlattenSeq(Prefixed(parts))

ArePrefixed(seqs, parts, T) ==
  /\ seqs \in Seq(Seq(T))
  /\ Len(seqs) = Len(parts)
  /\ \A j \in 1 .. Len(parts) :
       /\ parts[j] \in Seq(T) /\ Len(parts[j]) \in Nat
       /\ Len(seqs[j]) = 1 + Len(parts[j])
       /\ seqs[j][1] = Len(parts[j])
       /\ \A k \in 1 .. Len(parts[j]) : seqs[j][1 + k] = parts[j][k]

LEMMA PrefixedIs ==
  ASSUME NEW T, Nat \subseteq T, NEW parts \in Seq(Seq(T))
  PROVE  ArePrefixed(Prefixed(parts), parts, T)
<1>1. DOMAIN parts = 1 .. Len(parts) /\ Len(parts) \in Nat
  BY LenProperties
<1>2. ASSUME NEW j \in 1 .. Len(parts)
      PROVE  /\ parts[j] \in Seq(T) /\ Len(parts[j]) \in Nat
             /\ <<Len(parts[j])>> \o parts[j] \in Seq(T)
             /\ Len(<<Len(parts[j])>> \o parts[j]) = 1 + Len(parts[j])
             /\ (<<Len(parts[j])>> \o parts[j])[1] = Len(parts[j])
             /\ \A k \in 1 .. Len(parts[j]) : (<<Len(parts[j])>> \o parts[j])[1 + k] = parts[j][k]
  <2>1. parts[j] \in Seq(T) /\ Len(parts[j]) \in Nat /\ Len(parts[j]) \in T
    BY ElementOfSeq, LenProperties
  <2> QED
    BY <2>1, LengthFirst
<1>3. Prefixed(parts) = [j \in 1 .. Len(parts) |-> <<Len(parts[j])>> \o parts[j]]
  BY <1>1 DEF Prefixed
<1>4. Prefixed(parts) \in [1 .. Len(parts) -> Seq(T)]
  BY <1>2, <1>3
<1>5. Prefixed(parts) \in Seq(Seq(T)) /\ Len(Prefixed(parts)) = Len(parts)
  BY <1>1, <1>4, SMTT(30)
<1>6. \A j \in 1 .. Len(parts) : Prefixed(parts)[j] = <<Len(parts[j])>> \o parts[j]
  BY <1>3
<1> QED
  BY <1>2, <1>5, <1>6 DEF ArePrefixed

\* Blocks are read as they were written, wherever they begin.
LEMMA BlocksRead ==
  ASSUME NEW T, Nat \subseteq T, NEW body \in Seq(T), NEW parts \in Seq(Seq(T)), NEW p \in Nat,
         Holds(body, p, Counted(parts))
  PROVE  /\ Counted(parts) \in Seq(T)
         /\ End(body, p, Len(parts)) = p + Len(Counted(parts))
         /\ \A i \in 0 .. Len(parts) - 1 : Block(body, p, i) = parts[i + 1]
<1> DEFINE F == Counted(parts)
           seqs == Prefixed(parts)
           N == Len(parts)
<1>1. F = FlattenSeq(seqs)
  BY DEF Counted
<1>2. /\ seqs \in Seq(Seq(T)) /\ Len(seqs) = N /\ N \in Nat
      /\ \A n \in 0 .. N - 1 :
           /\ parts[n + 1] \in Seq(T) /\ Len(parts[n + 1]) \in Nat
           /\ Len(seqs[n + 1]) = 1 + Len(parts[n + 1])
           /\ seqs[n + 1][1] = Len(parts[n + 1])
           /\ \A k \in 1 .. Len(parts[n + 1]) : seqs[n + 1][1 + k] = parts[n + 1][k]
  <2>1. N \in Nat
    BY LenProperties
  <2>2. ASSUME NEW n \in 0 .. N - 1 PROVE n + 1 \in 1 .. N
    BY <2>1
  <2> HIDE DEF F, N, seqs
  <2>3. /\ seqs \in Seq(Seq(T)) /\ Len(seqs) = N
        /\ \A j \in 1 .. N :
             /\ parts[j] \in Seq(T) /\ Len(parts[j]) \in Nat
             /\ Len(seqs[j]) = 1 + Len(parts[j])
             /\ seqs[j][1] = Len(parts[j])
             /\ \A k \in 1 .. Len(parts[j]) : seqs[j][1 + k] = parts[j][k]
    <3>1. ArePrefixed(seqs, parts, T)
      BY PrefixedIs DEF seqs
    <3> QED
      BY <3>1 DEF ArePrefixed, N
  <2> QED
    BY <2>1, <2>2, <2>3
<1> HIDE DEF seqs
<1>3. PICK o : Offsets(o, F, seqs)
  BY <1>1, <1>2, FlatOffsets
<1>4. F \in Seq(T) /\ Len(F) \in Nat
  <2>1. F \in Seq(T)
    BY <1>1, <1>2, FlatOffsets
  <2> QED
    BY <2>1, LenProperties
<1>5. p + Len(F) <= Len(body) /\ \A k \in 1 .. Len(F) : body[p + k] = F[k]
  BY DEF Holds
<1> HIDE DEF F, N
<1>6. /\ \A n \in 0 .. N : o[n] \in Nat
      /\ o[0] = 0 /\ o[N] = Len(F)
  BY <1>3, <1>2 DEF Offsets
<1>7. ASSUME NEW n \in 0 .. N - 1
      PROVE  /\ n \in 0 .. N /\ n + 1 \in 0 .. N
             /\ o[n + 1] = o[n] + 1 + Len(parts[n + 1])
             /\ body[p + o[n] + 1] = Len(parts[n + 1])
             /\ \A k \in 1 .. Len(parts[n + 1]) : body[p + o[n] + 1 + k] = parts[n + 1][k]
             /\ p + o[n] + 1 + Len(parts[n + 1]) <= Len(body)
  <2> DEFINE s == parts[n + 1]
             b == seqs[n + 1]
             x == o[n]
             y == o[n + 1]
  <2>1. n \in 0 .. N /\ n + 1 \in 0 .. N
    BY <1>2
  <2>2. x \in Nat /\ y \in Nat
    BY <2>1, <1>6
  <2>3. /\ Len(s) \in Nat /\ Len(b) = 1 + Len(s) /\ b[1] = Len(s)
        /\ \A k \in 1 .. Len(s) : b[1 + k] = s[k]
    BY <1>2
  <2>4. y = x + Len(b) /\ y <= Len(F) /\ \A k \in 1 .. Len(b) : F[x + k] = b[k]
    BY <1>3, <1>2 DEF Offsets
  <2> HIDE DEF s, b, x, y
  <2>5. y = x + 1 + Len(s)
    BY <2>2, <2>3, <2>4
  <2>6. \A k \in 1 .. Len(b) : body[p + x + k] = b[k]
    <3> TAKE k \in 1 .. Len(b)
    <3>1. x + k \in 1 .. Len(F) /\ p + (x + k) = p + x + k
      BY <2>2, <2>3, <2>4, <1>4
    <3> QED
      BY <3>1, <2>4, <1>5
  <2>7. body[p + x + 1] = Len(s)
    <3>1. 1 \in 1 .. Len(b)
      BY <2>3
    <3> QED
      BY <3>1, <2>6, <2>3
  <2>8. \A k \in 1 .. Len(s) : body[p + x + 1 + k] = s[k]
    <3> TAKE k \in 1 .. Len(s)
    <3>1. 1 + k \in 1 .. Len(b) /\ p + x + (1 + k) = p + x + 1 + k
      BY <2>3, <2>2
    <3> QED
      BY <3>1, <2>6, <2>3
  <2>9. p + x + 1 + Len(s) <= Len(body)
    <3>1. Len(body) \in Nat
      BY LenProperties
    <3> QED
      BY <3>1, <2>2, <2>3, <2>4, <2>5, <1>4, <1>5, SMTT(30)
  <2> QED
    BY <2>1, <2>5, <2>7, <2>8, <2>9 DEF s, x, y
<1> DEFINE q == [n \in 0 .. N |-> p + o[n]]
<1>8. \A n \in 0 .. N : End(body, p, n) = q[n]
  <2>1. q \in [0 .. N -> Nat] /\ q[0] = p
    BY <1>6, <1>2
  <2>2. ASSUME NEW n \in 0 .. N - 1 PROVE q[n + 1] = q[n] + 1 + body[q[n] + 1]
    <3>1. q[n] = p + o[n] /\ q[n + 1] = p + o[n + 1]
      BY <1>7
    <3>2. /\ o[n] \in Nat /\ Len(parts[n + 1]) \in Nat
          /\ o[n + 1] = o[n] + 1 + Len(parts[n + 1]) /\ body[p + o[n] + 1] = Len(parts[n + 1])
      BY <1>7, <1>6, <1>2
    <3> HIDE DEF q
    <3> DEFINE x == o[n]
               y == Len(parts[n + 1])
    <3>3. /\ x \in Nat /\ y \in Nat /\ q[n] = p + x /\ q[n + 1] = p + (x + 1 + y)
          /\ body[p + x + 1] = y
      BY <3>1, <3>2
    <3> HIDE DEF x, y
    <3>4. q[n] + 1 = p + x + 1
      BY <3>3
    <3>5. body[q[n] + 1] = y
      BY <3>3, <3>4
    <3> QED
      BY <3>3, <3>5
  <2>3. N \in Nat
    BY <1>2
  <2> HIDE DEF q
  <2> QED
    <3>1. \A i \in 0 .. N - 1 : q[i + 1] = q[i] + 1 + body[q[i] + 1]
      BY <2>2
    <3>2. Ends(q, body, p, N)
      BY <2>1, <3>1 DEF Ends
    <3> QED
      BY <2>3, <3>2, EndIs
<1>9. End(body, p, N) = p + Len(F)
  <2>1. N \in 0 .. N
    BY <1>2
  <2>2. q[N] = p + o[N]
    BY <2>1
  <2> HIDE DEF q
  <2>3. q[N] = p + Len(F)
    BY <2>2, <1>6
  <2> QED
    BY <2>1, <2>3, <1>8
<1>10. ASSUME NEW i \in 0 .. N - 1 PROVE Block(body, p, i) = parts[i + 1]
  <2> DEFINE s == parts[i + 1]
             e == p + o[i]
  <2>1. End(body, p, i) = e
    <3>1. i \in 0 .. N /\ q[i] = e
      BY <1>7
    <3> HIDE DEF q
    <3> QED
      BY <3>1, <1>8
  <2>2. /\ e \in Nat /\ s \in Seq(T) /\ Len(s) \in Nat /\ body[e + 1] = Len(s)
        /\ (\A k \in 1 .. Len(s) : body[e + 1 + k] = s[k]) /\ e + 1 + Len(s) <= Len(body)
    <3>1. i \in 0 .. N /\ o[i] \in Nat
      BY <1>7, <1>6
    <3>2. s \in Seq(T) /\ Len(s) \in Nat
      BY <1>2
    <3>3. /\ body[e + 1] = Len(s)
          /\ (\A k \in 1 .. Len(s) : body[e + 1 + k] = s[k]) /\ e + 1 + Len(s) <= Len(body)
      BY <1>7
    <3> QED
      BY <3>1, <3>2, <3>3
  <2> HIDE DEF s, e
  <2>3. Block(body, p, i) = SubSeq(body, e + 2, e + 1 + Len(s))
    BY <2>1, <2>2 DEF Block
  <2>4. \A k \in e + 2 .. e + 1 + Len(s) : body[k] \in T
    <3> TAKE k \in e + 2 .. e + 1 + Len(s)
    <3>1. k \in 1 .. Len(body)
      BY <2>2, LenProperties
    <3> QED
      BY <3>1, ElementOfSeq
  <2> DEFINE t == SubSeq(body, e + 2, e + 1 + Len(s))
  <2>5. /\ t \in Seq(T)
        /\ Len(t) = IF e + 2 <= e + 1 + Len(s) THEN e + 1 + Len(s) - (e + 2) + 1 ELSE 0
        /\ \A k \in 1 .. e + 1 + Len(s) - (e + 2) + 1 : t[k] = body[e + 2 + k - 1]
    BY <2>2, <2>4, SubSeqProperties
  <2> HIDE DEF t
  <2>6. Len(t) = Len(s)
    BY <2>2, <2>5
  <2>7. \A k \in 1 .. Len(t) : t[k] = s[k]
    <3> TAKE k \in 1 .. Len(t)
    <3>1. k \in 1 .. e + 1 + Len(s) - (e + 2) + 1 /\ k \in 1 .. Len(s) /\ e + 2 + k - 1 = e + 1 + k
      BY <2>2, <2>6
    <3> QED
      BY <3>1, <2>2, <2>5
  <2>8. t = s
    BY <2>2, <2>5, <2>6, <2>7, SeqEqual
  <2> QED
    BY <2>3, <2>8 DEF t, s
<1> QED
  BY <1>4, <1>9, <1>10 DEF F, N

\* Macro by macro, q tells where those end a body begins with.
MacroEnds(q, body, N) ==
  /\ q \in [0 .. N -> Nat]
  /\ q[0] = 0
  /\ \A i \in 0 .. N - 1 : q[i + 1] = End(body, q[i] + 1, body[q[i] + 1])

LEMMA MacroEndIs ==
  ASSUME NEW body, NEW N \in Nat, NEW q, MacroEnds(q, body, N)
  PROVE  \A n \in 0 .. N : MacroEnd(body, n) = q[n]
<1> TAKE n \in 0 .. N
<1>0. /\ q \in [0 .. N -> Nat] /\ q[0] = 0
      /\ \A i \in 0 .. N - 1 : q[i + 1] = End(body, q[i] + 1, body[q[i] + 1])
  BY DEF MacroEnds
<1> DEFINE Is(g) == g = [i \in 0 .. n |-> IF i = 0 THEN 0 ELSE End(body, g[i - 1] + 1, body[g[i - 1] + 1])]
           own == [i \in 0 .. n |-> q[i]]
           after == CHOOSE g : Is(g)
<1>1. Is(own)
  <2> SUFFICES ASSUME NEW i \in 0 .. n
               PROVE  q[i] = IF i = 0 THEN 0 ELSE End(body, own[i - 1] + 1, body[own[i - 1] + 1])
    OBVIOUS
  <2>1. CASE i = 0
    BY <2>1, <1>0
  <2>2. CASE i # 0
    <3>1. i - 1 \in 0 .. n /\ i - 1 \in 0 .. N - 1 /\ i - 1 + 1 = i
      BY <2>2
    <3>2. own[i - 1] = q[i - 1]
      BY <3>1
    <3>3. q[i - 1 + 1] = End(body, q[i - 1] + 1, body[q[i - 1] + 1])
      BY <3>1, <1>0
    <3> QED
      BY <3>1, <3>2, <3>3, <2>2
  <2> QED
    BY <2>1, <2>2
<1>2. Is(after)
  <2> HIDE DEF own, Is
  <2> QED
    BY <1>1
<1> HIDE DEF after
<1> DEFINE U == {i \in 0 .. n : after[i] = q[i]}
<1>3. \A i \in 0 .. n : after[i] = IF i = 0 THEN 0 ELSE End(body, after[i - 1] + 1, body[after[i - 1] + 1])
  <2> HIDE DEF own, U
  <2> QED
    BY <1>2
<1> HIDE DEF Is, own
<1>4. 0 \in U
  <2>1. 0 \in 0 .. n
    OBVIOUS
  <2> QED
    BY <2>1, <1>3, <1>0
<1>5. ASSUME NEW i \in 0 .. n - 1, i \in U PROVE i + 1 \in U
  <2>1. i + 1 \in 0 .. n /\ i \in 0 .. N - 1 /\ i + 1 # 0 /\ i + 1 - 1 = i /\ after[i] = q[i]
    BY <1>5
  <2>2. q[i + 1] = End(body, q[i] + 1, body[q[i] + 1])
    BY <2>1, <1>0
  <2>3. after[i + 1] = End(body, after[i] + 1, body[after[i] + 1])
    <3> HIDE DEF U
    <3>1. after[i + 1] = End(body, after[i + 1 - 1] + 1, body[after[i + 1 - 1] + 1])
      BY <2>1, <1>3
    <3> QED
      BY <3>1, <2>1
  <2>4. after[i + 1] = q[i + 1]
    BY <2>1, <2>2, <2>3
  <2> QED
    BY <2>1, <2>4
<1>6. \A i \in 0 .. n : i \in U
  <2>1. n \in Nat
    OBVIOUS
  <2> HIDE DEF U
  <2> QED
    BY <2>1, <1>4, <1>5, UpTo
<1>7. after[n] = q[n]
  BY <1>6
<1> QED
  BY <1>7 DEF MacroEnd, after, Is

\* What Body flattens for the macros, when the lengths fit.
MacroParts(macros) == [i \in 1 .. NMACROS |-> <<Len(macros[i - 1])>> \o Counted(macros[i - 1])]

LEMMA CountedType ==
  ASSUME NEW T, Nat \subseteq T, NEW parts \in Seq(Seq(T))
  PROVE  Counted(parts) \in Seq(T)
<1>1. Prefixed(parts) \in Seq(Seq(T))
  BY PrefixedIs DEF ArePrefixed
<1>2. Counted(parts) = FlattenSeq(Prefixed(parts))
  BY DEF Counted
<1> QED
  BY <1>1, <1>2, FlatOffsets

\* Every macro is one whose entries are sequences of T.
LEMMA MacroPartsAre ==
  ASSUME NEW T, Nat \subseteq T, NEW macros \in [Macros -> Seq(Seq(T))]
  PROVE  /\ MacroParts(macros) \in Seq(Seq(T)) /\ Len(MacroParts(macros)) = NMACROS
         /\ \A i \in 0 .. NMACROS - 1 :
              LET s == MacroParts(macros)[i + 1]
                  m == macros[i]
              IN  /\ m \in Seq(Seq(T)) /\ Counted(m) \in Seq(T)
                  /\ s = <<Len(m)>> \o Counted(m)
                  /\ Len(m) \in T /\ Len(m) \in Nat
<1>1. NMACROS \in Nat
  BY ConfigAssumption
<1>2. ASSUME NEW i \in 0 .. NMACROS - 1
      PROVE  /\ macros[i] \in Seq(Seq(T)) /\ Counted(macros[i]) \in Seq(T)
             /\ Len(macros[i]) \in T /\ Len(macros[i]) \in Nat
             /\ <<Len(macros[i])>> \o Counted(macros[i]) \in Seq(T)
  <2>1. macros[i] \in Seq(Seq(T))
    BY DEF Macros
  <2>2. Counted(macros[i]) \in Seq(T) /\ Len(macros[i]) \in Nat
    BY <2>1, CountedType, LenProperties
  <2>3. Len(macros[i]) \in T
    BY <2>2
  <2>4. <<Len(macros[i])>> \o Counted(macros[i]) \in Seq(T)
    BY <2>2, <2>3, LengthFirst
  <2> QED
    BY <2>1, <2>2, <2>3, <2>4
<1> DEFINE seqs == MacroParts(macros)
<1>3. \A i \in 1 .. NMACROS : i - 1 \in 0 .. NMACROS - 1
      /\ <<Len(macros[i - 1])>> \o Counted(macros[i - 1]) \in Seq(T)
  <2> TAKE i \in 1 .. NMACROS
  <2>1. i - 1 \in 0 .. NMACROS - 1
    BY <1>1
  <2> DEFINE j == i - 1
  <2> HIDE DEF j
  <2>2. <<Len(macros[j])>> \o Counted(macros[j]) \in Seq(T)
    BY <2>1, <1>2 DEF j
  <2> QED
    BY <2>1, <2>2 DEF j
<1>4. seqs \in [1 .. NMACROS -> Seq(T)]
  BY <1>3 DEF MacroParts
<1>5. seqs \in Seq(Seq(T)) /\ Len(seqs) = NMACROS
  <2> HIDE DEF seqs
  <2> QED
    BY <1>1, <1>4
<1>6. ASSUME NEW i \in 0 .. NMACROS - 1 PROVE seqs[i + 1] = <<Len(macros[i])>> \o Counted(macros[i])
  <2>1. i + 1 \in 1 .. NMACROS /\ i + 1 - 1 = i
    BY <1>1
  <2>2. seqs[i + 1] = <<Len(macros[i + 1 - 1])>> \o Counted(macros[i + 1 - 1])
    BY <2>1 DEF MacroParts
  <2> QED
    BY <2>1, <2>2
<1> HIDE DEF seqs
<1> QED
  BY <1>2, <1>5, <1>6 DEF seqs

\* The macros a body begins with are read as they were written.
LEMMA MacrosRead ==
  ASSUME NEW T, Nat \subseteq T, NEW body \in Seq(T), NEW macros \in [Macros -> Seq(Seq(T))],
         Holds(body, 0, FlattenSeq(MacroParts(macros)))
  PROVE  /\ MacroEnd(body, NMACROS) = Len(FlattenSeq(MacroParts(macros)))
         /\ \A i \in Macros : MacroAt(body, i) = macros[i]
<1> DEFINE seqs == MacroParts(macros)
           F == FlattenSeq(seqs)
           N == NMACROS
<1>1. N \in Nat
  BY ConfigAssumption
<1> HIDE DEF N
<1>2. /\ seqs \in Seq(Seq(T)) /\ Len(seqs) = N
      /\ \A i \in 0 .. N - 1 :
           /\ macros[i] \in Seq(Seq(T)) /\ Counted(macros[i]) \in Seq(T)
           /\ seqs[i + 1] = <<Len(macros[i])>> \o Counted(macros[i])
           /\ Len(macros[i]) \in T /\ Len(macros[i]) \in Nat
  <2> HIDE DEF seqs
  <2> QED
    BY MacroPartsAre DEF seqs, N
<1> HIDE DEF seqs
<1>3. F \in Seq(T) /\ Len(F) \in Nat
  <2>1. F \in Seq(T)
    BY <1>2, FlatOffsets
  <2> QED
    BY <2>1, LenProperties
<1>4. PICK o : Offsets(o, F, seqs)
  BY <1>2, FlatOffsets
<1>5. Len(F) <= Len(body) /\ \A k \in 1 .. Len(F) : body[k] = F[k]
  <2>1. Holds(body, 0, F)
    BY DEF seqs
  <2> HIDE DEF F
  <2>2. 0 + Len(F) <= Len(body) /\ \A k \in 1 .. Len(F) : body[0 + k] = F[k]
    BY <2>1 DEF Holds
  <2>3. 0 + Len(F) = Len(F)
    BY <1>3
  <2>4. \A k \in 1 .. Len(F) : body[k] = F[k]
    <3> TAKE k \in 1 .. Len(F)
    <3>1. 0 + k = k
      OBVIOUS
    <3> QED
      BY <2>2, <3>1
  <2> QED
    BY <2>2, <2>3, <2>4
<1> HIDE DEF F
<1>6. /\ \A n \in 0 .. N : o[n] \in Nat
      /\ o[0] = 0 /\ o[N] = Len(F)
  <2>1. o \in [0 .. N -> Nat] /\ o[0] = 0 /\ o[N] = Len(F)
    BY <1>4, <1>2 DEF Offsets
  <2> QED
    BY <2>1
<1>7. ASSUME NEW i \in 0 .. N - 1
      PROVE  /\ i \in 0 .. N /\ i + 1 \in 0 .. N
             /\ body[o[i] + 1] = Len(macros[i])
             /\ Holds(body, o[i] + 1, Counted(macros[i]))
             /\ o[i + 1] = o[i] + 1 + Len(Counted(macros[i]))
  <2> DEFINE L == Len(macros[i])
             B == Counted(macros[i])
             s == seqs[i + 1]
             x == o[i]
             y == o[i + 1]
  <2>1. i \in 0 .. N /\ i + 1 \in 0 .. N
    BY <1>1
  <2>2. x \in Nat /\ y \in Nat
    BY <2>1, <1>6
  <2>3. L \in T /\ L \in Nat /\ B \in Seq(T) /\ s = <<L>> \o B
    BY <1>2
  <2>4. y = x + Len(s) /\ y <= Len(F) /\ \A k \in 1 .. Len(s) : F[x + k] = s[k]
    BY <1>4, <1>2 DEF Offsets
  <2> HIDE DEF L, B, s, x, y
  <2>5. Len(B) \in Nat /\ Len(s) = 1 + Len(B) /\ s[1] = L /\ \A k \in 1 .. Len(B) : s[1 + k] = B[k]
    BY <2>3, LengthFirst
  <2>6. y = x + 1 + Len(B)
    BY <2>2, <2>4, <2>5
  <2>7. \A k \in 1 .. Len(s) : body[x + k] = s[k]
    <3> TAKE k \in 1 .. Len(s)
    <3>1. x + k \in 1 .. Len(F)
      BY <2>2, <2>4, <2>5, <1>3
    <3> QED
      BY <3>1, <2>4, <1>5
  <2>8. body[x + 1] = L
    <3>1. 1 \in 1 .. Len(s)
      BY <2>5
    <3> QED
      BY <3>1, <2>7, <2>5
  <2>9. Holds(body, x + 1, B)
    <3>1. x + 1 + Len(B) <= Len(body)
      <4>1. Len(body) \in Nat
        BY LenProperties
      <4> QED
        BY <4>1, <2>2, <2>4, <2>5, <2>6, <1>3, <1>5
    <3>2. \A k \in 1 .. Len(B) : body[x + 1 + k] = B[k]
      <4> TAKE k \in 1 .. Len(B)
      <4>1. 1 + k \in 1 .. Len(s) /\ x + (1 + k) = x + 1 + k
        BY <2>2, <2>5
      <4> QED
        BY <4>1, <2>7, <2>5
    <3> QED
      BY <3>1, <3>2 DEF Holds
  <2> QED
    BY <2>1, <2>6, <2>8, <2>9 DEF L, B, x, y
<1>8. ASSUME NEW i \in 0 .. N - 1
      PROVE  /\ End(body, o[i] + 1, Len(macros[i])) = o[i + 1]
             /\ \A j \in 0 .. Len(macros[i]) - 1 : Block(body, o[i] + 1, j) = macros[i][j + 1]
  <2> DEFINE m == macros[i]
             x == o[i]
             p == x + 1
             B == Counted(m)
  <2>1. x \in Nat /\ o[i + 1] = p + Len(B) /\ Holds(body, p, B) /\ m \in Seq(Seq(T))
    BY <1>6, <1>7, <1>2
  <2>2. p \in Nat
    BY <2>1
  <2> HIDE DEF m, x, p
  <2>3. /\ End(body, p, Len(m)) = p + Len(B)
        /\ \A j \in 0 .. Len(m) - 1 : Block(body, p, j) = m[j + 1]
    BY <2>1, <2>2, BlocksRead
  <2> QED
    BY <2>1, <2>3 DEF m, x, p
<1>9. \A n \in 0 .. N : MacroEnd(body, n) = o[n]
  <2>1. \A i \in 0 .. N - 1 : o[i + 1] = End(body, o[i] + 1, body[o[i] + 1])
    BY <1>7, <1>8
  <2>2. MacroEnds(o, body, N)
    BY <2>1, <1>2, <1>4, <1>6 DEF MacroEnds, Offsets
  <2> QED
    BY <2>2, <1>1, MacroEndIs
<1>10. MacroEnd(body, N) = Len(F)
  <2>1. N \in 0 .. N
    BY <1>1
  <2> QED
    BY <2>1, <1>6, <1>9
<1>11. ASSUME NEW i \in 0 .. N - 1 PROVE MacroAt(body, i) = macros[i]
  <2> DEFINE m == macros[i]
             x == o[i]
  <2>1. MacroEnd(body, i) = x /\ x \in Nat /\ body[x + 1] = Len(m)
    BY <1>6, <1>7, <1>9
  <2>2. m \in Seq(Seq(T)) /\ \A j \in 0 .. Len(m) - 1 : Block(body, x + 1, j) = m[j + 1]
    BY <1>2, <1>8
  <2> HIDE DEF m, x
  <2>3. MacroAt(body, i) = [j \in 1 .. Len(m) |-> Block(body, x + 1, j - 1)]
    BY <2>1 DEF MacroAt
  <2>4. \A j \in 1 .. Len(m) : Block(body, x + 1, j - 1) = m[j]
    <3> TAKE j \in 1 .. Len(m)
    <3>1. Len(m) \in Nat
      BY <2>2, LenProperties
    <3>2. j - 1 \in 0 .. Len(m) - 1 /\ j - 1 + 1 = j
      BY <3>1
    <3> QED
      BY <3>2, <2>2
  <2>5. m = [j \in 1 .. Len(m) |-> m[j]]
    BY <2>2, LenProperties
  <2>6. MacroAt(body, i) = m
    BY <2>3, <2>4, <2>5
  <2> QED
    BY <2>6 DEF m
<1> QED
  BY <1>10, <1>11 DEF F, seqs, N, Macros

-----------------------------------------------------------------------------
(* What is saved is what is read.                                          *)

Tokens == Nat \cup AllElements

\* Two parts of a body, one behind the other.
LEMMA HoldsBoth ==
  ASSUME NEW T, NEW M \in Seq(T), NEW E \in Seq(T)
  PROVE  Holds(M \o E, 0, M) /\ Holds(M \o E, Len(M), E)
<1> DEFINE B == M \o E
<1>1. /\ Len(M) \in Nat /\ Len(E) \in Nat /\ Len(B) = Len(M) + Len(E)
      /\ \A i \in 1 .. Len(M) + Len(E) : B[i] = IF i <= Len(M) THEN M[i] ELSE E[i - Len(M)]
  BY ConcatProperties, LenProperties
<1> HIDE DEF B
<1>2. Holds(B, 0, M)
  <2>1. 0 + Len(M) <= Len(B)
    BY <1>1
  <2>2. \A k \in 1 .. Len(M) : B[0 + k] = M[k]
    <3> TAKE k \in 1 .. Len(M)
    <3>1. k \in 1 .. Len(M) + Len(E) /\ k <= Len(M) /\ 0 + k = k
      BY <1>1
    <3> QED
      BY <3>1, <1>1
  <2> QED
    BY <2>1, <2>2 DEF Holds
<1>3. Holds(B, Len(M), E)
  <2>1. Len(M) + Len(E) <= Len(B)
    BY <1>1
  <2>2. \A k \in 1 .. Len(E) : B[Len(M) + k] = E[k]
    <3> TAKE k \in 1 .. Len(E)
    <3> DEFINE n == Len(M) + k
    <3>1. n \in 1 .. Len(M) + Len(E) /\ ~(n <= Len(M)) /\ n - Len(M) = k
      BY <1>1
    <3> HIDE DEF n
    <3>2. B[n] = E[k]
      BY <3>1, <1>1
    <3> QED
      BY <3>2 DEF n
  <2> QED
    BY <2>1, <2>2 DEF Holds
<1> QED
  BY <1>2, <1>3 DEF B

LEMMA ModBelow == ASSUME NEW n \in Nat, n < LENGTHS PROVE n % LENGTHS = n
  BY ConfigAssumption, Z3

LEMMA ModRange == ASSUME NEW n \in Nat PROVE n % LENGTHS \in Nat
  BY ConfigAssumption

\* A body that is written is one of tokens, whatever becomes of the lengths.
LEMMA MacroBodyType ==
  ASSUME NEW T, Nat \subseteq T, NEW parts \in Seq(Seq(T))
  PROVE  MacroBody(parts) \in Seq(T)
<1> DEFINE seqs == [j \in DOMAIN parts |-> <<Len(parts[j]) % LENGTHS>> \o parts[j]]
           N == Len(parts)
<1>1. DOMAIN parts = 1 .. N /\ N \in Nat
  BY LenProperties
<1>2. ASSUME NEW j \in 1 .. N PROVE <<Len(parts[j]) % LENGTHS>> \o parts[j] \in Seq(T)
  <2>1. parts[j] \in Seq(T) /\ Len(parts[j]) \in Nat
    BY ElementOfSeq, LenProperties
  <2>2. Len(parts[j]) % LENGTHS \in T
    BY <2>1, ModRange
  <2> QED
    BY <2>1, <2>2, LengthFirst
<1>3. seqs \in [1 .. N -> Seq(T)]
  BY <1>1, <1>2
<1> HIDE DEF N
<1>4. seqs \in Seq(Seq(T))
  <2> HIDE DEF seqs
  <2> QED
    BY <1>1, <1>3
<1> QED
  BY <1>4, FlatOffsets DEF MacroBody

LEMMA BodyType == ASSUME NEW c \in Configs PROVE Body(c) \in Seq(Tokens)
<1> DEFINE written == [i \in 1 .. NMACROS |->
                         <<Len(c.macros[i - 1]) % LENGTHS>> \o MacroBody(c.macros[i - 1])]
           exprs == [i \in 1 .. NEXPRESSIONS |-> <<Len(c.expressions[i - 1])>> \o c.expressions[i - 1]]
<1>1. NEXPRESSIONS \in Nat /\ NMACROS \in Nat /\ Keys \subseteq Tokens /\ AllElements \subseteq Tokens
      /\ Nat \subseteq Tokens
  BY ConfigAssumption DEF Tokens
<1>2. c.macros \in [Macros -> Seq(Seq(Keys))] /\ c.expressions \in [Expressions -> Seq(AllElements)]
  BY DEF Configs
<1>3. Seq(Seq(Keys)) \subseteq Seq(Seq(Tokens)) /\ Seq(AllElements) \subseteq Seq(Tokens)
  <2>1. Seq(Keys) \subseteq Seq(Tokens) /\ Seq(AllElements) \subseteq Seq(Tokens)
    BY <1>1, SeqMonotonic
  <2> QED
    BY <2>1, SeqMonotonic
<1>4. ASSUME NEW m \in Seq(Seq(Tokens)) PROVE <<Len(m) % LENGTHS>> \o MacroBody(m) \in Seq(Tokens)
  <2>1. MacroBody(m) \in Seq(Tokens) /\ Len(m) \in Nat
    BY <1>1, MacroBodyType, LenProperties
  <2>2. Len(m) % LENGTHS \in Tokens
    BY <2>1, <1>1, ModRange
  <2> QED
    BY <2>1, <2>2, LengthFirst
<1>5. ASSUME NEW e \in Seq(Tokens) PROVE <<Len(e)>> \o e \in Seq(Tokens)
  <2>1. Len(e) \in Tokens
    BY <1>1, LenProperties
  <2> QED
    BY <2>1, LengthFirst
<1>6. written \in Seq(Seq(Tokens))
  <2>1. \A i \in 1 .. NMACROS : c.macros[i - 1] \in Seq(Seq(Tokens))
    <3> TAKE i \in 1 .. NMACROS
    <3>1. i - 1 \in Macros
      BY <1>1 DEF Macros
    <3> QED
      BY <3>1, <1>2, <1>3
  <2>2. written \in [1 .. NMACROS -> Seq(Tokens)]
    BY <2>1, <1>4
  <2> HIDE DEF written
  <2> QED
    BY <2>2, <1>1
<1>7. exprs \in Seq(Seq(Tokens))
  <2>1. \A i \in 1 .. NEXPRESSIONS : c.expressions[i - 1] \in Seq(Tokens)
    <3> TAKE i \in 1 .. NEXPRESSIONS
    <3>1. i - 1 \in Expressions
      BY <1>1 DEF Expressions
    <3> QED
      BY <3>1, <1>2, <1>3
  <2>2. exprs \in [1 .. NEXPRESSIONS -> Seq(Tokens)]
    BY <2>1, <1>5
  <2> HIDE DEF exprs
  <2> QED
    BY <2>2, <1>1
<1>8. Body(c) = FlattenSeq(written) \o FlattenSeq(exprs)
  BY DEF Body
<1> HIDE DEF written, exprs
<1>9. FlattenSeq(written) \in Seq(Tokens) /\ FlattenSeq(exprs) \in Seq(Tokens)
  BY <1>6, <1>7, FlatOffsets
<1> QED
  BY <1>8, <1>9, ConcatProperties

\* Lengths that fit are written as they are.
LEMMA FittingMacros ==
  ASSUME NEW c \in Configs, LengthsFit(c)
  PROVE  [i \in 1 .. NMACROS |-> <<Len(c.macros[i - 1]) % LENGTHS>> \o MacroBody(c.macros[i - 1])]
           = MacroParts(c.macros)
<1>1. ASSUME NEW i \in Macros
      PROVE  /\ Len(c.macros[i]) % LENGTHS = Len(c.macros[i])
             /\ MacroBody(c.macros[i]) = Counted(c.macros[i])
  <2> DEFINE m == c.macros[i]
             N == Len(m)
  <2>1. m \in Seq(Seq(Keys)) /\ N < LENGTHS /\ \A j \in DOMAIN m : Len(m[j]) < LENGTHS
    BY DEF Configs, LengthsFit
  <2> HIDE DEF m
  <2>2. DOMAIN m = 1 .. N /\ N \in Nat
    BY <2>1, LenProperties
  <2>3. N % LENGTHS = N
    <3> HIDE DEF N
    <3> QED
      BY <2>1, <2>2, ModBelow
  <2>4. ASSUME NEW j \in DOMAIN m PROVE Len(m[j]) % LENGTHS = Len(m[j])
    <3>1. m[j] \in Seq(Keys)
      BY <2>1, <2>2, ElementOfSeq
    <3>2. Len(m[j]) \in Nat
      BY <3>1, LenProperties
    <3> QED
      BY <3>2, <2>1, ModBelow
  <2>5. MacroBody(m) = Counted(m)
    <3>1. [j \in DOMAIN m |-> <<Len(m[j]) % LENGTHS>> \o m[j]] = Prefixed(m)
      BY <2>4 DEF Prefixed
    <3> QED
      BY <3>1 DEF MacroBody, Counted
  <2> QED
    BY <2>3, <2>5 DEF m
<1>2. \A i \in 1 .. NMACROS : i - 1 \in Macros
  BY ConfigAssumption DEF Macros
<1> QED
  BY <1>1, <1>2 DEF MacroParts

LEMMA BodyIsRead ==
  ASSUME NEW c \in Configs, LengthsFit(c)
  PROVE  /\ \A i \in Macros : MacroAt(Body(c), i) = c.macros[i]
         /\ \A i \in Expressions : Block(Body(c), MacroEnd(Body(c), NMACROS), i) = c.expressions[i]
<1> DEFINE N == NEXPRESSIONS
           exprs == [i \in 1 .. N |-> c.expressions[i - 1]]
           M == FlattenSeq(MacroParts(c.macros))
           E == Counted(exprs)
           B == M \o E
<1>1. N \in Nat /\ NMACROS \in Nat /\ Keys \subseteq Tokens /\ AllElements \subseteq Tokens
      /\ Nat \subseteq Tokens
  BY ConfigAssumption DEF Tokens
<1>2. c.macros \in [Macros -> Seq(Seq(Keys))] /\ c.expressions \in [Expressions -> Seq(AllElements)]
  BY DEF Configs
<1>3. c.macros \in [Macros -> Seq(Seq(Tokens))]
  <2>1. Seq(Keys) \subseteq Seq(Tokens)
    BY <1>1, SeqMonotonic
  <2>2. Seq(Seq(Keys)) \subseteq Seq(Seq(Tokens))
    BY <2>1, SeqMonotonic
  <2> QED
    BY <1>2, <2>2
<1>4. \A i \in 1 .. N : i - 1 \in Expressions /\ c.expressions[i - 1] \in Seq(Tokens)
  <2> TAKE i \in 1 .. N
  <2>1. i - 1 \in Expressions
    BY <1>1 DEF Expressions
  <2>2. c.expressions[i - 1] \in Seq(AllElements)
    BY <2>1, <1>2
  <2> QED
    BY <2>1, <2>2, <1>1, SeqMonotonic
<1>5. exprs \in Seq(Seq(Tokens)) /\ Len(exprs) = N /\ DOMAIN exprs = 1 .. N
  <2>1. exprs \in [1 .. N -> Seq(Tokens)] /\ DOMAIN exprs = 1 .. N
    BY <1>4
  <2> HIDE DEF exprs
  <2> QED
    BY <2>1, <1>1
<1>6. Body(c) = B
  <2>1. Prefixed(exprs) = [i \in 1 .. N |-> <<Len(c.expressions[i - 1])>> \o c.expressions[i - 1]]
    BY <1>5 DEF Prefixed
  <2>2. Counted(exprs) = FlattenSeq([i \in 1 .. N |-> <<Len(c.expressions[i - 1])>> \o c.expressions[i - 1]])
    BY <2>1 DEF Counted
  <2>3. FlattenSeq([i \in 1 .. NMACROS |->
                      <<Len(c.macros[i - 1]) % LENGTHS>> \o MacroBody(c.macros[i - 1])])
          = FlattenSeq(MacroParts(c.macros))
    BY FittingMacros, Zenon
  <2> QED
    BY <2>2, <2>3 DEF Body
<1> HIDE DEF exprs, M, E
<1>7. M \in Seq(Tokens) /\ E \in Seq(Tokens)
  <2>1. MacroParts(c.macros) \in Seq(Seq(Tokens))
    BY <1>1, <1>3, MacroPartsAre
  <2>2. M \in Seq(Tokens)
    BY <2>1, FlatOffsets DEF M
  <2> QED
    BY <2>2, <1>1, <1>5, CountedType DEF E
<1>8. B \in Seq(Tokens) /\ Holds(B, 0, M) /\ Holds(B, Len(M), E) /\ Len(M) \in Nat
  BY <1>7, ConcatProperties, HoldsBoth, LenProperties
<1> HIDE DEF B
<1>9. MacroEnd(B, NMACROS) = Len(M) /\ \A i \in Macros : MacroAt(B, i) = c.macros[i]
  BY <1>1, <1>3, <1>8, MacrosRead DEF M
<1>10. \A i \in 0 .. N - 1 : Block(B, Len(M), i) = exprs[i + 1]
  <2> DEFINE p == Len(M)
  <2>1. p \in Nat /\ Holds(B, p, Counted(exprs))
    BY <1>8 DEF E
  <2> HIDE DEF p
  <2>2. \A i \in 0 .. Len(exprs) - 1 : Block(B, p, i) = exprs[i + 1]
    BY <2>1, <1>1, <1>5, <1>8, BlocksRead, ZenonT(40)
  <2> QED
    BY <2>2, <1>5 DEF p
<1>11. \A i \in Expressions : Block(B, MacroEnd(B, NMACROS), i) = c.expressions[i]
  <2> TAKE i \in Expressions
  <2>1. i \in 0 .. N - 1 /\ i + 1 \in 1 .. N /\ i + 1 - 1 = i
    BY <1>1 DEF Expressions
  <2>2. exprs[i + 1] = c.expressions[i]
    BY <2>1 DEF exprs
  <2> QED
    BY <2>1, <2>2, <1>9, <1>10
<1> QED
  BY <1>6, <1>8, <1>9, <1>11

LEMMA ImageIsNotBlank == ASSUME NEW c \in Configs PROVE Image(c) # Blank
<1>1. Image(c) \in [version : {CONFIG_VERSION}, settings : AllSettings, mappings : Seq(AllMappings),
                    body : Seq(Nat \cup AllElements), quirks : Seq(AllQuirks), lengths_fit : BOOLEAN]
  <2>1. Body(c) \in Seq(Nat \cup AllElements) /\ LengthsFit(c) \in BOOLEAN
    BY BodyType DEF Tokens, LengthsFit
  <2>2. c.settings \in AllSettings /\ c.mappings \in Seq(AllMappings) /\ c.quirks \in Seq(AllQuirks)
    BY DEF Configs
  <2> QED
    BY <2>1, <2>2 DEF Image
<1> QED
  BY <1>1, SectorAssumption

LEMMA DefaultsType ==
  /\ Defaults.settings \in AllSettings
  /\ Defaults = [settings |-> DefaultSettings, mappings |-> << >>,
                 macros |-> [i \in Macros |-> << >>], expressions |-> [i \in Expressions |-> << >>],
                 quirks |-> << >>]
  /\ Defaults \in Configs
<1>1. DefaultSettings \in [Fields -> Nat]
  <2> SUFFICES ASSUME NEW f \in Fields
               PROVE  (CASE f = "unmapped" -> 255 [] f = "normalize_gamepad_inputs" -> 1 [] OTHER -> 0) \in Nat
    BY DEF DefaultSettings
  <2>1. CASE f = "unmapped"
    BY <2>1
  <2>2. CASE f # "unmapped" /\ f = "normalize_gamepad_inputs"
    BY <2>2
  <2>3. CASE f # "unmapped" /\ f # "normalize_gamepad_inputs"
    BY <2>3
  <2> QED
    BY <2>1, <2>2, <2>3
<1>2. DefaultSettings.our_descriptor_number = 0
  BY DEF DefaultSettings, Fields
<1>3. 0 < NOUR_DESCRIPTORS
  BY ConfigAssumption
<1>4. DefaultSettings \in AllSettings
  BY <1>1, <1>2, <1>3 DEF AllSettings
<1>5. << >> \in Seq(AllMappings) /\ << >> \in Seq(AllQuirks)
  BY EmptySeq
<1>6. [i \in Macros |-> << >>] \in [Macros -> Seq(Seq(Keys))]
  BY EmptySeq
<1>7. [i \in Expressions |-> << >>] \in [Expressions -> Seq(AllElements)]
  BY EmptySeq
<1> QED
  BY <1>4, <1>5, <1>6, <1>7 DEF Defaults, Configs

\* The settings and the mappings are read as they were saved, whatever the macros are.
LEMMA SettingsAreRead ==
  ASSUME NEW c \in Configs
  PROVE  LoadMappings11(LoadSettings(Defaults, Image(c), Fields), Image(c)) =
           [settings |-> c.settings, mappings |-> c.mappings, macros |-> [i \in Macros |-> << >>],
            expressions |-> [i \in Expressions |-> << >>], quirks |-> << >>]
<1> DEFINE im == Image(c)
           d == DefaultSettings
           m0 == [i \in Macros |-> << >>]
           e0 == [i \in Expressions |-> << >>]
<1>1. /\ im.settings = c.settings /\ im.mappings = c.mappings /\ im.body = Body(c) /\ im.quirks = c.quirks
  BY DEF Image
<1>2. /\ c = [settings |-> c.settings, mappings |-> c.mappings, macros |-> c.macros,
              expressions |-> c.expressions, quirks |-> c.quirks]
      /\ c.settings \in AllSettings /\ c.mappings \in Seq(AllMappings) /\ c.quirks \in Seq(AllQuirks)
      /\ c.macros \in [Macros -> Seq(Seq(Keys))] /\ c.expressions \in [Expressions -> Seq(AllElements)]
  BY DEF Configs
<1>3. Defaults = [settings |-> d, mappings |-> << >>, macros |-> m0, expressions |-> e0, quirks |-> << >>]
  BY DefaultsType
<1> HIDE DEF im, d, m0, e0
<1>4. LoadSettings(Defaults, im, Fields) =
        [settings |-> c.settings, mappings |-> << >>, macros |-> m0, expressions |-> e0, quirks |-> << >>]
  <2>1. /\ c.settings \in [Fields -> Nat] /\ c.settings.our_descriptor_number < NOUR_DESCRIPTORS
        /\ c.settings.our_descriptor_number \in Nat /\ NOUR_DESCRIPTORS \in Nat
    BY <1>2, ConfigAssumption DEF AllSettings, Fields
  <2> DEFINE x == c.settings.our_descriptor_number
  <2>2. Clamped(c.settings["our_descriptor_number"]) = c.settings["our_descriptor_number"]
    <3>1. ~(x >= NOUR_DESCRIPTORS)
      BY <2>1
    <3> QED
      BY <3>1 DEF Clamped
  <2>3. c.settings = [f \in Fields |-> IF f \notin Fields THEN Defaults.settings[f]
                                       ELSE IF f = "our_descriptor_number" THEN Clamped(c.settings[f])
                                       ELSE c.settings[f]]
    BY <2>1, <2>2
  <2>4. LoadSettings(Defaults, im, Fields) = [Defaults EXCEPT !.settings = c.settings]
    BY <2>3, <1>1, <1>3 DEF LoadSettings
  <2> QED
    BY <2>4, <1>3
<1> DEFINE a == [settings |-> c.settings, mappings |-> << >>, macros |-> m0, expressions |-> e0,
      quirks |-> << >>]
<1>5. LoadMappings11(a, im) = [settings |-> c.settings, mappings |-> c.mappings, macros |-> m0,
                               expressions |-> e0, quirks |-> << >>]
  <2>1. << >> \o c.mappings = c.mappings
    BY <1>2, ConcatEmptySeq
  <2> QED
    BY <2>1, <1>1 DEF LoadMappings11
<1> QED
  BY <1>4, <1>5 DEF im, m0, e0

\* The loader of this version reads what this version has saved, into the defaults.
LEMMA LoadedIsSaved ==
  ASSUME NEW c \in Configs, LengthsFit(c)
  PROVE  load_config_v18(Defaults, Image(c)) = c
<1> DEFINE im == Image(c)
           m0 == [i \in Macros |-> << >>]
           e0 == [i \in Expressions |-> << >>]
<1>1. im.body = Body(c) /\ im.quirks = c.quirks
  BY DEF Image
<1>2. /\ c = [settings |-> c.settings, mappings |-> c.mappings, macros |-> c.macros,
              expressions |-> c.expressions, quirks |-> c.quirks]
      /\ c.mappings \in Seq(AllMappings) /\ c.quirks \in Seq(AllQuirks)
      /\ c.macros \in [Macros -> Seq(Seq(Keys))] /\ c.expressions \in [Expressions -> Seq(AllElements)]
  BY DEF Configs
<1> HIDE DEF im, m0, e0
<1> DEFINE b == [settings |-> c.settings, mappings |-> c.mappings, macros |-> m0, expressions |-> e0,
                 quirks |-> << >>]
           e == [settings |-> c.settings, mappings |-> c.mappings, macros |-> c.macros, expressions |-> e0,
                 quirks |-> << >>]
           g == [settings |-> c.settings, mappings |-> c.mappings, macros |-> c.macros,
                 expressions |-> c.expressions, quirks |-> << >>]
<1>6. LoadMacros(b, im, NMACROS) = e
  <2>1. \A i \in Macros : i < NMACROS /\ MacroAt(im.body, i) = c.macros[i]
    BY <1>1, BodyIsRead, ConfigAssumption DEF Macros
  <2>2. [i \in Macros |-> IF i < NMACROS THEN MacroAt(im.body, i) ELSE m0[i]] = c.macros
    BY <2>1, <1>2
  <2> QED
    BY <2>2 DEF LoadMacros
<1>7. LoadExpressions(e, im, NMACROS) = g
  <2>1. [i \in Expressions |-> Block(im.body, MacroEnd(im.body, NMACROS), i)] = c.expressions
    BY <1>1, <1>2, BodyIsRead
  <2> QED
    BY <2>1 DEF LoadExpressions
<1>8. LoadQuirks(g, im) = c
  <2>1. << >> \o c.quirks = c.quirks
    BY <1>2, ConcatEmptySeq
  <2> QED
    BY <2>1, <1>1, <1>2 DEF LoadQuirks
<1> HIDE DEF b, e, g
<1>9. LoadMappings11(LoadSettings(Defaults, im, Fields), im) = b
  BY SettingsAreRead DEF b, im, m0, e0
<1> QED
  BY <1>6, <1>7, <1>8, <1>9 DEF load_config_v18, im

\* The configuration that is saved is the one that is restored, if every length fits its byte
\* (a macro has less than 256 entries, and an entry less than 256 usages): then the offsets
\* load_config computes from the lengths in the sector are those persist_config has written.
THEOREM SavedIsRead == \A c \in Configs : LengthsFit(c) => Restored(Image(c)) = c
<1> SUFFICES ASSUME NEW c \in Configs, LengthsFit(c) PROVE Restored(Image(c)) = c
  OBVIOUS
<1>1. Image(c) # Blank /\ Image(c).version = CONFIG_VERSION
  BY ImageIsNotBlank DEF Image
<1>2. CONFIG_VERSION \in 3 .. CONFIG_VERSION /\ CONFIG_VERSION \notin 3 .. 17 /\ ~(CONFIG_VERSION < 18)
  <2>1. CONFIG_VERSION \in Nat /\ CONFIG_VERSION >= 18
    BY ConfigAssumption
  <2> QED
    BY <2>1
<1>3. Restored(Image(c)) = load_config(Image(c))
  BY <1>1, <1>2 DEF Restored
<1>4. [Defaults EXCEPT !.settings.normalize_gamepad_inputs = @] = Defaults
  BY DefaultsType DEF AllSettings, Fields
<1>5. load_config(Image(c)) = load_config_v18(Defaults, Image(c))
  <2> DEFINE v == CONFIG_VERSION
  <2>1. /\ v \notin {3, 4} /\ v # 5 /\ v # 6 /\ v \notin {7, 8} /\ v # 9 /\ v # 10 /\ v # 11 /\ v # 12
        /\ v \notin 13 .. 17 /\ ~(v < 18)
    <3>1. v \in Nat /\ v >= 18
      BY ConfigAssumption
    <3> HIDE DEF v
    <3> QED
      BY <3>1
  <2> HIDE DEF v
  <2> QED
    BY <2>1, <1>1, <1>4 DEF load_config, v
<1> QED
  BY <1>3, <1>5, LoadedIsSaved

\* What is saved is read as a configuration, and as itself if its lengths fit.
LEMMA ImageIsLoaded ==
  ASSUME NEW c \in Configs
  PROVE  /\ Loaded(Image(c)) \subseteq Configs
         /\ LengthsFit(c) => Loaded(Image(c)) = {c}
<1> DEFINE im == Image(c)
<1>1. im # Blank /\ im.lengths_fit = LengthsFit(c)
  BY ImageIsNotBlank DEF Image
<1>2. CASE LengthsFit(c)
  <2>1. Loaded(im) = {Restored(im)}
    BY <1>1, <1>2 DEF Loaded
  <2> QED
    BY <2>1, <1>2, SavedIsRead
<1>3. CASE ~LengthsFit(c)
  <2>1. Loaded(im) = Misread(im)
    BY <1>1, <1>3 DEF Loaded
  <2> DEFINE m0 == [i \in Macros |-> << >>]
             e0 == [i \in Expressions |-> << >>]
             read == LoadMappings11(LoadSettings(Defaults, im, Fields), im)
  <2>2. Misread(im) = {[settings |-> read.settings, mappings |-> read.mappings, macros |-> r.macros,
                        expressions |-> r.expressions, quirks |-> r.quirks] : r \in Readings}
    BY Zenon DEF Misread
  <2>3. read = [settings |-> c.settings, mappings |-> c.mappings, macros |-> m0, expressions |-> e0,
                quirks |-> << >>]
    BY SettingsAreRead
  <2>4. c.settings \in AllSettings /\ c.mappings \in Seq(AllMappings)
    BY DEF Configs
  <2> HIDE DEF read, m0, e0, im
  <2>5. ASSUME NEW r \in Readings
        PROVE  [settings |-> read.settings, mappings |-> read.mappings, macros |-> r.macros,
                expressions |-> r.expressions, quirks |-> r.quirks] \in Configs
    <3>1. /\ r.macros \in [Macros -> Seq(Seq(Keys))]
          /\ r.expressions \in [Expressions -> Seq(AllElements)]
          /\ r.quirks \in Seq(AllQuirks)
      BY SectorAssumption
    <3>2. read.settings = c.settings /\ read.mappings = c.mappings
      BY <2>3
    <3> QED
      BY <3>1, <3>2, <2>4 DEF Configs
  <2>6. Misread(im) \subseteq Configs
    BY <2>2, <2>5, Zenon
  <2> QED
    BY <2>1, <2>6, <1>3 DEF im
<1> QED
  BY <1>2, <1>3

-----------------------------------------------------------------------------
(* Types: every change leaves a configuration.                             *)

LEMMA AppendedType ==
  ASSUME NEW entries \in Seq(Seq(Keys)), NEW usages \in Seq(Keys \cup {0})
  PROVE  Appended(entries, usages) \in Seq(Seq(Keys))
<1> DEFINE N == Len(usages)
           base == IF entries = << >> THEN << << >> >> ELSE entries
           next(m, u) == IF u = 0 THEN Append(m, << >>) ELSE [m EXCEPT ![Len(m)] = Append(@, u)]
           Acc == Seq(Seq(Keys)) \ {<< >>}
           step == [n \in 1 .. N |-> [m \in Acc |-> next(m, usages[n])]]
<1>1. N \in Nat /\ \A n \in 1 .. N : usages[n] \in Keys \cup {0}
  BY LenProperties, ElementOfSeq
<1>2. base \in Acc
  <2>1. << >> \in Seq(Keys)
    BY EmptySeq
  <2>2. << << >> >> \in Seq(Seq(Keys)) /\ << << >> >> # << >>
    BY <2>1
  <2> QED
    BY <2>2
<1>3. ASSUME NEW m \in Acc, NEW u \in Keys \cup {0} PROVE next(m, u) \in Acc
  <2>1. m \in Seq(Seq(Keys)) /\ Len(m) \in Nat \ {0} /\ << >> \in Seq(Keys)
    BY EmptySeq
  <2>2. CASE u = 0
    <3>1. Append(m, << >>) \in Seq(Seq(Keys)) /\ Append(m, << >>) # << >>
      BY <2>1, AppendProperties
    <3> QED
      BY <3>1, <2>2
  <2>3. CASE u # 0
    <3>1. u \in Keys /\ Len(m) \in 1 .. Len(m)
      BY <2>1, <2>3
    <3>2. m[Len(m)] \in Seq(Keys)
      BY <2>1, <3>1, ElementOfSeq
    <3>3. Append(m[Len(m)], u) \in Seq(Keys)
      BY <3>1, <3>2, AppendProperties
    <3> DEFINE r == [m EXCEPT ![Len(m)] = Append(m[Len(m)], u)]
    <3>4. r \in Seq(Seq(Keys)) /\ Len(r) = Len(m)
      BY <2>1, <3>1, <3>3, ExceptSeq
    <3>5. r # << >>
      <4> HIDE DEF r
      <4> QED
        BY <3>4, <2>1, EmptySeq
    <3> QED
      BY <3>4, <3>5, <2>3
  <2> QED
    BY <2>2, <2>3
<1>4. step \in [1 .. N -> [Acc -> Acc]]
  <2> HIDE DEF next, Acc
  <2> QED
    BY <1>1, <1>3
<1>5. PICK f : Follows(f, Acc, base, N, step)
  <2> HIDE DEF step, N, base, Acc
  <2> QED
    BY <1>1, <1>2, <1>4, FollowsExists
<1>6. f \in [0 .. N -> Acc] /\ f[0] = base
  BY <1>5 DEF Follows
<1> HIDE DEF base, Acc
<1>7. ASSUME NEW n \in 0 .. N - 1 PROVE f[n + 1] = next(f[n], usages[n + 1])
  <2>1. n + 1 \in 1 .. N /\ n \in 0 .. N
    BY <1>1
  <2>2. f[n] \in Acc
    BY <2>1, <1>6
  <2> HIDE DEF next
  <2>3. step[n + 1] = [m \in Acc |-> next(m, usages[n + 1])]
    BY <2>1
  <2>4. step[n + 1][f[n]] = next(f[n], usages[n + 1])
    BY <2>2, <2>3
  <2>5. f[n + 1] = step[n + 1][f[n]]
    BY <1>5 DEF Follows
  <2> QED
    BY <2>4, <2>5
<1> HIDE DEF step, next
<1> DEFINE Is(g) == g = [n \in 0 .. N |-> IF n = 0 THEN base ELSE next(g[n - 1], usages[n])]
           own == [n \in 0 .. N |-> f[n]]
           after == CHOOSE g : Is(g)
<1>8. Is(own)
  <2> SUFFICES ASSUME NEW n \in 0 .. N PROVE f[n] = IF n = 0 THEN base ELSE next(own[n - 1], usages[n])
    OBVIOUS
  <2>1. CASE n = 0
    BY <2>1, <1>6
  <2>2. CASE n # 0
    <3>1. n - 1 \in 0 .. N /\ n - 1 \in 0 .. N - 1 /\ n - 1 + 1 = n
      BY <2>2, <1>1
    <3>2. own[n - 1] = f[n - 1]
      BY <3>1
    <3>3. f[n - 1 + 1] = next(f[n - 1], usages[n - 1 + 1])
      BY <3>1, <1>7
    <3> QED
      BY <3>1, <3>2, <3>3, <2>2
  <2> QED
    BY <2>1, <2>2
<1>9. Is(after)
  <2> HIDE DEF own, Is
  <2> QED
    BY <1>8
<1> HIDE DEF after
<1> DEFINE U == {n \in 0 .. N : after[n] = f[n]}
<1>10. \A n \in 0 .. N : after[n] = IF n = 0 THEN base ELSE next(after[n - 1], usages[n])
  <2> HIDE DEF own, U, N
  <2> QED
    BY <1>9
<1> HIDE DEF Is, own
<1>11. 0 \in U
  <2>1. 0 \in 0 .. N
    BY <1>1
  <2> QED
    BY <2>1, <1>6, <1>10
<1>12. ASSUME NEW n \in 0 .. N - 1, n \in U PROVE n + 1 \in U
  <2>1. n + 1 \in 0 .. N /\ n + 1 # 0 /\ n + 1 - 1 = n /\ after[n] = f[n]
    BY <1>1, <1>12
  <2>2. after[n + 1] = next(after[n + 1 - 1], usages[n + 1])
    BY <2>1, <1>10
  <2>3. after[n + 1] = f[n + 1]
    BY <2>1, <2>2, <1>7
  <2> QED
    BY <2>1, <2>3
<1>13. \A n \in 0 .. N : n \in U
  <2> HIDE DEF U, N
  <2> QED
    BY <1>1, <1>11, <1>12, UpTo
<1>14. after[N] = f[N] /\ f[N] \in Acc
  BY <1>1, <1>6, <1>13
<1>15. Appended(entries, usages) = after[N]
  BY DEF Appended, after, Is, next, base
<1> QED
  BY <1>14, <1>15 DEF Acc

-----------------------------------------------------------------------------
(* Macros as a client reads them.                                          *)

Items == Keys \cup {0}
SeparatedParts(entries) == [j \in DOMAIN entries |-> Append(entries[j], 0)]
JoinedParts(entries) == [j \in DOMAIN entries |-> IF j = 1 THEN entries[j] ELSE << 0 >> \o entries[j]]

LEMMA PartsType ==
  ASSUME NEW entries \in Seq(Seq(Keys))
  PROVE  /\ Len(entries) \in Nat
         /\ SeparatedParts(entries) \in Seq(Seq(Items)) /\ Len(SeparatedParts(entries)) = Len(entries)
         /\ JoinedParts(entries) \in Seq(Seq(Items)) /\ Len(JoinedParts(entries)) = Len(entries)
         /\ \A j \in 1 .. Len(entries) :
              /\ entries[j] \in Seq(Keys) /\ entries[j] \in Seq(Items)
              /\ SeparatedParts(entries)[j] = Append(entries[j], 0)
              /\ JoinedParts(entries)[j] = IF j = 1 THEN entries[j] ELSE << 0 >> \o entries[j]
<1> DEFINE N == Len(entries)
           S == SeparatedParts(entries)
           J == JoinedParts(entries)
<1>1. DOMAIN entries = 1 .. N /\ N \in Nat
  BY LenProperties
<1>2. ASSUME NEW j \in 1 .. N
      PROVE  /\ entries[j] \in Seq(Keys) /\ entries[j] \in Seq(Items)
             /\ Append(entries[j], 0) \in Seq(Items)
             /\ << 0 >> \o entries[j] \in Seq(Items)
  <2> HIDE DEF S, J
  <2>1. entries[j] \in Seq(Keys) /\ Keys \subseteq Items /\ 0 \in Items
    BY ElementOfSeq DEF Items
  <2>2. entries[j] \in Seq(Items)
    BY <2>1, SeqMonotonic
  <2>3. Append(entries[j], 0) \in Seq(Items)
    BY <2>1, <2>2, AppendProperties
  <2>4. << 0 >> \in Seq(Items)
    BY <2>1
  <2>5. << 0 >> \o entries[j] \in Seq(Items)
    BY <2>2, <2>4, ConcatProperties
  <2> QED
    BY <2>1, <2>2, <2>3, <2>5
<1>3. S = [j \in 1 .. N |-> Append(entries[j], 0)] /\ S \in [1 .. N -> Seq(Items)]
  BY <1>1, <1>2 DEF SeparatedParts
<1>4. /\ J = [j \in 1 .. N |-> IF j = 1 THEN entries[j] ELSE << 0 >> \o entries[j]]
      /\ J \in [1 .. N -> Seq(Items)]
  BY <1>1, <1>2 DEF JoinedParts
<1> HIDE DEF S, J, N
<1>5. S \in Seq(Seq(Items)) /\ Len(S) = N /\ J \in Seq(Seq(Items)) /\ Len(J) = N
  BY <1>1, <1>3, <1>4
<1> QED
  BY <1>1, <1>2, <1>3, <1>4, <1>5 DEF S, J, N

LEMMA AppendBoth ==
  ASSUME NEW a \in Seq(Items), NEW e \in Seq(Items)
  PROVE  /\ Append(a, 0) \o Append(e, 0) = Append(a \o (<< 0 >> \o e), 0)
         /\ a \o (<< 0 >> \o e) = (a \o << 0 >>) \o e /\ a \o << 0 >> \in Seq(Items)
<1> DEFINE z == << 0 >>
<1>1. z \in Seq(Items) /\ 0 \in Items
  BY DEF Items
<1>2. Append(a, 0) = a \o z /\ Append(e, 0) = e \o z
  BY <1>1, AppendIsConcat
<1> HIDE DEF z
<1>3. z \o e \in Seq(Items) /\ e \o z \in Seq(Items) /\ a \o z \in Seq(Items)
  BY <1>1, ConcatProperties
<1>4. a \o (z \o e) \in Seq(Items)
  BY <1>3, ConcatProperties
<1>5. Append(a \o (z \o e), 0) = (a \o (z \o e)) \o z
  BY <1>1, <1>4, AppendIsConcat DEF z
<1>6. (a \o z) \o (e \o z) = a \o (z \o (e \o z))
  <2> DEFINE y == e \o z
  <2>1. y \in Seq(Items)
    BY <1>3
  <2> HIDE DEF y
  <2>2. (a \o z) \o y = a \o (z \o y)
    BY <1>1, <2>1, ConcatAssociative, SMTT(30)
  <2> QED
    BY <2>2 DEF y
<1>7. z \o (e \o z) = (z \o e) \o z
  BY <1>1, ConcatAssociative
<1>8. a \o ((z \o e) \o z) = (a \o (z \o e)) \o z
  <2> DEFINE y == z \o e
  <2>1. y \in Seq(Items)
    BY <1>3
  <2> HIDE DEF y
  <2>2. a \o (y \o z) = (a \o y) \o z
    BY <1>1, <2>1, ConcatAssociative, SMTT(30)
  <2> QED
    BY <2>2 DEF y
<1>9. a \o (z \o e) = (a \o z) \o e
  BY <1>1, ConcatAssociative, SMTT(30)
<1> QED
  BY <1>2, <1>3, <1>5, <1>6, <1>7, <1>8, <1>9 DEF z

\* What GET_MACRO counts in is the macro as the packets have it, and one 0 more.
LEMMA SeparatedIs ==
  ASSUME NEW entries \in Seq(Seq(Keys)), entries # << >>
  PROVE  /\ Joined(entries) \in Seq(Items)
         /\ Separated(entries) = Append(Joined(entries), 0)
         /\ entries[Len(entries)] \in Seq(Keys)
         /\ \E b \in Seq(Items) : Joined(entries) = b \o entries[Len(entries)]
<1> DEFINE N == Len(entries)
           S == SeparatedParts(entries)
           J == JoinedParts(entries)
<1>1. /\ N \in Nat \ {0}
      /\ S \in Seq(Seq(Items)) /\ Len(S) = N /\ J \in Seq(Seq(Items)) /\ Len(J) = N
      /\ \A j \in 1 .. N : /\ entries[j] \in Seq(Keys) /\ entries[j] \in Seq(Items)
                           /\ S[j] = Append(entries[j], 0)
                           /\ J[j] = IF j = 1 THEN entries[j] ELSE << 0 >> \o entries[j]
  BY PartsType, EmptySeq
<1>2. Separated(entries) = FlattenSeq(S) /\ Joined(entries) = FlattenSeq(J)
  BY DEF Separated, Joined, SeparatedParts, JoinedParts
<1> HIDE DEF N, S, J
<1>3. PICK f : IsFlat(f, S, Items) /\ FlattenSeq(S) = f[Len(S)]
  BY <1>1, FlattenIs
<1>4. PICK g : IsFlat(g, J, Items) /\ FlattenSeq(J) = g[Len(J)]
  BY <1>1, FlattenIs
<1>5. /\ \A n \in 0 .. N - 1 : f[n + 1] = f[n] \o S[n + 1] /\ g[n + 1] = g[n] \o J[n + 1]
      /\ f[0] = << >> /\ g[0] = << >>
      /\ \A n \in 0 .. N : f[n] \in Seq(Items) /\ g[n] \in Seq(Items)
  BY <1>1, <1>3, <1>4 DEF IsFlat
<1> DEFINE Good(n) == /\ f[n] = Append(g[n], 0)
                      /\ \E b \in Seq(Items) : g[n] = b \o entries[n]
           U == {n \in 0 .. N : n = 0 \/ Good(n)}
<1>6. 0 \in U
  BY <1>1
<1>7. ASSUME NEW n \in 0 .. N - 1, n \in U PROVE n + 1 \in U
  <2>1. n + 1 \in 0 .. N /\ n + 1 \in 1 .. N /\ n \in 0 .. N
    BY <1>1
  <2> DEFINE e == entries[n + 1]
  <2>2. e \in Seq(Items) /\ S[n + 1] = Append(e, 0) /\ (n + 1 = 1 => J[n + 1] = e)
        /\ (n + 1 # 1 => J[n + 1] = << 0 >> \o e)
    BY <1>1, <2>1
  <2>3. f[n + 1] = f[n] \o Append(e, 0) /\ g[n + 1] = g[n] \o J[n + 1] /\ g[n] \in Seq(Items)
    BY <1>5, <2>1, <2>2
  <2> HIDE DEF e
  <2>4. CASE n = 0
    <3>1. f[n] = << >> /\ g[n] = << >> /\ J[n + 1] = e
      BY <1>5, <2>2, <2>4
    <3>2. << >> \in Seq(Items) /\ Append(e, 0) \in Seq(Items)
      BY <2>2, EmptySeq, AppendProperties DEF Items
    <3>3. f[n + 1] = Append(e, 0) /\ g[n + 1] = e /\ g[n + 1] = << >> \o e
      BY <2>2, <2>3, <3>1, <3>2, ConcatEmptySeq
    <3>4. Good(n + 1)
      BY <3>2, <3>3 DEF e
    <3> QED
      BY <2>1, <3>4
  <2>5. CASE n # 0
    <3>1. n + 1 # 1 /\ f[n] = Append(g[n], 0)
      BY <2>5, <1>7
    <3> DEFINE a == g[n]
    <3>2. f[n + 1] = Append(a, 0) \o Append(e, 0) /\ g[n + 1] = a \o (<< 0 >> \o e) /\ a \in Seq(Items)
      BY <3>1, <2>2, <2>3
    <3> HIDE DEF a
    <3>3. f[n + 1] = Append(g[n + 1], 0) /\ g[n + 1] = (a \o << 0 >>) \o e /\ a \o << 0 >> \in Seq(Items)
      BY <3>2, <2>2, AppendBoth, ZenonT(40)
    <3>4. Good(n + 1)
      BY <3>3 DEF e
    <3> QED
      BY <2>1, <3>4
  <2> QED
    BY <2>4, <2>5
<1>8. \A n \in 0 .. N : n \in U
  <2> HIDE DEF U
  <2> QED
    BY <1>1, <1>6, <1>7, UpTo
<1>9. Good(N) /\ g[N] \in Seq(Items) /\ entries[N] \in Seq(Keys)
  <2>1. N \in 0 .. N /\ N \in 1 .. N /\ N # 0
    BY <1>1
  <2>2. g[N] \in Seq(Items) /\ entries[N] \in Seq(Keys)
    BY <2>1, <1>1, <1>5
  <2>3. Good(N)
    <3> HIDE DEF Good
    <3> QED
      BY <2>1, <1>8
  <2> QED
    BY <2>2, <2>3
<1> QED
  BY <1>1, <1>2, <1>3, <1>4, <1>9, ZenonT(40) DEF N

\* Pieces of a sequence.
LEMMA Piece ==
  ASSUME NEW T, NEW s \in Seq(T), NEW m \in Nat, NEW n \in m .. Len(s)
  PROVE  /\ SubSeq(s, m + 1, n) \in Seq(T)
         /\ Len(SubSeq(s, m + 1, n)) = n - m
         /\ \A k \in 1 .. n - m : SubSeq(s, m + 1, n)[k] = s[m + k]
<1>1. Len(s) \in Nat /\ n \in Nat /\ m + 1 \in Int /\ n \in Int
  BY LenProperties
<1>2. \A k \in m + 1 .. n : s[k] \in T
  <2> TAKE k \in m + 1 .. n
  <2>1. k \in 1 .. Len(s)
    BY <1>1
  <2> QED
    BY <2>1, ElementOfSeq
<1> DEFINE p == m + 1
           t == SubSeq(s, p, n)
<1>3. p \in Int /\ p = m + 1
  BY <1>1
<1> HIDE DEF p
<1>4. /\ t \in Seq(T) /\ Len(t) = IF p <= n THEN n - p + 1 ELSE 0
      /\ \A k \in 1 .. n - p + 1 : t[k] = s[p + k - 1]
  BY <1>1, <1>2, <1>3, SubSeqProperties
<1> HIDE DEF t
<1>5. Len(t) = n - m
  BY <1>1, <1>3, <1>4
<1>6. \A k \in 1 .. n - m : t[k] = s[m + k]
  <2> TAKE k \in 1 .. n - m
  <2>1. k \in 1 .. n - p + 1 /\ p + k - 1 = m + k
    BY <1>1, <1>3
  <2> QED
    BY <2>1, <1>4
<1> QED
  BY <1>4, <1>5, <1>6 DEF t, p

LEMMA PieceOfAppend ==
  ASSUME NEW T, NEW s \in Seq(T), NEW x \in T, NEW m \in Nat, NEW n \in m .. Len(s)
  PROVE  SubSeq(Append(s, x), m + 1, n) = SubSeq(s, m + 1, n)
<1> DEFINE a == Append(s, x)
           u == SubSeq(s, m + 1, n)
           v == SubSeq(a, m + 1, n)
<1>1. /\ a \in Seq(T) /\ Len(a) = Len(s) + 1 /\ Len(s) \in Nat
      /\ \A k \in 1 .. Len(s) : a[k] = s[k]
  BY AppendProperties, LenProperties
<1>2. n \in m .. Len(a)
  BY <1>1
<1> HIDE DEF a
<1>3. u \in Seq(T) /\ Len(u) = n - m /\ \A k \in 1 .. n - m : u[k] = s[m + k]
  BY Piece
<1>4. v \in Seq(T) /\ Len(v) = n - m /\ \A k \in 1 .. n - m : v[k] = a[m + k]
  BY <1>1, <1>2, Piece
<1> HIDE DEF u, v
<1>5. \A k \in 1 .. Len(v) : v[k] = u[k]
  <2> TAKE k \in 1 .. Len(v)
  <2>1. k \in 1 .. n - m /\ m + k \in 1 .. Len(s)
    BY <1>1, <1>4
  <2> QED
    BY <2>1, <1>1, <1>3, <1>4
<1>6. v = u
  BY <1>3, <1>4, <1>5, SeqEqual
<1> QED
  BY <1>6 DEF a, u, v

LEMMA FrontOfPiece ==
  ASSUME NEW T, NEW s \in Seq(T), NEW m \in Nat, NEW n \in m + 1 .. Len(s)
  PROVE  /\ SubSeq(s, m + 1, n) # << >>
         /\ Last(SubSeq(s, m + 1, n)) = s[n]
         /\ Front(SubSeq(s, m + 1, n)) = SubSeq(s, m + 1, n - 1)
<1> DEFINE u == SubSeq(s, m + 1, n)
           w == SubSeq(s, m + 1, n - 1)
           v == SubSeq(u, 0 + 1, n - m - 1)
<1>1. Len(s) \in Nat /\ n \in m .. Len(s) /\ n - 1 \in m .. Len(s) /\ n - m \in 1 .. n - m /\ n \in Nat
  BY LenProperties
<1>2. u \in Seq(T) /\ Len(u) = n - m /\ \A k \in 1 .. n - m : u[k] = s[m + k]
  BY <1>1, Piece
<1>3. w \in Seq(T) /\ Len(w) = n - m - 1 /\ \A k \in 1 .. n - m - 1 : w[k] = s[m + k]
  <2> DEFINE l == n - 1
  <2>1. l \in m .. Len(s) /\ l - m = n - m - 1
    BY <1>1
  <2> HIDE DEF l
  <2>2. /\ SubSeq(s, m + 1, l) \in Seq(T) /\ Len(SubSeq(s, m + 1, l)) = l - m
        /\ \A k \in 1 .. l - m : SubSeq(s, m + 1, l)[k] = s[m + k]
    BY <2>1, Piece
  <2> QED
    BY <2>1, <2>2 DEF l
<1> HIDE DEF u, w
<1>4. v \in Seq(T) /\ Len(v) = n - m - 1 /\ \A k \in 1 .. n - m - 1 : v[k] = u[k]
  <2> DEFINE l == n - m - 1
  <2>1. 0 \in Nat /\ l \in 0 .. Len(u) /\ l - 0 = l
    BY <1>1, <1>2
  <2> HIDE DEF l
  <2>2. /\ SubSeq(u, 0 + 1, l) \in Seq(T) /\ Len(SubSeq(u, 0 + 1, l)) = l - 0
        /\ \A k \in 1 .. l - 0 : SubSeq(u, 0 + 1, l)[k] = u[0 + k]
    BY <2>1, <1>2, Piece
  <2>3. \A k \in 1 .. l : SubSeq(u, 0 + 1, l)[k] = u[k]
    <3> TAKE k \in 1 .. l
    <3>1. 0 + k = k
      OBVIOUS
    <3> QED
      BY <3>1, <2>1, <2>2
  <2> QED
    BY <2>1, <2>2, <2>3 DEF l
<1>5. u # << >>
  BY <1>1, <1>2, EmptySeq
<1>6. Last(u) = s[n]
  <2>1. u[n - m] = s[m + (n - m)] /\ m + (n - m) = n
    BY <1>1, <1>2
  <2> QED
    BY <2>1, <1>2 DEF Last
<1>7. Front(u) = v
  <2>1. 0 + 1 = 1 /\ Len(u) - 1 = n - m - 1
    BY <1>2
  <2> QED
    BY <2>1 DEF Front
<1> HIDE DEF v
<1>8. \A k \in 1 .. Len(v) : v[k] = w[k]
  <2> TAKE k \in 1 .. Len(v)
  <2>1. k \in 1 .. n - m - 1 /\ k \in 1 .. n - m
    BY <1>1, <1>4
  <2> QED
    BY <2>1, <1>2, <1>3, <1>4
<1>9. v = w
  BY <1>3, <1>4, <1>8, SeqEqual
<1> QED
  BY <1>5, <1>6, <1>7, <1>9 DEF u, w

\* One piece behind the other.
LEMMA NextPiece ==
  ASSUME NEW T, NEW s \in Seq(T), NEW m \in 0 .. Len(s), NEW n \in m .. Len(s)
  PROVE  SubSeq(s, 1, m) \o SubSeq(s, m + 1, n) = SubSeq(s, 1, n)
<1>1. Len(s) \in Nat /\ n \in Nat
  BY LenProperties
<1>2. 1 \in 1 .. Len(s) + 1 /\ m \in 1 - 1 .. Len(s) /\ n \in m .. Len(s)
  BY <1>1
<1> QED
  BY <1>2, ConcatAdjacentSubSeq

LEMMA NoEntries == Joined(<< >>) = << >> /\ Separated(<< >>) = << >>
<1>1. << >> \in Seq(Seq(Keys)) /\ Len(<< >>) = 0
  BY EmptySeq
<1>2. /\ SeparatedParts(<< >>) \in Seq(Seq(Items)) /\ Len(SeparatedParts(<< >>)) = 0
      /\ JoinedParts(<< >>) \in Seq(Seq(Items)) /\ Len(JoinedParts(<< >>)) = 0
  BY <1>1, PartsType
<1>3. SeparatedParts(<< >>) = << >> /\ JoinedParts(<< >>) = << >>
  BY <1>2, EmptySeq
<1> QED
  BY <1>1, <1>3 DEF Joined, Separated, JoinedParts, SeparatedParts, FlattenSeq

LEMMA OneEntry ==
  ASSUME NEW entries \in Seq(Seq(Keys)), entries # << >>
  PROVE  Len(Separated(SubSeq(entries, Len(entries), Len(entries)))) = Len(entries[Len(entries)]) + 1
<1> DEFINE N == Len(entries)
           e == entries[N]
           one == SubSeq(entries, N, N)
<1>1. N \in Nat \ {0} /\ N - 1 \in Nat /\ N \in N - 1 .. N /\ N - 1 + 1 = N /\ N - (N - 1) = 1
  BY EmptySeq
<1>2. one \in Seq(Seq(Keys)) /\ Len(one) = 1 /\ one[1] = e
  <2> DEFINE m == N - 1
  <2>1. m \in Nat /\ N \in m .. Len(entries) /\ m + 1 = N /\ N - m = 1
    BY <1>1
  <2> HIDE DEF m, N
  <2>2. /\ SubSeq(entries, m + 1, N) \in Seq(Seq(Keys)) /\ Len(SubSeq(entries, m + 1, N)) = N - m
        /\ \A k \in 1 .. N - m : SubSeq(entries, m + 1, N)[k] = entries[m + k]
    BY <2>1, Piece
  <2> QED
    BY <2>1, <2>2
<1>3. e \in Seq(Keys) /\ Len(e) \in Nat
  BY <1>1, ElementOfSeq, LenProperties
<1> DEFINE S == SeparatedParts(one)
<1> HIDE DEF one, e
<1>4. S \in Seq(Seq(Items)) /\ Len(S) = 1 /\ S[1] = Append(e, 0) /\ e \in Seq(Items)
  <2>1. 1 \in 1 .. 1
    OBVIOUS
  <2> QED
    BY <1>2, <2>1, PartsType
<1>5. Separated(one) = FlattenSeq(S)
  BY DEF Separated, SeparatedParts
<1> HIDE DEF S
<1>6. PICK f : IsFlat(f, S, Items) /\ FlattenSeq(S) = f[Len(S)]
  BY <1>4, FlattenIs
<1>7. f[0 + 1] = f[0] \o S[0 + 1] /\ f[0] = << >>
  <2>1. 0 \in 0 .. Len(S) - 1
    BY <1>4
  <2> QED
    BY <1>6, <2>1 DEF IsFlat
<1>8. f[1] = Append(e, 0)
  <2>1. Append(e, 0) \in Seq(Items)
    BY <1>4, AppendProperties DEF Items
  <2>2. f[1] = << >> \o Append(e, 0)
    BY <1>4, <1>7
  <2> QED
    BY <2>1, <2>2, ConcatEmptySeq
<1>9. Len(Append(e, 0)) = Len(e) + 1
  BY <1>4, AppendProperties DEF Items
<1> QED
  BY <1>4, <1>5, <1>6, <1>8, <1>9 DEF one, e

\* An answer to GET_MACRO is a full packet of the macro, or what is left of it.
LEMMA MacroAnswerIs ==
  ASSUME NEW entries \in Seq(Seq(Keys)), NEW index \in 0 .. Len(Joined(entries))
  PROVE  /\ Joined(entries) \in Seq(Items)
         /\ MacroAnswer(entries, index) =
              SubSeq(Joined(entries), index + 1,
                     IF index + MACRO_ITEMS_IN_PACKET <= Len(Joined(entries))
                     THEN index + MACRO_ITEMS_IN_PACKET ELSE Len(Joined(entries)))
<1> DEFINE K == MACRO_ITEMS_IN_PACKET
           J == Joined(entries)
           L == Len(J)
           all == Separated(entries)
           end == IF index + K <= L THEN index + K ELSE L
<1>1. K \in Nat \ {0}
  BY ConfigAssumption
<1>2. CASE entries = << >>
  <2>1. J = << >> /\ all = << >> /\ J \in Seq(Items) /\ L = 0 /\ Len(all) = 0 /\ index = 0
    <3>1. Joined(entries) = << >> /\ all = << >>
      BY <1>2, NoEntries
    <3>2. << >> \in Seq(Items) /\ Len(<< >>) = 0
      BY EmptySeq
    <3>3. index \in 0 .. Len(Joined(entries))
      OBVIOUS
    <3>4. index = 0
      BY <3>1, <3>2, <3>3
    <3> QED
      BY <3>1, <3>2, <3>4
  <2> HIDE DEF J, all, L, K
  <2>2. ~(index + K <= Len(all)) /\ ~(index + K <= L)
    BY <2>1, <1>1
  <2> DEFINE packet == SubSeq(all, index + 1, Len(all))
  <2>3. packet = << >> /\ SubSeq(J, index + 1, L) = << >>
    <3>1. index + 1 \in Int /\ Len(all) \in Int /\ Len(all) < index + 1 /\ L \in Int /\ L < index + 1
      BY <2>1
    <3> QED
      BY <3>1, SubSeqEmpty
  <2>4. MacroAnswer(entries, index) = packet
    BY <2>2, <2>3 DEF MacroAnswer, all, K
  <2> QED
    BY <2>1, <2>2, <2>3, <2>4 DEF J, L, K
<1>3. CASE entries # << >>
  <2> DEFINE e == entries[Len(entries)]
             lastEntry == Len(all) - Len(Separated(SubSeq(entries, Len(entries), Len(entries))))
             full == index + K <= Len(all)
             m == IF full THEN index + K ELSE Len(all)
             packet == SubSeq(all, index + 1, m)
             exhausted == entries = << >> \/ lastEntry < index + K
  <2>1. MacroAnswer(entries, index) =
          IF exhausted /\ packet # << >> /\ Last(packet) = 0 THEN Front(packet) ELSE packet
    BY DEF MacroAnswer
  <2>2. J \in Seq(Items) /\ all = Append(J, 0) /\ e \in Seq(Keys) /\ L \in Nat /\ Len(e) \in Nat
    BY <1>3, SeparatedIs, LenProperties
  <2>3. PICK b \in Seq(Items) : J = b \o e
    BY <1>3, SeparatedIs
  <2>4. /\ L = Len(b) + Len(e) /\ Len(b) \in Nat
        /\ \A i \in 1 .. Len(b) + Len(e) : J[i] = IF i <= Len(b) THEN b[i] ELSE e[i - Len(b)]
    <3>1. e \in Seq(Items)
      BY <2>2, SeqMonotonic DEF Items
    <3> HIDE DEF e, J
    <3> QED
      BY <2>3, <3>1, ConcatProperties, LenProperties DEF L
  <2>5. lastEntry = Len(all) - (Len(e) + 1)
    <3>1. Len(Separated(SubSeq(entries, Len(entries), Len(entries)))) = Len(e) + 1
      BY <1>3, OneEntry
    <3> HIDE DEF all, e
    <3> QED
      BY <3>1
  <2> HIDE DEF J, all, e, lastEntry, K
  <2>6. /\ all \in Seq(Items) /\ Len(all) = L + 1 /\ all[L + 1] = 0
        /\ \A k \in 1 .. L : all[k] = J[k]
    BY <2>2, AppendProperties DEF Items
  <2> HIDE DEF L
  <2>7. index \in Nat /\ index <= L
    BY <2>2 DEF L, J
  <2>8. lastEntry = Len(b)
    BY <2>2, <2>4, <2>5, <2>6
  <2>9. m \in index + 1 .. Len(all) /\ (index + K <= L => m = index + K) /\ (~(index + K <= L) => m = L + 1)
    <3>1. K \in Nat /\ 1 <= K /\ L \in Nat /\ index \in Nat /\ index <= L /\ Len(all) = L + 1
      BY <1>1, <2>2, <2>6, <2>7
    <3>2. m = IF index + K <= L + 1 THEN index + K ELSE L + 1
      BY <3>1
    <3> HIDE DEF K, L, m, all
    <3> QED
      BY <3>1, <3>2
  <2> HIDE DEF m
  <2>10. packet # << >> /\ Last(packet) = all[m] /\ Front(packet) = SubSeq(all, index + 1, m - 1)
    BY <2>6, <2>7, <2>9, FrontOfPiece
  <2> HIDE DEF packet
  <2>11. CASE index + K <= L
    <3>1. m = index + K /\ m \in index .. L /\ m \in 1 .. L
      BY <2>2, <2>7, <2>9, <2>11, <1>1
    <3>2. ~(exhausted /\ packet # << >> /\ Last(packet) = 0)
      <4> SUFFICES ASSUME exhausted PROVE all[m] # 0
        BY <2>10
      <4>1. Len(b) < m
        BY <1>3, <2>8, <3>1
      <4>2. m - Len(b) \in 1 .. Len(e) /\ m \in 1 .. Len(b) + Len(e) /\ ~(m <= Len(b))
        BY <4>1, <2>2, <2>4, <3>1
      <4>3. J[m] = e[m - Len(b)]
        BY <4>2, <2>4
      <4> DEFINE r == m - Len(b)
      <4>4. r \in 1 .. Len(e)
        BY <4>2
      <4> HIDE DEF r
      <4>5. e[r] \in Keys
        BY <4>4, <2>2, ElementOfSeq
      <4>6. e[r] # 0
        BY <4>5, ConfigAssumption
      <4> QED
        BY <4>3, <4>6, <2>6, <3>1 DEF r
    <3>3. packet = SubSeq(J, index + 1, m)
      <4>1. SubSeq(Append(J, 0), index + 1, m) = SubSeq(J, index + 1, m)
        <5>1. 0 \in Items /\ m \in index .. Len(J)
          BY <3>1 DEF Items, L
        <5> QED
          BY <5>1, <2>2, <2>7, PieceOfAppend
      <4> QED
        BY <4>1, <2>2 DEF packet
    <3> HIDE DEF exhausted
    <3> QED
      BY <2>1, <2>2, <2>11, <3>1, <3>2, <3>3 DEF J, L, K
  <2>12. CASE ~(index + K <= L)
    <3>1. m = L + 1 /\ m - 1 = L
      BY <2>2, <2>9, <2>12
    <3>2. exhausted
      BY <2>2, <2>4, <2>7, <2>8, <2>12, <1>1
    <3>3. Last(packet) = 0
      BY <2>6, <2>10, <3>1
    <3>4. Front(packet) = SubSeq(J, index + 1, L)
      <4>1. SubSeq(Append(J, 0), index + 1, L) = SubSeq(J, index + 1, L)
        <5>1. 0 \in Items /\ L \in index .. Len(J)
          BY <2>2, <2>7 DEF Items, L
        <5> QED
          BY <5>1, <2>2, <2>7, PieceOfAppend
      <4> QED
        BY <4>1, <2>2, <2>10, <3>1
    <3> HIDE DEF exhausted
    <3> QED
      BY <2>1, <2>2, <2>10, <2>12, <3>2, <3>3, <3>4 DEF J, L, K
  <2> QED
    BY <2>11, <2>12
<1> QED
  BY <1>2, <1>3

-----------------------------------------------------------------------------
(* Expressions as a client reads them.                                     *)

LEMMA GreatestElement ==
  ASSUME NEW N \in Nat, NEW A \in SUBSET (0 .. N), A # {}
  PROVE  \E m \in A : \A k \in A : k <= m
<1> DEFINE B == {n \in 0 .. N : N - n \in A}
<1>1. B \in SUBSET Nat /\ B # {}
  <2>1. PICK a \in A : TRUE
    OBVIOUS
  <2>2. a \in 0 .. N
    OBVIOUS
  <2>3. N - a \in 0 .. N /\ N - (N - a) = a
    BY <2>2
  <2>4. N - a \in B
    BY <2>3
  <2>5. B \in SUBSET Nat
    OBVIOUS
  <2> HIDE DEF B
  <2> QED
    BY <2>4, <2>5
<1>2. PICK x \in B : \A y \in B : x <= y
  <2> HIDE DEF B
  <2> QED
    BY <1>1, LeastElement
<1>3. N - x \in A /\ x \in 0 .. N
  BY <1>2
<1>4. \A k \in A : k <= N - x
  <2> TAKE k \in A
  <2>1. k \in 0 .. N /\ N - k \in 0 .. N /\ N - (N - k) = k
    OBVIOUS
  <2>2. N - k \in B
    BY <2>1
  <2>3. x <= N - k
    BY <2>2, <1>2
  <2> HIDE DEF B
  <2> QED
    BY <2>1, <2>3, <1>3
<1> QED
  BY <1>3, <1>4

\* One element has five bytes at most.
LEMMA FirstElementFits ==
  ASSUME NEW T, NEW elems \in Seq(T), Len(elems) \in {0, 1}
  PROVE  ElemBytes(elems) <= GET_BYTES
<1> DEFINE N == Len(elems)
           size(n) == IF HasValue(elems[n]) THEN 5 ELSE 1
           Is(g) == g = [n \in 0 .. N |-> IF n = 0 THEN 0 ELSE g[n - 1] + size(n)]
           own == [n \in 0 .. N |-> IF n = 0 THEN 0 ELSE size(n)]
           bytes == CHOOSE g : Is(g)
<1>1. N \in {0, 1} /\ \A n \in 0 .. N : n = 0 \/ n = 1
  <2>1. N \in {0, 1}
    OBVIOUS
  <2> HIDE DEF N
  <2> QED
    BY <2>1
<1>2. ASSUME NEW n PROVE size(n) \in {1, 5}
  <2>1. CASE HasValue(elems[n])
    BY <2>1
  <2>2. CASE ~HasValue(elems[n])
    BY <2>2
  <2> QED
    BY <2>1, <2>2
<1> HIDE DEF N, size
<1>3. Is(own)
  <2> SUFFICES ASSUME NEW n \in 0 .. N
               PROVE  (IF n = 0 THEN 0 ELSE size(n)) = IF n = 0 THEN 0 ELSE own[n - 1] + size(n)
    OBVIOUS
  <2>1. CASE n = 0
    BY <2>1
  <2>2. CASE n # 0
    <3>1. n = 1 /\ n - 1 = 0 /\ 0 \in 0 .. N
      BY <2>2, <1>1
    <3>2. own[n - 1] = 0
      BY <3>1
    <3>3. size(n) \in Nat
      BY <1>2
    <3> HIDE DEF own
    <3> QED
      BY <3>2, <3>3, <2>2
  <2> QED
    BY <2>1, <2>2
<1>4. Is(bytes)
  <2> HIDE DEF own, Is
  <2> QED
    BY <1>3
<1> HIDE DEF bytes, own
<1>5. bytes[N] \in 0 .. 5
  <2>1. \A n \in 0 .. N : bytes[n] = IF n = 0 THEN 0 ELSE bytes[n - 1] + size(n)
    BY <1>4
  <2> HIDE DEF Is
  <2>2. 0 \in 0 .. N /\ N \in 0 .. N
    BY <1>1
  <2>3. bytes[0] = 0
    BY <2>1, <2>2
  <2>4. CASE N = 0
    BY <2>3, <2>4
  <2>5. CASE N = 1
    <3>1. bytes[1] = bytes[1 - 1] + size(1)
      BY <2>1, <2>2, <2>5
    <3>2. bytes[1] = 0 + size(1)
      BY <3>1, <2>3
    <3>3. size(1) \in {1, 5}
      BY <1>2
    <3> QED
      BY <3>2, <3>3, <2>5
  <2> QED
    BY <1>1, <2>4, <2>5
<1>6. ElemBytes(elems) = bytes[N]
  BY DEF ElemBytes, bytes, Is, N, size
<1> QED
  BY <1>5, <1>6, ConfigAssumption

\* An answer to GET_EXPRESSION is empty only when nothing is left.
LEMMA ExprAnswerIs ==
  ASSUME NEW T, NEW elems \in Seq(T), NEW index \in 0 .. Len(elems)
  PROVE  \E m \in index .. Len(elems) :
           /\ ExprAnswer(elems, index) = SubSeq(elems, index + 1, m)
           /\ m = index => index = Len(elems)
<1> DEFINE N == Len(elems)
           bytes(n) == ElemBytes(SubSeq(elems, index + 1, n))
           fits == {n \in index .. N : bytes(n) <= GET_BYTES}
<1>1. N \in Nat /\ index \in Nat
  BY LenProperties
<1>2. \A n \in index .. N : n \in {index, index + 1} => n \in fits
  <2> SUFFICES ASSUME NEW n \in index .. N, n \in {index, index + 1} PROVE bytes(n) <= GET_BYTES
    OBVIOUS
  <2> DEFINE s == SubSeq(elems, index + 1, n)
  <2>1. s \in Seq(T) /\ Len(s) = n - index
    BY <1>1, Piece
  <2> HIDE DEF s
  <2>2. Len(s) \in {0, 1}
    BY <1>1, <2>1
  <2> QED
    BY <2>1, <2>2, FirstElementFits DEF s
<1>3. fits \in SUBSET (0 .. N) /\ fits # {}
  <2>1. index \in fits
    <3>1. index \in index .. N
      BY <1>1
    <3> HIDE DEF fits
    <3> QED
      BY <3>1, <1>2
  <2>2. fits \in SUBSET (0 .. N)
    BY <1>1
  <2> QED
    BY <2>1, <2>2
<1> DEFINE Greatest(n) == \A k \in fits : k <= n
           m == CHOOSE n \in fits : Greatest(n)
<1>4. \E n \in fits : Greatest(n)
  <2> HIDE DEF fits
  <2> QED
    BY <1>1, <1>3, GreatestElement
<1>5. m \in fits /\ Greatest(m)
  <2> HIDE DEF fits, Greatest
  <2> QED
    BY <1>4
<1>6. m \in index .. N
  <2> HIDE DEF m, Greatest
  <2> QED
    BY <1>5
<1>7. ASSUME m = index PROVE index = N
  <2> SUFFICES ASSUME index # N PROVE FALSE
    OBVIOUS
  <2> HIDE DEF m
  <2>1. index + 1 \in index .. N
    BY <1>1
  <2>2. index + 1 \in fits
    <3> HIDE DEF fits
    <3> QED
      BY <2>1, <1>2
  <2>3. index + 1 <= m
    <3> HIDE DEF fits
    <3> QED
      BY <2>2, <1>5
  <2> QED
    BY <2>3, <1>1, <1>7
<1>8. ExprAnswer(elems, index) = SubSeq(elems, index + 1, m)
  BY <1>3 DEF ExprAnswer
<1> HIDE DEF m
<1> QED
  BY <1>6, <1>7, <1>8

-----------------------------------------------------------------------------
(* The inductive invariant.                                                *)

\* What is in the flash at the start is read as what it means, for every image of an older
\* firmware: that its loader is right.
OldSectorsAreRead == \A image \in Images : Loaded(image.sector) = {image.means}

\* A request to save is answered by the save.
SaveInv ==
  /\ need_to_persist_config => persist_config_return_code = "UNKNOWN"
  /\ pc \in {"save", "program"} => need_to_persist_config
  /\ pc = "program" => flash = Blank /\ stored = config
  /\ stored \in Configs
  /\ Loaded(flash) \subseteq Configs
  /\ flash # Blank /\ LengthsFit(stored) => Loaded(flash) = {stored}

\* Nothing changes the mappings while they are in use.
LoopInv ==
  /\ editing => suspended
  /\ resume_pending => config_updated /\ ~editing /\ pc = "apply"
  /\ uncompiled => suspended

\* What the board has of the macro or the expression a client reads, and has read of it.
Whole(d) == IF d.kind = "macro" THEN Joined(config.macros[d.index]) ELSE config.expressions[d.index]
Parts == [kind : {"macro"}, index : Macros, items : Seq(Keys \cup {0}), done : BOOLEAN]
           \cup [kind : {"expression"}, index : Expressions, items : Seq(AllElements), done : BOOLEAN]
IsPart(d) ==
  /\ Len(d.items) <= Len(Whole(d))
  /\ d.items = SubSeq(Whole(d), 1, Len(d.items))
  /\ d.done => d.items = Whole(d)

\* A request to go on is for what follows.
IsAskedFor(d, command, kind) ==
  last_config_command = command =>
    d.kind = kind /\ d.index = requested_index /\ Len(d.items) = requested_secondary_index /\ ~d.done

DownloadInv ==
  download # None =>
    /\ download \in Parts
    /\ IsPart(download)
    /\ IsAskedFor(download, "GET_MACRO", "macro")
    /\ IsAskedFor(download, "GET_EXPRESSION", "expression")

IInv == TypeOK /\ SaveInv /\ LoopInv /\ DownloadInv /\ SuccessIsSaved

EditCommands == {"SET_CONFIG", "CLEAR_MAPPING", "ADD_MAPPING", "CLEAR_QUIRKS", "ADD_QUIRK",
                 "CLEAR_MACROS", "APPEND_TO_MACRO", "CLEAR_EXPRESSIONS", "APPEND_TO_EXPRESSION"}

\* A change is one from a configuration to a configuration.
LEMMA EditIs ==
  ASSUME TypeOK, EditRequest
  PROVE  \E command \in EditCommands, c \in Configs : Edit(command, c)
<1>1. /\ config \in Configs
      /\ config = [settings |-> config.settings, mappings |-> config.mappings, macros |-> config.macros,
                   expressions |-> config.expressions, quirks |-> config.quirks]
      /\ config.settings \in AllSettings /\ config.mappings \in Seq(AllMappings)
      /\ config.quirks \in Seq(AllQuirks) /\ config.macros \in [Macros -> Seq(Seq(Keys))]
      /\ config.expressions \in [Expressions -> Seq(AllElements)]
  BY DEF TypeOK, Configs
<1>2. ASSUME NEW s \in NewSettings, SET_CONFIG(s)
      PROVE \E command \in EditCommands, c \in Configs : Edit(command, c)
  <2> DEFINE t == [s EXCEPT !.our_descriptor_number = Clamped(@)]
  <2>1. s \in [Fields -> Nat] /\ "our_descriptor_number" \in Fields
    BY SectorAssumption DEF Fields
  <2>2. Clamped(s.our_descriptor_number) \in Nat /\ Clamped(s.our_descriptor_number) < NOUR_DESCRIPTORS
    <3>1. s.our_descriptor_number \in Nat /\ NOUR_DESCRIPTORS \in Nat \ {0}
      BY <2>1, ConfigAssumption
    <3> QED
      BY <3>1 DEF Clamped
  <2>3. t \in AllSettings
    BY <2>1, <2>2 DEF AllSettings
  <2> HIDE DEF t
  <2>4. [config EXCEPT !.settings = t] \in Configs
    BY <1>1, <2>3 DEF Configs
  <2>5. Edit("SET_CONFIG", [config EXCEPT !.settings = t])
    BY <1>2 DEF SET_CONFIG, t
  <2> QED
    BY <2>4, <2>5 DEF EditCommands
<1>3. ASSUME CLEAR_MAPPING PROVE \E command \in EditCommands, c \in Configs : Edit(command, c)
  <2>1. [config EXCEPT !.mappings = << >>] \in Configs
    BY <1>1, EmptySeq DEF Configs
  <2> QED
    BY <1>3, <2>1 DEF CLEAR_MAPPING, EditCommands
<1>4. ASSUME NEW m \in NewMappings, ADD_MAPPING(m)
      PROVE \E command \in EditCommands, c \in Configs : Edit(command, c)
  <2>1. Append(config.mappings, m) \in Seq(AllMappings)
    BY <1>1, AppendProperties DEF AllMappings
  <2>2. [config EXCEPT !.mappings = Append(@, m)] \in Configs
    BY <1>1, <2>1 DEF Configs
  <2> QED
    BY <1>4, <2>2 DEF ADD_MAPPING, EditCommands
<1>5. ASSUME CLEAR_QUIRKS PROVE \E command \in EditCommands, c \in Configs : Edit(command, c)
  <2>1. [config EXCEPT !.quirks = << >>] \in Configs
    BY <1>1, EmptySeq DEF Configs
  <2> QED
    BY <1>5, <2>1 DEF CLEAR_QUIRKS, EditCommands
<1>6. ASSUME NEW q \in NewQuirks, ADD_QUIRK(q)
      PROVE \E command \in EditCommands, c \in Configs : Edit(command, c)
  <2>1. Append(config.quirks, q) \in Seq(AllQuirks)
    BY <1>1, AppendProperties DEF AllQuirks
  <2>2. [config EXCEPT !.quirks = Append(@, q)] \in Configs
    BY <1>1, <2>1 DEF Configs
  <2> QED
    BY <1>6, <2>2 DEF ADD_QUIRK, EditCommands
<1>7. ASSUME CLEAR_MACROS PROVE \E command \in EditCommands, c \in Configs : Edit(command, c)
  <2>1. [i \in Macros |-> << >>] \in [Macros -> Seq(Seq(Keys))]
    BY EmptySeq
  <2>2. [config EXCEPT !.macros = [i \in Macros |-> << >>]] \in Configs
    BY <1>1, <2>1 DEF Configs
  <2> QED
    BY <1>7, <2>2 DEF CLEAR_MACROS, EditCommands
<1>8. ASSUME NEW i \in Macros, NEW usages \in MacroPackets, APPEND_TO_MACRO(i, usages)
      PROVE  \E command \in EditCommands, c \in Configs : Edit(command, c)
  <2>1. Appended(config.macros[i], usages) \in Seq(Seq(Keys))
    BY <1>1, AppendedType, ConfigAssumption
  <2>2. [config.macros EXCEPT ![i] = Appended(config.macros[i], usages)] \in [Macros -> Seq(Seq(Keys))]
    BY <1>1, <2>1
  <2>3. [config EXCEPT !.macros = [config.macros EXCEPT ![i] = Appended(config.macros[i], usages)]]
        \in Configs
    BY <1>1, <2>2 DEF Configs
  <2>4. [config EXCEPT !.macros[i] = Appended(@, usages)]
          = [config EXCEPT !.macros = [config.macros EXCEPT ![i] = Appended(config.macros[i], usages)]]
    BY <1>1
  <2> QED
    BY <1>8, <2>3, <2>4 DEF APPEND_TO_MACRO, EditCommands
<1>9. ASSUME CLEAR_EXPRESSIONS PROVE \E command \in EditCommands, c \in Configs : Edit(command, c)
  <2>1. [i \in Expressions |-> << >>] \in [Expressions -> Seq(AllElements)]
    BY EmptySeq
  <2>2. [config EXCEPT !.expressions = [i \in Expressions |-> << >>]] \in Configs
    BY <1>1, <2>1 DEF Configs
  <2> QED
    BY <1>9, <2>2 DEF CLEAR_EXPRESSIONS, EditCommands
<1>10. ASSUME NEW i \in Expressions, NEW elems \in ExprPackets, APPEND_TO_EXPRESSION(i, elems)
       PROVE  \E command \in EditCommands, c \in Configs : Edit(command, c)
  <2>1. elems \in Seq(Range(elems)) /\ Range(elems) \subseteq AllElements
    BY ConfigAssumption DEF AllElements
  <2>2. elems \in Seq(AllElements)
    BY <2>1, SeqMonotonic
  <2>3. config.expressions[i] \o elems \in Seq(AllElements)
    BY <1>1, <2>2, ConcatProperties
  <2>4. [config.expressions EXCEPT ![i] = config.expressions[i] \o elems] \in [Expressions -> Seq(AllElements)]
    BY <1>1, <2>3
  <2>5. [config EXCEPT !.expressions = [config.expressions EXCEPT ![i] = config.expressions[i] \o elems]]
        \in Configs
    BY <1>1, <2>4 DEF Configs
  <2>6. [config EXCEPT !.expressions[i] = @ \o elems]
          = [config EXCEPT !.expressions = [config.expressions EXCEPT ![i] = config.expressions[i] \o elems]]
    BY <1>1
  <2> QED
    BY <1>10, <2>5, <2>6 DEF APPEND_TO_EXPRESSION, EditCommands
<1> QED
  BY <1>2, <1>3, <1>4, <1>5, <1>6, <1>7, <1>8, <1>9, <1>10 DEF EditRequest

Flags == /\ suspended \in BOOLEAN /\ resume_pending \in BOOLEAN /\ config_updated \in BOOLEAN
         /\ need_to_persist_config \in BOOLEAN /\ uncompiled \in BOOLEAN /\ editing \in BOOLEAN

LEMMA TypeParts ==
  TypeOK <=>
    /\ config \in Configs
    /\ last_config_command \in Commands
    /\ requested_index \in Nat /\ requested_secondary_index \in Nat
    /\ Flags
    /\ persist_config_return_code \in {"UNKNOWN", "SUCCESS", "CONFIG_TOO_BIG"}
    /\ pc \in {"frame", "apply", "save", "program"}
    /\ edits \in 0 .. MaxEdits
<1>1. Flags <=> {suspended, resume_pending, config_updated, need_to_persist_config, uncompiled, editing}
      \subseteq BOOLEAN
  BY Zenon DEF Flags
<1> HIDE DEF Flags
<1> QED
  BY <1>1 DEF TypeOK

LEMMA InitIInv == OldSectorsAreRead /\ Init => IInv
<1> SUFFICES ASSUME OldSectorsAreRead, Init PROVE IInv
  OBVIOUS
<1>1. PICK image \in Images : flash = image.sector /\ stored = image.means /\ edits = image.edits
  BY DEF Init
<1>2. stored \in Configs /\ Loaded(flash) = {stored} /\ config = stored /\ edits \in 0 .. MaxEdits
  BY <1>1, SectorAssumption, ConfigAssumption DEF OldSectorsAreRead, Init
<1>3. TypeOK
  <2>1. Flags
    BY DEF Init, Flags
  <2> QED
    BY <1>2, <2>1, TypeParts DEF Init, Commands
<1>4. SaveInv
  BY <1>2 DEF SaveInv, Init
<1>5. LoopInv
  BY DEF LoopInv, Init
<1>6. DownloadInv /\ SuccessIsSaved
  BY DEF DownloadInv, SuccessIsSaved, Init
<1> QED
  BY <1>3, <1>4, <1>5, <1>6 DEF IInv

LEMMA TypeStep == TypeOK /\ SaveInv /\ DownloadInv /\ [Next]_vars => TypeOK'
<1> SUFFICES ASSUME TypeOK, SaveInv, DownloadInv, [Next]_vars PROVE TypeOK'
  OBVIOUS
<1> USE DEF commands, loop, saving, history
<1>1. /\ config \in Configs
      /\ last_config_command \in Commands
      /\ requested_index \in Nat /\ requested_secondary_index \in Nat
      /\ Flags
      /\ persist_config_return_code \in {"UNKNOWN", "SUCCESS", "CONFIG_TOO_BIG"}
      /\ pc \in {"frame", "apply", "save", "program"}
      /\ edits \in 0 .. MaxEdits
  BY TypeParts
<1> DEFINE Types ==
      /\ config' \in Configs
      /\ last_config_command' \in Commands
      /\ requested_index' \in Nat /\ requested_secondary_index' \in Nat
      /\ Flags'
      /\ persist_config_return_code' \in {"UNKNOWN", "SUCCESS", "CONFIG_TOO_BIG"}
      /\ pc' \in {"frame", "apply", "save", "program"}
      /\ edits' \in 0 .. MaxEdits
<1> SUFFICES Types
  <2>1. Flags' => {suspended', resume_pending', config_updated', need_to_persist_config', uncompiled', editing'}
                    \subseteq BOOLEAN
    BY Zenon DEF Flags
  <2> HIDE DEF Flags
  <2> QED
    BY <2>1 DEF TypeOK
<1>2. CASE EditRequest
  <2>1. PICK command \in EditCommands, c \in Configs : Edit(command, c)
    BY <1>2, EditIs
  <2>2. Flags'
    BY <1>1, <2>1 DEF Edit, Request, Flags
  <2>3. edits' \in 0 .. MaxEdits
    <3>1. edits' = edits + 1 /\ edits < MaxEdits /\ MaxEdits \in Nat
      BY <2>1, ConfigAssumption DEF Edit
    <3> QED
      BY <3>1, <1>1
  <2>4. command \in Commands
    BY DEF EditCommands, Commands
  <2> QED
    BY <1>1, <2>1, <2>2, <2>3, <2>4 DEF Edit, Request
<1>3. ASSUME NEW command \in {"GET_MACRO", "GET_EXPRESSION"}, NEW kind, NEW i \in Nat,
      GET_PART(command, kind, i)
      PROVE  Types
  <2>1. Flags'
    BY <1>1, <1>3 DEF GET_PART, Request, Flags
  <2>2. requested_secondary_index' \in Nat
    <3>1. CASE Continues(kind, i)
      <4>1. download \in Parts /\ requested_secondary_index' = Len(download.items)
        BY <1>3, <3>1 DEF GET_PART, Continues, DownloadInv
      <4>2. \E S : download.items \in Seq(S)
        BY <4>1 DEF Parts
      <4> QED
        BY <4>1, <4>2, LenProperties
    <3>2. CASE ~Continues(kind, i)
      BY <1>3, <3>2, EmptySeq DEF GET_PART
    <3> QED
      BY <3>1, <3>2
  <2>3. command \in Commands
    BY DEF Commands
  <2> QED
    BY <1>1, <1>3, <2>1, <2>2, <2>3 DEF GET_PART, Request
<1>4. ASSUME NEW i \in Macros, GET_INDEXED(i) PROVE Types
  <2>1. Flags'
    BY <1>1, <1>4 DEF GET_INDEXED, Request, Flags
  <2> QED
    BY <1>1, <1>4, <2>1 DEF GET_INDEXED, Request, Commands, Macros
<1>5. ASSUME NEW command \in {"INVALID_COMMAND", "SET_MONITOR_ENABLED"}, OTHER_COMMAND(command) PROVE Types
  <2>1. Flags'
    BY <1>1, <1>5 DEF OTHER_COMMAND, Request, Flags
  <2> QED
    BY <1>1, <1>5, <2>1 DEF OTHER_COMMAND, Request, Commands
<1>6. CASE SUSPEND
  <2>1. Flags'
    BY <1>1, <1>6 DEF SUSPEND, Request, Flags
  <2> QED
    BY <1>1, <1>6, <2>1 DEF SUSPEND, Request, Commands
<1>7. CASE RESUME
  <2>1. Flags'
    BY <1>1, <1>7 DEF RESUME, Request, Flags
  <2> QED
    BY <1>1, <1>7, <2>1 DEF RESUME, Request, Commands
<1>8. CASE PERSIST_CONFIG
  <2>1. Flags'
    BY <1>1, <1>8 DEF PERSIST_CONFIG, Request, Flags
  <2> QED
    BY <1>1, <1>8, <2>1 DEF PERSIST_CONFIG, Request, Commands
<1>9. CASE handle_get_report1
  <2>1. Flags'
    BY <1>1, <1>9 DEF handle_get_report1, Flags
  <2> QED
    BY <1>1, <1>9, <2>1 DEF handle_get_report1, Commands
<1>10. CASE NoRequest
  <2>1. Flags'
    BY <1>1, <1>10 DEF NoRequest, Flags
  <2> QED
    BY <1>1, <1>10, <2>1 DEF NoRequest
<1>11. CASE ApplyPending
  <2>1. Flags'
    BY <1>1, <1>11 DEF ApplyPending, Flags
  <2>2. pc' \in {"frame", "apply", "save", "program"}
    BY <1>11 DEF ApplyPending
  <2> QED
    BY <1>1, <1>11, <2>1, <2>2 DEF ApplyPending
<1>12. CASE RefuseToSave
  <2>1. Flags'
    BY <1>1, <1>12 DEF RefuseToSave, Flags
  <2> QED
    BY <1>1, <1>12, <2>1 DEF RefuseToSave
<1>13. CASE EraseFlash
  <2>1. Flags'
    BY <1>1, <1>13 DEF EraseFlash, Flags
  <2> QED
    BY <1>1, <1>13, <2>1 DEF EraseFlash
<1>14. CASE ProgramFlash
  <2>1. Flags'
    BY <1>1, <1>14 DEF ProgramFlash, Flags
  <2> QED
    BY <1>1, <1>14, <2>1 DEF ProgramFlash
<1>15. CASE Restart
  <2>1. Flags'
    BY <1>15 DEF Restart, Flags
  <2> QED
    BY <1>1, <1>15, <2>1 DEF Restart, Commands, SaveInv
<1>16. CASE UNCHANGED vars
  <2>1. Flags'
    BY <1>1, <1>16 DEF vars, Flags
  <2> QED
    BY <1>1, <1>16, <2>1 DEF vars
<1>17. Macros \subseteq Nat /\ Expressions \subseteq Nat
  BY ConfigAssumption DEF Macros, Expressions
<1> HIDE DEF Types
<1> QED
  BY <1>2, <1>3, <1>4, <1>5, <1>6, <1>7, <1>8, <1>9, <1>10, <1>11, <1>12, <1>13, <1>14, <1>15, <1>16, <1>17
     DEF Next, handle_set_report1, MainLoop

\* The requests that leave the flash and the configuration alone.
Harmless ==
  \/ \E i \in Macros : GET_PART("GET_MACRO", "macro", i)
  \/ \E i \in Expressions : GET_PART("GET_EXPRESSION", "expression", i)
  \/ \E i \in Macros : GET_INDEXED(i)
  \/ \E command \in {"INVALID_COMMAND", "SET_MONITOR_ENABLED"} : OTHER_COMMAND(command)
  \/ SUSPEND
  \/ RESUME
  \/ handle_get_report1

LEMMA HarmlessIs ==
  Harmless => /\ pc = "frame" /\ pc' = "apply"
              /\ last_config_command' # "PERSIST_CONFIG"
              /\ UNCHANGED <<config, flash, stored, need_to_persist_config, persist_config_return_code>>
<1> USE DEF saving, Request
<1>1. ASSUME NEW command \in {"GET_MACRO", "GET_EXPRESSION"}, NEW kind, NEW i, GET_PART(command, kind, i)
      PROVE  /\ pc = "frame" /\ pc' = "apply" /\ last_config_command' # "PERSIST_CONFIG"
             /\ UNCHANGED <<config, flash, stored, need_to_persist_config, persist_config_return_code>>
  BY <1>1 DEF GET_PART
<1>2. ASSUME NEW i, GET_INDEXED(i)
      PROVE  /\ pc = "frame" /\ pc' = "apply" /\ last_config_command' # "PERSIST_CONFIG"
             /\ UNCHANGED <<config, flash, stored, need_to_persist_config, persist_config_return_code>>
  BY <1>2 DEF GET_INDEXED
<1>3. ASSUME NEW command \in {"INVALID_COMMAND", "SET_MONITOR_ENABLED"}, OTHER_COMMAND(command)
      PROVE  /\ pc = "frame" /\ pc' = "apply" /\ last_config_command' # "PERSIST_CONFIG"
             /\ UNCHANGED <<config, flash, stored, need_to_persist_config, persist_config_return_code>>
  BY <1>3 DEF OTHER_COMMAND
<1>4. ASSUME SUSPEND \/ RESUME \/ handle_get_report1
      PROVE  /\ pc = "frame" /\ pc' = "apply" /\ last_config_command' # "PERSIST_CONFIG"
             /\ UNCHANGED <<config, flash, stored, need_to_persist_config, persist_config_return_code>>
  BY <1>4 DEF SUSPEND, RESUME, handle_get_report1
<1> QED
  BY <1>1, <1>2, <1>3, <1>4 DEF Harmless

LEMMA NextIs ==
  Next <=> \/ EditRequest
           \/ Harmless
           \/ PERSIST_CONFIG
           \/ NoRequest
           \/ ApplyPending
           \/ RefuseToSave
           \/ EraseFlash
           \/ ProgramFlash
           \/ Restart
  BY DEF Next, handle_set_report1, MainLoop, Harmless

\* The save and its answer: one step after another.
LEMMA SaveStep ==
  TypeOK /\ SaveInv /\ SuccessIsSaved /\ [Next]_vars => SaveInv' /\ SuccessIsSaved'
<1> SUFFICES ASSUME TypeOK, SaveInv, SuccessIsSaved, [Next]_vars PROVE SaveInv' /\ SuccessIsSaved'
  OBVIOUS
<1> USE DEF commands, loop, saving, history, SaveInv, SuccessIsSaved
<1>1. config \in Configs
  BY DEF TypeOK
<1>2. CASE EditRequest
  <2>1. PICK command \in EditCommands, c \in Configs : Edit(command, c)
    BY <1>2, EditIs
  <2>2. command # "PERSIST_CONFIG"
    BY DEF EditCommands
  <2> QED
    BY <2>1, <2>2 DEF Edit, Request
<1>3. CASE Harmless
  BY <1>3, HarmlessIs
<1>4. CASE PERSIST_CONFIG
  BY <1>4 DEF PERSIST_CONFIG, Request
<1>5. CASE NoRequest
  BY <1>5 DEF NoRequest
<1>6. CASE ApplyPending
  <2>1. /\ UNCHANGED <<config, flash, last_config_command, need_to_persist_config,
                       persist_config_return_code, stored>>
        /\ pc' \in {"save", "frame"} /\ (pc' = "save" => need_to_persist_config)
    BY <1>6 DEF ApplyPending
  <2> QED
    BY <2>1
<1>7. CASE RefuseToSave
  BY <1>7 DEF RefuseToSave
<1>8. CASE EraseFlash
  <2>1. Loaded(Blank) \subseteq Configs
    BY DefaultsType DEF Loaded
  <2> QED
    BY <1>1, <1>8, <2>1 DEF EraseFlash
<1>9. CASE ProgramFlash
  <2>1. flash' = Image(config) /\ config' = config /\ stored' = stored /\ stored = config
    BY <1>9 DEF ProgramFlash
  <2>2. /\ Loaded(Image(config)) \subseteq Configs
        /\ LengthsFit(config) => Loaded(Image(config)) = {config}
    BY <1>1, ImageIsLoaded
  <2> QED
    BY <1>1, <1>9, <2>1, <2>2 DEF ProgramFlash
<1>10. CASE Restart
  BY <1>10 DEF Restart
<1>11. CASE UNCHANGED vars
  BY <1>11 DEF vars
<1> QED
  BY <1>2, <1>3, <1>4, <1>5, <1>6, <1>7, <1>8, <1>9, <1>10, <1>11, NextIs

\* Power that fails leaves what was saved last, or nothing.
LEMMA RestoredStep ==
  SaveInv /\ [Next]_vars =>
    [Restart => IF flash = Blank THEN config' = Defaults ELSE LengthsFit(stored) => config' = stored]_vars
<1> SUFFICES ASSUME SaveInv, Restart
             PROVE  IF flash = Blank THEN config' = Defaults ELSE LengthsFit(stored) => config' = stored
  OBVIOUS
<1>1. CASE flash = Blank
  BY <1>1 DEF Restart, Loaded
<1>2. CASE flash # Blank
  BY <1>2 DEF Restart, SaveInv
<1> QED
  BY <1>1, <1>2

\* Nothing is changed but by a client that has suspended the mapping.
LEMMA LoopStep == TypeOK /\ LoopInv /\ [Next]_vars => LoopInv'
<1> SUFFICES ASSUME TypeOK, LoopInv, [Next]_vars PROVE LoopInv'
  OBVIOUS
<1> USE DEF commands, loop, saving, history, LoopInv, Request
<1>1. Flags
  BY TypeParts
<1>2. CASE EditRequest
  <2>1. PICK command \in EditCommands, c \in Configs : Edit(command, c)
    BY <1>2, EditIs
  <2>2. /\ editing /\ UNCHANGED <<suspended, resume_pending, config_updated, editing>>
        /\ pc = "frame"
    BY <2>1 DEF Edit
  <2> QED
    BY <2>2
<1>3. ASSUME NEW command, NEW kind, NEW i, GET_PART(command, kind, i) PROVE LoopInv'
  BY <1>3 DEF GET_PART
<1>4. ASSUME NEW i, GET_INDEXED(i) PROVE LoopInv'
  BY <1>4 DEF GET_INDEXED
<1>5. ASSUME NEW command, OTHER_COMMAND(command) PROVE LoopInv'
  BY <1>5 DEF OTHER_COMMAND
<1>6. CASE SUSPEND
  BY <1>6 DEF SUSPEND
<1>7. CASE RESUME
  BY <1>7 DEF RESUME
<1>8. CASE handle_get_report1
  BY <1>8 DEF handle_get_report1
<1>9. CASE PERSIST_CONFIG
  BY <1>9 DEF PERSIST_CONFIG
<1>10. CASE NoRequest
  BY <1>10 DEF NoRequest
<1>11. CASE ApplyPending
  <2>1. /\ ~resume_pending' /\ ~config_updated' /\ editing' = editing
        /\ (suspended /\ ~resume_pending => suspended')
        /\ (uncompiled' => uncompiled /\ ~config_updated)
    BY <1>1, <1>11, Zenon DEF ApplyPending, Flags
  <2> QED
    BY <2>1
<1>12. CASE RefuseToSave
  BY <1>12 DEF RefuseToSave
<1>13. CASE EraseFlash
  BY <1>13 DEF EraseFlash
<1>14. CASE ProgramFlash
  BY <1>14 DEF ProgramFlash
<1>15. CASE Restart
  BY <1>15 DEF Restart
<1>16. CASE UNCHANGED vars
  BY <1>16 DEF vars
<1> QED
  BY <1>2, <1>3, <1>4, <1>5, <1>6, <1>7, <1>8, <1>9, <1>10, <1>11, <1>12, <1>13, <1>14, <1>15, <1>16, NextIs
     DEF Harmless

LEMMA JoinedType == ASSUME NEW entries \in Seq(Seq(Keys)) PROVE Joined(entries) \in Seq(Items)
<1>1. CASE entries = << >>
  BY <1>1, NoEntries, EmptySeq
<1>2. CASE entries # << >>
  BY <1>2, SeparatedIs
<1> QED
  BY <1>1, <1>2

LEMMA WholeType ==
  ASSUME TypeOK, NEW d \in Parts
  PROVE  Whole(d) \in Seq(Items \cup AllElements)
<1>1. config.macros \in [Macros -> Seq(Seq(Keys))] /\ config.expressions \in [Expressions -> Seq(AllElements)]
  BY DEF TypeOK, Configs
<1>2. CASE d.kind = "macro"
  <2>1. d.index \in Macros
    BY <1>2 DEF Parts
  <2>2. Joined(config.macros[d.index]) \in Seq(Items)
    BY <2>1, <1>1, JoinedType
  <2> QED
    BY <2>2, <1>2, SeqMonotonic DEF Whole
<1>3. CASE d.kind # "macro"
  <2>1. d.index \in Expressions
    BY <1>3 DEF Parts
  <2>2. config.expressions[d.index] \in Seq(AllElements)
    BY <2>1, <1>1
  <2> QED
    BY <2>2, <1>3, SeqMonotonic DEF Whole
<1> QED
  BY <1>2, <1>3

\* An answer is the next piece of the whole, and the last one is known for it.
LEMMA AnswerIs ==
  ASSUME TypeOK, DownloadInv, download # None, last_config_command \in {"GET_MACRO", "GET_EXPRESSION"}
  PROVE  \E m \in Len(download.items) .. Len(Whole(download)) :
           /\ Answer = SubSeq(Whole(download), Len(download.items) + 1, m)
           /\ Complete(Answer) => m = Len(Whole(download))
<1> DEFINE n == Len(download.items)
           W == Whole(download)
<1>1. /\ download \in Parts /\ n <= Len(W)
      /\ IsAskedFor(download, "GET_MACRO", "macro") /\ IsAskedFor(download, "GET_EXPRESSION", "expression")
  BY DEF DownloadInv, IsPart
<1>2. n \in Nat /\ Len(W) \in Nat
  <2>1. \E S : download.items \in Seq(S)
    BY <1>1 DEF Parts
  <2>2. W \in Seq(Items \cup AllElements)
    BY <1>1, WholeType
  <2> QED
    BY <2>1, <2>2, LenProperties
<1>3. config.macros \in [Macros -> Seq(Seq(Keys))] /\ config.expressions \in [Expressions -> Seq(AllElements)]
  BY DEF TypeOK, Configs
<1>4. CASE last_config_command = "GET_MACRO"
  <2> DEFINE entries == config.macros[requested_index]
             J == Joined(entries)
             L == Len(J)
             K == MACRO_ITEMS_IN_PACKET
             m == IF n + K <= L THEN n + K ELSE L
  <2>1. download.kind = "macro" /\ download.index = requested_index /\ n = requested_secondary_index
    BY <1>1, <1>4 DEF IsAskedFor
  <2>2. requested_index \in Macros
    BY <1>1, <2>1 DEF Parts
  <2>3. entries \in Seq(Seq(Keys))
    BY <1>3, <2>2
  <2>4. W = J
    BY <2>1 DEF Whole
  <2>5. Answer = MacroAnswer(entries, n)
    BY <2>1, <1>4 DEF Answer
  <2> HIDE DEF entries, n, W
  <2>6. J \in Seq(Items) /\ L \in Nat /\ n \in 0 .. L
    BY <2>3, <2>4, <1>1, <1>2, JoinedType
  <2>7. Answer = SubSeq(J, n + 1, m)
    BY <2>3, <2>5, <2>6, MacroAnswerIs
  <2>8. K \in Nat \ {0}
    BY ConfigAssumption
  <2> HIDE DEF J, K
  <2>9. m \in n .. L /\ (m # L => m - n = K)
    BY <2>6, <2>8
  <2> HIDE DEF m
  <2>10. Len(Answer) = m - n
    BY <2>6, <2>7, <2>9, <1>2, Piece
  <2>11. Complete(Answer) => m = L
    <3>1. Complete(Answer) <=> Len(Answer) < K
      BY <1>4 DEF Complete, K
    <3> HIDE DEF L
    <3> QED
      BY <3>1, <2>8, <2>9, <2>10
  <2> QED
    BY <2>4, <2>7, <2>9, <2>11 DEF n, W
<1>5. CASE last_config_command = "GET_EXPRESSION"
  <2> DEFINE elems == config.expressions[requested_index]
  <2>1. download.kind = "expression" /\ download.index = requested_index /\ n = requested_secondary_index
    BY <1>1, <1>5 DEF IsAskedFor
  <2>2. requested_index \in Expressions
    BY <1>1, <2>1 DEF Parts
  <2>3. elems \in Seq(AllElements)
    BY <1>3, <2>2
  <2>4. W = elems
    BY <2>1 DEF Whole
  <2>5. Answer = ExprAnswer(elems, n)
    BY <2>1, <1>5 DEF Answer
  <2>6. Complete(Answer) <=> Answer = << >>
    BY <1>5 DEF Complete
  <2> HIDE DEF elems, n, W
  <2>7. Len(elems) \in Nat /\ n \in 0 .. Len(elems)
    BY <2>4, <1>1, <1>2
  <2>8. PICK m \in n .. Len(elems) : Answer = SubSeq(elems, n + 1, m) /\ (m = n => n = Len(elems))
    BY <2>3, <2>5, <2>7, ExprAnswerIs
  <2>9. Len(Answer) = m - n
    BY <2>3, <2>7, <2>8, <1>2, Piece
  <2>10. Answer = << >> => m = Len(elems)
    <3>1. Len(<< >>) = 0
      BY EmptySeq
    <3> QED
      BY <3>1, <2>7, <2>8, <2>9
  <2> QED
    BY <2>4, <2>6, <2>8, <2>10 DEF n, W
<1> QED
  BY <1>4, <1>5

\* What neither answers nor asks for a part leaves what has been read.
LEMMA DownloadKept ==
  ASSUME DownloadInv, UNCHANGED <<config, download>>,
         \/ UNCHANGED <<last_config_command, requested_index, requested_secondary_index>>
         \/ last_config_command' \notin {"GET_MACRO", "GET_EXPRESSION"}
  PROVE  DownloadInv'
  BY DEF DownloadInv, IsPart, IsAskedFor, Whole

\* A request to go on is for what follows; another one is for the beginning.
LEMMA DownloadAsked ==
  ASSUME TypeOK, DownloadInv, NEW command, NEW kind, NEW i,
         \/ command = "GET_MACRO" /\ kind = "macro" /\ i \in Macros
         \/ command = "GET_EXPRESSION" /\ kind = "expression" /\ i \in Expressions,
         GET_PART(command, kind, i)
  PROVE  DownloadInv'
<1>1. /\ last_config_command' = command /\ requested_index' = i
      /\ requested_secondary_index' = Len(download'.items) /\ config' = config
      /\ download' = IF Continues(kind, i) THEN download
                     ELSE [kind |-> kind, index |-> i, items |-> << >>, done |-> FALSE]
  BY DEF GET_PART, Request
<1>2. CASE Continues(kind, i)
  <2>1. download' = download /\ download # None /\ download.kind = kind /\ download.index = i /\ ~download.done
    BY <1>1, <1>2 DEF Continues
  <2>2. download \in Parts /\ IsPart(download)
    BY <2>1 DEF DownloadInv
  <2>3. download' \in Parts /\ IsPart(download)'
    BY <1>1, <2>1, <2>2 DEF IsPart, Whole
  <2>4. IsAskedFor(download, "GET_MACRO", "macro")' /\ IsAskedFor(download, "GET_EXPRESSION", "expression")'
    BY <1>1, <2>1 DEF IsAskedFor
  <2> QED
    BY <2>3, <2>4 DEF DownloadInv
<1>3. CASE ~Continues(kind, i)
  <2> DEFINE d == [kind |-> kind, index |-> i, items |-> << >>, done |-> FALSE]
  <2>1. download' = d
    BY <1>1, <1>3
  <2>2. d \in Parts
    <3>1. << >> \in Seq(Items) /\ << >> \in Seq(AllElements)
      BY EmptySeq
    <3> QED
      BY <3>1 DEF Parts, Items
  <2>3. d.items = << >> /\ d.kind = kind /\ d.index = i /\ ~d.done
    OBVIOUS
  <2> HIDE DEF d
  <2>4. Whole(d) \in Seq(Items \cup AllElements)
    BY <2>2, WholeType
  <2>5. IsPart(d)
    <3> DEFINE w == Whole(d)
    <3>1. Len(w) \in Nat /\ Len(<< >>) = 0
      BY <2>4, LenProperties
    <3>2. SubSeq(w, 1, 0) = << >>
      BY SubSeqEmpty
    <3> HIDE DEF w
    <3>3. 0 <= Len(w)
      BY <3>1
    <3> QED
      BY <2>3, <3>1, <3>2, <3>3 DEF IsPart, w
  <2>6. download' \in Parts /\ IsPart(download)'
    BY <1>1, <2>1, <2>2, <2>5 DEF IsPart, Whole
  <2>7. IsAskedFor(download, "GET_MACRO", "macro")' /\ IsAskedFor(download, "GET_EXPRESSION", "expression")'
    BY <1>1, <2>1, <2>3 DEF IsAskedFor
  <2> QED
    BY <2>6, <2>7 DEF DownloadInv
<1> QED
  BY <1>2, <1>3

\* What is answered is what comes next, and the client has all of it when it says so.
LEMMA DownloadAnswered ==
  ASSUME TypeOK, DownloadInv, handle_get_report1
  PROVE  DownloadInv'
<1>1. last_config_command' = "NO_COMMAND" /\ config' = config
  BY DEF handle_get_report1
<1>2. CASE ~(last_config_command \in {"GET_MACRO", "GET_EXPRESSION"} /\ download # None)
  <2>1. download' = download
    BY <1>2 DEF handle_get_report1
  <2> QED
    BY <1>1, <2>1, DownloadKept
<1>3. CASE last_config_command \in {"GET_MACRO", "GET_EXPRESSION"} /\ download # None
  <2> DEFINE W == Whole(download)
             items == download.items
             n == Len(items)
             T == Items \cup AllElements
             more == Answer
             last == Complete(Answer)
  <2>1. download' = [download EXCEPT !.items = items \o more, !.done = last]
    BY <1>3 DEF handle_get_report1
  <2>2. download \in Parts /\ n <= Len(W) /\ items = SubSeq(W, 1, n)
    BY <1>3 DEF DownloadInv, IsPart
  <2>3. PICK m \in n .. Len(W) : more = SubSeq(W, n + 1, m) /\ (last => m = Len(W))
    BY <1>3, AnswerIs
  <2>4. W \in Seq(T) /\ Len(W) \in Nat /\ n \in Nat
    <3>1. \E S : download.items \in Seq(S)
      BY <2>2 DEF Parts
    <3>2. W \in Seq(T)
      BY <2>2, WholeType
    <3> QED
      BY <3>1, <3>2, LenProperties
  <2>5. last \in BOOLEAN
    <3> HIDE DEF more
    <3>1. (Len(more) < MACRO_ITEMS_IN_PACKET) \in BOOLEAN /\ (more = << >>) \in BOOLEAN
      BY SMT
    <3>2. last = IF last_config_command = "GET_MACRO" THEN Len(more) < MACRO_ITEMS_IN_PACKET ELSE more = << >>
      BY DEF Complete, more
    <3> QED
      BY <3>1, <3>2, Zenon
  <2> HIDE DEF W, items, n, more, last
  <2>6. n \in 0 .. Len(W) /\ m \in Nat /\ m <= Len(W)
    BY <2>2, <2>3, <2>4
  <2>7. items \o more = SubSeq(W, 1, m)
    BY <2>2, <2>3, <2>4, <2>6, NextPiece
  <2>8. Len(SubSeq(W, 1, m)) = m
    <3>1. 0 \in Nat /\ m \in 0 .. Len(W) /\ 0 + 1 = 1 /\ m - 0 = m
      BY <2>6
    <3>2. Len(SubSeq(W, 0 + 1, m)) = m - 0
      BY <2>4, <3>1, Piece
    <3> QED
      BY <3>1, <3>2
  <2>9. last => SubSeq(W, 1, m) = W
    BY <2>3, <2>4, SubSeqFull
  <2> DEFINE d == [download EXCEPT !.items = items \o more, !.done = last]
  <2>10. d.kind = download.kind /\ d.index = download.index /\ d.items = items \o more /\ d.done = last
    BY <2>2 DEF Parts
  <2>11. d \in Parts
    <3>1. CASE download.kind = "macro"
      <4>1. download \in [kind : {"macro"}, index : Macros, items : Seq(Keys \cup {0}), done : BOOLEAN]
        BY <2>2, <3>1 DEF Parts
      <4>2. W \in Seq(Keys \cup {0})
        <5>1. Joined(config.macros[download.index]) \in Seq(Items)
          BY <4>1, JoinedType DEF TypeOK, Configs
        <5> QED
          BY <5>1, <3>1 DEF W, Whole, Items
      <4>3. SubSeq(W, 1, m) \in Seq(Keys \cup {0})
        <5>1. 0 \in Nat /\ m \in 0 .. Len(W) /\ 0 + 1 = 1
          BY <2>6
        <5>2. SubSeq(W, 0 + 1, m) \in Seq(Keys \cup {0})
          BY <4>2, <5>1, Piece
        <5> QED
          BY <5>1, <5>2
      <4>4. items \o more \in Seq(Keys \cup {0})
        BY <2>7, <4>3
      <4> HIDE DEF T
      <4>5. d \in [kind : {"macro"}, index : Macros, items : Seq(Keys \cup {0}), done : BOOLEAN]
        BY <4>1, <4>4, <2>5
      <4> QED
        BY <4>5 DEF Parts
    <3>2. CASE download.kind # "macro"
      <4>1. download \in [kind : {"expression"}, index : Expressions, items : Seq(AllElements), done : BOOLEAN]
        BY <2>2, <3>2 DEF Parts
      <4>2. W \in Seq(AllElements)
        <5>1. config.expressions[download.index] \in Seq(AllElements)
          BY <4>1 DEF TypeOK, Configs
        <5> QED
          BY <5>1, <3>2 DEF W, Whole
      <4>3. SubSeq(W, 1, m) \in Seq(AllElements)
        <5>1. 0 \in Nat /\ m \in 0 .. Len(W) /\ 0 + 1 = 1
          BY <2>6
        <5>2. SubSeq(W, 0 + 1, m) \in Seq(AllElements)
          BY <4>2, <5>1, Piece
        <5> QED
          BY <5>1, <5>2
      <4>4. items \o more \in Seq(AllElements)
        BY <2>7, <4>3
      <4> HIDE DEF T
      <4>5. d \in [kind : {"expression"}, index : Expressions, items : Seq(AllElements), done : BOOLEAN]
        BY <4>1, <4>4, <2>5
      <4> QED
        BY <4>5 DEF Parts
    <3> QED
      BY <3>1, <3>2
  <2> HIDE DEF d
  <2>12. Whole(d) = W
    BY <2>10 DEF Whole, W
  <2>13. IsPart(d)
    BY <2>6, <2>7, <2>8, <2>9, <2>10, <2>12 DEF IsPart
  <2>14. download' = d
    BY <2>1 DEF d
  <2>15. download' \in Parts /\ IsPart(download)'
    BY <1>1, <2>11, <2>13, <2>14 DEF IsPart, Whole
  <2> QED
    BY <1>1, <2>15 DEF DownloadInv, IsAskedFor
<1> QED
  BY <1>2, <1>3

LEMMA DownloadStep == TypeOK /\ DownloadInv /\ [Next]_vars => DownloadInv'
<1> SUFFICES ASSUME TypeOK, DownloadInv, [Next]_vars PROVE DownloadInv'
  OBVIOUS
<1> USE DEF commands, loop, saving, history, Request
<1>1. CASE EditRequest
  <2>1. PICK command \in EditCommands, c \in Configs : Edit(command, c)
    BY <1>1, EditIs
  <2>2. download' = None
    BY <2>1 DEF Edit
  <2> QED
    BY <2>2 DEF DownloadInv
<1>2. ASSUME NEW i \in Macros, GET_PART("GET_MACRO", "macro", i) PROVE DownloadInv'
  BY <1>2, DownloadAsked
<1>3. ASSUME NEW i \in Expressions, GET_PART("GET_EXPRESSION", "expression", i) PROVE DownloadInv'
  BY <1>3, DownloadAsked
<1>4. ASSUME NEW i, GET_INDEXED(i) PROVE DownloadInv'
  BY <1>4, DownloadKept DEF GET_INDEXED
<1>5. ASSUME NEW command \in {"INVALID_COMMAND", "SET_MONITOR_ENABLED"}, OTHER_COMMAND(command)
      PROVE DownloadInv'
  BY <1>5, DownloadKept DEF OTHER_COMMAND
<1>6. CASE SUSPEND
  BY <1>6, DownloadKept DEF SUSPEND
<1>7. CASE RESUME
  BY <1>7, DownloadKept DEF RESUME
<1>8. CASE PERSIST_CONFIG
  BY <1>8, DownloadKept DEF PERSIST_CONFIG
<1>9. CASE handle_get_report1
  BY <1>9, DownloadAnswered
<1>10. CASE NoRequest
  BY <1>10, DownloadKept DEF NoRequest
<1>11. CASE ApplyPending
  BY <1>11, DownloadKept DEF ApplyPending
<1>12. CASE RefuseToSave
  BY <1>12, DownloadKept DEF RefuseToSave
<1>13. CASE EraseFlash
  BY <1>13, DownloadKept DEF EraseFlash
<1>14. CASE ProgramFlash
  BY <1>14, DownloadKept DEF ProgramFlash
<1>15. CASE Restart
  BY <1>15 DEF Restart, DownloadInv
<1>16. CASE UNCHANGED vars
  BY <1>16, DownloadKept DEF vars
<1> QED
  BY <1>1, <1>2, <1>3, <1>4, <1>5, <1>6, <1>7, <1>8, <1>9, <1>10, <1>11, <1>12, <1>13, <1>14, <1>15,
        <1>16, NextIs
     DEF Harmless

-----------------------------------------------------------------------------
(* Theorems of the specification.                                          *)

LEMMA IInvStep == IInv /\ [Next]_vars => IInv'
<1> SUFFICES ASSUME IInv, [Next]_vars PROVE IInv'
  OBVIOUS
<1>1. TypeOK /\ SaveInv /\ LoopInv /\ DownloadInv /\ SuccessIsSaved
  BY DEF IInv
<1> QED
  BY <1>1, TypeStep, SaveStep, LoopStep, DownloadStep DEF IInv

LEMMA AlwaysIInv == ASSUME OldSectorsAreRead PROVE Spec => []IInv
  BY InitIInv, IInvStep, PTL DEF Spec

\* Types: whatever is asked for in whatever order, and wherever the power fails, the board
\* has a configuration.
THEOREM TypeCorrect == ASSUME OldSectorsAreRead PROVE Spec => []TypeOK
<1>1. IInv => TypeOK
  BY DEF IInv
<1> QED
  BY <1>1, AlwaysIInv, PTL

\* A client that is told SUCCESS can pull the plug, if the loaders of the sectors of older
\* firmware are right, and if every length of the configuration fits its byte: what
\* handle_get_report1 answers is about the configuration of now.
THEOREM SuccessIsAlwaysSaved == ASSUME OldSectorsAreRead PROVE Spec => []SuccessIsSaved
<1>1. IInv => SuccessIsSaved
  BY DEF IInv
<1> QED
  BY <1>1, AlwaysIInv, PTL

\* The board starts with what was saved last (load_config), or, only after a save the power
\* has interrupted, with the defaults: under the same assumption, and but for a macro or an
\* entry that was longer than its byte can say.
THEOREM StartsWithTheSaved == ASSUME OldSectorsAreRead PROVE Spec => RestoredAtStart
<1>1. IInv /\ [Next]_vars =>
        [Restart => IF flash = Blank THEN config' = Defaults ELSE LengthsFit(stored) => config' = stored]_vars
  BY RestoredStep DEF IInv
<1> QED
  BY <1>1, AlwaysIInv, PTL DEF RestoredAtStart, Spec

\* ConfigInv of every state: the types; a macro or an expression a client has read packet by
\* packet (GET_MACRO, GET_EXPRESSION) is the one the board has; and no frame runs on mappings
\* or expressions that were not compiled.
THEOREM ConfigIsSafe == ASSUME OldSectorsAreRead PROVE Spec => []ConfigInv
<1>1. IInv => ConfigInv
  <2> SUFFICES ASSUME IInv PROVE ConfigInv
    OBVIOUS
  <2>1. TypeOK /\ LoopInv /\ DownloadInv
    BY DEF IInv
  <2>2. FrameIsCompiled
    BY <2>1 DEF FrameIsCompiled, LoopInv
  <2>3. DownloadIsWhole
    BY <2>1 DEF DownloadIsWhole, DownloadInv, IsPart, Whole
  <2> QED
    BY <2>1, <2>2, <2>3 DEF ConfigInv
<1> QED
  BY <1>1, AlwaysIInv, PTL

=============================================================================
