---------------------------- MODULE SequenceFacts ----------------------------
(* Induction over numbers, what recursive functions on sequences are, and     *)
(* where the parts of a concatenation are: what the proofs about messages and *)
(* data rest on.                                                              *)
EXTENDS Integers, Sequences, SequencesExt, SequenceTheorems, WellFoundedInduction, TLAPS

(* A set that has 0, and with each number the next, has all of them.          *)
LEMMA Induction ==
    ASSUME NEW P, 0 \in P, \A n \in Nat : n \in P => n + 1 \in P
    PROVE  Nat \subseteq P
  <1> DEFINE T == Nat \ P
  <1> DEFINE R == {ss \in Nat \X Nat : ss[1] < ss[2]}
  <1>1. SUFFICES ASSUME T # {} PROVE FALSE
    OBVIOUS
  <1>2. IsWellFoundedOn(R, Nat)
    BY NatLessThanWellFounded DEF OpToRel
  <1>3. PICK x \in T : \A y \in T : <<y, x>> \notin R
    <2> HIDE DEF T, R
    <2>1. T \subseteq Nat
      BY DEF T
    <2> QED BY <1>1, <1>2, <2>1, WFMin
  <1>4. x # 0 /\ x \in Nat
    OBVIOUS
  <1>5. x - 1 \in Nat /\ x - 1 < x
    BY <1>4
  <1>6. x - 1 \in P
    BY <1>3, <1>5
  <1> QED BY <1>4, <1>5, <1>6

(* There is a function with this first value and these steps.                 *)
Defined(T, n, base, step) ==
    \E f \in [0 .. n -> T] : f[0] = base /\ \A i \in 1 .. n : f[i] = step[i][f[i - 1]]

LEMMA DefinedIs ==
    ASSUME NEW T, NEW n, NEW base, NEW step, Defined(T, n, base, step)
    PROVE  \E f \in [0 .. n -> T] : f[0] = base /\ \A i \in 1 .. n : f[i] = step[i][f[i - 1]]
  BY DEF Defined

LEMMA Recursion ==
    ASSUME NEW T, NEW n \in Nat, NEW base \in T, NEW step \in [1 .. n -> [T -> T]]
    PROVE  Defined(T, n, base, step)
  <1> DEFINE Is(f, m) == /\ f \in [0 .. m -> T] /\ f[0] = base
                         /\ \A i \in 1 .. m : f[i] = step[i][f[i - 1]]
  <1> DEFINE P == {m \in Nat : m <= n => \E f : Is(f, m)}
  <1>1. 0 \in P
    <2>1. Is([i \in 0 .. 0 |-> base], 0)
      OBVIOUS
    <2> QED BY <2>1
  <1>2. ASSUME NEW m \in Nat, m \in P
        PROVE  m + 1 \in P
    <2>1. SUFFICES ASSUME m + 1 <= n PROVE \E g : Is(g, m + 1)
      BY <1>2
    <2>2. PICK f : Is(f, m)
      BY <1>2, <2>1
    <2>3. m + 1 \in 1 .. n /\ m \in 0 .. m
      BY <2>1
    <2>4. step[m + 1][f[m]] \in T
      BY <2>2, <2>3
    <2> DEFINE g == [i \in 0 .. m + 1 |-> IF i = m + 1 THEN step[m + 1][f[m]] ELSE f[i]]
    <2>5. g \in [0 .. m + 1 -> T] /\ g[0] = base
      BY <2>2, <2>4
    <2>6. ASSUME NEW i \in 1 .. m + 1
          PROVE  g[i] = step[i][g[i - 1]]
      <3>1. CASE i = m + 1
        BY <3>1
      <3>2. CASE i # m + 1
        <4>1. i \in 1 .. m /\ i \in 0 .. m + 1 /\ i - 1 \in 0 .. m + 1 /\ i - 1 # m + 1
          BY <3>2
        <4>2. g[i] = f[i] /\ g[i - 1] = f[i - 1]
          BY <3>2, <4>1
        <4> QED BY <2>2, <4>1, <4>2
      <3> QED BY <3>1, <3>2
    <2> HIDE DEF g
    <2> QED BY <2>5, <2>6
  <1> HIDE DEF P
  <1>3. n \in P
    BY <1>1, <1>2, Induction
  <1> QED BY <1>3 DEF P, Defined

(* ... and there is only one.                                                 *)
LEMMA RecursionOnce ==
    ASSUME NEW T, NEW n \in Nat, NEW step \in [1 .. n -> [T -> T]],
           NEW m \in 0 .. n, NEW f \in [0 .. n -> T], NEW g \in [0 .. m -> T], f[0] = g[0],
           \A i \in 1 .. n : f[i] = step[i][f[i - 1]],
           \A i \in 1 .. m : g[i] = step[i][g[i - 1]]
    PROVE  \A i \in 0 .. m : f[i] = g[i]
  <1> DEFINE P == {i \in Nat : i <= m => f[i] = g[i]}
  <1>1. 0 \in P
    OBVIOUS
  <1>2. ASSUME NEW i \in Nat, i \in P
        PROVE  i + 1 \in P
    <2>1. SUFFICES ASSUME i + 1 <= m PROVE f[i + 1] = g[i + 1]
      OBVIOUS
    <2>2. i + 1 \in 1 .. m /\ i + 1 \in 1 .. n /\ (i + 1) - 1 = i
      BY <2>1
    <2>3. f[i] = g[i]
      BY <1>2, <2>1
    <2> QED BY <2>2, <2>3
  <1> HIDE DEF P
  <1>3. Nat \subseteq P
    BY <1>1, <1>2, Induction
  <1> QED BY <1>3 DEF P
-----------------------------------------------------------------------------
(* FlattenSeq *)

(* What the recursion in FlattenSeq goes through: the parts so far.           *)
Joining(S, seqs) == [i \in 1 .. Len(seqs) |-> [s \in Seq(S) |-> s \o seqs[i]]]

LEMMA JoiningType ==
    ASSUME NEW S, NEW seqs \in Seq(Seq(S))
    PROVE  /\ Len(seqs) \in Nat
           /\ Joining(S, seqs) \in [1 .. Len(seqs) -> [Seq(S) -> Seq(S)]]
           /\ <<>> \in Seq(S)
  <1>1. \A i \in 1 .. Len(seqs) : seqs[i] \in Seq(S)
    OBVIOUS
  <1> QED BY <1>1, ConcatProperties DEF Joining

LEMMA JoinStep ==
    ASSUME NEW S, NEW seqs \in Seq(Seq(S)), NEW i \in 1 .. Len(seqs),
           NEW f \in [0 .. Len(seqs) -> Seq(S)], f[i] = Joining(S, seqs)[i][f[i - 1]]
    PROVE  f[i] = f[i - 1] \o seqs[i]
  <1>1. i - 1 \in 0 .. Len(seqs)
    OBVIOUS
  <1>2. f[i - 1] \in Seq(S)
    BY <1>1
  <1> QED BY <1>2 DEF Joining

LEMMA FlattenJoins ==
    ASSUME NEW S, NEW seqs \in Seq(Seq(S)),
           NEW f \in [0 .. Len(seqs) -> Seq(S)], f[0] = <<>>,
           \A i \in 1 .. Len(seqs) : f[i] = Joining(S, seqs)[i][f[i - 1]]
    PROVE  FlattenSeq(seqs) = f[Len(seqs)]
  <1>0. \A i \in 1 .. Len(seqs) : f[i] = f[i - 1] \o seqs[i]
    BY JoinStep
  <1>1. CASE Len(seqs) = 0
    <2>1. seqs = <<>>
      BY <1>1, EmptySeq
    <2> QED BY <1>1, <2>1 DEF FlattenSeq
  <1>2. CASE Len(seqs) # 0
    <2> DEFINE n == Len(seqs)
               Is(g) == g = [i \in 1 .. n |-> IF i = 1 THEN seqs[i] ELSE g[i - 1] \o seqs[i]]
               flatten == CHOOSE g : Is(g)
    <2>1. Is([i \in 1 .. n |-> f[i]])
      <3> DEFINE h == [i \in 1 .. n |-> f[i]]
      <3>1. ASSUME NEW i \in 1 .. n
            PROVE  h[i] = IF i = 1 THEN seqs[i] ELSE h[i - 1] \o seqs[i]
        <4>1. f[i] = f[i - 1] \o seqs[i]
          BY <1>0
        <4>2. CASE i = 1
          <5>1. seqs[i] \in Seq(S)
            OBVIOUS
          <5>2. f[i - 1] = <<>>
            BY <4>2
          <5>3. f[i] = seqs[i]
            BY <4>1, <5>1, <5>2, ConcatEmptySeq
          <5> QED BY <4>2, <5>3
        <4>3. CASE i # 1
          <5>1. i - 1 \in 1 .. n
            BY <4>3
          <5> QED BY <4>1, <4>3, <5>1
        <4> QED BY <4>2, <4>3
      <3> QED BY <3>1
    <2>2. Is(flatten)
      BY <2>1
    <2>3. FlattenSeq(seqs) = flatten[n]
      BY <1>2 DEF FlattenSeq
    <2> DEFINE g == [i \in 0 .. n |-> IF i = 0 THEN <<>> ELSE flatten[i]]
    <2>4. n \in Nat /\ n # 0
      BY <1>2
    <2> HIDE DEF flatten, n
    <2> DEFINE P == {i \in Nat : i \in 1 .. n => flatten[i] = f[i]}
    <2>5. 0 \in P
      OBVIOUS
    <2>6. ASSUME NEW i \in Nat, i \in P
          PROVE  i + 1 \in P
      <3>1. SUFFICES ASSUME i + 1 \in 1 .. n PROVE flatten[i + 1] = f[i + 1]
        OBVIOUS
      <3>2. flatten[i + 1] = IF i + 1 = 1 THEN seqs[i + 1] ELSE flatten[(i + 1) - 1] \o seqs[i + 1]
        BY <2>2, <3>1
      <3>3. f[i + 1] = f[i] \o seqs[i + 1]
        <4>1. i + 1 \in 1 .. Len(seqs) /\ (i + 1) - 1 = i
          BY <3>1 DEF n
        <4> QED BY <1>0, <4>1
      <3>4. CASE i = 0
        <4>1. seqs[i + 1] \in Seq(S)
          BY <3>1 DEF n
        <4>2. f[i + 1] = seqs[i + 1]
          BY <3>3, <3>4, <4>1, ConcatEmptySeq
        <4> QED BY <3>2, <3>4, <4>2
      <3>5. CASE i # 0
        <4>1. i \in 1 .. n
          BY <2>4, <3>1, <3>5
        <4>2. i + 1 # 1 /\ (i + 1) - 1 = i
          BY <3>5
        <4> QED BY <2>6, <3>2, <3>3, <4>1, <4>2
      <3> QED BY <3>4, <3>5
    <2> HIDE DEF P
    <2>7. n \in P
      BY <2>4, <2>5, <2>6, Induction
    <2>8. flatten[n] = f[n]
      BY <2>4, <2>7 DEF P
    <2> QED BY <2>3, <2>8 DEF n
  <1> QED BY <1>1, <1>2
(* at[i] is where part number i ends: each part is where it should be.        *)
Ends(at, seqs) ==
    /\ at \in [0 .. Len(seqs) -> Nat] /\ at[0] = 0
    /\ \A i \in 1 .. Len(seqs) : at[i] = at[i - 1] + Len(seqs[i])

LEMMA Within ==
    ASSUME NEW a \in Nat, NEW b \in Nat, NEW c \in Nat, NEW l \in Nat, NEW k \in 1 .. l,
           b = a + l, b <= c
    PROVE  a + k <= c /\ a + k >= 1 /\ a + k \in Nat
  OBVIOUS

LEMMA FlattenParts ==
    ASSUME NEW S, NEW seqs \in Seq(Seq(S)), NEW at, Ends(at, seqs)
    PROVE  /\ FlattenSeq(seqs) \in Seq(S)
           /\ Len(FlattenSeq(seqs)) = at[Len(seqs)]
           /\ \A i \in 1 .. Len(seqs) :
                 /\ at[i - 1] \in Nat /\ at[i] \in Nat
                 /\ at[i - 1] <= at[i] /\ at[i] <= at[Len(seqs)]
                 /\ \A k \in 1 .. Len(seqs[i]) :
                       FlattenSeq(seqs)[at[i - 1] + k] = seqs[i][k]
  <1> DEFINE n == Len(seqs)
  <1>1. n \in Nat /\ \A i \in 1 .. n : seqs[i] \in Seq(S) /\ Len(seqs[i]) \in Nat
    OBVIOUS
  <1>2. PICK f \in [0 .. n -> Seq(S)] :
            f[0] = <<>> /\ \A i \in 1 .. n : f[i] = Joining(S, seqs)[i][f[i - 1]]
    <2> DEFINE T == Seq(S)
               base == <<>>
               step == Joining(S, seqs)
    <2>1. n \in Nat /\ step \in [1 .. n -> [T -> T]] /\ base \in T
      BY JoiningType
    <2> HIDE DEF n, T, base, step
    <2>2. Defined(T, n, base, step)
      BY <2>1, Recursion
    <2> QED BY <2>2 DEF Defined, T, base, step
  <1>3. \A i \in 1 .. n : f[i] = f[i - 1] \o seqs[i]
    BY <1>2, JoinStep
  <1>4. FlattenSeq(seqs) = f[n]
    BY <1>2, FlattenJoins
  <1> DEFINE Holds(m) ==
        /\ Len(f[m]) = at[m]
        /\ \A i \in 1 .. m :
              /\ at[i - 1] <= at[i] /\ at[i] <= at[m]
              /\ \A k \in 1 .. Len(seqs[i]) : f[m][at[i - 1] + k] = seqs[i][k]
             P == {m \in Nat : m <= n => Holds(m)}
  <1>5. at \in [0 .. n -> Nat] /\ at[0] = 0 /\ \A i \in 1 .. n : at[i] = at[i - 1] + Len(seqs[i])
    BY DEF Ends
  <1>6. 0 \in P
    BY <1>2, <1>5
  <1> HIDE DEF n
  <1>7. ASSUME NEW m \in Nat, m \in P
        PROVE  m + 1 \in P
    <2>1. SUFFICES ASSUME m + 1 <= n PROVE Holds(m + 1)
      OBVIOUS
    <2>2. /\ m + 1 \in 1 .. n /\ m \in 0 .. n /\ (m + 1) - 1 = m
          /\ seqs[m + 1] \in Seq(S) /\ f[m] \in Seq(S) /\ Len(seqs[m + 1]) \in Nat
          /\ at[m] \in Nat /\ at[m + 1] \in Nat
      <3>1. m + 1 \in 1 .. n /\ m \in 0 .. n /\ (m + 1) - 1 = m /\ m + 1 \in 0 .. n
        BY <1>1, <2>1
      <3> QED BY <1>1, <1>2, <1>5, <3>1
    <2>3. at[m + 1] = at[m] + Len(seqs[m + 1])
      BY <1>5, <2>2
    <2>4. f[m + 1] = f[m] \o seqs[m + 1]
      BY <1>3, <2>2
    <2>5. /\ Len(f[m + 1]) = Len(f[m]) + Len(seqs[m + 1])
          /\ \A j \in 1 .. Len(f[m]) + Len(seqs[m + 1]) :
                f[m + 1][j] = IF j <= Len(f[m]) THEN f[m][j] ELSE seqs[m + 1][j - Len(f[m])]
      BY <2>2, <2>4, ConcatProperties
    <2>6. Holds(m)
      BY <1>1, <1>7, <2>1
    <2>7. Len(f[m + 1]) = at[m + 1] /\ Len(f[m]) = at[m]
      BY <2>3, <2>5, <2>6
    <2>8. ASSUME NEW i \in 1 .. m + 1
          PROVE  /\ at[i - 1] <= at[i] /\ at[i] <= at[m + 1]
                 /\ \A k \in 1 .. Len(seqs[i]) : f[m + 1][at[i - 1] + k] = seqs[i][k]
      <3>1. CASE i = m + 1
        <4>1. at[i - 1] = at[m] /\ seqs[i] = seqs[m + 1] /\ at[i] = at[m + 1]
          BY <2>2, <3>1
        <4>2. ASSUME NEW k \in 1 .. Len(seqs[m + 1])
              PROVE  f[m + 1][at[m] + k] = seqs[m + 1][k]
          <5>1. at[m] + k \in 1 .. at[m] + Len(seqs[m + 1]) /\ ~(at[m] + k <= at[m])
                /\ (at[m] + k) - at[m] = k
            BY <2>2, SMTT(30)
          <5> QED BY <2>5, <2>7, <5>1
        <4>3. at[m] <= at[m + 1] /\ at[m + 1] <= at[m + 1]
          BY <2>2, <2>3
        <4>4. \A k \in 1 .. Len(seqs[i]) : f[m + 1][at[i - 1] + k] = seqs[i][k]
          BY <4>1, <4>2
        <4> QED BY <4>1, <4>3, <4>4
      <3>2. CASE i # m + 1
        <4>1. i \in 1 .. m /\ i \in 1 .. n /\ i \in 0 .. n /\ i - 1 \in 0 .. n
          BY <1>1, <2>1, <2>2, <3>2
        <4>2. at[i - 1] <= at[i] /\ at[i] <= at[m] /\ at[i - 1] \in Nat /\ at[i] \in Nat
              /\ at[i] = at[i - 1] + Len(seqs[i]) /\ Len(seqs[i]) \in Nat
          BY <1>1, <1>5, <2>6, <4>1
        <4>3. ASSUME NEW k \in 1 .. Len(seqs[i])
              PROVE  f[m + 1][at[i - 1] + k] = seqs[i][k]
          <5>1. at[i - 1] + k \in 1 .. at[m] + Len(seqs[m + 1]) /\ at[i - 1] + k <= at[m]
            <6>1. at[i - 1] + k <= at[m] /\ at[i - 1] + k >= 1 /\ at[i - 1] + k \in Nat
              BY <2>2, <4>2, Within
            <6> QED BY <2>2, <6>1
          <5>2. f[m + 1][at[i - 1] + k] = f[m][at[i - 1] + k]
            BY <2>5, <2>7, <5>1
          <5> QED BY <2>6, <4>1, <5>2
        <4> QED BY <2>2, <2>3, <4>2, <4>3, SMTT(30)
      <3> QED BY <3>1, <3>2
    <2> QED BY <2>7, <2>8
  <1> HIDE DEF P
  <1>8. n \in P
    BY <1>1, <1>6, <1>7, Induction DEF n
  <1>9. Holds(n)
    BY <1>1, <1>8 DEF P
  <1>10. \A i \in 1 .. n : at[i - 1] \in Nat /\ at[i] \in Nat
    <2>1. ASSUME NEW i \in 1 .. n
          PROVE  i \in 0 .. n /\ i - 1 \in 0 .. n
      BY <1>1
    <2> QED BY <1>5, <2>1
  <1>11. f[n] \in Seq(S)
    BY <1>1, <1>2
  <1> QED BY <1>4, <1>9, <1>10, <1>11 DEF n
-----------------------------------------------------------------------------
(* Places in sequences *)

(* A function from 1 .. n is a sequence of that length.                       *)
LEMMA FunctionIsSeq ==
    ASSUME NEW S, NEW n \in Nat, NEW f \in [1 .. n -> S]
    PROVE  f \in Seq(S) /\ Len(f) = n
  <1>1. f \in Seq(S)
    BY SeqDef
  <1>2. DOMAIN f = 1 .. Len(f) /\ DOMAIN f = 1 .. n /\ Len(f) \in Nat
    BY <1>1, LenProperties
  <1> QED BY <1>1, <1>2

LEMMA Concat ==
    ASSUME NEW S, NEW s \in Seq(S), NEW t \in Seq(S)
    PROVE  /\ s \o t \in Seq(S)
           /\ Len(s) \in Nat /\ Len(t) \in Nat
           /\ Len(s \o t) = Len(s) + Len(t)
           /\ \A i \in 1 .. Len(s) : (s \o t)[i] = s[i]
           /\ \A i \in 1 .. Len(t) : (s \o t)[Len(s) + i] = t[i]
  <1>1. Len(s) \in Nat /\ Len(t) \in Nat
    OBVIOUS
  <1>2. ASSUME NEW i \in 1 .. Len(t)
        PROVE  (s \o t)[Len(s) + i] = t[i]
    <2>1. Len(s) + i \in 1 .. Len(s) + Len(t) /\ ~(Len(s) + i <= Len(s)) /\ (Len(s) + i) - Len(s) = i
      BY <1>1
    <2> QED BY <2>1, ConcatProperties
  <1>3. ASSUME NEW i \in 1 .. Len(s)
        PROVE  (s \o t)[i] = s[i]
    <2>1. i \in 1 .. Len(s) + Len(t) /\ i <= Len(s)
      BY <1>1
    <2> QED BY <2>1, ConcatProperties
  <1> QED BY <1>1, <1>2, <1>3, ConcatProperties

(* The slice that starts behind m and has the elements of t is t.             *)
LEMMA Slice ==
    ASSUME NEW S, NEW u \in Seq(S), NEW t \in Seq(S), NEW m \in Nat,
           m + Len(t) <= Len(u), \A k \in 1 .. Len(t) : u[m + k] = t[k]
    PROVE  SubSeq(u, m + 1, m + Len(t)) = t
  <1>1. Len(t) \in Nat /\ Len(u) \in Nat
    OBVIOUS
  <1>2. ASSUME NEW i \in m + 1 .. m + Len(t)
        PROVE  u[i] \in S
    <2>1. i \in 1 .. Len(u)
      BY <1>1
    <2> QED BY <2>1
  <1>3. /\ SubSeq(u, m + 1, m + Len(t)) \in Seq(S)
        /\ Len(SubSeq(u, m + 1, m + Len(t))) = Len(t)
        /\ \A i \in 1 .. Len(t) : SubSeq(u, m + 1, m + Len(t))[i] = u[m + i]
    <2> DEFINE a == m + 1
               b == m + Len(t)
    <2>1. a \in Int /\ b \in Int /\ b - a + 1 = Len(t) /\ (a <= b <=> Len(t) # 0)
      BY <1>1
    <2>2. /\ SubSeq(u, a, b) \in Seq(S)
          /\ Len(SubSeq(u, a, b)) = IF a <= b THEN b - a + 1 ELSE 0
          /\ \A i \in 1 .. b - a + 1 : SubSeq(u, a, b)[i] = u[a + i - 1]
      BY <1>2, <2>1, SubSeqProperties
    <2>3. ASSUME NEW i \in 1 .. Len(t)
          PROVE  a + i - 1 = m + i
      BY <1>1
    <2> QED BY <2>1, <2>2, <2>3
  <1> QED BY <1>1, <1>3, SeqEqual
-----------------------------------------------------------------------------
\* Two functions whose steps agree as long as they do.
SameStep(f, g, n) == f[0] = g[0] /\ \A i \in 1 .. n : f[i - 1] = g[i - 1] => f[i] = g[i]

LEMMA SameSteps ==
    ASSUME NEW n \in Nat, NEW f, NEW g, SameStep(f, g, n)
    PROVE  \A i \in 0 .. n : f[i] = g[i]
  <1> DEFINE P == {i \in Nat : i <= n => f[i] = g[i]}
  <1>0. f[0] = g[0] /\ \A i \in 1 .. n : f[i - 1] = g[i - 1] => f[i] = g[i]
    BY DEF SameStep
  <1>1. 0 \in P
    BY <1>0
  <1>2. ASSUME NEW i \in Nat, i \in P
        PROVE  i + 1 \in P
    <2>1. CASE i + 1 <= n
      <3>1. i + 1 \in 1 .. n /\ (i + 1) - 1 = i /\ i <= n
        BY <2>1
      <3>2. f[i] = g[i]
        BY <1>2, <3>1
      <3> QED BY <1>0, <3>1, <3>2
    <2>2. CASE ~(i + 1 <= n)
      BY <2>2
    <2> QED BY <2>1, <2>2
  <1>3. \A i \in Nat : i \in P => i + 1 \in P
    BY <1>2
  <1> HIDE DEF P
  <1>4. Nat \subseteq P
    BY <1>1, <1>3, Induction
  <1>5. \A i \in 0 .. n : i \in Nat /\ i <= n
    OBVIOUS
  <1> QED BY <1>4, <1>5 DEF P

\* A beginning of a sequence with the next element.
LEMMA NextOfFront ==
    ASSUME NEW S, NEW s \in Seq(S), NEW i \in 1 .. Len(s)
    PROVE  SubSeq(s, 1, i - 1) \o <<s[i]>> = SubSeq(s, 1, i)
  <1> DEFINE a == SubSeq(s, 1, i - 1) \o <<s[i]>>
             b == SubSeq(s, 1, i)
  <1>1. Len(s) \in Nat /\ s[i] \in S /\ i \in Nat /\ i - 1 \in Nat
    OBVIOUS
  <1>2. /\ SubSeq(s, 1, i - 1) \in Seq(S) /\ Len(SubSeq(s, 1, i - 1)) = i - 1
        /\ \A k \in 1 .. i - 1 : SubSeq(s, 1, i - 1)[k] = s[k]
    BY <1>1
  <1>3. b \in Seq(S) /\ Len(b) = i /\ \A k \in 1 .. i : b[k] = s[k]
    BY <1>1
  <1> DEFINE f == SubSeq(s, 1, i - 1)
             e == <<s[i]>>
  <1>4. e \in Seq(S) /\ Len(e) = 1 /\ e[1] = s[i]
    BY <1>1
  <1> HIDE DEF f, e
  <1>5. /\ a \in Seq(S) /\ Len(a) = i /\ \A k \in 1 .. i : a[k] = s[k]
    <2>1. f \in Seq(S) /\ Len(f) = i - 1 /\ \A k \in 1 .. i - 1 : f[k] = s[k]
      BY <1>2 DEF f
    <2>2. /\ f \o e \in Seq(S) /\ Len(f \o e) = Len(f) + Len(e)
          /\ \A k \in 1 .. Len(f) : (f \o e)[k] = f[k]
          /\ \A k \in 1 .. Len(e) : (f \o e)[Len(f) + k] = e[k]
      <3>1. f \in Seq(S) /\ e \in Seq(S)
        BY <1>4, <2>1
      <3> QED BY <3>1, Concat
    <2> DEFINE g == f \o e
    <2>3. \A k \in 1 .. i - 1 : g[k] = s[k]
      BY <1>1, <2>1, <2>2
    <2>4. g[i] = s[i]
      <3>1. 1 \in 1 .. Len(e) /\ Len(f) + 1 = i
        BY <1>1, <1>4, <2>1
      <3> QED BY <1>4, <2>2, <3>1
    <2>5. g \in Seq(S) /\ Len(g) = i
      BY <1>1, <1>4, <2>1, <2>2
    <2> HIDE DEF g
    <2>6. \A k \in 1 .. i : k \in 1 .. i - 1 \/ k = i
      BY <1>1
    <2>7. \A k \in 1 .. i : g[k] = s[k]
      BY <2>3, <2>4, <2>6
    <2> QED BY <2>5, <2>7 DEF g, f, e
  <1>6. \A k \in 1 .. i : a[k] = b[k]
    BY <1>3, <1>5
  <1> HIDE DEF a, b
  <1>7. a = b
    BY <1>1, <1>3, <1>5, <1>6
  <1> QED BY <1>7 DEF a, b
-----------------------------------------------------------------------------
\* A set that has a number has a least one.
LEMMA Least ==
    ASSUME NEW P, NEW b \in Nat, b \in P
    PROVE  \E e \in Nat : e \in P /\ e <= b /\ \A i \in Nat : i < e => i \notin P
  <1> DEFINE Q == {n \in Nat : \/ \A i \in Nat : i < n => i \notin P
                               \/ \E e \in Nat : e \in P /\ e < n /\ \A i \in Nat : i < e => i \notin P}
  <1>1. 0 \in Q
    OBVIOUS
  <1>2. ASSUME NEW n \in Nat, n \in Q
        PROVE  n + 1 \in Q
    <2>1. CASE \E e \in Nat : e \in P /\ e < n /\ \A i \in Nat : i < e => i \notin P
      <3>1. PICK e \in Nat : e \in P /\ e < n /\ \A i \in Nat : i < e => i \notin P
        BY <2>1
      <3>2. e < n + 1
        BY <3>1
      <3> QED BY <3>1, <3>2
    <2>2. CASE \A i \in Nat : i < n => i \notin P
      <3>1. CASE n \in P
        <4>1. n < n + 1
          OBVIOUS
        <4> QED BY <2>2, <3>1, <4>1
      <3>2. CASE n \notin P
        <4>1. \A i \in Nat : i < n + 1 => i < n \/ i = n
          OBVIOUS
        <4>2. \A i \in Nat : i < n + 1 => i \notin P
          BY <2>2, <3>2, <4>1
        <4> QED BY <4>2
      <3> QED BY <3>1, <3>2
    <2> QED BY <1>2, <2>1, <2>2
  <1>3. \A n \in Nat : n \in Q => n + 1 \in Q
    BY <1>2
  <1> HIDE DEF Q
  <1>4. Nat \subseteq Q
    BY <1>1, <1>3, Induction
  <1>5. b + 1 \in Q /\ b < b + 1 /\ b + 1 \in Nat
    BY <1>4
  <1>6. \E e \in Nat : e \in P /\ e < b + 1 /\ \A i \in Nat : i < e => i \notin P
    BY <1>5 DEF Q
  <1>7. \A e \in Nat : e < b + 1 => e <= b
    OBVIOUS
  <1> QED BY <1>6, <1>7
=============================================================================
