---------------------------- MODULE MessageProofs ----------------------------
(***************************************************************************)
(* Proofs about CipMessage, for any tags, requests, replies and texts: what *)
(* MCSession evaluates for some of them.                                    *)
(***************************************************************************)
EXTENDS MessageChecks, SequenceFacts

Bytes == Seq(Byte)

-----------------------------------------------------------------------------
(* Numbers *)

LEMMA LowByte ==
    ASSUME NEW v \in Nat
    PROVE  /\ v % 256 \in Byte /\ v \div 256 \in Nat
           /\ (v % 256) + 256 * (v \div 256) = v
  BY DEF Byte

LEMMA HighByte ==
    ASSUME NEW v \in Nat, v < 65536
    PROVE  v \div 256 < 256 /\ (v \div 256) % 256 = v \div 256
  OBVIOUS

\* What fits into 16 bit is the same after it was packed.
LEMMA PackUINT ==
    ASSUME NEW v \in Nat, v < 65536
    PROVE  /\ pack_UINT(v) \in Bytes /\ Len(pack_UINT(v)) = 2
           /\ pack_UINT(v)[1] + 256 * pack_UINT(v)[2] = v
  <1>1. v % 256 \in Byte /\ (v \div 256) % 256 \in Byte
    BY LowByte
  <1>2. (v % 256) + 256 * ((v \div 256) % 256) = v
    BY LowByte, HighByte
  <1> QED BY <1>1, <1>2 DEF pack_UINT, Bytes

\* ... wherever it is.
LEMMA UnpackUINT ==
    ASSUME NEW v \in Nat, v < 65536, NEW buf, NEW at \in Nat,
           buf[at] = pack_UINT(v)[1], buf[at + 1] = pack_UINT(v)[2]
    PROVE  unpack_UINT(buf, at) = v
  <1>1. pack_UINT(v)[1] + 256 * pack_UINT(v)[2] = v
    BY PackUINT
  <1> QED BY <1>1 DEF unpack_UINT

-----------------------------------------------------------------------------
(* Sums *)

LEMMA SumIs ==
    ASSUME NEW n \in Nat, NEW s \in [1 .. n -> Nat], NEW f \in [0 .. n -> Nat], f[0] = 0,
           \A i \in 1 .. n : f[i] = f[i - 1] + s[i], NEW m \in 0 .. n
    PROVE  Sum([j \in 1 .. m |-> s[j]]) = f[m]
  <1> DEFINE t == [j \in 1 .. m |-> s[j]]
             Is(g) == g = [i \in 0 .. m |-> IF i = 0 THEN 0 ELSE g[i - 1] + t[i]]
             sum == CHOOSE g : Is(g)
  <1>1. t \in [1 .. m -> Nat] /\ Len(t) = m /\ m \in Nat
    BY FunctionIsSeq
  <1>2. Is([i \in 0 .. m |-> f[i]])
    <2> DEFINE h == [i \in 0 .. m |-> f[i]]
    <2>1. ASSUME NEW i \in 0 .. m
          PROVE  h[i] = IF i = 0 THEN 0 ELSE h[i - 1] + t[i]
      <3>1. CASE i = 0
        BY <3>1
      <3>2. CASE i # 0
        <4>1. i \in 1 .. n /\ i - 1 \in 0 .. m /\ i \in 1 .. m
          BY <3>2
        <4> QED BY <3>2, <4>1
      <3> QED BY <3>1, <3>2
    <2> QED BY <2>1
  <1>3. Is(sum)
    BY <1>2
  <1>4. Sum(t) = sum[m]
    BY <1>1 DEF Sum
  <1> HIDE DEF sum
  <1>9. \A i \in 0 .. m : sum[i] = IF i = 0 THEN 0 ELSE sum[i - 1] + t[i]
    BY <1>3
  <1> DEFINE P == {i \in Nat : i \in 0 .. m => sum[i] = f[i]}
  <1>5. 0 \in P
    BY <1>3
  <1>6. ASSUME NEW i \in Nat, i \in P
        PROVE  i + 1 \in P
    <2>1. SUFFICES ASSUME i + 1 \in 0 .. m PROVE sum[i + 1] = f[i + 1]
      OBVIOUS
    <2>2. i \in 0 .. m /\ i + 1 \in 1 .. m /\ i + 1 \in 1 .. n /\ (i + 1) - 1 = i /\ i + 1 # 0
      BY <2>1
    <2>3. sum[i + 1] = sum[i] + s[i + 1]
      <3>1. sum[i + 1] = IF i + 1 = 0 THEN 0 ELSE sum[(i + 1) - 1] + t[i + 1]
        BY <1>9, <2>1
      <3> QED BY <2>2, <3>1
    <2>4. f[i + 1] = f[i] + s[i + 1]
      BY <2>2
    <2> QED BY <1>6, <2>2, <2>3, <2>4
  <1> HIDE DEF P
  <1>7. m \in P
    BY <1>1, <1>5, <1>6, Induction
  <1>8. sum[m] = f[m]
    BY <1>1, <1>7 DEF P
  <1> QED BY <1>4, <1>8

LEMMA SumExists ==
    ASSUME NEW n \in Nat, NEW s \in [1 .. n -> Nat]
    PROVE  \E f \in [0 .. n -> Nat] : f[0] = 0 /\ \A i \in 1 .. n : f[i] = f[i - 1] + s[i]
  <1> DEFINE T == Nat
             base == 0
             step == [i \in 1 .. n |-> [x \in Nat |-> x + s[i]]]
  <1>1. base \in T /\ step \in [1 .. n -> [T -> T]]
    OBVIOUS
  <1>2. Defined(T, n, base, step)
    <2> HIDE DEF T, base, step
    <2> QED BY <1>1, Recursion
  <1>3. PICK f \in [0 .. n -> Nat] : f[0] = 0 /\ \A i \in 1 .. n : f[i] = step[i][f[i - 1]]
    BY <1>2 DEF Defined
  <1>4. ASSUME NEW i \in 1 .. n
        PROVE  f[i] = f[i - 1] + s[i]
    <2>1. i - 1 \in 0 .. n
      OBVIOUS
    <2>2. f[i - 1] \in Nat
      BY <2>1
    <2> QED BY <1>3, <2>2
  <1> QED BY <1>3, <1>4

\* The sums of the first numbers are where their parts end.
LEMMA SumParts ==
    ASSUME NEW n \in Nat, NEW s \in [1 .. n -> Nat],
           NEW at, at = [i \in 0 .. n |-> Sum([j \in 1 .. i |-> s[j]])]
    PROVE  /\ at \in [0 .. n -> Nat] /\ at[0] = 0
           /\ \A i \in 1 .. n : at[i] = at[i - 1] + s[i]
  <1>1. PICK f \in [0 .. n -> Nat] : f[0] = 0 /\ \A i \in 1 .. n : f[i] = f[i - 1] + s[i]
    BY SumExists
  <1>2. \A m \in 0 .. n : Sum([j \in 1 .. m |-> s[j]]) = f[m]
    BY <1>1, SumIs
  <1>3. at = f
    BY <1>2
  <1> QED BY <1>1, <1>3
-----------------------------------------------------------------------------
(* The replies of a multi-request *)

LEMMA PackType ==
    ASSUME NEW v \in Nat
    PROVE  pack_UINT(v) \in Bytes /\ Len(pack_UINT(v)) = 2
  <1>1. v % 256 \in Byte /\ (v \div 256) % 256 \in Byte
    BY LowByte
  <1> QED BY <1>1 DEF pack_UINT, Bytes

\* Offsets, of two bytes each, are at every second place.
LEMMA OffsetParts ==
    ASSUME NEW n \in Nat, NEW o \in [1 .. n -> Nat]
    PROVE  LET all == FlattenSeq([i \in 1 .. n |-> pack_UINT(o[i])])
           IN  /\ all \in Bytes /\ Len(all) = 2 * n
               /\ \A i \in 1 .. n : /\ all[2 * (i - 1) + 1] = pack_UINT(o[i])[1]
                                    /\ all[2 * (i - 1) + 2] = pack_UINT(o[i])[2]
  <1> DEFINE seqs == [i \in 1 .. n |-> pack_UINT(o[i])]
             at == [i \in 0 .. n |-> 2 * i]
  <1>1. \A i \in 1 .. n : seqs[i] \in Bytes /\ Len(seqs[i]) = 2
    BY PackType
  <1>2. seqs \in Seq(Bytes) /\ Len(seqs) = n
    <2>1. seqs \in [1 .. n -> Bytes]
      BY <1>1
    <2> HIDE DEF seqs
    <2> QED BY <2>1, FunctionIsSeq
  <1>3. Ends(at, seqs)
    <2>1. at \in [0 .. n -> Nat] /\ at[0] = 0
      OBVIOUS
    <2>2. ASSUME NEW i \in 1 .. n
          PROVE  at[i] = at[i - 1] + Len(seqs[i])
      <3>1. i \in 0 .. n /\ i - 1 \in 0 .. n /\ 2 * i = 2 * (i - 1) + 2
        OBVIOUS
      <3> QED BY <1>1, <3>1
    <2> QED BY <1>2, <2>1, <2>2 DEF Ends
  <1> HIDE DEF seqs, at
  <1>4. /\ FlattenSeq(seqs) \in Bytes
        /\ Len(FlattenSeq(seqs)) = at[n]
        /\ \A i \in 1 .. n : \A k \in 1 .. Len(seqs[i]) :
              FlattenSeq(seqs)[at[i - 1] + k] = seqs[i][k]
    <2>1. seqs \in Seq(Seq(Byte))
      BY <1>2 DEF Bytes
    <2>2. /\ FlattenSeq(seqs) \in Seq(Byte)
          /\ Len(FlattenSeq(seqs)) = at[Len(seqs)]
          /\ \A i \in 1 .. Len(seqs) : \A k \in 1 .. Len(seqs[i]) :
                FlattenSeq(seqs)[at[i - 1] + k] = seqs[i][k]
      BY <1>3, <2>1, FlattenParts
    <2> QED BY <1>2, <2>2 DEF Bytes
  <1>5. ASSUME NEW i \in 1 .. n
        PROVE  /\ FlattenSeq(seqs)[2 * (i - 1) + 1] = pack_UINT(o[i])[1]
               /\ FlattenSeq(seqs)[2 * (i - 1) + 2] = pack_UINT(o[i])[2]
    <2>0. Len(seqs[i]) = 2
      BY <1>1
    <2>1. 1 \in 1 .. Len(seqs[i]) /\ 2 \in 1 .. Len(seqs[i])
      BY <2>0
    <2>2. at[i - 1] = 2 * (i - 1)
      BY DEF at
    <2>3. seqs[i] = pack_UINT(o[i])
      BY DEF seqs
    <2> QED BY <1>4, <2>1, <2>2, <2>3
  <1>6. at[n] = 2 * n
    BY DEF at
  <1> QED BY <1>4, <1>5, <1>6 DEF seqs

\* Where each of a list of byte strings begins.
Begin(parts) == [i \in 0 .. Len(parts) |-> Sum([j \in 1 .. i |-> Len(parts[j])])]

LEMMA BeginEnds ==
    ASSUME NEW parts \in Seq(Bytes)
    PROVE  /\ Ends(Begin(parts), parts)
           /\ \A i \in 0 .. Len(parts) : Begin(parts)[i] \in Nat
  <1> DEFINE n == Len(parts)
             s == [j \in 1 .. n |-> Len(parts[j])]
             at == [i \in 0 .. n |-> Sum([j \in 1 .. i |-> s[j]])]
  <1>1. n \in Nat /\ s \in [1 .. n -> Nat]
    BY DEF Bytes
  <1>2. at \in [0 .. n -> Nat] /\ at[0] = 0 /\ \A i \in 1 .. n : at[i] = at[i - 1] + s[i]
    <2> HIDE DEF n, s
    <2> QED BY <1>1, SumParts
  <1>3. Begin(parts) = at
    <2>1. ASSUME NEW i \in 0 .. n
          PROVE  [j \in 1 .. i |-> s[j]] = [j \in 1 .. i |-> Len(parts[j])]
      BY <1>1
    <2> QED BY <2>1 DEF Begin
  <1> QED BY <1>1, <1>2, <1>3 DEF Ends

LEMMA Join ==
    ASSUME NEW s \in Bytes, NEW t \in Bytes
    PROVE  /\ s \o t \in Bytes /\ Len(s) \in Nat /\ Len(t) \in Nat
           /\ Len(s \o t) = Len(s) + Len(t)
           /\ \A i \in 1 .. Len(s) : (s \o t)[i] = s[i]
           /\ \A i \in 1 .. Len(t) : (s \o t)[Len(s) + i] = t[i]
  <1>1. s \in Seq(Byte) /\ t \in Seq(Byte)
    BY DEF Bytes
  <1>2. /\ s \o t \in Seq(Byte) /\ Len(s) \in Nat /\ Len(t) \in Nat
        /\ Len(s \o t) = Len(s) + Len(t)
        /\ \A i \in 1 .. Len(s) : (s \o t)[i] = s[i]
        /\ \A i \in 1 .. Len(t) : (s \o t)[Len(s) + i] = t[i]
    BY <1>1, Concat
  <1> QED BY <1>2 DEF Bytes

\* The parts of a joined string, where Begin says.
LEMMA PartsOf ==
    ASSUME NEW parts \in Seq(Bytes)
    PROVE  /\ Len(parts) \in Nat /\ Begin(parts) \in [0 .. Len(parts) -> Nat] /\ Begin(parts)[0] = 0
           /\ FlattenSeq(parts) \in Bytes
           /\ Len(FlattenSeq(parts)) = Begin(parts)[Len(parts)]
           /\ \A i \in 1 .. Len(parts) :
                 /\ parts[i] \in Bytes /\ Len(parts[i]) \in Nat
                 /\ Begin(parts)[i - 1] \in Nat /\ Begin(parts)[i] \in Nat
                 /\ Begin(parts)[i] = Begin(parts)[i - 1] + Len(parts[i])
                 /\ Begin(parts)[i] <= Begin(parts)[Len(parts)]
                 /\ \A k \in 1 .. Len(parts[i]) :
                       FlattenSeq(parts)[Begin(parts)[i - 1] + k] = parts[i][k]
  <1>1. parts \in Seq(Seq(Byte))
    BY DEF Bytes
  <1>2. Ends(Begin(parts), parts)
    BY BeginEnds
  <1>3. \A at : Ends(at, parts) =>
        /\ FlattenSeq(parts) \in Seq(Byte)
        /\ Len(FlattenSeq(parts)) = at[Len(parts)]
        /\ \A i \in 1 .. Len(parts) :
              /\ at[i - 1] \in Nat /\ at[i] \in Nat
              /\ at[i - 1] <= at[i] /\ at[i] <= at[Len(parts)]
              /\ \A k \in 1 .. Len(parts[i]) : FlattenSeq(parts)[at[i - 1] + k] = parts[i][k]
    BY <1>1, FlattenParts
  <1>4. /\ Begin(parts) \in [0 .. Len(parts) -> Nat] /\ Begin(parts)[0] = 0
        /\ \A i \in 1 .. Len(parts) : Begin(parts)[i] = Begin(parts)[i - 1] + Len(parts[i])
    BY <1>2 DEF Ends
  <1>5. Len(parts) \in Nat /\ \A i \in 1 .. Len(parts) : parts[i] \in Seq(Byte) /\ Len(parts[i]) \in Nat
    BY <1>1
  <1>6. /\ FlattenSeq(parts) \in Seq(Byte)
        /\ Len(FlattenSeq(parts)) = Begin(parts)[Len(parts)]
        /\ \A i \in 1 .. Len(parts) :
              /\ Begin(parts)[i - 1] \in Nat /\ Begin(parts)[i] \in Nat
              /\ Begin(parts)[i - 1] <= Begin(parts)[i] /\ Begin(parts)[i] <= Begin(parts)[Len(parts)]
              /\ \A k \in 1 .. Len(parts[i]) :
                    FlattenSeq(parts)[Begin(parts)[i - 1] + k] = parts[i][k]
    BY <1>2, <1>3
  <1> QED BY <1>4, <1>5, <1>6 DEF Bytes

LEMMA Associates ==
    ASSUME NEW a \in Nat, NEW b \in Nat, NEW c \in Nat
    PROVE  a + (b + c) = a + b + c
  OBVIOUS

\* Where everything is in a response to several requests.
HoldsReplies(r, replies, extended) ==
    LET n  == Len(replies)
        at == Begin(replies)
        e  == 2 * extended
    IN  /\ r \in Bytes /\ Len(r) = 6 + e + 2 * n + at[n]
        /\ r[1] = 138 /\ r[3] = 0 /\ r[4] = extended
        /\ r[5 + e] = pack_UINT(n)[1] /\ r[6 + e] = pack_UINT(n)[2]
        /\ \A i \in 1 .. n :
              /\ r[6 + e + 2 * (i - 1) + 1] = pack_UINT(2 + 2 * n + at[i - 1])[1]
              /\ r[6 + e + 2 * (i - 1) + 2] = pack_UINT(2 + 2 * n + at[i - 1])[2]
              /\ \A k \in 1 .. Len(replies[i]) : r[6 + e + 2 * n + at[i - 1] + k] = replies[i][k]

LEMMA ResponseLayout ==
    ASSUME NEW replies \in Seq(Bytes), NEW extended \in Byte
    PROVE  HoldsReplies(MultiResponse(replies, extended), replies, extended)
  <1> DEFINE n == Len(replies)
             at == Begin(replies)
             e == 2 * extended
             r == MultiResponse(replies, extended)
  <1>1. n \in Nat /\ e \in Nat /\ extended \in Nat
    BY DEF Bytes, Byte
  <1>2. at \in [0 .. n -> Nat] /\ at[n] \in Nat
    <2>1. at \in [0 .. n -> Nat]
      BY PartsOf
    <2> QED BY <1>1, <2>1
  <1> HIDE DEF n, at, e, r
  <1> DEFINE H == <<S_CIP_MultiRequest + 128, 0, 0, extended>>
             X == [i \in 1 .. e |-> 9]
             C == pack_UINT(n)
             o == [i \in 1 .. n |-> 2 + 2 * n + at[i - 1]]
             O == FlattenSeq([i \in 1 .. n |-> pack_UINT(o[i])])
             R == FlattenSeq(replies)
  <1>3. H \in Bytes /\ Len(H) = 4 /\ H[1] = 138 /\ H[3] = 0 /\ H[4] = extended
    BY DEF Bytes, Byte, S_CIP_MultiRequest
  <1>4. X \in Bytes /\ Len(X) = e
    <2>1. X \in [1 .. e -> Byte]
      BY DEF Byte
    <2> QED BY <1>1, <2>1, FunctionIsSeq DEF Bytes
  <1>5. C \in Bytes /\ Len(C) = 2
    BY <1>1, PackType
  <1>6. o \in [1 .. n -> Nat]
    <2>1. ASSUME NEW i \in 1 .. n
          PROVE  2 + 2 * n + at[i - 1] \in Nat
      <3>1. i - 1 \in 0 .. n
        BY <1>1
      <3>2. at[i - 1] \in Nat
        BY <1>2, <3>1
      <3> QED BY <1>1, <3>2
    <2> QED BY <2>1
  <1>7. /\ O \in Bytes /\ Len(O) = 2 * n
        /\ \A i \in 1 .. n : /\ O[2 * (i - 1) + 1] = pack_UINT(o[i])[1]
                             /\ O[2 * (i - 1) + 2] = pack_UINT(o[i])[2]
    <2> HIDE DEF o
    <2> QED BY <1>1, <1>6, OffsetParts
  <1>8. /\ R \in Bytes /\ Len(R) = at[n]
        /\ \A i \in 1 .. n : \A k \in 1 .. Len(replies[i]) : R[at[i - 1] + k] = replies[i][k]
    BY PartsOf DEF n, at
  <1>9. r = (((H \o X) \o C) \o O) \o R
    <2>1. ASSUME NEW i \in 1 .. n
          PROVE  Begin(replies)[i - 1] = Sum([j \in 1 .. i - 1 |-> Len(replies[j])])
      <3>1. i - 1 \in 0 .. n
        BY <1>1
      <3> QED BY <3>1 DEF Begin, n
    <2>2. [i \in 1 .. n |-> pack_UINT(o[i])] =
          [i \in 1 .. n |-> pack_UINT(2 + 2 * n + Sum([j \in 1 .. i - 1 |-> Len(replies[j])]))]
      BY <2>1 DEF at
    <2> QED BY <2>2 DEF MultiResponse, r, e, n
  <1> HIDE DEF H, X, C, O, R
  <1> DEFINE A == H \o X
             B == A \o C
             D == B \o O
  <1>10. /\ A \in Bytes /\ Len(A) = 4 + e
         /\ A[1] = H[1] /\ A[3] = H[3] /\ A[4] = H[4]
    <2>1. /\ A \in Bytes /\ Len(A) = Len(H) + Len(X)
          /\ \A i \in 1 .. Len(H) : A[i] = H[i]
          /\ \A i \in 1 .. Len(X) : A[Len(H) + i] = X[i]
      <3>1. H \in Bytes /\ X \in Bytes
        BY <1>3, <1>4
      <3> QED BY <3>1, Join
    <2>2. 1 \in 1 .. Len(H) /\ 3 \in 1 .. Len(H) /\ 4 \in 1 .. Len(H)
      BY <1>3
    <2> QED BY <1>3, <1>4, <2>1, <2>2
  <1>11. /\ B \in Bytes /\ Len(B) = 6 + e
         /\ \A i \in 1 .. 4 + e : B[i] = A[i]
         /\ B[4 + e + 1] = C[1] /\ B[4 + e + 2] = C[2]
    <2> HIDE DEF A
    <2>1. /\ B \in Bytes /\ Len(B) = Len(A) + Len(C)
          /\ \A i \in 1 .. Len(A) : B[i] = A[i]
          /\ \A i \in 1 .. Len(C) : B[Len(A) + i] = C[i]
      BY <1>5, <1>10, Join
    <2> QED BY <1>1, <1>5, <1>10, <2>1
  <1>12. /\ D \in Bytes /\ Len(D) = 6 + e + 2 * n
         /\ \A i \in 1 .. 6 + e : D[i] = B[i]
         /\ \A i \in 1 .. 2 * n : D[6 + e + i] = O[i]
    <2> HIDE DEF B
    <2>1. /\ D \in Bytes /\ Len(D) = Len(B) + Len(O)
          /\ \A i \in 1 .. Len(B) : D[i] = B[i]
          /\ \A i \in 1 .. Len(O) : D[Len(B) + i] = O[i]
      BY <1>7, <1>11, Join
    <2> QED BY <1>1, <1>7, <1>11, <2>1
  <1>13. /\ r \in Bytes /\ Len(r) = 6 + e + 2 * n + at[n]
         /\ \A i \in 1 .. 6 + e + 2 * n : r[i] = D[i]
         /\ \A i \in 1 .. at[n] : r[6 + e + 2 * n + i] = R[i]
    <2>0. r = D \o R
      BY <1>9
    <2> HIDE DEF D
    <2>1. /\ (D \o R) \in Bytes /\ Len((D \o R)) = Len(D) + Len(R)
          /\ \A i \in 1 .. Len(D) : (D \o R)[i] = D[i]
          /\ \A i \in 1 .. Len(R) : (D \o R)[Len(D) + i] = R[i]
      BY <1>8, <1>12, Join
    <2> QED BY <1>1, <1>2, <1>8, <1>12, <2>0, <2>1
  <1> HIDE DEF A, B, D
  <1>14. r[1] = 138 /\ r[3] = 0 /\ r[4] = extended
    BY <1>1, <1>3, <1>10, <1>11, <1>12, <1>13
  <1>15. r[5 + e] = pack_UINT(n)[1] /\ r[6 + e] = pack_UINT(n)[2]
    <2>1. r[5 + e] = C[1] /\ r[6 + e] = C[2]
      BY <1>1, <1>11, <1>12, <1>13
    <2> QED BY <2>1 DEF C
  <1>16. ASSUME NEW i \in 1 .. n
         PROVE  /\ r[6 + e + 2 * (i - 1) + 1] = pack_UINT(2 + 2 * n + at[i - 1])[1]
                /\ r[6 + e + 2 * (i - 1) + 2] = pack_UINT(2 + 2 * n + at[i - 1])[2]
    <2>1. 2 * (i - 1) + 1 \in 1 .. 2 * n /\ 2 * (i - 1) + 2 \in 1 .. 2 * n
      BY <1>1
    <2>2. /\ D[6 + e + (2 * (i - 1) + 1)] = O[2 * (i - 1) + 1]
          /\ D[6 + e + (2 * (i - 1) + 2)] = O[2 * (i - 1) + 2]
      BY <1>12, <2>1
    <2>3. /\ r[6 + e + (2 * (i - 1) + 1)] = O[2 * (i - 1) + 1]
          /\ r[6 + e + (2 * (i - 1) + 2)] = O[2 * (i - 1) + 2]
      BY <1>1, <1>13, <2>1, <2>2
    <2>4. /\ 6 + e + (2 * (i - 1) + 1) = 6 + e + 2 * (i - 1) + 1
          /\ 6 + e + (2 * (i - 1) + 2) = 6 + e + 2 * (i - 1) + 2
      BY <1>1
    <2>5. o[i] = 2 + 2 * n + at[i - 1]
      OBVIOUS
    <2> HIDE DEF o
    <2>6. O[2 * (i - 1) + 1] = pack_UINT(o[i])[1] /\ O[2 * (i - 1) + 2] = pack_UINT(o[i])[2]
      BY <1>7
    <2> QED BY <2>3, <2>4, <2>5, <2>6
  <1>17. ASSUME NEW i \in 1 .. n, NEW k \in 1 .. Len(replies[i])
         PROVE  r[6 + e + 2 * n + at[i - 1] + k] = replies[i][k]
    <2>1. /\ at[i - 1] \in Nat /\ at[i] \in Nat /\ at[i] = at[i - 1] + Len(replies[i])
          /\ at[i] <= at[n] /\ Len(replies[i]) \in Nat
      BY PartsOf DEF n, at
    <2>2. at[i - 1] + k \in 1 .. at[n]
      BY <1>2, <2>1, Within, SMTT(30)
    <2>3. r[6 + e + 2 * n + (at[i - 1] + k)] = R[at[i - 1] + k]
      BY <1>13, <2>2
    <2>4. 6 + e + 2 * n + (at[i - 1] + k) = 6 + e + 2 * n + at[i - 1] + k
      <3>1. 6 + e + 2 * n \in Nat /\ k \in Nat /\ at[i - 1] \in Nat
        BY <1>1, <2>1
      <3> QED BY <3>1, Associates
    <2> QED BY <1>8, <2>3, <2>4
  <1> QED BY <1>13, <1>14, <1>15, <1>16, <1>17 DEF HoldsReplies, n, at, e, r

\* One string inside another, behind its first m bytes.
Holds(u, m, t) ==
    m \in Nat /\ m + Len(t) <= Len(u) /\ \A k \in 1 .. Len(t) : u[m + k] = t[k]

LEMMA SliceBytes ==
    ASSUME NEW u \in Bytes, NEW t \in Bytes, NEW m, Holds(u, m, t)
    PROVE  SubSeq(u, m + 1, m + Len(t)) = t
  <1>1. u \in Seq(Byte) /\ t \in Seq(Byte)
    BY DEF Bytes
  <1>2. m \in Nat /\ m + Len(t) <= Len(u) /\ \A k \in 1 .. Len(t) : u[m + k] = t[k]
    BY DEF Holds
  <1> QED BY <1>1, <1>2, Slice

LEMMA OffsetPlaces ==
    ASSUME NEW e \in Nat, NEW y \in Nat
    PROVE  6 + e + y + 1 = (5 + e) + 2 + y /\ 6 + e + y + 2 = ((5 + e) + 2 + y) + 1
  OBVIOUS

LEMMA OffsetFits ==
    ASSUME NEW w \in Nat, NEW q \in Nat, w <= q, NEW a \in Nat, NEW s \in Nat, a <= s, q + s < 65536
    PROVE  w + a \in Nat /\ w + a < 65536
  OBVIOUS

LEMMA NextOffset ==
    ASSUME NEW w \in Nat, NEW a \in Nat, NEW l \in Nat
    PROVE  (w + (a + l)) - (w + a) = l
  OBVIOUS

LEMMA UpToEnd ==
    ASSUME NEW c \in Nat, NEW w \in Nat, NEW q \in Nat, c + w = q + 1,
           NEW a \in Nat, NEW l \in Nat
    PROVE  (q + (a + l)) - (c + (w + a) - 1) = l
  <1>1. c + (w + a) - 1 = q + a
    OBVIOUS
  <1> QED BY <1>1

LEMMA ReplyBounds ==
    ASSUME NEW c \in Nat, NEW w \in Nat, NEW q \in Nat, c + w = q + 1,
           NEW a \in Nat, NEW l \in Nat
    PROVE  c + (w + a) = (q + a) + 1 /\ c + (w + a) + l - 1 = (q + a) + l
  <1>1. c + (w + a) = (q + a) + 1
    OBVIOUS
  <1> QED BY <1>1

\* The stretch of a reply, for a known place, count and offset.
LEMMA ReplyStretch ==
    ASSUME NEW r, NEW no, NEW c, NEW n, NEW o, EIP_raw_MR_Response_data(r).at = c,
           unpack_UINT(r, c) = n, ~(no >= n), unpack_UINT(r, c + 2 + 2 * no) = o
    PROVE  get_CIP_MultiRequest_Response(r, no) =
           SubSeq(r, c + o,
                  c + o + (IF no + 1 < n THEN unpack_UINT(r, c + 2 + 2 * (no + 1)) - o
                                         ELSE Len(r) - (c + o - 1)) - 1)
  BY DEF get_CIP_MultiRequest_Response

\* Every reply is found, whatever replies there are: the response only has
\* to be short enough for its offsets (get_CIP_MultiRequest_Response).
THEOREM EveryReplyFound ==
    ASSUME NEW replies \in Seq(Bytes), NEW extended \in Byte,
           Len(MultiResponse(replies, extended)) < 65536
    PROVE  OwnReplies(replies, MultiResponse(replies, extended))
  <1> DEFINE n == Len(replies)
             at == Begin(replies)
             r == MultiResponse(replies, extended)
             c == 5 + 2 * extended
             w == 2 + 2 * n
             q == 6 + 2 * extended + 2 * n
             Placed(i) ==
                /\ r[c + 2 + 2 * (i - 1)] = pack_UINT(w + at[i - 1])[1]
                /\ r[(c + 2 + 2 * (i - 1)) + 1] = pack_UINT(w + at[i - 1])[2]
                /\ \A k \in 1 .. Len(replies[i]) : r[q + at[i - 1] + k] = replies[i][k]
  <1>1. /\ n \in Nat /\ at \in [0 .. n -> Nat]
        /\ c \in Nat /\ w \in Nat /\ q \in Nat
        /\ c + w = q + 1 /\ n <= q /\ w <= q
    <2>1. n \in Nat /\ at \in [0 .. n -> Nat]
      BY PartsOf
    <2>2. extended \in Nat
      BY DEF Byte
    <2> HIDE DEF n
    <2> QED BY <2>1, <2>2
  <1>2. /\ r \in Bytes /\ Len(r) = q + at[n]
        /\ r[1] = 138 /\ r[3] = 0 /\ r[4] = extended
        /\ r[c] = pack_UINT(n)[1] /\ r[c + 1] = pack_UINT(n)[2]
        /\ \A i \in 1 .. n : Placed(i)
    <2> DEFINE e == 2 * extended
    <2>1. HoldsReplies(r, replies, extended)
      BY ResponseLayout
    <2>2. /\ r \in Bytes /\ Len(r) = 6 + e + 2 * n + at[n]
          /\ r[1] = 138 /\ r[3] = 0 /\ r[4] = extended
          /\ r[5 + e] = pack_UINT(n)[1] /\ r[6 + e] = pack_UINT(n)[2]
          /\ \A i \in 1 .. n :
              /\ r[6 + e + 2 * (i - 1) + 1] = pack_UINT(2 + 2 * n + at[i - 1])[1]
              /\ r[6 + e + 2 * (i - 1) + 2] = pack_UINT(2 + 2 * n + at[i - 1])[2]
              /\ \A k \in 1 .. Len(replies[i]) : r[6 + e + 2 * n + at[i - 1] + k] = replies[i][k]
      BY <2>1 DEF HoldsReplies
    <2>3. e \in Nat
      BY DEF Byte
    <2>4. c + 1 = 6 + e
      BY <2>3
    <2>5. ASSUME NEW i \in 1 .. n
          PROVE  /\ 6 + e + 2 * (i - 1) + 1 = c + 2 + 2 * (i - 1)
                 /\ 6 + e + 2 * (i - 1) + 2 = (c + 2 + 2 * (i - 1)) + 1
      <3>1. 2 * (i - 1) \in Nat
        BY <1>1
      <3> HIDE DEF e
      <3> QED BY <2>3, <3>1, OffsetPlaces DEF e
    <2> HIDE DEF n, at, r
    <2> QED BY <2>2, <2>4, <2>5
  <1>3. \A i \in 1 .. n :
           /\ replies[i] \in Bytes /\ Len(replies[i]) \in Nat
           /\ at[i - 1] \in Nat /\ at[i] \in Nat
           /\ at[i] = at[i - 1] + Len(replies[i]) /\ at[i] <= at[n]
    BY PartsOf
  <1>4. Len(r) < 65536
    OBVIOUS
  <1>6. EIP_raw_MR_Response_data(r).at = c
    BY <1>2 DEF EIP_raw_MR_Response_data
  <1> HIDE DEF Placed, n, at, r, c, w, q
  <1>5. at[n] \in Nat
    BY <1>1
  <1>7. unpack_UINT(r, c) = n
    <2>1. n < 65536
      <3>1. Len(r) = q + at[n] /\ Len(r) < 65536 /\ n <= q /\ q \in Nat /\ n \in Nat
        BY <1>1, <1>2, <1>4
      <3> QED BY <1>5, <3>1
    <2>2. n \in Nat /\ c \in Nat /\ r[c] = pack_UINT(n)[1] /\ r[c + 1] = pack_UINT(n)[2]
      BY <1>1, <1>2
    <2> QED BY <2>1, <2>2, UnpackUINT
  <1>8. ASSUME NEW no \in 0 .. n - 1
        PROVE  /\ unpack_UINT(r, c + 2 + 2 * no) = w + at[no]
               /\ no \in Nat /\ replies[no + 1] \in Bytes /\ Len(replies[no + 1]) \in Nat
               /\ at[no] \in Nat /\ at[no + 1] \in Nat
               /\ at[no + 1] = at[no] + Len(replies[no + 1]) /\ at[no + 1] <= at[n]
               /\ \A k \in 1 .. Len(replies[no + 1]) : r[q + at[no] + k] = replies[no + 1][k]
    <2>1. no + 1 \in 1 .. n /\ (no + 1) - 1 = no /\ no \in Nat
      BY <1>1
    <2>2. /\ at[no] \in Nat /\ at[no + 1] \in Nat /\ Len(replies[no + 1]) \in Nat
          /\ replies[no + 1] \in Bytes
          /\ at[no + 1] = at[no] + Len(replies[no + 1]) /\ at[no + 1] <= at[n]
      <3>1. /\ at[(no + 1) - 1] \in Nat /\ at[no + 1] \in Nat /\ Len(replies[no + 1]) \in Nat
            /\ replies[no + 1] \in Bytes
            /\ at[no + 1] = at[(no + 1) - 1] + Len(replies[no + 1]) /\ at[no + 1] <= at[n]
        BY <1>3, <2>1
      <3> QED BY <2>1, <3>1
    <2>3. w + at[no] \in Nat /\ w + at[no] < 65536
      <3>1. at[no] <= at[n]
        BY <1>5, <2>2
      <3>2. q + at[n] < 65536
        BY <1>2, <1>4
      <3>3. w \in Nat /\ q \in Nat /\ w <= q /\ at[no] \in Nat
        BY <1>1, <2>2
      <3> QED BY <1>5, <3>1, <3>2, <3>3, OffsetFits
    <2>4. /\ r[c + 2 + 2 * no] = pack_UINT(w + at[no])[1]
          /\ r[(c + 2 + 2 * no) + 1] = pack_UINT(w + at[no])[2]
          /\ \A k \in 1 .. Len(replies[no + 1]) : r[q + at[no] + k] = replies[no + 1][k]
      <3>1. Placed(no + 1)
        BY <1>2, <2>1
      <3> QED BY <2>1, <3>1 DEF Placed
    <2>5. c + 2 + 2 * no \in Nat
      BY <1>1, <2>1
    <2>6. unpack_UINT(r, c + 2 + 2 * no) = w + at[no]
      BY <2>3, <2>4, <2>5, UnpackUINT
    <2> QED BY <2>1, <2>2, <2>4, <2>6
  <1>9. check_CIP_MultiRequest_Response(r)
    BY <1>2 DEF check_CIP_MultiRequest_Response, S_CIP_MultiRequest
  <1>10. ASSUME NEW no \in 0 .. n, no < n
         PROVE  get_CIP_MultiRequest_Response(r, no) = replies[no + 1]
    <2> DEFINE l == Len(replies[no + 1])
               a == at[no]
    <2>1. no \in 0 .. n - 1 /\ no \in Nat
      BY <1>1, <1>10
    <2>2. /\ unpack_UINT(r, c + 2 + 2 * no) = w + a
          /\ replies[no + 1] \in Bytes /\ l \in Nat
          /\ a \in Nat /\ at[no + 1] = a + l /\ a + l <= at[n]
          /\ \A k \in 1 .. l : r[q + a + k] = replies[no + 1][k]
      <3>1. at[no + 1] = a + l /\ at[no + 1] <= at[n]
        BY <1>8, <2>1
      <3>2. a + l <= at[n]
        BY <3>1
      <3> QED BY <1>8, <2>1, <3>1, <3>2
    <2> HIDE DEF l, a
    <2>8. c \in Nat /\ w \in Nat /\ q \in Nat /\ c + w = q + 1 /\ a \in Nat /\ l \in Nat
      BY <1>1, <2>2
    <2> DEFINE size == IF no + 1 < n THEN unpack_UINT(r, c + 2 + 2 * (no + 1)) - (w + a)
                                     ELSE Len(r) - (c + (w + a) - 1)
    <2>3. size = l
      <3>1. CASE no + 1 < n
        <4>1. no + 1 \in 0 .. n - 1
          BY <1>1, <2>1, <3>1
        <4>2. unpack_UINT(r, c + 2 + 2 * (no + 1)) = w + at[no + 1]
          BY <1>8, <4>1
        <4>4. (w + (a + l)) - (w + a) = l
          BY <2>8, NextOffset
        <4> QED BY <2>2, <3>1, <4>2, <4>4
      <3>2. CASE ~(no + 1 < n)
        <4>1. n = no + 1
          BY <1>1, <1>10, <3>2
        <4>2. Len(r) = q + (a + l)
          BY <1>2, <2>2, <4>1
        <4>3. (q + (a + l)) - (c + (w + a) - 1) = l
          BY <2>8, UpToEnd
        <4> QED BY <3>2, <4>2, <4>3
      <3> QED BY <3>1, <3>2
    <2>4. get_CIP_MultiRequest_Response(r, no) =
          SubSeq(r, c + (w + a), c + (w + a) + size - 1)
      <3>1. ~(no >= n)
        BY <1>1, <1>10
      <3>2. unpack_UINT(r, c + 2 + 2 * no) = w + a
        BY <2>2
      <3> QED BY <1>6, <1>7, <3>1, <3>2, ReplyStretch
    <2> HIDE DEF size
    <2>5. c + (w + a) = (q + a) + 1 /\ c + (w + a) + l - 1 = (q + a) + l
      BY <2>8, ReplyBounds
    <2>6. q + a \in Nat /\ (q + a) + l <= Len(r)
      BY <1>1, <1>2, <1>5, <2>2
    <2>7. SubSeq(r, (q + a) + 1, (q + a) + l) = replies[no + 1]
      <3>1. Holds(r, q + a, replies[no + 1])
        <4>1. \A k \in 1 .. Len(replies[no + 1]) : r[q + a + k] = replies[no + 1][k]
          BY <2>2 DEF l
        <4> QED BY <2>6, <4>1 DEF l, Holds
      <3>2. r \in Bytes /\ replies[no + 1] \in Bytes
        BY <1>2, <2>2
      <3>3. SubSeq(r, (q + a) + 1, (q + a) + Len(replies[no + 1])) = replies[no + 1]
        BY <3>1, <3>2, SliceBytes
      <3> QED BY <3>3 DEF l
    <2> QED BY <2>3, <2>4, <2>5, <2>7
  <1>11. ASSUME NEW no \in 0 .. n, ~(no < n)
         PROVE  get_CIP_MultiRequest_Response(r, no) = <<>>
    <2>1. no >= n
      BY <1>1, <1>11
    <2>2. no >= unpack_UINT(r, EIP_raw_MR_Response_data(r).at)
      BY <1>6, <1>7, <2>1
    <2> QED BY <2>2 DEF get_CIP_MultiRequest_Response
  <1>12. OwnReplies(replies, r)
    <2>1. \A no \in 0 .. Len(replies) :
            get_CIP_MultiRequest_Response(r, no) =
                IF no < Len(replies) THEN replies[no + 1] ELSE <<>>
      BY <1>10, <1>11 DEF n
    <2> QED BY <1>9, <2>1 DEF OwnReplies
  <1> QED BY <1>12 DEF r
-----------------------------------------------------------------------------
(* The requests of a transfer *)

LEMMA BeginGrows ==
    ASSUME NEW parts \in Seq(Bytes), NEW j \in 0 .. Len(parts), NEW m \in 0 .. Len(parts), j <= m
    PROVE  Begin(parts)[j] <= Begin(parts)[m]
  <1> DEFINE n == Len(parts)
             at == Begin(parts)
             P == {i \in Nat : i <= n /\ j <= i => at[j] <= at[i]}
  <1>1. /\ n \in Nat /\ at \in [0 .. n -> Nat]
        /\ \A i \in 1 .. n : /\ at[i] = at[i - 1] + Len(parts[i]) /\ Len(parts[i]) \in Nat
                             /\ at[i - 1] \in Nat /\ at[i] \in Nat
    BY PartsOf
  <1>2. j \in 0 .. n /\ m \in 0 .. n
    OBVIOUS
  <1> HIDE DEF n, at
  <1>3. at[j] \in Nat
    BY <1>1, <1>2
  <1>4. 0 \in P
    <2>1. j <= 0 => j = 0
      BY <1>1, <1>2
    <2> QED BY <1>3, <2>1
  <1>5. ASSUME NEW i \in Nat, i \in P
        PROVE  i + 1 \in P
    <2>1. SUFFICES ASSUME i + 1 <= n, j <= i + 1 PROVE at[j] <= at[i + 1]
      OBVIOUS
    <2>2. CASE j = i + 1
      BY <1>3, <2>2
    <2>3. CASE j # i + 1
      <3>1. j <= i /\ i <= n /\ i + 1 \in 1 .. n /\ (i + 1) - 1 = i
        BY <1>1, <1>2, <2>1, <2>3
      <3>2. at[j] <= at[i]
        BY <1>5, <3>1
      <3>3. /\ at[i + 1] = at[(i + 1) - 1] + Len(parts[i + 1]) /\ Len(parts[i + 1]) \in Nat
            /\ at[(i + 1) - 1] \in Nat
        BY <1>1, <3>1
      <3>4. at[i + 1] = at[i] + Len(parts[i + 1]) /\ at[i] \in Nat
        BY <3>1, <3>3
      <3> QED BY <1>3, <3>2, <3>3, <3>4
    <2> QED BY <2>2, <2>3
  <1>6. m \in P
    <2> HIDE DEF P
    <2>1. m \in Nat
      BY <1>1, <1>2
    <2> QED BY <1>4, <1>5, <2>1, Induction
  <1>7. m <= n
    BY <1>1, <1>2
  <1>8. at[j] <= at[m]
    BY <1>6, <1>7
  <1> QED BY <1>8 DEF at

\* What Overwrite leaves alone, and what it writes.
LEMMA Overwriting ==
    ASSUME NEW b \in Bytes, NEW t \in Bytes, NEW m \in Nat
    PROVE  /\ Overwrite(b, m + 1, t) \in Bytes
           /\ Len(Overwrite(b, m + 1, t)) = Len(b)
           /\ \A i \in 1 .. Len(b) :
                 i <= m \/ i > m + Len(t) => Overwrite(b, m + 1, t)[i] = b[i]
           /\ \A k \in 1 .. Len(t) :
                 m + k <= Len(b) => Overwrite(b, m + 1, t)[m + k] = t[k]
  <1> DEFINE f == [i \in 1 .. Len(b) |->
                    IF i \in m + 1 .. (m + 1) + Len(t) - 1 THEN t[i - (m + 1) + 1] ELSE b[i]]
  <1>1. f = Overwrite(b, m + 1, t)
    BY DEF Overwrite
  <1>2. /\ Len(b) \in Nat /\ Len(t) \in Nat
        /\ \A i \in 1 .. Len(b) : b[i] \in Byte
        /\ \A i \in 1 .. Len(t) : t[i] \in Byte
    BY DEF Bytes
  <1>3. ASSUME NEW i \in 1 .. Len(b), i \in m + 1 .. (m + 1) + Len(t) - 1
        PROVE  f[i] \in Byte
    <2>1. i - (m + 1) + 1 \in 1 .. Len(t)
      BY <1>2, <1>3
    <2> QED BY <1>2, <1>3, <2>1
  <1>4. ASSUME NEW i \in 1 .. Len(b), ~(i \in m + 1 .. (m + 1) + Len(t) - 1)
        PROVE  f[i] = b[i] /\ f[i] \in Byte
    BY <1>2, <1>4
  <1>5. f \in [1 .. Len(b) -> Byte]
    <2>1. \A i \in 1 .. Len(b) : f[i] \in Byte
      BY <1>3, <1>4
    <2> QED BY <2>1
  <1>6. f \in Bytes /\ Len(f) = Len(b)
    <2> HIDE DEF f
    <2>1. f \in Seq(Byte) /\ Len(f) = Len(b)
      BY <1>2, <1>5, FunctionIsSeq
    <2> QED BY <2>1 DEF Bytes
  <1>7. ASSUME NEW i \in 1 .. Len(b), i <= m \/ i > m + Len(t)
        PROVE  f[i] = b[i]
    <2>1. ~(i \in m + 1 .. (m + 1) + Len(t) - 1)
      BY <1>2, <1>7
    <2> QED BY <1>4, <2>1
  <1>8. ASSUME NEW k \in 1 .. Len(t), m + k <= Len(b)
        PROVE  f[m + k] = t[k]
    <2>1. /\ m + k \in 1 .. Len(b) /\ m + k \in m + 1 .. (m + 1) + Len(t) - 1
          /\ (m + k) - (m + 1) + 1 = k
      BY <1>2, <1>8
    <2> QED BY <2>1
  <1> QED BY <1>1, <1>6, <1>7, <1>8
LEMMA HoldsAfter ==
    ASSUME NEW b \in Bytes, NEW t \in Bytes, NEW m \in Nat, NEW p \in Nat, NEW s \in Bytes,
           Holds(b, p, s), p + Len(s) <= m \/ m + Len(t) <= p
    PROVE  Holds(Overwrite(b, m + 1, t), p, s)
  <1> DEFINE u == Overwrite(b, m + 1, t)
  <1>1. /\ Len(u) = Len(b)
        /\ \A i \in 1 .. Len(b) : i <= m \/ i > m + Len(t) => u[i] = b[i]
    BY Overwriting
  <1>2. p + Len(s) <= Len(b) /\ \A k \in 1 .. Len(s) : b[p + k] = s[k]
    BY DEF Holds
  <1>3. Len(b) \in Nat /\ Len(t) \in Nat /\ Len(s) \in Nat
    BY DEF Bytes
  <1> HIDE DEF u
  <1>4. ASSUME NEW k \in 1 .. Len(s)
        PROVE  u[p + k] = s[k]
    <2>1. p + k \in 1 .. Len(b) /\ (p + k <= m \/ p + k > m + Len(t))
      BY <1>2, <1>3
    <2> QED BY <1>1, <1>2, <2>1
  <1>5. Holds(u, p, s)
    BY <1>1, <1>2, <1>4 DEF Holds
  <1> QED BY <1>5 DEF u

LEMMA HoldsNew ==
    ASSUME NEW b \in Bytes, NEW t \in Bytes, NEW m \in Nat, m + Len(t) <= Len(b)
    PROVE  Holds(Overwrite(b, m + 1, t), m, t)
  <1> DEFINE u == Overwrite(b, m + 1, t)
  <1>1. /\ Len(u) = Len(b)
        /\ \A k \in 1 .. Len(t) : m + k <= Len(b) => u[m + k] = t[k]
    BY Overwriting
  <1>2. Len(b) \in Nat /\ Len(t) \in Nat
    BY DEF Bytes
  <1> HIDE DEF u
  <1>3. ASSUME NEW k \in 1 .. Len(t)
        PROVE  u[m + k] = t[k]
    <2>1. m + k <= Len(b)
      BY <1>2
    <2> QED BY <1>1, <2>1
  <1>4. Holds(u, m, t)
    BY <1>1, <1>3 DEF Holds
  <1> QED BY <1>4 DEF u

LEMMA UnpackHeld ==
    ASSUME NEW v \in Nat, v < 65536, NEW u, NEW m \in Nat, Holds(u, m, pack_UINT(v))
    PROVE  unpack_UINT(u, m + 1) = v
  <1>1. Len(pack_UINT(v)) = 2
    BY PackUINT
  <1>2. u[m + 1] = pack_UINT(v)[1] /\ u[m + 2] = pack_UINT(v)[2]
    BY <1>1 DEF Holds
  <1>3. m + 1 \in Nat /\ (m + 1) + 1 = m + 2
    OBVIOUS
  <1> QED BY <1>2, <1>3, UnpackUINT

LEMMA Before ==
    ASSUME NEW q \in Nat, NEW a \in Nat, NEW l \in Nat, NEW c \in Nat, a + l <= c
    PROVE  q + a \in Nat /\ (q + a) + l <= q + c
  OBVIOUS

LEMMA Behind ==
    ASSUME NEW m \in Nat, NEW l \in Nat, NEW q \in Nat, m + l <= q, NEW a \in Nat
    PROVE  q + a \in Nat /\ m + l <= q + a
  OBVIOUS

LEMMA Between ==
    ASSUME NEW p \in Nat, NEW l \in Nat, NEW q \in Nat, NEW m \in Nat, p + l <= q, q <= m
    PROVE  p + l <= m
  OBVIOUS

\* A message of several requests with its first offsets and requests.
Written(b, offsets, placed, requests) ==
    LET n  == Len(requests)
        at == Begin(requests)
    IN  /\ b \in Bytes /\ Len(b) = (8 + 2 * n) + at[n]
        /\ Holds(b, 1, <<2>>) /\ Holds(b, 6, pack_UINT(n))
        /\ \A j \in 0 .. offsets : j < n => Holds(b, 8 + 2 * j, pack_UINT((2 + 2 * n) + at[j]))
        /\ \A j \in 1 .. placed : Holds(b, (8 + 2 * n) + at[j - 1], requests[j])

\* The next offset.
LEMMA OffsetWritten ==
    ASSUME NEW requests \in Seq(Bytes), NEW i \in 1 .. Len(requests), i < Len(requests),
           NEW b, Written(b, i - 1, i - 1, requests)
    PROVE  Written(Overwrite(b, (8 + 2 * i) + 1, pack_UINT((2 + 2 * Len(requests)) + Begin(requests)[i])),
                   i, i - 1, requests)
  <1> DEFINE n == Len(requests)
             at == Begin(requests)
             w == 2 + 2 * n
             q == 8 + 2 * n
             m == 8 + 2 * i
             t == pack_UINT(w + at[i])
             u == Overwrite(b, m + 1, t)
  <1>1. /\ n \in Nat /\ at \in [0 .. n -> Nat]
        /\ \A j \in 1 .. n : at[j - 1] \in Nat /\ requests[j] \in Bytes /\ Len(requests[j]) \in Nat
    BY PartsOf
  <1>2. /\ b \in Bytes /\ Len(b) = q + at[n]
        /\ Holds(b, 1, <<2>>) /\ Holds(b, 6, pack_UINT(n))
        /\ \A j \in 0 .. i - 1 : j < n => Holds(b, 8 + 2 * j, pack_UINT(w + at[j]))
        /\ \A j \in 1 .. i - 1 : Holds(b, q + at[j - 1], requests[j])
    BY DEF Written
  <1>3. i \in 1 .. n /\ i < n /\ i \in Nat
    BY <1>1
  <1> HIDE DEF n, at
  <1>4. /\ w \in Nat /\ q \in Nat /\ m \in Nat /\ m + 2 <= q /\ 8 <= m
        /\ at[i] \in Nat /\ at[n] \in Nat /\ w + at[i] \in Nat
    BY <1>1, <1>3
  <1> HIDE DEF w
  <1>5. t \in Bytes /\ Len(t) = 2
    BY <1>4, PackType
  <1> HIDE DEF m, q, t
  <1>6. u \in Bytes /\ Len(u) = q + at[n]
    BY <1>2, <1>4, <1>5, Overwriting
  <1>7. Holds(u, m, t)
    <2>1. m + Len(t) <= Len(b)
      BY <1>2, <1>4, <1>5
    <2> QED BY <1>2, <1>4, <1>5, <2>1, HoldsNew
  <1>8. Holds(u, 1, <<2>>)
    <2>1. <<2>> \in Bytes /\ Len(<<2>>) = 1
      BY DEF Bytes, Byte
    <2>2. 1 + Len(<<2>>) <= m
      BY <1>4, <2>1
    <2>3. 1 \in Nat
      OBVIOUS
    <2> QED BY <1>2, <1>4, <1>5, <2>1, <2>2, <2>3, HoldsAfter
  <1>9. Holds(u, 6, pack_UINT(n))
    <2>1. pack_UINT(n) \in Bytes /\ Len(pack_UINT(n)) = 2
      BY <1>1, PackType
    <2>2. 6 + Len(pack_UINT(n)) <= m
      BY <1>4, <2>1
    <2>3. 6 \in Nat
      OBVIOUS
    <2> QED BY <1>2, <1>4, <1>5, <2>1, <2>2, <2>3, HoldsAfter
  <1>10. ASSUME NEW j \in 0 .. i, j < n
         PROVE  Holds(u, 8 + 2 * j, pack_UINT(w + at[j]))
    <2>1. CASE j = i
      BY <1>7, <2>1 DEF m, t
    <2>2. CASE j # i
      <3>1. j \in 0 .. i - 1 /\ 8 + 2 * j \in Nat /\ (8 + 2 * j) + 2 <= m /\ j \in 0 .. n
        BY <1>3, <1>1, <2>2 DEF m
      <3>2. w + at[j] \in Nat
        <4>1. at[j] \in Nat
          BY <1>1, <3>1
        <4> QED BY <1>4, <4>1
      <3>3. pack_UINT(w + at[j]) \in Bytes /\ Len(pack_UINT(w + at[j])) = 2
        BY <3>2, PackType
      <3>4. Holds(b, 8 + 2 * j, pack_UINT(w + at[j]))
        BY <1>2, <1>10, <3>1
      <3>5. (8 + 2 * j) + Len(pack_UINT(w + at[j])) <= m
        BY <3>1, <3>3
      <3> HIDE DEF u
      <3> QED BY <1>2, <1>4, <1>5, <3>1, <3>3, <3>4, <3>5, HoldsAfter DEF u
    <2> QED BY <2>1, <2>2
  <1>11. ASSUME NEW j \in 1 .. i - 1
         PROVE  Holds(u, q + at[j - 1], requests[j])
    <2>1. j \in 1 .. n
      BY <1>1, <1>3
    <2>2. at[j - 1] \in Nat /\ requests[j] \in Bytes
      BY <1>1, <2>1
    <2>3. q + at[j - 1] \in Nat /\ m + Len(t) <= q + at[j - 1]
      <3>1. m + Len(t) <= q /\ Len(t) \in Nat
        BY <1>4, <1>5
      <3> QED BY <1>4, <2>2, <3>1, Behind
    <2>4. Holds(b, q + at[j - 1], requests[j])
      BY <1>2
    <2> QED BY <1>2, <1>4, <1>5, <2>2, <2>3, <2>4, HoldsAfter
  <1> HIDE DEF u
  <1>12. Written(u, i, i - 1, requests)
    BY <1>6, <1>8, <1>9, <1>10, <1>11 DEF Written, n, at, w, q
  <1> QED BY <1>12 DEF u, m, t, w, n, at

\* The request itself.
LEMMA RequestWritten ==
    ASSUME NEW requests \in Seq(Bytes), NEW i \in 1 .. Len(requests),
           NEW b, Written(b, i, i - 1, requests)
    PROVE  Written(Overwrite(b, ((8 + 2 * Len(requests)) + Begin(requests)[i - 1]) + 1, requests[i]),
                   i, i, requests)
  <1> DEFINE n == Len(requests)
             at == Begin(requests)
             w == 2 + 2 * n
             q == 8 + 2 * n
             m == q + at[i - 1]
             t == requests[i]
             u == Overwrite(b, m + 1, t)
  <1>1. /\ n \in Nat /\ at \in [0 .. n -> Nat]
        /\ \A j \in 1 .. n : /\ at[j - 1] \in Nat /\ requests[j] \in Bytes /\ Len(requests[j]) \in Nat
                             /\ at[j] = at[j - 1] + Len(requests[j]) /\ at[j] <= at[n]
    BY PartsOf
  <1>2. /\ b \in Bytes /\ Len(b) = q + at[n]
        /\ Holds(b, 1, <<2>>) /\ Holds(b, 6, pack_UINT(n))
        /\ \A j \in 0 .. i : j < n => Holds(b, 8 + 2 * j, pack_UINT(w + at[j]))
        /\ \A j \in 1 .. i - 1 : Holds(b, q + at[j - 1], requests[j])
    BY DEF Written
  <1>3. i \in 1 .. n /\ i \in Nat
    BY <1>1
  <1>0. \A j \in 1 .. i - 1 : at[j] <= at[i - 1]
    <2>1. ASSUME NEW j \in 1 .. i - 1
          PROVE  at[j] <= at[i - 1]
      <3>1. j \in 0 .. Len(requests) /\ i - 1 \in 0 .. Len(requests) /\ j <= i - 1
        BY <1>1, <1>3
      <3> QED BY <3>1, BeginGrows
    <2> QED BY <2>1
  <1> HIDE DEF n, at
  <1>4. /\ w \in Nat /\ q \in Nat /\ 8 <= q /\ at[i - 1] \in Nat /\ at[n] \in Nat
        /\ t \in Bytes /\ Len(t) \in Nat /\ at[i] = at[i - 1] + Len(t) /\ at[i] <= at[n]
    BY <1>1, <1>3
  <1>5. m \in Nat /\ 8 <= m /\ q <= m
    BY <1>4, SMTT(30)
  <1> HIDE DEF w, t
  <1>6. u \in Bytes /\ Len(u) = q + at[n]
    <2> HIDE DEF m, q
    <2> QED BY <1>2, <1>4, <1>5, Overwriting
  <1>7. Holds(u, m, t)
    <2>1. m + Len(t) <= Len(b)
      BY <1>2, <1>4, SMTT(30)
    <2> HIDE DEF m, q
    <2> QED BY <1>2, <1>4, <1>5, <2>1, HoldsNew
  <1> HIDE DEF m
  <1>8. Holds(u, 1, <<2>>)
    <2>1. <<2>> \in Bytes /\ Len(<<2>>) = 1
      BY DEF Bytes, Byte
    <2>2. 1 + Len(<<2>>) <= m
      BY <1>5, <2>1
    <2>3. 1 \in Nat
      OBVIOUS
    <2> QED BY <1>2, <1>4, <1>5, <2>1, <2>2, <2>3, HoldsAfter
  <1>9. Holds(u, 6, pack_UINT(n))
    <2>1. pack_UINT(n) \in Bytes /\ Len(pack_UINT(n)) = 2
      BY <1>1, PackType
    <2>2. 6 + Len(pack_UINT(n)) <= m
      BY <1>5, <2>1
    <2>3. 6 \in Nat
      OBVIOUS
    <2> QED BY <1>2, <1>4, <1>5, <2>1, <2>2, <2>3, HoldsAfter
  <1>10. ASSUME NEW j \in 0 .. i, j < n
         PROVE  Holds(u, 8 + 2 * j, pack_UINT(w + at[j]))
    <2>1. 8 + 2 * j \in Nat /\ (8 + 2 * j) + 2 <= q /\ j \in 0 .. n
      BY <1>1, <1>3, <1>10
    <2>2. w + at[j] \in Nat
      <3>1. at[j] \in Nat
        BY <1>1, <2>1
      <3> QED BY <1>4, <3>1
    <2>3. pack_UINT(w + at[j]) \in Bytes /\ Len(pack_UINT(w + at[j])) = 2
      BY <2>2, PackType
    <2>4. Holds(b, 8 + 2 * j, pack_UINT(w + at[j]))
      BY <1>2, <1>10
    <2> HIDE DEF q
    <2>5. (8 + 2 * j) + Len(pack_UINT(w + at[j])) <= m
      <3>1. (8 + 2 * j) + 2 <= m
        BY <1>4, <1>5, <2>1, Between
      <3> QED BY <2>3, <3>1
    <2> HIDE DEF u
    <2> QED BY <1>2, <1>4, <1>5, <2>1, <2>3, <2>4, <2>5, HoldsAfter DEF u
  <1>11. ASSUME NEW j \in 1 .. i
         PROVE  Holds(u, q + at[j - 1], requests[j])
    <2>1. CASE j = i
      BY <1>7, <2>1 DEF m, t
    <2>2. CASE j # i
      <3>1. j \in 1 .. n /\ j \in 1 .. i - 1
        BY <1>1, <1>3, <2>2
      <3>2. /\ at[j - 1] \in Nat /\ requests[j] \in Bytes /\ Len(requests[j]) \in Nat
            /\ at[j] = at[j - 1] + Len(requests[j]) /\ at[j] <= at[i - 1]
        BY <1>0, <1>1, <3>1
      <3> HIDE DEF q
      <3>3. q + at[j - 1] \in Nat /\ (q + at[j - 1]) + Len(requests[j]) <= m
        <4>1. at[j - 1] + Len(requests[j]) <= at[i - 1]
          BY <3>2
        <4> QED BY <1>4, <3>2, <4>1, Before DEF m
      <3>4. Holds(b, q + at[j - 1], requests[j])
        BY <1>2, <3>1
      <3> HIDE DEF u
      <3> QED BY <1>2, <1>4, <1>5, <3>2, <3>3, <3>4, HoldsAfter DEF u
    <2> QED BY <2>1, <2>2
  <1> HIDE DEF u, q
  <1>12. Written(u, i, i, requests)
    BY <1>6, <1>8, <1>9, <1>10, <1>11 DEF Written, n, at, w, q
  <1> QED BY <1>12 DEF u, m, t, q, n, at
LEMMA CountAndOffset ==
    ASSUME NEW w \in Nat, NEW q \in Nat, NEW a \in Nat, 7 + w = q + 1, w >= 2
    PROVE  w + a # 0 /\ 7 + (w + a) = (q + a) + 1
  OBVIOUS

\* What CIP_MultiRequest_item returns for the next request, and writes.
LEMMA NextItem ==
    ASSUME NEW requests \in Seq(Bytes), NEW i \in 1 .. Len(requests),
           (8 + 2 * Len(requests)) + Begin(requests)[Len(requests)] < 65536,
           NEW b, Written(b, i - 1, i - 1, requests)
    PROVE  LET next == CIP_MultiRequest_item(b, i - 1, Len(requests[i]))
           IN  /\ next.item = ((8 + 2 * Len(requests)) + Begin(requests)[i - 1]) + 1
               /\ next.buf = IF i < Len(requests)
                             THEN Overwrite(b, (8 + 2 * i) + 1,
                                     pack_UINT((2 + 2 * Len(requests)) + Begin(requests)[i]))
                             ELSE b
  <1> DEFINE n == Len(requests)
             at == Begin(requests)
             w == 2 + 2 * n
             q == 8 + 2 * n
             l == Len(requests[i])
             no == i - 1
             next == CIP_MultiRequest_item(b, no, l)
  <1>1. /\ n \in Nat /\ at[i - 1] \in Nat /\ at[i] \in Nat /\ at[n] \in Nat /\ l \in Nat
        /\ at[i] = at[i - 1] + l /\ at[i] <= at[n]
    <2>1. /\ n \in Nat /\ at \in [0 .. n -> Nat]
          /\ \A j \in 1 .. n : /\ at[j - 1] \in Nat /\ at[j] \in Nat /\ Len(requests[j]) \in Nat
                               /\ at[j] = at[j - 1] + Len(requests[j]) /\ at[j] <= at[n]
      BY PartsOf
    <2> HIDE DEF at
    <2> QED BY <2>1
  <1>2. /\ Holds(b, 1, <<2>>) /\ Holds(b, 6, pack_UINT(n))
        /\ \A j \in 0 .. i - 1 : j < n => Holds(b, 8 + 2 * j, pack_UINT(w + at[j]))
    BY DEF Written
  <1>3. q + at[n] < 65536
    OBVIOUS
  <1>4. i \in 1 .. n
    OBVIOUS
  <1> HIDE DEF n, at, l, next
  <1>5. /\ no \in Nat /\ no < n /\ no \in 0 .. i - 1 /\ no + 1 = i
        /\ w \in Nat /\ q \in Nat /\ w <= q /\ 7 + w = q + 1 /\ n <= q
    BY <1>1, <1>4
  <1>6. raw_MR_Request_data(b, 1) = 7
    <2>1. Len(<<2>>) = 1
      OBVIOUS
    <2>2. b[1 + 1] = 2
      BY <1>2, <2>1 DEF Holds
    <2> QED BY <2>2 DEF raw_MR_Request_data
  <1> HIDE DEF w, q
  <1>7. unpack_UINT(b, 7) = n
    <2>1. n < 65536
      BY <1>1, <1>3, <1>5
    <2>2. unpack_UINT(b, 6 + 1) = n
      BY <1>1, <1>2, <2>1, UnpackHeld
    <2> QED BY <2>2
  <1>8. unpack_UINT(b, (7 + 2) + 2 * no) = w + at[no]
    <2>1. at[no] \in Nat /\ at[no] <= at[n]
      BY <1>1
    <2>2. w + at[no] \in Nat /\ w + at[no] < 65536
      <3>1. w \in Nat /\ q \in Nat /\ w <= q
        BY <1>5
      <3>2. at[n] \in Nat /\ q + at[n] < 65536
        BY <1>1, <1>3
      <3> QED BY <2>1, <3>1, <3>2, OffsetFits
    <2>3. Holds(b, 8 + 2 * no, pack_UINT(w + at[no]))
      BY <1>2, <1>5
    <2>4. 8 + 2 * no \in Nat /\ (8 + 2 * no) + 1 = (7 + 2) + 2 * no
      BY <1>5
    <2>5. unpack_UINT(b, (8 + 2 * no) + 1) = w + at[no]
      BY <2>2, <2>3, <2>4, UnpackHeld
    <2> QED BY <2>4, <2>5
  <1>9. w + at[no] # 0 /\ 7 + (w + at[no]) = (q + at[no]) + 1
    <2>1. at[no] \in Nat /\ w >= 2
      BY <1>1 DEF w
    <2> QED BY <1>5, <2>1, CountAndOffset, SMTT(30)
  <1>10. /\ (7 + 2) + 2 * (no + 1) = (8 + 2 * i) + 1
         /\ (w + at[no]) + l = w + at[i]
    BY <1>1, <1>5
  <1>11. /\ next.item = 7 + (w + at[no])
         /\ next.buf = IF no + 1 < n
                       THEN Overwrite(b, (7 + 2) + 2 * (no + 1), pack_UINT((w + at[no]) + l))
                       ELSE b
    <2> DEFINE o == w + at[no]
    <2>1. o # 0 /\ unpack_UINT(b, (7 + 2) + 2 * no) = o
      BY <1>8, <1>9
    <2> HIDE DEF o
    <2>2. next = [buf |-> IF no + 1 < n
                          THEN Overwrite(b, (7 + 2) + 2 * (no + 1), pack_UINT(o + l)) ELSE b,
                  item |-> 7 + o]
      BY <1>5, <1>6, <1>7, <2>1 DEF CIP_MultiRequest_item, next
    <2> QED BY <2>2 DEF o
  <1> QED BY <1>5, <1>9, <1>10, <1>11 DEF next, n, at, w, q, l

\* One step of building: the next offset and the request.
Placed(b, i, requests) ==
    LET next == CIP_MultiRequest_item(b, i - 1, Len(requests[i]))
    IN  Overwrite(next.buf, next.item, requests[i])

LEMMA PlacedIsWritten ==
    ASSUME NEW requests \in Seq(Bytes), NEW i \in 1 .. Len(requests),
           (8 + 2 * Len(requests)) + Begin(requests)[Len(requests)] < 65536,
           NEW b, Written(b, i - 1, i - 1, requests)
    PROVE  Written(Placed(b, i, requests), i, i, requests)
  <1> DEFINE next == CIP_MultiRequest_item(b, i - 1, Len(requests[i]))
  <1>1. /\ next.item = ((8 + 2 * Len(requests)) + Begin(requests)[i - 1]) + 1
        /\ next.buf = IF i < Len(requests)
                      THEN Overwrite(b, (8 + 2 * i) + 1,
                              pack_UINT((2 + 2 * Len(requests)) + Begin(requests)[i]))
                      ELSE b
    BY NextItem
  <1>2. Placed(b, i, requests) = Overwrite(next.buf, next.item, requests[i])
    BY DEF Placed
  <1> HIDE DEF next
  <1>3. Written(next.buf, i, i - 1, requests)
    <2>1. CASE i < Len(requests)
      BY <1>1, <2>1, OffsetWritten
    <2>2. CASE ~(i < Len(requests))
      <3>1. next.buf = b
        BY <1>1, <2>2
      <3>2. \A j \in 0 .. i : j < Len(requests) => j \in 0 .. i - 1
        BY <2>2
      <3> QED BY <3>1, <3>2 DEF Written
    <2> QED BY <2>1, <2>2
  <1> QED BY <1>1, <1>2, <1>3, RequestWritten
OldBehind(b, m, old) == \A k \in m + 1 .. Len(b) : b[k] = old

Padded(s, t, old) ==
    /\ Len(s) <= Len(t)
    /\ \A k \in 1 .. Len(t) : t[k] = IF k <= Len(s) THEN s[k] ELSE old

\* Behind the requests that are placed there is what the buffer held.
WrittenOver(b, i, parts, old) ==
    /\ Written(b, i, i, parts)
    /\ OldBehind(b, (8 + 2 * Len(parts)) + Begin(parts)[i], old)

\* Requests in places of their own size or more, short enough for the offsets.
InPlaces(requests, parts, old) ==
    /\ requests \in Seq(Bytes) /\ parts \in Seq(Bytes) /\ Len(requests) = Len(parts)
    /\ (8 + 2 * Len(parts)) + Begin(parts)[Len(parts)] < 65536
    /\ \A i \in 1 .. Len(parts) : Padded(requests[i], parts[i], old)

PlacedIn(b, i, requests, parts) ==
    LET next == CIP_MultiRequest_item(b, i - 1, Len(parts[i]))
    IN  Overwrite(next.buf, next.item, requests[i])

LEMMA OverOld ==
    ASSUME NEW b \in Bytes, NEW m \in Nat, NEW s \in Bytes, NEW t \in Bytes, NEW old,
           m + Len(t) <= Len(b), Padded(s, t, old), OldBehind(b, m, old)
    PROVE  /\ Overwrite(b, m + 1, s) = Overwrite(b, m + 1, t)
           /\ OldBehind(Overwrite(b, m + 1, t), m + Len(t), old)
  <1>1. Len(b) \in Nat /\ Len(s) \in Nat /\ Len(t) \in Nat
    BY DEF Bytes
  <1>6. /\ Len(s) <= Len(t)
        /\ \A k \in 1 .. Len(t) : t[k] = IF k <= Len(s) THEN s[k] ELSE old
        /\ \A k \in m + 1 .. Len(b) : b[k] = old
    BY DEF Padded, OldBehind
  <1> DEFINE Put(x, k) == IF k \in m + 1 .. (m + 1) + Len(x) - 1 THEN x[k - (m + 1) + 1] ELSE b[k]
  <1>2. ASSUME NEW k \in 1 .. Len(b)
        PROVE  Put(s, k) = Put(t, k)
    <2>1. CASE k \in m + 1 .. m + Len(s)
      <3>1. /\ k - (m + 1) + 1 \in 1 .. Len(t) /\ k - (m + 1) + 1 <= Len(s)
            /\ k \in m + 1 .. (m + 1) + Len(s) - 1 /\ k \in m + 1 .. (m + 1) + Len(t) - 1
        BY <1>1, <1>6, <2>1
      <3> QED BY <1>6, <3>1
    <2>2. CASE k \in (m + Len(s)) + 1 .. m + Len(t)
      <3>1. /\ k - (m + 1) + 1 \in 1 .. Len(t) /\ ~(k - (m + 1) + 1 <= Len(s))
            /\ k \notin m + 1 .. (m + 1) + Len(s) - 1 /\ k \in m + 1 .. (m + 1) + Len(t) - 1
            /\ k \in m + 1 .. Len(b)
        BY <1>1, <1>6, <2>2
      <3>2. Put(s, k) = b[k] /\ Put(t, k) = t[k - (m + 1) + 1]
        BY <3>1
      <3>3. b[k] = old /\ t[k - (m + 1) + 1] = old
        BY <1>6, <3>1
      <3> QED BY <3>2, <3>3
    <2>3. CASE k \notin m + 1 .. m + Len(t)
      <3>1. k \notin m + 1 .. (m + 1) + Len(s) - 1 /\ k \notin m + 1 .. (m + 1) + Len(t) - 1
        BY <1>1, <1>6, <2>3
      <3> QED BY <3>1
    <2> QED BY <1>1, <1>6, <2>1, <2>2, <2>3
  <1>3. /\ Overwrite(b, m + 1, s) = [k \in 1 .. Len(b) |-> Put(s, k)]
        /\ Overwrite(b, m + 1, t) = [k \in 1 .. Len(b) |-> Put(t, k)]
    BY DEF Overwrite
  <1>4. ASSUME NEW k \in (m + Len(t)) + 1 .. Len(b)
        PROVE  Put(t, k) = old
    <2>1. k \in m + 1 .. Len(b) /\ k \notin m + 1 .. (m + 1) + Len(t) - 1
      BY <1>1
    <2> QED BY <1>6, <2>1
  <1>5. \A k \in (m + Len(t)) + 1 .. Len(b) : k \in 1 .. Len(b)
    BY <1>1
  <1> HIDE DEF Put
  <1>7. Overwrite(b, m + 1, s) = Overwrite(b, m + 1, t)
    BY <1>2, <1>3
  <1>8. Len(Overwrite(b, m + 1, t)) = Len(b)
    BY Overwriting
  <1>9. OldBehind(Overwrite(b, m + 1, t), m + Len(t), old)
    BY <1>3, <1>4, <1>5, <1>8 DEF OldBehind
  <1> QED BY <1>7, <1>9

LEMMA PlaceIs ==
    ASSUME NEW q \in Nat, NEW a \in Nat, NEW l \in Nat, NEW e \in Nat, NEW z \in Nat,
           e = a + l, e <= z
    PROVE  q + a \in Nat /\ q <= q + a /\ (q + a) + l = q + e /\ (q + a) + l <= q + z
  OBVIOUS

LEMMA OffsetBefore ==
    ASSUME NEW n \in Nat, NEW i \in 1 .. n, i < n, NEW m \in Nat, 8 + 2 * n <= m
    PROVE  8 + 2 * i \in Nat /\ (8 + 2 * i) + 2 <= m
  OBVIOUS

LEMMA Apart ==
    ASSUME NEW p \in Nat, NEW m \in Nat, NEW e \in Nat, p + 2 <= m, NEW k \in m + 1 .. e
    PROVE  k \in 1 .. e /\ k \notin p + 1 .. (p + 1) + 2 - 1
  OBVIOUS

\* Placing a short request is as good as placing it with the old bytes behind.
LEMMA SamePlace ==
    ASSUME NEW requests, NEW parts, NEW old, InPlaces(requests, parts, old),
           NEW i \in 1 .. Len(parts), NEW b, WrittenOver(b, i - 1, parts, old)
    PROVE  WrittenOver(PlacedIn(b, i, requests, parts), i, parts, old)
  <1> DEFINE n == Len(parts)
             at == Begin(parts)
             q == 8 + 2 * n
             m == q + at[i - 1]
             s == requests[i]
             t == parts[i]
             next == CIP_MultiRequest_item(b, i - 1, Len(t))
             c == next.buf
  <1>0. /\ parts \in Seq(Bytes) /\ requests \in Seq(Bytes) /\ Len(requests) = n
        /\ (8 + 2 * Len(parts)) + Begin(parts)[Len(parts)] < 65536
    BY DEF InPlaces
  <1>1. /\ n \in Nat /\ at[i - 1] \in Nat /\ at[i] \in Nat /\ at[n] \in Nat
        /\ at[i] = at[i - 1] + Len(t) /\ at[i] <= at[n]
        /\ t \in Bytes /\ Len(t) \in Nat /\ s \in Bytes /\ Len(s) \in Nat
    <2>1. /\ n \in Nat /\ at \in [0 .. n -> Nat]
          /\ \A j \in 1 .. n : /\ at[j - 1] \in Nat /\ at[j] \in Nat
                               /\ parts[j] \in Bytes /\ Len(parts[j]) \in Nat
                               /\ at[j] = at[j - 1] + Len(parts[j]) /\ at[j] <= at[n]
      BY <1>0, PartsOf
    <2>2. s \in Bytes /\ Len(s) \in Nat
      BY <1>0 DEF Bytes
    <2> HIDE DEF at
    <2> QED BY <2>1, <2>2
  <1>2. Written(b, i - 1, i - 1, parts) /\ OldBehind(b, m, old)
    BY DEF WrittenOver
  <1>3. b \in Bytes /\ Len(b) = q + at[n]
    BY <1>2 DEF Written
  <1>4. /\ next.item = m + 1
        /\ c = IF i < n THEN Overwrite(b, (8 + 2 * i) + 1, pack_UINT((2 + 2 * n) + at[i])) ELSE b
    BY <1>0, <1>2, NextItem
  <1>5. Padded(s, t, old)
    BY DEF InPlaces
  <1>6. PlacedIn(b, i, requests, parts) = Overwrite(c, m + 1, s)
    BY <1>4 DEF PlacedIn
  <1>7. Placed(b, i, parts) = Overwrite(c, m + 1, t)
    BY <1>4 DEF Placed
  <1>8. Written(Placed(b, i, parts), i, i, parts)
    BY <1>0, <1>2, PlacedIsWritten
  <1>16. i \in 1 .. n
    OBVIOUS
  <1> HIDE DEF n, at, s, t, next, c
  <1>9. m \in Nat /\ q \in Nat /\ q <= m /\ m + Len(t) = q + at[i] /\ m + Len(t) <= Len(b)
    <2> DEFINE a == at[i - 1]
               l == Len(t)
               e == at[i]
               z == at[n]
    <2>1. n \in Nat /\ a \in Nat /\ l \in Nat /\ e \in Nat /\ z \in Nat /\ e = a + l /\ e <= z
      BY <1>1
    <2>2. q \in Nat
      BY <2>1
    <2> HIDE DEF q
    <2>3. m \in Nat /\ q <= m /\ m + l = q + e /\ m + l <= q + z
      <3> HIDE DEF a, l, e, z
      <3>1. q + a \in Nat /\ q <= q + a /\ (q + a) + l = q + e /\ (q + a) + l <= q + z
        BY <2>1, <2>2, PlaceIs
      <3> QED BY <3>1 DEF a
    <2> HIDE DEF m
    <2> QED BY <1>3, <2>2, <2>3
  <1>10. c \in Bytes /\ Len(c) = Len(b) /\ \A k \in m + 1 .. Len(b) : c[k] = b[k]
    <2>1. CASE i < n
      <3> DEFINE o == (2 + 2 * n) + at[i]
                 p == 8 + 2 * i
      <3>1. o \in Nat /\ p \in Nat /\ p + 2 <= m
        <4>1. o \in Nat
          BY <1>1
        <4>2. n \in Nat /\ m \in Nat /\ 8 + 2 * n <= m
          <5>1. n \in Nat /\ m \in Nat /\ q <= m
            BY <1>1, <1>9
          <5> HIDE DEF m
          <5> QED BY <5>1
        <4> HIDE DEF o, m, q
        <4> QED BY <1>16, <2>1, <4>1, <4>2, OffsetBefore
      <3>2. pack_UINT(o) \in Bytes /\ Len(pack_UINT(o)) = 2
        BY <3>1, PackType
      <3>3. c = Overwrite(b, p + 1, pack_UINT(o))
        BY <1>4, <2>1
      <3> HIDE DEF o, p
      <3>4. c \in Bytes /\ Len(c) = Len(b)
        BY <1>3, <3>1, <3>2, <3>3, Overwriting
      <3>5. ASSUME NEW k \in m + 1 .. Len(b)
            PROVE  c[k] = b[k]
        <4>1. k \in 1 .. Len(b) /\ k \notin p + 1 .. (p + 1) + 2 - 1
          <5>1. p \in Nat /\ m \in Nat /\ p + 2 <= m /\ Len(b) \in Nat
            BY <1>3, <1>9, <3>1 DEF Bytes
          <5> HIDE DEF m
          <5> QED BY <5>1, Apart
        <4> QED BY <3>2, <3>3, <4>1 DEF Overwrite
      <3> QED BY <3>4, <3>5
    <2>2. CASE ~(i < n)
      BY <1>3, <1>4, <2>2
    <2> QED BY <2>1, <2>2
  <1> HIDE DEF m, q
  <1>11. OldBehind(c, m, old)
    BY <1>2, <1>10 DEF OldBehind
  <1>12. /\ Overwrite(c, m + 1, s) = Overwrite(c, m + 1, t)
         /\ OldBehind(Overwrite(c, m + 1, t), m + Len(t), old)
    <2>1. m \in Nat /\ m + Len(t) <= Len(c)
      BY <1>9, <1>10
    <2>2. c \in Bytes /\ s \in Bytes /\ t \in Bytes
      BY <1>1, <1>10
    <2> QED BY <1>5, <1>11, <2>1, <2>2, OverOld
  <1>14. OldBehind(Placed(b, i, parts), q + at[i], old)
    BY <1>7, <1>9, <1>12
  <1>15. PlacedIn(b, i, requests, parts) = Placed(b, i, parts)
    BY <1>6, <1>7, <1>12
  <1> QED BY <1>8, <1>14, <1>15 DEF WrittenOver, q, n, at

\* The message before its first request is placed.
LEMMA NothingPlaced ==
    ASSUME NEW requests \in Seq(Bytes), requests # <<>>, NEW old \in Byte
    PROVE  WrittenOver(prepare_CIP_MultiRequest(
                       (8 + 2 * Len(requests)) + Begin(requests)[Len(requests)],
                       Len(requests), old), 0, requests, old)
  <1> DEFINE n == Len(requests)
             at == Begin(requests)
             w == 2 + 2 * n
             H1 == <<10, 2>>
             H2 == <<32, 2>> \o <<36, 1>>
             H3 == H2 \o <<>>
             H == H1 \o H3
             C == pack_UINT(n)
             F == pack_UINT((n + 1) * 2)
             Z == [i \in 1 .. 2 * (n - 1) |-> 0]
             A == H \o C
             B == A \o F
             start == B \o Z
             size == (8 + 2 * n) + at[n]
             L == [i \in 1 .. size - Len(start) |-> old]
             b == start \o L
  <1>1. n \in Nat /\ n >= 1 /\ at[n] \in Nat /\ at[0] = 0
    <2>1. n \in Nat /\ at \in [0 .. n -> Nat] /\ at[0] = 0
      BY PartsOf
    <2>2. n # 0
      BY EmptySeq
    <2> HIDE DEF n, at
    <2> QED BY <2>1, <2>2
  <1>2. b = prepare_CIP_MultiRequest(size, n, old)
    <2>1. MultiHead(n) = H \o C
      <3>1. 1 % 65536 = 1
        OBVIOUS
      <3>2. make_CIA_path(C_MessageRouter, 1, 0) = H3
        BY <3>1 DEF make_CIA_path, C_MessageRouter
      <3>3. make_MR_Request(S_CIP_MultiRequest, CIA_path_size(1, 0)) = H1
        BY DEF make_MR_Request, S_CIP_MultiRequest, CIA_path_size
      <3> QED BY <3>2, <3>3 DEF MultiHead
    <2> QED BY <2>1 DEF prepare_CIP_MultiRequest
  <1> HIDE DEF n, at
  <1>3. H \in Bytes /\ Len(H) = 6 /\ H[2] = 2
    <2>1. /\ H1 \in Bytes /\ Len(H1) = 2 /\ H1[2] = 2
          /\ <<32, 2>> \in Bytes /\ Len(<<32, 2>>) = 2
          /\ <<36, 1>> \in Bytes /\ Len(<<36, 1>>) = 2
          /\ <<>> \in Bytes /\ Len(<<>>) = 0
      BY DEF Bytes, Byte
    <2>2. H2 \in Bytes /\ Len(H2) = 4
      <3>1. H2 \in Bytes /\ Len(H2) = Len(<<32, 2>>) + Len(<<36, 1>>)
        BY <2>1, Join
      <3> QED BY <2>1, <3>1
    <2> HIDE DEF H1, H2
    <2>3. H3 \in Bytes /\ Len(H3) = 4
      <3>1. H3 \in Bytes /\ Len(H3) = Len(H2) + Len(<<>>)
        BY <2>1, <2>2, Join
      <3> QED BY <2>1, <2>2, <3>1
    <2> HIDE DEF H3
    <2>4. /\ H \in Bytes /\ Len(H) = Len(H1) + Len(H3)
          /\ \A i \in 1 .. Len(H1) : H[i] = H1[i]
      BY <2>1, <2>3, Join, ZenonT(60)
    <2> QED BY <2>1, <2>3, <2>4
  <1>4. C \in Bytes /\ Len(C) = 2
    BY <1>1, PackType
  <1>5. F \in Bytes /\ Len(F) = 2
    <2>1. (n + 1) * 2 \in Nat
      BY <1>1
    <2> QED BY <2>1, PackType
  <1>6. Z \in Bytes /\ Len(Z) = 2 * (n - 1) /\ 2 * (n - 1) \in Nat
    <2>1. Z \in [1 .. 2 * (n - 1) -> Byte] /\ 2 * (n - 1) \in Nat
      BY <1>1 DEF Byte
    <2> HIDE DEF Z
    <2>2. Z \in Seq(Byte) /\ Len(Z) = 2 * (n - 1)
      BY <2>1, FunctionIsSeq
    <2> QED BY <2>1, <2>2 DEF Bytes
  <1> HIDE DEF H, C, F, Z
  <1>7. A \in Bytes /\ Len(A) = 8 /\ A[2] = 2 /\ Holds(A, 6, C)
    <2>1. /\ A \in Bytes /\ Len(A) = Len(H) + Len(C)
          /\ \A i \in 1 .. Len(H) : A[i] = H[i]
          /\ \A i \in 1 .. Len(C) : A[Len(H) + i] = C[i]
      BY <1>3, <1>4, Join
    <2> HIDE DEF A
    <2>2. Len(A) = 8 /\ A[2] = 2
      BY <1>3, <1>4, <2>1
    <2>3. \A i \in 1 .. Len(C) : A[6 + i] = C[i]
      BY <1>3, <2>1
    <2>4. 6 \in Nat /\ 6 + Len(C) <= Len(A)
      BY <1>4, <2>2
    <2>5. Holds(A, 6, C)
      BY <2>3, <2>4 DEF Holds
    <2> QED BY <2>1, <2>2, <2>5
  <1> HIDE DEF A
  <1>8. /\ B \in Bytes /\ Len(B) = 10
        /\ \A i \in 1 .. 8 : B[i] = A[i]
        /\ \A i \in 1 .. 2 : B[8 + i] = F[i]
    <2>1. /\ B \in Bytes /\ Len(B) = Len(A) + Len(F)
          /\ \A i \in 1 .. Len(A) : B[i] = A[i]
          /\ \A i \in 1 .. Len(F) : B[Len(A) + i] = F[i]
      BY <1>5, <1>7, Join
    <2> QED BY <1>5, <1>7, <2>1, SMTT(30)
  <1> HIDE DEF B
  <1>9. /\ start \in Bytes /\ Len(start) = 8 + 2 * n
        /\ \A i \in 1 .. 10 : start[i] = B[i]
    <2>1. /\ start \in Bytes /\ Len(start) = Len(B) + Len(Z)
          /\ \A i \in 1 .. Len(B) : start[i] = B[i]
      BY <1>6, <1>8, Join, ZenonT(30)
    <2>2. 10 + 2 * (n - 1) = 8 + 2 * n
      BY <1>1
    <2> QED BY <1>6, <1>8, <2>1, <2>2
  <1> HIDE DEF start
  <1>10. L \in Bytes /\ Len(L) = at[n]
    <2>1. size - Len(start) = at[n]
      BY <1>1, <1>9
    <2>2. L = [i \in 1 .. at[n] |-> old]
      BY <2>1
    <2>3. [i \in 1 .. at[n] |-> old] \in [1 .. at[n] -> Byte]
      OBVIOUS
    <2> HIDE DEF L
    <2>4. L \in [1 .. at[n] -> Byte]
      BY <2>2, <2>3
    <2>5. L \in Seq(Byte) /\ Len(L) = at[n]
      BY <1>1, <2>4, FunctionIsSeq
    <2> QED BY <2>5 DEF Bytes
  <1> HIDE DEF L
  <1>18. /\ b \in Bytes /\ Len(b) = Len(start) + Len(L)
         /\ \A i \in 1 .. Len(start) : b[i] = start[i]
         /\ \A i \in 1 .. Len(L) : b[Len(start) + i] = L[i]
    BY <1>9, <1>10, Join
  <1>11. /\ b \in Bytes /\ Len(b) = (8 + 2 * n) + at[n]
         /\ \A i \in 1 .. 10 : b[i] = B[i]
    <2>2. \A i \in 1 .. 10 : i \in 1 .. Len(start)
      BY <1>1, <1>9
    <2> QED BY <1>9, <1>10, <1>18, <2>2
  <1> HIDE DEF b
  <1>19. OldBehind(b, (8 + 2 * n) + at[0], old)
    <2>1. ASSUME NEW k \in ((8 + 2 * n) + at[0]) + 1 .. Len(b)
          PROVE  b[k] = old
      <3>1. /\ k - (8 + 2 * n) \in 1 .. at[n] /\ (8 + 2 * n) + (k - (8 + 2 * n)) = k
        <4>1. n \in Nat /\ at[0] = 0 /\ at[n] \in Nat
          BY <1>1
        <4>2. k \in (8 + 2 * n) + 1 .. (8 + 2 * n) + at[n]
          BY <1>11, <4>1
        <4> QED BY <4>1, <4>2
      <3>2. L[k - (8 + 2 * n)] = old
        <4>1. \A i \in 1 .. at[n] : L[i] = old
          BY <1>9, <1>1 DEF L
        <4> QED BY <3>1, <4>1
      <3> QED BY <1>9, <1>10, <1>18, <3>1, <3>2
    <2> QED BY <2>1 DEF OldBehind
  <1>12. (8 + 2 * n) + at[n] >= 10 /\ Len(b) \in Nat
    BY <1>1, <1>11
  <1>13. Holds(b, 1, <<2>>)
    <2>1. b[1 + 1] = 2 /\ Len(<<2>>) = 1
      BY <1>7, <1>8, <1>11
    <2>2. 1 + 1 <= Len(b)
      BY <1>11, <1>12
    <2> QED BY <2>1, <2>2 DEF Holds
  <1>14. Holds(b, 6, C)
    <2>1. \A i \in 1 .. 2 : A[6 + i] = C[i]
      BY <1>4, <1>7 DEF Holds
    <2>2. \A i \in 1 .. 2 : b[6 + i] = C[i]
      BY <1>8, <1>11, <2>1
    <2>3. 6 + 2 <= Len(b)
      BY <1>11, <1>12
    <2> QED BY <1>4, <2>2, <2>3 DEF Holds
  <1>15. Holds(b, 8, F)
    <2>1. \A i \in 1 .. 2 : b[8 + i] = F[i]
      BY <1>8, <1>11
    <2>2. 8 + 2 <= Len(b)
      BY <1>11, <1>12
    <2> QED BY <1>5, <2>1, <2>2 DEF Holds
  <1>16. ASSUME NEW j \in 0 .. 0, j < n
         PROVE  Holds(b, 8 + 2 * j, pack_UINT(w + at[j]))
    <2>1. j = 0 /\ 8 + 2 * j = 8 /\ w + at[j] = (n + 1) * 2
      BY <1>1
    <2> QED BY <1>15, <2>1 DEF F
  <1>17. Written(b, 0, 0, requests)
    BY <1>11, <1>13, <1>14, <1>16 DEF Written, n, at, C
  <1>20. WrittenOver(b, 0, requests, old)
    BY <1>17, <1>19 DEF WrittenOver, n, at
  <1> QED BY <1>2, <1>20 DEF n, at
\* Building places one request after the other.
Building(f, requests, parts, old) ==
    /\ WrittenOver(f[0], 0, parts, old)
    /\ \A i \in 1 .. Len(parts) : WrittenOver(f[i - 1], i - 1, parts, old)
                                      => f[i] = PlacedIn(f[i - 1], i, requests, parts)

Built(f, parts, old) == \A i \in 0 .. Len(parts) : WrittenOver(f[i], i, parts, old)

LEMMA WrittenUpTo ==
    ASSUME NEW requests, NEW parts, NEW old, InPlaces(requests, parts, old),
           NEW f, Building(f, requests, parts, old)
    PROVE  Built(f, parts, old)
  <1> DEFINE n == Len(parts)
             P == {i \in Nat : i <= n => WrittenOver(f[i], i, parts, old)}
  <1>0. n \in Nat
    BY PartsOf DEF InPlaces
  <1>1. 0 \in P
    BY DEF Building
  <1>2. ASSUME NEW i \in Nat, i \in P
        PROVE  i + 1 \in P
    <2>1. SUFFICES ASSUME i + 1 <= n PROVE WrittenOver(f[i + 1], i + 1, parts, old)
      OBVIOUS
    <2>2. i + 1 \in 1 .. n /\ (i + 1) - 1 = i /\ i <= n
      BY <1>0, <2>1
    <2>3. WrittenOver(f[i], i, parts, old)
      BY <1>2, <2>2
    <2>4. f[i + 1] = PlacedIn(f[i], i + 1, requests, parts)
      BY <2>2, <2>3 DEF Building
    <2>5. WrittenOver(PlacedIn(f[i], i + 1, requests, parts), i + 1, parts, old)
      <3>1. WrittenOver(f[i], (i + 1) - 1, parts, old)
        BY <2>2, <2>3
      <3>2. i + 1 \in 1 .. Len(parts)
        BY <2>2
      <3> QED BY <3>1, <3>2, SamePlace
    <2> QED BY <2>4, <2>5
  <1> HIDE DEF P
  <1>3. Nat \subseteq P
    BY <1>1, <1>2, Induction
  <1>4. \A i \in 0 .. n : i \in P /\ i <= n
    BY <1>0, <1>3
  <1> QED BY <1>4 DEF P, Built

\* The recursive function of BuildMultiRequest, which there is if any function
\* satisfies its equation.
Build(requests, sizes, n, prep) ==
    LET place(buf, i) ==
            LET next == CIP_MultiRequest_item(buf, i - 1, sizes[i])
            IN  Overwrite(next.buf, next.item, requests[i])
        build[i \in 0 .. n] == IF i = 0 THEN prep ELSE place(build[i - 1], i)
    IN  build

IsBuild(g, requests, sizes, n, prep) ==
    g = [i \in 0 .. n |->
            IF i = 0 THEN prep
            ELSE LET next == CIP_MultiRequest_item(g[i - 1], i - 1, sizes[i])
                 IN  Overwrite(next.buf, next.item, requests[i])]

LEMMA BuildIs ==
    ASSUME NEW requests, NEW sizes, NEW n, NEW prep, NEW f, IsBuild(f, requests, sizes, n, prep)
    PROVE  IsBuild(Build(requests, sizes, n, prep), requests, sizes, n, prep)
  <1> DEFINE Is(g) == IsBuild(g, requests, sizes, n, prep)
  <1>1. Build(requests, sizes, n, prep) = CHOOSE g : Is(g)
    BY DEF Build, IsBuild
  <1>2. \E g : Is(g)
    OBVIOUS
  <1>3. Is(CHOOSE g : Is(g))
    BY <1>2
  <1> QED BY <1>1, <1>3

\* A sequence of messages, each with one more request.
Steps(f, prep, n, requests, parts) ==
    /\ f \in [0 .. n -> Bytes] /\ f[0] = prep
    /\ \A i \in 1 .. n : f[i] = PlacedIn(f[i - 1], i, requests, parts)

PlaceSizes(sizes, parts) == sizes = [i \in 1 .. Len(parts) |-> Len(parts[i])]

LEMMA BuildSteps ==
    ASSUME NEW requests, NEW parts, NEW sizes, NEW prep, NEW old, NEW g,
           InPlaces(requests, parts, old), PlaceSizes(sizes, parts),
           IsBuild(g, requests, sizes, Len(parts), prep), WrittenOver(prep, 0, parts, old)
    PROVE  Building(g, requests, parts, old)
  <1> DEFINE n == Len(parts)
  <1>1. \A i \in 0 .. n : g[i] = IF i = 0 THEN prep
                                 ELSE LET next == CIP_MultiRequest_item(g[i - 1], i - 1, sizes[i])
                                      IN  Overwrite(next.buf, next.item, requests[i])
    BY DEF IsBuild
  <1>2. 0 \in 0 .. n /\ \A i \in 1 .. n : i \in 0 .. n /\ i # 0
    BY PartsOf DEF InPlaces
  <1>3. \A i \in 1 .. n : sizes[i] = Len(parts[i])
    BY DEF PlaceSizes
  <1> HIDE DEF n
  <1>4. \A i \in 1 .. n : g[i] = PlacedIn(g[i - 1], i, requests, parts)
    BY <1>1, <1>2, <1>3 DEF PlacedIn
  <1>5. g[0] = prep
    BY <1>1, <1>2
  <1> QED BY <1>4, <1>5 DEF Building, n

LEMMA StepsBuild ==
    ASSUME NEW requests, NEW parts, NEW sizes, NEW prep, NEW f,
           PlaceSizes(sizes, parts), Steps(f, prep, Len(parts), requests, parts)
    PROVE  IsBuild(f, requests, sizes, Len(parts), prep)
  <1> DEFINE n == Len(parts)
             Rest(i) == LET next == CIP_MultiRequest_item(f[i - 1], i - 1, sizes[i])
                        IN  Overwrite(next.buf, next.item, requests[i])
  <1>1. ASSUME NEW i \in 1 .. n
        PROVE  PlacedIn(f[i - 1], i, requests, parts) = Rest(i)
    BY DEF PlacedIn, PlaceSizes
  <1>2. ASSUME NEW i \in 0 .. n
        PROVE  f[i] = IF i = 0 THEN prep ELSE Rest(i)
    <2>1. i # 0 => i \in 1 .. n
      OBVIOUS
    <2> HIDE DEF Rest
    <2> QED BY <1>1, <2>1 DEF Steps
  <1>3. f = [i \in 0 .. n |-> f[i]]
    BY DEF Steps
  <1>4. f = [i \in 0 .. n |-> IF i = 0 THEN prep ELSE Rest(i)]
    <2> HIDE DEF Rest
    <2> QED BY <1>2, <1>3
  <1> QED BY <1>4 DEF IsBuild

\* Placing one after the other can be done.
LEMMA BuildExists ==
    ASSUME NEW requests, NEW parts, NEW old, InPlaces(requests, parts, old),
           NEW prep, WrittenOver(prep, 0, parts, old)
    PROVE  \E f : Steps(f, prep, Len(parts), requests, parts)
  <1> DEFINE n == Len(parts)
             S == Bytes
             step == [i \in 1 .. n |-> [b \in S |->
                        IF WrittenOver(b, i - 1, parts, old)
                        THEN PlacedIn(b, i, requests, parts) ELSE b]]
  <1>0. n \in Nat
    BY PartsOf DEF InPlaces
  <1>1. prep \in S
    BY DEF Written, WrittenOver
  <1>2. step \in [1 .. n -> [S -> S]]
    <2>1. ASSUME NEW i \in 1 .. n, NEW b \in S, WrittenOver(b, i - 1, parts, old)
          PROVE  PlacedIn(b, i, requests, parts) \in S
      <3>1. WrittenOver(PlacedIn(b, i, requests, parts), i, parts, old)
        BY <2>1, SamePlace
      <3> QED BY <3>1 DEF Written, WrittenOver
    <2> QED BY <2>1
  <1> HIDE DEF S, step, n
  <1>3. Defined(S, n, prep, step)
    BY <1>0, <1>1, <1>2, Recursion
  <1>4. PICK f \in [0 .. n -> S] : f[0] = prep /\ \A i \in 1 .. n : f[i] = step[i][f[i - 1]]
    BY <1>3, DefinedIs
  <1>5. ASSUME NEW i \in 1 .. n, WrittenOver(f[i - 1], i - 1, parts, old)
        PROVE  f[i] = PlacedIn(f[i - 1], i, requests, parts)
    <2>1. i - 1 \in 0 .. n
      BY <1>0
    <2>2. f[i - 1] \in S
      BY <1>4, <2>1
    <2>3. f[i] = step[i][f[i - 1]]
      BY <1>4
    <2> QED BY <1>5, <2>2, <2>3 DEF S, step
  <1>6. \A i \in 0 .. n : WrittenOver(f[i], i, parts, old)
    <2>1. Building(f, requests, parts, old)
      BY <1>4, <1>5 DEF Building, n
    <2>2. Built(f, parts, old)
      BY <2>1, WrittenUpTo
    <2> QED BY <2>2 DEF Built, n
  <1>7. \A i \in 1 .. n : f[i] = PlacedIn(f[i - 1], i, requests, parts)
    <2>1. \A i \in 1 .. n : i - 1 \in 0 .. n
      BY <1>0
    <2> QED BY <1>5, <1>6, <2>1
  <1>8. Steps(f, prep, n, requests, parts)
    BY <1>4, <1>7 DEF S, Steps
  <1> QED BY <1>8 DEF n

LEMMA BuiltIsWritten ==
    ASSUME NEW requests, NEW parts, NEW old \in Byte, InPlaces(requests, parts, old),
           NEW sizes, PlaceSizes(sizes, parts), parts # <<>>
    PROVE  Written(BuildMultiRequest(requests, sizes, old), Len(parts), Len(parts), parts)
  <1> DEFINE n == Len(parts)
             prep == prepare_CIP_MultiRequest(MultiRequestSize(n, Sum(sizes)), n, old)
             g == Build(requests, sizes, n, prep)
  <1>0. parts \in Seq(Bytes) /\ Len(requests) = n
    BY DEF InPlaces
  <1>1. n \in Nat
    BY <1>0, PartsOf
  <1>2. WrittenOver(prep, 0, parts, old)
    <2>1. MultiRequestSize(n, Sum(sizes)) = (8 + 2 * n) + Begin(parts)[n]
      <3>1. Begin(parts)[n] = Sum(sizes)
        BY <1>1 DEF Begin, PlaceSizes
      <3>2. Begin(parts)[n] \in Nat
        <4>1. Begin(parts) \in [0 .. n -> Nat]
          BY <1>0, PartsOf
        <4> HIDE DEF n
        <4> QED BY <1>1, <4>1
      <3> HIDE DEF n
      <3>3. CIA_path_size(1, 0) = 2
        BY DEF CIA_path_size
      <3> QED BY <1>1, <3>1, <3>2, <3>3 DEF MultiRequestSize
    <2> QED BY <1>0, <2>1, NothingPlaced
  <1>3. BuildMultiRequest(requests, sizes, old) = g[n]
    BY <1>0 DEF BuildMultiRequest, Build
  <1> HIDE DEF prep
  <1>5. IsBuild(g, requests, sizes, Len(parts), prep)
    <2>1. PICK f : Steps(f, prep, Len(parts), requests, parts)
      BY <1>2, BuildExists
    <2>2. IsBuild(f, requests, sizes, Len(parts), prep)
      BY <2>1, StepsBuild
    <2> QED BY <2>2, BuildIs
  <1> HIDE DEF g
  <1>6. Building(g, requests, parts, old)
    BY <1>2, <1>5, BuildSteps
  <1>7. Built(g, parts, old)
    BY <1>6, WrittenUpTo
  <1>8. WrittenOver(g[n], n, parts, old)
    BY <1>1, <1>7 DEF Built
  <1> QED BY <1>3, <1>8 DEF n, WrittenOver

LEMMA TakenApart ==
    ASSUME NEW b, NEW n, unpack_UINT(b, 7) = n
    PROVE  TakeApart(b, 7) =
           [i \in 1 .. n |-> SubSeq(b, 7 + unpack_UINT(b, 7 + 2 * i),
                                  IF i < n THEN 7 + unpack_UINT(b, 7 + 2 * (i + 1)) - 1 ELSE Len(b))]
  <1> DEFINE c == unpack_UINT(b, 7)
             Part(i) == SubSeq(b, 7 + unpack_UINT(b, 7 + 2 * i),
                               IF i < c THEN 7 + unpack_UINT(b, 7 + 2 * (i + 1)) - 1 ELSE Len(b))
  <1>1. TakeApart(b, 7) = [i \in 1 .. c |-> Part(i)]
    BY DEF TakeApart
  <1>2. c = n
    OBVIOUS
  <1> HIDE DEF c
  <1>3. ASSUME NEW i
        PROVE  Part(i) = SubSeq(b, 7 + unpack_UINT(b, 7 + 2 * i),
                  IF i < n THEN 7 + unpack_UINT(b, 7 + 2 * (i + 1)) - 1 ELSE Len(b))
    BY <1>2
  <1> HIDE DEF Part
  <1> QED BY <1>1, <1>2, <1>3

LEMMA SameParts ==
    ASSUME NEW S, NEW s \in Seq(S), NEW f, f = [i \in 1 .. Len(s) |-> s[i]]
    PROVE  f = s
  OBVIOUS

\* How the parts of a written message are taken apart again.
LEMMA PartsTakenApart ==
    ASSUME NEW parts \in Seq(Bytes), NEW b, Written(b, Len(parts), Len(parts), parts),
           (8 + 2 * Len(parts)) + Begin(parts)[Len(parts)] < 65536
    PROVE  TakeApart(b, 7) = parts
  <1> DEFINE n == Len(parts)
             at == Begin(parts)
             w == 2 + 2 * n
             q == 8 + 2 * n
  <1>1. /\ n \in Nat /\ at \in [0 .. n -> Nat]
        /\ \A j \in 1 .. n : /\ at[j - 1] \in Nat /\ at[j] \in Nat
                             /\ parts[j] \in Bytes /\ Len(parts[j]) \in Nat
                             /\ at[j] = at[j - 1] + Len(parts[j]) /\ at[j] <= at[n]
    BY PartsOf
  <1>2. q + at[n] < 65536
    OBVIOUS
  <1>4. /\ b \in Bytes /\ Len(b) = q + at[n] /\ Holds(b, 6, pack_UINT(n))
        /\ \A j \in 0 .. n : j < n => Holds(b, 8 + 2 * j, pack_UINT(w + at[j]))
        /\ \A j \in 1 .. n : Holds(b, q + at[j - 1], parts[j])
    BY DEF Written
  <1>5. parts \in Seq(Bytes) /\ n = Len(parts)
    OBVIOUS
  <1> HIDE DEF n, at
  <1>6. w \in Nat /\ q \in Nat /\ w <= q /\ 7 + w = q + 1 /\ n <= q /\ at[n] \in Nat
    BY <1>1
  <1> HIDE DEF w, q
  <1>7. unpack_UINT(b, 7) = n
    <2>1. n < 65536
      BY <1>1, <1>2, <1>6
    <2>2. unpack_UINT(b, 6 + 1) = n
      BY <1>1, <1>4, <2>1, UnpackHeld
    <2> QED BY <2>2
  <1>8. ASSUME NEW i \in 1 .. n
        PROVE  unpack_UINT(b, 7 + 2 * i) = w + at[i - 1]
    <2> DEFINE j == i - 1
    <2>1. j \in 0 .. n /\ j < n /\ 8 + 2 * j \in Nat /\ (8 + 2 * j) + 1 = 7 + 2 * i
      BY <1>1
    <2>2. at[j] \in Nat /\ at[j] <= at[n]
      <3>1. /\ at[i - 1] \in Nat /\ at[i] \in Nat /\ Len(parts[i]) \in Nat
            /\ at[i] = at[i - 1] + Len(parts[i]) /\ at[i] <= at[n]
        BY <1>1
      <3> QED BY <1>6, <3>1
    <2>3. Holds(b, 8 + 2 * j, pack_UINT(w + at[j]))
      BY <1>4, <2>1
    <2> HIDE DEF j
    <2>4. w + at[j] \in Nat /\ w + at[j] < 65536
      BY <1>2, <1>6, <2>2, OffsetFits
    <2>5. unpack_UINT(b, (8 + 2 * j) + 1) = w + at[j]
      BY <2>1, <2>3, <2>4, UnpackHeld
    <2>6. unpack_UINT(b, 7 + 2 * i) = w + at[j]
      BY <2>1, <2>5
    <2> QED BY <2>6 DEF j
  <1>9. ASSUME NEW i \in 1 .. n
        PROVE  SubSeq(b, 7 + unpack_UINT(b, 7 + 2 * i),
                      IF i < n THEN 7 + unpack_UINT(b, 7 + 2 * (i + 1)) - 1 ELSE Len(b))
               = parts[i]
    <2> DEFINE a == at[i - 1]
               l == Len(parts[i])
    <2>1. /\ a \in Nat /\ l \in Nat /\ at[i] = a + l /\ parts[i] \in Bytes
          /\ at[i] \in Nat
      BY <1>1
    <2>2. unpack_UINT(b, 7 + 2 * i) = w + a
      BY <1>8
    <2>3. Holds(b, q + a, parts[i])
      BY <1>4
    <2>4. SubSeq(b, (q + a) + 1, (q + a) + Len(parts[i])) = parts[i]
      BY <1>4, <2>1, <2>3, SliceBytes, SMTT(30)
    <2> HIDE DEF a
    <2>5. 7 + (w + a) = (q + a) + 1
      BY <1>6, <2>1
    <2>6. (IF i < n THEN 7 + unpack_UINT(b, 7 + 2 * (i + 1)) - 1 ELSE Len(b)) = (q + a) + l
      <3>1. CASE i < n
        <4>1. i + 1 \in 1 .. n /\ (i + 1) - 1 = i
          BY <1>1, <3>1
        <4>2. unpack_UINT(b, 7 + 2 * (i + 1)) = w + at[i]
          BY <1>8, <4>1
        <4> HIDE DEF l
        <4>3. 7 + (w + at[i]) - 1 = (q + a) + l
          BY <1>6, <2>1
        <4> QED BY <3>1, <4>2, <4>3
      <3>2. CASE ~(i < n)
        <4>1. i = n
          BY <1>1, <3>2
        <4> HIDE DEF l
        <4>2. q + at[i] = (q + a) + l
          BY <1>6, <2>1
        <4> QED BY <1>4, <3>2, <4>1, <4>2
      <3> QED BY <3>1, <3>2
    <2> QED BY <2>2, <2>4, <2>5, <2>6
  <1>10. TakeApart(b, 7) = [i \in 1 .. n |-> parts[i]]
    <2> DEFINE Part(i) == SubSeq(b, 7 + unpack_UINT(b, 7 + 2 * i),
                                 IF i < n THEN 7 + unpack_UINT(b, 7 + 2 * (i + 1)) - 1 ELSE Len(b))
    <2>1. TakeApart(b, 7) = [i \in 1 .. n |-> Part(i)]
      BY <1>7, TakenApart
    <2>2. \A i \in 1 .. n : Part(i) = parts[i]
      BY <1>9
    <2> HIDE DEF Part
    <2> QED BY <2>1, <2>2
  <1> QED BY <1>5, <1>10, SameParts

LEMMA FilledIs ==
    ASSUME NEW r \in Bytes, NEW l \in Nat, Len(r) <= l, NEW old \in Byte
    PROVE  /\ Filled(r, l, old) \in Bytes /\ Len(Filled(r, l, old)) = l
           /\ Padded(r, Filled(r, l, old), old)
  <1> DEFINE d == l - Len(r)
             F == [k \in 1 .. d |-> old]
  <1>1. Len(r) \in Nat /\ d \in Nat /\ Len(r) + d = l
    BY DEF Bytes
  <1>2. Filled(r, l, old) = r \o F
    BY DEF Filled
  <1>3. F \in [1 .. d -> Byte] /\ \A k \in 1 .. d : F[k] = old
    OBVIOUS
  <1> HIDE DEF F, d
  <1>4. F \in Bytes /\ Len(F) = d
    <2>1. F \in Seq(Byte) /\ Len(F) = d
      BY <1>1, <1>3, FunctionIsSeq
    <2> QED BY <2>1 DEF Bytes
  <1>5. /\ r \o F \in Bytes /\ Len(r \o F) = Len(r) + Len(F)
        /\ \A k \in 1 .. Len(r) : (r \o F)[k] = r[k]
        /\ \A k \in 1 .. Len(F) : (r \o F)[Len(r) + k] = F[k]
    BY <1>4, Join
  <1> DEFINE x == r \o F
  <1> HIDE DEF x
  <1>6. /\ x \in Bytes /\ Len(x) = l
        /\ \A k \in 1 .. Len(r) : x[k] = r[k]
        /\ \A k \in 1 .. d : x[Len(r) + k] = old
    BY <1>1, <1>3, <1>4, <1>5 DEF x
  <1>7. ASSUME NEW k \in 1 .. l
        PROVE  x[k] = IF k <= Len(r) THEN r[k] ELSE old
    <2>1. CASE k <= Len(r)
      BY <1>1, <1>6, <2>1
    <2>2. CASE ~(k <= Len(r))
      <3>1. k - Len(r) \in 1 .. d /\ Len(r) + (k - Len(r)) = k
        BY <1>1, <2>2
      <3>2. x[Len(r) + (k - Len(r))] = old
        BY <1>6, <3>1
      <3> QED BY <2>2, <3>1, <3>2
    <2> QED BY <2>1, <2>2
  <1>8. Padded(r, x, old)
    BY <1>1, <1>6, <1>7 DEF Padded
  <1> QED BY <1>2, <1>6, <1>8 DEF x

\* The PLC finds the requests that were put into a transfer, whatever they
\* are, however many, and however much larger their places were counted: each
\* at the start of its place, and behind a shorter one what the buffer held.
\* All of it only has to be short enough for the offsets
\* (prepare_CIP_MultiRequest, CIP_MultiRequest_item, process_ScanList).
THEOREM EveryRequestFound ==
    ASSUME NEW requests \in Seq(Bytes), requests # <<>>, NEW old \in Byte,
           NEW sizes \in Places(requests), MultiRequestSize(Len(requests), Sum(sizes)) < 65536
    PROVE  FoundApart(requests, sizes, old)
  <1> DEFINE n == Len(requests)
             parts == [i \in 1 .. n |-> Filled(requests[i], sizes[i], old)]
             b == BuildMultiRequest(requests, sizes, old)
  <1>0. \A i \in 1 .. n :
           requests[i] \in Bytes /\ sizes[i] \in Nat /\ Len(requests[i]) <= sizes[i]
    <2>1. \A i \in 1 .. n : requests[i] \in Bytes
      BY PartsOf
    <2>2. \A i \in 1 .. n : Len(requests[i]) <= sizes[i]
      BY DEF Places
    <2>3. \A i \in 1 .. n : sizes[i] \in Nat
      BY DEF Places
    <2> QED BY <2>1, <2>2, <2>3
  <1>1. n \in Nat /\ n # 0
    BY EmptySeq
  <1>2. ASSUME NEW i \in 1 .. n
        PROVE  /\ parts[i] \in Bytes /\ Len(parts[i]) = sizes[i]
               /\ Padded(requests[i], parts[i], old)
    <2>1. requests[i] \in Bytes /\ sizes[i] \in Nat /\ Len(requests[i]) <= sizes[i]
      BY <1>0
    <2>2. parts[i] = Filled(requests[i], sizes[i], old)
      OBVIOUS
    <2> HIDE DEF parts
    <2> QED BY <2>1, <2>2, FilledIs
  <1>3. requests \in Seq(Bytes) /\ n = Len(requests)
    OBVIOUS
  <1>4. sizes \in [1 .. n -> Nat] /\ MultiRequestSize(n, Sum(sizes)) < 65536
    BY DEF Places
  <1>5. FoundApart(requests, sizes, old) <=> TakeApart(b, 7) = parts
    BY DEF FoundApart
  <1>6. parts = [i \in 1 .. n |-> parts[i]]
    OBVIOUS
  <1> HIDE DEF parts, n
  <1>7. parts \in Seq(Bytes) /\ Len(parts) = n
    <2>1. parts \in [1 .. n -> Bytes]
      BY <1>2, <1>6
    <2> QED BY <1>1, <2>1, FunctionIsSeq
  <1>9. sizes = [i \in 1 .. Len(parts) |-> Len(parts[i])]
    BY <1>2, <1>4, <1>7
  <1>10. (8 + 2 * n) + Begin(parts)[n] < 65536
    <2>1. Begin(parts)[n] = Sum(sizes)
      BY <1>1, <1>7, <1>9 DEF Begin
    <2>2. Begin(parts)[n] \in Nat
      <3>1. Begin(parts) \in [0 .. n -> Nat]
        BY <1>7, PartsOf
      <3> QED BY <1>1, <3>1
    <2>3. CIA_path_size(1, 0) = 2
      BY DEF CIA_path_size
    <2> QED BY <1>1, <1>4, <2>1, <2>2, <2>3 DEF MultiRequestSize
  <1>8. InPlaces(requests, parts, old)
    BY <1>2, <1>3, <1>7, <1>10 DEF InPlaces
  <1>14. PlaceSizes(sizes, parts)
    BY <1>9 DEF PlaceSizes
  <1>11. parts # <<>>
    <2>1. Len(<<>>) = 0
      OBVIOUS
    <2> QED BY <1>1, <1>7, <2>1
  <1>12. Written(b, Len(parts), Len(parts), parts)
    BY <1>8, <1>11, <1>14, BuiltIsWritten
  <1>13. TakeApart(b, 7) = parts
    <2>1. (8 + 2 * Len(parts)) + Begin(parts)[Len(parts)] < 65536
      BY <1>7, <1>10
    <2> HIDE DEF b
    <2> QED BY <1>7, <1>12, <2>1, PartsTakenApart
  <1> QED BY <1>5, <1>13
-----------------------------------------------------------------------------
(* Frames *)

LEMMA Extend ==
    ASSUME NEW u \in Bytes, NEW t \in Bytes
    PROVE  /\ u \o t \in Bytes /\ Len(u \o t) = Len(u) + Len(t)
           /\ Holds(u \o t, Len(u), t)
           /\ \A p \in Nat, x \in Bytes : Holds(u, p, x) => Holds(u \o t, p, x)
  <1>1. /\ u \o t \in Bytes /\ Len(u) \in Nat /\ Len(t) \in Nat
        /\ Len(u \o t) = Len(u) + Len(t)
        /\ \A i \in 1 .. Len(u) : (u \o t)[i] = u[i]
        /\ \A i \in 1 .. Len(t) : (u \o t)[Len(u) + i] = t[i]
    BY Join
  <1> DEFINE v == u \o t
  <1> HIDE DEF v
  <1>2. /\ Len(u) \in Nat /\ Len(t) \in Nat /\ Len(v) = Len(u) + Len(t)
        /\ \A i \in 1 .. Len(u) : v[i] = u[i]
        /\ \A i \in 1 .. Len(t) : v[Len(u) + i] = t[i]
    BY <1>1 DEF v
  <1>3. Holds(v, Len(u), t)
    BY <1>2 DEF Holds
  <1>4. ASSUME NEW p \in Nat, NEW x \in Bytes, Holds(u, p, x)
        PROVE  Holds(v, p, x)
    <2>1. Len(x) \in Nat
      BY DEF Bytes
    <2>2. p + Len(x) <= Len(u) /\ \A k \in 1 .. Len(x) : u[p + k] = x[k]
      BY <1>4 DEF Holds
    <2>3. \A k \in 1 .. Len(x) : p + k \in 1 .. Len(u)
      BY <1>2, <2>1, <2>2
    <2>4. p + Len(x) <= Len(v)
      BY <1>2, <2>1, <2>2
    <2> QED BY <1>2, <2>2, <2>3, <2>4 DEF Holds
  <1> QED BY <1>1, <1>3, <1>4 DEF v

\* A part of a part.
LEMMA HoldsIn ==
    ASSUME NEW u \in Bytes, NEW t \in Bytes, NEW x \in Bytes, NEW m \in Nat, NEW p \in Nat,
           Holds(u, m, t), Holds(t, p, x)
    PROVE  Holds(u, m + p, x)
  <1>1. Len(u) \in Nat /\ Len(t) \in Nat /\ Len(x) \in Nat
    BY DEF Bytes
  <1>2. m + Len(t) <= Len(u) /\ \A k \in 1 .. Len(t) : u[m + k] = t[k]
    BY DEF Holds
  <1>3. p + Len(x) <= Len(t) /\ \A k \in 1 .. Len(x) : t[p + k] = x[k]
    BY DEF Holds
  <1>4. ASSUME NEW k \in 1 .. Len(x)
        PROVE  u[(m + p) + k] = x[k]
    <2>1. p + k \in 1 .. Len(t) /\ m + (p + k) = (m + p) + k
      BY <1>1, <1>3
    <2>2. u[m + (p + k)] = t[p + k]
      BY <1>2, <2>1
    <2> QED BY <1>3, <2>1, <2>2
  <1>5. (m + p) + Len(x) <= Len(u) /\ m + p \in Nat
    BY <1>1, <1>2, <1>3
  <1> QED BY <1>4, <1>5 DEF Holds

LEMMA HalvesOf ==
    ASSUME NEW v \in Nat
    PROVE  /\ v % 65536 \in Nat /\ v % 65536 < 65536 /\ v \div 65536 \in Nat
           /\ (v % 65536) + 65536 * (v \div 65536) = v
  OBVIOUS

LEMMA UpperHalf ==
    ASSUME NEW v \in Nat, v < 4294967296
    PROVE  v \div 65536 < 65536
  OBVIOUS

LEMMA PackUDINT ==
    ASSUME NEW v \in Nat
    PROVE  /\ pack_UDINT(v) \in Bytes /\ Len(pack_UDINT(v)) = 4
           /\ Holds(pack_UDINT(v), 0, pack_UINT(v % 65536))
           /\ Holds(pack_UDINT(v), 2, pack_UINT(v \div 65536))
  <1> DEFINE a == pack_UINT(v % 65536)
             b == pack_UINT(v \div 65536)
  <1>1. a \in Bytes /\ Len(a) = 2 /\ b \in Bytes /\ Len(b) = 2
    BY HalvesOf, PackType
  <1>2. pack_UDINT(v) = a \o b
    BY DEF pack_UDINT
  <1> HIDE DEF a, b
  <1>3. Holds(a, 0, a)
    BY <1>1 DEF Holds
  <1>4. /\ a \o b \in Bytes /\ Len(a \o b) = Len(a) + Len(b)
        /\ Holds(a \o b, Len(a), b)
        /\ \A p \in Nat, x \in Bytes : Holds(a, p, x) => Holds(a \o b, p, x)
    BY <1>1, Extend
  <1>5. Holds(a \o b, 0, a)
    BY <1>1, <1>3, <1>4
  <1>6. Len(a \o b) = 4 /\ Holds(a \o b, 2, b)
    BY <1>1, <1>4
  <1>7. /\ pack_UDINT(v) \in Bytes /\ Len(pack_UDINT(v)) = 4
        /\ Holds(pack_UDINT(v), 0, a) /\ Holds(pack_UDINT(v), 2, b)
    BY <1>2, <1>4, <1>5, <1>6
  <1> QED BY <1>7 DEF a, b

LEMMA UnpackHeldUDINT ==
    ASSUME NEW v \in Nat, v < 4294967296, NEW u \in Bytes, NEW m \in Nat,
           Holds(u, m, pack_UDINT(v))
    PROVE  unpack_UDINT(u, m + 1) = v
  <1> DEFINE lo == v % 65536
             hi == v \div 65536
  <1>1. /\ lo \in Nat /\ lo < 65536 /\ hi \in Nat /\ hi < 65536 /\ lo + 65536 * hi = v
    BY HalvesOf, UpperHalf
  <1>2. /\ pack_UDINT(v) \in Bytes
        /\ Holds(pack_UDINT(v), 0, pack_UINT(lo)) /\ Holds(pack_UDINT(v), 2, pack_UINT(hi))
    BY PackUDINT
  <1> HIDE DEF lo, hi
  <1>3. pack_UINT(lo) \in Bytes /\ pack_UINT(hi) \in Bytes
    BY <1>1, PackType
  <1>4. Holds(u, m + 0, pack_UINT(lo)) /\ Holds(u, m + 2, pack_UINT(hi))
    BY <1>2, <1>3, HoldsIn
  <1>5. unpack_UINT(u, m + 1) = lo
    <2>1. Holds(u, m, pack_UINT(lo))
      <3>1. m + 0 = m
        OBVIOUS
      <3> QED BY <1>4, <3>1
    <2> QED BY <1>1, <2>1, UnpackHeld
  <1>6. unpack_UINT(u, (m + 1) + 2) = hi
    <2>1. m + 2 \in Nat /\ (m + 2) + 1 = (m + 1) + 2
      OBVIOUS
    <2>2. unpack_UINT(u, (m + 2) + 1) = hi
      BY <1>1, <1>4, <2>1, UnpackHeld
    <2> QED BY <2>1, <2>2
  <1> QED BY <1>1, <1>5, <1>6 DEF unpack_UDINT

TicksOf(n) == 245760 \div 2 ^ n

LEMMA TooManyTicks ==
    ASSUME NEW k \in 0 .. 9
    PROVE  TicksOf(k) > 255 /\ ~(TicksOf(k) <= 255)
  <1> DEFINE TooMany(n) == TicksOf(n) > 255 /\ ~(TicksOf(n) <= 255)
  <1>1. /\ TooMany(0) /\ TooMany(1) /\ TooMany(2) /\ TooMany(3)
        /\ TooMany(4) /\ TooMany(5) /\ TooMany(6) /\ TooMany(7)
        /\ TooMany(8) /\ TooMany(9)
    <2>1. /\ 2 ^ 0 = 1 /\ 2 ^ 1 = 2 /\ 2 ^ 2 = 4 /\ 2 ^ 3 = 8 /\ 2 ^ 4 = 16 /\ 2 ^ 5 = 32
          /\ 2 ^ 6 = 64 /\ 2 ^ 7 = 128 /\ 2 ^ 8 = 256 /\ 2 ^ 9 = 512
      OBVIOUS
    <2> QED BY <2>1 DEF TicksOf
  <1>10. CASE k = 0
    BY <1>1, <1>10
  <1>11. CASE k = 1
    BY <1>1, <1>11
  <1>12. CASE k = 2
    BY <1>1, <1>12
  <1>13. CASE k = 3
    BY <1>1, <1>13
  <1>14. CASE k = 4
    BY <1>1, <1>14
  <1>15. CASE k = 5
    BY <1>1, <1>15
  <1>16. CASE k = 6
    BY <1>1, <1>16
  <1>17. CASE k = 7
    BY <1>1, <1>17
  <1>18. CASE k = 8
    BY <1>1, <1>18
  <1>19. CASE k = 9
    BY <1>1, <1>19
  <1> QED BY <1>10, <1>11, <1>12, <1>13, <1>14, <1>15, <1>16, <1>17, <1>18, <1>19

\* The time-out that every request carries, in ticks.
LEMMA TickTime == calc_tick_time(245760) = [tick_time |-> 10, ticks |-> 240]
  <1> DEFINE Fits(n) == TicksOf(n) <= 255 /\ \A k \in 0 .. n - 1 : TicksOf(k) > 255
             h == CHOOSE n \in 0 .. 15 : Fits(n)
  <1>1. TicksOf(10) = 240
    <2>1. 2 ^ 10 = 1024 /\ 245760 \div 1024 = 240
      OBVIOUS
    <2> QED BY <2>1 DEF TicksOf
  <1>2. \A k \in 0 .. 9 : TicksOf(k) > 255 /\ ~(TicksOf(k) <= 255)
    BY TooManyTicks
  <1>3. calc_tick_time(245760) = [tick_time |-> h, ticks |-> TicksOf(h)]
    BY DEF calc_tick_time, TicksOf
  <1>4. Fits(10)
    <2>1. 10 - 1 = 9
      OBVIOUS
    <2> QED BY <1>1, <1>2, <2>1
  <1>5. h \in 0 .. 15 /\ Fits(h)
    <2> HIDE DEF Fits
    <2> QED BY <1>4
  <1> HIDE DEF h
  <1>6. h = 10
    <2>1. h \in 0 .. 15 /\ TicksOf(h) <= 255 /\ \A k \in 0 .. h - 1 : TicksOf(k) > 255
      BY <1>5
    <2>2. ~(h \in 0 .. 9)
      BY <1>2, <2>1
    <2>3. ~(10 \in 0 .. h - 1)
      BY <1>1, <2>1
    <2> QED BY <2>1, <2>2, <2>3
  <1> QED BY <1>1, <1>3, <1>6
\* Where the fields of the header are.
LEMMA HeaderParts ==
    ASSUME NEW command \in Nat, NEW length \in Nat, NEW session \in Nat, NEW options \in Nat,
           NEW id \in Bytes, Len(id) = 8
    PROVE  LET h == make_EncapsulationHeader(command, length, session, id, options)
           IN  /\ h \in Bytes /\ Len(h) = 24
               /\ Holds(h, 0, pack_UINT(command)) /\ Holds(h, 2, pack_UINT(length))
               /\ Holds(h, 4, pack_UDINT(session)) /\ Holds(h, 12, id)
  <1> DEFINE C == pack_UINT(command)
             L == pack_UINT(length)
             S == pack_UDINT(session)
             N == pack_UDINT(0)
             O == pack_UDINT(options)
             h1 == C \o L
             h2 == h1 \o S
             h3 == h2 \o N
             h4 == h3 \o id
             h5 == h4 \o O
  <1>1. h5 = make_EncapsulationHeader(command, length, session, id, options)
    BY DEF make_EncapsulationHeader
  <1>2. /\ C \in Bytes /\ Len(C) = 2 /\ L \in Bytes /\ Len(L) = 2
        /\ S \in Bytes /\ Len(S) = 4 /\ N \in Bytes /\ Len(N) = 4
        /\ O \in Bytes /\ Len(O) = 4
    BY PackType, PackUDINT
  <1> HIDE DEF C, L, S, N, O
  <1>3. Holds(C, 0, C)
    BY <1>2 DEF Holds
  <1>4. h1 \in Bytes /\ Len(h1) = 4 /\ Holds(h1, 0, C) /\ Holds(h1, 2, L)
    <2>1. /\ h1 \in Bytes /\ Len(h1) = Len(C) + Len(L) /\ Holds(h1, Len(C), L)
          /\ \A p \in Nat, x \in Bytes : Holds(C, p, x) => Holds(h1, p, x)
      BY <1>2, Extend
    <2> QED BY <1>2, <1>3, <2>1
  <1> HIDE DEF h1
  <1>5. h2 \in Bytes /\ Len(h2) = 8 /\ Holds(h2, 0, C) /\ Holds(h2, 2, L) /\ Holds(h2, 4, S)
    <2>1. /\ h2 \in Bytes /\ Len(h2) = Len(h1) + Len(S) /\ Holds(h2, Len(h1), S)
          /\ \A p \in Nat, x \in Bytes : Holds(h1, p, x) => Holds(h2, p, x)
      BY <1>2, <1>4, Extend
    <2> QED BY <1>2, <1>4, <2>1
  <1> HIDE DEF h2
  <1>6. h3 \in Bytes /\ Len(h3) = 12 /\ Holds(h3, 0, C) /\ Holds(h3, 2, L) /\ Holds(h3, 4, S)
    <2>1. /\ h3 \in Bytes /\ Len(h3) = Len(h2) + Len(N)
          /\ \A p \in Nat, x \in Bytes : Holds(h2, p, x) => Holds(h3, p, x)
      BY <1>2, <1>5, Extend
    <2> QED BY <1>2, <1>5, <2>1
  <1> HIDE DEF h3
  <1>7. /\ h4 \in Bytes /\ Len(h4) = 20
        /\ Holds(h4, 0, C) /\ Holds(h4, 2, L) /\ Holds(h4, 4, S) /\ Holds(h4, 12, id)
    <2>1. /\ h4 \in Bytes /\ Len(h4) = Len(h3) + Len(id) /\ Holds(h4, Len(h3), id)
          /\ \A p \in Nat, x \in Bytes : Holds(h3, p, x) => Holds(h4, p, x)
      BY <1>6, Extend
    <2> QED BY <1>2, <1>6, <2>1
  <1> HIDE DEF h4
  <1>8. /\ h5 \in Bytes /\ Len(h5) = 24
        /\ Holds(h5, 0, C) /\ Holds(h5, 2, L) /\ Holds(h5, 4, S) /\ Holds(h5, 12, id)
    <2>1. /\ h5 \in Bytes /\ Len(h5) = Len(h4) + Len(O)
          /\ \A p \in Nat, x \in Bytes : Holds(h4, p, x) => Holds(h5, p, x)
      BY <1>2, <1>7, Extend
    <2> QED BY <1>2, <1>7, <2>1
  <1> HIDE DEF h5
  <1> QED BY <1>1, <1>8 DEF C, L, S

\* A request to send: the header, and the length of what comes behind it.
LEMMA SendRRDataParts ==
    ASSUME NEW length \in Nat, NEW session \in Nat, NEW id \in Bytes, Len(id) = 8
    PROVE  LET s == EIP_make_SendRRData(length, session, id)
               h == make_EncapsulationHeader(EC_SendRRData, 16 + length, session, id, 0)
           IN  s \in Bytes /\ Len(s) = 40 /\ Holds(s, 0, h) /\ Holds(s, 38, pack_UINT(length))
  <1> DEFINE h == make_EncapsulationHeader(EC_SendRRData, 16 + length, session, id, 0)
             N == pack_UDINT(0)
             Z == pack_UINT(0)
             T == pack_UINT(2)
             A == pack_UINT(178)
             L == pack_UINT(length)
             s1 == h \o N
             s2 == s1 \o Z
             s3 == s2 \o T
             s4 == s3 \o Z
             s5 == s4 \o Z
             s6 == s5 \o A
             s7 == s6 \o L
  <1>1. s7 = EIP_make_SendRRData(length, session, id)
    BY DEF EIP_make_SendRRData
  <1>2. /\ N \in Bytes /\ Len(N) = 4 /\ Z \in Bytes /\ Len(Z) = 2 /\ T \in Bytes /\ Len(T) = 2
        /\ A \in Bytes /\ Len(A) = 2 /\ L \in Bytes /\ Len(L) = 2
    BY PackType, PackUDINT
  <1>3. h \in Bytes /\ Len(h) = 24
    <2>1. EC_SendRRData \in Nat /\ 16 + length \in Nat /\ 0 \in Nat
      BY DEF EC_SendRRData
    <2> QED BY <2>1, HeaderParts
  <1> HIDE DEF h, N, Z, T, A, L
  <1>4. Holds(h, 0, h)
    BY <1>3 DEF Holds
  <1>5. s1 \in Bytes /\ Len(s1) = 28 /\ Holds(s1, 0, h)
    <2>1. /\ s1 \in Bytes /\ Len(s1) = Len(h) + Len(N)
          /\ \A p \in Nat, x \in Bytes : Holds(h, p, x) => Holds(s1, p, x)
      BY <1>2, <1>3, Extend
    <2> QED BY <1>2, <1>3, <1>4, <2>1
  <1> HIDE DEF s1
  <1>6. s2 \in Bytes /\ Len(s2) = 30 /\ Holds(s2, 0, h)
    <2>1. /\ s2 \in Bytes /\ Len(s2) = Len(s1) + Len(Z)
          /\ \A p \in Nat, x \in Bytes : Holds(s1, p, x) => Holds(s2, p, x)
      BY <1>2, <1>3, <1>5, Extend
    <2> QED BY <1>2, <1>3, <1>5, <2>1
  <1> HIDE DEF s2
  <1>7. s3 \in Bytes /\ Len(s3) = 32 /\ Holds(s3, 0, h)
    <2>1. /\ s3 \in Bytes /\ Len(s3) = Len(s2) + Len(T)
          /\ \A p \in Nat, x \in Bytes : Holds(s2, p, x) => Holds(s3, p, x)
      BY <1>2, <1>3, <1>6, Extend
    <2> QED BY <1>2, <1>3, <1>6, <2>1
  <1> HIDE DEF s3
  <1>8. s4 \in Bytes /\ Len(s4) = 34 /\ Holds(s4, 0, h)
    <2>1. /\ s4 \in Bytes /\ Len(s4) = Len(s3) + Len(Z)
          /\ \A p \in Nat, x \in Bytes : Holds(s3, p, x) => Holds(s4, p, x)
      BY <1>2, <1>3, <1>7, Extend, ZenonT(30)
    <2> QED BY <1>2, <1>3, <1>7, <2>1
  <1> HIDE DEF s4
  <1>9. s5 \in Bytes /\ Len(s5) = 36 /\ Holds(s5, 0, h)
    <2>1. /\ s5 \in Bytes /\ Len(s5) = Len(s4) + Len(Z)
          /\ \A p \in Nat, x \in Bytes : Holds(s4, p, x) => Holds(s5, p, x)
      BY <1>2, <1>3, <1>8, Extend, ZenonT(30)
    <2> QED BY <1>2, <1>3, <1>8, <2>1
  <1> HIDE DEF s5
  <1>10. s6 \in Bytes /\ Len(s6) = 38 /\ Holds(s6, 0, h)
    <2>1. /\ s6 \in Bytes /\ Len(s6) = Len(s5) + Len(A)
          /\ \A p \in Nat, x \in Bytes : Holds(s5, p, x) => Holds(s6, p, x)
      BY <1>2, <1>3, <1>9, Extend, ZenonT(30)
    <2> QED BY <1>2, <1>3, <1>9, <2>1
  <1> HIDE DEF s6
  <1>11. s7 \in Bytes /\ Len(s7) = 40 /\ Holds(s7, 0, h) /\ Holds(s7, 38, L)
    <2>1. /\ s7 \in Bytes /\ Len(s7) = Len(s6) + Len(L) /\ Holds(s7, Len(s6), L)
          /\ \A p \in Nat, x \in Bytes : Holds(s6, p, x) => Holds(s7, p, x)
      BY <1>2, <1>3, <1>10, Extend, ZenonT(30)
    <2> QED BY <1>2, <1>3, <1>10, <2>1
  <1> HIDE DEF s7
  <1> QED BY <1>1, <1>11 DEF h, L
LEMMA TwoAndTwo ==
    ASSUME NEW u, NEW m \in Nat, NEW a, NEW b, NEW c, NEW d, Len(u) \in Nat,
           Holds(u, m, <<a, b>>), Holds(u, m + 2, <<c, d>>)
    PROVE  Holds(u, m, <<a, b, c, d>>)
  <1>1. Len(<<a, b>>) = 2 /\ Len(<<c, d>>) = 2 /\ Len(<<a, b, c, d>>) = 4
    OBVIOUS
  <1>2. u[m + 1] = a /\ u[m + 2] = b
    BY <1>1 DEF Holds
  <1>3. u[(m + 2) + 1] = c /\ u[(m + 2) + 2] = d /\ (m + 2) + 2 <= Len(u)
    BY <1>1 DEF Holds
  <1>4. (m + 2) + 1 = m + 3 /\ (m + 2) + 2 = m + 4
    OBVIOUS
  <1>5. ASSUME NEW k \in 1 .. 4
        PROVE  u[m + k] = <<a, b, c, d>>[k]
    <2>1. k = 1 \/ k = 2 \/ k = 3 \/ k = 4
      OBVIOUS
    <2>2. u[m + 3] = c /\ u[m + 4] = d
      BY <1>3, <1>4
    <2> QED BY <1>2, <2>1, <2>2
  <1>6. m + 4 <= Len(u)
    BY <1>3, <1>4
  <1> QED BY <1>1, <1>5, <1>6 DEF Holds

\* The bytes that pad a message of this length.
PadOf(message, old) == IF Len(message) % 2 = 1 THEN <<old>> ELSE <<>>

LEMMA PadIs ==
    ASSUME NEW message \in Bytes, NEW old \in Byte
    PROVE  /\ PadOf(message, old) \in Bytes /\ Len(message) \in Nat /\ Len(message) % 2 \in 0 .. 1
           /\ Len(PadOf(message, old)) = Len(message) % 2
  <1>1. Len(message) \in Nat
    BY DEF Bytes
  <1>2. Len(message) % 2 \in 0 .. 1
    BY <1>1
  <1>3. <<old>> \in Bytes /\ Len(<<old>>) = 1 /\ <<>> \in Bytes /\ Len(<<>>) = 0
    BY DEF Bytes
  <1> QED BY <1>1, <1>2, <1>3 DEF PadOf

\* Where the message and the route are in a request that is to be routed.
LEMMA SendParts ==
    ASSUME NEW message \in Bytes, NEW slot \in Byte, NEW old \in Byte
    PROVE  LET u == make_CM_Unconnected_Send(message, slot, old)
               e == Len(message) + (Len(message) % 2)
           IN  /\ u \in Bytes /\ Len(u) = 14 + e /\ e \in Nat
               /\ Holds(u, 6, <<10, 240>>) /\ Holds(u, 8, pack_UINT(Len(message)))
               /\ Holds(u, 10, message) /\ Holds(u, 10 + e, <<1, 0, 1, slot>>)
  <1> DEFINE l == Len(message)
             d == l % 2
             R == <<82, 2>>
             P == make_CIA_path(C_ConnectionManager, 1, 0)
             T == <<10, 240>>
             C == pack_UINT(l)
             D == PadOf(message, old)
             X == <<1, 0>>
             Y == <<1, slot>>
             u1 == R \o P
             u2 == u1 \o T
             u3 == u2 \o C
             u4 == u3 \o message
             u5 == u4 \o D
             u6 == u5 \o X
             u7 == u6 \o Y
  <1>1. u7 = make_CM_Unconnected_Send(message, slot, old)
    <2>1. make_MR_Request(S_CM_Unconnected_Send, CIA_path_size(1, 0)) = R
      BY DEF make_MR_Request, S_CM_Unconnected_Send, CIA_path_size
    <2> DEFINE time == calc_tick_time(245760)
    <2>2. <<time.tick_time, time.ticks>> = T
      BY TickTime
    <2>3. <<port_path_size, 0>> = X /\ make_port_path(1, slot) = Y
      BY DEF port_path_size, make_port_path
    <2> HIDE DEF P, R, T, X, Y
    <2>4. make_CM_Unconnected_Send(message, slot, old) =
          make_MR_Request(S_CM_Unconnected_Send, CIA_path_size(1, 0)) \o P
          \o <<time.tick_time, time.ticks>> \o C
          \o message \o D \o <<port_path_size, 0>> \o make_port_path(1, slot)
      BY DEF make_CM_Unconnected_Send, PadOf, P
    <2> HIDE DEF C, D, time
    <2> QED BY <2>1, <2>2, <2>3, <2>4
  <1>2. P \in Bytes /\ Len(P) = 4
    <2> DEFINE P1 == <<32, 6>>
               P2 == <<36, 1>>
               P3 == P1 \o P2
               P4 == P3 \o <<>>
    <2>1. P = P4
      <3>1. 1 % 65536 = 1
        OBVIOUS
      <3> QED BY <3>1 DEF make_CIA_path, C_ConnectionManager
    <2>2. /\ P1 \in Bytes /\ Len(P1) = 2 /\ P2 \in Bytes /\ Len(P2) = 2
          /\ <<>> \in Bytes /\ Len(<<>>) = 0
      BY DEF Bytes, Byte
    <2> HIDE DEF P, P1, P2
    <2>3. P3 \in Bytes /\ Len(P3) = 4
      <3>1. P3 \in Bytes /\ Len(P3) = Len(P1) + Len(P2)
        BY <2>2, Join
      <3> QED BY <2>2, <3>1
    <2> HIDE DEF P3
    <2>4. P4 \in Bytes /\ Len(P4) = Len(P3) + Len(<<>>)
      BY <2>2, <2>3, Join
    <2> HIDE DEF P4
    <2> QED BY <2>1, <2>2, <2>3, <2>4
  <1>3. /\ R \in Bytes /\ Len(R) = 2 /\ T \in Bytes /\ Len(T) = 2
        /\ X \in Bytes /\ Len(X) = 2 /\ Y \in Bytes /\ Len(Y) = 2
    BY DEF Bytes, Byte
  <1>4. /\ l \in Nat /\ d \in 0 .. 1 /\ C \in Bytes /\ Len(C) = 2 /\ D \in Bytes /\ Len(D) = d
        /\ l + d \in Nat
    <2>1. l \in Nat /\ d \in 0 .. 1 /\ D \in Bytes /\ Len(D) = d
      BY PadIs
    <2> HIDE DEF l, d, D
    <2>2. C \in Bytes /\ Len(C) = 2
      BY <2>1, PackType
    <2> QED BY <2>1, <2>2
  <1>20. Len(message) = l
    OBVIOUS
  <1> HIDE DEF l, d, R, P, T, C, D, X, Y
  <1>5. u1 \in Bytes /\ Len(u1) = 6
    <2>1. /\ u1 \in Bytes /\ Len(u1) = Len(R) + Len(P) /\ Holds(u1, Len(R), P)
          /\ \A p \in Nat, x \in Bytes : Holds(R, p, x) => Holds(u1, p, x)
      BY <1>2, <1>3, <1>4, Extend
    <2> QED BY <1>2, <1>3, <1>4, <1>20, <2>1
  <1> HIDE DEF u1
  <1>6. u2 \in Bytes /\ Len(u2) = 8 /\ Holds(u2, 6, T)
    <2>1. /\ u2 \in Bytes /\ Len(u2) = Len(u1) + Len(T) /\ Holds(u2, Len(u1), T)
          /\ \A p \in Nat, x \in Bytes : Holds(u1, p, x) => Holds(u2, p, x)
      BY <1>2, <1>3, <1>4, <1>5, Extend
    <2> QED BY <1>2, <1>3, <1>4, <1>20, <1>5, <2>1
  <1> HIDE DEF u2
  <1>7. u3 \in Bytes /\ Len(u3) = 10 /\ Holds(u3, 6, T) /\ Holds(u3, 8, C)
    <2>1. /\ u3 \in Bytes /\ Len(u3) = Len(u2) + Len(C) /\ Holds(u3, Len(u2), C)
          /\ \A p \in Nat, x \in Bytes : Holds(u2, p, x) => Holds(u3, p, x)
      BY <1>2, <1>3, <1>4, <1>6, Extend
    <2> QED BY <1>2, <1>3, <1>4, <1>20, <1>6, <2>1
  <1> HIDE DEF u3
  <1>8. u4 \in Bytes /\ Len(u4) = 10 + l
        /\ Holds(u4, 6, T) /\ Holds(u4, 8, C) /\ Holds(u4, 10, message)
    <2>1. /\ u4 \in Bytes /\ Len(u4) = Len(u3) + Len(message) /\ Holds(u4, Len(u3), message)
          /\ \A p \in Nat, x \in Bytes : Holds(u3, p, x) => Holds(u4, p, x)
      BY <1>2, <1>3, <1>4, <1>7, Extend
    <2> QED BY <1>2, <1>3, <1>4, <1>20, <1>7, <2>1
  <1> HIDE DEF u4
  <1>9. u5 \in Bytes /\ Len(u5) = 10 + (l + d)
        /\ Holds(u5, 6, T) /\ Holds(u5, 8, C) /\ Holds(u5, 10, message)
    <2>1. /\ u5 \in Bytes /\ Len(u5) = Len(u4) + Len(D) /\ Holds(u5, Len(u4), D)
          /\ \A p \in Nat, x \in Bytes : Holds(u4, p, x) => Holds(u5, p, x)
      BY <1>2, <1>3, <1>4, <1>8, Extend
    <2> QED BY <1>2, <1>3, <1>4, <1>20, <1>8, <2>1
  <1> HIDE DEF u5
  <1>10. u6 \in Bytes /\ Len(u6) = 12 + (l + d)
        /\ Holds(u6, 6, T) /\ Holds(u6, 8, C) /\ Holds(u6, 10, message) /\ Holds(u6, 10 + (l + d), X)
    <2>1. /\ u6 \in Bytes /\ Len(u6) = Len(u5) + Len(X) /\ Holds(u6, Len(u5), X)
          /\ \A p \in Nat, x \in Bytes : Holds(u5, p, x) => Holds(u6, p, x)
      BY <1>2, <1>3, <1>4, <1>9, Extend
    <2> QED BY <1>2, <1>3, <1>4, <1>20, <1>9, <2>1
  <1> HIDE DEF u6
  <1>11. u7 \in Bytes /\ Len(u7) = 14 + (l + d)
        /\ Holds(u7, 6, T) /\ Holds(u7, 8, C) /\ Holds(u7, 10, message) /\ Holds(u7, 10 + (l + d), X) /\ Holds(u7, 12 + (l + d), Y)
    <2>1. /\ u7 \in Bytes /\ Len(u7) = Len(u6) + Len(Y) /\ Holds(u7, Len(u6), Y)
          /\ \A p \in Nat, x \in Bytes : Holds(u6, p, x) => Holds(u7, p, x)
      BY <1>2, <1>3, <1>4, <1>10, Extend
    <2> QED BY <1>2, <1>3, <1>4, <1>20, <1>10, <2>1
  <1> HIDE DEF u7
  <1>12. Holds(u7, 10 + (l + d), <<1, 0, 1, slot>>)
    <2>1. 10 + (l + d) \in Nat /\ (10 + (l + d)) + 2 = 12 + (l + d) /\ 14 + (l + d) \in Nat
      BY <1>4
    <2>2. Holds(u7, 10 + (l + d), X) /\ Holds(u7, (10 + (l + d)) + 2, Y) /\ Len(u7) \in Nat
      BY <1>11, <2>1
    <2> QED BY <2>1, <2>2, TwoAndTwo DEF X, Y
  <1> QED BY <1>1, <1>4, <1>11, <1>12 DEF T, C, l, d
Sliced(u, m, t) == SubSeq(u, m + 1, m + Len(t)) = t

LEMMA SliceIs ==
    ASSUME NEW u \in Bytes, NEW t \in Bytes, NEW m, Holds(u, m, t)
    PROVE  Sliced(u, m, t)
  BY SliceBytes DEF Sliced

Recognized(frame, session, id, length) ==
    /\ EIP_unpack_RRData(frame).header.command = EC_SendRRData
    /\ EIP_unpack_RRData(frame).header.session = session
    /\ EIP_unpack_RRData(frame).header.trans_id = id
    /\ EIP_unpack_RRData(frame).data_length = length

LEMMA RecognizedBy ==
    ASSUME NEW frame, NEW session, NEW id, NEW length,
           unpack_UINT(frame, 1) = EC_SendRRData, unpack_UDINT(frame, 5) = session,
           unpack_UINT(frame, 39) = length, SubSeq(frame, 13, 20) = id
    PROVE  Recognized(frame, session, id, length)
  BY DEF Recognized, EIP_unpack_RRData, unpack_EncapsulationHeader

Ticks(send) == send[8] * 2 ^ send[7] = 245760

Delivered(send, message, slot) ==
    LET size == unpack_UINT(send, 9)
    IN  /\ SubSeq(send, 11, 10 + size) = message
        /\ From(send, 11 + size + (size % 2)) = <<1, 0, 1, slot>>
        /\ Ticks(send)

LEMMA DeliveredBy ==
    ASSUME NEW send, NEW message, NEW slot, NEW size, Ticks(send),
           unpack_UINT(send, 9) = size, SubSeq(send, 11, 10 + size) = message,
           From(send, 11 + size + (size % 2)) = <<1, 0, 1, slot>>
    PROVE  Delivered(send, message, slot)
  BY DEF Delivered

LEMMA Arriving ==
    ASSUME NEW message, NEW slot, NEW session, NEW id, NEW old,
           Recognized(SentFrame(message, slot, session, id, old), session, id,
                      Len(From(SentFrame(message, slot, session, id, old), 41))),
           Delivered(From(SentFrame(message, slot, session, id, old), 41), message, slot)
    PROVE  Arrives(message, slot, session, id, old)
  BY SMT DEF Arrives, Recognized, Delivered, Ticks

LEMMA FrameBounds ==
    ASSUME NEW e \in Nat, 16 + (14 + e) < 65536, NEW l \in Nat, l <= e
    PROVE  14 + e < 65536 /\ l < 65536
  OBVIOUS

UINT == {v \in Nat : v < 65536}
UDINT == {v \in Nat : v < 4294967296}

\* A request comes to its slot, whatever it is, if its size fits into the
\* header: nothing of the frame is lost, and the answer to it can be told
\* from any other (EIP_make_SendRRData, make_CM_Unconnected_Send,
\* EIP_send_connection_buffer).
THEOREM EveryRequestArrives ==
    ASSUME NEW message \in Bytes, NEW slot \in Byte, NEW old \in Byte,
           NEW session \in UDINT, NEW id \in Bytes, Len(id) = 8,
           16 + CM_Unconnected_Send_size(Len(message)) \in UINT
    PROVE  Arrives(message, slot, session, id, old)
  <1> DEFINE l == Len(message)
             d == l % 2
             e == l + d
             L == CM_Unconnected_Send_size(l)
             h == make_EncapsulationHeader(EC_SendRRData, 16 + L, session, id, 0)
             S == EIP_make_SendRRData(L, session, id)
             M == make_CM_Unconnected_Send(message, slot, old)
             frame == S \o M
             route == <<1, 0, 1, slot>>
  <1>1. l \in Nat /\ d \in 0 .. 1 /\ e \in Nat /\ l <= e
    <2>1. l \in Nat /\ d \in 0 .. 1
      BY PadIs
    <2> HIDE DEF l, d
    <2> QED BY <2>1
  <1>2. /\ M \in Bytes /\ Len(M) = 14 + e
        /\ Holds(M, 6, <<10, 240>>) /\ Holds(M, 8, pack_UINT(l))
        /\ Holds(M, 10, message) /\ Holds(M, 10 + e, route)
    BY SendParts
  <1>3. L = 14 + e
    <2>1. MR_Request_size(CIA_path_size(1, 0)) = 6
      BY DEF MR_Request_size, CIA_path_size
    <2>2. L = MR_Request_size(CIA_path_size(1, 0)) + 1 + 1 + 2 + l + d + 4
      BY DEF CM_Unconnected_Send_size
    <2> HIDE DEF l, d, L
    <2> QED BY <1>1, <2>1, <2>2
  <1>4. 16 + L < 65536 /\ session \in Nat /\ session < 4294967296
    <2>1. session \in Nat /\ session < 4294967296
      BY DEF UDINT
    <2>2. 16 + L \in UINT
      OBVIOUS
    <2> HIDE DEF L
    <2>3. 16 + L < 65536
      BY <2>2 DEF UINT
    <2> QED BY <2>1, <2>3
  <1>5. /\ message \in Bytes /\ route \in Bytes /\ Len(route) = 4
        /\ <<10, 240>> \in Bytes /\ Len(<<10, 240>>) = 2 /\ Len(message) = l
    BY DEF Bytes, Byte
  <1> HIDE DEF l, d, L
  <1>6. L \in Nat /\ 16 + L \in Nat /\ L < 65536 /\ l < 65536
    <2> HIDE DEF e
    <2>1. 16 + (14 + e) < 65536
      BY <1>3, <1>4
    <2>2. 14 + e < 65536 /\ l < 65536
      BY <1>1, <2>1, FrameBounds
    <2> QED BY <1>1, <1>3, <2>2
  <1> HIDE DEF e
  <1>7. S \in Bytes /\ Len(S) = 40 /\ Holds(S, 0, h) /\ Holds(S, 38, pack_UINT(L))
    BY <1>4, <1>6, SendRRDataParts
  <1>8. /\ h \in Bytes /\ Len(h) = 24
        /\ Holds(h, 0, pack_UINT(EC_SendRRData)) /\ Holds(h, 2, pack_UINT(16 + L))
        /\ Holds(h, 4, pack_UDINT(session)) /\ Holds(h, 12, id)
    <2>1. EC_SendRRData \in Nat /\ 0 \in Nat
      BY DEF EC_SendRRData
    <2> QED BY <1>4, <1>6, <2>1, HeaderParts
  <1>9. SentFrame(message, slot, session, id, old) =
        SubSeq(frame, 1, sizeof_EncapsulationHeader + unpack_UINT(frame, 3))
    BY DEF SentFrame, L, l
  <1> HIDE DEF h, S, M, route
  <1>10. /\ frame \in Bytes /\ Len(frame) = 54 + e
         /\ Holds(frame, 40, M) /\ Holds(frame, 0, h) /\ Holds(frame, 38, pack_UINT(L))
    <2>1. /\ frame \in Bytes /\ Len(frame) = Len(S) + Len(M) /\ Holds(frame, Len(S), M)
          /\ \A p \in Nat, x \in Bytes : Holds(S, p, x) => Holds(frame, p, x)
      <3>1. S \in Bytes /\ M \in Bytes
        BY <1>2, <1>7
      <3> QED BY <3>1, Extend
    <2>2. pack_UINT(L) \in Bytes
      BY <1>6, PackType
    <2> QED BY <1>1, <1>2, <1>7, <1>8, <2>1, <2>2
  <1> HIDE DEF frame
  <1>11. /\ Holds(frame, 0, pack_UINT(EC_SendRRData)) /\ Holds(frame, 2, pack_UINT(16 + L))
         /\ Holds(frame, 4, pack_UDINT(session)) /\ Holds(frame, 12, id)
    <2>1. /\ pack_UINT(EC_SendRRData) \in Bytes /\ pack_UINT(16 + L) \in Bytes
          /\ pack_UDINT(session) \in Bytes
      <3>1. EC_SendRRData \in Nat
        BY DEF EC_SendRRData
      <3> QED BY <1>4, <1>6, <3>1, PackType, PackUDINT
    <2>2. \A p \in Nat, x \in Bytes : Holds(h, p, x) => Holds(frame, 0 + p, x)
      <3>1. ASSUME NEW p \in Nat, NEW x \in Bytes, Holds(h, p, x)
            PROVE  Holds(frame, 0 + p, x)
        <4>1. 0 \in Nat
          OBVIOUS
        <4> QED BY <1>8, <1>10, <3>1, <4>1, HoldsIn
      <3> QED BY <3>1
    <2>3. \A p \in Nat : 0 + p = p
      OBVIOUS
    <2>4. \A p \in Nat, x \in Bytes : Holds(h, p, x) => Holds(frame, p, x)
      BY <2>2, <2>3
    <2>5. 0 \in Nat /\ 2 \in Nat /\ 4 \in Nat /\ 12 \in Nat
      OBVIOUS
    <2> QED BY <1>8, <2>1, <2>4, <2>5
  <1>12. unpack_UINT(frame, 3) = 16 + L
    <2>1. 2 \in Nat /\ 2 + 1 = 3
      OBVIOUS
    <2>2. unpack_UINT(frame, 2 + 1) = 16 + L
      BY <1>4, <1>6, <1>11, <2>1, UnpackHeld
    <2> QED BY <2>1, <2>2
  <1>13. SentFrame(message, slot, session, id, old) = frame
    <2>1. sizeof_EncapsulationHeader + unpack_UINT(frame, 3) = Len(frame)
      BY <1>1, <1>3, <1>10, <1>12 DEF sizeof_EncapsulationHeader
    <2>2. SubSeq(frame, 1, Len(frame)) = frame
      BY <1>10 DEF Bytes
    <2> QED BY <1>9, <2>1, <2>2
  <1>14. /\ unpack_UINT(frame, 1) = EC_SendRRData /\ unpack_UDINT(frame, 5) = session
         /\ unpack_UINT(frame, 39) = L /\ SubSeq(frame, 13, 20) = id
    <2>1. unpack_UINT(frame, 0 + 1) = EC_SendRRData
      <3>1. EC_SendRRData \in Nat /\ EC_SendRRData < 65536 /\ 0 \in Nat
        BY DEF EC_SendRRData
      <3> QED BY <1>11, <3>1, UnpackHeld
    <2>2. unpack_UDINT(frame, 4 + 1) = session
      <3>1. 4 \in Nat
        OBVIOUS
      <3> QED BY <1>4, <1>10, <1>11, <3>1, UnpackHeldUDINT
    <2>3. unpack_UINT(frame, 38 + 1) = L
      <3>1. 38 \in Nat
        OBVIOUS
      <3> QED BY <1>6, <1>10, <3>1, UnpackHeld
    <2>4. SubSeq(frame, 12 + 1, 12 + Len(id)) = id
      <3>1. Sliced(frame, 12, id)
        BY <1>10, <1>11, SliceIs
      <3> QED BY <3>1 DEF Sliced
    <2>5. 0 + 1 = 1 /\ 4 + 1 = 5 /\ 38 + 1 = 39 /\ 12 + 1 = 13 /\ 12 + Len(id) = 20
      OBVIOUS
    <2> QED BY <2>1, <2>2, <2>3, <2>4, <2>5
  <1>15. From(frame, 41) = M
    <2>1. SubSeq(frame, 40 + 1, 40 + Len(M)) = M
      <3>1. frame \in Bytes /\ M \in Bytes /\ Holds(frame, 40, M)
        BY <1>2, <1>10
      <3> QED BY <3>1, SliceBytes
    <2>2. 40 + 1 = 41 /\ 40 + Len(M) = Len(frame)
      BY <1>1, <1>2, <1>10
    <2> QED BY <2>1, <2>2 DEF From
  <1>16. unpack_UINT(M, 9) = l
    <2>1. 8 \in Nat /\ 8 + 1 = 9
      OBVIOUS
    <2>2. unpack_UINT(M, 8 + 1) = l
      BY <1>1, <1>2, <1>6, <2>1, UnpackHeld
    <2> QED BY <2>1, <2>2
  <1>17. SubSeq(M, 11, 10 + l) = message
    <2>1. SubSeq(M, 10 + 1, 10 + Len(message)) = message
      <3>1. M \in Bytes /\ Holds(M, 10, message)
        BY <1>2
      <3> QED BY <3>1, SliceBytes
    <2>2. 10 + 1 = 11 /\ 10 + Len(message) = 10 + l
      BY <1>5
    <2> QED BY <2>1, <2>2
  <1>18. From(M, 11 + l + d) = route
    <2>1. SubSeq(M, (10 + e) + 1, (10 + e) + Len(route)) = route
      <3>1. M \in Bytes /\ route \in Bytes /\ Holds(M, 10 + e, route)
        BY <1>2, <1>5
      <3> QED BY <3>1, SliceBytes
    <2>2. (10 + e) + 1 = 11 + l + d /\ (10 + e) + Len(route) = Len(M)
      BY <1>1, <1>2, <1>5 DEF e
    <2> QED BY <2>1, <2>2 DEF From
  <1>19. M[8] * 2 ^ M[7] = 245760
    <2>1. M[6 + 1] = 10 /\ M[6 + 2] = 240
      BY <1>2, <1>5 DEF Holds
    <2>2. M[7] = 10 /\ M[8] = 240
      BY <2>1
    <2>3. 2 ^ 10 = 1024 /\ 240 * 1024 = 245760
      OBVIOUS
    <2> QED BY <2>2, <2>3
  <1>20. L = Len(M)
    BY <1>2, <1>3
  <1>21. Recognized(frame, session, id, Len(M))
    BY <1>14, <1>20, RecognizedBy
  <1>22. Delivered(M, message, slot)
    <2>1. From(M, 11 + l + (l % 2)) = <<1, 0, 1, slot>>
      BY <1>18 DEF d, route
    <2>2. Ticks(M)
      BY <1>19, SMT DEF Ticks
    <2> QED BY <1>16, <1>17, <2>1, <2>2, DeliveredBy
  <1> HIDE DEF M
  <1>23. Recognized(SentFrame(message, slot, session, id, old), session, id,
                    Len(From(SentFrame(message, slot, session, id, old), 41)))
    BY <1>13, <1>15, <1>21
  <1>24. Delivered(From(SentFrame(message, slot, session, id, old), 41), message, slot)
    BY <1>13, <1>15, <1>22
  <1> QED BY <1>23, <1>24, Arriving

-----------------------------------------------------------------------------
(* Tags: the path of any tag names it, and so does its text. *)

(* A name fits into its segment, where the length is one byte. *)
Name == {name \in Bytes : name # <<>> /\ Len(name) < 256}
Node == {NameNode(name) : name \in Name} \cup {ElementNode(n) : n \in UDINT}

LEMMA Nodes ==
    ASSUME NEW node \in Node
    PROVE  \/ node.type = "te_name" /\ node.name \in Name /\ node = NameNode(node.name)
           \/ node.type = "te_element" /\ node.element \in UDINT /\ node = ElementNode(node.element)
  BY DEF Node, NameNode, ElementNode

SegmentOf(node) ==
    IF node.type = "te_name" THEN NameSegment(node.name) ELSE ElementSegment(node.element)

\* What there is of a segment in a path at m, as its reader looks at it.
Reads(path, m, node, size) == Segment(path, m + 1) = [node |-> <<node>>, size |-> size]

SegmentFacts(node, size) ==
    /\ SegmentOf(node) \in Bytes /\ Len(SegmentOf(node)) = size /\ size >= 2
    /\ \A path \in Bytes, m \in Nat : Holds(path, m, SegmentOf(node)) => Reads(path, m, node, size)

-----------------------------------------------------------------------------
LEMMA TwoBytes ==
    ASSUME NEW a \in Byte, NEW b \in Byte
    PROVE  /\ <<a, b>> \in Bytes /\ Len(<<a, b>>) = 2
           /\ \A u, m : Holds(u, m, <<a, b>>) => u[m + 1] = a /\ u[m + 2] = b
  <1>1. <<a, b>> \in Bytes /\ Len(<<a, b>>) = 2
    BY DEF Bytes
  <1>2. ASSUME NEW u, NEW m, Holds(u, m, <<a, b>>)
        PROVE  u[m + 1] = a /\ u[m + 2] = b
    <2>1. m \in Nat /\ \A k \in 1 .. Len(<<a, b>>) : u[m + k] = <<a, b>>[k]
      BY <1>2 DEF Holds
    <2>2. \A k \in 1 .. 2 : u[m + k] = <<a, b>>[k]
      BY <2>1
    <2>3. 1 \in 1 .. 2 /\ 2 \in 1 .. 2 /\ <<a, b>>[1] = a /\ <<a, b>>[2] = b
      OBVIOUS
    <2> QED BY <2>2, <2>3
  <1> QED BY <1>1, <1>2

\* What is in front of what follows, and what follows.
LEMMA InTwo ==
    ASSUME NEW s \in Bytes, NEW t \in Bytes, NEW u \in Bytes, NEW m \in Nat, Holds(u, m, s \o t)
    PROVE  Holds(u, m, s) /\ Holds(u, m + Len(s), t)
  <1>1. /\ s \o t \in Bytes /\ Holds(s \o t, Len(s), t)
        /\ \A p \in Nat, x \in Bytes : Holds(s, p, x) => Holds(s \o t, p, x)
    BY Extend
  <1>2. Len(s) \in Nat /\ 0 \in Nat /\ m + 0 = m
    BY DEF Bytes
  <1>3. Holds(s, 0, s)
    BY <1>2 DEF Holds
  <1>4. Holds(s \o t, 0, s)
    BY <1>1, <1>2, <1>3
  <1> DEFINE v == s \o t
  <1>5. v \in Bytes /\ Holds(v, 0, s) /\ Holds(v, Len(s), t) /\ Holds(u, m, v)
    BY <1>1, <1>4
  <1> HIDE DEF v
  <1>6. Holds(u, m + 0, s)
    BY <1>2, <1>5, HoldsIn
  <1>7. Holds(u, m + Len(s), t)
    BY <1>2, <1>5, HoldsIn
  <1> QED BY <1>2, <1>6, <1>7
LEMMA SmallIsByte ==
    ASSUME NEW n \in Nat, n < 256
    PROVE  n \in Byte
  BY DEF Byte

LEMMA NameSegmentRead ==
    ASSUME NEW name \in Name
    PROVE  SegmentFacts(NameNode(name), 2 + Len(name) + (Len(name) % 2))
  <1> DEFINE l == Len(name)
             d == l % 2
             H == <<145, l>>
             D == PadOf(name, 0)
             node == NameNode(name)
             s == (H \o name) \o D
  <1>1. name \in Bytes /\ l \in Nat /\ l \in Byte /\ l < 256
    <2>1. name \in Bytes /\ Len(name) < 256
      BY DEF Name
    <2>2. Len(name) \in Nat
      BY <2>1 DEF Bytes
    <2>3. Len(name) \in Byte
      BY <2>1, <2>2, SmallIsByte
    <2> QED BY <2>1, <2>2, <2>3
  <1>2. 145 \in Byte /\ 0 \in Byte /\ 145 \in Nat
    BY DEF Byte
  <1>3. D \in Bytes /\ d \in 0 .. 1 /\ Len(D) = d
    BY <1>1, <1>2, PadIs
  <1>4. /\ H \in Bytes /\ Len(H) = 2
        /\ \A u, m : Holds(u, m, H) => u[m + 1] = 145 /\ u[m + 2] = l
    BY <1>1, <1>2, TwoBytes
  <1>5. SegmentOf(node) = s
    <2>1. node.type = "te_name" /\ node.name = name
      BY DEF NameNode
    <2>2. SegmentOf(node) = NameSegment(name)
      BY <2>1 DEF SegmentOf
    <2>3. NameSegment(name) = <<145, Len(name)>> \o name \o (IF Len(name) % 2 = 1 THEN <<0>> ELSE <<>>)
      BY DEF NameSegment
    <2> QED BY <2>2, <2>3 DEF PadOf
  <1> HIDE DEF H, D, node
  <1>6. H \o name \in Bytes /\ Len(H \o name) = 2 + l
    <2>1. H \o name \in Bytes /\ Len(H \o name) = Len(H) + Len(name)
      <3>1. H \in Bytes /\ name \in Bytes
        BY <1>1, <1>4
      <3> QED BY <3>1, Join
    <2> QED BY <1>4, <2>1
  <1>7. s \in Bytes /\ Len(s) = 2 + l + d
    <2>1. s \in Bytes /\ Len(s) = Len(H \o name) + Len(D)
      BY <1>3, <1>6, Join
    <2> QED BY <1>3, <1>6, <2>1
  <1>8. ASSUME NEW path \in Bytes, NEW m \in Nat, Holds(path, m, s)
        PROVE  Reads(path, m, node, 2 + l + d)
    <2>1. Holds(path, m, H \o name)
      BY <1>3, <1>6, <1>8, InTwo
    <2>2. Holds(path, m, H) /\ Holds(path, m + 2, name)
      <3>1. H \in Bytes /\ name \in Bytes
        BY <1>1, <1>4
      <3>2. Holds(path, m, H) /\ Holds(path, m + Len(H), name)
        BY <2>1, <3>1, InTwo
      <3> QED BY <1>4, <3>2
    <2>3. path[m + 1] = 145 /\ path[m + 2] = l
      BY <1>4, <2>2
    <2>4. SubSeq(path, (m + 2) + 1, (m + 2) + Len(name)) = name
      BY <1>1, <2>2, SliceBytes
    <2>5. /\ (m + 2) + 1 = (m + 1) + 2 /\ (m + 2) + Len(name) = (m + 1) + 1 + path[(m + 1) + 1]
          /\ (m + 1) + 1 = m + 2
      BY <1>1, <2>3
    <2>6. SubSeq(path, (m + 1) + 2, (m + 1) + 1 + path[(m + 1) + 1]) = name
      BY <2>4, <2>5
    <2>7. Segment(path, m + 1) =
          [node |-> <<NameNode(SubSeq(path, (m + 1) + 2, (m + 1) + 1 + path[(m + 1) + 1]))>>,
           size |-> 2 + path[(m + 1) + 1] + (path[(m + 1) + 1] % 2)]
      BY <2>3 DEF Segment
    <2> QED BY <2>3, <2>5, <2>6, <2>7 DEF Reads, node, d, l
  <1> HIDE DEF l, d, s
  <1>9. 2 + l + d >= 2
    BY <1>1, <1>3
  <1>10. SegmentFacts(node, 2 + l + d)
    BY <1>5, <1>7, <1>8, <1>9 DEF SegmentFacts
  <1> QED BY <1>10 DEF node, l, d

LEMMA ByteElementRead ==
    ASSUME NEW n \in Nat, n <= 255
    PROVE  SegmentFacts(ElementNode(n), 2)
  <1> DEFINE node == ElementNode(n)
             s == <<40, n>>
  <1>1. 40 \in Byte /\ n \in Byte
    BY DEF Byte
  <1>2. /\ s \in Bytes /\ Len(s) = 2
        /\ \A u, m : Holds(u, m, s) => u[m + 1] = 40 /\ u[m + 2] = n
    BY <1>1, TwoBytes
  <1>3. SegmentOf(node) = s
    BY DEF SegmentOf, ElementSegment, ElementNode
  <1> HIDE DEF s, node
  <1>4. ASSUME NEW path \in Bytes, NEW m \in Nat, Holds(path, m, s)
        PROVE  Reads(path, m, node, 2)
    <2>1. path[m + 1] = 40 /\ path[(m + 1) + 1] = n
      BY <1>2, <1>4
    <2>2. Segment(path, m + 1) = [node |-> <<ElementNode(path[(m + 1) + 1])>>, size |-> 2]
      BY <2>1 DEF Segment
    <2> QED BY <2>1, <2>2 DEF Reads, node
  <1>5. SegmentFacts(node, 2)
    BY <1>2, <1>3, <1>4 DEF SegmentFacts
  <1> QED BY <1>5 DEF node

LEMMA WordElementRead ==
    ASSUME NEW n \in Nat, n > 255, n < 65536
    PROVE  SegmentFacts(ElementNode(n), 4)
  <1> DEFINE node == ElementNode(n)
             H == <<41, 0>>
             T == pack_UINT(n)
             s == H \o T
  <1>1. 41 \in Byte /\ 0 \in Byte
    BY DEF Byte
  <1>2. /\ H \in Bytes /\ Len(H) = 2
        /\ \A u, m : Holds(u, m, H) => u[m + 1] = 41 /\ u[m + 2] = 0
    BY <1>1, TwoBytes
  <1>3. T \in Bytes /\ Len(T) = 2
    BY PackType
  <1>4. SegmentOf(node) = s
    <2>1. SegmentOf(node) = ElementSegment(n)
      BY DEF SegmentOf, ElementNode
    <2>2. ~(n <= 255) /\ n <= 65535
      OBVIOUS
    <2> QED BY <2>1, <2>2 DEF ElementSegment
  <1> HIDE DEF H, T, node
  <1>5. s \in Bytes /\ Len(s) = 4
    <2>1. s \in Bytes /\ Len(s) = Len(H) + Len(T)
      <3>1. H \in Bytes /\ T \in Bytes
        BY <1>2, <1>3
      <3> QED BY <3>1, Join
    <2> QED BY <1>2, <1>3, <2>1
  <1>6. ASSUME NEW path \in Bytes, NEW m \in Nat, Holds(path, m, s)
        PROVE  Reads(path, m, node, 4)
    <2>1. Holds(path, m, H) /\ Holds(path, m + 2, T)
      <3>1. H \in Bytes /\ T \in Bytes /\ Holds(path, m, H \o T)
        BY <1>2, <1>3, <1>6
      <3>2. Holds(path, m, H) /\ Holds(path, m + Len(H), T)
        BY <3>1, InTwo
      <3> QED BY <1>2, <3>2
    <2>2. path[m + 1] = 41 /\ m + 2 \in Nat /\ (m + 2) + 1 = (m + 1) + 2
      BY <1>2, <2>1
    <2>3. unpack_UINT(path, (m + 2) + 1) = n
      BY <2>1, <2>2, UnpackHeld DEF T
    <2>4. Segment(path, m + 1) =
          [node |-> <<ElementNode(unpack_UINT(path, (m + 1) + 2))>>, size |-> 4]
      BY <2>2 DEF Segment
    <2> QED BY <2>2, <2>3, <2>4 DEF Reads, node
  <1> HIDE DEF s
  <1>7. SegmentFacts(node, 4)
    BY <1>4, <1>5, <1>6 DEF SegmentFacts
  <1> QED BY <1>7 DEF node

LEMMA LongElementRead ==
    ASSUME NEW n \in UDINT, n >= 65536
    PROVE  SegmentFacts(ElementNode(n), 6)
  <1> DEFINE node == ElementNode(n)
             H == <<42, 0>>
             T == pack_UDINT(n)
             s == H \o T
  <1>1. 42 \in Byte /\ 0 \in Byte /\ n \in Nat /\ n < 4294967296
    BY DEF Byte, UDINT
  <1>2. /\ H \in Bytes /\ Len(H) = 2
        /\ \A u, m : Holds(u, m, H) => u[m + 1] = 42 /\ u[m + 2] = 0
    BY <1>1, TwoBytes
  <1>3. T \in Bytes /\ Len(T) = 4
    BY <1>1, PackUDINT
  <1>4. SegmentOf(node) = s
    <2>1. SegmentOf(node) = ElementSegment(n)
      BY DEF SegmentOf, ElementNode
    <2>2. ~(n <= 255) /\ ~(n <= 65535)
      BY <1>1
    <2> QED BY <2>1, <2>2 DEF ElementSegment
  <1> HIDE DEF H, T, node
  <1>5. s \in Bytes /\ Len(s) = 6
    <2>1. s \in Bytes /\ Len(s) = Len(H) + Len(T)
      <3>1. H \in Bytes /\ T \in Bytes
        BY <1>2, <1>3
      <3> QED BY <3>1, Join
    <2> QED BY <1>2, <1>3, <2>1
  <1>6. ASSUME NEW path \in Bytes, NEW m \in Nat, Holds(path, m, s)
        PROVE  Reads(path, m, node, 6)
    <2>1. Holds(path, m, H) /\ Holds(path, m + 2, T)
      <3>1. H \in Bytes /\ T \in Bytes /\ Holds(path, m, H \o T)
        BY <1>2, <1>3, <1>6
      <3>2. Holds(path, m, H) /\ Holds(path, m + Len(H), T)
        BY <3>1, InTwo
      <3> QED BY <1>2, <3>2
    <2>2. path[m + 1] = 42 /\ m + 2 \in Nat /\ (m + 2) + 1 = (m + 1) + 2
      BY <1>2, <2>1
    <2>3. unpack_UDINT(path, (m + 2) + 1) = n
      BY <1>1, <2>1, <2>2, UnpackHeldUDINT DEF T
    <2>4. Segment(path, m + 1) =
          [node |-> <<ElementNode(unpack_UDINT(path, (m + 1) + 2))>>, size |-> 6]
      BY <2>2 DEF Segment
    <2> QED BY <2>2, <2>3, <2>4 DEF Reads, node
  <1> HIDE DEF s
  <1>7. SegmentFacts(node, 6)
    BY <1>4, <1>5, <1>6 DEF SegmentFacts
  <1> QED BY <1>7 DEF node
-----------------------------------------------------------------------------
(* Paths *)

SizeOf(node) ==
    IF node.type = "te_name" THEN 2 + Len(node.name) + (Len(node.name) % 2)
    ELSE IF node.element <= 255 THEN 2
    ELSE IF node.element <= 65535 THEN 4 ELSE 6

LEMMA Twice ==
    ASSUME NEW k \in Nat
    PROVE  2 * k \in Nat /\ (2 * k) % 2 = 0
  OBVIOUS

LEMMA EvenSize ==
    ASSUME NEW l \in Nat
    PROVE  2 + l + (l % 2) \in Nat /\ (2 + l + (l % 2)) % 2 = 0
  <1>1. l % 2 \in 0 .. 1
    OBVIOUS
  <1>2. PICK q \in Nat : l = 2 * q + (l % 2)
    <2>1. l \div 2 \in Nat
      OBVIOUS
    <2>2. l = 2 * (l \div 2) + (l % 2)
      OBVIOUS
    <2> QED BY <2>1, <2>2
  <1> DEFINE d == l % 2
  <1>3. d \in 0 .. 1 /\ l = 2 * q + d
    BY <1>1, <1>2
  <1> HIDE DEF d
  <1>4. 2 + l + d = 2 * (1 + q + d) /\ 1 + q + d \in Nat
    BY <1>3
  <1>5. 2 + l + d \in Nat /\ (2 + l + d) % 2 = 0
    BY <1>4, Twice
  <1> QED BY <1>5 DEF d

LEMMA SegmentRead ==
    ASSUME NEW node \in Node
    PROVE  SegmentFacts(node, SizeOf(node)) /\ SizeOf(node) \in Nat /\ SizeOf(node) % 2 = 0
  <1>1. CASE node.type = "te_name" /\ node.name \in Name /\ node = NameNode(node.name)
    <2>1. Len(node.name) \in Nat
      BY <1>1 DEF Name, Bytes
    <2>2. SizeOf(node) = 2 + Len(node.name) + (Len(node.name) % 2)
      BY <1>1 DEF SizeOf
    <2>3. SizeOf(node) \in Nat /\ SizeOf(node) % 2 = 0
      BY <2>1, <2>2, EvenSize
    <2>4. SegmentFacts(NameNode(node.name), 2 + Len(node.name) + (Len(node.name) % 2))
      BY <1>1, NameSegmentRead
    <2> QED BY <1>1, <2>2, <2>3, <2>4
  <1>2. CASE node.type = "te_element" /\ node.element \in UDINT /\ node = ElementNode(node.element)
    <2> DEFINE n == node.element
    <2>1. n \in Nat /\ n \in UDINT /\ node.type # "te_name"
      BY <1>2 DEF UDINT
    <2>2. SizeOf(node) = IF n <= 255 THEN 2 ELSE IF n <= 65535 THEN 4 ELSE 6
      BY <2>1 DEF SizeOf
    <2>3. node = ElementNode(n)
      BY <1>2
    <2> HIDE DEF n
    <2>4. CASE n <= 255
      <3>1. SegmentFacts(ElementNode(n), 2)
        BY <2>1, <2>4, ByteElementRead
      <3> QED BY <2>2, <2>3, <2>4, <3>1
    <2>5. CASE n > 255 /\ n < 65536
      <3>1. SegmentFacts(ElementNode(n), 4)
        BY <2>1, <2>5, WordElementRead
      <3>2. ~(n <= 255) /\ n <= 65535
        BY <2>1, <2>5
      <3> QED BY <2>2, <2>3, <3>1, <3>2
    <2>6. CASE n >= 65536
      <3>1. SegmentFacts(ElementNode(n), 6)
        BY <2>1, <2>6, LongElementRead
      <3>2. ~(n <= 255) /\ ~(n <= 65535)
        BY <2>1, <2>6
      <3> QED BY <2>2, <2>3, <3>1, <3>2
    <2> QED BY <2>1, <2>4, <2>5, <2>6
  <1> QED BY <1>1, <1>2, Nodes

Segments(tag) == [i \in 1 .. Len(tag) |-> SegmentOf(tag[i])]

LEMMA SegmentsOf ==
    ASSUME NEW tag \in Seq(Node)
    PROVE  /\ Len(tag) \in Nat /\ Segments(tag) \in Seq(Bytes) /\ Len(Segments(tag)) = Len(tag)
           /\ make_tag_path(tag) = FlattenSeq(Segments(tag))
           /\ \A i \in 1 .. Len(tag) :
                 /\ tag[i] \in Node /\ SegmentFacts(tag[i], SizeOf(tag[i]))
                 /\ Segments(tag)[i] = SegmentOf(tag[i]) /\ Segments(tag)[i] \in Bytes
                 /\ Len(Segments(tag)[i]) = SizeOf(tag[i])
                 /\ SizeOf(tag[i]) \in Nat /\ SizeOf(tag[i]) % 2 = 0 /\ SizeOf(tag[i]) >= 2
  <1>1. Len(tag) \in Nat /\ \A i \in 1 .. Len(tag) : tag[i] \in Node
    OBVIOUS
  <1>2. ASSUME NEW i \in 1 .. Len(tag)
        PROVE  /\ tag[i] \in Node /\ SegmentFacts(tag[i], SizeOf(tag[i]))
               /\ SegmentOf(tag[i]) \in Bytes /\ Len(SegmentOf(tag[i])) = SizeOf(tag[i])
               /\ SizeOf(tag[i]) \in Nat /\ SizeOf(tag[i]) % 2 = 0 /\ SizeOf(tag[i]) >= 2
    <2>1. tag[i] \in Node
      BY <1>1
    <2>2. SegmentFacts(tag[i], SizeOf(tag[i])) /\ SizeOf(tag[i]) \in Nat /\ SizeOf(tag[i]) % 2 = 0
      BY <2>1, SegmentRead
    <2>3. SegmentOf(tag[i]) \in Bytes /\ Len(SegmentOf(tag[i])) = SizeOf(tag[i]) /\ SizeOf(tag[i]) >= 2
      BY <2>2 DEF SegmentFacts
    <2> QED BY <2>1, <2>2, <2>3
  <1>3. \A i \in 1 .. Len(tag) : Segments(tag)[i] = SegmentOf(tag[i])
    BY DEF Segments
  <1>4. Segments(tag) \in Seq(Bytes) /\ Len(Segments(tag)) = Len(tag)
    <2>1. Segments(tag) \in [1 .. Len(tag) -> Bytes]
      BY <1>2 DEF Segments
    <2> QED BY <1>1, <2>1, FunctionIsSeq
  <1>5. make_tag_path(tag) = FlattenSeq(Segments(tag))
    BY DEF make_tag_path, Segments, SegmentOf
  <1> QED BY <1>1, <1>2, <1>3, <1>4, <1>5

\* Where the segments of a path begin.
Starts(tag) == Begin(Segments(tag))

LEMMA StartsOf ==
    ASSUME NEW tag \in Seq(Node)
    PROVE  /\ Starts(tag) \in [0 .. Len(tag) -> Nat] /\ Starts(tag)[0] = 0
           /\ make_tag_path(tag) \in Bytes /\ Len(make_tag_path(tag)) = Starts(tag)[Len(tag)]
           /\ \A i \in 1 .. Len(tag) :
                 /\ Starts(tag)[i] = Starts(tag)[i - 1] + SizeOf(tag[i])
                 /\ Starts(tag)[i - 1] \in Nat
                 /\ Starts(tag)[i] <= Starts(tag)[Len(tag)]
                 /\ Holds(make_tag_path(tag), Starts(tag)[i - 1], SegmentOf(tag[i]))
  <1> DEFINE parts == Segments(tag)
             path == make_tag_path(tag)
             B == Begin(parts)
  <1>1. /\ Len(tag) \in Nat /\ parts \in Seq(Bytes) /\ Len(parts) = Len(tag)
        /\ path = FlattenSeq(parts)
        /\ \A i \in 1 .. Len(tag) :
              /\ parts[i] = SegmentOf(tag[i]) /\ Len(parts[i]) = SizeOf(tag[i])
              /\ SizeOf(tag[i]) \in Nat
    BY SegmentsOf
  <1> HIDE DEF parts, path
  <1>2. parts \in Seq(Bytes)
    BY <1>1
  <1>3. /\ B \in [0 .. Len(parts) -> Nat] /\ B[0] = 0
        /\ FlattenSeq(parts) \in Bytes /\ Len(FlattenSeq(parts)) = B[Len(parts)]
        /\ \A i \in 1 .. Len(parts) :
              /\ B[i - 1] \in Nat /\ B[i] \in Nat
              /\ B[i] = B[i - 1] + Len(parts[i]) /\ B[i] <= B[Len(parts)]
              /\ \A k \in 1 .. Len(parts[i]) : FlattenSeq(parts)[B[i - 1] + k] = parts[i][k]
    BY <1>2, PartsOf
  <1> HIDE DEF B
  <1>4. /\ B \in [0 .. Len(tag) -> Nat] /\ B[0] = 0
        /\ path \in Bytes /\ Len(path) = B[Len(tag)]
    BY <1>1, <1>3
  <1>5. ASSUME NEW i \in 1 .. Len(tag)
        PROVE  /\ B[i] = B[i - 1] + SizeOf(tag[i]) /\ B[i - 1] \in Nat /\ B[i] <= B[Len(tag)]
               /\ Holds(path, B[i - 1], SegmentOf(tag[i]))
    <2>1. i \in 1 .. Len(parts)
      BY <1>1
    <2>2. /\ B[i - 1] \in Nat /\ B[i] = B[i - 1] + Len(parts[i]) /\ B[i] <= B[Len(parts)]
          /\ \A k \in 1 .. Len(parts[i]) : path[B[i - 1] + k] = parts[i][k]
      BY <1>1, <1>3, <2>1
    <2>3. B[i - 1] + Len(parts[i]) <= Len(path)
      BY <1>1, <1>4, <2>2
    <2>4. Holds(path, B[i - 1], parts[i])
      BY <2>2, <2>3 DEF Holds
    <2> QED BY <1>1, <2>2, <2>4
  <1> QED BY <1>4, <1>5 DEF Starts, B, parts, path

LEMMA EvenSum ==
    ASSUME NEW a \in Nat, NEW b \in Nat, a % 2 = 0, b % 2 = 0
    PROVE  (a + b) % 2 = 0
  OBVIOUS

LEMMA HalfOfEven ==
    ASSUME NEW a \in Nat, a % 2 = 0
    PROVE  2 * (a \div 2) = a
  OBVIOUS

\* Segments are whole words, and at least one each.
LEMMA StartsAreEven ==
    ASSUME NEW tag \in Seq(Node)
    PROVE  \A i \in 0 .. Len(tag) : Starts(tag)[i] % 2 = 0 /\ Starts(tag)[i] >= i
  <1> DEFINE n == Len(tag)
             B == Starts(tag)
             P == {i \in Nat : i <= n => B[i] % 2 = 0 /\ B[i] >= i}
  <1>1. /\ n \in Nat
        /\ \A i \in 1 .. n : SizeOf(tag[i]) \in Nat /\ SizeOf(tag[i]) % 2 = 0 /\ SizeOf(tag[i]) >= 2
    BY SegmentsOf
  <1>2. B[0] = 0 /\ \A i \in 1 .. n : B[i] = B[i - 1] + SizeOf(tag[i]) /\ B[i - 1] \in Nat
    BY StartsOf
  <1> HIDE DEF n, B
  <1>3. 0 \in P
    BY <1>2
  <1>4. ASSUME NEW i \in Nat, i \in P
        PROVE  i + 1 \in P
    <2>1. CASE i + 1 <= n
      <3>1. i + 1 \in 1 .. n /\ (i + 1) - 1 = i /\ i <= n
        BY <1>1, <2>1
      <3> DEFINE s == SizeOf(tag[i + 1])
      <3>2. B[i + 1] = B[i] + s /\ B[i] \in Nat /\ s \in Nat /\ s % 2 = 0 /\ s >= 2
        BY <1>1, <1>2, <3>1
      <3>3. B[i] % 2 = 0 /\ B[i] >= i
        BY <1>4, <3>1
      <3> HIDE DEF s
      <3>4. (B[i] + s) % 2 = 0
        BY <3>2, <3>3, EvenSum
      <3>5. B[i] + s >= i + 1
        BY <3>2, <3>3
      <3> QED BY <3>2, <3>4, <3>5
    <2>2. CASE ~(i + 1 <= n)
      BY <2>2
    <2> QED BY <2>1, <2>2
  <1>5. \A i \in Nat : i \in P => i + 1 \in P
    BY <1>4
  <1> HIDE DEF P
  <1>6. Nat \subseteq P
    BY <1>3, <1>5, Induction
  <1>7. \A i \in 0 .. n : i \in Nat /\ i <= n
    BY <1>1
  <1> QED BY <1>6, <1>7 DEF P, n, B
\* What was counted for a path is its length in words.
LEMMA PathSize ==
    ASSUME NEW tag \in Seq(Node)
    PROVE  2 * tag_path_size(tag) = Len(make_tag_path(tag)) /\ tag_path_size(tag) \in Nat
  <1> DEFINE n == Len(tag)
             B == Starts(tag)
  <1>1. n \in Nat /\ Len(Segments(tag)) = n
        /\ \A i \in 1 .. n : Len(Segments(tag)[i]) = SizeOf(tag[i])
    BY SegmentsOf
  <1>2. B \in [0 .. n -> Nat] /\ Len(make_tag_path(tag)) = B[n]
    BY StartsOf
  <1>3. \A i \in 0 .. n : B[i] % 2 = 0
    BY StartsAreEven
  <1>4. B[n] = Sum([i \in 1 .. n |-> SizeOf(tag[i])])
    <2>1. [i \in 1 .. n |-> Len(Segments(tag)[i])] = [i \in 1 .. n |-> SizeOf(tag[i])]
      BY <1>1
    <2>2. n \in 0 .. Len(Segments(tag))
      BY <1>1
    <2>3. Begin(Segments(tag))[n] = Sum([i \in 1 .. n |-> Len(Segments(tag)[i])])
      BY <2>2 DEF Begin
    <2> QED BY <2>1, <2>3 DEF Starts
  <1>5. tag_path_size(tag) = Sum([i \in 1 .. n |-> SizeOf(tag[i])]) \div 2
    BY DEF tag_path_size, SizeOf
  <1> HIDE DEF n, B
  <1>6. B[n] \in Nat /\ B[n] % 2 = 0
    BY <1>1, <1>2, <1>3
  <1>7. 2 * (B[n] \div 2) = B[n] /\ B[n] \div 2 \in Nat
    BY <1>6, HalfOfEven
  <1> QED BY <1>2, <1>4, <1>5, <1>7

\* The rounds of dump_raw_path.
First == [at |-> 1, tag |-> <<>>]

Dump(path, n) ==
    LET dump[i \in 0 .. n] == IF i = 0 THEN First ELSE DumpSegment(path, dump[i - 1])
    IN  dump

IsDump(g, path, n) ==
    g = [i \in 0 .. n |-> IF i = 0 THEN First ELSE DumpSegment(path, g[i - 1])]

Dumps(g, path, n) == g[0] = First /\ \A i \in 1 .. n : g[i] = DumpSegment(path, g[i - 1])

LEMMA DumpIs ==
    ASSUME NEW path, NEW n, NEW f, IsDump(f, path, n)
    PROVE  IsDump(Dump(path, n), path, n)
  <1> DEFINE Is(g) == IsDump(g, path, n)
  <1>1. Dump(path, n) = CHOOSE g : Is(g)
    BY DEF Dump, IsDump
  <1>2. \E g : Is(g)
    OBVIOUS
  <1>3. Is(CHOOSE g : Is(g))
    BY <1>2
  <1> QED BY <1>1, <1>3

LEMMA DumpSteps ==
    ASSUME NEW path, NEW n \in Nat, NEW g, IsDump(g, path, n)
    PROVE  Dumps(g, path, n)
  <1>1. \A i \in 0 .. n : g[i] = IF i = 0 THEN First ELSE DumpSegment(path, g[i - 1])
    BY DEF IsDump
  <1>2. 0 \in 0 .. n /\ \A i \in 1 .. n : i \in 0 .. n /\ i # 0
    OBVIOUS
  <1> QED BY <1>1, <1>2 DEF Dumps

LEMMA StepsDump ==
    ASSUME NEW path, NEW n \in Nat, NEW f, f = [i \in 0 .. n |-> f[i]], Dumps(f, path, n)
    PROVE  IsDump(f, path, n)
  <1>1. ASSUME NEW i \in 0 .. n
        PROVE  f[i] = IF i = 0 THEN First ELSE DumpSegment(path, f[i - 1])
    <2>1. i # 0 => i \in 1 .. n
      OBVIOUS
    <2>2. f[0] = First /\ \A j \in 1 .. n : f[j] = DumpSegment(path, f[j - 1])
      BY DEF Dumps
    <2> QED BY <2>1, <2>2
  <1>2. [i \in 0 .. n |-> f[i]] =
        [i \in 0 .. n |-> IF i = 0 THEN First ELSE DumpSegment(path, f[i - 1])]
    BY <1>1
  <1> QED BY <1>2 DEF IsDump

LEMMA DumpEnds ==
    ASSUME NEW path, NEW n \in Nat, NEW f, f = [i \in 0 .. n |-> f[i]], Dumps(f, path, n),
           n = Len(path)
    PROVE  dump_raw_path(path) = f[n].tag
  <1> DEFINE g == Dump(path, n)
  <1>1. IsDump(f, path, n)
    BY StepsDump
  <1>2. IsDump(g, path, n)
    BY <1>1, DumpIs
  <1>3. dump_raw_path(path) = g[n].tag
    BY DEF dump_raw_path, Dump, First
  <1> HIDE DEF g
  <1>4. Dumps(g, path, n)
    BY <1>2, DumpSteps
  <1>5. SameStep(f, g, n)
    BY <1>4 DEF Dumps, SameStep
  <1>6. \A i \in 0 .. n : f[i] = g[i]
    BY <1>5, SameSteps
  <1>7. n \in 0 .. n
    OBVIOUS
  <1> QED BY <1>3, <1>6, <1>7

\* Before each segment but the first, those before it have been read.
ReadUpTo(tag, i) == [at |-> Starts(tag)[i] + 1, tag |-> SubSeq(tag, 1, i)]

LEMMA DumpNext ==
    ASSUME NEW path, NEW st, NEW node, NEW size, ~(st.at > Len(path)),
           Segment(path, st.at) = [node |-> <<node>>, size |-> size]
    PROVE  DumpSegment(path, st) = [at |-> st.at + size, tag |-> st.tag \o <<node>>]
  BY DEF DumpSegment

LEMMA ReadsNext ==
    ASSUME NEW tag \in Seq(Node), NEW i \in 1 .. Len(tag)
    PROVE  DumpSegment(make_tag_path(tag), ReadUpTo(tag, i - 1)) = ReadUpTo(tag, i)
  <1> DEFINE path == make_tag_path(tag)
             B == Starts(tag)
             node == tag[i]
             size == SizeOf(node)
             m == B[i - 1]
  <1>1. node \in Node /\ size \in Nat /\ size >= 2 /\ SegmentFacts(node, size) /\ Len(tag) \in Nat
    BY SegmentsOf
  <1>2. /\ path \in Bytes /\ Len(path) = B[Len(tag)] /\ B \in [0 .. Len(tag) -> Nat]
        /\ B[i] = m + size /\ m \in Nat /\ B[i] <= B[Len(tag)]
        /\ Holds(path, m, SegmentOf(node))
    BY StartsOf
  <1>3. SubSeq(tag, 1, i - 1) \o <<node>> = SubSeq(tag, 1, i)
    BY NextOfFront
  <1> DEFINE s == SubSeq(tag, 1, i - 1)
             t == SubSeq(tag, 1, i)
  <1>4. ReadUpTo(tag, i - 1) = [at |-> m + 1, tag |-> s] /\ ReadUpTo(tag, i) = [at |-> B[i] + 1, tag |-> t]
    BY DEF ReadUpTo
  <1> HIDE DEF path, B, node, size, s, t
  <1>5. \A p \in Bytes, k \in Nat : Holds(p, k, SegmentOf(node)) => Reads(p, k, node, size)
    BY <1>1 DEF SegmentFacts
  <1>6. Reads(path, m, node, size)
    BY <1>2, <1>5
  <1>7. Segment(path, m + 1) = [node |-> <<node>>, size |-> size]
    BY <1>6 DEF Reads
  <1>8. Len(path) \in Nat /\ m + 1 <= Len(path) /\ (m + 1) + size = B[i] + 1
    BY <1>1, <1>2
  <1> HIDE DEF m
  <1>9. ~(m + 1 > Len(path))
    BY <1>2, <1>8
  <1>10. DumpSegment(path, [at |-> m + 1, tag |-> s]) =
         [at |-> (m + 1) + size, tag |-> s \o <<node>>]
    <2> DEFINE st == [at |-> m + 1, tag |-> s]
    <2>1. st.at = m + 1 /\ st.tag = s
      OBVIOUS
    <2> HIDE DEF st
    <2>2. ~(st.at > Len(path)) /\ Segment(path, st.at) = [node |-> <<node>>, size |-> size]
      BY <1>7, <1>9, <2>1
    <2>3. DumpSegment(path, st) = [at |-> st.at + size, tag |-> st.tag \o <<node>>]
      BY <2>2, DumpNext
    <2> QED BY <2>1, <2>3 DEF st
  <1> QED BY <1>3, <1>4, <1>8, <1>10 DEF path, s, t, node

\* The path of a tag of any names and elements names this tag and is as long
\* as was counted for it (make_tag_path, tag_path_size, dump_raw_path).
THEOREM EveryTagNamed ==
    ASSUME NEW tag \in Seq(Node)
    PROVE  PathNames(tag)
  <1> DEFINE path == make_tag_path(tag)
             B == Starts(tag)
             n == Len(tag)
             N == Len(path)
             f == [i \in 0 .. N |-> ReadUpTo(tag, IF i <= n THEN i ELSE n)]
  <1>1. /\ path \in Bytes /\ N = B[n] /\ B \in [0 .. n -> Nat] /\ B[0] = 0
    BY StartsOf
  <1>2. n \in Nat /\ \A i \in 0 .. n : B[i] >= i
    BY StartsAreEven
  <1>3. N \in Nat /\ N >= n /\ n \in 0 .. n
    <2> HIDE DEF n, N, B
    <2> QED BY <1>1, <1>2
  <1>4. SubSeq(tag, 1, 0) = <<>> /\ SubSeq(tag, 1, n) = tag
    OBVIOUS
  <1>5. ReadUpTo(tag, 0) = First /\ ReadUpTo(tag, n) = [at |-> N + 1, tag |-> tag]
    BY <1>1, <1>4 DEF ReadUpTo, First
  <1>6. \A i \in 1 .. n : DumpSegment(path, ReadUpTo(tag, i - 1)) = ReadUpTo(tag, i)
    BY ReadsNext
  <1>7. DumpSegment(path, ReadUpTo(tag, n)) = ReadUpTo(tag, n)
    <2> DEFINE st == [at |-> N + 1, tag |-> tag]
    <2>1. st.at > N
      BY <1>3
    <2> HIDE DEF st
    <2>2. DumpSegment(path, st) = st
      BY <2>1 DEF DumpSegment
    <2> QED BY <1>5, <2>2 DEF st
  <1> HIDE DEF path, n, N, B
  <1>8. Dumps(f, path, N)
    <2>1. f[0] = First
      BY <1>2, <1>3, <1>5
    <2>2. ASSUME NEW i \in 1 .. N
          PROVE  f[i] = DumpSegment(path, f[i - 1])
      <3>1. i - 1 \in 0 .. N /\ i \in 0 .. N
        BY <1>3
      <3>2. CASE i <= n
        <4>1. i \in 1 .. n /\ i - 1 <= n
          BY <1>2, <3>2
        <4>2. f[i] = ReadUpTo(tag, i) /\ f[i - 1] = ReadUpTo(tag, i - 1)
          BY <3>1, <3>2, <4>1
        <4> QED BY <1>6, <4>1, <4>2
      <3>3. CASE i = n + 1
        <4>1. i - 1 = n /\ ~(i <= n)
          BY <1>2, <3>3
        <4>2. f[i] = ReadUpTo(tag, n) /\ f[i - 1] = ReadUpTo(tag, n)
          BY <1>2, <3>1, <4>1
        <4> QED BY <1>7, <4>2
      <3>4. CASE i > n + 1
        <4>1. ~(i - 1 <= n) /\ ~(i <= n)
          BY <1>2, <3>4
        <4>2. f[i] = ReadUpTo(tag, n) /\ f[i - 1] = ReadUpTo(tag, n)
          BY <3>1, <4>1
        <4> QED BY <1>7, <4>2
      <3> QED BY <1>2, <3>2, <3>3, <3>4
    <2> HIDE DEF f
    <2> QED BY <2>1, <2>2 DEF Dumps
  <1>9. f[N] = ReadUpTo(tag, n)
    <2>1. N \in 0 .. N /\ (IF N <= n THEN N ELSE n) = n
      BY <1>2, <1>3
    <2> QED BY <2>1
  <1>10. f = [i \in 0 .. N |-> f[i]]
    OBVIOUS
  <1> HIDE DEF f
  <1>11. dump_raw_path(path) = f[N].tag
    <2>1. N = Len(path)
      BY DEF N
    <2> QED BY <1>3, <1>8, <1>10, <2>1, DumpEnds
  <1>12. dump_raw_path(path) = tag
    BY <1>5, <1>9, <1>11
  <1>13. 2 * tag_path_size(tag) = Len(path)
    BY PathSize DEF path
  <1> QED BY <1>12, <1>13 DEF PathNames, path
-----------------------------------------------------------------------------
(* Writing strings *)

Ended(bytes, n) ==
    /\ n = Len(bytes) \/ bytes[n + 1] = 0
    /\ \A i \in 1 .. n : bytes[i] # 0

\* A text ends somewhere.
LEMMA TextEnds ==
    ASSUME NEW bytes \in Bytes
    PROVE  TextLength(bytes) \in 0 .. Len(bytes) /\ Ended(bytes, TextLength(bytes))
  <1> DEFINE l == Len(bytes)
             P == {n \in Nat : n <= l => \/ \A i \in 1 .. n : bytes[i] # 0
                                         \/ \E k \in 0 .. l : Ended(bytes, k)}
  <1>1. l \in Nat
    BY DEF Bytes
  <1> HIDE DEF l
  <1>2. 0 \in P
    OBVIOUS
  <1>3. ASSUME NEW n \in Nat, n \in P
        PROVE  n + 1 \in P
    <2>1. CASE n + 1 <= l /\ \A i \in 1 .. n : bytes[i] # 0
      <3>1. CASE bytes[n + 1] = 0
        <4>1. n \in 0 .. l /\ Ended(bytes, n)
          BY <1>1, <2>1, <3>1 DEF Ended
        <4> QED BY <4>1
      <3>2. CASE bytes[n + 1] # 0
        <4>1. \A i \in 1 .. n + 1 : i \in 1 .. n \/ i = n + 1
          OBVIOUS
        <4>2. \A i \in 1 .. n + 1 : bytes[i] # 0
          BY <2>1, <3>2, <4>1
        <4> QED BY <4>2
      <3> QED BY <3>1, <3>2
    <2>2. CASE n + 1 <= l /\ \E k \in 0 .. l : Ended(bytes, k)
      BY <2>2
    <2>3. CASE ~(n + 1 <= l)
      BY <2>3
    <2>4. n + 1 <= l => n <= l
      BY <1>1
    <2> QED BY <1>3, <2>1, <2>2, <2>3, <2>4
  <1>4. \A n \in Nat : n \in P => n + 1 \in P
    BY <1>3
  <1> HIDE DEF P
  <1>5. Nat \subseteq P
    BY <1>2, <1>4, Induction
  <1>6. l \in P /\ l <= l /\ l \in 0 .. l
    BY <1>1, <1>5
  <1>7. \E k \in 0 .. l : Ended(bytes, k)
    <2>1. CASE \A i \in 1 .. l : bytes[i] # 0
      <3>1. Ended(bytes, l)
        BY <2>1 DEF Ended, l
      <3> QED BY <1>6, <3>1
    <2> QED BY <1>6, <2>1 DEF P
  <1>8. TextLength(bytes) = CHOOSE k \in 0 .. l : Ended(bytes, k)
    BY DEF TextLength, Ended, l
  <1> QED BY <1>7, <1>8 DEF l

LEMMA HeadIsBytes ==
    ASSUME NEW tag \in Seq(Node), tag_path_size(tag) \in Byte, NEW service \in Byte
    PROVE  make_MR_Request(service, tag_path_size(tag)) \o make_tag_path(tag) \in Bytes
  <1> DEFINE h == make_MR_Request(service, tag_path_size(tag))
  <1>1. h \in Bytes
    BY DEF make_MR_Request, Bytes
  <1>2. make_tag_path(tag) \in Bytes
    BY StartsOf
  <1> HIDE DEF h
  <1>3. h \o make_tag_path(tag) \in Bytes
    BY <1>1, <1>2, Join
  <1> QED BY <1>3 DEF h

LEMMA StringHeadIsBytes ==
    ASSUME NEW tag \in Seq(Node), tag_path_size(tag) \in Byte, NEW elements \in Nat, NEW length \in Nat
    PROVE  StringWriteHead(tag, elements, length) \in Bytes
  <1> DEFINE a == make_MR_Request(S_CIP_WriteData, tag_path_size(tag)) \o make_tag_path(tag)
             b == pack_UINT(T_CIP_STRUCT)
             c == pack_UINT(T_CIP_STRUCT_STRING)
             d == pack_UINT(elements)
             e == pack_UINT(length)
             f == pack_UINT(0)
  <1>1. S_CIP_WriteData \in Byte /\ T_CIP_STRUCT \in Nat /\ T_CIP_STRUCT_STRING \in Nat /\ 0 \in Nat
    BY DEF S_CIP_WriteData, T_CIP_STRUCT, T_CIP_STRUCT_STRING, Byte
  <1>2. a \in Bytes
    BY <1>1, HeadIsBytes
  <1>3. b \in Bytes /\ c \in Bytes /\ d \in Bytes /\ e \in Bytes /\ f \in Bytes
    BY <1>1, PackType
  <1>4. StringWriteHead(tag, elements, length) = a \o b \o c \o d \o e \o f
    BY DEF StringWriteHead
  <1> HIDE DEF a, b, c, d, e, f
  <1>5. a \o b \in Bytes
    BY <1>2, <1>3, Join
  <1>6. (a \o b) \o c \in Bytes
    BY <1>3, <1>5, Join
  <1>7. ((a \o b) \o c) \o d \in Bytes
    BY <1>3, <1>6, Join
  <1>8. (((a \o b) \o c) \o d) \o e \in Bytes
    BY <1>3, <1>7, Join
  <1>9. ((((a \o b) \o c) \o d) \o e) \o f \in Bytes
    BY <1>3, <1>8, Join
  <1> QED BY <1>4, <1>9

LEMMA WhatFollows ==
    ASSUME NEW s \in Bytes, NEW t \in Bytes
    PROVE  From(s \o t, Len(s) + 1) = t
  <1> DEFINE v == s \o t
  <1>1. /\ v \in Bytes /\ Len(v) = Len(s) + Len(t) /\ Holds(v, Len(s), t)
    BY Extend
  <1> HIDE DEF v
  <1>2. SubSeq(v, Len(s) + 1, Len(s) + Len(t)) = t
    BY <1>1, SliceBytes, SMTT(30)
  <1>3. From(v, Len(s) + 1) = t
    BY <1>1, <1>2 DEF From
  <1> QED BY <1>3 DEF v

\* A string of any length is written within its room, and what is sent is a
\* text that starts like the value and ends with 0 (make_CIP_WriteData).
THEOREM EveryWriteInside ==
    ASSUME NEW tag \in Seq(Node), tag_path_size(tag) \in Byte, NEW elements \in Nat,
           NEW raw_data \in Bytes, Len(raw_data) >= 6, NEW room \in Nat \ {0}
    PROVE  StaysInside(tag, elements, raw_data, room)
  <1> DEFINE text == From(raw_data, 7)
             length == TextLength(text)
             H == StringWriteHead(tag, elements, length)
             head == Len(H)
             fits == IF head + length >= head + room THEN (head + room) - head - 1 ELSE length
             start == SubSeq(text, 1, fits)
             write == WriteString(head + room, tag, elements, raw_data)
             sent == start \o <<0>>
  <1>1. text \in Bytes
    <2>1. Len(raw_data) \in Nat /\ raw_data \in Seq(Byte)
      BY DEF Bytes
    <2>2. SubSeq(raw_data, 7, Len(raw_data)) \in Seq(Byte)
      BY <2>1
    <2> QED BY <2>2 DEF From, Bytes
  <1> HIDE DEF text
  <1>2. Len(text) \in Nat /\ length \in 0 .. Len(text) /\ Ended(text, length)
    <2>1. Len(text) \in Nat
      BY <1>1 DEF Bytes
    <2> QED BY <1>1, <2>1, TextEnds
  <1> HIDE DEF length
  <1>3. length \in Nat /\ length <= Len(text) /\ \A i \in 1 .. length : text[i] # 0
    BY <1>2 DEF Ended
  <1>4. H \in Bytes /\ head \in Nat
    <2>1. H \in Bytes
      BY <1>3, StringHeadIsBytes
    <2> HIDE DEF H
    <2> QED BY <2>1 DEF Bytes
  <1>5. write = (H \o start) \o <<0>>
    BY DEF WriteString, text, length
  <1> HIDE DEF H, write
  <1> HIDE DEF head
  <1>6. /\ fits \in Nat /\ fits + 1 <= room /\ fits <= length
        /\ (length < room => fits = length)
    BY <1>3, <1>4
  <1> HIDE DEF fits
  <1>7. start \in Bytes /\ Len(start) = fits /\ \A i \in 1 .. fits : start[i] = text[i]
    <2>1. fits <= Len(text) /\ text \in Seq(Byte)
      BY <1>1, <1>2, <1>3, <1>6 DEF Bytes
    <2>2. start \in Seq(Byte) /\ Len(start) = fits /\ \A i \in 1 .. fits : start[i] = text[i]
      BY <1>6, <2>1
    <2> QED BY <2>2 DEF Bytes
  <1> HIDE DEF start
  <1>8. <<0>> \in Bytes /\ Len(<<0>>) = 1 /\ <<0>>[1] = 0
    BY DEF Bytes, Byte
  <1>9. /\ sent \in Bytes /\ Len(sent) = fits + 1 /\ \A i \in 1 .. fits : sent[i] = start[i]
    <2> DEFINE z == <<0>>
    <2>1. start \in Bytes /\ z \in Bytes
      BY <1>7, <1>8
    <2>2. Len(z) = 1
      OBVIOUS
    <2> HIDE DEF z
    <2>3. /\ start \o z \in Bytes /\ Len(start \o z) = Len(start) + Len(z)
          /\ \A i \in 1 .. Len(start) : (start \o z)[i] = start[i]
      BY <2>1, Join
    <2> QED BY <1>7, <2>2, <2>3 DEF z
  <1>10. write = H \o sent
    <2>1. H \in Seq(Byte) /\ start \in Seq(Byte) /\ <<0>> \in Seq(Byte)
      BY <1>4, <1>7, <1>8 DEF Bytes
    <2> QED BY <1>5, <2>1
  <1> HIDE DEF sent
  <1>11. Len(write) = head + (fits + 1)
    <2>1. H \in Bytes /\ sent \in Bytes
      BY <1>4, <1>9
    <2>2. Len(H \o sent) = Len(H) + Len(sent)
      BY <2>1, Join
    <2> QED BY <1>9, <1>10, <2>2 DEF head
  <1>12. From(write, head + 1) = sent
    <2>1. H \in Bytes /\ sent \in Bytes
      BY <1>4, <1>9
    <2>2. From(H \o sent, Len(H) + 1) = sent
      BY <2>1, WhatFollows
    <2> QED BY <1>10, <2>2 DEF head
  <1>13. Len(write) <= head + room
    BY <1>4, <1>6, <1>11
  <1>14. Len(sent) - 1 = fits
    BY <1>6, <1>9
  <1>15. sent = SubSeq(text, 1, Len(sent) - 1) \o <<0>>
    BY <1>14 DEF sent, start
  <1>16. \A i \in 1 .. Len(sent) - 1 : sent[i] # 0
    <2>1. \A i \in 1 .. fits : i \in 1 .. length
      BY <1>3, <1>6
    <2>2. \A i \in 1 .. fits : sent[i] # 0
      BY <1>3, <1>7, <1>9, <2>1
    <2> QED BY <1>14, <2>2
  <1>17. length < room => Len(sent) = length + 1
    BY <1>6, <1>9
  <1> QED BY <1>12, <1>13, <1>15, <1>16, <1>17 DEF StaysInside, text, length, H, head, write
-----------------------------------------------------------------------------
(* The text of a tag *)

Chars == Seq(Nat)
Token == {Dot, Open, Close} \cup {NameToken(t) : t \in Chars} \cup {NumberToken(n) : n \in Nat}
Part == {NameNode(t) : t \in Chars} \cup {ElementNode(n) : n \in Nat}

(* Names, each with one element at most. *)
Tag == {tag \in Seq(Part) :
            \A i \in 1 .. Len(tag) :
                tag[i].type = "te_element" => i > 1 /\ tag[i - 1].type = "te_name"}

LEMMA Tokens ==
    ASSUME NEW t \in Token
    PROVE  \/ t = Dot /\ t.token = "."
           \/ t = Open /\ t.token = "["
           \/ t = Close /\ t.token = "]"
           \/ t.token = "name" /\ t.name \in Chars /\ t = NameToken(t.name)
           \/ t.token = "number" /\ t.number \in Nat /\ t = NumberToken(t.number)
  BY DEF Token, Dot, Open, Close, NameToken, NumberToken

LEMMA PartKinds ==
    ASSUME NEW p \in Part
    PROVE  \/ p.type = "te_name" /\ p.name \in Chars /\ p = NameNode(p.name)
           \/ p.type = "te_element" /\ p.element \in Nat /\ p = ElementNode(p.element)
  BY DEF Part, NameNode, ElementNode

LEMMA TokensApart ==
    /\ Dot.token = "." /\ Open.token = "[" /\ Close.token = "]"
    /\ \A t : NameToken(t).token = "name" /\ NameToken(t).name = t
    /\ \A n : NumberToken(n).token = "number" /\ NumberToken(n).number = n
    /\ Dot # Open /\ Open # Close /\ Dot # Close
    /\ \A t : NameToken(t) \notin {Dot, Open, Close}
    /\ \A n : NumberToken(n) \notin {Dot, Open, Close}
  <1>1. /\ Dot.token = "." /\ Open.token = "[" /\ Close.token = "]"
        /\ \A t : NameToken(t).token = "name" /\ NameToken(t).name = t
        /\ \A n : NumberToken(n).token = "number" /\ NumberToken(n).number = n
    BY DEF Dot, Open, Close, NameToken, NumberToken
  <1> QED BY <1>1

Stop(text, e) == e = Len(text) + 1 \/ text[e] \in {Dot, Open}

LEMMA NameEnds ==
    ASSUME NEW S, NEW text \in Seq(S), NEW at \in 1 .. Len(text) + 1
    PROVE  /\ NameEnd(text, at) \in at .. Len(text) + 1 /\ Stop(text, NameEnd(text, at))
           /\ \A i \in at .. NameEnd(text, at) - 1 : text[i] \notin {Dot, Open}
  <1> DEFINE l == Len(text)
             P == {e \in at .. l + 1 : Stop(text, e)}
             Is(e) == Stop(text, e) /\ \A i \in at .. e - 1 : text[i] \notin {Dot, Open}
  <1>1. l \in Nat /\ at \in Nat
    OBVIOUS
  <1>2. l + 1 \in P /\ l + 1 \in Nat
    BY <1>1 DEF Stop
  <1> HIDE DEF P
  <1>3. PICK e \in Nat : e \in P /\ e <= l + 1 /\ \A i \in Nat : i < e => i \notin P
    BY <1>2, Least
  <1>4. e \in at .. l + 1 /\ Stop(text, e)
    BY <1>3 DEF P
  <1>5. ASSUME NEW i \in at .. e - 1
        PROVE  text[i] \notin {Dot, Open}
    <2>1. i \in Nat /\ i < e /\ i \in at .. l + 1
      BY <1>1, <1>4
    <2>2. i \notin P
      BY <1>3, <2>1
    <2> QED BY <2>1, <2>2 DEF P, Stop
  <1>6. \E x \in at .. l + 1 : Is(x)
    BY <1>4, <1>5
  <1>7. NameEnd(text, at) = CHOOSE x \in at .. l + 1 : Is(x)
    BY DEF NameEnd, Stop
  <1> HIDE DEF Is
  <1>8. NameEnd(text, at) \in at .. l + 1 /\ Is(NameEnd(text, at))
    BY <1>6, <1>7
  <1> QED BY <1>8 DEF Is, l

LEMMA Closes ==
    ASSUME NEW S, NEW text \in Seq(S), NEW at \in Nat
    PROVE  \/ Closing(text, at) = 0 /\ \A i \in at .. Len(text) : text[i] # Close
           \/ /\ Closing(text, at) \in at .. Len(text) /\ text[Closing(text, at)] = Close
              /\ \A i \in at .. Len(text) : text[i] = Close => Closing(text, at) <= i
  <1> DEFINE l == Len(text)
             P == {i \in at .. l : text[i] = Close}
             Is(i) == \A j \in P : i <= j
  <1>1. l \in Nat
    OBVIOUS
  <1>2. Closing(text, at) = IF P = {} THEN 0 ELSE CHOOSE i \in P : Is(i)
    BY DEF Closing
  <1>3. CASE P = {}
    BY <1>2, <1>3
  <1>4. CASE P # {}
    <2>1. PICK b \in P : TRUE
      BY <1>4
    <2>2. b \in Nat /\ P \subseteq Nat
      BY <1>1
    <2> HIDE DEF P
    <2>3. PICK e \in Nat : e \in P /\ e <= b /\ \A i \in Nat : i < e => i \notin P
      BY <2>1, <2>2, Least
    <2>4. \A j \in P : e <= j
      BY <2>2, <2>3
    <2>5. \E i \in P : Is(i)
      BY <2>3, <2>4
    <2> HIDE DEF Is
    <2>6. Closing(text, at) \in P /\ Is(Closing(text, at))
      BY <1>2, <1>4, <2>5
    <2> QED BY <2>6 DEF P, Is, l
  <1> QED BY <1>3, <1>4

EndAt(text, st) == NameEnd(text, st.at)
Named(text, st) == Append(st.tag, NameNode(NameOf(SubSeq(text, st.at, EndAt(text, st) - 1))))
CloseAt(text, st) == Closing(text, EndAt(text, st) + 1)

LEMMA Rounds ==
    ASSUME NEW text, NEW st
    PROVE  LET end == EndAt(text, st)
               close == CloseAt(text, st)
               more == st.at # 0 /\ end # st.at
           IN  /\ ~more => ParseName(text, st) = [at |-> 0, tag |-> st.tag]
               /\ more /\ end > Len(text) => ParseName(text, st) = [at |-> 0, tag |-> Named(text, st)]
               /\ more /\ ~(end > Len(text)) /\ text[end] = Dot =>
                  ParseName(text, st) = [at |-> end + 1, tag |-> Named(text, st)]
               /\ more /\ ~(end > Len(text)) /\ text[end] # Dot /\ close = 0 =>
                  ParseName(text, st) = [at |-> 0, tag |-> <<>>]
               /\ more /\ ~(end > Len(text)) /\ text[end] # Dot /\ close # 0 =>
                  ParseName(text, st) =
                     [at |-> IF close + 1 <= Len(text) /\ text[close + 1] = Dot
                             THEN close + 2 ELSE close + 1,
                      tag |-> Append(Named(text, st), ElementNode(Number(text, end + 1)))]
  BY DEF ParseName, EndAt, Named, CloseAt
LEMMA BeginOf ==
    ASSUME NEW S, NEW parts \in Seq(Seq(S))
    PROVE  Ends(Begin(parts), parts)
  <1> DEFINE n == Len(parts)
             s == [j \in 1 .. n |-> Len(parts[j])]
             at == [i \in 0 .. n |-> Sum([j \in 1 .. i |-> s[j]])]
  <1>1. n \in Nat /\ s \in [1 .. n -> Nat]
    OBVIOUS
  <1>2. at \in [0 .. n -> Nat] /\ at[0] = 0 /\ \A i \in 1 .. n : at[i] = at[i - 1] + s[i]
    <2> HIDE DEF s
    <2> QED BY <1>1, SumParts
  <1>3. Begin(parts) = at
    <2>1. ASSUME NEW i \in 0 .. n
          PROVE  [j \in 1 .. i |-> Len(parts[j])] = [j \in 1 .. i |-> s[j]]
      BY <1>1
    <2> QED BY <2>1 DEF Begin
  <1> QED BY <1>1, <1>2, <1>3 DEF Ends

LEMMA NameOfType ==
    ASSUME NEW tokens \in Seq(Token)
    PROVE  NameOf(tokens) \in Chars
  <1> DEFINE part(t) == CASE t.token = "name" -> t.name
                          [] t.token = "number" -> <<48 + t.number>>
                          [] OTHER -> <<93>>
             parts == [i \in 1 .. Len(tokens) |-> part(tokens[i])]
  <1>1. ASSUME NEW t \in Token
        PROVE  part(t) \in Seq(Nat)
    <2>1. CASE t.token = "name" /\ t.name \in Chars
      BY <2>1 DEF Chars
    <2>2. CASE t.token = "number" /\ t.number \in Nat
      <3>1. part(t) = <<48 + t.number>>
        BY <2>2
      <3>2. 48 + t.number \in Nat
        BY <2>2
      <3> HIDE DEF part
      <3> QED BY <3>1, <3>2
    <2>3. CASE t.token \notin {"name", "number"}
      <3>1. part(t) = <<93>>
        BY <2>3
      <3> HIDE DEF part
      <3> QED BY <3>1
    <2>4. \/ t.token = "name" /\ t.name \in Chars
          \/ t.token = "number" /\ t.number \in Nat
          \/ t.token \notin {"name", "number"}
      BY Tokens
    <2> QED BY <2>1, <2>2, <2>3, <2>4
  <1>2. NameOf(tokens) = FlattenSeq(parts)
    BY DEF NameOf
  <1> HIDE DEF part
  <1>3. Len(tokens) \in Nat /\ \A i \in 1 .. Len(tokens) : tokens[i] \in Token
    OBVIOUS
  <1>4. parts \in Seq(Seq(Nat))
    <2>1. parts \in [1 .. Len(tokens) -> Seq(Nat)]
      BY <1>1, <1>3
    <2> HIDE DEF parts
    <2> QED BY <1>3, <2>1, FunctionIsSeq
  <1> HIDE DEF parts
  <1>5. Ends(Begin(parts), parts)
    BY <1>4, BeginOf
  <1>6. FlattenSeq(parts) \in Seq(Nat)
    BY <1>4, <1>5, FlattenParts
  <1> QED BY <1>2, <1>6 DEF Chars

\* One name alone is printed as it is.
LEMMA NameOfOne ==
    ASSUME NEW t \in Chars
    PROVE  NameOf(<<NameToken(t)>>) = t
  <1> DEFINE tokens == <<NameToken(t)>>
             parts == [i \in 1 .. 1 |-> t]
             F == FlattenSeq(parts)
  <1>1. Len(tokens) = 1 /\ tokens[1].token = "name" /\ tokens[1].name = t
    BY DEF NameToken
  <1> HIDE DEF tokens
  <1>2. NameOf(tokens) = FlattenSeq(parts)
    <2> DEFINE part(i) == CASE tokens[i].token = "name" -> tokens[i].name
                            [] tokens[i].token = "number" -> <<48 + tokens[i].number>>
                            [] OTHER -> <<93>>
    <2>1. NameOf(tokens) = FlattenSeq([i \in 1 .. Len(tokens) |-> part(i)])
      BY DEF NameOf
    <2>2. part(1) = t
      BY <1>1
    <2> HIDE DEF part
    <2>3. \A i \in 1 .. 1 : part(i) = t
      BY <2>2
    <2>4. [i \in 1 .. 1 |-> part(i)] = parts
      BY <2>3
    <2> QED BY <1>1, <2>1, <2>4
  <1>3. t \in Seq(Nat) /\ Len(t) \in Nat
    BY DEF Chars
  <1>4. parts \in Seq(Seq(Nat)) /\ Len(parts) = 1 /\ parts[1] = t
    <2>1. parts \in [1 .. 1 -> Seq(Nat)] /\ parts[1] = t
      BY <1>3
    <2> HIDE DEF parts
    <2>2. parts \in Seq(Seq(Nat)) /\ Len(parts) = 1
      BY <2>1, FunctionIsSeq
    <2> QED BY <2>1, <2>2
  <1> HIDE DEF parts
  <1> DEFINE at == Begin(parts)
  <1>5. Ends(at, parts)
    BY <1>4, BeginOf
  <1> HIDE DEF at
  <1>6. at[0] = 0 /\ at[1] = Len(t)
    <2>1. at[0] = 0 /\ \A i \in 1 .. Len(parts) : at[i] = at[i - 1] + Len(parts[i])
      BY <1>5 DEF Ends
    <2>2. at[1] = at[0] + Len(t)
      BY <1>4, <2>1
    <2> QED BY <1>3, <2>1, <2>2
  <1>7. /\ F \in Seq(Nat) /\ Len(F) = at[Len(parts)]
        /\ \A i \in 1 .. Len(parts) : \A k \in 1 .. Len(parts[i]) : F[at[i - 1] + k] = parts[i][k]
    <2>1. parts \in Seq(Seq(Nat))
      BY <1>4
    <2>2. /\ FlattenSeq(parts) \in Seq(Nat) /\ Len(FlattenSeq(parts)) = at[Len(parts)]
          /\ \A i \in 1 .. Len(parts) :
                /\ at[i - 1] \in Nat /\ at[i] \in Nat
                /\ at[i - 1] <= at[i] /\ at[i] <= at[Len(parts)]
                /\ \A k \in 1 .. Len(parts[i]) : FlattenSeq(parts)[at[i - 1] + k] = parts[i][k]
      BY <1>5, <2>1, FlattenParts
    <2> QED BY <2>2
  <1>8. Len(F) = Len(t) /\ \A k \in 1 .. Len(t) : F[k] = t[k]
    <2>1. \A k \in 1 .. Len(parts[1]) : F[at[1 - 1] + k] = parts[1][k]
      BY <1>4, <1>7
    <2>2. \A k \in 1 .. Len(t) : F[0 + k] = t[k]
      BY <1>4, <1>6, <2>1
    <2>3. \A k \in 1 .. Len(t) : 0 + k = k
      OBVIOUS
    <2> QED BY <1>4, <1>6, <1>7, <2>2, <2>3
  <1> HIDE DEF F
  <1>9. F = t
    <2>1. F \in Seq(Nat) /\ t \in Seq(Nat) /\ Len(F) = Len(t) /\ Len(t) \in Nat
      BY <1>3, <1>7, <1>8
    <2> QED BY <1>8, <2>1
  <1> QED BY <1>2, <1>9 DEF F, tokens
LEMMA TagIs ==
    ASSUME NEW tag
    PROVE  tag \in Tag <=> /\ tag \in Seq(Part)
                           /\ \A i \in 1 .. Len(tag) :
                                 tag[i].type = "te_element" => i > 1 /\ tag[i - 1].type = "te_name"
  BY DEF Tag

LEMMA NodeTypes ==
    /\ \A t \in Chars : NameNode(t) \in Part /\ NameNode(t).type = "te_name" /\ NameNode(t).name = t
    /\ \A n \in Nat : ElementNode(n) \in Part /\ ElementNode(n).type = "te_element"
                      /\ ElementNode(n).element = n
  BY DEF Part, NameNode, ElementNode

LEMMA OneMoreName ==
    ASSUME NEW tag \in Tag, NEW t \in Chars
    PROVE  Append(tag, NameNode(t)) \in Tag
  <1> DEFINE p == NameNode(t)
             new == Append(tag, p)
  <1>1. p \in Part /\ p.type = "te_name"
    BY NodeTypes
  <1>2. /\ tag \in Seq(Part)
        /\ \A i \in 1 .. Len(tag) :
              tag[i].type = "te_element" => i > 1 /\ tag[i - 1].type = "te_name"
    BY TagIs
  <1> HIDE DEF p
  <1>3. /\ new \in Seq(Part) /\ Len(tag) \in Nat /\ Len(new) = Len(tag) + 1
        /\ new[Len(tag) + 1] = p /\ \A i \in 1 .. Len(tag) : new[i] = tag[i]
    BY <1>1, <1>2
  <1> HIDE DEF new
  <1>4. ASSUME NEW i \in 1 .. Len(new), new[i].type = "te_element"
        PROVE  i > 1 /\ new[i - 1].type = "te_name"
    <2>1. i \in 1 .. Len(tag) \/ i = Len(tag) + 1
      BY <1>3
    <2>2. i # Len(tag) + 1
      BY <1>1, <1>3, <1>4
    <2>3. i \in 1 .. Len(tag) /\ new[i] = tag[i]
      BY <1>3, <2>1, <2>2
    <2>4. i > 1 /\ tag[i - 1].type = "te_name"
      BY <1>2, <1>4, <2>3
    <2>5. i - 1 \in 1 .. Len(tag)
      BY <1>3, <2>3, <2>4
    <2> QED BY <1>3, <2>4, <2>5
  <1>5. new \in Tag
    BY <1>3, <1>4, TagIs
  <1> QED BY <1>5 DEF new, p

LEMMA OneMoreElement ==
    ASSUME NEW tag \in Tag, NEW t \in Chars, NEW n \in Nat
    PROVE  Append(Append(tag, NameNode(t)), ElementNode(n)) \in Tag
  <1> DEFINE p == ElementNode(n)
             old == Append(tag, NameNode(t))
             new == Append(old, p)
  <1>1. p \in Part /\ p.type = "te_element" /\ NameNode(t).type = "te_name"
    BY NodeTypes
  <1>2. old \in Tag
    BY OneMoreName
  <1>3. /\ old \in Seq(Part)
        /\ \A i \in 1 .. Len(old) :
              old[i].type = "te_element" => i > 1 /\ old[i - 1].type = "te_name"
    BY <1>2, TagIs
  <1>4. Len(old) \in Nat /\ Len(old) >= 1 /\ old[Len(old)].type = "te_name"
    <2>1. tag \in Seq(Part)
      BY TagIs
    <2> DEFINE q == NameNode(t)
    <2>2. q.type = "te_name"
      BY <1>1
    <2> HIDE DEF q
    <2>3. Append(tag, q)[Len(tag) + 1] = q /\ Len(Append(tag, q)) = Len(tag) + 1 /\ Len(tag) \in Nat
      BY <2>1
    <2> QED BY <2>2, <2>3 DEF q
  <1> HIDE DEF p, old
  <1>5. /\ new \in Seq(Part) /\ Len(new) = Len(old) + 1
        /\ new[Len(old) + 1] = p /\ \A i \in 1 .. Len(old) : new[i] = old[i]
    BY <1>1, <1>3
  <1> HIDE DEF new
  <1>6. ASSUME NEW i \in 1 .. Len(new), new[i].type = "te_element"
        PROVE  i > 1 /\ new[i - 1].type = "te_name"
    <2>1. i \in 1 .. Len(old) \/ i = Len(old) + 1
      BY <1>4, <1>5
    <2>2. CASE i = Len(old) + 1
      <3>1. i > 1 /\ i - 1 = Len(old) /\ Len(old) \in 1 .. Len(old)
        BY <1>4, <2>2
      <3>2. new[Len(old)] = old[Len(old)]
        BY <1>5, <3>1
      <3> QED BY <1>4, <3>1, <3>2
    <2>3. CASE i \in 1 .. Len(old)
      <3>1. i > 1 /\ old[i - 1].type = "te_name"
        BY <1>3, <1>5, <1>6, <2>3
      <3>2. i - 1 \in 1 .. Len(old)
        BY <1>4, <2>3, <3>1
      <3> QED BY <1>5, <3>1, <3>2
    <2> QED BY <2>1, <2>2, <2>3
  <1>7. new \in Tag
    BY <1>5, <1>6, TagIs
  <1> QED BY <1>7 DEF new, old, p

LEMMA NumberType ==
    ASSUME NEW text \in Seq(Token), NEW at \in Nat \ {0}
    PROVE  Number(text, at) \in Nat
  <1>1. CASE at <= Len(text) /\ text[at].token = "number"
    <2>1. text[at] \in Token
      BY <1>1
    <2>2. text[at].number \in Nat
      BY <1>1, <2>1, Tokens
    <2> QED BY <1>1, <2>2 DEF Number
  <1>2. CASE ~(at <= Len(text) /\ text[at].token = "number")
    BY <1>2 DEF Number
  <1> QED BY <1>1, <1>2

States(text) == [at : 0 .. Len(text) + 1, tag : Tag]

LEMMA StatesAre ==
    ASSUME NEW text
    PROVE  /\ \A a \in 0 .. Len(text) + 1, t \in Tag : [at |-> a, tag |-> t] \in States(text)
           /\ \A st \in States(text) :
                 st.at \in 0 .. Len(text) + 1 /\ st.tag \in Tag /\ st = [at |-> st.at, tag |-> st.tag]
  BY DEF States

\* A round of parsing gives a place in the text, or none, and a tag, whatever
\* the text is.
LEMMA ParseType ==
    ASSUME NEW text \in Seq(Token), NEW st \in States(text)
    PROVE  ParseName(text, st) \in States(text)
  <1> DEFINE l == Len(text)
             end == EndAt(text, st)
             close == CloseAt(text, st)
             more == st.at # 0 /\ end # st.at
             name == NameOf(SubSeq(text, st.at, end - 1))
             named == Named(text, st)
  <1>1. l \in Nat /\ st.at \in 0 .. l + 1 /\ st.tag \in Tag /\ 0 \in 0 .. l + 1
    BY StatesAre
  <1> DEFINE none == <<>>
  <1>2. none \in Tag
    <2>1. none \in Seq(Part) /\ \A i \in 1 .. Len(none) : FALSE
      OBVIOUS
    <2> HIDE DEF none
    <2> QED BY <2>1, TagIs
  <1>3. CASE ~more
    <2>1. ParseName(text, st) = [at |-> 0, tag |-> st.tag]
      BY <1>3, Rounds
    <2> QED BY <1>1, <2>1, StatesAre
  <1>4. CASE more
    <2>1. st.at \in 1 .. l + 1 /\ st.at \in Nat
      BY <1>1, <1>4
    <2>2. end \in st.at .. l + 1 /\ Stop(text, end)
      BY <2>1, NameEnds DEF EndAt
    <2>3. end \in Nat /\ end >= 2 /\ end + 1 \in Nat /\ end + 1 # 0
      BY <1>1, <1>4, <2>1, <2>2
    <2>4. name \in Chars
      <3>1. \A i \in st.at .. end - 1 : i \in 1 .. l
        BY <1>1, <2>1, <2>2
      <3>2. SubSeq(text, st.at, end - 1) \in Seq(Token)
        BY <2>1, <2>2, <2>3, <3>1
      <3> QED BY <3>2, NameOfType
    <2>5. named \in Tag
      <3>1. named = Append(st.tag, NameNode(name))
        BY DEF Named
      <3> HIDE DEF name, named
      <3> QED BY <1>1, <2>4, <3>1, OneMoreName
    <2> DEFINE number == Number(text, end + 1)
               new == Append(named, ElementNode(number))
    <2>6. number \in Nat
      BY <2>3, NumberType
    <2>7. new \in Tag
      <3>1. named = Append(st.tag, NameNode(name))
        BY DEF Named
      <3>2. Append(Append(st.tag, NameNode(name)), ElementNode(number)) \in Tag
        <4> HIDE DEF name, number
        <4> QED BY <1>1, <2>4, <2>6, OneMoreElement
      <3> HIDE DEF name, number, named
      <3> QED BY <3>1, <3>2
    <2>8. close = 0 \/ close \in end + 1 .. l
      BY <2>3, Closes DEF CloseAt
    <2> HIDE DEF end, close, named, new, l, name
    <2>9. CASE end > l
      <3>1. ParseName(text, st) = [at |-> 0, tag |-> named]
        BY <1>4, <2>9, Rounds DEF end, close, named, l
      <3> QED BY <1>1, <2>5, <3>1, StatesAre DEF l
    <2>10. CASE ~(end > l) /\ text[end] = Dot
      <3>1. ParseName(text, st) = [at |-> end + 1, tag |-> named]
        BY <1>4, <2>10, Rounds DEF end, close, named, l
      <3>2. end + 1 \in 0 .. l + 1
        BY <1>1, <2>3, <2>10
      <3> QED BY <2>5, <3>1, <3>2, StatesAre DEF l
    <2>11. CASE ~(end > l) /\ text[end] # Dot /\ close = 0
      <3>1. ParseName(text, st) = [at |-> 0, tag |-> none]
        BY <1>4, <2>11, Rounds DEF end, close, named, l
      <3> HIDE DEF none
      <3> QED BY <1>1, <1>2, <3>1, StatesAre DEF l
    <2>12. CASE ~(end > l) /\ text[end] # Dot /\ close # 0
      <3> DEFINE next == IF close + 1 <= l /\ text[close + 1] = Dot THEN close + 2 ELSE close + 1
      <3>1. ParseName(text, st) = [at |-> next, tag |-> new]
        BY <1>4, <2>12, Rounds DEF end, close, named, l, new
      <3>2. next \in 0 .. l + 1
        BY <1>1, <2>3, <2>8, <2>12
      <3> HIDE DEF next
      <3> QED BY <2>7, <3>1, <3>2, StatesAre DEF l
    <2> QED BY <2>9, <2>10, <2>11, <2>12
  <1> QED BY <1>3, <1>4
\* The rounds of EIP_parse_tag.
Parse(text, n) ==
    LET parse[i \in 0 .. n] == IF i = 0 THEN First ELSE ParseName(text, parse[i - 1])
    IN  parse

IsParse(g, text, n) ==
    g = [i \in 0 .. n |-> IF i = 0 THEN First ELSE ParseName(text, g[i - 1])]

Parses(g, text, n) == g[0] = First /\ \A i \in 1 .. n : g[i] = ParseName(text, g[i - 1])

LEMMA ParseIs ==
    ASSUME NEW text, NEW n, NEW f, IsParse(f, text, n)
    PROVE  IsParse(Parse(text, n), text, n)
  <1> DEFINE Is(g) == IsParse(g, text, n)
  <1>1. Parse(text, n) = CHOOSE g : Is(g)
    BY DEF Parse, IsParse
  <1>2. \E g : Is(g)
    OBVIOUS
  <1>3. Is(CHOOSE g : Is(g))
    BY <1>2
  <1> QED BY <1>1, <1>3

LEMMA ParseSteps ==
    ASSUME NEW text, NEW n \in Nat, NEW g, IsParse(g, text, n)
    PROVE  Parses(g, text, n)
  <1>1. \A i \in 0 .. n : g[i] = IF i = 0 THEN First ELSE ParseName(text, g[i - 1])
    BY DEF IsParse
  <1>2. 0 \in 0 .. n /\ \A i \in 1 .. n : i \in 0 .. n /\ i # 0
    OBVIOUS
  <1> QED BY <1>1, <1>2 DEF Parses

LEMMA StepsParse ==
    ASSUME NEW text, NEW n \in Nat, NEW f, f = [i \in 0 .. n |-> f[i]], Parses(f, text, n)
    PROVE  IsParse(f, text, n)
  <1>1. ASSUME NEW i \in 0 .. n
        PROVE  f[i] = IF i = 0 THEN First ELSE ParseName(text, f[i - 1])
    <2>1. i # 0 => i \in 1 .. n
      OBVIOUS
    <2>2. f[0] = First /\ \A j \in 1 .. n : f[j] = ParseName(text, f[j - 1])
      BY DEF Parses
    <2> QED BY <2>1, <2>2
  <1>2. [i \in 0 .. n |-> f[i]] =
        [i \in 0 .. n |-> IF i = 0 THEN First ELSE ParseName(text, f[i - 1])]
    BY <1>1
  <1> QED BY <1>2 DEF IsParse

\* Each round but the last finds a place in the text, so they can be done.
LEMMA ParseRuns ==
    ASSUME NEW text \in Seq(Token)
    PROVE  \E f \in [0 .. Len(text) + 1 -> States(text)] :
              Parses(f, text, Len(text) + 1) /\ EIP_parse_tag(text) = f[Len(text) + 1].tag
  <1> DEFINE n == Len(text) + 1
             T == States(text)
             step == [i \in 1 .. n |-> [st \in T |-> ParseName(text, st)]]
             g == Parse(text, n)
  <1>1. n \in Nat /\ n \in 0 .. n /\ 1 \in 0 .. n
    OBVIOUS
  <1>2. First \in T
    <2> DEFINE none == <<>>
    <2>1. none \in Tag
      <3>1. none \in Seq(Part) /\ \A i \in 1 .. Len(none) : FALSE
        OBVIOUS
      <3> HIDE DEF none
      <3> QED BY <3>1, TagIs
    <2>2. First = [at |-> 1, tag |-> none]
      BY DEF First
    <2> HIDE DEF none
    <2> QED BY <1>1, <2>1, <2>2, StatesAre
  <1>3. \A st \in T : ParseName(text, st) \in T
    BY ParseType
  <1>4. EIP_parse_tag(text) = g[n].tag
    BY DEF EIP_parse_tag, Parse, First
  <1> HIDE DEF T, n, g
  <1>5. step \in [1 .. n -> [T -> T]]
    BY <1>3
  <1> HIDE DEF step
  <1>6. Defined(T, n, First, step)
    BY <1>1, <1>2, <1>5, Recursion
  <1>7. PICK f \in [0 .. n -> T] : f[0] = First /\ \A i \in 1 .. n : f[i] = step[i][f[i - 1]]
    BY <1>6, DefinedIs
  <1>8. ASSUME NEW i \in 1 .. n
        PROVE  f[i] = ParseName(text, f[i - 1])
    <2>1. i - 1 \in 0 .. n
      BY <1>1
    <2>2. f[i - 1] \in T
      BY <1>7, <2>1
    <2> QED BY <1>7, <2>2 DEF step
  <1>9. Parses(f, text, n)
    BY <1>7, <1>8 DEF Parses
  <1>10. f = [i \in 0 .. n |-> f[i]]
    BY <1>7
  <1>11. IsParse(f, text, n)
    BY <1>1, <1>9, <1>10, StepsParse
  <1>12. IsParse(g, text, n)
    BY <1>11, ParseIs DEF g
  <1>13. Parses(g, text, n)
    BY <1>1, <1>12, ParseSteps
  <1>14. SameStep(f, g, n)
    BY <1>9, <1>13 DEF Parses, SameStep
  <1>15. \A i \in 0 .. n : f[i] = g[i]
    BY <1>1, <1>14, SameSteps
  <1>16. EIP_parse_tag(text) = f[n].tag
    BY <1>1, <1>4, <1>15
  <1>17. f \in [0 .. n -> T] /\ Parses(f, text, n) /\ EIP_parse_tag(text) = f[n].tag
    BY <1>9, <1>16
  <1> QED BY <1>17 DEF n, T

\* Whatever the text, what is parsed is a list of names with one element each
\* at most.
LEMMA ParsedIsTag ==
    ASSUME NEW text \in Seq(Token)
    PROVE  EIP_parse_tag(text) \in Tag
  <1> DEFINE n == Len(text) + 1
  <1>1. PICK f \in [0 .. n -> States(text)] : EIP_parse_tag(text) = f[n].tag
    BY ParseRuns
  <1>2. n \in 0 .. n
    OBVIOUS
  <1> HIDE DEF n
  <1>3. f[n] \in States(text)
    BY <1>2
  <1>4. f[n].tag \in Tag
    BY <1>3, StatesAre
  <1> QED BY <1>1, <1>4
-----------------------------------------------------------------------------
Piece(tag, i) ==
    IF tag[i].type = "te_element" THEN <<Open, NumberToken(tag[i].element), Close>>
    ELSE (IF i > 1 THEN <<Dot>> ELSE <<>>) \o <<NameToken(tag[i].name)>>

Pieces(tag) == [i \in 1 .. Len(tag) |-> Piece(tag, i)]

(* The tokens of one name or element, up to place b. *)
Prints(text, tag, i, a, b) ==
    IF tag[i].type = "te_element"
    THEN /\ b = a + 3
         /\ text[a + 1] = Open /\ text[a + 2] = NumberToken(tag[i].element) /\ text[a + 3] = Close
    ELSE /\ b = (IF i > 1 THEN a + 2 ELSE a + 1)
         /\ text[b] = NameToken(tag[i].name)
         /\ i > 1 => text[a + 1] = Dot

TextOf(text, tag, A) ==
    /\ text \in Seq(Token) /\ A \in [0 .. Len(tag) -> Nat] /\ A[0] = 0
    /\ Len(text) = A[Len(tag)]
    /\ \A i \in 1 .. Len(tag) :
          /\ A[i - 1] \in Nat /\ A[i] \in Nat /\ A[i] <= Len(text)
          /\ Prints(text, tag, i, A[i - 1], A[i])

LEMMA TokenSeqs ==
    /\ \A x \in Token : <<x>> \in Seq(Token) /\ Len(<<x>>) = 1 /\ <<x>>[1] = x
    /\ \A x, y \in Token : /\ <<x, y>> \in Seq(Token) /\ Len(<<x, y>>) = 2
                           /\ <<x, y>>[1] = x /\ <<x, y>>[2] = y
                           /\ <<x>> \o <<y>> = <<x, y>>
    /\ \A x, y, z \in Token : /\ <<x, y, z>> \in Seq(Token) /\ Len(<<x, y, z>>) = 3
                              /\ <<x, y, z>>[1] = x /\ <<x, y, z>>[2] = y /\ <<x, y, z>>[3] = z
    /\ \A x \in Token : <<>> \o <<x>> = <<x>>
  <1> DEFINE T == Token
  <1> HIDE DEF T
  <1>1. \A x \in T : <<x>> \in Seq(T) /\ Len(<<x>>) = 1 /\ <<x>>[1] = x
    OBVIOUS
  <1>2. \A x, y \in T : /\ <<x, y>> \in Seq(T) /\ Len(<<x, y>>) = 2
                         /\ <<x, y>>[1] = x /\ <<x, y>>[2] = y
    OBVIOUS
  <1>3. ASSUME NEW x \in T, NEW y \in T
        PROVE  <<x>> \o <<y>> = <<x, y>>
    <2> DEFINE s == <<x>>
               t == <<y>>
               u == <<x, y>>
    <2>1. s \in Seq(T) /\ t \in Seq(T) /\ u \in Seq(T)
      OBVIOUS
    <2>2. Len(s) = 1 /\ Len(t) = 1 /\ Len(u) = 2 /\ s[1] = x /\ t[1] = y /\ u[1] = x /\ u[2] = y
      OBVIOUS
    <2> HIDE DEF s, t, u
    <2>3. /\ s \o t \in Seq(T) /\ Len(s \o t) = Len(s) + Len(t)
          /\ \A i \in 1 .. Len(s) : (s \o t)[i] = s[i]
          /\ \A i \in 1 .. Len(t) : (s \o t)[Len(s) + i] = t[i]
      BY <2>1, Concat
    <2> DEFINE v == s \o t
    <2>4. v \in Seq(T) /\ Len(v) = 2 /\ v[1] = x /\ v[2] = y
      BY <2>2, <2>3
    <2> HIDE DEF v
    <2>5. v = u
      BY <2>1, <2>2, <2>4
    <2> QED BY <2>5 DEF s, t, u, v
  <1>4. \A x, y, z \in T : /\ <<x, y, z>> \in Seq(T) /\ Len(<<x, y, z>>) = 3
                            /\ <<x, y, z>>[1] = x /\ <<x, y, z>>[2] = y /\ <<x, y, z>>[3] = z
    OBVIOUS
  <1>5. ASSUME NEW x \in T
        PROVE  <<>> \o <<x>> = <<x>>
    OBVIOUS
  <1> QED BY <1>1, <1>2, <1>3, <1>4, <1>5 DEF T

LEMMA TokensOf ==
    /\ Dot \in Token /\ Open \in Token /\ Close \in Token
    /\ \A t \in Chars : NameToken(t) \in Token
    /\ \A n \in Nat : NumberToken(n) \in Token
  BY DEF Token

\* What is printed for one, and where it is when it begins behind place a.
LEMMA PieceIs ==
    ASSUME NEW tag \in Tag, NEW i \in 1 .. Len(tag)
    PROVE  /\ Piece(tag, i) \in Seq(Token) /\ Len(Piece(tag, i)) \in Nat
           /\ \A text : \A a \in Nat :
                 (\A k \in 1 .. Len(Piece(tag, i)) : text[a + k] = Piece(tag, i)[k]) =>
                 Prints(text, tag, i, a, a + Len(Piece(tag, i)))
  <1> DEFINE p == Piece(tag, i)
  <1>1. tag[i] \in Part
    BY TagIs
  <1>2. CASE tag[i].type = "te_element" /\ tag[i].element \in Nat
    <2> DEFINE x == NumberToken(tag[i].element)
    <2>1. x \in Token /\ Open \in Token /\ Close \in Token
      BY <1>2, TokensOf
    <2>2. p = <<Open, x, Close>>
      BY <1>2 DEF Piece
    <2> HIDE DEF p, x
    <2>3. p \in Seq(Token) /\ Len(p) = 3 /\ p[1] = Open /\ p[2] = x /\ p[3] = Close
      BY <2>1, <2>2, TokenSeqs
    <2>4. ASSUME NEW text, NEW a \in Nat, \A k \in 1 .. Len(p) : text[a + k] = p[k]
          PROVE  Prints(text, tag, i, a, a + Len(p))
      <3>1. text[a + 1] = Open /\ text[a + 2] = x /\ text[a + 3] = Close
        BY <2>3, <2>4
      <3> QED BY <1>2, <2>3, <3>1 DEF Prints, x
    <2> QED BY <2>3, <2>4 DEF p
  <1>3. CASE tag[i].type = "te_name" /\ tag[i].name \in Chars /\ i > 1
    <2> DEFINE x == NameToken(tag[i].name)
    <2>1. x \in Token /\ Dot \in Token
      BY <1>3, TokensOf
    <2>2. p = <<Dot>> \o <<x>>
      BY <1>3 DEF Piece
    <2> HIDE DEF p, x
    <2>3. p = <<Dot, x>>
      BY <2>1, <2>2, TokenSeqs
    <2>4. p \in Seq(Token) /\ Len(p) = 2 /\ p[1] = Dot /\ p[2] = x
      BY <2>1, <2>3, TokenSeqs
    <2>5. ASSUME NEW text, NEW a \in Nat, \A k \in 1 .. Len(p) : text[a + k] = p[k]
          PROVE  Prints(text, tag, i, a, a + Len(p))
      <3>1. text[a + 1] = Dot /\ text[a + 2] = x
        BY <2>4, <2>5
      <3> QED BY <1>3, <2>4, <3>1 DEF Prints, x
    <2> QED BY <2>4, <2>5 DEF p
  <1>4. CASE tag[i].type = "te_name" /\ tag[i].name \in Chars /\ ~(i > 1)
    <2> DEFINE x == NameToken(tag[i].name)
    <2>1. x \in Token
      BY <1>4, TokensOf
    <2>2. p = <<>> \o <<x>>
      BY <1>4 DEF Piece
    <2> HIDE DEF p, x
    <2>3. p = <<x>>
      BY <2>1, <2>2, TokenSeqs
    <2>4. p \in Seq(Token) /\ Len(p) = 1 /\ p[1] = x
      BY <2>1, <2>3, TokenSeqs
    <2>5. ASSUME NEW text, NEW a \in Nat, \A k \in 1 .. Len(p) : text[a + k] = p[k]
          PROVE  Prints(text, tag, i, a, a + Len(p))
      <3>1. text[a + 1] = x
        BY <2>4, <2>5
      <3> QED BY <1>4, <2>4, <3>1 DEF Prints, x
    <2> QED BY <2>4, <2>5 DEF p
  <1> QED BY <1>1, <1>2, <1>3, <1>4, PartKinds

LEMMA CopyIsText ==
    ASSUME NEW tag \in Tag
    PROVE  TextOf(EIP_copy_ParsedTag(tag), tag, Begin(Pieces(tag)))
  <1> DEFINE n == Len(tag)
             parts == Pieces(tag)
             text == EIP_copy_ParsedTag(tag)
             A == Begin(parts)
  <1>1. n \in Nat
    BY TagIs
  <1>2. text = FlattenSeq(parts)
    BY DEF EIP_copy_ParsedTag, Pieces, Piece
  <1>3. \A i \in 1 .. n : parts[i] = Piece(tag, i)
    BY DEF Pieces
  <1>4. \A i \in 1 .. n : Piece(tag, i) \in Seq(Token) /\ Len(Piece(tag, i)) \in Nat
    BY PieceIs
  <1>5. parts \in Seq(Seq(Token)) /\ Len(parts) = n
    <2>1. parts \in [1 .. n -> Seq(Token)]
      BY <1>4 DEF Pieces
    <2> HIDE DEF parts
    <2> QED BY <1>1, <2>1, FunctionIsSeq
  <1> HIDE DEF n, parts, text, A
  <1>6. parts \in Seq(Seq(Token))
    BY <1>5
  <1>7. Ends(A, parts)
    BY <1>6, BeginOf DEF A
  <1>8. /\ FlattenSeq(parts) \in Seq(Token) /\ Len(FlattenSeq(parts)) = A[Len(parts)]
        /\ \A i \in 1 .. Len(parts) :
              /\ A[i - 1] \in Nat /\ A[i] \in Nat
              /\ A[i - 1] <= A[i] /\ A[i] <= A[Len(parts)]
              /\ \A k \in 1 .. Len(parts[i]) : FlattenSeq(parts)[A[i - 1] + k] = parts[i][k]
    <2>1. \A at : Ends(at, parts) =>
             /\ FlattenSeq(parts) \in Seq(Token) /\ Len(FlattenSeq(parts)) = at[Len(parts)]
             /\ \A i \in 1 .. Len(parts) :
                   /\ at[i - 1] \in Nat /\ at[i] \in Nat
                   /\ at[i - 1] <= at[i] /\ at[i] <= at[Len(parts)]
                   /\ \A k \in 1 .. Len(parts[i]) : FlattenSeq(parts)[at[i - 1] + k] = parts[i][k]
      BY <1>6, FlattenParts
    <2> QED BY <1>7, <2>1
  <1>9. /\ A \in [0 .. Len(parts) -> Nat] /\ A[0] = 0
        /\ \A i \in 1 .. Len(parts) : A[i] = A[i - 1] + Len(parts[i])
    BY <1>7 DEF Ends
  <1>10. text \in Seq(Token) /\ A \in [0 .. n -> Nat] /\ A[0] = 0 /\ Len(text) = A[n]
    BY <1>2, <1>5, <1>8, <1>9
  <1>11. ASSUME NEW i \in 1 .. n
         PROVE  /\ A[i - 1] \in Nat /\ A[i] \in Nat /\ A[i] <= Len(text)
                /\ Prints(text, tag, i, A[i - 1], A[i])
    <2>1. i \in 1 .. Len(parts)
      BY <1>5
    <2>2. /\ A[i - 1] \in Nat /\ A[i] \in Nat /\ A[i] <= A[Len(parts)]
          /\ \A k \in 1 .. Len(parts[i]) : text[A[i - 1] + k] = parts[i][k]
      BY <1>2, <1>8, <2>1
    <2> DEFINE p == Piece(tag, i)
    <2>3. A[i] = A[i - 1] + Len(p) /\ parts[i] = p
      BY <1>3, <1>9, <2>1
    <2>4. \A k \in 1 .. Len(p) : text[A[i - 1] + k] = p[k]
      BY <2>2, <2>3
    <2>5. \A t : \A a \in Nat : (\A k \in 1 .. Len(p) : t[a + k] = p[k]) =>
                            Prints(t, tag, i, a, a + Len(p))
      BY PieceIs DEF n
    <2> HIDE DEF p
    <2>6. Prints(text, tag, i, A[i - 1], A[i - 1] + Len(p))
      BY <2>2, <2>4, <2>5
    <2>7. A[i] <= Len(text)
      BY <1>5, <1>10, <2>2
    <2> QED BY <2>2, <2>3, <2>6, <2>7
  <1>12. TextOf(text, tag, A)
    BY <1>10, <1>11 DEF TextOf, n
  <1> QED BY <1>12 DEF text, A, parts
\* A name of one token ends behind it.
LEMMA EndIs ==
    ASSUME NEW S, NEW text \in Seq(S), NEW at \in 1 .. Len(text), text[at] \notin {Dot, Open},
           Stop(text, at + 1)
    PROVE  NameEnd(text, at) = at + 1
  <1> DEFINE e == NameEnd(text, at)
             l == Len(text)
  <1>1. l \in Nat /\ at \in Nat /\ at >= 1 /\ at <= l
    OBVIOUS
  <1>2. e \in at .. l + 1 /\ Stop(text, e) /\ \A i \in at .. e - 1 : text[i] \notin {Dot, Open}
    <2>1. at \in 1 .. l + 1
      BY <1>1
    <2> QED BY <2>1, NameEnds
  <1> HIDE DEF e
  <1>3. e # at
    BY <1>1, <1>2 DEF Stop
  <1>4. e > at + 1 => at + 1 \in at .. e - 1 /\ at + 1 # l + 1
    BY <1>1, <1>2
  <1>5. ~(e > at + 1)
    BY <1>2, <1>4 DEF Stop
  <1> QED BY <1>1, <1>2, <1>3, <1>5 DEF e

\* A number is closed behind it.
LEMMA CloseIs ==
    ASSUME NEW S, NEW text \in Seq(S), NEW at \in Nat, at + 1 <= Len(text),
           text[at] # Close, text[at + 1] = Close
    PROVE  Closing(text, at) = at + 1
  <1> DEFINE c == Closing(text, at)
             l == Len(text)
  <1>1. l \in Nat /\ at + 1 \in at .. l
    OBVIOUS
  <1>2. \/ c = 0 /\ \A i \in at .. l : text[i] # Close
        \/ /\ c \in at .. l /\ text[c] = Close
           /\ \A i \in at .. l : text[i] = Close => c <= i
    BY Closes
  <1> HIDE DEF c
  <1>3. c \in at .. l /\ text[c] = Close /\ c <= at + 1
    BY <1>1, <1>2
  <1>4. c # at
    BY <1>3
  <1> QED BY <1>1, <1>3, <1>4 DEF c

LEMMA FrontIs ==
    ASSUME NEW tag \in Seq(Part), NEW i \in 1 .. Len(tag)
    PROVE  /\ Append(SubSeq(tag, 1, i - 1), tag[i]) = SubSeq(tag, 1, i)
           /\ SubSeq(tag, 1, Len(tag)) = tag
  <1> DEFINE s == SubSeq(tag, 1, i - 1)
             x == tag[i]
  <1>1. s \o <<x>> = SubSeq(tag, 1, i)
    BY NextOfFront
  <1>2. s \in Seq(Part) /\ x \in Part
    OBVIOUS
  <1> HIDE DEF s, x
  <1>3. Append(s, x) = s \o <<x>>
    BY <1>2
  <1>4. SubSeq(tag, 1, Len(tag)) = tag
    OBVIOUS
  <1> QED BY <1>1, <1>3, <1>4 DEF s, x

LEMMA OneOf ==
    ASSUME NEW S, NEW s \in Seq(S), NEW a \in 1 .. Len(s)
    PROVE  SubSeq(s, a, a) \in Seq(S) /\ Len(SubSeq(s, a, a)) = 1 /\ SubSeq(s, a, a)[1] = s[a]
  OBVIOUS

\* The state of parsing before name number i.
AtName(tag, A, i) == [at |-> A[i], tag |-> SubSeq(tag, 1, i - 1)]
Done(tag) == [at |-> 0, tag |-> tag]
AtEnd(text, tag) == [at |-> Len(text) + 1, tag |-> tag]

\* Name number i, the token behind which ends it, and what a round of parsing
\* finds there.
IsName(text, tag, A, i) ==
    /\ tag \in Tag /\ TextOf(text, tag, A)
    /\ i \in 1 .. Len(tag) /\ tag[i].type = "te_name" /\ Stop(text, A[i] + 1)
Found(text, tag, A, i) ==
    /\ AtName(tag, A, i).at = A[i] /\ A[i] \in Nat /\ A[i] >= 1 /\ A[i] <= Len(text)
    /\ EndAt(text, AtName(tag, A, i)) = A[i] + 1
    /\ Named(text, AtName(tag, A, i)) = SubSeq(tag, 1, i)

LEMMA NameFound ==
    ASSUME NEW text, NEW tag, NEW A, NEW i, IsName(text, tag, A, i)
    PROVE  Found(text, tag, A, i)
  <1> DEFINE st == AtName(tag, A, i)
             t == tag[i].name
             s == SubSeq(tag, 1, i - 1)
  <1>0. /\ tag \in Tag /\ TextOf(text, tag, A)
        /\ i \in 1 .. Len(tag) /\ tag[i].type = "te_name" /\ Stop(text, A[i] + 1)
    BY DEF IsName
  <1>1. tag \in Seq(Part) /\ tag[i] \in Part
    BY <1>0, TagIs
  <1>2. t \in Chars /\ tag[i] = NameNode(t)
    BY <1>0, <1>1, PartKinds
  <1>3. text \in Seq(Token) /\ A[i - 1] \in Nat /\ A[i] \in Nat /\ A[i] <= Len(text)
        /\ Prints(text, tag, i, A[i - 1], A[i])
    BY <1>0 DEF TextOf
  <1>4. A[i] >= 1 /\ text[A[i]] = NameToken(t)
    BY <1>0, <1>3 DEF Prints
  <1>5. st.at = A[i] /\ st.tag = s
    BY DEF AtName
  <1>6. text[A[i]] \notin {Dot, Open}
    BY <1>4, TokensApart
  <1>7. NameEnd(text, A[i]) = A[i] + 1
    <2>1. A[i] \in 1 .. Len(text)
      BY <1>3, <1>4
    <2> QED BY <1>0, <1>3, <1>6, <2>1, EndIs
  <1> HIDE DEF st, t, s
  <1>8. EndAt(text, st) = A[i] + 1
    BY <1>5, <1>7 DEF EndAt
  <1>9. Named(text, st) = Append(s, NameNode(t))
    <2>1. (A[i] + 1) - 1 = A[i]
      BY <1>3
    <2>2. SubSeq(text, A[i], A[i]) = <<NameToken(t)>>
      <3>1. A[i] \in 1 .. Len(text)
        BY <1>3, <1>4
      <3> DEFINE u == SubSeq(text, A[i], A[i])
                 v == <<NameToken(t)>>
      <3>2. u \in Seq(Token) /\ Len(u) = 1 /\ u[1] = text[A[i]]
        <4>1. text \in Seq(Token)
          BY <1>3
        <4> QED BY <3>1, <4>1, OneOf
      <3>3. v \in Seq(Token) /\ Len(v) = 1 /\ v[1] = NameToken(t)
        <4> DEFINE w == NameToken(t)
        <4>1. w \in Token
          BY <1>2, TokensOf
        <4> HIDE DEF w
        <4> QED BY <4>1, TokenSeqs DEF w
      <3> HIDE DEF u, v
      <3>4. u = v
        BY <1>4, <3>2, <3>3
      <3> QED BY <3>4 DEF u, v
    <2>3. NameOf(<<NameToken(t)>>) = t
      BY <1>2, NameOfOne
    <2>4. Named(text, st) = Append(st.tag, NameNode(NameOf(SubSeq(text, st.at, EndAt(text, st) - 1))))
      BY DEF Named
    <2> QED BY <1>5, <1>8, <2>1, <2>2, <2>3, <2>4
  <1>10. Append(s, tag[i]) = SubSeq(tag, 1, i)
    BY <1>0, <1>1, FrontIs DEF s
  <1> QED BY <1>2, <1>3, <1>4, <1>5, <1>8, <1>9, <1>10 DEF st, Found
LEMMA NextPiece ==
    ASSUME NEW text, NEW tag \in Tag, NEW A, TextOf(text, tag, A), NEW i \in 1 .. Len(tag), i < Len(tag)
    PROVE  /\ i + 1 \in 1 .. Len(tag) /\ A[i] \in Nat /\ A[i + 1] \in Nat /\ A[i + 1] <= Len(text)
           /\ Prints(text, tag, i + 1, A[i], A[i + 1])
  <1> DEFINE n == Len(tag)
  <1>1. n \in Nat
    BY TagIs
  <1> HIDE DEF n
  <1>2. i + 1 \in 1 .. n /\ (i + 1) - 1 = i
    BY <1>1 DEF n
  <1>3. \A j \in 1 .. n : /\ A[j - 1] \in Nat /\ A[j] \in Nat /\ A[j] <= Len(text)
                          /\ Prints(text, tag, j, A[j - 1], A[j])
    BY DEF TextOf, n
  <1>4. /\ A[(i + 1) - 1] \in Nat /\ A[i + 1] \in Nat /\ A[i + 1] <= Len(text)
        /\ Prints(text, tag, i + 1, A[(i + 1) - 1], A[i + 1])
    BY <1>2, <1>3
  <1> QED BY <1>2, <1>4 DEF n

\* The last name of a tag ends the text.
LEMMA LastName ==
    ASSUME NEW text, NEW tag \in Tag, NEW A, TextOf(text, tag, A),
           NEW i \in 1 .. Len(tag), tag[i].type = "te_name", i = Len(tag)
    PROVE  ParseName(text, AtName(tag, A, i)) = Done(tag)
  <1> DEFINE st == AtName(tag, A, i)
  <1>1. text \in Seq(Token) /\ A[i] \in Nat /\ A[i] = Len(text)
    BY DEF TextOf
  <1>2. Stop(text, A[i] + 1)
    BY <1>1 DEF Stop
  <1>3. /\ st.at = A[i] /\ EndAt(text, st) = A[i] + 1 /\ st.at # 0 /\ EndAt(text, st) # st.at
        /\ Named(text, st) = SubSeq(tag, 1, i)
    <2>1. /\ AtName(tag, A, i).at = A[i] /\ A[i] \in Nat /\ A[i] >= 1
          /\ EndAt(text, AtName(tag, A, i)) = A[i] + 1
          /\ Named(text, AtName(tag, A, i)) = SubSeq(tag, 1, i)
      <3>1. IsName(text, tag, A, i)
        BY <1>2 DEF IsName
      <3> QED BY <3>1, NameFound DEF Found
    <2> HIDE DEF st
    <2>2. A[i] # 0 /\ A[i] + 1 # A[i]
      BY <2>1
    <2> QED BY <2>1, <2>2 DEF st
  <1>4. SubSeq(tag, 1, i) = tag
    <2>1. tag \in Seq(Part)
      BY TagIs
    <2> QED BY <2>1, FrontIs
  <1> HIDE DEF st
  <1>5. EndAt(text, st) > Len(text)
    BY <1>1, <1>3
  <1>6. ParseName(text, st) = [at |-> 0, tag |-> Named(text, st)]
    BY <1>3, <1>5, Rounds
  <1> QED BY <1>3, <1>4, <1>6 DEF st, Done

\* A dot behind a name leads to the next one.
TwoNames(text, tag, A, i) ==
    /\ tag \in Tag /\ TextOf(text, tag, A) /\ i \in 1 .. Len(tag) /\ i < Len(tag)
    /\ tag[i].type = "te_name" /\ tag[i + 1].type = "te_name"

LEMMA NameThenName ==
    ASSUME NEW text, NEW tag, NEW A, NEW i, TwoNames(text, tag, A, i)
    PROVE  /\ ParseName(text, AtName(tag, A, i)) = AtName(tag, A, i + 1)
           /\ i + 1 \in 1 .. Len(tag) /\ A[i] \in Nat /\ A[i + 1] = A[i] + 2
  <1> DEFINE st == AtName(tag, A, i)
             l == Len(text)
  <1>0. /\ tag \in Tag /\ TextOf(text, tag, A) /\ i \in 1 .. Len(tag) /\ i < Len(tag)
        /\ tag[i].type = "te_name" /\ tag[i + 1].type = "te_name"
    BY DEF TwoNames
  <1>1. /\ i + 1 \in 1 .. Len(tag) /\ A[i] \in Nat /\ A[i + 1] \in Nat /\ A[i + 1] <= l
        /\ Prints(text, tag, i + 1, A[i], A[i + 1])
    BY <1>0, NextPiece
  <1>2. A[i + 1] = A[i] + 2 /\ text[A[i] + 1] = Dot
    BY <1>0, <1>1 DEF Prints
  <1>3. Stop(text, A[i] + 1)
    BY <1>2 DEF Stop
  <1>4. /\ st.at = A[i] /\ EndAt(text, st) = A[i] + 1 /\ st.at # 0 /\ EndAt(text, st) # st.at
        /\ Named(text, st) = SubSeq(tag, 1, i)
    <2>1. /\ AtName(tag, A, i).at = A[i] /\ A[i] \in Nat /\ A[i] >= 1
          /\ EndAt(text, AtName(tag, A, i)) = A[i] + 1
          /\ Named(text, AtName(tag, A, i)) = SubSeq(tag, 1, i)
      <3>1. IsName(text, tag, A, i)
        BY <1>0, <1>3 DEF IsName
      <3> QED BY <3>1, NameFound DEF Found
    <2> HIDE DEF st
    <2>2. A[i] # 0 /\ A[i] + 1 # A[i]
      BY <2>1
    <2> QED BY <2>1, <2>2 DEF st
  <1>5. AtName(tag, A, i + 1) = [at |-> A[i + 1], tag |-> SubSeq(tag, 1, i)]
    <2>1. (i + 1) - 1 = i
      BY <1>0
    <2> QED BY <2>1 DEF AtName
  <1>6. l \in Nat
    <2>1. text \in Seq(Token)
      BY <1>0 DEF TextOf
    <2> QED BY <2>1
  <1> HIDE DEF st
  <1>7. ~(EndAt(text, st) > l) /\ text[EndAt(text, st)] = Dot /\ EndAt(text, st) + 1 = A[i + 1]
    <2>1. ~(A[i] + 1 > l) /\ (A[i] + 1) + 1 = A[i] + 2
      <3> HIDE DEF l
      <3> QED BY <1>1, <1>2, <1>6
    <2> QED BY <1>2, <1>4, <2>1
  <1>8. ParseName(text, st) = [at |-> EndAt(text, st) + 1, tag |-> Named(text, st)]
    BY <1>4, <1>7, Rounds
  <1> QED BY <1>1, <1>2, <1>4, <1>5, <1>7, <1>8 DEF st

LEMMA AfterElement ==
    ASSUME NEW a \in Nat, NEW b \in Nat, NEW l \in Nat, b <= l, b = a + 3
    PROVE  a + 2 \in Nat /\ (a + 2) + 1 = b /\ (a + 1) + 1 = a + 2
           /\ ~(a + 1 > l) /\ (a + 2) + 1 = a + 3 /\ a + 2 <= l
  OBVIOUS

\* A bracket behind a name holds its element, and what is left is behind it
\* or behind the dot that follows.
LEMMA NameThenElement ==
    ASSUME NEW text, NEW tag \in Tag, NEW A, TextOf(text, tag, A),
           NEW i \in 1 .. Len(tag), tag[i].type = "te_name", i < Len(tag),
           tag[i + 1].type = "te_element"
    PROVE  /\ ParseName(text, AtName(tag, A, i)) =
                [at |-> IF A[i + 1] + 1 <= Len(text) /\ text[A[i + 1] + 1] = Dot
                        THEN A[i + 1] + 2 ELSE A[i + 1] + 1,
                 tag |-> SubSeq(tag, 1, i + 1)]
           /\ i + 1 \in 1 .. Len(tag) /\ A[i] \in Nat /\ A[i + 1] = A[i] + 3
  <1> DEFINE st == AtName(tag, A, i)
             l == Len(text)
             e == tag[i + 1].element
  <1>1. /\ i + 1 \in 1 .. Len(tag) /\ A[i] \in Nat /\ A[i + 1] \in Nat /\ A[i + 1] <= l
        /\ Prints(text, tag, i + 1, A[i], A[i + 1])
    BY NextPiece
  <1>2. /\ A[i + 1] = A[i] + 3 /\ text[A[i] + 1] = Open
        /\ text[A[i] + 2] = NumberToken(e) /\ text[A[i] + 3] = Close
    BY <1>1 DEF Prints
  <1>3. Stop(text, A[i] + 1)
    BY <1>2 DEF Stop
  <1>4. /\ st.at = A[i] /\ EndAt(text, st) = A[i] + 1 /\ st.at # 0 /\ EndAt(text, st) # st.at
        /\ Named(text, st) = SubSeq(tag, 1, i)
    <2>1. /\ AtName(tag, A, i).at = A[i] /\ A[i] \in Nat /\ A[i] >= 1
          /\ EndAt(text, AtName(tag, A, i)) = A[i] + 1
          /\ Named(text, AtName(tag, A, i)) = SubSeq(tag, 1, i)
      <3>1. IsName(text, tag, A, i)
        BY <1>3 DEF IsName
      <3> QED BY <3>1, NameFound DEF Found
    <2> HIDE DEF st
    <2>2. A[i] # 0 /\ A[i] + 1 # A[i]
      BY <2>1
    <2> QED BY <2>1, <2>2 DEF st
  <1>5. text \in Seq(Token) /\ l \in Nat
    <2>1. text \in Seq(Token)
      BY DEF TextOf
    <2> QED BY <2>1
  <1>6. tag[i + 1] = ElementNode(e)
    <2>1. tag[i + 1] \in Part
      BY <1>1, TagIs
    <2> QED BY <2>1, PartKinds
  <1> HIDE DEF st, l, e
  <1>7. A[i] + 2 \in Nat /\ (A[i] + 2) + 1 = A[i + 1] /\ (A[i] + 1) + 1 = A[i] + 2
        /\ ~(A[i] + 1 > l) /\ (A[i] + 2) + 1 = A[i] + 3 /\ A[i] + 2 <= l
    <2>1. A[i] \in Nat /\ A[i + 1] \in Nat /\ A[i + 1] <= l /\ A[i + 1] = A[i] + 3
      BY <1>1, <1>2
    <2> QED BY <1>5, <2>1, AfterElement
  <1>8. Closing(text, A[i] + 2) = A[i + 1]
    <2> DEFINE at == A[i] + 2
    <2>1. at \in Nat /\ at + 1 <= Len(text)
      BY <1>1, <1>7 DEF l
    <2>2. text[at] # Close /\ text[at + 1] = Close
      <3>1. text[at] = NumberToken(e) /\ text[at + 1] = Close
        BY <1>2, <1>7
      <3> QED BY <3>1, TokensApart
    <2> HIDE DEF at
    <2>3. Closing(text, at) = at + 1
      BY <1>5, <2>1, <2>2, CloseIs
    <2> QED BY <1>7, <2>3 DEF at
  <1>9. Number(text, A[i] + 2) = e
    <2>1. text[A[i] + 2].token = "number" /\ text[A[i] + 2].number = e
      BY <1>2, TokensApart
    <2> QED BY <1>7, <2>1 DEF Number, l
  <1>10. EndAt(text, st) + 1 = A[i] + 2 /\ CloseAt(text, st) = A[i + 1]
    BY <1>4, <1>7, <1>8 DEF CloseAt
  <1>11. /\ ~(EndAt(text, st) > Len(text)) /\ text[EndAt(text, st)] # Dot
         /\ CloseAt(text, st) # 0
    <2>1. Open # Dot
      BY TokensApart
    <2>2. A[i + 1] # 0
      BY <1>1, <1>2
    <2> QED BY <1>2, <1>4, <1>7, <1>10, <2>1, <2>2 DEF l
  <1>12. ParseName(text, st) =
            [at |-> IF CloseAt(text, st) + 1 <= Len(text) /\ text[CloseAt(text, st) + 1] = Dot
                    THEN CloseAt(text, st) + 2 ELSE CloseAt(text, st) + 1,
             tag |-> Append(Named(text, st), ElementNode(Number(text, EndAt(text, st) + 1)))]
    BY <1>4, <1>11, Rounds
  <1>13. Append(SubSeq(tag, 1, i), tag[i + 1]) = SubSeq(tag, 1, i + 1)
    <2>1. tag \in Seq(Part) /\ (i + 1) - 1 = i
      BY TagIs
    <2>2. Append(SubSeq(tag, 1, (i + 1) - 1), tag[i + 1]) = SubSeq(tag, 1, i + 1)
      BY <1>1, <2>1, FrontIs
    <2> QED BY <2>1, <2>2
  <1>14. Append(Named(text, st), ElementNode(Number(text, EndAt(text, st) + 1))) =
         SubSeq(tag, 1, i + 1)
    BY <1>4, <1>6, <1>9, <1>10, <1>13
  <1> QED BY <1>1, <1>2, <1>10, <1>12, <1>14 DEF st
\* What the rounds of parsing a printed tag find: a name that is behind what
\* they have taken, the end of the text, or the whole tag.
Reached(text, tag, A, k, st) ==
    \/ st = Done(tag)
    \/ st = AtEnd(text, tag)
    \/ \E i \in 1 .. Len(tag) : tag[i].type = "te_name" /\ A[i] >= k + 1 /\ st = AtName(tag, A, i)

LEMMA NothingLeft ==
    ASSUME NEW text, NEW tag \in Tag, text \in Seq(Token)
    PROVE  ParseName(text, Done(tag)) = Done(tag) /\ ParseName(text, AtEnd(text, tag)) = Done(tag)
  <1> DEFINE e == AtEnd(text, tag)
             d == Done(tag)
             l == Len(text)
  <1>1. d.at = 0 /\ d.tag = tag /\ e.at = l + 1 /\ e.tag = tag /\ l \in Nat
    BY DEF Done, AtEnd
  <1>2. NameEnd(text, l + 1) = l + 1
    <2>1. l + 1 \in 1 .. l + 1
      BY <1>1
    <2>2. NameEnd(text, l + 1) \in l + 1 .. l + 1
      BY <2>1, NameEnds
    <2> HIDE DEF l
    <2> QED BY <1>1, <2>2
  <1> HIDE DEF d, e, l
  <1>3. EndAt(text, e) = e.at
    BY <1>1, <1>2 DEF EndAt
  <1>4. ParseName(text, e) = [at |-> 0, tag |-> e.tag]
    BY <1>3, Rounds
  <1>5. ParseName(text, d) = [at |-> 0, tag |-> d.tag]
    BY <1>1, Rounds
  <1>6. ParseName(text, d) = [at |-> 0, tag |-> tag] /\ ParseName(text, e) = [at |-> 0, tag |-> tag]
    BY <1>1, <1>4, <1>5
  <1> QED BY <1>6 DEF d, e, Done

\* Behind an element there is the dot before a name, or nothing.
LEMMA ElementRound ==
    ASSUME NEW text, NEW tag \in Tag, NEW A, TextOf(text, tag, A), NEW k \in Nat,
           NEW i \in 1 .. Len(tag), tag[i].type = "te_name", i < Len(tag),
           tag[i + 1].type = "te_element", A[i] >= k + 1
    PROVE  Reached(text, tag, A, k + 1, ParseName(text, AtName(tag, A, i)))
  <1> DEFINE st == AtName(tag, A, i)
             l == Len(text)
             n == Len(tag)
  <1>1. /\ ParseName(text, st) =
                [at |-> IF A[i + 1] + 1 <= l /\ text[A[i + 1] + 1] = Dot
                        THEN A[i + 1] + 2 ELSE A[i + 1] + 1,
                 tag |-> SubSeq(tag, 1, i + 1)]
        /\ i + 1 \in 1 .. n /\ A[i] \in Nat /\ A[i + 1] = A[i] + 3
    BY NameThenElement
  <1>2. tag \in Seq(Part) /\ n \in Nat
    BY TagIs
  <1>3. l \in Nat /\ l = A[n]
    <2>1. text \in Seq(Token) /\ l = A[n]
      BY DEF TextOf
    <2> QED BY <2>1
  <1> HIDE DEF st, l, n
  <1>4. CASE i + 1 = n
    <2>1. ~(A[i + 1] + 1 <= l) /\ A[i + 1] = l
      BY <1>3, <1>4
    <2>2. SubSeq(tag, 1, i + 1) = tag
      <3>1. SubSeq(tag, 1, Len(tag)) = tag
        BY <1>2
      <3> QED BY <1>4, <3>1 DEF n
    <2>3. ParseName(text, st) = [at |-> l + 1, tag |-> tag]
      BY <1>1, <2>1, <2>2
    <2> QED BY <2>3 DEF Reached, AtEnd, st, l
  <1>5. CASE i + 1 < n
    <2> DEFINE j == i + 1
    <2>1. j \in 1 .. Len(tag) /\ j < Len(tag) /\ j + 1 = i + 2
      BY <1>1, <1>5 DEF n
    <2>2. /\ j + 1 \in 1 .. Len(tag) /\ A[j] \in Nat /\ A[j + 1] \in Nat /\ A[j + 1] <= Len(text)
          /\ Prints(text, tag, j + 1, A[j], A[j + 1])
      <3> HIDE DEF j
      <3> QED BY <2>1, NextPiece
    <2>3. tag[j + 1].type = "te_name"
      <3>1. tag[j + 1] \in Part
        BY <1>2, <2>2
      <3>2. (j + 1) - 1 = j /\ tag[j].type # "te_name"
        BY <1>1
      <3>3. tag[j + 1].type = "te_element" => tag[(j + 1) - 1].type = "te_name"
        <4> HIDE DEF j
        <4> QED BY <2>2, TagIs
      <3> HIDE DEF j
      <3> QED BY <3>1, <3>2, <3>3, PartKinds
    <2>4. A[j + 1] = A[j] + 2 /\ text[A[j] + 1] = Dot
      <3>1. j + 1 > 1 /\ tag[j + 1].type # "te_element"
        BY <1>1, <2>3
      <3> HIDE DEF j
      <3> QED BY <2>2, <3>1 DEF Prints
    <2>5. A[j] + 1 <= l /\ A[j + 1] >= (k + 1) + 1
      <3>1. A[j] = A[i] + 3
        BY <1>1
      <3>2. A[j] \in Nat /\ A[j + 1] <= l /\ A[j + 1] = A[j] + 2
        BY <2>2, <2>4 DEF l
      <3> DEFINE a == A[i]
                 b == A[j]
                 c == A[j + 1]
      <3>3. /\ a \in Nat /\ b \in Nat /\ c <= l /\ c = b + 2 /\ b = a + 3 /\ a >= k + 1
        BY <1>1, <3>1, <3>2
      <3> HIDE DEF a, b, c
      <3> QED BY <1>3, <3>3 DEF b, c
    <2>6. ParseName(text, st) = [at |-> A[j + 1], tag |-> SubSeq(tag, 1, j)]
      BY <1>1, <2>4, <2>5
    <2>7. (j + 1) - 1 = j
      BY <1>1
    <2> HIDE DEF j
    <2>8. ParseName(text, st) = AtName(tag, A, j + 1)
      BY <2>6, <2>7 DEF AtName
    <2> QED BY <2>2, <2>3, <2>5, <2>8 DEF Reached, st
  <1> QED BY <1>1, <1>2, <1>4, <1>5

LEMMA NextRound ==
    ASSUME NEW text, NEW tag \in Tag, NEW A, TextOf(text, tag, A), NEW k \in Nat, NEW st,
           Reached(text, tag, A, k, st)
    PROVE  Reached(text, tag, A, k + 1, ParseName(text, st))
  <1>1. text \in Seq(Token) /\ Len(tag) \in Nat
    BY TagIs DEF TextOf
  <1>2. CASE st = Done(tag) \/ st = AtEnd(text, tag)
    BY <1>1, <1>2, NothingLeft DEF Reached
  <1>3. ASSUME NEW i \in 1 .. Len(tag), tag[i].type = "te_name", A[i] >= k + 1,
               st = AtName(tag, A, i)
        PROVE  Reached(text, tag, A, k + 1, ParseName(text, st))
    <2>1. CASE i = Len(tag)
      <3>1. ParseName(text, st) = Done(tag)
        BY <1>3, <2>1, LastName
      <3> QED BY <3>1 DEF Reached
    <2>2. CASE i < Len(tag) /\ tag[i + 1].type = "te_name"
      <3>1. /\ ParseName(text, AtName(tag, A, i)) = AtName(tag, A, i + 1)
            /\ i + 1 \in 1 .. Len(tag) /\ A[i] \in Nat /\ A[i + 1] = A[i] + 2
        <4>1. TwoNames(text, tag, A, i)
          BY <1>3, <2>2 DEF TwoNames
        <4> QED BY <4>1, NameThenName
      <3>2. A[i + 1] >= (k + 1) + 1
        BY <1>3, <3>1
      <3> QED BY <1>3, <2>2, <3>1, <3>2 DEF Reached
    <2>3. CASE i < Len(tag) /\ tag[i + 1].type = "te_element"
      BY <1>3, <2>3, ElementRound
    <2>4. i < Len(tag) => tag[i + 1].type = "te_name" \/ tag[i + 1].type = "te_element"
      <3>1. ASSUME i < Len(tag)
            PROVE  tag[i + 1] \in Part
        <4>1. tag \in Seq(Part) /\ i + 1 \in 1 .. Len(tag)
          BY <1>1, <3>1, TagIs
        <4> QED BY <4>1
      <3> QED BY <3>1, PartKinds
    <2> QED BY <1>1, <2>1, <2>2, <2>3, <2>4
  <1> QED BY <1>2, <1>3 DEF Reached

LEMMA FirstRound ==
    ASSUME NEW text, NEW tag \in Tag, NEW A, TextOf(text, tag, A)
    PROVE  Reached(text, tag, A, 0, First)
  <1> DEFINE none == <<>>
             n == Len(tag)
  <1>1. tag \in Seq(Part) /\ n \in Nat
    BY TagIs
  <1>2. First = [at |-> 1, tag |-> none]
    BY DEF First
  <1>3. CASE n = 0
    <2>1. tag = none
      BY <1>1, <1>3
    <2>2. Len(text) = 0
      BY <1>3 DEF TextOf
    <2> HIDE DEF none, n
    <2> QED BY <1>2, <2>1, <2>2 DEF Reached, AtEnd
  <1>4. CASE n # 0
    <2>1. 1 \in 1 .. n /\ 1 - 1 = 0
      BY <1>1, <1>4
    <2>2. tag[1].type = "te_name"
      <3>1. tag[1] \in Part
        BY <1>1, <2>1
      <3>2. tag[1].type = "te_element" => 1 > 1
        BY <2>1, TagIs
      <3> QED BY <3>1, <3>2, PartKinds
    <2>3. A[0] = 0 /\ A[1] \in Nat /\ Prints(text, tag, 1, A[0], A[1])
      <3>1. A[0] = 0 /\ \A i \in 1 .. n : A[i] \in Nat /\ Prints(text, tag, i, A[i - 1], A[i])
        BY DEF TextOf
      <3>2. A[1] \in Nat /\ Prints(text, tag, 1, A[1 - 1], A[1])
        BY <2>1, <3>1
      <3> QED BY <2>1, <3>1, <3>2
    <2>4. A[1] = 1
      BY <2>2, <2>3 DEF Prints
    <2>5. SubSeq(tag, 1, 1 - 1) = none
      BY <1>1
    <2> HIDE DEF none
    <2>6. First = AtName(tag, A, 1)
      BY <1>2, <2>4, <2>5 DEF AtName
    <2>7. A[1] >= 0 + 1
      BY <2>4
    <2> QED BY <2>1, <2>2, <2>6, <2>7 DEF Reached
  <1> QED BY <1>3, <1>4

\* A list of names, each with one element at most, is read as it was printed
\* (EIP_copy_ParsedTag, EIP_parse_tag).
THEOREM EveryTagReadsBack ==
    ASSUME NEW tag \in Tag
    PROVE  ReadsBack(tag)
  <1> DEFINE text == EIP_copy_ParsedTag(tag)
             A == Begin(Pieces(tag))
             n == Len(text) + 1
  <1>1. TextOf(text, tag, A)
    BY CopyIsText
  <1> HIDE DEF A, text
  <1>2. text \in Seq(Token) /\ \A i \in 1 .. Len(tag) : A[i] \in Nat /\ A[i] <= Len(text)
    BY <1>1 DEF TextOf
  <1>3. PICK f \in [0 .. n -> States(text)] :
           Parses(f, text, n) /\ EIP_parse_tag(text) = f[n].tag
    BY <1>2, ParseRuns
  <1>4. f[0] = First /\ \A i \in 1 .. n : f[i] = ParseName(text, f[i - 1])
    BY <1>3 DEF Parses
  <1>5. n \in Nat /\ n = Len(text) + 1 /\ Len(text) \in Nat
    BY <1>2
  <1> HIDE DEF n
  <1> DEFINE P == {k \in Nat : k <= n => Reached(text, tag, A, k, f[k])}
  <1>6. 0 \in P
    <2>1. Reached(text, tag, A, 0, First)
      BY <1>1, FirstRound
    <2> QED BY <1>4, <2>1
  <1>7. ASSUME NEW k \in Nat, k \in P
        PROVE  k + 1 \in P
    <2>1. SUFFICES ASSUME k + 1 <= n PROVE Reached(text, tag, A, k + 1, f[k + 1])
      OBVIOUS
    <2>2. k <= n /\ k + 1 \in 1 .. n /\ (k + 1) - 1 = k
      BY <1>5, <2>1
    <2>3. Reached(text, tag, A, k, f[k])
      BY <1>7, <2>2
    <2>4. Reached(text, tag, A, k + 1, ParseName(text, f[k]))
      BY <1>1, <2>3, NextRound
    <2>5. f[k + 1] = ParseName(text, f[k])
      BY <1>4, <2>2
    <2> QED BY <2>4, <2>5
  <1> HIDE DEF P
  <1>8. Nat \subseteq P
    BY <1>6, <1>7, Induction
  <1>9. Reached(text, tag, A, n, f[n])
    BY <1>5, <1>8 DEF P
  <1>10. ~ \E i \in 1 .. Len(tag) : A[i] >= n + 1
    BY <1>2, <1>5
  <1>11. f[n] = Done(tag) \/ f[n] = AtEnd(text, tag)
    BY <1>9, <1>10 DEF Reached
  <1>12. f[n].tag = tag
    BY <1>11 DEF Done, AtEnd
  <1> QED BY <1>3, <1>12 DEF ReadsBack, text

\* Whatever text a tag was parsed from, printing and parsing it again gives
\* the same tag.
THEOREM EveryTextReadsBack ==
    ASSUME NEW text \in Seq(Token)
    PROVE  ReadsBack(EIP_parse_tag(text))
  BY ParsedIsTag, EveryTagReadsBack
=============================================================================
