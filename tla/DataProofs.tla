----------------------------- MODULE DataProofs -----------------------------
(***************************************************************************)
(* Proofs about TagData, for bytes of any number of bits, any tags, links, *)
(* numbers and texts.                                                      *)
(***************************************************************************)
EXTENDS DataChecks, SequenceFacts

-----------------------------------------------------------------------------
(* Division *)

Positive == Nat \ {0}

LEMMA Divide ==
    ASSUME NEW v \in Int, NEW d \in Positive
    PROVE  \E q \in Int, r \in 0 .. d - 1 : q = v \div d /\ r = v % d /\ v = d * q + r
  <1>1. d \in Nat /\ d > 0
    BY DEF Positive
  <1>2. PICK q \in Int : q = v \div d
    BY <1>1
  <1>3. PICK r \in 0 .. d - 1 : r = v % d
    BY <1>1
  <1>4. v = d * q + r
    BY <1>1, <1>2, <1>3
  <1> QED BY <1>2, <1>3, <1>4

LEMMA DivideTwice ==
    ASSUME NEW v \in Int, NEW d \in Positive, NEW e \in Positive
    PROVE  (v \div d) \div e = v \div (d * e)
  BY DEF Positive

LEMMA SplitRemainder ==
    ASSUME NEW v \in Int, NEW d \in Positive, NEW e \in Positive
    PROVE  v % (d * e) = (v % d) + d * ((v \div d) % e)
  BY DEF Positive

LEMMA Quotient ==
    ASSUME NEW d \in Positive, NEW q \in Int, NEW r \in 0 .. d - 1
    PROVE  (d * q + r) \div d = q /\ (d * q + r) % d = r
  <1>1. PICK v \in Int : v = d * q + r
    BY DEF Positive
  <1>2. v \div d = q /\ v % d = r
    BY <1>1 DEF Positive
  <1> QED BY <1>1, <1>2

-----------------------------------------------------------------------------
(* Powers of two *)

LEMMA BitsOfByte ==
    /\ ByteBits \in Nat /\ ByteBits >= 2
    /\ WordBits \in Nat /\ WordBits >= 8 /\ WordBits = 4 * ByteBits
    /\ MaxBits \in Nat /\ MaxBits >= 16 /\ MaxBits = 8 * ByteBits
  BY DataAssumption DEF WordBits, MaxBits

LEMMA TwoIs ==
    /\ \A n \in 0 .. MaxBits : Two[n] \in Positive
    /\ Two[0] = 1
    /\ \A n \in 1 .. MaxBits : Two[n] = 2 * Two[n - 1]
  <1> DEFINE N == MaxBits
             T == Positive
             base == 1
             step == [i \in 1 .. N |-> [x \in Positive |-> 2 * x]]
             Is(g) == g = [i \in 0 .. N |-> IF i = 0 THEN 1 ELSE 2 * g[i - 1]]
  <1>1. N \in Nat /\ base \in T /\ step \in [1 .. N -> [T -> T]]
    BY BitsOfByte DEF Positive
  <1>2. PICK f \in [0 .. N -> T] : f[0] = base /\ \A i \in 1 .. N : f[i] = step[i][f[i - 1]]
    <2> HIDE DEF N, T, base, step
    <2>1. Defined(T, N, base, step)
      BY <1>1, Recursion
    <2> QED BY <2>1 DEF Defined
  <1>3. ASSUME NEW i \in 0 .. N
        PROVE  f[i] = IF i = 0 THEN 1 ELSE 2 * f[i - 1]
    <2>1. CASE i = 0
      BY <1>2, <2>1
    <2>2. CASE i # 0
      <3>1. i \in 1 .. N /\ i - 1 \in 0 .. N
        BY <1>1, <2>2
      <3>2. f[i - 1] \in T
        BY <1>2, <3>1
      <3> QED BY <1>2, <2>2, <3>1, <3>2
    <2> QED BY <2>1, <2>2
  <1>4. Is(f)
    BY <1>2, <1>3
  <1>5. Two = CHOOSE g : Is(g)
    BY DEF Two
  <1> HIDE DEF N, T
  <1>6. Is(Two)
    BY <1>4, <1>5
  <1>7. \A i \in 0 .. N : Two[i] = IF i = 0 THEN 1 ELSE 2 * Two[i - 1]
    BY <1>6
  <1>8. SameStep(Two, f, N)
    <2>1. Two[0] = f[0]
      BY <1>1, <1>2, <1>7
    <2>2. ASSUME NEW i \in 1 .. N, Two[i - 1] = f[i - 1]
          PROVE  Two[i] = f[i]
      <3>1. i \in 0 .. N /\ i # 0
        BY <1>1
      <3> QED BY <1>3, <1>7, <2>2, <3>1
    <2> QED BY <2>1, <2>2 DEF SameStep
  <1>9. \A i \in 0 .. N : Two[i] = f[i]
    BY <1>1, <1>8, SameSteps
  <1>10. \A i \in 1 .. N : i \in 0 .. N /\ i # 0
    BY <1>1
  <1>11. 0 \in 0 .. N
    BY <1>1
  <1> QED BY <1>2, <1>7, <1>9, <1>10, <1>11 DEF N, T

\* Shifting by m and n bits is shifting by m + n.
LEMMA TwoSum ==
    ASSUME NEW m \in Nat, NEW n \in Nat, m + n <= MaxBits
    PROVE  Two[m + n] = Two[m] * Two[n]
  <1> DEFINE P == {i \in Nat : m + i <= MaxBits => Two[m + i] = Two[m] * Two[i]}
  <1>1. 0 \in P
    <2>1. m \in 0 .. MaxBits /\ m + 0 = m
      BY BitsOfByte
    <2>2. Two[m] \in Nat
      BY <2>1, TwoIs DEF Positive
    <2> QED BY <2>1, <2>2, TwoIs
  <1>2. ASSUME NEW i \in Nat, i \in P
        PROVE  i + 1 \in P
    <2>1. SUFFICES ASSUME m + (i + 1) <= MaxBits PROVE Two[m + (i + 1)] = Two[m] * Two[i + 1]
      OBVIOUS
    <2>2. /\ m + (i + 1) \in 1 .. MaxBits /\ i + 1 \in 1 .. MaxBits /\ m + i <= MaxBits
          /\ (m + (i + 1)) - 1 = m + i /\ (i + 1) - 1 = i /\ m \in 0 .. MaxBits /\ i \in 0 .. MaxBits
      BY <2>1, BitsOfByte
    <2>3. Two[m + (i + 1)] = 2 * Two[m + i] /\ Two[i + 1] = 2 * Two[i]
      BY <2>2, TwoIs
    <2>4. Two[m + i] = Two[m] * Two[i]
      BY <1>2, <2>2
    <2>5. Two[m] \in Nat /\ Two[i] \in Nat
      BY <2>2, TwoIs DEF Positive
    <2>6. \A a, b \in Nat : 2 * (a * b) = a * (2 * b)
      OBVIOUS
    <2> QED BY <2>3, <2>4, <2>5, <2>6
  <1> HIDE DEF P
  <1>3. n \in P
    BY <1>1, <1>2, Induction
  <1> QED BY <1>3 DEF P

-----------------------------------------------------------------------------
(* Recursion from the last place to the first *)

DefinedDown(T, m, n, base, step) ==
    \E f \in [m .. n -> T] : f[n] = base /\ \A i \in m .. n - 1 : f[i] = step[i][f[i + 1]]

LEMMA RecursionDown ==
    ASSUME NEW T, NEW m \in Nat, NEW n \in Nat, m <= n, NEW base \in T,
           NEW step \in [m .. n - 1 -> [T -> T]]
    PROVE  DefinedDown(T, m, n, base, step)
  <1> DEFINE k == n - m
             up == [i \in 1 .. k |-> step[n - i]]
  <1>1. k \in Nat /\ up \in [1 .. k -> [T -> T]]
    <2>1. \A i \in 1 .. k : n - i \in m .. n - 1
      OBVIOUS
    <2> QED BY <2>1
  <1> HIDE DEF up
  <1>2. PICK h \in [0 .. k -> T] : h[0] = base /\ \A i \in 1 .. k : h[i] = up[i][h[i - 1]]
    <2> HIDE DEF k
    <2>1. Defined(T, k, base, up)
      BY <1>1, Recursion
    <2> QED BY <2>1 DEF Defined
  <1> DEFINE f == [i \in m .. n |-> h[n - i]]
  <1>3. f \in [m .. n -> T] /\ f[n] = base
    <2>1. \A i \in m .. n : n - i \in 0 .. k
      OBVIOUS
    <2>2. n \in m .. n /\ n - n = 0
      OBVIOUS
    <2> QED BY <1>2, <2>1, <2>2
  <1>4. ASSUME NEW i \in m .. n - 1
        PROVE  f[i] = step[i][f[i + 1]]
    <2>1. /\ n - i \in 1 .. k /\ n - (n - i) = i /\ (n - i) - 1 = n - (i + 1)
          /\ i \in m .. n /\ i + 1 \in m .. n
      OBVIOUS
    <2>2. h[n - i] = up[n - i][h[(n - i) - 1]]
      BY <1>2, <2>1
    <2>3. up[n - i] = step[i]
      BY <2>1 DEF up
    <2>4. f[i] = h[n - i] /\ f[i + 1] = h[n - (i + 1)]
      BY <2>1
    <2> QED BY <2>1, <2>2, <2>3, <2>4
  <1> QED BY <1>3, <1>4 DEF DefinedDown

\* Two functions whose steps agree from the last place on.
SameDown(f, g, m, n) == f[n] = g[n] /\ \A i \in m .. n - 1 : f[i + 1] = g[i + 1] => f[i] = g[i]

LEMMA SameStepsDown ==
    ASSUME NEW m \in Nat, NEW n \in Nat, m <= n, NEW f, NEW g, SameDown(f, g, m, n)
    PROVE  \A i \in m .. n : f[i] = g[i]
  <1> DEFINE P == {i \in Nat : i <= n - m => f[n - i] = g[n - i]}
  <1>0. f[n] = g[n] /\ \A i \in m .. n - 1 : f[i + 1] = g[i + 1] => f[i] = g[i]
    BY DEF SameDown
  <1>1. 0 \in P
    BY <1>0
  <1>2. ASSUME NEW i \in Nat, i \in P
        PROVE  i + 1 \in P
    <2>1. CASE i + 1 <= n - m
      <3>1. n - (i + 1) \in m .. n - 1 /\ (n - (i + 1)) + 1 = n - i /\ i <= n - m
        BY <2>1
      <3>2. f[n - i] = g[n - i]
        BY <1>2, <3>1
      <3> QED BY <1>0, <3>1, <3>2
    <2>2. CASE ~(i + 1 <= n - m)
      BY <2>2
    <2> QED BY <2>1, <2>2
  <1> HIDE DEF P
  <1>3. Nat \subseteq P
    BY <1>1, <1>2, Induction
  <1>4. ASSUME NEW i \in m .. n
        PROVE  f[i] = g[i]
    <2>1. n - i \in Nat /\ n - i <= n - m /\ n - (n - i) = i
      OBVIOUS
    <2>2. n - i \in P
      BY <1>3, <2>1
    <2>3. n - i <= n - m => f[n - (n - i)] = g[n - (n - i)]
      BY <2>2 DEF P
    <2> QED BY <2>1, <2>3
  <1> QED BY <1>4

-----------------------------------------------------------------------------
(* Numbers and their bits *)

One(b, word) == IF b \in word THEN 1 ELSE 0

\* What is left of the number from bit b on.
Rest(word, f) ==
    /\ f \in [0 .. MaxBits -> Nat] /\ f[MaxBits] = 0
    /\ \A b \in 0 .. MaxBits - 1 : f[b] = One(b, word) + 2 * f[b + 1]

LEMMA RestExists ==
    ASSUME NEW word
    PROVE  \E f : Rest(word, f)
  <1> DEFINE T == Nat
             m == 0
             n == MaxBits
             base == 0
             step == [b \in 0 .. n - 1 |-> [x \in Nat |-> One(b, word) + 2 * x]]
  <1>1. /\ m \in Nat /\ n \in Nat /\ m <= n /\ base \in T
        /\ step \in [m .. n - 1 -> [T -> T]]
    BY BitsOfByte DEF One
  <1>2. PICK f \in [m .. n -> T] :
            f[n] = base /\ \A i \in m .. n - 1 : f[i] = step[i][f[i + 1]]
    <2> HIDE DEF T, m, n, base, step
    <2>1. DefinedDown(T, m, n, base, step)
      BY <1>1, RecursionDown
    <2> QED BY <2>1 DEF DefinedDown
  <1>3. ASSUME NEW b \in 0 .. n - 1
        PROVE  f[b] = One(b, word) + 2 * f[b + 1]
    <2>1. b + 1 \in 0 .. n
      BY <1>1
    <2>2. f[b + 1] \in Nat
      BY <1>2, <2>1
    <2> QED BY <1>2, <2>2
  <1> QED BY <1>2, <1>3 DEF Rest

LEMMA NumberIs ==
    ASSUME NEW word, NEW f, Rest(word, f)
    PROVE  Number(word) = f[0]
  <1> DEFINE n == MaxBits
             Is(g) == g = [b \in 0 .. n |-> IF b = n THEN 0
                                            ELSE (IF b \in word THEN 1 ELSE 0) + 2 * g[b + 1]]
             h == CHOOSE g : Is(g)
  <1>1. n \in Nat /\ 0 \in 0 .. n /\ n \in 0 .. n
    BY BitsOfByte
  <1>2. Is(f)
    <2>1. ASSUME NEW b \in 0 .. n
          PROVE  f[b] = IF b = n THEN 0 ELSE (IF b \in word THEN 1 ELSE 0) + 2 * f[b + 1]
      <3>1. CASE b = n
        BY <3>1 DEF Rest
      <3>2. CASE b # n
        <4>1. b \in 0 .. n - 1
          BY <1>1, <3>2
        <4> QED BY <3>2, <4>1 DEF Rest, One
      <3> QED BY <3>1, <3>2
    <2>2. f \in [0 .. n -> Nat]
      BY DEF Rest
    <2> QED BY <2>1, <2>2
  <1>3. Number(word) = h[0]
    BY DEF Number
  <1>4. Is(h)
    BY <1>2
  <1> HIDE DEF h
  <1>5. \A b \in 0 .. n : h[b] = IF b = n THEN 0
                                 ELSE (IF b \in word THEN 1 ELSE 0) + 2 * h[b + 1]
    BY <1>4
  <1>6. SameDown(h, f, 0, n)
    <2>1. h[n] = f[n]
      BY <1>1, <1>5 DEF Rest
    <2>2. ASSUME NEW b \in 0 .. n - 1, h[b + 1] = f[b + 1]
          PROVE  h[b] = f[b]
      <3>1. b \in 0 .. n /\ b # n
        BY <1>1
      <3>2. f[b] = (IF b \in word THEN 1 ELSE 0) + 2 * f[b + 1]
        BY DEF Rest, One
      <3> QED BY <1>5, <2>2, <3>1, <3>2
    <2> QED BY <2>1, <2>2 DEF SameDown
  <1>7. 0 \in Nat /\ 0 <= n
    BY <1>1
  <1>8. h[0] = f[0]
    <2> HIDE DEF n
    <2> QED BY <1>1, <1>6, <1>7, SameStepsDown
  <1> QED BY <1>3, <1>8

\* Shifting a number once more.
LEMMA ShiftOnce ==
    ASSUME NEW v \in Int, NEW b \in 0 .. MaxBits - 1
    PROVE  /\ v \div Two[b] \in Int
           /\ v \div Two[b + 1] = (v \div Two[b]) \div 2
           /\ v \div Two[b] = ((v \div Two[b]) % 2) + 2 * (v \div Two[b + 1])
  <1>1. Two[b] \in Positive /\ Two[b + 1] = 2 * Two[b] /\ 2 \in Positive
    <2>1. b \in 0 .. MaxBits /\ b + 1 \in 1 .. MaxBits /\ (b + 1) - 1 = b
      BY BitsOfByte
    <2> QED BY <2>1, TwoIs DEF Positive
  <1> DEFINE d == Two[b]
             q == v \div d
  <1>2. 2 * d = d * 2
    BY <1>1 DEF Positive
  <1>3. v \div Two[b + 1] = q \div 2
    <2> HIDE DEF d
    <2>1. q \div 2 = v \div (d * 2)
      BY <1>1, DivideTwice DEF d
    <2> QED BY <1>1, <1>2, <2>1 DEF d
  <1>4. q \in Int
    BY <1>1, Divide
  <1> HIDE DEF q
  <1>5. q = (q % 2) + 2 * (q \div 2)
    BY <1>4
  <1> QED BY <1>3, <1>4, <1>5 DEF q

\* The bits of the number that a word stands for are the word.
LEMMA NumberBits ==
    ASSUME NEW word
    PROVE  /\ Number(word) \in Nat
           /\ \A b \in 0 .. MaxBits - 1 : (Number(word) \div Two[b]) % 2 = 1 <=> b \in word
           /\ \A f : Rest(word, f) => \A b \in 0 .. MaxBits : Number(word) \div Two[b] = f[b]
  <1>1. ASSUME NEW f, Rest(word, f)
        PROVE  /\ Number(word) \in Nat
               /\ \A b \in 0 .. MaxBits : Number(word) \div Two[b] = f[b]
               /\ \A b \in 0 .. MaxBits - 1 : (Number(word) \div Two[b]) % 2 = 1 <=> b \in word
    <2> DEFINE v == Number(word)
    <2>1. v = f[0] /\ v \in Nat
      <3>1. 0 \in 0 .. MaxBits
        BY BitsOfByte
      <3>2. v = f[0]
        BY <1>1, NumberIs
      <3>3. f[0] \in Nat
        BY <1>1, <3>1 DEF Rest
      <3> QED BY <3>2, <3>3
    <2> HIDE DEF v
    <2> DEFINE P == {b \in Nat : b <= MaxBits => v \div Two[b] = f[b]}
    <2>2. 0 \in P
      BY <2>1, TwoIs
    <2>3. ASSUME NEW b \in Nat, b \in P
          PROVE  b + 1 \in P
      <3>1. SUFFICES ASSUME b + 1 <= MaxBits PROVE v \div Two[b + 1] = f[b + 1]
        OBVIOUS
      <3>2. b \in 0 .. MaxBits - 1 /\ b + 1 \in 0 .. MaxBits /\ b <= MaxBits
        BY <3>1, BitsOfByte
      <3>3. v \div Two[b] = f[b]
        BY <2>3, <3>2
      <3>4. v \div Two[b + 1] = f[b] \div 2
        <4>1. v \in Int
          BY <2>1
        <4>2. v \div Two[b + 1] = (v \div Two[b]) \div 2
          BY <3>2, <4>1, ShiftOnce
        <4> QED BY <3>3, <4>2
      <3>5. f[b] = One(b, word) + 2 * f[b + 1] /\ f[b + 1] \in Nat
        BY <1>1, <3>2 DEF Rest
      <3>6. One(b, word) \in 0 .. 1
        BY DEF One
      <3>7. f[b] \div 2 = f[b + 1]
        BY <3>5, <3>6
      <3> QED BY <3>4, <3>7
    <2> HIDE DEF P
    <2>4. Nat \subseteq P
      BY <2>2, <2>3, Induction
    <2>5. \A b \in 0 .. MaxBits : b \in Nat /\ b <= MaxBits
      BY BitsOfByte
    <2>6. \A b \in 0 .. MaxBits : v \div Two[b] = f[b]
      BY <2>4, <2>5 DEF P
    <2>7. ASSUME NEW b \in 0 .. MaxBits - 1
          PROVE  (v \div Two[b]) % 2 = 1 <=> b \in word
      <3>1. b \in 0 .. MaxBits /\ b + 1 \in 0 .. MaxBits
        BY BitsOfByte
      <3>2. f[b] = One(b, word) + 2 * f[b + 1] /\ f[b + 1] \in Nat /\ v \div Two[b] = f[b]
        BY <1>1, <2>6, <3>1 DEF Rest
      <3>3. One(b, word) \in 0 .. 1 /\ (One(b, word) = 1 <=> b \in word)
        BY DEF One
      <3>4. f[b] % 2 = One(b, word)
        BY <3>2, <3>3
      <3> QED BY <3>2, <3>3, <3>4
    <2> QED BY <2>1, <2>6, <2>7 DEF v
  <1>2. PICK f : Rest(word, f)
    BY RestExists
  <1> QED BY <1>1, <1>2

LEMMA BitsOfNumber ==
    ASSUME NEW word, NEW bits \in 0 .. MaxBits, word \subseteq 0 .. bits - 1
    PROVE  BitsOf(Number(word), bits) = word
  <1>1. \A b \in 0 .. bits - 1 : b \in 0 .. MaxBits - 1
    BY BitsOfByte
  <1> QED BY <1>1, NumberBits DEF BitsOf

\* A word with the lowest bits only is a small number.
LEMMA NumberSmall ==
    ASSUME NEW word, NEW bits \in 0 .. MaxBits, word \subseteq 0 .. bits - 1
    PROVE  Number(word) \in 0 .. Two[bits] - 1
  <1> DEFINE n == MaxBits
             v == Number(word)
             g == [b \in bits .. n |-> 0]
  <1>1. n \in Nat /\ bits \in Nat /\ bits <= n
    BY BitsOfByte
  <1>2. PICK f : Rest(word, f)
    BY RestExists
  <1>3. SameDown(f, g, bits, n)
    <2>1. f[n] = 0 /\ n \in bits .. n
      BY <1>1, <1>2 DEF Rest
    <2>2. ASSUME NEW b \in bits .. n - 1, f[b + 1] = g[b + 1]
          PROVE  f[b] = g[b]
      <3>1. b \in 0 .. n - 1 /\ b + 1 \in bits .. n /\ b \in bits .. n /\ b \notin 0 .. bits - 1
        BY <1>1
      <3>2. f[b] = One(b, word) + 2 * f[b + 1] /\ f[b + 1] = 0
        BY <1>2, <2>2, <3>1 DEF Rest
      <3>3. One(b, word) = 0
        BY <3>1 DEF One
      <3> QED BY <3>1, <3>2, <3>3
    <2> QED BY <2>1, <2>2 DEF SameDown
  <1>4. f[bits] = 0
    <2>1. \A b \in bits .. n : f[b] = g[b]
      <3> HIDE DEF n, g
      <3> QED BY <1>1, <1>3, SameStepsDown
    <2> QED BY <1>1, <2>1
  <1>5. v \in Nat /\ v \div Two[bits] = 0
    BY <1>2, <1>4, NumberBits
  <1>6. Two[bits] \in Positive
    BY TwoIs
  <1> HIDE DEF v
  <1>7. PICK q \in Int, r \in 0 .. Two[bits] - 1 : q = v \div Two[bits] /\ v = Two[bits] * q + r
    BY <1>5, <1>6, Divide
  <1>8. v = r
    BY <1>5, <1>6, <1>7 DEF Positive
  <1> QED BY <1>8 DEF v

LEMMA HighBits ==
    ASSUME NEW bits \in 0 .. MaxBits, NEW v \in 0 .. Two[bits] - 1, NEW b \in bits .. MaxBits
    PROVE  v \div Two[b] = 0
  <1>1. bits \in Nat /\ b - bits \in Nat /\ bits + (b - bits) = b /\ b <= MaxBits
        /\ b \in 0 .. MaxBits /\ b - bits \in 0 .. MaxBits
    BY BitsOfByte
  <1>2. Two[b] = Two[bits] * Two[b - bits]
    BY <1>1, TwoSum
  <1>3. Two[b] \in Positive /\ Two[bits] \in Positive /\ Two[b - bits] \in Positive
    BY <1>1, TwoIs
  <1>4. Two[b] >= Two[bits]
    BY <1>2, <1>3 DEF Positive
  <1>5. v \in 0 .. Two[b] - 1 /\ v = Two[b] * 0 + v
    BY <1>3, <1>4 DEF Positive
  <1> QED BY <1>3, <1>5, Quotient

\* The number of the bits of a number is the number.
LEMMA NumberOfBits ==
    ASSUME NEW bits \in 0 .. MaxBits, NEW v \in 0 .. Two[bits] - 1
    PROVE  Number(BitsOf(v, bits)) = v
  <1> DEFINE f == [b \in 0 .. MaxBits |-> v \div Two[b]]
             word == BitsOf(v, bits)
  <1>1. v \in Nat
    <2>1. Two[bits] \in Positive
      BY TwoIs
    <2> QED BY <2>1 DEF Positive
  <1>2. f \in [0 .. MaxBits -> Nat]
    <2>1. ASSUME NEW b \in 0 .. MaxBits
          PROVE  v \div Two[b] \in Nat
      <3>1. Two[b] \in Positive
        BY TwoIs
      <3> QED BY <1>1, <3>1 DEF Positive
    <2> QED BY <2>1
  <1>3. f[MaxBits] = 0
    <2>1. MaxBits \in bits .. MaxBits /\ MaxBits \in 0 .. MaxBits
      BY BitsOfByte
    <2> QED BY <2>1, HighBits
  <1>4. ASSUME NEW b \in 0 .. MaxBits - 1
        PROVE  f[b] = One(b, word) + 2 * f[b + 1]
    <2>1. b \in 0 .. MaxBits /\ b + 1 \in 0 .. MaxBits
      BY BitsOfByte
    <2>2. f[b] = ((v \div Two[b]) % 2) + 2 * f[b + 1] /\ v \div Two[b] \in Int
      <3>1. v \in Int
        BY <1>1
      <3>2. /\ v \div Two[b] \in Int
            /\ v \div Two[b] = ((v \div Two[b]) % 2) + 2 * (v \div Two[b + 1])
        BY <3>1, ShiftOnce
      <3>3. f[b] = v \div Two[b] /\ f[b + 1] = v \div Two[b + 1]
        BY <2>1
      <3> HIDE DEF f
      <3> QED BY <3>2, <3>3
    <2>3. One(b, word) = (v \div Two[b]) % 2
      <3>1. CASE b < bits
        <4>1. b \in 0 .. bits - 1
          BY <3>1, BitsOfByte
        <4>2. b \in word <=> (v \div Two[b]) % 2 = 1
          BY <4>1 DEF BitsOf
        <4>3. (v \div Two[b]) % 2 \in 0 .. 1
          BY <2>2
        <4> QED BY <4>2, <4>3 DEF One
      <3>2. CASE ~(b < bits)
        <4>1. b \in bits .. MaxBits /\ b \notin 0 .. bits - 1
          BY <3>2, BitsOfByte
        <4>2. v \div Two[b] = 0
          BY <4>1, HighBits
        <4> QED BY <4>1, <4>2 DEF One, BitsOf
      <3> QED BY <3>1, <3>2
    <2> QED BY <2>2, <2>3
  <1>5. Rest(word, f)
    BY <1>2, <1>3, <1>4 DEF Rest
  <1>6. Number(word) = f[0]
    BY <1>5, NumberIs
  <1>7. f[0] = v
    BY <1>1, TwoIs, BitsOfByte
  <1> QED BY <1>6, <1>7

-----------------------------------------------------------------------------
(* Elements and their bytes *)

ByteValue == 0 .. ByteValues - 1

(* The tags of a type, with any number of elements and any data. *)
ArraysOf(type) ==
    {tag \in [type : {type}, valid : {TRUE}, elements : Nat, bytes : Seq(ByteValue)] :
        Len(tag.bytes) = tag.elements * CIP_Type_size(type)}

LEMMA ArrayIs ==
    ASSUME NEW type, NEW tag \in ArraysOf(type)
    PROVE  /\ tag.type = type /\ tag.valid = TRUE /\ tag.elements \in Nat
           /\ tag.bytes \in Seq(ByteValue) /\ Len(tag.bytes) = tag.elements * CIP_Type_size(type)
           /\ DOMAIN tag.bytes = 1 .. Len(tag.bytes) /\ Len(tag.bytes) \in Nat
           /\ tag \in [type : {type}, valid : {TRUE}, elements : Nat, bytes : Seq(ByteValue)]
  <1>1. tag \in [type : {type}, valid : {TRUE}, elements : Nat, bytes : Seq(ByteValue)]
    BY DEF ArraysOf
  <1>2. Len(tag.bytes) = tag.elements * CIP_Type_size(type)
    BY DEF ArraysOf
  <1>3. tag.valid = TRUE
    BY <1>1, Zenon
  <1>4. /\ tag.type = type /\ tag.elements \in Nat /\ tag.bytes \in Seq(ByteValue)
        /\ DOMAIN tag.bytes = 1 .. Len(tag.bytes) /\ Len(tag.bytes) \in Nat
    BY <1>1
  <1> QED BY <1>1, <1>2, <1>3, <1>4

Sized == {"BOOL", "SINT", "INT", "DINT", "BITS", "LINT", "ULINT"}

LEMMA Sizes ==
    /\ CIP_Type_size("BOOL") = 1 /\ CIP_Type_size("SINT") = 1 /\ CIP_Type_size("INT") = 2
    /\ CIP_Type_size("DINT") = 4 /\ CIP_Type_size("BITS") = 4
    /\ CIP_Type_size("LINT") = 8 /\ CIP_Type_size("ULINT") = 8
    /\ \A type \in Sized : CIP_Type_size(type) \in 1 .. 8
  <1>1. /\ CIP_Type_size("BOOL") = 1 /\ CIP_Type_size("SINT") = 1 /\ CIP_Type_size("INT") = 2
        /\ CIP_Type_size("DINT") = 4 /\ CIP_Type_size("BITS") = 4
        /\ CIP_Type_size("LINT") = 8 /\ CIP_Type_size("ULINT") = 8
    BY DEF CIP_Type_size
  <1> QED BY <1>1 DEF Sized

LEMMA Multiples ==
    ASSUME NEW n \in 1 .. 8, NEW i \in 0 .. n
    PROVE  /\ i * ByteBits \in 0 .. MaxBits
           /\ (n - i) * ByteBits \in 0 .. MaxBits
           /\ i \in 1 .. n => (i - 1) * ByteBits + ByteBits = i * ByteBits
           /\ i \in 1 .. n => ByteBits + (n - i) * ByteBits = (n - i + 1) * ByteBits
  <1>1. \A a \in 0 .. 8, b \in Nat : a * b \in Nat /\ a * b <= 8 * b
    OBVIOUS
  <1>2. i \in 0 .. 8 /\ n - i \in 0 .. 8 /\ ByteBits \in Nat
    BY BitsOfByte
  <1>3. i * ByteBits \in 0 .. MaxBits /\ (n - i) * ByteBits \in 0 .. MaxBits
    BY <1>1, <1>2, BitsOfByte
  <1>4. (i - 1) * ByteBits + ByteBits = i * ByteBits
    BY <1>2
  <1>5. ByteBits + (n - i) * ByteBits = (n - i + 1) * ByteBits
    BY <1>2
  <1> QED BY <1>3, <1>4, <1>5

LEMMA ByteValuesIs == ByteValues \in Positive /\ ByteValues = Two[ByteBits]
  <1>1. ByteBits \in 0 .. MaxBits
    BY BitsOfByte
  <1> QED BY <1>1, TwoIs DEF ByteValues

\* What is left of a number from byte i on.
FromByte(tag, element, n, f) ==
    /\ f[n + 1] = 0
    /\ \A i \in 1 .. n : f[i] = tag.bytes[Offset(tag, element) + i] + ByteValues * f[i + 1]

LEMMA UnsignedIs ==
    ASSUME NEW tag, NEW element, NEW n \in Nat, NEW f, FromByte(tag, element, n, f)
    PROVE  Unsigned(tag, element, n) = f[1]
  <1> DEFINE Is(g) == g = [i \in 1 .. n + 1 |->
                              IF i > n THEN 0
                              ELSE tag.bytes[Offset(tag, element) + i] + ByteValues * g[i + 1]]
             h == CHOOSE g : Is(g)
             k == [i \in 1 .. n + 1 |-> f[i]]
  <1>1. Is(k)
    <2>1. ASSUME NEW i \in 1 .. n + 1
          PROVE  k[i] = IF i > n THEN 0
                        ELSE tag.bytes[Offset(tag, element) + i] + ByteValues * k[i + 1]
      <3>1. CASE i > n
        <4>1. i = n + 1
          BY <3>1
        <4> QED BY <3>1, <4>1 DEF FromByte
      <3>2. CASE ~(i > n)
        <4>1. i \in 1 .. n /\ i + 1 \in 1 .. n + 1
          BY <3>2
        <4>2. f[i] = tag.bytes[Offset(tag, element) + i] + ByteValues * f[i + 1]
          BY <4>1 DEF FromByte
        <4>3. k[i] = f[i] /\ k[i + 1] = f[i + 1]
          BY <4>1
        <4> HIDE DEF k
        <4> QED BY <3>2, <4>2, <4>3
      <3> QED BY <3>1, <3>2
    <2> QED BY <2>1
  <1>2. Unsigned(tag, element, n) = h[1]
    BY DEF Unsigned
  <1>3. Is(h)
    BY <1>1
  <1> HIDE DEF h
  <1>4. \A i \in 1 .. n + 1 :
            h[i] = IF i > n THEN 0
                   ELSE tag.bytes[Offset(tag, element) + i] + ByteValues * h[i + 1]
    BY <1>3
  <1>5. SameDown(h, f, 1, n + 1)
    <2>1. h[n + 1] = f[n + 1]
      <3>1. n + 1 \in 1 .. n + 1 /\ n + 1 > n
        OBVIOUS
      <3> QED BY <1>4, <3>1 DEF FromByte
    <2>2. ASSUME NEW i \in 1 .. (n + 1) - 1, h[i + 1] = f[i + 1]
          PROVE  h[i] = f[i]
      <3>1. i \in 1 .. n /\ i \in 1 .. n + 1 /\ ~(i > n)
        OBVIOUS
      <3>2. f[i] = tag.bytes[Offset(tag, element) + i] + ByteValues * f[i + 1]
        BY <3>1 DEF FromByte
      <3>3. h[i] = tag.bytes[Offset(tag, element) + i] + ByteValues * h[i + 1]
        BY <1>4, <3>1
      <3> QED BY <2>2, <3>2, <3>3
    <2> QED BY <2>1, <2>2 DEF SameDown
  <1>6. h[1] = f[1]
    <2> DEFINE m == n + 1
    <2>1. 1 \in Nat /\ m \in Nat /\ 1 <= m /\ 1 \in 1 .. m /\ SameDown(h, f, 1, m)
      BY <1>5
    <2> HIDE DEF m
    <2> QED BY <2>1, SameStepsDown
  <1> QED BY <1>2, <1>6

\* A number whose bytes are those of v is v, as far as it has bytes.
LEMMA UnsignedOfBytes ==
    ASSUME NEW tag, NEW element, NEW n \in 1 .. 8, NEW v \in Int,
           \A i \in 1 .. n : tag.bytes[Offset(tag, element) + i]
                                = (v \div Two[(i - 1) * ByteBits]) % ByteValues
    PROVE  Unsigned(tag, element, n) = v % Two[n * ByteBits]
  <1> DEFINE f == [i \in 1 .. n + 1 |->
                      (v \div Two[(i - 1) * ByteBits]) % Two[(n - i + 1) * ByteBits]]
  <1>1. n \in Nat /\ 1 \in 1 .. n + 1 /\ n + 1 \in 1 .. n + 1
    OBVIOUS
  <1>2. f[n + 1] = 0
    <2>1. (n - (n + 1) + 1) * ByteBits = 0 /\ ((n + 1) - 1) * ByteBits \in 0 .. MaxBits
      <3>1. n \in 0 .. n /\ (n + 1) - 1 = n /\ n - (n + 1) + 1 = 0
        OBVIOUS
      <3> QED BY <3>1, Multiples, BitsOfByte
    <2>2. Two[((n + 1) - 1) * ByteBits] \in Positive
      BY <2>1, TwoIs
    <2>3. v \div Two[((n + 1) - 1) * ByteBits] \in Int
      BY <2>2, Divide
    <2>4. \A x \in Int : x % 1 = 0
      OBVIOUS
    <2>5. Two[(n - (n + 1) + 1) * ByteBits] = 1
      BY <2>1, TwoIs
    <2>6. f[n + 1] = (v \div Two[((n + 1) - 1) * ByteBits]) % Two[(n - (n + 1) + 1) * ByteBits]
      BY <1>1
    <2> HIDE DEF f
    <2> QED BY <2>3, <2>4, <2>5, <2>6
  <1>3. ASSUME NEW i \in 1 .. n
        PROVE  f[i] = tag.bytes[Offset(tag, element) + i] + ByteValues * f[i + 1]
    <2> DEFINE a == (i - 1) * ByteBits
               b == i * ByteBits
               c == (n - i) * ByteBits
               e == (n - i + 1) * ByteBits
               x == v \div Two[a]
    <2>1. /\ a \in 0 .. MaxBits /\ b \in 0 .. MaxBits /\ c \in 0 .. MaxBits /\ e \in 0 .. MaxBits
          /\ a + ByteBits = b /\ ByteBits + c = e
      <3>1. i \in 0 .. n /\ i - 1 \in 0 .. n /\ n - (i - 1) = n - i + 1
        OBVIOUS
      <3>2. (i - 1) * ByteBits \in 0 .. MaxBits /\ (n - (i - 1)) * ByteBits \in 0 .. MaxBits
        BY <3>1, Multiples
      <3> QED BY <3>1, <3>2, Multiples
    <2>2. f[i] = x % Two[e] /\ f[i + 1] = (v \div Two[b]) % Two[c]
      <3>1. i \in 1 .. n + 1 /\ i + 1 \in 1 .. n + 1 /\ (i + 1) - 1 = i /\ n - (i + 1) + 1 = n - i
        OBVIOUS
      <3>2. f[i + 1] = (v \div Two[((i + 1) - 1) * ByteBits]) % Two[(n - (i + 1) + 1) * ByteBits]
        BY <3>1
      <3> QED BY <3>1, <3>2
    <2> HIDE DEF a, b, c, e, f
    <2>3. Two[b] = Two[a] * ByteValues /\ Two[e] = ByteValues * Two[c]
      <3>1. a \in Nat /\ c \in Nat /\ ByteBits \in Nat /\ a + ByteBits <= MaxBits /\ ByteBits + c <= MaxBits
        BY <2>1, BitsOfByte
      <3>2. Two[a + ByteBits] = Two[a] * Two[ByteBits] /\ Two[ByteBits + c] = Two[ByteBits] * Two[c]
        BY <3>1, TwoSum
      <3> QED BY <2>1, <3>2, ByteValuesIs
    <2>4. Two[a] \in Positive /\ Two[c] \in Positive /\ ByteValues \in Positive
      BY <2>1, TwoIs, ByteValuesIs
    <2>5. v \div Two[b] = x \div ByteValues
      BY <2>3, <2>4, DivideTwice
    <2>6. x \in Int
      BY <2>4, Divide
    <2>7. tag.bytes[Offset(tag, element) + i] = x % ByteValues
      BY DEF a
    <2> HIDE DEF x
    <2>8. x % (ByteValues * Two[c]) = (x % ByteValues) + ByteValues * ((x \div ByteValues) % Two[c])
      BY <2>4, <2>6, SplitRemainder
    <2> QED BY <2>2, <2>3, <2>5, <2>7, <2>8
  <1>4. FromByte(tag, element, n, f)
    <2> HIDE DEF f
    <2> QED BY <1>2, <1>3 DEF FromByte
  <1>5. Unsigned(tag, element, n) = f[1]
    <2> HIDE DEF f
    <2> QED BY <1>1, <1>4, UnsignedIs
  <1>6. f[1] = (v \div Two[(1 - 1) * ByteBits]) % Two[(n - 1 + 1) * ByteBits]
    BY <1>1
  <1>7. (1 - 1) * ByteBits = 0 /\ n - 1 + 1 = n
    BY BitsOfByte
  <1>8. v \div Two[0] = v
    BY TwoIs
  <1> HIDE DEF f
  <1> QED BY <1>5, <1>6, <1>7, <1>8

\* Where the bytes of an element are.
LEMMA Places ==
    ASSUME NEW type \in Sized, NEW tag \in ArraysOf(type), NEW element \in 0 .. tag.elements - 1,
           NEW i \in 1 .. CIP_Type_size(type)
    PROVE  /\ Offset(tag, element) = element * CIP_Type_size(type)
           /\ Offset(tag, element) \in Nat
           /\ Offset(tag, element) + i \in 1 .. Len(tag.bytes)
           /\ tag.bytes[Offset(tag, element) + i] \in ByteValue
  <1> DEFINE n == CIP_Type_size(type)
             l == Len(tag.bytes)
  <1>1. /\ tag.type = type /\ tag.elements \in Nat /\ tag.bytes \in Seq(ByteValue)
        /\ l = tag.elements * n /\ n \in 1 .. 8
    BY Sizes DEF ArraysOf
  <1>2. Offset(tag, element) = element * n
    BY <1>1 DEF Offset
  <1> HIDE DEF n, l
  <1>3. \A a, b \in Nat : a < b => a * n \in Nat /\ a * n + n <= b * n
    BY <1>1
  <1>4. element * n \in Nat /\ element * n + n <= l
    BY <1>1, <1>3
  <1>5. i \in 1 .. n
    BY DEF n
  <1>6. element * n + i \in 1 .. l
    BY <1>1, <1>4, <1>5
  <1>7. tag.bytes[element * n + i] \in ByteValue
    BY <1>1, <1>6 DEF l
  <1> QED BY <1>2, <1>4, <1>6, <1>7 DEF n, l

\* Elements do not overlap.
LEMMA Distinct ==
    ASSUME NEW n \in 1 .. 8, NEW a \in Nat, NEW b \in Nat, a # b, NEW i \in 1 .. n,
           NEW x, NEW y, x = a * n, y = b * n
    PROVE  (y + i) - x \notin 1 .. n
  <1>1. \A c, d \in Nat : c < d => c * n + n <= d * n
    OBVIOUS
  <1>2. x \in Nat /\ y \in Nat
    OBVIOUS
  <1>3. x + n <= y \/ y + n <= x
    BY <1>1
  <1> QED BY <1>2, <1>3

LEMMA TailExists ==
    ASSUME NEW type \in Sized, NEW tag \in ArraysOf(type), NEW element \in 0 .. tag.elements - 1
    PROVE  \E f : /\ f \in [1 .. CIP_Type_size(type) + 1 -> Nat]
                  /\ FromByte(tag, element, CIP_Type_size(type), f)
  <1> DEFINE T == Nat
             n == CIP_Type_size(type)
             m == 1
             l == n + 1
             base == 0
             at == Offset(tag, element)
             step == [i \in m .. l - 1 |-> [x \in Nat |-> tag.bytes[at + i] + ByteValues * x]]
  <1>1. n \in 1 .. 8
    BY Sizes
  <1> HIDE DEF n
  <1>2. ASSUME NEW i \in 1 .. n
        PROVE  tag.bytes[at + i] \in Nat
    <2>1. tag.bytes[at + i] \in ByteValue
      BY Places DEF n
    <2> QED BY <2>1, ByteValuesIs DEF ByteValue, Positive
  <1> HIDE DEF at
  <1>3. /\ m \in Nat /\ l \in Nat /\ m <= l /\ base \in T
        /\ step \in [m .. l - 1 -> [T -> T]]
    <2>1. ASSUME NEW i \in m .. l - 1, NEW x \in Nat
          PROVE  tag.bytes[at + i] + ByteValues * x \in Nat
      <3>1. i \in 1 .. n
        BY <1>1
      <3>2. ByteValues \in Nat
        BY ByteValuesIs DEF Positive
      <3> QED BY <1>2, <3>1, <3>2
    <2> QED BY <1>1, <2>1
  <1>4. PICK f \in [m .. l -> T] :
            f[l] = base /\ \A i \in m .. l - 1 : f[i] = step[i][f[i + 1]]
    <2> HIDE DEF T, m, l, base, step
    <2>1. DefinedDown(T, m, l, base, step)
      BY <1>3, RecursionDown
    <2> QED BY <2>1 DEF DefinedDown
  <1>5. ASSUME NEW i \in 1 .. n
        PROVE  f[i] = tag.bytes[at + i] + ByteValues * f[i + 1]
    <2>1. i \in m .. l - 1 /\ i + 1 \in m .. l
      BY <1>1
    <2>2. f[i + 1] \in Nat
      BY <1>4, <2>1
    <2> QED BY <1>4, <2>1, <2>2
  <1> QED BY <1>4, <1>5 DEF FromByte, at, n

LEMMA UnsignedSame ==
    ASSUME NEW type \in Sized, NEW tag \in ArraysOf(type), NEW element \in 0 .. tag.elements - 1,
           NEW new \in ArraysOf(type),
           \A i \in 1 .. CIP_Type_size(type) :
              new.bytes[Offset(tag, element) + i] = tag.bytes[Offset(tag, element) + i]
    PROVE  /\ Unsigned(new, element, CIP_Type_size(type)) = Unsigned(tag, element, CIP_Type_size(type))
           /\ Unsigned(tag, element, CIP_Type_size(type)) \in Nat
  <1> DEFINE n == CIP_Type_size(type)
  <1>1. n \in 1 .. 8 /\ n \in Nat /\ 1 \in 1 .. n + 1
    BY Sizes
  <1>2. Offset(new, element) = Offset(tag, element)
    <2>1. new.type = type /\ tag.type = type
      BY ArrayIs
    <2> QED BY <2>1 DEF Offset
  <1>3. PICK f : f \in [1 .. n + 1 -> Nat] /\ FromByte(tag, element, n, f)
    BY TailExists
  <1>4. FromByte(new, element, n, f)
    BY <1>2, <1>3 DEF FromByte
  <1> HIDE DEF n
  <1>5. Unsigned(tag, element, n) = f[1] /\ Unsigned(new, element, n) = f[1]
    BY <1>1, <1>3, <1>4, UnsignedIs
  <1>6. f[1] \in Nat
    BY <1>1, <1>3
  <1> QED BY <1>5, <1>6 DEF n

\* A number arrives in its element, as far as it has room there, and in no other.
Packed(type, tag, element, v, new) ==
    LET n == CIP_Type_size(type)
    IN  /\ new \in ArraysOf(type) /\ new.elements = tag.elements
        /\ Unsigned(new, element, n) = v % Two[n * ByteBits]
        /\ \A e \in 0 .. tag.elements - 1 :
              e # element => Unsigned(new, e, n) = Unsigned(tag, e, n)

LEMMA PackIs ==
    ASSUME NEW type \in Sized, NEW tag \in ArraysOf(type), NEW element \in 0 .. tag.elements - 1,
           NEW v \in Int
    PROVE  Packed(type, tag, element, v, Pack(tag, element, CIP_Type_size(type), v))
  <1> DEFINE n == CIP_Type_size(type)
             at == Offset(tag, element)
             new == Pack(tag, element, n, v)
             digit(i) == (v \div Two[(i - 1) * ByteBits]) % ByteValues
             bytes == [k \in DOMAIN tag.bytes |-> IF k - at \in 1 .. n THEN digit(k - at) ELSE tag.bytes[k]]
  <1>1. n \in 1 .. 8
    BY Sizes
  <1>2. /\ tag.type = type /\ tag.elements \in Nat /\ tag.bytes \in Seq(ByteValue)
        /\ Len(tag.bytes) = tag.elements * n /\ DOMAIN tag.bytes = 1 .. Len(tag.bytes)
        /\ tag \in [type : {type}, valid : {TRUE}, elements : Nat, bytes : Seq(ByteValue)]
        /\ Len(tag.bytes) \in Nat
    BY ArrayIs
  <1>3. new = [tag EXCEPT !.bytes = bytes]
    BY DEF Pack
  <1>4. ASSUME NEW i \in 1 .. n
        PROVE  digit(i) \in ByteValue
    <2>1. i - 1 \in 0 .. n
      BY <1>1
    <2>2. Two[(i - 1) * ByteBits] \in Positive
      BY <1>1, <2>1, Multiples, TwoIs
    <2>3. v \div Two[(i - 1) * ByteBits] \in Int
      BY <2>2, Divide
    <2> DEFINE x == v \div Two[(i - 1) * ByteBits]
    <2> HIDE DEF x
    <2>4. x \in Int
      BY <2>3 DEF x
    <2>5. x % ByteValues \in 0 .. ByteValues - 1
      BY <2>4, Divide, ByteValuesIs
    <2> QED BY <2>5 DEF x, ByteValue
  <1> HIDE DEF n, digit
  <1>5. bytes \in [1 .. Len(tag.bytes) -> ByteValue]
    <2>1. ASSUME NEW k \in 1 .. Len(tag.bytes)
          PROVE  (IF k - at \in 1 .. n THEN digit(k - at) ELSE tag.bytes[k]) \in ByteValue
      BY <1>2, <1>4
    <2> QED BY <1>2, <2>1
  <1>6. bytes \in Seq(ByteValue) /\ Len(bytes) = Len(tag.bytes)
    <2> HIDE DEF bytes
    <2> QED BY <1>2, <1>5, FunctionIsSeq
  <1>7. /\ new \in [type : {type}, valid : {TRUE}, elements : Nat, bytes : Seq(ByteValue)]
        /\ new.bytes = bytes /\ new.elements = tag.elements /\ new.type = type
    <2> HIDE DEF bytes, new
    <2> QED BY <1>2, <1>3, <1>6
  <1> HIDE DEF new
  <1>8. new \in ArraysOf(type)
    BY <1>2, <1>6, <1>7 DEF ArraysOf, n
  <1>9. at \in Nat /\ \A i \in 1 .. n : at + i \in 1 .. Len(tag.bytes)
    <2>1. 1 \in 1 .. n
      BY <1>1
    <2> QED BY <2>1, Places DEF n
  <1>10. ASSUME NEW i \in 1 .. n
         PROVE  new.bytes[at + i] = digit(i)
    <2>1. at + i \in DOMAIN tag.bytes /\ (at + i) - at = i
      BY <1>2, <1>9
    <2>2. bytes[at + i] = IF (at + i) - at \in 1 .. n THEN digit((at + i) - at) ELSE tag.bytes[at + i]
      BY <2>1
    <2> HIDE DEF bytes
    <2> QED BY <1>7, <2>1, <2>2
  <1>11. Unsigned(new, element, n) = v % Two[n * ByteBits]
    <2>1. Offset(new, element) = at
      BY <1>2, <1>7 DEF Offset
    <2>2. \A i \in 1 .. n : new.bytes[Offset(new, element) + i]
                                = (v \div Two[(i - 1) * ByteBits]) % ByteValues
      BY <1>10, <2>1 DEF digit
    <2> QED BY <1>1, <2>2, UnsignedOfBytes
  <1>12. ASSUME NEW e \in 0 .. tag.elements - 1, e # element
         PROVE  Unsigned(new, e, n) = Unsigned(tag, e, n)
    <2>1. ASSUME NEW i \in 1 .. n
          PROVE  new.bytes[Offset(tag, e) + i] = tag.bytes[Offset(tag, e) + i]
      <3> DEFINE k == Offset(tag, e) + i
      <3>1. k \in DOMAIN tag.bytes /\ Offset(tag, e) = e * n
        BY <1>2, Places DEF n
      <3>2. at = element * n
        <4>1. 1 \in 1 .. n
          BY <1>1
        <4> QED BY <4>1, Places DEF n
      <3>3. k - at \notin 1 .. n
        <4>1. e \in Nat /\ element \in Nat
          BY <1>2
        <4> DEFINE y == Offset(tag, e)
        <4> HIDE DEF y, at
        <4>2. y = e * n
          BY <3>1 DEF y
        <4>3. element # e
          BY <1>12
        <4>4. (y + i) - at \notin 1 .. n
          BY <1>1, <3>2, <4>1, <4>2, <4>3, Distinct
        <4> QED BY <4>4 DEF y
      <3> HIDE DEF k, at
      <3>4. bytes[k] = IF k - at \in 1 .. n THEN digit(k - at) ELSE tag.bytes[k]
        BY <3>1
      <3>5. new.bytes[k] = tag.bytes[k]
        <4> HIDE DEF bytes
        <4> QED BY <1>7, <3>3, <3>4
      <3> QED BY <3>5 DEF k
    <2> QED BY <1>8, <2>1, UnsignedSame DEF n
  <1> QED BY <1>7, <1>8, <1>11, <1>12 DEF Packed, n, new

-----------------------------------------------------------------------------
(* Words and their bits *)

WordTypes == {"DINT", "BITS"}

LEMMA WordAccess ==
    ASSUME NEW type \in WordTypes, NEW tag \in ArraysOf(type), NEW element, NEW v
    PROVE  /\ type \in Sized /\ CIP_Type_size(type) = 4
           /\ get_CIP_UDINT(tag, element) = Got(Unsigned(tag, element, 4))
           /\ put_CIP_UDINT(tag, element, v) = Pack(tag, element, 4, v)
           /\ Word(tag, element) = BitsOf(Unsigned(tag, element, 4), WordBits)
  <1>1. type \in Sized /\ CIP_Type_size(type) = 4
    BY Sizes DEF WordTypes, Sized
  <1>2. tag.type = type
    BY ArrayIs
  <1>3. get_CIP_UDINT(tag, element) = Got(Unsigned(tag, element, 4))
    BY <1>2 DEF get_CIP_UDINT, WordTypes
  <1>4. put_CIP_UDINT(tag, element, v) = Pack(tag, element, 4, v)
    BY <1>1, <1>2 DEF put_CIP_UDINT, put_CIP_DINT, WordTypes
  <1>5. Word(tag, element) = BitsOf(Unsigned(tag, element, 4), WordBits)
    BY <1>3 DEF Word, Got
  <1> QED BY <1>1, <1>3, <1>4, <1>5

\* A word is put into its element and no other one.
PutInto(type, tag, m, on, new) ==
    /\ new \in ArraysOf(type) /\ new.elements = tag.elements
    /\ Word(new, m.element) = PutBit(Word(tag, m.element), m.mask, on)
    /\ \A e \in 0 .. tag.elements - 1 : e # m.element => Word(new, e) = Word(tag, e)

LEMMA PutAtIs ==
    ASSUME NEW type \in WordTypes, NEW tag \in ArraysOf(type),
           NEW m, m.element \in 0 .. tag.elements - 1, m.mask \subseteq 0 .. WordBits - 1,
           NEW on \in BOOLEAN
    PROVE  PutInto(type, tag, m, on, PutAt(tag, m, on))
  <1> DEFINE e == m.element
             word == PutBit(Word(tag, e), m.mask, on)
             v == Number(word)
             new == Pack(tag, e, 4, v)
  <1>1. PutAt(tag, m, on) = new
    BY WordAccess DEF PutAt
  <1>2. WordBits \in 0 .. MaxBits /\ WordBits = 4 * ByteBits
    BY BitsOfByte
  <1>3. word \subseteq 0 .. WordBits - 1
    <2>1. Word(tag, e) \subseteq 0 .. WordBits - 1
      BY DEF Word, BitsOf
    <2> QED BY <2>1 DEF PutBit
  <1> HIDE DEF word
  <1>4. v \in 0 .. Two[WordBits] - 1 /\ BitsOf(v, WordBits) = word
    BY <1>2, <1>3, NumberSmall, BitsOfNumber
  <1>5. Two[WordBits] \in Positive
    BY <1>2, TwoIs
  <1>6. v \in Int /\ v % Two[WordBits] = v
    <2> HIDE DEF v
    <2>1. v \in Int /\ v = Two[WordBits] * 0 + v
      BY <1>4, <1>5 DEF Positive
    <2> QED BY <1>4, <1>5, <2>1, Quotient
  <1> HIDE DEF v
  <1>7. type \in Sized /\ CIP_Type_size(type) = 4
    BY WordAccess
  <1>8. Packed(type, tag, e, v, new)
    <2> HIDE DEF e
    <2>1. e \in 0 .. tag.elements - 1
      BY DEF e
    <2>2. Packed(type, tag, e, v, Pack(tag, e, CIP_Type_size(type), v))
      BY <1>6, <1>7, <2>1, PackIs
    <2> QED BY <1>7, <2>2
  <1> HIDE DEF new
  <1>9. /\ new \in ArraysOf(type) /\ new.elements = tag.elements
        /\ Unsigned(new, e, 4) = v
        /\ \A d \in 0 .. tag.elements - 1 : d # e => Unsigned(new, d, 4) = Unsigned(tag, d, 4)
    <2>1. Unsigned(new, e, 4) = v % Two[4 * ByteBits]
      BY <1>7, <1>8 DEF Packed
    <2> QED BY <1>2, <1>6, <1>7, <1>8, <2>1 DEF Packed
  <1>10. \A d : /\ Word(new, d) = BitsOf(Unsigned(new, d, 4), WordBits)
                /\ Word(tag, d) = BitsOf(Unsigned(tag, d, 4), WordBits)
    BY <1>9, WordAccess
  <1>11. Word(new, e) = word
    BY <1>4, <1>9, <1>10
  <1>12. \A d \in 0 .. tag.elements - 1 : d # e => Word(new, d) = Word(tag, d)
    BY <1>9, <1>10
  <1> QED BY <1>1, <1>9, <1>11, <1>12 DEF PutInto, word

\* The mask of a bit, counted from the first one of the array on.
BitAt(p) == [element |-> p \div WordBits, mask |-> {p % WordBits}]

LEMMA NextBit ==
    ASSUME NEW p \in Nat
    PROVE  NextMask(BitAt(p)) = BitAt(p + 1)
  <1> DEFINE w == WordBits
             q == p \div w
             r == p % w
             shifted == {b + 1 : b \in {r}} \cap (0 .. w - 1)
  <1>1. w \in Positive /\ w \in Nat /\ w >= 8
    BY BitsOfByte DEF Positive
  <1> HIDE DEF w
  <1>2. q \in Int /\ r \in 0 .. w - 1 /\ p = w * q + r
    <2>1. p \in Int
      OBVIOUS
    <2> QED BY <1>1, <2>1, Divide
  <1> HIDE DEF q, r
  <1>3. NextMask(BitAt(p)) = IF shifted = {} THEN [element |-> q + 1, mask |-> {0}]
                                             ELSE [element |-> q, mask |-> shifted]
    BY DEF NextMask, BitAt, q, r, w
  <1>4. CASE r = w - 1
    <2>1. shifted = {}
      BY <1>1, <1>4
    <2>2. p + 1 = w * (q + 1) + 0 /\ 0 \in 0 .. w - 1 /\ q + 1 \in Int
      BY <1>1, <1>2, <1>4
    <2>3. (p + 1) \div w = q + 1 /\ (p + 1) % w = 0
      BY <1>1, <2>2, Quotient
    <2> QED BY <1>3, <2>1, <2>3 DEF BitAt, w
  <1>5. CASE r # w - 1
    <2>1. shifted = {r + 1} /\ r + 1 \in 0 .. w - 1
      BY <1>1, <1>2, <1>5
    <2>2. p + 1 = w * q + (r + 1)
      BY <1>1, <1>2
    <2>3. (p + 1) \div w = q /\ (p + 1) % w = r + 1
      BY <1>1, <1>2, <2>1, <2>2, Quotient
    <2> QED BY <1>3, <2>1, <2>3 DEF BitAt, w
  <1> QED BY <1>4, <1>5

\* Bit number i of a link to one bit is i bits further.
LEMMA MaskIs ==
    ASSUME NEW link, NEW first \in Nat, [element |-> link.element, mask |-> link.mask] = BitAt(first),
           NEW i \in Nat
    PROVE  MaskOf(link, i) = BitAt(first + i)
  <1> DEFINE Is(g) == g = [j \in 0 .. i |-> IF j = 0 THEN [element |-> link.element, mask |-> link.mask]
                                            ELSE NextMask(g[j - 1])]
             h == CHOOSE g : Is(g)
             f == [j \in 0 .. i |-> BitAt(first + j)]
  <1>1. ASSUME NEW j \in 1 .. i
        PROVE  f[j] = NextMask(f[j - 1])
    <2>1. j \in 0 .. i /\ j - 1 \in 0 .. i /\ first + (j - 1) \in Nat /\ (first + (j - 1)) + 1 = first + j
      OBVIOUS
    <2>2. NextMask(BitAt(first + (j - 1))) = BitAt(first + j)
      BY <2>1, NextBit
    <2> QED BY <2>1, <2>2
  <1>2. f[0] = [element |-> link.element, mask |-> link.mask]
    <2>1. 0 \in 0 .. i /\ first + 0 = first
      OBVIOUS
    <2> QED BY <2>1
  <1>3. Is(f)
    <2>1. ASSUME NEW j \in 0 .. i
          PROVE  f[j] = IF j = 0 THEN [element |-> link.element, mask |-> link.mask]
                        ELSE NextMask(f[j - 1])
      <3>1. j # 0 => j \in 1 .. i
        OBVIOUS
      <3> HIDE DEF f
      <3> QED BY <1>1, <1>2, <3>1
    <2>2. f = [j \in 0 .. i |-> f[j]]
      OBVIOUS
    <2> HIDE DEF f
    <2> QED BY <2>1, <2>2
  <1>4. MaskOf(link, i) = h[i]
    BY DEF MaskOf
  <1>5. Is(h)
    <2> HIDE DEF f
    <2> QED BY <1>3
  <1> HIDE DEF h
  <1>6. \A j \in 0 .. i : h[j] = IF j = 0 THEN [element |-> link.element, mask |-> link.mask]
                                 ELSE NextMask(h[j - 1])
    BY <1>5
  <1> HIDE DEF f
  <1>7. SameStep(h, f, i)
    <2>1. h[0] = f[0]
      BY <1>2, <1>6
    <2>2. ASSUME NEW j \in 1 .. i, h[j - 1] = f[j - 1]
          PROVE  h[j] = f[j]
      <3>1. j \in 0 .. i /\ j # 0
        OBVIOUS
      <3> QED BY <1>1, <1>6, <2>2, <3>1
    <2> QED BY <2>1, <2>2 DEF SameStep
  <1>8. h[i] = f[i]
    <2>1. i \in 0 .. i
      OBVIOUS
    <2> QED BY <1>7, <2>1, SameSteps
  <1>9. f[i] = BitAt(first + i)
    BY DEF f
  <1> QED BY <1>4, <1>8, <1>9

-----------------------------------------------------------------------------
(* The bits of an array *)

LEMMA BitPlace ==
    ASSUME NEW k \in Nat, NEW p \in 0 .. k * WordBits - 1
    PROVE  /\ p \div WordBits \in 0 .. k - 1 /\ p % WordBits \in 0 .. WordBits - 1
           /\ p = WordBits * (p \div WordBits) + (p % WordBits)
  <1> DEFINE w == WordBits
  <1>1. w \in Positive /\ w \in Nat /\ w > 0
    BY BitsOfByte DEF Positive
  <1> HIDE DEF w
  <1>2. p \in Int /\ p >= 0 /\ p < k * w
    BY <1>1 DEF w
  <1>3. PICK q \in Int, r \in 0 .. w - 1 : q = p \div w /\ r = p % w /\ p = w * q + r
    BY <1>1, <1>2, Divide
  <1>4. q >= 0
    BY <1>1, <1>2, <1>3
  <1>5. q < k
    <2>1. \A a, b \in Int : a >= b => w * a >= b * w
      BY <1>1
    <2> QED BY <1>1, <1>2, <1>3, <2>1
  <1>6. q \in 0 .. k - 1
    BY <1>4, <1>5
  <1>7. p \div w \in 0 .. k - 1 /\ p % w \in 0 .. w - 1 /\ p = w * (p \div w) + (p % w)
    BY <1>3, <1>6, Zenon
  <1> QED BY <1>7 DEF w

\* Putting one bit changes this one only.
BitPut(type, tag, p, on, new) ==
    /\ new \in ArraysOf(type) /\ new.elements = tag.elements
    /\ AllBits(new) = IF on THEN AllBits(tag) \cup {p} ELSE AllBits(tag) \ {p}

LEMMA BitPutIs ==
    ASSUME NEW type \in WordTypes, NEW tag \in ArraysOf(type),
           NEW p \in 0 .. tag.elements * WordBits - 1, NEW on \in BOOLEAN
    PROVE  BitPut(type, tag, p, on, PutAt(tag, BitAt(p), on))
  <1> DEFINE new == PutAt(tag, BitAt(p), on)
             e == p \div WordBits
             b == p % WordBits
             k == tag.elements
             all == 0 .. k * WordBits - 1
  <1>1. k \in Nat
    BY ArrayIs
  <1>2. e \in 0 .. k - 1 /\ b \in 0 .. WordBits - 1 /\ p = WordBits * e + b
    <2> HIDE DEF k
    <2>1. p \in 0 .. k * WordBits - 1
      BY DEF k
    <2> QED BY <1>1, <2>1, BitPlace, Zenon
  <1>3. PutInto(type, tag, BitAt(p), on, new)
    <2> DEFINE m == BitAt(p)
    <2>1. m.element \in 0 .. k - 1 /\ m.mask \subseteq 0 .. WordBits - 1
      BY <1>2 DEF BitAt
    <2> HIDE DEF m
    <2> QED BY <2>1, PutAtIs DEF m
  <1> HIDE DEF new
  <1>4. /\ new \in ArraysOf(type) /\ new.elements = k
        /\ Word(new, e) = PutBit(Word(tag, e), {b}, on)
        /\ \A d \in 0 .. k - 1 : d # e => Word(new, d) = Word(tag, d)
    BY <1>3 DEF PutInto, BitAt
  <1>5. ASSUME NEW n \in all
        PROVE  n % WordBits \in Word(new, n \div WordBits)
                  <=> IF n = p THEN on ELSE n % WordBits \in Word(tag, n \div WordBits)
    <2>1. /\ n \div WordBits \in 0 .. k - 1 /\ n % WordBits \in 0 .. WordBits - 1
          /\ n = WordBits * (n \div WordBits) + (n % WordBits)
      BY <1>1, BitPlace, Zenon
    <2> DEFINE ne == n \div WordBits
               nb == n % WordBits
    <2>2. n = p => ne = e /\ nb = b
      OBVIOUS
    <2>3. ne = e /\ nb = b => n = p
      BY <1>2, <2>1
    <2> HIDE DEF ne, nb, e, b
    <2>4. CASE n = p
      BY <1>4, <2>2, <2>4 DEF PutBit, ne, nb
    <2>5. CASE n # p
      BY <1>4, <2>1, <2>3, <2>5 DEF PutBit, ne, nb
    <2> QED BY <2>4, <2>5
  <1>6. AllBits(new) = {n \in all : n % WordBits \in Word(new, n \div WordBits)}
        /\ AllBits(tag) = {n \in all : n % WordBits \in Word(tag, n \div WordBits)}
    BY <1>4 DEF AllBits
  <1> HIDE DEF all
  <1>7. p \in all
    BY DEF all
  <1>8. AllBits(new) = IF on THEN AllBits(tag) \cup {p} ELSE AllBits(tag) \ {p}
    BY <1>5, <1>6, <1>7
  <1> QED BY <1>4, <1>8 DEF BitPut, new

(* A link to a bit of an array, the first of several. *)
LinksTo(link, first) == [element |-> link.element, mask |-> link.mask] = BitAt(first)

LEMMA PutBits ==
    ASSUME NEW type \in WordTypes, NEW tag \in ArraysOf(type), NEW link, NEW first \in Nat,
           LinksTo(link, first), NEW bits \in Nat, first + bits <= tag.elements * WordBits,
           NEW rval
    PROVE  LET new == put_bits(tag, link, bits, rval)
           IN  /\ new \in ArraysOf(type) /\ new.elements = tag.elements
               /\ AllBits(new) = (AllBits(tag) \ (first .. first + bits - 1))
                                    \cup {first + i : i \in rval \cap (0 .. bits - 1)}
  <1> DEFINE T == {t \in ArraysOf(type) : t.elements = tag.elements}
             on(j) == (j - 1) \in rval
             at(j) == first + (j - 1)
             step == [j \in 1 .. bits |-> [t \in T |-> PutAt(t, BitAt(at(j)), on(j))]]
             end == tag.elements * WordBits
  <1>0. end \in Nat
    <2>1. \A a, b \in Nat : a * b \in Nat
      OBVIOUS
    <2>2. tag.elements \in Nat /\ WordBits \in Nat
      BY ArrayIs, BitsOfByte
    <2> QED BY <2>1, <2>2
  <1>1. ASSUME NEW j \in 1 .. bits, NEW t \in T
        PROVE  BitPut(type, t, at(j), on(j), PutAt(t, BitAt(at(j)), on(j)))
    <2> HIDE DEF end
    <2>1. at(j) \in 0 .. end - 1
      <3>1. first + bits <= end
        BY DEF end
      <3> QED BY <1>0, <3>1
    <2>2. on(j) \in BOOLEAN
      OBVIOUS
    <2> HIDE DEF on, at
    <2> QED BY <2>1, <2>2, BitPutIs DEF end
  <1>2. /\ tag \in T
        /\ step \in [1 .. bits -> [T -> T]]
    <2> HIDE DEF on, at
    <2>1. ASSUME NEW j \in 1 .. bits, NEW t \in T
          PROVE  PutAt(t, BitAt(at(j)), on(j)) \in T
      BY <1>1 DEF BitPut
    <2> QED BY <2>1
  <1>3. PICK f \in [0 .. bits -> T] : f[0] = tag /\ \A i \in 1 .. bits : f[i] = step[i][f[i - 1]]
    <2> HIDE DEF T, step
    <2>1. Defined(T, bits, tag, step)
      BY <1>2, Recursion
    <2> QED BY <2>1 DEF Defined
  <1> HIDE DEF on, at, end
  <1>4. ASSUME NEW j \in 1 .. bits
        PROVE  f[j] = PutAt(f[j - 1], BitAt(at(j)), on(j)) /\ f[j - 1] \in T
    <2>1. j - 1 \in 0 .. bits
      OBVIOUS
    <2>2. f[j - 1] \in T
      BY <1>3, <2>1
    <2> HIDE DEF T
    <2> QED BY <1>3, <2>2
  <1> HIDE DEF step
  <1>5. put_bits(tag, link, bits, rval) = f[bits]
    <2> DEFINE Is(g) == g = [j \in 0 .. bits |-> IF j = 0 THEN tag
                                ELSE PutAt(g[j - 1], MaskOf(link, j - 1), (j - 1) \in rval)]
               h == CHOOSE g : Is(g)
    <2>1. ASSUME NEW j \in 1 .. bits
          PROVE  MaskOf(link, j - 1) = BitAt(at(j))
      <3>1. j - 1 \in Nat
        OBVIOUS
      <3> QED BY <3>1, MaskIs DEF LinksTo, at
    <2>2. Is(f)
      <3>1. ASSUME NEW j \in 0 .. bits
            PROVE  f[j] = IF j = 0 THEN tag
                          ELSE PutAt(f[j - 1], MaskOf(link, j - 1), (j - 1) \in rval)
        <4>1. CASE j = 0
          BY <1>3, <4>1
        <4>2. CASE j # 0
          <5>1. j \in 1 .. bits
            BY <4>2
          <5> QED BY <1>4, <2>1, <4>2, <5>1 DEF on
        <4> QED BY <4>1, <4>2
      <3> HIDE DEF T
      <3> QED BY <1>3, <3>1
    <2>3. put_bits(tag, link, bits, rval) = h[bits]
      BY DEF put_bits
    <2>4. Is(h)
      BY <2>2
    <2> HIDE DEF h, T
    <2>5. \A j \in 0 .. bits : h[j] = IF j = 0 THEN tag
                               ELSE PutAt(h[j - 1], MaskOf(link, j - 1), (j - 1) \in rval)
      BY <2>4
    <2>6. SameStep(h, f, bits)
      <3>1. h[0] = f[0]
        BY <1>3, <2>5
      <3>2. ASSUME NEW j \in 1 .. bits, h[j - 1] = f[j - 1]
            PROVE  h[j] = f[j]
        <4>1. j \in 0 .. bits /\ j # 0
          OBVIOUS
        <4>2. h[j] = PutAt(h[j - 1], MaskOf(link, j - 1), (j - 1) \in rval)
          BY <2>5, <4>1
        <4>3. f[j] = PutAt(f[j - 1], MaskOf(link, j - 1), (j - 1) \in rval)
          BY <1>4, <2>1 DEF on
        <4> QED BY <3>2, <4>2, <4>3
      <3> QED BY <3>1, <3>2 DEF SameStep
    <2>7. bits \in 0 .. bits
      OBVIOUS
    <2> QED BY <2>3, <2>6, <2>7, SameSteps
  <1> DEFINE Put(j) == (AllBits(tag) \ (first .. first + j - 1))
                          \cup {first + i : i \in rval \cap (0 .. j - 1)}
             P == {j \in Nat : j <= bits => AllBits(f[j]) = Put(j)}
  <1>6. 0 \in P
    <2>1. first .. first + 0 - 1 = {} /\ rval \cap (0 .. 0 - 1) = {}
      OBVIOUS
    <2> HIDE DEF T
    <2> QED BY <1>3, <2>1
  <1>7. ASSUME NEW j \in Nat, j \in P
        PROVE  j + 1 \in P
    <2>1. SUFFICES ASSUME j + 1 <= bits PROVE AllBits(f[j + 1]) = Put(j + 1)
      OBVIOUS
    <2>2. j + 1 \in 1 .. bits /\ (j + 1) - 1 = j /\ j <= bits
      BY <2>1
    <2>3. AllBits(f[j]) = Put(j)
      BY <1>7, <2>2
    <2>4. at(j + 1) = first + j /\ (on(j + 1) <=> j \in rval)
      BY <2>2 DEF at, on
    <2>5. BitPut(type, f[j], first + j, on(j + 1), f[j + 1])
      <3>1. f[j + 1] = PutAt(f[(j + 1) - 1], BitAt(at(j + 1)), on(j + 1)) /\ f[(j + 1) - 1] \in T
        BY <1>4, <2>2
      <3>2. f[j + 1] = PutAt(f[j], BitAt(at(j + 1)), on(j + 1)) /\ f[j] \in T
        BY <2>2, <3>1
      <3> HIDE DEF T
      <3>3. BitPut(type, f[j], at(j + 1), on(j + 1), PutAt(f[j], BitAt(at(j + 1)), on(j + 1)))
        BY <1>1, <2>2, <3>2
      <3> QED BY <2>4, <3>2, <3>3
    <2>6. AllBits(f[j + 1]) = IF j \in rval THEN Put(j) \cup {first + j} ELSE Put(j) \ {first + j}
      BY <2>3, <2>4, <2>5 DEF BitPut
    <2> DEFINE own(i) == first .. first + i - 1
               set(i) == {first + n : n \in rval \cap (0 .. i - 1)}
    <2>7. own(j + 1) = own(j) \cup {first + j} /\ first + j \notin own(j)
      OBVIOUS
    <2>8. set(j + 1) = (IF j \in rval THEN set(j) \cup {first + j} ELSE set(j)) /\ first + j \notin set(j)
      <3>1. 0 .. (j + 1) - 1 = (0 .. j - 1) \cup {j}
        OBVIOUS
      <3>2. first + j \notin set(j)
        OBVIOUS
      <3>3. \A n \in set(j) : \E m \in rval \cap (0 .. j - 1) : n = first + m
        OBVIOUS
      <3> QED BY <3>1, <3>2
    <2>9. Put(j + 1) = (AllBits(tag) \ own(j + 1)) \cup set(j + 1) /\ Put(j) = (AllBits(tag) \ own(j)) \cup set(j)
      OBVIOUS
    <2> HIDE DEF own, set, Put
    <2> QED BY <2>6, <2>7, <2>8, <2>9
  <1> HIDE DEF P
  <1>8. bits \in P
    BY <1>6, <1>7, Induction
  <1>9. AllBits(f[bits]) = Put(bits)
    BY <1>8 DEF P
  <1>10. f[bits] \in ArraysOf(type) /\ f[bits].elements = tag.elements
    <2>1. bits \in 0 .. bits
      OBVIOUS
    <2>2. f[bits] \in T
      BY <1>3, <2>1
    <2> QED BY <2>2
  <1> QED BY <1>5, <1>9, <1>10

-----------------------------------------------------------------------------
(* What a record sees of its bits *)

LEMMA GetBits ==
    ASSUME NEW type \in WordTypes, NEW tag \in ArraysOf(type), NEW link, NEW first \in Nat,
           LinksTo(link, first), NEW bits \in Positive, first + bits <= tag.elements * WordBits
    PROVE  get_bits(tag, link, bits) =
              {i \in 0 .. bits - 1 : /\ first + i \in AllBits(tag)
                                     /\ i = 0 /\ bits > 1 => first % WordBits = 0}
  <1> DEFINE end == tag.elements * WordBits
             Sees(i) == IF i > 0
                        THEN Meets(Word(tag, MaskOf(link, i).element), MaskOf(link, i).mask)
                        ELSE IF bits = 1 THEN Meets(Word(tag, link.element), link.mask)
                        ELSE 0 \in Word(tag, link.element) \cap link.mask
  <1>1. get_bits(tag, link, bits) = {i \in 0 .. bits - 1 : Sees(i)}
    BY DEF get_bits
  <1>2. link.element = first \div WordBits /\ link.mask = {first % WordBits}
    BY DEF LinksTo, BitAt
  <1>3. end \in Nat /\ bits \in Nat /\ bits > 0 /\ first + bits <= end
    <2>1. \A a, b \in Nat : a * b \in Nat
      OBVIOUS
    <2>2. tag.elements \in Nat /\ WordBits \in Nat
      BY ArrayIs, BitsOfByte
    <2> QED BY <2>1, <2>2 DEF Positive
  <1>4. AllBits(tag) = {n \in 0 .. end - 1 : n % WordBits \in Word(tag, n \div WordBits)}
    BY DEF AllBits
  <1> HIDE DEF end
  <1>5. ASSUME NEW i \in 0 .. bits - 1
        PROVE  Sees(i) <=> /\ first + i \in AllBits(tag)
                           /\ i = 0 /\ bits > 1 => first % WordBits = 0
    <2>1. first + i \in 0 .. end - 1 /\ i \in Nat /\ (i = 0 => first + i = first)
      BY <1>3
    <2> DEFINE n == first + i
    <2>2. n \in AllBits(tag) <=> n % WordBits \in Word(tag, n \div WordBits)
      <3> HIDE DEF n
      <3> QED BY <1>4, <2>1 DEF n
    <2>3. CASE i > 0
      <3>1. MaskOf(link, i) = BitAt(n)
        BY <2>1, MaskIs DEF LinksTo
      <3> HIDE DEF n
      <3>2. MaskOf(link, i).element = n \div WordBits /\ MaskOf(link, i).mask = {n % WordBits}
        BY <3>1 DEF BitAt
      <3> QED BY <2>2, <2>3, <3>2 DEF Meets, n
    <2>4. CASE i = 0
      <3>1. n = first
        BY <2>1, <2>4
      <3> HIDE DEF n
      <3>2. n \in AllBits(tag) <=> first % WordBits \in Word(tag, link.element)
        BY <1>2, <2>2, <3>1
      <3>3. Sees(i) <=> IF bits = 1 THEN first % WordBits \in Word(tag, link.element)
                        ELSE 0 \in Word(tag, link.element) /\ first % WordBits = 0
        BY <1>2, <2>4 DEF Meets
      <3>4. bits > 1 <=> bits # 1
        BY <1>3
      <3> QED BY <2>4, <3>2, <3>3, <3>4 DEF n
    <2> QED BY <2>1, <2>3, <2>4
  <1> HIDE DEF Sees
  <1> QED BY <1>1, <1>5

\* An output record changes its own bits only, and sees what it wrote; the first of several
\* bits it sees only where that is the first of its word.
LEMMA LinkPuts ==
    ASSUME NEW type \in WordTypes, NEW tag \in ArraysOf(type), NEW link, link.first \in Nat,
           LinksTo(link, link.first), link.bits \in Positive,
           link.first + link.bits <= tag.elements * WordBits,
           NEW rval \in SUBSET (0 .. link.bits - 1)
    PROVE  BitsPut(tag, link, rval)
  <1> DEFINE first == link.first
             bits == link.bits
             own == first .. first + bits - 1
             new == put_bits(tag, link, bits, rval)
             set == {first + i : i \in rval}
  <1>1. bits \in Nat /\ bits > 0 /\ rval \cap (0 .. bits - 1) = rval /\ first \in Nat /\ bits \in Positive
    <2>1. rval \cap (0 .. bits - 1) = rval
      OBVIOUS
    <2> QED BY <2>1 DEF Positive
  <1>2. first + bits <= tag.elements * WordBits /\ LinksTo(link, first)
    OBVIOUS
  <1> HIDE DEF first, bits
  <1>3. /\ new \in ArraysOf(type) /\ new.elements = tag.elements
        /\ AllBits(new) = (AllBits(tag) \ own) \cup {first + i : i \in rval \cap (0 .. bits - 1)}
    BY <1>1, <1>2, PutBits
  <1> HIDE DEF new
  <1>4. AllBits(new) = (AllBits(tag) \ own) \cup set
    BY <1>1, <1>3
  <1>5. ASSUME NEW i \in 0 .. bits - 1
        PROVE  first + i \in AllBits(new) <=> i \in rval
    <2>1. first + i \in own
      BY <1>1
    <2>2. first + i \in set <=> i \in rval
      <3>1. \A n \in rval : n \in Nat
        BY <1>1
      <3>2. first + i \in set <=> \E n \in rval : first + i = first + n
        OBVIOUS
      <3>3. \A n \in rval : first + i = first + n => n = i
        BY <1>1, <3>1
      <3> QED BY <3>2, <3>3
    <2> HIDE DEF own, set
    <2> QED BY <1>4, <2>1, <2>2
  <1>6. get_bits(new, link, bits) =
              {i \in 0 .. bits - 1 : /\ first + i \in AllBits(new)
                                     /\ i = 0 /\ bits > 1 => first % WordBits = 0}
    <2>1. first + bits <= new.elements * WordBits
      BY <1>2, <1>3
    <2> QED BY <1>1, <1>2, <1>3, <2>1, GetBits
  <1>7. rval \subseteq 0 .. bits - 1
    BY DEF bits
  <1>8. get_bits(new, link, bits) = {i \in rval : i = 0 /\ bits > 1 => first % WordBits = 0}
    <2> DEFINE Shown(i) == i = 0 /\ bits > 1 => first % WordBits = 0
    <2>1. get_bits(new, link, bits) = {i \in 0 .. bits - 1 : first + i \in AllBits(new) /\ Shown(i)}
      BY <1>6
    <2> HIDE DEF Shown
    <2>2. get_bits(new, link, bits) = {i \in rval : Shown(i)}
      BY <1>5, <1>7, <2>1
    <2> QED BY <2>2 DEF Shown
  <1> QED BY <1>4, <1>8 DEF BitsPut, first, bits, new

-----------------------------------------------------------------------------
(* The links to bits *)

LEMMA BitLinkIs ==
    ASSUME NEW link, NEW n, NEW first
    PROVE  /\ BitLink(link, n, first).element = analyze_link(link, 1, n).element
           /\ BitLink(link, n, first).mask = analyze_link(link, 1, n).mask
           /\ BitLink(link, n, first).elements = analyze_link(link, 1, n).elements
           /\ BitLink(link, n, first).bits = n
           /\ BitLink(link, n, first).first = first
           /\ BitLink(link, n, first).states = <<>>
  <1> DEFINE use == analyze_link(link, 1, n)
  <1>1. BitLink(link, n, first) =
          [element |-> use.element, mask |-> use.mask, elements |-> use.elements,
           bits |-> n, first |-> first, states |-> <<>>]
    BY DEF BitLink
  <1> HIDE DEF use
  <1> QED BY <1>1 DEF use

\* The bit number i of an array.
LEMMA IndexLinkIs ==
    ASSUME NEW link, link.index \in Nat, link.E = FALSE, link.B = NoBit, NEW n \in Positive
    PROVE  /\ LinksTo(BitLink(link, n, link.index), link.index)
           /\ BitsRead(BitLink(link, n, link.index))
  <1> DEFINE new == BitLink(link, n, link.index)
             use == analyze_link(link, 1, n)
             i == link.index
  <1>1. i # NoIndex /\ n > 0 /\ n \in Nat /\ i \in Nat
    BY DEF NoIndex, Positive
  <1>2. use.element = i \div WordBits /\ use.mask = {i % WordBits}
        /\ use.elements = ((i + n - 1) \div WordBits) + 1
    BY <1>1 DEF analyze_link
  <1>3. /\ new.element = use.element /\ new.mask = use.mask /\ new.elements = use.elements
        /\ new.bits = n /\ new.first = i
    BY BitLinkIs
  <1> HIDE DEF new, use, i
  <1>4. LinksTo(new, i)
    BY <1>2, <1>3 DEF LinksTo, BitAt
  <1>5. i + n - 1 \in Int /\ WordBits \in Positive
    BY <1>1, BitsOfByte DEF Positive
  <1> DEFINE q == (i + n - 1) \div WordBits
  <1>6. q \in Int
    <2> DEFINE v == i + n - 1
    <2> HIDE DEF v
    <2>1. v \in Int
      BY <1>5 DEF v
    <2>2. v \div WordBits \in Int
      BY <1>5, <2>1, Divide
    <2> QED BY <2>2 DEF v
  <1>7. BitsRead(new)
    <2>1. (new.first + new.bits - 1) \div WordBits = q /\ new.elements = q + 1
      BY <1>2, <1>3
    <2> HIDE DEF q
    <2> QED BY <1>6, <2>1 DEF BitsRead
  <1> QED BY <1>4, <1>7 DEF new, i

LEMMA NextWord ==
    ASSUME NEW w \in Positive, NEW i \in Nat, NEW v \in Nat
    PROVE  v \div w < i + 1 <=> v < w * i + w
  <1>1. PICK q \in Int, r \in 0 .. w - 1 : q = v \div w /\ v = w * q + r
    BY Divide
  <1>2. CASE q < i + 1
    <2>1. PICK k \in Nat : i = q + k
      <3>1. i = q + (i - q) /\ i - q \in Nat
        BY <1>2
      <3> QED BY <3>1
    <2>2. w * i = w * q + w * k /\ w * k \in Nat /\ w * q \in Int /\ w \in Nat
      BY <2>1 DEF Positive
    <2> HIDE DEF Positive
    <2>3. v < w * i + w
      BY <1>1, <2>2
    <2> QED BY <1>1, <1>2, <2>3
  <1>3. CASE ~(q < i + 1)
    <2>1. PICK k \in Nat : q = i + 1 + k
      <3>1. q = i + 1 + (q - i - 1) /\ q - i - 1 \in Nat
        BY <1>3
      <3> QED BY <3>1
    <2>2. w * q = w * i + w + w * k /\ w * k \in Nat /\ w * i \in Int /\ w \in Nat
      BY <2>1 DEF Positive
    <2>3. ~(v < w * i + w)
      BY <1>1, <2>2
    <2> QED BY <1>1, <1>3, <2>3
  <1> QED BY <1>2, <1>3

\* With a B flag, the bit B of an element, the last that is read.
LEMMA BLinkIs ==
    ASSUME NEW link, link.index \in Nat, link.E = FALSE, link.B \in 0 .. WordBits - 1,
           NEW n \in Positive
    PROVE  /\ LinksTo(BitLink(link, n, link.index * WordBits + link.B), link.index * WordBits + link.B)
           /\ BitsRead(BitLink(link, n, link.index * WordBits + link.B))
                <=> link.B + n <= WordBits
           /\ (link.index * WordBits + link.B) % WordBits = link.B
  <1> DEFINE w == WordBits
             p == link.index * WordBits + link.B
             new == BitLink(link, n, p)
             use == analyze_link(link, 1, n)
             i == link.index
             b == link.B
  <1>1. i # NoIndex /\ b # NoBit /\ i \in Nat /\ b \in 0 .. w - 1
    BY DEF NoIndex, NoBit
  <1>2. use.element = i /\ use.mask = {b} /\ use.elements = i + 1
    BY <1>1 DEF analyze_link
  <1>3. /\ new.element = use.element /\ new.mask = use.mask /\ new.elements = use.elements
        /\ new.first = p /\ new.bits = n
    BY BitLinkIs
  <1>4. w \in Positive /\ w \in Nat
    BY BitsOfByte DEF Positive
  <1>5. p = i * w + b
    OBVIOUS
  <1> HIDE DEF new, use, i, b, p, w
  <1>6. p = w * i + b /\ i \in Int
    BY <1>1, <1>4, <1>5
  <1>7. p \div w = i /\ p % w = b
    BY <1>1, <1>4, <1>6, Quotient
  <1>8. LinksTo(new, p)
    BY <1>2, <1>3, <1>7 DEF LinksTo, BitAt, w
  <1>9. BitsRead(new) <=> b + n <= w
    <2> DEFINE v == p + n - 1
    <2>1. n \in Nat /\ n > 0 /\ b \in Nat /\ w * i \in Nat
      <3>1. n \in Nat /\ n > 0
        BY DEF Positive
      <3> QED BY <1>1, <1>4, <3>1
    <2>2. v \in Nat /\ (v < w * i + w <=> b + n <= w)
      <3> DEFINE m == w * i
      <3>1. p = m + b /\ m \in Nat
        BY <1>6, <2>1
      <3> HIDE DEF m
      <3>2. v \in Nat /\ (v < m + w <=> b + n <= w)
        BY <1>4, <2>1, <3>1
      <3> QED BY <3>2 DEF m
    <2>3. BitsRead(new) <=> v \div w < i + 1
      BY <1>2, <1>3 DEF BitsRead, w
    <2> HIDE DEF v
    <2> QED BY <1>1, <1>4, <2>2, <2>3, NextWord
  <1> QED BY <1>7, <1>8, <1>9 DEF new, p, w, b

\* Records that share an array of words, by the numbers of their bits: whatever one of them
\* writes, it changes its own bits only, all in elements that the driver reads, and sees
\* them again, but of several bits the first only where it is bit 0 of its word (put_bits,
\* get_bits, analyze_link).
THEOREM IndexedBitsAreOwn ==
    ASSUME NEW type \in WordTypes, NEW tag \in ArraysOf(type),
           NEW link, link.index \in Nat, link.E = FALSE, link.B = NoBit,
           NEW n \in Positive, link.index + n <= tag.elements * WordBits,
           NEW rval \in SUBSET (0 .. n - 1)
    PROVE  /\ BitsPut(tag, BitLink(link, n, link.index), rval)
           /\ BitsRead(BitLink(link, n, link.index))
  <1> DEFINE new == BitLink(link, n, link.index)
  <1>1. LinksTo(new, link.index) /\ BitsRead(new)
    BY IndexLinkIs
  <1>2. new.first = link.index /\ new.bits = n
    BY BitLinkIs
  <1> HIDE DEF new
  <1>3. BitsPut(tag, new, rval)
    <2>1. /\ new.first \in Nat /\ LinksTo(new, new.first) /\ new.bits \in Positive
          /\ new.first + new.bits <= tag.elements * WordBits
          /\ rval \in SUBSET (0 .. new.bits - 1)
      BY <1>1, <1>2
    <2> QED BY <2>1, LinkPuts
  <1> QED BY <1>1, <1>3 DEF new

\* Bits that are named by their element and a B flag are put and seen in the same way, and go
\* on in the next element; but that one is not read, so that the driver only reads them all if
\* they have room in the first (put_bits, get_bits, analyze_link).
THEOREM FlaggedBitsAreOwn ==
    ASSUME NEW type \in WordTypes, NEW tag \in ArraysOf(type),
           NEW link, link.index \in Nat, link.E = FALSE, link.B \in 0 .. WordBits - 1,
           NEW n \in Positive, link.index * WordBits + link.B + n <= tag.elements * WordBits,
           NEW rval \in SUBSET (0 .. n - 1)
    PROVE  /\ BitsPut(tag, BitLink(link, n, link.index * WordBits + link.B), rval)
           /\ BitsRead(BitLink(link, n, link.index * WordBits + link.B))
                <=> link.B + n <= WordBits
  <1> DEFINE p == link.index * WordBits + link.B
             new == BitLink(link, n, p)
  <1>1. LinksTo(new, p) /\ (BitsRead(new) <=> link.B + n <= WordBits)
    BY BLinkIs
  <1>2. new.first = p /\ new.bits = n
    BY BitLinkIs
  <1>3. p \in Nat
    <2>1. \A a, b \in Nat : a * b \in Nat
      OBVIOUS
    <2>2. WordBits \in Nat /\ link.B \in Nat
      BY BitsOfByte
    <2> QED BY <2>1, <2>2
  <1>4. p + n <= tag.elements * WordBits
    OBVIOUS
  <1> HIDE DEF new, p
  <1>5. BitsPut(tag, new, rval)
    <2>1. /\ new.first \in Nat /\ LinksTo(new, new.first) /\ new.bits \in Positive
          /\ new.first + new.bits <= tag.elements * WordBits
          /\ rval \in SUBSET (0 .. new.bits - 1)
      BY <1>1, <1>2, <1>3, <1>4
    <2> QED BY <2>1, LinkPuts
  <1> QED BY <1>1, <1>5 DEF new, p

-----------------------------------------------------------------------------
(* The bit of a BOOL *)

LEMMA PutOne ==
    ASSUME NEW tag, NEW link, NEW rval
    PROVE  /\ MaskOf(link, 0) = [element |-> link.element, mask |-> link.mask]
           /\ put_bits(tag, link, 1, rval) = PutAt(tag, MaskOf(link, 0), 0 \in rval)
  <1>1. MaskOf(link, 0) = [element |-> link.element, mask |-> link.mask]
    <2> DEFINE m == [element |-> link.element, mask |-> link.mask]
               Is(g) == g = [j \in 0 .. 0 |-> IF j = 0 THEN m ELSE NextMask(g[j - 1])]
               h == CHOOSE g : Is(g)
               f == [j \in 0 .. 0 |-> m]
    <2>1. MaskOf(link, 0) = h[0]
      BY DEF MaskOf
    <2>2. Is(f)
      <3>1. \A j \in 0 .. 0 : j = 0
        OBVIOUS
      <3> QED BY <3>1
    <2>3. Is(h)
      BY <2>2
    <2> HIDE DEF h
    <2>4. h[0] = m
      <3>1. 0 \in 0 .. 0
        OBVIOUS
      <3> QED BY <2>3, <3>1
    <2> QED BY <2>1, <2>4
  <1>2. put_bits(tag, link, 1, rval) = PutAt(tag, MaskOf(link, 0), 0 \in rval)
    <2> DEFINE next(x, j) == PutAt(x, MaskOf(link, j - 1), (j - 1) \in rval)
               Is(g) == g = [j \in 0 .. 1 |-> IF j = 0 THEN tag ELSE next(g[j - 1], j)]
               h == CHOOSE g : Is(g)
               f == [j \in 0 .. 1 |-> IF j = 0 THEN tag ELSE next(tag, j)]
    <2>1. put_bits(tag, link, 1, rval) = h[1]
      BY DEF put_bits
    <2>2. next(tag, 1) = PutAt(tag, MaskOf(link, 0), 0 \in rval)
      <3>1. 1 - 1 = 0
        OBVIOUS
      <3> QED BY <3>1, Zenon
    <2> HIDE DEF next
    <2>3. Is(f)
      <3>1. ASSUME NEW j \in 0 .. 1, j # 0
            PROVE  f[j - 1] = tag
        <4>1. j - 1 = 0 /\ 0 \in 0 .. 1
          BY <3>1
        <4> QED BY <4>1
      <3>2. \A j \in 0 .. 1 : f[j] = IF j = 0 THEN tag ELSE next(f[j - 1], j)
        BY <3>1
      <3>3. f = [j \in 0 .. 1 |-> f[j]]
        OBVIOUS
      <3> HIDE DEF f
      <3> QED BY <3>2, <3>3
    <2>4. Is(h)
      BY <2>3
    <2> HIDE DEF h
    <2>5. h[0] = tag /\ h[1] = next(h[1 - 1], 1)
      <3>1. 0 \in 0 .. 1 /\ 1 \in 0 .. 1 /\ 1 # 0
        OBVIOUS
      <3> QED BY <2>4, <3>1
    <2>6. h[1] = next(tag, 1)
      <3>1. 1 - 1 = 0
        OBVIOUS
      <3> QED BY <2>5, <3>1
    <2> QED BY <2>1, <2>2, <2>6
  <1> QED BY <1>1, <1>2

\* One byte is the number that it holds.
LEMMA OneByte ==
    ASSUME NEW type \in Sized, CIP_Type_size(type) = 1, NEW tag \in ArraysOf(type),
           NEW element \in 0 .. tag.elements - 1
    PROVE  Unsigned(tag, element, 1) \in ByteValue
  <1>1. PICK f : f \in [1 .. 1 + 1 -> Nat] /\ FromByte(tag, element, 1, f)
    <2>1. \E f : f \in [1 .. CIP_Type_size(type) + 1 -> Nat]
                    /\ FromByte(tag, element, CIP_Type_size(type), f)
      BY TailExists
    <2> QED BY <2>1
  <1>2. Unsigned(tag, element, 1) = f[1]
    BY <1>1, UnsignedIs
  <1>3. f[1 + 1] = 0 /\ f[1] = tag.bytes[Offset(tag, element) + 1] + ByteValues * f[1 + 1]
    <2>1. 1 \in 1 .. 1
      OBVIOUS
    <2> QED BY <1>1, <2>1 DEF FromByte
  <1>4. tag.bytes[Offset(tag, element) + 1] \in ByteValue
    <2>1. 1 \in 1 .. CIP_Type_size(type)
      OBVIOUS
    <2> QED BY <2>1, Places
  <1>5. f[1] = tag.bytes[Offset(tag, element) + 1]
    <2>1. tag.bytes[Offset(tag, element) + 1] \in Int /\ ByteValues \in Int
      BY <1>4, ByteValuesIs DEF Positive, ByteValue
    <2> QED BY <1>3, <2>1
  <1> QED BY <1>2, <1>4, <1>5

\* Without an index a link names a BOOL: what is written to it is read again.
THEOREM BoolComesBack ==
    ASSUME NEW tag \in ArraysOf("BOOL"), tag.elements > 0, NEW rval \in SUBSET {0}
    PROVE  BoolPut(tag, rval)
  <1> DEFINE mask == 0 .. ByteBits - 1
             m == [element |-> 0, mask |-> mask]
             on == 0 \in rval
             word == PutBit(Word(tag, 0), mask, on)
             v == Number(word)
             new == Pack(tag, 0, 1, v)
  <1>1. /\ "BOOL" \in Sized /\ CIP_Type_size("BOOL") = 1 /\ 0 \in 0 .. tag.elements - 1
        /\ tag.type = "BOOL"
    <2>1. tag.type = "BOOL" /\ tag.elements \in Nat
      BY ArrayIs
    <2>2. "BOOL" \in Sized /\ CIP_Type_size("BOOL") = 1
      BY Sizes DEF Sized
    <2> QED BY <2>1, <2>2
  <1>2. BoolLink.element = 0 /\ BoolLink.mask = mask
    <2>1. /\ Plain.index = NoIndex /\ Plain.B = NoBit /\ 1 > 0 /\ 0 + 1 - 1 = 0
      BY DEF Plain
    <2>2. analyze_link(Plain, 1, 1).element = 0 \div WordBits
          /\ analyze_link(Plain, 1, 1).mask = mask
      BY <2>1 DEF analyze_link
    <2>3. 0 \div WordBits = 0
      <3>1. WordBits \in Positive /\ 0 = WordBits * 0 + 0 /\ 0 \in 0 .. WordBits - 1
        BY BitsOfByte DEF Positive
      <3> QED BY <3>1, Quotient
    <2>4. /\ BoolLink.element = analyze_link(Plain, 1, 1).element
          /\ BoolLink.mask = analyze_link(Plain, 1, 1).mask
      BY BitLinkIs DEF BoolLink
    <2> QED BY <2>2, <2>3, <2>4
  <1>3. put_bits(tag, BoolLink, 1, rval) = PutAt(tag, m, on)
    BY <1>2, PutOne
  <1>4. PutAt(tag, m, on) = new
    <2>1. put_CIP_UDINT(tag, 0, v) = Pack(tag, 0, CIP_Type_size(tag.type), v)
      BY <1>1 DEF put_CIP_UDINT, put_CIP_DINT
    <2> QED BY <1>1, <2>1 DEF PutAt
  <1>5. ASSUME NEW t \in ArraysOf("BOOL"), 0 \in 0 .. t.elements - 1
        PROVE  Word(t, 0) = BitsOf(Unsigned(t, 0, 1), WordBits)
    <2>1. t.type = "BOOL"
      BY ArrayIs
    <2>2. get_CIP_UDINT(t, 0) = Got(Unsigned(t, 0, 1))
      BY <2>1 DEF get_CIP_UDINT
    <2> QED BY <2>2 DEF Word, Got
  <1>6. ByteBits \in 0 .. MaxBits /\ WordBits \in 0 .. MaxBits /\ ByteBits <= WordBits
        /\ mask \subseteq 0 .. WordBits - 1 /\ 0 \in mask
    BY BitsOfByte
  <1>7. Word(tag, 0) \subseteq mask
    <2> DEFINE u == Unsigned(tag, 0, 1)
    <2>1. u \in 0 .. Two[ByteBits] - 1
      BY <1>1, OneByte, ByteValuesIs DEF ByteValue
    <2>2. Word(tag, 0) = BitsOf(u, WordBits)
      BY <1>1, <1>5
    <2> HIDE DEF u
    <2>3. ASSUME NEW b \in 0 .. WordBits - 1, b \notin mask
          PROVE  (u \div Two[b]) % 2 # 1
      <3>1. b \in ByteBits .. MaxBits
        BY <2>3, BitsOfByte
      <3>2. u \div Two[b] = 0
        BY <1>6, <2>1, <3>1, HighBits
      <3> QED BY <3>2
    <2> QED BY <2>2, <2>3 DEF BitsOf
  <1>8. word = IF on THEN mask ELSE {}
    BY <1>7 DEF PutBit
  <1> HIDE DEF mask, word
  <1>9. word \subseteq mask
    BY <1>8
  <1>10. v \in 0 .. Two[ByteBits] - 1 /\ BitsOf(v, WordBits) = word
    <2>1. v \in 0 .. Two[ByteBits] - 1
      BY <1>6, <1>9, NumberSmall DEF mask
    <2>2. word \subseteq 0 .. WordBits - 1
      BY <1>6, <1>9
    <2>3. BitsOf(v, WordBits) = word
      BY <1>6, <2>2, BitsOfNumber
    <2> QED BY <2>1, <2>3
  <1>11. Two[ByteBits] \in Positive
    BY <1>6, TwoIs
  <1> HIDE DEF v
  <1>12. v \in Int /\ v % Two[ByteBits] = v
    <2>1. v \in Int /\ v = Two[ByteBits] * 0 + v
      BY <1>10, <1>11 DEF Positive
    <2> QED BY <1>10, <1>11, <2>1, Quotient
  <1>13. Packed("BOOL", tag, 0, v, new)
    <2>1. Packed("BOOL", tag, 0, v, Pack(tag, 0, CIP_Type_size("BOOL"), v))
      BY <1>1, <1>12, PackIs
    <2> QED BY <1>1, <2>1
  <1> HIDE DEF new
  <1>14. new \in ArraysOf("BOOL") /\ new.elements = tag.elements /\ Unsigned(new, 0, 1) = v
    <2>1. 1 * ByteBits = ByteBits
      BY BitsOfByte
    <2> QED BY <1>1, <1>12, <1>13, <2>1 DEF Packed
  <1>15. Word(new, 0) = word
    BY <1>1, <1>5, <1>10, <1>14
  <1>16. get_bits(new, BoolLink, 1) = {i \in 0 .. 1 - 1 : Meets(word, mask)}
    <2>1. ~(0 > 0) /\ \A i \in 0 .. 1 - 1 : i = 0
      OBVIOUS
    <2> QED BY <1>2, <1>15, <2>1 DEF get_bits
  <1>17. Meets(word, mask) <=> on
    BY <1>6, <1>8 DEF Meets
  <1>18. get_bits(new, BoolLink, 1) = rval
    <2>1. 0 .. 1 - 1 = {0}
      OBVIOUS
    <2> QED BY <1>16, <1>17, <2>1
  <1> QED BY <1>3, <1>4, <1>18 DEF BoolPut

-----------------------------------------------------------------------------
(* The arrays and links of DataChecks *)

LEMMA ArraysAre ==
    ASSUME NEW type \in Sized, NEW tag \in Arrays(type)
    PROVE  tag \in ArraysOf(type) /\ tag.elements = NElements
  <1> DEFINE l == NElements * CIP_Type_size(type)
  <1>1. l \in Nat
    BY Sizes DEF NElements
  <1>2. ByteValues \in Nat /\ ByteValues >= 2
    <2>1. ByteBits \in 1 .. MaxBits /\ ByteBits - 1 \in 0 .. MaxBits
      BY BitsOfByte
    <2>2. Two[ByteBits] = 2 * Two[ByteBits - 1] /\ Two[ByteBits - 1] \in Positive
      BY <2>1, TwoIs
    <2> QED BY <2>2, ByteValuesIs DEF Positive
  <1>3. {0, 1, ByteValues - 1, ByteValues - 2} \subseteq ByteValue
    BY <1>2 DEF ByteValue
  <1>4. PICK a, b \in ByteValue : tag = ArrayOf(type, <<a, b>>)
    <2>1. \/ tag = ArrayOf(type, <<0, 0>>)
          \/ tag = ArrayOf(type, <<ByteValues - 1, ByteValues - 1>>)
          \/ tag = ArrayOf(type, <<1, ByteValues - 2>>)
      BY DEF Arrays
    <2> QED BY <1>3, <2>1
  <1> DEFINE pattern == <<a, b>>
             bytes == [i \in 1 .. l |-> pattern[1 + (i % 2)]]
  <1>5. tag = [type |-> type, valid |-> TRUE, elements |-> NElements, bytes |-> bytes]
    BY <1>4 DEF ArrayOf
  <1>6. bytes \in [1 .. l -> ByteValue]
    <2>1. ASSUME NEW i \in 1 .. l
          PROVE  pattern[1 + (i % 2)] \in ByteValue
      <3>1. 1 + (i % 2) \in {1, 2}
        BY <1>1
      <3>2. pattern[1] = a /\ pattern[2] = b
        OBVIOUS
      <3> HIDE DEF pattern
      <3> QED BY <3>1, <3>2
    <2> HIDE DEF pattern
    <2> QED BY <2>1
  <1> HIDE DEF bytes
  <1>7. bytes \in Seq(ByteValue) /\ Len(bytes) = l
    <2> HIDE DEF l
    <2> QED BY <1>1, <1>6, FunctionIsSeq
  <1>8. NElements \in Nat
    BY DEF NElements
  <1> QED BY <1>5, <1>7, <1>8 DEF ArraysOf

\* What DataChecks says of the bits (put_bits, get_bits, analyze_link).
THEOREM AllBitsAreOwn == BitsAreOwnHolds
  <1>1. "DINT" \in WordTypes /\ "DINT" \in Sized /\ "BOOL" \in Sized
    BY DEF WordTypes, Sized
  <1>2. WordBits \in Nat /\ WordBits >= 8
    BY BitsOfByte
  <1>3. ASSUME NEW i \in 0 .. 2 * WordBits - 1, NEW n \in 1 .. 4, NEW tag \in Arrays("DINT"),
               NEW rval \in SUBSET (0 .. n - 1)
        PROVE  /\ BitsPut(tag, IndexLink(i, n), rval)
               /\ BitsRead(IndexLink(i, n))
    <2> DEFINE link == [Plain EXCEPT !.index = i]
    <2>1. link.index = i /\ link.E = FALSE /\ link.B = NoBit
      BY Zenon DEF Plain
    <2>2. tag \in ArraysOf("DINT") /\ tag.elements = 3
      BY <1>1, ArraysAre DEF NElements
    <2>3. i \in Nat /\ n \in Positive /\ i + n <= tag.elements * WordBits
      BY <1>2, <2>2 DEF Positive
    <2> HIDE DEF link
    <2> QED BY <1>1, <2>1, <2>2, <2>3, IndexedBitsAreOwn DEF link, IndexLink
  <1>4. ASSUME NEW e \in 0 .. 1, NEW b \in 0 .. WordBits - 1, NEW n \in 1 .. 4,
               NEW tag \in Arrays("DINT"), NEW rval \in SUBSET (0 .. n - 1)
        PROVE  BitsPut(tag, BLink(e, b, n), rval)
    <2> DEFINE link == [Plain EXCEPT !.index = e, !.B = b]
    <2>1. link.index = e /\ link.E = FALSE /\ link.B = b
      BY Zenon DEF Plain
    <2>2. tag \in ArraysOf("DINT") /\ tag.elements = 3
      BY <1>1, ArraysAre DEF NElements
    <2>3. e \in Nat /\ n \in Positive /\ e * WordBits + b + n <= tag.elements * WordBits
      <3>1. e = 0 \/ e = 1
        OBVIOUS
      <3>2. e * WordBits <= WordBits /\ e * WordBits \in Nat
        BY <1>2, <3>1
      <3>3. e * WordBits + b + n <= 3 * WordBits
        BY <1>2, <3>2
      <3> QED BY <2>2, <3>3 DEF Positive
    <2> HIDE DEF link
    <2>4. BitsPut(tag, BitLink(link, n, link.index * WordBits + link.B), rval)
      <3>1. link.index \in Nat /\ link.B \in 0 .. WordBits - 1
            /\ link.index * WordBits + link.B + n <= tag.elements * WordBits
        BY <2>1, <2>3
      <3> QED BY <1>1, <2>1, <2>2, <2>3, <3>1, FlaggedBitsAreOwn
    <2> QED BY <2>1, <2>4 DEF link, BLink
  <1>5. ASSUME NEW tag \in Arrays("BOOL"), NEW rval \in SUBSET {0}
        PROVE  BoolPut(tag, rval)
    <2>1. tag \in ArraysOf("BOOL") /\ tag.elements > 0
      BY <1>1, ArraysAre DEF NElements
    <2> QED BY <2>1, BoolComesBack
  <1>6. ASSUME NEW tag \in Arrays("DINT"), NEW link \in IndexLinks \cup BLinks,
               NEW rval \in SUBSET (0 .. link.bits - 1)
        PROVE  BitsPut(tag, link, rval)
    <2>1. CASE link \in IndexLinks
      <3>1. PICK i \in 0 .. 2 * WordBits - 1, n \in 1 .. 4 :
                link = IndexLink(i, n)
        BY <2>1 DEF IndexLinks
      <3>2. link.bits = n
        BY <3>1, BitLinkIs DEF IndexLink
      <3> QED BY <1>3, <3>1, <3>2
    <2>2. CASE link \in BLinks
      <3>1. PICK e \in 0 .. 1, b \in 0 .. WordBits - 1, n \in 1 .. 4 :
                link = BLink(e, b, n)
        BY <2>2 DEF BLinks
      <3>2. link.bits = n
        BY <3>1, BitLinkIs DEF BLink
      <3> QED BY <1>4, <3>1, <3>2
    <2> QED BY <2>1, <2>2
  <1>7. ASSUME NEW link \in IndexLinks
        PROVE  BitsRead(link)
    <2>1. PICK i \in 0 .. 2 * WordBits - 1, n \in 1 .. 4 :
              link = IndexLink(i, n)
      BY DEF IndexLinks
    <2> DEFINE text == [Plain EXCEPT !.index = i]
    <2>2. text.index = i /\ text.E = FALSE /\ text.B = NoBit
      BY Zenon DEF Plain
    <2>3. i \in Nat /\ n \in Positive
      BY <1>2 DEF Positive
    <2>4. link = BitLink(text, n, text.index)
      BY <2>1, <2>2 DEF IndexLink
    <2> HIDE DEF text
    <2>5. BitsRead(BitLink(text, n, text.index))
      BY <2>2, <2>3, IndexLinkIs
    <2> QED BY <2>4, <2>5
  <1>8. ASSUME NEW link \in BLinks
        PROVE  BitsRead(link) <=> (link.first % WordBits) + link.bits <= WordBits
    <2>1. PICK e \in 0 .. 1, b \in 0 .. WordBits - 1, n \in 1 .. 4 :
              link = BLink(e, b, n)
      BY DEF BLinks
    <2> DEFINE text == [Plain EXCEPT !.index = e, !.B = b]
    <2>2. text.index = e /\ text.E = FALSE /\ text.B = b
      BY Zenon DEF Plain
    <2>3. e \in Nat /\ n \in Positive
      BY <1>2 DEF Positive
    <2>4. link = BitLink(text, n, text.index * WordBits + text.B)
      BY <2>1, <2>2 DEF BLink
    <2> HIDE DEF text
    <2>5. link.bits = n /\ link.first = text.index * WordBits + text.B
      BY <2>4, BitLinkIs
    <2>6. /\ BitsRead(link) <=> text.B + n <= WordBits
          /\ (text.index * WordBits + text.B) % WordBits = text.B
      BY <2>2, <2>3, <2>4, BLinkIs
    <2> QED BY <2>5, <2>6
  <1> QED BY <1>5, <1>6, <1>7, <1>8 DEF BitsAreOwnHolds

-----------------------------------------------------------------------------
(* Numbers *)

NumberTypes == {"SINT", "INT", "DINT", "BITS", "LINT"}

KindOf(type) == IF type = "LINT" THEN "int64out" ELSE "ao"

\* The number that the bytes of a type stand for, read as u without a sign.
Seen(type, u) ==
    IF type = "SINT" THEN u
    ELSE LET half == Two[CIP_Type_size(type) * ByteBits - 1]
         IN  ((u + half) % Two[CIP_Type_size(type) * ByteBits]) - half

LEMMA NumberAccess ==
    ASSUME NEW type \in NumberTypes, NEW tag \in ArraysOf(type), NEW use,
           use.element \in 0 .. tag.elements - 1, NEW v
    PROVE  /\ type \in Sized /\ HasData(tag, use)
           /\ Reads(KindOf(type), tag, use) = Got(Seen(type, Unsigned(tag, use.element, CIP_Type_size(type))))
           /\ Write(KindOf(type), tag, use, v) =
                IF Reads(KindOf(type), tag, use).value # v
                THEN Pack(tag, use.element, CIP_Type_size(type), v) ELSE tag
  <1> DEFINE n == CIP_Type_size(type)
             e == use.element
             kind == KindOf(type)
  <1>1. type \in Sized /\ tag.type = type /\ tag.elements \in Nat /\ tag.valid = TRUE
    BY ArrayIs DEF NumberTypes, Sized
  <1>2. HasData(tag, use)
    <2>1. tag.elements > use.element
      BY <1>1
    <2> QED BY <1>1, <2>1 DEF HasData
  <1>3. Reads(kind, tag, use) = IF type = "LINT" THEN get_CIP_LINT(tag, e) ELSE get_CIP_DINT(tag, e)
    BY DEF Reads, KindOf
  <1>4. Reads(kind, tag, use) = Got(Seen(type, Unsigned(tag, e, n)))
    <2> HIDE DEF kind, e
    <2>1. CASE type = "SINT"
      BY <1>1, <1>3, <2>1, Sizes DEF get_CIP_DINT, Seen
    <2>2. CASE type = "INT"
      BY <1>1, <1>3, <2>2, Sizes DEF get_CIP_DINT, Seen, Signed
    <2>3. CASE type \in {"DINT", "BITS"}
      <3>1. n = 4
        BY <2>3, Sizes
      <3>2. get_CIP_DINT(tag, e) = Got(Signed(tag, e, 4)) /\ type # "LINT" /\ type # "SINT"
        BY <1>1, <2>3 DEF get_CIP_DINT
      <3> HIDE DEF n
      <3> QED BY <1>3, <3>1, <3>2 DEF Seen, Signed, n
    <2>4. CASE type = "LINT"
      <3>1. n = 8
        BY <2>4, Sizes
      <3>2. get_CIP_LINT(tag, e) = Got(Signed(tag, e, 8))
        BY <1>1, <2>4 DEF get_CIP_LINT
      <3> HIDE DEF n
      <3> QED BY <1>3, <2>4, <3>1, <3>2 DEF Seen, Signed, n
    <2> QED BY <2>1, <2>2, <2>3, <2>4 DEF NumberTypes
  <1>5. Reads(kind, tag, use).ok
    <2>1. \A x : Got(x).ok
      BY DEF Got
    <2> HIDE DEF kind, e, n
    <2> QED BY <1>4, <2>1
  <1>6. NeedsWrite(kind, tag, use, v) <=> Reads(kind, tag, use).value # v
    BY <1>2, <1>5 DEF NeedsWrite
  <1>7. Write(kind, tag, use, v) = IF NeedsWrite(kind, tag, use, v) THEN Pack(tag, e, n, v) ELSE tag
    <2>1. CASE type = "LINT"
      <3>1. n = 8 /\ kind = "int64out"
        BY <2>1, Sizes DEF KindOf
      <3> HIDE DEF n, kind
      <3>2. put_CIP_LINT(tag, e, v) = Pack(tag, e, n, v)
        BY <1>1, <2>1, <3>1 DEF put_CIP_LINT
      <3>3. Write(kind, tag, use, v) = int64out_write(tag, use, v)
        BY <3>1 DEF Write
      <3> QED BY <3>1, <3>2, <3>3 DEF int64out_write
    <2>2. CASE type # "LINT"
      <3>1. kind = "ao"
        BY <2>2 DEF KindOf
      <3> HIDE DEF n, kind
      <3>2. put_CIP_DINT(tag, e, v) = Pack(tag, e, n, v)
        BY <1>1, <2>2 DEF put_CIP_DINT, n, NumberTypes
      <3>3. Write(kind, tag, use, v) = ao_write(tag, use, v)
        BY <3>1 DEF Write
      <3> QED BY <3>1, <3>2, <3>3 DEF ao_write
    <2> QED BY <2>1, <2>2
  <1> QED BY <1>1, <1>2, <1>4, <1>6, <1>7

\* A number that fits with its sign comes back from its bytes.
LEMMA Wraps ==
    ASSUME NEW half \in Positive, NEW v \in -half .. half - 1
    PROVE  (((v % (2 * half)) + half) % (2 * half)) - half = v
  <1> DEFINE m == 2 * half
  <1>1. m \in Positive /\ m \in Nat /\ half \in Nat /\ v \in Int
    BY DEF Positive
  <1>2. v % m = IF v >= 0 THEN v ELSE v + m
    <2>1. CASE v >= 0
      <3>1. v \in 0 .. m - 1 /\ v = m * 0 + v
        BY <1>1, <2>1
      <3> HIDE DEF m
      <3> QED BY <1>1, <2>1, <3>1, Quotient
    <2>2. CASE ~(v >= 0)
      <3>1. v + m \in 0 .. m - 1 /\ v = m * (-1) + (v + m)
        BY <1>1, <2>2
      <3> HIDE DEF m
      <3>2. -1 \in Int /\ \A r \in 0 .. m - 1 : (m * (-1) + r) % m = r
        BY <1>1, Quotient
      <3> QED BY <2>2, <3>1, <3>2
    <2> QED BY <2>1, <2>2
  <1>3. (v + half) % m = v + half
    <2> DEFINE r == v + half
    <2>1. r \in 0 .. m - 1 /\ r = m * 0 + r
      BY <1>1
    <2> HIDE DEF m, r
    <2> QED BY <1>1, <2>1, Quotient DEF r
  <1>4. ((v + m) + half) % m = v + half
    <2> DEFINE r == v + half
    <2>1. r \in 0 .. m - 1 /\ (v + m) + half = m * 1 + r
      BY <1>1
    <2> HIDE DEF m, r
    <2>2. (m * 1 + r) % m = r
      BY <1>1, <2>1, Quotient
    <2> QED BY <2>1, <2>2 DEF r
  <1> HIDE DEF m
  <1>5. (((v % m) + half) % m) = v + half
    BY <1>2, <1>3, <1>4
  <1>6. (((v % m) + half) % m) - half = v
    BY <1>1, <1>5
  <1> QED BY <1>6 DEF m

LEMMA SeenOfValue ==
    ASSUME NEW type \in NumberTypes, NEW v \in Values(type)
    PROVE  v \in Int /\ Seen(type, v % Two[CIP_Type_size(type) * ByteBits]) = v
  <1> DEFINE n == CIP_Type_size(type)
             bits == n * ByteBits
  <1>1. n \in 1 .. 8
    BY Sizes DEF NumberTypes, Sized
  <1>2. bits \in 1 .. MaxBits
    <2> HIDE DEF n
    <2>1. bits \in 0 .. MaxBits
      <3>1. n \in 0 .. n
        BY <1>1
      <3> QED BY <1>1, <3>1, Multiples
    <2>2. \A a \in 1 .. 8, b \in Nat : b >= 2 => a * b >= 2
      OBVIOUS
    <2>3. bits >= 2
      BY <1>1, <2>2, BitsOfByte
    <2> QED BY <2>1, <2>3
  <1>3. CASE type = "SINT"
    <2>1. v \in 0 .. ByteValues - 1
      BY <1>3 DEF Values
    <2>2. n = 1
      BY <1>3, Sizes
    <2>3. bits = ByteBits
      BY <2>2, BitsOfByte
    <2> HIDE DEF bits, n
    <2>4. v % Two[bits] = v /\ v \in Int
      <3>1. v \in Int /\ Two[bits] \in Positive /\ v \in 0 .. Two[bits] - 1 /\ v = Two[bits] * 0 + v
        BY <2>1, <2>3, ByteValuesIs DEF Positive
      <3> QED BY <3>1, Quotient
    <2>5. Seen(type, v % Two[bits]) = v
      BY <1>3, <2>4 DEF Seen
    <2> QED BY <2>4, <2>5 DEF bits, n
  <1>4. CASE type # "SINT"
    <2> DEFINE half == Two[bits - 1]
    <2>1. v \in -half .. half - 1
      BY <1>4 DEF Values
    <2>2. Seen(type, v % Two[bits]) = (((v % Two[bits]) + half) % Two[bits]) - half
      BY <1>4 DEF Seen
    <2> HIDE DEF bits, n
    <2>3. half \in Positive /\ Two[bits] = 2 * half
      <3>1. bits - 1 \in 0 .. MaxBits
        BY <1>2, BitsOfByte
      <3> QED BY <1>2, <3>1, TwoIs
    <2> HIDE DEF half
    <2>4. v \in Int /\ (((v % (2 * half)) + half) % (2 * half)) - half = v
      BY <2>1, <2>3, Wraps DEF Positive
    <2> QED BY <2>2, <2>3, <2>4 DEF bits, n
  <1> QED BY <1>3, <1>4

\* A value that its type can hold arrives in its own element, comes back as the same value,
\* and leaves what the other elements hold (ao_write, int64out_write, put_CIP_DINT,
\* put_CIP_LINT, get_CIP_DINT, get_CIP_LINT).
THEOREM NumbersComeBack ==
    ASSUME NEW type \in NumberTypes, NEW tag \in ArraysOf(type), NEW use,
           use.element \in 0 .. tag.elements - 1, NEW v \in Values(type)
    PROVE  LET kind == KindOf(type)
               new == Write(kind, tag, use, v)
           IN  /\ new \in ArraysOf(type) /\ new.elements = tag.elements
               /\ Reads(kind, new, use) = Got(v)
               /\ \A other \in (0 .. tag.elements - 1) \ {use.element} :
                    Reads(kind, new, At(other)) = Reads(kind, tag, At(other))
  <1> DEFINE kind == KindOf(type)
             n == CIP_Type_size(type)
             e == use.element
             new == Write(kind, tag, use, v)
             pack == Pack(tag, e, n, v)
  <1>1. v \in Int /\ Seen(type, v % Two[n * ByteBits]) = v
    BY SeenOfValue
  <1>2. /\ type \in Sized
        /\ Reads(kind, tag, use) = Got(Seen(type, Unsigned(tag, e, n)))
        /\ new = IF Reads(kind, tag, use).value # v THEN pack ELSE tag
    BY NumberAccess
  <1>3. CASE Reads(kind, tag, use).value = v
    <2>1. new = tag
      BY <1>2, <1>3
    <2>2. Reads(kind, tag, use) = Got(v)
      <3>1. Reads(kind, tag, use).value = Seen(type, Unsigned(tag, e, n))
        BY <1>2 DEF Got
      <3> QED BY <1>2, <1>3, <3>1
    <2> HIDE DEF new
    <2> QED BY <2>1, <2>2 DEF new
  <1>4. CASE Reads(kind, tag, use).value # v
    <2>1. new = pack
      BY <1>2, <1>4
    <2>2. Packed(type, tag, e, v, pack)
      <3> HIDE DEF e
      <3>1. e \in 0 .. tag.elements - 1
        BY DEF e
      <3> QED BY <1>1, <1>2, <3>1, PackIs
    <2> HIDE DEF new, pack
    <2>3. new \in ArraysOf(type) /\ new.elements = tag.elements
          /\ Unsigned(new, e, n) = v % Two[n * ByteBits]
          /\ \A d \in 0 .. tag.elements - 1 : d # e => Unsigned(new, d, n) = Unsigned(tag, d, n)
      BY <2>1, <2>2 DEF Packed
    <2>4. ASSUME NEW d \in 0 .. tag.elements - 1
          PROVE  /\ Reads(kind, new, At(d)) = Got(Seen(type, Unsigned(new, d, n)))
                 /\ Reads(kind, tag, At(d)) = Got(Seen(type, Unsigned(tag, d, n)))
      <3>1. At(d).element = d
        BY DEF At
      <3> QED BY <2>3, <3>1, NumberAccess
    <2>5. Reads(kind, new, use) = Got(Seen(type, Unsigned(new, e, n)))
      BY <2>3, NumberAccess
    <2>6. Reads(kind, new, use) = Got(v)
      BY <1>1, <2>3, <2>5
    <2>7. \A other \in (0 .. tag.elements - 1) \ {e} :
             Reads(kind, new, At(other)) = Reads(kind, tag, At(other))
      BY <2>3, <2>4
    <2> QED BY <2>3, <2>6, <2>7 DEF new
  <1> QED BY <1>3, <1>4

-----------------------------------------------------------------------------
(* Records and their callbacks *)

BitKinds == {"bo", "mbbo", "mbboDirect"}

LEMMA BitsSeen ==
    ASSUME NEW kind \in BitKinds, NEW tag, NEW use, use.bits \in 0 .. MaxBits
    PROVE  /\ Reads(kind, tag, use).ok <=> get_CIP_UDINT(tag, use.element).ok
           /\ Reads(kind, tag, use).ok =>
                /\ Reads(kind, tag, use) = Got(Number(get_bits(tag, use, use.bits)))
                /\ Reads(kind, tag, use).value = Number(get_bits(tag, use, use.bits))
                /\ Number(get_bits(tag, use, use.bits)) \in 0 .. Two[use.bits] - 1
                /\ get_bits(tag, use, use.bits) \subseteq 0 .. use.bits - 1
  <1> DEFINE word == get_bits(tag, use, use.bits)
             known == get_CIP_UDINT(tag, use.element)
  <1>1. Reads(kind, tag, use) = IF known.ok THEN Got(Number(word)) ELSE None
    BY DEF Reads, BitKinds
  <1>2. word \subseteq 0 .. use.bits - 1
    BY DEF get_bits
  <1> HIDE DEF word, known
  <1>3. Number(word) \in 0 .. Two[use.bits] - 1
    <2> DEFINE bits == use.bits
    <2>1. bits \in 0 .. MaxBits /\ word \subseteq 0 .. bits - 1
      BY <1>2
    <2> HIDE DEF bits
    <2>2. Number(word) \in 0 .. Two[bits] - 1
      BY <2>1, NumberSmall
    <2> QED BY <2>2 DEF bits
  <1>4. ~None.ok /\ \A x : Got(x).ok /\ Got(x).value = x
    BY DEF None, Got
  <1> QED BY <1>1, <1>2, <1>3, <1>4 DEF word, known

\* A record has a VAL for what it sees: a number; one bit; a state that fits, or up to 16 bits
\* without states; up to 16 bits one by one. Without a state that fits the VAL of an mbbo is
\* NoState.
HasVal(kind, tag, use) ==
    \/ kind \in {"ao", "int64out"}
    \/ kind = "bo" /\ use.bits = 1
    \/ kind = "mbbo" /\ use.bits \in 0 .. 16 /\ use.states = <<>>
    \/ kind = "mbbo" /\ use.bits \in 0 .. MaxBits /\
          /\ use.states # <<>> /\ DOMAIN use.states \subseteq Nat \ {NoState}
             /\ \E i \in DOMAIN use.states : use.states[i] = Reads(kind, tag, use).value
    \/ kind = "mbboDirect" /\ use.bits \in 0 .. 16

LEMMA SmallPowers == Two[1] = 2 /\ Two[2] = 4 /\ Two[3] = 8 /\ Two[4] = 16
  <1>1. /\ 1 \in 1 .. MaxBits /\ 2 \in 1 .. MaxBits /\ 3 \in 1 .. MaxBits /\ 4 \in 1 .. MaxBits
        /\ 1 - 1 = 0 /\ 2 - 1 = 1 /\ 3 - 1 = 2 /\ 4 - 1 = 3
    BY BitsOfByte
  <1>2. Two[1] = 2 * Two[0] /\ Two[2] = 2 * Two[1] /\ Two[3] = 2 * Two[2] /\ Two[4] = 2 * Two[3]
    BY <1>1, TwoIs
  <1> QED BY <1>2, TwoIs

LEMMA ValIsSeen ==
    ASSUME NEW kind, NEW tag, NEW use, HasVal(kind, tag, use), Reads(kind, tag, use).ok, NEW rval
    PROVE  ProcessedRval(kind, use.states, ValOf(kind, use.states, Reads(kind, tag, use).value), rval)
              = Reads(kind, tag, use).value
  <1> DEFINE seen == Reads(kind, tag, use).value
             states == use.states
  <1>1. CASE kind \in {"ao", "int64out"}
    BY <1>1 DEF ProcessedRval, ValOf
  <1>2. CASE kind = "bo" /\ use.bits = 1
    <2>1. kind \in BitKinds /\ use.bits \in 0 .. MaxBits
      BY <1>2, BitsOfByte DEF BitKinds
    <2>2. seen \in 0 .. Two[use.bits] - 1
      BY <2>1, BitsSeen
    <2>3. Two[1] = 2
      <3>1. 1 \in 1 .. MaxBits /\ 1 - 1 = 0
        BY BitsOfByte
      <3> QED BY <3>1, TwoIs
    <2>4. seen \in 0 .. 1
      BY <1>2, <2>2, <2>3
    <2> HIDE DEF seen
    <2>5. ProcessedRval(kind, states, ValOf(kind, states, seen), rval) = seen
      BY <1>2, <2>4 DEF ProcessedRval, ValOf, check_bo_callback
    <2> QED BY <2>5 DEF seen
  <1>3. CASE kind = "mbbo" /\ use.bits \in 0 .. 16 /\ states = <<>>
    <2> HIDE DEF states
    <2>1. kind \in BitKinds /\ use.bits \in 0 .. MaxBits /\ 16 \in 0 .. MaxBits
      BY <1>3, BitsOfByte DEF BitKinds
    <2> DEFINE word == get_bits(tag, use, use.bits)
    <2>2. seen = Number(word) /\ word \subseteq 0 .. use.bits - 1
      BY <2>1, BitsSeen
    <2>3. word \subseteq 0 .. 16 - 1
      BY <1>3, <2>2
    <2> HIDE DEF seen, word
    <2>4. seen \in 0 .. Two[16] - 1
      BY <2>1, <2>2, <2>3, NumberSmall
    <2>5. seen % Two[16] = seen
      <3> DEFINE d == Two[16]
      <3>1. d \in Positive /\ seen \in 0 .. d - 1
        BY <2>1, <2>4, TwoIs
      <3> HIDE DEF d
      <3>2. seen \in Int /\ d * 0 + seen = seen
        BY <3>1 DEF Positive
      <3>3. (d * 0 + seen) % d = seen
        BY <3>1, Quotient
      <3> QED BY <3>2, <3>3 DEF d
    <2>6. ProcessedRval(kind, states, ValOf(kind, states, seen), rval) = seen
      BY <1>3, <2>5 DEF ProcessedRval, ValOf, check_mbbo_callback
    <2> QED BY <2>6 DEF seen, states
  <1>4. CASE /\ kind = "mbbo" /\ states # <<>> /\ DOMAIN states \subseteq Nat \ {NoState}
             /\ \E i \in DOMAIN states : states[i] = seen
    <2> HIDE DEF seen, states
    <2> DEFINE fitting == {i \in DOMAIN states : states[i] = seen}
               val == CHOOSE i \in fitting : \A j \in fitting : i <= j
    <2>1. PICK b \in Nat : b \in fitting
      BY <1>4
    <2>2. fitting \subseteq Nat
      BY <1>4
    <2>3. \E i \in fitting : \A j \in fitting : i <= j
      <3> HIDE DEF fitting
      <3>1. PICK e \in Nat : e \in fitting /\ \A i \in Nat : i < e => i \notin fitting
        BY <2>1, Least
      <3>2. \A j \in fitting : e <= j
        BY <2>2, <3>1
      <3> QED BY <3>1, <3>2
    <2>4. val \in fitting
      BY <2>3
    <2>5. fitting # {}
      BY <2>1
    <2>6. ValOf(kind, states, seen) = val
      BY <1>4, <2>5 DEF ValOf, check_mbbo_callback
    <2> HIDE DEF val
    <2>7. states[val] = seen /\ val # NoState
      BY <1>4, <2>4
    <2>8. ProcessedRval(kind, states, val, rval) = states[val]
      BY <1>4, <2>7 DEF ProcessedRval
    <2>9. ProcessedRval(kind, states, ValOf(kind, states, seen), rval) = seen
      BY <2>6, <2>7, <2>8
    <2> QED BY <2>9 DEF seen, states
  <1>5. CASE kind = "mbboDirect" /\ use.bits \in 0 .. 16
    <2>1. kind \in BitKinds /\ use.bits \in 0 .. MaxBits /\ 16 \in 0 .. MaxBits
      BY <1>5, BitsOfByte DEF BitKinds
    <2> DEFINE word == get_bits(tag, use, use.bits)
    <2>2. seen = Number(word) /\ word \subseteq 0 .. use.bits - 1
      BY <2>1, BitsSeen
    <2>3. word \subseteq 0 .. 16 - 1
      BY <1>5, <2>2
    <2> HIDE DEF seen, word
    <2> DEFINE val == [i \in 0 .. 15 |-> i \in BitsOf(seen, 16)]
    <2>4. ValOf(kind, states, seen) = val
      BY <1>5 DEF ValOf, check_mbbo_direct_callback
    <2>5. BitsOf(seen, 16) = word
      BY <2>1, <2>2, <2>3, BitsOfNumber
    <2>6. {i \in 0 .. 15 : val[i]} = word
      <3>1. {i \in 0 .. 15 : val[i]} = {i \in 0 .. 15 : i \in BitsOf(seen, 16)}
        BY Zenon
      <3>2. 16 - 1 = 15
        OBVIOUS
      <3> HIDE DEF val
      <3> QED BY <2>3, <2>5, <3>1, <3>2
    <2>7. ProcessedRval(kind, states, val, rval) = Number({i \in 0 .. 15 : val[i]})
      BY <1>5 DEF ProcessedRval
    <2> HIDE DEF val
    <2>8. ProcessedRval(kind, states, ValOf(kind, states, seen), rval) = seen
      BY <2>2, <2>4, <2>6, <2>7
    <2> QED BY <2>8 DEF seen
  <1> QED BY <1>1, <1>2, <1>3, <1>4, <1>5 DEF HasVal

\* When the PLC changes the value, a record that has a VAL for it takes it over and does not
\* write: ao, int64out, bo on one bit, mbboDirect and an mbbo without states on up to 16 bits,
\* an mbbo with a state that fits. Nor does the callback make it write again after it has
\* written itself, if it has a VAL for what is then in the tag (check_ao_callback and the
\* other callbacks, NeedsWrite of the write routines).
THEOREM RecordsFollow ==
    ASSUME NEW kind, NEW tag, NEW use, HasVal(kind, tag, use), NEW rval
    PROVE  OnlyFollows(kind, tag, use, rval)
  <1> DEFINE seen == Reads(kind, tag, use)
             taken == TakesOver(kind, tag, use, rval)
  <1>1. HasData(tag, use) /\ seen.ok => taken = seen.value
    BY ValIsSeen DEF TakesOver
  <1> HIDE DEF taken
  <1>2. ~NeedsWrite(kind, tag, use, taken)
    BY <1>1 DEF NeedsWrite
  <1> QED BY <1>2 DEF OnlyFollows, taken

\* The second half of this.
THEOREM RecordsSettle ==
    ASSUME NEW kind, NEW tag, NEW use, NEW v, HasVal(kind, Write(kind, tag, use, v), use)
    PROVE  Settles(kind, tag, use, v)
  <1> DEFINE new == Write(kind, tag, use, v)
  <1> HIDE DEF new
  <1>1. HasVal(kind, new, use)
    BY DEF new
  <1>2. OnlyFollows(kind, new, use, v)
    BY <1>1, RecordsFollow
  <1> QED BY <1>2 DEF Settles, OnlyFollows, new

\* A number that fits the bits of a record comes back to it, and to the input record with the
\* same link; if these are several, their first has to be bit 0 of its word (mbbo_write, bo_write,
\* mbbi_read, bi_read, get_bits).
THEOREM BitValuesComeBack ==
    ASSUME NEW kind \in BitKinds, NEW type \in WordTypes, NEW tag \in ArraysOf(type),
           NEW use, NEW first \in Nat, LinksTo(use, first), use.bits \in 1 .. MaxBits,
           kind = "bo" => use.bits = 1,
           first + use.bits <= tag.elements * WordBits,
           use.bits = 1 \/ first % WordBits = 0,
           NEW v \in 0 .. Two[use.bits] - 1
    PROVE  LET new == Write(kind, tag, use, v)
           IN  IF use.bits = 1 THEN bi_read(new, use) = Got(v) ELSE mbbi_read(new, use) = Got(v)
  <1> DEFINE bits == use.bits
             new == Write(kind, tag, use, v)
             put == put_bits(tag, use, bits, BitsOf(v, bits))
  <1>1. bits \in 0 .. MaxBits /\ bits \in Nat /\ bits \in Positive /\ bits > 0
    BY BitsOfByte DEF Positive
  <1>2. first + bits <= tag.elements * WordBits /\ (bits = 1 \/ first % WordBits = 0)
        /\ v \in 0 .. Two[bits] - 1
    OBVIOUS
  <1>3. use.element \in 0 .. tag.elements - 1
    <2> DEFINE k == tag.elements
    <2>1. k \in Nat /\ first \in 0 .. k * WordBits - 1
      <3>1. k \in Nat
        BY ArrayIs
      <3> QED BY <1>1, <1>2, <3>1, BitsOfByte
    <2> HIDE DEF k
    <2>2. first \div WordBits \in 0 .. k - 1
      BY <2>1, BitPlace, Zenon
    <2> QED BY <2>2 DEF LinksTo, BitAt, k
  <1>4. ASSUME NEW t \in ArraysOf(type), t.elements = tag.elements
        PROVE  /\ HasData(t, use) /\ get_CIP_UDINT(t, use.element).ok
               /\ Reads(kind, t, use).ok
               /\ Reads(kind, t, use).value = Number(get_bits(t, use, bits))
    <2>1. t.valid = TRUE /\ t.elements > use.element
      <3>1. t.valid = TRUE /\ t.elements \in Nat
        BY ArrayIs
      <3> QED BY <1>3, <1>4, <3>1
    <2>2. get_CIP_UDINT(t, use.element).ok
      <3>1. \A x : Got(x).ok
        BY DEF Got
      <3>2. get_CIP_UDINT(t, use.element) = Got(Unsigned(t, use.element, 4))
        BY WordAccess
      <3> QED BY <3>1, <3>2
    <2>3. use.bits \in 0 .. MaxBits
      BY <1>1
    <2>4. Reads(kind, t, use).ok /\ Reads(kind, t, use).value = Number(get_bits(t, use, use.bits))
      BY <2>2, <2>3, BitsSeen
    <2> QED BY <2>1, <2>2, <2>4 DEF HasData
  <1>5. new = IF NeedsWrite(kind, tag, use, v) THEN put ELSE tag
    <2>1. CASE kind = "bo"
      <3>1. bits = 1
        BY <2>1
      <3>2. new = bo_write(tag, use, v)
        BY <2>1 DEF Write
      <3> HIDE DEF new
      <3> QED BY <2>1, <3>1, <3>2 DEF bo_write
    <2>2. CASE kind = "mbbo"
      <3>1. new = mbbo_write(tag, use, v)
        BY <2>2 DEF Write
      <3> HIDE DEF new
      <3> QED BY <2>2, <3>1 DEF mbbo_write
    <2>3. CASE kind = "mbboDirect"
      <3>1. new = mbbo_write(tag, use, v)
        BY <2>3 DEF Write
      <3>2. NeedsWrite("mbbo", tag, use, v) <=> NeedsWrite(kind, tag, use, v)
        BY <2>3 DEF NeedsWrite, Reads
      <3> HIDE DEF new
      <3> QED BY <3>1, <3>2 DEF mbbo_write
    <2> QED BY <2>1, <2>2, <2>3 DEF BitKinds
  <1>6. /\ put \in ArraysOf(type) /\ put.elements = tag.elements
        /\ get_bits(put, use, bits) = BitsOf(v, bits)
    <2> DEFINE rval == BitsOf(v, bits)
    <2>1. rval \subseteq 0 .. bits - 1
      BY DEF BitsOf
    <2> HIDE DEF rval, bits
    <2>2. /\ put \in ArraysOf(type) /\ put.elements = tag.elements
          /\ AllBits(put) = (AllBits(tag) \ (first .. first + bits - 1))
                                \cup {first + i : i \in rval \cap (0 .. bits - 1)}
      BY <1>1, <1>2, PutBits DEF rval
    <2>3. get_bits(put, use, bits) =
              {i \in 0 .. bits - 1 : /\ first + i \in AllBits(put)
                                     /\ i = 0 /\ bits > 1 => first % WordBits = 0}
      <3>1. first + bits <= put.elements * WordBits
        BY <1>2, <2>2
      <3> HIDE DEF put
      <3> QED BY <1>1, <2>2, <3>1, GetBits
    <2>4. ASSUME NEW i \in 0 .. bits - 1
          PROVE  first + i \in AllBits(put) <=> i \in rval
      <3> DEFINE set == {first + j : j \in rval \cap (0 .. bits - 1)}
                 own == first .. first + bits - 1
      <3>1. first + i \in own
        BY <1>1
      <3>2. first + i \in set <=> i \in rval
        <4>1. first + i \in set <=> \E j \in rval \cap (0 .. bits - 1) : first + i = first + j
          OBVIOUS
        <4>2. \A j \in rval \cap (0 .. bits - 1) : first + i = first + j => j = i
          BY <1>1
        <4> QED BY <4>1, <4>2
      <3> HIDE DEF set, own
      <3> QED BY <2>2, <3>1, <3>2 DEF set, own
    <2>5. get_bits(put, use, bits) = rval
      <3>1. ~(bits > 1) \/ first % WordBits = 0
        BY <1>1, <1>2
      <3> QED BY <2>1, <2>3, <2>4, <3>1
    <2> QED BY <2>2, <2>5 DEF rval
  <1> HIDE DEF put, new, bits
  <1>7. Number(BitsOf(v, bits)) = v
    BY <1>1, <1>2, NumberOfBits
  <1>8. /\ new \in ArraysOf(type) /\ new.elements = tag.elements
        /\ Number(get_bits(new, use, bits)) = v
    <2>1. CASE NeedsWrite(kind, tag, use, v)
      BY <1>5, <1>6, <1>7, <2>1
    <2>2. CASE ~NeedsWrite(kind, tag, use, v)
      <3>1. Reads(kind, tag, use).value = v
        BY <1>4, <2>2 DEF NeedsWrite
      <3> QED BY <1>4, <1>5, <2>2, <3>1
    <2> QED BY <2>1, <2>2
  <1>9. HasData(new, use)
    BY <1>4, <1>8
  <1>10. bits = 1 => bi_read(new, use) = Got(v)
    BY <1>8, <1>9 DEF bi_read
  <1>11. mbbi_read(new, use) = Got(v)
    BY <1>8, <1>9 DEF mbbi_read, bits
  <1> QED BY <1>10, <1>11 DEF bits, new

\* The input records see what an output record sees, a waveform in each place of its array
\* (ai_read, int64in_read, wf_read).
THEOREM InputsSeeTheSame ==
    ASSUME NEW type \in NumberTypes, NEW tag \in ArraysOf(type),
           NEW element \in 0 .. tag.elements - 1
    PROVE  LET seen == Reads(KindOf(type), tag, At(element))
           IN  IF type = "LINT" THEN int64in_read(tag, At(element)) = seen
               ELSE /\ ai_read(tag, At(element)) = seen
                    /\ wf_read(tag, At(0), IF type = "SINT" THEN "CHAR" ELSE "LONG",
                               tag.elements).value[element + 1] = seen.value
  <1> DEFINE seen == Reads(KindOf(type), tag, At(element))
             use == At(element)
             ftvl == IF type = "SINT" THEN "CHAR" ELSE "LONG"
             n == tag.elements
  <1>1. use.element = element /\ At(0).element = 0
    BY DEF At
  <1>2. /\ HasData(tag, use)
        /\ seen = Got(Seen(type, Unsigned(tag, element, CIP_Type_size(type))))
    <2>1. use.element \in 0 .. tag.elements - 1
      BY <1>1
    <2> HIDE DEF use
    <2>2. HasData(tag, use) /\
          Reads(KindOf(type), tag, use)
            = Got(Seen(type, Unsigned(tag, use.element, CIP_Type_size(type))))
      BY <2>1, NumberAccess
    <2>3. use.element = element
      BY <1>1
    <2> QED BY <2>2, <2>3 DEF use
  <1>3. seen = IF type = "LINT" THEN get_CIP_LINT(tag, element) ELSE get_CIP_DINT(tag, element)
    BY <1>1 DEF Reads, KindOf
  <1> HIDE DEF seen, use
  <1>4. CASE type = "LINT"
    <2>1. int64in_read(tag, use) = seen
      BY <1>1, <1>2, <1>3, <1>4 DEF int64in_read
    <2> QED BY <1>4, <2>1 DEF seen, use
  <1>5. CASE type # "LINT"
    <2>1. ai_read(tag, use) = seen
      BY <1>1, <1>2, <1>3, <1>5 DEF ai_read
    <2>2. n \in Nat /\ n > 0 /\ tag.type = type /\ 0 \in 0 .. n - 1 /\ n >= n
      <3>1. n \in Nat /\ tag.type = type
        BY ArrayIs
      <3> QED BY <3>1
    <2>3. HasData(tag, At(0)) /\ get_CIP_DINT(tag, 0).ok
      <3>1. At(0).element \in 0 .. tag.elements - 1
        BY <1>1, <2>2
      <3>2. /\ HasData(tag, At(0))
            /\ Reads(KindOf(type), tag, At(0))
                 = Got(Seen(type, Unsigned(tag, At(0).element, CIP_Type_size(type))))
        BY <3>1, NumberAccess
      <3>3. Reads(KindOf(type), tag, At(0)) = get_CIP_DINT(tag, 0)
        BY <1>1, <1>5 DEF Reads, KindOf
      <3>4. \A x : Got(x).ok
        BY DEF Got
      <3> QED BY <3>2, <3>3, <3>4
    <2> DEFINE value(i) == IF tag.type = "SINT" THEN get_CIP_USINT(tag, i).value
                           ELSE IF ftvl = "CHAR" THEN get_CIP_DINT(tag, i).value % ByteValues
                           ELSE get_CIP_DINT(tag, i).value
    <2>4. value(element) = seen.value
      <3>1. CASE type = "SINT"
        <4>1. get_CIP_USINT(tag, element) = Got(Unsigned(tag, element, 1))
              /\ get_CIP_DINT(tag, element) = Got(Unsigned(tag, element, 1))
          BY <2>2, <3>1 DEF get_CIP_USINT, get_CIP_DINT
        <4> QED BY <1>3, <1>5, <2>2, <3>1, <4>1
      <3>2. CASE type # "SINT"
        BY <1>3, <1>5, <2>2, <3>2
      <3> QED BY <3>1, <3>2
    <2>5. (CASE tag.type = "SINT" -> ftvl \in {"CHAR", "UCHAR"}
             [] OTHER -> ftvl \in {"LONG", "CHAR"})
      <3>1. CASE type = "SINT"
        BY <2>2, <3>1
      <3>2. CASE type # "SINT"
        BY <2>2, <3>2
      <3> QED BY <3>1, <3>2
    <2>6. wf_read(tag, At(0), ftvl, n) = Got([i \in 1 .. n |-> value(i - 1)])
      BY <2>2, <2>3, <2>5 DEF wf_read
    <2>7. element + 1 \in 1 .. n /\ (element + 1) - 1 = element
      BY <2>2
    <2>8. wf_read(tag, At(0), ftvl, n).value[element + 1] = value((element + 1) - 1)
      <3> HIDE DEF value
      <3>1. \A x : Got(x).value = x
        BY DEF Got
      <3> QED BY <2>6, <2>7, <3>1, ZenonT(30)
    <2>9. wf_read(tag, At(0), ftvl, n).value[element + 1] = seen.value
      <3> HIDE DEF value
      <3> QED BY <2>4, <2>7, <2>8
    <2> QED BY <1>5, <2>1, <2>9 DEF seen, use
  <1> QED BY <1>4, <1>5

LEMMA NumberOfTypeComesBack ==
    ASSUME NEW type \in NumberTypes
    PROVE  NumberComesBack(type)
  <1>1. type \in Sized
    BY DEF NumberTypes, Sized
  <1>2. Fitting(type) \subseteq Values(type)
    BY DEF Fitting
  <1>3. KindOf(type) = IF type = "LINT" THEN "int64out" ELSE "ao"
    BY DEF KindOf
  <1>4. ASSUME NEW tag \in Arrays(type), NEW element \in 0 .. NElements - 1, NEW v \in Fitting(type),
               NEW new, new = Write(KindOf(type), tag, At(element), v),
               NEW whole,
               whole = wf_read(new, At(0), IF type = "SINT" THEN "CHAR" ELSE "LONG", NElements)
        PROVE  /\ Reads(KindOf(type), new, At(element)) = Got(v)
               /\ \A other \in (0 .. NElements - 1) \ {element} :
                     Reads(KindOf(type), new, At(other)) = Reads(KindOf(type), tag, At(other))
               /\ IF type = "LINT" THEN int64in_read(new, At(element)) = Got(v)
                  ELSE ai_read(new, At(element)) = Got(v) /\ whole.value[element + 1] = v
    <2>1. tag \in ArraysOf(type) /\ tag.elements = NElements
      BY <1>1, ArraysAre
    <2> DEFINE use == At(element)
               kind == KindOf(type)
    <2>2. use.element = element
      BY DEF At
    <2> HIDE DEF use, kind
    <2>3. /\ new \in ArraysOf(type) /\ new.elements = tag.elements
          /\ Reads(kind, new, use) = Got(v)
          /\ \A other \in (0 .. tag.elements - 1) \ {use.element} :
                 Reads(kind, new, At(other)) = Reads(kind, tag, At(other))
      <3>1. use.element \in 0 .. tag.elements - 1 /\ v \in Values(type)
        BY <1>2, <2>1, <2>2
      <3> QED BY <1>4, <2>1, <3>1, NumbersComeBack DEF use, kind
    <2>4. LET seen == Reads(KindOf(type), new, At(element))
          IN  IF type = "LINT" THEN int64in_read(new, At(element)) = seen
              ELSE /\ ai_read(new, At(element)) = seen
                   /\ wf_read(new, At(0), IF type = "SINT" THEN "CHAR" ELSE "LONG",
                              new.elements).value[element + 1] = seen.value
      <3>1. element \in 0 .. new.elements - 1
        BY <2>1, <2>3
      <3> QED BY <2>3, <3>1, InputsSeeTheSame
    <2>5. Got(v).value = v
      BY DEF Got
    <2> QED BY <1>4, <2>1, <2>2, <2>3, <2>4, <2>5 DEF use, kind
  <1> QED BY <1>3, <1>4 DEF NumberComesBack

\* What DataChecks says of numbers (the read and write routines and the callbacks of
\* devEtherIP.c, get_CIP_..., put_CIP_...).
THEOREM AllValuesComeBack == ValueComesBackHolds
  <1>1. \A type \in {"SINT", "INT", "DINT", "BITS", "LINT"} : NumberComesBack(type)
    BY NumberOfTypeComesBack DEF NumberTypes
  <1>2. ASSUME NEW tag, NEW v
        PROVE  Settles("ao", tag, At(1), v) /\ OnlyFollows("ao", tag, At(1), v)
    <2>1. \A t, use : HasVal("ao", t, use)
      BY DEF HasVal
    <2> QED BY <2>1, RecordsFollow, RecordsSettle
  <1>3. ASSUME NEW tag \in Arrays("DINT"), NEW link \in {l \in IndexLinks : l.first \in NearBorder}
        PROVE  LET Holds(kind, states) ==
                       \E use \in {[link EXCEPT !.states = states]} :
                           \A v \in 0 .. Two[link.bits] - 1 :
                               /\ Settles(kind, tag, use, v)
                               /\ OnlyFollows(kind, tag, use, v)
                               /\ \E new \in {Write(kind, tag, use, v)} :
                                      IF link.bits = 1 THEN bi_read(new, use) = Got(v)
                                      ELSE link.mask = {0} => mbbi_read(new, use) = Got(v)
               IN  /\ link.bits = 1 => Holds("bo", <<>>)
                   /\ Holds("mbbo", <<>>) /\ Holds("mbboDirect", <<>>)
                   /\ Holds("mbbo", [i \in 1 .. Two[link.bits] |-> (i + 2) % Two[link.bits]])
    <2> DEFINE Good(kind, use) ==
                   \A v \in 0 .. Two[link.bits] - 1 :
                       /\ Settles(kind, tag, use, v)
                       /\ OnlyFollows(kind, tag, use, v)
                       /\ \E new \in {Write(kind, tag, use, v)} :
                              IF link.bits = 1 THEN bi_read(new, use) = Got(v)
                              ELSE link.mask = {0} => mbbi_read(new, use) = Got(v)
               With(states) == [link EXCEPT !.states = states]
               Rotated == [i \in 1 .. Two[link.bits] |-> (i + 2) % Two[link.bits]]
    <2>1. PICK i \in 0 .. 2 * WordBits - 1, n \in 1 .. 4 : link = IndexLink(i, n)
      BY DEF IndexLinks
    <2>2. /\ LinksTo(link, i) /\ link.bits = n /\ link.first = i
          /\ link = [element |-> link.element, mask |-> link.mask, elements |-> link.elements,
                     bits |-> n, first |-> i, states |-> <<>>]
      <3> DEFINE text == [Plain EXCEPT !.index = i]
      <3>1. text.index = i /\ text.E = FALSE /\ text.B = NoBit
        BY Zenon DEF Plain
      <3>2. link = BitLink(text, n, i)
        BY <2>1 DEF IndexLink
      <3> HIDE DEF text
      <3>3. n \in Positive /\ i \in Nat
        BY BitsOfByte DEF Positive
      <3>4. LinksTo(BitLink(text, n, text.index), text.index)
        BY <3>1, <3>3, IndexLinkIs
      <3>5. link.bits = n /\ link.first = i /\ link.element = analyze_link(text, 1, n).element
            /\ link.mask = analyze_link(text, 1, n).mask
            /\ link.elements = analyze_link(text, 1, n).elements
        BY <3>2, BitLinkIs
      <3> QED BY <3>1, <3>2, <3>4, <3>5 DEF BitLink
    <2>3. /\ "DINT" \in WordTypes /\ tag \in ArraysOf("DINT") /\ tag.elements = 3
          /\ i \in Nat /\ n \in 1 .. MaxBits /\ n \in 0 .. MaxBits /\ n \in 0 .. 16
          /\ i + n <= tag.elements * WordBits
      <3>1. tag \in ArraysOf("DINT") /\ tag.elements = 3
        BY ArraysAre DEF NElements, Sized
      <3> QED BY <3>1, BitsOfByte DEF WordTypes
    <2>4. ASSUME NEW kind \in BitKinds, NEW use, use.element = link.element, use.mask = link.mask,
                 use.bits = n, kind = "bo" => n = 1,
                 \A t : Reads(kind, t, use).ok => HasVal(kind, t, use)
          PROVE  Good(kind, use)
      <3>1. ASSUME NEW t, NEW v
            PROVE  OnlyFollows(kind, t, use, v)
        <4>1. CASE Reads(kind, t, use).ok
          BY <2>4, <4>1, RecordsFollow
        <4>2. CASE ~Reads(kind, t, use).ok
          BY <4>2 DEF OnlyFollows, NeedsWrite
        <4> QED BY <4>1, <4>2
      <3>2. ASSUME NEW v
            PROVE  Settles(kind, tag, use, v)
        BY <3>1 DEF Settles, OnlyFollows
      <3>3. LinksTo(use, i)
        BY <2>2, <2>4 DEF LinksTo
      <3>4. ASSUME NEW v \in 0 .. Two[n] - 1, n = 1 \/ link.mask = {0}
            PROVE  IF n = 1 THEN bi_read(Write(kind, tag, use, v), use) = Got(v)
                   ELSE mbbi_read(Write(kind, tag, use, v), use) = Got(v)
        <4>1. use.bits = 1 \/ i % WordBits = 0
          BY <2>2, <2>4, <3>4 DEF LinksTo, BitAt
        <4>2. /\ use.bits \in 1 .. MaxBits /\ (kind = "bo" => use.bits = 1)
              /\ i + use.bits <= tag.elements * WordBits /\ v \in 0 .. Two[use.bits] - 1
          BY <2>3, <2>4
        <4> QED BY <2>3, <2>4, <3>3, <4>1, <4>2, BitValuesComeBack
      <3> QED BY <2>2, <3>1, <3>2, <3>4
    <2>5. ASSUME NEW states
          PROVE  /\ With(states).element = link.element /\ With(states).mask = link.mask
                 /\ With(states).bits = n /\ With(states).states = states
      BY <2>2
    <2> HIDE DEF With, Good, Rotated
    <2>6. n = 1 => Good("bo", With(<<>>))
      <3>1. SUFFICES ASSUME n = 1 PROVE Good("bo", With(<<>>))
        OBVIOUS
      <3>2. \A t : HasVal("bo", t, With(<<>>))
        BY <2>5, <3>1 DEF HasVal
      <3> QED BY <2>4, <2>5, <3>1, <3>2 DEF BitKinds
    <2>7. Good("mbbo", With(<<>>))
      <3>1. \A t : HasVal("mbbo", t, With(<<>>))
        BY <2>3, <2>5 DEF HasVal
      <3> QED BY <2>4, <2>5, <3>1 DEF BitKinds
    <2>8. Good("mbboDirect", With(<<>>))
      <3>1. \A t : HasVal("mbboDirect", t, With(<<>>))
        BY <2>3, <2>5 DEF HasVal
      <3> QED BY <2>4, <2>5, <3>1 DEF BitKinds
    <2>9. Good("mbbo", With(Rotated))
      <3> DEFINE m == Two[n]
      <3>1. m \in {2, 4, 8, 16}
        <4>1. n = 1 \/ n = 2 \/ n = 3 \/ n = 4
          OBVIOUS
        <4> QED BY <4>1, SmallPowers
      <3> HIDE DEF m
      <3>2. Rotated = [j \in 1 .. m |-> (j + 2) % m]
        BY <2>2 DEF Rotated, m
      <3>3. ASSUME NEW s \in 0 .. m - 1
            PROVE  \E j \in 1 .. m : (j + 2) % m = s
        <4>1. CASE m = 2
          <5>1. s = 0 \/ s = 1
            BY <4>1
          <5>2. 2 \in 1 .. m /\ (2 + 2) % m = 0 /\ 1 \in 1 .. m /\ (1 + 2) % m = 1
            BY <4>1
          <5> QED BY <5>1, <5>2
        <4>2. CASE m # 2
          <5>1. m \in {4, 8, 16}
            BY <3>1, <4>2
          <5> DEFINE j == IF s > 2 THEN s - 2 ELSE s + m - 2
          <5>2. j \in 1 .. m
            BY <5>1
          <5>3. (j + 2) % m = s
            BY <5>1
          <5> QED BY <5>2, <5>3
        <4> QED BY <4>1, <4>2
      <3>4. DOMAIN Rotated = 1 .. m /\ Rotated # <<>>
            /\ DOMAIN Rotated \subseteq Nat \ {NoState}
        <4>1. DOMAIN Rotated = 1 .. m /\ 1 \in 1 .. m
          BY <3>1, <3>2
        <4>2. DOMAIN <<>> = {}
          OBVIOUS
        <4>3. 1 .. m \subseteq Nat \ {NoState}
          BY <3>1 DEF NoState
        <4> QED BY <4>1, <4>2, <4>3
      <3>5. ASSUME NEW t, Reads("mbbo", t, With(Rotated)).ok
            PROVE  HasVal("mbbo", t, With(Rotated))
        <4> DEFINE use == With(Rotated)
        <4>1. use.bits = n /\ use.states = Rotated
          BY <2>5
        <4> HIDE DEF use
        <4>2. Reads("mbbo", t, use).value \in 0 .. m - 1
          <5>1. use.bits \in 0 .. MaxBits
            BY <2>3, <4>1
          <5>2. Reads("mbbo", t, use).value \in 0 .. Two[use.bits] - 1
            BY <3>5, <5>1, BitsSeen DEF use, BitKinds
          <5> QED BY <4>1, <5>2 DEF m
        <4>3. \E j \in DOMAIN use.states : use.states[j] = Reads("mbbo", t, use).value
          BY <3>2, <3>3, <3>4, <4>1, <4>2
        <4>4. HasVal("mbbo", t, use)
          BY <2>3, <3>4, <4>1, <4>3 DEF HasVal
        <4> QED BY <4>4 DEF use
      <3> QED BY <2>4, <2>5, <3>5 DEF BitKinds
    <2> QED BY <2>2, <2>6, <2>7, <2>8, <2>9 DEF Good, With, Rotated
  <1> QED BY <1>1, <1>2, <1>3 DEF ValueComesBackHolds

-----------------------------------------------------------------------------
(* Texts *)

LEMMA SeqLarger ==
    ASSUME NEW S, NEW T, S \subseteq T, NEW s \in Seq(S)
    PROVE  s \in Seq(T)
  <1> DEFINE n == Len(s)
  <1>1. n \in Nat /\ s \in [1 .. n -> S]
    BY LenProperties
  <1> HIDE DEF n
  <1>2. s \in [1 .. n -> T]
    BY <1>1
  <1> QED BY <1>1, <1>2, FunctionIsSeq

LEMMA FirstPart ==
    ASSUME NEW S, NEW s \in Seq(S), NEW n \in 0 .. Len(s)
    PROVE  /\ Len(s) \in Nat /\ SubSeq(s, 1, n) \in Seq(S) /\ Len(SubSeq(s, 1, n)) = n
           /\ \A i \in 1 .. n : SubSeq(s, 1, n)[i] = s[i] /\ s[i] \in S
  <1>1. Len(s) \in Nat /\ n \in Int /\ 1 \in Int
    OBVIOUS
  <1>2. \A i \in 1 .. n : s[i] \in S /\ (1 + i) - 1 = i
    BY <1>1
  <1>3. /\ SubSeq(s, 1, n) \in Seq(S)
        /\ Len(SubSeq(s, 1, n)) = IF 1 <= n THEN n - 1 + 1 ELSE 0
        /\ \A i \in 1 .. n - 1 + 1 : SubSeq(s, 1, n)[i] = s[1 + i - 1]
    BY <1>1, <1>2, SubSeqProperties
  <1> DEFINE t == SubSeq(s, 1, n)
  <1> HIDE DEF t
  <1>4. Len(t) = n
    BY <1>1, <1>3 DEF t
  <1>5. n - 1 + 1 = n
    BY <1>1
  <1>6. \A i \in 1 .. n : t[i] = s[i]
    BY <1>2, <1>3, <1>5 DEF t
  <1>7. t \in Seq(S)
    BY <1>3 DEF t
  <1> QED BY <1>1, <1>2, <1>4, <1>6, <1>7 DEF t

\* The characters before the first 0.
LEMMA CStringIs ==
    ASSUME NEW chars \in Seq(Nat), NEW n \in 0 .. Len(chars),
           \A i \in 1 .. n : chars[i] # 0,
           n = Len(chars) \/ chars[n + 1] = 0
    PROVE  CString(chars) = SubSeq(chars, 1, n)
  <1> DEFINE ends == {i \in 1 .. Len(chars) : chars[i] = 0}
             end == CHOOSE i \in ends : \A j \in ends : i <= j
  <1>1. Len(chars) \in Nat
    OBVIOUS
  <1>2. CASE n = Len(chars)
    <2>1. ends = {}
      BY <1>2
    <2>2. CString(chars) = chars
      BY <2>1 DEF CString
    <2>3. SubSeq(chars, 1, Len(chars)) = chars
      BY SubSeqFull
    <2> QED BY <1>2, <2>2, <2>3
  <1>3. CASE n # Len(chars)
    <2>1. n + 1 \in ends
      BY <1>1, <1>3
    <2>2. \A j \in ends : n + 1 <= j
      BY <1>1
    <2>3. \A i \in ends : (\A j \in ends : i <= j) => i = n + 1
      BY <2>1, <2>2
    <2>4. end = n + 1
      <3> HIDE DEF ends
      <3> QED BY <2>1, <2>2, <2>3
    <2>5. ends # {}
      BY <2>1
    <2>6. CString(chars) = SubSeq(chars, 1, end - 1)
      BY <2>5 DEF CString
    <2> HIDE DEF end
    <2>7. end - 1 = n
      BY <2>4
    <2> QED BY <2>6, <2>7
  <1> QED BY <1>2, <1>3

\* How many characters of a text have room before the terminator.
Room(val, capacity) == IF Len(val) < capacity THEN Len(val) ELSE capacity - 1

\* The text as it is in the tag: at most one character less than the tag has room for, which
\* is the terminator's.
Stored(new, val, capacity) ==
    /\ new.length = Room(val, capacity)
    /\ new.text \in Seq(Nat) /\ Len(new.text) = capacity
    /\ \A i \in 1 .. Room(val, capacity) : new.text[i] = val[i]
    /\ new.text[Room(val, capacity) + 1] = 0

\* A text with its terminator.
Terminated(text) == text \o <<0>>

\* The data of a tag of strings.
Strings == [type : {"STRUCT"}, length : Nat, text : Seq(Nat)]

LEMMA PutTextIs ==
    ASSUME NEW raw \in Strings, NEW val, NEW size, NEW n,
           n = (IF Len(val) + TextHead >= size THEN size - TextHead - 1 ELSE Len(val)),
           NEW text, text = Terminated(SubSeq(val, 1, n))
    PROVE  put_CIP_STRING(raw, val, size)
              = [type |-> "STRUCT", length |-> n,
                 text |-> text \o SubSeq(raw.text, Len(text) + 1, Len(raw.text))]
  <1>1. raw.type = "STRUCT"
    BY DEF Strings
  <1> QED BY <1>1 DEF put_CIP_STRING, Terminated

LEMMA WrittenIs ==
    ASSUME NEW length, NEW text
    PROVE  Written([type |-> "STRUCT", length |-> length, text |-> text])
              = [type |-> "STRUCT", length |-> Len(CString(text)), text |-> text]
  BY DEF Written

\* A record on the first element reads the text from its first character on.
LEMMA FirstText ==
    ASSUME NEW raw, raw.type = "STRUCT", raw.length \in Nat, NEW size \in Nat
    PROVE  get_CIP_STRING(raw, 0, size)
              = CString(SubSeq(raw.text, 1, IF raw.length >= size THEN size - 1 ELSE raw.length))
  <1> DEFINE n == IF raw.length >= size THEN size - 1 ELSE raw.length
  <1>1. Before(0) = 0
    BY DEF Before, T_CIP_STRUCT_LEN_BYTES, T_CIP_STRUCT_STRING_BUF
  <1>2. n \in Int
    OBVIOUS
  <1>3. get_CIP_STRING(raw, 0, size) = Struct_text(raw, 0, size)
    BY DEF get_CIP_STRING
  <1>4. Struct_text(raw, 0, size) = CString(SubSeq(raw.text, Before(0) + 1, Before(0) + n))
    BY DEF Struct_text, LengthAt
  <1> HIDE DEF n
  <1>5. Before(0) + 1 = 1 /\ Before(0) + n = n
    BY <1>1, <1>2
  <1> QED BY <1>3, <1>4, <1>5 DEF n

LEMMA PutText ==
    ASSUME NEW capacity \in Positive, NEW raw \in Strings, Len(raw.text) = capacity,
           NEW val \in Seq(Nat)
    PROVE  /\ Stored(put_CIP_STRING(raw, val, TextHead + capacity), val, capacity)
           /\ \A i \in Room(val, capacity) + 2 .. capacity :
                 put_CIP_STRING(raw, val, TextHead + capacity).text[i] = raw.text[i]
  <1> DEFINE l == Room(val, capacity)
             old == raw.text
             front == SubSeq(val, 1, l)
             text == front \o <<0>>
             rest == SubSeq(old, Len(text) + 1, Len(old))
             new == put_CIP_STRING(raw, val, TextHead + capacity)
  <1>1. Len(val) \in Nat /\ capacity \in Nat /\ capacity > 0 /\ old \in Seq(Nat)
    BY DEF Positive, Strings
  <1>2. l \in 0 .. Len(val) /\ l + 1 <= capacity /\ l \in Nat
    BY <1>1 DEF Room
  <1> DEFINE total == TextHead + capacity
  <1>3. l = (IF Len(val) + TextHead >= total THEN total - TextHead - 1 ELSE Len(val))
    BY <1>1 DEF Room, TextHead
  <1>4. new = [type |-> "STRUCT", length |-> l, text |-> text \o rest]
    <2> HIDE DEF l, total
    <2>1. text = Terminated(SubSeq(val, 1, l))
      BY DEF Terminated
    <2> HIDE DEF text, front
    <2>2. put_CIP_STRING(raw, val, total)
            = [type |-> "STRUCT", length |-> l,
               text |-> text \o SubSeq(raw.text, Len(text) + 1, Len(raw.text))]
      BY <1>3, <2>1, PutTextIs
    <2> QED BY <2>2 DEF total
  <1> HIDE DEF l, new, old
  <1>5. front \in Seq(Nat) /\ Len(front) = l /\ \A i \in 1 .. l : front[i] = val[i]
    BY <1>2, FirstPart
  <1> HIDE DEF front
  <1>6. /\ text \in Seq(Nat) /\ Len(text) = l + 1 /\ text[l + 1] = 0
        /\ \A i \in 1 .. l : text[i] = val[i]
    <2>1. <<0>> \in Seq(Nat) /\ Len(<<0>>) = 1 /\ <<0>>[1] = 0 /\ 1 \in 1 .. 1
      OBVIOUS
    <2>2. /\ front \o <<0>> \in Seq(Nat) /\ Len(front \o <<0>>) = Len(front) + Len(<<0>>)
          /\ \A i \in 1 .. Len(front) : (front \o <<0>>)[i] = front[i]
          /\ \A i \in 1 .. Len(<<0>>) : (front \o <<0>>)[Len(front) + i] = <<0>>[i]
      BY <1>5, <2>1, Concat
    <2> QED BY <1>2, <1>5, <2>1, <2>2
  <1> HIDE DEF text
  <1>7. /\ rest \in Seq(Nat) /\ Len(rest) = capacity - (l + 1)
        /\ \A i \in 1 .. capacity - (l + 1) : rest[i] = old[l + 1 + i]
    <2> DEFINE a == Len(text) + 1
    <2>1. a = l + 2 /\ a \in Int /\ Len(old) = capacity /\ old \in Seq(Nat)
      BY <1>1, <1>2, <1>6 DEF old
    <2> HIDE DEF a
    <2>2. \A i \in a .. Len(old) : old[i] \in Nat
      BY <1>1, <1>2, <2>1
    <2> DEFINE b == Len(old)
               s == SubSeq(old, a, b)
    <2>3. b \in Int /\ b = capacity /\ a \in Int /\ a >= 1
      BY <1>1, <1>2, <2>1
    <2>4. /\ s \in Seq(Nat) /\ Len(s) = IF a <= b THEN b - a + 1 ELSE 0
          /\ \A i \in 1 .. b - a + 1 : s[i] = old[a + i - 1]
      <3> HIDE DEF b
      <3>1. \A i \in a .. b : old[i] \in Nat
        BY <2>2 DEF b
      <3> QED BY <2>3, <3>1, SubSeqProperties
    <2> HIDE DEF s, b
    <2>5. Len(s) = capacity - (l + 1)
      BY <1>1, <1>2, <2>1, <2>3, <2>4
    <2>6. ASSUME NEW i \in 1 .. capacity - (l + 1)
          PROVE  s[i] = old[l + 1 + i]
      <3>1. i \in 1 .. b - a + 1 /\ a + i - 1 = l + 1 + i
        BY <1>1, <1>2, <2>1, <2>3
      <3> QED BY <2>4, <3>1
    <2> QED BY <2>4, <2>5, <2>6 DEF a, b, s
  <1> HIDE DEF rest
  <1>8. /\ text \o rest \in Seq(Nat) /\ Len(text \o rest) = capacity
        /\ \A i \in 1 .. l + 1 : (text \o rest)[i] = text[i]
        /\ \A i \in l + 2 .. capacity : (text \o rest)[i] = old[i]
    <2> DEFINE all == text \o rest
    <2>1. /\ all \in Seq(Nat) /\ Len(all) = Len(text) + Len(rest)
          /\ \A i \in 1 .. Len(text) : all[i] = text[i]
          /\ \A i \in 1 .. Len(rest) : all[Len(text) + i] = rest[i]
      <3>1. text \in Seq(Nat) /\ rest \in Seq(Nat)
        BY <1>6, <1>7
      <3> QED BY <3>1, Concat
    <2> HIDE DEF all
    <2>2. Len(all) = capacity /\ \A i \in 1 .. l + 1 : all[i] = text[i]
      BY <1>1, <1>2, <1>6, <1>7, <2>1
    <2>3. ASSUME NEW i \in l + 2 .. capacity
          PROVE  all[i] = old[i]
      <3>1. PICK j \in 1 .. capacity - (l + 1) : i = l + 1 + j
        <4>1. i - (l + 1) \in 1 .. capacity - (l + 1) /\ i = l + 1 + (i - (l + 1))
          BY <1>1, <1>2
        <4> QED BY <4>1
      <3>2. j \in 1 .. Len(rest) /\ i = Len(text) + j
        BY <1>6, <1>7, <3>1
      <3> QED BY <1>7, <2>1, <3>1, <3>2
    <2> QED BY <2>1, <2>2, <2>3 DEF all
  <1>9. \A i \in 1 .. l : (text \o rest)[i] = val[i]
    BY <1>2, <1>6, <1>8
  <1>10. (text \o rest)[l + 1] = 0
    BY <1>2, <1>6, <1>8
  <1>11. new.length = l /\ new.text = text \o rest
    BY <1>4
  <1>12. Stored(new, val, capacity)
    <2> DEFINE t == text \o rest
    <2> HIDE DEF t
    <2>1. /\ new.length = l /\ new.text = t /\ t \in Seq(Nat) /\ Len(t) = capacity
          /\ (\A i \in 1 .. l : t[i] = val[i]) /\ t[l + 1] = 0
      BY <1>8, <1>9, <1>10, <1>11 DEF t
    <2> QED BY <2>1 DEF Stored, l
  <1>13. \A i \in l + 2 .. capacity : new.text[i] = old[i]
    BY <1>8, <1>11
  <1> QED BY <1>12, <1>13 DEF new, old, l

\* What a record is shown of a text that it has written, and whether it writes again.
TextComes(raw, val, size, capacity) ==
    LET total == TextHead + capacity
        new   == lso_write(raw, 0, val, size, total)
        got   == check_lso_callback(new, 0, size)
    IN  /\ new.text \in Seq(Nat) /\ Len(new.text) = capacity
        /\ got \in Seq(Positive) /\ Len(got) <= Len(val)
        /\ got = SubSeq(val, 1, Len(got))
        /\ Len(got) >= Room(val, capacity)
        /\ lso_write(new, 0, got, size, total) = new
        /\ lsi_read(new, 0, size) = [val |-> got, len |-> Len(got) + 1]

LEMMA LongTextComes ==
    ASSUME NEW capacity \in Positive, NEW raw \in Strings, Len(raw.text) = capacity,
           NEW val \in Seq(Positive), NEW size \in Nat, Len(val) < size
    PROVE  TextComes(raw, val, size, capacity)
  <1> DEFINE total == TextHead + capacity
             new == lso_write(raw, 0, val, size, total)
             got == check_lso_callback(new, 0, size)
             l == Room(val, capacity)
  <1>1. /\ Len(val) \in Nat /\ capacity \in Nat /\ capacity > 0
        /\ l \in 0 .. Len(val) /\ l < capacity /\ l \in Nat
    <2>1. Len(val) \in Nat /\ capacity \in Nat /\ capacity > 0
      BY DEF Positive
    <2> QED BY <2>1 DEF Room
  <1>2. lsi_read(new, 0, size) = [val |-> got, len |-> Len(got) + 1]
    <2> HIDE DEF new
    <2> QED BY DEF lsi_read, check_lso_callback
  <1>3. got = get_CIP_STRING(new, 0, size)
    BY DEF check_lso_callback
  <1> HIDE DEF got
  <1>4. lso_write(new, 0, got, size, total) = new
    <2> HIDE DEF new
    <2> QED BY <1>3 DEF lso_write
  <1>5. CASE get_CIP_STRING(raw, 0, size) = val
    <2>1. new = raw
      BY <1>5 DEF lso_write
    <2> HIDE DEF new
    <2>2. got = val
      BY <1>3, <1>5, <2>1
    <2>3. SubSeq(val, 1, Len(val)) = val
      BY SubSeqFull
    <2>4. raw.text \in Seq(Nat)
      BY DEF Strings
    <2> QED BY <1>1, <1>2, <1>4, <2>1, <2>2, <2>3, <2>4 DEF TextComes, new, got
  <1>6. CASE get_CIP_STRING(raw, 0, size) # val
    <2> DEFINE put == put_CIP_STRING(raw, val, total)
    <2>0. put = [type |-> "STRUCT", length |-> put.length, text |-> put.text]
      <3> HIDE DEF total
      <3> DEFINE n == IF Len(val) + TextHead >= total THEN total - TextHead - 1 ELSE Len(val)
                 part == Terminated(SubSeq(val, 1, n))
      <3> HIDE DEF n, part
      <3>1. put = [type |-> "STRUCT", length |-> n,
                   text |-> part \o SubSeq(raw.text, Len(part) + 1, Len(raw.text))]
        BY PutTextIs DEF n, part
      <3> QED BY <3>1
    <2>1. Stored(put, val, capacity)
      <3>1. val \in Seq(Nat)
        <4>1. Positive \subseteq Nat
          BY DEF Positive
        <4> QED BY <4>1, SeqLarger
      <3> QED BY <3>1, PutText
    <2>2. new = Written(put)
      <3>1. raw.type = "STRUCT"
        BY DEF Strings
      <3> HIDE DEF put, total
      <3>2. new = Written(put_CIP_STRING(raw, val, total))
        BY <1>6, <3>1 DEF lso_write
      <3> QED BY <3>2 DEF put
    <2> HIDE DEF put, new
    <2> DEFINE text == put.text
    <2>3. new = [type |-> "STRUCT", length |-> Len(CString(text)), text |-> text]
      BY <2>0, <2>2, WrittenIs
    <2>4. /\ text \in Seq(Nat) /\ Len(text) = capacity
          /\ (\A i \in 1 .. l : text[i] = val[i]) /\ text[l + 1] = 0
      BY <2>1 DEF Stored
    <2> HIDE DEF text
    <2>5. \A i \in 1 .. l : val[i] \in Positive /\ val[i] # 0
      BY <1>1 DEF Positive
    <2> HIDE DEF l
    <2> DEFINE front == SubSeq(text, 1, l)
    <2>6. l \in 0 .. Len(text)
      BY <1>1, <2>4
    <2>7. CString(text) = front
      BY <2>4, <2>5, <2>6, CStringIs
    <2>8. front \in Seq(Nat) /\ Len(front) = l /\ \A i \in 1 .. l : front[i] = val[i]
      BY <2>4, <2>6, FirstPart
    <2>9. new.length = l /\ new.text = text /\ new.type = "STRUCT"
      BY <2>3, <2>7, <2>8
    <2>10. got = CString(front)
      <3>1. ~(l >= size)
        BY <1>1
      <3> HIDE DEF front
      <3>2. l \in Nat
        BY <1>1
      <3>3. got = CString(SubSeq(new.text, 1, IF new.length >= size THEN size - 1 ELSE new.length))
        BY <1>3, <2>9, <3>2, FirstText
      <3> QED BY <2>9, <3>1, <3>3 DEF front
    <2> HIDE DEF front
    <2>11. got = front
      <3>1. SubSeq(front, 1, Len(front)) = front
        BY <2>8, SubSeqFull
      <3>2. Len(front) \in 0 .. Len(front) /\ \A i \in 1 .. Len(front) : front[i] # 0
        BY <1>1, <2>5, <2>8
      <3>3. CString(front) = SubSeq(front, 1, Len(front))
        BY <2>8, <3>2, CStringIs
      <3> QED BY <2>10, <3>1, <3>3
    <2>12. SubSeq(val, 1, l) \in Seq(Positive) /\ Len(SubSeq(val, 1, l)) = l
           /\ \A i \in 1 .. l : SubSeq(val, 1, l)[i] = val[i]
      BY <1>1, FirstPart
    <2>13. front = SubSeq(val, 1, l)
      <3> DEFINE s == SubSeq(val, 1, l)
      <3>1. s \in Seq(Nat)
        <4>1. Positive \subseteq Nat
          BY DEF Positive
        <4> HIDE DEF s
        <4>2. s \in Seq(Positive)
          BY <2>12 DEF s
        <4> QED BY <4>1, <4>2, SeqLarger
      <3>2. Len(s) = l /\ \A i \in 1 .. l : s[i] = val[i]
        BY <2>12
      <3> HIDE DEF s
      <3>3. \A i \in 1 .. Len(front) : front[i] = s[i]
        BY <2>8, <3>2
      <3>4. Len(front) = Len(s)
        BY <2>8, <3>2
      <3>5. front = s
        BY <2>8, <3>1, <3>3, <3>4, SeqEqual
      <3> QED BY <3>5 DEF s
    <2>14. got \in Seq(Positive) /\ Len(got) = l /\ got = SubSeq(val, 1, Len(got))
      BY <2>8, <2>11, <2>12, <2>13
    <2>15. Len(got) <= Len(val) /\ Len(got) >= Room(val, capacity)
      BY <1>1, <2>14 DEF l
    <2> QED BY <1>2, <1>4, <2>4, <2>9, <2>14, <2>15 DEF TextComes, new, got
  <1> QED BY <1>5, <1>6

LEMMA WholeText ==
    ASSUME NEW capacity \in Positive, NEW raw, NEW val \in Seq(Positive), NEW size,
           TextComes(raw, val, size, capacity), Len(val) < capacity
    PROVE  check_lso_callback(lso_write(raw, 0, val, size, TextHead + capacity), 0, size) = val
  <1> DEFINE got == check_lso_callback(lso_write(raw, 0, val, size, TextHead + capacity), 0, size)
  <1>1. got \in Seq(Positive) /\ Len(got) <= Len(val) /\ got = SubSeq(val, 1, Len(got))
        /\ Len(got) >= Room(val, capacity)
    BY DEF TextComes
  <1> HIDE DEF got
  <1>2. Len(got) \in Nat /\ Len(val) \in Nat
    BY <1>1
  <1>3. Len(got) = Len(val)
    BY <1>1, <1>2 DEF Room
  <1>4. SubSeq(val, 1, Len(val)) = val
    BY SubSeqFull
  <1>5. got = val
    BY <1>1, <1>3, <1>4
  <1> QED BY <1>5 DEF got

\* A text that a long string record writes into a tag of strings, of any length up to what its
\* VAL holds, stays within the data of the tag, whatever that holds before. To a record on the
\* first element it comes back, or as much of it as the tag has room for; then nothing more is
\* written (lso_write, check_lso_callback, put_CIP_STRING, get_CIP_STRING).
THEOREM LongTextsComeBack ==
    ASSUME NEW capacity \in Positive, NEW raw \in Strings, Len(raw.text) = capacity,
           NEW val \in Seq(Positive), NEW size \in Nat, Len(val) < size
    PROVE  LongTextComesBack(raw, val, size, capacity)
  <1> DEFINE total == TextHead + capacity
             new == lso_write(raw, 0, val, size, total)
             got == check_lso_callback(new, 0, size)
  <1>1. TextComes(raw, val, size, capacity)
    BY LongTextComes
  <1>2. Len(val) < capacity => got = val
    BY <1>1, WholeText
  <1>3. /\ Len(new.text) = capacity /\ got = SubSeq(val, 1, Len(got))
        /\ lso_write(new, 0, got, size, total) = new
        /\ lsi_read(new, 0, size) = [val |-> got, len |-> Len(got) + 1]
    BY <1>1 DEF TextComes
  <1> HIDE DEF new, got, total
  <1>4. Len(val) < capacity => lsi_read(new, 0, size).len = Len(val) + 1
    BY <1>2, <1>3
  <1> QED BY <1>2, <1>3, <1>4 DEF LongTextComesBack, new, got, total

\* The same for the texts of a fixed size, which are cut to leave room for the terminator in
\* the record as well (so_write, check_so_callback, si_read).
THEOREM TextsComeBack ==
    ASSUME NEW capacity \in Positive, NEW raw \in Strings, Len(raw.text) = capacity,
           NEW val \in Seq(Positive)
    PROVE  TextComesBackCut(raw, val, capacity)
  <1> DEFINE total == TextHead + capacity
             m == MAX_STRING_SIZE
             cut == IF Len(val) < m THEN val ELSE SubSeq(val, 1, m - 1)
             new == lso_write(raw, 0, cut, m, total)
             got == check_lso_callback(new, 0, m)
             l == Len(cut)
  <1>1. m \in Nat /\ m > 0 /\ Len(val) \in Nat
    BY DataAssumption
  <1>2. cut \in Seq(Positive) /\ l < m /\ l \in Nat /\ l <= Len(val) /\ cut = SubSeq(val, 1, l)
    <2>1. CASE Len(val) < m
      <3>1. SubSeq(val, 1, Len(val)) = val
        BY SubSeqFull
      <3> QED BY <1>1, <2>1, <3>1
    <2>2. CASE ~(Len(val) < m)
      <3>1. m - 1 \in 0 .. Len(val)
        BY <1>1, <2>2
      <3> HIDE DEF m
      <3>2. SubSeq(val, 1, m - 1) \in Seq(Positive) /\ Len(SubSeq(val, 1, m - 1)) = m - 1
        BY <3>1, FirstPart
      <3> QED BY <1>1, <2>2, <3>2
    <2> QED BY <2>1, <2>2
  <1>3. so_write(raw, 0, val, total) = new
    <2> HIDE DEF total
    <2> QED BY DEF so_write
  <1>4. check_so_callback(new, 0) = got
    <2> HIDE DEF new
    <2> QED BY DEF check_so_callback
  <1> HIDE DEF m, cut
  <1>5. TextComes(raw, cut, m, capacity)
    BY <1>1, <1>2, LongTextComes
  <1>6. /\ new.text \in Seq(Nat) /\ Len(new.text) = capacity
        /\ got \in Seq(Positive) /\ Len(got) <= l
        /\ got = SubSeq(cut, 1, Len(got))
        /\ lso_write(new, 0, got, m, total) = new
    BY <1>5 DEF TextComes
  <1>7. l < capacity => got = cut
    BY <1>2, <1>5, WholeText
  <1> HIDE DEF new, got, l, total
  <1>8. Len(got) \in Nat /\ Len(got) < m
    BY <1>1, <1>2, <1>6
  <1>9. so_write(new, 0, got, total) = new
    BY <1>6, <1>8 DEF so_write, m
  <1>10. got = SubSeq(val, 1, Len(got))
    <2> DEFINE k == Len(got)
               a == SubSeq(cut, 1, k)
               b == SubSeq(val, 1, k)
    <2>1. k \in 0 .. l /\ k \in 0 .. Len(val) /\ l \in 0 .. Len(val) /\ Len(cut) = l
      BY <1>1, <1>2, <1>6, <1>8 DEF l
    <2> HIDE DEF k
    <2>2. a \in Seq(Positive) /\ Len(a) = k /\ \A i \in 1 .. k : a[i] = cut[i]
      BY <1>2, <2>1, FirstPart
    <2>3. b \in Seq(Positive) /\ Len(b) = k /\ \A i \in 1 .. k : b[i] = val[i]
      BY <2>1, FirstPart
    <2>4. \A i \in 1 .. l : SubSeq(val, 1, l)[i] = val[i]
      BY <2>1, FirstPart
    <2>5. \A i \in 1 .. k : i \in 1 .. l
      BY <1>2, <2>1
    <2>6. \A i \in 1 .. k : a[i] = b[i]
      BY <1>2, <2>2, <2>3, <2>4, <2>5
    <2> HIDE DEF a, b
    <2>7. a = b
      BY <2>2, <2>3, <2>6, SeqEqual
    <2> QED BY <1>6, <2>7 DEF a, b, k
  <1>11. Len(val) < capacity /\ Len(val) < m => si_read(new, 0) = val
    <2>1. SUFFICES ASSUME Len(val) < capacity, Len(val) < m PROVE si_read(new, 0) = val
      OBVIOUS
    <2>2. cut = val
      BY <2>1 DEF cut
    <2>3. got = val
      BY <1>7, <2>1, <2>2 DEF l
    <2>4. si_read(new, 0) = got
      BY DEF si_read, got, check_lso_callback, m
    <2> QED BY <2>3, <2>4
  <1>12. so_write(raw, 0, val, total) = new /\ check_so_callback(new, 0) = got
    BY <1>3, <1>4 DEF new, got, m
  <1>13. LET t == TextHead + capacity
             n == so_write(raw, 0, val, t)
             g == check_so_callback(n, 0)
         IN  /\ Len(n.text) = capacity
             /\ g = SubSeq(val, 1, Len(g))
             /\ so_write(n, 0, g, t) = n
             /\ Len(val) < capacity /\ Len(val) < MAX_STRING_SIZE => si_read(n, 0) = val
    BY <1>6, <1>9, <1>10, <1>11, <1>12, SMTT(30) DEF total, m
  <1> QED BY <1>13 DEF TextComesBackCut

LEMMA SamePart ==
    ASSUME NEW s \in Seq(Nat), NEW t \in Seq(Nat), NEW m \in Positive, NEW n \in Int,
           n <= Len(s), Len(t) = Len(s), \A i \in m .. n : s[i] = t[i]
    PROVE  SubSeq(s, m, n) = SubSeq(t, m, n)
  <1> DEFINE a == SubSeq(s, m, n)
             b == SubSeq(t, m, n)
             l == IF m <= n THEN n - m + 1 ELSE 0
  <1>1. m \in Nat /\ m > 0 /\ Len(s) \in Nat
    BY DEF Positive
  <1>2. \A i \in m .. n : s[i] \in Nat /\ t[i] \in Nat
    BY <1>1
  <1>3. /\ a \in Seq(Nat) /\ Len(a) = l
        /\ \A i \in 1 .. n - m + 1 : a[i] = s[m + i - 1]
    BY <1>1, <1>2, SubSeqProperties
  <1>4. /\ b \in Seq(Nat) /\ Len(b) = l
        /\ \A i \in 1 .. n - m + 1 : b[i] = t[m + i - 1]
    BY <1>1, <1>2, SubSeqProperties
  <1> HIDE DEF a, b
  <1>5. ASSUME NEW i \in 1 .. l
        PROVE  a[i] = b[i]
    <2>1. i \in 1 .. n - m + 1 /\ m + i - 1 \in m .. n
      BY <1>1
    <2> QED BY <1>3, <1>4, <2>1
  <1> HIDE DEF l
  <1>6. a = b
    BY <1>3, <1>4, <1>5, SeqEqual
  <1> QED BY <1>6 DEF a, b

\* In an array of strings, a text with room for itself and its terminator in a string of its
\* own leaves what the later elements hold (put_CIP_STRING, get_CIP_STRING).
THEOREM LaterTextsStay ==
    ASSUME NEW capacity \in Positive, NEW raw \in Strings, Len(raw.text) = capacity,
           NEW val \in Seq(Nat), Len(val) < T_CIP_STRUCT_STRING_BUF, NEW writer,
           NEW element \in Nat \ {0}, NEW size \in Nat \ {0},
           Before(element) + size <= capacity
    PROVE  LaterTextStays(raw, writer, element, val, size, capacity)
  <1> DEFINE total == TextHead + capacity
             put == put_CIP_STRING(raw, val, total)
             new == lso_write(raw, writer, val, size, total)
             b == Before(element)
  <1>1. /\ b \in Nat /\ b >= 88 /\ capacity \in Nat /\ Len(val) \in Nat /\ Len(val) < 84
        /\ b + size <= capacity /\ raw.text \in Seq(Nat) /\ raw.type = "STRUCT"
    BY DEF Before, T_CIP_STRUCT_LEN_BYTES, T_CIP_STRUCT_STRING_BUF, Positive, Strings
  <1>2. CASE new = raw
    <2> HIDE DEF new
    <2> QED BY <1>2 DEF LaterTextStays, new, total
  <1>3. CASE new # raw
    <2>1. new = Written(put)
      <3> HIDE DEF put
      <3>1. new = raw \/ new = Written(put)
        BY DEF lso_write, put
      <3> QED BY <1>3, <3>1
    <2>2. put = [type |-> "STRUCT", length |-> put.length, text |-> put.text]
      <3> HIDE DEF total
      <3> DEFINE n == IF Len(val) + TextHead >= total THEN total - TextHead - 1 ELSE Len(val)
                 part == Terminated(SubSeq(val, 1, n))
      <3> HIDE DEF n, part
      <3>1. put = [type |-> "STRUCT", length |-> n,
                   text |-> part \o SubSeq(raw.text, Len(part) + 1, Len(raw.text))]
        BY PutTextIs DEF n, part
      <3> QED BY <3>1
    <2>3. /\ put.text \in Seq(Nat) /\ Len(put.text) = capacity
          /\ \A i \in Room(val, capacity) + 2 .. capacity : put.text[i] = raw.text[i]
      BY PutText DEF Stored
    <2> HIDE DEF put, new
    <2>4. new.type = "STRUCT" /\ new.text = put.text
      <3> DEFINE t == put.text
                 k == put.length
      <3>1. put = [type |-> "STRUCT", length |-> k, text |-> t]
        BY <2>2
      <3> HIDE DEF t, k
      <3>2. new = [type |-> "STRUCT", length |-> Len(CString(t)), text |-> t]
        BY <2>1, <3>1, WrittenIs
      <3>3. new.type = "STRUCT" /\ new.text = t
        BY <3>2
      <3> QED BY <3>3 DEF t
    <2>5. \A i \in 85 .. capacity : new.text[i] = raw.text[i]
      <3>1. Room(val, capacity) \in Nat /\ Room(val, capacity) + 2 <= 85
        BY <1>1 DEF Room
      <3>2. ASSUME NEW i \in 85 .. capacity
            PROVE  new.text[i] = raw.text[i]
        <4>1. i \in Room(val, capacity) + 2 .. capacity
          BY <1>1, <3>1
        <4> QED BY <2>3, <2>4, <4>1
      <3> QED BY <3>2
    <2>6. LengthAt(new, element) = LengthAt(raw, element) /\ LengthAt(raw, element) \in Nat
      <3>1. b - 3 \in 85 .. capacity /\ b - 2 \in 85 .. capacity
            /\ b - 3 \in 1 .. capacity /\ b - 2 \in 1 .. capacity
        <4> HIDE DEF b
        <4> QED BY <1>1
      <3>2. LengthAt(new, element) = new.text[b - 3] + 256 * new.text[b - 2]
        BY DEF LengthAt
      <3>3. LengthAt(raw, element) = raw.text[b - 3] + 256 * raw.text[b - 2]
        BY DEF LengthAt
      <3> DEFINE i == b - 3
                 j == b - 2
      <3> HIDE DEF b
      <3>4. i \in 1 .. capacity /\ j \in 1 .. capacity /\ i \in 85 .. capacity /\ j \in 85 .. capacity
        BY <3>1
      <3> HIDE DEF i, j
      <3>5. raw.text[i] \in Nat /\ raw.text[j] \in Nat
        <4> DEFINE t == raw.text
        <4>1. t \in Seq(Nat) /\ Len(t) = capacity
          BY <1>1
        <4> HIDE DEF t
        <4>2. t[i] \in Nat /\ t[j] \in Nat
          BY <3>4, <4>1
        <4> QED BY <4>2 DEF t
      <3>6. new.text[i] = raw.text[i] /\ new.text[j] = raw.text[j]
        BY <2>5, <3>4
      <3>7. LengthAt(new, element) = raw.text[i] + 256 * raw.text[j]
            /\ LengthAt(raw, element) = raw.text[i] + 256 * raw.text[j]
        BY <3>2, <3>3, <3>6 DEF i, j
      <3> DEFINE x == raw.text[i]
                 y == raw.text[j]
      <3>8. x \in Nat /\ y \in Nat /\ LengthAt(raw, element) = x + 256 * y
        BY <3>5, <3>7
      <3> HIDE DEF x, y
      <3>9. LengthAt(raw, element) \in Nat
        BY <3>8
      <3> QED BY <3>7, <3>9
    <2> DEFINE length == LengthAt(raw, element)
               n == IF length >= size THEN size - 1 ELSE length
    <2>7. n \in Nat /\ b + n <= capacity /\ b + 1 \in Positive /\ b + n \in Int
      <3> HIDE DEF length, b
      <3>1. length \in Nat
        BY <2>6 DEF length
      <3> QED BY <1>1, <3>1 DEF Positive
    <2>8. SubSeq(new.text, b + 1, b + n) = SubSeq(raw.text, b + 1, b + n)
      <3> HIDE DEF b, n
      <3>1. \A i \in b + 1 .. b + n : new.text[i] = raw.text[i]
        BY <1>1, <2>5, <2>7
      <3>2. new.text \in Seq(Nat) /\ Len(new.text) = capacity
        BY <2>3, <2>4
      <3> DEFINE s == new.text
                 t == raw.text
                 m == b + 1
                 e == b + n
      <3>3. /\ s \in Seq(Nat) /\ t \in Seq(Nat) /\ Len(s) = capacity /\ Len(t) = capacity
            /\ m \in Positive /\ e \in Int /\ e <= Len(s) /\ \A i \in m .. e : s[i] = t[i]
        BY <1>1, <2>7, <3>1, <3>2
      <3> HIDE DEF s, t, m, e
      <3>4. Len(t) = Len(s) /\ e <= Len(s)
        BY <3>3
      <3>5. SubSeq(s, m, e) = SubSeq(t, m, e)
        BY <3>3, <3>4, SamePart
      <3> QED BY <3>5 DEF s, t, m, e
    <2>9. Struct_text(raw, element, size) = CString(SubSeq(raw.text, b + 1, b + n))
      BY DEF Struct_text
    <2>10. Struct_text(new, element, size) = CString(SubSeq(new.text, b + 1, b + n))
      BY <2>6 DEF Struct_text
    <2> HIDE DEF b, n
    <2>11. get_CIP_STRING(new, element, size) = get_CIP_STRING(raw, element, size)
      BY <1>1, <2>4, <2>8, <2>9, <2>10 DEF get_CIP_STRING
    <2>12. lsi_read(new, element, size) = lsi_read(raw, element, size)
      BY <2>11 DEF lsi_read
    <2> QED BY <2>12 DEF LaterTextStays, new, total
  <1> QED BY <1>2, <1>3

\* What DataChecks says of texts (so_write, check_so_callback, put_CIP_STRING,
\* get_CIP_STRING).
THEOREM AllTextsComeBack == TextComesBackHolds
  <1>1. ASSUME NEW n \in Nat
        PROVE  CharsOf(n) \in Seq(Positive) /\ Len(CharsOf(n)) = n
    <2>1. \A i \in 1 .. n : 65 + i \in Positive
      BY DEF Positive
    <2>2. CharsOf(n) \in [1 .. n -> Positive]
      BY <2>1 DEF CharsOf
    <2> QED BY <2>2, FunctionIsSeq
  <1>2. ASSUME NEW capacity \in 1 .. 5, NEW m \in 0 .. 3
        PROVE  /\ RawOf(capacity, m) \in Strings
               /\ Len(RawOf(capacity, m).text) = capacity
               /\ capacity \in Positive
    <2> DEFINE text == [i \in 1 .. capacity |-> IF i <= m THEN 97 ELSE 0]
    <2>1. text \in [1 .. capacity -> Nat]
      OBVIOUS
    <2>2. RawOf(capacity, m) = [type |-> "STRUCT", length |-> m, text |-> text]
      BY DEF RawOf
    <2> HIDE DEF text
    <2>3. capacity \in Nat /\ capacity \in Positive /\ m \in Nat
      BY DEF Positive
    <2>4. text \in Seq(Nat) /\ Len(text) = capacity
      BY <2>1, <2>3, FunctionIsSeq
    <2> QED BY <2>2, <2>3, <2>4 DEF Strings
  <1>3. ASSUME NEW capacity \in 1 .. 5, NEW n \in 0 .. 5, NEW m \in 0 .. 3,
               NEW size \in n + 1 .. 7
        PROVE  LongTextComesBack(RawOf(capacity, m), CharsOf(n), size, capacity)
    <2>1. size \in Nat /\ Len(CharsOf(n)) < size
      <3>1. Len(CharsOf(n)) = n
        BY <1>1
      <3> QED BY <3>1
    <2>2. CharsOf(n) \in Seq(Positive)
      BY <1>1
    <2>3. RawOf(capacity, m) \in Strings /\ Len(RawOf(capacity, m).text) = capacity
          /\ capacity \in Positive
      BY <1>2
    <2> QED BY <2>1, <2>2, <2>3, LongTextsComeBack
  <1>4. ASSUME NEW capacity \in 1 .. 5, NEW n \in 0 .. 5, NEW m \in 0 .. 3
        PROVE  TextComesBackCut(RawOf(capacity, m), CharsOf(n), capacity)
    <2>1. CharsOf(n) \in Seq(Positive)
      BY <1>1
    <2>2. RawOf(capacity, m) \in Strings /\ Len(RawOf(capacity, m).text) = capacity
          /\ capacity \in Positive
      BY <1>2
    <2> QED BY <2>1, <2>2, TextsComeBack
  <1>5. ASSUME NEW n \in {0, 3, T_CIP_STRUCT_STRING_BUF - 1}, NEW m \in {0, 3}, NEW writer \in {0, 1}
        PROVE  LaterTextStays(PairOf(m), writer, 1, CharsOf(n), n + 1, PairCapacity)
    <2>1. Before(1) = 88 /\ PairCapacity = 172 /\ n \in {0, 3, 83} /\ T_CIP_STRUCT_STRING_BUF = 84
      BY DEF Before, PairCapacity, T_CIP_STRUCT_LEN_BYTES, T_CIP_STRUCT_STRING_BUF
    <2> DEFINE text == [i \in 1 .. PairCapacity |->
                          IF i = Before(1) - 3 THEN m
                          ELSE IF i \in 1 .. m \/ i - Before(1) \in 1 .. m THEN 97 ELSE 0]
    <2>2. text \in [1 .. PairCapacity -> Nat]
      OBVIOUS
    <2>3. PairOf(m) = [type |-> "STRUCT", length |-> m, text |-> text]
      BY DEF PairOf
    <2> HIDE DEF text
    <2>4. text \in Seq(Nat) /\ Len(text) = PairCapacity
      <3>1. PairCapacity \in Nat
        BY <2>1
      <3> QED BY <2>2, <3>1, FunctionIsSeq
    <2>5. PairOf(m) \in Strings /\ Len(PairOf(m).text) = PairCapacity
      <3>1. m \in Nat
        OBVIOUS
      <3> QED BY <2>3, <2>4, <3>1 DEF Strings
    <2>6. CharsOf(n) \in Seq(Nat) /\ Len(CharsOf(n)) < T_CIP_STRUCT_STRING_BUF
      <3>1. n \in Nat /\ n < 84
        BY <2>1
      <3>2. CharsOf(n) \in Seq(Positive) /\ Len(CharsOf(n)) = n
        BY <1>1, <3>1
      <3>3. Positive \subseteq Nat
        BY DEF Positive
      <3>4. CharsOf(n) \in Seq(Nat)
        BY <3>2, <3>3, SeqLarger
      <3> QED BY <2>1, <3>1, <3>2, <3>4
    <2>7. /\ PairCapacity \in Positive /\ 1 \in Nat \ {0} /\ n + 1 \in Nat \ {0}
          /\ Before(1) + (n + 1) <= PairCapacity
      BY <2>1 DEF Positive
    <2> QED BY <2>5, <2>6, <2>7, LaterTextsStay
  <1> QED BY <1>3, <1>4, <1>5 DEF TextComesBackHolds
=============================================================================
