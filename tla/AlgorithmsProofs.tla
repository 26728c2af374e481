-------------------------- MODULE AlgorithmsProofs --------------------------
(***************************************************************************)
(* The ALU computes what its instructions mean for words of every width,   *)
(* and klib's copying routines what C asks for, for memories of every      *)
(* size.                                                                   *)
(***************************************************************************)
EXTENDS Algorithms, Induction

-----------------------------------------------------------------------------
(* Division and powers of two *)

(* Quotient and remainder of a division. *)
LEMMA DivModIs ==
  ASSUME NEW a \in Int, NEW m \in Nat \ {0}
  PROVE  a \div m \in Int /\ a % m \in 0 .. m - 1 /\ a = m * (a \div m) + (a % m)
  OBVIOUS

(* They are the only ones. *)
LEMMA DivModUnique ==
  ASSUME NEW a \in Int, NEW m \in Nat \ {0}, NEW q \in Int, NEW r \in 0 .. m - 1, a = m * q + r
  PROVE  a \div m = q /\ a % m = r
  OBVIOUS

(* Multiplying keeps the order. *)
LEMMA TimesMonotone ==
  ASSUME NEW p \in Nat, NEW x \in Int, NEW y \in Int, x <= y
  PROVE  p * x <= p * y
  OBVIOUS

LEMMA MultipleMod ==
  ASSUME NEW m \in Nat \ {0}, NEW q \in Int
  PROVE  (m * q) % m = 0
  <1>1. m * q \in Int /\ m * q = m * q + 0 /\ 0 \in 0 .. m - 1
    OBVIOUS
  <1>2. QED
    BY <1>1, DivModUnique

LEMMA Pow ==
  ASSUME NEW k \in 0 .. XLEN
  PROVE  2 ^ k \in Nat \ {0} /\ 2 ^ (k + 1) = 2 * 2 ^ k
  BY PowersOfTwo

LEMMA PowSplit ==
  ASSUME NEW i \in Nat, NEW j \in Nat, i + j <= XLEN
  PROVE  2 ^ (i + j) = 2 ^ i * 2 ^ j
  <1> DEFINE A == {k \in Nat : i + k <= XLEN => 2 ^ (i + k) = 2 ^ i * 2 ^ k}
  <1>0. XLEN \in Nat
    BY XLENAssumption
  <1>1. A \in SUBSET Nat /\ 0 \in A
    <2>1. i <= XLEN => 2 ^ i \in Nat
      BY <1>0, Pow
    <2>2. 2 ^ 0 = 1 /\ i + 0 = i
      BY PowersOfTwo
    <2>3. QED
      BY <2>1, <2>2
  <1>2. \A k \in A : k + 1 \in A
    <2> SUFFICES ASSUME NEW k \in A, i + (k + 1) <= XLEN PROVE 2 ^ (i + (k + 1)) = 2 ^ i * 2 ^ (k + 1)
      OBVIOUS
    <2>1. k \in 0 .. XLEN /\ i \in 0 .. XLEN /\ i + k \in 0 .. XLEN /\ i + (k + 1) = (i + k) + 1
      BY <1>0
    <2>2. /\ 2 ^ ((i + k) + 1) = 2 * 2 ^ (i + k) /\ 2 ^ (k + 1) = 2 * 2 ^ k
          /\ 2 ^ i \in Nat /\ 2 ^ k \in Nat /\ 2 ^ (i + k) \in Nat
      BY <2>1, Pow
    <2>3. 2 ^ (i + k) = 2 ^ i * 2 ^ k
      BY <2>1
    <2>4. 2 * (2 ^ i * 2 ^ k) = 2 ^ i * (2 * 2 ^ k)
      BY <2>2
    <2>5. QED
      BY <2>1, <2>2, <2>3, <2>4
  <1>3. A = Nat
    <2> HIDE DEF A
    <2> QED BY <1>1, <1>2, NatSetInduction
  <1>4. QED
    BY <1>3

(* Adding multiples of higher powers keeps a bit. *)
LEMMA BitAddHigh ==
  ASSUME NEW x \in Int, NEW z \in Int, NEW k \in 0 .. XLEN
  PROVE  Bit(x + 2 ^ (k + 1) * z, k) = Bit(x, k)
  <1> DEFINE p == 2 ^ k
             q == x \div p
             r == x % p
  <1>1. p \in Nat \ {0} /\ 2 ^ (k + 1) = 2 * p
    BY Pow
  <1>2. q \in Int /\ r \in 0 .. p - 1 /\ x = p * q + r
    BY <1>1, DivModIs
  <1> HIDE DEF p, q, r
  <1>3. x + 2 * p * z = p * (q + 2 * z) + r
    BY <1>1, <1>2
  <1>4. (x + 2 * p * z) \div p = q + 2 * z
    <2>1. x + 2 * p * z \in Int /\ q + 2 * z \in Int
      BY <1>1, <1>2
    <2>2. QED
      BY <1>1, <1>2, <1>3, <2>1, DivModUnique
  <1>5. (q + 2 * z) % 2 = q % 2
    BY <1>2
  <1>6. QED
    BY <1>1, <1>4, <1>5 DEF Bit, p, q

LEMMA BitType ==
  ASSUME NEW x \in Int, NEW k \in 0 .. XLEN
  PROVE  Bit(x, k) \in {0, 1} /\ x \div 2 ^ k \in Int
  <1>1. x \div 2 ^ k \in Int
    BY Pow, DivModIs
  <1>2. QED
    BY <1>1 DEF Bit

(* The sums of FromBits *)
Sums(f, S) ==
  /\ f \in [0 .. XLEN -> Nat]
  /\ f[0] = 0
  /\ \A k \in 0 .. XLEN - 1 : f[k + 1] = f[k] + (IF k \in S THEN 2 ^ k ELSE 0)

LEMMA FromBitsSums ==
  ASSUME NEW S
  PROVE  \E f : Sums(f, S) /\ FromBits(S) = f[XLEN]
  <1> DEFINE n == XLEN
             step == [x \in (1 .. n) \X Nat |-> x[2] + (IF x[1] - 1 \in S THEN 2 ^ (x[1] - 1) ELSE 0)]
             IsRec(g) == g = [k \in 0 .. n |-> IF k = 0 THEN 0
                                               ELSE g[k - 1] + (IF k - 1 \in S THEN 2 ^ (k - 1) ELSE 0)]
             sum == CHOOSE g : IsRec(g)
  <1>0. n \in Nat
    BY XLENAssumption
  <1>1. FromBits(S) = sum[n]
    BY DEF FromBits
  <1>2. step \in [(1 .. n) \X Nat -> Nat]
    <2> SUFFICES ASSUME NEW k \in 1 .. n, NEW a \in Nat
                 PROVE  a + (IF k - 1 \in S THEN 2 ^ (k - 1) ELSE 0) \in Nat
      OBVIOUS
    <2>1. k - 1 \in 0 .. XLEN
      BY <1>0
    <2>2. 2 ^ (k - 1) \in Nat
      BY <2>1, Pow
    <2>3. QED
      BY <2>2
  <1>3. \A k \in 1 .. n : \A a \in Nat : step[<<k, a>>] = a + (IF k - 1 \in S THEN 2 ^ (k - 1) ELSE 0)
    OBVIOUS
  <1> HIDE DEF step, n
  <1>4. PICK g : IterateUpTo(g, n, Nat, 0, step)
    BY <1>0, <1>2, IteratesUpTo
  <1>5. g \in [0 .. n -> Nat] /\ g = [i \in 0 .. n |-> IF i = 0 THEN 0 ELSE step[<<i, g[i - 1]>>]]
    BY <1>4 DEF IterateUpTo
  <1>6. IsRec(g)
    <2>1. ASSUME NEW i \in 0 .. n
          PROVE  g[i] = IF i = 0 THEN 0 ELSE g[i - 1] + (IF i - 1 \in S THEN 2 ^ (i - 1) ELSE 0)
      <3>1. CASE i = 0
        BY <1>0, <1>5, <3>1
      <3>2. CASE i # 0
        <4>1. i \in 1 .. n /\ i - 1 \in 0 .. n
          BY <1>0, <3>2
        <4>2. g[i - 1] \in Nat /\ g[i] = step[<<i, g[i - 1]>>]
          BY <1>5, <3>2, <4>1
        <4>3. QED
          BY <1>3, <3>2, <4>1, <4>2
      <3>3. QED
        BY <3>1, <3>2
    <2>2. QED
      BY <1>5, <2>1
  <1>7. IsRec(sum)
    <2> HIDE DEF IsRec
    <2> QED BY <1>6
  <1> HIDE DEF sum
  <1>8. \A k \in 0 .. n - 1 : sum[k + 1] = sum[k] + (IF k \in S THEN 2 ^ k ELSE 0)
    <2> SUFFICES ASSUME NEW k \in 0 .. n - 1 PROVE sum[k + 1] = sum[k] + (IF k \in S THEN 2 ^ k ELSE 0)
      OBVIOUS
    <2>1. k + 1 \in 0 .. n /\ k + 1 # 0 /\ (k + 1) - 1 = k
      BY <1>0
    <2>2. QED
      BY <1>7, <2>1
  <1>9. sum[0] = 0
    BY <1>0, <1>7
  <1> DEFINE A == {k \in Nat : k <= n => sum[k] \in Nat}
  <1>10. A \in SUBSET Nat /\ 0 \in A
    BY <1>9
  <1>11. \A k \in A : k + 1 \in A
    <2> SUFFICES ASSUME NEW k \in A, k + 1 <= n PROVE sum[k + 1] \in Nat
      OBVIOUS
    <2>1. k \in 0 .. n - 1 /\ k \in 0 .. XLEN /\ sum[k] \in Nat
      BY <1>0 DEF n
    <2>2. 2 ^ k \in Nat
      BY <2>1, Pow
    <2>3. QED
      BY <1>8, <2>1, <2>2
  <1>12. A = Nat
    <2> HIDE DEF A
    <2> QED BY <1>10, <1>11, NatSetInduction
  <1>13. sum \in [0 .. n -> Nat]
    <2>1. \A k \in 0 .. n : sum[k] \in Nat
      BY <1>0, <1>12
    <2> HIDE DEF A
    <2>2. QED
      BY <1>7, <2>1
  <1>14. Sums(sum, S)
    BY <1>8, <1>9, <1>13 DEF Sums, n
  <1>15. QED
    BY <1>1, <1>14 DEF n

(* The word made of bits has these bits. *)
LEMMA SumBits ==
  ASSUME NEW S, NEW f, Sums(f, S), NEW j \in 0 .. XLEN
  PROVE  /\ f[j] \in Nat /\ f[j] < 2 ^ j
         /\ \A k \in 0 .. j - 1 : Bit(f[j], k) = IF k \in S THEN 1 ELSE 0
  <1> DEFINE Good(i) == /\ f[i] \in Nat /\ f[i] < 2 ^ i
                        /\ \A k \in 0 .. i - 1 : Bit(f[i], k) = IF k \in S THEN 1 ELSE 0
             A == {i \in Nat : i <= XLEN => Good(i)}
  <1>0. XLEN \in Nat
    BY XLENAssumption
  <1>1. A \in SUBSET Nat /\ 0 \in A
    <2>1. f[0] = 0 /\ 2 ^ 0 = 1
      BY PowersOfTwo DEF Sums
    <2>2. QED
      BY <2>1
  <1>2. \A i \in A : i + 1 \in A
    <2> SUFFICES ASSUME NEW i \in A, i + 1 <= XLEN PROVE Good(i + 1)
      OBVIOUS
    <2>0. Good(i)
      BY <1>0
    <2>1. i \in Nat /\ i \in 0 .. XLEN - 1 /\ i \in 0 .. XLEN
      BY <1>0
    <2> DEFINE c == IF i \in S THEN 1 ELSE 0
               x == f[i]
               p == 2 ^ i
    <2>2. x \in Nat /\ x < p /\ p \in Nat \ {0} /\ 2 ^ (i + 1) = 2 * p
      BY <2>0, <2>1, Pow
    <2>3. f[i + 1] = x + p * c
      <3>1. f[i + 1] = f[i] + (IF i \in S THEN 2 ^ i ELSE 0)
        BY <2>1 DEF Sums
      <3> HIDE DEF x, p
      <3>2. QED
        BY <2>2, <3>1 DEF x, p
    <2>4. c \in {0, 1}
      OBVIOUS
    <2> HIDE DEF c, x, p
    <2>5. f[i + 1] \in Nat /\ f[i + 1] < 2 ^ (i + 1)
      BY <2>2, <2>3, <2>4
    <2>6. ASSUME NEW k \in 0 .. i PROVE Bit(f[i + 1], k) = IF k \in S THEN 1 ELSE 0
      <3>1. CASE k = i
        <4>1. f[i + 1] \in Int /\ c \in Int /\ x \in 0 .. p - 1 /\ f[i + 1] = p * c + x
          BY <2>2, <2>3, <2>4
        <4>2. f[i + 1] \div p = c
          BY <2>2, <4>1, DivModUnique
        <4>3. c % 2 = c
          BY <2>4
        <4>4. QED
          BY <3>1, <4>2, <4>3 DEF Bit, p, c
      <3>2. CASE k # i
        <4> DEFINE l == i - (k + 1)
        <4>1. /\ k \in 0 .. i - 1 /\ k \in 0 .. XLEN /\ k + 1 \in 0 .. XLEN /\ k + 1 \in Nat
              /\ l \in Nat /\ l \in 0 .. XLEN /\ (k + 1) + l = i /\ (k + 1) + l <= XLEN
          BY <1>0, <2>1, <3>2
        <4> HIDE DEF l
        <4>2. p = 2 ^ (k + 1) * 2 ^ l
          BY <4>1, PowSplit DEF p
        <4>3. 2 ^ l \in Nat /\ 2 ^ (k + 1) \in Nat
          BY <4>1, Pow
        <4> DEFINE z == 2 ^ l * c
        <4>4. z \in Int /\ x \in Int /\ p * c = 2 ^ (k + 1) * z
          BY <2>2, <2>4, <4>2, <4>3
        <4> HIDE DEF z
        <4>5. Bit(x + 2 ^ (k + 1) * z, k) = Bit(x, k)
          BY <4>1, <4>4, BitAddHigh
        <4>6. Bit(f[i + 1], k) = Bit(x, k)
          BY <2>3, <4>4, <4>5
        <4>7. Bit(x, k) = IF k \in S THEN 1 ELSE 0
          BY <2>0, <4>1 DEF x
        <4>8. QED
          BY <4>6, <4>7
      <3>3. QED
        BY <3>1, <3>2
    <2>7. QED
      BY <2>1, <2>5, <2>6
  <1>3. A = Nat
    <2> HIDE DEF A
    <2> QED BY <1>1, <1>2, NatSetInduction
  <1>4. QED
    BY <1>3

LEMMA WordFacts ==
  /\ XLEN \in Nat /\ XLEN > 0 /\ XLEN - 1 \in 0 .. XLEN /\ XLEN \in 0 .. XLEN
  /\ Modulus = 2 ^ XLEN /\ Modulus \in Nat \ {0} /\ Words = 0 .. Modulus - 1
  /\ 2 ^ (XLEN - 1) \in Nat \ {0} /\ Modulus = 2 * 2 ^ (XLEN - 1)
  <1>1. XLEN \in Nat /\ XLEN > 0 /\ XLEN - 1 \in 0 .. XLEN /\ XLEN \in 0 .. XLEN /\ (XLEN - 1) + 1 = XLEN
    BY XLENAssumption
  <1>2. 2 ^ XLEN \in Nat \ {0} /\ 2 ^ (XLEN - 1) \in Nat \ {0} /\ 2 ^ XLEN = 2 * 2 ^ (XLEN - 1)
    BY <1>1, Pow
  <1>3. QED
    BY <1>1, <1>2 DEF Modulus, Words

(* The word made of bits is a word with these bits. *)
LEMMA FromBitsIs ==
  ASSUME NEW S
  PROVE  /\ FromBits(S) \in Words
         /\ \A k \in 0 .. XLEN - 1 : Bit(FromBits(S), k) = IF k \in S THEN 1 ELSE 0
  <1>1. PICK f : Sums(f, S) /\ FromBits(S) = f[XLEN]
    BY FromBitsSums
  <1>2. /\ f[XLEN] \in Nat /\ f[XLEN] < 2 ^ XLEN
        /\ \A k \in 0 .. XLEN - 1 : Bit(f[XLEN], k) = IF k \in S THEN 1 ELSE 0
    BY <1>1, WordFacts, SumBits
  <1>3. f[XLEN] \in Words
    BY <1>2, WordFacts
  <1>4. QED
    BY <1>1, <1>2, <1>3

(* One more bit of a remainder. *)
LEMMA NextBit ==
  ASSUME NEW x \in Int, NEW j \in 0 .. XLEN
  PROVE  x % 2 ^ (j + 1) = (x % 2 ^ j) + 2 ^ j * Bit(x, j)
  <1> DEFINE p == 2 ^ j
             q == x \div p
             r == x % p
             b == q % 2
  <1>1. p \in Nat \ {0} /\ 2 ^ (j + 1) = 2 * p
    BY Pow
  <1>2. q \in Int /\ r \in 0 .. p - 1 /\ x = p * q + r
    BY <1>1, DivModIs
  <1> HIDE DEF p, q, r
  <1>3. q \div 2 \in Int /\ b \in 0 .. 1 /\ q = 2 * (q \div 2) + b
    BY <1>2, DivModIs
  <1> DEFINE h == q \div 2
             m == 2 * p
             s == r + p * b
  <1>4. h \in Int /\ q = 2 * h + b
    BY <1>3
  <1> HIDE DEF b, h
  <1>5. m \in Nat \ {0} /\ s \in 0 .. m - 1 /\ x = m * h + s
    <2>1. b = 0 \/ b = 1
      BY <1>3
    <2>2. CASE b = 0
      BY <1>1, <1>2, <1>4, <2>2
    <2>3. CASE b = 1
      BY <1>1, <1>2, <1>4, <2>3
    <2>4. QED
      BY <2>1, <2>2, <2>3
  <1> HIDE DEF m, s
  <1>6. x % m = s
    BY <1>4, <1>5, DivModUnique
  <1>7. QED
    BY <1>1, <1>6 DEF m, s, b, r, q, p, Bit

(* A word is made of its bits: words with the same bits are equal. *)
LEMMA BitsGiveWord ==
  ASSUME NEW x \in Words
  PROVE  FromBits(Bits(x)) = x
  <1>0. x \in Int
    BY WordFacts
  <1>1. PICK f : Sums(f, Bits(x)) /\ FromBits(Bits(x)) = f[XLEN]
    BY FromBitsSums
  <1> DEFINE A == {j \in Nat : j <= XLEN => f[j] = x % 2 ^ j}
  <1>2. A \in SUBSET Nat /\ 0 \in A
    <2>1. f[0] = 0 /\ 2 ^ 0 = 1
      BY <1>1, PowersOfTwo DEF Sums
    <2>2. x % 1 = 0
      BY <1>0
    <2>3. QED
      BY <2>1, <2>2
  <1>3. \A j \in A : j + 1 \in A
    <2> SUFFICES ASSUME NEW j \in A, j + 1 <= XLEN PROVE f[j + 1] = x % 2 ^ (j + 1)
      OBVIOUS
    <2>1. j \in 0 .. XLEN - 1 /\ j \in 0 .. XLEN
      BY WordFacts
    <2>2. f[j] = x % 2 ^ j
      BY <2>1
    <2>3. f[j + 1] = f[j] + (IF j \in Bits(x) THEN 2 ^ j ELSE 0)
      BY <1>1, <2>1 DEF Sums
    <2>4. x % 2 ^ (j + 1) = (x % 2 ^ j) + 2 ^ j * Bit(x, j)
      BY <1>0, <2>1, NextBit
    <2>5. (IF j \in Bits(x) THEN 2 ^ j ELSE 0) = 2 ^ j * Bit(x, j)
      <3>1. Bit(x, j) \in {0, 1} /\ 2 ^ j \in Nat
        BY <1>0, <2>1, BitType, Pow
      <3>2. j \in Bits(x) <=> Bit(x, j) = 1
        BY <2>1 DEF Bits, Bit
      <3>3. QED
        BY <3>1, <3>2
    <2>6. QED
      BY <2>2, <2>3, <2>4, <2>5
  <1>4. A = Nat
    <2> HIDE DEF A
    <2> QED BY <1>2, <1>3, NatSetInduction
  <1>5. f[XLEN] = x % 2 ^ XLEN
    BY <1>4, WordFacts
  <1>6. x % Modulus = x
    BY WordFacts
  <1>7. QED
    BY <1>1, <1>5, <1>6, WordFacts

(* The sign is the highest bit. *)
LEMMA SignBit ==
  ASSUME NEW a \in Words
  PROVE  /\ Negative(a) <=> a >= 2 ^ (XLEN - 1)
         /\ SignedValue(a, XLEN) = IF Negative(a) THEN a - Modulus ELSE a
         /\ SignedValue(a, XLEN) \in Int
  <1> DEFINE p == 2 ^ (XLEN - 1)
  <1>1. p \in Nat \ {0} /\ Modulus = 2 * p /\ a \in 0 .. 2 * p - 1
    BY WordFacts
  <1>2. XLEN - 1 \in 0 .. XLEN - 1
    BY WordFacts
  <1> HIDE DEF p
  <1>3. (a \div p) % 2 = 1 <=> a >= p
    <2>1. CASE a >= p
      <3>1. a - p \in 0 .. p - 1 /\ a = p * 1 + (a - p) /\ a \in Int
        BY <1>1, <2>1
      <3>2. a \div p = 1
        BY <1>1, <3>1, DivModUnique
      <3>3. QED
        BY <2>1, <3>2
    <2>2. CASE ~(a >= p)
      <3>1. a \in 0 .. p - 1 /\ a = p * 0 + a /\ a \in Int
        BY <1>1, <2>2
      <3>2. a \div p = 0
        BY <1>1, <3>1, DivModUnique
      <3>3. QED
        BY <2>2, <3>2
    <2>3. QED
      BY <2>1, <2>2
  <1>4. Negative(a) <=> a >= p
    BY <1>2, <1>3 DEF Negative, Bits, p
  <1>5. SignedValue(a, XLEN) = IF a < p THEN a ELSE a - Modulus
    BY WordFacts DEF SignedValue, p
  <1>6. QED
    BY <1>1, <1>4, <1>5 DEF p

-----------------------------------------------------------------------------
(* The ALU *)

(* A remainder is congruent to what differs by a multiple. *)
LEMMA Congruent ==
  ASSUME NEW x \in Int, NEW y \in Int, NEW z \in Int, x = y + Modulus * z
  PROVE  x % Modulus \in Words /\ ((x % Modulus) - y) % Modulus = 0
  <1> DEFINE m == Modulus
             q == x \div m
             r == x % m
  <1>1. m \in Nat \ {0} /\ Words = 0 .. m - 1
    BY WordFacts
  <1>2. q \in Int /\ r \in 0 .. m - 1 /\ x = m * q + r
    BY <1>1, DivModIs
  <1> HIDE DEF q, r
  <1>3. r - y = m * (z - q) /\ z - q \in Int
    BY <1>1, <1>2
  <1>4. (m * (z - q)) % m = 0
    BY <1>1, <1>3, MultipleMod
  <1>5. QED
    BY <1>1, <1>2, <1>3, <1>4 DEF r

(* The signed value of a word differs from the word by 0 or 2^XLEN. *)
LEMMA SignedIs ==
  ASSUME NEW a \in Words
  PROVE  \E c \in {0, 1} : a = SignedValue(a, XLEN) + Modulus * c
  <1>1. a \in Int /\ Modulus \in Nat
    BY WordFacts
  <1>2. SignedValue(a, XLEN) = IF Negative(a) THEN a - Modulus ELSE a
    BY SignBit
  <1>3. CASE Negative(a)
    <2>1. a = SignedValue(a, XLEN) + Modulus * 1
      BY <1>1, <1>2, <1>3
    <2>2. QED
      BY <2>1
  <1>4. CASE ~Negative(a)
    <2>1. a = SignedValue(a, XLEN) + Modulus * 0
      BY <1>1, <1>2, <1>4
    <2>2. QED
      BY <2>1
  <1>5. QED
    BY <1>3, <1>4

LEMMA AddMeans ==
  ASSUME NEW a \in Words, NEW b \in Words
  PROVE  /\ WAdd(a, b) \in Words
         /\ (WAdd(a, b) - (SignedValue(a, XLEN) + SignedValue(b, XLEN))) % Modulus = 0
  <1> DEFINE sa == SignedValue(a, XLEN)
             sb == SignedValue(b, XLEN)
  <1>1. a \in Int /\ b \in Int /\ Modulus \in Nat /\ sa \in Int /\ sb \in Int
    BY WordFacts, SignBit
  <1>2. PICK c \in {0, 1} : a = sa + Modulus * c
    BY SignedIs
  <1>3. PICK d \in {0, 1} : b = sb + Modulus * d
    BY SignedIs
  <1> HIDE DEF sa, sb
  <1>4. a + b = (sa + sb) + Modulus * (c + d) /\ c + d \in Int /\ a + b \in Int /\ sa + sb \in Int
    BY <1>1, <1>2, <1>3
  <1>5. QED
    BY <1>4, Congruent DEF WAdd, sa, sb

LEMMA SubMeans ==
  ASSUME NEW a \in Words, NEW b \in Words
  PROVE  /\ WSub(a, b) \in Words
         /\ (WSub(a, b) - (SignedValue(a, XLEN) - SignedValue(b, XLEN))) % Modulus = 0
  <1> DEFINE sa == SignedValue(a, XLEN)
             sb == SignedValue(b, XLEN)
  <1>1. a \in Int /\ b \in Int /\ Modulus \in Nat /\ sa \in Int /\ sb \in Int
    BY WordFacts, SignBit
  <1>2. PICK c \in {0, 1} : a = sa + Modulus * c
    BY SignedIs
  <1>3. PICK d \in {0, 1} : b = sb + Modulus * d
    BY SignedIs
  <1> HIDE DEF sa, sb
  <1>4. /\ a + Modulus - b = (sa - sb) + Modulus * (c - d + 1) /\ c - d + 1 \in Int
        /\ a + Modulus - b \in Int /\ sa - sb \in Int
    BY <1>1, <1>2, <1>3
  <1>5. QED
    BY <1>4, Congruent DEF WSub, sa, sb

LEMMA ShamtType ==
  ASSUME NEW b \in Words
  PROVE  Shamt(b) \in 0 .. XLEN - 1 /\ Shamt(b) \in 0 .. XLEN /\ Shamt(b) = b % XLEN
  <1>1. b \in Int /\ XLEN \in Nat \ {0}
    BY WordFacts
  <1>2. b % XLEN \in 0 .. XLEN - 1
    BY <1>1, DivModIs
  <1>3. QED
    BY <1>1, <1>2 DEF Shamt

LEMMA ShiftLeftMeans ==
  ASSUME NEW a \in Words, NEW n \in 0 .. XLEN
  PROVE  /\ ShiftLeft(a, n) \in Words
         /\ (ShiftLeft(a, n) - SignedValue(a, XLEN) * 2 ^ n) % Modulus = 0
  <1> DEFINE sa == SignedValue(a, XLEN)
             p == 2 ^ n
  <1>1. a \in Int /\ Modulus \in Nat /\ sa \in Int /\ p \in Nat
    BY WordFacts, SignBit, Pow
  <1>2. PICK c \in {0, 1} : a = sa + Modulus * c
    BY SignedIs
  <1> HIDE DEF sa, p
  <1>3. a * p = sa * p + Modulus * (c * p) /\ c * p \in Int /\ a * p \in Int /\ sa * p \in Int
    BY <1>1, <1>2
  <1>4. QED
    BY <1>3, Congruent DEF ShiftLeft, sa, p

(* Comparing signs first is comparing signed values. *)
LEMMA SignedLessMeans ==
  ASSUME NEW a \in Words, NEW b \in Words
  PROVE  SignedLess(a, b) <=> SignedValue(a, XLEN) < SignedValue(b, XLEN)
  <1> DEFINE p == 2 ^ (XLEN - 1)
  <1>1. p \in Nat \ {0} /\ Modulus = 2 * p /\ a \in 0 .. 2 * p - 1 /\ b \in 0 .. 2 * p - 1
    BY WordFacts
  <1>2. Negative(a) <=> a >= p
    BY SignBit
  <1>3. Negative(b) <=> b >= p
    BY SignBit
  <1>4. /\ SignedValue(a, XLEN) = IF Negative(a) THEN a - Modulus ELSE a
        /\ SignedValue(b, XLEN) = IF Negative(b) THEN b - Modulus ELSE b
    BY SignBit
  <1> HIDE DEF p
  <1>5. Negative(a) \in BOOLEAN /\ Negative(b) \in BOOLEAN
    BY DEF Negative
  <1>6. CASE Negative(a) /\ Negative(b)
    <2>1. SignedLess(a, b) = (a < b)
      <3>1. Negative(a) = Negative(b)
        BY <1>5, <1>6
      <3>2. QED
        BY <3>1 DEF SignedLess
    <2>2. /\ SignedValue(a, XLEN) = a - Modulus /\ SignedValue(b, XLEN) = b - Modulus
          /\ a >= p /\ b >= p
      BY <1>2, <1>3, <1>4, <1>6
    <2>3. a - Modulus < b - Modulus <=> a < b
      BY <1>1
    <2>4. QED
      BY <2>1, <2>2, <2>3
  <1>7. CASE Negative(a) /\ ~Negative(b)
    <2>1. SignedLess(a, b) = TRUE
      <3>1. Negative(a) # Negative(b) /\ Negative(a) = TRUE
        BY <1>5, <1>7
      <3>2. QED
        BY <3>1, Zenon DEF SignedLess
    <2>2. /\ SignedValue(a, XLEN) = a - Modulus /\ SignedValue(b, XLEN) = b
          /\ a >= p /\ ~(b >= p)
      BY <1>2, <1>3, <1>4, <1>7
    <2>3. QED
      BY <1>1, <2>1, <2>2
  <1>8. CASE ~Negative(a) /\ Negative(b)
    <2>1. SignedLess(a, b) = FALSE
      <3>1. Negative(a) # Negative(b) /\ Negative(a) = FALSE
        BY <1>5, <1>8
      <3>2. QED
        BY <3>1, Zenon DEF SignedLess
    <2>2. /\ SignedValue(a, XLEN) = a /\ SignedValue(b, XLEN) = b - Modulus
          /\ ~(a >= p) /\ b >= p
      BY <1>2, <1>3, <1>4, <1>8
    <2>3. QED
      BY <1>1, <2>1, <2>2
  <1>9. CASE ~Negative(a) /\ ~Negative(b)
    <2>1. SignedLess(a, b) = (a < b)
      <3>1. Negative(a) = Negative(b)
        BY <1>5, <1>9
      <3>2. QED
        BY <3>1 DEF SignedLess
    <2>2. /\ SignedValue(a, XLEN) = a /\ SignedValue(b, XLEN) = b
          /\ ~(a >= p) /\ ~(b >= p)
      BY <1>2, <1>3, <1>4, <1>9
    <2>3. QED
      BY <1>1, <2>1, <2>2
  <1>10. QED
    BY <1>6, <1>7, <1>8, <1>9

(* Shifting right twice is shifting by the sum. *)
LEMMA DivDiv ==
  ASSUME NEW x \in Int, NEW i \in Nat, NEW j \in Nat, i + j <= XLEN
  PROVE  (x \div 2 ^ i) \div 2 ^ j = x \div 2 ^ (i + j)
  <1> DEFINE p == 2 ^ i
             s == 2 ^ j
             q == x \div p
             r == x % p
             t == q \div s
             u == q % s
             m == p * s
             v == p * u + r
  <1>1. p \in Nat \ {0} /\ s \in Nat \ {0} /\ 2 ^ (i + j) = m
    <2>1. i \in 0 .. XLEN /\ j \in 0 .. XLEN
      BY WordFacts
    <2>2. QED
      BY <2>1, Pow, PowSplit
  <1>2. q \in Int /\ r \in 0 .. p - 1 /\ x = p * q + r
    <2> HIDE DEF p
    <2> QED BY <1>1, DivModIs
  <1>3. t \in Int /\ u \in 0 .. s - 1 /\ q = s * t + u
    <2> HIDE DEF p, q, s
    <2> QED BY <1>1, <1>2, DivModIs
  <1> HIDE DEF p, s, q, r, t, u
  <1>4. m \in Nat \ {0} /\ x = m * t + v
    BY <1>1, <1>2, <1>3
  <1>5. v \in 0 .. m - 1
    <2>1. p * u + r >= 0 /\ p * u + r \in Int
      BY <1>1, <1>2, <1>3
    <2>2. p * u <= p * (s - 1)
      BY <1>1, <1>3, TimesMonotone
    <2>3. p * (s - 1) = m - p
      BY <1>1
    <2> DEFINE pu == p * u
    <2>4. pu \in Int /\ pu <= m - p /\ m \in Nat /\ v = pu + r
      BY <1>1, <1>3, <1>4, <2>2, <2>3
    <2> HIDE DEF pu, m, v
    <2>5. v <= m - 1 /\ v \in Int
      BY <1>1, <1>2, <2>4
    <2>6. QED
      BY <1>4, <2>1, <2>5 DEF v
  <1> HIDE DEF m, v
  <1>6. x \div m = t
    BY <1>3, <1>4, <1>5, DivModUnique
  <1>7. QED
    BY <1>1, <1>6 DEF t, q, p, s

LEMMA ShiftRightMeans ==
  ASSUME NEW a \in Words, NEW n \in 0 .. XLEN
  PROVE  ShiftRight(a, n) \in Words /\ ShiftRight(a, n) = a \div 2 ^ n
  <1> DEFINE p == 2 ^ n
             q == a \div p
             r == a % p
  <1>1. p \in Nat \ {0} /\ a \in Int /\ a >= 0 /\ a < Modulus /\ Modulus \in Nat
    BY WordFacts, Pow
  <1>2. q \in Int /\ r \in 0 .. p - 1 /\ a = p * q + r
    <2> HIDE DEF p
    <2> QED BY <1>1, DivModIs
  <1> HIDE DEF p, q, r
  <1>3. q >= 0 /\ q <= a
    <2>1. q >= 0
      <3>1. SUFFICES ASSUME q <= -1 PROVE FALSE
        BY <1>2
      <3>2. p * q <= p * (-1)
        BY <1>1, <1>2, <3>1, TimesMonotone
      <3>3. p * (-1) = -p
        BY <1>1
      <3>4. QED
        BY <1>1, <1>2, <3>2, <3>3
    <2>2. q * 1 <= q * p
      BY <1>1, <1>2, <2>1, TimesMonotone
    <2>3. q * 1 = q /\ q * p = p * q
      BY <1>1, <1>2
    <2>4. QED
      BY <1>1, <1>2, <2>1, <2>2, <2>3
  <1>4. QED
    BY <1>1, <1>2, <1>3, WordFacts DEF ShiftRight, q, p

(* The bits of the arithmetic shift. *)
ShiftedBits(a, n) ==
  {k \in 0 .. XLEN - 1 : IF k + n < XLEN THEN k + n \in Bits(a) ELSE Negative(a)}

(* What the arithmetic shift gives: the quotient, with ones above it if    *)
(* the word is negative.                                                   *)
Shifted(a, n) ==
  IF Negative(a) THEN (a \div 2 ^ n) + Modulus - 2 ^ (XLEN - n) ELSE a \div 2 ^ n

LEMMA ShiftFacts ==
  ASSUME NEW a \in Words, NEW n \in 0 .. XLEN
  PROVE  /\ 2 ^ n \in Nat \ {0} /\ 2 ^ (XLEN - n) \in Nat \ {0}
         /\ Modulus = 2 ^ n * 2 ^ (XLEN - n)
         /\ a \div 2 ^ n \in Nat /\ a \div 2 ^ n < 2 ^ (XLEN - n)
         /\ SignedValue(a, XLEN) \div 2 ^ n =
              IF Negative(a) THEN (a \div 2 ^ n) - 2 ^ (XLEN - n) ELSE a \div 2 ^ n
  <1> DEFINE p == 2 ^ n
             h == 2 ^ (XLEN - n)
             q == a \div p
             r == a % p
  <1>1. /\ n \in Nat /\ XLEN - n \in Nat /\ XLEN - n \in 0 .. XLEN /\ n + (XLEN - n) = XLEN
        /\ n + (XLEN - n) <= XLEN
    BY WordFacts
  <1>2. p \in Nat \ {0} /\ h \in Nat \ {0} /\ Modulus = p * h
    BY <1>1, WordFacts, Pow, PowSplit
  <1>3. a \in Int /\ a >= 0 /\ a < p * h /\ q \in Nat
    <2>1. q \in Words
      BY ShiftRightMeans
    <2>2. QED
      BY <1>2, <2>1, WordFacts
  <1>4. q \in Int /\ r \in 0 .. p - 1 /\ a = p * q + r
    <2> HIDE DEF p
    <2> QED BY <1>2, <1>3, DivModIs
  <1>5. SignedValue(a, XLEN) = IF Negative(a) THEN a - p * h ELSE a
    <2>1. SignedValue(a, XLEN) = IF Negative(a) THEN a - Modulus ELSE a
      BY SignBit
    <2> HIDE DEF p, h
    <2>2. QED
      BY <1>2, <2>1
  <1> HIDE DEF p, h, q, r
  <1>6. q < h
    <2>1. SUFFICES ASSUME q >= h PROVE FALSE
      BY <1>2, <1>3
    <2>2. p * q >= p * h
      BY <1>2, <1>3, <2>1
    <2>3. QED
      BY <1>2, <1>3, <1>4, <2>2
  <1>7. (a - p * h) \div p = q - h
    <2>1. a - p * h = p * (q - h) + r /\ a - p * h \in Int /\ q - h \in Int
      BY <1>2, <1>3, <1>4
    <2>2. QED
      BY <1>2, <1>4, <2>1, DivModUnique
  <1>8. SignedValue(a, XLEN) \div p = IF Negative(a) THEN q - h ELSE q
    BY <1>5, <1>7 DEF q
  <1>9. QED
    BY <1>2, <1>3, <1>6, <1>8 DEF p, h, q

(* The bits that stay in the word move down. *)
LEMMA LowBitsMove ==
  ASSUME NEW a \in Words, NEW n \in 0 .. XLEN, NEW k \in 0 .. XLEN - 1, k + n < XLEN
  PROVE  Bit(Shifted(a, n), k) = Bit(a, k + n)
  <1> DEFINE p == 2 ^ n
             h == 2 ^ (XLEN - n)
             q == a \div p
             l == (XLEN - n) - (k + 1)
             s == 2 ^ (k + 1)
             t == 2 ^ l
  <1>0. /\ k \in Nat /\ n \in Nat /\ l \in Nat /\ k + 1 \in Nat /\ (k + 1) + l = XLEN - n
        /\ (k + 1) + l <= XLEN /\ n + k <= XLEN /\ n + k = k + n
        /\ k \in 0 .. XLEN /\ k + 1 \in 0 .. XLEN /\ l \in 0 .. XLEN
    BY WordFacts
  <1>1. p \in Nat \ {0} /\ h \in Nat \ {0} /\ Modulus = p * h /\ q \in Nat
    BY ShiftFacts
  <1>2. h = s * t /\ s \in Nat /\ t \in Nat
    <2> HIDE DEF l
    <2> QED BY <1>0, Pow, PowSplit
  <1>3. Bit(q, k) = Bit(a, k + n)
    <2>1. a \in Int
      BY WordFacts
    <2>2. (a \div 2 ^ n) \div 2 ^ k = a \div 2 ^ (n + k)
      BY <1>0, <2>1, DivDiv
    <2>3. QED
      BY <1>0, <2>2 DEF Bit
  <1> DEFINE z == t * (p - 1)
  <1>4. z \in Int /\ q + Modulus - h = q + s * z
    <2> HIDE DEF p, h, q, s, t
    <2>1. Modulus - h = (s * t) * (p - 1)
      BY <1>1, <1>2
    <2>2. (s * t) * (p - 1) = s * z
      BY <1>1, <1>2
    <2>3. z \in Int
      BY <1>1, <1>2
    <2>4. QED
      BY <1>1, <1>2, <2>1, <2>2, <2>3
  <1> HIDE DEF p, h, q, t, z
  <1>5. Bit(q + s * z, k) = Bit(q, k)
    BY <1>0, <1>1, <1>4, BitAddHigh
  <1>6. CASE Negative(a)
    <2>1. Shifted(a, n) = q + Modulus - h
      BY <1>6 DEF Shifted, q, h, p
    <2>2. QED
      BY <1>3, <1>4, <1>5, <2>1
  <1>7. CASE ~Negative(a)
    <2>1. Shifted(a, n) = q
      BY <1>7 DEF Shifted, q, p
    <2>2. QED
      BY <1>3, <2>1
  <1>8. QED
    BY <1>6, <1>7

(* Above them the sign moves in. *)
LEMMA HighBitsAreSign ==
  ASSUME NEW a \in Words, NEW n \in 0 .. XLEN, NEW k \in 0 .. XLEN - 1, k + n >= XLEN
  PROVE  Bit(Shifted(a, n), k) = IF Negative(a) THEN 1 ELSE 0
  <1> DEFINE p == 2 ^ n
             h == 2 ^ (XLEN - n)
             q == a \div p
             g == 2 ^ k
             l == k - (XLEN - n)
             d == 2 ^ l
             t == 2 ^ (XLEN - 1 - k)
  <1>0. /\ k \in Nat /\ l \in Nat /\ l \in 0 .. XLEN /\ XLEN - n \in Nat
        /\ (XLEN - n) + l = k /\ (XLEN - n) + l <= XLEN /\ k \in 0 .. XLEN
        /\ XLEN - 1 - k \in Nat /\ XLEN - 1 - k \in 0 .. XLEN /\ k + 1 \in Nat
        /\ (k + 1) + (XLEN - 1 - k) = XLEN /\ (k + 1) + (XLEN - 1 - k) <= XLEN
    BY WordFacts
  <1>1. p \in Nat \ {0} /\ h \in Nat \ {0} /\ Modulus = p * h /\ q \in Nat /\ q < h
    BY ShiftFacts
  <1>2. g \in Nat \ {0} /\ g = h * d /\ d \in Nat \ {0}
    <2> HIDE DEF l
    <2> QED BY <1>0, Pow, PowSplit
  <1>3. t \in Nat \ {0} /\ Modulus = (2 * g) * t
    <2>1. 2 ^ (k + 1) = 2 * g
      BY <1>0, Pow
    <2>2. 2 ^ XLEN = 2 ^ (k + 1) * t
      BY <1>0, PowSplit
    <2>3. t \in Nat \ {0}
      BY <1>0, Pow
    <2>4. QED
      BY <2>1, <2>2, <2>3, WordFacts
  <1> HIDE DEF p, h, q, g, l, d, t
  <1>4. h <= g
    <2>1. h * 1 <= h * d
      BY <1>1, <1>2, TimesMonotone
    <2>2. QED
      BY <1>1, <1>2, <2>1
  <1>5. CASE Negative(a)
    <2> DEFINE c == 2 * t - 1
               r == g - h + q
    <2>1. Shifted(a, n) = q + Modulus - h
      BY <1>5 DEF Shifted, q, h, p
    <2>2. r \in 0 .. g - 1 /\ c \in Int
      BY <1>1, <1>2, <1>3, <1>4
    <2>3. q + Modulus - h = g * c + r
      <3>1. (2 * g) * t = g * c + g
        <4> DEFINE y == g * t
        <4>1. y \in Int /\ (2 * g) * t = 2 * y
          BY <1>2, <1>3
        <4>2. g * c = 2 * y - g
          BY <1>2, <1>3
        <4> HIDE DEF y, c
        <4>3. QED
          BY <1>2, <4>1, <4>2
      <3>2. g * c \in Int
        BY <1>2, <2>2
      <3> DEFINE x == g * c
      <3> HIDE DEF x, c
      <3>3. Modulus = x + g /\ x \in Int
        BY <1>3, <3>1, <3>2 DEF x
      <3>4. q + Modulus - h = x + (g - h + q)
        BY <1>1, <1>2, <3>3
      <3>5. QED
        BY <3>4 DEF x, r
    <2>4. q + Modulus - h \in Int
      BY <1>1, WordFacts
    <2> HIDE DEF r
    <2>5. (q + Modulus - h) \div g = c
      <3> HIDE DEF c
      <3> QED BY <1>2, <2>2, <2>3, <2>4, DivModUnique
    <2>6. c % 2 = 1
      BY <1>3
    <2>7. QED
      BY <1>5, <2>1, <2>5, <2>6 DEF Bit, g
  <1>6. CASE ~Negative(a)
    <2>1. Shifted(a, n) = q
      BY <1>6 DEF Shifted, q, p
    <2>2. q \in 0 .. g - 1 /\ q = g * 0 + q /\ q \in Int
      BY <1>1, <1>2, <1>4
    <2>3. q \div g = 0
      BY <1>2, <2>2, DivModUnique
    <2>4. QED
      BY <1>6, <2>1, <2>3 DEF Bit, g
  <1>7. QED
    BY <1>5, <1>6

LEMMA ShiftRightArithMeans ==
  ASSUME NEW a \in Words, NEW n \in 0 .. XLEN
  PROVE  /\ ShiftRightArith(a, n) \in Words
         /\ (ShiftRightArith(a, n) - (SignedValue(a, XLEN) \div 2 ^ n)) % Modulus = 0
  <1> DEFINE h == 2 ^ (XLEN - n)
             q == a \div 2 ^ n
             y == Shifted(a, n)
  <1>1. /\ h \in Nat \ {0} /\ q \in Nat /\ q < h /\ Modulus = 2 ^ n * h /\ 2 ^ n \in Nat \ {0}
        /\ SignedValue(a, XLEN) \div 2 ^ n = IF Negative(a) THEN q - h ELSE q
    BY ShiftFacts
  <1>2. y = IF Negative(a) THEN q + Modulus - h ELSE q
    BY DEF Shifted
  <1>3. h <= Modulus
    <2> DEFINE p == 2 ^ n
    <2> HIDE DEF h, p
    <2>0. p \in Nat \ {0} /\ Modulus = p * h
      BY <1>1 DEF p
    <2>1. h * 1 <= h * p
      BY <1>1, <2>0, TimesMonotone
    <2>2. h * 1 = h /\ h * p = p * h
      BY <1>1, <2>0
    <2>3. QED
      BY <2>0, <2>1, <2>2
  <1> HIDE DEF h, q, y
  <1>4. y \in Words
    <2>1. Modulus \in Nat /\ Words = 0 .. Modulus - 1
      BY WordFacts
    <2>2. CASE Negative(a)
      BY <1>1, <1>2, <1>3, <2>1, <2>2
    <2>3. CASE ~Negative(a)
      BY <1>1, <1>2, <1>3, <2>1, <2>3
    <2>4. QED
      BY <2>2, <2>3
  <1>5. Bits(y) = ShiftedBits(a, n)
    <2>1. ASSUME NEW k \in 0 .. XLEN - 1 PROVE k \in Bits(y) <=> k \in ShiftedBits(a, n)
      <3>1. k \in Bits(y) <=> Bit(y, k) = 1
        BY DEF Bits, Bit
      <3>2. CASE k + n < XLEN
        <4>1. Bit(y, k) = Bit(a, k + n)
          BY <3>2, LowBitsMove DEF y
        <4>2. k + n \in 0 .. XLEN - 1
          BY <3>2, WordFacts
        <4>3. k + n \in Bits(a) <=> Bit(a, k + n) = 1
          BY <4>2 DEF Bits, Bit
        <4>4. QED
          BY <3>1, <3>2, <4>1, <4>3 DEF ShiftedBits
      <3>3. CASE ~(k + n < XLEN)
        <4>1. k + n >= XLEN
          BY <3>3, WordFacts
        <4>2. Bit(y, k) = IF Negative(a) THEN 1 ELSE 0
          BY <4>1, HighBitsAreSign DEF y
        <4>3. QED
          BY <3>1, <3>3, <4>2 DEF ShiftedBits
      <3>4. QED
        BY <3>2, <3>3
    <2>2. QED
      BY <2>1 DEF Bits, ShiftedBits
  <1>6. ShiftRightArith(a, n) = y
    BY <1>4, <1>5, BitsGiveWord DEF ShiftRightArith, ShiftedBits
  <1>7. (y - (IF Negative(a) THEN q - h ELSE q)) % Modulus = 0
    <2>1. Modulus \in Nat \ {0}
      BY WordFacts
    <2>2. CASE Negative(a)
      <3>1. y - (q - h) = Modulus
        BY <1>1, <1>2, <2>1, <2>2
      <3>2. Modulus % Modulus = 0
        <4>1. Modulus * 1 = Modulus
          BY <2>1
        <4>2. QED
          BY <2>1, <4>1, MultipleMod
      <3>3. QED
        BY <2>2, <3>1, <3>2
    <2>3. CASE ~Negative(a)
      <3>1. y - q = 0
        BY <1>1, <1>2, <2>3
      <3>2. 0 % Modulus = 0
        BY <2>1
      <3>3. QED
        BY <2>3, <3>1, <3>2
    <2>4. QED
      BY <2>2, <2>3
  <1>8. QED
    BY <1>1, <1>4, <1>6, <1>7

-----------------------------------------------------------------------------
(* The bits of a word are the positions where Bit is 1. *)
LEMMA InBits ==
  ASSUME NEW x \in Words, NEW k \in 0 .. XLEN - 1
  PROVE  (k \in Bits(x) <=> Bit(x, k) = 1) /\ Bit(x, k) \in {0, 1}
  <1>1. x \in Int /\ k \in 0 .. XLEN
    BY WordFacts
  <1>2. Bit(x, k) \in {0, 1}
    BY <1>1, BitType
  <1>3. QED
    BY <1>2 DEF Bits, Bit

(* What a bit of xor, or and and is, from the bits of the operands. *)
LEMMA MeantBits ==
  ASSUME NEW f \in Functs, NEW x \in {0, 1}, NEW y \in {0, 1}
  PROVE  /\ f.f3 = 4 => MeantBit(f, x, y) = IF x = y THEN 0 ELSE 1
         /\ f.f3 = 6 => MeantBit(f, x, y) = IF x = 1 \/ y = 1 THEN 1 ELSE 0
         /\ f.f3 = 7 => MeantBit(f, x, y) = IF x = 1 /\ y = 1 THEN 1 ELSE 0
  BY DEF MeantBit

(* A word made of the right bits has them. *)
LEMMA LogicMeans ==
  ASSUME NEW f \in Functs, NEW a \in Words, NEW b \in Words, NEW S,
         \A k \in 0 .. XLEN - 1 : (IF k \in S THEN 1 ELSE 0) = MeantBit(f, Bit(a, k), Bit(b, k)),
         f.f3 \in {4, 6, 7}, NEW op
  PROVE  Computes(op, f, a, b, FromBits(S))
  <1>1. FromBits(S) \in Words /\ \A k \in 0 .. XLEN - 1 : Bit(FromBits(S), k) = IF k \in S THEN 1 ELSE 0
    BY FromBitsIs
  <1>2. \A k \in 0 .. XLEN - 1 : Bit(FromBits(S), k) = MeantBit(f, Bit(a, k), Bit(b, k))
    BY <1>1
  <1>3. QED
    BY <1>1, <1>2 DEF Computes

LEMMA XorMeans ==
  ASSUME NEW f \in Functs, NEW a \in Words, NEW b \in Words, NEW op, f.f3 = 4
  PROVE  Computes(op, f, a, b, FromBits((Bits(a) \union Bits(b)) \ (Bits(a) \intersect Bits(b))))
  <1> DEFINE S == (Bits(a) \union Bits(b)) \ (Bits(a) \intersect Bits(b))
  <1>1. ASSUME NEW k \in 0 .. XLEN - 1
        PROVE  (IF k \in S THEN 1 ELSE 0) = MeantBit(f, Bit(a, k), Bit(b, k))
    <2>1. /\ (k \in Bits(a) <=> Bit(a, k) = 1) /\ Bit(a, k) \in {0, 1}
          /\ (k \in Bits(b) <=> Bit(b, k) = 1) /\ Bit(b, k) \in {0, 1}
      BY InBits
    <2>2. MeantBit(f, Bit(a, k), Bit(b, k)) = IF Bit(a, k) = Bit(b, k) THEN 0 ELSE 1
      BY <2>1, MeantBits
    <2>3. k \in S <=> ~(k \in Bits(a) <=> k \in Bits(b))
      OBVIOUS
    <2>4. (k \in Bits(a) <=> k \in Bits(b)) <=> Bit(a, k) = Bit(b, k)
      BY <2>1
    <2>5. QED
      BY <2>2, <2>3, <2>4
  <1> HIDE DEF S
  <1>2. f.f3 \in {4, 6, 7}
    OBVIOUS
  <1>3. Computes(op, f, a, b, FromBits(S))
    BY <1>1, <1>2, LogicMeans
  <1>4. QED
    BY <1>3 DEF S

LEMMA OrMeans ==
  ASSUME NEW f \in Functs, NEW a \in Words, NEW b \in Words, NEW op, f.f3 = 6
  PROVE  Computes(op, f, a, b, FromBits(Bits(a) \union Bits(b)))
  <1> DEFINE S == Bits(a) \union Bits(b)
  <1>1. ASSUME NEW k \in 0 .. XLEN - 1
        PROVE  (IF k \in S THEN 1 ELSE 0) = MeantBit(f, Bit(a, k), Bit(b, k))
    <2>1. /\ (k \in Bits(a) <=> Bit(a, k) = 1) /\ Bit(a, k) \in {0, 1}
          /\ (k \in Bits(b) <=> Bit(b, k) = 1) /\ Bit(b, k) \in {0, 1}
      BY InBits
    <2>2. MeantBit(f, Bit(a, k), Bit(b, k)) = IF Bit(a, k) = 1 \/ Bit(b, k) = 1 THEN 1 ELSE 0
      BY <2>1, MeantBits
    <2>3. k \in S <=> (k \in Bits(a) \/ k \in Bits(b))
      OBVIOUS
    <2>4. QED
      BY <2>1, <2>2, <2>3
  <1> HIDE DEF S
  <1>2. f.f3 \in {4, 6, 7}
    OBVIOUS
  <1>3. Computes(op, f, a, b, FromBits(S))
    BY <1>1, <1>2, LogicMeans
  <1>4. QED
    BY <1>3 DEF S

LEMMA AndMeans ==
  ASSUME NEW f \in Functs, NEW a \in Words, NEW b \in Words, NEW op, f.f3 = 7
  PROVE  Computes(op, f, a, b, FromBits(Bits(a) \intersect Bits(b)))
  <1> DEFINE S == Bits(a) \intersect Bits(b)
  <1>1. ASSUME NEW k \in 0 .. XLEN - 1
        PROVE  (IF k \in S THEN 1 ELSE 0) = MeantBit(f, Bit(a, k), Bit(b, k))
    <2>1. /\ (k \in Bits(a) <=> Bit(a, k) = 1) /\ Bit(a, k) \in {0, 1}
          /\ (k \in Bits(b) <=> Bit(b, k) = 1) /\ Bit(b, k) \in {0, 1}
      BY InBits
    <2>2. MeantBit(f, Bit(a, k), Bit(b, k)) = IF Bit(a, k) = 1 /\ Bit(b, k) = 1 THEN 1 ELSE 0
      BY <2>1, MeantBits
    <2>3. k \in S <=> (k \in Bits(a) /\ k \in Bits(b))
      OBVIOUS
    <2>4. QED
      BY <2>1, <2>2, <2>3
  <1> HIDE DEF S
  <1>2. f.f3 \in {4, 6, 7}
    OBVIOUS
  <1>3. Computes(op, f, a, b, FromBits(S))
    BY <1>1, <1>2, LogicMeans
  <1>4. QED
    BY <1>3 DEF S

-----------------------------------------------------------------------------
(* A word that is its own meaning computes it. *)
LEMMA FlagMeans ==
  ASSUME NEW p \in BOOLEAN
  PROVE  Flag(p) \in Words /\ (Flag(p) - (IF p THEN 1 ELSE 0)) % Modulus = 0
  <1>1. XLEN \in Nat /\ XLEN > 0 /\ Modulus = 2 * 2 ^ (XLEN - 1) /\ 2 ^ (XLEN - 1) \in Nat \ {0}
        /\ Words = 0 .. Modulus - 1
    BY WordFacts
  <1>2. Modulus \in Nat /\ Modulus >= 2
    BY <1>1
  <1>3. Flag(p) \in {0, 1} /\ Flag(p) - (IF p THEN 1 ELSE 0) = 0
    BY DEF Flag
  <1>4. 0 % Modulus = 0
    BY <1>2
  <1>5. QED
    BY <1>1, <1>2, <1>3, <1>4

(* The arithmetic cases of Computes, from the meaning of the case. *)
LEMMA ArithComputes ==
  ASSUME NEW op, NEW f \in Functs, NEW a, NEW b, NEW r \in Words, NEW v,
         f.f3 \notin {4, 6, 7}, Meant(op, f, a, b) = v, (r - v) % Modulus = 0
  PROVE  Computes(op, f, a, b, r)
  <1>1. Modulus = 2 ^ XLEN
    BY WordFacts
  <1>2. QED
    BY <1>1 DEF Computes

(* Every ALU operation computes what it means. *)
LEMMA AluComputes ==
  ASSUME NEW op \in {"ALU", "ALUI"}, NEW f \in Functs, NEW a \in Words, NEW b \in Words
  PROVE  Computes(op, f, a, b, WAlu(op, f, a, b))
  <1> DEFINE sa == SignedValue(a, XLEN)
             sb == SignedValue(b, XLEN)
             sh == Shamt(b)
  <1>0. f.f3 \in 0 .. 7 /\ f.f7b5 \in 0 .. 1
    BY DEF Functs
  <1>s. sh \in 0 .. XLEN /\ sh = b % XLEN
    BY ShamtType
  <1>1. CASE f.f3 = 0 /\ op = "ALU" /\ f.f7b5 = 1
    <2>1. WAlu(op, f, a, b) = WSub(a, b)
      BY <1>1 DEF WAlu
    <2>2. Meant(op, f, a, b) = sa - sb
      BY <1>1 DEF Meant
    <2>3. f.f3 \notin {4, 6, 7}
      BY <1>1
    <2>4. QED
      BY <2>1, <2>2, <2>3, SubMeans, ArithComputes
  <1>2. CASE f.f3 = 0 /\ ~(op = "ALU" /\ f.f7b5 = 1)
    <2>1. WAlu(op, f, a, b) = WAdd(a, b)
      BY <1>2 DEF WAlu
    <2>2. Meant(op, f, a, b) = sa + sb
      BY <1>2 DEF Meant
    <2>3. f.f3 \notin {4, 6, 7}
      BY <1>2
    <2>4. QED
      BY <2>1, <2>2, <2>3, AddMeans, ArithComputes
  <1>3. CASE f.f3 = 1
    <2>1. WAlu(op, f, a, b) = ShiftLeft(a, sh)
      BY <1>3 DEF WAlu
    <2>2. Meant(op, f, a, b) = sa * 2 ^ sh
      BY <1>3 DEF Meant, Shamt
    <2>3. f.f3 \notin {4, 6, 7}
      BY <1>3
    <2> HIDE DEF sh
    <2>4. QED
      BY <1>s, <2>1, <2>2, <2>3, ShiftLeftMeans, ArithComputes
  <1>4. CASE f.f3 = 2
    <2>1. WAlu(op, f, a, b) = Flag(SignedLess(a, b))
      BY <1>4 DEF WAlu
    <2>2. Meant(op, f, a, b) = IF sa < sb THEN 1 ELSE 0
      BY <1>4 DEF Meant
    <2>3. f.f3 \notin {4, 6, 7}
      BY <1>4
    <2>4. (SignedLess(a, b) <=> sa < sb) /\ (sa < sb) \in BOOLEAN
      BY SignedLessMeans
    <2> DEFINE p == sa < sb
    <2>5. Flag(SignedLess(a, b)) = Flag(p)
      BY <2>4 DEF Flag
    <2>6. p \in BOOLEAN /\ Meant(op, f, a, b) = IF p THEN 1 ELSE 0
      BY <2>2, <2>4
    <2> HIDE DEF p
    <2>7. Flag(p) \in Words /\ (Flag(p) - (IF p THEN 1 ELSE 0)) % Modulus = 0
      BY <2>6, FlagMeans
    <2>8. Computes(op, f, a, b, Flag(p))
      BY <2>3, <2>6, <2>7, ArithComputes
    <2>9. QED
      BY <2>1, <2>5, <2>8
  <1>5. CASE f.f3 = 3
    <2> DEFINE p == a < b
    <2>1. WAlu(op, f, a, b) = Flag(p)
      BY <1>5 DEF WAlu
    <2>2. p \in BOOLEAN /\ Meant(op, f, a, b) = IF p THEN 1 ELSE 0
      BY <1>5 DEF Meant
    <2>3. f.f3 \notin {4, 6, 7}
      BY <1>5
    <2> HIDE DEF p
    <2>4. Flag(p) \in Words /\ (Flag(p) - (IF p THEN 1 ELSE 0)) % Modulus = 0
      BY <2>2, FlagMeans
    <2>5. QED
      BY <2>1, <2>2, <2>3, <2>4, ArithComputes
  <1>6. CASE f.f3 = 4
    <2>1. WAlu(op, f, a, b) = FromBits((Bits(a) \union Bits(b)) \ (Bits(a) \intersect Bits(b)))
      BY <1>6 DEF WAlu
    <2>2. QED
      BY <1>6, <2>1, XorMeans
  <1>7. CASE f.f3 = 5 /\ f.f7b5 = 1
    <2>1. WAlu(op, f, a, b) = ShiftRightArith(a, sh)
      BY <1>7 DEF WAlu
    <2>2. Meant(op, f, a, b) = sa \div 2 ^ sh
      BY <1>7 DEF Meant, Shamt
    <2>3. f.f3 \notin {4, 6, 7}
      BY <1>7
    <2> HIDE DEF sh
    <2>4. QED
      BY <1>s, <2>1, <2>2, <2>3, ShiftRightArithMeans, ArithComputes
  <1>8. CASE f.f3 = 5 /\ f.f7b5 # 1
    <2>1. WAlu(op, f, a, b) = ShiftRight(a, sh)
      BY <1>8 DEF WAlu
    <2>2. Meant(op, f, a, b) = a \div 2 ^ sh
      BY <1>8 DEF Meant, Shamt
    <2>3. f.f3 \notin {4, 6, 7}
      BY <1>8
    <2> HIDE DEF sh
    <2>4. ShiftRight(a, sh) \in Words /\ ShiftRight(a, sh) = a \div 2 ^ sh
      BY <1>s, ShiftRightMeans
    <2>5. (ShiftRight(a, sh) - (a \div 2 ^ sh)) % Modulus = 0
      <3> DEFINE r == ShiftRight(a, sh)
      <3> HIDE DEF r
      <3>1. r \in Int /\ Modulus \in Nat \ {0}
        BY <2>4, WordFacts DEF r
      <3>2. (r - r) % Modulus = 0
        BY <3>1
      <3>3. QED
        BY <2>4, <3>2 DEF r
    <2>6. QED
      BY <2>1, <2>2, <2>3, <2>4, <2>5, ArithComputes
  <1>9. CASE f.f3 = 6
    <2>1. WAlu(op, f, a, b) = FromBits(Bits(a) \union Bits(b))
      BY <1>9 DEF WAlu
    <2>2. QED
      BY <1>9, <2>1, OrMeans
  <1>10. CASE f.f3 = 7
    <2>1. WAlu(op, f, a, b) = FromBits(Bits(a) \intersect Bits(b))
      BY <1>10 DEF WAlu
    <2>2. QED
      BY <1>10, <2>1, AndMeans
  <1>11. QED
    BY <1>0, <1>1, <1>2, <1>3, <1>4, <1>5, <1>6, <1>7, <1>8, <1>9, <1>10

-----------------------------------------------------------------------------
(* Words with the same signed value are the same word. *)
LEMMA SignedInjective ==
  ASSUME NEW a \in Words, NEW b \in Words, SignedValue(a, XLEN) = SignedValue(b, XLEN)
  PROVE  a = b
  <1> DEFINE sa == SignedValue(a, XLEN)
             sb == SignedValue(b, XLEN)
  <1>1. a \in Int /\ b \in Int /\ a >= 0 /\ b >= 0 /\ a < Modulus /\ b < Modulus /\ Modulus \in Nat
    BY WordFacts
  <1>2. (Negative(a) /\ sa = a - Modulus) \/ (~Negative(a) /\ sa = a)
    BY SignBit
  <1>3. (Negative(b) /\ sb = b - Modulus) \/ (~Negative(b) /\ sb = b)
    BY SignBit
  <1>4. sa = sb
    OBVIOUS
  <1> HIDE DEF sa, sb
  <1>5. QED
    BY <1>1, <1>2, <1>3, <1>4

LEMMA SignedLessBoolean ==
  ASSUME NEW a, NEW b
  PROVE  SignedLess(a, b) = TRUE \/ SignedLess(a, b) = FALSE
  <1>1. Negative(a) \in BOOLEAN /\ (a < b) \in BOOLEAN
    BY DEF Negative
  <1>2. QED
    BY <1>1 DEF SignedLess

(* The signed branches decide as slt does. *)
LEMMA SignedBranches ==
  ASSUME NEW a \in Words, NEW b \in Words
  PROVE  DecidesLikeSlt(4, 2, a, b)
  <1> DEFINE sa == SignedValue(a, XLEN)
             sb == SignedValue(b, XLEN)
             p == SignedLess(a, b)
             r == SignedLess(b, a)
  <1>1. sa \in Int /\ sb \in Int
    BY SignBit
  <1>2. (p <=> sa < sb) /\ (r <=> sb < sa)
    BY SignedLessMeans
  <1>3. a = b <=> sa = sb
    BY SignedInjective
  <1>4. p \in BOOLEAN /\ r \in BOOLEAN
    BY SignedLessBoolean
  <1>5. /\ Taken(4, a, b) = p /\ Taken(4, b, a) = r /\ Taken(5, a, b) = ~p
        /\ Taken(0, a, b) = (a = b) /\ Taken(1, a, b) = (a # b)
    BY DEF Taken, WBranchCond
  <1>6. IsSet(2, a, b) = p
    <2>1. WAlu("ALU", [f3 |-> 2, f7b5 |-> 0], a, b) = Flag(p)
      BY DEF WAlu
    <2>2. (Flag(p) = 1) = p
      BY <1>4 DEF Flag
    <2>3. QED
      BY <2>1, <2>2 DEF IsSet
  <1>7. /\ (a = b) = (~p /\ ~r)
        /\ (a # b) = (p # r)
    <2> HIDE DEF sa, sb, p, r
    <2>1. CASE sa < sb
      <3>1. p /\ ~r /\ a # b
        BY <1>1, <1>2, <1>3, <2>1
      <3>2. QED BY <1>4, <3>1
    <2>2. CASE sb < sa
      <3>1. ~p /\ r /\ a # b
        BY <1>1, <1>2, <1>3, <2>2
      <3>2. QED BY <1>4, <3>1
    <2>3. CASE sa = sb
      <3>1. ~p /\ ~r /\ a = b
        BY <1>1, <1>2, <1>3, <2>3
      <3>2. QED BY <1>4, <3>1
    <2>4. QED
      BY <1>1, <2>1, <2>2, <2>3
  <1>8. 4 + 1 = 5
    OBVIOUS
  <1> HIDE DEF p, r
  <1>9. QED
    BY <1>5, <1>6, <1>7, <1>8 DEF DecidesLikeSlt

(* The unsigned ones decide as sltu does. *)
LEMMA UnsignedBranches ==
  ASSUME NEW a \in Words, NEW b \in Words
  PROVE  DecidesLikeSlt(6, 3, a, b)
  <1> DEFINE p == a < b
             r == b < a
  <1>1. a \in Int /\ b \in Int
    BY WordFacts
  <1>2. p \in BOOLEAN /\ r \in BOOLEAN
    OBVIOUS
  <1>3. /\ Taken(6, a, b) = p /\ Taken(6, b, a) = r /\ Taken(7, a, b) = (a >= b)
        /\ Taken(0, a, b) = (a = b) /\ Taken(1, a, b) = (a # b)
    BY DEF Taken, WBranchCond
  <1>4. IsSet(3, a, b) = p
    <2>1. WAlu("ALU", [f3 |-> 3, f7b5 |-> 0], a, b) = Flag(p)
      BY DEF WAlu
    <2>2. (Flag(p) = 1) = p
      BY <1>2 DEF Flag
    <2>3. QED
      BY <2>1, <2>2 DEF IsSet
  <1>5. (a >= b) = ~p /\ (a = b) = (~p /\ ~r) /\ (a # b) = (p # r)
    <2>1. CASE a < b
      BY <1>1, <2>1
    <2>2. CASE b < a
      BY <1>1, <2>2
    <2>3. CASE a = b
      BY <1>1, <2>3
    <2>4. QED
      BY <1>1, <2>1, <2>2, <2>3
  <1>6. 6 + 1 = 7
    OBVIOUS
  <1> HIDE DEF p, r
  <1>7. QED
    BY <1>3, <1>4, <1>5, <1>6 DEF DecidesLikeSlt

-----------------------------------------------------------------------------
(* The operands stay words. *)
AluTyped ==
  part = "alu" => insn \in {"ALU", "ALUI"} /\ funct \in Functs /\ rs1 \in Words /\ rs2 \in Words

(* For every width, every ALU operation of the cores computes its meaning  *)
(* on all operands, and the branches decide as slt and sltu compute        *)
(* (execute_pipe.v:63-137).                                                *)
THEOREM AluIsRight == AlgSpec => []AluMeaning
  <1>1. AlgInit => AluTyped
    <2>1. 0 \in Words
      BY WordFacts
    <2>2. QED
      BY <2>1 DEF AlgInit, AluTyped, If
  <1>2. AluTyped /\ [AlgNext]_algVars => AluTyped'
    <2> SUFFICES ASSUME AluTyped, [AlgNext]_algVars PROVE AluTyped'
      OBVIOUS
    <2>1. CASE Operand
      <3>1. part = "alu" /\ part' = part /\ insn' = insn /\ funct' = funct /\ rs1' = rs1 /\ rs2' = WAdd(rs2, 1)
        BY <2>1 DEF Operand
      <3>2. 1 \in Words
        BY WordFacts
      <3>3. rs2 \in Words
        BY <3>1 DEF AluTyped
      <3>4. WAdd(rs2, 1) \in Words
        BY <3>2, <3>3, AddMeans
      <3>5. QED
        BY <3>1, <3>4 DEF AluTyped
    <2>2. CASE Divisor
      BY <2>2 DEF AluTyped, Divisor, aluVars
    <2>3. CASE Other
      BY <2>3 DEF AluTyped, Other, aluVars
    <2>4. CASE UNCHANGED algVars
      BY <2>4 DEF AluTyped, algVars, aluVars
    <2>5. QED
      BY <2>1, <2>2, <2>3, <2>4 DEF AlgNext
  <1>3. AluTyped => AluMeaning
    BY AluComputes, SignedBranches, UnsignedBranches DEF AluTyped, AluMeaning
  <1>4. QED
    BY <1>1, <1>2, <1>3, PTL DEF AlgSpec

-----------------------------------------------------------------------------
(* The loops of klib copy in an order. *)
LEMMA Orders ==
  ASSUME NEW n \in Nat
  PROVE  /\ Upward(n) \in [1 .. n -> 0 .. n - 1] /\ Len(Upward(n)) = n
         /\ Downward(n) \in [1 .. n -> 0 .. n - 1] /\ Len(Downward(n)) = n
         /\ \A k \in 1 .. n : Upward(n)[k] = k - 1 /\ Downward(n)[k] = n - k
  <1>1. \A k \in 1 .. n : k - 1 \in 0 .. n - 1 /\ n - k \in 0 .. n - 1
    OBVIOUS
  <1>2. Upward(n) \in [1 .. n -> 0 .. n - 1] /\ Downward(n) \in [1 .. n -> 0 .. n - 1]
    BY <1>1 DEF Upward, Downward
  <1>3. Len(Upward(n)) = n /\ Len(Downward(n)) = n
    BY DEF Upward, Downward
  <1>4. \A k \in 1 .. n : Upward(n)[k] = k - 1 /\ Downward(n)[k] = n - k
    BY DEF Upward, Downward
  <1>5. QED
    BY <1>2, <1>3, <1>4

LEMMA AssignType ==
  ASSUME NEW m \in Memories, NEW d \in Int, NEW s \in 0 .. Size - 1
  PROVE  /\ Assign(m, d, s) \in Memories
         /\ \A i \in 0 .. Size - 1 : Assign(m, d, s)[i] = IF i = d THEN m[s] ELSE m[i]
  BY DEF Assign, Memories

(* The memories after each assignment of a copy in the order is. *)
Copies(f, m, dst, src, is, n) ==
  /\ f \in [0 .. n -> Memories]
  /\ f[0] = m
  /\ \A k \in 1 .. n : f[k] = Assign(f[k - 1], dst + is[k], src + is[k])

LEMMA CopySteps ==
  ASSUME NEW m \in Memories, NEW dst \in Int, NEW src \in Int, NEW n \in Nat, NEW is \in [1 .. n -> Int],
         Len(is) = n, \A k \in 1 .. n : src + is[k] \in 0 .. Size - 1
  PROVE  \E f : Copies(f, m, dst, src, is, n) /\ CopyInOrder(m, dst, src, is) = f[n]
  <1> DEFINE step == [x \in (1 .. n) \X Memories |-> Assign(x[2], dst + is[x[1]], src + is[x[1]])]
             IsRec(g) == g = [k \in 0 .. n |-> IF k = 0 THEN m ELSE Assign(g[k - 1], dst + is[k], src + is[k])]
             after == CHOOSE g : IsRec(g)
  <1>1. CopyInOrder(m, dst, src, is) = after[n]
    BY DEF CopyInOrder
  <1>2. step \in [(1 .. n) \X Memories -> Memories]
    <2> SUFFICES ASSUME NEW k \in 1 .. n, NEW x \in Memories
                 PROVE  Assign(x, dst + is[k], src + is[k]) \in Memories
      OBVIOUS
    <2>1. dst + is[k] \in Int /\ src + is[k] \in 0 .. Size - 1
      OBVIOUS
    <2>2. QED
      BY <2>1, AssignType
  <1>3. \A k \in 1 .. n : \A x \in Memories : step[<<k, x>>] = Assign(x, dst + is[k], src + is[k])
    OBVIOUS
  <1> HIDE DEF step
  <1>4. PICK g : IterateUpTo(g, n, Memories, m, step)
    BY <1>2, IteratesUpTo
  <1>5. g \in [0 .. n -> Memories] /\ g = [i \in 0 .. n |-> IF i = 0 THEN m ELSE step[<<i, g[i - 1]>>]]
    BY <1>4 DEF IterateUpTo
  <1>6. ASSUME NEW i \in 1 .. n PROVE g[i] = Assign(g[i - 1], dst + is[i], src + is[i])
    <2>1. i \in 0 .. n /\ i # 0 /\ i - 1 \in 0 .. n
      OBVIOUS
    <2>2. g[i - 1] \in Memories /\ g[i] = step[<<i, g[i - 1]>>]
      BY <1>5, <2>1
    <2>3. QED
      BY <1>3, <2>2
  <1>7. g[0] = m
    BY <1>5
  <1>8. IsRec(g)
    <2>1. ASSUME NEW i \in 0 .. n
          PROVE  g[i] = IF i = 0 THEN m ELSE Assign(g[i - 1], dst + is[i], src + is[i])
      BY <1>6, <1>7
    <2>2. QED
      BY <1>5, <2>1
  <1>9. IsRec(after)
    <2> HIDE DEF IsRec
    <2> QED BY <1>8
  <1> HIDE DEF after
  <1>10. after[0] = m
    BY <1>9
  <1>11. ASSUME NEW k \in 1 .. n PROVE after[k] = Assign(after[k - 1], dst + is[k], src + is[k])
    <2>1. k \in 0 .. n /\ k # 0
      OBVIOUS
    <2>2. QED
      BY <1>9, <2>1
  <1> DEFINE A == {k \in Nat : k <= n => after[k] \in Memories}
  <1>12. A \in SUBSET Nat /\ 0 \in A
    BY <1>10
  <1>13. \A k \in A : k + 1 \in A
    <2> SUFFICES ASSUME NEW k \in A, k + 1 <= n PROVE after[k + 1] \in Memories
      OBVIOUS
    <2>1. k + 1 \in 1 .. n /\ (k + 1) - 1 = k /\ after[k] \in Memories
      OBVIOUS
    <2> DEFINE j == k + 1
    <2>2. j \in 1 .. n /\ j - 1 = k
      BY <2>1
    <2> HIDE DEF j, A
    <2>3. after[j] = Assign(after[k], dst + is[j], src + is[j])
      BY <1>11, <2>2
    <2>4. dst + is[j] \in Int /\ src + is[j] \in 0 .. Size - 1
      BY <2>2
    <2>5. after[j] \in Memories
      BY <2>1, <2>3, <2>4, AssignType
    <2>6. QED
      BY <2>5 DEF j
  <1>14. A = Nat
    <2> HIDE DEF A
    <2> QED BY <1>12, <1>13, NatSetInduction
  <1>15. after \in [0 .. n -> Memories]
    <2>1. \A k \in 0 .. n : after[k] \in Memories
      BY <1>14
    <2> HIDE DEF A
    <2>2. QED
      BY <1>9, <2>1
  <1>16. Copies(after, m, dst, src, is, n)
    BY <1>10, <1>11, <1>15 DEF Copies
  <1>17. QED
    BY <1>1, <1>16

(* An order in which every character read is in the memory and none is     *)
(* read after it was overwritten                                           *)
ReadsFirst(dst, src, is, n) ==
  /\ \A k \in 1 .. n : src + is[k] \in 0 .. Size - 1
  /\ \A k \in 1 .. n : \A j \in 1 .. k - 1 : src + is[k] # dst + is[j]

(* The characters at the indices is are the ones that were at src. *)
MovedBy(m, new, dst, src, is, n) ==
  /\ new \in Memories
  /\ \A i \in 0 .. Size - 1 : new[i] =
       IF \E j \in 1 .. n : i = dst + is[j] THEN m[i - dst + src] ELSE m[i]

(* A copy in such an order moves the characters that were there first. *)
LEMMA CopyMoves ==
  ASSUME NEW m \in Memories, NEW dst \in Int, NEW src \in Int, NEW n \in Nat, NEW is \in [1 .. n -> Int],
         Len(is) = n, ReadsFirst(dst, src, is, n)
  PROVE  MovedBy(m, CopyInOrder(m, dst, src, is), dst, src, is, n)
  <1>0. /\ \A k \in 1 .. n : src + is[k] \in 0 .. Size - 1
        /\ \A k \in 1 .. n : \A j \in 1 .. k - 1 : src + is[k] # dst + is[j]
    BY DEF ReadsFirst
  <1>1. PICK f : Copies(f, m, dst, src, is, n) /\ CopyInOrder(m, dst, src, is) = f[n]
    BY <1>0, CopySteps
  <1> DEFINE Good(k) == \A i \in 0 .. Size - 1 :
                          f[k][i] = IF \E j \in 1 .. k : i = dst + is[j] THEN m[i - dst + src] ELSE m[i]
             A == {k \in Nat : k <= n => Good(k)}
  <1>2. A \in SUBSET Nat /\ 0 \in A
    BY <1>1 DEF Copies
  <1>3. \A k \in A : k + 1 \in A
    <2> HIDE DEF Good
    <2> SUFFICES ASSUME NEW k \in Nat, k + 1 <= n, Good(k) PROVE Good(k + 1)
      OBVIOUS
    <2> DEFINE l == k + 1
    <2>1. /\ l \in 1 .. n /\ l - 1 = k /\ k \in 0 .. n
          /\ \A j \in 1 .. l : j \in 1 .. k \/ j = l
          /\ \A j \in 1 .. k : j \in 1 .. l
          /\ l \in 1 .. l
      OBVIOUS
    <2>2. Good(k)
      OBVIOUS
    <2> USE DEF Good
    <2> HIDE DEF A, l
    <2>3. f[k] \in Memories /\ f[l] = Assign(f[k], dst + is[l], src + is[l])
      BY <1>1, <2>1 DEF Copies
    <2>4. dst + is[l] \in Int /\ src + is[l] \in 0 .. Size - 1 /\ is[l] \in Int
      BY <1>0, <2>1
    <2>5. \A i \in 0 .. Size - 1 : f[l][i] = IF i = dst + is[l] THEN f[k][src + is[l]] ELSE f[k][i]
      BY <2>3, <2>4, AssignType
    <2>6. f[k][src + is[l]] = m[src + is[l]]
      <3>1. ~(\E j \in 1 .. k : src + is[l] = dst + is[j])
        BY <1>0, <2>1
      <3>2. QED
        BY <2>2, <2>4, <3>1
    <2>7. Good(l)
      <3> SUFFICES ASSUME NEW i \in 0 .. Size - 1
                   PROVE  f[l][i] = IF \E j \in 1 .. l : i = dst + is[j] THEN m[i - dst + src] ELSE m[i]
        OBVIOUS
      <3>1. CASE i = dst + is[l]
        <4>1. i - dst + src = src + is[l]
          BY <2>4, <3>1
        <4>2. \E j \in 1 .. l : i = dst + is[j]
          BY <2>1, <3>1
        <4>3. QED
          BY <2>5, <2>6, <3>1, <4>1, <4>2
      <3>2. CASE i # dst + is[l]
        <4>1. (\E j \in 1 .. l : i = dst + is[j]) <=> (\E j \in 1 .. k : i = dst + is[j])
          BY <2>1, <3>2, Zenon
        <4>2. f[l][i] = f[k][i]
          BY <2>5, <3>2
        <4>3. QED
          BY <2>2, <4>1, <4>2
      <3>3. QED
        BY <3>1, <3>2
    <2>8. QED
      BY <2>7 DEF l
  <1>4. A = Nat
    <2> HIDE DEF A
    <2> QED BY <1>2, <1>3, NatSetInduction
  <1>5. Good(n)
    <2> HIDE DEF Good
    <2>1. n \in A /\ n <= n
      BY <1>4
    <2>2. QED
      BY <2>1
  <1>6. f[n] \in Memories
    BY <1>1 DEF Copies
  <1>7. QED
    BY <1>1, <1>5, <1>6 DEF MovedBy

-----------------------------------------------------------------------------
(* What moving n characters gives, with the memory's addresses spelled out *)
Moved(m, new, dst, src, n) ==
  /\ new \in Memories
  /\ \A i \in 0 .. Size - 1 : new[i] = IF i \in dst .. dst + n - 1 THEN m[i - dst + src] ELSE m[i]

LEMMA MovedIs ==
  ASSUME NEW m \in Memories, NEW new, NEW dst, NEW src, NEW n, Moved(m, new, dst, src, n)
  PROVE  IsMoved(m, new, dst, src, n)
  BY DEF Memories, Moved, IsMoved

(* Copying upward, when nothing that is still to be read is overwritten *)
LEMMA UpwardMoves ==
  ASSUME NEW m \in Memories, NEW dst \in Nat, NEW src \in Nat, NEW n \in Nat, src + n <= Size,
         dst <= src \/ ~Overlap(dst, src, n)
  PROVE  Moved(m, CopyInOrder(m, dst, src, Upward(n)), dst, src, n)
  <1> DEFINE is == Upward(n)
             new == CopyInOrder(m, dst, src, is)
  <1>0. Size \in Nat
    BY SizeAssumption
  <1>1. is \in [1 .. n -> Int] /\ Len(is) = n /\ \A k \in 1 .. n : is[k] = k - 1
    <2>1. is \in [1 .. n -> 0 .. n - 1] /\ Len(is) = n /\ \A k \in 1 .. n : is[k] = k - 1
      BY Orders
    <2> HIDE DEF is
    <2>2. QED
      BY <2>1
  <1> HIDE DEF is
  <1>2. \A k \in 1 .. n : src + is[k] \in 0 .. Size - 1
    BY <1>0, <1>1
  <1>3. \A k \in 1 .. n : \A j \in 1 .. k - 1 : src + is[k] # dst + is[j]
    <2> SUFFICES ASSUME NEW k \in 1 .. n, NEW j \in 1 .. k - 1 PROVE src + is[k] # dst + is[j]
      OBVIOUS
    <2>1. is[k] = k - 1 /\ is[j] = j - 1
      BY <1>1
    <2>2. QED
      BY <2>1 DEF Overlap
  <1>4. MovedBy(m, new, dst, src, is, n)
    <2>1. dst \in Int /\ src \in Int
      OBVIOUS
    <2>2. ReadsFirst(dst, src, is, n)
      BY <1>2, <1>3 DEF ReadsFirst
    <2>3. QED
      BY <1>1, <2>1, <2>2, CopyMoves
  <1>5. ASSUME NEW i \in 0 .. Size - 1
        PROVE  (\E j \in 1 .. n : i = dst + is[j]) <=> i \in dst .. dst + n - 1
    <2>1. ASSUME i \in dst .. dst + n - 1 PROVE \E j \in 1 .. n : i = dst + is[j]
      <3>1. i - dst + 1 \in 1 .. n /\ i = dst + ((i - dst + 1) - 1)
        BY <2>1
      <3>2. QED
        BY <1>1, <3>1
    <2>2. ASSUME NEW j \in 1 .. n, i = dst + is[j] PROVE i \in dst .. dst + n - 1
      BY <1>1, <2>2
    <2>3. QED
      BY <2>1, <2>2
  <1> HIDE DEF new
  <1>6. Moved(m, new, dst, src, n)
    <2>1. ASSUME NEW i \in 0 .. Size - 1
          PROVE  new[i] = IF i \in dst .. dst + n - 1 THEN m[i - dst + src] ELSE m[i]
      <3>1. CASE i \in dst .. dst + n - 1
        BY <1>4, <1>5, <3>1, Zenon DEF MovedBy
      <3>2. CASE i \notin dst .. dst + n - 1
        BY <1>4, <1>5, <3>2, Zenon DEF MovedBy
      <3>3. QED
        BY <3>1, <3>2
    <2>2. QED
      BY <1>4, <2>1 DEF Moved, MovedBy
  <1>7. QED
    BY <1>6 DEF new, is

(* Copying downward, to higher addresses *)
LEMMA DownwardMoves ==
  ASSUME NEW m \in Memories, NEW dst \in Nat, NEW src \in Nat, NEW n \in Nat, src + n <= Size, src <= dst
  PROVE  Moved(m, CopyInOrder(m, dst, src, Downward(n)), dst, src, n)
  <1> DEFINE is == Downward(n)
             new == CopyInOrder(m, dst, src, is)
  <1>0. Size \in Nat
    BY SizeAssumption
  <1>1. is \in [1 .. n -> Int] /\ Len(is) = n /\ \A k \in 1 .. n : is[k] = n - k
    <2>1. is \in [1 .. n -> 0 .. n - 1] /\ Len(is) = n /\ \A k \in 1 .. n : is[k] = n - k
      BY Orders
    <2> HIDE DEF is
    <2>2. QED
      BY <2>1
  <1> HIDE DEF is
  <1>2. \A k \in 1 .. n : src + is[k] \in 0 .. Size - 1
    BY <1>0, <1>1
  <1>3. \A k \in 1 .. n : \A j \in 1 .. k - 1 : src + is[k] # dst + is[j]
    <2> SUFFICES ASSUME NEW k \in 1 .. n, NEW j \in 1 .. k - 1 PROVE src + is[k] # dst + is[j]
      OBVIOUS
    <2>1. is[k] = n - k /\ is[j] = n - j
      BY <1>1
    <2>2. QED
      BY <2>1
  <1>4. MovedBy(m, new, dst, src, is, n)
    <2>1. dst \in Int /\ src \in Int
      OBVIOUS
    <2>2. ReadsFirst(dst, src, is, n)
      BY <1>2, <1>3 DEF ReadsFirst
    <2>3. QED
      BY <1>1, <2>1, <2>2, CopyMoves
  <1>5. ASSUME NEW i \in 0 .. Size - 1
        PROVE  (\E j \in 1 .. n : i = dst + is[j]) <=> i \in dst .. dst + n - 1
    <2>1. ASSUME i \in dst .. dst + n - 1 PROVE \E j \in 1 .. n : i = dst + is[j]
      <3>1. n - (i - dst) \in 1 .. n /\ i = dst + (n - (n - (i - dst)))
        BY <2>1
      <3>2. QED
        BY <1>1, <3>1
    <2>2. ASSUME NEW j \in 1 .. n, i = dst + is[j] PROVE i \in dst .. dst + n - 1
      BY <1>1, <2>2
    <2>3. QED
      BY <2>1, <2>2
  <1> HIDE DEF new
  <1>6. Moved(m, new, dst, src, n)
    <2>1. ASSUME NEW i \in 0 .. Size - 1
          PROVE  new[i] = IF i \in dst .. dst + n - 1 THEN m[i - dst + src] ELSE m[i]
      <3>1. CASE i \in dst .. dst + n - 1
        BY <1>4, <1>5, <3>1, Zenon DEF MovedBy
      <3>2. CASE i \notin dst .. dst + n - 1
        BY <1>4, <1>5, <3>2, Zenon DEF MovedBy
      <3>3. QED
        BY <3>1, <3>2
    <2>2. QED
      BY <1>4, <2>1 DEF Moved, MovedBy
  <1>7. QED
    BY <1>6 DEF new, is

(* The length of a string: the distance to its first NUL *)
LEMMA StrlenIs ==
  ASSUME NEW m \in Memories, NEW s \in 0 .. Size - 1, HasString(m, s)
  PROVE  /\ strlen(m, s) \in Nat /\ s + strlen(m, s) < Size
         /\ m[s + strlen(m, s)] = NUL
         /\ \A j \in 0 .. strlen(m, s) - 1 : m[s + j] # NUL
  <1> DEFINE T == {e \in 0 .. Size - 1 : e >= s /\ m[e] = NUL}
             IsEnd(e) == e \in 0 .. Size - 1 /\ e >= s /\ m[e] = NUL /\ \A i \in s .. e - 1 : m[i] # NUL
  <1>0. Size \in Nat /\ DOMAIN m = 0 .. Size - 1
    BY SizeAssumption DEF Memories
  <1>1. T \in SUBSET Nat /\ T # {}
    BY <1>0 DEF HasString
  <1>2. PICK e \in T : \A y \in T : e <= y
    <2> HIDE DEF T
    <2> QED BY <1>1, LeastElement
  <1>3. IsEnd(e)
    <2>1. \A i \in s .. e - 1 : m[i] # NUL
      <3> SUFFICES ASSUME NEW i \in s .. e - 1, m[i] = NUL PROVE FALSE
        OBVIOUS
      <3>1. i \in T
        BY <1>0, <1>2
      <3>2. QED
        BY <1>0, <1>2, <3>1
    <2>2. QED
      BY <1>2, <2>1
  <1> DEFINE c == CHOOSE x \in DOMAIN m : x >= s /\ m[x] = NUL /\ \A i \in s .. x - 1 : m[i] # NUL
  <1>4. IsEnd(c)
    BY <1>0, <1>3
  <1>5. strlen(m, s) = c - s
    BY DEF strlen
  <1> HIDE DEF c
  <1>6. c \in Nat /\ c < Size /\ c >= s /\ s + (c - s) = c /\ m[c] = NUL /\ \A i \in s .. c - 1 : m[i] # NUL
    BY <1>0, <1>4
  <1>7. \A j \in 0 .. (c - s) - 1 : m[s + j] # NUL
    <2> SUFFICES ASSUME NEW j \in 0 .. (c - s) - 1 PROVE m[s + j] # NUL
      OBVIOUS
    <2>1. s + j \in s .. c - 1
      BY <1>6
    <2>2. QED
      BY <1>6, <2>1
  <1>8. c - s \in Nat
    BY <1>6
  <1>9. QED
    BY <1>5, <1>6, <1>7, <1>8

-----------------------------------------------------------------------------
(* memmove, also when the ranges overlap; memcpy when they do not *)
LEMMA MemmoveMeans ==
  ASSUME NEW m \in Memories, NEW dst \in Nat, NEW src \in Nat, NEW n \in Nat, src + n <= Size
  PROVE  IsMoved(m, memmove(m, dst, src, n), dst, src, n)
  <1>1. CASE dst < src
    <2>1. Moved(m, CopyInOrder(m, dst, src, Upward(n)), dst, src, n)
      BY <1>1, UpwardMoves
    <2>2. QED
      BY <1>1, <2>1, MovedIs DEF memmove
  <1>2. CASE ~(dst < src)
    <2>1. Moved(m, CopyInOrder(m, dst, src, Downward(n)), dst, src, n)
      BY <1>2, DownwardMoves
    <2>2. QED
      BY <1>2, <2>1, MovedIs DEF memmove
  <1>3. QED
    BY <1>1, <1>2

LEMMA MemcpyMeans ==
  ASSUME NEW m \in Memories, NEW dst \in Nat, NEW src \in Nat, NEW n \in Nat, src + n <= Size,
         ~Overlap(dst, src, n)
  PROVE  IsMoved(m, memcpy(m, dst, src, n), dst, src, n)
  BY UpwardMoves, MovedIs DEF memcpy

LEMMA StrncpyMeans ==
  ASSUME NEW m \in Memories, NEW dst \in Nat, NEW src \in 0 .. Size - 1, NEW n \in Nat, src + n <= Size,
         ~Overlap(dst, src, n)
  PROVE  IsPadded(m, strncpy(m, dst, src, n), dst, src, n)
  <1> DEFINE some == \E i \in 0 .. n - 1 : m[src + i] = NUL
             len == IF some THEN strlen(m, src) ELSE n
             x == CopyInOrder(m, dst, src, Upward(len))
             new == strncpy(m, dst, src, n)
  <1>0. Size \in Nat /\ DOMAIN m = 0 .. Size - 1
    BY SizeAssumption DEF Memories
  <1>1. len \in 0 .. n /\ (\A j \in 0 .. len - 1 : m[src + j] # NUL) /\ (len < n => m[src + len] = NUL)
    <2>1. CASE some
      <3>1. PICK i \in 0 .. n - 1 : m[src + i] = NUL
        BY <2>1
      <3>2. HasString(m, src)
        <4>1. src + i \in DOMAIN m /\ src + i >= src
          BY <1>0
        <4>2. QED
          BY <3>1, <4>1 DEF HasString
      <3>3. /\ strlen(m, src) \in Nat /\ m[src + strlen(m, src)] = NUL
            /\ \A j \in 0 .. strlen(m, src) - 1 : m[src + j] # NUL
        BY <3>2, StrlenIs
      <3>4. strlen(m, src) <= i
        BY <3>1, <3>3
      <3>5. len = strlen(m, src)
        BY <2>1
      <3> HIDE DEF len, some
      <3>6. QED
        BY <3>3, <3>4, <3>5
    <2>2. CASE ~some
      BY <2>2
    <2>3. QED
      BY <2>1, <2>2
  <1>2. new = [a \in DOMAIN m |-> IF a \in dst + len .. dst + n - 1 THEN NUL ELSE x[a]]
    BY DEF strncpy
  <1> HIDE DEF len, some
  <1>3. Moved(m, x, dst, src, len)
    <2>1. len \in Nat /\ src \in Nat /\ src + len <= Size /\ ~Overlap(dst, src, len)
      BY <1>0, <1>1 DEF Overlap
    <2>2. QED
      BY <2>1, UpwardMoves
  <1> HIDE DEF new, x
  <1>4. ASSUME NEW i \in DOMAIN m
        PROVE  new[i] = IF i \notin dst .. dst + n - 1 THEN m[i]
                        ELSE IF \E j \in 0 .. i - dst : m[src + j] = NUL THEN NUL ELSE m[i - dst + src]
    <2>0. i \in Int /\ i \in 0 .. Size - 1 /\ len \in Int /\ len >= 0 /\ len <= n
      BY <1>0, <1>1
    <2>1. new[i] = IF i \in dst + len .. dst + n - 1 THEN NUL ELSE x[i]
      BY <1>2
    <2>2. x[i] = IF i \in dst .. dst + len - 1 THEN m[i - dst + src] ELSE m[i]
      BY <1>3, <2>0 DEF Moved
    <2>3. CASE i \notin dst .. dst + n - 1
      <3>1. i \notin dst + len .. dst + n - 1 /\ i \notin dst .. dst + len - 1
        BY <2>0, <2>3
      <3>2. QED
        BY <2>1, <2>2, <2>3, <3>1, Zenon
    <2>4. CASE i \in dst .. dst + len - 1
      <3>1. i \notin dst + len .. dst + n - 1 /\ i \in dst .. dst + n - 1
        BY <2>0, <2>4
      <3>2. ~\E j \in 0 .. i - dst : m[src + j] = NUL
        <4> SUFFICES ASSUME NEW j \in 0 .. i - dst PROVE m[src + j] # NUL
          OBVIOUS
        <4>1. j \in 0 .. len - 1
          BY <2>0, <2>4
        <4>2. QED
          BY <1>1, <4>1
      <3>3. QED
        BY <2>1, <2>2, <2>4, <3>1, <3>2, Zenon
    <2>5. CASE i \in dst + len .. dst + n - 1
      <3>1. i \in dst .. dst + n - 1 /\ len \in 0 .. i - dst /\ len < n
        BY <2>0, <2>5
      <3>2. \E j \in 0 .. i - dst : m[src + j] = NUL
        BY <1>1, <3>1
      <3>3. QED
        BY <2>1, <2>5, <3>1, <3>2, Zenon
    <2>6. QED
      BY <2>0, <2>3, <2>4, <2>5
  <1>5. QED
    BY <1>4 DEF IsPadded, new

(* strcpy copies the string and its NUL. *)
LEMMA StrcpyMeans ==
  ASSUME NEW m \in Memories, NEW dst \in Nat, NEW src \in 0 .. Size - 1, HasString(m, src),
         dst + strlen(m, src) < Size, ~Overlap(dst, src, strlen(m, src) + 1)
  PROVE  IsMoved(m, strcpy(m, dst, src), dst, src, strlen(m, src) + 1)
  <1> DEFINE len == strlen(m, src)
             x == CopyInOrder(m, dst, src, Upward(len))
             new == strcpy(m, dst, src)
  <1>0. Size \in Nat /\ DOMAIN m = 0 .. Size - 1
    BY SizeAssumption DEF Memories
  <1>1. len \in Nat /\ src + len < Size /\ m[src + len] = NUL
    BY StrlenIs
  <1>2. new = [x EXCEPT ![dst + len] = NUL]
    BY DEF strcpy
  <1>3. dst + len < Size /\ ~Overlap(dst, src, len + 1)
    OBVIOUS
  <1> HIDE DEF len
  <1>4. Moved(m, x, dst, src, len)
    <2>1. src \in Nat /\ src + len <= Size /\ ~Overlap(dst, src, len)
      BY <1>0, <1>1, <1>3 DEF Overlap
    <2>2. QED
      BY <1>1, <2>1, UpwardMoves
  <1> HIDE DEF new, x
  <1>5. ASSUME NEW i \in DOMAIN m
        PROVE  new[i] = IF i \in dst .. dst + (len + 1) - 1 THEN m[i - dst + src] ELSE m[i]
    <2>0. i \in Int /\ i \in 0 .. Size - 1 /\ DOMAIN x = 0 .. Size - 1
      BY <1>0, <1>4 DEF Moved, Memories
    <2>1. new[i] = IF i = dst + len THEN NUL ELSE x[i]
      BY <1>2, <2>0
    <2>2. x[i] = IF i \in dst .. dst + len - 1 THEN m[i - dst + src] ELSE m[i]
      BY <1>4, <2>0 DEF Moved
    <2>3. CASE i = dst + len
      <3>1. i - dst + src = src + len /\ i \in dst .. dst + (len + 1) - 1
        BY <1>0, <1>1, <2>3
      <3>2. QED
        BY <1>1, <2>1, <2>3, <3>1, Zenon
    <2>4. CASE i # dst + len
      <3>1. i \in dst .. dst + (len + 1) - 1 <=> i \in dst .. dst + len - 1
        BY <1>1, <2>0, <2>4
      <3>2. new[i] = x[i]
        BY <2>1, <2>4
      <3>3. QED
        BY <2>2, <3>1, <3>2, Zenon
    <2>5. QED
      BY <2>3, <2>4
  <1>6. QED
    BY <1>5 DEF IsMoved, new, len

(* strcmp gives 0 for equal strings only. *)
LEMMA StrcmpMeans ==
  ASSUME NEW m \in Memories, NEW s \in 0 .. Size - 1, NEW t \in 0 .. Size - 1,
         HasString(m, s), HasString(m, t)
  PROVE  (strcmp(m, s, t) = 0) =
           (strlen(m, s) = strlen(m, t) /\ \A i \in 0 .. strlen(m, t) : m[s + i] = m[t + i])
  <1> DEFINE a == strlen(m, s)
             b == strlen(m, t)
             differ == {i \in 0 .. a : i <= b /\ m[s + i] # m[t + i]}
             first == CHOOSE i \in differ : \A j \in differ : i <= j
  <1>0. Size \in Nat /\ \A i \in 0 .. Size - 1 : m[i] \in Int
    BY SizeAssumption DEF Memories
  <1>1. a \in Nat /\ s + a < Size /\ m[s + a] = NUL /\ \A j \in 0 .. a - 1 : m[s + j] # NUL
    BY StrlenIs
  <1>2. b \in Nat /\ t + b < Size /\ m[t + b] = NUL /\ \A j \in 0 .. b - 1 : m[t + j] # NUL
    BY StrlenIs
  <1>3. strcmp(m, s, t) = IF differ = {} THEN 0 ELSE m[s + first] - m[t + first]
    BY DEF strcmp
  <1> HIDE DEF a, b
  <1>4. CASE differ = {}
    <2>1. \A i \in 0 .. a : i <= b => m[s + i] = m[t + i]
      BY <1>4
    <2>2. ~(a < b)
      <3> SUFFICES ASSUME a < b PROVE FALSE
        OBVIOUS
      <3>1. a \in 0 .. a /\ a <= b /\ a \in 0 .. b - 1
        BY <1>1, <1>2
      <3>2. m[s + a] = m[t + a] /\ m[t + a] # NUL
        BY <1>2, <2>1, <3>1
      <3>3. QED
        BY <1>1, <3>2
    <2>3. ~(b < a)
      <3> SUFFICES ASSUME b < a PROVE FALSE
        OBVIOUS
      <3>1. b \in 0 .. a /\ b <= b /\ b \in 0 .. a - 1
        BY <1>1, <1>2
      <3>2. m[s + b] = m[t + b] /\ m[s + b] # NUL
        BY <1>1, <2>1, <3>1
      <3>3. QED
        BY <1>2, <3>2
    <2>4. a = b
      BY <1>1, <1>2, <2>2, <2>3
    <2>5. \A i \in 0 .. b : m[s + i] = m[t + i]
      BY <1>2, <2>1, <2>4
    <2>6. strcmp(m, s, t) = 0
      BY <1>3, <1>4
    <2>7. QED
      BY <2>4, <2>5, <2>6 DEF a, b
  <1>5. CASE differ # {}
    <2>1. differ \in SUBSET Nat
      BY <1>1
    <2>2. \E i \in differ : \A j \in differ : i <= j
      <3> HIDE DEF differ
      <3> QED BY <1>5, <2>1, LeastElement
    <2>3. first \in differ
      BY <2>2
    <2> HIDE DEF first
    <2>4. first \in 0 .. a /\ first <= b /\ m[s + first] # m[t + first]
      BY <2>3
    <2>5. m[s + first] \in Int /\ m[t + first] \in Int
      <3>1. s + first \in 0 .. Size - 1 /\ t + first \in 0 .. Size - 1
        BY <1>0, <1>1, <1>2, <2>4
      <3>2. QED
        BY <1>0, <3>1
    <2>6. m[s + first] - m[t + first] # 0
      BY <2>4, <2>5
    <2>7. ~(a = b /\ \A i \in 0 .. b : m[s + i] = m[t + i])
      BY <2>4
    <2>8. strcmp(m, s, t) # 0
      BY <1>3, <1>5, <2>6
    <2>9. QED
      BY <2>7, <2>8 DEF a, b
  <1>6. QED
    BY <1>4, <1>5

LEMMA BlocksCopied ==
  ASSUME NEW m \in Memories, NEW dst \in 0 .. Size - 1, NEW src \in 0 .. Size - 1, NEW n \in 0 .. Size,
         src + n <= Size
  PROVE  CopiesBlock(m, dst, src, n)
  <1>1. dst \in Nat /\ src \in Nat /\ n \in Nat
    BY SizeAssumption
  <1>2. IsMoved(m, memmove(m, dst, src, n), dst, src, n)
    BY <1>1, MemmoveMeans
  <1>3. ASSUME ~Overlap(dst, src, n)
        PROVE  /\ IsMoved(m, memcpy(m, dst, src, n), dst, src, n)
               /\ IsPadded(m, strncpy(m, dst, src, n), dst, src, n)
    BY <1>1, <1>3, MemcpyMeans, StrncpyMeans
  <1>4. QED
    BY <1>2, <1>3 DEF CopiesBlock

LEMMA StringsCopied ==
  ASSUME NEW m \in Memories, NEW dst \in 0 .. Size - 1, NEW src \in 0 .. Size - 1, HasString(m, src)
  PROVE  CopiesString(m, dst, src, strlen(m, src))
  <1> DEFINE len == strlen(m, src)
             end == dst + strlen(m, dst)
  <1>0. Size \in Nat /\ dst \in Nat
    BY SizeAssumption
  <1>1. len \in Nat
    BY StrlenIs
  <1>2. ASSUME dst + len < Size, ~Overlap(dst, src, len + 1)
        PROVE  IsMoved(m, strcpy(m, dst, src), dst, src, len + 1)
    BY <1>0, <1>2, StrcpyMeans
  <1>3. ASSUME HasString(m, dst), end + len < Size, ~Overlap(dst, src, end - dst + len + 1)
        PROVE  IsMoved(m, strcat(m, dst, src), end, src, len + 1)
    <2>1. strlen(m, dst) \in Nat
      BY <1>3, StrlenIs
    <2>2. end \in Nat /\ end >= dst
      BY <1>0, <2>1
    <2>3. end + len < Size /\ ~Overlap(dst, src, end - dst + len + 1)
      BY <1>3
    <2>4. strcat(m, dst, src) = strcpy(m, end, src)
      BY DEF strcat
    <2> HIDE DEF end
    <2>5. ~Overlap(end, src, len + 1)
      <3> HIDE DEF len
      <3> QED BY <1>0, <1>1, <2>2, <2>3 DEF Overlap
    <2>6. IsMoved(m, strcpy(m, end, src), end, src, len + 1)
      BY <2>2, <2>3, <2>5, StrcpyMeans
    <2>7. QED
      BY <2>4, <2>6
  <1>4. ASSUME HasString(m, dst)
        PROVE  (strcmp(m, dst, src) = 0) =
               (strlen(m, dst) = len /\ \A i \in 0 .. len : m[dst + i] = m[src + i])
    BY <1>4, StrcmpMeans
  <1>5. QED
    BY <1>2, <1>3, <1>4 DEF CopiesString

(* For every size of the memory and whatever is in it, klib copies what C  *)
(* asks for (string.c:8-139).                                              *)
THEOREM KlibCopies == AlgSpec => []CopyMeaning
  <1> DEFINE Typed == part = "copy" => bytes \in Memories
  <1>1. AlgInit => Typed
    BY DEF AlgInit, If
  <1>2. Typed /\ [AlgNext]_algVars => Typed'
    BY DEF AlgNext, Operand, Divisor, Other, algVars, aluVars, Memories
  <1>3. Typed => CopyMeaning
    <2> SUFFICES ASSUME Typed, part = "copy" PROVE CopyMeaning
      BY DEF CopyMeaning
    <2>1. bytes \in Memories /\ DOMAIN bytes = 0 .. Size - 1
      BY DEF Memories
    <2>2. ASSUME NEW dst \in DOMAIN bytes, NEW src \in DOMAIN bytes
          PROVE  /\ \A n \in 0 .. Size : dst + n <= Size /\ src + n <= Size => CopiesBlock(bytes, dst, src, n)
                 /\ HasString(bytes, src) => CopiesString(bytes, dst, src, strlen(bytes, src))
      BY <2>1, BlocksCopied, StringsCopied
    <2>3. QED
      BY <2>2 DEF CopyMeaning
  <1> HIDE DEF Typed
  <1>4. QED
    BY <1>1, <1>2, <1>3, PTL DEF AlgSpec
=============================================================================
