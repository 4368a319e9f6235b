------------------------------ MODULE MtrrProofs ------------------------------
(***************************************************************************)
(* The arithmetic of MemoryMap: what the number of a set of bits is, and   *)
(* that the range that OneRange makes of an MTRR is the set of addresses   *)
(* which the MTRR matches.                                                 *)
(*                                                                         *)
(* Induction is by the least element of a set of numbers.  Every induction *)
(* on bits halves the numbers: bit b + 1 of n is bit b of n \div 2.        *)
(***************************************************************************)
EXTENDS MemoryMap, FiniteSetTheorems, WellFoundedInduction, TLAPS

LEMMA LeastNat ==
  ASSUME NEW S \in SUBSET Nat, S # {}
  PROVE  \E n \in S : \A m \in S : n <= m
<1> DEFINE R == {ss \in Nat \X Nat : ss[1] < ss[2]}
<1>1. IsWellFoundedOn(R, Nat)
  BY NatLessThanWellFounded DEF OpToRel
<1>2. PICK x \in S : \A y \in S : ~(<<y, x>> \in R)
  <2> HIDE DEF R
  <2> QED
    BY <1>1, WFMin
<1>3. ASSUME NEW y \in S PROVE x <= y
  <2>1. x \in Nat /\ y \in Nat /\ <<y, x>> \notin R
    BY <1>2
  <2> QED
    BY <2>1
<1> QED
  BY <1>3

(* Induction over the numbers in a set. *)
LEMMA Inductive ==
  ASSUME NEW S, 0 \in S, \A n \in Nat : n \in S => n + 1 \in S
  PROVE  \A n \in Nat : n \in S
<1> SUFFICES ASSUME Nat \ S # {} PROVE FALSE
  OBVIOUS
<1>1. PICK n \in Nat \ S : \A m \in Nat \ S : n <= m
  BY LeastNat
<1>2. n # 0
  OBVIOUS
<1>3. n - 1 \in Nat /\ n - 1 \notin Nat \ S
  BY <1>1, <1>2
<1> QED
  BY <1>3

(* The powers of two, from the cardinality of power sets. *)
LEMMA PowerNext == ASSUME NEW n \in Nat PROVE 2 ^ (n + 1) = 2 ^ n + 2 ^ n /\ 2 ^ n \in Nat
<1> DEFINE S == 1 .. n
           T == 1 .. (n + 1)
           A == SUBSET S
           B == {s \cup {n + 1} : s \in A}
<1>1. IsFiniteSet(S) /\ Cardinality(S) = n /\ IsFiniteSet(T) /\ Cardinality(T) = n + 1
  BY FS_Interval
<1>2. IsFiniteSet(A) /\ Cardinality(A) = 2 ^ n /\ Cardinality(SUBSET T) = 2 ^ (n + 1)
  BY <1>1, FS_SUBSET
<1>3. ExistsBijection(A, B)
  <2> DEFINE f == [s \in A |-> s \cup {n + 1}]
  <2>1. f \in Bijection(A, B)
    <3>1. f \in [A -> B]
      OBVIOUS
    <3>2. ASSUME NEW s \in A, NEW t \in A, f[s] = f[t] PROVE s = t
      <4>1. n + 1 \notin s /\ n + 1 \notin t
        OBVIOUS
      <4> QED
        BY <3>2, <4>1
    <3>3. \A t \in B : \E s \in A : f[s] = t
      OBVIOUS
    <3> HIDE DEF f
    <3> QED
      BY <3>1, <3>2, <3>3 DEF Bijection, Injection, Surjection, IsInjective
  <2> QED
    BY <2>1 DEF ExistsBijection
<1>4. IsFiniteSet(B) /\ Cardinality(B) = Cardinality(A)
  BY <1>2, <1>3, FS_Bijection
<1>5. SUBSET T = A \cup B /\ A \cap B = {}
  <2>1. ASSUME NEW t \in SUBSET T PROVE t \in A \cup B
    <3>1. CASE n + 1 \in t
      <4>1. t \ {n + 1} \in A /\ t = (t \ {n + 1}) \cup {n + 1}
        BY <3>1
      <4> QED
        BY <4>1
    <3>2. CASE n + 1 \notin t
      BY <3>2
    <3> QED
      BY <3>1, <3>2
  <2>2. ASSUME NEW t \in A \cup B PROVE t \in SUBSET T
    OBVIOUS
  <2>3. \A t \in A : n + 1 \notin t
    OBVIOUS
  <2>4. \A t \in B : n + 1 \in t
    OBVIOUS
  <2> QED
    BY <2>1, <2>2, <2>3, <2>4
<1>6. Cardinality(A \cap B) = 0
  BY <1>5, FS_EmptySet
<1>7. Cardinality(A \cup B) = Cardinality(A) + Cardinality(B)
  <2>1. Cardinality(A) \in Nat /\ Cardinality(B) \in Nat
    BY <1>2, <1>4, FS_CardinalityType
  <2> HIDE DEF A, B
  <2>2. Cardinality(A \cup B) = Cardinality(A) + Cardinality(B) - Cardinality(A \cap B)
    BY <1>2, <1>4, FS_Union
  <2> QED
    BY <1>6, <2>1, <2>2
<1>8. Cardinality(A) \in Nat
  BY <1>2, FS_CardinalityType
<1> QED
  BY <1>2, <1>4, <1>5, <1>7, <1>8

Power(n) == 2 ^ n

LEMMA PowerFacts ==
  /\ Power(0) = 1
  /\ \A n \in Nat : Power(n) \in Nat \ {0} /\ Power(n + 1) = 2 * Power(n)
<1>1. Power(0) = 1
  BY DEF Power
<1>2. \A n \in Nat : Power(n) \in Nat /\ Power(n + 1) = 2 * Power(n)
  <2> SUFFICES ASSUME NEW n \in Nat PROVE Power(n) \in Nat /\ Power(n + 1) = 2 * Power(n)
    OBVIOUS
  <2>1. Power(n + 1) = Power(n) + Power(n) /\ Power(n) \in Nat
    BY PowerNext DEF Power
  <2> QED
    BY <2>1
<1> DEFINE S == {n \in Nat : Power(n) # 0}
<1>3. 0 \in S
  BY <1>1
<1>4. ASSUME NEW n \in Nat, n \in S PROVE n + 1 \in S
  BY <1>2, <1>4
<1>5. \A n \in Nat : n \in S
  <2> HIDE DEF S
  <2> QED
    BY <1>3, <1>4, Inductive
<1> QED
  BY <1>1, <1>2, <1>5

-----------------------------------------------------------------------------
(* Bits                                                                      *)

Bit(n, b) == (n \div Power(b)) % 2

LEMMA Division ==
  ASSUME NEW a \in Nat, NEW d \in Nat \ {0}
  PROVE  /\ a \div d \in Nat /\ a % d \in Nat /\ a % d < d
         /\ a = d * (a \div d) + (a % d)
OBVIOUS

LEMMA Quotient ==
  ASSUME NEW d \in Nat \ {0}, NEW q \in Nat, NEW r \in Nat, r < d
  PROVE  (d * q + r) \div d = q
<1> DEFINE a == d * q + r
           p == a \div d
           t == a % d
<1>1. d * q \in Nat /\ a \in Nat
  OBVIOUS
<1>2. p \in Nat /\ t \in Nat /\ t < d /\ a = d * p + t
  BY <1>1, Division
<1> HIDE DEF p, t
<1>3. CASE p < q
  <2>1. PICK k \in Nat : q = p + 1 + k
    <3>1. q - p - 1 \in Nat /\ q = p + 1 + (q - p - 1)
      BY <1>2, <1>3
    <3> QED
      BY <3>1
  <2>2. d * q = d * p + d + d * k /\ d * k \in Nat /\ d * p \in Nat
    BY <1>2, <2>1
  <2> QED
    BY <1>2, <2>2
<1>4. CASE q < p
  <2>1. PICK k \in Nat : p = q + 1 + k
    <3>1. p - q - 1 \in Nat /\ p = q + 1 + (p - q - 1)
      BY <1>2, <1>4
    <3> QED
      BY <3>1
  <2>2. d * p = d * q + d + d * k /\ d * k \in Nat /\ d * q \in Nat
    BY <1>2, <2>1
  <2> QED
    BY <1>2, <2>2
<1>5. p = q
  BY <1>2, <1>3, <1>4
<1> QED
  BY <1>5 DEF p

LEMMA Halve ==
  ASSUME NEW n, NEW h \in Nat, NEW c \in {0, 1}, n = 2 * h + c
  PROVE  /\ Bit(n, 0) = c
         /\ \A b \in Nat : Bit(n, b + 1) = Bit(h, b)
<1>1. Bit(n, 0) = c
  <2>1. (2 * h + c) \div 1 = 2 * h + c
    OBVIOUS
  <2>2. (2 * h + c) % 2 = c
    OBVIOUS
  <2> QED
    BY <2>1, <2>2, PowerFacts DEF Bit
<1>2. ASSUME NEW b \in Nat PROVE Bit(n, b + 1) = Bit(h, b)
  <2>1. Power(b) \in Nat \ {0} /\ Power(b + 1) = 2 * Power(b)
    BY PowerFacts
  <2>2. PICK d \in Nat \ {0} : d = Power(b)
    BY <2>1
  <2>3. PICK q \in Nat, r \in Nat : q = h \div d /\ h = d * q + r /\ r < d
    BY Division
  <2>4. 2 * h + c = (2 * d) * q + (2 * r + c)
    <3>1. 2 * (d * q) = (2 * d) * q /\ d * q \in Nat
      OBVIOUS
    <3> QED
      BY <2>3, <3>1
  <2>5. (2 * h + c) \div (2 * d) = q
    <3>1. 2 * d \in Nat \ {0} /\ 2 * r + c \in Nat /\ 2 * r + c < 2 * d
      BY <2>3
    <3> QED
      BY <2>4, <3>1, Quotient
  <2> QED
    BY <2>1, <2>2, <2>3, <2>5 DEF Bit
<1> QED
  BY <1>1, <1>2

IsHalf(n, h, c) ==
    /\ n = 2 * h + c
    /\ Bit(n, 0) = c
    /\ \A b \in Nat : Bit(n, b + 1) = Bit(h, b)

LEMMA HalfOf == ASSUME NEW n \in Nat PROVE \E h \in Nat, c \in {0, 1} : IsHalf(n, h, c)
<1>1. n \div 2 \in Nat /\ n % 2 \in {0, 1} /\ n = 2 * (n \div 2) + (n % 2)
  OBVIOUS
<1>2. PICK h \in Nat, c \in {0, 1} : n = 2 * h + c
  BY <1>1
<1>3. IsHalf(n, h, c)
  BY <1>2, Halve DEF IsHalf
<1> QED
  BY <1>3

LEMMA BitIsBit == ASSUME NEW n \in Nat, NEW b \in Nat PROVE Bit(n, b) \in {0, 1}
<1>1. n \div Power(b) \in Nat
  BY PowerFacts, Division
<1> QED
  BY <1>1 DEF Bit

LEMMA ZeroHasNoBits == ASSUME NEW b \in Nat PROVE Bit(0, b) = 0
<1>1. PICK d \in Nat \ {0} : d = Power(b)
  BY PowerFacts
<1>2. d * 0 + 0 = 0 /\ 0 < d
  BY <1>1
<1>3. 0 \div d = 0
  BY <1>2, Quotient
<1> QED
  BY <1>1, <1>3 DEF Bit

SameBits(n, m) == \A b \in Nat : Bit(n, b) = Bit(m, b)

LEMMA NoBitsIsZero == ASSUME NEW n \in Nat, SameBits(n, 0) PROVE n = 0
<1> DEFINE S == {m \in Nat : m # 0 /\ SameBits(m, 0)}
<1> SUFFICES ASSUME S # {} PROVE FALSE
  OBVIOUS
<1>1. PICK m \in S : \A k \in S : m <= k
  BY LeastNat
<1>2. PICK h \in Nat, c \in {0, 1} : IsHalf(m, h, c)
  BY HalfOf
<1>3. c = 0 /\ \A b \in Nat : Bit(h, b) = Bit(m, b + 1)
  <2>1. Bit(m, 0) = 0
    BY <1>1, ZeroHasNoBits DEF SameBits
  <2>2. Bit(m, 0) = c /\ \A b \in Nat : Bit(m, b + 1) = Bit(h, b)
    BY <1>2 DEF IsHalf
  <2> QED
    BY <2>1, <2>2
<1>4. h # 0 /\ m > h
  BY <1>1, <1>2, <1>3 DEF IsHalf
<1>5. SameBits(h, 0)
  BY <1>1, <1>3, ZeroHasNoBits DEF SameBits
<1> QED
  BY <1>1, <1>4, <1>5

(* A number is determined by its bits. *)
LEMMA BitsDetermine == ASSUME NEW n \in Nat, NEW m \in Nat, SameBits(n, m) PROVE n = m
<1> DEFINE S == {i \in Nat : \E j \in Nat : i # j /\ SameBits(i, j)}
<1> SUFFICES ASSUME S # {} PROVE FALSE
  OBVIOUS
<1>1. PICK i \in S : \A k \in S : i <= k
  BY LeastNat
<1>2. PICK j \in Nat : i # j /\ SameBits(i, j)
  BY <1>1
<1>3. PICK h \in Nat, c \in {0, 1} : IsHalf(i, h, c)
  BY <1>1, HalfOf
<1>4. PICK g \in Nat, e \in {0, 1} : IsHalf(j, g, e)
  BY <1>2, HalfOf
<1>5. c = e
  <2>1. Bit(i, 0) = c /\ Bit(j, 0) = e
    BY <1>3, <1>4 DEF IsHalf
  <2> QED
    BY <1>2, <2>1 DEF SameBits
<1>6. SameBits(h, g)
  <2>1. ASSUME NEW b \in Nat PROVE Bit(h, b) = Bit(g, b)
    <3>1. Bit(i, b + 1) = Bit(j, b + 1)
      BY <1>2 DEF SameBits
    <3> QED
      BY <1>3, <1>4, <3>1 DEF IsHalf
  <2> QED
    BY <2>1 DEF SameBits
<1>7. h \in S
  BY <1>2, <1>3, <1>4, <1>5, <1>6 DEF IsHalf
<1>8. i = 0
  BY <1>1, <1>3, <1>7 DEF IsHalf
<1>9. SameBits(j, 0)
  BY <1>2, <1>8 DEF SameBits
<1> QED
  BY <1>2, <1>8, <1>9, NoBitsIsZero

Below(n, k) == \A b \in Nat : b >= k => Bit(n, b) = 0
Above(n, k) == \A b \in Nat : b < k => Bit(n, b) = 0

(* The numbers of k bits are those less than 2^k. *)
LEMMA BelowPower ==
  ASSUME NEW k \in Nat, NEW n \in Nat
  PROVE  Below(n, k) <=> n < Power(k)
<1> DEFINE S == {i \in Nat : \A m \in Nat : Below(m, i) <=> m < Power(i)}
<1>1. 0 \in S
  <2> SUFFICES ASSUME NEW m \in Nat PROVE Below(m, 0) <=> m < Power(0)
    OBVIOUS
  <2>1. Below(m, 0) <=> SameBits(m, 0)
    BY ZeroHasNoBits DEF Below, SameBits
  <2>2. SameBits(m, 0) <=> m = 0
    BY NoBitsIsZero DEF SameBits
  <2> QED
    BY <2>1, <2>2, PowerFacts
<1>2. ASSUME NEW i \in Nat, i \in S PROVE i + 1 \in S
  <2> SUFFICES ASSUME NEW m \in Nat PROVE Below(m, i + 1) <=> m < Power(i + 1)
    OBVIOUS
  <2>1. PICK h \in Nat, c \in {0, 1} : IsHalf(m, h, c)
    BY HalfOf
  <2>2. Below(h, i) <=> h < Power(i)
    BY <1>2
  <2>3. Below(m, i + 1) <=> Below(h, i)
    <3>1. ASSUME Below(m, i + 1), NEW b \in Nat, b >= i PROVE Bit(h, b) = 0
      <4>1. b + 1 \in Nat /\ b + 1 >= i + 1
        BY <3>1
      <4>2. Bit(m, b + 1) = 0
        BY <3>1, <4>1 DEF Below
      <4> QED
        BY <2>1, <4>2 DEF IsHalf
    <3>2. ASSUME Below(h, i), NEW b \in Nat, b >= i + 1 PROVE Bit(m, b) = 0
      <4>1. PICK a \in Nat : b = a + 1 /\ a >= i
        <5>1. b - 1 \in Nat /\ b - 1 >= i /\ b = (b - 1) + 1
          BY <3>2
        <5> QED
          BY <5>1
      <4>2. Bit(h, a) = 0
        BY <3>2, <4>1 DEF Below
      <4> QED
        BY <2>1, <4>1, <4>2 DEF IsHalf
    <3> QED
      BY <3>1, <3>2 DEF Below
  <2>4. h < Power(i) <=> m < Power(i + 1)
    BY <2>1, PowerFacts DEF IsHalf
  <2> QED
    BY <2>2, <2>3, <2>4
<1>3. k \in S
  <2> HIDE DEF S
  <2> QED
    BY <1>1, <1>2, Inductive
<1> QED
  BY <1>3

(* The numbers that agree with v from bit k on are a block of 2^k of them. *)
LEMMA Block ==
  ASSUME NEW k \in Nat, NEW v \in Nat, NEW n \in Nat, Above(v, k)
  PROVE  v <= n /\ n < v + Power(k) <=> \A b \in Nat : b >= k => Bit(n, b) = Bit(v, b)
<1> DEFINE Agree(x, y, i) == \A b \in Nat : b >= i => Bit(x, b) = Bit(y, b)
           S == {i \in Nat : \A y, x \in Nat :
                    Above(y, i) => (y <= x /\ x < y + Power(i) <=> Agree(x, y, i))}
<1>1. 0 \in S
  <2> SUFFICES ASSUME NEW y \in Nat, NEW x \in Nat
               PROVE  y <= x /\ x < y + Power(0) <=> Agree(x, y, 0)
    OBVIOUS
  <2>1. Agree(x, y, 0) <=> SameBits(x, y)
    BY DEF SameBits
  <2>2. SameBits(x, y) <=> x = y
    BY BitsDetermine DEF SameBits
  <2> QED
    BY <2>1, <2>2, PowerFacts
<1>2. ASSUME NEW i \in Nat, i \in S PROVE i + 1 \in S
  <2> SUFFICES ASSUME NEW y \in Nat, NEW x \in Nat, Above(y, i + 1)
               PROVE  y <= x /\ x < y + Power(i + 1) <=> Agree(x, y, i + 1)
    OBVIOUS
  <2>1. PICK h \in Nat, c \in {0, 1} : IsHalf(x, h, c)
    BY HalfOf
  <2>2. PICK g \in Nat, e \in {0, 1} : IsHalf(y, g, e)
    BY HalfOf
  <2>3. e = 0
    <3>1. Bit(y, 0) = e
      BY <2>2 DEF IsHalf
    <3>2. 0 < i + 1
      OBVIOUS
    <3> QED
      BY <3>1, <3>2 DEF Above
  <2>4. Above(g, i)
    <3>1. ASSUME NEW b \in Nat, b < i PROVE Bit(g, b) = 0
      <4>1. b + 1 \in Nat /\ b + 1 < i + 1
        BY <3>1
      <4>2. Bit(y, b + 1) = 0
        BY <4>1 DEF Above
      <4> QED
        BY <2>2, <4>2 DEF IsHalf
    <3> QED
      BY <3>1 DEF Above
  <2>5. g <= h /\ h < g + Power(i) <=> Agree(h, g, i)
    BY <1>2, <2>4
  <2>6. Agree(x, y, i + 1) <=> Agree(h, g, i)
    <3>1. ASSUME Agree(x, y, i + 1), NEW b \in Nat, b >= i PROVE Bit(h, b) = Bit(g, b)
      <4>1. b + 1 \in Nat /\ b + 1 >= i + 1
        BY <3>1
      <4>2. Bit(x, b + 1) = Bit(y, b + 1)
        BY <3>1, <4>1
      <4> QED
        BY <2>1, <2>2, <4>2 DEF IsHalf
    <3>2. ASSUME Agree(h, g, i), NEW b \in Nat, b >= i + 1 PROVE Bit(x, b) = Bit(y, b)
      <4>1. PICK a \in Nat : b = a + 1 /\ a >= i
        <5>1. b - 1 \in Nat /\ b - 1 >= i /\ b = (b - 1) + 1
          BY <3>2
        <5> QED
          BY <5>1
      <4>2. Bit(h, a) = Bit(g, a)
        BY <3>2, <4>1
      <4> QED
        BY <2>1, <2>2, <4>1, <4>2 DEF IsHalf
    <3> QED
      BY <3>1, <3>2
  <2>7. y <= x /\ x < y + Power(i + 1) <=> g <= h /\ h < g + Power(i)
    <3>1. Power(i) \in Nat /\ Power(i + 1) = 2 * Power(i)
      BY PowerFacts
    <3> QED
      BY <2>1, <2>2, <2>3, <3>1 DEF IsHalf
  <2> HIDE DEF Agree
  <2> QED
    BY <2>5, <2>6, <2>7
<1>3. k \in S
  <2> HIDE DEF S
  <2> QED
    BY <1>1, <1>2, Inductive
<1> QED
  BY <1>3

(* A block of 2^k among the numbers of m bits ends among them. *)
LEMMA BlockEnds ==
  ASSUME NEW k \in Nat, NEW m \in Nat, NEW v \in Nat, Above(v, k), Below(v, m), k <= m
  PROVE  v + Power(k) <= Power(m)
<1>1. Power(k) \in Nat \ {0} /\ Power(m) \in Nat
  BY PowerFacts
<1> DEFINE n == v + Power(k) - 1
<1>2. n \in Nat /\ v <= n /\ n < v + Power(k)
  BY <1>1
<1> HIDE DEF n
<1>3. \A b \in Nat : b >= k => Bit(n, b) = Bit(v, b)
  BY <1>2, Block
<1>4. Below(n, m)
  BY <1>3 DEF Below
<1>5. n < Power(m)
  BY <1>2, <1>4, BelowPower
<1> QED
  BY <1>1, <1>5 DEF n

-----------------------------------------------------------------------------
(* The number of a set of bits                                               *)

HasBits(n, bits) == \A b \in Nat : Bit(n, b) = IF b \in bits THEN 1 ELSE 0

LEMMA SomeNumberHasBits ==
  ASSUME NEW k \in Nat, NEW bits \in SUBSET Nat, \A b \in bits : b < k
  PROVE  \E n \in Nat : HasBits(n, bits)
<1> DEFINE S == {i \in Nat : \A set \in SUBSET Nat :
                    (\A b \in set : b < i) => \E n \in Nat : HasBits(n, set)}
<1>1. 0 \in S
  <2> SUFFICES ASSUME NEW set \in SUBSET Nat, \A b \in set : b < 0
               PROVE  HasBits(0, set)
    OBVIOUS
  <2>1. set = {}
    OBVIOUS
  <2> QED
    BY <2>1, ZeroHasNoBits DEF HasBits
<1>2. ASSUME NEW i \in Nat, i \in S PROVE i + 1 \in S
  <2> SUFFICES ASSUME NEW set \in SUBSET Nat, \A b \in set : b < i + 1
               PROVE  \E n \in Nat : HasBits(n, set)
    OBVIOUS
  <2> DEFINE upper == {b \in Nat : b + 1 \in set}
  <2>1. \A b \in upper : b < i
    OBVIOUS
  <2>2. PICK h \in Nat : HasBits(h, upper)
    BY <1>2, <2>1
  <2>3. PICK c \in {0, 1} : c = IF 0 \in set THEN 1 ELSE 0
    OBVIOUS
  <2>4. PICK n \in Nat : n = 2 * h + c
    OBVIOUS
  <2>5. IsHalf(n, h, c)
    BY <2>4, Halve DEF IsHalf
  <2>6. ASSUME NEW b \in Nat PROVE Bit(n, b) = IF b \in set THEN 1 ELSE 0
    <3>1. CASE b = 0
      BY <2>3, <2>5, <3>1 DEF IsHalf
    <3>2. CASE b # 0
      <4>1. PICK a \in Nat : b = a + 1
        <5>1. b - 1 \in Nat /\ b = (b - 1) + 1
          BY <3>2
        <5> QED
          BY <5>1
      <4>2. Bit(n, b) = Bit(h, a)
        BY <2>5, <4>1 DEF IsHalf
      <4> QED
        BY <2>2, <4>1, <4>2 DEF HasBits
    <3> QED
      BY <3>1, <3>2
  <2> QED
    BY <2>6 DEF HasBits
<1>3. k \in S
  <2> HIDE DEF S
  <2> QED
    BY <1>1, <1>2, Inductive
<1> QED
  BY <1>3

(* A bit that is one is a summand of the number. *)
LEMMA WithoutBit ==
  ASSUME NEW k \in Nat, NEW n \in Nat, Bit(n, k) = 1
  PROVE  \E m \in Nat : /\ n = m + Power(k)
                        /\ \A b \in Nat : Bit(m, b) = IF b = k THEN 0 ELSE Bit(n, b)
<1> DEFINE Rest(x, y, i) == /\ x = y + Power(i)
                            /\ \A b \in Nat : Bit(y, b) = IF b = i THEN 0 ELSE Bit(x, b)
           S == {i \in Nat : \A x \in Nat : Bit(x, i) = 1 => \E y \in Nat : Rest(x, y, i)}
<1>1. 0 \in S
  <2> SUFFICES ASSUME NEW x \in Nat, Bit(x, 0) = 1 PROVE \E y \in Nat : Rest(x, y, 0)
    OBVIOUS
  <2>1. PICK h \in Nat, c \in {0, 1} : IsHalf(x, h, c)
    BY HalfOf
  <2>2. x = 2 * h + 1
    BY <2>1 DEF IsHalf
  <2>3. PICK y \in Nat : y = 2 * h + 0
    OBVIOUS
  <2>4. IsHalf(y, h, 0)
    BY <2>3, Halve DEF IsHalf
  <2>5. ASSUME NEW b \in Nat PROVE Bit(y, b) = IF b = 0 THEN 0 ELSE Bit(x, b)
    <3>1. CASE b = 0
      BY <2>4, <3>1 DEF IsHalf
    <3>2. CASE b # 0
      <4>1. PICK a \in Nat : b = a + 1
        <5>1. b - 1 \in Nat /\ b = (b - 1) + 1
          BY <3>2
        <5> QED
          BY <5>1
      <4> QED
        BY <2>1, <2>4, <4>1 DEF IsHalf
    <3> QED
      BY <3>1, <3>2
  <2> QED
    BY <2>2, <2>3, <2>5, PowerFacts
<1>2. ASSUME NEW i \in Nat, i \in S PROVE i + 1 \in S
  <2> SUFFICES ASSUME NEW x \in Nat, Bit(x, i + 1) = 1
               PROVE  \E y \in Nat : Rest(x, y, i + 1)
    OBVIOUS
  <2>1. PICK h \in Nat, c \in {0, 1} : IsHalf(x, h, c)
    BY HalfOf
  <2>2. Bit(h, i) = 1
    BY <2>1 DEF IsHalf
  <2>3. PICK g \in Nat : Rest(h, g, i)
    BY <1>2, <2>2
  <2>4. PICK y \in Nat : y = 2 * g + c
    OBVIOUS
  <2>5. IsHalf(y, g, c)
    BY <2>4, Halve DEF IsHalf
  <2>6. x = y + Power(i + 1)
    <3>1. Power(i) \in Nat /\ Power(i + 1) = 2 * Power(i)
      BY PowerFacts
    <3> QED
      BY <2>1, <2>3, <2>4, <3>1 DEF IsHalf
  <2>7. ASSUME NEW b \in Nat PROVE Bit(y, b) = IF b = i + 1 THEN 0 ELSE Bit(x, b)
    <3>1. CASE b = 0
      BY <2>1, <2>5, <3>1 DEF IsHalf
    <3>2. CASE b # 0
      <4>1. PICK a \in Nat : b = a + 1
        <5>1. b - 1 \in Nat /\ b = (b - 1) + 1
          BY <3>2
        <5> QED
          BY <5>1
      <4>2. Bit(y, b) = Bit(g, a) /\ Bit(x, b) = Bit(h, a)
        BY <2>1, <2>5, <4>1 DEF IsHalf
      <4>3. Bit(g, a) = IF a = i THEN 0 ELSE Bit(h, a)
        BY <2>3
      <4> QED
        BY <4>1, <4>2, <4>3
    <3> QED
      BY <3>1, <3>2
  <2> QED
    BY <2>6, <2>7
<1>3. k \in S
  <2> HIDE DEF S
  <2> QED
    BY <1>1, <1>2, Inductive
<1> QED
  BY <1>3

Number(bits) == CHOOSE n \in Nat : HasBits(n, bits)

LEMMA NumberHasBits ==
  ASSUME NEW k \in Nat, NEW bits \in SUBSET Nat, \A b \in bits : b < k
  PROVE  Number(bits) \in Nat /\ HasBits(Number(bits), bits)
<1>1. \E n \in Nat : HasBits(n, bits)
  BY SomeNumberHasBits
<1> QED
  BY <1>1 DEF Number

LEMMA SameNumber ==
  ASSUME NEW n \in Nat, NEW m \in Nat, NEW bits, HasBits(n, bits), HasBits(m, bits)
  PROVE  n = m
BY BitsDetermine DEF HasBits, SameBits

LEMMA NumberOfNone == Number({}) = 0
<1>1. HasBits(0, {})
  BY ZeroHasNoBits DEF HasBits
<1>2. Number({}) \in Nat /\ HasBits(Number({}), {})
  BY <1>1 DEF Number
<1> QED
  BY <1>1, <1>2, SameNumber

LEMMA NumberAdds ==
  ASSUME NEW k \in Nat, NEW bits \in SUBSET Nat, \A b \in bits : b < k, NEW x \in bits
  PROVE  Number(bits) = Power(x) + Number(bits \ {x})
<1>1. Number(bits) \in Nat /\ HasBits(Number(bits), bits)
  BY NumberHasBits
<1>2. Bit(Number(bits), x) = 1
  BY <1>1 DEF HasBits
<1>3. PICK m \in Nat : /\ Number(bits) = m + Power(x)
                       /\ \A b \in Nat : Bit(m, b) = IF b = x THEN 0
                                                     ELSE Bit(Number(bits), b)
  BY <1>1, <1>2, WithoutBit
<1>4. HasBits(m, bits \ {x})
  BY <1>1, <1>3 DEF HasBits
<1>5. Number(bits \ {x}) \in Nat /\ HasBits(Number(bits \ {x}), bits \ {x})
  BY NumberHasBits
<1>6. Number(bits \ {x}) = m
  BY <1>4, <1>5, SameNumber
<1> QED
  BY <1>3, <1>6, PowerFacts

(* The sum is defined by recursion over the subsets of the set; the function *)
(* that takes each subset to its number is the one that satisfies it.        *)
LEMMA ValueIsNumber ==
  ASSUME NEW k \in Nat, NEW bits \in SUBSET Nat, \A b \in bits : b < k
  PROVE  Value(bits) = Number(bits)
<1> DEFINE Chosen(s) == CHOOSE x \in s : TRUE
           Sums(f) == f = [s \in SUBSET bits |->
                             IF s = {} THEN 0 ELSE 2 ^ Chosen(s) + f[s \ {Chosen(s)}]]
           iter == CHOOSE f : Sums(f)
           numbers == [s \in SUBSET bits |-> Number(s)]
<1>1. Value(bits) = iter[bits]
  BY DEF Value, MapThenSumSet, MapThenFoldSet
<1>2. \A s \in SUBSET bits : s # {} => Chosen(s) \in s
  OBVIOUS
<1>3. ASSUME NEW s \in SUBSET bits, s # {}
      PROVE  Number(s) = 2 ^ Chosen(s) + Number(s \ {Chosen(s)})
  <2> HIDE DEF Chosen
  <2>1. Number(s) = Power(Chosen(s)) + Number(s \ {Chosen(s)})
    BY <1>2, <1>3, NumberAdds
  <2> QED
    BY <2>1 DEF Power
<1> HIDE DEF Chosen
<1>4. Sums(numbers)
  BY <1>3, NumberOfNone
<1>5. Sums(iter)
  <2> HIDE DEF Sums, numbers
  <2> QED
    BY <1>4
<1> HIDE DEF iter
<1>6. \A s \in SUBSET bits :
         iter[s] = IF s = {} THEN 0 ELSE 2 ^ Chosen(s) + iter[s \ {Chosen(s)}]
  BY <1>5
<1> HIDE DEF Sums
<1>7. \A s \in SUBSET bits : IsFiniteSet(s) /\ Cardinality(s) \in Nat
  BY FS_BoundedSetOfNaturals, FS_CardinalityType
<1>8. \A s \in SUBSET bits : iter[s] = Number(s)
  <2> DEFINE wrong == {s \in SUBSET bits : iter[s] # Number(s)}
             sizes == {Cardinality(s) : s \in wrong}
  <2> SUFFICES ASSUME wrong # {} PROVE FALSE
    OBVIOUS
  <2>1. sizes \in SUBSET Nat /\ sizes # {}
    BY <1>7
  <2>2. PICK n \in sizes : \A m \in sizes : n <= m
    <3> HIDE DEF sizes
    <3> QED
      BY <2>1, LeastNat
  <2>3. PICK s \in wrong : Cardinality(s) = n
    OBVIOUS
  <2>4. s # {}
    BY <1>6, NumberOfNone
  <2> DEFINE t == s \ {Chosen(s)}
  <2>5. t \in SUBSET bits /\ Cardinality(t) = n - 1
    BY <1>2, <1>7, <2>3, <2>4, FS_RemoveElement
  <2>6. t \notin wrong
    <3>1. n \in Nat
      BY <1>7, <2>3
    <3> QED
      BY <2>2, <2>5, <3>1
  <2>7. iter[t] = Number(t)
    BY <2>5, <2>6
  <2>8. iter[s] = 2 ^ Chosen(s) + iter[t]
    BY <1>6, <2>4
  <2> QED
    BY <1>3, <2>4, <2>7, <2>8
<1> QED
  BY <1>1, <1>8

-----------------------------------------------------------------------------
(* The range of an MTRR                                                      *)

LEMMA MinOf ==
  ASSUME NEW S \in SUBSET Nat, S # {}
  PROVE  Min(S) \in S /\ \A m \in S : Min(S) <= m
BY LeastNat DEF Min

LEMMA FirstBit ==
  ASSUME NEW set \in SUBSET Nat, set # {}
  PROVE  FindFirstSetRightBit(set) \in set /\ \A b \in set : FindFirstSetRightBit(set) <= b
<1> DEFINE bytes == {b \div 8 : b \in set}
           byte == Min(bytes)
           rests == {b % 8 : b \in {c \in set : c \div 8 = byte}}
<1>1. \A b \in Nat : b \div 8 \in Nat /\ b % 8 \in 0 .. 7 /\ b = 8 * (b \div 8) + (b % 8)
  OBVIOUS
<1>2. byte \in bytes /\ \A m \in bytes : byte <= m
  <2>1. bytes \in SUBSET Nat /\ bytes # {}
    <3>1. PICK b : b \in set
      OBVIOUS
    <3>2. b \div 8 \in bytes
      BY <3>1
    <3>3. \A m \in bytes : m \in Nat
      BY <1>1
    <3> QED
      BY <3>2, <3>3
  <2> HIDE DEF bytes
  <2> QED
    BY <2>1, MinOf
<1> HIDE DEF byte
<1>3. Min(rests) \in rests /\ \A m \in rests : Min(rests) <= m
  <2>1. rests \in SUBSET Nat /\ rests # {}
    BY <1>1, <1>2
  <2> HIDE DEF rests
  <2> QED
    BY <2>1, MinOf
<1>4. PICK c \in set : c \div 8 = byte /\ c % 8 = Min(rests)
  BY <1>3
<1>5. FindFirstSetRightBit(set) = c
  <2>1. FindFirstSetRightBit(set) = 8 * byte + Min(rests)
    BY DEF FindFirstSetRightBit, byte
  <2> HIDE DEF rests
  <2> QED
    BY <1>1, <1>4, <2>1
<1>6. ASSUME NEW b \in set PROVE c <= b
  <2>1. byte <= b \div 8
    BY <1>2
  <2>2. CASE byte = b \div 8
    <3>1. Min(rests) <= b % 8
      BY <1>3, <2>2
    <3> HIDE DEF rests
    <3> QED
      BY <1>1, <1>4, <2>2, <3>1
  <2>3. CASE byte # b \div 8
    <3>1. b \in Nat /\ c \in Nat
      OBVIOUS
    <3> HIDE DEF rests
    <3> QED
      BY <1>1, <1>4, <2>1, <2>3, <3>1
  <2> QED
    BY <2>2, <2>3
<1> QED
  BY <1>5, <1>6

LEMMA PowerGrows ==
  ASSUME NEW k \in Nat, NEW m \in Nat, k < m
  PROVE  Power(k) < Power(m)
<1>1. Power(k) \in Nat \ {0} /\ Power(k + 1) = 2 * Power(k) /\ Power(m) \in Nat
  BY PowerFacts
<1>2. Above(0, k + 1) /\ Below(0, m)
  BY ZeroHasNoBits DEF Above, Below
<1>3. 0 + Power(k + 1) <= Power(m)
  BY <1>2, BlockEnds
<1> QED
  BY <1>1, <1>3

LEMMA PowerAdds ==
  ASSUME NEW k \in Nat, NEW m \in Nat
  PROVE  Power(k + m) = Power(k) * Power(m)
<1> DEFINE S == {i \in Nat : Power(k + i) = Power(k) * Power(i)}
<1>1. 0 \in S
  BY PowerFacts
<1>2. ASSUME NEW i \in Nat, i \in S PROVE i + 1 \in S
  <2>1. Power(k + i + 1) = 2 * Power(k + i) /\ Power(i + 1) = 2 * Power(i)
        /\ Power(k) \in Nat /\ Power(i) \in Nat
    BY PowerFacts
  <2>2. PICK a \in Nat, b \in Nat : a = Power(k) /\ b = Power(i)
    BY <2>1
  <2>3. a * (2 * b) = 2 * (a * b)
    OBVIOUS
  <2>4. k + (i + 1) = k + i + 1
    OBVIOUS
  <2> QED
    BY <1>2, <2>1, <2>2, <2>3, <2>4
<1>3. m \in S
  <2> HIDE DEF S
  <2> QED
    BY <1>1, <1>2, Inductive
<1> QED
  BY <1>3

WordLength(x64) == IF x64 THEN MtrrMaxRangeShift ELSE WordShift

LEMMA WordFits ==
  ASSUME NEW x64 \in BOOLEAN, NEW n \in Nat, n < Power(WordLength(x64))
  PROVE  Word(n, x64) = n
<1>1. CASE x64
  BY <1>1 DEF Word
<1>2. CASE ~x64
  <2>1. PICK d \in Nat \ {0} : d = Power(WordShift)
    BY ShiftAssumption, PowerFacts
  <2>2. n < d
    BY <1>2, <2>1 DEF WordLength
  <2>3. n % d = n
    BY <2>2
  <2> QED
    BY <1>2, <2>1, <2>3 DEF Word, Power
<1> QED
  BY <1>1, <1>2

(* The part of the mask that the word keeps is not empty, or the range is    *)
(* everything.                                                               *)
LEMMA LengthOf ==
  ASSUME NEW x64 \in BOOLEAN, NEW k \in PageShift .. MtrrMaxRangeShift,
         ~x64 => k < WordShift
  PROVE  MaskToLength((k .. MtrrMaxRangeShift - 1) \cap WordBits(x64)) = Power(k)
<1> DEFINE mask == (k .. MtrrMaxRangeShift - 1) \cap WordBits(x64)
<1>0. k \in Nat /\ PageShift \in Nat /\ WordShift \in Nat /\ MtrrMaxRangeShift \in Nat
      /\ PageShift < WordShift /\ WordShift < MtrrMaxRangeShift
  BY ShiftAssumption
<1>1. mask = k .. WordLength(x64) - 1
  BY <1>0 DEF WordBits, MtrrMask, WordLength
<1> HIDE DEF mask
<1>2. CASE mask = {}
  <2>1. k = MtrrMaxRangeShift
    BY <1>0, <1>1, <1>2 DEF WordLength
  <2> QED
    BY <1>2, <2>1 DEF MaskToLength, Power, mask
<1>3. CASE mask # {}
  <2>1. mask \in SUBSET Nat
    BY <1>0, <1>1 DEF WordLength
  <2>2. FindFirstSetRightBit(mask) \in mask
        /\ \A b \in mask : FindFirstSetRightBit(mask) <= b
    BY <1>3, <2>1, FirstBit
  <2>3. k \in mask
    BY <1>0, <1>1, <1>3 DEF WordLength
  <2>4. FindFirstSetRightBit(mask) = k
    BY <1>0, <1>1, <2>1, <2>2, <2>3
  <2> QED
    BY <1>3, <2>4 DEF MaskToLength, Power, mask
<1> QED
  BY <1>2, <1>3

(* The range that OneRange makes of an MTRR holds the addresses it matches,  *)
(* on x86 if base and length have a place in 32 bits.                        *)
LEMMA RangeMatches ==
  ASSUME NEW x64 \in BOOLEAN, NEW mtrr, mtrr.valid, PowerOfTwoSized(mtrr),
         ~x64 => /\ mtrr.mask \cap WordBits(FALSE) # {}
                 /\ mtrr.base \cap mtrr.mask \subseteq WordBits(FALSE),
         NEW address \in Nat, address < Power(MtrrMaxRangeShift)
  PROVE  address \in OneRange(mtrr, x64).Base .. OneRange(mtrr, x64).Limit
            <=> Matches(mtrr, address)
<1>0. PageShift \in Nat /\ WordShift \in Nat /\ MtrrMaxRangeShift \in Nat
      /\ PageShift < WordShift /\ WordShift < MtrrMaxRangeShift
  BY ShiftAssumption
<1>1. PICK k \in PageShift .. MtrrMaxRangeShift : mtrr.mask = k .. MtrrMaxRangeShift - 1
  BY DEF PowerOfTwoSized
<1> DEFINE W == WordLength(x64)
           kept == mtrr.mask \cap WordBits(x64)
           bits == (mtrr.base \cap WordBits(x64)) \cap kept
           v == Value(bits)
<1>2. k \in Nat /\ W \in Nat /\ k <= W /\ (~x64 => k < W) /\ W <= MtrrMaxRangeShift
  BY <1>0, <1>1 DEF WordLength, WordBits, MtrrMask
<1>3. bits \in SUBSET Nat /\ (\A b \in bits : k <= b /\ b < W)
  BY <1>0, <1>1, <1>2 DEF WordBits, MtrrMask, WordLength
<1>4. \A b \in k .. MtrrMaxRangeShift - 1 : b \in bits <=> b \in mtrr.base
  BY <1>0, <1>1, <1>2 DEF WordBits, MtrrMask
<1> HIDE DEF bits
<1>5. v = Number(bits) /\ v \in Nat /\ HasBits(v, bits)
  BY <1>2, <1>3, ValueIsNumber, NumberHasBits
<1> HIDE DEF v
<1>6. Above(v, k) /\ Below(v, W)
  BY <1>2, <1>3, <1>5 DEF HasBits, Above, Below
<1>7. v + Power(k) <= Power(W) /\ Power(k) \in Nat \ {0} /\ Power(W) \in Nat
  BY <1>2, <1>5, <1>6, BlockEnds, PowerFacts
<1>8. Word(MaskToLength(kept), x64) = Power(k)
  <2>1. MaskToLength(kept) = Power(k)
    BY <1>1, <1>2, LengthOf DEF WordLength
  <2>2. CASE x64
    BY <2>1, <2>2 DEF Word
  <2>3. CASE ~x64
    <3>1. Power(k) < Power(W)
      BY <1>2, <2>3, PowerGrows
    <3> QED
      BY <1>7, <2>1, <3>1, WordFits
  <2> QED
    BY <2>2, <2>3
<1>9. Word(v + Power(k) - 1, x64) = v + Power(k) - 1
  <2>1. v + Power(k) - 1 \in Nat /\ v + Power(k) - 1 < Power(W)
    BY <1>5, <1>7
  <2> QED
    BY <2>1, WordFits
<1>10. OneRange(mtrr, x64).Base = v /\ OneRange(mtrr, x64).Limit = v + Power(k) - 1
  BY <1>8, <1>9 DEF OneRange, MaskedBase, v, bits
<1>11. address \in v .. (v + Power(k) - 1)
          <=> \A b \in Nat : b >= k => Bit(address, b) = Bit(v, b)
  <2>1. address \in v .. (v + Power(k) - 1) <=> v <= address /\ address < v + Power(k)
    BY <1>5, <1>7
  <2>2. v <= address /\ address < v + Power(k)
          <=> \A b \in Nat : b >= k => Bit(address, b) = Bit(v, b)
    BY <1>2, <1>5, <1>6, Block
  <2> QED
    BY <2>1, <2>2
<1>12. ASSUME NEW b \in Nat, b >= MtrrMaxRangeShift PROVE Bit(address, b) = Bit(v, b)
  <2>1. Below(address, MtrrMaxRangeShift)
    BY <1>0, BelowPower
  <2> QED
    BY <1>0, <1>2, <1>6, <1>12, <2>1 DEF Below
<1>13. (\A b \in Nat : b >= k => Bit(address, b) = Bit(v, b))
          <=> \A b \in k .. MtrrMaxRangeShift - 1 : Bit(address, b) = Bit(v, b)
  BY <1>0, <1>2, <1>12
<1>14. \A b \in k .. MtrrMaxRangeShift - 1 : Bit(v, b) = IF b \in mtrr.base THEN 1 ELSE 0
  BY <1>2, <1>4, <1>5 DEF HasBits
<1>15. Matches(mtrr, address)
          <=> \A b \in k .. MtrrMaxRangeShift - 1 :
                 Bit(address, b) = IF b \in mtrr.base THEN 1 ELSE 0
  BY <1>1 DEF Matches, Bit, Power
<1> QED
  BY <1>10, <1>11, <1>13, <1>14, <1>15
=============================================================================
