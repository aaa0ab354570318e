-------------------------- MODULE MultiCycleProofs --------------------------
(***************************************************************************)
(* For every width of a word and every order of instructions and stalls: a *)
(* high product that leaves EX is exact, in a core without a floating-     *)
(* point unit, and so is a quotient or remainder, with or without one.     *)
(* The invariants say what the registers are worth in each step, as        *)
(* integers that are never wrapped: the partial sum, what is left of the   *)
(* dividend and the bits of the quotient so far.                           *)
(***************************************************************************)
EXTENDS MultiCycle, WellFoundedInduction, TLAPS

-----------------------------------------------------------------------------
(* Division and remainder of integers. *)

LEMMA DivMod == ASSUME NEW x \in Int, NEW n \in Nat, n > 0
  PROVE x = n * (x \div n) + (x % n) /\ (x % n) >= 0 /\ (x % n) < n /\ (x \div n) \in Int /\ (x % n) \in Int
OBVIOUS
LEMMA DivUnique == ASSUME NEW x \in Int, NEW n \in Nat, n > 0, NEW q \in Int, NEW r \in Int, x = n * q + r, 0 <= r, r < n
  PROVE x \div n = q /\ (x % n) = r
<1> DEFINE d == x \div n
<1> DEFINE m == x % n
<1>1. x = n * d + m /\ 0 <= m /\ m < n /\ d \in Int /\ m \in Int
  BY DivMod
<1> HIDE DEF d, m
<1>2. n * (d - q) = r - m
  BY <1>1
<1>3. d - q < 1
  <2>1. SUFFICES ASSUME d - q >= 1 PROVE FALSE
    BY <1>1
  <2>2. n * (d - q) >= n
    BY <2>1, <1>1
  <2> QED BY <2>2, <1>1, <1>2
<1>4. d - q > -1
  <2>1. SUFFICES ASSUME d - q <= -1 PROVE FALSE
    BY <1>1
  <2>2. n * (d - q) <= -n
    BY <2>1, <1>1
  <2> QED BY <2>2, <1>1, <1>2
<1>5. d = q /\ m = r
  BY <1>1, <1>2, <1>3, <1>4
<1> QED BY <1>5 DEF d, m

LEMMA AddMultiple ==
  ASSUME NEW x \in Int, NEW n \in Nat, n > 0, NEW k \in Int
  PROVE ((x + n * k) \div n) = (x \div n) + k /\ ((x + n * k) % n) = (x % n)
<1>1. x = n * (x \div n) + (x % n) /\ (x % n) >= 0 /\ (x % n) < n /\ (x \div n) \in Int /\ (x % n) \in Int
  BY DivMod
<1> DEFINE q == x \div n
<1> DEFINE r == x % n
<1> HIDE DEF q, r
<1>2. x = n * q + r /\ 0 <= r /\ r < n /\ q \in Int /\ r \in Int
  BY <1>1 DEF q, r
<1>3. x + n * k = n * (q + k) + r
  BY <1>2
<1>4. (x + n * k) \div n = q + k /\ ((x + n * k) % n) = r
  BY <1>2, <1>3, DivUnique
<1> QED BY <1>4 DEF q, r

LEMMA DivTwice ==
  ASSUME NEW x \in Int, NEW t \in Int, NEW n \in Nat, n > 0
  PROVE (n * x + t) \div (n * n) = (x + (t \div n)) \div n
<1> DEFINE q == t \div n
<1> DEFINE r == t % n
<1>1. t = n * q + r /\ 0 <= r /\ r < n /\ q \in Int /\ r \in Int
  BY DivMod
<1> HIDE DEF q, r
<1> DEFINE d == (x + q) \div n
<1> DEFINE m == (x + q) % n
<1>2. x + q = n * d + m /\ 0 <= m /\ m < n /\ d \in Int /\ m \in Int
  BY <1>1, DivMod
<1> HIDE DEF d, m
<1>3. n * x + t = (n * n) * d + (n * m + r)
  <2>1. n * (x + q) = n * (n * d) + n * m
    BY <1>1, <1>2
  <2> QED BY <1>1, <1>2, <2>1
<1>4. 0 <= n * m + r
  BY <1>1, <1>2
<1>5. n * m + r < n * n
  <2>1. n * m <= n * (n - 1)
    BY <1>2
  <2> QED BY <2>1, <1>1, <1>2
<1>6. n * n \in Nat /\ n * n > 0 /\ n * m + r \in Int /\ n * x + t \in Int
  BY <1>1, <1>2
<1>7. (n * x + t) \div (n * n) = d
  BY <1>2, <1>3, <1>4, <1>5, <1>6, DivUnique
<1> QED BY <1>7 DEF d, q

LEMMA ProductBound ==
  ASSUME NEW n \in Nat, n > 0, NEW x \in Int, NEW y \in Int,
         -n < x, x < n, -n < y, y < n
  PROVE  x * y <= (n - 1) * (n - 1) /\ -((n - 1) * (n - 1)) <= x * y
<1>1. CASE x >= 0
  <2>1. x * y <= x * (n - 1) /\ x * (-(n - 1)) <= x * y
    BY <1>1
  <2>2. x * (n - 1) <= (n - 1) * (n - 1)
    BY <1>1
  <2> QED BY <2>1, <2>2
<1>2. CASE x < 0
  <2> DEFINE z == -x
  <2>1. z \in Int /\ z >= 0 /\ z <= n - 1 /\ x * y = -(z * y)
    BY <1>2
  <2> HIDE DEF z
  <2>2. z * y <= z * (n - 1) /\ z * (-(n - 1)) <= z * y
    BY <2>1
  <2>3. z * (n - 1) <= (n - 1) * (n - 1)
    BY <2>1
  <2> QED BY <2>1, <2>2, <2>3
<1> QED BY <1>1, <1>2

-----------------------------------------------------------------------------
(* The halves of an operand. *)

High(x, signed) == IF signed THEN AsSigned(Upper(x), HALF) ELSE Upper(x)

LEMMA FullPositive == FULL \in Nat /\ FULL > 0 /\ FULL = HALF * HALF /\ HALF \in Nat /\ HALF > 0
BY HalfAssumption DEF FULL

LEMMA EvenHalf == HALF = 2 * (HALF \div 2) /\ HALF \div 2 \in Nat /\ FULL \div 2 = HALF * (HALF \div 2)
<1> DEFINE h == HALF \div 2
<1>1. HALF = 2 * h /\ h \in Nat
  BY HalfAssumption
<1> HIDE DEF h
<1>2. FULL = 2 * (HALF * h) + 0
  BY <1>1, FullPositive
<1>3. HALF * h \in Int
  BY <1>1, FullPositive
<1>4. FULL \div 2 = HALF * h
  BY <1>2, <1>3, FullPositive, DivUnique
<1> QED BY <1>1, <1>4 DEF h

LEMMA Halves ==
  ASSUME NEW x \in MulWord
  PROVE  /\ Upper(x) \in Int /\ 0 <= Upper(x) /\ Upper(x) < HALF
         /\ Lower(x) \in Int /\ 0 <= Lower(x) /\ Lower(x) < HALF
         /\ x = HALF * Upper(x) + Lower(x)
<1> DEFINE u == Upper(x)
<1> DEFINE l == Lower(x)
<1>1. x \in Int /\ 0 <= x /\ x < FULL
  BY FullPositive DEF MulWord
<1>2. x = HALF * u + l /\ l >= 0 /\ l < HALF /\ u \in Int /\ l \in Int
  BY <1>1, FullPositive, DivMod DEF Upper, Lower
<1> HIDE DEF u, l
<1>3. u < HALF
  <2>1. SUFFICES ASSUME u >= HALF PROVE FALSE
    BY <1>2, FullPositive
  <2>2. HALF * u >= HALF * HALF
    BY <2>1, <1>2, FullPositive
  <2> QED BY <2>2, <1>1, <1>2, FullPositive
<1>4. u >= 0
  <2>1. SUFFICES ASSUME u <= -1 PROVE FALSE
    BY <1>2, FullPositive
  <2>2. HALF * u <= -HALF
    BY <2>1, <1>2, FullPositive
  <2> QED BY <2>2, <1>1, <1>2, FullPositive
<1> QED BY <1>2, <1>3, <1>4 DEF u, l

LEMMA HighHalf ==
  ASSUME NEW x \in MulWord, NEW signed \in BOOLEAN
  PROVE  /\ High(x, signed) \in Int /\ -HALF < High(x, signed) /\ High(x, signed) < HALF
         /\ Value(x, signed) = HALF * High(x, signed) + Lower(x)
<1> DEFINE u == Upper(x)
<1> DEFINE l == Lower(x)
<1> DEFINE h == HALF \div 2
<1>1. u \in Int /\ 0 <= u /\ u < HALF /\ l \in Int /\ 0 <= l /\ l < HALF /\ x = HALF * u + l
  BY Halves
<1>2. HALF = 2 * h /\ h \in Nat /\ FULL \div 2 = HALF * h
  BY EvenHalf
<1>3. HALF \in Nat /\ HALF > 0 /\ FULL = HALF * HALF
  BY FullPositive
<1>4. CASE ~signed
  BY <1>1, <1>3, <1>4 DEF High, Value
<1>5. CASE signed /\ u < h
  <2>1. High(x, signed) = u
    BY <1>5 DEF High, AsSigned
  <2> HIDE DEF u, l, h
  <2>2. x < HALF * h
    <3>1. HALF * u <= HALF * (h - 1)
      BY <1>1, <1>2, <1>3, <1>5
    <3> QED BY <3>1, <1>1, <1>2, <1>3
  <2>3. Value(x, signed) = x
    BY <2>2, <1>2, <1>5 DEF Value, AsSigned
  <2> QED BY <2>1, <2>3, <1>1, <1>3 DEF l
<1>6. CASE signed /\ u >= h
  <2>1. High(x, signed) = u - HALF
    BY <1>6, <1>1, <1>2 DEF High, AsSigned
  <2> HIDE DEF u, l, h
  <2>2. ~ (x < HALF * h)
    <3>1. HALF * u >= HALF * h
      BY <1>1, <1>2, <1>3, <1>6
    <3> QED BY <3>1, <1>1, <1>2, <1>3
  <2>3. Value(x, signed) = x - FULL
    BY <2>2, <1>2, <1>6 DEF Value, AsSigned
  <2>4. HALF * (u - HALF) = HALF * u - HALF * HALF
    BY <1>1, <1>3
  <2>5. -HALF < u - HALF
    BY <1>1, <1>2, <1>3, <1>6
  <2> QED BY <2>1, <2>3, <2>4, <2>5, <1>1, <1>3 DEF l
<1> QED BY <1>1, <1>2, <1>4, <1>5, <1>6

-----------------------------------------------------------------------------
(* The partial sums, as integers. *)

LowA(op) == Lower(op.a)
LowB(op) == Lower(op.b)
HighA(op) == High(op.a, SignedA(op))
HighB(op) == High(op.b, SignedB(op))

First(op) == (LowA(op) * LowB(op)) \div HALF
Second(op) == First(op) + LowA(op) * HighB(op)
Third(op) == Second(op) + HighA(op) * LowB(op)

LEMMA Operands ==
  ASSUME NEW op \in Operation
  PROVE  /\ LowA(op) \in Int /\ 0 <= LowA(op) /\ LowA(op) < HALF
         /\ LowB(op) \in Int /\ 0 <= LowB(op) /\ LowB(op) < HALF
         /\ HighA(op) \in Int /\ -HALF < HighA(op) /\ HighA(op) < HALF
         /\ HighB(op) \in Int /\ -HALF < HighB(op) /\ HighB(op) < HALF
<1>1. op.a \in MulWord /\ op.b \in MulWord /\ SignedA(op) \in BOOLEAN /\ SignedB(op) \in BOOLEAN
  BY DEF Operation, SignedA, SignedB
<1>2. /\ LowA(op) \in Int /\ 0 <= LowA(op) /\ LowA(op) < HALF
      /\ LowB(op) \in Int /\ 0 <= LowB(op) /\ LowB(op) < HALF
  BY <1>1, Halves DEF LowA, LowB
<1>3. HighA(op) \in Int /\ -HALF < HighA(op) /\ HighA(op) < HALF
  BY <1>1, HighHalf DEF HighA
<1>4. HighB(op) \in Int /\ -HALF < HighB(op) /\ HighB(op) < HALF
  BY <1>1, HighHalf DEF HighB
<1> QED BY <1>2, <1>3, <1>4

\* No partial sum needs more than the 34 bits of short_mac.
LEMMA SumBounds ==
  ASSUME NEW op \in Operation
  PROVE  /\ LowA(op) * LowB(op) \in Int /\ 0 <= LowA(op) * LowB(op) /\ LowA(op) * LowB(op) < FULL
         /\ First(op) \in Int /\ 0 <= First(op) /\ First(op) < HALF
         /\ Second(op) \in Int /\ -FULL < Second(op) /\ Second(op) < FULL
         /\ Third(op) \in Int /\ -(2 * FULL) < Third(op) /\ Third(op) < 2 * FULL
<1> DEFINE n == HALF
<1> DEFINE ll == LowA(op) * LowB(op)
<1> DEFINE lh == LowA(op) * HighB(op)
<1> DEFINE hl == HighA(op) * LowB(op)
<1> DEFINE sq == (n - 1) * (n - 1)
<1>1. n \in Nat /\ n > 0 /\ FULL = n * n
  BY FullPositive
<1>2. /\ ll \in Int /\ 0 <= ll /\ ll <= sq
  <2>1. ll <= sq
    BY Operands, ProductBound, <1>1
  <2>2. ll \in Int /\ 0 <= ll
    BY Operands
  <2> QED BY <2>1, <2>2
<1>3. lh \in Int /\ -sq <= lh /\ lh <= sq
  BY Operands, ProductBound, <1>1
<1>4. hl \in Int /\ -sq <= hl /\ hl <= sq
  BY Operands, ProductBound, <1>1
<1>5. sq = n * n - 2 * n + 1
  BY <1>1
<1> DEFINE f == ll \div n
<1> DEFINE r == ll % n
<1>6. ll = n * f + r /\ 0 <= r /\ r < n /\ f \in Int /\ r \in Int
  BY <1>1, <1>2, DivMod
<1>7. First(op) = f /\ Second(op) = f + lh /\ Third(op) = f + lh + hl
  BY DEF First, Second, Third
<1> HIDE DEF n, ll, lh, hl, sq, f, r
<1>8. f < n
  <2>1. SUFFICES ASSUME f >= n PROVE FALSE
    BY <1>1, <1>6
  <2>2. n * f >= n * n
    BY <2>1, <1>1, <1>6
  <2> QED BY <2>2, <1>1, <1>2, <1>5, <1>6
<1>9. f >= 0
  <2>1. SUFFICES ASSUME f <= -1 PROVE FALSE
    BY <1>1, <1>6
  <2>2. n * f <= -n
    BY <2>1, <1>1, <1>6
  <2> QED BY <2>2, <1>1, <1>2, <1>6
<1> DEFINE g == FULL
<1>10. sq = g - 2 * n + 1 /\ g \in Int
  BY <1>1, <1>5
<1> HIDE DEF g
<1>11. ll < g
  BY <1>1, <1>2, <1>10
<1>12. -g < f + lh /\ f + lh < g
  BY <1>1, <1>3, <1>6, <1>8, <1>9, <1>10
<1>13. -(2 * g) < f + lh + hl /\ f + lh + hl < 2 * g
  BY <1>1, <1>3, <1>4, <1>6, <1>8, <1>9, <1>10
<1> QED BY <1>1, <1>2, <1>3, <1>4, <1>6, <1>7, <1>8, <1>9, <1>11, <1>12, <1>13 DEF g, n, ll

\* Within 34 bits, the wrapped sum is the sum.
LEMMA NoWrap ==
  ASSUME NEW m \in Int, -(2 * FULL) <= m, m < 2 * FULL
  PROVE  AsSigned(m % (4 * FULL), 4 * FULL) = m
<1> DEFINE n == 4 * FULL
<1>1. n \in Nat /\ n > 0 /\ FULL \in Nat
  BY FullPositive
<1>2. n \div 2 = 2 * FULL
  <2>1. n = 2 * (2 * FULL) + 0
    BY <1>1
  <2> QED BY <2>1, <1>1, DivUnique
<1>3. CASE m >= 0
  <2>1. m = n * 0 + m /\ m < n
    BY <1>1
  <2>2. (m % n) = m
    BY <2>1, <1>1, <1>3, DivUnique
  <2> QED BY <2>2, <1>2 DEF AsSigned
<1>4. CASE m < 0
  <2>1. m = n * (-1) + (m + n) /\ m + n >= 0 /\ m + n < n
    BY <1>1, <1>4
  <2>2. (m % n) = m + n
    BY <2>1, <1>1, DivUnique
  <2>3. ~ (m + n < n \div 2)
    BY <1>1, <1>2
  <2> QED BY <2>2, <2>3, <1>1 DEF AsSigned
<1> QED BY <1>3, <1>4

\* Its lower word is that of the sum in any case.
LEMMA WrapKeepsWord ==
  ASSUME NEW m \in Int
  PROVE  (AsSigned(m % (4 * FULL), 4 * FULL) % FULL) = (m % FULL)
<1> DEFINE n == 4 * FULL
<1> DEFINE q == m \div n
<1> DEFINE r == m % n
<1>1. n \in Nat /\ n > 0 /\ FULL \in Nat /\ FULL > 0
  BY FullPositive
<1>2. m = n * q + r /\ q \in Int /\ r \in Int
  BY <1>1, DivMod
<1>3. AsSigned(r, n) = r \/ AsSigned(r, n) = r - n
  BY DEF AsSigned
<1> HIDE DEF q, r
<1>4. ASSUME NEW k \in Int
      PROVE  ((m + FULL * k) % FULL) = (m % FULL)
  BY <1>1, AddMultiple
<1>5. ((m + FULL * (-4 * q)) % FULL) = (m % FULL) /\ ((m + FULL * (-4 * q - 4)) % FULL) = (m % FULL)
  <2>1. -4 * q \in Int /\ -4 * q - 4 \in Int
    BY <1>2
  <2> QED BY <2>1, <1>4
<1>6. r = m + FULL * (-4 * q) /\ r - n = m + FULL * (-4 * q - 4)
  BY <1>1, <1>2
<1>7. (AsSigned(r, n) % FULL) = (m % FULL)
  BY <1>3, <1>5, <1>6
<1> QED BY <1>7 DEF r


\* The definition of the instruction, in terms of the last partial sum.
LEMMA WholeProduct ==
  ASSUME NEW op \in Operation
  PROVE  HighProduct(op) = ((HighA(op) * HighB(op) + (Third(op) \div HALF)) % FULL)
<1> DEFINE n == HALF
<1> DEFINE al == LowA(op)
<1> DEFINE bl == LowB(op)
<1> DEFINE ah == HighA(op)
<1> DEFINE bh == HighB(op)
<1> DEFINE x == al * bh + ah * bl
<1> DEFINE lower == al * bl
<1>1. op.a \in MulWord /\ op.b \in MulWord /\ SignedA(op) \in BOOLEAN /\ SignedB(op) \in BOOLEAN
  BY DEF Operation, SignedA, SignedB
<1>2. Value(op.a, SignedA(op)) = n * ah + al
  BY <1>1, HighHalf DEF HighA, LowA
<1>3. Value(op.b, SignedB(op)) = n * bh + bl
  BY <1>1, HighHalf DEF HighB, LowB
<1>4. n \in Nat /\ n > 0 /\ FULL = n * n /\ FULL \in Nat /\ FULL > 0
  BY FullPositive
<1>5. al \in Int /\ bl \in Int /\ ah \in Int /\ bh \in Int
  BY Operands
<1>6. Third(op) \div n = (x + (lower \div n)) \div n
  <2>1. lower \div n \in Int /\ x \in Int
    BY <1>4, <1>5, DivMod
  <2>2. Third(op) = x + (lower \div n)
    BY <2>1, <1>5 DEF First, Second, Third
  <2> QED BY <2>2
<1>7. HighProduct(op) = ((((n * ah + al) * (n * bh + bl)) \div FULL) % FULL)
  BY <1>2, <1>3 DEF HighProduct
<1> HIDE DEF n, al, bl, ah, bh
<1>8. (n * ah + al) * (n * bh + bl) = (n * x + lower) + (n * n) * (ah * bh)
  <2>1. (n * ah + al) * (n * bh + bl) = (n * ah) * (n * bh) + (n * ah) * bl + al * (n * bh) + al * bl
    BY <1>4, <1>5
  <2>2. (n * ah) * (n * bh) = (n * n) * (ah * bh) /\ (n * ah) * bl = n * (ah * bl) /\ al * (n * bh) = n * (al * bh)
    BY <1>4, <1>5
  <2>3. n * x = n * (al * bh) + n * (ah * bl)
    BY <1>4, <1>5
  <2> QED BY <2>1, <2>2, <2>3, <1>4, <1>5
<1>9. x \in Int /\ lower \in Int /\ n * x + lower \in Int /\ ah * bh \in Int
  BY <1>4, <1>5
<1> HIDE DEF x, lower
<1>10. ((n * x + lower) + FULL * (ah * bh)) \div FULL = ((n * x + lower) \div FULL) + ah * bh
  BY <1>4, <1>9, AddMultiple
<1>11. (n * x + lower) \div FULL = (x + (lower \div n)) \div n
  BY <1>4, <1>9, DivTwice
<1>12. (Third(op) \div n) \in Int
  BY <1>4, SumBounds, DivMod
<1>13. ((n * ah + al) * (n * bh + bl)) \div FULL = ah * bh + (Third(op) \div n)
  <2>1. (n * ah + al) * (n * bh + bl) = (n * x + lower) + FULL * (ah * bh)
    BY <1>4, <1>8
  <2>2. ((n * ah + al) * (n * bh + bl)) \div FULL = ((n * x + lower) \div FULL) + ah * bh
    BY <2>1, <1>10
  <2>3. ((n * ah + al) * (n * bh + bl)) \div FULL = (Third(op) \div n) + ah * bh
    BY <2>2, <1>6, <1>11
  <2> QED BY <2>3, <1>9, <1>12
<1> QED BY <1>7, <1>13 DEF n, ah, bh

-----------------------------------------------------------------------------
(* What the multiplier computes in each of its states. *)

LEMMA Step0 ==
  ASSUME NEW op \in Operation, mulh_CS = "STEP0", ~mulh_carry_q, mult_operand_c = 0
  PROVE  short_result(op) = First(op)
<1> DEFINE m == LowA(op) * LowB(op)
<1>1. short_op_c + short_op_a(op) * short_op_b(op) = m
  <2>1. m \in Int
    BY SumBounds
  <2>2. short_op_c = 0 /\ short_op_a(op) = LowA(op) /\ short_op_b(op) = LowB(op)
    BY DEF short_op_c, short_op_a, short_op_b, UpperA, UpperB, LowA, LowB
  <2> QED BY <2>1, <2>2
<1>2. m \in Int /\ 0 <= m /\ m < FULL /\ FULL \in Nat /\ FULL > 0
  BY SumBounds, FullPositive
<1>3. First(op) = m \div HALF
  BY DEF First
<1> HIDE DEF m
<1>4. short_mac(op) = m
  BY <1>1, <1>2, NoWrap DEF short_mac
<1>5. (m % FULL) = m
  <2>1. m = FULL * 0 + m
    BY <1>2
  <2> QED BY <2>1, <1>2, DivUnique
<1>6. short_result(op) = ((short_mac(op) % FULL) \div HALF)
  BY DEF short_result
<1> QED BY <1>3, <1>4, <1>5, <1>6

LEMMA Step1 ==
  ASSUME NEW op \in Operation, mulh_CS = "STEP1", ~mulh_carry_q, mult_operand_c = First(op)
  PROVE  /\ short_mac(op) = Second(op)
         /\ short_result(op) = (Second(op) % FULL)
<1> DEFINE m == Second(op)
<1>1. short_op_c = First(op) /\ short_op_a(op) = LowA(op) /\ short_op_b(op) = HighB(op)
  BY DEF short_op_c, short_op_a, short_op_b, UpperA, UpperB, LowA, HighB, High
<1>2. short_op_c + short_op_a(op) * short_op_b(op) = m
  BY <1>1 DEF Second
<1>3. m \in Int /\ -(2 * FULL) <= m /\ m < 2 * FULL
  BY SumBounds, FullPositive
<1> HIDE DEF m
<1>4. short_mac(op) = m
  BY <1>2, <1>3, NoWrap DEF short_mac
<1> QED BY <1>4 DEF short_result, m

\* The sum of the middle products, kept as a word and a sign.
LEMMA CarryIsSign ==
  ASSUME NEW m \in Int, -FULL < m, m < FULL, NEW c, NEW w,
         c = ((m \div FULL) % 2 = 1), w = (m % FULL)
  PROVE  (IF c THEN w - FULL ELSE w) = m
<1>1. FULL \in Nat /\ FULL > 0
  BY FullPositive
<1>2. CASE m >= 0
  <2>1. m = FULL * 0 + m
    BY <1>1
  <2>2. m \div FULL = 0 /\ (m % FULL) = m
    BY <2>1, <1>1, <1>2, DivUnique
  <2>3. ~ (0 % 2 = 1)
    OBVIOUS
  <2> QED BY <2>2, <2>3
<1>3. CASE m < 0
  <2>1. m = FULL * (-1) + (m + FULL) /\ m + FULL >= 0 /\ m + FULL < FULL /\ m + FULL \in Int
    BY <1>1, <1>3
  <2>2. m \div FULL = -1 /\ (m % FULL) = m + FULL
    BY <2>1, <1>1, DivUnique
  <2>3. ((m \div FULL) % 2) = 1
    <3> DEFINE d == m \div FULL
    <3>1. d = -1
      BY <2>2
    <3> HIDE DEF d
    <3>2. d \in Int /\ d = 2 * d + 1
      BY <3>1
    <3>3. (d % 2) = 1
      BY <3>2, DivUnique
    <3> QED BY <3>3 DEF d
  <2>4. c /\ w = m + FULL
    BY <2>2, <2>3
  <2> QED BY <2>4, <1>1
<1> QED BY <1>2, <1>3

LEMMA Step2 ==
  ASSUME NEW op \in Operation, mulh_CS = "STEP2", short_op_c = Second(op)
  PROVE  short_result(op) = ((Third(op) \div HALF) % FULL)
<1> DEFINE m == Third(op)
<1>1. short_op_a(op) = HighA(op) /\ short_op_b(op) = LowB(op)
  BY DEF short_op_a, short_op_b, UpperA, UpperB, LowB, HighA, High
<1>2. short_op_c + short_op_a(op) * short_op_b(op) = m
  BY <1>1 DEF Third
<1>3. m \in Int /\ -(2 * FULL) <= m /\ m < 2 * FULL
  BY SumBounds, FullPositive
<1> HIDE DEF m
<1>4. short_mac(op) = m
  BY <1>2, <1>3, NoWrap DEF short_mac
<1> QED BY <1>4 DEF short_result, m

LEMMA Finish ==
  ASSUME NEW op \in Operation, mulh_CS = "FINISH", ~mulh_carry_q,
         mult_operand_c = ((Third(op) \div HALF) % FULL)
  PROVE  short_result(op) = HighProduct(op)
<1> DEFINE d == Third(op) \div HALF
<1> DEFINE r == d % FULL
<1> DEFINE q == d \div FULL
<1> DEFINE p == HighA(op) * HighB(op)
<1>1. short_op_c = r /\ short_op_a(op) = HighA(op) /\ short_op_b(op) = HighB(op)
  BY DEF short_op_c, short_op_a, short_op_b, UpperA, UpperB, HighA, HighB, High
<1>2. FULL \in Nat /\ FULL > 0 /\ HALF \in Nat /\ HALF > 0
  BY FullPositive
<1>3. d \in Int
  BY <1>2, SumBounds, DivMod
<1>4. p \in Int
  BY Operands
<1>5. HighProduct(op) = ((p + d) % FULL)
  BY WholeProduct
<1>6. short_mac(op) = AsSigned((r + p) % (4 * FULL), 4 * FULL)
  BY <1>1 DEF short_mac
<1> HIDE DEF d, p
<1>7. d = FULL * q + r /\ q \in Int /\ r \in Int
  BY <1>2, <1>3, DivMod
<1> HIDE DEF r, q
<1>8. r + p \in Int /\ p + d = (r + p) + FULL * q
  BY <1>2, <1>3, <1>4, <1>7
<1>9. ((p + d) % FULL) = ((r + p) % FULL)
  <2>1. (((r + p) + FULL * q) % FULL) = ((r + p) % FULL)
    BY <1>2, <1>7, <1>8, AddMultiple
  <2> QED BY <2>1, <1>8
<1>10. (short_mac(op) % FULL) = ((r + p) % FULL)
  BY <1>6, <1>8, WrapKeepsWord
<1>11. short_result(op) = (short_mac(op) % FULL)
  BY DEF short_result
<1> QED BY <1>5, <1>9, <1>10, <1>11


-----------------------------------------------------------------------------
(* The invariant: what operand c and the carry hold in each state. *)

PartialSum ==
  /\ ex \in Operation \cup {NoOp}
  /\ mulh_CS \in {"IDLE", "STEP0", "STEP1", "STEP2", "FINISH"}
  /\ mulh_carry_q \in BOOLEAN
  /\ mulh_CS # "IDLE" => IsMulh
  /\ mulh_carry_q => mulh_CS = "STEP2"
  /\ IsMulh /\ mulh_CS \in {"IDLE", "STEP0"} => mult_operand_c = 0
  /\ mulh_CS = "STEP1" => mult_operand_c = First(ex)
  /\ mulh_CS = "STEP2" => short_op_c = Second(ex)
  /\ mulh_CS = "FINISH" => mult_operand_c = ((Third(ex) \div HALF) % FULL)

LEMMA MulhInEx ==
  ASSUME ex \in Operation \cup {NoOp}, IsMulh
  PROVE  ex \in Operation
BY DEF IsMulh, NoOp

LEMMA SumsKept ==
  ASSUME ex' = ex
  PROVE  First(ex)' = First(ex) /\ Second(ex)' = Second(ex) /\ Third(ex)' = Third(ex) /\ IsMulh' = IsMulh
BY DEF First, Second, Third, LowA, LowB, HighA, HighB, High, Lower, Upper, AsSigned, SignedA, SignedB, IsMulh

\* Without a floating-point unit, what goes back to operand c is the result.
LEMMA NoContention ==
  ASSUME ~FPU, NEW in \in Inputs, IsMulh
  PROVE  regfile_alu_wdata_fw(in) = short_result(ex)
<1>1. in.apu = {}
  BY DEF Inputs
<1> QED BY <1>1 DEF regfile_alu_wdata_fw, alu_wdata

LEMMA NextInstruction ==
  ASSUME ex \in Operation \cup {NoOp}, NEW in \in Inputs, Accept(in)
  PROVE  ex' \in Operation \cup {NoOp}
<1>1. in.id \in Operation \cup {NoOp}
  <2>1. in.id \in Offered
    BY DEF Inputs
  <2>2. Offered \subseteq Operations \cup {NoOp}
    BY OperationsAssumption DEF Offered
  <2> QED BY <2>1, <2>2, OperationsAssumption
<1> QED BY <1>1 DEF Accept

LEMMA InitPartialSum == Init => PartialSum
BY DEF Init, MulInit, PartialSum, IsMulh, NoOp

LEMMA StepPartialSum ==
  ASSUME PartialSum, ~FPU, NEW in \in Inputs, Clock(in)
  PROVE  PartialSum'
<1>1. /\ MulStep(ex, IsMulh, ex_ready(in)) /\ OperandC(in) /\ Accept(in)
      /\ Carry(ex, ex_ready(in))
  BY DEF Clock, MulStep
<1>2. ex' \in Operation \cup {NoOp}
  BY <1>1, NextInstruction DEF PartialSum
<1>3. CASE mulh_CS = "IDLE" /\ ~IsMulh
  <2>1. mulh_CS' = "IDLE" /\ mulh_carry_q' = FALSE
    BY <1>1, <1>3 DEF MulStep, MulhIdle, MulhStep, MulhFinish, Carry, PartialSum
  <2>2. IsMulh' => mult_operand_c' = 0
    <3>1. CASE ex_ready(in)
      <4>1. ex' = in.id
        BY <1>1, <3>1 DEF Accept
      <4>2. in.id.kind \in {"mulh", "mulhsu", "mulhu"} => mult_operand_c' = 0
        BY <1>1, <1>3, <3>1 DEF OperandC, multicycle_o
      <4> QED BY <4>1, <4>2 DEF IsMulh
    <3>2. CASE ~ex_ready(in)
      BY <1>1, <1>3, <3>2 DEF Accept, IsMulh
    <3> QED BY <3>1, <3>2
  <2> QED BY <1>2, <2>1, <2>2 DEF PartialSum
<1>4. CASE mulh_CS = "IDLE" /\ IsMulh
  <2>1. ~ex_ready(in)
    BY <1>4 DEF ex_ready, units_ready, mult_ready
  <2>2. ex' = ex /\ mult_operand_c' = mult_operand_c
    BY <1>1, <1>4, <2>1 DEF Accept, OperandC, multicycle_o
  <2>3. mulh_CS' = "STEP0" /\ mulh_carry_q' = FALSE
    BY <1>1, <1>4 DEF MulStep, MulhIdle, MulhStep, MulhFinish, Carry, PartialSum
  <2>4. mult_operand_c = 0
    BY <1>4 DEF PartialSum
  <2> QED BY <1>2, <1>4, <2>2, <2>3, <2>4, SumsKept DEF PartialSum
<1>5. ASSUME mulh_CS \in {"STEP0", "STEP1", "STEP2"}
      PROVE  /\ IsMulh /\ ex \in Operation /\ ex' = ex /\ ~ex_ready(in)
             /\ mult_operand_c' = short_result(ex)
  <2>1. IsMulh /\ ex \in Operation
    BY <1>5, MulhInEx DEF PartialSum
  <2>2. ~ex_ready(in)
    BY <1>5 DEF ex_ready, units_ready, mult_ready
  <2>3. mult_operand_c' = short_result(ex)
    BY <1>1, <1>5, <2>1, NoContention DEF OperandC, multicycle_o
  <2> QED BY <1>1, <2>1, <2>2, <2>3 DEF Accept
<1>6. CASE mulh_CS = "STEP0"
  <2>1. mulh_CS' = "STEP1" /\ mulh_carry_q' = FALSE
    BY <1>1, <1>6 DEF MulStep, MulhIdle, MulhStep, MulhFinish, Carry, PartialSum
  <2>2. ~mulh_carry_q /\ mult_operand_c = 0
    BY <1>5, <1>6 DEF PartialSum
  <2>3. mult_operand_c' = First(ex)
    BY <1>5, <1>6, <2>2, Step0
  <2> QED BY <1>2, <1>5, <1>6, <2>1, <2>3, SumsKept DEF PartialSum
<1>7. CASE mulh_CS = "STEP1"
  <2>1. mulh_CS' = "STEP2" /\ mulh_carry_q' = ((short_mac(ex) \div FULL) % 2 = 1)
    BY <1>1, <1>7 DEF MulStep, MulhIdle, MulhStep, MulhFinish, Carry
  <2>2. ~mulh_carry_q /\ mult_operand_c = First(ex)
    BY <1>7 DEF PartialSum
  <2>3. mult_operand_c' = (Second(ex) % FULL) /\ short_mac(ex) = Second(ex)
    BY <1>5, <1>7, <2>2, Step1
  <2>4. Second(ex) \in Int /\ -FULL < Second(ex) /\ Second(ex) < FULL
    BY <1>5, <1>7, SumBounds
  <2>5. (IF mulh_carry_q' THEN mult_operand_c' - FULL ELSE mult_operand_c') = Second(ex)
    BY <2>1, <2>3, <2>4, CarryIsSign
  <2>6. short_op_c' = Second(ex)
    BY <2>5 DEF short_op_c, FULL
  <2>7. mulh_carry_q' \in BOOLEAN
    BY <2>1
  <2> QED BY <1>2, <1>5, <1>7, <2>1, <2>6, <2>7, SumsKept DEF PartialSum
<1>8. CASE mulh_CS = "STEP2"
  <2>1. mulh_CS' = "FINISH" /\ mulh_carry_q' = FALSE
    BY <1>1, <1>8 DEF MulStep, MulhIdle, MulhStep, MulhFinish, Carry
  <2>2. short_op_c = Second(ex)
    BY <1>8 DEF PartialSum
  <2>3. mult_operand_c' = ((Third(ex) \div HALF) % FULL)
    BY <1>5, <1>8, <2>2, Step2
  <2> QED BY <1>2, <1>5, <1>8, <2>1, <2>3, SumsKept DEF PartialSum
<1>9. CASE mulh_CS = "FINISH"
  <2>1. mulh_carry_q' = FALSE
    BY <1>1, <1>9 DEF Carry, PartialSum
  <2>2. CASE ex_ready(in)
    <3>1. mulh_CS' = "IDLE"
      BY <1>1, <1>9, <2>2 DEF MulStep, MulhIdle, MulhStep, MulhFinish
    <3>2. ex' = in.id
      BY <1>1, <2>2 DEF Accept
    <3>3. in.id.kind \in {"mulh", "mulhsu", "mulhu"} => mult_operand_c' = 0
      BY <1>1, <1>9, <2>2 DEF OperandC, multicycle_o
    <3>4. IsMulh' => mult_operand_c' = 0
      BY <3>2, <3>3 DEF IsMulh
    <3> QED BY <1>2, <2>1, <3>1, <3>4 DEF PartialSum
  <2>3. CASE ~ex_ready(in)
    <3>1. mulh_CS' = "FINISH"
      BY <1>1, <1>9, <2>3 DEF MulStep, MulhIdle, MulhStep, MulhFinish
    <3>2. ex' = ex /\ mult_operand_c' = mult_operand_c
      BY <1>1, <1>9, <2>3 DEF Accept, OperandC, multicycle_o
    <3>3. IsMulh /\ mult_operand_c = ((Third(ex) \div HALF) % FULL)
      BY <1>9 DEF PartialSum
    <3> QED BY <1>2, <2>1, <3>1, <3>2, <3>3, SumsKept DEF PartialSum
  <2> QED BY <2>2, <2>3
<1> QED BY <1>3, <1>4, <1>6, <1>7, <1>8, <1>9 DEF PartialSum

LEMMA StutterPartialSum ==
  ASSUME PartialSum, UNCHANGED multiVars
  PROVE  PartialSum'
<1>1. /\ ex' = ex /\ mulh_CS' = mulh_CS /\ mulh_carry_q' = mulh_carry_q
      /\ mult_operand_c' = mult_operand_c
  BY DEF multiVars, mulhVars
<1>2. short_op_c' = short_op_c
  BY <1>1 DEF short_op_c, FULL
<1> QED BY <1>1, <1>2, SumsKept DEF PartialSum

LEMMA PartialSumImplies == PartialSum => ProductExact
<1> SUFFICES ASSUME PartialSum, IsMulh, units_ready
             PROVE  alu_wdata = HighProduct(ex)
  BY DEF ProductExact
<1>1. mulh_CS = "FINISH"
  BY DEF units_ready, mult_ready
<1>2. ex \in Operation
  BY MulhInEx DEF PartialSum
<1>3. ~mulh_carry_q /\ mult_operand_c = ((Third(ex) \div HALF) % FULL)
  BY <1>1 DEF PartialSum
<1>4. short_result(ex) = HighProduct(ex)
  BY <1>1, <1>2, <1>3, Finish
<1> QED BY <1>4 DEF alu_wdata

-----------------------------------------------------------------------------
\* Every high product is exact when it leaves EX, for every width of a word,
\* every pair of operands and every history, in a core without a
\* floating-point unit (riscv_mult.sv, the assertions at its end).
THEOREM HighProductsExact ==
  ASSUME ~FPU
  PROVE  Spec => []ProductExact
<1>1. PartialSum /\ [Next]_multiVars => PartialSum'
  <2> SUFFICES ASSUME PartialSum, [Next]_multiVars
               PROVE  PartialSum'
    OBVIOUS
  <2>1. CASE Next
    <3>1. PICK in \in Inputs : Clock(in)
      BY <2>1 DEF Next
    <3> QED BY <3>1, StepPartialSum
  <2>2. CASE UNCHANGED multiVars
    BY <2>2, StutterPartialSum
  <2> QED BY <2>1, <2>2
<1> QED BY <1>1, InitPartialSum, PartialSumImplies, PTL DEF Spec
-----------------------------------------------------------------------------
(* Powers of two, as far as a word reaches. *)

Pow(n) == 2 ^ n

LEMMA Powers ==
  /\ Pow(0) = 1 /\ Pow(1) = 2 /\ Pow(2) = 4 /\ Pow(3) = 8 /\ Pow(4) = 16 /\ Pow(5) = 32
  /\ Pow(6) = 64 /\ Pow(7) = 128 /\ Pow(8) = 256 /\ Pow(9) = 512 /\ Pow(10) = 1024
  /\ Pow(11) = 2048 /\ Pow(12) = 4096 /\ Pow(13) = 8192 /\ Pow(14) = 16384 /\ Pow(15) = 32768
  /\ Pow(16) = 65536 /\ Pow(17) = 131072 /\ Pow(18) = 262144 /\ Pow(19) = 524288
  /\ Pow(20) = 1048576 /\ Pow(21) = 2097152 /\ Pow(22) = 4194304 /\ Pow(23) = 8388608
  /\ Pow(24) = 16777216 /\ Pow(25) = 33554432 /\ Pow(26) = 67108864 /\ Pow(27) = 134217728
  /\ Pow(28) = 268435456 /\ Pow(29) = 536870912 /\ Pow(30) = 1073741824
  /\ Pow(31) = 2147483648 /\ Pow(32) = 4294967296
BY DEF Pow

LEMMA PowDoubles ==
  ASSUME NEW n \in 0 .. 31
  PROVE  Pow(n + 1) = 2 * Pow(n) /\ Pow(n) \in Nat /\ Pow(n) > 0 /\ Pow(n + 1) \in Nat /\ Pow(n + 1) > 1
BY Powers

LEMMA LeastMember ==
  ASSUME NEW S \in SUBSET Nat, S # {}
  PROVE  \E m \in S : \A k \in S : m <= k
<1> DEFINE Less == {ss \in Nat \X Nat : ss[1] < ss[2]}
<1>1. PICK m \in S : \A k \in S : ~ (<<k, m>> \in Less)
  <2>1. IsWellFoundedOn(Less, Nat)
    BY NatLessThanWellFounded DEF OpToRel
  <2> HIDE DEF Less
  <2> QED BY <2>1, WFMin
<1>2. ASSUME NEW k \in S PROVE m <= k
  <2>1. k \in Nat /\ m \in Nat
    OBVIOUS
  <2>2. k < m => <<k, m>> \in Less
    BY <2>1
  <2> QED BY <1>1, <2>1, <2>2
<1> QED BY <1>2

LEMMA WidthBounds ==
  /\ WIDTH \in Nat /\ 2 <= WIDTH /\ WIDTH <= 32
  /\ Size = Pow(WIDTH) /\ Size \in Nat /\ Size >= 4
  /\ Size = 2 * (Size \div 2) /\ Size \div 2 \in Nat /\ Size \div 2 = Pow(WIDTH - 1)
<1>1. WIDTH \in Nat /\ 2 <= WIDTH /\ WIDTH <= 32
  BY WidthAssumption
<1>2. Size = Pow(WIDTH)
  BY DEF Size, Pow
<1> DEFINE h == Pow(WIDTH - 1)
<1>3. Pow(WIDTH) = 2 * h /\ h \in Nat /\ Pow(WIDTH) \in Nat
  <2>1. WIDTH - 1 \in 0 .. 31 /\ (WIDTH - 1) + 1 = WIDTH
    BY <1>1
  <2> QED BY <2>1, PowDoubles
<1>4. Pow(WIDTH) >= 4
  BY WidthAssumption, Powers
<1> HIDE DEF h
<1>5. Size = 2 * h + 0
  BY <1>2, <1>3
<1>6. Size \div 2 = h
  BY <1>3, <1>5
<1> QED BY <1>1, <1>2, <1>3, <1>4, <1>6 DEF h

\* Two powers that fill a word.
LEMMA PowSum ==
  ASSUME NEW n \in 0 .. WIDTH
  PROVE  Pow(n) * Pow(WIDTH - n) = Size
<1>1. WIDTH \in Nat /\ WIDTH <= 32 /\ Size = Pow(WIDTH) /\ Size \in Nat
  BY WidthBounds
<1> DEFINE Wrong == {k \in 0 .. WIDTH : Pow(k) * Pow(WIDTH - k) # Size}
<1> SUFFICES ASSUME Wrong # {} PROVE FALSE
  OBVIOUS
<1>2. PICK m \in Wrong : \A k \in Wrong : m <= k
  <2>1. Wrong \in SUBSET Nat
    BY <1>1
  <2> HIDE DEF Wrong
  <2> QED BY <2>1, LeastMember
<1>3. m # 0
  BY <1>1, Powers
<1> DEFINE k == m - 1
<1>4. k \in 0 .. 31 /\ k \in 0 .. WIDTH /\ m = k + 1 /\ k \notin Wrong
  BY <1>1, <1>2, <1>3
<1>5. Pow(k) * Pow(WIDTH - k) = Size
  BY <1>4
<1>6. Pow(m) = 2 * Pow(k) /\ Pow(k) \in Nat
  BY <1>4, PowDoubles
<1>7. Pow(WIDTH - k) = 2 * Pow(WIDTH - m) /\ Pow(WIDTH - m) \in Nat
  <2>1. WIDTH - m \in 0 .. 31 /\ (WIDTH - m) + 1 = WIDTH - k
    BY <1>1, <1>3, <1>4
  <2> QED BY <2>1, PowDoubles
<1> DEFINE x == Pow(k)
<1> DEFINE y == Pow(WIDTH - m)
<1>8. Pow(m) * Pow(WIDTH - m) = Size
  <2>1. x * (2 * y) = (2 * x) * y
    BY <1>6, <1>7
  <2> QED BY <2>1, <1>5, <1>6, <1>7
<1> QED BY <1>2, <1>8

-----------------------------------------------------------------------------
(* Words. *)

LEMMA WordMod ==
  ASSUME NEW x \in Int, -Size < x, x < Size
  PROVE  (x % Size) = IF x < 0 THEN x + Size ELSE x
<1>1. Size \in Nat /\ Size > 0
  BY WidthBounds
<1>2. CASE x >= 0
  <2>1. x = Size * 0 + x
    BY <1>1
  <2> QED BY <1>1, <1>2, <2>1, DivUnique
<1>3. CASE x < 0
  <2>1. x = Size * (-1) + (x + Size) /\ x + Size \in Int /\ 0 <= x + Size /\ x + Size < Size
    BY <1>1, <1>3
  <2> QED BY <1>1, <1>3, <2>1, DivUnique
<1> QED BY <1>2, <1>3

LEMMA NegateWord ==
  ASSUME NEW x \in DivWord
  PROVE  Negate(x) = (IF x = 0 THEN 0 ELSE Size - x) /\ Negate(x) \in DivWord
<1>1. Size \in Nat /\ Size > 0 /\ x \in Int /\ 0 <= x /\ x < Size
  BY WidthBounds DEF DivWord
<1>2. (-x) \in Int /\ -Size < -x /\ -x < Size
  BY <1>1
<1>3. ((-x) % Size) = IF -x < 0 THEN -x + Size ELSE -x
  BY <1>2, WordMod
<1> QED BY <1>1, <1>3 DEF Negate, DivWord

LEMMA LeadingZerosCount ==
  ASSUME NEW x \in DivWord, x # 0
  PROVE  /\ LeadingZeros(x) \in 0 .. WIDTH - 1
         /\ Pow(WIDTH - 1 - LeadingZeros(x)) <= x /\ x < Pow(WIDTH - LeadingZeros(x))
<1>1. WIDTH \in Nat /\ 2 <= WIDTH /\ WIDTH <= 32 /\ Size = Pow(WIDTH)
  BY WidthBounds
<1>2. x \in Nat /\ x >= 1 /\ x < Pow(WIDTH)
  BY <1>1, WidthBounds DEF DivWord
<1> DEFINE Above == {k \in 0 .. WIDTH : x < Pow(k)}
<1>3. PICK m \in Above : \A k \in Above : m <= k
  <2>1. Above \in SUBSET Nat /\ WIDTH \in Above
    BY <1>1, <1>2
  <2> HIDE DEF Above
  <2> QED BY <2>1, LeastMember
<1>4. m # 0
  BY <1>2, Powers
<1>5. m \in 1 .. WIDTH /\ m - 1 \in 0 .. WIDTH /\ m - 1 \in 0 .. 31 /\ m - 1 \notin Above
  BY <1>1, <1>3, <1>4
<1>6. Pow(m - 1) <= x
  <2>1. Pow(m - 1) \in Nat
    BY <1>5, PowDoubles
  <2> QED BY <1>2, <1>5, <2>1
<1> DEFINE n == WIDTH - m
<1>7. n \in 0 .. WIDTH - 1 /\ WIDTH - 1 - n = m - 1 /\ WIDTH - n = m
  BY <1>1, <1>5
<1>8. \E c \in 0 .. WIDTH - 1 : 2 ^ (WIDTH - 1 - c) <= x /\ x < 2 ^ (WIDTH - c)
  <2>1. Pow(WIDTH - 1 - n) <= x /\ x < Pow(WIDTH - n)
    BY <1>3, <1>6, <1>7
  <2> QED BY <1>7, <2>1 DEF Pow
<1> QED BY <1>8 DEF LeadingZeros, Pow
-----------------------------------------------------------------------------
(* The operands of a division, as the numbers they stand for. *)

Dividend(op) == Number(op.a, DivSigned(op))
Divisor(op) == Number(op.b, DivSigned(op))
SizeA(op) == Magnitude(Dividend(op))
SizeB(op) == Magnitude(Divisor(op))

LEMMA OperandWords ==
  ASSUME NEW op \in Operation
  PROVE  op.a \in DivWord /\ op.b \in DivWord /\ op.kind \in Kinds
BY WidthsAgree DEF Operation, MulWord, DivWord

\* What the number of a word is.
LEMMA NumberOfWord ==
  ASSUME NEW x \in DivWord, NEW signed \in BOOLEAN
  PROVE  LET n == Number(x, signed)
             negative == signed /\ Negative(x) IN
         /\ n \in Int /\ n = (IF negative THEN x - Size ELSE x)
         /\ (n < 0 <=> negative) /\ (n = 0 <=> x = 0)
         /\ Magnitude(n) = (IF negative THEN Negate(x) ELSE x)
         /\ Magnitude(n) \in DivWord
         /\ negative => x # 0 /\ Magnitude(n) <= Size \div 2
<1>1. Size \in Nat /\ Size >= 4 /\ x \in Int /\ 0 <= x /\ x < Size
      /\ Size \div 2 \in Nat /\ Size = 2 * (Size \div 2)
  BY WidthBounds DEF DivWord
<1> DEFINE h == Size \div 2
<1>2. Negative(x) = (x >= h)
  BY DEF Negative
<1>3. Negate(x) = (IF x = 0 THEN 0 ELSE Size - x) /\ Negate(x) \in DivWord
  BY NegateWord
<1>4. Number(x, signed) = (IF signed /\ Negative(x) THEN x - Size ELSE x)
  BY DEF Number
<1> HIDE DEF h
<1>5. CASE signed /\ Negative(x)
  <2>1. x >= h
    BY <1>2, <1>5, Zenon
  <2>2. h \in Nat /\ h >= 2 /\ Size = 2 * h
    BY <1>1 DEF h
  <2>3. Number(x, signed) = x - Size
    BY <1>4, <1>5, Zenon
  <2>4. x - Size < 0 /\ x # 0 /\ x - Size \in Int /\ Size - x <= h /\ Size - x \in DivWord
    BY <1>1, <2>1, <2>2 DEF DivWord
  <2>5. Magnitude(x - Size) = Size - x
    BY <1>1, <2>4 DEF Magnitude
  <2>6. Negate(x) = Size - x
    BY <1>3, <2>4
  <2>7. Magnitude(x - Size) \in DivWord /\ Magnitude(x - Size) = Negate(x) /\ Magnitude(x - Size) <= Size \div 2
    BY <2>4, <2>5, <2>6 DEF h
  <2>8. x - Size # 0
    BY <2>4
  <2> HIDE DEF h
  <2> QED BY <1>5, <2>3, <2>4, <2>7, <2>8
<1>6. CASE ~ (signed /\ Negative(x))
  <2>1. Number(x, signed) = x
    BY <1>4, <1>6
  <2>2. Magnitude(x) = x
    BY <1>1 DEF Magnitude
  <2> QED BY <1>1, <1>6, <2>1, <2>2
<1> QED BY <1>5, <1>6

LEMMA DivOperands ==
  ASSUME NEW op \in Operation
  PROVE  /\ Dividend(op) \in Int /\ SizeA(op) \in DivWord
         /\ Divisor(op) \in Int /\ SizeB(op) \in DivWord
         /\ (Divisor(op) < 0 <=> OpBSign(op))
         /\ (Divisor(op) = 0 <=> OpBIsZero(op))
         /\ SizeB(op) = (IF OpBSign(op) THEN Negate(op.b) ELSE op.b)
         /\ SizeA(op) = (IF Dividend(op) < 0 THEN Negate(op.a) ELSE op.a)
         /\ (Dividend(op) < 0) => op.a # 0
         /\ (SignsDiffer(op) <=> ~ (Dividend(op) < 0 <=> Divisor(op) < 0))
         /\ OpBSign(op) \in BOOLEAN
         /\ OpBSign(op) => SizeA(op) <= Size \div 2 /\ SizeB(op) <= Size \div 2
<1> DEFINE s == DivSigned(op)
<1>1. op.a \in DivWord /\ op.b \in DivWord /\ s \in BOOLEAN
  BY OperandWords DEF DivSigned
<1>2. Negative(op.a) \in BOOLEAN /\ Negative(op.b) \in BOOLEAN
  BY DEF Negative
<1> DEFINE na == s /\ Negative(op.a)
<1> DEFINE nb == s /\ Negative(op.b)
<1>3. /\ Dividend(op) \in Int /\ (Dividend(op) < 0 <=> na)
      /\ SizeA(op) = (IF na THEN Negate(op.a) ELSE op.a) /\ SizeA(op) \in DivWord
      /\ na => op.a # 0 /\ SizeA(op) <= Size \div 2
  BY <1>1, NumberOfWord DEF Dividend, SizeA
<1>4. /\ Divisor(op) \in Int /\ (Divisor(op) < 0 <=> nb) /\ (Divisor(op) = 0 <=> op.b = 0)
      /\ SizeB(op) = (IF nb THEN Negate(op.b) ELSE op.b) /\ SizeB(op) \in DivWord
      /\ nb => SizeB(op) <= Size \div 2
  BY <1>1, NumberOfWord DEF Divisor, SizeB
<1>5. (OpBSign(op) <=> nb) /\ (OpBIsZero(op) <=> op.b = 0) /\ (SignsDiffer(op) <=> ~ (na <=> nb)) /\ OpBSign(op) \in BOOLEAN
  BY <1>1, <1>2 DEF OpBSign, OpBIsZero, SignsDiffer
<1>6. nb => SizeA(op) <= Size \div 2
  <2>1. CASE na BY <1>3, <2>1
  <2>2. CASE s /\ ~na
    <3>1. op.a < Size \div 2
      BY <1>1, <2>2, WidthBounds DEF Negative, DivWord
    <3> QED BY <1>1, <1>3, <2>2, <3>1, WidthBounds DEF DivWord
  <2> QED BY <2>1, <2>2
<1> QED BY <1>2, <1>3, <1>4, <1>5, <1>6
LEMMA SmallMod ==
  ASSUME NEW x \in Nat, NEW n \in Nat, x < n
  PROVE  (x % n) = x
<1>1. x = n * 0 + x
  OBVIOUS
<1> QED BY <1>1, DivUnique

LEMMA TimesLess ==
  ASSUME NEW x \in Int, NEW y \in Int, NEW z \in Nat, z > 0
  PROVE  (x <= y => x * z <= y * z) /\ (x < y => x * z < y * z)
<1>1. (y - x) * z = y * z - x * z
  OBVIOUS
<1>2. y - x >= 0 => (y - x) * z >= 0
  OBVIOUS
<1>3. y - x > 0 => (y - x) * z > 0
  OBVIOUS
<1> QED BY <1>1, <1>2, <1>3

\* The shift brings the top of the divisor to the top of the word, whichever
\* sign it has: twice the shifted divisor is more than any dividend.
Aligned(op) == SizeB(op) * Pow(div_shift(op))

LEMMA Shifted ==
  ASSUME NEW op \in Operation, ~OpBIsZero(op)
  PROVE  /\ div_shift(op) \in 0 .. WIDTH - 1
         /\ Aligned(op) \in Nat /\ 0 < Aligned(op) /\ Aligned(op) < Size
         /\ shift_left_result(op) = (IF OpBSign(op) THEN Size - Aligned(op) ELSE Aligned(op))
         /\ SizeA(op) < 2 * Aligned(op)
<1> DEFINE d == SizeB(op)
<1> DEFINE n == div_shift(op)
<1> DEFINE h == Size \div 2
<1> DEFINE p == Pow(n)
<1>1. WIDTH \in Nat /\ 2 <= WIDTH /\ WIDTH <= 32 /\ Size \in Nat /\ Size >= 4
      /\ h \in Nat /\ Size = 2 * h /\ h = Pow(WIDTH - 1)
  BY WidthBounds
<1>2. op.b \in DivWord /\ op.b \in Nat /\ op.b < Size /\ op.b # 0
      /\ SizeA(op) \in Nat /\ SizeA(op) < Size
  BY <1>1, OperandWords, DivOperands DEF OpBIsZero, DivWord
<1>3. ASSUME n \in 0 .. WIDTH - 1
      PROVE  /\ p \in Nat /\ p > 0 /\ Pow(n + 1) = 2 * p
             /\ Pow(WIDTH - n) = 2 * Pow(WIDTH - 1 - n) /\ Pow(WIDTH - 1 - n) \in Nat
             /\ p * Pow(WIDTH - n) = Size /\ p * Pow(WIDTH - 1 - n) = h
             /\ shift_left_result(op) = (op.b * p) % Size
  <2>1. n \in 0 .. 31 /\ WIDTH - 1 - n \in 0 .. 31 /\ (WIDTH - 1 - n) + 1 = WIDTH - n /\ n \in 0 .. WIDTH
    BY <1>1, <1>3
  <2> HIDE DEF n
  <2>2. p \in Nat /\ p > 0 /\ Pow(n + 1) = 2 * p
    BY <2>1, PowDoubles
  <2> DEFINE r == Pow(WIDTH - 1 - n)
  <2>3. Pow(WIDTH - n) = 2 * r /\ r \in Nat
    BY <2>1, PowDoubles
  <2>4. p * Pow(WIDTH - n) = Size
    BY <2>1, PowSum
  <2>5. p * (2 * r) = 2 * (p * r)
    BY <2>2, <2>3
  <2>6. p * r \in Nat
    BY <2>2, <2>3
  <2>7. p * r = h
    BY <1>1, <2>3, <2>4, <2>5, <2>6
  <2>8. (n % WIDTH) = n
    BY <1>1, <1>3, SmallMod
  <2>9. shift_left_result(op) = (op.b * p) % Size
    BY <2>8 DEF shift_left_result, n, Pow
  <2> QED BY <2>2, <2>3, <2>4, <2>7, <2>9
<1>4. CASE ~OpBSign(op)
  <2>1. d = op.b
    BY <1>4, DivOperands
  <2> DEFINE m == LeadingZeros(op.b)
  <2>2. m \in 0 .. WIDTH - 1 /\ Pow(WIDTH - 1 - m) <= op.b /\ op.b < Pow(WIDTH - m)
    BY <1>2, LeadingZerosCount
  <2> HIDE DEF m
  <2>3. n = m
    <3>1. ff_input(op) = op.b
      BY <1>4 DEF ff_input
    <3>2. div_shift_int(op) = m - 1
      BY <1>2, <3>1 DEF div_shift_int, m
    <3>3. n = ((m - 1) + 1) % (2 * WIDTH)
      BY <1>4, <3>2 DEF div_shift
    <3>4. m \in Nat /\ m < 2 * WIDTH /\ 2 * WIDTH \in Nat /\ (m - 1) + 1 = m
      BY <1>1, <2>2
    <3> QED BY <3>3, <3>4, SmallMod
  <2>4. n \in 0 .. WIDTH - 1
    BY <2>2, <2>3
  <2> DEFINE lo == Pow(WIDTH - 1 - n)
  <2> DEFINE hi == Pow(WIDTH - n)
  <2>5. /\ p \in Nat /\ p > 0 /\ hi = 2 * lo /\ lo \in Nat /\ p * hi = Size /\ p * lo = h
        /\ shift_left_result(op) = (op.b * p) % Size
    BY <1>3, <2>4
  <2>6. lo <= d /\ d < hi /\ d \in Nat
    BY <1>2, <2>1, <2>2, <2>3
  <2>7. Aligned(op) = d * p
    BY DEF Aligned
  <2>8. shift_left_result(op) = (d * p) % Size
    BY <2>1, <2>5
  <2> HIDE DEF d, n, h, p, lo, hi
  <2>9. d * p < hi * p /\ lo * p <= d * p /\ d * p \in Nat
    BY <2>5, <2>6, TimesLess
  <2>10. d * p < Size /\ h <= d * p
    <3>1. hi * p = p * hi /\ lo * p = p * lo
      BY <2>5, <2>6
    <3> QED BY <2>5, <2>9, <3>1
  <2>11. ((d * p) % Size) = d * p
    BY <1>1, <2>9, <2>10, SmallMod
  <2>12. SizeA(op) < 2 * (d * p) /\ 0 < d * p
    BY <1>1, <1>2, <2>9, <2>10
  <2> QED BY <1>4, <2>4, <2>7, <2>8, <2>9, <2>10, <2>11, <2>12 DEF n
<1>5. CASE OpBSign(op)
  <2>1. /\ d = Size - op.b /\ d \in Nat /\ 1 <= d /\ d <= h /\ SizeA(op) <= h
    <3>1. d = Negate(op.b) /\ SizeA(op) <= h /\ d <= h
      BY <1>5, DivOperands
    <3>2. Negate(op.b) = Size - op.b
      BY <1>2, NegateWord
    <3> QED BY <1>1, <1>2, <3>1, <3>2
  <2>2. ff_input(op) = d - 1
    <3>1. ff_input(op) = Size - 1 - op.b
      BY <1>5 DEF ff_input
    <3> QED BY <1>1, <1>2, <2>1, <3>1
  <2>3. n \in 0 .. WIDTH - 1 /\ d <= Pow(WIDTH - 1 - n) /\ 2 * d > Pow(WIDTH - 1 - n)
    <3>1. CASE d = 1
      <4>1. div_shift_int(op) = WIDTH - 1
        BY <2>2, <3>1 DEF div_shift_int
      <4>2. n = ((WIDTH - 1) + 0) % (2 * WIDTH)
        BY <1>5, <4>1 DEF div_shift
      <4>3. n = WIDTH - 1
        <5>1. (WIDTH - 1) + 0 \in Nat /\ (WIDTH - 1) + 0 < 2 * WIDTH /\ 2 * WIDTH \in Nat
          BY <1>1
        <5> QED BY <1>1, <4>2, <5>1, SmallMod
      <4> HIDE DEF n
      <4>4. WIDTH - 1 - n = 0
        BY <1>1, <4>3
      <4> QED BY <1>1, <3>1, <4>3, <4>4, Powers
    <3>2. CASE d # 1
      <4> DEFINE f == d - 1
      <4> DEFINE m == LeadingZeros(f)
      <4>1. f \in DivWord /\ f # 0 /\ f \in Nat
        BY <1>1, <2>1, <3>2 DEF DivWord
      <4>2. m \in 0 .. WIDTH - 1 /\ Pow(WIDTH - 1 - m) <= f /\ f < Pow(WIDTH - m)
        BY <4>1, LeadingZerosCount
      <4>3. div_shift_int(op) = m - 1
        BY <2>2, <4>1 DEF div_shift_int
      <4> HIDE DEF m
      <4>4. m # 0
        <5>1. f < h
          BY <1>1, <2>1
        <5>2. m = 0 => WIDTH - 1 - m = WIDTH - 1
          BY <1>1
        <5> QED BY <1>1, <4>1, <4>2, <5>1, <5>2
      <4>5. n = m - 1
        <5>1. n = ((m - 1) + 0) % (2 * WIDTH)
          BY <1>5, <4>3 DEF div_shift
        <5>2. (m - 1) + 0 \in Nat /\ (m - 1) + 0 < 2 * WIDTH /\ 2 * WIDTH \in Nat /\ (m - 1) + 0 = m - 1
          BY <1>1, <4>2, <4>4
        <5> QED BY <5>1, <5>2, SmallMod
      <4>6. WIDTH - 1 - n = WIDTH - m /\ n \in 0 .. WIDTH - 1
        <5> HIDE DEF n
        <5> QED BY <1>1, <4>2, <4>4, <4>5
      <4>7. Pow(WIDTH - m) = 2 * Pow(WIDTH - 1 - m) /\ Pow(WIDTH - 1 - m) \in Nat
        <5>1. WIDTH - 1 - m \in 0 .. 31 /\ (WIDTH - 1 - m) + 1 = WIDTH - m
          BY <1>1, <4>2
        <5> QED BY <5>1, PowDoubles
      <4> HIDE DEF n
      <4> QED BY <2>1, <4>1, <4>2, <4>6, <4>7
    <3> QED BY <3>1, <3>2
  <2> DEFINE lo == Pow(WIDTH - 1 - n)
  <2>4. /\ p \in Nat /\ p > 0 /\ lo \in Nat /\ p * lo = h
        /\ shift_left_result(op) = (op.b * p) % Size
    BY <1>3, <2>3
  <2>5. d <= lo /\ 2 * d > lo /\ Aligned(op) = d * p
    BY <2>3 DEF Aligned
  <2>6. op.b = Size - d
    BY <1>1, <1>2, <2>1
  <2>7. n \in 0 .. WIDTH - 1
    BY <2>3
  <2> HIDE DEF d, n, h, p, lo
  <2>8. d * p <= lo * p /\ lo * p < (2 * d) * p /\ d * p \in Nat /\ d * p > 0
    BY <2>1, <2>4, <2>5, TimesLess
  <2>9. d * p <= h /\ h < 2 * (d * p)
    <3>1. lo * p = p * lo /\ (2 * d) * p = 2 * (d * p)
      BY <2>1, <2>4
    <3> QED BY <2>4, <2>8, <3>1
  <2>10. ((op.b * p) % Size) = Size - d * p
    <3> DEFINE x == d * p
    <3>1. (Size - d) * p = -(d * p) + Size * p
      BY <1>1, <2>1, <2>4
    <3>2. x \in Nat /\ 0 < x /\ x < Size
      BY <1>1, <2>8, <2>9
    <3>3. op.b * p = -x + Size * p
      BY <2>6, <3>1
    <3> HIDE DEF x
    <3>4. -x \in Int /\ -Size < -x /\ -x < Size /\ -x < 0 /\ -x + Size = Size - x
      BY <1>1, <3>2
    <3>5. ASSUME NEW y \in Int PROVE ((y + Size * p) % Size) = (y % Size)
      <4>1. Size > 0 /\ p \in Int
        BY <1>1, <2>4
      <4> QED BY <1>1, <4>1, AddMultiple
    <3>7. ((-x + Size * p) % Size) = ((-x) % Size)
      BY <3>4, <3>5
    <3>6. ((-x) % Size) = Size - x
      BY <3>4, WordMod
    <3> QED BY <3>3, <3>6, <3>7 DEF x
  <2>11. SizeA(op) < 2 * (d * p) /\ d * p < Size
    BY <1>1, <1>2, <2>1, <2>8, <2>9
  <2> QED BY <1>5, <2>4, <2>5, <2>7, <2>8, <2>10, <2>11 DEF n
<1> QED BY <1>4, <1>5

\* Zero is shifted by a whole word, so that every bit of its quotient is set.
LEMMA ShiftedZero ==
  ASSUME NEW op \in Operation, OpBIsZero(op)
  PROVE  div_shift(op) = WIDTH /\ shift_left_result(op) = 0 /\ ~OpBSign(op)
<1>1. WIDTH \in Nat /\ 2 <= WIDTH /\ Size \in Nat /\ Size >= 4 /\ Size \div 2 \in Nat /\ Size = 2 * (Size \div 2)
  BY WidthBounds
<1>2. op.b = 0 /\ ~OpBSign(op)
  BY <1>1 DEF OpBIsZero, OpBSign, Negative
<1>3. ff_input(op) = 0 /\ div_shift_int(op) = WIDTH - 1
  BY <1>2 DEF ff_input, div_shift_int
<1>4. div_shift(op) = ((WIDTH - 1) + 1) % (2 * WIDTH)
  BY <1>2, <1>3 DEF div_shift
<1>5. div_shift(op) = WIDTH
  <2>1. (WIDTH - 1) + 1 = WIDTH /\ WIDTH < 2 * WIDTH /\ 2 * WIDTH \in Nat
    BY <1>1
  <2> QED BY <1>1, <1>4, <2>1, SmallMod
<1>6. (WIDTH % WIDTH) = 0
  <2>1. WIDTH = WIDTH * 1 + 0
    BY <1>1
  <2> QED BY <1>1, <2>1, DivUnique
<1>7. shift_left_result(op) = (0 * 2 ^ 0) % Size
  BY <1>2, <1>5, <1>6 DEF shift_left_result
<1>8. 0 * 2 ^ 0 = 0 /\ (0 % Size) = 0
  <2>1. 2 ^ 0 = 1
    OBVIOUS
  <2>2. (0 % Size) = 0
    BY <1>1, SmallMod
  <2> QED BY <2>1, <2>2
<1> QED BY <1>2, <1>5, <1>7, <1>8
-----------------------------------------------------------------------------
(* What the registers of the divider are worth, as numbers that are not    *)
(* negative: left is what is left of the dividend, weight the shifted      *)
(* divisor, q the quotient so far.                                         *)

Left(op, a) == IF OpBSign(op) THEN Negate(a) ELSE a
Weight(op, c) == SizeB(op) * Pow(c)

Dividing(op, c, a, b, q) ==
  /\ c \in 0 .. WIDTH - 1
  /\ Weight(op, c) \in Nat /\ 0 < Weight(op, c) /\ Weight(op, c) < Size
  /\ b = IF OpBSign(op) THEN Size - Weight(op, c) ELSE Weight(op, c)
  /\ SizeA(op) = Left(op, a) + (2 * Weight(op, c)) * q
  /\ Left(op, a) < 2 * Weight(op, c)
DividingByZero(op, c, a, b, q) ==
  c \in 0 .. WIDTH /\ b = 0 /\ q = Pow(WIDTH - c) - 1 /\ Left(op, a) = SizeA(op)

Divided(op, a, q) == SizeA(op) = Left(op, a) + SizeB(op) * q /\ Left(op, a) < SizeB(op)
DividedByZero(op, a, q) == q = Size - 1 /\ Left(op, a) = SizeA(op)

Controls(op) == RemSel_SP = IsRem(op) /\ CompInv_SP = OpBSign(op) /\ ResInv_SP = ResInv(op)

PartialQuotient ==
  /\ ex \in Operation \cup {NoOp}
  /\ DivTypeOK
  /\ State_SP # "IDLE" => IsDiv /\ Controls(ex)
  /\ State_SP = "DIVIDE" =>
       IF OpBIsZero(ex)
       THEN DividingByZero(ex, Cnt_DP, AReg_DP, BReg_DP, ResReg_DP_rev)
       ELSE Dividing(ex, Cnt_DP, AReg_DP, BReg_DP, ResReg_DP_rev)
  /\ State_SP = "FINISH" =>
       IF OpBIsZero(ex) THEN DividedByZero(ex, AReg_DP, ResReg_DP_rev)
       ELSE Divided(ex, AReg_DP, ResReg_DP_rev)

LEMMA NegateTwice ==
  ASSUME NEW x \in DivWord
  PROVE  Negate(x) \in DivWord /\ Negate(Negate(x)) = x /\ (Negate(x) = 0 <=> x = 0)
<1>1. Size \in Nat /\ x \in Nat /\ x < Size
  BY WidthBounds DEF DivWord
<1> DEFINE y == Negate(x)
<1>2. y = (IF x = 0 THEN 0 ELSE Size - x) /\ y \in DivWord
  BY NegateWord
<1>3. Negate(y) = (IF y = 0 THEN 0 ELSE Size - y)
  BY <1>2, NegateWord
<1> HIDE DEF y
<1>4. Negate(y) = x /\ (y = 0 <=> x = 0)
  BY <1>1, <1>2, <1>3
<1> QED BY <1>2, <1>4 DEF y

LEMMA DivInEx ==
  ASSUME ex \in Operation \cup {NoOp}, IsDiv
  PROVE  ex \in Operation
BY DEF IsDiv, NoOp

\* The first cycle.
LEMMA LoadStep ==
  ASSUME NEW op \in Operation, Load(op)
  PROVE  /\ IF OpBIsZero(op) THEN DividingByZero(op, Cnt_DP', AReg_DP', BReg_DP', ResReg_DP_rev')
            ELSE Dividing(op, Cnt_DP', AReg_DP', BReg_DP', ResReg_DP_rev')
         /\ State_SP' = "DIVIDE" /\ RemSel_SP' = IsRem(op)
         /\ CompInv_SP' = OpBSign(op) /\ ResInv_SP' = ResInv(op)
         /\ AReg_DP' \in DivWord /\ BReg_DP' \in DivWord /\ ResReg_DP_rev' \in DivWord
         /\ Cnt_DP' \in Counts
<1>1. WIDTH \in Nat /\ 2 <= WIDTH /\ WIDTH <= 32 /\ Size \in Nat /\ Size >= 4
  BY WidthBounds
<1>2. /\ AReg_DP' = (IF SignsDiffer(op) THEN Negate(op.a) ELSE op.a)
      /\ BReg_DP' = shift_left_result(op) /\ ResReg_DP_rev' = 0 /\ Cnt_DP' = div_shift(op)
      /\ State_SP' = "DIVIDE" /\ RemSel_SP' = IsRem(op)
      /\ CompInv_SP' = OpBSign(op) /\ ResInv_SP' = ResInv(op)
  BY DEF Load
<1>3. op.a \in DivWord /\ SizeA(op) \in Nat
  BY <1>1, OperandWords, DivOperands DEF DivWord
<1>4. AReg_DP' \in DivWord /\ Left(op, AReg_DP') = SizeA(op)
  <2>1. Negate(op.a) \in DivWord /\ Negate(Negate(op.a)) = op.a
    BY <1>3, NegateTwice
  <2>2. CASE OpBSign(op)
    <3>1. SignsDiffer(op) <=> ~ (Dividend(op) < 0)
      BY <2>2, DivOperands
    <3>2. SizeA(op) = (IF Dividend(op) < 0 THEN Negate(op.a) ELSE op.a)
      BY DivOperands
    <3>3. Left(op, AReg_DP') = Negate(AReg_DP')
      BY <2>2 DEF Left
    <3> QED BY <1>2, <1>3, <2>1, <3>1, <3>2, <3>3
  <2>3. CASE ~OpBSign(op)
    <3>1. SignsDiffer(op) <=> Dividend(op) < 0
      BY <2>3, DivOperands
    <3>2. SizeA(op) = (IF Dividend(op) < 0 THEN Negate(op.a) ELSE op.a)
      BY DivOperands
    <3>3. Left(op, AReg_DP') = AReg_DP'
      BY <2>3 DEF Left
    <3> QED BY <1>2, <1>3, <2>1, <3>1, <3>2, <3>3
  <2> QED BY <2>2, <2>3
<1>5. CASE OpBIsZero(op)
  <2>1. Cnt_DP' = WIDTH /\ BReg_DP' = 0
    BY <1>2, <1>5, ShiftedZero
  <2>2. Pow(WIDTH - WIDTH) - 1 = 0
    <3>1. WIDTH - WIDTH = 0
      BY <1>1
    <3> QED BY <3>1, Powers
  <2>3. DividingByZero(op, Cnt_DP', AReg_DP', BReg_DP', ResReg_DP_rev')
    BY <1>1, <1>2, <1>4, <2>1, <2>2 DEF DividingByZero
  <2>4. Cnt_DP' \in Counts /\ BReg_DP' \in DivWord /\ ResReg_DP_rev' \in DivWord
    BY <1>1, <1>2, <2>1 DEF Counts, DivWord
  <2> QED BY <1>2, <1>4, <1>5, <2>3, <2>4
<1>6. CASE ~OpBIsZero(op)
  <2> DEFINE w == Aligned(op)
  <2>1. /\ Cnt_DP' \in 0 .. WIDTH - 1 /\ w = Weight(op, Cnt_DP')
        /\ w \in Nat /\ 0 < w /\ w < Size
        /\ BReg_DP' = (IF OpBSign(op) THEN Size - w ELSE w)
        /\ SizeA(op) < 2 * w
    BY <1>2, <1>6, Shifted DEF Aligned, Weight
  <2> HIDE DEF w
  <2>2. SizeA(op) = SizeA(op) + (2 * w) * 0
    BY <1>3, <2>1
  <2>3. Dividing(op, Cnt_DP', AReg_DP', BReg_DP', ResReg_DP_rev')
    BY <1>2, <1>4, <2>1, <2>2 DEF Dividing
  <2>4. Cnt_DP' \in Counts /\ BReg_DP' \in DivWord /\ ResReg_DP_rev' \in DivWord
    BY <1>1, <1>2, <2>1 DEF Counts, DivWord
  <2> QED BY <1>2, <1>4, <1>6, <2>3, <2>4
<1> QED BY <1>5, <1>6

\* The comparison of the registers is the comparison of the numbers.
LEMMA Compared ==
  ASSUME NEW op \in Operation, ~OpBIsZero(op), CompInv_SP = OpBSign(op),
         AReg_DP \in DivWord, BReg_DP \in DivWord,
         Dividing(op, Cnt_DP, AReg_DP, BReg_DP, ResReg_DP_rev)
  PROVE  /\ ABComp(op) <=> Left(op, AReg_DP) >= Weight(op, Cnt_DP)
         /\ Left(op, AReg_DP) \in DivWord
         /\ ABComp(op) =>
              /\ ((AReg_DP - BReg_DP) % Size) \in DivWord
              /\ Left(op, (AReg_DP - BReg_DP) % Size) = Left(op, AReg_DP) - Weight(op, Cnt_DP)
<1> DEFINE w == Weight(op, Cnt_DP)
<1> DEFINE a == AReg_DP
<1> DEFINE b == BReg_DP
<1> DEFINE m == Left(op, a)
<1>1. Size \in Nat /\ Size >= 4 /\ a \in Nat /\ a < Size /\ b \in Nat /\ b < Size
  BY WidthBounds DEF DivWord
<1>2. /\ w \in Nat /\ 0 < w /\ w < Size /\ b = (IF OpBSign(op) THEN Size - w ELSE w)
  BY DEF Dividing
<1>3. ABComp(op) <=> (a = b \/ (a > b) # OpBSign(op)) /\ a # 0
  BY DEF ABComp
<1>4. a - b \in Int /\ -Size < a - b /\ a - b < Size
  BY <1>1
<1>5. ((a - b) % Size) = (IF a - b < 0 THEN a - b + Size ELSE a - b)
  BY <1>4, WordMod
<1>6. CASE ~OpBSign(op)
  <2>1. b = w /\ m = a /\ Left(op, (a - b) % Size) = (a - b) % Size
    BY <1>2, <1>6 DEF Left
  <2>2. ABComp(op) <=> (a = b \/ a > b) /\ a # 0
    <3>1. OpBSign(op) \in BOOLEAN
      BY DivOperands
    <3> HIDE DEF a, b
    <3> QED BY <1>1, <1>3, <1>6, <3>1
  <2> HIDE DEF w, a, b, m
  <2>3. ABComp(op) <=> a >= b
    BY <1>1, <1>2, <2>1, <2>2
  <2>4. ABComp(op) => ((a - b) % Size) = a - b /\ a - b \in DivWord
    BY <1>1, <1>5, <2>3 DEF DivWord
  <2>5. m \in DivWord
    BY <1>1, <2>1 DEF DivWord
  <2> QED BY <2>1, <2>3, <2>4, <2>5 DEF w, a, b, m
<1>7. CASE OpBSign(op)
  <2>1. b = Size - w /\ m = Negate(a)
    BY <1>2, <1>7 DEF Left
  <2>2. m = (IF a = 0 THEN 0 ELSE Size - a)
    BY <2>1, NegateWord
  <2>3. ABComp(op) <=> (a = b \/ ~ (a > b)) /\ a # 0
    BY <1>3, <1>7
  <2> DEFINE y == (a - b) % Size
  <2>4. y \in DivWord => Left(op, y) = (IF y = 0 THEN 0 ELSE Size - y)
    BY <1>7, NegateWord DEF Left
  <2>5. y = (IF a - b < 0 THEN a - b + Size ELSE a - b)
    BY <1>5
  <2> HIDE DEF w, a, b, m, y
  <2>6. ABComp(op) <=> m >= w
    BY <1>1, <1>2, <2>1, <2>2, <2>3
  <2>7. m \in DivWord
    BY <1>1, <2>2 DEF DivWord
  <2>8. ABComp(op) => y \in DivWord
    BY <1>1, <2>3, <2>5 DEF DivWord
  <2>9. ABComp(op) => Left(op, y) = m - w
    BY <1>1, <1>2, <2>1, <2>2, <2>3, <2>4, <2>5, <2>8
  <2> QED BY <2>6, <2>7, <2>8, <2>9 DEF w, a, b, m, y
<1> QED BY <1>6, <1>7
\* One bit of the quotient.
LEMMA DivideStep ==
  ASSUME NEW op \in Operation, CompInv_SP = OpBSign(op), ~OpBIsZero(op),
         AReg_DP \in DivWord, BReg_DP \in DivWord, ResReg_DP_rev \in DivWord,
         Dividing(op, Cnt_DP, AReg_DP, BReg_DP, ResReg_DP_rev), Divide(op)
  PROVE  /\ IF Cnt_DP = 0 THEN Divided(op, AReg_DP', ResReg_DP_rev')
            ELSE Dividing(op, Cnt_DP', AReg_DP', BReg_DP', ResReg_DP_rev')
         /\ AReg_DP' \in DivWord /\ ResReg_DP_rev' \in DivWord
<1> DEFINE m == Left(op, AReg_DP)
<1> DEFINE x == Left(op, AReg_DP')
<1> DEFINE w == Weight(op, Cnt_DP)
<1> DEFINE q == ResReg_DP_rev
<1> DEFINE bit == IF ABComp(op) THEN 1 ELSE 0
<1> DEFINE r == 2 * q + bit
<1>1. /\ WIDTH \in Nat /\ WIDTH <= 32 /\ Size \in Nat /\ Size >= 4
      /\ Size \div 2 \in Nat /\ Size = 2 * (Size \div 2)
  BY WidthBounds
<1>2. /\ AReg_DP' = (IF ABComp(op) THEN (AReg_DP - BReg_DP) % Size ELSE AReg_DP)
      /\ BReg_DP' = BReg_DP \div 2 + (IF CompInv_SP THEN Size \div 2 ELSE 0)
      /\ ResReg_DP_rev' = r % Size
      /\ Cnt_DP' = (IF Cnt_DP = 0 THEN Cnt_DP ELSE Cnt_DP - 1)
  BY DEF Divide, CntDown, CntZero
<1>3. /\ w \in Nat /\ 0 < w /\ w < Size /\ m < 2 * w /\ SizeA(op) = m + (2 * w) * q
      /\ BReg_DP = (IF OpBSign(op) THEN Size - w ELSE w) /\ Cnt_DP \in 0 .. WIDTH - 1
  BY DEF Dividing
<1>4. /\ m \in DivWord /\ m \in Nat /\ q \in Nat /\ q < Size /\ SizeA(op) \in Nat /\ SizeA(op) < Size
  BY <1>1, Compared, DivOperands DEF DivWord
<1>5. AReg_DP' \in DivWord /\ x = m - bit * w /\ x \in Nat /\ x < w
  <2>1. ABComp(op) <=> m >= w
    BY Compared
  <2>2. CASE ABComp(op)
    <3>1. AReg_DP' \in DivWord /\ x = m - w
      BY <1>2, <2>2, Compared
    <3>2. bit * w = w
      BY <1>3, <2>2
    <3> HIDE DEF m, x, w, bit
    <3> QED BY <1>3, <1>4, <2>1, <2>2, <3>1, <3>2
  <2>3. CASE ~ABComp(op)
    <3>1. AReg_DP' = AReg_DP /\ x = m
      BY <1>2, <2>3
    <3>2. bit * w = 0
      BY <1>3, <2>3
    <3> HIDE DEF m, x, w, bit
    <3> QED BY <1>3, <1>4, <2>1, <2>3, <3>1, <3>2
  <2> QED BY <2>2, <2>3
<1>6. bit \in {0, 1} /\ r \in Nat
  BY <1>4
<1>7. SizeA(op) = x + w * r
  <2> HIDE DEF m, x, w, q, bit
  <2>1. w * r = w * (2 * q) + w * bit
    BY <1>3, <1>4, <1>6
  <2>2. w * (2 * q) = (2 * w) * q /\ w * bit = bit * w
    BY <1>3, <1>4, <1>6
  <2>3. bit * w \in Nat /\ (2 * w) * q \in Nat
    BY <1>3, <1>4, <1>6
  <2> QED BY <1>3, <1>4, <1>5, <2>1, <2>2, <2>3
<1>8. r < Size /\ ResReg_DP_rev' = r
  <2> HIDE DEF m, x, w, r
  <2>1. r <= w * r
    <3>1. 1 * r <= w * r
      BY <1>3, <1>6
    <3> QED BY <1>6, <3>1
  <2>2. w * r \in Nat
    BY <1>3, <1>6
  <2>3. r < Size
    BY <1>1, <1>4, <1>5, <1>6, <1>7, <2>1, <2>2
  <2> QED BY <1>1, <1>2, <1>6, <2>3, SmallMod
<1>9. ResReg_DP_rev' \in DivWord
  <2> HIDE DEF r
  <2> QED BY <1>1, <1>6, <1>8 DEF DivWord
<1>10. CASE Cnt_DP = 0
  <2>1. w = SizeB(op)
    BY <1>10, Powers, DivOperands, WidthBounds DEF Weight, DivWord
  <2>2. Divided(op, AReg_DP', ResReg_DP_rev')
    <3> HIDE DEF w, r
    <3> QED BY <1>5, <1>7, <1>8, <2>1 DEF Divided
  <2> QED BY <1>5, <1>9, <1>10, <2>2
<1>11. CASE Cnt_DP # 0
  <2> DEFINE c == Cnt_DP - 1
  <2> DEFINE v == Weight(op, c)
  <2>1. c \in 0 .. 31 /\ c \in 0 .. WIDTH - 1 /\ Cnt_DP = c + 1 /\ Cnt_DP' = c
    BY <1>1, <1>2, <1>3, <1>11
  <2>2. SizeB(op) \in Nat
    BY <1>1, DivOperands DEF DivWord
  <2>3. w = 2 * v /\ v \in Nat
    <3>1. Pow(Cnt_DP) = 2 * Pow(c) /\ Pow(c) \in Nat
      BY <2>1, PowDoubles
    <3> DEFINE y == Pow(c)
    <3>2. w = SizeB(op) * (2 * y) /\ v = SizeB(op) * y
      BY <3>1 DEF Weight
    <3> HIDE DEF y, w, v
    <3>3. y \in Nat
      BY <3>1 DEF y
    <3> QED BY <2>2, <3>2, <3>3
  <2>4. BReg_DP' = (IF OpBSign(op) THEN Size - v ELSE v)
    <3> DEFINE h == Size \div 2
    <3>1. h \in Nat /\ Size = 2 * h
      BY <1>1
    <3>2. BReg_DP' = BReg_DP \div 2 + (IF OpBSign(op) THEN h ELSE 0)
      BY <1>2
    <3> HIDE DEF h, v, w
    <3>3. CASE OpBSign(op)
      <4>1. BReg_DP = 2 * (h - v) + 0 /\ h - v \in Int
        BY <1>3, <2>3, <3>1, <3>3
      <4>2. BReg_DP \div 2 = h - v
        BY <4>1, DivUnique
      <4> QED BY <2>3, <3>1, <3>2, <3>3, <4>2
    <3>4. CASE ~OpBSign(op)
      <4>1. BReg_DP = 2 * v + 0
        BY <1>3, <2>3, <3>4
      <4>2. BReg_DP \div 2 = v
        BY <2>3, <4>1, DivUnique
      <4> QED BY <2>3, <3>2, <3>4, <4>2
    <3> QED BY <3>3, <3>4
  <2>5. 0 < v /\ v < Size
    BY <1>1, <1>3, <2>3
  <2>6. SizeA(op) = x + (2 * v) * r /\ x < 2 * v
    <3> HIDE DEF r, v, w, x
    <3> QED BY <1>5, <1>7, <2>3
  <2>7. Dividing(op, Cnt_DP', AReg_DP', BReg_DP', ResReg_DP_rev')
    <3> HIDE DEF r, c
    <3> QED BY <1>8, <2>1, <2>3, <2>4, <2>5, <2>6 DEF Dividing
  <2> QED BY <1>5, <1>9, <1>11, <2>7
<1> QED BY <1>10, <1>11

LEMMA DivideByZeroStep ==
  ASSUME NEW op \in Operation, CompInv_SP = OpBSign(op), OpBIsZero(op),
         AReg_DP \in DivWord,
         DividingByZero(op, Cnt_DP, AReg_DP, BReg_DP, ResReg_DP_rev), Divide(op)
  PROVE  /\ IF Cnt_DP = 0 THEN DividedByZero(op, AReg_DP', ResReg_DP_rev')
            ELSE DividingByZero(op, Cnt_DP', AReg_DP', BReg_DP', ResReg_DP_rev')
         /\ AReg_DP' \in DivWord /\ ResReg_DP_rev' \in DivWord
<1>1. /\ WIDTH \in Nat /\ WIDTH <= 32 /\ Size \in Nat /\ Size >= 4 /\ Size = Pow(WIDTH)
  BY WidthBounds
<1>2. ~OpBSign(op) /\ CompInv_SP = FALSE
  BY ShiftedZero, DivOperands
<1>3. AReg_DP \in Nat /\ AReg_DP < Size /\ BReg_DP = 0 /\ Cnt_DP \in 0 .. WIDTH
      /\ ResReg_DP_rev = Pow(WIDTH - Cnt_DP) - 1 /\ AReg_DP = SizeA(op)
  BY <1>1, <1>2 DEF DividingByZero, DivWord, Left
<1>4. ABComp(op)
  <2>1. AReg_DP = BReg_DP \/ AReg_DP > BReg_DP
    BY <1>3
  <2>2. BReg_DP \in Nat /\ OpBSign(op) \in BOOLEAN
    BY <1>3, DivOperands
  <2>3. AReg_DP > BReg_DP => (AReg_DP > BReg_DP) # CompInv_SP
    BY <1>2, <1>3, <2>2
  <2> QED BY <2>1, <2>3 DEF ABComp
<1>5. /\ AReg_DP' = (AReg_DP - 0) % Size /\ BReg_DP' = 0 \div 2 + 0
      /\ ResReg_DP_rev' = (2 * ResReg_DP_rev + 1) % Size
      /\ Cnt_DP' = (IF Cnt_DP = 0 THEN Cnt_DP ELSE Cnt_DP - 1)
  BY <1>2, <1>3, <1>4 DEF Divide, CntDown, CntZero
<1>6. AReg_DP' = AReg_DP /\ BReg_DP' = 0 /\ Left(op, AReg_DP') = SizeA(op)
  <2>1. AReg_DP - 0 = AReg_DP /\ ((AReg_DP % Size) = AReg_DP)
    BY <1>1, <1>3, SmallMod
  <2>2. AReg_DP' = AReg_DP /\ BReg_DP' = 0
    BY <1>5, <2>1
  <2> QED BY <1>2, <1>3, <2>2 DEF Left
<1>7. CASE Cnt_DP = 0
  <2>1. ResReg_DP_rev = Size - 1
    <3>1. WIDTH - Cnt_DP = WIDTH
      BY <1>1, <1>7
    <3> QED BY <1>1, <1>3, <3>1
  <2>2. 2 * ResReg_DP_rev + 1 = Size * 1 + (Size - 1)
    BY <1>1, <2>1
  <2>3. ((2 * ResReg_DP_rev + 1) % Size) = Size - 1
    BY <1>1, <2>1, <2>2, DivUnique
  <2>4. ResReg_DP_rev' = Size - 1 /\ Size - 1 \in DivWord
    BY <1>1, <1>5, <2>3 DEF DivWord
  <2> QED BY <1>6, <1>7, <2>4 DEF DividedByZero
<1>8. CASE Cnt_DP # 0
  <2> DEFINE k == WIDTH - Cnt_DP
  <2>1. k \in 0 .. 31 /\ WIDTH - (Cnt_DP - 1) = k + 1 /\ Cnt_DP' = Cnt_DP - 1 /\ Cnt_DP - 1 \in 0 .. WIDTH
    BY <1>1, <1>3, <1>5, <1>8
  <2>2. Pow(k + 1) = 2 * Pow(k) /\ Pow(k) \in Nat /\ Pow(k) > 0 /\ ResReg_DP_rev = Pow(k) - 1
    BY <1>3, <2>1, PowDoubles
  <2>3. Pow(k + 1) <= Size
    <3>1. Cnt_DP - 1 \in 0 .. 31 /\ Cnt_DP - 1 \in 0 .. WIDTH
      BY <1>1, <1>3, <1>8
    <3>2. Pow(Cnt_DP - 1) \in Nat /\ Pow(Cnt_DP - 1) > 0
      BY <3>1, PowDoubles
    <3>3. Pow(Cnt_DP - 1) * Pow(k + 1) = Size
      BY <2>1, <3>1, PowSum
    <3> DEFINE p == Pow(Cnt_DP - 1)
    <3> DEFINE s == Pow(k + 1)
    <3>4. p \in Nat /\ p > 0 /\ s \in Nat /\ p * s = Size
      BY <2>2, <3>2, <3>3
    <3> HIDE DEF p, s
    <3>5. 1 * s <= p * s
      BY <3>4
    <3>6. s <= Size
      BY <3>4, <3>5
    <3> QED BY <3>6 DEF s
  <2> HIDE DEF k
  <2>4. 2 * ResReg_DP_rev + 1 = Pow(k + 1) - 1 /\ Pow(k + 1) - 1 \in Nat /\ Pow(k + 1) - 1 < Size
    BY <1>1, <2>2, <2>3
  <2>5. ResReg_DP_rev' = Pow(k + 1) - 1
    BY <1>1, <1>5, <2>4, SmallMod
  <2>6. ResReg_DP_rev' = Pow(WIDTH - Cnt_DP') - 1
    BY <2>1, <2>5
  <2> QED BY <1>1, <1>3, <1>6, <1>8, <2>1, <2>4, <2>5, <2>6 DEF DividingByZero, DivWord
<1> QED BY <1>7, <1>8
-----------------------------------------------------------------------------
(* The result. *)

LEMMA QuotientResult ==
  ASSUME NEW op \in Operation, Controls(op), ~IsRem(op), ~OpBIsZero(op),
         AReg_DP \in DivWord, ResReg_DP_rev \in DivWord, Divided(op, AReg_DP, ResReg_DP_rev)
  PROVE  Res_DO = DivResult(op)
<1> DEFINE q == ResReg_DP_rev
<1> DEFINE x == Left(op, AReg_DP)
<1>1. Size \in Nat /\ Size > 0 /\ q \in Nat /\ SizeB(op) \in Nat /\ SizeA(op) \in Nat
  BY WidthBounds, DivOperands DEF DivWord
<1>2. x \in DivWord /\ x \in Nat
  <2>1. Negate(AReg_DP) \in DivWord
    BY NegateWord
  <2> QED BY <1>1, <2>1 DEF Left, DivWord
<1>3. SizeA(op) = SizeB(op) * q + x /\ x < SizeB(op)
  <2> HIDE DEF q, x
  <2>1. SizeA(op) = x + SizeB(op) * q
    BY DEF Divided, q, x
  <2>2. SizeB(op) * q \in Nat
    BY <1>1
  <2> QED BY <1>1, <1>2, <2>1, <2>2 DEF Divided, x
<1>4. SizeA(op) \div SizeB(op) = q
  <2> DEFINE sa == SizeA(op)
  <2> DEFINE sb == SizeB(op)
  <2>1. sa \in Int /\ sb \in Nat /\ sb > 0 /\ sa = sb * q + x /\ x < sb /\ x \in Nat /\ q \in Nat
    BY <1>1, <1>2, <1>3
  <2> HIDE DEF q, x, sa, sb
  <2>2. sa \div sb = q
    BY <2>1, DivUnique
  <2> QED BY <2>2 DEF sa, sb
<1>5. Res_DO = (IF SignsDiffer(op) THEN Negate(q) ELSE q)
  BY DivOperands DEF Res_DO, Controls, ResInv
<1>6. DivResult(op) = (IF SignsDiffer(op) THEN (-q) % Size ELSE q % Size)
  <2>1. Divisor(op) # 0
    BY DivOperands
  <2>2. Magnitude(Dividend(op)) \div Magnitude(Divisor(op)) = q
    BY <1>4 DEF SizeA, SizeB
  <2>3. SignsDiffer(op) <=> ((Dividend(op) < 0) # (Divisor(op) < 0))
    <3>1. Dividend(op) \in Int /\ Divisor(op) \in Int
      BY DivOperands
    <3>2. SignsDiffer(op) <=> ~ (Dividend(op) < 0 <=> Divisor(op) < 0)
      BY DivOperands
    <3> QED BY <3>1, <3>2
  <2> DEFINE n == Dividend(op)
  <2> DEFINE d == Divisor(op)
  <2>4. DivResult(op) = (IF d = 0 THEN -1
                         ELSE IF (n < 0) # (d < 0) THEN -(Magnitude(n) \div Magnitude(d))
                         ELSE Magnitude(n) \div Magnitude(d)) % Size
    BY DEF DivResult, Dividend, Divisor
  <2> HIDE DEF n, d, q
  <2> QED BY <2>1, <2>2, <2>3, <2>4 DEF n, d
<1>7. (q % Size) = q /\ Negate(q) = (-q) % Size
  BY <1>1, SmallMod DEF Negate, DivWord
<1> QED BY <1>5, <1>6, <1>7

LEMMA RemainderResult ==
  ASSUME NEW op \in Operation, Controls(op), IsRem(op), ~OpBIsZero(op),
         AReg_DP \in DivWord, ResReg_DP_rev \in DivWord, Divided(op, AReg_DP, ResReg_DP_rev)
  PROVE  Res_DO = DivResult(op)
<1> DEFINE q == ResReg_DP_rev
<1> DEFINE x == Left(op, AReg_DP)
<1> DEFINE n == Dividend(op)
<1> DEFINE d == Divisor(op)
<1> DEFINE sa == SizeA(op)
<1> DEFINE sb == SizeB(op)
<1> DEFINE quotient == IF (n < 0) # (d < 0) THEN -q ELSE q
<1>1. /\ Size \in Nat /\ Size > 0 /\ q \in Nat /\ sb \in Nat /\ sa \in Nat /\ sb < Size
      /\ n \in Int /\ d \in Int /\ d # 0
  BY WidthBounds, DivOperands DEF DivWord
<1>2. x \in DivWord /\ x \in Nat /\ (OpBSign(op) => Negate(x) = AReg_DP) /\ (~OpBSign(op) => x = AReg_DP)
  <2>1. Negate(AReg_DP) \in DivWord /\ Negate(Negate(AReg_DP)) = AReg_DP
    BY NegateTwice
  <2> QED BY <1>1, <2>1 DEF Left, DivWord
<1>3. sa = x + sb * q /\ x < sb
  BY DEF Divided
<1>4. sa \div sb = q
  <2> HIDE DEF q, x, sa, sb
  <2>1. sa = sb * q + x
    <3>1. sb * q \in Nat
      BY <1>1
    <3> QED BY <1>2, <1>3, <3>1
  <2> QED BY <1>1, <1>2, <1>3, <2>1, DivUnique
<1>5. sa = (IF n < 0 THEN -n ELSE n) /\ sb = (IF d < 0 THEN -d ELSE d)
  BY DEF SizeA, SizeB, Magnitude
<1>6. DivResult(op) = ((n - quotient * d) % Size)
  <2>1. DivResult(op) =
          LET k == IF d = 0 THEN -1
                   ELSE IF (n < 0) # (d < 0) THEN -(Magnitude(n) \div Magnitude(d))
                   ELSE Magnitude(n) \div Magnitude(d)
          IN (n - k * d) % Size
    BY <1>1 DEF DivResult, Dividend, Divisor, OpBIsZero, IsRem
  <2>2. Magnitude(n) \div Magnitude(d) = q
    BY <1>4 DEF SizeA, SizeB
  <2> HIDE DEF n, d, q, x
  <2> QED BY <1>1, <2>1, <2>2
<1>7. n - quotient * d = (IF n < 0 THEN -x ELSE x)
  <2> HIDE DEF q, x, sa, sb, n, d
  <2>0. (n < 0) \in BOOLEAN /\ (d < 0) \in BOOLEAN
    BY <1>1
  <2>1. CASE n < 0 /\ d < 0
    <3>1. quotient = q
      BY <2>0, <2>1
    <3>2. sb * q = -(q * d)
      BY <1>1, <1>5, <2>1
    <3> QED BY <1>1, <1>2, <1>3, <1>5, <2>1, <3>1, <3>2
  <2>2. CASE n < 0 /\ ~ (d < 0)
    <3>1. quotient = -q
      BY <2>0, <2>2
    <3>2. sb * q = q * d /\ (-q) * d = -(q * d)
      BY <1>1, <1>5, <2>2
    <3> QED BY <1>1, <1>2, <1>3, <1>5, <2>2, <3>1, <3>2
  <2>3. CASE ~ (n < 0) /\ d < 0
    <3>1. quotient = -q
      BY <2>0, <2>3
    <3>2. sb * q = -(q * d) /\ (-q) * d = -(q * d)
      BY <1>1, <1>5, <2>3
    <3> QED BY <1>1, <1>2, <1>3, <1>5, <2>3, <3>1, <3>2
  <2>4. CASE ~ (n < 0) /\ ~ (d < 0)
    <3>1. quotient = q
      BY <2>0, <2>4
    <3>2. sb * q = q * d
      BY <1>1, <1>5, <2>4
    <3> QED BY <1>1, <1>2, <1>3, <1>5, <2>4, <3>1, <3>2
  <2> QED BY <2>1, <2>2, <2>3, <2>4
<1>8. Res_DO = (IF SignsDiffer(op) THEN Negate(AReg_DP) ELSE AReg_DP)
  BY DEF Res_DO, Controls, ResInv
<1>9. (SignsDiffer(op) <=> ~ (n < 0 <=> d < 0)) /\ (d < 0 <=> OpBSign(op))
  BY DivOperands
<1>10. Negate(Negate(x)) = x
  BY <1>2, NegateTwice
<1>11. Res_DO = (IF n < 0 THEN Negate(x) ELSE x)
  <2> HIDE DEF x, n, d
  <2> QED BY <1>2, <1>8, <1>9, <1>10
<1>12. (x % Size) = x /\ Negate(x) = ((-x) % Size)
  BY <1>1, <1>2, SmallMod DEF Negate, DivWord
<1> QED BY <1>6, <1>7, <1>11, <1>12

LEMMA ByZeroResult ==
  ASSUME NEW op \in Operation, Controls(op), OpBIsZero(op),
         AReg_DP \in DivWord, DividedByZero(op, AReg_DP, ResReg_DP_rev)
  PROVE  Res_DO = DivResult(op)
<1>1. Size \in Nat /\ Size > 0
  BY WidthBounds
<1>2. ~OpBSign(op) /\ AReg_DP = SizeA(op) /\ ResReg_DP_rev = Size - 1
  BY ShiftedZero DEF DividedByZero, Left
<1>3. Divisor(op) = 0
  BY DivOperands
<1>4. CASE ~IsRem(op)
  <2>1. Res_DO = Size - 1
    BY <1>2, <1>4 DEF Res_DO, Controls, ResInv
  <2>2. DivResult(op) = (-1) % Size
    BY <1>3, <1>4 DEF DivResult, Divisor
  <2>3. ((-1) % Size) = Size - 1
    <3>1. -1 = Size * (-1) + (Size - 1)
      BY <1>1
    <3> QED BY <1>1, <3>1, DivUnique
  <2> QED BY <2>1, <2>2, <2>3
<1>5. CASE IsRem(op)
  <2>1. DivResult(op) = op.a
    BY <1>3, <1>5 DEF DivResult, Divisor
  <2>2. Res_DO = (IF SignsDiffer(op) THEN Negate(AReg_DP) ELSE AReg_DP)
    BY <1>5 DEF Res_DO, Controls, ResInv
  <2>3. SignsDiffer(op) <=> Dividend(op) < 0
    BY <1>2, DivOperands
  <2>4. SizeA(op) = (IF Dividend(op) < 0 THEN Negate(op.a) ELSE op.a)
    BY DivOperands
  <2>5. Negate(Negate(op.a)) = op.a
    BY OperandWords, NegateTwice
  <2> QED BY <1>2, <2>1, <2>2, <2>3, <2>4, <2>5
<1> QED BY <1>4, <1>5
-----------------------------------------------------------------------------
(* The invariant of the divider in EX. *)

LEMMA QuotientExactIfPartial == PartialQuotient => QuotientExact
<1> SUFFICES ASSUME PartialQuotient, IsDiv, units_ready
             PROVE  alu_wdata = DivResult(ex)
  BY DEF QuotientExact
<1>1. State_SP = "FINISH"
  BY DEF units_ready, div_ready
<1>2. ex \in Operation
  BY DivInEx DEF PartialQuotient
<1>3. Controls(ex) /\ AReg_DP \in DivWord /\ ResReg_DP_rev \in DivWord
  BY <1>1 DEF PartialQuotient, DivTypeOK
<1>4. Res_DO = DivResult(ex)
  <2>1. CASE OpBIsZero(ex)
    <3>1. DividedByZero(ex, AReg_DP, ResReg_DP_rev)
      BY <1>1, <2>1 DEF PartialQuotient
    <3> QED BY <1>2, <1>3, <2>1, <3>1, ByZeroResult
  <2>2. CASE ~OpBIsZero(ex)
    <3>1. Divided(ex, AReg_DP, ResReg_DP_rev)
      BY <1>1, <2>2 DEF PartialQuotient
    <3> QED BY <1>2, <1>3, <2>2, <3>1, QuotientResult, RemainderResult
  <2> QED BY <2>1, <2>2
<1>5. ~IsMulh
  BY DEF IsMulh, IsDiv
<1> QED BY <1>4, <1>5 DEF alu_wdata

LEMMA InitPartialQuotient == Init => PartialQuotient
<1> SUFFICES ASSUME Init PROVE PartialQuotient
  OBVIOUS
<1>1. 0 \in DivWord /\ 0 \in Counts
  BY WidthBounds DEF DivWord, Counts
<1> QED BY <1>1 DEF Init, DivInit, PartialQuotient, DivTypeOK

\* While a unit works, the instruction stays.
LEMMA BusyStays ==
  ASSUME NEW in \in Inputs, Clock(in), ~units_ready
  PROVE  ex' = ex /\ issued' = issued
BY DEF Clock, Accept, ex_ready

LEMMA StepPartialQuotient ==
  ASSUME PartialQuotient, NEW in \in Inputs, Clock(in)
  PROVE  PartialQuotient'
<1>1. /\ DivStep(ex, IsDiv, ex_ready(in)) /\ Accept(in)
  BY DEF Clock
<1>2. ex' \in Operation \cup {NoOp}
  BY <1>1, NextInstruction DEF PartialQuotient
<1>3. DivTypeOK
  BY DEF PartialQuotient
<1>4. CASE State_SP = "IDLE" /\ ~IsDiv
  <2>1. UNCHANGED divVars
    BY <1>1, <1>4 DEF DivStep, DivIdle, Load, Divide, DivFinish
  <2> QED BY <1>2, <1>3, <1>4, <2>1 DEF PartialQuotient, divVars, DivTypeOK, DivWord, Counts, Size
<1>5. CASE State_SP = "IDLE" /\ IsDiv
  <2>1. ex \in Operation /\ Load(ex)
    BY <1>1, <1>5, DivInEx DEF PartialQuotient, DivStep, DivIdle, Divide, DivFinish
  <2>2. ex' = ex
    BY <1>5, BusyStays DEF units_ready, div_ready
  <2>3. IsRem(ex) \in BOOLEAN /\ OpBSign(ex) \in BOOLEAN /\ ResInv(ex) \in BOOLEAN
    BY DEF IsRem, OpBSign, DivSigned, Negative, ResInv, OpBIsZero, SignsDiffer
  <2> QED BY <1>2, <1>5, <2>1, <2>2, <2>3, LoadStep
       DEF PartialQuotient, DivTypeOK, Controls, IsDiv
<1>6. CASE State_SP = "DIVIDE"
  <2>1. IsDiv /\ Controls(ex) /\ ex \in Operation
    BY <1>6, DivInEx DEF PartialQuotient
  <2>2. ex' = ex /\ Divide(ex)
    BY <1>1, <1>6, BusyStays DEF units_ready, div_ready, DivStep, DivIdle, Load, DivFinish
  <2>3. /\ AReg_DP \in DivWord /\ BReg_DP \in DivWord /\ ResReg_DP_rev \in DivWord /\ Cnt_DP \in Counts
        /\ CompInv_SP = OpBSign(ex)
    BY <1>3, <2>1 DEF DivTypeOK, Controls
  <2>4. /\ State_SP' = (IF Cnt_DP = 0 THEN "FINISH" ELSE "DIVIDE")
        /\ RemSel_SP' = RemSel_SP /\ CompInv_SP' = CompInv_SP /\ ResInv_SP' = ResInv_SP
    BY <2>2 DEF Divide, Last, CntZero
  <2>5. Cnt_DP' \in Counts
    BY <2>2, <2>3, WidthBounds DEF Divide, CntDown, CntZero, Counts
  <2>6. BReg_DP' \in DivWord
    <3> DEFINE h == Size \div 2
    <3>1. h \in Nat /\ h > 0 /\ Size = 2 * h /\ BReg_DP \in Nat /\ BReg_DP < 2 * h
      BY <2>3, WidthBounds DEF DivWord
    <3>2. BReg_DP' = BReg_DP \div 2 + (IF CompInv_SP THEN h ELSE 0)
      BY <2>2 DEF Divide
    <3> HIDE DEF h
    <3>3. BReg_DP \div 2 \in Nat /\ BReg_DP \div 2 < h
      BY <3>1
    <3> QED BY <3>1, <3>2, <3>3 DEF DivWord
  <2>7. CASE OpBIsZero(ex)
    <3>1. DividingByZero(ex, Cnt_DP, AReg_DP, BReg_DP, ResReg_DP_rev)
      BY <1>6, <2>7 DEF PartialQuotient
    <3>2. /\ IF Cnt_DP = 0 THEN DividedByZero(ex, AReg_DP', ResReg_DP_rev')
             ELSE DividingByZero(ex, Cnt_DP', AReg_DP', BReg_DP', ResReg_DP_rev')
          /\ AReg_DP' \in DivWord /\ ResReg_DP_rev' \in DivWord
      BY <2>1, <2>2, <2>3, <2>7, <3>1, DivideByZeroStep
    <3> QED BY <1>2, <1>3, <2>1, <2>2, <2>4, <2>5, <2>6, <2>7, <3>2
         DEF PartialQuotient, DivTypeOK, Controls, IsDiv
  <2>8. CASE ~OpBIsZero(ex)
    <3>1. Dividing(ex, Cnt_DP, AReg_DP, BReg_DP, ResReg_DP_rev)
      BY <1>6, <2>8 DEF PartialQuotient
    <3>2. /\ IF Cnt_DP = 0 THEN Divided(ex, AReg_DP', ResReg_DP_rev')
             ELSE Dividing(ex, Cnt_DP', AReg_DP', BReg_DP', ResReg_DP_rev')
          /\ AReg_DP' \in DivWord /\ ResReg_DP_rev' \in DivWord
      BY <2>1, <2>2, <2>3, <2>8, <3>1, DivideStep
    <3> QED BY <1>2, <1>3, <2>1, <2>2, <2>4, <2>5, <2>6, <2>8, <3>2
         DEF PartialQuotient, DivTypeOK, Controls, IsDiv
  <2> QED BY <2>7, <2>8
<1>7. CASE State_SP = "FINISH"
  <2>1. /\ State_SP' = (IF ex_ready(in) THEN "IDLE" ELSE "FINISH")
        /\ UNCHANGED <<AReg_DP, BReg_DP, ResReg_DP_rev, Cnt_DP, RemSel_SP, CompInv_SP, ResInv_SP>>
    BY <1>1, <1>7 DEF DivStep, DivIdle, Load, Divide, DivFinish
  <2>2. ~ex_ready(in) => ex' = ex
    BY <1>1 DEF Accept
  <2>3. DivTypeOK'
    BY <1>3, <2>1 DEF DivTypeOK, DivWord, Counts, Size
  <2>4. CASE ex_ready(in)
    BY <1>2, <2>1, <2>3, <2>4 DEF PartialQuotient
  <2>5. CASE ~ex_ready(in)
    BY <1>2, <1>7, <2>1, <2>2, <2>3, <2>5 DEF PartialQuotient, Controls, IsDiv
  <2> QED BY <2>4, <2>5
<1> QED BY <1>3, <1>4, <1>5, <1>6, <1>7 DEF DivTypeOK

LEMMA StutterPartialQuotient ==
  ASSUME PartialQuotient, UNCHANGED multiVars
  PROVE  PartialQuotient'
BY DEF PartialQuotient, multiVars, divVars, DivTypeOK, DivWord, Counts, Size, Controls, IsDiv

-----------------------------------------------------------------------------
\* Every quotient and remainder is that of the instruction set when it leaves EX,
\* by zero and for the most negative number too, for every pair of operands,
\* every history and stall, with or without a floating-point unit
\* (riscv_alu_div.sv, with the shift and the signs of riscv_alu.sv).
THEOREM DivisionsExact == Spec => []QuotientExact
<1>1. PartialQuotient /\ [Next]_multiVars => PartialQuotient'
  <2> SUFFICES ASSUME PartialQuotient, [Next]_multiVars
               PROVE  PartialQuotient'
    OBVIOUS
  <2>1. CASE Next
    <3>1. PICK in \in Inputs : Clock(in)
      BY <2>1 DEF Next
    <3> QED BY <3>1, StepPartialQuotient
  <2>2. CASE UNCHANGED multiVars
    BY <2>2, StutterPartialQuotient
  <2> QED BY <2>1, <2>2
<1> QED BY <1>1, InitPartialQuotient, QuotientExactIfPartial, PTL DEF Spec
-----------------------------------------------------------------------------
(* The types. *)

ArithmeticInv ==
  /\ PartialQuotient
  /\ MulTypeOK /\ issued \in 0 .. MaxOps
  /\ mulh_CS # "IDLE" => IsMulh

LEMMA WordOfSum ==
  ASSUME NEW x \in Int
  PROVE  (x % FULL) \in MulWord /\ ((x % FULL) \div HALF) \in MulWord /\ ((x \div HALF) % FULL) \in MulWord
<1>1. FULL \in Nat /\ FULL > 0 /\ HALF \in Nat /\ HALF > 0 /\ FULL = HALF * HALF
  BY FullPositive
<1>2. ASSUME NEW y \in Int PROVE (y % FULL) \in MulWord
  BY <1>1, DivMod DEF MulWord
<1>3. (x \div HALF) \in Int
  BY <1>1, DivMod
<1>4. ((x % FULL) \div HALF) \in MulWord
  <2> DEFINE y == x % FULL
  <2>1. y \in MulWord
    BY <1>2
  <2>2. Upper(y) \in Int /\ 0 <= Upper(y) /\ Upper(y) < HALF
    BY <2>1, Halves
  <2> DEFINE u == Upper(y)
  <2>3. HALF <= HALF * HALF
    BY <1>1
  <2> HIDE DEF u
  <2>4. u \in MulWord
    BY <1>1, <2>2, <2>3 DEF MulWord, u
  <2> QED BY <2>4 DEF u, Upper
<1> QED BY <1>2, <1>3, <1>4

LEMMA ShortResultType ==
  ASSUME NEW op \in Operation, MulTypeOK
  PROVE  short_mac(op) \in Int /\ short_result(op) \in MulWord
<1>1. FULL \in Nat /\ FULL > 0 /\ HALF \in Nat
  BY FullPositive
<1>2. op.a \in MulWord /\ op.b \in MulWord
  BY DEF Operation
<1>3. /\ Upper(op.a) \in Int /\ Lower(op.a) \in Int /\ Upper(op.b) \in Int /\ Lower(op.b) \in Int
  BY <1>2, Halves
<1>4. short_op_a(op) \in Int /\ short_op_b(op) \in Int
  BY <1>1, <1>3 DEF short_op_a, short_op_b, AsSigned
<1>5. short_op_c \in Int
  BY <1>1 DEF short_op_c, MulTypeOK, MulWord
<1>6. short_op_c + short_op_a(op) * short_op_b(op) \in Int
  BY <1>4, <1>5
<1> DEFINE m == short_op_c + short_op_a(op) * short_op_b(op)
<1> HIDE DEF m
<1>7. (m % (4 * FULL)) \in Int
  <2>1. m \in Int /\ 4 * FULL \in Nat /\ 4 * FULL > 0
    BY <1>1, <1>6 DEF m
  <2> QED BY <2>1, DivMod
<1>8. short_mac(op) \in Int
  BY <1>1, <1>7 DEF short_mac, AsSigned, m
<1>9. short_result(op) \in MulWord
  BY <1>8, WordOfSum DEF short_result
<1> QED BY <1>8, <1>9

LEMMA StepArithmetic ==
  ASSUME ArithmeticInv, NEW in \in Inputs, Clock(in)
  PROVE  ArithmeticInv'
<1>1. /\ MulStep(ex, IsMulh, ex_ready(in)) /\ OperandC(in) /\ Accept(in)
      /\ Carry(ex, ex_ready(in)) /\ MulTypeOK
  BY DEF Clock, MulStep, ArithmeticInv
<1>2. PartialQuotient'
  BY StepPartialQuotient DEF ArithmeticInv
<1>3. mulh_CS' \in {"IDLE", "STEP0", "STEP1", "STEP2", "FINISH"} /\ mulh_carry_q' \in BOOLEAN
  BY <1>1 DEF MulStep, MulhIdle, MulhStep, MulhFinish, Carry, MulTypeOK
<1>4. mulh_CS' # "IDLE" => IsMulh'
  <2>1. CASE mulh_CS' # "IDLE"
    <3>1. IsMulh /\ ~ (mulh_CS = "FINISH" /\ ex_ready(in))
      BY <1>1, <2>1 DEF MulStep, MulhIdle, MulhStep, MulhFinish, ArithmeticInv
    <3>2. ~ex_ready(in)
      BY <1>1, <3>1 DEF ex_ready, units_ready, mult_ready, MulTypeOK
    <3> QED BY <1>1, <3>1, <3>2 DEF Accept, IsMulh
  <2> QED BY <2>1
<1>5. mult_operand_c' \in MulWord
  <2>1. 0 \in MulWord /\ mult_operand_c \in MulWord
    BY <1>1, FullPositive DEF MulTypeOK, MulWord
  <2>2. CASE multicycle_o
    <3>1. IsMulh /\ ex \in Operation
      BY <2>2, MulhInEx DEF ArithmeticInv, PartialQuotient, multicycle_o
    <3>2. alu_wdata \in MulWord
      BY <1>1, <3>1, ShortResultType DEF alu_wdata
    <3>3. in.apu = {} \/ \E r \in MulWord : in.apu = {r}
      BY OperationsAssumption DEF Inputs
    <3>4. regfile_alu_wdata_fw(in) \in MulWord
      <4>1. CASE in.apu = {}
        BY <3>2, <4>1 DEF regfile_alu_wdata_fw
      <4>2. CASE in.apu # {}
        <5>1. PICK r \in MulWord : in.apu = {r}
          BY <3>3, <4>2
        <5>2. (CHOOSE x \in {r} : TRUE) = r
          OBVIOUS
        <5> QED BY <4>2, <5>1, <5>2 DEF regfile_alu_wdata_fw
      <4> QED BY <4>1, <4>2
    <3> QED BY <1>1, <2>2, <3>4 DEF OperandC
  <2>3. CASE ~multicycle_o
    BY <1>1, <2>1, <2>3 DEF OperandC
  <2> QED BY <2>2, <2>3
<1>6. issued' \in 0 .. MaxOps
  <2>1. issued \in 0 .. MaxOps /\ MaxOps \in Nat \ {0}
    BY OperationsAssumption DEF ArithmeticInv
  <2>2. in.id # NoOp => issued < MaxOps
    <3>1. in.id \in Offered
      BY DEF Inputs
    <3> QED BY <2>1, <3>1 DEF Offered
  <2> QED BY <1>1, <2>1, <2>2 DEF Accept
<1>7. MulTypeOK'
  BY <1>3, <1>5 DEF MulTypeOK, MulWord, FULL
<1> QED BY <1>2, <1>4, <1>6, <1>7 DEF ArithmeticInv

\* The types of both units and of the registers that feed them: the partial sum,
\* which a late result of the floating-point unit may replace, is a word, and the
\* counter of the divider keeps to its bits.
THEOREM ArithmeticTypes == Spec => []TypeOK
<1>1. Init => ArithmeticInv
  <2> SUFFICES ASSUME Init PROVE ArithmeticInv
    OBVIOUS
  <2>1. 0 \in MulWord /\ 0 \in 0 .. MaxOps
    BY FullPositive, OperationsAssumption DEF MulWord
  <2> QED BY <2>1, InitPartialQuotient DEF ArithmeticInv, Init, MulInit, MulTypeOK
<1>2. ArithmeticInv /\ [Next]_multiVars => ArithmeticInv'
  <2> SUFFICES ASSUME ArithmeticInv, [Next]_multiVars
               PROVE  ArithmeticInv'
    OBVIOUS
  <2>1. CASE Next
    <3>1. PICK in \in Inputs : Clock(in)
      BY <2>1 DEF Next
    <3> QED BY <3>1, StepArithmetic
  <2>2. CASE UNCHANGED multiVars
    <3>1. PartialQuotient'
      BY <2>2, StutterPartialQuotient DEF ArithmeticInv
    <3> QED BY <2>2, <3>1 DEF ArithmeticInv, multiVars, mulhVars, MulTypeOK, MulWord, FULL, IsMulh
  <2> QED BY <2>1, <2>2
<1>3. ArithmeticInv => TypeOK
  BY DEF ArithmeticInv, PartialQuotient, TypeOK
<1> QED BY <1>1, <1>2, <1>3, PTL DEF Spec
=============================================================================
