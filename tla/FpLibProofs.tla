------------------------------ MODULE FpLibProofs ------------------------------
(***************************************************************************)
(* Proofs about FpLib and PicoFmt, for every number and every shift: what  *)
(* Divide leaves in result and shift, what fp_inverse and fp_to_uint16     *)
(* make of it, and what the line of the serial build reads as.             *)
(***************************************************************************)
EXTENDS Conversions, Arithmetic, SequenceTheorems

\* The division (fplib.c:23-45).

\* The variables of the loop of Divide at its start, their types, and a turn of it.
Start == [partial |-> 1, result |-> 0, shift |-> precision_bits]
Working == [partial: Nat, result: Nat, shift: Int]
After(p, sig) == IF Full(p.result) THEN p ELSE Turn(p, sig)

\* A turn keeps the types.
LEMMA TurnType ==
    ASSUME NEW sig \in Nat, NEW p \in Working
    PROVE  After(p, sig) \in Working
<1>1. Uint16(2 * p.partial) \in Nat /\ Uint16(2 * p.result) \in Nat
  BY DEF Working, Uint16
<1>2. p.shift \in Int
  BY DEF Working
<1> QED BY <1>1, <1>2 DEF Working, After, Turn

\* The function by which Divide is defined exists, and has those values.
LEMMA DivideLoop ==
    ASSUME NEW sig \in Nat
    PROVE  \E loop \in [0..32 -> Working] :
               /\ Divide(sig) = loop[32] /\ loop[0] = Start
               /\ \A n \in 1..32 : loop[n] = After(loop[n - 1], sig)
<1> DEFINE Body(g) == [n \in 0..2 * precision_bits |->
                          IF n = 0 THEN [partial |-> 1, result |-> 0, shift |-> precision_bits]
                          ELSE LET p == g[n - 1]
                               IN IF Full(p.result) THEN p ELSE Turn(p, sig)]
           D == CHOOSE g : g = Body(g)
           F == [n \in 1..32 |-> [p \in Working |-> After(p, sig)]]
<1>1. PICK g : Iterates(g, Start, F, 32, Working)
  <2>1. Start \in Working
    BY DEF Start, Working, precision_bits
  <2>2. F \in [1..32 -> [Working -> Working]]
    BY TurnType
  <2>3. 32 \in Nat
    OBVIOUS
  <2> HIDE DEF F
  <2> QED BY <2>1, <2>2, <2>3, Recursion, Zenon
<1>1a. /\ g \in [0..32 -> Working] /\ g[0] = Start
       /\ \A n \in 1..32 : g[n] = F[n][g[n - 1]]
  <2> HIDE DEF F
  <2> QED BY <1>1 DEF Iterates
<1>2. g = Body(g)
  <2>1. ASSUME NEW n \in 1..32
        PROVE  g[n] = After(g[n - 1], sig)
    <3>1. n - 1 \in 0..32
      OBVIOUS
    <3>2. g[n - 1] \in Working
      BY <1>1a, <3>1
    <3> QED BY <1>1a, <3>2
  <2>2. \A n \in 0..32 : g[n] = IF n = 0 THEN Start ELSE After(g[n - 1], sig)
    <3>1. \A n \in 0..32 : n # 0 => n \in 1..32
      OBVIOUS
    <3> HIDE DEF F
    <3> QED BY <1>1a, <2>1, <3>1
  <2> QED BY <1>1a, <2>2 DEF After, Start, precision_bits
<1>3. D = Body(D)
  BY <1>2
<1>4. Divide(sig) = D[32]
  BY DEF Divide, precision_bits
<1>5. \A n \in 0..32 : D[n] = IF n = 0 THEN Start ELSE After(D[n - 1], sig)
  <2> HIDE DEF D
  <2> QED BY <1>3 DEF precision_bits, Start, After
<1>6. DOMAIN D = 0..32 /\ D = [n \in 0..32 |-> D[n]]
  <2> HIDE DEF D
  <2> QED BY <1>3 DEF precision_bits
<1> HIDE DEF D
<1>7. \A n \in 0..32 : D[n] \in Working
  <2> DEFINE P == {n \in 0..32 : D[n] \in Working}
  <2>1. 0 \in P
    BY <1>5 DEF Start, Working, precision_bits
  <2>2. \A n \in 1..32 : n - 1 \in P => n \in P
    BY <1>5, TurnType
  <2>3. \A n \in 0..32 : n \in P
    <3> HIDE DEF P
    <3> QED BY <2>1, <2>2, Upward
  <2> QED BY <2>3
<1> QED BY <1>4, <1>5, <1>6, <1>7

\* A turn on remainder a and quotient r leaves those of 2^n.
TurnsTo(a, r, h, sig, n) ==
    \E b, q \in Nat :
        /\ b < sig /\ q < 2^16 /\ q * sig + b = 2^n
        /\ Turn([partial |-> a, result |-> r, shift |-> h], sig)
             = [partial |-> b, result |-> q, shift |-> IF Full(q) THEN h ELSE h - 1]

\* What a turn does to the division of 2^n.
LEMMA TurnIs ==
    ASSUME NEW sig \in Nat, 8 <= sig, sig < 2^15, NEW n \in 0..29,
           NEW a \in Nat, a < sig, NEW r \in Nat, r < 2^15, NEW h \in Int,
           r * sig + a = 2^n
    PROVE  TurnsTo(a, r, h, sig, n + 1)
<1> DEFINE w == r * sig
           p == [partial |-> a, result |-> r, shift |-> h]
<1>1. w \in Int /\ (2 * r) * sig = 2 * w /\ (2 * r + 1) * sig = 2 * w + sig
  OBVIOUS
<1>2. 2^n \in Nat /\ 2^(n + 1) = 2 * 2^n
  <2>1. n \in 0..31
    OBVIOUS
  <2> QED BY <2>1, Doubles
<1>3. 2 * w + 2 * a = 2^(n + 1)
  BY <1>1, <1>2
<1>4. Uint16(2 * a) = 2 * a /\ Uint16(2 * r) = 2 * r
  BY DEF Uint16
<1>5. CASE 2 * a >= sig
  <2>1. Turn(p, sig) = [partial |-> 2 * a - sig, result |-> 2 * r + 1,
                        shift |-> IF Full(2 * r + 1) THEN h ELSE h - 1]
    BY <1>4, <1>5 DEF Turn
  <2> HIDE DEF w
  <2>2. (2 * r + 1) * sig + (2 * a - sig) = 2^(n + 1)
    BY <1>1, <1>2, <1>3
  <2>3. /\ 2 * a - sig \in Nat /\ 2 * a - sig < sig
        /\ 2 * r + 1 \in Nat /\ 2 * r + 1 < 2^16
    BY <1>5
  <2> QED BY <2>1, <2>2, <2>3 DEF TurnsTo
<1>6. CASE 2 * a < sig
  <2>1. Turn(p, sig) = [partial |-> 2 * a, result |-> 2 * r,
                        shift |-> IF Full(2 * r) THEN h ELSE h - 1]
    BY <1>4, <1>6 DEF Turn
  <2> HIDE DEF w
  <2>2. (2 * r) * sig + 2 * a = 2^(n + 1)
    BY <1>1, <1>2, <1>3
  <2>3. 2 * a \in Nat /\ 2 * r \in Nat /\ 2 * r < 2^16
    OBVIOUS
  <2> QED BY <1>6, <2>1, <2>2, <2>3 DEF TurnsTo
<1> QED BY <1>5, <1>6

\* The result so far and partial are the quotient and the remainder of 2^n by sig, with one
\* place of precision or more missing.
Partway(p, sig, n) ==
    \E a, r \in Nat :
        /\ a < sig /\ r < 2^15 /\ r * sig + a = 2^n
        /\ p = [partial |-> a, result |-> r, shift |-> 16 - n]

\* The same with full precision, reached in turn n.
Filled(p, sig, n) ==
    \E a, r \in Nat :
        /\ a < sig /\ 2^15 <= r /\ r < 2^16 /\ r * sig + a = 2^n
        /\ p = [partial |-> a, result |-> r, shift |-> 17 - n]

\* The invariant of the loop: the division has come to 2^n after n turns, or it was left before.
Divided(p, sig, n) ==
    \/ n \in 0..29 /\ Partway(p, sig, n)
    \/ \E m \in 0..30 : Filled(p, sig, m)

\* After 30 turns the result is full, since 2^30 is more than 2^15 times any divisor.
LEMMA LoopInvariant ==
    ASSUME NEW sig \in Nat, 8 <= sig, sig < 2^15, NEW loop, loop[0] = Start,
           \A n \in 1..32 : loop[n] = After(loop[n - 1], sig)
    PROVE  \A n \in 0..32 : Divided(loop[n], sig, n)
<1> DEFINE P == {n \in 0..32 : Divided(loop[n], sig, n)}
<1>1. 0 \in P
  <2>1. 0 * sig + 1 = 2^0 /\ 0 \in 0..29 /\ 0 \in 0..32
    OBVIOUS
  <2>2. loop[0] = [partial |-> 1, result |-> 0, shift |-> 16 - 0]
    BY DEF Start, precision_bits
  <2>3. 1 \in Nat /\ 0 \in Nat /\ 1 < sig /\ 0 < 2^15
    OBVIOUS
  <2>4. Partway(loop[0], sig, 0)
    BY <2>1, <2>2, <2>3, Zenon DEF Partway
  <2> QED BY <2>1, <2>4 DEF Divided
<1>2. ASSUME NEW n \in 1..32, n - 1 \in P
      PROVE  n \in P
  <2> DEFINE k == n - 1
  <2>1. Divided(loop[k], sig, k) /\ loop[n] = After(loop[k], sig)
    BY <1>2
  <2>2. CASE \E m \in 0..30 : Filled(loop[k], sig, m)
    <3>1. PICK m \in 0..30 : Filled(loop[k], sig, m)
      BY <2>2
    <3>2. Full(loop[k].result)
      BY <3>1 DEF Filled, Full, precision_bits
    <3>3. loop[n] = loop[k]
      BY <2>1, <3>2 DEF After
    <3> HIDE DEF k
    <3>4. Divided(loop[n], sig, n)
      BY <3>1, <3>3 DEF Divided
    <3> QED BY <3>4
  <2>3. CASE k \in 0..29 /\ Partway(loop[k], sig, k)
    <3>1. PICK a, r \in Nat :
              /\ a < sig /\ r < 2^15 /\ r * sig + a = 2^k
              /\ loop[k] = [partial |-> a, result |-> r, shift |-> 16 - k]
      BY <2>3 DEF Partway
    <3>2. loop[n] = Turn([partial |-> a, result |-> r, shift |-> 16 - k], sig)
      BY <2>1, <3>1 DEF After, Full, precision_bits
    <3>3. 16 - k \in Int /\ k + 1 = n /\ n \in 0..30
      BY <2>3
    <3>. HIDE DEF k
    <3>4a. TurnsTo(a, r, 16 - k, sig, k + 1)
      BY <2>3, <3>1, <3>3, TurnIs, Zenon
    <3>4. PICK b, q \in Nat :
               /\ b < sig /\ q < 2^16 /\ q * sig + b = 2^(k + 1)
               /\ Turn([partial |-> a, result |-> r, shift |-> 16 - k], sig)
                    = [partial |-> b, result |-> q,
                       shift |-> IF Full(q) THEN 16 - k ELSE (16 - k) - 1]
      BY <3>4a DEF TurnsTo
    <3>5. q * sig + b = 2^n
      BY <3>3, <3>4, Zenon
    <3>6. Full(q) <=> q >= 2^15
      BY DEF Full, precision_bits
    <3>7. CASE q >= 2^15
      <4>1. 16 - k = 17 - n /\ 2^15 <= q
        BY <3>7 DEF k
      <4>2. loop[n] = [partial |-> b, result |-> q, shift |-> 17 - n]
        BY <3>2, <3>4, <3>6, <3>7, <4>1
      <4>3. Filled(loop[n], sig, n)
        BY <3>4, <3>5, <4>1, <4>2, Zenon DEF Filled
      <4> QED BY <3>3, <4>3 DEF Divided
    <3>8. CASE q < 2^15
      <4>1. (16 - k) - 1 = 16 - n
        BY DEF k
      <4>2. loop[n] = [partial |-> b, result |-> q, shift |-> 16 - n]
        BY <3>2, <3>4, <3>6, <3>8, <4>1
      <4>3. Partway(loop[n], sig, n)
        BY <3>4, <3>5, <3>8, <4>2, Zenon DEF Partway
      <4>4. n # 30
        <5>1. ASSUME n = 30 PROVE FALSE
          <6>1. q * sig + b = 1073741824
            BY <3>5, <5>1
          <6>2. (32767 - q) * sig >= 0 /\ (32767 - q) * sig = 32767 * sig - q * sig
            BY <3>8
          <6>3. q * sig \in Int /\ b <= 32766 /\ 32767 * sig <= 32767 * 32767
            BY <3>4
          <6> QED BY <6>1, <6>2, <6>3
        <5> QED BY <5>1
      <4>5. n \in 0..29
        BY <3>3, <4>4
      <4>6. Divided(loop[n], sig, n)
        BY <4>3, <4>5 DEF Divided
      <4> QED BY <4>6
    <3> QED BY <3>7, <3>8
  <2> QED BY <2>1, <2>2, <2>3 DEF Divided
<1>3. \A n \in 0..32 : n \in P
  <2> HIDE DEF P
  <2> QED BY <1>1, <1>2, Upward
<1> QED BY <1>3

\* The quotient of 2^j by s has 16 bits.
Fits(s, j) == 2^15 * s <= 2^j /\ 2^j < 2^16 * s

\* The division of the code by 8 s gives that quotient, and shift tells j.
Quotient(s, j) ==
    /\ Fits(s, j)
    /\ 2^15 <= 2^j \div s /\ 2^j \div s < 2^16
    /\ Divide(8 * s).result = 2^j \div s
    /\ Divide(8 * s).shift = 14 - j

\* After the loop: a quotient of 16 bits, by what shift says (fplib.c:23-45).
THEOREM DivideIsQuotient ==
    ASSUME NEW s \in Nat, 1 <= s, s < 2^12
    PROVE  \E j \in 15..27 : Quotient(s, j)
<1> DEFINE sig == 8 * s
<1>1. sig \in Nat /\ 8 <= sig /\ sig < 2^15
  OBVIOUS
<1> HIDE DEF sig
<1>2. PICK loop \in [0..32 -> Working] :
          /\ Divide(sig) = loop[32] /\ loop[0] = Start
          /\ \A n \in 1..32 : loop[n] = After(loop[n - 1], sig)
  BY <1>1, DivideLoop
<1>3. \A n \in 0..32 : Divided(loop[n], sig, n)
  BY <1>1, <1>2, LoopInvariant
<1>4. PICK t \in 0..30 : Filled(loop[32], sig, t)
  <2>1. 32 \in 0..32 /\ 32 \notin 0..29
    OBVIOUS
  <2> QED BY <1>3, <2>1, Zenon DEF Divided
<1>5. PICK a, r \in Nat :
          /\ a < sig /\ 2^15 <= r /\ r < 2^16 /\ r * sig + a = 2^t
          /\ loop[32] = [partial |-> a, result |-> r, shift |-> 17 - t]
  BY <1>4 DEF Filled
<1>6. r * sig = 8 * (r * s) /\ r * s \in Nat
  BY DEF sig
<1>7. 2^15 * s <= r * s /\ r * s <= 65535 * s
  <2>1. (r - 32768) * s >= 0 /\ (r - 32768) * s = r * s - 32768 * s
    BY <1>5
  <2>2. (65535 - r) * s >= 0 /\ (65535 - r) * s = 65535 * s - r * s
    BY <1>5
  <2> QED BY <1>6, <2>1, <2>2
<1>8. t \in 18..30
  <2>1. ASSUME t \in 0..17 PROVE FALSE
    <3>1. t \in 0..31 /\ 17 \in 0..31 /\ t <= 17
      BY <2>1
    <3>2. 2^t <= 2^17
      BY <3>1, PowerMono, Zenon
    <3>3. 2^17 = 131072
      OBVIOUS
    <3>4. 2^t >= 262144
      <4> HIDE DEF sig
      <4> DEFINE x == r * s
      <4>1. 8 * x + a = 2^t /\ x \in Nat /\ x >= 32768 * s
        BY <1>5, <1>6, <1>7
      <4> HIDE DEF x
      <4> QED BY <4>1
    <3>5. 2^t \in Int
      BY <3>1, Doubles
    <3> QED BY <3>2, <3>3, <3>4, <3>5
  <2> QED BY <2>1
<1> DEFINE j == t - 3
<1>9. j \in 15..27 /\ 17 - t = 14 - j
  BY <1>8
<1>10. 2^t = 8 * 2^j /\ 2^j \in Nat
  <2>1. j \in Nat /\ 3 \in Nat /\ j + 3 <= 31 /\ j + 3 = t /\ 2^3 = 8 /\ j \in 0..31
    BY <1>8
  <2>2. 2^t = 2^j * 2^3 /\ 2^j \in Nat
    BY <2>1, PowerSum, Doubles, Zenon
  <2> QED BY <2>1, <2>2
<1> HIDE DEF j
<1>11. r * s <= 2^j /\ 2^j < r * s + s
  BY <1>5, <1>6, <1>10 DEF sig
<1>12. r = 2^j \div s
  BY <1>5, <1>10, <1>11, DivIs
<1>13. 2^15 * s <= 2^j /\ 2^j < 2^16 * s
  BY <1>6, <1>7, <1>10, <1>11
<1>14. Divide(8 * s).result = r /\ Divide(8 * s).shift = 14 - j
  BY <1>2, <1>5, <1>9 DEF sig
<1>15. Quotient(s, j)
  BY <1>5, <1>9, <1>12, <1>13, <1>14 DEF Quotient, Fits
<1> QED BY <1>9, <1>15

--------------------------------------------------------------------------------
\* The inverse and its reading (fplib.c:18-69, fplib.h:20-32).

\* A larger divisor needs a dividend as large or larger.
LEMMA FitsMono ==
    ASSUME NEW s \in Nat, NEW t \in Nat, s <= t, NEW j \in 0..30, NEW k \in 0..30,
           Fits(s, j), Fits(t, k)
    PROVE  j <= k
<1>1. ASSUME k < j PROVE FALSE
  <2>1. k + 1 \in 0..31 /\ j \in 0..31 /\ k \in 0..31 /\ k + 1 <= j
    BY <1>1
  <2>2. 2^(k + 1) <= 2^j /\ 2^(k + 1) = 2 * 2^k /\ 2^k \in Nat /\ 2^j \in Nat
    BY <2>1, PowerMono, Doubles, Zenon
  <2> DEFINE x == 2^j
             y == 2^k
             z == 2^(k + 1)
  <2>3. x \in Nat /\ y \in Nat /\ z <= x /\ z = 2 * y
    BY <2>2, Zenon
  <2>4. x < 65536 * s /\ 32768 * t <= y
    BY DEF Fits
  <2> HIDE DEF x, y, z
  <2> QED BY <2>3, <2>4
<1> QED BY <1>1

\* The upper twelve of sixteen bits, and the lower four.
LEMMA FieldsOf ==
    ASSUME NEW m \in Nat, NEW e \in Nat, e < 16
    PROVE  /\ fp_extract_sig(16 * m + e) = 16 * m
           /\ fp_extract_exp(16 * m + e) = e
BY DEF fp_extract_sig, fp_extract_exp, MantissaOf

\* Every number of 16 bits has those fields.
LEMMA Fields ==
    ASSUME NEW g \in Nat, g < 2^16
    PROVE  \E m, e \in Nat : m < 2^12 /\ e < 16 /\ g = 16 * m + e
<1>1. g \div 16 \in Nat /\ g \div 16 < 2^12 /\ g % 16 \in Nat /\ g % 16 < 16
      /\ g = 16 * (g \div 16) + (g % 16)
  OBVIOUS
<1> QED BY <1>1

\* A shift by fewer than 16 places is a division.
LEMMA ShiftIs ==
    ASSUME NEW n, NEW k \in Int, k < 16
    PROVE  ShiftRight(n, k) = n \div 2^k
BY DEF ShiftRight

\* What is read out of an inverse with the result q and the exponent exp.
Value(q, exp) ==
    IF exp > 15 THEN Saturated ELSE IF exp < 0 THEN 0 ELSE MantissaOf(q) \div 2^(15 - exp)

\* The exponent that fp_inverse works out for the exponent e, the dividend 2^j and the shift x.
Exponent(e, j, x) == Int8(30 - e - j + x)

\* fp_inverse read by fp_to_uint16 is that value.
LEMMA ReadIs ==
    ASSUME NEW m \in Nat, m + 1 < 2^12, NEW e \in Nat, e < 16, NEW x \in Int,
           NEW j \in 15..27, Quotient(m + 1, j)
    PROVE  fp_to_uint16(fp_inverse(16 * m + e, x)) = Value(2^j \div (m + 1), Exponent(e, j, x))
<1> DEFINE q == 2^j \div (m + 1)
           h == 14 - j
           exp == Exponent(e, j, x)
           g == fp_inverse(16 * m + e, x)
<1>1. q \in Nat /\ 32768 <= q /\ q < 65536
  <2>1. 2^j \in Nat
    <3>1. j \in 0..31
      OBVIOUS
    <3> QED BY <3>1, Doubles
  <2>2. q \in Int
    BY <2>1
  <2>3. 2^15 <= q /\ q < 2^16
    BY DEF Quotient
  <2> HIDE DEF q
  <2> QED BY <2>2, <2>3
<1>2. Divisor(16 * m + e) = 8 * (m + 1)
  BY FieldsOf DEF Divisor, Uint16, FP16_MANTISSA_MIN
<1>3. Divide(8 * (m + 1)).result = q /\ Divide(8 * (m + 1)).shift = h
  BY DEF Quotient
<1>4. 1 + FP16_EXPONENT_MAX - fp_extract_exp(16 * m + e) + h + x = 30 - e - j + x
  BY FieldsOf DEF FP16_EXPONENT_MAX
<1>5. exp \in Int
  BY DEF Exponent, Int8
<1> HIDE DEF q, h
<1>6. g = IF exp > 15 THEN fp_compose(65520, 15)
          ELSE IF exp < 0 THEN MantissaOf(ShiftRight(q, -exp))
          ELSE MantissaOf(q) + exp
  BY <1>2, <1>3, <1>4
     DEF fp_inverse, WideExponent, FP16_EXPONENT_MAX, FP16_MANTISSA_MAX, Exponent
<1> HIDE DEF exp, g
<1>7. CASE exp > 15
  <2>1. g = 16 * 4095 + 15
    BY <1>6, <1>7 DEF fp_compose, MantissaOf
  <2>2. fp_extract_sig(g) = 65520 /\ fp_extract_exp(g) = 15
    BY <2>1 DEF fp_extract_sig, fp_extract_exp, MantissaOf
  <2>3. fp_to_uint16(g) = 65520
    BY <2>2 DEF fp_to_uint16, ShiftRight, FP16_EXPONENT_MAX
  <2> QED BY <1>7, <2>3 DEF Value, g, exp, q, Saturated, FP16_MANTISSA_MAX
<1>8. CASE exp < 0
  <2> DEFINE w == ShiftRight(q, -exp)
  <2>1. w \in Nat /\ w < 32768
    <3>1. CASE -exp >= 16
      BY <3>1 DEF ShiftRight
    <3>2. CASE -exp < 16
      <4>1. PICK k \in 1..15 : -exp = k
        BY <1>5, <1>8, <3>2
      <4> DEFINE y == 2^k
      <4>2. y \in Nat /\ y >= 2
        <5>1. k - 1 \in 0..31 /\ (k - 1) + 1 = k /\ k \in 0..31
          BY <4>1
        <5>2. 2^k \in Nat
          BY <5>1, Doubles, Zenon
        <5>3. 2^(k - 1) \in Nat /\ 2^(k - 1) > 0 /\ 2^k = 2 * 2^(k - 1)
          BY <5>1, Doubles, Zenon
        <5> QED BY <5>2, <5>3
      <4>3. w = q \div y
        <5>1. w = ShiftRight(q, k)
          BY <4>1
        <5> HIDE DEF w
        <5> QED BY <5>1 DEF ShiftRight
      <4> HIDE DEF y, w
      <4>4. w \in Nat /\ w * y <= q
        BY <1>1, <4>2, <4>3, DivIs, DivNat
      <4>5. w * (y - 2) >= 0 /\ w * (y - 2) = w * y - 2 * w /\ w * y \in Int
        BY <4>2, <4>4
      <4> QED BY <1>1, <4>4, <4>5
    <3> QED BY <1>5, <3>1, <3>2
  <2>2. g = 16 * (w \div 16) + 0
    BY <1>5, <1>6, <1>8, <2>1 DEF MantissaOf
  <2> HIDE DEF w
  <2>3. w \div 16 \in Nat
    BY <2>1
  <2>4. fp_extract_sig(g) = 16 * (w \div 16) /\ fp_extract_exp(g) = 0
    BY <2>2, <2>3, FieldsOf
  <2>5. fp_to_uint16(g) = 0
    <3>1. fp_to_uint16(g) = (16 * (w \div 16)) \div 32768
      BY <2>4 DEF fp_to_uint16, ShiftRight, FP16_EXPONENT_MAX
    <3> QED BY <2>1, <3>1
  <2> QED BY <1>5, <1>8, <2>5 DEF Value, g, exp, q, Saturated, FP16_MANTISSA_MAX
<1>9. CASE exp \in 0..15
  <2>1. g = 16 * (q \div 16) + exp
    BY <1>6, <1>9 DEF MantissaOf
  <2>2. q \div 16 \in Nat
    BY <1>1
  <2>3. fp_extract_sig(g) = MantissaOf(q) /\ fp_extract_exp(g) = exp
    BY <1>9, <2>1, <2>2, FieldsOf DEF MantissaOf
  <2>4. fp_to_uint16(g) = MantissaOf(q) \div 2^(15 - exp)
    <3>1. fp_to_uint16(g) = ShiftRight(MantissaOf(q), 15 - exp)
      BY <2>3 DEF fp_to_uint16, FP16_EXPONENT_MAX
    <3>2. 15 - exp \in Int /\ 15 - exp < 16
      BY <1>9
    <3> QED BY <3>1, <3>2, ShiftIs, Zenon
  <2> QED BY <1>9, <2>4 DEF Value, g, exp, q, Saturated, FP16_MANTISSA_MAX
<1>10. exp > 15 \/ exp < 0 \/ exp \in 0..15
  BY <1>5
<1> QED BY <1>7, <1>8, <1>9, <1>10, Zenon

\* A result of fp_inverse that is full.
Wide16(q) == q \in Nat /\ 2^15 <= q /\ q < 2^16

\* An exponent that smallint_t holds is not changed.
LEMMA ExponentIs ==
    ASSUME NEW e \in Nat, NEW j \in 15..27, NEW x \in Int,
           -128 <= 30 - e - j + x, 30 - e - j + x <= 127
    PROVE  Exponent(e, j, x) = 30 - e - j + x
<1> DEFINE n == 30 - e - j + x
<1>1. n \in Int /\ -128 <= n /\ n <= 127
  OBVIOUS
<1> HIDE DEF n
<1>2. Int8(n) = n
  BY <1>1 DEF Int8
<1> QED BY <1>2 DEF Exponent, n

\* The result of Divide is full.
LEMMA QuotientWide ==
    ASSUME NEW s \in Nat, s > 0, NEW j \in 15..27, Quotient(s, j)
    PROVE  Wide16(2^j \div s) /\ 2^j \in Nat
<1>1. 2^j \in Nat
  <2>1. j \in 0..31
    OBVIOUS
  <2> QED BY <2>1, Doubles
<1>2. 2^j \div s \in Int
  BY <1>1
<1> DEFINE q == 2^j \div s
<1>3. q \in Int /\ 2^15 <= q /\ q < 2^16
  BY <1>2 DEF Quotient
<1> HIDE DEF q
<1>4. Wide16(q)
  BY <1>3 DEF Wide16
<1> QED BY <1>1, <1>4 DEF q

\* The significand of a full result.
LEMMA MantissaWide ==
    ASSUME NEW q, Wide16(q)
    PROVE  /\ MantissaOf(q) \in Nat /\ 2^15 <= MantissaOf(q) /\ MantissaOf(q) <= 65520
           /\ MantissaOf(q) <= q /\ q < MantissaOf(q) + 16
BY DEF Wide16, MantissaOf

\* The three cases of Value.
LEMMA ValueIs ==
    ASSUME NEW q, NEW exp \in Int
    PROVE  /\ exp > 15 => Value(q, exp) = Saturated
           /\ exp < 0 => Value(q, exp) = 0
           /\ \A k \in 0..15 : k = 15 - exp => Value(q, exp) = MantissaOf(q) \div 2^k
<1>1. ASSUME exp > 15
      PROVE  Value(q, exp) = Saturated
  BY <1>1, Zenon DEF Value
<1>2. ASSUME exp < 0
      PROVE  Value(q, exp) = 0
  <2>1. ~(exp > 15)
    BY <1>2
  <2> QED BY <1>2, <2>1, Zenon DEF Value
<1>3. ASSUME NEW k \in 0..15, k = 15 - exp
      PROVE  Value(q, exp) = MantissaOf(q) \div 2^k
  <2>1. ~(exp > 15) /\ ~(exp < 0)
    BY <1>3
  <2> QED BY <1>3, <2>1, Zenon DEF Value
<1> QED BY <1>1, <1>2, <1>3

\* A larger exponent, or the same with a larger result, reads as no less.
LEMMA ValueMono ==
    ASSUME NEW q, NEW r, Wide16(q), Wide16(r), NEW exp \in Int, NEW low \in Int,
           \/ low = exp /\ r <= q
           \/ low < exp
    PROVE  Value(r, low) <= Value(q, exp)
<1> DEFINE a == MantissaOf(q)
           b == MantissaOf(r)
<1>1. a \in Nat /\ 2^15 <= a /\ a <= Saturated /\ b \in Nat /\ 2^15 <= b /\ b <= Saturated
  BY MantissaWide DEF Saturated, FP16_MANTISSA_MAX
<1>2. q \in Nat /\ r \in Nat /\ Saturated \in Nat /\ Saturated < 2^16
  BY DEF Wide16, Saturated, FP16_MANTISSA_MAX
<1>3. ASSUME NEW k \in 0..15 PROVE 2^k \in Nat /\ 2^k > 0
  <2>1. k \in 0..31
    OBVIOUS
  <2> QED BY <2>1, Doubles
<1>4. ASSUME NEW k \in 0..15, NEW v, v = b \div 2^k
      PROVE  v \in Nat /\ v <= Saturated /\ v * 2^k <= b
  <2> DEFINE y == 2^k
  <2>1. y \in Nat /\ y > 0
    BY <1>3
  <2> HIDE DEF y, b
  <2>2. v = b \div y
    BY <1>4 DEF y
  <2>3. v \in Nat /\ v * y <= b
    BY <1>1, <2>1, <2>2, DivIs, DivNat
  <2>4. v * (y - 1) >= 0 /\ v * (y - 1) = v * y - v /\ v * y \in Int
    BY <2>1, <2>3
  <2>5. v <= Saturated
    BY <1>1, <1>2, <2>3, <2>4
  <2> QED BY <2>3, <2>5 DEF y
<1>5. CASE exp > 15
  <2>1. Value(q, exp) = Saturated
    BY <1>5, ValueIs
  <2>2. CASE low > 15
    BY <1>2, <2>1, <2>2, ValueIs
  <2>3. CASE low < 0
    BY <1>2, <2>1, <2>3, ValueIs
  <2>4. CASE low \in 0..15
    <3>1. 15 - low \in 0..15
      BY <2>4
    <3>2. b \div 2^(15 - low) <= Saturated
      BY <1>4, <3>1
    <3>3. Value(r, low) = b \div 2^(15 - low)
      BY <3>1, ValueIs, Zenon
    <3> QED BY <2>1, <3>2, <3>3
  <2> QED BY <2>2, <2>3, <2>4
<1>6. CASE exp < 0
  <2>1. low < 0
    BY <1>6
  <2> QED BY <1>6, <2>1, ValueIs
<1>7. CASE exp \in 0..15
  <2>1. PICK k \in 0..15 : k = 15 - exp
    BY <1>7
  <2> DEFINE v == a \div 2^k
             y == 2^k
  <2>2. Value(q, exp) = v
    BY <2>1, ValueIs, Zenon
  <2>3. y \in Nat /\ y > 0
    BY <1>3
  <2>4. v \in Nat /\ a < v * y + y
    <3>1. v = a \div y
      OBVIOUS
    <3> HIDE DEF v, y, a
    <3> QED BY <1>1, <2>3, <3>1, DivIs, DivNat
  <2>5. CASE low < 0
    <3>1. Value(r, low) = 0
      BY <2>5, ValueIs
    <3> HIDE DEF v
    <3> QED BY <2>2, <2>4, <3>1
  <2>6. CASE low = exp
    <3>1. r <= q
      BY <2>6
    <3>2. b <= a
      BY <1>2, <3>1 DEF MantissaOf
    <3>3. Value(r, low) = b \div y
      <4>1. k \in 0..15 /\ k = 15 - low
        BY <2>1, <2>6
      <4> QED BY <4>1, ValueIs, Zenon
    <3>4. b \div y <= a \div y
      <4> HIDE DEF a, b, y
      <4> QED BY <1>1, <2>3, <3>2, DivMono
    <3> QED BY <2>2, <3>3, <3>4
  <2>7. CASE low \in 0..exp - 1
    <3>1. PICK i \in 1..15 : i = 15 - low
      BY <1>7, <2>7
    <3>2. k + 1 <= i
      BY <2>1, <2>7, <3>1
    <3> DEFINE w == b \div 2^i
               z == 2^i
    <3>3. Value(r, low) = w
      <4>1. i \in 0..15 /\ i = 15 - low
        BY <3>1
      <4> QED BY <4>1, ValueIs, Zenon
    <3>4. w \in Nat /\ w * z <= b
      <4>1. i \in 0..15 /\ w = b \div 2^i
        OBVIOUS
      <4> HIDE DEF w, b
      <4> QED BY <1>4, <4>1, Zenon
    <3>5. z \in Nat /\ 2 * y <= z
      <4>1. k \in 0..31 /\ k + 1 \in 0..31 /\ i \in 0..31
        OBVIOUS
      <4>2. 2^(k + 1) = 2 * 2^k /\ 2^i \in Nat
        BY <4>1, Doubles, Zenon
      <4>3. 2^(k + 1) <= 2^i
        BY <3>2, <4>1, PowerMono, Zenon
      <4> QED BY <4>2, <4>3
    <3> HIDE DEF w, z, v, y, a, b
    <3>6. ASSUME v < w PROVE FALSE
      <4>1. w * (z - 2 * y) >= 0 /\ (w - v - 1) * (2 * y) >= 0
        BY <2>3, <2>4, <3>4, <3>5, <3>6
      <4>2. w * (z - 2 * y) = w * z - 2 * (w * y)
        BY <2>3, <3>4, <3>5
      <4>3. (w - v - 1) * (2 * y) = 2 * (w * y) - 2 * (v * y) - 2 * y
        BY <2>3, <2>4, <3>4
      <4>4. w * y \in Int /\ v * y \in Int /\ w * z \in Int
        BY <2>3, <2>4, <3>4, <3>5
      <4> QED BY <1>1, <1>2, <2>3, <2>4, <3>4, <4>1, <4>2, <4>3, <4>4
    <3> QED BY <2>2, <2>4, <3>3, <3>4, <3>6
  <2> QED BY <1>7, <2>5, <2>6, <2>7
<1> QED BY <1>5, <1>6, <1>7

\* InDomain on the fields of a number.
LEMMA DomainIs ==
    ASSUME NEW m \in Nat, NEW e \in Nat, e < 16, NEW x \in Int, InDomain(16 * m + e, x)
    PROVE  /\ m + 1 < 2^12
           /\ \A j \in 15..27 : Quotient(m + 1, j) =>
                -128 <= 30 - e - j + x /\ 30 - e - j + x <= 127
<1>1. fp_extract_sig(16 * m + e) = 16 * m /\ fp_extract_exp(16 * m + e) = e
  BY FieldsOf
<1>2. 16 * m < 65520
  BY <1>1 DEF InDomain, FP16_MANTISSA_MAX
<1>3. Divisor(16 * m + e) = 8 * (m + 1)
  BY <1>1, <1>2 DEF Divisor, Uint16, FP16_MANTISSA_MIN
<1>4. ASSUME NEW j \in 15..27, Quotient(m + 1, j)
      PROVE  -128 <= 30 - e - j + x /\ 30 - e - j + x <= 127
  <2>1. Divide(8 * (m + 1)).shift = 14 - j
    BY <1>4 DEF Quotient
  <2>2. WideExponent(16 * m + e, Divide(8 * (m + 1)), x) = 30 - e - j + x
    BY <1>1, <2>1 DEF WideExponent, FP16_EXPONENT_MAX
  <2>3. WideExponent(16 * m + e, Divide(8 * (m + 1)), x) \in -128..127
    BY <1>3, Zenon DEF InDomain
  <2> QED BY <2>2, <2>3
<1> QED BY <1>2, <1>4

\* A larger significand reads as no more.
LEMMA MonotoneOn ==
    ASSUME NEW m \in Nat, NEW e \in Nat, e < 16, NEW x \in Int,
           InDomain(16 * m + e, x), InDomain(16 * (m + 1) + e, x)
    PROVE  fp_to_uint16(fp_inverse(16 * (m + 1) + e, x))
             <= fp_to_uint16(fp_inverse(16 * m + e, x))
<1> DEFINE s == m + 1
           t == m + 2
<1>1. s + 1 < 2^12 /\ m + 1 \in Nat
  <2>1. m + 1 \in Nat
    OBVIOUS
  <2> HIDE DEF s
  <2>2. (m + 1) + 1 < 2^12
    BY <2>1, DomainIs
  <2> QED BY <2>1, <2>2 DEF s
<1>2. s \in Nat /\ t \in Nat /\ 1 <= s /\ s < 2^12 /\ 1 <= t /\ t < 2^12 /\ s <= t
  BY <1>1
<1>3. PICK j \in 15..27 : Quotient(s, j)
  BY <1>2, DivideIsQuotient, Zenon
<1>4. PICK k \in 15..27 : Quotient(t, k)
  BY <1>2, DivideIsQuotient, Zenon
<1>5. j <= k
  <2>1. Fits(s, j) /\ Fits(t, k) /\ j \in 0..30 /\ k \in 0..30
    BY <1>3, <1>4 DEF Quotient
  <2> HIDE DEF s, t
  <2> QED BY <1>2, <2>1, FitsMono
<1>6. fp_to_uint16(fp_inverse(16 * m + e, x)) = Value(2^j \div s, 30 - e - j + x)
  <2>1. m + 1 < 2^12
    BY <1>2
  <2>2. fp_to_uint16(fp_inverse(16 * m + e, x)) = Value(2^j \div s, Exponent(e, j, x))
    BY <1>1, <1>3, <2>1, ReadIs, Zenon
  <2>3. Exponent(e, j, x) = 30 - e - j + x
    <3>1. -128 <= 30 - e - j + x /\ 30 - e - j + x <= 127
      BY <1>3, DomainIs
    <3> QED BY <3>1, ExponentIs
  <2> QED BY <2>2, <2>3, Zenon
<1>7. fp_to_uint16(fp_inverse(16 * (m + 1) + e, x)) = Value(2^k \div t, 30 - e - k + x)
  <2>1. (m + 1) + 1 < 2^12 /\ (m + 1) + 1 = t
    BY <1>2
  <2>2. Quotient((m + 1) + 1, k)
    BY <1>4, <2>1, Zenon
  <2>3. fp_to_uint16(fp_inverse(16 * (m + 1) + e, x))
          = Value(2^k \div ((m + 1) + 1), Exponent(e, k, x))
    BY <1>1, <2>1, <2>2, ReadIs, Zenon
  <2>4. Exponent(e, k, x) = 30 - e - k + x
    <3>1. -128 <= 30 - e - k + x /\ 30 - e - k + x <= 127
      BY <1>1, <2>2, DomainIs
    <3> QED BY <3>1, ExponentIs
  <2> HIDE DEF t
  <2> QED BY <2>1, <2>3, <2>4, Zenon
<1> HIDE DEF s, t
<1>8. Wide16(2^j \div s) /\ Wide16(2^k \div t) /\ 2^j \in Nat
  <2>1. s > 0 /\ t > 0
    BY <1>2
  <2> QED BY <1>2, <1>3, <1>4, <2>1, QuotientWide
<1> DEFINE exp == 30 - e - j + x
           low == 30 - e - k + x
<1>9. exp \in Int /\ low \in Int /\ ((low = exp /\ j = k) \/ low < exp)
  BY <1>1, <1>5
<1>10. j = k => 2^k \div t <= 2^j \div s
  <2> DEFINE d == 2^j
  <2>1. d \in Nat /\ s > 0
    BY <1>2, <1>8
  <2>2. d \div t <= d \div s
    <3> HIDE DEF d
    <3> QED BY <1>2, <2>1, DivAnti
  <2> QED BY <2>2
<1> HIDE DEF exp, low
<1>11. Value(2^k \div t, low) <= Value(2^j \div s, exp)
  BY <1>8, <1>9, <1>10, ValueMono
<1> QED BY <1>6, <1>7, <1>11 DEF exp, low

\* Twice the divisor needs twice the dividend.
LEMMA QuotientDouble ==
    ASSUME NEW s \in Nat, 1 <= s, NEW j \in 15..27, NEW k \in 15..27,
           Quotient(s, j), Quotient(2 * s, k)
    PROVE  k = j + 1 /\ 2^k \div (2 * s) = 2^j \div s
<1>1. j \in 0..31 /\ j + 1 \in 0..30 /\ k \in 0..30
  OBVIOUS
<1>2. 2^j \in Nat /\ 2^(j + 1) = 2 * 2^j
  BY <1>1, Doubles, Zenon
<1>3. Fits(2 * s, j + 1)
  BY <1>2 DEF Quotient, Fits
<1>4. Fits(2 * s, k) /\ 2 * s \in Nat /\ 2 * s <= 2 * s
  BY DEF Quotient
<1>5. j + 1 <= k /\ k <= j + 1
  BY <1>1, <1>3, <1>4, FitsMono, Zenon
<1>6. k = j + 1
  BY <1>5
<1> DEFINE d == 2^j
<1>7. (d * 2) \div (s * 2) = d \div s
  <2>1. d \in Nat
    BY <1>2
  <2> HIDE DEF d
  <2> QED BY <2>1, DivCancel
<1>8. 2^k = d * 2 /\ 2 * s = s * 2
  BY <1>2, <1>6
<1> QED BY <1>6, <1>7, <1>8

\* A doubled significand reads as an exponent one higher.
LEMMA ScalesOn ==
    ASSUME NEW m \in Nat, 2 * m + 2 < 2^12, NEW e \in Nat, e < 15, NEW x \in Int
    PROVE  fp_to_uint16(fp_inverse(16 * (2 * m + 1) + e, x))
             = fp_to_uint16(fp_inverse(16 * m + (e + 1), x))
<1> DEFINE s == m + 1
           t == 2 * s
<1>1. s \in Nat /\ t \in Nat /\ 1 <= s /\ s < 2^12 /\ 1 <= t /\ t < 2^12
  OBVIOUS
<1>2. PICK j \in 15..27 : Quotient(s, j)
  BY <1>1, DivideIsQuotient, Zenon
<1>3. PICK k \in 15..27 : Quotient(t, k)
  BY <1>1, DivideIsQuotient, Zenon
<1>4. k = j + 1 /\ 2^k \div t = 2^j \div s
  <2> HIDE DEF s
  <2> QED BY <1>1, <1>2, <1>3, QuotientDouble
<1>5. Exponent(e, k, x) = Exponent(e + 1, j, x)
  <2>1. 30 - e - k + x = 30 - (e + 1) - j + x
    BY <1>4
  <2> QED BY <2>1, Zenon DEF Exponent
<1>6. fp_to_uint16(fp_inverse(16 * m + (e + 1), x)) = Value(2^j \div s, Exponent(e + 1, j, x))
  <2>1. e + 1 \in Nat /\ e + 1 < 16 /\ m + 1 < 2^12
    OBVIOUS
  <2> QED BY <1>2, <2>1, ReadIs, Zenon
<1>7. fp_to_uint16(fp_inverse(16 * (2 * m + 1) + e, x)) = Value(2^k \div t, Exponent(e, k, x))
  <2>1. 2 * m + 1 \in Nat /\ (2 * m + 1) + 1 < 2^12 /\ (2 * m + 1) + 1 = t /\ e < 16
    OBVIOUS
  <2> HIDE DEF t
  <2>2. Quotient((2 * m + 1) + 1, k)
    BY <1>3, <2>1, Zenon
  <2>3. fp_to_uint16(fp_inverse(16 * (2 * m + 1) + e, x))
          = Value(2^k \div ((2 * m + 1) + 1), Exponent(e, k, x))
    BY <2>1, <2>2, ReadIs, Zenon
  <2> QED BY <2>1, <2>3, Zenon
<1> QED BY <1>4, <1>5, <1>6, <1>7, Zenon

\* A full result, cut to twelve bits and then shifted down by k places, is
\* within the bound of InverseAccurate of the result shifted.
LEMMA CutOff ==
    ASSUME NEW q, Wide16(q), NEW k \in 0..15,
           NEW i \in Nat, i * 2^k <= q, q < i * 2^k + 2^k,
           NEW v \in Nat, v * 2^k <= MantissaOf(q), MantissaOf(q) < v * 2^k + 2^k
    PROVE  v <= i /\ i - v <= i \div 2^11 + 1
<1> DEFINE a == MantissaOf(q)
           y == 2^k
<1>1. /\ a \in Nat /\ 2^15 <= a /\ a <= q /\ q < a + 16
      /\ q \in Nat /\ 2^15 <= q /\ q < 2^16
  BY MantissaWide DEF Wide16
<1>2. y \in Nat /\ y > 0
  <2>1. k \in 0..31
    OBVIOUS
  <2> QED BY <2>1, Doubles
<1>3. i * y <= q /\ q < i * y + y /\ v * y <= a /\ a < v * y + y
  OBVIOUS
<1>4. k >= 4 => y >= 16
  <2>1. ASSUME k >= 4 PROVE 2^4 <= 2^k
    <3>1. k \in 0..31 /\ 4 \in 0..31 /\ 4 <= k
      BY <2>1
    <3> QED BY <3>1, PowerMono
  <2> QED BY <2>1
<1> HIDE DEF a, y
<1>5. ASSUME i < v PROVE FALSE
  <2>1. (v - i - 1) * y >= 0 /\ (v - i - 1) * y = v * y - i * y - y
        /\ v * y \in Int /\ i * y \in Int
    BY <1>2, <1>5
  <2> QED BY <1>1, <1>2, <1>3, <2>1
<1>6. CASE k >= 4
  <2>1. i - v <= 1
    <3>1. ASSUME i - v >= 2 PROVE FALSE
      <4>1. (i - v - 2) * y >= 0 /\ (i - v - 2) * y = i * y - v * y - 2 * y
            /\ v * y \in Int /\ i * y \in Int
        BY <1>2, <3>1
      <4> QED BY <1>1, <1>2, <1>3, <1>4, <1>6, <4>1
    <3> QED BY <3>1
  <2> QED BY <1>5, <2>1
<1>7. CASE k = 0
  <2>1. y = 1
    BY <1>7 DEF y
  <2> QED BY <1>1, <1>3, <1>5, <2>1
<1>8. CASE k = 1
  <2>1. y = 2
    BY <1>8 DEF y
  <2> QED BY <1>1, <1>3, <1>5, <2>1
<1>9. CASE k = 2
  <2>1. y = 4
    BY <1>9 DEF y
  <2> QED BY <1>1, <1>3, <1>5, <2>1
<1>10. CASE k = 3
  <2>1. y = 8
    BY <1>10 DEF y
  <2> QED BY <1>1, <1>3, <1>5, <2>1
<1> QED BY <1>6, <1>7, <1>8, <1>9, <1>10

\* The reading of an inverse, and the quotient it stands for.
LEMMA AccurateOn ==
    ASSUME NEW m \in Nat, NEW e \in Nat, e < 16, NEW x \in Int, InDomain(16 * m + e, x)
    PROVE  LET i == Ideal(16 * m + e, x)
               v == fp_to_uint16(fp_inverse(16 * m + e, x))
           IN IF i >= 2^16 THEN v = Saturated
              ELSE v <= i /\ i - v <= i \div 2^11 + 1
<1> DEFINE s == m + 1
           p == 15 - e + x
           i == Ideal(16 * m + e, x)
           v == fp_to_uint16(fp_inverse(16 * m + e, x))
<1>1. m + 1 < 2^12
  BY DomainIs
<1>2. s \in Nat /\ 1 <= s /\ s < 2^12 /\ s > 0 /\ p \in Int
  BY <1>1
<1>3. PICK j \in 15..27 : Quotient(s, j)
  BY <1>2, DivideIsQuotient, Zenon
<1> DEFINE q == 2^j \div s
           exp == p + 15 - j
<1>4. v = Value(q, exp)
  <2>1. v = Value(q, Exponent(e, j, x))
    BY <1>1, <1>3, ReadIs, Zenon
  <2>2. Exponent(e, j, x) = 30 - e - j + x
    <3>1. -128 <= 30 - e - j + x /\ 30 - e - j + x <= 127
      BY <1>3, DomainIs
    <3> QED BY <3>1, ExponentIs
  <2>3. 30 - e - j + x = exp
    BY <1>1
  <2> QED BY <2>1, <2>2, <2>3, Zenon
<1>5. i = IF p < 0 THEN 0 ELSE IF p >= 28 THEN 2^16 ELSE 2^p \div s
  <2>1. fp_extract_sig(16 * m + e) \div 16 + 1 = s /\ fp_extract_exp(16 * m + e) = e
    BY FieldsOf
  <2> HIDE DEF s
  <2> QED BY <2>1, Zenon DEF Ideal
<1>6. Wide16(q) /\ 2^j \in Nat
  BY <1>2, <1>3, QuotientWide
<1>7. 32768 * s <= 2^j /\ 2^j < 65536 * s
  <2> HIDE DEF s
  <2> QED BY <1>3 DEF Quotient, Fits
<1> HIDE DEF s, p, i, v
<1>8. exp \in Int
  BY <1>2
<1>9. CASE p < 0
  <2>1. i = 0
    BY <1>5, <1>9, Zenon
  <2>2. exp < 0
    BY <1>2, <1>9
  <2>3. v = 0
    <3> HIDE DEF exp, q
    <3> QED BY <1>4, <1>8, <2>2, ValueIs, Zenon
  <2>4. ~(i >= 2^16) /\ v <= i /\ i - v <= i \div 2^11 + 1
    BY <2>1, <2>3
  <2> QED BY <2>4 DEF i, v
<1>10. CASE p >= 28
  <2>1. i = 2^16
    <3>1. ~(p < 0)
      BY <1>2, <1>10
    <3> QED BY <1>5, <1>10, <3>1, Zenon
  <2>2. exp > 15
    BY <1>2, <1>10
  <2>3. v = Saturated
    <3> HIDE DEF exp, q
    <3> QED BY <1>4, <1>8, <2>2, ValueIs, Zenon
  <2>4. i >= 2^16
    BY <2>1
  <2> QED BY <2>3, <2>4 DEF i, v
<1>11. CASE p \in 0..27
  <2>1. i = 2^p \div s
    <3>1. ~(p < 0) /\ ~(p >= 28)
      BY <1>11
    <3> QED BY <1>5, <3>1, Zenon
  <2>2. 2^p \in Nat
    <3>1. p \in 0..31
      BY <1>11
    <3> QED BY <3>1, Doubles
  <2> DEFINE d == 2^p
  <2>3. i \in Nat /\ i * s <= d /\ d < i * s + s
    <3> HIDE DEF d
    <3>1. i = d \div s /\ d \in Nat
      BY <2>1, <2>2 DEF d
    <3> QED BY <1>2, <3>1, DivIs, DivNat
  <2>4. CASE p > j
    <3>1. 2 * 2^j <= 2^p
      <4>1. j \in 0..31 /\ j + 1 \in 0..31 /\ p \in 0..31 /\ j + 1 <= p
        BY <1>11, <2>4
      <4>2. 2^(j + 1) <= 2^p
        BY <4>1, PowerMono, Zenon
      <4>3. 2^(j + 1) = 2 * 2^j
        BY <4>1, Doubles, Zenon
      <4> QED BY <4>2, <4>3, Zenon
    <3>2. 65536 * s <= d
      <4> DEFINE b == 2^j
      <4>1. b \in Nat /\ 32768 * s <= b /\ 2 * b <= d /\ d \in Nat
        BY <1>6, <1>7, <2>2, <3>1
      <4> HIDE DEF b, d
      <4> QED BY <1>2, <4>1
    <3>3. i >= 2^16
      <4>1. ASSUME i < 65536 PROVE FALSE
        <5>1. (65535 - i) * s >= 0 /\ (65535 - i) * s = 65535 * s - i * s /\ i * s \in Int
          BY <1>2, <2>3, <4>1
        <5>2. d \in Nat
          BY <2>2
        <5> HIDE DEF d
        <5> QED BY <1>2, <2>3, <3>2, <5>1, <5>2
      <4> QED BY <2>3, <4>1
    <3>4. exp > 15
      BY <1>2, <2>4
    <3>5. v = Saturated
      <4> HIDE DEF exp, q
      <4> QED BY <1>4, <1>8, <3>4, ValueIs, Zenon
    <3> QED BY <3>3, <3>5 DEF i, v
  <2>5. CASE p <= j
    <3>1. PICK k \in 0..27 : k = j - p
      BY <1>11, <2>5
    <3>2. 2^j = 2^p * 2^k
      <4>1. p \in Nat /\ k \in Nat /\ p + k <= 31 /\ p + k = j
        BY <1>11, <3>1
      <4> QED BY <4>1, PowerSum, Zenon
    <3> DEFINE y == 2^k
    <3>3. y \in Nat /\ y > 0
      <4>1. k \in 0..31
        OBVIOUS
      <4> QED BY <4>1, Doubles
    <3>4. q \div y = i
      <4>1. q \div y = 2^j \div (s * y)
        <5> DEFINE b == 2^j
        <5>1. b \in Nat /\ q = b \div s
          BY <1>6
        <5> HIDE DEF b, y, q
        <5>2. q \div y = b \div (s * y)
          BY <1>2, <3>3, <5>1, DivDiv
        <5> QED BY <5>2 DEF b
      <4>2. 2^j \div (s * y) = (d * y) \div (s * y)
        BY <3>2, Zenon
      <4>3. (d * y) \div (s * y) = d \div s
        <5>1. d \in Nat
          BY <2>2
        <5> HIDE DEF d, y
        <5> QED BY <1>2, <3>3, <5>1, DivCancel
      <4> HIDE DEF q
      <4> QED BY <2>1, <4>1, <4>2, <4>3, Zenon
    <3>5. q \in Nat /\ q < 2^16
      BY <1>6 DEF Wide16
    <3> HIDE DEF q, y
    <3>6. i * y <= q /\ q < i * y + y
      <4>1. (q \div y) * y <= q /\ q < (q \div y) * y + y
        BY <3>3, <3>5, DivIs
      <4> QED BY <3>4, <4>1, Zenon
    <3>7. i < 65536
      <4> HIDE DEF d
      <4>1. i <= q
        <5>1. i * (y - 1) >= 0 /\ i * (y - 1) = i * y - i /\ i * y \in Int
          BY <2>3, <3>3
        <5> QED BY <2>3, <3>5, <3>6, <5>1
      <4> QED BY <2>3, <3>5, <4>1
    <3>8. CASE exp < 0
      <4>1. v = 0
        <5> HIDE DEF exp
        <5> QED BY <1>4, <1>8, <3>8, ValueIs, Zenon
      <4>2. y >= 65536
        <5>1. k \in 0..31 /\ 16 \in 0..31 /\ 16 <= k
          BY <1>2, <3>1, <3>8
        <5>2. 2^16 <= 2^k
          BY <5>1, PowerMono
        <5> QED BY <5>2 DEF y
      <4>3. i = 0
        <5>1. ASSUME i >= 1 PROVE FALSE
          <6>1. (i - 1) * y >= 0 /\ (i - 1) * y = i * y - y /\ i * y \in Int
            BY <2>3, <3>3, <5>1
          <6> QED BY <3>3, <3>5, <3>6, <4>2, <6>1
        <5> QED BY <2>3, <5>1
      <4>4. ~(i >= 2^16) /\ v <= i /\ i - v <= i \div 2^11 + 1
        BY <4>1, <4>3
      <4> QED BY <4>4 DEF i, v
    <3>9. CASE exp >= 0
      <4>1. k \in 0..15 /\ k = 15 - exp
        BY <1>2, <3>1, <3>9
      <4>2. v = MantissaOf(q) \div y
        <5> HIDE DEF exp
        <5> QED BY <1>4, <1>8, <4>1, ValueIs, Zenon DEF y
      <4>3. v \in Nat /\ v * y <= MantissaOf(q) /\ MantissaOf(q) < v * y + y
        <5> DEFINE a == MantissaOf(q)
        <5>1. a \in Nat /\ v = a \div y
          BY <1>6, <4>2, MantissaWide
        <5> HIDE DEF a
        <5>2. v \in Nat /\ v * y <= a /\ a < v * y + y
          BY <3>3, <5>1, DivIs, DivNat
        <5> QED BY <5>2 DEF a
      <4>4. v <= i /\ i - v <= i \div 2^11 + 1
        BY <1>6, <2>3, <3>6, <4>1, <4>3, CutOff DEF y
      <4>5. ~(i >= 2^16)
        BY <2>3, <3>7
      <4> QED BY <4>4, <4>5 DEF i, v
    <3> QED BY <1>8, <3>8, <3>9
  <2> QED BY <1>2, <2>4, <2>5
<1> QED BY <1>2, <1>9, <1>10, <1>11

--------------------------------------------------------------------------------
\* The line of the serial build (picofmt.c:15-72, serial_main.c:68-74).

\* A hexadecimal digit stands for the lowest four bits of what it was made from.
LEMMA DigitIs ==
    ASSUME NEW n \in Nat
    PROVE  /\ to_hex_char(n) \in Nat
           /\ to_hex_char(n) \in (48..57) \cup (65..70)
           /\ DigitValue(to_hex_char(n)) = n % 16
<1>1. n % 16 \in 0..15
  OBVIOUS
<1> DEFINE d == n % 16
<1>2. to_hex_char(n) = IF d >= 10 THEN d + 55 ELSE d + 48
  BY <1>1 DEF to_hex_char
<1> HIDE DEF d
<1>3. d \in Nat /\ d <= 15
  BY <1>1 DEF d
<1>4. DigitValue(to_hex_char(n)) = d
  BY <1>2, <1>3 DEF DigitValue
<1> QED BY <1>2, <1>3, <1>4 DEF d

\* The four digits of a word.
Digits(w) == fmt_hex_byte(w \div 256) \o fmt_hex_byte(w % 256)

\* They are hexadecimal digits and read back as the word.
LEMMA DigitsAre ==
    ASSUME NEW w \in Nat, w < 2^16
    PROVE  /\ Digits(w) \in Seq(Nat) /\ Len(Digits(w)) = 4
           /\ \A k \in 1..4 : Digits(w)[k] \in (48..57) \cup (65..70)
           /\ WordAt(Digits(w), 1) = w
<1> DEFINE h == w \div 256
           l == w % 256
<1>1. h \in Nat /\ l \in Nat /\ l < 256 /\ w = 256 * h + l /\ h < 256
  OBVIOUS
<1>2. Digits(w) = <<to_hex_char(h \div 16), to_hex_char(h)>>
                    \o <<to_hex_char(l \div 16), to_hex_char(l)>>
  BY DEF Digits, fmt_hex_byte
<1> HIDE DEF h, l
<1> DEFINE a == to_hex_char(h \div 16)
           b == to_hex_char(h)
           c == to_hex_char(l \div 16)
           d == to_hex_char(l)
<1>3. h \div 16 \in Nat /\ l \div 16 \in Nat
  BY <1>1
<1>4. /\ a \in Nat /\ a \in (48..57) \cup (65..70) /\ DigitValue(a) = (h \div 16) % 16
      /\ b \in Nat /\ b \in (48..57) \cup (65..70) /\ DigitValue(b) = h % 16
      /\ c \in Nat /\ c \in (48..57) \cup (65..70) /\ DigitValue(c) = (l \div 16) % 16
      /\ d \in Nat /\ d \in (48..57) \cup (65..70) /\ DigitValue(d) = l % 16
  BY <1>1, <1>3, DigitIs
<1> HIDE DEF a, b, c, d
<1>5. Digits(w) = <<a, b>> \o <<c, d>>
  BY <1>2 DEF a, b, c, d
<1>6. <<a, b>> \in Seq(Nat) /\ <<c, d>> \in Seq(Nat) /\ Len(<<a, b>>) = 2 /\ Len(<<c, d>>) = 2
  BY <1>4
<1> DEFINE t == Digits(w)
<1>7. /\ t \in Seq(Nat) /\ Len(t) = 4
      /\ \A k \in 1..4 : t[k] = IF k <= 2 THEN <<a, b>>[k] ELSE <<c, d>>[k - 2]
  <2> HIDE DEF t
  <2>1. t = <<a, b>> \o <<c, d>>
    BY <1>5 DEF t
  <2>2. /\ t \in Seq(Nat) /\ Len(t) = 2 + 2
        /\ \A k \in 1..2 + 2 : t[k] = IF k <= 2 THEN <<a, b>>[k] ELSE <<c, d>>[k - 2]
    BY <1>6, <2>1, ConcatProperties
  <2> QED BY <2>2
<1> HIDE DEF t
<1>7a. t[1] = a /\ t[2] = b /\ t[3] = c /\ t[4] = d
  BY <1>7
<1>8. WordAt(t, 1) = 4096 * DigitValue(a) + 256 * DigitValue(b)
                       + 16 * DigitValue(c) + DigitValue(d)
  BY <1>7a DEF WordAt
<1>9. 4096 * ((h \div 16) % 16) + 256 * (h % 16) + 16 * ((l \div 16) % 16) + (l % 16) = w
  BY <1>1
<1>10. WordAt(t, 1) = w
  BY <1>4, <1>8, <1>9
<1>11. \A k \in 1..4 : t[k] \in (48..57) \cup (65..70)
  BY <1>4, <1>7a
<1> QED BY <1>7, <1>10, <1>11 DEF t

\* The types of a text in the making and of the arguments.
Formatted == [text: Seq(Nat), escaped: BOOLEAN]
Arguments == [0..PICO_MAX_ARGS - 1 -> {w \in Nat : w < 2^16}]

\* One character keeps the types.
LEMMA PutType ==
    ASSUME NEW o \in Formatted, NEW args \in Arguments, NEW ch \in Nat
    PROVE  Put(o, args, ch) \in Formatted
<1>1. Substitute(args, ch) \in Seq(Nat)
  <2>1. CASE ch - 48 \in 0..PICO_MAX_ARGS - 1
    <3>1. args[ch - 48] \in Nat /\ args[ch - 48] < 2^16
      BY <2>1 DEF Arguments
    <3>2. Digits(args[ch - 48]) \in Seq(Nat)
      BY <3>1, DigitsAre
    <3> QED BY <2>1, <3>2 DEF Substitute, Digits
  <2>2. CASE ~(ch - 48 \in 0..PICO_MAX_ARGS - 1)
    BY <2>2 DEF Substitute
  <2> QED BY <2>1, <2>2
<1>2. o.text \in Seq(Nat) /\ o.escaped \in BOOLEAN
  BY DEF Formatted
<1>3. CASE o.escaped
  <2>1. Put(o, args, ch) = [text |-> o.text \o Substitute(args, ch), escaped |-> FALSE]
    BY <1>3 DEF Put
  <2>2. o.text \o Substitute(args, ch) \in Seq(Nat)
    BY <1>1, <1>2, ConcatProperties
  <2> QED BY <2>1, <2>2 DEF Formatted
<1>4. CASE ~o.escaped /\ ch = Dollar
  <2>1. Put(o, args, ch) = [o EXCEPT !.escaped = TRUE]
    BY <1>4 DEF Put
  <2> QED BY <2>1 DEF Formatted
<1>5. CASE ~o.escaped /\ ch # Dollar
  <2>1. Put(o, args, ch) = [o EXCEPT !.text = Append(@, ch)]
    BY <1>5 DEF Put
  <2>2. Append(o.text, ch) \in Seq(Nat)
    BY <1>2, AppendProperties
  <2> QED BY <2>1, <2>2 DEF Formatted
<1> QED BY <1>2, <1>3, <1>4, <1>5

\* A text after some characters, and before the first.
Output(t, escaped) == [text |-> t, escaped |-> escaped]
Blank == Output(<<>>, FALSE)

\* out holds what pfmt_outln has put out before each of the N characters of fmt.
PutsOut(out, fmt, args, N) ==
    /\ pfmt_outln(fmt, args) = out[N].text \o <<13, 10>>
    /\ out \in [0..N -> Formatted] /\ out[0] = Blank
    /\ \A i \in 1..N : out[i] = Put(out[i - 1], args, fmt[i])

\* The loop of pfmt_outln: the characters of the format, one Put each.
LEMMA FormatLoop ==
    ASSUME NEW fmt \in Seq(Nat), NEW N, N = Len(fmt), NEW args \in Arguments
    PROVE  \E out : PutsOut(out, fmt, args, N)
<1> DEFINE Body(g) == [i \in 0..N |->
                          IF i = 0 THEN [text |-> <<>>, escaped |-> FALSE]
                          ELSE Put(g[i - 1], args, fmt[i])]
           D == CHOOSE g : g = Body(g)
           F == [i \in 1..N |-> [o \in Formatted |-> Put(o, args, fmt[i])]]
<1>1. N \in Nat /\ \A i \in 1..N : fmt[i] \in Nat
  BY LenProperties
<1>2. pfmt_outln(fmt, args) = D[N].text \o <<13, 10>>
  BY DEF pfmt_outln
<1>2a. Blank \in Formatted
  BY DEF Blank, Output, Formatted
<1>3. PICK g : Iterates(g, Blank, F, N, Formatted)
  <2>2. F \in [1..N -> [Formatted -> Formatted]]
    BY <1>1, PutType
  <2> HIDE DEF F
  <2> QED BY <1>1, <1>2a, <2>2, Recursion, Zenon
<1>4. /\ g \in [0..N -> Formatted] /\ g[0] = Blank
      /\ \A i \in 1..N : g[i] = F[i][g[i - 1]]
  <2> HIDE DEF F
  <2> QED BY <1>3 DEF Iterates
<1>5. g = Body(g)
  <2>1. ASSUME NEW i \in 1..N
        PROVE  g[i] = Put(g[i - 1], args, fmt[i])
    <3>1. i - 1 \in 0..N
      BY <1>1
    <3>2. g[i - 1] \in Formatted
      BY <1>4, <3>1
    <3> QED BY <1>4, <3>2
  <2>2. \A i \in 0..N : g[i] = IF i = 0 THEN Blank ELSE Put(g[i - 1], args, fmt[i])
    <3>1. \A i \in 0..N : i # 0 => i \in 1..N
      BY <1>1
    <3> HIDE DEF F
    <3> QED BY <1>4, <2>1, <3>1
  <2> QED BY <1>4, <2>2 DEF Blank, Output
<1>6. D = Body(D)
  BY <1>5
<1>7. \A i \in 0..N : D[i] = IF i = 0 THEN Blank ELSE Put(D[i - 1], args, fmt[i])
  <2> HIDE DEF D
  <2> QED BY <1>6 DEF Blank, Output
<1>8. D = [i \in 0..N |-> D[i]]
  <2> HIDE DEF D
  <2> QED BY <1>6
<1> HIDE DEF D
<1>9. \A i \in 0..N : D[i] \in Formatted
  <2> DEFINE P == {i \in 0..N : D[i] \in Formatted}
  <2>1. 0 \in P
    BY <1>1, <1>2a, <1>7
  <2>2. \A i \in 1..N : i - 1 \in P => i \in P
    BY <1>1, <1>7, PutType
  <2>3. \A i \in 0..N : i \in P
    <3> HIDE DEF P
    <3> QED BY <1>1, <2>1, <2>2, Upward
  <2> QED BY <2>3
<1>10. D \in [0..N -> Formatted]
  BY <1>8, <1>9
<1>11. D[0] = Blank /\ \A i \in 1..N : D[i] = Put(D[i - 1], args, fmt[i])
  BY <1>1, <1>7
<1>12. PutsOut(D, fmt, args, N)
  BY <1>2, <1>10, <1>11, Zenon DEF PutsOut
<1> QED BY <1>12

\* The two words of a number with the significand a, shifted down by k places.
LEMMA WordsAre ==
    ASSUME NEW g, NEW a, NEW k, fp_extract_sig(g) = a,
           FP16_EXPONENT_MAX - fp_extract_exp(g) = k
    PROVE  fp_to_uint32(g) = <<a \div 2^k, (a % 2^k) * (65536 \div 2^k)>>
BY DEF fp_to_uint32

\* The words of a number are words.
LEMMA WordsOf ==
    ASSUME NEW m \in Nat, m < 2^12, NEW e \in Nat, e < 16
    PROVE  LET w == fp_to_uint32(16 * m + e)
               places == 2^(15 - e)
           IN /\ w[1] \in Nat /\ w[1] < 2^16 /\ w[2] \in Nat /\ w[2] < 2^16
              /\ w[1] = fp_to_uint16(16 * m + e)
              /\ w[2] = (16 * m - places * w[1]) * (65536 \div places)
<1> DEFINE w == fp_to_uint32(16 * m + e)
           y == 2^(15 - e)
           a == 16 * m
           u == a \div y
           r == a % y
           z == 65536 \div y
<1>1. w = <<u, r * z>>
  <2>1. fp_extract_sig(16 * m + e) = a /\ FP16_EXPONENT_MAX - fp_extract_exp(16 * m + e) = 15 - e
    BY FieldsOf DEF FP16_EXPONENT_MAX
  <2> HIDE DEF a
  <2> QED BY <2>1, WordsAre
<1>2. y \in Nat /\ y > 0
  <2>1. 15 - e \in 0..31
    OBVIOUS
  <2> QED BY <2>1, Doubles
<1>3. fp_to_uint16(16 * m + e) = u
  <2>1. fp_to_uint16(16 * m + e) = ShiftRight(16 * m, 15 - e)
    BY FieldsOf DEF fp_to_uint16, FP16_EXPONENT_MAX
  <2>2. 15 - e \in Int /\ 15 - e < 16
    OBVIOUS
  <2> QED BY <2>1, <2>2, ShiftIs, Zenon
<1>4. a \in Nat /\ a < 65536
  OBVIOUS
<1> HIDE DEF w, y, a
<1>5. u \in Nat /\ u * y <= a /\ a < u * y + y
  BY <1>2, <1>4, DivIs, DivNat
<1>6. r \in Nat /\ r < y /\ a = y * u + r
  BY <1>2, <1>4
<1>7. z \in Nat /\ z * y <= 65536
  <2>1. 65536 \in Nat
    OBVIOUS
  <2> QED BY <1>2, <2>1, DivIs, DivNat
<1> HIDE DEF u, r, z
<1>8. u < 65536
  <2>1. u * (y - 1) >= 0 /\ u * (y - 1) = u * y - u /\ u * y \in Int
    BY <1>2, <1>5
  <2> QED BY <1>4, <1>5, <2>1
<1>9. r * z \in Nat /\ r * z < 65536
  <2>1. (y - 1 - r) * z >= 0 /\ (y - 1 - r) * z = z * y - z - r * z
        /\ z * y \in Int /\ r * z \in Nat
    BY <1>2, <1>6, <1>7
  <2>2. z = 0 => r * z = 0
    BY <1>6
  <2> QED BY <1>7, <2>1, <2>2
<1>10. a - y * u = r
  <2>1. y * u \in Int
    BY <1>2, <1>5
  <2> QED BY <1>6, <2>1
<1>11. w[1] = u /\ w[2] = r * z
  BY <1>1
<1>12. /\ w[1] \in Nat /\ w[1] < 2^16 /\ w[2] \in Nat /\ w[2] < 2^16
       /\ w[1] = fp_to_uint16(16 * m + e)
       /\ w[2] = (a - y * w[1]) * z
  BY <1>3, <1>5, <1>8, <1>9, <1>10, <1>11
<1> QED BY <1>12 DEF w, y, a, z

\* What a '$' does.
LEMMA PutDollar ==
    ASSUME NEW t \in Seq(Nat), NEW args
    PROVE  Put(Output(t, FALSE), args, Dollar) = Output(t, TRUE)
<1> DEFINE o == Output(t, FALSE)
           p == Output(t, TRUE)
<1>1. o.escaped = FALSE
  BY DEF Output
<1>2. [o EXCEPT !.escaped = TRUE] = p
  <2>1. o \in Formatted /\ p \in Formatted /\ [o EXCEPT !.escaped = TRUE] \in Formatted
    BY DEF Formatted, Output
  <2>2. [o EXCEPT !.escaped = TRUE].text = t /\ [o EXCEPT !.escaped = TRUE].escaped = TRUE
        /\ p.text = t /\ p.escaped = TRUE
    BY <2>1 DEF Formatted, Output
  <2>3. \A r, q \in Formatted : r.text = q.text /\ r.escaped = q.escaped => r = q
    BY DEF Formatted
  <2> QED BY <2>1, <2>2, <2>3
<1> HIDE DEF o, p
<1>3. Put(o, args, Dollar) = p
  BY <1>1, <1>2 DEF Put
<1> QED BY <1>3 DEF o, p

\* What the character after it does.
LEMMA PutEscaped ==
    ASSUME NEW t, NEW args, NEW ch, NEW d, d = Substitute(args, ch)
    PROVE  Put(Output(t, TRUE), args, ch) = Output(t \o d, FALSE)
<1> DEFINE p == Output(t, TRUE)
<1>1. p.escaped = TRUE /\ p.text = t
  BY DEF Output
<1> HIDE DEF p
<1>2. Put(p, args, ch) = [text |-> t \o d, escaped |-> FALSE]
  BY <1>1 DEF Put
<1> QED BY <1>2 DEF p, Output

\* $0 to $3 print a word.
LEMMA SubstituteIs ==
    ASSUME NEW args, NEW ch \in Int, NEW k \in 0..3, ch - 48 = k
    PROVE  Substitute(args, ch) = Digits(args[k])
<1>1. ch - 48 \in 0..PICO_MAX_ARGS - 1
  BY DEF PICO_MAX_ARGS
<1> QED BY <1>1 DEF Substitute, Digits

\* The line of a number, as the digits of its two words and the end of the line.
LEMMA LineIs ==
    ASSUME NEW u \in Nat, u < 2^16, NEW v \in Nat, v < 2^16,
           NEW args \in Arguments, args[0] = u, args[1] = v
    PROVE  pfmt_outln(LightFormat, args) = (Digits(u) \o Digits(v)) \o <<13, 10>>
<1>1. LightFormat \in Seq(Nat) /\ 4 = Len(LightFormat)
      /\ LightFormat[1] = Dollar /\ LightFormat[2] = 48
      /\ LightFormat[3] = Dollar /\ LightFormat[4] = 49
  BY DEF LightFormat, Dollar
<1>2. PICK out : PutsOut(out, LightFormat, args, 4)
  BY <1>1, FormatLoop
<1>3. /\ out[0] = Blank
      /\ out[1] = Put(out[0], args, Dollar) /\ out[2] = Put(out[1], args, 48)
      /\ out[3] = Put(out[2], args, Dollar) /\ out[4] = Put(out[3], args, 49)
      /\ pfmt_outln(LightFormat, args) = out[4].text \o <<13, 10>>
  BY <1>1, <1>2 DEF PutsOut
<1>4. Substitute(args, 48) = Digits(u) /\ Substitute(args, 49) = Digits(v)
  BY SubstituteIs
<1>5. Digits(u) \in Seq(Nat) /\ Digits(v) \in Seq(Nat)
  BY DigitsAre
<1>6. out[1] = Output(<<>>, TRUE)
  <2>1. <<>> \in Seq(Nat)
    OBVIOUS
  <2> QED BY <1>3, <2>1, PutDollar, Zenon DEF Blank
<1>7. out[2] = Output(Digits(u), FALSE)
  <2>1. <<>> \o Digits(u) = Digits(u)
    BY <1>5, ConcatEmptySeq
  <2>2. Put(Output(<<>>, TRUE), args, 48) = Output(<<>> \o Digits(u), FALSE)
    BY <1>4, PutEscaped
  <2> QED BY <1>3, <1>6, <2>1, <2>2, Zenon
<1>8. out[3] = Output(Digits(u), TRUE)
  BY <1>3, <1>5, <1>7, PutDollar, Zenon
<1>9. out[4] = Output(Digits(u) \o Digits(v), FALSE)
  <2> DEFINE d == Digits(v)
             t == Digits(u)
  <2>1. Put(Output(t, TRUE), args, 49) = Output(t \o d, FALSE)
    <3>1. d = Substitute(args, 49)
      BY <1>4
    <3> HIDE DEF d, t
    <3> QED BY <3>1, PutEscaped
  <2> QED BY <1>3, <1>8, <2>1, Zenon
<1>10. out[4].text = Digits(u) \o Digits(v)
  BY <1>9 DEF Output
<1> QED BY <1>3, <1>10

\* Two words of four characters with two more after them.
Joined(t, a, b) ==
    /\ Len(t) = 10
    /\ t[1] = a[1] /\ t[2] = a[2] /\ t[3] = a[3] /\ t[4] = a[4]
    /\ t[5] = b[1] /\ t[6] = b[2] /\ t[7] = b[3] /\ t[8] = b[4]

\* A text of two words and the end of the line is such a text.
LEMMA JoinedIs ==
    ASSUME NEW a \in Seq(Nat), Len(a) = 4, NEW b \in Seq(Nat), Len(b) = 4,
           NEW c \in Seq(Nat), Len(c) = 2
    PROVE  Joined((a \o b) \o c, a, b)
<1> DEFINE d == a \o b
           t == d \o c
<1>1. /\ d \in Seq(Nat) /\ Len(d) = Len(a) + Len(b)
      /\ \A k \in 1..Len(a) + Len(b) : d[k] = IF k <= Len(a) THEN a[k] ELSE b[k - Len(a)]
  BY ConcatProperties
<1> HIDE DEF d
<1>2. /\ t \in Seq(Nat) /\ Len(t) = Len(d) + Len(c)
      /\ \A k \in 1..Len(d) + Len(c) : t[k] = IF k <= Len(d) THEN d[k] ELSE c[k - Len(d)]
  <2>1. d \in Seq(Nat)
    BY <1>1
  <2> QED BY <2>1, ConcatProperties, Zenon
<1> HIDE DEF t
<1>3. Len(d) = 8 /\ \A k \in 1..8 : d[k] = IF k <= 4 THEN a[k] ELSE b[k - 4]
  BY <1>1
<1>4. Len(t) = 10 /\ \A k \in 1..10 : t[k] = IF k <= 8 THEN d[k] ELSE c[k - 8]
  BY <1>2, <1>3
<1>5. \A k \in 1..8 : t[k] = d[k]
  BY <1>4
<1>6. Joined(t, a, b)
  BY <1>3, <1>4, <1>5 DEF Joined
<1> QED BY <1>6 DEF d, t

\* The text of two words and the end of the line, read back.
ReadsAs(t, u, v) ==
    /\ Len(t) = 10 /\ \A k \in 1..8 : t[k] \in (48..57) \cup (65..70)
    /\ WordAt(t, 1) = u /\ WordAt(t, 5) = v

\* The digits of two words read back as the words.
LEMMA TextIs ==
    ASSUME NEW u \in Nat, u < 2^16, NEW v \in Nat, v < 2^16
    PROVE  ReadsAs((Digits(u) \o Digits(v)) \o <<13, 10>>, u, v)
<1> DEFINE a == Digits(u)
           b == Digits(v)
           c == <<13, 10>>
           t == (a \o b) \o c
<1>1. /\ a \in Seq(Nat) /\ Len(a) = 4 /\ WordAt(a, 1) = u
      /\ b \in Seq(Nat) /\ Len(b) = 4 /\ WordAt(b, 1) = v
      /\ \A k \in 1..4 : a[k] \in (48..57) \cup (65..70) /\ b[k] \in (48..57) \cup (65..70)
  BY DigitsAre
<1>2. c \in Seq(Nat) /\ Len(c) = 2
  OBVIOUS
<1> HIDE DEF a, b, c
<1>3. Joined(t, a, b)
  BY <1>1, <1>2, JoinedIs
<1> HIDE DEF t
<1>4. \A k \in 1..8 : t[k] \in (48..57) \cup (65..70)
  <2>1. \A k \in 1..8 : k \in {1, 2, 3, 4, 5, 6, 7, 8}
    OBVIOUS
  <2>2. /\ a[1] \in (48..57) \cup (65..70) /\ a[2] \in (48..57) \cup (65..70)
        /\ a[3] \in (48..57) \cup (65..70) /\ a[4] \in (48..57) \cup (65..70)
        /\ b[1] \in (48..57) \cup (65..70) /\ b[2] \in (48..57) \cup (65..70)
        /\ b[3] \in (48..57) \cup (65..70) /\ b[4] \in (48..57) \cup (65..70)
    BY <1>1
  <2> QED BY <1>3, <2>1, <2>2 DEF Joined
<1>5. WordAt(t, 1) = WordAt(a, 1) /\ WordAt(t, 5) = WordAt(b, 1)
  BY <1>3 DEF WordAt, Joined
<1>6. ReadsAs(t, u, v)
  BY <1>1, <1>3, <1>4, <1>5 DEF ReadsAs, Joined
<1> QED BY <1>6 DEF a, b, c, t

\* The line of a number reads back as its value.
LEMMA LineExactOn ==
    ASSUME NEW m \in Nat, m < 2^12, NEW e \in Nat, e < 16
    PROVE  LET text == LightLine(16 * m + e, 65535)
               places == 2^(15 - e)
               whole == fp_to_uint16(16 * m + e)
           IN /\ Len(text) = 10 /\ \A k \in 1..8 : text[k] \in (48..57) \cup (65..70)
              /\ WordAt(text, 1) = whole
              /\ WordAt(text, 5) = (16 * m - places * whole) * (65536 \div places)
<1> DEFINE w == fp_to_uint32(16 * m + e)
           text == LightLine(16 * m + e, 65535)
           args == [k \in 0..PICO_MAX_ARGS - 1 |-> IF k < 2 THEN w[k + 1] ELSE 65535]
<1>1. text = pfmt_outln(LightFormat, args)
  BY DEF LightLine
<1>2. /\ w[1] \in Nat /\ w[1] < 2^16 /\ w[2] \in Nat /\ w[2] < 2^16
      /\ w[1] = fp_to_uint16(16 * m + e)
      /\ w[2] = (16 * m - 2^(15 - e) * w[1]) * (65536 \div 2^(15 - e))
  BY WordsOf
<1> DEFINE u == w[1]
           v == w[2]
<1> HIDE DEF w
<1>3. args[0] = u /\ args[1] = v /\ args[2] = 65535 /\ args[3] = 65535
  BY DEF PICO_MAX_ARGS
<1>4. args \in Arguments
  <2>1. \A k \in 0..3 : (IF k < 2 THEN w[k + 1] ELSE 65535) \in {n \in Nat : n < 2^16}
    BY <1>2
  <2> QED BY <2>1 DEF Arguments, PICO_MAX_ARGS
<1> HIDE DEF text, args, u, v
<1>5. u \in Nat /\ u < 2^16 /\ v \in Nat /\ v < 2^16
  BY <1>2 DEF u, v
<1>6. text = (Digits(u) \o Digits(v)) \o <<13, 10>>
  <2>1. pfmt_outln(LightFormat, args) = (Digits(u) \o Digits(v)) \o <<13, 10>>
    BY <1>3, <1>4, <1>5, LineIs
  <2> QED BY <1>1, <2>1, Zenon
<1>7. /\ Len(text) = 10 /\ \A k \in 1..8 : text[k] \in (48..57) \cup (65..70)
      /\ WordAt(text, 1) = u /\ WordAt(text, 5) = v
  <2>1. ReadsAs(text, u, v)
    BY <1>5, <1>6, TextIs
  <2> QED BY <2>1 DEF ReadsAs
<1> QED BY <1>2, <1>7 DEF text, u, v

--------------------------------------------------------------------------------
\* The theorems.

\* The type of the number that has been reached.
Number == f \in Nat /\ f < 2^16 /\ extra_shift \in Int

\* The exponent never leaves its field.
LEMMA NumberInvariant == Spec => []Number
<1>1. Init => Number
  <2> SUFFICES ASSUME Init PROVE Number
    OBVIOUS
  <2>1. PICK m \in 0..4095 : f = 16 * m
    BY DEF Init
  <2>2. extra_shift \in Int
    BY ShiftsAssumption DEF Init
  <2> QED BY <2>1, <2>2 DEF Number
<1>2. Number /\ [NextExponent]_<<f, extra_shift>> => Number'
  <2> SUFFICES ASSUME Number, NextExponent PROVE Number'
    BY DEF Number
  <2>1. f % 16 < 15 /\ f \in Nat /\ f < 65536 /\ f' = f + 1
    BY DEF Number, NextExponent, fp_extract_exp, FP16_EXPONENT_MAX
  <2>2. f' \in Nat /\ f' < 65536
    BY <2>1
  <2> QED BY <2>2 DEF Number, NextExponent
<1> QED BY <1>1, <1>2, PTL DEF Spec

\* What is read out of fp_inverse is the quotient it stands for, to 12 significant bits, or the
\* largest number when that does not fit, for every number and shift with which neither the
\* divisor nor the exponent wraps (fplib.c:18-69).
THEOREM AccurateInverse == Spec => []InverseAccurate
<1>1. Number => InverseAccurate
  <2> SUFFICES ASSUME Number PROVE InverseAccurate
    OBVIOUS
  <2>1. PICK m, e \in Nat : m < 2^12 /\ e < 16 /\ f = 16 * m + e
    BY Fields DEF Number
  <2> SUFFICES ASSUME InDomain(f, extra_shift)
               PROVE  LET i == Ideal(f, extra_shift)
                          v == fp_to_uint16(fp_inverse(f, extra_shift))
                      IN IF i >= 2^16 THEN v = Saturated
                         ELSE v <= i /\ i - v <= i \div 2^11 + 1
    BY DEF InverseAccurate, Read
  <2>2. InDomain(16 * m + e, extra_shift) /\ extra_shift \in Int
    BY <2>1, Zenon DEF Number
  <2> QED BY <2>1, <2>2, AccurateOn
<1> QED BY <1>1, NumberInvariant, PTL

\* A larger significand never reads as more light, for every shift with which the exponents of
\* the two numbers do not wrap (fplib.c:18-69).
THEOREM MonotoneInverse == Spec => []InverseMonotone
<1>1. Number => InverseMonotone
  <2> SUFFICES ASSUME Number, InDomain(f, extra_shift), InDomain(f + 16, extra_shift)
               PROVE  fp_to_uint16(fp_inverse(f + 16, extra_shift))
                        <= fp_to_uint16(fp_inverse(f, extra_shift))
    BY DEF InverseMonotone, Read
  <2>1. PICK m, e \in Nat : m < 2^12 /\ e < 16 /\ f = 16 * m + e
    BY Fields DEF Number
  <2>2. f + 16 = 16 * (m + 1) + e
    BY <2>1
  <2>3. /\ InDomain(16 * m + e, extra_shift) /\ InDomain(16 * (m + 1) + e, extra_shift)
        /\ extra_shift \in Int
    BY <2>1, <2>2, Zenon DEF Number
  <2> QED BY <2>1, <2>2, <2>3, MonotoneOn
<1> QED BY <1>1, NumberInvariant, PTL

\* Doubling by the exponent and by the significand are the same to the inverse, whatever the
\* shift, even one that wraps the exponent (fplib.c:18-69).
THEOREM ScaledInverse == Spec => []InverseScales
<1>1. Number => InverseScales
  <2> SUFFICES ASSUME Number PROVE InverseScales
    OBVIOUS
  <2>1. PICK m, e \in Nat : m < 2^12 /\ e < 16 /\ f = 16 * m + e
    BY Fields DEF Number
  <2>2. fp_extract_sig(f) = 16 * m /\ fp_extract_exp(f) = e
    BY <2>1, FieldsOf
  <2> SUFFICES ASSUME 2 * (16 * m) + 16 < 65520, e < 15
               PROVE  fp_to_uint16(fp_inverse(fp_compose(2 * (16 * m) + 16, e), extra_shift))
                        = fp_to_uint16(fp_inverse(fp_compose(16 * m, e + 1), extra_shift))
    BY <2>2 DEF InverseScales, Read, FP16_MANTISSA_MIN, FP16_MANTISSA_MAX, FP16_EXPONENT_MAX
  <2>3. fp_compose(2 * (16 * m) + 16, e) = 16 * (2 * m + 1) + e
    BY <2>1 DEF fp_compose, MantissaOf
  <2>4. fp_compose(16 * m, e + 1) = 16 * m + (e + 1)
    BY <2>1 DEF fp_compose, MantissaOf
  <2>5. 2 * m + 2 < 2^12 /\ e < 15 /\ extra_shift \in Int
    BY DEF Number
  <2> QED BY <2>1, <2>3, <2>4, <2>5, ScalesOn
<1> QED BY <1>1, NumberInvariant, PTL

\* The line of the serial build reads back as the exact value of the number it prints
\* (picofmt.c:15-72, serial_main.c:68-74).
THEOREM ExactLine == Spec => []LightLineExact
<1>1. Number => LightLineExact
  <2> SUFFICES ASSUME Number PROVE LightLineExact
    OBVIOUS
  <2>1. PICK m, e \in Nat : m < 2^12 /\ e < 16 /\ f = 16 * m + e
    BY Fields DEF Number
  <2>2. fp_extract_sig(f) = 16 * m /\ FP16_EXPONENT_MAX - fp_extract_exp(f) = 15 - e
    BY <2>1, FieldsOf DEF FP16_EXPONENT_MAX
  <2> QED BY <2>1, <2>2, LineExactOn DEF LightLineExact
<1> QED BY <1>1, NumberInvariant, PTL
================================================================================
