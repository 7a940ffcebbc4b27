------------------------------ MODULE Arithmetic ------------------------------
(***************************************************************************)
(* Facts about quotients and powers of two, and the two uses of            *)
(* well-foundedness that stand in for an induction: a nonempty set of      *)
(* natural numbers has a least element, and a function given by its first  *)
(* value and its steps exists.                                             *)
(***************************************************************************)
EXTENDS Integers, TLAPS, WellFoundedInduction

\* A set of natural numbers that has one has a least one.
LEMMA Least ==
    ASSUME NEW T, T \subseteq Nat, T # {}
    PROVE  \E x \in T : \A y \in T : x <= y
<1> DEFINE R == OpToRel(<, Nat)
<1>1. IsWellFoundedOn(R, Nat)
  BY NatLessThanWellFounded
<1>2. \A x, y \in Nat : <<y, x>> \in R <=> y < x
  BY DEF OpToRel
<1> HIDE DEF R
<1>3. PICK x \in T : \A y \in T : ~(<<y, x>> \in R)
  BY <1>1, WFMin
<1>4. ASSUME NEW y \in T
      PROVE  x <= y
  <2>1. x \in Nat /\ y \in Nat
    OBVIOUS
  <2>2. ~(y < x)
    BY <1>2, <1>3, <2>1, Zenon
  <2> QED BY <2>1, <2>2
<1> QED BY <1>4

\* Induction up to N over a set.
LEMMA Upward ==
    ASSUME NEW N \in Nat, NEW P, 0 \in P, \A n \in 1..N : n - 1 \in P => n \in P
    PROVE  \A n \in 0..N : n \in P
<1> DEFINE Missing == {n \in 0..N : n \notin P}
<1>1. ASSUME Missing # {} PROVE FALSE
  <2>1. Missing \subseteq Nat
    OBVIOUS
  <2>2. PICK m \in Missing : \A n \in Missing : m <= n
    <3> HIDE DEF Missing
    <3> QED BY <1>1, <2>1, Least
  <2>3. m \in 1..N
    BY <2>2
  <2>4. m - 1 \in P
    BY <2>2, <2>3
  <2> QED BY <2>2, <2>3, <2>4
<1> QED BY <1>1

\* g starts with c, and F makes each of its values from the one before.
Iterates(g, c, F, N, S) ==
    /\ g \in [0..N -> S] /\ g[0] = c
    /\ \A n \in 1..N : g[n] = F[n][g[n - 1]]

\* A function on 0..N given by its first value and what a value makes of the one before exists.
LEMMA Recursion ==
    ASSUME NEW N \in Nat, NEW S, NEW c \in S, NEW F \in [1..N -> [S -> S]]
    PROVE  \E g : Iterates(g, c, F, N, S)
<1> DEFINE Upto(m) == \E g \in [0..m -> S] :
                          \A n \in 0..m : g[n] = IF n = 0 THEN c ELSE F[n][g[n - 1]]
           Without == {m \in 0..N : ~Upto(m)}
<1>1. CASE Without = {}
  <2>1. Upto(N)
    BY <1>1
  <2>2. PICK g \in [0..N -> S] : \A n \in 0..N : g[n] = IF n = 0 THEN c ELSE F[n][g[n - 1]]
    BY <2>1
  <2>3. Iterates(g, c, F, N, S)
    BY <2>2 DEF Iterates
  <2> QED BY <2>3
<1>2. CASE Without # {}
  <2>1. PICK m \in Without : \A y \in Without : m <= y
    <3> HIDE DEF Upto
    <3>1. Without \subseteq Nat
      OBVIOUS
    <3> HIDE DEF Without
    <3> QED BY <1>2, <3>1, Least
  <2>2. CASE m = 0
    <3>1. [n \in 0..0 |-> c] \in [0..0 -> S]
      OBVIOUS
    <3>2. \A n \in 0..0 :
              [k \in 0..0 |-> c][n] = IF n = 0 THEN c ELSE F[n][[k \in 0..0 |-> c][n - 1]]
      OBVIOUS
    <3>3. Upto(0)
      BY <3>1, <3>2
    <3> QED BY <2>1, <2>2, <3>3
  <2>3. CASE m # 0
    <3>1. m \in 1..N /\ m - 1 \in 0..N /\ Upto(m - 1)
      BY <2>1, <2>3
    <3>2. PICK g \in [0..m - 1 -> S] :
              \A n \in 0..m - 1 : g[n] = IF n = 0 THEN c ELSE F[n][g[n - 1]]
      BY <3>1
    <3> DEFINE h == [n \in 0..m |-> IF n = m THEN F[m][g[m - 1]] ELSE g[n]]
    <3>3. h \in [0..m -> S]
      BY <3>1
    <3>4. \A n \in 0..m : h[n] = IF n = 0 THEN c ELSE F[n][h[n - 1]]
      BY <3>1, <3>2
    <3>5. Upto(m)
      BY <3>3, <3>4
    <3> QED BY <2>1, <3>5
  <2> QED BY <2>2, <2>3
<1> QED BY <1>1, <1>2

\* The powers of two that the code's widths need are positive, and each is
\* twice the one before: the prover knows ^ for numerals only.
LEMMA Doubles ==
    ASSUME NEW n \in 0..31
    PROVE  2^n \in Nat /\ 2^n > 0 /\ 2^(n + 1) = 2 * 2^n
<1> SUFFICES ASSUME NEW m \in 1..32, m = n + 1
             PROVE  2^n \in Nat /\ 2^n > 0 /\ 2^m = 2 * 2^n
  <2>1. n + 1 \in 1..32 /\ n + 1 = n + 1
    OBVIOUS
  <2> QED BY <2>1, Zenon
<1>0. CASE n = 0 /\ m = 1 BY <1>0
<1>1. CASE n = 1 /\ m = 2 BY <1>1
<1>2. CASE n = 2 /\ m = 3 BY <1>2
<1>3. CASE n = 3 /\ m = 4 BY <1>3
<1>4. CASE n = 4 /\ m = 5 BY <1>4
<1>5. CASE n = 5 /\ m = 6 BY <1>5
<1>6. CASE n = 6 /\ m = 7 BY <1>6
<1>7. CASE n = 7 /\ m = 8 BY <1>7
<1>8. CASE n = 8 /\ m = 9 BY <1>8
<1>9. CASE n = 9 /\ m = 10 BY <1>9
<1>10. CASE n = 10 /\ m = 11 BY <1>10
<1>11. CASE n = 11 /\ m = 12 BY <1>11
<1>12. CASE n = 12 /\ m = 13 BY <1>12
<1>13. CASE n = 13 /\ m = 14 BY <1>13
<1>14. CASE n = 14 /\ m = 15 BY <1>14
<1>15. CASE n = 15 /\ m = 16 BY <1>15
<1>16. CASE n = 16 /\ m = 17 BY <1>16
<1>17. CASE n = 17 /\ m = 18 BY <1>17
<1>18. CASE n = 18 /\ m = 19 BY <1>18
<1>19. CASE n = 19 /\ m = 20 BY <1>19
<1>20. CASE n = 20 /\ m = 21 BY <1>20
<1>21. CASE n = 21 /\ m = 22 BY <1>21
<1>22. CASE n = 22 /\ m = 23 BY <1>22
<1>23. CASE n = 23 /\ m = 24 BY <1>23
<1>24. CASE n = 24 /\ m = 25 BY <1>24
<1>25. CASE n = 25 /\ m = 26 BY <1>25
<1>26. CASE n = 26 /\ m = 27 BY <1>26
<1>27. CASE n = 27 /\ m = 28 BY <1>27
<1>28. CASE n = 28 /\ m = 29 BY <1>28
<1>29. CASE n = 29 /\ m = 30 BY <1>29
<1>30. CASE n = 30 /\ m = 31 BY <1>30
<1>31. CASE n = 31 /\ m = 32 BY <1>31
<1> QED
  BY <1>0, <1>1, <1>2, <1>3, <1>4, <1>5, <1>6, <1>7, <1>8, <1>9, <1>10,
     <1>11, <1>12, <1>13, <1>14, <1>15, <1>16, <1>17, <1>18, <1>19, <1>20, <1>21,
     <1>22, <1>23, <1>24, <1>25, <1>26, <1>27, <1>28, <1>29, <1>30, <1>31

\* The quotient is the one number with a remainder from 0 to b - 1.
LEMMA DivIs ==
    ASSUME NEW a \in Int, NEW b \in Nat, b > 0
    PROVE  /\ a \div b \in Int /\ (a \div b) * b <= a /\ a < (a \div b) * b + b
           /\ \A q \in Int : q * b <= a /\ a < q * b + b => q = a \div b
<1>1. a \div b \in Int /\ (a \div b) * b <= a /\ a < (a \div b) * b + b
  OBVIOUS
<1>2. ASSUME NEW q \in Int, q * b <= a, a < q * b + b
      PROVE  q = a \div b
  <2> DEFINE d == a \div b
  <2>1. d \in Int /\ d * b <= a /\ a < d * b + b
    BY <1>1
  <2> HIDE DEF d
  <2>2. ASSUME q < d PROVE FALSE
    <3>1. (d - q - 1) * b >= 0
      BY <2>2, <2>1
    <3>2. (d - q - 1) * b = d * b - q * b - b
      BY <2>1
    <3> QED BY <3>1, <3>2, <1>2, <2>1
  <2>3. ASSUME d < q PROVE FALSE
    <3>1. (q - d - 1) * b >= 0
      BY <2>3, <2>1
    <3>2. (q - d - 1) * b = q * b - d * b - b
      BY <2>1
    <3> QED BY <3>1, <3>2, <1>2, <2>1
  <2>4. q = d
    BY <2>1, <2>2, <2>3
  <2> QED BY <2>4 DEF d
<1> QED BY <1>1, <1>2

\* Division by a positive number keeps the sign.
LEMMA DivNat ==
    ASSUME NEW a \in Nat, NEW b \in Nat, b > 0
    PROVE  a \div b \in Nat
<1> DEFINE d == a \div b
<1>1. d \in Int /\ a < d * b + b
  BY DivIs
<1> HIDE DEF d
<1>2. ASSUME d < 0 PROVE FALSE
  <2>1. (0 - d - 1) * b >= 0
    BY <1>1, <1>2
  <2>2. (0 - d - 1) * b = 0 - d * b - b
    BY <1>1
  <2> QED BY <1>1, <2>1, <2>2
<1>3. d \in Nat
  BY <1>1, <1>2
<1> QED BY <1>3 DEF d

\* Dividing twice is dividing by the product.
LEMMA DivDiv ==
    ASSUME NEW a \in Nat, NEW b \in Nat, b > 0, NEW c \in Nat, c > 0
    PROVE  (a \div b) \div c = a \div (b * c)
<1> DEFINE q == a \div b
           r == q \div c
<1>1. q \in Int /\ q * b <= a /\ a < q * b + b
  BY DivIs
<1>2. r \in Int /\ r * c <= q /\ q < r * c + c
  BY <1>1, DivIs
<1> HIDE DEF q, r
<1>3. r * (b * c) <= a
  <2>1. (q - r * c) * b >= 0
    BY <1>1, <1>2
  <2>2. (q - r * c) * b = q * b - r * (b * c)
    BY <1>1, <1>2
  <2>3. r * (b * c) \in Int /\ q * b \in Int
    BY <1>1, <1>2
  <2> QED BY <1>1, <2>1, <2>2, <2>3
<1>4. a < r * (b * c) + b * c
  <2>1. (r * c + c - 1 - q) * b >= 0
    BY <1>1, <1>2
  <2>2. (r * c + c - 1 - q) * b = r * (b * c) + b * c - b - q * b
    BY <1>1, <1>2
  <2>3. r * (b * c) \in Int /\ q * b \in Int /\ b * c \in Int
    BY <1>1, <1>2
  <2> QED BY <1>1, <2>1, <2>2, <2>3
<1>5. b * c \in Nat /\ b * c > 0
  OBVIOUS
<1>6. r = a \div (b * c)
  BY <1>2, <1>3, <1>4, <1>5, DivIs
<1> QED BY <1>6 DEF q, r

\* A common factor cancels.
LEMMA DivCancel ==
    ASSUME NEW a \in Nat, NEW b \in Nat, b > 0, NEW c \in Nat, c > 0
    PROVE  (a * c) \div (b * c) = a \div b
<1> DEFINE q == a \div b
<1>1. q \in Int /\ q * b <= a /\ a < q * b + b
  BY DivIs
<1> HIDE DEF q
<1>2. q * (b * c) <= a * c
  <2>1. (a - q * b) * c >= 0
    BY <1>1
  <2>2. (a - q * b) * c = a * c - q * (b * c)
    BY <1>1
  <2>3. q * (b * c) \in Int /\ a * c \in Int
    BY <1>1
  <2> QED BY <2>1, <2>2, <2>3
<1>3. a * c < q * (b * c) + b * c
  <2>1. (q * b + b - a) * c > 0
    BY <1>1
  <2>2. (q * b + b - a) * c = q * (b * c) + b * c - a * c
    BY <1>1
  <2>3. q * (b * c) \in Int /\ a * c \in Int /\ b * c \in Int
    BY <1>1
  <2> QED BY <2>1, <2>2, <2>3
<1>4. b * c \in Nat /\ b * c > 0 /\ a * c \in Int
  OBVIOUS
<1>5. q = (a * c) \div (b * c)
  BY <1>1, <1>2, <1>3, <1>4, DivIs
<1> QED BY <1>5 DEF q

\* 2^a 2^b = 2^(a + b).
LEMMA PowerSum ==
    ASSUME NEW a \in Nat, NEW b \in Nat, a + b <= 31
    PROVE  2^(a + b) = 2^a * 2^b
<1> DEFINE Wrong == {m \in 0..31 - a : 2^(a + m) # 2^a * 2^m}
<1>1. ASSUME Wrong # {} PROVE FALSE
  <2>1. PICK m \in Wrong : \A y \in Wrong : m <= y
    <3>1. Wrong \subseteq Nat
      OBVIOUS
    <3> HIDE DEF Wrong
    <3> QED BY <1>1, <3>1, Least
  <2>2. 2^a \in Nat
    <3>1. a \in 0..31
      OBVIOUS
    <3> QED BY <3>1, Doubles, Zenon
  <2>3. CASE m = 0
    <3>1. 2^m = 1 /\ a + m = a
      BY <2>3
    <3> QED BY <2>1, <2>2, <3>1
  <2>4. CASE m # 0
    <3>1. m - 1 \in 0..30 - a /\ m - 1 \notin Wrong
      BY <2>1, <2>4
    <3>2. 2^(a + (m - 1)) = 2^a * 2^(m - 1)
      BY <3>1
    <3>3. 2^(m - 1) \in Nat /\ 2^m = 2 * 2^(m - 1)
      <4>1. m - 1 \in 0..31 /\ (m - 1) + 1 = m
        BY <3>1
      <4> QED BY <4>1, Doubles, Zenon
    <3>4. 2^(a + m) = 2 * 2^(a + (m - 1))
      <4>1. a + (m - 1) \in 0..31 /\ (a + (m - 1)) + 1 = a + m
        BY <3>1
      <4> QED BY <4>1, Doubles, Zenon
    <3> DEFINE x == 2^a
               y == 2^(m - 1)
    <3>5. 2 * (x * y) = x * (2 * y)
      <4>1. x \in Nat /\ y \in Nat
        BY <2>2, <3>3
      <4> HIDE DEF x, y
      <4> QED BY <4>1
    <3>6. 2^(a + m) = 2^a * 2^m
      BY <3>2, <3>3, <3>4, <3>5, Zenon
    <3> QED BY <2>1, <3>6
  <2> QED BY <2>3, <2>4
<1>2. b \in 0..31 - a
  OBVIOUS
<1> QED BY <1>1, <1>2

\* A higher power is a larger one.
LEMMA PowerMono ==
    ASSUME NEW a \in 0..31, NEW b \in 0..31, a <= b
    PROVE  2^a <= 2^b
<1>1. b - a \in 0..31 /\ a \in Nat /\ b - a \in Nat /\ a + (b - a) = b
  OBVIOUS
<1>2. 2^b = 2^a * 2^(b - a)
  BY <1>1, PowerSum
<1> DEFINE x == 2^a
           y == 2^(b - a)
<1>3. x \in Nat /\ y \in Nat /\ y > 0
  BY <1>1, Doubles
<1> HIDE DEF x, y
<1>4. x * y >= x
  <2>1. x * (y - 1) >= 0
    BY <1>3
  <2>2. x * (y - 1) = x * y - x
    BY <1>3
  <2> QED BY <1>3, <2>1, <2>2
<1> QED BY <1>2, <1>4 DEF x, y

\* Division keeps the order.
LEMMA DivMono ==
    ASSUME NEW a \in Nat, NEW b \in Nat, a <= b, NEW c \in Nat, c > 0
    PROVE  a \div c <= b \div c
<1> DEFINE p == a \div c
           q == b \div c
<1>1. p \in Int /\ p * c <= a
  BY DivIs
<1>2. q \in Int /\ b < q * c + c
  BY DivIs
<1> HIDE DEF p, q
<1>3. ASSUME q < p PROVE FALSE
  <2>1. (p - q - 1) * c >= 0
    BY <1>1, <1>2, <1>3
  <2>2. (p - q - 1) * c = p * c - q * c - c /\ p * c \in Int /\ q * c \in Int
    BY <1>1, <1>2
  <2> QED BY <1>1, <1>2, <2>1, <2>2
<1>4. p <= q
  BY <1>1, <1>2, <1>3
<1> QED BY <1>4 DEF p, q

\* A larger divisor gives a smaller quotient.
LEMMA DivAnti ==
    ASSUME NEW a \in Nat, NEW b \in Nat, NEW c \in Nat, b > 0, b <= c
    PROVE  a \div c <= a \div b
<1> DEFINE p == a \div c
           q == a \div b
<1>1. p \in Nat /\ p * c <= a
  BY DivIs, DivNat
<1>2. q \in Int /\ a < q * b + b
  BY DivIs
<1> HIDE DEF p, q
<1>3. ASSUME q < p PROVE FALSE
  <2>1. (p - q - 1) * b >= 0 /\ p * (c - b) >= 0
    BY <1>1, <1>2, <1>3
  <2>2. (p - q - 1) * b = p * b - q * b - b /\ p * (c - b) = p * c - p * b
        /\ p * b \in Int /\ q * b \in Int /\ p * c \in Int
    BY <1>1, <1>2
  <2> QED BY <1>1, <1>2, <2>1, <2>2
<1>4. p <= q
  BY <1>1, <1>2, <1>3
<1> QED BY <1>4 DEF p, q
================================================================================
