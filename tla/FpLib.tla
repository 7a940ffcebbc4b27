-------------------------------- MODULE FpLib --------------------------------
(***************************************************************************)
(* firmware/fplib.c and fplib.h: 16-bit numbers with a 12-bit significand  *)
(* in the upper bits and a 4-bit exponent in the lower ones, as the AVR    *)
(* build computes them, where int is 16 bits wide and a conversion to      *)
(* int8_t wraps.                                                           *)
(***************************************************************************)
EXTENDS Integers

FP16_MANTISSA_MAX == 65520                  \* 0xFFF0
FP16_MANTISSA_MIN == 16
FP16_EXPONENT_MAX == 15

precision_bits == 16
Uint16(n) == n % 65536
Int8(n)   == ((n + 128) % 256) - 128
ShiftRight(n, k) == IF k >= 16 THEN 0 ELSE n \div 2^k

\* Clears the low four bits: n & FP16_MANTISSA_MASK.
MantissaOf(n) == 16 * (n \div 16)

fp_compose(mantissa, exponent) == MantissaOf(mantissa) + (exponent % 16)
fp_extract_sig(f) == MantissaOf(f)
fp_extract_exp(f) == f % 16
fp_to_uint16(f)   == ShiftRight(fp_extract_sig(f),
                                FP16_EXPONENT_MAX - fp_extract_exp(f))

\* A mistake: the loop stops before full precision.
Full_early(result) == result >= 2^8

\* The top bit of result is set: result & precision_mask.
Full(result) == result >= 2^(precision_bits - 1)

\* One turn brings one more bit of the quotient; shift counts the turns down, the
\* one that fills the result left out.
Turn(p, sig) ==
    LET fit == Uint16(2 * p.partial) >= sig
        res == Uint16(2 * p.result) + (IF fit THEN 1 ELSE 0)
    IN [partial |-> Uint16(2 * p.partial) - (IF fit THEN sig ELSE 0),
        result  |-> res,
        shift   |-> IF Full(res) THEN p.shift ELSE p.shift - 1]

\* The restoring division of 2^16 by sig, left when the result is full.
Divide(sig) ==
    LET loop[n \in 0..2 * precision_bits] ==
          IF n = 0 THEN [partial |-> 1, result |-> 0, shift |-> precision_bits]
          ELSE LET p == loop[n - 1]
               IN IF Full(p.result) THEN p ELSE Turn(p, sig)
    IN loop[2 * precision_bits]

\* What fp_inverse divides by, and the exponent it works out, d being the
\* division; the +1 is for the divisor shifted to the right.
Divisor(f) == Uint16(fp_extract_sig(f) + FP16_MANTISSA_MIN) \div 2
WideExponent(f, d, extra_shift) ==
    1 + FP16_EXPONENT_MAX - fp_extract_exp(f) + d.shift + extra_shift

\* Mistakes: a result that is not saturated; the places the quotient was
\* shifted by left out of the exponent.
fp_inverse_unsaturated(f, extra_shift) ==
    LET d   == Divide(Divisor(f))
        exp == Int8(WideExponent(f, d, extra_shift))
    IN IF exp < 0 THEN MantissaOf(ShiftRight(d.result, -exp))
       ELSE MantissaOf(d.result) + (exp % 16)

fp_inverse_unnormalized(f, extra_shift) ==
    LET d   == Divide(Divisor(f))
        exp == Int8(WideExponent(f, d, extra_shift) - d.shift)
    IN IF exp > FP16_EXPONENT_MAX
       THEN fp_compose(FP16_MANTISSA_MAX, FP16_EXPONENT_MAX)
       ELSE IF exp < 0 THEN MantissaOf(ShiftRight(d.result, -exp))
       ELSE MantissaOf(d.result) + exp

fp_inverse(f, extra_shift) ==
    LET d   == Divide(Divisor(f))
        exp == Int8(WideExponent(f, d, extra_shift))
    IN IF exp > FP16_EXPONENT_MAX
       THEN fp_compose(FP16_MANTISSA_MAX, FP16_EXPONENT_MAX)
       ELSE IF exp < 0 THEN MantissaOf(ShiftRight(d.result, -exp))
       ELSE MantissaOf(d.result) + exp

(***************************************************************************)
(* What the inverse stands for.  fp_to_uint16 reads f as the significand   *)
(* times 2^(exponent - 15), and a significand counts as the step above it. *)
(* On that scale fp_inverse(f, x) is 2^(x+4) divided by f: 16 times the    *)
(* "2**extra_shift/f" of fplib.h:34, which is Documented.                  *)
(***************************************************************************)
Saturated == FP16_MANTISSA_MAX
Ideal(f, extra_shift) ==
    LET s == fp_extract_sig(f) \div 16 + 1
        p == 15 - fp_extract_exp(f) + extra_shift
    IN IF p < 0 THEN 0 ELSE IF p >= 28 THEN 2^16 ELSE 2^p \div s
Documented(f, extra_shift) == Ideal(f, extra_shift - 4)

\* Nothing wraps: the largest significand becomes 0 when FP16_MANTISSA_MIN is
\* added in 16 bits, and an exponent beyond smallint_t changes its sign, so that
\* what should saturate reads 0, or the other way round.
InDomain(f, extra_shift) ==
    /\ fp_extract_sig(f) < FP16_MANTISSA_MAX
    /\ WideExponent(f, Divide(Divisor(f)), extra_shift) \in -128..127
==============================================================================
