------------------------------ MODULE Conversions ------------------------------
(***************************************************************************)
(* Every number of FpLib, with every exponent, against some shifts: the    *)
(* significand and the shift are chosen first, the steps walk through the  *)
(* exponents.  What the conversions of FpLib and PicoFmt promise is stated *)
(* about the number that has been reached.                                 *)
(***************************************************************************)
EXTENDS PicoFmt

CONSTANT Shifts         \* what fp_inverse may be given for extra_shift, int8_t

ASSUME ShiftsAssumption == Shifts \subseteq -128..127

VARIABLES f, extra_shift

Init == /\ f \in {16 * m : m \in 0..4095}
        /\ extra_shift \in Shifts

NextExponent ==
    /\ fp_extract_exp(f) < FP16_EXPONENT_MAX
    /\ f' = f + 1
    /\ UNCHANGED extra_shift

Spec == Init /\ [][NextExponent]_<<f, extra_shift>>

Read(g) == fp_to_uint16(fp_inverse(g, extra_shift))

\* What the caller reads out of fp_inverse is the quotient it stands for on the
\* scale of the code, cut off at 12 significant bits, or the largest number when
\* the quotient does not fit, unless the exponent wraps (fplib.c:18-69).
InverseAccurate ==
    InDomain(f, extra_shift) =>
        LET i == Ideal(f, extra_shift)
        IN IF i >= 2^16 THEN Read(f) = Saturated
           ELSE Read(f) <= i /\ i - Read(f) <= i \div 2^11 + 1

\* fplib.h:34: fp_inverse "computes 2**extra_shift/f", and testfp.c:55-63 prints
\* that quotient to verify it by.  Nothing larger is read out of it, but for the
\* last place.
InverseAsDocumented ==
    LET i == Documented(f, extra_shift)
    IN (InDomain(f, extra_shift) /\ fp_extract_sig(f) > 0 /\ i < 2^16)
         => Read(f) <= i + i \div 2^11 + 1

\* A longer discharge, hence a larger significand, never reads as more light,
\* across every saturation and renormalisation on the way, where no exponent
\* wraps (fplib.c:18-69).
InverseMonotone ==
    InDomain(f, extra_shift) /\ InDomain(f + 16, extra_shift) => Read(f + 16) <= Read(f)

\* Doubling a number by its exponent or by its significand is the same to
\* the inverse up to the last place: the exponents line up over the whole
\* range, whatever the shift, even where they wrap (fplib.c:18-69).
InverseScales ==
    LET m == fp_extract_sig(f)
        e == fp_extract_exp(f)
        g == fp_compose(2 * m + FP16_MANTISSA_MIN, e)
    IN (2 * m + FP16_MANTISSA_MIN < FP16_MANTISSA_MAX /\ e < FP16_EXPONENT_MAX)
         => Read(g) = Read(fp_compose(m, e + 1))

DigitValue(ch) == IF ch \in 48..57 THEN ch - 48 ELSE ch - 55
WordAt(text, k) == 4096 * DigitValue(text[k]) + 256 * DigitValue(text[k + 1])
                     + 16 * DigitValue(text[k + 2]) + DigitValue(text[k + 3])

\* The line of the serial build (serial_main.c:68-74, picofmt.c:15-72) reads,
\* as a hexadecimal number with a point in the middle, as the exact value of
\* the level: its whole part is what fp_to_uint16 cuts it to, its fraction
\* the rest, and no digit is lost or out of place, whatever the arguments
\* that the line does not use held.
LightLineExact ==
    LET text == LightLine(f, 65535)
        places == 2^(FP16_EXPONENT_MAX - fp_extract_exp(f)) IN
    /\ Len(text) = 10 /\ \A k \in 1..8 : text[k] \in (48..57) \cup (65..70)
    /\ WordAt(text, 1) = fp_to_uint16(f)
    /\ WordAt(text, 5) =
         (fp_extract_sig(f) - places * fp_to_uint16(f)) * (65536 \div places)
==============================================================================
