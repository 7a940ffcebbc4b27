------------------------------ MODULE MCReading ------------------------------
(***************************************************************************)
(* Bright, medium and dark measurements at the ends and in the middle of   *)
(* the prescaler's range; sensitivities at the ends of int8_t, where the   *)
(* shift wraps, and around the default.                                    *)
(***************************************************************************)
EXTENDS Reading, FpLib

HARD_SENSITIVITY_OFFSET == 12

\* The sample of main.c:257-263, through fplib.
MCConverted(l, s) ==
    Uint16(fp_to_uint16(fp_inverse(fp_compose(256 * l.value, l.exp),
                                   Int8(s + HARD_SENSITIVITY_OFFSET))))

MCValues        == {0, 15, 128, 255}
MCExponents     == {0, 14}
MCSensitivities == {-128, -4, 0, 9, 127}
==============================================================================
