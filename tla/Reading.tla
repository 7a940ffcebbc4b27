------------------------------- MODULE Reading -------------------------------
(***************************************************************************)
(* From a measurement to the report the host reads: firmware/main.c, the   *)
(* part of the main loop that runs when a sample is ready.  The sample is  *)
(* inverted, scaled by the sensitivity the host has set, and smoothed with *)
(* the previous report.                                                    *)
(***************************************************************************)
EXTENDS Integers

CONSTANTS
    Values,                 \* bytes the sampler may deliver
    Exponents,              \* and the exponents it may deliver them with
    Sensitivities,          \* what the host may set, int8_t
    Converted(_, _),        \* the sample a delivery and a sensitivity give
    MaxChanges,             \* bound on changes of light or sensitivity
    MaxSame                 \* bound on the count of equal samples in a row

WordMax == 65535        \* uint16_t
Word    == 0..WordMax
Lights  == [value: Values, exp: Exponents]

\* Converted is fplib's business; its result is a uint16_t.
ASSUME ReadingAssumption ==
    /\ 0 \in Sensitivities
    /\ \A l \in Lights, s \in Sensitivities : Converted(l, s) \in Word
    /\ MaxChanges \in Nat /\ MaxSame \in Nat

VARIABLES
    sensitivity,            \* g_parameters.sensitivity
    input_report,           \* the filtered reading, uint16_t
    light,                  \* what the sampler delivers, while light is constant
    sample,                 \* the last converted sample
    changes, same           \* history: changes so far, equal samples in a row

vars == <<sensitivity, input_report, light, sample, changes, same>>

\* Mistakes: the old report at full weight, the difference the wrong way
\* round, both halves rounded down.
Filtered_unweighted(s, r) == s - s \div 2 + r
Filtered_swapped(s, r)    == s + s \div 2 - r \div 2
Filtered_truncated(s, r)  == s \div 2 + r \div 2

\* sample - (sample >> filter_strength) + (input_report >> filter_strength)
Filtered(s, r) == s - s \div 2 + r \div 2

Init ==
    /\ sensitivity = 0
    /\ input_report = 0
    /\ sample = 0
    /\ light \in Lights
    /\ changes = 0 /\ same = 0

TakeSample ==
    /\ sample' = Converted(light, sensitivity)
    /\ input_report' = Filtered(sample', input_report)
    /\ same' = IF sample' # sample THEN 1 ELSE IF same < MaxSame THEN same + 1 ELSE same
    /\ UNCHANGED <<sensitivity, light, changes>>

LightChanges(l) ==
    /\ changes < MaxChanges
    /\ light' = l
    /\ changes' = changes + 1
    /\ UNCHANGED <<sensitivity, input_report, sample, same>>

\* The host writes the parameters report.
SetSensitivity(s) ==
    /\ changes < MaxChanges
    /\ sensitivity' = s
    /\ changes' = changes + 1
    /\ UNCHANGED <<input_report, light, sample, same>>

Next ==
    \/ TakeSample
    \/ \E l \in Lights : LightChanges(l)
    \/ \E s \in Sensitivities : SetSensitivity(s)

Spec == Init /\ [][Next]_vars

------------------------------------------------------------------------------
\* Every variable has its type; the 16-bit sum of the filter never wraps
\* (main.c:266).
TypeOK ==
    /\ sensitivity \in Sensitivities
    /\ input_report \in Word /\ sample \in Word
    /\ light \in Lights
    /\ changes \in 0..MaxChanges /\ same \in 0..(MaxSame + 1)

Distance(a, b) == IF a < b THEN b - a ELSE a - b

\* The filter never overshoots: a report lies between the previous one and
\* the sample, so the 16-bit sum cannot wrap either (main.c:266).
ReportBetween ==
    [][sample' # sample \/ input_report' # input_report =>
        \/ input_report <= input_report' /\ input_report' <= sample'
        \/ sample' <= input_report' /\ input_report' <= input_report]_vars

\* Under constant light the report comes within one unit of the sample after
\* 16 samples, whatever it was before, rounding included (main.c:266).
ReportSettles ==
    same >= 16 => Distance(input_report, sample) <= 1
==============================================================================
