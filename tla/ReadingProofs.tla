---------------------------- MODULE ReadingProofs ----------------------------
(***************************************************************************)
(* Proofs about Reading, for every conversion that yields a uint16_t.      *)
(***************************************************************************)
EXTENDS Reading, TLAPS

\* All that is used of the width of a word.
LEMMA WordWidth == WordMax \in Nat
BY DEF WordMax

\* What a shift to the right by one leaves of a word.
LEMMA Halves ==
  ASSUME NEW n \in Word
  PROVE  \E h \in Nat : h = n \div 2 /\ 2 * h <= n /\ n <= 2 * h + 1
<1>1. n \div 2 \in Nat /\ 2 * (n \div 2) <= n /\ n <= 2 * (n \div 2) + 1
  BY WordWidth DEF Word
<1> QED
  BY <1>1

\* The filter stays between its two inputs, hence within 16 bits.
LEMMA FilteredBetween ==
  ASSUME NEW s \in Word, NEW r \in Word
  PROVE  /\ Filtered(s, r) \in Word
         /\ r <= s => r <= Filtered(s, r) /\ Filtered(s, r) <= s
         /\ s <= r => s <= Filtered(s, r) /\ Filtered(s, r) <= r
<1>1. PICK h \in Nat : h = s \div 2 /\ 2 * h <= s /\ s <= 2 * h + 1
  BY Halves
<1>2. PICK k \in Nat : k = r \div 2 /\ 2 * k <= r /\ r <= 2 * k + 1
  BY Halves
<1>3. Filtered(s, r) = s - h + k
  BY <1>1, <1>2 DEF Filtered
<1>4. s \in Nat /\ s <= WordMax /\ r \in Nat /\ r <= WordMax
  BY WordWidth DEF Word
<1>5. r <= s => r <= s - h + k /\ s - h + k <= s
  BY <1>1, <1>2, <1>4
<1>6. s <= r => s <= s - h + k /\ s - h + k <= r
  BY <1>1, <1>2, <1>4
<1>7. s - h + k \in Word
  <2>1. s - h + k \in Int /\ (r <= s \/ s <= r)
    BY <1>1, <1>2, <1>4
  <2>2. 0 <= s - h + k /\ s - h + k <= WordMax
    BY <1>1, <1>2, <1>4, WordWidth
  <2> QED
    BY <2>1, <2>2, WordWidth DEF Word
<1> QED
  BY <1>3, <1>5, <1>6, <1>7

\* Every step of the filter halves the distance to the sample, up to one.
LEMMA FilteredContracts ==
  ASSUME NEW s \in Word, NEW r \in Word
  PROVE  2 * Distance(Filtered(s, r), s) <= Distance(r, s) + 1
<1>1. PICK h \in Nat : h = s \div 2 /\ 2 * h <= s /\ s <= 2 * h + 1
  BY Halves
<1>2. PICK k \in Nat : k = r \div 2 /\ 2 * k <= r /\ r <= 2 * k + 1
  BY Halves
<1>3. Filtered(s, r) = s - h + k
  BY <1>1, <1>2 DEF Filtered
<1>4. s \in Nat /\ r \in Nat
  BY WordWidth DEF Word
<1> QED
  BY <1>1, <1>2, <1>3, <1>4 DEF Distance

\* Every step keeps the types: a sample by the converter's contract, a report by
\* FilteredBetween.
LEMMA TypeStep == TypeOK /\ [Next]_vars => TypeOK'
<1> SUFFICES ASSUME TypeOK, [Next]_vars PROVE TypeOK'
  OBVIOUS
<1> USE DEF TypeOK, vars
<1>1. CASE TakeSample
  <2>1. sample' \in Word
    BY <1>1, ReadingAssumption DEF ReadingAssumption, TakeSample
  <2>2. input_report' \in Word
    BY <1>1, <2>1, FilteredBetween DEF TakeSample
  <2> QED
    BY <1>1, <2>1, <2>2, ReadingAssumption DEF ReadingAssumption, TakeSample
<1>2. ASSUME NEW l \in Lights, LightChanges(l) PROVE TypeOK'
  BY <1>2, ReadingAssumption DEF ReadingAssumption, LightChanges
<1>3. ASSUME NEW s \in Sensitivities, SetSensitivity(s) PROVE TypeOK'
  BY <1>3, ReadingAssumption DEF ReadingAssumption, SetSensitivity
<1>4. CASE UNCHANGED vars
  BY <1>4
<1> QED
  BY <1>1, <1>2, <1>3, <1>4 DEF Next

\* The report is always a uint16_t: the filter's sum never wraps.
THEOREM ReadingTypeCorrect == Spec => []TypeOK
<1>1. Init => TypeOK
  BY ReadingAssumption, WordWidth DEF ReadingAssumption, Init, TypeOK, Word
<1>2. TypeOK /\ [Next]_vars => TypeOK'
  BY TypeStep
<1> QED
  BY <1>1, <1>2, PTL DEF Spec

\* Only TakeSample changes the report, and it is the filter of the new sample
\* and the old report.
LEMMA BetweenStep ==
  ASSUME TypeOK, [Next]_vars,
         sample' # sample \/ input_report' # input_report
  PROVE  \/ input_report <= input_report' /\ input_report' <= sample'
         \/ sample' <= input_report' /\ input_report' <= input_report
<1>1. TakeSample
  BY DEF Next, LightChanges, SetSensitivity, vars
<1>2. sample' \in Word /\ input_report \in Word
  BY <1>1, ReadingAssumption DEF ReadingAssumption, TakeSample, TypeOK
<1>3. input_report' = Filtered(sample', input_report)
  BY <1>1 DEF TakeSample
<1>4. \/ input_report <= sample'
      \/ sample' <= input_report
  BY <1>2, WordWidth DEF Word
<1> QED
  BY <1>2, <1>3, <1>4, FilteredBetween

\* The report never overshoots the sample, for any light and sensitivity.
THEOREM NoOvershoot == Spec => ReportBetween
<1>1. TypeOK /\ [Next]_vars =>
        [sample' # sample \/ input_report' # input_report =>
           \/ input_report <= input_report' /\ input_report' <= sample'
           \/ sample' <= input_report' /\ input_report' <= input_report]_vars
  BY BetweenStep
<1> QED
  BY <1>1, ReadingTypeCorrect, PTL DEF Spec, ReportBetween

------------------------------------------------------------------------------
\* How close the report has come after so many equal samples: the first halves
\* any distance of two words, and so does each one after it, up to one.
Closer(n, d) ==
    /\ n >= 1  => d <= 32768
    /\ n >= 2  => d <= 16384
    /\ n >= 3  => d <= 8192
    /\ n >= 4  => d <= 4096
    /\ n >= 5  => d <= 2048
    /\ n >= 6  => d <= 1024
    /\ n >= 7  => d <= 512
    /\ n >= 8  => d <= 256
    /\ n >= 9  => d <= 128
    /\ n >= 10 => d <= 64
    /\ n >= 11 => d <= 32
    /\ n >= 12 => d <= 16
    /\ n >= 13 => d <= 8
    /\ n >= 14 => d <= 4
    /\ n >= 15 => d <= 2
    /\ n >= 16 => d <= 1

\* The invariant behind ReportSettles.
Settling == Closer(same, Distance(input_report, sample))

\* The distance of two words is one.
LEMMA DistanceWord ==
  ASSUME NEW a \in Word, NEW b \in Word
  PROVE  Distance(a, b) \in Nat /\ Distance(a, b) <= WordMax
<1>1. a \in Nat /\ b \in Nat /\ a <= WordMax /\ b <= WordMax
  BY WordWidth DEF Word
<1> QED BY <1>1, WordWidth DEF Distance

\* One more step of the filter, on numbers alone.
LEMMA CloserStep ==
  ASSUME NEW n \in Nat, NEW d \in Nat, NEW e \in Nat, 2 * e <= d + 1
  PROVE  /\ d <= WordMax => Closer(1, e)
         /\ Closer(n, d) => Closer(n, e)
         /\ Closer(n, d) /\ d <= WordMax => Closer(n + 1, e)
<1>1. d <= WordMax => Closer(1, e)
  BY DEF Closer, WordMax
<1>2. Closer(n, d) => Closer(n, e)
  BY DEF Closer
<1>3. Closer(n, d) /\ d <= WordMax => Closer(n + 1, e)
  BY DEF Closer, WordMax
<1> QED BY <1>1, <1>2, <1>3

\* A sample keeps what the previous one has reached, and goes one further when
\* it is counted; a sample of another value starts again.
LEMMA SettlingStep == TypeOK /\ Settling /\ [Next]_vars => Settling'
<1> SUFFICES ASSUME TypeOK, Settling, [Next]_vars PROVE Settling'
  OBVIOUS
<1>1. CASE TakeSample
  <2> DEFINE d == Distance(input_report, sample')
             e == Distance(input_report', sample')
  <2>1. sample' \in Word /\ input_report \in Word /\ sample \in Word
    BY <1>1, ReadingAssumption DEF ReadingAssumption, TakeSample, TypeOK
  <2>2. input_report' = Filtered(sample', input_report) /\ input_report' \in Word
    BY <1>1, <2>1, FilteredBetween DEF TakeSample
  <2>3. d \in Nat /\ d <= WordMax /\ e \in Nat /\ 2 * e <= d + 1
    BY <2>1, <2>2, DistanceWord, FilteredContracts
  <2>4. CASE sample' # sample
    <3>1. same' = 1
      BY <1>1, <2>4 DEF TakeSample
    <3>2. Closer(1, e)
      BY <2>3, CloserStep
    <3> QED BY <3>1, <3>2 DEF Settling
  <2>5. CASE sample' = sample
    <3>1. same' = same \/ same' = same + 1
      BY <1>1, <2>5 DEF TakeSample
    <3>2. same \in Nat
      BY ReadingAssumption DEF ReadingAssumption, TypeOK
    <3>3. Closer(same, d)
      BY <2>5 DEF Settling
    <3> HIDE DEF d, e
    <3>4. Closer(same, e) /\ Closer(same + 1, e)
      BY <2>3, <3>2, <3>3, CloserStep
    <3> QED BY <3>1, <3>4 DEF Settling, e
  <2> QED BY <2>4, <2>5
<1>2. CASE UNCHANGED <<input_report, sample, same>>
  BY <1>2 DEF Settling, Closer, Distance
<1> QED BY <1>1, <1>2 DEF Next, LightChanges, SetSensitivity, vars

\* Under constant light the report comes within one unit of the sample after
\* 16 samples, whatever it was before (main.c:266).
THEOREM Settles == Spec => []ReportSettles
<1>1. Init => Settling
  BY DEF Init, Settling, Closer
<1>2. TypeOK /\ Settling => ReportSettles
  BY ReadingAssumption DEF ReadingAssumption, TypeOK, Settling, Closer, ReportSettles
<1> QED
  BY <1>1, <1>2, SettlingStep, ReadingTypeCorrect, PTL DEF Spec
==============================================================================
