------------------------------- MODULE Sampler -------------------------------
(***************************************************************************)
(* The light-to-time converter: firmware/sampler.c and sampler_irq.S.      *)
(*                                                                         *)
(* The sensor pin is charged, left floating and discharged by the photo    *)
(* diode.  Timer 1 counts; the analog comparator's interrupt reads the     *)
(* count when the pin crosses the threshold, the timer's overflow          *)
(* interrupt records CountMax when it never does.  Whichever handler runs  *)
(* first stops the timer, and a stopped timer is what the main loop polls  *)
(* for.  The main program runs with interrupts enabled, both handlers      *)
(* re-enable them half way, and the USB interrupt may delay everything.    *)
(*                                                                         *)
(* A step is one instruction (or the few that touch the same register) of  *)
(* whatever context is on top of the CPU's stack, a tick of the timer, an  *)
(* edge of the comparator, the dispatch of an interrupt, or a reset.       *)
(***************************************************************************)
EXTENDS Naturals

CONSTANTS
    CountMax,               \* 0xFF, the width of TCNT1 and sampler_value
    UnderflowThreshold,     \* 0x10
    OverflowThreshold,      \* 0xF0
    PrescalerMin,           \* 1
    PrescalerMax,           \* 15
    MaxDepth,               \* bound on nested interrupt handlers
    MaxResets               \* bound on resets of the device

ASSUME SamplerAssumption ==
    /\ CountMax \in Nat /\ MaxDepth \in Nat /\ MaxResets \in Nat
    /\ UnderflowThreshold \in Nat /\ OverflowThreshold \in Nat
    /\ PrescalerMin \in Nat /\ PrescalerMax \in Nat
    /\ 1 <= PrescalerMin /\ PrescalerMin <= PrescalerMax
    /\ PrescalerMax <= CountMax

VARIABLES
    tccr1,                  \* clock select of timer 1, 0 when it is stopped
    tcnt1,                  \* its counter
    pending,                \* interrupt flags raised: TIFR.TOV1, ACSR.ACI
    enabled,                \* interrupts enabled: TIMSK.TOIE1, ACSR.ACIE
    pin,                    \* the input pin is driven "high" or "floating"
    sreg_i,                 \* global interrupt enable bit
    depth, stack,           \* the interrupt handlers in progress
    main,                   \* what the main program does next
    sampler_value,          \* written by the handlers, read by main
    s_prescaler,            \* clock select of the next measurement
    sample,                 \* last result of sampler_get_sample
    resets,
    by, seen, ps            \* history of the current measurement, see below

timer == <<tccr1, tcnt1>>
irqs  == <<pending, enabled>>
cpu   == <<sreg_i, depth, stack>>
data  == <<sampler_value, s_prescaler, sample>>
hist  == <<by, seen, ps>>
vars  == <<timer, irqs, pin, cpu, data, hist, main, resets>>

Byte == 0..CountMax

MainPC == {"boot", "sei", "comp_enable", "tcnt1", "tccr1", "discharge",
           "poll", "comp_disable", "timer1_disable", "precharge", "adjust",
           "sample"}
Waiting    == {"discharge", "poll"}     \* between timer1_run and sampler_poll
Collecting == {"comp_disable", "timer1_disable", "precharge", "adjust",
               "sample"}                \* from sampler_poll to the sample read

(***************************************************************************)
(* A handler in progress: its kind, its next instruction, its register     *)
(* r24.  USB's handler keeps interrupts off from its first instruction to  *)
(* its reti and touches nothing of the sampler: it is one frame that       *)
(* waits.                                                                  *)
(***************************************************************************)
Frame   == [isr: {"none", "usb", "ovf", "ana"},
            pc:  {"none", "test", "stop", "value", "store", "exit", "reti"},
            r24: Byte]
NoFrame == [isr |-> "none", pc |-> "none", r24 |-> 0]

Top == stack[depth]
At(isr, pc) == depth > 0 /\ Top.isr = isr /\ Top.pc = pc
Goto(pc) == stack' = [stack EXCEPT ![depth].pc = pc]

(***************************************************************************)
(* History, which no action's guard reads: which handler recorded the      *)
(* current measurement, the prescaler it runs with, and what was seen in   *)
(* it: an edge of the comparator, the counter wrapping before the          *)
(* comparator's handler was entered ("early") or while that handler was    *)
(* about to stop the timer ("late").                                       *)
(***************************************************************************)
Capture == {"ovf", "ana"}       \* the two interrupts of the sampler
By      == Capture \cup {"none"}
Events  == {"edge", "early", "late"}

Init ==
    /\ tccr1 = 0 /\ tcnt1 = 0
    /\ pending = {} /\ enabled = {} /\ pin = "floating"
    /\ sreg_i = 0 /\ depth = 0 /\ stack = [i \in 1..MaxDepth |-> NoFrame]
    /\ main = "boot"
    /\ sampler_value \in Byte /\ s_prescaler \in Byte     \* .noinit
    /\ sample = [value |-> 0, exp |-> 0]
    /\ resets = 0
    /\ by = "none" /\ seen = {} /\ ps = 0

\* A step of the main program, no handler being in progress.
MainStep(from, to) ==
    /\ depth = 0
    /\ main = from
    /\ main' = to
    /\ UNCHANGED <<cpu, resets>>

(***************************************************************************)
(* Hardware.                                                               *)
(***************************************************************************)
Tick ==
    /\ tccr1 # 0
    /\ IF tcnt1 = CountMax
       THEN /\ tcnt1' = 0
            /\ pending' = pending \cup {"ovf"}
            /\ seen' = seen \cup {IF At("ana", "test") \/ At("ana", "stop")
                                 THEN "late" ELSE "early"}
       ELSE /\ tcnt1' = tcnt1 + 1
            /\ UNCHANGED <<pending, seen>>
    /\ UNCHANGED <<tccr1, enabled, pin, cpu, data, by, ps, main, resets>>

\* The comparator output rises.  Near the threshold it may do so repeatedly.
ComparatorEdge ==
    /\ pin = "floating"
    /\ pending' = pending \cup {"ana"}
    /\ seen' = seen \cup {"edge"}
    /\ UNCHANGED <<timer, enabled, pin, cpu, data, by, ps, main, resets>>

Push(isr, pc) ==
    /\ sreg_i = 1 /\ depth < MaxDepth
    /\ sreg_i' = 0
    /\ depth' = depth + 1
    /\ stack' = [stack EXCEPT ![depth + 1] =
                    [isr |-> isr, pc |-> pc, r24 |-> 0]]
    /\ UNCHANGED <<timer, enabled, pin, data, hist, main, resets>>

\* INT0 has the highest priority and bus activity may request it at any time.
DispatchUsb ==
    /\ Push("usb", "reti")
    /\ UNCHANGED pending

DispatchOvf ==
    /\ "ovf" \in pending \cap enabled
    /\ Push("ovf", "test")
    /\ pending' = pending \ {"ovf"}

\* The comparator's vector comes after the timer's.
DispatchAna ==
    /\ pending \cap enabled = {"ana"}
    /\ Push("ana", "test")
    /\ pending' = pending \ {"ana"}

(***************************************************************************)
(* Mistakes the properties below must catch: each replaces the action or   *)
(* operator it is named after and changes one thing in it.                 *)
(***************************************************************************)
\* The running timer is not tested for.
IrqClaim_untested == \E isr \in Capture :
    /\ At(isr, "test")
    /\ Goto("stop")
    /\ UNCHANGED <<sreg_i, depth, timer, irqs, pin, data, hist, main, resets>>

\* sei comes before the timer is stopped.
IrqClaim_early_sei == \E isr \in Capture :
    /\ At(isr, "test")
    /\ tccr1 # 0
    /\ sreg_i' = 1
    /\ Goto("stop")
    /\ UNCHANGED <<depth, timer, irqs, pin, data, hist, main, resets>>

\* The overflow handler falls through to the reading of TCNT1.
OvfValue_reads_counter ==
    /\ At("ovf", "value")
    /\ stack' = [stack EXCEPT ![depth] = [@ EXCEPT !.r24 = tcnt1, !.pc = "store"]]
    /\ UNCHANGED <<sreg_i, depth, timer, irqs, pin, data, hist, main, resets>>

\* The overflow interrupt is not enabled.
sampler_init_no_toie ==
    /\ MainStep("boot", "sei")
    /\ s_prescaler' = PrescalerMax
    /\ pin' = "high"
    /\ enabled' = {}
    /\ pending' \in SUBSET {"ana"}
    /\ tcnt1' = 0 /\ tccr1' = 0
    /\ UNCHANGED <<sampler_value, sample, hist>>

\* The prescaler keeps what .noinit memory held.
sampler_init_noinit ==
    /\ MainStep("boot", "sei")
    /\ pin' = "high"
    /\ enabled' = {"ovf"}
    /\ pending' \in SUBSET {"ana"}
    /\ tcnt1' = 0 /\ tccr1' = 0
    /\ UNCHANGED <<data, hist>>

\* The comparator's flag is not cleared with the enabling of its interrupt.
comp_enable_keeps_aci ==
    /\ MainStep("comp_enable", "tcnt1")
    /\ enabled' = enabled \cup {"ana"}
    /\ UNCHANGED <<pending, timer, pin, data, hist>>

\* No lower clamp.
NextPrescaler_unclamped ==
    IF sampler_value < UnderflowThreshold THEN s_prescaler - 1
    ELSE IF sampler_value >= OverflowThreshold /\ s_prescaler < PrescalerMax
    THEN s_prescaler + 1 ELSE s_prescaler

\* Adjusted the wrong way.
NextPrescaler_swapped ==
    IF sampler_value < UnderflowThreshold /\ s_prescaler < PrescalerMax
    THEN s_prescaler + 1
    ELSE IF sampler_value >= OverflowThreshold /\ s_prescaler > PrescalerMin
    THEN s_prescaler - 1 ELSE s_prescaler

\* The lower threshold taken for part of the underflow.
NextPrescaler_inclusive ==
    IF sampler_value <= UnderflowThreshold
    THEN IF s_prescaler > PrescalerMin THEN s_prescaler - 1 ELSE s_prescaler
    ELSE IF sampler_value >= OverflowThreshold /\ s_prescaler < PrescalerMax
    THEN s_prescaler + 1 ELSE s_prescaler

(***************************************************************************)
(* The handlers TIM1_OVF_vect and ANA_COMP_vect.                           *)
(***************************************************************************)
\* in r24,TCCR1; andi; brne taken: the timer runs, the measurement is ours.
IrqClaim == \E isr \in Capture :
    /\ At(isr, "test")
    /\ tccr1 # 0
    /\ Goto("stop")
    /\ UNCHANGED <<sreg_i, depth, timer, irqs, pin, data, hist, main, resets>>

\* brne not taken, sei: the measurement is over, leave.
IrqTooLate == \E isr \in Capture :
    /\ At(isr, "test")
    /\ tccr1 = 0
    /\ sreg_i' = 1
    /\ Goto("exit")
    /\ UNCHANGED <<depth, timer, irqs, pin, data, hist, main, resets>>

\* out TCCR1,0; sei
IrqStop == \E isr \in Capture :
    /\ At(isr, "stop")
    /\ tccr1' = 0
    /\ sreg_i' = 1
    /\ Goto("value")
    /\ UNCHANGED <<tcnt1, irqs, pin, depth, data, hist, main, resets>>

OvfValue ==
    /\ At("ovf", "value")
    /\ stack' = [stack EXCEPT ![depth] = [@ EXCEPT !.r24 = CountMax, !.pc = "store"]]
    /\ UNCHANGED <<sreg_i, depth, timer, irqs, pin, data, hist, main, resets>>

AnaValue ==
    /\ At("ana", "value")
    /\ stack' = [stack EXCEPT ![depth] = [@ EXCEPT !.r24 = tcnt1, !.pc = "store"]]
    /\ UNCHANGED <<sreg_i, depth, timer, irqs, pin, data, hist, main, resets>>

IrqStore == \E isr \in Capture :
    /\ At(isr, "store")
    /\ sampler_value' = Top.r24
    /\ by' = isr
    /\ Goto("exit")
    /\ UNCHANGED <<sreg_i, depth, timer, irqs, pin, s_prescaler, sample,
                   seen, ps, main, resets>>

\* restore_context puts back an SREG saved with interrupts off.
IrqRestore == \E isr \in Capture :
    /\ At(isr, "exit")
    /\ sreg_i' = 0
    /\ Goto("reti")
    /\ UNCHANGED <<depth, timer, irqs, pin, data, hist, main, resets>>

IrqReti == \E isr \in Capture \cup {"usb"} :
    /\ At(isr, "reti")
    /\ sreg_i' = 1
    /\ depth' = depth - 1
    /\ stack' = [stack EXCEPT ![depth] = NoFrame]
    /\ UNCHANGED <<timer, irqs, pin, data, hist, main, resets>>

(***************************************************************************)
(* The main program.                                                       *)
(***************************************************************************)
\* capture_reset: pin high, comparator's interrupt off, timer stopped and
\* cleared, overflow interrupt on.  Selecting the edge may raise ACI.
sampler_init ==
    /\ MainStep("boot", "sei")
    /\ s_prescaler' = PrescalerMax
    /\ pin' = "high"
    /\ enabled' = {"ovf"}
    /\ pending' \in SUBSET {"ana"}
    /\ tcnt1' = 0 /\ tccr1' = 0
    /\ UNCHANGED <<sampler_value, sample, hist>>

Sei ==
    /\ depth = 0 /\ main = "sei"
    /\ main' = "comp_enable"
    /\ sreg_i' = 1
    /\ UNCHANGED <<depth, stack, timer, irqs, pin, data, hist, resets>>

\* One write of ACSR clears the flag and enables the interrupt.
comp_enable ==
    /\ MainStep("comp_enable", "tcnt1")
    /\ pending' = pending \ {"ana"}
    /\ enabled' = enabled \cup {"ana"}
    /\ UNCHANGED <<timer, pin, data, hist>>

ClearCounter ==
    /\ MainStep("tcnt1", "tccr1")
    /\ tcnt1' = 0
    /\ UNCHANGED <<tccr1, irqs, pin, data, hist>>

timer1_run ==
    /\ MainStep("tccr1", "discharge")
    /\ tccr1' = s_prescaler
    /\ by' = "none" /\ seen' = {} /\ ps' = s_prescaler
    /\ UNCHANGED <<tcnt1, irqs, pin, data>>

input_discharge ==
    /\ MainStep("discharge", "poll")
    /\ pin' = "floating"
    /\ UNCHANGED <<timer, irqs, data, hist>>

\* While the timer runs sampler_poll returns 0 and nothing changes.
sampler_poll ==
    /\ tccr1 = 0
    /\ MainStep("poll", "comp_disable")
    /\ UNCHANGED <<timer, irqs, pin, data, hist>>

comp_disable ==
    /\ MainStep("comp_disable", "timer1_disable")
    /\ enabled' = enabled \ {"ana"}
    /\ pending' = pending \ {"ana"}
    /\ UNCHANGED <<timer, pin, data, hist>>

timer1_disable ==
    /\ MainStep("timer1_disable", "precharge")
    /\ tccr1' = 0
    /\ pending' = pending \ {"ovf"}
    /\ UNCHANGED <<tcnt1, enabled, pin, data, hist>>

input_precharge_high ==
    /\ MainStep("precharge", "adjust")
    /\ pin' = "high"
    /\ UNCHANGED <<timer, irqs, data, hist>>

NextPrescaler ==
    IF sampler_value < UnderflowThreshold
    THEN IF s_prescaler <= PrescalerMin THEN PrescalerMin ELSE s_prescaler - 1
    ELSE IF sampler_value >= OverflowThreshold
    THEN IF s_prescaler >= PrescalerMax THEN PrescalerMax ELSE s_prescaler + 1
    ELSE s_prescaler

AdjustPrescaler ==
    /\ MainStep("adjust", "sample")
    /\ s_prescaler' = NextPrescaler
    /\ UNCHANGED <<timer, irqs, pin, sampler_value, sample, hist>>

\* The caller filters the sample and calls sampler_start again.
sampler_get_sample ==
    /\ MainStep("sample", "comp_enable")
    /\ sample' = [value |-> sampler_value, exp |-> s_prescaler - 1]
    /\ UNCHANGED <<timer, irqs, pin, sampler_value, s_prescaler, hist>>

\* Watchdog, brown-out or power-on: registers are cleared, .noinit memory is
\* kept or lost.
Reset ==
    /\ resets < MaxResets
    /\ resets' = resets + 1
    /\ tccr1' = 0 /\ tcnt1' = 0
    /\ pending' = {} /\ enabled' = {} /\ pin' = "floating"
    /\ sreg_i' = 0 /\ depth' = 0 /\ stack' = [i \in 1..MaxDepth |-> NoFrame]
    /\ main' = "boot"
    /\ sampler_value' \in Byte /\ s_prescaler' \in Byte
    /\ by' = "none" /\ seen' = {} /\ ps' = 0
    /\ UNCHANGED sample

Hardware == Tick \/ ComparatorEdge \/ DispatchUsb \/ DispatchOvf \/ DispatchAna
Irq      == IrqClaim \/ IrqTooLate \/ IrqStop \/ OvfValue \/ AnaValue
            \/ IrqStore \/ IrqRestore \/ IrqReti
Main     == sampler_init \/ Sei \/ comp_enable \/ ClearCounter \/ timer1_run
            \/ input_discharge \/ sampler_poll \/ comp_disable
            \/ timer1_disable \/ input_precharge_high \/ AdjustPrescaler
            \/ sampler_get_sample

Next == Hardware \/ Irq \/ Main \/ Reset

Spec == Init /\ [][Next]_vars

(***************************************************************************)
(* The timer's clock ticks while it is selected.  After a reti or a sei    *)
(* the CPU executes one more instruction before it takes the next          *)
(* interrupt, so no stream of interrupts stops the context below it, be it *)
(* main or a handler.  A bus is idle between its frames, and then a        *)
(* pending overflow, next in priority to INT0, gets through.               *)
(***************************************************************************)
Fairness ==
    /\ WF_vars(Tick)
    /\ SF_vars(DispatchOvf)
    /\ \A d \in 1..MaxDepth : SF_vars(Irq /\ depth = d)
    /\ SF_vars(Main)

FairSpec == Spec /\ Fairness
------------------------------------------------------------------------------
(***************************************************************************)
(* Properties.                                                             *)
(***************************************************************************)

\* Every variable has its type (registers of sampler.c and sampler_irq.S).
TypeOK ==
    /\ tccr1 \in Byte /\ tcnt1 \in Byte
    /\ pending \subseteq Capture /\ enabled \subseteq Capture
    /\ pin \in {"high", "floating"}
    /\ sreg_i \in {0, 1}
    /\ depth \in 0..MaxDepth
    /\ stack \in [1..MaxDepth -> Frame]
    /\ main \in MainPC
    /\ sampler_value \in Byte /\ s_prescaler \in Byte
    /\ sample \in [value: Byte, exp: Byte]
    /\ resets \in 0..MaxResets
    /\ by \in By /\ seen \subseteq Events /\ ps \in Byte

\* The timer being stopped is all that main looks at, yet whenever it looks
\* and finds the timer stopped, and until it has read the result, a handler
\* has stored the value of this measurement: never the byte of the previous
\* one nor the garbage of .noinit memory (sampler.c:156, 164, 168, 178).
Fresh ==
    (main \in Collecting \/ (main \in Waiting /\ depth = 0 /\ tccr1 = 0))
        => by # "none"

\* A handler on its way to the store runs in a measurement that nothing has
\* been stored for, and there is only one such handler however handlers nest
\* after their sei (sampler_irq.S:47, 67): one measurement, one store.
Storing(i) == stack[i].pc \in {"value", "store"}
OneStore ==
    \A i \in 1..depth : Storing(i) =>
        /\ by = "none" /\ main \in Waiting /\ tccr1 = 0
        /\ \A j \in 1..depth : Storing(j) => j = i

\* What was recorded happened in this measurement: an overflow only if the
\* counter wrapped in it, a capture only if the comparator saw an edge in it.
\* Flags left pending by the previous measurement are never taken for events
\* of this one (sampler.c:31, 94, 101).
Caused ==
    /\ by = "ovf" => seen \cap {"early", "late"} # {}
    /\ by = "ana" => "edge" \in seen

\* An overflow that comes before the comparator's handler is entered is
\* recorded as CountMax, even if an edge is pending too and whatever delayed
\* both (the vector order and sampler_irq.S:48-49).
EarlyOverflowKept ==
    (by # "none" /\ "early" \in seen) => sampler_value = CountMax

\* The header of TIM1_OVF_vect (sampler_irq.S:34-35): it is "used for
\* handling overflow condition".  Every measurement in which the counter
\* overflowed should then be recorded as CountMax.
OverflowRecorded ==
    (by # "none" /\ seen \cap {"early", "late"} # {}) => sampler_value = CountMax

\* The clock select that is programmed is one of the allowed range, so the
\* timer always runs and "stopped" always means "recorded" (sampler.c:163).
PrescalerInRange ==
    main \notin {"boot"} => s_prescaler \in PrescalerMin..PrescalerMax

\* A measurement moves the prescaler once at most: by one step from the one it
\* ran with, and only against the direction in which its result left the window,
\* however often main polls and whatever handlers run meanwhile (sampler.c:163-171).
PrescalerSteps ==
    [][(main' # "boot" /\ main # "boot" /\ s_prescaler' # s_prescaler) =>
        /\ s_prescaler = ps
        /\ \/ s_prescaler' = s_prescaler + 1 /\ sampler_value >= OverflowThreshold
           \/ s_prescaler' + 1 = s_prescaler /\ sampler_value < UnderflowThreshold]_vars

\* sampler.c:177: "return adjusted result based on prescaler".  The prescaler
\* of a sample is the one its measurement ran with.
SampleScaled ==
    [][sample' # sample => sample'.exp + 1 = ps]_vars

\* What does hold of the scale: it is that of the measurement whenever the
\* value is inside the window, and one step off at most outside.
SampleScaledInWindow ==
    [][main = "sample" /\ main' = "comp_enable" =>
        /\ sample'.value = sampler_value
        /\ sampler_value \in UnderflowThreshold..(OverflowThreshold - 1)
             => sample'.exp + 1 = ps
        /\ sample'.exp + 1 \in {ps - 1, ps, ps + 1}]_vars

(***************************************************************************)
(* The sampler implements Measurement: running from timer1_run to the      *)
(* store, complete from the store until sampler_get_sample has read it.    *)
(***************************************************************************)
phase == IF main \notin Waiting \cup Collecting THEN "idle"
         ELSE IF by = "none" THEN "running" ELSE "complete"

Abstract == INSTANCE Measurement WITH phase <- phase, result <- sampler_value

ImplementsMeasurement == Abstract!MSafe
MeasurementProgress   == Abstract!MSpec
==============================================================================
