---------------------------- MODULE SamplerProofs ----------------------------
(***************************************************************************)
(* Proofs about Sampler, for every width of the counter, every range of    *)
(* the prescaler and every depth of nested interrupt handlers.             *)
(***************************************************************************)
EXTENDS Sampler, TLAPS

\* Which context may be interrupted: a handler between its sei and the
\* restored SREG, and main after its own sei.
Masking ==
    /\ sreg_i = 1 => /\ main \notin {"boot", "sei"}
                     /\ depth > 0 => Top.pc \in {"value", "store", "exit"}
    /\ depth > 0 => main \notin {"boot", "sei"}
    /\ \A i \in 1..depth : i < depth => stack[i].pc \in {"value", "store", "exit"}

\* The timer runs only inside a measurement nothing is recorded for.
Running ==
    /\ tccr1 # 0 => main \in Waiting /\ by = "none"
    /\ (depth > 0 /\ Top.pc = "stop") => tccr1 # 0

\* A stopped timer is explained by a store, done or on its way.
Explained ==
    /\ (main \in Waiting /\ tccr1 = 0 /\ by = "none")
         => \E i \in 1..depth : Storing(i)
    /\ main \in Collecting => by # "none"

IInv == TypeOK /\ Masking /\ Running /\ Explained /\ OneStore /\ PrescalerInRange

USE SamplerAssumption DEF SamplerAssumption, vars, timer, irqs, cpu, data, hist

\* Replacing a frame, or one of its fields, leaves a stack of frames.
LEMMA StackUpdate ==
  ASSUME stack \in [1..MaxDepth -> Frame],
         NEW d \in 1..MaxDepth
  PROVE  /\ \A f \in Frame : [stack EXCEPT ![d] = f] \in [1..MaxDepth -> Frame]
         /\ \A pc \in {"none", "test", "stop", "value", "store", "exit", "reti"} :
              [stack EXCEPT ![d].pc = pc] \in [1..MaxDepth -> Frame]
         /\ \A r \in Byte :
              [stack EXCEPT ![d] = [@ EXCEPT !.r24 = r, !.pc = "store"]]
                 \in [1..MaxDepth -> Frame]
BY DEF Frame

\* At power-on every register has its type, whatever .noinit memory holds.
LEMMA TypeInit == Init => TypeOK
BY DEF Init, TypeOK, Byte, Frame, NoFrame, MainPC, By, Capture, Events

\* Every step keeps the types; the prescaler's range keeps s_prescaler - 1 a byte.
LEMMA TypeStep == TypeOK /\ PrescalerInRange /\ [Next]_vars => TypeOK'
<1> SUFFICES ASSUME TypeOK, PrescalerInRange, [Next]_vars PROVE TypeOK'
  OBVIOUS
<1> USE DEF TypeOK, Byte
<1>1. ASSUME Tick PROVE TypeOK'
  <2>1. pending' \subseteq Capture
    BY <1>1 DEF Tick, Capture
  <2>2. seen' \subseteq Events
    BY <1>1 DEF Tick, Events
  <2>3. tcnt1' \in Byte
    BY <1>1 DEF Tick
  <2> QED
    BY <1>1, <2>1, <2>2, <2>3 DEF Tick
<1>2. CASE ComparatorEdge
  BY <1>2 DEF ComparatorEdge, Capture, Events
<1>3. CASE DispatchUsb
  BY <1>3 DEF DispatchUsb, Push, Frame
<1>4. CASE DispatchOvf
  BY <1>4 DEF DispatchOvf, Push, Frame
<1>5. CASE DispatchAna
  BY <1>5 DEF DispatchAna, Push, Frame
<1>t. depth > 0 => depth \in 1..MaxDepth
  OBVIOUS
<1>6a. CASE IrqClaim
  <2>1. depth \in 1..MaxDepth /\ Goto("stop")
    BY <1>6a, <1>t DEF IrqClaim, At
  <2>2. stack' \in [1..MaxDepth -> Frame]
    BY <2>1, StackUpdate DEF Goto
  <2> QED
    BY <1>6a, <2>2 DEF IrqClaim
<1>6b. CASE IrqTooLate
  <2>1. depth \in 1..MaxDepth /\ Goto("exit")
    BY <1>6b, <1>t DEF IrqTooLate, At
  <2>2. stack' \in [1..MaxDepth -> Frame]
    BY <2>1, StackUpdate DEF Goto
  <2> QED
    BY <1>6b, <2>2 DEF IrqTooLate
<1>7. CASE IrqStop
  <2>1. depth \in 1..MaxDepth /\ Goto("value")
    BY <1>7, <1>t DEF IrqStop, At
  <2>2. stack' \in [1..MaxDepth -> Frame]
    BY <2>1, StackUpdate DEF Goto
  <2> QED
    BY <1>7, <2>2 DEF IrqStop
<1>8. CASE OvfValue
  <2>1. depth \in 1..MaxDepth /\ CountMax \in Byte
    BY <1>8, <1>t DEF OvfValue, At
  <2>2. stack' \in [1..MaxDepth -> Frame]
    BY <1>8, <2>1, StackUpdate DEF OvfValue
  <2> QED
    BY <1>8, <2>2 DEF OvfValue
<1>9. CASE AnaValue
  <2>1. stack' \in [1..MaxDepth -> Frame]
    BY <1>9, <1>t, StackUpdate DEF AnaValue, At
  <2> QED
    BY <1>9, <2>1 DEF AnaValue
<1>10. CASE IrqStore
  <2>1. depth \in 1..MaxDepth /\ Goto("exit")
    BY <1>10, <1>t DEF IrqStore, At
  <2>2. stack' \in [1..MaxDepth -> Frame]
    BY <2>1, StackUpdate DEF Goto
  <2>3. sampler_value' \in Byte /\ by' \in By
    BY <1>10, <2>1 DEF IrqStore, Top, Frame, By
  <2> QED
    BY <1>10, <2>2, <2>3 DEF IrqStore
<1>11. CASE IrqRestore
  <2>1. depth \in 1..MaxDepth /\ Goto("reti")
    BY <1>11, <1>t DEF IrqRestore, At
  <2>2. stack' \in [1..MaxDepth -> Frame]
    BY <2>1, StackUpdate DEF Goto
  <2> QED
    BY <1>11, <2>2 DEF IrqRestore
<1>12. CASE IrqReti
  <2>1. depth \in 1..MaxDepth /\ stack' = [stack EXCEPT ![depth] = NoFrame]
    BY <1>12, <1>t DEF IrqReti, At
  <2>2. NoFrame \in Frame
    BY DEF NoFrame, Frame
  <2>3. stack' \in [1..MaxDepth -> Frame]
    BY <2>1, <2>2, StackUpdate
  <2> QED
    BY <1>12, <2>1, <2>3 DEF IrqReti
<1>13. CASE Main
  <2> USE DEF MainStep, MainPC
  <2>1. CASE sampler_init
    BY <2>1 DEF sampler_init, Capture
  <2>2. CASE Sei
    BY <2>2 DEF Sei
  <2>3. CASE comp_enable
    BY <2>3 DEF comp_enable, Capture
  <2>4. CASE ClearCounter
    BY <2>4 DEF ClearCounter
  <2>5. CASE timer1_run
    BY <2>5 DEF timer1_run, By
  <2>6. CASE input_discharge
    BY <2>6 DEF input_discharge
  <2>7. CASE sampler_poll
    BY <2>7 DEF sampler_poll
  <2>8. CASE comp_disable
    BY <2>8 DEF comp_disable
  <2>9. CASE timer1_disable
    BY <2>9 DEF timer1_disable
  <2>10. CASE input_precharge_high
    BY <2>10 DEF input_precharge_high
  <2>11. CASE AdjustPrescaler
    <3>1. NextPrescaler \in Byte
      BY DEF NextPrescaler
    <3> QED
      BY <2>11, <3>1 DEF AdjustPrescaler
  <2>12. CASE sampler_get_sample
    BY <2>12 DEF sampler_get_sample, PrescalerInRange
  <2> QED
    BY <1>13, <2>1, <2>2, <2>3, <2>4, <2>5, <2>6, <2>7, <2>8, <2>9, <2>10,
       <2>11, <2>12 DEF Main
<1>14. CASE Reset
  BY <1>14 DEF Reset, Frame, NoFrame, MainPC, By, Capture, Events
<1>15. CASE UNCHANGED vars
  BY <1>15
<1> QED
  BY <1>1, <1>2, <1>3, <1>4, <1>5, <1>6a, <1>6b, <1>7, <1>8, <1>9, <1>10, <1>11,
     <1>12, <1>13, <1>14, <1>15 DEF Next, Hardware, Irq

\* s_prescaler is garbage until sampler_init and clamped ever after.
LEMMA PrescalerStep ==
  TypeOK /\ PrescalerInRange /\ [Next]_vars => PrescalerInRange'
<1> SUFFICES ASSUME TypeOK, PrescalerInRange, [Next]_vars
             PROVE  PrescalerInRange'
  OBVIOUS
<1> USE DEF PrescalerInRange, MainStep
<1>1. CASE Hardware \/ Irq
  BY <1>1 DEF Hardware, Tick, ComparatorEdge, DispatchUsb, DispatchOvf,
       DispatchAna, Push, Irq, IrqClaim, IrqTooLate, IrqStop, OvfValue, AnaValue, IrqStore,
       IrqRestore, IrqReti
<1>2. CASE sampler_init
  BY <1>2 DEF sampler_init
<1>3. CASE AdjustPrescaler
  BY <1>3 DEF AdjustPrescaler, NextPrescaler, TypeOK, Byte
<1>4. CASE Main /\ ~sampler_init /\ ~AdjustPrescaler
  BY <1>4 DEF Main, Sei, comp_enable, ClearCounter, timer1_run,
       input_discharge, sampler_poll, comp_disable, timer1_disable,
       input_precharge_high, sampler_get_sample
<1>5. CASE Reset
  BY <1>5 DEF Reset
<1>6. CASE UNCHANGED vars
  BY <1>6
<1> QED
  BY <1>1, <1>2, <1>3, <1>4, <1>5, <1>6 DEF Next

\* Every register and byte of the sampler keeps its type and the prescaler is
\* one that lets the timer run, whatever the interleaving.
THEOREM TypeCorrect == Spec => [](TypeOK /\ PrescalerInRange)
<1>1. Init => TypeOK /\ PrescalerInRange
  BY TypeInit DEF Init, PrescalerInRange
<1>2. TypeOK /\ PrescalerInRange /\ [Next]_vars => (TypeOK /\ PrescalerInRange)'
  BY TypeStep, PrescalerStep
<1> QED
  BY <1>1, <1>2, PTL DEF Spec

(***************************************************************************)
(* One measurement, one store, and nothing read before it.                 *)
(***************************************************************************)

\* At power-on no handler runs and the timer is stopped outside a measurement.
LEMMA IInvInit == Init => IInv
BY TypeInit DEF Init, IInv, Masking, Running, Explained, OneStore,
   PrescalerInRange, Waiting, Collecting

\* Every instruction, interrupt, tick, edge and reset keeps the invariant.
LEMMA IInvStep == IInv /\ [Next]_vars => IInv'
<1> SUFFICES ASSUME IInv, [Next]_vars PROVE IInv'
  OBVIOUS
<1> TypeOK' /\ PrescalerInRange'
  BY TypeStep, PrescalerStep DEF IInv
<1> SUFFICES Masking' /\ Running' /\ Explained' /\ OneStore'
  BY DEF IInv
<1> USE DEF IInv, TypeOK, Masking, Running, Explained, OneStore, Storing,
        At, Goto, Top, NoFrame, Waiting, Collecting, Frame, Capture, Byte
<1>1. CASE Tick
  <2>1. Masking'
    BY <1>1 DEF Tick
  <2>2. Running'
    BY <1>1 DEF Tick
  <2>3. Explained'
    BY <1>1 DEF Tick
  <2>4. OneStore'
    BY <1>1 DEF Tick
  <2> QED
    BY <2>1, <2>2, <2>3, <2>4
<1>2. CASE ComparatorEdge
  <2>1. Masking'
    BY <1>2 DEF ComparatorEdge
  <2>2. Running'
    BY <1>2 DEF ComparatorEdge
  <2>3. Explained'
    BY <1>2 DEF ComparatorEdge
  <2>4. OneStore'
    BY <1>2 DEF ComparatorEdge
  <2> QED
    BY <2>1, <2>2, <2>3, <2>4
<1>3. CASE DispatchUsb
  <2>1. Masking'
    BY <1>3 DEF DispatchUsb, Push
  <2>2. Running'
    BY <1>3 DEF DispatchUsb, Push
  <2>3. Explained'
    BY <1>3 DEF DispatchUsb, Push
  <2>4. OneStore'
    BY <1>3 DEF DispatchUsb, Push
  <2> QED
    BY <2>1, <2>2, <2>3, <2>4
<1>4. CASE DispatchOvf
  <2>1. Masking'
    BY <1>4 DEF DispatchOvf, Push
  <2>2. Running'
    BY <1>4 DEF DispatchOvf, Push
  <2>3. Explained'
    BY <1>4 DEF DispatchOvf, Push
  <2>4. OneStore'
    BY <1>4 DEF DispatchOvf, Push
  <2> QED
    BY <2>1, <2>2, <2>3, <2>4
<1>5. CASE DispatchAna
  <2>1. Masking'
    BY <1>5 DEF DispatchAna, Push
  <2>2. Running'
    BY <1>5 DEF DispatchAna, Push
  <2>3. Explained'
    BY <1>5 DEF DispatchAna, Push
  <2>4. OneStore'
    BY <1>5 DEF DispatchAna, Push
  <2> QED
    BY <2>1, <2>2, <2>3, <2>4
<1>6a. CASE IrqClaim
  <2>1. Masking'
    BY <1>6a DEF IrqClaim
  <2>2. Running'
    BY <1>6a DEF IrqClaim
  <2>3. Explained'
    BY <1>6a DEF IrqClaim
  <2>4. OneStore'
    BY <1>6a DEF IrqClaim
  <2> QED
    BY <2>1, <2>2, <2>3, <2>4
<1>6b. CASE IrqTooLate
  <2>1. Masking'
    BY <1>6b DEF IrqTooLate
  <2>2. Running'
    BY <1>6b DEF IrqTooLate
  <2>3. Explained'
    BY <1>6b DEF IrqTooLate
  <2>4. OneStore'
    BY <1>6b DEF IrqTooLate
  <2> QED
    BY <2>1, <2>2, <2>3, <2>4
<1>7. CASE IrqStop
  <2>1. Masking'
    BY <1>7 DEF IrqStop
  <2>2. Running'
    BY <1>7 DEF IrqStop
  <2>3. Explained'
    BY <1>7 DEF IrqStop
  <2>4. OneStore'
    BY <1>7 DEF IrqStop
  <2> QED
    BY <2>1, <2>2, <2>3, <2>4
<1>8. CASE OvfValue
  <2>1. Masking'
    BY <1>8 DEF OvfValue
  <2>2. Running'
    BY <1>8 DEF OvfValue
  <2>3. Explained'
    BY <1>8 DEF OvfValue
  <2>4. OneStore'
    <3>1. depth \in 1..MaxDepth /\ depth' = depth
      BY <1>8 DEF OvfValue
    <3>2. \A i \in 1..depth : Storing(i)' <=> Storing(i)
      BY <1>8, <3>1 DEF OvfValue
    <3>3. UNCHANGED <<by, main, tccr1>>
      BY <1>8 DEF OvfValue
    <3> QED
      BY <3>1, <3>2, <3>3
  <2> QED
    BY <2>1, <2>2, <2>3, <2>4
<1>9. CASE AnaValue
  <2>1. Masking'
    BY <1>9 DEF AnaValue
  <2>2. Running'
    BY <1>9 DEF AnaValue
  <2>3. Explained'
    BY <1>9 DEF AnaValue
  <2>4. OneStore'
    <3>1. depth \in 1..MaxDepth /\ depth' = depth
      BY <1>9 DEF AnaValue
    <3>2. \A i \in 1..depth : Storing(i)' <=> Storing(i)
      BY <1>9, <3>1 DEF AnaValue
    <3>3. UNCHANGED <<by, main, tccr1>>
      BY <1>9 DEF AnaValue
    <3> QED
      BY <3>1, <3>2, <3>3
  <2> QED
    BY <2>1, <2>2, <2>3, <2>4
<1>10. CASE IrqStore
  <2>1. Masking'
    BY <1>10 DEF IrqStore
  <2>2. Running'
    BY <1>10 DEF IrqStore
  <2>3. Explained'
    BY <1>10 DEF IrqStore
  <2>4. OneStore'
    BY <1>10 DEF IrqStore
  <2> QED
    BY <2>1, <2>2, <2>3, <2>4
<1>11. CASE IrqRestore
  <2>1. Masking'
    BY <1>11 DEF IrqRestore
  <2>2. Running'
    BY <1>11 DEF IrqRestore
  <2>3. Explained'
    BY <1>11 DEF IrqRestore
  <2>4. OneStore'
    BY <1>11 DEF IrqRestore
  <2> QED
    BY <2>1, <2>2, <2>3, <2>4
<1>12. CASE IrqReti
  <2>1. Masking'
    BY <1>12 DEF IrqReti
  <2>2. Running'
    BY <1>12 DEF IrqReti
  <2>3. Explained'
    BY <1>12 DEF IrqReti
  <2>4. OneStore'
    BY <1>12 DEF IrqReti
  <2> QED
    BY <2>1, <2>2, <2>3, <2>4
<1>13. CASE Main
  <2> USE DEF MainStep
  <2>1. CASE sampler_init
    BY <2>1 DEF sampler_init
  <2>2. CASE Sei
    BY <2>2 DEF Sei
  <2>3. CASE comp_enable
    BY <2>3 DEF comp_enable
  <2>4. CASE ClearCounter
    BY <2>4 DEF ClearCounter
  <2>5. CASE timer1_run
    BY <2>5 DEF timer1_run, PrescalerInRange
  <2>6. CASE input_discharge
    BY <2>6 DEF input_discharge
  <2>7. CASE sampler_poll
    BY <2>7 DEF sampler_poll
  <2>8. CASE comp_disable
    BY <2>8 DEF comp_disable
  <2>9. CASE timer1_disable
    BY <2>9 DEF timer1_disable
  <2>10. CASE input_precharge_high
    BY <2>10 DEF input_precharge_high
  <2>11. CASE AdjustPrescaler
    BY <2>11 DEF AdjustPrescaler
  <2>12. CASE sampler_get_sample
    BY <2>12 DEF sampler_get_sample
  <2> QED
    BY <1>13, <2>1, <2>2, <2>3, <2>4, <2>5, <2>6, <2>7, <2>8, <2>9, <2>10, <2>11, <2>12 DEF Main
<1>14. CASE Reset
  BY <1>14 DEF Reset
<1>15. CASE UNCHANGED vars
  BY <1>15
<1> QED
  BY <1>1, <1>2, <1>3, <1>4, <1>5, <1>6a, <1>6b, <1>7, <1>8, <1>9, <1>10, <1>11,
     <1>12, <1>13, <1>14, <1>15 DEF Next, Hardware, Irq

\* The strengthened invariant holds whatever interrupts nest and whenever the
\* device is reset.
THEOREM Invariant == Spec => []IInv
<1>1. Init => IInv
  BY IInvInit
<1>2. IInv /\ [Next]_vars => IInv'
  BY IInvStep
<1> QED
  BY <1>1, <1>2, PTL DEF Spec

\* Whenever the main loop finds the timer stopped, and until it has read the
\* byte, the byte is that of this measurement.
THEOREM FreshResult == Spec => []Fresh
<1>1. IInv => Fresh
  BY DEF IInv, Explained, Fresh
<1> QED
  BY <1>1, Invariant, PTL

\* One measurement, one store, however the two handlers nest.
THEOREM SingleStore == Spec => []OneStore
<1>1. IInv => OneStore
  BY DEF IInv
<1> QED
  BY <1>1, Invariant, PTL

(***************************************************************************)
(* The sampler implements Measurement.                                     *)
(***************************************************************************)

\* Power-on is the idle state of Measurement.
LEMMA RefinementInit == Init => Abstract!MInit
BY DEF Init, Abstract!MInit, phase, Waiting, Collecting, Byte

\* timer1_run starts, the store finishes, the read of the sample consumes, a
\* reset is a power cycle, and every other step changes nothing of Measurement.
LEMMA RefinementStep ==
  IInv /\ IInv' /\ [Next]_vars => [Abstract!MNext]_(Abstract!mvars)
<1> SUFFICES ASSUME IInv, IInv', [Next]_vars
             PROVE  [Abstract!MNext]_(Abstract!mvars)
  OBVIOUS
<1> USE DEF Abstract!MNext, Abstract!mvars, Abstract!Start, Abstract!Finish,
        Abstract!Consume, Abstract!PowerCycle, phase, Waiting, Collecting
<1>1. CASE IrqStore
  <2>1. depth \in 1..MaxDepth /\ Storing(depth) /\ Top.r24 \in Byte
    BY <1>1 DEF IrqStore, At, Top, Storing, IInv, TypeOK, Frame
  <2>2. by = "none" /\ main \in Waiting
    BY <2>1 DEF IInv, OneStore
  <2>3. Abstract!Finish
    BY <1>1, <2>1, <2>2 DEF IrqStore, Capture, Byte
  <2> QED
    BY <2>3
<1>2. CASE timer1_run
  BY <1>2 DEF timer1_run, MainStep, data
<1>3. CASE sampler_get_sample
  BY <1>3 DEF sampler_get_sample, MainStep, IInv, Explained
<1>4. CASE Reset
  BY <1>4 DEF Reset, Byte
<1>5. CASE Hardware \/ (Irq /\ ~IrqStore)
  BY <1>5 DEF Hardware, Tick, ComparatorEdge, DispatchUsb, DispatchOvf,
       DispatchAna, Push, Irq, IrqClaim, IrqTooLate, IrqStop, OvfValue, AnaValue,
       IrqRestore, IrqReti
<1>6. CASE Main /\ ~timer1_run /\ ~sampler_get_sample
  BY <1>6 DEF Main, MainStep, sampler_init, Sei, comp_enable, ClearCounter,
       input_discharge, sampler_poll, comp_disable, timer1_disable,
       input_precharge_high, AdjustPrescaler
<1>7. CASE UNCHANGED vars
  BY <1>7
<1> QED
  BY <1>1, <1>2, <1>3, <1>4, <1>5, <1>6, <1>7 DEF Next

\* Every behaviour of the interrupt-driven sampler is a sequence of
\* measurements, each finished once, with a result that stays put until it
\* has been read.
THEOREM Refinement == Spec => ImplementsMeasurement
<1>1. Spec => []IInv
  BY Invariant
<1> QED
  BY <1>1, RefinementInit, RefinementStep, PTL
     DEF Spec, ImplementsMeasurement, Abstract!MSafe

(***************************************************************************)
(* What is recorded happened, and an early overflow is what is recorded.   *)
(***************************************************************************)
Wrapped == seen \cap {"early", "late"} # {}

\* A handler that has found the timer running, or is about to.
Claims(i, isr) ==
    /\ stack[i].isr = isr
    /\ \/ stack[i].pc \in {"stop", "value", "store"}
       \/ stack[i].pc = "test" /\ tccr1 # 0

\* Where a flag can be raised, and what must have happened for it.
Flags ==
    /\ "ovf" \in pending =>
         Wrapped /\ main \in Waiting \cup {"comp_disable", "timer1_disable"}
    /\ "ana" \in pending =>
         main \notin {"tcnt1", "tccr1"} /\ (main \in Waiting => "edge" \in seen)
    /\ main \in {"sei", "comp_enable", "tcnt1", "tccr1", "discharge"}
         => pin = "high"
    /\ main \in {"adjust", "sample"} => pin = "high"
    /\ main # "boot" => "ovf" \in enabled

Claimed ==
    \A i \in 1..depth : /\ Claims(i, "ovf") => Wrapped
                        /\ Claims(i, "ana") => "edge" \in seen

\* Once the counter has wrapped early the comparator's handler cannot win.
Early == "early" \in seen =>
    /\ tccr1 # 0 => \/ "ovf" \in pending
                    \/ depth > 0 /\ Top.isr = "ovf" /\ Top.pc \in {"test", "stop"}
    /\ \A i \in 1..depth : ~Claims(i, "ana")

Result ==
    /\ \A i \in 1..depth :
         /\ Storing(i) => stack[i].isr \in Capture
         /\ (stack[i].isr = "ovf" /\ stack[i].pc = "store") => stack[i].r24 = CountMax
    /\ EarlyOverflowKept

CInv == Flags /\ Claimed /\ Caused /\ Early /\ Result

\* At power-on nothing is pending and nothing is recorded.
LEMMA CInvInit == Init => CInv
BY DEF Init, CInv, Flags, Claimed, Caused, Early, Result, EarlyOverflowKept,
   Waiting

\* Every step keeps what is recorded explained by an event of its measurement.
LEMMA CInvStep == IInv /\ IInv' /\ CInv /\ [Next]_vars => CInv'
<1> SUFFICES ASSUME IInv, IInv', CInv, [Next]_vars PROVE CInv'
  OBVIOUS
<1> USE DEF IInv, TypeOK, Masking, Running, OneStore, Storing, CInv, Flags,
        Claimed, Claims, Caused, Early, Result, EarlyOverflowKept, Wrapped,
        At, Goto, Top, NoFrame, Waiting, Frame, Capture, Byte
<1>1. CASE Tick
  <2>a. main \in Waiting
    BY <1>1 DEF Tick
  <2>b. "ovf" \in pending' => Wrapped'
    BY <1>1 DEF Tick
  <2>c. ("ana" \in pending' => "ana" \in pending) /\ ("edge" \in seen => "edge" \in seen')
    BY <1>1 DEF Tick
  <2>1. Flags'
    BY <1>1, <2>a, <2>b, <2>c DEF Tick
  <2>2. Claimed'
    BY <1>1 DEF Tick
  <2>3. Caused'
    BY <1>1 DEF Tick
  <2>4. Early'
    BY <1>1 DEF Tick
  <2>5. Result'
    BY <1>1 DEF Tick
  <2> QED
    BY <2>1, <2>2, <2>3, <2>4, <2>5
<1>2. CASE ComparatorEdge
  <2>1. Flags'
    BY <1>2 DEF ComparatorEdge
  <2>2. Claimed'
    BY <1>2 DEF ComparatorEdge
  <2>3. Caused'
    BY <1>2 DEF ComparatorEdge
  <2>4. Early'
    BY <1>2 DEF ComparatorEdge
  <2>5. Result'
    BY <1>2 DEF ComparatorEdge
  <2> QED
    BY <2>1, <2>2, <2>3, <2>4, <2>5
<1>3. CASE DispatchUsb
  <2>1. Flags'
    BY <1>3 DEF DispatchUsb, Push
  <2>2. Claimed'
    BY <1>3 DEF DispatchUsb, Push
  <2>3. Caused'
    BY <1>3 DEF DispatchUsb, Push
  <2>4. Early'
    BY <1>3 DEF DispatchUsb, Push
  <2>5. Result'
    BY <1>3 DEF DispatchUsb, Push
  <2> QED
    BY <2>1, <2>2, <2>3, <2>4, <2>5
<1>4. CASE DispatchOvf
  <2>1. Flags'
    BY <1>4 DEF DispatchOvf, Push
  <2>2. Claimed'
    BY <1>4 DEF DispatchOvf, Push
  <2>3. Caused'
    BY <1>4 DEF DispatchOvf, Push
  <2>4. Early'
    BY <1>4 DEF DispatchOvf, Push
  <2>5. Result'
    BY <1>4 DEF DispatchOvf, Push
  <2> QED
    BY <2>1, <2>2, <2>3, <2>4, <2>5
<1>5. CASE DispatchAna
  <2>1. Flags'
    BY <1>5 DEF DispatchAna, Push
  <2>2. Claimed'
    BY <1>5 DEF DispatchAna, Push
  <2>3. Caused'
    BY <1>5 DEF DispatchAna, Push
  <2>4. Early'
    BY <1>5 DEF DispatchAna, Push
  <2>5. Result'
    BY <1>5 DEF DispatchAna, Push
  <2> QED
    BY <2>1, <2>2, <2>3, <2>4, <2>5
<1>6a. CASE IrqClaim
  <2>1. Flags'
    BY <1>6a DEF IrqClaim
  <2>2. Claimed'
    BY <1>6a DEF IrqClaim
  <2>3. Caused'
    BY <1>6a DEF IrqClaim
  <2>4. Early'
    BY <1>6a DEF IrqClaim
  <2>5. Result'
    BY <1>6a DEF IrqClaim
  <2> QED
    BY <2>1, <2>2, <2>3, <2>4, <2>5
<1>6b. CASE IrqTooLate
  <2>1. Flags'
    BY <1>6b DEF IrqTooLate
  <2>2. Claimed'
    BY <1>6b DEF IrqTooLate
  <2>3. Caused'
    BY <1>6b DEF IrqTooLate
  <2>4. Early'
    BY <1>6b DEF IrqTooLate
  <2>5. Result'
    BY <1>6b DEF IrqTooLate
  <2> QED
    BY <2>1, <2>2, <2>3, <2>4, <2>5
<1>7. CASE IrqStop
  <2>1. Flags'
    BY <1>7 DEF IrqStop
  <2>2. Claimed'
    BY <1>7 DEF IrqStop
  <2>3. Caused'
    BY <1>7 DEF IrqStop
  <2>4. Early'
    BY <1>7 DEF IrqStop
  <2>5. Result'
    BY <1>7 DEF IrqStop
  <2> QED
    BY <2>1, <2>2, <2>3, <2>4, <2>5
<1>8. CASE OvfValue
  <2>1. Flags'
    BY <1>8 DEF OvfValue
  <2>2. Claimed'
    BY <1>8 DEF OvfValue
  <2>3. Caused'
    BY <1>8 DEF OvfValue
  <2>4. Early'
    BY <1>8 DEF OvfValue
  <2>5. Result'
    BY <1>8 DEF OvfValue
  <2> QED
    BY <2>1, <2>2, <2>3, <2>4, <2>5
<1>9. CASE AnaValue
  <2>1. Flags'
    BY <1>9 DEF AnaValue
  <2>2. Claimed'
    BY <1>9 DEF AnaValue
  <2>3. Caused'
    BY <1>9 DEF AnaValue
  <2>4. Early'
    BY <1>9 DEF AnaValue
  <2>5. Result'
    BY <1>9 DEF AnaValue
  <2> QED
    BY <2>1, <2>2, <2>3, <2>4, <2>5
<1>10. CASE IrqStore
  <2>1. Flags'
    BY <1>10 DEF IrqStore
  <2>2. Claimed'
    BY <1>10 DEF IrqStore
  <2>3. Caused'
    BY <1>10 DEF IrqStore
  <2>4. Early'
    BY <1>10 DEF IrqStore
  <2>5. Result'
    BY <1>10 DEF IrqStore
  <2> QED
    BY <2>1, <2>2, <2>3, <2>4, <2>5
<1>11. CASE IrqRestore
  <2>1. Flags'
    BY <1>11 DEF IrqRestore
  <2>2. Claimed'
    BY <1>11 DEF IrqRestore
  <2>3. Caused'
    BY <1>11 DEF IrqRestore
  <2>4. Early'
    BY <1>11 DEF IrqRestore
  <2>5. Result'
    BY <1>11 DEF IrqRestore
  <2> QED
    BY <2>1, <2>2, <2>3, <2>4, <2>5
<1>12. CASE IrqReti
  <2>1. Flags'
    BY <1>12 DEF IrqReti
  <2>2. Claimed'
    BY <1>12 DEF IrqReti
  <2>3. Caused'
    BY <1>12 DEF IrqReti
  <2>4. Early'
    BY <1>12 DEF IrqReti
  <2>5. Result'
    BY <1>12 DEF IrqReti
  <2> QED
    BY <2>1, <2>2, <2>3, <2>4, <2>5
<1>13. CASE Main
  <2> USE DEF MainStep
  <2>1. CASE sampler_init
    BY <2>1 DEF sampler_init
  <2>2. CASE Sei
    BY <2>2 DEF Sei
  <2>3. CASE comp_enable
    BY <2>3 DEF comp_enable
  <2>4. CASE ClearCounter
    BY <2>4 DEF ClearCounter
  <2>5. CASE timer1_run
    BY <2>5 DEF timer1_run
  <2>6. CASE input_discharge
    BY <2>6 DEF input_discharge
  <2>7. CASE sampler_poll
    BY <2>7 DEF sampler_poll
  <2>8. CASE comp_disable
    BY <2>8 DEF comp_disable
  <2>9. CASE timer1_disable
    BY <2>9 DEF timer1_disable
  <2>10. CASE input_precharge_high
    BY <2>10 DEF input_precharge_high
  <2>11. CASE AdjustPrescaler
    BY <2>11 DEF AdjustPrescaler
  <2>12. CASE sampler_get_sample
    BY <2>12 DEF sampler_get_sample
  <2> QED
    BY <1>13, <2>1, <2>2, <2>3, <2>4, <2>5, <2>6, <2>7, <2>8, <2>9, <2>10, <2>11, <2>12 DEF Main
<1>14. CASE Reset
  BY <1>14 DEF Reset
<1>15. CASE UNCHANGED vars
  BY <1>15
<1> QED
  BY <1>1, <1>2, <1>3, <1>4, <1>5, <1>6a, <1>6b, <1>7, <1>8, <1>9, <1>10, <1>11,
     <1>12, <1>13, <1>14, <1>15 DEF Next, Hardware, Irq

\* Every state has both: the flags and causes, and the results they explain.
LEMMA CausesAndOverflows == Spec => []CInv
<1>1. Init => CInv
  BY CInvInit
<1>2. IInv /\ IInv' /\ CInv /\ [Next]_vars => CInv'
  BY CInvStep
<1> QED
  BY <1>1, <1>2, Invariant, PTL DEF Spec

\* Whatever is recorded happened in the measurement it is recorded for.
THEOREM RecordedCause == Spec => []Caused
<1>1. CInv => Caused
  BY DEF CInv
<1> QED
  BY <1>1, CausesAndOverflows, PTL

\* An overflow ahead of the comparator's handler is recorded as CountMax.
THEOREM OverflowKept == Spec => []EarlyOverflowKept
<1>1. CInv => EarlyOverflowKept
  BY DEF CInv, Result
<1> QED
  BY <1>1, CausesAndOverflows, PTL

(***************************************************************************)
(* The scale of a sample.                                                  *)
(***************************************************************************)

\* The prescaler is that of the measurement until it is adjusted, and then at
\* most one step off, and not at all when the value was inside the window.
Window == UnderflowThreshold..(OverflowThreshold - 1)
Scaled ==
    /\ main \in Waiting \cup {"comp_disable", "timer1_disable", "precharge", "adjust"} =>
         ps = s_prescaler
    /\ main = "sample" => /\ s_prescaler \in {ps - 1, ps, ps + 1}
                          /\ sampler_value \in Window => s_prescaler = ps

\* A step of the prescaler, within its range (sampler.c:163-171).
LEMMA NextPrescalerIs ==
  ASSUME TypeOK, PrescalerInRange, main # "boot"
  PROVE  /\ NextPrescaler \in {s_prescaler - 1, s_prescaler, s_prescaler + 1}
         /\ sampler_value \in Window => NextPrescaler = s_prescaler
         /\ NextPrescaler # s_prescaler =>
              \/ NextPrescaler = s_prescaler + 1 /\ sampler_value >= OverflowThreshold
              \/ NextPrescaler + 1 = s_prescaler /\ sampler_value < UnderflowThreshold
BY DEF TypeOK, Byte, PrescalerInRange, NextPrescaler, Window

\* Only AdjustPrescaler, sampler_init and a reset change the prescaler, and a
\* value is stored only while main waits for it.
LEMMA ScaleFrame ==
  ASSUME IInv, Next, ~Main, ~Reset
  PROVE  /\ UNCHANGED <<main, s_prescaler, ps, sample>>
         /\ sampler_value' # sampler_value => main \in Waiting
<1>1. CASE IrqStore
  <2>1. depth \in 1..MaxDepth /\ Storing(depth)
    BY <1>1 DEF IrqStore, At, Top, Storing, IInv, TypeOK
  <2> QED
    BY <1>1, <2>1 DEF IrqStore, IInv, OneStore
<1>2. CASE Hardware \/ (Irq /\ ~IrqStore)
  BY <1>2 DEF Hardware, Tick, ComparatorEdge, DispatchUsb, DispatchOvf,
       DispatchAna, Push, Irq, IrqClaim, IrqTooLate, IrqStop, OvfValue, AnaValue,
       IrqRestore, IrqReti
<1> QED
  BY <1>1, <1>2 DEF Next

\* No other step of main touches what a sample is made of.
LEMMA MainFrame ==
  ASSUME Main, ~sampler_init, ~timer1_run, ~AdjustPrescaler
  PROVE  /\ UNCHANGED <<s_prescaler, ps, sampler_value>>
         /\ main' \in Waiting \cup {"comp_disable", "timer1_disable", "precharge", "adjust"} =>
              main \in Waiting \cup {"comp_disable", "timer1_disable", "precharge"}
         /\ main' # "sample"
BY DEF Main, MainStep, Sei, comp_enable, ClearCounter, input_discharge, sampler_poll,
   comp_disable, timer1_disable, input_precharge_high, sampler_get_sample, Waiting

\* Every step keeps the scale of a sample explained.
LEMMA ScaledStep == IInv /\ Scaled /\ [Next]_vars => Scaled'
<1> SUFFICES ASSUME IInv, Scaled, [Next]_vars PROVE Scaled'
  OBVIOUS
<1>1. CASE Next /\ ~Main /\ ~Reset
  <2>1. /\ UNCHANGED <<main, s_prescaler, ps>>
        /\ sampler_value' # sampler_value => main \in Waiting
    BY <1>1, ScaleFrame
  <2> QED
    BY <2>1 DEF Scaled, Waiting
<1>2. CASE sampler_init
  BY <1>2 DEF sampler_init, MainStep, Scaled, Waiting
<1>3. CASE timer1_run
  BY <1>3 DEF timer1_run, MainStep, Scaled
<1>4. CASE AdjustPrescaler
  <2>1. /\ main = "adjust" /\ main' = "sample" /\ s_prescaler' = NextPrescaler
        /\ UNCHANGED <<sampler_value, ps>>
    BY <1>4 DEF AdjustPrescaler, MainStep
  <2>2. ps = s_prescaler
    BY <2>1 DEF Scaled
  <2>3. /\ NextPrescaler \in {s_prescaler - 1, s_prescaler, s_prescaler + 1}
        /\ sampler_value \in Window => NextPrescaler = s_prescaler
    BY <2>1, NextPrescalerIs DEF IInv
  <2> QED
    BY <2>1, <2>2, <2>3 DEF Scaled, Waiting
<1>5. CASE Main /\ ~sampler_init /\ ~timer1_run /\ ~AdjustPrescaler
  BY <1>5, MainFrame DEF Scaled
<1>6. CASE Reset
  BY <1>6 DEF Reset, Scaled, Waiting
<1>7. CASE UNCHANGED vars
  BY <1>7 DEF Scaled
<1> QED
  BY <1>1, <1>2, <1>3, <1>4, <1>5, <1>6, <1>7

\* The scale is explained at all times.
LEMMA Scales == Spec => []Scaled
<1>1. Init => Scaled
  BY DEF Init, Scaled, Waiting
<1> QED
  BY <1>1, ScaledStep, Invariant, PTL DEF Spec

\* A measurement moves the prescaler once at most, by one step from the one it
\* ran with, up only after an overflow and down only after an underflow
\* (sampler.c:163-171).
THEOREM PrescalerMovesByOne == Spec => PrescalerSteps
<1> DEFINE Steps ==
      (main' # "boot" /\ main # "boot" /\ s_prescaler' # s_prescaler) =>
        /\ s_prescaler = ps
        /\ \/ s_prescaler' = s_prescaler + 1 /\ sampler_value >= OverflowThreshold
           \/ s_prescaler' + 1 = s_prescaler /\ sampler_value < UnderflowThreshold
<1>1. IInv /\ Scaled /\ [Next]_vars => [Steps]_vars
  <2> SUFFICES ASSUME IInv, Scaled, Next,
                      main' # "boot", main # "boot", s_prescaler' # s_prescaler
               PROVE  Steps
    OBVIOUS
  <2>1. AdjustPrescaler
    <3>1. Main
      BY ScaleFrame DEF Reset
    <3>2. ~sampler_init /\ ~timer1_run
      BY DEF sampler_init, timer1_run, MainStep, data
    <3> QED
      BY <3>1, <3>2, MainFrame
  <2>2. s_prescaler = ps
    <3>1. main = "adjust"
      BY <2>1 DEF AdjustPrescaler, MainStep
    <3> QED
      BY <3>1 DEF Scaled
  <2>3. \/ s_prescaler' = s_prescaler + 1 /\ sampler_value >= OverflowThreshold
        \/ s_prescaler' + 1 = s_prescaler /\ sampler_value < UnderflowThreshold
    BY <2>1, NextPrescalerIs DEF AdjustPrescaler, IInv
  <2> QED
    BY <2>2, <2>3
<1> QED
  BY <1>1, Invariant, Scales, PTL DEF Spec, PrescalerSteps

\* A sample has the value that was recorded; its scale is that of the
\* measurement when the value is inside the window, and at most one step off
\* outside (sampler.c:174-180).
THEOREM ScaleInWindow == Spec => SampleScaledInWindow
<1> DEFINE Exact ==
      main = "sample" /\ main' = "comp_enable" =>
        /\ sample'.value = sampler_value
        /\ sampler_value \in UnderflowThreshold..(OverflowThreshold - 1)
             => sample'.exp + 1 = ps
        /\ sample'.exp + 1 \in {ps - 1, ps, ps + 1}
<1>1. IInv /\ Scaled /\ [Next]_vars => [Exact]_vars
  <2> SUFFICES ASSUME IInv, Scaled, Next, main = "sample", main' = "comp_enable"
               PROVE  /\ sample'.value = sampler_value
                      /\ sampler_value \in Window => sample'.exp + 1 = ps
                      /\ sample'.exp + 1 \in {ps - 1, ps, ps + 1}
    BY DEF Window
  <2>1. sampler_get_sample
    <3>1. Main
      BY ScaleFrame DEF Reset
    <3> QED
      BY <3>1 DEF Main, MainStep, sampler_init, Sei, comp_enable, ClearCounter, timer1_run,
           input_discharge, sampler_poll, comp_disable, timer1_disable,
           input_precharge_high, AdjustPrescaler
  <2>2. s_prescaler \in Nat
    BY DEF IInv, TypeOK, Byte
  <2>3. sample'.value = sampler_value /\ sample'.exp + 1 = s_prescaler
    BY <2>1, <2>2 DEF sampler_get_sample
  <2> QED
    BY <2>3 DEF Scaled
<1> QED
  BY <1>1, Invariant, Scales, PTL DEF Spec, SampleScaledInWindow
==============================================================================
