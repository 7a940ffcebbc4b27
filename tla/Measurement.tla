----------------------------- MODULE Measurement -----------------------------
(***************************************************************************)
(* What the sampler promises its caller: measurements come one at a time,  *)
(* a measurement that has been started finishes exactly once, its result   *)
(* is written at that instant and does not move again before the next      *)
(* measurement is started.  A reset abandons whatever was going on and     *)
(* leaves an arbitrary byte behind, the result lives in .noinit memory.    *)
(***************************************************************************)
EXTENDS Naturals

CONSTANT CountMax           \* largest value of the 8-bit result, 0xFF

VARIABLES phase,            \* "idle", "running" or "complete"
          result            \* the byte the interrupt handlers write

mvars == <<phase, result>>

MInit ==
    /\ phase = "idle"
    /\ result \in 0..CountMax

Start ==
    /\ phase = "idle"
    /\ phase' = "running"
    /\ UNCHANGED result

Finish ==
    /\ phase = "running"
    /\ phase' = "complete"
    /\ result' \in 0..CountMax

Consume ==
    /\ phase = "complete"
    /\ phase' = "idle"
    /\ UNCHANGED result

PowerCycle ==
    /\ phase' = "idle"
    /\ result' \in 0..CountMax

MNext == Start \/ Finish \/ Consume \/ PowerCycle

\* Safety only: what every step of an implementation must look like.
MSafe == MInit /\ [][MNext]_mvars

\* With progress: a started measurement ends, a result is picked up and the
\* next measurement is started, unless the device is reset first.
MSpec == MSafe /\ WF_mvars(Start) /\ WF_mvars(Finish) /\ WF_mvars(Consume)
=============================================================================
