------------------------------- MODULE MCFpLib -------------------------------
(***************************************************************************)
(* Every number against the shift of the default sensitivity, none, and    *)
(* two with which the exponents of some numbers wrap, and of some do not.  *)
(***************************************************************************)
EXTENDS Conversions

MCShifts == {-128, 0, 12, 120}
==============================================================================
