SPECIFICATION Spec
CONSTANT Shifts <- MCShifts
INVARIANTS InverseAccurate InverseMonotone InverseScales LightLineExact
CHECK_DEADLOCK FALSE
