SPECIFICATION Spec
CONSTANT Shifts <- MCShifts
INVARIANT InverseAsDocumented
CHECK_DEADLOCK FALSE
