SPECIFICATION Spec
CONSTANTS
    Converted <- MCConverted
    Values <- MCValues
    Exponents <- MCExponents
    Sensitivities <- MCSensitivities
    MaxChanges = 2
    MaxSame = 17
INVARIANTS TypeOK ReportSettles
PROPERTIES ReportBetween
