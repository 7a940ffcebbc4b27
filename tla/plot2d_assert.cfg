SPECIFICATION Spec
CONSTANTS
    Plots = {p1, p2}
    Views = {v1, v2}
    Curves = {c1, c2}
    RRCurves = {c2}
    None = None
    Rows <- MCRows
    MaxHistory = 2
    MaxTicks = 3
    MaxListed = 2
PROPERTIES AssertForeign
