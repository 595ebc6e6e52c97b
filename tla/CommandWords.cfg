SPECIFICATION Spec
CONSTANTS
    Thread = {s1, s2}
    Size = 17
    MaxLines = 2
    Line <- MC_Line
INVARIANTS AloneIsExact NullIsMention
SYMMETRY MC_Symmetry
CHECK_DEADLOCK FALSE
