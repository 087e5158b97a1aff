SPECIFICATION SafeSpec
CONSTANTS
    Absent = Absent
    Requests = {r1, r2, r3, r4, r5, r6}
    Registrations = {g1, g2}
SYMMETRY Symmetric
INVARIANTS
    CountsActive
    NeverOverCounts
    NegativeIsBeingClamped
