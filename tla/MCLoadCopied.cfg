SPECIFICATION SafeSpec
CONSTANTS
    Absent = Absent
    Requests = {r1}
    Registrations = {g1}
INVARIANT IdlePeerHasNoLoad
