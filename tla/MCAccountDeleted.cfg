SPECIFICATION Spec
CONSTANTS
    r1 = r1
    r2 = r2
    r3 = r3
    s1 = s1
    s2 = s2
    Requests = {r1, r2}
    Subjects = {s1, s2}
    Initial = Initial
SYMMETRY Symmetry
INVARIANT
    DeletedForGood
