SPECIFICATION RegistrySpec
CONSTANTS
    v1 = v1
    v2 = v2
    v3 = v3
    e1 = e1
    e2 = e2
    e3 = e3
    Versions = {v1, v2, v3}
    Edits = {e1, e2, e3}
SYMMETRY Symmetry
INVARIANTS
    AtMostOneActiveAlone
PROPERTIES
    LoneActivationRepairs
    NeverNoneActive
