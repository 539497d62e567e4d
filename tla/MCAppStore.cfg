SPECIFICATION Spec
CONSTANTS
    None = None
    SourceIds = {s1, s2}
    RequestIds = {r1, r2}
    JobIds = {j1, j2}
    Settings = {v1, v2}
SYMMETRY Identities
INVARIANTS TypeOK NeverRaises LastResultStaysVisible
PROPERTIES KeepsResults
