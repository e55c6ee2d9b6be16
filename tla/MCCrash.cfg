SPECIFICATION Spec

CONSTANTS
    Tenants = {t1}
    Repos = {r1, r2}
    Sources = {s1}
    Bodies = {b1, b2}
    PropsOptional = TRUE
    Policies = {"delete"}
    PorchMayVanish = FALSE
    MaxRev = 3
    MaxForeign = 2
    MaxFaults = 2
    MaxEdits = 3
    MaxDrift = 0
    MaxSourceChanges = 1
    Concurrency = 1
    NoProps = NoProps
    InitBody = InitBody
    Absent = Absent

SYMMETRY Symmetry
INVARIANT TypeOK
INVARIANT DraftIsLatest
PROPERTY ReadyMeansPublished
CHECK_DEADLOCK FALSE
