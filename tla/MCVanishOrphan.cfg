SPECIFICATION Spec

CONSTANTS
    Tenants = {t1}
    Repos = {r1}
    Sources = {s1}
    Bodies = {b1}
    PropsOptional = FALSE
    Policies = {"delete"}
    PorchMayVanish = TRUE
    MaxRev = 3
    MaxForeign = 2
    MaxFaults = 1
    MaxEdits = 2
    MaxDrift = 0
    MaxSourceChanges = 0
    Concurrency = 1
    NoProps = NoProps
    InitBody = InitBody
    Absent = Absent

INVARIANT NoOrphan
CHECK_DEADLOCK FALSE
