SPECIFICATION Spec

CONSTANTS
    Tenants = {t1}
    Repos = {r1, r2}
    Sources = {s1}
    Bodies = {b1}
    PropsOptional = FALSE
    Policies = {"delete"}
    PorchMayVanish = FALSE
    MaxRev = 3
    MaxForeign = 2
    MaxFaults = 0
    MaxEdits = 2
    MaxDrift = 0
    MaxSourceChanges = 0
    Concurrency = 1
    NoProps = NoProps
    InitBody = InitBody
    Absent = Absent

PROPERTY ReadyInRepository
CHECK_DEADLOCK FALSE
