SPECIFICATION FairSpec

CONSTANTS
    Tenants = {t1}
    Repos = {r1}
    Sources = {s1}
    Bodies = {b1}
    PropsOptional = TRUE
    Policies = {"delete"}
    PorchMayVanish = FALSE
    MaxRev = 3
    MaxForeign = 2
    MaxFaults = 0
    MaxEdits = 3
    MaxDrift = 0
    MaxSourceChanges = 0
    Concurrency = 1
    NoProps = NoProps
    InitBody = InitBody
    Absent = Absent

PROPERTY DeletionCompletes
CHECK_DEADLOCK FALSE
