SPECIFICATION FairSpec

CONSTANTS
    Tenants = {t1}
    Repos = {r1}
    Sources = {s1}
    Bodies = {b1, b2}
    PropsOptional = FALSE
    Policies = {"delete"}
    PorchMayVanish = TRUE
    MaxRev = 4
    MaxForeign = 1
    MaxFaults = 1
    MaxEdits = 3
    MaxDrift = 1
    MaxSourceChanges = 1
    Concurrency = 1
    NoProps = NoProps
    InitBody = InitBody
    Absent = Absent

PROPERTY DeletionCompletes
PROPERTY Converges
CHECK_DEADLOCK FALSE
