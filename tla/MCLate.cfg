SPECIFICATION LateFairSpec

CONSTANTS
    Tenants = {t1}
    Repos = {r1}
    Sources = {s1}
    Bodies = {b1, b2}
    PropsOptional = FALSE
    Policies = {"delete"}
    PorchMayVanish = FALSE
    MaxRev = 4
    MaxForeign = 0
    MaxFaults = 1
    MaxEdits = 3
    MaxDrift = 0
    MaxSourceChanges = 2
    Concurrency = 1
    NoProps = NoProps
    InitBody = InitBody
    Absent = Absent

INVARIANT OnlyStraysOutlive
PROPERTY DeletionCompletes
PROPERTY Converges
CHECK_DEADLOCK FALSE
