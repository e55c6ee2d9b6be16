SPECIFICATION Spec

CONSTANTS
    Tenants = {t1, t2}
    Repos = {r1}
    Sources = {s1}
    Bodies = {b1}
    PropsOptional = FALSE
    Policies = {"delete"}
    PorchMayVanish = FALSE
    MaxRev = 1
    MaxForeign = 2
    MaxFaults = 1
    MaxEdits = 4
    MaxDrift = 0
    MaxSourceChanges = 0
    Concurrency = 2
    NoProps = NoProps
    InitBody = InitBody
    Absent = Absent

SYMMETRY Symmetry
PROPERTY NoLossWhileLive
CHECK_DEADLOCK FALSE
