SPECIFICATION Spec

CONSTANTS
    Tenants = {t1}
    Repos = {r1}
    Sources = {s1}
    Bodies = {b1}
    PropsOptional = FALSE
    Policies = {"orphan"}
    PorchMayVanish = FALSE
    MaxRev = 3
    MaxForeign = 2
    MaxFaults = 0
    MaxEdits = 2
    MaxDrift = 0
    MaxSourceChanges = 0
    Concurrency = 1
    NoProps = NoProps
    InitBody = InitBody
    Absent = Absent

PROPERTY OrphanPolicyKeeps
CHECK_DEADLOCK FALSE
