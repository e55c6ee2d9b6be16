SPECIFICATION Spec

CONSTANTS
    Tenants = {t1}
    Repos = {r1, r2}
    Sources = {s1}
    Bodies = {b1, b2}
    PropsOptional = FALSE
    Policies = {"delete"}
    PorchMayVanish = FALSE
    MaxRev = 3
    MaxForeign = 2
    MaxFaults = 1
    MaxEdits = 3
    MaxDrift = 1
    MaxSourceChanges = 0
    Concurrency = 1
    NoProps = NoProps
    InitBody = InitBody
    Absent = Absent

SYMMETRY Symmetry
INVARIANT NoOrphan
INVARIANT NeverPublishInit
INVARIANT OwnedUnique
PROPERTY ImplementsService
CHECK_DEADLOCK FALSE
