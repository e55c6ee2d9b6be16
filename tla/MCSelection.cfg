SPECIFICATION Spec

CONSTANTS
    MaxInt = 3
    NotANumber = NotANumber
    r1 = r1
    app = app
    c1 = c1
    Repos = {r1, r2}
    Home = r1
    Packages = {app}
    Own = own
    Any = Any
    Refs <- MCRefs
    Spellings <- MCSpellings
    Contents = {c1, c2}
    NoContent = NoContent
    Initial <- MCInitial
    MaxOthers = 2

INVARIANT SelectionTypeOK
PROPERTY PollingSettles
CHECK_DEADLOCK FALSE
