SPECIFICATION Spec

CONSTANTS
    Names = {"", "src", "a", "b", "namespace", "tenant"}
    SourceDocs <- MCDocs
    MaxDocs = 2
    SrcDirs = {0, 1, 3}
    MaxChanges = 1

INVARIANT ContentTypeOK
INVARIANT SourceInstalled
INVARIANT EqualMeansSame
INVARIANT RoundTrip
INVARIANT VerdictWithoutTwins
