SPECIFICATION Spec

CONSTANTS
    Names = {"", "src", "a", "b", "namespace", "tenant"}
    SourceDocs <- MCDocs
    MaxDocs = 2
    SrcDirs = {1}
    MaxChanges = 0

INVARIANT NeverPanics
