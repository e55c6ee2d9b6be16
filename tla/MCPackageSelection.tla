------------------------- MODULE MCPackageSelection -------------------------
(***************************************************************************)
(* The revision strings and references that TLC tries, with integers of    *)
(* three bits: the largest int is 3, and "v-4" follows "v3".               *)
(***************************************************************************)
EXTENDS PackageSelection

CONSTANT r1, app, c1

Name(v, atoi, canonical) == [v |-> v, atoi |-> atoi, canonical |-> canonical]

\* main, 1, v1, v01, v3, v-2, v-1
MCSpellings ==
    { MainRev, Name(FALSE, 1, TRUE), Name(TRUE, 1, TRUE), Name(TRUE, 1, FALSE),
      Name(TRUE, 3, TRUE), Name(TRUE, -2, TRUE), Name(TRUE, -1, TRUE) }

\* A complete reference, one without a revision, and one with a revision only.
MCRefs ==
    { [repo |-> r1, pkg |-> app, rev |-> MainRev],
      [repo |-> r1, pkg |-> app, rev |-> Any],
      [repo |-> Any, pkg |-> Any, rev |-> MainRev] }

\* Nothing yet, or a package on its main branch, or one that was published.
MCInitial ==
    LET item(rev) == [repo |-> r1, pkg |-> app, rev |-> rev, body |-> c1] IN
    { {}, {item(MainRev)}, {item(MainRev), item(Name(TRUE, 1, TRUE))} }
=============================================================================
