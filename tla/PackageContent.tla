--------------------------- MODULE PackageContent ---------------------------
(***************************************************************************)
(* What one reconcile after another does to the content of a Tenant's      *)
(* package: read the source package, move it into the tenant's namespace,  *)
(* merge it with the generated "namespace" package, compare the result     *)
(* with the revision in Porch, and rewrite the revision when they differ.  *)
(* This is the data behind "body" and "want" of PackageRevision.           *)
(*                                                                         *)
(* A file of a package is named by its directory and its name; a KRM file  *)
(* holds a sequence of documents.  A document is what IsEqual sees of a    *)
(* resource: its kind, its namespace and the field that the controller     *)
(* rewrites (ref).  Annotations only carry the path.                       *)
(***************************************************************************)
EXTENDS SequencesExt, FiniteSets

CONSTANTS
    Names,        \* values of a document's namespace and of the rewritten field
    SourceDocs,   \* documents that a source package may hold
    MaxDocs,      \* bound on the documents of one file of the source
    SrcDirs,      \* names of source packages, as directories of the merged one
    MaxChanges    \* bound on changes of the source

Tenant == "tenant"
Kinds == {"Kptfile", "Namespace", "PackageContext", "RoleBinding", "Deployment", "Other"}
Docs == [kind : Kinds, ns : Names, ref : Names]

ASSUME NamesAssumption == {"", "a", "namespace", Tenant} \subseteq Names

ASSUME ContentAssumption ==
    /\ SourceDocs \subseteq Docs
    /\ MaxDocs \in Nat \ {0} /\ MaxChanges \in Nat
    /\ SrcDirs \subseteq 0..3

\* Directories in the order of their names: the root, a package that sorts
\* before "namespace", "namespace" itself, and one that sorts after it.
Root == 0
NamespaceDir == 2
Dirs == 0..3

\* File names in their order; the last one is not KRM, so includeFile skips it.
Kptfile == 1
Manifest == 2
ReadMe == 3
Paths == Dirs \X {Kptfile, Manifest, ReadMe}

Doc(kind, ns, ref) == [kind |-> kind, ns |-> ns, ref |-> ref]
Nodes == [path : Paths, doc : Docs]

VARIABLES
    srcDir,   \* directory of the source package in the merged package
    source,   \* the KRM files of the source package
    read,     \* the source that the merged package was made from
    wrote,    \* the source that the revision was last written from
    files,    \* the files of the revision, all kinds
    merged,   \* the merged package
    arnl,     \* the slice of actual resources: its array and its length
    n, i,     \* loop indices of IsEqual into merged and into arnl
    span,     \* length of arnl when the inner loop started
    found,
    phase,
    changes

vars == <<srcDir, source, read, wrote, files, merged, arnl, n, i, span, found, phase, changes>>

-----------------------------------------------------------------------------
includeFile(p) == p[2] # ReadMe

\* A set in the order given by Lt: the k-th element has k - 1 others before it.
InOrder(S, Lt(_, _)) ==
    [k \in 1..Cardinality(S) |-> CHOOSE x \in S : Cardinality({y \in S : Lt(y, x)}) = k - 1]

\* Where the documents of the KRM files are: the file, and the place in it.
Slots(fs) == UNION {{p} \X DOMAIN fs[p] : p \in {q \in DOMAIN fs : includeFile(q)}}

Before(s, t) ==
    LET p == s[1]
        q == t[1]
    IN  \/ p[1] < q[1]
        \/ p[1] = q[1] /\ p[2] < q[2]
        \/ p = q /\ s[2] < t[2]

\* The documents of the KRM files, in the order of their paths.
ResourcesToPackageBuffer(fs) ==
    LET ss == InOrder(Slots(fs), Before)
    IN  [k \in DOMAIN ss |-> [path |-> ss[k][1], doc |-> fs[ss[k][1]][ss[k][2]]]]

\* SetNamespace on every document, and the tenant's name copied into the one
\* field that is rewritten for some kinds, if the document has that field.
Relocate(d) ==
    [d EXCEPT !.ns = Tenant,
              !.ref = IF d.kind \in {"RoleBinding", "Deployment", "PackageContext"} /\ d.ref # ""
                      THEN Tenant ELSE d.ref]

\* Mutant: only the first document is added to the resources.
FirstDocument(src) ==
    LET buf == ResourcesToPackageBuffer(src)
    IN  [k \in DOMAIN buf \cap {1} |-> [buf[k] EXCEPT !.doc = Relocate(buf[k].doc)]]

createSourcePackage(src) ==
    LET buf == ResourcesToPackageBuffer(src)
    IN  [k \in DOMAIN buf |-> [buf[k] EXCEPT !.doc = Relocate(buf[k].doc)]]

BuildKptFile(name) == [path |-> <<Root, Kptfile>>, doc |-> Doc("Kptfile", "", name)]

BuildNamespace(name) == [path |-> <<Root, Manifest>>, doc |-> Doc("Namespace", "", name)]

createNewPackage == <<BuildNamespace(Tenant), BuildKptFile("namespace")>>

\* The map of sub-packages: a second entry under the same name replaces the first.
SubPackages(src) ==
    [d \in {srcDir, NamespaceDir} |->
        IF d = NamespaceDir THEN createNewPackage ELSE createSourcePackage(src)]

\* Mutant: the file name is lost on the way.
JoinOther(dir, p) == <<dir, p[2] + 1>>

Join(dir, p) == <<dir, p[2]>>

\* The merged package, for one iteration order of the map.
MergePackages(subs, order) ==
    LET moved(d) == [k \in DOMAIN subs[d] |-> [subs[d][k] EXCEPT !.path = Join(d, subs[d][k].path)]]
    IN  <<BuildKptFile(Tenant)>> \o FlattenSeq([k \in DOMAIN order |-> moved(order[k])])

DocsOf(nodes) == [k \in DOMAIN nodes |-> nodes[k].doc]

DocsAt(nodes, p) ==
    LET at == InOrder({k \in DOMAIN nodes : nodes[k].path = p}, <)
    IN  [k \in DOMAIN at |-> nodes[at[k]].doc]

\* Mutant: files that are no longer part of the package are kept.
KeepAll(fs, nodes) ==
    LET ps == {nodes[k].path : k \in DOMAIN nodes}
    IN  [p \in DOMAIN fs \cup ps |-> IF p \in ps THEN DocsAt(nodes, p) ELSE fs[p]]

CreateUpdatedResource(fs, nodes) ==
    LET kept == {p \in DOMAIN fs : ~includeFile(p)}
        ps   == {nodes[k].path : k \in DOMAIN nodes}
    IN  [p \in kept \cup ps |-> IF p \in ps THEN DocsAt(nodes, p) ELSE fs[p]]

-----------------------------------------------------------------------------
\* No source holds the same document twice; only in the tenant's namespace
\* may two of them become equal.
Sources ==
    {s \in [{<<Root, Kptfile>>, <<Root, Manifest>>} -> BoundedSeq(SourceDocs, MaxDocs)] :
        IsInjective(DocsOf(ResourcesToPackageBuffer(s)))}

NoSource == [p \in {} |-> <<>>]

\* The files that Porch's init task makes.
InitFiles ==
    [p \in {<<Root, Kptfile>>, <<Root, Manifest>>, <<Root, ReadMe>>} |->
        CASE p[2] = Kptfile  -> <<Doc("Kptfile", "", "a")>>
          [] p[2] = Manifest -> <<Doc("PackageContext", "", "a")>>
          [] p[2] = ReadMe   -> <<>>]

Init ==
    /\ srcDir \in SrcDirs
    /\ source \in Sources
    /\ read = NoSource /\ wrote = NoSource
    /\ files = InitFiles
    /\ merged = <<>>
    /\ arnl = [buf |-> <<>>, len |-> 0]
    /\ n = 0 /\ i = 0 /\ span = 0 /\ found = FALSE
    /\ phase = "merge"
    /\ changes = MaxChanges

\* Reconcile up to IsEqual; the map is iterated in any order.
Merge ==
    /\ phase = "merge"
    /\ read' = source
    /\ \E order \in SetToSeqs({srcDir, NamespaceDir}) :
         merged' = MergePackages(SubPackages(source), order)
    /\ LET buf == ResourcesToPackageBuffer(files) IN
         /\ arnl' = [buf |-> DocsOf(buf), len |-> Len(buf)]
         /\ span' = Len(buf)
    /\ n' = 1 /\ i' = 1 /\ found' = FALSE
    /\ phase' = "scan"
    /\ UNCHANGED <<srcDir, source, wrote, files, changes>>

(***************************************************************************)
(* IsEqual.  The inner loop ranges over the slice as it was when the loop  *)
(* started, while its body removes elements from the same array: the later *)
(* elements move down, and the last place keeps its old element.  Slicing  *)
(* beyond the current length panics.                                       *)
(***************************************************************************)
CutOut(a, k) ==
    [buf |-> [j \in DOMAIN a.buf |-> IF k <= j /\ j < a.len THEN a.buf[j + 1] ELSE a.buf[j]],
     len |-> a.len - 1]

\* Mutant: the remainder starts one element too late.
BoundsLate(k, len) == k < len

InBounds(k, len) == k <= len

Scan ==
    /\ phase = "scan"
    /\ i <= span
    /\ \/ /\ merged[n].doc # arnl.buf[i]
          /\ i' = i + 1
          /\ UNCHANGED <<arnl, found, phase>>
       \/ /\ merged[n].doc = arnl.buf[i]
          /\ InBounds(i, arnl.len)
          /\ arnl' = CutOut(arnl, i)
          /\ found' = TRUE
          /\ i' = i + 1
          /\ UNCHANGED phase
       \/ /\ merged[n].doc = arnl.buf[i]
          /\ ~InBounds(i, arnl.len)
          /\ phase' = "panic"
          /\ UNCHANGED <<arnl, found, i>>
    /\ UNCHANGED <<srcDir, source, read, wrote, files, merged, n, span, changes>>

\* Mutant: resources that should be deleted do not count.
AnyLeft(left) == "equal"

Verdict(left) == IF left # 0 THEN "update" ELSE "equal"

NextResource ==
    /\ phase = "scan"
    /\ i > span
    /\ \/ ~found /\ phase' = "update" /\ UNCHANGED <<n, i, span, found>>
       \/ /\ found /\ n < Len(merged)
          /\ n' = n + 1 /\ i' = 1 /\ span' = arnl.len /\ found' = FALSE
          /\ UNCHANGED phase
       \/ /\ found /\ n = Len(merged)
          /\ phase' = Verdict(arnl.len)
          /\ UNCHANGED <<n, i, span, found>>
    /\ UNCHANGED <<srcDir, source, read, wrote, files, merged, arnl, changes>>

-----------------------------------------------------------------------------
\* Update, on the draft or on a new revision; Approve follows.
Update ==
    /\ phase = "update"
    /\ files' = CreateUpdatedResource(files, merged)
    /\ wrote' = read
    /\ phase' = "merge"
    /\ UNCHANGED <<srcDir, source, read, merged, arnl, n, i, span, found, changes>>

\* The next poll, or the restart after a panic.
Poll ==
    /\ phase \in {"equal", "panic"}
    /\ phase' = "merge"
    /\ UNCHANGED <<srcDir, source, read, wrote, files, merged, arnl, n, i, span, found, changes>>

ChangeSource ==
    /\ changes > 0
    /\ changes' = changes - 1
    /\ source' \in Sources \ {source}
    /\ UNCHANGED <<srcDir, read, wrote, files, merged, arnl, n, i, span, found, phase>>

Next == Merge \/ Scan \/ NextResource \/ Update \/ Poll \/ ChangeSource

Spec == Init /\ [][Next]_vars

-----------------------------------------------------------------------------
\* The documents of the revision and of the merged package keep to their
\* types, and every merged document has a path that is read back as KRM.
ContentTypeOK ==
    /\ DOMAIN files \subseteq Paths
    /\ \A p \in DOMAIN files : files[p] \in Seq(Docs)
    /\ merged \in Seq(Nodes)
    /\ \A k \in DOMAIN merged : includeFile(merged[k].path)
    /\ arnl.len \in 0..Len(arnl.buf)
    /\ phase \in {"merge", "scan", "update", "equal", "panic"}

Stored == DocsOf(ResourcesToPackageBuffer(files))

\* Neither the source, on its way into the tenant's namespace, nor the revision
\* holds two documents that IsEqual cannot tell apart.
NoTwins == IsInjective(DocsOf(createSourcePackage(read))) /\ IsInjective(Stored)

\* IsEqual says equal only when the revision holds the documents of the merged
\* package and no others, in whatever order they come; without twins also each
\* exactly once.
EqualMeansSame ==
    phase = "equal" =>
        /\ Range(Stored) = Range(DocsOf(merged))
        /\ NoTwins => Len(Stored) = Len(merged)

\* Writing the revision and reading it back is a fixed point: a revision that
\* was written from a source is not found different from the same source, so
\* polling does not create revision after revision.
RoundTrip == phase = "update" /\ NoTwins => wrote # read

\* IsEqual reaches a verdict: its indices stay in the slice that it shrinks.
NeverPanics == phase # "panic"

\* IsEqual reaches a verdict on every revision without twins, whatever older or
\* partial content that has and whatever it is compared with.
VerdictWithoutTwins == IsInjective(Stored) => NeverPanics

\* When the package is found up to date, it holds every document of the source
\* it was compared with, in the tenant's namespace.
SourceInstalled ==
    phase = "equal" =>
        \A p \in DOMAIN read : \A k \in DOMAIN read[p] :
            Relocate(read[p][k]) \in Range(Stored)
=============================================================================
