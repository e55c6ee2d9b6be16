-------------------------- MODULE PackageSelection --------------------------
(***************************************************************************)
(* How the controller finds its way in the list of package revisions by    *)
(* names alone: the source package by the Tenant's packageRef, whose empty *)
(* fields match anything (IsFound), and its own latest revision by the     *)
(* number in the revision string (getRevisionNumber), from which the next  *)
(* one is named (getNewRevision).  Other modules use numbers for revisions *)
(* and one source per reference; here are the names.  A reconcile has      *)
(* three steps, in which the calls that change a revision are one.         *)
(*                                                                         *)
(* A revision string is what the code can tell of it: whether it starts    *)
(* with "v", what Atoi makes of it without its "v"s, and whether it is the *)
(* canonical spelling of that number ("v1") or another ("v01", "vv1").     *)
(***************************************************************************)
EXTENDS Integers

CONSTANTS
    MaxInt,      \* the largest int: 2^(w - 1) - 1, where w is 64 in the code
    NotANumber,  \* what Atoi fails on
    Repos,
    Home,        \* the Tenant's repositoryRef
    Packages,    \* packages of other people
    Own,         \* the package of the Tenant
    Any,         \* an empty field of a reference
    Refs,        \* packageRefs that the Tenant may have
    Spellings,   \* revision strings that other people use
    Contents,
    NoContent,   \* content of a revision that was just created
    Initial,     \* what Porch may hold when the Tenant is made
    MaxOthers    \* bound on the steps of other people

Ints == -(MaxInt + 1) .. MaxInt

\* How many values int and uint have: 2^w.
Modulus == 2 * (MaxInt + 1)

Names == [v : BOOLEAN, atoi : Ints \cup {NotANumber}, canonical : BOOLEAN]

Items == [repo : Repos, pkg : Packages \cup {Own}, rev : Names, body : Contents \cup {NoContent}]

ASSUME SelectionAssumption ==
    /\ MaxInt \in Nat \ {0}
    /\ NotANumber \notin Ints
    /\ Home \in Repos
    /\ Own \notin Packages
    /\ NoContent \notin Contents
    /\ Refs \subseteq [repo : Repos \cup {Any}, pkg : Packages \cup {Any}, rev : Names \cup {Any}]
    /\ Spellings \subseteq Names
    /\ Initial \subseteq SUBSET Items
    /\ MaxOthers \in Nat

VARIABLES
    ref,     \* the Tenant's packageRef
    items,   \* the package revisions in Porch
    src,     \* the source that the reconcile found
    sel,     \* the revision that GetOrCreate selected
    phase,
    others   \* steps that are left to other people

vars == <<ref, items, src, sel, phase, others>>

-----------------------------------------------------------------------------
\* Mutant: numbers are compared as signed integers.
SignedNumber(r) == IF r.v /\ r.atoi # NotANumber THEN r.atoi ELSE 0

\* The conversion to uint64 takes a negative number to one of the upper half.
getRevisionNumber(r) ==
    IF r.v /\ r.atoi # NotANumber THEN r.atoi % Modulus ELSE 0

int(u) == IF u \in Ints THEN u ELSE u - Modulus

\* Mutant: the number is not incremented in the width of int.
NewRevisionWide(r) ==
    [v |-> TRUE, atoi |-> int(getRevisionNumber(r)) + 1, canonical |-> TRUE]

getNewRevision(r) ==
    [v |-> TRUE, atoi |-> int((getRevisionNumber(r) + 1) % Modulus), canonical |-> TRUE]

IsFound(x, selector) ==
    /\ selector.repo = Any \/ x.repo = selector.repo
    /\ selector.pkg = Any \/ x.pkg = selector.pkg
    /\ selector.rev = Any \/ x.rev = selector.rev

\* The list is not ordered, so the loop may come upon any of these first.
Matches == {i \in items : IsFound(i, ref)}

Numbered == {i \in items : i.pkg = Own /\ getRevisionNumber(i.rev) > 0}

Latest ==
    {i \in Numbered : \A j \in Numbered : getRevisionNumber(j.rev) <= getRevisionNumber(i.rev)}

OwnItem(rev, body) == [repo |-> Home, pkg |-> Own, rev |-> rev, body |-> body]

Taken(i) == \E j \in items : j.repo = i.repo /\ j.pkg = i.pkg /\ j.rev = i.rev

MainRev == [v |-> FALSE, atoi |-> NotANumber, canonical |-> TRUE]

\* Publishing i also makes it what the main branch holds of its package.
Publish(i) ==
    {j \in items : j.repo = i.repo /\ j.pkg = i.pkg => j.rev \notin {i.rev, MainRev}}
    \cup {i, [i EXCEPT !.rev = MainRev]}

-----------------------------------------------------------------------------
NoItem == OwnItem(MainRev, NoContent)

Init ==
    /\ ref \in Refs
    /\ items \in Initial
    /\ src = NoItem /\ sel = NoItem
    /\ phase = "idle"
    /\ others = MaxOthers

GetPackageRevision ==
    /\ phase = "idle"
    /\ src' \in Matches
    /\ phase' = "found"
    /\ UNCHANGED <<ref, items, sel, others>>

GetOrCreate ==
    /\ phase = "found"
    /\ \/ sel' \in Latest /\ UNCHANGED items
       \/ /\ Numbered = {}
          /\ sel' = OwnItem([v |-> TRUE, atoi |-> 1, canonical |-> TRUE], NoContent)
          /\ items' = items \cup {sel'}
    /\ phase' = "compare"
    /\ UNCHANGED <<ref, src, others>>

\* The rest of the reconcile: a revision that was just created is filled and
\* published, one that differs gets a successor, unless Porch has one of that name
\* already.
Complete ==
    LET next == OwnItem(getNewRevision(sel.rev), src.body) IN
    /\ phase = "compare"
    /\ \/ /\ sel \notin items \/ sel.body = src.body
          /\ UNCHANGED items
       \/ /\ sel \in items /\ sel.body = NoContent
          /\ items' = Publish([sel EXCEPT !.body = src.body])
       \/ /\ sel \in items /\ sel.body \notin {NoContent, src.body}
          /\ items' = IF Taken(next) THEN items ELSE Publish(next)
    /\ phase' = "idle"
    /\ UNCHANGED <<ref, src, sel, others>>

\* Other people publish revisions, of the Tenant's package too, remove them, and
\* change what a branch holds.
OthersStep ==
    /\ others > 0
    /\ others' = others - 1
    /\ \/ \E i \in [repo : Repos, pkg : Packages \cup {Own}, rev : Spellings, body : Contents] :
            ~Taken(i) /\ items' = Publish(i)
       \/ \E i \in items : items' = items \ {i}
       \/ \E i \in items, c \in Contents :
            /\ i.pkg \in Packages
            /\ items' = (items \ {i}) \cup {[i EXCEPT !.body = c]}
    /\ UNCHANGED <<ref, src, sel, phase>>

Next == GetPackageRevision \/ GetOrCreate \/ Complete \/ OthersStep

\* Polling goes on for as long as the Tenant exists.
Spec == Init /\ [][Next]_vars /\ WF_vars(GetPackageRevision \/ GetOrCreate \/ Complete)

-----------------------------------------------------------------------------
\* Revision strings that the controller makes fit the width of its integers.
SelectionTypeOK ==
    /\ ref \in Refs
    /\ items \subseteq Items
    /\ src \in Items /\ sel \in Items
    /\ phase \in {"idle", "found", "compare"}
    /\ others \in 0..MaxOthers

\* The fields that the reference gives are those of one package revision, which
\* is not one of the Tenant's own package.
Unambiguous ==
    \E i \in items :
        /\ i.pkg # Own
        /\ {j \in items : \A f \in DOMAIN ref : ref[f] \in {Any, j[f]}} = {i}

\* Nobody has used the last number, after which getNewRevision starts over.
Room == \A i \in Numbered : getRevisionNumber(i.rev) # Modulus - 1

\* Whatever names other people have used, polling comes to rest: the latest
\* revision by number is one with the content of the source, and no poll makes
\* another one, if the reference names one source and numbers are left.
PollingSettles ==
    <>[](phase = "compare" /\ sel \in items /\ Unambiguous /\ Room => sel.body = src.body)
=============================================================================
