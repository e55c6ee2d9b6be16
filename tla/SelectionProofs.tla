--------------------------- MODULE SelectionProofs ---------------------------
(***************************************************************************)
(* Proofs about PackageSelection, for integers of any width and whatever   *)
(* revision strings other people use.                                      *)
(***************************************************************************)
EXTENDS PackageSelection, TLAPS

-----------------------------------------------------------------------------
(***************************************************************************)
(* Revision numbers.                                                       *)
(***************************************************************************)
LEMMA Widths ==
    /\ MaxInt \in Nat /\ MaxInt >= 1 /\ Modulus \in Nat /\ Modulus >= 4
    /\ Modulus = 2 * (MaxInt + 1)
    /\ \A a \in Ints : a \in Int /\ -(MaxInt + 1) <= a /\ a <= MaxInt
    /\ \A a \in Int : -(MaxInt + 1) <= a /\ a <= MaxInt => a \in Ints
BY SelectionAssumption DEF Modulus, Ints

\* What a number is as a uint.
LEMMA Unsigned ==
    ASSUME NEW a \in Ints
    PROVE  a % Modulus = IF a < 0 THEN a + Modulus ELSE a
<1>1. a \in Int /\ -(MaxInt + 1) <= a /\ a <= MaxInt
  BY Widths
<1>2. CASE a < 0
  <2>1. a \in -Modulus..-1
    BY <1>1, <1>2, Widths
  <2>2. QED
    BY <1>2, <2>1, Widths
<1>3. CASE ~(a < 0)
  <2>1. a \in 0..Modulus - 1
    BY <1>1, <1>3, Widths
  <2>2. QED
    BY <1>3, <2>1, Widths
<1>4. QED
  BY <1>2, <1>3

LEMMA NumberType ==
    ASSUME NEW r \in Names
    PROVE  getRevisionNumber(r) \in 0..Modulus - 1
<1>1. CASE r.v /\ r.atoi # NotANumber
  <2>1. r.atoi \in Ints
    BY <1>1 DEF Names
  <2>2. r.atoi % Modulus \in 0..Modulus - 1
    BY <2>1, Widths
  <2>3. QED
    BY <1>1, <2>2 DEF getRevisionNumber
<1>2. CASE ~(r.v /\ r.atoi # NotANumber)
  BY <1>2, Widths DEF getRevisionNumber
<1>3. QED
  BY <1>1, <1>2

\* The conversion back to int loses nothing.
LEMMA SignedAgain ==
    ASSUME NEW u \in 0..Modulus - 1
    PROVE  int(u) \in Ints /\ int(u) % Modulus = u
<1>1. u \in Int /\ 0 <= u /\ u <= Modulus - 1
  BY Widths
<1>2. CASE u \in Ints
  BY <1>1, <1>2, Unsigned, Widths DEF int
<1>3. CASE u \notin Ints
  <2>1. u > MaxInt
    BY <1>1, <1>3, Widths
  <2>2. u - Modulus \in Ints /\ u - Modulus < 0
    BY <1>1, <2>1, Widths
  <2>3. (u - Modulus) % Modulus = (u - Modulus) + Modulus
    BY <2>2, Unsigned
  <2>4. QED
    BY <1>1, <1>3, <2>2, <2>3, Widths DEF int
<1>4. QED
  BY <1>2, <1>3

LEMMA NewRevisionType ==
    ASSUME NEW r \in Names
    PROVE  /\ getNewRevision(r) \in Names
           /\ getRevisionNumber(getNewRevision(r)) = (getRevisionNumber(r) + 1) % Modulus
<1> DEFINE u == (getRevisionNumber(r) + 1) % Modulus
<1>1. getRevisionNumber(r) + 1 \in Int
  BY NumberType, Widths
<1>2. u \in 0..Modulus - 1
  BY <1>1, Widths
<1>3. getNewRevision(r) = [v |-> TRUE, atoi |-> int(u), canonical |-> TRUE]
  BY DEF getNewRevision
<1> HIDE DEF u
<1>4. int(u) \in Ints /\ int(u) % Modulus = u
  BY <1>2, SignedAgain
<1>5. getNewRevision(r) \in Names
  BY <1>3, <1>4 DEF Names
<1>6. getRevisionNumber(getNewRevision(r)) = int(u) % Modulus
  BY <1>3, <1>4, SelectionAssumption DEF getRevisionNumber
<1>7. QED
  BY <1>4, <1>5, <1>6 DEF u

(***************************************************************************)
(* The revision that getNewRevision names is read back by                  *)
(* getRevisionNumber as the next number, on both sides of the largest int, *)
(* where its string turns negative; only after the last number it starts   *)
(* over, with a revision that does not count as numbered.                  *)
(***************************************************************************)
THEOREM SuccessorCorrect ==
    ASSUME NEW r \in Names
    PROVE  getRevisionNumber(getNewRevision(r)) =
             IF getRevisionNumber(r) = Modulus - 1 THEN 0 ELSE getRevisionNumber(r) + 1
<1> DEFINE g == getRevisionNumber(r)
<1>1. g \in 0..Modulus - 1
  BY NumberType
<1>2. getRevisionNumber(getNewRevision(r)) = (g + 1) % Modulus
  BY NewRevisionType
<1> HIDE DEF g
<1>3. CASE g = Modulus - 1
  <2>1. g + 1 = Modulus /\ Modulus % Modulus = 0
    BY <1>3, Widths
  <2>2. QED
    BY <1>2, <1>3, <2>1 DEF g
<1>4. CASE g # Modulus - 1
  <2>1. g + 1 \in 0..Modulus - 1
    BY <1>1, <1>4, Widths
  <2>2. (g + 1) % Modulus = g + 1
    BY <2>1, Widths
  <2>3. QED
    BY <1>2, <1>4, <2>2 DEF g
<1>5. QED
  BY <1>3, <1>4

-----------------------------------------------------------------------------
(***************************************************************************)
(* The type invariant.                                                     *)
(***************************************************************************)
LEMMA OwnItemType ==
    ASSUME NEW rev \in Names, NEW body \in Contents \cup {NoContent}
    PROVE  OwnItem(rev, body) \in Items
BY SelectionAssumption DEF OwnItem, Items

LEMMA MainType == MainRev \in Names
BY DEF MainRev, Names

LEMMA PublishType ==
    ASSUME items \subseteq Items, NEW i \in Items
    PROVE  Publish(i) \subseteq Items
<1>1. [i EXCEPT !.rev = MainRev] \in Items
  BY MainType DEF Items
<1>2. QED
  BY <1>1 DEF Publish

LEMMA SelectionInit == Init => SelectionTypeOK
<1> SUFFICES ASSUME Init PROVE SelectionTypeOK
  OBVIOUS
<1>1. NoItem \in Items
  BY MainType, OwnItemType DEF NoItem
<1>2. QED
  BY <1>1, SelectionAssumption DEF Init, SelectionTypeOK

LEMMA SelectionNext ==
    ASSUME SelectionTypeOK, [Next]_vars
    PROVE  SelectionTypeOK'
<1>1. /\ ref \in Refs /\ items \subseteq Items /\ src \in Items /\ sel \in Items
      /\ phase \in {"idle", "found", "compare"} /\ others \in 0..MaxOthers
  BY DEF SelectionTypeOK
<1>2. src.body \in Contents \cup {NoContent} /\ sel.rev \in Names
  BY <1>1 DEF Items
<1>3. CASE GetPackageRevision
  <2>1. src' \in Items
    BY <1>1, <1>3 DEF GetPackageRevision, Matches
  <2>2. QED
    BY <1>1, <1>3, <2>1 DEF GetPackageRevision, SelectionTypeOK
<1>4. CASE GetOrCreate
  <2>1. [v |-> TRUE, atoi |-> 1, canonical |-> TRUE] \in Names
    BY Widths DEF Names
  <2>2. OwnItem([v |-> TRUE, atoi |-> 1, canonical |-> TRUE], NoContent) \in Items
    BY <2>1, OwnItemType
  <2>3. sel' \in Items /\ items' \subseteq Items
    BY <1>1, <1>4, <2>2 DEF GetOrCreate, Latest, Numbered
  <2>4. QED
    BY <1>1, <1>4, <2>3 DEF GetOrCreate, SelectionTypeOK
<1>5. CASE Complete
  <2>1. OwnItem(getNewRevision(sel.rev), src.body) \in Items
    BY <1>2, NewRevisionType, OwnItemType
  <2>2. [sel EXCEPT !.body = src.body] \in Items
    BY <1>1, <1>2 DEF Items
  <2>3. items' \subseteq Items
    BY <1>1, <1>5, <2>1, <2>2, PublishType DEF Complete
  <2>4. QED
    BY <1>1, <1>5, <2>3 DEF Complete, SelectionTypeOK
<1>6. CASE OthersStep
  <2>1. [repo : Repos, pkg : Packages \cup {Own}, rev : Spellings, body : Contents] \subseteq Items
    BY SelectionAssumption DEF Items
  <2>2. \A i \in Items, c \in Contents : [i EXCEPT !.body = c] \in Items
    BY DEF Items
  <2>3. items' \subseteq Items
    BY <1>1, <1>6, <2>1, <2>2, PublishType DEF OthersStep
  <2>4. others' \in 0..MaxOthers
    BY <1>1, <1>6, SelectionAssumption DEF OthersStep
  <2>5. QED
    BY <1>1, <1>6, <2>3, <2>4 DEF OthersStep, SelectionTypeOK
<1>7. CASE UNCHANGED vars
  BY <1>1, <1>7 DEF vars, SelectionTypeOK
<1>8. QED
  BY <1>3, <1>4, <1>5, <1>6, <1>7 DEF Next

(***************************************************************************)
(* Whatever other people name their revisions, getNewRevision never makes  *)
(* a revision string whose number does not fit an int, and what a          *)
(* reconcile selects has the form of a stored revision.                    *)
(***************************************************************************)
THEOREM SelectionTypeCorrect == Spec => []SelectionTypeOK
<1>1. SelectionTypeOK /\ [Next]_vars => SelectionTypeOK'
  BY SelectionNext
<1>2. QED
  BY <1>1, SelectionInit, PTL DEF Spec
=============================================================================
