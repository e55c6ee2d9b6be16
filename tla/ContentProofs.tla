---------------------------- MODULE ContentProofs ----------------------------
(***************************************************************************)
(* Proofs about PackageContent, for any names in the documents and any     *)
(* number of documents in the files of a source.                           *)
(***************************************************************************)
EXTENDS PackageContent, FiniteSetTheorems, FunctionTheorems, TLAPS

-----------------------------------------------------------------------------
(***************************************************************************)
(* A finite set in order: every element has its place.                     *)
(***************************************************************************)
Below(S, R, x) == {y \in S : <<y, x>> \in R}

TotalOrder(S, R) ==
    /\ \A x \in S : <<x, x>> \notin R
    /\ \A x, y \in S : x # y => <<x, y>> \in R \/ <<y, x>> \in R
    /\ \A x, y, z \in S : <<x, y>> \in R /\ <<y, z>> \in R => <<x, z>> \in R

LEMMA BelowGrows ==
    ASSUME NEW S, IsFiniteSet(S), NEW R, TotalOrder(S, R), NEW x \in S, NEW y \in S,
           <<x, y>> \in R
    PROVE  Cardinality(Below(S, R, x)) < Cardinality(Below(S, R, y))
<1> DEFINE X == Below(S, R, x)
           Y == Below(S, R, y)
<1>1. X \subseteq Y /\ x \in Y /\ x \notin X /\ Y \subseteq S
  BY DEF Below, TotalOrder
<1> HIDE DEF X, Y
<1>2. IsFiniteSet(Y)
  BY <1>1, FS_Subset
<1>3. IsFiniteSet(X) /\ Cardinality(X) <= Cardinality(Y) /\ Cardinality(X) # Cardinality(Y)
  BY <1>1, <1>2, FS_Subset
<1>4. Cardinality(X) \in Nat /\ Cardinality(Y) \in Nat
  BY <1>2, <1>3, FS_CardinalityType
<1>5. Cardinality(X) < Cardinality(Y)
  BY <1>3, <1>4
<1>6. QED
  BY <1>5 DEF X, Y

LEMMA BelowPlaces ==
    ASSUME NEW S, IsFiniteSet(S), NEW R, TotalOrder(S, R)
    PROVE  /\ \A x \in S : Cardinality(Below(S, R, x)) \in 0..Cardinality(S) - 1
           /\ \A x, y \in S : Cardinality(Below(S, R, x)) = Cardinality(Below(S, R, y)) => x = y
           /\ \A k \in 1..Cardinality(S) : \E x \in S : Cardinality(Below(S, R, x)) = k - 1
<1> DEFINE c == Cardinality(S)
           T == 0..c - 1
<1>1. c \in Nat
  BY FS_CardinalityType
<1>2. ASSUME NEW x \in S
      PROVE  Cardinality(Below(S, R, x)) \in T
  <2> DEFINE X == Below(S, R, x)
  <2>1. X \subseteq S /\ X # S
    BY DEF Below, TotalOrder
  <2> HIDE DEF X
  <2>2. IsFiniteSet(X) /\ Cardinality(X) <= c /\ Cardinality(X) # c
    BY <2>1, FS_Subset
  <2>3. Cardinality(X) \in Nat
    BY <2>2, FS_CardinalityType
  <2>4. Cardinality(X) \in T
    BY <1>1, <2>2, <2>3
  <2>5. QED
    BY <2>4 DEF X
<1>3. ASSUME NEW x \in S, NEW y \in S, x # y
      PROVE  Cardinality(Below(S, R, x)) # Cardinality(Below(S, R, y))
  <2>1. <<x, y>> \in R \/ <<y, x>> \in R
    BY <1>3 DEF TotalOrder
  <2>2. \/ Cardinality(Below(S, R, x)) < Cardinality(Below(S, R, y))
        \/ Cardinality(Below(S, R, y)) < Cardinality(Below(S, R, x))
    BY <2>1, BelowGrows
  <2>3. QED
    BY <1>1, <1>2, <2>2
<1> DEFINE f == [x \in S |-> Cardinality(Below(S, R, x))]
<1>4. f \in Injection(S, T)
  <2>1. f \in [S -> T] /\ \A x, y \in S : f[x] = f[y] => x = y
    BY <1>2, <1>3
  <2> HIDE DEF f, T
  <2>2. QED
    BY <2>1, Fun_IsInj
<1>5. IsFiniteSet(T) /\ Cardinality(T) = c
  BY <1>1, FS_Interval
<1>6. f \in Surjection(S, T)
  <2> HIDE DEF f, T
  <2>1. QED
    BY <1>4, <1>5, FS_Injection
<1>7. \A m \in T : \E x \in S : f[x] = m
  <2> HIDE DEF f, T
  <2>1. QED
    BY <1>6, Fun_SurjectionProperties
<1>8. \A k \in 1..c : k - 1 \in T
  BY <1>1
<1>9. QED
  BY <1>2, <1>3, <1>7, <1>8

Listing(f, S) ==
    /\ Cardinality(S) \in Nat
    /\ f \in [1..Cardinality(S) -> S]
    /\ IsInjective(f)
    /\ Range(f) = S

LEMMA PlacesListing ==
    ASSUME NEW S, IsFiniteSet(S), NEW rank, NEW f,
           \A x \in S : rank[x] \in 0..Cardinality(S) - 1,
           \A x, y \in S : rank[x] = rank[y] => x = y,
           f \in [1..Cardinality(S) -> S],
           \A k \in 1..Cardinality(S) : rank[f[k]] = k - 1
    PROVE  Listing(f, S)
<1>1. Cardinality(S) \in Nat
  BY FS_CardinalityType
<1>2. IsInjective(f)
  BY <1>1 DEF IsInjective
<1>3. ASSUME NEW x \in S
      PROVE  x \in Range(f)
  <2>1. rank[x] + 1 \in 1..Cardinality(S) /\ rank[x] \in Int
    BY <1>1
  <2>2. f[rank[x] + 1] = x
    BY <2>1
  <2>3. QED
    BY <2>1, <2>2 DEF Range
<1>4. QED
  BY <1>1, <1>2, <1>3 DEF Listing, Range

LEMMA InOrderSlots ==
    ASSUME NEW S, IsFiniteSet(S), S \subseteq Paths \X Nat
    PROVE  Listing(InOrder(S, Before), S)
<1> DEFINE R == {e \in S \X S : Before(e[1], e[2])}
           rank == [x \in S |-> Cardinality({y \in S : Before(y, x)})]
           f == [k \in 1..Cardinality(S) |->
                    CHOOSE x \in S : Cardinality({y \in S : Before(y, x)}) = k - 1]
<1>1. \A x, y \in S : <<x, y>> \in R <=> Before(x, y)
  OBVIOUS
<1>2. TotalOrder(S, R)
  <2>1. \A s \in S : /\ s = <<s[1], s[2]>> /\ s[1] = <<s[1][1], s[1][2]>>
                     /\ s[1][1] \in Int /\ s[1][2] \in Int /\ s[2] \in Int
    BY DEF Paths, Dirs, Kptfile, Manifest, ReadMe
  <2>2. \A x \in S : ~Before(x, x)
    BY <2>1 DEF Before
  <2>3. \A x, y \in S : x # y => Before(x, y) \/ Before(y, x)
    BY <2>1 DEF Before
  <2>4. \A x, y, z \in S : Before(x, y) /\ Before(y, z) => Before(x, z)
    BY <2>1 DEF Before
  <2> HIDE DEF R
  <2>5. QED
    BY <1>1, <2>2, <2>3, <2>4 DEF TotalOrder
<1> HIDE DEF R
<1>3. \A x \in S : rank[x] = Cardinality(Below(S, R, x))
  <2>1. \A x \in S : {y \in S : Before(y, x)} = Below(S, R, x)
    BY <1>1 DEF Below
  <2>2. QED
    BY <2>1
<1>4. InOrder(S, Before) = f
  BY DEF InOrder
<1>5. \A k \in 1..Cardinality(S) : \E x \in S : Cardinality({y \in S : Before(y, x)}) = k - 1
  BY <1>2, <1>3, BelowPlaces
<1>6. f \in [1..Cardinality(S) -> S] /\ \A k \in 1..Cardinality(S) : rank[f[k]] = k - 1
  BY <1>5
<1>7. Listing(f, S)
  <2> HIDE DEF f, rank
  <2>1. /\ \A x \in S : rank[x] \in 0..Cardinality(S) - 1
        /\ \A x, y \in S : rank[x] = rank[y] => x = y
    BY <1>2, <1>3, BelowPlaces
  <2>2. QED
    BY <1>6, <2>1, PlacesListing
<1>8. QED
  BY <1>4, <1>7

LEMMA RankPlaces ==
    ASSUME NEW S, IsFiniteSet(S), NEW R, TotalOrder(S, R), NEW rank,
           \A x \in S : rank[x] = Cardinality(Below(S, R, x))
    PROVE  /\ \A x \in S : rank[x] \in 0..Cardinality(S) - 1
           /\ \A x, y \in S : rank[x] = rank[y] => x = y
           /\ \A k \in 1..Cardinality(S) : \E x \in S : rank[x] = k - 1
BY BelowPlaces

LEMMA InOrderNumbers ==
    \A S : IsFiniteSet(S) /\ S \subseteq Nat => Listing(InOrder(S, <), S)
<1>1. ASSUME NEW S, IsFiniteSet(S), S \subseteq Nat
      PROVE  Listing(InOrder(S, <), S)
  <2> DEFINE R == {e \in S \X S : e[1] < e[2]}
             rank == [x \in S |-> Cardinality({y \in S : y < x})]
             f == [k \in 1..Cardinality(S) |->
                      CHOOSE x \in S : Cardinality({y \in S : y < x}) = k - 1]
  <2>1. \A x, y \in S : <<x, y>> \in R <=> x < y
    OBVIOUS
  <2>2. TotalOrder(S, R)
    BY <1>1, <2>1 DEF TotalOrder
  <2> HIDE DEF R
  <2>3. \A x \in S : rank[x] = Cardinality(Below(S, R, x))
    <3>1. \A x \in S : {y \in S : y < x} = Below(S, R, x)
      BY <2>1 DEF Below
    <3>2. QED
      BY <3>1
  <2>4. InOrder(S, <) = f
    BY DEF InOrder
  <2>5. IsFiniteSet(S)
    BY <1>1
  <2>6. /\ \A x \in S : rank[x] \in 0..Cardinality(S) - 1
        /\ \A x, y \in S : rank[x] = rank[y] => x = y
        /\ \A k \in 1..Cardinality(S) : \E x \in S : rank[x] = k - 1
    <3> HIDE DEF rank
    <3>1. QED
      BY <2>2, <2>3, <2>5, RankPlaces
  <2>7. f \in [1..Cardinality(S) -> S] /\ \A k \in 1..Cardinality(S) : rank[f[k]] = k - 1
    <3>1. ASSUME NEW k \in 1..Cardinality(S)
          PROVE  f[k] \in S /\ Cardinality({y \in S : y < f[k]}) = k - 1
      <4>1. f[k] = CHOOSE x \in S : Cardinality({y \in S : y < x}) = k - 1
        OBVIOUS
      <4>2. \E x \in S : Cardinality({y \in S : y < x}) = k - 1
        BY <2>6
      <4> HIDE DEF f
      <4>3. QED
        BY <4>1, <4>2, Zenon
    <3>2. QED
      BY <3>1
  <2>8. Listing(f, S)
    <3> HIDE DEF f, rank
    <3>1. /\ \A x \in S : rank[x] \in 0..Cardinality(S) - 1
          /\ \A x, y \in S : rank[x] = rank[y] => x = y
      BY <2>6
    <3>2. QED
      BY <2>5, <2>7, <3>1, PlacesListing
  <2>9. QED
    BY <2>4, <2>8, Zenon
<1>2. QED
  BY <1>1, Zenon

-----------------------------------------------------------------------------
(***************************************************************************)
(* The files of a package and the documents in them.                       *)
(***************************************************************************)
AreFiles(fs) == DOMAIN fs \subseteq Paths /\ \A p \in DOMAIN fs : fs[p] \in Seq(Docs)

Held(fs) == UNION {Range(fs[p]) : p \in {q \in DOMAIN fs : includeFile(q)}}

LEMMA SlotsFinite ==
    ASSUME NEW fs, AreFiles(fs)
    PROVE  IsFiniteSet(Slots(fs)) /\ Slots(fs) \subseteq Paths \X Nat
<1> DEFINE P == {q \in DOMAIN fs : includeFile(q)}
           g == [p \in P |-> {p} \X DOMAIN fs[p]]
<1>1. IsFiniteSet(Paths)
  <2>1. IsFiniteSet(Dirs) /\ IsFiniteSet({Kptfile, Manifest, ReadMe})
    <3>1. {Kptfile, Manifest, ReadMe} = 1..3
      BY DEF Kptfile, Manifest, ReadMe
    <3>2. \A b \in Int : IsFiniteSet(0..b) /\ IsFiniteSet(1..b)
      BY FS_Interval
    <3>3. 3 \in Int
      OBVIOUS
    <3>4. IsFiniteSet(0..3) /\ IsFiniteSet(1..3)
      BY <3>2, <3>3, Zenon
    <3>5. IsFiniteSet(Dirs)
      BY <3>4 DEF Dirs
    <3>6. IsFiniteSet({Kptfile, Manifest, ReadMe})
      BY <3>1, <3>4, Zenon
    <3>7. QED
      BY <3>5, <3>6
  <2>2. QED
    BY <2>1, FS_Product DEF Paths
<1>2. IsFiniteSet(P)
  BY <1>1, FS_Subset DEF AreFiles
<1>3. ASSUME NEW p \in P
      PROVE  IsFiniteSet({p} \X DOMAIN fs[p]) /\ {p} \X DOMAIN fs[p] \subseteq Paths \X Nat
  <2>1. fs[p] \in Seq(Docs) /\ p \in Paths
    BY DEF AreFiles
  <2>2. DOMAIN fs[p] = 1..Len(fs[p]) /\ Len(fs[p]) \in Nat
    BY <2>1
  <2>3. IsFiniteSet(DOMAIN fs[p])
    BY <2>2, FS_Interval
  <2>4. IsFiniteSet({p})
    BY FS_Singleton
  <2>5. QED
    BY <2>1, <2>2, <2>3, <2>4, FS_Product
<1>4. Slots(fs) = UNION Range(g)
  BY DEF Slots, Range
<1>5. IsFiniteSet(Range(g))
  <2>1. g \in [P -> Range(g)]
    BY DEF Range
  <2>2. g \in Surjection(P, Range(g))
    <3> HIDE DEF P, g
    <3>1. QED
      BY <2>1, Fun_RangeProperties
  <2> HIDE DEF P, g
  <2>3. QED
    BY <1>2, <2>2, FS_Surjection
<1>6. \A T \in Range(g) : IsFiniteSet(T) /\ T \subseteq Paths \X Nat
  BY <1>3 DEF Range
<1> HIDE DEF P, g
<1>7. QED
  BY <1>4, <1>5, <1>6, FS_UNION

LEMMA Buffer ==
    ASSUME NEW fs, AreFiles(fs)
    PROVE  /\ ResourcesToPackageBuffer(fs) \in Seq(Nodes)
           /\ \A k \in DOMAIN ResourcesToPackageBuffer(fs) :
                includeFile(ResourcesToPackageBuffer(fs)[k].path)
           /\ Range(DocsOf(ResourcesToPackageBuffer(fs))) = Held(fs)
<1> DEFINE S == Slots(fs)
           ss == InOrder(S, Before)
           buf == [k \in DOMAIN ss |-> [path |-> ss[k][1], doc |-> fs[ss[k][1]][ss[k][2]]]]
<1>1. Listing(ss, S)
  BY SlotsFinite, InOrderSlots
<1>2. ResourcesToPackageBuffer(fs) = buf
  BY DEF ResourcesToPackageBuffer
<1>3. \A s \in S : /\ s[1] \in Paths /\ includeFile(s[1]) /\ s[1] \in DOMAIN fs
                   /\ s[2] \in DOMAIN fs[s[1]] /\ fs[s[1]][s[2]] \in Docs
  BY DEF Slots, AreFiles
<1>4. \A p \in DOMAIN fs : includeFile(p) => \A d \in DOMAIN fs[p] : <<p, d>> \in S
  BY DEF Slots
<1> HIDE DEF S
<1>5. Cardinality(S) \in Nat /\ ss \in [1..Cardinality(S) -> S] /\ Range(ss) = S
  BY <1>1 DEF Listing
<1> HIDE DEF ss
<1>6. buf \in Seq(Nodes) /\ \A k \in DOMAIN buf : includeFile(buf[k].path)
  <2>1. DOMAIN buf = 1..Cardinality(S)
    BY <1>5
  <2>2. \A k \in DOMAIN buf : buf[k] \in Nodes /\ includeFile(buf[k].path)
    BY <1>3, <1>5 DEF Nodes
  <2>3. QED
    BY <1>5, <2>1, <2>2
<1>7. Range(DocsOf(buf)) = Held(fs)
  <2>1. Range(DocsOf(buf)) = {fs[ss[k][1]][ss[k][2]] : k \in DOMAIN ss}
    BY DEF Range, DocsOf
  <2>2. {fs[ss[k][1]][ss[k][2]] : k \in DOMAIN ss} \subseteq Held(fs)
    BY <1>3, <1>5 DEF Held, Range
  <2>3. ASSUME NEW x \in Held(fs)
        PROVE  x \in {fs[ss[k][1]][ss[k][2]] : k \in DOMAIN ss}
    <3>1. PICK p \in DOMAIN fs : includeFile(p) /\ x \in Range(fs[p])
      BY DEF Held
    <3>2. PICK d \in DOMAIN fs[p] : x = fs[p][d]
      BY <3>1 DEF Range
    <3>3. <<p, d>> \in Range(ss)
      BY <1>4, <1>5, <3>1
    <3>4. PICK k \in DOMAIN ss : ss[k] = <<p, d>>
      BY <3>3 DEF Range
    <3>5. QED
      BY <3>2, <3>4
  <2>4. QED
    BY <2>1, <2>2, <2>3
<1>8. QED
  BY <1>2, <1>6, <1>7

LEMMA DocsAtListing ==
    ASSUME NEW nodes \in Seq(Nodes), NEW p
    PROVE  /\ DocsAt(nodes, p) \in Seq(Docs)
           /\ Range(DocsAt(nodes, p)) =
                {nodes[k].doc : k \in {j \in DOMAIN nodes : nodes[j].path = p}}
<1> DEFINE S == {k \in DOMAIN nodes : nodes[k].path = p}
           at == InOrder(S, <)
           ds == [k \in DOMAIN at |-> nodes[at[k]].doc]
<1>1. DOMAIN nodes = 1..Len(nodes) /\ Len(nodes) \in Nat
  OBVIOUS
<1>2. S \subseteq Nat /\ S \subseteq DOMAIN nodes
  BY <1>1
<1>3. IsFiniteSet(S)
  <2>1. IsFiniteSet(DOMAIN nodes)
    BY <1>1, FS_Interval
  <2> HIDE DEF S
  <2>2. QED
    BY <1>2, <2>1, FS_Subset
<1>4. Listing(at, S)
  BY <1>2, <1>3, InOrderNumbers, Zenon
<1>5. DocsAt(nodes, p) = ds
  BY Zenon DEF DocsAt
<1>6. /\ Cardinality(S) \in Nat /\ at \in [1..Cardinality(S) -> S] /\ Range(at) = S
  BY <1>4, Zenon DEF Listing
<1> HIDE DEF S, at
<1>7. \A k \in S : nodes[k].doc \in Docs
  <2>1. \A k \in DOMAIN nodes : nodes[k] \in Nodes
    OBVIOUS
  <2>2. \A k \in DOMAIN nodes : nodes[k].doc \in Docs
    BY <2>1 DEF Nodes
  <2>3. QED
    BY <1>2, <2>2
<1>8. ds \in Seq(Docs)
  <2>1. DOMAIN ds = 1..Cardinality(S) /\ \A k \in DOMAIN ds : ds[k] \in Docs
    BY <1>6, <1>7
  <2>2. QED
    BY <1>6, <2>1
<1>9. Range(ds) = {nodes[k].doc : k \in S}
  BY <1>6 DEF Range
<1>10. QED
  BY <1>5, <1>8, <1>9, Zenon DEF S

\* Nodes that are written to files which are read back.
KRM(nodes) == nodes \in Seq(Nodes) /\ \A k \in DOMAIN nodes : includeFile(nodes[k].path)

LEMMA DocsType ==
    ASSUME NEW nodes \in Seq(Nodes)
    PROVE  /\ DocsOf(nodes) \in Seq(Docs)
           /\ Len(DocsOf(nodes)) = Len(nodes) /\ DOMAIN DocsOf(nodes) = 1..Len(nodes)
           /\ \A k \in 1..Len(nodes) : /\ DocsOf(nodes)[k] = nodes[k].doc
                                       /\ nodes[k].doc \in Docs /\ nodes[k].path \in Paths
<1>1. DOMAIN nodes = 1..Len(nodes) /\ Len(nodes) \in Nat /\ \A k \in 1..Len(nodes) : nodes[k] \in Nodes
  OBVIOUS
<1>2. \A k \in 1..Len(nodes) : nodes[k].doc \in Docs /\ nodes[k].path \in Paths
  BY <1>1 DEF Nodes
<1>3. QED
  BY <1>1, <1>2 DEF DocsOf

\* What is written is what is read back.
LEMMA Written ==
    ASSUME NEW fs, AreFiles(fs), NEW nodes, KRM(nodes)
    PROVE  /\ AreFiles(CreateUpdatedResource(fs, nodes))
           /\ Held(CreateUpdatedResource(fs, nodes)) = Range(DocsOf(nodes))
<1> DEFINE kept == {p \in DOMAIN fs : ~includeFile(p)}
           ps == {nodes[k].path : k \in DOMAIN nodes}
           new == CreateUpdatedResource(fs, nodes)
<1>1. nodes \in Seq(Nodes) /\ DOMAIN nodes = 1..Len(nodes)
  BY DEF KRM
<1>2. DOMAIN new = kept \cup ps /\ \A p \in ps : new[p] = DocsAt(nodes, p)
  BY DEF CreateUpdatedResource
<1>3. \A p \in kept \ ps : new[p] = fs[p]
  BY DEF CreateUpdatedResource
<1>4. ps \subseteq Paths /\ \A p \in ps : includeFile(p)
  BY <1>1, DocsType DEF KRM
<1>5. {q \in DOMAIN new : includeFile(q)} = ps
  BY <1>2, <1>4
<1> HIDE DEF new
<1>6. AreFiles(new)
  <2>1. \A p \in ps : new[p] \in Seq(Docs)
    BY <1>1, <1>2, DocsAtListing
  <2>2. \A p \in kept : p \in Paths /\ fs[p] \in Seq(Docs)
    BY DEF AreFiles
  <2> HIDE DEF kept, ps
  <2>3. QED
    BY <1>2, <1>3, <1>4, <2>1, <2>2 DEF AreFiles
<1>7. Held(new) = UNION {Range(DocsAt(nodes, p)) : p \in ps}
  BY <1>2, <1>5 DEF Held
<1>8. \A p : Range(DocsAt(nodes, p)) = {nodes[k].doc : k \in {j \in DOMAIN nodes : nodes[j].path = p}}
  BY <1>1, DocsAtListing
<1>9. Range(DocsOf(nodes)) = {nodes[k].doc : k \in DOMAIN nodes}
  BY DEF DocsOf, Range
<1>10. Held(new) = Range(DocsOf(nodes))
  <2>1. Held(new) \subseteq Range(DocsOf(nodes))
    BY <1>7, <1>8, <1>9
  <2>2. ASSUME NEW x \in Range(DocsOf(nodes))
        PROVE  x \in Held(new)
    <3>1. PICK k \in DOMAIN nodes : x = nodes[k].doc
      BY <1>9
    <3>2. nodes[k].path \in ps /\ x \in Range(DocsAt(nodes, nodes[k].path))
      BY <1>8, <3>1
    <3> HIDE DEF ps
    <3>3. QED
      BY <1>7, <3>2
  <2>3. QED
    BY <2>1, <2>2
<1>11. QED
  BY <1>6, <1>10 DEF new

-----------------------------------------------------------------------------
(***************************************************************************)
(* The source package in the tenant's namespace, and the merged package.   *)
(***************************************************************************)
LEMMA RelocateType ==
    ASSUME NEW d \in Docs
    PROVE  Relocate(d) \in Docs /\ Relocate(d).ns = Tenant
BY NamesAssumption DEF Relocate, Docs, Tenant

LEMMA SourcePackage ==
    ASSUME NEW src, AreFiles(src)
    PROVE  /\ KRM(createSourcePackage(src))
           /\ Range(DocsOf(createSourcePackage(src))) = {Relocate(d) : d \in Held(src)}
           /\ \A k \in DOMAIN createSourcePackage(src) :
                createSourcePackage(src)[k].doc.ns = Tenant
<1> DEFINE buf == ResourcesToPackageBuffer(src)
           pkg == [k \in DOMAIN buf |-> [buf[k] EXCEPT !.doc = Relocate(buf[k].doc)]]
<1>1. buf \in Seq(Nodes) /\ (\A k \in DOMAIN buf : includeFile(buf[k].path))
      /\ Range(DocsOf(buf)) = Held(src)
  BY Buffer
<1>2. createSourcePackage(src) = pkg
  BY DEF createSourcePackage
<1> HIDE DEF buf
<1>3. /\ DOMAIN buf = 1..Len(buf) /\ Len(buf) \in Nat /\ DOMAIN pkg = 1..Len(buf)
      /\ \A k \in DOMAIN buf : /\ buf[k] \in Nodes /\ buf[k].doc \in Docs /\ buf[k].path \in Paths
                               /\ buf[k].doc = DocsOf(buf)[k]
  BY <1>1, DocsType
<1>4. ASSUME NEW k \in DOMAIN buf
      PROVE  /\ pkg[k] \in Nodes /\ pkg[k].path = buf[k].path
             /\ pkg[k].doc = Relocate(buf[k].doc) /\ pkg[k].doc.ns = Tenant
  <2>1. Relocate(buf[k].doc) \in Docs /\ Relocate(buf[k].doc).ns = Tenant
    BY <1>3, RelocateType
  <2>2. pkg[k] = [path |-> buf[k].path, doc |-> Relocate(buf[k].doc)]
    BY <1>3 DEF Nodes
  <2>3. QED
    BY <1>3, <2>1, <2>2 DEF Nodes
<1>5. DOMAIN pkg = DOMAIN buf
  OBVIOUS
<1>6. KRM(pkg)
  <2>1. pkg \in [1..Len(buf) -> Nodes]
    BY <1>3, <1>4
  <2> HIDE DEF pkg
  <2>2. pkg \in Seq(Nodes)
    BY <1>3, <2>1
  <2>3. QED
    BY <1>1, <1>4, <1>5, <2>2 DEF KRM
<1> HIDE DEF pkg
<1>7. Range(DocsOf(pkg)) = {Relocate(d) : d \in Held(src)}
  <2>1. Range(DocsOf(pkg)) = {Relocate(buf[k].doc) : k \in DOMAIN buf}
    BY <1>4, <1>5 DEF DocsOf, Range
  <2>2. Held(src) = {buf[k].doc : k \in DOMAIN buf}
    BY <1>1 DEF DocsOf, Range
  <2>3. QED
    BY <2>1, <2>2
<1>8. QED
  BY <1>2, <1>4, <1>5, <1>6, <1>7

LEMMA FlattenOne ==
    ASSUME NEW s
    PROVE  FlattenSeq(<<s>>) = s
BY DEF FlattenSeq

LEMMA FlattenTwo ==
    ASSUME NEW T, NEW s \in Seq(T), NEW t \in Seq(T)
    PROVE  FlattenSeq(<<s, t>>) = s \o t
<1> DEFINE ss == <<s, t>>
           Step(f) == [j \in 1..Len(ss) |-> IF j = 1 THEN ss[j] ELSE f[j - 1] \o ss[j]]
           g == [j \in 1..2 |-> IF j = 1 THEN s ELSE s \o t]
           fl == CHOOSE f : f = Step(f)
<1>1. g = Step(g)
  OBVIOUS
<1>2. fl = Step(fl)
  <2> HIDE DEF g, Step
  <2>1. QED
    BY <1>1, Zenon
<1>3. FlattenSeq(<<s, t>>) = fl[2]
  BY DEF FlattenSeq
<1> HIDE DEF fl
<1>4. fl[1] = s
  BY <1>2
<1>5. fl[2] = s \o t
  <2>1. 2 \in 1..Len(ss) /\ 2 # 1 /\ 2 - 1 = 1 /\ ss[2] = t
    OBVIOUS
  <2>2. Step(fl)[2] = fl[2 - 1] \o ss[2]
    <3> HIDE DEF ss
    <3>1. QED
      BY <2>1, Zenon
  <2>3. QED
    BY <1>2, <1>4, <2>1, <2>2, Zenon
<1>6. QED
  BY <1>3, <1>5

LEMMA ConcatAt ==
    ASSUME NEW T, NEW s \in Seq(T), NEW t \in Seq(T)
    PROVE  /\ s \o t \in Seq(T) /\ DOMAIN (s \o t) = 1..Len(s) + Len(t)
           /\ \A k \in DOMAIN (s \o t) : (s \o t)[k] = IF k <= Len(s) THEN s[k] ELSE t[k - Len(s)]
OBVIOUS

LEMMA Concatenated ==
    ASSUME NEW T, NEW s \in Seq(T), NEW t \in Seq(T)
    PROVE  /\ Range(s \o t) = Range(s) \cup Range(t)
           /\ IsInjective(s) /\ IsInjective(t) /\ Range(s) \cap Range(t) = {} => IsInjective(s \o t)
<1>1. /\ DOMAIN (s \o t) = 1..Len(s) + Len(t) /\ Len(s) \in Nat /\ Len(t) \in Nat
      /\ DOMAIN s = 1..Len(s) /\ DOMAIN t = 1..Len(t)
  OBVIOUS
<1>2. \A k \in 1..Len(s) : (s \o t)[k] = s[k]
  BY <1>1
<1>3. \A k \in 1..Len(t) : (s \o t)[Len(s) + k] = t[k]
  BY <1>1
<1>4. \A k \in DOMAIN (s \o t) : k \in 1..Len(s) \/ (k - Len(s) \in 1..Len(t) /\ k = Len(s) + (k - Len(s)))
  BY <1>1
<1>5. Range(s \o t) = Range(s) \cup Range(t)
  <2>1. \A k \in 1..Len(t) : Len(s) + k \in DOMAIN (s \o t)
    BY <1>1
  <2>2. \A k \in 1..Len(s) : k \in DOMAIN (s \o t)
    BY <1>1
  <2>3. ASSUME NEW k \in DOMAIN (s \o t)
        PROVE  (s \o t)[k] \in Range(s) \cup Range(t)
    <3>1. CASE k \in 1..Len(s)
      BY <1>1, <1>2, <3>1 DEF Range
    <3>2. CASE k - Len(s) \in 1..Len(t) /\ k = Len(s) + (k - Len(s))
      <4>1. (s \o t)[k] = t[k - Len(s)]
        BY <1>3, <3>2, Zenon
      <4>2. QED
        BY <1>1, <3>2, <4>1 DEF Range
    <3>3. QED
      BY <1>4, <3>1, <3>2
  <2> DEFINE u == s \o t
  <2>4. /\ \A k \in 1..Len(s) : k \in DOMAIN u /\ u[k] = s[k]
        /\ \A k \in 1..Len(t) : Len(s) + k \in DOMAIN u /\ u[Len(s) + k] = t[k]
        /\ \A k \in DOMAIN u : u[k] \in Range(s) \cup Range(t)
    BY <1>2, <1>3, <2>1, <2>2, <2>3
  <2> HIDE DEF u
  <2>5. Range(u) \subseteq Range(s) \cup Range(t)
    BY <2>4 DEF Range
  <2>6. Range(s) \subseteq Range(u)
    BY <1>1, <2>4 DEF Range
  <2>7. Range(t) \subseteq Range(u)
    BY <1>1, <2>4 DEF Range
  <2>8. QED
    BY <2>5, <2>6, <2>7 DEF u
<1>6. ASSUME IsInjective(s), IsInjective(t), Range(s) \cap Range(t) = {},
             NEW j \in DOMAIN (s \o t), NEW k \in DOMAIN (s \o t), (s \o t)[j] = (s \o t)[k]
      PROVE  j = k
  <2>1. \A x \in 1..Len(s), y \in 1..Len(t) : s[x] # t[y]
    BY <1>1, <1>6 DEF Range
  <2>2. /\ \A x, y \in 1..Len(s) : s[x] = s[y] => x = y
        /\ \A x, y \in 1..Len(t) : t[x] = t[y] => x = y
    BY <1>1, <1>6 DEF IsInjective
  <2> DEFINE u == s \o t
  <2> HIDE DEF u
  <2>3. u[j] = u[k] /\ j \in Int /\ k \in Int
    BY <1>1, <1>6 DEF u
  <2>4. /\ \A x \in 1..Len(s) : u[x] = s[x]
        /\ \A x \in 1..Len(t) : u[Len(s) + x] = t[x]
    BY <1>2, <1>3 DEF u
  <2>5. CASE j \in 1..Len(s) /\ k \in 1..Len(s)
    BY <2>2, <2>3, <2>4, <2>5
  <2>6. CASE j \in 1..Len(s) /\ k - Len(s) \in 1..Len(t)
    BY <1>4, <2>1, <2>3, <2>4, <2>6
  <2>7. CASE k \in 1..Len(s) /\ j - Len(s) \in 1..Len(t)
    BY <1>4, <2>1, <2>3, <2>4, <2>7
  <2>8. CASE j - Len(s) \in 1..Len(t) /\ k - Len(s) \in 1..Len(t)
    <3>1. j = Len(s) + (j - Len(s)) /\ k = Len(s) + (k - Len(s))
      BY <1>1, <2>3
    <3>2. u[j] = t[j - Len(s)] /\ u[k] = t[k - Len(s)]
      <4> DEFINE x == j - Len(s)
                 y == k - Len(s)
      <4> HIDE DEF x, y
      <4>1. x \in 1..Len(t) /\ y \in 1..Len(t) /\ j = Len(s) + x /\ k = Len(s) + y
        BY <2>8, <3>1 DEF x, y
      <4>2. u[j] = t[x] /\ u[k] = t[y]
        BY <2>4, <4>1, Zenon
      <4>3. QED
        BY <4>2 DEF x, y
    <3>3. j - Len(s) = k - Len(s)
      BY <2>2, <2>3, <2>8, <3>2, Zenon
    <3>4. QED
      BY <1>1, <2>3, <3>3
  <2>9. QED
    BY <1>4, <2>5, <2>6, <2>7, <2>8
<1>7. QED
  BY <1>5, <1>6 DEF IsInjective

\* A sub-package with its paths moved into directory d.
Moved(pkg, d) == [k \in DOMAIN pkg |-> [pkg[k] EXCEPT !.path = Join(d, pkg[k].path)]]

LEMMA MovedNodes ==
    ASSUME NEW pkg, KRM(pkg), NEW d \in Dirs
    PROVE  KRM(Moved(pkg, d)) /\ DocsOf(Moved(pkg, d)) = DocsOf(pkg)
<1>1. /\ pkg \in Seq(Nodes) /\ DOMAIN pkg = 1..Len(pkg) /\ Len(pkg) \in Nat
      /\ \A k \in DOMAIN pkg : pkg[k] \in Nodes /\ includeFile(pkg[k].path)
  BY DEF KRM
<1> DEFINE m == Moved(pkg, d)
<1>2. ASSUME NEW k \in DOMAIN pkg
      PROVE  m[k] \in Nodes /\ m[k].doc = pkg[k].doc /\ includeFile(m[k].path)
  <2>1. m[k] = [path |-> Join(d, pkg[k].path), doc |-> pkg[k].doc]
    BY <1>1 DEF Moved, Nodes
  <2>2. pkg[k].path \in Paths /\ pkg[k].doc \in Docs
    BY <1>1 DEF Nodes
  <2>3. Join(d, pkg[k].path) \in Paths /\ includeFile(Join(d, pkg[k].path))
    BY <1>1, <2>2 DEF Join, Paths, includeFile
  <2>4. QED
    BY <2>1, <2>2, <2>3 DEF Nodes
<1>3. DOMAIN m = DOMAIN pkg
  BY DEF Moved
<1>4. m \in [1..Len(pkg) -> Nodes]
  BY <1>1, <1>2 DEF Moved
<1> HIDE DEF m
<1>5. KRM(m)
  BY <1>1, <1>2, <1>3, <1>4 DEF KRM
<1>6. DocsOf(m) = DocsOf(pkg)
  BY <1>2, <1>3 DEF DocsOf
<1>7. QED
  BY <1>5, <1>6 DEF m

LEMMA PairDocs ==
    ASSUME NEW a, NEW b
    PROVE  /\ DocsOf(<<a, b>>) = <<a.doc, b.doc>>
           /\ Range(<<a, b>>) = {a, b}
           /\ a # b => IsInjective(<<a, b>>)
<1>1. DOMAIN <<a, b>> = {1, 2} /\ DOMAIN <<a.doc, b.doc>> = {1, 2}
  OBVIOUS
<1>2. DocsOf(<<a, b>>) = <<a.doc, b.doc>>
  BY <1>1 DEF DocsOf
<1>3. Range(<<a, b>>) = {a, b}
  BY <1>1 DEF Range
<1>4. a # b => IsInjective(<<a, b>>)
  BY <1>1 DEF IsInjective
<1>5. QED
  BY <1>2, <1>3, <1>4

LEMMA NewPackage ==
    /\ KRM(createNewPackage) /\ KRM(<<BuildKptFile(Tenant)>>)
    /\ Range(DocsOf(createNewPackage)) =
         {Doc("Namespace", "", Tenant), Doc("Kptfile", "", "namespace")}
    /\ IsInjective(DocsOf(createNewPackage))
    /\ DocsOf(<<BuildKptFile(Tenant)>>) = <<Doc("Kptfile", "", Tenant)>>
<1>1. BuildNamespace(Tenant) \in Nodes /\ BuildKptFile("namespace") \in Nodes
      /\ BuildKptFile(Tenant) \in Nodes
  <2>1. "" \in Names /\ "namespace" \in Names /\ Tenant \in Names
    BY NamesAssumption
  <2>2. /\ Doc("Namespace", "", Tenant) \in Docs
        /\ \A m \in Names : Doc("Kptfile", "", m) \in Docs
    BY <2>1 DEF Doc, Docs, Kinds
  <2>3. <<Root, Manifest>> \in Paths /\ <<Root, Kptfile>> \in Paths
    BY DEF Paths, Dirs, Root, Kptfile, Manifest
  <2>4. QED
    BY <2>1, <2>2, <2>3 DEF BuildNamespace, BuildKptFile, Nodes
<1>2. /\ includeFile(BuildNamespace(Tenant).path) /\ includeFile(BuildKptFile("namespace").path)
      /\ includeFile(BuildKptFile(Tenant).path)
  BY DEF BuildNamespace, BuildKptFile, includeFile, Kptfile, Manifest, ReadMe
<1>3. /\ BuildNamespace(Tenant).doc = Doc("Namespace", "", Tenant)
      /\ \A x : BuildKptFile(x).doc = Doc("Kptfile", "", x)
  BY DEF BuildNamespace, BuildKptFile
<1>4. Doc("Namespace", "", Tenant) # Doc("Kptfile", "", "namespace")
  BY DEF Doc
<1> DEFINE p == createNewPackage
<1>5. p = <<BuildNamespace(Tenant), BuildKptFile("namespace")>>
  BY DEF createNewPackage
<1> HIDE DEF p
<1>6. DOMAIN p = 1..2 /\ p[1] = BuildNamespace(Tenant) /\ p[2] = BuildKptFile("namespace") /\ p \in Seq(Nodes)
  BY <1>1, <1>5
<1>7. KRM(p)
  BY <1>2, <1>6 DEF KRM
<1>8. DocsOf(p) = <<Doc("Namespace", "", Tenant), Doc("Kptfile", "", "namespace")>>
  <2>1. DocsOf(p) = <<BuildNamespace(Tenant).doc, BuildKptFile("namespace").doc>>
    BY <1>5, PairDocs, Zenon
  <2>2. QED
    BY <1>3, <2>1, Zenon
<1>9. /\ IsInjective(DocsOf(p))
      /\ Range(DocsOf(p)) = {Doc("Namespace", "", Tenant), Doc("Kptfile", "", "namespace")}
  <2> DEFINE x == Doc("Namespace", "", Tenant)
             y == Doc("Kptfile", "", "namespace")
  <2>1. x # y /\ DocsOf(p) = <<x, y>>
    BY <1>4, <1>8
  <2> HIDE DEF x, y
  <2>2. IsInjective(<<x, y>>) /\ Range(<<x, y>>) = {x, y}
    BY <2>1, PairDocs
  <2>3. QED
    BY <2>1, <2>2, Zenon DEF x, y
<1>10. KRM(<<BuildKptFile(Tenant)>>)
  BY <1>1, <1>2 DEF KRM
<1>11. DocsOf(<<BuildKptFile(Tenant)>>) = <<Doc("Kptfile", "", Tenant)>>
  <2>1. \A x : DocsOf(<<x>>) = <<x.doc>>
    BY DEF DocsOf
  <2>2. QED
    BY <1>3, <2>1, Zenon
<1>12. QED
  BY <1>7, <1>9, <1>10, <1>11 DEF p

LEMMA SubPackagesKRM ==
    ASSUME NEW src, AreFiles(src), NEW d \in {srcDir, NamespaceDir}
    PROVE  KRM(SubPackages(src)[d])
BY SourcePackage, NewPackage DEF SubPackages

LEMMA Orders ==
    ASSUME NEW order \in SetToSeqs({srcDir, NamespaceDir})
    PROVE  \/ srcDir = NamespaceDir /\ order = <<NamespaceDir>>
           \/ /\ srcDir # NamespaceDir
              /\ order \in {<<srcDir, NamespaceDir>>, <<NamespaceDir, srcDir>>}
<1> DEFINE S == {srcDir, NamespaceDir}
           c == Cardinality(S)
<1>1. order \in [1..c -> S] /\ \A j, k \in 1..c : j # k => order[j] # order[k]
  BY DEF SetToSeqs
<1>2. CASE srcDir = NamespaceDir
  <2>1. S = {NamespaceDir}
    BY <1>2
  <2>2. c = 1
    BY <2>1, FS_Singleton
  <2> HIDE DEF c, S
  <2>3. QED
    BY <1>1, <1>2, <2>1, <2>2
<1>3. CASE srcDir # NamespaceDir
  <2>1. IsFiniteSet({srcDir}) /\ Cardinality({srcDir}) = 1 /\ S = {srcDir} \cup {NamespaceDir}
    BY FS_Singleton
  <2>2. c = 2
    BY <1>3, <2>1, FS_AddElement
  <2>3. order \in [1..2 -> S] /\ order[1] # order[2]
    BY <1>1, <2>2
  <2>4. QED
    BY <1>3, <2>3
<1>4. QED
  BY <1>2, <1>3

LEMMA JoinedNodes ==
    ASSUME NEW s, KRM(s), NEW t, KRM(t)
    PROVE  /\ KRM(s \o t) /\ DocsOf(s \o t) = DocsOf(s) \o DocsOf(t)
           /\ Range(DocsOf(s \o t)) = Range(DocsOf(s)) \cup Range(DocsOf(t))
           /\ /\ IsInjective(DocsOf(s)) /\ IsInjective(DocsOf(t))
              /\ Range(DocsOf(s)) \cap Range(DocsOf(t)) = {}
              => IsInjective(DocsOf(s \o t))
<1>1. /\ s \in Seq(Nodes) /\ t \in Seq(Nodes) /\ Len(s) \in Nat /\ Len(t) \in Nat
      /\ DOMAIN s = 1..Len(s) /\ DOMAIN t = 1..Len(t)
  BY DEF KRM
<1> DEFINE u == s \o t
<1>2. /\ u \in Seq(Nodes) /\ DOMAIN u = 1..Len(s) + Len(t)
      /\ \A k \in DOMAIN u : u[k] = IF k <= Len(s) THEN s[k] ELSE t[k - Len(s)]
  BY <1>1
<1>3. /\ DocsOf(s) \in Seq(Docs) /\ DocsOf(t) \in Seq(Docs)
      /\ Len(DocsOf(s)) = Len(s) /\ Len(DocsOf(t)) = Len(t)
      /\ \A k \in 1..Len(s) : DocsOf(s)[k] = s[k].doc
      /\ \A k \in 1..Len(t) : DocsOf(t)[k] = t[k].doc
  BY <1>1, DocsType
<1>4. \A k \in DOMAIN u : k \in 1..Len(s) \/ (~(k <= Len(s)) /\ k - Len(s) \in 1..Len(t))
  BY <1>1, <1>2
<1> HIDE DEF u
<1>5. KRM(u)
  <2>1. ASSUME NEW k \in DOMAIN u
        PROVE  includeFile(u[k].path)
    <3>1. CASE k \in 1..Len(s)
      BY <1>1, <1>2, <3>1 DEF KRM
    <3>2. CASE ~(k <= Len(s)) /\ k - Len(s) \in 1..Len(t)
      <4>1. u[k] = t[k - Len(s)]
        BY <1>2, <3>2
      <4>2. QED
        BY <1>1, <3>2, <4>1 DEF KRM
    <3>3. QED
      BY <1>4, <3>1, <3>2
  <2>2. QED
    BY <1>2, <2>1 DEF KRM
<1>6. DocsOf(u) = DocsOf(s) \o DocsOf(t)
  <2> DEFINE a == DocsOf(s)
             b == DocsOf(t)
  <2>1. /\ a \in Seq(Docs) /\ b \in Seq(Docs) /\ Len(a) = Len(s) /\ Len(b) = Len(t)
        /\ \A k \in 1..Len(s) : a[k] = s[k].doc
        /\ \A k \in 1..Len(t) : b[k] = t[k].doc
    BY <1>3
  <2> HIDE DEF a, b
  <2> DEFINE v == a \o b
  <2>2. /\ v \in Seq(Docs) /\ DOMAIN v = 1..Len(s) + Len(t)
        /\ \A k \in DOMAIN v : v[k] = IF k <= Len(s) THEN a[k] ELSE b[k - Len(s)]
    <3>1. /\ v \in Seq(Docs) /\ DOMAIN v = 1..Len(a) + Len(b)
          /\ \A k \in DOMAIN v : v[k] = IF k <= Len(a) THEN a[k] ELSE b[k - Len(a)]
      BY <2>1, ConcatAt
    <3> HIDE DEF v
    <3>2. QED
      BY <2>1, <3>1
  <2> HIDE DEF v
  <2>3. ASSUME NEW k \in DOMAIN u
        PROVE  u[k].doc = v[k]
    <3>1. CASE k \in 1..Len(s)
      <4>1. k <= Len(s) /\ k \in DOMAIN v
        BY <1>1, <1>2, <2>2, <3>1
      <4>2. u[k] = s[k] /\ v[k] = a[k]
        BY <1>2, <2>2, <4>1
      <4>3. QED
        BY <2>1, <3>1, <4>2, Zenon
    <3>2. CASE ~(k <= Len(s)) /\ k - Len(s) \in 1..Len(t)
      <4>1. u[k] = t[k - Len(s)] /\ v[k] = b[k - Len(s)]
        BY <1>2, <2>2, <3>2
      <4>2. QED
        BY <2>1, <3>2, <4>1, Zenon
    <3>3. QED
      BY <1>4, <3>1, <3>2
  <2>4. DocsOf(u) = v
    <3>1. DocsOf(u) = [k \in DOMAIN u |-> u[k].doc]
      BY DEF DocsOf
    <3>2. v = [k \in DOMAIN v |-> v[k]]
      BY <2>2
    <3>3. QED
      BY <1>2, <2>2, <2>3, <3>1, <3>2
  <2>5. QED
    BY <2>4 DEF a, b, v
<1>7. QED
  BY <1>3, <1>5, <1>6, Concatenated DEF u

\* The documents of the merged package, whichever sub-package comes first.
Content(src) ==
    {Doc("Kptfile", "", Tenant)} \cup Range(DocsOf(createNewPackage))
    \cup IF srcDir = NamespaceDir THEN {} ELSE Range(DocsOf(createSourcePackage(src)))

LEMMA MergedShape ==
    ASSUME srcDir \in Dirs, NEW src, AreFiles(src),
           NEW order \in SetToSeqs({srcDir, NamespaceDir})
    PROVE  LET new  == Moved(createNewPackage, NamespaceDir)
               from == Moved(createSourcePackage(src), srcDir)
               m    == MergePackages(SubPackages(src), order)
           IN  \/ srcDir = NamespaceDir /\ m = <<BuildKptFile(Tenant)>> \o new
               \/ srcDir # NamespaceDir /\ m = <<BuildKptFile(Tenant)>> \o (from \o new)
               \/ srcDir # NamespaceDir /\ m = <<BuildKptFile(Tenant)>> \o (new \o from)
<1> DEFINE subs == SubPackages(src)
           parts == [k \in DOMAIN order |-> Moved(subs[order[k]], order[k])]
           new  == Moved(createNewPackage, NamespaceDir)
           from == Moved(createSourcePackage(src), srcDir)
<1>1. MergePackages(subs, order) = <<BuildKptFile(Tenant)>> \o FlattenSeq(parts)
  BY DEF MergePackages, Moved
<1>2. /\ Moved(subs[NamespaceDir], NamespaceDir) = new
      /\ srcDir # NamespaceDir => Moved(subs[srcDir], srcDir) = from
  BY DEF SubPackages
<1>3. new \in Seq(Nodes) /\ from \in Seq(Nodes)
  <2>1. KRM(createNewPackage) /\ KRM(createSourcePackage(src)) /\ NamespaceDir \in Dirs
    <3>1. KRM(createNewPackage)
      BY NewPackage
    <3>2. NamespaceDir \in Dirs
      BY DEF NamespaceDir, Dirs
    <3>3. QED
      BY <3>1, <3>2, SourcePackage
  <2>2. QED
    BY <2>1, MovedNodes DEF KRM
<1> HIDE DEF subs, new, from
<1>4. CASE srcDir = NamespaceDir /\ order = <<NamespaceDir>>
  <2>1. parts = <<new>>
    BY <1>2, <1>4
  <2>2. QED
    BY <1>1, <1>4, <2>1, FlattenOne DEF subs, new, from
<1>5. CASE srcDir # NamespaceDir /\ order = <<srcDir, NamespaceDir>>
  <2>1. parts = <<from, new>>
    BY <1>2, <1>5
  <2>2. FlattenSeq(parts) = from \o new
    BY <1>3, <2>1, FlattenTwo
  <2>3. QED
    BY <1>1, <1>5, <2>2, Zenon DEF subs, new, from
<1>6. CASE srcDir # NamespaceDir /\ order = <<NamespaceDir, srcDir>>
  <2>1. parts = <<new, from>>
    BY <1>2, <1>6
  <2>2. FlattenSeq(parts) = new \o from
    BY <1>3, <2>1, FlattenTwo
  <2>3. QED
    BY <1>1, <1>6, <2>2, Zenon DEF subs, new, from
<1>7. QED
  BY <1>4, <1>5, <1>6, Orders

LEMMA MergedPackage ==
    ASSUME srcDir \in Dirs, NEW src, AreFiles(src),
           NEW order \in SetToSeqs({srcDir, NamespaceDir}),
           NEW m, m = MergePackages(SubPackages(src), order)
    PROVE  /\ KRM(m) /\ Len(m) > 0 /\ Range(DocsOf(m)) = Content(src)
           /\ IsInjective(DocsOf(createSourcePackage(src))) => IsInjective(DocsOf(m))
<1> DEFINE kpt  == <<BuildKptFile(Tenant)>>
           new  == Moved(createNewPackage, NamespaceDir)
           from == Moved(createSourcePackage(src), srcDir)
           K == Range(DocsOf(kpt))
           N == Range(DocsOf(new))
           F == Range(DocsOf(from))
<1>1. /\ KRM(kpt) /\ KRM(new) /\ KRM(from)
      /\ DocsOf(new) = DocsOf(createNewPackage)
      /\ DocsOf(from) = DocsOf(createSourcePackage(src))
  <2>1. KRM(createNewPackage) /\ KRM(createSourcePackage(src)) /\ NamespaceDir \in Dirs
    <3>1. KRM(createNewPackage)
      BY NewPackage
    <3>2. NamespaceDir \in Dirs
      BY DEF NamespaceDir, Dirs
    <3>3. QED
      BY <3>1, <3>2, SourcePackage
  <2>2. QED
    BY <2>1, MovedNodes, NewPackage
<1>2. K = {Doc("Kptfile", "", Tenant)} /\ IsInjective(DocsOf(kpt))
  <2>1. \A x : Range(<<x>>) = {x} /\ IsInjective(<<x>>)
    BY DEF Range, IsInjective
  <2>2. DocsOf(kpt) = <<Doc("Kptfile", "", Tenant)>>
    BY NewPackage
  <2>3. QED
    BY <2>1, <2>2, Zenon
<1>3. /\ N = {Doc("Namespace", "", Tenant), Doc("Kptfile", "", "namespace")}
      /\ IsInjective(DocsOf(new))
  BY <1>1, NewPackage
<1>4. \A d \in F : d.ns = Tenant
  BY <1>1, SourcePackage DEF DocsOf, Range
<1>5. K \cap N = {} /\ K \cap F = {} /\ N \cap F = {}
  <2> HIDE DEF K, N, F
  <2>1. /\ Doc("Kptfile", "", Tenant).ns # Tenant
        /\ Doc("Kptfile", "", "namespace").ns # Tenant
        /\ Doc("Namespace", "", Tenant).ns # Tenant
    BY DEF Doc, Tenant
  <2>2. /\ Doc("Kptfile", "", Tenant) # Doc("Kptfile", "", "namespace")
        /\ Doc("Kptfile", "", Tenant) # Doc("Namespace", "", Tenant)
    BY DEF Doc, Tenant
  <2>3. K \cap N = {}
    BY <1>2, <1>3, <2>2, Zenon
  <2>4. \A d \in K \cup N : d.ns # Tenant
    BY <1>2, <1>3, <2>1, Zenon
  <2>5. QED
    BY <1>4, <2>3, <2>4
<1>6. Content(src) = K \cup N \cup IF srcDir = NamespaceDir THEN {} ELSE F
  BY <1>1, <1>2 DEF Content
<1>7. \/ srcDir = NamespaceDir /\ m = kpt \o new
      \/ srcDir # NamespaceDir /\ m = kpt \o (from \o new)
      \/ srcDir # NamespaceDir /\ m = kpt \o (new \o from)
  BY MergedShape
<1> DEFINE I == IsInjective(DocsOf(createSourcePackage(src)))
<1>8. ASSUME NEW u, KRM(u)
      PROVE  Len(kpt \o u) > 0
  BY <1>8 DEF KRM
<1>9. IsInjective(DocsOf(kpt)) /\ IsInjective(DocsOf(new))
  BY <1>2, <1>3
<1> HIDE DEF kpt, new, from
<1>10. CASE srcDir = NamespaceDir /\ m = kpt \o new
  <2>1. /\ KRM(kpt \o new) /\ Range(DocsOf(kpt \o new)) = K \cup N
        /\ IsInjective(DocsOf(kpt \o new))
    BY <1>1, <1>5, <1>9, JoinedNodes
  <2>2. KRM(m) /\ Range(DocsOf(m)) = K \cup N /\ IsInjective(DocsOf(m))
    BY <1>10, <2>1, Zenon
  <2>3. QED
    BY <1>1, <1>6, <1>8, <1>10, <2>2
<1>11. ASSUME srcDir # NamespaceDir, NEW u, m = kpt \o u, KRM(u), Range(DocsOf(u)) = N \cup F,
              I => IsInjective(DocsOf(u))
       PROVE  /\ KRM(m) /\ Len(m) > 0 /\ Range(DocsOf(m)) = Content(src)
              /\ I => IsInjective(DocsOf(m))
  <2>1. K \cap Range(DocsOf(u)) = {}
    BY <1>5, <1>11
  <2>2. /\ KRM(kpt \o u) /\ Range(DocsOf(kpt \o u)) = K \cup Range(DocsOf(u))
        /\ I => IsInjective(DocsOf(kpt \o u))
    BY <1>1, <1>9, <1>11, <2>1, JoinedNodes
  <2>3. KRM(m) /\ Range(DocsOf(m)) = K \cup Range(DocsOf(u)) /\ (I => IsInjective(DocsOf(m)))
    BY <1>11, <2>2, Zenon
  <2>4. Range(DocsOf(m)) = Content(src)
    BY <1>6, <1>11, <2>3
  <2>5. QED
    BY <1>8, <1>11, <2>3, <2>4
<1>12. CASE srcDir # NamespaceDir /\ m = kpt \o (from \o new)
  <2>1. /\ KRM(from \o new) /\ Range(DocsOf(from \o new)) = F \cup N
        /\ I => IsInjective(DocsOf(from \o new))
    BY <1>1, <1>5, <1>9, JoinedNodes
  <2>2. QED
    BY <1>11, <1>12, <2>1
<1>13. CASE srcDir # NamespaceDir /\ m = kpt \o (new \o from)
  <2>1. /\ KRM(new \o from) /\ Range(DocsOf(new \o from)) = N \cup F
        /\ I => IsInjective(DocsOf(new \o from))
    BY <1>1, <1>5, <1>9, JoinedNodes
  <2>2. QED
    BY <1>11, <1>13, <2>1
<1>14. QED
  BY <1>7, <1>10, <1>12, <1>13

-----------------------------------------------------------------------------
(***************************************************************************)
(* The inductive invariant.  Between two comparisons the merged package    *)
(* has the content of the source that was read, and the revision that of   *)
(* the source it was written from.                                         *)
(***************************************************************************)
Wanted == DocsOf(merged)

Packaged ==
    /\ srcDir \in SrcDirs /\ source \in Sources
    /\ AreFiles(files) /\ KRM(merged)
    /\ wrote # NoSource => wrote \in Sources /\ Held(files) = Content(wrote)
    /\ phase # "merge" =>
         /\ read \in Sources
         /\ Len(merged) > 0 /\ Range(Wanted) = Content(read)
         /\ IsInjective(DocsOf(createSourcePackage(read))) => IsInjective(Wanted)

\* The slice of IsEqual: its first len places are what has not been matched.
SliceType ==
    /\ arnl \in [buf : Seq(Docs), len : Nat]
    /\ arnl.len <= Len(arnl.buf)
    /\ phase \in {"merge", "scan", "update", "equal", "panic"}

Indices ==
    /\ n \in 1..Len(merged)
    /\ span \in arnl.len..Len(arnl.buf)
    /\ i \in 1..span + 1
    /\ found \in BOOLEAN

\* What has been matched was in the revision, and what was in the revision has
\* been matched or is still there.
Accounted ==
    /\ Len(arnl.buf) = Len(Stored)
    /\ \A k \in 1..Len(arnl.buf) : arnl.buf[k] \in Range(Stored)
    /\ \A m \in 1..n - 1 : Wanted[m] \in Range(Stored)
    /\ found => Wanted[n] \in Range(Stored)
    /\ \A x \in Range(Stored) :
         \/ \E k \in 1..arnl.len : arnl.buf[k] = x
         \/ \E m \in 1..n - 1 : Wanted[m] = x
         \/ found /\ Wanted[n] = x

\* Without twins in the revision a resource is cut out once, and what the
\* inner loop still looks at, the place beyond the end included, is different.
CutOnce ==
    /\ ~found => arnl.len = span
    /\ found => arnl.len = span - 1 /\ \A j \in i..span : arnl.buf[j] # Wanted[n]
    /\ \A j, k \in 1..arnl.len : arnl.buf[j] = arnl.buf[k] => j = k

\* The revision has the same documents as the merged package, each once.
Same == IsInjective(Stored) /\ IsInjective(Wanted) /\ Range(Stored) = Range(Wanted)

\* Then everything that is still to be looked for is there, and nothing else.
Pending ==
    /\ \A m \in n + 1..Len(merged) : \E k \in 1..arnl.len : arnl.buf[k] = Wanted[m]
    /\ ~found => \E k \in i..arnl.len : arnl.buf[k] = Wanted[n]
    /\ \A k \in 1..arnl.len : \E m \in n..Len(merged) :
         arnl.buf[k] = Wanted[m] /\ (found => m > n)

Compared ==
    /\ phase = "scan" => /\ Indices /\ Accounted
                         /\ IsInjective(Stored) => CutOnce
                         /\ Same => Pending
    /\ phase = "equal" => Range(Stored) = Range(Wanted)
    /\ phase = "panic" => ~IsInjective(Stored)
    /\ phase = "update" => ~Same

ContentInv == Packaged /\ SliceType /\ Compared

-----------------------------------------------------------------------------
(***************************************************************************)
(* The inner loop.                                                         *)
(***************************************************************************)
LEMMA CutOutAt ==
    ASSUME NEW a \in [buf : Seq(Docs), len : Nat], a.len <= Len(a.buf), NEW k \in 1..a.len,
           NEW c, c = CutOut(a, k)
    PROVE  /\ c \in [buf : Seq(Docs), len : Nat]
           /\ c.len = a.len - 1 /\ Len(c.buf) = Len(a.buf) /\ Len(a.buf) \in Nat /\ a.len \in Nat
           /\ \A j \in 1..k - 1 : c.buf[j] = a.buf[j]
           /\ \A j \in k..a.len - 1 : c.buf[j] = a.buf[j + 1]
           /\ \A j \in a.len..Len(a.buf) : c.buf[j] = a.buf[j]
<1> DEFINE b == a.buf
           new == [j \in DOMAIN b |-> IF k <= j /\ j < a.len THEN b[j + 1] ELSE b[j]]
<1>1. b \in Seq(Docs) /\ a.len \in Nat /\ Len(b) \in Nat /\ DOMAIN b = 1..Len(b) /\ a.len <= Len(b)
  OBVIOUS
<1>2. c = [buf |-> new, len |-> a.len - 1]
  BY DEF CutOut
<1> HIDE DEF b
<1>3. \A j \in DOMAIN b : b[j] \in Docs /\ (k <= j /\ j < a.len => b[j + 1] \in Docs)
  BY <1>1
<1>4. new \in [1..Len(b) -> Docs]
  BY <1>1, <1>3
<1>5. new \in Seq(Docs) /\ Len(new) = Len(b)
  <2> HIDE DEF new
  <2>1. QED
    BY <1>1, <1>4
<1>6. /\ \A j \in 1..k - 1 : new[j] = b[j]
      /\ \A j \in k..a.len - 1 : new[j] = b[j + 1]
      /\ \A j \in a.len..Len(b) : new[j] = b[j]
  BY <1>1
<1> HIDE DEF new
<1>7. QED
  BY <1>1, <1>2, <1>5, <1>6 DEF b

Unmatched == i <= span /\ Wanted[n] # arnl.buf[i] /\ i' = i + 1 /\ UNCHANGED <<arnl, found>>

Matched == /\ i <= span /\ Wanted[n] = arnl.buf[i] /\ i <= arnl.len
           /\ arnl' = CutOut(arnl, i) /\ i' = i + 1 /\ found' = TRUE

LEMMA IndicesScan ==
    ASSUME SliceType, Indices, Unmatched \/ Matched, UNCHANGED <<files, merged, n, span>>
    PROVE  Indices' /\ arnl' \in [buf : Seq(Docs), len : Nat] /\ arnl'.len <= Len(arnl'.buf)
<1>1. arnl.len \in Nat /\ Len(arnl.buf) \in Nat /\ arnl.len <= Len(arnl.buf) /\ i \in Nat /\ i >= 1
  BY DEF SliceType, Indices
<1>2. CASE Unmatched
  BY <1>1, <1>2 DEF Unmatched, Indices, SliceType
<1>3. CASE Matched
  <2>1. i \in 1..arnl.len
    BY <1>1, <1>3 DEF Matched
  <2>2. /\ arnl' \in [buf : Seq(Docs), len : Nat] /\ arnl'.len = arnl.len - 1
        /\ Len(arnl'.buf) = Len(arnl.buf)
    BY <1>1, <1>3, <2>1, CutOutAt DEF Matched, SliceType
  <2>3. QED
    BY <1>1, <1>3, <2>1, <2>2 DEF Matched, Indices
<1>4. QED
  BY <1>2, <1>3

LEMMA AccountedScan ==
    ASSUME SliceType, Indices, Accounted, Unmatched \/ Matched, UNCHANGED <<files, merged, n, span>>
    PROVE  Accounted'
<1>1. Wanted' = Wanted /\ Stored' = Stored
  BY DEF Wanted, Stored
<1>2. CASE Unmatched
  BY <1>1, <1>2 DEF Unmatched, Accounted
<1>3. CASE Matched
  <2>1. i \in 1..arnl.len /\ arnl.len \in Nat /\ Len(arnl.buf) \in Nat /\ arnl.len <= Len(arnl.buf)
    BY <1>3 DEF Matched, SliceType, Indices
  <2>2. /\ arnl'.len = arnl.len - 1 /\ Len(arnl'.buf) = Len(arnl.buf)
        /\ \A j \in 1..i - 1 : arnl'.buf[j] = arnl.buf[j]
        /\ \A j \in i..arnl.len - 1 : arnl'.buf[j] = arnl.buf[j + 1]
        /\ \A j \in arnl.len..Len(arnl.buf) : arnl'.buf[j] = arnl.buf[j]
    BY <1>3, <2>1, CutOutAt DEF Matched, SliceType
  <2>3. \A k \in 1..Len(arnl'.buf) : arnl'.buf[k] \in Range(Stored)
    <3>1. ASSUME NEW k \in 1..Len(arnl.buf)
          PROVE  \E j \in 1..Len(arnl.buf) : arnl'.buf[k] = arnl.buf[j]
      <4>1. CASE k \in 1..i - 1
        BY <2>2, <4>1
      <4>2. CASE k \in i..arnl.len - 1
        <5>1. k + 1 \in 1..Len(arnl.buf)
          BY <2>1, <4>2
        <5>2. QED
          BY <2>2, <4>2, <5>1
      <4>3. CASE k \in arnl.len..Len(arnl.buf)
        BY <2>2, <4>3
      <4>4. QED
        BY <2>1, <4>1, <4>2, <4>3
    <3>2. QED
      BY <2>2, <3>1 DEF Accounted
  <2>4. Wanted[n] \in Range(Stored)
    BY <1>3, <2>1 DEF Matched, Accounted
  <2>5. ASSUME NEW k \in 1..arnl.len
        PROVE  arnl.buf[k] = Wanted[n] \/ \E j \in 1..arnl'.len : arnl'.buf[j] = arnl.buf[k]
    <3>1. CASE k = i
      BY <1>3, <3>1 DEF Matched
    <3>2. CASE k < i
      <4>1. k \in 1..i - 1 /\ k \in 1..arnl'.len
        BY <2>1, <2>2, <3>2
      <4>2. QED
        BY <2>2, <4>1
    <3>3. CASE k > i
      <4>1. k - 1 \in i..arnl.len - 1 /\ k - 1 \in 1..arnl'.len /\ (k - 1) + 1 = k
        BY <2>1, <2>2, <3>3
      <4>2. arnl'.buf[k - 1] = arnl.buf[(k - 1) + 1]
        BY <2>2, <4>1, Zenon
      <4>3. QED
        BY <4>1, <4>2
    <3>4. QED
      BY <2>1, <3>1, <3>2, <3>3
  <2>6. found' /\ n' = n
    BY <1>3 DEF Matched
  <2>7. \A x \in Range(Stored) :
          \/ \E k \in 1..arnl'.len : arnl'.buf[k] = x
          \/ \E m \in 1..n - 1 : Wanted[m] = x
          \/ Wanted[n] = x
    <3>1. ASSUME NEW x \in Range(Stored), NEW k \in 1..arnl.len, arnl.buf[k] = x
          PROVE  (\E j \in 1..arnl'.len : arnl'.buf[j] = x) \/ Wanted[n] = x
      BY <2>5, <3>1
    <3>2. QED
      BY <3>1 DEF Accounted
  <2>8. QED
    BY <1>1, <2>2, <2>3, <2>4, <2>6, <2>7 DEF Accounted
<1>4. QED
  BY <1>2, <1>3

\* What is left after a cut is what was there before it, but for one place.
LEMMA CutMoves ==
    ASSUME SliceType, Indices, Matched
    PROVE  /\ i \in 1..arnl.len /\ arnl'.len = arnl.len - 1 /\ arnl.len \in Nat
           /\ \A k \in 1..arnl'.len : arnl'.buf[k] = arnl.buf[IF k < i THEN k ELSE k + 1]
           /\ \A k \in i + 1..arnl.len - 1 : arnl'.buf[k] = arnl.buf[k + 1]
           /\ arnl'.buf[arnl.len] = arnl.buf[arnl.len]
           /\ \A k \in 1..arnl.len : k # i => \E j \in 1..arnl'.len : arnl'.buf[j] = arnl.buf[k]
<1>1. i \in 1..arnl.len /\ arnl.len \in Nat /\ Len(arnl.buf) \in Nat /\ arnl.len <= Len(arnl.buf)
  BY DEF Matched, SliceType, Indices
<1>2. /\ arnl'.len = arnl.len - 1
      /\ \A j \in 1..i - 1 : arnl'.buf[j] = arnl.buf[j]
      /\ \A j \in i..arnl.len - 1 : arnl'.buf[j] = arnl.buf[j + 1]
      /\ \A j \in arnl.len..Len(arnl.buf) : arnl'.buf[j] = arnl.buf[j]
  <2>1. arnl \in [buf : Seq(Docs), len : Nat] /\ arnl' = CutOut(arnl, i)
    BY DEF Matched, SliceType
  <2> DEFINE c == arnl'
  <2>2. c = CutOut(arnl, i)
    BY <2>1
  <2> HIDE DEF c
  <2>3. /\ c.len = arnl.len - 1
        /\ \A j \in 1..i - 1 : c.buf[j] = arnl.buf[j]
        /\ \A j \in i..arnl.len - 1 : c.buf[j] = arnl.buf[j + 1]
        /\ \A j \in arnl.len..Len(arnl.buf) : c.buf[j] = arnl.buf[j]
    BY <1>1, <2>1, <2>2, CutOutAt
  <2>4. QED
    BY <2>3 DEF c
<1>3. ASSUME NEW k \in 1..arnl'.len
      PROVE  arnl'.buf[k] = arnl.buf[IF k < i THEN k ELSE k + 1]
  <2>1. CASE k < i
    <3>1. k \in 1..i - 1
      BY <1>1, <2>1
    <3>2. QED
      BY <1>2, <2>1, <3>1
  <2>2. CASE ~(k < i)
    <3>1. k \in i..arnl.len - 1
      BY <1>1, <1>2, <2>2
    <3>2. QED
      BY <1>2, <2>2, <3>1
  <2>3. QED
    BY <2>1, <2>2
<1>4. ASSUME NEW k \in 1..arnl.len, k # i
      PROVE  \E j \in 1..arnl'.len : arnl'.buf[j] = arnl.buf[k]
  <2>1. CASE k < i
    <3>1. k \in 1..i - 1 /\ k \in 1..arnl'.len
      BY <1>1, <1>2, <2>1
    <3>2. QED
      BY <1>2, <3>1
  <2>2. CASE k > i
    <3>1. k - 1 \in i..arnl.len - 1 /\ k - 1 \in 1..arnl'.len /\ (k - 1) + 1 = k
      BY <1>1, <1>2, <2>2
    <3>2. arnl'.buf[k - 1] = arnl.buf[(k - 1) + 1]
      BY <1>2, <3>1, Zenon
    <3>3. QED
      BY <3>1, <3>2
  <2>3. QED
    BY <1>1, <1>4, <2>1, <2>2
<1>5. \A k \in i + 1..arnl.len - 1 : arnl'.buf[k] = arnl.buf[k + 1]
  BY <1>1, <1>2
<1>6. arnl'.buf[arnl.len] = arnl.buf[arnl.len]
  BY <1>1, <1>2
<1>7. QED
  BY <1>1, <1>2, <1>3, <1>4, <1>5, <1>6

LEMMA CutOnceScan ==
    ASSUME SliceType, Indices, CutOnce, Unmatched \/ Matched, UNCHANGED <<files, merged, n, span>>
    PROVE  CutOnce' /\ (Matched => ~found)
<1>1. Wanted' = Wanted /\ i \in Int /\ span \in Int /\ arnl.len \in Int
  BY DEF Wanted, Indices, SliceType
<1>2. CASE Unmatched
  <2>1. ~Matched
    BY <1>2 DEF Unmatched, Matched
  <2>2. \A j \in i + 1..span : j \in i..span
    BY <1>1
  <2>3. QED
    BY <1>1, <1>2, <2>1, <2>2 DEF Unmatched, CutOnce
<1>3. CASE Matched
  <2>1. i \in i..span /\ arnl.buf[i] = Wanted[n] /\ found'
    BY <1>1, <1>3 DEF Matched
  <2>2. ~found /\ arnl.len = span
    BY <2>1 DEF CutOnce
  <2>3. /\ i \in 1..arnl.len /\ arnl'.len = arnl.len - 1 /\ arnl.len \in Nat
        /\ \A k \in 1..arnl'.len : arnl'.buf[k] = arnl.buf[IF k < i THEN k ELSE k + 1]
        /\ \A k \in i + 1..arnl.len - 1 : arnl'.buf[k] = arnl.buf[k + 1]
        /\ arnl'.buf[arnl.len] = arnl.buf[arnl.len]
    BY <1>3, CutMoves
  <2>4. ASSUME NEW j \in i + 1..span
        PROVE  arnl'.buf[j] # Wanted[n]
    <3>1. CASE j = arnl.len
      <4>1. arnl.len # i /\ arnl.len \in 1..arnl.len
        BY <2>3, <3>1
      <4>2. QED
        BY <2>1, <2>3, <3>1, <4>1 DEF CutOnce
    <3>2. CASE j # arnl.len
      <4>1. j \in i + 1..arnl.len - 1 /\ j + 1 # i /\ j + 1 \in 1..arnl.len
        BY <2>2, <2>3, <3>2
      <4>2. arnl'.buf[j] = arnl.buf[j + 1]
        BY <2>3, <4>1
      <4>3. QED
        BY <2>1, <2>3, <4>1, <4>2 DEF CutOnce
    <3>3. QED
      BY <3>1, <3>2
  <2>5. ASSUME NEW j \in 1..arnl'.len, NEW k \in 1..arnl'.len, arnl'.buf[j] = arnl'.buf[k]
        PROVE  j = k
    <3> DEFINE x == IF j < i THEN j ELSE j + 1
               y == IF k < i THEN k ELSE k + 1
    <3>1. x \in 1..arnl.len /\ y \in 1..arnl.len /\ (x = y => j = k)
      BY <2>3
    <3>2. arnl.buf[x] = arnl.buf[y]
      BY <2>3, <2>5
    <3> HIDE DEF x, y
    <3>3. QED
      BY <3>1, <3>2 DEF CutOnce
  <2>6. QED
    BY <1>1, <1>3, <2>1, <2>2, <2>3, <2>4, <2>5 DEF Matched, CutOnce
<1>4. QED
  BY <1>2, <1>3

LEMMA PendingScan ==
    ASSUME SliceType, Indices, CutOnce, Pending, IsInjective(Wanted), DOMAIN Wanted = 1..Len(merged),
           Len(merged) \in Nat, Unmatched \/ Matched, UNCHANGED <<files, merged, n, span>>
    PROVE  Pending'
<1>1. Wanted' = Wanted /\ i \in Int /\ arnl.len \in Int /\ n \in 1..Len(merged)
  BY DEF Wanted, Indices, SliceType
<1>2. CASE Unmatched
  <2>1. ASSUME NEW k \in i..arnl.len, arnl.buf[k] = Wanted[n]
        PROVE  k \in i + 1..arnl.len
    BY <1>1, <1>2, <2>1 DEF Unmatched
  <2>2. ~found => \E k \in i + 1..arnl.len : arnl.buf[k] = Wanted[n]
    BY <2>1 DEF Pending
  <2>3. QED
    BY <1>1, <1>2, <2>2 DEF Unmatched, Pending
<1>3. CASE Matched
  <2>1. /\ i \in 1..arnl.len /\ arnl'.len = arnl.len - 1 /\ arnl.len \in Nat
        /\ \A k \in 1..arnl'.len : arnl'.buf[k] = arnl.buf[IF k < i THEN k ELSE k + 1]
        /\ \A k \in 1..arnl.len : k # i => \E j \in 1..arnl'.len : arnl'.buf[j] = arnl.buf[k]
    BY <1>3, CutMoves
  <2>2. arnl.buf[i] = Wanted[n] /\ found'
    BY <1>3 DEF Matched
  <2>3. ASSUME NEW m \in n + 1..Len(merged)
        PROVE  \E k \in 1..arnl'.len : arnl'.buf[k] = Wanted[m]
    <3>1. m \in 1..Len(merged) /\ m # n
      BY <1>1
    <3>2. Wanted[m] # Wanted[n]
      BY <1>1, <3>1 DEF IsInjective
    <3>3. PICK k \in 1..arnl.len : arnl.buf[k] = Wanted[m]
      BY DEF Pending
    <3>4. k # i
      BY <2>2, <3>2, <3>3
    <3>5. QED
      BY <2>1, <3>3, <3>4
  <2>4. ASSUME NEW k \in 1..arnl'.len
        PROVE  \E m \in n..Len(merged) : arnl'.buf[k] = Wanted[m] /\ m > n
    <3> DEFINE x == IF k < i THEN k ELSE k + 1
    <3>1. x \in 1..arnl.len /\ x # i /\ arnl'.buf[k] = arnl.buf[x]
      BY <2>1
    <3> HIDE DEF x
    <3>2. PICK m \in n..Len(merged) : arnl.buf[x] = Wanted[m]
      BY <3>1 DEF Pending
    <3>3. m # n
      BY <2>1, <2>2, <3>1, <3>2 DEF CutOnce
    <3>4. m > n
      BY <1>1, <3>3
    <3>5. QED
      BY <3>1, <3>2, <3>4
  <2>5. QED
    BY <1>1, <2>2, <2>3, <2>4 DEF Pending
<1>4. QED
  BY <1>2, <1>3

LEMMA PackagedFrame ==
    ASSUME Packaged, UNCHANGED <<srcDir, source, read, wrote, files, merged>>,
           phase # "merge" \/ phase' = "merge"
    PROVE  Packaged'
BY DEF Packaged, Wanted, Content, AreFiles, KRM, Held

LEMMA WantedType ==
    ASSUME Packaged
    PROVE  /\ merged \in Seq(Nodes) /\ Len(merged) \in Nat /\ DOMAIN Wanted = 1..Len(merged)
           /\ \A k \in 1..Len(merged) : Wanted[k] = merged[k].doc
           /\ Wanted \in Seq(Docs) /\ Len(Wanted) = Len(merged)
<1>1. merged \in Seq(Nodes)
  BY DEF Packaged, KRM
<1>2. QED
  BY <1>1, DocsType DEF Wanted

LEMMA ContentScan ==
    ASSUME ContentInv, Scan
    PROVE  ContentInv'
<1>1. /\ phase = "scan" /\ Indices /\ Accounted /\ SliceType /\ Packaged
      /\ IsInjective(Stored) => CutOnce
      /\ Same => Pending
  BY DEF ContentInv, Compared, Scan
<1>2. /\ UNCHANGED <<srcDir, source, read, wrote, files, merged, n, span, changes>>
      /\ Wanted' = Wanted /\ Stored' = Stored
  BY DEF Scan, Wanted, Stored
<1>3. /\ Len(merged) \in Nat /\ DOMAIN Wanted = 1..Len(merged) /\ Wanted[n] = merged[n].doc
  BY <1>1, WantedType DEF Indices
<1>4. \/ (Unmatched \/ Matched) /\ phase' = "scan"
      \/ /\ Wanted[n] = arnl.buf[i] /\ i <= span /\ ~(i <= arnl.len)
         /\ phase' = "panic" /\ UNCHANGED arnl
  BY <1>1, <1>3 DEF Scan, Unmatched, Matched, InBounds
<1>5. Packaged'
  BY <1>1, <1>2, PackagedFrame
<1>6. Same' = Same
  BY <1>2 DEF Same
<1>7. CASE (Unmatched \/ Matched) /\ phase' = "scan"
  <2>1. Indices' /\ Accounted' /\ SliceType'
    BY <1>1, <1>2, <1>7, IndicesScan, AccountedScan DEF SliceType
  <2>2. IsInjective(Stored)' => CutOnce'
    BY <1>1, <1>2, <1>7, CutOnceScan
  <2>3. Same' => Pending'
    BY <1>1, <1>2, <1>3, <1>6, <1>7, PendingScan DEF Same
  <2>4. QED
    BY <1>5, <1>7, <2>1, <2>2, <2>3 DEF ContentInv, Compared
<1>8. CASE /\ Wanted[n] = arnl.buf[i] /\ i <= span /\ ~(i <= arnl.len)
           /\ phase' = "panic" /\ UNCHANGED arnl
  <2>1. i \in Int /\ span \in Int /\ arnl.len \in Int /\ found \in BOOLEAN
    BY <1>1 DEF Indices, SliceType
  <2>2. i \in i..span /\ arnl.len # span
    BY <1>8, <2>1
  <2>3. ~CutOnce
    BY <1>8, <2>1, <2>2 DEF CutOnce
  <2>4. ~IsInjective(Stored)'
    BY <1>1, <1>2, <2>3
  <2>5. SliceType'
    BY <1>1, <1>8 DEF SliceType
  <2>6. QED
    BY <1>5, <1>8, <2>4, <2>5 DEF ContentInv, Compared
<1>9. QED
  BY <1>4, <1>7, <1>8

-----------------------------------------------------------------------------
(***************************************************************************)
(* The outer loop.                                                         *)
(***************************************************************************)
LEMMA NextInner ==
    ASSUME Indices, Accounted, SliceType, i > span, found, n < Len(merged), Len(merged) \in Nat,
           n' = n + 1, i' = 1, span' = arnl.len, found' = FALSE, UNCHANGED <<files, merged, arnl>>
    PROVE  /\ Indices' /\ Accounted'
           /\ CutOnce => CutOnce'
           /\ Pending => Pending'
<1>1. /\ Wanted' = Wanted /\ Stored' = Stored /\ n \in Nat /\ n >= 1 /\ arnl.len \in Nat
      /\ Len(arnl.buf) \in Nat /\ arnl.len <= Len(arnl.buf)
  BY DEF Wanted, Stored, Indices, SliceType
<1>2. Indices'
  <2>1. n' \in 1..Len(merged') /\ span' \in arnl'.len..Len(arnl'.buf) /\ i' \in 1..span' + 1
    BY <1>1
  <2>2. found' \in BOOLEAN
    BY Zenon
  <2>3. QED
    BY <2>1, <2>2, Zenon DEF Indices
<1>3. Accounted'
  <2>1. \A m \in 1..n' - 1 : m \in 1..n - 1 \/ m = n
    BY <1>1
  <2>2. \A m \in 1..n - 1 : m \in 1..n' - 1
    BY <1>1
  <2>3. n \in 1..n' - 1
    BY <1>1
  <2>4. QED
    BY <1>1, <2>1, <2>2, <2>3 DEF Accounted
<1>4. CutOnce => CutOnce'
  BY <1>1 DEF CutOnce
<1>5. ASSUME Pending
      PROVE  Pending'
  <2>1. \A m \in n' + 1..Len(merged) : m \in n + 1..Len(merged)
    BY <1>1
  <2>2. n + 1 \in n + 1..Len(merged)
    BY <1>1
  <2>3. \A m \in n..Len(merged) : m > n => m \in n'..Len(merged)
    BY <1>1
  <2>4. \A m \in n' + 1..Len(merged) : \E k \in 1..arnl.len : arnl.buf[k] = Wanted[m]
    BY <1>5, <2>1 DEF Pending
  <2>5. \E k \in 1..arnl.len : arnl.buf[k] = Wanted[n']
    BY <1>5, <2>2 DEF Pending
  <2>6. \A k \in 1..arnl.len : \E m \in n'..Len(merged) : arnl.buf[k] = Wanted[m]
    BY <1>5, <2>3 DEF Pending
  <2>7. QED
    BY <1>1, <2>4, <2>5, <2>6 DEF Pending
<1>6. QED
  BY <1>2, <1>3, <1>4, <1>5

LEMMA ContentNextResource ==
    ASSUME ContentInv, NextResource
    PROVE  ContentInv'
<1>1. /\ phase = "scan" /\ i > span /\ Indices /\ Accounted /\ SliceType /\ Packaged
      /\ IsInjective(Stored) => CutOnce
      /\ Same => Pending
  BY DEF ContentInv, Compared, NextResource
<1>2. /\ UNCHANGED <<srcDir, source, read, wrote, files, merged, arnl, changes>>
      /\ Wanted' = Wanted /\ Stored' = Stored
  BY DEF NextResource, Wanted, Stored
<1>3. /\ Len(merged) \in Nat /\ DOMAIN Wanted = 1..Len(merged)
      /\ n \in 1..Len(merged) /\ i \in Int /\ span \in Int /\ arnl.len \in Nat /\ arnl.len <= span
      /\ Len(arnl.buf) \in Nat
  BY <1>1, WantedType DEF Indices, SliceType
<1>4. Packaged' /\ Same' = Same
  BY <1>1, <1>2, PackagedFrame DEF Same
<1>5. CASE ~found /\ phase' = "update"
  <2>1. ~Same
    <3>1. ~\E k \in i..arnl.len : TRUE
      BY <1>1, <1>3
    <3>2. QED
      BY <1>1, <1>5, <3>1 DEF Pending
  <2>2. QED
    BY <1>1, <1>2, <1>4, <1>5, <2>1 DEF ContentInv, Compared, SliceType
<1>6. CASE /\ found /\ n < Len(merged) /\ UNCHANGED phase
           /\ n' = n + 1 /\ i' = 1 /\ span' = arnl.len /\ found' = FALSE
  <2>1. Indices' /\ Accounted' /\ (CutOnce => CutOnce') /\ (Pending => Pending')
    BY <1>1, <1>2, <1>3, <1>6, NextInner
  <2>2. QED
    BY <1>1, <1>2, <1>4, <1>6, <2>1 DEF ContentInv, Compared, SliceType
<1>7. CASE found /\ n = Len(merged) /\ phase' = Verdict(arnl.len)
  <2>1. CASE arnl.len # 0
    <3>1. 1 \in 1..arnl.len
      BY <1>3, <2>1
    <3>2. \A m \in n..Len(merged) : ~(m > n)
      BY <1>3, <1>7
    <3>3. ~Same
      BY <1>1, <1>7, <3>1, <3>2 DEF Pending
    <3>4. phase' = "update"
      BY <1>7, <2>1 DEF Verdict
    <3>5. QED
      BY <1>1, <1>2, <1>4, <3>3, <3>4 DEF ContentInv, Compared, SliceType
  <2>2. CASE arnl.len = 0
    <3>1. \A m \in 1..Len(merged) : m \in 1..n - 1 \/ m = n
      BY <1>3, <1>7
    <3>2. \A m \in 1..n - 1 : m \in 1..Len(merged)
      BY <1>3
    <3>3. ~\E k \in 1..arnl.len : TRUE
      BY <2>2
    <3>4. Range(Wanted) = {Wanted[m] : m \in 1..Len(merged)}
      BY <1>3 DEF Range
    <3>5. Range(Wanted) \subseteq Range(Stored)
      BY <1>1, <1>7, <3>1, <3>4 DEF Accounted
    <3>6. Range(Stored) \subseteq Range(Wanted)
      BY <1>1, <1>3, <3>2, <3>3, <3>4 DEF Accounted
    <3>7. phase' = "equal"
      BY <1>7, <2>2 DEF Verdict
    <3>8. QED
      BY <1>1, <1>2, <1>4, <3>5, <3>6, <3>7 DEF ContentInv, Compared, SliceType
  <2>3. QED
    BY <2>1, <2>2
<1>8. QED
  BY <1>1, <1>5, <1>6, <1>7 DEF NextResource

-----------------------------------------------------------------------------
(***************************************************************************)
(* The remaining steps.                                                    *)
(***************************************************************************)
LEMMA SourcesAreFiles ==
    ASSUME NEW src \in Sources
    PROVE  /\ AreFiles(src) /\ src # NoSource
           /\ \A p \in DOMAIN src : includeFile(p)
<1> DEFINE P == {<<Root, Kptfile>>, <<Root, Manifest>>}
<1>1. src \in [P -> BoundedSeq(SourceDocs, MaxDocs)]
  BY DEF Sources
<1>2. P \subseteq Paths /\ \A p \in P : includeFile(p)
  BY DEF Paths, Dirs, Root, Kptfile, Manifest, ReadMe, includeFile
<1>3. ASSUME NEW s \in BoundedSeq(SourceDocs, MaxDocs)
      PROVE  s \in Seq(Docs)
  <2>1. PICK m \in 0..MaxDocs : s \in [1..m -> SourceDocs]
    BY <1>3 DEF BoundedSeq, SeqOf
  <2>2. m \in Nat /\ s \in [1..m -> Docs]
    BY <2>1, ContentAssumption
  <2>3. QED
    BY <2>2
<1>4. DOMAIN src = P /\ DOMAIN NoSource = {}
  BY <1>1 DEF NoSource
<1>5. src # NoSource
  BY <1>4
<1>6. \A p \in P : src[p] \in Seq(Docs)
  BY <1>1, <1>3
<1> HIDE DEF P
<1>7. QED
  BY <1>2, <1>4, <1>5, <1>6 DEF AreFiles

LEMMA ContentInit == Init => ContentInv
<1> SUFFICES ASSUME Init PROVE ContentInv
  OBVIOUS
<1> DEFINE P == {<<Root, Kptfile>>, <<Root, Manifest>>, <<Root, ReadMe>>}
<1>1. DOMAIN InitFiles = P
  BY DEF InitFiles
<1>2. P \subseteq Paths
  BY DEF Paths, Dirs, Root, Kptfile, Manifest, ReadMe
<1>3. Doc("Kptfile", "", "a") \in Docs /\ Doc("PackageContext", "", "a") \in Docs
  BY NamesAssumption DEF Doc, Docs, Kinds
<1>4. ASSUME NEW p \in P
      PROVE  InitFiles[p] \in Seq(Docs)
  <2>1. \A d \in Docs : <<d>> \in Seq(Docs)
    OBVIOUS
  <2>2. <<>> \in Seq(Docs)
    OBVIOUS
  <2>3. \/ p[2] = Kptfile /\ InitFiles[p] = <<Doc("Kptfile", "", "a")>>
        \/ p[2] = Manifest /\ InitFiles[p] = <<Doc("PackageContext", "", "a")>>
        \/ p[2] = ReadMe /\ InitFiles[p] = <<>>
    <3>1. p[2] = Kptfile \/ p[2] = Manifest \/ p[2] = ReadMe
      BY <1>4
    <3>2. Kptfile # Manifest /\ Kptfile # ReadMe /\ Manifest # ReadMe
      BY DEF Kptfile, Manifest, ReadMe
    <3>3. InitFiles[p] = CASE p[2] = Kptfile  -> <<Doc("Kptfile", "", "a")>>
                           [] p[2] = Manifest -> <<Doc("PackageContext", "", "a")>>
                           [] p[2] = ReadMe   -> <<>>
      BY <1>4, Zenon DEF InitFiles
    <3>4. CASE p[2] = Kptfile
      BY <3>2, <3>3, <3>4
    <3>5. CASE p[2] = Manifest
      BY <3>2, <3>3, <3>5
    <3>6. CASE p[2] = ReadMe
      BY <3>2, <3>3, <3>6
    <3>7. QED
      BY <3>1, <3>4, <3>5, <3>6
  <2>4. QED
    BY <1>3, <2>1, <2>2, <2>3, Zenon
<1> HIDE DEF P
<1>5. AreFiles(files)
  BY <1>1, <1>2, <1>4 DEF Init, AreFiles
<1>6. KRM(merged)
  BY DEF Init, KRM
<1>7. Packaged
  BY <1>5, <1>6 DEF Init, Packaged
<1>8. SliceType
  BY DEF Init, SliceType
<1>9. Compared
  BY DEF Init, Compared
<1>10. QED
  BY <1>7, <1>8, <1>9 DEF ContentInv

LEMMA ContentMerge ==
    ASSUME ContentInv, Merge
    PROVE  ContentInv'
<1> DEFINE buf == ResourcesToPackageBuffer(files)
<1>1. /\ Packaged /\ srcDir \in Dirs /\ AreFiles(source) /\ AreFiles(files) /\ source \in Sources
  BY ContentAssumption, SourcesAreFiles DEF ContentInv, Packaged, Dirs
<1>2. PICK order \in SetToSeqs({srcDir, NamespaceDir}) :
        merged' = MergePackages(SubPackages(source), order)
  BY DEF Merge
<1>3. /\ KRM(merged') /\ Len(merged') > 0 /\ Range(DocsOf(merged')) = Content(source)
      /\ IsInjective(DocsOf(createSourcePackage(source))) => IsInjective(DocsOf(merged'))
  BY <1>1, <1>2, MergedPackage
<1>4. /\ phase' = "scan" /\ read' = source /\ n' = 1 /\ i' = 1 /\ found' = FALSE
      /\ arnl' = [buf |-> DocsOf(buf), len |-> Len(buf)] /\ span' = Len(buf)
      /\ UNCHANGED <<srcDir, source, wrote, files, changes>>
  BY DEF Merge
<1>5. Packaged'
  <2>1. Content(source)' = Content(source) /\ Content(wrote)' = Content(wrote)
    BY <1>4 DEF Content
  <2>2. KRM(merged)'
    BY <1>3 DEF KRM
  <2>3. AreFiles(files)' /\ Held(files)' = Held(files)
    BY <1>1, <1>4 DEF AreFiles, Held
  <2>4. Content(read)' = Content(source)
    BY <1>4 DEF Content
  <2>5. Wanted' = DocsOf(merged')
    BY DEF Wanted, DocsOf
  <2>6. createSourcePackage(read)' = createSourcePackage(source)
    BY <1>4
  <2>7. IsInjective(DocsOf(createSourcePackage(read)))' => IsInjective(Wanted)'
    BY <1>3, <2>5, <2>6 DEF IsInjective, DocsOf
  <2>8. QED
    BY <1>1, <1>3, <1>4, <2>1, <2>2, <2>3, <2>4, <2>5, <2>7 DEF Packaged
<1>6. /\ DocsOf(buf) \in Seq(Docs) /\ Len(DocsOf(buf)) = Len(buf) /\ Len(buf) \in Nat
      /\ DOMAIN DocsOf(buf) = 1..Len(buf)
  BY <1>1, Buffer, DocsType
<1>7. Stored' = DocsOf(buf)
  BY <1>4 DEF Stored
<1> HIDE DEF buf
<1> DEFINE st == DocsOf(buf)
<1>8. Range(st) = {st[k] : k \in 1..Len(buf)}
  BY <1>6 DEF Range
<1>9. SliceType'
  BY <1>4, <1>6 DEF SliceType
<1>10. Len(merged') \in Nat /\ DOMAIN Wanted' = 1..Len(merged')
  <2>1. merged' \in Seq(Nodes)
    BY <1>3 DEF KRM
  <2>2. QED
    BY <2>1, DocsType DEF Wanted
<1>11. /\ Indices'
  <2>1. n' \in 1..Len(merged') /\ span' \in arnl'.len..Len(arnl'.buf) /\ i' \in 1..span' + 1
    BY <1>3, <1>4, <1>6, <1>10
  <2>2. found' \in BOOLEAN
    BY <1>4, Zenon
  <2>3. QED
    BY <2>1, <2>2, Zenon DEF Indices
<1> HIDE DEF st
<1>12. arnl'.buf = st /\ arnl'.len = Len(buf) /\ Len(st) = Len(buf) /\ Stored' = st
  BY <1>4, <1>6, <1>7 DEF st
<1>13. Accounted'
  BY <1>4, <1>6, <1>8, <1>12 DEF Accounted
<1>14. IsInjective(Stored)' => CutOnce'
  <2>1. ASSUME IsInjective(st)
        PROVE  \A j, k \in 1..Len(buf) : st[j] = st[k] => j = k
    BY <1>6, <2>1 DEF IsInjective, st
  <2>2. QED
    BY <1>4, <1>6, <1>12, <2>1 DEF CutOnce
<1>15. Same' => Pending'
  <2>1. SUFFICES ASSUME Same'
                 PROVE  Pending'
    OBVIOUS
  <2>2. Range(Wanted') = Range(st)
    BY <1>12, <2>1 DEF Same
  <2>3. Range(Wanted') = {Wanted'[m] : m \in 1..Len(merged')}
    BY <1>10 DEF Range
  <2>4. \A m \in 1..Len(merged') : \E k \in 1..Len(buf) : st[k] = Wanted'[m]
    BY <1>8, <2>2, <2>3
  <2>5. \A k \in 1..Len(buf) : \E m \in 1..Len(merged') : st[k] = Wanted'[m]
    BY <1>8, <2>2, <2>3
  <2>6. \A m \in n' + 1..Len(merged') : m \in 1..Len(merged')
    BY <1>4, <1>10
  <2>7. n' \in 1..Len(merged')
    BY <1>11 DEF Indices
  <2>8. QED
    BY <1>4, <1>12, <2>4, <2>5, <2>6, <2>7 DEF Pending
<1>16. Compared'
  BY <1>4, <1>11, <1>13, <1>14, <1>15 DEF Compared
<1>17. QED
  BY <1>5, <1>9, <1>16 DEF ContentInv

LEMMA ContentUpdate ==
    ASSUME ContentInv, Update
    PROVE  ContentInv'
<1>1. /\ Packaged /\ phase = "update" /\ phase' = "merge" /\ wrote' = read
      /\ files' = CreateUpdatedResource(files, merged)
      /\ UNCHANGED <<srcDir, source, read, merged, arnl, n, i, span, found, changes>>
  BY DEF ContentInv, Update
<1>2. AreFiles(files') /\ Held(files') = Content(read)
  BY <1>1, Written DEF Packaged, Wanted
<1>3. AreFiles(files)' /\ Held(files)' = Content(wrote)'
  BY <1>1, <1>2 DEF AreFiles, Held, Content
<1>4. KRM(merged)'
  BY <1>1 DEF Packaged, KRM
<1>5. Packaged'
  BY <1>1, <1>3, <1>4 DEF Packaged
<1>6. SliceType' /\ Compared'
  BY <1>1 DEF ContentInv, SliceType, Compared
<1>7. QED
  BY <1>5, <1>6 DEF ContentInv

LEMMA ContentPoll ==
    ASSUME ContentInv, Poll
    PROVE  ContentInv'
<1>1. /\ phase' = "merge"
      /\ UNCHANGED <<srcDir, source, read, wrote, files, merged, arnl, n, i, span, found, changes>>
  BY DEF Poll
<1>2. Packaged'
  BY <1>1, PackagedFrame DEF ContentInv
<1>3. SliceType' /\ Compared'
  BY <1>1 DEF ContentInv, SliceType, Compared
<1>4. QED
  BY <1>2, <1>3 DEF ContentInv

LEMMA ContentKept ==
    ASSUME ContentInv, source' \in Sources,
           UNCHANGED <<srcDir, read, wrote, files, merged, arnl, n, i, span, found, phase>>
    PROVE  ContentInv'
<1>1. Wanted' = Wanted /\ Stored' = Stored
  BY DEF Wanted, Stored
<1>2. Packaged'
  BY <1>1 DEF ContentInv, Packaged, AreFiles, KRM, Held, Content
<1>3. SliceType'
  BY DEF ContentInv, SliceType
<1>4. /\ Indices' = Indices /\ Accounted' = Accounted /\ CutOnce' = CutOnce
      /\ Same' = Same /\ Pending' = Pending /\ IsInjective(Stored)' = IsInjective(Stored)
  BY <1>1 DEF Indices, Accounted, CutOnce, Same, Pending
<1>5. Compared'
  BY <1>1, <1>4 DEF ContentInv, Compared
<1>6. QED
  BY <1>2, <1>3, <1>5 DEF ContentInv

LEMMA ContentNext == ContentInv /\ [Next]_vars => ContentInv'
<1> SUFFICES ASSUME ContentInv, [Next]_vars PROVE ContentInv'
  OBVIOUS
<1>1. CASE ChangeSource
  BY <1>1, ContentKept DEF ChangeSource
<1>2. CASE UNCHANGED vars
  <2>1. source' \in Sources
    BY <1>2 DEF vars, ContentInv, Packaged
  <2>2. QED
    BY <1>2, <2>1, ContentKept DEF vars
<1>3. QED
  BY <1>1, <1>2, ContentMerge, ContentScan, ContentNextResource, ContentUpdate, ContentPoll
     DEF Next

-----------------------------------------------------------------------------
(***************************************************************************)
(* The theorems.                                                           *)
(***************************************************************************)
\* A sequence without repetitions is as long as it has elements.
LEMMA InjectiveLen ==
    ASSUME NEW s, NEW S, s \in Seq(S), IsInjective(s)
    PROVE  Len(s) \in Nat /\ IsFiniteSet(Range(s)) /\ Cardinality(Range(s)) = Len(s)
<1>1. Len(s) \in Nat /\ DOMAIN s = 1..Len(s)
  OBVIOUS
<1>2. s \in [1..Len(s) -> Range(s)]
  BY <1>1 DEF Range
<1>3. \A x \in Range(s) : \E k \in 1..Len(s) : s[k] = x
  BY <1>1 DEF Range
<1>4. \A j, k \in 1..Len(s) : s[j] = s[k] => j = k
  BY <1>1 DEF IsInjective
<1>5. s \in Bijection(1..Len(s), Range(s))
  BY <1>2, <1>3, <1>4, Zenon DEF Bijection, Injection, Surjection, IsInjective
<1>6. ExistsBijection(1..Len(s), Range(s))
  BY <1>5, Zenon DEF ExistsBijection
<1>7. IsFiniteSet(1..Len(s)) /\ Cardinality(1..Len(s)) = Len(s)
  BY <1>1, FS_Interval
<1>8. QED
  BY <1>1, <1>6, <1>7, FS_Bijection

LEMMA StoredType ==
    ASSUME ContentInv
    PROVE  Stored \in Seq(Docs) /\ Range(Stored) = Held(files)
<1>1. AreFiles(files)
  BY DEF ContentInv, Packaged
<1>2. QED
  BY <1>1, Buffer, DocsType DEF Stored

\* What the invariant says of the verdicts.
LEMMA ContentInvImplies ==
    ASSUME ContentInv
    PROVE  ContentTypeOK /\ EqualMeansSame /\ RoundTrip /\ VerdictWithoutTwins
<1>1. ContentTypeOK
  BY DEF ContentInv, Packaged, SliceType, AreFiles, KRM, ContentTypeOK
<1>2. EqualMeansSame
  <2>1. SUFFICES ASSUME phase = "equal"
                 PROVE  /\ Range(Stored) = Range(DocsOf(merged))
                        /\ NoTwins => Len(Stored) = Len(merged)
    BY DEF EqualMeansSame
  <2>2. Range(Stored) = Range(Wanted)
    BY <2>1 DEF ContentInv, Compared
  <2>3. ASSUME NoTwins
        PROVE  Len(Stored) = Len(merged)
    <3>1. IsInjective(Stored) /\ IsInjective(Wanted)
      BY <2>1, <2>3 DEF ContentInv, Packaged, NoTwins
    <3>2. Stored \in Seq(Docs) /\ Wanted \in Seq(Docs) /\ Len(Wanted) = Len(merged)
      BY StoredType, WantedType DEF ContentInv
    <3>3. Cardinality(Range(Stored)) = Len(Stored) /\ Cardinality(Range(Wanted)) = Len(Wanted)
      BY <3>1, <3>2, InjectiveLen
    <3>4. QED
      BY <2>2, <3>2, <3>3
  <2>4. QED
    BY <2>2, <2>3 DEF Wanted
<1>3. RoundTrip
  <2>1. SUFFICES ASSUME phase = "update", NoTwins, wrote = read
                 PROVE  FALSE
    BY DEF RoundTrip
  <2>2. read \in Sources /\ Range(Wanted) = Content(read) /\ IsInjective(Wanted)
    BY <2>1 DEF ContentInv, Packaged, NoTwins
  <2>3. wrote # NoSource
    BY <2>1, <2>2, SourcesAreFiles
  <2>4. Range(Stored) = Content(read)
    BY <2>1, <2>3, StoredType DEF ContentInv, Packaged
  <2>5. Same
    BY <2>1, <2>2, <2>4 DEF NoTwins, Same
  <2>6. QED
    BY <2>1, <2>5 DEF ContentInv, Compared
<1>4. VerdictWithoutTwins
  BY DEF ContentInv, Compared, VerdictWithoutTwins, NeverPanics
<1>5. QED
  BY <1>1, <1>2, <1>3, <1>4

LEMMA SourceThere ==
    ASSUME ContentInv, NamespaceDir \notin SrcDirs
    PROVE  SourceInstalled
<1>1. SUFFICES ASSUME phase = "equal", NEW p \in DOMAIN read, NEW k \in DOMAIN read[p]
               PROVE  Relocate(read[p][k]) \in Range(Stored)
  BY DEF SourceInstalled
<1>2. /\ read \in Sources /\ Range(Stored) = Content(read) /\ srcDir # NamespaceDir
  BY <1>1 DEF ContentInv, Packaged, Compared
<1>3. AreFiles(read) /\ includeFile(p)
  BY <1>1, <1>2, SourcesAreFiles
<1>4. read[p][k] \in Held(read)
  BY <1>1, <1>3 DEF Held, Range
<1>5. Relocate(read[p][k]) \in Range(DocsOf(createSourcePackage(read)))
  BY <1>3, <1>4, SourcePackage
<1>6. QED
  BY <1>2, <1>5 DEF Content

LEMMA ContentInvariant == Spec => []ContentInv
BY ContentInit, ContentNext, PTL DEF Spec

(***************************************************************************)
(* However large the source package is: the files of the revision and the  *)
(* merged package keep to their types through Merge, the loops of IsEqual  *)
(* and Update, no document of the merged package lands in a file that is   *)
(* not read back as KRM, and the slice never becomes longer than its array *)
(* or shorter than nothing.                                                *)
(***************************************************************************)
THEOREM ContentTypeCorrect == Spec => []ContentTypeOK
<1>1. ContentInv => ContentTypeOK
  BY ContentInvImplies
<1>2. QED
  BY <1>1, ContentInvariant, PTL

(***************************************************************************)
(* IsEqual says "equal" only of a revision that holds the documents of the *)
(* merged package and no others, and without twins each exactly once,      *)
(* although its inner loop removes elements from the array it ranges over. *)
(***************************************************************************)
THEOREM EqualMeansSameCorrect == Spec => []EqualMeansSame
<1>1. ContentInv => EqualMeansSame
  BY ContentInvImplies
<1>2. QED
  BY <1>1, ContentInvariant, PTL

(***************************************************************************)
(* A revision that CreateUpdatedResource wrote from a source without twins *)
(* is never found different from the same source when it is read back, so  *)
(* the poll does not create revision after revision.                       *)
(***************************************************************************)
THEOREM RoundTripCorrect == Spec => []RoundTrip
<1>1. ContentInv => RoundTrip
  BY ContentInvImplies
<1>2. QED
  BY <1>1, ContentInvariant, PTL

(***************************************************************************)
(* IsEqual never slices beyond the end on a revision without twins,        *)
(* whatever the revision is compared with.                                 *)
(***************************************************************************)
THEOREM VerdictWithoutTwinsCorrect == Spec => []VerdictWithoutTwins
<1>1. ContentInv => VerdictWithoutTwins
  BY ContentInvImplies
<1>2. QED
  BY <1>1, ContentInvariant, PTL

(***************************************************************************)
(* A package that is found up to date holds every document of the source   *)
(* in the tenant's namespace, if the source package is not itself called   *)
(* "namespace": then the generated package takes its place in the map.     *)
(***************************************************************************)
THEOREM SourceInstalledCorrect ==
    ASSUME NamespaceDir \notin SrcDirs
    PROVE  Spec => []SourceInstalled
<1>1. ContentInv => SourceInstalled
  BY SourceThere
<1>2. QED
  BY <1>1, ContentInvariant, PTL
=============================================================================
