---------------------------- MODULE NumberProofs ----------------------------
(***************************************************************************)
(* Retries never number two revisions of a Tenant alike, for every value   *)
(* of the constants, as long as lists do not answer NotFound.              *)
(***************************************************************************)
EXTENDS TenantControllerProofs

Unique(x) == \A j, k \in Owned(x) : j.num = k.num => j = k

\* What a worker knows when it creates a revision: there is none of its own
\* when it creates the first one, and none above the selected one otherwise.
\* Other clients may have made new ones since the list, but never owned ones.
Known(x) ==
    /\ \A k \in Owned(x) : k.num > 0
    /\ pc[x] = "createFirst" => Owned(x) = {}
    /\ pc[x] \in {"getResources", "createNext"} =>
         \A k \in Owned(x) : k.num <= w[x].sel.num

NumInvAt(x) == Unique(x) /\ Known(x)

NumInv == \A x \in Tenants : NumInvAt(x)

KnowPCs == {"createFirst", "getResources", "createNext"}

-----------------------------------------------------------------------------
(***************************************************************************)
(* Steps that create nothing.                                              *)
(***************************************************************************)
LEMMA NumShrinks ==
    ASSUME NEW x, NumInvAt(x), Owned(x)' \subseteq Owned(x),
           (pc'[x] = pc[x] /\ w'[x] = w[x]) \/ pc'[x] \notin KnowPCs
    PROVE  NumInvAt(x)'
<1>1. Unique(x)' /\ \A k \in Owned(x)' : k.num > 0
  BY DEF NumInvAt, Unique, Known
<1>2. Known(x)'
  BY <1>1 DEF NumInvAt, Known, KnowPCs
<1>3. QED
  BY <1>1, <1>2 DEF NumInvAt

LEMMA NumQuiet ==
    ASSUME NumInv, UNCHANGED revs,
           \A x \in Tenants : (pc'[x] = pc[x] /\ w'[x] = w[x]) \/ pc'[x] \notin KnowPCs
    PROVE  NumInv'
<1>1. ASSUME NEW x \in Tenants
      PROVE  NumInvAt(x)'
  BY NumShrinks, OwnedFrame DEF NumInv
<1>2. QED
  BY <1>1 DEF NumInv

LEMMA NumGoto ==
    ASSUME TypeInv, NumInv, UNCHANGED revs, NEW t \in Tenants, NEW p, NEW loc,
           Goto(t, p, loc), p \notin KnowPCs
    PROVE  NumInv'
<1>1. pc \in [Tenants -> PCs] /\ w \in [Tenants -> Locals]
  BY DEF TypeInv, TypeOK, WorkerTypeOK
<1>2. \A x \in Tenants : (pc'[x] = pc[x] /\ w'[x] = w[x]) \/ pc'[x] \notin KnowPCs
  BY <1>1 DEF Goto
<1>3. QED
  BY <1>2, NumQuiet

LEMMA NumAbort ==
    ASSUME TypeInv, NumInv, UNCHANGED revs, NEW t \in Tenants, Abort(t)
    PROVE  NumInv'
BY NumGoto DEF Abort, KnowPCs

\* Where a call of the worker takes it, without a revision being created.
LEMMA NumReply ==
    ASSUME TypeInv, NEW t \in Tenants, NumInvAt(t), Owned(t)' \subseteq Owned(t),
           NEW p, NEW loc, p \notin KnowPCs, Goto(t, p, loc) \/ Reply(t, p, loc) \/ Abort(t)
    PROVE  NumInvAt(t)'
<1>1. pc \in [Tenants -> PCs]
  BY DEF TypeInv, TypeOK, WorkerTypeOK
<1>2. Goto(t, p, loc) \/ Abort(t)
  BY DEF Reply
<1>3. pc'[t] \notin KnowPCs
  BY <1>1, <1>2 DEF Goto, Abort, KnowPCs
<1>4. QED
  BY <1>3, NumShrinks

-----------------------------------------------------------------------------
(***************************************************************************)
(* Steps of the package-revision client.                                   *)
(***************************************************************************)
LEMMA OwnedCreate ==
    ASSUME revs \in [Keys -> Revs], NEW k \in Keys, CreateRev(k), NEW x
    PROVE  Owned(x)' \subseteq Owned(x) \cup {k}
BY DEF CreateRev, Owned, Exists

LEMMA NumList ==
    ASSUME TypeInv, ~PorchMayVanish, NEW t \in Tenants, NumInvAt(t), List(t)
    PROVE  NumInvAt(t)'
<1>1. /\ pc \in [Tenants -> PCs] /\ w \in [Tenants -> Locals] /\ w[t] \in Locals
      /\ UNCHANGED revs
  BY DEF TypeInv, TypeOK, WorkerTypeOK, List
<1>2. Owned(t)' = Owned(t) /\ \A j \in Owned(t) : j \in Numbered(t)
  BY <1>1 DEF Owned, Exists, Numbered, Listed, NumInvAt, Known
<1>3. Unique(t)' /\ \A j \in Owned(t)' : j.num > 0
  BY <1>2 DEF NumInvAt, Unique, Known
<1>4. CASE Numbered(t) = {} /\ Goto(t, "createFirst", w[t])
  <2>1. Owned(t)' = {} /\ pc'[t] = "createFirst"
    BY <1>1, <1>2, <1>4 DEF Goto
  <2>2. QED
    BY <1>3, <2>1 DEF NumInvAt, Known
<1>5. CASE \E k \in Latest(t) : Select(t, k)
  <2>1. PICK k \in Latest(t) : Select(t, k)
    BY <1>5
  <2>2. pc'[t] = "getResources" /\ w'[t].sel = k
    BY <1>1, <2>1 DEF Select, Goto, Locals
  <2>3. \A j \in Owned(t)' : j.num <= k.num
    BY <1>2 DEF Latest
  <2>4. QED
    BY <1>3, <2>2, <2>3 DEF NumInvAt, Known
<1>6. QED
  BY <1>4, <1>5 DEF List

\* The new revision has a higher number than all that the Tenant has.
LEMMA NumCreate ==
    ASSUME revs \in [Keys -> Revs], NEW t, NumInvAt(t), NEW k \in Keys, k.num > 0,
           CreateRev(k), \A j \in Owned(t) : j.num < k.num
    PROVE  /\ Unique(t)'
           /\ \A j \in Owned(t)' : j.num > 0 /\ j.num <= k.num
<1>1. Owned(t)' \subseteq Owned(t) \cup {k} /\ Owned(t) \subseteq Keys
  BY OwnedCreate DEF Owned
<1>2. Unique(t)'
  BY <1>1 DEF NumInvAt, Unique, Keys
<1>3. \A j \in Owned(t)' : j.num > 0 /\ j.num <= k.num
  BY <1>1, PorchAssumption DEF NumInvAt, Known, Keys
<1>4. QED
  BY <1>2, <1>3

LEMMA NumCreateAs ==
    ASSUME TypeInv, NEW t \in Tenants, NumInvAt(t), NEW k \in Keys, k.num > 0,
           \A j \in Owned(t) : j.num < k.num,
           NEW p \in {"getResources", "getNewResources"}, CreateAs(t, k, p)
    PROVE  NumInvAt(t)'
<1>1. /\ pc \in [Tenants -> PCs] /\ w \in [Tenants -> Locals] /\ w[t] \in Locals
      /\ revs \in [Keys -> Revs]
  BY DEF TypeInv, TypeOK, WorkerTypeOK, PorchTypeOK
<1>2. CASE Refuse(t)
  <2>1. UNCHANGED revs /\ Abort(t)
    BY <1>2 DEF Refuse
  <2>2. Owned(t)' \subseteq Owned(t)
    BY <2>1, OwnedFrame
  <2>3. pc'[t] \notin KnowPCs
    BY <1>1, <2>1 DEF Abort, Goto, KnowPCs
  <2>4. QED
    BY <2>2, <2>3, NumShrinks
<1>3. CASE /\ CreateRev(k)
           /\ Reply(t, p, [w[t] EXCEPT !.sel = k, !.slc = "Draft"])
  <2>1. /\ Unique(t)'
        /\ \A j \in Owned(t)' : j.num > 0 /\ j.num <= k.num
    BY <1>1, <1>3, NumCreate
  <2>2. CASE Abort(t)
    <3>1. pc'[t] = "setError"
      BY <1>1, <2>2 DEF Abort, Goto
    <3>2. QED
      BY <2>1, <3>1 DEF NumInvAt, Known
  <2>3. CASE Goto(t, p, [w[t] EXCEPT !.sel = k, !.slc = "Draft"])
    <3>1. pc'[t] = p /\ w'[t].sel = k
      BY <1>1, <2>3 DEF Goto, Locals
    <3>2. QED
      BY <2>1, <3>1 DEF NumInvAt, Known
  <2>4. QED
    BY <1>3, <2>2, <2>3 DEF Reply
<1>4. QED
  BY <1>2, <1>3 DEF CreateAs

LEMMA NumCreateStep ==
    ASSUME TypeInv, NEW t \in Tenants, NumInvAt(t), CreateFirst(t) \/ CreateNext(t)
    PROVE  NumInvAt(t)'
<1>1. CASE CreateFirst(t)
  <2>1. First(t) \in Keys /\ First(t).num = 1
    BY <1>1, SyncKeys DEF CreateFirst, SyncPCs
  <2>2. Owned(t) = {}
    BY <1>1 DEF CreateFirst, NumInvAt, Known
  <2>3. CreateAs(t, First(t), "getResources")
    BY <1>1 DEF CreateFirst
  <2>4. QED
    BY <2>1, <2>2, <2>3, NumCreateAs
<1>2. CASE CreateNext(t)
  <2>1. Successor(t) \in Keys /\ Successor(t).num = w[t].sel.num + 1
    BY <1>2, SyncKeys DEF CreateNext
  <2>2. w[t].sel.num \in Nat
    BY <1>2 DEF TypeInv, SelInv, LocInv, SelPCs, Keys, CreateNext
  <2>3. \A j \in Owned(t) : j.num <= w[t].sel.num /\ j.num \in Nat
    BY <1>2, PorchAssumption DEF CreateNext, NumInvAt, Known, Owned, Keys
  <2>4. CreateAs(t, Successor(t), "getNewResources")
    BY <1>2 DEF CreateNext
  <2>5. (\A j \in Owned(t) : j.num < Successor(t).num) /\ Successor(t).num > 0
    BY <2>1, <2>2, <2>3
  <2>6. QED
    BY <2>1, <2>4, <2>5, NumCreateAs
<1>3. QED
  BY <1>1, <1>2

\* The comparison keeps what the list showed until the next revision is made.
LEMMA NumCompare ==
    ASSUME TypeInv, NEW t \in Tenants, NumInvAt(t), GetResources(t)
    PROVE  NumInvAt(t)'
<1>1. /\ pc \in [Tenants -> PCs] /\ w \in [Tenants -> Locals] /\ w[t] \in Locals
      /\ pc[t] = "getResources"
  BY DEF TypeInv, TypeOK, WorkerTypeOK, GetResources
<1>2. UNCHANGED revs
  BY DEF GetResources, Refuse
<1>3. Owned(t)' = Owned(t)
  BY <1>2, OwnedFrame
<1>4. Unique(t)' /\ \A j \in Owned(t)' : j.num > 0 /\ j.num <= w[t].sel.num
  BY <1>1, <1>3 DEF NumInvAt, Unique, Known
<1>5. \/ pc'[t] = "setError"
      \/ w'[t] = w[t] /\ pc'[t] # "createFirst"
  <2>1. CASE Refuse(t)
    BY <1>1, <2>1 DEF Refuse, Abort, Goto
  <2>2. CASE Goto(t, Compare(w[t], revs[w[t].sel].body), w[t])
    <3>1. w[t].slc \in Lifecycles
      BY <1>1 DEF TypeInv, SelInv, LocInv, SelPCs
    <3>2. Compare(w[t], revs[w[t].sel].body) # "createFirst"
      BY <3>1 DEF Compare, Approve, Lifecycles
    <3>3. QED
      BY <1>1, <2>2, <3>2 DEF Goto
  <2>3. QED
    BY <2>1, <2>2 DEF GetResources
<1>6. QED
  BY <1>4, <1>5 DEF NumInvAt, Known

LEMMA NumOther ==
    ASSUME TypeInv, NEW t \in Tenants, NumInvAt(t),
           \/ DeleteList(t) \/ DeleteOne(t) \/ GetNewResources(t) \/ UpdateResources(t)
           \/ ApproveGet(t) \/ Propose(t) \/ ApprovalGet(t) \/ ApprovalPut(t)
    PROVE  NumInvAt(t)'
<1>1. /\ revs \in [Keys -> Revs] /\ pc \in [Tenants -> PCs]
      /\ w[t].todo \subseteq Keys
  BY DEF TypeInv, TypeOK, PorchTypeOK, WorkerTypeOK, SelInv, LocInv
<1>2. UNCHANGED revs => Owned(t)' \subseteq Owned(t)
  BY OwnedFrame
<1>3. ASSUME Refuse(t)
      PROVE  NumInvAt(t)'
  <2>1. pc'[t] \notin KnowPCs
    BY <1>1, <1>3 DEF Refuse, Abort, Goto, KnowPCs
  <2>2. QED
    BY <1>2, <1>3, <2>1, NumShrinks DEF Refuse
<1>4. \A S : DeleteNext(S) \notin KnowPCs
  BY DEF DeleteNext, KnowPCs
<1>5. CASE DeleteList(t)
  <2>1. UNCHANGED revs /\ \E S : Goto(t, DeleteNext(S), [w[t] EXCEPT !.todo = S])
    BY <1>5 DEF DeleteList
  <2>2. QED
    BY <1>2, <1>4, <2>1, NumReply
<1>6. CASE DeleteOne(t)
  <2>1. PICK k \in w[t].todo :
          LET rest == w[t].todo \ {k} IN
          \/ DeleteRev(k) /\ Reply(t, DeleteNext(rest), [w[t] EXCEPT !.todo = rest])
          \/ ~Exists(k) /\ Refuse(t)
    BY <1>6 DEF DeleteOne
  <2>2. DeleteRev(k) => Owned(t)' \subseteq Owned(t)
    BY <1>1, <2>1, OwnedShrinks
  <2>3. QED
    BY <1>3, <1>4, <2>1, <2>2, NumReply
<1>7. ASSUME pc[t] \in SelPCs
      PROVE  w[t].sel \in Keys /\ w[t].want \in Bodies /\ w[t].slc \in Lifecycles
  BY <1>7 DEF TypeInv, SelInv, LocInv, SelPCs, SyncPCs, ApprovePCs
<1>8. {"updateResources", "propose", "approvalGet", "approvalPut", "setReady"} \cap KnowPCs = {}
  BY DEF KnowPCs
<1>9. CASE GetNewResources(t) \/ ApproveGet(t) \/ ApprovalGet(t)
  <2>1. \/ Refuse(t)
        \/ /\ UNCHANGED revs
           /\ \E p \in {"updateResources", "propose", "approvalPut", "setReady"} : Goto(t, p, w[t])
    BY <1>9 DEF GetNewResources, ApproveGet, ApprovalGet
  <2>2. QED
    BY <1>2, <1>3, <1>8, <2>1, NumReply
<1>10. CASE UpdateResources(t)
  <2>1. w[t].sel \in Keys /\ w[t].want \in Bodies /\ w[t].slc \in Lifecycles
    BY <1>7, <1>10 DEF UpdateResources, SelPCs
  <2>2. PutResources(w[t].sel, w[t].want) => Owned(t)' \subseteq Owned(t)
    BY <1>1, <2>1, OwnedShrinks
  <2>3. Approve(w[t].slc) \notin KnowPCs
    BY <2>1 DEF Approve, Lifecycles, KnowPCs
  <2>4. QED
    BY <1>3, <1>10, <2>2, <2>3, NumReply DEF UpdateResources
<1>11. CASE Propose(t)
  <2>1. w[t].sel \in Keys
    BY <1>7, <1>11 DEF Propose, SelPCs, ApprovePCs
  <2>2. ProposeRev(w[t].sel) => Owned(t)' \subseteq Owned(t)
    BY <1>1, <2>1, OwnedShrinks
  <2>3. QED
    BY <1>3, <1>8, <1>11, <2>2, NumReply DEF Propose
<1>12. CASE ApprovalPut(t)
  <2>1. w[t].sel \in Keys
    BY <1>7, <1>12 DEF ApprovalPut, SelPCs, ApprovePCs
  <2>2. ApproveRev(w[t].sel) => Owned(t)' \subseteq Owned(t)
    BY <1>1, <2>1, OwnedShrinks
  <2>3. QED
    BY <1>3, <1>8, <1>12, <2>2, NumReply DEF ApprovalPut
<1>13. QED
  BY <1>5, <1>6, <1>9, <1>10, <1>11, <1>12

LEMMA NumPkgRevStep ==
    ASSUME TypeInv, NumInv, ~PorchMayVanish, NEW t \in Tenants, PkgRevStep(t)
    PROVE  NumInv'
<1>1. NumInvAt(t)'
  <2>1. NumInvAt(t)
    BY DEF NumInv
  <2>2. QED
    BY <2>1, NumList, NumCreateStep, NumCompare, NumOther DEF PkgRevStep
<1>2. OwnCall(t) /\ revs \in [Keys -> Revs]
  BY PkgRevOutcome DEF TypeInv, TypeOK, PorchTypeOK
<1>3. \A x \in Tenants \ {t} : pc'[x] = pc[x] /\ w'[x] = w[x]
  <2>1. PICK p, loc : StepTo(t, p, loc)
    BY PkgRevOutcome
  <2>2. QED
    BY <2>1, GotoEffect DEF StepTo, Outcome, TypeInv, TypeOK
<1>4. ASSUME NEW x \in Tenants, x # t
      PROVE  NumInvAt(x)'
  <2>1. \A j \in Keys : j.pkg = x => revs'[j] = revs[j]
    BY <1>2, <1>4, PorchCallType DEF OwnCall
  <2>2. Owned(x)' \subseteq Owned(x)
    BY <2>1, OwnedFrame
  <2>3. QED
    BY <1>3, <1>4, <2>2, NumShrinks DEF NumInv
<1>5. QED
  BY <1>1, <1>4 DEF NumInv

-----------------------------------------------------------------------------
(***************************************************************************)
(* All other steps.                                                        *)
(***************************************************************************)
LEMMA NumCall ==
    ASSUME TypeInv, NumInv, NEW t \in Tenants,
           \/ Begin(t) \/ AddFinalizer(t) \/ RemoveFinalizer(t) \/ SourceList(t) \/ SourceGet(t)
           \/ CallFails(t) \/ SetStatus(t)
    PROVE  NumInv'
<1>1. UNCHANGED revs
  BY DEF Begin, AddFinalizer, RemoveFinalizer, SourceList, SourceGet, CallFails, SetStatus
<1>2. ASSUME NEW v
      PROVE  AfterFinalizer(v) \notin KnowPCs
  BY DEF AfterFinalizer, KnowPCs
<1>3. ASSUME Finish(t)
      PROVE  NumInv'
  BY <1>1, <1>3, NumGoto DEF Finish, KnowPCs
<1>4. CASE Begin(t)
  <2>1. CASE UNCHANGED <<pc, w>>
    BY <1>1, <2>1, NumQuiet
  <2>2. CASE Goto(t, IF Cached(t).fin THEN AfterFinalizer(Cached(t)) ELSE "addFinalizer",
                  NewLocal(Cached(t), cached[t]))
    <3>1. (IF Cached(t).fin THEN AfterFinalizer(Cached(t)) ELSE "addFinalizer") \notin KnowPCs
      BY DEF AfterFinalizer, KnowPCs
    <3>2. QED
      BY <1>1, <2>2, <3>1, NumGoto
  <2>3. QED
    BY <1>4, <2>1, <2>2 DEF Begin
<1>5. CASE AddFinalizer(t)
  BY <1>1, <1>2, <1>5, NumGoto, NumAbort DEF AddFinalizer, Reply
<1>6. CASE RemoveFinalizer(t)
  BY <1>1, <1>3, <1>6, NumAbort DEF RemoveFinalizer
<1>7. CASE SourceList(t)
  BY <1>1, <1>7, NumGoto, NumAbort DEF SourceList, KnowPCs
<1>8. CASE SourceGet(t)
  BY <1>1, <1>8, NumGoto, NumAbort DEF SourceGet, KnowPCs
<1>9. CASE CallFails(t)
  BY <1>1, <1>9, NumAbort DEF CallFails
<1>10. CASE SetStatus(t)
  BY <1>3, <1>10 DEF SetStatus
<1>11. QED
  BY <1>4, <1>5, <1>6, <1>7, <1>8, <1>9, <1>10

LEMMA NumDrift ==
    ASSUME TypeInv, NumInv, Drift
    PROVE  NumInv'
<1>1. revs \in [Keys -> Revs] /\ UNCHANGED <<pc, w>>
  BY DEF TypeInv, TypeOK, PorchTypeOK, Drift
<1>2. ASSUME NEW x \in Tenants
      PROVE  NumInvAt(x)'
  <2>1. Owned(x)' \subseteq Owned(x)
    BY <1>1, OwnedDrift DEF Drift
  <2>2. QED
    BY <1>1, <2>1, NumShrinks DEF NumInv
<1>3. QED
  BY <1>2 DEF NumInv

LEMMA NumRestart ==
    ASSUME NumInv, Restart
    PROVE  NumInv'
<1>1. UNCHANGED revs /\ \A x \in Tenants : pc'[x] \notin KnowPCs
  BY DEF Restart, KnowPCs
<1>2. QED
  BY <1>1, NumQuiet

LEMMA NumNext ==
    ASSUME TypeInv, NumInv, ~PorchMayVanish, [Next]_vars
    PROVE  NumInv'
<1>1. ASSUME UNCHANGED <<revs, pc, w>>
      PROVE  NumInv'
  BY <1>1, NumQuiet
<1>2. CASE UNCHANGED vars
  BY <1>1, <1>2 DEF vars
<1>3. ASSUME NEW t \in Tenants, Observe(t) \/ Fire(t) \/ UserStep(t)
      PROVE  NumInv'
  BY <1>1, <1>3 DEF Observe, Fire, UserStep
<1>4. ASSUME NEW t \in Tenants, Panic(t)
      PROVE  NumInv'
  BY <1>4, NumRestart DEF Panic
<1>5. CASE Crash
  BY <1>5, NumRestart DEF Crash
<1>6. CASE SourceStep
  BY <1>1, <1>6 DEF SourceStep, ChangeSource
<1>7. ASSUME NEW t \in Tenants, Call(t)
      PROVE  NumInv'
  BY <1>7, NumCall, NumPkgRevStep DEF Call
<1>8. QED
  BY <1>2, <1>3, <1>4, <1>5, <1>6, <1>7, NumCall, NumDrift DEF Next

LEMMA NumInit == Init => NumInv
<1> SUFFICES ASSUME Init, NEW x \in Tenants
             PROVE  NumInvAt(x)
  BY DEF NumInv
<1>1. Owned(x) = {} /\ pc[x] = "idle"
  BY DEF Init, PorchInit, WorkerInit, Owned, Exists, NoRev
<1>2. QED
  BY <1>1 DEF NumInvAt, Unique, Known

\* However often a creation is retried, after lost answers, crashes, changes of
\* the repository and revisions of other clients, the controller never gives two
\* revisions of a Tenant the same number, unless a list answers NotFound.
THEOREM OwnedUniqueCorrect ==
    ASSUME ~PorchMayVanish
    PROVE  Spec => []OwnedUnique
<1>1. Init => TypeInv /\ NumInv
  BY TypeInit, NumInit
<1>2. TypeInv /\ NumInv /\ [Next]_vars => (TypeInv /\ NumInv)'
  BY TypeNext, NumNext
<1>3. NumInv => OwnedUnique
  BY DEF NumInv, NumInvAt, Unique, OwnedUnique
<1>4. Spec => [](TypeInv /\ NumInv)
  BY <1>1, <1>2, PTL DEF Spec
<1>5. QED
  BY <1>3, <1>4, PTL
=============================================================================
