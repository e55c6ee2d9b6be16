----------------------------- MODULE QuietProofs -----------------------------
(***************************************************************************)
(* What the controller achieves while no other client of Porch interferes, *)
(* for every value of the other constants: drafts do not pile up, Ready    *)
(* means published, and nothing is deleted under a living Tenant.          *)
(***************************************************************************)
EXTENDS RefinementProofs

FreshPCs == {"getResources", "createNext", "getNewResources", "updateResources"}
AimedPCs == SelPCs \cup {"setReady"}

\* The numbered revisions of a package are the controller's own, and a draft
\* among them is the newest one.
Tidy(x) ==
    /\ Numbered(x) \subseteq Owned(x)
    /\ \A k \in Owned(x) : revs[k].lc = "Draft" => k \in Latest(x)

\* A worker knows the revision that it works on: it is the newest one, with the
\* lifecycle that was read, and from Approve on with the wanted content.
Aim(x) ==
    LET r == revs[w[x].sel] IN
    /\ pc[x] = "createFirst" => Numbered(x) = {}
    /\ pc[x] \in AimedPCs => w[x].sel \in Latest(x)
    /\ pc[x] \in FreshPCs => r.lc = w[x].slc
    /\ pc[x] = "createNext" => w[x].slc # "Draft"
    /\ pc[x] \in {"getNewResources", "updateResources"} => w[x].slc = "Draft"
    /\ pc[x] \in ApprovePCs \cup {"setReady"} => r.body = w[x].want
    /\ pc[x] \in {"approveGet", "propose"} => r.lc = "Draft"
    /\ pc[x] \in {"approvalGet", "approvalPut"} => r.lc = "Proposed"
    /\ pc[x] = "setReady" => r.lc = "Published"

Steady(x) == Tidy(x) /\ Aim(x)

QuietInv == budget.drift = 0 /\ \A x \in Tenants : Steady(x)

LoosePCs == PCs \ (AimedPCs \cup {"createFirst"})

-----------------------------------------------------------------------------
(***************************************************************************)
(* Calls to Porch.                                                         *)
(***************************************************************************)
LEMMA SteadyFrame ==
    ASSUME TypeInv, NEW x \in Tenants, \A j \in Keys : j.pkg = x => revs'[j] = revs[j], Steady(x),
           (pc'[x] = pc[x] /\ w'[x] = w[x]) \/ pc'[x] \in LoosePCs
    PROVE  Steady(x)'
<1>1. Numbered(x)' = Numbered(x) /\ Owned(x)' = Owned(x)
  BY DEF Numbered, Listed, Owned, Exists
<1>2. Latest(x)' = Latest(x)
  BY <1>1 DEF Latest
<1>3. Tidy(x)'
  BY <1>1, <1>2 DEF Steady, Tidy, Owned
<1>4. CASE pc'[x] \in LoosePCs
  BY <1>3, <1>4 DEF Steady, Aim, LoosePCs, AimedPCs, SelPCs, FreshPCs, ApprovePCs
<1>5. CASE pc'[x] = pc[x] /\ w'[x] = w[x]
  <2>1. pc[x] \in SelPCs \cup {"setReady"} => w[x].sel \in Latest(x)
    BY DEF Steady, Aim, AimedPCs
  <2>2. pc[x] \in SelPCs \cup {"setReady"} => revs'[w[x].sel] = revs[w[x].sel]
    BY <2>1 DEF Latest, Numbered, Listed
  <2>3. QED
    BY <1>1, <1>2, <1>3, <1>5, <2>1, <2>2
    DEF Steady, Aim, AimedPCs, SelPCs, FreshPCs, ApprovePCs
<1>6. QED
  BY <1>4, <1>5

LEMMA LatestType ==
    ASSUME NEW x, NEW k \in Latest(x)
    PROVE  k \in Keys /\ k.pkg = x /\ k.num > 0 /\ Exists(k) /\ k \in Numbered(x)
BY DEF Latest, Numbered, Listed

\* A revision on top of all others, none of which is a draft.
LEMMA TidyCreate ==
    ASSUME revs \in [Keys -> Revs], NEW x, Tidy(x), NEW k \in Keys, k.pkg = x, k.num > 0,
           CreateRev(k), \A j \in Numbered(x) : j.num < k.num /\ revs[j].lc # "Draft"
    PROVE  /\ Tidy(x)' /\ k \in Latest(x)'
           /\ revs'[k].lc = "Draft"
<1>1. /\ revs'[k] = [lc |-> "Draft", body |-> InitBody, own |-> TRUE]
      /\ \A j \in Keys \ {k} : revs'[j] = revs[j]
  BY DEF CreateRev
<1>2. revs'[k].lc = "Draft" /\ revs'[k].own
  BY <1>1
<1>3. Numbered(x)' = Numbered(x) \cup {k}
  BY <1>1, <1>2 DEF Numbered, Listed, Exists
<1>4. Owned(x)' = Owned(x) \cup {k}
  BY <1>1, <1>2 DEF Owned, Exists
<1>5. \A j \in Numbered(x)' : j.num \in Nat
  BY DEF Numbered, Listed, Keys
<1>6. k \in Latest(x)'
  BY <1>3, <1>5 DEF Latest
<1>7. ASSUME NEW j \in Owned(x)', revs'[j].lc = "Draft"
      PROVE  j = k
  <2> SUFFICES ASSUME j # k
               PROVE  FALSE
    OBVIOUS
  <2>1. j \in Owned(x) /\ j \in Keys /\ revs[j].lc = "Draft"
    BY <1>1, <1>4, <1>7 DEF Owned
  <2>2. j \in Numbered(x)
    BY <2>1 DEF Tidy, Latest
  <2>3. QED
    BY <2>1, <2>2
<1>8. Tidy(x)'
  BY <1>3, <1>4, <1>6, <1>7 DEF Tidy
<1>9. QED
  BY <1>2, <1>6, <1>8

LEMMA TidyDelete ==
    ASSUME revs \in [Keys -> Revs], NEW x, Tidy(x), NEW k \in Keys, DeleteRev(k)
    PROVE  Tidy(x)'
<1>1. revs'[k].lc = "None" /\ \A j \in Keys \ {k} : revs'[j] = revs[j]
  BY DEF DeleteRev, NoRev
<1>2. Numbered(x)' = Numbered(x) \ {k} /\ Owned(x)' = Owned(x) \ {k}
  BY <1>1 DEF Numbered, Listed, Owned, Exists
<1>3. ASSUME NEW j \in Owned(x)', revs'[j].lc = "Draft"
      PROVE  j \in Latest(x)'
  <2>1. j \in Owned(x) /\ j # k /\ revs[j].lc = "Draft"
    BY <1>1, <1>2, <1>3 DEF Owned
  <2>2. j \in Latest(x)
    BY <2>1 DEF Tidy
  <2>3. QED
    BY <1>2, <2>1, <2>2 DEF Latest
<1>4. QED
  BY <1>2, <1>3 DEF Tidy

\* A call that moves a revision on keeps the list of numbered revisions.
SelectedCall(k, lc, body) ==
    /\ revs'[k].lc = lc /\ revs'[k].body = body
    /\ \A j \in Keys : j.num > 0 =>
         /\ revs'[j].lc # "None" <=> revs[j].lc # "None"
         /\ revs[j].own => revs'[j].own
         /\ revs'[j].lc = "Draft" => revs[j].lc = "Draft"
    /\ \A x : Owned(x)' \subseteq Owned(x)

LEMMA SelectedPut ==
    ASSUME revs \in [Keys -> Revs], NEW k \in Keys, NEW b \in Bodies, PutResources(k, b)
    PROVE  SelectedCall(k, "Draft", b)
<1>1. revs[k] \in Revs /\ revs[k].lc = "Draft"
      /\ revs' = [revs EXCEPT ![k] = [revs[k] EXCEPT !.body = b]]
  BY DEF PutResources
<1>2. /\ [revs[k] EXCEPT !.body = b].lc = "Draft" /\ [revs[k] EXCEPT !.body = b].body = b
      /\ [revs[k] EXCEPT !.body = b].own = revs[k].own
  BY <1>1 DEF Revs
<1>3. /\ revs'[k].lc = "Draft" /\ revs'[k].body = b /\ (revs[k].own => revs'[k].own)
      /\ \A j \in Keys \ {k} : revs'[j] = revs[j]
  BY <1>1, <1>2
<1>4. \A x : Owned(x)' \subseteq Owned(x)
  BY OwnedShrinks
<1>5. QED
  BY <1>1, <1>3, <1>4 DEF SelectedCall

LEMMA SelectedPropose ==
    ASSUME revs \in [Keys -> Revs], NEW k \in Keys, ProposeRev(k)
    PROVE  SelectedCall(k, "Proposed", revs[k].body)
<1>1. revs[k] \in Revs /\ revs[k].lc # "None"
      /\ revs' = [revs EXCEPT ![k] = [revs[k] EXCEPT !.lc = "Proposed"]]
  BY DEF ProposeRev
<1>2. /\ [revs[k] EXCEPT !.lc = "Proposed"].lc = "Proposed"
      /\ [revs[k] EXCEPT !.lc = "Proposed"].body = revs[k].body
      /\ [revs[k] EXCEPT !.lc = "Proposed"].own = revs[k].own
  BY <1>1 DEF Revs
<1>3. /\ revs'[k].lc = "Proposed" /\ revs'[k].body = revs[k].body
      /\ (revs[k].own => revs'[k].own)
      /\ \A j \in Keys \ {k} : revs'[j] = revs[j]
  BY <1>1, <1>2
<1>4. \A x : Owned(x)' \subseteq Owned(x)
  BY OwnedShrinks
<1>5. QED
  BY <1>1, <1>3, <1>4 DEF SelectedCall

LEMMA SelectedApprove ==
    ASSUME revs \in [Keys -> Revs], NEW k \in Keys, k.num > 0, ApproveRev(k)
    PROVE  SelectedCall(k, "Published", revs[k].body)
<1>1. Main(k) \in Keys /\ Main(k) # k /\ Main(k).num = 0
  BY MainKey
<1>2. /\ revs[k] \in Revs /\ revs[k].lc # "None"
      /\ revs'[k] = [revs[k] EXCEPT !.lc = "Published"]
      /\ \A j \in Keys \ {k, Main(k)} : revs'[j] = revs[j]
  BY <1>1 DEF ApproveRev
<1>3. /\ [revs[k] EXCEPT !.lc = "Published"].lc = "Published"
      /\ [revs[k] EXCEPT !.lc = "Published"].body = revs[k].body
      /\ [revs[k] EXCEPT !.lc = "Published"].own = revs[k].own
  BY <1>2 DEF Revs
<1>4. /\ revs'[k].lc = "Published" /\ revs'[k].body = revs[k].body
      /\ (revs[k].own => revs'[k].own)
      /\ \A j \in Keys \ {k} : j.num > 0 => revs'[j] = revs[j]
  BY <1>1, <1>2, <1>3
<1>5. \A x : Owned(x)' \subseteq Owned(x)
  BY OwnedShrinks
<1>6. QED
  BY <1>2, <1>4, <1>5 DEF SelectedCall

LEMMA TidySelected ==
    ASSUME NEW x, Tidy(x), \A k \in Owned(x) : k.num > 0, NEW k \in Keys, NEW lc, NEW body,
           SelectedCall(k, lc, body)
    PROVE  Tidy(x)' /\ Latest(x)' = Latest(x)
<1>1. Numbered(x)' = Numbered(x)
  BY DEF SelectedCall, Numbered, Listed, Exists
<1>2. Latest(x)' = Latest(x)
  BY <1>1 DEF Latest
<1>3. Numbered(x)' \subseteq Owned(x)'
  <2> SUFFICES ASSUME NEW j \in Numbered(x)'
               PROVE  j \in Owned(x)'
    OBVIOUS
  <2>1. j \in Keys /\ j.pkg = x /\ j.num > 0 /\ revs'[j].lc # "None" /\ revs[j].own
    BY <1>1 DEF Tidy, Owned, Numbered, Listed, Exists
  <2>2. QED
    BY <2>1 DEF SelectedCall, Owned, Exists
<1>4. ASSUME NEW j \in Owned(x)', revs'[j].lc = "Draft"
      PROVE  j \in Latest(x)'
  <2>1. j \in Keys /\ j \in Owned(x)
    BY <1>4 DEF SelectedCall, Owned
  <2>2. revs[j].lc = "Draft"
    BY <1>4, <2>1 DEF SelectedCall
  <2>3. QED
    BY <1>2, <2>1, <2>2 DEF Tidy
<1>5. QED
  BY <1>2, <1>3, <1>4 DEF Tidy

-----------------------------------------------------------------------------
(***************************************************************************)
(* The calls of a worker.                                                  *)
(***************************************************************************)
LEMMA SteadyLoose ==
    ASSUME NEW t, Tidy(t)', pc'[t] \in LoosePCs
    PROVE  Steady(t)'
BY DEF Steady, Aim, LoosePCs, AimedPCs, SelPCs, FreshPCs, ApprovePCs

LEMMA SteadyAbort ==
    ASSUME TypeInv, NEW t \in Tenants, Tidy(t)', Abort(t)
    PROVE  Steady(t)'
<1>1. pc'[t] \in LoosePCs
  BY AbortEffect DEF LoosePCs, AimedPCs, SelPCs, ApprovePCs, PCs
<1>2. QED
  BY <1>1, SteadyLoose

\* An answer that arrives takes the worker to p; one that is lost, to an error.
LEMMA SteadyReply ==
    ASSUME TypeInv, NEW t \in Tenants, Tidy(t)', NEW p \in PCs, NEW loc \in Locals,
           Reply(t, p, loc) \/ Goto(t, p, loc),
           pc'[t] = p /\ w'[t] = loc => Steady(t)'
    PROVE  Steady(t)'
<1>1. ASSUME Goto(t, p, loc)
      PROVE  Steady(t)'
  BY <1>1, GotoEffect DEF TypeInv, TypeOK
<1>2. QED
  BY <1>1, SteadyAbort DEF Reply

LEMMA TidyFrame ==
    ASSUME NEW t, Tidy(t), UNCHANGED revs
    PROVE  Tidy(t)' /\ Latest(t)' = Latest(t) /\ Numbered(t)' = Numbered(t)
BY DEF Tidy, Latest, Numbered, Listed, Owned, Exists

LEMMA SteadyDelete ==
    ASSUME TypeInv, NEW t \in Tenants, Steady(t), DeleteList(t) \/ DeleteOne(t)
    PROVE  Steady(t)'
<1>1. /\ revs \in [Keys -> Revs] /\ w[t].todo \subseteq Keys
      /\ pc \in [Tenants -> PCs] /\ pc[t] \in {"delList", "delOne"}
  BY DEF TypeInv, TypeOK, PorchTypeOK, WorkerTypeOK, SelInv, LocInv, DeleteList, DeleteOne
<1>2. Tidy(t)'
  BY <1>1, TidyFrame, TidyDelete DEF DeleteList, DeleteOne, Refuse, Steady
<1>3. ASSUME NEW S, NEW loc, Goto(t, DeleteNext(S), loc)
      PROVE  Steady(t)'
  <2>1. pc'[t] \in LoosePCs
    BY <1>1, <1>3
    DEF Goto, DeleteNext, LoosePCs, AimedPCs, SelPCs, ApprovePCs, PCs, DeletePCs
  <2>2. QED
    BY <1>2, <2>1, SteadyLoose
<1>4. QED
  BY <1>2, <1>3, SteadyAbort DEF DeleteList, DeleteOne, Reply, Refuse

LEMMA SteadyList ==
    ASSUME TypeInv, ~PorchMayVanish, NEW t \in Tenants, Steady(t), List(t)
    PROVE  Steady(t)'
<1>1. w[t] \in Locals /\ UNCHANGED revs /\ Tidy(t) /\ revs \in [Keys -> Revs]
  BY DEF TypeInv, TypeOK, WorkerTypeOK, PorchTypeOK, List, Steady
<1>2. Tidy(t)' /\ Latest(t)' = Latest(t) /\ Numbered(t)' = Numbered(t)
  BY <1>1, TidyFrame
<1>3. ASSUME NEW k \in Latest(t), Select(t, k)
      PROVE  Steady(t)'
  <2> DEFINE loc == [w[t] EXCEPT !.sel = k, !.slc = revs[k].lc]
  <2>1. k \in Keys /\ revs[k].lc \in Lifecycles \cup {"None"}
    BY <1>1, LatestType DEF Revs
  <2>2. loc \in Locals /\ loc.sel = k /\ loc.slc = revs[k].lc
    BY <1>1, <2>1 DEF Locals
  <2>3. Goto(t, "getResources", loc) /\ "getResources" \in PCs
    BY <1>3 DEF Select, PCs, SyncPCs
  <2> HIDE DEF loc
  <2>4. pc'[t] = "getResources" /\ w'[t] = loc => Steady(t)'
    BY <1>1, <1>2, <2>2 DEF Steady, Aim, AimedPCs, SelPCs, FreshPCs, ApprovePCs
  <2>5. QED
    BY <1>2, <2>2, <2>3, <2>4, SteadyReply
<1>4. ASSUME Numbered(t) = {}, Goto(t, "createFirst", w[t])
      PROVE  Steady(t)'
  <2>1. pc'[t] = "createFirst" => Steady(t)'
    BY <1>2, <1>4 DEF Steady, Aim, AimedPCs, SelPCs, FreshPCs, ApprovePCs
  <2>2. QED
    BY <1>1, <1>2, <1>4, <2>1, SteadyReply DEF PCs, SyncPCs
<1>5. QED
  BY <1>3, <1>4 DEF List

LEMMA SteadyCreateAs ==
    ASSUME TypeInv, NEW t \in Tenants, Steady(t), NEW k \in Keys, k.pkg = t, k.num > 0,
           NEW p \in {"getResources", "getNewResources"}, CreateAs(t, k, p),
           \A j \in Numbered(t) : j.num < k.num /\ revs[j].lc # "Draft"
    PROVE  Steady(t)'
<1>1. w[t] \in Locals /\ Tidy(t) /\ revs \in [Keys -> Revs]
  BY DEF TypeInv, TypeOK, WorkerTypeOK, PorchTypeOK, Steady
<1>2. CASE Refuse(t)
  BY <1>1, <1>2, TidyFrame, SteadyAbort DEF Refuse
<1> DEFINE loc == [w[t] EXCEPT !.sel = k, !.slc = "Draft"]
<1>3. CASE CreateRev(k) /\ Reply(t, p, loc)
  <2>1. Tidy(t)' /\ k \in Latest(t)' /\ revs'[k].lc = "Draft"
    BY <1>1, <1>3, TidyCreate
  <2>2. loc \in Locals /\ loc.sel = k /\ loc.slc = "Draft" /\ p \in PCs
    BY <1>1 DEF Locals, Lifecycles, PCs, SyncPCs
  <2> HIDE DEF loc
  <2>3. pc'[t] = p /\ w'[t] = loc => Steady(t)'
    BY <2>1, <2>2 DEF Steady, Aim, AimedPCs, SelPCs, FreshPCs, ApprovePCs
  <2>4. QED
    BY <1>3, <2>1, <2>2, <2>3, SteadyReply
<1>4. QED
  BY <1>2, <1>3 DEF CreateAs

LEMMA SteadyCreate ==
    ASSUME TypeInv, NumInv, NEW t \in Tenants, Steady(t), CreateFirst(t) \/ CreateNext(t)
    PROVE  Steady(t)'
<1>1. CASE CreateFirst(t)
  <2>1. First(t) \in Keys /\ First(t).pkg = t /\ First(t).num > 0
    BY <1>1, SyncKeys DEF CreateFirst, SyncPCs
  <2>2. Numbered(t) = {}
    BY <1>1 DEF CreateFirst, Steady, Aim
  <2>3. QED
    BY <1>1, <2>1, <2>2, SteadyCreateAs DEF CreateFirst
<1>2. CASE CreateNext(t)
  <2>1. /\ Successor(t) \in Keys /\ Successor(t).pkg = t
        /\ Successor(t).num = w[t].sel.num + 1
    BY <1>2, SyncKeys DEF CreateNext
  <2>2. w[t].sel \in Latest(t) /\ revs[w[t].sel].lc # "Draft"
    BY <1>2 DEF CreateNext, Steady, Aim, AimedPCs, SelPCs, FreshPCs
  <2>3. w[t].sel \in Numbered(t) /\ w[t].sel.num \in Nat /\ w[t].sel.num > 0
    BY <2>2, LatestType DEF Keys
  <2>4. ASSUME NEW j \in Numbered(t)
        PROVE  j.num < Successor(t).num /\ revs[j].lc # "Draft"
    <3>1. j.num <= w[t].sel.num /\ j.num \in Nat
      BY <2>2 DEF Latest, Numbered, Listed, Keys
    <3>2. j \in Owned(t) /\ w[t].sel \in Owned(t)
      BY <2>3 DEF Steady, Tidy
    <3>3. ASSUME revs[j].lc = "Draft"
          PROVE  FALSE
      <4>1. j \in Latest(t)
        BY <3>2, <3>3 DEF Steady, Tidy
      <4>2. w[t].sel.num <= j.num
        BY <2>3, <4>1 DEF Latest
      <4>3. j = w[t].sel
        BY <2>3, <3>1, <3>2, <4>2 DEF NumInv, NumInvAt, Unique
      <4>4. QED
        BY <2>2, <3>3, <4>3
    <3>4. QED
      BY <2>1, <2>3, <3>1, <3>3
  <2>5. QED
    BY <1>2, <2>1, <2>3, <2>4, SteadyCreateAs DEF CreateNext
<1>3. QED
  BY <1>1, <1>2

\* Reads: the worker goes on with what it has selected.
LEMMA SteadyRead ==
    ASSUME TypeInv, NEW t \in Tenants, Steady(t),
           GetResources(t) \/ GetNewResources(t) \/ ApproveGet(t) \/ ApprovalGet(t)
    PROVE  Steady(t)'
<1>1. /\ w[t] \in Locals /\ UNCHANGED revs /\ Tidy(t) /\ pc[t] \in SelPCs
      /\ w[t].sel \in Latest(t)
  BY DEF TypeInv, TypeOK, WorkerTypeOK, GetResources, GetNewResources, ApproveGet, ApprovalGet,
         Refuse, Steady, Aim, AimedPCs, SelPCs, ApprovePCs
<1>2. Tidy(t)' /\ Latest(t)' = Latest(t)
  BY <1>1, TidyFrame
<1>3. CASE Refuse(t)
  BY <1>2, <1>3, SteadyAbort DEF Refuse
<1>4. ASSUME NEW p \in SelPCs \cup {"setReady"}, Goto(t, p, w[t]),
             p \in FreshPCs => revs[w[t].sel].lc = w[t].slc,
             p = "createNext" => w[t].slc # "Draft",
             p \in {"getNewResources", "updateResources"} => w[t].slc = "Draft",
             p \in ApprovePCs \cup {"setReady"} => revs[w[t].sel].body = w[t].want,
             p \in {"approveGet", "propose"} => revs[w[t].sel].lc = "Draft",
             p \in {"approvalGet", "approvalPut"} => revs[w[t].sel].lc = "Proposed",
             p = "setReady" => revs[w[t].sel].lc = "Published"
      PROVE  Steady(t)'
  <2>1. pc'[t] = p /\ w'[t] = w[t] => Steady(t)'
    BY <1>1, <1>2, <1>4 DEF Steady, Aim, AimedPCs, SelPCs, ApprovePCs
  <2>2. p \in PCs
    BY <1>4 DEF PCs, SyncPCs, SelPCs, ApprovePCs
  <2>3. QED
    BY <1>1, <1>2, <1>4, <2>1, <2>2, SteadyReply
<1>5. CASE GetResources(t) /\ ~Refuse(t)
  <2>1. /\ pc[t] = "getResources" /\ revs[w[t].sel].lc = w[t].slc /\ w[t].slc \in Lifecycles
        /\ Goto(t, Compare(w[t], revs[w[t].sel].body), w[t])
    BY <1>5 DEF GetResources, Steady, Aim, FreshPCs, TypeInv, SelInv, LocInv, SelPCs
  <2>2. CASE revs[w[t].sel].body = w[t].want
    <3>1. Goto(t, Approve(w[t].slc), w[t])
      BY <2>1, <2>2 DEF Compare
    <3>2. CASE w[t].slc = "Draft"
      BY <1>4, <2>1, <2>2, <3>1, <3>2 DEF Approve, SelPCs, ApprovePCs, FreshPCs
    <3>3. CASE w[t].slc = "Proposed"
      BY <1>4, <2>1, <2>2, <3>1, <3>3 DEF Approve, SelPCs, ApprovePCs, FreshPCs
    <3>4. CASE w[t].slc = "Published"
      BY <1>4, <2>1, <2>2, <3>1, <3>4 DEF Approve, SelPCs, ApprovePCs, FreshPCs
    <3>5. QED
      BY <2>1, <3>2, <3>3, <3>4 DEF Lifecycles
  <2>3. CASE revs[w[t].sel].body # w[t].want /\ w[t].slc # "Draft"
    BY <1>4, <2>1, <2>3 DEF Compare, SelPCs, ApprovePCs
  <2>4. CASE revs[w[t].sel].body # w[t].want /\ w[t].slc = "Draft"
    BY <1>4, <2>1, <2>4 DEF Compare, SelPCs, ApprovePCs
  <2>5. QED
    BY <2>2, <2>3, <2>4
<1>6. CASE GetNewResources(t) /\ ~Refuse(t)
  BY <1>4, <1>6 DEF GetNewResources, Steady, Aim, FreshPCs, SelPCs, ApprovePCs
<1>7. CASE ApproveGet(t) /\ ~Refuse(t)
  BY <1>4, <1>7 DEF ApproveGet, Steady, Aim, FreshPCs, SelPCs, ApprovePCs
<1>8. CASE ApprovalGet(t) /\ ~Refuse(t)
  BY <1>4, <1>8 DEF ApprovalGet, Steady, Aim, FreshPCs, SelPCs, ApprovePCs
<1>9. QED
  BY <1>3, <1>5, <1>6, <1>7, <1>8

\* Writes to the selected revision.
LEMMA SteadyWrite ==
    ASSUME TypeInv, NumInv, NEW t \in Tenants, Steady(t),
           UpdateResources(t) \/ Propose(t) \/ ApprovalPut(t)
    PROVE  Steady(t)'
<1>1. /\ w[t] \in Locals /\ Tidy(t) /\ pc[t] \in SelPCs \cap (SyncPCs \ {"srcList", "srcGet"})
      /\ w[t].sel \in Latest(t) /\ revs \in [Keys -> Revs]
      /\ \A k \in Owned(t) : k.num > 0
  BY DEF TypeInv, TypeOK, WorkerTypeOK, PorchTypeOK, UpdateResources, Propose, ApprovalPut,
         Steady, Aim, AimedPCs, SelPCs, ApprovePCs, SyncPCs, NumInv, NumInvAt, Known
<1>2. w[t].sel \in Keys /\ w[t].sel.num > 0 /\ w[t].want \in Bodies
  BY <1>1, LatestType DEF TypeInv, SelInv, LocInv
<1>3. CASE Refuse(t)
  BY <1>1, <1>3, TidyFrame, SteadyAbort DEF Refuse
<1>4. ASSUME NEW p \in ApprovePCs \cup {"setReady"}, Reply(t, p, w[t]), NEW lc,
             SelectedCall(w[t].sel, lc, w[t].want),
             p \in {"approveGet", "propose"} => lc = "Draft",
             p \in {"approvalGet", "approvalPut"} => lc = "Proposed",
             p = "setReady" => lc = "Published"
      PROVE  Steady(t)'
  <2>1. Tidy(t)' /\ Latest(t)' = Latest(t)
    BY <1>1, <1>2, <1>4, TidySelected
  <2>2. revs'[w[t].sel].lc = lc /\ revs'[w[t].sel].body = w[t].want
    BY <1>4 DEF SelectedCall
  <2>3. pc'[t] = p /\ w'[t] = w[t] => Steady(t)'
    BY <1>1, <1>4, <2>1, <2>2 DEF Steady, Aim, AimedPCs, SelPCs, ApprovePCs, FreshPCs
  <2>4. p \in PCs
    BY <1>4 DEF PCs, SyncPCs, ApprovePCs
  <2>5. QED
    BY <1>1, <1>4, <2>1, <2>3, <2>4, SteadyReply
<1>5. CASE UpdateResources(t) /\ ~Refuse(t)
  <2>1. PutResources(w[t].sel, w[t].want) /\ Reply(t, "approveGet", w[t])
    BY <1>5 DEF UpdateResources, Steady, Aim, Approve
  <2>2. SelectedCall(w[t].sel, "Draft", w[t].want)
    BY <1>1, <1>2, <2>1, SelectedPut
  <2>3. QED
    BY <1>4, <2>1, <2>2 DEF ApprovePCs
<1>6. CASE Propose(t) /\ ~Refuse(t)
  <2>1. /\ ProposeRev(w[t].sel) /\ Reply(t, "approvalGet", w[t])
        /\ revs[w[t].sel].body = w[t].want
    BY <1>6 DEF Propose, Steady, Aim, ApprovePCs
  <2>2. SelectedCall(w[t].sel, "Proposed", w[t].want)
    BY <1>1, <1>2, <2>1, SelectedPropose
  <2>3. QED
    BY <1>4, <2>1, <2>2 DEF ApprovePCs
<1>7. CASE ApprovalPut(t) /\ ~Refuse(t)
  <2>1. /\ ApproveRev(w[t].sel) /\ Reply(t, "setReady", w[t])
        /\ revs[w[t].sel].body = w[t].want
    BY <1>7 DEF ApprovalPut, Steady, Aim, ApprovePCs
  <2>2. SelectedCall(w[t].sel, "Published", w[t].want)
    BY <1>1, <1>2, <2>1, SelectedApprove
  <2>3. QED
    BY <1>4, <2>1, <2>2 DEF ApprovePCs
<1>8. QED
  BY <1>3, <1>5, <1>6, <1>7

LEMMA SteadyPkgRevStep ==
    ASSUME TypeInv, NumInv, QuietInv, ~PorchMayVanish, NEW t \in Tenants, PkgRevStep(t)
    PROVE  QuietInv'
<1>1. revs \in [Keys -> Revs] /\ OwnCall(t)
  BY PkgRevOutcome DEF TypeInv, TypeOK, PorchTypeOK
<1>2. PICK p, loc : StepTo(t, p, loc)
  BY PkgRevOutcome
<1>3. \A x \in Tenants \ {t} : pc'[x] = pc[x] /\ w'[x] = w[x]
  BY <1>2, GotoEffect DEF StepTo, Outcome, TypeInv, TypeOK
<1>4. ASSUME NEW x \in Tenants, x # t
      PROVE  Steady(x)'
  <2>1. \A j \in Keys : j.pkg = x => revs'[j] = revs[j]
    BY <1>1, <1>4, PorchCallType DEF OwnCall
  <2>2. QED
    BY <1>3, <1>4, <2>1, SteadyFrame DEF QuietInv
<1>5. Steady(t)'
  BY SteadyDelete, SteadyList, SteadyCreate, SteadyRead, SteadyWrite DEF QuietInv, PkgRevStep
<1>6. budget'.drift = 0
  BY PkgRevBudget DEF QuietInv
<1>7. QED
  BY <1>4, <1>5, <1>6 DEF QuietInv

\* Steps that do not call Porch.
LEMMA QuietElsewhere ==
    ASSUME TypeInv, QuietInv, UNCHANGED revs, budget'.drift = budget.drift,
           \A x \in Tenants : (pc'[x] = pc[x] /\ w'[x] = w[x]) \/ pc'[x] \in LoosePCs
    PROVE  QuietInv'
<1>1. ASSUME NEW x \in Tenants
      PROVE  Steady(x)'
  BY SteadyFrame DEF QuietInv
<1>2. QED
  BY <1>1 DEF QuietInv

LEMMA QuietCall ==
    ASSUME TypeInv, QuietInv, NEW t \in Tenants,
           \/ Begin(t) \/ AddFinalizer(t) \/ RemoveFinalizer(t) \/ SourceList(t) \/ SourceGet(t)
           \/ SetStatus(t) \/ CallFails(t)
    PROVE  QuietInv'
<1>1. pc \in [Tenants -> PCs] /\ w \in [Tenants -> Locals] /\ budget \in Budgets
  BY DEF TypeInv, TypeOK, WorkerTypeOK
<1>2. UNCHANGED revs /\ budget'.drift = budget.drift
  BY <1>1, SpendDrift
  DEF Begin, AddFinalizer, RemoveFinalizer, SourceList, SourceGet, SetStatus, CallFails, Reply
<1>3. {"idle", "addFinalizer", "setError", "delList", "srcList", "srcGet", "list"} \subseteq LoosePCs
  BY DEF LoosePCs, PCs, DeletePCs, SyncPCs, AimedPCs, SelPCs, ApprovePCs
<1>4. ASSUME NEW p \in LoosePCs, NEW loc, Goto(t, p, loc)
      PROVE  \A x \in Tenants : (pc'[x] = pc[x] /\ w'[x] = w[x]) \/ pc'[x] \in LoosePCs
  BY <1>1, <1>4 DEF Goto
<1>5. \A v : AfterFinalizer(v) \in LoosePCs
  BY <1>3 DEF AfterFinalizer
<1>6. \/ UNCHANGED <<pc, w>>
      \/ \E p \in LoosePCs : \E loc : Goto(t, p, loc)
  <2>1. CASE Begin(t)
    BY <1>3, <1>5, <2>1 DEF Begin
  <2>2. CASE AddFinalizer(t)
    BY <1>3, <1>5, <2>2 DEF AddFinalizer, Reply, Abort
  <2>3. CASE RemoveFinalizer(t) \/ SourceList(t) \/ SourceGet(t) \/ SetStatus(t) \/ CallFails(t)
    BY <1>3, <2>3 DEF RemoveFinalizer, SourceList, SourceGet, SetStatus, CallFails, Finish, Abort
  <2>4. QED
    BY <2>1, <2>2, <2>3
<1>7. QED
  BY <1>2, <1>4, <1>6, QuietElsewhere

LEMMA QuietNext ==
    ASSUME TypeInv, NumInv, QuietInv, ~PorchMayVanish, [Next]_vars
    PROVE  QuietInv'
<1>1. budget \in Budgets
  BY DEF TypeInv, TypeOK, WorkerTypeOK
<1>2. ASSUME UNCHANGED <<revs, pc, w>>,
             UNCHANGED budget \/ Spend("edit") \/ Spend("source")
      PROVE  QuietInv'
  BY <1>1, <1>2, SpendDrift, QuietElsewhere
<1>3. CASE UNCHANGED vars \/ SourceStep
  BY <1>2, <1>3 DEF vars, SourceStep, ChangeSource
<1>4. ASSUME NEW t \in Tenants, Observe(t) \/ Fire(t) \/ UserStep(t)
      PROVE  QuietInv'
  BY <1>2, <1>4 DEF Observe, Fire, UserStep
<1>5. ASSUME Restart, UNCHANGED budget \/ Spend("fault")
      PROVE  QuietInv'
  <2>1. UNCHANGED revs /\ \A x \in Tenants : pc'[x] = "idle"
    BY <1>5 DEF Restart
  <2>2. "idle" \in LoosePCs
    BY DEF LoosePCs, PCs, AimedPCs, SelPCs, ApprovePCs
  <2>3. QED
    BY <1>1, <1>5, <2>1, <2>2, SpendDrift, QuietElsewhere
<1>6. Crash => QuietInv'
  BY <1>5 DEF Crash
<1>7. ASSUME NEW t \in Tenants, Panic(t)
      PROVE  QuietInv'
  BY <1>5, <1>7 DEF Panic
<1>8. ~Drift
  BY <1>1 DEF QuietInv, Drift, Spend, Budgets
<1>9. ASSUME NEW t \in Tenants, Call(t)
      PROVE  QuietInv'
  BY <1>9, QuietCall, SteadyPkgRevStep DEF Call
<1>10. QED
  BY <1>3, <1>4, <1>6, <1>7, <1>8, <1>9, QuietCall DEF Next

LEMMA QuietInit ==
    ASSUME MaxDrift = 0
    PROVE  Init => QuietInv
<1> SUFFICES ASSUME Init
             PROVE  QuietInv
  OBVIOUS
<1>1. budget.drift = 0
  BY DEF Init, WorkerInit
<1>2. ASSUME NEW x \in Tenants
      PROVE  Steady(x)
  <2>1. pc[x] = "idle" /\ Numbered(x) = {} /\ Owned(x) = {}
    BY DEF Init, PorchInit, WorkerInit, Numbered, Listed, Owned, Exists, NoRev
  <2>2. QED
    BY <2>1 DEF Steady, Tidy, Aim, AimedPCs, SelPCs, FreshPCs, ApprovePCs
<1>3. QED
  BY <1>1, <1>2 DEF QuietInv

\* While no other client interferes and lists do not answer NotFound, a draft of
\* the controller is the newest revision of its package, however often creation
\* and update are interrupted: retries take it up and never leave it behind.
THEOREM DraftIsLatestCorrect ==
    ASSUME ~PorchMayVanish, MaxDrift = 0
    PROVE  Spec => []DraftIsLatest
<1>1. Init => TypeInv /\ NumInv /\ QuietInv
  BY TypeInit, NumInit, QuietInit
<1>2. TypeInv /\ NumInv /\ QuietInv /\ [Next]_vars => (TypeInv /\ NumInv /\ QuietInv)'
  BY TypeNext, NumNext, QuietNext
<1>3. QuietInv => DraftIsLatest
  BY DEF QuietInv, Steady, Tidy, DraftIsLatest
<1>4. QED
  BY <1>1, <1>2, <1>3, PTL DEF Spec

-----------------------------------------------------------------------------
(***************************************************************************)
(* Ready.                                                                  *)
(***************************************************************************)
\* Only the status update at the end of Reconcile makes a Tenant Ready.
LEMMA ReadyFromStatus ==
    ASSUME TypeInv, NEW t \in Tenants, [Next]_vars, Current(t).status # "Ready",
           Current(t)'.status = "Ready"
    PROVE  SetStatus(t) /\ pc[t] = "setReady" /\ w[t].rv = Len(log[t])
<1>1. /\ LogTypeOK /\ Current(t) \in Versions /\ Current(t).status # "Ready"
      /\ Current(t)'.status = "Ready" /\ Current(t)' # Current(t)
  BY CurrentType DEF TypeInv, TypeOK
<1>2. log'[t] # log[t]
  BY <1>1 DEF Current
<1>3. ASSUME NEW x \in Tenants, NEW v \in Versions, Store(x, v), v.status # "Ready" \/ v.status = Current(x).status
      PROVE  FALSE
  BY <1>1, <1>2, <1>3, StoreLog
<1>4. ASSUME NEW x \in Tenants, AddFinalizer(x)
      PROVE  FALSE
  <2> DEFINE v == [Current(x) EXCEPT !.fin = TRUE]
  <2>1. Current(x) \in Versions
    BY <1>1, CurrentType
  <2>2. v \in Versions /\ v.status = Current(x).status
    BY <2>1 DEF Versions
  <2>3. Store(x, v)
    BY <1>2, <1>4 DEF AddFinalizer
  <2> HIDE DEF v
  <2>4. QED
    BY <1>3, <2>2, <2>3
<1>5. ASSUME NEW x \in Tenants, RemoveFinalizer(x)
      PROVE  FALSE
  <2>1. Gone \in Versions /\ Gone.status # "Ready"
    BY GoneType DEF Gone
  <2>2. Store(x, Gone)
    BY <1>2, <1>5 DEF RemoveFinalizer
  <2>3. QED
    BY <1>3, <2>1, <2>2
<1>6. ASSUME NEW x \in Tenants, UserStep(x)
      PROVE  FALSE
  <2>1. /\ Current(x) \in Versions /\ UserSpecs \subseteq SpecValues
        /\ Policies \subseteq DeletionPolicies
    BY <1>1, CurrentType, TypesAssumption DEF UserSpecs, SpecValues
  <2>2. CASE UserCreate(x)
    <3>1. PICK s \in UserSpecs, p \in Policies :
            Store(x, [live |-> TRUE, spec |-> s, policy |-> p, del |-> FALSE, fin |-> FALSE,
                      status |-> "None"])
      BY <2>2 DEF UserCreate
    <3> DEFINE v == [live |-> TRUE, spec |-> s, policy |-> p, del |-> FALSE, fin |-> FALSE,
                     status |-> "None"]
    <3>2. v \in Versions /\ v.status # "Ready" /\ Store(x, v)
      BY <2>1, <3>1 DEF Versions, Statuses
    <3> HIDE DEF v
    <3>3. QED
      BY <1>3, <3>2
  <2>3. CASE UserUpdate(x)
    <3>1. PICK s \in UserSpecs, p \in Policies :
            Store(x, [Current(x) EXCEPT !.spec = s, !.policy = p])
      BY <2>3 DEF UserUpdate
    <3> DEFINE v == [Current(x) EXCEPT !.spec = s, !.policy = p]
    <3>2. v \in Versions /\ v.status = Current(x).status /\ Store(x, v)
      BY <2>1, <3>1 DEF Versions
    <3> HIDE DEF v
    <3>3. QED
      BY <1>3, <3>2
  <2>4. CASE UserDelete(x)
    <3> DEFINE v == [Current(x) EXCEPT !.del = TRUE]
    <3>1. v \in Versions /\ v.status = Current(x).status
      BY <2>1 DEF Versions
    <3>2. Store(x, v) \/ Store(x, Gone)
      BY <2>4 DEF UserDelete
    <3> HIDE DEF v
    <3>3. Gone \in Versions /\ Gone.status # "Ready"
      BY GoneType DEF Gone
    <3>4. QED
      BY <1>3, <3>1, <3>2, <3>3
  <2>5. QED
    BY <1>6, <2>2, <2>3, <2>4 DEF UserStep
<1>7. PICK x \in Tenants : SetStatus(x)
  BY <1>2, <1>4, <1>5, <1>6
  DEF Next, vars, Call, Observe, Fire, Begin, Panic, Restart, CallFails, Crash, Drift, SourceStep,
      SourceList, SourceGet, PkgRevStep
<1>8. /\ w[x].rv = Len(log[x]) /\ pc[x] # "idle"
      /\ Store(x, [Current(x) EXCEPT !.status = EndStatus(x)])
  BY <1>2, <1>7 DEF SetStatus
<1>9. [Current(x) EXCEPT !.status = EndStatus(x)] \in Versions
  BY <1>8, SetStatusVersion
<1>10. x = t
  BY <1>1, <1>2, <1>8, <1>9, StoreLog
<1>11. Current(t)' = [Current(t) EXCEPT !.status = EndStatus(t)]
  BY <1>1, <1>8, <1>9, <1>10, StoreLog
<1>12. EndStatus(t) = "Ready"
  BY <1>1, <1>11 DEF Versions
<1>13. pc[t] = "setReady"
  BY <1>12 DEF EndStatus
<1>14. QED
  BY <1>7, <1>8, <1>10, <1>13

\* While no other client interferes and lists do not answer NotFound, Ready is
\* never said too early, the first time or again: the newest revision is
\* published, with the content that was computed for the spec the Tenant has when
\* the status is stored.
THEOREM ReadyMeansPublishedCorrect ==
    ASSUME ~PorchMayVanish, MaxDrift = 0
    PROVE  Spec => ReadyMeansPublished
<1>1. Init => TypeInv /\ NumInv /\ QuietInv
  BY TypeInit, NumInit, QuietInit
<1>2. TypeInv /\ NumInv /\ QuietInv /\ [Next]_vars => (TypeInv /\ NumInv /\ QuietInv)'
  BY TypeNext, NumNext, QuietNext
<1>3. ASSUME TypeInv, QuietInv, [Next]_vars, NEW t \in Tenants, SaysReady(t)
      PROVE  /\ w[t].cr.spec = Current(t).spec
             /\ \E k \in Latest(t) : revs[k].lc = "Published" /\ revs[k].body = w[t].want
  <2>1. pc[t] = "setReady" /\ w[t].rv = Len(log[t])
    BY <1>3, ReadyFromStatus DEF SaysReady
  <2>2. w[t].cr = Current(t)
    BY <1>3, <2>1 DEF TypeInv, ReadInv, Current
  <2>3. /\ w[t].sel \in Latest(t) /\ revs[w[t].sel].lc = "Published"
        /\ revs[w[t].sel].body = w[t].want
    BY <1>3, <2>1 DEF QuietInv, Steady, Aim, AimedPCs
  <2>4. QED
    BY <2>2, <2>3
<1>4. TypeInv /\ QuietInv /\ [Next]_vars =>
        [\A t \in Tenants : SaysReady(t) =>
           /\ w[t].cr.spec = Current(t).spec
           /\ \E k \in Latest(t) : revs[k].lc = "Published" /\ revs[k].body = w[t].want]_vars
  BY <1>3
<1>5. QED
  BY <1>1, <1>2, <1>4, PTL DEF Spec, ReadyMeansPublished

-----------------------------------------------------------------------------
(***************************************************************************)
(* No loss.  Without other clients the finalizer protects every revision   *)
(* of the package, the one on the main branch included, and Delete has     *)
(* listed them all.                                                        *)
(***************************************************************************)
Covered(x) ==
    /\ Listed(x) # {} => Current(x).fin
    /\ pc[x] \in {"delOne", "removeFinalizer"} => Listed(x) \subseteq w[x].todo

CoverInv == \A x \in Tenants : Covered(x)

LEMMA CoverFrame ==
    ASSUME NEW x \in Tenants, Covered(x), log'[x] = log[x], Listed(x)' \subseteq Listed(x),
           \/ pc'[x] = pc[x] /\ w'[x] = w[x]
           \/ pc'[x] \notin {"delOne", "removeFinalizer"}
    PROVE  Covered(x)'
BY DEF Covered, Current

LEMMA CoverFrames ==
    ASSUME CoverInv, UNCHANGED <<log, revs>>,
           \A x \in Tenants : \/ pc'[x] = pc[x] /\ w'[x] = w[x]
                              \/ pc'[x] \notin {"delOne", "removeFinalizer"}
    PROVE  CoverInv'
<1>1. \A x \in Tenants : Listed(x)' = Listed(x)
  BY DEF Listed, Exists
<1>2. QED
  BY <1>1, CoverFrame DEF CoverInv

\* A write that does not take the finalizer away from under a revision.
LEMMA CoverStore ==
    ASSUME TypeInv, CoverInv, NEW t \in Tenants, NEW v \in Versions, Store(t, v), UNCHANGED revs,
           Listed(t) # {} /\ Current(t).fin => v.fin,
           \A x \in Tenants : \/ pc'[x] = pc[x] /\ w'[x] = w[x]
                              \/ pc'[x] \notin {"delOne", "removeFinalizer"}
    PROVE  CoverInv'
<1>1. LogTypeOK /\ \A x \in Tenants : Listed(x)' = Listed(x)
  BY DEF TypeInv, TypeOK, Listed, Exists
<1>2. Current(t)' = v /\ \A x \in Tenants \ {t} : log'[x] = log[x]
  BY <1>1, StoreLog
<1>3. Covered(t)'
  BY <1>1, <1>2 DEF CoverInv, Covered
<1>4. QED
  BY <1>1, <1>2, <1>3, CoverFrame DEF CoverInv

LEMMA CoverDelete ==
    ASSUME TypeInv, ~PorchMayVanish, NEW t \in Tenants, Covered(t), DeleteList(t) \/ DeleteOne(t),
           UNCHANGED log
    PROVE  Covered(t)'
<1>1. /\ pc \in [Tenants -> PCs] /\ w \in [Tenants -> Locals] /\ w[t] \in Locals
      /\ w[t].todo \subseteq Keys /\ revs \in [Keys -> Revs] /\ Current(t)' = Current(t)
  BY DEF TypeInv, TypeOK, WorkerTypeOK, PorchTypeOK, SelInv, LocInv, Current
<1>2. ASSUME NEW S \in SUBSET Keys, Goto(t, DeleteNext(S), [w[t] EXCEPT !.todo = S]),
             Listed(t)' \subseteq S, Listed(t)' \subseteq Listed(t)
      PROVE  Covered(t)'
  <2>1. [w[t] EXCEPT !.todo = S].todo = S
    BY <1>1 DEF Locals
  <2>2. w'[t].todo = S
    BY <1>1, <1>2, <2>1 DEF Goto
  <2>3. QED
    BY <1>1, <1>2, <2>2 DEF Covered
<1>3. ASSUME Abort(t), Listed(t)' \subseteq Listed(t)
      PROVE  Covered(t)'
  BY <1>3, AbortEffect, CoverFrame
<1>4. CASE DeleteList(t)
  <2>1. Goto(t, DeleteNext(Listed(t)), [w[t] EXCEPT !.todo = Listed(t)]) /\ UNCHANGED revs
    BY <1>4 DEF DeleteList
  <2>2. Listed(t)' = Listed(t) /\ Listed(t) \in SUBSET Keys
    BY <2>1 DEF Listed, Exists
  <2>3. QED
    BY <1>2, <2>1, <2>2
<1>5. CASE DeleteOne(t)
  <2>1. PICK k \in w[t].todo :
          LET rest == w[t].todo \ {k} IN
          \/ DeleteRev(k) /\ Reply(t, DeleteNext(rest), [w[t] EXCEPT !.todo = rest])
          \/ ~Exists(k) /\ Refuse(t)
    BY <1>5 DEF DeleteOne
  <2>2. CASE Refuse(t)
    BY <1>3, <2>2 DEF Refuse, Listed, Exists
  <2>3. CASE DeleteRev(k) /\ Reply(t, DeleteNext(w[t].todo \ {k}),
                                   [w[t] EXCEPT !.todo = w[t].todo \ {k}])
    <3>1. Listed(t)' = Listed(t) \ {k}
      BY <1>1, <2>3 DEF DeleteRev, NoRev, Listed, Exists
    <3>2. Listed(t)' \subseteq w[t].todo \ {k} /\ w[t].todo \ {k} \in SUBSET Keys
      BY <1>1, <1>5, <3>1 DEF Covered, DeleteOne
    <3>3. QED
      BY <1>2, <1>3, <2>3, <3>1, <3>2 DEF Reply
  <2>4. QED
    BY <2>1, <2>2, <2>3
<1>6. QED
  BY <1>4, <1>5

LEMMA CoverPkgRevStep ==
    ASSUME TypeInv, OrphanInv, CoverInv, ~PorchMayVanish, NEW t \in Tenants, PkgRevStep(t)
    PROVE  CoverInv'
<1>1. OwnCall(t) /\ UNCHANGED log /\ revs \in [Keys -> Revs]
  BY PkgRevOutcome DEF PkgRevStep, TypeInv, TypeOK, PorchTypeOK
<1>2. PICK p, loc : StepTo(t, p, loc)
  BY PkgRevOutcome
<1>3. pc'[t] = p /\ \A x \in Tenants \ {t} : pc'[x] = pc[x] /\ w'[x] = w[x]
  BY <1>2, GotoEffect DEF StepTo, Outcome, TypeInv, TypeOK
<1>4. ASSUME NEW x \in Tenants, x # t
      PROVE  Covered(x)'
  <2>1. \A j \in Keys : j.pkg = x => revs'[j] = revs[j]
    BY <1>1, <1>4, PorchCallType DEF OwnCall
  <2>2. Listed(x)' = Listed(x)
    BY <2>1 DEF Listed, Exists
  <2>3. QED
    BY <1>1, <1>3, <1>4, <2>2, CoverFrame DEF CoverInv
<1>5. CASE DeleteList(t) \/ DeleteOne(t)
  BY <1>1, <1>4, <1>5, CoverDelete DEF CoverInv
<1>6. CASE ~(DeleteList(t) \/ DeleteOne(t))
  <2>1. pc[t] \in SyncPCs \ DeletePCs
    BY <1>6
    DEF PkgRevStep, List, CreateFirst, GetResources, CreateNext, GetNewResources,
        UpdateResources, ApproveGet, Propose, ApprovalGet, ApprovalPut, SyncPCs, ApprovePCs,
        DeletePCs
  <2>2. Current(t).fin /\ Current(t)' = Current(t)
    BY <1>1, <2>1 DEF OrphanInv, Holding, Current
  <2>3. p \notin {"delOne", "removeFinalizer"}
    BY <1>2, <2>1 DEF StepTo, Outcome, DeletePCs
  <2>4. Covered(t)'
    BY <1>3, <2>2, <2>3 DEF Covered
  <2>5. QED
    BY <1>4, <2>4 DEF CoverInv
<1>7. QED
  BY <1>5, <1>6

LEMMA CoverCall ==
    ASSUME TypeInv, OrphanInv, CoverInv, NEW t \in Tenants,
           \/ Begin(t) \/ AddFinalizer(t) \/ RemoveFinalizer(t) \/ SourceList(t) \/ SourceGet(t)
           \/ SetStatus(t) \/ CallFails(t)
    PROVE  CoverInv'
<1>1. pc \in [Tenants -> PCs] /\ w \in [Tenants -> Locals] /\ UNCHANGED revs /\ LogTypeOK
  BY DEF TypeInv, TypeOK, WorkerTypeOK, Begin, AddFinalizer, RemoveFinalizer, SourceList,
         SourceGet, SetStatus, CallFails
<1> DEFINE Elsewhere == {"idle", "addFinalizer", "setError", "delList", "srcList", "srcGet", "list"}
<1>2. \/ UNCHANGED <<pc, w>>
      \/ \E p \in Elsewhere : \E loc : Goto(t, p, loc)
  <2>1. CASE Begin(t)
    BY <2>1 DEF Begin, AfterFinalizer
  <2>2. CASE AddFinalizer(t)
    BY <2>2 DEF AddFinalizer, AfterFinalizer, Reply, Abort
  <2>3. CASE RemoveFinalizer(t) \/ SourceList(t) \/ SourceGet(t) \/ SetStatus(t) \/ CallFails(t)
    BY <2>3 DEF RemoveFinalizer, SourceList, SourceGet, SetStatus, CallFails, Finish, Abort
  <2>4. QED
    BY <2>1, <2>2, <2>3
<1>3. \A x \in Tenants : \/ pc'[x] = pc[x] /\ w'[x] = w[x]
                         \/ pc'[x] \notin {"delOne", "removeFinalizer"}
  BY <1>1, <1>2 DEF Goto
<1>4. CASE UNCHANGED log
  BY <1>1, <1>3, <1>4, CoverFrames
<1>5. ASSUME NEW v \in Versions, Store(t, v), Listed(t) # {} /\ Current(t).fin => v.fin
      PROVE  CoverInv'
  BY <1>1, <1>3, <1>5, CoverStore
<1>6. CASE AddFinalizer(t) /\ ~UNCHANGED log
  <2> DEFINE v == [Current(t) EXCEPT !.fin = TRUE]
  <2>1. w[t].rv = Len(log[t]) /\ Store(t, v) /\ pc[t] = "addFinalizer"
    BY <1>6 DEF AddFinalizer
  <2>2. v \in Versions /\ v.fin
    BY <2>1, AddFinalizerVersion
  <2> HIDE DEF v
  <2>3. QED
    BY <1>5, <2>1, <2>2
<1>7. CASE RemoveFinalizer(t) /\ ~UNCHANGED log
  <2>1. Store(t, Gone) /\ pc[t] = "removeFinalizer"
    BY <1>7 DEF RemoveFinalizer
  <2>2. Listed(t) = {}
    BY <2>1 DEF OrphanInv, DeleteInv, CoverInv, Covered
  <2>3. QED
    BY <1>5, <2>1, <2>2, GoneType
<1>8. CASE SetStatus(t) /\ ~UNCHANGED log
  <2> DEFINE v == [Current(t) EXCEPT !.status = EndStatus(t)]
  <2>1. w[t].rv = Len(log[t]) /\ Store(t, v) /\ pc[t] # "idle"
    BY <1>8 DEF SetStatus
  <2>2. v \in Versions /\ v.fin = Current(t).fin
    BY <2>1, SetStatusVersion
  <2> HIDE DEF v
  <2>3. QED
    BY <1>5, <2>1, <2>2
<1>9. QED
  BY <1>4, <1>6, <1>7, <1>8 DEF Begin, SourceList, SourceGet, CallFails

LEMMA CoverNext ==
    ASSUME AllInv, QuietInv, CoverInv, ~PorchMayVanish, [Next]_vars
    PROVE  CoverInv'
<1>1. TypeInv /\ OrphanInv /\ budget \in Budgets
  BY DEF AllInv, TypeInv, TypeOK, WorkerTypeOK
<1>2. CASE UNCHANGED vars \/ SourceStep
  BY <1>2, CoverFrames DEF vars, SourceStep, ChangeSource
<1>3. ASSUME NEW t \in Tenants, Observe(t) \/ Fire(t)
      PROVE  CoverInv'
  BY <1>3, CoverFrames DEF Observe, Fire
<1>4. ASSUME NEW t \in Tenants, UserStep(t)
      PROVE  CoverInv'
  <2>1. UserCreate(t) \/ UserUpdate(t) \/ UserDelete(t)
    BY <1>4 DEF UserStep
  <2>2. PICK v \in Versions : Store(t, v) /\ (Current(t).fin => v.fin)
    BY <1>1, <2>1, UserVersion
  <2>3. QED
    BY <1>1, <1>4, <2>2, CoverStore DEF UserStep
<1>5. CASE Restart
  BY <1>5, CoverFrames DEF Restart
<1>6. ~Drift
  BY <1>1 DEF QuietInv, Drift, Spend, Budgets
<1>7. ASSUME NEW t \in Tenants, Call(t)
      PROVE  CoverInv'
  BY <1>1, <1>7, CoverCall, CoverPkgRevStep DEF Call
<1>8. QED
  BY <1>1, <1>2, <1>3, <1>4, <1>5, <1>6, <1>7, CoverCall DEF Next, Crash, Panic

\* Of the calls to Porch only Delete's takes a revision away.
LEMMA OnlyDeleteRemoves ==
    ASSUME revs \in [Keys -> Revs], NEW k \in Keys, PorchCall(k), ~DeleteRev(k), NEW j \in Keys,
           Exists(j)
    PROVE  Exists(j)'
<1>1. revs[k] \in Revs /\ revs[j] \in Revs
  OBVIOUS
<1>2. CASE CreateRev(k)
  BY <1>1, <1>2 DEF CreateRev, Exists
<1>3. CASE \E b \in Bodies : PutResources(k, b)
  BY <1>1, <1>3 DEF PutResources, Exists, Revs
<1>4. CASE ProposeRev(k)
  BY <1>1, <1>4 DEF ProposeRev, Exists, Revs
<1>5. CASE ApproveRev(k)
  <2>1. \/ revs'[j] = revs[j]
        \/ revs'[j] = [revs[k] EXCEPT !.lc = "Published"]
        \/ revs'[j] = [lc |-> "Published", body |-> revs[k].body, own |-> FALSE]
    BY <1>5, MainKey DEF ApproveRev
  <2>2. [revs[k] EXCEPT !.lc = "Published"].lc # "None"
    BY <1>1 DEF Revs
  <2>3. CASE revs'[j] = [revs[k] EXCEPT !.lc = "Published"]
    BY <2>2, <2>3, Zenon DEF Exists
  <2>4. CASE revs'[j] = [lc |-> "Published", body |-> revs[k].body, own |-> FALSE]
    BY <2>4 DEF Exists
  <2>5. QED
    BY <2>1, <2>3, <2>4 DEF Exists
<1>6. QED
  BY <1>2, <1>3, <1>4, <1>5 DEF PorchCall

LEMMA LossWhileDeleting ==
    ASSUME AllInv, QuietInv, CoverInv, [Next]_vars, NEW k \in Keys, Exists(k), ~Exists(k)'
    PROVE  Current(k.pkg).del
<1>1. revs' # revs /\ revs \in [Keys -> Revs] /\ TypeInv /\ budget \in Budgets
  BY DEF Exists, AllInv, TypeInv, TypeOK, PorchTypeOK, WorkerTypeOK
<1>2. ~Drift
  BY <1>1 DEF QuietInv, Drift, Spend, Budgets
<1>3. PICK t \in Tenants : PkgRevStep(t)
  BY <1>1, <1>2
  DEF Next, vars, Call, Observe, Fire, Begin, Panic, Restart, CallFails, Crash, SourceStep,
      ChangeSource, SourceList, SourceGet, AddFinalizer, RemoveFinalizer, SetStatus, UserStep
<1>4. DeleteOne(t)
  <2> SUFFICES ASSUME ~DeleteOne(t)
               PROVE  FALSE
    OBVIOUS
  <2>1. ASSUME NEW j \in Keys,
               \/ CreateRev(j)
               \/ PutResources(j, w[t].want) /\ w[t].want \in Bodies
               \/ ProposeRev(j)
               \/ ApproveRev(j)
        PROVE  FALSE
    <3>1. PorchCall(j) /\ ~DeleteRev(j)
      <4>1. PorchCall(j)
        BY <2>1 DEF PorchCall
      <4>2. ASSUME DeleteRev(j)
            PROVE  FALSE
        BY <1>1, <2>1, <4>2 DEF DeleteRev, CreateRev, PutResources, ProposeRev, ApproveRev, NoRev,
                               Exists, Revs
      <4>3. QED
        BY <4>1, <4>2
    <3>2. QED
      BY <1>1, <3>1, OnlyDeleteRemoves
  <2>2. CASE CreateFirst(t) \/ CreateNext(t)
    <3>1. PICK i \in Keys : CreateRev(i)
      <4>1. CASE CreateFirst(t)
        <5>1. First(t) \in Keys
          BY <1>1, <4>1, SyncKeys DEF CreateFirst, SyncPCs
        <5>2. CreateRev(First(t))
          BY <1>1, <4>1 DEF CreateFirst, CreateAs, Refuse
        <5>3. QED
          BY <5>1, <5>2
      <4>2. CASE CreateNext(t)
        <5>1. Successor(t) \in Keys
          BY <1>1, <4>2, SyncKeys DEF CreateNext
        <5>2. CreateRev(Successor(t))
          BY <1>1, <4>2 DEF CreateNext, CreateAs, Refuse
        <5>3. QED
          BY <5>1, <5>2
      <4>3. QED
        BY <2>2, <4>1, <4>2
    <3>2. QED
      BY <2>1, <3>1
  <2>3. CASE UpdateResources(t) \/ Propose(t) \/ ApprovalPut(t)
    <3>1. pc[t] \in SelPCs /\ pc[t] \in SyncPCs \ {"srcList", "srcGet"}
      BY <2>3 DEF UpdateResources, Propose, ApprovalPut, SelPCs, ApprovePCs, SyncPCs
    <3>2. w[t].sel \in Keys /\ w[t].want \in Bodies
      BY <1>1, <3>1 DEF TypeInv, SelInv, LocInv
    <3>3. QED
      BY <1>1, <2>1, <2>3, <3>2 DEF UpdateResources, Propose, ApprovalPut, Refuse
  <2>4. CASE \/ DeleteList(t) \/ List(t) \/ GetResources(t) \/ GetNewResources(t)
             \/ ApproveGet(t) \/ ApprovalGet(t)
    BY <1>1, <2>4
    DEF DeleteList, List, GetResources, GetNewResources, ApproveGet, ApprovalGet, Refuse
  <2>5. QED
    BY <1>3, <2>2, <2>3, <2>4 DEF PkgRevStep
<1>5. PICK j \in w[t].todo : DeleteRev(j)
  BY <1>1, <1>4 DEF DeleteOne, Refuse
<1>6. pc[t] = "delOne" /\ w[t].todo \subseteq {i \in Keys : i.pkg = t}
  BY <1>1, <1>4 DEF DeleteOne, TypeInv, SelInv, LocInv
<1>7. k = j
  BY <1>1, <1>5, <1>6 DEF DeleteRev, Exists
<1>8. k.pkg = t /\ k \in Listed(t)
  BY <1>5, <1>6, <1>7 DEF Listed
<1>9. Current(t).fin
  BY <1>8 DEF CoverInv, Covered
<1>10. QED
  BY <1>6, <1>8, <1>9 DEF AllInv, DoomInv, Entitled, DeletePCs

\* While no other client interferes and lists do not answer NotFound, only the
\* deletion of its Tenant takes a revision away, however old the copies are
\* that the workers hold and wherever the manager dies.
THEOREM NoLossWhileLiveCorrect ==
    ASSUME ~PorchMayVanish, MaxDrift = 0
    PROVE  Spec => NoLossWhileLive
<1>1. Init => AllInv /\ QuietInv /\ CoverInv
  <2>1. Init => CoverInv
    BY DEF Init, PorchInit, WorkerInit, CoverInv, Covered, Listed, Exists, NoRev
  <2>2. QED
    BY <2>1, AllInit, QuietInit
<1>2. AllInv /\ QuietInv /\ CoverInv /\ [Next]_vars => (AllInv /\ QuietInv /\ CoverInv)'
  BY AllNext, QuietNext, CoverNext DEF AllInv
<1>3. AllInv /\ QuietInv /\ CoverInv /\ [Next]_vars =>
        [\A k \in Keys : Exists(k) /\ ~Exists(k)' =>
           Current(k.pkg).del \/ budget'.drift # budget.drift]_vars
  BY LossWhileDeleting
<1>4. QED
  BY <1>1, <1>2, <1>3, PTL DEF Spec, NoLossWhileLive
=============================================================================
