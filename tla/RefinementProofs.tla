-------------------------- MODULE RefinementProofs --------------------------
(***************************************************************************)
(* The tenant controller implements TenantService, for every value of the  *)
(* constants, as long as lists do not answer NotFound.                     *)
(***************************************************************************)
EXTENDS PublishProofs, NumberProofs, TenantRefinement

(***************************************************************************)
(* Deletion is final: while the finalizer is set, nothing that the         *)
(* informer has or still has to deliver was stored by a deletion that the  *)
(* current Tenant does not know of, and a worker that deletes revisions    *)
(* does so for the current Tenant, not for an earlier one of its name.     *)
(* The finalizer itself is added by workers whose copy came from the       *)
(* informer.                                                               *)
(***************************************************************************)
Doomed(x) ==
    \A i \in cached[x]..Len(log[x]) : log[x][i].del /\ Current(x).fin => Current(x).del

Entitled(x) ==
    /\ pc[x] = "addFinalizer" => w[x].rv <= cached[x]
    /\ pc[x] \in DeletePCs /\ Current(x).fin => Current(x).del

DoomInv == \A x \in Tenants : Doomed(x) /\ Entitled(x)

-----------------------------------------------------------------------------
LEMMA DoomFrame ==
    ASSUME TypeInv, NEW x \in Tenants, Doomed(x), Entitled(x), log'[x] = log[x],
           cached'[x] \in cached[x]..Len(log[x]),
           \/ pc'[x] = pc[x] /\ w'[x] = w[x]
           \/ pc'[x] # "addFinalizer" /\ (pc'[x] \in DeletePCs => pc[x] \in DeletePCs)
    PROVE  Doomed(x)' /\ Entitled(x)'
<1>1. /\ cached[x] \in Nat /\ Len(log[x]) \in Nat /\ w[x].rv \in Nat
      /\ Current(x)' = Current(x)
  BY CurrentType DEF TypeInv, TypeOK, WorkerTypeOK, Locals, Current
<1>2. Doomed(x)'
  BY <1>1 DEF Doomed
<1>3. Entitled(x)'
  BY <1>1 DEF Entitled
<1>4. QED
  BY <1>2, <1>3

\* A write by which the Tenant does not lose its deletion timestamp, unless it
\* is left without the finalizer.
LEMMA DoomStore ==
    ASSUME TypeInv, NEW t \in Tenants, Doomed(t), Entitled(t), NEW v \in Versions, Store(t, v),
           cached' = cached,
           \/ ~v.fin
           \/ Current(t).fin /\ (Current(t).del => v.del)
           \/ cached[t] = Len(log[t]) /\ ~Current(t).del,
           \/ pc'[t] = pc[t] /\ w'[t] = w[t]
           \/ pc'[t] # "addFinalizer" /\ pc'[t] \notin DeletePCs,
           v.fin /\ pc'[t] \in DeletePCs => Current(t).fin
    PROVE  Doomed(t)' /\ Entitled(t)'
<1>1. LogTypeOK /\ Len(log[t]) \in Nat /\ cached[t] \in Nat /\ Len(log[t]) > 0
      /\ cached[t] \in 1..Len(log[t]) /\ w[t].rv \in Nat
  BY CurrentType DEF TypeInv, TypeOK, LogInv, WorkerTypeOK, Locals
<1>2. /\ Current(t)' = v
      /\ Len(log'[t]) \in {Len(log[t]), Len(log[t]) + 1}
      /\ \A i \in 1..Len(log[t]) : log'[t][i] = log[t][i]
      /\ \A i \in 1..Len(log'[t]) : i \in 1..Len(log[t]) \/ log'[t][i] = v
  BY <1>1, StoreLog
<1>3. Doomed(t)'
  <2> SUFFICES ASSUME NEW i \in cached[t]..Len(log'[t]), log'[t][i].del, v.fin
               PROVE  v.del
    BY <1>2 DEF Doomed
  <2>1. CASE i \in cached[t]..Len(log[t])
    <3>1. log'[t][i] = log[t][i] /\ i \in 1..Len(log[t])
      BY <1>1, <1>2, <2>1
    <3>2. CASE Current(t).fin /\ (Current(t).del => v.del)
      BY <2>1, <3>1, <3>2 DEF Doomed
    <3>3. CASE cached[t] = Len(log[t]) /\ ~Current(t).del
      <4>1. i = Len(log[t])
        BY <1>1, <2>1, <3>3
      <4>2. QED
        BY <3>1, <3>3, <4>1 DEF Current
    <3>4. QED
      BY <3>2, <3>3
  <2>2. CASE i \notin cached[t]..Len(log[t])
    BY <1>1, <1>2, <2>2
  <2>3. QED
    BY <2>1, <2>2
<1>4. Entitled(t)'
  <2>1. pc'[t] = "addFinalizer" => w'[t].rv <= cached'[t]
    BY DEF Entitled
  <2>2. ASSUME pc'[t] \in DeletePCs, v.fin
        PROVE  v.del
    BY <1>1, <2>2 DEF Entitled, TypeInv, ReadInv
  <2>3. QED
    BY <1>2, <2>1, <2>2 DEF Entitled
<1>5. QED
  BY <1>3, <1>4

LEMMA DoomFrames ==
    ASSUME TypeInv, DoomInv, UNCHANGED log,
           \A x \in Tenants :
             /\ cached'[x] \in cached[x]..Len(log[x])
             /\ \/ pc'[x] = pc[x] /\ w'[x] = w[x]
                \/ pc'[x] # "addFinalizer" /\ (pc'[x] \in DeletePCs => pc[x] \in DeletePCs)
    PROVE  DoomInv'
<1>1. ASSUME NEW x \in Tenants
      PROVE  Doomed(x)' /\ Entitled(x)'
  BY DoomFrame DEF DoomInv
<1>2. QED
  BY <1>1 DEF DoomInv

\* Steps in which only the worker of t and the log of t may change.
LEMMA DoomLocal ==
    ASSUME TypeInv, DoomInv, NEW t \in Tenants, Doomed(t)' /\ Entitled(t)', UNCHANGED cached,
           \A x \in Tenants \ {t} : log'[x] = log[x] /\ pc'[x] = pc[x] /\ w'[x] = w[x]
    PROVE  DoomInv'
<1>1. ASSUME NEW x \in Tenants, x # t
      PROVE  Doomed(x)' /\ Entitled(x)'
  BY <1>1, CachedRange, DoomFrame DEF DoomInv
<1>2. QED
  BY <1>1 DEF DoomInv

\* A worker that goes on without a write, and not from the start of Reconcile.
LEMMA DoomGoto ==
    ASSUME TypeInv, DoomInv, NEW t \in Tenants, UNCHANGED <<log, cached>>, NEW p, NEW loc,
           Goto(t, p, loc), p # "addFinalizer", p \in DeletePCs => pc[t] \in DeletePCs
    PROVE  DoomInv'
<1>1. pc \in [Tenants -> PCs] /\ w \in [Tenants -> Locals]
  BY DEF TypeInv, TypeOK, WorkerTypeOK
<1>2. pc'[t] = p /\ \A x \in Tenants \ {t} : pc'[x] = pc[x] /\ w'[x] = w[x]
  BY <1>1 DEF Goto
<1>3. QED
  BY <1>2, CachedRange, DoomFrames

LEMMA DoomAbort ==
    ASSUME TypeInv, DoomInv, NEW t \in Tenants, Abort(t), UNCHANGED <<log, cached>>
    PROVE  DoomInv'
BY DoomGoto DEF Abort, DeletePCs

LEMMA DoomBegin ==
    ASSUME TypeInv, DoomInv, NEW t \in Tenants, Begin(t)
    PROVE  DoomInv'
<1>1. UNCHANGED <<log, cached>> /\ Current(t)' = Current(t)
      /\ pc \in [Tenants -> PCs] /\ w \in [Tenants -> Locals]
  BY DEF Begin, Current, TypeInv, TypeOK, WorkerTypeOK
<1>2. CASE UNCHANGED <<pc, w>>
  BY <1>1, <1>2, CachedRange, DoomFrames
<1>3. ASSUME NEW p, p = IF Cached(t).fin THEN AfterFinalizer(Cached(t)) ELSE "addFinalizer",
             Goto(t, p, NewLocal(Cached(t), cached[t]))
      PROVE  DoomInv'
  <2>1. /\ pc'[t] = p /\ w'[t].rv = cached[t]
        /\ \A x \in Tenants \ {t} : log'[x] = log[x] /\ pc'[x] = pc[x] /\ w'[x] = w[x]
    BY <1>1, <1>3 DEF Goto, NewLocal
  <2>2. p \in DeletePCs => Cached(t).del
    BY <1>3 DEF AfterFinalizer, DeletePCs
  <2>3. p \in DeletePCs /\ Current(t).fin => Current(t).del
    BY <2>2, CachedRange DEF DoomInv, Doomed, Cached
  <2>4. Entitled(t)'
    BY <1>1, <2>1, <2>3, CachedRange DEF Entitled
  <2>5. Doomed(t)'
    BY <1>1 DEF DoomInv, Doomed
  <2>6. QED
    BY <1>1, <2>1, <2>4, <2>5, DoomLocal
<1>4. QED
  BY <1>2, <1>3 DEF Begin

LEMMA DoomAddFinalizer ==
    ASSUME TypeInv, DoomInv, NEW t \in Tenants, AddFinalizer(t)
    PROVE  DoomInv'
<1> DEFINE v == [Current(t) EXCEPT !.fin = TRUE]
<1>1. pc[t] = "addFinalizer" /\ UNCHANGED cached /\ LogTypeOK /\ WorkerTypeOK
      /\ Doomed(t) /\ Entitled(t)
  BY DEF AddFinalizer, TypeInv, TypeOK, DoomInv
<1>2. CASE Abort(t) /\ UNCHANGED <<log, budget>>
  BY <1>1, <1>2, DoomAbort
<1>3. ASSUME w[t].rv = Len(log[t]), Store(t, v),
             Reply(t, AfterFinalizer(v), NewLocal(v, Len(log[t]) + 1))
      PROVE  DoomInv'
  <2>1. v \in Versions /\ AfterFinalizer(v) = "srcList"
    BY <1>1, <1>3, AddFinalizerVersion
  <2>2. ~Current(t).del
    BY <1>1, <1>3, CurrentType DEF TypeInv, ReadInv, LogInv, Current
  <2>3. cached[t] = Len(log[t])
    BY <1>1, <1>3, CachedRange DEF Entitled
  <2> HIDE DEF v
  <2>4. \A x \in Tenants \ {t} : log'[x] = log[x]
    BY <1>1, <1>3, <2>1, StoreLog
  <2>5. /\ pc'[t] \in {"srcList", "setError"}
        /\ \A x \in Tenants \ {t} : pc'[x] = pc[x] /\ w'[x] = w[x]
    BY <1>1, <1>3, <2>1, AbortEffect DEF Reply, Goto, WorkerTypeOK
  <2>6. Doomed(t)' /\ Entitled(t)'
    BY <1>1, <1>3, <2>1, <2>2, <2>3, <2>5, DoomStore DEF DeletePCs
  <2>7. QED
    BY <1>1, <2>4, <2>5, <2>6, DoomLocal
<1>4. QED
  BY <1>2, <1>3 DEF AddFinalizer

LEMMA DoomRemoveFinalizer ==
    ASSUME TypeInv, DoomInv, NEW t \in Tenants, RemoveFinalizer(t)
    PROVE  DoomInv'
<1>1. /\ UNCHANGED cached /\ LogTypeOK /\ WorkerTypeOK /\ Doomed(t) /\ Entitled(t)
      /\ Abort(t) \/ Finish(t)
  BY DEF RemoveFinalizer, TypeInv, TypeOK, DoomInv
<1>2. /\ pc'[t] \in {"setError", "idle"}
      /\ \A x \in Tenants \ {t} : pc'[x] = pc[x] /\ w'[x] = w[x]
  BY <1>1, AbortEffect DEF Finish, Goto, WorkerTypeOK
<1>3. CASE UNCHANGED log
  BY <1>1, <1>2, <1>3, CachedRange, DoomFrames DEF DeletePCs
<1>4. CASE Store(t, Gone)
  <2>1. Gone \in Versions /\ ~Gone.fin
    BY GoneType DEF Gone
  <2>2. \A x \in Tenants \ {t} : log'[x] = log[x]
    BY <1>1, <1>4, <2>1, StoreLog
  <2>3. Doomed(t)' /\ Entitled(t)'
    BY <1>1, <1>2, <1>4, <2>1, DoomStore DEF DeletePCs
  <2>4. QED
    BY <1>1, <1>2, <2>2, <2>3, DoomLocal
<1>5. QED
  BY <1>3, <1>4 DEF RemoveFinalizer

LEMMA DoomSetStatus ==
    ASSUME TypeInv, DoomInv, NEW t \in Tenants, SetStatus(t)
    PROVE  DoomInv'
<1>1. /\ pc[t] # "idle" /\ Finish(t) /\ UNCHANGED cached /\ LogTypeOK /\ WorkerTypeOK
      /\ Doomed(t) /\ Entitled(t)
  BY DEF SetStatus, TypeInv, TypeOK, DoomInv
<1>2. /\ pc'[t] = "idle"
      /\ \A x \in Tenants \ {t} : pc'[x] = pc[x] /\ w'[x] = w[x]
  BY <1>1 DEF Finish, Goto, WorkerTypeOK
<1>3. CASE UNCHANGED log
  BY <1>1, <1>2, <1>3, CachedRange, DoomFrames DEF DeletePCs
<1>4. CASE w[t].rv = Len(log[t]) /\ Store(t, [Current(t) EXCEPT !.status = EndStatus(t)])
  <2> DEFINE v == [Current(t) EXCEPT !.status = EndStatus(t)]
  <2>1. v \in Versions /\ v.fin = Current(t).fin /\ v.del = Current(t).del /\ Store(t, v)
    BY <1>1, <1>4, SetStatusVersion
  <2> HIDE DEF v
  <2>2. \A x \in Tenants \ {t} : log'[x] = log[x]
    BY <1>1, <2>1, StoreLog
  <2>3. Doomed(t)' /\ Entitled(t)'
    BY <1>1, <1>2, <2>1, DoomStore DEF DeletePCs
  <2>4. QED
    BY <1>1, <1>2, <2>2, <2>3, DoomLocal
<1>5. QED
  BY <1>3, <1>4 DEF SetStatus

\* What a user stores keeps a deletion timestamp, or leaves no finalizer.
LEMMA UserKeepsDeletion ==
    ASSUME TypeInv, NEW t \in Tenants, UserCreate(t) \/ UserUpdate(t) \/ UserDelete(t)
    PROVE  \E v \in Versions :
             /\ Store(t, v)
             /\ ~v.fin \/ (Current(t).fin /\ (Current(t).del => v.del))
<1>1. Current(t) \in Versions
  BY CurrentType DEF TypeInv, TypeOK
<1>2. UserSpecs \subseteq SpecValues /\ Policies \subseteq DeletionPolicies
  BY TypesAssumption DEF UserSpecs, SpecValues
<1>3. CASE UserCreate(t)
  <2>1. PICK s \in UserSpecs, p \in Policies :
          Store(t, [live |-> TRUE, spec |-> s, policy |-> p, del |-> FALSE, fin |-> FALSE,
                    status |-> "None"])
    BY <1>3 DEF UserCreate
  <2>2. [live |-> TRUE, spec |-> s, policy |-> p, del |-> FALSE, fin |-> FALSE,
         status |-> "None"] \in Versions
    BY <1>2 DEF Versions, Statuses
  <2>3. QED
    BY <2>1, <2>2
<1>4. CASE UserUpdate(t)
  <2>1. PICK s \in UserSpecs, p \in Policies :
          Store(t, [Current(t) EXCEPT !.spec = s, !.policy = p])
    BY <1>4 DEF UserUpdate
  <2> DEFINE v == [Current(t) EXCEPT !.spec = s, !.policy = p]
  <2>2. v \in Versions /\ v.del = Current(t).del /\ v.fin = Current(t).fin
    BY <1>1, <1>2 DEF Versions
  <2>3. QED
    BY <2>1, <2>2
<1>5. CASE UserDelete(t) /\ Current(t).fin
  <2> DEFINE v == [Current(t) EXCEPT !.del = TRUE]
  <2>1. v \in Versions /\ v.del /\ Store(t, v)
    BY <1>1, <1>5 DEF Versions, UserDelete
  <2>2. QED
    BY <1>5, <2>1
<1>6. CASE UserDelete(t) /\ ~Current(t).fin
  <2>1. Store(t, Gone) /\ ~Gone.fin
    BY <1>6 DEF UserDelete, Gone
  <2>2. QED
    BY <2>1, GoneType
<1>7. QED
  BY <1>3, <1>4, <1>5, <1>6

LEMMA DoomUserStep ==
    ASSUME TypeInv, DoomInv, NEW t \in Tenants, UserStep(t)
    PROVE  DoomInv'
<1>1. /\ UNCHANGED <<pc, w, cached>> /\ LogTypeOK /\ Doomed(t) /\ Entitled(t)
      /\ UserCreate(t) \/ UserUpdate(t) \/ UserDelete(t)
  BY DEF UserStep, TypeInv, TypeOK, DoomInv
<1>2. PICK v \in Versions :
        /\ Store(t, v)
        /\ ~v.fin \/ (Current(t).fin /\ (Current(t).del => v.del))
  BY <1>1, UserKeepsDeletion
<1>3. \A x \in Tenants \ {t} : log'[x] = log[x]
  BY <1>1, <1>2, StoreLog
<1>4. Doomed(t)' /\ Entitled(t)'
  BY <1>1, <1>2, DoomStore
<1>5. QED
  BY <1>1, <1>3, <1>4, DoomLocal

LEMMA DoomCall ==
    ASSUME TypeInv, DoomInv, NEW t \in Tenants,
           SourceList(t) \/ SourceGet(t) \/ (PkgRevStep(t) /\ UNCHANGED ctlVars) \/ CallFails(t)
    PROVE  DoomInv'
<1>1. CASE SourceList(t) \/ SourceGet(t)
  <2>1. UNCHANGED <<log, cached>>
    BY <1>1 DEF SourceList, SourceGet
  <2>2. CASE Abort(t)
    BY <2>1, <2>2, DoomAbort
  <2>3. ASSUME NEW p \in {"srcGet", "list"}, NEW loc, Goto(t, p, loc)
        PROVE  DoomInv'
    BY <2>1, <2>3, DoomGoto DEF DeletePCs
  <2>4. QED
    BY <1>1, <2>2, <2>3 DEF SourceList, SourceGet
<1>2. CASE PkgRevStep(t) /\ UNCHANGED ctlVars
  <2>1. UNCHANGED <<log, cached>>
    BY <1>2 DEF PkgRevStep, ctlVars
  <2>2. PICK p, loc : StepTo(t, p, loc)
    BY <1>2, PkgRevOutcome
  <2>3. QED
    BY <2>1, <2>2, DoomGoto DEF StepTo, Outcome
<1>3. CASE CallFails(t)
  BY <1>3, DoomAbort DEF CallFails
<1>4. QED
  BY <1>1, <1>2, <1>3

LEMMA DoomRestart ==
    ASSUME TypeInv, DoomInv, Restart
    PROVE  DoomInv'
<1>1. \A x \in Tenants : /\ cached'[x] = Len(log[x]) /\ Len(log[x]) \in Nat
                         /\ pc'[x] = "idle"
  BY CachedRange DEF Restart
<1>2. QED
  BY <1>1, CachedRange, DoomFrames DEF Restart, DeletePCs

LEMMA DoomObserve ==
    ASSUME TypeInv, DoomInv, NEW t \in Tenants, Observe(t)
    PROVE  DoomInv'
<1>1. cached \in [Tenants -> Nat]
  BY DEF TypeInv, TypeOK
<1>2. \A x \in Tenants : cached'[x] \in cached[x]..Len(log[x])
  BY <1>1, CachedRange DEF Observe
<1>3. QED
  BY <1>2, DoomFrames DEF Observe

LEMMA DoomNext ==
    ASSUME TypeInv, DoomInv, [Next]_vars
    PROVE  DoomInv'
<1>1. ASSUME UNCHANGED <<log, pc, w, cached>>
      PROVE  DoomInv'
  BY <1>1, CachedRange, DoomFrames
<1>2. CASE UNCHANGED vars
  BY <1>1, <1>2 DEF vars
<1>3. ASSUME NEW t \in Tenants, Fire(t)
      PROVE  DoomInv'
  BY <1>1, <1>3 DEF Fire
<1>4. ASSUME NEW t \in Tenants, Panic(t)
      PROVE  DoomInv'
  BY <1>4, DoomRestart DEF Panic
<1>5. CASE Crash
  BY <1>5, DoomRestart DEF Crash
<1>6. CASE Drift \/ SourceStep
  BY <1>1, <1>6 DEF Drift, SourceStep
<1>7. ASSUME NEW t \in Tenants, Call(t)
      PROVE  DoomInv'
  BY <1>7, DoomCall, DoomAddFinalizer, DoomRemoveFinalizer, DoomSetStatus DEF Call
<1>8. QED
  BY <1>2, <1>3, <1>4, <1>5, <1>6, <1>7, DoomCall, DoomBegin, DoomObserve, DoomUserStep DEF Next

LEMMA DoomInit == Init => DoomInv
<1> SUFFICES ASSUME Init, NEW x \in Tenants
             PROVE  Doomed(x) /\ Entitled(x)
  BY DEF DoomInv
<1>1. pc[x] = "idle" /\ log[x] = <<Gone>> /\ cached[x] = 1 /\ Len(log[x]) = 1
      /\ log[x][1] = Gone /\ ~Gone.fin
  BY DEF Init, WorkerInit, LogInit, Gone
<1>2. QED
  BY <1>1 DEF Doomed, Entitled, Current, DeletePCs

-----------------------------------------------------------------------------
(***************************************************************************)
(* What a call to Porch does to the revisions that the service shows: it   *)
(* touches the one it is made for, if that one is owned.                   *)
(***************************************************************************)
\* What carries an owner exists.
CleanInv == \A k \in Keys : revs[k].own => revs[k].lc # "None"

NoOwnMain == \A k \in Keys : k.num = 0 => ~revs[k].own

LEMMA BarAt ==
    ASSUME NEW k \in Keys
    PROVE  revBar[k] = OwnRev(revs[k]) /\ revBar'[k] = OwnRev(revs'[k])
BY DEF revBar

LEMMA BarSame ==
    ASSUME \A j \in Keys : OwnRev(revs'[j]) = OwnRev(revs[j])
    PROVE  UNCHANGED revBar
BY DEF revBar

LEMMA BarExcept ==
    ASSUME NEW k \in Keys, \A j \in Keys \ {k} : OwnRev(revs'[j]) = OwnRev(revs[j])
    PROVE  revBar' = [revBar EXCEPT ![k] = OwnRev(revs'[k])]
BY DEF revBar

\* A step that changes the lifecycle or the content of revision k.
LEMMA BarChange ==
    ASSUME revs \in [Keys -> Revs], NEW k \in Keys, NEW r \in Revs, r.own = revs[k].own,
           revs'[k] = r, \A j \in Keys \ {k} : OwnRev(revs'[j]) = OwnRev(revs[j])
    PROVE  /\ revs[k].own =>
                /\ revBar[k] = [lc |-> revs[k].lc, body |-> revs[k].body]
                /\ revBar' = [revBar EXCEPT ![k] = [lc |-> r.lc, body |-> r.body]]
           /\ ~revs[k].own => UNCHANGED revBar
<1>1. ASSUME revs[k].own
      PROVE  OwnRev(r) = [lc |-> r.lc, body |-> r.body]
             /\ OwnRev(revs[k]) = [lc |-> revs[k].lc, body |-> revs[k].body]
  BY <1>1, Zenon DEF OwnRev
<1>2. ASSUME ~revs[k].own
      PROVE  OwnRev(r) = OwnRev(revs[k])
  BY <1>2, Zenon DEF OwnRev
<1>3. ASSUME revs[k].own
      PROVE  /\ revBar[k] = [lc |-> revs[k].lc, body |-> revs[k].body]
             /\ revBar' = [revBar EXCEPT ![k] = [lc |-> r.lc, body |-> r.body]]
  BY <1>1, <1>3, BarAt, BarExcept
<1>4. ASSUME ~revs[k].own
      PROVE  UNCHANGED revBar
  BY <1>2, <1>4, BarSame
<1>5. QED
  BY <1>3, <1>4

\* The service shows exactly the owned revisions.
LEMMA MadeOwned ==
    ASSUME revs \in [Keys -> Revs], CleanInv, NEW t
    PROVE  /\ Service!Made(t) = Owned(t)
           /\ \A k \in Keys : ~Exists(k) => revBar[k] = Service!Nothing
<1>1. ASSUME NEW k \in Keys
      PROVE  revBar[k] # Service!Nothing <=> Exists(k) /\ revs[k].own
  <2>1. revBar[k] = OwnRev(revs[k])
    BY BarAt
  <2>2. CASE revs[k].own
    <3>1. OwnRev(revs[k]) = [lc |-> revs[k].lc, body |-> revs[k].body]
      BY <2>2, Zenon DEF OwnRev
    <3>2. revs[k].lc # "None"
      BY <2>2 DEF CleanInv
    <3>3. revBar[k].lc # Service!Nothing.lc
      BY <2>1, <3>1, <3>2 DEF Service!Nothing
    <3>4. QED
      BY <2>2, <3>2, <3>3 DEF Exists
  <2>3. CASE ~revs[k].own
    <3>1. OwnRev(revs[k]) = [lc |-> "None", body |-> InitBody]
      BY <2>3, Zenon DEF OwnRev
    <3>2. QED
      BY <2>1, <2>3, <3>1 DEF Service!Nothing
  <2>4. QED
    BY <2>2, <2>3
<1>2. QED
  BY <1>1 DEF Service!Made, Owned

LEMMA CreateStep ==
    ASSUME revs \in [Keys -> Revs], CleanInv, NEW k \in Keys, CreateRev(k),
           phaseBar[k.pkg] \in {"managed", "removing"},
           \A j \in Owned(k.pkg) : j.num < k.num
    PROVE  Service!Start(k)
<1>1. /\ ~Exists(k)
      /\ revs'[k] = [lc |-> "Draft", body |-> InitBody, own |-> TRUE]
      /\ \A j \in Keys \ {k} : revs'[j] = revs[j]
  BY DEF CreateRev
<1>2. OwnRev(revs'[k]) = [lc |-> "Draft", body |-> InitBody]
  BY <1>1 DEF OwnRev
<1>3. revBar' = [revBar EXCEPT ![k] = [lc |-> "Draft", body |-> InitBody]]
  BY <1>1, <1>2, BarExcept
<1>4. revBar[k] = Service!Nothing /\ Service!Made(k.pkg) = Owned(k.pkg)
  BY <1>1, MadeOwned
<1>5. QED
  BY <1>3, <1>4 DEF Service!Start

LEMMA DeleteStep ==
    ASSUME revs \in [Keys -> Revs], NEW k \in Keys, DeleteRev(k)
    PROVE  (revs[k].own /\ Service!Drop(k)) \/ UNCHANGED revBar
<1>1. /\ revs[k].lc # "None"
      /\ revs'[k] = NoRev
      /\ \A j \in Keys \ {k} : revs'[j] = revs[j]
  BY DEF DeleteRev, Exists
<1>2. OwnRev(revs'[k]) = [lc |-> "None", body |-> InitBody]
  BY <1>1 DEF OwnRev, NoRev
<1>3. revBar' = [revBar EXCEPT ![k] = Service!Nothing]
  BY <1>1, <1>2, BarExcept DEF Service!Nothing
<1>4. CASE revs[k].own
  <2>1. OwnRev(revs[k]) = [lc |-> revs[k].lc, body |-> revs[k].body]
    BY <1>4, Zenon DEF OwnRev
  <2>2. revBar[k].lc # Service!Nothing.lc
    BY <1>1, <2>1, BarAt DEF Service!Nothing
  <2>3. QED
    BY <1>3, <1>4, <2>2 DEF Service!Drop
<1>5. CASE ~revs[k].own
  <2>1. OwnRev(revs[k]) = [lc |-> "None", body |-> InitBody]
    BY <1>5, Zenon DEF OwnRev
  <2>2. QED
    BY <1>1, <1>2, <2>1, BarSame
<1>6. QED
  BY <1>4, <1>5

LEMMA PutStep ==
    ASSUME revs \in [Keys -> Revs], NEW k \in Keys, NEW b \in Bodies, PutResources(k, b)
    PROVE  Service!Fill(k) \/ UNCHANGED revBar
<1> DEFINE r == [revs[k] EXCEPT !.body = b]
<1>1. r \in Revs /\ r.own = revs[k].own /\ r.lc = revs[k].lc /\ r.body = b
  BY DEF Revs
<1>2. revs[k].lc = "Draft" /\ revs'[k] = r /\ \A j \in Keys \ {k} : revs'[j] = revs[j]
  BY DEF PutResources
<1> HIDE DEF r
<1>3. \A j \in Keys \ {k} : OwnRev(revs'[j]) = OwnRev(revs[j])
  BY <1>2
<1>4. CASE revs[k].own
  <2>1. /\ revBar[k] = [lc |-> revs[k].lc, body |-> revs[k].body]
        /\ revBar' = [revBar EXCEPT ![k] = [lc |-> r.lc, body |-> r.body]]
    BY <1>1, <1>2, <1>3, <1>4, BarChange, Zenon
  <2>2. revBar[k].lc = "Draft"
    BY <1>2, <2>1
  <2>3. [revBar[k] EXCEPT !.body = b] = [lc |-> revs[k].lc, body |-> b]
    BY <2>1
  <2>4. revBar' = [revBar EXCEPT ![k].body = b]
    BY <1>1, <2>1, <2>3, Zenon
  <2>5. QED
    BY <2>2, <2>4, Zenon DEF Service!Fill
<1>5. CASE ~revs[k].own
  BY <1>1, <1>2, <1>3, <1>5, BarChange, Zenon
<1>6. QED
  BY <1>4, <1>5

\* The lifecycle of revision k changes; whatever else changes is not owned.
LEMMA AdvanceStep ==
    ASSUME revs \in [Keys -> Revs], NEW k \in Keys, NEW l \in Lifecycles,
           revs'[k] = [revs[k] EXCEPT !.lc = l],
           \A j \in Keys \ {k} : OwnRev(revs'[j]) = OwnRev(revs[j])
    PROVE  \/ /\ revBar[k].body = revs[k].body
              /\ Service!Advance(k, revs[k].lc, l)
           \/ UNCHANGED revBar
<1> DEFINE r == [revs[k] EXCEPT !.lc = l]
<1>1. r \in Revs /\ r.own = revs[k].own /\ r.lc = l /\ r.body = revs[k].body
  BY DEF Revs
<1>2. revs'[k] = r
  OBVIOUS
<1> HIDE DEF r
<1>3. CASE revs[k].own
  <2>1. /\ revBar[k] = [lc |-> revs[k].lc, body |-> revs[k].body]
        /\ revBar' = [revBar EXCEPT ![k] = [lc |-> r.lc, body |-> r.body]]
    BY <1>1, <1>2, <1>3, BarChange, Zenon
  <2>2. revBar[k].lc = revs[k].lc /\ revBar[k].body = revs[k].body
    BY <2>1
  <2>3. [revBar[k] EXCEPT !.lc = l] = [lc |-> l, body |-> revs[k].body]
    BY <2>1
  <2>4. revBar' = [revBar EXCEPT ![k].lc = l]
    BY <1>1, <2>1, <2>3, Zenon
  <2>5. QED
    BY <2>2, <2>4, Zenon DEF Service!Advance
<1>4. CASE ~revs[k].own
  BY <1>1, <1>2, <1>4, BarChange, Zenon
<1>5. QED
  BY <1>3, <1>4

LEMMA ProposeStep ==
    ASSUME revs \in [Keys -> Revs], NEW k \in Keys, ProposeRev(k), revs[k].body # InitBody
    PROVE  Service!Propose(k) \/ UNCHANGED revBar
<1>1. /\ revs[k].lc \in {"Draft", "Proposed"} /\ "Proposed" \in Lifecycles
      /\ revs'[k] = [revs[k] EXCEPT !.lc = "Proposed"]
      /\ \A j \in Keys \ {k} : revs'[j] = revs[j]
  BY DEF ProposeRev, Lifecycles
<1>2. CASE revs[k].lc = "Draft"
  BY <1>1, <1>2, AdvanceStep DEF Service!Propose
<1>3. CASE revs[k].lc = "Proposed"
  <2>1. revs'[k] = revs[k]
    BY <1>1, <1>3 DEF Revs
  <2>2. QED
    BY <1>1, <2>1, BarSame
<1>4. QED
  BY <1>1, <1>2, <1>3

LEMMA RejectStep ==
    ASSUME revs \in [Keys -> Revs], NEW k \in Keys, revs[k].lc = "Proposed",
           revs' = [revs EXCEPT ![k].lc = "Draft"]
    PROVE  Service!Reject(k) \/ UNCHANGED revBar
<1>1. /\ revs'[k] = [revs[k] EXCEPT !.lc = "Draft"] /\ "Draft" \in Lifecycles
      /\ \A j \in Keys \ {k} : revs'[j] = revs[j]
  BY DEF Lifecycles
<1>2. QED
  BY <1>1, AdvanceStep DEF Service!Reject

LEMMA PublishStep ==
    ASSUME revs \in [Keys -> Revs], NEW k \in Keys, ApproveRev(k), k.num > 0, NoOwnMain
    PROVE  Service!Publish(k) \/ UNCHANGED revBar
<1>1. Main(k) \in Keys /\ Main(k) # k /\ ~revs[Main(k)].own
  BY MainKey DEF NoOwnMain
<1>2. /\ revs[k].lc = "Proposed" /\ "Published" \in Lifecycles
      /\ revs'[k] = [revs[k] EXCEPT !.lc = "Published"]
      /\ \A j \in Keys \ {k, Main(k)} : revs'[j] = revs[j]
      /\ ~revs'[Main(k)].own
  BY <1>1 DEF ApproveRev, Lifecycles
<1>3. OwnRev(revs'[Main(k)]) = OwnRev(revs[Main(k)])
  BY <1>1, <1>2, Zenon DEF OwnRev
<1>4. \A j \in Keys \ {k} : OwnRev(revs'[j]) = OwnRev(revs[j])
  BY <1>2, <1>3
<1>5. QED
  BY <1>2, <1>4, AdvanceStep DEF Service!Publish

-----------------------------------------------------------------------------
(***************************************************************************)
(* What carries an owner exists, and none of it is on the main branch.     *)
(***************************************************************************)
LEMMA CleanPorch ==
    ASSUME revs \in [Keys -> Revs], CleanInv, NEW k \in Keys, PorchCall(k) \/ DriftRev(k)
    PROVE  CleanInv'
<1> SUFFICES ASSUME NEW j \in Keys, revs'[j].own
             PROVE  revs'[j].lc # "None"
  BY DEF CleanInv
<1>1. revs[k] \in Revs /\ revs[j] \in Revs /\ (revs[j].own => revs[j].lc # "None")
  BY DEF CleanInv
<1>2. CASE CreateRev(k)
  BY <1>1, <1>2 DEF CreateRev
<1>3. CASE DeleteRev(k)
  BY <1>1, <1>3 DEF DeleteRev, NoRev
<1>4. CASE \E b \in Bodies : PutResources(k, b)
  BY <1>1, <1>4 DEF PutResources, Revs
<1>5. CASE ProposeRev(k)
  BY <1>1, <1>5 DEF ProposeRev, Revs
<1>6. CASE ApproveRev(k)
  <2>1. \/ revs'[j] = revs[j]
        \/ revs'[j] = [revs[k] EXCEPT !.lc = "Published"]
        \/ revs'[j] = [lc |-> "Published", body |-> revs[k].body, own |-> FALSE]
    BY <1>6, MainKey DEF ApproveRev
  <2>2. [revs[k] EXCEPT !.lc = "Published"].lc # "None"
    BY <1>1 DEF Revs
  <2>3. CASE revs'[j] = [revs[k] EXCEPT !.lc = "Published"]
    BY <2>2, <2>3, Zenon
  <2>4. CASE revs'[j] = [lc |-> "Published", body |-> revs[k].body, own |-> FALSE]
    BY <2>4
  <2>5. QED
    BY <1>1, <2>1, <2>3, <2>4, Zenon
<1>7. CASE revs' = [revs EXCEPT ![k].lc = "Draft"]
  BY <1>1, <1>7 DEF Revs
<1>8. CASE \E b \in Bodies : revs' = [revs EXCEPT ![k] = [lc |-> "Draft", body |-> b, own |-> FALSE]]
  BY <1>1, <1>8
<1>9. QED
  BY <1>2, <1>3, <1>4, <1>5, <1>6, <1>7, <1>8 DEF PorchCall, DriftRev

LEMMA CleanNext ==
    ASSUME TypeInv, CleanInv, [Next]_vars
    PROVE  CleanInv'
<1>1. revs \in [Keys -> Revs]
  BY DEF TypeInv, TypeOK, PorchTypeOK
<1>2. CASE UNCHANGED revs
  BY <1>2 DEF CleanInv
<1>3. ASSUME NEW t \in Tenants, PkgRevStep(t)
      PROVE  CleanInv'
  BY <1>1, <1>2, <1>3, PkgRevOutcome, CleanPorch DEF OwnCall
<1>4. CASE Drift
  BY <1>1, <1>4, CleanPorch DEF Drift
<1>5. ASSUME NEW t \in Tenants, Call(t)
      PROVE  CleanInv'
  BY <1>2, <1>3, <1>5 DEF Call, AddFinalizer, RemoveFinalizer, SourceList, SourceGet, SetStatus
<1>6. QED
  BY <1>2, <1>4, <1>5
  DEF Next, vars, Observe, Fire, Begin, Panic, Restart, CallFails, UserStep, Crash,
      SourceStep, ChangeSource

LEMMA CleanMain ==
    ASSUME CleanInv, NumInv
    PROVE  NoOwnMain
<1> SUFFICES ASSUME NEW k \in Keys, k.num = 0, revs[k].own
             PROVE  FALSE
  BY DEF NoOwnMain
<1>1. k \in Owned(k.pkg) /\ k.pkg \in Tenants
  BY DEF CleanInv, Owned, Exists, Keys
<1>2. QED
  BY <1>1 DEF NumInv, NumInvAt, Known

-----------------------------------------------------------------------------
(***************************************************************************)
(* What a write to a Tenant does to its phase.                             *)
(***************************************************************************)
LEMMA Phases ==
    ASSUME NEW v \in Versions
    PROVE  /\ ~v.live => PhaseOf(v) = "absent"
           /\ v.live /\ v.del => PhaseOf(v) = "removing"
           /\ v.live /\ ~v.del /\ v.fin => PhaseOf(v) = "managed"
           /\ v.live /\ ~v.del /\ ~v.fin => PhaseOf(v) = "offered"
BY DEF PhaseOf

LEMMA PhaseAt ==
    ASSUME NEW t \in Tenants
    PROVE  phaseBar[t] = PhaseOf(Current(t))
BY DEF phaseBar

\* Steps that neither write a Tenant nor call Porch.
LEMMA Hidden ==
    ASSUME UNCHANGED log, UNCHANGED revs, budget'.drift = budget.drift
    PROVE  UNCHANGED Service!svcVars
<1>1. UNCHANGED phaseBar /\ UNCHANGED policyBar
  BY DEF phaseBar, policyBar, GetDeletionPolicy, Current
<1>2. UNCHANGED revBar /\ UNCHANGED othersBar
  BY DEF revBar, othersBar
<1>3. QED
  BY <1>1, <1>2 DEF Service!svcVars

LEMMA Moves ==
    ASSUME LogTypeOK, NEW t \in Tenants, NEW v \in Versions, Store(t, v), UNCHANGED revs,
           budget'.drift = budget.drift
    PROVE  /\ phaseBar[t] = PhaseOf(Current(t))
           /\ phaseBar' = [phaseBar EXCEPT ![t] = PhaseOf(v)]
           /\ PhaseOf(v) = PhaseOf(Current(t)) => UNCHANGED phaseBar
           /\ UNCHANGED <<revBar, othersBar>>
<1>1. Current(t)' = v /\ \A x \in Tenants \ {t} : log'[x] = log[x]
  BY StoreLog
<1>2. \A x \in Tenants \ {t} : Current(x)' = Current(x)
  BY <1>1 DEF Current
<1>3. phaseBar' = [phaseBar EXCEPT ![t] = PhaseOf(v)]
  BY <1>1, <1>2 DEF phaseBar
<1>4. PhaseOf(v) = PhaseOf(Current(t)) => UNCHANGED phaseBar
  BY <1>1, <1>2 DEF phaseBar
<1>5. UNCHANGED revBar /\ UNCHANGED othersBar
  BY DEF revBar, othersBar
<1>6. QED
  BY <1>3, <1>4, <1>5, PhaseAt

\* Storing a Tenant sets the policy, removing it keeps the last one.
LEMMA PolicyOf ==
    ASSUME LogTypeOK, NEW t \in Tenants, NEW v \in Versions, Store(t, v)
    PROVE  /\ v.live => GetDeletionPolicy(t)' = v.policy
           /\ ~v.live /\ Current(t).live => GetDeletionPolicy(t)' = Current(t).policy
           /\ Current(t).live => GetDeletionPolicy(t) = Current(t).policy
           /\ \A x \in Tenants \ {t} : GetDeletionPolicy(x)' = GetDeletionPolicy(x)
<1>1. Current(t)' = v /\ \A x \in Tenants \ {t} : log'[x] = log[x]
  BY StoreLog
<1>2. \A x \in Tenants \ {t} : GetDeletionPolicy(x)' = GetDeletionPolicy(x)
  BY <1>1 DEF GetDeletionPolicy, Current
<1>3. (v.live => GetDeletionPolicy(t)' = v.policy)
      /\ (Current(t).live => GetDeletionPolicy(t) = Current(t).policy)
  BY <1>1 DEF GetDeletionPolicy
<1>4. ASSUME ~v.live, Current(t).live
      PROVE  GetDeletionPolicy(t)' = Current(t).policy
  <2>1. log[t] \in Seq(Versions) /\ Len(log[t]) > 0 /\ v # Current(t)
    BY <1>4 DEF LogTypeOK
  <2>2. log'[t] = Append(log[t], v)
    BY <2>1 DEF Store, LogTypeOK
  <2>3. Len(log'[t]) = Len(log[t]) + 1 /\ log'[t][Len(log[t])] = log[t][Len(log[t])]
    BY <2>1, <2>2
  <2>4. GetDeletionPolicy(t)' = log'[t][Len(log'[t]) - 1].policy
    BY <1>1, <1>4, <2>1, <2>3 DEF GetDeletionPolicy
  <2>5. QED
    BY <2>1, <2>3, <2>4 DEF Current
<1>5. QED
  BY <1>2, <1>3, <1>4

LEMMA PolicyStays ==
    ASSUME LogTypeOK, NEW t \in Tenants, NEW v \in Versions, Store(t, v), Current(t).live,
           v.live => v.policy = Current(t).policy
    PROVE  UNCHANGED policyBar
<1>1. GetDeletionPolicy(t)' = GetDeletionPolicy(t)
  BY PolicyOf DEF Versions
<1>2. \A x \in Tenants : GetDeletionPolicy(x)' = GetDeletionPolicy(x)
  BY <1>1, PolicyOf
<1>3. QED
  BY <1>2 DEF policyBar

LEMMA Chooses ==
    ASSUME LogTypeOK, NEW t \in Tenants, NEW v \in Versions, Store(t, v), v.live
    PROVE  Service!ChoosePolicy(t)
<1>1. v.policy \in {"delete", "orphan"}
  BY DEF Versions, DeletionPolicies
<1>2. policyBar' = [policyBar EXCEPT ![t] = v.policy]
  BY PolicyOf DEF policyBar
<1>3. QED
  BY <1>1, <1>2 DEF Service!ChoosePolicy

LEMMA SpendDrift ==
    ASSUME budget \in Budgets, NEW b \in {"fault", "edit", "source"}, Spend(b)
    PROVE  budget'.drift = budget.drift
BY DEF Spend, Budgets

-----------------------------------------------------------------------------
(***************************************************************************)
(* Every step of the system is a step of the service.                      *)
(***************************************************************************)
SvcStep == [Service!SvcNext]_(Service!svcVars)

AllInv ==
    /\ TypeInv
    /\ OrphanInv
    /\ FillInv
    /\ NumInv
    /\ DoomInv
    /\ CleanInv

LEMMA StepAddFinalizer ==
    ASSUME AllInv, NEW t \in Tenants, AddFinalizer(t)
    PROVE  SvcStep
<1> DEFINE v == [Current(t) EXCEPT !.fin = TRUE]
<1>1. pc[t] = "addFinalizer" /\ UNCHANGED revs /\ TypeInv /\ LogTypeOK /\ budget \in Budgets
  BY DEF AddFinalizer, AllInv, TypeInv, TypeOK, WorkerTypeOK
<1>2. budget'.drift = budget.drift
  BY <1>1, SpendDrift DEF AddFinalizer, Reply
<1>3. CASE UNCHANGED log
  BY <1>1, <1>2, <1>3, Hidden DEF SvcStep
<1>4. CASE w[t].rv = Len(log[t]) /\ Store(t, v)
  <2>1. v \in Versions /\ v.live /\ v.fin /\ ~v.del
    BY <1>1, <1>4, AddFinalizerVersion
  <2>2. Current(t) \in Versions /\ Current(t).live /\ ~Current(t).fin /\ ~Current(t).del
    BY <1>1, <1>4, CurrentType DEF TypeInv, ReadInv, LogInv, Current
  <2>3. v.policy = Current(t).policy
    BY <2>2 DEF Versions
  <2> HIDE DEF v
  <2>4. PhaseOf(v) = "managed" /\ PhaseOf(Current(t)) = "offered"
    BY <2>1, <2>2, Phases
  <2>5. Service!Manage(t)
    BY <1>1, <1>2, <1>4, <2>1, <2>2, <2>3, <2>4, Moves, PolicyStays
    DEF Service!Manage, Service!Move
  <2>6. QED
    BY <2>5 DEF SvcStep, Service!SvcNext
<1>5. QED
  BY <1>3, <1>4 DEF AddFinalizer

\* The finalizer is removed after the last revision, from a Tenant that is
\* being deleted.
LEMMA StepRemoveFinalizer ==
    ASSUME AllInv, NEW t \in Tenants, RemoveFinalizer(t)
    PROVE  SvcStep
<1>1. /\ pc[t] = "removeFinalizer" /\ UNCHANGED revs /\ TypeInv /\ LogTypeOK
      /\ budget \in Budgets /\ revs \in [Keys -> Revs] /\ CleanInv
  BY DEF RemoveFinalizer, AllInv, TypeInv, TypeOK, WorkerTypeOK, PorchTypeOK
<1>2. budget'.drift = budget.drift
  BY <1>1, SpendDrift DEF RemoveFinalizer
<1>3. CASE UNCHANGED log
  BY <1>1, <1>2, <1>3, Hidden DEF SvcStep
<1>4. CASE w[t].rv = Len(log[t]) /\ Store(t, Gone)
  <2>1. Current(t) \in Versions /\ Current(t).live /\ Current(t).del
    BY <1>1, <1>4, CurrentType DEF TypeInv, ReadInv, DeletePCs, Current
  <2>2. Gone \in Versions /\ ~Gone.live
    BY GoneType DEF Gone
  <2>3. PhaseOf(Gone) = "absent" /\ PhaseOf(Current(t)) = "removing"
    BY <2>1, <2>2, Phases
  <2>4. Owned(t) = {}
    BY <1>1 DEF AllInv, OrphanInv, DeleteInv
  <2>5. Service!CleanedUp(t)
    BY <1>1, <2>4, MadeOwned DEF Service!CleanedUp
  <2>6. Service!Release(t)
    BY <1>1, <1>2, <1>4, <2>1, <2>2, <2>3, <2>5, Moves, PolicyStays
    DEF Service!Release, Service!Move
  <2>7. QED
    BY <2>6 DEF SvcStep, Service!SvcNext
<1>5. QED
  BY <1>3, <1>4 DEF RemoveFinalizer

LEMMA StepSetStatus ==
    ASSUME AllInv, NEW t \in Tenants, SetStatus(t)
    PROVE  SvcStep
<1>1. pc[t] # "idle" /\ UNCHANGED revs /\ TypeInv /\ LogTypeOK /\ budget \in Budgets
  BY DEF SetStatus, AllInv, TypeInv, TypeOK, WorkerTypeOK
<1>2. budget'.drift = budget.drift
  BY <1>1, SpendDrift DEF SetStatus
<1>3. CASE UNCHANGED log
  BY <1>1, <1>2, <1>3, Hidden DEF SvcStep
<1>4. CASE w[t].rv = Len(log[t]) /\ Store(t, [Current(t) EXCEPT !.status = EndStatus(t)])
  <2> DEFINE v == [Current(t) EXCEPT !.status = EndStatus(t)]
  <2>1. /\ v \in Versions /\ v.live /\ v.fin = Current(t).fin /\ v.del = Current(t).del
        /\ Store(t, v)
    BY <1>1, <1>4, SetStatusVersion
  <2>2. Current(t) \in Versions /\ Current(t).live
    BY <1>1, <1>4, CurrentType DEF TypeInv, ReadInv, Current
  <2>3. v.policy = Current(t).policy
    BY <2>2 DEF Versions
  <2> HIDE DEF v
  <2>4. PhaseOf(v) = PhaseOf(Current(t))
    BY <2>1, <2>2, Phases
  <2>5. QED
    BY <1>1, <1>2, <2>1, <2>2, <2>3, <2>4, Moves, PolicyStays DEF SvcStep, Service!svcVars
<1>5. QED
  BY <1>3, <1>4 DEF SetStatus

\* A Tenant is created where nothing is left of an earlier one.
LEMMA StepUser ==
    ASSUME AllInv, NEW t \in Tenants, UserStep(t)
    PROVE  SvcStep
<1>1. /\ UNCHANGED revs /\ TypeInv /\ LogTypeOK /\ budget \in Budgets
      /\ revs \in [Keys -> Revs] /\ CleanInv
      /\ Spend("edit")
      /\ UserCreate(t) \/ UserUpdate(t) \/ UserDelete(t)
  BY DEF UserStep, AllInv, TypeInv, TypeOK, WorkerTypeOK, PorchTypeOK
<1>2. budget'.drift = budget.drift /\ Current(t) \in Versions
  BY <1>1, SpendDrift, CurrentType
<1>3. CASE UserCreate(t)
  <2>1. PICK s \in UserSpecs, p \in Policies :
          Store(t, [live |-> TRUE, spec |-> s, policy |-> p, del |-> FALSE, fin |-> FALSE,
                    status |-> "None"])
    BY <1>3 DEF UserCreate
  <2> DEFINE v == [live |-> TRUE, spec |-> s, policy |-> p, del |-> FALSE, fin |-> FALSE,
                   status |-> "None"]
  <2>2. v \in Versions /\ v.live /\ ~v.del /\ ~v.fin /\ Store(t, v) /\ ~Current(t).live
    BY <1>3, <2>1, TypesAssumption DEF UserCreate, Versions, Statuses, UserSpecs, SpecValues
  <2> HIDE DEF v
  <2>3. PhaseOf(v) = "offered" /\ PhaseOf(Current(t)) = "absent"
    BY <1>2, <2>2, Phases
  <2>4. Owned(t) = {}
    BY <2>2, NothingLeft DEF AllInv
  <2>5. Service!CleanedUp(t)
    BY <1>1, <2>4, MadeOwned DEF Service!CleanedUp
  <2>6. Service!ChoosePolicy(t)
    BY <1>1, <2>2, Chooses
  <2>7. Service!Offer(t)
    BY <1>1, <1>2, <2>2, <2>3, <2>5, <2>6, Moves DEF Service!Offer, Service!Move
  <2>8. QED
    BY <2>7 DEF SvcStep, Service!SvcNext
<1>4. CASE UserUpdate(t)
  <2>1. PICK s \in UserSpecs, p \in Policies :
          Store(t, [Current(t) EXCEPT !.spec = s, !.policy = p])
    BY <1>4 DEF UserUpdate
  <2> DEFINE v == [Current(t) EXCEPT !.spec = s, !.policy = p]
  <2>2. /\ v \in Versions /\ v.live = Current(t).live /\ v.del = Current(t).del
        /\ v.fin = Current(t).fin /\ Store(t, v) /\ Current(t).live
    BY <1>2, <1>4, <2>1, TypesAssumption DEF UserUpdate, Versions, UserSpecs, SpecValues
  <2> HIDE DEF v
  <2>3. PhaseOf(v) = PhaseOf(Current(t)) /\ PhaseOf(v) # "absent"
    BY <1>2, <2>2, Phases
  <2>4. Service!ChoosePolicy(t)
    BY <1>1, <2>2, Chooses
  <2>5. Service!Revise(t)
    BY <1>1, <1>2, <2>2, <2>3, <2>4, Moves DEF Service!Revise
  <2>6. QED
    BY <2>5 DEF SvcStep, Service!SvcNext
<1>5. CASE UserDelete(t) /\ Current(t).fin
  <2> DEFINE v == [Current(t) EXCEPT !.del = TRUE]
  <2>1. /\ v \in Versions /\ v.live = Current(t).live /\ v.del /\ Store(t, v)
        /\ Current(t).live /\ ~Current(t).del /\ v.policy = Current(t).policy
    BY <1>2, <1>5 DEF Versions, UserDelete
  <2> HIDE DEF v
  <2>2. PhaseOf(v) = "removing" /\ PhaseOf(Current(t)) = "managed"
    BY <1>2, <1>5, <2>1, Phases
  <2>3. Service!Retire(t)
    BY <1>1, <1>2, <2>1, <2>2, Moves, PolicyStays DEF Service!Retire, Service!Move
  <2>4. QED
    BY <2>3 DEF SvcStep, Service!SvcNext
<1>6. CASE UserDelete(t) /\ ~Current(t).fin
  <2>1. Store(t, Gone) /\ Current(t).live /\ ~Current(t).del
    BY <1>6 DEF UserDelete
  <2>2. Gone \in Versions /\ ~Gone.live
    BY GoneType DEF Gone
  <2>3. PhaseOf(Gone) = "absent" /\ PhaseOf(Current(t)) = "offered"
    BY <1>2, <1>6, <2>1, <2>2, Phases
  <2>4. Service!Withdraw(t)
    BY <1>1, <1>2, <2>1, <2>2, <2>3, Moves, PolicyStays DEF Service!Withdraw, Service!Move
  <2>5. QED
    BY <2>4 DEF SvcStep, Service!SvcNext
<1>7. QED
  BY <1>1, <1>3, <1>4, <1>5, <1>6

\* A worker's call to Porch moves one revision of the service, or none.
LEMMA StepRevision ==
    ASSUME UNCHANGED log, budget'.drift = budget.drift, NEW k \in Keys,
           \/ UNCHANGED revBar
           \/ Service!Start(k) \/ Service!Fill(k) \/ Service!Propose(k) \/ Service!Publish(k)
           \/ phaseBar[k.pkg] = "removing" /\ Service!Drop(k)
    PROVE  SvcStep
<1>1. UNCHANGED phaseBar /\ UNCHANGED policyBar /\ UNCHANGED othersBar
  BY DEF phaseBar, policyBar, GetDeletionPolicy, Current, othersBar
<1>2. CASE UNCHANGED revBar
  BY <1>1, <1>2 DEF SvcStep, Service!svcVars
<1>3. CASE ~UNCHANGED revBar
  <2>1. Service!RevisionStep
    BY <1>1, <1>3, Zenon DEF Service!RevisionStep
  <2>2. QED
    BY <2>1 DEF SvcStep, Service!SvcNext
<1>4. QED
  BY <1>2, <1>3

LEMMA PkgRevBudget ==
    ASSUME TypeInv, NEW t \in Tenants, PkgRevStep(t)
    PROVE  budget'.drift = budget.drift
<1>1. UNCHANGED budget \/ Spend("fault")
  BY DEF PkgRevStep, DeleteList, DeleteOne, List, CreateFirst, CreateNext, CreateAs, GetResources,
         GetNewResources, UpdateResources, ApproveGet, Propose, ApprovalGet, ApprovalPut, Refuse,
         Reply
<1>2. budget \in Budgets
  BY DEF TypeInv, TypeOK, WorkerTypeOK
<1>3. QED
  BY <1>1, <1>2, SpendDrift

\* Creation: under the finalizer, and above every revision the Tenant owns.
LEMMA StepCreate ==
    ASSUME AllInv, NEW t \in Tenants, PkgRevStep(t), CreateFirst(t) \/ CreateNext(t)
    PROVE  SvcStep
<1>1. /\ TypeInv /\ UNCHANGED log /\ budget'.drift = budget.drift /\ CleanInv
      /\ revs \in [Keys -> Revs] /\ LogTypeOK
  BY PkgRevBudget DEF AllInv, PkgRevStep, TypeInv, TypeOK, PorchTypeOK
<1>2. CASE UNCHANGED revs
  BY <1>1, <1>2, Hidden DEF SvcStep
<1>3. ASSUME NEW k \in Keys, k.pkg = t, CreateRev(k), \A j \in Owned(t) : j.num < k.num
      PROVE  SvcStep
  <2>1. pc[t] \in SyncPCs
    BY DEF CreateFirst, CreateNext, SyncPCs
  <2>2. Current(t).fin /\ Current(t) \in Versions
    BY <1>1, <2>1, CurrentType DEF AllInv, OrphanInv, Holding
  <2>3. Current(t).live
    BY <1>1, <2>2, CurrentType DEF TypeInv, LogInv, Current, Gone
  <2>4. phaseBar[k.pkg] \in {"managed", "removing"}
    BY <1>3, <2>2, <2>3, Phases, PhaseAt
  <2>5. Service!Start(k)
    BY <1>1, <1>3, <2>4, CreateStep
  <2>6. QED
    BY <1>1, <2>5, StepRevision
<1>4. CASE CreateFirst(t)
  <2>1. pc[t] = "createFirst" /\ (UNCHANGED revs \/ CreateRev(First(t)))
    BY <1>4 DEF CreateFirst, CreateAs, Refuse
  <2>2. First(t) \in Keys /\ First(t).pkg = t /\ Owned(t) = {}
    BY <1>1, <2>1, SyncKeys DEF AllInv, NumInv, NumInvAt, Known, SyncPCs
  <2>3. QED
    BY <1>2, <1>3, <2>1, <2>2
<1>5. CASE CreateNext(t)
  <2>1. /\ pc[t] = "createNext" /\ w[t].sel.num < MaxRev
        /\ UNCHANGED revs \/ CreateRev(Successor(t))
    BY <1>5 DEF CreateNext, CreateAs, Refuse
  <2>2. /\ Successor(t) \in Keys /\ Successor(t).pkg = t
        /\ Successor(t).num = w[t].sel.num + 1
    BY <1>1, <2>1, SyncKeys
  <2>3. \A j \in Owned(t) : j.num <= w[t].sel.num /\ j.num \in Nat
    BY <2>1 DEF AllInv, NumInv, NumInvAt, Known, Owned, Keys
  <2>4. w[t].sel.num \in Nat
    BY <1>1, <2>1 DEF TypeInv, SelInv, LocInv, SelPCs, Keys
  <2>5. \A j \in Owned(t) : j.num < Successor(t).num
    BY <2>2, <2>3, <2>4
  <2>6. QED
    BY <1>2, <1>3, <2>1, <2>2, <2>5
<1>6. QED
  BY <1>4, <1>5

\* Deletion: an owned revision goes only while the Tenant is being deleted,
\* however old the copy is that the worker deletes it for.
LEMMA StepDelete ==
    ASSUME AllInv, NEW t \in Tenants, PkgRevStep(t), DeleteOne(t)
    PROVE  SvcStep
<1>1. /\ TypeInv /\ UNCHANGED log /\ budget'.drift = budget.drift /\ LogTypeOK
      /\ revs \in [Keys -> Revs] /\ pc[t] \in DeletePCs
      /\ w[t].todo \subseteq {k \in Keys : k.pkg = t}
  BY PkgRevBudget
  DEF AllInv, PkgRevStep, TypeInv, TypeOK, PorchTypeOK, SelInv, LocInv, DeleteOne, DeletePCs
<1>2. CASE UNCHANGED revs
  BY <1>1, <1>2, Hidden DEF SvcStep
<1>3. ASSUME NEW k \in w[t].todo, DeleteRev(k)
      PROVE  SvcStep
  <2>1. k \in Keys /\ k.pkg = t
    BY <1>1
  <2>2. CASE UNCHANGED revBar
    BY <1>1, <2>1, <2>2, StepRevision
  <2>3. CASE revs[k].own /\ Service!Drop(k)
    <3>1. k \in Owned(t)
      BY <1>3, <2>1, <2>3 DEF Owned, DeleteRev
    <3>2. Current(t).fin /\ Current(t) \in Versions
      BY <1>1, <3>1, CurrentType DEF AllInv, OrphanInv, Holding
    <3>3. Current(t).del
      BY <1>1, <3>2 DEF AllInv, DoomInv, Entitled
    <3>4. Current(t).live
      BY <1>1, <3>2, CurrentType DEF TypeInv, LogInv, Current, Gone
    <3>5. phaseBar[k.pkg] = "removing"
      BY <2>1, <3>2, <3>3, <3>4, Phases, PhaseAt
    <3>6. QED
      BY <1>1, <2>1, <2>3, <3>5, StepRevision
  <2>4. QED
    BY <1>1, <1>3, <2>1, <2>2, <2>3, DeleteStep
<1>4. QED
  BY <1>2, <1>3 DEF DeleteOne, Refuse

\* Filling, proposing and approving the selected revision.
LEMMA StepSelected ==
    ASSUME AllInv, NEW t \in Tenants, PkgRevStep(t),
           UpdateResources(t) \/ Propose(t) \/ ApprovalPut(t)
    PROVE  SvcStep
<1>1. /\ TypeInv /\ UNCHANGED log /\ budget'.drift = budget.drift
      /\ revs \in [Keys -> Revs] /\ NoOwnMain
  BY PkgRevBudget, CleanMain DEF AllInv, PkgRevStep, TypeInv, TypeOK, PorchTypeOK
<1>2. pc[t] \in SelPCs /\ pc[t] \in SyncPCs \ {"srcList", "srcGet"}
  BY DEF UpdateResources, Propose, ApprovalPut, SelPCs, ApprovePCs, SyncPCs
<1>3. w[t].sel \in Keys /\ w[t].sel.num > 0 /\ w[t].want \in Bodies
  BY <1>1, <1>2 DEF TypeInv, SelInv, LocInv
<1>4. CASE UNCHANGED revs
  BY <1>1, <1>4, Hidden DEF SvcStep
<1>5. CASE PutResources(w[t].sel, w[t].want)
  BY <1>1, <1>3, <1>5, PutStep, StepRevision
<1>6. CASE Propose(t) /\ ProposeRev(w[t].sel)
  <2>1. revs[w[t].sel].body # InitBody
    BY <1>3, <1>6 DEF AllInv, FillInv, Filled, Propose, ProposeRev, Exists, ApprovePCs
  <2>2. QED
    BY <1>1, <1>3, <1>6, <2>1, ProposeStep, StepRevision
<1>7. CASE ApproveRev(w[t].sel)
  BY <1>1, <1>3, <1>7, PublishStep, StepRevision
<1>8. QED
  BY <1>4, <1>5, <1>6, <1>7 DEF UpdateResources, Propose, ApprovalPut, Refuse

LEMMA StepPkgRev ==
    ASSUME AllInv, NEW t \in Tenants, PkgRevStep(t)
    PROVE  SvcStep
<1>1. UNCHANGED log /\ budget'.drift = budget.drift
  BY PkgRevBudget DEF AllInv, PkgRevStep
<1>2. CASE UNCHANGED revs
  BY <1>1, <1>2, Hidden DEF SvcStep
<1>3. CASE \/ DeleteList(t) \/ List(t) \/ GetResources(t) \/ GetNewResources(t)
           \/ ApproveGet(t) \/ ApprovalGet(t)
  BY <1>2, <1>3 DEF DeleteList, List, GetResources, GetNewResources, ApproveGet, ApprovalGet, Refuse
<1>4. QED
  BY <1>3, StepCreate, StepDelete, StepSelected DEF PkgRevStep

\* Other clients interfere within the life cycle of a revision.
LEMMA StepDrift ==
    ASSUME AllInv, Drift
    PROVE  SvcStep
<1>1. /\ revs \in [Keys -> Revs] /\ NoOwnMain /\ UNCHANGED log
      /\ budget \in Budgets /\ Spend("drift")
  BY CleanMain DEF AllInv, TypeInv, TypeOK, PorchTypeOK, WorkerTypeOK, Drift
<1>2. /\ othersBar > 0 /\ othersBar' = othersBar - 1
      /\ UNCHANGED phaseBar /\ UNCHANGED policyBar
  BY <1>1 DEF othersBar, Spend, Budgets, phaseBar, policyBar, GetDeletionPolicy, Current
<1>3. PICK k \in Keys : DriftRev(k)
  BY DEF Drift
<1>4. \/ UNCHANGED revBar
      \/ Service!Fill(k) \/ Service!Propose(k) \/ Service!Reject(k) \/ Service!Publish(k)
      \/ Service!Drop(k)
  <2>1. CASE \E b \in Bodies : PutResources(k, b)
    BY <1>1, <2>1, PutStep
  <2>2. CASE revs[k].body # InitBody /\ ProposeRev(k)
    BY <1>1, <2>2, ProposeStep
  <2>3. CASE revs[k].lc = "Proposed" /\ revs' = [revs EXCEPT ![k].lc = "Draft"]
    BY <1>1, <2>3, RejectStep
  <2>4. CASE k.num > 0 /\ ApproveRev(k)
    BY <1>1, <2>4, PublishStep
  <2>5. CASE DeleteRev(k)
    BY <1>1, <2>5, DeleteStep
  <2>6. ASSUME NEW b \in Bodies, ~Exists(k),
               revs' = [revs EXCEPT ![k] = [lc |-> "Draft", body |-> b, own |-> FALSE]]
        PROVE  UNCHANGED revBar
    <3>1. ~revs[k].own
      BY <2>6 DEF AllInv, CleanInv, Exists
    <3>2. ~revs'[k].own /\ \A j \in Keys \ {k} : revs'[j] = revs[j]
      BY <1>1, <2>6
    <3>3. OwnRev(revs'[k]) = OwnRev(revs[k])
      BY <3>1, <3>2, Zenon DEF OwnRev
    <3>4. QED
      BY <3>2, <3>3, BarSame
  <2>7. QED
    BY <1>3, <2>1, <2>2, <2>3, <2>4, <2>5, <2>6 DEF DriftRev
<1>5. Service!Interfere
  BY <1>2, <1>4, Zenon DEF Service!Interfere
<1>6. QED
  BY <1>5 DEF SvcStep, Service!SvcNext

LEMMA StepNext ==
    ASSUME AllInv, [Next]_vars
    PROVE  SvcStep
<1>1. budget \in Budgets
  BY DEF AllInv, TypeInv, TypeOK, WorkerTypeOK
<1>2. ASSUME UNCHANGED <<log, revs>>,
             UNCHANGED budget \/ Spend("fault") \/ Spend("source")
      PROVE  SvcStep
  BY <1>1, <1>2, SpendDrift, Hidden DEF SvcStep
<1>3. CASE UNCHANGED vars \/ Crash \/ SourceStep
  BY <1>2, <1>3 DEF vars, Crash, Restart, SourceStep, ChangeSource
<1>4. ASSUME NEW t \in Tenants, Observe(t) \/ Fire(t) \/ Begin(t) \/ Panic(t) \/ CallFails(t)
      PROVE  SvcStep
  BY <1>2, <1>4 DEF Observe, Fire, Begin, Panic, Restart, CallFails
<1>5. ASSUME NEW t \in Tenants, Call(t)
      PROVE  SvcStep
  <2>1. CASE SourceList(t) \/ SourceGet(t)
    BY <1>2, <2>1 DEF SourceList, SourceGet
  <2>2. QED
    BY <1>5, <2>1, StepAddFinalizer, StepRemoveFinalizer, StepSetStatus, StepPkgRev DEF Call
<1>6. QED
  BY <1>3, <1>4, <1>5, StepUser, StepDrift DEF Next

LEMMA AllNext ==
    ASSUME ~PorchMayVanish, AllInv, [Next]_vars
    PROVE  AllInv'
BY TypeNext, OrphanNext, FillNext, NumNext, DoomNext, CleanNext DEF AllInv

LEMMA AllInit == Init => AllInv
<1>1. Init => CleanInv
  BY DEF Init, PorchInit, CleanInv, NoRev
<1>2. QED
  BY <1>1, TypeInit, OrphanInit, FillInit, NumInit, DoomInit DEF AllInv

LEMMA InitStep == Init => Service!SvcInit
<1> SUFFICES ASSUME Init
             PROVE  Service!SvcInit
  OBVIOUS
<1>1. phaseBar = [t \in Tenants |-> "absent"]
  <2>1. \A t \in Tenants : Current(t) = Gone
    BY DEF Init, LogInit, Current
  <2>2. PhaseOf(Gone) = "absent"
    BY GoneType, Phases DEF Gone
  <2>3. QED
    BY <2>1, <2>2 DEF phaseBar
<1>2. revBar = [k \in Keys |-> Service!Nothing]
  <2>1. OwnRev(NoRev) = Service!Nothing
    BY DEF OwnRev, NoRev, Service!Nothing
  <2>2. QED
    BY <2>1 DEF revBar, Init, PorchInit
<1>3. othersBar = MaxDrift
  BY DEF Init, WorkerInit, othersBar
<1>4. policyBar = [t \in Tenants |-> "delete"]
  <2>1. \A t \in Tenants : GetDeletionPolicy(t) = "delete"
    BY DEF Init, LogInit, GetDeletionPolicy, Current, Gone
  <2>2. QED
    BY <2>1 DEF policyBar
<1>5. QED
  BY <1>1, <1>2, <1>3, <1>4 DEF Service!SvcInit

\* As long as lists do not answer NotFound, the controller implements the
\* service, whatever the users, other clients, failures and crashes do: Tenants
\* with deletion policy "delete" are released clean, an owned revision is created
\* under the finalizer with a new number, changes only along its life cycle, and
\* goes only with its Tenant or at the hands of another client.
THEOREM RefinementCorrect ==
    ASSUME ~PorchMayVanish
    PROVE  Spec => ImplementsService
<1>1. Spec => []AllInv
  BY AllInit, AllNext, PTL DEF Spec
<1>2. AllInv /\ [Next]_vars => [Service!SvcNext]_(Service!svcVars)
  BY StepNext DEF SvcStep
<1>3. QED
  BY InitStep, <1>1, <1>2, PTL DEF Spec, ImplementsService, Service!SvcSpec
=============================================================================
