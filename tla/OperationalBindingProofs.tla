----------------------- MODULE OperationalBindingProofs -----------------------
(***************************************************************************)
(* The two rows of an operational dataset agree, for every set of requests. *)
(* RowsInv is inductive: what each transaction reads of one row tells what  *)
(* the other says, because every transaction writes both or neither.        *)
(***************************************************************************)
EXTENDS OperationalBinding, TLAPS

USE RequestAssumption, DraftAssumption

RowsInv ==
    /\ TypeOK
    /\ LifecycleFollowsBinding
    /\ ReadyIsReconciled
    /\ ActivatedDraftKept
    /\ BindingHasBinder

\* The rows and drafts are as they were.
SameRows == UNCHANGED <<draftVars, lifecycle, source, bindingVars>>

\* The request is in no phase that answers for a binding.
Working == {"begun", "inspected", "failing", "abandoned"}

-----------------------------------------------------------------------------
(* A request's phase is a phase, and the other requests keep theirs.        *)
LEMMA BecomesTyped ==
    ASSUME TypeOK, NEW h \in Requests, NEW p \in Phase, Becomes(h, p)
    PROVE  /\ phase' \in [Requests -> Phase]
           /\ phase'[h] = p
           /\ \A g \in Requests \ {h} : phase'[g] = phase[g]
BY DEF TypeOK, Becomes

(* A step that leaves the rows alone keeps what they say; the binder that   *)
(* answers for a binding does so after it, too.                             *)
LEMMA SameRowsKeep ==
    ASSUME RowsInv, TypeOK', SameRows,
           \A b \in Binders : phase[b] \in Working => phase'[b] \in Working \/ lifecycle # "binding"
    PROVE  RowsInv'
<1>1. LifecycleFollowsBinding' /\ ReadyIsReconciled' /\ ActivatedDraftKept'
  BY DEF RowsInv, SameRows, draftVars, bindingVars, LifecycleFollowsBinding, ReadyIsReconciled,
     ActivatedDraftKept
<1>2. BindingHasBinder'
  BY DEF RowsInv, SameRows, BindingHasBinder, Working
<1> QED
  BY <1>1, <1>2 DEF RowsInv

(* Every step keeps the types.                                              *)
LEMMA TypeKept == TypeOK /\ [Next]_vars => TypeOK'
<1> SUFFICES ASSUME TypeOK, [Next]_vars PROVE TypeOK'
  OBVIOUS
<1> \A p \in {"idle", "compiled", "loaded", "begun", "inspected", "failing", "querying", "done",
              "dead", "abandoned"} : p \in Phase
  BY DEF Phase
<1> \A s \in {"none", "binding", "ready", "degraded", "revoked"} : s \in BindingState
  BY DEF BindingState
<1> \A l \in {"reviewed", "binding", "ready", "degraded", "archived"} : l \in Lifecycle
  BY DEF Lifecycle
<1> "null" \in Status /\ \A v \in Reconciliation : StatusOf(v) \in Status
  BY DEF Status, StatusOf
<1> USE BecomesTyped DEF TypeOK, draftVars, bindingVars, requestVars, Requests
<1>1. ASSUME NEW a \in Activators, CompileCandidate(a) \/ ActivateOperationalDataset(a)
      PROVE  TypeOK'
  BY <1>1 DEF CompileCandidate, ActivateOperationalDataset
<1>2. ASSUME NEW b \in Binders,
             \/ GetOperationalDataset(b) \/ BindRefused(b) \/ Inspect(b)
             \/ FinalizeFindsNothing(b) \/ BindRaises(b)
      PROVE  TypeOK'
  BY <1>2 DEF GetOperationalDataset, BindRefused, Inspect, FinalizeFindsNothing, BindRaises, AfterError
<1>3. ASSUME NEW b \in Binders, BeginOperationalRuntimeBinding(b)
      PROVE  TypeOK'
  BY <1>3 DEF BeginOperationalRuntimeBinding, Transition
<1>4. ASSUME NEW b \in Binders, FinalizeOperationalRuntimeBinding(b)
      PROVE  TypeOK'
  BY <1>4 DEF FinalizeOperationalRuntimeBinding, Transition
<1>5. ASSUME NEW h \in Requests, DegradeOperationalRuntimeBinding(h)
      PROVE  TypeOK'
  BY <1>5 DEF DegradeOperationalRuntimeBinding, Transition
<1>6. ASSUME NEW q \in Queries,
             GetOperationalRuntimeContext(q) \/ QueryAnswered(q) \/ QueryRaises(q)
      PROVE  TypeOK'
  BY <1>6 DEF GetOperationalRuntimeContext, QueryAnswered, QueryRaises
<1>7. CASE CreateDatasetDraft \/ DeleteDatasetDraft
  BY <1>7 DEF CreateDatasetDraft, DeleteDatasetDraft
<1>8. CASE RevokeOperationalRuntimeBinding \/ ArchiveOperationalDataset
  BY <1>8 DEF RevokeOperationalRuntimeBinding, ArchiveOperationalDataset, Transition, RevokedLifecycle
<1>9. ASSUME NEW h \in Requests, RequestDies(h)
      PROVE  TypeOK'
  BY <1>9 DEF RequestDies
<1>10. CASE UNCHANGED vars
  BY <1>10 DEF vars
<1> QED
  BY <1>1, <1>2, <1>3, <1>4, <1>5, <1>6, <1>7, <1>8, <1>9, <1>10 DEF Next, BindStep, QueryStep

(* The transactions that move the rows.                                     *)
LEMMA BeginKeeps ==
    ASSUME RowsInv, TypeOK', NEW b \in Binders, BeginOperationalRuntimeBinding(b)
    PROVE  RowsInv'
<1> USE DEF RowsInv, BeginOperationalRuntimeBinding, Transition, draftVars
<1>1. LifecycleFollowsBinding'
  BY DEF LifecycleFollowsBinding
<1>2. ReadyIsReconciled'
  BY DEF ReadyIsReconciled
<1>3. ActivatedDraftKept'
  BY DEF ActivatedDraftKept
<1>4. BindingHasBinder'
  BY DEF BindingHasBinder, Becomes, TypeOK, Requests
<1> QED
  BY <1>1, <1>2, <1>3, <1>4

LEMMA FinalizeKeeps ==
    ASSUME RowsInv, TypeOK', NEW b \in Binders, FinalizeOperationalRuntimeBinding(b)
    PROVE  RowsInv'
<1> USE DEF RowsInv, FinalizeOperationalRuntimeBinding, Transition, draftVars
<1>1. LifecycleFollowsBinding'
  BY DEF LifecycleFollowsBinding
<1>2. ReadyIsReconciled'
  BY DEF ReadyIsReconciled, StatusOf
<1>3. ActivatedDraftKept'
  BY DEF ActivatedDraftKept, LifecycleFollowsBinding, Bound
<1>4. BindingHasBinder'
  BY DEF BindingHasBinder
<1> QED
  BY <1>1, <1>2, <1>3, <1>4

LEMMA DegradeKeeps ==
    ASSUME RowsInv, TypeOK', NEW h \in Requests, DegradeOperationalRuntimeBinding(h)
    PROVE  RowsInv'
<1>1. CASE Bound
  <2> USE DEF RowsInv, DegradeOperationalRuntimeBinding, Transition, draftVars
  <2>1. LifecycleFollowsBinding' /\ ReadyIsReconciled' /\ BindingHasBinder'
    BY <1>1 DEF LifecycleFollowsBinding, ReadyIsReconciled, BindingHasBinder
  <2>2. ActivatedDraftKept'
    BY <1>1 DEF ActivatedDraftKept, LifecycleFollowsBinding, Bound
  <2> QED
    BY <2>1, <2>2
<1>2. CASE ~Bound
  <2>1. SameRows /\ lifecycle # "binding"
    BY <1>2 DEF SameRows, DegradeOperationalRuntimeBinding, Bound, RowsInv, LifecycleFollowsBinding
  <2> QED
    BY <2>1, SameRowsKeep
<1> QED
  BY <1>1, <1>2

LEMMA OwnerKeeps ==
    ASSUME RowsInv, TypeOK', RevokeOperationalRuntimeBinding \/ ArchiveOperationalDataset
    PROVE  RowsInv'
BY DEF RowsInv, RevokeOperationalRuntimeBinding, ArchiveOperationalDataset, Transition, Bound,
   RevokedLifecycle, draftVars, bindingVars, requestVars, LifecycleFollowsBinding,
   ReadyIsReconciled, ActivatedDraftKept, BindingHasBinder

(* A dataset comes from a stored draft, which is then restricted.           *)
LEMMA DraftKeeps ==
    ASSUME RowsInv, TypeOK',
           \/ CreateDatasetDraft \/ DeleteDatasetDraft
           \/ \E a \in Activators : ActivateOperationalDataset(a)
    PROVE  RowsInv'
<1>1. CASE CreateDatasetDraft \/ DeleteDatasetDraft
  BY <1>1 DEF RowsInv, CreateDatasetDraft, DeleteDatasetDraft, DraftDeletable, bindingVars,
     requestVars, LifecycleFollowsBinding, ReadyIsReconciled, ActivatedDraftKept, BindingHasBinder
<1>2. ASSUME NEW a \in Activators, ActivateOperationalDataset(a) PROVE RowsInv'
  <2>1. \A b \in Binders : phase'[b] = phase[b]
    BY <1>2 DEF ActivateOperationalDataset, Becomes, RowsInv, TypeOK, Requests
  <2>2. CASE draft # 0 /\ draft = held[a] /\ lifecycle = "absent"
    BY <1>2, <2>2 DEF ActivateOperationalDataset, RowsInv, draftVars, bindingVars,
       LifecycleFollowsBinding, ReadyIsReconciled, ActivatedDraftKept, BindingHasBinder
  <2>3. CASE ~(draft # 0 /\ draft = held[a] /\ lifecycle = "absent")
    BY <1>2, <2>1, <2>3, SameRowsKeep DEF ActivateOperationalDataset, SameRows, draftVars
  <2> QED
    BY <2>2, <2>3
<1> QED
  BY <1>1, <1>2

(* Requests that only wait, answer or die.                                  *)
LEMMA RequestKeeps ==
    ASSUME RowsInv, TypeOK',
           \/ \E a \in Activators : CompileCandidate(a)
           \/ \E b \in Binders : \/ GetOperationalDataset(b) \/ BindRefused(b) \/ Inspect(b)
                                 \/ FinalizeFindsNothing(b) \/ BindRaises(b)
           \/ \E q \in Queries : GetOperationalRuntimeContext(q) \/ QueryAnswered(q) \/ QueryRaises(q)
           \/ \E h \in Requests : RequestDies(h)
    PROVE  RowsInv'
<1> USE DEF RowsInv, TypeOK, Becomes, Requests, Working
<1>1. SameRows
  BY DEF SameRows, CompileCandidate, GetOperationalDataset, BindRefused, Inspect,
     FinalizeFindsNothing, BindRaises, GetOperationalRuntimeContext, QueryAnswered, QueryRaises,
     RequestDies, draftVars, bindingVars
<1>2. SUFFICES ASSUME NEW b \in Binders, phase[b] \in Working
               PROVE  phase'[b] \in Working \/ lifecycle # "binding"
  BY <1>1, SameRowsKeep
<1>3. CASE \E a \in Activators : CompileCandidate(a)
  BY <1>2, <1>3 DEF CompileCandidate
<1>4. ASSUME NEW c \in Binders,
             \/ GetOperationalDataset(c) \/ BindRefused(c) \/ Inspect(c) \/ BindRaises(c)
      PROVE  phase'[b] \in Working
  BY <1>2, <1>4 DEF GetOperationalDataset, BindRefused, Inspect, BindRaises, AfterError
<1>5. ASSUME NEW c \in Binders, FinalizeFindsNothing(c)
      PROVE  lifecycle # "binding"
  BY <1>5 DEF FinalizeFindsNothing, Bound, LifecycleFollowsBinding
<1>6. ASSUME NEW q \in Queries,
             GetOperationalRuntimeContext(q) \/ QueryAnswered(q) \/ QueryRaises(q)
      PROVE  phase'[b] \in Working
  BY <1>2, <1>6 DEF GetOperationalRuntimeContext, QueryAnswered, QueryRaises
<1>7. ASSUME NEW h \in Requests, RequestDies(h)
      PROVE  phase'[b] \in Working
  BY <1>2, <1>7 DEF RequestDies
<1> QED
  BY <1>3, <1>4, <1>5, <1>6, <1>7

-----------------------------------------------------------------------------
LEMMA InitRowsInv == Init => RowsInv
<1> SUFFICES ASSUME Init PROVE RowsInv
  OBVIOUS
<1>1. /\ "absent" \in Lifecycle /\ "none" \in BindingState /\ "null" \in Status
      /\ "idle" \in Phase /\ "variance" \in Reconciliation
  BY DEF Lifecycle, BindingState, Status, Phase, Reconciliation
<1>2. fingerprint \in BOOLEAN
  BY DEF Init
<1>3. TypeOK
  BY <1>1, <1>2 DEF Init, TypeOK
<1> QED
  BY <1>3 DEF Init, RowsInv, LifecycleFollowsBinding, ReadyIsReconciled, ActivatedDraftKept,
     BindingHasBinder

LEMMA NextRowsInv == RowsInv /\ [Next]_vars => RowsInv'
<1> SUFFICES ASSUME RowsInv, [Next]_vars PROVE RowsInv'
  OBVIOUS
<1>1. TypeOK'
  BY TypeKept DEF RowsInv
<1>2. CASE UNCHANGED vars
  BY <1>1, <1>2, SameRowsKeep DEF vars, SameRows, requestVars
<1>3. CASE Next
  BY <1>1, <1>3, BeginKeeps, FinalizeKeeps, DegradeKeeps, OwnerKeeps, DraftKeeps, RequestKeeps
     DEF Next, BindStep, QueryStep, Requests
<1> QED
  BY <1>2, <1>3

LEMMA RowsInvariance == Spec => []RowsInv
BY InitRowsInv, NextRowsInv, PTL DEF Spec

(* The dataset row and its binding row agree until the dataset is archived. *)
THEOREM RowsAgree == Spec => []LifecycleFollowsBinding
<1>1. RowsInv => LifecycleFollowsBinding
  BY DEF RowsInv
<1> QED
  BY <1>1, RowsInvariance, PTL

(* No binding is ready without the reconciliation that made it so.          *)
THEOREM ReadyWasReconciled == Spec => []ReadyIsReconciled
<1>1. RowsInv => ReadyIsReconciled
  BY DEF RowsInv
<1> QED
  BY <1>1, RowsInvariance, PTL

(* A dataset in binding has a request that answers for it, and one that is  *)
(* there keeps the draft it was activated from.                             *)
THEOREM DatasetsAccounted == Spec => []RecordsAgree
<1>1. RowsInv => RecordsAgree
  BY DEF RowsInv, RecordsAgree
<1> QED
  BY <1>1, RowsInvariance, PTL

(* Revoked and archived are final.                                          *)
THEOREM TerminalStatesAreFinal == Spec => TerminalStatesHold
<1> DEFINE Holds == /\ binding = "revoked" => binding' = "revoked"
                    /\ lifecycle = "archived" => lifecycle' = "archived" /\ binding' = binding
<1>1. [Next]_vars => [Holds]_vars
  BY DEF Holds, Next, BindStep, QueryStep, CreateDatasetDraft, DeleteDatasetDraft, CompileCandidate,
     ActivateOperationalDataset, GetOperationalDataset, BindRefused,
     BeginOperationalRuntimeBinding, Inspect, FinalizeOperationalRuntimeBinding,
     FinalizeFindsNothing, BindRaises, DegradeOperationalRuntimeBinding,
     GetOperationalRuntimeContext, QueryAnswered, QueryRaises, RevokeOperationalRuntimeBinding,
     ArchiveOperationalDataset, RequestDies, Transition, LifecycleAllows, BindingAllows, Bound,
     RevokedLifecycle, bindingVars
<1> QED
  BY <1>1, PTL DEF Spec, TerminalStatesHold
=============================================================================
