-------------------------- MODULE OperationalBinding --------------------------
(***************************************************************************)
(* One operational dataset of a workspace, its reviewed draft and its       *)
(* runtime binding.                                                         *)
(*                                                                          *)
(* The routes run transactions that lock the dataset's row, and between     *)
(* two of them ask MotherDuck for the live columns or for rows.  A database *)
(* trigger vetoes a lifecycle or binding transition it does not know: the   *)
(* transaction then rolls back and the request sees an error.               *)
(***************************************************************************)
EXTENDS Integers, FiniteSets

CONSTANTS
    Activators,  \* requests to activate the draft
    Binders,     \* requests to bind the runtime
    Queries,     \* requests to query it
    MaxDrafts    \* bound on the drafts stored, one after another

ASSUME RequestAssumption ==
    /\ Activators \cap Binders = {} /\ Activators \cap Queries = {} /\ Binders \cap Queries = {}
ASSUME DraftAssumption == MaxDrafts \in Nat

Requests == Activators \cup Binders \cup Queries

Lifecycle == {"absent", "reviewed", "binding", "ready", "degraded", "archived"}
BindingState == {"none", "binding", "ready", "degraded", "revoked"}

\* What reconcileRuntimeColumns says of the live columns; the first two are
\* readyEligible, and the only values of the column reconciliation_status.
Eligible == {"exact", "acknowledged-variance"}
Reconciliation == Eligible \cup {"variance"}
Status == Eligible \cup {"null"}

\* "abandoned": the request died with a binding begun, or before degrading one.
Phase == {"idle", "compiled", "loaded", "begun", "inspected", "failing", "querying", "done",
          "dead", "abandoned"}

VARIABLES
    draft,        \* dataset_draft_id of the stored draft, 0 when deleted
    drafts,       \* ids given so far
    lifecycle,    \* operational_dataset.lifecycle_state
    source,       \* operational_dataset.dataset_draft_id
    binding,      \* operational_dataset_binding.binding_state
    status,       \* reconciliation_status
    fingerprint,  \* reconciliation_fingerprint and reconciled_at are set
    phase,        \* where a request stands
    held,         \* the draft an activation compiled
    result        \* the reconciliation a bind request computed

draftVars == <<draft, drafts>>
bindingVars == <<binding, status, fingerprint>>
requestVars == <<phase, held, result>>
vars == <<draftVars, lifecycle, source, bindingVars, requestVars>>

TypeOK ==
    /\ draft \in 0..MaxDrafts /\ drafts \in 0..MaxDrafts
    /\ lifecycle \in Lifecycle
    /\ source \in 0..MaxDrafts
    /\ binding \in BindingState
    /\ status \in Status
    /\ fingerprint \in BOOLEAN
    /\ phase \in [Requests -> Phase]
    /\ held \in [Activators -> 0..MaxDrafts]
    /\ result \in [Binders -> Reconciliation]

Init ==
    /\ draft = 0 /\ drafts = 0
    /\ lifecycle = "absent" /\ source = 0
    /\ binding = "none" /\ status = "null" /\ fingerprint = FALSE
    /\ phase = [h \in Requests |-> "idle"]
    /\ held = [a \in Activators |-> 0]
    /\ result = [b \in Binders |-> "variance"]   \* unread before "inspected"

-----------------------------------------------------------------------------
(* The triggers. *)

\* guard_operational_dataset_update, and a trigger that vetoes nothing.
NoVeto(old, new) == TRUE
LifecycleAllows(old, new) ==
    \/ old = new
    \/ old = "reviewed" /\ new \in {"binding", "archived"}
    \/ old = "binding" /\ new \in {"ready", "degraded", "archived"}
    \/ old = "ready" /\ new \in {"degraded", "archived"}
    \/ old = "degraded" /\ new \in {"binding", "ready", "archived"}

\* guard_operational_dataset_binding_update.  A status that is NULL passes its
\* NOT IN test, a fingerprint that is NULL does not.
BindingAllows(old, new, f) ==
    /\ \/ old = new
       \/ old = "binding" /\ new \in {"ready", "degraded", "revoked"}
       \/ old = "ready" /\ new \in {"degraded", "revoked"}
       \/ old = "degraded" /\ new \in {"binding", "ready", "revoked"}
    /\ new = "ready" => f

-----------------------------------------------------------------------------
Becomes(h, p) == phase' = [phase EXCEPT ![h] = p]

\* UPDATE ... SET binding_state WHERE binding_state <> 'revoked' finds a row.
Bound == binding \notin {"none", "revoked"}

\* The transition of both rows in one transaction that the triggers let pass.
Transition(b, s, f, l) ==
    /\ BindingAllows(binding, b, f) /\ LifecycleAllows(lifecycle, l)
    /\ binding' = b /\ status' = s /\ fingerprint' = f
    /\ lifecycle' = l

\* reconciliation_status of a finished reconciliation; one that is not stored.
StatusForgotten(v) == "null"
StatusOf(v) == IF v \in Eligible THEN v ELSE "null"

\* The state a revocation leaves the dataset in; a dataset it leaves alone.
UnchangedLifecycle == lifecycle
RevokedLifecycle == "degraded"

\* A draft's id is referenced by its dataset: ON DELETE RESTRICT.
DraftDeletable == lifecycle = "absent" \/ source # draft

\* What a bind request does on an error; one that only reports it.
Reported == "done"
AfterError == "failing"

-----------------------------------------------------------------------------
(* Drafts and activation. *)

\* A contract that is stored already is returned as it is.
CreateDatasetDraft ==
    /\ draft = 0 /\ drafts < MaxDrafts
    /\ draft' = drafts + 1 /\ drafts' = drafts + 1
    /\ UNCHANGED <<lifecycle, source, bindingVars, requestVars>>

DeleteDatasetDraft ==
    /\ draft # 0 /\ DraftDeletable
    /\ draft' = 0
    /\ UNCHANGED <<drafts, lifecycle, source, bindingVars, requestVars>>

\* The draft is read and compiled into a candidate.
CompileCandidate(a) ==
    /\ phase[a] = "idle" /\ draft # 0
    /\ Becomes(a, "compiled")
    /\ held' = [held EXCEPT ![a] = draft]
    /\ UNCHANGED <<draftVars, lifecycle, source, bindingVars, result>>

\* The draft is looked up again and locked.  A dataset of the same contract is
\* returned, or is a conflict when it was activated from another draft.
ActivateOperationalDataset(a) ==
    /\ phase[a] = "compiled"
    /\ IF draft # 0 /\ draft = held[a] /\ lifecycle = "absent"
       THEN lifecycle' = "reviewed" /\ source' = draft
       ELSE UNCHANGED <<lifecycle, source>>
    /\ Becomes(a, "done")
    /\ UNCHANGED <<draftVars, bindingVars, held, result>>

-----------------------------------------------------------------------------
(* POST /api/datasets/[datasetId]/runtime, action "bind". *)

GetOperationalDataset(b) ==
    /\ phase[b] = "idle" /\ lifecycle # "absent"
    /\ Becomes(b, "loaded")
    /\ UNCHANGED <<draftVars, lifecycle, source, bindingVars, held, result>>

\* 404 when archived, a conflict when revoked.
BindRefused(b) ==
    /\ phase[b] = "loaded"
    /\ lifecycle = "archived" \/ binding = "revoked"
    /\ Becomes(b, "done")
    /\ UNCHANGED <<draftVars, lifecycle, source, bindingVars, held, result>>

\* A ready binding is kept as it is, any other starts over.
BeginOperationalRuntimeBinding(b) ==
    /\ phase[b] = "loaded"
    /\ lifecycle \in {"reviewed", "binding", "degraded", "ready"} /\ binding # "revoked"
    /\ LET kept == IF lifecycle = "ready" THEN "ready" ELSE "binding" IN
       CASE binding = "ready" -> Transition("ready", status, fingerprint, kept)
         [] binding = "none" -> /\ binding' = "binding"
                                /\ LifecycleAllows(lifecycle, kept) /\ lifecycle' = kept
                                /\ UNCHANGED <<status, fingerprint>>
         [] OTHER -> Transition("binding", "null", FALSE, kept)
    /\ Becomes(b, "begun")
    /\ UNCHANGED <<draftVars, source, held, result>>

\* The live columns arrive and are reconciled with the reviewed contract.
Inspect(b) ==
    /\ phase[b] = "begun"
    /\ \E v \in Reconciliation : result' = [result EXCEPT ![b] = v]
    /\ Becomes(b, "inspected")
    /\ UNCHANGED <<draftVars, lifecycle, source, bindingVars, held>>

FinalizeOperationalRuntimeBinding(b) ==
    /\ phase[b] = "inspected" /\ Bound
    /\ LET state == IF result[b] \in Eligible THEN "ready" ELSE "degraded"
       IN  Transition(state, StatusOf(result[b]), TRUE, state)
    /\ Becomes(b, "done")
    /\ UNCHANGED <<draftVars, source, held, result>>

\* 409: revoked in the meantime.
FinalizeFindsNothing(b) ==
    /\ phase[b] = "inspected" /\ ~Bound
    /\ Becomes(b, "done")
    /\ UNCHANGED <<draftVars, lifecycle, source, bindingVars, held, result>>

\* MotherDuck, the database or a trigger raised: the catch block degrades.
BindRaises(b) ==
    /\ phase[b] \in {"begun", "inspected"}
    /\ Becomes(b, AfterError)
    /\ UNCHANGED <<draftVars, lifecycle, source, bindingVars, held, result>>

\* The degradation of a failed bind or query request.
DegradeOperationalRuntimeBinding(h) ==
    /\ phase[h] = "failing"
    /\ \/ Bound /\ Transition("degraded", status, fingerprint, "degraded")
       \/ ~Bound /\ UNCHANGED <<bindingVars, lifecycle>>
    /\ Becomes(h, "done")
    /\ UNCHANGED <<draftVars, source, held, result>>

-----------------------------------------------------------------------------
(* POST .../query, POST .../runtime "revoke", PATCH and crashes. *)

GetOperationalRuntimeContext(q) ==
    /\ phase[q] = "idle"
    /\ lifecycle = "ready" /\ binding = "ready"
    /\ Becomes(q, "querying")
    /\ UNCHANGED <<draftVars, lifecycle, source, bindingVars, held, result>>

\* The rows, or a request outside the policy: neither changes a state.
QueryAnswered(q) ==
    /\ phase[q] = "querying"
    /\ Becomes(q, "done")
    /\ UNCHANGED <<draftVars, lifecycle, source, bindingVars, held, result>>

QueryRaises(q) ==
    /\ phase[q] = "querying"
    /\ Becomes(q, "failing")
    /\ UNCHANGED <<draftVars, lifecycle, source, bindingVars, held, result>>

\* A second revocation finds the row revoked and changes nothing.
RevokeOperationalRuntimeBinding ==
    /\ Bound
    /\ Transition("revoked", status, fingerprint, RevokedLifecycle)
    /\ UNCHANGED <<draftVars, source, requestVars>>

ArchiveOperationalDataset ==
    /\ lifecycle \notin {"absent", "archived"}
    /\ LifecycleAllows(lifecycle, "archived")
    /\ lifecycle' = "archived"
    /\ UNCHANGED <<draftVars, source, bindingVars, requestVars>>

\* A crash, or an error nobody catches (the degradation's own included).
RequestDies(h) ==
    /\ phase[h] \notin {"idle", "done", "dead", "abandoned"}
    /\ Becomes(h, IF phase[h] \in {"begun", "inspected", "failing"} THEN "abandoned" ELSE "dead")
    /\ UNCHANGED <<draftVars, lifecycle, source, bindingVars, held, result>>

-----------------------------------------------------------------------------
BindStep(b) ==
    \/ GetOperationalDataset(b)
    \/ BindRefused(b)
    \/ BeginOperationalRuntimeBinding(b)
    \/ Inspect(b)
    \/ FinalizeOperationalRuntimeBinding(b)
    \/ FinalizeFindsNothing(b)
    \/ BindRaises(b)
    \/ DegradeOperationalRuntimeBinding(b)

QueryStep(q) ==
    \/ GetOperationalRuntimeContext(q)
    \/ QueryAnswered(q)
    \/ QueryRaises(q)
    \/ DegradeOperationalRuntimeBinding(q)

Next ==
    \/ CreateDatasetDraft \/ DeleteDatasetDraft
    \/ \E a \in Activators : CompileCandidate(a) \/ ActivateOperationalDataset(a)
    \/ \E b \in Binders : BindStep(b)
    \/ \E q \in Queries : QueryStep(q)
    \/ RevokeOperationalRuntimeBinding
    \/ ArchiveOperationalDataset
    \/ \E h \in Requests : RequestDies(h)

Spec == Init /\ [][Next]_vars

-----------------------------------------------------------------------------
(* What the two rows promise. *)

\* The two rows agree in every interleaving of binds, failures, queries and
\* revocations, until the dataset is archived.
LifecycleFollowsBinding ==
    lifecycle # "archived" =>
        /\ lifecycle \in {"absent", "reviewed"} <=> binding = "none"
        /\ lifecycle = "binding" <=> binding = "binding"
        /\ lifecycle = "ready" <=> binding = "ready"
        /\ lifecycle = "degraded" <=> binding \in {"degraded", "revoked"}

\* A ready binding carries the successful reconciliation that made it ready,
\* which the trigger alone would not insist on.
ReadyIsReconciled ==
    binding = "ready" => status \in Eligible /\ fingerprint

\* Revoked bindings and archived datasets stay so, whatever late requests do.
TerminalStatesHold ==
    [][/\ binding = "revoked" => binding' = "revoked"
       /\ lifecycle = "archived" => lifecycle' = "archived" /\ binding' = binding]_vars

\* A dataset that says binding has a bind request at work on it, or one
\* that died before it could say otherwise.
BindingHasBinder ==
    lifecycle = "binding" =>
        \E b \in Binders : phase[b] \in {"begun", "inspected", "failing", "abandoned"}

\* The draft a dataset was activated from stays, as its evidence.
ActivatedDraftKept == lifecycle # "absent" => draft # 0 /\ source = draft

\* Dataset, draft and bind requests agree with one another.
RecordsAgree == TypeOK /\ BindingHasBinder /\ ActivatedDraftKept
=============================================================================
