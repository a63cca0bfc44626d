------------------------- MODULE DuckDiveToolsProofs -------------------------
(***************************************************************************)
(* What the attempt flags of DuckDiveTools guarantee, for every set of      *)
(* calls and every number of steps: the attempts on one tool lie in one     *)
(* step of the model loop, and when a step repeats no tool there is one,    *)
(* and the plan it stored is final.                                         *)
(***************************************************************************)
EXTENDS DuckDiveTools, TLAPS

USE CallAssumption, StepAssumption

\* A call between its start and the await that precedes its flag.
Pending(c) == call[c] \in {"awaiting", "active"}

\* An open call belongs to the current step, so the next step has none.
StepInv ==
    \A c \in Calls : /\ stepOf[c] = 0 <=> call[c] = "unused"
                     /\ stepOf[c] <= step
                     /\ ~Settled(c) => stepOf[c] = step

\* A made attempt set its flag, and whoever may still set it, or did, is a
\* call of the same step.
FlagInv ==
    \A c \in made : /\ attempted[tool[c]]
                    /\ call[c] # "unused"
                    /\ \A d \in Calls : tool[c] = tool[d] /\ (d \in made \/ Pending(d))
                                           => stepOf[c] = stepOf[d]

ToolInv == TypeOK /\ StepInv /\ FlagInv

-----------------------------------------------------------------------------
LEMMA GoesTyped ==
    ASSUME TypeOK, NEW c \in Calls, NEW s \in CallState, Goes(c, s)
    PROVE  call' \in [Calls -> CallState]
BY DEF TypeOK, Goes

LEMMA CountedTyped ==
    ASSUME TypeOK, NEW c \in Calls, Counted(c)
    PROVE  made' \subseteq Calls /\ attempted' \in [Tools -> BOOLEAN]
BY DEF TypeOK, Counted

(* The type invariant is inductive. *)
LEMMA TypeKept == TypeOK /\ [Next]_vars => TypeOK'
<1> SUFFICES ASSUME TypeOK, [Next]_vars PROVE TypeOK'
  OBVIOUS
<1> USE GoesTyped, CountedTyped DEF TypeOK, loopVars, callVars, planVars, saveVars
<1> \A s \in {"awaiting", "active", "executing", "landed", "read", "settled"} : s \in CallState
  BY DEF CallState
<1>1. ASSUME NEW c \in Calls, NEW t \in Tools, CallTool(c, t) PROVE TypeOK'
  BY <1>1 DEF CallTool
<1>2. ASSUME NEW c \in Calls, RunIsActive(c) PROVE TypeOK'
  BY <1>2 DEF RunIsActive
<1>3. ASSUME NEW c \in Calls, PrepareReportUpdate(c) PROVE TypeOK'
  BY <1>3 DEF PrepareReportUpdate, StoredPlan
<1>4. ASSUME NEW c \in Calls, InspectData(c) PROVE TypeOK'
  BY <1>4 DEF InspectData
<1>5. ASSUME NEW c \in Calls, InspectionReturns(c) \/ RefuseSave(c) \/ SaveFails(c) PROVE TypeOK'
  BY <1>5 DEF InspectionReturns, RefuseSave, SaveFails
<1>6. ASSUME NEW c \in Calls, SaveDiveRevision(c) PROVE TypeOK'
  BY <1>6 DEF SaveDiveRevision
<1>7. ASSUME NEW c \in Calls, EditLands(c) PROVE TypeOK'
  BY <1>7 DEF EditLands
<1>8. ASSUME NEW c \in Calls, ReadRevision(c) PROVE TypeOK'
  BY <1>8 DEF ReadRevision
<1>9. ASSUME NEW c \in Calls, RecordMutation(c) PROVE TypeOK'
  BY <1>9 DEF RecordMutation
<1>10. CASE NextStep
  BY <1>10 DEF NextStep, StepsLeft, ToolsOffered
<1>11. CASE FinishLoop \/ RunEnds
  BY <1>11 DEF FinishLoop, RunEnds
<1>12. CASE UNCHANGED vars
  BY <1>12 DEF vars
<1> QED
  BY <1>1, <1>2, <1>3, <1>4, <1>5, <1>6, <1>7, <1>8, <1>9, <1>10, <1>11, <1>12 DEF Next, ToolStep

(* A call that counts its attempt keeps the invariant: the others that may  *)
(* still count one are open, hence in its step.                             *)
LEMMA CountedKeeps ==
    ASSUME ToolInv, NEW c \in Calls, call[c] = "active", Counted(c),
           NEW s \in {"executing", "settled"}, Goes(c, s), UNCHANGED <<step, callVars>>
    PROVE  StepInv' /\ FlagInv'
<1>1. StepInv'
  BY DEF ToolInv, TypeOK, StepInv, Goes, Settled, callVars
<1>2. \A d \in Calls : Pending(d)' => Pending(d)
  BY DEF ToolInv, TypeOK, Goes, Pending
<1>3. \A d \in Calls : Pending(d) => stepOf[d] = step
  BY DEF ToolInv, StepInv, Settled, Pending
<1>4. FlagInv'
  <2> SUFFICES ASSUME NEW b \in made'
               PROVE  /\ attempted'[tool'[b]]
                      /\ call'[b] # "unused"
                      /\ \A d \in Calls : tool'[b] = tool'[d] /\ (d \in made' \/ Pending(d)')
                                             => stepOf'[b] = stepOf'[d]
    BY DEF FlagInv
  <2> b \in Calls
    BY DEF ToolInv, TypeOK, Counted
  <2>1. attempted'[tool'[b]] /\ call'[b] # "unused"
    BY DEF ToolInv, TypeOK, FlagInv, Counted, Goes, callVars
  <2>2. ASSUME NEW d \in Calls, tool[b] = tool[d], d \in made' \/ Pending(d)'
        PROVE  stepOf[b] = stepOf[d]
    <3>1. Pending(c)
      BY DEF Pending
    <3>2. CASE b \in made
      BY <1>2, <2>2, <3>1, <3>2 DEF ToolInv, FlagInv, Counted
    <3>3. CASE b = c
      BY <1>2, <1>3, <2>2, <3>1, <3>3 DEF ToolInv, FlagInv, Counted
    <3> QED
      BY <3>2, <3>3 DEF Counted
  <2> QED
    BY <2>1, <2>2 DEF callVars
<1> QED
  BY <1>1, <1>4

(* A call that moves on without counting keeps it too, unless it starts or  *)
(* turns back.                                                              *)
LEMMA MoveKeeps ==
    ASSUME ToolInv, NEW c \in Calls, call[c] # "unused", call[c] # "settled",
           NEW s \in {"active", "landed", "read", "settled"}, Goes(c, s),
           s = "active" => Pending(c),
           UNCHANGED <<step, callVars, attempted, made>>
    PROVE  StepInv' /\ FlagInv'
<1>1. StepInv'
  BY DEF ToolInv, TypeOK, StepInv, Goes, Settled, callVars
<1>2. \A d \in Calls : Pending(d)' => Pending(d)
  BY DEF ToolInv, TypeOK, Goes, Pending
<1>3. \A d \in Calls : call'[d] = "unused" => call[d] = "unused"
  BY DEF ToolInv, TypeOK, Goes
<1> QED
  BY <1>1, <1>2, <1>3 DEF ToolInv, TypeOK, FlagInv, callVars

LEMMA CallToolKeeps ==
    ASSUME ToolInv, NEW c \in Calls, NEW t \in Tools, CallTool(c, t)
    PROVE  StepInv' /\ FlagInv'
<1> USE DEF ToolInv, TypeOK, CallTool, Goes, loopVars
<1>1. StepInv'
  BY DEF StepInv, Settled
<1>2. c \notin made
  BY DEF FlagInv
<1>3. attempted[t] \/ \A b \in made : tool[b] # t
  BY DEF FlagInv
<1>4. FlagInv'
  BY <1>2, <1>3 DEF FlagInv, Pending
<1> QED
  BY <1>1, <1>4

LEMMA NextToolInv == ToolInv /\ [Next]_vars => ToolInv'
<1> SUFFICES ASSUME ToolInv, [Next]_vars PROVE ToolInv'
  OBVIOUS
<1>1. SUFFICES StepInv' /\ FlagInv'
  BY TypeKept DEF ToolInv
<1> USE DEF loopVars, planVars, saveVars
<1>2. ASSUME NEW c \in Calls, NEW t \in Tools, CallTool(c, t) PROVE StepInv' /\ FlagInv'
  BY <1>2, CallToolKeeps
<1>3. ASSUME NEW c \in Calls,
             PrepareReportUpdate(c) \/ InspectData(c) \/ SaveDiveRevision(c)
      PROVE  StepInv' /\ FlagInv'
  BY <1>3, CountedKeeps DEF PrepareReportUpdate, InspectData, SaveDiveRevision
<1>4. ASSUME NEW c \in Calls,
             \/ RunIsActive(c) \/ InspectionReturns(c) \/ RefuseSave(c) \/ EditLands(c)
             \/ SaveFails(c) \/ ReadRevision(c) \/ RecordMutation(c)
      PROVE  StepInv' /\ FlagInv'
  BY <1>4, MoveKeeps DEF Pending, RunIsActive, InspectionReturns, RefuseSave, EditLands, SaveFails,
     ReadRevision, RecordMutation
<1>5. CASE NextStep
  <2>1. \A c \in Calls : Settled(c) /\ ~Pending(c)
    BY <1>5 DEF NextStep, Settled, Pending
  <2>2. step \in Nat /\ stepOf \in [Calls -> Nat] /\ step' = step + 1
    BY <1>5 DEF NextStep, ToolInv, TypeOK
  <2>3. UNCHANGED <<call, tool, stepOf, attempted, made>>
    BY <1>5 DEF NextStep, callVars
  <2>4. StepInv'
    BY <2>1, <2>2, <2>3 DEF ToolInv, StepInv, Settled
  <2>5. FlagInv'
    BY <2>3 DEF ToolInv, FlagInv, Pending
  <2> QED
    BY <2>4, <2>5
<1>6. CASE FinishLoop \/ RunEnds \/ UNCHANGED vars
  BY <1>6 DEF ToolInv, FinishLoop, RunEnds, vars, callVars, StepInv, FlagInv, Settled, Pending
<1> QED
  BY <1>2, <1>3, <1>4, <1>5, <1>6 DEF Next, ToolStep

LEMMA InitToolInv == Init => ToolInv
<1> SUFFICES ASSUME Init PROVE ToolInv
  OBVIOUS
<1>1. TypeOK
  <2>1. "unused" \in CallState /\ "prepare_report_update" \in Tools /\ "none" \in Verdict
    BY DEF CallState, Tools, Verdict
  <2>2. step \in 1..MaxSteps /\ 0 \in Nat /\ 0 \in 0..MaxSteps
    BY DEF Init
  <2>3. /\ finished \in BOOLEAN /\ offered \in BOOLEAN /\ active \in BOOLEAN
        /\ attempted \in [Tools -> BOOLEAN]
    BY DEF Init
  <2>4. /\ call \in [Calls -> CallState] /\ tool \in [Calls -> Tools]
        /\ verdict \in [Calls -> Verdict]
    BY <2>1 DEF Init
  <2>5. /\ stepOf \in [Calls -> 0..MaxSteps] /\ seen \in [Calls -> Nat]
        /\ edits \in Nat /\ mutation \in Nat
    BY <2>2 DEF Init
  <2>6. made \subseteq Calls /\ plan \in Calls \cup {NoCall} /\ basis \in [Calls -> Calls \cup {NoCall}]
    BY DEF Init
  <2> QED
    BY <2>2, <2>3, <2>4, <2>5, <2>6 DEF TypeOK
<1>2. StepInv /\ FlagInv
  BY DEF Init, StepInv, FlagInv, Settled
<1> QED
  BY <1>1, <1>2 DEF ToolInv

LEMMA ToolInvariance == Spec => []ToolInv
BY InitToolInv, NextToolInv, PTL DEF Spec

-----------------------------------------------------------------------------
(* The attempts on one tool lie in one step of the loop, with any number of *)
(* parallel calls.                                                          *)
THEOREM AttemptsShareOneStep == Spec => []AttemptsShareStep
<1>1. ToolInv => AttemptsShareStep
  BY DEF ToolInv, FlagInv, AttemptsShareStep, TypeOK
<1> QED
  BY <1>1, ToolInvariance, PTL

(* A model that repeats no tool within a step makes one attempt on each,    *)
(* whatever it calls in parallel.                                           *)
THEOREM OneAttemptWhenSerial == Spec => []OneAttemptPerTool
<1>1. ToolInv => OneAttemptPerTool
  BY DEF ToolInv, StepInv, FlagInv, TypeOK, NoToolRepeated, OneAttemptPerTool
<1> QED
  BY <1>1, ToolInvariance, PTL

(* The state of the closure is well typed, for any number of calls.         *)
THEOREM ToolTypes == Spec => []TypeOK
<1>1. ToolInv => TypeOK
  BY DEF ToolInv
<1> QED
  BY <1>1, ToolInvariance, PTL

\* The stored plan is that of a preparation which counted and has returned.
PlanInv ==
    plan # NoCall => /\ plan \in made
                     /\ tool[plan] = "prepare_report_update"
                     /\ call[plan] = "settled"

(* Only a preparation stores a plan, and it returns with that.              *)
LEMMA PlanKept ==
    ASSUME ToolInv, PlanInv, [Next]_vars
    PROVE  PlanInv'
<1> USE DEF planVars, saveVars, callVars, ToolInv, TypeOK
<1>1. ASSUME NEW c \in Calls, PrepareReportUpdate(c) PROVE PlanInv'
  <2>1. call' = [call EXCEPT ![c] = "settled"] /\ made' = made \cup {c}
    BY <1>1 DEF PrepareReportUpdate, Counted, Goes
  <2>2. plan' \in {c, NoCall} /\ tool' = tool /\ tool[c] = "prepare_report_update"
    BY <1>1 DEF PrepareReportUpdate, StoredPlan
  <2> QED
    BY <2>1, <2>2 DEF PlanInv
<1>2. ASSUME NEW c \in Calls, NEW t \in Tools, CallTool(c, t) PROVE PlanInv'
  BY <1>2 DEF PlanInv, CallTool, Goes
<1>3. ASSUME NEW c \in Calls, NEW s \in CallState, call[c] # "settled", Goes(c, s),
             made \subseteq made', UNCHANGED <<plan, tool>>
      PROVE  PlanInv'
  BY <1>3 DEF PlanInv, Goes
<1>4. ASSUME NEW c \in Calls, InspectData(c) \/ SaveDiveRevision(c) PROVE PlanInv'
  BY <1>3, <1>4 DEF InspectData, SaveDiveRevision, Counted, CallState
<1>5. ASSUME NEW c \in Calls,
             \/ RunIsActive(c) \/ InspectionReturns(c) \/ RefuseSave(c) \/ EditLands(c)
             \/ SaveFails(c) \/ ReadRevision(c) \/ RecordMutation(c)
      PROVE  PlanInv'
  BY <1>3, <1>5 DEF RunIsActive, InspectionReturns, RefuseSave, EditLands, SaveFails, ReadRevision,
     RecordMutation, CallState
<1>6. CASE NextStep \/ FinishLoop \/ RunEnds \/ UNCHANGED vars
  BY <1>6 DEF NextStep, FinishLoop, RunEnds, vars, PlanInv
<1> QED
  BY <1>1, <1>2, <1>4, <1>5, <1>6 DEF Next, ToolStep

(* Another preparation would have to be of the step of the first.           *)
LEMMA PlanStays ==
    ASSUME ToolInv, PlanInv, [Next]_vars, NoToolRepeated', plan # NoCall
    PROVE  plan' = plan
<1>1. ASSUME NEW c \in Calls, PrepareReportUpdate(c) PROVE FALSE
  <2>1. /\ call[c] = "active" /\ tool[c] = "prepare_report_update"
        /\ UNCHANGED <<tool, stepOf>>
    BY <1>1 DEF PrepareReportUpdate, callVars
  <2>2. /\ plan \in Calls /\ plan \in made /\ tool[plan] = tool[c]
        /\ call[plan] = "settled"
    BY <2>1 DEF PlanInv, ToolInv, TypeOK
  <2>3. stepOf[plan] = stepOf[c] /\ stepOf[c] # 0
    BY <2>1, <2>2 DEF ToolInv, StepInv, FlagInv, Pending
  <2>4. plan = c
    BY <2>1, <2>2, <2>3 DEF NoToolRepeated
  <2> QED
    BY <2>1, <2>2, <2>4
<1>2. CASE UNCHANGED plan
  BY <1>2
<1> QED
  BY <1>1, <1>2 DEF Next, ToolStep, vars, planVars, saveVars, CallTool, RunIsActive,
     InspectData, InspectionReturns, RefuseSave, SaveDiveRevision, EditLands, SaveFails,
     ReadRevision, RecordMutation, NextStep, FinishLoop, RunEnds

LEMMA PlanInvariance == Spec => []PlanInv
<1>1. Init => PlanInv
  BY DEF Init, PlanInv
<1>2. ToolInv /\ PlanInv /\ [Next]_vars => PlanInv'
  BY PlanKept
<1> QED
  BY <1>1, <1>2, ToolInvariance, PTL DEF Spec

(* A stored plan is not replaced while the model repeats no tool in a step. *)
THEOREM PlanIsFinalWhenSerial == Spec => PlanIsFinal
<1>1. ToolInv /\ PlanInv /\ [Next]_vars => [NoToolRepeated' /\ plan # NoCall => plan' = plan]_vars
  BY PlanStays
<1> QED
  BY <1>1, ToolInvariance, PlanInvariance, PTL DEF Spec, PlanIsFinal

-----------------------------------------------------------------------------
Saves(c) == basis[c] # NoCall

\* A save under way has the accepted plan of a preparation that has returned.
BasisInv ==
    /\ \A c \in Calls : Saves(c) =>
          /\ c \in made /\ tool[c] = "save_dive_revision" /\ basis[c] \in Calls
          /\ call[basis[c]] = "settled" /\ verdict[basis[c]] = "accepted"
    /\ \A c \in Calls :
          /\ call[c] \in {"landed", "read"} => tool[c] = "save_dive_revision"
          /\ call[c] \in {"executing", "landed", "read"} /\ tool[c] = "save_dive_revision" => Saves(c)

\* The mutation is what a finished save has read; from then on no call is of a
\* later step than the saves, because the next step offers no tools.
MutationInv ==
    mutation # 0 =>
        /\ \E c \in Calls : Saves(c) /\ seen[c] = mutation /\ call[c] = "settled"
        /\ \A c, d \in Calls : Saves(d) => stepOf[c] <= stepOf[d]
        /\ \A d \in Calls : Saves(d) /\ offered => stepOf[d] = step

\* While no step repeats a tool, every save rests on the stored plan.
ServedInv == NoToolRepeated => \A c \in Calls : Saves(c) => basis[c] = plan

SaveInv == BasisInv /\ MutationInv /\ ServedInv

(* A call that moves on and touches neither a plan nor a save.              *)
LEMMA MoveKeepsBasis ==
    ASSUME ToolInv, BasisInv, NEW c \in Calls, NEW s \in {"awaiting", "active", "settled"},
           call[c] # "settled", Goes(c, s), made \subseteq made',
           UNCHANGED <<tool, verdict, basis>>
    PROVE  BasisInv'
BY DEF ToolInv, TypeOK, BasisInv, Saves, Goes

LEMMA BasisKept == ToolInv /\ PlanInv /\ BasisInv /\ [Next]_vars => BasisInv'
<1> SUFFICES ASSUME ToolInv, PlanInv, BasisInv, [Next]_vars PROVE BasisInv'
  OBVIOUS
<1> USE DEF planVars, saveVars, callVars, ToolInv, TypeOK
<1>1. ASSUME NEW c \in Calls, NEW t \in Tools, CallTool(c, t) PROVE BasisInv'
  <2>1. call[c] = "unused" /\ UNCHANGED <<made, verdict, basis>>
    BY <1>1 DEF CallTool
  <2>2. \A d \in Calls : d # c => tool'[d] = tool[d] /\ call'[d] = call[d]
    BY <1>1 DEF CallTool, Goes
  <2>3. call'[c] \in {"settled", "awaiting"} /\ ~Saves(c)
    BY <1>1, <2>1 DEF CallTool, Goes, BasisInv, FlagInv
  <2> QED
    BY <2>1, <2>2, <2>3 DEF BasisInv, Saves
<1>2. ASSUME NEW c \in Calls, PrepareReportUpdate(c) PROVE BasisInv'
  <2>1. /\ call[c] = "active" /\ call' = [call EXCEPT ![c] = "settled"]
        /\ UNCHANGED <<tool, basis>> /\ made \subseteq made'
    BY <1>2 DEF PrepareReportUpdate, Counted, Goes
  <2>2. \A d \in Calls : d # c => verdict'[d] = verdict[d]
    BY <1>2 DEF PrepareReportUpdate
  <2> QED
    BY <2>1, <2>2 DEF BasisInv, Saves
<1>3. ASSUME NEW c \in Calls, InspectData(c) PROVE BasisInv'
  <2>1. /\ tool[c] = "inspect_data" /\ call[c] = "active"
        /\ call' = [call EXCEPT ![c] = "executing"]
        /\ UNCHANGED <<tool, verdict, basis>> /\ made \subseteq made'
    BY <1>3 DEF InspectData, Counted, Goes
  <2> QED
    BY <2>1 DEF BasisInv, Saves
<1>4. ASSUME NEW c \in Calls, SaveDiveRevision(c) PROVE BasisInv'
  <2>1. /\ tool[c] = "save_dive_revision" /\ call[c] = "active"
        /\ call' = [call EXCEPT ![c] = "executing"]
        /\ UNCHANGED <<tool, verdict>> /\ made' = made \cup {c}
        /\ basis' = [basis EXCEPT ![c] = plan]
    BY <1>4 DEF SaveDiveRevision, Counted, Goes
  <2>2. plan # NoCall /\ plan \in Calls /\ verdict[plan] = "accepted" /\ call[plan] = "settled"
    BY <1>4 DEF SaveDiveRevision, Authorized, PlanInv
  <2> QED
    BY <2>1, <2>2 DEF BasisInv, Saves
<1>5. ASSUME NEW c \in Calls,
             RunIsActive(c) \/ InspectionReturns(c) \/ RefuseSave(c) \/ SaveFails(c) \/ RecordMutation(c)
      PROVE  BasisInv'
  BY <1>5, MoveKeepsBasis DEF RunIsActive, InspectionReturns, RefuseSave, SaveFails, RecordMutation
<1>6. ASSUME NEW c \in Calls, EditLands(c) \/ ReadRevision(c) PROVE BasisInv'
  <2>1. PICK s \in {"landed", "read", "settled"} : call' = [call EXCEPT ![c] = s]
    BY <1>6 DEF EditLands, ReadRevision, Goes
  <2>2. /\ call[c] \in {"executing", "landed"} /\ tool[c] = "save_dive_revision"
        /\ UNCHANGED <<tool, verdict, basis, made>>
    BY <1>6 DEF EditLands, ReadRevision, BasisInv
  <2> QED
    BY <2>1, <2>2 DEF BasisInv, Saves
<1>7. CASE NextStep \/ FinishLoop \/ RunEnds \/ UNCHANGED vars
  BY <1>7 DEF NextStep, FinishLoop, RunEnds, vars, BasisInv, Saves
<1> QED
  BY <1>1, <1>2, <1>3, <1>4, <1>5, <1>6, <1>7 DEF Next, ToolStep

(* The saves lie in one step, which an open save shares with the loop.      *)
LEMMA SavesShareStep ==
    ASSUME ToolInv, BasisInv, NEW c \in Calls, NEW d \in Calls, Saves(c), Saves(d)
    PROVE  stepOf[c] = stepOf[d] /\ stepOf[d] # 0
BY DEF ToolInv, TypeOK, StepInv, FlagInv, BasisInv

LEMMA MutationKept == ToolInv /\ BasisInv /\ MutationInv /\ [Next]_vars => MutationInv'
<1> SUFFICES ASSUME ToolInv, BasisInv, MutationInv, [Next]_vars, mutation' # 0
             PROVE  MutationInv'
  BY DEF MutationInv
<1> USE DEF planVars, saveVars, callVars, loopVars, ToolInv, TypeOK
<1>1. ASSUME NEW c \in Calls, NEW t \in Tools, CallTool(c, t) PROVE MutationInv'
  <2>1. /\ call[c] = "unused" /\ offered /\ stepOf' = [stepOf EXCEPT ![c] = step]
        /\ UNCHANGED <<basis, seen, mutation, step, offered>>
        /\ \A d \in Calls : d # c => call'[d] = call[d]
    BY <1>1 DEF CallTool, Goes
  <2>2. \A d \in Calls : Saves(d) => d # c
    BY <2>1 DEF BasisInv, FlagInv
  <2>3. \A d \in Calls : Saves(d) => stepOf[d] = step
    BY <2>1 DEF MutationInv
  <2>4. \A d \in Calls : stepOf'[d] <= step /\ (Saves(d) => stepOf'[d] = step)
    BY <2>1, <2>2, <2>3 DEF StepInv
  <2> QED
    BY <2>1, <2>2, <2>4 DEF MutationInv, Saves
<1>2. ASSUME NEW c \in Calls, SaveDiveRevision(c) PROVE MutationInv'
  <2>1. /\ call[c] = "active" /\ basis' = [basis EXCEPT ![c] = plan]
        /\ UNCHANGED <<stepOf, seen, mutation, step, offered>>
        /\ call' = [call EXCEPT ![c] = "executing"]
    BY <1>2 DEF SaveDiveRevision, Goes
  <2>2. stepOf[c] = step /\ \A d \in Calls : stepOf[d] <= step
    BY <2>1 DEF StepInv, Settled
  <2>3. PICK d \in Calls : Saves(d) /\ seen[d] = mutation /\ call[d] = "settled"
    BY <2>1 DEF MutationInv
  <2>4. d # c /\ basis'[d] # NoCall /\ call'[d] = "settled"
    BY <2>1, <2>3 DEF Saves
  <2>5. \A e \in Calls : Saves(e)' => e = c \/ Saves(e)
    BY <2>1 DEF Saves
  <2> QED
    BY <2>1, <2>2, <2>3, <2>4, <2>5 DEF MutationInv, Saves
<1>3. ASSUME NEW c \in Calls, RecordMutation(c) PROVE MutationInv'
  <2>1. /\ call[c] = "read" /\ mutation' = seen[c] /\ call' = [call EXCEPT ![c] = "settled"]
        /\ UNCHANGED <<basis, seen, stepOf, step, offered>>
    BY <1>3 DEF RecordMutation, Goes
  <2>2. Saves(c)
    BY <2>1 DEF BasisInv
  <2>3. stepOf[c] = step /\ \A d \in Calls : stepOf[d] <= step
    BY <2>1 DEF StepInv, Settled
  <2>4. \A d \in Calls : Saves(d) => stepOf[d] = step
    BY <2>2, <2>3, SavesShareStep
  <2> QED
    BY <2>1, <2>2, <2>3, <2>4 DEF MutationInv, Saves
<1>4. ASSUME NEW c \in Calls, NEW s \in CallState, call[c] # "settled", Goes(c, s),
             \A d \in Calls : d # c => seen'[d] = seen[d],
             UNCHANGED <<basis, stepOf, mutation, step, offered>>
      PROVE  MutationInv'
  <2>1. PICK d \in Calls : Saves(d) /\ seen[d] = mutation /\ call[d] = "settled"
    BY <1>4 DEF MutationInv
  <2>2. Saves(d)' /\ seen'[d] = mutation' /\ call'[d] = "settled"
    BY <1>4, <2>1 DEF Saves, Goes
  <2> QED
    BY <1>4, <2>2 DEF MutationInv, Saves
<1>5. ASSUME NEW c \in Calls,
             \/ PrepareReportUpdate(c) \/ InspectData(c) \/ RunIsActive(c) \/ InspectionReturns(c)
             \/ RefuseSave(c) \/ EditLands(c) \/ SaveFails(c) \/ ReadRevision(c)
      PROVE  MutationInv'
  BY <1>4, <1>5 DEF PrepareReportUpdate, InspectData, RunIsActive, InspectionReturns, RefuseSave,
     EditLands, SaveFails, ReadRevision, CallState
<1>6. CASE NextStep
  BY <1>6 DEF NextStep, ToolsOffered, MutationInv, Saves
<1>7. CASE FinishLoop \/ RunEnds \/ UNCHANGED vars
  BY <1>7 DEF FinishLoop, RunEnds, vars, MutationInv, Saves
<1> QED
  BY <1>1, <1>2, <1>3, <1>5, <1>6, <1>7 DEF Next, ToolStep

(* A step that repeats no tool does so in its beginning too.                *)
LEMMA RepetitionLasts == ToolInv /\ [Next]_vars /\ NoToolRepeated' => NoToolRepeated
<1> SUFFICES ASSUME ToolInv, [Next]_vars, NoToolRepeated' PROVE NoToolRepeated
  OBVIOUS
<1> USE DEF planVars, saveVars, callVars, loopVars, ToolInv, TypeOK
<1>1. ASSUME NEW c \in Calls, NEW t \in Tools, CallTool(c, t) PROVE NoToolRepeated
  <2>1. stepOf[c] = 0 /\ \A d \in Calls : d # c => stepOf'[d] = stepOf[d] /\ tool'[d] = tool[d]
    BY <1>1 DEF CallTool, StepInv
  <2> QED
    BY <2>1 DEF NoToolRepeated
<1>2. CASE UNCHANGED callVars
  BY <1>2 DEF NoToolRepeated
<1> QED
  BY <1>1, <1>2 DEF Next, ToolStep, vars, RunIsActive, PrepareReportUpdate,
     InspectData, InspectionReturns, RefuseSave, SaveDiveRevision, EditLands, SaveFails,
     ReadRevision, RecordMutation, NextStep, FinishLoop, RunEnds

LEMMA ServedKept == ToolInv /\ PlanInv /\ BasisInv /\ ServedInv /\ [Next]_vars => ServedInv'
<1> SUFFICES ASSUME ToolInv, PlanInv, BasisInv, ServedInv, [Next]_vars, NoToolRepeated'
             PROVE  \A c \in Calls : Saves(c)' => basis'[c] = plan'
  BY DEF ServedInv
<1> USE DEF planVars, saveVars, ToolInv, TypeOK
<1>1. \A c \in Calls : Saves(c) => basis[c] = plan
  BY RepetitionLasts DEF ServedInv
<1>2. plan # NoCall => plan' = plan
  BY PlanStays
<1>3. ASSUME NEW c \in Calls, SaveDiveRevision(c)
      PROVE  \A d \in Calls : Saves(d)' => basis'[d] = plan'
  BY <1>1, <1>2, <1>3 DEF SaveDiveRevision, Saves
<1>4. CASE UNCHANGED basis
  BY <1>1, <1>2, <1>4 DEF Saves
<1> QED
  BY <1>3, <1>4 DEF Next, ToolStep, vars, CallTool, RunIsActive, PrepareReportUpdate,
     InspectData, InspectionReturns, RefuseSave, EditLands, SaveFails,
     ReadRevision, RecordMutation, NextStep, FinishLoop, RunEnds

LEMMA SaveInvariance == Spec => []SaveInv
<1>1. Init => SaveInv
  BY DEF Init, SaveInv, BasisInv, MutationInv, ServedInv, Saves
<1>2. ToolInv /\ PlanInv /\ SaveInv /\ [Next]_vars => SaveInv'
  BY BasisKept, MutationKept, ServedKept DEF SaveInv
<1> QED
  BY <1>1, <1>2, ToolInvariance, PlanInvariance, PTL DEF Spec

(* A verified edit rests on an accepted plan, and no call is of a later step *)
(* than the save that made it, for any number of calls.                      *)
THEOREM VerifiedEditsEndTools == Spec => []VerifiedEditEndsTools
<1>1. ToolInv /\ SaveInv => VerifiedEditEndsTools
  BY DEF ToolInv, TypeOK, SaveInv, BasisInv, MutationInv, Saves, VerifiedEditEndsTools
<1> QED
  BY <1>1, ToolInvariance, SaveInvariance, PTL

(* While no step repeats a tool, the plan that is filed with a verified edit *)
(* is the one that authorized it.                                            *)
THEOREM FiledPlansAuthorized == Spec => []FiledPlanAuthorizedEdit
<1>1. SaveInv => FiledPlanAuthorizedEdit
  BY DEF SaveInv, BasisInv, MutationInv, ServedInv, Saves, FiledPlanAuthorizedEdit
<1> QED
  BY <1>1, SaveInvariance, PTL
=============================================================================
