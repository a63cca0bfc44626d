---------------------------- MODULE DuckDiveTools ----------------------------
(***************************************************************************)
(* The three tools one agent run offers to the model, closed over the       *)
(* attempt flags, the stored plan and the verified mutation                 *)
(* (createDuckDiveTools).                                                   *)
(*                                                                          *)
(* The model loop takes steps; in a step the model may call several tools,  *)
(* which then execute concurrently and interleave wherever one awaits.      *)
(* MaxPerTool bounds the calls of one tool the model makes in a step.       *)
(***************************************************************************)
EXTENDS Integers, FiniteSets

CONSTANTS
    Calls,        \* tool calls the model may make in the run
    NoCall,       \* no call: a plan or a basis that is null
    MaxSteps,     \* stopWhen: stepCountIs(MAX_STEPS)
    MaxPerTool    \* calls of one tool the model makes in one step

ASSUME CallAssumption == IsFiniteSet(Calls) /\ NoCall \notin Calls
ASSUME StepAssumption == MaxSteps \in Nat \ {0} /\ MaxPerTool \in Nat

Tools == {"prepare_report_update", "inspect_data", "save_dive_revision"}
Verdict == {"none", "rejected", "withheld", "accepted"}

\* "awaiting" the run's row, after its attempt flag was found clear; "active"
\* once the row was found running; "executing" the query or the edit; then
\* for a save "landed", and "read" with the snapshot it will be verified by.
CallState == {"unused", "awaiting", "active", "executing", "landed", "read", "settled"}

VARIABLES
    step,       \* current step of the model loop
    finished,   \* the loop is over
    offered,    \* prepareStep offers the tools in this step
    active,     \* the run's row is 'running'
    call,       \* where each call stands
    tool,       \* the tool it calls
    stepOf,     \* the step it was made in, 0 before
    attempted,  \* preparationAttempted, inspectionAttempted, mutationAttempted
    made,       \* calls that set such a flag
    verdict,    \* what a preparation found of its plan
    plan,       \* the stored plan, by the call that prepared it
    basis,      \* the plan that authorized a save
    edits,      \* edits of this run that landed: versions after the snapshot
    seen,       \* version a save's verification read
    mutation    \* version of the verified mutation, 0 while null

loopVars == <<step, finished, offered>>
callVars == <<tool, stepOf>>
planVars == <<verdict, plan>>
saveVars == <<basis, edits, seen, mutation>>
vars == <<loopVars, active, call, callVars, attempted, made, planVars, saveVars>>

TypeOK ==
    /\ step \in 1..MaxSteps
    /\ finished \in BOOLEAN /\ offered \in BOOLEAN /\ active \in BOOLEAN
    /\ call \in [Calls -> CallState]
    /\ tool \in [Calls -> Tools]
    /\ stepOf \in [Calls -> 0..MaxSteps]
    /\ attempted \in [Tools -> BOOLEAN]
    /\ made \subseteq Calls
    /\ verdict \in [Calls -> Verdict]
    /\ plan \in Calls \cup {NoCall}
    /\ basis \in [Calls -> Calls \cup {NoCall}]
    /\ edits \in Nat
    /\ seen \in [Calls -> Nat]
    /\ mutation \in Nat

Init ==
    /\ step = 1 /\ finished = FALSE /\ offered = TRUE /\ active = TRUE
    /\ call = [c \in Calls |-> "unused"]
    /\ tool = [c \in Calls |-> "prepare_report_update"]   \* unread while unused
    /\ stepOf = [c \in Calls |-> 0]
    /\ attempted = [t \in Tools |-> FALSE]
    /\ made = {}
    /\ verdict = [c \in Calls |-> "none"]
    /\ plan = NoCall
    /\ basis = [c \in Calls |-> NoCall]
    /\ edits = 0
    /\ seen = [c \in Calls |-> 0]
    /\ mutation = 0

-----------------------------------------------------------------------------
CallsOf(s) == {c \in Calls : stepOf[c] = s}
Settled(c) == call[c] \in {"unused", "settled"}
Goes(c, s) == call' = [call EXCEPT ![c] = s]

\* Whether the model may call a tool once more in a step.
RoomInStep(s, t) == Cardinality({c \in CallsOf(s) : tool[c] = t}) < MaxPerTool

\* The attempt is counted, whatever becomes of it; a count that is forgotten.
Uncounted(c) == made' = made \cup {c} /\ UNCHANGED attempted
Counted(c) ==
    /\ made' = made \cup {c}
    /\ attempted' = [attempted EXCEPT ![tool[c]] = TRUE]

\* A rejected plan is not stored.
StoredPlan(c, v) == IF v = "rejected" THEN NoCall ELSE c

\* !plan, unsupportedRequests or materialClarification: no save.
Authorized == plan # NoCall /\ verdict[plan] = "accepted"

\* stopWhen, and prepareStep with and without its test.
StepsLeft == step < MaxSteps
AlwaysOffered == TRUE
ToolsOffered == mutation = 0

-----------------------------------------------------------------------------
(* The model and its loop. *)

\* The synchronous start of a call: an attempt made before is an error.
CallTool(c, t) ==
    /\ ~finished /\ offered
    /\ call[c] = "unused"
    /\ RoomInStep(step, t)
    /\ tool' = [tool EXCEPT ![c] = t]
    /\ stepOf' = [stepOf EXCEPT ![c] = step]
    /\ Goes(c, IF attempted[t] THEN "settled" ELSE "awaiting")
    /\ UNCHANGED <<loopVars, active, attempted, made, planVars, saveVars>>

\* The next step waits for every call of this one.
NextStep ==
    /\ ~finished /\ StepsLeft
    /\ CallsOf(step) # {} /\ \A c \in Calls : Settled(c)
    /\ step' = step + 1
    /\ offered' = ToolsOffered
    /\ UNCHANGED <<finished, active, call, callVars, attempted, made, planVars, saveVars>>

\* A step without calls is the last one, and so is step MaxSteps.
FinishLoop ==
    /\ ~finished
    /\ CallsOf(step) = {} \/ ~StepsLeft
    /\ \A c \in Calls : Settled(c)
    /\ finished' = TRUE
    /\ UNCHANGED <<step, offered, active, call, callVars, attempted, made, planVars, saveVars>>

\* The owner stops the run, or a later request sweeps it.
RunEnds ==
    /\ ~finished /\ active
    /\ active' = FALSE
    /\ UNCHANGED <<loopVars, call, callVars, attempted, made, planVars, saveVars>>

-----------------------------------------------------------------------------
(* The tools. *)

\* duckDiveRunIsActive answers, and what follows the await comes later.
RunIsActive(c) ==
    /\ call[c] = "awaiting"
    /\ Goes(c, IF active THEN "active" ELSE "settled")
    /\ UNCHANGED <<loopVars, active, callVars, attempted, made, planVars, saveVars>>

PrepareReportUpdate(c) ==
    /\ call[c] = "active" /\ tool[c] = "prepare_report_update"
    /\ Counted(c)
    /\ \E v \in Verdict \ {"none"} :
        /\ verdict' = [verdict EXCEPT ![c] = v]
        /\ plan' = StoredPlan(c, v)
    /\ Goes(c, "settled")
    /\ UNCHANGED <<loopVars, active, callVars, saveVars>>

InspectData(c) ==
    /\ call[c] = "active" /\ tool[c] = "inspect_data"
    /\ Counted(c)
    /\ Goes(c, "executing")
    /\ UNCHANGED <<loopVars, active, callVars, planVars, saveVars>>

\* The query's rows or its error, a refused statement included.
InspectionReturns(c) ==
    /\ call[c] = "executing" /\ tool[c] = "inspect_data"
    /\ Goes(c, "settled")
    /\ UNCHANGED <<loopVars, active, callVars, attempted, made, planVars, saveVars>>

\* No stored plan, or one that does not authorize: not counted as an attempt.
RefuseSave(c) ==
    /\ call[c] = "active" /\ tool[c] = "save_dive_revision"
    /\ ~Authorized
    /\ Goes(c, "settled")
    /\ UNCHANGED <<loopVars, active, callVars, attempted, made, planVars, saveVars>>

SaveDiveRevision(c) ==
    /\ call[c] = "active" /\ tool[c] = "save_dive_revision"
    /\ Authorized
    /\ Counted(c)
    /\ basis' = [basis EXCEPT ![c] = plan]
    /\ Goes(c, "executing")
    /\ UNCHANGED <<loopVars, active, callVars, planVars, edits, seen, mutation>>

\* The edit is made; its answer may be an error all the same.
EditLands(c) ==
    /\ call[c] = "executing" /\ tool[c] = "save_dive_revision"
    /\ edits' = edits + 1
    /\ \E s \in {"landed", "settled"} : Goes(c, s)
    /\ UNCHANGED <<loopVars, active, callVars, attempted, made, planVars, basis, seen, mutation>>

\* The edit, or a check of its verification, fails.
SaveFails(c) ==
    /\ call[c] \in {"executing", "landed", "read"} /\ tool[c] = "save_dive_revision"
    /\ Goes(c, "settled")
    /\ UNCHANGED <<loopVars, active, callVars, attempted, made, planVars, saveVars>>

\* verifyDiveRevision: the snapshot it reads, then the embed session, ...
ReadRevision(c) ==
    /\ call[c] = "landed"
    /\ seen' = [seen EXCEPT ![c] = edits]
    /\ Goes(c, "read")
    /\ UNCHANGED <<loopVars, active, callVars, attempted, made, planVars, basis, edits, mutation>>

\* ... and the mutation is what it read.
RecordMutation(c) ==
    /\ call[c] = "read"
    /\ mutation' = seen[c]
    /\ Goes(c, "settled")
    /\ UNCHANGED <<loopVars, active, callVars, attempted, made, planVars, basis, edits, seen>>

-----------------------------------------------------------------------------
ToolStep(c) ==
    \/ \E t \in Tools : CallTool(c, t)
    \/ RunIsActive(c)
    \/ PrepareReportUpdate(c)
    \/ InspectData(c)
    \/ InspectionReturns(c)
    \/ RefuseSave(c)
    \/ SaveDiveRevision(c)
    \/ EditLands(c)
    \/ SaveFails(c)
    \/ ReadRevision(c)
    \/ RecordMutation(c)

Next ==
    \/ \E c \in Calls : ToolStep(c)
    \/ NextStep
    \/ FinishLoop
    \/ RunEnds

Spec == Init /\ [][Next]_vars

-----------------------------------------------------------------------------
(* What the closure promises. *)

\* The flags bound a tool to one step of the loop, however many calls the
\* model makes in a step: a later step never gets a second attempt, not even
\* after a failure.
AttemptsShareStep ==
    \A c, d \in made : tool[c] = tool[d] => stepOf[c] = stepOf[d]

\* Every version this run wrote was authorized by a plan that was accepted,
\* and no tool is called after the step that verified one.
VerifiedEditEndsTools ==
    mutation # 0 =>
        /\ \E c \in made : basis[c] # NoCall /\ verdict[basis[c]] = "accepted"
        /\ \A c \in Calls, d \in made :
              basis[d] # NoCall /\ seen[d] = mutation => stepOf[c] <= stepOf[d]

\* No step of the loop has repeated a tool.
NoToolRepeated ==
    \A c, d \in Calls :
        stepOf[c] # 0 /\ stepOf[c] = stepOf[d] /\ tool[c] = tool[d] => c = d

\* While the model repeats no tool within a step, whatever it calls in
\* parallel, one preparation, one inspection and one mutation attempt is all
\* a run makes.
OneAttemptPerTool ==
    NoToolRepeated => \A c, d \in made : tool[c] = tool[d] => c = d

\* Under the same habit a stored plan is not replaced by another preparation
\* of the run.
PlanIsFinal == [][NoToolRepeated' /\ plan # NoCall => plan' = plan]_vars

\* And the plan whose manifest onFinish files with a verified edit is the plan
\* that authorized the save which verified it.
FiledPlanAuthorizedEdit ==
    NoToolRepeated /\ finished /\ mutation # 0 =>
        \E c \in made : basis[c] # NoCall /\ basis[c] = plan /\ seen[c] = mutation
=============================================================================
