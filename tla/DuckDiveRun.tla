----------------------------- MODULE DuckDiveRun -----------------------------
(***************************************************************************)
(* Bounded agent runs on one Dive of one workspace.                         *)
(*                                                                          *)
(* A run is a row of app.duckdive_run.  It is written by the chat route     *)
(* that serves it, by the owner's abort request, and by the sweep a later   *)
(* chat request makes of rows older than six minutes.  The Dive is kept by  *)
(* MotherDuck as an append-only list of versions; besides the runs' edits,  *)
(* the reset and revert routes write it, and neither takes the run lock.    *)
(* Report metadata (app.duckdive_report_version) has one row per version.   *)
(*                                                                          *)
(* A handler is split where it awaits: each action is one transaction, one  *)
(* MotherDuck call, or the synchronous code between two of them.  A         *)
(* snapshot {version, content, hash} is represented by its version, since   *)
(* the content of a version never changes.                                  *)
(***************************************************************************)
EXTENDS Integers, Sequences

CONSTANTS
    Runs,         \* run ids, one chat request each
    Writers,      \* requests to the reset, revert and report routes
    Content,      \* Dive sources
    Hash,         \* canonical hash of a source: several sources may share one
    Starter,      \* source of the registered starter Dive
    MaxVersion,   \* bound on the versions of the Dive
    MaxDuration,  \* minutes the platform lets a chat request live
    StaleAfter    \* minutes after which a running row may be swept

ASSUME StarterAssumption == Starter \in Content
ASSUME RunAssumption == Runs \cap {"absent", "no run"} = {}
ASSUME BoundAssumption ==
    /\ MaxVersion \in Nat \ {0}
    /\ MaxDuration \in Nat
    /\ StaleAfter \in Nat
\* maxDuration is 300 seconds, the sweep waits for 6 minutes.
ASSUME LifetimeAssumption == MaxDuration <= StaleAfter

Nobody == "nobody"
Author == Runs \cup Writers \cup {Nobody}
Revision == [content : Content, by : Author]
Versions == 1..MaxVersion

Closed == {"clarification", "applied", "no_change", "failed", "aborted"}
Status == {"none", "running"} \cup Closed

\* Where the chat request of a run stands: "spent" is a model loop whose save
\* attempt is used up, "orphan" an edit still in flight from a dead handler.
Serving == {"setup", "model", "armed", "edited", "spent", "verified"}
Live == {"admitted", "recording"} \cup Serving
Phase == {"idle", "done", "dead", "orphan"} \cup Live

WriterPhase == {"idle", "resetting", "resetWrite", "resetVerify", "revertWrite",
                "revertSnapshot", "loading", "report", "done"}

\* Report rows: absent, saved with run_id NULL, or saved for a run.
ReportRow == {"absent", "no run"} \cup Runs

VARIABLES
    dive,      \* the Dive's versions, version v at index v
    status,    \* app.duckdive_run.status, "none" before the row exists
    before,    \* version of the handler's snapshot, before_version of the row
    after,     \* after_version, 0 while null
    age,       \* minutes since the row was created
    phase,     \* the chat handler of the run
    lived,     \* minutes since the chat request arrived
    mutation,  \* version of the tools' verified mutation, 0 while null
    report,    \* the report row of each version
    writer,    \* the reset, revert and report handlers
    held       \* the version such a handler last read

rowVars == <<status, after, age>>
taskVars == <<phase, before, lived, mutation>>
writerVars == <<writer, held>>
vars == <<dive, rowVars, taskVars, report, writerVars>>

TypeOK ==
    /\ dive \in Seq(Revision) /\ Len(dive) \in Versions
    /\ status \in [Runs -> Status]
    /\ before \in [Runs -> 0..MaxVersion]
    /\ after \in [Runs -> 0..MaxVersion]
    /\ age \in [Runs -> 0..(StaleAfter + 1)]
    /\ phase \in [Runs -> Phase]
    /\ lived \in [Runs -> 0..MaxDuration]
    /\ mutation \in [Runs -> 0..MaxVersion]
    /\ report \in [Versions -> ReportRow]
    /\ writer \in [Writers -> WriterPhase]
    /\ held \in [Writers -> 0..MaxVersion]

Init ==
    /\ dive = <<[content |-> Starter, by |-> Nobody]>>
    /\ status = [r \in Runs |-> "none"]
    /\ before = [r \in Runs |-> 0]
    /\ after = [r \in Runs |-> 0]
    /\ age = [r \in Runs |-> 0]
    /\ phase = [r \in Runs |-> "idle"]
    /\ lived = [r \in Runs |-> 0]
    /\ mutation = [r \in Runs |-> 0]
    /\ report = [v \in Versions |-> "absent"]
    /\ writer = [w \in Writers |-> "idle"]
    /\ held = [w \in Writers |-> 0]

-----------------------------------------------------------------------------
(* MotherDuck's side of a Dive. *)

\* MD_GET_DIVE: the version a snapshot read returns now.
CurrentVersion == Len(dive)

HashOf(v) == Hash[dive[v].content]

\* MD_UPDATE_DIVE_CONTENT and edit_dive_content append a version.
WriteDive(c, a) ==
    /\ Len(dive) < MaxVersion
    /\ dive' = Append(dive, [content |-> c, by |-> a])

-----------------------------------------------------------------------------
(* The pure checks of duckdive-runtime.ts and duckdive-db.ts. *)

DiveVersionConflict(current, expected) == current # expected

\* assertDiveRevisionChanged; without its hash check, any newer version does.
VersionAdvanced(b, a) == a > b
DiveRevisionChanged(b, a) == a > b /\ HashOf(a) # HashOf(b)

\* Rows the sweep may fail; a sweep blind to age, and one that never acts.
AnyRunning(r) == status[r] = "running"
NeverStale(r) == FALSE
Stale(r) == status[r] = "running" /\ age[r] > StaleAfter

\* What the sweep writes.
SweptStatus == "failed"

\* A run that stands in the way of a new one; a start that looks for none.
NeverBlocking(r) == FALSE
Blocking(r) == status[r] = "running" /\ ~Stale(r)

\* The WHERE clause of finishDuckDiveRun, a stricter one and a missing one.
FinishOnlyRunning(r, s, v) == status[r] = "running"
FinishAlways(r, s, v) == status[r] # "none"
Finishable(r, s, v) ==
    \/ status[r] = "running"
    \/ status[r] = "aborted" /\ s = "applied" /\ v # 0

\* UPDATE app.duckdive_run: whether it found the row is Finishable(r, s, v).
FinishDuckDiveRun(r, s, v) ==
    /\ status' = [status EXCEPT ![r] = IF Finishable(r, s, v) THEN s ELSE @]
    /\ after' = [after EXCEPT ![r] = IF Finishable(r, s, v) THEN v ELSE @]
    /\ UNCHANGED age

\* The clock of a request runs while its handler lives.
Become(r, p) ==
    /\ phase' = [phase EXCEPT ![r] = p]
    /\ lived' = [lived EXCEPT ![r] = IF p \in Live /\ p # "admitted" THEN @ ELSE 0]

\* The request ends without a row; the client may send another.
Withdraw(r) ==
    /\ Become(r, "idle")
    /\ before' = [before EXCEPT ![r] = 0]
    /\ UNCHANGED <<dive, rowVars, mutation, report, writerVars>>

-----------------------------------------------------------------------------
(* The chat request: admission and the start of the run. *)

\* Snapshot, then the expected-version check.  A refused request leaves no
\* state behind, so only the accepted one is a step.
ReadBefore(r) ==
    /\ phase[r] = "idle"
    /\ \E expected \in 1..CurrentVersion : ~DiveVersionConflict(CurrentVersion, expected)
    /\ before' = [before EXCEPT ![r] = CurrentVersion]
    /\ Become(r, "admitted")
    /\ UNCHANGED <<dive, rowVars, mutation, report, writerVars>>

\* 429 from the hourly quota, or an error or a crash before the row exists.
RefuseRequest(r) ==
    /\ phase[r] = "admitted"
    /\ Withdraw(r)

\* DuckDiveBusyError: the transaction rolls back, its sweep included.
StartRefused(r) ==
    /\ phase[r] = "admitted"
    /\ \E q \in Runs : Blocking(q)
    /\ Withdraw(r)

\* The transaction under the Dive's advisory lock: sweep, check, insert.
StartDuckDiveRun(r) ==
    /\ phase[r] = "admitted"
    /\ ~\E q \in Runs : Blocking(q)
    /\ status' = [q \in Runs |-> IF q = r THEN "running"
                                 ELSE IF Stale(q) THEN SweptStatus ELSE status[q]]
    /\ age' = [age EXCEPT ![r] = 0]
    /\ Become(r, "setup")
    /\ UNCHANGED <<dive, after, before, mutation, report, writerVars>>

\* Chat messages saved, MCP client and tools created, stream started.
StartStream(r) ==
    /\ phase[r] = "setup"
    /\ Become(r, "model")
    /\ UNCHANGED <<dive, rowVars, before, mutation, report, writerVars>>

SetupFailed(r) ==
    /\ phase[r] = "setup"
    /\ FinishDuckDiveRun(r, "failed", 0)
    /\ Become(r, "done")
    /\ UNCHANGED <<dive, before, mutation, report, writerVars>>

-----------------------------------------------------------------------------
(* save_dive_revision, of an accepted plan: at most one attempt (the module  *)
(* DuckDiveTools says when), and no tool once a mutation is verified.        *)

\* duckDiveRunIsActive returned true and mutationAttempted is set; the edit
\* itself is still to come.
SaveAuthorized(r) ==
    /\ phase[r] = "model"
    /\ status[r] = "running"
    /\ Become(r, "armed")
    /\ UNCHANGED <<dive, rowVars, before, mutation, report, writerVars>>

\* The exact replacements are made in whatever version is current by then.
EditLands(r) ==
    /\ phase[r] = "armed"
    /\ \E c \in Content : WriteDive(c, r)
    /\ \E p \in {"edited", "spent"} : Become(r, p)   \* "spent": the reply was an error
    /\ UNCHANGED <<rowVars, before, mutation, report, writerVars>>

EditFails(r) ==
    /\ phase[r] = "armed"
    /\ Become(r, "spent")
    /\ UNCHANGED <<dive, rowVars, before, mutation, report, writerVars>>

\* verifyDiveRevision reads the version that is current now.
VerifyDiveRevision(r) ==
    /\ phase[r] = "edited"
    /\ DiveRevisionChanged(before[r], CurrentVersion)
    /\ mutation' = [mutation EXCEPT ![r] = CurrentVersion]
    /\ Become(r, "verified")
    /\ UNCHANGED <<dive, rowVars, before, report, writerVars>>

\* No newer version, the same hash, or no embed session.
VerificationFails(r) ==
    /\ phase[r] = "edited"
    /\ Become(r, "spent")
    /\ UNCHANGED <<dive, rowVars, before, mutation, report, writerVars>>

-----------------------------------------------------------------------------
(* The end of a run. *)

\* onFinish without a verified mutation.
FinishWithoutMutation(r) ==
    /\ phase[r] \in {"model", "spent"}
    /\ \E s \in {"failed", "clarification", "no_change"} : FinishDuckDiveRun(r, s, 0)
    /\ Become(r, "done")
    /\ UNCHANGED <<dive, before, mutation, report, writerVars>>

\* onFinish with one: the status is applied whatever the text says.
FinishWithMutation(r) ==
    /\ phase[r] = "verified"
    /\ FinishDuckDiveRun(r, "applied", mutation[r])
    /\ Become(r, IF Finishable(r, "applied", mutation[r]) THEN "recording" ELSE "done")
    /\ UNCHANGED <<dive, before, mutation, report, writerVars>>

\* The version a run's report is filed under, and the one current by then.
ReportedAtHead(r) == CurrentVersion
ReportedVersion(r) == mutation[r]

\* saveDiveReportVersion of the run; its failure is caught.
SaveRunReport(r) ==
    /\ phase[r] = "recording"
    /\ \/ report' = [report EXCEPT ![ReportedVersion(r)] = r]
       \/ UNCHANGED report
    /\ Become(r, "done")
    /\ UNCHANGED <<dive, rowVars, before, mutation, writerVars>>

\* DELETE /api/duckdive/runs/[runId], at any time.
AbortDuckDiveRun(r) ==
    /\ status[r] = "running"
    /\ status' = [status EXCEPT ![r] = "aborted"]
    /\ UNCHANGED <<dive, after, age, taskVars, report, writerVars>>

\* A crash, the platform's limit, or a stream error that never reaches
\* onFinish: nobody finishes the row.  An edit already sent may still land.
HandlerDies(r) ==
    /\ phase[r] \in Live \ {"admitted"}
    /\ \/ Become(r, "dead")
       \/ phase[r] = "armed" /\ Become(r, "orphan")
    /\ UNCHANGED <<dive, rowVars, before, mutation, report, writerVars>>

OrphanEditLands(r) ==
    /\ phase[r] = "orphan"
    /\ \E c \in Content : WriteDive(c, r)
    /\ Become(r, "dead")
    /\ UNCHANGED <<rowVars, before, mutation, report, writerVars>>

\* A minute passes.  No chat request lives longer than MaxDuration.
Tick ==
    /\ \A r \in Runs : phase[r] \in Live => lived[r] < MaxDuration
    /\ age' = [r \in Runs |-> IF status[r] = "running" /\ age[r] <= StaleAfter
                              THEN age[r] + 1 ELSE age[r]]
    /\ lived' = [r \in Runs |-> IF phase[r] \in Live THEN lived[r] + 1 ELSE lived[r]]
    /\ UNCHANGED <<dive, status, after, phase, before, mutation, report, writerVars>>

-----------------------------------------------------------------------------
(* The reset, revert and report routes. *)

WriterBecomes(w, p, v) ==
    /\ writer' = [writer EXCEPT ![w] = p]
    /\ held' = [held EXCEPT ![w] = IF p = "done" THEN 0 ELSE v]

\* Reset refuses another version than the expected one, then reads again.
ResetAdmitted(w) ==
    /\ writer[w] = "idle"
    /\ \E expected \in 1..CurrentVersion : ~DiveVersionConflict(CurrentVersion, expected)
    /\ WriterBecomes(w, "resetting", CurrentVersion)
    /\ UNCHANGED <<dive, rowVars, taskVars, report>>

ResetReads(w) ==
    /\ writer[w] = "resetting"
    /\ WriterBecomes(w, IF HashOf(CurrentVersion) = Hash[Starter] THEN "done" ELSE "resetWrite",
                     CurrentVersion)
    /\ UNCHANGED <<dive, rowVars, taskVars, report>>

ResetWrites(w) ==
    /\ writer[w] = "resetWrite"
    /\ WriteDive(Starter, w)
    /\ WriterBecomes(w, "resetVerify", held[w])
    /\ UNCHANGED <<rowVars, taskVars, report>>

ResetVerifies(w) ==
    /\ writer[w] = "resetVerify"
    /\ DiveRevisionChanged(held[w], CurrentVersion)
    /\ WriterBecomes(w, "report", CurrentVersion)
    /\ UNCHANGED <<dive, rowVars, taskVars, report>>

\* Revert takes any existing version and checks neither runs nor versions.
RevertReads(w) ==
    /\ writer[w] = "idle"
    /\ \E v \in 1..CurrentVersion : WriterBecomes(w, "revertWrite", v)
    /\ UNCHANGED <<dive, rowVars, taskVars, report>>

RevertWrites(w) ==
    /\ writer[w] = "revertWrite"
    /\ WriteDive(dive[held[w]].content, w)
    /\ WriterBecomes(w, "revertSnapshot", held[w])
    /\ UNCHANGED <<rowVars, taskVars, report>>

RevertReadsAfter(w) ==
    /\ writer[w] = "revertSnapshot"
    /\ WriterBecomes(w, "report", CurrentVersion)
    /\ UNCHANGED <<dive, rowVars, taskVars, report>>

\* The report route files the starter's report for a version that is the
\* starter and has none; it looks for the row before it saves one.
LoadReads(w) ==
    /\ writer[w] = "idle"
    /\ HashOf(CurrentVersion) = Hash[Starter]
    /\ WriterBecomes(w, "loading", CurrentVersion)
    /\ UNCHANGED <<dive, rowVars, taskVars, report>>

LoadFinds(w) ==
    /\ writer[w] = "loading"
    /\ WriterBecomes(w, IF report[held[w]] = "absent" THEN "report" ELSE "done", held[w])
    /\ UNCHANGED <<dive, rowVars, taskVars, report>>

\* saveDiveReportVersion without a run: the upsert replaces what is there.
SaveReport(w) ==
    /\ writer[w] = "report"
    /\ report' = [report EXCEPT ![held[w]] = "no run"]
    /\ WriterBecomes(w, "done", held[w])
    /\ UNCHANGED <<dive, rowVars, taskVars>>

\* A failed call, or a crash: the route stops where it is.
WriterFails(w) ==
    /\ writer[w] \notin {"idle", "done"}
    /\ WriterBecomes(w, "done", held[w])
    /\ UNCHANGED <<dive, rowVars, taskVars, report>>

-----------------------------------------------------------------------------
RunStep(r) ==
    \/ ReadBefore(r)
    \/ RefuseRequest(r)
    \/ StartRefused(r)
    \/ StartDuckDiveRun(r)
    \/ StartStream(r)
    \/ SetupFailed(r)
    \/ SaveAuthorized(r)
    \/ EditLands(r)
    \/ EditFails(r)
    \/ VerifyDiveRevision(r)
    \/ VerificationFails(r)
    \/ FinishWithoutMutation(r)
    \/ FinishWithMutation(r)
    \/ SaveRunReport(r)
    \/ AbortDuckDiveRun(r)
    \/ HandlerDies(r)
    \/ OrphanEditLands(r)

WriterStep(w) ==
    \/ ResetAdmitted(w)
    \/ ResetReads(w)
    \/ ResetWrites(w)
    \/ ResetVerifies(w)
    \/ RevertReads(w)
    \/ RevertWrites(w)
    \/ RevertReadsAfter(w)
    \/ LoadReads(w)
    \/ LoadFinds(w)
    \/ SaveReport(w)
    \/ WriterFails(w)

Next ==
    \/ \E r \in Runs : RunStep(r)
    \/ \E w \in Writers : WriterStep(w)
    \/ Tick

Spec == Init /\ [][Next]_vars

\* The platform's limit on a chat request, which is enforced.
PlatformKill(r) == lived[r] = MaxDuration /\ (HandlerDies(r) \/ RefuseRequest(r))

\* Time passes, the platform enforces its limit, and clients that were turned
\* away try again.  A crashed handler, a slow model, or a user who never comes
\* back to a run of their own are not excluded.
Fairness ==
    /\ WF_vars(Tick)
    /\ \A r \in Runs : /\ WF_vars(PlatformKill(r))
                       /\ WF_vars(ReadBefore(r))
                       /\ SF_vars(StartDuckDiveRun(r))

FairSpec == Spec /\ Fairness

-----------------------------------------------------------------------------
(* What the runs of a Dive promise. *)

\* Two runs never edit the Dive at once: the rows of a Dive with status
\* 'running' are at most one, across sweeps, aborts and crashed handlers.
AtMostOneRunning ==
    \A q, r \in Runs : status[q] = "running" /\ status[r] = "running" => q = r

\* A row says applied only for a run whose own edit landed, after the version
\* it read and no later than the version it names, and whose named version
\* differs in canonical hash from the one it read.  Text never earns it, and
\* neither does the writing of another handler.
AppliedRunEdited ==
    \A r \in Runs : status[r] = "applied" =>
        /\ \E v \in (before[r] + 1)..after[r] : v <= Len(dive) /\ dive[v].by = r
        /\ HashOf(after[r]) # HashOf(before[r])

\* A verified edit is never lost from the record: when its handler finishes,
\* the row says applied and names the verified version, even if the owner
\* pressed stop, or other requests swept the Dive's rows, in between.
VerifiedEditIsRecorded ==
    \A r \in Runs : phase[r] = "done" /\ mutation[r] # 0 =>
        status[r] = "applied" /\ after[r] = mutation[r]

\* The sweep of startDuckDiveRun never fails a run whose request still lives.
SweepSparesLiveRuns ==
    [][\A r \in Runs : status[r] = "running" /\ status'[r] = "failed" /\ phase'[r] = phase[r]
            => phase[r] \notin Live]_vars

\* A closed row is rewritten in one case only: an abort that came too late
\* for an edit which the handler then verified.
ClosedRunsStayClosed ==
    [][\A r \in Runs : status[r] \in Closed /\ <<status, after>>'  # <<status, after>>
            => \/ status'[r] = status[r] /\ after'[r] = after[r]
               \/ /\ status[r] = "aborted" /\ status'[r] = "applied"
                  /\ phase[r] = "verified" /\ after'[r] = mutation[r]]_vars

\* A report row filed for a run belongs to an applied run and to the version
\* that run's row names, whatever reset, revert and report requests save.
ReportNamesItsRun ==
    \A v \in Versions : report[v] \in Runs =>
        status[report[v]] = "applied" /\ after[report[v]] = v

\* A row whose handler died does not hold the Dive for ever: while a client
\* with an unused request keeps asking, it stops being 'running'.
StaleRunIsReclaimed ==
    \A r, q \in Runs :
        status[r] = "running" /\ status[q] = "none" ~> status[r] # "running"

\* A run starts only from the version that is current when its row is
\* inserted (the documented stale-version rejection).
RunStartsAtCurrentVersion ==
    [][\A r \in Runs : status[r] = "none" /\ status'[r] = "running"
            => before[r] = CurrentVersion]_vars

=============================================================================
