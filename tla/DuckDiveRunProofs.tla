-------------------------- MODULE DuckDiveRunProofs --------------------------
(***************************************************************************)
(* Theorems about DuckDiveRun, for every set of runs and writers, every     *)
(* bound, and every pair of limits with MaxDuration <= StaleAfter.          *)
(*                                                                          *)
(* The inductive invariant IInv ties a run's row to its handler (RowInv)    *)
(* and its snapshots to the versions of the Dive (DiveInv).  Its key is     *)
(* that a running row is no older than its live handler, so that a row old  *)
(* enough for the sweep has no handler left.                                *)
(***************************************************************************)
EXTENDS DuckDiveRun, TLAPS

USE StarterAssumption, BoundAssumption, LifetimeAssumption

\* What a handler and the row it serves know of each other.
RowInv(r) ==
    /\ status[r] = "none" <=> phase[r] \in {"idle", "admitted"}
    /\ phase[r] \in Serving => status[r] \in {"running", "aborted"}
    /\ phase[r] \in Serving /\ status[r] = "running" => age[r] <= lived[r]
    /\ mutation[r] # 0 => phase[r] \in {"verified", "recording", "done", "dead"}
    /\ phase[r] \in {"verified", "recording"} => mutation[r] # 0
    /\ phase[r] \in {"recording", "done"} /\ mutation[r] # 0 => status[r] = "applied"
    /\ status[r] = "applied" => mutation[r] # 0 /\ after[r] = mutation[r]

\* The run's own edit is among the versions after its snapshot, up to u.
Edited(r, u) == \E v \in (before[r] + 1)..u : v <= Len(dive) /\ dive[v].by = r

\* What the snapshots of a run say of the Dive.
DiveInv(r) ==
    /\ before[r] <= Len(dive)
    /\ phase[r] # "idle" => before[r] >= 1
    /\ phase[r] = "edited" => Edited(r, Len(dive))
    /\ mutation[r] # 0 => /\ mutation[r] <= Len(dive)
                          /\ Edited(r, mutation[r])
                          /\ HashOf(mutation[r]) # HashOf(before[r])

\* A writer at work holds an existing version.
WriterInv(w) == writer[w] \in {"idle", "done"} \/ held[w] \in 1..Len(dive)

TypeInv == TypeOK /\ \A w \in Writers : WriterInv(w)

IInv ==
    /\ TypeInv
    /\ AtMostOneRunning
    /\ \A r \in Runs : RowInv(r) /\ DiveInv(r)

\* A Dive only ever gains versions.
DiveKept ==
    /\ dive' \in Seq(Revision)
    /\ Len(dive) <= Len(dive')
    /\ \A v \in 1..Len(dive) : dive'[v] = dive[v]

-----------------------------------------------------------------------------
(* A write appends one version and keeps the others. *)
LEMMA WriteKeeps ==
    ASSUME TypeOK, NEW c \in Content, NEW a \in Author, WriteDive(c, a)
    PROVE  /\ DiveKept
           /\ Len(dive') = Len(dive) + 1 /\ Len(dive') \in Versions
           /\ dive'[Len(dive')].by = a
<1> DEFINE rev == [content |-> c, by |-> a]
<1>1. rev \in Revision
  BY DEF Revision
<1>2. dive \in Seq(Revision) /\ Len(dive) \in Nat
  BY DEF TypeOK
<1>3. dive' = Append(dive, rev) /\ Len(dive) < MaxVersion
  BY DEF WriteDive
<1> HIDE DEF rev
<1>4. /\ dive' \in Seq(Revision)
      /\ Len(dive') = Len(dive) + 1
      /\ \A v \in 1..Len(dive) : dive'[v] = dive[v]
      /\ dive'[Len(dive) + 1] = rev
  BY <1>1, <1>2, <1>3
<1>5. rev.by = a
  BY DEF rev
<1> QED
  BY <1>2, <1>3, <1>4, <1>5 DEF DiveKept, Versions

(* Whatever step is taken, the Dive keeps its versions. *)
LEMMA DiveGrows ==
    ASSUME TypeInv, [Next]_vars
    PROVE  DiveKept /\ Len(dive') \in Versions
<1> USE DEF TypeInv
<1> dive \in Seq(Revision) /\ Len(dive) \in Versions
  BY DEF TypeOK
<1>1. CASE dive' = dive
  BY <1>1 DEF DiveKept, Versions
<1>2. ASSUME NEW r \in Runs, \E c \in Content : WriteDive(c, r)
      PROVE  DiveKept /\ Len(dive') \in Versions
  BY <1>2, WriteKeeps DEF Author
<1>3. ASSUME NEW w \in Writers, \E c \in Content : WriteDive(c, w)
      PROVE  DiveKept /\ Len(dive') \in Versions
  BY <1>3, WriteKeeps DEF Author
<1>4. ASSUME NEW r \in Runs, RunStep(r)
      PROVE  dive' = dive \/ \E c \in Content : WriteDive(c, r)
  BY <1>4 DEF RunStep, ReadBefore, RefuseRequest, StartRefused, Withdraw, StartDuckDiveRun,
       StartStream, SetupFailed, SaveAuthorized, EditLands, EditFails, VerifyDiveRevision,
       VerificationFails, FinishWithoutMutation, FinishWithMutation, SaveRunReport,
       AbortDuckDiveRun, HandlerDies, OrphanEditLands
<1>5. ASSUME NEW w \in Writers, WriterStep(w)
      PROVE  dive' = dive \/ \E c \in Content : WriteDive(c, w)
  <2>1. CASE RevertWrites(w)
    <3>1. held[w] \in 1..Len(dive)
      BY <2>1 DEF RevertWrites, WriterInv
    <3>2. dive[held[w]] \in Revision
      BY <3>1
    <3>3. dive[held[w]].content \in Content
      BY <3>2 DEF Revision
    <3> QED
      BY <2>1, <3>3 DEF RevertWrites
  <2> QED
    BY <1>5, <2>1 DEF WriterStep, ResetAdmitted, ResetReads, ResetWrites, ResetVerifies,
       RevertReads, RevertReadsAfter, LoadReads, LoadFinds, SaveReport, WriterFails
<1>6. dive' = dive \/ (\E r \in Runs : RunStep(r)) \/ (\E w \in Writers : WriterStep(w))
  BY DEF Next, Tick, vars
<1> QED
  BY <1>1, <1>2, <1>3, <1>4, <1>5, <1>6

-----------------------------------------------------------------------------
(* Type correctness. *)

LEMMA InitTypeInv == Init => TypeInv
<1> SUFFICES ASSUME Init PROVE TypeInv
  OBVIOUS
<1> DEFINE rev == [content |-> Starter, by |-> Nobody]
<1>1. rev \in Revision
  BY DEF Revision, Author
<1>2. dive = <<rev>>
  BY DEF Init
<1> HIDE DEF rev
<1>3. dive \in Seq(Revision) /\ Len(dive) = 1
  BY <1>1, <1>2
<1>4. \A w \in Writers : WriterInv(w)
  BY DEF Init, WriterInv
<1> QED
  BY <1>3, <1>4 DEF TypeInv, TypeOK, Init, Versions, Status, Phase, Live, Serving, ReportRow, WriterPhase

\* The types of what a run's step may change besides the Dive.
RunTypes ==
    /\ status \in [Runs -> Status]
    /\ before \in [Runs -> 0..MaxVersion]
    /\ after \in [Runs -> 0..MaxVersion]
    /\ age \in [Runs -> 0..(StaleAfter + 1)]
    /\ phase \in [Runs -> Phase]
    /\ lived \in [Runs -> 0..MaxDuration]
    /\ mutation \in [Runs -> 0..MaxVersion]
    /\ report \in [Versions -> ReportRow]

LEMMA BecomeTyped ==
    ASSUME TypeOK, NEW r \in Runs, NEW p \in Phase, Become(r, p)
    PROVE  phase' \in [Runs -> Phase] /\ lived' \in [Runs -> 0..MaxDuration]
BY DEF TypeOK, Become

LEMMA FinishTyped ==
    ASSUME TypeOK, NEW r \in Runs, NEW s \in Closed, NEW v \in 0..MaxVersion,
           FinishDuckDiveRun(r, s, v)
    PROVE  /\ status' \in [Runs -> Status]
           /\ after' \in [Runs -> 0..MaxVersion]
           /\ age' = age
BY DEF TypeOK, FinishDuckDiveRun, Status

(* A step of a run keeps every variable in its type.                        *)
LEMMA RunKeepsRunTypes ==
    ASSUME TypeOK, NEW r \in Runs, RunStep(r)
    PROVE  RunTypes' /\ UNCHANGED writerVars
<1> USE BecomeTyped, FinishTyped DEF RunTypes, TypeOK, rowVars
<1> Len(dive) \in 0..MaxVersion
  BY DEF Versions
<1> 0 \in 0..MaxVersion /\ 0 \in 0..(StaleAfter + 1)
  OBVIOUS
<1> \A p \in {"idle", "done", "dead", "orphan", "admitted", "recording", "setup", "model",
              "armed", "edited", "spent", "verified"} : p \in Phase
  BY DEF Phase, Live, Serving
<1> "failed" \in Closed /\ "clarification" \in Closed /\ "no_change" \in Closed
  BY DEF Closed
<1> "running" \in Status /\ "failed" \in Status
  BY DEF Status, Closed
<1>1. CASE ReadBefore(r)
  BY <1>1 DEF ReadBefore, CurrentVersion, Versions
<1>2. CASE RefuseRequest(r)
  BY <1>2 DEF RefuseRequest, Withdraw
<1>3. CASE StartRefused(r)
  BY <1>3 DEF StartRefused, Withdraw
<1>4. CASE StartDuckDiveRun(r)
  BY <1>4 DEF StartDuckDiveRun, SweptStatus
<1>5. CASE StartStream(r)
  BY <1>5 DEF StartStream
<1>6. CASE SetupFailed(r)
  BY <1>6 DEF SetupFailed
<1>7. CASE SaveAuthorized(r)
  BY <1>7 DEF SaveAuthorized
<1>8. CASE EditLands(r)
  BY <1>8 DEF EditLands
<1>9. CASE EditFails(r)
  BY <1>9 DEF EditFails
<1>10. CASE VerifyDiveRevision(r)
  BY <1>10 DEF VerifyDiveRevision, CurrentVersion, Versions
<1>11. CASE VerificationFails(r)
  BY <1>11 DEF VerificationFails
<1>12. CASE FinishWithoutMutation(r)
  BY <1>12 DEF FinishWithoutMutation
<1>13. CASE FinishWithMutation(r)
  BY <1>13 DEF FinishWithMutation, Closed
<1>14. CASE SaveRunReport(r)
  BY <1>14 DEF SaveRunReport, ReportRow
<1>15. CASE AbortDuckDiveRun(r)
  BY <1>15 DEF AbortDuckDiveRun, taskVars, Status, Closed
<1>16. CASE HandlerDies(r)
  BY <1>16 DEF HandlerDies
<1>17. CASE OrphanEditLands(r)
  BY <1>17 DEF OrphanEditLands
<1> QED
  BY <1>1, <1>2, <1>3, <1>4, <1>5, <1>6, <1>7, <1>8, <1>9, <1>10, <1>11, <1>12, <1>13, <1>14, <1>15, <1>16, <1>17 DEF RunStep

LEMMA RunKeepsTypes ==
    ASSUME TypeInv, NEW r \in Runs, RunStep(r)
    PROVE  TypeInv'
<1>1. DiveKept /\ Len(dive') \in Versions
  BY DiveGrows DEF Next
<1>2. RunTypes' /\ writer' = writer /\ held' = held
  BY RunKeepsRunTypes DEF TypeInv, writerVars
<1>3. \A w \in Writers : WriterInv(w)'
  <2> TAKE w \in Writers
  <2>1. WriterInv(w) /\ Len(dive) \in Nat
    BY DEF TypeInv, TypeOK
  <2> QED
    BY <1>1, <1>2, <2>1 DEF WriterInv, DiveKept, Versions
<1> QED
  BY <1>1, <1>2, <1>3 DEF TypeInv, TypeOK, DiveKept, RunTypes

LEMMA WriterKeepsTypes ==
    ASSUME TypeInv, NEW w \in Writers, WriterStep(w)
    PROVE  TypeInv' /\ UNCHANGED <<rowVars, taskVars>>
<1>1. DiveKept /\ Len(dive') \in Versions
  BY DiveGrows DEF Next
<1>2. UNCHANGED <<rowVars, taskVars>>
  BY DEF WriterStep, ResetAdmitted, ResetReads, ResetWrites, ResetVerifies, RevertReads,
       RevertWrites, RevertReadsAfter, LoadReads, LoadFinds, SaveReport, WriterFails
<1>3. \E p \in WriterPhase, v \in 1..Len(dive) : WriterBecomes(w, p, v)
  <2>1. writer[w] \notin {"idle", "done"} => held[w] \in 1..Len(dive)
    BY DEF TypeInv, WriterInv
  <2>2. CurrentVersion \in 1..Len(dive)
    BY DEF TypeInv, TypeOK, Versions, CurrentVersion
  <2>3. \A p \in {"idle", "resetting", "resetWrite", "resetVerify", "revertWrite",
                  "revertSnapshot", "loading", "report", "done"} : p \in WriterPhase
    BY DEF WriterPhase
  <2>4. CASE ResetAdmitted(w)
    BY <2>2, <2>3, <2>4 DEF ResetAdmitted
  <2>5. CASE ResetReads(w)
    BY <2>2, <2>3, <2>5 DEF ResetReads
  <2>6. CASE ResetWrites(w)
    BY <2>1, <2>3, <2>6 DEF ResetWrites
  <2>7. CASE ResetVerifies(w)
    BY <2>2, <2>3, <2>7 DEF ResetVerifies
  <2>8. CASE RevertReads(w)
    BY <2>3, <2>8 DEF RevertReads, CurrentVersion
  <2>9. CASE RevertWrites(w)
    BY <2>1, <2>3, <2>9 DEF RevertWrites
  <2>10. CASE RevertReadsAfter(w)
    BY <2>2, <2>3, <2>10 DEF RevertReadsAfter
  <2>11. CASE LoadReads(w)
    BY <2>2, <2>3, <2>11 DEF LoadReads
  <2>12. CASE LoadFinds(w)
    BY <2>1, <2>3, <2>12 DEF LoadFinds
  <2>13. CASE SaveReport(w)
    BY <2>1, <2>3, <2>13 DEF SaveReport
  <2>14. CASE WriterFails(w)
    BY <2>1, <2>3, <2>14 DEF WriterFails
  <2> QED
    BY <2>4, <2>5, <2>6, <2>7, <2>8, <2>9, <2>10, <2>11, <2>12, <2>13, <2>14 DEF WriterStep
<1>4. /\ writer' \in [Writers -> WriterPhase]
      /\ held' \in [Writers -> 0..MaxVersion]
  BY <1>3 DEF WriterBecomes, TypeInv, TypeOK, Versions
<1>5. \A x \in Writers : WriterInv(x)'
  <2> TAKE x \in Writers
  <2>1. WriterInv(x) /\ Len(dive) \in Nat
    BY DEF TypeInv, TypeOK
  <2> QED
    BY <1>1, <1>3, <2>1 DEF WriterInv, DiveKept, Versions, WriterBecomes, TypeInv, TypeOK
<1>6. report' \in [Versions -> ReportRow]
  BY DEF TypeInv, TypeOK, ReportRow, WriterStep, ResetAdmitted, ResetReads, ResetWrites,
       ResetVerifies, RevertReads,
       RevertWrites, RevertReadsAfter, LoadReads, LoadFinds, SaveReport, WriterFails
<1> QED
  BY <1>1, <1>2, <1>4, <1>5, <1>6 DEF TypeInv, TypeOK, DiveKept, rowVars, taskVars

LEMMA TickKeepsTypes ==
    ASSUME TypeInv, Tick
    PROVE  TypeInv'
<1>1. age' \in [Runs -> 0..(StaleAfter + 1)]
  BY DEF Tick, TypeInv, TypeOK
<1>2. lived' \in [Runs -> 0..MaxDuration]
  BY DEF Tick, TypeInv, TypeOK
<1> QED
  BY <1>1, <1>2 DEF Tick, TypeInv, TypeOK, WriterInv, writerVars

LEMMA NextTypeInv == TypeInv /\ [Next]_vars => TypeInv'
<1> SUFFICES ASSUME TypeInv, [Next]_vars PROVE TypeInv'
  OBVIOUS
<1>1. CASE UNCHANGED vars
  BY <1>1 DEF vars, rowVars, taskVars, writerVars, TypeInv, TypeOK, WriterInv
<1> QED
  BY <1>1, RunKeepsTypes, WriterKeepsTypes, TickKeepsTypes DEF Next

(* Every variable keeps its type, and a route at work on a version of the   *)
(* Dive holds a version that exists.                                        *)
THEOREM TypeCorrect == Spec => []TypeOK
<1>1. TypeInv => TypeOK
  BY DEF TypeInv
<1> QED
  BY <1>1, InitTypeInv, NextTypeInv, PTL DEF Spec

-----------------------------------------------------------------------------
(* What a step leaves alone. *)

\* Nothing RowInv(q) and DiveInv(q) read, besides the Dive, has changed.
SameRun(q) ==
    /\ status'[q] = status[q] /\ after'[q] = after[q] /\ age'[q] = age[q]
    /\ phase'[q] = phase[q] /\ lived'[q] = lived[q]
    /\ before'[q] = before[q] /\ mutation'[q] = mutation[q]

\* The sweep failed the row and nothing else changed.
SweptRun(q) ==
    /\ Stale(q) /\ status'[q] = "failed"
    /\ after'[q] = after[q] /\ age'[q] = age[q]
    /\ phase'[q] = phase[q] /\ lived'[q] = lived[q]
    /\ before'[q] = before[q] /\ mutation'[q] = mutation[q]

LEMMA OtherRuns ==
    ASSUME TypeOK, NEW r \in Runs, RunStep(r), NEW q \in Runs, q # r
    PROVE  SameRun(q) \/ (StartDuckDiveRun(r) /\ SweptRun(q))
<1> USE DEF SameRun, SweptRun, TypeOK, Become, rowVars
<1>1. CASE ReadBefore(r)
  BY <1>1 DEF ReadBefore
<1>2. CASE RefuseRequest(r)
  BY <1>2 DEF RefuseRequest, Withdraw
<1>3. CASE StartRefused(r)
  BY <1>3 DEF StartRefused, Withdraw
<1>4. CASE StartDuckDiveRun(r)
  BY <1>4 DEF StartDuckDiveRun, SweptStatus
<1>5. CASE StartStream(r)
  BY <1>5 DEF StartStream
<1>6. CASE SetupFailed(r)
  BY <1>6 DEF SetupFailed, FinishDuckDiveRun
<1>7. CASE SaveAuthorized(r)
  BY <1>7 DEF SaveAuthorized
<1>8. CASE EditLands(r)
  BY <1>8 DEF EditLands
<1>9. CASE EditFails(r)
  BY <1>9 DEF EditFails
<1>10. CASE VerifyDiveRevision(r)
  BY <1>10 DEF VerifyDiveRevision
<1>11. CASE VerificationFails(r)
  BY <1>11 DEF VerificationFails
<1>12. CASE FinishWithoutMutation(r)
  BY <1>12 DEF FinishWithoutMutation, FinishDuckDiveRun
<1>13. CASE FinishWithMutation(r)
  BY <1>13 DEF FinishWithMutation, FinishDuckDiveRun
<1>14. CASE SaveRunReport(r)
  BY <1>14 DEF SaveRunReport
<1>15. CASE AbortDuckDiveRun(r)
  BY <1>15 DEF AbortDuckDiveRun, taskVars
<1>16. CASE HandlerDies(r)
  BY <1>16 DEF HandlerDies
<1>17. CASE OrphanEditLands(r)
  BY <1>17 DEF OrphanEditLands
<1> QED
  BY <1>1, <1>2, <1>3, <1>4, <1>5, <1>6, <1>7, <1>8, <1>9, <1>10, <1>11, <1>12, <1>13, <1>14, <1>15, <1>16, <1>17 DEF RunStep

(* A version keeps its hash, and an edit of a run stays where it is.        *)
LEMMA HashKept ==
    ASSUME TypeInv, DiveKept, NEW v \in 1..Len(dive)
    PROVE  HashOf(v)' = HashOf(v)
BY DEF DiveKept, HashOf

LEMMA EditedKept ==
    ASSUME TypeOK, DiveKept, NEW r \in Runs, NEW u \in Nat, NEW t \in Nat, u <= t,
           before'[r] = before[r], Edited(r, u)
    PROVE  \E v \in (before'[r] + 1)..t : v <= Len(dive') /\ dive'[v].by = r
<1>1. PICK v \in (before[r] + 1)..u : v <= Len(dive) /\ dive[v].by = r
  BY DEF Edited
<1>2. before[r] \in Nat /\ Len(dive) \in Nat /\ Len(dive') \in Nat
  BY DEF TypeOK, DiveKept
<1>3. v \in 1..Len(dive) /\ v \in (before'[r] + 1)..t
  BY <1>1, <1>2
<1> QED
  BY <1>1, <1>2, <1>3 DEF DiveKept

(* A run whose snapshots did not move keeps what they say of the Dive.      *)
LEMMA DiveInvKept ==
    ASSUME TypeInv, DiveKept, NEW r \in Runs, DiveInv(r),
           before'[r] = before[r], mutation'[r] = mutation[r],
           phase[r] # "idle",
           phase'[r] # "edited" \/ phase[r] = "edited"
    PROVE  DiveInv(r)'
<1> Len(dive) \in Nat /\ Len(dive') \in Nat /\ Len(dive) <= Len(dive')
  BY DEF TypeInv, TypeOK, DiveKept
<1> before[r] \in Nat /\ mutation[r] \in Nat
  BY DEF TypeInv, TypeOK
<1>1. before[r] \in 1..Len(dive)
  BY DEF DiveInv
<1>2. phase'[r] = "edited" => Edited(r, Len(dive))'
  BY ZenonT(60), EditedKept DEF DiveInv, TypeInv, Edited
<1>3. ASSUME mutation[r] # 0
      PROVE  Edited(r, mutation[r])'
  <2> DEFINE u == mutation[r]
  <2>1. TypeOK /\ u \in Nat /\ u <= u /\ Edited(r, u)
    BY <1>3 DEF DiveInv, TypeInv
  <2>2. u' = u
    OBVIOUS
  <2> HIDE DEF u
  <2>3. \E v \in (before'[r] + 1)..u : v <= Len(dive') /\ dive'[v].by = r
    BY <2>1, EditedKept
  <2> QED
    BY <2>2, <2>3 DEF Edited, u
<1>4. ASSUME mutation[r] # 0
      PROVE  HashOf(mutation[r])' # HashOf(before[r])'
  <2>1. mutation[r] \in 1..Len(dive) /\ HashOf(mutation[r]) # HashOf(before[r])
    BY <1>4 DEF DiveInv
  <2>2. dive'[mutation[r]] = dive[mutation[r]] /\ dive'[before[r]] = dive[before[r]]
    BY <1>1, <2>1 DEF DiveKept
  <2> QED
    BY <2>1, <2>2 DEF HashOf
<1> QED
  BY <1>1, <1>2, <1>3, <1>4 DEF DiveInv

(* A run that has not sent a request yet holds nothing.                     *)
LEMMA DiveInvIdle ==
    ASSUME TypeInv, DiveKept, NEW r \in Runs, DiveInv(r), RowInv(r),
           phase[r] = "idle", SameRun(r)
    PROVE  DiveInv(r)'
BY DEF DiveInv, RowInv, SameRun, DiveKept, TypeInv, TypeOK

(* A row the sweep may fail has no handler left: it would be older than     *)
(* MaxDuration, and so would be its request.                                *)
LEMMA StaleHasNoHandler ==
    ASSUME TypeOK, NEW q \in Runs, RowInv(q), Stale(q)
    PROVE  /\ phase[q] \in {"done", "dead", "orphan"}
           /\ mutation[q] # 0 => phase[q] = "dead"
<1>1. status[q] = "running" /\ age[q] > StaleAfter
  BY DEF Stale
<1>2. lived[q] <= MaxDuration /\ lived[q] \in Nat /\ age[q] \in Nat
  BY DEF TypeOK
<1>3. phase[q] \notin Serving
  BY <1>1, <1>2 DEF RowInv
<1>4. phase[q] \notin {"idle", "admitted"}
  BY <1>1 DEF RowInv
<1>5. phase[q] # "recording"
  BY <1>1 DEF RowInv
<1>6. phase[q] \in Phase
  BY DEF TypeOK
<1> QED
  BY <1>1, <1>3, <1>4, <1>5, <1>6 DEF Phase, Live, RowInv
(* The rows and handlers of other runs are out of reach, or swept.          *)
LEMMA OtherRunKeeps ==
    ASSUME TypeInv, DiveKept, NEW q \in Runs, RowInv(q), DiveInv(q),
           SameRun(q) \/ SweptRun(q)
    PROVE  RowInv(q)' /\ DiveInv(q)'
<1>1. CASE SameRun(q)
  <2>1. RowInv(q)'
    BY <1>1 DEF SameRun, RowInv
  <2>2. DiveInv(q)'
    <3>1. CASE phase[q] = "idle"
      BY <1>1, <3>1, DiveInvIdle
    <3>2. CASE phase[q] # "idle"
      BY <1>1, <3>2, DiveInvKept DEF SameRun
    <3> QED
      BY <3>1, <3>2
  <2> QED
    BY <2>1, <2>2
<1>2. CASE SweptRun(q)
  <2>1. /\ phase[q] \in {"done", "dead", "orphan"}
        /\ mutation[q] # 0 => phase[q] = "dead"
    BY <1>2, StaleHasNoHandler DEF SweptRun, TypeInv
  <2>2. status[q] = "running"
    BY <1>2 DEF SweptRun, Stale
  <2>3. RowInv(q)'
    BY <1>2, <2>1, <2>2 DEF SweptRun, RowInv, Serving
  <2>4. DiveInv(q)'
    BY <1>2, <2>1, DiveInvKept DEF SweptRun
  <2> QED
    BY <2>3, <2>4
<1> QED
  BY <1>1, <1>2

(* A run's own step keeps its row and its handler together.                 *)
LEMMA OwnRowKeeps ==
    ASSUME TypeInv, NEW r \in Runs, RunStep(r), RowInv(r), DiveInv(r)
    PROVE  RowInv(r)'
<1> USE DEF TypeInv, TypeOK, RowInv, Become, Serving, Live, rowVars
<1>1. CASE ReadBefore(r)
  BY <1>1 DEF ReadBefore
<1>2. CASE RefuseRequest(r)
  BY <1>2 DEF RefuseRequest, Withdraw
<1>3. CASE StartRefused(r)
  BY <1>3 DEF StartRefused, Withdraw
<1>4. CASE StartDuckDiveRun(r)
  BY <1>4 DEF StartDuckDiveRun, SweptStatus
<1>5. CASE StartStream(r)
  BY <1>5 DEF StartStream
<1>6. CASE SetupFailed(r)
  BY <1>6 DEF SetupFailed, FinishDuckDiveRun, Finishable
<1>7. CASE SaveAuthorized(r)
  BY <1>7 DEF SaveAuthorized
<1>8. CASE EditLands(r)
  BY <1>8 DEF EditLands
<1>9. CASE EditFails(r)
  BY <1>9 DEF EditFails
<1>10. CASE VerifyDiveRevision(r)
  BY <1>10 DEF VerifyDiveRevision, CurrentVersion, Versions
<1>11. CASE VerificationFails(r)
  BY <1>11 DEF VerificationFails
<1>12. CASE FinishWithoutMutation(r)
  BY <1>12 DEF FinishWithoutMutation, FinishDuckDiveRun, Finishable
<1>13. CASE FinishWithMutation(r)
  BY <1>13 DEF FinishWithMutation, FinishDuckDiveRun, Finishable
<1>14. CASE SaveRunReport(r)
  BY <1>14 DEF SaveRunReport
<1>15. CASE AbortDuckDiveRun(r)
  BY <1>15 DEF AbortDuckDiveRun, taskVars
<1>16. CASE HandlerDies(r)
  BY <1>16 DEF HandlerDies
<1>17. CASE OrphanEditLands(r)
  BY <1>17 DEF OrphanEditLands
<1> QED
  BY <1>1, <1>2, <1>3, <1>4, <1>5, <1>6, <1>7, <1>8, <1>9, <1>10, <1>11, <1>12, <1>13, <1>14, <1>15, <1>16, <1>17 DEF RunStep
(* A run's own step keeps what its snapshots say of the Dive.               *)
LEMMA OwnDiveKeeps ==
    ASSUME TypeInv, NEW r \in Runs, RunStep(r), RowInv(r), DiveInv(r)
    PROVE  DiveInv(r)'
<1> TypeOK
  BY DEF TypeInv
<1> /\ Len(dive) \in Nat /\ Len(dive) >= 1
    /\ before[r] \in Nat /\ mutation[r] \in Nat
  BY DEF TypeOK, Versions
<1>1. DiveKept
  BY DiveGrows DEF Next
<1>2. CASE ReadBefore(r)
  <2>1. mutation[r] = 0 /\ mutation' = mutation /\ dive' = dive
    BY <1>2 DEF ReadBefore, RowInv
  <2>2. before'[r] = Len(dive) /\ phase'[r] = "admitted"
    BY <1>2 DEF ReadBefore, CurrentVersion, Become, TypeOK
  <2> QED
    BY <2>1, <2>2 DEF DiveInv
<1>3. CASE RefuseRequest(r) \/ StartRefused(r)
  <2>1. mutation[r] = 0 /\ mutation' = mutation /\ dive' = dive
    BY <1>3 DEF RefuseRequest, StartRefused, Withdraw, RowInv
  <2>2. before'[r] = 0 /\ phase'[r] = "idle"
    BY <1>3 DEF RefuseRequest, StartRefused, Withdraw, Become, TypeOK
  <2> QED
    BY <2>1, <2>2 DEF DiveInv
<1>4. CASE EditLands(r)
  <2>1. mutation[r] = 0 /\ mutation' = mutation /\ before' = before /\ before[r] \in 1..Len(dive)
    BY <1>4 DEF EditLands, RowInv, DiveInv
  <2>2. Len(dive') = Len(dive) + 1 /\ dive'[Len(dive')].by = r
    BY <1>4, WriteKeeps DEF EditLands, Author
  <2>3. Edited(r, Len(dive))'
    BY <2>1, <2>2 DEF Edited
  <2> QED
    BY <2>1, <2>2, <2>3 DEF DiveInv
<1>5. CASE VerifyDiveRevision(r)
  <2>1. /\ dive' = dive /\ before' = before /\ mutation'[r] = Len(dive)
        /\ phase[r] = "edited" /\ phase'[r] = "verified"
        /\ HashOf(Len(dive)) # HashOf(before[r])
    BY <1>5 DEF VerifyDiveRevision, DiveRevisionChanged, CurrentVersion, Become, TypeOK
  <2>2. Edited(r, Len(dive)) /\ before[r] \in 1..Len(dive)
    BY <2>1 DEF DiveInv
  <2>3. Edited(r, mutation[r])'
    BY <2>1, <2>2 DEF Edited
  <2>4. HashOf(mutation[r])' # HashOf(before[r])'
    BY <2>1 DEF HashOf
  <2> QED
    BY <2>1, <2>2, <2>3, <2>4 DEF DiveInv
<1>6. CASE \/ StartDuckDiveRun(r) \/ StartStream(r) \/ SetupFailed(r) \/ SaveAuthorized(r)
           \/ EditFails(r) \/ VerificationFails(r) \/ FinishWithoutMutation(r)
           \/ FinishWithMutation(r) \/ SaveRunReport(r) \/ AbortDuckDiveRun(r)
           \/ HandlerDies(r) \/ OrphanEditLands(r)
  <2>1. /\ before' = before /\ mutation' = mutation
        /\ phase[r] # "idle"
        /\ phase'[r] = "edited" => phase[r] = "edited"
    BY <1>6 DEF TypeOK, RowInv, Become, Live, taskVars, StartDuckDiveRun, StartStream, SetupFailed,
       SaveAuthorized, EditFails, VerificationFails, FinishWithoutMutation, FinishWithMutation,
       SaveRunReport, AbortDuckDiveRun, HandlerDies, OrphanEditLands
  <2> QED
    BY <1>1, <2>1, DiveInvKept
<1> QED
  BY <1>2, <1>3, <1>4, <1>5, <1>6 DEF RunStep

-----------------------------------------------------------------------------
(* The inductive invariant. *)

(* Only the transaction that starts a run makes a row running.              *)
LEMMA RunningBefore ==
    ASSUME TypeOK, NEW r \in Runs, RunStep(r), NEW q \in Runs, status'[q] = "running"
    PROVE  \/ status[q] = "running"
           \/ q = r /\ StartDuckDiveRun(r)
<1>1. CASE q # r
  BY <1>1, OtherRuns DEF SameRun, SweptRun
<1>2. CASE q = r
  BY <1>2 DEF TypeOK, FinishDuckDiveRun, rowVars, RunStep, ReadBefore, RefuseRequest, StartRefused,
     Withdraw, StartStream, SetupFailed, SaveAuthorized, EditLands, EditFails, VerifyDiveRevision,
     VerificationFails, FinishWithoutMutation, FinishWithMutation, SaveRunReport,
     AbortDuckDiveRun, HandlerDies, OrphanEditLands
<1> QED
  BY <1>1, <1>2

LEMMA OneRunningKept ==
    ASSUME TypeOK, AtMostOneRunning, NEW r \in Runs, RunStep(r)
    PROVE  AtMostOneRunning'
<1>1. SUFFICES ASSUME NEW p \in Runs, NEW q \in Runs, status'[p] = "running", status'[q] = "running"
               PROVE  p = q
  BY DEF AtMostOneRunning
<1>2. CASE StartDuckDiveRun(r)
  \* Every running row is stale, so the sweep leaves r alone.
  <2>1. \A x \in Runs \ {r} : status'[x] # "running"
    BY <1>2 DEF StartDuckDiveRun, SweptStatus, Blocking, TypeOK
  <2> QED
    BY <1>1, <2>1
<1>3. CASE ~StartDuckDiveRun(r)
  BY <1>1, <1>3, RunningBefore DEF AtMostOneRunning
<1> QED
  BY <1>2, <1>3

LEMMA RunKeepsInv ==
    ASSUME IInv, NEW r \in Runs, RunStep(r)
    PROVE  IInv'
<1> USE DEF IInv
<1>1. DiveKept
  BY DiveGrows DEF Next
<1>2. \A q \in Runs : RowInv(q)' /\ DiveInv(q)'
  <2> TAKE q \in Runs
  <2>1. CASE q = r
    BY <2>1, OwnRowKeeps, OwnDiveKeeps
  <2>2. CASE q # r
    BY <1>1, <2>2, OtherRuns, OtherRunKeeps DEF TypeInv
  <2> QED
    BY <2>1, <2>2
<1>3. AtMostOneRunning'
  BY OneRunningKept DEF TypeInv
<1> QED
  BY <1>2, <1>3, RunKeepsTypes

LEMMA WriterKeepsInv ==
    ASSUME IInv, NEW w \in Writers, WriterStep(w)
    PROVE  IInv'
<1>1. TypeInv' /\ UNCHANGED <<rowVars, taskVars>>
  BY WriterKeepsTypes DEF IInv
<1>2. DiveKept
  BY DiveGrows DEF IInv, Next
<1>3. \A q \in Runs : SameRun(q)
  BY <1>1 DEF SameRun, rowVars, taskVars
<1>4. \A q \in Runs : RowInv(q)' /\ DiveInv(q)'
  BY <1>2, <1>3, OtherRunKeeps DEF IInv
<1>5. AtMostOneRunning'
  BY <1>1 DEF IInv, AtMostOneRunning, rowVars
<1> QED
  BY <1>1, <1>4, <1>5 DEF IInv

(* A minute passes for a running row and for its live handler alike.        *)
LEMMA TickKeepsInv ==
    ASSUME IInv, Tick
    PROVE  IInv'
<1> /\ TypeOK /\ TypeInv
  BY DEF IInv, TypeInv
<1>1. UNCHANGED <<dive, status, after, phase, before, mutation>>
  BY DEF Tick
<1>2. \A q \in Runs : RowInv(q)'
  <2> TAKE q \in Runs
  <2>1. RowInv(q)
    BY DEF IInv
  <2>2. ASSUME phase[q] \in Serving, status[q] = "running"
        PROVE  age'[q] <= lived'[q]
    <3>1. age[q] \in Nat /\ lived[q] \in Nat /\ age[q] <= lived[q]
      BY <2>1, <2>2 DEF RowInv, TypeOK
    <3>2. age'[q] <= age[q] + 1 /\ lived'[q] = lived[q] + 1
      BY <2>2, <3>1 DEF Tick, Live
    <3>3. age'[q] \in Int
      BY <3>1 DEF Tick
    <3> QED
      BY <3>1, <3>2, <3>3
  <2> QED
    BY <1>1, <2>1, <2>2 DEF RowInv
<1>3. \A q \in Runs : DiveInv(q)'
  BY <1>1 DEF IInv, DiveInv, Edited, HashOf
<1> QED
  BY <1>1, <1>2, <1>3, TickKeepsTypes DEF IInv, AtMostOneRunning

LEMMA InitIInv == Init => IInv
<1> SUFFICES ASSUME Init PROVE IInv
  OBVIOUS
<1>1. Len(dive) = 1
  BY DEF Init
<1>2. \A r \in Runs : RowInv(r) /\ DiveInv(r)
  <2> TAKE r \in Runs
  <2>1. /\ phase[r] = "idle" /\ status[r] = "none"
        /\ before[r] = 0 /\ mutation[r] = 0
    BY DEF Init
  <2>2. RowInv(r)
    BY <2>1 DEF RowInv, Serving
  <2> QED
    BY <1>1, <2>1, <2>2 DEF DiveInv
<1>3. AtMostOneRunning
  BY DEF Init, AtMostOneRunning
<1> QED
  BY <1>2, <1>3, InitTypeInv DEF IInv

LEMMA NextIInv == IInv /\ [Next]_vars => IInv'
<1> SUFFICES ASSUME IInv, [Next]_vars PROVE IInv'
  OBVIOUS
<1>1. CASE UNCHANGED vars
  BY <1>1 DEF vars, rowVars, taskVars, writerVars, IInv, TypeInv, TypeOK, WriterInv,
     AtMostOneRunning, RowInv, DiveInv, Edited, HashOf
<1> QED
  BY <1>1, RunKeepsInv, WriterKeepsInv, TickKeepsInv DEF Next

LEMMA Invariance == Spec => []IInv
BY InitIInv, NextIInv, PTL DEF Spec

-----------------------------------------------------------------------------
(* What follows from it. *)

(* Two runs never edit the Dive at once: at most one row is running.        *)
THEOREM OneRunningRun == Spec => []AtMostOneRunning
<1>1. IInv => AtMostOneRunning
  BY DEF IInv
<1> QED
  BY <1>1, Invariance, PTL

(* A row says applied only after an edit of its own run, later than the     *)
(* version read and not after the version named, and with another hash.     *)
THEOREM AppliedRunsEdited == Spec => []AppliedRunEdited
<1>1. IInv => AppliedRunEdited
  <2> SUFFICES ASSUME IInv, NEW r \in Runs, status[r] = "applied"
               PROVE  /\ \E v \in (before[r] + 1)..after[r] : v <= Len(dive) /\ dive[v].by = r
                      /\ HashOf(after[r]) # HashOf(before[r])
    BY DEF AppliedRunEdited
  <2>1. mutation[r] # 0 /\ after[r] = mutation[r]
    BY DEF IInv, RowInv
  <2>2. Edited(r, mutation[r]) /\ HashOf(mutation[r]) # HashOf(before[r])
    BY <2>1 DEF IInv, DiveInv
  <2> QED
    BY <2>1, <2>2 DEF Edited
<1> QED
  BY <1>1, Invariance, PTL

(* A verified edit is on record when its handler is done, also after a stop *)
(* that came too late and after the sweeps of other requests.               *)
THEOREM VerifiedEditsRecorded == Spec => []VerifiedEditIsRecorded
<1>1. IInv => VerifiedEditIsRecorded
  BY DEF IInv, RowInv, VerifiedEditIsRecorded
<1> QED
  BY <1>1, Invariance, PTL
(* The sweep never fails a run whose request still lives: its clock would   *)
(* show more than MaxDuration.                                              *)
THEOREM SweepSparesLive == Spec => SweepSparesLiveRuns
<1> DEFINE Spares == \A r \in Runs :
             status[r] = "running" /\ status'[r] = "failed" /\ phase'[r] = phase[r]
                => phase[r] \notin Live
<1>1. IInv /\ [Next]_vars => [Spares]_vars
  <2> SUFFICES ASSUME IInv, Next, NEW q \in Runs,
                      status[q] = "running", status'[q] = "failed", phase'[q] = phase[q]
               PROVE  phase[q] \notin Live
    BY DEF Spares
  <2> TypeOK /\ RowInv(q)
    BY DEF IInv, TypeInv
  <2>1. PICK r \in Runs : RunStep(r)
    BY DEF Next, WriterStep, ResetAdmitted, ResetReads, ResetWrites, ResetVerifies, RevertReads,
       RevertWrites, RevertReadsAfter, LoadReads, LoadFinds, SaveReport, WriterFails, Tick, rowVars
  <2>2. CASE q # r
    <3>1. Stale(q)
      BY <2>1, <2>2, OtherRuns DEF SameRun, SweptRun
    <3> QED
      BY <3>1, StaleHasNoHandler DEF Live, Serving
  <2>3. CASE q = r
    \* The run's own steps to "failed" end its handler as well.
    BY <2>1, <2>3 DEF TypeOK, RunStep, Become, FinishDuckDiveRun, rowVars, ReadBefore,
       RefuseRequest, StartRefused, Withdraw, StartDuckDiveRun, StartStream, SetupFailed,
       SaveAuthorized, EditLands, EditFails, VerifyDiveRevision, VerificationFails,
       FinishWithoutMutation, FinishWithMutation, SaveRunReport, AbortDuckDiveRun, HandlerDies,
       OrphanEditLands
  <2> QED
    BY <2>2, <2>3
<1> QED
  BY <1>1, Invariance, PTL DEF Spec, SweepSparesLiveRuns

(* A step rewrites a closed row in one case only.                           *)
LEMMA ClosedRowKept ==
    ASSUME IInv, [Next]_vars, NEW q \in Runs, status[q] \in Closed
    PROVE  \/ status'[q] = status[q] /\ after'[q] = after[q]
           \/ /\ status[q] = "aborted" /\ status'[q] = "applied"
              /\ phase[q] = "verified" /\ after'[q] = mutation[q]
<1> TypeOK /\ RowInv(q)
  BY DEF IInv, TypeInv
<1> status[q] # "running" /\ status[q] # "none"
  BY DEF Closed
<1>1. CASE <<status, after>>' = <<status, after>>
  BY <1>1
<1>2. ASSUME NEW r \in Runs, RunStep(r)
      PROVE  \/ status'[q] = status[q] /\ after'[q] = after[q]
             \/ /\ status[q] = "aborted" /\ status'[q] = "applied"
                /\ phase[q] = "verified" /\ after'[q] = mutation[q]
  <2>1. CASE q # r
    BY <1>2, <2>1, OtherRuns DEF SameRun, SweptRun, Stale
  <2>2. CASE q = r /\ FinishWithMutation(r)
    BY <2>2 DEF TypeOK, FinishWithMutation, FinishDuckDiveRun, Finishable
  <2>3. CASE q = r /\ (SetupFailed(r) \/ FinishWithoutMutation(r))
    BY <2>3 DEF TypeOK, SetupFailed, FinishWithoutMutation, FinishDuckDiveRun, Finishable
  <2>4. CASE q = r /\ StartDuckDiveRun(r)
    BY <2>4 DEF StartDuckDiveRun, RowInv
  <2>5. CASE q = r /\ AbortDuckDiveRun(r)
    BY <2>5 DEF AbortDuckDiveRun
  <2> QED
    BY <1>1, <1>2, <2>1, <2>2, <2>3, <2>4, <2>5 DEF RunStep, rowVars, ReadBefore, RefuseRequest,
       StartRefused, Withdraw, StartStream, SaveAuthorized, EditLands, EditFails,
       VerifyDiveRevision, VerificationFails, SaveRunReport, HandlerDies, OrphanEditLands
<1>3. ASSUME NEW w \in Writers, WriterStep(w)
      PROVE  <<status, after>>' = <<status, after>>
  BY <1>3, WriterKeepsTypes DEF IInv, rowVars
<1> QED
  BY <1>1, <1>2, <1>3 DEF Next, Tick, vars, rowVars

(* A closed row is rewritten only by a handler that verified an edit after  *)
(* the owner had pressed stop.                                              *)
THEOREM ClosedStayClosed == Spec => ClosedRunsStayClosed
<1> DEFINE Stays == \A r \in Runs :
             status[r] \in Closed /\ <<status, after>>' # <<status, after>>
                => \/ status'[r] = status[r] /\ after'[r] = after[r]
                   \/ /\ status[r] = "aborted" /\ status'[r] = "applied"
                      /\ phase[r] = "verified" /\ after'[r] = mutation[r]
<1>1. IInv /\ [Next]_vars => [Stays]_vars
  BY ClosedRowKept DEF Stays
<1> QED
  BY <1>1, Invariance, PTL DEF Spec, ClosedRunsStayClosed

(* Only the requests that save a report touch the report rows.              *)
LEMMA ReportChange ==
    ASSUME IInv, [Next]_vars, NEW v \in Versions, report'[v] # report[v]
    PROVE  \/ report'[v] = "no run"
           \/ \E r \in Runs : /\ report'[v] = r /\ v = mutation[r] /\ phase[r] = "recording"
                             /\ UNCHANGED <<status, after>>
<1> USE DEF IInv, TypeInv, TypeOK
<1>1. ASSUME NEW r \in Runs, RunStep(r)
      PROVE  /\ report'[v] = r /\ v = mutation[r] /\ phase[r] = "recording"
             /\ UNCHANGED <<status, after>>
  <2>1. SaveRunReport(r)
    BY <1>1 DEF RunStep, ReadBefore, RefuseRequest, StartRefused, Withdraw, StartDuckDiveRun,
       StartStream, SetupFailed, SaveAuthorized, EditLands, EditFails, VerifyDiveRevision,
       VerificationFails, FinishWithoutMutation, FinishWithMutation, AbortDuckDiveRun,
       HandlerDies, OrphanEditLands
  <2> QED
    BY <2>1 DEF SaveRunReport, ReportedVersion, rowVars
<1>2. ASSUME NEW w \in Writers, WriterStep(w)
      PROVE  report'[v] = "no run"
  BY <1>2 DEF WriterStep, ResetAdmitted, ResetReads, ResetWrites, ResetVerifies, RevertReads,
     RevertWrites, RevertReadsAfter, LoadReads, LoadFinds, SaveReport, WriterFails
<1> QED
  BY <1>1, <1>2 DEF Next, Tick, vars

(* A report row of a run names the version of that run's applied row, for   *)
(* good: applied rows are final.                                            *)
THEOREM ReportsNameTheirRun == Spec => []ReportNamesItsRun
<1>1. Init => ReportNamesItsRun
  BY RunAssumption DEF Init, ReportNamesItsRun
<1>2. IInv /\ ReportNamesItsRun /\ [Next]_vars => ReportNamesItsRun'
  <2> SUFFICES ASSUME IInv, ReportNamesItsRun, [Next]_vars, NEW v \in Versions, report'[v] \in Runs
               PROVE  status'[report'[v]] = "applied" /\ after'[report'[v]] = v
    BY DEF ReportNamesItsRun
  <2>1. CASE report'[v] = report[v]
    BY <2>1, ClosedRowKept DEF ReportNamesItsRun, Closed
  <2>2. CASE report'[v] # report[v]
    <3>1. PICK r \in Runs : /\ report'[v] = r /\ v = mutation[r] /\ phase[r] = "recording"
                            /\ UNCHANGED <<status, after>>
      BY <2>2, ReportChange, RunAssumption
    <3>2. mutation[r] # 0 /\ status[r] = "applied" /\ after[r] = mutation[r]
      BY <3>1 DEF IInv, RowInv
    <3> QED
      BY <3>1, <3>2
  <2> QED
    BY <2>1, <2>2
<1> QED
  BY <1>1, <1>2, Invariance, PTL DEF Spec
=============================================================================
