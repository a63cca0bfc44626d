---------------------------- MODULE ScraperPanel ----------------------------
(***************************************************************************)
(* The control buttons of the extension's popup and the copy of the         *)
(* worker's state they are drawn from (popup.js, with the message handler   *)
(* of background.js).  Every change the worker makes is saved and then      *)
(* broadcast; the popup also asks after each of its commands.  How a job    *)
(* gets into the queue is ScraperPopup's, and what the worker does with it  *)
(* is SoldScraper's.                                                        *)
(***************************************************************************)
EXTENDS Integers, FiniteSets, Sequences

CONSTANTS
    Jobs,       \* jobs that may be in the queue
    MaxInbox    \* snapshots on their way to the popup

ASSUME PanelAssumption == MaxInbox \in Nat \ {0}

Absent == "absent"
JobStatus == {"pending", "running", "complete", "error"}

VARIABLES
    job,         \* the status of each job, or Absent
    processing, paused,
    owed,        \* a change was made whose broadcast is still to come
    asked,       \* the popup waits for GET_STATE
    missed,      \* the worker started over, and has sent nothing since
    inbox,       \* snapshots sent and not yet applied
    view         \* the popup's currentState

workVars == <<job, processing, paused>>
viewVars == <<owed, asked, missed, inbox, view>>
panelVars == <<workVars, viewVars>>

Blank == [job |-> [j \in Jobs |-> Absent], processing |-> FALSE, paused |-> FALSE]

PanelInit ==
    /\ job = [j \in Jobs |-> Absent] /\ processing = FALSE /\ paused = FALSE
    /\ owed = FALSE /\ asked = TRUE /\ missed = FALSE /\ inbox = <<>> /\ view = Blank

\* GET_STATE and STATE_UPDATE
Snapshot == [job |-> job, processing |-> processing, paused |-> paused]

\* A change of the worker's state is saved, then broadcast; or broadcast only
\* from a job that runs.
AnnouncedWhileRunning == owed' = \E j \in Jobs : job[j] = "running"
Announced == owed' = TRUE

\* The jobs of one status given another.
Set(from, to) == [j \in Jobs |-> IF job[j] = from THEN to ELSE job[j]]

\* The worker's handler of a message: what it leaves, saved and broadcast
\* whether or not it changed, and the popup asks again.
Command(z, p, q) ==
    /\ job' = z /\ processing' = p /\ paused' = q
    /\ asked' = TRUE
    /\ Announced
    /\ UNCHANGED <<missed, inbox, view>>

-----------------------------------------------------------------------------
(* The buttons, each where the view draws it enabled. *)

\* ADD_JOB of a new slice, from a handler of ScraperPopup.
AddJob(j) ==
    /\ job[j] = Absent
    /\ Command([job EXCEPT ![j] = "pending"], processing, paused)

\* A second START is ignored by the worker.
Start ==
    /\ ~view.processing
    /\ IF processing
       THEN asked' = TRUE /\ UNCHANGED <<workVars, owed, missed, inbox, view>>
       ELSE Command(job, TRUE, FALSE)

\* Pause, or Resume once the view is paused: then it is enabled always.
Pause == view.processing /\ ~view.paused /\ Command(job, processing, TRUE)
Resume == view.paused /\ Command(job, processing, FALSE)

Stop == view.processing /\ Command(Set("running", "pending"), FALSE, FALSE)

\* The view offers no removal of a job it shows running.
RemoveJob(j) ==
    /\ view.job[j] \notin {Absent, "running"}
    /\ Command([job EXCEPT ![j] = Absent], processing, paused)

ClearComplete == Command(Set("complete", Absent), processing, paused)
ClearPending == Command(Set("pending", Absent), processing, paused)

-----------------------------------------------------------------------------
(* The worker, and what the popup learns of it. *)

\* claimNextJob, and what becomes of a running job.
JobMoves(j, status) ==
    /\ processing
    /\ \/ job[j] = "pending" /\ status = "running" /\ ~paused
       \/ job[j] = "running" /\ status \in {"complete", "error", "pending"}
    /\ job' = [job EXCEPT ![j] = status]
    /\ Announced
    /\ UNCHANGED <<processing, paused, asked, missed, inbox, view>>

\* No tab finds a job: the flag of the pause is left as it is.
ProcessingEnds ==
    /\ processing /\ \A j \in Jobs : job[j] \notin {"pending", "running"}
    /\ processing' = FALSE
    /\ Announced
    /\ UNCHANGED <<job, paused, asked, missed, inbox, view>>

\* A worker that starts over has stopped, forgets the broadcast it owed and may
\* leave a question unanswered; it broadcasts nothing itself.
WorkerRestarts ==
    /\ job' = Set("running", "pending") /\ processing' = FALSE /\ paused' = FALSE
    /\ owed' = FALSE /\ asked' \in {asked, FALSE} /\ missed' = TRUE
    /\ UNCHANGED <<inbox, view>>

Sends ==
    /\ Len(inbox) < MaxInbox
    /\ inbox' = Append(inbox, Snapshot)
    /\ missed' = FALSE

Broadcast == owed /\ Sends /\ owed' = FALSE /\ UNCHANGED <<workVars, asked, view>>
AnswerState == asked /\ Sends /\ asked' = FALSE /\ UNCHANGED <<workVars, owed, view>>

\* The whole panel is drawn anew: status, buttons, and each job with its own.
Render(snapshot) == view' = snapshot

ApplySnapshot ==
    /\ inbox # <<>>
    /\ Render(Head(inbox)) /\ inbox' = Tail(inbox)
    /\ UNCHANGED <<workVars, owed, asked, missed>>

PanelReopens ==
    /\ asked' = TRUE /\ inbox' = <<>> /\ view' = Blank
    /\ UNCHANGED <<workVars, owed, missed>>

Working(j) == \E s \in JobStatus : JobMoves(j, s)

PanelNext ==
    \/ \E j \in Jobs : AddJob(j) \/ RemoveJob(j) \/ Working(j)
    \/ Start \/ Pause \/ Resume \/ Stop \/ ClearComplete \/ ClearPending
    \/ ProcessingEnds \/ WorkerRestarts
    \/ Broadcast \/ AnswerState \/ ApplySnapshot
    \/ PanelReopens

PanelSpec == PanelInit /\ [][PanelNext]_panelVars

-----------------------------------------------------------------------------
States == [job : [Jobs -> JobStatus \cup {Absent}], processing : BOOLEAN, paused : BOOLEAN]

PanelTypeOK ==
    /\ Snapshot \in States /\ view \in States
    /\ owed \in BOOLEAN /\ asked \in BOOLEAN /\ missed \in BOOLEAN
    /\ inbox \in Seq(States) /\ Len(inbox) <= MaxInbox

\* When nothing is on its way, the popup shows the worker's state, so no button
\* stays drawn from a state that has passed; only a worker that started over
\* leaves the popup behind, until it sends again.
QuietViewIsCurrent ==
    ~owed /\ ~asked /\ ~missed /\ inbox = <<>> => view = Snapshot

\* The panel follows the worker: a quiet one shows the worker's jobs.
PanelFollowsWorker == PanelTypeOK /\ QuietViewIsCurrent
=============================================================================
