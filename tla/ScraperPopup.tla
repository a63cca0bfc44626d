---------------------------- MODULE ScraperPopup ----------------------------
(***************************************************************************)
(* The popup of the browser extension (popup.js) with the message handler   *)
(* it talks to (background.js): the cascading selects, filled from a        *)
(* postcode dataset that may be replaced under them, and the handlers that  *)
(* queue slices one message at a time.                                      *)
(*                                                                          *)
(* The popup may be closed and opened at any moment, which ends its         *)
(* handlers.  What the worker does with a job is SoldScraper's; here a job  *)
(* only fails or goes.  The buttons are ScraperPanel's.                     *)
(***************************************************************************)
EXTENDS Integers, FiniteSets, Sequences, SequencesExt

CONSTANTS
    Datasets,     \* postcode files the worker may fetch: sets of localities
    Types,        \* property types offered
    PlanFiles,    \* plans the user may import: sequences of slices
    NoChoice,     \* the placeholder of a select
    Handlers,     \* popup handlers in progress at once
    MaxJobs       \* jobs ever queued: ids

ASSUME PopupAssumption ==
    /\ IsFiniteSet(Handlers) /\ MaxJobs \in Nat
    /\ \A d \in Datasets : IsFiniteSet(d) /\ \A r \in d :
          r = [s |-> r.s, p |-> r.p, l |-> r.l] /\ NoChoice \notin {r.s, r.p, r.l}
    /\ \A file \in PlanFiles : file \in Seq(ToSet(file))
    /\ NoChoice \notin Types

Filters == {"plain", "inverted"}     \* a minimum above its maximum is inverted

VARIABLES
    stored,      \* postcodeData in the extension's storage
    postcodes,   \* the popup's copy of it
    load,        \* where loadPostcodeData stands; one at a time
    sel,         \* the values of the four selects
    pcOptions,   \* options of the postcode select
    subOptions,  \* options of the suburb select
    addAll,      \* the Add All button is enabled
    handler,     \* what each handler has yet to send
    queue,       \* the worker's jobs
    nextId       \* ids given so far

dataVars == <<stored, postcodes, load>>
selectVars == <<sel, pcOptions, subOptions, addAll>>
queueVars == <<queue, nextId>>
popupVars == <<dataVars, selectVars, handler, queueVars>>

-----------------------------------------------------------------------------
Nothing == [state |-> NoChoice, postcode |-> NoChoice, suburb |-> NoChoice, type |-> NoChoice]
Idle == [kind |-> "idle", todo |-> <<>>, base |-> Nothing, filters |-> "plain"]

PopupInit ==
    /\ postcodes = {} /\ load = "ask"
    /\ sel = Nothing /\ pcOptions = {} /\ subOptions = {} /\ addAll = FALSE
    /\ handler = [h \in Handlers |-> Idle]
    /\ stored \in {{}} \cup Datasets
    /\ queue = {} /\ nextId = 0

-----------------------------------------------------------------------------
(* The postcode dataset. *)

PopulateStates ==
    /\ sel' = [Nothing EXCEPT !.type = sel.type]
    /\ pcOptions' = {} /\ subOptions' = {}

\* GET_POSTCODE_DATA: an empty answer asks the worker to fetch, once.
ReadPostcodes ==
    /\ load \in {"ask", "askAgain"}
    /\ IF stored = {} /\ load = "ask"
       THEN /\ load' = "fetch"
            /\ UNCHANGED <<postcodes, selectVars>>
       ELSE /\ load' = "idle"
            /\ postcodes' = IF stored = {} THEN postcodes ELSE stored
            /\ PopulateStates
            /\ UNCHANGED addAll
    /\ UNCHANGED <<stored, handler, queueVars>>

\* REFRESH_POSTCODE_DATA: a failed fetch keeps what is stored.
FetchPostcodes ==
    /\ load \in {"fetch", "refresh"}
    /\ stored' \in {stored} \cup Datasets
    /\ load' = IF load = "fetch" THEN "askAgain" ELSE "ask"
    /\ UNCHANGED <<postcodes, selectVars, handler, queueVars>>

RefreshData ==
    /\ load = "idle"
    /\ load' = "refresh"
    /\ UNCHANGED <<stored, postcodes, selectVars, handler, queueVars>>

-----------------------------------------------------------------------------
(* The selects. *)

\* The postcodes of a state.
PostcodesOf(s) == {r.p : r \in {q \in postcodes : q.s = s}}
SuburbsOf(s, p) == {r.l : r \in {q \in postcodes : q.s = s /\ q.p = p}}

\* updateAddAllButton
Complete(choice) == NoChoice \notin {choice.state, choice.postcode, choice.type}

ChooseState(s) ==
    /\ sel' = [sel EXCEPT !.state = s, !.postcode = NoChoice, !.suburb = NoChoice]
    /\ pcOptions' = PostcodesOf(s) /\ subOptions' = {}
    /\ addAll' = FALSE
    /\ UNCHANGED <<dataVars, handler, queueVars>>

ChoosePostcode(p) ==
    /\ sel' = [sel EXCEPT !.postcode = p, !.suburb = NoChoice]
    /\ subOptions' = SuburbsOf(sel.state, p)
    /\ addAll' = Complete(sel')
    /\ UNCHANGED <<dataVars, pcOptions, handler, queueVars>>

ChooseSuburb(l) ==
    /\ sel' = [sel EXCEPT !.suburb = l]
    /\ UNCHANGED <<dataVars, pcOptions, subOptions, addAll, handler, queueVars>>

ChooseType(t) ==
    /\ sel' = [sel EXCEPT !.type = t]
    /\ addAll' = Complete(sel')
    /\ UNCHANGED <<dataVars, pcOptions, subOptions, handler, queueVars>>

\* The button is left as it was.
ClearSelections ==
    /\ sel' = Nothing /\ pcOptions' = {} /\ subOptions' = {}
    /\ UNCHANGED <<dataVars, addAll, handler, queueVars>>

-----------------------------------------------------------------------------
(* Queueing slices. *)

Slice(choice, suburb, filters) ==
    [suburb |-> suburb, state |-> choice.state, postcode |-> choice.postcode,
     type |-> choice.type, filters |-> filters]

Valid(slice) == NoChoice \notin {slice.suburb, slice.state, slice.postcode, slice.type}
                /\ slice.filters # "inverted"

\* The slice a handler sends next: built from what it captured when it began,
\* or from what is selected by now.
SliceOfSelection(h) == Slice(sel, Head(handler[h].todo), handler[h].filters)
SliceOfCapture(h) == Slice(handler[h].base, Head(handler[h].todo), handler[h].filters)

Captured == [sel EXCEPT !.suburb = NoChoice]

Begin(h, kind, todo, base, filters) ==
    /\ handler[h] = Idle
    /\ handler' = [handler EXCEPT ![h] =
                      [kind |-> kind, todo |-> todo, base |-> base, filters |-> filters]]

\* Every suburb of the postcode, in the order of the options.
AddAllClicked(h, filters) ==
    /\ addAll /\ Complete(sel) /\ subOptions # {}
    /\ Begin(h, "all", SetToSeq(subOptions), Captured, filters)
    /\ addAll' = FALSE
    /\ UNCHANGED <<dataVars, sel, pcOptions, subOptions, queueVars>>

SubmitForm(h, filters) ==
    /\ Complete(sel) /\ sel.suburb # NoChoice
    /\ filters # "inverted"
    /\ Begin(h, "form", <<sel.suburb>>, Captured, filters)
    /\ UNCHANGED <<dataVars, selectVars, queueVars>>

ImportPlan(h, file) ==
    /\ Begin(h, "plan", file, Nothing, "plain")
    /\ UNCHANGED <<dataVars, selectVars, queueVars>>

\* A plan's slices are sent as the file has them.
Pending(h) == IF handler[h].kind = "plan" THEN Head(handler[h].todo) ELSE SliceOfCapture(h)

\* ADD_JOB: a job of the same slice is answered as a duplicate unless it ended
\* in an error.
Duplicate(slice) == \E job \in queue : job.slice = slice /\ ~job.failed

QueueSlice(slice) ==
    IF Duplicate(slice)
    THEN UNCHANGED queueVars
    ELSE /\ nextId < MaxJobs
         /\ nextId' = nextId + 1
         /\ queue' = queue \cup {[id |-> nextId + 1, slice |-> slice, failed |-> FALSE]}

\* What a handler captured ends with its last slice.
AfterSend(work) ==
    IF Len(work.todo) = 1 THEN [Idle EXCEPT !.kind = work.kind]
                          ELSE [work EXCEPT !.todo = Tail(@)]

SendSlice(h) ==
    /\ handler[h].todo # <<>> /\ Valid(Pending(h))
    /\ QueueSlice(Pending(h))
    /\ handler' = [handler EXCEPT ![h] = AfterSend(@)]
    /\ UNCHANGED <<dataVars, selectVars>>

\* The rest of an Add All or of a plan is given up at an invalid slice.
AbandonSlices(h) ==
    /\ handler[h].todo # <<>> /\ ~Valid(Pending(h))
    /\ handler' = [handler EXCEPT ![h] = [Idle EXCEPT !.kind = handler[h].kind]]
    /\ UNCHANGED <<dataVars, selectVars, queueVars>>

\* The selects are tidied.
HandlerEnds(h) ==
    /\ handler[h].kind # "idle" /\ handler[h].todo = <<>>
    /\ handler' = [handler EXCEPT ![h] = Idle]
    /\ sel' = CASE handler[h].kind = "all" -> [sel EXCEPT !.suburb = NoChoice]
                [] handler[h].kind = "form" -> [sel EXCEPT !.type = NoChoice]
                [] OTHER -> sel
    /\ addAll' = IF handler[h].kind = "plan" THEN addAll ELSE Complete(sel')
    /\ UNCHANGED <<dataVars, pcOptions, subOptions, queueVars>>

-----------------------------------------------------------------------------
\* A job ends in an error, or is removed.
JobFails(job) ==
    /\ queue' = (queue \ {job}) \cup {[job EXCEPT !.failed = TRUE]}
    /\ UNCHANGED <<dataVars, selectVars, handler, nextId>>

JobGoes(job) ==
    /\ queue' = queue \ {job}
    /\ UNCHANGED <<dataVars, selectVars, handler, nextId>>

\* The popup is closed and opened again: its script starts over.
PopupReopens ==
    /\ postcodes' = {} /\ load' = "ask"
    /\ sel' = Nothing /\ pcOptions' = {} /\ subOptions' = {} /\ addAll' = FALSE
    /\ handler' = [h \in Handlers |-> Idle]
    /\ UNCHANGED <<stored, queueVars>>

-----------------------------------------------------------------------------
Selecting ==
    \/ \E r \in postcodes : ChooseState(r.s)
    \/ \E p \in pcOptions : ChoosePostcode(p)
    \/ \E l \in subOptions : ChooseSuburb(l)
    \/ \E t \in Types : ChooseType(t)
    \/ ClearSelections

Queueing(h) ==
    \/ \E f \in Filters : AddAllClicked(h, f) \/ SubmitForm(h, f)
    \/ \E file \in PlanFiles : ImportPlan(h, file)
    \/ SendSlice(h)
    \/ AbandonSlices(h)
    \/ HandlerEnds(h)

PopupNext ==
    \/ Selecting
    \/ ReadPostcodes \/ FetchPostcodes \/ RefreshData
    \/ \E h \in Handlers : Queueing(h)
    \/ \E job \in queue : JobFails(job) \/ JobGoes(job)
    \/ PopupReopens

PopupSpec == PopupInit /\ [][PopupNext]_popupVars

-----------------------------------------------------------------------------
Localities == UNION Datasets

PopupTypeOK ==
    /\ stored \subseteq Localities /\ postcodes \subseteq Localities
    /\ load \in {"idle", "refresh", "ask", "fetch", "askAgain"}
    /\ pcOptions \subseteq {r.p : r \in Localities} /\ subOptions \subseteq {r.l : r \in Localities}
    /\ addAll \in BOOLEAN
    /\ \A h \in Handlers : handler[h].kind \in {"idle", "all", "form", "plan"}
    /\ \A job \in queue : job.id \in 1..nextId /\ job.failed \in BOOLEAN
    /\ nextId <= MaxJobs

\* What is selected exists in the dataset the popup holds, whatever the order
\* of choices, clears, refreshes and finished Add Alls.
SelectionIsLocality ==
    /\ sel.postcode # NoChoice => \E r \in postcodes : r.s = sel.state /\ r.p = sel.postcode
    /\ sel.suburb # NoChoice =>
          \E r \in postcodes : r.s = sel.state /\ r.p = sel.postcode /\ r.l = sel.suburb

\* Every job is a valid slice, and one that no plan names is a locality of some
\* dataset: an Add All does not mix its suburbs with a later selection.
JobsAreLocalities ==
    \A job \in queue :
        /\ Valid(job.slice)
        /\ \/ \E file \in PlanFiles : \E i \in DOMAIN file : file[i] = job.slice
           \/ [s |-> job.slice.state, p |-> job.slice.postcode, l |-> job.slice.suburb]
                 \in Localities

\* Add All twice, the form and an import together queue a slice once, unless
\* its earlier job failed.
SliceQueuedOnce ==
    \A a, b \in queue : a.slice = b.slice /\ ~a.failed /\ ~b.failed => a = b

\* What the popup queues is what was chosen: localities of the dataset, each
\* slice once, however handlers and a replaced dataset overlap.
QueueIsAsChosen == PopupTypeOK /\ SelectionIsLocality /\ JobsAreLocalities /\ SliceQueuedOnce
=============================================================================
