----------------------- MODULE VehicleMarketPublication -----------------------
(***************************************************************************)
(* One observation run on its way to the lake: replays store its raw pages  *)
(* and save it to files, publishers load the files, stage the rows, promote *)
(* them in a second transaction, count them and record the publication.     *)
(* The transactions of DuckLake see the snapshot they began with; two that  *)
(* delete the same rows conflict, two that only insert do not.              *)
(***************************************************************************)
EXTENDS Integers, FiniteSets

CONSTANTS
    Replays, Publishers,   \* processes of the script
    Versions,              \* forms the run can be saved in, one per raw manifest
    Local,                 \* those whose raw pages are local files
    Publishable,           \* those whose quality may be published
    None,                  \* no version
    MaxStagings            \* bound: staging transactions

ASSUME PublicationAssumption ==
    /\ Local \subseteq Versions /\ Publishable \subseteq Versions /\ None \notin Versions
    /\ MaxStagings \in Nat

VARIABLES
    object,      \* raw pages of each version: "absent", "torn", "whole"
    replay,      \* where each replay stands, and the version it saves
    saved,       \* version in run.json
    complete,    \* observations.jsonl has all observations
    persisted,   \* ops.vehicle_market_ingestion_run has the run
    publisher,   \* where each publisher stands, with its version and snapshot
    stage,       \* staged copies of the run, each with all its rows
    core,        \* copies in core
    stagings,    \* stagings so far; numbers the copies
    recorded,    \* version of ops.vehicle_market_publication_result
    overlapped   \* two publications of the run were under way at once

replayVars == <<object, replay, saved, complete, persisted>>
laneVars == <<stage, core, stagings, recorded, overlapped>>
pubVars == <<replayVars, publisher, laneVars>>

Copy == [number : 1..MaxStagings, version : Versions]
IdlePublisher == [at |-> "idle", version |-> None, stage |-> {}, core |-> {}]

PubTypeOK ==
    /\ object \in [Versions -> {"absent", "torn", "whole"}]
    /\ replay \in [Replays -> [at : {"idle", "put", "save", "observations"},
                               version : Versions \cup {None}]]
    /\ saved \in Versions \cup {None} /\ complete \in BOOLEAN /\ persisted \in BOOLEAN
    /\ publisher \in [Publishers -> [at : {"idle", "loaded", "staging", "staged", "promoting",
                                           "promoted", "counted"},
                                     version : Versions \cup {None},
                                     stage : SUBSET Copy, core : SUBSET Copy]]
    /\ stage \subseteq Copy /\ core \subseteq Copy
    /\ stagings \in 0..MaxStagings
    /\ recorded \in Publishable \cup {None} /\ overlapped \in BOOLEAN

PubInit ==
    /\ object = [v \in Versions |-> "absent"]
    /\ replay = [r \in Replays |-> [at |-> "idle", version |-> None]]
    /\ saved = None /\ complete = FALSE /\ persisted = FALSE
    /\ publisher = [p \in Publishers |-> IdlePublisher]
    /\ stage = {} /\ core = {} /\ stagings = 0
    /\ recorded = None /\ overlapped = FALSE

-----------------------------------------------------------------------------
(* A replay: putImmutable of the pages, then saveRun. *)

ReplayTo(r, at, v) == replay' = [replay EXCEPT ![r] = [at |-> at, version |-> v]]

\* An existing object is read and compared.
SameObject(v) == object[v] = "whole"

\* A local file is created and then filled, a blob is there at once; both
\* refuse to write what exists, and go on if it is the same.
PutObject(r, v) ==
    /\ replay[r].at = "idle"
    /\ IF object[v] = "absent"
       THEN IF v \in Local
            THEN object' = [object EXCEPT ![v] = "torn"] /\ ReplayTo(r, "put", v)
            ELSE object' = [object EXCEPT ![v] = "whole"] /\ ReplayTo(r, "save", v)
       ELSE SameObject(v) /\ ReplayTo(r, "save", v) /\ UNCHANGED object
    /\ UNCHANGED <<saved, complete, persisted, publisher, laneVars>>

FillObject(r) ==
    /\ replay[r].at = "put"
    /\ object' = [object EXCEPT ![replay[r].version] = "whole"]
    /\ ReplayTo(r, "save", replay[r].version)
    /\ UNCHANGED <<saved, complete, persisted, publisher, laneVars>>

\* run.json is written, then observations.jsonl is opened anew.
SaveRun(r) ==
    /\ replay[r].at = "save"
    /\ saved' = replay[r].version /\ complete' = FALSE
    /\ ReplayTo(r, "observations", replay[r].version)
    /\ UNCHANGED <<object, persisted, publisher, laneVars>>

SaveObservations(r) ==
    /\ replay[r].at = "observations"
    /\ complete' = TRUE
    /\ persisted' \in {persisted, TRUE}   \* with --record-neon
    /\ ReplayTo(r, "idle", None)
    /\ UNCHANGED <<object, saved, publisher, laneVars>>

ReplayDies(r) ==
    /\ replay[r].at # "idle"
    /\ ReplayTo(r, "idle", None)
    /\ UNCHANGED <<object, saved, complete, persisted, publisher, laneVars>>

-----------------------------------------------------------------------------
(* A publication. *)

Step(p, at) == publisher' = [publisher EXCEPT ![p].at = at]
End(p) == publisher' = [publisher EXCEPT ![p] = IdlePublisher]
Quiet == UNCHANGED replayVars

\* loadSavedRun and buildVehicleMarketStageBatch: counts, policy, raw evidence.
Loadable == saved \in Publishable /\ complete /\ object[saved] = "whole"

Load(p) ==
    /\ publisher[p].at = "idle" /\ Loadable
    /\ publisher' = [publisher EXCEPT ![p] = [IdlePublisher EXCEPT !.at = "loaded", !.version = saved]]
    /\ overlapped' = (overlapped \/ \E q \in Publishers \ {p} : publisher[q].at # "idle")
    /\ Quiet /\ UNCHANGED <<stage, core, stagings, recorded>>

BeginStaging(p) ==
    /\ publisher[p].at = "loaded" /\ stagings < MaxStagings
    /\ publisher' = [publisher EXCEPT ![p].at = "staging", ![p].stage = stage]
    /\ Quiet /\ UNCHANGED laneVars

\* What the transaction deletes is what it saw.
Replaced(p) == publisher[p].stage

Conflicts(p) == ~(publisher[p].stage \subseteq stage)

CommitStaging(p) ==
    /\ publisher[p].at = "staging"
    /\ IF Conflicts(p) THEN End(p) /\ UNCHANGED laneVars
       ELSE /\ stagings' = stagings + 1
            /\ stagings < MaxStagings
            /\ stage' = (stage \ Replaced(p))
                          \cup {[number |-> stagings + 1, version |-> publisher[p].version]}
            /\ Step(p, "staged")
            /\ UNCHANGED <<core, recorded, overlapped>>
    /\ Quiet

\* The two guards of the promotion; the first form has none.
NeverConflicting(p) == FALSE
ConflictingLineage(p) ==
    \E c \in publisher[p].core, s \in publisher[p].stage : c.version # s.version

BeginPromotion(p) ==
    /\ publisher[p].at = "staged"
    /\ publisher' = [publisher EXCEPT ![p].at = "promoting", ![p].stage = stage, ![p].core = core]
    /\ Quiet /\ UNCHANGED laneVars

\* MERGE inserts every copy whose key the snapshot of core does not have.
Merged(p) == IF publisher[p].core = {} THEN publisher[p].stage ELSE {}

\* The promoted copies leave the stage.
Promoted(p) == publisher[p].stage

CommitPromotion(p) ==
    /\ publisher[p].at = "promoting"
    /\ IF ConflictingLineage(p) \/ (Promoted(p) # {} /\ Conflicts(p))
       THEN End(p) /\ UNCHANGED laneVars
       ELSE /\ core' = core \cup Merged(p)
            /\ stage' = stage \ Promoted(p)
            /\ Step(p, "promoted")
            /\ UNCHANGED <<stagings, recorded, overlapped>>
    /\ Quiet

\* One run row, and as many facts as the run has listings.
Reconciles == Cardinality(core) = 1

Count(p) ==
    /\ publisher[p].at = "promoted"
    /\ IF Reconciles THEN Step(p, "counted") ELSE End(p)
    /\ Quiet /\ UNCHANGED laneVars

\* persistVehicleMarketPublicationResult; it refers to the persisted run, and
\* an earlier result must be the same.
Record(p) ==
    /\ publisher[p].at = "counted"
    /\ recorded' = IF persisted /\ recorded = None THEN publisher[p].version ELSE recorded
    /\ End(p)
    /\ Quiet /\ UNCHANGED <<stage, core, stagings, overlapped>>

\* The process dies, or the connection: an open transaction is rolled back.
PublisherDies(p) ==
    /\ publisher[p].at # "idle"
    /\ End(p) /\ Quiet /\ UNCHANGED laneVars

PubNext ==
    \/ \E r \in Replays :
          \/ \E v \in Versions : PutObject(r, v)
          \/ FillObject(r) \/ SaveRun(r) \/ SaveObservations(r) \/ ReplayDies(r)
    \/ \E p \in Publishers :
          \/ Load(p) \/ BeginStaging(p) \/ CommitStaging(p)
          \/ BeginPromotion(p) \/ CommitPromotion(p)
          \/ Count(p) \/ Record(p) \/ PublisherDies(p)

PubSpec == PubInit /\ [][PubNext]_pubVars

-----------------------------------------------------------------------------
\* A recorded publication is in core exactly once, and stays so whatever other
\* publications of the run are under way: promotions that overlap delete the
\* same staged rows, so that one of them is rolled back.
RecordedIsOnce == recorded # None => Cardinality(core) = 1

\* Publications that do not overlap never double anything, wherever they die.
DeadPublicationIsHarmless ==
    ~overlapped => Cardinality(stage) <= 1 /\ Cardinality(core) <= 1

\* The recorded manifest is the one of the rows in core, unless publications
\* overlapped: then one of them may promote what the other has staged.
RecordedIsPublished ==
    recorded # None /\ ~overlapped => \A c \in core : c.version = recorded

\* What is saved, staged or published has its raw pages, untorn.
EvidenceIsWhole ==
    /\ saved # None => object[saved] = "whole"
    /\ \A c \in stage \cup core : object[c.version] = "whole"

\* However replays and publications of a run overlap and die, what is recorded
\* is in core once, from whole evidence.
PublicationIsSingle ==
    /\ PubTypeOK
    /\ RecordedIsOnce /\ DeadPublicationIsHarmless /\ RecordedIsPublished /\ EvidenceIsWhole
=============================================================================
