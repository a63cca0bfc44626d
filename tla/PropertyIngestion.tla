--------------------------- MODULE PropertyIngestion ---------------------------
(***************************************************************************)
(* Sold-listing files on their way to Neon and MotherDuck.  Loaders (the    *)
(* ingest workflow and the local script) register a file, insert its rows   *)
(* batch by batch and curate it; a publisher copies the sales to MotherDuck *)
(* while they go on.                                                        *)
(***************************************************************************)
EXTENDS Integers, FiniteSets

CONSTANTS
    Loaders,       \* processes that ingest
    Files,         \* source files, by their hash
    RowsOf,        \* rows of each file: [key, listing, property, grade]
    Withheld,      \* the property of a row without an address
    Nobody,        \* no file, no property, no row
    MaxFailures    \* bound: statements that fail and processes that die

Rows == UNION {RowsOf[f] : f \in Files}
Keys == {r.key : r \in Rows}
Listings == {r.listing : r \in Rows}
Properties == {r.property : r \in Rows} \ {Withheld}

ASSUME IngestionAssumption ==
    /\ RowsOf \in [Files -> SUBSET Rows] /\ IsFiniteSet(Rows)
    /\ \A r \in Rows : r.grade \in Int
    /\ Nobody \notin Files \cup Keys \cup Properties /\ Nobody # Withheld
    /\ \A r, s \in Rows : r.key = s.key => r = s
    /\ MaxFailures \in Nat

VARIABLES
    fileStatus,  \* ops.ingest_file.status; "absent" before registration
    accepted,    \* ops.ingest_file.accepted_rows
    observed,    \* raw.sale_observation: the file of each key, or Nobody
    listing,     \* core.listing: property and selected key, or Nobody
    sales,       \* core.sale_event
    curations,   \* completed curations of each file, 2 for more than one
    loader,      \* where each loader stands
    again,       \* files two loaders had at once, or whose finished step ran again
    mart,        \* suburbs of mart.suburb_dimension and of its months
    reading,     \* what publish-motherduck has read so far
    published,   \* the tables in MotherDuck
    failures     \* failures so far

coreVars == <<observed, listing, sales, curations>>
fileVars == <<fileStatus, accepted>>
outVars == <<mart, reading, published>>
ingestVars == <<fileVars, coreVars, loader, again, outVars, failures>>

LoaderSteps == {"idle", "load", "insert", "count", "curate", "refresh", "months"}
Tables == [suburbs : SUBSET Properties, months : SUBSET Properties, facts : SUBSET Properties]
NoTables == [suburbs |-> {}, months |-> {}, facts |-> {}]
Sale == [listing : Listings, property : Properties, key : Keys]

IngestTypeOK ==
    /\ fileStatus \in [Files -> {"absent", "registered", "loading", "loaded", "curated", "failed"}]
    /\ accepted \in [Files -> Nat]
    /\ observed \in [Keys -> Files \cup {Nobody}]
    /\ listing \in [Listings -> [property : Properties \cup {Withheld, Nobody},
                                 selected : Keys \cup {Nobody}]]
    /\ sales \subseteq Sale
    /\ loader \in [Loaders -> [at : LoaderSteps, file : Files \cup {Nobody}, left : SUBSET Rows]]
    /\ again \subseteq Files
    /\ \A l \in Listings : listing[l].property = Nobody <=> listing[l].selected = Nobody
    /\ mart \in [suburbs : SUBSET Properties, months : SUBSET Properties]
    /\ reading \in [at : {"idle", "suburbs", "months", "facts", "published"}, tables : Tables, moved : BOOLEAN]
    /\ published \in [tables : Tables, moved : BOOLEAN]

IdleLoader == [at |-> "idle", file |-> Nobody, left |-> {}]

IngestInit ==
    /\ fileStatus = [f \in Files |-> "absent"] /\ accepted = [f \in Files |-> 0]
    /\ observed = [k \in Keys |-> Nobody]
    /\ listing = [l \in Listings |-> [property |-> Nobody, selected |-> Nobody]]
    /\ sales = {} /\ curations = [f \in Files |-> 0]
    /\ loader = [w \in Loaders |-> IdleLoader] /\ again = {}
    /\ mart = [suburbs |-> {}, months |-> {}]
    /\ reading = [at |-> "idle", tables |-> NoTables, moved |-> FALSE]
    /\ published = [tables |-> NoTables, moved |-> FALSE]
    /\ failures = 0

-----------------------------------------------------------------------------
(* Loading. *)

StepTo(w, at) == loader' = [loader EXCEPT ![w].at = at]
SetStatus(f, s) == fileStatus' = [fileStatus EXCEPT ![f] = s]

\* A curated file is left alone, a loaded one is not.
Skips(f) == fileStatus[f] = "curated"

\* registerFile, in fetchAndRegister of the workflow or in the script.
Register(w, f) ==
    /\ loader[w].at = "idle"
    /\ IF fileStatus[f] = "absent" THEN SetStatus(f, "registered") ELSE UNCHANGED fileStatus
    /\ IF Skips(f) THEN UNCHANGED loader
       ELSE loader' = [loader EXCEPT ![w] = [at |-> "load", file |-> f, left |-> {}]]
    /\ again' = IF ~Skips(f) /\ \E v \in Loaders \ {w} : loader[v].file = f
                THEN again \cup {f} ELSE again
    /\ UNCHANGED <<accepted, coreVars, outVars, failures>>

BeginLoad(w) ==
    LET f == loader[w].file
    IN  /\ loader[w].at = "load"
        /\ SetStatus(f, "loading")
        /\ loader' = [loader EXCEPT ![w].at = "insert", ![w].left = RowsOf[f]]
        /\ UNCHANGED <<again, accepted, coreVars, outVars, failures>>

\* ON CONFLICT DO NOTHING: the first file that has a row keeps it.  The first
\* form hands the row to the file that is loaded last.
LastFileHas(r, f) == f
OwnerOf(r, f) == IF observed[r.key] = Nobody THEN f ELSE observed[r.key]

InsertBatch(w) ==
    /\ loader[w].at = "insert" /\ loader[w].left # {}
    /\ \E r \in loader[w].left :
        /\ observed' = [observed EXCEPT ![r.key] = OwnerOf(r, loader[w].file)]
        /\ loader' = [loader EXCEPT ![w].left = @ \ {r}]
    /\ UNCHANGED <<again, fileVars, listing, sales, curations, outVars, failures>>

HeldBy(f) == {k \in Keys : observed[k] = f}

\* The rows are counted, then the file is loaded.
CountRows(w) ==
    LET f == loader[w].file
    IN  /\ loader[w].at = "insert" /\ loader[w].left = {}
        /\ accepted' = [accepted EXCEPT ![f] = Cardinality(HeldBy(f))]
        /\ SetStatus(f, "loaded")
        /\ StepTo(w, "curate")
        /\ UNCHANGED <<again, coreVars, outVars, failures>>

\* A statement fails: the file is marked and the error thrown.  The workflow
\* runs the step again, the script ends.
LoadFails(w) ==
    /\ loader[w].at = "insert" /\ failures < MaxFailures
    /\ SetStatus(loader[w].file, "failed")
    /\ \/ loader' = [loader EXCEPT ![w].at = "load", ![w].left = {}]
       \/ loader' = [loader EXCEPT ![w] = IdleLoader]
    /\ failures' = failures + 1
    /\ UNCHANGED <<again, accepted, coreVars, outVars>>

\* The process dies: the workflow runs its step again on another one, the last
\* step too if its end was not recorded; the script is not run again by itself.
Rerun(at) ==
    CASE at = "insert" -> {"load"}
      [] at = "curate" -> {"load", "curate"}
      [] at \in {"refresh", "months"} -> {"curate", at}
      [] OTHER -> {at}

LoaderDies(w) ==
    /\ loader[w].at # "idle" /\ failures < MaxFailures
    /\ \/ \E at \in Rerun(loader[w].at) :
            /\ loader' = [loader EXCEPT ![w].at = at, ![w].left = {}]
            /\ again' = IF at = "curate" /\ loader[w].at # "curate"
                        THEN again \cup {loader[w].file} ELSE again
       \/ loader' = [loader EXCEPT ![w] = IdleLoader] /\ UNCHANGED again
    /\ failures' = failures + 1
    /\ UNCHANGED <<fileVars, coreVars, outVars>>

-----------------------------------------------------------------------------
(* core.curate_file. *)

Candidates(f) == {r \in Rows : observed[r.key] = f}
CandidatesFor(f, l) == {r \in Candidates(f) : r.listing = l}

\* Two properties for one listing: the upsert would touch a row twice.
Ambiguous(f) == \E r, s \in Candidates(f) : r.listing = s.listing /\ r.property # s.property

Best(f, l) == CHOOSE r \in CandidatesFor(f, l) : \A s \in CandidatesFor(f, l) : s.grade <= r.grade
\* A withheld address does not replace one.
Coalesced(new, old) == IF new = Withheld /\ old # Nobody THEN old ELSE new

\* The row selected first stays.
Selected(f, l) == IF listing[l].selected = Nobody THEN Best(f, l).key ELSE listing[l].selected

Curated(f, l) ==
    IF CandidatesFor(f, l) = {} THEN listing[l]
    ELSE [property |-> Coalesced(Best(f, l).property, listing[l].property),
          selected |-> Selected(f, l)]

\* Sales of the listings whose selected row is of this file; the first form
\* looks at the listings as they were.
SoldIn(f, L) ==
    {[listing |-> l, property |-> L[l].property, key |-> L[l].selected] :
        l \in {m \in Listings : /\ L[m].selected # Nobody
                                /\ observed[L[m].selected] = f
                                /\ L[m].property \in Properties}}
SalesBefore(f, L) == SoldIn(f, listing)
SalesOf(f, L) == SoldIn(f, L)

Curate(w) ==
    LET f == loader[w].file
        next == [l \in Listings |-> Curated(f, l)]
    IN  /\ loader[w].at = "curate" /\ ~Ambiguous(f)
        /\ listing' = next
        /\ sales' = sales \cup SalesOf(f, next)
        /\ SetStatus(f, "curated")
        /\ curations' = [curations EXCEPT ![f] = IF @ = 2 THEN 2 ELSE @ + 1]
        /\ StepTo(w, "refresh")
        /\ reading' = [reading EXCEPT !.moved = TRUE]
        /\ UNCHANGED <<again, accepted, observed, mart, published, failures>>

\* The procedure is rolled back; the workflow gives the run up, the script ends.
CurateFails(w) ==
    /\ loader[w].at = "curate" /\ Ambiguous(loader[w].file)
    /\ loader' = [loader EXCEPT ![w] = IdleLoader]
    /\ UNCHANGED <<again, fileVars, coreVars, outVars, failures>>

\* The script refreshes the marts at its end, the workflow does not.
Sold == {s.property : s \in sales}
RefreshSuburbs(w) ==
    /\ loader[w].at = "refresh"
    /\ \/ mart' = [mart EXCEPT !.suburbs = Sold] /\ StepTo(w, "months")
       \/ UNCHANGED mart /\ loader' = [loader EXCEPT ![w] = IdleLoader]
    /\ UNCHANGED <<again, fileVars, coreVars, reading, published, failures>>

\* The months are joined to the suburbs.
MonthsOfSuburbs == Sold \cap mart.suburbs
RefreshMonths(w) ==
    /\ loader[w].at = "months"
    /\ mart' = [mart EXCEPT !.months = MonthsOfSuburbs]
    /\ loader' = [loader EXCEPT ![w] = IdleLoader]
    /\ UNCHANGED <<again, fileVars, coreVars, reading, published, failures>>

-----------------------------------------------------------------------------
(* publish-motherduck. *)

Read(table, from, to) ==
    /\ reading.at = from
    /\ reading' = [at |-> to, tables |-> [reading.tables EXCEPT ![table] = Sold],
                   moved |-> from # "idle" /\ reading.moved]
    /\ UNCHANGED <<again, fileVars, coreVars, loader, mart, published, failures>>

\* Three tables are built and renamed in one transaction.
Swapped == reading.tables
Publish ==
    /\ reading.at = "facts"
    /\ published' = [tables |-> Swapped, moved |-> reading.moved]
    /\ reading' = [at |-> IF Swapped = NoTables THEN "idle" ELSE "published", tables |-> NoTables, moved |-> FALSE]
    /\ UNCHANGED <<again, fileVars, coreVars, loader, mart, failures>>

PublisherFails ==
    /\ reading.at \notin {"idle", "published"}
    /\ reading' = [at |-> "idle", tables |-> NoTables, moved |-> FALSE]
    /\ UNCHANGED <<again, fileVars, coreVars, loader, mart, published, failures>>

IngestNext ==
    \/ \E w \in Loaders :
          \/ \E f \in Files : Register(w, f)
          \/ BeginLoad(w) \/ InsertBatch(w) \/ CountRows(w) \/ LoadFails(w) \/ LoaderDies(w)
          \/ Curate(w) \/ CurateFails(w) \/ RefreshSuburbs(w) \/ RefreshMonths(w)
    \/ Read("suburbs", "idle", "suburbs")
    \/ Read("months", "suburbs", "months")
    \/ Read("facts", "months", "facts")
    \/ Publish \/ PublisherFails

IngestSpec == IngestInit /\ [][IngestNext]_ingestVars

-----------------------------------------------------------------------------
\* A loaded or curated file counts exactly the rows it still holds, and every
\* row it does not hold is held by another file: nothing is lost, whatever
\* loads overlap, fail or are repeated.
LoadedIsStored ==
    \A f \in Files : fileStatus[f] \in {"loaded", "curated"} =>
        /\ accepted[f] = Cardinality(HeldBy(f))
        /\ \A r \in RowsOf[f] : observed[r.key] # Nobody

\* A sale is the one of its listing's selected row, so that a listing has one
\* sale; a second one needs a second curation of that file, after another file
\* moved the listing to another property.
SaleIsOfSelectedRow ==
    /\ \A s \in sales : listing[s.listing].selected = s.key
    /\ \A s, t \in sales : s # t /\ s.listing = t.listing => curations[observed[s.key]] > 1

\* A curated row with an address, selected for its listing, has its sale.
CuratedIsSold ==
    \A r \in Rows :
        /\ r.property # Withheld /\ listing[r.listing].selected = r.key
        /\ fileStatus[observed[r.key]] = "curated"
        => \E s \in sales : s.listing = r.listing

\* Every month of the mart has its suburb.
MonthsHaveSuburbs == mart.months \subseteq mart.suburbs

\* The tables of MotherDuck agree with one another, unless a file was curated
\* while they were read.
QuietPublicationAgrees ==
    ~published.moved =>
        /\ published.tables.months = published.tables.suburbs
        /\ published.tables.facts = published.tables.suburbs

\* A file is curated once, unless two loaders had it at once or the workflow
\* lost the end of a step.
CuratedOnce == \A f \in Files \ again : curations[f] <= 1

\* No row is lost or counted twice, and no file is curated twice without cause.
RowsAreKept == IngestTypeOK /\ LoadedIsStored /\ CuratedOnce

\* Sales, marts and the tables of MotherDuck follow the selected rows.
SalesFollowSelection ==
    SaleIsOfSelectedRow /\ CuratedIsSold /\ MonthsHaveSuburbs /\ QuietPublicationAgrees
=============================================================================
