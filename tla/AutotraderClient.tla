--------------------------- MODULE AutotraderClient ---------------------------
(***************************************************************************)
(* One export of the AutoTrader client package: collectListings asks page   *)
(* after page of a source that changes meanwhile, the command line writes   *)
(* every answer to raw/ and every listing to listings.ndjson, and the exit  *)
(* code says whether the file is the whole population.                      *)
(***************************************************************************)
EXTENDS Integers, Sequences, FiniteSets

CONSTANTS
    Stock,         \* listings the source may have, numbered by creation
    Nameless,      \* those without an id
    PerPage,       \* PAGE_SIZE
    PageLimits,    \* values of --max-pages; beyond every last page for --all
    Tries,         \* maxAttempts
    MaxTurns       \* bound: changes of the source during an export

ASSUME ClientAssumption ==
    /\ Stock \subseteq Nat /\ IsFiniteSet(Stock) /\ Nameless \subseteq Stock
    /\ PerPage \in Nat \ {0} /\ PageLimits \subseteq Nat \ {0} /\ Tries \in Nat \ {0}
    /\ MaxTurns \in Nat

VARIABLES
    maxPages,   \* the limit of this export
    stock,      \* what the source lists now
    turns,      \* changes of it so far
    stocks,     \* every population it has had during the export
    request,    \* role, page and attempt of the request under way
    answer,     \* the page that onPage is about to write, or NoPage
    baseline,   \* page 1 as it was first answered, or NoPage
    summary,    \* counts and changes of the summary
    requests,   \* summary.requests, without times and hashes
    raw,        \* requests whose answer is a file of raw/
    lines,      \* listings.ndjson
    exit        \* exit code; Running before there is one

stockVars == <<stock, turns, stocks>>
clientVars == <<stockVars, maxPages, request, answer, baseline, summary, requests, raw, lines, exit>>

Running == 3
NoPage == [total |-> 0, last |-> 0, listings |-> <<>>]
Statuses == {"ok", "malformed", "busy", "refused", "none"}
Roles == {"capture", "consistency_probe"}

Page == [total : Nat, last : Nat, listings : Seq(Stock)]

ClientTypeOK ==
    /\ maxPages \in PageLimits
    /\ stock \in SUBSET Stock /\ turns \in 0..MaxTurns /\ stocks \subseteq SUBSET Stock
    /\ request \in [role : Roles, page : Nat \ {0}, attempt : 1..Tries]
    /\ answer \in Page /\ baseline \in Page
    /\ summary \in [fetched : Nat, hits : Nat, seen : SUBSET Stock, duplicates : Nat,
                    missing : Nat, changed : BOOLEAN]
    /\ requests \subseteq [role : Roles, page : Nat \ {0}, attempt : 1..Tries, status : Statuses]
    /\ raw \subseteq requests
    /\ lines \in Seq(Stock)
    /\ exit \in {0, 1, 2, Running}

ClientInit ==
    /\ maxPages \in PageLimits
    /\ stock \in SUBSET Stock /\ turns = 0 /\ stocks = {stock}
    /\ request = [role |-> "capture", page |-> 1, attempt |-> 1]
    /\ answer = NoPage /\ baseline = NoPage
    /\ summary = [fetched |-> 0, hits |-> 0, seen |-> {}, duplicates |-> 0,
                  missing |-> 0, changed |-> FALSE]
    /\ requests = {} /\ raw = {} /\ lines = <<>> /\ exit = Running

-----------------------------------------------------------------------------
(* The source, sorted by creation. *)

Placed(P, l) == Cardinality({m \in P : m <= l})
InOrder(P) == [i \in 1..Cardinality(P) |-> CHOOSE l \in P : Placed(P, l) = i]
LastOf(P) == IF P = {} THEN 1 ELSE (Cardinality(P) + PerPage - 1) \div PerPage
PageAt(P, p) ==
    [total |-> Cardinality(P), last |-> LastOf(P),
     listings |-> SubSeq(InOrder(P), (p - 1) * PerPage + 1,
                         IF p * PerPage < Cardinality(P) THEN p * PerPage ELSE Cardinality(P))]

StockChanges ==
    /\ exit = Running /\ turns < MaxTurns
    /\ \/ \E l \in Stock \ stock : stock' = stock \cup {l}
       \/ \E l \in stock : stock' = stock \ {l}
    /\ turns' = turns + 1 /\ stocks' = stocks \cup {stock'}
    /\ UNCHANGED <<maxPages, request, answer, baseline, summary, requests, raw, lines, exit>>

-----------------------------------------------------------------------------
(* requestPage. *)

Asking == exit = Running /\ answer = NoPage
Entry(status) == [role |-> request.role, page |-> request.page, attempt |-> request.attempt,
                  status |-> status]

Fail == exit' = 1 /\ UNCHANGED <<request, answer, baseline, summary, lines>>

AttemptsRemain == request.attempt < Tries
Retried == [request EXCEPT !.attempt = @ + 1]
RetryOrFail ==
    IF AttemptsRemain
    THEN request' = Retried /\ UNCHANGED <<answer, baseline, summary, lines, exit>>
    ELSE Fail

\* A page past a shrunken end has a current_page beyond its last_page.
Acceptable(p) == p <= LastOf(stock)

\* COMPLETE, once the probe is answered.  The first form looks for changes only.
CompleteIfUnchanged(probe) ==
    /\ summary.duplicates = 0 /\ summary.missing = 0
    /\ ~summary.changed /\ probe = baseline
Complete(probe) ==
    /\ summary.fetched >= baseline.last
    /\ summary.duplicates = 0 /\ summary.missing = 0
    /\ ~summary.changed /\ probe = baseline
    /\ summary.hits = baseline.total /\ Cardinality(summary.seen) = baseline.total

Concluded(probe) ==
    exit' = (IF Complete(probe) THEN 0 ELSE 2)
    /\ UNCHANGED <<request, answer, baseline, summary, lines>>

Taken(p) ==
    /\ answer' = p
    /\ baseline' = IF request.page = 1 THEN p ELSE baseline
    /\ UNCHANGED <<request, summary, lines, exit>>

Settled(status) ==
    CASE status = "ok" /\ Acceptable(request.page) ->
            IF request.role = "capture" THEN Taken(PageAt(stock, request.page))
            ELSE Concluded(PageAt(stock, 1))
      [] status = "busy" -> RetryOrFail
      [] OTHER -> Fail

\* onResponse is awaited before the status is looked at; a file that cannot
\* be written ends the export.
Respond(status, kept) ==
    /\ Asking /\ status # "none"
    /\ requests' = requests \cup {Entry(status)}
    /\ raw' = IF kept THEN raw \cup {Entry(status)} ELSE raw
    /\ IF kept THEN Settled(status) ELSE Fail
    /\ UNCHANGED <<stockVars, maxPages>>

\* The transport throws.
Lose ==
    /\ Asking
    /\ requests' = requests \cup {Entry("none")}
    /\ RetryOrFail
    /\ UNCHANGED <<stockVars, maxPages, raw>>

-----------------------------------------------------------------------------
(* The loop over the pages. *)

Limit == IF maxPages < baseline.last THEN maxPages ELSE baseline.last

Shown(p) == {p.listings[i] : i \in DOMAIN p.listings}
Names(p) == Shown(p) \ Nameless
Counted(p) ==
    [summary EXCEPT
        !.changed = @ \/ p.total # baseline.total \/ p.last # baseline.last,
        !.missing = @ + Cardinality(Shown(p) \cap Nameless),
        !.duplicates = @ + Cardinality(Names(p) \cap summary.seen),
        !.seen = @ \cup Names(p)]

Following ==
    IF request.page < Limit
    THEN [role |-> "capture", page |-> request.page + 1, attempt |-> 1]
    ELSE [role |-> "consistency_probe", page |-> 1, attempt |-> 1]

\* onPage writes listing after listing.
WritePage ==
    /\ exit = Running /\ answer # NoPage
    /\ lines' = lines \o answer.listings
    /\ summary' = [Counted(answer) EXCEPT !.fetched = @ + 1, !.hits = @ + Len(answer.listings)]
    /\ request' = Following /\ answer' = NoPage
    /\ UNCHANGED <<stockVars, maxPages, baseline, requests, raw, exit>>

\* The file refuses a listing of the page: those before it stay.
WriteFails ==
    /\ exit = Running /\ answer # NoPage
    /\ \E n \in 0..Len(answer.listings) - 1 :
          lines' = lines \o SubSeq(answer.listings, 1, n)
    /\ summary' = Counted(answer)
    /\ exit' = 1 /\ answer' = NoPage
    /\ UNCHANGED <<stockVars, maxPages, request, baseline, requests, raw>>

ClientStep ==
    \/ \E status \in Statuses, kept \in BOOLEAN : Respond(status, kept)
    \/ Lose
    \/ WritePage
    \/ WriteFails

ClientNext == ClientStep \/ StockChanges

ClientSpec == ClientInit /\ [][ClientNext]_clientVars

-----------------------------------------------------------------------------
\* Exit code 0 means that listings.ndjson is, listing for listing and in order
\* of creation, one population of the source, if its populations only grew and
\* shrank into one another.
ExitZeroIsPopulation ==
    exit = 0 /\ (\A P, Q \in stocks : P \subseteq Q \/ Q \subseteq P)
        => \E P \in stocks : lines = InOrder(P)

\* Every answer is a file of raw/, whatever its status; the one exception is
\* the answer whose file could not be written, and it ends the export.
AnswersAreKept ==
    LET answered == {r \in requests : r.status # "none"}
    IN  IF exit = 1 THEN Cardinality(answered \ raw) <= 1 ELSE answered = raw

\* The summary tells the lines of the file: exactly when the export finished,
\* and less than a page too few when a write failed.
SummaryTellsLines ==
    LET told == Cardinality(summary.seen) + summary.duplicates + summary.missing
    IN  /\ exit # 1 => Len(lines) = summary.hits /\ told = summary.hits
        /\ summary.hits <= Len(lines) /\ Len(lines) <= told
        /\ Len(lines) < summary.hits + PerPage

\* A source that holds still and names its listings is never called invalid or
\* changed: an export of all its pages that was not stopped exits with 0.
StillSourceIsComplete ==
    exit = 2 /\ Cardinality(stocks) = 1 /\ stock \cap Nameless = {} => maxPages < LastOf(stock)

\* Every export ends, however the source answers and changes.
ExportEnds == <>(exit # Running)

\* An export keeps every answer, reports what it wrote, and ends with 0 exactly
\* when it has the whole population of a page-one probe.
ExportIsTruthful ==
    /\ ClientTypeOK
    /\ ExitZeroIsPopulation /\ AnswersAreKept /\ SummaryTellsLines /\ StillSourceIsComplete
=============================================================================
