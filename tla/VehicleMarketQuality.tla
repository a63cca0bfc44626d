------------------------ MODULE VehicleMarketQuality ------------------------
(***************************************************************************)
(* What a capture of the vehicle market is worth: the quality record        *)
(* processVehicleMarketRawPages computes from the answered requests, the    *)
(* policy that decides whether a run may be compared and published          *)
(* (quality-policy.ts), and the view that decides it again in the lake.     *)
(*                                                                          *)
(* An input is an answered request.  A listing is the number of its place   *)
(* in the order of creation; a page answers with the set of its listings,   *)
(* which it lists in that order.                                            *)
(***************************************************************************)
EXTENDS Integers, FiniteSets

CONSTANTS
    OutOfScope,        \* listings validateListing finds issues with
    MaxDuplicateHits,  \* VEHICLE_MARKET_BOUNDED_DUPLICATE_MAX_HITS
    DuplicateRate      \* 1 / VEHICLE_MARKET_BOUNDED_DUPLICATE_MAX_RATE

ASSUME PolicyAssumption == MaxDuplicateHits \in Nat /\ DuplicateRate \in Nat \ {0}

Status == {"COMPLETE", "CHANGED_DURING_CAPTURE", "PARTIAL", "INVALID"}
Error == {"store", "schema", "ordering", "counts", "scope"}

-----------------------------------------------------------------------------
(* From inputs to pages.  "answered" is a page of the source; "mislabelled"  *)
(* one that names another page; "malformed" is not a page; "busy" is HTTP    *)
(* 429 or 5xx and "refused" any other HTTP error.                            *)

\* parsePage accepts the answer, one page beyond the last at most.
Parses(i) == i.kind = "mislabelled" \/ (i.kind = "answered" /\ i.page <= i.last + 1)

\* persistThenParse: metadata are kept; a schema error; an HTTP error warns.
HasMetadata(i) == Parses(i) /\ i.kind = "answered"
SchemaError(i) == i.kind \notin {"busy", "refused"} /\ ~HasMetadata(i)

Captures(inputs) == {i \in inputs : i.role = "capture"}
Probes(inputs) == {i \in inputs : i.role = "consistency_probe" /\ HasMetadata(i)}

\* The later attempt replaces the earlier; every attempt counts on its own.
EveryAttempt(inputs) == {i \in Captures(inputs) : HasMetadata(i)}
CapturePages(inputs) ==
    {i \in EveryAttempt(inputs) :
        \A j \in EveryAttempt(inputs) : j.page = i.page => j.attempt <= i.attempt}

Hits(pages) == UNION {{<<i, l>> : l \in i.listings} : i \in pages}
\* Hits that fail the filters of the scope.
Violations(pages) == {h \in Hits(pages) : h[2] \in OutOfScope}
Found(pages) == UNION {i.listings : i \in pages}

\* Creation times decrease from one page to a later one.
OrderingInvalid(pages) ==
    \E g, h \in Hits(pages) : g[1].page < h[1].page /\ h[2] < g[2]

\* The one element of a set, or a default.
Only(S, default) == IF S = {} THEN default ELSE CHOOSE x \in S : TRUE
Latest(S) == {i \in S : \A j \in S : j.attempt <= i.attempt}
Rearmost(pages) == {i \in pages : \A j \in pages : j.page <= i.page}

-----------------------------------------------------------------------------
(* The run's status. *)

Partial(q) == q.failedCapture \/ ~q.hasFirst \/ ~q.hasProbe \/ q.missing \/ q.fetched # q.expected
Invalid(q) == q.errors # {} \/ q.violations > 0 \/ q.duplicates > 0
Changed(q) == ~Partial(q) /\ ~Invalid(q) /\ (q.start # q.end \/ q.metadataChanged)
StableMismatch(q) ==
    ~Partial(q) /\ ~Invalid(q) /\ ~Changed(q) /\ (q.raw # q.start \/ q.unique # q.start)

\* A status that looks at the totals of the first page and the probe only.
StatusByTotals(q) ==
    IF Invalid(q) THEN "INVALID"
    ELSE IF Partial(q) THEN "PARTIAL"
    ELSE IF q.start # q.end THEN "CHANGED_DURING_CAPTURE"
    ELSE "COMPLETE"

RunStatus(q) ==
    IF Invalid(q) \/ StableMismatch(q) THEN "INVALID"
    ELSE IF Partial(q) THEN "PARTIAL"
    ELSE IF Changed(q) THEN "CHANGED_DURING_CAPTURE"
    ELSE "COMPLETE"

\* What the status is computed from; unstored inputs are only errors.
Measures(inputs, unstored) ==
    LET kept == inputs \ unstored
        pages == CapturePages(kept)
        firsts == {i \in pages : i.page = 1}
        probes == Latest(Probes(kept))
        start == Only({i.total : i \in firsts}, 0)
        expected == Only({i.last : i \in firsts}, 0)
        raw == Cardinality(Hits(pages))
        unique == Cardinality(Found(pages))
    IN  [hasFirst |-> firsts # {},
         hasProbe |-> probes # {},
         failedCapture |-> {i.page : i \in Captures(kept)} # {i.page : i \in pages},
         missing |-> \E p \in 1..expected : \A i \in pages : i.page # p,
         expected |-> expected,
         fetched |-> Cardinality(pages),
         start |-> start,
         end |-> Only({i.total : i \in probes},
                      Only({i.total : i \in Rearmost(pages)}, start)),
         metadataChanged |->
            \E f \in firsts, i \in pages \cup probes : i.last # f.last \/ i.total # f.total,
         raw |-> raw,
         unique |-> unique,
         duplicates |-> raw - unique,
         violations |-> Cardinality(Violations(pages)),
         errors |-> (IF unstored # {} THEN {"store"} ELSE {})
                \cup (IF \E i \in kept : SchemaError(i) THEN {"schema"} ELSE {})
                \cup (IF OrderingInvalid(pages) THEN {"ordering"} ELSE {})]

\* The quality record: the status joins the measures, and errors are complete.
Quality(inputs, unstored) ==
    LET q == Measures(inputs, unstored)
    IN  [status |-> RunStatus(q),
         start |-> q.start, end |-> q.end, raw |-> q.raw, unique |-> q.unique,
         duplicates |-> q.duplicates, violations |-> q.violations,
         expected |-> q.expected, fetched |-> q.fetched,
         errors |-> q.errors \cup (IF StableMismatch(q) THEN {"counts"} ELSE {})
                             \cup (IF q.violations > 0 THEN {"scope"} ELSE {})]

-----------------------------------------------------------------------------
(* The policy, and the view over the published rows. *)

FullyEnumerated(q) ==
    /\ q.expected > 0 /\ q.fetched = q.expected
    /\ q.unique > 0 /\ q.violations = 0
    /\ q.raw = q.unique + q.duplicates

BoundedDuplicateDrift(q) ==
    q.duplicates \in 1..MaxDuplicateHits /\ q.duplicates * DuplicateRate <= q.raw

\* Without the test of the status, and without the test of the errors.
EnumeratedOrBounded(q) ==
    FullyEnumerated(q) /\ (q.duplicates = 0 \/ BoundedDuplicateDrift(q))
BoundedWhateverFailed(q) ==
    /\ FullyEnumerated(q)
    /\ \/ q.duplicates = 0 /\ q.status \in {"COMPLETE", "CHANGED_DURING_CAPTURE"}
       \/ q.status = "INVALID" /\ BoundedDuplicateDrift(q)

SnapshotComparable(q) ==
    /\ FullyEnumerated(q)
    /\ \/ q.duplicates = 0 /\ q.status \in {"COMPLETE", "CHANGED_DURING_CAPTURE"}
       \/ /\ q.duplicates > 0 /\ q.status = "INVALID"
          /\ BoundedDuplicateDrift(q)
          /\ q.errors = {"ordering"}

PopulationComparable(q) ==
    /\ q.status = "COMPLETE" /\ SnapshotComparable(q)
    /\ q.duplicates = 0
    /\ q.start = q.end /\ q.raw = q.start /\ q.unique = q.start

ViewSnapshotComparable(q) ==
    /\ FullyEnumerated(q)
    /\ \/ q.status \in {"COMPLETE", "CHANGED_DURING_CAPTURE"} /\ q.duplicates = 0
       \/ q.status = "INVALID" /\ BoundedDuplicateDrift(q)

ViewPopulationComparable(q) ==
    /\ q.status = "COMPLETE"
    /\ q.expected > 0 /\ q.fetched = q.expected
    /\ q.violations = 0 /\ q.duplicates = 0
    /\ q.start = q.end /\ q.raw = q.start /\ q.unique = q.start
=============================================================================
