------------------------ MODULE VehicleMarketCapture ------------------------
(***************************************************************************)
(* One live capture (captureLiveVehicleMarket): it asks page after page of  *)
(* a source that changes while it is read, retries, probes page 1 at the    *)
(* end, and hands everything that was answered to                           *)
(* processVehicleMarketRawPages, which stores every page once more before   *)
(* it parses it.                                                            *)
(***************************************************************************)
EXTENDS VehicleMarketQuality

CONSTANTS
    Listings,      \* listings of the source, numbered by creation
    PageSize,      \* VEHICLE_MARKET_PAGE_SIZE
    PageLimit,     \* smokeMaxPages; beyond every last page in full mode
    MaxAttempts,   \* maxAttempts
    NoResult,      \* before the capture is processed
    MaxChanges,    \* bound: changes of the source during a capture
    Faulty         \* bound: what may go wrong, as <<role, page, kind or failure>>

ASSUME ListingAssumption == IsFiniteSet(Listings) /\ Listings \subseteq Nat
ASSUME SizeAssumption ==
    /\ PageSize \in Nat \ {0} /\ PageLimit \in Nat \ {0} /\ MaxAttempts \in Nat \ {0}
    /\ MaxChanges \in Nat

VARIABLES
    listed,    \* what the source lists now
    changes,   \* changes of it so far
    past,      \* every population it has had during the capture
    at,        \* where the capture stands
    page,      \* page to ask for
    attempt,   \* attempt at it
    maximum,   \* maximumPage
    inputs,    \* answers, in `inputs` of the code
    attempts,  \* run.requestAttempts, with the answer stored or not
    unstored,  \* inputs whose second put failed
    result     \* the quality record

sourceVars == <<listed, changes, past>>
askVars == <<at, page, attempt, maximum>>
vars == <<sourceVars, askVars, inputs, attempts, unstored, result>>

Role == {"capture", "consistency_probe"}
Kind == {"answered", "mislabelled", "malformed", "busy", "refused"}
Input == [role : Role, page : Nat \ {0}, attempt : 1..MaxAttempts, kind : Kind,
          last : Nat \ {0}, total : Nat, listings : SUBSET Listings]

TypeOK ==
    /\ listed \subseteq Listings /\ changes \in Nat
    /\ past \subseteq SUBSET Listings
    /\ at \in {"first", "rest", "probe", "process", "done"}
    /\ page \in Nat \ {0} /\ attempt \in 1..MaxAttempts /\ maximum \in Nat
    /\ inputs \subseteq Input /\ unstored \subseteq inputs
    /\ attempts \subseteq [role : Role, page : Nat \ {0}, attempt : 1..MaxAttempts, stored : BOOLEAN]
    /\ result = NoResult \/ result.status \in Status

Init ==
    /\ listed \in SUBSET Listings /\ changes = 0 /\ past = {listed}
    /\ at = "first" /\ page = 1 /\ attempt = 1 /\ maximum = 0
    /\ inputs = {} /\ attempts = {} /\ unstored = {}
    /\ result = NoResult

-----------------------------------------------------------------------------
(* The source. *)

Rank(P, l) == Cardinality({m \in P : m <= l})
PageOf(P, p) == {l \in P : Rank(P, l) \in (p - 1) * PageSize + 1 .. p * PageSize}
LastPage(P) == IF P = {} THEN 1 ELSE (Cardinality(P) + PageSize - 1) \div PageSize

Capturing == at \in {"first", "rest", "probe"}

SourceChanges ==
    /\ Capturing /\ changes < MaxChanges
    /\ \/ \E l \in Listings \ listed : listed' = listed \cup {l}
       \/ \E l \in listed : listed' = listed \ {l}
    /\ changes' = changes + 1
    /\ past' = past \cup {listed'}
    /\ UNCHANGED <<askVars, inputs, attempts, unstored, result>>

-----------------------------------------------------------------------------
(* requestPage. *)

RoleNow == IF at = "probe" THEN "consistency_probe" ELSE "capture"

InputOf(kind) ==
    [role |-> RoleNow, page |-> page, attempt |-> attempt, kind |-> kind,
     last |-> LastPage(listed), total |-> Cardinality(listed),
     listings |-> IF kind = "answered" THEN PageOf(listed, page) ELSE {}]

Attempted(stored) ==
    attempts' = attempts \cup
        {[role |-> RoleNow, page |-> page, attempt |-> attempt, stored |-> stored]}

MayFail(how) == <<RoleNow, page, how>> \in Faulty
MayAnswer(kind) == kind = "answered" \/ MayFail(kind)

\* attemptNumber < maxAttempts
AttemptsLeft == attempt < MaxAttempts
Retry == attempt' = attempt + 1 /\ UNCHANGED <<at, page, maximum>>

\* Page 1 is settled: if it opens the population, it names the last page.
AfterFirst(opens) ==
    IF opens
    THEN /\ maximum' = IF LastPage(listed) < PageLimit THEN LastPage(listed) ELSE PageLimit
         /\ at' = IF maximum' > 1 THEN "rest" ELSE "probe"
         /\ page' = IF maximum' > 1 THEN 2 ELSE 1
    ELSE at' = "process" /\ UNCHANGED <<page, maximum>>

\* A page was answered or given up; a thrown error breaks the loop.  The first
\* form asks for a page that threw until it is answered.
AskAgain(thrown) ==
    /\ IF thrown THEN UNCHANGED <<at, page>>
       ELSE IF page < maximum THEN at' = "rest" /\ page' = page + 1
       ELSE at' = "probe" /\ page' = 1
    /\ UNCHANGED maximum
AfterPage(thrown) ==
    /\ IF page < maximum /\ ~thrown
       THEN at' = "rest" /\ page' = page + 1
       ELSE at' = "probe" /\ page' = 1
    /\ UNCHANGED maximum

AfterProbe == at' = "process" /\ UNCHANGED <<page, maximum>>

Proceed(opens, thrown) ==
    /\ attempt' = 1
    /\ \/ at = "first" /\ AfterFirst(opens)
       \/ at = "rest" /\ AfterPage(thrown)
       \/ at = "probe" /\ AfterProbe

\* Stored and returned, except that a busy answer is retried while it can be.
PageAnswered(kind) ==
    LET i == InputOf(kind)
    IN  /\ Capturing /\ MayAnswer(kind)
        /\ inputs' = inputs \cup {i}
        /\ Attempted(TRUE)
        /\ IF kind = "busy" /\ AttemptsLeft THEN Retry ELSE Proceed(Parses(i), FALSE)
        /\ UNCHANGED <<sourceVars, unstored, result>>

\* An answer is an input before it is stored.  If the store refuses it, the
\* attempt is recorded as a network error and retried, or thrown at last.
AnswerNotStored(kind) ==
    /\ Capturing /\ MayAnswer(kind) /\ MayFail("unstored")
    /\ inputs' = inputs \cup {InputOf(kind)}
    /\ Attempted(FALSE)
    /\ IF AttemptsLeft THEN Retry ELSE Proceed(FALSE, TRUE)
    /\ UNCHANGED <<sourceVars, unstored, result>>

\* No answer, or a timeout.
NoAnswer ==
    /\ Capturing /\ MayFail("silent")
    /\ Attempted(FALSE)
    /\ IF AttemptsLeft THEN Retry ELSE Proceed(FALSE, TRUE)
    /\ UNCHANGED <<sourceVars, inputs, unstored, result>>

\* processVehicleMarketRawPages: each input is put once more, then parsed; at
\* most one of these puts fails.
ProcessRawPages ==
    /\ at = "process"
    /\ \E u \in {{}} \cup {{i} : i \in inputs} :
        /\ unstored' = u
        /\ result' = Quality(inputs, u)
    /\ at' = "done"
    /\ UNCHANGED <<sourceVars, page, attempt, maximum, inputs, attempts>>

-----------------------------------------------------------------------------
CaptureStep ==
    \/ \E kind \in Kind : PageAnswered(kind) \/ AnswerNotStored(kind)
    \/ NoAnswer
    \/ ProcessRawPages

Next == CaptureStep \/ SourceChanges

Spec == Init /\ [][Next]_vars

\* A request is answered or aborted by its timer, so a capture goes on.
FairSpec == Spec /\ WF_vars(CaptureStep)

-----------------------------------------------------------------------------
Done == at = "done"
Captured == Found(CapturePages(inputs \ unstored))

\* A COMPLETE run captured exactly a population the source really had, as long
\* as its populations only grew and shrank into one another: then equal totals
\* mean equal populations.  A listing that replaces another goes unnoticed.
CompleteIsExact ==
    /\ Done /\ result.status = "COMPLETE"
    /\ \A P, Q \in past : P \subseteq Q \/ Q \subseteq P
    => Captured \in past

\* Retries, refusals and lost requests never make a run of an unchanged source
\* invalid or changed: they leave it COMPLETE or PARTIAL.
StableSourceStaysValid ==
    /\ Done /\ changes = 0 /\ unstored = {}
    /\ \A i \in inputs : ~SchemaError(i)
    /\ \A l \in listed : l \notin OutOfScope
    => result.status \in {"COMPLETE", "PARTIAL"}

\* The two policies agree: what quality-policy.ts lets be published, the view
\* of the lake compares, for its population exactly when the code does; and
\* a COMPLETE run of anything is good for both.
PoliciesAgree ==
    Done =>
        /\ SnapshotComparable(result) =>
              /\ ViewSnapshotComparable(result)
              /\ ViewPopulationComparable(result) <=> PopulationComparable(result)
        /\ result.status = "COMPLETE" /\ result.unique > 0 => PopulationComparable(result)

\* A comparable run has every page the source announced, each counted once
\* however often it was asked for, and nothing out of scope.
ComparableIsEnumerated ==
    Done /\ SnapshotComparable(result) =>
        /\ unstored = {}
        /\ \A p \in 1..result.expected :
              \E i \in inputs : i.role = "capture" /\ i.page = p /\ i.kind = "answered"
        /\ Cardinality(Captured) = result.unique
        /\ Captured \cap OutOfScope = {}

\* Every capture comes to an end, however the source behaves.
CaptureEnds == <>Done
=============================================================================
