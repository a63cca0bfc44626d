------------------------ MODULE VehicleMarketProofs ------------------------
(***************************************************************************)
(* Proofs about the vehicle market: the live capture and the exporting      *)
(* client, for every source, page size, limit and number of attempts, and   *)
(* the publication, for any number of replays and publishers.               *)
(***************************************************************************)
EXTENDS VehicleMarketCapture, AutotraderClient, VehicleMarketPublication,
        FiniteSetTheorems, SequenceTheorems, TLAPS

-----------------------------------------------------------------------------
(* Arithmetic of pages. *)

\* Integer division, as the two bounds that define it.
LEMMA Division ==
    ASSUME NEW S \in Nat \ {0}, NEW n \in Nat
    PROVE  /\ n \div S \in Nat
           /\ (n \div S) * S <= n /\ n < (n \div S) * S + S
  OBVIOUS

LEMMA Cancel ==
    ASSUME NEW S \in Nat \ {0}, NEW a \in Nat, NEW b \in Nat, a * S < (b + 1) * S
    PROVE  a <= b
  OBVIOUS

\* The number of the page on which the listing of rank r stands.
LEMMA RankHasPage ==
    ASSUME NEW S \in Nat \ {0}, NEW n \in Nat, NEW r \in 1..n
    PROVE  \E p \in 1 .. (n + S - 1) \div S : r \in (p - 1) * S + 1 .. p * S
  <1>1. PICK a \in Nat : a * S <= r - 1 /\ r - 1 < a * S + S
    BY Division, r - 1 \in Nat
  <1>2. PICK b \in Nat : /\ b = (n + S - 1) \div S
                        /\ b * S <= n + S - 1 /\ n + S - 1 < b * S + S
    BY Division, n + S - 1 \in Nat
  <1>3. (a + 1) * S = a * S + S /\ (b + 1) * S = b * S + S
    BY <1>1, <1>2
  <1>4. a + 1 <= b
    <2>1. (a + 1) * S < (b + 1) * S
      BY <1>1, <1>2, <1>3
    <2> QED
      BY <2>1, Cancel, a + 1 \in Nat
  <1>5. PICK p \in 1 .. b : p = a + 1
    BY <1>4
  <1>6. p * S = a * S + S /\ (p - 1) * S = a * S
    BY <1>3, <1>5
  <1>7. r \in (p - 1) * S + 1 .. p * S
    BY <1>1, <1>6
  <1> QED
    BY <1>2, <1>7

\* The pages of a population, from 1 to the last one, have all its listings.
LEMMA PagesCover ==
    ASSUME NEW P \in SUBSET Listings, NEW l \in P
    PROVE  \E p \in 1..LastPage(P) : l \in PageOf(P, p)
  <1>1. IsFiniteSet(P) /\ P \subseteq Nat
    BY ListingAssumption, FS_Subset
  <1> DEFINE below == {m \in P : m <= l}
  <1>2. IsFiniteSet(below) /\ Cardinality(below) \in Nat /\ Cardinality(P) \in Nat
        /\ Cardinality(below) <= Cardinality(P)
    BY <1>1, FS_Subset, FS_CardinalityType
  <1>3. Cardinality(below) # 0
    BY <1>1, <1>2, l \in below, FS_EmptySet
  <1>4. Rank(P, l) \in 1..Cardinality(P)
    BY <1>2, <1>3 DEF Rank
  <1>5. PICK p \in 1 .. (Cardinality(P) + PageSize - 1) \div PageSize :
            Rank(P, l) \in (p - 1) * PageSize + 1 .. p * PageSize
    BY <1>2, <1>4, SizeAssumption, RankHasPage
  <1> QED
    BY <1>5 DEF LastPage, PageOf

LEMMA LastPageType ==
    ASSUME NEW P \in SUBSET Listings
    PROVE  LastPage(P) \in Nat \ {0} /\ Cardinality(P) \in Nat
  <1>1. IsFiniteSet(P) /\ Cardinality(P) \in Nat
    BY ListingAssumption, FS_Subset, FS_CardinalityType
  <1>2. CASE P = {}
    BY <1>1, <1>2 DEF LastPage
  <1>3. CASE P # {}
    <2>1. Cardinality(P) \in 1..Cardinality(P)
      BY <1>1, <1>3, FS_EmptySet
    <2>2. PICK p \in 1 .. (Cardinality(P) + PageSize - 1) \div PageSize : TRUE
      BY <1>1, <2>1, SizeAssumption, RankHasPage
    <2>3. (Cardinality(P) + PageSize - 1) \div PageSize \in Nat
      BY <1>1, SizeAssumption, Division, Cardinality(P) + PageSize - 1 \in Nat
    <2> QED
      BY <1>1, <1>3, <2>2, <2>3 DEF LastPage
  <1> QED
    BY <1>2, <1>3

\* Two populations of a chain with as many listings each are the same.
LEMMA SameSize ==
    ASSUME NEW P \in SUBSET Listings, NEW Q \in SUBSET Listings,
           P \subseteq Q \/ Q \subseteq P, Cardinality(P) = Cardinality(Q)
    PROVE  P = Q
  BY ListingAssumption, FS_Subset

-----------------------------------------------------------------------------
(* The inductive invariant: what is known of every answer is that some        *)
(* population of the source gave it.                                          *)

AnswersTrue ==
    \A i \in inputs : i.kind = "answered" =>
        \E P \in past : /\ i.total = Cardinality(P)
                        /\ i.last = LastPage(P)
                        /\ i.listings = PageOf(P, i.page)

CaptureInv ==
    /\ TypeOK
    /\ IsFiniteSet(inputs)
    /\ listed \in past
    /\ AnswersTrue
    /\ at = "done" => result = Quality(inputs, unstored)

AskTypeOK ==
    /\ at \in {"first", "rest", "probe", "process", "done"}
    /\ page \in Nat \ {0} /\ attempt \in 1..MaxAttempts /\ maximum \in Nat

\* Retrying and proceeding keep the capture's position well formed, and
\* neither leads to the end directly.
LEMMA RetryTyped ==
    ASSUME AskTypeOK, Capturing, AttemptsLeft, Retry
    PROVE  AskTypeOK' /\ at' # "done"
  BY SizeAssumption DEF AskTypeOK, Capturing, AttemptsLeft, Retry

LEMMA ProceedTyped ==
    ASSUME AskTypeOK, Capturing, listed \in SUBSET Listings,
           NEW opens \in BOOLEAN, NEW thrown \in BOOLEAN, Proceed(opens, thrown)
    PROVE  AskTypeOK' /\ at' # "done"
  <1>1. attempt' \in 1..MaxAttempts
    BY SizeAssumption DEF Proceed
  <1>2. CASE at = "first" /\ AfterFirst(opens)
    BY <1>1, <1>2, LastPageType, SizeAssumption DEF AfterFirst, AskTypeOK
  <1>3. CASE at = "rest" /\ AfterPage(thrown)
    BY <1>1, <1>3 DEF AfterPage, AskTypeOK
  <1>4. CASE at = "probe" /\ AfterProbe
    BY <1>1, <1>4 DEF AfterProbe, AskTypeOK
  <1> QED
    BY <1>2, <1>3, <1>4 DEF Proceed

\* The answer of the source as it is.
LEMMA InputTyped ==
    ASSUME AskTypeOK, listed \in SUBSET Listings, NEW kind \in Kind
    PROVE  InputOf(kind) \in Input
  <1>1. PageOf(listed, page) \subseteq Listings
    BY DEF PageOf
  <1> QED
    BY <1>1, LastPageType DEF AskTypeOK, InputOf, Input, Role, RoleNow, Kind

\* One more answer keeps the inputs finite, typed and true.
LEMMA InputAdded ==
    ASSUME CaptureInv, NEW kind \in Kind, inputs' = inputs \cup {InputOf(kind)},
           UNCHANGED sourceVars
    PROVE  /\ inputs' \subseteq Input /\ inputs \subseteq inputs'
           /\ IsFiniteSet(inputs') /\ AnswersTrue'
  <1>1. AskTypeOK /\ listed \in SUBSET Listings /\ inputs \subseteq Input
    BY DEF CaptureInv, TypeOK, AskTypeOK
  <1>2. InputOf(kind) \in Input
    BY <1>1, InputTyped
  <1>3. IsFiniteSet(inputs')
    BY FS_AddElement DEF CaptureInv
  <1>4. AnswersTrue'
    <2> SUFFICES ASSUME NEW i \in inputs', i.kind = "answered"
                 PROVE  \E P \in past : /\ i.total = Cardinality(P)
                                        /\ i.last = LastPage(P)
                                        /\ i.listings = PageOf(P, i.page)
      BY DEF AnswersTrue, sourceVars
    <2>1. CASE i \in inputs
      BY <2>1 DEF CaptureInv, AnswersTrue
    <2>2. CASE i = InputOf(kind)
      <3>1. i.total = Cardinality(listed) /\ i.last = LastPage(listed)
            /\ i.listings = PageOf(listed, i.page)
        BY <2>2 DEF InputOf
      <3> QED
        BY <3>1 DEF CaptureInv
    <2> QED
      BY <2>1, <2>2
  <1> QED
    BY <1>1, <1>2, <1>3, <1>4

LEMMA AttemptedTyped ==
    ASSUME TypeOK, NEW stored \in BOOLEAN, Attempted(stored)
    PROVE  attempts' \subseteq [role : Role, page : Nat \ {0},
                               attempt : 1..MaxAttempts, stored : BOOLEAN]
  BY DEF TypeOK, Attempted, RoleNow, Role

LEMMA StatusTyped ==
    ASSUME NEW q PROVE RunStatus(q) \in Status
  BY DEF RunStatus, Status

-----------------------------------------------------------------------------
(* The invariant holds at the start and every action keeps it. *)

LEMMA InitInv == Init => CaptureInv
  <1> SUFFICES ASSUME Init PROVE CaptureInv
    OBVIOUS
  <1>1. TypeOK
    BY SizeAssumption DEF Init, TypeOK
  <1>2. IsFiniteSet(inputs)
    BY FS_EmptySet DEF Init
  <1>3. AnswersTrue
    BY DEF Init, AnswersTrue
  <1> QED
    BY <1>1, <1>2, <1>3 DEF Init, CaptureInv

\* A step of the capture that is not its last keeps the invariant if it keeps
\* the inputs finite, typed and true, and the position well formed.
LEMMA AskingKeeps ==
    ASSUME CaptureInv, UNCHANGED sourceVars, UNCHANGED <<unstored, result>>,
           NEW stored \in BOOLEAN, Attempted(stored),
           AskTypeOK', at' # "done",
           inputs' \subseteq Input, inputs \subseteq inputs', IsFiniteSet(inputs'), AnswersTrue'
    PROVE  CaptureInv'
  <1>1. TypeOK'
    BY AttemptedTyped DEF CaptureInv, TypeOK, AskTypeOK, sourceVars
  <1> QED
    BY <1>1 DEF CaptureInv, sourceVars

LEMMA AnsweredKeeps ==
    ASSUME CaptureInv, NEW kind \in Kind, PageAnswered(kind)
    PROVE  CaptureInv'
  <1>1. AskTypeOK /\ listed \in SUBSET Listings
    BY DEF CaptureInv, TypeOK, AskTypeOK
  <1>2. /\ Capturing /\ inputs' = inputs \cup {InputOf(kind)} /\ Attempted(TRUE)
        /\ UNCHANGED sourceVars /\ UNCHANGED <<unstored, result>>
    BY DEF PageAnswered
  <1>3. AskTypeOK' /\ at' # "done"
    <2>1. CASE kind = "busy" /\ AttemptsLeft
      BY <1>1, <1>2, <2>1, RetryTyped DEF PageAnswered
    <2>2. CASE ~(kind = "busy" /\ AttemptsLeft)
      <3>1. Proceed(Parses(InputOf(kind)), FALSE)
        BY <2>2 DEF PageAnswered
      <3>2. Parses(InputOf(kind)) \in BOOLEAN
        BY DEF Parses
      <3> QED
        BY <1>1, <1>2, <3>1, <3>2, ProceedTyped
    <2> QED
      BY <2>1, <2>2
  <1>4. /\ inputs' \subseteq Input /\ inputs \subseteq inputs'
        /\ IsFiniteSet(inputs') /\ AnswersTrue'
    BY <1>2, InputAdded
  <1> QED
    BY <1>2, <1>3, <1>4, AskingKeeps

\* What follows an attempt without a stored answer.
LEMMA FailedAttemptTyped ==
    ASSUME CaptureInv, Capturing, IF AttemptsLeft THEN Retry ELSE Proceed(FALSE, TRUE)
    PROVE  AskTypeOK' /\ at' # "done"
  <1>1. AskTypeOK /\ listed \in SUBSET Listings
    BY DEF CaptureInv, TypeOK, AskTypeOK
  <1>2. CASE AttemptsLeft
    BY <1>1, <1>2, RetryTyped
  <1>3. CASE ~AttemptsLeft
    BY <1>1, <1>3, ProceedTyped
  <1> QED
    BY <1>2, <1>3

LEMMA NotStoredKeeps == ASSUME CaptureInv, NEW kind \in Kind, AnswerNotStored(kind) PROVE CaptureInv'
  <1>1. /\ Capturing /\ inputs' = inputs \cup {InputOf(kind)} /\ Attempted(FALSE)
        /\ UNCHANGED sourceVars /\ UNCHANGED <<unstored, result>>
    BY DEF AnswerNotStored
  <1>2. AskTypeOK' /\ at' # "done"
    BY FailedAttemptTyped DEF AnswerNotStored
  <1>3. /\ inputs' \subseteq Input /\ inputs \subseteq inputs'
        /\ IsFiniteSet(inputs') /\ AnswersTrue'
    BY <1>1, InputAdded
  <1> QED
    BY <1>1, <1>2, <1>3, AskingKeeps

LEMMA NoAnswerKeeps == ASSUME CaptureInv, NoAnswer PROVE CaptureInv'
  <1>1. /\ Capturing /\ inputs' = inputs /\ Attempted(FALSE)
        /\ UNCHANGED sourceVars /\ UNCHANGED <<unstored, result>>
    BY DEF NoAnswer
  <1>2. AskTypeOK' /\ at' # "done"
    BY FailedAttemptTyped DEF NoAnswer
  <1>3. inputs' \subseteq Input /\ IsFiniteSet(inputs') /\ AnswersTrue'
    BY <1>1 DEF CaptureInv, TypeOK, AnswersTrue, sourceVars
  <1> QED
    BY <1>1, <1>2, <1>3, AskingKeeps

LEMMA SourceKeeps == ASSUME CaptureInv, SourceChanges PROVE CaptureInv'
  <1>1. listed' \subseteq Listings /\ past' = past \cup {listed'} /\ changes' \in Nat
    BY DEF SourceChanges, CaptureInv, TypeOK
  <1>2. UNCHANGED <<askVars, inputs, attempts, unstored, result>> /\ at # "done"
    BY DEF SourceChanges, Capturing
  <1>3. TypeOK'
    BY <1>1, <1>2 DEF CaptureInv, TypeOK, askVars
  <1>4. AnswersTrue'
    BY <1>1, <1>2 DEF CaptureInv, AnswersTrue
  <1> QED
    BY <1>1, <1>2, <1>3, <1>4 DEF CaptureInv, askVars

LEMMA ProcessKeeps == ASSUME CaptureInv, ProcessRawPages PROVE CaptureInv'
  <1>1. PICK u \in {{}} \cup {{i} : i \in inputs} : unstored' = u /\ result' = Quality(inputs, u)
    BY DEF ProcessRawPages
  <1>2. unstored' \subseteq inputs
    BY <1>1
  <1>3. result'.status \in Status
    BY <1>1, StatusTyped DEF Quality
  <1>4. at' = "done" /\ UNCHANGED <<sourceVars, page, attempt, maximum, inputs, attempts>>
    BY DEF ProcessRawPages
  <1>5. TypeOK'
    BY <1>2, <1>3, <1>4 DEF CaptureInv, TypeOK, sourceVars
  <1>6. AnswersTrue'
    BY <1>4 DEF CaptureInv, AnswersTrue, sourceVars
  <1> QED
    BY <1>1, <1>4, <1>5, <1>6 DEF CaptureInv, sourceVars

LEMMA InvKept == CaptureInv /\ [Next]_vars => CaptureInv'
  <1> SUFFICES ASSUME CaptureInv, [Next]_vars PROVE CaptureInv'
    OBVIOUS
  <1>1. CASE \E kind \in Kind : PageAnswered(kind)
    BY <1>1, AnsweredKeeps
  <1>2. CASE \E kind \in Kind : AnswerNotStored(kind)
    BY <1>2, NotStoredKeeps
  <1>3. CASE NoAnswer
    BY <1>3, NoAnswerKeeps
  <1>4. CASE ProcessRawPages
    BY <1>4, ProcessKeeps
  <1>5. CASE SourceChanges
    BY <1>5, SourceKeeps
  <1>6. CASE UNCHANGED vars
    BY <1>6 DEF CaptureInv, TypeOK, AnswersTrue, vars, sourceVars, askVars
  <1> QED
    BY <1>1, <1>2, <1>3, <1>4, <1>5, <1>6 DEF Next, CaptureStep

LEMMA CaptureInvHolds == Spec => []CaptureInv
  <1> QED
    BY InitInv, InvKept, PTL DEF Spec

\* Every variable of a capture keeps its type: a page number stays positive, an
\* attempt within its limit, an answer among the answers of the source.
THEOREM CaptureTypes == Spec => []TypeOK
  <1>1. CaptureInv => TypeOK
    BY DEF CaptureInv
  <1> QED
    BY <1>1, CaptureInvHolds, PTL

-----------------------------------------------------------------------------
(* What a COMPLETE record says. *)

\* A COMPLETE run has a first page, all its pages and no metadata that differ.
LEMMA CompleteMeasures ==
    ASSUME NEW q, RunStatus(q) = "COMPLETE"
    PROVE  /\ q.hasFirst /\ ~q.missing /\ q.fetched = q.expected
           /\ ~q.metadataChanged
           /\ ~(q.violations > 0)
           /\ q.errors = {}
           /\ q.start = q.end /\ q.raw = q.start /\ q.unique = q.start
  BY DEF RunStatus, Partial, Invalid, Changed, StableMismatch

\* The record of the pages that a run kept.
LEMMA MeasuredPages ==
    ASSUME NEW q, q = Measures(inputs, unstored)
    PROVE  LET pages == CapturePages(inputs \ unstored)
               firsts == {i \in pages : i.page = 1}
           IN  /\ q.hasFirst = (firsts # {})
               /\ q.missing = (\E p \in 1..q.expected : \A i \in pages : i.page # p)
               /\ q.expected = Only({i.last : i \in firsts}, 0)
               /\ q.start = Only({i.total : i \in firsts}, 0)
               /\ ~q.metadataChanged =>
                    \A f \in firsts, i \in pages : i.last = f.last /\ i.total = f.total
               /\ q.violations = Cardinality(Violations(pages))
               /\ q.duplicates = q.raw - q.unique
  BY DEF Measures

\* The first page of a COMPLETE run, which speaks for all of its pages.
LEMMA FirstSpeaksForAll ==
    ASSUME CaptureInv, RunStatus(Measures(inputs, unstored)) = "COMPLETE"
    PROVE  LET q == Measures(inputs, unstored)
               pages == CapturePages(inputs \ unstored)
           IN  \E f \in pages :
                  /\ q.expected = f.last /\ q.start = f.total
                  /\ \A i \in pages : i.last = f.last /\ i.total = f.total
                  /\ \A p \in 1..f.last : \E i \in pages : i.page = p
  <1> DEFINE q == Measures(inputs, unstored)
             pages == CapturePages(inputs \ unstored)
             firsts == {i \in pages : i.page = 1}
  <1>1. q.hasFirst /\ ~q.missing /\ ~q.metadataChanged
    BY CompleteMeasures
  <1>2. /\ q.hasFirst = (firsts # {})
        /\ q.missing = (\E p \in 1..q.expected : \A i \in pages : i.page # p)
        /\ q.expected = Only({i.last : i \in firsts}, 0)
        /\ q.start = Only({i.total : i \in firsts}, 0)
        /\ ~q.metadataChanged =>
             \A f \in firsts, i \in pages : i.last = f.last /\ i.total = f.total
    BY MeasuredPages
  <1> HIDE DEF q, pages, firsts
  <1>3. PICK f \in firsts : \A i \in pages : i.last = f.last /\ i.total = f.total
    BY <1>1, <1>2
  <1> USE DEF firsts
  <1>4. {i.last : i \in firsts} = {f.last} /\ {i.total : i \in firsts} = {f.total}
    BY <1>3
  <1>5. q.expected = f.last /\ q.start = f.total
    BY <1>2, <1>4 DEF Only
  <1>6. \A p \in 1..f.last : \E i \in pages : i.page = p
    BY <1>1, <1>2, <1>5
  <1> QED
    BY <1>3, <1>5, <1>6 DEF q, pages

\* A page of the run is an answer of the source.
LEMMA PagesAreAnswers ==
    ASSUME CaptureInv, NEW i \in CapturePages(inputs \ unstored)
    PROVE  i \in inputs /\ i \in Input /\ i.kind = "answered"
  BY DEF CaptureInv, TypeOK, CapturePages, EveryAttempt, Captures, HasMetadata

\* A COMPLETE run captured exactly a population the source had, if its
\* populations formed a chain: the first page's population is that of every
\* page, for they announce equal totals.
LEMMA InvExact == CaptureInv => CompleteIsExact
  <1> SUFFICES ASSUME CaptureInv, Done, result.status = "COMPLETE",
                      \A P, Q \in past : P \subseteq Q \/ Q \subseteq P
               PROVE  Captured \in past
    BY DEF CompleteIsExact
  <1> DEFINE pages == CapturePages(inputs \ unstored)
  <1>1. RunStatus(Measures(inputs, unstored)) = "COMPLETE"
    BY DEF CaptureInv, Done, Quality
  <1>2. PICK f \in pages :
            /\ \A i \in pages : i.last = f.last /\ i.total = f.total
            /\ \A p \in 1..f.last : \E i \in pages : i.page = p
    BY <1>1, FirstSpeaksForAll
  <1>3. \A i \in pages : i \in inputs /\ i.kind = "answered"
    BY PagesAreAnswers
  <1>4. \A i \in pages : \E P \in past : /\ i.total = Cardinality(P)
                                         /\ i.last = LastPage(P)
                                         /\ i.listings = PageOf(P, i.page)
    BY <1>3 DEF CaptureInv, AnswersTrue
  <1>5. past \subseteq SUBSET Listings
    BY DEF CaptureInv, TypeOK
  <1>6. Captured = UNION {i.listings : i \in pages}
    BY DEF Captured, Found
  <1> HIDE DEF pages
  <1>7. PICK P \in past : f.total = Cardinality(P) /\ f.last = LastPage(P)
    BY <1>2, <1>4
  <1>8. \A i \in pages : i.listings = PageOf(P, i.page)
    <2> SUFFICES ASSUME NEW i \in pages PROVE i.listings = PageOf(P, i.page)
      OBVIOUS
    <2>1. PICK Q \in past : i.total = Cardinality(Q) /\ i.listings = PageOf(Q, i.page)
      BY <1>4
    <2>2. Cardinality(P) = Cardinality(Q)
      BY <1>2, <1>7, <2>1
    <2>3. P = Q
      BY <1>5, <2>2, SameSize
    <2> QED
      BY <2>1, <2>3
  <1>9. Captured \subseteq P
    BY <1>6, <1>8 DEF PageOf
  <1>10. P \subseteq Captured
    <2> SUFFICES ASSUME NEW l \in P PROVE l \in Captured
      OBVIOUS
    <2>1. PICK p \in 1..LastPage(P) : l \in PageOf(P, p)
      BY <1>5, PagesCover
    <2>2. PICK i \in pages : i.page = p
      BY <1>2, <1>7
    <2> QED
      BY <1>6, <1>8, <2>1, <2>2
  <1>11. Captured = P
    BY <1>9, <1>10
  <1> QED
    BY <1>11

\* A COMPLETE run is exact, for every source, page size and page limit and for
\* any number of retries and changes.
THEOREM ExactWhenComplete == Spec => []CompleteIsExact
  <1> QED
    BY InvExact, CaptureInvHolds, PTL

-----------------------------------------------------------------------------
(* The two policies. *)

\* The hits of the pages are pairs of inputs and listings.
LEMMA HitsAreFinite ==
    ASSUME CaptureInv
    PROVE  /\ Hits(CapturePages(inputs \ unstored)) \subseteq inputs \X Listings
           /\ IsFiniteSet(inputs \X Listings)
  <1> DEFINE pages == CapturePages(inputs \ unstored)
  <1>1. \A i \in pages : i \in inputs /\ i.listings \subseteq Listings
    BY PagesAreAnswers DEF Input
  <1>2. Hits(pages) \subseteq inputs \X Listings
    <2> SUFFICES ASSUME NEW h \in Hits(pages) PROVE h \in inputs \X Listings
      OBVIOUS
    <2> HIDE DEF pages
    <2>1. PICK i \in pages : h \in {<<i, l>> : l \in i.listings}
      BY Zenon DEF Hits
    <2> QED
      BY <1>1, <2>1
  <1>3. IsFiniteSet(inputs \X Listings)
    BY FS_Product, ListingAssumption DEF CaptureInv
  <1> QED
    BY <1>2, <1>3

\* The hits out of scope are counted by natural numbers.
LEMMA HitsCounted ==
    ASSUME CaptureInv
    PROVE  Cardinality(Violations(CapturePages(inputs \ unstored))) \in Nat
  <1>1. Violations(CapturePages(inputs \ unstored)) \subseteq inputs \X Listings
    BY HitsAreFinite DEF Violations
  <1> QED
    BY <1>1, HitsAreFinite, FS_Subset, FS_CardinalityType

\* A COMPLETE run of anything can be compared as a population.
LEMMA CompleteIsComparable ==
    ASSUME CaptureInv, NEW q, q = Measures(inputs, unstored), NEW r, r = Quality(inputs, unstored),
           r.status = "COMPLETE", r.unique > 0
    PROVE  PopulationComparable(r)
  <1>1. RunStatus(q) = "COMPLETE"
    BY DEF Quality
  <1>2. /\ q.fetched = q.expected /\ ~(q.violations > 0)
        /\ q.start = q.end /\ q.raw = q.start /\ q.unique = q.start
    BY <1>1, CompleteMeasures
  <1>3. q.expected \in Nat \ {0} /\ q.start \in Nat
    <2>1. PICK f \in CapturePages(inputs \ unstored) : q.expected = f.last /\ q.start = f.total
      BY <1>1, FirstSpeaksForAll
    <2> QED
      BY <2>1, PagesAreAnswers DEF Input
  <1>4. /\ q.violations = Cardinality(Violations(CapturePages(inputs \ unstored)))
        /\ q.duplicates = q.raw - q.unique
    BY MeasuredPages
  <1>5. q.violations = 0 /\ q.duplicates = 0
    BY <1>2, <1>3, <1>4, HitsCounted
  <1>6. /\ r.expected = q.expected /\ r.fetched = q.fetched /\ r.violations = q.violations
        /\ r.duplicates = q.duplicates /\ r.raw = q.raw /\ r.unique = q.unique
        /\ r.start = q.start /\ r.end = q.end
    BY DEF Quality
  <1>7. FullyEnumerated(r)
    BY <1>2, <1>3, <1>5, <1>6 DEF FullyEnumerated
  <1> QED
    BY <1>2, <1>5, <1>6, <1>7 DEF PopulationComparable, SnapshotComparable

LEMMA InvAgree == CaptureInv => PoliciesAgree
  <1> SUFFICES ASSUME CaptureInv, Done PROVE PoliciesAgree
    BY DEF PoliciesAgree
  <1>1. result = Quality(inputs, unstored)
    BY DEF CaptureInv, Done
  <1>2. SnapshotComparable(result) =>
            /\ ViewSnapshotComparable(result)
            /\ ViewPopulationComparable(result) <=> PopulationComparable(result)
    BY DEF SnapshotComparable, ViewSnapshotComparable, ViewPopulationComparable,
           PopulationComparable, FullyEnumerated
  <1>3. result.status = "COMPLETE" /\ result.unique > 0 => PopulationComparable(result)
    BY <1>1, CompleteIsComparable
  <1> QED
    BY <1>2, <1>3 DEF PoliciesAgree

\* The policy of the code and the view of the lake agree on every record a
\* capture can end with.
THEOREM BothPoliciesAgree == Spec => []PoliciesAgree
  <1> QED
    BY InvAgree, CaptureInvHolds, PTL

-----------------------------------------------------------------------------
(* In which order the pages are asked for.                                  *)

\* Every attempt is made once.
AskedOnce ==
    \A i, j \in inputs : i.role = j.role /\ i.page = j.page /\ i.attempt = j.attempt => i = j

\* The pages are asked for in order, up to the maximum, and then page 1 again.
AskedSoFar ==
    \A i \in inputs :
        /\ i.role = "capture" =>
              /\ i.page <= 1 \/ i.page <= maximum
              /\ at \in {"first", "rest"} => i.page < page \/ (i.page = page /\ i.attempt < attempt)
        /\ i.role = "consistency_probe" =>
              /\ i.page = 1 /\ at \notin {"first", "rest"}
              /\ at = "probe" => i.attempt < attempt

PlaceIsKnown ==
    /\ at \in {"first", "probe"} => page = 1
    /\ at = "first" => maximum = 0
    /\ at = "rest" => page \in 2..maximum

\* f was the last answer for page 1, and named the maximum.
Opens(f) ==
    /\ f.role = "capture" /\ f.page = 1 /\ Parses(f) /\ maximum <= f.last
    /\ \A i \in inputs : i.role = "capture" /\ i.page = 1 => i.attempt <= f.attempt

\* As long as the source has not changed it had one population.
UnchangedHasOne == changes = 0 => past = {listed}

AskedInv ==
    /\ CaptureInv /\ AskedOnce /\ AskedSoFar /\ PlaceIsKnown
    /\ maximum > 0 => \E f \in inputs : Opens(f)
    /\ UnchangedHasOne

\* One attempt at a page, with an answer or without.
LEMMA AttemptKeepsOrder ==
    ASSUME AskedInv, Capturing, UNCHANGED sourceVars, NEW kind \in Kind,
           NEW S \in {{}, {InputOf(kind)}}, inputs' = inputs \cup S,
           NEW opens \in BOOLEAN, NEW thrown \in BOOLEAN,
           opens => S = {InputOf(kind)} /\ Parses(InputOf(kind)),
           (AttemptsLeft /\ Retry) \/ Proceed(opens, thrown)
    PROVE  /\ AskedOnce' /\ AskedSoFar' /\ PlaceIsKnown'
           /\ (maximum > 0 => \E f \in inputs : Opens(f))'
  <1>1. AskTypeOK /\ listed \in SUBSET Listings /\ inputs \subseteq Input
    BY DEF AskedInv, CaptureInv, TypeOK, AskTypeOK
  <1>2. PICK n : n = InputOf(kind)
    OBVIOUS
  <1>3. /\ n.role = RoleNow /\ n.page = page /\ n.attempt = attempt /\ n.last = LastPage(listed)
        /\ n \in Input
    BY <1>1, <1>2, InputTyped DEF InputOf
  <1>4. S \in {{}, {n}} /\ (opens => S = {n} /\ Parses(n))
    BY <1>2
  <1>5. \A i \in Input : /\ i.role \in Role /\ i.page \in Nat \ {0}
                         /\ i.attempt \in Nat \ {0} /\ i.last \in Nat \ {0}
    BY SizeAssumption DEF Input
  <1>6. /\ page \in Nat \ {0} /\ attempt \in Nat \ {0} /\ maximum \in Nat
        /\ at \in {"first", "rest", "probe"}
    BY <1>1, SizeAssumption DEF AskTypeOK, Capturing
  <1>7. AskedOnce /\ AskedSoFar /\ PlaceIsKnown /\ (maximum > 0 => \E f \in inputs : Opens(f))
    BY DEF AskedInv
  <1>8. RoleNow = IF at = "probe" THEN "consistency_probe" ELSE "capture"
    BY DEF RoleNow
  <1>9. \A i \in inputs : i.role = n.role /\ i.page = n.page => i.attempt < attempt
    BY <1>1, <1>3, <1>5, <1>6, <1>7, <1>8 DEF AskedSoFar
  <1>10. AskedOnce'
    BY <1>1, <1>3, <1>4, <1>5, <1>6, <1>7, <1>9 DEF AskedOnce
  <1>11. ASSUME maximum > 0, maximum' = maximum
         PROVE  \E f \in inputs' : Opens(f)'
    <2>1. PICK f \in inputs : Opens(f)
      BY <1>7, <1>11
    <2>2. ~(n.role = "capture" /\ n.page = 1)
      BY <1>3, <1>6, <1>7, <1>8, <1>11 DEF PlaceIsKnown
    <2> QED
      BY <1>4, <1>11, <2>1, <2>2 DEF Opens
  <1>12. CASE AttemptsLeft /\ Retry
    <2>1. at' = at /\ page' = page /\ maximum' = maximum /\ attempt' = attempt + 1
      BY <1>12 DEF Retry
    <2>2. PlaceIsKnown'
      BY <1>7, <2>1 DEF PlaceIsKnown
    <2>3. AskedSoFar'
      <3> SUFFICES ASSUME NEW i \in inputs'
                   PROVE  /\ i.role = "capture" =>
                             /\ i.page <= 1 \/ i.page <= maximum
                             /\ at \in {"first", "rest"} =>
                                   i.page < page \/ (i.page = page /\ i.attempt < attempt + 1)
                          /\ i.role = "consistency_probe" =>
                             /\ i.page = 1 /\ at \notin {"first", "rest"}
                             /\ at = "probe" => i.attempt < attempt + 1
        BY <2>1 DEF AskedSoFar
      <3>1. CASE i \in inputs
        BY <1>1, <1>5, <1>6, <1>7, <3>1 DEF AskedSoFar
      <3>2. CASE i = n
        BY <1>3, <1>6, <1>7, <1>8, <3>2 DEF PlaceIsKnown
      <3> QED
        BY <1>4, <3>1, <3>2
    <2> QED
      BY <1>10, <1>11, <2>1, <2>2, <2>3
  <1>13. CASE at = "first" /\ AfterFirst(opens) /\ opens
    <2>1. LastPage(listed) \in Nat \ {0} /\ PageLimit \in Nat \ {0}
      BY <1>1, LastPageType, SizeAssumption
    <2>2. maximum' \in Nat \ {0} /\ maximum' <= n.last
      BY <1>3, <1>13, <2>1 DEF AfterFirst
    <2>3. \/ at' = "rest" /\ page' = 2 /\ maximum' > 1
          \/ at' = "probe" /\ page' = 1
      BY <1>13, <2>2 DEF AfterFirst
    <2>4. \A i \in inputs' : i.role = "capture" /\ i.page = 1
      BY <1>1, <1>3, <1>4, <1>5, <1>6, <1>7, <1>8, <1>13 DEF AskedSoFar, PlaceIsKnown, Role
    <2>5. AskedSoFar'
      BY <2>3, <2>4 DEF AskedSoFar
    <2>6. PlaceIsKnown'
      BY <2>2, <2>3 DEF PlaceIsKnown
    <2>7. \A i \in inputs' : i.attempt <= n.attempt
      <3>1. \A i \in inputs : i.attempt \in Nat /\ i.attempt < attempt
        <4>1. n.role = "capture" /\ n.page = 1
          BY <1>4, <1>13, <2>4
        <4>2. \A i \in inputs : i.role = "capture" /\ i.page = 1
          BY <2>4
        <4> QED
          BY <1>1, <1>5, <1>9, <4>1, <4>2
      <3> QED
        BY <1>3, <1>4, <1>6, <3>1
    <2>8. n \in inputs' /\ Opens(n)'
      BY <1>4, <1>13, <2>2, <2>4, <2>7 DEF Opens
    <2> QED
      BY <1>10, <2>5, <2>6, <2>8
  <1>14. CASE at = "first" /\ AfterFirst(opens) /\ ~opens
    <2>1. at' = "process" /\ page' = page /\ maximum' = maximum /\ maximum = 0
      BY <1>7, <1>14 DEF AfterFirst, PlaceIsKnown
    <2>2. \A i \in inputs' : i.role = "capture" /\ i.page = 1
      BY <1>1, <1>3, <1>4, <1>5, <1>6, <1>7, <1>8, <1>14 DEF AskedSoFar, PlaceIsKnown, Role
    <2> QED
      BY <1>10, <2>1, <2>2 DEF AskedSoFar, PlaceIsKnown
  <1>15. CASE at = "rest" /\ AfterPage(thrown)
    <2>1. /\ maximum' = maximum /\ page \in 2..maximum
          /\ \/ at' = "rest" /\ page' = page + 1 /\ page < maximum
             \/ at' = "probe" /\ page' = 1
      BY <1>7, <1>15 DEF AfterPage, PlaceIsKnown
    <2>2. PlaceIsKnown'
      BY <1>6, <2>1 DEF PlaceIsKnown
    <2>3. AskedSoFar'
      <3> SUFFICES ASSUME NEW i \in inputs'
                   PROVE  /\ i.role = "capture" /\ i.page <= maximum
                          /\ at' = "rest" => i.page < page'
        BY <2>1 DEF AskedSoFar
      <3>1. CASE i \in inputs
        BY <1>1, <1>5, <1>6, <1>7, <1>15, <2>1, <3>1 DEF AskedSoFar, Role
      <3>2. CASE i = n
        BY <1>3, <1>6, <1>8, <1>15, <2>1, <3>2
      <3> QED
        BY <1>4, <3>1, <3>2
    <2> QED
      BY <1>6, <1>10, <1>11, <2>1, <2>2, <2>3
  <1>16. CASE at = "probe" /\ AfterProbe
    <2>1. at' = "process" /\ page' = page /\ maximum' = maximum
      BY <1>16 DEF AfterProbe
    <2>2. AskedSoFar'
      BY <1>3, <1>4, <1>7, <1>8, <1>16, <2>1 DEF AskedSoFar, PlaceIsKnown
    <2> QED
      BY <1>10, <1>11, <2>1, <2>2 DEF PlaceIsKnown
  <1> QED
    BY <1>12, <1>13, <1>14, <1>15, <1>16 DEF Proceed

LEMMA AskedInvKept == AskedInv /\ [Next]_vars => AskedInv'
  <1> SUFFICES ASSUME AskedInv, [Next]_vars PROVE AskedInv'
    OBVIOUS
  <1>1. CaptureInv'
    BY InvKept DEF AskedInv
  <1>2. ASSUME UNCHANGED sourceVars PROVE UnchangedHasOne'
    BY <1>2 DEF AskedInv, UnchangedHasOne, sourceVars
  <1>3. ASSUME NEW kind \in Kind, PageAnswered(kind) PROVE AskedInv'
    <2>1. /\ Capturing /\ UNCHANGED sourceVars /\ inputs' = inputs \cup {InputOf(kind)}
          /\ Parses(InputOf(kind)) \in BOOLEAN
          /\ (AttemptsLeft /\ Retry) \/ Proceed(Parses(InputOf(kind)), FALSE)
      BY <1>3 DEF PageAnswered, Parses
    <2>2. /\ AskedOnce' /\ AskedSoFar' /\ PlaceIsKnown'
          /\ (maximum > 0 => \E f \in inputs : Opens(f))'
      BY <2>1, AttemptKeepsOrder
    <2> QED
      BY <1>1, <1>2, <2>1, <2>2 DEF AskedInv
  <1>4. ASSUME NEW kind \in Kind, AnswerNotStored(kind) PROVE AskedInv'
    <2>1. /\ Capturing /\ UNCHANGED sourceVars /\ inputs' = inputs \cup {InputOf(kind)}
          /\ (AttemptsLeft /\ Retry) \/ Proceed(FALSE, TRUE)
      BY <1>4 DEF AnswerNotStored
    <2>2. /\ AskedOnce' /\ AskedSoFar' /\ PlaceIsKnown'
          /\ (maximum > 0 => \E f \in inputs : Opens(f))'
      BY <2>1, AttemptKeepsOrder
    <2> QED
      BY <1>1, <1>2, <2>1, <2>2 DEF AskedInv
  <1>5. CASE NoAnswer
    <2>1. /\ Capturing /\ UNCHANGED sourceVars /\ inputs' = inputs \cup {}
          /\ (AttemptsLeft /\ Retry) \/ Proceed(FALSE, TRUE)
      BY <1>5 DEF NoAnswer
    <2>2. "busy" \in Kind
      BY DEF Kind
    <2>3. /\ AskedOnce' /\ AskedSoFar' /\ PlaceIsKnown'
          /\ (maximum > 0 => \E f \in inputs : Opens(f))'
      BY <2>1, <2>2, AttemptKeepsOrder
    <2> QED
      BY <1>1, <1>2, <2>1, <2>3 DEF AskedInv
  <1>6. CASE ProcessRawPages
    <2>1. /\ at = "process" /\ at' = "done" /\ UNCHANGED sourceVars
          /\ page' = page /\ attempt' = attempt /\ maximum' = maximum /\ inputs' = inputs
      BY <1>6 DEF ProcessRawPages
    <2>2. AskedOnce' /\ AskedSoFar' /\ PlaceIsKnown'
      BY <2>1 DEF AskedInv, AskedOnce, AskedSoFar, PlaceIsKnown
    <2>3. (maximum > 0 => \E f \in inputs : Opens(f))'
      BY <2>1 DEF AskedInv, Opens
    <2> QED
      BY <1>1, <1>2, <2>1, <2>2, <2>3 DEF AskedInv
  <1>7. CASE SourceChanges
    <2>1. /\ at' = at /\ page' = page /\ attempt' = attempt /\ maximum' = maximum /\ inputs' = inputs
          /\ changes \in Nat /\ changes' = changes + 1
      BY <1>7 DEF SourceChanges, askVars, AskedInv, CaptureInv, TypeOK
    <2>2. AskedOnce' /\ AskedSoFar' /\ PlaceIsKnown'
      BY <2>1 DEF AskedInv, AskedOnce, AskedSoFar, PlaceIsKnown
    <2>3. (maximum > 0 => \E f \in inputs : Opens(f))'
      BY <2>1 DEF AskedInv, Opens
    <2>4. UnchangedHasOne'
      BY <2>1 DEF UnchangedHasOne
    <2> QED
      BY <1>1, <2>2, <2>3, <2>4 DEF AskedInv
  <1>8. CASE UNCHANGED vars
    <2>1. /\ at' = at /\ page' = page /\ attempt' = attempt /\ maximum' = maximum /\ inputs' = inputs
          /\ UNCHANGED sourceVars
      BY <1>8 DEF vars, askVars
    <2>2. AskedOnce' /\ AskedSoFar' /\ PlaceIsKnown'
      BY <2>1 DEF AskedInv, AskedOnce, AskedSoFar, PlaceIsKnown
    <2>3. (maximum > 0 => \E f \in inputs : Opens(f))'
      BY <2>1 DEF AskedInv, Opens
    <2> QED
      BY <1>1, <1>2, <2>1, <2>2, <2>3 DEF AskedInv
  <1> QED
    BY <1>3, <1>4, <1>5, <1>6, <1>7, <1>8 DEF Next, CaptureStep

LEMMA AskedInvHolds == Spec => []AskedInv
  <1>1. Init => AskedInv
    BY InitInv DEF Init, AskedInv, AskedOnce, AskedSoFar, PlaceIsKnown, UnchangedHasOne
  <1> QED
    BY <1>1, AskedInvKept, PTL DEF Spec

-----------------------------------------------------------------------------
(* What the pages of a run say of one another.                              *)

\* A run has one answer for a page.
LEMMA OnePagePerNumber ==
    ASSUME AskedInv, NEW i \in CapturePages(inputs \ unstored), NEW j \in CapturePages(inputs \ unstored),
           i.page = j.page
    PROVE  i = j
  <1>1. /\ i \in inputs /\ j \in inputs /\ i \in Input /\ j \in Input
        /\ i.role = "capture" /\ j.role = "capture"
        /\ j.attempt <= i.attempt /\ i.attempt <= j.attempt
    BY DEF AskedInv, CaptureInv, TypeOK, CapturePages, EveryAttempt, Captures
  <1>2. i.attempt = j.attempt
    BY <1>1, SizeAssumption DEF Input
  <1> QED
    BY <1>1, <1>2 DEF AskedInv, AskedOnce

\* The one first page, which says what is expected.
LEMMA FirstPage ==
    ASSUME AskedInv, NEW q, q = Measures(inputs, unstored),
           NEW f \in CapturePages(inputs \ unstored), f.page = 1
    PROVE  q.hasFirst /\ q.expected = f.last /\ q.start = f.total
  <1> DEFINE pages == CapturePages(inputs \ unstored)
             firsts == {i \in pages : i.page = 1}
  <1>1. firsts = {f}
    BY OnePagePerNumber
  <1>2. /\ q.hasFirst = (firsts # {})
        /\ q.expected = Only({i.last : i \in firsts}, 0)
        /\ q.start = Only({i.total : i \in firsts}, 0)
    BY MeasuredPages
  <1> HIDE DEF firsts
  <1>3. {i.last : i \in firsts} = {f.last} /\ {i.total : i \in firsts} = {f.total}
    BY <1>1
  <1> QED
    BY <1>1, <1>2, <1>3 DEF Only

\* No page of a run that parsed all its answers lies beyond those expected: the
\* last answer for page 1 named the maximum, and it is the first page.
LEMMA PagesAreExpected ==
    ASSUME AskedInv, NEW q, q = Measures(inputs, unstored), unstored = {},
           \A i \in inputs : ~SchemaError(i), q.expected > 0,
           NEW i \in CapturePages(inputs \ unstored)
    PROVE  q.expected \in Nat /\ i.page \in 1..q.expected
  <1> DEFINE pages == CapturePages(inputs \ unstored)
  <1>1. inputs \subseteq Input /\ maximum \in Nat
    BY DEF AskedInv, CaptureInv, TypeOK
  <1>2. i \in inputs /\ i.role = "capture" /\ i.page \in Nat \ {0}
    BY <1>1 DEF CapturePages, EveryAttempt, Captures, Input
  <1>3. \E f \in pages : f.page = 1
    <2>1. /\ q.expected = Only({g.last : g \in {j \in pages : j.page = 1}}, 0)
      BY MeasuredPages
    <2> HIDE DEF pages
    <2>2. CASE {j \in pages : j.page = 1} = {}
      <3>1. {g.last : g \in {j \in pages : j.page = 1}} = {}
        BY <2>2
      <3> QED
        BY <2>1, <3>1 DEF Only
    <2> QED
      BY <2>2
  <1>4. PICK f \in pages : f.page = 1 /\ q.expected = f.last
    BY <1>3, FirstPage
  <1>5. f.last \in Nat \ {0}
    BY <1>1, <1>4 DEF CapturePages, EveryAttempt, Captures, Input
  <1>6. CASE maximum > 0
    <2>1. PICK g \in inputs : Opens(g)
      BY <1>6 DEF AskedInv
    <2>2. g \in Captures(inputs) /\ HasMetadata(g)
      BY <2>1 DEF Opens, SchemaError, Parses, Captures
    <2>3. g \in pages
      BY <2>1, <2>2 DEF Opens, CapturePages, EveryAttempt, Captures
    <2>4. g = f
      BY <1>4, <2>1, <2>3, OnePagePerNumber DEF Opens
    <2>5. i.page <= 1 \/ i.page <= maximum
      BY <1>2 DEF AskedInv, AskedSoFar
    <2>6. maximum <= f.last
      BY <2>1, <2>4 DEF Opens
    <2> QED
      BY <1>1, <1>2, <1>4, <1>5, <2>5, <2>6
  <1>7. CASE ~(maximum > 0)
    <2>1. i.page <= 1 \/ i.page <= maximum
      BY <1>2 DEF AskedInv, AskedSoFar
    <2> QED
      BY <1>1, <1>2, <1>4, <1>5, <1>7, <2>1
  <1> QED
    BY <1>6, <1>7

\* As many pages as expected, none beyond them and none twice: all of them.
LEMMA EnoughIsAll ==
    ASSUME AskedInv, NEW q, q = Measures(inputs, unstored), unstored = {},
           \A i \in inputs : ~SchemaError(i), q.expected > 0, q.fetched = q.expected,
           NEW p \in 1..q.expected
    PROVE  \E i \in CapturePages(inputs \ unstored) : i.page = p
  <1> DEFINE pages == CapturePages(inputs \ unstored)
             number == [i \in pages |-> i.page]
  <1>1. q.fetched = Cardinality(pages)
    BY DEF Measures
  <1>2. IsFiniteSet(pages)
    BY FS_Subset DEF CapturePages, EveryAttempt, Captures, AskedInv, CaptureInv
  <1>3. \A i \in pages : q.expected \in Nat /\ i.page \in 1..q.expected
    BY PagesAreExpected
  <1>4. q.expected \in Nat
    BY <1>1, <1>2, FS_CardinalityType
  <1>5. number \in Injection(pages, 1..q.expected)
    <2>1. number \in [pages -> 1..q.expected]
      BY <1>3
    <2>2. \A i, j \in pages : number[i] = number[j] => i = j
      BY OnePagePerNumber
    <2> QED
      BY <2>1, <2>2 DEF Injection, IsInjective
  <1> HIDE DEF pages
  <1>6. IsFiniteSet(1..q.expected) /\ Cardinality(1..q.expected) = q.expected
    BY <1>4, FS_Interval
  <1>7. number \in Surjection(pages, 1..q.expected)
    BY <1>1, <1>5, <1>6, FS_Injection
  <1>8. PICK i \in pages : number[i] = p
    BY <1>7 DEF Surjection
  <1> QED
    BY <1>8 DEF pages

\* What is comparable has no error but the order of its listings.
LEMMA ComparableHasNoError ==
    ASSUME NEW q, NEW r, q = Measures(inputs, unstored), r = Quality(inputs, unstored),
           SnapshotComparable(r)
    PROVE  unstored = {} /\ \A i \in inputs : ~SchemaError(i)
  <1>1. r.status = RunStatus(q) /\ q.errors \subseteq r.errors
    BY DEF Quality
  <1>2. q.errors \subseteq {"ordering"}
    <2>1. CASE r.status \in {"COMPLETE", "CHANGED_DURING_CAPTURE"}
      <3>1. ~Invalid(q)
        BY <1>1, <2>1 DEF RunStatus
      <3> QED
        BY <3>1 DEF Invalid
    <2>2. CASE r.errors = {"ordering"}
      BY <1>1, <2>2
    <2> QED
      BY <2>1, <2>2 DEF SnapshotComparable
  <1>3. /\ unstored # {} => "store" \in q.errors
        /\ (\E i \in inputs \ unstored : SchemaError(i)) => "schema" \in q.errors
    BY DEF Measures
  <1> QED
    BY <1>2, <1>3

\* Hits that break the scope are counted; none of them means none in the run.
LEMMA NoViolation ==
    ASSUME AskedInv, Cardinality(Violations(CapturePages(inputs \ unstored))) = 0
    PROVE  Captured \cap OutOfScope = {}
  <1> DEFINE pages == CapturePages(inputs \ unstored)
  <1>1. CaptureInv
    BY DEF AskedInv
  <1>2. Hits(pages) \subseteq inputs \X Listings /\ IsFiniteSet(inputs \X Listings)
    BY <1>1, HitsAreFinite
  <1>3. IsFiniteSet(Violations(pages))
    BY <1>2, FS_Subset DEF Violations
  <1>4. Violations(pages) = {}
    BY <1>3, FS_EmptySet
  <1> HIDE DEF pages
  <1>5. ASSUME NEW i \in pages, NEW l \in i.listings PROVE l \notin OutOfScope
    <2>1. <<i, l>> \in {<<i, k>> : k \in i.listings}
      BY <1>5
    <2>2. <<i, l>> \in Hits(pages)
      BY <1>5, <2>1, Zenon DEF Hits
    <2> QED
      BY <1>4, <2>2 DEF Violations
  <1> QED
    BY <1>5 DEF Captured, Found, pages

LEMMA InvEnumerated == AskedInv => ComparableIsEnumerated
  <1> SUFFICES ASSUME AskedInv, Done, SnapshotComparable(result)
               PROVE  /\ unstored = {}
                      /\ \A p \in 1..result.expected :
                            \E i \in inputs : i.role = "capture" /\ i.page = p /\ i.kind = "answered"
                      /\ Cardinality(Captured) = result.unique
                      /\ Captured \cap OutOfScope = {}
    BY DEF ComparableIsEnumerated
  <1>1. PICK q : q = Measures(inputs, unstored)
    OBVIOUS
  <1>2. result = Quality(inputs, unstored)
    BY DEF AskedInv, CaptureInv, Done
  <1>3. /\ result.expected = q.expected /\ result.fetched = q.fetched
        /\ result.violations = q.violations /\ result.unique = q.unique
    BY <1>1, <1>2 DEF Quality
  <1>4. unstored = {} /\ \A i \in inputs : ~SchemaError(i)
    BY <1>1, <1>2, ComparableHasNoError
  <1>5. q.expected > 0 /\ q.fetched = q.expected /\ q.violations = 0
    BY <1>3 DEF SnapshotComparable, FullyEnumerated
  <1>6. \A p \in 1..q.expected : \E i \in CapturePages(inputs \ unstored) : i.page = p
    BY <1>1, <1>4, <1>5, EnoughIsAll
  <1>7. \A i \in CapturePages(inputs \ unstored) : i \in inputs /\ i.role = "capture" /\ i.kind = "answered"
    BY DEF CapturePages, EveryAttempt, Captures, HasMetadata
  <1>8. q.unique = Cardinality(Captured) /\ q.violations = Cardinality(Violations(CapturePages(inputs \ unstored)))
    BY <1>1 DEF Measures, Captured
  <1>9. Captured \cap OutOfScope = {}
    BY <1>5, <1>8, NoViolation
  <1> QED
    BY <1>3, <1>4, <1>6, <1>7, <1>8, <1>9

\* What may be compared has every page the source announced, each counted once
\* however often it was asked for, for every source, page size and limit.
THEOREM ComparableHasEveryPage == Spec => []ComparableIsEnumerated
  <1> QED
    BY InvEnumerated, AskedInvHolds, PTL

-----------------------------------------------------------------------------
(* A source that does not change while it is read.                          *)

\* The number of a page determines the ranks that stand on it.
LEMMA RanksOfPages ==
    ASSUME NEW S \in Nat \ {0}, NEW a \in Nat \ {0}, NEW b \in Nat \ {0}, NEW r \in Nat, NEW s \in Nat,
           r \in (a - 1) * S + 1 .. a * S, s \in (b - 1) * S + 1 .. b * S, s <= r
    PROVE  b <= a
  <1>1. PICK c \in Nat : c = b - 1
    OBVIOUS
  <1>2. c * S + 1 <= s /\ r <= a * S
    BY <1>1
  <1>3. c * S < a * S
    <2>1. c * S \in Nat /\ a * S \in Nat
      OBVIOUS
    <2> QED
      BY <1>2, <2>1
  <1>4. PICK d \in Nat : d = a - 1
    OBVIOUS
  <1>5. c * S < (d + 1) * S
    BY <1>3, <1>4
  <1>6. c <= d
    BY <1>5, Cancel
  <1> QED
    BY <1>1, <1>4, <1>6

\* Listings stand on the pages in their order.
LEMMA PagesInOrder ==
    ASSUME NEW P \in SUBSET Listings, NEW a \in Nat \ {0}, NEW b \in Nat \ {0},
           NEW k \in PageOf(P, a), NEW l \in PageOf(P, b), l <= k
    PROVE  b <= a
  <1>1. IsFiniteSet(P) /\ P \subseteq Nat /\ PageSize \in Nat \ {0} /\ k \in P /\ l \in P
    BY ListingAssumption, SizeAssumption, FS_Subset DEF PageOf
  <1>2. {m \in P : m <= l} \subseteq {m \in P : m <= k}
    <2>1. k \in Nat /\ l \in Nat /\ \A m \in P : m \in Nat
      BY <1>1
    <2>2. \A m \in P : m <= l => m <= k
      BY <2>1
    <2> QED
      BY <2>2
  <1>3. IsFiniteSet({m \in P : m <= k}) /\ IsFiniteSet({m \in P : m <= l})
    BY <1>1, FS_Subset
  <1>4. Rank(P, l) <= Rank(P, k) /\ Rank(P, l) \in Nat /\ Rank(P, k) \in Nat
    BY <1>2, <1>3, FS_Subset, FS_CardinalityType DEF Rank
  <1>5. /\ Rank(P, k) \in (a - 1) * PageSize + 1 .. a * PageSize
        /\ Rank(P, l) \in (b - 1) * PageSize + 1 .. b * PageSize
    BY DEF PageOf
  <1> QED
    BY <1>1, <1>4, <1>5, RanksOfPages

\* What the answers of an unchanged source say.
LEMMA AnswersOfOne ==
    ASSUME AskedInv, changes = 0, NEW i \in inputs, i.kind = "answered"
    PROVE  /\ i.total = Cardinality(listed) /\ i.last = LastPage(listed)
           /\ i.listings = PageOf(listed, i.page) /\ i.page \in Nat \ {0} /\ listed \in SUBSET Listings
  <1>1. past = {listed} /\ AnswersTrue /\ TypeOK
    BY DEF AskedInv, UnchangedHasOne, CaptureInv
  <1> QED
    BY <1>1 DEF AnswersTrue, TypeOK, Input

\* The pages of an unchanged source hold each listing once, in order and in
\* scope.
LEMMA PagesOfOne ==
    ASSUME AskedInv, changes = 0, \A l \in listed : l \notin OutOfScope
    PROVE  LET pages == CapturePages(inputs \ unstored)
           IN  /\ ~OrderingInvalid(pages)
               /\ Cardinality(Violations(pages)) = 0
               /\ Cardinality(Hits(pages)) = Cardinality(Found(pages))
               /\ Cardinality(Found(pages)) \in Nat
               /\ Found(pages) \subseteq listed
  <1> DEFINE pages == CapturePages(inputs \ unstored)
  <1>1. \A i \in pages : /\ i \in inputs /\ i.kind = "answered" /\ i.page \in Nat \ {0}
                         /\ i.listings = PageOf(listed, i.page)
    BY AnswersOfOne, PagesAreAnswers DEF AskedInv
  <1>2. listed \in SUBSET Listings /\ IsFiniteSet(listed) /\ listed \subseteq Nat
    BY ListingAssumption, FS_Subset DEF AskedInv, CaptureInv, TypeOK
  <1>3. \A i, j \in pages : i.page = j.page => i = j
    BY OnePagePerNumber
  <1>4. IsFiniteSet(Hits(pages))
    BY HitsAreFinite, FS_Subset DEF AskedInv
  <1> HIDE DEF pages
  <1>5. ASSUME NEW h \in Hits(pages)
        PROVE  h[1] \in pages /\ h[2] \in PageOf(listed, h[1].page) /\ h = <<h[1], h[2]>>
    <2>1. PICK i \in pages : h \in {<<i, l>> : l \in i.listings}
      BY Zenon DEF Hits
    <2> QED
      BY <1>1, <2>1
  <1>6. ~OrderingInvalid(pages)
    <2> SUFFICES ASSUME NEW g \in Hits(pages), NEW h \in Hits(pages), g[1].page < h[1].page, h[2] < g[2]
                 PROVE  FALSE
      BY DEF OrderingInvalid
    <2>1. /\ g[1].page \in Nat \ {0} /\ h[1].page \in Nat \ {0}
          /\ g[2] \in PageOf(listed, g[1].page) /\ h[2] \in PageOf(listed, h[1].page)
      BY <1>1, <1>5
    <2>2. g[2] \in Nat /\ h[2] \in Nat
      BY <1>2, <2>1 DEF PageOf
    <2>3. h[2] <= g[2]
      BY <2>2
    <2>4. h[1].page <= g[1].page
      BY <1>2, <2>1, <2>3, PagesInOrder
    <2> QED
      BY <2>1, <2>4
  <1>7. Violations(pages) = {}
    BY <1>5 DEF Violations, PageOf
  <1> DEFINE listing == [h \in Hits(pages) |-> h[2]]
  <1>8. ASSUME NEW l \in Found(pages) PROVE \E h \in Hits(pages) : h[2] = l
    <2>1. PICK i \in pages : l \in i.listings
      BY <1>8 DEF Found
    <2>2. <<i, l>> \in {<<i, k>> : k \in i.listings}
      BY <2>1
    <2>3. <<i, l>> \in Hits(pages)
      BY <2>2, Zenon DEF Hits
    <2> QED
      BY <2>3
  <1>9. \A h \in Hits(pages) : h[2] \in Found(pages) /\ h[2] \in listed
    BY <1>1, <1>5 DEF Found, PageOf
  <1>10. listing \in Surjection(Hits(pages), Found(pages))
    BY <1>8, <1>9 DEF Surjection
  <1>11. listing \in Injection(Hits(pages), Found(pages))
    <2>1. listing \in [Hits(pages) -> Found(pages)]
      BY <1>9
    <2>2. ASSUME NEW g \in Hits(pages), NEW h \in Hits(pages), g[2] = h[2] PROVE g = h
      <3>1. /\ g[1] \in pages /\ h[1] \in pages
            /\ g[1].page \in Nat \ {0} /\ h[1].page \in Nat \ {0}
            /\ g[2] \in PageOf(listed, g[1].page) /\ g[2] \in PageOf(listed, h[1].page)
        BY <1>1, <1>5, <2>2
      <3>2. g[2] <= g[2]
        BY <1>2, <3>1 DEF PageOf
      <3>3. g[1].page <= h[1].page /\ h[1].page <= g[1].page
        BY <1>2, <3>1, <3>2, PagesInOrder
      <3>4. g[1] = h[1]
        BY <1>3, <3>1, <3>3
      <3> QED
        BY <1>5, <2>2, <3>4
    <2> QED
      BY <2>1, <2>2 DEF Injection, IsInjective
  <1>12. IsFiniteSet(Found(pages)) /\ Cardinality(Hits(pages)) = Cardinality(Found(pages))
    BY <1>4, <1>10, <1>11, FS_Surjection
  <1>13. Found(pages) \subseteq listed
    BY <1>8, <1>9
  <1> QED
    BY <1>6, <1>7, <1>12, <1>13, FS_EmptySet, FS_CardinalityType DEF pages

\* All the pages of an unchanged source together are what it lists.
LEMMA AllPagesOfOne ==
    ASSUME AskedInv, changes = 0, \A l \in listed : l \notin OutOfScope,
           \A p \in 1..LastPage(listed) : \E i \in CapturePages(inputs \ unstored) : i.page = p
    PROVE  Found(CapturePages(inputs \ unstored)) = listed
  <1> DEFINE pages == CapturePages(inputs \ unstored)
  <1>1. \A i \in pages : i.listings = PageOf(listed, i.page)
    BY AnswersOfOne, PagesAreAnswers DEF AskedInv
  <1>2. listed \in SUBSET Listings
    BY DEF AskedInv, CaptureInv, TypeOK
  <1>3. ASSUME NEW l \in listed PROVE l \in Found(pages)
    <2>1. PICK p \in 1..LastPage(listed) : l \in PageOf(listed, p)
      BY <1>2, PagesCover
    <2>2. PICK i \in pages : i.page = p
      OBVIOUS
    <2> QED
      BY <1>1, <2>1, <2>2 DEF Found
  <1> QED
    BY <1>3, PagesOfOne

\* The probe of an unchanged source says what the first page said.
LEMMA ProbeOfOne ==
    ASSUME AskedInv, changes = 0, NEW i \in Probes(inputs \ unstored)
    PROVE  i.total = Cardinality(listed) /\ i.last = LastPage(listed)
  BY AnswersOfOne DEF Probes, HasMetadata

LEMMA InvStable == AskedInv => StableSourceStaysValid
  <1> SUFFICES ASSUME AskedInv, Done, changes = 0, unstored = {},
                      \A i \in inputs : ~SchemaError(i), \A l \in listed : l \notin OutOfScope
               PROVE  result.status \in {"COMPLETE", "PARTIAL"}
    BY DEF StableSourceStaysValid
  <1> DEFINE pages == CapturePages(inputs \ unstored)
             firsts == {i \in pages : i.page = 1}
             probes == Latest(Probes(inputs \ unstored))
  <1>1. PICK q : q = Measures(inputs, unstored)
    OBVIOUS
  <1>2. result.status = RunStatus(q)
    BY <1>1 DEF AskedInv, CaptureInv, Done, Quality
  <1>3. /\ ~OrderingInvalid(pages) /\ Cardinality(Violations(pages)) = 0
        /\ Cardinality(Hits(pages)) = Cardinality(Found(pages))
        /\ Cardinality(Found(pages)) \in Nat
    BY PagesOfOne
  <1>4. q.errors = {}
    BY <1>1, <1>3 DEF Measures
  <1>5. /\ q.violations = Cardinality(Violations(pages))
        /\ q.raw = Cardinality(Hits(pages)) /\ q.unique = Cardinality(Found(pages))
        /\ q.duplicates = q.raw - q.unique
    BY <1>1 DEF Measures
  <1>6. ~Invalid(q)
    BY <1>3, <1>4, <1>5 DEF Invalid
  <1>7. CASE Partial(q)
    <2>1. ~StableMismatch(q)
      BY <1>7 DEF StableMismatch
    <2> QED
      BY <1>2, <1>6, <1>7, <2>1 DEF RunStatus
  <1>8. CASE ~Partial(q)
    <2>1. q.hasFirst /\ q.hasProbe /\ ~q.missing /\ q.fetched = q.expected
      BY <1>8 DEF Partial
    <2>2. q.hasFirst = (firsts # {}) /\ q.hasProbe = (probes # {})
      BY <1>1 DEF Measures
    <2>3. PICK f \in pages : f.page = 1
      BY <2>1, <2>2
    <2>4. \A i \in pages : i.total = Cardinality(listed) /\ i.last = LastPage(listed)
      BY AnswersOfOne, PagesAreAnswers DEF AskedInv
    <2>5. \A i \in probes : i.total = Cardinality(listed) /\ i.last = LastPage(listed)
      BY ProbeOfOne DEF Latest
    <2>6. q.start = Cardinality(listed) /\ q.expected = LastPage(listed)
      BY <1>1, <2>3, <2>4, FirstPage
    <2>7. q.end = Cardinality(listed)
      <3>1. q.end = Only({i.total : i \in probes}, Only({i.total : i \in Rearmost(pages)}, q.start))
        BY <1>1 DEF Measures
      <3> HIDE DEF probes
      <3>2. {i.total : i \in probes} = {Cardinality(listed)}
        BY <2>1, <2>2, <2>5
      <3> QED
        BY <3>1, <3>2 DEF Only
    <2>8. ~q.metadataChanged
      <3>1. q.metadataChanged =
               (\E g \in firsts, i \in pages \cup probes : i.last # g.last \/ i.total # g.total)
        BY <1>1 DEF Measures
      <3> HIDE DEF probes, pages
      <3> QED
        BY <2>4, <2>5, <3>1
    <2>9. ~Changed(q)
      BY <2>6, <2>7, <2>8 DEF Changed
    <2>10. \A p \in 1..LastPage(listed) : \E i \in pages : i.page = p
      <3>1. q.missing = (\E p \in 1..q.expected : \A i \in pages : i.page # p)
        BY <1>1 DEF Measures
      <3> HIDE DEF pages
      <3> QED
        BY <2>1, <2>6, <3>1
    <2>11. q.unique = q.start /\ q.raw = q.start
      BY <1>3, <1>5, <2>6, <2>10, AllPagesOfOne
    <2>12. ~StableMismatch(q)
      BY <2>11 DEF StableMismatch
    <2> QED
      BY <1>2, <1>6, <1>8, <2>9, <2>12 DEF RunStatus
  <1> QED
    BY <1>7, <1>8

\* Retries, refusals and lost requests never make a run of an unchanged source
\* invalid or changed, whatever its size and however often it was asked.
THEOREM StableSourceIsNeverInvalid == Spec => []StableSourceStaysValid
  <1> QED
    BY InvStable, AskedInvHolds, PTL

-----------------------------------------------------------------------------
(* The publication of a run.                                                *)

Busy(p) == publisher[p].at # "idle"
Promoting(p) == publisher[p].at = "promoting"
Unconflicted(p) == publisher[p].stage \subseteq stage
SnapshotsOf(p) == publisher[p].stage \cup publisher[p].core

\* Whatever a process is about to save, load or insert has its raw pages.
EvidenceHeld ==
    /\ EvidenceIsWhole
    /\ \A r \in Replays :
          /\ replay[r].at = "put" => replay[r].version \in Versions
          /\ replay[r].at \in {"save", "observations"} =>
                replay[r].version \in Versions /\ object[replay[r].version] = "whole"
    /\ \A p \in Publishers :
          /\ Busy(p) => publisher[p].version \in Publishable /\ object[publisher[p].version] = "whole"
          /\ \A c \in SnapshotsOf(p) : object[c.version] = "whole"

\* A new copy is in no snapshot, so that a conflict stays one.
CopiesAreNumbered ==
    /\ \A c \in stage \cup core : c.number <= stagings
    /\ \A p \in Publishers : \A c \in SnapshotsOf(p) : c.number <= stagings

\* Of two promotions that may both commit, one has seen all the other saw.
SnapshotsAreNested ==
    \A p, q \in Publishers :
        Promoting(p) /\ Promoting(q) /\ Unconflicted(p) /\ Unconflicted(q)
        => publisher[p].stage \subseteq publisher[q].stage \/ publisher[q].stage \subseteq publisher[p].stage

\* Once core has the run, no promotion that saw it empty adds to it.
CoreIsSettled ==
    core # {} => \A p \in Publishers :
        Promoting(p) /\ publisher[p].core = {} /\ Unconflicted(p) => publisher[p].stage = {}

\* What was counted is what core has, and there is one of it.
CountedIsOnce ==
    recorded # None \/ (\E p \in Publishers : publisher[p].at = "counted") => Cardinality(core) = 1

AtMostOne(S) == \A c, d \in S : c = d
AllOf(S, v) == S # {} /\ \A c \in S : c.version = v

\* As long as publications have not overlapped: one is under way, its
\* snapshots are up to date and its copy is the one on the stage, then in core.
AloneIsUndisturbed ==
    ~overlapped =>
        /\ \A p, q \in Publishers : Busy(p) /\ Busy(q) => p = q
        /\ AtMostOne(stage) /\ AtMostOne(core)
        /\ recorded # None => \A c \in core : c.version = recorded
        /\ \A p \in Publishers :
              /\ publisher[p].at \in {"staging", "promoting"} => publisher[p].stage = stage
              /\ Promoting(p) => publisher[p].core = core
              /\ publisher[p].at \in {"staged", "promoting"} => AllOf(stage, publisher[p].version)
              /\ publisher[p].at \in {"promoted", "counted"} => AllOf(core, publisher[p].version)

PublicationInv ==
    /\ PubTypeOK /\ EvidenceHeld /\ CopiesAreNumbered
    /\ SnapshotsAreNested /\ CoreIsSettled /\ CountedIsOnce /\ AloneIsUndisturbed

-----------------------------------------------------------------------------
(* The replays: the evidence of a version only ever becomes whole.          *)

\* What is true of the publications does not look at the replays.
LEMMA LanesKept ==
    ASSUME PublicationInv, UNCHANGED <<publisher, laneVars>>
    PROVE  /\ CopiesAreNumbered' /\ SnapshotsAreNested' /\ CoreIsSettled'
           /\ CountedIsOnce' /\ AloneIsUndisturbed'
  <1>1. /\ publisher' = publisher /\ stage' = stage /\ core' = core /\ stagings' = stagings
        /\ recorded' = recorded /\ overlapped' = overlapped
    BY DEF laneVars
  <1>2. CopiesAreNumbered'
    BY <1>1 DEF PublicationInv, CopiesAreNumbered, SnapshotsOf
  <1>3. SnapshotsAreNested'
    BY <1>1 DEF PublicationInv, SnapshotsAreNested, Promoting, Unconflicted
  <1>4. CoreIsSettled'
    BY <1>1 DEF PublicationInv, CoreIsSettled, Promoting, Unconflicted
  <1>5. CountedIsOnce'
    BY <1>1 DEF PublicationInv, CountedIsOnce
  <1>6. AloneIsUndisturbed'
    BY <1>1 DEF PublicationInv, AloneIsUndisturbed, Busy, Promoting, AtMostOne, AllOf
  <1> QED
    BY <1>2, <1>3, <1>4, <1>5, <1>6

\* A replay moves, what was whole stays whole, and what it saves is.
LEMMA ReplayMoves ==
    ASSUME PublicationInv, NEW r \in Replays, NEW a \in {"idle", "put", "save", "observations"},
           NEW v \in Versions \cup {None}, ReplayTo(r, a, v),
           a # "idle" => v \in Versions,
           object' \in [Versions -> {"absent", "torn", "whole"}],
           \A u \in Versions : object[u] = "whole" => object'[u] = "whole",
           a \in {"save", "observations"} => object'[v] = "whole",
           saved' = saved \/ (saved' \in Versions /\ object'[saved'] = "whole"),
           complete' \in BOOLEAN, persisted' \in BOOLEAN,
           UNCHANGED <<publisher, laneVars>>
    PROVE  PublicationInv'
  <1>1. /\ publisher' = publisher /\ stage' = stage /\ core' = core /\ stagings' = stagings
        /\ recorded' = recorded /\ overlapped' = overlapped
    BY DEF laneVars
  <1>2. PubTypeOK /\ EvidenceHeld
    BY DEF PublicationInv
  <1>3. PubTypeOK'
    <2>1. replay' \in [Replays -> [at : {"idle", "put", "save", "observations"},
                                   version : Versions \cup {None}]]
      BY <1>2 DEF PubTypeOK, ReplayTo
    <2>2. saved' \in Versions \cup {None}
      BY <1>2 DEF PubTypeOK
    <2> QED
      BY <1>1, <1>2, <2>1, <2>2 DEF PubTypeOK, Copy
  <1>4. EvidenceHeld'
    <2>1. \A c \in Copy : object[c.version] = "whole" => object'[c.version] = "whole"
      BY DEF Copy
    <2>2. EvidenceIsWhole'
      BY <1>1, <1>2, <2>1, PublicationAssumption DEF EvidenceHeld, EvidenceIsWhole, PubTypeOK
    <2>3. ASSUME NEW q \in Replays
          PROVE  /\ replay'[q].at = "put" => replay'[q].version \in Versions
                 /\ replay'[q].at \in {"save", "observations"} =>
                       replay'[q].version \in Versions /\ object'[replay'[q].version] = "whole"
      <3>1. CASE q = r
        <4>1. replay'[q] = [at |-> a, version |-> v]
          BY <1>2, <3>1 DEF PubTypeOK, ReplayTo
        <4> QED
          BY <4>1
      <3>2. CASE q # r
        <4>1. replay'[q] = replay[q]
          BY <1>2, <3>2 DEF PubTypeOK, ReplayTo
        <4> QED
          BY <1>2, <4>1 DEF EvidenceHeld
      <3> QED
        BY <3>1, <3>2
    <2>4. ASSUME NEW p \in Publishers
          PROVE  /\ Busy(p)' => publisher'[p].version \in Publishable /\ object'[publisher'[p].version] = "whole"
                 /\ \A c \in SnapshotsOf(p)' : object'[c.version] = "whole"
      <3>1. SnapshotsOf(p) \subseteq Copy /\ SnapshotsOf(p)' = SnapshotsOf(p)
        BY <1>1, <1>2 DEF PubTypeOK, SnapshotsOf
      <3> QED
        BY <1>1, <1>2, <2>1, <3>1, PublicationAssumption DEF EvidenceHeld, Busy
    <2> QED
      BY <2>2, <2>3, <2>4 DEF EvidenceHeld
  <1> QED
    BY <1>3, <1>4, LanesKept DEF PublicationInv

LEMMA ReplaysKeep ==
    ASSUME PublicationInv, NEW r \in Replays,
           \/ \E v \in Versions : PutObject(r, v)
           \/ FillObject(r) \/ SaveRun(r) \/ SaveObservations(r) \/ ReplayDies(r)
    PROVE  PublicationInv'
  <1>1. PubTypeOK /\ EvidenceHeld
    BY DEF PublicationInv
  <1>2. ASSUME NEW v \in Versions, PutObject(r, v) PROVE PublicationInv'
    <2>1. CASE object[v] = "absent" /\ v \in Local
      <3>1. object' = [object EXCEPT ![v] = "torn"] /\ ReplayTo(r, "put", v)
        BY <1>2, <2>1 DEF PutObject
      <3>2. object' \in [Versions -> {"absent", "torn", "whole"}]
            /\ \A u \in Versions : object[u] = "whole" => object'[u] = "whole"
        BY <1>1, <2>1, <3>1 DEF PubTypeOK
      <3> QED
        BY <1>1, <1>2, <3>1, <3>2, ReplayMoves DEF PutObject, PubTypeOK
    <2>2. CASE object[v] = "absent" /\ v \notin Local
      <3>1. object' = [object EXCEPT ![v] = "whole"] /\ ReplayTo(r, "save", v)
        BY <1>2, <2>2 DEF PutObject
      <3>2. /\ object' \in [Versions -> {"absent", "torn", "whole"}] /\ object'[v] = "whole"
            /\ \A u \in Versions : object[u] = "whole" => object'[u] = "whole"
        BY <1>1, <3>1 DEF PubTypeOK
      <3> QED
        BY <1>1, <1>2, <3>1, <3>2, ReplayMoves DEF PutObject, PubTypeOK
    <2>3. CASE object[v] # "absent"
      <3>1. object[v] = "whole" /\ object' = object /\ ReplayTo(r, "save", v)
        BY <1>2, <2>3 DEF PutObject, SameObject
      <3> QED
        BY <1>1, <1>2, <3>1, ReplayMoves DEF PutObject, PubTypeOK
    <2> QED
      BY <2>1, <2>2, <2>3
  <1>3. ASSUME FillObject(r) PROVE PublicationInv'
    <2>1. replay[r].version \in Versions
      BY <1>1, <1>3 DEF EvidenceHeld, FillObject
    <2>2. /\ object' \in [Versions -> {"absent", "torn", "whole"}] /\ object'[replay[r].version] = "whole"
          /\ \A u \in Versions : object[u] = "whole" => object'[u] = "whole"
      BY <1>1, <1>3, <2>1 DEF FillObject, PubTypeOK
    <2> QED
      BY <1>1, <1>3, <2>1, <2>2, ReplayMoves DEF FillObject, PubTypeOK
  <1>4. ASSUME SaveRun(r) PROVE PublicationInv'
    <2>1. replay[r].version \in Versions /\ object[replay[r].version] = "whole"
      BY <1>1, <1>4 DEF EvidenceHeld, SaveRun
    <2> QED
      BY <1>1, <1>4, <2>1, ReplayMoves DEF SaveRun, PubTypeOK
  <1>5. ASSUME SaveObservations(r) PROVE PublicationInv'
    BY <1>1, <1>5, ReplayMoves DEF SaveObservations, PubTypeOK
  <1>6. ASSUME ReplayDies(r) PROVE PublicationInv'
    BY <1>1, <1>6, ReplayMoves DEF ReplayDies, PubTypeOK
  <1> QED
    BY <1>2, <1>3, <1>4, <1>5, <1>6
-----------------------------------------------------------------------------
(* The publishers.  One of them moves to the state w.                       *)

PublisherState ==
    [at : {"idle", "loaded", "staging", "staged", "promoting", "promoted", "counted"},
     version : Versions \cup {None}, stage : SUBSET Copy, core : SUBSET Copy]

MovesTo(p, w) == publisher' = [publisher EXCEPT ![p] = w]

LEMMA OneMoves ==
    ASSUME PubTypeOK, NEW p \in Publishers, NEW w, MovesTo(p, w)
    PROVE  /\ publisher'[p] = w /\ publisher[p] \in PublisherState
           /\ \A q \in Publishers \ {p} : publisher'[q] = publisher[q]
  BY DEF PubTypeOK, MovesTo, PublisherState

LEMMA PublisherKeepsEvidence ==
    ASSUME PublicationInv, NEW p \in Publishers, NEW w \in PublisherState, MovesTo(p, w),
           UNCHANGED replayVars, stage' \subseteq Copy, core' \subseteq Copy,
           stagings' \in 0..MaxStagings, stagings <= stagings',
           recorded' \in Publishable \cup {None}, overlapped' \in BOOLEAN,
           w.at # "idle" => w.version \in Publishable /\ object[w.version] = "whole",
           \A c \in stage' \cup core' \cup w.stage \cup w.core :
              object[c.version] = "whole" /\ c.number <= stagings'
    PROVE  PubTypeOK' /\ EvidenceHeld' /\ CopiesAreNumbered'
  <1>1. PubTypeOK /\ EvidenceHeld /\ CopiesAreNumbered
    BY DEF PublicationInv
  <1>2. /\ object' = object /\ replay' = replay /\ saved' = saved /\ complete' = complete
        /\ persisted' = persisted
    BY DEF replayVars
  <1>3. /\ publisher'[p] = w /\ publisher[p] \in PublisherState
        /\ \A q \in Publishers \ {p} : publisher'[q] = publisher[q]
    BY <1>1, OneMoves
  <1>4. publisher' \in [Publishers -> PublisherState]
    BY <1>1 DEF PubTypeOK, PublisherState, MovesTo
  <1>5. PubTypeOK'
    BY <1>1, <1>2, <1>4 DEF PubTypeOK, PublisherState, Copy
  <1>6. EvidenceHeld'
    <2>1. EvidenceIsWhole'
      BY <1>1, <1>2 DEF EvidenceHeld, EvidenceIsWhole
    <2>2. ASSUME NEW q \in Publishers
          PROVE  /\ Busy(q)' => publisher'[q].version \in Publishable /\ object'[publisher'[q].version] = "whole"
                 /\ \A c \in SnapshotsOf(q)' : object'[c.version] = "whole"
      <3>1. CASE q = p
        BY <1>2, <1>3, <3>1 DEF Busy, SnapshotsOf
      <3>2. CASE q # p
        <4>1. publisher'[q] = publisher[q]
          BY <1>3, <3>2
        <4> QED
          BY <1>1, <1>2, <4>1 DEF EvidenceHeld, Busy, SnapshotsOf
      <3> QED
        BY <3>1, <3>2
    <2> QED
      BY <1>1, <1>2, <2>1, <2>2 DEF EvidenceHeld
  <1>7. CopiesAreNumbered'
    <2>1. ASSUME NEW q \in Publishers, NEW c \in SnapshotsOf(q)' PROVE c.number <= stagings'
      <3>1. CASE q = p
        BY <1>3, <2>1, <3>1 DEF SnapshotsOf
      <3>2. CASE q # p
        <4>1. c \in SnapshotsOf(q) /\ c \in Copy
          BY <1>1, <1>3, <2>1, <3>2 DEF SnapshotsOf, PubTypeOK
        <4>2. c.number <= stagings /\ c.number \in Int /\ stagings \in Int /\ stagings' \in Int
          BY <1>1, <4>1 DEF CopiesAreNumbered, Copy, PubTypeOK
        <4> QED
          BY <4>2
      <3> QED
        BY <3>1, <3>2
    <2> QED
      BY <2>1 DEF CopiesAreNumbered
  <1> QED
    BY <1>5, <1>6, <1>7

\* A step that leaves core alone and brings nothing to the stage that another
\* promotion has seen.
LEMMA PromotionsStaySettled ==
    ASSUME PublicationInv, NEW p \in Publishers, NEW w \in PublisherState, MovesTo(p, w),
           core' = core,
           \A q \in Publishers : publisher[q].stage \subseteq stage' => publisher[q].stage \subseteq stage,
           w.at = "promoting" => w.stage = stage /\ w.core = core /\ stage' = stage
    PROVE  SnapshotsAreNested' /\ CoreIsSettled'
  <1>1. PubTypeOK /\ SnapshotsAreNested /\ CoreIsSettled
    BY DEF PublicationInv
  <1>2. /\ publisher'[p] = w /\ publisher[p] \in PublisherState
        /\ \A q \in Publishers \ {p} : publisher'[q] = publisher[q]
    BY <1>1, OneMoves
  <1>3. ASSUME NEW q \in Publishers, q # p, publisher'[q].at = "promoting", publisher'[q].stage \subseteq stage'
        PROVE  Promoting(q) /\ Unconflicted(q) /\ publisher'[q].stage = publisher[q].stage
    BY <1>2, <1>3 DEF Promoting, Unconflicted
  <1>4. SnapshotsAreNested'
    <2> SUFFICES ASSUME NEW q \in Publishers, NEW r \in Publishers,
                        publisher'[q].at = "promoting", publisher'[r].at = "promoting",
                        publisher'[q].stage \subseteq stage', publisher'[r].stage \subseteq stage'
                 PROVE  \/ publisher'[q].stage \subseteq publisher'[r].stage
                        \/ publisher'[r].stage \subseteq publisher'[q].stage
      BY DEF SnapshotsAreNested, Promoting, Unconflicted
    <2>1. CASE q = p \/ r = p
      BY <1>2, <2>1
    <2>2. CASE q # p /\ r # p
      BY <1>1, <1>3, <2>2 DEF SnapshotsAreNested
    <2> QED
      BY <2>1, <2>2
  <1>5. CoreIsSettled'
    <2> SUFFICES ASSUME core # {}, NEW q \in Publishers, publisher'[q].at = "promoting",
                        publisher'[q].core = {}, publisher'[q].stage \subseteq stage'
                 PROVE  publisher'[q].stage = {}
      BY DEF CoreIsSettled, Promoting, Unconflicted
    <2>1. q # p
      BY <1>2
    <2> QED
      BY <1>1, <1>2, <1>3, <2>1 DEF CoreIsSettled
  <1> QED
    BY <1>4, <1>5

LEMMA CountStaysOne ==
    ASSUME PublicationInv, NEW p \in Publishers, NEW w \in PublisherState, MovesTo(p, w),
           core' = core, w.at = "counted" => Cardinality(core) = 1,
           recorded' = recorded \/ publisher[p].at = "counted"
    PROVE  CountedIsOnce'
  <1>1. PubTypeOK /\ CountedIsOnce
    BY DEF PublicationInv
  <1>2. /\ publisher'[p] = w /\ publisher[p] \in PublisherState
        /\ \A q \in Publishers \ {p} : publisher'[q] = publisher[q]
    BY <1>1, OneMoves
  <1> QED
    BY <1>1, <1>2 DEF CountedIsOnce

\* A publication that ends, and records its version if it came that far.
LEMMA EndKeeps ==
    ASSUME PublicationInv, NEW p \in Publishers, End(p), UNCHANGED replayVars,
           UNCHANGED <<stage, core, stagings, overlapped>>,
           \/ recorded' = recorded
           \/ publisher[p].at = "counted" /\ recorded = None /\ recorded' = publisher[p].version
    PROVE  PublicationInv'
  <1>1. PubTypeOK /\ EvidenceHeld /\ CopiesAreNumbered /\ AloneIsUndisturbed
    BY DEF PublicationInv
  <1>2. IdlePublisher \in PublisherState /\ MovesTo(p, IdlePublisher)
    BY DEF IdlePublisher, PublisherState, MovesTo, End
  <1>3. /\ publisher'[p] = IdlePublisher /\ publisher[p] \in PublisherState
        /\ \A q \in Publishers \ {p} : publisher'[q] = publisher[q]
    BY <1>1, <1>2, OneMoves
  <1>4. PubTypeOK' /\ EvidenceHeld' /\ CopiesAreNumbered'
    <2>1. recorded' \in Publishable \cup {None}
      BY <1>1 DEF PubTypeOK, EvidenceHeld, Busy
    <2>2. /\ stage' = stage /\ core' = core /\ stagings' = stagings /\ overlapped' = overlapped
          /\ stage \subseteq Copy /\ core \subseteq Copy /\ stagings \in 0..MaxStagings
          /\ overlapped \in BOOLEAN
      BY <1>1 DEF PubTypeOK
    <2>3. IdlePublisher.at = "idle" /\ IdlePublisher.stage = {} /\ IdlePublisher.core = {}
      BY DEF IdlePublisher
    <2>4. \A c \in stage \cup core : object[c.version] = "whole" /\ c.number <= stagings
      BY <1>1 DEF EvidenceHeld, EvidenceIsWhole, CopiesAreNumbered
    <2> QED
      BY <1>2, <2>1, <2>2, <2>3, <2>4, PublisherKeepsEvidence
  <1>5. SnapshotsAreNested' /\ CoreIsSettled'
    BY <1>2, PromotionsStaySettled DEF IdlePublisher
  <1>6. CountedIsOnce'
    BY <1>2, CountStaysOne DEF IdlePublisher
  <1>7. AloneIsUndisturbed'
    <2> SUFFICES ASSUME ~overlapped
                 PROVE  AloneIsUndisturbed'
      BY DEF AloneIsUndisturbed
    <2>1. \A q \in Publishers : Busy(q)' => q # p /\ publisher'[q] = publisher[q]
      BY <1>3 DEF Busy, IdlePublisher
    <2>2. recorded' # None => \A c \in core : c.version = recorded'
      BY <1>1 DEF AloneIsUndisturbed, AllOf
    <2>3. \A q, r \in Publishers : Busy(q)' /\ Busy(r)' => q = r
      BY <1>1, <2>1 DEF AloneIsUndisturbed, Busy
    <2>4. ASSUME NEW q \in Publishers
          PROVE  /\ publisher'[q].at \in {"staging", "promoting"} => publisher'[q].stage = stage
                 /\ publisher'[q].at = "promoting" => publisher'[q].core = core
                 /\ publisher'[q].at \in {"staged", "promoting"} => AllOf(stage, publisher'[q].version)
                 /\ publisher'[q].at \in {"promoted", "counted"} => AllOf(core, publisher'[q].version)
      <3>1. CASE Busy(q)'
        BY <1>1, <2>1, <3>1 DEF AloneIsUndisturbed, Promoting
      <3>2. CASE ~Busy(q)'
        BY <3>2 DEF Busy
      <3> QED
        BY <3>1, <3>2
    <2> QED
      BY <1>1, <2>2, <2>3, <2>4 DEF AloneIsUndisturbed, Promoting, AllOf, AtMostOne
  <1> QED
    BY <1>4, <1>5, <1>6, <1>7 DEF PublicationInv
LEMMA LoadKeeps == ASSUME PublicationInv, NEW p \in Publishers, Load(p) PROVE PublicationInv'
  <1>1. PubTypeOK /\ EvidenceHeld /\ CopiesAreNumbered /\ AloneIsUndisturbed
    BY DEF PublicationInv
  <1> DEFINE w == [IdlePublisher EXCEPT !.at = "loaded", !.version = saved]
  <1>2. /\ w = [at |-> "loaded", version |-> saved, stage |-> {}, core |-> {}]
        /\ saved \in Publishable /\ object[saved] = "whole"
    <2>1. PICK idle : idle = IdlePublisher
      OBVIOUS
    <2>2. idle = [at |-> "idle", version |-> None, stage |-> {}, core |-> {}]
      BY <2>1 DEF IdlePublisher
    <2>3. PICK new : new = [idle EXCEPT !.at = "loaded", !.version = saved]
      OBVIOUS
    <2>4. new = [at |-> "loaded", version |-> saved, stage |-> {}, core |-> {}]
      BY <2>2, <2>3
    <2> QED
      BY <2>1, <2>3, <2>4 DEF Load, Loadable
  <1>3. w \in PublisherState /\ MovesTo(p, w)
    BY <1>1, <1>2, PublicationAssumption DEF PublisherState, MovesTo, Load
  <1>4. /\ publisher'[p] = w /\ publisher[p] \in PublisherState
        /\ \A q \in Publishers \ {p} : publisher'[q] = publisher[q]
    BY <1>1, <1>3, OneMoves
  <1>5. /\ stage' = stage /\ core' = core /\ stagings' = stagings /\ recorded' = recorded
        /\ stage \subseteq Copy /\ core \subseteq Copy /\ stagings \in 0..MaxStagings
        /\ recorded \in Publishable \cup {None} /\ overlapped' \in BOOLEAN /\ UNCHANGED replayVars
    BY <1>1 DEF PubTypeOK, Load, Quiet
  <1>6. \A c \in stage \cup core : object[c.version] = "whole" /\ c.number <= stagings
    BY <1>1 DEF EvidenceHeld, EvidenceIsWhole, CopiesAreNumbered
  <1>7. PubTypeOK' /\ EvidenceHeld' /\ CopiesAreNumbered'
    BY <1>2, <1>3, <1>5, <1>6, PublisherKeepsEvidence
  <1>8. SnapshotsAreNested' /\ CoreIsSettled'
    BY <1>2, <1>3, <1>5, PromotionsStaySettled
  <1>9. CountedIsOnce'
    BY <1>2, <1>3, <1>5, CountStaysOne
  <1>10. AloneIsUndisturbed'
    <2> SUFFICES ASSUME ~overlapped'
                 PROVE  AloneIsUndisturbed'
      BY DEF AloneIsUndisturbed
    <2>1. ~overlapped /\ \A q \in Publishers \ {p} : publisher'[q].at = "idle"
      BY <1>4 DEF Load
    <2>2. \A q \in Publishers : publisher'[q].at \in {"idle", "loaded"}
      BY <1>2, <1>4, <2>1
    <2>3. \A q, r \in Publishers : Busy(q)' /\ Busy(r)' => q = r
      BY <2>1 DEF Busy
    <2> QED
      BY <1>1, <1>5, <2>1, <2>2, <2>3 DEF AloneIsUndisturbed, Promoting, AllOf, AtMostOne
  <1> QED
    BY <1>7, <1>8, <1>9, <1>10 DEF PublicationInv

\* A publication that goes on while the tables stay as they are.
LEMMA QuietStepKeeps ==
    ASSUME PublicationInv, NEW p \in Publishers, NEW w \in PublisherState, MovesTo(p, w),
           Busy(p), w.version = publisher[p].version, w.at # "idle",
           UNCHANGED replayVars, UNCHANGED laneVars,
           w.stage \subseteq publisher[p].stage \cup stage, w.core \subseteq publisher[p].core \cup core,
           w.at \in {"staging", "promoting"} => w.stage = stage,
           w.at = "promoting" => w.core = core /\ publisher[p].at = "staged",
           w.at # "staged",
           w.at \in {"promoted", "counted"} => publisher[p].at \in {"promoted", "counted"},
           w.at = "counted" => Cardinality(core) = 1
    PROVE  PublicationInv'
  <1>1. PubTypeOK /\ EvidenceHeld /\ CopiesAreNumbered /\ AloneIsUndisturbed
    BY DEF PublicationInv
  <1>2. /\ publisher'[p] = w /\ publisher[p] \in PublisherState
        /\ \A q \in Publishers \ {p} : publisher'[q] = publisher[q]
    BY <1>1, OneMoves
  <1>3. /\ stage' = stage /\ core' = core /\ stagings' = stagings /\ recorded' = recorded
        /\ stage \subseteq Copy /\ core \subseteq Copy /\ stagings \in 0..MaxStagings
        /\ recorded \in Publishable \cup {None} /\ overlapped' = overlapped /\ overlapped \in BOOLEAN
    BY <1>1 DEF PubTypeOK, laneVars
  <1>4. \A c \in stage \cup core \cup w.stage \cup w.core : object[c.version] = "whole" /\ c.number <= stagings
    BY <1>1 DEF EvidenceHeld, EvidenceIsWhole, CopiesAreNumbered, SnapshotsOf
  <1>5. w.version \in Publishable /\ object[w.version] = "whole"
    BY <1>1 DEF EvidenceHeld
  <1>6. PubTypeOK' /\ EvidenceHeld' /\ CopiesAreNumbered'
    BY <1>3, <1>4, <1>5, PublisherKeepsEvidence
  <1>7. SnapshotsAreNested' /\ CoreIsSettled'
    BY <1>3, PromotionsStaySettled
  <1>8. CountedIsOnce'
    BY <1>3, CountStaysOne
  <1>9. AloneIsUndisturbed'
    <2> SUFFICES ASSUME ~overlapped
                 PROVE  AloneIsUndisturbed'
      BY <1>3 DEF AloneIsUndisturbed
    <2>1. \A q \in Publishers \ {p} : publisher'[q].at = "idle"
      BY <1>1, <1>2 DEF AloneIsUndisturbed, Busy
    <2>2. \A q, r \in Publishers : Busy(q)' /\ Busy(r)' => q = r
      BY <2>1 DEF Busy
    <2>3. /\ w.at \in {"staging", "promoting"} => w.stage = stage
          /\ w.at = "promoting" => w.core = core
          /\ w.at \in {"staged", "promoting"} => AllOf(stage, w.version)
          /\ w.at \in {"promoted", "counted"} => AllOf(core, w.version)
      BY <1>1 DEF AloneIsUndisturbed
    <2>4. ASSUME NEW q \in Publishers
          PROVE  /\ publisher'[q].at \in {"staging", "promoting"} => publisher'[q].stage = stage
                 /\ publisher'[q].at = "promoting" => publisher'[q].core = core
                 /\ publisher'[q].at \in {"staged", "promoting"} => AllOf(stage, publisher'[q].version)
                 /\ publisher'[q].at \in {"promoted", "counted"} => AllOf(core, publisher'[q].version)
      BY <1>2, <2>1, <2>3
    <2> QED
      BY <1>1, <1>3, <2>2, <2>4 DEF AloneIsUndisturbed, Promoting, AllOf, AtMostOne
  <1> QED
    BY <1>6, <1>7, <1>8, <1>9 DEF PublicationInv

LEMMA QuietStepsKeep ==
    ASSUME PublicationInv, NEW p \in Publishers, BeginStaging(p) \/ BeginPromotion(p) \/ Count(p)
    PROVE  PublicationInv'
  <1>1. PubTypeOK /\ publisher[p] \in PublisherState
    BY DEF PublicationInv, PubTypeOK, PublisherState
  <1>2. stage \subseteq Copy /\ core \subseteq Copy
    BY <1>1 DEF PubTypeOK
  <1>3. CASE BeginStaging(p)
    <2> DEFINE w == [publisher[p] EXCEPT !.at = "staging", !.stage = stage]
    <2>1. /\ w \in PublisherState /\ w.at = "staging" /\ w.version = publisher[p].version
          /\ w.stage = stage /\ w.core = publisher[p].core
      BY <1>1, <1>2 DEF PublisherState
    <2>2. MovesTo(p, w) /\ Busy(p) /\ UNCHANGED replayVars /\ UNCHANGED laneVars
      BY <1>3 DEF BeginStaging, MovesTo, Busy, Quiet
    <2> HIDE DEF w
    <2> QED
      BY <2>1, <2>2, QuietStepKeeps
  <1>4. CASE BeginPromotion(p)
    <2> DEFINE w == [publisher[p] EXCEPT !.at = "promoting", !.stage = stage, !.core = core]
    <2>1. /\ w \in PublisherState /\ w.at = "promoting" /\ w.version = publisher[p].version
          /\ w.stage = stage /\ w.core = core
      BY <1>1, <1>2 DEF PublisherState
    <2>2. MovesTo(p, w) /\ Busy(p) /\ UNCHANGED replayVars /\ UNCHANGED laneVars
          /\ publisher[p].at = "staged"
      BY <1>4 DEF BeginPromotion, MovesTo, Busy, Quiet
    <2> HIDE DEF w
    <2> QED
      BY <2>1, <2>2, QuietStepKeeps
  <1>5. CASE Count(p) /\ Reconciles
    <2> DEFINE w == [publisher[p] EXCEPT !.at = "counted"]
    <2>1. /\ w \in PublisherState /\ w.at = "counted" /\ w.version = publisher[p].version
          /\ w.stage = publisher[p].stage /\ w.core = publisher[p].core
      BY <1>1 DEF PublisherState
    <2>2. MovesTo(p, w) /\ Busy(p) /\ UNCHANGED replayVars /\ UNCHANGED laneVars
          /\ publisher[p].at = "promoted" /\ Cardinality(core) = 1
      BY <1>5 DEF Count, MovesTo, Busy, Quiet, Step, Reconciles
    <2> HIDE DEF w
    <2> QED
      BY <2>1, <2>2, QuietStepKeeps
  <1>6. CASE Count(p) /\ ~Reconciles
    BY <1>6, EndKeeps DEF Count, Quiet, laneVars
  <1> QED
    BY <1>3, <1>4, <1>5, <1>6

LEMMA EndingsKeep ==
    ASSUME PublicationInv, NEW p \in Publishers, Record(p) \/ PublisherDies(p)
    PROVE  PublicationInv'
  <1>1. CASE Record(p)
    BY <1>1, EndKeeps DEF Record, Quiet
  <1>2. CASE PublisherDies(p)
    BY <1>2, EndKeeps DEF PublisherDies, Quiet, laneVars
  <1> QED
    BY <1>1, <1>2

\* A staged copy replaces what its transaction saw; its number is new.
LEMMA CommitStagingKeeps ==
    ASSUME PublicationInv, NEW p \in Publishers, CommitStaging(p) PROVE PublicationInv'
  <1>1. PubTypeOK /\ EvidenceHeld /\ CopiesAreNumbered /\ AloneIsUndisturbed
    BY DEF PublicationInv
  <1>2. CASE Conflicts(p)
    BY <1>2, EndKeeps DEF CommitStaging, Quiet, laneVars
  <1>3. CASE ~Conflicts(p)
    <2> DEFINE w == [publisher[p] EXCEPT !.at = "staged"]
               new == [number |-> stagings + 1, version |-> publisher[p].version]
    <2>1. /\ publisher[p] \in PublisherState /\ publisher[p].at = "staging"
          /\ publisher[p].version \in Publishable /\ object[publisher[p].version] = "whole"
          /\ stagings < MaxStagings /\ stagings' = stagings + 1
          /\ stage' = (stage \ publisher[p].stage) \cup {new}
          /\ core' = core /\ recorded' = recorded /\ overlapped' = overlapped
          /\ UNCHANGED replayVars
      BY <1>1, <1>3 DEF PubTypeOK, PublisherState, CommitStaging, EvidenceHeld, Busy, Quiet, Replaced
    <2>2. /\ w \in PublisherState /\ w.at = "staged" /\ w.version = publisher[p].version
          /\ w.stage = publisher[p].stage /\ w.core = publisher[p].core /\ MovesTo(p, w)
      BY <1>3, <2>1 DEF PublisherState, CommitStaging, Step, MovesTo
    <2>3. /\ new \in Copy /\ new.number = stagings + 1 /\ new.version = publisher[p].version
          /\ stagings \in Nat /\ stagings + 1 \in 0..MaxStagings
      BY <1>1, <2>1, PublicationAssumption DEF Copy, PubTypeOK
    <2> HIDE DEF w, new
    <2>4. /\ publisher'[p] = w
          /\ \A q \in Publishers \ {p} : publisher'[q] = publisher[q]
      BY <1>1, <2>2, OneMoves
    <2>5. stage \subseteq Copy /\ core \subseteq Copy /\ stage' \subseteq Copy
          /\ recorded \in Publishable \cup {None} /\ overlapped \in BOOLEAN
      BY <1>1, <2>1, <2>3 DEF PubTypeOK
    <2>6. \A c \in Copy : c.number \in Int
      BY DEF Copy
    <2>7. \A q \in Publishers : \A c \in SnapshotsOf(q) : c \in Copy /\ c.number <= stagings
      BY <1>1 DEF PubTypeOK, SnapshotsOf, CopiesAreNumbered
    <2>8. \A c \in stage' \cup core' \cup w.stage \cup w.core :
             object[c.version] = "whole" /\ c.number <= stagings'
      <3>1. \A c \in stage \cup core \cup SnapshotsOf(p) :
               object[c.version] = "whole" /\ c.number <= stagings /\ c \in Copy
        BY <1>1, <2>5, <2>7 DEF EvidenceHeld, EvidenceIsWhole, CopiesAreNumbered
      <3>2. \A c \in stage \cup core \cup SnapshotsOf(p) :
               object[c.version] = "whole" /\ c.number <= stagings + 1
        BY <2>3, <2>6, <3>1
      <3> QED
        BY <2>1, <2>2, <2>3, <3>2 DEF SnapshotsOf
    <2>9. PubTypeOK' /\ EvidenceHeld' /\ CopiesAreNumbered'
      BY <2>1, <2>2, <2>3, <2>5, <2>8, PublisherKeepsEvidence
    <2>10. \A q \in Publishers : new \notin publisher[q].stage
      BY <2>3, <2>7 DEF SnapshotsOf
    <2>11. SnapshotsAreNested' /\ CoreIsSettled'
      <3>1. \A q \in Publishers : publisher[q].stage \subseteq stage' => publisher[q].stage \subseteq stage
        BY <2>1, <2>10
      <3> QED
        BY <2>1, <2>2, <3>1, PromotionsStaySettled
    <2>12. CountedIsOnce'
      BY <2>1, <2>2, CountStaysOne
    <2>13. AloneIsUndisturbed'
      <3> SUFFICES ASSUME ~overlapped
                   PROVE  AloneIsUndisturbed'
        BY <2>1 DEF AloneIsUndisturbed
      <3>1. \A q \in Publishers \ {p} : publisher'[q].at = "idle"
        BY <1>1, <2>1, <2>4 DEF AloneIsUndisturbed, Busy
      <3>2. \A q, r \in Publishers : Busy(q)' /\ Busy(r)' => q = r
        BY <3>1 DEF Busy
      <3>3. stage' = {new}
        BY <1>1, <2>1 DEF AloneIsUndisturbed
      <3>4. AllOf(stage', w.version) /\ AtMostOne(stage')
        BY <2>2, <2>3, <3>3 DEF AllOf, AtMostOne
      <3>5. ASSUME NEW q \in Publishers
            PROVE  /\ publisher'[q].at \notin {"staging", "promoting", "promoted", "counted"}
                   /\ publisher'[q].at = "staged" => AllOf(stage', publisher'[q].version)
        BY <2>2, <2>4, <3>1, <3>4
      <3> QED
        BY <1>1, <2>1, <3>2, <3>4, <3>5 DEF AloneIsUndisturbed, Promoting, AllOf, AtMostOne
    <2> QED
      BY <2>9, <2>11, <2>12, <2>13 DEF PublicationInv
  <1> QED
    BY <1>2, <1>3
\* The only step that fills core: its own promotion saw core empty.
LEMMA CommitPromotionKeeps ==
    ASSUME PublicationInv, NEW p \in Publishers, CommitPromotion(p) PROVE PublicationInv'
  <1>1. /\ PubTypeOK /\ EvidenceHeld /\ CopiesAreNumbered /\ SnapshotsAreNested /\ CoreIsSettled
        /\ CountedIsOnce /\ AloneIsUndisturbed
    BY DEF PublicationInv
  <1>2. CASE ConflictingLineage(p) \/ (Promoted(p) # {} /\ Conflicts(p))
    BY <1>2, EndKeeps DEF CommitPromotion, Quiet, laneVars
  <1>3. CASE ~(ConflictingLineage(p) \/ (Promoted(p) # {} /\ Conflicts(p)))
    <2> DEFINE w == [publisher[p] EXCEPT !.at = "promoted"]
    <2>1. /\ publisher[p] \in PublisherState /\ publisher[p].at = "promoting"
          /\ publisher[p].version \in Publishable /\ object[publisher[p].version] = "whole"
          /\ core' = core \cup Merged(p) /\ stage' = stage \ publisher[p].stage
          /\ stagings' = stagings /\ recorded' = recorded /\ overlapped' = overlapped
          /\ UNCHANGED replayVars
      BY <1>1, <1>3 DEF PubTypeOK, PublisherState, CommitPromotion, EvidenceHeld, Busy, Quiet, Promoted
    <2>2. /\ w \in PublisherState /\ w.at = "promoted" /\ w.version = publisher[p].version
          /\ w.stage = publisher[p].stage /\ w.core = publisher[p].core /\ MovesTo(p, w)
      BY <1>3, <2>1 DEF PublisherState, CommitPromotion, Step, MovesTo
    <2> HIDE DEF w
    <2>3. /\ publisher'[p] = w
          /\ \A q \in Publishers \ {p} : publisher'[q] = publisher[q]
      BY <1>1, <2>2, OneMoves
    <2>4. Unconflicted(p) /\ Promoting(p)
      BY <1>3, <2>1 DEF Unconflicted, Promoting, Promoted, Conflicts
    <2>5. core # {} => core' = core
      BY <1>1, <2>1, <2>4 DEF CoreIsSettled, Merged
    <2>6. core = {} => core' = {} \/ (publisher[p].core = {} /\ core' = publisher[p].stage)
      BY <2>1 DEF Merged
    <2>7. stage \subseteq Copy /\ core \subseteq Copy /\ stage' \subseteq Copy /\ core' \subseteq Copy
          /\ recorded \in Publishable \cup {None} /\ overlapped \in BOOLEAN /\ stagings \in 0..MaxStagings
      BY <1>1, <2>1, <2>5, <2>6 DEF PubTypeOK, PublisherState
    <2>8. PubTypeOK' /\ EvidenceHeld' /\ CopiesAreNumbered'
      <3>1. \A c \in stage \cup core \cup publisher[p].stage \cup publisher[p].core :
               object[c.version] = "whole" /\ c.number <= stagings
        BY <1>1 DEF EvidenceHeld, EvidenceIsWhole, CopiesAreNumbered, SnapshotsOf
      <3>2. \A c \in stage' \cup core' \cup w.stage \cup w.core :
               object[c.version] = "whole" /\ c.number <= stagings'
        BY <2>1, <2>2, <2>5, <2>6, <3>1
      <3> QED
        BY <2>1, <2>2, <2>7, <3>2, PublisherKeepsEvidence
    <2>9. ASSUME NEW q \in Publishers, publisher'[q].at = "promoting", publisher'[q].stage \subseteq stage'
          PROVE  /\ q # p /\ Promoting(q) /\ Unconflicted(q) /\ publisher'[q] = publisher[q]
                 /\ publisher[q].stage \cap publisher[p].stage = {}
      BY <2>1, <2>2, <2>3, <2>9 DEF Promoting, Unconflicted
    <2>10. SnapshotsAreNested'
      BY <1>1, <2>9 DEF SnapshotsAreNested, Promoting, Unconflicted
    <2>11. CoreIsSettled'
      <3> SUFFICES ASSUME core' # {}, NEW q \in Publishers, publisher'[q].at = "promoting",
                          publisher'[q].core = {}, publisher'[q].stage \subseteq stage'
                   PROVE  publisher'[q].stage = {}
        BY DEF CoreIsSettled, Promoting, Unconflicted
      <3>1. /\ Promoting(q) /\ Unconflicted(q) /\ publisher'[q] = publisher[q]
            /\ publisher[q].stage \cap publisher[p].stage = {}
        BY <2>9
      <3>2. CASE core # {}
        BY <1>1, <3>1, <3>2 DEF CoreIsSettled
      <3>3. CASE core = {}
        <4>1. publisher[p].stage # {}
          BY <2>6, <3>3
        <4>2. publisher[q].stage \subseteq publisher[p].stage \/ publisher[p].stage \subseteq publisher[q].stage
          BY <1>1, <2>4, <3>1 DEF SnapshotsAreNested
        <4> QED
          BY <3>1, <4>1, <4>2
      <3> QED
        BY <3>2, <3>3
    <2>12. CountedIsOnce'
      <3>1. SUFFICES ASSUME recorded # None \/ \E q \in Publishers : publisher'[q].at = "counted"
                     PROVE  Cardinality(core') = 1
        BY <2>1 DEF CountedIsOnce
      <3>2. Cardinality(core) = 1
        BY <1>1, <2>2, <2>3, <3>1 DEF CountedIsOnce
      <3>3. core # {}
        BY <3>2, FS_EmptySet
      <3> QED
        BY <2>5, <3>2, <3>3
    <2>13. AloneIsUndisturbed'
      <3> SUFFICES ASSUME ~overlapped
                   PROVE  AloneIsUndisturbed'
        BY <2>1 DEF AloneIsUndisturbed
      <3>1. /\ publisher[p].stage = stage /\ publisher[p].core = core
            /\ AllOf(stage, publisher[p].version) /\ AtMostOne(stage) /\ AtMostOne(core)
        BY <1>1, <2>1 DEF AloneIsUndisturbed, Promoting
      <3>2. \A q \in Publishers \ {p} : publisher'[q].at = "idle"
        BY <1>1, <2>1, <2>3 DEF AloneIsUndisturbed, Busy
      <3>3. \A q, r \in Publishers : Busy(q)' /\ Busy(r)' => q = r
        BY <3>2 DEF Busy
      <3>4. stage' = {} /\ core' = (IF core = {} THEN stage ELSE core)
        BY <2>1, <2>5, <3>1 DEF Merged
      <3>5. AllOf(core', w.version) /\ AtMostOne(core')
        BY <1>3, <2>2, <3>1, <3>4 DEF AllOf, AtMostOne, ConflictingLineage
      <3>6. recorded' # None => \A c \in core' : c.version = recorded'
        <4>1. recorded # None => core # {}
          BY <1>1, FS_EmptySet DEF CountedIsOnce
        <4> QED
          BY <1>1, <2>1, <2>5, <4>1 DEF AloneIsUndisturbed
      <3>7. ASSUME NEW q \in Publishers
            PROVE  /\ publisher'[q].at \notin {"staging", "promoting", "staged"}
                   /\ publisher'[q].at \in {"promoted", "counted"} => AllOf(core', publisher'[q].version)
        BY <2>2, <2>3, <3>2, <3>5
      <3>8. AtMostOne(stage')
        BY <3>4 DEF AtMostOne
      <3> QED
        BY <3>3, <3>5, <3>6, <3>7, <3>8 DEF AloneIsUndisturbed, Promoting, AllOf, AtMostOne
    <2> QED
      BY <2>8, <2>10, <2>11, <2>12, <2>13 DEF PublicationInv
  <1> QED
    BY <1>2, <1>3

LEMMA PublicationInvKept == PublicationInv /\ [PubNext]_pubVars => PublicationInv'
  <1> SUFFICES ASSUME PublicationInv, [PubNext]_pubVars PROVE PublicationInv'
    OBVIOUS
  <1>1. CASE \E r \in Replays :
                \/ \E v \in Versions : PutObject(r, v)
                \/ FillObject(r) \/ SaveRun(r) \/ SaveObservations(r) \/ ReplayDies(r)
    BY <1>1, ReplaysKeep
  <1>2. CASE \E p \in Publishers : Load(p)
    BY <1>2, LoadKeeps
  <1>3. CASE \E p \in Publishers : BeginStaging(p) \/ BeginPromotion(p) \/ Count(p)
    BY <1>3, QuietStepsKeep
  <1>4. CASE \E p \in Publishers : CommitStaging(p)
    BY <1>4, CommitStagingKeeps
  <1>5. CASE \E p \in Publishers : CommitPromotion(p)
    BY <1>5, CommitPromotionKeeps
  <1>6. CASE \E p \in Publishers : Record(p) \/ PublisherDies(p)
    BY <1>6, EndingsKeep
  <1>7. CASE UNCHANGED pubVars
    <2>1. /\ UNCHANGED <<publisher, laneVars>>
          /\ object' = object /\ replay' = replay /\ saved' = saved /\ complete' = complete
          /\ persisted' = persisted /\ publisher' = publisher /\ stage' = stage /\ core' = core
          /\ stagings' = stagings /\ recorded' = recorded /\ overlapped' = overlapped
      BY <1>7 DEF pubVars, replayVars, laneVars
    <2>2. PubTypeOK' /\ EvidenceHeld'
      BY <2>1 DEF PublicationInv, PubTypeOK, EvidenceHeld, EvidenceIsWhole, Busy, SnapshotsOf, Copy
    <2> QED
      BY <2>1, <2>2, LanesKept DEF PublicationInv
  <1> QED
    BY <1>1, <1>2, <1>3, <1>4, <1>5, <1>6, <1>7 DEF PubNext

LEMMA PublicationStarts == PubInit => PublicationInv
  <1> SUFFICES ASSUME PubInit PROVE PublicationInv
    OBVIOUS
  <1>1. /\ replay \in [Replays -> [at : {"idle"}, version : {None}]]
        /\ publisher \in [Publishers -> [at : {"idle"}, version : {None}, stage : {{}}, core : {{}}]]
        /\ object \in [Versions -> {"absent"}]
        /\ saved = None /\ complete = FALSE /\ persisted = FALSE /\ stage = {} /\ core = {}
        /\ stagings = 0 /\ recorded = None /\ overlapped = FALSE
    BY DEF PubInit, IdlePublisher
  <1>2. PubTypeOK
    <2>1. /\ object \in [Versions -> {"absent", "torn", "whole"}]
          /\ replay \in [Replays -> [at : {"idle", "put", "save", "observations"},
                                     version : Versions \cup {None}]]
          /\ publisher \in [Publishers -> PublisherState]
      BY <1>1 DEF PublisherState
    <2>2. 0 \in 0..MaxStagings
      BY PublicationAssumption
    <2> QED
      BY <1>1, <2>1, <2>2 DEF PubTypeOK, PublisherState
  <1>3. \A p \in Publishers : publisher[p].at = "idle" /\ SnapshotsOf(p) = {}
    BY <1>1 DEF SnapshotsOf
  <1>4. \A r \in Replays : replay[r].at = "idle"
    BY <1>1
  <1> QED
    BY <1>1, <1>2, <1>3, <1>4
       DEF PublicationInv, EvidenceHeld, EvidenceIsWhole, CopiesAreNumbered, SnapshotsAreNested,
           CoreIsSettled, CountedIsOnce, AloneIsUndisturbed, Promoting, Busy, AtMostOne

LEMMA AtMostOneCounts ==
    ASSUME NEW S, AtMostOne(S) PROVE Cardinality(S) <= 1
  <1>1. CASE S = {}
    BY <1>1, FS_EmptySet
  <1>2. CASE S # {}
    <2>1. PICK x : S = {x}
      BY <1>2 DEF AtMostOne
    <2>2. Cardinality(S) = 1
      BY <2>1, FS_Singleton
    <2> QED
      BY <2>2
  <1> QED
    BY <1>1, <1>2

\* However replays and publications of a run overlap, die and are repeated,
\* with any number of processes and forms of the run: what is recorded is in
\* core exactly once and from untorn evidence, and publications that do not
\* overlap double nothing and record what they published.
THEOREM RunIsPublishedOnce == PubSpec => []PublicationIsSingle
  <1>1. PublicationInv => PublicationIsSingle
    <2> SUFFICES ASSUME PublicationInv PROVE PublicationIsSingle
      OBVIOUS
    <2>1. PubTypeOK /\ EvidenceIsWhole
      BY DEF PublicationInv, EvidenceHeld
    <2>2. RecordedIsOnce
      BY DEF PublicationInv, CountedIsOnce, RecordedIsOnce
    <2>3. DeadPublicationIsHarmless
      BY AtMostOneCounts DEF PublicationInv, AloneIsUndisturbed, DeadPublicationIsHarmless
    <2>4. RecordedIsPublished
      BY DEF PublicationInv, AloneIsUndisturbed, RecordedIsPublished
    <2> QED
      BY <2>1, <2>2, <2>3, <2>4 DEF PublicationIsSingle
  <1> QED
    BY <1>1, PublicationStarts, PublicationInvKept, PTL DEF PubSpec
-----------------------------------------------------------------------------
(* The export of the client package.                                        *)

Chained == \A P, Q \in stocks : P \subseteq Q \/ Q \subseteq P

\* How many listings of P the first n pages have, and that the file is these.
Reach(P, n) == IF n * PerPage < Cardinality(P) THEN n * PerPage ELSE Cardinality(P)
FileIs(P, n) == Len(lines) = Reach(P, n) /\ \A i \in 1..Len(lines) : lines[i] = InOrder(P)[i]

\* Where the loop over the pages stands, and what it has in its hands.
ExportPlace ==
    /\ request.role = "capture" =>
          /\ request.page = summary.fetched + 1
          /\ request.page > 1 => baseline # NoPage /\ request.page <= Limit
          /\ request.page = 1 => baseline = answer
    /\ request.role = "consistency_probe" =>
          request.page = 1 /\ answer = NoPage /\ baseline # NoPage /\ summary.fetched = Limit
    /\ answer # NoPage => \E P \in stocks : request.page <= LastOf(P) /\ answer = PageAt(P, request.page)
    /\ baseline # NoPage => \E P \in stocks : baseline = PageAt(P, 1)

\* As long as no page announced another total, and the populations grew and
\* shrank into one another, the file is the pages of the one population that
\* page 1 came from.
FileFollowsBaseline ==
    /\ summary.fetched = 0 => lines = <<>> /\ ~summary.changed
    /\ Chained /\ baseline # NoPage /\ ~summary.changed =>
          \E P \in stocks : baseline = PageAt(P, 1) /\ FileIs(P, summary.fetched)

Told == Cardinality(summary.seen) + summary.duplicates + summary.missing

SummaryFollowsFile ==
    /\ Len(lines) = summary.hits /\ Told = summary.hits
    /\ summary.seen \subseteq {lines[i] : i \in 1..Len(lines)}

StillHasNoTrouble ==
    stocks = {stock} /\ stock \cap Nameless = {} =>
        ~summary.changed /\ summary.missing = 0 /\ summary.duplicates = 0

ExportInv ==
    /\ ClientTypeOK /\ stock \in stocks /\ AnswersAreKept
    /\ exit = Running => ExportPlace /\ FileFollowsBaseline /\ SummaryFollowsFile /\ StillHasNoTrouble
    /\ exit # Running => ExportIsTruthful

-----------------------------------------------------------------------------
(* Populations, their order and their pages.                                *)

LEMMA StockIsFinite ==
    ASSUME NEW P \in SUBSET Stock
    PROVE  IsFiniteSet(P) /\ P \subseteq Nat /\ Cardinality(P) \in Nat
  BY ClientAssumption, FS_Subset, FS_CardinalityType

\* Every rank of a population is the place of one listing.
LEMMA EveryPlaceIsTaken ==
    ASSUME NEW P \in SUBSET Stock, NEW i \in 1..Cardinality(P)
    PROVE  \E l \in P : Placed(P, l) = i
  <1> DEFINE n == Cardinality(P)
             below(l) == {m \in P : m <= l}
             f == [l \in P |-> Placed(P, l)]
  <1>1. IsFiniteSet(P) /\ P \subseteq Nat /\ n \in Nat
    BY StockIsFinite
  <1>2. ASSUME NEW l \in P PROVE Placed(P, l) \in 1..n
    <2>1. IsFiniteSet(below(l)) /\ Cardinality(below(l)) \in Nat /\ Cardinality(below(l)) <= n
      BY <1>1, FS_Subset, FS_CardinalityType
    <2>2. l \in below(l)
      BY <1>1
    <2>3. Cardinality(below(l)) # 0
      BY <2>1, <2>2, FS_EmptySet
    <2> QED
      BY <1>1, <2>1, <2>3 DEF Placed
  <1>3. ASSUME NEW k \in P, NEW l \in P, k < l PROVE Placed(P, k) < Placed(P, l)
    <2>1. k \in Nat /\ l \in Nat /\ \A m \in P : m \in Nat
      BY <1>1
    <2>2. below(k) \subseteq below(l) /\ l \in below(l) /\ l \notin below(k)
      <3>1. \A m \in P : m <= k => m <= l
        BY <1>3, <2>1
      <3>2. l <= l /\ ~(l <= k)
        BY <1>3, <2>1
      <3> QED
        BY <3>1, <3>2
    <2>3. IsFiniteSet(below(l)) /\ IsFiniteSet(below(k))
      BY <1>1, FS_Subset
    <2> HIDE DEF below
    <2>4. /\ Cardinality(below(k)) \in Nat /\ Cardinality(below(l)) \in Nat
          /\ Cardinality(below(k)) <= Cardinality(below(l))
          /\ Cardinality(below(k)) # Cardinality(below(l))
      BY <2>2, <2>3, FS_Subset, FS_CardinalityType
    <2> USE DEF below
    <2> QED
      BY <2>4 DEF Placed
  <1>4. f \in Injection(P, 1..n)
    <2>1. f \in [P -> 1..n]
      BY <1>2
    <2>2. ASSUME NEW k \in P, NEW l \in P, Placed(P, k) = Placed(P, l) PROVE k = l
      <3>1. k \in Nat /\ l \in Nat /\ Placed(P, k) \in Int
        BY <1>1, <1>2
      <3>2. ~(k < l) /\ ~(l < k)
        BY <1>3, <2>2, <3>1
      <3> QED
        BY <3>1, <3>2
    <2> QED
      BY <2>1, <2>2 DEF Injection, IsInjective
  <1>5. IsFiniteSet(1..n) /\ Cardinality(1..n) = n
    BY <1>1, FS_Interval
  <1>6. f \in Surjection(P, 1..n)
    BY <1>4, <1>5, FS_Injection
  <1> QED
    BY <1>6 DEF Surjection

\* The order of a population names each of its listings once.
LEMMA OrderOf ==
    ASSUME NEW P \in SUBSET Stock
    PROVE  /\ DOMAIN InOrder(P) = 1..Cardinality(P)
           /\ InOrder(P) = [i \in 1..Cardinality(P) |-> InOrder(P)[i]]
           /\ \A i \in 1..Cardinality(P) : InOrder(P)[i] \in P /\ Placed(P, InOrder(P)[i]) = i
           /\ \A i, j \in 1..Cardinality(P) : InOrder(P)[i] = InOrder(P)[j] => i = j
  <1>1. \A i \in 1..Cardinality(P) : InOrder(P)[i] \in P /\ Placed(P, InOrder(P)[i]) = i
    <2> SUFFICES ASSUME NEW i \in 1..Cardinality(P)
                 PROVE  InOrder(P)[i] \in P /\ Placed(P, InOrder(P)[i]) = i
      OBVIOUS
    <2>1. InOrder(P)[i] = CHOOSE l \in P : Placed(P, l) = i
      BY DEF InOrder
    <2>2. \E l \in P : Placed(P, l) = i
      BY EveryPlaceIsTaken
    <2> QED
      BY <2>1, <2>2
  <1>2. \A i, j \in 1..Cardinality(P) : InOrder(P)[i] = InOrder(P)[j] => i = j
    BY <1>1
  <1>3. DOMAIN InOrder(P) = 1..Cardinality(P) /\ InOrder(P) = [i \in 1..Cardinality(P) |-> InOrder(P)[i]]
    BY DEF InOrder
  <1> QED
    BY <1>1, <1>2, <1>3

\* The arithmetic of pages: the one asked for begins within the population,
\* and is full unless it is the last.
LEMMA ReachSteps ==
    ASSUME NEW P \in SUBSET Stock, NEW p \in Nat \ {0}
    PROVE  /\ LastOf(P) \in Nat \ {0}
           /\ Reach(P, 0) = 0
           /\ Reach(P, p) \in 0..Cardinality(P)
           /\ p <= LastOf(P) =>
                 /\ Reach(P, p - 1) = (p - 1) * PerPage
                 /\ Reach(P, p - 1) <= Reach(P, p) /\ Reach(P, p) - Reach(P, p - 1) <= PerPage
           /\ p >= LastOf(P) => Reach(P, p) = Cardinality(P)
  <1>1. PICK n \in Nat : n = Cardinality(P)
    BY StockIsFinite
  <1>2. PICK S \in Nat \ {0} : S = PerPage
    BY ClientAssumption
  <1>3. PICK b \in Nat : /\ b = (n + S - 1) \div S
                        /\ b * S <= n + S - 1 /\ n + S - 1 < b * S + S
    BY Division, n + S - 1 \in Nat
  <1>4. n = 0 <=> P = {}
    BY <1>1, StockIsFinite, FS_EmptySet
  <1>5. LastOf(P) = IF n = 0 THEN 1 ELSE b
    BY <1>1, <1>2, <1>3, <1>4 DEF LastOf
  <1>6. b = 0 => n = 0
    BY <1>3
  <1>7. LastOf(P) \in Nat \ {0}
    BY <1>5, <1>6
  <1>8. PICK d \in Nat : d = p - 1
    OBVIOUS
  <1>9. /\ p * S = d * S + S /\ d * S \in Nat /\ p * S \in Nat /\ 0 * S = 0
    BY <1>8
  <1>10. Reach(P, 0) = 0
    BY <1>1, <1>2, <1>9 DEF Reach
  <1>11. /\ Reach(P, p) = IF p * S < n THEN p * S ELSE n
         /\ Reach(P, p - 1) = IF d * S < n THEN d * S ELSE n
    BY <1>1, <1>2, <1>8 DEF Reach
  <1>12. ASSUME p <= LastOf(P)
         PROVE  d * S <= n
    <2>1. CASE n = 0
      <3>1. d = 0
        BY <1>5, <1>8, <1>12, <2>1
      <3> QED
        BY <1>9, <2>1, <3>1
    <2>2. CASE n # 0
      <3>1. PICK e \in Nat : b = d + 1 + e
        <4>1. p <= b
          BY <1>5, <1>12, <2>2
        <4>2. b - p \in Nat
          BY <4>1
        <4> QED
          BY <1>8, <4>2
      <3>2. b * S = d * S + S + e * S
        BY <3>1
      <3>3. e * S \in Nat /\ b * S \in Nat
        OBVIOUS
      <3> QED
        BY <1>3, <1>9, <3>2, <3>3
    <2> QED
      BY <2>1, <2>2
  <1>13. ASSUME p >= LastOf(P)
         PROVE  n <= p * S
    <2>1. CASE n = 0
      BY <1>9, <2>1
    <2>2. CASE n # 0
      <3>1. PICK e \in Nat : p = b + e
        <4>1. b <= p
          BY <1>5, <1>13, <2>2
        <4>2. p - b \in Nat
          BY <4>1
        <4> QED
          BY <4>2
      <3>2. p * S = b * S + e * S /\ e * S \in Nat /\ b * S \in Nat
        BY <3>1
      <3> QED
        BY <1>3, <1>9, <3>2
    <2> QED
      BY <2>1, <2>2
  <1>14. Reach(P, p) \in 0..n /\ (p >= LastOf(P) => Reach(P, p) = n)
    BY <1>9, <1>11, <1>13
  <1>15. p <= LastOf(P) =>
            /\ Reach(P, p - 1) = d * S
            /\ Reach(P, p - 1) <= Reach(P, p) /\ Reach(P, p) - Reach(P, p - 1) <= S
    BY <1>9, <1>11, <1>12
  <1> QED
    BY <1>1, <1>2, <1>7, <1>8, <1>10, <1>14, <1>15
\* A page of the source: the listings of its ranks, each once.
LEMMA PageAtIs ==
    ASSUME NEW P \in SUBSET Stock, NEW p \in Nat \ {0}, p <= LastOf(P),
           NEW a, a = PageAt(P, p)
    PROVE  /\ a \in Page /\ a # NoPage
           /\ a.total = Cardinality(P) /\ a.last = LastOf(P)
           /\ Len(a.listings) \in 0..PerPage
           /\ Reach(P, p) = Reach(P, p - 1) + Len(a.listings)
           /\ Reach(P, p) \in 0..Cardinality(P) /\ Reach(P, p - 1) \in Nat
           /\ \A i \in 1..Len(a.listings) : a.listings[i] = InOrder(P)[Reach(P, p - 1) + i]
           /\ DOMAIN a.listings = 1..Len(a.listings)
  <1>1. PICK n \in Nat : n = Cardinality(P)
    BY StockIsFinite
  <1>2. PICK S \in Nat \ {0} : S = PerPage
    BY ClientAssumption
  <1>3. PICK d \in Nat : d = p - 1
    OBVIOUS
  <1>4. /\ LastOf(P) \in Nat \ {0} /\ Reach(P, p) \in 0..n
        /\ Reach(P, p - 1) = d * S
        /\ Reach(P, p - 1) <= Reach(P, p) /\ Reach(P, p) - Reach(P, p - 1) <= S
    BY <1>1, <1>2, <1>3, ReachSteps
  <1>5. d * S \in Nat
    OBVIOUS
  <1>6. PICK m \in Nat : m = d * S + 1
    BY <1>5
  <1>7. PICK r \in Nat : r = Reach(P, p) /\ r <= n
    BY <1>4
  <1>8. /\ a.total = n /\ a.last = LastOf(P) /\ a.listings = SubSeq(InOrder(P), m, r)
        /\ a = [total |-> n, last |-> LastOf(P), listings |-> a.listings]
    BY <1>1, <1>2, <1>3, <1>6, <1>7 DEF PageAt, Reach
  <1>9. \A i \in m..r : InOrder(P)[i] \in Stock
    <2>1. \A i \in m..r : i \in 1..n
      BY <1>5, <1>6, <1>7
    <2> QED
      BY <1>1, <2>1, OrderOf
  <1>10. /\ SubSeq(InOrder(P), m, r) \in Seq(Stock)
         /\ Len(SubSeq(InOrder(P), m, r)) = IF m <= r THEN r - m + 1 ELSE 0
         /\ \A i \in 1..r - m + 1 : SubSeq(InOrder(P), m, r)[i] = InOrder(P)[m + i - 1]
    BY <1>9, SubSeqProperties
  <1>11. Len(a.listings) = r - d * S /\ Len(a.listings) \in 0..S /\ a.listings \in Seq(Stock)
    BY SMTT(40), <1>4, <1>5, <1>6, <1>7, <1>8, <1>10
  <1>12. \A i \in 1..Len(a.listings) : a.listings[i] = InOrder(P)[Reach(P, p - 1) + i]
    <2> SUFFICES ASSUME NEW i \in 1..Len(a.listings)
                 PROVE  a.listings[i] = InOrder(P)[Reach(P, p - 1) + i]
      OBVIOUS
    <2>1. i \in 1..r - m + 1 /\ m + i - 1 = d * S + i
      BY <1>5, <1>6, <1>7, <1>11
    <2>2. a.listings[i] = InOrder(P)[m + i - 1]
      BY <1>8, <1>10, <2>1
    <2> QED
      BY <1>4, <2>1, <2>2
  <1>13. a \in Page /\ a # NoPage
    <2>1. a \in Page
      BY <1>4, <1>8, <1>11 DEF Page
    <2>2. NoPage.last = 0
      BY DEF NoPage
    <2> QED
      BY <1>4, <1>8, <2>1, <2>2
  <1>14. Reach(P, p) = Reach(P, p - 1) + Len(a.listings)
    BY <1>4, <1>5, <1>7, <1>11
  <1>15. DOMAIN a.listings = 1..Len(a.listings)
    BY <1>11, LenProperties
  <1> QED
    BY <1>1, <1>2, <1>4, <1>5, <1>8, <1>11, <1>12, <1>13, <1>14, <1>15

\* No listing stands twice on a page, so that counting the shown counts them.
LEMMA ShownCounted ==
    ASSUME NEW P \in SUBSET Stock, NEW p \in Nat \ {0}, p <= LastOf(P),
           NEW a, a = PageAt(P, p)
    PROVE  /\ Shown(a) \subseteq P /\ IsFiniteSet(Shown(a))
           /\ Cardinality(Shown(a)) = Len(a.listings)
           /\ \A l \in Shown(a) : \E i \in 1..Len(a.listings) : l = InOrder(P)[Reach(P, p - 1) + i]
  <1>1. PICK n \in Nat : n = Len(a.listings) /\ DOMAIN a.listings = 1..n
    BY PageAtIs
  <1>2. PICK b \in Nat : b = Reach(P, p - 1) /\ b + n <= Cardinality(P)
    BY <1>1, PageAtIs
  <1>3. Cardinality(P) \in Nat
    BY StockIsFinite
  <1>4. \A i \in 1..n : a.listings[i] = InOrder(P)[b + i] /\ b + i \in 1..Cardinality(P)
    BY SMTT(40), <1>1, <1>2, <1>3, PageAtIs
  <1>5. Shown(a) = {a.listings[i] : i \in 1..n}
    BY <1>1 DEF Shown
  <1>6. Shown(a) \subseteq P
    BY <1>4, <1>5, OrderOf
  <1> DEFINE f == [i \in 1..n |-> a.listings[i]]
  <1>7. f \in Surjection(1..n, Shown(a))
    BY <1>5 DEF Surjection
  <1>8. f \in Injection(1..n, Shown(a))
    <2>1. f \in [1..n -> Shown(a)]
      BY <1>5
    <2>2. ASSUME NEW i \in 1..n, NEW j \in 1..n, a.listings[i] = a.listings[j] PROVE i = j
      <3>1. b + i = b + j
        BY <1>4, <2>2, OrderOf
      <3> QED
        BY <3>1
    <2> QED
      BY <2>1, <2>2 DEF Injection, IsInjective
  <1>9. IsFiniteSet(1..n) /\ Cardinality(1..n) = n
    BY FS_Interval
  <1>10. IsFiniteSet(Shown(a)) /\ Cardinality(Shown(a)) = n
    BY <1>7, <1>8, <1>9, FS_Surjection
  <1> QED
    BY ZenonT(60), <1>1, <1>2, <1>4, <1>5, <1>6, <1>10
-----------------------------------------------------------------------------
(* The requests of an export.                                               *)

LEMMA NoPageIs == NoPage \in Page /\ NoPage.last = 0
  <1>1. <<>> \in Seq(Stock)
    OBVIOUS
  <1> QED
    BY <1>1 DEF NoPage, Page

\* The source changes: what was written is of a population it has had.
LEMMA StockKeeps == ASSUME ExportInv, StockChanges PROVE ExportInv'
  <1>1. /\ maxPages' = maxPages /\ request' = request /\ answer' = answer /\ baseline' = baseline
        /\ summary' = summary /\ requests' = requests /\ raw' = raw /\ lines' = lines
        /\ exit' = exit /\ exit = Running
        /\ turns < MaxTurns /\ turns' = turns + 1 /\ stocks' = stocks \cup {stock'}
    BY DEF StockChanges
  <1>2. stock' \in SUBSET Stock /\ stock' # stock /\ stock \in stocks
    BY DEF StockChanges, ExportInv, ClientTypeOK
  <1>3. ClientTypeOK /\ ExportPlace /\ FileFollowsBaseline /\ SummaryFollowsFile /\ AnswersAreKept
    BY <1>1 DEF ExportInv
  <1>4. ClientTypeOK'
    <2>1. turns' \in 0..MaxTurns /\ stocks' \subseteq SUBSET Stock
      BY <1>1, <1>2, <1>3, ClientAssumption DEF ClientTypeOK
    <2> QED
      BY <1>1, <1>2, <1>3, <2>1 DEF ClientTypeOK
  <1>5. ExportPlace'
    BY <1>1, <1>3 DEF ExportPlace, Limit
  <1>6. FileFollowsBaseline'
    <2>1. Chained' => Chained
      BY <1>1 DEF Chained
    <2> QED
      BY <1>1, <1>3, <2>1 DEF FileFollowsBaseline, FileIs
  <1>7. SummaryFollowsFile'
    BY <1>1, <1>3 DEF SummaryFollowsFile, Told
  <1>8. StillHasNoTrouble'
    BY <1>1, <1>2 DEF StillHasNoTrouble
  <1>9. AnswersAreKept'
    BY <1>1, <1>3 DEF AnswersAreKept
  <1> QED
    BY <1>1, <1>2, <1>4, <1>5, <1>6, <1>7, <1>8, <1>9 DEF ExportInv

\* An answer is kept, or it ends the export.
LEMMA AnswerKept ==
    ASSUME ExportInv, exit = Running, NEW e, NEW K \in SUBSET {e},
           requests' = requests \cup {e}, raw' = raw \cup K,
           e.status # "none" => K = {e} \/ exit' = 1,
           e.status = "none" => K = {}
    PROVE  AnswersAreKept'
  <1> DEFINE answered == {r \in requests : r.status # "none"}
             more == {r \in requests \cup {e} : r.status # "none"}
  <1>1. answered = raw
    BY DEF ExportInv, AnswersAreKept, Running
  <1>2. CASE K = {e} \/ e.status = "none"
    <2>1. more = raw'
      BY <1>1, <1>2
    <2>2. Cardinality(more \ raw') = 0
      BY <2>1, FS_EmptySet
    <2> QED
      BY <2>1, <2>2 DEF AnswersAreKept
  <1>3. CASE exit' = 1
    <2>1. more \ raw' = {} \/ more \ raw' = {e}
      BY <1>1
    <2>2. Cardinality(more \ raw') <= 1
      <3>1. PICK D : D = more \ raw' /\ (D = {} \/ D = {e})
        BY <2>1
      <3>2. Cardinality(D) = 0 \/ Cardinality(D) = 1
        BY <3>1, FS_EmptySet, FS_Singleton
      <3>3. Cardinality(D) <= 1
        BY <3>2
      <3> QED
        BY <3>1, <3>3
    <2> QED
      BY <1>3, <2>2 DEF AnswersAreKept
  <1> QED
    BY <1>2, <1>3

\* What a request changes, and what it leaves alone.
RequestStep(e, K) ==
    /\ exit = Running /\ answer = NoPage
    /\ requests' = requests \cup {e} /\ raw' = raw \cup K
    /\ stock' = stock /\ turns' = turns /\ stocks' = stocks /\ maxPages' = maxPages

Entries == [role : Roles, page : Nat \ {0}, attempt : 1..Tries, status : Statuses]

\* The export ends with code 1; the file is as the summary says.
LEMMA FailEnds ==
    ASSUME ExportInv, NEW e \in Entries, NEW K \in SUBSET {e}, RequestStep(e, K), Fail,
           e.status = "none" => K = {}
    PROVE  ExportInv'
  <1>1. /\ exit = Running /\ exit' = 1 /\ request' = request /\ answer' = answer
        /\ baseline' = baseline /\ summary' = summary /\ lines' = lines
        /\ requests' = requests \cup {e} /\ raw' = raw \cup K
        /\ stock' = stock /\ turns' = turns /\ stocks' = stocks /\ maxPages' = maxPages
    BY DEF RequestStep, Fail
  <1>2. ClientTypeOK /\ SummaryFollowsFile /\ stock \in stocks
    BY <1>1 DEF ExportInv
  <1>3. ClientTypeOK'
    BY <1>1, <1>2 DEF ClientTypeOK, Entries
  <1>4. AnswersAreKept'
    BY <1>1, AnswerKept
  <1>5. SummaryTellsLines'
    <2>1. PICK h \in Nat : /\ h = summary.hits /\ Len(lines) = h
                          /\ Cardinality(summary.seen) + summary.duplicates + summary.missing = h
      BY <1>2 DEF ClientTypeOK, SummaryFollowsFile, Told
    <2> QED
      BY <1>1, <2>1, ClientAssumption DEF SummaryTellsLines
  <1>6. ExitZeroIsPopulation' /\ StillSourceIsComplete'
    BY <1>1 DEF ExitZeroIsPopulation, StillSourceIsComplete
  <1> QED
    BY <1>1, <1>2, <1>3, <1>4, <1>5, <1>6 DEF ExportInv, ExportIsTruthful, Running

LEMMA RetryOrFailKeeps ==
    ASSUME ExportInv, NEW e \in Entries, NEW K \in SUBSET {e}, RequestStep(e, K), RetryOrFail,
           e.status # "none" => K = {e}, e.status = "none" => K = {}
    PROVE  ExportInv'
  <1>1. CASE AttemptsRemain
    <2>1. /\ exit = Running /\ exit' = exit /\ request' = Retried /\ answer' = answer
          /\ baseline' = baseline /\ summary' = summary /\ lines' = lines
          /\ requests' = requests \cup {e} /\ raw' = raw \cup K
          /\ stock' = stock /\ turns' = turns /\ stocks' = stocks /\ maxPages' = maxPages
      BY <1>1 DEF RequestStep, RetryOrFail
    <2>2. /\ ClientTypeOK /\ SummaryFollowsFile /\ stock \in stocks /\ ExportPlace
          /\ FileFollowsBaseline /\ StillHasNoTrouble
      BY <2>1 DEF ExportInv
    <2>3. /\ request' \in [role : Roles, page : Nat \ {0}, attempt : 1..Tries]
          /\ request'.role = request.role /\ request'.page = request.page
      BY SMTT(40), <1>1, <2>1, <2>2, ClientAssumption DEF ClientTypeOK, Retried, AttemptsRemain
    <2>4. ClientTypeOK'
      BY <2>1, <2>2, <2>3 DEF ClientTypeOK, Entries
    <2>5. AnswersAreKept'
      BY <2>1, AnswerKept
    <2>6. ExportPlace'
      BY <2>1, <2>2, <2>3 DEF ExportPlace, Limit
    <2>7. FileFollowsBaseline' /\ SummaryFollowsFile' /\ StillHasNoTrouble'
      BY <2>1, <2>2 DEF FileFollowsBaseline, FileIs, Chained, SummaryFollowsFile, Told, StillHasNoTrouble
    <2> QED
      BY <2>1, <2>2, <2>4, <2>5, <2>6, <2>7 DEF ExportInv
  <1>2. CASE ~AttemptsRemain
    BY <1>2, FailEnds DEF RetryOrFail
  <1> QED
    BY <1>1, <1>2

\* A page is answered: page 1 becomes the baseline.
LEMMA TakenKeeps ==
    ASSUME ExportInv, NEW e \in Entries, NEW K \in SUBSET {e}, RequestStep(e, K),
           e.status # "none", K = {e},
           request.role = "capture", Acceptable(request.page), Taken(PageAt(stock, request.page))
    PROVE  ExportInv'
  <1>1. PICK a : a = PageAt(stock, request.page)
    OBVIOUS
  <1>2. /\ exit = Running /\ exit' = exit /\ answer = NoPage /\ answer' = a /\ request' = request
        /\ baseline' = (IF request.page = 1 THEN a ELSE baseline)
        /\ summary' = summary /\ lines' = lines
        /\ requests' = requests \cup {e} /\ raw' = raw \cup K
        /\ stock' = stock /\ turns' = turns /\ stocks' = stocks /\ maxPages' = maxPages
    BY <1>1 DEF RequestStep, Taken
  <1>3. /\ ClientTypeOK /\ SummaryFollowsFile /\ stock \in stocks /\ ExportPlace
        /\ FileFollowsBaseline /\ StillHasNoTrouble
    BY <1>2 DEF ExportInv
  <1>4. stock \in SUBSET Stock /\ request.page \in Nat \ {0} /\ request.page <= LastOf(stock)
        /\ summary.fetched \in Nat
    BY <1>3 DEF ClientTypeOK, Acceptable
  <1>5. a \in Page /\ a # NoPage
    BY <1>1, <1>4, PageAtIs
  <1>6. ClientTypeOK'
    BY <1>2, <1>3, <1>5 DEF ClientTypeOK, Entries
  <1>7. AnswersAreKept'
    BY <1>2, AnswerKept
  <1>8. request.page = 1 => baseline = NoPage /\ summary.fetched = 0 /\ lines = <<>>
    BY <1>2, <1>3, <1>4 DEF ExportPlace, FileFollowsBaseline
  <1>9. ExportPlace'
    <2>1. request.page > 1 => baseline' = baseline /\ Limit' = Limit
      BY <1>2, <1>4 DEF Limit
    <2> QED
      BY <1>1, <1>2, <1>3, <1>4, <1>5, <2>1 DEF ExportPlace
  <1>10. FileFollowsBaseline'
    <2>1. CASE request.page = 1
      <3>1. Reach(stock, 0) = 0 /\ Len(<<>>) = 0
        BY <1>4, ReachSteps
      <3>2. FileIs(stock, summary.fetched)'
        BY <1>2, <1>8, <2>1, <3>1 DEF FileIs
      <3> QED
        BY <1>1, <1>2, <1>3, <2>1, <3>2 DEF FileFollowsBaseline
    <2>2. CASE request.page # 1
      BY <1>2, <1>3, <2>2 DEF FileFollowsBaseline, FileIs, Chained
    <2> QED
      BY <2>1, <2>2
  <1>11. SummaryFollowsFile' /\ StillHasNoTrouble'
    BY <1>2, <1>3 DEF SummaryFollowsFile, Told, StillHasNoTrouble
  <1> QED
    BY <1>2, <1>3, <1>6, <1>7, <1>9, <1>10, <1>11 DEF ExportInv
\* Two populations of a chain with as many listings each are the same.
LEMMA SameStock ==
    ASSUME NEW P \in SUBSET Stock, NEW Q \in SUBSET Stock,
           P \subseteq Q \/ Q \subseteq P, Cardinality(P) = Cardinality(Q)
    PROVE  P = Q
  BY ClientAssumption, FS_Subset

\* The populations, once the source is known to have had one only.
LEMMA StillHasOne ==
    ASSUME ExportInv, Cardinality(stocks) = 1
    PROVE  stocks = {stock}
  <1>1. stocks \subseteq SUBSET Stock /\ stock \in stocks
    BY DEF ExportInv, ClientTypeOK
  <1>2. IsFiniteSet(SUBSET Stock)
    BY ClientAssumption, FS_SUBSET
  <1>3. IsFiniteSet(stocks)
    BY <1>1, <1>2, FS_Subset
  <1>4. PICK x : stocks = {x}
    BY <1>3, FS_Singleton
  <1> QED
    BY <1>1, <1>4

\* What is written of a population that never changed.
LEMMA StillFile ==
    ASSUME ExportInv, exit = Running, baseline # NoPage, stocks = {stock}, ~summary.changed
    PROVE  baseline = PageAt(stock, 1) /\ FileIs(stock, summary.fetched)
  <1>1. Chained
    BY DEF Chained
  <1> QED
    BY <1>1 DEF ExportInv, FileFollowsBaseline

\* The probe is answered: code 0 says that the file is a population, and code
\* 2 of a still source that pages were left out.
LEMMA ConcludedKeeps ==
    ASSUME ExportInv, NEW e \in Entries, NEW K \in SUBSET {e}, RequestStep(e, K),
           e.status # "none", K = {e},
           request.role = "consistency_probe", Concluded(PageAt(stock, 1))
    PROVE  ExportInv'
  <1>1. PICK probe : probe = PageAt(stock, 1)
    OBVIOUS
  <1>2. /\ exit = Running /\ exit' = (IF Complete(probe) THEN 0 ELSE 2)
        /\ request' = request /\ answer' = answer
        /\ baseline' = baseline /\ summary' = summary /\ lines' = lines
        /\ requests' = requests \cup {e} /\ raw' = raw \cup K
        /\ stock' = stock /\ turns' = turns /\ stocks' = stocks /\ maxPages' = maxPages
    BY <1>1 DEF RequestStep, Concluded
  <1>3. /\ ClientTypeOK /\ SummaryFollowsFile /\ stock \in stocks /\ ExportPlace
        /\ FileFollowsBaseline /\ StillHasNoTrouble
    BY <1>2 DEF ExportInv
  <1>4. /\ baseline # NoPage /\ summary.fetched = Limit /\ summary.fetched \in Nat
        /\ stocks \subseteq SUBSET Stock /\ stock \in SUBSET Stock /\ lines \in Seq(Stock)
        /\ maxPages \in Nat \ {0}
    BY <1>3, ClientAssumption DEF ExportPlace, ClientTypeOK
  <1>5. exit' \in {0, 2}
    BY <1>2
  <1>6. ClientTypeOK'
    BY <1>2, <1>3, <1>5 DEF ClientTypeOK, Entries
  <1>7. AnswersAreKept'
    BY <1>2, AnswerKept
  <1>8. SummaryTellsLines'
    <2>1. PICK h \in Nat : /\ h = summary.hits /\ Len(lines) = h
                          /\ Cardinality(summary.seen) + summary.duplicates + summary.missing = h
      BY <1>3 DEF ClientTypeOK, SummaryFollowsFile, Told
    <2> QED
      BY <1>2, <2>1, ClientAssumption DEF SummaryTellsLines
  <1>9. \A P \in SUBSET Stock : PageAt(P, 1).last = LastOf(P) /\ PageAt(P, 1).total = Cardinality(P)
    BY DEF PageAt
  <1>10. ExitZeroIsPopulation'
    <2> SUFFICES ASSUME exit' = 0, Chained PROVE \E P \in stocks : lines = InOrder(P)
      BY <1>2 DEF ExitZeroIsPopulation, Chained
    <2>1. Complete(probe)
      BY <1>2
    <2>2. ~summary.changed /\ summary.fetched >= baseline.last
      BY <2>1 DEF Complete
    <2>3. PICK P \in stocks : baseline = PageAt(P, 1) /\ FileIs(P, summary.fetched)
      BY <1>3, <1>4, <2>2 DEF FileFollowsBaseline
    <2>4. summary.fetched >= LastOf(P) /\ LastOf(P) \in Nat \ {0}
      BY <1>4, <1>9, <2>2, <2>3, ReachSteps
    <2>5. Reach(P, summary.fetched) = Cardinality(P)
      BY <1>4, <2>4, ReachSteps
    <2>6. /\ DOMAIN lines = 1..Cardinality(P)
          /\ \A i \in 1..Cardinality(P) : lines[i] = InOrder(P)[i]
      BY <1>4, <2>3, <2>5, LenProperties DEF FileIs
    <2>7. lines = [i \in DOMAIN lines |-> lines[i]]
      BY <1>4, LenProperties
    <2>8. InOrder(P) = [i \in 1..Cardinality(P) |-> InOrder(P)[i]]
      BY <1>4, OrderOf
    <2>9. lines = InOrder(P)
      BY <2>6, <2>7, <2>8
    <2> QED
      BY <2>9
  <1>11. StillSourceIsComplete'
    <2> SUFFICES ASSUME Cardinality(stocks) = 1, stock \cap Nameless = {}, ~(maxPages < LastOf(stock))
                 PROVE  Complete(probe)
      BY <1>2 DEF StillSourceIsComplete
    <2>1. stocks = {stock}
      BY StillHasOne
    <2>2. ~summary.changed /\ summary.missing = 0 /\ summary.duplicates = 0
      BY <1>3, <2>1 DEF StillHasNoTrouble
    <2>3. baseline = PageAt(stock, 1) /\ FileIs(stock, summary.fetched)
      BY <1>2, <1>4, <2>1, <2>2, StillFile
    <2>4. baseline.last = LastOf(stock) /\ baseline.total = Cardinality(stock) /\ LastOf(stock) \in Nat \ {0}
      BY <1>4, <1>9, <2>3, ReachSteps
    <2>5. summary.fetched = LastOf(stock)
      BY <1>4, <2>4 DEF Limit
    <2>6. Len(lines) = Cardinality(stock)
      BY <1>4, <2>3, <2>4, <2>5, ReachSteps DEF FileIs
    <2>7. summary.hits = Cardinality(stock) /\ Cardinality(summary.seen) = Cardinality(stock)
      <3>1. PICK h \in Nat : /\ h = summary.hits /\ Len(lines) = h
                            /\ Cardinality(summary.seen) + summary.duplicates + summary.missing = h
        BY <1>3 DEF ClientTypeOK, SummaryFollowsFile, Told
      <3>2. Cardinality(summary.seen) \in Nat
        BY <1>3, StockIsFinite DEF ClientTypeOK
      <3> QED
        BY <2>2, <2>6, <3>1, <3>2
    <2> QED
      BY <1>1, <2>2, <2>3, <2>4, <2>5, <2>7 DEF Complete
  <1>12. exit' # Running
    BY <1>5 DEF Running
  <1> QED
    BY <1>2, <1>3, <1>6, <1>7, <1>8, <1>10, <1>11, <1>12 DEF ExportInv, ExportIsTruthful
-----------------------------------------------------------------------------
(* The pages of an export.                                                  *)

\* The page that is about to be written, with the counts it leads to.
LEMMA PageCounted ==
    ASSUME ExportInv, exit = Running, answer # NoPage
    PROVE  \E P \in stocks, c \in [fetched : Nat, hits : Nat, seen : SUBSET Stock, duplicates : Nat,
                                   missing : Nat, changed : BOOLEAN] :
              /\ c = Counted(answer)
              /\ P \in SUBSET Stock /\ request.page <= LastOf(P) /\ answer = PageAt(P, request.page)
              /\ c.fetched = summary.fetched /\ c.hits = summary.hits
              /\ c.seen = summary.seen \cup Names(answer)
              /\ c.missing = summary.missing + Cardinality(Shown(answer) \cap Nameless)
              /\ c.duplicates = summary.duplicates + Cardinality(Names(answer) \cap summary.seen)
              /\ ~c.changed <=> /\ ~summary.changed
                                /\ answer.total = baseline.total /\ answer.last = baseline.last
              /\ Cardinality(c.seen) + c.duplicates + c.missing = Told + Len(answer.listings)
              /\ Told \in Nat /\ Len(answer.listings) \in 0..PerPage
  <1>1. ClientTypeOK /\ ExportPlace
    BY DEF ExportInv
  <1>2. PICK P \in stocks : request.page <= LastOf(P) /\ answer = PageAt(P, request.page)
    BY <1>1 DEF ExportPlace
  <1>3. P \in SUBSET Stock /\ request.page \in Nat \ {0}
    BY <1>1 DEF ClientTypeOK
  <1>4. /\ Shown(answer) \subseteq P /\ IsFiniteSet(Shown(answer))
        /\ Cardinality(Shown(answer)) = Len(answer.listings)
    BY <1>2, <1>3, ShownCounted
  <1>5. Len(answer.listings) \in 0..PerPage
    BY <1>2, <1>3, PageAtIs
  <1>6. PICK s : s = summary
    OBVIOUS
  <1>7. s \in [fetched : Nat, hits : Nat, seen : SUBSET Stock, duplicates : Nat,
               missing : Nat, changed : BOOLEAN]
    BY <1>1, <1>6 DEF ClientTypeOK
  <1>8. IsFiniteSet(s.seen) /\ Names(answer) \subseteq Stock /\ IsFiniteSet(Names(answer))
    BY <1>3, <1>4, <1>7, StockIsFinite, FS_Subset DEF Names
  <1>9. PICK m \in Nat : m = Cardinality(Shown(answer) \cap Nameless)
    BY <1>4, FS_Intersection, FS_CardinalityType
  <1>10. PICK d \in Nat : d = Cardinality(Names(answer) \cap s.seen)
    BY <1>8, FS_Intersection, FS_CardinalityType
  <1>11. PICK b \in BOOLEAN : b = (s.changed \/ answer.total # baseline.total \/ answer.last # baseline.last)
    OBVIOUS
  <1>12. PICK c : c = [s EXCEPT !.changed = b, !.missing = @ + m, !.duplicates = @ + d,
                                !.seen = @ \cup Names(answer)]
    OBVIOUS
  <1>13. c = Counted(answer)
    BY <1>6, <1>9, <1>10, <1>11, <1>12, Zenon DEF Counted
  <1>14. /\ c \in [fetched : Nat, hits : Nat, seen : SUBSET Stock, duplicates : Nat,
                   missing : Nat, changed : BOOLEAN]
         /\ c.fetched = s.fetched /\ c.hits = s.hits /\ c.seen = s.seen \cup Names(answer)
         /\ c.missing = s.missing + m /\ c.duplicates = s.duplicates + d /\ c.changed = b
    <2>1. /\ c.fetched = s.fetched /\ c.hits = s.hits /\ c.seen = s.seen \cup Names(answer)
          /\ c.missing = s.missing + m /\ c.duplicates = s.duplicates + d
      BY <1>7, <1>12
    <2>2. c.changed = b
      BY <1>7, <1>12, Zenon
    <2>3. c = [fetched |-> c.fetched, hits |-> c.hits, seen |-> c.seen, duplicates |-> c.duplicates,
               missing |-> c.missing, changed |-> c.changed]
      BY <1>7, <1>12
    <2>4. c.fetched \in Nat /\ c.hits \in Nat /\ c.missing \in Nat /\ c.duplicates \in Nat
          /\ c.seen \in SUBSET Stock
      BY <1>7, <1>8, <1>9, <1>10, <2>1
    <2>5. c.changed \in BOOLEAN
      BY <1>11, <2>2, Zenon
    <2>6. c \in [fetched : Nat, hits : Nat, seen : SUBSET Stock, duplicates : Nat,
                 missing : Nat, changed : BOOLEAN]
      BY <2>3, <2>4, <2>5, Zenon
    <2> QED
      BY <2>1, <2>2, <2>6
  <1>15. ~c.changed <=> ~s.changed /\ answer.total = baseline.total /\ answer.last = baseline.last
    BY <1>11, <1>14
  <1>16. Cardinality(c.seen) = Cardinality(s.seen) + Cardinality(Names(answer)) - d
    <2>1. s.seen \cap Names(answer) = Names(answer) \cap s.seen
      OBVIOUS
    <2> QED
      BY <1>8, <1>10, <1>14, <2>1, FS_Union
  <1>17. Cardinality(Names(answer)) = Len(answer.listings) - m
    BY <1>4, <1>9, FS_Difference DEF Names
  <1>18. Cardinality(s.seen) \in Nat /\ Len(answer.listings) \in Nat /\ s.duplicates \in Nat /\ s.missing \in Nat
    BY <1>5, <1>7, <1>8, FS_CardinalityType, ClientAssumption
  <1>19. Told = Cardinality(s.seen) + s.duplicates + s.missing /\ Told \in Nat
    BY <1>6, <1>18 DEF Told
  <1>20. Cardinality(c.seen) + c.duplicates + c.missing = Told + Len(answer.listings)
    <2>1. PICK x \in Nat : x = Cardinality(s.seen)
      BY <1>18
    <2>2. PICK n \in Nat : n = Len(answer.listings)
      BY <1>18
    <2>3. Cardinality(c.seen) = x + (n - m) - d
      BY <1>16, <1>17, <2>1, <2>2
    <2>4. c.missing = s.missing + m /\ c.duplicates = s.duplicates + d
      BY <1>14
    <2>5. Told = x + s.duplicates + s.missing
      BY <1>19, <2>1
    <2>6. PICK e \in Nat : e = s.duplicates
      BY <1>18
    <2>7. PICK f \in Nat : f = s.missing
      BY <1>18
    <2>8. x + (n - m) - d + (e + d) + (f + m) = x + e + f + n
      OBVIOUS
    <2> QED
      BY <2>2, <2>3, <2>4, <2>5, <2>6, <2>7, <2>8
  <1> QED
    BY <1>2, <1>3, <1>5, <1>6, <1>9, <1>10, <1>13, <1>14, <1>15, <1>19, <1>20

\* The pages follow one another; the last one is followed by the probe.
LEMMA FollowingIs ==
    ASSUME ClientTypeOK, NEW n, n = Following
    PROVE  /\ n \in [role : Roles, page : Nat \ {0}, attempt : 1..Tries]
           /\ \/ request.page < Limit /\ n.role = "capture" /\ n.page = request.page + 1
              \/ ~(request.page < Limit) /\ n.role = "consistency_probe" /\ n.page = 1
  BY ClientAssumption DEF Following, ClientTypeOK, Roles

\* What was written, and the page after it.
LEMMA WrittenLines ==
    ASSUME lines \in Seq(Stock), answer \in Page
    PROVE  /\ lines \o answer.listings \in Seq(Stock)
           /\ Len(lines) \in Nat /\ Len(answer.listings) \in Nat
           /\ Len(lines \o answer.listings) = Len(lines) + Len(answer.listings)
           /\ \A i \in 1..Len(lines) : (lines \o answer.listings)[i] = lines[i]
           /\ \A i \in 1..Len(answer.listings) :
                 (lines \o answer.listings)[Len(lines) + i] = answer.listings[i]
  <1>1. answer.listings \in Seq(Stock)
    BY DEF Page
  <1>2. Len(lines) \in Nat /\ Len(answer.listings) \in Nat
    BY <1>1, LenProperties
  <1> QED
    BY <1>1, <1>2, ConcatProperties

LEMMA WritePageKeeps == ASSUME ExportInv, WritePage PROVE ExportInv'
  <1>1. /\ exit = Running /\ exit' = exit /\ answer # NoPage /\ answer' = NoPage
        /\ lines' = lines \o answer.listings /\ request' = Following
        /\ summary' = [Counted(answer) EXCEPT !.fetched = @ + 1, !.hits = @ + Len(answer.listings)]
        /\ baseline' = baseline /\ requests' = requests /\ raw' = raw
        /\ stock' = stock /\ turns' = turns /\ stocks' = stocks /\ maxPages' = maxPages
    BY DEF WritePage, stockVars
  <1>2. /\ ClientTypeOK /\ SummaryFollowsFile /\ stock \in stocks /\ ExportPlace
        /\ FileFollowsBaseline /\ StillHasNoTrouble /\ AnswersAreKept
    BY <1>1 DEF ExportInv
  <1>3. PICK P \in stocks, c \in [fetched : Nat, hits : Nat, seen : SUBSET Stock, duplicates : Nat,
                                  missing : Nat, changed : BOOLEAN] :
            /\ c = Counted(answer)
            /\ P \in SUBSET Stock /\ request.page <= LastOf(P) /\ answer = PageAt(P, request.page)
            /\ c.fetched = summary.fetched /\ c.hits = summary.hits
            /\ c.seen = summary.seen \cup Names(answer)
            /\ c.missing = summary.missing + Cardinality(Shown(answer) \cap Nameless)
            /\ c.duplicates = summary.duplicates + Cardinality(Names(answer) \cap summary.seen)
            /\ ~c.changed <=> /\ ~summary.changed
                              /\ answer.total = baseline.total /\ answer.last = baseline.last
            /\ Cardinality(c.seen) + c.duplicates + c.missing = Told + Len(answer.listings)
            /\ Told \in Nat /\ Len(answer.listings) \in 0..PerPage
    BY <1>1, PageCounted
  <1>4. PICK p \in Nat \ {0} : p = request.page
    BY <1>2 DEF ClientTypeOK
  <1>5. /\ request.role = "capture" /\ p = summary.fetched + 1 /\ baseline # NoPage
        /\ p > 1 => p <= Limit
        /\ p = 1 => baseline = answer
    BY <1>1, <1>2, <1>4 DEF ExportPlace, ClientTypeOK, Roles
  <1>6. /\ lines' \in Seq(Stock) /\ Len(lines) \in Nat /\ Len(answer.listings) \in Nat
        /\ Len(lines') = Len(lines) + Len(answer.listings)
        /\ \A i \in 1..Len(lines) : lines'[i] = lines[i]
        /\ \A i \in 1..Len(answer.listings) : lines'[Len(lines) + i] = answer.listings[i]
    BY <1>1, <1>2, WrittenLines DEF ClientTypeOK
  <1>7. /\ summary' \in [fetched : Nat, hits : Nat, seen : SUBSET Stock, duplicates : Nat,
                         missing : Nat, changed : BOOLEAN]
        /\ summary'.fetched = p /\ summary'.hits = summary.hits + Len(answer.listings)
        /\ summary'.seen = c.seen /\ summary'.duplicates = c.duplicates
        /\ summary'.missing = c.missing /\ summary'.changed = c.changed
    <2>1. summary' = [c EXCEPT !.fetched = @ + 1, !.hits = @ + Len(answer.listings)]
      BY <1>1, <1>3
    <2>2. PICK new : new = [c EXCEPT !.fetched = @ + 1, !.hits = @ + Len(answer.listings)]
      OBVIOUS
    <2>3. /\ new.fetched = c.fetched + 1 /\ new.hits = c.hits + Len(answer.listings)
          /\ new.seen = c.seen /\ new.duplicates = c.duplicates /\ new.missing = c.missing
      BY <1>3, <2>2
    <2>4. new.changed = c.changed
      BY <1>3, <2>2, Zenon
    <2>5. new \in [fetched : Nat, hits : Nat, seen : SUBSET Stock, duplicates : Nat,
                   missing : Nat, changed : BOOLEAN]
      <3>1. new = [fetched |-> new.fetched, hits |-> new.hits, seen |-> new.seen,
                   duplicates |-> new.duplicates, missing |-> new.missing, changed |-> new.changed]
        BY <1>3, <2>2
      <3>2. /\ new.fetched \in Nat /\ new.hits \in Nat /\ new.missing \in Nat
            /\ new.duplicates \in Nat /\ new.seen \in SUBSET Stock
        <4>1. /\ c.fetched \in Nat /\ c.hits \in Nat /\ c.missing \in Nat /\ c.duplicates \in Nat
              /\ c.seen \in SUBSET Stock
          BY <1>3
        <4>2. c.fetched + 1 \in Nat /\ c.hits + Len(answer.listings) \in Nat
          BY <1>6, <4>1
        <4> QED
          BY <2>3, <4>1, <4>2
      <3>3. new.changed \in BOOLEAN
        BY <1>3, <2>4, Zenon
      <3> QED
        BY <3>1, <3>2, <3>3, Zenon
    <2>6. new = summary' /\ new.fetched = p /\ new.hits = summary.hits + Len(answer.listings)
      BY <1>3, <1>5, <2>1, <2>2, <2>3
    <2> QED
      BY <2>3, <2>4, <2>5, <2>6
  <1>8. PICK n : n = Following
    OBVIOUS
  <1>9. /\ request' = n /\ n \in [role : Roles, page : Nat \ {0}, attempt : 1..Tries]
        /\ \/ p < Limit /\ n.role = "capture" /\ n.page = p + 1
           \/ ~(p < Limit) /\ n.role = "consistency_probe" /\ n.page = 1
    BY <1>1, <1>2, <1>4, <1>8, FollowingIs
  <1>10. ClientTypeOK'
    BY <1>1, <1>2, <1>6, <1>7, <1>9, NoPageIs DEF ClientTypeOK
  <1>11. AnswersAreKept'
    BY <1>1, <1>2 DEF AnswersAreKept
  <1>12. ExportPlace'
    <2>1. Limit' = Limit /\ Limit \in Nat \ {0}
      <3>1. PICK Q \in stocks : baseline = PageAt(Q, 1)
        BY <1>2, <1>5 DEF ExportPlace
      <3>2. baseline.last \in Nat \ {0}
        BY <1>2, <3>1, ReachSteps DEF PageAt, ClientTypeOK
      <3> QED
        BY <1>1, <1>2, <3>2, ClientAssumption DEF Limit, ClientTypeOK
    <2>2. p <= Limit
      BY <1>5, <2>1
    <2>3. baseline' # NoPage => \E Q \in stocks' : baseline' = PageAt(Q, 1)
      BY <1>1, <1>2 DEF ExportPlace
    <2> QED
      BY SMTT(40), <1>1, <1>5, <1>7, <1>9, <2>1, <2>2, <2>3 DEF ExportPlace
  <1>13. ASSUME NEW Q \in stocks, baseline = PageAt(Q, 1), FileIs(Q, summary.fetched), P = Q
         PROVE  FileIs(Q, p)'
    <2>1. /\ Reach(Q, p) = Reach(Q, p - 1) + Len(answer.listings) /\ p - 1 = summary.fetched
          /\ \A i \in 1..Len(answer.listings) : answer.listings[i] = InOrder(Q)[Reach(Q, p - 1) + i]
      <3>1. answer = PageAt(Q, p) /\ p <= LastOf(Q) /\ Q \in SUBSET Stock
        BY <1>3, <1>4, <1>13
      <3>2. p - 1 = summary.fetched
        BY SMTT(40), <1>2, <1>4, <1>5 DEF ClientTypeOK
      <3> QED
        BY <3>1, <3>2, PageAtIs
    <2>2. Len(lines) = Reach(Q, p - 1) /\ \A i \in 1..Len(lines) : lines[i] = InOrder(Q)[i]
      BY <1>13, <2>1 DEF FileIs
    <2>3. Len(lines') = Reach(Q, p)
      BY <1>6, <2>1, <2>2
    <2>4. ASSUME NEW i \in 1..Len(lines') PROVE lines'[i] = InOrder(Q)[i]
      <3>1. CASE i <= Len(lines)
        BY <1>6, <2>2, <2>4, <3>1
      <3>2. CASE ~(i <= Len(lines))
        <4>1. PICK j \in 1..Len(answer.listings) : i = Len(lines) + j
          <5>1. i - Len(lines) \in 1..Len(answer.listings) /\ i = Len(lines) + (i - Len(lines))
            BY <1>6, <2>4, <3>2
          <5> QED
            BY <5>1
        <4> QED
          BY <1>6, <2>1, <2>2, <4>1
      <3> QED
        BY <3>1, <3>2
    <2> QED
      BY <2>3, <2>4 DEF FileIs
  <1>14. FileFollowsBaseline'
    <2>1. ASSUME Chained, ~c.changed
          PROVE  \E Q \in stocks : baseline = PageAt(Q, 1) /\ FileIs(Q, p)'
      <3>1. ~summary.changed /\ answer.total = baseline.total
        BY <1>3, <2>1
      <3>2. PICK Q \in stocks : baseline = PageAt(Q, 1) /\ FileIs(Q, summary.fetched)
        BY <1>2, <1>5, <2>1, <3>1 DEF FileFollowsBaseline
      <3>3. Cardinality(P) = Cardinality(Q) /\ Q \in SUBSET Stock
        BY <1>2, <1>3, <3>1, <3>2 DEF PageAt, ClientTypeOK
      <3>4. P \subseteq Q \/ Q \subseteq P
        BY <1>3, <2>1, <3>2 DEF Chained
      <3>5. P = Q
        BY <1>3, <3>3, <3>4, SameStock
      <3> QED
        BY <1>13, <3>2, <3>5
    <2>2. Chained' = Chained
      BY <1>1 DEF Chained
    <2>3. \A Q \in stocks : FileIs(Q, summary.fetched)' <=> FileIs(Q, p)'
      BY <1>7 DEF FileIs
    <2> QED
      BY <1>1, <1>7, <2>1, <2>2, <2>3 DEF FileFollowsBaseline
  <1>15. SummaryFollowsFile'
    <2>1. PICK h \in Nat : h = summary.hits /\ Len(lines) = h /\ Told = h
      BY <1>2 DEF ClientTypeOK, SummaryFollowsFile
    <2>2. Told' = h + Len(answer.listings)
      BY <1>3, <1>7, <2>1 DEF Told
    <2>3. summary'.seen \subseteq {lines'[i] : i \in 1..Len(lines')}
      <3> SUFFICES ASSUME NEW l \in c.seen PROVE \E i \in 1..Len(lines') : l = lines'[i]
        BY <1>7
      <3>1. CASE l \in summary.seen
        <4>1. PICK i \in 1..Len(lines) : l = lines[i]
          BY <1>2, <3>1 DEF SummaryFollowsFile
        <4>2. i \in 1..Len(lines')
          BY <1>6
        <4> QED
          BY <1>6, <4>1, <4>2
      <3>2. CASE l \in Names(answer)
        <4>1. PICK i \in 1..Len(answer.listings) : l = answer.listings[i]
          BY <1>3, <1>4, <3>2, PageAtIs DEF Names, Shown
        <4>2. Len(lines) + i \in 1..Len(lines')
          BY <1>6
        <4> QED
          BY <1>6, <4>1, <4>2
      <3> QED
        BY <1>3, <3>1, <3>2
    <2> QED
      BY <1>6, <1>7, <2>1, <2>2, <2>3 DEF SummaryFollowsFile
  <1>16. StillHasNoTrouble'
    <2> SUFFICES ASSUME stocks = {stock}, stock \cap Nameless = {}
                 PROVE  ~c.changed /\ c.missing = 0 /\ c.duplicates = 0
      BY <1>1, <1>7 DEF StillHasNoTrouble
    <2>1. ~summary.changed /\ summary.missing = 0 /\ summary.duplicates = 0
      BY <1>2 DEF StillHasNoTrouble
    <2>2. P = stock /\ stock \in SUBSET Stock
      BY <1>3
    <2>3. baseline = PageAt(stock, 1) /\ FileIs(stock, summary.fetched)
      BY <1>1, <1>5, <2>1, StillFile
    <2>4. answer.total = baseline.total /\ answer.last = baseline.last
      BY <1>3, <2>2, <2>3 DEF PageAt
    <2>5. Shown(answer) \subseteq stock
      BY <1>3, <1>4, <2>2, ShownCounted
    <2>6. Shown(answer) \cap Nameless = {}
      BY <2>5
    <2>7. ASSUME NEW l \in Names(answer), l \in summary.seen PROVE FALSE
      <3>1. PICK i \in 1..Len(lines) : l = lines[i]
        BY <1>2, <2>7 DEF SummaryFollowsFile
      <3>2. PICK j \in 1..Len(answer.listings) : l = InOrder(stock)[Reach(stock, p - 1) + j]
        BY SMTT(40), <1>3, <1>4, <2>2, <2>7, ShownCounted DEF Names
      <3>3. /\ Reach(stock, p) = Reach(stock, p - 1) + Len(answer.listings)
            /\ Reach(stock, p) \in 0..Cardinality(stock) /\ Reach(stock, p - 1) \in Nat
        BY SMTT(40), <1>3, <1>4, <2>2, PageAtIs
      <3>4. p - 1 = summary.fetched
        BY SMTT(40), <1>4, <1>5, <1>7, <1>2 DEF ClientTypeOK
      <3>5. Len(lines) = Reach(stock, p - 1) /\ l = InOrder(stock)[i]
        BY <2>3, <3>1, <3>4 DEF FileIs
      <3>6. PICK r \in Nat : r = Reach(stock, p - 1)
        BY <3>3
      <3>7. Cardinality(stock) \in Nat
        BY <2>2, StockIsFinite
      <3>8. i \in 1..Cardinality(stock) /\ r + j \in 1..Cardinality(stock) /\ i # r + j
        BY SMTT(40), <1>6, <3>3, <3>5, <3>6, <3>7
      <3> QED
        BY <2>2, <3>2, <3>5, <3>6, <3>8, OrderOf
    <2>8. Names(answer) \cap summary.seen = {}
      BY <2>7
    <2> QED
      <3>1. ~c.changed
        BY <1>3, <2>1, <2>4
      <3>2. c.missing = 0 /\ c.duplicates = 0
        <4>1. /\ Cardinality(Shown(answer) \cap Nameless) = 0
              /\ Cardinality(Names(answer) \cap summary.seen) = 0
          BY <2>6, <2>8, FS_EmptySet
        <4> QED
          BY <1>3, <2>1, <4>1
      <3> QED
        BY <3>1, <3>2
  <1> QED
    BY <1>1, <1>2, <1>10, <1>11, <1>12, <1>14, <1>15, <1>16 DEF ExportInv
\* A listing is refused: the file has those before it, fewer than the summary
\* counts as seen.
LEMMA WriteFailsKeeps == ASSUME ExportInv, WriteFails PROVE ExportInv'
  <1>1. /\ exit = Running /\ exit' = 1 /\ answer # NoPage /\ answer' = NoPage
        /\ request' = request /\ summary' = Counted(answer)
        /\ baseline' = baseline /\ requests' = requests /\ raw' = raw
        /\ stock' = stock /\ turns' = turns /\ stocks' = stocks /\ maxPages' = maxPages
    BY DEF WriteFails, stockVars
  <1>2. /\ ClientTypeOK /\ SummaryFollowsFile /\ stock \in stocks /\ AnswersAreKept
    BY <1>1 DEF ExportInv
  <1>3. PICK P \in stocks, c \in [fetched : Nat, hits : Nat, seen : SUBSET Stock, duplicates : Nat,
                                  missing : Nat, changed : BOOLEAN] :
            /\ c = Counted(answer) /\ c.hits = summary.hits
            /\ Cardinality(c.seen) + c.duplicates + c.missing = Told + Len(answer.listings)
            /\ Told \in Nat /\ Len(answer.listings) \in 0..PerPage
    BY <1>1, PageCounted
  <1>4. summary' = c
    BY <1>1, <1>3
  <1>5. PICK n \in 0..Len(answer.listings) - 1 : lines' = lines \o SubSeq(answer.listings, 1, n)
    BY DEF WriteFails
  <1>6. /\ lines \in Seq(Stock) /\ answer.listings \in Seq(Stock)
        /\ Len(lines) \in Nat /\ Len(answer.listings) \in Nat
    BY <1>2, LenProperties DEF ClientTypeOK, Page
  <1>7. SubSeq(answer.listings, 1, n) \in Seq(Stock) /\ Len(SubSeq(answer.listings, 1, n)) = n
    <2>1. n \in Nat /\ \A i \in 1..n : i \in 1..Len(answer.listings)
      BY <1>5, <1>6
    <2>2. \A i \in 1..n : answer.listings[i] \in Stock
      BY <1>6, <2>1, ElementOfSeq
    <2>3. /\ SubSeq(answer.listings, 1, n) \in Seq(Stock)
          /\ Len(SubSeq(answer.listings, 1, n)) = IF 1 <= n THEN n - 1 + 1 ELSE 0
      BY <2>1, <2>2, SubSeqProperties
    <2> QED
      BY <2>1, <2>3
  <1>8. lines' \in Seq(Stock) /\ Len(lines') = Len(lines) + n
    BY <1>5, <1>6, <1>7, ConcatProperties
  <1>9. ClientTypeOK'
    BY <1>1, <1>2, <1>3, <1>4, <1>8, NoPageIs DEF ClientTypeOK
  <1>10. AnswersAreKept'
    <2>1. {r \in requests : r.status # "none"} = raw
      BY <1>1, <1>2 DEF AnswersAreKept, Running
    <2>2. {r \in requests : r.status # "none"} \ raw = {}
      BY <2>1
    <2>3. Cardinality({r \in requests : r.status # "none"} \ raw) = 0
      BY <2>2, FS_EmptySet
    <2> QED
      BY <1>1, <2>3 DEF AnswersAreKept
  <1>11. SummaryTellsLines'
    <2>1. PICK h \in Nat : h = summary.hits /\ Len(lines) = h /\ Told = h
      BY <1>2 DEF ClientTypeOK, SummaryFollowsFile
    <2>2. PICK told : told = Cardinality(c.seen) + c.duplicates + c.missing
      OBVIOUS
    <2>3. PICK m \in Nat : m = Len(answer.listings) /\ m <= PerPage
      BY <1>3, <1>6, ClientAssumption
    <2>4. told = h + m /\ Len(lines') = h + n /\ n \in 0..m - 1 /\ c.hits = h
      BY <1>3, <1>5, <1>8, <2>1, <2>2, <2>3
    <2>5. c.hits <= Len(lines') /\ Len(lines') <= told /\ Len(lines') < c.hits + PerPage
      BY <2>3, <2>4, ClientAssumption
    <2> QED
      BY <1>1, <1>4, <2>2, <2>5 DEF SummaryTellsLines
  <1>12. ExitZeroIsPopulation' /\ StillSourceIsComplete'
    BY <1>1 DEF ExitZeroIsPopulation, StillSourceIsComplete
  <1> QED
    BY <1>1, <1>2, <1>9, <1>10, <1>11, <1>12 DEF ExportInv, ExportIsTruthful, Running

LEMMA RespondKeeps ==
    ASSUME ExportInv, NEW status \in Statuses, NEW kept \in BOOLEAN, Respond(status, kept)
    PROVE  ExportInv'
  <1>1. PICK e : e = Entry(status)
    OBVIOUS
  <1>2. e \in Entries /\ e.status = status /\ status # "none" /\ request.role \in Roles
    BY <1>1 DEF Entry, Entries, ExportInv, ClientTypeOK, Respond
  <1>3. CASE ~kept
    <2>1. RequestStep(e, {}) /\ Fail
      BY <1>1, <1>3 DEF Respond, RequestStep, Asking, stockVars
    <2> QED
      BY <1>2, <2>1, FailEnds
  <1>4. CASE kept
    <2>1. RequestStep(e, {e}) /\ Settled(status)
      BY <1>1, <1>4 DEF Respond, RequestStep, Asking, stockVars
    <2>2. CASE status = "ok" /\ Acceptable(request.page) /\ request.role = "capture"
      <3>1. Taken(PageAt(stock, request.page))
        BY <2>1, <2>2 DEF Settled
      <3> QED
        BY <1>2, <2>1, <2>2, <3>1, TakenKeeps
    <2>3. CASE status = "ok" /\ Acceptable(request.page) /\ request.role # "capture"
      <3>1. Concluded(PageAt(stock, 1)) /\ request.role = "consistency_probe"
        BY <1>2, <2>1, <2>3 DEF Settled, Roles
      <3> QED
        BY <1>2, <2>1, <3>1, ConcludedKeeps
    <2>4. CASE status = "busy"
      <3>1. RetryOrFail
        BY <2>1, <2>4 DEF Settled
      <3> QED
        BY <1>2, <2>1, <3>1, RetryOrFailKeeps
    <2>5. CASE ~(status = "ok" /\ Acceptable(request.page)) /\ status # "busy"
      <3>1. Fail
        BY <2>1, <2>5 DEF Settled
      <3> QED
        BY <1>2, <2>1, <3>1, FailEnds
    <2> QED
      BY <2>2, <2>3, <2>4, <2>5
  <1> QED
    BY <1>3, <1>4

LEMMA LoseKeeps == ASSUME ExportInv, Lose PROVE ExportInv'
  <1>1. PICK e : e = Entry("none")
    OBVIOUS
  <1>2. e \in Entries /\ e.status = "none"
    BY <1>1 DEF Entry, Entries, Statuses, ExportInv, ClientTypeOK
  <1>3. RequestStep(e, {}) /\ RetryOrFail
    BY <1>1 DEF Lose, RequestStep, Asking, stockVars
  <1> QED
    BY <1>2, <1>3, RetryOrFailKeeps

LEMMA ExportInvKept == ExportInv /\ [ClientNext]_clientVars => ExportInv'
  <1> SUFFICES ASSUME ExportInv, [ClientNext]_clientVars PROVE ExportInv'
    OBVIOUS
  <1>1. CASE \E status \in Statuses, kept \in BOOLEAN : Respond(status, kept)
    BY <1>1, RespondKeeps
  <1>2. CASE Lose
    BY <1>2, LoseKeeps
  <1>3. CASE WritePage
    BY <1>3, WritePageKeeps
  <1>4. CASE WriteFails
    BY <1>4, WriteFailsKeeps
  <1>5. CASE StockChanges
    BY <1>5, StockKeeps
  <1>6. CASE UNCHANGED clientVars
    <2>1. /\ maxPages' = maxPages /\ request' = request /\ answer' = answer /\ baseline' = baseline
          /\ summary' = summary /\ requests' = requests /\ raw' = raw /\ lines' = lines
          /\ exit' = exit /\ stock' = stock /\ turns' = turns /\ stocks' = stocks
      BY <1>6 DEF clientVars, stockVars
    <2>2. ClientTypeOK' = ClientTypeOK
      BY <2>1 DEF ClientTypeOK
    <2>3. AnswersAreKept' = AnswersAreKept
      BY <2>1 DEF AnswersAreKept
    <2>4. ExportIsTruthful' = ExportIsTruthful
      BY <2>1, <2>2, <2>3 DEF ExportIsTruthful, ExitZeroIsPopulation, SummaryTellsLines, StillSourceIsComplete
    <2>5. ExportPlace => ExportPlace'
      BY <2>1 DEF ExportPlace, Limit
    <2>6. FileFollowsBaseline => FileFollowsBaseline'
      BY <2>1 DEF FileFollowsBaseline, FileIs, Chained
    <2>7. SummaryFollowsFile /\ StillHasNoTrouble => SummaryFollowsFile' /\ StillHasNoTrouble'
      BY <2>1 DEF SummaryFollowsFile, Told, StillHasNoTrouble
    <2> QED
      BY <2>1, <2>2, <2>3, <2>4, <2>5, <2>6, <2>7 DEF ExportInv
  <1> QED
    BY <1>1, <1>2, <1>3, <1>4, <1>5, <1>6 DEF ClientNext, ClientStep

LEMMA ExportStarts == ClientInit => ExportInv
  <1> SUFFICES ASSUME ClientInit PROVE ExportInv
    OBVIOUS
  <1>1. /\ exit = Running /\ answer = NoPage /\ baseline = NoPage /\ requests = {} /\ raw = {}
        /\ lines = <<>> /\ stocks = {stock} /\ stock \in SUBSET Stock /\ turns = 0
        /\ maxPages \in PageLimits
        /\ request = [role |-> "capture", page |-> 1, attempt |-> 1]
    BY DEF ClientInit
  <1>2. PICK s : s = summary
    OBVIOUS
  <1>3. s = [fetched |-> 0, hits |-> 0, seen |-> {}, duplicates |-> 0, missing |-> 0, changed |-> FALSE]
    BY <1>2 DEF ClientInit
  <1>4. /\ s.fetched = 0 /\ s.hits = 0 /\ s.seen = {} /\ s.duplicates = 0 /\ s.missing = 0
        /\ ~s.changed
        /\ s \in [fetched : Nat, hits : Nat, seen : SUBSET Stock, duplicates : Nat,
                  missing : Nat, changed : BOOLEAN]
    BY <1>3
  <1>5. <<>> \in Seq(Stock) /\ Len(<<>>) = 0
    OBVIOUS
  <1>6. ClientTypeOK
    BY <1>1, <1>2, <1>4, <1>5, NoPageIs, ClientAssumption DEF ClientTypeOK, Roles
  <1>7. AnswersAreKept
    BY <1>1 DEF AnswersAreKept, Running
  <1>8. ExportPlace
    BY <1>1, <1>2, <1>4 DEF ExportPlace
  <1>9. FileFollowsBaseline /\ StillHasNoTrouble
    BY <1>1, <1>2, <1>4 DEF FileFollowsBaseline, StillHasNoTrouble
  <1>10. SummaryFollowsFile
    BY <1>1, <1>2, <1>4, <1>5, FS_EmptySet DEF SummaryFollowsFile, Told
  <1> QED
    BY <1>1, <1>6, <1>7, <1>8, <1>9, <1>10 DEF ExportInv

\* An export of the client keeps every answer, reports what it wrote and ends
\* with 0 exactly when it has a whole population, for every source, page size,
\* page limit and number of attempts, whatever fails on the way.
THEOREM ExportTellsTheTruth == ClientSpec => []ExportIsTruthful
  <1>1. ExportInv => ExportIsTruthful
    <2> SUFFICES ASSUME ExportInv, exit = Running PROVE ExportIsTruthful
      BY DEF ExportInv
    <2>1. ClientTypeOK /\ AnswersAreKept /\ SummaryFollowsFile
      BY DEF ExportInv
    <2>2. ExitZeroIsPopulation /\ StillSourceIsComplete
      BY DEF ExitZeroIsPopulation, StillSourceIsComplete, Running
    <2>3. SummaryTellsLines
      <3>1. PICK h \in Nat : /\ h = summary.hits /\ Len(lines) = h
                            /\ Cardinality(summary.seen) + summary.duplicates + summary.missing = h
        BY <2>1 DEF ClientTypeOK, SummaryFollowsFile, Told
      <3> QED
        BY <3>1, ClientAssumption DEF SummaryTellsLines
    <2> QED
      BY <2>1, <2>2, <2>3 DEF ExportIsTruthful
  <1> QED
    BY <1>1, ExportStarts, ExportInvKept, PTL DEF ClientSpec
=============================================================================
