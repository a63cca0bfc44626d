--------------------------- MODULE PageExtraction ---------------------------
(***************************************************************************)
(* One page of a slice, from the answer of the site to the records handed   *)
(* to the collector: the content script of the extension (content.js), the  *)
(* same parser run by the headless collector (headless.mjs), and the date   *)
(* range of the slice (slice.js).                                           *)
(*                                                                          *)
(* A card is usable when it has an address or a detail link; of its fields  *)
(* only the date of sale is kept, 0 when it has none.  A text that may hold *)
(* the number of results is what each pattern captures of it, None if       *)
(* nothing.                                                                 *)
(***************************************************************************)
EXTENDS Integers, FiniteSets, Sequences, SequencesExt

CONSTANTS
    None,
    Retries,     \* attempts of the content script
    Documents,   \* pages the site may serve
    Ranges       \* [from, to] of a slice, 0 for a bound that is not set

ASSUME ExtractionAssumption ==
    /\ Retries \in Nat \ {0} /\ None \notin Nat
    /\ \A doc \in Documents :
          {doc.exact, doc.surrounding, doc.loose} \subseteq Seq([usable : BOOLEAN, sold : Nat])
    /\ Ranges \subseteq [from : Nat, to : Nat]

VARIABLES
    reader,      \* "extension" or "headless"
    page,        \* number of the page
    attempt,     \* attempts made
    answers,     \* what each attempt was answered
    reply        \* what the collector gets; its outcome is "pending" before

extractionVars == <<reader, page, attempt, answers, reply>>

-----------------------------------------------------------------------------
(* parseDocument *)

Tagged(cards, match) == [i \in DOMAIN cards |-> [card |-> cards[i], matchType |-> match]]

\* Both tiers, exact first; all cards of a page without tiers count as exact.
CardEntries(doc) ==
    LET tiers == Tagged(doc.exact, "exact") \o Tagged(doc.surrounding, "surrounding")
    IN IF tiers = <<>> THEN Tagged(doc.loose, "exact") ELSE tiers

\* The ordinal is that of the card on the page, unusable ones included; or that
\* among the records.
OrdinalOfRecord(entries, i) == Len(SelectSeq(SubSeq(entries, 1, i), LAMBDA e : e.card.usable))
Ordinal(entries, i) == i

\* A sequence filtered: what it has at some positions, in their order.
Before(I, i) == {j \in I : j < i}
Nth(I, k) == CHOOSE i \in I : Cardinality(Before(I, i)) = k - 1
ElementsAt(s, I) == [k \in 1..Cardinality(I) |-> s[Nth(I, k)]]

ParseCards(entries) ==
    LET parsed == [i \in DOMAIN entries |->
                      [ordinal |-> Ordinal(entries, i), matchType |-> entries[i].matchType,
                       sold |-> entries[i].card.sold]]
    IN ElementsAt(parsed, {i \in DOMAIN entries : entries[i].card.usable})

\* The first positive number, pattern by pattern within a text; the elements
\* that usually hold it before the text of the whole page.
CountIn(text) ==
    LET hits == SelectSeq(text, LAMBDA n : n # None /\ n > 0)
    IN IF hits = <<>> THEN None ELSE Head(hits)

ParseTotalResults(doc) ==
    LET counts == [i \in DOMAIN doc.texts |-> CountIn(doc.texts[i])]
        found == SelectSeq(counts, LAMBDA n : n # None)
    IN IF found = <<>> THEN None ELSE Head(found)

ParseDocument(doc) ==
    LET records == ParseCards(CardEntries(doc))
    IN [outcome |-> "parsed", records |-> records, empty |-> records = <<>>,
        total |-> IF page = 1 THEN ParseTotalResults(doc) ELSE None]

\* An answer without records, which does not look like an empty page.
Bare(outcome) == [outcome |-> outcome, records |-> <<>>, empty |-> FALSE, total |-> None]

-----------------------------------------------------------------------------
(* Fetching: the site answers each attempt with a document, 429, another     *)
(* error, a page that is too small, or a challenge in place of the results.  *)

ExtractionInit ==
    /\ reader \in {"extension", "headless"} /\ page \in 1..2
    /\ attempt = 0 /\ answers = <<>> /\ reply = Bare("pending")

Waiting == reply.outcome = "pending"
Answered(how) == attempt' = attempt + 1 /\ answers' = Append(answers, how)

\* fetchAndParse gives up after the last attempt.
GivesUp == attempt + 1 >= Retries

RateLimited ==
    /\ Waiting /\ Answered("limited")
    /\ reply' = Bare("limited")
    /\ UNCHANGED <<reader, page>>

\* The headless collector leaves retries to its own loop.
AttemptFails(how) ==
    /\ Waiting /\ Answered(how)
    /\ how = "small" => reader = "extension"
    /\ how = "challenge" => reader = "headless"
    /\ reply' = IF reader = "headless" \/ GivesUp THEN Bare("failed") ELSE reply
    /\ UNCHANGED <<reader, page>>

\* The headless collector takes a page without any card for a failure.
PageServed(doc) ==
    /\ Waiting /\ Answered(doc)
    /\ reply' = IF reader = "headless" /\ doc.exact \o doc.surrounding \o doc.loose = <<>>
                THEN Bare("failed") ELSE ParseDocument(doc)
    /\ UNCHANGED <<reader, page>>

-----------------------------------------------------------------------------
(* The collector's filter. *)

\* A record without a date is in no bounded range.
InDateRange(record, range) ==
    \/ range.from = 0 /\ range.to = 0
    \/ /\ record.sold # 0
       /\ range.from = 0 \/ record.sold >= range.from
       /\ range.to = 0 \/ record.sold <= range.to

Kept(range) ==
    ElementsAt(reply.records, {i \in DOMAIN reply.records : InDateRange(reply.records[i], range)})

ExtractionNext ==
    \/ RateLimited
    \/ \E how \in {"error", "small", "challenge"} : AttemptFails(how)
    \/ \E doc \in Documents : PageServed(doc)

ExtractionSpec == ExtractionInit /\ [][ExtractionNext]_extractionVars

-----------------------------------------------------------------------------
Parsed == reply.outcome = "parsed"
Served == answers[Len(answers)]

ExtractionTypeOK ==
    /\ attempt \in 0..Retries /\ Len(answers) = attempt
    /\ reply.outcome \in {"pending", "parsed", "limited", "failed"}
    /\ reply.records # <<>> => reply.outcome = "parsed"
    /\ reply.empty => reply.records = <<>>

\* A record names the card it was made of: the records are exactly the usable
\* cards of the page's tiers, in order, each once, whichever cards between
\* them were dropped, and only cards outside both tiers are taken without one.
RecordsNameTheirCards ==
    Parsed =>
        LET all == IF Served.exact \o Served.surrounding = <<>> THEN Served.loose
                   ELSE Served.exact \o Served.surrounding
        IN /\ {r.ordinal : r \in ToSet(reply.records)} = {i \in DOMAIN all : all[i].usable}
           /\ \A i, k \in DOMAIN reply.records :
                 i < k => reply.records[i].ordinal < reply.records[k].ordinal
           /\ \A r \in ToSet(reply.records) :
                 /\ r.sold = all[r.ordinal].sold
                 /\ r.matchType = "surrounding" <=>
                        Served.surrounding # <<>> /\ r.ordinal > Len(Served.exact)

\* A page is given up only after every attempt failed, and 429 is never asked
\* again within the page: the collector has to hear of it.
FailureIsFinal ==
    ~Waiting /\ reader = "extension" =>
        /\ reply.outcome = "failed" => attempt = Retries
        /\ \A i \in 1..(attempt - 1) : answers[i] \in {"error", "small"}

\* What a slice keeps of a page are exactly the records whose known date lies
\* within its bounds, so that slices cut at a date share no record and a record
\* without a date is kept by unbounded slices alone.
SlicesCutCleanly ==
    Parsed => \A a, b \in Ranges :
        a.to # 0 /\ b.from # 0 /\ a.to < b.from =>
            ToSet(Kept(a)) \cap ToSet(Kept(b)) = {}

\* A page's records are its cards in their order, cut by the date range without
\* gap or overlap, and a page that cannot be had is given up after all attempts.
ExtractionIsExact ==
    ExtractionTypeOK /\ RecordsNameTheirCards /\ FailureIsFinal /\ SlicesCutCleanly
=============================================================================
