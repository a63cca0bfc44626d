------------------------------- MODULE MCSales -------------------------------
(* Sold listings on their way from realestate.com.au to MotherDuck: the      *)
(* popup's choices, its view of the worker, the reading of a page, and the   *)
(* ingestion of the files.  Each part moves alone: no variable is in two.    *)
EXTENDS ScraperPopup, ScraperPanel, PageExtraction, PropertyIngestion

VARIABLE part

CONSTANTS h1, h2, k1, k2, k3, k4, l1, l2, p1, p2

allVars == <<part, popupVars, panelVars, extractionVars, ingestVars>>

\* Northbridge changes its postcode between the two files.
MCNorthbridge == [s |-> "WA", p |-> "6003", l |-> "Northbridge"]
MCHighgate == [s |-> "WA", p |-> "6003", l |-> "Highgate"]
MCDatasets == {{MCNorthbridge, MCHighgate}, {[MCNorthbridge EXCEPT !.p = "6000"]}}
MCSlice(l, f) == [suburb |-> l, state |-> "WA", postcode |-> "6003", type |-> "house", filters |-> f]
MCPlans == {<<MCSlice("Highgate", "plain"), MCSlice("Northbridge", "inverted")>>}

MCCards == [usable : BOOLEAN, sold : {0, 5}]
MCCardSeqs(n) == UNION {[1..k -> MCCards] : k \in 0..n}
MCTexts == {<<t>> : t \in [1..2 -> {None, 0, 25}]} \cup {<<<<None, None>>, <<26, 7>>>>, <<>>}
MCDocuments ==
    [exact : MCCardSeqs(2), surrounding : MCCardSeqs(1), loose : {<<>>, <<[usable |-> TRUE, sold |-> 4]>>},
     texts : {<<>>}]
    \cup [exact : {<<>>}, surrounding : {<<>>}, loose : {<<>>}, texts : MCTexts]
MCRanges == [from : {0, 4, 5}, to : {0, 4, 5}]

\* The second file repeats a row of the first, withholds the address of that
\* row's listing in another, and has another property for the other listing.
MCFiles == {1, 2}
MCRow(k, l, p, g) == [key |-> k, listing |-> l, property |-> p, grade |-> g]
MCRows ==
    [f \in MCFiles |->
        IF f = 1 THEN {MCRow(k1, l2, p1, 1), MCRow(k2, l1, p1, 2)}
        ELSE {MCRow(k2, l1, p1, 2), MCRow(k3, l2, p2, 1), MCRow(k4, l1, Withheld, 1)}]

\* Response handlers and loaders share their model values.
MCSymmetry == Permutations({h1, h2})

MCInit ==
    /\ part \in {"popup", "panel", "page", "ingestion"}
    /\ PopupInit /\ PanelInit /\ ExtractionInit /\ IngestInit
    /\ part # "popup" => stored = {}
    /\ part # "page" => reader = "headless" /\ page = 1

MCNext ==
    \/ part = "popup" /\ PopupNext /\ UNCHANGED <<part, panelVars, extractionVars, ingestVars>>
    \/ part = "panel" /\ PanelNext /\ UNCHANGED <<part, popupVars, extractionVars, ingestVars>>
    \/ part = "page" /\ ExtractionNext /\ UNCHANGED <<part, popupVars, panelVars, ingestVars>>
    \/ part = "ingestion" /\ IngestNext /\ UNCHANGED <<part, popupVars, panelVars, extractionVars>>

MCSpec == MCInit /\ [][MCNext]_allVars
=============================================================================
