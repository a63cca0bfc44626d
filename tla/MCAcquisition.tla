---------------------------- MODULE MCAcquisition ----------------------------
(* The vehicle market's readers, the capture of the application and the      *)
(* exporting client, and the publication of a run.  One moves, the others    *)
(* stay in their initial states.                                             *)
EXTENDS VehicleMarketCapture, AutotraderClient, VehicleMarketPublication, TLC

VARIABLE part   \* the one that moves

CONSTANTS p1, p2

allVars == <<part, vars, clientVars, pubVars>>

MCTwoListings == 1..2
MCFourListings == 1..4
MCNone == {}
MCLastNameless == {4}
MCLimits == {1, 3}

\* Every request may stay without an answer or meet a busy source, to the last
\* attempt; other troubles take the same ways out.
MCFaultyEverywhere == {"capture", "consistency_probe"} \X (1..2) \X {"busy", "silent"}

\* A run of local pages, one of blobs, and one that may not be published.
MCVersions == 1..3
MCLocal == {1}
MCPublishable == {1, 2}

\* Publishers stay in their initial states while a reader moves, so the
\* symmetry merges no states that MCReadingEnds tells apart.
MCSymmetry == Permutations(Publishers)

MCInit ==
    /\ part \in {"capture", "client", "publication"}
    /\ Init /\ ClientInit /\ PubInit
    /\ part # "capture" => listed = {}
    /\ part # "client" => stock = {} /\ maxPages = 1

CaptureMoves == part = "capture" /\ CaptureStep /\ UNCHANGED <<part, clientVars, pubVars>>
ClientMoves == part = "client" /\ ClientStep /\ UNCHANGED <<part, vars, pubVars>>
ListingsChange == part = "capture" /\ SourceChanges /\ UNCHANGED <<part, clientVars, pubVars>>
StockMoves == part = "client" /\ StockChanges /\ UNCHANGED <<part, vars, pubVars>>
PublicationMoves == part = "publication" /\ PubNext /\ UNCHANGED <<part, vars, clientVars>>

MCNext == CaptureMoves \/ ClientMoves \/ ListingsChange \/ StockMoves \/ PublicationMoves

\* Requests are answered or aborted by their timer, so both readers go on.
MCSpec == MCInit /\ [][MCNext]_allVars /\ WF_allVars(CaptureMoves) /\ WF_allVars(ClientMoves)

\* Every capture of the application and every export of the client ends,
\* however the source answers and changes.
MCReadingEnds ==
    /\ part = "capture" => CaptureEnds
    /\ part = "client" => ExportEnds
=============================================================================
