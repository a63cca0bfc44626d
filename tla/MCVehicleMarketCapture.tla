----------------------- MODULE MCVehicleMarketCapture -----------------------
(* Instances of VehicleMarketCapture for TLC. *)
EXTENDS VehicleMarketCapture

MCFourListings == 1..4
MCLastOutOfScope == {4}

\* Page 2 in trouble of every outcome, and a probe that is not answered well.
MCFaulty ==
    {<<"capture", 2, how>> : how \in {"malformed", "busy", "unstored", "silent"}}
    \cup {<<"consistency_probe", 1, how>> : how \in {"busy", "silent"}}
=============================================================================
