---------------------------- MODULE MCSoldScraper ---------------------------
(* Two jobs, one of which reports its total, over two tabs. *)
EXTENDS SoldScraper

MCLast == <<1, 2>>
MCReporting == {2}
=============================================================================
