---------------------------- MODULE MCDuckDiveRun ----------------------------
(* Small instances of DuckDiveRun: a source, a reformatted copy of it with   *)
(* the same canonical hash, and one that really differs.                     *)
EXTENDS DuckDiveRun, TLC

CONSTANTS r1, r2, w1, w2, source, respaced, edited

MCContent == {source, respaced, edited}
MCHash == (source :> "h1") @@ (respaced :> "h1") @@ (edited :> "h2")
MCSymmetry == Permutations(Runs) \cup Permutations(Writers)
=============================================================================
