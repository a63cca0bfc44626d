--------------------------- MODULE MCDuckDiveTools ---------------------------
(* TLC instances of DuckDiveTools: a handful of calls over a few steps.     *)
EXTENDS DuckDiveTools, TLC

CONSTANTS c1, c2, c3, c4, c5

MCCalls == {c1, c2, c3, c4, c5}
MCSymmetry == Permutations(MCCalls)
=============================================================================
