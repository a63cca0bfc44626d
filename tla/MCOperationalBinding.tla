------------------------- MODULE MCOperationalBinding -------------------------
(* TLC instance of OperationalBinding.                                      *)
EXTENDS OperationalBinding, TLC

CONSTANTS a1, a2, b1, b2, b3, q1, q2

MCActivators == {a1, a2}
MCBinders == {b1, b2, b3}
MCQueries == {q1, q2}
MCSymmetry == Permutations(MCActivators) \cup Permutations(MCBinders) \cup Permutations(MCQueries)
=============================================================================
