-------------------------- MODULE MCSoldCollector ---------------------------
(* The shapes of a slice worth telling apart: all pages wanted; a gap of    *)
(* two pages, and of three; no total shown; a page of invalid cards.        *)
EXTENDS SoldCollector

Shape(l, wanted, b, t) == [last |-> l, inRange |-> wanted, blank |-> b, shown |-> t]

AnyShapes == { Shape(3, {1, 2, 3}, 0, TRUE), Shape(4, {1, 4}, 0, TRUE),
               Shape(4, {4}, 0, TRUE), Shape(2, {1, 2}, 0, FALSE),
               Shape(4, {1, 3, 4}, 2, TRUE), Shape(4, {1, 3, 4}, 0, FALSE) }

=============================================================================
