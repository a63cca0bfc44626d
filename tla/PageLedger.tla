----------------------------- MODULE PageLedger -----------------------------
(* What a resumable page collection promises.  Every slice has a set of     *)
(* pages that hold wanted records, a durable set of stored pages and a mark *)
(* up to which the collection never looks back.  The mark moves one page at *)
(* a time and only over a page that is stored or holds nothing wanted; a    *)
(* collection may forget its mark, and may clear records and mark together, *)
(* but it never clears records below a mark it keeps.                       *)
EXTENDS Integers

CONSTANTS Slices, Pages

VARIABLES wanted, stored, mark

vars == <<wanted, stored, mark>>

Init ==
    /\ wanted \in [Slices -> SUBSET Pages]
    /\ stored = [s \in Slices |-> {}]
    /\ mark = [s \in Slices |-> 0]

Store(s, p) ==
    /\ p \in wanted[s]
    /\ stored' = [stored EXCEPT ![s] = @ \cup {p}]
    /\ UNCHANGED <<wanted, mark>>

Advance(s) ==
    /\ mark[s] + 1 \in Pages
    /\ mark[s] + 1 \in wanted[s] => mark[s] + 1 \in stored[s]
    /\ mark' = [mark EXCEPT ![s] = @ + 1]
    /\ UNCHANGED <<wanted, stored>>

Forget(s) ==
    /\ mark' = [mark EXCEPT ![s] = 0]
    /\ UNCHANGED <<wanted, stored>>

Clear(s) ==
    /\ stored' = [stored EXCEPT ![s] = {}]
    /\ mark' = [mark EXCEPT ![s] = 0]
    /\ UNCHANGED wanted

Next ==
    \E s \in Slices :
        \/ \E p \in Pages : Store(s, p)
        \/ Advance(s)
        \/ Forget(s)
        \/ Clear(s)

Spec == Init /\ [][Next]_vars
=============================================================================
