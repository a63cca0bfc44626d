----------------------------- MODULE MCWorkspace -----------------------------
(* What surrounds a user's workspace: its Dives, the links of visitors, the  *)
(* Edit Lab and the hourly limits.  Each part moves alone.                   *)
EXTENDS WorkspaceDives, EditLab, RequestLimits, TLC

VARIABLE part

CONSTANTS x1, x2, x3, y1, y2, z1, z2

\* The parts share their model values, so that a swap is one of every part.
MCSymmetry == Permutations({x1, x2}) \cup Permutations({y1, y2}) \cup Permutations({z1, z2})

\* Links that are made in the Edit Lab.
MCLabLinks == 1

allVars == <<part, divesVars, sharesVars, labVars, limitVars>>

MCInit ==
    /\ part \in {"dives", "shares", "lab", "limits"}
    /\ DivesInit /\ SharesInit /\ LabInit /\ LimitsInit
    /\ part # "dives" => made = 0
    /\ part # "limits" => serial

MCNext ==
    \/ part = "dives" /\ DivesNext /\ UNCHANGED <<part, sharesVars, labVars, limitVars>>
    \/ part = "shares" /\ SharesNext /\ UNCHANGED <<part, divesVars, labVars, limitVars>>
    \/ /\ part = "lab" /\ LabNext /\ Len(shares') <= MCLabLinks
       /\ UNCHANGED <<part, divesVars, limitVars>>
    \/ part = "limits" /\ LimitsNext /\ UNCHANGED <<part, divesVars, sharesVars, labVars>>

MCSpec == MCInit /\ [][MCNext]_allVars
=============================================================================
