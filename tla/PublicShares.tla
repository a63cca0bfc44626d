---------------------------- MODULE PublicShares -----------------------------
(* Public links to Dives: app.dive_share, the owner's routes, and the page   *)
(* of a link, which looks the link up, spends a unit of the hourly limit,    *)
(* has a session made for its visitor and then counts the view.              *)
EXTENDS Naturals, Sequences, FiniteSets

CONSTANTS
    Reports,    \* Dives of one workspace that may be published
    Visitors,   \* visitors at a time
    MaxShares,  \* bound on the links
    MaxVisits   \* bound on the sessions of a link

ASSUME SharesAssumption == MaxShares \in Nat /\ MaxVisits \in Nat /\ IsFiniteSet(Visitors)

VARIABLES
    shares,     \* rows, by number: dive, active, views
    sessions,   \* embed sessions made for each link
    visitor,    \* the page of a visitor: pc and link
    onTheWay    \* history: visitors past the look-up when a link was revoked,
                \* less those served since

sharesVars == <<shares, sessions, visitor, onTheWay>>

Links == 1..MaxShares
Away == [pc |-> "away", link |-> 0]

SharesInit ==
    /\ shares = <<>> /\ sessions = [i \in Links |-> 0]
    /\ visitor = [v \in Visitors |-> Away]
    /\ onTheWay = [i \in Links |-> {}]

ActiveShares(d) == {i \in DOMAIN shares : shares[i].dive = d /\ shares[i].active}

-----------------------------------------------------------------------------
(* The owner. *)

\* The insert meets the unique index of active links and updates the one that
\* is there.
Upserted(d) ==
    IF ActiveShares(d) = {} THEN Append(shares, [dive |-> d, active |-> TRUE, views |-> 0]) ELSE shares

CreateDiveShare(d) ==
    /\ ActiveShares(d) = {} => Len(shares) < MaxShares
    /\ shares' = Upserted(d)
    /\ UNCHANGED <<sessions, visitor, onTheWay>>

PastLookUp(i) == {v \in Visitors : visitor[v].link = i}

RevokeDiveShare(d) ==
    /\ shares' = [i \in DOMAIN shares |-> IF i \in ActiveShares(d) THEN [shares[i] EXCEPT !.active = FALSE]
                                                                   ELSE shares[i]]
    /\ onTheWay' = [i \in Links |-> IF i \in ActiveShares(d) THEN PastLookUp(i) ELSE onTheWay[i]]
    /\ UNCHANGED <<sessions, visitor>>

-----------------------------------------------------------------------------
(* SharedDivePage. *)

\* The first form finds revoked links too.
FoundAnyway(i) == i \in DOMAIN shares
Found(i) == i \in DOMAIN shares /\ shares[i].active

FindPublicDiveShare(v, i) ==
    /\ visitor[v].pc = "away" /\ Found(i)
    /\ visitor' = [visitor EXCEPT ![v] = [pc |-> "found", link |-> i]]
    /\ UNCHANGED <<shares, sessions, onTheWay>>

\* Within the limit, see RequestLimits; the session is made by MotherDuck.
CreateSession(v) ==
    LET i == visitor[v].link
    IN  /\ visitor[v].pc = "found" /\ sessions[i] < MaxVisits
        /\ sessions' = [sessions EXCEPT ![i] = @ + 1]
        /\ visitor' = [visitor EXCEPT ![v].pc = "session"]
        /\ UNCHANGED <<shares, onTheWay>>

\* Only views of active links count.
Viewed(row) == [row EXCEPT !.views = @ + 1]
Counts(row) == IF row.active THEN Viewed(row) ELSE row

RecordDiveShareView(v) ==
    LET i == visitor[v].link
    IN  /\ visitor[v].pc = "session"
        /\ shares' = [shares EXCEPT ![i] = Counts(@)]
        /\ visitor' = [visitor EXCEPT ![v] = Away]
        /\ onTheWay' = [onTheWay EXCEPT ![i] = @ \ {v}]
        /\ UNCHANGED sessions

\* The limit is reached, the session refused, or the visitor gone.
VisitEnds(v) ==
    /\ visitor[v].pc # "away"
    /\ visitor' = [visitor EXCEPT ![v] = Away]
    /\ onTheWay' = [onTheWay EXCEPT ![visitor[v].link] = @ \ {v}]
    /\ UNCHANGED <<shares, sessions>>

SharesNext ==
    \/ \E d \in Reports : CreateDiveShare(d) \/ RevokeDiveShare(d)
    \/ \E v \in Visitors :
          \/ \E i \in Links : FindPublicDiveShare(v, i)
          \/ CreateSession(v) \/ RecordDiveShareView(v) \/ VisitEnds(v)

-----------------------------------------------------------------------------
SharesTypeOK ==
    /\ shares \in Seq([dive : Reports, active : BOOLEAN, views : Nat]) /\ Len(shares) <= MaxShares
    /\ sessions \in [Links -> 0..MaxVisits]
    /\ visitor \in [Visitors -> [pc : {"away", "found", "session"}, link : 0..Len(shares)]]
    /\ onTheWay \in [Links -> SUBSET Visitors]
    /\ \A d \in Reports : Cardinality(ActiveShares(d)) <= 1

\* After a revocation only visitors that had looked the link up before are
\* still served: the link drains.
RevokedLinkDrains ==
    \A v \in Visitors : \A i \in DOMAIN shares :
        visitor[v].link = i /\ ~shares[i].active => v \in onTheWay[i]

\* A revoked link is never active again, and its views stand still whoever is
\* still being served.
RevokedLinkStands ==
    [][\A i \in DOMAIN shares : ~shares[i].active => shares'[i] = shares[i]]_sharesVars

\* No view is counted without a session of its own.
ViewsHaveSessions ==
    \A i \in DOMAIN shares :
        shares[i].views + Cardinality({v \in Visitors : visitor[v] = [pc |-> "session", link |-> i]}) <= sessions[i]

\* A Dive has one active link at most, a revoked one drains, and views are of
\* sessions.
LinksDrain == SharesTypeOK /\ RevokedLinkDrains /\ ViewsHaveSessions
=============================================================================
