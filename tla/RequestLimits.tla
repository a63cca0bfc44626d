---------------------------- MODULE RequestLimits ----------------------------
(* The hourly limits of app-db.ts and access-request-db.ts.  A request       *)
(* starts a transaction, counts the rows of its window and inserts its own.  *)
(* The AI and share limits do so behind an advisory lock; the sign-in and    *)
(* access-request limits do not.  now() is the start of the transaction,     *)
(* also for the one that has waited.                                         *)
EXTENDS Naturals, FiniteSets

CONSTANTS
    Callers,   \* requests at a time
    Payers,    \* users, visitors, addresses: what a limit is counted for
    PerPayer,  \* limit of one payer
    Overall,   \* limit of all of them, where the lock is taken
    Hour,      \* length of the window
    MaxTime    \* bound on the clock

ASSUME LimitsAssumption ==
    /\ {PerPayer, Overall, Hour, MaxTime} \subseteq Nat /\ PerPayer # 0
    /\ IsFiniteSet(Callers)

VARIABLES
    serial,  \* the limit counts behind the lock
    now,     \* the clock
    taken,   \* rows: payer, occurred_at, and a number among those of one moment
    caller   \* a request: pc, payer, and the start of its transaction

limitVars == <<serial, now, taken, caller>>

Times == 0..MaxTime
Resting == [pc |-> "idle", payer |-> {}, start |-> 0]

LimitsInit ==
    /\ serial \in BOOLEAN /\ now = 0
    /\ taken = {}
    /\ caller = [c \in Callers |-> Resting]

RowsIn(p, T) == {r \in taken : r.payer = p /\ r.at \in T}
RowsAt(p, T) == Cardinality(RowsIn(p, T))
RowsOfAll(T) == Cardinality({r \in taken : r.at \in T})

Ask(c, p) ==
    /\ caller[c].pc = "idle"
    /\ caller' = [caller EXCEPT ![c] = [pc |-> IF serial THEN "wait" ELSE "count",
                                        payer |-> {p}, start |-> now]]
    /\ UNCHANGED <<serial, now, taken>>

\* pg_advisory_xact_lock, held until the transaction ends.  The first form
\* takes no lock.
LockIgnored == TRUE
LockFree == \A c \in Callers : caller[c].pc \notin {"count", "insert"}

TakeLock(c) ==
    /\ caller[c].pc = "wait" /\ LockFree
    /\ caller' = [caller EXCEPT ![c].pc = "count"]
    /\ UNCHANGED <<serial, now, taken>>

\* Rows not older than an hour, those after the start of this transaction too.
Seen(c) == {t \in Times : t + Hour >= caller[c].start}

Within(c) ==
    /\ \A p \in caller[c].payer : RowsAt(p, Seen(c)) < PerPayer
    /\ serial => RowsOfAll(Seen(c)) < Overall

CountRecent(c) ==
    /\ caller[c].pc = "count"
    /\ caller' = [caller EXCEPT ![c] = IF Within(c) THEN [@ EXCEPT !.pc = "insert"] ELSE Resting]
    /\ UNCHANGED <<serial, now, taken>>

\* The row is there for others when the transaction commits.
InsertRow(c) ==
    /\ caller[c].pc = "insert"
    /\ \E p \in caller[c].payer :
          LET t == caller[c].start
          IN  taken' = taken \cup {[payer |-> p, at |-> t, nth |-> RowsAt(p, {t}) + 1]}
    /\ caller' = [caller EXCEPT ![c] = Resting]
    /\ UNCHANGED <<serial, now>>

\* The connection is lost: rolled back, unlocked.
CallerDies(c) ==
    /\ caller[c].pc # "idle"
    /\ caller' = [caller EXCEPT ![c] = Resting]
    /\ UNCHANGED <<serial, now, taken>>

TimePasses == now < MaxTime /\ now' = now + 1 /\ UNCHANGED <<serial, taken, caller>>

LimitsNext ==
    \/ \E c \in Callers : \/ \E p \in Payers : Ask(c, p)
                          \/ TakeLock(c) \/ CountRecent(c) \/ InsertRow(c) \/ CallerDies(c)
    \/ TimePasses

-----------------------------------------------------------------------------
HourFrom(t) == {s \in Times : t <= s /\ s <= t + Hour}

\* Behind the lock no hour, wherever it begins, has more rows of a payer or of
\* all payers than allowed, however long transactions wait for one another.
NoHourExceeds ==
    serial => \A t \in Times : /\ RowsOfAll(HourFrom(t)) <= Overall
                               /\ \A p \in Payers : RowsAt(p, HourFrom(t)) <= PerPayer

\* Without the lock an hour exceeds the limit by the other requests at most
\* that were under way when it was reached.
OvershootIsConcurrency ==
    \A t \in Times, p \in Payers :
        RowsAt(p, HourFrom(t)) + 1 <= PerPayer + Cardinality(Callers)

LimitsTypeOK ==
    /\ serial \in BOOLEAN /\ now \in Times
    /\ taken \subseteq [payer : Payers, at : Times, nth : Nat \ {0}]
    /\ caller \in [Callers -> [pc : {"idle", "wait", "count", "insert"},
                               payer : SUBSET Payers, start : 0..now]]
    /\ \A c \in Callers : caller[c].pc = "idle" <=> caller[c].payer = {}
    /\ serial => Cardinality({c \in Callers : caller[c].pc \in {"count", "insert"}}) <= 1

\* Every hour is bounded, with the lock by the limit itself.
HoursAreBounded == LimitsTypeOK /\ NoHourExceeds /\ OvershootIsConcurrency
=============================================================================
