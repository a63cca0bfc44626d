--------------------------- MODULE SoldCollector ----------------------------
(* The unattended property-sales collector, rea-sold-scraper/headless.mjs.  *)
(* One process walks the slices of a plan in order.  Per slice the disk     *)
(* holds a state file (status, last page, total) and an append-only file of *)
(* records; the process may be killed between any two file operations and   *)
(* started again, with or without --restart true.                           *)
(*                                                                          *)
(* A page stands for the records found on it: records that several pages    *)
(* share, and a site that changes between two requests, are not modelled.   *)
EXTENDS Integers, FiniteSets

CONSTANTS
    NumSlices,    \* slices of the plan
    MaxPages,     \* --maxPages
    DupLimit,     \* consecutive pages without a new record that end a slice
    Shapes,       \* what the site may hold for a slice
    MaxKills, MaxRestarts   \* bounds on crashes and on --restart launches

Slices == 1..NumSlices
Pages == 1..MaxPages

(* Of a slice on the site: the pages it has, those with a record in the     *)
(* slice's date range, a page whose cards are all invalid (0: none), and    *)
(* whether page 1 shows a total.                                            *)
SiteShapes ==
    [last : Pages, inRange : SUBSET Pages, blank : 0..MaxPages, shown : BOOLEAN]

ASSUME CollectorAssumption ==
    /\ NumSlices \in Nat \ {0}
    /\ MaxPages \in Nat \ {0}
    /\ DupLimit \in Nat \ {0}
    /\ MaxKills \in Nat
    /\ MaxRestarts \in Nat
    /\ Shapes \subseteq {f \in SiteShapes : f.inRange \subseteq (1..f.last) \ {f.blank}}

SaveSteps == {"mark", "savePage", "complete", "pause"}
Steps == SaveSteps \cup {"load", "fetch", "append"}

VARIABLES
    site,       \* the shape of each slice
    status,     \* the state file: its status, "absent" or "corrupt"
    mark,       \* ... its page
    total,      \* ... whether it has a total
    recs,       \* the record file: copies of each page's records
    pc, cur, restart,       \* the process: its step, its slice, --restart
    at, seen, dups, known,  \* checkpoint.state.page, seen, consecutiveDuplicates,
                            \* state.totalResults
    exit,       \* how the last process ended
    damaged,    \* history: the state file was torn over kept records
    torn,       \* history: records cleared, the old mark not yet replaced
    stranded,   \* history: killed between the last page and "complete"
    kills, restarts

disk == <<status, mark, total, recs>>
memory == <<at, seen, dups, known>>
history == <<damaged, torn, stranded>>
vars == <<site, disk, pc, cur, restart, memory, exit, history, kills, restarts>>

Statuses == {"absent", "corrupt", "running", "paused", "complete"}

Init ==
    /\ site \in [Slices -> Shapes]
    /\ status = [s \in Slices |-> "absent"]
    /\ mark = [s \in Slices |-> 0]
    /\ total = [s \in Slices |-> FALSE]
    /\ recs = [s \in Slices |-> [p \in Pages |-> 0]]
    /\ pc = "idle" /\ cur = 1 /\ restart = FALSE
    /\ at = 0 /\ seen = {} /\ dups = 0 /\ known = FALSE
    /\ exit = "none" /\ kills = 0 /\ restarts = 0
    /\ damaged = {} /\ torn = {} /\ stranded = {}

-----------------------------------------------------------------------------
(* loadCheckpoint: any error reading the state file starts from page 0.     *)
Readable(s) == status[s] \notin {"absent", "corrupt"}

Stored(s) == {p \in Pages : recs[s][p] > 0}

Launch(again) ==
    /\ pc = "idle"
    /\ again => restarts < MaxRestarts
    /\ restarts' = IF again THEN restarts + 1 ELSE restarts
    /\ pc' = "load" /\ cur' = 1 /\ restart' = again /\ exit' = "none"
    /\ UNCHANGED <<site, disk, memory, history, kills>>

StartsAtZero == at' = 0 /\ known' = FALSE /\ seen' = {} /\ dups' = 0

(* The process ends, and its memory with it.                                *)
Exits(how) ==
    pc' = "idle" /\ exit' = how /\ cur' = 1 /\ restart' = FALSE /\ StartsAtZero

(* The next slice, or the end of the plan with exit code 0.                 *)
NextSlice ==
    IF cur = NumSlices
    THEN Exits("ok")
    ELSE pc' = "load" /\ cur' = cur + 1 /\ StartsAtZero /\ UNCHANGED <<exit, restart>>

\* What the loader tells a finished slice by.
Finished == status[cur] = "complete"

LoadSkips ==
    /\ pc = "load" /\ Readable(cur) /\ ~restart /\ Finished
    /\ NextSlice
    /\ UNCHANGED <<site, disk, history, kills, restarts>>

\* The keys of the records read back; a resumption that forgets them.
NothingSeen == {}
SeenAtResume == Stored(cur)

LoadResumes ==
    /\ pc = "load" /\ Readable(cur) /\ ~restart /\ ~Finished
    /\ pc' = "mark"
    /\ at' = mark[cur] /\ known' = total[cur]
    /\ seen' = SeenAtResume /\ dups' = 0
    /\ UNCHANGED <<site, disk, cur, restart, exit, history, kills, restarts>>

LoadTruncates ==
    /\ pc = "load" /\ Readable(cur) /\ restart
    /\ pc' = "mark"
    /\ recs' = [recs EXCEPT ![cur] = [p \in Pages |-> 0]]
    /\ torn' = torn \cup {cur}
    /\ damaged' = damaged \ {cur}
    /\ StartsAtZero
    /\ UNCHANGED <<site, status, mark, total, cur, restart, exit, stranded, kills, restarts>>

LoadFresh ==
    /\ pc = "load" /\ ~Readable(cur)
    /\ pc' = "mark"
    /\ StartsAtZero
    /\ UNCHANGED <<site, disk, cur, restart, exit, history, kills, restarts>>

SaveState(st, page, tot) ==
    /\ status' = [status EXCEPT ![cur] = st]
    /\ mark' = [mark EXCEPT ![cur] = page]
    /\ total' = [total EXCEPT ![cur] = tot]
    /\ UNCHANGED recs

\* The loop's condition.
MorePages == at < MaxPages

MarkRunning ==
    /\ pc = "mark"
    /\ SaveState("running", at, known)
    /\ torn' = IF at = 0 THEN torn \ {cur} ELSE torn
    /\ stranded' = IF at = 0 THEN stranded \ {cur} ELSE stranded
    /\ pc' = IF MorePages THEN "fetch" ELSE "complete"
    /\ UNCHANGED <<site, cur, restart, memory, exit, damaged, kills, restarts>>

FetchPage ==
    LET p == at + 1 IN
    /\ pc = "fetch" /\ p <= site[cur].last
    /\ known' = (known \/ (p = 1 /\ site[cur].shown))
    /\ IF p \in site[cur].inRange \ seen
       THEN pc' = "append" /\ seen' = seen \cup {p} /\ dups' = 0
       ELSE pc' = "savePage" /\ dups' = dups + 1 /\ UNCHANGED seen
    /\ UNCHANGED <<site, disk, cur, restart, at, exit, history, kills, restarts>>

\* Where a page that cannot be had leads: the pause, or the next page.
SwallowFailure == "savePage"
AfterFailure == "pause"

(* The retries are spent: an HTTP error, a 429 that persists, a challenge,  *)
(* or a page without cards, which is what a page past the last one shows.   *)
FetchFails ==
    /\ pc = "fetch"
    /\ pc' = AfterFailure
    /\ UNCHANGED <<site, disk, cur, restart, memory, exit, history, kills, restarts>>

AppendRecords ==
    /\ pc = "append"
    /\ recs' = [recs EXCEPT ![cur][at + 1] = recs[cur][at + 1] + 1]
    /\ pc' = "savePage"
    /\ UNCHANGED <<site, status, mark, total, cur, restart, memory, exit>>
    /\ UNCHANGED <<history, kills, restarts>>

\* The conditions that end a slice; without the ceiling.
LastPageUnbounded(p) ==
    \/ p = site[cur].blank
    \/ dups >= DupLimit
    \/ p = MaxPages
LastPage(p) ==
    \/ p = site[cur].blank
    \/ dups >= DupLimit
    \/ known /\ p >= site[cur].last
    \/ p = MaxPages

SavePage ==
    /\ pc = "savePage"
    /\ SaveState("running", at + 1, known)
    /\ at' = at + 1
    /\ pc' = IF LastPage(at + 1) THEN "complete" ELSE "fetch"
    /\ UNCHANGED <<site, cur, restart, seen, dups, known, exit, history, kills, restarts>>

CompleteSlice ==
    /\ pc = "complete"
    /\ SaveState("complete", at, known)
    /\ NextSlice
    /\ UNCHANGED <<site, history, kills, restarts>>

\* process.exitCode = 1, and a failure that does not set it.
SilentExit == "ok"
ErrorExit == "error"

PauseSlice ==
    /\ pc = "pause"
    /\ SaveState("paused", at, known)
    /\ Exits(ErrorExit)
    /\ UNCHANGED <<site, history, kills, restarts>>

Dies == Exits("killed") /\ kills < MaxKills /\ kills' = kills + 1

Kill ==
    /\ pc \in Steps
    /\ Dies
    /\ stranded' = IF pc = "complete" /\ at < MaxPages THEN stranded \cup {cur} ELSE stranded
    /\ UNCHANGED <<site, disk, damaged, torn, restarts>>

(* writeFile truncates before it writes: a kill in between leaves a state   *)
(* file that does not parse.                                                *)
KillDuringSave ==
    /\ pc \in SaveSteps
    /\ Dies
    /\ SaveState("corrupt", 0, FALSE)
    /\ damaged' = damaged \cup {cur}
    /\ torn' = torn \ {cur}
    /\ UNCHANGED <<site, stranded, restarts>>

Collect ==
    \/ LoadSkips \/ LoadResumes \/ LoadTruncates \/ LoadFresh \/ MarkRunning
    \/ FetchPage \/ FetchFails \/ AppendRecords \/ SavePage \/ CompleteSlice
    \/ PauseSlice

Next ==
    \/ \E again \in BOOLEAN : Launch(again)
    \/ Collect \/ Kill \/ KillDuringSave

Spec == Init /\ [][Next]_vars

(* A running process keeps running: every await settles, fetches after a    *)
(* bounded number of retries.  The operator launches the plan again when it *)
(* has stopped, and a page that exists is answered in the end.              *)
FairSpec ==
    /\ Spec
    /\ WF_vars(Collect)
    /\ WF_vars(Launch(FALSE))
    /\ SF_vars(FetchPage)

-----------------------------------------------------------------------------
DiskType ==
    /\ site \in [Slices -> Shapes]
    /\ status \in [Slices -> Statuses]
    /\ mark \in [Slices -> 0..MaxPages]
    /\ total \in [Slices -> BOOLEAN]
    /\ recs \in [Slices -> [Pages -> Nat]]

ProcessType ==
    /\ pc \in Steps \cup {"idle"}
    /\ cur \in Slices
    /\ at \in 0..MaxPages
    /\ pc \in {"fetch", "append", "savePage"} => at < MaxPages
    /\ seen \subseteq Pages
    /\ dups \in Nat
    /\ exit \in {"none", "ok", "error", "killed"}

FlagType == restart \in BOOLEAN /\ known \in BOOLEAN

HistoryType ==
    /\ damaged \subseteq Slices /\ torn \subseteq Slices /\ stranded \subseteq Slices
    /\ kills \in 0..MaxKills
    /\ restarts \in 0..MaxRestarts

TypeOK == DiskType /\ ProcessType /\ FlagType /\ HistoryType

(* A checkpoint is never ahead of its records, whenever the process is      *)
(* killed: every wanted page up to the mark is in the record file (append   *)
(* before saveState).  The one exception is a slice that --restart cleared  *)
(* and whose old mark a kill left behind.                                   *)
CheckpointBacked ==
    \A s \in Slices \ torn :
        Readable(s) => \A p \in site[s].inRange : p <= mark[s] => recs[s][p] > 0

(* Resuming never stores a record twice, unless the state file was torn and *)
(* the slice started again over the records it kept.                        *)
OneCopyUnlessDamaged ==
    \A s \in Slices \ damaged : \A p \in Pages : recs[s][p] <= 1

(* A page the collector may never reach: behind a page whose cards are all  *)
(* invalid, or behind so many filtered pages that, with one page repeated   *)
(* after a kill, they end the slice.                                        *)
Unreached(s, p) ==
    \/ site[s].blank \in 1..(p - 1)
    \/ \E q \in 1..(p - DupLimit + 1) :
           \A g \in q..(q + DupLimit - 2) : g \notin site[s].inRange

(* Exit code 0 means that the disk holds every slice of the plan complete.  *)
CleanExitIsComplete ==
    exit = "ok" => \A s \in Slices : status[s] = "complete"

Completable(s) == site[s].shown \/ site[s].blank # 0 \/ site[s].last = MaxPages

(* Launched again and again, the collector completes the plan after the     *)
(* last crash, unless a kill stranded a slice behind its last page, where   *)
(* every later run asks for a page the site does not have.                  *)
CollectionCompletes ==
    (\A s \in Slices : Completable(s)) =>
        <>[](stranded # {} \/ \A s \in Slices : status[s] = "complete")

(* The collector implements the page ledger; a mark that cannot be read, or *)
(* whose records --restart cleared, counts as 0.                            *)
Ledger == INSTANCE PageLedger WITH
    wanted <- [s \in Slices |-> site[s].inRange],
    stored <- [s \in Slices |-> Stored(s)],
    mark <- [s \in Slices |-> IF Readable(s) /\ s \notin torn THEN mark[s] ELSE 0]

LedgerSpec == Ledger!Spec
=============================================================================
