---------------------------- MODULE SoldScraper -----------------------------
(* The service worker of the property-sales browser extension,              *)
(* rea-sold-scraper/background.js.  Dispatchers, one per tab or more, claim *)
(* jobs of a queue and read their result pages one by one; the popup, the   *)
(* alarm's watchdog, closed tabs and restarts of the worker interleave with *)
(* them at every await.  A page stands for the records found on it.         *)
(*                                                                          *)
(* The queue is kept in the order in which jobs were added: job 1 first.    *)
(* Every change of the queue is followed by saveState, so storage equals    *)
(* memory here, and only memory is lost with the worker.  A tab that nobody *)
(* refers to any more gives its identity to the next tab that is opened.    *)
EXTENDS Integers, FiniteSets

CONSTANTS
    NumJobs,        \* jobs the popup may add
    Last,           \* a job's result pages; the page after its last is empty
    Reporting,      \* the jobs whose first page reports the total
    NumTabs,        \* bound on tabs that something refers to
    Concurrency,    \* settings.concurrency, 1 or 2
    MaxDispatchers, \* bound on dispatchers at a time
    MaxCommands,    \* bound on the popup's commands other than ADD_JOB
    MaxTroubles     \* bound on failures, 429s, closed tabs, alarms, restarts

Jobs == 1..NumJobs
Longest == 2
Pages == 1..Longest
Tabs == 1..NumTabs
Dispatchers == 1..MaxDispatchers
Starters == 1..2            \* activations of startProcessing at a time
NoJob == 0
NoTab == 0

\* With two result pages a job ends before its third page without news, so
\* the stop after three of them (consecutiveDuplicatePages) never comes.
ASSUME ScraperAssumption ==
    /\ NumJobs \in Nat \ {0} /\ Last \in [Jobs -> Pages] /\ Reporting \subseteq Jobs
    /\ NumTabs \in Nat \ {0} /\ Concurrency \in {1, 2}
    /\ MaxDispatchers \in Nat \ {0}
    /\ MaxCommands \in Nat /\ MaxTroubles \in Nat

VARIABLES
    status, page, ceiling,  \* a job's status, currentPage, and whether
                            \* calculatedPageCeiling is set
    results,                \* results_<id> in storage: pages
    processing, paused,     \* state.processing, state.paused
    pool,                   \* tabPool: "out", "idle" or "busy"
    open,                   \* tabs of this worker that are open
    cooling, retired,       \* rl.cooldownUntil in the future; rl.retiredCount
    slot,                   \* requests let through in the budget interval
    disp,                   \* the dispatchers
    starter,                \* activations of startProcessing
    watchdog, closing,      \* runWatchdog in ensurePool; a STOP before closePool
    opening,                \* replacement tabs being opened
    boots,                  \* activations of resumeAfterRestart to come
    disturbed,              \* history: jobs reset while being worked on
    commands, troubles

queueVars == <<status, page, ceiling, results>>
runVars == <<processing, paused>>
tabVars == <<pool, open, retired>>
rateVars == <<cooling, slot>>
agentVars == <<starter, watchdog, closing, opening, boots>>
bounds == <<commands, troubles>>
vars == <<queueVars, runVars, tabVars, rateVars, disp, agentVars, disturbed, bounds>>

JobStatus == {"absent", "pending", "running", "complete", "error", "removed"}
DispState == {"off", "claim", "check", "cool", "slot", "due", "fetch", "backoff"}
\* by: the activation whose Promise.all waits for the dispatcher, 0 for none
Off == [pc |-> "off", tab |-> NoTab, job |-> NoJob, at |-> 0, recs |-> {}, by |-> 0]

Init ==
    /\ status = [j \in Jobs |-> "absent"]
    /\ page = [j \in Jobs |-> 0]
    /\ ceiling = [j \in Jobs |-> FALSE]
    /\ results = [j \in Jobs |-> {}]
    /\ processing = FALSE /\ paused = FALSE
    /\ pool = [t \in Tabs |-> "out"] /\ open = {} /\ retired = 0
    /\ cooling = FALSE /\ slot = 0
    /\ disp = [d \in Dispatchers |-> Off]
    /\ starter = [s \in Starters |-> "idle"]
    /\ watchdog = FALSE /\ closing = FALSE /\ opening = 0 /\ boots = 0
    /\ disturbed = {}
    /\ commands = 0 /\ troubles = 0

-----------------------------------------------------------------------------
Least(S) == CHOOSE x \in S : \A y \in S : x <= y
Pool == {t \in Tabs : pool[t] # "out"}
Idle == {t \in Tabs : pool[t] = "idle"}
Pending == {j \in Jobs : status[j] = "pending"}
Running == {j \in Jobs : status[j] = "running"}
Workers(j) == {d \in Dispatchers : disp[d].job = j}
Free == {d \in Dispatchers : disp[d].pc = "off"}
FreshTabs == {t \in Tabs \ (Pool \cup open) : \A d \in Dispatchers : disp[d].tab # t}

\* dispatchNextJob(tab) for each of the tabs, on the lowest free dispatchers.
Rank(x, S) == Cardinality({y \in S : y < x})
Dispatch(tabs, who) ==
    /\ Cardinality(tabs) <= Cardinality(Free)
    /\ disp' = [d \in Dispatchers |->
                  IF d \in Free /\ Rank(d, Free) < Cardinality(tabs)
                  THEN [Off EXCEPT !.pc = "claim", !.by = who,
                                   !.tab = CHOOSE t \in tabs : Rank(t, tabs) = Rank(d, Free)]
                  ELSE disp[d]]

\* Jobs put back to "pending" behind the backs of the dispatchers on them.
Reset(js) ==
    /\ status' = [j \in Jobs |-> IF j \in js THEN "pending" ELSE status[j]]
    /\ disturbed' = disturbed \cup js

Trouble == troubles < MaxTroubles /\ troubles' = troubles + 1 /\ UNCHANGED commands
Command == commands < MaxCommands /\ commands' = commands + 1 /\ UNCHANGED troubles

-----------------------------------------------------------------------------
(* startProcessing and the tab pool *)

\* START runs it unless processing; resumeAfterRestart runs it unconditionally.
StartProcessing ==
    \E s \in Starters :
        /\ starter[s] = "idle" /\ \A r \in 1..(s - 1) : starter[r] # "idle"
        /\ processing' = TRUE /\ paused' = FALSE /\ retired' = 0
        /\ starter' = [starter EXCEPT ![s] = "pool"]
        /\ pool' = [t \in Tabs |-> IF t \in open THEN pool[t] ELSE "out"]
        /\ UNCHANGED <<queueVars, open, rateVars, disp, watchdog, closing, opening, disturbed>>

Start == ~processing /\ Command /\ StartProcessing /\ UNCHANGED boots

\* One turn of ensurePool, for whoever is in it.
OpenPoolTab ==
    /\ watchdog \/ \E s \in Starters : starter[s] = "pool"
    /\ Cardinality(Pool) < Concurrency /\ FreshTabs # {}
    /\ pool' = [pool EXCEPT ![Least(FreshTabs)] = "idle"]
    /\ open' = open \cup {Least(FreshTabs)}
    /\ UNCHANGED <<queueVars, runVars, retired, rateVars, disp, agentVars, disturbed, bounds>>

PoolReady == Pool # {} /\ (Cardinality(Pool) >= Concurrency \/ FreshTabs = {})

DispatchAll ==
    \E s \in Starters :
        /\ starter[s] = "pool" /\ PoolReady
        /\ Dispatch(Pool, s)
        /\ starter' = [starter EXCEPT ![s] = "waiting"]
        /\ UNCHANGED <<queueVars, runVars, tabVars, rateVars, watchdog, closing, opening,
                       boots, disturbed, bounds>>

-----------------------------------------------------------------------------
(* dispatchNextJob and processJobOnTab.  A dispatcher keeps job, tab, page   *)
(* and records in locals; job objects removed from the queue stay detached. *)

SetStatus(j, s) ==
    status' = IF status[j] = "removed" THEN status ELSE [status EXCEPT ![j] = s]

\* tabPool.set(tabId, null): a tab that was taken out of the pool comes back.
ReleaseTab(d) == pool' = [pool EXCEPT ![disp[d].tab] = "idle"]
Goto(d, pc) == disp' = [disp EXCEPT ![d].pc = pc]
NextJob(d) == disp' = [disp EXCEPT ![d] = [Off EXCEPT !.pc = "claim", !.tab = disp[d].tab,
                                                       !.by = disp[d].by]]
StepOnly == UNCHANGED <<runVars, open, retired, agentVars, disturbed, bounds>>

Claim(d) ==
    /\ disp[d].pc = "claim" /\ processing /\ ~paused /\ Pending # {}
    /\ LET j == Least(Pending) IN
         /\ status' = [status EXCEPT ![j] = "running"]
         /\ disp' = [disp EXCEPT ![d].pc = "check", ![d].job = j, ![d].at = page[j] + 1,
                                 ![d].recs = results[j]]
    /\ pool' = [pool EXCEPT ![disp[d].tab] = "busy"]
    /\ UNCHANGED <<page, ceiling, results, rateVars>> /\ StepOnly

\* Variant: the run does not end.
LeaveRunning(d) ==
    /\ disp[d].pc = "claim" /\ (~processing \/ (~paused /\ Pending = {}))
    /\ disp' = [disp EXCEPT ![d] = Off]
    /\ pool' = [pool EXCEPT ![disp[d].tab] = IF @ = "out" THEN @ ELSE "idle"]
    /\ LET s == disp[d].by
           ends == s # 0 /\ \A e \in Dispatchers \ {d} : disp[e].by # s
       IN /\ processing' = processing
          /\ starter' = IF ends THEN [starter EXCEPT ![s] = "idle"] ELSE starter
    /\ UNCHANGED <<queueVars, paused, open, retired, rateVars, watchdog, closing, opening,
                   boots, disturbed, bounds>>

\* The loop ends; the last dispatcher of an activation also ends the run.
Leave(d) ==
    /\ disp[d].pc = "claim" /\ (~processing \/ (~paused /\ Pending = {}))
    /\ disp' = [disp EXCEPT ![d] = Off]
    /\ pool' = [pool EXCEPT ![disp[d].tab] = IF @ = "out" THEN @ ELSE "idle"]
    /\ LET s == disp[d].by
           ends == s # 0 /\ \A e \in Dispatchers \ {d} : disp[e].by # s
       IN /\ processing' = (processing /\ ~ends)
          /\ starter' = IF ends THEN [starter EXCEPT ![s] = "idle"] ELSE starter
    /\ UNCHANGED <<queueVars, paused, open, retired, rateVars, watchdog, closing, opening,
                   boots, disturbed, bounds>>

MaxPage(j) == IF ceiling[j] THEN Last[j] ELSE Last[j] + 1

\* Variant: the page in hand counts as read.
GiveBackPastPage(d) ==
    /\ SetStatus(disp[d].job, "pending")
    /\ page' = [page EXCEPT ![disp[d].job] = disp[d].at]
    /\ ReleaseTab(d) /\ NextJob(d)
    /\ UNCHANGED <<ceiling, results, rateVars>> /\ StepOnly

\* The job goes back to the queue, to be read again from this page.
GiveBack(d) ==
    /\ SetStatus(disp[d].job, "pending")
    /\ page' = [page EXCEPT ![disp[d].job] = disp[d].at - 1]
    /\ ReleaseTab(d) /\ NextJob(d)
    /\ UNCHANGED <<ceiling, results, rateVars>> /\ StepOnly

Finish(d) ==
    /\ SetStatus(disp[d].job, "complete")
    /\ results' = [results EXCEPT ![disp[d].job] = disp[d].recs]
    /\ ReleaseTab(d) /\ NextJob(d)
    /\ UNCHANGED <<page, ceiling, rateVars>> /\ StepOnly

CheckStop(d) ==
    /\ disp[d].pc = "check" /\ disp[d].at <= MaxPage(disp[d].job)
    /\ ~processing /\ GiveBack(d)

\* The page comes next, and the dispatcher is past the checks for a stop.
Proceeds(d) ==
    \/ disp[d].pc = "cool"
    \/ disp[d].pc = "check" /\ disp[d].at <= MaxPage(disp[d].job) /\ processing /\ ~paused

WaitForCooldown(d) ==
    /\ disp[d].pc = "check" /\ Proceeds(d) /\ cooling /\ Goto(d, "cool")
    /\ UNCHANGED <<queueVars, pool, rateVars>> /\ StepOnly

CheckDone(d) ==
    /\ disp[d].pc = "check" /\ disp[d].at > MaxPage(disp[d].job)
    /\ Finish(d)

TabGone(d) ==
    /\ Proceeds(d) /\ ~cooling /\ disp[d].tab \notin open
    /\ SetStatus(disp[d].job, "pending")
    /\ page' = [page EXCEPT ![disp[d].job] = disp[d].at - 1]
    /\ pool' = [pool EXCEPT ![disp[d].tab] = "out"]
    /\ NextJob(d)
    /\ UNCHANGED <<ceiling, results, rateVars>> /\ StepOnly

\* currentPage is stored before the page is fetched; then waitForRecordBudget
\* reads the end of the interval, sleeps until then, and sets it.
MarkPage(d) ==
    /\ Proceeds(d) /\ ~cooling /\ disp[d].tab \in open
    /\ page' = [page EXCEPT ![disp[d].job] = disp[d].at]
    /\ IF slot = 0 THEN slot' = 1 /\ Goto(d, "fetch")
                   ELSE slot' = slot /\ Goto(d, "slot")
    /\ UNCHANGED <<status, ceiling, results, pool, cooling>> /\ StepOnly

SlotPasses ==
    /\ slot > 0 /\ slot' = 0
    /\ disp' = [d \in Dispatchers |->
                  IF disp[d].pc = "slot" THEN [disp[d] EXCEPT !.pc = "due"] ELSE disp[d]]
    /\ UNCHANGED <<queueVars, pool, cooling>> /\ StepOnly

BudgetDue(d) ==
    /\ disp[d].pc = "due" /\ slot' = slot + 1 /\ Goto(d, "fetch")
    /\ UNCHANGED <<queueVars, pool, cooling>> /\ StepOnly

\* The content script is unreachable, answers with an error, or the page was
\* rate-limited maxPageRetries times: the job ends in "error".
FetchFails(d) ==
    /\ disp[d].pc = "fetch"
    /\ \/ disp[d].tab \notin open /\ UNCHANGED bounds
       \/ disp[d].tab \in open /\ Trouble
    /\ SetStatus(disp[d].job, "error") /\ ReleaseTab(d) /\ NextJob(d)
    /\ UNCHANGED <<page, ceiling, results, rateVars, runVars, open, retired, agentVars,
                   disturbed>>

\* 429: triggerGlobalCooldown, which may retire an idle tab, then the backoff.
RateLimited(d) ==
    /\ disp[d].pc = "fetch" /\ disp[d].tab \in open /\ Trouble
    /\ cooling' = TRUE
    /\ IF ~cooling /\ Cardinality(Pool) > 1 /\ retired < Concurrency - 1 /\ Idle # {}
       THEN \E t \in Idle :
              /\ pool' = [pool EXCEPT ![t] = "out"] /\ open' = open \ {t}
              /\ retired' = retired + 1
       ELSE UNCHANGED tabVars
    /\ Goto(d, "backoff")
    /\ UNCHANGED <<queueVars, runVars, slot, agentVars, disturbed>>

CooldownEnds ==
    /\ cooling /\ cooling' = FALSE
    /\ UNCHANGED <<queueVars, pool, slot, disp>> /\ StepOnly

BackoffStop(d) == disp[d].pc = "backoff" /\ ~processing /\ GiveBack(d)

\* The page is asked for again without another reservation in the budget.
BackoffEnds(d) ==
    /\ disp[d].pc = "backoff" /\ processing /\ ~cooling /\ Goto(d, "fetch")
    /\ UNCHANGED <<queueVars, pool, rateVars>> /\ StepOnly

FetchPage(d) ==
    /\ disp[d].pc = "fetch" /\ disp[d].tab \in open /\ disp[d].at <= Last[disp[d].job]
    /\ LET j == disp[d].job
           found == disp[d].recs \cup {disp[d].at}
       IN /\ results' = [results EXCEPT ![j] = found]
          /\ ceiling' = [ceiling EXCEPT ![j] = @ \/ (disp[d].at = 1 /\ j \in Reporting)]
          /\ disp' = [disp EXCEPT ![d].pc = "check", ![d].at = @ + 1, ![d].recs = found]
    /\ UNCHANGED <<status, page, pool, rateVars>> /\ StepOnly

FetchEmpty(d) ==
    disp[d].pc = "fetch" /\ disp[d].tab \in open /\ disp[d].at > Last[disp[d].job] /\ Finish(d)

DispatcherStep(d) ==
    \/ Claim(d) \/ Leave(d) \/ CheckStop(d) \/ CheckDone(d) \/ WaitForCooldown(d)
    \/ TabGone(d) \/ MarkPage(d) \/ BudgetDue(d)
    \/ FetchFails(d) \/ RateLimited(d) \/ BackoffStop(d) \/ BackoffEnds(d)
    \/ FetchPage(d) \/ FetchEmpty(d)

-----------------------------------------------------------------------------
(* The watchdog and closed tabs *)

\* No activity was stamped on the job for a while: every dispatcher on it is
\* in a request, or sits out a cooldown.
Stalled(j) == \A d \in Workers(j) : disp[d].pc = "fetch" \/ (disp[d].pc = "cool" /\ cooling)

\* The job's tab, if it is still in the pool, counts as idle from now on.
JobTabs(js) == {disp[d].tab : d \in {e \in Dispatchers : disp[e].job \in js}}

WatchdogFires ==
    /\ processing /\ ~paused /\ ~watchdog /\ Trouble
    /\ \E js \in SUBSET {j \in Running : Stalled(j)} :
         /\ Reset(js)
         /\ pool' = [t \in Tabs |->
                       IF t \notin open THEN "out"
                       ELSE IF t \in JobTabs(js) /\ pool[t] = "busy" THEN "idle" ELSE pool[t]]
    /\ watchdog' = TRUE
    /\ UNCHANGED <<page, ceiling, results, runVars, open, retired, rateVars, disp, starter,
                   closing, opening, boots>>

WatchdogDispatches ==
    /\ watchdog /\ PoolReady /\ watchdog' = FALSE
    /\ Dispatch(IF Pending = {} THEN {} ELSE Idle, 0)
    /\ UNCHANGED <<queueVars, runVars, tabVars, rateVars, starter, closing, opening, boots,
                   disturbed, bounds>>

TabJobs(tabs) == {j \in Running : \E d \in Workers(j) : disp[d].tab \in tabs}

TabClosed ==
    /\ Trouble
    /\ \E t \in open :
         /\ open' = open \ {t} /\ pool' = [pool EXCEPT ![t] = "out"]
         /\ Reset(IF pool[t] = "busy" THEN TabJobs({t}) ELSE {})
         /\ opening' = IF pool[t] # "out" /\ processing /\ ~paused THEN opening + 1 ELSE opening
    /\ UNCHANGED <<page, ceiling, results, runVars, retired, rateVars, disp, starter, watchdog,
                   closing, boots>>

Replace ==
    /\ opening > 0 /\ FreshTabs # {} /\ opening' = opening - 1
    /\ LET t == Least(FreshTabs) IN
         /\ pool' = [pool EXCEPT ![t] = "idle"] /\ open' = open \cup {t}
         /\ Dispatch({t}, 0)
    /\ UNCHANGED <<queueVars, runVars, retired, rateVars, starter, watchdog, closing, boots,
                   disturbed, bounds>>

-----------------------------------------------------------------------------
(* The popup *)

\* ADD_JOB of a slice that is not queued yet.
AddJob ==
    \E j \in Jobs :
        /\ status[j] = "absent" /\ \A i \in 1..(j - 1) : status[i] # "absent"
        /\ status' = [status EXCEPT ![j] = "pending"]
        /\ UNCHANGED <<page, ceiling, results, runVars, tabVars, rateVars, disp, agentVars,
                       disturbed, bounds>>

Stop ==
    /\ Command /\ ~closing /\ processing' = FALSE /\ paused' = FALSE /\ Reset(Running)
    /\ closing' = TRUE
    /\ UNCHANGED <<page, ceiling, results, tabVars, rateVars, disp, starter, watchdog, opening,
                   boots>>

\* The tabs' onRemoved listeners run while closePool closes them.
ClosePool ==
    /\ closing /\ closing' = FALSE
    /\ Reset(TabJobs({t \in Tabs : pool[t] = "busy"}))
    /\ opening' = IF processing /\ ~paused THEN opening + Cardinality(Pool \cap open) ELSE opening
    /\ open' = open \ Pool /\ pool' = [t \in Tabs |-> "out"]
    /\ UNCHANGED <<page, ceiling, results, runVars, retired, rateVars, disp, starter, watchdog,
                   boots, bounds>>

Pause ==
    /\ Command /\ paused' = TRUE
    /\ UNCHANGED <<queueVars, processing, tabVars, rateVars, disp, agentVars, disturbed>>

Resume ==
    /\ paused /\ paused' = FALSE
    /\ UNCHANGED <<queueVars, processing, tabVars, rateVars, disp, agentVars, disturbed, bounds>>

\* REMOVE_JOB, CLEAR_COMPLETE, CLEAR_PENDING
Remove(js) ==
    /\ Command /\ js # {}
    /\ status' = [j \in Jobs |-> IF j \in js THEN "removed" ELSE status[j]]
    /\ results' = [j \in Jobs |-> IF j \in js THEN {} ELSE results[j]]
    /\ UNCHANGED <<page, ceiling, runVars, tabVars, rateVars, disp, agentVars, disturbed>>

RemoveJob == \E j \in Jobs : status[j] \notin {"absent", "removed"} /\ Remove({j})
ClearComplete == Remove({j \in Jobs : status[j] = "complete"})
ClearPending == Remove(Pending)

-----------------------------------------------------------------------------
(* Restart of the worker: loadState, then resumeAfterRestart, once when the *)
(* module is loaded and once more when the browser itself started.          *)

\* Variant: loadState leaves running jobs alone.
RestartKeepsRunning ==
    /\ Trouble /\ Reset({})
    /\ processing' = FALSE /\ paused' = FALSE
    /\ pool' = [t \in Tabs |-> "out"] /\ open' = {} /\ slot' = 0
    /\ disp' = [d \in Dispatchers |-> Off]
    /\ starter' = [s \in Starters |-> "idle"]
    /\ watchdog' = FALSE /\ closing' = FALSE /\ opening' = 0
    /\ boots' \in {1, 2}
    /\ UNCHANGED <<page, ceiling, results, cooling, retired>>

Restart ==
    /\ Trouble /\ Reset(Running)
    /\ processing' = FALSE /\ paused' = FALSE
    /\ pool' = [t \in Tabs |-> "out"] /\ open' = {} /\ slot' = 0
    /\ disp' = [d \in Dispatchers |-> Off]
    /\ starter' = [s \in Starters |-> "idle"]
    /\ watchdog' = FALSE /\ closing' = FALSE /\ opening' = 0
    /\ boots' \in {1, 2}
    /\ UNCHANGED <<page, ceiling, results, cooling, retired>>

ResumeAfterRestart ==
    /\ boots > 0 /\ boots' = boots - 1 /\ UNCHANGED bounds
    /\ IF \E j \in Pending : page[j] > 0
       THEN StartProcessing
       ELSE UNCHANGED <<queueVars, runVars, tabVars, rateVars, disp, starter, watchdog, closing,
                        opening, disturbed>>

-----------------------------------------------------------------------------
System ==
    \/ OpenPoolTab \/ DispatchAll \/ WatchdogDispatches \/ Replace \/ ClosePool
    \/ SlotPasses \/ CooldownEnds \/ ResumeAfterRestart
    \/ \E d \in Dispatchers : DispatcherStep(d)
Environment ==
    \/ AddJob \/ Start \/ Stop \/ Pause \/ Resume \/ RemoveJob \/ ClearComplete
    \/ ClearPending \/ WatchdogFires \/ TabClosed \/ Restart

Next == System \/ Environment
Spec == Init /\ [][Next]_vars

\* Timers expire, tabs open and fetches answer: something goes on happening.
FairSpec == Spec /\ WF_vars(System)

-----------------------------------------------------------------------------
TypeOK ==
    /\ status \in [Jobs -> JobStatus] /\ page \in [Jobs -> 0..(Longest + 1)]
    /\ ceiling \in [Jobs -> BOOLEAN] /\ results \in [Jobs -> SUBSET Pages]
    /\ {processing, paused, cooling, watchdog, closing} \subseteq BOOLEAN
    /\ pool \in [Tabs -> {"out", "idle", "busy"}] /\ open \subseteq Tabs
    /\ retired \in 0..(Concurrency - 1) /\ slot \in 0..MaxDispatchers
    /\ disp \in [Dispatchers -> [pc : DispState, tab : Tabs \cup {NoTab},
                     job : Jobs \cup {NoJob}, at : 0..(Longest + 2), recs : SUBSET Pages,
                     by : Starters \cup {0}]]
    /\ starter \in [Starters -> {"idle", "pool", "waiting"}]
    /\ opening \in Nat /\ boots \in 0..2 /\ disturbed \subseteq Jobs
    /\ commands \in 0..MaxCommands /\ troubles \in 0..MaxTroubles

\* A running job of the queue has a dispatcher that will end or give back its
\* work: no mixture of stops, restarts and resets leaves a job running for ever.
RunningHasDispatcher == \A j \in Running : Workers(j) # {}

\* Two dispatchers read the same job only after something outside of them (a
\* STOP, the watchdog, a closed tab) put it back into the queue.
SharedOnlyAfterReset ==
    \A d, e \in Dispatchers :
        d # e /\ disp[d].job = disp[e].job /\ disp[d].job # NoJob => disp[d].job \in disturbed

\* A job that was never reset under its dispatcher is complete only with every
\* page, although it may have been stopped, paused, and started again.
UndisturbedIsWhole ==
    \A j \in Jobs : status[j] = "complete" /\ j \notin disturbed => results[j] = 1..Last[j]

\* A dispatcher whose tab was closed claims a job, gives it back and claims it
\* again for as long as the run lasts, and may keep the others from the job.
TabLost == \E d \in Dispatchers : disp[d].pc # "off" /\ disp[d].tab \notin open

\* Every run ends, unless it is paused or a dispatcher has lost its tab.
RunEnds == processing ~> (~processing \/ paused \/ TabLost)

\* A run that nothing disturbs collects each page of its jobs once, whoever
\* shares the queue.
RunsAreWhole == TypeOK /\ SharedOnlyAfterReset /\ UndisturbedIsWhole
=============================================================================
