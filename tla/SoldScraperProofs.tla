------------------------- MODULE SoldScraperProofs --------------------------
(* Proofs about the worker of the property-sales browser extension, for any *)
(* number of jobs, tabs and dispatchers and any commands and troubles.      *)
EXTENDS SoldScraper, FiniteSetTheorems, WellFoundedInduction, TLAPS

-----------------------------------------------------------------------------
(* Numbers and sets of numbers. *)

LEMMA ConstantTypes ==
    /\ NumJobs \in Nat \ {0} /\ Last \in [Jobs -> Pages] /\ Reporting \subseteq Jobs
    /\ NumTabs \in Nat \ {0} /\ Concurrency \in {1, 2} /\ MaxDispatchers \in Nat \ {0}
    /\ MaxCommands \in Nat /\ MaxTroubles \in Nat
  BY ScraperAssumption

LEMMA Ranges ==
    /\ Jobs \subseteq Nat /\ NoJob \notin Jobs /\ Tabs \subseteq Nat /\ Dispatchers \subseteq Nat
    /\ Pages = 1..2 /\ \A j \in Jobs : Last[j] \in 1..2
    /\ IsFiniteSet(Dispatchers) /\ Cardinality(Dispatchers) = MaxDispatchers
    /\ IsFiniteSet(Tabs)
  BY ConstantTypes, FS_Interval DEF Jobs, NoJob, Tabs, Dispatchers, Pages, Longest

\* Least returns the least number of a set.
LEMMA LeastIsLeast ==
    ASSUME NEW S \in SUBSET Nat, S # {}
    PROVE  Least(S) \in S /\ \A y \in S : Least(S) <= y
  <1>1. IsWellFoundedOn(OpToRel(<, Nat), Nat)
    BY NatLessThanWellFounded
  <1>2. PICK x \in S : \A y \in S : ~ (<<y, x>> \in OpToRel(<, Nat))
    BY <1>1, WFMin
  <1>3. \A y \in S : ~ (y < x)
    BY <1>2 DEF OpToRel
  <1>4. \A y \in S : x <= y
    BY <1>3
  <1> QED
    BY <1>4 DEF Least

\* Ranks number the elements of a finite set of numbers from 0.
LEMMA RanksNumber ==
    ASSUME NEW S \in SUBSET Nat, IsFiniteSet(S), NEW k \in Nat, k < Cardinality(S)
    PROVE  \E x \in S : Rank(x, S) = k
  <1> DEFINE n == Cardinality(S)
             below(x) == {y \in S : y < x}
             f == [x \in S |-> Rank(x, S)]
  <1>1. n \in Nat
    BY FS_CardinalityType
  <1>2. \A x \in S : Rank(x, S) \in 0..(n - 1)
    <2> SUFFICES ASSUME NEW x \in S PROVE Rank(x, S) \in 0..(n - 1)
      OBVIOUS
    <2>1. IsFiniteSet(below(x)) /\ Cardinality(below(x)) \in Nat
          /\ Cardinality(below(x)) <= n /\ below(x) # S
      BY FS_Subset, FS_CardinalityType
    <2>2. Cardinality(below(x)) # n
      BY <2>1, FS_Subset
    <2> QED
      BY <1>1, <2>1, <2>2 DEF Rank
  <1>3. \A x, y \in S : x < y => Rank(x, S) < Rank(y, S)
    <2> SUFFICES ASSUME NEW x \in S, NEW y \in S, x < y PROVE Rank(x, S) < Rank(y, S)
      OBVIOUS
    <2>a. below(y) \in SUBSET S /\ below(x) \in SUBSET S
      OBVIOUS
    <2>b. x \in below(y) /\ x \notin below(x) /\ x \in Nat /\ y \in Nat
      OBVIOUS
    <2>c. below(x) \subseteq below(y)
      <3> SUFFICES ASSUME NEW z \in S, z < x PROVE z < y
        OBVIOUS
      <3> QED
        BY <2>b, z \in Nat
    <2>1. IsFiniteSet(below(y)) /\ below(x) \subseteq below(y) /\ below(x) # below(y)
      <3> HIDE DEF below
      <3> QED
        BY <2>a, <2>b, <2>c, FS_Subset
    <2>2. /\ Cardinality(below(x)) \in Nat /\ Cardinality(below(y)) \in Nat
          /\ Cardinality(below(x)) <= Cardinality(below(y))
          /\ Cardinality(below(x)) # Cardinality(below(y))
      BY <2>1, FS_Subset, FS_CardinalityType
    <2> QED
      BY <2>2 DEF Rank
  <1>4. f \in Injection(S, 0..(n - 1))
    <2>1. f \in [S -> 0..(n - 1)]
      BY <1>2
    <2>2. \A x, y \in S : f[x] = f[y] => x = y
      <3> SUFFICES ASSUME NEW x \in S, NEW y \in S, Rank(x, S) = Rank(y, S) PROVE x = y
        OBVIOUS
      <3>1. Rank(x, S) \in Int /\ x \in Nat /\ y \in Nat
        BY <1>2
      <3>2. ~(x < y) /\ ~(y < x)
        BY <1>3, <3>1
      <3> QED
        BY <3>1, <3>2
    <2> QED
      BY <2>1, <2>2 DEF Injection, IsInjective
  <1>5. IsFiniteSet(0..(n - 1)) /\ Cardinality(0..(n - 1)) = n
    <2>1. 0 \in Int /\ n - 1 \in Int /\ n >= 0
      BY <1>1
    <2> HIDE DEF n
    <2>2. IsFiniteSet(0..(n - 1))
          /\ Cardinality(0..(n - 1)) = (IF 0 > n - 1 THEN 0 ELSE (n - 1) - 0 + 1)
      BY <2>1, FS_Interval
    <2> QED
      BY <1>1, <2>1, <2>2
  <1>6. f \in Surjection(S, 0..(n - 1))
    BY <1>4, <1>5, FS_Injection
  <1>7. k \in 0..(n - 1)
    BY <1>1
  <1> QED
    BY <1>6, <1>7 DEF Surjection

\* The names of a run's jobs are numbers, and the first pending one is pending.
LEMMA FirstPending ==
    ASSUME Pending # {}
    PROVE  Least(Pending) \in Pending /\ Least(Pending) \in Jobs
  <1>1. Pending \in SUBSET Nat
    BY Ranges DEF Pending
  <1> QED
    BY <1>1, LeastIsLeast DEF Pending

-----------------------------------------------------------------------------
(* Types: the parts of TypeOK, and what is known besides of a dispatcher's   *)
(* job and page and of the slots let through in a budget interval.           *)

QueueTyped ==
    /\ status \in [Jobs -> JobStatus] /\ page \in [Jobs -> 0..3]
    /\ ceiling \in [Jobs -> BOOLEAN] /\ results \in [Jobs -> SUBSET Pages]
FlagsTyped == {processing, paused, cooling, watchdog, closing} \subseteq BOOLEAN
TabsTyped ==
    /\ pool \in [Tabs -> {"out", "idle", "busy"}] /\ open \subseteq Tabs
    /\ retired \in 0..(Concurrency - 1)
Dispatcher ==
    [pc : DispState, tab : Tabs \cup {NoTab}, job : Jobs \cup {NoJob}, at : 0..4,
     recs : SUBSET Pages, by : Starters \cup {0}]
DispTyped == disp \in [Dispatchers -> Dispatcher]
SlotTyped == slot \in 0..MaxDispatchers
AgentsTyped ==
    /\ starter \in [Starters -> {"idle", "pool", "waiting"}]
    /\ opening \in Nat /\ boots \in 0..2
HistoryTyped ==
    /\ disturbed \subseteq Jobs
    /\ commands \in 0..MaxCommands /\ troubles \in 0..MaxTroubles

LEMMA TypeParts ==
    TypeOK <=> /\ QueueTyped /\ FlagsTyped /\ TabsTyped /\ DispTyped
               /\ SlotTyped /\ AgentsTyped /\ HistoryTyped
  BY DEF TypeOK, QueueTyped, FlagsTyped, TabsTyped, DispTyped, Dispatcher, SlotTyped,
         AgentsTyped, HistoryTyped, Longest

\* A dispatcher has a job while it works, and asks for no page beyond the one
\* after the job's last.
Sound(w) ==
    /\ w.job = NoJob <=> w.pc \in {"off", "claim"}
    /\ w.job # NoJob => w.at >= 1
    /\ w.pc \in {"cool", "slot", "due", "fetch", "backoff"} => w.at <= Last[w.job] + 1

DispatchersSound == \A d \in Dispatchers : Sound(disp[d])

Due == {d \in Dispatchers : disp[d].pc = "due"}

\* The dispatchers whose interval is over may all be let through at once.
BudgetKept == slot + Cardinality(Due) <= MaxDispatchers

TypeInv == TypeOK /\ DispatchersSound /\ BudgetKept

LEMMA InitTyped == Init => TypeInv
  <1> SUFFICES ASSUME Init PROVE TypeInv
    OBVIOUS
  <1> USE DEF Init
  <1>1. QueueTyped
    BY DEF QueueTyped, JobStatus
  <1>2. FlagsTyped
    BY Zenon DEF FlagsTyped
  <1>3. TabsTyped /\ SlotTyped /\ AgentsTyped /\ HistoryTyped
    BY ConstantTypes DEF TabsTyped, SlotTyped, AgentsTyped, HistoryTyped
  <1>4. DispTyped
    BY DEF DispTyped, Dispatcher, Off, DispState
  <1>5. DispatchersSound
    BY DEF DispatchersSound, Sound, Off
  <1>6. BudgetKept
    <2>1. Due = {}
      BY DEF Due, Off
    <2> QED
      BY <2>1, FS_EmptySet, ConstantTypes DEF BudgetKept
  <1> QED
    BY <1>1, <1>2, <1>3, <1>4, <1>5, <1>6, TypeParts DEF TypeInv
\* Every step leaves the flags Boolean.
LEMMA FlagsKept == FlagsTyped /\ [Next]_vars => FlagsTyped'
  <1> SUFFICES ASSUME FlagsTyped, [Next]_vars PROVE FlagsTyped'
    OBVIOUS
  <1> USE DEF FlagsTyped
  <1>1. CASE OpenPoolTab
    BY <1>1, Zenon DEF OpenPoolTab, StepOnly, runVars, rateVars, agentVars
  <1>2. CASE DispatchAll
    BY <1>2, Zenon DEF DispatchAll, StepOnly, runVars, rateVars, agentVars
  <1>3. CASE WatchdogDispatches
    BY <1>3, Zenon DEF WatchdogDispatches, StepOnly, runVars, rateVars, agentVars
  <1>4. CASE Replace
    BY <1>4, Zenon DEF Replace, StepOnly, runVars, rateVars, agentVars
  <1>5. CASE ClosePool
    BY <1>5, Zenon DEF ClosePool, StepOnly, runVars, rateVars, agentVars
  <1>6. CASE SlotPasses
    BY <1>6, Zenon DEF SlotPasses, StepOnly, runVars, rateVars, agentVars
  <1>7. CASE CooldownEnds
    BY <1>7, Zenon DEF CooldownEnds, StepOnly, runVars, rateVars, agentVars
  <1>8. CASE ResumeAfterRestart
    BY <1>8, Zenon DEF ResumeAfterRestart, StartProcessing, StepOnly, runVars, rateVars, agentVars
  <1>9. CASE AddJob
    BY <1>9, Zenon DEF AddJob, StepOnly, runVars, rateVars, agentVars
  <1>10. CASE Start
    BY <1>10, Zenon DEF Start, StartProcessing, StepOnly, runVars, rateVars, agentVars
  <1>11. CASE Stop
    BY <1>11, Zenon DEF Stop, StepOnly, runVars, rateVars, agentVars
  <1>12. CASE Pause
    BY <1>12, Zenon DEF Pause, StepOnly, runVars, rateVars, agentVars
  <1>13. CASE Resume
    BY <1>13, Zenon DEF Resume, StepOnly, runVars, rateVars, agentVars
  <1>14. CASE RemoveJob
    BY <1>14, Zenon DEF RemoveJob, Remove, StepOnly, runVars, rateVars, agentVars
  <1>15. CASE ClearComplete
    BY <1>15, Zenon DEF ClearComplete, Remove, StepOnly, runVars, rateVars, agentVars
  <1>16. CASE ClearPending
    BY <1>16, Zenon DEF ClearPending, Remove, StepOnly, runVars, rateVars, agentVars
  <1>17. CASE WatchdogFires
    BY <1>17, Zenon DEF WatchdogFires, StepOnly, runVars, rateVars, agentVars
  <1>18. CASE TabClosed
    BY <1>18, Zenon DEF TabClosed, StepOnly, runVars, rateVars, agentVars
  <1>19. CASE Restart
    BY <1>19, Zenon DEF Restart, StepOnly, runVars, rateVars, agentVars
  <1>20. ASSUME NEW d \in Dispatchers, Claim(d) PROVE FlagsTyped'
    BY <1>20, Zenon DEF Claim, StepOnly, runVars, rateVars, agentVars
  <1>21. ASSUME NEW d \in Dispatchers, Leave(d) PROVE FlagsTyped'
    BY <1>21, Zenon DEF Leave, StepOnly, runVars, rateVars, agentVars
  <1>22. ASSUME NEW d \in Dispatchers, CheckStop(d) PROVE FlagsTyped'
    BY <1>22, Zenon DEF CheckStop, GiveBack, StepOnly, runVars, rateVars, agentVars
  <1>23. ASSUME NEW d \in Dispatchers, CheckDone(d) PROVE FlagsTyped'
    BY <1>23, Zenon DEF CheckDone, Finish, StepOnly, runVars, rateVars, agentVars
  <1>24. ASSUME NEW d \in Dispatchers, WaitForCooldown(d) PROVE FlagsTyped'
    BY <1>24, Zenon DEF WaitForCooldown, StepOnly, runVars, rateVars, agentVars
  <1>25. ASSUME NEW d \in Dispatchers, TabGone(d) PROVE FlagsTyped'
    BY <1>25, Zenon DEF TabGone, StepOnly, runVars, rateVars, agentVars
  <1>26. ASSUME NEW d \in Dispatchers, MarkPage(d) PROVE FlagsTyped'
    BY <1>26, Zenon DEF MarkPage, StepOnly, runVars, rateVars, agentVars
  <1>27. ASSUME NEW d \in Dispatchers, BudgetDue(d) PROVE FlagsTyped'
    BY <1>27, Zenon DEF BudgetDue, StepOnly, runVars, rateVars, agentVars
  <1>28. ASSUME NEW d \in Dispatchers, FetchFails(d) PROVE FlagsTyped'
    BY <1>28, Zenon DEF FetchFails, StepOnly, runVars, rateVars, agentVars
  <1>29. ASSUME NEW d \in Dispatchers, RateLimited(d) PROVE FlagsTyped'
    BY <1>29, Zenon DEF RateLimited, StepOnly, runVars, rateVars, agentVars
  <1>30. ASSUME NEW d \in Dispatchers, BackoffStop(d) PROVE FlagsTyped'
    BY <1>30, Zenon DEF BackoffStop, GiveBack, StepOnly, runVars, rateVars, agentVars
  <1>31. ASSUME NEW d \in Dispatchers, BackoffEnds(d) PROVE FlagsTyped'
    BY <1>31, Zenon DEF BackoffEnds, StepOnly, runVars, rateVars, agentVars
  <1>32. ASSUME NEW d \in Dispatchers, FetchPage(d) PROVE FlagsTyped'
    BY <1>32, Zenon DEF FetchPage, StepOnly, runVars, rateVars, agentVars
  <1>33. ASSUME NEW d \in Dispatchers, FetchEmpty(d) PROVE FlagsTyped'
    BY <1>33, Zenon DEF FetchEmpty, Finish, StepOnly, runVars, rateVars, agentVars
  <1>34. CASE UNCHANGED vars
    BY <1>34, Zenon DEF vars, runVars, rateVars, agentVars
  <1> QED
    BY <1>1, <1>2, <1>3, <1>4, <1>5, <1>6, <1>7, <1>8, <1>9, <1>10, <1>11, <1>12, <1>13, <1>14, <1>15, <1>16, <1>17, <1>18, <1>19, <1>20, <1>21, <1>22, <1>23, <1>24, <1>25, <1>26, <1>27, <1>28, <1>29, <1>30, <1>31, <1>32, <1>33, <1>34,
       Zenon DEF Next, System, Environment, DispatcherStep
\* A dispatcher that is about to ask for a page asks for one in reach.
LEMMA PageInReach ==
    ASSUME TypeInv, NEW d \in Dispatchers, Proceeds(d)
    PROVE  /\ disp[d].job \in Jobs /\ disp[d].at \in 1..3
           /\ disp[d].at <= Last[disp[d].job] + 1
  <1>1. disp[d] \in Dispatcher /\ Sound(disp[d]) /\ ceiling \in [Jobs -> BOOLEAN]
    BY TypeParts DEF TypeInv, DispTyped, DispatchersSound, QueueTyped
  <1>2. disp[d].pc \in {"check", "cool"} /\ disp[d].job \in Jobs
    BY <1>1 DEF Proceeds, Sound, Dispatcher
  <1>3. Last[disp[d].job] \in 1..2
    BY <1>2, Ranges
  <1>4. disp[d].at <= Last[disp[d].job] + 1
    <2>1. CASE disp[d].pc = "cool"
      BY <1>1, <2>1 DEF Sound
    <2>2. CASE disp[d].pc = "check"
      BY <1>1, <1>3, <2>2 DEF Proceeds, MaxPage, Dispatcher
    <2> QED
      BY <1>2, <2>1, <2>2
  <1> QED
    BY <1>1, <1>2, <1>3, <1>4 DEF Sound, Dispatcher

\* The queue keeps its type: a page given back is one less than a page that a
\* dispatcher had, which is at most the one after the last.
LEMMA QueueKept == TypeInv /\ [Next]_vars => QueueTyped'
  <1> SUFFICES ASSUME TypeInv, [Next]_vars PROVE QueueTyped'
    OBVIOUS
  <1> USE ConstantTypes, Ranges
  <1>q. QueueTyped
    BY TypeParts DEF TypeInv
  <1>d. \A d \in Dispatchers : disp[d] \in Dispatcher /\ Sound(disp[d])
    BY TypeParts DEF TypeInv, DispTyped, DispatchersSound
  <1> USE <1>q DEF QueueTyped
  <1>1. CASE OpenPoolTab \/ DispatchAll \/ WatchdogDispatches \/ Replace \/ SlotPasses \/
      CooldownEnds \/ ResumeAfterRestart \/ Start \/ Pause \/ Resume
    BY <1>1 DEF OpenPoolTab, DispatchAll, WatchdogDispatches, Replace, SlotPasses, CooldownEnds,
           ResumeAfterRestart, Start, Pause, Resume, StartProcessing, queueVars, StepOnly
  <1>2. ASSUME NEW d \in Dispatchers, Leave(d) \/ WaitForCooldown(d) \/ BudgetDue(d) \/
      RateLimited(d) \/ BackoffEnds(d) PROVE QueueTyped'
    BY <1>2 DEF Leave, WaitForCooldown, BudgetDue, RateLimited, BackoffEnds, queueVars, StepOnly
  <1>3. CASE ClosePool
    BY <1>3 DEF ClosePool, Reset, JobStatus, Pending, Running
  <1>4. CASE AddJob
    BY <1>4 DEF AddJob, Reset, JobStatus, Pending, Running
  <1>5. CASE Stop
    BY <1>5 DEF Stop, Reset, JobStatus, Pending, Running
  <1>6. CASE RemoveJob
    BY <1>6 DEF RemoveJob, Remove, Reset, JobStatus, Pending, Running
  <1>7. CASE ClearComplete
    BY <1>7 DEF ClearComplete, Remove, Reset, JobStatus, Pending, Running
  <1>8. CASE ClearPending
    BY <1>8 DEF ClearPending, Remove, Reset, JobStatus, Pending, Running
  <1>9. CASE WatchdogFires
    BY <1>9 DEF WatchdogFires, Reset, JobStatus, Pending, Running
  <1>10. CASE TabClosed
    BY <1>10 DEF TabClosed, Reset, JobStatus, Pending, Running
  <1>11. CASE Restart
    BY <1>11 DEF Restart, Reset, JobStatus, Pending, Running
  <1>12. ASSUME NEW d \in Dispatchers, Claim(d) PROVE QueueTyped'
    BY <1>12, <1>d, FirstPending DEF Claim, Pending, JobStatus, StepOnly
  <1>13. ASSUME NEW d \in Dispatchers, CheckStop(d) PROVE QueueTyped'
    BY <1>13, <1>d DEF CheckStop, GiveBack, SetStatus, Sound, Dispatcher, DispState, JobStatus,
           Proceeds, MaxPage, StepOnly, Pages, Longest
  <1>14. ASSUME NEW d \in Dispatchers, CheckDone(d) PROVE QueueTyped'
    BY <1>14, <1>d DEF CheckDone, Finish, SetStatus, Sound, Dispatcher, DispState, JobStatus,
           Proceeds, MaxPage, StepOnly, Pages, Longest
  <1>15. ASSUME NEW d \in Dispatchers, TabGone(d) PROVE QueueTyped'
    <2>1. disp[d].job \in Jobs /\ disp[d].at \in 1..3
      BY <1>15, PageInReach DEF TabGone
    <2>2. disp[d].at - 1 \in 0..3
      BY <2>1
    <2>3. page' = [page EXCEPT ![disp[d].job] = disp[d].at - 1] /\ UNCHANGED <<ceiling, results>>
      BY <1>15 DEF TabGone
    <2>4. status' \in [Jobs -> JobStatus]
      BY <1>15, <2>1 DEF TabGone, SetStatus, JobStatus
    <2> QED
      BY <2>2, <2>3, <2>4
  <1>16. ASSUME NEW d \in Dispatchers, MarkPage(d) PROVE QueueTyped'
    <2>1. disp[d].job \in Jobs /\ disp[d].at \in 0..3
      BY <1>16, PageInReach DEF MarkPage
    <2>2. page' = [page EXCEPT ![disp[d].job] = disp[d].at]
          /\ UNCHANGED <<status, ceiling, results>>
      BY <1>16 DEF MarkPage
    <2> QED
      BY <2>1, <2>2
  <1>17. ASSUME NEW d \in Dispatchers, FetchFails(d) PROVE QueueTyped'
    BY <1>17, <1>d DEF FetchFails, SetStatus, Sound, Dispatcher, DispState, JobStatus, Proceeds,
           MaxPage, StepOnly, Pages, Longest
  <1>18. ASSUME NEW d \in Dispatchers, BackoffStop(d) PROVE QueueTyped'
    BY <1>18, <1>d DEF BackoffStop, GiveBack, SetStatus, Sound, Dispatcher, DispState,
           JobStatus, Proceeds, MaxPage, StepOnly, Pages, Longest
  <1>19. ASSUME NEW d \in Dispatchers, FetchPage(d) PROVE QueueTyped'
    BY <1>19, <1>d DEF FetchPage, SetStatus, Sound, Dispatcher, DispState, JobStatus, Proceeds,
           MaxPage, StepOnly, Pages, Longest
  <1>20. ASSUME NEW d \in Dispatchers, FetchEmpty(d) PROVE QueueTyped'
    BY <1>20, <1>d DEF FetchEmpty, Finish, SetStatus, Sound, Dispatcher, DispState, JobStatus,
           Proceeds, MaxPage, StepOnly, Pages, Longest
  <1>21. CASE UNCHANGED vars
    BY <1>21 DEF vars, queueVars, StepOnly
  <1> QED
    BY <1>1, <1>2, <1>3, <1>4, <1>5, <1>6, <1>7, <1>8, <1>9, <1>10, <1>11, <1>12, <1>13, <1>14,
           <1>15, <1>16, <1>17, <1>18, <1>19, <1>20, <1>21,
       Zenon DEF Next, System, Environment, DispatcherStep
\* A fresh tab is a tab.
LEMMA FreshTab ==
    ASSUME FreshTabs # {}
    PROVE  Least(FreshTabs) \in FreshTabs /\ Least(FreshTabs) \in Tabs
  <1>1. FreshTabs \in SUBSET Nat
    BY Ranges DEF FreshTabs
  <1> QED
    BY <1>1, LeastIsLeast DEF FreshTabs

\* Tabs keep their states, and fewer tabs are retired than work at once.
LEMMA TabsKept == TypeInv /\ [Next]_vars => TabsTyped'
  <1> SUFFICES ASSUME TypeInv, [Next]_vars PROVE TabsTyped'
    OBVIOUS
  <1> USE ConstantTypes
  <1>t. TabsTyped
    BY TypeParts DEF TypeInv
  <1>d. \A d \in Dispatchers : disp[d] \in Dispatcher
    BY TypeParts DEF TypeInv, DispTyped
  <1> USE <1>t DEF TabsTyped
  <1>1. CASE DispatchAll \/ WatchdogDispatches \/ SlotPasses \/ CooldownEnds \/ AddJob \/ Stop
      \/ Pause \/ Resume \/ RemoveJob \/ ClearComplete \/ ClearPending
    BY <1>1 DEF DispatchAll, WatchdogDispatches, SlotPasses, CooldownEnds, AddJob, Stop, Pause,
           Resume, RemoveJob, ClearComplete, ClearPending, Remove, tabVars, StepOnly
  <1>2. ASSUME NEW d \in Dispatchers, WaitForCooldown(d) \/ MarkPage(d) \/ BudgetDue(d) \/
      BackoffEnds(d) \/ FetchPage(d) PROVE TabsTyped'
    BY <1>2 DEF WaitForCooldown, MarkPage, BudgetDue, BackoffEnds, FetchPage, tabVars, StepOnly
  <1>3. CASE OpenPoolTab
    BY <1>3, FreshTab DEF OpenPoolTab, tabVars
  <1>4. CASE Replace
    BY <1>4, FreshTab DEF Replace, tabVars
  <1>5. CASE ClosePool
    BY <1>5 DEF ClosePool, tabVars
  <1>6. CASE ResumeAfterRestart
    BY <1>6 DEF ResumeAfterRestart, StartProcessing, tabVars
  <1>7. CASE Start
    BY <1>7 DEF Start, StartProcessing, tabVars
  <1>8. CASE WatchdogFires
    BY <1>8 DEF WatchdogFires, tabVars
  <1>9. CASE TabClosed
    BY <1>9 DEF TabClosed, tabVars
  <1>10. CASE Restart
    BY <1>10 DEF Restart, tabVars
  <1>11. ASSUME NEW d \in Dispatchers, Claim(d) PROVE TabsTyped'
    BY <1>11, <1>d DEF Claim, ReleaseTab, Dispatcher, StepOnly, tabVars
  <1>12. ASSUME NEW d \in Dispatchers, Leave(d) PROVE TabsTyped'
    BY <1>12, <1>d DEF Leave, ReleaseTab, Dispatcher, StepOnly, tabVars
  <1>13. ASSUME NEW d \in Dispatchers, CheckStop(d) PROVE TabsTyped'
    BY <1>13, <1>d DEF CheckStop, GiveBack, ReleaseTab, Dispatcher, StepOnly, tabVars
  <1>14. ASSUME NEW d \in Dispatchers, CheckDone(d) PROVE TabsTyped'
    BY <1>14, <1>d DEF CheckDone, Finish, ReleaseTab, Dispatcher, StepOnly, tabVars
  <1>15. ASSUME NEW d \in Dispatchers, TabGone(d) PROVE TabsTyped'
    BY <1>15, <1>d DEF TabGone, ReleaseTab, Dispatcher, StepOnly, tabVars
  <1>16. ASSUME NEW d \in Dispatchers, FetchFails(d) PROVE TabsTyped'
    BY <1>16, <1>d DEF FetchFails, ReleaseTab, Dispatcher, StepOnly, tabVars
  <1>17. ASSUME NEW d \in Dispatchers, RateLimited(d) PROVE TabsTyped'
    BY <1>17, <1>d DEF RateLimited, tabVars, Idle
  <1>18. ASSUME NEW d \in Dispatchers, BackoffStop(d) PROVE TabsTyped'
    BY <1>18, <1>d DEF BackoffStop, GiveBack, ReleaseTab, Dispatcher, StepOnly, tabVars
  <1>19. ASSUME NEW d \in Dispatchers, FetchEmpty(d) PROVE TabsTyped'
    BY <1>19, <1>d DEF FetchEmpty, Finish, ReleaseTab, Dispatcher, StepOnly, tabVars
  <1>20. CASE UNCHANGED vars
    BY <1>20 DEF vars, tabVars, StepOnly
  <1> QED
    BY <1>1, <1>2, <1>3, <1>4, <1>5, <1>6, <1>7, <1>8, <1>9, <1>10, <1>11, <1>12, <1>13, <1>14,
           <1>15, <1>16, <1>17, <1>18, <1>19, <1>20,
       Zenon DEF Next, System, Environment, DispatcherStep
LEMMA PoolCounted == Cardinality(Pool \cap open) \in Nat
  <1>1. Pool \cap open \in SUBSET Tabs
    BY DEF Pool
  <1> QED
    BY <1>1, Ranges, FS_Subset, FS_CardinalityType

\* The activations, the tabs being opened and the resumptions to come.
LEMMA AgentsKept == TypeInv /\ [Next]_vars => AgentsTyped'
  <1> SUFFICES ASSUME TypeInv, [Next]_vars PROVE AgentsTyped'
    OBVIOUS
  <1>t. AgentsTyped
    BY TypeParts DEF TypeInv
  <1> USE <1>t DEF AgentsTyped
  <1>1. CASE OpenPoolTab \/ WatchdogDispatches \/ SlotPasses \/ CooldownEnds \/ AddJob \/ Stop
      \/ Pause \/ Resume \/ RemoveJob \/ ClearComplete \/ ClearPending \/ WatchdogFires
    BY <1>1 DEF OpenPoolTab, WatchdogDispatches, SlotPasses, CooldownEnds, AddJob, Stop, Pause,
           Resume, RemoveJob, ClearComplete, ClearPending, WatchdogFires, Remove, agentVars,
           StepOnly
  <1>2. ASSUME NEW d \in Dispatchers, Claim(d) \/ CheckStop(d) \/ CheckDone(d) \/
      WaitForCooldown(d) \/ TabGone(d) \/ MarkPage(d) \/ BudgetDue(d) \/ FetchFails(d) \/
      RateLimited(d) \/ BackoffStop(d) \/ BackoffEnds(d) \/ FetchPage(d) \/ FetchEmpty(d) PROVE
      AgentsTyped'
    BY <1>2 DEF GiveBack, Finish, Claim, CheckStop, CheckDone, WaitForCooldown, TabGone, MarkPage, BudgetDue,
           FetchFails, RateLimited, BackoffStop, BackoffEnds, FetchPage, FetchEmpty, agentVars,
           StepOnly
  <1>3. CASE DispatchAll
    BY <1>3 DEF DispatchAll, agentVars
  <1>4. CASE Replace
    BY <1>4 DEF Replace, agentVars
  <1>5. CASE ClosePool
    BY <1>5, PoolCounted DEF ClosePool, agentVars
  <1>6. CASE ResumeAfterRestart
    BY <1>6 DEF ResumeAfterRestart, StartProcessing, agentVars
  <1>7. CASE Start
    BY <1>7 DEF Start, StartProcessing, agentVars
  <1>8. CASE TabClosed
    BY <1>8 DEF TabClosed, agentVars
  <1>9. CASE Restart
    BY <1>9 DEF Restart, agentVars
  <1>10. ASSUME NEW d \in Dispatchers, Leave(d) PROVE AgentsTyped'
    BY <1>10 DEF Leave, agentVars
  <1>11. CASE UNCHANGED vars
    BY <1>11 DEF vars, agentVars, StepOnly
  <1> QED
    BY <1>1, <1>2, <1>3, <1>4, <1>5, <1>6, <1>7, <1>8, <1>9, <1>10, <1>11,
       Zenon DEF Next, System, Environment, DispatcherStep
\* The bounds are kept, and only jobs are disturbed.
LEMMA HistoryKept == TypeInv /\ [Next]_vars => HistoryTyped'
  <1> SUFFICES ASSUME TypeInv, [Next]_vars PROVE HistoryTyped'
    OBVIOUS
  <1> USE ConstantTypes
  <1>t. HistoryTyped
    BY TypeParts DEF TypeInv
  <1> USE <1>t DEF HistoryTyped
  <1>1. CASE OpenPoolTab \/ DispatchAll \/ WatchdogDispatches \/ Replace \/ SlotPasses \/
      CooldownEnds \/ ResumeAfterRestart \/ AddJob \/ Resume
    BY <1>1 DEF OpenPoolTab, DispatchAll, WatchdogDispatches, Replace, SlotPasses, CooldownEnds,
           ResumeAfterRestart, AddJob, Resume, StartProcessing, bounds, StepOnly
  <1>2. ASSUME NEW d \in Dispatchers, Claim(d) \/ Leave(d) \/ CheckStop(d) \/ CheckDone(d) \/
      WaitForCooldown(d) \/ TabGone(d) \/ MarkPage(d) \/ BudgetDue(d) \/ BackoffStop(d) \/
      BackoffEnds(d) \/ FetchPage(d) \/ FetchEmpty(d) PROVE HistoryTyped'
    BY <1>2 DEF GiveBack, Finish, Claim, Leave, CheckStop, CheckDone, WaitForCooldown, TabGone, MarkPage,
           BudgetDue, BackoffStop, BackoffEnds, FetchPage, FetchEmpty, bounds, StepOnly
  <1>3. CASE ClosePool
    BY <1>3 DEF ClosePool, Reset, Running, TabJobs, Command, Trouble, bounds
  <1>4. CASE Start
    BY <1>4 DEF Start, StartProcessing, Reset, Running, TabJobs, Command, Trouble, bounds
  <1>5. CASE Stop
    BY <1>5 DEF Stop, Reset, Running, TabJobs, Command, Trouble, bounds
  <1>6. CASE Pause
    BY <1>6 DEF Pause, Reset, Running, TabJobs, Command, Trouble, bounds
  <1>7. CASE RemoveJob
    BY <1>7 DEF RemoveJob, Remove, Reset, Running, TabJobs, Command, Trouble, bounds
  <1>8. CASE ClearComplete
    BY <1>8 DEF ClearComplete, Remove, Reset, Running, TabJobs, Command, Trouble, bounds
  <1>9. CASE ClearPending
    BY <1>9 DEF ClearPending, Remove, Reset, Running, TabJobs, Command, Trouble, bounds
  <1>10. CASE WatchdogFires
    BY <1>10 DEF WatchdogFires, Reset, Running, TabJobs, Command, Trouble, bounds
  <1>11. CASE TabClosed
    BY <1>11 DEF TabClosed, Reset, Running, TabJobs, Command, Trouble, bounds
  <1>12. CASE Restart
    BY <1>12 DEF Restart, Reset, Running, TabJobs, Command, Trouble, bounds
  <1>13. ASSUME NEW d \in Dispatchers, FetchFails(d) PROVE HistoryTyped'
    BY <1>13 DEF FetchFails, Reset, Running, TabJobs, Command, Trouble, bounds
  <1>14. ASSUME NEW d \in Dispatchers, RateLimited(d) PROVE HistoryTyped'
    BY <1>14 DEF RateLimited, Reset, Running, TabJobs, Command, Trouble, bounds
  <1>15. CASE UNCHANGED vars
    BY <1>15 DEF vars, bounds, StepOnly
  <1> QED
    BY <1>1, <1>2, <1>3, <1>4, <1>5, <1>6, <1>7, <1>8, <1>9, <1>10, <1>11, <1>12, <1>13, <1>14,
           <1>15,
       Zenon DEF Next, System, Environment, DispatcherStep
LEMMA SentOut ==
    ASSUME NEW t, NEW who, NEW w, w = [Off EXCEPT !.pc = "claim", !.by = who, !.tab = t]
    PROVE  w = [pc |-> "claim", tab |-> t, job |-> NoJob, at |-> 0, recs |-> {}, by |-> who]
  BY DEF Off

\* Tabs are dispatched to dispatchers that were off; the others go on.
LEMMA Dispatched ==
    ASSUME TypeInv, NEW tabs \in SUBSET Tabs, NEW who \in Starters \cup {0}, Dispatch(tabs, who)
    PROVE  /\ DispTyped' /\ DispatchersSound'
           /\ \A d \in Dispatchers :
                 \/ disp'[d] = disp[d]
                 \/ /\ disp[d].job = NoJob /\ disp[d].pc = "off"
                    /\ disp'[d].job = NoJob /\ disp'[d].pc = "claim"
  <1>t. DispTyped /\ DispatchersSound
    BY TypeParts DEF TypeInv
  <1> DEFINE sent(d) == CHOOSE t \in tabs : Rank(t, tabs) = Rank(d, Free)
             new(d) == [Off EXCEPT !.pc = "claim", !.by = who, !.tab = sent(d)]
             chosen(d) == d \in Free /\ Rank(d, Free) < Cardinality(tabs)
  <1>1. disp' = [d \in Dispatchers |-> IF chosen(d) THEN new(d) ELSE disp[d]]
    BY DEF Dispatch
  <1>2. ASSUME NEW d \in Dispatchers, chosen(d)
        PROVE  sent(d) \in Tabs
    <2>1. IsFiniteSet(Free) /\ Free \in SUBSET Nat
      BY Ranges, FS_Subset DEF Free
    <2>2. Rank(d, Free) \in Nat
      <3>1. {y \in Free : y < d} \in SUBSET Free
        OBVIOUS
      <3> QED
        BY <2>1, <3>1, FS_Subset, FS_CardinalityType DEF Rank
    <2>3. IsFiniteSet(tabs) /\ tabs \in SUBSET Nat
      BY Ranges, FS_Subset
    <2>4. \E t \in tabs : Rank(t, tabs) = Rank(d, Free)
      BY <1>2, <2>2, <2>3, RanksNumber
    <2> QED
      BY <2>4
  <1> HIDE DEF sent, chosen
  <1>3. ASSUME NEW d \in Dispatchers, chosen(d)
        PROVE  /\ disp[d].pc = "off"
               /\ new(d) = [pc |-> "claim", tab |-> sent(d), job |-> NoJob, at |-> 0, recs |-> {},
                            by |-> who]
    <2>1. disp[d].pc = "off"
      BY <1>3 DEF chosen, Free
    <2>2. PICK w : w = new(d)
      OBVIOUS
    <2>3. w = [pc |-> "claim", tab |-> sent(d), job |-> NoJob, at |-> 0, recs |-> {}, by |-> who]
      BY <2>2, SentOut
    <2> QED
      BY <2>1, <2>2, <2>3
  <1> HIDE DEF new
  <1>4. ASSUME NEW d \in Dispatchers
        PROVE  /\ disp'[d] \in Dispatcher /\ Sound(disp'[d])
               /\ \/ disp'[d] = disp[d]
                  \/ /\ disp[d].job = NoJob /\ disp[d].pc = "off"
                     /\ disp'[d].job = NoJob /\ disp'[d].pc = "claim"
    <2>1. CASE chosen(d)
      <3>1. disp'[d] = new(d) /\ disp[d].pc = "off" /\ Sound(disp[d])
        BY <1>1, <1>3, <1>t, <2>1 DEF DispatchersSound
      <3>2. new(d) = [pc |-> "claim", tab |-> sent(d), job |-> NoJob, at |-> 0, recs |-> {},
                      by |-> who]
        BY <1>3, <2>1
      <3>3. new(d) \in Dispatcher /\ sent(d) \in Tabs
        BY <1>2, <2>1, <3>2 DEF Dispatcher, DispState
      <3> QED
        BY <3>1, <3>2, <3>3 DEF Sound
    <2>2. CASE ~chosen(d)
      BY <1>1, <1>t, <2>2 DEF DispTyped, DispatchersSound
    <2> QED
      BY <2>1, <2>2
  <1> QED
    BY <1>1, <1>4 DEF DispTyped, DispatchersSound

\* Which dispatch of tabs a step is.
LEMMA DispatchSteps ==
    ASSUME TypeInv, DispatchAll \/ WatchdogDispatches \/ Replace
    PROVE  \E tabs \in SUBSET Tabs, who \in Starters \cup {0} : Dispatch(tabs, who)
  <1>1. Pool \in SUBSET Tabs /\ Idle \in SUBSET Tabs /\ {} \in SUBSET Tabs
    BY DEF Pool, Idle
  <1>2. CASE DispatchAll
    BY <1>1, <1>2 DEF DispatchAll
  <1>3. CASE WatchdogDispatches
    BY <1>1, <1>3 DEF WatchdogDispatches
  <1>4. CASE Replace
    BY <1>4, FreshTab DEF Replace
  <1> QED
    BY <1>2, <1>3, <1>4

\* A dispatcher goes to another step of its job, or on to the next job.
LEMMA Moved ==
    ASSUME TypeInv, NEW d \in Dispatchers, NEW pc \in DispState, Goto(d, pc),
           disp[d].job # NoJob, pc \notin {"off", "claim"}, disp[d].at <= Last[disp[d].job] + 1
    PROVE  DispTyped' /\ DispatchersSound'
  <1>t. DispTyped /\ DispatchersSound
    BY TypeParts DEF TypeInv
  <1>1. disp'[d] \in Dispatcher /\ Sound(disp'[d])
    BY <1>t DEF Goto, DispTyped, DispatchersSound, Dispatcher, Sound
  <1> QED
    BY <1>1, <1>t DEF Goto, DispTyped, DispatchersSound

LEMMA JobLeft ==
    ASSUME TypeInv, NEW d \in Dispatchers, NextJob(d)
    PROVE  DispTyped' /\ DispatchersSound'
  <1>t. DispTyped /\ DispatchersSound
    BY TypeParts DEF TypeInv
  <1>1. disp'[d] = [pc |-> "claim", tab |-> disp[d].tab, job |-> NoJob, at |-> 0, recs |-> {},
                    by |-> disp[d].by]
    BY <1>t DEF NextJob, Off, DispTyped
  <1>2. disp'[d] \in Dispatcher /\ Sound(disp'[d])
    BY <1>t, <1>1 DEF DispTyped, Dispatcher, DispState, Sound
  <1> QED
    BY <1>2, <1>t DEF NextJob, DispTyped, DispatchersSound

\* Dispatchers keep their types and stay sound.
LEMMA DispatchersKept == TypeInv /\ [Next]_vars => DispTyped' /\ DispatchersSound'
  <1> SUFFICES ASSUME TypeInv, [Next]_vars PROVE DispTyped' /\ DispatchersSound'
    OBVIOUS
  <1>t. DispTyped /\ DispatchersSound /\ QueueTyped
    BY TypeParts DEF TypeInv
  <1>d. \A d \in Dispatchers : disp[d] \in Dispatcher /\ Sound(disp[d])
    BY <1>t DEF DispTyped, DispatchersSound
  <1>u. disp' = disp => DispTyped' /\ DispatchersSound'
    BY <1>t DEF DispTyped, DispatchersSound
  <1>1. CASE OpenPoolTab \/ ClosePool \/ CooldownEnds \/ ResumeAfterRestart \/ AddJob \/ Start
             \/ Stop \/ Pause \/ Resume \/ RemoveJob \/ ClearComplete \/ ClearPending
             \/ WatchdogFires \/ TabClosed \/ UNCHANGED vars
    BY <1>1, <1>u DEF OpenPoolTab, ClosePool, CooldownEnds, ResumeAfterRestart, StartProcessing,
           AddJob, Start, Stop, Pause, Resume, RemoveJob, ClearComplete, ClearPending, Remove,
           WatchdogFires, TabClosed, vars
  <1>2. CASE DispatchAll \/ WatchdogDispatches \/ Replace
    BY <1>2, DispatchSteps, Dispatched
  <1>3. CASE Restart
    BY <1>3 DEF Restart, DispTyped, DispatchersSound, Off, Dispatcher, DispState, Sound
  <1>4. CASE SlotPasses
    BY <1>4, <1>t DEF SlotPasses, DispTyped, DispatchersSound, Dispatcher, DispState, Sound
  <1>5. ASSUME NEW d \in Dispatchers, CheckStop(d) \/ CheckDone(d) \/ TabGone(d) \/ FetchFails(d)
                                      \/ BackoffStop(d) \/ FetchEmpty(d)
        PROVE  DispTyped' /\ DispatchersSound'
    BY <1>5, JobLeft DEF CheckStop, CheckDone, TabGone, FetchFails, BackoffStop, FetchEmpty,
           GiveBack, Finish
  <1>6. ASSUME NEW d \in Dispatchers, Claim(d) PROVE DispTyped' /\ DispatchersSound'
    <2>1. PICK j \in Jobs : /\ disp' = [disp EXCEPT ![d].pc = "check", ![d].job = j,
                                                    ![d].at = page[j] + 1, ![d].recs = results[j]]
      BY <1>6, FirstPending DEF Claim
    <2>2. disp'[d] = [pc |-> "check", tab |-> disp[d].tab, job |-> j, at |-> page[j] + 1,
                      recs |-> results[j], by |-> disp[d].by]
      BY <1>t, <1>d, <2>1 DEF DispTyped, Dispatcher
    <2>3. page[j] \in 0..3 /\ results[j] \in SUBSET Pages /\ j # NoJob
      BY <1>t, Ranges DEF QueueTyped
    <2>4. disp'[d] \in Dispatcher
      BY <1>d, <2>2, <2>3 DEF Dispatcher, DispState
    <2>5. Sound(disp'[d])
      BY <1>d, <2>2, <2>3 DEF Dispatcher, Sound
    <2> QED
      BY <2>1, <2>4, <2>5, <1>t DEF DispTyped, DispatchersSound
  <1>7. ASSUME NEW d \in Dispatchers, Leave(d) PROVE DispTyped' /\ DispatchersSound'
    BY <1>7, <1>t DEF Leave, DispTyped, DispatchersSound, Off, Dispatcher, DispState, Sound
  <1>8. ASSUME NEW d \in Dispatchers, WaitForCooldown(d) \/ MarkPage(d)
        PROVE  DispTyped' /\ DispatchersSound'
    <2>1. disp[d].job # NoJob /\ disp[d].at <= Last[disp[d].job] + 1
      BY <1>8, PageInReach, Ranges DEF WaitForCooldown, MarkPage
    <2>2. Goto(d, "cool") \/ Goto(d, "fetch") \/ Goto(d, "slot")
      BY <1>8 DEF WaitForCooldown, MarkPage
    <2> QED
      BY <2>1, <2>2, Moved DEF DispState
  <1>9. ASSUME NEW d \in Dispatchers, BudgetDue(d) \/ RateLimited(d) \/ BackoffEnds(d)
        PROVE  DispTyped' /\ DispatchersSound'
    <2>1. disp[d].job # NoJob /\ disp[d].at <= Last[disp[d].job] + 1
      BY <1>9, <1>d DEF BudgetDue, RateLimited, BackoffEnds, Sound
    <2>2. Goto(d, "fetch") \/ Goto(d, "backoff")
      BY <1>9 DEF BudgetDue, RateLimited, BackoffEnds
    <2> QED
      BY <2>1, <2>2, Moved DEF DispState
  <1>10. ASSUME NEW d \in Dispatchers, FetchPage(d) PROVE DispTyped' /\ DispatchersSound'
    <2>1. disp[d].job \in Jobs /\ disp[d].at >= 1 /\ disp[d].at <= Last[disp[d].job]
      BY <1>10, <1>d DEF FetchPage, Sound, Dispatcher
    <2>2. disp[d].at \in 1..2
      <3>1. Last[disp[d].job] \in 1..2 /\ disp[d].at \in 0..4
        BY <2>1, <1>d, Ranges DEF Dispatcher
      <3> QED
        BY <2>1, <3>1
    <2>3. disp' = [disp EXCEPT ![d].pc = "check", ![d].at = @ + 1,
                               ![d].recs = disp[d].recs \cup {disp[d].at}]
      BY <1>10 DEF FetchPage
    <2>4. disp'[d] \in Dispatcher /\ Sound(disp'[d])
      BY <1>d, <1>t, <2>1, <2>2, <2>3, Ranges DEF Dispatcher, DispState, Sound, DispTyped
    <2> QED
      BY <2>3, <2>4, <1>t DEF DispTyped, DispatchersSound
  <1> QED
    BY <1>1, <1>2, <1>3, <1>4, <1>5, <1>6, <1>7, <1>8, <1>9, <1>10
       DEF Next, System, Environment, DispatcherStep
\* No dispatcher becomes due, and no slot is taken.
LEMMA NoneBecomesDue ==
    ASSUME TypeInv, UNCHANGED slot,
           \A d \in Dispatchers : disp'[d].pc = "due" => disp[d].pc = "due"
    PROVE  SlotTyped' /\ BudgetKept'
  <1>1. SlotTyped /\ BudgetKept
    BY TypeParts DEF TypeInv
  <1>2. Due' \in SUBSET Due /\ Due \in SUBSET Dispatchers
    BY DEF Due
  <1>3. IsFiniteSet(Due) /\ Cardinality(Due') <= Cardinality(Due)
        /\ Cardinality(Due) \in Nat /\ Cardinality(Due') \in Nat
    BY <1>2, Ranges, FS_Subset, FS_CardinalityType
  <1> QED
    BY <1>1, <1>3, ConstantTypes DEF SlotTyped, BudgetKept

\* Each dispatcher is let through once in an interval: the one that opens the
\* interval, then those that were due when the last one ended.
LEMMA BudgetStaysKept == TypeInv /\ [Next]_vars => SlotTyped' /\ BudgetKept'
  <1> SUFFICES ASSUME TypeInv, [Next]_vars PROVE SlotTyped' /\ BudgetKept'
    OBVIOUS
  <1>t. SlotTyped /\ BudgetKept /\ DispTyped
    BY TypeParts DEF TypeInv
  <1>f. /\ Due \in SUBSET Dispatchers /\ Due' \in SUBSET Dispatchers
        /\ IsFiniteSet(Due) /\ Cardinality(Due) \in Nat /\ Cardinality(Due') \in Nat
        /\ Cardinality(Due') <= MaxDispatchers
    <2>1. Due \in SUBSET Dispatchers /\ Due' \in SUBSET Dispatchers
      BY DEF Due
    <2> QED
      BY <2>1, Ranges, FS_Subset, FS_CardinalityType
  <1>1. CASE \/ OpenPoolTab \/ ClosePool \/ CooldownEnds \/ ResumeAfterRestart \/ AddJob \/ Start
             \/ Stop \/ Pause \/ Resume \/ RemoveJob \/ ClearComplete \/ ClearPending
             \/ WatchdogFires \/ TabClosed \/ UNCHANGED vars
    <2>1. UNCHANGED <<slot, disp>>
      BY <1>1 DEF OpenPoolTab, ClosePool, CooldownEnds, ResumeAfterRestart, StartProcessing,
             AddJob, Start, Stop, Pause, Resume, RemoveJob, ClearComplete, ClearPending, Remove,
             WatchdogFires, TabClosed, vars, rateVars
    <2> QED
      BY <2>1, NoneBecomesDue
  <1>2. CASE DispatchAll \/ WatchdogDispatches \/ Replace
    <2>1. UNCHANGED slot
      BY <1>2 DEF DispatchAll, WatchdogDispatches, Replace, rateVars
    <2>2. \A d \in Dispatchers : disp'[d] = disp[d] \/ disp'[d].pc = "claim"
      BY <1>2, DispatchSteps, Dispatched
    <2> QED
      BY <2>1, <2>2, NoneBecomesDue
  <1>3. CASE Restart
    <2>1. slot' = 0 /\ Due' = {}
      BY <1>3 DEF Restart, Due, Off
    <2> QED
      BY <2>1, FS_EmptySet, ConstantTypes DEF SlotTyped, BudgetKept
  <1>4. CASE SlotPasses
    <2>1. slot' = 0
      BY <1>4 DEF SlotPasses
    <2> QED
      BY <2>1, <1>f, ConstantTypes DEF SlotTyped, BudgetKept
  <1>5. ASSUME NEW d \in Dispatchers, CheckStop(d) \/ CheckDone(d) \/ TabGone(d) \/ FetchFails(d)
                                      \/ BackoffStop(d) \/ FetchEmpty(d)
        PROVE  SlotTyped' /\ BudgetKept'
    <2>1. UNCHANGED slot /\ NextJob(d)
      BY <1>5 DEF CheckStop, CheckDone, TabGone, FetchFails, BackoffStop, FetchEmpty,
             GiveBack, Finish, rateVars
    <2>2. disp'[d].pc = "claim" /\ \A e \in Dispatchers \ {d} : disp'[e] = disp[e]
      BY <2>1, <1>t DEF NextJob, Off, DispTyped
    <2> QED
      BY <2>1, <2>2, NoneBecomesDue
  <1>6. ASSUME NEW d \in Dispatchers, Claim(d) \/ Leave(d) \/ WaitForCooldown(d) \/ RateLimited(d)
                                      \/ BackoffEnds(d) \/ FetchPage(d)
        PROVE  SlotTyped' /\ BudgetKept'
    <2>1. UNCHANGED slot
      BY <1>6 DEF Claim, Leave, WaitForCooldown, RateLimited, BackoffEnds, FetchPage, rateVars
    <2>2. disp'[d].pc # "due" /\ \A e \in Dispatchers \ {d} : disp'[e] = disp[e]
      BY <1>6, <1>t DEF Claim, Leave, WaitForCooldown, RateLimited, BackoffEnds, FetchPage, Goto,
             Off, DispTyped, Dispatcher
    <2> QED
      BY <2>1, <2>2, NoneBecomesDue
  <1>7. ASSUME NEW d \in Dispatchers, MarkPage(d) PROVE SlotTyped' /\ BudgetKept'
    <2>1. disp'[d].pc \in {"fetch", "slot"} /\ \A e \in Dispatchers \ {d} : disp'[e] = disp[e]
      BY <1>7, <1>t DEF MarkPage, Goto, DispTyped, Dispatcher
    <2>2. CASE slot = 0
      <3>1. slot' = 1
        BY <1>7, <2>2 DEF MarkPage
      <3>2. Due' \in SUBSET (Dispatchers \ {d})
        BY <2>1 DEF Due
      <3>3. IsFiniteSet(Dispatchers \ {d})
            /\ Cardinality(Dispatchers \ {d}) = Cardinality(Dispatchers) - 1
        BY Ranges, FS_RemoveElement
      <3>4. Cardinality(Due') <= MaxDispatchers - 1
        <4>1. Cardinality(Due') <= Cardinality(Dispatchers \ {d})
          BY <3>2, <3>3, FS_Subset
        <4> QED
          BY <4>1, <3>3, Ranges
      <3> QED
        BY <3>1, <3>4, <1>f, ConstantTypes DEF SlotTyped, BudgetKept
    <2>3. CASE slot # 0
      <3>1. UNCHANGED slot
        BY <1>7, <2>3 DEF MarkPage
      <3> QED
        BY <2>1, <3>1, NoneBecomesDue
    <2> QED
      BY <2>2, <2>3
  <1>8. ASSUME NEW d \in Dispatchers, BudgetDue(d) PROVE SlotTyped' /\ BudgetKept'
    <2>1. slot' = slot + 1 /\ disp[d].pc = "due"
      BY <1>8 DEF BudgetDue
    <2>2. disp'[d].pc = "fetch" /\ \A e \in Dispatchers \ {d} : disp'[e] = disp[e]
      BY <1>8, <1>t DEF BudgetDue, Goto, DispTyped, Dispatcher
    <2>3. Due' = Due \ {d} /\ d \in Due
      BY <2>1, <2>2 DEF Due
    <2>4. Cardinality(Due') = Cardinality(Due) - 1
      BY <2>3, <1>f, FS_RemoveElement
    <2> QED
      BY <2>1, <2>4, <1>t, <1>f, ConstantTypes DEF SlotTyped, BudgetKept
  <1> QED
    BY <1>1, <1>2, <1>3, <1>4, <1>5, <1>6, <1>7, <1>8
       DEF Next, System, Environment, DispatcherStep

LEMMA TypeInvKept == TypeInv /\ [Next]_vars => TypeInv'
  <1> SUFFICES ASSUME TypeInv, [Next]_vars PROVE TypeInv'
    OBVIOUS
  <1>1. QueueTyped' /\ FlagsTyped' /\ TabsTyped' /\ DispTyped' /\ SlotTyped' /\ AgentsTyped'
        /\ HistoryTyped' /\ DispatchersSound' /\ BudgetKept'
    BY QueueKept, FlagsKept, TabsKept, DispatchersKept, BudgetStaysKept, AgentsKept,
       HistoryKept, TypeParts DEF TypeInv
  <1>2. TypeOK'
    BY <1>1 DEF TypeOK, QueueTyped, FlagsTyped, TabsTyped, DispTyped, Dispatcher, SlotTyped,
           AgentsTyped, HistoryTyped, Longest
  <1> QED
    BY <1>1, <1>2 DEF TypeInv

LEMMA TypeInvariant == Spec => []TypeInv
  <1> QED
    BY InitTyped, TypeInvKept, PTL DEF Spec

\* Every variable of the worker keeps its type; in particular no page beyond
\* the one after a job's last is ever stored, and at most MaxDispatchers
\* requests are let through in one budget interval.
THEOREM ScraperTypes == Spec => []TypeOK
  <1>1. TypeInv => TypeOK
    BY DEF TypeInv
  <1> QED
    BY <1>1, TypeInvariant, PTL
-----------------------------------------------------------------------------
(* Work.  What a dispatcher holds of a job that was never reset under it: a  *)
(* job that runs or was removed, and all records of the pages before the one *)
(* it stands at; and what such a job has when nobody works on it.            *)

HoldsInOrder(w) ==
    w.job # NoJob /\ w.job \notin disturbed =>
        /\ status[w.job] \in {"running", "removed"}
        /\ w.at <= Last[w.job] + 1
        /\ w.recs = 1..(w.at - 1)
        /\ status[w.job] = "running" => results[w.job] = w.recs

HeldInOrder == \A d \in Dispatchers : HoldsInOrder(disp[d])

QueuedInOrder ==
    \A j \in Jobs : j \notin disturbed =>
        /\ status[j] = "absent" => page[j] = 0 /\ results[j] = {}
        /\ status[j] = "pending" => page[j] <= Last[j] /\ results[j] = 1..page[j]

WorkInv ==
    /\ RunningHasDispatcher /\ SharedOnlyAfterReset
    /\ HeldInOrder /\ QueuedInOrder /\ UndisturbedIsWhole

LEMMA InitWork == Init => WorkInv
  <1> SUFFICES ASSUME Init PROVE WorkInv
    OBVIOUS
  <1> USE DEF Init
  <1>1. RunningHasDispatcher /\ UndisturbedIsWhole /\ QueuedInOrder
    BY DEF RunningHasDispatcher, Running, UndisturbedIsWhole, QueuedInOrder
  <1>2. \A d \in Dispatchers : disp[d].job = NoJob
    BY DEF Off
  <1>3. SharedOnlyAfterReset /\ HeldInOrder
    BY <1>2 DEF SharedOnlyAfterReset, HeldInOrder, HoldsInOrder
  <1> QED
    BY <1>1, <1>3 DEF WorkInv

\* What is known of the types of jobs and of the dispatchers that have one.
LEMMA WorkTypes ==
    ASSUME TypeInv
    PROVE  /\ status \in [Jobs -> JobStatus] /\ page \in [Jobs -> 0..3]
           /\ results \in [Jobs -> SUBSET Pages] /\ disturbed \subseteq Jobs
           /\ \A d \in Dispatchers : disp[d] \in Dispatcher /\ Sound(disp[d])
           /\ \A j \in Jobs : Last[j] \in 1..2 /\ page[j] \in 0..3
           /\ \A d \in Dispatchers : disp[d].job # NoJob =>
                 disp[d].job \in Jobs /\ disp[d].at \in 1..4 /\ disp[d].pc \notin {"off", "claim"}
           /\ disp \in [Dispatchers -> Dispatcher]
  <1>1. QueueTyped /\ HistoryTyped /\ DispTyped /\ DispatchersSound
    BY TypeParts DEF TypeInv
  <1>2. \A d \in Dispatchers : disp[d] \in Dispatcher /\ Sound(disp[d])
    BY <1>1 DEF DispTyped, DispatchersSound
  <1>3. ASSUME NEW d \in Dispatchers, disp[d].job # NoJob
        PROVE  disp[d].job \in Jobs /\ disp[d].at \in 1..4 /\ disp[d].pc \notin {"off", "claim"}
    BY <1>2, <1>3 DEF Dispatcher, Sound
  <1> QED
    BY <1>1, <1>2, <1>3, Ranges DEF QueueTyped, HistoryTyped, DispTyped

\* Steps within a job: nobody takes or leaves a job, and only the page of a job
\* that somebody works on is marked.
LEMMA WithinJobs ==
    ASSUME TypeInv, WorkInv, UNCHANGED <<status, results, disturbed>>,
           page' \in [Jobs -> 0..3],
           \A j \in Jobs : page'[j] = page[j] \/ \E d \in Dispatchers : disp[d].job = j,
           \A d \in Dispatchers : /\ disp'[d].job = disp[d].job
                                  /\ disp[d].job # NoJob =>
                                       disp'[d].at = disp[d].at /\ disp'[d].recs = disp[d].recs
    PROVE  WorkInv'
  <1> USE DEF WorkInv
  <1>1. RunningHasDispatcher'
    BY DEF RunningHasDispatcher, Running, Workers
  <1>2. SharedOnlyAfterReset'
    BY DEF SharedOnlyAfterReset
  <1>3. HeldInOrder'
    BY DEF HeldInOrder, HoldsInOrder
  <1>4. QueuedInOrder'
    <2> SUFFICES ASSUME NEW j \in Jobs, j \notin disturbed
                 PROVE  /\ status[j] = "absent" => page'[j] = 0 /\ results[j] = {}
                        /\ status[j] = "pending" => page'[j] <= Last[j] /\ results[j] = 1..page'[j]
      BY DEF QueuedInOrder
    <2>1. CASE page'[j] = page[j]
      BY <2>1 DEF QueuedInOrder
    <2>2. CASE \E d \in Dispatchers : disp[d].job = j
      <3>1. status[j] \in {"running", "removed"}
        BY <2>2, Ranges DEF HeldInOrder, HoldsInOrder
      <3> QED
        BY <3>1
    <2> QED
      BY <2>1, <2>2
  <1>5. UndisturbedIsWhole'
    BY DEF UndisturbedIsWhole
  <1> QED
    BY <1>1, <1>2, <1>3, <1>4, <1>5

\* A dispatcher leaves its job: the job goes back with the pages before this
\* one, ends complete with all of them, or in an error; a removed one stays so.
LEMMA LeavesJob ==
    ASSUME TypeInv, WorkInv, NEW d \in Dispatchers, disp[d].job # NoJob,
           NEW s \in {"pending", "complete", "error"}, SetStatus(disp[d].job, s), NextJob(d),
           UNCHANGED disturbed,
           page' \in [Jobs -> 0..3], results' \in [Jobs -> SUBSET Pages],
           \A j \in Jobs \ {disp[d].job} : page'[j] = page[j] /\ results'[j] = results[j],
           s = "pending" => page'[disp[d].job] = disp[d].at - 1
                            /\ results'[disp[d].job] = results[disp[d].job],
           s = "complete" /\ disp[d].job \notin disturbed => results'[disp[d].job] = 1..Last[disp[d].job]
    PROVE  WorkInv'
  <1> DEFINE j == disp[d].job
  <1>t. /\ status \in [Jobs -> JobStatus] /\ j \in Jobs /\ disp[d].at \in 1..4
        /\ \A e \in Dispatchers : disp[e].job # NoJob => disp[e].job \in Jobs
    BY WorkTypes
  <1>1. /\ disp'[d].job = NoJob
        /\ \A e \in Dispatchers \ {d} : disp'[e] = disp[e]
    BY WorkTypes DEF NextJob, Off
  <1>2. /\ status'[j] = (IF status[j] = "removed" THEN "removed" ELSE s)
        /\ \A i \in Jobs \ {j} : status'[i] = status[i]
    BY <1>t DEF SetStatus
  <1>3. ASSUME j \notin disturbed, NEW e \in Dispatchers \ {d}
        PROVE  disp[e].job # j
    BY <1>3 DEF WorkInv, SharedOnlyAfterReset
  <1>i. WorkInv
    OBVIOUS
  <1> HIDE DEF j
  <1>4. RunningHasDispatcher'
    <2> SUFFICES ASSUME NEW i \in Jobs, status'[i] = "running"
                 PROVE  \E e \in Dispatchers : disp'[e].job = i
      BY DEF RunningHasDispatcher, Running, Workers
    <2>1. i # j /\ status[i] = "running"
      BY <1>2
    <2>2. PICK e \in Dispatchers : disp[e].job = i
      BY <1>i, <2>1 DEF WorkInv, RunningHasDispatcher, Running, Workers
    <2>3. e # d
      BY <2>1, <2>2 DEF j
    <2> QED
      BY <1>1, <2>2, <2>3
  <1>5. SharedOnlyAfterReset'
    BY <1>i, <1>1 DEF WorkInv, SharedOnlyAfterReset
  <1>6. HeldInOrder'
    <2> SUFFICES ASSUME NEW e \in Dispatchers, disp'[e].job # NoJob, disp'[e].job \notin disturbed
                 PROVE  HoldsInOrder(disp[e])'
      BY DEF HeldInOrder, HoldsInOrder
    <2>1. e # d /\ disp'[e] = disp[e] /\ disp[e].job \in Jobs
      BY <1>1, <1>t
    <2>2. disp[e].job # j
      BY <2>1, <1>3
    <2>3. status'[disp[e].job] = status[disp[e].job] /\ results'[disp[e].job] = results[disp[e].job]
      BY <2>1, <2>2, <1>2 DEF j
    <2> QED
      BY <1>i, <2>1, <2>3 DEF WorkInv, HeldInOrder, HoldsInOrder
  <1>h. j \notin disturbed =>
            /\ status[j] \in {"running", "removed"} /\ disp[d].at <= Last[j] + 1
            /\ status[j] = "running" => results[j] = 1..(disp[d].at - 1)
    BY <1>i DEF WorkInv, HeldInOrder, HoldsInOrder, j
  <1>7. QueuedInOrder'
    <2> SUFFICES ASSUME NEW i \in Jobs, i \notin disturbed
                 PROVE  /\ status'[i] = "absent" => page'[i] = 0 /\ results'[i] = {}
                        /\ status'[i] = "pending" => page'[i] <= Last[i] /\ results'[i] = 1..page'[i]
      BY DEF QueuedInOrder
    <2>1. CASE i # j
      BY <1>i, <1>2, <2>1 DEF WorkInv, QueuedInOrder, j
    <2>2. CASE i = j
      <3>1. status'[j] # "absent" /\ (status'[j] = "pending" => s = "pending" /\ status[j] = "running")
        BY <1>2, <1>h, <2>2
      <3>2. Last[j] \in 1..2
        BY <1>t, Ranges
      <3> QED
        BY <1>h, <1>t, <2>2, <3>1, <3>2 DEF j
    <2> QED
      BY <2>1, <2>2
  <1>8. UndisturbedIsWhole'
    <2> SUFFICES ASSUME NEW i \in Jobs, status'[i] = "complete", i \notin disturbed
                 PROVE  results'[i] = 1..Last[i]
      BY DEF UndisturbedIsWhole
    <2>1. CASE i # j
      BY <1>i, <1>2, <2>1 DEF WorkInv, UndisturbedIsWhole, j
    <2>2. CASE i = j
      BY <1>2, <1>h, <2>2 DEF j
    <2> QED
      BY <2>1, <2>2
  <1> QED
    BY <1>4, <1>5, <1>6, <1>7, <1>8 DEF WorkInv

\* Running jobs are put back, with their dispatchers or without them: they are
\* disturbed from then on.
LEMMA JobsReset ==
    ASSUME TypeInv, WorkInv, NEW js \in SUBSET Running, Reset(js), UNCHANGED <<page, results>>,
           \/ UNCHANGED disp
           \/ js = Running /\ \A d \in Dispatchers : disp'[d].job = NoJob
    PROVE  WorkInv'
  <1>i. WorkInv
    OBVIOUS
  <1>1. /\ \A i \in Jobs : status'[i] = IF i \in js THEN "pending" ELSE status[i]
        /\ disturbed' = disturbed \cup js /\ js \subseteq Jobs
    BY DEF Reset, Running
  <1>2. RunningHasDispatcher'
    <2> SUFFICES ASSUME NEW i \in Jobs, status'[i] = "running"
                 PROVE  \E e \in Dispatchers : disp'[e].job = i
      BY DEF RunningHasDispatcher, Running, Workers
    <2>1. i \in Running /\ i \notin js
      BY <1>1 DEF Running
    <2>2. UNCHANGED disp
      BY <2>1
    <2> QED
      BY <1>i, <2>1, <2>2 DEF WorkInv, RunningHasDispatcher, Workers
  <1>3. SharedOnlyAfterReset'
    BY <1>i, <1>1 DEF WorkInv, SharedOnlyAfterReset
  <1>4. HeldInOrder'
    <2> SUFFICES ASSUME NEW e \in Dispatchers, disp'[e].job # NoJob, disp'[e].job \notin disturbed'
                 PROVE  HoldsInOrder(disp[e])'
      BY DEF HeldInOrder, HoldsInOrder
    <2>1. disp' = disp /\ disp[e].job \in Jobs \ js
      BY <1>1, WorkTypes
    <2>2. status'[disp[e].job] = status[disp[e].job] /\ results' = results
      BY <1>1, <2>1
    <2> QED
      BY <1>i, <1>1, <2>1, <2>2 DEF WorkInv, HeldInOrder, HoldsInOrder
  <1>5. QueuedInOrder' /\ UndisturbedIsWhole'
    BY <1>i, <1>1 DEF WorkInv, QueuedInOrder, UndisturbedIsWhole
  <1> QED
    BY <1>2, <1>3, <1>4, <1>5 DEF WorkInv
\* A dispatcher takes the first pending job; if it was never reset, nobody else
\* has it.
LEMMA ClaimWorks ==
    ASSUME TypeInv, WorkInv, NEW d \in Dispatchers, Claim(d)
    PROVE  WorkInv'
  <1>i. WorkInv
    OBVIOUS
  <1>1. PICK j \in Jobs :
            /\ status[j] = "pending"
            /\ status' = [status EXCEPT ![j] = "running"]
            /\ disp' = [disp EXCEPT ![d].pc = "check", ![d].job = j, ![d].at = page[j] + 1,
                                    ![d].recs = results[j]]
            /\ disp[d].pc = "claim" /\ UNCHANGED <<page, results, disturbed>>
    BY FirstPending DEF Claim, StepOnly, Pending
  <1>t. /\ status \in [Jobs -> JobStatus] /\ results[j] \in SUBSET Pages /\ page[j] \in 0..3
        /\ Last[j] \in 1..2 /\ disp[d].job = NoJob /\ j # NoJob
        /\ disp \in [Dispatchers -> Dispatcher]
        /\ \A e \in Dispatchers : disp[e].job # NoJob => disp[e].job \in Jobs
    BY <1>1, WorkTypes, Ranges DEF Sound
  <1>2. /\ status'[j] = "running" /\ \A i \in Jobs \ {j} : status'[i] = status[i]
        /\ disp'[d].job = j /\ disp'[d].at = page[j] + 1 /\ disp'[d].recs = results[j]
        /\ \A e \in Dispatchers \ {d} : disp'[e] = disp[e]
    BY <1>1, <1>t DEF Dispatcher
  <1>3. ASSUME j \notin disturbed, NEW e \in Dispatchers PROVE disp[e].job # j
    BY <1>i, <1>1, <1>3, <1>t DEF WorkInv, HeldInOrder, HoldsInOrder
  <1>4. RunningHasDispatcher'
    <2> SUFFICES ASSUME NEW i \in Jobs, status'[i] = "running"
                 PROVE  \E e \in Dispatchers : disp'[e].job = i
      BY DEF RunningHasDispatcher, Running, Workers
    <2>1. CASE i = j
      BY <1>2, <2>1
    <2>2. CASE i # j
      <3>1. PICK e \in Dispatchers : disp[e].job = i
        BY <1>i, <1>2, <2>2 DEF WorkInv, RunningHasDispatcher, Running, Workers
      <3>2. e # d
        BY <1>t, <3>1, Ranges
      <3> QED
        BY <1>2, <3>1, <3>2
    <2> QED
      BY <2>1, <2>2
  <1>5. SharedOnlyAfterReset'
    <2> SUFFICES ASSUME NEW e \in Dispatchers, NEW f \in Dispatchers, e # f,
                        disp'[e].job = disp'[f].job, disp'[e].job # NoJob,
                        disp'[e].job \notin disturbed
                 PROVE  FALSE
      BY <1>1 DEF SharedOnlyAfterReset
    <2>1. CASE e = d
      BY <1>2, <1>3, <2>1
    <2>2. CASE f = d
      BY <1>2, <1>3, <2>2
    <2>3. CASE e # d /\ f # d
      BY <1>i, <1>2, <2>3 DEF WorkInv, SharedOnlyAfterReset
    <2> QED
      BY <2>1, <2>2, <2>3
  <1>6. HeldInOrder'
    <2> SUFFICES ASSUME NEW e \in Dispatchers, disp'[e].job # NoJob, disp'[e].job \notin disturbed
                 PROVE  HoldsInOrder(disp[e])'
      BY <1>1 DEF HeldInOrder, HoldsInOrder
    <2>1. CASE e = d
      <3>1. page[j] <= Last[j] /\ results[j] = 1..page[j]
        BY <1>i, <1>1, <1>2, <2>1 DEF WorkInv, QueuedInOrder
      <3>2. (page[j] + 1) - 1 = page[j] /\ page[j] + 1 <= Last[j] + 1
        BY <1>t, <3>1
      <3> QED
        BY <1>1, <1>2, <2>1, <3>1, <3>2 DEF HoldsInOrder
    <2>2. CASE e # d
      <3>1. disp'[e] = disp[e] /\ disp[e].job # j /\ disp[e].job \in Jobs
        BY <1>1, <1>2, <1>3, <1>t, <2>2
      <3>2. status'[disp[e].job] = status[disp[e].job] /\ results' = results
        BY <1>1, <1>2, <3>1
      <3> QED
        BY <1>i, <1>1, <3>1, <3>2 DEF WorkInv, HeldInOrder, HoldsInOrder
    <2> QED
      BY <2>1, <2>2
  <1>7. QueuedInOrder' /\ UndisturbedIsWhole'
    BY <1>i, <1>1, <1>2 DEF WorkInv, QueuedInOrder, UndisturbedIsWhole
  <1> QED
    BY <1>4, <1>5, <1>6, <1>7 DEF WorkInv

\* A page is read: its records are added to those held and stored.
LEMMA FetchWorks ==
    ASSUME TypeInv, WorkInv, NEW d \in Dispatchers, FetchPage(d)
    PROVE  WorkInv'
  <1>i. WorkInv
    OBVIOUS
  <1> DEFINE j == disp[d].job
             found == disp[d].recs \cup {disp[d].at}
  <1>t. /\ j \in Jobs /\ j # NoJob /\ disp[d].at \in 1..4 /\ Last[j] \in 1..2
        /\ disp \in [Dispatchers -> Dispatcher] /\ results \in [Jobs -> SUBSET Pages]
        /\ \A e \in Dispatchers : disp[e].job # NoJob => disp[e].job \in Jobs
    <2>1. disp[d].job # NoJob
      BY WorkTypes DEF FetchPage, Sound
    <2> QED
      BY <2>1, WorkTypes
  <1>1. /\ disp[d].at <= Last[j] /\ UNCHANGED <<status, page, disturbed>>
        /\ results'[j] = found /\ \A i \in Jobs \ {j} : results'[i] = results[i]
        /\ disp'[d].job = j /\ disp'[d].at = disp[d].at + 1 /\ disp'[d].recs = found
        /\ \A e \in Dispatchers \ {d} : disp'[e] = disp[e]
    BY <1>t DEF FetchPage, StepOnly, Dispatcher
  <1>2. ASSUME j \notin disturbed, NEW e \in Dispatchers \ {d} PROVE disp[e].job # j
    BY <1>2, <1>t DEF WorkInv, SharedOnlyAfterReset
  <1>3. j \notin disturbed => status[j] \in {"running", "removed"}
                              /\ found = 1..((disp[d].at + 1) - 1)
    <2> SUFFICES ASSUME j \notin disturbed
                 PROVE  status[j] \in {"running", "removed"} /\ found = 1..((disp[d].at + 1) - 1)
      OBVIOUS
    <2>1. status[j] \in {"running", "removed"} /\ disp[d].recs = 1..(disp[d].at - 1)
      BY <1>i, <1>t DEF WorkInv, HeldInOrder, HoldsInOrder
    <2> QED
      BY <1>t, <2>1
  <1> HIDE DEF j, found
  <1>4. RunningHasDispatcher'
    <2> SUFFICES ASSUME NEW i \in Jobs, status[i] = "running"
                 PROVE  \E e \in Dispatchers : disp'[e].job = i
      BY <1>1 DEF RunningHasDispatcher, Running, Workers
    <2>1. PICK e \in Dispatchers : disp[e].job = i
      BY <1>i DEF WorkInv, RunningHasDispatcher, Running, Workers
    <2> QED
      BY <1>1, <2>1 DEF j
  <1>5. SharedOnlyAfterReset'
    <2>1. \A e \in Dispatchers : disp'[e].job = disp[e].job
      BY <1>1 DEF j
    <2> QED
      BY <1>i, <1>1, <2>1 DEF WorkInv, SharedOnlyAfterReset
  <1>6. HeldInOrder'
    <2> SUFFICES ASSUME NEW e \in Dispatchers, disp'[e].job # NoJob, disp'[e].job \notin disturbed
                 PROVE  HoldsInOrder(disp[e])'
      BY <1>1 DEF HeldInOrder, HoldsInOrder
    <2>1. CASE e = d
      <3>1. disp[d].at + 1 <= Last[j] + 1
        BY <1>1, <1>t
      <3> QED
        BY <1>1, <1>3, <2>1, <3>1 DEF HoldsInOrder
    <2>2. CASE e # d
      <3>1. disp'[e] = disp[e] /\ disp[e].job # j /\ disp[e].job \in Jobs
        BY <1>1, <1>2, <1>t, <2>2
      <3>2. results'[disp[e].job] = results[disp[e].job] /\ status' = status
        BY <1>1, <3>1
      <3> QED
        BY <1>i, <1>1, <3>1, <3>2 DEF WorkInv, HeldInOrder, HoldsInOrder
    <2> QED
      BY <2>1, <2>2
  <1>7. \A i \in Jobs : i \notin disturbed /\ status[i] \notin {"running", "removed"} =>
            results'[i] = results[i]
    BY <1>1, <1>3
  <1>8. QueuedInOrder' /\ UndisturbedIsWhole'
    <2>1. QueuedInOrder'
      BY <1>i, <1>1, <1>7 DEF WorkInv, QueuedInOrder
    <2>2. UndisturbedIsWhole'
      BY <1>i, <1>1, <1>7 DEF WorkInv, UndisturbedIsWhole
    <2> QED
      BY <2>1, <2>2
  <1> QED
    BY <1>4, <1>5, <1>6, <1>8 DEF WorkInv

\* A job is complete when the page after its last one has no news or is beyond
\* the total it reported.
LEMMA FinishWorks ==
    ASSUME TypeInv, WorkInv, NEW d \in Dispatchers, CheckDone(d) \/ FetchEmpty(d)
    PROVE  WorkInv'
  <1>1. Finish(d) /\ disp[d].job # NoJob /\ disp[d].at > Last[disp[d].job]
    <2>1. disp[d].job # NoJob /\ disp[d].job \in Jobs /\ disp[d].at \in 1..4
          /\ Last[disp[d].job] \in 1..2
      <3>1. disp[d].job # NoJob
        BY WorkTypes DEF CheckDone, FetchEmpty, Sound
      <3> QED
        BY <3>1, WorkTypes
    <2>2. CASE CheckDone(d)
      BY <2>1, <2>2 DEF CheckDone, MaxPage
    <2>3. CASE FetchEmpty(d)
      BY <2>1, <2>3 DEF FetchEmpty
    <2> QED
      BY <2>2, <2>3
  <1>t. /\ disp[d].job \in Jobs /\ disp[d].at \in 1..4 /\ Last[disp[d].job] \in 1..2
        /\ disp[d].recs \in SUBSET Pages
        /\ results \in [Jobs -> SUBSET Pages] /\ page \in [Jobs -> 0..3]
    BY <1>1, WorkTypes DEF Dispatcher
  <1>2. disp[d].job \notin disturbed => disp[d].recs = 1..Last[disp[d].job]
    <2> SUFFICES ASSUME disp[d].job \notin disturbed PROVE disp[d].recs = 1..Last[disp[d].job]
      OBVIOUS
    <2>1. disp[d].at <= Last[disp[d].job] + 1 /\ disp[d].recs = 1..(disp[d].at - 1)
      BY <1>1 DEF WorkInv, HeldInOrder, HoldsInOrder
    <2>2. disp[d].at - 1 = Last[disp[d].job]
      BY <1>1, <1>t, <2>1
    <2> QED
      BY <2>1, <2>2
  <1>3. /\ results' = [results EXCEPT ![disp[d].job] = disp[d].recs]
        /\ SetStatus(disp[d].job, "complete") /\ NextJob(d) /\ UNCHANGED <<page, disturbed>>
    BY <1>1 DEF Finish, StepOnly
  <1> QED
    BY <1>1, <1>2, <1>3, <1>t, LeavesJob

\* The job is given back, before this page is asked for again.
LEMMA GiveBackWorks ==
    ASSUME TypeInv, WorkInv, NEW d \in Dispatchers,
           CheckStop(d) \/ BackoffStop(d) \/ TabGone(d)
    PROVE  WorkInv'
  <1>1. disp[d].job # NoJob
    BY WorkTypes DEF CheckStop, BackoffStop, TabGone, Proceeds, Sound
  <1>2. /\ SetStatus(disp[d].job, "pending") /\ NextJob(d)
        /\ page' = [page EXCEPT ![disp[d].job] = disp[d].at - 1]
        /\ UNCHANGED <<results, disturbed>>
    BY DEF CheckStop, BackoffStop, TabGone, GiveBack, StepOnly
  <1>t. /\ disp[d].job \in Jobs /\ page \in [Jobs -> 0..3] /\ disp[d].at \in 1..4
        /\ results \in [Jobs -> SUBSET Pages]
    BY <1>1, WorkTypes
  <1>3. page' \in [Jobs -> 0..3]
    BY <1>2, <1>t
  <1> QED
    BY <1>1, <1>2, <1>3, <1>t, LeavesJob

LEMMA FailWorks ==
    ASSUME TypeInv, WorkInv, NEW d \in Dispatchers, FetchFails(d)
    PROVE  WorkInv'
  <1>1. disp[d].job # NoJob
    BY WorkTypes DEF FetchFails, Sound
  <1>2. /\ SetStatus(disp[d].job, "error") /\ NextJob(d) /\ UNCHANGED <<page, results, disturbed>>
    BY DEF FetchFails
  <1> QED
    BY <1>1, <1>2, WorkTypes, LeavesJob

\* The popup adds a job, or removes some with their records.
LEMMA AddWorks == ASSUME TypeInv, WorkInv, AddJob PROVE WorkInv'
  <1>1. PICK j \in Jobs : /\ status[j] = "absent" /\ status' = [status EXCEPT ![j] = "pending"]
                          /\ UNCHANGED <<page, results, disp, disturbed>>
    BY DEF AddJob
  <1>t. status \in [Jobs -> JobStatus] /\ Last[j] \in 1..2
        /\ \A e \in Dispatchers : disp[e].job # NoJob => disp[e].job \in Jobs
    BY WorkTypes
  <1>2. \A i \in Jobs : status'[i] = IF i = j THEN "pending" ELSE status[i]
    BY <1>1, <1>t
  <1>3. RunningHasDispatcher' /\ SharedOnlyAfterReset'
    BY <1>1, <1>2 DEF WorkInv, RunningHasDispatcher, Running, Workers, SharedOnlyAfterReset
  <1>4. HeldInOrder'
    BY <1>1, <1>2, <1>t DEF WorkInv, HeldInOrder, HoldsInOrder
  <1>5. UndisturbedIsWhole'
    BY <1>1, <1>2, <1>t DEF WorkInv, UndisturbedIsWhole
  <1>6. QueuedInOrder'
    <2> SUFFICES ASSUME NEW i \in Jobs, i \notin disturbed
                 PROVE  /\ status'[i] = "absent" => page[i] = 0 /\ results[i] = {}
                        /\ status'[i] = "pending" => page[i] <= Last[i] /\ results[i] = 1..page[i]
      BY <1>1 DEF QueuedInOrder
    <2>1. CASE i = j
      <3>1. page[j] = 0 /\ results[j] = {}
        BY <1>1, <2>1 DEF WorkInv, QueuedInOrder
      <3> QED
        BY <1>2, <1>t, <2>1, <3>1
    <2>2. CASE i # j
      BY <1>2, <2>2 DEF WorkInv, QueuedInOrder
    <2> QED
      BY <2>1, <2>2
  <1> QED
    BY <1>3, <1>4, <1>5, <1>6 DEF WorkInv

LEMMA RemoveWorks ==
    ASSUME TypeInv, WorkInv, NEW js \in SUBSET Jobs, Remove(js)
    PROVE  WorkInv'
  <1>t. \A e \in Dispatchers : disp[e].job # NoJob => disp[e].job \in Jobs
    BY WorkTypes
  <1>2. /\ \A i \in Jobs : /\ status'[i] = IF i \in js THEN "removed" ELSE status[i]
                           /\ i \notin js => results'[i] = results[i]
        /\ UNCHANGED <<page, disp, disturbed>>
    BY DEF Remove
  <1>3. RunningHasDispatcher' /\ SharedOnlyAfterReset'
    BY <1>2 DEF WorkInv, RunningHasDispatcher, Running, Workers, SharedOnlyAfterReset
  <1>4. HeldInOrder'
    BY <1>2, <1>t DEF WorkInv, HeldInOrder, HoldsInOrder
  <1>5. QueuedInOrder' /\ UndisturbedIsWhole'
    BY <1>2 DEF WorkInv, QueuedInOrder, UndisturbedIsWhole
  <1> QED
    BY <1>3, <1>4, <1>5 DEF WorkInv
\* Local steps: the dispatchers' work on their jobs stays as it is.
LEMMA LocalWorks ==
    ASSUME TypeInv, WorkInv,
           \/ OpenPoolTab \/ DispatchAll \/ WatchdogDispatches \/ Replace \/ SlotPasses
           \/ CooldownEnds \/ ResumeAfterRestart \/ Start \/ Pause \/ Resume \/ UNCHANGED vars
           \/ \E d \in Dispatchers : Leave(d) \/ WaitForCooldown(d) \/ MarkPage(d)
                                     \/ BudgetDue(d) \/ RateLimited(d) \/ BackoffEnds(d)
    PROVE  WorkInv'
  <1>t. page \in [Jobs -> 0..3] /\ disp \in [Dispatchers -> Dispatcher]
        /\ \A d \in Dispatchers : Sound(disp[d])
    BY WorkTypes
  <1>1. CASE \/ OpenPoolTab \/ CooldownEnds \/ ResumeAfterRestart \/ Start \/ Pause \/ Resume
             \/ UNCHANGED vars
    <2>1. UNCHANGED <<queueVars, disp, disturbed>>
      BY <1>1 DEF OpenPoolTab, CooldownEnds, ResumeAfterRestart, Start, StartProcessing, Pause,
             Resume, StepOnly, vars
    <2> QED
      BY <2>1, <1>t, WithinJobs DEF queueVars
  <1>2. CASE DispatchAll \/ WatchdogDispatches \/ Replace
    <2>1. UNCHANGED <<queueVars, disturbed>>
      BY <1>2 DEF DispatchAll, WatchdogDispatches, Replace
    <2>2. PICK tabs \in SUBSET Tabs, who \in Starters \cup {0} : Dispatch(tabs, who)
      BY <1>2, DispatchSteps
    <2>3. \A d \in Dispatchers : disp'[d] = disp[d] \/ (disp[d].job = NoJob /\ disp'[d].job = NoJob)
      BY <2>2, Dispatched
    <2> QED
      BY <2>1, <2>3, <1>t, WithinJobs DEF queueVars
  <1>3. CASE SlotPasses
    <2>1. UNCHANGED <<queueVars, disturbed>>
      BY <1>3 DEF SlotPasses, StepOnly
    <2>2. \A d \in Dispatchers : /\ disp'[d].job = disp[d].job
                                 /\ disp'[d].at = disp[d].at /\ disp'[d].recs = disp[d].recs
      BY <1>3, <1>t DEF SlotPasses, Dispatcher
    <2> QED
      BY <2>1, <2>2, <1>t, WithinJobs DEF queueVars
  <1>4. ASSUME NEW d \in Dispatchers, Leave(d) PROVE WorkInv'
    <2>1. UNCHANGED <<queueVars, disturbed>> /\ disp' = [disp EXCEPT ![d] = Off]
      BY <1>4 DEF Leave
    <2>2. disp[d].job = NoJob /\ Off.job = NoJob
      BY <1>4, <1>t DEF Leave, Sound, Off
    <2>3. disp'[d] = Off /\ \A e \in Dispatchers \ {d} : disp'[e] = disp[e]
      BY <2>1, <1>t
    <2> QED
      BY <2>1, <2>2, <2>3, <1>t, WithinJobs DEF queueVars
  <1>5. ASSUME NEW d \in Dispatchers, WaitForCooldown(d) \/ MarkPage(d) \/ BudgetDue(d)
                                      \/ RateLimited(d) \/ BackoffEnds(d)
        PROVE  WorkInv'
    <2>1. UNCHANGED <<status, results, disturbed>>
      BY <1>5 DEF WaitForCooldown, MarkPage, BudgetDue, RateLimited, BackoffEnds, StepOnly, queueVars
    <2>2. PICK pc : disp' = [disp EXCEPT ![d].pc = pc]
      BY <1>5 DEF WaitForCooldown, MarkPage, BudgetDue, RateLimited, BackoffEnds, Goto
    <2>3. \A e \in Dispatchers : /\ disp'[e].job = disp[e].job
                                 /\ disp'[e].at = disp[e].at /\ disp'[e].recs = disp[e].recs
      BY <2>2, <1>t DEF Dispatcher
    <2>4. page' \in [Jobs -> 0..3]
          /\ \A j \in Jobs : page'[j] = page[j] \/ \E e \in Dispatchers : disp[e].job = j
      <3>1. CASE MarkPage(d)
        <4>1. page' = [page EXCEPT ![disp[d].job] = disp[d].at] /\ disp[d].at \in 0..3
              /\ disp[d].job \in Jobs
          BY <3>1, PageInReach DEF MarkPage
        <4>2. \A j \in Jobs : j # disp[d].job => page'[j] = page[j]
          BY <4>1, <1>t
        <4>3. page' \in [Jobs -> 0..3]
          BY <4>1, <1>t
        <4> QED
          BY <4>2, <4>3
      <3>2. CASE ~MarkPage(d)
        BY <1>5, <3>2, <1>t DEF WaitForCooldown, BudgetDue, RateLimited, BackoffEnds, queueVars
      <3> QED
        BY <3>1, <3>2
    <2> QED
      BY <2>1, <2>3, <2>4, WithinJobs
  <1> QED
    BY <1>1, <1>2, <1>3, <1>4, <1>5

\* Steps from outside that put running jobs back.
LEMMA ResetWorks ==
    ASSUME TypeInv, WorkInv, Stop \/ WatchdogFires \/ TabClosed \/ ClosePool \/ Restart
    PROVE  WorkInv'
  <1>1. UNCHANGED <<page, results>>
    BY DEF Stop, WatchdogFires, TabClosed, ClosePool, Restart
  <1>2. \A tabs : TabJobs(tabs) \in SUBSET Running
    BY DEF TabJobs
  <1>3. CASE Stop
    BY <1>1, <1>3, JobsReset DEF Stop
  <1>4. CASE WatchdogFires
    <2>1. PICK js \in SUBSET {j \in Running : Stalled(j)} : Reset(js) /\ UNCHANGED disp
      BY <1>4 DEF WatchdogFires
    <2>2. js \in SUBSET Running
      BY <2>1
    <2> HIDE DEF Reset
    <2> QED
      BY <1>1, <2>1, <2>2, JobsReset
  <1>5. CASE TabClosed
    <2>1. PICK t \in open : Reset(IF pool[t] = "busy" THEN TabJobs({t}) ELSE {}) /\ UNCHANGED disp
      BY <1>5 DEF TabClosed
    <2>2. PICK js \in SUBSET Running : Reset(js)
      BY <1>2, <2>1
    <2> QED
      BY <1>1, <2>1, <2>2, JobsReset
  <1>6. CASE ClosePool
    <2>1. Reset(TabJobs({t \in Tabs : pool[t] = "busy"})) /\ UNCHANGED disp
      BY <1>6 DEF ClosePool
    <2> QED
      BY <1>1, <1>2, <2>1, JobsReset
  <1>7. CASE Restart
    <2>1. Reset(Running) /\ \A d \in Dispatchers : disp'[d].job = NoJob
      BY <1>7 DEF Restart, Off
    <2> QED
      BY <1>1, <2>1, JobsReset
  <1> QED
    BY <1>3, <1>4, <1>5, <1>6, <1>7

LEMMA WorkKept == TypeInv /\ WorkInv /\ [Next]_vars => WorkInv'
  <1> SUFFICES ASSUME TypeInv, WorkInv, [Next]_vars PROVE WorkInv'
    OBVIOUS
  <1>1. CASE RemoveJob \/ ClearComplete \/ ClearPending
    <2>1. PICK js \in SUBSET Jobs : Remove(js)
      BY <1>1 DEF RemoveJob, ClearComplete, ClearPending, Pending
    <2> QED
      BY <2>1, RemoveWorks
  <1>2. CASE AddJob
    BY <1>2, AddWorks
  <1> QED
    BY <1>1, <1>2, LocalWorks, ResetWorks, ClaimWorks, FetchWorks, FinishWorks, GiveBackWorks,
       FailWorks DEF Next, System, Environment, DispatcherStep

LEMMA WorkInvariant == Spec => []WorkInv
  <1> QED
    BY InitWork, WorkKept, TypeInvariant, PTL DEF Spec

\* A running job of the queue always has a dispatcher that will end its work or
\* give it back, whatever stops, restarts, closed tabs and resets came before.
THEOREM RunningJobsAreWorkedOn == Spec => []RunningHasDispatcher
  <1>1. WorkInv => RunningHasDispatcher
    BY DEF WorkInv
  <1> QED
    BY <1>1, WorkInvariant, PTL

\* Two dispatchers read one job only after it was reset under one of them, and
\* a job that never was is complete only with every page of its results.
THEOREM UndisturbedRunsAreWhole == Spec => []RunsAreWhole
  <1>1. TypeInv /\ WorkInv => RunsAreWhole
    BY DEF TypeInv, WorkInv, RunsAreWhole
  <1> QED
    BY <1>1, TypeInvariant, WorkInvariant, PTL
=============================================================================
