------------------------ MODULE PropertySalesProofs -------------------------
(* Proofs about the way of property sales: the popup's panel and selects,   *)
(* the reading of a page, the ingestion and the publication of the files,   *)
(* and the unattended collector, which implements PageLedger.               *)
EXTENDS SoldCollector, ScraperPanel, ScraperPopup, PageExtraction, PropertyIngestion,
        FiniteSetTheorems, WellFoundedInduction, TLAPS

-----------------------------------------------------------------------------
(* The panel of the popup.  What it will show once the inbox is empty is    *)
(* the worker's state, unless something is still to be sent.                *)
Latest == IF inbox = <<>> THEN view ELSE inbox[Len(inbox)]
NewsIsOwed == ~owed /\ ~asked /\ ~missed => Latest = Snapshot
PanelInv == PanelTypeOK /\ NewsIsOwed

(* A snapshot is typed when the worker's state is.                          *)
LEMMA SnapshotTyped ==
    ASSUME NEW z, NEW p, NEW q
    PROVE  [job |-> z, processing |-> p, paused |-> q] \in States
              <=> z \in [Jobs -> JobStatus \cup {Absent}] /\ p \in BOOLEAN /\ q \in BOOLEAN
BY Zenon DEF States

LEMMA SetTyped ==
    ASSUME PanelTypeOK, NEW from, NEW to \in JobStatus \cup {Absent}
    PROVE  Set(from, to) \in [Jobs -> JobStatus \cup {Absent}]
<1>1. job \in [Jobs -> JobStatus \cup {Absent}]
  BY SnapshotTyped, Zenon DEF PanelTypeOK, Snapshot
<1>2. QED BY <1>1 DEF Set

(* The message handler leaves the panel with a question to ask.             *)
LEMMA CommandKeeps ==
    ASSUME PanelInv, NEW z \in [Jobs -> JobStatus \cup {Absent}], NEW p \in BOOLEAN,
           NEW q \in BOOLEAN, Command(z, p, q)
    PROVE  PanelInv'
<1>1. Snapshot' \in States
  <2>1. Snapshot' = [job |-> z, processing |-> p, paused |-> q]
    BY Zenon DEF Snapshot, Command
  <2>2. QED BY <2>1, SnapshotTyped, Zenon
<1>2. PanelTypeOK'
  BY <1>1, Zenon DEF PanelInv, PanelTypeOK, Command, Announced
<1>3. NewsIsOwed'
  BY Zenon DEF NewsIsOwed, Command
<1>4. QED BY <1>2, <1>3, Zenon DEF PanelInv

(* A snapshot that is sent is the worker's state.                           *)
LEMMA SendingTells ==
    ASSUME PanelInv, Sends, UNCHANGED <<workVars, view>>,
           owed' \in BOOLEAN, asked' \in BOOLEAN
    PROVE  PanelInv'
<1>1. Snapshot' = Snapshot /\ Snapshot \in States
  BY Zenon DEF Snapshot, workVars, PanelInv, PanelTypeOK
<1>2. inbox \in Seq(States) /\ MaxInbox \in Nat
  BY PanelAssumption, Zenon DEF PanelInv, PanelTypeOK
<1>3. /\ inbox' \in Seq(States) /\ Len(inbox') = Len(inbox) + 1 /\ inbox' # <<>>
      /\ inbox'[Len(inbox')] = Snapshot /\ Len(inbox') <= MaxInbox
  BY <1>1, <1>2 DEF Sends
<1>4. PanelTypeOK'
  BY <1>1, <1>3, Zenon DEF PanelInv, PanelTypeOK, Sends
<1>5. NewsIsOwed'
  BY <1>1, <1>3, Zenon DEF NewsIsOwed, Latest
<1>6. QED BY <1>4, <1>5, Zenon DEF PanelInv

(* Taking the head of a sequence leaves what ends it.                       *)
LEMMA LastOfTail ==
    ASSUME NEW S, NEW q \in Seq(S), q # <<>>
    PROVE  /\ Head(q) \in S /\ Tail(q) \in Seq(S) /\ Len(Tail(q)) = Len(q) - 1
           /\ Tail(q) = <<>> => Head(q) = q[Len(q)]
           /\ Tail(q) # <<>> => Tail(q)[Len(Tail(q))] = q[Len(q)]
<1>1. Len(q) \in Nat /\ Len(q) > 0
  OBVIOUS
<1>2. Head(q) \in S /\ Tail(q) \in Seq(S) /\ Len(Tail(q)) = Len(q) - 1
  BY <1>1
<1>3. Tail(q) = <<>> => Len(q) = 1
  <2>1. Len(<<>>) = 0
    OBVIOUS
  <2>2. Tail(q) = <<>> => Len(Tail(q)) = 0
    BY <2>1, Zenon
  <2>3. QED BY <1>1, <1>2, <2>2
<1>4. Head(q) = q[1]
  OBVIOUS
<1>5. ASSUME Tail(q) # <<>> PROVE Tail(q)[Len(Tail(q))] = q[Len(q)]
  <2>1. Len(Tail(q)) \in 1..Len(Tail(q))
    BY <1>1, <1>2, <1>5
  <2>2. Len(q) > 1
    BY <1>1, <1>2, <2>1
  <2>3. \A i \in 1..Len(Tail(q)) : Tail(q)[i] = q[i + 1]
    BY <1>2
  <2>4. QED BY <1>1, <1>2, <2>1, <2>3
<1>6. QED BY <1>2, <1>3, <1>4, <1>5

LEMMA PanelInitInv == PanelInit => PanelInv
<1>1. SUFFICES ASSUME PanelInit PROVE PanelInv
  OBVIOUS
<1>2. [j \in Jobs |-> Absent] \in [Jobs -> JobStatus \cup {Absent}]
  OBVIOUS
<1>3. Snapshot = Blank /\ view = Blank
  BY <1>1, Zenon DEF PanelInit, Snapshot, Blank
<1>4. Blank \in States
  BY <1>2, SnapshotTyped, Zenon DEF Blank
<1>5. <<>> \in Seq(States) /\ Len(<<>>) = 0 /\ 0 <= MaxInbox
  BY PanelAssumption
<1>6. PanelTypeOK
  BY <1>1, <1>3, <1>4, <1>5, Zenon DEF PanelTypeOK, PanelInit
<1>7. QED BY <1>1, <1>6, Zenon DEF PanelInv, NewsIsOwed, PanelInit

LEMMA PanelStep == PanelInv /\ [PanelNext]_panelVars => PanelInv'
<1>1. SUFFICES ASSUME PanelInv, [PanelNext]_panelVars PROVE PanelInv'
  OBVIOUS
<1>2. /\ job \in [Jobs -> JobStatus \cup {Absent}]
      /\ processing \in BOOLEAN /\ paused \in BOOLEAN
  BY <1>1, SnapshotTyped, Zenon DEF PanelInv, PanelTypeOK, Snapshot
<1>3. \A z \in [Jobs -> JobStatus \cup {Absent}], p, q \in BOOLEAN : Command(z, p, q) => PanelInv'
  BY <1>1, CommandKeeps, Zenon
<1>4. TRUE \in BOOLEAN /\ FALSE \in BOOLEAN /\ {"pending", Absent} \subseteq JobStatus \cup {Absent}
  BY DEF JobStatus
<1>5. \A from : /\ Set(from, "pending") \in [Jobs -> JobStatus \cup {Absent}]
                /\ Set(from, Absent) \in [Jobs -> JobStatus \cup {Absent}]
  BY <1>1, <1>4, SetTyped, Zenon DEF PanelInv
<1>6. ASSUME NEW j \in Jobs, AddJob(j) PROVE PanelInv'
  <2>1. [job EXCEPT ![j] = "pending"] \in [Jobs -> JobStatus \cup {Absent}]
    BY <1>2, <1>4
  <2>2. QED BY <1>2, <1>3, <1>6, <2>1, Zenon DEF AddJob
<1>7. ASSUME NEW j \in Jobs, RemoveJob(j) PROVE PanelInv'
  <2>1. [job EXCEPT ![j] = Absent] \in [Jobs -> JobStatus \cup {Absent}]
    BY <1>2, <1>4
  <2>2. QED BY <1>2, <1>3, <1>7, <2>1, Zenon DEF RemoveJob
<1>8. ASSUME NEW j \in Jobs, NEW s \in JobStatus, JobMoves(j, s) PROVE PanelInv'
  <2>1. job' \in [Jobs -> JobStatus \cup {Absent}]
    BY <1>2, <1>8 DEF JobMoves
  <2>2. processing' = processing /\ paused' = paused
    BY <1>8, Zenon DEF JobMoves
  <2>3. Snapshot' \in States
    BY <1>2, <2>1, <2>2, SnapshotTyped, Zenon DEF Snapshot
  <2>4. PanelTypeOK'
    BY <1>1, <1>8, <2>3, Zenon DEF JobMoves, Announced, PanelInv, PanelTypeOK
  <2>5. QED BY <1>8, <2>4, Zenon DEF JobMoves, Announced, PanelInv, NewsIsOwed
<1>9. ASSUME Start PROVE PanelInv'
  <2>1. CASE processing
    <3>1. PanelTypeOK' /\ asked'
      BY <1>1, <1>9, <2>1, Zenon DEF Start, workVars, PanelInv, PanelTypeOK, Snapshot
    <3>2. QED BY <3>1, Zenon DEF PanelInv, NewsIsOwed
  <2>2. CASE ~processing
    BY <1>2, <1>3, <1>4, <1>9, <2>2, Zenon DEF Start
  <2>3. QED BY <2>1, <2>2, Zenon
<1>10. ASSUME Pause \/ Resume PROVE PanelInv'
  BY <1>2, <1>3, <1>4, <1>10, Zenon DEF Pause, Resume
<1>11. ASSUME Stop \/ ClearComplete \/ ClearPending PROVE PanelInv'
  BY <1>2, <1>3, <1>4, <1>5, <1>11, Zenon DEF Stop, ClearComplete, ClearPending
<1>12. ASSUME ProcessingEnds PROVE PanelInv'
  <2>1. Snapshot' \in States
    BY <1>2, <1>4, <1>12, SnapshotTyped, Zenon DEF ProcessingEnds, Snapshot
  <2>2. PanelTypeOK'
    BY <1>1, <1>12, <2>1, Zenon DEF ProcessingEnds, Announced, PanelInv, PanelTypeOK
  <2>3. QED BY <1>12, <2>2, Zenon DEF ProcessingEnds, Announced, PanelInv, NewsIsOwed
<1>13. ASSUME WorkerRestarts PROVE PanelInv'
  <2>1. Snapshot' \in States
    BY <1>4, <1>5, <1>13, SnapshotTyped, Zenon DEF WorkerRestarts, Snapshot
  <2>2. asked' \in BOOLEAN
    BY <1>1, <1>13, Zenon DEF WorkerRestarts, PanelInv, PanelTypeOK
  <2>3. PanelTypeOK'
    BY <1>1, <1>13, <2>1, <2>2, Zenon DEF WorkerRestarts, PanelInv, PanelTypeOK
  <2>4. QED BY <1>13, <2>3, Zenon DEF WorkerRestarts, PanelInv, NewsIsOwed
<1>14. ASSUME Broadcast \/ AnswerState PROVE PanelInv'
  <2>1. owed' \in BOOLEAN /\ asked' \in BOOLEAN /\ Sends /\ UNCHANGED <<workVars, view>>
    BY <1>1, <1>14, Zenon DEF Broadcast, AnswerState, PanelInv, PanelTypeOK
  <2>2. QED BY <1>1, <2>1, SendingTells, Zenon
<1>15. ASSUME ApplySnapshot PROVE PanelInv'
  <2>1. inbox \in Seq(States) /\ inbox # <<>> /\ Len(inbox) <= MaxInbox /\ MaxInbox \in Nat
    BY <1>1, <1>15, PanelAssumption, Zenon DEF ApplySnapshot, PanelInv, PanelTypeOK
  <2>2. /\ Head(inbox) \in States /\ Tail(inbox) \in Seq(States)
        /\ Len(Tail(inbox)) <= MaxInbox
        /\ Tail(inbox) = <<>> => Head(inbox) = inbox[Len(inbox)]
        /\ Tail(inbox) # <<>> => Tail(inbox)[Len(Tail(inbox))] = inbox[Len(inbox)]
    BY <2>1, LastOfTail
  <2>3. view' = Head(inbox) /\ inbox' = Tail(inbox) /\ UNCHANGED <<workVars, owed, asked, missed>>
    BY <1>15, Zenon DEF ApplySnapshot, Render
  <2>4. Snapshot' = Snapshot
    BY <2>3, Zenon DEF Snapshot, workVars
  <2>5. Latest' = Latest
    BY <2>1, <2>2, <2>3, Zenon DEF Latest
  <2>6. PanelTypeOK'
    BY <1>1, <2>2, <2>3, <2>4, Zenon DEF PanelInv, PanelTypeOK
  <2>7. QED BY <1>1, <2>3, <2>4, <2>5, <2>6, Zenon DEF PanelInv, NewsIsOwed
<1>16. ASSUME PanelReopens PROVE PanelInv'
  <2>1. <<>> \in Seq(States) /\ Len(<<>>) = 0 /\ 0 <= MaxInbox
    BY PanelAssumption
  <2>2. [j \in Jobs |-> Absent] \in [Jobs -> JobStatus \cup {Absent}]
    OBVIOUS
  <2>3. Blank \in States
    BY <1>4, <2>2, SnapshotTyped, Zenon DEF Blank
  <2>4. Snapshot' = Snapshot
    BY <1>16, Zenon DEF PanelReopens, workVars, Snapshot
  <2>5. PanelTypeOK'
    BY <1>1, <1>16, <2>1, <2>3, <2>4, Zenon DEF PanelReopens, PanelInv, PanelTypeOK
  <2>6. QED BY <1>16, <2>5, Zenon DEF PanelReopens, PanelInv, NewsIsOwed
<1>17. ASSUME UNCHANGED panelVars PROVE PanelInv'
  <2>1. UNCHANGED <<job, processing, paused, owed, asked, missed, inbox, view>>
    BY <1>17, Zenon DEF panelVars, workVars, viewVars
  <2>2. QED
    BY <1>1, <2>1, Zenon DEF PanelInv, PanelTypeOK, NewsIsOwed, Latest, Snapshot
<1>18. CASE PanelNext
  BY <1>6, <1>7, <1>8, <1>9, <1>10, <1>11, <1>12, <1>13, <1>14, <1>15, <1>16, <1>18, Zenon
  DEF PanelNext, Working
<1>19. QED BY <1>1, <1>17, <1>18, Zenon

(* A popup with nothing on its way to it shows the state the worker is in,  *)
(* for any number of jobs and messages: the buttons are drawn from it.      *)
THEOREM PanelCatchesUp == PanelSpec => []PanelFollowsWorker
<1>1. PanelInv => PanelFollowsWorker
  BY Zenon DEF PanelInv, NewsIsOwed, Latest, PanelFollowsWorker, QuietViewIsCurrent
<1>2. QED BY <1>1, PanelInitInv, PanelStep, PTL DEF PanelSpec

-----------------------------------------------------------------------------
(* The choices of the popup.                                                *)

(* What the selects offer are localities of the dataset they were filled    *)
(* from, under the choices made above them.                                 *)
DatasetsHeld == {stored, postcodes} \subseteq {{}} \cup Datasets
OffersStand ==
    /\ sel = [state |-> sel.state, postcode |-> sel.postcode,
              suburb |-> sel.suburb, type |-> sel.type]
    /\ pcOptions \subseteq PostcodesOf(sel.state)
    /\ subOptions \subseteq SuburbsOf(sel.state, sel.postcode)
SelectInv ==
    /\ load \in {"idle", "refresh", "ask", "fetch", "askAgain"} /\ addAll \in BOOLEAN
    /\ DatasetsHeld /\ OffersStand /\ SelectionIsLocality

(* What a handler has yet to send: suburbs of the choice it captured, from  *)
(* a dataset the popup may no longer hold, or slices of a plan.             *)
SuburbsIn(base) == {r.l : r \in {q \in Localities : q.s = base.state /\ q.p = base.postcode}}
PlanSlices == UNION {ToSet(file) : file \in PlanFiles}
ToSend(kind, base) ==
    CASE kind = "idle" -> {} [] kind = "plan" -> PlanSlices [] OTHER -> SuburbsIn(base)
Holds(work) ==
    /\ work.kind \in {"idle", "all", "form", "plan"}
    /\ work = [kind |-> work.kind, todo |-> work.todo, base |-> work.base, filters |-> work.filters]
    /\ work.todo \in Seq(ToSend(work.kind, work.base))
HandlersHold ==
    /\ handler = [h \in Handlers |-> handler[h]]
    /\ \A h \in Handlers : Holds(handler[h])

QueueInv ==
    /\ nextId \in Nat /\ nextId <= MaxJobs
    /\ \A j \in queue : /\ j = [id |-> j.id, slice |-> j.slice, failed |-> j.failed]
                        /\ j.id \in 1..nextId /\ j.failed \in BOOLEAN
    /\ JobsAreLocalities
    /\ SliceQueuedOnce

PopupInv == SelectInv /\ HandlersHold /\ QueueInv

(* A dataset holds localities, and finitely many.                           *)
LEMMA DatasetFacts ==
    ASSUME NEW d \in {{}} \cup Datasets
    PROVE  /\ d \subseteq Localities /\ IsFiniteSet(d)
           /\ \A r \in d : r = [s |-> r.s, p |-> r.p, l |-> r.l] /\ NoChoice \notin {r.s, r.p, r.l}
<1>1. CASE d = {}
  BY <1>1, FS_EmptySet, Zenon
<1>2. CASE d \in Datasets
  BY <1>2, PopupAssumption, Zenon DEF Localities
<1>3. QED BY <1>1, <1>2, Zenon

LEMMA LocalityShape ==
    \A r \in Localities : r = [s |-> r.s, p |-> r.p, l |-> r.l]
BY PopupAssumption, Zenon DEF Localities

LEMMA PopupTypes == PopupInv => PopupTypeOK
<1>1. SUFFICES ASSUME PopupInv PROVE PopupTypeOK
  OBVIOUS
<1>2. stored \in {{}} \cup Datasets /\ postcodes \in {{}} \cup Datasets
  BY <1>1, Zenon DEF PopupInv, SelectInv, DatasetsHeld
<1>3. stored \subseteq Localities /\ postcodes \subseteq Localities
  BY <1>2, DatasetFacts, Zenon
<1>4. /\ pcOptions \subseteq {r.p : r \in Localities}
      /\ subOptions \subseteq {r.l : r \in Localities}
  BY <1>1, <1>3, Zenon DEF PopupInv, SelectInv, OffersStand, PostcodesOf, SuburbsOf
<1>5. \A h \in Handlers : handler[h].kind \in {"idle", "all", "form", "plan"}
  BY <1>1, Zenon DEF PopupInv, HandlersHold, Holds
<1>6. QED
  BY <1>1, <1>3, <1>4, <1>5, Zenon DEF PopupInv, SelectInv, QueueInv, PopupTypeOK

(* The suburbs offered can be put in an order to be sent in.                *)
LEMMA OrderOfOptions ==
    ASSUME NEW S, IsFiniteSet(S)
    PROVE  SetToSeq(S) \in Seq(S)
<1>1. Cardinality(S) \in Nat /\ ExistsBijection(1..Cardinality(S), S)
  BY FS_CardinalityType
<1>2. \E f \in [1..Cardinality(S) -> S] : IsInjective(f)
  BY <1>1, Zenon DEF ExistsBijection, Bijection, Injection
<1>3. SetToSeq(S) \in [1..Cardinality(S) -> S]
  BY <1>2, Zenon DEF SetToSeq
<1>4. QED BY <1>1, <1>3

LEMMA OptionsAreFinite ==
    ASSUME SelectInv
    PROVE  IsFiniteSet(subOptions)
<1>1. postcodes \in {{}} \cup Datasets
  BY Zenon DEF SelectInv, DatasetsHeld
<1>2. IsFiniteSet(postcodes)
  BY <1>1, DatasetFacts, Zenon
<1> DEFINE D == {q \in postcodes : q.s = sel.state /\ q.p = sel.postcode}
           T == {r.l : r \in D}
           g == [r \in D |-> r.l]
<1>3. IsFiniteSet(D)
  BY <1>2, FS_Subset
<1>4. g \in Surjection(D, T)
  BY Zenon DEF Surjection
<1> HIDE DEF g
<1>5. IsFiniteSet(T)
  BY <1>3, <1>4, FS_Surjection, Zenon
<1>6. subOptions \subseteq T
  BY Zenon DEF SelectInv, OffersStand, SuburbsOf
<1>7. QED BY <1>5, <1>6, FS_Subset, Zenon

-----------------------------------------------------------------------------
(* The selects, action by action.                                           *)
LEMMA SelectingKeeps ==
    ASSUME SelectInv, Selecting
    PROVE  SelectInv'
<1>1. /\ sel = [state |-> sel.state, postcode |-> sel.postcode,
                suburb |-> sel.suburb, type |-> sel.type]
      /\ pcOptions \subseteq PostcodesOf(sel.state)
      /\ subOptions \subseteq SuburbsOf(sel.state, sel.postcode)
  BY Zenon DEF SelectInv, OffersStand
<1>2. /\ \A choice : Complete(choice) \in BOOLEAN
      /\ addAll \in BOOLEAN /\ load \in {"idle", "refresh", "ask", "fetch", "askAgain"}
      /\ DatasetsHeld
  BY Zenon DEF Complete, SelectInv
<1>3. ASSUME UNCHANGED dataVars, addAll' \in BOOLEAN, OffersStand', SelectionIsLocality'
      PROVE  SelectInv'
  BY <1>2, <1>3, Zenon DEF SelectInv, DatasetsHeld, dataVars
<1>4. ASSUME NEW r \in postcodes, ChooseState(r.s) PROVE SelectInv'
  <2>1. /\ sel' = [state |-> r.s, postcode |-> NoChoice, suburb |-> NoChoice, type |-> sel.type]
        /\ pcOptions' = PostcodesOf(r.s) /\ subOptions' = {} /\ addAll' = FALSE
        /\ postcodes' = postcodes /\ UNCHANGED dataVars
    BY <1>1, <1>4 DEF ChooseState, dataVars
  <2>2. sel'.state = r.s /\ sel'.postcode = NoChoice /\ sel'.suburb = NoChoice /\ sel'.type = sel.type
    BY <2>1
  <2>3. OffersStand'
    BY <2>1, <2>2, Zenon DEF OffersStand, PostcodesOf
  <2>4. SelectionIsLocality'
    BY <2>2, Zenon DEF SelectionIsLocality
  <2>5. QED BY <1>3, <2>1, <2>3, <2>4, Zenon
<1>5. ASSUME NEW p \in pcOptions, ChoosePostcode(p) PROVE SelectInv'
  <2>1. /\ sel' = [state |-> sel.state, postcode |-> p, suburb |-> NoChoice, type |-> sel.type]
        /\ pcOptions' = pcOptions /\ subOptions' = SuburbsOf(sel.state, p)
        /\ postcodes' = postcodes /\ UNCHANGED dataVars
    BY <1>1, <1>5 DEF ChoosePostcode, dataVars
  <2>2. sel'.state = sel.state /\ sel'.postcode = p /\ sel'.suburb = NoChoice /\ sel'.type = sel.type
    BY <2>1
  <2>3. OffersStand'
    BY <1>1, <2>1, <2>2, Zenon DEF OffersStand, PostcodesOf, SuburbsOf
  <2>4. SelectionIsLocality'
    BY <1>1, <1>5, <2>1, <2>2, Zenon DEF SelectionIsLocality, PostcodesOf
  <2>5. addAll' \in BOOLEAN
    BY <1>5, Zenon DEF ChoosePostcode, Complete
  <2>6. QED BY <1>3, <2>1, <2>3, <2>4, <2>5, Zenon
<1>6. ASSUME NEW l \in subOptions, ChooseSuburb(l) PROVE SelectInv'
  <2>1. /\ sel' = [state |-> sel.state, postcode |-> sel.postcode, suburb |-> l, type |-> sel.type]
        /\ pcOptions' = pcOptions /\ subOptions' = subOptions /\ addAll' = addAll
        /\ postcodes' = postcodes /\ UNCHANGED dataVars
    BY <1>1, <1>6 DEF ChooseSuburb, dataVars
  <2>2. sel'.state = sel.state /\ sel'.postcode = sel.postcode /\ sel'.suburb = l /\ sel'.type = sel.type
    BY <2>1
  <2>3. OffersStand'
    BY <1>1, <2>1, <2>2, Zenon DEF OffersStand, PostcodesOf, SuburbsOf
  <2>4. SelectionIsLocality'
    BY <1>1, <1>6, <2>1, <2>2, Zenon DEF SelectInv, SelectionIsLocality, SuburbsOf
  <2>5. QED BY <1>2, <1>3, <2>1, <2>3, <2>4, Zenon
<1>7. ASSUME NEW t \in Types, ChooseType(t) PROVE SelectInv'
  <2>1. /\ sel' = [state |-> sel.state, postcode |-> sel.postcode, suburb |-> sel.suburb, type |-> t]
        /\ pcOptions' = pcOptions /\ subOptions' = subOptions
        /\ postcodes' = postcodes /\ UNCHANGED dataVars
    BY <1>1, <1>7 DEF ChooseType, dataVars
  <2>2. sel'.state = sel.state /\ sel'.postcode = sel.postcode /\ sel'.suburb = sel.suburb /\ sel'.type = t
    BY <2>1
  <2>3. OffersStand'
    BY <1>1, <2>1, <2>2, Zenon DEF OffersStand, PostcodesOf, SuburbsOf
  <2>4. SelectionIsLocality'
    BY <2>1, <2>2, Zenon DEF SelectInv, SelectionIsLocality
  <2>5. addAll' \in BOOLEAN
    BY <1>7, Zenon DEF ChooseType, Complete
  <2>6. QED BY <1>3, <2>1, <2>3, <2>4, <2>5, Zenon
<1>8. ASSUME ClearSelections PROVE SelectInv'
  <2>1. /\ sel' = Nothing /\ pcOptions' = {} /\ subOptions' = {} /\ addAll' = addAll
        /\ UNCHANGED dataVars
    BY <1>8, Zenon DEF ClearSelections
  <2>2. Nothing.postcode = NoChoice /\ Nothing.suburb = NoChoice
    BY DEF Nothing
  <2>3. Nothing = [state |-> Nothing.state, postcode |-> Nothing.postcode,
                   suburb |-> Nothing.suburb, type |-> Nothing.type]
    BY DEF Nothing
  <2>4. OffersStand'
    BY <2>1, <2>3, Zenon DEF OffersStand
  <2>5. SelectionIsLocality'
    BY <2>1, <2>2, Zenon DEF SelectionIsLocality
  <2>6. QED BY <1>2, <1>3, <2>1, <2>4, <2>5, Zenon
<1>9. QED BY <1>4, <1>5, <1>6, <1>7, <1>8, Zenon DEF Selecting

(* The dataset: a new one empties the selects drawn from the old one.       *)
LEMMA LoadingKeeps ==
    ASSUME SelectInv, ReadPostcodes \/ FetchPostcodes \/ RefreshData
    PROVE  SelectInv'
<1> DEFINE Loads == {"idle", "refresh", "ask", "fetch", "askAgain"}
<1>1. /\ sel = [state |-> sel.state, postcode |-> sel.postcode,
                suburb |-> sel.suburb, type |-> sel.type]
      /\ {stored, postcodes} \subseteq {{}} \cup Datasets /\ addAll \in BOOLEAN
  BY Zenon DEF SelectInv, OffersStand, DatasetsHeld
<1>2. ASSUME UNCHANGED <<postcodes, selectVars>>, load' \in Loads,
             stored' \in {{}} \cup Datasets
      PROVE  SelectInv'
  BY <1>1, <1>2, Zenon
  DEF SelectInv, OffersStand, DatasetsHeld, selectVars, SelectionIsLocality, PostcodesOf, SuburbsOf
<1>3. ASSUME ReadPostcodes PROVE SelectInv'
  <2>1. CASE stored = {} /\ load = "ask"
    BY <1>1, <1>2, <1>3, <2>1, Zenon DEF ReadPostcodes
  <2>2. CASE ~(stored = {} /\ load = "ask")
    <3>1. /\ load' = "idle" /\ postcodes' = (IF stored = {} THEN postcodes ELSE stored)
          /\ PopulateStates /\ addAll' = addAll /\ stored' = stored
      BY <1>3, <2>2, Zenon DEF ReadPostcodes
    <3>2. {stored', postcodes'} \subseteq {{}} \cup Datasets
      BY <1>1, <3>1, Zenon
    <3>3. /\ sel' = [state |-> NoChoice, postcode |-> NoChoice, suburb |-> NoChoice, type |-> sel.type]
          /\ pcOptions' = {} /\ subOptions' = {}
      BY <3>1 DEF PopulateStates, Nothing
    <3>4. sel'.state = NoChoice /\ sel'.postcode = NoChoice /\ sel'.suburb = NoChoice /\ sel'.type = sel.type
      BY <3>3
    <3>5. OffersStand' /\ SelectionIsLocality'
      BY <3>3, <3>4, Zenon DEF OffersStand, SelectionIsLocality
    <3>6. QED BY <1>1, <3>1, <3>2, <3>5, Zenon DEF SelectInv, DatasetsHeld
  <2>3. QED BY <2>1, <2>2, Zenon
<1>4. ASSUME FetchPostcodes PROVE SelectInv'
  <2>1. load' \in Loads /\ stored' \in {{}} \cup Datasets /\ UNCHANGED <<postcodes, selectVars>>
    BY <1>1, <1>4, Zenon DEF FetchPostcodes
  <2>2. QED BY <1>2, <2>1, Zenon
<1>5. ASSUME RefreshData PROVE SelectInv'
  BY <1>1, <1>2, <1>5, Zenon DEF RefreshData
<1>6. QED BY <1>3, <1>4, <1>5, Zenon

-----------------------------------------------------------------------------
(* The handlers, and the jobs they queue.                                   *)
LEMMA HandlerSet ==
    ASSUME HandlersHold, NEW h \in Handlers, NEW work, Holds(work),
           handler' = [handler EXCEPT ![h] = work]
    PROVE  HandlersHold'
<1>1. handler' = [k \in Handlers |-> handler'[k]]
  BY DEF HandlersHold
<1>2. \A k \in Handlers : handler'[k] = IF k = h THEN work ELSE handler[k]
  BY DEF HandlersHold
<1>3. \A k \in Handlers : Holds(handler'[k])
  BY <1>2, Zenon DEF HandlersHold
<1>4. QED BY <1>1, <1>3, Zenon DEF HandlersHold

(* A handler at rest has nothing to send, whatever kind it was.             *)
LEMMA RestHolds ==
    ASSUME NEW kind \in {"idle", "all", "form", "plan"}
    PROVE  Holds([Idle EXCEPT !.kind = kind])
<1>1. [Idle EXCEPT !.kind = kind]
         = [kind |-> kind, todo |-> <<>>, base |-> Nothing, filters |-> "plain"]
  BY DEF Idle
<1>2. PICK work : work = [kind |-> kind, todo |-> <<>>, base |-> Nothing, filters |-> "plain"]
  OBVIOUS
<1>3. work.kind = kind /\ work.todo = <<>> /\ work.base = Nothing /\ work.filters = "plain"
  BY <1>2
<1>4. \A S : <<>> \in Seq(S)
  OBVIOUS
<1>5. Holds(work)
  BY <1>2, <1>3, <1>4, Zenon DEF Holds
<1>6. QED BY <1>1, <1>2, <1>5, Zenon

LEMMA IdleHolds == Holds(Idle) /\ Idle.kind = "idle"
<1>1. Idle = [Idle EXCEPT !.kind = "idle"] /\ Idle.kind = "idle"
  BY DEF Idle
<1>2. Holds([Idle EXCEPT !.kind = "idle"])
  BY RestHolds, Zenon
<1>3. QED BY <1>1, <1>2, Zenon

LEMMA BeginKeeps ==
    ASSUME HandlersHold, NEW h \in Handlers, NEW kind \in {"all", "form", "plan"},
           NEW base, NEW filters, NEW todo \in Seq(ToSend(kind, base)),
           Begin(h, kind, todo, base, filters)
    PROVE  HandlersHold'
<1>1. PICK work : work = [kind |-> kind, todo |-> todo, base |-> base, filters |-> filters]
  OBVIOUS
<1>2. work.kind = kind /\ work.todo = todo /\ work.base = base /\ work.filters = filters
  BY <1>1
<1>3. Holds(work)
  BY <1>1, <1>2, Zenon DEF Holds
<1>4. handler' = [handler EXCEPT ![h] = work]
  BY <1>1, Zenon DEF Begin
<1>5. QED BY <1>3, <1>4, HandlerSet, Zenon

(* A handler's slices are of the choice it captured, or of a plan.          *)
LEMMA BeginningKeeps ==
    ASSUME SelectInv, HandlersHold, NEW h \in Handlers,
           \/ \E f \in Filters : AddAllClicked(h, f) \/ SubmitForm(h, f)
           \/ \E file \in PlanFiles : ImportPlan(h, file)
    PROVE  SelectInv' /\ HandlersHold'
<1>1. /\ sel = [state |-> sel.state, postcode |-> sel.postcode,
                suburb |-> sel.suburb, type |-> sel.type]
      /\ subOptions \subseteq SuburbsOf(sel.state, sel.postcode)
      /\ postcodes \subseteq Localities
  <2>1. postcodes \in {{}} \cup Datasets
    BY Zenon DEF SelectInv, DatasetsHeld
  <2>2. postcodes \subseteq Localities
    BY <2>1, DatasetFacts, Zenon
  <2>3. QED BY <2>2, Zenon DEF SelectInv, OffersStand
<1>2. Captured.state = sel.state /\ Captured.postcode = sel.postcode
  BY <1>1 DEF Captured
<1>3. SuburbsOf(sel.state, sel.postcode) \subseteq SuburbsIn(Captured)
  BY <1>1, <1>2, Zenon DEF SuburbsOf, SuburbsIn
<1>4. \A kind \in {"all", "form"} : ToSend(kind, Captured) = SuburbsIn(Captured)
  BY DEF ToSend
<1>5. ASSUME UNCHANGED <<dataVars, sel, pcOptions, subOptions>>, addAll' \in BOOLEAN
      PROVE  SelectInv'
  BY <1>5, Zenon
  DEF SelectInv, OffersStand, DatasetsHeld, dataVars, SelectionIsLocality, PostcodesOf, SuburbsOf
<1>6. ASSUME NEW f \in Filters, AddAllClicked(h, f) PROVE SelectInv' /\ HandlersHold'
  <2>1. SetToSeq(subOptions) \in Seq(subOptions)
    BY OptionsAreFinite, OrderOfOptions, Zenon
  <2>2. SetToSeq(subOptions) \in Seq(SuburbsIn(Captured))
    <3>1. subOptions \subseteq SuburbsIn(Captured)
      BY <1>1, <1>3, Zenon
    <3>2. QED BY <2>1, <3>1
  <2>3. Begin(h, "all", SetToSeq(subOptions), Captured, f)
    BY <1>6, Zenon DEF AddAllClicked
  <2>4. HandlersHold'
    BY <1>4, <2>2, <2>3, BeginKeeps, Zenon
  <2>5. SelectInv'
    BY <1>5, <1>6, Zenon DEF AddAllClicked
  <2>6. QED BY <2>4, <2>5
<1>7. ASSUME NEW f \in Filters, SubmitForm(h, f) PROVE SelectInv' /\ HandlersHold'
  <2>1. sel.suburb \in SuburbsIn(Captured)
    BY <1>1, <1>2, <1>7, Zenon DEF SubmitForm, SelectInv, SelectionIsLocality, SuburbsIn
  <2>2. <<sel.suburb>> \in Seq(SuburbsIn(Captured))
    BY <2>1
  <2>3. Begin(h, "form", <<sel.suburb>>, Captured, f)
    BY <1>7, Zenon DEF SubmitForm
  <2>4. HandlersHold'
    BY <1>4, <2>2, <2>3, BeginKeeps, Zenon
  <2>5. SelectInv'
    BY <1>5, <1>7, Zenon DEF SubmitForm, selectVars, SelectInv
  <2>6. QED BY <2>4, <2>5
<1>8. ASSUME NEW file \in PlanFiles, ImportPlan(h, file) PROVE SelectInv' /\ HandlersHold'
  <2>1. file \in Seq(ToSet(file)) /\ ToSet(file) \subseteq PlanSlices
    BY PopupAssumption, Zenon DEF PlanSlices
  <2>2. file \in Seq(PlanSlices)
    BY <2>1
  <2>3. ToSend("plan", Nothing) = PlanSlices
    BY DEF ToSend
  <2>4. Begin(h, "plan", file, Nothing, "plain")
    BY <1>8, Zenon DEF ImportPlan
  <2>5. HandlersHold'
    BY <2>2, <2>3, <2>4, BeginKeeps, Zenon
  <2>6. SelectInv'
    BY <1>5, <1>8, Zenon DEF ImportPlan, selectVars, SelectInv
  <2>7. QED BY <2>5, <2>6
<1>9. QED BY <1>6, <1>7, <1>8, Zenon

(* What is about to be sent is of a plan, or a locality that was offered.   *)
LEMMA PendingIsChosen ==
    ASSUME NEW h \in Handlers, HandlersHold, handler[h].todo # <<>>
    PROVE  \/ \E file \in PlanFiles : \E i \in DOMAIN file : file[i] = Pending(h)
           \/ [s |-> Pending(h).state, p |-> Pending(h).postcode, l |-> Pending(h).suburb]
                 \in Localities
<1> DEFINE work == handler[h]
<1>1. /\ work.kind \in {"idle", "all", "form", "plan"}
      /\ work.todo \in Seq(ToSend(work.kind, work.base))
  BY Zenon DEF HandlersHold, Holds
<1>2. Head(work.todo) \in ToSend(work.kind, work.base)
  BY <1>1
<1>3. CASE work.kind = "plan"
  <2>1. Head(work.todo) \in PlanSlices
    BY <1>2, <1>3 DEF ToSend
  <2>2. Pending(h) = Head(work.todo)
    BY <1>3 DEF Pending
  <2>3. QED BY <2>1, <2>2, Zenon DEF PlanSlices, ToSet
<1>4. CASE work.kind \in {"all", "form"}
  <2>1. Head(work.todo) \in SuburbsIn(work.base)
    BY <1>2, <1>4 DEF ToSend
  <2>2. Pending(h) = Slice(work.base, Head(work.todo), work.filters)
    BY <1>4 DEF Pending, SliceOfCapture
  <2>3. /\ Pending(h).state = work.base.state /\ Pending(h).postcode = work.base.postcode
        /\ Pending(h).suburb = Head(work.todo)
    BY <2>2 DEF Slice
  <2>4. PICK r \in Localities : /\ r.s = work.base.state /\ r.p = work.base.postcode
                                /\ r.l = Head(work.todo)
    BY <2>1, Zenon DEF SuburbsIn
  <2>5. [s |-> Pending(h).state, p |-> Pending(h).postcode, l |-> Pending(h).suburb] = r
    BY <2>3, <2>4, LocalityShape, Zenon
  <2>6. QED BY <2>5, Zenon
<1>5. CASE work.kind = "idle"
  BY <1>2, <1>5 DEF ToSend
<1>6. QED BY <1>1, <1>3, <1>4, <1>5, Zenon

(* A new job is queued beside none that is alive with its slice.            *)
LEMMA QueueSliceKeeps ==
    ASSUME QueueInv, NEW slice, Valid(slice), QueueSlice(slice),
           \/ \E file \in PlanFiles : \E i \in DOMAIN file : file[i] = slice
           \/ [s |-> slice.state, p |-> slice.postcode, l |-> slice.suburb] \in Localities
    PROVE  QueueInv'
<1>1. CASE Duplicate(slice)
  <2>1. UNCHANGED <<queue, nextId>>
    BY <1>1, Zenon DEF QueueSlice, queueVars
  <2>2. QED BY <2>1, Zenon DEF QueueInv, JobsAreLocalities, SliceQueuedOnce
<1>2. CASE ~Duplicate(slice)
  <2>1. PICK new : new = [id |-> nextId + 1, slice |-> slice, failed |-> FALSE]
    OBVIOUS
  <2>2. nextId < MaxJobs /\ nextId' = nextId + 1 /\ queue' = queue \cup {new}
    BY <1>2, <2>1, Zenon DEF QueueSlice
  <2>3. new.id = nextId + 1 /\ new.slice = slice /\ new.failed = FALSE
    BY <2>1
  <2>4. new = [id |-> new.id, slice |-> new.slice, failed |-> new.failed]
    BY <2>1, <2>3, Zenon
  <2>5. nextId \in Nat /\ MaxJobs \in Nat
    BY PopupAssumption, Zenon DEF QueueInv
  <2>6. /\ nextId' \in Nat /\ nextId' <= MaxJobs /\ new.id \in 1..nextId'
        /\ \A i \in 1..nextId : i \in 1..nextId'
    BY <2>2, <2>3, <2>5
  <2>7. JobsAreLocalities'
    BY <2>2, <2>3, Zenon DEF QueueInv, JobsAreLocalities
  <2>8. SliceQueuedOnce'
    <3>1. \A j \in queue : j.slice = slice => j.failed
      BY <1>2, Zenon DEF Duplicate
    <3>2. QED BY <2>2, <2>3, <3>1, Zenon DEF QueueInv, SliceQueuedOnce
  <2>9. new.failed \in BOOLEAN
    BY <2>3, Zenon
  <2>10. QED BY <2>2, <2>4, <2>6, <2>7, <2>8, <2>9, Zenon DEF QueueInv
<1>3. QED BY <1>1, <1>2, Zenon

LEMMA AfterSendHolds ==
    ASSUME NEW work, Holds(work), work.todo # <<>>
    PROVE  Holds(AfterSend(work))
<1>1. CASE Len(work.todo) = 1
  <2>1. AfterSend(work) = [Idle EXCEPT !.kind = work.kind]
    BY <1>1 DEF AfterSend
  <2>2. QED BY <2>1, RestHolds, Zenon DEF Holds
<1>2. CASE Len(work.todo) # 1
  <2>1. PICK rest : rest = [kind |-> work.kind, todo |-> Tail(work.todo),
                            base |-> work.base, filters |-> work.filters]
    OBVIOUS
  <2>2. /\ rest.kind = work.kind /\ rest.todo = Tail(work.todo)
        /\ rest.base = work.base /\ rest.filters = work.filters
    BY <2>1
  <2>3. AfterSend(work) = rest
    <3>1. AfterSend(work) = [work EXCEPT !.todo = Tail(work.todo)]
      BY <1>2 DEF AfterSend
    <3>2. PICK k, t, b, f : work = [kind |-> k, todo |-> t, base |-> b, filters |-> f]
      BY Zenon DEF Holds
    <3>3. work.kind = k /\ work.base = b /\ work.filters = f
      BY <3>2
    <3>4. [work EXCEPT !.todo = Tail(work.todo)]
             = [kind |-> k, todo |-> Tail(work.todo), base |-> b, filters |-> f]
      BY <3>2
    <3>5. QED BY <2>1, <3>1, <3>3, <3>4, Zenon
  <2>4. Tail(work.todo) \in Seq(ToSend(work.kind, work.base))
    BY LastOfTail, Zenon DEF Holds
  <2>5. Holds(rest)
    BY <2>1, <2>2, <2>4, Zenon DEF Holds
  <2>6. QED BY <2>3, <2>5, Zenon
<1>3. QED BY <1>1, <1>2, Zenon

(* The choices made meanwhile are tidied when a handler ends.               *)
LEMMA EndingKeeps ==
    ASSUME SelectInv, HandlersHold, NEW h \in Handlers, HandlerEnds(h)
    PROVE  SelectInv' /\ HandlersHold'
<1>1. /\ sel = [state |-> sel.state, postcode |-> sel.postcode,
                suburb |-> sel.suburb, type |-> sel.type]
      /\ addAll \in BOOLEAN
  BY Zenon DEF SelectInv, OffersStand
<1>2. HandlersHold'
  BY IdleHolds, HandlerSet, Zenon DEF HandlerEnds
<1>3. \/ sel' = [sel EXCEPT !.suburb = NoChoice]
      \/ sel' = [sel EXCEPT !.type = NoChoice]
      \/ sel' = sel
  BY DEF HandlerEnds
<1>4. /\ sel' = [state |-> sel'.state, postcode |-> sel'.postcode,
                 suburb |-> sel'.suburb, type |-> sel'.type]
      /\ sel'.state = sel.state /\ sel'.postcode = sel.postcode
      /\ sel'.suburb \in {sel.suburb, NoChoice}
  BY <1>1, <1>3
<1>5. UNCHANGED <<dataVars, pcOptions, subOptions>> /\ addAll' \in BOOLEAN
  BY <1>1, Zenon DEF HandlerEnds, Complete
<1>6. OffersStand'
  BY <1>4, <1>5, Zenon DEF SelectInv, OffersStand, PostcodesOf, SuburbsOf, dataVars
<1>7. SelectionIsLocality'
  BY <1>4, <1>5, Zenon DEF SelectInv, SelectionIsLocality, dataVars
<1>8. SelectInv'
  BY <1>5, <1>6, <1>7, Zenon DEF SelectInv, DatasetsHeld, dataVars
<1>9. QED BY <1>2, <1>8

LEMMA JobChangesKeep ==
    ASSUME QueueInv, NEW j \in queue, JobFails(j) \/ JobGoes(j)
    PROVE  QueueInv'
<1>1. CASE JobGoes(j)
  BY <1>1, Zenon DEF JobGoes, QueueInv, JobsAreLocalities, SliceQueuedOnce
<1>2. CASE JobFails(j)
  <2>1. PICK new : new = [id |-> j.id, slice |-> j.slice, failed |-> TRUE]
    OBVIOUS
  <2>2. new.id = j.id /\ new.slice = j.slice /\ new.failed = TRUE
    BY <2>1
  <2>3. PICK i, c, f : j = [id |-> i, slice |-> c, failed |-> f]
    BY Zenon DEF QueueInv
  <2>4. [j EXCEPT !.failed = TRUE] = new
    <3>1. [j EXCEPT !.failed = TRUE] = [id |-> i, slice |-> c, failed |-> TRUE]
      <4>1. ASSUME NEW v
            PROVE  [[id |-> i, slice |-> c, failed |-> f] EXCEPT !.failed = v]
                     = [id |-> i, slice |-> c, failed |-> v]
        OBVIOUS
      <4>2. QED BY <2>3, <4>1, Zenon
    <3>2. j.id = i /\ j.slice = c
      BY <2>3
    <3>3. QED BY <2>1, <3>1, <3>2, Zenon
  <2>5. queue' = (queue \ {j}) \cup {new} /\ nextId' = nextId
    BY <1>2, <2>4, Zenon DEF JobFails
  <2>6. new = [id |-> new.id, slice |-> new.slice, failed |-> new.failed]
    BY <2>1, <2>2, Zenon
  <2>7. new.id \in 1..nextId /\ new.failed \in BOOLEAN
    BY <2>2, Zenon DEF QueueInv
  <2>8. JobsAreLocalities'
    BY <2>2, <2>5, ZenonT(60) DEF QueueInv, JobsAreLocalities
  <2>9. SliceQueuedOnce'
    BY <2>2, <2>5, Zenon DEF QueueInv, SliceQueuedOnce
  <2>10. QED BY <2>5, <2>6, <2>7, <2>8, <2>9, Zenon DEF QueueInv
<1>3. QED BY <1>1, <1>2, Zenon

-----------------------------------------------------------------------------
LEMMA PopupInitInv == PopupInit => PopupInv
<1>1. SUFFICES ASSUME PopupInit PROVE PopupInv
  OBVIOUS
<1>2. /\ Nothing.state = NoChoice /\ Nothing.postcode = NoChoice /\ Nothing.suburb = NoChoice
      /\ Nothing = [state |-> Nothing.state, postcode |-> Nothing.postcode,
                    suburb |-> Nothing.suburb, type |-> Nothing.type]
  BY DEF Nothing
<1>3. SelectInv
  BY <1>1, <1>2, Zenon
  DEF PopupInit, SelectInv, DatasetsHeld, OffersStand, SelectionIsLocality
<1>4. HandlersHold
  <2>1. \A h \in Handlers : handler[h] = Idle
    BY <1>1, Zenon DEF PopupInit
  <2>2. QED BY <1>1, <2>1, IdleHolds, Zenon DEF PopupInit, HandlersHold
<1>5. QueueInv
  <2>1. nextId \in Nat /\ nextId <= MaxJobs
    BY <1>1, PopupAssumption DEF PopupInit
  <2>2. QED
    BY <1>1, <2>1, Zenon DEF PopupInit, QueueInv, JobsAreLocalities, SliceQueuedOnce
<1>6. QED BY <1>3, <1>4, <1>5 DEF PopupInv

LEMMA PopupStep == PopupInv /\ [PopupNext]_popupVars => PopupInv'
<1>1. SUFFICES ASSUME PopupInv, [PopupNext]_popupVars PROVE PopupInv'
  OBVIOUS
<1>2. SelectInv /\ HandlersHold /\ QueueInv
  BY <1>1 DEF PopupInv
<1>3. UNCHANGED <<dataVars, selectVars>> => SelectInv'
  BY <1>2, Zenon DEF dataVars, selectVars, SelectInv, DatasetsHeld, OffersStand,
     SelectionIsLocality, PostcodesOf, SuburbsOf
<1>4. UNCHANGED handler => HandlersHold'
  BY <1>2, Zenon DEF HandlersHold
<1>5. UNCHANGED queueVars => QueueInv'
  BY <1>2, Zenon DEF queueVars, QueueInv, JobsAreLocalities, SliceQueuedOnce
<1>6. ASSUME Selecting PROVE PopupInv'
  <2>1. UNCHANGED <<handler, queueVars>>
    BY <1>6, Zenon
    DEF Selecting, ChooseState, ChoosePostcode, ChooseSuburb, ChooseType, ClearSelections
  <2>2. QED BY <1>2, <1>4, <1>5, <1>6, <2>1, SelectingKeeps, Zenon DEF PopupInv
<1>7. ASSUME ReadPostcodes \/ FetchPostcodes \/ RefreshData PROVE PopupInv'
  <2>1. UNCHANGED <<handler, queueVars>>
    BY <1>7, Zenon DEF ReadPostcodes, FetchPostcodes, RefreshData
  <2>2. QED BY <1>2, <1>4, <1>5, <1>7, <2>1, LoadingKeeps, Zenon DEF PopupInv
<1>8. ASSUME NEW h \in Handlers, Queueing(h) PROVE PopupInv'
  <2>1. CASE \/ \E f \in Filters : AddAllClicked(h, f) \/ SubmitForm(h, f)
             \/ \E file \in PlanFiles : ImportPlan(h, file)
    <3>1. UNCHANGED queueVars
      BY <2>1, Zenon DEF AddAllClicked, SubmitForm, ImportPlan
    <3>2. QED BY <1>2, <1>5, <2>1, <3>1, BeginningKeeps, Zenon DEF PopupInv
  <2>2. CASE SendSlice(h)
    <3>1. Holds(handler[h]) /\ handler[h].todo # <<>>
      BY <1>2, <2>2, Zenon DEF HandlersHold, SendSlice
    <3>2. handler' = [handler EXCEPT ![h] = AfterSend(handler[h])]
      BY <2>2, Zenon DEF SendSlice
    <3>3. HandlersHold'
      BY <1>2, <3>1, <3>2, AfterSendHolds, HandlerSet, Zenon
    <3>4. QueueInv'
      BY <1>2, <2>2, <3>1, PendingIsChosen, QueueSliceKeeps, Zenon DEF SendSlice
    <3>5. QED BY <1>3, <2>2, <3>3, <3>4, Zenon DEF SendSlice, PopupInv
  <2>3. CASE AbandonSlices(h)
    <3>1. handler[h].kind \in {"idle", "all", "form", "plan"}
      BY <1>2, Zenon DEF HandlersHold, Holds
    <3>2. HandlersHold'
      BY <1>2, <2>3, <3>1, RestHolds, HandlerSet, Zenon DEF AbandonSlices
    <3>3. QED BY <1>3, <1>5, <2>3, <3>2, Zenon DEF AbandonSlices, PopupInv
  <2>4. CASE HandlerEnds(h)
    <3>1. UNCHANGED queueVars
      BY <2>4, Zenon DEF HandlerEnds
    <3>2. QED BY <1>2, <1>5, <2>4, <3>1, EndingKeeps, Zenon DEF PopupInv
  <2>5. QED BY <1>8, <2>1, <2>2, <2>3, <2>4, Zenon DEF Queueing
<1>9. ASSUME NEW j \in queue, JobFails(j) \/ JobGoes(j) PROVE PopupInv'
  <2>1. UNCHANGED <<dataVars, selectVars, handler>>
    BY <1>9, Zenon DEF JobFails, JobGoes
  <2>2. QED BY <1>2, <1>3, <1>4, <1>9, <2>1, JobChangesKeep, Zenon DEF PopupInv
<1>10. ASSUME PopupReopens PROVE PopupInv'
  <2>1. /\ Nothing.state = NoChoice /\ Nothing.postcode = NoChoice /\ Nothing.suburb = NoChoice
        /\ Nothing = [state |-> Nothing.state, postcode |-> Nothing.postcode,
                      suburb |-> Nothing.suburb, type |-> Nothing.type]
    BY DEF Nothing
  <2>2. SelectInv'
    BY <1>2, <1>10, <2>1, Zenon
    DEF PopupReopens, SelectInv, DatasetsHeld, OffersStand, SelectionIsLocality
  <2>3. \A h \in Handlers : handler'[h] = Idle
    BY <1>10, Zenon DEF PopupReopens
  <2>4. handler' = [h \in Handlers |-> handler'[h]]
    BY <1>10, <2>3 DEF PopupReopens
  <2>5. HandlersHold'
    BY <2>3, <2>4, IdleHolds, Zenon DEF HandlersHold
  <2>6. QED BY <1>5, <1>10, <2>2, <2>5, Zenon DEF PopupReopens, PopupInv
<1>11. ASSUME UNCHANGED popupVars PROVE PopupInv'
  BY <1>3, <1>4, <1>5, <1>11, Zenon DEF popupVars, PopupInv
<1>12. QED
  BY <1>1, <1>6, <1>7, <1>8, <1>9, <1>10, <1>11, Zenon DEF PopupNext

(* What the popup queues was chosen: a valid locality of some dataset or of *)
(* a plan, and no slice twice, for any number of handlers at once and       *)
(* whatever dataset is fetched under them.                                  *)
THEOREM QueueStaysChosen == PopupSpec => []QueueIsAsChosen
<1>1. PopupInv => QueueIsAsChosen
  BY PopupTypes, Zenon DEF PopupInv, SelectInv, QueueInv, QueueIsAsChosen
<1>2. QED BY <1>1, PopupInitInv, PopupStep, PTL DEF PopupSpec

-----------------------------------------------------------------------------
(* The ingestion.                                                           *)

(* A counted file has every row in, so that no later load changes what it   *)
(* holds.                                                                   *)
AllIn(f) == \A r \in RowsOf[f] : observed[r.key] # Nobody
Counted(f) == accepted[f] = Cardinality(HeldBy(f)) /\ AllIn(f)
RowsComeIn ==
    /\ \A f \in Files : fileStatus[f] \in {"loaded", "curated"} => Counted(f)
    /\ \A w \in Loaders :
          /\ loader[w].at = "idle" <=> loader[w].file = Nobody
          /\ loader[w].at \in {"curate", "refresh", "months"} => Counted(loader[w].file)
          /\ loader[w].at = "insert" =>
                /\ loader[w].left \subseteq RowsOf[loader[w].file]
                /\ \A r \in RowsOf[loader[w].file] \ loader[w].left : observed[r.key] # Nobody

(* A file that only one loader had, each step once.                         *)
Alone(f) ==
    /\ \A v, w \in Loaders : loader[v].file = f /\ loader[w].file = f => v = w
    /\ curations[f] \in {0, 1}
    /\ \A w \in Loaders :
          loader[w].file = f => (curations[f] = 1 <=> loader[w].at \in {"refresh", "months"})
    /\ curations[f] = 1 => fileStatus[f] = "curated"
RepeatsAreKnown == \A f \in Files \ again : Alone(f)

(* A selected row stays selected, and its listing keeps an address.         *)
SelectionStands ==
    /\ \A l \in Listings :
          listing[l].selected # Nobody => observed[listing[l].selected] # Nobody
    /\ \A r \in Rows :
          listing[r.listing].selected = r.key /\ r.property # Withheld
             => listing[r.listing].property \in Properties
    /\ \A s \in sales : observed[s.key] # Nobody /\ curations[observed[s.key]] # 0
SalesInv == SelectionStands /\ SaleIsOfSelectedRow /\ CuratedIsSold

(* A publication that no curation crossed has read one state of the sales.  *)
OneReading ==
    ~reading.moved =>
        /\ reading.at \in {"suburbs", "months", "facts"} => reading.tables.suburbs = Sold
        /\ reading.at \in {"months", "facts"} => reading.tables.months = Sold
        /\ reading.at = "facts" => reading.tables.facts = Sold
OutInv ==
    /\ mart.suburbs \subseteq Sold /\ MonthsHaveSuburbs
    /\ OneReading /\ QuietPublicationAgrees

IngestTyped == IngestTypeOK /\ curations \in [Files -> Nat]
IngestInv == IngestTyped /\ RowsComeIn /\ RepeatsAreKnown /\ SalesInv /\ OutInv

LoaderType == [at : LoaderSteps, file : Files \cup {Nobody}, left : SUBSET Rows]
FileStatuses == {"absent", "registered", "loading", "loaded", "curated", "failed"}

(* The image of a finite set is finite.                                     *)
LEMMA KeysFinite == IsFiniteSet(Keys)
<1> DEFINE g == [r \in Rows |-> r.key]
<1>1. g \in Surjection(Rows, Keys)
  BY Zenon DEF Surjection, Keys
<1> HIDE DEF g
<1>2. IsFiniteSet(Rows)
  BY IngestionAssumption
<1>3. QED BY <1>1, <1>2, FS_Surjection, Zenon

LEMMA HeldIsCounted == \A f : Cardinality(HeldBy(f)) \in Nat
<1>1. ASSUME NEW f PROVE Cardinality(HeldBy(f)) \in Nat
  <2>1. HeldBy(f) \subseteq Keys
    BY Zenon DEF HeldBy
  <2>2. IsFiniteSet(HeldBy(f))
    BY <2>1, KeysFinite, FS_Subset, Zenon
  <2>3. QED BY <2>2, FS_CardinalityType, Zenon
<1>2. QED BY <1>1, Zenon

LEMMA RowFacts ==
    /\ \A r \in Rows : /\ r.key \in Keys /\ r.listing \in Listings
                       /\ r.property \in Properties \cup {Withheld} /\ r.property # Nobody
    /\ \A r, s \in Rows : r.key = s.key => r = s
    /\ \A f \in Files : RowsOf[f] \subseteq Rows
    /\ Nobody \notin Files /\ Nobody \notin Keys /\ Nobody \notin Properties /\ Nobody # Withheld
    /\ Withheld \notin Properties
<1>1. /\ \A r \in Rows : r.key \in Keys /\ r.listing \in Listings
                         /\ r.property \in Properties \cup {Withheld}
      /\ Withheld \notin Properties
  BY Zenon DEF Keys, Listings, Properties
<1>2. Nobody \notin Files /\ Nobody \notin Keys /\ Nobody \notin Properties /\ Nobody # Withheld
  BY IngestionAssumption, Zenon
<1>3. \A f \in Files : RowsOf[f] \subseteq Rows
  BY Zenon DEF Rows
<1>4. \A r, s \in Rows : r.key = s.key => r = s
  BY IngestionAssumption, Zenon
<1>5. QED BY <1>1, <1>2, <1>3, <1>4, Zenon

(* Of finitely many rows one has the best grade.                            *)
LEMMA BestGrade ==
    ASSUME NEW S, IsFiniteSet(S), S # {}, \A r \in S : r.grade \in Int
    PROVE  \E r \in S : \A s \in S : s.grade <= r.grade
<1> DEFINE Has(T) == \E r \in T : \A s \in T : s.grade <= r.grade
           Bad == {n \in Nat : \E T \in SUBSET S : T # {} /\ Cardinality(T) = n /\ ~Has(T)}
<1>1. SUFFICES ASSUME ~Has(S) PROVE FALSE
  BY Zenon
<1>2. Cardinality(S) \in Bad
  BY <1>1, FS_CardinalityType
<1>3. IsWellFoundedOn(OpToRel(<, Nat), Nat)
  BY NatLessThanWellFounded
<1>4. Bad \subseteq Nat /\ Bad # {}
  BY <1>2
<1>5. PICK n \in Bad : \A m \in Bad : ~ (<<m, n>> \in OpToRel(<, Nat))
  <2> HIDE DEF Bad
  <2>1. QED BY <1>3, <1>4, WFMin, Zenon
<1>6. PICK T \in SUBSET S : T # {} /\ Cardinality(T) = n /\ ~Has(T)
  BY <1>5
<1>7. PICK x \in T : TRUE
  BY <1>6
<1>8. /\ n \in Nat /\ IsFiniteSet(T \ {x})
      /\ Cardinality(T \ {x}) = n - 1 /\ Cardinality(T \ {x}) \in Nat
  <2>1. IsFiniteSet(T)
    BY FS_Subset, Zenon
  <2>2. IsFiniteSet(T \ {x}) /\ Cardinality(T \ {x}) = n - 1
    BY <1>6, <2>1, FS_RemoveElement
  <2>3. QED BY <1>5, <2>2, FS_CardinalityType
<1>9. T \ {x} # {}
  <2>1. SUFFICES ASSUME T \ {x} = {} PROVE FALSE
    OBVIOUS
  <2>2. \A s \in T : s.grade <= x.grade
    BY <2>1
  <2>3. QED BY <1>6, <2>2
<1>10. n - 1 \notin Bad
  <2> HIDE DEF Bad
  <2>1. \A m \in Bad : m \in Nat /\ ~ (m < n)
    BY <1>4, <1>5, <1>8 DEF OpToRel
  <2>2. n - 1 < n
    BY <1>8
  <2>3. QED BY <2>1, <2>2, Zenon
<1>11. Has(T \ {x})
  BY <1>8, <1>9, <1>10
<1>12. PICK m \in T \ {x} : \A s \in T \ {x} : s.grade <= m.grade
  BY <1>11
<1>13. CASE x.grade <= m.grade
  <2>1. \A s \in T : s.grade <= m.grade
    BY <1>12, <1>13
  <2>2. QED BY <1>6, <2>1
<1>14. CASE m.grade <= x.grade
  <2>1. \A s \in T : s.grade <= x.grade
    BY <1>12, <1>14
  <2>2. QED BY <1>6, <1>7, <2>1
<1>15. QED BY <1>13, <1>14

(* The best of the candidates of a listing is one of them.                  *)
LEMMA BestIsCandidate ==
    ASSUME NEW f, NEW l, CandidatesFor(f, l) # {}
    PROVE  Best(f, l) \in CandidatesFor(f, l)
<1>1. CandidatesFor(f, l) \subseteq Rows
  BY Zenon DEF CandidatesFor, Candidates
<1>2. IsFiniteSet(CandidatesFor(f, l))
  BY <1>1, IngestionAssumption, FS_Subset, Zenon
<1>3. \A r \in CandidatesFor(f, l) : r.grade \in Int
  BY <1>1, IngestionAssumption, Zenon
<1>4. \E r \in CandidatesFor(f, l) : \A s \in CandidatesFor(f, l) : s.grade <= r.grade
  BY <1>2, <1>3, BestGrade, Zenon
<1>5. QED BY <1>4, Zenon DEF Best

-----------------------------------------------------------------------------
(* How far a step can reach.                                                *)

(* A loader takes a step alone.                                             *)
Moves(w, step, file, left) ==
    /\ loader' \in [Loaders -> LoaderType]
    /\ loader'[w].at = step /\ loader'[w].file = file /\ loader'[w].left = left
    /\ \A v \in Loaders \ {w} : loader'[v] = loader[v]

(* Rows that are in stay where they are.                                    *)
RowsStay == \A k \in Keys : observed[k] # Nobody => observed'[k] = observed[k]

LEMMA LoaderSet ==
    ASSUME loader \in [Loaders -> LoaderType], NEW w \in Loaders,
           NEW step \in LoaderSteps, NEW file \in Files \cup {Nobody}, NEW left \in SUBSET Rows,
           loader' = [loader EXCEPT ![w] = [at |-> step, file |-> file, left |-> left]]
    PROVE  Moves(w, step, file, left)
<1>1. PICK work : work = [at |-> step, file |-> file, left |-> left]
  OBVIOUS
<1>2. work \in LoaderType /\ work.at = step /\ work.file = file /\ work.left = left
  BY <1>1 DEF LoaderType
<1>3. loader' = [loader EXCEPT ![w] = work]
  BY <1>1, Zenon
<1>4. QED BY <1>2, <1>3 DEF Moves

LEMMA LoaderSteps1 ==
    ASSUME loader \in [Loaders -> LoaderType], NEW w \in Loaders
    PROVE  /\ \A step \in LoaderSteps, left \in SUBSET Rows :
                 loader' = [loader EXCEPT ![w].at = step, ![w].left = left]
                    => Moves(w, step, loader[w].file, left)
           /\ \A step \in LoaderSteps :
                 loader' = [loader EXCEPT ![w].at = step]
                    => Moves(w, step, loader[w].file, loader[w].left)
           /\ \A left \in SUBSET Rows :
                 loader' = [loader EXCEPT ![w].left = left]
                    => Moves(w, loader[w].at, loader[w].file, left)
           /\ loader' = [loader EXCEPT ![w] = IdleLoader] => Moves(w, "idle", Nobody, {})
<1>1. loader[w] \in LoaderType
  BY Zenon
<1>2. /\ loader[w].at \in LoaderSteps /\ loader[w].file \in Files \cup {Nobody}
      /\ loader[w].left \in SUBSET Rows
  BY <1>1 DEF LoaderType
<1>3. PICK a, f, l : loader[w] = [at |-> a, file |-> f, left |-> l]
  BY <1>1 DEF LoaderType
<1>4. loader[w].at = a /\ loader[w].file = f /\ loader[w].left = l
  BY <1>3
<1>5. ASSUME NEW step \in LoaderSteps, NEW left \in SUBSET Rows,
             loader' = [loader EXCEPT ![w].at = step, ![w].left = left]
      PROVE  Moves(w, step, loader[w].file, left)
  <2>1. PICK one : one = [loader EXCEPT ![w].at = step]
    OBVIOUS
  <2>2. one[w] = [loader[w] EXCEPT !.at = step] /\ one \in [Loaders -> LoaderType]
    BY <2>1 DEF LoaderType
  <2>3. one[w] = [at |-> step, file |-> f, left |-> l]
    BY <1>3, <2>2
  <2>4. loader' = [one EXCEPT ![w].left = left]
    BY <1>5, <2>1, Zenon
  <2>5. loader'[w] = [one[w] EXCEPT !.left = left] /\ loader' \in [Loaders -> LoaderType]
    BY <2>2, <2>4 DEF LoaderType
  <2>6. loader'[w] = [at |-> step, file |-> f, left |-> left]
    BY <2>3, <2>5
  <2>7. loader'[w].at = step /\ loader'[w].file = f /\ loader'[w].left = left
    BY <2>6
  <2>8. \A v \in Loaders \ {w} : loader'[v] = loader[v]
    BY <2>1, <2>2, <2>4
  <2>9. QED BY <1>4, <2>5, <2>7, <2>8, Zenon DEF Moves
<1>6. ASSUME NEW step \in LoaderSteps, loader' = [loader EXCEPT ![w].at = step]
      PROVE  Moves(w, step, loader[w].file, loader[w].left)
  <2>1. loader' = [loader EXCEPT ![w] = [at |-> step, file |-> loader[w].file, left |-> loader[w].left]]
    <3>1. [loader[w] EXCEPT !.at = step] = [at |-> step, file |-> f, left |-> l]
      BY <1>3
    <3>2. loader' = [loader EXCEPT ![w] = [loader[w] EXCEPT !.at = step]]
      BY <1>6, Zenon
    <3>3. QED BY <1>4, <3>1, <3>2, Zenon
  <2>2. QED BY <1>2, <2>1, LoaderSet, Zenon
<1>7. ASSUME NEW left \in SUBSET Rows, loader' = [loader EXCEPT ![w].left = left]
      PROVE  Moves(w, loader[w].at, loader[w].file, left)
  <2>1. loader' = [loader EXCEPT ![w] = [at |-> loader[w].at, file |-> loader[w].file, left |-> left]]
    <3>1. [loader[w] EXCEPT !.left = left] = [at |-> a, file |-> f, left |-> left]
      BY <1>3
    <3>2. loader' = [loader EXCEPT ![w] = [loader[w] EXCEPT !.left = left]]
      BY <1>7, Zenon
    <3>3. QED BY <1>4, <3>1, <3>2, Zenon
  <2>2. QED BY <1>2, <2>1, LoaderSet, Zenon
<1>8. ASSUME loader' = [loader EXCEPT ![w] = IdleLoader] PROVE Moves(w, "idle", Nobody, {})
  <2>1. "idle" \in LoaderSteps /\ {} \in SUBSET Rows
    BY DEF LoaderSteps
  <2>2. QED BY <1>8, <2>1, LoaderSet, Zenon DEF IdleLoader
<1>9. QED BY <1>5, <1>6, <1>7, <1>8, Zenon

(* What a counted file holds is fixed while rows stay and no row of another *)
(* file becomes its own.                                                    *)
LEMMA CountedStays ==
    ASSUME NEW f, AllIn(f), RowsStay, f \in Files,
           \A k \in Keys : observed[k] = Nobody => observed'[k] # f
    PROVE  AllIn(f)' /\ HeldBy(f)' = HeldBy(f)
<1>1. \A r \in RowsOf[f] : r.key \in Keys
  BY RowFacts, Zenon
<1>2. AllIn(f)'
  BY <1>1, Zenon DEF AllIn, RowsStay
<1>3. \A k \in Keys : observed'[k] = f <=> observed[k] = f
  BY RowFacts, Zenon DEF RowsStay
<1>4. QED BY <1>2, <1>3, Zenon DEF HeldBy

(* Sales stand while rows stay and no file is marked as curated.            *)
LEMMA SalesStand ==
    ASSUME IngestTyped, SalesInv, UNCHANGED <<listing, sales, curations>>, RowsStay,
           \A f \in Files : fileStatus'[f] = "curated" => fileStatus[f] = "curated"
    PROVE  SalesInv'
<1>1. /\ \A l \in Listings : listing[l].selected # Nobody => listing[l].selected \in Keys
      /\ \A s \in sales : s.key \in Keys
      /\ \A k \in Keys : observed[k] # Nobody => observed[k] \in Files
  BY DEF IngestTyped, IngestTypeOK, Sale
<1>2. SelectionStands'
  <2>1. \A l \in Listings :
            listing[l].selected # Nobody => observed'[listing[l].selected] # Nobody
    BY <1>1, Zenon DEF SalesInv, SelectionStands, RowsStay
  <2>2. \A s \in sales : observed'[s.key] = observed[s.key]
    BY <1>1, Zenon DEF SalesInv, SelectionStands, RowsStay
  <2>3. QED BY <2>1, <2>2, Zenon DEF SalesInv, SelectionStands
<1>3. SaleIsOfSelectedRow'
  <2>1. \A s \in sales : observed'[s.key] = observed[s.key]
    BY <1>1, Zenon DEF SalesInv, SelectionStands, RowsStay
  <2>2. QED BY <2>1, Zenon DEF SalesInv, SaleIsOfSelectedRow
<1>4. CuratedIsSold'
  <2>1. \A r \in Rows : listing[r.listing].selected = r.key =>
            observed'[r.key] = observed[r.key] /\ observed[r.key] \in Files
    BY <1>1, RowFacts, Zenon DEF SalesInv, SelectionStands, RowsStay
  <2>2. QED BY <2>1, Zenon DEF SalesInv, CuratedIsSold
<1>5. QED BY <1>2, <1>3, <1>4 DEF SalesInv

(* A file one loader had stays alone through every step but a registration  *)
(* and a curation.                                                          *)
LEMMA AloneStays ==
    ASSUME RepeatsAreKnown, NEW w \in Loaders, NEW step, NEW left,
           NEW file \in {loader[w].file, Nobody},
           Moves(w, step, file, left), UNCHANGED curations, again \subseteq again',
           loader[w].file \notin again' /\ file # Nobody
              => (step \in {"refresh", "months"} <=> loader[w].at \in {"refresh", "months"}),
           \A g \in Files \ again :
              curations[g] = 1 /\ fileStatus[g] = "curated" => fileStatus'[g] = "curated"
    PROVE  RepeatsAreKnown'
<1>1. SUFFICES ASSUME NEW g \in Files \ again' PROVE Alone(g)'
  BY Zenon DEF RepeatsAreKnown
<1>2. g \in Files \ again /\ Alone(g)
  BY Zenon DEF RepeatsAreKnown
<1>3. \A v \in Loaders : loader'[v].file = g => loader[v].file = g
  BY RowFacts, Zenon DEF Moves
<1>4. \A v \in Loaders : loader'[v].file = g =>
          (loader'[v].at \in {"refresh", "months"} <=> loader[v].at \in {"refresh", "months"})
  BY RowFacts, Zenon DEF Moves
<1>5. QED BY <1>2, <1>3, <1>4, Zenon DEF Alone

(* The count of a file stands, and the loaders' parts of it.                *)
LEMMA RowsFollow ==
    ASSUME IngestTyped, RowsComeIn, NEW w \in Loaders, NEW step, NEW file, NEW left,
           Moves(w, step, file, left), RowsStay,
           \A f \in Files : AllIn(f) => \A k \in Keys : observed[k] = Nobody => observed'[k] # f,
           \A f \in Files : accepted'[f] = accepted[f] \/ Counted(f)',
           \A f \in Files : fileStatus'[f] \in {"loaded", "curated"}
                              => fileStatus[f] \in {"loaded", "curated"} \/ Counted(f)',
           step = "idle" <=> file = Nobody,
           step \in {"curate", "refresh", "months"} => file \in Files /\ (Counted(file) \/ Counted(file)'),
           step = "insert" => /\ left \subseteq RowsOf[file]
                            /\ \A r \in RowsOf[file] \ left : observed'[r.key] # Nobody
    PROVE  RowsComeIn'
<1>1. ASSUME NEW f \in Files, Counted(f) PROVE Counted(f)'
  <2>1. AllIn(f)' /\ HeldBy(f)' = HeldBy(f)
    BY <1>1, CountedStays, Zenon DEF Counted
  <2>2. QED BY <1>1, <2>1, Zenon DEF Counted
<1>2. \A f \in Files : fileStatus'[f] \in {"loaded", "curated"} => Counted(f)'
  BY <1>1, Zenon DEF RowsComeIn
<1>3. \A v \in Loaders : loader[v].file \in Files \cup {Nobody}
  BY DEF IngestTyped, IngestTypeOK
<1>4. /\ loader'[w].at = "idle" <=> loader'[w].file = Nobody
      /\ loader'[w].at \in {"curate", "refresh", "months"} => Counted(loader[w].file)'
      /\ loader'[w].at = "insert" =>
            /\ loader'[w].left \subseteq RowsOf[loader'[w].file]
            /\ \A r \in RowsOf[loader'[w].file] \ loader'[w].left : observed'[r.key] # Nobody
  <2>1. loader'[w].at = step /\ loader'[w].file = file /\ loader'[w].left = left
    BY Zenon DEF Moves
  <2>2. step \in {"curate", "refresh", "months"} => Counted(file)'
    BY <1>1, Zenon
  <2>3. loader'[w].at \in {"curate", "refresh", "months"} => accepted'[file] = Cardinality(HeldBy(file)') /\ AllIn(file)'
    BY <2>1, <2>2, Zenon DEF Counted
  <2>4. loader'[w].at \in {"curate", "refresh", "months"} => Counted(loader[w].file)'
    BY <2>1, <2>3, Zenon DEF Counted, HeldBy, AllIn
  <2>5. QED BY <2>1, <2>4, Zenon
<1>5. ASSUME NEW v \in Loaders \ {w}
      PROVE  /\ loader'[v].at = "idle" <=> loader'[v].file = Nobody
             /\ loader'[v].at \in {"curate", "refresh", "months"} => Counted(loader[v].file)'
             /\ loader'[v].at = "insert" =>
                   /\ loader'[v].left \subseteq RowsOf[loader'[v].file]
                   /\ \A r \in RowsOf[loader'[v].file] \ loader'[v].left : observed'[r.key] # Nobody
  <2>1. loader'[v] = loader[v]
    BY Zenon DEF Moves
  <2>2. loader[v].at \in {"curate", "refresh", "months", "insert"} => loader[v].file \in Files
    <3>1. loader[v].at = "idle" <=> loader[v].file = Nobody
      BY Zenon DEF RowsComeIn
    <3>2. QED BY <1>3, <3>1
  <2>3. PICK g : g = loader[v].file
    OBVIOUS
  <2>4. loader'[v].at \in {"curate", "refresh", "months"} => Counted(loader[v].file)'
    <3>1. loader[v].at \in {"curate", "refresh", "months"} => g \in Files /\ Counted(g)
      BY <2>2, <2>3, Zenon DEF RowsComeIn
    <3>2. loader[v].at \in {"curate", "refresh", "months"} => Counted(g)'
      BY <1>1, <3>1, Zenon
    <3>3. loader'[v].file = g /\ loader'[v].at = loader[v].at
      BY <2>1, <2>3, Zenon
    <3>4. QED BY <3>2, <3>3, Zenon DEF Counted, AllIn, HeldBy
  <2>5. ASSUME loader[v].at = "insert", NEW r \in RowsOf[loader[v].file] \ loader[v].left
        PROVE  observed'[r.key] # Nobody
    <3>1. r \in Rows /\ r.key \in Keys
      BY <2>2, <2>5, RowFacts, Zenon
    <3>2. QED BY <2>5, <3>1, Zenon DEF RowsComeIn, RowsStay
  <2>6. QED BY <2>1, <2>4, <2>5, Zenon DEF RowsComeIn
<1>6. QED
  <2>1. \A v \in Loaders :
            /\ loader'[v].at = "idle" <=> loader'[v].file = Nobody
            /\ loader'[v].at \in {"curate", "refresh", "months"} => Counted(loader[v].file)'
            /\ loader'[v].at = "insert" =>
                  /\ loader'[v].left \subseteq RowsOf[loader'[v].file]
                  /\ \A r \in RowsOf[loader'[v].file] \ loader'[v].left : observed'[r.key] # Nobody
    BY <1>4, <1>5, Zenon
  <2>2. QED BY <1>2, <2>1, Zenon DEF RowsComeIn

(* A loader's step that curates nothing.                                    *)
LEMMA LoaderStepKeeps ==
    ASSUME IngestInv, NEW w \in Loaders, NEW step, NEW file, NEW left,
           Moves(w, step, file, left), RowsStay, RowsComeIn', RepeatsAreKnown', OutInv',
           UNCHANGED <<listing, sales, curations, reading, published>>,
           fileStatus' \in [Files -> FileStatuses], accepted' \in [Files -> Nat],
           observed' \in [Keys -> Files \cup {Nobody}],
           mart' \in [suburbs : SUBSET Properties, months : SUBSET Properties],
           again' \subseteq Files,
           \A f \in Files : fileStatus'[f] = "curated" => fileStatus[f] = "curated"
    PROVE  IngestInv'
<1>1. IngestTyped'
  BY Zenon DEF IngestInv, IngestTyped, IngestTypeOK, Moves, LoaderType, FileStatuses
<1>2. SalesInv'
  BY SalesStand, Zenon DEF IngestInv
<1>3. QED BY <1>1, <1>2, Zenon DEF IngestInv

LEMMA IngestFacts ==
    ASSUME IngestInv
    PROVE  /\ loader \in [Loaders -> LoaderType]
           /\ fileStatus \in [Files -> FileStatuses] /\ accepted \in [Files -> Nat]
           /\ observed \in [Keys -> Files \cup {Nobody}] /\ again \subseteq Files
           /\ mart \in [suburbs : SUBSET Properties, months : SUBSET Properties]
           /\ \A w \in Loaders : /\ loader[w].at \in LoaderSteps
                                 /\ loader[w].at # "idle" <=> loader[w].file \in Files
                                 /\ loader[w].left \in SUBSET Rows
<1>1. /\ loader \in [Loaders -> LoaderType]
      /\ fileStatus \in [Files -> FileStatuses] /\ accepted \in [Files -> Nat]
      /\ observed \in [Keys -> Files \cup {Nobody}] /\ again \subseteq Files
      /\ mart \in [suburbs : SUBSET Properties, months : SUBSET Properties]
  BY Zenon DEF IngestInv, IngestTyped, IngestTypeOK, LoaderType, FileStatuses
<1>2. \A w \in Loaders : /\ loader[w].at \in LoaderSteps
                         /\ loader[w].file \in Files \cup {Nobody}
                         /\ loader[w].left \in SUBSET Rows
  BY <1>1 DEF LoaderType
<1>3. \A w \in Loaders : loader[w].at = "idle" <=> loader[w].file = Nobody
  BY Zenon DEF IngestInv, RowsComeIn
<1>4. QED BY <1>1, <1>2, <1>3, RowFacts, Zenon

(* The tables of MotherDuck and the marts see only sales.                   *)
LEMMA OutStays ==
    ASSUME IngestInv, UNCHANGED <<sales, mart, reading, published>>
    PROVE  OutInv'
BY Zenon DEF IngestInv, OutInv, MonthsHaveSuburbs, OneReading, QuietPublicationAgrees, Sold

(* A loader's step that leaves files and rows as they are.                  *)
LEMMA MoveKeeps ==
    ASSUME IngestInv, NEW w \in Loaders, NEW step, NEW left,
           NEW file \in {loader[w].file, Nobody}, Moves(w, step, file, left),
           UNCHANGED <<fileVars, coreVars, reading, published>>,
           again \subseteq again', again' \subseteq Files, OutInv',
           mart' \in [suburbs : SUBSET Properties, months : SUBSET Properties],
           file = Nobody <=> step = "idle", step # "insert",
           step \in {"curate", "refresh", "months"}
              => loader[w].at \in {"curate", "refresh", "months"},
           loader[w].file \notin again' /\ file # Nobody
              => (step \in {"refresh", "months"} <=> loader[w].at \in {"refresh", "months"})
    PROVE  IngestInv'
<1>1. UNCHANGED <<fileStatus, accepted, observed, listing, sales, curations>>
  BY Zenon DEF fileVars, coreVars
<1>2. /\ fileStatus \in [Files -> FileStatuses] /\ accepted \in [Files -> Nat]
      /\ observed \in [Keys -> Files \cup {Nobody}]
      /\ loader[w].at # "idle" <=> loader[w].file \in Files
  BY IngestFacts, Zenon
<1>3. /\ RowsStay /\ \A f \in Files : AllIn(f) => \A k \in Keys : observed[k] = Nobody => observed'[k] # f
  BY <1>1, RowFacts, Zenon DEF RowsStay
<1>4. step \in {"curate", "refresh", "months"} => file \in Files /\ Counted(file)
  <2>1. step \in {"curate", "refresh", "months"} => file = loader[w].file
    BY <1>2, Zenon
  <2>2. step \in {"curate", "refresh", "months"} => Counted(loader[w].file)
    BY Zenon DEF IngestInv, RowsComeIn
  <2>3. step \in {"curate", "refresh", "months"} => loader[w].at # "idle"
    OBVIOUS
  <2>4. QED BY <1>2, <2>1, <2>2, <2>3, Zenon
<1>5. RowsComeIn'
  BY <1>1, <1>3, <1>4, RowsFollow, Zenon DEF IngestInv
<1>6. RepeatsAreKnown'
  BY <1>1, AloneStays, Zenon DEF IngestInv
<1>7. QED BY <1>1, <1>2, <1>3, <1>5, <1>6, LoaderStepKeeps, Zenon

LEMMA StatusSet ==
    ASSUME fileStatus \in [Files -> FileStatuses], NEW f \in Files, NEW s \in FileStatuses,
           SetStatus(f, s)
    PROVE  /\ fileStatus' \in [Files -> FileStatuses] /\ fileStatus'[f] = s
           /\ \A g \in Files \ {f} : fileStatus'[g] = fileStatus[g]
BY DEF SetStatus

LEMMA IngestStutters ==
    ASSUME IngestInv,
           UNCHANGED <<fileStatus, accepted, observed, listing, sales, curations, loader, again,
                       mart, reading, published>>
    PROVE  IngestInv'
<1>1. IngestTyped'
  BY Zenon DEF IngestInv, IngestTyped, IngestTypeOK
<1>2. RowsComeIn'
  BY Zenon DEF IngestInv, RowsComeIn, Counted, AllIn, HeldBy
<1>3. RepeatsAreKnown'
  <2>1. SUFFICES ASSUME NEW g \in Files \ again PROVE Alone(g)'
    BY Zenon DEF RepeatsAreKnown
  <2>2. Alone(g)
    BY Zenon DEF IngestInv, RepeatsAreKnown
  <2>3. QED BY <2>2, Zenon DEF Alone
<1>4. SalesInv'
  BY Zenon DEF IngestInv, SalesInv, SelectionStands, SaleIsOfSelectedRow, CuratedIsSold
<1>5. OutInv'
  BY OutStays, Zenon
<1>6. QED BY <1>1, <1>2, <1>3, <1>4, <1>5, Zenon DEF IngestInv

LEMMA RegisterKeeps ==
    ASSUME IngestInv, NEW w \in Loaders, NEW f \in Files, Register(w, f)
    PROVE  IngestInv'
<1>1. CASE Skips(f)
  <2>1. fileStatus[f] # "absent"
    BY <1>1 DEF Skips
  <2>2. UNCHANGED <<fileStatus, accepted, coreVars, loader, again, outVars>>
    BY <1>1, <2>1, Zenon DEF Register
  <2>3. UNCHANGED <<fileStatus, accepted, observed, listing, sales, curations, loader, again,
                    mart, reading, published>>
    BY <2>2, Zenon DEF coreVars, outVars
  <2>4. QED BY <2>3, IngestStutters, Zenon
<1>2. CASE ~Skips(f)
  <2>1. /\ loader \in [Loaders -> LoaderType] /\ fileStatus \in [Files -> FileStatuses]
        /\ accepted \in [Files -> Nat] /\ observed \in [Keys -> Files \cup {Nobody}]
        /\ again \subseteq Files
        /\ mart \in [suburbs : SUBSET Properties, months : SUBSET Properties]
        /\ loader[w].file \notin Files
    <3>1. loader[w].at = "idle"
      BY Zenon DEF Register
    <3>2. QED BY <3>1, IngestFacts, Zenon
  <2>2. UNCHANGED <<accepted, observed, listing, sales, curations, mart, reading, published>>
    BY Zenon DEF Register, coreVars, outVars
  <2>3. Moves(w, "load", f, {})
    <3>1. "load" \in LoaderSteps /\ {} \in SUBSET Rows /\ f \in Files \cup {Nobody}
      BY DEF LoaderSteps
    <3>2. loader' = [loader EXCEPT ![w] = [at |-> "load", file |-> f, left |-> {}]]
      BY <1>2, Zenon DEF Register
    <3>3. QED BY <2>1, <3>1, <3>2, LoaderSet, Zenon
  <2>4. /\ fileStatus' \in [Files -> FileStatuses]
        /\ \A g \in Files : fileStatus'[g] = fileStatus[g]
                              \/ (fileStatus[g] = "absent" /\ fileStatus'[g] = "registered")
    <3>1. CASE fileStatus[f] = "absent"
      <4>1. "registered" \in FileStatuses /\ SetStatus(f, "registered")
        BY <3>1 DEF FileStatuses, Register
      <4>2. /\ fileStatus' \in [Files -> FileStatuses] /\ fileStatus'[f] = "registered"
            /\ \A g \in Files \ {f} : fileStatus'[g] = fileStatus[g]
        BY <2>1, <4>1, StatusSet, Zenon
      <4>3. QED BY <3>1, <4>2
    <3>2. CASE fileStatus[f] # "absent"
      <4>1. fileStatus' = fileStatus
        BY <3>2, Zenon DEF Register
      <4>2. QED BY <2>1, <4>1
    <3>3. QED BY <3>1, <3>2
  <2>5. \A g \in Files : fileStatus'[g] \in {"loaded", "curated"} => fileStatus'[g] = fileStatus[g]
    BY <2>4
  <2>6. /\ again \subseteq again' /\ again' \subseteq Files
        /\ f \notin again' => \A v \in Loaders \ {w} : loader[v].file # f
    BY <1>2, <2>1, Zenon DEF Register
  <2>7. /\ RowsStay /\ \A g \in Files : AllIn(g) => \A k \in Keys : observed[k] = Nobody => observed'[k] # g
    BY <2>2, RowFacts, Zenon DEF RowsStay
  <2>8. RowsComeIn'
    <3>1. f # Nobody /\ "load" # "idle" /\ "load" # "insert" /\ "load" \notin {"curate", "refresh", "months"}
      BY RowFacts
    <3>2. QED BY <2>2, <2>3, <2>5, <2>7, <3>1, RowsFollow, Zenon DEF IngestInv
  <2>9. RepeatsAreKnown'
    <3>1. SUFFICES ASSUME NEW g \in Files \ again' PROVE Alone(g)'
      BY Zenon DEF RepeatsAreKnown
    <3>2. Alone(g) /\ curations' = curations
      BY <2>2, <2>6, Zenon DEF IngestInv, RepeatsAreKnown
    <3>3. curations[g] = 1 => fileStatus'[g] = "curated"
      BY <2>4, <3>2 DEF Alone
    <3>4. CASE g = f
      <4>1. \A v \in Loaders : loader'[v].file = g => v = w
        BY <2>3, <2>6, <3>4, Zenon DEF Moves
      <4>2. curations[g] # 1
        BY <1>2, <3>2, <3>4, Zenon DEF Alone, Skips
      <4>3. loader'[w].at \notin {"refresh", "months"}
        BY <2>3 DEF Moves
      <4>4. QED BY <3>2, <3>3, <4>1, <4>2, <4>3, Zenon DEF Alone
    <3>5. CASE g # f
      <4>1. \A v \in Loaders : loader'[v].file = g => loader'[v] = loader[v]
        BY <2>3, <3>5, Zenon DEF Moves
      <4>2. QED BY <3>2, <3>3, <4>1, Zenon DEF Alone
    <3>6. QED BY <3>4, <3>5, Zenon
  <2>10. OutInv'
    BY <2>2, OutStays, Zenon
  <2>11. \A g \in Files : fileStatus'[g] = "curated" => fileStatus[g] = "curated"
    BY <2>5, Zenon
  <2>12. QED
    BY <2>1, <2>2, <2>3, <2>4, <2>6, <2>7, <2>8, <2>9, <2>10, <2>11, LoaderStepKeeps, Zenon
<1>3. QED BY <1>1, <1>2, Zenon

(* A file is loaded: the loader of it writes its status alone.              *)
LEMMA BeginLoadKeeps ==
    ASSUME IngestInv, NEW w \in Loaders, BeginLoad(w)
    PROVE  IngestInv'
<1>1. PICK f : f = loader[w].file
  OBVIOUS
<1>2. /\ loader \in [Loaders -> LoaderType] /\ fileStatus \in [Files -> FileStatuses]
      /\ accepted \in [Files -> Nat] /\ observed \in [Keys -> Files \cup {Nobody}]
      /\ again \subseteq Files
      /\ mart \in [suburbs : SUBSET Properties, months : SUBSET Properties]
      /\ f \in Files /\ loader[w].at = "load"
  <2>1. loader[w].at = "load" /\ "load" # "idle"
    BY DEF BeginLoad
  <2>2. QED BY <1>1, <2>1, IngestFacts, Zenon
<1>3. UNCHANGED <<accepted, observed, listing, sales, curations, mart, reading, published, again>>
  BY Zenon DEF BeginLoad, coreVars, outVars
<1>4. /\ fileStatus' \in [Files -> FileStatuses] /\ fileStatus'[f] = "loading"
      /\ \A g \in Files \ {f} : fileStatus'[g] = fileStatus[g]
  <2>1. "loading" \in FileStatuses /\ SetStatus(f, "loading")
    BY <1>1 DEF FileStatuses, BeginLoad
  <2>2. QED BY <1>2, <2>1, StatusSet, Zenon
<1>5. Moves(w, "insert", f, RowsOf[f])
  <2>1. "insert" \in LoaderSteps /\ RowsOf[f] \in SUBSET Rows
    BY <1>2, RowFacts DEF LoaderSteps
  <2>2. loader' = [loader EXCEPT ![w].at = "insert", ![w].left = RowsOf[f]]
    BY <1>1, Zenon DEF BeginLoad
  <2>3. QED BY <1>1, <1>2, <2>1, <2>2, LoaderSteps1, Zenon
<1>6. /\ RowsStay /\ \A g \in Files : AllIn(g) => \A k \in Keys : observed[k] = Nobody => observed'[k] # g
  BY <1>3, RowFacts, Zenon DEF RowsStay
<1>7. \A g \in Files : fileStatus'[g] \in {"loaded", "curated"} => fileStatus'[g] = fileStatus[g]
  BY <1>4
<1>8. RowsComeIn'
  <2>1. f # Nobody /\ "insert" # "idle" /\ "insert" \notin {"curate", "refresh", "months"}
    BY <1>2, RowFacts
  <2>2. QED BY <1>3, <1>5, <1>6, <1>7, <2>1, RowsFollow, Zenon DEF IngestInv
<1>9. RepeatsAreKnown'
  <2>1. \A g \in Files \ again :
            curations[g] = 1 /\ fileStatus[g] = "curated" => fileStatus'[g] = "curated"
    <3>1. f \notin again => curations[f] # 1
      BY <1>1, <1>2 DEF IngestInv, RepeatsAreKnown, Alone
    <3>2. QED BY <1>4, <3>1, Zenon
  <2>2. "insert" \notin {"refresh", "months"} /\ loader[w].at \notin {"refresh", "months"}
    BY <1>2
  <2>3. QED BY <1>1, <1>3, <1>5, <2>1, <2>2, AloneStays, Zenon DEF IngestInv
<1>10. OutInv'
  BY <1>3, OutStays, Zenon
<1>11. QED
  BY <1>2, <1>3, <1>4, <1>5, <1>6, <1>7, <1>8, <1>9, <1>10, LoaderStepKeeps, Zenon

LEMMA LoadFailsKeeps ==
    ASSUME IngestInv, NEW w \in Loaders, LoadFails(w)
    PROVE  IngestInv'
<1>1. PICK f : f = loader[w].file
  OBVIOUS
<1>2. /\ loader \in [Loaders -> LoaderType] /\ fileStatus \in [Files -> FileStatuses]
      /\ accepted \in [Files -> Nat] /\ observed \in [Keys -> Files \cup {Nobody}]
      /\ again \subseteq Files
      /\ mart \in [suburbs : SUBSET Properties, months : SUBSET Properties]
      /\ f \in Files /\ loader[w].at = "insert"
  <2>1. loader[w].at = "insert" /\ "insert" # "idle"
    BY DEF LoadFails
  <2>2. QED BY <1>1, <2>1, IngestFacts, Zenon
<1>3. UNCHANGED <<accepted, observed, listing, sales, curations, mart, reading, published, again>>
  BY Zenon DEF LoadFails, coreVars, outVars
<1>4. /\ fileStatus' \in [Files -> FileStatuses] /\ fileStatus'[f] = "failed"
      /\ \A g \in Files \ {f} : fileStatus'[g] = fileStatus[g]
  <2>1. "failed" \in FileStatuses /\ SetStatus(f, "failed")
    BY <1>1 DEF FileStatuses, LoadFails
  <2>2. QED BY <1>2, <2>1, StatusSet, Zenon
<1>5. PICK step \in {"load", "idle"}, file \in {f, Nobody} :
          Moves(w, step, file, {}) /\ (step = "idle" <=> file = Nobody)
  <2>1. CASE loader' = [loader EXCEPT ![w].at = "load", ![w].left = {}]
    <3>1. "load" \in LoaderSteps /\ {} \in SUBSET Rows
      BY DEF LoaderSteps
    <3>2. Moves(w, "load", f, {})
      BY <1>1, <1>2, <2>1, <3>1, LoaderSteps1, Zenon
    <3>3. f # Nobody /\ "load" # "idle"
      BY <1>2, RowFacts
    <3>4. QED BY <3>2, <3>3, Zenon
  <2>2. CASE loader' = [loader EXCEPT ![w] = IdleLoader]
    BY <1>2, <2>2, LoaderSteps1, Zenon
  <2>3. QED BY <2>1, <2>2, Zenon DEF LoadFails
<1>6. /\ RowsStay /\ \A g \in Files : AllIn(g) => \A k \in Keys : observed[k] = Nobody => observed'[k] # g
  BY <1>3, RowFacts, Zenon DEF RowsStay
<1>7. \A g \in Files : fileStatus'[g] \in {"loaded", "curated"} => fileStatus'[g] = fileStatus[g]
  BY <1>4
<1>8. step \notin {"curate", "refresh", "months", "insert"}
  BY <1>5
<1>9. RowsComeIn'
  <2>1. step \notin {"curate", "refresh", "months"} /\ step # "insert"
    BY <1>8
  <2>2. QED BY <1>3, <1>5, <1>6, <1>7, <2>1, RowsFollow, Zenon DEF IngestInv
<1>10. RepeatsAreKnown'
  <2>1. \A g \in Files \ again :
            curations[g] = 1 /\ fileStatus[g] = "curated" => fileStatus'[g] = "curated"
    <3>1. f \notin again => curations[f] # 1
      BY <1>1, <1>2 DEF IngestInv, RepeatsAreKnown, Alone
    <3>2. QED BY <1>4, <3>1, Zenon
  <2>2. step \notin {"refresh", "months"} /\ loader[w].at \notin {"refresh", "months"}
    BY <1>2, <1>8
  <2>3. QED BY <1>1, <1>3, <1>5, <2>1, <2>2, AloneStays, Zenon DEF IngestInv
<1>11. OutInv'
  BY <1>3, OutStays, Zenon
<1>12. QED
  BY <1>2, <1>3, <1>4, <1>5, <1>6, <1>7, <1>9, <1>10, <1>11, LoaderStepKeeps, Zenon

LEMMA InsertBatchKeeps ==
    ASSUME IngestInv, NEW w \in Loaders, InsertBatch(w)
    PROVE  IngestInv'
<1>1. PICK f : f = loader[w].file
  OBVIOUS
<1>2. /\ loader \in [Loaders -> LoaderType] /\ fileStatus \in [Files -> FileStatuses]
      /\ accepted \in [Files -> Nat] /\ observed \in [Keys -> Files \cup {Nobody}]
      /\ again \subseteq Files
      /\ mart \in [suburbs : SUBSET Properties, months : SUBSET Properties]
      /\ f \in Files /\ loader[w].at = "insert" /\ loader[w].left \in SUBSET Rows
  <2>1. loader[w].at = "insert" /\ "insert" # "idle"
    BY DEF InsertBatch
  <2>2. QED BY <1>1, <2>1, IngestFacts, Zenon
<1>3. UNCHANGED <<fileStatus, accepted, listing, sales, curations, mart, reading, published, again>>
  BY Zenon DEF InsertBatch, fileVars, outVars
<1>4. PICK left : left = loader[w].left
  OBVIOUS
<1>5. PICK r \in left : /\ observed' = [observed EXCEPT ![r.key] = OwnerOf(r, f)]
                        /\ loader' = [loader EXCEPT ![w].left = left \ {r}]
  BY <1>1, <1>4, Zenon DEF InsertBatch
<1>6. /\ left \subseteq RowsOf[f] /\ \A q \in RowsOf[f] \ left : observed[q.key] # Nobody
      /\ RowsOf[f] \subseteq Rows
  BY <1>1, <1>2, <1>4, RowFacts, Zenon DEF IngestInv, RowsComeIn
<1>7. Moves(w, "insert", f, left \ {r})
  <2>1. left \ {r} \in SUBSET Rows
    BY <1>2, <1>4
  <2>2. QED BY <1>1, <1>2, <1>5, <2>1, LoaderSteps1, Zenon
<1>8. r \in RowsOf[f] /\ r \in Rows /\ r.key \in Keys
  BY <1>6, RowFacts, Zenon
<1>9. /\ observed[r.key] # Nobody => observed'[r.key] = observed[r.key]
      /\ observed[r.key] = Nobody => observed'[r.key] = f
      /\ \A k \in Keys \ {r.key} : observed'[k] = observed[k]
      /\ observed' \in [Keys -> Files \cup {Nobody}]
  BY <1>2, <1>5, <1>8 DEF OwnerOf
<1>10. RowsStay
  BY <1>9, Zenon DEF RowsStay
<1>11. \A g \in Files : AllIn(g) => \A k \in Keys : observed[k] = Nobody => observed'[k] # g
  BY <1>8, <1>9, RowFacts, Zenon DEF AllIn
<1>12. RowsComeIn'
  <2>1. f # Nobody /\ "insert" # "idle" /\ "insert" \notin {"curate", "refresh", "months"}
    BY <1>2, RowFacts
  <2>2. \A q \in RowsOf[f] \ (left \ {r}) : observed'[q.key] # Nobody
    <3>1. observed'[r.key] # Nobody
      BY <1>2, <1>9, RowFacts, Zenon
    <3>2. \A q \in RowsOf[f] \ left : observed'[q.key] # Nobody
      BY <1>6, <1>10, RowFacts, Zenon DEF RowsStay
    <3>3. QED BY <3>1, <3>2, Zenon
  <2>3. left \ {r} \subseteq RowsOf[f]
    BY <1>6, Zenon
  <2>4. QED BY <1>3, <1>7, <1>10, <1>11, <2>1, <2>2, <2>3, RowsFollow, Zenon DEF IngestInv
<1>13. RepeatsAreKnown'
  <2>1. "insert" \notin {"refresh", "months"} /\ loader[w].at \notin {"refresh", "months"}
    BY <1>2
  <2>2. QED BY <1>1, <1>3, <1>7, <2>1, AloneStays, Zenon DEF IngestInv
<1>14. OutInv'
  BY <1>3, OutStays, Zenon
<1>15. QED
  BY <1>2, <1>3, <1>7, <1>9, <1>10, <1>12, <1>13, <1>14, LoaderStepKeeps, Zenon

LEMMA CountRowsKeeps ==
    ASSUME IngestInv, NEW w \in Loaders, CountRows(w)
    PROVE  IngestInv'
<1>1. PICK f : f = loader[w].file
  OBVIOUS
<1>2. /\ loader \in [Loaders -> LoaderType] /\ fileStatus \in [Files -> FileStatuses]
      /\ accepted \in [Files -> Nat] /\ observed \in [Keys -> Files \cup {Nobody}]
      /\ again \subseteq Files
      /\ mart \in [suburbs : SUBSET Properties, months : SUBSET Properties]
      /\ f \in Files /\ loader[w].at = "insert" /\ loader[w].left = {}
  <2>1. loader[w].at = "insert" /\ "insert" # "idle" /\ loader[w].left = {}
    BY DEF CountRows
  <2>2. QED BY <1>1, <2>1, IngestFacts, Zenon
<1>3. UNCHANGED <<observed, listing, sales, curations, mart, reading, published, again>>
  BY Zenon DEF CountRows, coreVars, outVars
<1>4. /\ fileStatus' \in [Files -> FileStatuses] /\ fileStatus'[f] = "loaded"
      /\ \A g \in Files \ {f} : fileStatus'[g] = fileStatus[g]
  <2>1. "loaded" \in FileStatuses /\ SetStatus(f, "loaded")
    BY <1>1 DEF FileStatuses, CountRows
  <2>2. QED BY <1>2, <2>1, StatusSet, Zenon
<1>5. Moves(w, "curate", f, {})
  <2>1. "curate" \in LoaderSteps
    BY DEF LoaderSteps
  <2>2. loader' = [loader EXCEPT ![w].at = "curate"]
    BY Zenon DEF CountRows, StepTo
  <2>3. QED BY <1>1, <1>2, <2>1, <2>2, LoaderSteps1, Zenon
<1>6. /\ RowsStay /\ \A g \in Files : AllIn(g) => \A k \in Keys : observed[k] = Nobody => observed'[k] # g
  BY <1>3, RowFacts, Zenon DEF RowsStay
<1>7. PICK n \in Nat : n = Cardinality(HeldBy(f))
  BY HeldIsCounted, Zenon
<1>8. /\ accepted' \in [Files -> Nat] /\ accepted'[f] = n
      /\ \A g \in Files \ {f} : accepted'[g] = accepted[g]
  BY <1>1, <1>2, <1>7 DEF CountRows
<1>9. Counted(f)'
  <2>1. AllIn(f)
    BY <1>1, <1>2, Zenon DEF IngestInv, RowsComeIn, AllIn
  <2>2. AllIn(f)' /\ HeldBy(f)' = HeldBy(f)
    BY <1>2, <1>6, <2>1, CountedStays, Zenon
  <2>3. QED BY <1>7, <1>8, <2>2, Zenon DEF Counted
<1>10. RowsComeIn'
  <2>1. f # Nobody /\ "curate" # "idle" /\ "curate" # "insert"
    BY <1>2, RowFacts
  <2>2. \A g \in Files : accepted'[g] = accepted[g] \/ Counted(g)'
    BY <1>8, <1>9, Zenon
  <2>3. \A g \in Files : fileStatus'[g] \in {"loaded", "curated"}
                            => fileStatus[g] \in {"loaded", "curated"} \/ Counted(g)'
    BY <1>4, <1>9, Zenon
  <2>4. QED
    BY <1>2, <1>5, <1>6, <1>9, <2>1, <2>2, <2>3, RowsFollow, Zenon DEF IngestInv
<1>11. RepeatsAreKnown'
  <2>1. \A g \in Files \ again :
            curations[g] = 1 /\ fileStatus[g] = "curated" => fileStatus'[g] = "curated"
    <3>1. f \notin again => curations[f] # 1
      BY <1>1, <1>2 DEF IngestInv, RepeatsAreKnown, Alone
    <3>2. QED BY <1>4, <3>1, Zenon
  <2>2. "curate" \notin {"refresh", "months"} /\ loader[w].at \notin {"refresh", "months"}
    BY <1>2
  <2>3. QED BY <1>1, <1>3, <1>5, <2>1, <2>2, AloneStays, Zenon DEF IngestInv
<1>12. OutInv'
  BY <1>3, OutStays, Zenon
<1>13. \A g \in Files : fileStatus'[g] = "curated" => fileStatus[g] = "curated"
  BY <1>4
<1>14. QED
  BY <1>2, <1>3, <1>4, <1>5, <1>6, <1>8, <1>10, <1>11, <1>12, <1>13, LoaderStepKeeps, Zenon

(* The loader's process dies, or its run ends.                              *)
LEMMA LoaderDiesKeeps ==
    ASSUME IngestInv, NEW w \in Loaders, LoaderDies(w)
    PROVE  IngestInv'
<1>1. PICK f, was : f = loader[w].file /\ was = loader[w].at
  OBVIOUS
<1>2. /\ loader \in [Loaders -> LoaderType] /\ again \subseteq Files
      /\ mart \in [suburbs : SUBSET Properties, months : SUBSET Properties]
      /\ f \in Files /\ was \in LoaderSteps \ {"idle"}
  <2>1. loader[w].at # "idle"
    BY Zenon DEF LoaderDies
  <2>2. QED BY <1>1, <2>1, IngestFacts, Zenon
<1>3. UNCHANGED <<fileVars, coreVars, mart, reading, published>>
  BY Zenon DEF LoaderDies, outVars
<1>4. OutInv'
  BY <1>3, OutStays, Zenon DEF coreVars
<1>5. ASSUME NEW to \in Rerun(was),
             loader' = [loader EXCEPT ![w].at = to, ![w].left = {}],
             again' = IF to = "curate" /\ was # "curate" THEN again \cup {f} ELSE again
      PROVE  IngestInv'
  <2>1. /\ to \in LoaderSteps /\ to # "insert" /\ to # "idle"
        /\ to \in {"curate", "refresh", "months"} => was \in {"curate", "refresh", "months"}
        /\ ~(to = "curate" /\ was # "curate")
              => (to \in {"refresh", "months"} <=> was \in {"refresh", "months"})
    BY <1>2, <1>5 DEF Rerun, LoaderSteps
  <2>2. Moves(w, to, f, {})
    BY <1>1, <1>2, <1>5, <2>1, LoaderSteps1, Zenon
  <2>3. again \subseteq again' /\ again' \subseteq Files
    BY <1>2, <1>5
  <2>4. f \notin again' => (to \in {"refresh", "months"} <=> was \in {"refresh", "months"})
    BY <1>5, <2>1
  <2>5. f # Nobody
    BY <1>2, RowFacts, Zenon
  <2>6. QED
    BY <1>1, <1>2, <1>3, <1>4, <2>1, <2>2, <2>3, <2>4, <2>5, MoveKeeps, Zenon
<1>6. ASSUME loader' = [loader EXCEPT ![w] = IdleLoader], UNCHANGED again PROVE IngestInv'
  <2>1. Moves(w, "idle", Nobody, {})
    BY <1>2, <1>6, LoaderSteps1, Zenon
  <2>2. "idle" # "insert" /\ "idle" \notin {"curate", "refresh", "months"}
    OBVIOUS
  <2>3. again \subseteq again' /\ again' \subseteq Files
    BY <1>2, <1>6, Zenon
  <2>4. QED BY <1>2, <1>3, <1>4, <2>1, <2>2, <2>3, MoveKeeps, Zenon
<1>7. QED BY <1>1, <1>5, <1>6, Zenon DEF LoaderDies

LEMMA CurateFailsKeeps ==
    ASSUME IngestInv, NEW w \in Loaders, CurateFails(w)
    PROVE  IngestInv'
<1>1. /\ loader \in [Loaders -> LoaderType] /\ again \subseteq Files
      /\ mart \in [suburbs : SUBSET Properties, months : SUBSET Properties]
  BY IngestFacts, Zenon
<1>2. UNCHANGED <<fileVars, coreVars, mart, reading, published, again>>
  BY Zenon DEF CurateFails, outVars
<1>3. OutInv'
  BY <1>2, OutStays, Zenon DEF coreVars
<1>4. Moves(w, "idle", Nobody, {})
  BY <1>1, LoaderSteps1, Zenon DEF CurateFails
<1>5. "idle" # "insert" /\ "idle" \notin {"curate", "refresh", "months"}
  OBVIOUS
<1>6. QED BY <1>1, <1>2, <1>3, <1>4, <1>5, MoveKeeps, Zenon

(* The marts hold what is sold.                                             *)
LEMMA SoldTyped ==
    ASSUME IngestTyped
    PROVE  Sold \in SUBSET Properties
BY DEF IngestTyped, IngestTypeOK, Sold, Sale

LEMMA RefreshKeeps ==
    ASSUME IngestInv, NEW w \in Loaders, RefreshSuburbs(w) \/ RefreshMonths(w)
    PROVE  IngestInv'
<1>1. PICK f, was, left : f = loader[w].file /\ was = loader[w].at /\ left = loader[w].left
  OBVIOUS
<1>2. /\ loader \in [Loaders -> LoaderType] /\ again \subseteq Files
      /\ mart \in [suburbs : SUBSET Properties, months : SUBSET Properties]
      /\ f \in Files /\ was \in {"refresh", "months"}
  <2>1. was \in {"refresh", "months"} /\ was # "idle"
    BY <1>1 DEF RefreshSuburbs, RefreshMonths
  <2>2. QED BY <1>1, <2>1, IngestFacts, Zenon
<1>3. UNCHANGED <<fileVars, coreVars, reading, published, again>>
  BY Zenon DEF RefreshSuburbs, RefreshMonths
<1>4. sales' = sales /\ Sold' = Sold /\ Sold \in SUBSET Properties
  BY <1>3, SoldTyped, Zenon DEF IngestInv, coreVars, Sold
<1>5. /\ mart' \in [suburbs : SUBSET Properties, months : SUBSET Properties]
      /\ mart'.suburbs \subseteq Sold /\ mart'.months \subseteq mart'.suburbs
  <2>1. mart.suburbs \subseteq Sold /\ mart.months \subseteq mart.suburbs
    BY Zenon DEF IngestInv, OutInv, MonthsHaveSuburbs
  <2>2. \/ mart' = [mart EXCEPT !.suburbs = Sold]
        \/ mart' = mart
        \/ mart' = [mart EXCEPT !.months = Sold \cap mart.suburbs]
    BY Zenon DEF RefreshSuburbs, RefreshMonths, MonthsOfSuburbs
  <2>3. CASE mart' = [mart EXCEPT !.suburbs = Sold]
    BY <1>2, <1>4, <2>1, <2>3
  <2>4. CASE mart' = mart
    BY <1>2, <2>1, <2>4, Zenon
  <2>5. CASE mart' = [mart EXCEPT !.months = Sold \cap mart.suburbs]
    BY <1>2, <1>4, <2>1, <2>5
  <2>6. QED BY <2>2, <2>3, <2>4, <2>5, Zenon
<1>6. OutInv'
  BY <1>3, <1>4, <1>5, Zenon
  DEF IngestInv, OutInv, MonthsHaveSuburbs, OneReading, QuietPublicationAgrees
<1>7. again \subseteq again' /\ again' \subseteq Files
  BY <1>2, <1>3, Zenon
<1>8. CASE loader' = [loader EXCEPT ![w].at = "months"]
  <2>1. "months" \in LoaderSteps /\ "months" # "idle" /\ "months" # "insert"
        /\ was \in {"curate", "refresh", "months"}
    BY <1>2 DEF LoaderSteps
  <2>2. Moves(w, "months", f, left)
    BY <1>1, <1>2, <1>8, <2>1, LoaderSteps1, Zenon
  <2>3. f # Nobody
    BY <1>2, RowFacts, Zenon
  <2>4. QED
    BY <1>1, <1>2, <1>3, <1>5, <1>6, <1>7, <2>1, <2>2, <2>3, MoveKeeps, Zenon
<1>9. CASE loader' = [loader EXCEPT ![w] = IdleLoader]
  <2>1. Moves(w, "idle", Nobody, {})
    BY <1>2, <1>9, LoaderSteps1, Zenon
  <2>2. "idle" # "insert" /\ "idle" \notin {"curate", "refresh", "months"}
    OBVIOUS
  <2>3. QED BY <1>2, <1>3, <1>5, <1>6, <1>7, <2>1, <2>2, MoveKeeps, Zenon
<1>10. QED BY <1>8, <1>9, Zenon DEF RefreshSuburbs, RefreshMonths, StepTo

(* What a curation makes of a listing.                                      *)
LEMMA CuratedListing ==
    ASSUME IngestTyped, NEW f \in Files, NEW l \in Listings
    PROVE  /\ Curated(f, l) \in [property : Properties \cup {Withheld, Nobody},
                                 selected : Keys \cup {Nobody}]
           /\ Curated(f, l).property = Nobody <=> Curated(f, l).selected = Nobody
           /\ listing[l].selected # Nobody => Curated(f, l).selected = listing[l].selected
           /\ listing[l].property \in Properties => Curated(f, l).property \in Properties
           /\ listing[l].selected = Nobody /\ Curated(f, l).selected # Nobody =>
                 \E r \in Rows : /\ r.listing = l /\ observed[r.key] = f
                                 /\ Curated(f, l).selected = r.key
                                 /\ Curated(f, l).property = r.property
<1>1. /\ listing[l] \in [property : Properties \cup {Withheld, Nobody}, selected : Keys \cup {Nobody}]
      /\ listing[l].property = Nobody <=> listing[l].selected = Nobody
  BY Zenon DEF IngestTyped, IngestTypeOK
<1>2. listing[l].property \in Properties \cup {Withheld, Nobody}
      /\ listing[l].selected \in Keys \cup {Nobody}
  BY <1>1
<1>3. CASE CandidatesFor(f, l) = {}
  <2>1. Curated(f, l) = listing[l]
    BY <1>3 DEF Curated
  <2>2. QED BY <1>1, <2>1, Zenon
<1>4. CASE CandidatesFor(f, l) # {}
  <2>1. PICK b : b = Best(f, l)
    OBVIOUS
  <2>2. b \in Rows /\ observed[b.key] = f /\ b.listing = l
    BY <1>4, <2>1, BestIsCandidate, Zenon DEF CandidatesFor, Candidates
  <2>3. b.key \in Keys /\ b.key # Nobody /\ b.property \in Properties \cup {Withheld}
        /\ b.property # Nobody
    BY <2>2, RowFacts, Zenon
  <2>4. PICK p, k : p = Coalesced(b.property, listing[l].property) /\ k = Selected(f, l)
    OBVIOUS
  <2>5. Curated(f, l) = [property |-> p, selected |-> k]
    BY <1>4, <2>1, <2>4, Zenon DEF Curated
  <2>6. Curated(f, l).property = p /\ Curated(f, l).selected = k
    BY <2>5
  <2>7. /\ listing[l].selected = Nobody => k = b.key
        /\ listing[l].selected # Nobody => k = listing[l].selected
    BY <2>1, <2>4 DEF Selected
  <2>8. /\ listing[l].property = Nobody => p = b.property
        /\ p \in {b.property, listing[l].property}
        /\ listing[l].property \in Properties => p \in Properties
        /\ p # Nobody
    <3>1. p = IF b.property = Withheld /\ listing[l].property # Nobody
              THEN listing[l].property ELSE b.property
      BY <2>4, Zenon DEF Coalesced
    <3>2. Nobody \notin Properties
      BY RowFacts, Zenon
    <3>3. QED BY <2>3, <3>1, <3>2
  <2>9. k \in Keys /\ k # Nobody
    BY <1>2, <2>3, <2>7, RowFacts, Zenon
  <2>10. Curated(f, l) \in [property : Properties \cup {Withheld, Nobody}, selected : Keys \cup {Nobody}]
    BY <1>2, <2>3, <2>5, <2>8, <2>9
  <2>11. QED BY <1>1, <2>2, <2>6, <2>7, <2>8, <2>9, <2>10, Zenon
<1>5. QED BY <1>3, <1>4, Zenon

(* The sales a curation adds are of the rows it leaves selected.            *)
LEMMA NewSales ==
    ASSUME NEW f, NEW L, NEW s
    PROVE  s \in SalesOf(f, L) <=>
              \E l \in Listings :
                 /\ L[l].selected # Nobody /\ observed[L[l].selected] = f
                 /\ L[l].property \in Properties
                 /\ s = [listing |-> l, property |-> L[l].property, key |-> L[l].selected]
BY Zenon DEF SalesOf, SoldIn

(* A reading that is crossed by a curation stays one.                       *)
LEMMA ReadingMoved ==
    ASSUME reading \in [at : {"idle", "suburbs", "months", "facts", "published"},
                        tables : Tables, moved : BOOLEAN],
           reading' = [reading EXCEPT !.moved = TRUE]
    PROVE  /\ reading' \in [at : {"idle", "suburbs", "months", "facts", "published"},
                            tables : Tables, moved : BOOLEAN]
           /\ reading'.moved
<1>1. PICK a \in {"idle", "suburbs", "months", "facts", "published"}, t \in Tables, m \in BOOLEAN :
          reading = [at |-> a, tables |-> t, moved |-> m]
  BY Zenon
<1>2. \A v : [[at |-> a, tables |-> t, moved |-> m] EXCEPT !.moved = v]
                = [at |-> a, tables |-> t, moved |-> v]
  OBVIOUS
<1>3. reading' = [at |-> a, tables |-> t, moved |-> TRUE]
  BY <1>1, <1>2, Zenon
<1>4. QED BY <1>3, Zenon

LEMMA CurateKeeps ==
    ASSUME IngestInv, NEW w \in Loaders, Curate(w)
    PROVE  IngestInv'
<1>1. PICK f, left : f = loader[w].file /\ left = loader[w].left
  OBVIOUS
<1>2. /\ loader \in [Loaders -> LoaderType] /\ fileStatus \in [Files -> FileStatuses]
      /\ again \subseteq Files /\ IngestTyped
      /\ f \in Files /\ loader[w].at = "curate" /\ left \in SUBSET Rows
  <2>1. loader[w].at = "curate" /\ "curate" # "idle"
    BY DEF Curate
  <2>2. QED BY <1>1, <2>1, IngestFacts, Zenon DEF IngestInv
<1>3. UNCHANGED <<again, accepted, observed, mart, published>>
  BY Zenon DEF Curate
<1>4. /\ fileStatus' \in [Files -> FileStatuses] /\ fileStatus'[f] = "curated"
      /\ \A g \in Files \ {f} : fileStatus'[g] = fileStatus[g]
  <2>1. "curated" \in FileStatuses /\ SetStatus(f, "curated")
    BY <1>1 DEF FileStatuses, Curate
  <2>2. QED BY <1>2, <2>1, StatusSet, Zenon
<1>5. Moves(w, "refresh", f, left)
  <2>1. "refresh" \in LoaderSteps
    BY DEF LoaderSteps
  <2>2. loader' = [loader EXCEPT ![w].at = "refresh"]
    BY Zenon DEF Curate, StepTo
  <2>3. QED BY <1>1, <1>2, <2>1, <2>2, LoaderSteps1, Zenon
<1>6. /\ listing' = [l \in Listings |-> Curated(f, l)]
      /\ sales' = sales \cup SalesOf(f, listing')
      /\ reading' = [reading EXCEPT !.moved = TRUE]
  BY <1>1, Zenon DEF Curate
<1>7. /\ curations' \in [Files -> Nat]
      /\ \A g \in Files \ {f} : curations'[g] = curations[g]
      /\ curations[f] = 0 => curations'[f] = 1
      /\ curations[f] # 0 => curations'[f] > 1
      /\ curations'[f] # 0
      /\ \A g \in Files : curations[g] > 1 => curations'[g] > 1
  <2>1. curations' = [curations EXCEPT ![f] = IF @ = 2 THEN 2 ELSE @ + 1]
    BY <1>1, Zenon DEF Curate
  <2>2. curations \in [Files -> Nat]
    BY <1>2 DEF IngestTyped
  <2>3. QED BY <1>2, <2>1, <2>2
<1>8. ASSUME NEW l \in Listings
      PROVE  /\ listing'[l] \in [property : Properties \cup {Withheld, Nobody},
                                 selected : Keys \cup {Nobody}]
             /\ listing'[l].property = Nobody <=> listing'[l].selected = Nobody
             /\ listing[l].selected # Nobody => listing'[l].selected = listing[l].selected
             /\ listing[l].property \in Properties => listing'[l].property \in Properties
             /\ listing[l].selected = Nobody /\ listing'[l].selected # Nobody =>
                   \E r \in Rows : /\ r.listing = l /\ observed[r.key] = f
                                   /\ listing'[l].selected = r.key
                                   /\ listing'[l].property = r.property
  <2>1. listing'[l] = Curated(f, l)
    BY <1>6
  <2>2. PICK c : c = Curated(f, l)
    OBVIOUS
  <2>3. /\ c \in [property : Properties \cup {Withheld, Nobody}, selected : Keys \cup {Nobody}]
        /\ c.property = Nobody <=> c.selected = Nobody
        /\ listing[l].selected # Nobody => c.selected = listing[l].selected
        /\ listing[l].property \in Properties => c.property \in Properties
        /\ listing[l].selected = Nobody /\ c.selected # Nobody =>
              \E r \in Rows : /\ r.listing = l /\ observed[r.key] = f
                              /\ c.selected = r.key /\ c.property = r.property
    BY <1>2, <2>2, CuratedListing, Zenon
  <2>4. QED BY <2>1, <2>2, <2>3, Zenon
<1>9. /\ \A l \in Listings : listing[l].selected # Nobody => listing[l].selected \in Keys
      /\ \A s \in sales : s.key \in Keys /\ s.listing \in Listings /\ s.key # Nobody
                          /\ s \in Sale
      /\ \A k \in Keys : observed[k] # Nobody => observed[k] \in Files
  <2>1. \A s \in sales : s.key \in Keys /\ s.listing \in Listings /\ s \in Sale
    BY <1>2 DEF IngestTyped, IngestTypeOK, Sale
  <2>2. \A k \in Keys : observed[k] # Nobody => observed[k] \in Files
    BY <1>2 DEF IngestTyped, IngestTypeOK
  <2>3. \A l \in Listings : listing[l].selected # Nobody => listing[l].selected \in Keys
    BY <1>2 DEF IngestTyped, IngestTypeOK
  <2>4. QED BY <2>1, <2>2, <2>3, RowFacts, Zenon
<1>10. ASSUME NEW s \in SalesOf(f, listing')
       PROVE  /\ s \in Sale /\ s.listing \in Listings /\ s.key \in Keys /\ observed[s.key] = f
              /\ listing'[s.listing].selected = s.key /\ s.key # Nobody
              /\ s = [listing |-> s.listing, property |-> listing'[s.listing].property,
                      key |-> listing'[s.listing].selected]
  <2>1. PICK L : L = listing'
    OBVIOUS
  <2>2. s \in SalesOf(f, L)
    BY <1>10, <2>1, Zenon
  <2>3. PICK l \in Listings :
            /\ L[l].selected # Nobody /\ observed[L[l].selected] = f
            /\ L[l].property \in Properties
            /\ s = [listing |-> l, property |-> L[l].property, key |-> L[l].selected]
    BY <2>2, Zenon DEF SalesOf, SoldIn
  <2>4. s.listing = l /\ s.property = L[l].property /\ s.key = L[l].selected
    BY <2>3
  <2>5. L[l].selected \in Keys
    BY <1>8, <2>1, <2>3
  <2>6. s \in Sale
    BY <2>3, <2>5 DEF Sale
  <2>7. QED BY <2>1, <2>3, <2>4, <2>5, <2>6, Zenon
<1>11. IngestTyped'
  <2>1. listing' \in [Listings -> [property : Properties \cup {Withheld, Nobody},
                                   selected : Keys \cup {Nobody}]]
    <3>1. listing' = [l \in Listings |-> listing'[l]]
      BY <1>6
    <3>2. QED BY <1>8, <3>1, Zenon
  <2>2. sales' \subseteq Sale
    BY <1>6, <1>9, <1>10, Zenon
  <2>3. reading' \in [at : {"idle", "suburbs", "months", "facts", "published"},
                      tables : Tables, moved : BOOLEAN]
    BY <1>2, <1>6, ReadingMoved, Zenon DEF IngestTyped, IngestTypeOK
  <2>4. \A l \in Listings : listing'[l].property = Nobody <=> listing'[l].selected = Nobody
    BY <1>8, Zenon
  <2>5. loader' \in [Loaders -> LoaderType]
    BY <1>5, Zenon DEF Moves
  <2>6. QED
    BY <1>2, <1>3, <1>4, <1>7, <2>1, <2>2, <2>3, <2>4, <2>5, Zenon
    DEF IngestTyped, IngestTypeOK, LoaderType, FileStatuses
<1>12. /\ RowsStay /\ \A g \in Files : AllIn(g) => \A k \in Keys : observed[k] = Nobody => observed'[k] # g
  BY <1>3, RowFacts, Zenon DEF RowsStay
<1>13. RowsComeIn'
  <2>1. f # Nobody /\ "refresh" # "idle" /\ "refresh" # "insert"
    BY <1>2, RowFacts
  <2>2. Counted(f)
    <3>1. loader[w].at \in {"curate", "refresh", "months"}
      BY <1>2
    <3>2. QED BY <1>1, <3>1, Zenon DEF IngestInv, RowsComeIn
  <2>3. Counted(f)'
    <3>1. AllIn(f)' /\ HeldBy(f)' = HeldBy(f)
      BY <1>2, <1>12, <2>2, CountedStays, Zenon DEF Counted
    <3>2. QED BY <1>3, <2>2, <3>1, Zenon DEF Counted
  <2>4. \A g \in Files : fileStatus'[g] \in {"loaded", "curated"}
                            => fileStatus[g] \in {"loaded", "curated"} \/ Counted(g)'
    BY <1>4, <2>3, Zenon
  <2>5. RowsComeIn
    BY Zenon DEF IngestInv
  <2>6. QED
    BY <1>2, <1>3, <1>5, <1>12, <2>1, <2>2, <2>4, <2>5, RowsFollow, Zenon
<1>14. RepeatsAreKnown'
  <2>1. SUFFICES ASSUME NEW g \in Files \ again PROVE Alone(g)'
    BY <1>3, Zenon DEF RepeatsAreKnown
  <2>2. Alone(g)
    BY Zenon DEF IngestInv, RepeatsAreKnown
  <2>3. /\ loader'[w].at = "refresh" /\ loader'[w].file = f
        /\ \A v \in Loaders \ {w} : loader'[v] = loader[v]
    BY <1>5, Zenon DEF Moves
  <2>4. \A v \in Loaders : loader'[v].file = loader[v].file
    BY <1>1, <2>3, Zenon
  <2>5. CASE g = f
    <3>1. curations'[g] = 1
      <4>1. curations[f] \in {0, 1} /\ curations[f] # 1
        BY <1>1, <1>2, <2>2, <2>5 DEF Alone
      <4>2. QED BY <1>7, <2>5, <4>1
    <3>2. \A v \in Loaders : loader'[v].file = g => v = w
      BY <1>1, <2>2, <2>4, <2>5, Zenon DEF Alone
    <3>3. \A v \in Loaders : loader'[v].file = g => loader'[v].at \in {"refresh", "months"}
      BY <2>3, <3>2, Zenon
    <3>4. \A v, u \in Loaders : loader'[v].file = g /\ loader'[u].file = g => v = u
      BY <3>2, Zenon
    <3>5. QED BY <1>4, <2>5, <3>1, <3>3, <3>4, Zenon DEF Alone
  <2>6. CASE g # f
    <3>1. \A v \in Loaders : loader'[v].file = g => loader'[v] = loader[v]
      BY <1>1, <2>3, <2>6, Zenon
    <3>2. curations'[g] = curations[g] /\ fileStatus'[g] = fileStatus[g]
      BY <1>4, <1>7, <2>6, Zenon
    <3>3. QED BY <2>2, <2>4, <3>1, <3>2, ZenonT(60) DEF Alone
  <2>7. QED BY <2>5, <2>6, Zenon
<1>15. SelectionStands'
  <2>1. ASSUME NEW l \in Listings, listing'[l].selected # Nobody
        PROVE  observed[listing'[l].selected] # Nobody
    <3>1. CASE listing[l].selected # Nobody
      BY <1>8, <3>1, Zenon DEF IngestInv, SalesInv, SelectionStands
    <3>2. CASE listing[l].selected = Nobody
      BY <1>2, <1>8, <2>1, <3>2, RowFacts, Zenon
    <3>3. QED BY <3>1, <3>2, Zenon
  <2>2. ASSUME NEW r \in Rows, listing'[r.listing].selected = r.key, r.property # Withheld
        PROVE  listing'[r.listing].property \in Properties
    <3>1. r.listing \in Listings /\ r.key # Nobody /\ r.property \in Properties
      BY <2>2, RowFacts, Zenon
    <3>2. CASE listing[r.listing].selected # Nobody
      <4>1. listing[r.listing].selected = r.key
        BY <1>8, <2>2, <3>1, <3>2, Zenon
      <4>2. listing[r.listing].property \in Properties
        BY <2>2, <4>1, Zenon DEF IngestInv, SalesInv, SelectionStands
      <4>3. QED BY <1>8, <3>1, <4>2, Zenon
    <3>3. CASE listing[r.listing].selected = Nobody
      <4>1. PICK q \in Rows : /\ listing'[r.listing].selected = q.key
                              /\ listing'[r.listing].property = q.property
        BY <1>8, <2>2, <3>1, <3>3, Zenon
      <4>2. q = r
        BY <2>2, <4>1, RowFacts, Zenon
      <4>3. QED BY <3>1, <4>1, <4>2, Zenon
    <3>4. QED BY <3>2, <3>3, Zenon
  <2>3. ASSUME NEW s \in sales'
        PROVE  observed[s.key] # Nobody /\ curations'[observed[s.key]] # 0
    <3>1. CASE s \in sales
      <4>1. observed[s.key] \in Files /\ curations[observed[s.key]] # 0
        BY <1>9, <3>1, Zenon DEF IngestInv, SalesInv, SelectionStands
      <4>2. QED BY <1>7, <4>1, RowFacts, Zenon
    <3>2. CASE s \in SalesOf(f, listing')
      BY <1>2, <1>7, <1>10, <3>2, RowFacts, Zenon
    <3>3. QED BY <1>6, <2>3, <3>1, <3>2, Zenon
  <2>4. QED BY <1>3, <2>1, <2>2, <2>3, Zenon DEF SelectionStands
<1>16. SaleIsOfSelectedRow'
  <2>1. ASSUME NEW s \in sales' PROVE listing'[s.listing].selected = s.key
    <3>1. CASE s \in sales
      BY <1>8, <1>9, <3>1, Zenon DEF IngestInv, SalesInv, SaleIsOfSelectedRow
    <3>2. CASE s \in SalesOf(f, listing')
      BY <1>10, <3>2, Zenon
    <3>3. QED BY <1>6, <2>1, <3>1, <3>2, Zenon
  <2>2. ASSUME NEW s \in sales', NEW t \in sales', s # t, s.listing = t.listing
        PROVE  curations'[observed[s.key]] > 1
    <3>1. s.key = t.key
      BY <2>1, <2>2, Zenon
    <3>2. CASE s \in sales /\ t \in sales
      <4>1. curations[observed[s.key]] > 1 /\ observed[s.key] \in Files
        BY <1>9, <2>2, <3>2, Zenon DEF IngestInv, SalesInv, SelectionStands, SaleIsOfSelectedRow
      <4>2. QED BY <1>7, <4>1, Zenon
    <3>3. CASE s \in SalesOf(f, listing') /\ t \in SalesOf(f, listing')
      BY <1>10, <2>2, <3>3, Zenon
    <3>4. CASE (s \in sales \/ t \in sales) /\ (s \in SalesOf(f, listing') \/ t \in SalesOf(f, listing'))
      <4>1. observed[s.key] = f
        BY <1>10, <3>1, <3>4, Zenon
      <4>2. curations[f] # 0
        BY <3>1, <3>4, <4>1, Zenon DEF IngestInv, SalesInv, SelectionStands
      <4>3. QED BY <1>7, <4>1, <4>2, Zenon
    <3>5. QED BY <1>6, <2>2, <3>2, <3>3, <3>4, Zenon
  <2>3. QED BY <1>3, <2>1, <2>2, Zenon DEF SaleIsOfSelectedRow
<1>17. CuratedIsSold'
  <2>1. SUFFICES ASSUME NEW r \in Rows, r.property # Withheld,
                        listing'[r.listing].selected = r.key,
                        fileStatus'[observed[r.key]] = "curated"
                 PROVE  \E s \in sales' : s.listing = r.listing
    BY <1>3, Zenon DEF CuratedIsSold
  <2>2. r.listing \in Listings /\ r.key \in Keys /\ r.key # Nobody
    BY RowFacts, Zenon
  <2>3. CASE observed[r.key] = f
    <3>1. PICK L : L = listing'
      OBVIOUS
    <3>2. L[r.listing].property \in Properties
      BY <1>15, <2>1, <3>1, Zenon DEF SelectionStands
    <3>3. PICK s : s = [listing |-> r.listing, property |-> L[r.listing].property,
                        key |-> L[r.listing].selected]
      OBVIOUS
    <3>4. s \in SalesOf(f, L)
      BY <2>1, <2>2, <2>3, <3>1, <3>2, <3>3, NewSales, Zenon
    <3>5. s.listing = r.listing
      BY <3>3
    <3>6. QED BY <1>6, <3>1, <3>4, <3>5, Zenon
  <2>4. CASE observed[r.key] # f
    <3>1. listing[r.listing].selected # Nobody
      BY <1>8, <2>1, <2>2, <2>4, Zenon
    <3>2. listing[r.listing].selected = r.key
      BY <1>8, <2>1, <2>2, <3>1, Zenon
    <3>3. observed[r.key] # Nobody
      BY <2>2, <3>1, <3>2, Zenon DEF IngestInv, SalesInv, SelectionStands
    <3>4. observed[r.key] \in Files
      BY <1>9, <2>2, <3>3, Zenon
    <3>5. fileStatus[observed[r.key]] = "curated"
      BY <1>4, <2>1, <2>4, <3>4, Zenon
    <3>6. \E s \in sales : s.listing = r.listing
      BY <2>1, <3>2, <3>5, Zenon DEF IngestInv, SalesInv, CuratedIsSold
    <3>7. QED BY <1>6, <3>6, Zenon
  <2>5. QED BY <2>3, <2>4, Zenon
<1>18. OutInv'
  <2>1. Sold \subseteq Sold'
    BY <1>6, Zenon DEF Sold
  <2>2. reading'.moved
    BY <1>2, <1>6, ReadingMoved, Zenon DEF IngestTyped, IngestTypeOK
  <2>3. QED
    BY <1>3, <2>1, <2>2, Zenon
    DEF IngestInv, OutInv, MonthsHaveSuburbs, OneReading, QuietPublicationAgrees
<1>19. QED
  BY <1>11, <1>13, <1>14, <1>15, <1>16, <1>17, <1>18, Zenon DEF IngestInv, SalesInv

(* The publisher reads and writes nothing of the loaders.                   *)
LEMMA PublisherKeeps ==
    ASSUME IngestInv, UNCHANGED <<again, fileVars, coreVars, loader, mart>>,
           reading' \in [at : {"idle", "suburbs", "months", "facts", "published"},
                         tables : Tables, moved : BOOLEAN],
           published' \in [tables : Tables, moved : BOOLEAN],
           OneReading', QuietPublicationAgrees'
    PROVE  IngestInv'
<1>1. UNCHANGED <<fileStatus, accepted, observed, listing, sales, curations, loader, again, mart>>
  BY Zenon DEF fileVars, coreVars
<1>2. IngestTyped'
  BY <1>1, Zenon DEF IngestInv, IngestTyped, IngestTypeOK
<1>3. RowsComeIn'
  <2>1. \A f : Counted(f) => Counted(f)'
    BY <1>1, Zenon DEF Counted, AllIn, HeldBy
  <2>2. \A v \in Loaders : Counted(loader[v].file) => Counted(loader[v].file)'
    BY <1>1, Zenon DEF Counted, AllIn, HeldBy
  <2>3. RowsComeIn
    BY Zenon DEF IngestInv
  <2>4. QED BY <1>1, <2>1, <2>2, <2>3, Zenon DEF RowsComeIn
<1>4. RepeatsAreKnown'
  <2>1. SUFFICES ASSUME NEW g \in Files \ again PROVE Alone(g)'
    BY <1>1, Zenon DEF RepeatsAreKnown
  <2>2. Alone(g)
    BY Zenon DEF IngestInv, RepeatsAreKnown
  <2>3. QED BY <1>1, <2>2, Zenon DEF Alone
<1>5. SalesInv'
  BY <1>1, Zenon DEF IngestInv, SalesInv, SelectionStands, SaleIsOfSelectedRow, CuratedIsSold
<1>6. OutInv'
  BY <1>1, Zenon DEF IngestInv, OutInv, MonthsHaveSuburbs, Sold
<1>7. QED BY <1>2, <1>3, <1>4, <1>5, <1>6, Zenon DEF IngestInv

LEMMA ReadKeeps ==
    ASSUME IngestInv,
           \/ Read("suburbs", "idle", "suburbs")
           \/ Read("months", "suburbs", "months")
           \/ Read("facts", "months", "facts")
    PROVE  IngestInv'
<1>1. PICK t, m, p : t = reading.tables /\ m = reading.moved /\ p = published
  OBVIOUS
<1>2. /\ t \in Tables /\ m \in BOOLEAN /\ p \in [tables : Tables, moved : BOOLEAN]
  BY <1>1, Zenon DEF IngestInv, IngestTyped, IngestTypeOK
<1>3. UNCHANGED <<again, fileVars, coreVars, loader, mart, published>>
  BY Zenon DEF Read
<1>4. Sold' = Sold /\ Sold \in SUBSET Properties
  BY <1>3, SoldTyped, Zenon DEF IngestInv, Sold, coreVars
<1>5. ~m => /\ reading.at \in {"suburbs", "months", "facts"} => t.suburbs = Sold
            /\ reading.at \in {"months", "facts"} => t.months = Sold
            /\ reading.at = "facts" => t.facts = Sold
  BY <1>1, Zenon DEF IngestInv, OutInv, OneReading
<1>6. ASSUME NEW to \in {"suburbs", "months", "facts"}, NEW u \in Tables, NEW n \in BOOLEAN,
             reading' = [at |-> to, tables |-> u, moved |-> n],
             ~n => /\ u.suburbs = Sold
                   /\ to \in {"months", "facts"} => u.months = Sold
                   /\ to = "facts" => u.facts = Sold
      PROVE  IngestInv'
  <2>1. reading'.at = to /\ reading'.tables = u /\ (reading'.moved <=> n)
    BY <1>6, Zenon
  <2>2. reading' \in [at : {"idle", "suburbs", "months", "facts", "published"},
                      tables : Tables, moved : BOOLEAN]
    BY <1>6, Zenon
  <2>3. OneReading'
    BY <1>4, <1>6, <2>1, Zenon DEF OneReading
  <2>4. QuietPublicationAgrees'
    BY <1>3, Zenon DEF IngestInv, OutInv, QuietPublicationAgrees
  <2>5. published' \in [tables : Tables, moved : BOOLEAN]
    BY <1>1, <1>2, <1>3, Zenon
  <2>6. QED BY <1>3, <2>2, <2>3, <2>4, <2>5, PublisherKeeps, Zenon
<1>7. CASE Read("suburbs", "idle", "suburbs")
  <2>1. reading' = [at |-> "suburbs", tables |-> [t EXCEPT !["suburbs"] = Sold], moved |-> FALSE]
    BY <1>1, <1>7, Zenon DEF Read
  <2>2. [t EXCEPT !["suburbs"] = Sold] \in Tables /\ [t EXCEPT !["suburbs"] = Sold].suburbs = Sold
    BY <1>2, <1>4 DEF Tables
  <2>3. FALSE \in BOOLEAN /\ "suburbs" \notin {"months", "facts"}
    OBVIOUS
  <2>4. QED BY <1>6, <2>1, <2>2, <2>3, Zenon
<1>8. CASE Read("months", "suburbs", "months")
  <2>1. /\ reading' = [at |-> "months", tables |-> [t EXCEPT !["months"] = Sold], moved |-> m]
        /\ reading.at = "suburbs"
    BY <1>1, <1>2, <1>8, Zenon DEF Read
  <2>2. /\ [t EXCEPT !["months"] = Sold] \in Tables
        /\ [t EXCEPT !["months"] = Sold].months = Sold
        /\ [t EXCEPT !["months"] = Sold].suburbs = t.suburbs
    BY <1>2, <1>4 DEF Tables
  <2>3. QED BY <1>2, <1>5, <1>6, <2>1, <2>2, Zenon
<1>9. CASE Read("facts", "months", "facts")
  <2>1. /\ reading' = [at |-> "facts", tables |-> [t EXCEPT !["facts"] = Sold], moved |-> m]
        /\ reading.at = "months"
    BY <1>1, <1>2, <1>9, Zenon DEF Read
  <2>2. /\ [t EXCEPT !["facts"] = Sold] \in Tables
        /\ [t EXCEPT !["facts"] = Sold].facts = Sold
        /\ [t EXCEPT !["facts"] = Sold].suburbs = t.suburbs
        /\ [t EXCEPT !["facts"] = Sold].months = t.months
    BY <1>2, <1>4 DEF Tables
  <2>3. QED BY <1>2, <1>5, <1>6, <2>1, <2>2, Zenon
<1>10. QED BY <1>7, <1>8, <1>9, Zenon

LEMMA NoTablesTyped == NoTables \in Tables
BY DEF NoTables, Tables

(* The tables are swapped together, or the publication starts over.         *)
LEMMA PublishKeeps ==
    ASSUME IngestInv, Publish \/ PublisherFails
    PROVE  IngestInv'
<1>1. PICK t, m : t = reading.tables /\ m = reading.moved
  OBVIOUS
<1>2. t \in Tables /\ m \in BOOLEAN
  BY <1>1, Zenon DEF IngestInv, IngestTyped, IngestTypeOK
<1>3. UNCHANGED <<again, fileVars, coreVars, loader, mart>>
  BY Zenon DEF Publish, PublisherFails
<1>4. PICK to \in {"idle", "published"} :
          reading' = [at |-> to, tables |-> NoTables, moved |-> FALSE]
  BY Zenon DEF Publish, PublisherFails
<1>5. reading' \in [at : {"idle", "suburbs", "months", "facts", "published"},
                    tables : Tables, moved : BOOLEAN]
  BY <1>4, NoTablesTyped, Zenon
<1>6. reading'.at \notin {"suburbs", "months", "facts"}
  BY <1>4
<1>7. OneReading'
  BY <1>6 DEF OneReading
<1>8. CASE Publish
  <2>1. published' = [tables |-> t, moved |-> m] /\ reading.at = "facts"
    BY <1>1, <1>8, Zenon DEF Publish, Swapped
  <2>2. published'.tables = t /\ (published'.moved <=> m)
        /\ published' \in [tables : Tables, moved : BOOLEAN]
    BY <1>2, <2>1, Zenon
  <2>3. ~m => t.suburbs = Sold /\ t.months = Sold /\ t.facts = Sold
    BY <1>1, <2>1 DEF IngestInv, OutInv, OneReading
  <2>4. QuietPublicationAgrees'
    BY <2>2, <2>3, Zenon DEF QuietPublicationAgrees
  <2>5. QED BY <1>3, <1>5, <1>7, <2>2, <2>4, PublisherKeeps, Zenon
<1>9. CASE PublisherFails
  <2>1. published' = published
    BY <1>9, Zenon DEF PublisherFails
  <2>2. published' \in [tables : Tables, moved : BOOLEAN] /\ QuietPublicationAgrees'
    BY <2>1, Zenon DEF IngestInv, IngestTyped, IngestTypeOK, OutInv, QuietPublicationAgrees
  <2>3. QED BY <1>3, <1>5, <1>7, <2>2, PublisherKeeps, Zenon
<1>10. QED BY <1>8, <1>9, Zenon

-----------------------------------------------------------------------------
LEMMA IngestInitInv == IngestInit => IngestInv
<1>1. SUFFICES ASSUME IngestInit PROVE IngestInv
  OBVIOUS
<1>2. IngestTyped
  <2>1. /\ fileStatus \in [Files -> FileStatuses] /\ accepted \in [Files -> Nat]
        /\ curations \in [Files -> Nat] /\ observed \in [Keys -> Files \cup {Nobody}]
        /\ sales \subseteq Sale /\ again \subseteq Files
    BY <1>1 DEF IngestInit, FileStatuses
  <2>2. /\ listing \in [Listings -> [property : Properties \cup {Withheld, Nobody},
                                     selected : Keys \cup {Nobody}]]
        /\ \A l \in Listings : listing[l].property = Nobody <=> listing[l].selected = Nobody
    BY <1>1 DEF IngestInit
  <2>3. loader \in [Loaders -> LoaderType]
    BY <1>1 DEF IngestInit, IdleLoader, LoaderType, LoaderSteps
  <2>4. mart \in [suburbs : SUBSET Properties, months : SUBSET Properties]
    BY <1>1 DEF IngestInit
  <2>5. /\ reading \in [at : {"idle", "suburbs", "months", "facts", "published"},
                        tables : Tables, moved : BOOLEAN]
        /\ published \in [tables : Tables, moved : BOOLEAN]
    BY <1>1, NoTablesTyped, Zenon DEF IngestInit
  <2>6. QED
    BY <2>1, <2>2, <2>3, <2>4, <2>5, Zenon DEF IngestTyped, IngestTypeOK, LoaderType, FileStatuses
<1>3. \A w \in Loaders : loader[w].at = "idle" /\ loader[w].file = Nobody
  BY <1>1 DEF IngestInit, IdleLoader
<1>4. RowsComeIn
  <2>1. \A f \in Files : fileStatus[f] \notin {"loaded", "curated"}
    BY <1>1 DEF IngestInit
  <2>2. \A w \in Loaders : loader[w].at \notin {"curate", "refresh", "months"} /\ loader[w].at # "insert"
    BY <1>3
  <2>3. QED BY <1>3, <2>1, <2>2, Zenon DEF RowsComeIn
<1>5. RepeatsAreKnown
  <2>1. SUFFICES ASSUME NEW f \in Files PROVE Alone(f)
    BY Zenon DEF RepeatsAreKnown
  <2>2. curations[f] = 0
    BY <1>1 DEF IngestInit
  <2>3. \A w \in Loaders : loader[w].file # f
    BY <1>3, RowFacts, Zenon
  <2>4. QED BY <2>2, <2>3 DEF Alone
<1>6. SalesInv
  <2>1. sales = {} /\ \A l \in Listings : listing[l].selected = Nobody
    BY <1>1 DEF IngestInit
  <2>2. \A r \in Rows : listing[r.listing].selected # r.key
    BY <2>1, RowFacts, Zenon
  <2>3. QED
    BY <2>1, <2>2, Zenon DEF SalesInv, SelectionStands, SaleIsOfSelectedRow, CuratedIsSold
<1>7. OutInv
  <2>1. mart.suburbs = {} /\ mart.months = {} /\ reading.at = "idle"
    BY <1>1 DEF IngestInit
  <2>2. published.tables = NoTables
    BY <1>1, Zenon DEF IngestInit
  <2>3. NoTables.months = NoTables.suburbs /\ NoTables.facts = NoTables.suburbs
    BY DEF NoTables
  <2>4. OneReading
    BY <2>1 DEF OneReading
  <2>5. QED
    BY <2>1, <2>2, <2>3, <2>4, Zenon DEF OutInv, MonthsHaveSuburbs, QuietPublicationAgrees
<1>8. QED BY <1>2, <1>4, <1>5, <1>6, <1>7, Zenon DEF IngestInv

LEMMA IngestStep == IngestInv /\ [IngestNext]_ingestVars => IngestInv'
<1>1. SUFFICES ASSUME IngestInv, [IngestNext]_ingestVars PROVE IngestInv'
  OBVIOUS
<1>2. CASE UNCHANGED ingestVars
  <2>1. UNCHANGED <<fileStatus, accepted, observed, listing, sales, curations, loader, again,
                    mart, reading, published>>
    BY <1>2, Zenon DEF ingestVars, fileVars, coreVars, outVars
  <2>2. QED BY <1>1, <2>1, IngestStutters, Zenon
<1>3. CASE IngestNext
  BY <1>1, <1>3, RegisterKeeps, BeginLoadKeeps, InsertBatchKeeps, CountRowsKeeps, LoadFailsKeeps,
     LoaderDiesKeeps, CurateKeeps, CurateFailsKeeps, RefreshKeeps, ReadKeeps, PublishKeeps, Zenon
  DEF IngestNext
<1>4. QED BY <1>1, <1>2, <1>3, Zenon

LEMMA IngestAlways == IngestSpec => []IngestInv
BY IngestInitInv, IngestStep, PTL DEF IngestSpec

(* A loaded file counts the rows it holds and no row is lost, for any files *)
(* and loaders and any failures; a file is curated twice only when two      *)
(* loaders had it or a finished step was run again.                         *)
THEOREM RowsStayKept == IngestSpec => []RowsAreKept
<1>1. IngestInv => RowsAreKept
  <2>1. SUFFICES ASSUME IngestInv PROVE RowsAreKept
    OBVIOUS
  <2>2. LoadedIsStored
    BY <2>1, Zenon DEF IngestInv, RowsComeIn, Counted, AllIn, LoadedIsStored
  <2>3. CuratedOnce
    BY <2>1 DEF IngestInv, RepeatsAreKnown, Alone, CuratedOnce
  <2>4. QED BY <2>1, <2>2, <2>3, Zenon DEF IngestInv, IngestTyped, RowsAreKept
<1>2. QED BY <1>1, IngestAlways, PTL

(* A sale is of its listing's selected row, a curated row with an address   *)
(* is sold, and the marts and the published tables agree, whatever files    *)
(* are loaded, curated and published at the same time.                      *)
THEOREM SalesStayFollowed == IngestSpec => []SalesFollowSelection
<1>1. IngestInv => SalesFollowSelection
  BY Zenon DEF IngestInv, SalesInv, OutInv, SalesFollowSelection
<1>2. QED BY <1>1, IngestAlways, PTL

-----------------------------------------------------------------------------
(* One page.  A filtered sequence numbers the positions that it keeps: Nth   *)
(* is an increasing function onto them.                                      *)
LEMMA BeforeGrows ==
    ASSUME NEW I \in SUBSET Nat, IsFiniteSet(I)
    PROVE  /\ \A x \in I : Cardinality(Before(I, x)) \in 0..(Cardinality(I) - 1)
           /\ \A x, y \in I : x < y => Cardinality(Before(I, x)) < Cardinality(Before(I, y))
  <1>1. Cardinality(I) \in Nat
    BY FS_CardinalityType
  <1>2. \A x \in I : Before(I, x) \in SUBSET I /\ x \notin Before(I, x)
    BY DEF Before
  <1>3. ASSUME NEW x \in I PROVE Cardinality(Before(I, x)) \in 0..(Cardinality(I) - 1)
    <2>1. Before(I, x) \subseteq I /\ Before(I, x) # I
      BY <1>2
    <2>2. /\ IsFiniteSet(Before(I, x)) /\ Cardinality(Before(I, x)) <= Cardinality(I)
          /\ Cardinality(Before(I, x)) # Cardinality(I)
      BY <2>1, FS_Subset
    <2>3. Cardinality(Before(I, x)) \in Nat
      BY <2>2, FS_CardinalityType
    <2> QED
      BY <1>1, <2>2, <2>3
  <1>4. ASSUME NEW x \in I, NEW y \in I, x < y
        PROVE  Cardinality(Before(I, x)) < Cardinality(Before(I, y))
    <2>1. \A z \in I : z < x => z < y
      BY <1>4
    <2>2. Before(I, x) \subseteq Before(I, y)
      BY <2>1 DEF Before
    <2>3. x \in Before(I, y) /\ x \notin Before(I, x)
      BY <1>2, <1>4 DEF Before
    <2>4. IsFiniteSet(Before(I, y))
      BY <1>2, FS_Subset
    <2>5. /\ IsFiniteSet(Before(I, x))
          /\ Cardinality(Before(I, x)) <= Cardinality(Before(I, y))
          /\ Cardinality(Before(I, x)) # Cardinality(Before(I, y))
      BY <2>2, <2>3, <2>4, FS_Subset
    <2> QED
      BY <2>4, <2>5, FS_CardinalityType
  <1> QED
    BY <1>3, <1>4

LEMMA NthNumbers ==
    ASSUME NEW I \in SUBSET Nat, IsFiniteSet(I)
    PROVE  /\ \A k \in 1..Cardinality(I) : Nth(I, k) \in I
           /\ \A k, l \in 1..Cardinality(I) : k < l => Nth(I, k) < Nth(I, l)
           /\ \A i \in I : \E k \in 1..Cardinality(I) : Nth(I, k) = i
  <1> DEFINE n == Cardinality(I)
             rank == [x \in I |-> Cardinality(Before(I, x))]
  <1>1. n \in Nat
    BY FS_CardinalityType
  <1>2. /\ \A x \in I : rank[x] \in 0..(n - 1)
        /\ \A x, y \in I : x < y => rank[x] < rank[y]
    BY BeforeGrows
  <1>3. \A x, y \in I : rank[x] = rank[y] => x = y
    <2> SUFFICES ASSUME NEW x \in I, NEW y \in I, rank[x] = rank[y] PROVE x = y
      OBVIOUS
    <2> HIDE DEF rank
    <2>1. rank[x] \in Int /\ rank[y] \in Int /\ x \in Nat /\ y \in Nat
      BY <1>2
    <2>2. ~(x < y) /\ ~(y < x)
      BY <1>2, <2>1
    <2> QED
      BY <2>1, <2>2
  <1>4. IsFiniteSet(0..(n - 1)) /\ Cardinality(0..(n - 1)) = n
    <2>1. 0 \in Int /\ n - 1 \in Int /\ n >= 0
      BY <1>1
    <2> HIDE DEF n
    <2>2. IsFiniteSet(0..(n - 1))
          /\ Cardinality(0..(n - 1)) = (IF 0 > n - 1 THEN 0 ELSE (n - 1) - 0 + 1)
      BY <2>1, FS_Interval
    <2> QED
      BY <1>1, <2>1, <2>2
  <1>5. rank \in Injection(I, 0..(n - 1))
    BY <1>2, <1>3 DEF Injection, IsInjective
  <1>6. rank \in Surjection(I, 0..(n - 1))
    BY <1>4, <1>5, FS_Injection
  <1>7. \A k \in 1..n : Nth(I, k) \in I /\ rank[Nth(I, k)] = k - 1
    <2> SUFFICES ASSUME NEW k \in 1..n PROVE Nth(I, k) \in I /\ rank[Nth(I, k)] = k - 1
      OBVIOUS
    <2>1. k - 1 \in 0..(n - 1)
      BY <1>1
    <2>2. PICK x \in I : rank[x] = k - 1
      <3> HIDE DEF rank, n
      <3> QED
        BY <1>6, <2>1 DEF Surjection
    <2>3. \E i \in I : Cardinality(Before(I, i)) = k - 1
      BY <2>2
    <2>4. Nth(I, k) \in I /\ Cardinality(Before(I, Nth(I, k))) = k - 1
      BY <2>3, Zenon DEF Nth
    <2> QED
      BY <2>4
  <1>8. ASSUME NEW k \in 1..n, NEW l \in 1..n, k < l PROVE Nth(I, k) < Nth(I, l)
    <2> HIDE DEF rank, n
    <2>1. /\ Nth(I, k) \in I /\ rank[Nth(I, k)] = k - 1
          /\ Nth(I, l) \in I /\ rank[Nth(I, l)] = l - 1
      BY <1>7
    <2>2. k \in Int /\ l \in Int /\ Nth(I, k) \in Nat /\ Nth(I, l) \in Nat
      <3>1. k \in Int /\ l \in Int
        BY <1>1
      <3>2. \A i \in I : i \in Nat
        OBVIOUS
      <3> QED
        BY <2>1, <3>1, <3>2, Zenon
    <2>3. Nth(I, k) # Nth(I, l)
      BY <1>8, <2>1, <2>2
    <2>4. ~(Nth(I, l) < Nth(I, k))
      BY <1>2, <1>8, <2>1, <2>2
    <2> QED
      BY <2>2, <2>3, <2>4
  <1>9. ASSUME NEW i \in I PROVE \E k \in 1..n : Nth(I, k) = i
    <2> HIDE DEF rank, n
    <2>1. rank[i] \in 0..(n - 1)
      BY <1>2
    <2>2. rank[i] + 1 \in 1..n /\ rank[i] = (rank[i] + 1) - 1
      BY <1>1, <2>1
    <2>3. Nth(I, rank[i] + 1) \in I /\ rank[Nth(I, rank[i] + 1)] = rank[i]
      BY <1>7, <2>2
    <2> QED
      BY <1>3, <2>2, <2>3
  <1> QED
    BY <1>7, <1>8, <1>9

\* What a filter keeps of a sequence.
LEMMA FilterKeeps ==
    ASSUME NEW S, NEW s \in Seq(S), NEW I \in SUBSET DOMAIN s
    PROVE  /\ ElementsAt(s, I) \in Seq(S)
           /\ DOMAIN ElementsAt(s, I) = 1..Cardinality(I)
           /\ \A k \in 1..Cardinality(I) : ElementsAt(s, I)[k] = s[Nth(I, k)]
           /\ I \in SUBSET Nat /\ IsFiniteSet(I)
           /\ ToSet(ElementsAt(s, I)) = {s[i] : i \in I}
  <1>1. Len(s) \in Nat /\ DOMAIN s = 1..Len(s) /\ \A i \in DOMAIN s : s[i] \in S
    OBVIOUS
  <1>2. IsFiniteSet(1..Len(s))
    BY <1>1, FS_Interval
  <1>3. I \in SUBSET Nat /\ IsFiniteSet(I)
    BY <1>1, <1>2, FS_Subset
  <1>4. Cardinality(I) \in Nat
    BY <1>3, FS_CardinalityType
  <1>5. /\ \A k \in 1..Cardinality(I) : Nth(I, k) \in I
        /\ \A i \in I : \E k \in 1..Cardinality(I) : Nth(I, k) = i
    BY <1>3, NthNumbers
  <1>6. /\ DOMAIN ElementsAt(s, I) = 1..Cardinality(I)
        /\ \A k \in 1..Cardinality(I) : ElementsAt(s, I)[k] = s[Nth(I, k)]
    BY DEF ElementsAt, Nth
  <1>7. \A k \in 1..Cardinality(I) : s[Nth(I, k)] \in S
    BY <1>1, <1>5
  <1>8. ElementsAt(s, I) \in Seq(S)
    <2>1. ElementsAt(s, I) = [k \in 1..Cardinality(I) |-> s[Nth(I, k)]]
      BY DEF ElementsAt, Nth
    <2> QED
      BY <1>4, <1>7, <2>1
  <1>9. ToSet(ElementsAt(s, I)) = {s[i] : i \in I}
    <2>1. ToSet(ElementsAt(s, I)) = {s[Nth(I, k)] : k \in 1..Cardinality(I)}
      BY <1>6 DEF ToSet
    <2> QED
      BY <1>5, <2>1
  <1> QED
    BY <1>3, <1>6, <1>8, <1>9

-----------------------------------------------------------------------------
(* The cards of a page and their records.                                    *)
Card == [usable : BOOLEAN, sold : Nat]
Entry == [card : Card, matchType : {"exact", "surrounding"}]
Record == [ordinal : Nat, matchType : {"exact", "surrounding"}, sold : Nat]
CardsOf(doc) ==
    IF doc.exact \o doc.surrounding = <<>> THEN doc.loose ELSE doc.exact \o doc.surrounding
NamesCards(records, doc) ==
    /\ {r.ordinal : r \in ToSet(records)} = {i \in DOMAIN CardsOf(doc) : CardsOf(doc)[i].usable}
    /\ \A i, k \in DOMAIN records : i < k => records[i].ordinal < records[k].ordinal
    /\ \A r \in ToSet(records) :
          /\ r.sold = CardsOf(doc)[r.ordinal].sold
          /\ r.matchType = "surrounding" <=>
                 doc.surrounding # <<>> /\ r.ordinal > Len(doc.exact)

LEMMA Joined ==
    ASSUME NEW S, NEW s \in Seq(S), NEW t \in Seq(S)
    PROVE  /\ s \o t \in Seq(S) /\ Len(s \o t) = Len(s) + Len(t)
           /\ (s \o t = <<>>) <=> (Len(s \o t) = 0)
           /\ (s \o t = <<>>) <=> (s = <<>> /\ t = <<>>)
  <1>1. s \o t \in Seq(S) /\ Len(s \o t) = Len(s) + Len(t)
    OBVIOUS
  <1>2. \A q \in Seq(S) : (q = <<>>) <=> (Len(q) = 0)
    OBVIOUS
  <1>3. (s = <<>> /\ t = <<>>) <=> (Len(s) + Len(t) = 0)
    <2>1. Len(s) \in Nat /\ Len(t) \in Nat
      OBVIOUS
    <2> QED
      BY <1>2, <2>1
  <1> QED
    BY <1>1, <1>2, <1>3

LEMMA BehindFirst ==
    ASSUME NEW a \in Nat, NEW b \in Nat, NEW i \in 1..(a + b), i > a PROVE i - a \in 1..b
  OBVIOUS

LEMMA DocumentShape ==
    ASSUME NEW doc \in Documents
    PROVE  doc.exact \in Seq(Card) /\ doc.surrounding \in Seq(Card) /\ doc.loose \in Seq(Card)
  BY ExtractionAssumption DEF Card

LEMMA TaggedCards ==
    ASSUME NEW cards \in Seq(Card), NEW match \in {"exact", "surrounding"}
    PROVE  /\ Tagged(cards, match) \in Seq(Entry) /\ Len(Tagged(cards, match)) = Len(cards)
           /\ \A i \in 1..Len(cards) :
                 Tagged(cards, match)[i].card = cards[i] /\ Tagged(cards, match)[i].matchType = match
  <1>1. Len(cards) \in Nat /\ DOMAIN cards = 1..Len(cards)
        /\ \A i \in 1..Len(cards) : cards[i] \in Card
    OBVIOUS
  <1>2. Tagged(cards, match) = [i \in 1..Len(cards) |-> [card |-> cards[i], matchType |-> match]]
    BY <1>1 DEF Tagged
  <1>3. \A i \in 1..Len(cards) : [card |-> cards[i], matchType |-> match] \in Entry
    BY <1>1 DEF Entry
  <1>4. Tagged(cards, match) \in Seq(Entry) /\ Len(Tagged(cards, match)) = Len(cards)
    BY <1>1, <1>2, <1>3
  <1> QED
    BY <1>2, <1>4

\* The entries are the cards, tagged with the tier that they are in.
LEMMA EntriesAreCards ==
    ASSUME NEW doc \in Documents
    PROVE  /\ CardEntries(doc) \in Seq(Entry) /\ CardsOf(doc) \in Seq(Card)
           /\ Len(CardEntries(doc)) = Len(CardsOf(doc))
           /\ \A i \in 1..Len(CardsOf(doc)) :
                 /\ CardEntries(doc)[i].card = CardsOf(doc)[i]
                 /\ CardEntries(doc)[i].matchType = "surrounding" <=>
                        doc.surrounding # <<>> /\ i > Len(doc.exact)
  <1> DEFINE e == Tagged(doc.exact, "exact")
             u == Tagged(doc.surrounding, "surrounding")
  <1>1. /\ doc.exact \in Seq(Card) /\ doc.surrounding \in Seq(Card) /\ doc.loose \in Seq(Card)
    BY DocumentShape
  <1>2. /\ e \in Seq(Entry) /\ Len(e) = Len(doc.exact)
        /\ \A i \in 1..Len(doc.exact) : e[i].card = doc.exact[i] /\ e[i].matchType = "exact"
    BY <1>1, TaggedCards
  <1>3. /\ u \in Seq(Entry) /\ Len(u) = Len(doc.surrounding)
        /\ \A i \in 1..Len(doc.surrounding) :
              u[i].card = doc.surrounding[i] /\ u[i].matchType = "surrounding"
    BY <1>1, TaggedCards
  <1> HIDE DEF e, u
  <1>4. /\ Len(doc.exact) \in Nat /\ Len(doc.surrounding) \in Nat
        /\ Len(e \o u) = Len(doc.exact) + Len(doc.surrounding)
        /\ Len(doc.exact \o doc.surrounding) = Len(doc.exact) + Len(doc.surrounding)
        /\ e \o u \in Seq(Entry) /\ doc.exact \o doc.surrounding \in Seq(Card)
    <2>0. e \in Seq(Entry) /\ u \in Seq(Entry)
      BY <1>2, <1>3
    <2>1. Len(e \o u) = Len(e) + Len(u) /\ e \o u \in Seq(Entry)
      BY <2>0, Joined
    <2>2. /\ Len(doc.exact \o doc.surrounding) = Len(doc.exact) + Len(doc.surrounding)
          /\ doc.exact \o doc.surrounding \in Seq(Card)
      BY <1>1, Joined
    <2>3. Len(doc.exact) \in Nat /\ Len(doc.surrounding) \in Nat
      BY <1>1
    <2> QED
      BY <1>2, <1>3, <2>1, <2>2, <2>3
  <1>5. /\ (e \o u = <<>>) <=> (doc.exact \o doc.surrounding = <<>>)
        /\ (doc.exact \o doc.surrounding = <<>>) <=> (doc.exact = <<>> /\ doc.surrounding = <<>>)
    <2>1. (e \o u = <<>>) <=> (Len(e \o u) = 0)
      BY <1>2, <1>3, Joined
    <2>2. /\ (doc.exact \o doc.surrounding = <<>>) <=> (Len(doc.exact \o doc.surrounding) = 0)
          /\ (doc.exact \o doc.surrounding = <<>>) <=> (doc.exact = <<>> /\ doc.surrounding = <<>>)
      BY ZenonT(60), <1>1, Joined
    <2> QED
      BY <1>4, <2>1, <2>2
  <1>6. CASE e \o u = <<>>
    <2>1. CardEntries(doc) = Tagged(doc.loose, "exact") /\ CardsOf(doc) = doc.loose
      BY <1>5, <1>6 DEF CardEntries, CardsOf, e, u
    <2>2. doc.surrounding = <<>>
      BY <1>1, <1>4, <1>5, <1>6
    <2>3. /\ Tagged(doc.loose, "exact") \in Seq(Entry)
          /\ Len(Tagged(doc.loose, "exact")) = Len(doc.loose)
          /\ \A i \in 1..Len(doc.loose) :
                /\ Tagged(doc.loose, "exact")[i].card = doc.loose[i]
                /\ Tagged(doc.loose, "exact")[i].matchType = "exact"
      BY <1>1, TaggedCards
    <2>4. \A i \in 1..Len(doc.loose) : Tagged(doc.loose, "exact")[i].matchType # "surrounding"
      BY <2>3
    <2> QED
      BY <1>1, <2>1, <2>2, <2>3, <2>4, Zenon
  <1>7. CASE e \o u # <<>>
    <2>1. CardEntries(doc) = e \o u /\ CardsOf(doc) = doc.exact \o doc.surrounding
      BY <1>5, <1>7 DEF CardEntries, CardsOf, e, u
    <2>2. ASSUME NEW i \in 1..Len(doc.exact \o doc.surrounding)
          PROVE  /\ (e \o u)[i].card = (doc.exact \o doc.surrounding)[i]
                 /\ (e \o u)[i].matchType = "surrounding" <=>
                        doc.surrounding # <<>> /\ i > Len(doc.exact)
      <3>1. CASE i \in 1..Len(doc.exact)
        <4>1. (e \o u)[i] = e[i] /\ (doc.exact \o doc.surrounding)[i] = doc.exact[i]
          BY <1>1, <1>2, <1>3, <3>1
        <4>2. ~(i > Len(doc.exact)) /\ e[i].matchType # "surrounding" /\ e[i].card = doc.exact[i]
          BY <1>2, <1>4, <3>1
        <4> QED
          BY <4>1, <4>2
      <3>2. CASE i \notin 1..Len(doc.exact)
        <4> DEFINE k == i - Len(doc.exact)
        <4>1. i > Len(doc.exact) /\ k \in 1..Len(doc.surrounding)
          <5>1. i \in 1..(Len(doc.exact) + Len(doc.surrounding))
            BY <1>4
          <5>2. i \in Int /\ Len(doc.exact) \in Int /\ Len(doc.surrounding) \in Int
            BY <1>4, <5>1
          <5>3. i > Len(doc.exact)
            BY <1>4, <3>2, <5>1, <5>2
          <5>4. Len(doc.exact) \in Nat /\ Len(doc.surrounding) \in Nat
            BY <1>4
          <5>5. i - Len(doc.exact) \in 1..Len(doc.surrounding)
            BY <5>1, <5>3, <5>4, BehindFirst
          <5> QED
            BY <5>3, <5>5 DEF k
        <4>2. (e \o u)[i] = u[k] /\ (doc.exact \o doc.surrounding)[i] = doc.surrounding[k]
          BY <1>1, <1>2, <1>3, <1>4, <4>1
        <4>3. doc.surrounding # <<>>
          BY <1>1, <1>4, <4>1
        <4>4. u[k].card = doc.surrounding[k] /\ u[k].matchType = "surrounding"
          BY <1>3, <4>1
        <4> QED
          BY <4>1, <4>2, <4>3, <4>4
      <3> QED
        BY <3>1, <3>2
    <2> QED
      BY <1>4, <2>1, <2>2
  <1> QED
    BY <1>6, <1>7

\* The records of a page name its usable cards, in order.
LEMMA RecordsOfCards ==
    ASSUME NEW doc \in Documents
    PROVE  /\ ParseCards(CardEntries(doc)) \in Seq(Record)
           /\ NamesCards(ParseCards(CardEntries(doc)), doc)
  <1> DEFINE entries == CardEntries(doc)
             all == CardsOf(doc)
             I == {i \in DOMAIN entries : entries[i].card.usable}
             parsed == [i \in DOMAIN entries |->
                           [ordinal |-> i, matchType |-> entries[i].matchType,
                            sold |-> entries[i].card.sold]]
             records == ElementsAt(parsed, I)
  <1>1. /\ entries \in Seq(Entry) /\ all \in Seq(Card) /\ Len(entries) = Len(all)
        /\ \A i \in 1..Len(all) :
              /\ entries[i].card = all[i]
              /\ entries[i].matchType = "surrounding" <=>
                     doc.surrounding # <<>> /\ i > Len(doc.exact)
    BY EntriesAreCards
  <1>2. ParseCards(entries) = records
    BY DEF ParseCards, Ordinal
  <1> HIDE DEF entries, all
  <1>3. /\ Len(all) \in Nat /\ DOMAIN entries = 1..Len(all) /\ DOMAIN all = 1..Len(all)
        /\ \A i \in 1..Len(all) : entries[i] \in Entry
    BY <1>1
  <1>4. parsed \in Seq(Record) /\ DOMAIN parsed = 1..Len(all)
    <2>1. \A i \in 1..Len(all) : entries[i].matchType \in {"exact", "surrounding"}
                                 /\ entries[i].card.sold \in Nat
      BY <1>3 DEF Entry, Card
    <2>2. \A i \in 1..Len(all) :
             [ordinal |-> i, matchType |-> entries[i].matchType, sold |-> entries[i].card.sold]
                \in Record
      BY <2>1 DEF Record
    <2> QED
      BY <1>3, <2>2
  <1>5. I = {i \in DOMAIN all : all[i].usable}
    <2>1. \A i \in 1..Len(all) : entries[i].card.usable = all[i].usable
      BY <1>1, Zenon
    <2> QED
      BY <1>3, <2>1, Zenon
  <1>6. /\ \A i \in 1..Len(all) : parsed[i].ordinal = i /\ parsed[i].sold = all[i].sold
        /\ \A i \in 1..Len(all) : parsed[i].matchType = entries[i].matchType
    BY <1>1, <1>3
  <1>7. I \in SUBSET DOMAIN parsed
    BY <1>3, <1>4
  <1> HIDE DEF parsed, I
  <1>8. /\ records \in Seq(Record) /\ DOMAIN records = 1..Cardinality(I)
        /\ \A k \in 1..Cardinality(I) : records[k] = parsed[Nth(I, k)]
        /\ I \in SUBSET Nat /\ IsFiniteSet(I)
        /\ ToSet(records) = {parsed[i] : i \in I}
    BY <1>4, <1>7, FilterKeeps
  <1>9. /\ \A k \in 1..Cardinality(I) : Nth(I, k) \in I
        /\ \A k, l \in 1..Cardinality(I) : k < l => Nth(I, k) < Nth(I, l)
    BY <1>8, NthNumbers
  <1>10. I \subseteq 1..Len(all)
    BY <1>4, <1>7
  <1> HIDE DEF records
  <1>11. {r.ordinal : r \in ToSet(records)} = I
    <2>1. \A r \in ToSet(records) : r.ordinal \in I
      BY <1>6, <1>8, <1>10
    <2>2. \A i \in I : parsed[i] \in ToSet(records) /\ parsed[i].ordinal = i
      BY <1>6, <1>8, <1>10
    <2> QED
      BY <2>1, <2>2
  <1>12. \A i, k \in DOMAIN records : i < k => records[i].ordinal < records[k].ordinal
    <2>1. \A k \in 1..Cardinality(I) : records[k].ordinal = Nth(I, k)
      BY <1>6, <1>8, <1>9, <1>10
    <2> QED
      BY <1>8, <1>9, <2>1
  <1>13. ASSUME NEW r \in ToSet(records)
         PROVE  /\ r.sold = all[r.ordinal].sold
                /\ r.matchType = "surrounding" <=>
                       doc.surrounding # <<>> /\ r.ordinal > Len(doc.exact)
    <2>1. PICK i \in I : r = parsed[i]
      BY <1>8
    <2>2. i \in 1..Len(all) /\ r.ordinal = i /\ r.sold = all[i].sold
          /\ r.matchType = entries[i].matchType
      BY <1>6, <1>10, <2>1
    <2> QED
      BY <1>1, <2>2
  <1>14. NamesCards(records, doc)
    BY <1>5, <1>11, <1>12, <1>13 DEF NamesCards, all
  <1> QED
    BY <1>2, <1>8, <1>14 DEF entries

-----------------------------------------------------------------------------
(* What is parsed is the last answer; the extension has gone on after small  *)
(* pages and errors only, and goes on while attempts are left.               *)
Answers == Documents \cup {"limited", "error", "small", "challenge"}
ExtractionInv ==
    /\ reader \in {"extension", "headless"} /\ attempt \in 0..Retries
    /\ answers \in Seq(Answers) /\ Len(answers) = attempt
    /\ reply.outcome \in {"pending", "parsed", "limited", "failed"}
    /\ reply.records # <<>> => Parsed
    /\ reply.empty => reply.records = <<>>
    /\ Waiting => attempt < Retries
    /\ reader = "headless" /\ Waiting => attempt = 0
    /\ reader = "extension" =>
          /\ \A i \in 1..(attempt - 1) : answers[i] \in {"error", "small"}
          /\ Waiting => \A i \in 1..attempt : answers[i] \in {"error", "small"}
          /\ reply.outcome = "failed" => attempt = Retries
    /\ Parsed => /\ attempt > 0 /\ Served \in Documents
                 /\ reply.records = ParseCards(CardEntries(Served))

LEMMA ExtractionInitInv == ExtractionInit => ExtractionInv
  BY ExtractionAssumption DEF ExtractionInit, ExtractionInv, Bare, Waiting, Parsed, Answers

\* What is known once an attempt was answered.
LEMMA AnswerKept ==
    ASSUME ExtractionInv, NEW how \in Answers, Waiting, Answered(how)
    PROVE  /\ attempt' \in 1..Retries /\ attempt' = attempt + 1
           /\ answers' \in Seq(Answers) /\ Len(answers') = attempt' /\ Served' = how
           /\ \A i \in 1..attempt : answers'[i] = answers[i]
  <1>1. /\ attempt \in Nat /\ Retries \in Nat /\ attempt < Retries
        /\ answers \in Seq(Answers) /\ Len(answers) = attempt
    BY ExtractionAssumption DEF ExtractionInv
  <1>2. attempt' = attempt + 1 /\ answers' = Append(answers, how)
    BY DEF Answered
  <1>3. /\ answers' \in Seq(Answers) /\ Len(answers') = attempt + 1
        /\ answers'[attempt + 1] = how /\ \A i \in 1..attempt : answers'[i] = answers[i]
    BY <1>1, <1>2
  <1> QED
    BY <1>1, <1>2, <1>3 DEF Served

LEMMA AttemptKinds ==
    ExtractionInv => /\ attempt \in Nat /\ Retries \in Nat /\ attempt <= Retries
                     /\ reader \in {"extension", "headless"}
  BY ExtractionAssumption DEF ExtractionInv

LEMMA RateLimitedKeeps == ExtractionInv /\ RateLimited => ExtractionInv'
<1>1. SUFFICES ASSUME ExtractionInv, RateLimited PROVE ExtractionInv'
  OBVIOUS
<1>2. /\ attempt' \in 1..Retries /\ attempt' = attempt + 1
      /\ answers' \in Seq(Answers) /\ Len(answers') = attempt'
      /\ \A i \in 1..attempt : answers'[i] = answers[i]
  <2>1. "limited" \in Answers /\ Waiting /\ Answered("limited")
    BY <1>1 DEF Answers, RateLimited
  <2> QED
    BY <1>1, <2>1, AnswerKept
<1>3. Waiting /\ UNCHANGED reader /\ reply' = Bare("limited")
  BY <1>1 DEF RateLimited
<1>4. reply'.outcome = "limited" /\ reply'.records = <<>> /\ reply'.empty = FALSE
  BY <1>3 DEF Bare
<1>5. reader = "extension" => \A i \in 1..(attempt' - 1) : answers'[i] \in {"error", "small"}
  BY <1>1, <1>2, <1>3, AttemptKinds DEF ExtractionInv
<1>6. attempt' \in 0..Retries /\ reader' \in {"extension", "headless"}
  BY <1>1, <1>2, <1>3, AttemptKinds
<1> QED
  BY <1>2, <1>3, <1>4, <1>5, <1>6 DEF ExtractionInv, Waiting, Parsed

LEMMA AttemptFailsKeeps ==
    ASSUME ExtractionInv, NEW how \in {"error", "small", "challenge"}, AttemptFails(how)
    PROVE  ExtractionInv'
<1>2. /\ attempt' \in 1..Retries /\ attempt' = attempt + 1
      /\ answers' \in Seq(Answers) /\ Len(answers') = attempt' /\ Served' = how
      /\ \A i \in 1..attempt : answers'[i] = answers[i]
  <2>1. how \in Answers /\ Waiting /\ Answered(how)
    BY DEF Answers, AttemptFails
  <2> QED
    BY <2>1, AnswerKept
<1>3. /\ Waiting /\ UNCHANGED reader /\ (how = "challenge" => reader = "headless")
      /\ reply' = IF reader = "headless" \/ GivesUp THEN Bare("failed") ELSE reply
  BY DEF AttemptFails
<1>4. /\ attempt \in Nat /\ Retries \in Nat /\ attempt' \in 0..Retries
      /\ reader \in {"extension", "headless"}
  BY <1>2, AttemptKinds
<1>5. reader = "extension" => \A i \in 1..attempt' : answers'[i] \in {"error", "small"}
  <2>1. SUFFICES ASSUME reader = "extension", NEW i \in 1..attempt'
                 PROVE  answers'[i] \in {"error", "small"}
    OBVIOUS
  <2>2. CASE i = attempt'
    <3>1. answers'[i] = how
      BY <1>2, <2>2 DEF Served
    <3> QED
      BY <1>3, <2>1, <3>1
  <2>3. CASE i # attempt'
    <3>1. i \in 1..attempt
      BY <1>2, <1>4, <2>3
    <3> QED
      BY <1>2, <1>3, <2>1, <3>1 DEF ExtractionInv
  <2> QED
    BY <2>2, <2>3
<1>6. \A i \in 1..(attempt' - 1) : i \in 1..attempt'
  BY <1>2, <1>4
<1>7. CASE reader = "headless" \/ GivesUp
  <2>1. reply'.outcome = "failed" /\ reply'.records = <<>> /\ reply'.empty = FALSE
    BY <1>3, <1>7 DEF Bare
  <2>2. reader = "extension" => attempt' = Retries
    BY <1>2, <1>4, <1>7 DEF GivesUp
  <2> QED
    BY <1>2, <1>3, <1>4, <1>5, <1>6, <2>1, <2>2 DEF ExtractionInv, Waiting, Parsed
<1>8. CASE reader # "headless" /\ ~GivesUp
  <2>1. reply' = reply /\ attempt' < Retries /\ reader = "extension"
    BY <1>2, <1>3, <1>4, <1>8 DEF GivesUp
  <2>2. reply.outcome = "pending"
    BY <1>3 DEF Waiting
  <2>3. reply.records = <<>>
    BY <2>2 DEF ExtractionInv, Parsed
  <2> QED
    BY <1>2, <1>3, <1>4, <1>5, <1>6, <2>1, <2>2, <2>3 DEF ExtractionInv, Waiting, Parsed
<1> QED
  BY <1>7, <1>8

LEMMA PageServedKeeps ==
    ASSUME ExtractionInv, NEW doc \in Documents, PageServed(doc)
    PROVE  ExtractionInv'
<1>2. /\ attempt' \in 1..Retries /\ attempt' = attempt + 1
      /\ answers' \in Seq(Answers) /\ Len(answers') = attempt' /\ Served' = doc
      /\ \A i \in 1..attempt : answers'[i] = answers[i]
  <2>1. doc \in Answers /\ Waiting /\ Answered(doc)
    BY DEF Answers, PageServed
  <2> QED
    BY <2>1, AnswerKept
<1>3. /\ Waiting /\ UNCHANGED reader
      /\ reply' = IF reader = "headless" /\ doc.exact \o doc.surrounding \o doc.loose = <<>>
                  THEN Bare("failed") ELSE ParseDocument(doc)
  BY DEF PageServed
<1>4. /\ attempt \in Nat /\ Retries \in Nat /\ attempt' \in 0..Retries /\ attempt' > 0
      /\ reader \in {"extension", "headless"}
  BY <1>2, AttemptKinds
<1>5. reader = "extension" => \A i \in 1..(attempt' - 1) : answers'[i] \in {"error", "small"}
  BY <1>2, <1>3, <1>4 DEF ExtractionInv
<1>6. CASE reader = "headless" /\ doc.exact \o doc.surrounding \o doc.loose = <<>>
  <2>1. reply'.outcome = "failed" /\ reply'.records = <<>> /\ reply'.empty = FALSE
    BY <1>3, <1>6 DEF Bare
  <2> QED
    BY <1>2, <1>3, <1>4, <1>6, <2>1 DEF ExtractionInv, Waiting, Parsed
<1>7. CASE ~(reader = "headless" /\ doc.exact \o doc.surrounding \o doc.loose = <<>>)
  <2>1. reply' = ParseDocument(doc)
    BY <1>3, <1>7
  <2>2. /\ reply'.outcome = "parsed" /\ reply'.records = ParseCards(CardEntries(doc))
        /\ reply'.empty = (reply'.records = <<>>)
    BY <2>1, Zenon DEF ParseDocument
  <2>3. reply'.empty => reply'.records = <<>>
    BY <2>2, Zenon
  <2> QED
    BY <1>2, <1>3, <1>4, <1>5, <2>2, <2>3 DEF ExtractionInv, Waiting, Parsed
<1> QED
  BY <1>6, <1>7

LEMMA ExtractionStep == ExtractionInv /\ [ExtractionNext]_extractionVars => ExtractionInv'
<1>1. SUFFICES ASSUME ExtractionInv, [ExtractionNext]_extractionVars PROVE ExtractionInv'
  OBVIOUS
<1>2. CASE UNCHANGED extractionVars
  BY <1>1, <1>2 DEF extractionVars, ExtractionInv, Waiting, Parsed, Served
<1>3. CASE ExtractionNext
  BY <1>1, <1>3, RateLimitedKeeps, AttemptFailsKeeps, PageServedKeeps, Zenon DEF ExtractionNext
<1> QED
  BY <1>1, <1>2, <1>3

\* Two ranges that share no date keep no record in common.
LEMMA RangesCut ==
    ASSUME NEW records \in Seq(Record), NEW a \in Ranges, NEW b \in Ranges,
           a.to # 0, b.from # 0, a.to < b.from
    PROVE  ToSet(ElementsAt(records, {i \in DOMAIN records : InDateRange(records[i], a)}))
             \cap ToSet(ElementsAt(records, {i \in DOMAIN records : InDateRange(records[i], b)})) = {}
  <1> DEFINE inside(range) == {i \in DOMAIN records : InDateRange(records[i], range)}
  <1>1. \A range : inside(range) \in SUBSET DOMAIN records
    OBVIOUS
  <1>2. \A range : ToSet(ElementsAt(records, inside(range))) = {records[i] : i \in inside(range)}
    <2> HIDE DEF inside
    <2> QED
      BY <1>1, FilterKeeps
  <1>3. a \in [from : Nat, to : Nat] /\ b \in [from : Nat, to : Nat]
    BY ExtractionAssumption
  <1>4. ASSUME NEW r \in Record, InDateRange(r, a), InDateRange(r, b) PROVE FALSE
    <2>1. r.sold \in Nat
      BY DEF Record
    <2>2. r.sold <= a.to
      BY <1>4 DEF InDateRange
    <2>3. r.sold >= b.from
      BY <1>4 DEF InDateRange
    <2> QED
      BY <1>3, <2>1, <2>2, <2>3
  <1>5. \A i \in DOMAIN records : records[i] \in Record
    OBVIOUS
  <1>6. \A i \in inside(a), k \in inside(b) : records[i] # records[k]
    BY <1>4, <1>5
  <1> HIDE DEF inside
  <1>7. {records[i] : i \in inside(a)} \cap {records[i] : i \in inside(b)} = {}
    BY <1>6
  <1>8. ToSet(ElementsAt(records, inside(a))) \cap ToSet(ElementsAt(records, inside(b))) = {}
    BY <1>2, <1>7
  <1> QED
    BY <1>8 DEF inside

LEMMA ExtractionHolds == ExtractionInv => ExtractionIsExact
<1>1. SUFFICES ASSUME ExtractionInv PROVE ExtractionIsExact
  OBVIOUS
<1>2. ExtractionTypeOK
  BY <1>1 DEF ExtractionInv, ExtractionTypeOK, Parsed
<1>3. ASSUME Parsed
      PROVE  /\ reply.records \in Seq(Record) /\ NamesCards(reply.records, Served)
             /\ Served \in Documents
  BY <1>1, <1>3, RecordsOfCards DEF ExtractionInv
<1>4. RecordsNameTheirCards
  BY <1>3, Zenon DEF RecordsNameTheirCards, NamesCards, CardsOf
<1>5. FailureIsFinal
  BY <1>1 DEF ExtractionInv, FailureIsFinal
<1>6. SlicesCutCleanly
  <2>1. SUFFICES ASSUME Parsed, NEW a \in Ranges, NEW b \in Ranges,
                        a.to # 0, b.from # 0, a.to < b.from
                 PROVE  ToSet(Kept(a)) \cap ToSet(Kept(b)) = {}
    BY Zenon DEF SlicesCutCleanly
  <2> QED
    BY <1>3, <2>1, RangesCut, Zenon DEF Kept
<1> QED
  BY <1>2, <1>4, <1>5, <1>6 DEF ExtractionIsExact

(* The records of a page are its usable cards in their order, two slices cut *)
(* at a date share none of them, and the content script gives a page up only *)
(* after all its attempts, for any pages the site may serve.                 *)
THEOREM PagesAreExact == ExtractionSpec => []ExtractionIsExact
<1>1. ExtractionSpec => []ExtractionInv
  BY ExtractionInitInv, ExtractionStep, PTL DEF ExtractionSpec
<1>2. QED
  BY <1>1, ExtractionHolds, PTL

-----------------------------------------------------------------------------
(* The collector.                                                           *)
AtWork == {"mark", "fetch", "append", "savePage", "complete", "pause"}

(* What the process holds of the slice it works on.                         *)
Position ==
    /\ pc = "mark" =>
          \/ at = 0 /\ (~Readable(cur) \/ cur \in torn)
          \/ Readable(cur) /\ mark[cur] = at
    /\ pc \in AtWork \ {"mark"} => Readable(cur) /\ mark[cur] = at
    /\ pc = "append" => at + 1 \in site[cur].inRange
    /\ pc = "savePage" /\ at + 1 \in site[cur].inRange => recs[cur][at + 1] > 0

Remembers ==
    /\ pc \in AtWork \ {"append"} => seen \subseteq Stored(cur)
    /\ pc = "append" => at + 1 \in seen /\ seen \subseteq Stored(cur) \cup {at + 1}
    /\ pc \in AtWork /\ cur \notin damaged => Stored(cur) \subseteq seen
    /\ pc = "append" /\ cur \notin damaged => recs[cur][at + 1] = 0

(* What a state file that cannot be read says of the records.               *)
Unreadable ==
    \A s \in Slices :
        /\ status[s] = "absent" => Stored(s) = {}
        /\ status[s] = "corrupt" => s \in damaged

(* The slices before the current one are complete.                          *)
Progress ==
    pc # "idle" => exit = "none" /\ \A s \in 1..(cur - 1) : status[s] = "complete"

IInv ==
    /\ TypeOK
    /\ Position
    /\ Remembers
    /\ Unreadable
    /\ Progress
    /\ CheckpointBacked
    /\ OneCopyUnlessDamaged
    /\ CleanExitIsComplete

LEMMA ConstantTypes ==
    /\ NumSlices \in Nat \ {0} /\ MaxPages \in Nat \ {0} /\ DupLimit \in Nat \ {0}
    /\ MaxKills \in Nat /\ MaxRestarts \in Nat
BY CollectorAssumption

LEMMA WantedPages == \A f \in Shapes : f.inRange \subseteq Pages
BY CollectorAssumption DEF SiteShapes

LEMMA Positions ==
    /\ 1 \in Slices
    /\ \A s \in Slices : s \in Nat /\ (s # NumSlices => s + 1 \in Slices)
    /\ \A n \in 0..MaxPages : n < MaxPages => n + 1 \in Pages
    /\ Pages \subseteq Nat
BY ConstantTypes DEF Slices, Pages

USE ConstantTypes, Positions

LEMMA InitInv == Init => IInv
<1> SUFFICES ASSUME Init PROVE IInv
  OBVIOUS
<1> USE DEF Init
<1>1. DiskType
  BY DEF DiskType, Statuses
<1>2. ProcessType /\ HistoryType
  BY DEF ProcessType, HistoryType
<1>f. FlagType
  BY Zenon DEF FlagType
<1>3. Position /\ Remembers /\ Progress
  BY DEF Position, Remembers, Progress, AtWork
<1>4. Unreadable
  BY DEF Unreadable, Stored
<1>5. CheckpointBacked /\ OneCopyUnlessDamaged /\ CleanExitIsComplete
  BY DEF CheckpointBacked, OneCopyUnlessDamaged, CleanExitIsComplete, Readable
<1> QED
  BY <1>1, <1>2, <1>3, <1>4, <1>5, <1>f DEF IInv, TypeOK

-----------------------------------------------------------------------------
(* Types.  An action writes the disk through SaveState or not at all, and   *)
(* the process goes to a step of its own or ends.                           *)
LEMMA SavedTyped ==
    ASSUME DiskType, ProcessType, FlagType, NEW st \in Statuses, NEW n \in 0..MaxPages,
           NEW k \in BOOLEAN, SaveState(st, n, k), UNCHANGED site
    PROVE  DiskType'
BY DEF DiskType, ProcessType, FlagType, SaveState

LEMMA ExitTyped ==
    ASSUME NEW how \in {"ok", "error", "killed"}, Exits(how)
    PROVE  ProcessType' /\ FlagType'
<1>1. ProcessType'
  BY DEF ProcessType, Exits, StartsAtZero
<1>2. FlagType'
  BY Zenon DEF FlagType, Exits, StartsAtZero
<1> QED
  BY <1>1, <1>2

LEMMA NextTyped ==
    ASSUME ProcessType, FlagType, NextSlice
    PROVE  ProcessType' /\ FlagType'
<1>1. CASE cur = NumSlices
  BY <1>1, ExitTyped DEF NextSlice
<1>2. CASE cur # NumSlices
  <2>1. ProcessType'
    BY <1>2 DEF NextSlice, StartsAtZero, ProcessType, Steps
  <2>2. FlagType'
    BY <1>2, Zenon DEF NextSlice, StartsAtZero, FlagType
  <2> QED
    BY <2>1, <2>2
<1> QED
  BY <1>1, <1>2

LEMMA TypeKept == TypeOK /\ [Next]_vars => TypeOK'
<1> SUFFICES ASSUME TypeOK, [Next]_vars PROVE DiskType' /\ ProcessType' /\ FlagType' /\ HistoryType'
  BY DEF TypeOK
<1> DiskType /\ ProcessType /\ FlagType /\ HistoryType
  BY DEF TypeOK
<1> DEFINE Goal == DiskType' /\ ProcessType' /\ FlagType' /\ HistoryType'
<1>u. UNCHANGED <<site, disk>> => DiskType'
  BY DEF DiskType, disk
<1>h. UNCHANGED <<history, kills, restarts>> => HistoryType'
  BY DEF HistoryType, history
<1>s. /\ {"running", "paused", "complete", "corrupt"} \subseteq Statuses
      /\ at \in 0..MaxPages /\ 0 \in 0..MaxPages /\ known \in BOOLEAN
  BY DEF Statuses, ProcessType, FlagType
<1>1. ASSUME NEW anew \in BOOLEAN, Launch(anew) PROVE Goal
  <2>1. DiskType' /\ HistoryType'
    BY <1>1, <1>u DEF Launch, HistoryType, history
  <2>2. ProcessType'
    BY <1>1 DEF Launch, ProcessType, memory, Steps
  <2>2f. FlagType'
    BY <1>1, Zenon DEF Launch, FlagType, memory
  <2> QED
    BY <2>1, <2>2, <2>2f
<1>2. ASSUME LoadSkips PROVE Goal
  BY <1>2, <1>u, <1>h, NextTyped DEF LoadSkips
<1>3. ASSUME LoadResumes PROVE Goal
  <2>1. DiskType' /\ HistoryType'
    BY <1>3, <1>u, <1>h DEF LoadResumes
  <2>2. ProcessType'
    BY <1>3 DEF LoadResumes, SeenAtResume, Stored, ProcessType, DiskType, Steps, SaveSteps
  <2>3. FlagType'
    BY <1>3 DEF LoadResumes, FlagType, ProcessType, DiskType
  <2> QED
    BY <2>1, <2>2, <2>3
<1>4. ASSUME LoadTruncates PROVE Goal
  <2>1. DiskType'
    BY <1>4 DEF LoadTruncates, DiskType
  <2>2. ProcessType'
    BY <1>4 DEF LoadTruncates, StartsAtZero, ProcessType, Steps, SaveSteps
  <2>2f. FlagType'
    BY <1>4, Zenon DEF LoadTruncates, StartsAtZero, FlagType
  <2>3. HistoryType'
    BY <1>4 DEF LoadTruncates, HistoryType, ProcessType
  <2> QED
    BY <2>1, <2>2, <2>3, <2>2f
<1>5. ASSUME LoadFresh PROVE Goal
  <2>1. DiskType' /\ HistoryType'
    BY <1>5, <1>u, <1>h DEF LoadFresh
  <2>2. ProcessType'
    BY <1>5 DEF LoadFresh, StartsAtZero, ProcessType, Steps, SaveSteps
  <2>2f. FlagType'
    BY <1>5, Zenon DEF LoadFresh, StartsAtZero, FlagType
  <2> QED
    BY <2>1, <2>2, <2>2f
<1>6. ASSUME MarkRunning PROVE Goal
  <2>1. DiskType'
    BY <1>6, <1>s, SavedTyped DEF MarkRunning
  <2>2. ProcessType'
    BY <1>6 DEF MarkRunning, MorePages, memory, ProcessType, Steps, SaveSteps
  <2>2f. FlagType'
    BY <1>6, Zenon DEF MarkRunning, memory, FlagType
  <2>3. HistoryType'
    BY <1>6 DEF MarkRunning, HistoryType, ProcessType
  <2> QED
    BY <2>1, <2>2, <2>3, <2>2f
<1>7. ASSUME FetchPage PROVE Goal
  <2>1. DiskType' /\ HistoryType'
    BY <1>7, <1>u, <1>h DEF FetchPage
  <2>0. at + 1 \in Pages
    BY <1>7 DEF FetchPage, ProcessType
  <2>a. seen' \subseteq Pages
    BY <1>7, <2>0 DEF FetchPage, ProcessType
  <2>b. pc' \in {"append", "savePage"} /\ dups' \in Nat
    BY <1>7 DEF FetchPage, ProcessType
  <2>2. ProcessType'
    BY <1>7, <2>a, <2>b DEF FetchPage, ProcessType, Steps, SaveSteps
  <2>3. FlagType'
    BY <1>7 DEF FetchPage, FlagType
  <2> QED
    BY <2>1, <2>2, <2>3
<1>8. ASSUME FetchFails PROVE Goal
  <2>1. DiskType' /\ HistoryType'
    BY <1>8, <1>u, <1>h DEF FetchFails
  <2>2. ProcessType'
    BY <1>8 DEF FetchFails, AfterFailure, memory, ProcessType, Steps, SaveSteps
  <2>2f. FlagType'
    BY <1>8, Zenon DEF FetchFails, memory, FlagType
  <2> QED
    BY <2>1, <2>2, <2>2f
<1>9. ASSUME AppendRecords PROVE Goal
  <2>0. at + 1 \in Pages /\ cur \in Slices
    BY <1>9 DEF AppendRecords, ProcessType
  <2>a. recs' \in [Slices -> [Pages -> Nat]]
    <3>1. recs \in [Slices -> [Pages -> Nat]]
      BY DEF DiskType
    <3>a. recs[cur] \in [Pages -> Nat]
      BY <2>0, <3>1
    <3>b. recs[cur][at + 1] \in Nat
      BY <2>0, <3>a
    <3>2. recs[cur][at + 1] + 1 \in Nat
      BY <3>b
    <3>3. recs' = [recs EXCEPT ![cur] = [recs[cur] EXCEPT ![at + 1] = recs[cur][at + 1] + 1]]
      BY <1>9 DEF AppendRecords
    <3>4. [recs[cur] EXCEPT ![at + 1] = recs[cur][at + 1] + 1] \in [Pages -> Nat]
      BY <3>a, <3>2
    <3> QED
      BY <2>0, <3>1, <3>3, <3>4
  <2>1. DiskType' /\ HistoryType'
    BY <1>9, <1>h, <2>a DEF AppendRecords, DiskType
  <2>2. ProcessType'
    BY <1>9 DEF AppendRecords, memory, ProcessType, Steps, SaveSteps
  <2>2f. FlagType'
    BY <1>9, Zenon DEF AppendRecords, memory, FlagType
  <2> QED
    BY <2>1, <2>2, <2>2f
<1>10. ASSUME SavePage PROVE Goal
  <2>0. at + 1 \in 0..MaxPages
    BY <1>10 DEF SavePage, ProcessType
  <2>1. DiskType' /\ HistoryType'
    BY <1>10, <1>h, <1>s, <2>0, SavedTyped DEF SavePage
  <2>2. at + 1 < MaxPages \/ LastPage(at + 1)
    BY <2>0 DEF LastPage
  <2>3. ProcessType'
    BY <1>10, <2>0, <2>2 DEF SavePage, ProcessType, Steps, SaveSteps
  <2>3f. FlagType'
    BY <1>10, <2>0, <2>2, Zenon DEF SavePage, FlagType
  <2> QED
    BY <2>1, <2>3, <2>3f
<1>11. ASSUME CompleteSlice PROVE Goal
  BY <1>11, <1>h, <1>s, SavedTyped, NextTyped DEF CompleteSlice
<1>12. ASSUME PauseSlice PROVE Goal
  BY <1>12, <1>h, <1>s, SavedTyped, ExitTyped DEF PauseSlice, ErrorExit
<1>13. ASSUME Kill PROVE Goal
  <2>1. DiskType' /\ ProcessType' /\ FlagType'
    BY <1>13, <1>u, ExitTyped DEF Kill, Dies
  <2>2. HistoryType'
    BY <1>13 DEF Kill, Dies, HistoryType, ProcessType
  <2> QED
    BY <2>1, <2>2
<1>14. ASSUME KillDuringSave PROVE Goal
  <2>1. DiskType'
    BY <1>14, <1>s, SavedTyped DEF KillDuringSave
  <2>2. ProcessType' /\ FlagType'
    BY <1>14, ExitTyped DEF KillDuringSave, Dies
  <2>3. HistoryType'
    BY <1>14 DEF KillDuringSave, Dies, HistoryType, ProcessType
  <2> QED
    BY <2>1, <2>2, <2>3
<1>15. CASE UNCHANGED vars
  BY <1>15 DEF vars, disk, memory, history, DiskType, ProcessType, FlagType, HistoryType
<1> QED
  BY <1>1, <1>2, <1>3, <1>4, <1>5, <1>6, <1>7, <1>8, <1>9, <1>10, <1>11, <1>12,
     <1>13, <1>14, <1>15 DEF Next, Collect

-----------------------------------------------------------------------------
(* What holds of the disk survives every step that leaves it alone.         *)
DiskInv == Unreadable /\ CheckpointBacked /\ OneCopyUnlessDamaged

LEMMA DiskKept ==
    ASSUME DiskInv, UNCHANGED <<site, disk, damaged, torn>>
    PROVE  DiskInv'
BY DEF DiskInv, Unreadable, CheckpointBacked, OneCopyUnlessDamaged, Readable, Stored, disk

(* A process that has ended, or is about to load, holds nothing.            *)
LEMMA NothingHeld == pc' \in {"idle", "load"} => Position' /\ Remembers'
BY DEF Position, Remembers, AtWork

(* After a slice that is complete on disk: the next one, or a clean exit.   *)
LEMMA NextKept ==
    ASSUME TypeOK, Progress, NextSlice, pc # "idle", status'[cur] = "complete",
           \A s \in Slices \ {cur} : status'[s] = status[s]
    PROVE  Position' /\ Remembers' /\ Progress' /\ CleanExitIsComplete'
<1>0. cur \in Slices /\ exit = "none" /\ \A s \in 1..cur : status'[s] = "complete"
  BY DEF Progress, TypeOK, ProcessType, Slices
<1>1. CASE cur = NumSlices
  <2>1. pc' = "idle" /\ \A s \in Slices : status'[s] = "complete"
    BY <1>0, <1>1 DEF NextSlice, Exits, Slices
  <2> QED
    BY <2>1, NothingHeld DEF Progress, CleanExitIsComplete
<1>2. CASE cur # NumSlices
  <2>1. pc' = "load" /\ cur' = cur + 1 /\ exit' = "none"
    BY <1>0, <1>2 DEF NextSlice
  <2>2. (cur + 1) - 1 = cur
    BY <1>0
  <2> QED
    BY <1>0, <2>1, <2>2, NothingHeld DEF Progress, CleanExitIsComplete
<1> QED
  BY <1>1, <1>2

(* A process that goes on within its slice completes nothing.               *)
LEMMA WithinSlice ==
    ASSUME TypeOK, Progress, pc # "idle", UNCHANGED <<cur, exit>>,
           \A s \in Slices \ {cur} : status'[s] = status[s]
    PROVE  Progress' /\ CleanExitIsComplete'
<1>1. \A s \in 1..(cur - 1) : s \in Slices \ {cur}
  BY DEF TypeOK, ProcessType, Slices
<1> QED
  BY <1>1 DEF Progress, CleanExitIsComplete

LEMMA InvKept == IInv /\ [Next]_vars => IInv'
<1> SUFFICES ASSUME IInv, [Next]_vars
             PROVE  Position' /\ Remembers' /\ Progress' /\ DiskInv' /\ CleanExitIsComplete'
  BY TypeKept DEF IInv, DiskInv
<1> TypeOK /\ Position /\ Remembers /\ Progress /\ DiskInv /\ CleanExitIsComplete
  BY DEF IInv, DiskInv
<1> DEFINE Goal == Position' /\ Remembers' /\ Progress' /\ DiskInv' /\ CleanExitIsComplete'
<1>t. cur \in Slices /\ at \in 0..MaxPages /\ seen \subseteq Pages
  BY DEF TypeOK, ProcessType
<1>d. /\ status \in [Slices -> Statuses] /\ mark \in [Slices -> 0..MaxPages]
      /\ \A s \in Slices : recs[s] \in [Pages -> Nat]
  BY DEF TypeOK, DiskType
<1>w. \A s \in Slices : site[s].inRange \subseteq Pages
  BY WantedPages DEF TypeOK, DiskType
<1>e. UNCHANGED <<site, disk, history>> => DiskInv'
  BY DiskKept DEF history
<1>1. ASSUME NEW anew \in BOOLEAN, Launch(anew) PROVE Goal
  <2>1. Progress' /\ CleanExitIsComplete'
    BY <1>1 DEF Launch, Progress, CleanExitIsComplete
  <2> QED
    BY <1>1, <1>e, <2>1, NothingHeld DEF Launch
<1>2. ASSUME LoadSkips PROVE Goal
  BY <1>2, <1>e, NextKept DEF LoadSkips, Finished, disk
<1>3. ASSUME LoadResumes PROVE Goal
  <2>1. Position' /\ Remembers'
    BY <1>3, <1>t DEF LoadResumes, SeenAtResume, Position, Remembers, AtWork, Readable, Stored, disk
  <2>2. Progress' /\ CleanExitIsComplete'
    BY <1>3, WithinSlice DEF LoadResumes, disk
  <2> QED
    BY <1>3, <1>e, <2>1, <2>2 DEF LoadResumes
<1>4. ASSUME LoadTruncates PROVE Goal
  <2>1. Stored(cur)' = {} /\ \A s \in Slices \ {cur} : recs'[s] = recs[s]
    BY <1>4, <1>t DEF LoadTruncates, Stored, TypeOK, DiskType
  <2>2. Position' /\ Remembers'
    BY <1>4, <1>t, <2>1 DEF LoadTruncates, StartsAtZero, Position, Remembers, AtWork
  <2>3. Progress' /\ CleanExitIsComplete'
    BY <1>4, WithinSlice DEF LoadTruncates
  <2>4. Unreadable'
    BY <1>4, <2>1 DEF LoadTruncates, DiskInv, Unreadable, Stored, Readable
  <2>5. CheckpointBacked'
    BY <1>4, <2>1 DEF LoadTruncates, DiskInv, CheckpointBacked, Readable
  <2>6. OneCopyUnlessDamaged'
    BY <1>4, <1>t, <2>1 DEF LoadTruncates, DiskInv, OneCopyUnlessDamaged, TypeOK, DiskType
  <2> QED
    BY <2>2, <2>3, <2>4, <2>5, <2>6 DEF DiskInv
<1>5. ASSUME LoadFresh PROVE Goal
  <2>1. cur \notin damaged => Stored(cur) = {}
    BY <1>5, <1>t DEF LoadFresh, Readable, DiskInv, Unreadable
  <2>2. Position' /\ Remembers'
    BY <1>5, <1>t, <2>1 DEF LoadFresh, StartsAtZero, Position, Remembers, AtWork, Readable, Stored, disk, history
  <2>3. Progress' /\ CleanExitIsComplete'
    BY <1>5, WithinSlice DEF LoadFresh, disk
  <2> QED
    BY <1>5, <1>e, <2>2, <2>3 DEF LoadFresh
<1>6. ASSUME MarkRunning PROVE Goal
  <2>1. /\ status'[cur] = "running" /\ mark'[cur] = at
        /\ \A s \in Slices \ {cur} : status'[s] = status[s] /\ mark'[s] = mark[s]
    BY <1>6, <1>t, <1>d DEF MarkRunning, SaveState
  <2>2. Position' /\ Remembers'
    BY <1>6, <2>1 DEF MarkRunning, MorePages, SaveState, memory, Position, Remembers, AtWork, Readable, Stored
  <2>3. Progress' /\ CleanExitIsComplete'
    BY <1>6, <2>1, WithinSlice DEF MarkRunning
  <2>4. Unreadable' /\ OneCopyUnlessDamaged'
    BY <1>6, <2>1 DEF MarkRunning, SaveState, DiskInv, Unreadable, Stored, OneCopyUnlessDamaged
  <2>5. CheckpointBacked'
    <3> SUFFICES ASSUME NEW s \in Slices, s \notin torn', Readable(s)',
                        NEW p \in site[s].inRange, p <= mark'[s]
                 PROVE  recs[s][p] > 0
      BY <1>6 DEF MarkRunning, SaveState, CheckpointBacked
    <3>1. CASE s # cur
      BY <1>6, <2>1, <3>1 DEF MarkRunning, DiskInv, CheckpointBacked, Readable
    <3>2. CASE s = cur /\ at = 0
      <4>1. p \in Pages /\ p <= 0
        BY <1>w, <2>1, <3>2
      <4> QED
        BY <4>1 DEF Pages
    <3>3. CASE s = cur /\ at # 0
      BY <1>6, <2>1, <3>3 DEF MarkRunning, Position, DiskInv, CheckpointBacked, Readable
    <3> QED
      BY <3>1, <3>2, <3>3
  <2> QED
    BY <2>2, <2>3, <2>4, <2>5 DEF DiskInv
<1>7. ASSUME FetchPage PROVE Goal
  <2>0. at + 1 \in Pages
    BY <1>7, <1>t DEF FetchPage, TypeOK, ProcessType
  <2>1. Position' /\ Remembers'
    <3>1. CASE at + 1 \in site[cur].inRange \ seen
      <4>1. /\ pc = "fetch" /\ pc' = "append" /\ seen' = seen \cup {at + 1}
            /\ UNCHANGED <<site, disk, cur, at, history>>
        BY <1>7, <3>1 DEF FetchPage
      <4>2. Position'
        BY <3>1, <4>1 DEF Position, AtWork, Readable, disk
      <4>3. cur \notin damaged => recs[cur][at + 1] = 0
        BY <1>d, <1>t, <2>0, <3>1, <4>1 DEF Remembers, AtWork, Stored
      <4>4. Remembers'
        BY <4>1, <4>3 DEF Remembers, AtWork, Stored, disk, history
      <4> QED
        BY <4>2, <4>4
    <3>2. CASE at + 1 \notin site[cur].inRange \ seen
      <4>1. /\ pc = "fetch" /\ pc' = "savePage" /\ seen' = seen
            /\ UNCHANGED <<site, disk, cur, at, history>>
        BY <1>7, <3>2 DEF FetchPage
      <4>2. at + 1 \in site[cur].inRange => recs[cur][at + 1] > 0
        BY <3>2, <4>1 DEF Remembers, AtWork, Stored
      <4>3. Position'
        BY <4>1, <4>2 DEF Position, AtWork, Readable, disk
      <4>4. Remembers'
        BY <4>1 DEF Remembers, AtWork, Stored, disk, history
      <4> QED
        BY <4>3, <4>4
    <3> QED
      BY <3>1, <3>2
  <2>2. Progress' /\ CleanExitIsComplete'
    BY <1>7, WithinSlice DEF FetchPage, disk
  <2> QED
    BY <1>7, <1>e, <2>1, <2>2 DEF FetchPage
<1>8. ASSUME FetchFails PROVE Goal
  <2>1. Position' /\ Remembers'
    BY <1>8 DEF FetchFails, AfterFailure, memory, history, disk, Position, Remembers, AtWork, Readable, Stored
  <2>2. Progress' /\ CleanExitIsComplete'
    BY <1>8, WithinSlice DEF FetchFails, disk
  <2> QED
    BY <1>8, <1>e, <2>1, <2>2 DEF FetchFails
<1>9. ASSUME AppendRecords PROVE Goal
  <2>0. at + 1 \in Pages /\ recs[cur][at + 1] \in Nat
    BY <1>9, <1>t, <1>d DEF AppendRecords, TypeOK, ProcessType
  <2>1. /\ recs'[cur][at + 1] = recs[cur][at + 1] + 1
        /\ \A p \in Pages \ {at + 1} : recs'[cur][p] = recs[cur][p]
        /\ \A s \in Slices \ {cur} : recs'[s] = recs[s]
    BY <1>9, <1>t, <1>d, <2>0 DEF AppendRecords, TypeOK, DiskType
  <2>c. pc = "append" /\ pc' = "savePage" /\ UNCHANGED <<site, status, mark, cur, at, seen, history>>
    BY <1>9 DEF AppendRecords, memory
  <2>2. Stored(cur)' = Stored(cur) \cup {at + 1}
    <3>1. \A p \in Pages : recs'[cur][p] > 0 <=> recs[cur][p] > 0 \/ p = at + 1
      BY <2>0, <2>1
    <3> QED
      BY <2>0, <2>c, <3>1 DEF Stored
  <2>s. \A s \in Slices \ {cur} : Stored(s)' = Stored(s)
    BY <2>1 DEF Stored
  <2>p. Position'
    BY <2>0, <2>1, <2>c DEF Position, AtWork, Readable, history
  <2>r. Remembers'
    <3>1. seen' \subseteq Stored(cur)'
      BY <2>2, <2>c DEF Remembers
    <3>2. cur' \notin damaged' => Stored(cur)' \subseteq seen'
      BY <2>2, <2>c DEF Remembers, AtWork, history
    <3> QED
      BY <2>c, <3>1, <3>2 DEF Remembers, AtWork
  <2>3. Position' /\ Remembers'
    BY <2>p, <2>r
  <2>4. Progress' /\ CleanExitIsComplete'
    BY <1>9, WithinSlice DEF AppendRecords
  <2>5. Unreadable'
    BY <1>9, <2>s DEF AppendRecords, history, DiskInv, Unreadable, Position, AtWork, Readable
  <2>6. CheckpointBacked'
    BY <1>9, <1>w, <1>d, <2>0, <2>1 DEF AppendRecords, history, DiskInv, CheckpointBacked, Readable
  <2>7. OneCopyUnlessDamaged'
    BY <1>9, <1>d, <2>0, <2>1 DEF AppendRecords, history, DiskInv, OneCopyUnlessDamaged, Remembers
  <2> QED
    BY <2>3, <2>4, <2>5, <2>6, <2>7 DEF DiskInv
<1>10. ASSUME SavePage PROVE Goal
  <2>1. /\ status'[cur] = "running" /\ mark'[cur] = at + 1
        /\ \A s \in Slices \ {cur} : status'[s] = status[s] /\ mark'[s] = mark[s]
    BY <1>10, <1>t, <1>d DEF SavePage, SaveState
  <2>2. Position' /\ Remembers'
    BY <1>10, <2>1 DEF SavePage, SaveState, history, Position, Remembers, AtWork, Readable, Stored
  <2>3. Progress' /\ CleanExitIsComplete'
    BY <1>10, <2>1, WithinSlice DEF SavePage
  <2>4. Unreadable' /\ OneCopyUnlessDamaged'
    BY <1>10, <2>1 DEF SavePage, SaveState, history, DiskInv, Unreadable, Stored, OneCopyUnlessDamaged
  <2>5. CheckpointBacked'
    <3> SUFFICES ASSUME NEW s \in Slices \ torn, Readable(s)',
                        NEW p \in site[s].inRange, p <= mark'[s]
                 PROVE  recs[s][p] > 0
      BY <1>10 DEF SavePage, SaveState, history, CheckpointBacked
    <3>1. CASE s # cur
      BY <2>1, <3>1 DEF DiskInv, CheckpointBacked, Readable
    <3>2. CASE s = cur /\ p = at + 1
      BY <1>10, <3>2 DEF SavePage, Position
    <3>3. CASE s = cur /\ p # at + 1
      <4>0. p \in Nat /\ p <= at + 1 /\ at \in Nat
        BY <1>t, <1>w, <2>1, <3>3 DEF Pages
      <4>1. p <= at
        BY <3>3, <4>0
      <4> QED
        BY <1>10, <3>3, <4>1 DEF SavePage, Position, AtWork, DiskInv, CheckpointBacked
    <3> QED
      BY <3>1, <3>2, <3>3
  <2> QED
    BY <2>2, <2>3, <2>4, <2>5 DEF DiskInv
<1>11. ASSUME NEW st \in {"complete", "paused"}, SaveState(st, at, known),
             pc \in {"complete", "pause"}, UNCHANGED <<site, history>>
       PROVE DiskInv' /\ status'[cur] = st /\ \A s \in Slices \ {cur} : status'[s] = status[s]
  <2>1. /\ status'[cur] = st /\ mark'[cur] = mark[cur]
        /\ \A s \in Slices \ {cur} : status'[s] = status[s] /\ mark'[s] = mark[s]
    BY <1>11, <1>t, <1>d DEF SaveState, Position, AtWork
  <2>2. Readable(cur)
    BY <1>11 DEF Position, AtWork
  <2> QED
    BY <1>11, <2>1, <2>2 DEF SaveState, history, DiskInv, Unreadable, Stored, CheckpointBacked,
       OneCopyUnlessDamaged, Readable
<1>12. ASSUME CompleteSlice PROVE Goal
  BY <1>12, <1>11, NextKept DEF CompleteSlice
<1>13. ASSUME PauseSlice PROVE Goal
  <2>1. pc' = "idle" /\ exit' = "error"
    BY <1>13 DEF PauseSlice, Exits, ErrorExit
  <2> QED
    BY <1>13, <1>11, <2>1, NothingHeld DEF PauseSlice, Progress, CleanExitIsComplete
<1>14. ASSUME Kill PROVE Goal
  <2>1. pc' = "idle" /\ exit' = "killed"
    BY <1>14 DEF Kill, Dies, Exits
  <2> QED
    BY <1>14, <2>1, DiskKept, NothingHeld DEF Kill, Progress, CleanExitIsComplete
<1>15. ASSUME KillDuringSave PROVE Goal
  <2>1. pc' = "idle" /\ exit' = "killed"
    BY <1>15 DEF KillDuringSave, Dies, Exits
  <2>2. /\ status'[cur] = "corrupt"
        /\ \A s \in Slices \ {cur} : status'[s] = status[s] /\ mark'[s] = mark[s]
    BY <1>15, <1>t, <1>d DEF KillDuringSave, SaveState
  <2>3. DiskInv'
    BY <1>15, <2>2 DEF KillDuringSave, SaveState, DiskInv, Unreadable, Stored, CheckpointBacked,
       OneCopyUnlessDamaged, Readable
  <2> QED
    BY <2>1, <2>3, NothingHeld DEF Progress, CleanExitIsComplete
<1>16. CASE UNCHANGED vars
  <2>1. DiskInv'
    BY <1>16, <1>e DEF vars
  <2> QED
    BY <1>16, <2>1 DEF vars, disk, memory, history, Position, Remembers, Progress, AtWork, Readable,
       Stored, CleanExitIsComplete
<1> QED
  BY <1>1, <1>2, <1>3, <1>4, <1>5, <1>6, <1>7, <1>8, <1>9, <1>10, <1>12, <1>13,
     <1>14, <1>15, <1>16 DEF Next, Collect

THEOREM Invariance == Spec => []IInv
BY InitInv, InvKept, PTL DEF Spec

(* Every reachable state of a collection is well typed, for every plan,     *)
(* site, bound and history of crashes.                                      *)
THEOREM TypeCorrect == Spec => []TypeOK
BY Invariance, PTL DEF IInv

(* No checkpoint is ahead of its records, wherever the process is killed,   *)
(* except where --restart cleared the records of a mark it never replaced.  *)
THEOREM CheckpointsBacked == Spec => []CheckpointBacked
BY Invariance, PTL DEF IInv

(* No record is stored twice unless a torn state file started the slice     *)
(* over.                                                                    *)
THEOREM OneCopy == Spec => []OneCopyUnlessDamaged
BY Invariance, PTL DEF IInv

(* Exit code 0 means that every slice of the plan is complete.              *)
THEOREM CleanExits == Spec => []CleanExitIsComplete
BY Invariance, PTL DEF IInv

-----------------------------------------------------------------------------
(* The collector implements the ledger.                                     *)
LMark == [s \in Slices |-> IF Readable(s) /\ s \notin torn THEN mark[s] ELSE 0]
LStored == [s \in Slices |-> Stored(s)]
LWanted == [s \in Slices |-> site[s].inRange]

LEMMA LedgerInit == Init => Ledger!Init
BY WantedPages DEF Init, Ledger!Init, Stored, Readable

LEMMA LedgerStutters ==
    ASSUME UNCHANGED site, UNCHANGED LStored, UNCHANGED LMark
    PROVE  UNCHANGED Ledger!vars
BY DEF Ledger!vars, LStored, LMark, LWanted

LEMMA LedgerNext == IInv /\ [Next]_vars => [Ledger!Next]_(Ledger!vars)
<1> SUFFICES ASSUME IInv, [Next]_vars PROVE Ledger!Next \/ UNCHANGED Ledger!vars
  OBVIOUS
<1> DEFINE Goal == Ledger!Next \/ UNCHANGED Ledger!vars
<1> TypeOK /\ Position
  BY DEF IInv
<1>t. cur \in Slices /\ at \in 0..MaxPages
  BY DEF TypeOK, ProcessType
<1>c. PICK c \in Slices : c = cur
  BY <1>t
<1>d. /\ status \in [Slices -> Statuses] /\ mark \in [Slices -> 0..MaxPages]
      /\ \A s \in Slices : recs[s] \in [Pages -> Nat]
  BY DEF TypeOK, DiskType
<1>e. UNCHANGED <<site, status, mark, recs, torn>> => Goal
  BY LedgerStutters DEF LStored, LMark, Stored, Readable
<1>1. CASE \E anew \in BOOLEAN : Launch(anew)
  BY <1>1, <1>e DEF Launch, disk, history
<1>2. CASE LoadSkips \/ LoadResumes \/ LoadFresh \/ FetchPage \/ FetchFails \/ Kill
  BY <1>2, <1>e DEF LoadSkips, LoadResumes, LoadFresh, FetchPage, FetchFails, Kill, disk, history
<1>3. CASE LoadTruncates
  <2>1. LStored' = [LStored EXCEPT ![cur] = {}]
    <3>1. recs'[cur] = [p \in Pages |-> 0] /\ \A s \in Slices \ {cur} : recs'[s] = recs[s]
      BY <1>3, <1>t DEF LoadTruncates, TypeOK, DiskType
    <3>2. \A p \in Pages : ~(recs'[cur][p] > 0)
      BY <3>1
    <3> QED
      BY <1>t, <3>1, <3>2 DEF LStored, Stored
  <2>2. LMark' = [LMark EXCEPT ![cur] = 0]
    BY <1>3, <1>t DEF LoadTruncates, LMark, Readable
  <2>3. Ledger!Clear(c)
    BY <1>3, <1>c, <2>1, <2>2 DEF LoadTruncates, Ledger!Clear, LMark, LStored
  <2> QED
    BY <2>3 DEF Ledger!Next
<1>4. ASSUME NEW st \in {"running", "complete", "paused"}, SaveState(st, at, known), UNCHANGED site,
             \/ pc = "mark" /\ torn' = IF at = 0 THEN torn \ {cur} ELSE torn
             \/ pc \in {"complete", "pause"} /\ UNCHANGED torn
      PROVE  Goal
  <2>1. /\ status'[cur] = st /\ mark'[cur] = at
        /\ \A s \in Slices \ {cur} : status'[s] = status[s] /\ mark'[s] = mark[s]
    BY <1>4, <1>t, <1>d DEF SaveState
  <2>2. \A s \in Slices : LMark'[s] = LMark[s]
    BY <1>4, <1>t, <2>1 DEF LMark, Readable, Position, AtWork
  <2>3. UNCHANGED LMark /\ UNCHANGED LStored
    BY <1>4, <2>2 DEF LMark, LStored, SaveState, Stored
  <2> QED
    BY <1>4, <2>3, LedgerStutters
<1>5. CASE MarkRunning \/ CompleteSlice \/ PauseSlice
  BY <1>4, <1>5 DEF MarkRunning, CompleteSlice, PauseSlice, history
<1>6. CASE AppendRecords
  <2>0. at + 1 \in Pages /\ recs[cur][at + 1] \in Nat
    BY <1>6, <1>t, <1>d DEF AppendRecords, TypeOK, ProcessType
  <2>1. /\ recs'[cur][at + 1] = recs[cur][at + 1] + 1
        /\ \A p \in Pages \ {at + 1} : recs'[cur][p] = recs[cur][p]
        /\ \A s \in Slices \ {cur} : recs'[s] = recs[s]
    BY <1>6, <1>t, <1>d, <2>0 DEF AppendRecords, TypeOK, DiskType
  <2>2. \A p \in Pages : recs'[cur][p] > 0 <=> recs[cur][p] > 0 \/ p = at + 1
    BY <2>0, <2>1
  <2>3. LStored' = [LStored EXCEPT ![cur] = @ \cup {at + 1}]
    BY <1>t, <2>0, <2>1, <2>2 DEF LStored, Stored
  <2>4. UNCHANGED <<site, LMark>> /\ at + 1 \in LWanted[cur]
    BY <1>6, <1>t DEF AppendRecords, history, LMark, LWanted, Readable, Position
  <2>5. Ledger!Store(c, at + 1)
    BY <1>c, <2>3, <2>4 DEF Ledger!Store, LStored, LMark, LWanted
  <2> QED
    BY <2>0, <2>5 DEF Ledger!Next
<1>7. CASE SavePage
  <2>1. /\ status'[cur] = "running" /\ mark'[cur] = at + 1 /\ mark[cur] = at
        /\ Readable(cur) /\ at + 1 \in Pages
        /\ \A s \in Slices \ {cur} : status'[s] = status[s] /\ mark'[s] = mark[s]
    BY <1>7, <1>t, <1>d DEF SavePage, SaveState, Position, AtWork, TypeOK, ProcessType
  <2>2. UNCHANGED <<site, torn, LStored>>
    BY <1>7 DEF SavePage, SaveState, history, LStored, Stored
  <2>3. CASE cur \in torn
    BY <2>1, <2>2, <2>3, LedgerStutters DEF LMark, Readable
  <2>4. CASE cur \notin torn
    <3>1. LMark[cur] = at /\ LMark' = [LMark EXCEPT ![cur] = @ + 1]
      BY <1>t, <2>1, <2>2, <2>4 DEF LMark, Readable
    <3>2. at + 1 \in LWanted[cur] => at + 1 \in LStored[cur]
      BY <1>7, <1>t, <2>1 DEF SavePage, Position, LWanted, LStored, Stored
    <3>3. Ledger!Advance(c)
      BY <1>c, <2>1, <2>2, <3>1, <3>2 DEF Ledger!Advance, LMark, LStored, LWanted
    <3> QED
      BY <3>3 DEF Ledger!Next
  <2> QED
    BY <2>3, <2>4
<1>8. CASE KillDuringSave
  <2>1. /\ status'[cur] = "corrupt"
        /\ \A s \in Slices \ {cur} : status'[s] = status[s] /\ mark'[s] = mark[s]
    BY <1>8, <1>t, <1>d DEF KillDuringSave, SaveState
  <2>2. LMark' = [LMark EXCEPT ![cur] = 0]
    BY <1>8, <1>t, <2>1 DEF KillDuringSave, LMark, Readable
  <2>3. UNCHANGED <<site, LStored>>
    BY <1>8 DEF KillDuringSave, SaveState, LStored, Stored
  <2>4. Ledger!Forget(c)
    BY <1>c, <2>2, <2>3 DEF Ledger!Forget, LMark, LStored
  <2> QED
    BY <2>4 DEF Ledger!Next
<1>9. CASE UNCHANGED vars
  BY <1>9, <1>e DEF vars, disk, history
<1> QED
  BY <1>1, <1>2, <1>3, <1>5, <1>6, <1>7, <1>8, <1>9 DEF Next, Collect

(* Every behaviour of the collector is one of the page ledger: a mark moves *)
(* one page at a time over pages whose records are durable, and records are *)
(* never cleared below a mark that is kept.                                 *)
THEOREM ImplementsLedger == Spec => LedgerSpec
<1> SUFFICES Spec => Ledger!Init /\ [][Ledger!Next]_(Ledger!vars)
  BY DEF LedgerSpec, Ledger!Spec
<1> QED
  BY LedgerInit, LedgerNext, Invariance, PTL DEF Spec
=============================================================================
