--------------------------- MODULE WorkspaceProofs ---------------------------
(* What a workspace and its public links keep, for every number of users,    *)
(* starters, processes, requests, Dives, visitors and links, what the Edit   *)
(* Lab shows of them, and the hourly limits, for every limit and window.     *)
EXTENDS WorkspaceDives, EditLab, RequestLimits, FiniteSetTheorems, SequenceTheorems, TLAPS

-----------------------------------------------------------------------------
(* The starter Dives of a workspace. *)

DivesSpec == DivesInit /\ [][DivesNext]_divesVars

\* A Dive whose source the starter's row names, unless a second one was stored.
SourceOf(s, id) == /\ setting[s] # NoDive /\ id \in Dives
                   /\ s \in Starters \ remade => id = setting[s]

\* A set-up has found or stored the source of every starter before its next.
SetupInv(p) ==
    /\ setup[p].pc = "none" => setup[p] = NoSetup
    /\ setup[p].pc # "done" => setup[p].at \in Starters
    /\ setup[p].pc = "done" => setup[p].at = NumStarters + 1
    /\ setup[p].pc = "store" => setup[p].ids[setup[p].at] \in Dives
    /\ \A s \in Starters : s < setup[p].at => SourceOf(s, setup[p].ids[s])

\* A request knows every starter its user lacks, and past the wait its process
\* has all the sources.
RequestInv(r) ==
    /\ req[r].pc # "idle" => \E u \in Users, p \in Processes : req[r].user = {u} /\ req[r].proc = {p}
    /\ req[r].pc # "idle" => \A u \in req[r].user : Missing(u) \subseteq req[r].missing
    /\ req[r].pc \in {"create", "return"} => \A p \in req[r].proc : setup[p].pc = "done"
    /\ req[r].pc = "return" => \A u \in req[r].user : Missing(u) = {}
    /\ \A s \in Starters : req[r].own[s] # NoOwn => SourceOf(s, req[r].own[s].source)

WorkspaceInv(u) == \A s \in Starters : mapping[u][s] # NoOwn => SourceOf(s, mapping[u][s].source)

DivesInv ==
    /\ DivesTypeOK /\ LegacyAgrees
    /\ \A p \in Processes : SetupInv(p)
    /\ \A r \in Requests : RequestInv(r)
    /\ \A u \in Users : WorkspaceInv(u)

SetupPlaces == [pc : {"none", "look", "store", "done"}, at : 1..(NumStarters + 1),
                ids : [Starters -> 0..MaxDives]]
RequestPlaces == [pc : {"idle", "wait", "create", "return"}, user : SUBSET Users,
                  proc : SUBSET Processes, missing : SUBSET Starters, own : [Starters -> Own]]

LEMMA OwnTypes ==
    /\ \A o \in Own : o # NoOwn => o.dive \in Dives /\ o.source \in Dives
    /\ \A d, s \in Dives : [dive |-> d, source |-> s] \in Own /\ [dive |-> d, source |-> s] # NoOwn
    /\ NoOwn \in Own
<1>1. NoDive \notin Dives
  BY WorkspaceAssumption DEF NoDive, Dives
<1> QED
  BY <1>1 DEF Own, NoOwn

LEMMA StartTypes ==
    /\ NoSetup \in SetupPlaces /\ NoSetup.at = 1 /\ NoSetup.pc = "none"
    /\ NoRequest \in RequestPlaces /\ NoRequest.pc = "idle"
    /\ \A s \in Starters : NoRequest.own[s] = NoOwn
<1>1. 1 \in 1..(NumStarters + 1) /\ 0 \in 0..MaxDives
  BY WorkspaceAssumption
<1>2. NoSetup \in SetupPlaces /\ NoSetup.at = 1 /\ NoSetup.pc = "none"
  BY <1>1 DEF NoSetup, SetupPlaces, NoDive
<1>3. [s \in Starters |-> NoOwn] \in [Starters -> Own]
  BY OwnTypes
<1>4. NoRequest \in RequestPlaces /\ NoRequest.pc = "idle" /\ NoRequest.own = [s \in Starters |-> NoOwn]
  BY <1>3 DEF NoRequest, RequestPlaces
<1> QED
  BY <1>2, <1>4

LEMMA DivesInitial == DivesInit => DivesInv
<1> SUFFICES ASSUME DivesInit PROVE DivesInv
  OBVIOUS
<1>1. PICK old \in {{}} \cup {{u} : u \in Users} :
        /\ made = IF old = {} THEN 0 ELSE 2 * NumEarlier
        /\ setting = [s \in Starters |-> IF old # {} /\ s <= NumEarlier THEN s ELSE NoDive]
        /\ setup = [p \in Processes |-> NoSetup]
        /\ legacy = [u \in Users |-> [s \in Starters |->
                        IF u \in old /\ s <= NumEarlier
                        THEN [dive |-> NumEarlier + s, source |-> s] ELSE NoOwn]]
        /\ mapping = legacy
        /\ req = [r \in Requests |-> NoRequest]
        /\ remade = {}
  BY DEF DivesInit
<1>2. made \in 0..MaxDives
  BY <1>1, WorkspaceAssumption
<1>3. \A s \in Starters : s <= NumEarlier => s \in Dives /\ NumEarlier + s \in Dives
  BY WorkspaceAssumption DEF Starters, Dives
<1>4. setting \in [Starters -> 0..MaxDives]
  <2>1. \A s \in Starters : setting[s] \in 0..MaxDives
    BY <1>1, <1>3, WorkspaceAssumption DEF Dives, NoDive
  <2> QED
    BY <1>1, <2>1
<1>5. \A u \in Users, s \in Starters :
        /\ mapping[u][s] \in Own
        /\ mapping[u][s] # NoOwn => s <= NumEarlier /\ u \in old /\ mapping[u][s].source = s
  <2> SUFFICES ASSUME NEW u \in Users, NEW s \in Starters
               PROVE  /\ mapping[u][s] \in Own
                      /\ mapping[u][s] # NoOwn => s <= NumEarlier /\ u \in old /\ mapping[u][s].source = s
    OBVIOUS
  <2>1. mapping[u][s] = IF u \in old /\ s <= NumEarlier
                        THEN [dive |-> NumEarlier + s, source |-> s] ELSE NoOwn
    BY <1>1
  <2> QED
    BY <1>3, <2>1, OwnTypes
<1>6. mapping \in [Users -> [Starters -> Own]]
  BY <1>1, <1>5
<1>7. \A u \in Users : WorkspaceInv(u)
  <2> SUFFICES ASSUME NEW u \in Users, NEW s \in Starters, mapping[u][s] # NoOwn
               PROVE  SourceOf(s, mapping[u][s].source)
    BY DEF WorkspaceInv
  <2>1. setting[s] = s /\ mapping[u][s].source = s /\ s \in Dives
    BY <1>1, <1>3, <1>5
  <2> QED
    BY <2>1, WorkspaceAssumption DEF SourceOf, Dives, NoDive
<1>8. \A p \in Processes : SetupInv(p)
  BY <1>1, StartTypes, WorkspaceAssumption DEF SetupInv, Starters
<1>9. \A r \in Requests : RequestInv(r)
  BY <1>1, StartTypes DEF RequestInv
<1>10. DivesTypeOK
  BY <1>1, <1>2, <1>4, <1>6, StartTypes DEF DivesTypeOK, SetupPlaces, RequestPlaces
<1> QED
  BY <1>1, <1>7, <1>8, <1>9, <1>10 DEF DivesInv, LegacyAgrees

LEMMA Typed ==
    ASSUME DivesInv
    PROVE  /\ made \in 0..MaxDives /\ setting \in [Starters -> 0..MaxDives]
           /\ setup \in [Processes -> SetupPlaces] /\ req \in [Requests -> RequestPlaces]
           /\ mapping \in [Users -> [Starters -> Own]] /\ legacy = mapping
           /\ remade \subseteq Starters
BY DEF DivesInv, DivesTypeOK, LegacyAgrees, SetupPlaces, RequestPlaces

LEMMA Retyped ==
    ASSUME made' \in 0..MaxDives, setting' \in [Starters -> 0..MaxDives],
           setup' \in [Processes -> SetupPlaces], req' \in [Requests -> RequestPlaces],
           mapping' \in [Users -> [Starters -> Own]], legacy' = mapping',
           remade' \subseteq Starters
    PROVE  DivesTypeOK' /\ LegacyAgrees'
BY DEF DivesTypeOK, LegacyAgrees, SetupPlaces, RequestPlaces

-----------------------------------------------------------------------------
(* The set-up of a process. *)

LEMMA Advanced ==
    ASSUME DivesInv, NEW p \in Processes, Running(p), NEW id \in Dives, Advance(p, id)
    PROVE  /\ setup' \in [Processes -> SetupPlaces]
           /\ \A q \in Processes : q # p => setup'[q] = setup[q]
           /\ setup[p].at \in Starters /\ setup'[p].at = setup[p].at + 1
           /\ setup'[p].pc \in {"look", "done"}
           /\ setup'[p].pc = "done" <=> setup[p].at = NumStarters
           /\ setup'[p].ids[setup[p].at] = id
           /\ \A s \in Starters : s # setup[p].at => setup'[p].ids[s] = setup[p].ids[s]
<1> DEFINE new == [pc |-> IF setup[p].at = NumStarters THEN "done" ELSE "look",
                   at |-> setup[p].at + 1, ids |-> [setup[p].ids EXCEPT ![setup[p].at] = id]]
<1>1. setup \in [Processes -> SetupPlaces] /\ setup[p].at \in Starters
  BY Typed DEF DivesInv, SetupInv, Running
<1>2. setup[p].ids \in [Starters -> 0..MaxDives] /\ id \in 0..MaxDives
  BY <1>1, WorkspaceAssumption DEF SetupPlaces, Dives
<1>3. setup[p].at + 1 \in 1..(NumStarters + 1)
  BY <1>1, WorkspaceAssumption DEF Starters
<1>4. [setup[p].ids EXCEPT ![setup[p].at] = id] \in [Starters -> 0..MaxDives]
  BY <1>2
<1>5. new \in SetupPlaces
  BY <1>3, <1>4 DEF SetupPlaces
<1>6. setup' = [setup EXCEPT ![p] = new]
  BY DEF Advance
<1>7. setup'[p] = new
  BY <1>1, <1>6
<1> QED
  BY <1>1, <1>2, <1>5, <1>6, <1>7

(* A step that keeps the sources and lets workspaces and requests be.        *)
LEMMA SetupStep ==
    ASSUME DivesInv, NEW p \in Processes, UNCHANGED <<legacy, mapping, req>>,
           \A s \in Starters : setting[s] # NoDive =>
              setting'[s] # NoDive /\ (setting'[s] = setting[s] \/ s \in remade'),
           remade \subseteq remade', remade' \subseteq Starters,
           made' \in 0..MaxDives, setting' \in [Starters -> 0..MaxDives],
           setup' \in [Processes -> SetupPlaces], setup[p].pc # "done",
           \A q \in Processes : q # p => setup'[q] = setup[q],
           SetupInv(p)'
    PROVE  DivesInv'
<1>1. DivesTypeOK' /\ LegacyAgrees'
  BY Typed, Retyped
<1>2. \A s \in Starters, id \in Dives : SourceOf(s, id) => SourceOf(s, id)'
  BY DEF SourceOf
<1>3. \A s \in Starters : \A id : SourceOf(s, id) => SourceOf(s, id)'
  BY <1>2 DEF SourceOf
<1>4. \A q \in Processes : SetupInv(q)'
  <2> SUFFICES ASSUME NEW q \in Processes, q # p PROVE SetupInv(q)'
    OBVIOUS
  <2>1. SetupInv(q) /\ setup'[q] = setup[q]
    BY DEF DivesInv
  <2> QED
    BY <1>3, <2>1 DEF SetupInv
<1>5. \A r \in Requests : RequestInv(r)'
  <2> SUFFICES ASSUME NEW r \in Requests PROVE RequestInv(r)'
    OBVIOUS
  <2>1. RequestInv(r) /\ req'[r] = req[r] /\ \A u \in Users : Missing(u)' = Missing(u)
    BY DEF DivesInv, Missing
  <2>2. req[r].pc \in {"create", "return"} => \A q \in req[r].proc : setup'[q].pc = "done"
    <3> SUFFICES ASSUME req[r].pc \in {"create", "return"}, NEW q \in req[r].proc
                 PROVE  setup'[q].pc = "done"
      OBVIOUS
    <3>1. q \in Processes /\ setup[q].pc = "done"
      BY <2>1, Typed DEF RequestInv, RequestPlaces
    <3> QED
      BY <3>1
  <2>3. req[r].user \subseteq Users
    BY Typed DEF RequestPlaces
  <2> QED
    BY <1>3, <2>1, <2>2, <2>3 DEF RequestInv
<1>6. \A u \in Users : WorkspaceInv(u)'
  BY <1>3 DEF DivesInv, WorkspaceInv
<1> QED
  BY <1>1, <1>4, <1>5, <1>6 DEF DivesInv

LEMMA SourceFoundKeeps == ASSUME DivesInv, NEW p \in Processes, SourceFound(p) PROVE DivesInv'
<1>1. /\ setup[p].pc = "look" /\ setting[setup[p].at] # NoDive
      /\ Advance(p, setting[setup[p].at])
      /\ UNCHANGED <<made, setting, legacy, mapping, req, remade>>
  BY DEF SourceFound
<1>2. setup[p].at \in Starters /\ SetupInv(p)
  BY <1>1 DEF DivesInv, SetupInv
<1>3. setting[setup[p].at] \in Dives
  BY <1>1, <1>2, Typed, WorkspaceAssumption DEF Dives, NoDive
<1>4. /\ setup' \in [Processes -> SetupPlaces]
      /\ \A q \in Processes : q # p => setup'[q] = setup[q]
      /\ setup[p].at \in Starters /\ setup'[p].at = setup[p].at + 1
      /\ setup'[p].pc \in {"look", "done"}
      /\ setup'[p].pc = "done" <=> setup[p].at = NumStarters
      /\ setup'[p].ids[setup[p].at] = setting[setup[p].at]
      /\ \A s \in Starters : s # setup[p].at => setup'[p].ids[s] = setup[p].ids[s]
  BY <1>1, <1>3, Advanced DEF Running
<1>5. SetupInv(p)'
  <2>1. \A s \in Starters : s < setup'[p].at => SourceOf(s, setup'[p].ids[s])
    <3> SUFFICES ASSUME NEW s \in Starters, s < setup'[p].at PROVE SourceOf(s, setup'[p].ids[s])
      OBVIOUS
    <3>1. CASE s = setup[p].at
      BY <1>1, <1>3, <1>4, <3>1 DEF SourceOf
    <3>2. CASE s # setup[p].at
      BY <1>2, <1>4, <3>2 DEF SetupInv, Starters
    <3> QED
      BY <3>1, <3>2
  <2>2. setup'[p].pc # "done" => setup'[p].at \in Starters
    BY <1>4, WorkspaceAssumption DEF Starters
  <2> QED
    BY <1>1, <1>4, <2>1, <2>2 DEF SetupInv, SourceOf
<1> QED
  BY <1>1, <1>4, <1>5, SetupStep, Typed

LEMMA SourceCreatedKeeps == ASSUME DivesInv, NEW p \in Processes, SourceCreated(p) PROVE DivesInv'
<1> DEFINE at == setup[p].at
           new == [pc |-> "store", at |-> at, ids |-> [setup[p].ids EXCEPT ![at] = made + 1]]
<1>1. /\ setup[p].pc = "look" /\ made < MaxDives /\ made' = made + 1
      /\ UNCHANGED <<setting, legacy, mapping, req, remade>>
      /\ setup' = [setup EXCEPT ![p] = new]
  BY DEF SourceCreated, CreateDive
<1>2. at \in Starters /\ SetupInv(p) /\ setup[p] \in SetupPlaces /\ made \in 0..MaxDives
  BY <1>1, Typed DEF DivesInv, SetupInv
<1>3. made + 1 \in Dives /\ made' \in 0..MaxDives
  BY <1>1, <1>2, WorkspaceAssumption DEF Dives
<1>5. new \in SetupPlaces
  BY <1>2, <1>3, WorkspaceAssumption DEF SetupPlaces, Dives
<1>6. setup'[p] = new /\ setup' \in [Processes -> SetupPlaces]
      /\ \A q \in Processes : q # p => setup'[q] = setup[q]
  BY <1>1, <1>5, Typed
<1>7. setup'[p].ids[at] = made + 1 /\ \A s \in Starters : s # at => setup'[p].ids[s] = setup[p].ids[s]
  BY <1>2, <1>6 DEF SetupPlaces
<1>8. SetupInv(p)'
  <2>1. \A s \in Starters : s < at => s # at
    BY <1>2 DEF Starters
  <2> QED
    BY <1>1, <1>2, <1>3, <1>6, <1>7, <2>1 DEF SetupInv, SourceOf
<1> QED
  BY <1>1, <1>3, <1>6, <1>8, SetupStep, Typed

LEMMA SourceStoredKeeps == ASSUME DivesInv, NEW p \in Processes, SourceStored(p) PROVE DivesInv'
<1> PICK at : at = setup[p].at
  OBVIOUS
<1> PICK id : id = setup[p].ids[at]
  OBVIOUS
<1>1. /\ setup[p].pc = "store" /\ setting' = [setting EXCEPT ![at] = id]
      /\ remade' = IF setting[at] = NoDive THEN remade ELSE remade \cup {at}
      /\ Advance(p, id) /\ UNCHANGED <<made, legacy, mapping, req>>
  BY DEF SourceStored
<1>2. at \in Starters /\ id \in Dives /\ SetupInv(p)
  BY <1>1 DEF DivesInv, SetupInv
<1>3. id \in 0..MaxDives /\ id # NoDive
  BY <1>2, WorkspaceAssumption DEF Dives, NoDive
<1>4. /\ setting'[at] = id /\ setting' \in [Starters -> 0..MaxDives]
      /\ \A s \in Starters : s # at => setting'[s] = setting[s]
      /\ remade \subseteq remade' /\ remade' \subseteq Starters
  BY <1>1, <1>2, <1>3, Typed
<1>5. /\ setup' \in [Processes -> SetupPlaces]
      /\ \A q \in Processes : q # p => setup'[q] = setup[q]
      /\ setup'[p].at = at + 1 /\ setup'[p].pc \in {"look", "done"}
      /\ setup'[p].pc = "done" <=> at = NumStarters
      /\ setup'[p].ids[at] = id
      /\ \A s \in Starters : s # at => setup'[p].ids[s] = setup[p].ids[s]
  BY <1>1, <1>2, Advanced DEF Running
<1>6. SetupInv(p)'
  <2>1. \A s \in Starters : s < setup'[p].at => SourceOf(s, setup[p].ids[s])'
    <3> SUFFICES ASSUME NEW s \in Starters, s < setup'[p].at PROVE SourceOf(s, setup[p].ids[s])'
      OBVIOUS
    <3>1. CASE s = at
      BY <1>2, <1>3, <1>4, <1>5, <3>1 DEF SourceOf
    <3>2. CASE s # at
      <4>1. s < setup[p].at /\ SourceOf(s, setup[p].ids[s])
        BY <1>2, <1>5, <3>2 DEF SetupInv, Starters
      <4> QED
        BY <1>4, <1>5, <3>2, <4>1 DEF SourceOf
    <3> QED
      BY <3>1, <3>2
  <2>2. setup'[p].pc # "done" => setup'[p].at \in Starters
    BY <1>2, <1>5, WorkspaceAssumption DEF Starters
  <2> QED
    BY <1>2, <1>5, <2>1, <2>2 DEF SetupInv
<1>7. \A s \in Starters : setting[s] # NoDive =>
         setting'[s] # NoDive /\ (setting'[s] = setting[s] \/ s \in remade')
  BY <1>1, <1>2, <1>3, <1>4
<1> QED
  BY <1>1, <1>4, <1>5, <1>6, <1>7, SetupStep, Typed

(* Requests that are dropped: by a failed set-up, by a restart, or alone.   *)
LEMMA DropStep ==
    ASSUME DivesInv, UNCHANGED <<made, setting, legacy, mapping, remade>>,
           NEW P \in SUBSET Processes,
           setup' \in [Processes -> SetupPlaces],
           \A q \in Processes : setup'[q] = IF q \in P THEN NoSetup ELSE setup[q],
           req' \in [Requests -> RequestPlaces],
           \A r \in Requests : \/ req'[r] = NoRequest
                               \/ /\ req'[r] = req[r]
                                  /\ req[r].pc \in {"create", "return"} => req[r].proc \cap P = {}
    PROVE  DivesInv'
<1>1. DivesTypeOK' /\ LegacyAgrees'
  BY Typed, Retyped
<1>2. \A q \in Processes : SetupInv(q)'
  <2> SUFFICES ASSUME NEW q \in Processes PROVE SetupInv(q)'
    OBVIOUS
  <2>1. CASE q \in P
    <3>1. 1 \in Starters /\ ~ \E s \in Starters : s < 1
      BY WorkspaceAssumption DEF Starters
    <3> QED
      BY <2>1, <3>1, StartTypes DEF SetupInv
  <2>2. CASE q \notin P
    BY <2>2 DEF DivesInv, SetupInv, SourceOf
  <2> QED
    BY <2>1, <2>2
<1>3. \A r \in Requests : RequestInv(r)'
  <2> SUFFICES ASSUME NEW r \in Requests PROVE RequestInv(r)'
    OBVIOUS
  <2>1. CASE req'[r] = NoRequest
    BY <2>1, StartTypes DEF RequestInv
  <2>2. CASE req'[r] = req[r] /\ (req[r].pc \in {"create", "return"} => req[r].proc \cap P = {})
    <3>1. RequestInv(r) /\ req[r].proc \subseteq Processes /\ req[r].user \subseteq Users
      BY Typed DEF DivesInv, RequestPlaces
    <3>2. req[r].pc \in {"create", "return"} => \A q \in req[r].proc : setup'[q].pc = "done"
      BY <2>2, <3>1 DEF RequestInv
    <3> QED
      BY <2>2, <3>1, <3>2 DEF RequestInv, Missing, SourceOf
  <2> QED
    BY <2>1, <2>2
<1>4. \A u \in Users : WorkspaceInv(u)'
  BY DEF DivesInv, WorkspaceInv, SourceOf
<1> QED
  BY <1>1, <1>2, <1>3, <1>4 DEF DivesInv

LEMMA DropsKeep ==
    ASSUME DivesInv, NEW p \in Processes, SourcesFail(p) \/ Restart(p)
    PROVE  DivesInv'
<1> USE StartTypes, Typed
<1>1. CASE SourcesFail(p)
  <2>1. \A q \in Requests : req[q].pc \in {"create", "return"} => req[q].proc \cap {p} = {}
    BY <1>1 DEF SourcesFail, Running, DivesInv, RequestInv
  <2>2. req' \in [Requests -> RequestPlaces]
    BY <1>1 DEF SourcesFail
  <2>3. \A q \in Requests : req'[q] = NoRequest \/ req'[q] = req[q]
    BY <1>1 DEF SourcesFail
  <2>4. {p} \in SUBSET Processes /\ setup' = [setup EXCEPT ![p] = NoSetup]
        /\ UNCHANGED <<made, setting, legacy, mapping, remade>>
    BY <1>1 DEF SourcesFail
  <2>5. setup' \in [Processes -> SetupPlaces]
        /\ \A q \in Processes : setup'[q] = IF q \in {p} THEN NoSetup ELSE setup[q]
    BY <2>4
  <2> QED
    BY <2>1, <2>2, <2>3, <2>4, <2>5, DropStep
<1>2. CASE Restart(p)
  <2>1. \A q \in Requests : \/ req'[q] = NoRequest
                            \/ req'[q] = req[q] /\ req[q].proc # {p}
    BY <1>2 DEF Restart
  <2>2. req' \in [Requests -> RequestPlaces]
    BY <1>2 DEF Restart
  <2>3. \A q \in Requests :
           req[q].pc \in {"create", "return"} /\ req[q].proc # {p} => req[q].proc \cap {p} = {}
    BY DEF DivesInv, RequestInv
  <2>4. {p} \in SUBSET Processes /\ setup' = [setup EXCEPT ![p] = NoSetup]
        /\ UNCHANGED <<made, setting, legacy, mapping, remade>>
    BY <1>2 DEF Restart
  <2>5. setup' \in [Processes -> SetupPlaces]
        /\ \A q \in Processes : setup'[q] = IF q \in {p} THEN NoSetup ELSE setup[q]
    BY <2>4
  <2> QED
    BY <2>1, <2>2, <2>3, <2>4, <2>5, DropStep
<1> QED
  BY <1>1, <1>2

LEMMA LeaveKeeps == ASSUME DivesInv, NEW r \in Requests, Leave(r) PROVE DivesInv'
<1>1. req' = [req EXCEPT ![r] = NoRequest] /\ UNCHANGED <<made, setting, setup, legacy, mapping, remade>>
  BY DEF Leave
<1>2. req' \in [Requests -> RequestPlaces] /\ \A q \in Requests : req'[q] = NoRequest \/ req'[q] = req[q]
  BY <1>1, StartTypes, Typed
<1>3. {} \in SUBSET Processes /\ setup' \in [Processes -> SetupPlaces]
      /\ \A q \in Processes : setup'[q] = IF q \in {} THEN NoSetup ELSE setup[q]
  BY <1>1, Typed
<1>4. \A q \in Requests : req[q].proc \cap {} = {}
  OBVIOUS
<1> QED
  BY <1>1, <1>2, <1>3, <1>4, DropStep

-----------------------------------------------------------------------------
(* The requests. *)

(* A step of one request that stores nothing.                               *)
LEMMA RequestStep ==
    ASSUME DivesInv, NEW r \in Requests, UNCHANGED <<setting, legacy, mapping, remade>>,
           made' \in 0..MaxDives, NEW new \in RequestPlaces, req' = [req EXCEPT ![r] = new],
           setup' \in [Processes -> SetupPlaces],
           \A p \in Processes : /\ SetupInv(p)'
                                /\ setup[p].pc = "done" => setup'[p].pc = "done",
           RequestInv(r)'
    PROVE  DivesInv'
<1>1. req' \in [Requests -> RequestPlaces] /\ \A q \in Requests : q # r => req'[q] = req[q]
  BY Typed
<1>2. DivesTypeOK' /\ LegacyAgrees'
  BY <1>1, Typed, Retyped
<1>3. \A q \in Requests : RequestInv(q)'
  <2> SUFFICES ASSUME NEW q \in Requests, q # r PROVE RequestInv(q)'
    OBVIOUS
  <2>1. req'[q] = req[q] /\ RequestInv(q) /\ req[q].proc \subseteq Processes
    BY <1>1, Typed DEF DivesInv, RequestPlaces
  <2>2. req[q].pc \in {"create", "return"} => \A p \in req[q].proc : setup'[p].pc = "done"
    BY <2>1 DEF RequestInv
  <2> QED
    BY <2>1, <2>2 DEF RequestInv, Missing, SourceOf
<1>4. \A u \in Users : WorkspaceInv(u)'
  BY DEF DivesInv, WorkspaceInv, SourceOf
<1> QED
  BY <1>2, <1>3, <1>4 DEF DivesInv

LEMMA BeginKeeps == ASSUME DivesInv, NEW r \in Requests, Begin(r) PROVE DivesInv'
<1>0. PICK u \in Users, p \in Processes :
      /\ req' = [req EXCEPT ![r] = [pc |-> "wait", user |-> {u}, proc |-> {p},
                                    missing |-> Missing(u), own |-> NoRequest.own]]
      /\ setup' = IF setup[p].pc = "none" THEN [setup EXCEPT ![p].pc = "look"] ELSE setup
  BY DEF Begin
<1> DEFINE own == [s \in Starters |-> NoOwn]
           new == [pc |-> "wait", user |-> {u}, proc |-> {p}, missing |-> Missing(u), own |-> own]
<1>1. UNCHANGED <<made, setting, legacy, mapping, remade>>
  BY DEF Begin
<1>2. own \in [Starters -> Own] /\ \A s \in Starters : own[s] = NoOwn
  BY OwnTypes
<1>3. NoRequest.own = own
  BY DEF NoRequest
<1> HIDE DEF own
<1>4. new \in RequestPlaces
  BY <1>2 DEF RequestPlaces, Missing
<1>5. req' = [req EXCEPT ![r] = new]
  BY <1>0, <1>3
<1> HIDE DEF new
<1>6. req'[r] = new
  BY <1>5, Typed
<1>7. RequestInv(r)'
  <2>1. /\ req'[r].pc = "wait" /\ req'[r].user = {u} /\ req'[r].proc = {p}
        /\ req'[r].missing = Missing(u) /\ req'[r].own = own
    BY <1>6 DEF new
  <2>2. Missing(u)' = Missing(u)
    BY <1>1 DEF Missing
  <2>3. \A v \in req'[r].user : Missing(v)' \subseteq req'[r].missing
    BY <2>1, <2>2
  <2> QED
    BY <1>2, <2>1, <2>3 DEF RequestInv
<1>8. CASE setup[p].pc = "none"
  <2>1. [setup[p] EXCEPT !.pc = "look"] = [pc |-> "look", at |-> setup[p].at, ids |-> setup[p].ids]
    BY Typed DEF SetupPlaces
  <2>2. setup' = [setup EXCEPT ![p] = [pc |-> "look", at |-> setup[p].at, ids |-> setup[p].ids]]
    BY <1>0, <1>8, <2>1
  <2>3. [pc |-> "look", at |-> setup[p].at, ids |-> setup[p].ids] \in SetupPlaces
    BY Typed DEF SetupPlaces
  <2>4. /\ setup' \in [Processes -> SetupPlaces] /\ \A q \in Processes : q # p => setup'[q] = setup[q]
        /\ setup'[p] = [pc |-> "look", at |-> setup[p].at, ids |-> setup[p].ids]
    BY <2>2, <2>3, Typed
  <2>5. \A q \in Processes : SetupInv(q)'
    <3>1. SetupInv(p) /\ \A q \in Processes : SetupInv(q)
      BY DEF DivesInv
    <3>2. SetupInv(p)'
      BY <1>1, <1>8, <2>4, <3>1 DEF SetupInv, SourceOf
    <3>3. \A q \in Processes : q # p => SetupInv(q)'
      BY <1>1, <2>4, <3>1 DEF SetupInv, SourceOf
    <3> QED
      BY <3>2, <3>3
  <2>6. \A q \in Processes : setup[q].pc = "done" => setup'[q].pc = "done"
    BY <1>8, <2>4
  <2> QED
    BY <1>1, <1>4, <1>5, <1>7, <2>4, <2>5, <2>6, RequestStep, Typed
<1>9. CASE setup' = setup
  <2>1. \A q \in Processes : SetupInv(q)'
    BY <1>1, <1>9 DEF DivesInv, SetupInv, SourceOf
  <2> QED
    BY <1>1, <1>4, <1>5, <1>7, <1>9, <2>1, RequestStep, Typed
<1> QED
  BY <1>0, <1>8, <1>9

(* A request that goes on, to where its new state fits.                     *)
LEMMA RequestGoesOn ==
    ASSUME DivesInv, NEW r \in Requests, UNCHANGED <<setting, setup, legacy, mapping, remade>>,
           made' \in 0..MaxDives, NEW new \in RequestPlaces, req' = [req EXCEPT ![r] = new],
           RequestInv(r)'
    PROVE  DivesInv'
<1>1. \A p \in Processes : SetupInv(p)'
  BY DEF DivesInv, SetupInv, SourceOf
<1> QED
  BY <1>1, RequestStep, Typed

LEMMA SourcesReadyKeeps == ASSUME DivesInv, NEW r \in Requests, SourcesReady(r) PROVE DivesInv'
<1> DEFINE to == IF req[r].missing = {} THEN "return" ELSE "create"
           new == [pc |-> to, user |-> req[r].user, proc |-> req[r].proc,
                   missing |-> req[r].missing, own |-> req[r].own]
<1>1. /\ req[r].pc = "wait" /\ req' = [req EXCEPT ![r].pc = to]
      /\ \E p \in req[r].proc : setup[p].pc = "done"
      /\ UNCHANGED <<made, setting, setup, legacy, mapping, remade>>
  BY DEF SourcesReady, Goto
<1>2. req[r] \in RequestPlaces /\ RequestInv(r) /\ req[r].user \subseteq Users
  BY Typed DEF DivesInv, RequestPlaces
<1> HIDE DEF to
<1>3. [req[r] EXCEPT !.pc = to] = new
  BY <1>2 DEF RequestPlaces
<1>4. req' = [req EXCEPT ![r] = new]
  BY <1>1, <1>3
<1>5. new \in RequestPlaces
  BY <1>2 DEF RequestPlaces, to
<1>6. req'[r] = new
  BY <1>4, Typed
<1>7. \A p \in req[r].proc : setup[p].pc = "done"
  BY <1>1, <1>2 DEF RequestInv
<1>8. to = "return" => \A u \in req[r].user : Missing(u) = {}
  BY <1>1, <1>2 DEF RequestInv, to
<1>9. RequestInv(r)'
  BY <1>1, <1>2, <1>6, <1>7, <1>8 DEF RequestInv, Missing, SourceOf
<1> QED
  BY <1>1, <1>4, <1>5, <1>9, RequestGoesOn, Typed

LEMMA CreateOwnKeeps == ASSUME DivesInv, NEW r \in Requests, CreateOwn(r) PROVE DivesInv'
<1>1. PICK s \in ToCreate(r), p \in req[r].proc :
        req' = [req EXCEPT ![r].own = [@ EXCEPT ![s] = [dive |-> made + 1, source |-> setup[p].ids[s]]]]
  BY DEF CreateOwn
<1>2. /\ req[r].pc = "create" /\ made < MaxDives /\ made' = made + 1
      /\ UNCHANGED <<setting, setup, legacy, mapping, remade>>
  BY DEF CreateOwn, CreateDive
<1>3. req[r] \in RequestPlaces /\ RequestInv(r) /\ p \in Processes /\ s \in Starters
  BY Typed DEF DivesInv, RequestPlaces, ToCreate
<1>4. SourceOf(s, setup[p].ids[s])
  <2>1. setup[p].at = NumStarters + 1 /\ SetupInv(p)
    BY <1>2, <1>3 DEF RequestInv, DivesInv, SetupInv
  <2>2. s < NumStarters + 1
    BY <1>3, WorkspaceAssumption DEF Starters
  <2> QED
    BY <1>3, <2>1, <2>2 DEF SetupInv
<1> DEFINE id == setup[p].ids[s]
           own == [req[r].own EXCEPT ![s] = [dive |-> made + 1, source |-> id]]
           new == [pc |-> req[r].pc, user |-> req[r].user, proc |-> req[r].proc,
                   missing |-> req[r].missing, own |-> own]
<1>5. made + 1 \in Dives /\ made' \in 0..MaxDives /\ id \in Dives
  BY <1>2, <1>4, Typed, WorkspaceAssumption DEF Dives, SourceOf
<1> HIDE DEF id
<1>6. [dive |-> made + 1, source |-> id] \in Own
  BY <1>5, OwnTypes
<1>7. /\ own \in [Starters -> Own] /\ own[s].source = id
      /\ \A t \in Starters : t # s => own[t] = req[r].own[t]
  BY <1>3, <1>6 DEF RequestPlaces
<1>8. req' = [req EXCEPT ![r] = new]
  <2>1. req' = [req EXCEPT ![r].own = own]
    BY <1>1 DEF id
  <2> HIDE DEF own
  <2>2. [req[r] EXCEPT !.own = own] = new
    BY <1>3 DEF RequestPlaces
  <2> QED
    BY <2>1, <2>2
<1> HIDE DEF own
<1>9. new \in RequestPlaces
  BY <1>3, <1>7 DEF RequestPlaces
<1>10. req'[r] = new
  BY <1>8, Typed
<1>11. SourceOf(s, id)
  BY <1>4 DEF id
<1>12. \A t \in Starters : own[t] # NoOwn => SourceOf(t, own[t].source)
  BY <1>3, <1>7, <1>11 DEF RequestInv
<1>13. RequestInv(r)'
  BY <1>2, <1>3, <1>10, <1>12 DEF RequestInv, Missing, SourceOf
<1> QED
  BY <1>2, <1>5, <1>8, <1>9, <1>13, RequestGoesOn

(* Where the rows fit, what a user gets is what was missing, in the columns  *)
(* as in the rows; what the user had stays.                                  *)
LEMMA Fitting ==
    ASSUME DivesInv, NEW r \in Requests, NEW u \in Users, ToCreate(r) = {},
           Missing(u) \subseteq req[r].missing, Fits(u, req[r].own, req[r].missing),
           NEW new, new = Inserted(mapping[u], req[r].own, req[r].missing)
    PROVE  /\ Merged(mapping[u], req[r].own, req[r].missing) = new
           /\ new \in [Starters -> Own]
           /\ \A s \in Starters : /\ new[s] # NoOwn /\ new[s] \in {mapping[u][s], req[r].own[s]}
                                  /\ mapping[u][s] # NoOwn => new[s] = mapping[u][s]
<1>1. req[r] \in RequestPlaces /\ mapping[u] \in [Starters -> Own]
  BY Typed
<1>2. req[r].missing \subseteq Starters /\ req[r].own \in [Starters -> Own]
  BY <1>1 DEF RequestPlaces
<1>3. \A s \in req[r].missing : req[r].own[s] # NoOwn /\ mapping[u][s] \in {NoOwn, req[r].own[s]}
  BY DEF ToCreate, Fits
<1>4. \A s \in Starters : s \notin req[r].missing => mapping[u][s] # NoOwn
  BY DEF Missing
<1>5. \A s \in Starters : new[s] = IF s \in req[r].missing /\ mapping[u][s] = NoOwn
                                   THEN req[r].own[s] ELSE mapping[u][s]
  BY DEF Inserted
<1>6. new = [s \in Starters |-> new[s]]
  BY DEF Inserted
<1>7. \A s \in Starters : new[s] = IF s \in req[r].missing THEN req[r].own[s] ELSE mapping[u][s]
  BY <1>3, <1>5
<1>8. Merged(mapping[u], req[r].own, req[r].missing) = new
  BY <1>6, <1>7 DEF Merged
<1>9. \A s \in Starters : new[s] # NoOwn /\ new[s] \in {mapping[u][s], req[r].own[s]}
  BY <1>3, <1>4, <1>5
<1>10. \A s \in Starters : new[s] \in Own
  BY <1>1, <1>2, <1>9
<1> QED
  BY <1>5, <1>6, <1>8, <1>9, <1>10

LEMMA SaveKeeps == ASSUME DivesInv, NEW r \in Requests, Save(r) PROVE DivesInv'
<1>1. PICK u \in req[r].user :
        IF Fits(u, req[r].own, req[r].missing)
        THEN /\ legacy' = [legacy EXCEPT ![u] = Merged(@, req[r].own, req[r].missing)]
             /\ mapping' = [mapping EXCEPT ![u] = Inserted(@, req[r].own, req[r].missing)]
             /\ Goto(r, "return")
        ELSE /\ UNCHANGED <<legacy, mapping>> /\ req' = [req EXCEPT ![r] = NoRequest]
  BY DEF Save
<1>2. req[r].pc = "create" /\ ToCreate(r) = {} /\ UNCHANGED <<made, setting, setup, remade>>
  BY DEF Save
<1>3. /\ req[r] \in RequestPlaces /\ RequestInv(r) /\ u \in Users
      /\ Missing(u) \subseteq req[r].missing /\ req[r].user = {u}
  <2>1. req[r] \in RequestPlaces /\ RequestInv(r)
    BY Typed DEF DivesInv
  <2> QED
    BY <1>2, <2>1 DEF RequestInv, RequestPlaces
<1>4. CASE ~Fits(u, req[r].own, req[r].missing)
  <2>1. Leave(r)
    BY <1>1, <1>2, <1>4 DEF Leave
  <2> QED
    BY <2>1, LeaveKeeps
<1>5. CASE Fits(u, req[r].own, req[r].missing)
  <2>1. PICK new : new = Inserted(mapping[u], req[r].own, req[r].missing)
    OBVIOUS
  <2>2. /\ legacy' = [legacy EXCEPT ![u] = Merged(legacy[u], req[r].own, req[r].missing)]
        /\ mapping' = [mapping EXCEPT ![u] = new]
        /\ req' = [req EXCEPT ![r].pc = "return"]
    BY <1>1, <1>5, <2>1 DEF Goto
  <2>3. /\ Merged(mapping[u], req[r].own, req[r].missing) = new
        /\ new \in [Starters -> Own]
        /\ \A s \in Starters : /\ new[s] # NoOwn /\ new[s] \in {mapping[u][s], req[r].own[s]}
                               /\ mapping[u][s] # NoOwn => new[s] = mapping[u][s]
    BY <1>2, <1>3, <1>5, <2>1, Fitting
  <2>4. /\ mapping' \in [Users -> [Starters -> Own]] /\ legacy' = mapping'
        /\ mapping'[u] = new /\ \A v \in Users : v # u => mapping'[v] = mapping[v]
    BY <1>3, <2>2, <2>3, Typed
  <2> DEFINE saved == [pc |-> "return", user |-> req[r].user, proc |-> req[r].proc,
                       missing |-> req[r].missing, own |-> req[r].own]
  <2>5. saved \in RequestPlaces /\ req' = [req EXCEPT ![r] = saved]
    <3>1. [req[r] EXCEPT !.pc = "return"] = saved
      BY <1>3 DEF RequestPlaces
    <3>2. saved \in RequestPlaces
      BY <1>3 DEF RequestPlaces
    <3> QED
      BY <2>2, <3>1, <3>2
  <2>6. /\ req' \in [Requests -> RequestPlaces] /\ req'[r] = saved
        /\ \A q \in Requests : q # r => req'[q] = req[q]
    BY <2>5, Typed
  <2>7. DivesTypeOK' /\ LegacyAgrees'
    BY <1>2, <2>4, <2>6, Typed, Retyped
  <2>8. Missing(u)' = {} /\ \A v \in Users : Missing(v)' \subseteq Missing(v)
    BY <2>3, <2>4 DEF Missing
  <2>9. \A p \in Processes : SetupInv(p)'
    BY <1>2 DEF DivesInv, SetupInv, SourceOf
  <2>10. ASSUME NEW q \in Requests PROVE RequestInv(q)'
    <3>1. CASE q = r
      BY <1>2, <1>3, <2>6, <2>8, <3>1 DEF RequestInv, SourceOf
    <3>2. CASE q # r
      <4>1. req'[q] = req[q] /\ RequestInv(q) /\ req[q].user \subseteq Users
        BY <2>6, <3>2, Typed DEF DivesInv, RequestPlaces
      <4> QED
        BY <1>2, <2>8, <4>1 DEF RequestInv, SourceOf
    <3> QED
      BY <3>1, <3>2
  <2>11. ASSUME NEW v \in Users PROVE WorkspaceInv(v)'
    <3>1. WorkspaceInv(v)
      BY DEF DivesInv
    <3>2. CASE v = u
      <4> SUFFICES ASSUME NEW s \in Starters PROVE SourceOf(s, new[s].source)
        BY <1>2, <2>4, <3>2 DEF WorkspaceInv, SourceOf
      <4>1. CASE new[s] = mapping[u][s]
        BY <2>3, <3>1, <3>2, <4>1 DEF WorkspaceInv
      <4>2. CASE new[s] = req[r].own[s]
        BY <1>3, <2>3, <4>2 DEF RequestInv
      <4> QED
        BY <2>3, <4>1, <4>2
    <3>3. CASE v # u
      BY <1>2, <2>4, <3>1, <3>3 DEF WorkspaceInv, SourceOf
    <3> QED
      BY <3>2, <3>3
  <2> QED
    BY <2>7, <2>9, <2>10, <2>11 DEF DivesInv
<1> QED
  BY <1>4, <1>5

LEMMA DivesKept == DivesInv /\ [DivesNext]_divesVars => DivesInv'
<1> SUFFICES ASSUME DivesInv, [DivesNext]_divesVars PROVE DivesInv'
  OBVIOUS
<1>1. ASSUME NEW p \in Processes, SourceFound(p) \/ SourceCreated(p) \/ SourceStored(p) PROVE DivesInv'
  BY <1>1, SourceFoundKeeps, SourceCreatedKeeps, SourceStoredKeeps
<1>2. ASSUME NEW p \in Processes, SourcesFail(p) \/ Restart(p) PROVE DivesInv'
  BY <1>2, DropsKeep
<1>3. ASSUME NEW r \in Requests, Begin(r) \/ SourcesReady(r) \/ CreateOwn(r) \/ Save(r) PROVE DivesInv'
  BY <1>3, BeginKeeps, SourcesReadyKeeps, CreateOwnKeeps, SaveKeeps
<1>4. ASSUME NEW r \in Requests, Leave(r) PROVE DivesInv'
  BY <1>4, LeaveKeeps
<1>5. CASE UNCHANGED divesVars
  <2>1. UNCHANGED <<made, setting, setup, legacy, mapping, req, remade>>
    BY <1>5 DEF divesVars
  <2>2. {} \in SUBSET Processes /\ setup' \in [Processes -> SetupPlaces]
        /\ \A q \in Processes : setup'[q] = IF q \in {} THEN NoSetup ELSE setup[q]
    BY <2>1, Typed
  <2>3. req' \in [Requests -> RequestPlaces] /\ \A q \in Requests : req'[q] = req[q] /\ req[q].proc \cap {} = {}
    BY <2>1, Typed
  <2> QED
    BY <2>1, <2>2, <2>3, DropStep
<1> QED
  BY <1>1, <1>2, <1>3, <1>4, <1>5 DEF DivesNext

LEMMA DivesAlways == DivesSpec => []DivesInv
<1> QED
  BY DivesInitial, DivesKept, PTL DEF DivesSpec

(* For every number of processes and overlapping first visits: who gets a      *)
(* workspace gets all of it, its columns and rows agree, and it records the    *)
(* stored source of each starter that was set up once.                         *)
THEOREM WorkspacesStayWhole == DivesSpec => []WorkspacesAreWhole
<1>1. DivesInv => WorkspacesAreWhole
  BY DEF DivesInv, WorkspacesAreWhole, ReturnedIsWhole, RequestInv, SourceIsStored, WorkspaceInv, SourceOf
<1> QED
  BY <1>1, DivesAlways, PTL

(* A Dive that a user owns is never swapped for another one, whichever first   *)
(* visits of that user are still under way.                                    *)
THEOREM OwnedDivesStay == DivesSpec => OwnedStays
<1>1. DivesInv /\ [DivesNext]_divesVars =>
        [\A u \in Users : \A s \in Starters :
            mapping[u][s] # NoOwn => mapping'[u][s] = mapping[u][s]]_divesVars
  <2> SUFFICES ASSUME DivesInv, DivesNext, NEW u \in Users, NEW s \in Starters, mapping[u][s] # NoOwn
               PROVE  mapping'[u][s] = mapping[u][s]
    OBVIOUS
  <2>1. CASE mapping' = mapping
    BY <2>1
  <2>2. ASSUME NEW r \in Requests, Save(r) PROVE mapping'[u][s] = mapping[u][s]
    <3>1. CASE mapping' = mapping
      BY <3>1
    <3>2. ASSUME NEW v \in req[r].user,
                 mapping' = [mapping EXCEPT ![v] = Inserted(mapping[v], req[r].own, req[r].missing)]
          PROVE  mapping'[u][s] = mapping[u][s]
      BY <3>2, Typed DEF Inserted
    <3> QED
      BY <2>2, <3>1, <3>2 DEF Save
  <2> QED
    BY <2>1, <2>2 DEF DivesNext, SourceFound, SourceCreated, SourceStored, SourcesFail, Restart,
       Begin, SourcesReady, CreateOwn, Leave
<1> QED
  BY <1>1, DivesAlways, PTL DEF DivesSpec, OwnedStays

-----------------------------------------------------------------------------
(* Public links. *)

SharesSpec == SharesInit /\ [][SharesNext]_sharesVars

Row == [dive : Reports, active : BOOLEAN, views : Nat]
Places == [pc : {"away", "found", "session"}, link : Links \cup {0}]

\* The visitors that have a session of link i and no view yet.
Unviewed(i) == {v \in Visitors : visitor[v] = [pc |-> "session", link |-> i]}

\* A Dive has one active link at most.
OneActive ==
    \A i, j \in DOMAIN shares :
        shares[i].active /\ shares[j].active /\ shares[i].dive = shares[j].dive => i = j

SharesInv ==
    /\ shares \in Seq(Row) /\ Len(shares) <= MaxShares
    /\ sessions \in [Links -> 0..MaxVisits] /\ visitor \in [Visitors -> Places]
    /\ onTheWay \in [Links -> SUBSET Visitors]
    /\ \A v \in Visitors : visitor[v] = Away \/ (visitor[v].pc # "away" /\ visitor[v].link \in DOMAIN shares)
    /\ OneActive /\ RevokedLinkDrains
    /\ \A i \in DOMAIN shares : shares[i].views + Cardinality(Unviewed(i)) <= sessions[i]

LEMMA Numbered ==
    ASSUME SharesInv
    PROVE  /\ DOMAIN shares = 1..Len(shares) /\ Len(shares) \in 0..MaxShares
           /\ DOMAIN shares \subseteq Links /\ 0 \notin DOMAIN shares
           /\ \A i \in DOMAIN shares : /\ shares[i] \in Row /\ shares[i].views \in Nat
                                       /\ shares[i].active \in BOOLEAN /\ shares[i].dive \in Reports
<1>1. shares \in Seq(Row) /\ Len(shares) <= MaxShares
  BY DEF SharesInv
<1>2. DOMAIN shares = 1..Len(shares) /\ Len(shares) \in Nat
  BY <1>1, LenProperties
<1>3. \A i \in DOMAIN shares : shares[i] \in Row
  BY <1>1, <1>2, ElementOfSeq
<1> QED
  BY <1>1, <1>2, <1>3, SharesAssumption DEF Row, Links

LEMMA Counted == \A i : IsFiniteSet(Unviewed(i)) /\ Cardinality(Unviewed(i)) \in Nat
<1> TAKE i
<1>1. Unviewed(i) \subseteq Visitors
  BY DEF Unviewed
<1>2. IsFiniteSet(Unviewed(i))
  BY <1>1, FS_Subset, SharesAssumption
<1> QED
  BY <1>2, FS_CardinalityType

LEMMA SharesInitial == SharesInit => SharesInv
<1> SUFFICES ASSUME SharesInit PROVE SharesInv
  OBVIOUS
<1>1. shares \in Seq(Row) /\ Len(shares) = 0 /\ DOMAIN shares = {}
  BY EmptySeq, LenProperties DEF SharesInit
<1>2. sessions \in [Links -> 0..MaxVisits] /\ visitor \in [Visitors -> Places]
      /\ onTheWay \in [Links -> SUBSET Visitors] /\ \A v \in Visitors : visitor[v] = Away
  BY SharesAssumption DEF SharesInit, Places, Away
<1> QED
  BY <1>1, <1>2, SharesAssumption DEF SharesInv, OneActive, RevokedLinkDrains

LEMMA CreateKeeps == ASSUME SharesInv, NEW d \in Reports, CreateDiveShare(d) PROVE SharesInv'
<1>1. UNCHANGED <<sessions, visitor, onTheWay>>
  BY DEF CreateDiveShare
<1>2. CASE shares' = shares
  <2>1. \A i : Unviewed(i)' = Unviewed(i)
    BY <1>1 DEF Unviewed
  <2> QED
    BY <1>1, <1>2, <2>1 DEF SharesInv, OneActive, RevokedLinkDrains
<1>3. CASE shares' # shares
  <2> DEFINE new == [dive |-> d, active |-> TRUE, views |-> 0]
  <2>1. ActiveShares(d) = {} /\ shares' = Append(shares, new) /\ Len(shares) < MaxShares
    BY <1>3 DEF CreateDiveShare, Upserted
  <2>2. shares \in Seq(Row) /\ new \in Row /\ Len(shares) \in Nat
    BY Numbered DEF SharesInv, Row
  <2> PICK n \in Nat : n = Len(shares) + 1
    BY <2>2
  <2>3. /\ shares' \in Seq(Row) /\ Len(shares') = n /\ n <= MaxShares
        /\ DOMAIN shares' = DOMAIN shares \cup {n} /\ n \in Links
        /\ \A i \in DOMAIN shares : shares'[i] = shares[i] /\ i # n
        /\ shares'[n] = new
    <3>1. /\ shares' \in Seq(Row) /\ Len(shares') = n
          /\ \A i \in 1..Len(shares) : shares'[i] = shares[i]
          /\ shares'[n] = new
      BY <2>1, <2>2, AppendProperties
    <3>2. DOMAIN shares' = 1..n /\ DOMAIN shares = 1..Len(shares)
      BY <3>1, <2>2, LenProperties
    <3> QED
      BY <2>1, <2>2, <3>1, <3>2, SharesAssumption DEF Links
  <2>4. \A i : Unviewed(i)' = Unviewed(i)
    BY <1>1 DEF Unviewed
  <2>5. Unviewed(n) = {}
    <3>1. n \notin DOMAIN shares /\ n # 0
      BY <2>2, <2>3
    <3>2. \A v \in Visitors : visitor[v].link # n
      BY <3>1 DEF SharesInv, Away
    <3> QED
      BY <3>2 DEF Unviewed
  <2>6. sessions[n] \in Nat /\ Cardinality(Unviewed(n)) = 0
    <3>1. sessions[n] \in 0..MaxVisits
      BY <2>3 DEF SharesInv
    <3>2. Cardinality({}) = 0
      BY FS_EmptySet
    <3>3. sessions[n] \in Nat
      BY <3>1, SharesAssumption
    <3> QED
      BY <2>5, <3>2, <3>3
  <2>7. \A i \in DOMAIN shares' : shares'[i].views + Cardinality(Unviewed(i))' <= sessions'[i]
    <3> SUFFICES ASSUME NEW i \in DOMAIN shares'
                 PROVE  shares'[i].views + Cardinality(Unviewed(i)) <= sessions[i]
      BY <1>1, <2>4
    <3>1. CASE i = n
      BY <2>3, <2>6, <3>1
    <3>2. CASE i \in DOMAIN shares
      BY <2>3, <3>2 DEF SharesInv
    <3> QED
      BY <2>3, <3>1, <3>2
  <2>8. OneActive'
    BY <2>1, <2>3 DEF SharesInv, OneActive, ActiveShares
  <2>9. RevokedLinkDrains'
    BY <1>1, <2>3 DEF SharesInv, RevokedLinkDrains
  <2>10. \A v \in Visitors : visitor[v] = Away \/ (visitor[v].pc # "away" /\ visitor[v].link \in DOMAIN shares')
    BY <2>3 DEF SharesInv
  <2> QED
    BY <1>1, <2>3, <2>7, <2>8, <2>9, <2>10 DEF SharesInv
<1> QED
  BY <1>2, <1>3

LEMMA RevokeKeeps == ASSUME SharesInv, NEW d \in Reports, RevokeDiveShare(d) PROVE SharesInv'
<1>1. /\ shares' = [i \in DOMAIN shares |-> IF i \in ActiveShares(d)
                                            THEN [shares[i] EXCEPT !.active = FALSE] ELSE shares[i]]
      /\ onTheWay' = [i \in Links |-> IF i \in ActiveShares(d) THEN PastLookUp(i) ELSE onTheWay[i]]
      /\ UNCHANGED <<sessions, visitor>>
  BY DEF RevokeDiveShare
<1>2. \A i \in DOMAIN shares : /\ shares'[i] \in Row /\ shares'[i].views = shares[i].views
                               /\ shares'[i].dive = shares[i].dive
                               /\ i \in ActiveShares(d) => shares'[i].active = FALSE
                               /\ i \notin ActiveShares(d) => shares'[i] = shares[i]
  <2> TAKE i \in DOMAIN shares
  <2>1. shares[i] \in Row
    BY Numbered
  <2>2. shares'[i] = IF i \in ActiveShares(d) THEN [shares[i] EXCEPT !.active = FALSE] ELSE shares[i]
    BY <1>1
  <2> QED
    BY <2>1, <2>2 DEF Row
<1>3. DOMAIN shares' = DOMAIN shares
  BY <1>1
<1>4. shares' \in Seq(Row) /\ Len(shares') = Len(shares)
  <2>1. DOMAIN shares = 1..Len(shares) /\ Len(shares) \in Nat
    BY Numbered
  <2>2. shares' \in [1..Len(shares) -> Row]
    BY <1>1, <1>2, <2>1
  <2>3. shares' \in Seq(Row)
    BY <2>1, <2>2, SeqDef
  <2> QED
    BY <1>3, <2>1, <2>3, LenProperties
<1>5. onTheWay' \in [Links -> SUBSET Visitors]
  BY <1>1 DEF SharesInv, PastLookUp
<1>6. OneActive'
  BY <1>2, <1>3 DEF SharesInv, OneActive
<1>7. RevokedLinkDrains'
  <2> SUFFICES ASSUME NEW v \in Visitors, NEW i \in DOMAIN shares, visitor[v].link = i, ~shares'[i].active
               PROVE  v \in onTheWay'[i]
    BY <1>1, <1>3 DEF RevokedLinkDrains
  <2>1. i \in Links
    BY Numbered
  <2>2. CASE i \in ActiveShares(d)
    BY <1>1, <2>1, <2>2 DEF PastLookUp
  <2>3. CASE i \notin ActiveShares(d)
    BY <1>1, <1>2, <2>1, <2>3 DEF SharesInv, RevokedLinkDrains
  <2> QED
    BY <2>2, <2>3
<1>8. \A i : Unviewed(i)' = Unviewed(i)
  BY <1>1 DEF Unviewed
<1>9. \A i \in DOMAIN shares' : shares'[i].views + Cardinality(Unviewed(i))' <= sessions'[i]
  BY <1>1, <1>2, <1>3, <1>8 DEF SharesInv
<1> QED
  BY <1>1, <1>3, <1>4, <1>5, <1>6, <1>7, <1>9 DEF SharesInv

-----------------------------------------------------------------------------
(* The visitors. *)

(* A visitor that comes or goes changes the sessions of no other link.      *)
LEMMA VisitorMoves ==
    ASSUME SharesInv, NEW v \in Visitors, NEW new \in Places, visitor' = [visitor EXCEPT ![v] = new]
    PROVE  /\ visitor' \in [Visitors -> Places] /\ visitor'[v] = new
           /\ \A w \in Visitors : w # v => visitor'[w] = visitor[w]
           /\ \A i : new # [pc |-> "session", link |-> i] => Unviewed(i)' = Unviewed(i) \ {v}
           /\ \A i : new = [pc |-> "session", link |-> i] => Unviewed(i)' = Unviewed(i) \cup {v}
<1>1. visitor \in [Visitors -> Places]
  BY DEF SharesInv
<1>2. /\ visitor' \in [Visitors -> Places] /\ visitor'[v] = new
      /\ \A w \in Visitors : w # v => visitor'[w] = visitor[w]
  BY <1>1
<1> QED
  BY <1>2 DEF Unviewed

LEMMA AwayFits == Away \in Places /\ \A i : Away # [pc |-> "session", link |-> i]
BY DEF Away, Places

LEMMA FindKeeps ==
    ASSUME SharesInv, NEW v \in Visitors, NEW i \in Links, FindPublicDiveShare(v, i)
    PROVE  SharesInv'
<1> DEFINE new == [pc |-> "found", link |-> i]
<1>1. /\ visitor[v].pc = "away" /\ i \in DOMAIN shares /\ shares[i].active
      /\ visitor' = [visitor EXCEPT ![v] = new] /\ UNCHANGED <<shares, sessions, onTheWay>>
  BY DEF FindPublicDiveShare, Found
<1>2. new \in Places /\ \A j : new # [pc |-> "session", link |-> j]
  BY DEF Places
<1>3. /\ visitor' \in [Visitors -> Places] /\ visitor'[v] = new
      /\ \A w \in Visitors : w # v => visitor'[w] = visitor[w]
      /\ \A j : Unviewed(j)' = Unviewed(j) \ {v}
  BY <1>1, <1>2, VisitorMoves
<1>4. \A j : Unviewed(j)' = Unviewed(j)
  BY <1>1, <1>3 DEF Unviewed
<1>5. RevokedLinkDrains'
  BY <1>1, <1>3 DEF SharesInv, RevokedLinkDrains
<1> QED
  BY <1>1, <1>3, <1>4, <1>5 DEF SharesInv, OneActive

LEMMA SessionKeeps == ASSUME SharesInv, NEW v \in Visitors, CreateSession(v) PROVE SharesInv'
<1> PICK i : i = visitor[v].link
  OBVIOUS
<1> DEFINE new == [pc |-> "session", link |-> i]
<1>1. /\ visitor[v].pc = "found" /\ sessions[i] < MaxVisits
      /\ sessions' = [sessions EXCEPT ![i] = @ + 1] /\ visitor' = [visitor EXCEPT ![v].pc = "session"]
      /\ UNCHANGED <<shares, onTheWay>>
  BY DEF CreateSession
<1>2. visitor[v] \in Places /\ i \in DOMAIN shares /\ i \in Links
  BY <1>1, Numbered DEF SharesInv, Away
<1>3. visitor' = [visitor EXCEPT ![v] = new]
  <2>1. [visitor[v] EXCEPT !.pc = "session"] = new
    BY <1>2 DEF Places
  <2> QED
    BY <1>1, <2>1
<1>4. new \in Places
  BY <1>2 DEF Places
<1>5. /\ visitor' \in [Visitors -> Places] /\ visitor'[v] = new
      /\ \A w \in Visitors : w # v => visitor'[w] = visitor[w]
      /\ \A j : new # [pc |-> "session", link |-> j] => Unviewed(j)' = Unviewed(j) \ {v}
      /\ Unviewed(i)' = Unviewed(i) \cup {v}
  BY <1>3, <1>4, VisitorMoves
<1>6. Unviewed(i)' = Unviewed(i) \cup {v} /\ \A j : j # i => Unviewed(j)' = Unviewed(j)
  <2>1. ASSUME NEW j, j # i PROVE Unviewed(j)' = Unviewed(j)
    <3>1. new # [pc |-> "session", link |-> j]
      BY <2>1
    <3>2. v \notin Unviewed(j)
      BY <1>1 DEF Unviewed
    <3> QED
      BY <1>5, <3>1, <3>2
  <2> QED
    BY <1>5, <2>1
<1>7. Cardinality(Unviewed(i))' <= Cardinality(Unviewed(i)) + 1
  <2>1. Cardinality(Unviewed(i) \cup {v}) \in {Cardinality(Unviewed(i)), Cardinality(Unviewed(i)) + 1}
    BY Counted, FS_AddElement
  <2>2. Cardinality(Unviewed(i)) \in Nat
    BY Counted
  <2> QED
    BY <1>6, <2>1, <2>2
<1>8. /\ sessions' \in [Links -> 0..MaxVisits] /\ sessions'[i] = sessions[i] + 1
      /\ sessions[i] \in Nat /\ \A j \in Links : j # i => sessions'[j] = sessions[j]
  BY <1>1, <1>2, SharesAssumption DEF SharesInv
<1>9. \A j \in DOMAIN shares : shares[j].views + Cardinality(Unviewed(j))' <= sessions'[j]
  <2> SUFFICES ASSUME NEW j \in DOMAIN shares
               PROVE  shares[j].views + Cardinality(Unviewed(j))' <= sessions'[j]
    OBVIOUS
  <2>1. shares[j].views + Cardinality(Unviewed(j)) <= sessions[j] /\ shares[j].views \in Nat /\ j \in Links
    BY Numbered DEF SharesInv
  <2>2. CASE j = i
    <3>1. Cardinality(Unviewed(i)) \in Nat /\ Cardinality(Unviewed(i)') \in Nat
      BY <1>6, Counted, FS_AddElement, FS_CardinalityType
    <3> QED
      BY <1>7, <1>8, <2>1, <2>2, <3>1
  <2>3. CASE j # i
    BY <1>6, <1>8, <2>1, <2>3
  <2> QED
    BY <2>2, <2>3
<1>10. RevokedLinkDrains'
  <2>1. \A w \in Visitors : visitor'[w].link = visitor[w].link
    BY <1>5
  <2> QED
    BY <1>1, <2>1 DEF SharesInv, RevokedLinkDrains
<1>11. \A w \in Visitors : visitor'[w] = Away \/ (visitor'[w].pc # "away" /\ visitor'[w].link \in DOMAIN shares)
  <2>1. visitor'[v].pc # "away" /\ visitor'[v].link \in DOMAIN shares
    BY <1>2, <1>5
  <2> QED
    BY <1>5, <2>1 DEF SharesInv
<1> QED
  BY <1>1, <1>5, <1>8, <1>9, <1>10, <1>11 DEF SharesInv, OneActive

(* A visitor that goes away, having been counted or not.                    *)
Goes(v, i) ==
    /\ i = visitor[v].link /\ visitor[v].pc # "away"
    /\ visitor' = [visitor EXCEPT ![v] = Away]
    /\ onTheWay' = [onTheWay EXCEPT ![i] = @ \ {v}] /\ UNCHANGED sessions

LeavesRow(v, i, row) ==
    /\ row.dive = shares[i].dive /\ row.active = shares[i].active
    /\ row.views = shares[i].views \/ (row.views = shares[i].views + 1 /\ visitor[v].pc = "session")
    /\ shares' = [shares EXCEPT ![i] = row]

LEMMA VisitorGoes ==
    ASSUME SharesInv, NEW v \in Visitors, NEW i, NEW row \in Row, Goes(v, i), LeavesRow(v, i, row)
    PROVE  SharesInv'
<1> USE DEF Goes, LeavesRow
<1>1. i \in DOMAIN shares /\ i \in Links
  BY Numbered DEF SharesInv, Away
<1>2. /\ visitor' \in [Visitors -> Places] /\ visitor'[v] = Away
      /\ \A w \in Visitors : w # v => visitor'[w] = visitor[w]
      /\ \A j : Unviewed(j)' = Unviewed(j) \ {v}
  <2>1. Away \in Places
    BY AwayFits
  <2>2. /\ visitor' \in [Visitors -> Places] /\ visitor'[v] = Away
        /\ \A w \in Visitors : w # v => visitor'[w] = visitor[w]
        /\ \A j : Away # [pc |-> "session", link |-> j] => Unviewed(j)' = Unviewed(j) \ {v}
    BY <2>1, VisitorMoves
  <2> QED
    BY <2>2, AwayFits
<1>3. /\ shares' \in Seq(Row) /\ Len(shares') = Len(shares) /\ DOMAIN shares' = DOMAIN shares
      /\ shares'[i] = row /\ \A j \in DOMAIN shares : j # i => shares'[j] = shares[j]
  <2>1. shares \in Seq(Row) /\ i \in 1..Len(shares) /\ DOMAIN shares = 1..Len(shares)
    BY <1>1, Numbered DEF SharesInv
  <2> QED
    BY <2>1, ExceptSeq, LenProperties
<1>4. onTheWay' \in [Links -> SUBSET Visitors] /\ \A j \in Links : onTheWay[j] \ {v} \subseteq onTheWay'[j]
  BY <1>1 DEF SharesInv
<1>5. \A j \in DOMAIN shares : /\ shares'[j].active = shares[j].active /\ shares'[j].dive = shares[j].dive
  BY <1>3
<1>6. OneActive'
  BY <1>3, <1>5 DEF SharesInv, OneActive
<1>7. RevokedLinkDrains'
  <2> SUFFICES ASSUME NEW w \in Visitors, NEW j \in DOMAIN shares, visitor'[w].link = j, ~shares[j].active
               PROVE  w \in onTheWay'[j]
    BY <1>3, <1>5 DEF RevokedLinkDrains
  <2>1. w # v /\ j \in Links
    BY <1>2, Numbered DEF Away
  <2>2. w \in onTheWay[j]
    BY <1>2, <2>1 DEF SharesInv, RevokedLinkDrains
  <2> QED
    BY <1>4, <2>1, <2>2
<1>8. \A j \in DOMAIN shares : shares'[j].views + Cardinality(Unviewed(j))' <= sessions[j]
  <2> SUFFICES ASSUME NEW j \in DOMAIN shares
               PROVE  shares'[j].views + Cardinality(Unviewed(j) \ {v}) <= sessions[j]
    BY <1>2
  <2>1. /\ shares[j].views + Cardinality(Unviewed(j)) <= sessions[j]
        /\ shares[j].views \in Nat /\ sessions[j] \in Nat
    BY Numbered, SharesAssumption DEF SharesInv
  <2>2. /\ Cardinality(Unviewed(j)) \in Nat /\ Cardinality(Unviewed(j) \ {v}) \in Nat
        /\ Cardinality(Unviewed(j) \ {v}) = IF v \in Unviewed(j) THEN Cardinality(Unviewed(j)) - 1
                                                                ELSE Cardinality(Unviewed(j))
    BY Counted, FS_RemoveElement, FS_CardinalityType
  <2>3. CASE shares'[j].views = shares[j].views
    BY <2>1, <2>2, <2>3
  <2>4. CASE j = i /\ row.views = shares[i].views + 1 /\ visitor[v].pc = "session"
    <3>1. visitor[v] = [pc |-> "session", link |-> i]
      BY <2>4 DEF SharesInv, Places
    <3>2. v \in Unviewed(j)
      BY <2>4, <3>1 DEF Unviewed
    <3> QED
      BY <1>3, <2>1, <2>2, <2>4, <3>2
  <2> QED
    BY <1>3, <2>3, <2>4
<1>9. \A w \in Visitors : visitor'[w] = Away \/ (visitor'[w].pc # "away" /\ visitor'[w].link \in DOMAIN shares)
  BY <1>2 DEF SharesInv
<1> QED
  BY <1>2, <1>3, <1>4, <1>6, <1>7, <1>8, <1>9 DEF SharesInv

LEMMA ViewKeeps == ASSUME SharesInv, NEW v \in Visitors, RecordDiveShareView(v) PROVE SharesInv'
<1> PICK i : i = visitor[v].link
  OBVIOUS
<1>1. /\ visitor[v].pc = "session" /\ shares' = [shares EXCEPT ![i] = Counts(shares[i])]
      /\ visitor' = [visitor EXCEPT ![v] = Away] /\ onTheWay' = [onTheWay EXCEPT ![i] = @ \ {v}]
      /\ UNCHANGED sessions
  BY DEF RecordDiveShareView
<1>2. i \in DOMAIN shares /\ shares[i] \in Row
  BY <1>1, Numbered DEF SharesInv, Away
<1> DEFINE row == Counts(shares[i])
<1>3. /\ row \in Row /\ row.dive = shares[i].dive /\ row.active = shares[i].active
      /\ row.views = shares[i].views \/ (row.views = shares[i].views + 1 /\ visitor[v].pc = "session")
  BY <1>1, <1>2 DEF Row, Counts, Viewed
<1> HIDE DEF row
<1>4. shares' = [shares EXCEPT ![i] = row]
  BY <1>1 DEF row
<1>5. visitor[v].pc # "away"
  BY <1>1
<1>6. Goes(v, i)
  BY <1>1, <1>5 DEF Goes
<1>7. LeavesRow(v, i, row)
  BY <1>3, <1>4 DEF LeavesRow
<1> QED
  BY <1>3, <1>6, <1>7, VisitorGoes

LEMMA EndKeeps == ASSUME SharesInv, NEW v \in Visitors, VisitEnds(v) PROVE SharesInv'
<1> PICK i : i = visitor[v].link
  OBVIOUS
<1>1. /\ visitor[v].pc # "away" /\ visitor' = [visitor EXCEPT ![v] = Away]
      /\ onTheWay' = [onTheWay EXCEPT ![i] = @ \ {v}] /\ UNCHANGED <<shares, sessions>>
  BY DEF VisitEnds
<1>2. i \in DOMAIN shares /\ shares[i] \in Row
  BY <1>1, Numbered DEF SharesInv, Away
<1>3. shares' = [shares EXCEPT ![i] = shares[i]]
  BY <1>1, Numbered DEF SharesInv
<1>4. Goes(v, i)
  BY <1>1 DEF Goes
<1>5. LeavesRow(v, i, shares[i])
  BY <1>3 DEF LeavesRow
<1> QED
  BY <1>2, <1>4, <1>5, VisitorGoes

LEMMA SharesKept == SharesInv /\ [SharesNext]_sharesVars => SharesInv'
<1> SUFFICES ASSUME SharesInv, [SharesNext]_sharesVars PROVE SharesInv'
  OBVIOUS
<1>1. CASE UNCHANGED sharesVars
  <2>1. UNCHANGED <<shares, sessions, visitor, onTheWay>> /\ \A i : Unviewed(i)' = Unviewed(i)
    BY <1>1 DEF sharesVars, Unviewed
  <2> QED
    BY <2>1 DEF SharesInv, OneActive, RevokedLinkDrains
<1> QED
  BY <1>1, CreateKeeps, RevokeKeeps, FindKeeps, SessionKeeps, ViewKeeps, EndKeeps DEF SharesNext

LEMMA SharesAlways == SharesSpec => []SharesInv
<1> QED
  BY SharesInitial, SharesKept, PTL DEF SharesSpec

(* For every number of visitors on their way: a Dive has one active link, a    *)
(* revoked link serves only those that had looked it up before, and a view     *)
(* stands for a session of its own.                                            *)
THEOREM LinksStayDrained == SharesSpec => []LinksDrain
<1>1. SharesInv => LinksDrain
  <2> SUFFICES ASSUME SharesInv PROVE LinksDrain
    OBVIOUS
  <2>1. ASSUME NEW d \in Reports PROVE Cardinality(ActiveShares(d)) <= 1
    <3>1. CASE ActiveShares(d) = {}
      BY <3>1, FS_EmptySet
    <3>2. CASE ActiveShares(d) # {}
      <4>1. PICK i : i \in ActiveShares(d)
        BY <3>2
      <4>2. ActiveShares(d) = {i}
        BY <4>1 DEF SharesInv, OneActive, ActiveShares
      <4> QED
        BY <4>2, FS_Singleton
    <3> QED
      BY <3>1, <3>2
  <2>2. \A v \in Visitors : visitor[v].link \in 0..Len(shares)
    BY Numbered DEF SharesInv, Away
  <2>3. visitor \in [Visitors -> [pc : {"away", "found", "session"}, link : 0..Len(shares)]]
    BY <2>2 DEF SharesInv, Places
  <2> QED
    BY <2>1, <2>3 DEF SharesInv, LinksDrain, SharesTypeOK, ViewsHaveSessions, Unviewed, Row
<1> QED
  BY <1>1, SharesAlways, PTL

(* A revoked link is never active again and its views stand still: a new link  *)
(* of the Dive has a row of its own.                                           *)
THEOREM RevokedLinksStand == SharesSpec => RevokedLinkStands
<1>1. SharesInv /\ [SharesNext]_sharesVars =>
        [\A i \in DOMAIN shares : ~shares[i].active => shares'[i] = shares[i]]_sharesVars
  <2> SUFFICES ASSUME SharesInv, SharesNext, NEW i \in DOMAIN shares, ~shares[i].active
               PROVE  shares'[i] = shares[i]
    OBVIOUS
  <2>1. shares \in Seq(Row) /\ DOMAIN shares = 1..Len(shares)
    BY Numbered DEF SharesInv
  <2>2. ASSUME NEW d \in Reports, CreateDiveShare(d) PROVE shares'[i] = shares[i]
    <3>1. [dive |-> d, active |-> TRUE, views |-> 0] \in Row
      BY DEF Row
    <3> QED
      BY <2>1, <2>2, <3>1, AppendProperties DEF CreateDiveShare, Upserted
  <2>3. ASSUME NEW d \in Reports, RevokeDiveShare(d) PROVE shares'[i] = shares[i]
    BY <2>3 DEF RevokeDiveShare, ActiveShares
  <2>4. ASSUME NEW v \in Visitors, RecordDiveShareView(v) PROVE shares'[i] = shares[i]
    BY <2>4 DEF RecordDiveShareView, Counts
  <2> QED
    BY <2>2, <2>3, <2>4 DEF SharesNext, FindPublicDiveShare, CreateSession, VisitEnds
<1> QED
  BY <1>1, SharesAlways, PTL DEF SharesSpec, RevokedLinkStands
-----------------------------------------------------------------------------
(* The Edit Lab.                                                            *)

LabSpec == SharesInit /\ LabInit /\ [][LabNext]_<<sharesVars, labVars>>

Calls == [kind : {"none", "refresh", "publish", "revoke", "revert"}, report : Reports \cup {NoReport},
          version : Unserved..MaxVersion, link : Unserved..MaxShares, restored : BOOLEAN]

\* What an answer says is of the Dive it was asked for.
CallFits(c) ==
    /\ c.link <= Len(shares)
    /\ c.kind # "none" => c.report \in Reports
    /\ c.link \in DOMAIN shares => shares[c.link].dive = c.report
    /\ c.kind = "refresh" /\ c.link # Unserved => c.version \in 1..version[c.report]

LabTyped ==
    /\ version \in [Reports -> 1..MaxVersion]
    /\ opened \in Reports \cup {NoReport} /\ embed \in Reports \cup {NoReport}
    /\ link \in 0..Len(shares) /\ known \in [Reports -> 0..MaxVersion]
    /\ call \in [Slots -> Calls]
    /\ busy \subseteq {"refreshing", "sharing", "reverting"}
    /\ panel \in [Reports -> [pc : {"none", "sent", "applied"}, expected : 0..MaxVersion]]
    /\ crossed \in BOOLEAN /\ missed \in BOOLEAN
    /\ \A d \in Reports : known[d] <= version[d]
    /\ \A s \in Slots : CallFits(call[s])

\* Nothing crossed: one request at most is under way, for the Dive that is open.
OneForOpened ==
    ~crossed =>
        /\ embed \in {NoReport, opened}
        /\ link # 0 => shares[link].dive = opened
        /\ \A s \in UnderWay : call[s].report = opened
        /\ \A r, s \in UnderWay : r = s

\* And no answer was lost: the next answer, or the screen, has the active link.
LinkIsCurrent ==
    ~crossed /\ ~missed /\ opened # NoReport =>
        /\ \A s \in UnderWay : call[s].kind # "revert" /\ call[s].link # Unserved =>
                                   call[s].link = LinkOf(opened)
        /\ UnderWay = {} => link = LinkOf(opened)

LabInv == LabTyped /\ OneForOpened /\ LinkIsCurrent

LEMMA LabNumbers ==
    /\ MaxVersion \in Nat /\ MaxShares \in Nat /\ FirstVersion \in 1..MaxVersion
    /\ NoReport \notin Reports /\ Unserved = -1
  <1> QED
    BY LabAssumption, SharesAssumption DEF Unserved

\* The active link of a Dive, if it has one, is a link of that Dive.
LEMMA LinkOfIs ==
    ASSUME SharesInv, NEW d \in Reports
    PROVE  /\ LinkOf(d) \in 0..Len(shares)
           /\ LinkOf(d) \in DOMAIN shares => shares[LinkOf(d)].dive = d
           /\ LinkOf(d) # 0 => LinkOf(d) \in DOMAIN shares
           /\ ActiveShares(d) # {} => LinkOf(d) \in ActiveShares(d)
           /\ \A i \in ActiveShares(d) : LinkOf(d) = i
  <1>1. DOMAIN shares = 1..Len(shares) /\ Len(shares) \in Nat
    BY Numbered
  <1>2. CASE ActiveShares(d) = {}
    BY <1>1, <1>2 DEF LinkOf
  <1>3. CASE ActiveShares(d) # {}
    <2>1. LinkOf(d) \in ActiveShares(d)
      BY <1>3 DEF LinkOf
    <2>2. \A i \in ActiveShares(d) : LinkOf(d) = i
      BY <2>1 DEF SharesInv, OneActive, ActiveShares
    <2> QED
      BY <1>1, <2>1, <2>2 DEF ActiveShares
  <1> QED
    BY <1>2, <1>3

\* A publication makes the active link of its Dive, or finds it.
LEMMA PublishedLink ==
    ASSUME SharesInv, NEW d \in Reports, CreateDiveShare(d)
    PROVE  /\ LinkOf(d)' = (IF ActiveShares(d) = {} THEN Len(shares) + 1 ELSE LinkOf(d))
           /\ Len(shares) <= Len(shares') /\ LinkOf(d)' \in DOMAIN shares'
           /\ \A i \in DOMAIN shares : i \in DOMAIN shares' /\ shares'[i] = shares[i]
  <1>0. SharesInv' /\ Len(shares) \in Nat
    BY CreateKeeps, Numbered
  <1>1. CASE ActiveShares(d) # {}
    <2>1. shares' = shares
      BY <1>1 DEF CreateDiveShare, Upserted
    <2> QED
      BY <1>0, <1>1, <2>1, LinkOfIs DEF LinkOf, ActiveShares
  <1>2. CASE ActiveShares(d) = {}
    <2> DEFINE new == [dive |-> d, active |-> TRUE, views |-> 0]
               n == Len(shares) + 1
    <2>1. shares' = Append(shares, new) /\ shares \in Seq(Row) /\ new \in Row
      BY <1>2 DEF CreateDiveShare, Upserted, SharesInv, Row
    <2>2. /\ Len(shares') = n /\ shares'[n] = new
          /\ \A i \in 1..Len(shares) : shares'[i] = shares[i]
      BY <2>1, AppendProperties
    <2>3. DOMAIN shares' = 1..n /\ DOMAIN shares = 1..Len(shares)
      BY <1>0, <2>1, <2>2, AppendProperties, LenProperties
    <2>4. n \in ActiveShares(d)'
      BY <1>0, <2>2, <2>3 DEF ActiveShares
    <2>5. LinkOf(d)' = n
      <3>1. PICK i : i = LinkOf(d)'
        OBVIOUS
      <3>2. i \in ActiveShares(d)'
        BY <2>4, <3>1 DEF LinkOf
      <3> QED
        BY <1>0, <2>4, <3>1, <3>2 DEF SharesInv, OneActive, ActiveShares
    <2> QED
      BY <1>0, <1>2, <2>2, <2>3, <2>5
  <1> QED
    BY <1>1, <1>2

\* A revocation leaves the Dive without an active link.
LEMMA RevokedLink ==
    ASSUME SharesInv, NEW d \in Reports, RevokeDiveShare(d)
    PROVE  /\ LinkOf(d)' = 0 /\ Len(shares) = Len(shares') /\ DOMAIN shares' = DOMAIN shares
           /\ \A i \in DOMAIN shares : shares'[i].dive = shares[i].dive
  <1>0. SharesInv' /\ DOMAIN shares = 1..Len(shares) /\ Len(shares) \in Nat
    BY RevokeKeeps, Numbered
  <1>1. shares' = [i \in DOMAIN shares |-> IF i \in ActiveShares(d)
                                          THEN [shares[i] EXCEPT !.active = FALSE] ELSE shares[i]]
    BY DEF RevokeDiveShare
  <1>2. DOMAIN shares' = DOMAIN shares /\ Len(shares') = Len(shares)
    <2>1. shares' \in Seq(Row) /\ DOMAIN shares' = DOMAIN shares
      BY <1>0, <1>1 DEF SharesInv
    <2> QED
      BY <1>0, <2>1, LenProperties
  <1>3. ASSUME NEW i \in DOMAIN shares
        PROVE  shares'[i].dive = shares[i].dive /\ (shares'[i].dive = d => shares'[i].active = FALSE)
    <2>1. shares[i] \in Row
      BY Numbered
    <2>2. shares'[i] = IF i \in ActiveShares(d) THEN [shares[i] EXCEPT !.active = FALSE] ELSE shares[i]
      BY <1>1
    <2> QED
      BY <2>1, <2>2 DEF Row, ActiveShares
  <1>4. ActiveShares(d)' = {}
    BY <1>2, <1>3 DEF ActiveShares
  <1> QED
    BY <1>2, <1>3, <1>4 DEF LinkOf
LEMMA LabInitial == SharesInit /\ LabInit => SharesInv /\ LabInv
  <1> SUFFICES ASSUME SharesInit, LabInit PROVE SharesInv /\ LabInv
    OBVIOUS
  <1>1. SharesInv
    BY SharesInitial
  <1>2. NoCall \in Calls /\ NoCall.kind = "none" /\ NoCall.link = Unserved
    BY LabNumbers DEF NoCall, Calls
  <1>3. Len(shares) \in Nat /\ DOMAIN shares = 1..Len(shares)
    BY <1>1, Numbered
  <1>4. CallFits(NoCall)
    BY <1>2, <1>3, LabNumbers DEF CallFits
  <1>5. version \in [Reports -> 1..MaxVersion] /\ known \in [Reports -> 0..MaxVersion]
        /\ \A d \in Reports : known[d] <= version[d]
    BY LabNumbers DEF LabInit
  <1>6. panel \in [Reports -> [pc : {"none", "sent", "applied"}, expected : 0..MaxVersion]]
    BY LabNumbers DEF LabInit, NoEdit
  <1>7. LabTyped
    <2>1. call \in [Slots -> Calls] /\ \A s \in Slots : CallFits(call[s])
      BY <1>2, <1>4 DEF LabInit
    <2>2. link = 0 /\ crossed \in BOOLEAN /\ missed \in BOOLEAN
      BY Zenon DEF LabInit
    <2> QED
      BY <1>3, <1>5, <1>6, <2>1, <2>2 DEF LabInit, LabTyped
  <1>8. UnderWay = {}
    BY <1>2 DEF LabInit, UnderWay
  <1> QED
    BY <1>1, <1>7, <1>8 DEF LabInit, LabInv, OneForOpened, LinkIsCurrent

\* The record of a call without an answer.
NewCall(kind, d, again) ==
    [kind |-> kind, report |-> d, version |-> Unserved, link |-> Unserved, restored |-> again]

LEMMA CallSent ==
    ASSUME NEW s \in Slots, NEW d, NEW kind, Send(s, kind, d)
    PROVE  call[s].kind = "none" /\ call' = [call EXCEPT ![s] = NewCall(kind, d, FALSE)]
  <1>1. ASSUME NEW w, w = [NoCall EXCEPT !.kind = kind, !.report = d]
        PROVE  w = NewCall(kind, d, FALSE)
    BY <1>1 DEF NoCall, NewCall
  <1> QED
    BY <1>1 DEF Send

LEMMA CallResent ==
    ASSUME NEW s \in Slots, RevertArrives(s)
    PROVE  call' = [call EXCEPT ![s] = NewCall("refresh", call[s].report, TRUE)]
  <1>1. ASSUME NEW w, w = [NoCall EXCEPT !.kind = "refresh", !.report = call[s].report,
                                         !.restored = TRUE]
        PROVE  w = NewCall("refresh", call[s].report, TRUE)
    BY <1>1 DEF NoCall, NewCall
  <1> QED
    BY <1>1 DEF RevertArrives

\* A call is made: it is under way from now on, and has no answer.
LEMMA CallMade ==
    ASSUME SharesInv, LabTyped, NEW s \in Slots, NEW d \in Reports,
           NEW kind \in {"refresh", "publish", "revoke", "revert"}, NEW again \in BOOLEAN,
           call' = [call EXCEPT ![s] = NewCall(kind, d, again)]
    PROVE  /\ call' \in [Slots -> Calls]
           /\ call'[s].kind = kind /\ call'[s].report = d /\ call'[s].link = Unserved
           /\ \A r \in Slots : r # s => call'[r] = call[r]
           /\ UnderWay' = UnderWay \cup {s}
           /\ \A r \in Slots : CallFits(call'[r])
  <1> DEFINE new == NewCall(kind, d, again)
  <1>1. new \in Calls /\ new.kind = kind /\ new.report = d /\ new.link = Unserved
    BY LabNumbers DEF Calls, NewCall
  <1>3. call' = [call EXCEPT ![s] = new] /\ call \in [Slots -> Calls]
    BY DEF LabTyped
  <1> HIDE DEF new
  <1>4. call' \in [Slots -> Calls] /\ call'[s] = new /\ \A r \in Slots : r # s => call'[r] = call[r]
    BY <1>1, <1>3
  <1>5. UnderWay' = UnderWay \cup {s}
    BY <1>1, <1>4 DEF UnderWay
  <1>6. CallFits(new)
    BY <1>1, LabNumbers, Numbered DEF CallFits
  <1>7. \A r \in Slots : CallFits(call'[r])
    BY <1>4, <1>6 DEF LabTyped
  <1> QED
    BY <1>1, <1>4, <1>5, <1>7

\* A request for the Dive that is open, the only one, crosses nothing.
LEMMA SendsKeep ==
    ASSUME SharesInv, LabInv, NEW s \in Slots, NEW d \in Reports,
           NEW kind \in {"refresh", "publish", "revoke", "revert"}, SendHere(s, kind, d),
           UNCHANGED <<shares, version, viewVars, missed>>,
           busy' \subseteq {"refreshing", "sharing", "reverting"},
           panel' \in [Reports -> [pc : {"none", "sent", "applied"}, expected : 0..MaxVersion]]
    PROVE  LabInv'
  <1>i. LabTyped /\ OneForOpened /\ LinkIsCurrent
    BY DEF LabInv
  <1>1. /\ call' \in [Slots -> Calls]
        /\ call'[s].kind = kind /\ call'[s].report = d /\ call'[s].link = Unserved
        /\ \A r \in Slots : r # s => call'[r] = call[r]
        /\ UnderWay' = UnderWay \cup {s}
        /\ \A r \in Slots : CallFits(call'[r])
    <2>1. call' = [call EXCEPT ![s] = NewCall(kind, d, FALSE)]
      BY CallSent DEF SendHere
    <2> QED
      BY <1>i, <2>1, CallMade
  <1>2. /\ crossed' = (crossed \/ UnderWay # {} \/ d # opened)
        /\ UNCHANGED <<opened, embed, link, known>>
    BY DEF SendHere, viewVars
  <1>3. LabTyped'
    <2>1. \A r \in Slots : CallFits(call[r])'
      BY <1>1 DEF CallFits
    <2>2. crossed' \in BOOLEAN
      BY <1>2
    <2> QED
      BY <1>i, <1>1, <1>2, <2>1, <2>2 DEF LabTyped
  <1>4. ~crossed' => ~crossed /\ UnderWay = {} /\ d = opened
    BY <1>2
  <1>5. OneForOpened'
    BY <1>i, <1>1, <1>2, <1>4 DEF OneForOpened
  <1>6. LinkIsCurrent'
    <2> SUFFICES ASSUME ~crossed'
                 PROVE  /\ \A r \in UnderWay' : call'[r].link = Unserved
                        /\ UnderWay' # {}
      BY DEF LinkIsCurrent
    <2> QED
      BY <1>1, <1>4
  <1> QED
    BY <1>3, <1>5, <1>6 DEF LabInv

LEMMA OpenKeeps ==
    ASSUME SharesInv, LabInv, NEW s \in Slots, NEW d \in Reports, Open(s, d)
    PROVE  LabInv'
  <1>i. LabTyped
    BY DEF LabInv
  <1>1. /\ call' \in [Slots -> Calls]
        /\ call'[s].kind = "refresh" /\ call'[s].report = d /\ call'[s].link = Unserved
        /\ \A r \in Slots : r # s => call'[r] = call[r]
        /\ UnderWay' = UnderWay \cup {s}
        /\ \A r \in Slots : CallFits(call'[r])
    <2>1. call' = [call EXCEPT ![s] = NewCall("refresh", d, FALSE)]
      BY CallSent DEF Open
    <2> QED
      BY <1>i, <2>1, CallMade
  <1>2. /\ opened' = d /\ embed' = NoReport /\ link' = 0 /\ busy' = busy \cup {"refreshing"}
        /\ crossed' = (UnderWay # {}) /\ missed' = FALSE
        /\ UNCHANGED <<shares, version, known, panel>>
    BY DEF Open, sharesVars
  <1>3. LabTyped'
    <2>1. \A r \in Slots : CallFits(call[r])'
      BY <1>1, <1>2 DEF CallFits
    <2>2. crossed' \in BOOLEAN /\ 0 \in 0..Len(shares)
      BY <1>2, Numbered
    <2> QED
      BY <1>i, <1>1, <1>2, <2>1, <2>2 DEF LabTyped
  <1>4. ~crossed' => UnderWay = {}
    BY <1>2
  <1>5. OneForOpened' /\ LinkIsCurrent'
    BY <1>1, <1>2, <1>4 DEF OneForOpened, LinkIsCurrent
  <1> QED
    BY <1>3, <1>5 DEF LabInv
Panels == [Reports -> [pc : {"none", "sent", "applied"}, expected : 0..MaxVersion]]

\* Edits change what the server has and not what is shown.
LEMMA EditsKeep ==
    ASSUME SharesInv, LabInv, UNCHANGED <<shares, call, viewVars, busy, crossed, missed>>,
           version' \in [Reports -> 1..MaxVersion], \A d \in Reports : version[d] <= version'[d],
           panel' \in Panels
    PROVE  LabInv'
  <1>i. LabTyped /\ OneForOpened /\ LinkIsCurrent
    BY DEF LabInv
  <1>1. UNCHANGED <<opened, embed, link, known>>
    BY DEF viewVars
  <1>v. \A d \in Reports : version[d] \in 1..MaxVersion /\ version'[d] \in 1..MaxVersion
                           /\ known[d] \in 0..MaxVersion /\ known[d] <= version[d]
    BY <1>i DEF LabTyped
  <1>2. \A s \in Slots : CallFits(call[s])'
    <2> SUFFICES ASSUME NEW s \in Slots PROVE CallFits(call[s])'
      OBVIOUS
    <2>1. CallFits(call[s]) /\ call[s].version \in Unserved..MaxVersion
      BY <1>i DEF LabTyped, Calls
    <2>2. ASSUME call[s].kind = "refresh", call[s].link # Unserved
          PROVE  call[s].version \in 1..version'[call[s].report]
      <3>1. call[s].report \in Reports /\ call[s].version \in 1..version[call[s].report]
        BY <2>1, <2>2 DEF CallFits
      <3>2. version[call[s].report] \in Nat /\ version'[call[s].report] \in Nat
            /\ version[call[s].report] <= version'[call[s].report]
        BY <1>v, <3>1, LabNumbers
      <3> QED
        BY <3>1, <3>2
    <2> QED
      BY <2>1, <2>2 DEF CallFits
  <1>3. \A d \in Reports : known'[d] <= version'[d]
    <2> SUFFICES ASSUME NEW d \in Reports PROVE known[d] <= version'[d]
      BY <1>1
    <2>1. known[d] \in Nat /\ version[d] \in Nat /\ version'[d] \in Nat
      BY <1>v, LabNumbers
    <2> QED
      BY <1>v, <2>1
  <1>4. LabTyped'
    BY <1>i, <1>1, <1>2, <1>3 DEF LabTyped, Panels
  <1>5. UnderWay' = UnderWay /\ LinkOf(opened)' = LinkOf(opened)
    BY <1>1 DEF UnderWay, LinkOf, ActiveShares
  <1>6. OneForOpened'
    BY <1>i, <1>1, <1>5 DEF OneForOpened
  <1>7. LinkIsCurrent'
    BY <1>i, <1>1, <1>5 DEF LinkIsCurrent
  <1> QED
    BY <1>4, <1>6, <1>7 DEF LabInv

\* The server answers a call: with the active link, unless it was a revert.
LEMMA ServesKeep ==
    ASSUME SharesInv, SharesInv', LabInv, NEW s \in UnderWay, NEW new \in Calls,
           call' = [call EXCEPT ![s] = new],
           new.kind = call[s].kind, new.report = call[s].report,
           new.link <= Len(shares'), new.link \in DOMAIN shares' => shares'[new.link].dive = new.report,
           new.kind = "refresh" => new.version \in 1..version'[new.report],
           new.kind # "revert" => new.link = LinkOf(new.report)',
           Len(shares) <= Len(shares'),
           \A i \in DOMAIN shares : i \in DOMAIN shares' /\ shares'[i].dive = shares[i].dive,
           version' \in [Reports -> 1..MaxVersion], \A d \in Reports : version[d] <= version'[d],
           UNCHANGED <<viewVars, busy, panel, crossed, missed>>
    PROVE  LabInv'
  <1>i. LabTyped /\ OneForOpened /\ LinkIsCurrent
    BY DEF LabInv
  <1>1. UNCHANGED <<opened, embed, link, known>> /\ s \in Slots /\ call[s].kind # "none"
    BY DEF viewVars, UnderWay
  <1>v. \A d \in Reports : version[d] \in Nat /\ version'[d] \in Nat
                           /\ known[d] \in Nat /\ known[d] <= version[d]
    BY SMTT(40), <1>i, LabNumbers DEF LabTyped
  <1>n. /\ DOMAIN shares = 1..Len(shares) /\ Len(shares) \in Nat
        /\ DOMAIN shares' = 1..Len(shares') /\ Len(shares') \in Nat
    <2>1. shares \in Seq(Row) /\ shares' \in Seq(Row)
      BY DEF SharesInv, Row
    <2> QED
      BY <2>1, LenProperties
  <1>2. /\ call' \in [Slots -> Calls] /\ call'[s] = new
        /\ \A r \in Slots : r # s => call'[r] = call[r]
    BY <1>i, <1>1 DEF LabTyped
  <1>3. UnderWay' = UnderWay
    BY <1>1, <1>2 DEF UnderWay
  <1>4. \A r \in Slots : CallFits(call[r])'
    <2> SUFFICES ASSUME NEW r \in Slots PROVE CallFits(call[r])'
      OBVIOUS
    <2>0. CallFits(call[r]) /\ call[r].version \in Unserved..MaxVersion
          /\ call[r].link \in Unserved..MaxShares
      BY <1>i DEF LabTyped, Calls
    <2>1. CASE r = s
      <3>1. call[s].report \in Reports
        BY <1>1, <2>0, <2>1 DEF CallFits
      <3> QED
        BY <1>2, <2>1, <3>1 DEF CallFits
    <2>2. CASE r # s
      <3>1. call'[r] = call[r]
        BY <1>2, <2>2
      <3>2. call[r].link <= Len(shares')
        BY <1>n, <2>0, LabNumbers DEF CallFits
      <3>3. call[r].link \in DOMAIN shares' => shares'[call[r].link].dive = call[r].report
        <4>1. call[r].link \in DOMAIN shares' => call[r].link \in DOMAIN shares
          BY <1>n, <2>0, LabNumbers DEF CallFits
        <4> QED
          BY <2>0, <4>1 DEF CallFits
      <3>4. call[r].kind = "refresh" /\ call[r].link # Unserved =>
                call[r].version \in 1..version'[call[r].report]
        <4> SUFFICES ASSUME call[r].kind = "refresh", call[r].link # Unserved
                     PROVE  call[r].version \in 1..version'[call[r].report]
          OBVIOUS
        <4>1. call[r].report \in Reports /\ call[r].version \in 1..version[call[r].report]
          BY <2>0 DEF CallFits
        <4>2. version[call[r].report] \in Nat /\ version'[call[r].report] \in Nat
              /\ version[call[r].report] <= version'[call[r].report]
          BY <1>v, <4>1
        <4> QED
          BY <4>1, <4>2
      <3> QED
        BY <2>0, <3>1, <3>2, <3>3, <3>4 DEF CallFits
    <2> QED
      BY <2>1, <2>2
  <1>5. LabTyped'
    <2>1. \A d \in Reports : known'[d] <= version'[d]
      <3> SUFFICES ASSUME NEW d \in Reports PROVE known[d] <= version'[d]
        BY <1>1
      <3> QED
        BY <1>v
    <2>2. link \in 0..Len(shares')
      BY <1>i, <1>n DEF LabTyped
    <2> QED
      BY <1>i, <1>1, <1>2, <1>4, <2>1, <2>2 DEF LabTyped
  <1>6. OneForOpened'
    <2>1. \A r \in UnderWay : call'[r].report = call[r].report
      BY <1>2 DEF UnderWay
    <2>2. link # 0 => shares'[link].dive = shares[link].dive
      BY <1>i, <1>n DEF LabTyped
    <2> QED
      BY <1>i, <1>1, <1>3, <2>1, <2>2 DEF OneForOpened
  <1>7. LinkIsCurrent'
    <2> SUFFICES ASSUME ~crossed, NEW r \in UnderWay, call'[r].kind # "revert"
                 PROVE  call'[r].link = LinkOf(opened)'
      BY <1>1, <1>3 DEF LinkIsCurrent
    <2>1. r = s /\ call[s].report = opened
      BY <1>i DEF OneForOpened
    <2> QED
      BY <1>1, <1>2, <2>1 DEF LinkOf, ActiveShares
  <1> QED
    BY <1>5, <1>6, <1>7 DEF LabInv

\* An answer arrives, or is lost.
LEMMA ArrivalsKeep ==
    ASSUME SharesInv, LabInv, NEW s \in UnderWay, Over(s),
           UNCHANGED <<shares, version, opened, panel, crossed>>,
           busy' \subseteq {"refreshing", "sharing", "reverting"},
           embed' \in {embed, call[s].report},
           link' \in {link, call[s].link}, link' # Unserved,
           known' \in [Reports -> 0..MaxVersion], \A d \in Reports : known'[d] <= version[d],
           missed' \in BOOLEAN,
           ~missed' => ~missed /\ call[s].kind # "revert" /\ link' = call[s].link
    PROVE  LabInv'
  <1>i. LabTyped /\ OneForOpened /\ LinkIsCurrent
    BY DEF LabInv
  <1>n. DOMAIN shares = 1..Len(shares) /\ Len(shares) \in Nat /\ Len(shares) <= MaxShares
    BY Numbered DEF SharesInv
  <1>1. s \in Slots /\ call[s].kind # "none" /\ call[s].report \in Reports
        /\ CallFits(call[s]) /\ call[s] \in Calls
    BY <1>i DEF UnderWay, LabTyped, CallFits
  <1>2. NoCall \in Calls /\ NoCall.kind = "none" /\ CallFits(NoCall)
    <2>1. NoCall \in Calls /\ NoCall.kind = "none" /\ NoCall.link = Unserved
      BY LabNumbers DEF NoCall, Calls
    <2> QED
      BY <1>n, <2>1, LabNumbers DEF CallFits
  <1>3. /\ call' \in [Slots -> Calls] /\ call'[s] = NoCall
        /\ \A r \in Slots : r # s => call'[r] = call[r]
    BY <1>i, <1>1, <1>2 DEF LabTyped, Over
  <1>4. UnderWay' = UnderWay \ {s}
    BY <1>2, <1>3 DEF UnderWay
  <1>5. link' \in 0..Len(shares) /\ (link' # 0 /\ link' # link => shares[link'].dive = call[s].report)
    <2>1. CASE link' = link
      BY <1>i, <2>1 DEF LabTyped
    <2>2. CASE link' = call[s].link
      <3>1. call[s].link \in Unserved..MaxShares /\ call[s].link <= Len(shares)
        BY <1>1 DEF Calls, CallFits
      <3>2. link' \in 0..Len(shares)
        BY <1>n, <2>2, <3>1, LabNumbers
      <3> QED
        BY <1>1, <1>n, <2>2, <3>2 DEF CallFits
    <2> QED
      BY <2>1, <2>2
  <1>6. LabTyped'
    <2>1. \A r \in Slots : CallFits(call[r])'
      BY <1>i, <1>2, <1>3 DEF LabTyped, CallFits
    <2>2. embed' \in Reports \cup {NoReport}
      BY <1>i, <1>1 DEF LabTyped
    <2> QED
      BY <1>i, <1>3, <1>5, <2>1, <2>2 DEF LabTyped
  <1>7. OneForOpened'
    <2> SUFFICES ASSUME ~crossed PROVE OneForOpened'
      BY DEF OneForOpened
    <2>1. call[s].report = opened
      BY <1>i DEF OneForOpened
    <2>2. \A r \in UnderWay' : call'[r] = call[r] /\ r \in UnderWay
      BY <1>3, <1>4 DEF UnderWay
    <2> QED
      BY <1>i, <1>5, <2>1, <2>2 DEF OneForOpened
  <1>8. LinkIsCurrent'
    <2> SUFFICES ASSUME ~crossed, ~missed', opened # NoReport
                 PROVE  UnderWay' = {} /\ link' = LinkOf(opened)
      BY DEF LinkIsCurrent, LinkOf, ActiveShares
    <2>1. UnderWay = {s}
      BY <1>i DEF OneForOpened
    <2>2. call[s].link = LinkOf(opened)
      BY <1>i DEF LinkIsCurrent
    <2> QED
      BY <1>4, <2>1, <2>2
  <1> QED
    BY <1>6, <1>7, <1>8 DEF LabInv
LEMMA SendingKeeps ==
    ASSUME SharesInv, LabInv, NEW s \in Slots,
           \/ \E d \in Reports : Open(s, d) \/ AppliedSeen(s, d)
           \/ RefreshClicked(s) \/ PublishClicked(s) \/ RevokeClicked(s) \/ RevertClicked(s)
    PROVE  LabInv' /\ UNCHANGED sharesVars
  <1>i. LabTyped /\ panel \in Panels
    BY DEF LabInv, LabTyped, Panels
  <1>1. ASSUME NEW d \in Reports, Open(s, d) PROVE LabInv' /\ UNCHANGED sharesVars
    BY <1>1, OpenKeeps DEF Open
  <1>2. ASSUME NEW d \in Reports, AppliedSeen(s, d) PROVE LabInv' /\ UNCHANGED sharesVars
    <2>1. /\ SendHere(s, "refresh", d) /\ busy' = busy \cup {"refreshing"}
          /\ panel' = [panel EXCEPT ![d] = NoEdit]
          /\ UNCHANGED <<sharesVars, version, viewVars, missed>>
      BY <1>2 DEF AppliedSeen
    <2>2. panel' \in Panels
      BY <1>i, <2>1, LabNumbers DEF Panels, NoEdit
    <2>3. busy' \subseteq {"refreshing", "sharing", "reverting"} /\ UNCHANGED shares
      BY <1>i, <2>1 DEF LabTyped, sharesVars
    <2> QED
      BY <2>1, <2>2, <2>3, SendsKeep DEF Panels
  <1>3. CASE RefreshClicked(s) \/ PublishClicked(s) \/ RevokeClicked(s) \/ RevertClicked(s)
    <2>1. opened \in Reports /\ UNCHANGED <<sharesVars, version, viewVars, missed, panel>>
          /\ busy' \subseteq {"refreshing", "sharing", "reverting"}
      BY <1>i, <1>3 DEF RefreshClicked, PublishClicked, RevokeClicked, RevertClicked, LabTyped
    <2>2. PICK kind \in {"refresh", "publish", "revoke", "revert"} : SendHere(s, kind, opened)
      BY <1>3 DEF RefreshClicked, PublishClicked, RevokeClicked, RevertClicked
    <2>3. UNCHANGED shares /\ panel' \in Panels
      BY <1>i, <2>1 DEF sharesVars
    <2> QED
      BY <2>1, <2>2, <2>3, SendsKeep DEF Panels
  <1> QED
    BY <1>1, <1>2, <1>3

\* Publications, revocations and reverts are answered with a link alone.
LEMMA LinkServed ==
    ASSUME SharesInv, SharesInv', LabInv, NEW s \in UnderWay,
           call[s].kind \in {"publish", "revoke", "revert"},
           NEW d \in Reports, d = call[s].report,
           NEW i \in 0..Len(shares'), Served(s, i),
           i \in DOMAIN shares' => shares'[i].dive = d,
           call[s].kind # "revert" => i = LinkOf(d)',
           Len(shares) <= Len(shares'),
           \A j \in DOMAIN shares : j \in DOMAIN shares' /\ shares'[j].dive = shares[j].dive,
           version' \in [Reports -> 1..MaxVersion], \A e \in Reports : version[e] <= version'[e],
           UNCHANGED <<panel, Rest>>
    PROVE  LabInv'
  <1>1. s \in Slots /\ call[s] \in Calls /\ call \in [Slots -> Calls]
    BY DEF LabInv, LabTyped, UnderWay
  <1>2. Len(shares') \in 0..MaxShares
    <2>1. shares' \in Seq(Row) /\ Len(shares') <= MaxShares
      BY DEF SharesInv, Row
    <2> QED
      BY <2>1, LenProperties, LabNumbers
  <1>3. PICK new : new = [call[s] EXCEPT !.link = i]
    OBVIOUS
  <1>4. new \in Calls /\ new.kind = call[s].kind /\ new.report = d /\ new.link = i
    <2>1. i \in Unserved..MaxShares
      BY <1>2, LabNumbers
    <2> QED
      BY <1>1, <1>3, <2>1 DEF Calls
  <1>5. call' = [call EXCEPT ![s] = new]
    BY <1>1, <1>3 DEF Served
  <1>6. /\ UNCHANGED <<viewVars, busy, panel, crossed, missed>> /\ new.link <= Len(shares')
        /\ new.kind # "refresh" /\ (new.kind # "revert" => new.link = LinkOf(new.report)')
    BY <1>2, <1>4 DEF Rest
  <1> QED
    BY <1>4, <1>5, <1>6, ServesKeep

LEMMA ServingKeeps ==
    ASSUME SharesInv, LabInv, NEW s \in Slots,
           ServeRefresh(s) \/ ServePublish(s) \/ ServeRevoke(s) \/ ServeRevert(s)
    PROVE  LabInv' /\ SharesInv'
  <1>0. /\ call[s] \in Calls /\ call[s].report \in Reports /\ s \in UnderWay
        /\ call \in [Slots -> Calls] /\ version \in [Reports -> 1..MaxVersion]
    BY DEF LabInv, LabTyped, CallFits, UnderWay, ServeRefresh, ServePublish, ServeRevoke,
           ServeRevert, Unanswered
  <1> PICK d \in Reports : d = call[s].report
    BY <1>0
  <1>n. /\ DOMAIN shares = 1..Len(shares) /\ Len(shares) \in 0..MaxShares
        /\ version[d] \in 1..MaxVersion
    BY <1>0, Numbered
  <1>v. /\ \A e \in Reports : version[e] \in Nat /\ version[e] <= version[e]
        /\ \A e \in Reports : version[e] <= version[e] + 1
    BY <1>0, LabNumbers
  <1>1. CASE ServeRefresh(s)
    <2>1. /\ call' = [call EXCEPT ![s].version = version[d], ![s].link = LinkOf(d)]
          /\ UNCHANGED <<sharesVars, version, panel, Rest>> /\ call[s].kind = "refresh"
      BY <1>1 DEF ServeRefresh, Unanswered
    <2>2. /\ LinkOf(d) \in 0..Len(shares)
          /\ LinkOf(d) \in DOMAIN shares => shares[LinkOf(d)].dive = d
      BY LinkOfIs
    <2>3. PICK new : new = [call[s] EXCEPT !.version = version[d], !.link = LinkOf(d)]
      OBVIOUS
    <2>4. /\ new \in Calls /\ new.kind = call[s].kind /\ new.report = d
          /\ new.version = version[d] /\ new.link = LinkOf(d)
      <3>1. LinkOf(d) \in Unserved..MaxShares /\ version[d] \in Unserved..MaxVersion
        BY <1>n, <2>2, LabNumbers
      <3> QED
        BY <1>0, <2>3, <3>1 DEF Calls
    <2>5. call' = [call EXCEPT ![s] = new]
      BY <1>0, <2>1, <2>3
    <2>6. SharesInv' /\ UNCHANGED <<shares, viewVars, busy, panel, crossed, missed>>
      BY <2>1, SharesKept DEF Rest, sharesVars
    <2>7. LinkOf(new.report)' = LinkOf(d)
      BY <2>4, <2>6 DEF LinkOf, ActiveShares
    <2>8. version' \in [Reports -> 1..MaxVersion] /\ new.version \in 1..version'[new.report]
      BY <1>0, <1>n, <2>1, <2>4, LabNumbers
    <2>9. /\ new.link <= Len(shares')
          /\ new.link \in DOMAIN shares' => shares'[new.link].dive = new.report
          /\ Len(shares) <= Len(shares')
      BY <1>n, <2>2, <2>4, <2>6
    <2> QED
      BY <1>0, <1>v, <2>1, <2>4, <2>5, <2>6, <2>7, <2>8, <2>9, ServesKeep
  <1>2. CASE ServePublish(s)
    <2>1. /\ CreateDiveShare(d) /\ call[s].kind = "publish" /\ UNCHANGED <<version, panel, Rest>>
          /\ Served(s, IF ActiveShares(d) = {} THEN Len(shares) + 1 ELSE LinkOf(d))
      BY <1>2 DEF ServePublish, Unanswered
    <2>2. /\ LinkOf(d)' = (IF ActiveShares(d) = {} THEN Len(shares) + 1 ELSE LinkOf(d))
          /\ Len(shares) <= Len(shares') /\ SharesInv'
          /\ \A i \in DOMAIN shares : i \in DOMAIN shares' /\ shares'[i] = shares[i]
      BY <2>1, PublishedLink, CreateKeeps
    <2>3. PICK n : n = LinkOf(d)' /\ Served(s, n)
      BY <2>1, <2>2
    <2>4. DOMAIN shares' = 1..Len(shares') /\ Len(shares') \in Nat
      <3>1. shares' \in Seq(Row)
        BY <2>2 DEF SharesInv, Row
      <3> QED
        BY <3>1, LenProperties
    <2>5. n \in 0..Len(shares') /\ (n \in DOMAIN shares' => shares'[n].dive = d)
      <3>1. CASE ActiveShares(d)' = {}
        <4>1. n = 0
          BY <2>3, <3>1 DEF LinkOf
        <4> QED
          BY <4>1, <2>4
      <3>2. CASE ActiveShares(d)' # {}
        <4>1. n \in ActiveShares(d)'
          BY <2>3, <3>2 DEF LinkOf
        <4> QED
          BY <4>1, <2>4 DEF ActiveShares
      <3> QED
        BY <3>1, <3>2
    <2> QED
      BY <1>0, <1>v, <2>1, <2>2, <2>3, <2>5, LinkServed
  <1>3. CASE ServeRevoke(s)
    <2>1. /\ RevokeDiveShare(d) /\ call[s].kind = "revoke" /\ UNCHANGED <<version, panel, Rest>>
          /\ Served(s, 0)
      BY <1>3 DEF ServeRevoke, Unanswered
    <2>2. /\ LinkOf(d)' = 0 /\ Len(shares) = Len(shares') /\ DOMAIN shares' = DOMAIN shares
          /\ \A i \in DOMAIN shares : shares'[i].dive = shares[i].dive
          /\ SharesInv'
      BY <2>1, RevokedLink, RevokeKeeps
    <2>3. 0 \in 0..Len(shares') /\ 0 \notin DOMAIN shares' /\ Len(shares) <= Len(shares')
      BY <1>n, <2>2
    <2> QED
      BY <1>0, <1>v, <2>1, <2>2, <2>3, LinkServed
  <1>4. CASE ServeRevert(s)
    <2>1. /\ call[s].kind = "revert" /\ version[d] < MaxVersion /\ Served(s, 0)
          /\ version' = [version EXCEPT ![d] = @ + 1] /\ UNCHANGED <<sharesVars, panel, Rest>>
      BY <1>4 DEF ServeRevert, Unanswered
    <2>2. /\ version' \in [Reports -> 1..MaxVersion]
          /\ \A e \in Reports : version[e] <= version'[e]
      BY <1>0, <1>n, <1>v, <2>1, LabNumbers
    <2>3. SharesInv' /\ UNCHANGED shares
      BY <2>1, SharesKept DEF sharesVars
    <2>4. 0 \in 0..Len(shares') /\ 0 \notin DOMAIN shares' /\ Len(shares) <= Len(shares')
      BY <1>n, <2>3
    <2> QED
      BY <1>0, <2>1, <2>2, <2>3, <2>4, LinkServed
  <1> QED
    BY <1>1, <1>2, <1>3, <1>4

LEMMA AnswersKeep ==
    ASSUME SharesInv, LabInv, NEW s \in Slots,
           \/ \E versionOk, linkOk \in BOOLEAN : RefreshArrives(s, versionOk, linkOk)
           \/ ShareArrives(s) \/ RevertArrives(s) \/ CallFails(s)
    PROVE  LabInv' /\ UNCHANGED sharesVars
  <1>i. LabTyped /\ OneForOpened /\ LinkIsCurrent
    BY DEF LabInv
  <1>1. /\ s \in UnderWay /\ call[s].kind # "none" /\ call[s].report \in Reports
        /\ CallFits(call[s]) /\ call[s] \in Calls
    BY <1>i DEF LabTyped, CallFits, UnderWay, RefreshArrives, ShareArrives, RevertArrives, CallFails
  <1>b. BusyAfter(s) \subseteq {"refreshing", "sharing", "reverting"}
    BY <1>i DEF LabTyped, BusyAfter
  <1>k. link # Unserved /\ known \in [Reports -> 0..MaxVersion]
        /\ \A d \in Reports : known[d] <= version[d] /\ version[d] \in 1..MaxVersion
    <2>1. link \in 0..Len(shares)
      BY <1>i DEF LabTyped
    <2>2. link # Unserved
      BY <2>1, LabNumbers
    <2> QED
      BY <1>i, <2>2 DEF LabTyped
  <1>2. ASSUME NEW versionOk \in BOOLEAN, NEW linkOk \in BOOLEAN, RefreshArrives(s, versionOk, linkOk)
        PROVE  LabInv' /\ UNCHANGED sharesVars
    <2>1. /\ call[s].kind = "refresh" /\ call[s].link # Unserved /\ embed' = call[s].report
          /\ known' = (IF versionOk THEN [known EXCEPT ![call[s].report] = call[s].version] ELSE known)
          /\ link' = (IF linkOk THEN call[s].link ELSE link)
          /\ Over(s) /\ busy' = BusyAfter(s) /\ missed' = (missed \/ ~linkOk)
          /\ UNCHANGED <<sharesVars, version, opened, panel, crossed>>
      BY <1>2 DEF RefreshArrives, LinkRead
    <2>2. missed' \in BOOLEAN /\ (~missed' => ~missed /\ linkOk)
      BY <2>1
    <2>3. call[s].version \in 1..version[call[s].report]
      BY <1>1, <2>1 DEF CallFits
    <2>4. call[s].version \in 0..MaxVersion /\ call[s].version <= version[call[s].report]
      BY <1>1, <1>k, <2>3, LabNumbers
    <2>5. known' \in [Reports -> 0..MaxVersion] /\ \A d \in Reports : known'[d] <= version[d]
      BY <1>k, <2>1, <2>4
    <2>6. link' \in {link, call[s].link} /\ link' # Unserved /\ (~missed' => link' = call[s].link)
      BY <1>k, <2>1, <2>2
    <2>7. UNCHANGED shares
      BY <2>1 DEF sharesVars
    <2> QED
      BY <1>1, <1>b, <2>1, <2>2, <2>5, <2>6, <2>7, ArrivalsKeep
  <1>3. CASE ShareArrives(s)
    <2>1. /\ call[s].kind \in {"publish", "revoke"} /\ call[s].link # Unserved
          /\ link' = call[s].link /\ Over(s) /\ busy' = BusyAfter(s)
          /\ UNCHANGED <<sharesVars, version, opened, embed, known, panel, crossed, missed>>
      BY <1>3 DEF ShareArrives
    <2>2. missed' \in BOOLEAN
      BY <1>i, <2>1 DEF LabTyped
    <2>3. UNCHANGED shares
      BY <2>1 DEF sharesVars
    <2> QED
      BY <1>1, <1>b, <1>k, <2>1, <2>2, <2>3, ArrivalsKeep
  <1>4. CASE CallFails(s)
    <2>1. /\ Over(s) /\ busy' = BusyAfter(s) /\ missed' = TRUE
          /\ UNCHANGED <<sharesVars, version, viewVars, panel, crossed>>
      BY <1>4 DEF CallFails
    <2>2. UNCHANGED <<shares, opened, embed, link, known>>
      BY <2>1 DEF sharesVars, viewVars
    <2> QED
      BY <1>1, <1>b, <1>k, <2>1, <2>2, ArrivalsKeep
  <1>5. CASE RevertArrives(s)
    <2>1. /\ call[s].kind = "revert" /\ busy' = busy \cup {"refreshing"}
          /\ UNCHANGED <<sharesVars, version, viewVars, panel, crossed, missed>>
      BY <1>5 DEF RevertArrives
    <2>2. /\ UNCHANGED <<shares, opened, embed, link, known>>
      BY <2>1 DEF sharesVars, viewVars
    <2> PICK d \in Reports : d = call[s].report
      BY <1>1
    <2>3. /\ call' \in [Slots -> Calls]
          /\ call'[s].kind = "refresh" /\ call'[s].report = d /\ call'[s].link = Unserved
          /\ \A r \in Slots : r # s => call'[r] = call[r]
          /\ UnderWay' = UnderWay \cup {s}
          /\ \A r \in Slots : CallFits(call'[r])
      <3>1. call' = [call EXCEPT ![s] = NewCall("refresh", d, TRUE)]
        BY <1>5, CallResent
      <3> QED
        BY <1>i, <3>1, CallMade
    <2>4. LabTyped'
      <3>1. \A r \in Slots : CallFits(call[r])'
        BY <2>1, <2>2, <2>3 DEF CallFits
      <3> QED
        BY <1>i, <2>1, <2>2, <2>3, <3>1 DEF LabTyped
    <2>5. UnderWay' = UnderWay /\ \A r \in Slots : call'[r].report = call[r].report
      BY <1>1, <2>3
    <2>6. OneForOpened'
      BY <1>i, <2>1, <2>2, <2>5 DEF OneForOpened, UnderWay
    <2>7. LinkIsCurrent'
      <3>1. LinkOf(opened)' = LinkOf(opened) /\ UnderWay' # {}
        BY <1>1, <2>2, <2>5 DEF LinkOf, ActiveShares
      <3>2. \A r \in UnderWay' : call'[r].link # Unserved => call'[r] = call[r] /\ r \in UnderWay
        BY <2>3, <2>5 DEF UnderWay
      <3> QED
        BY <1>i, <2>1, <2>2, <3>1, <3>2 DEF LinkIsCurrent
    <2> QED
      BY <2>1, <2>4, <2>6, <2>7 DEF LabInv
  <1> QED
    BY <1>2, <1>3, <1>4, <1>5

LEMMA LabKept ==
    SharesInv /\ LabInv /\ [LabNext]_<<sharesVars, labVars>> => SharesInv' /\ LabInv'
  <1> SUFFICES ASSUME SharesInv, LabInv, [LabNext]_<<sharesVars, labVars>>
               PROVE  SharesInv' /\ LabInv'
    OBVIOUS
  <1>v. /\ version \in [Reports -> 1..MaxVersion] /\ panel \in Panels
        /\ \A e \in Reports : version[e] \in Nat /\ version[e] <= version[e]
        /\ known \in [Reports -> 0..MaxVersion]
    BY LabNumbers DEF LabInv, LabTyped, Panels
  <1>1. ASSUME NEW d \in Reports, Submit(d) \/ EditUnseen(d) \/ ServeEdit(d) \/ EditElsewhere(d)
        PROVE  SharesInv' /\ LabInv'
    <2>1. UNCHANGED <<sharesVars, call, viewVars, busy, crossed, missed>>
      BY <1>1 DEF Submit, EditUnseen, ServeEdit, EditElsewhere, Rest
    <2>2. version' = version \/ (version[d] < MaxVersion /\ version' = [version EXCEPT ![d] = @ + 1])
      BY <1>1 DEF Submit, EditUnseen, ServeEdit, EditElsewhere
    <2>3. version' \in [Reports -> 1..MaxVersion] /\ \A e \in Reports : version[e] <= version'[e]
      BY <1>v, <2>2, LabNumbers
    <2>4. panel' \in Panels
      <3>1. \A pc \in {"none", "sent", "applied"}, n \in 0..MaxVersion :
                [pc |-> pc, expected |-> n] \in [pc : {"none", "sent", "applied"}, expected : 0..MaxVersion]
        OBVIOUS
      <3>2. 0 \in 0..MaxVersion /\ known[d] \in 0..MaxVersion
        BY <1>v, LabNumbers
      <3>3. PICK pc \in {"none", "sent", "applied"}, n \in 0..MaxVersion :
                panel' = panel \/ panel' = [panel EXCEPT ![d] = [pc |-> pc, expected |-> n]]
        BY <1>1, <3>2 DEF Submit, EditUnseen, ServeEdit, EditElsewhere, NoEdit
      <3> QED
        BY <1>v, <3>1, <3>3 DEF Panels
    <2>5. SharesInv' /\ UNCHANGED shares
      BY <2>1, SharesKept DEF sharesVars
    <2> QED
      BY <2>1, <2>3, <2>4, <2>5, EditsKeep
  <1>2. ASSUME NEW s \in Slots,
               \/ \E d \in Reports : Open(s, d) \/ AppliedSeen(s, d)
               \/ RefreshClicked(s) \/ PublishClicked(s) \/ RevokeClicked(s) \/ RevertClicked(s)
        PROVE  SharesInv' /\ LabInv'
    BY <1>2, SendingKeeps, SharesKept
  <1>3. ASSUME NEW s \in Slots,
               \/ \E versionOk, linkOk \in BOOLEAN : RefreshArrives(s, versionOk, linkOk)
               \/ ShareArrives(s) \/ RevertArrives(s) \/ CallFails(s)
        PROVE  SharesInv' /\ LabInv'
    BY <1>3, AnswersKeep, SharesKept
  <1>4. CASE UNCHANGED <<sharesVars, labVars>>
    <2>1. UNCHANGED <<sharesVars, shares, version, call, viewVars, busy, crossed, missed, panel>>
      BY <1>4 DEF labVars, sharesVars
    <2>2. SharesInv'
      BY <2>1, SharesKept
    <2> QED
      BY <1>v, <2>1, <2>2, EditsKeep
  <1> QED
    BY <1>1, <1>2, <1>3, <1>4, ServingKeeps DEF LabNext

LEMMA LabAlways == LabSpec => [](SharesInv /\ LabInv)
  <1> QED
    BY LabInitial, LabKept, PTL DEF LabSpec

\* Whatever order answers come in: the preview and the link are of the Dive that
\* is open unless requests crossed, and if none was lost the link is active.
THEOREM LabKeepsUp == LabSpec => []LabShowsOpened
  <1>1. SharesInv /\ LabInv => LabShowsOpened
    <2> SUFFICES ASSUME SharesInv, LabInv PROVE LabShowsOpened
      OBVIOUS
    <2>1. \A s \in Slots : call[s] \in [kind : {"none", "refresh", "publish", "revoke", "revert"},
                           report : Reports \cup {NoReport}, version : Unserved..MaxVersion,
                           link : Unserved..Len(shares), restored : BOOLEAN]
      <3> SUFFICES ASSUME NEW s \in Slots
                   PROVE  call[s] \in [kind : {"none", "refresh", "publish", "revoke", "revert"},
                           report : Reports \cup {NoReport}, version : Unserved..MaxVersion,
                           link : Unserved..Len(shares), restored : BOOLEAN]
        OBVIOUS
      <3>1. call[s] \in Calls /\ call[s].link <= Len(shares)
        BY DEF LabInv, LabTyped, CallFits
      <3>2. call[s].link \in Unserved..Len(shares)
        BY <3>1, Numbered, LabNumbers DEF Calls
      <3> QED
        BY <3>1, <3>2 DEF Calls
    <2>2. LabTypeOK
      BY <2>1 DEF LabInv, LabTyped, LabTypeOK
    <2>3. PreviewIsOfOpened
      BY DEF LabInv, OneForOpened, PreviewIsOfOpened
    <2>4. SettledLinkIsActive
      BY DEF LabInv, LinkIsCurrent, SettledLinkIsActive
    <2> QED
      BY <2>2, <2>3, <2>4 DEF LabShowsOpened
  <1> QED
    BY <1>1, LabAlways, PTL
-----------------------------------------------------------------------------
(* The hourly limits.                                                        *)

LimitsSpec == LimitsInit /\ [][LimitsNext]_limitVars

TakenRows == [payer : Payers, at : Times, nth : Nat \ {0}]

\* Requests of a payer that have counted and not inserted yet, by their start.
Inserting(p, T) == {c \in Callers : caller[c].pc = "insert" /\ caller[c].payer = {p} /\ caller[c].start \in T}

\* Rows of one moment are numbered from one.
RowsNumbered == \A r \in taken : r.nth <= RowsAt(r.payer, {r.at})

\* Behind the lock a request is alone from its count to its row, which is why
\* what it has counted still holds.
AloneBehindLock ==
    serial => /\ \A c, d \in Callers : {caller[c].pc, caller[d].pc} \subseteq {"count", "insert"} => c = d
              /\ \A c \in Callers : caller[c].pc = "insert" => Within(c)

\* Without it, a request that goes on to insert has seen fewer rows than the
\* limit, and every other that did so as well is one of the callers.
RowsToCome ==
    \A t \in Times, p \in Payers :
        RowsAt(p, HourFrom(t)) + Cardinality(Inserting(p, HourFrom(t))) + 1 <= PerPayer + Cardinality(Callers)

LimitsInv ==
    /\ serial \in BOOLEAN /\ now \in Times
    /\ taken \subseteq TakenRows /\ IsFiniteSet(taken)
    /\ caller \in [Callers -> [pc : {"idle", "wait", "count", "insert"},
                               payer : SUBSET Payers, start : 0..now]]
    /\ \A c \in Callers : IF caller[c].pc = "idle" THEN caller[c].payer = {}
                                                   ELSE \E p \in Payers : caller[c].payer = {p}
    /\ RowsNumbered /\ AloneBehindLock /\ RowsToCome /\ NoHourExceeds

LEMMA LimitNumbers ==
    /\ PerPayer \in Nat \ {0} /\ Overall \in Nat /\ Hour \in Nat /\ MaxTime \in Nat
    /\ IsFiniteSet(Callers) /\ Cardinality(Callers) \in Nat /\ Times = 0..MaxTime
  <1> QED
    BY LimitsAssumption, FS_CardinalityType DEF Times

LEMMA RowsCounted ==
    ASSUME IsFiniteSet(taken), NEW p
    PROVE  /\ \A T : IsFiniteSet(RowsIn(p, T)) /\ RowsAt(p, T) \in Nat
           /\ \A T : IsFiniteSet({r \in taken : r.at \in T}) /\ RowsOfAll(T) \in Nat
           /\ \A S, T : S \subseteq T => RowsAt(p, S) <= RowsAt(p, T) /\ RowsOfAll(S) <= RowsOfAll(T)
  <1>1. ASSUME NEW T
        PROVE  /\ IsFiniteSet(RowsIn(p, T)) /\ RowsAt(p, T) \in Nat
               /\ IsFiniteSet({r \in taken : r.at \in T}) /\ RowsOfAll(T) \in Nat
    <2>1. RowsIn(p, T) \subseteq taken /\ {r \in taken : r.at \in T} \subseteq taken
      BY DEF RowsIn
    <2> QED
      BY <2>1, FS_Subset, FS_CardinalityType DEF RowsAt, RowsOfAll
  <1>2. ASSUME NEW S, NEW T, S \subseteq T
        PROVE  RowsAt(p, S) <= RowsAt(p, T) /\ RowsOfAll(S) <= RowsOfAll(T)
    <2>1. RowsIn(p, S) \in SUBSET RowsIn(p, T)
          /\ {r \in taken : r.at \in S} \in SUBSET {r \in taken : r.at \in T}
      BY <1>2 DEF RowsIn
    <2> QED
      BY <1>1, <2>1, FS_Subset DEF RowsAt, RowsOfAll
  <1> QED
    BY <1>1, <1>2

LEMMA InsertingCounted ==
    ASSUME NEW p, NEW T
    PROVE  /\ IsFiniteSet(Inserting(p, T)) /\ Cardinality(Inserting(p, T)) \in Nat
           /\ Cardinality(Inserting(p, T)) <= Cardinality(Callers)
  <1>1. Inserting(p, T) \in SUBSET Callers
    BY DEF Inserting
  <1> QED
    BY <1>1, LimitNumbers, FS_Subset, FS_CardinalityType

\* Every hour that a request falls into is among the rows it counts.
LEMMA HourIsSeen ==
    ASSUME NEW c \in Callers, NEW t \in Times, caller[c].start \in HourFrom(t)
    PROVE  HourFrom(t) \subseteq Seen(c)
  <1>1. caller[c].start \in Times /\ t <= caller[c].start /\ caller[c].start <= t + Hour
    BY DEF HourFrom
  <1> SUFFICES ASSUME NEW s \in HourFrom(t) PROVE s + Hour >= caller[c].start /\ s \in Times
    BY DEF Seen
  <1>2. s \in Times /\ t <= s
    BY DEF HourFrom
  <1> QED
    BY <1>1, <1>2, LimitNumbers

\* A row more.
LEMMA RowAdded ==
    ASSUME taken \subseteq TakenRows, IsFiniteSet(taken), RowsNumbered,
           NEW row \in TakenRows, taken' = taken \cup {row},
           row.nth = RowsAt(row.payer, {row.at}) + 1
    PROVE  /\ taken' \subseteq TakenRows /\ IsFiniteSet(taken') /\ RowsNumbered'
           /\ \A p, T : p = row.payer /\ row.at \in T => RowsAt(p, T)' = RowsAt(p, T) + 1
           /\ \A p, T : p # row.payer \/ row.at \notin T => RowsAt(p, T)' = RowsAt(p, T)
           /\ \A T : RowsOfAll(T)' = (IF row.at \in T THEN RowsOfAll(T) + 1 ELSE RowsOfAll(T))
  <1>2. RowsAt(row.payer, {row.at}) \in Nat
    BY RowsCounted
  <1>3. row \notin taken
    <2> SUFFICES ASSUME row \in taken PROVE FALSE
      OBVIOUS
    <2>1. row.nth <= RowsAt(row.payer, {row.at})
      BY <1>2 DEF RowsNumbered
    <2> QED
      BY <1>2, <2>1
  <1>5. taken' \subseteq TakenRows /\ IsFiniteSet(taken')
    <2>1. IsFiniteSet(taken \cup {row})
      BY FS_AddElement
    <2> QED
      BY <1>2, <2>1
  <1>6. ASSUME NEW p, NEW T
        PROVE  /\ p = row.payer /\ row.at \in T => RowsAt(p, T)' = RowsAt(p, T) + 1
               /\ p # row.payer \/ row.at \notin T => RowsAt(p, T)' = RowsAt(p, T)
    <2>1. IsFiniteSet(RowsIn(p, T)) /\ row \notin RowsIn(p, T)
      BY <1>3, RowsCounted DEF RowsIn
    <2>2. CASE p = row.payer /\ row.at \in T
      <3>1. RowsIn(p, T)' = RowsIn(p, T) \cup {row}
        BY <1>2, <2>2 DEF RowsIn
      <3> QED
        BY <2>1, <2>2, <3>1, FS_AddElement DEF RowsAt
    <2>3. CASE ~(p = row.payer /\ row.at \in T)
      <3>1. RowsIn(p, T)' = RowsIn(p, T)
        BY <1>2, <2>3 DEF RowsIn
      <3> QED
        BY <2>3, <3>1 DEF RowsAt
    <2> QED
      BY <2>2, <2>3
  <1>7. ASSUME NEW T PROVE RowsOfAll(T)' = IF row.at \in T THEN RowsOfAll(T) + 1 ELSE RowsOfAll(T)
    <2> DEFINE all == {r \in taken : r.at \in T}
    <2>1. IsFiniteSet(all) /\ row \notin all
      BY <1>3, RowsCounted
    <2>2. CASE row.at \in T
      <3>1. {r \in taken' : r.at \in T} = all \cup {row}
        BY <1>2, <2>2
      <3> QED
        BY <2>1, <2>2, <3>1, FS_AddElement DEF RowsOfAll
    <2>3. CASE row.at \notin T
      <3>1. {r \in taken' : r.at \in T} = all
        BY <1>2, <2>3
      <3> QED
        BY <2>3, <3>1 DEF RowsOfAll
    <2> QED
      BY <2>2, <2>3
  <1>8. RowsNumbered'
    <2> SUFFICES ASSUME NEW r \in taken' PROVE r.nth <= RowsAt(r.payer, {r.at})'
      BY DEF RowsNumbered
    <2>1. CASE r = row
      <3>1. RowsAt(r.payer, {r.at})' = RowsAt(r.payer, {r.at}) + 1
        BY <1>2, <1>6, <2>1
      <3>2. RowsAt(r.payer, {r.at}) = RowsAt(row.payer, {row.at})
        BY <1>2, <2>1
      <3> QED
        BY <1>2, <2>1, <3>1, <3>2
    <2>2. CASE r \in taken
      <3>1. r.nth <= RowsAt(r.payer, {r.at}) /\ r.nth \in Nat /\ RowsAt(r.payer, {r.at}) \in Nat
        BY <2>2, RowsCounted DEF RowsNumbered, TakenRows
      <3>2. RowsAt(r.payer, {r.at})' \in {RowsAt(r.payer, {r.at}), RowsAt(r.payer, {r.at}) + 1}
        BY <1>6
      <3> QED
        BY <3>1, <3>2
    <2> QED
      BY <2>1, <2>2
  <1> QED
    BY <1>5, <1>6, <1>7, <1>8

Caller == [pc : {"idle", "wait", "count", "insert"}, payer : SUBSET Payers, start : Nat]

LEMMA LimitParts ==
    ASSUME LimitsInv
    PROVE  /\ taken \subseteq TakenRows /\ IsFiniteSet(taken) /\ serial \in BOOLEAN /\ now \in Times
           /\ caller \in [Callers -> Caller]
           /\ \A c \in Callers : caller[c].start \in 0..now /\ caller[c].start \in Times
  <1>1. /\ now \in 0..MaxTime
        /\ caller \in [Callers -> [pc : {"idle", "wait", "count", "insert"},
                                   payer : SUBSET Payers, start : 0..now]]
    BY LimitNumbers DEF LimitsInv
  <1>2. ASSUME NEW c \in Callers
        PROVE  caller[c].start \in 0..now /\ caller[c].start \in Times /\ caller[c] \in Caller
    <2>1. caller[c] \in [pc : {"idle", "wait", "count", "insert"}, payer : SUBSET Payers, start : 0..now]
      BY <1>1
    <2>2. caller[c].start \in 0..now
      BY <2>1
    <2>3. caller[c].start \in Nat /\ caller[c].start <= now
      BY <1>1, <2>2, LimitNumbers
    <2> QED
      BY <1>1, <2>1, <2>2, <2>3, LimitNumbers DEF Caller
  <1> QED
    BY <1>1, <1>2 DEF LimitsInv

LEMMA LimitsInitial == LimitsInit => LimitsInv
  <1> SUFFICES ASSUME LimitsInit PROVE LimitsInv
    OBVIOUS
  <1>1. /\ serial \in BOOLEAN /\ now = 0 /\ taken = {} /\ caller = [c \in Callers |-> Resting]
    BY DEF LimitsInit
  <1>2. IsFiniteSet(taken) /\ (\A p, T : RowsIn(p, T) = {} /\ RowsAt(p, T) = 0)
        /\ \A T : RowsOfAll(T) = 0
    BY <1>1, FS_EmptySet DEF RowsIn, RowsAt, RowsOfAll
  <1>3. now \in Times /\ 0 \in 0..now
    BY <1>1, LimitNumbers
  <1>4. /\ caller \in [Callers -> [pc : {"idle", "wait", "count", "insert"},
                                   payer : SUBSET Payers, start : 0..now]]
        /\ \A c \in Callers : caller[c].pc = "idle" /\ caller[c].payer = {}
    BY <1>1, <1>3 DEF Resting
  <1>5. \A p, T : Inserting(p, T) = {}
    BY <1>4 DEF Inserting
  <1>6. RowsToCome
    <2> SUFFICES ASSUME NEW t \in Times, NEW p \in Payers
                 PROVE  0 + 0 + 1 <= PerPayer + Cardinality(Callers)
      BY <1>2, <1>5, FS_EmptySet DEF RowsToCome
    <2> QED
      BY LimitNumbers
  <1>7. NoHourExceeds
    BY <1>2, LimitNumbers DEF NoHourExceeds
  <1>8. AloneBehindLock /\ RowsNumbered
    BY <1>1, <1>4 DEF AloneBehindLock, RowsNumbered
  <1> QED
    BY <1>1, <1>2, <1>3, <1>4, <1>6, <1>7, <1>8 DEF LimitsInv

\* A request goes on, without a row.
LEMMA CallerMoves ==
    ASSUME LimitsInv, NEW c \in Callers, UNCHANGED <<serial, now, taken>>,
           NEW new \in Caller, new.start \in 0..now, caller' = [caller EXCEPT ![c] = new],
           IF new.pc = "idle" THEN new.payer = {} ELSE \E p \in Payers : new.payer = {p},
           serial /\ new.pc \in {"count", "insert"} =>
               \A d \in Callers \ {c} : caller[d].pc \notin {"count", "insert"},
           new.pc = "insert" => new.start = caller[c].start /\ new.payer = caller[c].payer /\ Within(c)
    PROVE  LimitsInv'
  <1>t. /\ caller \in [Callers -> Caller] /\ IsFiniteSet(taken)
        /\ \A d \in Callers : caller[d].start \in 0..now
    BY LimitParts
  <1>1. /\ caller' \in [Callers -> Caller] /\ caller'[c] = new
        /\ \A d \in Callers : d # c => caller'[d] = caller[d]
    BY <1>t
  <1>2. caller' \in [Callers -> [pc : {"idle", "wait", "count", "insert"},
                                 payer : SUBSET Payers, start : 0..now']]
    BY <1>t, <1>1 DEF Caller
  <1>3. \A d \in Callers : IF caller'[d].pc = "idle" THEN caller'[d].payer = {}
                                                     ELSE \E p \in Payers : caller'[d].payer = {p}
    BY <1>1 DEF LimitsInv
  <1>4. /\ \A p, T : RowsAt(p, T)' = RowsAt(p, T)
        /\ \A T : RowsOfAll(T)' = RowsOfAll(T)
    BY DEF RowsAt, RowsIn, RowsOfAll
  <1>5. AloneBehindLock'
    <2> SUFFICES ASSUME serial
                 PROVE  /\ \A d, e \in Callers :
                              {caller'[d].pc, caller'[e].pc} \subseteq {"count", "insert"} => d = e
                        /\ \A d \in Callers : caller'[d].pc = "insert" => Within(d)'
      BY DEF AloneBehindLock
    <2>1. ASSUME NEW d \in Callers, NEW e \in Callers,
                 {caller'[d].pc, caller'[e].pc} \subseteq {"count", "insert"}
          PROVE  d = e
      BY <1>1, <2>1 DEF LimitsInv, AloneBehindLock
    <2>2. ASSUME NEW d \in Callers, caller'[d].pc = "insert" PROVE Within(d)'
      <3>1. caller'[d].start = caller[d].start /\ caller'[d].payer = caller[d].payer /\ Within(d)
        BY <1>1, <2>2 DEF LimitsInv, AloneBehindLock
      <3>2. Seen(d)' = Seen(d)
        BY <3>1 DEF Seen
      <3> QED
        BY <1>4, <3>1, <3>2 DEF Within
    <2> QED
      BY <2>1, <2>2
  <1>6. RowsToCome'
    <2> SUFFICES ASSUME NEW t \in Times, NEW p \in Payers
                 PROVE  RowsAt(p, HourFrom(t)) + Cardinality(Inserting(p, HourFrom(t)))' + 1
                            <= PerPayer + Cardinality(Callers)
      BY <1>4 DEF RowsToCome
    <2> DEFINE T == HourFrom(t)
    <2>1. /\ RowsAt(p, T) \in Nat /\ Cardinality(Inserting(p, T)) \in Nat
          /\ Inserting(p, T)' \in SUBSET Callers
          /\ RowsAt(p, T) + Cardinality(Inserting(p, T)) + 1 <= PerPayer + Cardinality(Callers)
      <3>1. Inserting(p, T)' \in SUBSET Callers
        BY DEF Inserting
      <3> QED
        BY <1>t, <3>1, RowsCounted, InsertingCounted DEF LimitsInv, RowsToCome
    <2>2. Cardinality(Inserting(p, T)') \in Nat /\ Cardinality(Inserting(p, T)') <= Cardinality(Callers)
      BY <2>1, LimitNumbers, FS_Subset, FS_CardinalityType
    <2>3. CASE Inserting(p, T)' \subseteq Inserting(p, T)
      <3>1. Cardinality(Inserting(p, T)') <= Cardinality(Inserting(p, T))
        BY <2>3, InsertingCounted, FS_Subset
      <3> QED
        BY <2>1, <2>2, <3>1, LimitNumbers
    <2>4. CASE ~(Inserting(p, T)' \subseteq Inserting(p, T))
      <3>1. new.pc = "insert" /\ new.payer = {p} /\ new.start \in T
        BY <1>1, <2>4 DEF Inserting
      <3>2. T \subseteq Seen(c) /\ RowsAt(p, Seen(c)) < PerPayer
        BY <3>1, HourIsSeen DEF Within
      <3>3. RowsAt(p, T) <= RowsAt(p, Seen(c)) /\ RowsAt(p, Seen(c)) \in Nat
        BY <1>t, <3>2, RowsCounted
      <3> QED
        BY <2>1, <2>2, <3>2, <3>3, LimitNumbers
    <2> QED
      BY <2>3, <2>4
  <1>7. NoHourExceeds'
    BY <1>4 DEF LimitsInv, NoHourExceeds
  <1>8. RowsNumbered'
    BY <1>4 DEF LimitsInv, RowsNumbered
  <1> QED
    BY <1>2, <1>3, <1>5, <1>6, <1>7, <1>8 DEF LimitsInv

\* A row is added by a request that is counted among those that will.
LEMMA InsertKeeps ==
    ASSUME LimitsInv, NEW c \in Callers, InsertRow(c)
    PROVE  LimitsInv'
  <1>t. /\ caller \in [Callers -> Caller] /\ IsFiniteSet(taken) /\ taken \subseteq TakenRows
        /\ \A d \in Callers : caller[d].start \in 0..now /\ caller[d].start \in Times
        /\ serial \in BOOLEAN
    BY LimitParts
  <1> PICK u \in Times : u = caller[c].start
    BY <1>t
  <1>1. PICK q \in Payers : caller[c].payer = {q}
    BY DEF LimitsInv, InsertRow
  <1>2. /\ caller[c].pc = "insert" /\ caller' = [caller EXCEPT ![c] = Resting]
        /\ taken' = taken \cup {[payer |-> q, at |-> u, nth |-> RowsAt(q, {u}) + 1]}
        /\ UNCHANGED <<serial, now>>
    BY <1>1 DEF InsertRow
  <1>3. /\ taken' \subseteq TakenRows /\ IsFiniteSet(taken') /\ RowsNumbered'
        /\ \A T : u \in T => RowsAt(q, T)' = RowsAt(q, T) + 1
        /\ \A p, T : p # q \/ u \notin T => RowsAt(p, T)' = RowsAt(p, T)
        /\ \A T : RowsOfAll(T)' = (IF u \in T THEN RowsOfAll(T) + 1 ELSE RowsOfAll(T))
    <2>1. RowsNumbered
      BY DEF LimitsInv
    <2> PICK row : row = [payer |-> q, at |-> u, nth |-> RowsAt(q, {u}) + 1]
      OBVIOUS
    <2>2. row \in TakenRows /\ row.payer = q /\ row.at = u /\ row.nth = RowsAt(q, {u}) + 1
      <3>1. RowsAt(q, {u}) \in Nat
        BY <1>t, RowsCounted
      <3> QED
        BY <3>1 DEF TakenRows
    <2>3. taken' = taken \cup {row}
      BY <1>2
    <2>4. row.nth = RowsAt(row.payer, {row.at}) + 1
      BY <2>2
    <2>5. /\ taken' \subseteq TakenRows /\ IsFiniteSet(taken') /\ RowsNumbered'
          /\ \A p, T : p = row.payer /\ row.at \in T => RowsAt(p, T)' = RowsAt(p, T) + 1
          /\ \A p, T : p # row.payer \/ row.at \notin T => RowsAt(p, T)' = RowsAt(p, T)
          /\ \A T : RowsOfAll(T)' = (IF row.at \in T THEN RowsOfAll(T) + 1 ELSE RowsOfAll(T))
      BY <1>t, <2>1, <2>2, <2>3, <2>4, RowAdded
    <2> QED
      BY <2>2, <2>5
  <1>4. Resting \in Caller /\ Resting.pc = "idle" /\ Resting.payer = {} /\ Resting.start \in 0..now
    <2>1. now \in Nat
      BY LimitParts, LimitNumbers
    <2> QED
      BY <2>1 DEF Caller, Resting
  <1>5. /\ caller' \in [Callers -> Caller] /\ caller'[c] = Resting
        /\ \A d \in Callers : d # c => caller'[d] = caller[d]
    BY <1>t, <1>2, <1>4
  <1>6. caller' \in [Callers -> [pc : {"idle", "wait", "count", "insert"},
                                 payer : SUBSET Payers, start : 0..now']]
    BY <1>t, <1>2, <1>4, <1>5 DEF Caller
  <1>7. \A d \in Callers : IF caller'[d].pc = "idle" THEN caller'[d].payer = {}
                                                     ELSE \E p \in Payers : caller'[d].payer = {p}
    BY <1>4, <1>5 DEF LimitsInv
  <1>8. AloneBehindLock'
    <2> SUFFICES ASSUME serial
                 PROVE  \A d \in Callers : /\ caller'[d].pc # "insert"
                                           /\ caller'[d].pc # "count"
      BY <1>2 DEF AloneBehindLock
    <2> SUFFICES ASSUME NEW d \in Callers, d # c PROVE caller[d].pc \notin {"count", "insert"}
      BY <1>4, <1>5
    <2> QED
      BY <1>2 DEF LimitsInv, AloneBehindLock
  <1>9. RowsToCome'
    <2> SUFFICES ASSUME NEW t \in Times, NEW p \in Payers
                 PROVE  RowsAt(p, HourFrom(t))' + Cardinality(Inserting(p, HourFrom(t)))' + 1
                            <= PerPayer + Cardinality(Callers)
      BY DEF RowsToCome, HourFrom
    <2> DEFINE T == HourFrom(t)
    <2>1. /\ RowsAt(p, T) \in Nat /\ Cardinality(Inserting(p, T)) \in Nat
          /\ IsFiniteSet(Inserting(p, T))
          /\ RowsAt(p, T) + Cardinality(Inserting(p, T)) + 1 <= PerPayer + Cardinality(Callers)
      BY <1>t, RowsCounted, InsertingCounted DEF LimitsInv, RowsToCome
    <2>2. Inserting(p, T)' = Inserting(p, T) \ {c}
      <3>1. T' = T
        BY DEF HourFrom
      <3> QED
        BY <1>4, <1>5, <3>1 DEF Inserting
    <2>3. CASE p = q /\ u \in T
      <3>1. c \in Inserting(p, T)
        BY <1>1, <1>2, <2>3 DEF Inserting
      <3>2. Cardinality(Inserting(p, T)') = Cardinality(Inserting(p, T)) - 1
        BY <2>1, <2>2, <3>1, FS_RemoveElement
      <3>3. RowsAt(p, T)' = RowsAt(p, T) + 1
        BY <1>3, <2>3
      <3> QED
        BY <2>1, <3>2, <3>3, LimitNumbers
    <2>4. CASE ~(p = q /\ u \in T)
      <3>1. c \notin Inserting(p, T)
        BY <1>1, <2>4 DEF Inserting
      <3>2. Inserting(p, T)' = Inserting(p, T)
        BY <2>2, <3>1
      <3>3. RowsAt(p, T)' = RowsAt(p, T)
        BY <1>3, <2>4
      <3> QED
        BY <2>1, <3>2, <3>3
    <2> QED
      BY <2>3, <2>4
  <1>10. NoHourExceeds'
    <2> SUFFICES ASSUME serial, NEW t \in Times
                 PROVE  /\ RowsOfAll(HourFrom(t))' <= Overall
                        /\ \A p \in Payers : RowsAt(p, HourFrom(t))' <= PerPayer
      BY <1>2 DEF NoHourExceeds, HourFrom
    <2> DEFINE T == HourFrom(t)
    <2>1. RowsOfAll(T) <= Overall /\ \A p \in Payers : RowsAt(p, T) <= PerPayer
      BY DEF LimitsInv, NoHourExceeds
    <2>2. CASE u \in T
      <3>1. T \subseteq Seen(c)
        BY <2>2, HourIsSeen
      <3>2. RowsOfAll(Seen(c)) < Overall /\ RowsAt(q, Seen(c)) < PerPayer
        BY <1>1, <1>2 DEF LimitsInv, AloneBehindLock, Within
      <3>3. RowsOfAll(T) <= RowsOfAll(Seen(c)) /\ RowsAt(q, T) <= RowsAt(q, Seen(c))
            /\ RowsOfAll(T) \in Nat /\ RowsAt(q, T) \in Nat
            /\ RowsOfAll(Seen(c)) \in Nat /\ RowsAt(q, Seen(c)) \in Nat
        BY <1>t, <3>1, RowsCounted
      <3>4. RowsOfAll(T) + 1 <= Overall /\ RowsAt(q, T) + 1 <= PerPayer
        BY <3>2, <3>3, LimitNumbers
      <3>5. RowsOfAll(T)' = RowsOfAll(T) + 1
            /\ \A p \in Payers : RowsAt(p, T)' = IF p = q THEN RowsAt(p, T) + 1 ELSE RowsAt(p, T)
        BY <1>3, <2>2
      <3> QED
        BY <2>1, <3>4, <3>5
    <2>3. CASE u \notin T
      BY <1>3, <2>1, <2>3
    <2> QED
      BY <2>2, <2>3
  <1> QED
    BY <1>2, <1>3, <1>6, <1>7, <1>8, <1>9, <1>10 DEF LimitsInv
LEMMA LimitsKept == LimitsInv /\ [LimitsNext]_limitVars => LimitsInv'
  <1> SUFFICES ASSUME LimitsInv, [LimitsNext]_limitVars PROVE LimitsInv'
    OBVIOUS
  <1>t. /\ caller \in [Callers -> Caller] /\ IsFiniteSet(taken) /\ now \in Times
        /\ \A c \in Callers : caller[c].start \in 0..now
    BY LimitParts
  <1>n. now \in Nat /\ 0 \in 0..now /\ now \in 0..now
    BY <1>t, LimitNumbers
  <1>c. \A c \in Callers : IF caller[c].pc = "idle" THEN caller[c].payer = {}
                                                    ELSE \E p \in Payers : caller[c].payer = {p}
    BY DEF LimitsInv
  <1>1. ASSUME NEW c \in Callers, NEW p \in Payers, Ask(c, p) PROVE LimitsInv'
    <2> PICK new : new = [pc |-> IF serial THEN "wait" ELSE "count", payer |-> {p}, start |-> now]
      OBVIOUS
    <2>1. /\ new \in Caller /\ new.start \in 0..now /\ new.pc # "idle" /\ new.payer = {p}
          /\ new.pc # "insert" /\ (serial => new.pc = "wait")
      BY <1>n DEF Caller
    <2>2. caller' = [caller EXCEPT ![c] = new] /\ UNCHANGED <<serial, now, taken>>
      BY <1>1 DEF Ask
    <2> QED
      BY <2>1, <2>2, CallerMoves
  <1>2. ASSUME NEW c \in Callers, TakeLock(c) PROVE LimitsInv'
    <2> PICK new : new = [caller[c] EXCEPT !.pc = "count"]
      OBVIOUS
    <2>1. /\ new \in Caller /\ new.start = caller[c].start /\ new.pc = "count"
          /\ new.payer = caller[c].payer
      BY <1>t DEF Caller
    <2>2. /\ caller' = [caller EXCEPT ![c] = new] /\ UNCHANGED <<serial, now, taken>>
          /\ caller[c].pc = "wait" /\ \A d \in Callers : caller[d].pc \notin {"count", "insert"}
      BY <1>2, <1>t DEF TakeLock, LockFree
    <2>3. \E p \in Payers : new.payer = {p}
      BY <1>c, <2>1, <2>2
    <2> QED
      BY <1>t, <2>1, <2>2, <2>3, CallerMoves
  <1>r. Resting \in Caller /\ Resting.pc = "idle" /\ Resting.payer = {} /\ Resting.start \in 0..now
    BY <1>n DEF Resting, Caller
  <1>3. ASSUME NEW c \in Callers, CallerDies(c) PROVE LimitsInv'
    <2>1. caller' = [caller EXCEPT ![c] = Resting] /\ UNCHANGED <<serial, now, taken>>
      BY <1>3 DEF CallerDies
    <2> QED
      BY <1>r, <2>1, CallerMoves
  <1>4. ASSUME NEW c \in Callers, CountRecent(c) PROVE LimitsInv'
    <2>1. CASE ~Within(c)
      <3>1. caller' = [caller EXCEPT ![c] = Resting] /\ UNCHANGED <<serial, now, taken>>
        BY <1>4, <2>1 DEF CountRecent
      <3> QED
        BY <1>r, <3>1, CallerMoves
    <2>2. CASE Within(c)
      <3> PICK new : new = [caller[c] EXCEPT !.pc = "insert"]
        OBVIOUS
      <3>1. /\ new \in Caller /\ new.start = caller[c].start /\ new.pc = "insert"
            /\ new.payer = caller[c].payer
        BY <1>t DEF Caller
      <3>2. /\ caller' = [caller EXCEPT ![c] = new] /\ UNCHANGED <<serial, now, taken>>
            /\ caller[c].pc = "count"
        BY <1>4, <1>t, <2>2 DEF CountRecent
      <3>3. \E p \in Payers : new.payer = {p}
        BY <1>c, <3>1, <3>2
      <3>4. serial => \A d \in Callers \ {c} : caller[d].pc \notin {"count", "insert"}
        BY <3>2 DEF LimitsInv, AloneBehindLock
      <3> QED
        BY <1>t, <2>2, <3>1, <3>2, <3>3, <3>4, CallerMoves
    <2> QED
      BY <2>1, <2>2
  <1>5. CASE TimePasses \/ UNCHANGED limitVars
    <2>1. UNCHANGED <<serial, taken, caller>> /\ now' \in Times /\ now <= now'
      BY <1>5, <1>n, <1>t, LimitNumbers DEF TimePasses, limitVars
    <2>2. caller' \in [Callers -> [pc : {"idle", "wait", "count", "insert"},
                                   payer : SUBSET Payers, start : 0..now']]
      <3>1. \A c \in Callers : caller[c].start \in 0..now'
        BY <1>n, <1>t, <2>1, LimitNumbers
      <3> QED
        BY <1>t, <2>1, <3>1 DEF Caller
    <2>3. /\ \A p, T : RowsAt(p, T)' = RowsAt(p, T) /\ Inserting(p, T)' = Inserting(p, T)
          /\ \A T : RowsOfAll(T)' = RowsOfAll(T)
          /\ \A c \in Callers : Seen(c)' = Seen(c)
      BY <2>1 DEF RowsAt, RowsIn, RowsOfAll, Inserting, Seen
    <2>4. RowsNumbered' /\ NoHourExceeds' /\ RowsToCome'
      BY <2>1, <2>3 DEF LimitsInv, RowsNumbered, NoHourExceeds, RowsToCome, HourFrom
    <2>5. AloneBehindLock'
      BY <2>1, <2>3 DEF LimitsInv, AloneBehindLock, Within
    <2> QED
      BY <2>1, <2>2, <2>4, <2>5 DEF LimitsInv
  <1> QED
    BY <1>1, <1>2, <1>3, <1>4, <1>5, InsertKeeps DEF LimitsNext

LEMMA LimitsAlways == LimitsSpec => []LimitsInv
  <1> QED
    BY LimitsInitial, LimitsKept, PTL DEF LimitsSpec

\* Behind the lock no hour has more rows than a limit allows, wherever it begins
\* and however long transactions wait; without it, the rows beyond the limit are
\* of the other requests that were under way.
THEOREM HoursStayBounded == LimitsSpec => []HoursAreBounded
  <1>1. LimitsInv => HoursAreBounded
    <2> SUFFICES ASSUME LimitsInv PROVE HoursAreBounded
      OBVIOUS
    <2>1. OvershootIsConcurrency
      <3> SUFFICES ASSUME NEW t \in Times, NEW p \in Payers
                   PROVE  RowsAt(p, HourFrom(t)) + 1 <= PerPayer + Cardinality(Callers)
        BY DEF OvershootIsConcurrency
      <3>1. RowsAt(p, HourFrom(t)) \in Nat /\ Cardinality(Inserting(p, HourFrom(t))) \in Nat
        BY RowsCounted, InsertingCounted DEF LimitsInv
      <3>2. RowsAt(p, HourFrom(t)) + Cardinality(Inserting(p, HourFrom(t))) + 1
                <= PerPayer + Cardinality(Callers)
        BY DEF LimitsInv, RowsToCome
      <3> QED
        BY <3>1, <3>2, LimitNumbers
    <2>2. serial => Cardinality({c \in Callers : caller[c].pc \in {"count", "insert"}}) <= 1
      <3> DEFINE holders == {c \in Callers : caller[c].pc \in {"count", "insert"}}
      <3> SUFFICES ASSUME serial PROVE Cardinality(holders) <= 1
        OBVIOUS
      <3>1. CASE holders = {}
        BY <3>1, FS_EmptySet
      <3>2. CASE holders # {}
        <4>1. PICK c : c \in holders
          BY <3>2
        <4>2. holders = {c}
          BY <4>1 DEF LimitsInv, AloneBehindLock
        <4>3. Cardinality({c}) = 1
          BY FS_Singleton
        <4> QED
          BY <4>2, <4>3
      <3> QED
        BY <3>1, <3>2
    <2>3. \A c \in Callers : caller[c].pc = "idle" <=> caller[c].payer = {}
      BY DEF LimitsInv
    <2>4. LimitsTypeOK
      BY <2>2, <2>3 DEF LimitsInv, LimitsTypeOK, TakenRows
    <2> QED
      BY <2>1, <2>4 DEF LimitsInv, HoursAreBounded
  <1> QED
    BY <1>1, LimitsAlways, PTL
=============================================================================
