--------------------------- MODULE WorkspaceDives ---------------------------
(* A user's workspace of starter Dives, dive-provisioning.ts.  A request     *)
(* reads which starters its user lacks, waits for the source Dives, which   *)
(* each server process sets up once behind a shared promise, creates the    *)
(* user's own Dives, and saves them in one transaction.  Nothing is locked  *)
(* between the read and the save, and requests run in several processes.    *)
EXTENDS Naturals, FiniteSets

CONSTANTS
    Users,
    NumStarters,  \* starters of the dataset, set up in order
    NumEarlier,   \* those an earlier release already had
    Processes,    \* server processes
    Requests,     \* requests at a time
    MaxDives      \* bound on the Dives created

Starters == 1..NumStarters
NoDive == 0
Dives == 1..MaxDives
NoOwn == [dive |-> NoDive, source |-> NoDive]
Own == {NoOwn} \cup [dive : Dives, source : Dives]

ASSUME WorkspaceAssumption ==
    /\ NumStarters \in Nat \ {0} /\ MaxDives \in Nat
    /\ NumEarlier \in 0..NumStarters /\ 2 * NumEarlier <= MaxDives

VARIABLES
    made,      \* Dives created on MotherDuck so far: their ids are 1..made
    setting,   \* app.setting 'source_dive:<starter>'
    setup,     \* a process's sourceSetups entry: pc, next starter, and ids
    legacy,    \* app.workspace dive_ids and source_dive_ids of a user
    mapping,   \* app.workspace_dive rows of a user
    req,       \* the requests
    remade     \* history: starters whose source was stored over another

divesVars == <<made, setting, setup, legacy, mapping, req, remade>>

NoSetup == [pc |-> "none", at |-> 1, ids |-> [s \in Starters |-> NoDive]]
NoRequest == [pc |-> "idle", user |-> {}, proc |-> {}, missing |-> {},
              own |-> [s \in Starters |-> NoOwn]]

\* A user may have a workspace from the release before.
DivesInit ==
    \E old \in {{}} \cup {{u} : u \in Users} :
        /\ made = IF old = {} THEN 0 ELSE 2 * NumEarlier
        /\ setting = [s \in Starters |-> IF old # {} /\ s <= NumEarlier THEN s ELSE NoDive]
        /\ setup = [p \in Processes |-> NoSetup]
        /\ legacy = [u \in Users |-> [s \in Starters |->
                        IF u \in old /\ s <= NumEarlier
                        THEN [dive |-> NumEarlier + s, source |-> s] ELSE NoOwn]]
        /\ mapping = legacy
        /\ req = [r \in Requests |-> NoRequest]
        /\ remade = {}

-----------------------------------------------------------------------------
(* sourceDives of one process, one starter after the other                  *)

CreateDive == made < MaxDives /\ made' = made + 1
Running(p) == setup[p].pc \in {"look", "store"}
Advance(p, id) ==
    setup' = [setup EXCEPT ![p] = [pc |-> IF setup[p].at = NumStarters THEN "done" ELSE "look",
                                   at |-> setup[p].at + 1,
                                   ids |-> [setup[p].ids EXCEPT ![setup[p].at] = id]]]

SourceFound(p) ==
    /\ setup[p].pc = "look" /\ setting[setup[p].at] # NoDive
    /\ Advance(p, setting[setup[p].at])
    /\ UNCHANGED <<made, setting, legacy, mapping, req, remade>>

\* No id is stored: a Dive is created, while another process may do the same.
SourceCreated(p) ==
    /\ setup[p].pc = "look" /\ setting[setup[p].at] = NoDive /\ CreateDive
    /\ setup' = [setup EXCEPT ![p] = [pc |-> "store", at |-> setup[p].at,
                                      ids |-> [setup[p].ids EXCEPT ![setup[p].at] = made + 1]]]
    /\ UNCHANGED <<setting, legacy, mapping, req, remade>>

SourceStored(p) ==
    /\ setup[p].pc = "store"
    /\ setting' = [setting EXCEPT ![setup[p].at] = setup[p].ids[setup[p].at]]
    /\ remade' = IF setting[setup[p].at] = NoDive THEN remade ELSE remade \cup {setup[p].at}
    /\ Advance(p, setup[p].ids[setup[p].at])
    /\ UNCHANGED <<made, legacy, mapping, req>>

\* The promise is dropped, and everybody who waits for it fails with it.
SourcesFail(p) ==
    /\ Running(p) /\ setup' = [setup EXCEPT ![p] = NoSetup]
    /\ req' = [r \in Requests |-> IF req[r].pc = "wait" /\ req[r].proc = {p} THEN NoRequest
                                                                           ELSE req[r]]
    /\ UNCHANGED <<made, setting, legacy, mapping, remade>>

-----------------------------------------------------------------------------
(* ensureWorkspaceDataset                                                   *)

Missing(u) == {s \in Starters : mapping[u][s] = NoOwn}

\* The promise of the process is used if there is one.
Begin(r) ==
    /\ req[r].pc = "idle"
    /\ \E u \in Users, p \in Processes :
         /\ req' = [req EXCEPT ![r] = [pc |-> "wait", user |-> {u}, proc |-> {p},
                                       missing |-> Missing(u), own |-> NoRequest.own]]
         /\ setup' = IF setup[p].pc = "none" THEN [setup EXCEPT ![p].pc = "look"] ELSE setup
    /\ UNCHANGED <<made, setting, legacy, mapping, remade>>

Goto(r, pc) == req' = [req EXCEPT ![r].pc = pc]

SourcesReady(r) ==
    /\ req[r].pc = "wait" /\ \E p \in req[r].proc : setup[p].pc = "done"
    /\ Goto(r, IF req[r].missing = {} THEN "return" ELSE "create")
    /\ UNCHANGED <<made, setting, setup, legacy, mapping, remade>>

ToCreate(r) == {s \in req[r].missing : req[r].own[s] = NoOwn}

CreateOwn(r) ==
    /\ req[r].pc = "create" /\ CreateDive
    /\ \E s \in ToCreate(r), p \in req[r].proc :
         /\ \A t \in ToCreate(r) : s <= t
         /\ req' = [req EXCEPT ![r].own = [@ EXCEPT ![s] = [dive |-> made + 1, source |-> setup[p].ids[s]]]]
    /\ UNCHANGED <<setting, setup, legacy, mapping, remade>>

\* Variant: a row that names another Dive is not noticed.
FitsAnyway(u, own, missing) == TRUE

\* saveWorkspace: the columns of the workspace are merged and the rows inserted
\* where there are none; a row that says otherwise rolls everything back.
Fits(u, own, missing) ==
    \A s \in missing : mapping[u][s] \in {NoOwn, own[s]}

Merged(old, own, missing) == [s \in Starters |-> IF s \in missing THEN own[s] ELSE old[s]]
Inserted(old, own, missing) ==
    [s \in Starters |-> IF s \in missing /\ old[s] = NoOwn THEN own[s] ELSE old[s]]

Save(r) ==
    /\ req[r].pc = "create" /\ ToCreate(r) = {}
    /\ \E u \in req[r].user :
         IF Fits(u, req[r].own, req[r].missing)
         THEN /\ legacy' = [legacy EXCEPT ![u] = Merged(@, req[r].own, req[r].missing)]
              /\ mapping' = [mapping EXCEPT ![u] = Inserted(@, req[r].own, req[r].missing)]
              /\ Goto(r, "return")
         ELSE /\ UNCHANGED <<legacy, mapping>> /\ req' = [req EXCEPT ![r] = NoRequest]
    /\ UNCHANGED <<made, setting, setup, remade>>

\* The editor gets the workspace; or the request fails anywhere before that.
Leave(r) ==
    /\ req[r].pc # "idle" /\ req' = [req EXCEPT ![r] = NoRequest]
    /\ UNCHANGED <<made, setting, setup, legacy, mapping, remade>>

Restart(p) ==
    /\ setup[p].pc # "none" /\ setup' = [setup EXCEPT ![p] = NoSetup]
    /\ req' = [r \in Requests |-> IF req[r].proc = {p} THEN NoRequest ELSE req[r]]
    /\ UNCHANGED <<made, setting, legacy, mapping, remade>>

DivesNext ==
    \/ \E p \in Processes : SourceFound(p) \/ SourceCreated(p) \/ SourceStored(p)
                            \/ SourcesFail(p) \/ Restart(p)
    \/ \E r \in Requests : Begin(r) \/ SourcesReady(r) \/ CreateOwn(r) \/ Save(r) \/ Leave(r)

-----------------------------------------------------------------------------
DivesTypeOK ==
    /\ made \in 0..MaxDives /\ setting \in [Starters -> 0..MaxDives]
    /\ setup \in [Processes -> [pc : {"none", "look", "store", "done"}, at : 1..(NumStarters + 1),
                                ids : [Starters -> 0..MaxDives]]]
    /\ legacy \in [Users -> [Starters -> Own]] /\ mapping \in [Users -> [Starters -> Own]]
    /\ req \in [Requests -> [pc : {"idle", "wait", "create", "return"}, user : SUBSET Users,
                             proc : SUBSET Processes, missing : SUBSET Starters,
                             own : [Starters -> Own]]]
    /\ remade \subseteq Starters

\* A request that returns a workspace returns every starter, also when other
\* first visits of the user, in this process or another, were under way.
ReturnedIsWhole == \A r \in Requests : req[r].pc = "return" =>
    \A u \in req[r].user : Missing(u) = {}

\* What reconcile-workspace-dives.ts looks for never happens: the columns of a
\* workspace and its rows name the same Dives.
LegacyAgrees == legacy = mapping

\* Workspaces record the source Dive that is stored for the starter, unless two
\* processes set the starter up at once.
SourceIsStored ==
    \A u \in Users : \A s \in Starters \ remade :
        mapping[u][s] # NoOwn => mapping[u][s].source = setting[s]

\* A Dive that a user has edited is never swapped for a new one.
OwnedStays ==
    [][\A u \in Users : \A s \in Starters : mapping[u][s] # NoOwn => mapping'[u][s] = mapping[u][s]]_divesVars

\* However first visits overlap, fail and restart, a workspace has every starter
\* once, in its columns as in its rows, with the source it was made from.
WorkspacesAreWhole == DivesTypeOK /\ ReturnedIsWhole /\ LegacyAgrees /\ SourceIsStored
=============================================================================
