----------------------------- MODULE SignInProofs -----------------------------
(* What the allowlist and the webhook keep, for every number of addresses,   *)
(* identities, administrators' requests and deliveries.                      *)
EXTENDS SignIn, FiniteSetTheorems, TLAPS

-----------------------------------------------------------------------------
(* The allowlist.                                                           *)

LEMMA AccessInitial == AccessInit => AccessIsKept
<1> SUFFICES ASSUME AccessInit PROVE AccessIsKept
  OBVIOUS
<1> DEFINE First == [status |-> "active", role |-> "admin", subject |-> NoSubject]
<1>0. /\ NoRow \in Rows /\ NoRow.subject = NoSubject
      /\ First \in Rows /\ First.subject = NoSubject
  BY DEF NoRow, Rows, Roles
<1>1. \A e \in Emails : users[e] \in Rows /\ users[e].subject = NoSubject
  <2> TAKE e \in Emails
  <2>1. users[e] \in {NoRow, First}
    BY DEF AccessInit
  <2> QED
    BY <1>0, <2>1
<1>2. users \in [Emails -> Rows]
  BY <1>1 DEF AccessInit
<1>3. PICK e \in Emails : users[e] # NoRow
  BY DEF AccessInit
<1>4. users[e] = [status |-> "active", role |-> "admin", subject |-> NoSubject]
  BY <1>3 DEF AccessInit
<1>5. e \in ActiveAdmins
  BY <1>4 DEF ActiveAdmins, Active, NoRow
<1> QED
  BY <1>1, <1>2, <1>5 DEF AccessInit, AccessIsKept, AccessTypeOK, SomeAdminActive, SubjectsDistinct,
     RequestStatus

(* Where there is more than one active administrator, there is another one. *)
LEMMA AnotherAdmin ==
    ASSUME NEW e, ActiveAdmins # {}, e \notin ActiveAdmins \/ ~LastAdmin
    PROVE  \E f \in ActiveAdmins : f # e
<1>1. CASE e \notin ActiveAdmins
  BY <1>1
<1>2. CASE e \in ActiveAdmins /\ ~LastAdmin
  <2> SUFFICES ASSUME ActiveAdmins = {e} PROVE FALSE
    BY <1>2
  <2>1. Cardinality({e}) = 1
    BY FS_Singleton
  <2> QED
    BY <1>2, <2>1 DEF LastAdmin
<1> QED
  BY <1>1, <1>2

(* An administrator who keeps the row keeps the allowlist governed.         *)
LEMMA AdminKept ==
    ASSUME AccessTypeOK, SomeAdminActive, NEW e \in Emails, NEW new \in Rows,
           \/ users' = users
           \/ /\ users' = [users EXCEPT ![e] = new]
              /\ \/ new.status = "active" /\ new.role = "admin"
                 \/ new.status = "active" /\ new.role = users[e].role
                 \/ e \notin ActiveAdmins \/ ~LastAdmin,
           UNCHANGED scripted
    PROVE  SomeAdminActive'
<1> SUFFICES ASSUME ~scripted PROVE ActiveAdmins' # {}
  BY DEF SomeAdminActive
<1> USE DEF ActiveAdmins, Active
<1>1. ActiveAdmins # {} /\ users \in [Emails -> Rows]
  BY DEF SomeAdminActive, AccessTypeOK
<1>2. CASE users' = users
  BY <1>1, <1>2
<1>3. CASE users' = [users EXCEPT ![e] = new] /\ new.status = "active" /\ new.role = "admin"
  <2>1. users'[e] = new
    BY <1>1, <1>3
  <2> QED
    BY <1>3, <2>1
<1>4. CASE users' = [users EXCEPT ![e] = new] /\ new.status = "active" /\ new.role = users[e].role
  <2>1. PICK f \in ActiveAdmins : TRUE
    BY <1>1
  <2>2. f \in ActiveAdmins'
    BY <1>1, <1>4, <2>1
  <2> QED
    BY <2>2
<1>5. CASE users' = [users EXCEPT ![e] = new] /\ (e \notin ActiveAdmins \/ ~LastAdmin)
  <2>1. PICK f \in ActiveAdmins : f # e
    BY <1>1, <1>5, AnotherAdmin
  <2>2. users'[f] = users[f]
    BY <1>1, <1>5, <2>1
  <2> QED
    BY <2>1, <2>2
<1> QED
  BY <1>2, <1>3, <1>4, <1>5

(* A row that changes without its subject keeps the subjects apart.         *)
LEMMA SubjectsKept ==
    ASSUME AccessTypeOK, SubjectsDistinct, NEW e \in Emails, NEW new \in Rows,
           new.subject = users[e].subject,
           users' \in {users, [users EXCEPT ![e] = new]}
    PROVE  SubjectsDistinct'
BY DEF AccessTypeOK, SubjectsDistinct

LEMMA RowTypes ==
    ASSUME AccessTypeOK, NEW e \in Emails
    PROVE  /\ \A role \in Roles : /\ Granted(users[e], role) \in Rows
                                  /\ Granted(users[e], role).status = "active"
                                  /\ Granted(users[e], role).role = role
                                  /\ Granted(users[e], role).subject = users[e].subject
           /\ \A s \in {"active", "revoked"} :
                /\ [users[e] EXCEPT !.status = s] \in Rows
                /\ [users[e] EXCEPT !.status = s].status = s
                /\ [users[e] EXCEPT !.status = s].role = users[e].role
                /\ [users[e] EXCEPT !.status = s].subject = users[e].subject
BY DEF AccessTypeOK, Rows, Granted

(* A decision of an administrator or a script on one row.                   *)
LEMMA RowChanges ==
    ASSUME AccessIsKept, NEW e \in Emails, NEW new \in Rows,
           new.subject = users[e].subject,
           \/ users' = users
           \/ /\ users' = [users EXCEPT ![e] = new]
              /\ \/ scripted'
                 \/ new.status = "active" /\ new.role = "admin"
                 \/ new.status = "active" /\ new.role = users[e].role
                 \/ e \notin ActiveAdmins \/ ~LastAdmin,
           scripted' \in {scripted, TRUE},
           requests' \in [Emails -> RequestStatus], actor' \in [AdminCalls -> SUBSET Emails]
    PROVE  AccessIsKept'
<1>1. AccessTypeOK'
  BY DEF AccessIsKept, AccessTypeOK
<1>2. SomeAdminActive'
  BY AdminKept DEF AccessIsKept, SomeAdminActive
<1>3. SubjectsDistinct'
  BY SubjectsKept DEF AccessIsKept
<1> QED
  BY <1>1, <1>2, <1>3 DEF AccessIsKept

LEMMA AuthenticateKeeps == AccessIsKept /\ Authenticate => AccessIsKept'
<1> SUFFICES ASSUME AccessIsKept, NEW i \in Identities, NEW c \in AdminCalls, CanLink(i[1], i[2]),
                    users' = Linked(i[1], i[2]),
                    actor' = IF users[i[2]].role = "admin" THEN [actor EXCEPT ![c] = {i[2]}] ELSE actor,
                    UNCHANGED <<requests, scripted>>
             PROVE  AccessIsKept'
  BY DEF Authenticate
<1> DEFINE s == i[1]  e == i[2]
<1>1. e \in Emails /\ s \in Subjects
  BY AccessAssumption DEF Subjects
<1>2. users \in [Emails -> Rows] /\ actor \in [AdminCalls -> SUBSET Emails]
  BY DEF AccessIsKept, AccessTypeOK
<1>3. users' = [users EXCEPT ![e] = [users[e] EXCEPT !.subject = s]]
  BY <1>2 DEF Linked
<1>4. [users[e] EXCEPT !.subject = s] \in Rows
  BY <1>1, <1>2 DEF Rows
<1>5. AccessTypeOK'
  BY <1>1, <1>2, <1>3, <1>4 DEF AccessIsKept, AccessTypeOK
<1>6. \A f \in Emails : users'[f].status = users[f].status /\ users'[f].role = users[f].role
  BY <1>1, <1>2, <1>3 DEF Rows
<1>7. ActiveAdmins' = ActiveAdmins
  BY <1>6 DEF ActiveAdmins, Active
<1>8. \A f \in Emails : f # e => users'[f] = users[f] /\ users[f].subject # s
  BY <1>1, <1>2, <1>3 DEF CanLink
<1>9. users'[e].subject = s
  BY <1>1, <1>2, <1>3 DEF Rows
<1>10. SubjectsDistinct'
  BY <1>8, <1>9 DEF AccessIsKept, SubjectsDistinct
<1> QED
  BY <1>5, <1>7, <1>10 DEF AccessIsKept, SomeAdminActive

LEMMA AccessKept == AccessIsKept /\ [AccessNext]_accessVars => AccessIsKept'
<1> SUFFICES ASSUME AccessIsKept, [AccessNext]_accessVars PROVE AccessIsKept'
  OBVIOUS
<1>1. /\ requests \in [Emails -> RequestStatus] /\ actor \in [AdminCalls -> SUBSET Emails]
      /\ users \in [Emails -> Rows]
  BY DEF AccessIsKept, AccessTypeOK
<1>2. \A c \in AdminCalls : Answered(c) => actor' \in [AdminCalls -> SUBSET Emails]
  BY <1>1 DEF Answered
<1>3. CASE Authenticate
  BY <1>3, AuthenticateKeeps
<1>4. ASSUME NEW c \in AdminCalls, NEW e \in Emails, NEW role \in Roles, Upsert(c, e, role)
      PROVE  AccessIsKept'
  <2>1. \/ users' = users
        \/ /\ users' = [users EXCEPT ![e] = Granted(users[e], role)]
           /\ role = "admin" \/ e \notin ActiveAdmins \/ ~LastAdmin
    BY <1>1, <1>4 DEF Upsert, ActiveAdmins
  <2>2. UNCHANGED <<requests, scripted>> /\ Answered(c)
    BY <1>4 DEF Upsert
  <2>3. AccessTypeOK
    BY DEF AccessIsKept
  <2> DEFINE new == Granted(users[e], role)
  <2>4. new \in Rows /\ new.subject = users[e].subject /\ new.status = "active" /\ new.role = role
    BY <2>3, RowTypes
  <2> HIDE DEF new
  <2> QED
    BY <1>1, <1>2, <2>1, <2>2, <2>4, RowChanges DEF new
<1>5. ASSUME NEW c \in AdminCalls, NEW e \in Emails, Revoke(c, e) PROVE AccessIsKept'
  <2>1. \/ users' = users
        \/ /\ users' = [users EXCEPT ![e] = [users[e] EXCEPT !.status = "revoked"]]
           /\ e \notin ActiveAdmins \/ ~LastAdmin
    BY <1>1, <1>5 DEF Revoke
  <2>2. UNCHANGED <<requests, scripted>> /\ Answered(c)
    BY <1>5 DEF Revoke
  <2>3. AccessTypeOK
    BY DEF AccessIsKept
  <2> DEFINE new == [users[e] EXCEPT !.status = "revoked"]
  <2>4. new \in Rows /\ new.subject = users[e].subject /\ new.role = users[e].role
    BY <2>3, RowTypes
  <2> HIDE DEF new
  <2> QED
    BY <1>1, <1>2, <2>1, <2>2, <2>4, RowChanges DEF new
<1>6. ASSUME NEW c \in AdminCalls, NEW e \in Emails, NEW approve \in BOOLEAN, Review(c, e, approve)
      PROVE  AccessIsKept'
  <2>1. users' \in {users, [users EXCEPT ![e] = [users[e] EXCEPT !.status = "active"]]}
    BY <1>1, <1>6 DEF Review
  <2>2. UNCHANGED scripted /\ Answered(c) /\ requests' \in [Emails -> RequestStatus]
    BY <1>1, <1>6 DEF Review, RequestStatus
  <2>3. AccessTypeOK
    BY DEF AccessIsKept
  <2> DEFINE new == [users[e] EXCEPT !.status = "active"]
  <2>4. new \in Rows /\ new.subject = users[e].subject /\ new.status = "active" /\ new.role = users[e].role
    BY <2>3, RowTypes
  <2> HIDE DEF new
  <2> QED
    BY <1>1, <1>2, <2>1, <2>2, <2>4, RowChanges DEF new
<1>7. ASSUME NEW e \in Emails, NEW role \in Roles, ScriptAdd(e, role) PROVE AccessIsKept'
  <2>1. users' = [users EXCEPT ![e] = Granted(users[e], role)]
    BY <1>1, <1>7 DEF ScriptAdd
  <2>2. scripted' = TRUE /\ UNCHANGED <<requests, actor>>
    BY <1>1, <1>7 DEF ScriptAdd
  <2>3. AccessTypeOK
    BY DEF AccessIsKept
  <2> DEFINE new == Granted(users[e], role)
  <2>4. new \in Rows /\ new.subject = users[e].subject /\ new.status = "active"
    BY <2>3, RowTypes
  <2> HIDE DEF new
  <2> QED
    BY <1>1, <1>2, <2>1, <2>2, <2>4, RowChanges DEF new
<1>8. ASSUME NEW e \in Emails, ScriptRevoke(e) PROVE AccessIsKept'
  <2>1. users' = [users EXCEPT ![e] = [users[e] EXCEPT !.status = "revoked"]]
    BY <1>1, <1>8 DEF ScriptRevoke
  <2>2. scripted' = TRUE /\ UNCHANGED <<requests, actor>>
    BY <1>1, <1>8 DEF ScriptRevoke
  <2>3. AccessTypeOK
    BY DEF AccessIsKept
  <2> DEFINE new == [users[e] EXCEPT !.status = "revoked"]
  <2>4. new \in Rows /\ new.subject = users[e].subject /\ new.role = users[e].role
    BY <2>3, RowTypes
  <2> HIDE DEF new
  <2> QED
    BY <1>1, <1>2, <2>1, <2>2, <2>4, RowChanges DEF new
<1>9. CASE UNCHANGED accessVars
  BY <1>9 DEF accessVars, AccessIsKept, AccessTypeOK, SomeAdminActive, SubjectsDistinct, ActiveAdmins, Active
<1> QED
  BY <1>3, <1>4, <1>5, <1>6, <1>7, <1>8, <1>9 DEF AccessNext
-----------------------------------------------------------------------------
(* Events and mails.                                                        *)

\* A handler is at work on event v.
OnEvent(d, v) == delivery[d].pc # "idle" /\ delivery[d].ev = v

\* As long as nothing gave a later delivery reason to send again, one handler
\* at a time has the event, and it holds the only mail, if there is one.
ClaimInv(v) ==
    /\ ~old[v] /\ mails[v] <= 1
    /\ row[v] \in {"none", "failed"} => mails[v] = 0
    /\ \A d \in Deliveries : OnEvent(d, v) =>
          row[v] = "processing" /\ (mails[v] = 0 \/ delivery[d].pc = "finish")
    /\ \A d, f \in Deliveries : OnEvent(d, v) /\ OnEvent(f, v) => d = f

EventInv(v) ==
    /\ row[v] = "succeeded" => mails[v] > 0
    /\ \A d \in Deliveries : OnEvent(d, v) /\ delivery[d].pc = "finish" => mails[v] > 0
    /\ ~retried[v] => ClaimInv(v)

MailsInv ==
    /\ TypeOK
    /\ \A d \in Deliveries : delivery[d].pc # "idle" => delivery[d].ev \in Events
    /\ \A v \in Events : EventInv(v)

LEMMA MailsInitial == Init => MailsInv
<1> SUFFICES ASSUME Init PROVE MailsInv
  OBVIOUS
<1>1. AccessTypeOK
  BY AccessInitial DEF Init, AccessIsKept
<1>2. TypeOK
  BY <1>1 DEF Init, TypeOK, Statuses, NoDelivery
<1>3. \A d \in Deliveries : delivery[d].pc = "idle"
  BY DEF Init, NoDelivery
<1> QED
  BY <1>2, <1>3 DEF Init, MailsInv, EventInv, ClaimInv, OnEvent

(* A step of a handler leaves every other event as it was.                  *)
LEMMA OtherEventKept ==
    ASSUME MailsInv, NEW d \in Deliveries, NEW x, NEW w \in Events,
           delivery' = [delivery EXCEPT ![d] = x], x.pc = "idle" \/ x.ev # w,
           row'[w] = row[w], old'[w] = old[w], mails'[w] = mails[w], retried'[w] = retried[w]
    PROVE  EventInv(w)'
<1>1. delivery \in [Deliveries -> [pc : {"idle", "check", "send", "refuse", "finish"},
                                   ev : Events \cup {0}]]
  BY DEF MailsInv, TypeOK
<1>2. \A f \in Deliveries : f # d => delivery'[f] = delivery[f]
  BY <1>1
<1>3. ~OnEvent(d, w)'
  BY <1>1 DEF OnEvent
<1>4. \A f \in Deliveries : OnEvent(f, w)' => OnEvent(f, w) /\ delivery'[f] = delivery[f]
  BY <1>2, <1>3 DEF OnEvent
<1>5. EventInv(w)
  BY DEF MailsInv
<1> QED
  BY <1>4, <1>5 DEF EventInv, ClaimInv

(* A handler that goes on stays on its event.                               *)
LEMMA GotoStays ==
    ASSUME MailsInv, NEW d \in Deliveries, delivery[d].pc # "idle",
           NEW to \in {"send", "refuse", "finish"}, Goto(d, to)
    PROVE  /\ delivery[d].ev \in Events
           /\ delivery' = [delivery EXCEPT ![d] = [pc |-> to, ev |-> delivery[d].ev]]
           /\ delivery' \in [Deliveries -> [pc : {"idle", "check", "send", "refuse", "finish"},
                                            ev : Events \cup {0}]]
           /\ \A f \in Deliveries : delivery'[f].pc # "idle" => delivery'[f].ev \in Events
           /\ \A f \in Deliveries : f # d => delivery'[f] = delivery[f]
           /\ delivery'[d].pc = to
           /\ \A f \in Deliveries, v \in Events : OnEvent(f, v)' <=> OnEvent(f, v)
<1>1. delivery \in [Deliveries -> [pc : {"idle", "check", "send", "refuse", "finish"},
                                   ev : Events \cup {0}]]
  BY DEF MailsInv, TypeOK
<1>2. delivery[d].ev \in Events
  BY DEF MailsInv
<1>3. delivery' = [delivery EXCEPT ![d] = [pc |-> to, ev |-> delivery[d].ev]]
  <2>1. [delivery[d] EXCEPT !.pc = to] = [pc |-> to, ev |-> delivery[d].ev]
    BY <1>1
  <2> QED
    BY <2>1 DEF Goto
<1>4. delivery'[d] = [pc |-> to, ev |-> delivery[d].ev]
  BY <1>1, <1>3
<1>5. \A f \in Deliveries : f # d => delivery'[f] = delivery[f]
  BY <1>1, <1>3
<1> QED
  BY <1>1, <1>2, <1>3, <1>4, <1>5 DEF MailsInv, OnEvent

(* A handler that ends, answered or not, leaves no handler behind.          *)
LEMMA LeaveKeeps ==
    ASSUME MailsInv, NEW d \in Deliveries, delivery[d].pc # "idle",
           delivery' = [delivery EXCEPT ![d] = NoDelivery]
    PROVE  /\ delivery[d].ev \in Events
           /\ delivery' \in [Deliveries -> [pc : {"idle", "check", "send", "refuse", "finish"},
                                            ev : Events \cup {0}]]
           /\ \A f \in Deliveries : delivery'[f].pc # "idle" => delivery'[f].ev \in Events
           /\ \A f \in Deliveries, v \in Events :
                 OnEvent(f, v)' => f # d /\ OnEvent(f, v) /\ delivery'[f] = delivery[f]
<1>1. delivery \in [Deliveries -> [pc : {"idle", "check", "send", "refuse", "finish"},
                                   ev : Events \cup {0}]]
  BY DEF MailsInv, TypeOK
<1>2. delivery'[d] = [pc |-> "idle", ev |-> 0]
  BY <1>1 DEF NoDelivery
<1>3. \A f \in Deliveries : f # d => delivery'[f] = delivery[f]
  BY <1>1
<1> QED
  BY <1>1, <1>2, <1>3 DEF MailsInv, OnEvent, NoDelivery

LEMMA ClaimKeeps == ASSUME MailsInv, NEW d \in Deliveries, Claim(d) PROVE MailsInv'
<1> PICK v \in Made :
      /\ Claimable(v)
      /\ delivery' = [delivery EXCEPT ![d] = [pc |-> "check", ev |-> v]]
      /\ row' = [row EXCEPT ![v] = "processing"] /\ old' = [old EXCEPT ![v] = FALSE]
  BY DEF Claim
<1>1. /\ delivery[d].pc = "idle" /\ v \in Events
      /\ UNCHANGED <<accessVars, event, mails, retried>>
  BY DEF Claim, Made
<1>2. TypeOK
  BY DEF MailsInv
<1>3. TypeOK'
  BY <1>1, <1>2 DEF TypeOK, AccessTypeOK, accessVars, Statuses
<1>4. /\ delivery'[d] = [pc |-> "check", ev |-> v]
      /\ \A f \in Deliveries : f # d => delivery'[f] = delivery[f]
      /\ row'[v] = "processing" /\ old'[v] = FALSE
  BY <1>1, <1>2 DEF TypeOK
<1>5. EventInv(v)'
  <2>1. EventInv(v)
    BY <1>1 DEF MailsInv
  <2>2. SUFFICES ASSUME ~retried[v] PROVE ClaimInv(v)'
    BY <1>1, <1>4, <2>1 DEF EventInv, OnEvent
  <2>3. ClaimInv(v)
    BY <2>1, <2>2 DEF EventInv
  <2>4. row[v] \in {"none", "failed"} /\ mails[v] = 0
    BY <2>3 DEF Claimable, ClaimInv
  <2>5. \A f \in Deliveries : ~OnEvent(f, v)
    BY <2>3, <2>4 DEF ClaimInv
  <2> QED
    BY <1>1, <1>4, <2>4, <2>5 DEF ClaimInv, OnEvent
<1>6. \A w \in Events : w # v => EventInv(w)'
  BY <1>1, <1>2, OtherEventKept DEF TypeOK
<1> QED
  BY <1>1, <1>3, <1>4, <1>5, <1>6 DEF MailsInv

LEMMA CheckListedKeeps == ASSUME MailsInv, NEW d \in Deliveries, CheckListed(d) PROVE MailsInv'
<1> DEFINE v == delivery[d].ev
<1>1. /\ delivery[d].pc = "check" /\ UNCHANGED <<accessVars, event, row, old, mails, retried>>
      /\ \E pc \in {"send", "refuse"} : Goto(d, pc)
  BY DEF CheckListed
<1>2. PICK pc \in {"send", "refuse"} : Goto(d, pc)
  BY <1>1
<1>3. /\ v \in Events /\ delivery'[d].pc = pc
      /\ delivery' \in [Deliveries -> [pc : {"idle", "check", "send", "refuse", "finish"},
                                       ev : Events \cup {0}]]
      /\ \A f \in Deliveries : delivery'[f].pc # "idle" => delivery'[f].ev \in Events
      /\ \A f \in Deliveries : f # d => delivery'[f] = delivery[f]
      /\ \A f \in Deliveries, w \in Events : OnEvent(f, w)' <=> OnEvent(f, w)
  BY <1>1, <1>2, GotoStays
<1>4. TypeOK'
  BY <1>1, <1>3 DEF MailsInv, TypeOK, AccessTypeOK, accessVars
<1>5. \A w \in Events : EventInv(w)'
  BY <1>1, <1>2, <1>3 DEF MailsInv, EventInv, ClaimInv
<1> QED
  BY <1>3, <1>4, <1>5 DEF MailsInv

LEMMA SendMailKeeps == ASSUME MailsInv, NEW d \in Deliveries, SendMail(d) PROVE MailsInv'
<1>0. PICK v \in Events : v = delivery[d].ev
  BY DEF MailsInv, SendMail
<1> PICK accepted \in BOOLEAN, answered \in BOOLEAN :
      /\ mails' = [mails EXCEPT ![v] = IF accepted THEN @ + 1 ELSE @]
      /\ Goto(d, IF accepted /\ answered THEN "finish" ELSE "refuse")
      /\ retried' = [retried EXCEPT ![v] = @ \/ (accepted /\ ~answered)]
  BY <1>0 DEF SendMail
<1> DEFINE to == IF accepted /\ answered THEN "finish" ELSE "refuse"
<1>1. delivery[d].pc = "send" /\ UNCHANGED <<accessVars, event, row, old>>
  BY DEF SendMail
<1>2. to \in {"send", "refuse", "finish"} /\ Goto(d, to)
  OBVIOUS
<1> HIDE DEF to
<1>3. /\ v \in Events /\ delivery'[d].pc = to
      /\ delivery' = [delivery EXCEPT ![d] = [pc |-> to, ev |-> v]]
      /\ delivery' \in [Deliveries -> [pc : {"idle", "check", "send", "refuse", "finish"},
                                       ev : Events \cup {0}]]
      /\ \A f \in Deliveries : delivery'[f].pc # "idle" => delivery'[f].ev \in Events
      /\ \A f \in Deliveries : f # d => delivery'[f] = delivery[f]
      /\ \A f \in Deliveries, w \in Events : OnEvent(f, w)' <=> OnEvent(f, w)
  BY <1>0, <1>1, <1>2, GotoStays
<1>4. TypeOK
  BY DEF MailsInv
<1>5. mails' \in [Events -> Nat] /\ retried' \in [Events -> BOOLEAN]
  <2> DEFINE n == IF accepted THEN mails[v] + 1 ELSE mails[v]
             b == retried[v] \/ (accepted /\ ~answered)
  <2>1. n \in Nat
    BY <1>4 DEF TypeOK
  <2>2. b \in BOOLEAN
    OBVIOUS
  <2> HIDE DEF n, b
  <2>3. mails' = [mails EXCEPT ![v] = n] /\ retried' = [retried EXCEPT ![v] = b]
    BY DEF n, b
  <2> QED
    BY <1>4, <2>1, <2>2, <2>3 DEF TypeOK
<1>6. TypeOK'
  BY <1>1, <1>3, <1>4, <1>5 DEF TypeOK, AccessTypeOK, accessVars
<1>7. /\ mails'[v] = IF accepted THEN mails[v] + 1 ELSE mails[v]
      /\ retried'[v] = (retried[v] \/ (accepted /\ ~answered))
      /\ mails[v] \in Nat
  BY <1>3, <1>4 DEF TypeOK
<1>8. OnEvent(d, v) /\ EventInv(v)
  BY <1>0, <1>1 DEF MailsInv, OnEvent
<1>9. EventInv(v)'
  <2>1. mails'[v] >= mails[v]
    BY <1>7
  <2>2. row'[v] = "succeeded" => mails'[v] > 0
    BY <1>1, <1>5, <1>7, <1>8, <2>1 DEF EventInv
  <2>3. \A f \in Deliveries : OnEvent(f, v)' /\ delivery'[f].pc = "finish" => mails'[v] > 0
    <3> SUFFICES ASSUME NEW f \in Deliveries, OnEvent(f, v)', delivery'[f].pc = "finish"
                 PROVE  mails'[v] > 0
      OBVIOUS
    <3>1. CASE f = d
      BY <1>3, <1>7, <3>1 DEF to
    <3>2. CASE f # d
      BY <1>3, <1>7, <1>8, <2>1, <3>2 DEF EventInv
    <3> QED
      BY <3>1, <3>2
  <2>4. ASSUME ~retried'[v] PROVE ClaimInv(v)'
    <3>1. ~retried[v] /\ (accepted => answered)
      BY <1>7, <2>4
    <3>2. ClaimInv(v)
      BY <1>8, <3>1 DEF EventInv
    <3>3. row[v] = "processing" /\ mails[v] = 0 /\ \A f \in Deliveries : OnEvent(f, v) => f = d
      BY <1>1, <1>8, <3>2 DEF ClaimInv
    <3>4. mails'[v] = 0 \/ (to = "finish" /\ mails'[v] = 1)
      BY <1>7, <3>1, <3>3 DEF to
    <3> QED
      BY <1>1, <1>3, <3>2, <3>3, <3>4 DEF ClaimInv
  <2> QED
    BY <2>2, <2>3, <2>4 DEF EventInv
<1>10. ASSUME NEW w \in Events, w # v PROVE EventInv(w)'
  <2>1. mails'[w] = mails[w] /\ retried'[w] = retried[w]
    BY <1>4, <1>10 DEF TypeOK
  <2> QED
    BY <1>1, <1>3, <1>10, <2>1, OtherEventKept
<1> QED
  BY <1>3, <1>6, <1>9, <1>10 DEF MailsInv

LEMMA FinishKeeps == ASSUME MailsInv, NEW d \in Deliveries, Finish(d) PROVE MailsInv'
<1>0. PICK v \in Events : v = delivery[d].ev
  BY DEF MailsInv, Finish
<1>1. delivery[d].pc \in {"finish", "refuse"} /\ UNCHANGED <<accessVars, event, mails>>
  BY DEF Finish
<1>2. TypeOK /\ v \in Events /\ EventInv(v) /\ OnEvent(d, v)
  BY <1>0, <1>1 DEF MailsInv, OnEvent
<1>3. CASE /\ row' = [row EXCEPT ![v] = IF delivery[d].pc = "finish" THEN "succeeded" ELSE "failed"]
           /\ old' = [old EXCEPT ![v] = FALSE]
           /\ delivery' = [delivery EXCEPT ![d] = NoDelivery] /\ UNCHANGED retried
  <2>1. /\ delivery' \in [Deliveries -> [pc : {"idle", "check", "send", "refuse", "finish"},
                                         ev : Events \cup {0}]]
        /\ \A f \in Deliveries : delivery'[f].pc # "idle" => delivery'[f].ev \in Events
        /\ \A f \in Deliveries, w \in Events :
              OnEvent(f, w)' => f # d /\ OnEvent(f, w) /\ delivery'[f] = delivery[f]
    BY <1>1, <1>3, LeaveKeeps
  <2>2. TypeOK'
    BY <1>1, <1>2, <1>3, <2>1 DEF TypeOK, AccessTypeOK, accessVars, Statuses
  <2>3. /\ row'[v] = IF delivery[d].pc = "finish" THEN "succeeded" ELSE "failed"
        /\ old'[v] = FALSE
    BY <1>2, <1>3 DEF TypeOK
  <2>4. /\ delivery[d].pc = "finish" => mails[v] > 0
        /\ \A f \in Deliveries : OnEvent(f, v)' /\ delivery'[f].pc = "finish" => mails[v] > 0
    BY <1>2, <2>1 DEF EventInv
  <2>5. ASSUME ~retried[v] PROVE ClaimInv(v)'
    <3>1. ClaimInv(v)
      BY <1>2, <2>5 DEF EventInv
    <3>2. \A f \in Deliveries : ~OnEvent(f, v)'
      BY <1>2, <2>1, <3>1 DEF ClaimInv
    <3>3. delivery[d].pc = "refuse" => mails[v] = 0
      BY <1>2, <3>1 DEF ClaimInv
    <3> QED
      BY <1>1, <2>3, <3>1, <3>2, <3>3 DEF ClaimInv
  <2>6. EventInv(v)'
    BY <1>1, <1>3, <2>3, <2>4, <2>5 DEF EventInv
  <2>7. ASSUME NEW w \in Events, w # v PROVE EventInv(w)'
    <3>1. row'[w] = row[w] /\ old'[w] = old[w]
      BY <1>2, <1>3, <2>7 DEF TypeOK
    <3>2. NoDelivery.pc = "idle"
      BY DEF NoDelivery
    <3> QED
      BY <1>1, <1>3, <2>7, <3>1, <3>2, OtherEventKept
  <2> QED
    BY <2>1, <2>2, <2>6, <2>7 DEF MailsInv
<1>4. CASE /\ delivery[d].pc = "finish" /\ Goto(d, "refuse")
           /\ retried' = [retried EXCEPT ![v] = TRUE] /\ UNCHANGED <<row, old>>
  <2>1. /\ delivery' = [delivery EXCEPT ![d] = [pc |-> "refuse", ev |-> v]]
        /\ delivery' \in [Deliveries -> [pc : {"idle", "check", "send", "refuse", "finish"},
                                         ev : Events \cup {0}]]
        /\ \A f \in Deliveries : delivery'[f].pc # "idle" => delivery'[f].ev \in Events
        /\ \A f \in Deliveries : f # d => delivery'[f] = delivery[f]
        /\ delivery'[d].pc = "refuse"
        /\ \A f \in Deliveries, w \in Events : OnEvent(f, w)' <=> OnEvent(f, w)
    BY <1>0, <1>1, <1>4, GotoStays
  <2>2. TypeOK'
    BY <1>1, <1>2, <1>4, <2>1 DEF TypeOK, AccessTypeOK, accessVars
  <2>3. EventInv(v)'
    <3>1. retried'[v] = TRUE
      BY <1>2, <1>4 DEF TypeOK
    <3> QED
      BY <1>1, <1>2, <1>4, <2>1, <3>1 DEF EventInv
  <2>4. ASSUME NEW w \in Events, w # v PROVE EventInv(w)'
    <3>1. retried'[w] = retried[w]
      BY <1>2, <1>4, <2>4 DEF TypeOK
    <3> QED
      BY <1>1, <1>4, <2>1, <2>4, <3>1, OtherEventKept
  <2> QED
    BY <2>1, <2>2, <2>3, <2>4 DEF MailsInv
<1> QED
  BY <1>0, <1>1, <1>3, <1>4 DEF Finish

LEMMA DieKeeps == ASSUME MailsInv, NEW d \in Deliveries, Die(d) PROVE MailsInv'
<1>1. /\ delivery' \in [Deliveries -> [pc : {"idle", "check", "send", "refuse", "finish"},
                                       ev : Events \cup {0}]]
      /\ \A f \in Deliveries : delivery'[f].pc # "idle" => delivery'[f].ev \in Events
      /\ \A f \in Deliveries, w \in Events :
            OnEvent(f, w)' => f # d /\ OnEvent(f, w) /\ delivery'[f] = delivery[f]
  BY LeaveKeeps DEF Die
<1>2. UNCHANGED <<accessVars, event, row, old, mails, retried>>
  BY DEF Die
<1>3. TypeOK'
  BY <1>1, <1>2 DEF MailsInv, TypeOK, AccessTypeOK, accessVars
<1>4. \A w \in Events : EventInv(w)'
  BY <1>1, <1>2 DEF MailsInv, EventInv, ClaimInv
<1> QED
  BY <1>1, <1>3, <1>4 DEF MailsInv

LEMMA ClockKeeps == MailsInv /\ HalfMinutePasses => MailsInv'
<1> SUFFICES ASSUME MailsInv, HalfMinutePasses PROVE MailsInv'
  OBVIOUS
<1> PICK v \in Made : old' = [old EXCEPT ![v] = TRUE] /\ retried' = [retried EXCEPT ![v] = TRUE]
  BY DEF HalfMinutePasses
<1>1. v \in Events /\ UNCHANGED <<accessVars, event, row, delivery, mails>>
  BY DEF HalfMinutePasses, Made
<1>2. TypeOK /\ TypeOK'
  BY <1>1 DEF MailsInv, TypeOK, AccessTypeOK, accessVars
<1>3. retried'[v] = TRUE /\ \A w \in Events : w # v => old'[w] = old[w] /\ retried'[w] = retried[w]
  BY <1>1, <1>2 DEF TypeOK
<1>4. \A w \in Events : EventInv(w)'
  BY <1>1, <1>3 DEF MailsInv, EventInv, ClaimInv, OnEvent
<1> QED
  BY <1>1, <1>2, <1>4 DEF MailsInv

(* What happens elsewhere.                                                  *)
LEMMA ElsewhereKeeps ==
    ASSUME MailsInv, AccessTypeOK', event' \in [Events -> SUBSET Emails],
           UNCHANGED <<row, old, delivery, mails, retried>>
    PROVE  MailsInv'
BY DEF MailsInv, TypeOK, EventInv, ClaimInv, OnEvent

SignInInv == AccessIsKept /\ MailsInv

LEMMA SignInKept == SignInInv /\ [Next]_vars => SignInInv'
<1> SUFFICES ASSUME SignInInv, [Next]_vars PROVE SignInInv'
  OBVIOUS
<1>1. AccessIsKept /\ MailsInv /\ TypeOK
  BY DEF SignInInv, MailsInv
<1>2. ASSUME UNCHANGED accessVars PROVE AccessIsKept'
  BY <1>1, <1>2, AccessKept
<1>3. CASE AccessNext /\ UNCHANGED signInVars
  <2>1. AccessIsKept'
    BY <1>1, <1>3, AccessKept
  <2>2. MailsInv'
    BY <1>1, <1>3, <2>1, ElsewhereKeeps DEF AccessIsKept, signInVars, TypeOK
  <2> QED
    BY <2>1, <2>2 DEF SignInInv
<1>4. CASE RequestLink
  <2>1. event' \in [Events -> SUBSET Emails]
    <3> DEFINE n == Cardinality(Made) + 1
    <3>1. PICK e \in Emails : event' = [event EXCEPT ![n] = {e}]
      BY <1>4 DEF RequestLink
    <3> HIDE DEF n
    <3>2. {e} \in SUBSET Emails /\ event \in [Events -> SUBSET Emails]
      BY <1>1 DEF TypeOK
    <3> QED
      BY <3>1, <3>2
  <2>2. UNCHANGED accessVars /\ UNCHANGED <<row, old, delivery, mails, retried>>
    BY <1>4 DEF RequestLink
  <2> QED
    BY <1>1, <1>2, <2>1, <2>2, ElsewhereKeeps DEF AccessIsKept, SignInInv
<1>5. CASE AskForAccess
  <2>1. PICK e \in Emails : SubmitRequest(e)
    BY <1>5 DEF AskForAccess
  <2>2. UNCHANGED <<users, actor, scripted, signInVars>>
    BY <1>5 DEF AskForAccess
  <2>3. requests' \in [Emails -> RequestStatus]
    BY <1>1, <2>1 DEF SubmitRequest, AccessIsKept, AccessTypeOK, RequestStatus
  <2>4. AccessIsKept'
    BY <1>1, <2>2, <2>3 DEF AccessIsKept, AccessTypeOK, SomeAdminActive, SubjectsDistinct,
       ActiveAdmins, Active
  <2> QED
    BY <1>1, <2>2, <2>4, ElsewhereKeeps DEF AccessIsKept, signInVars, TypeOK, SignInInv
<1>6. CASE HalfMinutePasses
  <2>1. UNCHANGED accessVars
    BY <1>6 DEF HalfMinutePasses
  <2> QED
    BY <1>1, <1>2, <1>6, <2>1, ClockKeeps DEF SignInInv
<1>7. ASSUME NEW d \in Deliveries, Claim(d) \/ CheckListed(d) \/ SendMail(d) \/ Finish(d) \/ Die(d)
      PROVE  SignInInv'
  <2>1. UNCHANGED accessVars
    BY <1>7 DEF Claim, CheckListed, SendMail, Finish, Die
  <2>2. MailsInv'
    BY <1>1, <1>7, ClaimKeeps, CheckListedKeeps, SendMailKeeps, FinishKeeps, DieKeeps
  <2> QED
    BY <1>2, <2>1, <2>2 DEF SignInInv
<1>8. CASE UNCHANGED vars
  <2>1. UNCHANGED accessVars /\ UNCHANGED <<event, row, old, delivery, mails, retried>>
    BY <1>8 DEF vars, signInVars
  <2> QED
    BY <1>1, <1>2, <2>1, ElsewhereKeeps DEF AccessIsKept, TypeOK, SignInInv
<1> QED
  BY <1>3, <1>4, <1>5, <1>6, <1>7, <1>8 DEF Next, SignInNext

LEMMA SignInAlways == Spec => []SignInInv
<1>1. Init => SignInInv
  BY AccessInitial, MailsInitial DEF Init, SignInInv
<1> QED
  BY <1>1, SignInKept, PTL DEF Spec

(* For every number of administrators acting at once: the allowlist keeps an  *)
(* active administrator, and no identity gets two rows.                       *)
THEOREM AccessStaysGoverned == Spec => []AccessIsKept
<1>1. SignInInv => AccessIsKept
  BY DEF SignInInv
<1> QED
  BY <1>1, SignInAlways, PTL

(* For every number of deliveries: an event is mailed once unless a later      *)
(* delivery had reason to send again, and a success stands for a mail.         *)
THEOREM MailsMatch == Spec => []MailsMatchEvents
<1>1. SignInInv => MailsMatchEvents
  BY DEF SignInInv, MailsInv, MailsMatchEvents, EventInv, ClaimInv, OneMailPerEvent,
     SucceededIsMailed
<1> QED
  BY <1>1, SignInAlways, PTL
=============================================================================
