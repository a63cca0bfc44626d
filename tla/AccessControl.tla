---------------------------- MODULE AccessControl ---------------------------
(* The allowlist app.app_user and the access requests: the administrators'  *)
(* routes (admin-db.ts, access-request-db.ts), the operator's scripts, and  *)
(* currentUser, which binds an identity to a row.  An administrator's route *)
(* checks its caller first and changes rows later, under an advisory lock.  *)
EXTENDS Naturals, FiniteSets

CONSTANTS
    Emails,      \* normalized addresses
    Identities,  \* <<subject, email>>: sessions that the identity provider verified
    NoSubject,
    AdminCalls   \* administrators' requests at a time

Subjects == {i[1] : i \in Identities}

ASSUME AccessAssumption ==
    /\ \A i \in Identities : i = <<i[1], i[2]>> /\ i[2] \in Emails
    /\ NoSubject \notin Subjects /\ IsFiniteSet(Emails)

VARIABLES
    users,     \* rows of app_user, keyed by email
    requests,  \* rows of access_request, keyed by email
    actor,     \* the administrator an admin route has let in, as a set
    scripted   \* history: an operator's script changed the allowlist

accessVars == <<users, requests, actor, scripted>>

Roles == {"member", "admin"}
NoRow == [status |-> "none", role |-> "member", subject |-> NoSubject]
Rows == [status : {"none", "active", "revoked"}, role : Roles, subject : Subjects \cup {NoSubject}]
RequestStatus == {"none", "pending", "approved", "ignored"}

\* The operator's script has let the first administrators in.
AccessInit ==
    /\ users \in [Emails -> {NoRow, [status |-> "active", role |-> "admin", subject |-> NoSubject]}]
    /\ \E e \in Emails : users[e] # NoRow
    /\ requests = [e \in Emails |-> "none"]
    /\ actor = [c \in AdminCalls |-> {}]
    /\ scripted = FALSE

Exists(e) == users[e].status # "none"
Active(e) == users[e].status = "active"
ActiveAdmins == {e \in Emails : Active(e) /\ users[e].role = "admin"}

-----------------------------------------------------------------------------
(* currentUser, in every route, links the session to the allowlist.         *)

\* Variant: the unique index on auth_subject is missing.
CanLinkTwice(s, e) == Active(e) /\ users[e].subject \in {NoSubject, s}

CanLink(s, e) ==
    /\ Active(e) /\ users[e].subject \in {NoSubject, s}
    /\ \A f \in Emails \ {e} : users[f].subject # s

Linked(s, e) == [users EXCEPT ![e].subject = s]

\* A signed-in request of anybody; an administrator's goes on in an admin route.
Authenticate ==
    \E i \in Identities : \E c \in AdminCalls :
        /\ CanLink(i[1], i[2]) /\ actor[c] = {}
        /\ users' = Linked(i[1], i[2])
        /\ actor' = IF users[i[2]].role = "admin" THEN [actor EXCEPT ![c] = {i[2]}] ELSE actor
        /\ UNCHANGED <<requests, scripted>>

Answered(c) == actor' = [actor EXCEPT ![c] = {}]
Granted(row, role) == [row EXCEPT !.status = "active", !.role = role]

LastAdmin == Cardinality(ActiveAdmins) <= 1

Upsert(c, e, role) ==
    /\ actor[c] # {}
    /\ users' = IF role # "admin" /\ (actor[c] = {e} \/ (users[e].role = "admin" /\ LastAdmin))
                THEN users
                ELSE [users EXCEPT ![e] = Granted(@, role)]
    /\ Answered(c) /\ UNCHANGED <<requests, scripted>>

Revoke(c, e) ==
    /\ actor[c] # {}
    /\ users' = IF ~Exists(e) \/ actor[c] = {e} \/ (e \in ActiveAdmins /\ LastAdmin)
                THEN users
                ELSE [users EXCEPT ![e].status = "revoked"]
    /\ Answered(c) /\ UNCHANGED <<requests, scripted>>

\* Approval inserts a member; of a row that exists it keeps the role.
Review(c, e, approve) ==
    /\ actor[c] # {} /\ requests[e] = "pending"
    /\ requests' = [requests EXCEPT ![e] = IF approve THEN "approved" ELSE "ignored"]
    /\ users' = IF approve THEN [users EXCEPT ![e].status = "active"] ELSE users
    /\ Answered(c) /\ UNCHANGED scripted

SubmitRequest(e) ==
    requests' = IF requests[e] = "none" THEN [requests EXCEPT ![e] = "pending"] ELSE requests

\* access:add and access:revoke take neither the lock nor the guards.
ScriptAdd(e, role) ==
    /\ users' = [users EXCEPT ![e] = Granted(@, role)]
    /\ scripted' = TRUE /\ UNCHANGED <<requests, actor>>

ScriptRevoke(e) ==
    /\ Exists(e) /\ users' = [users EXCEPT ![e].status = "revoked"]
    /\ scripted' = TRUE /\ UNCHANGED <<requests, actor>>

AccessNext ==
    \/ Authenticate
    \/ \E c \in AdminCalls, e \in Emails :
          \/ \E role \in Roles : Upsert(c, e, role)
          \/ Revoke(c, e)
          \/ \E approve \in BOOLEAN : Review(c, e, approve)
    \/ \E e \in Emails :
          \/ \E role \in Roles : ScriptAdd(e, role)
          \/ ScriptRevoke(e)

-----------------------------------------------------------------------------
AccessTypeOK ==
    /\ users \in [Emails -> Rows] /\ requests \in [Emails -> RequestStatus]
    /\ actor \in [AdminCalls -> SUBSET Emails] /\ scripted \in BOOLEAN

\* Administrators acting at the same time, each of whom was checked before the
\* other acted, never leave the allowlist without an active administrator.
SomeAdminActive == scripted \/ ActiveAdmins # {}

\* One identity never holds two rows of the allowlist.
SubjectsDistinct ==
    \A e, f \in Emails : users[e].subject = users[f].subject /\ e # f => users[e].subject = NoSubject

=============================================================================
