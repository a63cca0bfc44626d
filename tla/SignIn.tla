------------------------------- MODULE SignIn -------------------------------
(* Signing in by a link, and asking for access: the public routes, and the  *)
(* identity provider's webhook, whose deliveries may be repeated, may       *)
(* overlap, and may die between any two steps.                              *)
EXTENDS AccessControl

CONSTANTS
    Deliveries,  \* webhook deliveries at a time
    MaxEvents,   \* bound on magic-link events
    MaxMails     \* bound on mails of an event

ASSUME SignInAssumption ==
    /\ MaxEvents \in Nat /\ MaxMails \in Nat

VARIABLES
    event,       \* the address of each event, in the order of creation
    row,         \* auth_webhook_event.status, and whether it is 30 s old
    old,
    delivery,    \* a webhook handler: pc and event
    mails,       \* mails sent for an event
    retried      \* history: a later delivery had reason to send again

signInVars == <<event, row, old, delivery, mails, retried>>
vars == <<accessVars, signInVars>>

Events == 1..MaxEvents
Made == {v \in Events : event[v] # {}}
NoDelivery == [pc |-> "idle", ev |-> 0]
Statuses == {"none", "processing", "succeeded", "failed"}

Init ==
    /\ AccessInit
    /\ event = [v \in Events |-> {}]
    /\ row = [v \in Events |-> "none"] /\ old = [v \in Events |-> FALSE]
    /\ delivery = [d \in Deliveries |-> NoDelivery]
    /\ mails = [v \in Events |-> 0] /\ retried = [v \in Events |-> FALSE]

-----------------------------------------------------------------------------
\* POST /api/auth/request-link of a listed address within its quota (see
\* Quotas): the provider makes an event for it.
RequestLink ==
    /\ Made # Events
    /\ \E e \in Emails : Active(e) /\ event' = [event EXCEPT ![Cardinality(Made) + 1] = {e}]
    /\ UNCHANGED <<accessVars, row, old, delivery, mails, retried>>

\* submitAccessRequest: the request's row changes in the same transaction.
AskForAccess ==
    /\ \E e \in Emails : SubmitRequest(e)
    /\ UNCHANGED <<users, actor, scripted, signInVars>>

-----------------------------------------------------------------------------
(* POST /api/webhooks/neon-auth of a send.magic_link event                  *)

\* Variant: any delivery claims the event.
AlwaysClaimable(v) == TRUE

Claimable(v) == row[v] \in {"none", "failed"} \/ old[v]

Claim(d) ==
    /\ delivery[d].pc = "idle"
    /\ \E v \in Made :
         /\ Claimable(v)
         /\ delivery' = [delivery EXCEPT ![d] = [pc |-> "check", ev |-> v]]
         /\ row' = [row EXCEPT ![v] = "processing"] /\ old' = [old EXCEPT ![v] = FALSE]
    /\ UNCHANGED <<accessVars, event, mails, retried>>

Goto(d, pc) == delivery' = [delivery EXCEPT ![d].pc = pc]

CheckListed(d) ==
    /\ delivery[d].pc = "check"
    /\ Goto(d, IF \E e \in event[delivery[d].ev] : Active(e) THEN "send" ELSE "refuse")
    /\ UNCHANGED <<accessVars, event, row, old, mails, retried>>

\* The mail is accepted, is refused, or is accepted although the answer is lost.
SendMail(d) ==
    /\ delivery[d].pc = "send" /\ mails[delivery[d].ev] < MaxMails
    /\ \E accepted, answered \in BOOLEAN :
         /\ mails' = [mails EXCEPT ![delivery[d].ev] = IF accepted THEN @ + 1 ELSE @]
         /\ Goto(d, IF accepted /\ answered THEN "finish" ELSE "refuse")
         /\ retried' = [retried EXCEPT ![delivery[d].ev] = @ \/ (accepted /\ ~answered)]
    /\ UNCHANGED <<accessVars, event, row, old>>

\* finishAuthWebhook.  If the first one throws, the handler's catch finishes
\* the event as failed, and the provider's retry sends once more.
Finish(d) ==
    /\ delivery[d].pc \in {"finish", "refuse"}
    /\ LET v == delivery[d].ev IN
         \/ /\ row' = [row EXCEPT ![v] = IF delivery[d].pc = "finish" THEN "succeeded" ELSE "failed"]
            /\ old' = [old EXCEPT ![v] = FALSE]
            /\ delivery' = [delivery EXCEPT ![d] = NoDelivery] /\ UNCHANGED retried
         \/ /\ delivery[d].pc = "finish" /\ Goto(d, "refuse")
            /\ retried' = [retried EXCEPT ![v] = TRUE] /\ UNCHANGED <<row, old>>
    /\ UNCHANGED <<accessVars, event, mails>>

\* The handler dies; its event can be claimed again when it is 30 s old.
Die(d) ==
    /\ delivery[d].pc # "idle"
    /\ delivery' = [delivery EXCEPT ![d] = NoDelivery]
    /\ UNCHANGED <<accessVars, event, row, old, mails, retried>>

HalfMinutePasses ==
    /\ \E v \in Made : /\ row[v] # "none" /\ ~old[v] /\ mails[v] < MaxMails
                       /\ old' = [old EXCEPT ![v] = TRUE]
                       /\ retried' = [retried EXCEPT ![v] = TRUE]
    /\ UNCHANGED <<accessVars, event, row, delivery, mails>>

SignInNext ==
    \/ RequestLink \/ AskForAccess \/ HalfMinutePasses
    \/ \E d \in Deliveries : Claim(d) \/ CheckListed(d) \/ SendMail(d) \/ Finish(d) \/ Die(d)

Next == (AccessNext /\ UNCHANGED signInVars) \/ SignInNext
Spec == Init /\ [][Next]_vars

-----------------------------------------------------------------------------
TypeOK ==
    /\ AccessTypeOK
    /\ event \in [Events -> SUBSET Emails]
    /\ row \in [Events -> Statuses] /\ old \in [Events -> BOOLEAN]
    /\ delivery \in [Deliveries -> [pc : {"idle", "check", "send", "refuse", "finish"},
                                    ev : Events \cup {0}]]
    /\ mails \in [Events -> Nat] /\ retried \in [Events -> BOOLEAN]

\* However many deliveries of an event overlap, it is mailed once, unless an
\* answer or a finished row was lost or half a minute went by.
OneMailPerEvent == \A v \in Events : mails[v] <= 1 \/ retried[v]

\* A stored answer of a delivery is given only for a mail that went out.
SucceededIsMailed == \A v \in Events : row[v] = "succeeded" => mails[v] > 0

\* Nobody locks the administrators out, and no two users share an identity.
AccessIsKept == AccessTypeOK /\ SomeAdminActive /\ SubjectsDistinct

\* Overlapping, repeated and failing deliveries match events with mails.
MailsMatchEvents == TypeOK /\ OneMailPerEvent /\ SucceededIsMailed
=============================================================================
