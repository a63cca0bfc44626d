------------------------------- MODULE EditLab -------------------------------
(* The Edit Lab, components/EditLab.tsx, in one browser tab: the Dive it      *)
(* shows, the report preview, the public link and the versions it knows, the  *)
(* requests it has under way, and a panel for the edits of each Dive.  The    *)
(* answers are applied in the order they come in.  The links on the server    *)
(* are those of PublicShares.                                                 *)
EXTENDS PublicShares, Integers

CONSTANTS
    Slots,        \* requests at a time
    NoReport,     \* no Dive
    FirstVersion, \* of each Dive when the lab is opened
    MaxVersion    \* bound on the versions of a Dive

ASSUME LabAssumption ==
    NoReport \notin Reports /\ MaxVersion \in Nat /\ FirstVersion \in 1..MaxVersion

VARIABLES
    version,      \* the server's current version of each Dive
    opened,       \* activeId
    embed,        \* the Dive of the session in the preview
    link,         \* the link of the toolbar, 0 for null
    known,        \* versions, 0 while unknown
    call,         \* requests under way
    busy,         \* refreshing, sharing, reverting
    panel,        \* the edit of each Dive: pc and expectedVersion
    crossed,      \* history since the Dive was opened: a request for another
                  \* Dive, or two requests at once
    missed        \* history since the Dive was opened: an answer was lost

viewVars == <<opened, embed, link, known>>
labVars == <<version, viewVars, call, busy, panel, crossed, missed>>

Unserved == -1
NoCall == [kind |-> "none", report |-> NoReport, version |-> Unserved, link |-> Unserved,
           restored |-> FALSE]
NoEdit == [pc |-> "none", expected |-> 0]

LabInit ==
    /\ version = [d \in Reports |-> FirstVersion]
    /\ opened = NoReport /\ embed = NoReport /\ link = 0 /\ known = [d \in Reports |-> 0]
    /\ call = [s \in Slots |-> NoCall] /\ busy = {}
    /\ panel = [d \in Reports |-> NoEdit]
    /\ crossed = FALSE /\ missed = FALSE

UnderWay == {s \in Slots : call[s].kind # "none"}
-----------------------------------------------------------------------------
(* Requests of the tab. *)

Send(s, kind, d) ==
    /\ call[s].kind = "none"
    /\ call' = [call EXCEPT ![s] = [NoCall EXCEPT !.kind = kind, !.report = d]]

SendHere(s, kind, d) ==
    /\ Send(s, kind, d)
    /\ crossed' = (crossed \/ UnderWay # {} \/ d # opened)

\* A Dive is opened: its preview and link are cleared and read anew.  The first
\* form leaves what the last Dive had.
OpenKeeping(s, d) ==
    /\ d # opened /\ Send(s, "refresh", d)
    /\ opened' = d /\ busy' = busy \cup {"refreshing"}
    /\ crossed' = (UnderWay # {}) /\ missed' = FALSE
    /\ UNCHANGED <<sharesVars, version, embed, link, known, panel>>

Open(s, d) ==
    /\ d # opened /\ Send(s, "refresh", d)
    /\ opened' = d /\ embed' = NoReport /\ link' = 0 /\ busy' = busy \cup {"refreshing"}
    /\ crossed' = (UnderWay # {}) /\ missed' = FALSE
    /\ UNCHANGED <<sharesVars, version, known, panel>>

RefreshClicked(s) ==
    /\ opened # NoReport /\ "refreshing" \notin busy
    /\ SendHere(s, "refresh", opened) /\ busy' = busy \cup {"refreshing"}
    /\ UNCHANGED <<sharesVars, version, viewVars, panel, missed>>

PublishClicked(s) ==
    /\ opened # NoReport /\ link = 0 /\ "sharing" \notin busy
    /\ SendHere(s, "publish", opened) /\ busy' = busy \cup {"sharing"}
    /\ UNCHANGED <<sharesVars, version, viewVars, panel, missed>>

RevokeClicked(s) ==
    /\ opened # NoReport /\ link # 0 /\ "sharing" \notin busy
    /\ SendHere(s, "revoke", opened) /\ busy' = busy \cup {"sharing"}
    /\ UNCHANGED <<sharesVars, version, viewVars, panel, missed>>

RevertClicked(s) ==
    /\ opened # NoReport /\ known[opened] > 1 /\ "reverting" \notin busy
    /\ SendHere(s, "revert", opened) /\ busy' = busy \cup {"reverting"}
    /\ UNCHANGED <<sharesVars, version, viewVars, panel, missed>>

\* An edit by the panel of the Dive, a run or a reset, of the version it knows.
Submit(d) ==
    /\ d = opened /\ known[d] # 0 /\ panel[d].pc = "none"
    /\ panel' = [panel EXCEPT ![d] = [pc |-> "sent", expected |-> known[d]]]
    /\ UNCHANGED <<sharesVars, version, viewVars, call, busy, crossed, missed>>

\* Its end is polled; the new version is read by a refresh of the panel's Dive,
\* whether or not that is the one that is open.
AppliedSeen(s, d) ==
    /\ panel[d].pc = "applied"
    /\ SendHere(s, "refresh", d) /\ busy' = busy \cup {"refreshing"}
    /\ panel' = [panel EXCEPT ![d] = NoEdit]
    /\ UNCHANGED <<sharesVars, version, viewVars, missed>>

\* The edit is refused, fails or changes nothing, or polling gives up.
EditUnseen(d) ==
    /\ panel[d].pc # "none"
    /\ panel' = [panel EXCEPT ![d] = NoEdit]
    /\ UNCHANGED <<sharesVars, version, viewVars, call, busy, crossed, missed>>

-----------------------------------------------------------------------------
(* The server. *)

Served(s, i) == call' = [call EXCEPT ![s].link = i]
LinkOf(d) == IF ActiveShares(d) = {} THEN 0 ELSE CHOOSE i \in ActiveShares(d) : TRUE
Unanswered(s, kind) == call[s].kind = kind /\ call[s].link = Unserved
Rest == <<viewVars, busy, crossed, missed>>

\* The requests of a refresh; nothing here relates the version to the link, so
\* they are read at one moment.
ServeRefresh(s) ==
    /\ Unanswered(s, "refresh")
    /\ call' = [call EXCEPT ![s].version = version[call[s].report], ![s].link = LinkOf(call[s].report)]
    /\ UNCHANGED <<sharesVars, version, panel, Rest>>

ServePublish(s) ==
    /\ Unanswered(s, "publish")
    /\ CreateDiveShare(call[s].report)
    /\ Served(s, IF ActiveShares(call[s].report) = {} THEN Len(shares) + 1
                         ELSE LinkOf(call[s].report))
    /\ UNCHANGED <<version, panel, Rest>>

ServeRevoke(s) ==
    /\ Unanswered(s, "revoke")
    /\ RevokeDiveShare(call[s].report)
    /\ Served(s, 0)
    /\ UNCHANGED <<version, panel, Rest>>

ServeRevert(s) ==
    /\ Unanswered(s, "revert") /\ version[call[s].report] < MaxVersion
    /\ version' = [version EXCEPT ![call[s].report] = @ + 1]
    /\ Served(s, 0)
    /\ UNCHANGED <<sharesVars, panel, Rest>>

\* An edit is made if its version is the current one; otherwise it is refused,
\* now and ever, which leaves EditUnseen.
ServeEdit(d) ==
    /\ panel[d].pc = "sent" /\ version[d] < MaxVersion /\ panel[d].expected = version[d]
    /\ version' = [version EXCEPT ![d] = @ + 1]
    /\ panel' = [panel EXCEPT ![d] = [pc |-> "applied", expected |-> 0]]
    /\ UNCHANGED <<sharesVars, call, Rest>>

\* Another tab, or an edit whose panel has given up.
EditElsewhere(d) ==
    /\ version[d] < MaxVersion /\ version' = [version EXCEPT ![d] = @ + 1]
    /\ UNCHANGED <<sharesVars, panel, call, Rest>>

-----------------------------------------------------------------------------
(* Answers. *)

Over(s) == call' = [call EXCEPT ![s] = NoCall]
BusyAfter(s) ==
    busy \ CASE call[s].kind = "refresh" -> {"refreshing"} \cup (IF call[s].restored THEN {"reverting"} ELSE {})
             [] call[s].kind = "revert" -> {"reverting"}
             [] OTHER -> {"sharing"}

\* Preview, version and link of the answers that are in order.
LinkRead(s) == call[s].link

RefreshArrives(s, versionOk, linkOk) ==
    /\ call[s].kind = "refresh" /\ call[s].link # Unserved
    /\ embed' = call[s].report
    /\ known' = IF versionOk THEN [known EXCEPT ![call[s].report] = call[s].version] ELSE known
    /\ link' = IF linkOk THEN LinkRead(s) ELSE link
    /\ Over(s) /\ busy' = BusyAfter(s) /\ missed' = (missed \/ ~linkOk)
    /\ UNCHANGED <<sharesVars, version, opened, panel, crossed>>

ShareArrives(s) ==
    /\ call[s].kind \in {"publish", "revoke"} /\ call[s].link # Unserved
    /\ link' = call[s].link
    /\ Over(s) /\ busy' = BusyAfter(s)
    /\ UNCHANGED <<sharesVars, version, opened, embed, known, panel, crossed, missed>>

\* A revert that went well becomes a refresh of the Dive it was for.
RevertArrives(s) ==
    /\ call[s].kind = "revert" /\ call[s].link # Unserved
    /\ call' = [call EXCEPT ![s] = [NoCall EXCEPT !.kind = "refresh", !.report = call[s].report,
                                           !.restored = TRUE]]
    /\ busy' = busy \cup {"refreshing"}
    /\ UNCHANGED <<sharesVars, version, viewVars, panel, crossed, missed>>

\* An error, or no answer: the buttons come back and nothing is applied.
CallFails(s) ==
    /\ call[s].kind # "none"
    /\ Over(s) /\ busy' = BusyAfter(s) /\ missed' = TRUE
    /\ UNCHANGED <<sharesVars, version, viewVars, panel, crossed>>

LabNext ==
    \/ \E s \in Slots :
          \/ \E d \in Reports : Open(s, d) \/ AppliedSeen(s, d)
          \/ RefreshClicked(s) \/ PublishClicked(s) \/ RevokeClicked(s) \/ RevertClicked(s)
          \/ ServeRefresh(s) \/ ServePublish(s) \/ ServeRevoke(s) \/ ServeRevert(s)
          \/ \E versionOk, linkOk \in BOOLEAN : RefreshArrives(s, versionOk, linkOk)
          \/ ShareArrives(s) \/ RevertArrives(s) \/ CallFails(s)
    \/ \E d \in Reports : Submit(d) \/ EditUnseen(d) \/ ServeEdit(d) \/ EditElsewhere(d)

-----------------------------------------------------------------------------
LabTypeOK ==
    /\ version \in [Reports -> 1..MaxVersion]
    /\ opened \in Reports \cup {NoReport} /\ embed \in Reports \cup {NoReport}
    /\ link \in 0..Len(shares) /\ known \in [Reports -> 0..MaxVersion]
    /\ call \in [Slots -> [kind : {"none", "refresh", "publish", "revoke", "revert"},
                           report : Reports \cup {NoReport}, version : Unserved..MaxVersion,
                           link : Unserved..Len(shares), restored : BOOLEAN]]
    /\ busy \subseteq {"refreshing", "sharing", "reverting"}
    /\ panel \in [Reports -> [pc : {"none", "sent", "applied"}, expected : 0..MaxVersion]]
    /\ \A d \in Reports : known[d] <= version[d]

\* The preview and the link belong to the Dive that is open, unless a request
\* for another one was under way, which may be answered late, or an edit of
\* another one ended.
PreviewIsOfOpened ==
    ~crossed => /\ embed \in {NoReport, opened}
                /\ link # 0 => shares[link].dive = opened

\* With nothing under way, nothing crossed and no answer lost, the link on
\* screen is the one that is active.
SettledLinkIsActive ==
    UnderWay = {} /\ ~crossed /\ ~missed /\ opened # NoReport => link = LinkOf(opened)

\* What the lab shows is of the Dive that is open, and current once it is quiet.
LabShowsOpened == LabTypeOK /\ PreviewIsOfOpened /\ SettledLinkIsActive
=============================================================================
