------------------------------ MODULE MembersPage ------------------------------
(***************************************************************************)
(* The members tab of the settings, open in an admin's browser: the list   *)
(* of members, asked for once and then edited in place as each change is   *)
(* answered; the list of invitations, which is asked for again after an    *)
(* invitation is sent; and the form to invite, which can be closed while   *)
(* it sends.  What the routes may refuse is in Membership.                 *)
(***************************************************************************)
EXTENDS Naturals, FiniteSets

CONSTANTS
    Colleague,        \* members other than the admin
    Rank,             \* roles
    MaxAsked,         \* bound: changes asked for
    MaxInvited,       \* bound: invitations sent
    MaxForms,         \* bound: openings of the form
    MaxPageFaults     \* bound: answers that get lost and requests that fail

ASSUME MembersPageAssumption ==
    /\ Rank # {} /\ "gone" \notin Rank
    /\ {MaxAsked, MaxInvited, MaxForms, MaxPageFaults} \subseteq Nat

VARIABLES
    rankStored,       \* users.role, "gone" for one removed
    pendingStored,    \* invitations that are pending
    usersRead,        \* GET /api/users, one for a visit
    rankShown,        \* users of the tab
    invitesRead,      \* GET /api/invitations under way
    invitesShown,     \* invitations of the tab
    rowEdits,         \* changes under way
    formOpen,         \* 0, or which opening of the form is on the screen
    sends,            \* POST /api/invitations under way
    told,             \* the error the form shows
    \* history
    unsure,           \* parts two answers crossed in, or an answer was lost for
    formTaken,        \* an older form's answer closed a newer one
    editsMade, invited, forms, pageFaults

membersPageVars == <<rankStored, pendingStored, usersRead, rankShown, invitesRead, invitesShown,
                     rowEdits, formOpen, sends, told, unsure, formTaken, editsMade, invited,
                     forms, pageFaults>>
userPart == <<rankStored, usersRead, rankShown>>
invitePart == <<pendingStored, invitesRead, invitesShown>>
formPart == <<formOpen, sends, told, formTaken>>

Ranks == [Colleague -> Rank \cup {"gone"}]
InviteId == 1..MaxInvited
NoUsers == [c \in Colleague |-> "gone"]

MembersPageTypeOK ==
    /\ rankStored \in Ranks /\ rankShown \in Ranks /\ usersRead \in {"asked", "read", "shown"}
    /\ pendingStored \cup invitesShown \subseteq InviteId
    /\ \A q \in invitesRead : q.at \in {"asked", "read"} /\ q.found \subseteq InviteId
    /\ \A a \in rowEdits : /\ a.at \in {"asked", "done"} /\ a.n \in 1..MaxAsked
                        /\ \/ a.what = "rank" /\ a.of \in Colleague /\ a.to \in Rank \cup {"gone"}
                           \/ a.what = "invite" /\ a.of \in InviteId
    /\ formOpen \in 0..MaxForms /\ told \in BOOLEAN /\ formTaken \in BOOLEAN
    /\ \A s \in sends : s.at \in {"asked", "done"} /\ s.form \in 1..forms
    /\ unsure \subseteq {"users", "invites"}
    /\ editsMade \in 0..MaxAsked /\ invited \in 0..MaxInvited
    /\ forms \in 0..MaxForms /\ pageFaults \in 0..MaxPageFaults

\* The tab has just been opened: both lists are asked for.
MembersPageInit ==
    /\ rankStored \in [Colleague -> Rank] /\ pendingStored = {}
    /\ usersRead = "asked" /\ rankShown = NoUsers
    /\ invitesRead = {[n |-> 0, at |-> "asked", found |-> {}]} /\ invitesShown = {}
    /\ rowEdits = {} /\ formOpen = 0 /\ sends = {} /\ told = FALSE
    /\ unsure = {} /\ formTaken = FALSE
    /\ editsMade = 0 /\ invited = 0 /\ forms = 0 /\ pageFaults = 0

PageFault == pageFaults < MaxPageFaults /\ pageFaults' = pageFaults + 1
Change(kind) == {a \in rowEdits : a.what = kind}
Crossing(part, when) == unsure' = IF when THEN unsure \cup {part} ELSE unsure

----------------------------------------------------------------------------
\* fetchUsers: nothing but "Loading" is on the tab until it is answered or has failed.
UsersArrive ==
    /\ usersRead = "asked" /\ usersRead' = "shown"
    /\ \/ rankShown' = rankStored /\ UNCHANGED <<unsure, pageFaults>>
       \/ PageFault /\ Crossing("users", TRUE) /\ UNCHANGED rankShown
    /\ UNCHANGED <<rankStored, invitePart, rowEdits, formPart, editsMade, invited, forms>>

\* fetchInvitations
ReadInvites(q) ==
    /\ q.at = "asked"
    /\ invitesRead' = (invitesRead \ {q}) \cup {[q EXCEPT !.at = "read", !.found = pendingStored]}
    /\ UNCHANGED <<userPart, pendingStored, invitesShown, rowEdits, formPart, unsure, editsMade,
                   invited, forms, pageFaults>>

\* The list replaces the rows; a revocation answered since it was read comes undone in them.
InvitesArrive(q) ==
    /\ q.at = "read" /\ invitesRead' = invitesRead \ {q} /\ invitesShown' = q.found
    /\ UNCHANGED <<userPart, pendingStored, rowEdits, formPart, unsure, editsMade, invited, forms,
                   pageFaults>>

InvitesFail(q) ==
    /\ PageFault /\ invitesRead' = invitesRead \ {q} /\ Crossing("invites", TRUE)
    /\ UNCHANGED <<userPart, pendingStored, invitesShown, rowEdits, formPart, editsMade, invited,
                   forms>>

----------------------------------------------------------------------------
AskChange(a) ==
    /\ usersRead = "shown" /\ editsMade < MaxAsked /\ editsMade' = editsMade + 1
    /\ rowEdits' = rowEdits \cup {a}

\* handleRoleChange and handleRemoveUser: the row stays as it is until the answer.
AskRank(c, to) ==
    /\ rankShown[c] \notin {"gone", to}
    /\ AskChange([what |-> "rank", of |-> c, to |-> to, at |-> "asked", n |-> editsMade + 1])
    \* two changes of one member under way: their answers may come in the other order
    /\ Crossing("users", \E a \in Change("rank") : a.of = c)
    /\ UNCHANGED <<userPart, invitePart, formPart, invited, forms, pageFaults>>

\* handleRevokeInvitation
AskRevoke(i) ==
    /\ i \in invitesShown
    /\ AskChange([what |-> "invite", of |-> i, to |-> "gone", at |-> "asked",
                  n |-> editsMade + 1])
    \* a list under way may have been read before it, and arrive after it
    /\ Crossing("invites", invitesRead # {})
    /\ UNCHANGED <<userPart, invitePart, formPart, invited, forms, pageFaults>>

\* The route makes the change, if what it changes is there: 404 otherwise.
Serve(a) ==
    /\ a.at = "asked"
    /\ IF a.what = "rank"
       THEN rankStored[a.of] # "gone" /\ rankStored' = [rankStored EXCEPT ![a.of] = a.to]
            /\ UNCHANGED pendingStored
       ELSE a.of \in pendingStored /\ pendingStored' = pendingStored \ {a.of}
            /\ UNCHANGED rankStored
    /\ rowEdits' = (rowEdits \ {a}) \cup {[a EXCEPT !.at = "done"]}
    /\ UNCHANGED <<usersRead, rankShown, invitesRead, invitesShown, formPart, unsure, editsMade,
                   invited, forms, pageFaults>>

\* 400, 403, 404: an alert, and the rows stay.
RefuseChange(a) ==
    /\ a.at = "asked" /\ rowEdits' = rowEdits \ {a}
    /\ UNCHANGED <<userPart, invitePart, formPart, unsure, editsMade, invited, forms, pageFaults>>

\* The answer edits the row, or takes it out; a row that is out stays out.
ChangeAnswered(a) ==
    /\ a.at = "done" /\ rowEdits' = rowEdits \ {a}
    /\ IF a.what = "rank"
       THEN /\ rankShown' = IF rankShown[a.of] = "gone" THEN rankShown
                            ELSE [rankShown EXCEPT ![a.of] = a.to]
            /\ UNCHANGED invitesShown
       ELSE invitesShown' = invitesShown \ {a.of} /\ UNCHANGED rankShown
    /\ UNCHANGED <<rankStored, usersRead, pendingStored, invitesRead, formPart, unsure, editsMade,
                   invited, forms, pageFaults>>

ChangeLost(a) ==
    /\ PageFault /\ rowEdits' = rowEdits \ {a}
    /\ Crossing(IF a.what = "rank" THEN "users" ELSE "invites", TRUE)
    /\ UNCHANGED <<userPart, invitePart, formPart, editsMade, invited, forms>>

----------------------------------------------------------------------------
OpenForm ==
    /\ usersRead = "shown" /\ formOpen = 0 /\ forms < MaxForms
    /\ forms' = forms + 1 /\ formOpen' = forms' /\ told' = FALSE
    /\ UNCHANGED <<userPart, invitePart, rowEdits, sends, formTaken, unsure, editsMade, invited,
                   pageFaults>>

\* Cancel is off while it sends; the cross, the backdrop and Escape are not.
CloseForm ==
    /\ formOpen # 0 /\ formOpen' = 0 /\ told' = FALSE
    /\ UNCHANGED <<userPart, invitePart, rowEdits, sends, formTaken, unsure, editsMade, invited,
                   forms, pageFaults>>

\* handleSubmit
SendInvite ==
    /\ formOpen # 0 /\ invited < MaxInvited /\ \A s \in sends : s.form # formOpen
    /\ invited' = invited + 1 /\ told' = FALSE
    /\ sends' = sends \cup {[form |-> formOpen, i |-> invited', at |-> "asked"]}
    /\ UNCHANGED <<userPart, invitePart, rowEdits, formOpen, formTaken, unsure, editsMade, forms,
                   pageFaults>>

ServeInvite(s) ==
    /\ s.at = "asked" /\ pendingStored' = pendingStored \cup {s.i}
    /\ sends' = (sends \ {s}) \cup {[s EXCEPT !.at = "done"]}
    /\ UNCHANGED <<userPart, invitesRead, invitesShown, rowEdits, formOpen, told, formTaken,
                   unsure, editsMade, invited, forms, pageFaults>>

\* onSuccess is the tab's: it closes whichever form is open, and asks for the list.
InviteSent(s) ==
    /\ s.at = "done" /\ sends' = sends \ {s}
    /\ formOpen' = 0 /\ told' = FALSE /\ formTaken' = (formTaken \/ formOpen \notin {0, s.form})
    /\ invitesRead' = invitesRead \cup {[n |-> s.i, at |-> "asked", found |-> {}]}
    /\ Crossing("invites", invitesRead # {} \/ Change("invite") # {})
    /\ UNCHANGED <<userPart, pendingStored, invitesShown, rowEdits, editsMade, invited, forms,
                   pageFaults>>

\* Refused, or the answer is lost: the form says so, if it is the one that is open.
InviteFails(s) ==
    /\ sends' = sends \ {s} /\ told' = (told \/ s.form = formOpen)
    /\ IF s.at = "asked" THEN UNCHANGED <<unsure, pageFaults>>
       ELSE PageFault /\ Crossing("invites", TRUE)
    /\ UNCHANGED <<userPart, invitePart, rowEdits, formOpen, formTaken, editsMade, invited,
                   forms>>

MembersPageNext ==
    \/ UsersArrive \/ OpenForm \/ CloseForm \/ SendInvite
    \/ \E q \in invitesRead : ReadInvites(q) \/ InvitesArrive(q) \/ InvitesFail(q)
    \/ \E c \in Colleague, to \in Rank \cup {"gone"} : AskRank(c, to)
    \/ \E i \in invitesShown : AskRevoke(i)
    \/ \E a \in rowEdits : Serve(a) \/ RefuseChange(a) \/ ChangeAnswered(a) \/ ChangeLost(a)
    \/ \E s \in sends : ServeInvite(s) \/ InviteSent(s) \/ InviteFails(s)

MembersPageSpec == MembersPageInit /\ [][MembersPageNext]_membersPageVars

----------------------------------------------------------------------------
\* Once nothing is under way the rows are what is stored, unless two changes of one member,
\* or a list and a revocation, crossed or an answer was lost: no member keeps a role that was
\* taken, none that was removed stays, and no revoked invitation comes back.  A form is closed
\* under its user only by the answer to one he closed while it was sending
\* (MembersTab.tsx, InviteModal.tsx).
MembersPageFits ==
    /\ ("users" \notin unsure /\ usersRead = "shown" /\ Change("rank") = {}) =>
            rankShown = rankStored
    /\ ("invites" \notin unsure /\ invitesRead = {} /\ Change("invite") = {} /\ sends = {}) =>
            invitesShown = pendingStored
    /\ formTaken => forms > 1
    /\ told => formOpen # 0

=============================================================================
