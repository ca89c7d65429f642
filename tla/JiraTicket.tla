------------------------------- MODULE JiraTicket -------------------------------
(***************************************************************************)
(* Filing a Jira ticket for a run: the modal, whose lists depend on each   *)
(* other and arrive in any order, and the handler that creates the issue   *)
(* at Jira and then links it to the run.                                   *)
(*                                                                         *)
(* Custom fields are known by the project and the issue type they belong   *)
(* to.  Summary, description and the formats of fields are left out, and   *)
(* the choice remembered in localStorage is any choice.  (The assignee     *)
(* that is remembered is removed when the modal opens, before it is read.) *)
(***************************************************************************)
EXTENDS Naturals, FiniteSets

CONSTANTS
    TypesOf,       \* issue types of each Jira project
    PeopleOf,      \* users that can be assigned in each
    MaxSubmits     \* bound: tickets submitted

JiraProject == DOMAIN TypesOf
IssueType == UNION {TypesOf[p] : p \in JiraProject}
Assignee == UNION {PeopleOf[p] : p \in JiraProject}

ASSUME JiraTicketAssumption ==
    DOMAIN PeopleOf = DOMAIN TypesOf /\ (\A p \in DOMAIN TypesOf : TypesOf[p] # {}) /\ MaxSubmits \in Nat

VARIABLES
    modal,        \* the modal: what is listed and what is chosen
    asks,         \* fetches of lists whose effect is still mounted
    submits,      \* POST /api/jira/tickets in progress or answered
    submitted,    \* how many there were
    issues,       \* issues at Jira
    jiraTickets   \* links on the run, by number of submission

jiraVars == <<modal, asks, submits, submitted, issues, jiraTickets>>

\* At most one of each is chosen: the empty set is the empty string of the code.
Chosen == [project : SUBSET JiraProject, type : SUBSET IssueType, person : SUBSET Assignee,
           fields : SUBSET (JiraProject \X IssueType)]
JiraIssue == [no : Nat, form : Chosen]
NoChoice == [project |-> {}, type |-> {}, person |-> {}, fields |-> {}]
Closed == [open |-> FALSE, listed |-> FALSE, types |-> {}, people |-> {}, form |-> NoChoice,
           shows |-> "form", no |-> 0]
AskFor(what, project, type) == [what |-> what, project |-> project, type |-> type]

JiraTicketTypeOK ==
    /\ modal.open \in BOOLEAN /\ modal.listed \in BOOLEAN
    /\ modal.types \subseteq IssueType /\ modal.people \subseteq Assignee
    /\ modal.form \in Chosen /\ \A f \in DOMAIN modal.form : Cardinality(modal.form[f]) <= 1
    /\ modal.shows \in {"form", "loading", "error", "success"} /\ modal.no \in 0..submitted
    /\ \A a \in asks : a.what \in {"projects", "types", "people", "fields"}
    /\ \A s \in submits : s.ticket \in JiraIssue /\ s.at \in {"sent", "created", "ok", "failed"}
    /\ submitted \in 0..MaxSubmits
    /\ issues \subseteq JiraIssue /\ jiraTickets \subseteq 1..submitted

JiraTicketInit ==
    /\ modal = Closed /\ asks = {} /\ submits = {} /\ submitted = 0
    /\ issues = {} /\ jiraTickets = {}

\* Mutant of Without: an effect that is cleaned up does not cancel its fetch.
WithoutCancelling(fetches, kinds) == fetches

\* An effect that runs again has set "cancelled" in its last run: those answers are
\* dropped when they come.
Without(fetches, kinds) == {a \in fetches : a.what \notin kinds}

OpenTicketModal ==
    /\ ~modal.open
    /\ modal' = [Closed EXCEPT !.open = TRUE]
    /\ asks' = {AskFor("projects", {}, {})}
    /\ UNCHANGED <<submits, submitted, issues, jiraTickets>>

\* Closed at any time, also while a ticket is submitted, which goes on.
CloseTicketModal ==
    /\ modal.open
    /\ modal' = Closed
    /\ asks' = Without(asks, {"projects", "types", "people", "fields"})
    /\ UNCHANGED <<submits, submitted, issues, jiraTickets>>

\* The project is chosen, by the user or as the first: the effects for issue types and
\* assignees clear theirs and fetch, and the custom fields go with the issue type.
WithProject(p, fetches) ==
    /\ modal' = [modal EXCEPT !.listed = TRUE, !.types = {}, !.people = {},
                              !.form = [NoChoice EXCEPT !.project = {p}]]
    /\ asks' = Without(fetches, {"types", "people", "fields"})
                 \cup {AskFor("types", {p}, {}), AskFor("people", {p}, {})}

\* The issue type is chosen: the effect for custom fields clears them and fetches.
WithType(t, types, fetches) ==
    /\ modal' = [modal EXCEPT !.types = types, !.form.type = {t}, !.form.fields = {}]
    /\ asks' = Without(fetches, {"fields"}) \cup {AskFor("fields", modal.form.project, {t})}

SelectProject ==
    /\ modal.listed /\ modal.shows # "success"
    /\ \E p \in JiraProject : {p} # modal.form.project /\ WithProject(p, asks)
    /\ UNCHANGED <<submits, submitted, issues, jiraTickets>>

SelectIssueType ==
    /\ modal.shows # "success"
    /\ \E t \in modal.types : {t} # modal.form.type /\ WithType(t, modal.types, asks)
    /\ UNCHANGED <<submits, submitted, issues, jiraTickets>>

\* The list of assignees is disabled while it loads.
SelectAssignee ==
    /\ modal.shows # "success" /\ \A a \in asks : a.what # "people"
    /\ \E who \in {{}} \cup {{q} : q \in modal.people} : modal' = [modal EXCEPT !.form.person = who]
    /\ UNCHANGED <<asks, submits, submitted, issues, jiraTickets>>

\* An answer arrives; its effect is still mounted.
ListAnswers ==
    \E a \in asks :
        LET rest == asks \ {a}
        IN  /\ CASE a.what = "projects" -> \E p \in JiraProject : WithProject(p, rest)
                 [] a.what = "types" ->
                        \E p \in a.project, t \in IssueType :
                            t \in TypesOf[p] /\ WithType(t, TypesOf[p], rest)
                 [] a.what = "people" ->
                        /\ modal' = [modal EXCEPT !.people = UNION {PeopleOf[p] : p \in a.project},
                                                  !.form.person = {}]
                        /\ asks' = rest
                 [] a.what = "fields" ->
                        /\ modal' = [modal EXCEPT !.form.fields = a.project \X a.type]
                        /\ asks' = rest
            /\ UNCHANGED <<submits, submitted, issues, jiraTickets>>

\* Jira is not configured, disabled, or does not answer: the list stays empty.
ListFails ==
    \E a \in asks :
        /\ asks' = asks \ {a}
        /\ UNCHANGED <<modal, submits, submitted, issues, jiraTickets>>

\* The button waits for a project and an issue type, and for the answer to the last
\* submission; assignees and custom fields may still be loading.
Submit ==
    /\ modal.form.project # {} /\ modal.form.type # {} /\ modal.shows \in {"form", "error"}
    /\ submitted < MaxSubmits /\ submitted' = submitted + 1
    /\ modal' = [modal EXCEPT !.shows = "loading", !.no = submitted']
    /\ submits' = submits \cup
         {[ticket |-> [no |-> submitted', form |-> modal.form], at |-> "sent"]}
    /\ UNCHANGED <<asks, issues, jiraTickets>>

Moved(s, at) == submits' = (submits \ {s}) \cup {[s EXCEPT !.at = at]}

\* The issue is created at Jira, and its key comes back.
CreateIssue ==
    \E s \in submits :
        /\ s.at = "sent" /\ Moved(s, "created")
        /\ issues' = issues \cup {s.ticket}
        /\ UNCHANGED <<modal, asks, submitted, jiraTickets>>

\* Then the link is pushed to the run.
LinkIssue ==
    \E s \in submits :
        /\ s.at = "created" /\ Moved(s, "ok")
        /\ jiraTickets' = jiraTickets \cup {s.ticket.no}
        /\ UNCHANGED <<modal, asks, submitted, issues>>

\* 404, 502, or no answer at all.  Jira may have created the issue.
SubmitFails ==
    \E s \in submits :
        /\ s.at \in {"sent", "created"} /\ Moved(s, "failed")
        /\ \/ UNCHANGED issues
           \/ s.at = "sent" /\ issues' = issues \cup {s.ticket}
        /\ UNCHANGED <<modal, asks, submitted, jiraTickets>>

ShowOutcome ==
    \E s \in submits :
        /\ s.at \in {"ok", "failed"} /\ submits' = submits \ {s}
        /\ modal' = IF modal.no = s.ticket.no
                    THEN [modal EXCEPT !.shows = IF s.at = "ok" THEN "success" ELSE "error"]
                    ELSE modal
        /\ UNCHANGED <<asks, submitted, issues, jiraTickets>>

JiraTicketNext ==
    \/ OpenTicketModal \/ CloseTicketModal \/ SelectProject \/ SelectIssueType \/ SelectAssignee
    \/ ListAnswers \/ ListFails
    \/ Submit \/ CreateIssue \/ LinkIssue \/ SubmitFails \/ ShowOutcome

JiraTicketSpec == JiraTicketInit /\ [][JiraTicketNext]_jiraVars

----------------------------------------------------------------------------
\* However the answers to the lists cross the user's choices, a ticket has an issue
\* type, an assignee and custom fields of its own project; and when the modal says
\* "created and linked to this run" (CreateJiraTicketModal.tsx), it is both: the run whose
\* modal is open is stored (for one deleted meanwhile integrations.ts answers 201 too).
TicketsFit ==
    /\ \A i \in issues :
        /\ \A p \in i.form.project : i.form.type \subseteq TypesOf[p] /\ i.form.person \subseteq PeopleOf[p]
        /\ i.form.fields \subseteq i.form.project \X i.form.type
    /\ modal.shows = "success" => modal.no \in jiraTickets
    /\ jiraTickets \subseteq {i.no : i \in issues}

=============================================================================
