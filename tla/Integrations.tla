------------------------------ MODULE Integrations ------------------------------
(***************************************************************************)
(* The integrations tab of the settings: Jira, Slack and the CI providers. *)
(* Two requests fill it, both of which say whether Jira is configured, and *)
(* each part has a form and a save of its own.                             *)
(*                                                                         *)
(* Credentials and choices are numbered as they are made; 0 is none, or    *)
(* the default events. Of a CI provider only whether it is enabled is kept *)
(* and shown: a token is typed anew for each save and never comes back.    *)
(***************************************************************************)
EXTENDS Naturals, FiniteSets

CONSTANTS
    Ci,               \* CI providers
    MaxMade,          \* bound: credentials and choices
    MaxTabLoads,      \* bound: visits of the tab
    MaxTabFaults      \* bound: requests that fail

ASSUME IntegrationsAssumption == {MaxMade, MaxTabLoads, MaxTabFaults} \subseteq Nat

VARIABLES
    jiraStored, eventsStored, webhookStored,     \* in the organization
    ciStored,         \* likewise: the CI providers stored as enabled
    tabOpen,
    jiraRead, orgRead,                           \* the requests that fill the tab
    configured, jiraTyped,                       \* isConfigured, form
    notifyOn, eventsSeen, webhookTyped, connected, \* the Slack form; eventsSeen is history
    jiraSave, slackSave,                         \* saves under way
    ciShown,          \* the CI providers shown as connected
    ciSaves,          \* likewise: tokens under way, one of a provider and tab at a time
    \* history
    vague,            \* parts a lost, late or missing answer, or another admin, made unsure
    clobbered,        \* since the tab was opened a save replaced events its user never saw
    made, tabLoads, tabFaults

integrationsVars == <<jiraStored, eventsStored, webhookStored, ciStored, tabOpen, jiraRead, orgRead,
                      configured, jiraTyped, notifyOn, eventsSeen, webhookTyped, connected,
                      jiraSave, slackSave, ciShown, ciSaves, vague, clobbered, made, tabLoads,
                      tabFaults>>
storedVars == <<jiraStored, eventsStored, webhookStored, ciStored>>
jiraPart == <<configured, jiraTyped>>
slackPart == <<notifyOn, eventsSeen, webhookTyped, connected>>
ciPart == <<ciShown, ciSaves>>
boundVars == <<made, tabLoads, tabFaults>>

Made == 0..MaxMade
Unread == [at |-> "none"]
NotSaving == [at |-> "none"]

IntegrationsTypeOK ==
    /\ jiraStored \in Made /\ eventsStored \in Made /\ webhookStored \in Made
    /\ tabOpen \in BOOLEAN /\ configured \in BOOLEAN /\ connected \in BOOLEAN
    /\ jiraRead.at \in {"none", "asked", "read"} /\ orgRead.at \in {"none", "asked", "read"}
    /\ jiraTyped \in Made /\ notifyOn \in Made /\ eventsSeen \in Made /\ webhookTyped \in Made
    /\ jiraSave.at \in {"none", "asked", "done"} /\ slackSave.at \in {"none", "asked", "done"}
    /\ ciStored \subseteq Ci /\ ciShown \subseteq Ci
    /\ ciSaves \subseteq [ci : Ci, tab : 0..MaxTabLoads, at : {"asked", "done"}]
    /\ vague \subseteq {"jira", "events"} \cup Ci /\ clobbered \in BOOLEAN
    /\ made \in Made /\ tabLoads \in 0..MaxTabLoads /\ tabFaults \in 0..MaxTabFaults

\* The state of the component as it mounts.
Blank ==
    /\ configured' = FALSE /\ jiraTyped' = 0
    /\ notifyOn' = 0 /\ eventsSeen' = 0 /\ webhookTyped' = 0 /\ connected' = FALSE
    /\ ciShown' = {}

IntegrationsInit ==
    /\ jiraStored = 0 /\ eventsStored = 0 /\ webhookStored = 0 /\ ciStored = {}
    /\ tabOpen = FALSE /\ jiraRead = Unread /\ orgRead = Unread
    /\ configured = FALSE /\ jiraTyped = 0
    /\ notifyOn = 0 /\ eventsSeen = 0 /\ webhookTyped = 0 /\ connected = FALSE
    /\ jiraSave = NotSaving /\ slackSave = NotSaving
    /\ ciShown = {} /\ ciSaves = {}
    /\ vague = {} /\ clobbered = FALSE /\ made = 0 /\ tabLoads = 0 /\ tabFaults = 0

Make == made < MaxMade /\ made' = made + 1
TabFault == tabFaults < MaxTabFaults /\ tabFaults' = tabFaults + 1

----------------------------------------------------------------------------
OpenIntegrations ==
    /\ ~tabOpen /\ tabOpen' = TRUE /\ tabLoads < MaxTabLoads /\ tabLoads' = tabLoads + 1
    /\ jiraRead' = [at |-> "asked"] /\ orgRead' = [at |-> "asked"]
    /\ vague' = (IF jiraSave.at = "asked" THEN {"jira"} ELSE {})
                \cup (IF slackSave.at = "asked" THEN {"events"} ELSE {})
                \cup {save.ci : save \in {s \in ciSaves : s.at = "asked"}}
    /\ clobbered' = FALSE
    /\ UNCHANGED <<storedVars, jiraPart, slackPart, jiraSave, slackSave, ciPart, made,
                   tabFaults>>

\* Answers to the former tab are ignored, its saves go on.
CloseIntegrations ==
    /\ tabOpen /\ tabOpen' = FALSE
    /\ jiraRead' = Unread /\ orgRead' = Unread /\ Blank
    /\ UNCHANGED <<storedVars, jiraSave, slackSave, ciSaves, vague, clobbered, boundVars>>

\* GET integrations/jira; the credentials come without the token.
ServeJira ==
    /\ jiraRead.at = "asked" /\ jiraRead' = [at |-> "read", jira |-> jiraStored]
    /\ UNCHANGED <<storedVars, tabOpen, orgRead, jiraPart, slackPart, jiraSave, slackSave,
                   ciPart, vague, clobbered, boundVars>>

JiraArrives ==
    /\ jiraRead.at = "read" /\ jiraRead' = Unread
    /\ configured' = (configured \/ jiraRead.jira # 0)
    /\ UNCHANGED <<storedVars, tabOpen, orgRead, jiraTyped, slackPart, jiraSave, slackSave,
                   ciPart, vague, clobbered, boundVars>>

\* Any failure is taken for "not configured".
JiraReadFails ==
    /\ jiraRead.at = "asked" /\ TabFault /\ jiraRead' = Unread
    /\ vague' = vague \cup {"jira"}
    /\ UNCHANGED <<storedVars, tabOpen, orgRead, jiraPart, slackPart, jiraSave, slackSave,
                   ciPart, clobbered, made, tabLoads>>

\* GET organization
ServeOrganization ==
    /\ orgRead.at = "asked"
    /\ orgRead' = [at |-> "read", jira |-> jiraStored, events |-> eventsStored,
                   webhook |-> webhookStored, ci |-> ciStored]
    /\ UNCHANGED <<storedVars, tabOpen, jiraRead, jiraPart, slackPart, jiraSave, slackSave,
                   ciPart, vague, clobbered, boundVars>>

\* It has the last word on Jira and the CI providers, also after a save; the Slack form
\* appears.
OrganizationArrives ==
    /\ orgRead.at = "read" /\ orgRead' = Unread
    /\ configured' = (orgRead.jira # 0)
    /\ notifyOn' = orgRead.events /\ eventsSeen' = orgRead.events
    /\ webhookTyped' = 0 /\ connected' = (orgRead.webhook # 0)
    /\ ciShown' = orgRead.ci
    /\ UNCHANGED <<storedVars, tabOpen, jiraRead, jiraTyped, jiraSave, slackSave, ciSaves, vague,
                   clobbered, boundVars>>

\* The Slack form appears all the same, with the default events, and no provider is connected.
OrganizationFails ==
    /\ orgRead.at = "asked" /\ TabFault /\ orgRead' = Unread
    /\ vague' = vague \cup {"events"} \cup Ci
    /\ UNCHANGED <<storedVars, tabOpen, jiraRead, jiraPart, slackPart, jiraSave, slackSave,
                   ciPart, clobbered, made, tabLoads>>

----------------------------------------------------------------------------
\* The tab is hidden while the Jira request is under way, the Slack form while the other is.
TabShown == tabOpen /\ jiraRead = Unread
SlackShown == TabShown /\ orgRead = Unread

TypeJira ==
    /\ TabShown /\ Make /\ jiraTyped' = made'
    /\ UNCHANGED <<storedVars, tabOpen, jiraRead, orgRead, configured, slackPart, jiraSave,
                   slackSave, ciPart, vague, clobbered, tabLoads, tabFaults>>

\* handleSave; without a token the server refuses, whatever the field's placeholder says.
SaveJira ==
    /\ TabShown /\ jiraSave.at = "none" /\ jiraTyped # 0
    /\ jiraSave' = [at |-> "asked", jira |-> jiraTyped, tab |-> tabLoads]
    /\ UNCHANGED <<storedVars, tabOpen, jiraRead, orgRead, jiraPart, slackPart, slackSave,
                   ciPart, vague, clobbered, boundVars>>

\* PUT integrations/jira replaces the whole part.
StoreJira ==
    /\ jiraSave.at = "asked" /\ jiraSave' = [jiraSave EXCEPT !.at = "done"]
    /\ jiraStored' = jiraSave.jira
    /\ vague' = IF "read" \in {orgRead.at, jiraRead.at} THEN vague \cup {"jira"} ELSE vague
    /\ UNCHANGED <<eventsStored, webhookStored, ciStored, tabOpen, jiraRead, orgRead, jiraPart,
                   slackPart, slackSave, ciPart, clobbered, boundVars>>

Here(save) == tabOpen /\ save.tab = tabLoads

JiraSaved ==
    /\ jiraSave.at = "done" /\ jiraSave' = NotSaving
    /\ IF Here(jiraSave) THEN configured' = TRUE /\ jiraTyped' = 0 ELSE UNCHANGED jiraPart
    /\ UNCHANGED <<storedVars, tabOpen, jiraRead, orgRead, slackPart, slackSave, ciPart, vague,
                   clobbered, boundVars>>

\* Before it is stored or after.
JiraSaveFails ==
    /\ jiraSave.at # "none" /\ TabFault /\ jiraSave' = NotSaving
    /\ vague' = IF jiraSave.at = "done" THEN vague \cup {"jira"} ELSE vague
    /\ UNCHANGED <<storedVars, tabOpen, jiraRead, orgRead, jiraPart, slackPart, slackSave,
                   ciPart, clobbered, made, tabLoads>>

----------------------------------------------------------------------------
ChooseEvents ==
    /\ SlackShown /\ Make /\ notifyOn' = made'
    /\ UNCHANGED <<storedVars, tabOpen, jiraRead, orgRead, jiraPart, eventsSeen, webhookTyped,
                   connected, jiraSave, slackSave, ciPart, vague, clobbered, tabLoads,
                   tabFaults>>

TypeWebhook ==
    /\ SlackShown /\ Make /\ webhookTyped' = made'
    /\ UNCHANGED <<storedVars, tabOpen, jiraRead, orgRead, jiraPart, notifyOn, eventsSeen,
                   connected, jiraSave, slackSave, ciPart, vague, clobbered, tabLoads,
                   tabFaults>>

\* handleSlackSave: the events always, the URL only if one was typed.
SaveSlack ==
    /\ SlackShown /\ slackSave.at = "none"
    /\ slackSave' = [at |-> "asked", events |-> notifyOn, seen |-> eventsSeen,
                     webhook |-> webhookTyped, tab |-> tabLoads]
    /\ UNCHANGED <<storedVars, tabOpen, jiraRead, orgRead, jiraPart, slackPart, jiraSave,
                   ciPart, vague, clobbered, boundVars>>

\* PATCH organization
StoreSlack ==
    /\ slackSave.at = "asked" /\ slackSave' = [slackSave EXCEPT !.at = "done"]
    /\ eventsStored' = slackSave.events
    /\ webhookStored' = IF slackSave.webhook = 0 THEN webhookStored ELSE slackSave.webhook
    /\ clobbered' = (clobbered \/ eventsStored # slackSave.seen)
    /\ vague' = IF orgRead.at = "read" THEN vague \cup {"events"} ELSE vague
    /\ UNCHANGED <<jiraStored, ciStored, tabOpen, jiraRead, orgRead, jiraPart, slackPart,
                   jiraSave, ciPart, boundVars>>

\* A URL typed meanwhile goes with the one saved.
SlackSaved ==
    /\ slackSave.at = "done" /\ slackSave' = NotSaving
    /\ IF Here(slackSave)
       THEN /\ webhookTyped' = 0 /\ connected' = (connected \/ slackSave.webhook # 0)
            /\ eventsSeen' = slackSave.events /\ UNCHANGED notifyOn
       ELSE UNCHANGED slackPart
    /\ UNCHANGED <<storedVars, tabOpen, jiraRead, orgRead, jiraPart, jiraSave, ciPart, vague,
                   clobbered, boundVars>>

SlackSaveFails ==
    /\ slackSave.at # "none" /\ TabFault /\ slackSave' = NotSaving
    /\ vague' = IF slackSave.at = "done" THEN vague \cup {"events"} ELSE vague
    /\ UNCHANGED <<storedVars, tabOpen, jiraRead, orgRead, jiraPart, slackPart, jiraSave,
                   ciPart, clobbered, made, tabLoads>>

\* Another admin; the route also disables a CI provider.
SaveElsewhereToo ==
    /\ Make
    /\ \/ /\ eventsStored' = made' /\ vague' = vague \cup {"events"}
          /\ UNCHANGED <<jiraStored, ciStored>>
       \/ /\ jiraStored' = made' /\ vague' = vague \cup {"jira"}
          /\ UNCHANGED <<eventsStored, ciStored>>
       \/ /\ \E c \in Ci : /\ ciStored' \in {ciStored \cup {c}, ciStored \ {c}}
                            /\ vague' = vague \cup {c}
          /\ UNCHANGED <<eventsStored, jiraStored>>
    /\ UNCHANGED <<webhookStored, tabOpen, jiraRead, orgRead, jiraPart, slackPart, jiraSave,
                   slackSave, ciPart, clobbered, tabLoads, tabFaults>>

----------------------------------------------------------------------------
CiToken(c, at) == [ci |-> c, tab |-> tabLoads, at |-> at]

\* handleCiSave, with a token typed before; the providers wait for Jira only.
SaveCi(c) ==
    /\ TabShown /\ \A save \in ciSaves : save.ci = c => save.tab # tabLoads
    /\ ciSaves' = ciSaves \cup {CiToken(c, "asked")}
    /\ UNCHANGED <<storedVars, tabOpen, jiraRead, orgRead, jiraPart, slackPart, jiraSave,
                   slackSave, ciShown, vague, clobbered, boundVars>>

\* PATCH organization/integrations/:provider
StoreCi(save) ==
    /\ save.at = "asked" /\ ciSaves' = (ciSaves \ {save}) \cup {[save EXCEPT !.at = "done"]}
    /\ ciStored' = ciStored \cup {save.ci}
    /\ vague' = IF orgRead.at = "read" THEN vague \cup {save.ci} ELSE vague
    /\ UNCHANGED <<jiraStored, eventsStored, webhookStored, tabOpen, jiraRead, orgRead, jiraPart,
                   slackPart, jiraSave, slackSave, ciShown, clobbered, boundVars>>

CiSaved(save) ==
    /\ save.at = "done" /\ ciSaves' = ciSaves \ {save}
    /\ ciShown' = IF Here(save) THEN ciShown \cup {save.ci} ELSE ciShown
    /\ UNCHANGED <<storedVars, tabOpen, jiraRead, orgRead, jiraPart, slackPart, jiraSave,
                   slackSave, vague, clobbered, boundVars>>

\* Before it is stored or after.
CiSaveFails(save) ==
    /\ TabFault /\ ciSaves' = ciSaves \ {save}
    /\ vague' = IF save.at = "done" THEN vague \cup {save.ci} ELSE vague
    /\ UNCHANGED <<storedVars, tabOpen, jiraRead, orgRead, jiraPart, slackPart, jiraSave,
                   slackSave, ciShown, clobbered, made, tabLoads>>

IntegrationsNext ==
    \/ OpenIntegrations \/ CloseIntegrations \/ ServeJira \/ JiraArrives \/ JiraReadFails
    \/ ServeOrganization \/ OrganizationArrives \/ OrganizationFails
    \/ TypeJira \/ SaveJira \/ StoreJira \/ JiraSaved \/ JiraSaveFails
    \/ ChooseEvents \/ TypeWebhook \/ SaveSlack \/ StoreSlack \/ SlackSaved \/ SlackSaveFails
    \/ SaveElsewhereToo
    \/ \E c \in Ci : SaveCi(c)
    \/ \E save \in ciSaves : StoreCi(save) \/ CiSaved(save) \/ CiSaveFails(save)

IntegrationsSpec == IntegrationsInit /\ [][IntegrationsNext]_integrationsVars

----------------------------------------------------------------------------
\* A save replaces events its user never saw only where another admin changed them, the
\* request that should have shown them failed, or the answer was older than an earlier
\* save; and Jira, Slack and each CI provider at rest are shown as configured exactly if they
\* are, under the same exceptions (IntegrationsTab.tsx, integrations.ts, organization.ts).
IntegrationsKept ==
    /\ clobbered => "events" \in vague
    /\ (TabShown /\ orgRead = Unread /\ jiraSave.at = "none" /\ "jira" \notin vague) =>
            configured = (jiraStored # 0)
    /\ (SlackShown /\ slackSave.at = "none" /\ "events" \notin vague) =>
            connected = (webhookStored # 0) /\ eventsSeen = eventsStored
    /\ \A c \in Ci \ vague :
            (TabShown /\ orgRead = Unread /\ ~\E save \in ciSaves : save.ci = c /\ Here(save)) =>
                (c \in ciShown <=> c \in ciStored)

=============================================================================
