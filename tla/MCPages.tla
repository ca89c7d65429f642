------------------------------- MODULE MCPages ------------------------------
(***************************************************************************)
(* Small instances of the pages of the dashboard with the routes behind    *)
(* them, and of PrRouting, which reads what one of them edits. They share  *)
(* no state; where one reads what another stores, as the launch form reads *)
(* the run settings, any change of it is an action of its own. So no step  *)
(* of one breaks a property of another, and exploring one of them at a     *)
(* time finds every violation their product would.                         *)
(***************************************************************************)
EXTENDS LiveView, JiraTicket, Chat, TestLibrary, OrgSettings, ProjectSettings,
        LaunchForm, CyclePages, Stability, BugReport, BulkActions, Integrations,
        PrRouting, ProfilePage, MembersPage, VariablesTab

VARIABLE focus   \* the page that moves

MCTypesOf == [alpha |-> {"bug", "task"}, beta |-> {"story"}]
MCPeopleOf == [alpha |-> {"ann"}, beta |-> {"bob"}]

Init ==
    /\ focus \in {"view", "tickets", "chat", "library", "settings", "runsettings",
                  "launch", "cycles", "stability", "bugs", "bulk", "integrations",
                  "routing", "profile", "memberpage", "vartab"}
    /\ LiveViewInit /\ JiraTicketInit /\ ChatInit /\ TestLibraryInit /\ OrgSettingsInit
    /\ ProjectSettingsInit /\ LaunchInit /\ CyclePagesInit /\ StabilityInit /\ BugInit
    /\ BulkInit /\ IntegrationsInit /\ PrInit /\ ProfileInit /\ MembersPageInit
    /\ VariablesTabInit
    \* where nothing moves, one of the initial states is enough
    /\ focus # "library" => created = {}
    /\ focus # "runsettings" => projects = <<>>
    /\ focus # "memberpage" => \A c \in Colleague : rankStored[c] = "viewer"
    /\ focus # "bulk" => \A r \in Row : storedRows[r] = "none"

Next ==
    \/ /\ focus = "view" /\ LiveViewNext
       /\ UNCHANGED <<focus, jiraVars, chatVars, libraryVars, orgSettingsVars,
                       projectSettingsVars, launchVars, cyclePagesVars, stabilityVars,
                       bugVars, bulkVars, integrationsVars, prVars, profilePageVars,
                       membersPageVars, variablesTabVars>>
    \/ /\ focus = "tickets" /\ JiraTicketNext
       /\ UNCHANGED <<focus, liveViewVars, chatVars, libraryVars, orgSettingsVars,
                       projectSettingsVars, launchVars, cyclePagesVars, stabilityVars,
                       bugVars, bulkVars, integrationsVars, prVars, profilePageVars,
                       membersPageVars, variablesTabVars>>
    \/ /\ focus = "chat" /\ ChatNext
       /\ UNCHANGED <<focus, liveViewVars, jiraVars, libraryVars, orgSettingsVars,
                       projectSettingsVars, launchVars, cyclePagesVars, stabilityVars,
                       bugVars, bulkVars, integrationsVars, prVars, profilePageVars,
                       membersPageVars, variablesTabVars>>
    \/ /\ focus = "library" /\ TestLibraryNext
       /\ UNCHANGED <<focus, liveViewVars, jiraVars, chatVars, orgSettingsVars,
                       projectSettingsVars, launchVars, cyclePagesVars, stabilityVars,
                       bugVars, bulkVars, integrationsVars, prVars, profilePageVars,
                       membersPageVars, variablesTabVars>>
    \/ /\ focus = "settings" /\ OrgSettingsNext
       /\ UNCHANGED <<focus, liveViewVars, jiraVars, chatVars, libraryVars,
                       projectSettingsVars, launchVars, cyclePagesVars, stabilityVars,
                       bugVars, bulkVars, integrationsVars, prVars, profilePageVars,
                       membersPageVars, variablesTabVars>>
    \/ /\ focus = "runsettings" /\ ProjectSettingsNext
       /\ UNCHANGED <<focus, liveViewVars, jiraVars, chatVars, libraryVars,
                       orgSettingsVars, launchVars, cyclePagesVars, stabilityVars,
                       bugVars, bulkVars, integrationsVars, prVars, profilePageVars,
                       membersPageVars, variablesTabVars>>
    \/ /\ focus = "launch" /\ LaunchNext
       /\ UNCHANGED <<focus, liveViewVars, jiraVars, chatVars, libraryVars,
                       orgSettingsVars, projectSettingsVars, cyclePagesVars,
                       stabilityVars, bugVars, bulkVars, integrationsVars, prVars,
                       profilePageVars, membersPageVars, variablesTabVars>>
    \/ /\ focus = "cycles" /\ CyclePagesNext
       /\ UNCHANGED <<focus, liveViewVars, jiraVars, chatVars, libraryVars,
                       orgSettingsVars, projectSettingsVars, launchVars, stabilityVars,
                       bugVars, bulkVars, integrationsVars, prVars, profilePageVars,
                       membersPageVars, variablesTabVars>>
    \/ /\ focus = "stability" /\ StabilityNext
       /\ UNCHANGED <<focus, liveViewVars, jiraVars, chatVars, libraryVars,
                       orgSettingsVars, projectSettingsVars, launchVars, cyclePagesVars,
                       bugVars, bulkVars, integrationsVars, prVars, profilePageVars,
                       membersPageVars, variablesTabVars>>
    \/ /\ focus = "bugs" /\ BugNext
       /\ UNCHANGED <<focus, liveViewVars, jiraVars, chatVars, libraryVars,
                       orgSettingsVars, projectSettingsVars, launchVars, cyclePagesVars,
                       stabilityVars, bulkVars, integrationsVars, prVars,
                       profilePageVars, membersPageVars, variablesTabVars>>
    \/ /\ focus = "bulk" /\ BulkNext
       /\ UNCHANGED <<focus, liveViewVars, jiraVars, chatVars, libraryVars,
                       orgSettingsVars, projectSettingsVars, launchVars, cyclePagesVars,
                       stabilityVars, bugVars, integrationsVars, prVars,
                       profilePageVars, membersPageVars, variablesTabVars>>
    \/ /\ focus = "integrations" /\ IntegrationsNext
       /\ UNCHANGED <<focus, liveViewVars, jiraVars, chatVars, libraryVars,
                       orgSettingsVars, projectSettingsVars, launchVars, cyclePagesVars,
                       stabilityVars, bugVars, bulkVars, prVars, profilePageVars,
                       membersPageVars, variablesTabVars>>
    \/ /\ focus = "routing" /\ PrNext
       /\ UNCHANGED <<focus, liveViewVars, jiraVars, chatVars, libraryVars,
                       orgSettingsVars, projectSettingsVars, launchVars, cyclePagesVars,
                       stabilityVars, bugVars, bulkVars, integrationsVars,
                       profilePageVars, membersPageVars, variablesTabVars>>
    \/ /\ focus = "profile" /\ ProfileNext
       /\ UNCHANGED <<focus, liveViewVars, jiraVars, chatVars, libraryVars,
                       orgSettingsVars, projectSettingsVars, launchVars, cyclePagesVars,
                       stabilityVars, bugVars, bulkVars, integrationsVars, prVars,
                       membersPageVars, variablesTabVars>>
    \/ /\ focus = "memberpage" /\ MembersPageNext
       /\ UNCHANGED <<focus, liveViewVars, jiraVars, chatVars, libraryVars,
                       orgSettingsVars, projectSettingsVars, launchVars, cyclePagesVars,
                       stabilityVars, bugVars, bulkVars, integrationsVars, prVars,
                       profilePageVars, variablesTabVars>>
    \/ /\ focus = "vartab" /\ VariablesTabNext
       /\ UNCHANGED <<focus, liveViewVars, jiraVars, chatVars, libraryVars,
                       orgSettingsVars, projectSettingsVars, launchVars, cyclePagesVars,
                       stabilityVars, bugVars, bulkVars, integrationsVars, prVars,
                       profilePageVars, membersPageVars>>

vars == <<focus, liveViewVars, jiraVars, chatVars, libraryVars, orgSettingsVars,
          projectSettingsVars, launchVars, cyclePagesVars, stabilityVars, bugVars,
          bulkVars, integrationsVars, prVars, profilePageVars, membersPageVars,
          variablesTabVars>>
Spec == Init /\ [][Next]_vars

\* The type invariant of the page that moves; the others are in an initial state.
TypeOK ==
    /\ focus = "view" => LiveViewTypeOK
    /\ focus = "tickets" => JiraTicketTypeOK
    /\ focus = "chat" => ChatTypeOK
    /\ focus = "library" => TestLibraryTypeOK
    /\ focus = "settings" => OrgSettingsTypeOK
    /\ focus = "runsettings" => ProjectSettingsTypeOK
    /\ focus = "launch" => LaunchTypeOK
    /\ focus = "cycles" => CyclePagesTypeOK
    /\ focus = "stability" => StabilityTypeOK
    /\ focus = "bugs" => BugTypeOK
    /\ focus = "bulk" => BulkTypeOK
    /\ focus = "integrations" => IntegrationsTypeOK
    /\ focus = "routing" => PrTypeOK
    /\ focus = "profile" => ProfileTypeOK
    /\ focus = "memberpage" => MembersPageTypeOK
    /\ focus = "vartab" => VariablesTabTypeOK

\* What users store is what they stored last: the property of each module of records.
RecordsKept ==
    /\ focus = "library" => LibraryKept
    /\ focus = "settings" => OrgSettingsKept
    /\ focus = "runsettings" => RunSettingsKept
    /\ focus = "launch" => LaunchFits
    /\ focus = "cycles" => CyclePageKept
    /\ focus = "stability" => StabilityFits
    /\ focus = "bugs" => IssuesFit
    /\ focus = "bulk" => BulkFits
    /\ focus = "integrations" => IntegrationsKept
    /\ focus = "routing" => RoutedFits
    /\ focus = "profile" => ProfileFits
    /\ focus = "memberpage" => MembersPageFits
    /\ focus = "vartab" => VariablesFit

=============================================================================
