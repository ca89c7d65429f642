---------------------------- MODULE ProjectSettings ----------------------------
(***************************************************************************)
(* Projects of one organization and the run settings of each, and the run  *)
(* settings tab of one user: it selects a project, loads its settings into *)
(* a form whose inputs are never disabled, and stores the whole form.      *)
(*                                                                         *)
(* A version of the settings is the number of the save that stored it, 0   *)
(* for EMPTY_SETTINGS.  The form is the project and the version it was     *)
(* loaded from, whether it was edited since and, as history, the reasons,  *)
(* if any, why that may not be what is stored for the selected project.    *)
(***************************************************************************)
EXTENDS Naturals, Sequences, SequencesExt

CONSTANTS
    Project,
    Limits,           \* values of limits.maxProjects, which changes with the plan
    MaxSaves,         \* bound: versions stored, here and elsewhere
    MaxLoads,         \* bound: requests for settings
    MaxLostRequests   \* bound: requests that fail

ASSUME ProjectSettingsAssumption ==
    /\ IsFiniteSet(Project) /\ Project # {} /\ "none" \notin Project
    /\ Limits \cup {MaxSaves, MaxLoads, MaxLostRequests} \subseteq Nat

VARIABLES
    projects,         \* the collection, oldest first
    settings,         \* testRunSettings
    listAt,           \* the list in the tab: loading, shown, limited (no row to create)
    offered,          \* the projects it offers
    selected,         \* selectedProjectId
    form,             \* settings
    fetches,          \* GET requests for settings
    putting,          \* the PUT under way, if any
    adding,           \* the POST requests for projects under way
    saves, fetched, lostRequests,
    blind             \* history: a version was replaced by one not made from it, for no known reason

projectSettingsVars == <<projects, settings, listAt, offered, selected, form, fetches, putting,
                         adding, saves, fetched, lostRequests, blind>>

None == "none"
Version == 0..MaxSaves
Doubt == {"early", "crossed", "overtaken", "elsewhere", "failed"}
Form == [of : Project \cup {None}, base : Version, edited : BOOLEAN, why : SUBSET Doubt]
EMPTY_SETTINGS == [of |-> None, base |-> 0, edited |-> FALSE, why |-> {}]
NoSave == [at |-> "none", of |-> None, form |-> EMPTY_SETTINGS, seen |-> 0, why |-> {}]

ProjectSettingsTypeOK ==
    /\ projects \in Seq(Project) /\ IsInjective(projects)
    /\ settings \in [Project -> Version]
    /\ listAt \in {"loading", "shown", "limited"} /\ offered \subseteq Project
    /\ selected \in Project \cup {None}
    /\ form \in Form
    /\ fetches \subseteq [id : 1..MaxLoads, of : Project, at : {"asked", "read"}, seen : Version,
                          why : SUBSET Doubt]
    /\ putting \in [at : {"none", "sent", "written", "read"}, of : Project \cup {None}, form : Form,
                   seen : Version, why : SUBSET Doubt]
    /\ adding \subseteq [at : {"sent", "written"}, of : Project]
    /\ saves \in Version /\ fetched \in 0..MaxLoads /\ lostRequests \in 0..MaxLostRequests
    /\ blind \in BOOLEAN

ProjectSettingsInit ==
    /\ \E known \in {{}, {CHOOSE p \in Project : TRUE}, Project} : projects = SetToSeq(known)
    /\ settings = [p \in Project |-> 0]
    /\ listAt = "loading" /\ offered = {} /\ selected = None /\ form = EMPTY_SETTINGS
    /\ fetches = {} /\ putting = NoSave /\ adding = {}
    /\ saves = 0 /\ fetched = 0 /\ lostRequests = 0 /\ blind = FALSE

----------------------------------------------------------------------------
\* Selecting another project fetches its settings; requests under way are not cancelled.
SelectedNow(p) ==
    /\ selected' = p
    /\ IF p = selected THEN UNCHANGED <<fetches, fetched>>
       ELSE /\ fetched < MaxLoads /\ fetched' = fetched + 1
            /\ fetches' = fetches \cup {[id |-> fetched', of |-> p, at |-> "asked", seen |-> 0, why |-> {}]}

\* fetchProjects, newest first: the first of them is selected.
ProjectsArrive ==
    /\ listAt = "loading" /\ listAt' = "shown" /\ offered' = Range(projects)
    /\ IF projects = <<>> THEN UNCHANGED <<selected, fetches, fetched>> ELSE SelectedNow(Last(projects))
    /\ UNCHANGED <<projects, settings, form, putting, adding, saves, lostRequests, blind>>

ProjectsFail ==
    /\ listAt = "loading" /\ listAt' = "shown"
    /\ lostRequests < MaxLostRequests /\ lostRequests' = lostRequests + 1
    /\ UNCHANGED <<projects, settings, offered, selected, form, fetches, putting, adding, saves,
                   fetched, blind>>

\* The select offers the listed projects.
ChooseProject(p) ==
    /\ p \in offered /\ p # selected
    /\ SelectedNow(p)
    /\ UNCHANGED <<projects, settings, listAt, offered, form, putting, adding, saves,
                   lostRequests, blind>>

----------------------------------------------------------------------------
\* What is stored of p changes: who has read it before holds an older version.
Outdated(p, why) ==
    fetches' = {IF f.of = p /\ f.at = "read" THEN [f EXCEPT !.why = @ \cup {why}] ELSE f : f \in fetches}

ServeSettings(f) ==
    /\ f.at = "asked"
    /\ fetches' = (fetches \ {f}) \cup {[f EXCEPT !.at = "read", !.seen = settings[f.of]]}
    /\ UNCHANGED <<projects, settings, listAt, offered, selected, form, putting, adding, saves,
                   fetched, lostRequests, blind>>

\* fetchSettings shows the answer, whichever project is selected by now.
Loaded(p, seen, why) ==
    form' = [of |-> p, base |-> seen, edited |-> FALSE,
             why |-> why \cup IF p = selected THEN {} ELSE {"crossed"}]

SettingsArrive(f) ==
    /\ f.at = "read" /\ fetches' = fetches \ {f}
    /\ Loaded(f.of, f.seen, f.why)
    /\ UNCHANGED <<projects, settings, listAt, offered, selected, putting, adding, saves, fetched,
                   lostRequests, blind>>

SettingsFail(f) ==
    /\ lostRequests < MaxLostRequests /\ lostRequests' = lostRequests + 1
    /\ fetches' = fetches \ {f}
    /\ form' = [EMPTY_SETTINGS EXCEPT !.of = f.of, !.why = {"failed"}]
    /\ UNCHANGED <<projects, settings, listAt, offered, selected, putting, adding, saves, fetched,
                   blind>>

\* An input or the quarantine switch.
EditForm ==
    /\ selected # None /\ ~form.edited
    /\ form' = [form EXCEPT !.edited = TRUE]
    /\ UNCHANGED <<projects, settings, listAt, offered, selected, fetches, putting, adding, saves,
                   fetched, lostRequests, blind>>

\* handleSave: the whole form, for the selected project.
SaveForm ==
    /\ selected # None /\ putting.at = "none"
    /\ putting' = [NoSave EXCEPT !.at = "sent", !.of = selected, !.form = form,
                      !.why = form.why \cup IF fetches = {} THEN {} ELSE {"early"}]
    /\ UNCHANGED <<projects, settings, listAt, offered, selected, form, fetches, adding, saves,
                   fetched, lostRequests, blind>>

\* The upsert; the prefetch of the image is not awaited.
WriteSettings ==
    /\ putting.at = "sent" /\ putting' = [putting EXCEPT !.at = "written"]
    /\ saves < MaxSaves /\ saves' = saves + 1
    /\ settings' = [settings EXCEPT ![putting.of] = saves']
    /\ blind' = (blind \/ (/\ putting.why = {}
                           /\ (putting.form.of # putting.of \/ putting.form.base # settings[putting.of])))
    /\ Outdated(putting.of, "overtaken")
    /\ UNCHANGED <<projects, listAt, offered, selected, form, adding, fetched, lostRequests>>

ReadSettingsBack ==
    /\ putting.at = "written"
    /\ putting' = [putting EXCEPT !.at = "read", !.seen = settings[putting.of], !.why = {}]
    /\ UNCHANGED <<projects, settings, listAt, offered, selected, form, fetches, adding, saves,
                   fetched, lostRequests, blind>>

\* The answer replaces the form, with what was typed since.
SaveAnswered ==
    /\ putting.at = "read" /\ putting' = NoSave
    /\ Loaded(putting.of, putting.seen, putting.why)
    /\ UNCHANGED <<projects, settings, listAt, offered, selected, fetches, adding, saves, fetched,
                   lostRequests, blind>>

SaveFormFails ==
    /\ putting.at # "none" /\ putting' = NoSave
    /\ lostRequests < MaxLostRequests /\ lostRequests' = lostRequests + 1
    /\ form' = [form EXCEPT !.why = @ \cup IF putting.at = "sent" THEN {} ELSE {"failed"}]
    /\ UNCHANGED <<projects, settings, listAt, offered, selected, fetches, adding, saves, fetched,
                   blind>>

\* Another user stores the settings of a project.
SaveElsewhere(p) ==
    /\ Contains(projects, p) /\ saves < MaxSaves /\ saves' = saves + 1
    /\ settings' = [settings EXCEPT ![p] = saves']
    /\ Outdated(p, "elsewhere")
    /\ form' = IF form.of = p THEN [form EXCEPT !.why = @ \cup {"elsewhere"}] ELSE form
    /\ putting' = IF putting.of = p THEN [putting EXCEPT !.why = @ \cup {"elsewhere"}] ELSE putting
    /\ UNCHANGED <<projects, listAt, offered, selected, adding, fetched, lostRequests, blind>>

----------------------------------------------------------------------------
\* handleCreateProject: the row is hidden once the limit was reached.  Enter submits
\* while another request is under way; a name taken is refused and is left out.
StartCreate(p) ==
    /\ listAt = "shown" /\ ~Contains(projects, p) /\ ~\E a \in adding : a.of = p
    /\ adding' = adding \cup {[at |-> "sent", of |-> p]}
    /\ UNCHANGED <<projects, settings, listAt, offered, selected, form, fetches, putting, saves,
                   fetched, lostRequests, blind>>

\* POST /api/projects: the limit, the unique slug, the insert.
InsertProject(a) ==
    /\ a.at = "sent" /\ \E max \in Limits : Len(projects) < max
    /\ projects' = Append(projects, a.of)
    /\ adding' = (adding \ {a}) \cup {[a EXCEPT !.at = "written"]}
    /\ UNCHANGED <<settings, listAt, offered, selected, form, fetches, putting, saves, fetched,
                   lostRequests, blind>>

ProjectLimitReached(a) ==
    /\ a.at = "sent" /\ \E max \in Limits : Len(projects) >= max
    /\ adding' = adding \ {a} /\ listAt' = "limited"
    /\ UNCHANGED <<projects, settings, offered, selected, form, fetches, putting, saves, fetched,
                   lostRequests, blind>>

\* The new project is listed and selected.
ProjectCreated(a) ==
    /\ a.at = "written" /\ adding' = adding \ {a} /\ offered' = offered \cup {a.of}
    /\ SelectedNow(a.of)
    /\ UNCHANGED <<projects, settings, listAt, form, putting, saves, lostRequests, blind>>

CreateFails(a) ==
    /\ adding' = adding \ {a}
    /\ lostRequests < MaxLostRequests /\ lostRequests' = lostRequests + 1
    /\ UNCHANGED <<projects, settings, listAt, offered, selected, form, fetches, putting, saves,
                   fetched, blind>>

ProjectSettingsNext ==
    \/ ProjectsArrive \/ ProjectsFail
    \/ \E p \in Project : ChooseProject(p) \/ SaveElsewhere(p) \/ StartCreate(p)
    \/ \E f \in fetches : ServeSettings(f) \/ SettingsArrive(f) \/ SettingsFail(f)
    \/ EditForm \/ SaveForm \/ WriteSettings \/ ReadSettingsBack \/ SaveAnswered \/ SaveFormFails
    \/ \E a \in adding : \/ InsertProject(a) \/ ProjectLimitReached(a)
                        \/ ProjectCreated(a) \/ CreateFails(a)

ProjectSettingsSpec == ProjectSettingsInit /\ [][ProjectSettingsNext]_projectSettingsVars

----------------------------------------------------------------------------
\* A save replaces the version its form was made from, of the selected project, and a
\* form at rest belongs to the selected project and its stored version, except where an
\* answer was awaited, overtaken, shown for another project or lost, or where somebody
\* else saved (RunSettingsTab.tsx, projectSettings.ts).
RunSettingsKept ==
    /\ ~blind
    /\ (selected # None /\ fetches = {} /\ putting.at = "none" /\ form.why = {}) =>
            (form.of = selected /\ form.base = settings[selected])

=============================================================================
