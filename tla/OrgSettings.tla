------------------------------ MODULE OrgSettings ------------------------------
(***************************************************************************)
(* The settings of one organization, stored under paths of its document,   *)
(* and the three settings tabs of one administrator that change them: each *)
(* request writes only its own paths, and the tab shows what it learns     *)
(* from the answers.  Other administrators change the same document.       *)
(*                                                                         *)
(* A value is the number of the change that gave it, 0 if there is none.   *)
(***************************************************************************)
EXTENDS Naturals, FiniteSets

CONSTANTS
    Flag,             \* feature flags: features.* and aiFeatures.*
    Provider,         \* language model providers whose key may be stored
    MaxChanges,       \* bound: changes
    MaxTabs,          \* bound: openings of tabs
    MaxLostAnswers    \* bound: requests that fail

ASSUME OrgSettingsAssumption == {MaxChanges, MaxTabs, MaxLostAnswers} \subseteq Nat

VARIABLES
    orgDoc,           \* the document: a value for each path
    patches,          \* PATCH requests of the tabs
    panel,            \* the tabs: closed, fetching, shown; the fetch in progress
    showing,            \* what the tabs show
    changes, opened, lost,
    storedLast,            \* history: the last value somebody stored at each path
    behind            \* history: paths changed where no answer will tell the tab

orgSettingsVars == <<orgDoc, patches, panel, showing, changes, opened, lost, storedLast, behind>>

Tab == {"organization", "features", "security"}
PathsOf(t) == CASE t = "organization" -> {"name"}
                [] t = "features" -> Flag
                [] t = "security" -> {"defaultModel"} \cup Provider
Path == UNION {PathsOf(t) : t \in Tab}
\* features.*, aiFeatures.*, aiConfig.byok.*, aiConfig.defaultModel and name are different paths.
ASSUME OrgSettingsPaths == \A t, u \in Tab : t # u => PathsOf(t) \cap PathsOf(u) = {}

\* A request in progress disables its own control only.
Control == {"saving", "isUpdating", "savingModel", "savingKey", "removingKey"}
TabOf(c) == IF c = "saving" THEN "organization" ELSE IF c = "isUpdating" THEN "features" ELSE "security"
PathsUnder(c) == CASE c = "savingModel" -> {"defaultModel"}
                   [] c \in {"savingKey", "removingKey"} -> Provider
                   [] OTHER -> PathsOf(TabOf(c))

Doc == [Path -> 0..MaxChanges]
Patch == [of : Control, path : Path, value : 0..MaxChanges, at : {"sent", "written", "read"},
          seen : Doc, missed : SUBSET Path, live : BOOLEAN]
Nothing0 == [p \in Path |-> 0]
NoPanel == [at |-> "closed", seen |-> Nothing0, missed |-> {}]

OrgSettingsTypeOK ==
    /\ orgDoc \in Doc /\ showing \in Doc /\ storedLast \in Doc /\ behind \subseteq Path
    /\ patches \subseteq Patch
    /\ panel \in [Tab -> [at : {"closed", "asked", "answered", "shown"}, seen : Doc, missed : SUBSET Path]]
    /\ changes \in 0..MaxChanges /\ opened \in 0..MaxTabs /\ lost \in 0..MaxLostAnswers

OrgSettingsInit ==
    /\ orgDoc = Nothing0 /\ storedLast = Nothing0 /\ showing = Nothing0
    /\ patches = {} /\ panel = [t \in Tab |-> NoPanel]
    /\ changes = 0 /\ opened = 0 /\ lost = 0 /\ behind = {}

\* $set and $unset with dotted paths.
Stored(doc, written) == [p \in Path |-> IF p \in DOMAIN written THEN written[p] ELSE doc[p]]

Write(written) ==
    /\ orgDoc' = Stored(orgDoc, written)
    /\ storedLast' = [p \in Path |-> IF p \in DOMAIN written THEN written[p] ELSE storedLast[p]]

\* Who has read the document already misses what is written now.
Missing(x, paths) == [x EXCEPT !.missed = @ \cup paths]
AllMissing(ps, paths) == {IF p.at = "read" THEN Missing(p, paths) ELSE p : p \in ps}
PanelsMissing(paths) == [t \in Tab |-> IF panel[t].at = "answered" THEN Missing(panel[t], paths) ELSE panel[t]]

\* Mounting fetches; what the tab had under way is answered to nobody.
OpenTab(t) ==
    /\ opened < MaxTabs /\ opened' = opened + 1
    /\ panel' = [panel EXCEPT ![t] = [NoPanel EXCEPT !.at = "asked"]]
    /\ patches' = {IF TabOf(p.of) = t THEN [p EXCEPT !.live = FALSE] ELSE p : p \in patches}
    /\ behind' = behind \cup {p.path : p \in {q \in patches : TabOf(q.of) = t}}
    /\ UNCHANGED <<orgDoc, showing, changes, lost, storedLast>>

\* GET /api/organization and GET /api/organization/ai-config.
ServeTab(t) ==
    /\ panel[t].at = "asked"
    /\ panel' = [panel EXCEPT ![t] = [at |-> "answered", seen |-> orgDoc, missed |-> {}]]
    /\ UNCHANGED <<orgDoc, patches, showing, changes, opened, lost, storedLast, behind>>

\* What somebody else's request wrote meanwhile stays unknown to the tab.
Learn(t, seen, missed) ==
    /\ showing' = [p \in Path |-> IF p \in PathsOf(t) THEN seen[p] ELSE showing[p]]
    /\ behind' = (behind \ PathsOf(t)) \cup (missed \cap PathsOf(t))

ShowTab(t) ==
    /\ panel[t].at = "answered"
    /\ panel' = [panel EXCEPT ![t] = [NoPanel EXCEPT !.at = "shown"]]
    /\ Learn(t, panel[t].seen, panel[t].missed)
    /\ UNCHANGED <<orgDoc, patches, changes, opened, lost, storedLast>>

\* The features and the AI configuration have defaults to show; the organization has not.
FetchFails(t) ==
    /\ panel[t].at \in {"asked", "answered"} /\ lost < MaxLostAnswers /\ lost' = lost + 1
    /\ panel' = [panel EXCEPT ![t] = [NoPanel EXCEPT !.at = IF t = "organization" THEN "closed" ELSE "shown"]]
    /\ behind' = behind \cup PathsOf(t)
    /\ UNCHANGED <<orgDoc, patches, showing, changes, opened, storedLast>>

\* handleSave, handleToggle, handleModelChange, handleSaveKey, handleRemoveKey.
StartPatch(c) ==
    /\ panel[TabOf(c)].at = "shown" \/ (c = "isUpdating" /\ panel["features"].at # "closed")
    /\ ~\E p \in patches : p.live /\ p.of = c
    /\ changes < MaxChanges /\ changes' = changes + 1
    /\ \E path \in PathsUnder(c) :
        /\ c = "removingKey" => showing[path] # 0
        /\ patches' = patches \cup
             {[of |-> c, path |-> path, value |-> IF c = "removingKey" THEN 0 ELSE changes', at |-> "sent",
               seen |-> Nothing0, missed |-> {}, live |-> TRUE]}
    /\ UNCHANGED <<orgDoc, panel, showing, opened, lost, storedLast, behind>>

\* updateOne.
WritePatch(p) ==
    /\ p.at = "sent"
    /\ Write([q \in {p.path} |-> p.value])
    /\ patches' = AllMissing(patches \ {p}, {p.path}) \cup {[p EXCEPT !.at = "written"]}
    /\ panel' = PanelsMissing({p.path})
    /\ behind' = IF p.live THEN behind ELSE behind \cup {p.path}
    /\ UNCHANGED <<showing, changes, opened, lost>>

\* findOne, and the audit entry, whose failure is only logged.
ReadBack(p) ==
    /\ p.at = "written"
    /\ patches' = (patches \ {p}) \cup {[p EXCEPT !.at = "read", !.seen = orgDoc]}
    /\ UNCHANGED <<orgDoc, panel, showing, changes, opened, lost, storedLast, behind>>

\* The organization tab shows its own input, the security tab the answer, and the
\* features are fetched again, in place of a fetch under way.
ShowPatch(p) ==
    /\ p.at = "read" /\ patches' = patches \ {p}
    /\ \/ ~p.live /\ UNCHANGED <<panel, showing, behind>>
       \/ /\ p.live /\ p.of = "saving" /\ showing' = [showing EXCEPT !["name"] = p.value]
          /\ behind' = (behind \ {"name"}) \cup (p.missed \cap {"name"})
                            \cup IF p.seen["name"] = p.value THEN {} ELSE {"name"}
          /\ UNCHANGED panel
       \/ /\ p.live /\ p.of = "isUpdating"
          /\ panel' = [panel EXCEPT !["features"] = [NoPanel EXCEPT !.at = "asked"]]
          /\ UNCHANGED <<showing, behind>>
       \/ /\ p.live /\ TabOf(p.of) = "security"
          /\ Learn("security", p.seen, p.missed)
          /\ UNCHANGED panel
    /\ UNCHANGED <<orgDoc, changes, opened, lost, storedLast>>

\* Refused, an exception, or no answer: written or not.
PatchFails(p) ==
    /\ lost < MaxLostAnswers /\ lost' = lost + 1
    /\ patches' = patches \ {p}
    /\ behind' = IF p.at = "sent" THEN behind ELSE behind \cup {p.path}
    /\ UNCHANGED <<orgDoc, panel, showing, changes, opened, storedLast>>

\* Another administrator stores several settings of one route at once.
PatchElsewhere ==
    /\ changes < MaxChanges /\ changes' = changes + 1
    /\ \E t \in Tab : \E paths \in (SUBSET PathsOf(t)) \ {{}} :
        /\ Write([p \in paths |-> changes'])
        /\ patches' = AllMissing(patches, paths) /\ panel' = PanelsMissing(paths)
        /\ behind' = behind \cup paths
    /\ UNCHANGED <<showing, opened, lost>>

OrgSettingsNext ==
    \/ \E t \in Tab : OpenTab(t) \/ ServeTab(t) \/ ShowTab(t) \/ FetchFails(t)
    \/ \E c \in Control : StartPatch(c)
    \/ \E p \in patches : WritePatch(p) \/ ReadBack(p) \/ ShowPatch(p) \/ PatchFails(p)
    \/ PatchElsewhere

OrgSettingsSpec == OrgSettingsInit /\ [][OrgSettingsNext]_orgSettingsVars

----------------------------------------------------------------------------
\* Concurrent requests never undo each other's settings, and a tab at rest shows what
\* is stored, except where somebody else changed it, an answer was lost, or an answer
\* was overtaken by a later one (organization.ts, SecurityTab.tsx, FeaturesTab.tsx).
OrgSettingsKept ==
    /\ orgDoc = storedLast
    /\ \A t \in Tab :
        (panel[t].at = "shown" /\ ~\E p \in patches : TabOf(p.of) = t /\ p.live) =>
            \A p \in PathsOf(t) \ behind : showing[p] = orgDoc[p]

=============================================================================
