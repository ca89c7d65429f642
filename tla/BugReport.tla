------------------------------- MODULE BugReport --------------------------------
(***************************************************************************)
(* The bug report a language model drafts for a failed run: the request of *)
(* the execution drawer, which the drawer's next run inherits, the form in *)
(* which a user edits the draft, and the Jira issue made of it.            *)
(*                                                                         *)
(* A line of a list is "drafted", "edited" or "blank".                     *)
(***************************************************************************)
EXTENDS Naturals, SequencesExt, Lists

CONSTANTS
    Failure,          \* runs the drawer may show
    MaxDrafts,        \* bound: requests for a draft
    MaxOutcomes,      \* bound: changes of a run's status
    MaxEdits,         \* bound: edits of a form
    MaxShows          \* bound: runs the drawer shows, one after the other

ASSUME BugReportAssumption ==
    /\ "none" \notin Failure
    /\ {MaxDrafts, MaxOutcomes, MaxEdits, MaxShows} \subseteq Nat

VARIABLES
    outcome,          \* the status of each run, live in the browser
    drawerRun,        \* the run shown, or none
    drafting,         \* POST generate-bug-report, the drawer's only one
    draft,            \* bugReport
    bugForm,          \* the state of the mounted AutoBugModal
    jiraForm,         \* what the Jira form was opened with
    bugIssues,        \* issues created: the run and the description
    \* history
    moved,            \* the run shown is not the one the draft was asked for
    drafts, outcomes, edits, shows

bugVars == <<outcome, drawerRun, drafting, draft, bugForm, jiraForm, bugIssues, moved, drafts,
             outcomes, edits, shows>>

Line == {"drafted", "edited", "blank"}
Severity == {"critical", "high", "medium", "low"}
NoDraft == [of |-> "none"]
NoDrafting == [at |-> "none", of |-> "none", answer |-> NoDraft]
Lists(most) == UNION {[1..n -> Line] : n \in 0..most}

BugTypeOK ==
    /\ outcome \in [Failure -> {"RUNNING", "FAILED", "PASSED"}]
    /\ drawerRun \in Failure \cup {"none"}
    /\ drafting.at \in {"none", "asked", "done"} /\ drafting.of \in Failure \cup {"none"}
    /\ \A d \in {draft, bugForm, jiraForm, drafting.answer} : d = NoDraft \/
          /\ d.of \in Failure /\ d.severity \in Severity
          /\ d.steps \in Lists(2 + MaxEdits) /\ d.patches \in Lists(1)
    /\ \A i \in bugIssues : i.run \in Failure /\ i.text.of \in Failure
    /\ moved \in BOOLEAN /\ drafts \in 0..MaxDrafts /\ outcomes \in 0..MaxOutcomes
    /\ edits \in 0..MaxEdits /\ shows \in 0..MaxShows

BugInit ==
    /\ outcome = [r \in Failure |-> "FAILED"] /\ drawerRun = "none"
    /\ drafting = NoDrafting /\ draft = NoDraft /\ bugForm = NoDraft /\ jiraForm = NoDraft
    /\ bugIssues = {} /\ moved = FALSE
    /\ drafts = 0 /\ outcomes = 0 /\ edits = 0 /\ shows = 0

----------------------------------------------------------------------------
\* A duplicate message runs a failed task again, and it may pass.
OutcomeChanges(r) ==
    /\ outcomes < MaxOutcomes /\ outcomes' = outcomes + 1
    /\ outcome' = [outcome EXCEPT ![r] = IF @ = "RUNNING" THEN "PASSED" ELSE "RUNNING"]
    /\ UNCHANGED <<drawerRun, drafting, draft, bugForm, jiraForm, bugIssues, moved, drafts, edits,
                   shows>>

\* useState of the draft: a form has one step at least.
Mounted(d) ==
    IF d = NoDraft THEN NoDraft ELSE [d EXCEPT !.steps = IF @ = <<>> THEN <<"blank">> ELSE @]

\* The drawer's state outlives the run it shows: a draft left there is mounted again.
ShowRun(r) ==
    /\ drawerRun = "none" /\ shows < MaxShows /\ shows' = shows + 1
    /\ drawerRun' = r /\ bugForm' = Mounted(draft)
    /\ moved' = ((draft # NoDraft /\ draft.of # r) \/ (drafting.at # "none" /\ drafting.of # r))
    /\ edits' = 0
    /\ UNCHANGED <<outcome, drafting, draft, jiraForm, bugIssues, drafts, outcomes>>

\* Closed, or the run is no longer on the page: the forms unmount with what was edited.
HideRun ==
    /\ drawerRun # "none" /\ drawerRun' = "none" /\ bugForm' = NoDraft /\ jiraForm' = NoDraft
    /\ UNCHANGED <<outcome, drafting, draft, bugIssues, moved, drafts, outcomes, edits, shows>>

\* handleGenerateBug, while no form covers the button.
AskDraft ==
    /\ drawerRun # "none" /\ outcome[drawerRun] = "FAILED" /\ bugForm = NoDraft
    /\ drafting.at = "none" /\ drafts < MaxDrafts /\ drafts' = drafts + 1
    /\ drafting' = [NoDrafting EXCEPT !.at = "asked", !.of = drawerRun]
    /\ moved' = FALSE
    /\ UNCHANGED <<outcome, drawerRun, draft, bugForm, jiraForm, bugIssues, outcomes, edits,
                   shows>>

\* The model's answer: a known severity or "high", steps and patches possibly none.
Drafted(run, severity, steps, patches) ==
    [of |-> run, severity |-> IF severity \in Severity THEN severity ELSE "high",
     steps |-> [k \in 1..steps |-> "drafted"], patches |-> IF patches THEN <<"drafted">> ELSE <<>>]

ServeDraft(severity, steps, patches) ==
    /\ drafting.at = "asked" /\ outcome[drafting.of] = "FAILED"
    /\ drafting' = [drafting EXCEPT !.at = "done",
                                          !.answer = Drafted(drafting.of, severity, steps, patches)]
    /\ UNCHANGED <<outcome, drawerRun, draft, bugForm, jiraForm, bugIssues, moved, drafts,
                   outcomes, edits, shows>>

\* The run does not fail any more, the feature is off, no JSON, no model.
RefuseDraft ==
    /\ drafting.at = "asked" /\ drafting' = NoDrafting
    /\ UNCHANGED <<outcome, drawerRun, draft, bugForm, jiraForm, bugIssues, moved, drafts,
                   outcomes, edits, shows>>

\* setBugReport, whichever run the drawer shows by now.
DraftArrives ==
    /\ drafting.at = "done" /\ drafting' = NoDrafting /\ draft' = drafting.answer
    /\ bugForm' = IF drawerRun = "none" THEN NoDraft ELSE Mounted(draft')
    /\ edits' = 0
    /\ UNCHANGED <<outcome, drawerRun, jiraForm, bugIssues, moved, drafts, outcomes, shows>>

----------------------------------------------------------------------------
\* While the Jira form does not cover it.
Edited(form) ==
    /\ bugForm # NoDraft /\ jiraForm = NoDraft /\ edits < MaxEdits /\ edits' = edits + 1
    /\ bugForm' = form
    /\ UNCHANGED <<outcome, drawerRun, drafting, draft, jiraForm, bugIssues, moved, drafts,
                   outcomes, shows>>

EditSteps ==
    /\ bugForm # NoDraft
    /\ \/ Edited([bugForm EXCEPT !.steps = Append(@, "blank")])
       \/ \E k \in DOMAIN bugForm.steps, line \in {"edited", "blank"} :
              Edited([bugForm EXCEPT !.steps[k] = line])
       \/ /\ Len(bugForm.steps) > 1
          /\ \E k \in DOMAIN bugForm.steps : Edited([bugForm EXCEPT !.steps = RemoveAt(@, k)])

EditPatches ==
    /\ bugForm # NoDraft
    /\ \E k \in DOMAIN bugForm.patches :
           \/ Edited([bugForm EXCEPT !.patches[k] = "edited"])
           \/ Edited([bugForm EXCEPT !.patches = RemoveAt(@, k)])

CloseBug ==
    /\ bugForm # NoDraft /\ jiraForm = NoDraft
    /\ draft' = NoDraft /\ bugForm' = NoDraft
    /\ UNCHANGED <<outcome, drawerRun, drafting, jiraForm, bugIssues, moved, drafts, outcomes,
                   edits, shows>>

\* "Submit to Jira": currentReport without blank steps, and the drawer's run.
OpenJira ==
    /\ bugForm # NoDraft /\ jiraForm = NoDraft
    /\ jiraForm' = [bugForm EXCEPT !.steps = Sifted(@, Line \ {"blank"})]
    /\ UNCHANGED <<outcome, drawerRun, drafting, draft, bugForm, bugIssues, moved, drafts,
                   outcomes, edits, shows>>

FileIssue ==
    /\ jiraForm # NoDraft /\ ~\E i \in bugIssues : i.run = drawerRun /\ i.text = jiraForm
    /\ bugIssues' = bugIssues \cup {[run |-> drawerRun, text |-> jiraForm, moved |-> moved]}
    /\ UNCHANGED <<outcome, drawerRun, drafting, draft, bugForm, jiraForm, moved, drafts,
                   outcomes, edits, shows>>

\* Cancelled as well as after an issue: both forms close, the edited report is gone.
CloseJira ==
    /\ jiraForm # NoDraft
    /\ jiraForm' = NoDraft /\ draft' = NoDraft /\ bugForm' = NoDraft
    /\ UNCHANGED <<outcome, drawerRun, drafting, bugIssues, moved, drafts, outcomes, edits,
                   shows>>

BugNext ==
    \/ \E r \in Failure : OutcomeChanges(r) \/ ShowRun(r)
    \/ \E s \in {"critical", "unknown"}, steps \in 0..2, patches \in BOOLEAN :
           ServeDraft(s, steps, patches)
    \/ HideRun \/ AskDraft \/ RefuseDraft \/ DraftArrives
    \/ EditSteps \/ EditPatches \/ CloseBug \/ OpenJira \/ FileIssue \/ CloseJira

BugSpec == BugInit /\ [][BugNext]_bugVars

----------------------------------------------------------------------------
\* An issue is made of the draft for its own run, unless the drawer moved to that run while
\* the draft of another was on its way or left open; it has no blank step; and no draft is
\* asked for under an open one, so a form is never replaced while it is edited
\* (ExecutionDrawer.tsx, AutoBugModal.tsx).
IssuesFit ==
    /\ \A i \in bugIssues : /\ i.run # i.text.of => i.moved
                         /\ "blank" \notin ToSet(i.text.steps)
    /\ (bugForm # NoDraft /\ bugForm.of # drawerRun) => moved
    /\ bugForm # NoDraft => drafting.at = "none" /\ bugForm.steps # <<>>

=============================================================================
