---------------------------- MODULE RecordProofs ----------------------------
(***************************************************************************)
(* Proofs about the other pages of the dashboard, and about all pages      *)
(* together as the run Pages checks them: the invariant of the page that   *)
(* moves carries RecordsKept and TypeOK.                                   *)
(***************************************************************************)
EXTENDS MCPages, PageProofs

----------------------------------------------------------------------------
(**************************** The bug reports *****************************)

\* A draft as the form holds it, with what the user may have added to it.
IsReport(d, added) ==
    /\ d \in [of : Failure, severity : Severity, steps : Seq(Line), patches : Seq(Line)]
    /\ Len(d.steps) <= 2 + added /\ Len(d.patches) <= 1

BugTyped ==
    /\ outcome \in [Failure -> {"RUNNING", "FAILED", "PASSED"}]
    /\ drawerRun \in Failure \cup {"none"}
    /\ \/ drafting = NoDrafting
       \/ /\ drafting.at = "asked" /\ drafting.of \in Failure
          /\ drafting = [at |-> "asked", of |-> drafting.of, answer |-> NoDraft]
       \/ /\ drafting.at = "done" /\ drafting.of \in Failure /\ drafting.answer.of = drafting.of
          /\ IsReport(drafting.answer, 0)
    /\ draft = NoDraft \/ IsReport(draft, 0)
    /\ bugForm = NoDraft \/ (IsReport(bugForm, edits) /\ bugForm.steps # <<>>)
    /\ jiraForm = NoDraft \/ (IsReport(jiraForm, edits) /\ jiraForm.steps \in Seq(Line \ {"blank"}))
    /\ moved \in BOOLEAN /\ drafts \in 0..MaxDrafts /\ outcomes \in 0..MaxOutcomes
    /\ edits \in 0..MaxEdits /\ shows \in 0..MaxShows

\* What is open, and what it belongs to.
BugOpen ==
    /\ drawerRun = "none" => bugForm = NoDraft /\ jiraForm = NoDraft
    /\ jiraForm # NoDraft => bugForm # NoDraft /\ jiraForm.of = bugForm.of
    /\ bugForm # NoDraft => draft # NoDraft /\ draft.of = bugForm.of
    /\ draft # NoDraft => drafting = NoDrafting
    /\ draft # NoDraft /\ drawerRun # "none" => bugForm # NoDraft
    /\ draft # NoDraft /\ drawerRun # "none" /\ draft.of # drawerRun => moved
    /\ drafting # NoDrafting /\ drawerRun # "none" /\ drafting.of # drawerRun => moved

IssueFits(i) ==
    /\ i.run \in Failure /\ i.text.of \in Failure /\ (i.run # i.text.of => i.moved)
    /\ i.text.steps \in Seq(Line \ {"blank"})

BugInv ==
    /\ BugTyped
    /\ BugOpen
    /\ \A i \in bugIssues : IssueFits(i)

LEMMA BugBounds ==
    "none" \notin Failure /\ MaxDrafts \in Nat /\ MaxOutcomes \in Nat /\ MaxEdits \in Nat /\ MaxShows \in Nat
BY BugReportAssumption

LEMMA ReportSet == ASSUME NEW d, NEW n, IsReport(d, n) PROVE d # NoDraft /\ d.of \in Failure
<1>1. DOMAIN d = {"of", "severity", "steps", "patches"} /\ d.of \in Failure
  BY DEF IsReport
<1>2. DOMAIN NoDraft = {"of"}
  BY DEF NoDraft
<1>3. "steps" \notin DOMAIN NoDraft /\ "steps" \in DOMAIN d
  BY <1>1, <1>2
<1> QED
  BY <1>1, <1>3

LEMMA RemovedAt ==
    ASSUME NEW S, NEW s \in Seq(S), NEW k \in 1..Len(s)
    PROVE  RemoveAt(s, k) \in Seq(S) /\ Len(RemoveAt(s, k)) = Len(s) - 1
<1> DEFINE a == SubSeq(s, 1, k - 1)
           b == SubSeq(s, k + 1, Len(s))
<1>1. Len(s) \in Nat /\ k \in Nat /\ k >= 1 /\ k <= Len(s)
  BY LenProperties
<1>2. a \in Seq(S) /\ Len(a) = k - 1
  <2>1. 1 \in Int /\ k - 1 \in Int /\ \A i \in 1..(k - 1) : s[i] \in S
    BY <1>1
  <2>2. a \in Seq(S) /\ Len(a) = IF 1 <= k - 1 THEN (k - 1) - 1 + 1 ELSE 0
    BY <2>1, SubSeqProperties
  <2> QED
    BY <1>1, <2>2
<1>3. b \in Seq(S) /\ Len(b) = Len(s) - k
  <2>1. k + 1 \in Int /\ Len(s) \in Int /\ \A i \in (k + 1)..Len(s) : s[i] \in S
    BY <1>1
  <2>2. b \in Seq(S) /\ Len(b) = IF k + 1 <= Len(s) THEN Len(s) - (k + 1) + 1 ELSE 0
    BY <2>1, SubSeqProperties
  <2> QED
    BY <1>1, <2>2
<1> HIDE DEF a, b
<1>4. a \o b \in Seq(S) /\ Len(a \o b) = Len(a) + Len(b)
  BY <1>2, <1>3, ConcatProperties
<1>5. RemoveAt(s, k) = a \o b
  BY DEF RemoveAt, a, b
<1>6. Len(a) + Len(b) = Len(s) - 1
  BY <1>1, <1>2, <1>3
<1> QED
  BY <1>4, <1>5, <1>6

\* The lines of a form are what the bounds of a list say.
LEMMA ListOfLines ==
    ASSUME NEW n \in Nat, NEW s \in Seq(Line), Len(s) <= n
    PROVE  s \in Lists(n)
<1>1. Len(s) \in 0..n /\ s \in [1..Len(s) -> Line]
  BY LenProperties
<1> QED
  BY <1>1 DEF Lists

LEMMA BugStart == BugInit => BugInv
<1> SUFFICES ASSUME BugInit PROVE BugInv
  OBVIOUS
<1>1. /\ outcome = [r \in Failure |-> "FAILED"] /\ drawerRun = "none"
      /\ drafting = NoDrafting /\ draft = NoDraft /\ bugForm = NoDraft /\ jiraForm = NoDraft
      /\ bugIssues = {} /\ moved = FALSE
      /\ drafts = 0 /\ outcomes = 0 /\ edits = 0 /\ shows = 0
  BY DEF BugInit
<1>2. outcome \in [Failure -> {"RUNNING", "FAILED", "PASSED"}]
  BY <1>1
<1>3. /\ drafts \in 0..MaxDrafts /\ outcomes \in 0..MaxOutcomes /\ edits \in 0..MaxEdits
      /\ shows \in 0..MaxShows /\ moved \in BOOLEAN
  <2>1. 0 \in 0..MaxDrafts /\ 0 \in 0..MaxOutcomes /\ 0 \in 0..MaxEdits /\ 0 \in 0..MaxShows
    BY BugBounds
  <2> QED
    BY <1>1, <2>1
<1>4. BugTyped
  BY <1>1, <1>2, <1>3 DEF BugTyped
<1>5. BugOpen
  BY <1>1 DEF BugOpen
<1> QED
  BY <1>1, <1>4, <1>5 DEF BugInv

LEMMA MountedReport ==
    ASSUME NEW d, d = NoDraft \/ IsReport(d, 0)
    PROVE  /\ d = NoDraft => Mounted(d) = NoDraft
           /\ d # NoDraft => /\ IsReport(Mounted(d), 0) /\ Mounted(d).steps # <<>>
                             /\ Mounted(d) # NoDraft /\ Mounted(d).of = d.of
<1>1. d = NoDraft => Mounted(d) = NoDraft
  BY DEF Mounted
<1>2. ASSUME d # NoDraft
      PROVE  /\ IsReport(Mounted(d), 0) /\ Mounted(d).steps # <<>>
             /\ Mounted(d) # NoDraft /\ Mounted(d).of = d.of
  <2>1. IsReport(d, 0)
    BY <1>2
  <2>2. <<"blank">> \in Seq(Line) /\ Len(<<"blank">>) = 1 /\ <<"blank">> # <<>>
    BY DEF Line
  <2>3. Mounted(d) = [d EXCEPT !.steps = IF @ = <<>> THEN <<"blank">> ELSE @]
    BY <1>2 DEF Mounted
  <2>4. Mounted(d).steps = (IF d.steps = <<>> THEN <<"blank">> ELSE d.steps)
    BY <2>1, <2>3 DEF IsReport
  <2>5. Mounted(d).of = d.of /\ Mounted(d).patches = d.patches
    BY <2>1, <2>3 DEF IsReport
  <2>6. Mounted(d).steps \in Seq(Line) /\ Len(Mounted(d).steps) <= 2 + 0 /\ Mounted(d).steps # <<>>
    BY <2>1, <2>2, <2>4 DEF IsReport
  <2>7. Mounted(d) \in [of : Failure, severity : Severity, steps : Seq(Line), patches : Seq(Line)]
    BY <2>1, <2>2, <2>3 DEF IsReport
  <2>8. IsReport(Mounted(d), 0)
    BY <2>1, <2>5, <2>6, <2>7 DEF IsReport
  <2> QED
    BY <2>5, <2>6, <2>8, ReportSet
<1> QED
  BY <1>1, <1>2

LEMMA DraftedReport ==
    ASSUME NEW run \in Failure, NEW severity, NEW steps \in 0..2, NEW hinted \in BOOLEAN
    PROVE  IsReport(Drafted(run, severity, steps, hinted), 0)
           /\ Drafted(run, severity, steps, hinted).of = run
<1> DEFINE list == [k \in 1..steps |-> "drafted"]
           patch == IF hinted THEN <<"drafted">> ELSE <<>>
           level == IF severity \in Severity THEN severity ELSE "high"
<1>1. list \in Seq(Line) /\ Len(list) = steps
  BY DEF Line
<1>2. patch \in Seq(Line) /\ Len(patch) <= 1
  <2>1. CASE hinted
    BY <2>1 DEF Line
  <2>2. CASE ~hinted
    BY <2>2
  <2> QED
    BY <2>1, <2>2
<1>3. level \in Severity
  BY DEF Severity
<1>4. Drafted(run, severity, steps, hinted) = [of |-> run, severity |-> level, steps |-> list, patches |-> patch]
  BY DEF Drafted
<1> HIDE DEF list, patch, level
<1> QED
  BY <1>1, <1>2, <1>3, <1>4 DEF IsReport

\* An edit of the form keeps it a report of the same run with a step.
LEMMA EditedForm ==
    ASSUME BugInv, NEW filled, Edited(filled),
           filled \in [of : Failure, severity : Severity, steps : Seq(Line), patches : Seq(Line)],
           filled.of = bugForm.of, Len(filled.steps) <= Len(bugForm.steps) + 1,
           Len(filled.patches) <= Len(bugForm.patches), filled.steps # <<>>
    PROVE  BugInv'
<1>1. bugForm # NoDraft /\ jiraForm = NoDraft /\ edits < MaxEdits /\ edits' = edits + 1 /\ bugForm' = filled
      /\ UNCHANGED <<outcome, drawerRun, drafting, draft, jiraForm, bugIssues, moved, drafts,
                     outcomes, shows>>
  BY DEF Edited
<1>2. IsReport(bugForm, edits)
  BY <1>1 DEF BugInv, BugTyped
<1>3. edits \in 0..MaxEdits /\ edits' \in 0..MaxEdits
  BY <1>1, BugBounds DEF BugInv, BugTyped
<1>4. IsReport(filled, edits')
  <2>1. Len(filled.steps) \in Nat /\ Len(bugForm.steps) \in Nat /\ Len(filled.patches) \in Nat
        /\ Len(bugForm.patches) \in Nat /\ edits \in Nat
    BY <1>2, <1>3, LenProperties DEF IsReport
  <2>2. Len(filled.steps) <= 2 + edits' /\ Len(filled.patches) <= 1
    BY <1>1, <1>2, <2>1 DEF IsReport
  <2> QED
    BY <2>2 DEF IsReport
<1>5. BugTyped'
  BY <1>1, <1>3, <1>4 DEF BugInv, BugTyped
<1>6. BugOpen'
  <2>1. bugForm' # NoDraft
    BY <1>1, <1>4, ReportSet
  <2> QED
    BY <1>1, <2>1 DEF BugInv, BugOpen
<1> QED
  BY <1>1, <1>5, <1>6 DEF BugInv

LEMMA EditStepsKeeps == ASSUME BugInv, EditSteps PROVE BugInv'
<1>1. bugForm # NoDraft /\ IsReport(bugForm, edits) /\ bugForm.steps # <<>>
  BY DEF EditSteps, BugInv, BugTyped
<1>2. bugForm \in [of : Failure, severity : Severity, steps : Seq(Line), patches : Seq(Line)]
      /\ bugForm.steps \in Seq(Line) /\ Len(bugForm.steps) \in Nat /\ bugForm.patches \in Seq(Line)
      /\ Len(bugForm.patches) \in Nat
  BY <1>1, LenProperties DEF IsReport
<1>3. ASSUME NEW list \in Seq(Line), Edited([bugForm EXCEPT !.steps = list]), list # <<>>,
             Len(list) <= Len(bugForm.steps) + 1
      PROVE  BugInv'
  <2> DEFINE filled == [bugForm EXCEPT !.steps = list]
  <2>1. /\ filled \in [of : Failure, severity : Severity, steps : Seq(Line), patches : Seq(Line)]
        /\ filled.of = bugForm.of /\ filled.steps = list /\ filled.patches = bugForm.patches
    BY <1>2, <1>3
  <2>2. Edited(filled)
    BY <1>3
  <2> HIDE DEF filled
  <2> QED
    BY <1>2, <1>3, <2>1, <2>2, EditedForm
<1>4. CASE Edited([bugForm EXCEPT !.steps = Append(@, "blank")])
  <2> DEFINE list == Append(bugForm.steps, "blank")
  <2>1. list \in Seq(Line) /\ Len(list) = Len(bugForm.steps) + 1 /\ list # <<>>
    BY <1>2 DEF Line
  <2>2. Edited([bugForm EXCEPT !.steps = list])
    BY <1>4
  <2> HIDE DEF list
  <2> QED
    BY <1>2, <1>3, <2>1, <2>2
<1>5. ASSUME NEW k \in DOMAIN bugForm.steps, NEW line \in {"edited", "blank"},
             Edited([bugForm EXCEPT !.steps[k] = line])
      PROVE  BugInv'
  <2> DEFINE list == [bugForm.steps EXCEPT ![k] = line]
  <2>1. line \in Line
    BY <1>5 DEF Line
  <2>2. list \in Seq(Line) /\ Len(list) = Len(bugForm.steps)
    BY <1>2, <2>1, ExceptSeq
  <2>3. list # <<>>
    BY <1>1, <1>2, <2>2, EmptySeq
  <2>4. Edited([bugForm EXCEPT !.steps = list])
    BY <1>5
  <2> HIDE DEF list
  <2> QED
    BY <1>2, <1>3, <2>2, <2>3, <2>4
<1>6. ASSUME Len(bugForm.steps) > 1, NEW k \in DOMAIN bugForm.steps,
             Edited([bugForm EXCEPT !.steps = RemoveAt(@, k)])
      PROVE  BugInv'
  <2> DEFINE list == RemoveAt(bugForm.steps, k)
  <2>1. k \in 1..Len(bugForm.steps)
    BY <1>2, <1>6
  <2>2. list \in Seq(Line) /\ Len(list) = Len(bugForm.steps) - 1
    BY <1>2, <2>1, RemovedAt
  <2>3. Edited([bugForm EXCEPT !.steps = list])
    BY <1>6
  <2> HIDE DEF list
  <2>4. list # <<>> /\ Len(list) <= Len(bugForm.steps) + 1
    BY <1>2, <1>6, <2>2, EmptySeq
  <2> QED
    BY <1>3, <2>2, <2>3, <2>4
<1> QED
  BY <1>4, <1>5, <1>6 DEF EditSteps

LEMMA EditPatchesKeeps == ASSUME BugInv, EditPatches PROVE BugInv'
<1>1. bugForm # NoDraft /\ IsReport(bugForm, edits) /\ bugForm.steps # <<>>
  BY DEF EditPatches, BugInv, BugTyped
<1>2. bugForm \in [of : Failure, severity : Severity, steps : Seq(Line), patches : Seq(Line)]
      /\ bugForm.steps \in Seq(Line) /\ Len(bugForm.steps) \in Nat /\ bugForm.patches \in Seq(Line)
      /\ Len(bugForm.patches) \in Nat
  BY <1>1, LenProperties DEF IsReport
<1>3. ASSUME NEW list \in Seq(Line), Edited([bugForm EXCEPT !.patches = list]),
             Len(list) <= Len(bugForm.patches)
      PROVE  BugInv'
  <2> DEFINE filled == [bugForm EXCEPT !.patches = list]
  <2>1. /\ filled \in [of : Failure, severity : Severity, steps : Seq(Line), patches : Seq(Line)]
        /\ filled.of = bugForm.of /\ filled.steps = bugForm.steps /\ filled.patches = list
    BY <1>2, <1>3
  <2>2. Edited(filled)
    BY <1>3
  <2>3. Len(filled.steps) <= Len(bugForm.steps) + 1 /\ Len(filled.patches) <= Len(bugForm.patches)
        /\ filled.steps # <<>>
    BY <1>1, <1>2, <1>3, <2>1
  <2> HIDE DEF filled
  <2> QED
    BY <2>1, <2>2, <2>3, EditedForm
<1>4. PICK k \in DOMAIN bugForm.patches :
          \/ Edited([bugForm EXCEPT !.patches[k] = "edited"])
          \/ Edited([bugForm EXCEPT !.patches = RemoveAt(@, k)])
  BY DEF EditPatches
<1>5. CASE Edited([bugForm EXCEPT !.patches[k] = "edited"])
  <2> DEFINE list == [bugForm.patches EXCEPT ![k] = "edited"]
  <2>1. list \in Seq(Line) /\ Len(list) = Len(bugForm.patches)
    BY <1>2, <1>4, ExceptSeq DEF Line
  <2>2. Edited([bugForm EXCEPT !.patches = list])
    BY <1>5
  <2> HIDE DEF list
  <2> QED
    BY <1>2, <1>3, <2>1, <2>2
<1>6. CASE Edited([bugForm EXCEPT !.patches = RemoveAt(@, k)])
  <2> DEFINE list == RemoveAt(bugForm.patches, k)
  <2>1. k \in 1..Len(bugForm.patches)
    BY <1>2, <1>4
  <2>2. list \in Seq(Line) /\ Len(list) = Len(bugForm.patches) - 1
    BY <1>2, <2>1, RemovedAt
  <2>3. Edited([bugForm EXCEPT !.patches = list])
    BY <1>6
  <2> HIDE DEF list
  <2> QED
    BY <1>2, <1>3, <2>2, <2>3
<1> QED
  BY <1>4, <1>5, <1>6

LEMMA BugStep == BugInv /\ [BugNext]_bugVars => BugInv'
<1> SUFFICES ASSUME BugInv, [BugNext]_bugVars PROVE BugInv'
  OBVIOUS
<1> USE BugBounds
<1>1. ASSUME NEW r \in Failure, OutcomeChanges(r) PROVE BugInv'
  <2>1. outcomes' \in 0..MaxOutcomes
    BY <1>1 DEF OutcomeChanges, BugInv, BugTyped
  <2>2. outcome' \in [Failure -> {"RUNNING", "FAILED", "PASSED"}]
    BY <1>1 DEF OutcomeChanges, BugInv, BugTyped
  <2> QED
    BY <1>1, <2>1, <2>2 DEF OutcomeChanges, BugInv, BugTyped, BugOpen
<1>2. ASSUME NEW r \in Failure, ShowRun(r) PROVE BugInv'
  <2>1. drawerRun = "none" /\ drawerRun' = r /\ bugForm' = Mounted(draft) /\ edits' = 0
        /\ shows' \in 0..MaxShows /\ bugForm = NoDraft /\ jiraForm = NoDraft /\ r # "none"
        /\ UNCHANGED <<outcome, drafting, draft, jiraForm, bugIssues, drafts, outcomes>>
    BY <1>2 DEF ShowRun, BugInv, BugTyped, BugOpen
  <2>2. moved' = ((draft # NoDraft /\ draft.of # r) \/ (drafting.at # "none" /\ drafting.of # r))
    BY <1>2 DEF ShowRun
  <2>3. draft = NoDraft \/ IsReport(draft, 0)
    BY DEF BugInv, BugTyped
  <2>4. /\ draft = NoDraft => bugForm' = NoDraft
        /\ draft # NoDraft => /\ IsReport(bugForm', 0) /\ bugForm'.steps # <<>>
                              /\ bugForm' # NoDraft /\ bugForm'.of = draft.of
    BY <2>1, <2>3, MountedReport
  <2>5. moved' \in BOOLEAN
    BY <2>2
  <2>6. BugTyped'
    BY <2>1, <2>3, <2>4, <2>5 DEF BugInv, BugTyped
  <2>7. drafting # NoDrafting => drafting.at # "none"
    BY DEF BugInv, BugTyped
  <2>8. BugOpen'
    BY <2>1, <2>2, <2>4, <2>7 DEF BugInv, BugOpen
  <2> QED
    BY <2>1, <2>6, <2>8 DEF BugInv
<1>3. CASE HideRun
  <2>1. drawerRun' = "none" /\ bugForm' = NoDraft /\ jiraForm' = NoDraft
        /\ UNCHANGED <<outcome, drafting, draft, bugIssues, moved, drafts, outcomes, edits, shows>>
    BY <1>3 DEF HideRun
  <2>2. BugTyped'
    BY <2>1 DEF BugInv, BugTyped
  <2>3. BugOpen'
    BY <2>1 DEF BugInv, BugOpen
  <2> QED
    BY <2>1, <2>2, <2>3 DEF BugInv
<1>4. CASE AskDraft
  <2>1. drawerRun # "none" /\ drawerRun \in Failure /\ bugForm = NoDraft /\ drafting.at = "none"
        /\ drafts' \in 0..MaxDrafts /\ moved' = FALSE
        /\ UNCHANGED <<outcome, drawerRun, draft, bugForm, jiraForm, bugIssues, outcomes, edits, shows>>
    BY <1>4 DEF AskDraft, BugInv, BugTyped
  <2>2. drafting' = [at |-> "asked", of |-> drawerRun, answer |-> NoDraft]
    BY <1>4 DEF AskDraft, NoDrafting
  <2>3. draft = NoDraft /\ jiraForm = NoDraft
    BY <2>1 DEF BugInv, BugOpen
  <2>4. BugTyped'
    BY <2>1, <2>2 DEF BugInv, BugTyped
  <2>5. BugOpen'
    BY <2>1, <2>2, <2>3 DEF BugOpen
  <2> QED
    BY <2>1, <2>4, <2>5 DEF BugInv
<1>5. ASSUME NEW s \in {"critical", "unknown"}, NEW steps \in 0..2, NEW hinted \in BOOLEAN,
             ServeDraft(s, steps, hinted)
      PROVE  BugInv'
  <2> DEFINE answer == Drafted(drafting.of, s, steps, hinted)
  <2>1. drafting.at = "asked" /\ drafting' = [drafting EXCEPT !.at = "done", !.answer = answer]
        /\ UNCHANGED <<outcome, drawerRun, draft, bugForm, jiraForm, bugIssues, moved, drafts,
                       outcomes, edits, shows>>
    BY <1>5 DEF ServeDraft
  <2>2. drafting.of \in Failure /\ drafting = [at |-> "asked", of |-> drafting.of, answer |-> NoDraft]
    BY <2>1 DEF BugInv, BugTyped, NoDrafting
  <2>3. IsReport(answer, 0) /\ answer.of = drafting.of
    BY <2>2, DraftedReport
  <2> HIDE DEF answer
  <2>4. drafting' = [at |-> "done", of |-> drafting.of, answer |-> answer]
    BY <2>1, <2>2
  <2>5. BugTyped'
    BY <2>1, <2>2, <2>3, <2>4 DEF BugInv, BugTyped
  <2>6. drafting # NoDrafting
    BY <2>1 DEF NoDrafting
  <2>7. BugOpen'
    BY <2>1, <2>4, <2>6 DEF BugInv, BugOpen
  <2> QED
    BY <2>1, <2>5, <2>7 DEF BugInv
<1>6. CASE RefuseDraft
  <2>1. drafting' = NoDrafting
        /\ UNCHANGED <<outcome, drawerRun, draft, bugForm, jiraForm, bugIssues, moved, drafts,
                       outcomes, edits, shows>>
    BY <1>6 DEF RefuseDraft
  <2>2. BugTyped'
    BY <2>1 DEF BugInv, BugTyped
  <2>3. BugOpen'
    BY <2>1 DEF BugInv, BugOpen
  <2> QED
    BY <2>1, <2>2, <2>3 DEF BugInv
<1>7. CASE DraftArrives
  <2>1. drafting.at = "done" /\ drafting' = NoDrafting /\ draft' = drafting.answer /\ edits' = 0
        /\ bugForm' = (IF drawerRun = "none" THEN NoDraft ELSE Mounted(draft'))
        /\ UNCHANGED <<outcome, drawerRun, jiraForm, bugIssues, moved, drafts, outcomes, shows>>
    BY <1>7 DEF DraftArrives
  <2>2. drafting # NoDrafting /\ IsReport(drafting.answer, 0) /\ drafting.answer.of = drafting.of
    BY <2>1 DEF BugInv, BugTyped, NoDrafting
  <2>3. draft = NoDraft /\ bugForm = NoDraft /\ jiraForm = NoDraft
    BY <2>2 DEF BugInv, BugOpen
  <2>4. draft' # NoDraft /\ IsReport(draft', 0)
    BY <2>1, <2>2, ReportSet
  <2>5. IsReport(Mounted(drafting.answer), 0) /\ Mounted(drafting.answer).steps # <<>>
        /\ Mounted(drafting.answer) # NoDraft /\ Mounted(drafting.answer).of = drafting.of
    BY <2>1, <2>2, <2>4, MountedReport
  <2>6. BugTyped'
    <3>1. bugForm' = NoDraft \/ (IsReport(bugForm', 0) /\ bugForm'.steps # <<>>)
      BY <2>1, <2>5
    <3>2. jiraForm' = NoDraft /\ edits' = 0 /\ edits' \in 0..MaxEdits
      BY <2>1, <2>3
    <3> QED
      BY <2>1, <2>4, <3>1, <3>2 DEF BugInv, BugTyped
  <2>7. BugOpen'
    BY <2>1, <2>2, <2>3, <2>4, <2>5 DEF BugInv, BugOpen
  <2> QED
    BY <2>1, <2>6, <2>7 DEF BugInv
<1>8. CASE CloseBug
  <2>1. draft' = NoDraft /\ bugForm' = NoDraft /\ jiraForm = NoDraft
        /\ UNCHANGED <<outcome, drawerRun, drafting, jiraForm, bugIssues, moved, drafts, outcomes,
                       edits, shows>>
    BY <1>8 DEF CloseBug
  <2>2. BugTyped'
    BY <2>1 DEF BugInv, BugTyped
  <2>3. BugOpen'
    BY <2>1 DEF BugInv, BugOpen
  <2> QED
    BY <2>1, <2>2, <2>3 DEF BugInv
<1>9. CASE OpenJira
  <2> DEFINE list == Sifted(bugForm.steps, Line \ {"blank"})
  <2>1. bugForm # NoDraft /\ jiraForm' = [bugForm EXCEPT !.steps = list]
        /\ UNCHANGED <<outcome, drawerRun, drafting, draft, bugForm, bugIssues, moved, drafts,
                       outcomes, edits, shows>>
    BY <1>9 DEF OpenJira
  <2>2. IsReport(bugForm, edits)
    BY <2>1 DEF BugInv, BugTyped
  <2>3. bugForm.steps \in Seq(Line) /\ Len(bugForm.steps) <= 2 + edits /\ edits \in Nat
        /\ Len(bugForm.steps) \in Nat
    BY <2>2, LenProperties DEF IsReport, BugInv, BugTyped
  <2>4. list \in Seq(Line \cap (Line \ {"blank"}))
    BY <2>3, SiftedType
  <2>5. Line \cap (Line \ {"blank"}) = Line \ {"blank"}
    OBVIOUS
  <2>6. list \in Seq(Line \ {"blank"})
    BY <2>4, <2>5
  <2>7. list \in Seq(Line)
    BY <2>6, SeqMonotonic
  <2>8. Len(list) \in Nat /\ Len(list) <= Len(bugForm.steps)
    BY <2>3, SiftedLen
  <2> HIDE DEF list
  <2>9. jiraForm'.steps = list /\ jiraForm'.of = bugForm.of
        /\ IsReport(jiraForm', edits)
    <3>1. /\ bugForm \in [of : Failure, severity : Severity, steps : Seq(Line), patches : Seq(Line)]
          /\ Len(bugForm.patches) <= 1
      BY <2>2 DEF IsReport
    <3>2. /\ jiraForm' \in [of : Failure, severity : Severity, steps : Seq(Line), patches : Seq(Line)]
          /\ jiraForm'.steps = list /\ jiraForm'.of = bugForm.of
          /\ jiraForm'.patches = bugForm.patches
      BY <2>1, <2>7, <3>1
    <3>3. Len(list) <= 2 + edits
      BY <2>3, <2>8
    <3> QED BY <3>1, <3>2, <3>3 DEF IsReport
  <2>10. BugTyped'
    BY <2>1, <2>6, <2>9 DEF BugInv, BugTyped
  <2>11. BugOpen'
    BY <2>1, <2>9 DEF BugInv, BugOpen
  <2> QED
    BY <2>1, <2>10, <2>11 DEF BugInv
<1>10. CASE FileIssue
  <2> DEFINE filed == [run |-> drawerRun, text |-> jiraForm, moved |-> moved]
  <2>1. jiraForm # NoDraft /\ bugIssues' = bugIssues \cup {filed}
        /\ UNCHANGED <<outcome, drawerRun, drafting, draft, bugForm, jiraForm, moved, drafts,
                       outcomes, edits, shows>>
    BY <1>10 DEF FileIssue
  <2>2. IsReport(jiraForm, edits) /\ jiraForm.steps \in Seq(Line \ {"blank"})
    BY <2>1 DEF BugInv, BugTyped
  <2>3. drawerRun # "none" /\ drawerRun \in Failure /\ jiraForm.of \in Failure
        /\ (jiraForm.of # drawerRun => moved)
    BY <2>1, <2>2 DEF BugInv, BugTyped, BugOpen, IsReport
  <2>4. filed.run = drawerRun /\ filed.text = jiraForm /\ filed.moved = moved
    OBVIOUS
  <2> HIDE DEF filed
  <2>5. IssueFits(filed)
    BY <2>2, <2>3, <2>4 DEF IssueFits
  <2>6. BugTyped' /\ BugOpen'
    BY <2>1 DEF BugInv, BugTyped, BugOpen
  <2> QED
    BY <2>1, <2>5, <2>6 DEF BugInv
<1>11. CASE CloseJira
  <2>1. jiraForm' = NoDraft /\ draft' = NoDraft /\ bugForm' = NoDraft
        /\ UNCHANGED <<outcome, drawerRun, drafting, bugIssues, moved, drafts, outcomes, edits, shows>>
    BY <1>11 DEF CloseJira
  <2>2. BugTyped'
    BY <2>1 DEF BugInv, BugTyped
  <2>3. BugOpen'
    BY <2>1 DEF BugInv, BugOpen
  <2> QED
    BY <2>1, <2>2, <2>3 DEF BugInv
<1>12. CASE UNCHANGED bugVars
  BY <1>12 DEF bugVars, BugInv, BugTyped, BugOpen
<1> QED
  BY <1>1, <1>2, <1>3, <1>4, <1>5, <1>6, <1>7, <1>8, <1>9, <1>10, <1>11, <1>12, EditStepsKeeps,
     EditPatchesKeeps DEF BugNext

LEMMA BugFit == BugInv => IssuesFit /\ BugTypeOK
<1> SUFFICES ASSUME BugInv PROVE IssuesFit /\ BugTypeOK
  OBVIOUS
<1>1. ASSUME NEW s \in Seq(Line \ {"blank"}) PROVE "blank" \notin ToSet(s)
  <2>1. \A k \in DOMAIN s : s[k] # "blank"
    BY <1>1
  <2> QED
    BY <2>1 DEF ToSet
<1>2. IssuesFit
  <2>1. \A i \in bugIssues : (i.run # i.text.of => i.moved) /\ "blank" \notin ToSet(i.text.steps)
    BY <1>1 DEF BugInv, IssueFits
  <2>2. bugForm # NoDraft => drafting.at = "none" /\ bugForm.steps # <<>>
    BY DEF BugInv, BugTyped, BugOpen, NoDrafting
  <2>3. bugForm # NoDraft /\ bugForm.of # drawerRun => moved
    BY DEF BugInv, BugOpen
  <2> QED
    BY <2>1, <2>2, <2>3 DEF IssuesFit
<1>3. ASSUME NEW n \in 0..MaxEdits, NEW d, IsReport(d, n)
      PROVE  /\ d.of \in Failure /\ d.severity \in Severity
             /\ d.steps \in Lists(2 + MaxEdits) /\ d.patches \in Lists(1)
  <2>1. d.of \in Failure /\ d.severity \in Severity /\ d.steps \in Seq(Line) /\ d.patches \in Seq(Line)
        /\ Len(d.steps) <= 2 + n /\ Len(d.patches) <= 1
    BY <1>3 DEF IsReport
  <2>2. Len(d.steps) \in Nat /\ 2 + MaxEdits \in Nat /\ Len(d.steps) <= 2 + MaxEdits /\ 1 \in Nat
    BY <1>3, <2>1, BugBounds, LenProperties
  <2> QED
    BY <2>1, <2>2, ListOfLines
<1>4. edits \in 0..MaxEdits /\ 0 \in 0..MaxEdits
  BY BugBounds DEF BugInv, BugTyped
<1>5. draft = NoDraft \/ IsReport(draft, 0)
  BY DEF BugInv, BugTyped
<1>6. bugForm = NoDraft \/ IsReport(bugForm, edits)
  BY DEF BugInv, BugTyped
<1>7. jiraForm = NoDraft \/ IsReport(jiraForm, edits)
  BY DEF BugInv, BugTyped
<1>8. drafting.answer = NoDraft \/ IsReport(drafting.answer, 0)
  BY DEF BugInv, BugTyped, NoDrafting
<1>9. \A d \in {draft, bugForm, jiraForm, drafting.answer} : d = NoDraft \/
          /\ d.of \in Failure /\ d.severity \in Severity
          /\ d.steps \in Lists(2 + MaxEdits) /\ d.patches \in Lists(1)
  BY <1>3, <1>4, <1>5, <1>6, <1>7, <1>8
<1>10. drafting.at \in {"none", "asked", "done"} /\ drafting.of \in Failure \cup {"none"}
  BY DEF BugInv, BugTyped, NoDrafting
<1>11. \A i \in bugIssues : i.run \in Failure /\ i.text.of \in Failure
  BY DEF BugInv, IssueFits
<1>12. BugTypeOK
  BY <1>9, <1>10, <1>11 DEF BugInv, BugTyped, BugTypeOK
<1> QED
  BY <1>2, <1>12

\* IssuesFit in every state, for any runs: an issue is made of the draft of its own run unless
\* the drawer moved under the draft, and has no blank step (AutoBugModal.tsx).
THEOREM IssuesAlwaysFit == BugSpec => [](IssuesFit /\ BugTypeOK)
<1>1. BugInit => BugInv
  BY BugStart
<1>2. BugInv /\ [BugNext]_bugVars => BugInv'
  BY BugStep
<1> QED
  BY <1>1, <1>2, BugFit, PTL DEF BugSpec

----------------------------------------------------------------------------
(**************************** The bulk actions ****************************)

BulkRec == [n : 1..MaxBulks, kind : {"delete", "group", "ungroup"}, group : Groups,
            ids : SUBSET Row, at : {"asked", "done", "failed"}, live : BOOLEAN]
PageFetch == {NoPageFetch, [at |-> "asked"]} \cup [at : {"read"}, found : Runs]

\* Some deletion, some regrouping that was answered, of the row r.
DeletedBy(bs, r) == \E c \in bs : c.at = "done" /\ c.kind = "delete" /\ r \in c.ids
RegroupedBy(bs, r) == \E c \in bs : c.at = "done" /\ c.kind # "delete" /\ r \in c.ids

\* A page of the view v shows the rows, but for what the requests bs have done to them
\* and the page has not been told.
RowShows(fetch, v, table, bs) ==
    /\ \A r \in DOMAIN fetch \ DOMAIN table : DeletedBy(bs, r)
    /\ \A r \in DOMAIN fetch \cap DOMAIN table : fetch[r] = table[r] \/ RegroupedBy(bs, r)
    /\ v[2] = "all" => DOMAIN table \subseteq DOMAIN fetch

\* A request answered has done its work, and of two regroupings of a row the later is under way.
Worked(table, bs) ==
    \A b \in bs : b.at = "done" =>
        /\ b.kind = "delete" => b.ids \cap DOMAIN table = {}
        /\ b.kind # "delete" => \A r \in b.ids \cap DOMAIN table :
              table[r] = b.group \/ RegroupedBy({c \in bs : c.n # b.n}, r)

Numbered(bs, last) ==
    /\ \A b \in bs : b.n <= last
    /\ \A b, c \in bs : b.n = c.n => b = c

\* The requests ds are the requests bs, but for their bar.
SameRequests(ds, bs) ==
    /\ \A d \in ds : \E b \in bs :
          d.n = b.n /\ d.kind = b.kind /\ d.group = b.group /\ d.ids = b.ids /\ d.at = b.at
    /\ \A b \in bs : \E d \in ds :
          d.n = b.n /\ d.kind = b.kind /\ d.group = b.group /\ d.ids = b.ids /\ d.at = b.at

Undisturbed == elsewhere = 0 /\ crossed = {}
AtRest(v) == v \in Active(mode, filter) /\ pageFetches[v] = NoPageFetch

BulkTyped ==
    /\ BulkTypeOK /\ pageFetches \in [Views -> PageFetch] /\ bulks \subseteq BulkRec
    /\ Numbered(bulks, sent)

DoneWell ==
    /\ \A b \in bulks : (b.at = "done" /\ b.kind = "delete") => b.ids \cap DOMAIN storedRows = {}
    /\ Undisturbed => Worked(storedRows, bulks)

ErasedStay ==
    /\ erased \cap DOMAIN storedRows = {}
    /\ "rows" \notin crossed => \A v \in Views :
          /\ pageFetches[v].at = "read" => DOMAIN pageFetches[v].found \cap erased = {}
          /\ AtRest(v) => DOMAIN pages[v] \cap erased = {}

ListsCurrent ==
    Undisturbed => \A v \in Views :
        /\ pageFetches[v].at = "read" => RowShows(pageFetches[v].found, v, storedRows, bulks)
        /\ AtRest(v) => RowShows(pages[v], v, storedRows, bulks)

BulkInv == BulkTyped /\ DoneWell /\ ErasedStay /\ ListsCurrent

LEMMA BulkBounds ==
  MaxViews \in Nat /\ MaxTicks \in Nat /\ MaxBulks \in Nat /\ MaxElsewhere \in Nat /\ MaxBulkFaults \in Nat
BY BulkAssumption

LEMMA RunsOver ==
  /\ \A runs \in Runs : DOMAIN runs \subseteq Row /\ runs \in [DOMAIN runs -> Groups]
  /\ \A table \in SUBSET Row : \A runs \in [table -> Groups] : runs \in Runs /\ DOMAIN runs = table
<1>1. ASSUME NEW runs \in Runs PROVE DOMAIN runs \subseteq Row /\ runs \in [DOMAIN runs -> Groups]
  <2>1. PICK table \in SUBSET Row : runs \in [table -> Groups]
    BY DEF Runs
  <2> QED
    BY <2>1
<1>2. ASSUME NEW table \in SUBSET Row, NEW runs \in [table -> Groups]
      PROVE  runs \in Runs /\ DOMAIN runs = table
  BY DEF Runs
<1> QED
  BY <1>1, <1>2

LEMMA RunsRemoved ==
  ASSUME NEW runs \in Runs, NEW ids
  PROVE  /\ Removed(runs, ids) \in Runs /\ DOMAIN Removed(runs, ids) = DOMAIN runs \ ids
         /\ \A r \in DOMAIN runs \ ids : Removed(runs, ids)[r] = runs[r]
<1>1. DOMAIN runs \in SUBSET Row /\ runs \in [DOMAIN runs -> Groups]
  BY RunsOver
<1>2. Removed(runs, ids) \in [DOMAIN runs \ ids -> Groups]
  BY <1>1 DEF Removed
<1>3. Removed(runs, ids) \in Runs /\ DOMAIN Removed(runs, ids) = DOMAIN runs \ ids
  BY <1>1, <1>2, RunsOver
<1> QED
  BY <1>3 DEF Removed

LEMMA RunsRegrouped ==
  ASSUME NEW runs \in Runs, NEW ids, NEW g \in Groups
  PROVE  /\ Regrouped(runs, ids, g) \in Runs /\ DOMAIN Regrouped(runs, ids, g) = DOMAIN runs
         /\ \A r \in DOMAIN runs : Regrouped(runs, ids, g)[r] = IF r \in ids THEN g ELSE runs[r]
<1>1. DOMAIN runs \in SUBSET Row /\ runs \in [DOMAIN runs -> Groups]
  BY RunsOver
<1>2. Regrouped(runs, ids, g) \in [DOMAIN runs -> Groups]
  BY <1>1 DEF Regrouped
<1>3. Regrouped(runs, ids, g) \in Runs /\ DOMAIN Regrouped(runs, ids, g) = DOMAIN runs
  BY <1>1, <1>2, RunsOver
<1> QED
  BY <1>3 DEF Regrouped

\* What a query finds are rows that are stored.
LEMMA MatchingShows ==
  ASSUME BulkTyped, NEW v \in Views, NEW bs
  PROVE  /\ Matching(v) \in Runs /\ DOMAIN Matching(v) \subseteq DOMAIN storedRows
         /\ RowShows(Matching(v), v, storedRows, bs)
<1>1. storedRows \in Runs /\ DOMAIN storedRows \in SUBSET Row /\ storedRows \in [DOMAIN storedRows -> Groups]
  BY RunsOver DEF BulkTyped, BulkTypeOK
<1> DEFINE found == {x \in DOMAIN storedRows : v[2] \in {"all", storedRows[x]}}
<1>2. Matching(v) \in [found -> Groups] /\ found \in SUBSET Row /\ found \subseteq DOMAIN storedRows
  BY <1>1 DEF Matching
<1>3. Matching(v) \in Runs /\ DOMAIN Matching(v) = found
  BY <1>2, RunsOver
<1>4. \A r \in found : Matching(v)[r] = storedRows[r]
  BY DEF Matching
<1>5. v[2] = "all" => DOMAIN storedRows \subseteq found
  OBVIOUS
<1> HIDE DEF found
<1> QED
  BY <1>2, <1>3, <1>4, <1>5 DEF RowShows

LEMMA ViewsActive ==
  /\ mode \in {"flat", "grouped"} /\ filter \in Filters => View \in Active(mode, filter)
  /\ \A m \in {"flat", "grouped"}, f \in Filters : Active(m, f) \subseteq Views
BY DEF View, Active, Views

LEMMA BulkStart == BulkInit => BulkInv
<1> SUFFICES ASSUME BulkInit PROVE BulkInv
  OBVIOUS
<1>1. storedRows \in Runs /\ <<>> \in Runs
  <2>1. storedRows \in Runs
    BY RunsOver DEF BulkInit
  <2>2. <<>> \in [{} -> Groups]
    OBVIOUS
  <2>3. {} \in SUBSET Row
    OBVIOUS
  <2> QED
    BY <2>1, <2>2, <2>3, RunsOver
<1>2. /\ mode = "flat" /\ filter = "all" /\ pages = [v \in Views |-> <<>>]
      /\ pageFetches = [v \in Views |-> IF v = <<"flat", "all">> THEN [at |-> "asked"] ELSE NoPageFetch]
      /\ selectedRows = {} /\ busy = "none" /\ bulks = {} /\ erased = {} /\ crossed = {}
      /\ viewed = 0 /\ ticked = 0 /\ sent = 0 /\ elsewhere = 0 /\ bulkFaults = 0
  BY DEF BulkInit
<1>3. pageFetches \in [Views -> PageFetch]
  BY <1>2 DEF PageFetch
<1>4. \A v \in Views : pageFetches[v].at \in {"none", "asked"}
  BY <1>2 DEF NoPageFetch
<1>5. ~\E v \in Views : AtRest(v)
  BY <1>2 DEF AtRest, Active, NoPageFetch
<1>6. BulkTypeOK
  <2>1. pages \in [Views -> Runs]
    BY <1>1, <1>2
  <2>2. viewed \in 0..MaxViews /\ ticked \in 0..MaxTicks /\ sent \in 0..MaxBulks
        /\ elsewhere \in 0..MaxElsewhere /\ bulkFaults \in 0..MaxBulkFaults
    BY <1>2, BulkBounds
  <2>3. /\ mode \in {"flat", "grouped"} /\ filter \in Filters /\ selectedRows \subseteq Row
        /\ busy \in {"none", "delete", "group", "ungroup"} /\ bulks = {}
        /\ erased \subseteq Row /\ crossed \subseteq {"rows", "groups"}
    BY <1>2 DEF Filters
  <2> QED
    BY <1>1, <1>4, <2>1, <2>2, <2>3 DEF BulkTypeOK
<1> QED
  BY <1>2, <1>3, <1>4, <1>5, <1>6
     DEF BulkInv, BulkTyped, DoneWell, ErasedStay, ListsCurrent, Worked, Numbered

----
LEMMA FetchesTyped ==
  ASSUME BulkTyped, NEW views \in SUBSET Views
  PROVE  /\ Activated(views) \in [Views -> PageFetch] /\ Invalidated(views) \in [Views -> PageFetch]
         /\ \A v \in Views : Activated(views)[v].at = "read" =>
               pageFetches[v].at = "read" /\ Activated(views)[v] = pageFetches[v]
         /\ \A v \in views : Activated(views)[v] # NoPageFetch
         /\ \A v \in Views \ views : Activated(views)[v] = pageFetches[v]
         /\ \A v \in views : Invalidated(views)[v].at = "asked"
         /\ \A v \in Views \ views : Invalidated(views)[v] = pageFetches[v]
BY DEF BulkTyped, Activated, Invalidated, PageFetch, NoPageFetch

LEMMA FetchesAre ==
  ASSUME BulkTyped, NEW v \in Views
  PROVE  /\ pageFetches[v] \in PageFetch /\ pageFetches[v].at \in {"none", "asked", "read"}
         /\ pageFetches[v].at = "read" => pageFetches[v].found \in Runs
         /\ pageFetches[v].at # "none" => pageFetches[v] # NoPageFetch
BY DEF BulkTyped, PageFetch, NoPageFetch

\* What BulkTypeOK says of the fetches follows from where they are.
LEMMA FetchesFit ==
  ASSUME NEW pulls \in [Views -> PageFetch]
  PROVE  \A v \in Views : pulls[v].at \in {"none", "asked", "read"}
                          /\ (pulls[v].at = "read" => pulls[v].found \in Runs)
BY DEF PageFetch, NoPageFetch

LEMMA DetachedTyped ==
  ASSUME BulkTyped, NEW left \in SUBSET bulks, NEW ids
  PROVE  /\ Detached(ids, left) \subseteq BulkRec /\ Numbered(Detached(ids, left), sent)
         /\ SameRequests(Detached(ids, left), left)
<1>1. left \subseteq BulkRec /\ Numbered(left, sent)
  BY DEF BulkTyped, Numbered
<1>2. CASE ids = {}
  <2> DEFINE off(b) == [b EXCEPT !.live = FALSE]
  <2>1. Detached(ids, left) = {off(b) : b \in left}
    BY <1>2 DEF Detached
  <2>2. ASSUME NEW b \in left
        PROVE  /\ off(b) \in BulkRec /\ off(b).n = b.n /\ off(b).kind = b.kind
               /\ off(b).group = b.group /\ off(b).ids = b.ids /\ off(b).at = b.at
    BY <1>1 DEF BulkRec
  <2> HIDE DEF off
  <2>3. ASSUME NEW d \in {off(b) : b \in left}, NEW e \in {off(b) : b \in left}, d.n = e.n
        PROVE  d = e
    <3>1. PICK b \in left : d = off(b)
      OBVIOUS
    <3>2. PICK c \in left : e = off(c)
      OBVIOUS
    <3>3. b = c
      BY <1>1, <2>2, <2>3, <3>1, <3>2 DEF Numbered
    <3> QED
      BY <3>1, <3>2, <3>3
  <2>4. Detached(ids, left) \subseteq BulkRec
    BY <2>1, <2>2
  <2>5. Numbered(Detached(ids, left), sent)
    BY <1>1, <2>1, <2>2, <2>3 DEF Numbered
  <2> QED
    BY <2>1, <2>2, <2>4, <2>5 DEF SameRequests
<1>3. CASE ids # {}
  BY <1>1, <1>3 DEF Detached, SameRequests
<1> QED
  BY <1>2, <1>3

\* The invariant only looks at what a request is for and how far it is.
LEMMA SameWork ==
  ASSUME NEW bs, NEW ds, NEW table, bs \subseteq BulkRec, ds \subseteq BulkRec,
         SameRequests(ds, bs)
  PROVE  /\ \A r : DeletedBy(ds, r) <=> DeletedBy(bs, r)
         /\ \A r : RegroupedBy(ds, r) <=> RegroupedBy(bs, r)
         /\ Worked(table, bs) => Worked(table, ds)
         /\ \A fetch, v : RowShows(fetch, v, table, bs) => RowShows(fetch, v, table, ds)
         /\ (\A b \in bs : (b.at = "done" /\ b.kind = "delete") => b.ids \cap DOMAIN table = {})
              => (\A b \in ds : (b.at = "done" /\ b.kind = "delete") => b.ids \cap DOMAIN table = {})
<1>1. ASSUME NEW r PROVE DeletedBy(ds, r) <=> DeletedBy(bs, r)
  BY DEF DeletedBy, SameRequests
<1>2. ASSUME NEW r PROVE RegroupedBy(ds, r) <=> RegroupedBy(bs, r)
  BY DEF RegroupedBy, SameRequests
<1>3. ASSUME Worked(table, bs), NEW d \in ds, d.at = "done"
      PROVE  /\ d.kind = "delete" => d.ids \cap DOMAIN table = {}
             /\ d.kind # "delete" => \A r \in d.ids \cap DOMAIN table :
                   table[r] = d.group \/ RegroupedBy({c \in ds : c.n # d.n}, r)
  <2>1. PICK b \in bs :
          d.n = b.n /\ d.kind = b.kind /\ d.group = b.group /\ d.ids = b.ids /\ d.at = b.at
    BY DEF SameRequests
  <2>2. /\ b.kind = "delete" => b.ids \cap DOMAIN table = {}
        /\ b.kind # "delete" => \A r \in b.ids \cap DOMAIN table :
              table[r] = b.group \/ RegroupedBy({c \in bs : c.n # b.n}, r)
    BY <1>3, <2>1 DEF Worked
  <2>3. ASSUME NEW r, RegroupedBy({c \in bs : c.n # b.n}, r)
        PROVE  RegroupedBy({c \in ds : c.n # d.n}, r)
    <3>1. PICK c \in bs : c.n # b.n /\ c.at = "done" /\ c.kind # "delete" /\ r \in c.ids
      BY <2>3 DEF RegroupedBy
    <3>2. PICK e \in ds : e.n = c.n /\ e.kind = c.kind /\ e.ids = c.ids /\ e.at = c.at
      BY DEF SameRequests
    <3> QED
      BY <2>1, <3>1, <3>2 DEF RegroupedBy
  <2> QED
    BY <2>1, <2>2, <2>3
<1>4. ASSUME NEW fetch, NEW v, RowShows(fetch, v, table, bs) PROVE RowShows(fetch, v, table, ds)
  BY <1>1, <1>2, <1>4 DEF RowShows
<1>5. Worked(table, bs) => Worked(table, ds)
  BY <1>3 DEF Worked
<1>6. ASSUME NEW d \in ds
      PROVE  \E b \in bs : d.kind = b.kind /\ d.ids = b.ids /\ d.at = b.at
  BY DEF SameRequests
<1> QED
  BY <1>1, <1>2, <1>4, <1>5, <1>6

\* Requests lose their bar, and a view is fetched, without touching the invariant.
LEMMA Turning ==
  ASSUME BulkInv, mode' \in {"flat", "grouped"}, filter' \in Filters,
         UNCHANGED <<storedRows, pages, erased, crossed, sent, elsewhere, bulkFaults>>,
         selectedRows' \in SUBSET Row, busy' \in {"none", "delete", "group", "ungroup"},
         viewed' \in 0..MaxViews, ticked' \in 0..MaxTicks,
         pageFetches' \in [Views -> PageFetch],
         \A v \in Views : pageFetches'[v].at = "read" =>
             pageFetches[v].at = "read" /\ pageFetches'[v] = pageFetches[v],
         \A v \in Views : AtRest(v)' => AtRest(v),
         bulks' \subseteq BulkRec, Numbered(bulks', sent),
         SameRequests(bulks', bulks)
  PROVE  BulkInv'
<1>1. bulks \subseteq BulkRec
  BY DEF BulkInv, BulkTyped
<1>2. /\ Worked(storedRows, bulks) => Worked(storedRows, bulks')
      /\ \A fetch, v : RowShows(fetch, v, storedRows, bulks) => RowShows(fetch, v, storedRows, bulks')
      /\ (\A b \in bulks : (b.at = "done" /\ b.kind = "delete") => b.ids \cap DOMAIN storedRows = {})
           => (\A b \in bulks' : (b.at = "done" /\ b.kind = "delete") => b.ids \cap DOMAIN storedRows = {})
  <2> DEFINE ds == bulks'
  <2>1. ds \subseteq BulkRec
    OBVIOUS
  <2>2. SameRequests(ds, bulks)
    OBVIOUS
  <2> HIDE DEF ds
  <2> QED
    BY <1>1, <2>1, <2>2, SameWork DEF ds
<1>3. BulkTypeOK'
  <2>1. \A v \in Views : pageFetches'[v].at \in {"none", "asked", "read"}
                          /\ (pageFetches'[v].at = "read" => pageFetches'[v].found \in Runs)
    <3>1. PICK pulls \in [Views -> PageFetch] : pulls = pageFetches'
      OBVIOUS
    <3> QED
      BY <3>1, FetchesFit
  <2> QED
    BY <2>1 DEF BulkInv, BulkTyped, BulkTypeOK, BulkRec
<1>4. BulkTyped'
  BY <1>3 DEF BulkTyped
<1>5. DoneWell'
  BY <1>2 DEF BulkInv, DoneWell, Undisturbed
<1>6. ErasedStay'
  BY DEF BulkInv, ErasedStay
<1>7. ListsCurrent'
  BY <1>2 DEF BulkInv, ListsCurrent, Undisturbed
<1> QED
  BY <1>4, <1>5, <1>6, <1>7 DEF BulkInv

\* A request still under way is replaced by one further on.
LEMMA Replacing ==
  ASSUME BulkTyped, NEW b \in bulks, NEW d \in BulkRec, d.n = b.n
  PROVE  /\ (bulks \ {b}) \cup {d} \subseteq BulkRec /\ Numbered((bulks \ {b}) \cup {d}, sent)
         /\ bulks \ {b} \subseteq BulkRec /\ Numbered(bulks \ {b}, sent)
         /\ \A c \in bulks \ {b} : c.n # b.n
BY DEF BulkTyped, Numbered

LEMMA BulkServed == ASSUME BulkInv, NEW b \in bulks, ServeBulk(b) PROVE BulkInv'
<1> DEFINE done == [b EXCEPT !.at = "done"]
<1>1. /\ b.at = "asked" /\ (DeleteRows(b) \/ RegroupRows(b))
      /\ bulks' = (bulks \ {b}) \cup {done}
      /\ UNCHANGED <<mode, filter, pages, pageFetches, selectedRows, busy, erased, crossed, viewed,
                     ticked, sent, elsewhere, bulkFaults>>
  BY DEF ServeBulk
<1>2. /\ b \in BulkRec /\ storedRows \in Runs /\ b.ids \in SUBSET Row /\ b.group \in Groups
      /\ BulkTyped /\ pages \in [Views -> Runs]
  BY DEF BulkInv, BulkTyped, BulkTypeOK, BulkRec
<1>3. /\ done \in BulkRec /\ done.n = b.n /\ done.kind = b.kind /\ done.group = b.group
      /\ done.ids = b.ids /\ done.at = "done"
  BY <1>2 DEF BulkRec
<1> HIDE DEF done
<1>4. /\ storedRows' \in Runs /\ DOMAIN storedRows' \subseteq DOMAIN storedRows
      /\ b.kind = "delete" => DOMAIN storedRows' = DOMAIN storedRows \ b.ids
      /\ b.kind # "delete" => DOMAIN storedRows' = DOMAIN storedRows
      /\ \A r \in DOMAIN storedRows' :
            storedRows'[r] = IF b.kind # "delete" /\ r \in b.ids THEN b.group ELSE storedRows[r]
  <2>1. CASE DeleteRows(b)
    <3>1. b.kind = "delete" /\ storedRows' = Removed(storedRows, b.ids)
      BY <2>1 DEF DeleteRows
    <3>2. /\ Removed(storedRows, b.ids) \in Runs
          /\ DOMAIN Removed(storedRows, b.ids) = DOMAIN storedRows \ b.ids
          /\ \A r \in DOMAIN storedRows \ b.ids : Removed(storedRows, b.ids)[r] = storedRows[r]
      BY <1>2, RunsRemoved, ZenonT(30)
    <3> QED
      BY <3>1, <3>2
  <2>2. CASE RegroupRows(b)
    <3>1. b.kind # "delete" /\ storedRows' = Regrouped(storedRows, b.ids, b.group)
      BY <2>2 DEF RegroupRows
    <3>2. /\ Regrouped(storedRows, b.ids, b.group) \in Runs
          /\ DOMAIN Regrouped(storedRows, b.ids, b.group) = DOMAIN storedRows
          /\ \A r \in DOMAIN storedRows : Regrouped(storedRows, b.ids, b.group)[r] =
                                          IF r \in b.ids THEN b.group ELSE storedRows[r]
      BY <1>2, RunsRegrouped
    <3> QED
      BY <3>1, <3>2
  <2> QED
    BY <1>1, <2>1, <2>2
<1>5. /\ bulks' \subseteq BulkRec /\ Numbered(bulks', sent)
      /\ \A c \in bulks \ {b} : c.n # b.n
  BY <1>1, <1>2, <1>3, Replacing
<1>6. BulkTyped'
  <2>1. BulkTypeOK'
    BY <1>1, <1>2, <1>4, <1>5 DEF BulkTyped, BulkTypeOK, BulkRec
  <2> QED
    BY <1>1, <1>2, <1>5, <2>1 DEF BulkTyped
<1>7. \A c \in bulks : c.at = "done" => c \in bulks' /\ c # b
  BY <1>1
<1>8. \A c \in bulks' : c = done \/ (c \in bulks /\ c # b)
  BY <1>1
<1>9. /\ \A r : DeletedBy(bulks, r) => DeletedBy(bulks', r)
      /\ \A r : RegroupedBy(bulks, r) => RegroupedBy(bulks', r)
      /\ b.kind = "delete" => \A r \in b.ids : DeletedBy(bulks', r)
      /\ b.kind # "delete" => \A r \in b.ids : RegroupedBy(bulks', r)
      /\ \A n, r : RegroupedBy({c \in bulks : c.n # n}, r) => RegroupedBy({c \in bulks' : c.n # n}, r)
      /\ b.kind # "delete" => \A n : n # b.n => \A r \in b.ids : RegroupedBy({c \in bulks' : c.n # n}, r)
  BY <1>1, <1>3, <1>7 DEF DeletedBy, RegroupedBy
<1>10. DoneWell'
  <2>1. ASSUME NEW c \in bulks', c.at = "done", c.kind = "delete" PROVE c.ids \cap DOMAIN storedRows' = {}
    BY <1>3, <1>4, <1>8, <2>1 DEF BulkInv, DoneWell
  <2>2. ASSUME Undisturbed', NEW c \in bulks', c.at = "done", c.kind # "delete",
               NEW r \in c.ids \cap DOMAIN storedRows'
        PROVE  storedRows'[r] = c.group \/ RegroupedBy({e \in bulks' : e.n # c.n}, r)
    <3>1. CASE c = done
      BY <1>3, <1>4, <2>2, <3>1
    <3>2. CASE c \in bulks /\ c # b
      <4>1. c.n # b.n
        BY <1>5, <3>2
      <4>2. storedRows[r] = c.group \/ RegroupedBy({e \in bulks : e.n # c.n}, r)
        BY <1>1, <1>4, <2>2, <3>2 DEF BulkInv, DoneWell, Worked, Undisturbed
      <4>3. CASE b.kind # "delete" /\ r \in b.ids
        BY <1>9, <4>1, <4>3
      <4>4. CASE ~(b.kind # "delete" /\ r \in b.ids)
        <5>1. storedRows'[r] = storedRows[r]
          BY <1>4, <2>2, <4>4
        <5> QED
          BY <1>9, <4>2, <5>1
      <4> QED
        BY <4>3, <4>4
    <3> QED
      BY <1>8, <3>1, <3>2
  <2> QED
    BY <2>1, <2>2 DEF DoneWell, Worked
<1>11. ErasedStay'
  BY <1>1, <1>4 DEF BulkInv, ErasedStay, AtRest
<1>12. ASSUME NEW fetch, NEW v, RowShows(fetch, v, storedRows, bulks)
       PROVE  RowShows(fetch, v, storedRows', bulks')
  <2>1. ASSUME NEW r \in DOMAIN fetch \ DOMAIN storedRows' PROVE DeletedBy(bulks', r)
    BY <1>4, <1>9, <1>12, <2>1 DEF RowShows
  <2>2. ASSUME NEW r \in DOMAIN fetch \cap DOMAIN storedRows'
        PROVE  fetch[r] = storedRows'[r] \/ RegroupedBy(bulks', r)
    BY <1>4, <1>9, <1>12, <2>2 DEF RowShows
  <2>3. v[2] = "all" => DOMAIN storedRows' \subseteq DOMAIN fetch
    BY <1>4, <1>12 DEF RowShows
  <2> QED
    BY <2>1, <2>2, <2>3 DEF RowShows
<1>13. ListsCurrent'
  BY <1>1, <1>12 DEF BulkInv, ListsCurrent, Undisturbed, AtRest
<1> QED
  BY <1>6, <1>10, <1>11, <1>13 DEF BulkInv

LEMMA BulkBroken == ASSUME BulkInv, NEW b \in bulks, BulkBreaks(b) PROVE BulkInv'
<1> DEFINE gone == [b EXCEPT !.at = "failed"]
<1>1. /\ b.at \in {"asked", "done"} /\ bulkFaults < MaxBulkFaults /\ bulkFaults' = bulkFaults + 1
      /\ bulks' = (bulks \ {b}) \cup {gone}
      /\ crossed' = IF b.at = "done" THEN crossed \cup {"groups"} ELSE crossed
      /\ UNCHANGED <<storedRows, mode, filter, pages, pageFetches, selectedRows, busy, erased,
                     viewed, ticked, sent, elsewhere>>
  BY DEF BulkBreaks
<1>2. b \in BulkRec /\ BulkTyped /\ bulkFaults' \in 0..MaxBulkFaults
  BY <1>1, BulkBounds DEF BulkInv, BulkTyped, BulkTypeOK
<1>3. gone \in BulkRec /\ gone.n = b.n /\ gone.at = "failed"
  BY <1>2 DEF BulkRec
<1> HIDE DEF gone
<1>4. bulks' \subseteq BulkRec /\ Numbered(bulks', sent)
  BY <1>1, <1>2, <1>3, Replacing
<1>5. BulkTyped'
  <2>1. BulkTypeOK'
    BY <1>1, <1>2, <1>4 DEF BulkTyped, BulkTypeOK, BulkRec
  <2> QED
    BY <1>1, <1>2, <1>4, <2>1 DEF BulkTyped
<1>6. \A c \in bulks' : c.at = "done" => c \in bulks
  BY <1>1, <1>3
<1>7. ASSUME Undisturbed'
      PROVE  Undisturbed /\ \A c \in bulks : c.at = "done" => c \in bulks'
  BY <1>1, <1>7 DEF Undisturbed
<1>8. ASSUME Undisturbed'
      PROVE  /\ \A r : DeletedBy(bulks, r) => DeletedBy(bulks', r)
             /\ \A r : RegroupedBy(bulks, r) => RegroupedBy(bulks', r)
             /\ \A n, r : RegroupedBy({c \in bulks : c.n # n}, r) => RegroupedBy({c \in bulks' : c.n # n}, r)
  BY <1>7, <1>8 DEF DeletedBy, RegroupedBy
<1>9. DoneWell'
  <2>1. \A c \in bulks' : (c.at = "done" /\ c.kind = "delete") => c.ids \cap DOMAIN storedRows' = {}
    BY <1>1, <1>6 DEF BulkInv, DoneWell
  <2>2. Undisturbed' => Worked(storedRows', bulks')
    <3>1. ASSUME Undisturbed', NEW c \in bulks', c.at = "done"
          PROVE  /\ c.kind = "delete" => c.ids \cap DOMAIN storedRows = {}
                 /\ c.kind # "delete" => \A r \in c.ids \cap DOMAIN storedRows :
                       storedRows[r] = c.group \/ RegroupedBy({e \in bulks' : e.n # c.n}, r)
      <4>1. c \in bulks /\ Worked(storedRows, bulks)
        BY <1>6, <1>7, <3>1 DEF BulkInv, DoneWell
      <4>2. /\ c.kind = "delete" => c.ids \cap DOMAIN storedRows = {}
            /\ c.kind # "delete" => \A r \in c.ids \cap DOMAIN storedRows :
                  storedRows[r] = c.group \/ RegroupedBy({e \in bulks : e.n # c.n}, r)
        BY <3>1, <4>1 DEF Worked
      <4>3. \A r : RegroupedBy({e \in bulks : e.n # c.n}, r) => RegroupedBy({e \in bulks' : e.n # c.n}, r)
        BY <1>8, <3>1
      <4> QED
        BY <4>2, <4>3
    <3> QED
      BY <1>1, <3>1 DEF Worked
  <2> QED
    BY <2>1, <2>2 DEF DoneWell
<1>10. ErasedStay'
  BY <1>1 DEF BulkInv, ErasedStay, AtRest
<1>11. ListsCurrent'
  BY <1>1, <1>7, <1>8 DEF BulkInv, ListsCurrent, AtRest, RowShows
<1> QED
  BY <1>5, <1>9, <1>10, <1>11 DEF BulkInv

LEMMA BulkAlerted == ASSUME BulkInv, NEW b \in bulks, BulkAlert(b) PROVE BulkInv'
<1>1. /\ b.at = "failed" /\ bulks' = bulks \ {b} /\ busy' = IF b.live THEN "none" ELSE busy
      /\ UNCHANGED <<storedRows, mode, filter, pages, pageFetches, selectedRows, erased, crossed,
                     viewed, ticked, sent, elsewhere, bulkFaults>>
  BY DEF BulkAlert
<1>2. b \in BulkRec /\ BulkTyped /\ busy' \in {"none", "delete", "group", "ungroup"}
  BY <1>1 DEF BulkInv, BulkTyped, BulkTypeOK
<1>3. bulks' \subseteq BulkRec /\ Numbered(bulks', sent)
  BY <1>1, <1>2, Replacing
<1>4. BulkTyped'
  <2>1. BulkTypeOK'
    BY <1>1, <1>2, <1>3 DEF BulkTyped, BulkTypeOK, BulkRec
  <2> QED
    BY <1>1, <1>2, <1>3, <2>1 DEF BulkTyped
<1>5. \A c \in bulks : c.at = "done" => c \in bulks'
  BY <1>1
<1>6. /\ \A r : DeletedBy(bulks, r) => DeletedBy(bulks', r)
      /\ \A r : RegroupedBy(bulks, r) => RegroupedBy(bulks', r)
      /\ \A n, r : RegroupedBy({c \in bulks : c.n # n}, r) => RegroupedBy({c \in bulks' : c.n # n}, r)
  BY <1>5 DEF DeletedBy, RegroupedBy
<1>7. DoneWell'
  BY <1>1, <1>6 DEF BulkInv, DoneWell, Worked, Undisturbed
<1>8. ErasedStay'
  BY <1>1 DEF BulkInv, ErasedStay, AtRest
<1>9. ListsCurrent'
  BY <1>1, <1>6 DEF BulkInv, ListsCurrent, AtRest, RowShows, Undisturbed
<1> QED
  BY <1>4, <1>7, <1>8, <1>9 DEF BulkInv

LEMMA BulkFinished == ASSUME BulkInv, NEW b \in bulks, BulkDone(b) PROVE BulkInv'
<1> DEFINE flat == <<"flat", filter>>
           fetch == IF b.kind = "delete" THEN Removed(pages[flat], b.ids)
                   ELSE Regrouped(pages[flat], b.ids, b.group)
           again == {v \in Active(mode, filter) : b.kind = "delete" \/ v[1] = "grouped"}
           behindhand == \E v \in Views : pageFetches'[v].at = "read"
           left == bulks \ {b}
<1>1. /\ b.at = "done" /\ pages' = [pages EXCEPT ![flat] = fetch]
      /\ pageFetches' = Invalidated(again)
      /\ erased' = IF b.kind = "delete" THEN erased \cup b.ids ELSE erased
      /\ selectedRows' = {} /\ busy' = "none" /\ bulks' = Detached({}, left)
      /\ crossed' = crossed \cup IF b.kind = "delete" THEN (IF behindhand THEN {"rows"} ELSE {})
                                 ELSE IF behindhand \/ bulks # {b} THEN {"groups"} ELSE {}
      /\ UNCHANGED <<storedRows, mode, filter, viewed, ticked, sent, elsewhere, bulkFaults>>
  <2>1. flat \in Views
    BY DEF BulkInv, BulkTyped, BulkTypeOK, Views
  <2> QED
    BY <2>1 DEF BulkDone, Selecting, BulkInv, BulkTyped, BulkTypeOK
<1>2. /\ b \in BulkRec /\ BulkTyped /\ b.ids \in SUBSET Row /\ b.group \in Groups
      /\ storedRows \in Runs /\ pages \in [Views -> Runs] /\ flat \in Views /\ pages[flat] \in Runs
      /\ mode \in {"flat", "grouped"} /\ filter \in Filters /\ pageFetches \in [Views -> PageFetch]
  BY DEF BulkInv, BulkTyped, BulkTypeOK, BulkRec, Views
<1>3. /\ fetch \in Runs
      /\ b.kind = "delete" => DOMAIN fetch = DOMAIN pages[flat] \ b.ids
      /\ b.kind # "delete" =>
            /\ DOMAIN fetch = DOMAIN pages[flat]
            /\ \A r \in DOMAIN fetch : fetch[r] = IF r \in b.ids THEN b.group ELSE pages[flat][r]
  <2>1. CASE b.kind = "delete"
    <3>1. fetch = Removed(pages[flat], b.ids)
      BY <2>1
    <3>2. Removed(pages[flat], b.ids) \in Runs
          /\ DOMAIN Removed(pages[flat], b.ids) = DOMAIN pages[flat] \ b.ids
      BY <1>2, RunsRemoved, ZenonT(30)
    <3> QED
      BY <2>1, <3>1, <3>2
  <2>2. CASE b.kind # "delete"
    <3>1. fetch = Regrouped(pages[flat], b.ids, b.group)
      BY <2>2
    <3>2. /\ Regrouped(pages[flat], b.ids, b.group) \in Runs
          /\ DOMAIN Regrouped(pages[flat], b.ids, b.group) = DOMAIN pages[flat]
          /\ \A r \in DOMAIN pages[flat] : Regrouped(pages[flat], b.ids, b.group)[r] =
                                          IF r \in b.ids THEN b.group ELSE pages[flat][r]
      BY <1>2, RunsRegrouped
    <3> HIDE DEF fetch
    <3> QED
      BY <2>2, <3>1, <3>2
  <2> QED
    BY <2>1, <2>2
<1>4. /\ again \in SUBSET Views /\ again \subseteq Active(mode, filter)
      /\ b.kind = "delete" => again = Active(mode, filter)
      /\ \A v \in Active(mode, filter) \ again : v = flat
  BY <1>2, ViewsActive DEF Active
<1>5. /\ pageFetches' \in [Views -> PageFetch]
      /\ \A v \in again : pageFetches'[v].at = "asked"
      /\ \A v \in Views \ again : pageFetches'[v] = pageFetches[v]
  BY <1>1, <1>2, <1>4, FetchesTyped
<1>6. /\ pages' \in [Views -> Runs] /\ pages'[flat] = fetch
      /\ \A v \in Views \ {flat} : pages'[v] = pages[v]
  BY <1>1, <1>2, <1>3
<1> HIDE DEF flat, fetch, again, behindhand
<1>7. /\ bulks' \subseteq BulkRec /\ Numbered(bulks', sent)
      /\ SameRequests(bulks', left)
      /\ left \subseteq BulkRec
  <2>1. left \subseteq BulkRec /\ left \in SUBSET bulks
    BY <1>2 DEF BulkTyped
  <2> HIDE DEF left
  <2>2. PICK ids : ids = {}
    OBVIOUS
  <2>3. bulks' = Detached(ids, left)
    BY <1>1, <2>2
  <2>4. /\ Detached(ids, left) \subseteq BulkRec /\ Numbered(Detached(ids, left), sent)
        /\ SameRequests(Detached(ids, left), left)
    BY <1>2, <2>1, DetachedTyped
  <2> QED
    BY <2>1, <2>3, <2>4
<1>8. BulkTyped'
  <2>1. \A v \in Views : pageFetches'[v].at \in {"none", "asked", "read"}
                          /\ (pageFetches'[v].at = "read" => pageFetches'[v].found \in Runs)
    BY <1>5 DEF PageFetch, NoPageFetch
  <2>2. erased' \subseteq Row /\ crossed' \subseteq {"rows", "groups"}
    BY <1>1, <1>2 DEF BulkTyped, BulkTypeOK
  <2>3. BulkTypeOK'
    BY <1>1, <1>2, <1>6, <1>7, <2>1, <2>2 DEF BulkTyped, BulkTypeOK, BulkRec
  <2> QED
    BY <1>1, <1>5, <1>7, <2>3 DEF BulkTyped
<1>9. \A v \in Views : AtRest(v)' => v = flat /\ AtRest(v) /\ b.kind # "delete"
  <2>1. ASSUME NEW v \in Views, AtRest(v)' PROVE v = flat /\ AtRest(v) /\ b.kind # "delete"
    <3>1. v \in Active(mode, filter) /\ pageFetches'[v] = NoPageFetch
      BY <1>1, <2>1 DEF AtRest
    <3>2. v \notin again
      BY <1>5, <3>1 DEF NoPageFetch
    <3> QED
      BY <1>4, <1>5, <3>1, <3>2 DEF AtRest
  <2> QED
    BY <2>1
<1>10. DoneWell'
  <2>1. \A c \in left : (c.at = "done" /\ c.kind = "delete") => c.ids \cap DOMAIN storedRows = {}
    BY DEF BulkInv, DoneWell
  <2>2. \A c \in bulks' : (c.at = "done" /\ c.kind = "delete") => c.ids \cap DOMAIN storedRows = {}
    BY <1>7, <2>1 DEF SameRequests
  <2>3. ASSUME Undisturbed' PROVE Worked(storedRows, bulks')
    <3>1. Undisturbed /\ (b.kind # "delete" => left = {})
      BY <1>1, <2>3 DEF Undisturbed
    <3>2. CASE left = {}
      BY <1>7, <3>2 DEF Worked, SameRequests
    <3>3. CASE b.kind = "delete"
      <4>1. Worked(storedRows, left)
        <5>1. ASSUME NEW c \in left, c.at = "done", c.kind # "delete",
                     NEW r \in c.ids \cap DOMAIN storedRows
              PROVE  storedRows[r] = c.group \/ RegroupedBy({e \in left : e.n # c.n}, r)
          <6>1. storedRows[r] = c.group \/ RegroupedBy({e \in bulks : e.n # c.n}, r)
            BY <3>1, <5>1 DEF BulkInv, DoneWell, Worked
          <6>2. RegroupedBy({e \in bulks : e.n # c.n}, r) => RegroupedBy({e \in left : e.n # c.n}, r)
            BY <3>3 DEF RegroupedBy
          <6> QED
            BY <6>1, <6>2
        <5> QED
          BY <2>1, <5>1 DEF Worked
      <4>2. PICK bs : bs = bulks'
        OBVIOUS
      <4>3. bs \subseteq BulkRec
        BY <1>7, <4>2
      <4> HIDE DEF left
      <4>4. Worked(storedRows, bs)
        BY <1>7, <4>1, <4>2, <4>3, SameWork
      <4> QED
        BY <4>2, <4>4
    <3> QED
      BY <3>1, <3>2, <3>3
  <2> QED
    BY <1>1, <2>2, <2>3 DEF DoneWell
<1>11. ErasedStay'
  <2>1. erased' \cap DOMAIN storedRows = {}
    BY <1>1 DEF BulkInv, ErasedStay, DoneWell
  <2>2. ASSUME "rows" \notin crossed', NEW v \in Views, pageFetches'[v].at = "read"
        PROVE  DOMAIN pageFetches'[v].found \cap erased' = {}
    <3>1. b.kind # "delete" /\ "rows" \notin crossed /\ erased' = erased
      BY <1>1, <2>2 DEF behindhand
    <3>2. pageFetches'[v] = pageFetches[v]
      BY <1>5, <2>2
    <3> QED
      BY <2>2, <3>1, <3>2 DEF BulkInv, ErasedStay
  <2>3. ASSUME "rows" \notin crossed', NEW v \in Views, AtRest(v)'
        PROVE  DOMAIN pages'[v] \cap erased' = {}
    <3>1. v = flat /\ AtRest(v) /\ b.kind # "delete"
      BY <1>9, <2>3
    <3>2. erased' = erased /\ "rows" \notin crossed
      BY <1>1, <2>3, <3>1
    <3> QED
      BY <1>3, <1>6, <3>1, <3>2 DEF BulkInv, ErasedStay
  <2> QED
    BY <1>1, <2>1, <2>2, <2>3 DEF ErasedStay
<1>12. ListsCurrent'
  <2>1. ASSUME Undisturbed' PROVE ~behindhand /\ Undisturbed /\ (b.kind # "delete" => bulks = {b})
    BY <1>1, <2>1 DEF Undisturbed
  <2>2. ASSUME Undisturbed', NEW v \in Views, AtRest(v)' PROVE RowShows(pages'[v], v, storedRows, bulks')
    <3>1. v = flat /\ AtRest(v) /\ b.kind # "delete" /\ bulks = {b} /\ Undisturbed
      BY <1>9, <2>1, <2>2
    <3>2. RowShows(pages[flat], flat, storedRows, {b})
      BY <3>1 DEF BulkInv, ListsCurrent
    <3>3. \A r \in b.ids \cap DOMAIN storedRows : storedRows[r] = b.group
      BY <1>1, <3>1 DEF BulkInv, DoneWell, Worked, RegroupedBy
    <3>4. ASSUME NEW r \in DOMAIN fetch \ DOMAIN storedRows PROVE FALSE
      BY <1>3, <3>1, <3>2, <3>4 DEF RowShows, DeletedBy
    <3>5. ASSUME NEW r \in DOMAIN fetch \cap DOMAIN storedRows PROVE fetch[r] = storedRows[r]
      BY <1>3, <3>1, <3>2, <3>3, <3>5 DEF RowShows, RegroupedBy
    <3>6. v[2] = "all" => DOMAIN storedRows \subseteq DOMAIN fetch
      BY <1>3, <3>1, <3>2 DEF RowShows
    <3> QED
      BY <1>6, <3>1, <3>4, <3>5, <3>6 DEF RowShows
  <2> QED
    BY <1>1, <2>1, <2>2 DEF ListsCurrent, behindhand
<1> QED
  BY <1>8, <1>10, <1>11, <1>12 DEF BulkInv

LEMMA BulkStep == BulkInv /\ [BulkNext]_bulkVars => BulkInv'
<1> SUFFICES ASSUME BulkInv, [BulkNext]_bulkVars PROVE BulkInv'
  OBVIOUS
<1>0. /\ storedRows \in Runs /\ mode \in {"flat", "grouped"} /\ filter \in Filters
      /\ pages \in [Views -> Runs] /\ pageFetches \in [Views -> PageFetch]
      /\ selectedRows \in SUBSET Row /\ busy \in {"none", "delete", "group", "ungroup"}
      /\ bulks \subseteq BulkRec /\ Numbered(bulks, sent)
      /\ erased \subseteq Row /\ crossed \subseteq {"rows", "groups"}
      /\ viewed \in 0..MaxViews /\ ticked \in 0..MaxTicks /\ sent \in 0..MaxBulks
      /\ elsewhere \in 0..MaxElsewhere /\ bulkFaults \in 0..MaxBulkFaults
      /\ BulkTyped
  BY DEF BulkInv, BulkTyped, BulkTypeOK
<1>00. View \in Active(mode, filter) /\ Active(mode, filter) \subseteq Views
  BY <1>0, ViewsActive
<1>a. SameRequests(bulks, bulks)
  BY DEF SameRequests
<1>b. \A ids : /\ Detached(ids, bulks) \subseteq BulkRec /\ Numbered(Detached(ids, bulks), sent)
                /\ SameRequests(Detached(ids, bulks), bulks)
  BY <1>0, DetachedTyped
<1>1. ASSUME ChangeMode PROVE BulkInv'
  <2>1. /\ viewed' \in 0..MaxViews /\ mode' \in {"flat", "grouped"}
        /\ pageFetches' = Activated(Active(mode', filter) \ Active(mode, filter))
        /\ selectedRows' = {} /\ busy' = "none" /\ bulks' = Detached({}, bulks)
        /\ UNCHANGED <<storedRows, filter, pages, erased, crossed, ticked, sent, elsewhere, bulkFaults>>
    BY <1>0, <1>1, BulkBounds DEF ChangeMode, Selecting
  <2>2. Active(mode', filter) \in SUBSET Views
    BY <1>0, <2>1, ViewsActive
  <2> DEFINE new == Active(mode', filter) \ Active(mode, filter)
  <2>3. /\ pageFetches' \in [Views -> PageFetch]
        /\ \A v \in Views : pageFetches'[v].at = "read" =>
               pageFetches[v].at = "read" /\ pageFetches'[v] = pageFetches[v]
        /\ \A v \in new : pageFetches'[v] # NoPageFetch
        /\ \A v \in Views \ new : pageFetches'[v] = pageFetches[v]
    <3>1. PICK views \in SUBSET Views : views = new
      BY <2>2
    <3>2. pageFetches' = Activated(views)
      BY <2>1, <3>1
    <3> HIDE DEF new
    <3> QED
      BY <1>0, <3>1, <3>2, FetchesTyped
  <2>4. \A v \in Views : AtRest(v)' => AtRest(v)
    BY <2>1, <2>3 DEF AtRest
  <2> HIDE DEF new
  <2>8. PICK some : some = {} /\ bulks' = Detached(some, bulks)
    BY <2>1
  <2>9. /\ bulks' \subseteq BulkRec /\ Numbered(bulks', sent)
        /\ SameRequests(bulks', bulks)
    BY <1>b, <2>8
  <2> QED
    BY <1>0, <2>1, <2>3, <2>4, <2>9, Turning
<1>2. ASSUME NEW f \in Filters, ChangeFilter(f) PROVE BulkInv'
  <2>1. /\ viewed' \in 0..MaxViews /\ filter' = f
        /\ pageFetches' = Activated(Active(mode, f))
        /\ UNCHANGED <<storedRows, mode, pages, selectedRows, busy, bulks, erased, crossed, ticked,
                       sent, elsewhere, bulkFaults>>
    BY <1>0, <1>2, BulkBounds DEF ChangeFilter
  <2>2. Active(mode, f) \in SUBSET Views
    BY <1>0, ViewsActive
  <2>3. /\ pageFetches' \in [Views -> PageFetch]
        /\ \A v \in Views : pageFetches'[v].at = "read" =>
               pageFetches[v].at = "read" /\ pageFetches'[v] = pageFetches[v]
        /\ \A v \in Active(mode, f) : pageFetches'[v] # NoPageFetch
    BY <1>0, <2>1, <2>2, FetchesTyped
  <2>4. \A v \in Views : AtRest(v)' => AtRest(v)
    BY <2>1, <2>3 DEF AtRest
  <2> QED
    BY <1>0, <1>a, <2>1, <2>3, <2>4, Turning
<1>3. ASSUME NEW ids \in SUBSET Row, TickRows(ids) PROVE BulkInv'
  <2>1. /\ ticked' \in 0..MaxTicks /\ selectedRows' = ids /\ busy' \in {"none", "delete", "group", "ungroup"}
        /\ bulks' = Detached(ids, bulks)
        /\ UNCHANGED <<storedRows, mode, filter, pages, pageFetches, erased, crossed, viewed, sent,
                       elsewhere, bulkFaults>>
    BY <1>0, <1>3, BulkBounds DEF TickRows, Selecting
  <2>2. \A v \in Views : AtRest(v)' => AtRest(v)
    BY <2>1 DEF AtRest
  <2>8. PICK some : some = ids /\ bulks' = Detached(some, bulks)
    BY <2>1
  <2>9. /\ bulks' \subseteq BulkRec /\ Numbered(bulks', sent)
        /\ SameRequests(bulks', bulks)
    BY <1>b, <2>8
  <2> QED
    BY <1>0, <2>1, <2>2, <2>9, Turning
<1>4. ASSUME NEW v \in Views, ServePage(v) PROVE BulkInv'
  <2>1. /\ pageFetches[v].at = "asked"
        /\ pageFetches' = [pageFetches EXCEPT ![v] = [at |-> "read", found |-> Matching(v)]]
        /\ UNCHANGED <<storedRows, mode, filter, pages, selectedRows, busy, bulks, erased, crossed,
                       viewed, ticked, sent, elsewhere, bulkFaults>>
    BY <1>4 DEF ServePage
  <2>2. /\ Matching(v) \in Runs /\ DOMAIN Matching(v) \subseteq DOMAIN storedRows
        /\ RowShows(Matching(v), v, storedRows, bulks)
    BY <1>0, MatchingShows
  <2>3. /\ pageFetches' \in [Views -> PageFetch]
        /\ pageFetches'[v].at = "read" /\ pageFetches'[v].found = Matching(v)
        /\ \A w \in Views \ {v} : pageFetches'[w] = pageFetches[w]
    <3>1. [at |-> "read", found |-> Matching(v)] \in PageFetch
      BY <2>2 DEF PageFetch
    <3> QED
      BY <1>0, <2>1, <3>1
  <2>4. \A w \in Views : AtRest(w)' => AtRest(w)
    BY <2>1, <2>3 DEF AtRest, NoPageFetch
  <2>5. BulkTyped'
    <3>1. BulkTypeOK'
      <4>1. \A w \in Views : pageFetches'[w].at \in {"none", "asked", "read"}
                          /\ (pageFetches'[w].at = "read" => pageFetches'[w].found \in Runs)
        BY <1>0, <2>2, <2>3, FetchesAre
      <4> QED
        BY <2>1, <4>1 DEF BulkInv, BulkTyped, BulkTypeOK
    <3> QED
      BY <1>0, <2>1, <2>3, <3>1 DEF BulkTyped
  <2>6. DoneWell'
    BY <2>1 DEF BulkInv, DoneWell, Undisturbed
  <2>7. ErasedStay'
    <3>1. DOMAIN Matching(v) \cap erased = {}
      BY <2>2 DEF BulkInv, ErasedStay
    <3> QED
      BY <2>1, <2>3, <2>4, <3>1 DEF BulkInv, ErasedStay
  <2>8. ListsCurrent'
    BY <2>1, <2>2, <2>3, <2>4 DEF BulkInv, ListsCurrent, Undisturbed
  <2> QED
    BY <2>5, <2>6, <2>7, <2>8 DEF BulkInv
<1>5. ASSUME NEW v \in Views, PageArrives(v) PROVE BulkInv'
  <2>1. /\ pageFetches[v].at = "read" /\ pages' = [pages EXCEPT ![v] = pageFetches[v].found]
        /\ pageFetches' = [pageFetches EXCEPT ![v] = NoPageFetch]
        /\ UNCHANGED <<storedRows, mode, filter, selectedRows, busy, bulks, erased, crossed, viewed,
                       ticked, sent, elsewhere, bulkFaults>>
    BY <1>5 DEF PageArrives
  <2>2. pageFetches[v].found \in Runs
    BY <1>0, <2>1, FetchesAre
  <2>3. /\ pages' \in [Views -> Runs] /\ pages'[v] = pageFetches[v].found
        /\ \A w \in Views \ {v} : pages'[w] = pages[w]
    BY <1>0, <2>1, <2>2
  <2>4. /\ pageFetches' \in [Views -> PageFetch] /\ pageFetches'[v].at = "none"
        /\ \A w \in Views \ {v} : pageFetches'[w] = pageFetches[w]
    BY <1>0, <2>1 DEF PageFetch, NoPageFetch
  <2>5. \A w \in Views \ {v} : AtRest(w)' => AtRest(w)
    BY <2>1, <2>4 DEF AtRest
  <2>6. BulkTyped'
    <3>1. BulkTypeOK'
      <4>1. \A w \in Views : pageFetches'[w].at \in {"none", "asked", "read"}
                          /\ (pageFetches'[w].at = "read" => pageFetches'[w].found \in Runs)
        BY <1>0, <2>4, FetchesAre
      <4> QED
        BY <2>1, <2>3, <4>1 DEF BulkInv, BulkTyped, BulkTypeOK
    <3> QED
      BY <1>0, <2>1, <2>4, <3>1 DEF BulkTyped
  <2>7. DoneWell'
    BY <2>1 DEF BulkInv, DoneWell, Undisturbed
  <2>8. ErasedStay'
    BY <2>1, <2>3, <2>4, <2>5 DEF BulkInv, ErasedStay
  <2>9. ListsCurrent'
    BY <2>1, <2>3, <2>4, <2>5 DEF BulkInv, ListsCurrent, Undisturbed
  <2> QED
    BY <2>6, <2>7, <2>8, <2>9 DEF BulkInv
<1>6. ASSUME NEW r \in Row, ChangeElsewhere(r) PROVE BulkInv'
  <2>1. /\ elsewhere' = elsewhere + 1 /\ elsewhere' \in 0..MaxElsewhere /\ elsewhere' # 0
        /\ UNCHANGED <<mode, filter, pages, pageFetches, selectedRows, busy, bulks, erased, crossed,
                       viewed, ticked, sent, bulkFaults>>
    BY <1>0, <1>6, BulkBounds DEF ChangeElsewhere
  <2>2. storedRows' \in Runs /\ DOMAIN storedRows' \subseteq DOMAIN storedRows
    <3>1. {r} \in SUBSET Row
      OBVIOUS
    <3>2. CASE storedRows' = Removed(storedRows, {r})
      <4>1. Removed(storedRows, {r}) \in Runs
            /\ DOMAIN Removed(storedRows, {r}) = DOMAIN storedRows \ {r}
        BY <1>0, RunsRemoved, ZenonT(30)
      <4> QED
        BY <3>2, <4>1
    <3>3. ASSUME NEW g \in Groups \ {storedRows[r]}, storedRows' = Regrouped(storedRows, {r}, g)
          PROVE  storedRows' \in Runs /\ DOMAIN storedRows' \subseteq DOMAIN storedRows
      BY <1>0, <3>1, <3>3, RunsRegrouped
    <3> QED
      BY <1>6, <3>2, <3>3 DEF ChangeElsewhere
  <2>3. BulkTyped'
    BY <1>0, <2>1, <2>2 DEF BulkTyped, BulkTypeOK
  <2>4. DoneWell'
    BY <2>1, <2>2 DEF BulkInv, DoneWell, Undisturbed
  <2>5. ErasedStay'
    BY <2>1, <2>2 DEF BulkInv, ErasedStay, AtRest
  <2>6. ListsCurrent'
    BY <2>1 DEF ListsCurrent, Undisturbed
  <2> QED
    BY <2>3, <2>4, <2>5, <2>6 DEF BulkInv
<1>7. ASSUME NEW kind \in {"delete", "group", "ungroup"}, NEW g \in Groups, StartBulk(kind, g)
      PROVE  BulkInv'
  <2> DEFINE new == [n |-> sent + 1, kind |-> kind, group |-> g, ids |-> selectedRows,
                     at |-> "asked", live |-> TRUE]
  <2>1. /\ sent < MaxBulks /\ sent' = sent + 1 /\ bulks' = bulks \cup {new} /\ busy' = kind
        /\ UNCHANGED <<storedRows, mode, filter, pages, pageFetches, selectedRows, erased, crossed,
                       viewed, ticked, elsewhere, bulkFaults>>
    BY <1>7 DEF StartBulk
  <2>2. sent' \in 0..MaxBulks /\ new \in BulkRec /\ new.n = sent + 1 /\ new.at = "asked"
    BY <1>0, <2>1, BulkBounds DEF BulkRec
  <2> HIDE DEF new
  <2>3. Numbered(bulks', sent')
    <3>1. \A b \in bulks : b.n \in Nat /\ b.n <= sent /\ b.n # new.n
      BY <1>0, <2>2 DEF Numbered, BulkRec
    <3>2. \A b \in bulks' : b.n <= sent'
      BY <1>0, <2>1, <2>2, <3>1
    <3>3. \A b, c \in bulks' : b.n = c.n => b = c
      BY <1>0, <2>1, <3>1 DEF Numbered
    <3> QED
      BY <3>2, <3>3 DEF Numbered
  <2>4. BulkTyped'
    <3>1. bulks' \subseteq BulkRec
      BY <1>0, <2>1, <2>2
    <3> QED
      BY <1>0, <2>1, <2>2, <2>3, <3>1 DEF BulkTyped, BulkTypeOK, BulkRec
  <2>5. /\ \A r : DeletedBy(bulks, r) => DeletedBy(bulks', r)
        /\ \A r : RegroupedBy(bulks, r) => RegroupedBy(bulks', r)
        /\ \A n, r : RegroupedBy({c \in bulks : c.n # n}, r) => RegroupedBy({c \in bulks' : c.n # n}, r)
    BY <2>1 DEF DeletedBy, RegroupedBy
  <2>6. DoneWell'
    <3>1. \A b \in bulks' : b.at = "done" => b \in bulks
      BY <2>1, <2>2
    <3>2. \A b \in bulks' : (b.at = "done" /\ b.kind = "delete") => b.ids \cap DOMAIN storedRows' = {}
      BY <2>1, <3>1 DEF BulkInv, DoneWell
    <3>3. Undisturbed' => Worked(storedRows', bulks')
      <4>1. ASSUME Undisturbed', NEW c \in bulks', c.at = "done"
            PROVE  /\ c.kind = "delete" => c.ids \cap DOMAIN storedRows = {}
                   /\ c.kind # "delete" => \A r \in c.ids \cap DOMAIN storedRows :
                         storedRows[r] = c.group \/ RegroupedBy({e \in bulks' : e.n # c.n}, r)
        <5>1. c \in bulks /\ Worked(storedRows, bulks)
          BY <2>1, <3>1, <4>1 DEF BulkInv, DoneWell, Undisturbed
        <5>2. /\ c.kind = "delete" => c.ids \cap DOMAIN storedRows = {}
              /\ c.kind # "delete" => \A r \in c.ids \cap DOMAIN storedRows :
                    storedRows[r] = c.group \/ RegroupedBy({e \in bulks : e.n # c.n}, r)
          BY <4>1, <5>1 DEF Worked
        <5>3. \A r : RegroupedBy({e \in bulks : e.n # c.n}, r) => RegroupedBy({e \in bulks' : e.n # c.n}, r)
          BY <2>5
        <5> QED
          BY <5>2, <5>3
      <4> QED
        BY <2>1, <4>1 DEF Worked
    <3> QED
      BY <3>2, <3>3 DEF DoneWell
  <2>7. ErasedStay'
    BY <2>1 DEF BulkInv, ErasedStay, AtRest
  <2>8. ListsCurrent'
    BY <2>1, <2>5 DEF BulkInv, ListsCurrent, Undisturbed, AtRest, RowShows
  <2> QED
    BY <2>4, <2>6, <2>7, <2>8 DEF BulkInv
<1>8. ASSUME NEW b \in bulks, ServeBulk(b) PROVE BulkInv'
  BY <1>0, <1>8, BulkServed
<1>9. ASSUME NEW b \in bulks, BulkBreaks(b) PROVE BulkInv'
  BY <1>0, <1>9, BulkBroken
<1>10. ASSUME NEW b \in bulks, BulkDone(b) PROVE BulkInv'
  BY <1>0, <1>10, BulkFinished
<1>11. ASSUME NEW b \in bulks, BulkAlert(b) PROVE BulkInv'
  BY <1>0, <1>11, BulkAlerted
<1>12. CASE UNCHANGED bulkVars
  BY <1>12 DEF bulkVars, BulkInv, BulkTyped, BulkTypeOK, DoneWell, ErasedStay, ListsCurrent, Undisturbed, AtRest
<1> QED
  BY <1>1, <1>2, <1>3, <1>4, <1>5, <1>6, <1>7, <1>8, <1>9, <1>10, <1>11, <1>12 DEF BulkNext

LEMMA BulkShown == BulkInv => BulkFits /\ BulkTypeOK
<1> SUFFICES ASSUME BulkInv, pageFetches[View] = NoPageFetch
             PROVE  BulkFits
  BY DEF BulkFits, BulkInv, BulkTyped
<1>1. View \in Views /\ AtRest(View) /\ storedRows \in Runs /\ pages[View] \in Runs
  BY ViewsActive DEF AtRest, BulkInv, BulkTyped, BulkTypeOK
<1>2. "rows" \notin crossed => erased \cap RowsListed = {}
  BY <1>1 DEF BulkInv, ErasedStay, RowsListed
<1>3. ASSUME bulks = {}, elsewhere = 0, crossed = {}
      PROVE  /\ \A r \in RowsListed : r \in DOMAIN storedRows /\ pages[View][r] = storedRows[r]
             /\ filter = "all" => pages[View] = storedRows
  <2>1. RowShows(pages[View], View, storedRows, {})
    BY <1>1, <1>3 DEF BulkInv, ListsCurrent, Undisturbed
  <2>2. \A r \in RowsListed : r \in DOMAIN storedRows /\ pages[View][r] = storedRows[r]
    BY <2>1 DEF RowShows, RowsListed, DeletedBy, RegroupedBy
  <2>3. ASSUME filter = "all" PROVE pages[View] = storedRows
    <3>1. View[2] = "all"
      BY <2>3 DEF View
    <3>2. DOMAIN pages[View] = DOMAIN storedRows
      BY <2>1, <2>2, <3>1 DEF RowShows, RowsListed
    <3>3. /\ pages[View] = [r \in DOMAIN pages[View] |-> pages[View][r]]
          /\ storedRows = [r \in DOMAIN storedRows |-> storedRows[r]]
      BY <1>1, RunsOver
    <3> QED
      BY <2>2, <3>2, <3>3 DEF RowsListed
  <2> QED
    BY <2>2, <2>3
<1> QED
  BY <1>2, <1>3 DEF BulkFits

\* BulkFits in every state, for any runs, groups and views: what was deleted does not come back
\* with an answer read before, and a list at rest has the stored groups (ExecutionList.tsx).
THEOREM BulkAlwaysFits == BulkSpec => [](BulkFits /\ BulkTypeOK)
BY BulkStart, BulkStep, BulkShown, PTL DEF BulkSpec

----------------------------------------------------------------------------
(**************************** The integrations ****************************)

JiraReads == {Unread, [at |-> "asked"]} \cup [at : {"read"}, jira : Made]
OrgReads == {Unread, [at |-> "asked"]}
            \cup [at : {"read"}, jira : Made, events : Made, webhook : Made, ci : SUBSET Ci]
JiraSaves(loads) == {NotSaving} \cup [at : {"asked", "done"}, jira : Made \ {0}, tab : 0..loads]
SlackSaves(loads) == {NotSaving} \cup [at : {"asked", "done"}, events : Made, seen : Made,
                                       webhook : Made, tab : 0..loads]
CiSavings(loads) == [ci : Ci, tab : 0..loads, at : {"asked", "done"}]

IntegrationsTyped ==
    /\ jiraStored \in Made /\ eventsStored \in Made /\ webhookStored \in Made
    /\ tabOpen \in BOOLEAN /\ configured \in BOOLEAN /\ connected \in BOOLEAN
    /\ jiraRead \in JiraReads /\ orgRead \in OrgReads
    /\ jiraTyped \in Made /\ notifyOn \in Made /\ eventsSeen \in Made /\ webhookTyped \in Made
    /\ jiraSave \in JiraSaves(tabLoads) /\ slackSave \in SlackSaves(tabLoads)
    /\ ciStored \subseteq Ci /\ ciShown \subseteq Ci /\ ciSaves \subseteq CiSavings(tabLoads)
    /\ vague \subseteq {"jira", "events"} \cup Ci /\ clobbered \in BOOLEAN
    /\ made \in Made /\ tabLoads \in 0..MaxTabLoads /\ tabFaults \in 0..MaxTabFaults
    /\ tabOpen \/ (jiraRead = Unread /\ orgRead = Unread /\ ~configured)

\* What the tab will show of Jira is what is stored, once a save it made is answered.
JiraFits ==
    /\ jiraSave.at = "done" => jiraStored # 0
    /\ "jira" \notin vague =>
          /\ jiraSave.at = "asked" => jiraSave.tab = tabLoads
          /\ jiraRead.at = "read" => (jiraRead.jira # 0 <=> jiraStored # 0)
          /\ orgRead.at = "read" => (orgRead.jira # 0 <=> jiraStored # 0)
          /\ configured => jiraStored # 0
          /\ (tabOpen /\ jiraRead = Unread /\ jiraStored # 0) =>
                 configured \/ (jiraSave.at = "done" /\ jiraSave.tab = tabLoads)

SavedHere == slackSave.at = "done" /\ slackSave.tab = tabLoads

\* The same of Slack, whose form replaces the events it has seen.
SlackFits ==
    /\ (slackSave.at # "none" /\ tabOpen /\ slackSave.tab = tabLoads) => orgRead = Unread
    /\ clobbered => "events" \in vague
    /\ "events" \notin vague =>
          /\ slackSave.at = "asked" => slackSave.tab = tabLoads /\ slackSave.seen = eventsStored
          /\ orgRead.at = "read" => /\ orgRead.events = eventsStored
                                    /\ orgRead.webhook # 0 <=> webhookStored # 0
          /\ (tabOpen /\ orgRead = Unread) =>
                IF SavedHere
                THEN /\ slackSave.events = eventsStored
                     /\ connected \/ slackSave.webhook # 0 <=> webhookStored # 0
                ELSE eventsSeen = eventsStored /\ (connected <=> webhookStored # 0)

SavedOf(c) == \E save \in ciSaves : save.ci = c /\ save.at = "done" /\ save.tab = tabLoads

\* The same of a CI provider.
CiFit(c) ==
    /\ \A save \in ciSaves : save.ci = c /\ save.at = "asked" => save.tab = tabLoads
    /\ orgRead.at = "read" => (c \in orgRead.ci <=> c \in ciStored)
    /\ (tabOpen /\ orgRead = Unread) => (c \in ciShown \/ SavedOf(c) <=> c \in ciStored)
    /\ (tabOpen /\ SavedOf(c)) => c \in ciStored

CiFits == \A c \in Ci \ vague : CiFit(c)

IntegrationsInv == IntegrationsTyped /\ JiraFits /\ SlackFits /\ CiFits

LEMMA IntegrationsBounds == MaxMade \in Nat /\ MaxTabLoads \in Nat /\ MaxTabFaults \in Nat
BY IntegrationsAssumption

LEMMA IntegrationsStart == IntegrationsInit => IntegrationsInv
<1> USE IntegrationsBounds
<1> SUFFICES ASSUME IntegrationsInit PROVE IntegrationsInv
  OBVIOUS
<1>1. 0 \in Made /\ Unread.at = "none" /\ NotSaving.at = "none"
  BY DEF Made, Unread, NotSaving
<1>2. IntegrationsTyped
  <2>1. /\ Unread \in JiraReads /\ Unread \in OrgReads
        /\ NotSaving \in JiraSaves(0) /\ NotSaving \in SlackSaves(0)
    BY DEF JiraReads, OrgReads, JiraSaves, SlackSaves
  <2>2. /\ jiraStored = 0 /\ eventsStored = 0 /\ webhookStored = 0 /\ tabOpen = FALSE
        /\ jiraRead = Unread /\ orgRead = Unread /\ configured = FALSE /\ jiraTyped = 0
        /\ notifyOn = 0 /\ eventsSeen = 0 /\ webhookTyped = 0 /\ connected = FALSE
        /\ jiraSave = NotSaving /\ slackSave = NotSaving /\ vague = {}
        /\ ciStored = {} /\ ciShown = {} /\ ciSaves = {}
        /\ clobbered = FALSE /\ made = 0 /\ tabLoads = 0 /\ tabFaults = 0
    BY DEF IntegrationsInit
  <2> QED
    <3>1. /\ tabOpen \in BOOLEAN /\ configured \in BOOLEAN /\ connected \in BOOLEAN
          /\ clobbered \in BOOLEAN /\ vague \subseteq {"jira", "events"} \cup Ci
          /\ ciStored \subseteq Ci /\ ciShown \subseteq Ci /\ ciSaves \subseteq CiSavings(tabLoads)
          /\ tabOpen \/ (jiraRead = Unread /\ orgRead = Unread /\ ~configured)
      BY <2>2
    <3>2. tabLoads \in 0..MaxTabLoads /\ tabFaults \in 0..MaxTabFaults
      BY <2>2
    <3>3. jiraSave \in JiraSaves(tabLoads) /\ slackSave \in SlackSaves(tabLoads)
      BY <2>1, <2>2
    <3> QED
      BY <1>1, <2>1, <2>2, <3>1, <3>2, <3>3 DEF IntegrationsTyped
<1>3. JiraFits /\ SlackFits /\ CiFits
  BY <1>1 DEF IntegrationsInit, JiraFits, SlackFits, CiFits, CiFit, SavedOf
<1> QED
  BY <1>2, <1>3 DEF IntegrationsInv

LEMMA Making == IntegrationsTyped /\ Make => made' \in Made /\ made' # 0
BY IntegrationsBounds DEF IntegrationsTyped, Make, Made

LEMMA IntegrationsTypes ==
  IntegrationsTyped /\ [IntegrationsNext]_integrationsVars => IntegrationsTyped'
<1> USE IntegrationsBounds
<1> SUFFICES ASSUME IntegrationsTyped, [IntegrationsNext]_integrationsVars
             PROVE  IntegrationsTyped'
  OBVIOUS
<1> USE DEF IntegrationsTyped, storedVars, jiraPart, slackPart, ciPart, boundVars
<1>0. TabFault => tabFaults' \in 0..MaxTabFaults
  BY DEF TabFault
<1>1. 0 \in Made /\ Unread \in JiraReads /\ Unread \in OrgReads
      /\ [at |-> "asked"] \in JiraReads /\ [at |-> "asked"] \in OrgReads
  BY DEF Made, JiraReads, OrgReads
<1>2. CASE OpenIntegrations
  <2>1. jiraSave \in JiraSaves(tabLoads') /\ slackSave \in SlackSaves(tabLoads')
        /\ tabLoads' \in 0..MaxTabLoads /\ ciSaves \subseteq CiSavings(tabLoads')
    <3>1. tabLoads' = tabLoads + 1 /\ tabLoads < MaxTabLoads
      BY <1>2 DEF OpenIntegrations
    <3> QED
      BY <3>1 DEF JiraSaves, SlackSaves, CiSavings
  <2>2. vague' \subseteq {"jira", "events"} \cup Ci
    <3>1. {save.ci : save \in {s \in ciSaves : s.at = "asked"}} \subseteq Ci
      BY DEF CiSavings
    <3> QED
      BY <1>2, <3>1 DEF OpenIntegrations
  <2> QED
    BY <1>1, <1>2, <2>1, <2>2 DEF OpenIntegrations
<1>3. CASE CloseIntegrations
  BY <1>1, <1>3 DEF CloseIntegrations, Blank
<1>4. CASE ServeJira
  <2>1. jiraRead' \in JiraReads /\ tabOpen
    BY <1>4 DEF ServeJira, JiraReads, Unread
  <2> QED
    BY <1>4, <2>1 DEF ServeJira
<1>5. CASE JiraArrives
  <2>1. configured' \in BOOLEAN /\ tabOpen
    BY <1>5 DEF JiraArrives, Unread
  <2> QED
    BY <1>1, <1>5, <2>1 DEF JiraArrives
<1>6. CASE JiraReadFails
  <2>1. tabOpen
    BY <1>6 DEF JiraReadFails, Unread
  <2> QED
    BY <1>0, <1>1, <1>6, <2>1 DEF JiraReadFails
<1>7. CASE ServeOrganization
  <2>1. orgRead' \in OrgReads /\ tabOpen
    BY <1>7 DEF ServeOrganization, OrgReads, Unread
  <2> QED
    BY <1>7, <2>1 DEF ServeOrganization
<1>8. CASE OrganizationArrives
  <2>1. tabOpen /\ orgRead.events \in Made /\ orgRead.ci \subseteq Ci
    BY <1>8 DEF OrganizationArrives, OrgReads, Unread
  <2>2. configured' \in BOOLEAN /\ connected' \in BOOLEAN
    BY <1>8 DEF OrganizationArrives
  <2> QED
    BY <1>1, <1>8, <2>1, <2>2 DEF OrganizationArrives
<1>9. CASE OrganizationFails
  <2>1. tabOpen
    BY <1>9 DEF OrganizationFails, Unread
  <2> QED
    BY <1>0, <1>1, <1>9, <2>1 DEF OrganizationFails
<1>10. CASE TypeJira
  BY <1>10, Making DEF TypeJira
<1>11. CASE SaveJira
  <2>1. jiraSave' \in JiraSaves(tabLoads)
    BY <1>11 DEF SaveJira, JiraSaves
  <2> QED
    BY <1>11, <2>1 DEF SaveJira
<1>12. CASE StoreJira
  <2>1. jiraSave \in [at : {"asked", "done"}, jira : Made \ {0}, tab : 0..tabLoads]
    BY <1>12 DEF StoreJira, JiraSaves, NotSaving
  <2>2. jiraSave' \in JiraSaves(tabLoads) /\ jiraStored' \in Made
    BY <1>12, <2>1 DEF StoreJira, JiraSaves
  <2>3. vague' \subseteq {"jira", "events"} \cup Ci
    BY <1>12 DEF StoreJira
  <2> QED
    BY <1>12, <2>2, <2>3 DEF StoreJira
<1>13. CASE JiraSaved
  <2>1. jiraSave' \in JiraSaves(tabLoads) /\ jiraTyped' \in Made /\ configured' \in BOOLEAN
    BY <1>1, <1>13 DEF JiraSaved, JiraSaves
  <2>2. tabOpen \/ ~configured'
    BY <1>13 DEF JiraSaved, Here
  <2> QED
    BY <1>13, <2>1, <2>2 DEF JiraSaved
<1>14. CASE JiraSaveFails
  <2>1. jiraSave' \in JiraSaves(tabLoads) /\ vague' \subseteq {"jira", "events"} \cup Ci
    BY <1>14 DEF JiraSaveFails, JiraSaves
  <2> QED
    BY <1>0, <1>14, <2>1 DEF JiraSaveFails
<1>15. CASE ChooseEvents
  BY <1>15, Making DEF ChooseEvents
<1>16. CASE TypeWebhook
  BY <1>16, Making DEF TypeWebhook
<1>17. CASE SaveSlack
  <2>1. slackSave' \in SlackSaves(tabLoads)
    BY <1>17 DEF SaveSlack, SlackSaves
  <2> QED
    BY <1>17, <2>1 DEF SaveSlack
<1>18. CASE StoreSlack
  <2>1. slackSave \in [at : {"asked", "done"}, events : Made, seen : Made, webhook : Made,
                       tab : 0..tabLoads]
    BY <1>18 DEF StoreSlack, SlackSaves, NotSaving
  <2>2. slackSave' \in SlackSaves(tabLoads) /\ eventsStored' \in Made /\ webhookStored' \in Made
    BY <1>18, <2>1 DEF StoreSlack, SlackSaves
  <2>3. vague' \subseteq {"jira", "events"} \cup Ci /\ clobbered' \in BOOLEAN
    BY <1>18 DEF StoreSlack
  <2> QED
    BY <1>18, <2>2, <2>3 DEF StoreSlack
<1>19. CASE SlackSaved
  <2>1. slackSave \in [at : {"asked", "done"}, events : Made, seen : Made, webhook : Made,
                       tab : 0..tabLoads]
    BY <1>19 DEF SlackSaved, SlackSaves, NotSaving
  <2>2. webhookTyped' \in Made /\ connected' \in BOOLEAN /\ eventsSeen' \in Made /\ notifyOn' \in Made
    BY <1>1, <1>19, <2>1 DEF SlackSaved
  <2>3. slackSave' \in SlackSaves(tabLoads)
    BY <1>19 DEF SlackSaved, SlackSaves
  <2> QED
    BY <1>19, <2>2, <2>3 DEF SlackSaved
<1>20. CASE SlackSaveFails
  <2>1. slackSave' \in SlackSaves(tabLoads) /\ vague' \subseteq {"jira", "events"} \cup Ci
    BY <1>20 DEF SlackSaveFails, SlackSaves
  <2> QED
    BY <1>0, <1>20, <2>1 DEF SlackSaveFails
<1>21. CASE SaveElsewhereToo
  BY <1>21, Making DEF SaveElsewhereToo
<1>22. ASSUME NEW c \in Ci, SaveCi(c) PROVE IntegrationsTyped'
  <2>1. CiToken(c, "asked") \in CiSavings(tabLoads)
    BY DEF CiToken, CiSavings
  <2> QED
    BY <1>22, <2>1 DEF SaveCi
<1>23. ASSUME NEW save \in ciSaves, StoreCi(save) \/ CiSaved(save) \/ CiSaveFails(save)
       PROVE  IntegrationsTyped'
  <2>1. save \in CiSavings(tabLoads)
    OBVIOUS
  <2>2. save.ci \in Ci /\ [save EXCEPT !.at = "done"] \in CiSavings(tabLoads)
    BY <2>1 DEF CiSavings
  <2>3. CASE StoreCi(save)
    BY <2>2, <2>3 DEF StoreCi
  <2>4. CASE CiSaved(save)
    BY <2>2, <2>4 DEF CiSaved
  <2>5. CASE CiSaveFails(save)
    BY <1>0, <2>2, <2>5 DEF CiSaveFails
  <2> QED
    BY <1>23, <2>3, <2>4, <2>5
<1>24. CASE UNCHANGED integrationsVars
  BY <1>24 DEF integrationsVars
<1> QED
  BY <1>2, <1>3, <1>4, <1>5, <1>6, <1>7, <1>8, <1>9, <1>10, <1>11, <1>12, <1>13, <1>14,
     <1>15, <1>16, <1>17, <1>18, <1>19, <1>20, <1>21, <1>22, <1>23, <1>24 DEF IntegrationsNext

LEMMA JiraStaysFit ==
  IntegrationsTyped /\ JiraFits /\ [IntegrationsNext]_integrationsVars => JiraFits'
<1> SUFFICES ASSUME IntegrationsTyped, JiraFits, [IntegrationsNext]_integrationsVars
             PROVE  JiraFits'
  OBVIOUS
<1> USE DEF storedVars, jiraPart, slackPart, ciPart, boundVars
<1>0. Unread.at = "none" /\ NotSaving.at = "none"
  BY DEF Unread, NotSaving
<1>1. ASSUME UNCHANGED <<jiraStored, tabOpen, jiraRead, orgRead, configured, jiraSave, tabLoads>>,
             vague \subseteq vague' \/ ("jira" \in vague' <=> "jira" \in vague)
      PROVE  JiraFits'
  BY <1>1 DEF JiraFits
<1>2. CASE OpenIntegrations
  <2>1. /\ ~tabOpen /\ tabOpen' = TRUE /\ jiraRead' = [at |-> "asked"] /\ orgRead' = [at |-> "asked"]
        /\ UNCHANGED <<jiraStored, configured, jiraSave>>
        /\ jiraSave.at = "asked" => "jira" \in vague'
    BY <1>2 DEF OpenIntegrations
  <2>2. ~configured /\ [at |-> "asked"] # Unread
    BY <1>0, <2>1 DEF IntegrationsTyped
  <2>3. jiraRead'.at = "asked" /\ orgRead'.at = "asked" /\ jiraRead' # Unread
    BY <2>1, <2>2
  <2> QED
    BY <2>1, <2>2, <2>3 DEF JiraFits
<1>3. CASE CloseIntegrations
  BY <1>0, <1>3 DEF CloseIntegrations, Blank, JiraFits
<1>4. CASE ServeJira
  <2>1. jiraRead'.at = "read" /\ jiraRead'.jira = jiraStored /\ jiraRead' # Unread
    BY <1>0, <1>4 DEF ServeJira
  <2>2. UNCHANGED <<jiraStored, tabOpen, orgRead, configured, jiraSave, tabLoads, vague>>
    BY <1>4 DEF ServeJira
  <2> QED
    BY <2>1, <2>2 DEF JiraFits
<1>5. CASE JiraArrives
  <2>1. /\ jiraRead.at = "read" /\ jiraRead' = Unread
        /\ (configured' <=> configured \/ jiraRead.jira # 0)
        /\ UNCHANGED <<jiraStored, tabOpen, orgRead, jiraSave, tabLoads, vague>>
    BY <1>5 DEF JiraArrives
  <2> QED
    BY <1>0, <2>1 DEF JiraFits
<1>6. CASE JiraReadFails
  BY <1>6 DEF JiraReadFails, JiraFits
<1>7. CASE ServeOrganization
  <2>1. orgRead'.at = "read" /\ orgRead'.jira = jiraStored
    BY <1>7 DEF ServeOrganization
  <2>2. UNCHANGED <<jiraStored, tabOpen, jiraRead, configured, jiraSave, tabLoads, vague>>
    BY <1>7 DEF ServeOrganization
  <2> QED
    BY <2>1, <2>2 DEF JiraFits
<1>8. CASE OrganizationArrives
  <2>1. /\ orgRead.at = "read" /\ orgRead' = Unread /\ (configured' <=> orgRead.jira # 0)
        /\ UNCHANGED <<jiraStored, tabOpen, jiraRead, jiraSave, tabLoads, vague>>
    BY <1>8 DEF OrganizationArrives
  <2> QED
    BY <1>0, <2>1 DEF JiraFits
<1>9. CASE OrganizationFails
  <2>1. /\ orgRead' = Unread /\ vague \subseteq vague'
        /\ UNCHANGED <<jiraStored, tabOpen, jiraRead, configured, jiraSave, tabLoads>>
    BY <1>9 DEF OrganizationFails
  <2> QED
    BY <1>0, <2>1 DEF JiraFits
<1>10. CASE TypeJira
  BY <1>1, <1>10 DEF TypeJira
<1>11. CASE SaveJira
  <2>1. jiraSave.at = "none" /\ jiraSave'.at = "asked" /\ jiraSave'.tab = tabLoads
        /\ UNCHANGED <<jiraStored, tabOpen, jiraRead, orgRead, configured, tabLoads, vague>>
    BY <1>11 DEF SaveJira
  <2> QED
    BY <2>1 DEF JiraFits
<1>12. CASE StoreJira
  <2>1. jiraSave \in [at : {"asked", "done"}, jira : Made \ {0}, tab : 0..tabLoads]
    BY <1>12 DEF StoreJira, JiraSaves, NotSaving, IntegrationsTyped
  <2>2. /\ jiraSave.at = "asked" /\ jiraSave'.at = "done" /\ jiraSave'.tab = jiraSave.tab
        /\ jiraStored' # 0
        /\ UNCHANGED <<tabOpen, jiraRead, orgRead, configured, tabLoads>>
    BY <1>12, <2>1 DEF StoreJira
  <2>3. "jira" \notin vague' => /\ "jira" \notin vague /\ orgRead.at # "read" /\ jiraRead.at # "read"
    BY <1>12 DEF StoreJira
  <2> QED
    BY <2>2, <2>3 DEF JiraFits
<1>13. CASE JiraSaved
  <2>1. /\ jiraSave.at = "done" /\ jiraSave'.at = "none"
        /\ UNCHANGED <<jiraStored, tabOpen, jiraRead, orgRead, tabLoads, vague>>
        /\ configured' = TRUE \/ configured' = configured
        /\ (tabOpen /\ jiraSave.tab = tabLoads) => configured' = TRUE
    BY <1>0, <1>13 DEF JiraSaved, Here
  <2> QED
    BY <2>1 DEF JiraFits
<1>14. CASE JiraSaveFails
  <2>1. /\ jiraSave'.at = "none" /\ jiraSave.at # "none"
        /\ UNCHANGED <<jiraStored, tabOpen, jiraRead, orgRead, configured, tabLoads>>
        /\ "jira" \notin vague' => "jira" \notin vague /\ jiraSave.at # "done"
    BY <1>0, <1>14 DEF JiraSaveFails
  <2> QED
    BY <2>1 DEF JiraFits
<1>15. CASE ChooseEvents \/ TypeWebhook \/ SaveSlack
  BY <1>1, <1>15 DEF ChooseEvents, TypeWebhook, SaveSlack
<1>16. CASE StoreSlack
  BY <1>1, <1>16 DEF StoreSlack
<1>17. CASE SlackSaved
  BY <1>1, <1>17 DEF SlackSaved
<1>18. CASE SlackSaveFails
  BY <1>1, <1>18 DEF SlackSaveFails
<1>19. CASE SaveElsewhereToo
  <2>1. CASE jiraStored' = made' /\ vague' = vague \cup {"jira"}
    <3>1. jiraStored' # 0
      BY <1>19, <2>1, Making DEF SaveElsewhereToo
    <3> QED
      BY <1>19, <2>1, <3>1 DEF SaveElsewhereToo, JiraFits
  <2>2. CASE UNCHANGED jiraStored /\ vague \subseteq vague'
    BY <1>1, <1>19, <2>2 DEF SaveElsewhereToo
  <2> QED
    BY <1>19, <2>1, <2>2 DEF SaveElsewhereToo
<1>20. ASSUME NEW c \in Ci, SaveCi(c) PROVE JiraFits'
  BY <1>1, <1>20 DEF SaveCi
<1>21. ASSUME NEW save \in ciSaves, StoreCi(save) \/ CiSaved(save) \/ CiSaveFails(save)
       PROVE  JiraFits'
  BY <1>1, <1>21 DEF StoreCi, CiSaved, CiSaveFails
<1>22. CASE UNCHANGED integrationsVars
  BY <1>1, <1>22 DEF integrationsVars
<1> QED
  BY <1>2, <1>3, <1>4, <1>5, <1>6, <1>7, <1>8, <1>9, <1>10, <1>11, <1>12, <1>13, <1>14,
     <1>15, <1>16, <1>17, <1>18, <1>19, <1>20, <1>21, <1>22 DEF IntegrationsNext

LEMMA SlackStaysFit ==
  IntegrationsTyped /\ SlackFits /\ [IntegrationsNext]_integrationsVars => SlackFits'
<1> SUFFICES ASSUME IntegrationsTyped, SlackFits, [IntegrationsNext]_integrationsVars
             PROVE  SlackFits'
  OBVIOUS
<1> USE DEF storedVars, jiraPart, slackPart, ciPart, boundVars, SavedHere
<1>0. Unread.at = "none" /\ NotSaving.at = "none"
  BY DEF Unread, NotSaving
<1>1. ASSUME UNCHANGED <<eventsStored, webhookStored, tabOpen, orgRead, eventsSeen, connected,
                         slackSave, clobbered, tabLoads>>,
             vague \subseteq vague'
      PROVE  SlackFits'
  BY <1>1 DEF SlackFits
<1>2. CASE OpenIntegrations
  <2>1. /\ ~tabOpen /\ orgRead' = [at |-> "asked"] /\ tabLoads' = tabLoads + 1
        /\ UNCHANGED <<eventsStored, webhookStored, slackSave>> /\ clobbered' = FALSE
        /\ slackSave.at = "asked" => "events" \in vague'
    BY <1>2 DEF OpenIntegrations
  <2>2. slackSave.at # "none" => slackSave.tab # tabLoads'
    <3>1. slackSave.at # "none" => slackSave.tab \in 0..tabLoads /\ tabLoads \in Nat
      BY <1>0, IntegrationsBounds DEF IntegrationsTyped, SlackSaves
    <3> QED
      BY <2>1, <3>1
  <2>3. orgRead'.at = "asked" /\ orgRead' # Unread
    BY <1>0, <2>1
  <2> QED
    BY <2>1, <2>2, <2>3 DEF SlackFits
<1>3. CASE CloseIntegrations
  BY <1>0, <1>3 DEF CloseIntegrations, Blank, SlackFits
<1>4. CASE ServeJira \/ JiraArrives \/ JiraReadFails
  BY <1>1, <1>4 DEF ServeJira, JiraArrives, JiraReadFails
<1>5. CASE ServeOrganization
  <2>1. orgRead'.at = "read" /\ orgRead'.events = eventsStored /\ orgRead'.webhook = webhookStored
        /\ orgRead.at = "asked" /\ orgRead # Unread /\ orgRead' # Unread
    BY <1>0, <1>5 DEF ServeOrganization
  <2>2. UNCHANGED <<eventsStored, webhookStored, tabOpen, eventsSeen, connected, slackSave,
                    clobbered, tabLoads, vague>>
    BY <1>5 DEF ServeOrganization
  <2> QED
    BY <2>1, <2>2 DEF SlackFits
<1>6. CASE OrganizationArrives
  <2>1. /\ orgRead.at = "read" /\ orgRead' = Unread /\ eventsSeen' = orgRead.events
        /\ (connected' <=> orgRead.webhook # 0)
        /\ UNCHANGED <<eventsStored, webhookStored, tabOpen, slackSave, clobbered, tabLoads, vague>>
    BY <1>6 DEF OrganizationArrives
  <2>2. tabOpen => ~SavedHere
    BY <1>0, <2>1 DEF SlackFits
  <2> QED
    BY <1>0, <2>1, <2>2 DEF SlackFits
<1>7. CASE OrganizationFails
  BY <1>0, <1>7 DEF OrganizationFails, SlackFits
<1>8. CASE TypeJira \/ SaveJira \/ StoreJira \/ JiraSaved \/ JiraSaveFails
  <2>1. CASE TypeJira \/ SaveJira
    BY <1>1, <2>1 DEF TypeJira, SaveJira
  <2>2. CASE StoreJira
    BY <1>1, <2>2 DEF StoreJira
  <2>3. CASE JiraSaved
    BY <1>1, <2>3 DEF JiraSaved
  <2>4. CASE JiraSaveFails
    BY <1>1, <2>4 DEF JiraSaveFails
  <2> QED
    BY <1>8, <2>1, <2>2, <2>3, <2>4
<1>9. CASE ChooseEvents \/ TypeWebhook
  BY <1>1, <1>9 DEF ChooseEvents, TypeWebhook
<1>10. CASE SaveSlack
  <2>1. /\ slackSave.at = "none" /\ slackSave'.at = "asked" /\ slackSave'.tab = tabLoads
        /\ slackSave'.seen = eventsSeen /\ tabOpen /\ orgRead = Unread
        /\ UNCHANGED <<eventsStored, webhookStored, tabOpen, orgRead, eventsSeen, connected,
                       clobbered, tabLoads, vague>>
    BY <1>10 DEF SaveSlack, SlackShown, TabShown
  <2> QED
    BY <1>0, <2>1 DEF SlackFits
<1>11. CASE StoreSlack
  <2>1. slackSave \in [at : {"asked", "done"}, events : Made, seen : Made, webhook : Made,
                       tab : 0..tabLoads]
    BY <1>11 DEF StoreSlack, SlackSaves, NotSaving, IntegrationsTyped
  <2>2. /\ slackSave.at = "asked" /\ slackSave'.at = "done" /\ slackSave'.tab = slackSave.tab
        /\ slackSave'.events = slackSave.events /\ slackSave'.webhook = slackSave.webhook
        /\ eventsStored' = slackSave.events
        /\ webhookStored' = IF slackSave.webhook = 0 THEN webhookStored ELSE slackSave.webhook
        /\ clobbered' = (clobbered \/ eventsStored # slackSave.seen)
        /\ UNCHANGED <<tabOpen, orgRead, eventsSeen, connected, tabLoads>>
    BY <1>11, <2>1 DEF StoreSlack
  <2>3. vague \subseteq vague' /\ ("events" \notin vague' => orgRead.at # "read")
    BY <1>11 DEF StoreSlack
  <2>4. clobbered' => "events" \in vague'
    BY <2>2, <2>3 DEF SlackFits
  <2>5. ASSUME "events" \notin vague', tabOpen, orgRead = Unread
        PROVE  connected \/ slackSave.webhook # 0 <=> webhookStored' # 0
    <3>1. connected <=> webhookStored # 0
      BY <2>2, <2>3, <2>5 DEF SlackFits
    <3>2. CASE slackSave.webhook = 0
      BY <2>2, <3>1, <3>2
    <3>3. CASE slackSave.webhook # 0
      BY <2>2, <3>3
    <3> QED
      BY <3>2, <3>3
  <2>6. "events" \notin vague' => slackSave.tab = tabLoads
    BY <2>2, <2>3 DEF SlackFits
  <2> QED
    BY <2>2, <2>3, <2>4, <2>5, <2>6 DEF SlackFits
<1>12. CASE SlackSaved
  <2>1. /\ slackSave.at = "done" /\ slackSave'.at = "none"
        /\ UNCHANGED <<eventsStored, webhookStored, tabOpen, orgRead, clobbered, tabLoads, vague>>
    BY <1>0, <1>12 DEF SlackSaved
  <2>2. CASE Here(slackSave)
    <3>1. eventsSeen' = slackSave.events /\ connected' = (connected \/ slackSave.webhook # 0)
          /\ SavedHere
      BY <1>12, <2>2 DEF SlackSaved, Here
    <3> QED
      BY <2>1, <3>1 DEF SlackFits
  <2>3. CASE ~Here(slackSave)
    <3>1. UNCHANGED <<eventsSeen, connected>> /\ ~(tabOpen /\ SavedHere)
      BY <1>12, <2>3 DEF SlackSaved, Here
    <3> QED
      BY <2>1, <3>1 DEF SlackFits
  <2> QED
    BY <2>2, <2>3
<1>13. CASE SlackSaveFails
  <2>1. /\ slackSave'.at = "none"
        /\ UNCHANGED <<eventsStored, webhookStored, tabOpen, orgRead, eventsSeen, connected,
                       clobbered, tabLoads>>
        /\ vague \subseteq vague' /\ ("events" \notin vague' => slackSave.at # "done")
    BY <1>0, <1>13 DEF SlackSaveFails
  <2> QED
    BY <2>1 DEF SlackFits
<1>14. CASE SaveElsewhereToo
  <2>1. CASE vague' = vague \cup {"events"}
    BY <1>14, <2>1 DEF SaveElsewhereToo, SlackFits
  <2>2. CASE UNCHANGED eventsStored /\ vague \subseteq vague'
    BY <1>1, <1>14, <2>2 DEF SaveElsewhereToo
  <2> QED
    BY <1>14, <2>1, <2>2 DEF SaveElsewhereToo
<1>15. ASSUME NEW c \in Ci, SaveCi(c) PROVE SlackFits'
  BY <1>1, <1>15 DEF SaveCi
<1>16. ASSUME NEW save \in ciSaves, StoreCi(save) \/ CiSaved(save) \/ CiSaveFails(save)
       PROVE  SlackFits'
  BY <1>1, <1>16 DEF StoreCi, CiSaved, CiSaveFails
<1>17. CASE UNCHANGED integrationsVars
  BY <1>1, <1>17 DEF integrationsVars
<1> QED
  BY <1>2, <1>3, <1>4, <1>5, <1>6, <1>7, <1>8, <1>9, <1>10, <1>11, <1>12, <1>13, <1>14,
     <1>15, <1>16, <1>17 DEF IntegrationsNext

LEMMA CiStaysFit ==
  IntegrationsTyped /\ CiFits /\ [IntegrationsNext]_integrationsVars => CiFits'
<1> SUFFICES ASSUME IntegrationsTyped, CiFits, [IntegrationsNext]_integrationsVars,
                    NEW c \in Ci, c \notin vague'
             PROVE  CiFit(c)'
  BY DEF CiFits
<1> USE DEF storedVars, jiraPart, slackPart, ciPart, boundVars
<1>0. Unread.at = "none"
  BY DEF Unread
<1>1. c \notin vague => CiFit(c)
  BY DEF CiFits
<1>2. ASSUME UNCHANGED <<tabOpen, orgRead, ciShown, ciSaves, tabLoads>>, c \notin vague,
             c \in ciStored' <=> c \in ciStored
      PROVE  CiFit(c)'
  BY <1>1, <1>2 DEF CiFit, SavedOf
<1>3. CASE OpenIntegrations
  <2>1. /\ orgRead'.at = "asked" /\ orgRead' # Unread /\ tabLoads' = tabLoads + 1
        /\ ciSaves' = ciSaves
        /\ c \notin {save.ci : save \in {s \in ciSaves : s.at = "asked"}}
    BY <1>0, <1>3 DEF OpenIntegrations
  <2>2. ASSUME NEW save \in ciSaves PROVE save.tab # tabLoads'
    <3>1. save.tab \in 0..tabLoads /\ tabLoads \in Nat
      BY IntegrationsBounds DEF IntegrationsTyped, CiSavings
    <3> QED
      BY <2>1, <3>1
  <2> QED
    BY <2>1, <2>2 DEF CiFit, SavedOf
<1>4. CASE CloseIntegrations
  <2>1. /\ ~tabOpen' /\ orgRead' = Unread /\ c \notin vague
        /\ UNCHANGED <<ciStored, ciSaves, tabLoads>>
    BY <1>4 DEF CloseIntegrations
  <2> QED
    BY <1>0, <1>1, <2>1 DEF CiFit
<1>5. CASE ServeJira \/ JiraArrives \/ JiraReadFails
  BY <1>2, <1>5 DEF ServeJira, JiraArrives, JiraReadFails
<1>6. CASE ServeOrganization
  <2>1. /\ orgRead'.ci = ciStored /\ orgRead' # Unread /\ c \notin vague
        /\ UNCHANGED <<ciStored, tabOpen, ciSaves, tabLoads>>
    BY <1>0, <1>6 DEF ServeOrganization
  <2> QED
    BY <1>1, <2>1 DEF CiFit, SavedOf
<1>7. CASE OrganizationArrives
  <2>1. /\ orgRead.at = "read" /\ orgRead' = Unread /\ ciShown' = orgRead.ci /\ c \notin vague
        /\ UNCHANGED <<ciStored, tabOpen, ciSaves, tabLoads>>
    BY <1>7 DEF OrganizationArrives
  <2> QED
    BY <1>0, <1>1, <2>1 DEF CiFit, SavedOf
<1>8. CASE OrganizationFails
  BY <1>8 DEF OrganizationFails
<1>9. CASE TypeJira \/ SaveJira \/ StoreJira
  <2>1. CASE TypeJira \/ SaveJira
    BY <1>2, <2>1 DEF TypeJira, SaveJira
  <2>2. CASE StoreJira
    BY <1>2, <2>2 DEF StoreJira
  <2> QED
    BY <1>9, <2>1, <2>2
<1>10. CASE JiraSaved
  BY <1>2, <1>10 DEF JiraSaved
<1>11. CASE JiraSaveFails
  BY <1>2, <1>11 DEF JiraSaveFails
<1>12. CASE ChooseEvents \/ TypeWebhook \/ SaveSlack
  BY <1>2, <1>12 DEF ChooseEvents, TypeWebhook, SaveSlack
<1>13. CASE StoreSlack
  BY <1>2, <1>13 DEF StoreSlack
<1>14. CASE SlackSaved
  BY <1>2, <1>14 DEF SlackSaved
<1>15. CASE SlackSaveFails
  BY <1>2, <1>15 DEF SlackSaveFails
<1>16. CASE SaveElsewhereToo
  <2>1. UNCHANGED <<tabOpen, orgRead, ciShown, ciSaves, tabLoads>>
    BY <1>16 DEF SaveElsewhereToo
  <2>2. CASE vague \subseteq vague' /\ UNCHANGED ciStored
    BY <1>2, <2>1, <2>2
  <2>3. ASSUME NEW d \in Ci, vague' = vague \cup {d},
               ciStored' \in {ciStored \cup {d}, ciStored \ {d}}
        PROVE  CiFit(c)'
    BY <1>2, <2>1, <2>3
  <2> QED
    BY <1>16, <2>2, <2>3 DEF SaveElsewhereToo
<1>17. ASSUME NEW d \in Ci, SaveCi(d) PROVE CiFit(c)'
  <2>1. /\ ciSaves' = ciSaves \cup {CiToken(d, "asked")} /\ c \notin vague
        /\ UNCHANGED <<ciStored, tabOpen, orgRead, ciShown, tabLoads>>
    BY <1>17 DEF SaveCi
  <2>2. CiToken(d, "asked").tab = tabLoads /\ CiToken(d, "asked").at = "asked"
    BY DEF CiToken
  <2>3. SavedOf(c)' <=> SavedOf(c)
    BY <2>1, <2>2 DEF SavedOf
  <2> QED
    BY <1>1, <2>1, <2>2, <2>3 DEF CiFit
<1>18. ASSUME NEW save \in ciSaves, StoreCi(save) PROVE CiFit(c)'
  <2> DEFINE nowDone == [save EXCEPT !.at = "done"]
  <2>1. nowDone.ci = save.ci /\ nowDone.tab = save.tab /\ nowDone.at = "done"
    BY DEF IntegrationsTyped, CiSavings
  <2>2. /\ save.at = "asked" /\ ciSaves' = (ciSaves \ {save}) \cup {nowDone}
        /\ ciStored' = ciStored \cup {save.ci} /\ c \notin vague
        /\ UNCHANGED <<tabOpen, orgRead, ciShown, tabLoads>>
    BY <1>18 DEF StoreCi
  <2> HIDE DEF nowDone
  <2>3. CASE save.ci = c
    <3>1. orgRead.at # "read" /\ save.tab = tabLoads
      BY <1>1, <1>18, <2>2, <2>3 DEF StoreCi, CiFit
    <3>2. SavedOf(c)'
      BY <2>1, <2>2, <2>3, <3>1 DEF SavedOf
    <3> QED
      BY <1>1, <2>1, <2>2, <2>3, <3>1, <3>2 DEF CiFit
  <2>4. CASE save.ci # c
    <3>1. SavedOf(c)' <=> SavedOf(c)
      BY <2>1, <2>2, <2>4 DEF SavedOf
    <3> QED
      BY <1>1, <2>1, <2>2, <2>4, <3>1 DEF CiFit
  <2> QED
    BY <2>3, <2>4
<1>19. ASSUME NEW save \in ciSaves, CiSaved(save) PROVE CiFit(c)'
  <2>1. /\ save.at = "done" /\ ciSaves' = ciSaves \ {save} /\ c \notin vague
        /\ ciShown' = (IF Here(save) THEN ciShown \cup {save.ci} ELSE ciShown)
        /\ UNCHANGED <<ciStored, tabOpen, orgRead, tabLoads>>
    BY <1>19 DEF CiSaved
  <2>2. CASE save.ci = c /\ Here(save)
    <3>1. SavedOf(c) /\ tabOpen
      BY <2>1, <2>2 DEF SavedOf, Here
    <3>2. SavedOf(c)' => SavedOf(c)
      BY <2>1 DEF SavedOf
    <3> QED
      BY <1>1, <2>1, <2>2, <3>1, <3>2 DEF CiFit
  <2>3. CASE ~(save.ci = c /\ Here(save))
    <3>1. tabOpen => (SavedOf(c)' <=> SavedOf(c))
      BY <2>1, <2>3 DEF SavedOf, Here
    <3>2. c \in ciShown' <=> c \in ciShown
      BY <2>1, <2>3
    <3> QED
      BY <1>1, <2>1, <3>1, <3>2 DEF CiFit
  <2> QED
    BY <2>2, <2>3
<1>20. ASSUME NEW save \in ciSaves, CiSaveFails(save) PROVE CiFit(c)'
  <2>1. /\ ciSaves' = ciSaves \ {save} /\ c \notin vague /\ (save.at = "done" => save.ci # c)
        /\ UNCHANGED <<ciStored, tabOpen, orgRead, ciShown, tabLoads>>
    BY <1>20 DEF CiSaveFails
  <2>2. SavedOf(c)' <=> SavedOf(c)
    BY <2>1 DEF SavedOf
  <2> QED
    BY <1>1, <2>1, <2>2 DEF CiFit
<1>21. CASE UNCHANGED integrationsVars
  BY <1>2, <1>21 DEF integrationsVars
<1> QED
  BY <1>3, <1>4, <1>5, <1>6, <1>7, <1>8, <1>9, <1>10, <1>11, <1>12, <1>13, <1>14, <1>15,
     <1>16, <1>17, <1>18, <1>19, <1>20, <1>21 DEF IntegrationsNext

LEMMA IntegrationsStep ==
  IntegrationsInv /\ [IntegrationsNext]_integrationsVars => IntegrationsInv'
BY IntegrationsTypes, JiraStaysFit, SlackStaysFit, CiStaysFit DEF IntegrationsInv

LEMMA IntegrationsFit == IntegrationsInv => IntegrationsKept /\ IntegrationsTypeOK
<1> SUFFICES ASSUME IntegrationsTyped, JiraFits, SlackFits, CiFits
             PROVE  IntegrationsKept /\ IntegrationsTypeOK
  BY DEF IntegrationsInv
<1>1. /\ jiraRead.at \in {"none", "asked", "read"} /\ orgRead.at \in {"none", "asked", "read"}
      /\ jiraSave.at \in {"none", "asked", "done"} /\ slackSave.at \in {"none", "asked", "done"}
  BY DEF IntegrationsTyped, JiraReads, OrgReads, JiraSaves, SlackSaves, Unread, NotSaving
<1>2. ciSaves \subseteq [ci : Ci, tab : 0..MaxTabLoads, at : {"asked", "done"}]
  BY IntegrationsBounds DEF IntegrationsTyped, CiSavings
<1>3. IntegrationsTypeOK
  BY <1>1, <1>2 DEF IntegrationsTyped, IntegrationsTypeOK
<1>4. ASSUME NEW c \in Ci \ vague, TabShown, orgRead = Unread,
             ~\E save \in ciSaves : save.ci = c /\ Here(save)
      PROVE  c \in ciShown <=> c \in ciStored
  <2>1. CiFit(c) /\ tabOpen /\ ~SavedOf(c)
    BY <1>4 DEF CiFits, TabShown, SavedOf, Here
  <2> QED
    BY <1>4, <2>1 DEF CiFit
<1>5. /\ clobbered => "events" \in vague
      /\ (TabShown /\ orgRead = Unread /\ jiraSave.at = "none" /\ "jira" \notin vague) =>
              configured = (jiraStored # 0)
      /\ (SlackShown /\ slackSave.at = "none" /\ "events" \notin vague) =>
              connected = (webhookStored # 0) /\ eventsSeen = eventsStored
  BY DEF JiraFits, SlackFits, SavedHere, TabShown, SlackShown, IntegrationsTyped
<1>6. IntegrationsKept
  BY <1>4, <1>5 DEF IntegrationsKept
<1> QED
  BY <1>3, <1>6

\* IntegrationsKept in every state, for any providers and number of saves: events are replaced
\* unseen only after a fault or another admin's save, and what the tab says of Jira, Slack and
\* each CI provider is true at rest (IntegrationsTab.tsx, integrations.ts, organization.ts).
THEOREM IntegrationsAlwaysKept == IntegrationsSpec => [](IntegrationsKept /\ IntegrationsTypeOK)
BY IntegrationsStart, IntegrationsStep, IntegrationsFit, PTL DEF IntegrationsSpec

----------------------------------------------------------------------------
(********************** The routing of pull requests **********************)

\* A version is as old as the changes counted when it was saved, and the last change is the
\* version of some project.
Tuned ==
    /\ \A p \in Repo : tuned[p].version <= tunings
    /\ tunings = 0 \/ \E p \in Repo : tuned[p].version = tunings

\* A delivery let in holds what it needs of the settings, none older than itself.
Underway(d) ==
    /\ d.at \in {"guarded", "settled", "placed"} => d.allowed /\ d.since <= tunings
    /\ d.at \in {"settled", "placed"} =>
          /\ d.repo \in Repo /\ d.with.image /\ d.with.version # 0
          /\ d.since <= d.with.version /\ d.with.version <= tuned[d.repo].version

PrInv ==
    /\ PrTypeOK
    /\ Tuned
    /\ \A d \in Delivery : Underway(delivered[d])
    /\ RoutedFits

LEMMA PrStart == PrInit => PrInv
<1> USE PrRoutingAssumption
<1> SUFFICES ASSUME PrInit PROVE PrInv
  OBVIOUS
<1> USE DEF PrInit
<1>1. PrTypeOK
  BY DEF PrTypeOK, Tuning, NoTuning, NotDelivered, PrStage, Place
<1>2. Tuned
  BY DEF Tuned, NoTuning
<1>3. \A d \in Delivery : Underway(delivered[d])
  BY DEF Underway, NotDelivered
<1>4. RoutedFits
  BY DEF RoutedFits
<1> QED
  BY <1>1, <1>2, <1>3, <1>4 DEF PrInv

\* A delivery of which nothing is queued may change as it likes while it stays well.
LEMMA DeliveryMoves ==
  ASSUME PrInv, NEW d \in Delivery, NEW fields, To(d, fields),
         fields \in [at : PrStage, repo : Repo \cup {"none"}, with : Tuning,
                     folder : Place, allowed : BOOLEAN, since : 0..MaxTunings],
         Underway(fields), delivered[d].at # "answered",
         UNCHANGED <<routed, tuned, queued, tunings>>
  PROVE  PrInv'
<1>0. PrTypeOK /\ Tuned /\ (\A e \in Delivery : Underway(delivered[e])) /\ RoutedFits
  BY DEF PrInv
<1>1. delivered' = [delivered EXCEPT ![d] = fields]
  BY DEF To
<1>2. /\ delivered'[d] = fields
      /\ \A e \in Delivery : e # d => delivered'[e] = delivered[e]
  BY <1>0, <1>1 DEF PrTypeOK
<1>3. PrTypeOK'
  BY <1>0, <1>1 DEF PrTypeOK
<1>4. Tuned'
  BY <1>0 DEF Tuned
<1>5. (\A e \in Delivery : Underway(delivered[e]))'
  BY <1>0, <1>2 DEF Underway
<1>6. ASSUME NEW q \in queued PROVE q.delivery # d /\ q.delivery \in Delivery
  BY <1>0, <1>6 DEF RoutedFits, PrTypeOK
<1>7. RoutedFits'
  BY <1>0, <1>2, <1>6 DEF RoutedFits
<1> QED
  BY <1>3, <1>4, <1>5, <1>7 DEF PrInv

LEMMA PrTune == ASSUME PrInv, NEW p \in Repo, Tune(p) PROVE PrInv'
<1>0. PrTypeOK /\ Tuned /\ (\A e \in Delivery : Underway(delivered[e])) /\ RoutedFits
  BY DEF PrInv
<1> USE PrRoutingAssumption
<1>1. PICK t \in [version : {tunings'}, image : BOOLEAN, staging : BOOLEAN] :
        tuned' = [tuned EXCEPT ![p] = t]
  BY DEF Tune
<1>2. /\ tunings < MaxTunings /\ tunings' = tunings + 1 /\ t.version = tunings'
      /\ UNCHANGED <<routed, delivered, queued>>
  BY <1>1 DEF Tune
<1>3. /\ tuned'[p] = t /\ \A o \in Repo : o # p => tuned'[o] = tuned[o]
      /\ \A o \in Repo : tuned[o].version \in Nat
      /\ tunings \in Nat
  BY <1>0, <1>1 DEF PrTypeOK, Tuning
<1>4. PrTypeOK'
  <2>1. t \in Tuning
    BY <1>0, <1>1, <1>2 DEF PrTypeOK, Tuning
  <2> QED
    BY <1>0, <1>1, <1>2, <2>1 DEF PrTypeOK
<1>5. Tuned'
  BY <1>0, <1>2, <1>3 DEF Tuned
<1>6. \A o \in Repo : tuned[o].version <= tuned'[o].version /\ tuned'[o].version \in Nat
  BY <1>0, <1>2, <1>3 DEF Tuned
<1>7. (\A e \in Delivery : Underway(delivered[e]))'
  <2> SUFFICES ASSUME NEW e \in Delivery PROVE Underway(delivered[e])'
    OBVIOUS
  <2>1. /\ Underway(delivered[e]) /\ delivered[e].since \in Nat
        /\ delivered[e].with.version \in Nat
    BY <1>0 DEF PrTypeOK, Tuning
  <2> QED
    BY <2>1, <1>2, <1>3, <1>6 DEF Underway
<1>8. RoutedFits'
  <2>1. \A q \in queued : q.repo \in Repo /\ q.version \in Nat
    BY <1>0 DEF PrTypeOK
  <2> SUFFICES ASSUME NEW q \in queued
               PROVE  (LET d == delivered[q.delivery]
                       IN /\ d.allowed /\ d.at = "answered" /\ d.with.image
                          /\ \A o \in queued : o.delivery = q.delivery => o = q
                          /\ q.version >= d.since /\ q.version <= tuned[q.repo].version
                          /\ q.url = "staging" <=> d.with.staging)'
    BY <1>2 DEF RoutedFits
  <2>2. tuned[q.repo].version \in Nat
    BY <1>3, <2>1
  <2> QED
    BY <1>0, <1>2, <1>6, <2>1, <2>2 DEF RoutedFits
<1> QED
  BY <1>4, <1>5, <1>7, <1>8 DEF PrInv

LEMMA PrGuard ==
  ASSUME PrInv, NEW d \in Delivery, NEW files \in BOOLEAN, GuardDelivery(d, files)
  PROVE  PrInv'
<1>0. PrTypeOK /\ Underway(delivered[d]) /\ delivered[d].at = "waiting"
  BY DEF PrInv, GuardDelivery
<1>1. CASE routed /\ files
  <2> DEFINE fields == [delivered[d] EXCEPT !.at = "guarded", !.allowed = TRUE, !.since = tunings]
  <2>1. To(d, fields) /\ UNCHANGED <<routed, tuned, queued, tunings>>
    BY <1>1 DEF GuardDelivery
  <2>2. fields \in [at : PrStage, repo : Repo \cup {"none"}, with : Tuning,
                    folder : Place, allowed : BOOLEAN, since : 0..MaxTunings]
    BY <1>0 DEF PrTypeOK, PrStage
  <2>3. Underway(fields)
    BY <1>0, PrRoutingAssumption DEF Underway, PrTypeOK
  <2> QED
    BY <1>0, <2>1, <2>2, <2>3, DeliveryMoves
<1>2. CASE ~(routed /\ files)
  <2>1. Replied(d) /\ UNCHANGED <<routed, tuned, queued, tunings>>
    BY <1>2 DEF GuardDelivery
  <2> DEFINE fields == [delivered[d] EXCEPT !.at = "answered"]
  <2>2. fields \in [at : PrStage, repo : Repo \cup {"none"}, with : Tuning,
                    folder : Place, allowed : BOOLEAN, since : 0..MaxTunings]
    BY <1>0 DEF PrTypeOK, PrStage
  <2>3. Underway(fields)
    BY <1>0 DEF Underway, PrTypeOK
  <2> QED
    BY <1>0, <2>1, <2>2, <2>3, DeliveryMoves DEF Replied
<1> QED
  BY <1>1, <1>2

LEMMA PrReplies ==
  ASSUME PrInv, NEW d \in Delivery, delivered[d].at # "answered", Replied(d),
         UNCHANGED <<routed, tuned, queued, tunings>>
  PROVE  PrInv'
<1>0. PrTypeOK
  BY DEF PrInv
<1> DEFINE fields == [delivered[d] EXCEPT !.at = "answered"]
<1>2. fields \in [at : PrStage, repo : Repo \cup {"none"}, with : Tuning,
                  folder : Place, allowed : BOOLEAN, since : 0..MaxTunings]
  BY <1>0 DEF PrTypeOK, PrStage
<1>3. Underway(fields)
  BY <1>0 DEF Underway, PrTypeOK
<1> QED
  BY <1>2, <1>3, DeliveryMoves DEF Replied

LEMMA PrChoose == ASSUME PrInv, NEW d \in Delivery, ChooseSettings(d) PROVE PrInv'
<1>0. /\ PrTypeOK /\ Tuned /\ Underway(delivered[d]) /\ delivered[d].at = "guarded"
      /\ UNCHANGED <<routed, tuned, queued, tunings>>
  BY DEF PrInv, ChooseSettings
<1>1. CASE Replied(d)
  BY <1>0, <1>1, PrReplies
<1>2. ASSUME NEW p \in Repo, Latest(p), tuned[p].image,
             To(d, [delivered[d] EXCEPT !.at = "settled", !.repo = p, !.with = tuned[p]])
      PROVE  PrInv'
  <2> DEFINE fields == [delivered[d] EXCEPT !.at = "settled", !.repo = p, !.with = tuned[p]]
  <2>1. tuned[p] \in Tuning /\ delivered[d].since \in Nat /\ tunings \in Nat
    BY <1>0 DEF PrTypeOK
  <2>2. fields \in [at : PrStage, repo : Repo \cup {"none"}, with : Tuning,
                    folder : Place, allowed : BOOLEAN, since : 0..MaxTunings]
    BY <1>0, <2>1 DEF PrTypeOK, PrStage
  <2>3. tuned[p].version = tunings /\ tuned[p].version # 0
    <3>1. \A o \in Repo : tuned[o].version \in Nat
      BY <1>0 DEF PrTypeOK, Tuning
    <3> QED
      BY <1>0, <1>2, <2>1, <3>1 DEF Tuned, Latest
  <2>4. fields.since = delivered[d].since /\ fields.allowed = delivered[d].allowed
        /\ fields.repo = p /\ fields.with = tuned[p] /\ fields.at = "settled"
    BY <1>0 DEF PrTypeOK
  <2>5. Underway(fields)
    BY <1>0, <1>2, <2>1, <2>3, <2>4 DEF Underway
  <2> QED
    BY <1>0, <1>2, <2>2, <2>5, DeliveryMoves
<1> QED
  BY <1>1, <1>2 DEF ChooseSettings

LEMMA PrPlace ==
  ASSUME PrInv, NEW d \in Delivery, NEW chosen \in BOOLEAN, PlaceRun(d, chosen)
  PROVE  PrInv'
<1>0. /\ PrTypeOK /\ Underway(delivered[d]) /\ delivered[d].at = "settled"
      /\ UNCHANGED <<routed, tuned, queued, tunings>>
  BY DEF PrInv, PlaceRun
<1> DEFINE fields == [delivered[d] EXCEPT !.at = "placed",
                                          !.folder = IF chosen THEN "chosen" ELSE "default"]
<1>1. To(d, fields)
  BY DEF PlaceRun
<1>2. fields \in [at : PrStage, repo : Repo \cup {"none"}, with : Tuning,
                  folder : Place, allowed : BOOLEAN, since : 0..MaxTunings]
  <2>1. "placed" \in PrStage /\ (IF chosen THEN "chosen" ELSE "default") \in Place
    BY DEF PrStage, Place
  <2>2. delivered[d] \in [at : PrStage, repo : Repo \cup {"none"}, with : Tuning,
                          folder : Place, allowed : BOOLEAN, since : 0..MaxTunings]
    BY <1>0 DEF PrTypeOK
  <2> QED BY <2>1, <2>2
<1>3. Underway(fields)
  BY <1>0 DEF Underway, PrTypeOK
<1> QED
  BY <1>0, <1>1, <1>2, <1>3, DeliveryMoves

LEMMA PrPublish ==
  ASSUME PrInv, NEW d \in Delivery, NEW priority \in {"computed", "default"},
         PublishRouted(d, priority)
  PROVE  PrInv'
<1>0. /\ PrTypeOK /\ Tuned /\ (\A e \in Delivery : Underway(delivered[e])) /\ RoutedFits
      /\ delivered[d].at = "placed" /\ UNCHANGED <<routed, tuned, tunings>>
  BY DEF PrInv, PublishRouted
<1> DEFINE q == [delivery |-> d, repo |-> delivered[d].repo,
                 version |-> delivered[d].with.version, folder |-> delivered[d].folder,
                 url |-> TargetUrl(delivered[d].with), priority |-> priority]
           answer == [delivered[d] EXCEPT !.at = "answered"]
<1>1. queued' = queued \cup {q} /\ delivered' = [delivered EXCEPT ![d] = answer]
  BY DEF PublishRouted, Replied, To
<1>2. /\ delivered'[d] = answer
      /\ \A e \in Delivery : e # d => delivered'[e] = delivered[e]
      /\ answer.at = "answered" /\ answer.with = delivered[d].with
      /\ answer.allowed = delivered[d].allowed /\ answer.since = delivered[d].since
      /\ answer.folder = delivered[d].folder
  BY <1>0, <1>1 DEF PrTypeOK
<1>3. /\ delivered[d].with.version \in 1..MaxTunings /\ delivered[d].repo \in Repo
      /\ delivered[d].allowed /\ delivered[d].with.image
      /\ delivered[d].since <= delivered[d].with.version
      /\ delivered[d].with.version <= tuned[delivered[d].repo].version
  BY <1>0, PrRoutingAssumption DEF Underway, PrTypeOK, Tuning
<1>4. PrTypeOK'
  <2>1. q \in [delivery : Delivery, repo : Repo, version : 1..MaxTunings, folder : Place,
               url : {"staging", "none"}, priority : {"computed", "default"}]
    BY <1>0, <1>3 DEF PrTypeOK, TargetUrl
  <2>2. answer \in [at : PrStage, repo : Repo \cup {"none"}, with : Tuning,
                    folder : Place, allowed : BOOLEAN, since : 0..MaxTunings]
    BY <1>0 DEF PrTypeOK, PrStage
  <2> HIDE DEF q, answer
  <2> QED
    BY <1>0, <1>1, <2>1, <2>2 DEF PrTypeOK
<1>5. Tuned'
  BY <1>0 DEF Tuned
<1>6. (\A e \in Delivery : Underway(delivered[e]))'
  BY <1>0, <1>2 DEF Underway
<1>7. RoutedFits'
  <2>1. ASSUME NEW o \in queued PROVE o.delivery \in Delivery /\ o.delivery # d
    BY <1>0, <2>1 DEF RoutedFits, PrTypeOK
  <2>2. /\ q.delivery = d /\ q.version = delivered[d].with.version
        /\ q.repo = delivered[d].repo /\ (q.url = "staging" <=> delivered[d].with.staging)
    BY DEF TargetUrl
  <2>3. delivered[d].with.version >= delivered[d].since
    BY <1>0, <1>3 DEF PrTypeOK
  <2> HIDE DEF q, answer
  <2> SUFFICES ASSUME NEW r \in queued'
               PROVE  (LET e == delivered[r.delivery]
                       IN /\ e.allowed /\ e.at = "answered" /\ e.with.image
                          /\ \A o \in queued : o.delivery = r.delivery => o = r
                          /\ r.version >= e.since /\ r.version <= tuned[r.repo].version
                          /\ r.url = "staging" <=> e.with.staging)'
    BY DEF RoutedFits
  <2>4. CASE r = q
    <3>1. \A o \in queued' : o.delivery = d => o = q
      BY <1>1, <2>1, <2>2
    <3>2. delivered'[r.delivery] = answer
      BY <1>2, <2>2, <2>4
    <3> QED
      BY <1>0, <1>2, <1>3, <2>2, <2>3, <2>4, <3>1, <3>2
  <2>5. CASE r \in queued
    <3>1. delivered'[r.delivery] = delivered[r.delivery] /\ r.delivery # q.delivery
      BY <1>2, <2>1, <2>2, <2>5
    <3> QED
      BY <1>0, <1>1, <2>5, <3>1 DEF RoutedFits
  <2> QED
    BY <1>1, <2>4, <2>5
<1> QED
  BY <1>4, <1>5, <1>6, <1>7 DEF PrInv

LEMMA PrStep == PrInv /\ [PrNext]_prVars => PrInv'
<1> SUFFICES ASSUME PrInv, [PrNext]_prVars PROVE PrInv'
  OBVIOUS
<1>1. CASE SwitchRouting
  BY <1>1 DEF SwitchRouting, PrInv, PrTypeOK, Tuned, Underway, RoutedFits
<1>2. CASE UNCHANGED prVars
  BY <1>2 DEF prVars, PrInv, PrTypeOK, Tuned, Underway, RoutedFits
<1>3. ASSUME NEW d \in Delivery, DeliveryFails(d) PROVE PrInv'
  BY <1>3, PrReplies DEF DeliveryFails
<1> QED
  BY <1>1, <1>2, <1>3, PrTune, PrGuard, PrChoose, PrPlace, PrPublish DEF PrNext

\* RoutedFits in every state, for any repositories and deliveries: an admitted delivery queues
\* one run at most, made of one version of the settings no older than the delivery
\* (pr-routing.ts).
THEOREM RoutedAlwaysFits == PrSpec => [](RoutedFits /\ PrTypeOK)
<1>1. PrInv => RoutedFits /\ PrTypeOK
  BY DEF PrInv
<1> QED
  BY <1>1, PrStart, PrStep, PTL DEF PrSpec

----------------------------------------------------------------------------
(**************************** The profile page ****************************)

KeyList == [n : Nat, at : {"asked", "read"}, found : SUBSET ApiKeyId]
KeyAsk == [at : {"asked", "done"}, visit : Nat, key : ApiKeyId]
NameAsk == [name : PersonName, visit : Nat]

\* The numbers of the lists under way: each is one list's, and there is a largest.
ListsNumbered(reads, newest) ==
    /\ reads \subseteq KeyList /\ newest \in Nat
    /\ \A p, q \in reads : p.n = q.n => p = q
    /\ \E top \in Nat : newest <= top /\ \A q \in reads : q.n <= top

\* The newest of the lists will show the keys that are stored.
ListFresh(q, reads, held) ==
    (\A p \in reads : p.n <= q.n) /\ (q.at = "read" => q.found = held)

\* Rows that are to be the stored keys: they are, or the newest list under way has them, or a
\* change under way has been made and will ask for the list.
RowsFresh(table, reads, held, requests) ==
    \/ \E m \in requests : m.at = "done"
    \/ reads = {} /\ table = held
    \/ \E q \in reads : ListFresh(q, reads, held)

NameTyped ==
    /\ nameStored \in PersonName /\ userName \in PersonName /\ nameTyped \in PersonName
    /\ nameSaves \subseteq NameAsk /\ \A s \in nameSaves : s.visit \in 1..profileVisits
    /\ namesSaved \in 0..MaxNames /\ nameMoved \in BOOLEAN
    /\ ~nameMoved => userName = nameStored

KeysTyped ==
    /\ keysStored \subseteq ApiKeyId /\ keysShown \subseteq ApiKeyId
    /\ keyMaking \subseteq KeyAsk /\ revoking \subseteq KeyAsk
    /\ \A m \in keyMaking \cup revoking : m.visit \in 1..profileVisits
    /\ ListsNumbered(keyLists, newestList)
    /\ keysVague \in BOOLEAN

\* A key is being made, or it was given to the user, or its answer was lost.
KeysAccounted ==
    /\ keysMade \in 0..MaxKeys /\ keyInModal \in 0..MaxKeys
    /\ keysSeen \subseteq 1..keysMade /\ keysUnseen \subseteq 1..keysMade
    /\ keysSeen \cap keysUnseen = {}
    /\ \A m \in keyMaking : m.key \in 1..keysMade /\ m.key \notin keysSeen /\ m.key \notin keysUnseen
    /\ \A m, o \in keyMaking : m.key = o.key => m = o
    /\ keysStored \ {m.key : m \in keyMaking} \subseteq keysSeen \cup keysUnseen
    /\ keyInModal # 0 => keyInModal \in keysSeen

RowsCurrent ==
    profileOpen /\ ~keysVague =>
        /\ \A m \in keyMaking \cup revoking : m.visit = profileVisits
        /\ \A q \in keyLists : q.n > newestList
        /\ RowsFresh(keysShown, keyLists, keysStored, keyMaking \cup revoking)

VisitsTyped ==
    /\ profileOpen \in BOOLEAN /\ profileVisits \in 0..MaxProfileVisits
    /\ profileOpen => profileVisits # 0
    /\ keyFaults \in 0..MaxKeyFaults

ProfileInv == VisitsTyped /\ NameTyped /\ KeysTyped /\ KeysAccounted /\ RowsCurrent

LEMMA ProfileBounds ==
    MaxKeys \in Nat /\ MaxNames \in Nat /\ MaxProfileVisits \in Nat /\ MaxKeyFaults \in Nat
BY ProfileAssumption

LEMMA LargestNatural ==
    ASSUME NEW S \in SUBSET Nat, S # {}, NEW top \in Nat, \A x \in S : x <= top
    PROVE  Max(S) \in S /\ \A x \in S : x <= Max(S)
<1> DEFINE T == {b \in Nat : \A x \in S : x <= b}
<1>1. PICK b \in T : \A c \in T : b <= c
  <2>1. top \in T
    OBVIOUS
  <2> QED
    BY <2>1, LeastOfNaturals
<1>2. b \in S
  <2>1. SUFFICES ASSUME b \notin S PROVE FALSE
    OBVIOUS
  <2>2. \A x \in S : x < b
    BY <1>1, <2>1
  <2>3. b - 1 \in Nat /\ \A x \in S : x <= b - 1
    <3>1. PICK y \in S : TRUE
      OBVIOUS
    <3>2. y \in Nat /\ b \in Nat /\ y < b
      BY <1>1, <2>2
    <3>3. \A x \in S : x \in Nat /\ x < b
      BY <2>2
    <3> QED
      BY <3>2, <3>3
  <2>4. b <= b - 1
    BY <1>1, <2>3
  <2> QED
    BY <1>1, <2>4
<1>3. \A x \in S : b >= x
  BY <1>1
<1>4. Max(S) \in S /\ \A x \in S : Max(S) >= x
  BY <1>2, <1>3 DEF Max
<1> QED
  BY <1>4

LEMMA Newest ==
    ASSUME NEW reads, ListsNumbered(reads, newestList)
    PROVE  /\ NewestAsked(reads) \in Nat /\ newestList <= NewestAsked(reads)
           /\ \A q \in reads : q.n <= NewestAsked(reads)
<1> DEFINE S == {newestList} \cup {q.n : q \in reads}
<1>1. PICK top \in Nat : newestList <= top /\ \A q \in reads : q.n <= top
  BY DEF ListsNumbered
<1>2. S \in SUBSET Nat /\ newestList \in S
  BY DEF ListsNumbered, KeyList
<1>3. \A x \in S : x <= top
  BY <1>1
<1>4. \A q \in reads : q.n \in S
  OBVIOUS
<1>5. NewestAsked(reads) = Max(S)
  BY DEF NewestAsked
<1> HIDE DEF S
<1>6. Max(S) \in S /\ \A x \in S : x <= Max(S)
  BY <1>1, <1>2, <1>3, LargestNatural
<1> QED
  BY <1>2, <1>4, <1>5, <1>6

\* A list is asked for: it is the newest.
LEMMA ListAsked ==
    ASSUME NEW reads, ListsNumbered(reads, newestList)
    PROVE  /\ ListsNumbered(WithList(reads), newestList) /\ WithList(reads) # {}
           /\ (\A q \in reads : q.n > newestList) => \A q \in WithList(reads) : q.n > newestList
           /\ \A held : \E q \in WithList(reads) : ListFresh(q, WithList(reads), held)
<1> DEFINE top == NewestAsked(reads)
           new == [n |-> top + 1, at |-> "asked", found |-> {}]
<1>1. top \in Nat /\ newestList <= top /\ newestList \in Nat /\ reads \subseteq KeyList
      /\ \A q \in reads : q.n <= top
  BY Newest DEF ListsNumbered
<1>2. WithList(reads) = reads \cup {new}
  BY DEF WithList
<1> HIDE DEF top
<1>3. new \in KeyList /\ new.n = top + 1 /\ new.at = "asked"
  BY <1>1 DEF KeyList
<1> HIDE DEF new
<1>4. \A q \in reads : q.n \in Nat /\ q.n # new.n /\ q.n <= new.n
  BY <1>1, <1>3 DEF KeyList
<1>5. ListsNumbered(WithList(reads), newestList)
  <2>1. top + 1 \in Nat /\ newestList <= top + 1 /\ \A q \in reads \cup {new} : q.n <= top + 1
    BY <1>1, <1>3, <1>4
  <2>2. \A p, q \in reads \cup {new} : p.n = q.n => p = q
    BY <1>4 DEF ListsNumbered
  <2> QED
    BY <1>1, <1>2, <1>3, <2>1, <2>2 DEF ListsNumbered
<1>6. new.n > newestList
  BY <1>1, <1>3
<1>7. \A held : ListFresh(new, reads \cup {new}, held)
  BY <1>1, <1>3, <1>4 DEF ListFresh
<1> QED
  BY <1>2, <1>5, <1>6, <1>7

\* A list leaves, and a newer one may have arrived.
LEMMA ListGone ==
    ASSUME ListsNumbered(keyLists, newestList), NEW q \in keyLists,
           keyLists' = keyLists \ {q}, newestList' = IF q.n > newestList THEN q.n ELSE newestList
    PROVE  ListsNumbered(keyLists', newestList') /\ newestList' \in Nat
<1>1. PICK top \in Nat : newestList <= top /\ \A p \in keyLists : p.n <= top
  BY DEF ListsNumbered
<1>2. q.n \in Nat /\ newestList \in Nat /\ newestList' \in Nat /\ newestList' <= top
  BY <1>1 DEF ListsNumbered, KeyList
<1>3. \A p \in keyLists' : p.n <= top
  BY <1>1
<1>4. keyLists' \subseteq KeyList /\ \A p, o \in keyLists' : p.n = o.n => p = o
  BY DEF ListsNumbered
<1> QED
  BY <1>1, <1>2, <1>3, <1>4 DEF ListsNumbered

LEMMA ProfileStart == ProfileInit => ProfileInv
<1> SUFFICES ASSUME ProfileInit PROVE ProfileInv
  OBVIOUS
<1>1. /\ nameStored = CHOOSE n \in PersonName : TRUE
      /\ userName = nameStored /\ nameTyped = nameStored /\ nameSaves = {}
      /\ profileOpen = FALSE /\ keysStored = {} /\ keysShown = {} /\ keyLists = {}
      /\ keyMaking = {} /\ revoking = {} /\ keyInModal = 0
      /\ keysSeen = {} /\ keysUnseen = {} /\ nameMoved = FALSE /\ keysVague = FALSE
      /\ newestList = 0
      /\ keysMade = 0 /\ namesSaved = 0 /\ profileVisits = 0 /\ keyFaults = 0
  BY DEF ProfileInit
<1>2. nameStored \in PersonName
  BY <1>1, ProfileAssumption
<1>3. 0 \in 0..MaxKeys /\ 0 \in 0..MaxNames /\ 0 \in 0..MaxProfileVisits /\ 0 \in 0..MaxKeyFaults
  BY ProfileBounds
<1>4. VisitsTyped
  BY <1>1, <1>3 DEF VisitsTyped
<1>5. NameTyped
  BY <1>1, <1>2, <1>3 DEF NameTyped
<1>6. ListsNumbered({}, 0)
  <2>1. 0 \in Nat /\ 0 <= 0
    OBVIOUS
  <2> QED
    BY <2>1 DEF ListsNumbered
<1>7. KeysTyped
  BY <1>1, <1>6 DEF KeysTyped
<1>8. KeysAccounted
  BY <1>1, <1>3 DEF KeysAccounted
<1>9. RowsCurrent
  BY <1>1 DEF RowsCurrent
<1> QED
  BY <1>4, <1>5, <1>7, <1>8, <1>9 DEF ProfileInv

\* What only the name, or only the keys, depend on.
LEMMA NamePart ==
    ASSUME NameTyped, UNCHANGED <<nameStored, userName, nameTyped, nameSaves, nameMoved, namesSaved,
                                  profileVisits>>
    PROVE  NameTyped'
BY DEF NameTyped

LEMMA KeysPart ==
    ASSUME KeysTyped, KeysAccounted, RowsCurrent, UNCHANGED <<keyPart, profileOpen, profileVisits>>
    PROVE  KeysTyped' /\ KeysAccounted' /\ RowsCurrent'
BY DEF keyPart, KeysTyped, KeysAccounted, RowsCurrent

LEMMA VisitsPart ==
    ASSUME VisitsTyped, UNCHANGED <<profileOpen, profileVisits>>, keyFaults' \in 0..MaxKeyFaults
    PROVE  VisitsTyped'
BY DEF VisitsTyped

\* Nothing of the accounts of keys changes.
LEMMA Accounted ==
    ASSUME KeysAccounted, UNCHANGED <<keysStored, keyMaking, keysSeen, keysUnseen, keysMade>>,
           keyInModal' \in {0, keyInModal}
    PROVE  KeysAccounted'
<1>1. keyInModal' \in 0..MaxKeys
  BY ProfileBounds DEF KeysAccounted
<1> QED
  BY <1>1 DEF KeysAccounted

LEMMA ProfileStep == ProfileInv /\ [ProfileNext]_profilePageVars => ProfileInv'
<1> SUFFICES ASSUME ProfileInv, [ProfileNext]_profilePageVars PROVE ProfileInv'
  OBVIOUS
<1> USE ProfileBounds
<1>a. VisitsTyped /\ NameTyped /\ KeysTyped /\ KeysAccounted /\ RowsCurrent
  BY DEF ProfileInv
<1>b. keyFaults \in 0..MaxKeyFaults /\ (KeyFault => keyFaults' \in 0..MaxKeyFaults)
  BY <1>a DEF VisitsTyped, KeyFault
<1>1. CASE OpenProfile
  <2>1. /\ ~profileOpen /\ profileOpen' = TRUE /\ profileVisits' = profileVisits + 1
        /\ nameTyped' = userName /\ keysShown' = {} /\ keyInModal' = 0
        /\ keyLists' = WithList({}) /\ keysVague' = (keyMaking \cup revoking # {})
        /\ UNCHANGED <<nameStored, keysStored, userName, nameSaves, keyMaking, revoking, keysSeen,
                       keysUnseen, nameMoved, newestList, keysMade, namesSaved, keyFaults>>
    BY <1>1 DEF OpenProfile
  <2>2. profileVisits' \in 0..MaxProfileVisits /\ profileVisits' # 0 /\ profileVisits \in Nat
    BY <1>1, <1>a DEF OpenProfile, VisitsTyped
  <2>3. VisitsTyped'
    BY <1>a, <2>1, <2>2 DEF VisitsTyped
  <2>4. \A v \in 1..profileVisits : v \in 1..profileVisits'
    BY <2>1, <2>2
  <2>5. NameTyped'
    BY <1>a, <2>1, <2>4 DEF NameTyped
  <2>6. ListsNumbered({}, newestList)
    BY <1>a DEF KeysTyped, ListsNumbered
  <2>7. /\ ListsNumbered(keyLists', newestList) /\ keyLists' # {}
        /\ \A q \in keyLists' : q.n > newestList
        /\ \E q \in keyLists' : ListFresh(q, keyLists', keysStored)
    BY <2>1, <2>6, ListAsked
  <2>8. KeysTyped'
    <3>1. keysVague' \in BOOLEAN
      BY <2>1
    <3> QED
      BY <1>a, <2>1, <2>4, <2>7, <3>1 DEF KeysTyped
  <2>9. KeysAccounted'
    BY <1>a, <2>1, Accounted
  <2>10. RowsCurrent'
    BY <2>1, <2>7 DEF RowsCurrent, RowsFresh
  <2> QED
    BY <2>3, <2>5, <2>8, <2>9, <2>10 DEF ProfileInv
<1>2. CASE CloseProfile
  <2>1. /\ profileOpen /\ profileOpen' = FALSE /\ keyLists' = {} /\ keyInModal' = 0 /\ keysShown' = {}
        /\ newestList' = NewestAsked(keyLists)
        /\ UNCHANGED <<nameVars, keysStored, keyMaking, revoking, keysSeen, keysUnseen, keysVague,
                       keysMade, profileVisits, keyFaults>>
    BY <1>2 DEF CloseProfile
  <2>2. newestList' \in Nat
    BY <1>a, <2>1, Newest DEF KeysTyped
  <2>3. VisitsTyped'
    BY <1>a, <2>1 DEF VisitsTyped
  <2>4. NameTyped'
    BY <1>a, <2>1, NamePart DEF nameVars
  <2>5. ListsNumbered(keyLists', newestList')
    BY <2>1, <2>2 DEF ListsNumbered
  <2>6. KeysTyped'
    BY <1>a, <2>1, <2>5 DEF KeysTyped
  <2>7. KeysAccounted'
    BY <1>a, <2>1, Accounted
  <2>8. RowsCurrent'
    BY <2>1 DEF RowsCurrent
  <2> QED
    BY <2>3, <2>4, <2>6, <2>7, <2>8 DEF ProfileInv
<1>3. CASE ReloadDashboard
  <2>1. NameTyped'
    BY <1>a, <1>3 DEF ReloadDashboard, NameTyped
  <2>2. UNCHANGED <<keyPart, profileOpen, profileVisits, keyFaults>>
    BY <1>3 DEF ReloadDashboard
  <2> QED
    BY <1>a, <1>b, <2>1, <2>2, KeysPart, VisitsPart DEF ProfileInv
<1>4. CASE SaveName
  <2> DEFINE new == [name |-> nameTyped, visit |-> profileVisits]
  <2>1. profileOpen /\ namesSaved < MaxNames /\ namesSaved' = namesSaved + 1
        /\ nameSaves' = nameSaves \cup {new}
        /\ UNCHANGED <<nameStored, userName, profileOpen, nameTyped, nameMoved, keyPart,
                       profileVisits, keyFaults>>
    BY <1>4 DEF SaveName
  <2>2. namesSaved' \in 0..MaxNames
    BY <1>a, <2>1 DEF NameTyped
  <2>3. profileVisits \in Nat /\ profileVisits \in 1..profileVisits
    BY <1>a, <2>1 DEF VisitsTyped
  <2>4. new \in NameAsk /\ new.visit = profileVisits
    BY <1>a, <2>3 DEF NameTyped, NameAsk
  <2> HIDE DEF new
  <2>5. NameTyped'
    BY <1>a, <2>1, <2>2, <2>3, <2>4 DEF NameTyped
  <2> QED
    BY <1>a, <1>b, <2>1, <2>5, KeysPart, VisitsPart DEF ProfileInv
<1>5. ASSUME NEW n \in PersonName, TypeName(n) PROVE ProfileInv'
  <2>1. NameTyped'
    BY <1>a, <1>5 DEF TypeName, NameTyped
  <2>2. UNCHANGED <<keyPart, profileOpen, profileVisits, keyFaults>>
    BY <1>5 DEF TypeName
  <2> QED
    BY <1>a, <1>b, <2>1, <2>2, KeysPart, VisitsPart DEF ProfileInv
<1>6. ASSUME NEW s \in nameSaves, NameSaved(s) PROVE ProfileInv'
  <2>1. s.name \in PersonName
    BY <1>a DEF NameTyped, NameAsk
  <2>2. nameSaves' = nameSaves \ {s} /\ UNCHANGED <<userName, profileOpen, nameTyped, namesSaved, keyPart, profileVisits>>
    BY <1>6 DEF NameSaved
  <2>3. (nameStored' = s.name /\ nameMoved' = TRUE) \/ UNCHANGED <<nameStored, nameMoved>>
    BY <1>6 DEF NameSaved
  <2>4. keyFaults' \in 0..MaxKeyFaults
    BY <1>b, <1>6 DEF NameSaved
  <2>5. NameTyped'
    BY <1>a, <2>1, <2>2, <2>3 DEF NameTyped
  <2> QED
    BY <1>a, <2>2, <2>4, <2>5, KeysPart, VisitsPart DEF ProfileInv
<1>7. ASSUME NEW q \in keyLists, ReadKeys(q) PROVE ProfileInv'
  <2> DEFINE r == [q EXCEPT !.at = "read", !.found = keysStored]
  <2>1. q.at = "asked" /\ keyLists' = (keyLists \ {q}) \cup {r}
        /\ UNCHANGED <<nameVars, profileOpen, keysStored, keysShown, keyMaking, revoking, keyInModal,
                       keysSeen, keysUnseen, keysVague, newestList, keysMade, profileVisits, keyFaults>>
    BY <1>7 DEF ReadKeys
  <2>2. q \in KeyList /\ keysStored \in SUBSET ApiKeyId
    BY <1>a DEF KeysTyped, ListsNumbered
  <2>3. r \in KeyList /\ r.n = q.n /\ r.at = "read" /\ r.found = keysStored
    BY <2>2 DEF KeyList
  <2> HIDE DEF r
  <2>4. ListsNumbered(keyLists', newestList')
    <3>1. PICK top \in Nat : newestList <= top /\ \A p \in keyLists : p.n <= top
      BY <1>a DEF KeysTyped, ListsNumbered
    <3>2. \A p \in keyLists' : p.n <= top
      BY <2>1, <2>3, <3>1
    <3>3. \A p, o \in keyLists' : p.n = o.n => p = o
      BY <1>a, <2>1, <2>3 DEF KeysTyped, ListsNumbered
    <3>4. keyLists' \subseteq KeyList
      BY <1>a, <2>1, <2>3 DEF KeysTyped, ListsNumbered
    <3> QED
      BY <1>a, <2>1, <3>1, <3>2, <3>3, <3>4 DEF KeysTyped, ListsNumbered
  <2>5. KeysTyped'
    BY <1>a, <2>1, <2>4 DEF KeysTyped
  <2>6. KeysAccounted'
    BY <1>a, <2>1, Accounted
  <2>7. ASSUME RowsFresh(keysShown, keyLists, keysStored, keyMaking \cup revoking)
        PROVE  RowsFresh(keysShown, keyLists', keysStored, keyMaking \cup revoking)
    <3>1. CASE \E p \in keyLists : ListFresh(p, keyLists, keysStored)
      <4>1. PICK p \in keyLists : ListFresh(p, keyLists, keysStored)
        BY <3>1
      <4>2. CASE p = q
        <5>1. ListFresh(r, keyLists', keysStored)
          <6>1. \A o \in keyLists : o.n <= q.n
            BY <4>1, <4>2 DEF ListFresh
          <6>2. q.n <= q.n
            BY <6>1
          <6> QED
            BY <2>1, <2>3, <6>1, <6>2 DEF ListFresh
        <5> QED
          BY <2>1, <5>1 DEF RowsFresh
      <4>3. CASE p # q
        <5>1. ListFresh(p, keyLists', keysStored) /\ p \in keyLists'
          BY <2>1, <2>3, <4>1, <4>3 DEF ListFresh
        <5> QED
          BY <5>1 DEF RowsFresh
      <4> QED
        BY <4>2, <4>3
    <3> QED
      BY <2>7, <3>1 DEF RowsFresh
  <2>8. \A p \in keyLists' : p = r \/ p \in keyLists
    BY <2>1
  <2>9. RowsCurrent'
    BY <1>a, <2>1, <2>3, <2>7, <2>8 DEF RowsCurrent
  <2> QED
    BY <1>a, <1>b, <2>1, <2>5, <2>6, <2>9, NamePart, VisitsPart DEF ProfileInv, nameVars
<1>8. ASSUME NEW q \in keyLists, KeysArrive(q) PROVE ProfileInv'
  <2>1. q.at = "read" /\ keyLists' = keyLists \ {q} /\ keysShown' = q.found
        /\ newestList' = (IF q.n > newestList THEN q.n ELSE newestList)
        /\ keysVague' = (keysVague \/ q.n < newestList \/ \E p \in keyLists : p.n < q.n)
        /\ UNCHANGED <<nameVars, profileOpen, keysStored, keyMaking, revoking, keyInModal, keysSeen,
                       keysUnseen, keysMade, profileVisits, keyFaults>>
    BY <1>8 DEF KeysArrive
  <2>2. ListsNumbered(keyLists', newestList')
    BY <1>a, <2>1, ListGone DEF KeysTyped
  <2>3. keysShown' \subseteq ApiKeyId
    BY <1>a, <2>1 DEF KeysTyped, ListsNumbered, KeyList
  <2>4. KeysTyped'
    <3>1. keysVague' \in BOOLEAN
      BY <2>1
    <3> QED
      BY <1>a, <2>1, <2>2, <2>3, <3>1 DEF KeysTyped
  <2>5. KeysAccounted'
    BY <1>a, <2>1, Accounted
  <2>6. RowsCurrent'
    <3>1. SUFFICES ASSUME profileOpen, ~keysVague'
                   PROVE  /\ \A m \in keyMaking \cup revoking : m.visit = profileVisits
                          /\ \A p \in keyLists' : p.n > newestList'
                          /\ RowsFresh(keysShown', keyLists', keysStored, keyMaking \cup revoking)
      BY <2>1 DEF RowsCurrent
    <3>2. ~keysVague /\ \A p \in keyLists : ~(p.n < q.n)
      BY <2>1, <3>1
    <3>3. /\ \A m \in keyMaking \cup revoking : m.visit = profileVisits
          /\ \A p \in keyLists : p.n > newestList
          /\ RowsFresh(keysShown, keyLists, keysStored, keyMaking \cup revoking)
      BY <1>a, <3>1, <3>2 DEF RowsCurrent
    <3>4. \A p \in keyLists : p.n \in Nat /\ (p # q => p.n # q.n)
      BY <1>a DEF KeysTyped, ListsNumbered, KeyList
    <3>5. \A p \in keyLists' : p.n > q.n
      BY <2>1, <3>2, <3>4
    <3>6. newestList' = q.n
      BY <2>1, <3>3
    <3>7. RowsFresh(keysShown', keyLists', keysStored, keyMaking \cup revoking)
      <4>1. CASE \E p \in keyLists : ListFresh(p, keyLists, keysStored)
        <5>1. PICK p \in keyLists : ListFresh(p, keyLists, keysStored)
          BY <4>1
        <5>2. CASE p = q
          <6>1. keyLists' = {}
            <7>1. \A o \in keyLists' : o.n <= q.n /\ o.n > q.n /\ o.n \in Nat /\ q.n \in Nat
              BY <2>1, <3>4, <3>5, <5>1, <5>2 DEF ListFresh
            <7> QED
              BY <7>1
          <6>2. keysShown' = keysStored
            BY <2>1, <5>1, <5>2 DEF ListFresh
          <6> QED
            BY <6>1, <6>2 DEF RowsFresh
        <5>3. CASE p # q
          <6>1. p \in keyLists' /\ ListFresh(p, keyLists', keysStored)
            BY <2>1, <5>1, <5>3 DEF ListFresh
          <6> QED
            BY <6>1 DEF RowsFresh
        <5> QED
          BY <5>2, <5>3
      <4> QED
        BY <3>3, <4>1 DEF RowsFresh
    <3> QED
      BY <3>3, <3>5, <3>6, <3>7
  <2> QED
    BY <1>a, <1>b, <2>1, <2>4, <2>5, <2>6, NamePart, VisitsPart DEF ProfileInv, nameVars
<1>9. ASSUME NEW q \in keyLists, KeysFail(q) PROVE ProfileInv'
  <2>1. keyLists' = keyLists \ {q} /\ keysVague' = TRUE /\ KeyFault
        /\ newestList' = (IF q.n > newestList THEN q.n ELSE newestList)
        /\ UNCHANGED <<nameVars, profileOpen, keysStored, keysShown, keyMaking, revoking, keyInModal,
                       keysSeen, keysUnseen, keysMade, profileVisits>>
    BY <1>9 DEF KeysFail
  <2>2. ListsNumbered(keyLists', newestList')
    BY <1>a, <2>1, ListGone DEF KeysTyped
  <2>3. KeysTyped'
    BY <1>a, <2>1, <2>2 DEF KeysTyped
  <2>4. KeysAccounted'
    BY <1>a, <2>1, Accounted
  <2>5. RowsCurrent'
    BY <2>1 DEF RowsCurrent
  <2> QED
    BY <1>a, <1>b, <2>1, <2>3, <2>4, <2>5, NamePart, VisitsPart DEF ProfileInv, nameVars
<1>10. CASE GenerateKey
  <2> DEFINE new == [at |-> "asked", visit |-> profileVisits, key |-> keysMade']
  <2>1. profileOpen /\ keysMade < MaxKeys /\ keysMade' = keysMade + 1 /\ keyMaking' = keyMaking \cup {new}
        /\ UNCHANGED <<nameVars, profileOpen, keysStored, keysShown, keyLists, revoking, keyInModal,
                       keysSeen, keysUnseen, keysVague, newestList, profileVisits, keyFaults>>
    BY <1>10 DEF GenerateKey
  <2>2. keysMade \in Nat /\ keysMade' \in 0..MaxKeys /\ keysMade' \in 1..MaxKeys /\ keysMade' \in 1..keysMade'
        /\ keysMade' \notin 1..keysMade /\ \A k \in 1..keysMade : k \in 1..keysMade'
    BY <1>a, <2>1 DEF KeysAccounted
  <2>3. profileVisits \in Nat /\ profileVisits \in 1..profileVisits
    BY <1>a, <2>1 DEF VisitsTyped
  <2>4. new \in KeyAsk /\ new.visit = profileVisits /\ new.key = keysMade' /\ new.at = "asked"
    BY <2>2, <2>3 DEF KeyAsk, ApiKeyId
  <2> HIDE DEF new
  <2>5. KeysTyped'
    BY <1>a, <2>1, <2>3, <2>4 DEF KeysTyped
  <2>6. KeysAccounted'
    BY <1>a, <2>1, <2>2, <2>4 DEF KeysAccounted
  <2>7. RowsCurrent'
    <3>1. ASSUME RowsFresh(keysShown, keyLists, keysStored, keyMaking \cup revoking)
          PROVE  RowsFresh(keysShown, keyLists, keysStored, keyMaking' \cup revoking)
      BY <2>1, <3>1 DEF RowsFresh
    <3> QED
      BY <1>a, <2>1, <2>4, <3>1 DEF RowsCurrent
  <2> QED
    BY <1>a, <1>b, <2>1, <2>5, <2>6, <2>7, NamePart, VisitsPart DEF ProfileInv, nameVars
<1>11. ASSUME NEW m \in keyMaking, StoreKey(m) PROVE ProfileInv'
  <2> DEFINE d == [m EXCEPT !.at = "done"]
  <2>1. m.at = "asked" /\ keysStored' = keysStored \cup {m.key} /\ keyMaking' = (keyMaking \ {m}) \cup {d}
        /\ UNCHANGED <<nameVars, profileOpen, keysShown, keyLists, revoking, keyInModal, keysSeen,
                       keysUnseen, keysVague, newestList, keysMade, profileVisits, keyFaults>>
    BY <1>11 DEF StoreKey
  <2>2. m \in KeyAsk /\ m.key \in ApiKeyId /\ m.visit \in 1..profileVisits
    BY <1>a DEF KeysTyped, KeyAsk
  <2>3. d \in KeyAsk /\ d.key = m.key /\ d.visit = m.visit /\ d.at = "done"
    BY <2>2 DEF KeyAsk
  <2> HIDE DEF d
  <2>4. KeysTyped'
    BY <1>a, <2>1, <2>2, <2>3 DEF KeysTyped
  <2>5. KeysAccounted'
    BY <1>a, <2>1, <2>3 DEF KeysAccounted
  <2>6. RowsCurrent'
    BY <1>a, <2>1, <2>3 DEF RowsCurrent, RowsFresh
  <2> QED
    BY <1>a, <1>b, <2>1, <2>4, <2>5, <2>6, NamePart, VisitsPart DEF ProfileInv, nameVars
<1>12. ASSUME NEW m \in keyMaking, KeyGiven(m) PROVE ProfileInv'
  <2>1. m.at = "done" /\ keyMaking' = keyMaking \ {m}
        /\ UNCHANGED <<nameVars, profileOpen, keysStored, keysShown, revoking, keysVague, newestList,
                       keysMade, profileVisits, keyFaults>>
    BY <1>12 DEF KeyGiven
  <2>2. m \in KeyAsk /\ m.key \in 1..keysMade /\ m.key \notin keysSeen /\ m.key \notin keysUnseen
        /\ m.key # 0 /\ m.key \in 0..MaxKeys
    BY <1>a DEF KeysTyped, KeysAccounted
  <2>3. CASE InThisVisit(m)
    <3>1. keyInModal' = m.key /\ keysSeen' = keysSeen \cup {m.key} /\ keyLists' = WithList(keyLists)
          /\ keysUnseen' = keysUnseen
      BY <1>12, <2>3 DEF KeyGiven
    <3>2. /\ ListsNumbered(keyLists', newestList)
          /\ (\A q \in keyLists : q.n > newestList) => \A q \in keyLists' : q.n > newestList
          /\ \E q \in keyLists' : ListFresh(q, keyLists', keysStored)
      BY <1>a, <3>1, ListAsked DEF KeysTyped
    <3>3. KeysTyped'
      BY <1>a, <2>1, <3>2 DEF KeysTyped
    <3>4. KeysAccounted'
      BY <1>a, <2>1, <2>2, <3>1 DEF KeysAccounted
    <3>5. RowsCurrent'
      BY <1>a, <2>1, <3>2 DEF RowsCurrent, RowsFresh
    <3> QED
      BY <1>a, <1>b, <2>1, <3>3, <3>4, <3>5, NamePart, VisitsPart DEF ProfileInv, nameVars
  <2>4. CASE ~InThisVisit(m)
    <3>1. keysUnseen' = keysUnseen \cup {m.key} /\ UNCHANGED <<keyInModal, keysSeen, keyLists>>
      BY <1>12, <2>4 DEF KeyGiven
    <3>2. KeysTyped'
      BY <1>a, <2>1, <3>1 DEF KeysTyped
    <3>3. KeysAccounted'
      BY <1>a, <2>1, <2>2, <3>1 DEF KeysAccounted
    <3>4. RowsCurrent'
      <4>1. ~(profileOpen /\ ~keysVague)
        BY <1>a, <2>4 DEF RowsCurrent, InThisVisit
      <4> QED
        BY <2>1, <4>1 DEF RowsCurrent
    <3> QED
      BY <1>a, <1>b, <2>1, <3>2, <3>3, <3>4, NamePart, VisitsPart DEF ProfileInv, nameVars
  <2> QED
    BY <2>3, <2>4
<1>13. ASSUME NEW m \in keyMaking, KeyLost(m) PROVE ProfileInv'
  <2>1. keyMaking' = keyMaking \ {m} /\ KeyFault /\ keysVague' = TRUE /\ keysUnseen' = keysUnseen \cup {m.key}
        /\ UNCHANGED <<nameVars, profileOpen, keysStored, keysShown, keyLists, revoking, keyInModal,
                       keysSeen, newestList, keysMade, profileVisits>>
    BY <1>13 DEF KeyLost
  <2>2. m.key \in 1..keysMade /\ m.key \notin keysSeen
    BY <1>a DEF KeysAccounted
  <2>3. KeysTyped'
    BY <1>a, <2>1 DEF KeysTyped
  <2>4. KeysAccounted'
    BY <1>a, <2>1, <2>2 DEF KeysAccounted
  <2>5. RowsCurrent'
    BY <2>1 DEF RowsCurrent
  <2> QED
    BY <1>a, <1>b, <2>1, <2>3, <2>4, <2>5, NamePart, VisitsPart DEF ProfileInv, nameVars
<1>14. CASE CloseKeyModal
  <2>1. keyInModal' = 0
        /\ UNCHANGED <<nameVars, profileOpen, keysStored, keysShown, keyLists, keyMaking, revoking,
                       keysSeen, keysUnseen, keysVague, newestList, keysMade, profileVisits, keyFaults>>
    BY <1>14 DEF CloseKeyModal
  <2>2. KeysTyped'
    BY <1>a, <2>1 DEF KeysTyped
  <2>3. KeysAccounted'
    BY <1>a, <2>1, Accounted
  <2>4. RowsCurrent'
    BY <1>a, <2>1 DEF RowsCurrent
  <2> QED
    BY <1>a, <1>b, <2>1, <2>2, <2>3, <2>4, NamePart, VisitsPart DEF ProfileInv, nameVars
<1>15. ASSUME NEW k \in keysShown, AskRevokeKey(k) PROVE ProfileInv'
  <2> DEFINE new == [at |-> "asked", visit |-> profileVisits, key |-> k]
  <2>1. profileOpen /\ revoking' = revoking \cup {new}
        /\ UNCHANGED <<nameVars, profileOpen, keysStored, keysShown, keyLists, keyMaking, keyInModal,
                       keysSeen, keysUnseen, keysVague, newestList, keysMade, profileVisits, keyFaults>>
    BY <1>15 DEF AskRevokeKey
  <2>2. profileVisits \in Nat /\ profileVisits \in 1..profileVisits
    BY <1>a, <2>1 DEF VisitsTyped
  <2>3. new \in KeyAsk /\ new.visit = profileVisits
    BY <1>a, <2>2 DEF KeysTyped, KeyAsk
  <2> HIDE DEF new
  <2>4. KeysTyped'
    BY <1>a, <2>1, <2>2, <2>3 DEF KeysTyped
  <2>5. KeysAccounted'
    BY <1>a, <2>1, Accounted
  <2>6. RowsCurrent'
    BY <1>a, <2>1, <2>3 DEF RowsCurrent, RowsFresh
  <2> QED
    BY <1>a, <1>b, <2>1, <2>4, <2>5, <2>6, NamePart, VisitsPart DEF ProfileInv, nameVars
<1>16. ASSUME NEW m \in revoking, DeleteKey(m) PROVE ProfileInv'
  <2> DEFINE d == [m EXCEPT !.at = "done"]
  <2>1. m.at = "asked" /\ keysStored' = keysStored \ {m.key} /\ revoking' = (revoking \ {m}) \cup {d}
        /\ UNCHANGED <<nameVars, profileOpen, keysShown, keyLists, keyMaking, keyInModal, keysSeen,
                       keysUnseen, keysVague, newestList, keysMade, profileVisits, keyFaults>>
    BY <1>16 DEF DeleteKey
  <2>2. m \in KeyAsk /\ m.visit \in 1..profileVisits
    BY <1>a DEF KeysTyped
  <2>3. d \in KeyAsk /\ d.visit = m.visit /\ d.at = "done"
    BY <2>2 DEF KeyAsk
  <2> HIDE DEF d
  <2>4. KeysTyped'
    BY <1>a, <2>1, <2>2, <2>3 DEF KeysTyped
  <2>5. KeysAccounted'
    BY <1>a, <2>1 DEF KeysAccounted
  <2>6. RowsCurrent'
    BY <1>a, <2>1, <2>3 DEF RowsCurrent, RowsFresh
  <2> QED
    BY <1>a, <1>b, <2>1, <2>4, <2>5, <2>6, NamePart, VisitsPart DEF ProfileInv, nameVars
<1>17. ASSUME NEW m \in revoking, RevokeRefused(m) PROVE ProfileInv'
  <2>1. m.at = "asked" /\ revoking' = revoking \ {m}
        /\ UNCHANGED <<nameVars, profileOpen, keysStored, keysShown, keyLists, keyMaking, keyInModal,
                       keysSeen, keysUnseen, keysVague, newestList, keysMade, profileVisits, keyFaults>>
    BY <1>17 DEF RevokeRefused
  <2>2. KeysTyped'
    BY <1>a, <2>1 DEF KeysTyped
  <2>3. KeysAccounted'
    BY <1>a, <2>1, Accounted
  <2>4. RowsCurrent'
    BY <1>a, <2>1 DEF RowsCurrent, RowsFresh
  <2> QED
    BY <1>a, <1>b, <2>1, <2>2, <2>3, <2>4, NamePart, VisitsPart DEF ProfileInv, nameVars
<1>18. ASSUME NEW m \in revoking, KeyRevoked(m) PROVE ProfileInv'
  <2>1. revoking' = revoking \ {m}
        /\ UNCHANGED <<nameVars, profileOpen, keysStored, keysShown, keyMaking, keyInModal, keysSeen,
                       keysUnseen, keysVague, newestList, keysMade, profileVisits, keyFaults>>
    BY <1>18 DEF KeyRevoked
  <2>2. KeysAccounted'
    BY <1>a, <2>1, Accounted
  <2>3. CASE InThisVisit(m)
    <3>1. keyLists' = WithList(keyLists)
      BY <1>18, <2>3 DEF KeyRevoked
    <3>2. /\ ListsNumbered(keyLists', newestList)
          /\ (\A q \in keyLists : q.n > newestList) => \A q \in keyLists' : q.n > newestList
          /\ \E q \in keyLists' : ListFresh(q, keyLists', keysStored)
      BY <1>a, <3>1, ListAsked DEF KeysTyped
    <3>3. KeysTyped'
      BY <1>a, <2>1, <3>2 DEF KeysTyped
    <3>4. RowsCurrent'
      BY <1>a, <2>1, <3>2 DEF RowsCurrent, RowsFresh
    <3> QED
      BY <1>a, <1>b, <2>1, <2>2, <3>3, <3>4, NamePart, VisitsPart DEF ProfileInv, nameVars
  <2>4. CASE ~InThisVisit(m)
    <3>1. keyLists' = keyLists
      BY <1>18, <2>4 DEF KeyRevoked
    <3>2. KeysTyped'
      BY <1>a, <2>1, <3>1 DEF KeysTyped
    <3>3. RowsCurrent'
      <4>1. ~(profileOpen /\ ~keysVague)
        BY <1>a, <2>4 DEF RowsCurrent, InThisVisit
      <4> QED
        BY <2>1, <4>1 DEF RowsCurrent
    <3> QED
      BY <1>a, <1>b, <2>1, <2>2, <3>2, <3>3, NamePart, VisitsPart DEF ProfileInv, nameVars
  <2> QED
    BY <2>3, <2>4
<1>19. ASSUME NEW m \in revoking, RevokeLost(m) PROVE ProfileInv'
  <2>1. revoking' = revoking \ {m} /\ KeyFault /\ keysVague' = TRUE
        /\ UNCHANGED <<nameVars, profileOpen, keysStored, keysShown, keyLists, keyMaking, keyInModal,
                       keysSeen, keysUnseen, newestList, keysMade, profileVisits>>
    BY <1>19 DEF RevokeLost
  <2>2. KeysTyped'
    BY <1>a, <2>1 DEF KeysTyped
  <2>3. KeysAccounted'
    BY <1>a, <2>1, Accounted
  <2>4. RowsCurrent'
    BY <2>1 DEF RowsCurrent
  <2> QED
    BY <1>a, <1>b, <2>1, <2>2, <2>3, <2>4, NamePart, VisitsPart DEF ProfileInv, nameVars
<1>20. CASE UNCHANGED profilePageVars
  <2>1. UNCHANGED <<nameStored, userName, nameTyped, nameSaves, nameMoved, namesSaved, keyPart, profileOpen,
                    profileVisits, keyFaults>>
    BY <1>20 DEF profilePageVars, keyPart
  <2> QED
    BY <1>a, <1>b, <2>1, NamePart, KeysPart, VisitsPart DEF ProfileInv
<1> QED
  BY <1>1, <1>2, <1>3, <1>4, <1>5, <1>6, <1>7, <1>8, <1>9, <1>10, <1>11, <1>12, <1>13, <1>14, <1>15, <1>16,
     <1>17, <1>18, <1>19, <1>20 DEF ProfileNext

LEMMA ProfileShown == ProfileInv => ProfileFits /\ ProfileTypeOK
<1> SUFFICES ASSUME ProfileInv PROVE ProfileFits /\ ProfileTypeOK
  OBVIOUS
<1> USE ProfileBounds
<1>1. (profileOpen /\ ~keysVague /\ keyLists = {} /\ keyMaking = {} /\ revoking = {}) =>
          keysShown = keysStored
  BY DEF ProfileInv, RowsCurrent, RowsFresh
<1>2. /\ keysStored \ {m.key : m \in keyMaking} \subseteq keysSeen \cup keysUnseen
      /\ keyInModal # 0 => keyInModal \in keysSeen \ keysUnseen
  BY DEF ProfileInv, KeysAccounted
<1>3. (nameTyped # nameStored /\ nameSaves = {} /\ ~nameMoved /\ profileOpen) => NameCanBeSaved
  BY DEF ProfileInv, NameTyped, NameCanBeSaved
<1>4. ProfileFits
  BY <1>1, <1>2, <1>3 DEF ProfileFits
<1>5. keysSeen \subseteq ApiKeyId /\ keysUnseen \subseteq ApiKeyId
  <2>1. \A k \in 1..keysMade : k \in 1..MaxKeys
    BY DEF ProfileInv, KeysAccounted
  <2> QED
    BY <2>1 DEF ProfileInv, KeysAccounted, ApiKeyId
<1>6. \A m \in keyMaking \cup revoking :
          m.at \in {"asked", "done"} /\ m.visit \in 1..profileVisits /\ m.key \in 0..MaxKeys
  BY DEF ProfileInv, KeysTyped, KeyAsk, ApiKeyId
<1>7. \A q \in keyLists : q.at \in {"asked", "read"} /\ q.found \subseteq ApiKeyId
  BY DEF ProfileInv, KeysTyped, ListsNumbered, KeyList
<1>8. \A s \in nameSaves : s.name \in PersonName /\ s.visit \in 1..profileVisits
  BY DEF ProfileInv, NameTyped, NameAsk
<1>9. ProfileTypeOK
  BY <1>5, <1>6, <1>7, <1>8 DEF ProfileInv, ProfileTypeOK, VisitsTyped, NameTyped, KeysTyped, ListsNumbered,
     KeysAccounted
<1> QED
  BY <1>4, <1>9

\* ProfileFits in every state, for any number of keys: the keys listed at rest are the ones that
\* open the API, and a live key nobody was given is accounted for (ProfileTab.tsx, auth.ts).
THEOREM ProfileAlwaysFits == ProfileSpec => [](ProfileFits /\ ProfileTypeOK)
<1>1. ProfileInit => ProfileInv
  BY ProfileStart
<1>2. ProfileInv /\ [ProfileNext]_profilePageVars => ProfileInv'
  BY ProfileStep
<1> QED
  BY <1>1, <1>2, ProfileShown, PTL DEF ProfileSpec

----------------------------------------------------------------------------
(**************************** The members tab *****************************)

EditWell(a) ==
    /\ DOMAIN a = {"what", "of", "to", "at", "n"}
    /\ a.at \in {"asked", "done"} /\ a.n \in 1..MaxAsked
    /\ \/ a.what = "rank" /\ a.of \in Colleague /\ a.to \in Rank \cup {"gone"}
       \/ a.what = "invite" /\ a.of \in InviteId
ReadWell(q) ==
    DOMAIN q = {"n", "at", "found"} /\ q.at \in {"asked", "read"} /\ q.found \subseteq InviteId
SendWell(s, issued) ==
    /\ DOMAIN s = {"form", "i", "at"} /\ s.at \in {"asked", "done"}
    /\ s.form \in 1..issued /\ s.i \in InviteId

\* The form: an answer closes another form only if there were two, and an error is told in a
\* form that is open.
FormFits ==
    /\ formOpen \in 0..forms /\ forms \in 0..MaxForms
    /\ formTaken \in BOOLEAN /\ told \in BOOLEAN
    /\ formTaken => forms > 1
    /\ told => formOpen # 0
    /\ \A s \in sends : SendWell(s, forms)

MembersTyped ==
    /\ rankStored \in Ranks /\ rankShown \in Ranks /\ usersRead \in {"asked", "shown"}
    /\ pendingStored \subseteq InviteId /\ invitesShown \subseteq InviteId
    /\ \A q \in invitesRead : ReadWell(q)
    /\ \A a \in rowEdits : EditWell(a)
    /\ unsure \subseteq {"users", "invites"}
    /\ editsMade \in 0..MaxAsked /\ invited \in 0..MaxInvited /\ pageFaults \in 0..MaxPageFaults
    /\ FormFits

\* While no two changes of one member crossed, a member's row is the stored one, or differs
\* from it by the one change made of him and not answered yet.
UsersFit ==
    "users" \notin unsure =>
        /\ usersRead = "asked" => Change("rank") = {}
        /\ \A a, b \in Change("rank") : a.of = b.of => a = b
        /\ \A a \in Change("rank") : rankShown[a.of] # "gone"
        /\ usersRead = "shown" => \A c \in Colleague :
              \/ rankShown[c] = rankStored[c] /\ \A a \in Change("rank") : a.of = c => a.at = "asked"
              \/ \E a \in Change("rank") : a.of = c /\ a.at = "done" /\ rankStored[c] = a.to

Revoked == {a.of : a \in {b \in Change("invite") : b.at = "done"}}

\* While no list and no revocation crossed, there is one list under way at most and no
\* revocation with it, and what is not in the rows yet is what was revoked.
InvitesFit ==
    "invites" \notin unsure =>
        /\ \A q \in invitesRead : invitesRead = {q} /\ Change("invite") = {}
        /\ (\A s \in sends : s.at = "asked") =>
              /\ invitesRead = {} => invitesShown \ Revoked = pendingStored
              /\ \A q \in invitesRead : q.at = "read" => q.found = pendingStored

MembersInv == MembersTyped /\ UsersFit /\ InvitesFit

LEMMA MembersBounds ==
  /\ MaxAsked \in Nat /\ MaxInvited \in Nat /\ MaxForms \in Nat /\ MaxPageFaults \in Nat
BY MembersPageAssumption

LEMMA MembersStart == MembersPageInit => MembersInv
<1> USE MembersBounds
<1> SUFFICES ASSUME MembersPageInit PROVE MembersInv
  OBVIOUS
<1> DEFINE first == [n |-> 0, at |-> "asked", found |-> {}]
<1>1. invitesRead = {first} /\ ReadWell(first) /\ first.at = "asked"
  BY DEF MembersPageInit, ReadWell
<1> HIDE DEF first
<1>2. rankStored \in Ranks /\ rankShown \in Ranks
  BY DEF MembersPageInit, Ranks, NoUsers
<1>3. /\ rowEdits = {} /\ sends = {} /\ unsure = {} /\ usersRead = "asked" /\ pendingStored = {}
      /\ invitesShown = {} /\ formOpen = 0 /\ forms = 0 /\ told = FALSE /\ formTaken = FALSE
      /\ editsMade = 0 /\ invited = 0 /\ pageFaults = 0
  BY DEF MembersPageInit
<1>4. FormFits
  <2>1. formOpen \in 0..forms /\ forms \in 0..MaxForms
    BY <1>3
  <2> QED
    BY <1>3, <2>1 DEF FormFits
<1>5. MembersTyped
  BY <1>1, <1>2, <1>3, <1>4 DEF MembersTyped
<1>6. UsersFit /\ InvitesFit
  BY <1>1, <1>3 DEF UsersFit, InvitesFit, Change
<1> QED
  BY <1>5, <1>6 DEF MembersInv

LEMMA FaultsCounted == MembersTyped /\ PageFault => pageFaults' \in 0..MaxPageFaults
BY MembersBounds DEF MembersTyped, PageFault

LEMMA MembersTypes == MembersTyped /\ [MembersPageNext]_membersPageVars => MembersTyped'
<1> USE MembersBounds
<1> SUFFICES ASSUME MembersTyped, [MembersPageNext]_membersPageVars PROVE MembersTyped'
  OBVIOUS
<1> USE FaultsCounted DEF MembersTyped, userPart, invitePart, formPart
<1>1. ASSUME UNCHANGED formPart, UNCHANGED forms PROVE FormFits'
  BY <1>1 DEF FormFits
<1>2. ASSUME NEW part \in {"users", "invites"}, NEW when, Crossing(part, when)
      PROVE  unsure' \subseteq {"users", "invites"}
  BY <1>2 DEF Crossing
<1>3. CASE UsersArrive
  <2>1. rankShown' \in Ranks /\ unsure' \subseteq {"users", "invites"} /\ pageFaults' \in 0..MaxPageFaults
    BY <1>2, <1>3 DEF UsersArrive
  <2> QED
    BY <1>1, <1>3, <2>1 DEF UsersArrive
<1>4. ASSUME NEW q \in invitesRead, ReadInvites(q) PROVE MembersTyped'
  <2>1. ReadWell([q EXCEPT !.at = "read", !.found = pendingStored])
    BY DEF ReadWell
  <2>2. \A p \in invitesRead' : ReadWell(p)
    BY <1>4, <2>1 DEF ReadInvites
  <2> QED
    BY <1>1, <1>4, <2>2 DEF ReadInvites
<1>5. ASSUME NEW q \in invitesRead, InvitesArrive(q) PROVE MembersTyped'
  <2>1. q.found \subseteq InviteId
    BY DEF ReadWell
  <2> QED
    BY <1>1, <1>5, <2>1 DEF InvitesArrive
<1>6. ASSUME NEW q \in invitesRead, InvitesFail(q) PROVE MembersTyped'
  BY <1>1, <1>2, <1>6 DEF InvitesFail
<1>7. ASSUME NEW a, AskChange(a), EditWell(a)
      PROVE  editsMade' \in 0..MaxAsked /\ \A b \in rowEdits' : EditWell(b)
  BY <1>7 DEF AskChange
<1>8. ASSUME NEW c \in Colleague, NEW to \in Rank \cup {"gone"}, AskRank(c, to) PROVE MembersTyped'
  <2> DEFINE a == [what |-> "rank", of |-> c, to |-> to, at |-> "asked", n |-> editsMade + 1]
  <2>1. AskChange(a)
    BY <1>8 DEF AskRank
  <2>2. EditWell(a)
    BY <2>1 DEF EditWell, AskChange
  <2> HIDE DEF a
  <2>3. editsMade' \in 0..MaxAsked /\ \A b \in rowEdits' : EditWell(b)
    BY <1>7, <2>1, <2>2
  <2>4. unsure' \subseteq {"users", "invites"}
    BY <1>2, <1>8 DEF AskRank
  <2> QED
    BY <1>1, <1>8, <2>3, <2>4 DEF AskRank
<1>9. ASSUME NEW i \in invitesShown, AskRevoke(i) PROVE MembersTyped'
  <2> DEFINE a == [what |-> "invite", of |-> i, to |-> "gone", at |-> "asked", n |-> editsMade + 1]
  <2>1. AskChange(a)
    BY <1>9 DEF AskRevoke
  <2>2. EditWell(a)
    BY <2>1 DEF EditWell, AskChange
  <2> HIDE DEF a
  <2>3. editsMade' \in 0..MaxAsked /\ \A b \in rowEdits' : EditWell(b)
    BY <1>7, <2>1, <2>2
  <2>4. unsure' \subseteq {"users", "invites"}
    BY <1>2, <1>9 DEF AskRevoke
  <2> QED
    BY <1>1, <1>9, <2>3, <2>4 DEF AskRevoke
<1>10. ASSUME NEW a \in rowEdits, Serve(a) PROVE MembersTyped'
  <2>1. EditWell([a EXCEPT !.at = "done"])
    BY DEF EditWell
  <2>2. \A b \in rowEdits' : EditWell(b)
    BY <1>10, <2>1 DEF Serve
  <2>3. rankStored' \in Ranks /\ pendingStored' \subseteq InviteId
    BY <1>10 DEF Serve, EditWell, Ranks
  <2> QED
    BY <1>1, <1>10, <2>2, <2>3 DEF Serve
<1>11. ASSUME NEW a \in rowEdits, RefuseChange(a) PROVE MembersTyped'
  BY <1>1, <1>11 DEF RefuseChange
<1>12. ASSUME NEW a \in rowEdits, ChangeAnswered(a) PROVE MembersTyped'
  <2>1. rankShown' \in Ranks /\ invitesShown' \subseteq InviteId
    BY <1>12 DEF ChangeAnswered, EditWell, Ranks
  <2> QED
    BY <1>1, <1>12, <2>1 DEF ChangeAnswered
<1>13. ASSUME NEW a \in rowEdits, ChangeLost(a) PROVE MembersTyped'
  BY <1>1, <1>2, <1>13 DEF ChangeLost
<1>14. CASE OpenForm
  <2>1. FormFits'
    <3>1. /\ formOpen' = forms' /\ forms' = forms + 1 /\ forms < MaxForms /\ told' = FALSE
          /\ UNCHANGED <<sends, formTaken>>
      BY <1>14 DEF OpenForm
    <3>2. formOpen' \in 0..forms' /\ forms' \in 0..MaxForms /\ (formTaken' => forms' > 1)
      BY <3>1 DEF FormFits
    <3>3. \A s \in sends : SendWell(s, forms')
      BY <3>1 DEF FormFits, SendWell
    <3> QED
      BY <3>1, <3>2, <3>3 DEF FormFits
  <2> QED
    BY <1>14, <2>1 DEF OpenForm
<1>15. CASE CloseForm
  <2>1. FormFits'
    <3>1. formOpen' = 0 /\ told' = FALSE /\ UNCHANGED <<sends, formTaken, forms>>
      BY <1>15 DEF CloseForm
    <3>2. formOpen' \in 0..forms'
      BY <3>1 DEF FormFits
    <3> QED
      BY <3>1, <3>2 DEF FormFits
  <2> QED
    BY <1>15, <2>1 DEF CloseForm
<1>16. CASE SendInvite
  <2> DEFINE s == [form |-> formOpen, i |-> invited', at |-> "asked"]
  <2>1. /\ sends' = sends \cup {s} /\ invited' = invited + 1 /\ invited < MaxInvited
        /\ told' = FALSE /\ formOpen # 0 /\ UNCHANGED <<formOpen, formTaken, forms>>
    BY <1>16 DEF SendInvite
  <2>2. SendWell(s, forms)
    BY <2>1 DEF SendWell, FormFits, InviteId
  <2> HIDE DEF s
  <2>3. FormFits'
    BY <2>1, <2>2 DEF FormFits
  <2>4. invited' \in 0..MaxInvited
    BY <2>1
  <2> QED
    BY <1>16, <2>3, <2>4 DEF SendInvite
<1>17. ASSUME NEW s \in sends, ServeInvite(s) PROVE MembersTyped'
  <2>1. SendWell(s, forms)
    BY DEF FormFits
  <2>2. SendWell([s EXCEPT !.at = "done"], forms)
    BY <2>1 DEF SendWell
  <2>3. FormFits'
    BY <1>17, <2>2 DEF ServeInvite, FormFits
  <2>4. pendingStored' \subseteq InviteId
    BY <1>17, <2>1 DEF ServeInvite, SendWell
  <2> QED
    BY <1>17, <2>3, <2>4 DEF ServeInvite
<1>18. ASSUME NEW s \in sends, InviteSent(s) PROVE MembersTyped'
  <2>1. s.form \in 1..forms
    BY DEF FormFits, SendWell
  <2>2. FormFits'
    <3>1. /\ formOpen' = 0 /\ told' = FALSE /\ formTaken' = (formTaken \/ formOpen \notin {0, s.form})
          /\ sends' = sends \ {s} /\ forms' = forms
      BY <1>18 DEF InviteSent
    <3>2. formTaken' \in BOOLEAN /\ formOpen' \in 0..forms'
      BY <3>1 DEF FormFits
    <3>3. formTaken' => forms' > 1
      BY <2>1, <3>1 DEF FormFits
    <3> QED
      BY <3>1, <3>2, <3>3 DEF FormFits
  <2>3. ReadWell([n |-> s.i, at |-> "asked", found |-> {}])
    BY DEF ReadWell
  <2>4. \A q \in invitesRead' : ReadWell(q)
    BY <1>18, <2>3 DEF InviteSent
  <2>5. unsure' \subseteq {"users", "invites"}
    BY <1>2, <1>18 DEF InviteSent
  <2> QED
    BY <1>18, <2>2, <2>4, <2>5 DEF InviteSent
<1>19. ASSUME NEW s \in sends, InviteFails(s) PROVE MembersTyped'
  <2>1. s.form \in 1..forms
    BY DEF FormFits, SendWell
  <2>2. FormFits'
    BY <1>19, <2>1 DEF InviteFails, FormFits
  <2>3. unsure' \subseteq {"users", "invites"} /\ pageFaults' \in 0..MaxPageFaults
    BY <1>2, <1>19 DEF InviteFails
  <2> QED
    BY <1>19, <2>2, <2>3 DEF InviteFails
<1>20. CASE UNCHANGED membersPageVars
  BY <1>1, <1>20 DEF membersPageVars
<1> QED
  BY <1>3, <1>4, <1>5, <1>6, <1>8, <1>9, <1>10, <1>11, <1>12, <1>13, <1>14, <1>15, <1>16,
     <1>17, <1>18, <1>19, <1>20 DEF MembersPageNext

LEMMA UsersStayFit == MembersTyped /\ UsersFit /\ [MembersPageNext]_membersPageVars => UsersFit'
<1> SUFFICES ASSUME MembersTyped, UsersFit, [MembersPageNext]_membersPageVars,
                    "users" \notin unsure'
             PROVE  UsersFit'
  BY DEF UsersFit
<1> USE DEF userPart, Change
<1>0. /\ \A a \in rowEdits : EditWell(a)
      /\ rankStored \in Ranks /\ rankShown \in Ranks
  BY DEF MembersTyped
<1>1. ASSUME UNCHANGED userPart, rowEdits' \subseteq rowEdits, "users" \notin unsure,
             \A a \in rowEdits : a \notin rowEdits' => a.what # "rank" \/ a.at = "asked"
      PROVE  UsersFit'
  BY <1>1 DEF UsersFit
<1>2. ASSUME NEW when, Crossing("users", when) PROVE ~when /\ "users" \notin unsure
  BY <1>2 DEF Crossing
<1>3. ASSUME NEW when, Crossing("invites", when) PROVE "users" \notin unsure
  BY <1>3 DEF Crossing
<1>4. CASE UsersArrive
  <2>1. rankShown' = rankStored /\ "users" \notin unsure /\ Change("rank") = {}
        /\ UNCHANGED <<rankStored, rowEdits>> /\ usersRead' = "shown"
    BY <1>2, <1>4 DEF UsersArrive, UsersFit
  <2> QED
    BY <2>1 DEF UsersFit
<1>5. ASSUME NEW q \in invitesRead, ReadInvites(q) \/ InvitesArrive(q) \/ InvitesFail(q)
      PROVE  UsersFit'
  BY <1>1, <1>3, <1>5 DEF ReadInvites, InvitesArrive, InvitesFail
<1>6. ASSUME NEW c \in Colleague, NEW to \in Rank \cup {"gone"}, AskRank(c, to) PROVE UsersFit'
  <2> DEFINE a == [what |-> "rank", of |-> c, to |-> to, at |-> "asked", n |-> editsMade + 1]
  <2>1. /\ rowEdits' = rowEdits \cup {a} /\ usersRead = "shown" /\ rankShown[c] # "gone"
        /\ UNCHANGED userPart
    BY <1>6 DEF AskRank, AskChange
  <2>2. "users" \notin unsure /\ \A b \in Change("rank") : b.of # c
    BY <1>2, <1>6 DEF AskRank
  <2>3. a.what = "rank" /\ a.of = c /\ a.at = "asked"
    OBVIOUS
  <2> HIDE DEF a
  <2> QED
    BY <2>1, <2>2, <2>3 DEF UsersFit
<1>7. ASSUME NEW i \in invitesShown, AskRevoke(i) PROVE UsersFit'
  <2> DEFINE a == [what |-> "invite", of |-> i, to |-> "gone", at |-> "asked", n |-> editsMade + 1]
  <2>1. rowEdits' = rowEdits \cup {a} /\ UNCHANGED userPart /\ "users" \notin unsure
    BY <1>3, <1>7 DEF AskRevoke, AskChange
  <2>2. a.what # "rank"
    OBVIOUS
  <2> HIDE DEF a
  <2>3. Change("rank")' = Change("rank")
    BY <2>1, <2>2
  <2> QED
    BY <2>1, <2>3 DEF UsersFit
<1>8. ASSUME NEW a \in rowEdits, Serve(a) PROVE UsersFit'
  <2> DEFINE b == [a EXCEPT !.at = "done"]
  <2>1. /\ rowEdits' = (rowEdits \ {a}) \cup {b} /\ a.at = "asked"
        /\ UNCHANGED <<usersRead, rankShown, unsure>>
    BY <1>8 DEF Serve
  <2>2. b.what = a.what /\ b.of = a.of /\ b.to = a.to /\ b.at = "done"
    BY <1>0 DEF EditWell
  <2>3. CASE a.what = "rank"
    <3>1. a.of \in Colleague /\ rankStored' = [rankStored EXCEPT ![a.of] = a.to]
      BY <1>0, <1>8, <2>3 DEF Serve, EditWell
    <3>2. /\ rankStored'[a.of] = a.to
          /\ \A c \in Colleague : c # a.of => rankStored'[c] = rankStored[c]
      BY <1>0, <3>1 DEF Ranks
    <3>3. Change("rank")' = (Change("rank") \ {a}) \cup {b}
      BY <2>1, <2>2, <2>3
    <3>4. "users" \notin unsure /\ \A d \in Change("rank") : d.of = a.of => d = a
      BY <2>1, <2>3 DEF UsersFit
    <3>5. a \in Change("rank") /\ usersRead # "asked"
      BY <2>3, <3>4 DEF UsersFit
    <3> HIDE DEF b, Change
    <3> QED
      BY <2>1, <2>2, <3>1, <3>2, <3>3, <3>4, <3>5 DEF UsersFit
  <2>4. CASE a.what # "rank"
    <3>1. rankStored' = rankStored
      BY <1>0, <1>8, <2>4 DEF Serve
    <3>2. Change("rank")' = Change("rank")
      BY <2>1, <2>2, <2>4
    <3> QED
      BY <2>1, <3>1, <3>2 DEF UsersFit
  <2> QED
    BY <2>3, <2>4
<1>9. ASSUME NEW a \in rowEdits, RefuseChange(a) PROVE UsersFit'
  BY <1>1, <1>9 DEF RefuseChange
<1>10. ASSUME NEW a \in rowEdits, ChangeAnswered(a) PROVE UsersFit'
  <2>1. /\ rowEdits' = rowEdits \ {a} /\ a.at = "done"
        /\ UNCHANGED <<usersRead, rankStored, unsure>>
    BY <1>10 DEF ChangeAnswered
  <2>2. CASE a.what = "rank"
    <3>1. "users" \notin unsure /\ a \in Change("rank") /\ a.of \in Colleague
      BY <1>0, <2>1, <2>2 DEF EditWell
    <3>2. rankShown[a.of] # "gone" /\ usersRead # "asked"
          /\ \A d \in Change("rank") : d.of = a.of => d = a
      BY <3>1 DEF UsersFit
    <3>3. rankShown' = [rankShown EXCEPT ![a.of] = a.to]
      BY <1>10, <2>2, <3>2 DEF ChangeAnswered
    <3>4. /\ rankShown'[a.of] = a.to
          /\ \A c \in Colleague : c # a.of => rankShown'[c] = rankShown[c]
      BY <1>0, <3>1, <3>3 DEF Ranks
    <3>5. Change("rank")' = Change("rank") \ {a}
      BY <2>1
    <3>6. usersRead = "shown" => rankStored[a.of] = a.to
      BY <2>1, <3>1, <3>2 DEF UsersFit
    <3>7. \A d \in Change("rank") : d.of \in Colleague
      BY <1>0 DEF EditWell
    <3> HIDE DEF Change
    <3> QED
      BY <2>1, <3>1, <3>2, <3>4, <3>5, <3>6, <3>7 DEF UsersFit
  <2>3. CASE a.what # "rank"
    BY <1>1, <1>10, <2>1, <2>3 DEF ChangeAnswered
  <2> QED
    BY <2>2, <2>3
<1>11. ASSUME NEW a \in rowEdits, ChangeLost(a) PROVE UsersFit'
  <2>1. a.what # "rank" /\ "users" \notin unsure
    BY <1>11 DEF ChangeLost, Crossing
  <2> QED
    BY <1>1, <1>11, <2>1 DEF ChangeLost
<1>12. CASE OpenForm \/ CloseForm \/ SendInvite
  BY <1>1, <1>12 DEF OpenForm, CloseForm, SendInvite
<1>13. ASSUME NEW s \in sends, ServeInvite(s) \/ InviteSent(s) \/ InviteFails(s) PROVE UsersFit'
  BY <1>1, <1>3, <1>13 DEF ServeInvite, InviteSent, InviteFails
<1>14. CASE UNCHANGED membersPageVars
  BY <1>1, <1>14 DEF membersPageVars
<1> QED
  BY <1>4, <1>5, <1>6, <1>7, <1>8, <1>9, <1>10, <1>11, <1>12, <1>13, <1>14 DEF MembersPageNext

LEMMA InvitesStayFit ==
  MembersTyped /\ InvitesFit /\ [MembersPageNext]_membersPageVars => InvitesFit'
<1> SUFFICES ASSUME MembersTyped, InvitesFit, [MembersPageNext]_membersPageVars,
                    "invites" \notin unsure'
             PROVE  InvitesFit'
  BY DEF InvitesFit
<1> USE DEF invitePart, Change
<1>0. /\ \A a \in rowEdits : EditWell(a)
      /\ \A q \in invitesRead : ReadWell(q)
      /\ \A s \in sends : SendWell(s, forms)
  BY DEF MembersTyped, FormFits
\* Nothing of the invitations moves but requests that are withdrawn before they did anything.
<1>1. ASSUME UNCHANGED invitePart, rowEdits' \subseteq rowEdits, "invites" \notin unsure,
             \A a \in rowEdits : a \notin rowEdits' => a.what # "invite" \/ a.at = "asked",
             \/ sends' \subseteq sends /\ \A s \in sends : s \notin sends' => s.at = "asked"
             \/ \A s \in sends : s \in sends'
      PROVE  InvitesFit'
  <2>1. Revoked' = Revoked
    BY <1>1 DEF Revoked
  <2>2. (\A s \in sends' : s.at = "asked") => \A s \in sends : s.at = "asked"
    BY <1>1
  <2> QED
    BY <1>1, <2>1, <2>2 DEF InvitesFit
<1>2. ASSUME NEW when, Crossing("invites", when) PROVE ~when /\ "invites" \notin unsure
  BY <1>2 DEF Crossing
<1>3. ASSUME NEW when, Crossing("users", when) PROVE "invites" \notin unsure
  BY <1>3 DEF Crossing
<1>4. CASE UsersArrive
  BY <1>1, <1>3, <1>4 DEF UsersArrive, formPart
<1>5. ASSUME NEW q \in invitesRead, ReadInvites(q) PROVE InvitesFit'
  <2> DEFINE p == [q EXCEPT !.at = "read", !.found = pendingStored]
  <2>1. /\ invitesRead' = (invitesRead \ {q}) \cup {p}
        /\ UNCHANGED <<pendingStored, invitesShown, rowEdits, sends, unsure>>
    BY <1>5 DEF ReadInvites, formPart
  <2>2. p.found = pendingStored
    BY <1>0 DEF ReadWell
  <2> HIDE DEF p
  <2>3. invitesRead = {q} /\ Change("invite") = {}
    BY <2>1 DEF InvitesFit
  <2>4. invitesRead' = {p}
    BY <2>1, <2>3
  <2> QED
    BY <2>1, <2>2, <2>3, <2>4 DEF InvitesFit
<1>6. ASSUME NEW q \in invitesRead, InvitesArrive(q) PROVE InvitesFit'
  <2>1. /\ invitesRead' = invitesRead \ {q} /\ invitesShown' = q.found /\ q.at = "read"
        /\ UNCHANGED <<pendingStored, rowEdits, sends, unsure>>
    BY <1>6 DEF InvitesArrive, formPart
  <2>2. invitesRead = {q} /\ Change("invite") = {}
    BY <2>1 DEF InvitesFit
  <2>3. Revoked' = {} /\ invitesRead' = {}
    BY <2>1, <2>2 DEF Revoked
  <2> QED
    BY <2>1, <2>2, <2>3 DEF InvitesFit
<1>7. ASSUME NEW q \in invitesRead, InvitesFail(q) PROVE InvitesFit'
  BY <1>2, <1>7 DEF InvitesFail
<1>8. ASSUME NEW c \in Colleague, NEW to \in Rank \cup {"gone"}, AskRank(c, to) PROVE InvitesFit'
  <2> DEFINE a == [what |-> "rank", of |-> c, to |-> to, at |-> "asked", n |-> editsMade + 1]
  <2>1. rowEdits' = rowEdits \cup {a} /\ UNCHANGED <<invitePart, sends>> /\ "invites" \notin unsure
    BY <1>3, <1>8 DEF AskRank, AskChange, formPart
  <2>2. a.what # "invite"
    OBVIOUS
  <2> HIDE DEF a
  <2>3. Change("invite")' = Change("invite")
    BY <2>1, <2>2
  <2>4. Revoked' = Revoked
    BY <2>3 DEF Revoked
  <2> QED
    BY <2>1, <2>3, <2>4 DEF InvitesFit
<1>9. ASSUME NEW i \in invitesShown, AskRevoke(i) PROVE InvitesFit'
  <2> DEFINE a == [what |-> "invite", of |-> i, to |-> "gone", at |-> "asked", n |-> editsMade + 1]
  <2>1. /\ rowEdits' = rowEdits \cup {a} /\ UNCHANGED <<invitePart, sends>>
        /\ "invites" \notin unsure /\ invitesRead = {}
    BY <1>2, <1>9 DEF AskRevoke, AskChange, formPart
  <2>2. a.at # "done"
    OBVIOUS
  <2> HIDE DEF a
  <2>3. Revoked' = Revoked
    BY <2>1, <2>2 DEF Revoked
  <2> QED
    BY <2>1, <2>3 DEF InvitesFit
<1>10. ASSUME NEW a \in rowEdits, Serve(a) PROVE InvitesFit'
  <2> DEFINE b == [a EXCEPT !.at = "done"]
  <2>1. /\ rowEdits' = (rowEdits \ {a}) \cup {b} /\ a.at = "asked"
        /\ UNCHANGED <<invitesRead, invitesShown, sends, unsure>>
    BY <1>10 DEF Serve, formPart
  <2>2. b.what = a.what /\ b.of = a.of /\ b.at = "done"
    BY <1>0 DEF EditWell
  <2>3. CASE a.what = "rank"
    <3>1. pendingStored' = pendingStored
      BY <1>10, <2>3 DEF Serve
    <3>2. Change("invite")' = Change("invite")
      BY <2>1, <2>2, <2>3
    <3>3. Revoked' = Revoked
      BY <3>2 DEF Revoked
    <3> QED
      BY <2>1, <3>1, <3>2, <3>3 DEF InvitesFit
  <2>4. CASE a.what # "rank"
    <3>1. a.what = "invite" /\ pendingStored' = pendingStored \ {a.of}
      BY <1>0, <1>10, <2>4 DEF Serve, EditWell
    <3>2. Revoked' = Revoked \cup {a.of}
      BY <2>1, <2>2, <3>1 DEF Revoked
    <3>3. invitesRead = {}
      BY <2>1, <3>1 DEF InvitesFit
    <3> QED
      BY <2>1, <3>1, <3>2, <3>3 DEF InvitesFit
  <2> QED
    BY <2>3, <2>4
<1>11. ASSUME NEW a \in rowEdits, RefuseChange(a) PROVE InvitesFit'
  BY <1>1, <1>11 DEF RefuseChange, formPart
<1>12. ASSUME NEW a \in rowEdits, ChangeAnswered(a) PROVE InvitesFit'
  <2>1. /\ rowEdits' = rowEdits \ {a} /\ a.at = "done"
        /\ UNCHANGED <<pendingStored, invitesRead, sends, unsure>>
    BY <1>12 DEF ChangeAnswered, formPart
  <2>2. CASE a.what = "rank"
    BY <1>1, <1>12, <2>1, <2>2 DEF ChangeAnswered
  <2>3. CASE a.what # "rank"
    <3>1. a \in Change("invite") /\ invitesShown' = invitesShown \ {a.of}
      BY <1>0, <1>12, <2>3 DEF ChangeAnswered, EditWell
    <3>2. Revoked = Revoked' \cup {a.of}
      BY <2>1, <3>1 DEF Revoked
    <3>3. invitesRead = {}
      BY <2>1, <3>1 DEF InvitesFit
    <3> QED
      BY <2>1, <3>1, <3>2, <3>3 DEF InvitesFit
  <2> QED
    BY <2>2, <2>3
<1>13. ASSUME NEW a \in rowEdits, ChangeLost(a) PROVE InvitesFit'
  <2>1. a.what = "rank" /\ "invites" \notin unsure
    BY <1>0, <1>13 DEF ChangeLost, Crossing
  <2> QED
    BY <1>1, <1>13, <2>1 DEF ChangeLost, formPart
<1>14. CASE OpenForm \/ CloseForm
  BY <1>1, <1>14 DEF OpenForm, CloseForm
<1>15. CASE SendInvite
  BY <1>1, <1>15 DEF SendInvite
<1>16. ASSUME NEW s \in sends, ServeInvite(s) PROVE InvitesFit'
  <2> DEFINE t == [s EXCEPT !.at = "done"]
  <2>1. /\ sends' = (sends \ {s}) \cup {t}
        /\ UNCHANGED <<invitesRead, invitesShown, rowEdits, unsure>>
    BY <1>16 DEF ServeInvite
  <2>2. t.at = "done"
    BY <1>0 DEF SendWell
  <2> HIDE DEF t
  <2> QED
    BY <2>1, <2>2 DEF InvitesFit
<1>17. ASSUME NEW s \in sends, InviteSent(s) PROVE InvitesFit'
  <2> DEFINE q == [n |-> s.i, at |-> "asked", found |-> {}]
  <2>1. invitesRead' = invitesRead \cup {q} /\ UNCHANGED rowEdits
    BY <1>17 DEF InviteSent
  <2>2. q.at = "asked"
    OBVIOUS
  <2> HIDE DEF q
  <2>3. invitesRead = {} /\ Change("invite") = {}
    BY <1>2, <1>17 DEF InviteSent
  <2> QED
    BY <2>1, <2>2, <2>3 DEF InvitesFit
<1>18. ASSUME NEW s \in sends, InviteFails(s) PROVE InvitesFit'
  <2>1. s.at = "asked" /\ "invites" \notin unsure
    BY <1>2, <1>18 DEF InviteFails
  <2> QED
    BY <1>1, <1>18, <2>1 DEF InviteFails
<1>19. CASE UNCHANGED membersPageVars
  BY <1>1, <1>19 DEF membersPageVars
<1> QED
  BY <1>4, <1>5, <1>6, <1>7, <1>8, <1>9, <1>10, <1>11, <1>12, <1>13, <1>14, <1>15, <1>16,
     <1>17, <1>18, <1>19 DEF MembersPageNext

LEMMA MembersStep == MembersInv /\ [MembersPageNext]_membersPageVars => MembersInv'
BY MembersTypes, UsersStayFit, InvitesStayFit DEF MembersInv

LEMMA MembersFit == MembersInv => MembersPageFits /\ MembersPageTypeOK
<1> SUFFICES ASSUME MembersTyped, UsersFit, InvitesFit PROVE MembersPageFits /\ MembersPageTypeOK
  BY DEF MembersInv
<1>1. ("users" \notin unsure /\ usersRead = "shown" /\ Change("rank") = {}) => rankShown = rankStored
  BY DEF MembersTyped, UsersFit, Ranks
<1>2. ("invites" \notin unsure /\ invitesRead = {} /\ Change("invite") = {} /\ sends = {}) =>
          invitesShown = pendingStored
  BY DEF InvitesFit, Revoked
<1>3. MembersPageTypeOK
  <2>1. \A s \in sends : s.at \in {"asked", "done"} /\ s.form \in 1..forms
    BY DEF MembersTyped, FormFits, SendWell
  <2>2. formOpen \in 0..MaxForms
    BY MembersBounds DEF MembersTyped, FormFits
  <2> QED
    BY <2>1, <2>2 DEF MembersTyped, FormFits, ReadWell, EditWell, MembersPageTypeOK
<1> QED
  BY <1>1, <1>2, <1>3 DEF MembersPageFits, MembersTyped, FormFits

\* MembersPageFits in every state, for any members and invitations: the rows at rest are what
\* is stored, so nobody seems to keep a role that was taken (MembersTab.tsx, InviteModal.tsx).
THEOREM MembersPageAlwaysFits == MembersPageSpec => [](MembersPageFits /\ MembersPageTypeOK)
BY MembersStart, MembersStep, MembersFit, PTL DEF MembersPageSpec

----------------------------------------------------------------------------
(*************************** The variables tab ****************************)

\* The contents typed so far are numbered from 1.
Contents == 1..Cardinality(DOMAIN typedFor)

TypedWell(keyed) ==
    keyed \in [1..Cardinality(DOMAIN keyed) -> Shop] /\ Cardinality(DOMAIN keyed) \in 0..MaxTyped
ListsWell(reads) ==
    \A q \in reads : /\ DOMAIN q = {"n", "shop", "at", "found"}
                     /\ q.at \in {"asked", "read"} /\ q.shop \in Shop /\ q.found \subseteq VarRow
SaveWell(save) == save = NoVarSave \/ save \in [at : {"asked", "done"}, shop : Shop,
                                               id : 0..MaxTabVars, content : Texts]
DropsWell(drops) ==
    \A d \in drops : /\ DOMAIN d = {"n", "id", "shop", "at", "editing"}
                     /\ d.at \in {"asked", "done"} /\ d.id \in VarId /\ d.shop \in Shop
StoredWell(held) == held \subseteq [id : VarId, shop : Shop, content : Texts]
FormWell(filled) == filled \in [id : 0..MaxTabVars, content : 0..MaxTyped]

VarTyped ==
    /\ StoredWell(varStored) /\ shopPicked \in Shop /\ varRows \subseteq VarRow
    /\ varsLoading \in BOOLEAN /\ rowsUnsure \in BOOLEAN
    /\ ListsWell(varLists) /\ FormWell(varForm) /\ SaveWell(varSave) /\ DropsWell(varDrops)
    /\ TypedWell(typedFor)
    /\ varDropping \in 0..MaxTabVars /\ varsMade \in 0..MaxTabVars
    /\ acts \in 0..MaxActs /\ varFaults \in 0..MaxVarFaults

\* What is stored under an id, if anything, is of the project a content was typed for.
Owned(x, held, keyed) == \A v \in held : v.id = x.id => v.shop = keyed[x.content]

\* What a save of a form would put: something typed for its project, or for the variable's.
Fitting(x, shop, held, keyed, counted) ==
    /\ x.content \in DOMAIN keyed /\ x.id <= counted
    /\ keyed[x.content] = shop \/ (x.id # 0 /\ Owned(x, held, keyed))

\* Rows may be another project's, but each is a variable as it was once.
Rowed(table, held, keyed, counted) ==
    \A r \in table : r.content \in DOMAIN keyed /\ r.id <= counted /\ Owned(r, held, keyed)

VarOwned ==
    /\ \A v \in varStored : /\ v.id <= varsMade /\ v.content \in DOMAIN typedFor
                            /\ typedFor[v.content] = v.shop
    /\ \A v, w \in varStored : v.id = w.id => v = w
    /\ Rowed(varRows, varStored, typedFor, varsMade)
    /\ \A q \in varLists : Rowed(q.found, varStored, typedFor, varsMade)
    /\ varForm.id <= varsMade
    /\ varForm.content # 0 => Fitting(varForm, shopPicked, varStored, typedFor, varsMade)
    /\ varSave # NoVarSave => Fitting(varSave, varSave.shop, varStored, typedFor, varsMade)

\* No change of the variables waits for the list that tells it.
Told == varSave.at # "done" /\ \A d \in varDrops : d.at # "done"

\* While nothing crossed there is one list at most, of the project selected; it, or the rows
\* once it arrived, is what is stored unless a change is still to be told.
VarCurrent ==
    ~rowsUnsure =>
        /\ \A q \in varLists : q.shop = shopPicked /\ varLists = {q}
        /\ Told /\ varLists = {} => varRows = RowsOf(shopPicked)
        /\ Told => \A q \in varLists : q.at = "read" => q.found = RowsOf(shopPicked)

VarInv == VarTyped /\ VarOwned /\ VarCurrent

LEMMA VarBounds == /\ MaxTabVars \in Nat /\ MaxTyped \in Nat /\ MaxActs \in Nat
                   /\ MaxVarFaults \in Nat /\ Shop # {}
BY VariablesTabAssumption

LEMMA VarStart == VariablesTabInit => VarInv
<1> USE VarBounds
<1> SUFFICES ASSUME VariablesTabInit PROVE VarInv
  OBVIOUS
<1>1. DOMAIN typedFor = {} /\ Cardinality(DOMAIN typedFor) = 0 /\ 1..0 = {}
  <2>1. DOMAIN typedFor = {}
    BY DEF VariablesTabInit
  <2> QED
    BY <2>1, FS_EmptySet
<1>2. typedFor \in [1..0 -> Shop]
  <2>1. typedFor = [k \in {} |-> 0]
    BY <1>1 DEF VariablesTabInit
  <2> QED
    BY <1>1, <2>1
<1>3. shopPicked \in Shop
  BY DEF VariablesTabInit
<1>4. VarTyped
  <2>1. TypedWell(typedFor)
    BY <1>1, <1>2 DEF TypedWell
  <2>2. ListsWell(varLists) /\ FormWell(varForm) /\ SaveWell(varSave) /\ DropsWell(varDrops)
    BY <1>3 DEF VariablesTabInit, ListsWell, FormWell, EmptyForm, SaveWell, DropsWell
  <2>3. varStored = {} /\ StoredWell({})
    BY DEF VariablesTabInit, StoredWell
  <2> QED
    <3>1. /\ varRows = {} /\ varsLoading = TRUE /\ rowsUnsure = FALSE /\ varDropping = 0
          /\ varsMade = 0 /\ acts = 0 /\ varFaults = 0
      BY DEF VariablesTabInit
    <3>2. 0 \in 0..MaxTabVars /\ 0 \in 0..MaxActs /\ 0 \in 0..MaxVarFaults
      OBVIOUS
    <3>3. StoredWell(varStored) /\ varRows \subseteq VarRow
      BY <2>3, <3>1
    <3>4. varsLoading \in BOOLEAN /\ rowsUnsure \in BOOLEAN
      BY <3>1
    <3> QED
      BY <1>3, <2>1, <2>2, <3>1, <3>2, <3>3, <3>4 DEF VarTyped
<1>5. VarOwned
  <2>1. varForm.id = 0 /\ varForm.content = 0
    BY DEF VariablesTabInit, EmptyForm
  <2>2. \A q \in varLists : q.found = {}
    BY DEF VariablesTabInit
  <2> QED
    BY <2>1, <2>2 DEF VariablesTabInit, VarOwned, Rowed
<1>6. VarCurrent
  <2> DEFINE pending == [n |-> 0, shop |-> shopPicked, at |-> "asked", found |-> {}]
  <2>1. varLists = {pending}
    BY DEF VariablesTabInit
  <2>2. pending.shop = shopPicked /\ pending.at = "asked"
    OBVIOUS
  <2> HIDE DEF pending
  <2> QED
    BY <2>1, <2>2 DEF VarCurrent
<1> QED
  BY <1>4, <1>5, <1>6 DEF VarInv

LEMMA RowsTyped == ASSUME VarTyped, NEW s PROVE RowsOf(s) \subseteq VarRow
BY DEF VarTyped, StoredWell, RowsOf, VarRow

\* A content typed gets the next number, for the project selected.
LEMMA ContentTyped ==
  ASSUME VarTyped, TypeVar
  PROVE  \E n \in 1..MaxTyped :
           /\ DOMAIN typedFor = 1..(n - 1) /\ DOMAIN typedFor' = 1..n
           /\ typedFor'[n] = shopPicked /\ \A k \in DOMAIN typedFor : typedFor'[k] = typedFor[k]
           /\ TypedWell(typedFor') /\ varForm' = [varForm EXCEPT !.content = n]
<1> USE VarBounds
<1> DEFINE m == Cardinality(DOMAIN typedFor)
           n == m + 1
<1>1. /\ typedFor' = [k \in 1..n |-> IF k = n THEN shopPicked ELSE typedFor[k]]
      /\ varForm' = [varForm EXCEPT !.content = n] /\ m < MaxTyped
  BY DEF TypeVar
<1>2. typedFor \in [1..m -> Shop] /\ shopPicked \in Shop
  BY DEF VarTyped, TypedWell
<1>3. m \in Nat
  BY DEF VarTyped, TypedWell
<1>4. Cardinality(1..n) = n
  BY <1>3, FS_Interval
<1> HIDE DEF m
<1>5. n \in 1..MaxTyped /\ m = n - 1 /\ \A k \in 1..n : k # n => k \in 1..m
  BY <1>1, <1>3
<1>6. typedFor' \in [1..n -> Shop] /\ DOMAIN typedFor' = 1..n
  BY <1>1, <1>2, <1>5
<1>7. TypedWell(typedFor')
  BY <1>4, <1>5, <1>6 DEF TypedWell
<1>8. typedFor'[n] = shopPicked /\ \A k \in DOMAIN typedFor : typedFor'[k] = typedFor[k]
  BY <1>1, <1>2, <1>3
<1> QED
  BY <1>1, <1>2, <1>5, <1>6, <1>7, <1>8

LEMMA FaultCounted == VarTyped /\ VarFault => varFaults' \in 0..MaxVarFaults
BY VarBounds DEF VarTyped, VarFault

LEMMA VarTypes == VarTyped /\ [VariablesTabNext]_variablesTabVars => VarTyped'
<1> USE VarBounds
<1> SUFFICES ASSUME VarTyped, [VariablesTabNext]_variablesTabVars PROVE VarTyped'
  OBVIOUS
<1> USE DEF VarTyped
<1>1. ASSUME NEW s \in Shop, NEW chosen, LoadVars(s, chosen)
      PROVE  ListsWell(varLists') /\ varsLoading' \in BOOLEAN /\ rowsUnsure' \in BOOLEAN
  BY <1>1 DEF LoadVars, ListsWell
<1>0. FormWell(EmptyForm) /\ SaveWell(NoVarSave)
  BY DEF FormWell, EmptyForm, SaveWell
<1>2. ASSUME NEW s \in Shop, PickShop(s) PROVE VarTyped'
  BY <1>0, <1>1, <1>2 DEF PickShop, Act
<1>3. ASSUME NEW q \in varLists, ServeVars(q) PROVE VarTyped'
  <2>1. ListsWell(varLists')
    <3>1. RowsOf(q.shop) \subseteq VarRow
      BY RowsTyped
    <3>2. varLists' = (varLists \ {q}) \cup {[q EXCEPT !.at = "read", !.found = RowsOf(q.shop)]}
      BY <1>3 DEF ServeVars
    <3> QED
      BY <3>1, <3>2 DEF ListsWell
  <2> QED
    BY <1>3, <2>1 DEF ServeVars
<1>4. ASSUME NEW q \in varLists, VarsArrive(q) PROVE VarTyped'
  <2>1. ListsWell(varLists') /\ q.found \subseteq VarRow
    BY <1>4 DEF VarsArrive, ListsWell
  <2> QED
    BY <1>4, <2>1 DEF VarsArrive
<1>5. ASSUME NEW q \in varLists, VarsFail(q) PROVE VarTyped'
  <2>1. ListsWell(varLists')
    BY <1>5 DEF VarsFail, ListsWell
  <2> QED
    BY <1>5, <2>1, FaultCounted DEF VarsFail
<1>6. ASSUME NEW r \in varRows, EditVar(r) PROVE VarTyped'
  <2>1. FormWell(r)
    BY <1>6 DEF FormWell, VarRow, VarId, Texts
  <2> QED
    BY <1>6, <2>1 DEF EditVar
<1>7. CASE CancelEdit
  BY <1>0, <1>7 DEF CancelEdit
<1>8. CASE TypeVar
  <2>1. TypedWell(typedFor') /\ FormWell(varForm')
    BY <1>8, ContentTyped DEF FormWell
  <2> QED
    BY <1>8, <2>1 DEF TypeVar
<1>9. CASE SubmitVar
  <2>1. SaveWell(varSave')
    BY <1>9 DEF SubmitVar, SaveWell, FormWell, Texts
  <2> QED
    BY <1>9, <2>1 DEF SubmitVar, Act
<1>10. CASE StoreVar
  <2>1. varSave \in [at : {"asked", "done"}, shop : Shop, id : 0..MaxTabVars, content : Texts]
        /\ varSave' = [varSave EXCEPT !.at = "done"]
    BY <1>10 DEF StoreVar, NoVarSave, SaveWell
  <2>2. SaveWell(varSave')
    BY <2>1 DEF SaveWell
  <2>3. StoredWell(varStored') /\ varsMade' \in 0..MaxTabVars
    <3>1. CASE varsMade < MaxTabVars /\ varsMade' = varsMade + 1
               /\ varStored' = varStored \cup
                    {[id |-> varsMade', shop |-> varSave.shop, content |-> varSave.content]}
      BY <2>1, <3>1 DEF StoredWell, VarId
    <3>2. CASE varsMade' = varsMade
               /\ varStored' = (varStored \ Named(varSave.id, varSave.shop)) \cup
                    {[v EXCEPT !.content = varSave.content] : v \in Named(varSave.id, varSave.shop)}
      BY <2>1, <3>2 DEF StoredWell, Named
    <3> QED
      BY <1>10, <3>1, <3>2 DEF StoreVar
  <2> QED
    BY <1>10, <2>2, <2>3 DEF StoreVar
<1>11. CASE VarSaved
  <2>1. varSave.shop \in Shop
    BY <1>11 DEF VarSaved, NoVarSave, SaveWell
  <2> QED
    BY <1>0, <1>1, <1>11, <2>1 DEF VarSaved
<1>12. CASE VarSaveFails
  BY <1>0, <1>12, FaultCounted DEF VarSaveFails
<1>13. ASSUME NEW r \in varRows, DropVar(r) PROVE VarTyped'
  <2>1. r.id \in VarId
    BY <1>13 DEF VarRow
  <2>2. DropsWell(varDrops')
    BY <1>13, <2>1 DEF DropVar, DropsWell
  <2> QED
    BY <1>13, <2>1, <2>2 DEF DropVar, Act, VarId
<1>14. ASSUME NEW d \in varDrops, RemoveVar(d) PROVE VarTyped'
  <2>1. DropsWell(varDrops') /\ StoredWell(varStored')
    BY <1>14 DEF RemoveVar, DropsWell, StoredWell
  <2> QED
    BY <1>14, <2>1 DEF RemoveVar
<1>15. ASSUME NEW d \in varDrops, VarDropped(d) PROVE VarTyped'
  <2>1. d.shop \in Shop /\ DropsWell(varDrops')
    BY <1>15 DEF VarDropped, DropsWell
  <2>2. FormWell(varForm')
    BY <1>0, <1>15 DEF VarDropped
  <2> QED
    BY <1>1, <1>15, <2>1, <2>2 DEF VarDropped
<1>16. ASSUME NEW d \in varDrops, VarDropFails(d) PROVE VarTyped'
  <2>1. DropsWell(varDrops')
    BY <1>16 DEF VarDropFails, DropsWell
  <2> QED
    <3>1. rowsUnsure' \in BOOLEAN /\ varFaults' \in 0..MaxVarFaults
      BY <1>16, FaultCounted DEF VarDropFails
    <3> QED
      BY <1>16, <2>1, <3>1 DEF VarDropFails
<1>17. CASE UNCHANGED variablesTabVars
  BY <1>17 DEF variablesTabVars
<1> QED
  BY <1>2, <1>3, <1>4, <1>5, <1>6, <1>7, <1>8, <1>9, <1>10, <1>11, <1>12, <1>13, <1>14,
     <1>15, <1>16, <1>17 DEF VariablesTabNext

LEMMA RowsOwned == ASSUME VarTyped, VarOwned, NEW s
                   PROVE  Rowed(RowsOf(s), varStored, typedFor, varsMade)
<1> SUFFICES ASSUME NEW v \in varStored
             PROVE  /\ v.content \in DOMAIN typedFor /\ v.id <= varsMade
                    /\ \A w \in varStored : w.id = v.id => w.shop = typedFor[v.content]
  BY DEF Rowed, RowsOf, Owned
<1> QED
  BY DEF VarOwned

LEMMA VarOwns == VarTyped /\ VarOwned /\ [VariablesTabNext]_variablesTabVars => VarOwned'
<1> USE VarBounds
<1> SUFFICES ASSUME VarTyped, VarOwned, [VariablesTabNext]_variablesTabVars PROVE VarOwned'
  OBVIOUS
<1>0. /\ varsMade \in Nat /\ varForm.id \in Nat
      /\ \A v \in varStored : v.id \in 1..MaxTabVars /\ v = [id |-> v.id, shop |-> v.shop, content |-> v.content]
      /\ varSave # NoVarSave => varSave.id \in Nat
      /\ \A r \in varRows : r.id \in Nat /\ r.id # 0
      /\ \A q \in varLists : \A r \in q.found : r.id \in Nat
  BY DEF VarTyped, StoredWell, FormWell, SaveWell, ListsWell, VarId, VarRow
<1>1. ASSUME NEW s \in Shop, NEW chosen, LoadVars(s, chosen)
      PROVE  \A q \in varLists' : q \in varLists \/ q.found = {}
  BY <1>1 DEF LoadVars
<1>2. ASSUME NEW s \in Shop, PickShop(s) PROVE VarOwned'
  BY <1>0, <1>1, <1>2 DEF PickShop, EmptyForm, VarOwned, Rowed
<1>3. ASSUME NEW q \in varLists, ServeVars(q) PROVE VarOwned'
  <2>1. [q EXCEPT !.at = "read", !.found = RowsOf(q.shop)].found = RowsOf(q.shop)
    BY DEF VarTyped, ListsWell
  <2>2. Rowed(RowsOf(q.shop), varStored, typedFor, varsMade)
    BY RowsOwned
  <2>3. \A p \in varLists' : p \in varLists \/ p.found = RowsOf(q.shop)
    BY <1>3, <2>1 DEF ServeVars
  <2> QED
    BY <1>3, <2>2, <2>3 DEF ServeVars, VarOwned
<1>4. ASSUME NEW q \in varLists, VarsArrive(q) PROVE VarOwned'
  BY <1>4 DEF VarsArrive, VarOwned
<1>5. ASSUME NEW q \in varLists, VarsFail(q) PROVE VarOwned'
  BY <1>5 DEF VarsFail, VarOwned
<1>6. ASSUME NEW r \in varRows, EditVar(r) PROVE VarOwned'
  BY <1>0, <1>6 DEF EditVar, VarOwned, Rowed, Fitting
<1>7. CASE CancelEdit
  BY <1>0, <1>7 DEF CancelEdit, VarOwned, EmptyForm
<1>8. CASE TypeVar
  <2>1. UNCHANGED <<varStored, shopPicked, varRows, varLists, varSave, varsMade>>
    BY <1>8 DEF TypeVar
  <2>2. PICK n \in 1..MaxTyped :
           /\ DOMAIN typedFor = 1..(n - 1) /\ DOMAIN typedFor' = 1..n
           /\ typedFor'[n] = shopPicked /\ \A k \in DOMAIN typedFor : typedFor'[k] = typedFor[k]
           /\ varForm' = [varForm EXCEPT !.content = n]
    BY <1>8, ContentTyped
  <2>3. n \in DOMAIN typedFor' /\ \A k \in DOMAIN typedFor : k \in DOMAIN typedFor'
    BY <2>2
  <2>4. varForm'.content = n /\ varForm'.id = varForm.id
    BY <2>2 DEF VarTyped, FormWell
  <2>5. \A table : Rowed(table, varStored, typedFor, varsMade) => Rowed(table, varStored, typedFor', varsMade)
    BY <2>2, <2>3 DEF Rowed, Owned
  <2>6. Fitting(varForm', shopPicked, varStored, typedFor', varsMade)
    BY <2>2, <2>3, <2>4 DEF Fitting, VarOwned
  <2>7. varSave # NoVarSave => Fitting(varSave, varSave.shop, varStored, typedFor', varsMade)
    BY <2>2, <2>3 DEF Fitting, Owned, VarOwned
  <2> QED
    BY <2>1, <2>2, <2>3, <2>4, <2>5, <2>6, <2>7 DEF VarOwned
<1>9. CASE SubmitVar
  <2>1. /\ varSave' = [at |-> "asked", shop |-> shopPicked, id |-> varForm.id,
                        content |-> varForm.content]
        /\ varForm.content # 0
        /\ UNCHANGED <<varStored, shopPicked, varRows, varLists, varForm, typedFor, varsMade>>
    BY <1>9 DEF SubmitVar
  <2>2. Fitting(varSave', varSave'.shop, varStored, typedFor, varsMade)
    BY <2>1 DEF Fitting, Owned, VarOwned
  <2> QED
    BY <2>1, <2>2 DEF VarOwned
<1>10. CASE StoreVar
  <2>1. varSave \in [at : {"asked", "done"}, shop : Shop, id : 0..MaxTabVars, content : Texts]
        /\ varSave' = [varSave EXCEPT !.at = "done"] /\ varSave # NoVarSave
    BY <1>10 DEF StoreVar, NoVarSave, VarTyped, SaveWell
  <2>2. /\ varSave'.shop = varSave.shop /\ varSave'.id = varSave.id
        /\ varSave'.content = varSave.content
        /\ UNCHANGED <<shopPicked, varRows, varLists, varForm, typedFor>>
    BY <1>10, <2>1 DEF StoreVar
  <2>3. Fitting(varSave, varSave.shop, varStored, typedFor, varsMade)
    BY <2>1 DEF VarOwned
  \* A variable stored before keeps its id and project, or a new one has a new id.
  <2>4. /\ varsMade' \in Nat /\ varsMade <= varsMade'
        /\ \A v \in varStored' : \/ v.id = varsMade + 1 /\ v.id = varsMade'
                                 \/ \E w \in varStored : v.id = w.id /\ v.shop = w.shop
        /\ \A v \in varStored' : /\ v.id <= varsMade' /\ v.content \in DOMAIN typedFor
                                 /\ typedFor[v.content] = v.shop
        /\ \A v, w \in varStored' : v.id = w.id => v = w
    <3> DEFINE new == [id |-> varsMade + 1, shop |-> varSave.shop, content |-> varSave.content]
               named == Named(varSave.id, varSave.shop)
    <3>1. CASE varSave.id = 0 /\ varsMade' = varsMade + 1 /\ varStored' = varStored \cup {new}
      <4>1. typedFor[varSave.content] = varSave.shop /\ varSave.content \in DOMAIN typedFor
        BY <2>3, <3>1 DEF Fitting
      <4>2. \A v \in varStored : v.id # varsMade + 1 /\ v.id <= varsMade + 1
        BY <1>0 DEF VarOwned
      <4> QED
        BY <1>0, <3>1, <4>1, <4>2 DEF VarOwned
    <3>2. CASE /\ varsMade' = varsMade
               /\ varStored' = (varStored \ named) \cup {[v EXCEPT !.content = varSave.content] : v \in named}
      <4>1. \A v \in named : /\ v \in varStored /\ v.id = varSave.id /\ v.shop = varSave.shop
                             /\ [v EXCEPT !.content = varSave.content]
                                  = [id |-> v.id, shop |-> v.shop, content |-> varSave.content]
        BY <1>0 DEF Named
      <4>2. \A v \in varStored' : \/ v \in varStored /\ v \notin named
                                  \/ \E w \in named : v = [id |-> w.id, shop |-> w.shop,
                                                           content |-> varSave.content]
        BY <3>2, <4>1
      <4>3. \A w \in named : typedFor[varSave.content] = w.shop
        BY <2>3, <4>1 DEF Fitting, Owned
      <4>4. varSave.content \in DOMAIN typedFor
        BY <2>3 DEF Fitting
      <4> HIDE DEF named
      <4>5. \A v \in varStored' : \E w \in varStored :
                 /\ v.id = w.id /\ v.shop = w.shop
                 /\ IF w \in named THEN v.content = varSave.content ELSE v = w
        <5> TAKE v \in varStored'
        <5>1. CASE v \in varStored /\ v \notin named
          BY <5>1
        <5>2. ASSUME NEW w \in named, v = [id |-> w.id, shop |-> w.shop, content |-> varSave.content]
              PROVE  v.id = w.id /\ v.shop = w.shop /\ v.content = varSave.content /\ w \in varStored
          BY <4>1, <5>2
        <5> QED
          BY <4>2, <5>1, <5>2
      <4>6. \A v \in varStored' : /\ v.id <= varsMade' /\ v.content \in DOMAIN typedFor
                                  /\ typedFor[v.content] = v.shop
        BY <3>2, <4>3, <4>4, <4>5 DEF VarOwned
      <4>7. \A v \in varStored' : v = [id |-> v.id, shop |-> v.shop, content |-> v.content]
        BY <1>0, <4>2
      <4>8. \A v, w \in varStored' : v.id = w.id => v = w
        BY <4>5, <4>7 DEF VarOwned
      <4> QED
        BY <1>0, <3>2, <4>5, <4>6, <4>8
    <3> QED
      BY <1>10, <3>1, <3>2 DEF StoreVar
  <2>5. ASSUME NEW x, x.id \in Nat, x.id <= varsMade, Owned(x, varStored, typedFor)
        PROVE  Owned(x, varStored', typedFor)
    BY <1>0, <2>4, <2>5 DEF Owned
  <2>6. ASSUME NEW table, \A r \in table : r.id \in Nat, Rowed(table, varStored, typedFor, varsMade)
        PROVE  Rowed(table, varStored', typedFor, varsMade')
    BY <1>0, <2>4, <2>5, <2>6 DEF Rowed
  <2>7. ASSUME NEW x, NEW shop, x.id \in Nat, Fitting(x, shop, varStored, typedFor, varsMade)
        PROVE  Fitting(x, shop, varStored', typedFor, varsMade')
    BY <1>0, <2>4, <2>5, <2>7 DEF Fitting
  <2>8. Fitting(varSave', varSave'.shop, varStored', typedFor, varsMade')
    <3>1. Fitting(varSave', varSave'.shop, varStored, typedFor, varsMade) /\ varSave'.id \in Nat
      BY <2>1, <2>2, <2>3 DEF Fitting, Owned
    <3> QED
      BY <2>7, <3>1
  <2>9. Rowed(varRows, varStored', typedFor, varsMade')
    BY <1>0, <2>6 DEF VarOwned
  <2>10. \A q \in varLists : Rowed(q.found, varStored', typedFor, varsMade')
    BY <1>0, <2>6 DEF VarOwned
  <2>11. varForm.id <= varsMade'
    BY <1>0, <2>4 DEF VarOwned
  <2>12. varForm.content # 0 => Fitting(varForm, shopPicked, varStored', typedFor, varsMade')
    BY <1>0, <2>7 DEF VarOwned
  <2> QED
    BY <2>2, <2>4, <2>8, <2>9, <2>10, <2>11, <2>12 DEF VarOwned
<1>11. CASE VarSaved
  <2>1. varSave.shop \in Shop /\ LoadVars(varSave.shop, shopPicked)
    BY <1>11 DEF VarSaved, NoVarSave, VarTyped, SaveWell
  <2> QED
    BY <1>0, <1>1, <1>11, <2>1 DEF VarSaved, EmptyForm, VarOwned, Rowed
<1>12. CASE VarSaveFails
  BY <1>12 DEF VarSaveFails, VarOwned
<1>13. ASSUME NEW r \in varRows, DropVar(r) PROVE VarOwned'
  BY <1>13 DEF DropVar, VarOwned
<1>14. ASSUME NEW d \in varDrops, RemoveVar(d) PROVE VarOwned'
  <2>1. varStored' \subseteq varStored
    BY <1>14 DEF RemoveVar
  <2>2. UNCHANGED <<shopPicked, varRows, varLists, varForm, varSave, typedFor, varsMade>>
    BY <1>14 DEF RemoveVar
  <2>3. \A x : Owned(x, varStored, typedFor) => Owned(x, varStored', typedFor)
    BY <2>1 DEF Owned
  <2>4. \A table : Rowed(table, varStored, typedFor, varsMade) => Rowed(table, varStored', typedFor, varsMade)
    BY <2>3 DEF Rowed
  <2>5. \A x, shop : Fitting(x, shop, varStored, typedFor, varsMade)
                       => Fitting(x, shop, varStored', typedFor, varsMade)
    BY <2>3 DEF Fitting
  <2> QED
    BY <2>1, <2>2, <2>4, <2>5 DEF VarOwned
<1>15. ASSUME NEW d \in varDrops, VarDropped(d) PROVE VarOwned'
  <2>1. d.shop \in Shop /\ LoadVars(d.shop, shopPicked)
    BY <1>15 DEF VarDropped, VarTyped, DropsWell
  <2>2. \A q \in varLists' : q \in varLists \/ q.found = {}
    BY <1>1, <2>1
  <2>3. varForm' = varForm \/ varForm' = EmptyForm
    BY <1>15 DEF VarDropped
  <2>4. UNCHANGED <<varStored, shopPicked, varRows, varSave, typedFor, varsMade>>
    BY <1>15 DEF VarDropped
  <2> QED
    BY <1>0, <2>2, <2>3, <2>4 DEF EmptyForm, VarOwned, Rowed
<1>16. ASSUME NEW d \in varDrops, VarDropFails(d) PROVE VarOwned'
  BY <1>16 DEF VarDropFails, VarOwned
<1>17. CASE UNCHANGED variablesTabVars
  BY <1>17 DEF variablesTabVars, VarOwned
<1> QED
  BY <1>2, <1>3, <1>4, <1>5, <1>6, <1>7, <1>8, <1>9, <1>10, <1>11, <1>12, <1>13, <1>14,
     <1>15, <1>16, <1>17 DEF VariablesTabNext

LEMMA VarKeepsCurrent ==
  VarTyped /\ VarCurrent /\ [VariablesTabNext]_variablesTabVars => VarCurrent'
<1> SUFFICES ASSUME VarTyped, VarCurrent, [VariablesTabNext]_variablesTabVars PROVE VarCurrent'
  OBVIOUS
<1>0. /\ \A q \in varLists : DOMAIN q = {"n", "shop", "at", "found"}
      /\ \A d \in varDrops : DOMAIN d = {"n", "id", "shop", "at", "editing"}
      /\ rowsUnsure \in BOOLEAN
  BY DEF VarTyped, ListsWell, DropsWell
\* After a reload that crosses nothing the only list is one just asked for.
<1>1. ASSUME NEW s, NEW chosen, LoadVars(s, chosen), shopPicked' = chosen PROVE VarCurrent'
  <2> DEFINE free == CHOOSE k \in 0..Cardinality(varLists) : \A q \in varLists : q.n # k
             pending == [n |-> free, shop |-> s, at |-> "asked", found |-> {}]
  <2>1. varLists' = varLists \cup {pending} /\ rowsUnsure' = (varLists # {} \/ s # chosen)
    BY <1>1 DEF LoadVars
  <2>2. pending.shop = s /\ pending.at = "asked"
    OBVIOUS
  <2> HIDE DEF pending
  <2> QED
    BY <1>1, <2>1, <2>2 DEF VarCurrent
<1>2. ASSUME NEW s \in Shop, PickShop(s) PROVE VarCurrent'
  BY <1>1, <1>2 DEF PickShop
<1>3. ASSUME NEW q \in varLists, ServeVars(q) PROVE VarCurrent'
  <2> DEFINE served == [q EXCEPT !.at = "read", !.found = RowsOf(q.shop)]
  <2>1. served.shop = q.shop /\ served.found = RowsOf(q.shop)
    BY <1>0
  <2>2. varLists' = (varLists \ {q}) \cup {served} /\ RowsOf(q.shop)' = RowsOf(q.shop)
        /\ UNCHANGED <<varStored, shopPicked, varRows, varSave, varDrops, rowsUnsure>>
    BY <1>3 DEF ServeVars, RowsOf
  <2> HIDE DEF served
  <2>3. CASE ~rowsUnsure
    <3>1. varLists = {q} /\ q.shop = shopPicked /\ varLists' = {served}
      BY <2>2, <2>3 DEF VarCurrent
    <3> QED
      BY <2>1, <2>2, <3>1 DEF VarCurrent
  <2> QED
    BY <1>0, <2>2, <2>3 DEF VarCurrent
<1>4. ASSUME NEW q \in varLists, VarsArrive(q) PROVE VarCurrent'
  <2>1. /\ q.at = "read" /\ varLists' = varLists \ {q} /\ varRows' = q.found
        /\ UNCHANGED <<varStored, shopPicked, varSave, varDrops, rowsUnsure>>
    BY <1>4 DEF VarsArrive
  <2>2. CASE ~rowsUnsure
    <3>1. varLists = {q} /\ varLists' = {} /\ Told' = Told /\ RowsOf(shopPicked)' = RowsOf(shopPicked)
      BY <2>1, <2>2 DEF VarCurrent, Told, RowsOf
    <3> QED
      BY <2>1, <2>2, <3>1 DEF VarCurrent
  <2> QED
    BY <1>0, <2>1, <2>2 DEF VarCurrent
<1>5. ASSUME NEW q \in varLists, VarsFail(q) PROVE VarCurrent'
  BY <1>5 DEF VarsFail, VarCurrent
<1>6. ASSUME NEW r \in varRows, EditVar(r) PROVE VarCurrent'
  BY <1>6 DEF EditVar, VarCurrent, Told, RowsOf
<1>7. CASE CancelEdit
  BY <1>7 DEF CancelEdit, VarCurrent, Told, RowsOf
<1>8. CASE TypeVar
  BY <1>8 DEF TypeVar, VarCurrent, Told, RowsOf
<1>9. CASE SubmitVar
  BY <1>9 DEF SubmitVar, VarCurrent, Told, RowsOf, NoVarSave
<1>10. CASE StoreVar
  <2>1. varSave \in [at : {"asked", "done"}, shop : Shop, id : 0..MaxTabVars, content : Texts]
        /\ varSave' = [varSave EXCEPT !.at = "done"]
    BY <1>10 DEF StoreVar, NoVarSave, VarTyped, SaveWell
  <2>2. ~Told'
    BY <2>1 DEF Told
  <2>3. UNCHANGED <<shopPicked, varRows, varLists, rowsUnsure>>
    BY <1>10 DEF StoreVar
  <2> QED
    BY <2>2, <2>3 DEF VarCurrent
<1>11. CASE VarSaved
  BY <1>1, <1>11 DEF VarSaved
<1>12. CASE VarSaveFails
  <2>1. CASE varSave.at = "asked"
    BY <1>12, <2>1 DEF VarSaveFails, VarCurrent, Told, RowsOf, NoVarSave
  <2>2. CASE varSave.at # "asked"
    BY <1>12, <2>2 DEF VarSaveFails, VarCurrent
  <2> QED
    BY <2>1, <2>2
<1>13. ASSUME NEW r \in varRows, DropVar(r) PROVE VarCurrent'
  <2>1. Told' => Told
    BY <1>13 DEF DropVar, Told
  <2>2. /\ UNCHANGED <<varStored, shopPicked, varRows, varLists, rowsUnsure>>
        /\ RowsOf(shopPicked)' = RowsOf(shopPicked)
    BY <1>13 DEF DropVar, RowsOf
  <2> QED
    BY <2>1, <2>2 DEF VarCurrent
<1>14. ASSUME NEW d \in varDrops, RemoveVar(d) PROVE VarCurrent'
  <2>1. [d EXCEPT !.at = "done"].at = "done" /\ [d EXCEPT !.at = "done"] \in varDrops'
    BY <1>0, <1>14 DEF RemoveVar
  <2>2. ~Told'
    BY <2>1 DEF Told
  <2>3. UNCHANGED <<shopPicked, varRows, varLists, rowsUnsure>>
    BY <1>14 DEF RemoveVar
  <2> QED
    BY <2>2, <2>3 DEF VarCurrent
<1>15. ASSUME NEW d \in varDrops, VarDropped(d) PROVE VarCurrent'
  BY <1>1, <1>15 DEF VarDropped
<1>16. ASSUME NEW d \in varDrops, VarDropFails(d) PROVE VarCurrent'
  <2>1. CASE d.at = "asked"
    <3>1. Told' => Told
      BY <1>16, <2>1 DEF VarDropFails, Told
    <3>2. /\ UNCHANGED <<varStored, shopPicked, varRows, varLists, rowsUnsure>>
          /\ RowsOf(shopPicked)' = RowsOf(shopPicked)
      BY <1>16, <2>1 DEF VarDropFails, RowsOf
    <3> QED
      BY <3>1, <3>2 DEF VarCurrent
  <2>2. CASE d.at # "asked"
    BY <1>16, <2>2 DEF VarDropFails, VarCurrent
  <2> QED
    BY <2>1, <2>2
<1>17. CASE UNCHANGED variablesTabVars
  BY <1>17 DEF variablesTabVars, VarCurrent, Told, RowsOf
<1> QED
  BY <1>2, <1>3, <1>4, <1>5, <1>6, <1>7, <1>8, <1>9, <1>10, <1>11, <1>12, <1>13, <1>14,
     <1>15, <1>16, <1>17 DEF VariablesTabNext

LEMMA VarStep == VarInv /\ [VariablesTabNext]_variablesTabVars => VarInv'
BY VarTypes, VarOwns, VarKeepsCurrent DEF VarInv

LEMMA VarFits == VarInv => VariablesFit /\ VariablesTabTypeOK
<1>1. VarInv => VariablesFit
  BY DEF VarInv, VarOwned, VarCurrent, Told, VariablesFit, NoVarSave
<1>2. VarInv => VariablesTabTypeOK
  <2> SUFFICES ASSUME VarTyped PROVE VariablesTabTypeOK
    BY DEF VarInv
  <2>1. varSave.at \in {"none", "asked", "done"}
    BY DEF VarTyped, SaveWell, NoVarSave
  <2> QED
    BY <2>1 DEF VarTyped, StoredWell, ListsWell, FormWell, DropsWell, TypedWell, VariablesTabTypeOK
<1> QED
  BY <1>1, <1>2

\* VariablesFit in every state, for any projects and variables: what is typed for one project is
\* stored in no other (EnvironmentVariablesTab.tsx, project-env-vars.ts).
THEOREM VariablesAlwaysFit == VariablesTabSpec => [](VariablesFit /\ VariablesTabTypeOK)
BY VarStart, VarStep, VarFits, PTL DEF VariablesTabSpec

----------------------------------------------------------------------------
(************************* The pages beside each other **********************)

\* The invariant of the page that moves.
PageInv ==
    /\ focus = "library" => LibraryInv
    /\ focus = "settings" => OrgInv
    /\ focus = "runsettings" => RunSettingsInv
    /\ focus = "launch" => LaunchInv
    /\ focus = "cycles" => CycleInv
    /\ focus = "stability" => StabilityInv
    /\ focus = "bugs" => BugInv
    /\ focus = "bulk" => BulkInv
    /\ focus = "integrations" => IntegrationsInv
    /\ focus = "routing" => PrInv
    /\ focus = "profile" => ProfileInv
    /\ focus = "memberpage" => MembersInv
    /\ focus = "vartab" => VarInv
    /\ focus = "view" => ViewTypes
    /\ focus = "tickets" => TicketTypes
    /\ focus = "chat" => ChatInv

LEMMA PagesStart == Init => PageInv
<1> SUFFICES ASSUME Init PROVE PageInv
  OBVIOUS
<1>1. LibraryInv /\ OrgInv /\ RunSettingsInv
  BY LibraryStart, OrgStart, RunSettingsStart DEF Init
<1>2. LaunchInv /\ CycleInv /\ StabilityInv /\ BugInv
  BY LaunchStart, CycleStart, StabilityStart, BugStart DEF Init
<1>3. BulkInv /\ IntegrationsInv /\ PrInv
  BY BulkStart, IntegrationsStart, PrStart DEF Init
<1>4. ProfileInv /\ MembersInv /\ VarInv
  BY ProfileStart, MembersStart, VarStart DEF Init
<1>5. ViewTypes /\ TicketTypes /\ ChatInv
  BY ViewTypesStart, TicketTypesStart, ChatStarts DEF Init
<1> QED BY <1>1, <1>2, <1>3, <1>4, <1>5 DEF PageInv

\* A step is one of the page that moves, and the page that moves stays the same.
LEMMA PagesStep == PageInv /\ [Next]_vars => PageInv'
<1> SUFFICES ASSUME PageInv, [Next]_vars PROVE PageInv'
  OBVIOUS
<1>1. focus' = focus
  BY DEF Next, vars
<1>2. CASE focus = "library"
  <2>1. LibraryInv /\ [TestLibraryNext]_libraryVars
    BY <1>2 DEF PageInv, Next, vars
  <2> QED BY <1>1, <1>2, <2>1, LibraryStep DEF PageInv
<1>3. CASE focus = "settings"
  <2>1. OrgInv /\ [OrgSettingsNext]_orgSettingsVars
    BY <1>3 DEF PageInv, Next, vars
  <2> QED BY <1>1, <1>3, <2>1, OrgStep DEF PageInv
<1>4. CASE focus = "runsettings"
  <2>1. RunSettingsInv /\ [ProjectSettingsNext]_projectSettingsVars
    BY <1>4 DEF PageInv, Next, vars
  <2> QED BY <1>1, <1>4, <2>1, RunSettingsStep DEF PageInv
<1>5. CASE focus = "launch"
  <2>1. LaunchInv /\ [LaunchNext]_launchVars
    BY <1>5 DEF PageInv, Next, vars
  <2> QED BY <1>1, <1>5, <2>1, LaunchStep DEF PageInv
<1>6. CASE focus = "cycles"
  <2>1. CycleInv /\ [CyclePagesNext]_cyclePagesVars
    BY <1>6 DEF PageInv, Next, vars
  <2> QED BY <1>1, <1>6, <2>1, CycleStep DEF PageInv
<1>7. CASE focus = "stability"
  <2>1. StabilityInv /\ [StabilityNext]_stabilityVars
    BY <1>7 DEF PageInv, Next, vars
  <2> QED BY <1>1, <1>7, <2>1, StabilityStep DEF PageInv
<1>8. CASE focus = "bugs"
  <2>1. BugInv /\ [BugNext]_bugVars
    BY <1>8 DEF PageInv, Next, vars
  <2> QED BY <1>1, <1>8, <2>1, BugStep DEF PageInv
<1>9. CASE focus = "bulk"
  <2>1. BulkInv /\ [BulkNext]_bulkVars
    BY <1>9 DEF PageInv, Next, vars
  <2> QED BY <1>1, <1>9, <2>1, BulkStep DEF PageInv
<1>10. CASE focus = "integrations"
  <2>1. IntegrationsInv /\ [IntegrationsNext]_integrationsVars
    BY <1>10 DEF PageInv, Next, vars
  <2> QED BY <1>1, <1>10, <2>1, IntegrationsStep DEF PageInv
<1>11. CASE focus = "routing"
  <2>1. PrInv /\ [PrNext]_prVars
    BY <1>11 DEF PageInv, Next, vars
  <2> QED BY <1>1, <1>11, <2>1, PrStep DEF PageInv
<1>12. CASE focus = "profile"
  <2>1. ProfileInv /\ [ProfileNext]_profilePageVars
    BY <1>12 DEF PageInv, Next, vars
  <2> QED BY <1>1, <1>12, <2>1, ProfileStep DEF PageInv
<1>13. CASE focus = "memberpage"
  <2>1. MembersInv /\ [MembersPageNext]_membersPageVars
    BY <1>13 DEF PageInv, Next, vars
  <2> QED BY <1>1, <1>13, <2>1, MembersStep DEF PageInv
<1>14. CASE focus = "vartab"
  <2>1. VarInv /\ [VariablesTabNext]_variablesTabVars
    BY <1>14 DEF PageInv, Next, vars
  <2> QED BY <1>1, <1>14, <2>1, VarStep DEF PageInv
<1>15. CASE focus = "view"
  <2>1. ViewTypes /\ [LiveViewNext]_liveViewVars
    BY <1>15 DEF PageInv, Next, vars
  <2> QED BY <1>1, <1>15, <2>1, ViewTypesStep DEF PageInv
<1>16. CASE focus = "tickets"
  <2>1. TicketTypes /\ [JiraTicketNext]_jiraVars
    BY <1>16 DEF PageInv, Next, vars
  <2> QED BY <1>1, <1>16, <2>1, TicketTypesStep DEF PageInv
<1>17. CASE focus = "chat"
  <2>1. ChatInv /\ [ChatNext]_chatVars
    BY <1>17 DEF PageInv, Next, vars
  <2> QED BY <1>1, <1>17, <2>1, ChatStep DEF PageInv
<1> QED
  BY <1>1, <1>2, <1>3, <1>4, <1>5, <1>6, <1>7, <1>8, <1>9, <1>10, <1>11, <1>12, <1>13, <1>14,
     <1>15, <1>16, <1>17 DEF PageInv

\* RecordsKept in every state, for any constants: on each page, what users stored, chose or
\* removed is what is stored and what the page shows once nothing is under way.
THEOREM RecordsAlwaysKept == Spec => []RecordsKept
<1>1. PageInv => RecordsKept
  BY LibraryShown, OrgFit, RunSettingsFit, LaunchFit, CycleShown, StabilityShown, BugFit, BulkShown,
     IntegrationsFit, ProfileShown, MembersFit, VarFits DEF PageInv, PrInv, RecordsKept
<1> QED BY <1>1, PagesStart, PagesStep, PTL DEF Spec

\* TypeOK in every state, for any constants: each page keeps to its types and its bounds.
THEOREM PagesAlwaysTyped == Spec => []TypeOK
<1>1. PageInv => TypeOK
  BY LibraryShown, OrgFit, RunSettingsFit, LaunchFit, CycleShown, StabilityShown, BugFit, BulkShown,
     IntegrationsFit, ProfileShown, MembersFit, VarFits, ViewTypesFit, TicketTypesFit, ChatFits
  DEF PageInv, PrInv, TypeOK
<1> QED BY <1>1, PagesStart, PagesStep, PTL DEF Spec

=============================================================================
