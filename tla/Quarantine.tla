------------------------------- MODULE Quarantine -------------------------------
(***************************************************************************)
(* The health of one test case: its results, the analysis that every       *)
(* ingested run starts in the background when it ends, and the project     *)
(* setting that switches the automatic quarantine on.  Runs are numbered   *)
(* in the order of their startTime, by which an analysis sorts them; they  *)
(* overlap, and end in any order or never.                                 *)
(*                                                                         *)
(* An analysis reads the results, then the test case and the setting, then *)
(* writes; two of them may overlap.  The settings page writes to the       *)
(* collection projectRunSettings.  The analysis reads project_settings,    *)
(* which no code writes: Override stands for somebody who does by hand.    *)
(*                                                                         *)
(* The loop over the tests of a run is left out (they do not affect each   *)
(* other), as are durations and the limits of 20 and 100 results.          *)
(***************************************************************************)
EXTENDS Naturals, Sequences, FiniteSets

CONSTANTS
    Streak,        \* failures in a row that quarantine (3 in the code)
    MaxResults,    \* bound: runs with this test
    MaxSwitches    \* bound: changes of a setting

ASSUME QuarantineAssumption == Streak \in Nat \ {0} /\ MaxResults \in Nat /\ MaxSwitches \in Nat

VARIABLES
    started,        \* runs started
    results,        \* whether the test passed, of each run that has ended
    testCase,       \* the document: isQuarantined, the pass rate it was graded by
    analyses,       \* updateTestCaseMetrics in progress
    runSettings,    \* autoQuarantineEnabled in projectRunSettings
    otherSettings,  \* autoQuarantineEnabled in project_settings
    switches,
    watched,        \* history: the setting and the results as each run ended, oldest first
    muddled,        \* history: analyses overlapped or failed, or the setting changed under one
    blurred,        \* history: the same, of the analysis of the run that ended last
    steady          \* history: ends of runs since the settings page last changed the setting

quarantineVars == <<started, results, testCase, analyses, runSettings, otherSettings,
                    switches, watched, muddled, blurred, steady>>

\* Whether the test passed in some of the runs.
Histories == UNION {[D -> BOOLEAN] : D \in SUBSET (1..MaxResults)}

Analysis == [no : 1..MaxResults, seen : Histories, at : {"judge", "write"},
             set : SUBSET BOOLEAN]

Passed(rs) == {r \in DOMAIN rs : rs[r]}

QuarantineTypeOK ==
    /\ started \in 0..MaxResults
    /\ results \in Histories /\ DOMAIN results \subseteq 1..started
    /\ testCase \in [isQuarantined : BOOLEAN, passed : Nat, of : Nat]
    /\ analyses \subseteq Analysis
    /\ runSettings \in BOOLEAN /\ otherSettings \in BOOLEAN
    /\ switches \in 0..MaxSwitches
    /\ watched \in Seq([on : BOOLEAN, results : Histories])
    /\ muddled \in BOOLEAN /\ blurred \in BOOLEAN /\ steady \in Nat

QuarantineInit ==
    /\ started = 0 /\ results = << >>
    /\ testCase = [isQuarantined |-> FALSE, passed |-> 0, of |-> 0]
    /\ analyses = {} /\ runSettings = FALSE /\ otherSettings = FALSE /\ switches = 0
    /\ watched = << >> /\ muddled = FALSE /\ blurred = FALSE /\ steady = 0

\* The runs that started after the last one in which the test passed, all failures.
Failing(rs) == {q \in DOMAIN rs : \A p \in Passed(rs) : p < q}

FailedInARow(rs, n) == Cardinality(Failing(rs)) >= n

LatestPassed(rs) == \E r \in Passed(rs) : \A q \in DOMAIN rs : q <= r

\* Mutant of Decision: nothing heals.
DecisionWithoutHealing(rs, enabled, now) ==
    IF enabled /\ ~now /\ FailedInARow(rs, Streak) THEN {TRUE} ELSE {}

\* What to write to isQuarantined: the empty set is "leave it".
Decision(rs, enabled, now) ==
    IF enabled /\ ~now /\ FailedInARow(rs, Streak) THEN {TRUE}
    ELSE IF enabled /\ now /\ LatestPassed(rs) THEN {FALSE}
    ELSE {}

After(now, set) == IF set = {} THEN now ELSE CHOOSE q \in set : TRUE

StartRun ==
    /\ started < MaxResults /\ started' = started + 1
    /\ UNCHANGED <<results, testCase, analyses, runSettings, otherSettings, switches,
                   watched, muddled, blurred, steady>>

\* A run ends: its results are stored, and an analysis of them starts.
EndRun ==
    /\ \E r \in 1..started \ DOMAIN results, passed \in BOOLEAN :
        /\ results' = [q \in DOMAIN results \cup {r} |-> IF q = r THEN passed ELSE results[q]]
        /\ analyses' = analyses \cup {[no |-> r, seen |-> << >>, at |-> "judge", set |-> {}]}
    /\ watched' = Append(watched, [on |-> otherSettings, results |-> results'])
    /\ muddled' = (muddled \/ analyses # {}) /\ blurred' = (analyses # {})
    /\ steady' = steady + 1
    /\ UNCHANGED <<started, testCase, runSettings, otherSettings, switches>>

\* The aggregation over the executions.
Aggregate ==
    \E a \in analyses :
        /\ a.at = "judge" /\ a.seen = << >>
        /\ analyses' = (analyses \ {a}) \cup {[a EXCEPT !.seen = results]}
        /\ UNCHANGED <<started, results, testCase, runSettings, otherSettings, switches,
                       watched, muddled, blurred, steady>>

\* The test case and the setting are read.
Judge ==
    \E a \in analyses :
        /\ a.at = "judge" /\ a.seen # << >>
        /\ analyses' = (analyses \ {a}) \cup
             {[a EXCEPT !.at = "write",
                        !.set = Decision(a.seen, otherSettings, testCase.isQuarantined)]}
        /\ UNCHANGED <<started, results, testCase, runSettings, otherSettings, switches,
                       watched, muddled, blurred, steady>>

WriteMetrics ==
    \E a \in analyses :
        /\ a.at = "write"
        /\ analyses' = analyses \ {a}
        /\ testCase' = [isQuarantined |-> After(testCase.isQuarantined, a.set),
                        passed |-> Cardinality(Passed(a.seen)),
                        of |-> Cardinality(DOMAIN a.seen)]
        /\ UNCHANGED <<started, results, runSettings, otherSettings, switches, watched,
                       muddled, blurred, steady>>

\* An exception is logged, or the producer stops.
AnalysisFails ==
    \E a \in analyses :
        /\ analyses' = analyses \ {a}
        /\ muddled' = TRUE /\ blurred' = TRUE
        /\ UNCHANGED <<started, results, testCase, runSettings, otherSettings, switches,
                       watched, steady>>

\* PUT /api/projects/:projectId/settings with autoQuarantineEnabled.
SaveSettings ==
    /\ switches < MaxSwitches /\ switches' = switches + 1
    /\ runSettings' = ~runSettings
    /\ steady' = 0
    /\ UNCHANGED <<started, results, testCase, analyses, otherSettings, watched, muddled,
                   blurred>>

Override ==
    /\ switches < MaxSwitches /\ switches' = switches + 1
    /\ otherSettings' = ~otherSettings
    /\ muddled' = (muddled \/ analyses # {}) /\ blurred' = (blurred \/ analyses # {})
    /\ UNCHANGED <<started, results, testCase, analyses, runSettings, watched, steady>>

QuarantineCodeNext ==
    \/ StartRun \/ EndRun \/ Aggregate \/ Judge \/ WriteMetrics \/ AnalysisFails
    \/ SaveSettings

QuarantineNext == QuarantineCodeNext \/ Override

QuarantineSpec == QuarantineInit /\ [][QuarantineNext]_quarantineVars
\* The code alone: nobody writes to project_settings.
QuarantineCodeSpec == QuarantineInit /\ [][QuarantineCodeNext]_quarantineVars

----------------------------------------------------------------------------
\* What the end of a run, with the setting and the results as they were then, says.
Striking(w) == w.on /\ FailedInARow(w.results, Streak)
Healing(w)  == w.on /\ LatestPassed(w.results)

\* Quarantined: since some end that struck the test, none has healed it.
ShouldBeQuarantined ==
    \E i \in DOMAIN watched :
        Striking(watched[i]) /\ \A j \in DOMAIN watched : Healing(watched[j]) => j < i

Graded ==
    /\ testCase.of = Cardinality(DOMAIN results)
    /\ testCase.passed = Cardinality(Passed(results))

\* When the analyses are done, the test case is graded by all the results and quarantined
\* as the whole history says, unless analyses overlapped (an older one may write last),
\* one failed, or the setting changed under one.  That harm ends with the next run whose
\* analysis is alone: the grade is right again, and with the setting on the test is out
\* of quarantine after a pass and in it after a streak (smart-analytics.service.ts).
QuarantineFollowsResults ==
    analyses = {} =>
        /\ ~muddled => Graded /\ testCase.isQuarantined = ShouldBeQuarantined
        /\ ~blurred /\ watched # << >> =>
             /\ Graded
             /\ Healing(watched[Len(watched)]) => ~testCase.isQuarantined
             /\ Striking(watched[Len(watched)]) => testCase.isQuarantined

\* "Automatically quarantine tests that fail 3 consecutive times" (CHANGELOG.md), when
\* the toggle of the run settings is on: after so many failures with the setting on,
\* and their analyses done one by one, the test is quarantined.
ToggleQuarantines ==
    (/\ analyses = {} /\ ~muddled /\ runSettings
     /\ steady >= Streak /\ FailedInARow(results, Streak)) => testCase.isQuarantined

=============================================================================
