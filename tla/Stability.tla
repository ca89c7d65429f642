------------------------------- MODULE Stability --------------------------------
(***************************************************************************)
(* The stability page: the analysis of a group's last runs, which takes as *)
(* long as two calls of a language model, the list of earlier analyses,    *)
(* and a selector that stays usable meanwhile.                             *)
(***************************************************************************)
EXTENDS Naturals, SequencesExt, Lists

CONSTANTS
    Suite,            \* test groups
    LastRuns,         \* runs an analysis looks at, 20 in the code
    CriticSays,       \* verdicts of the second call, "unknown" for one it should not give
    MaxSuiteRuns,     \* bound: runs of all groups
    MaxAnalyses,      \* bound: analyses, below the 50 the list is cut at
    MaxPicks,         \* bound: selections of a group
    MaxStabilityFaults\* bound: calls that fail

Verdicts == {"stable", "mostly_stable", "flaky", "highly_flaky"}

ASSUME StabilityAssumption ==
    /\ LastRuns \in Nat \ {0} /\ CriticSays \subseteq Verdicts \cup {"unknown"}
    /\ {MaxSuiteRuns, MaxPicks, MaxStabilityFaults} \subseteq Nat /\ MaxAnalyses \in 1..50

VARIABLES
    suiteRuns,        \* for each run of a group, deleted ones included, by start: has it passed
    detective,        \* aiFeatures.flakinessDetective
    stabilityReports, \* the stability_reports collection, oldest first
    analysis,         \* POST analyze-stability, the page's only one
    picked,           \* selectedGroup
    report, historical,
    earlier, historyLoading,
    lists,            \* requests for the list
    \* history
    doubt,            \* what a change of group or a failed or late answer made unsure
    unsaved,          \* analyses whose insertion failed
    analyzed, picks, stabilityFaults,
    suiteRunsBegun    \* runs started so far, of all groups

stabilityVars == <<suiteRuns, detective, stabilityReports, analysis, picked, report, historical,
                   earlier, historyLoading, lists, doubt, unsaved, analyzed, picks,
                   stabilityFaults, suiteRunsBegun>>

Report == [n : 1..MaxAnalyses, suite : Suite, runs : 1..LastRuns, passed : 0..LastRuns,
           verdict : Verdicts]
NoReport == [n |-> 0]
NoAnalysis == [at |-> "none", n |-> 0]
RunsOf == UNION {[1..k -> BOOLEAN] : k \in 0..MaxSuiteRuns}
ListOf(suite) == Reverse(Sifted(stabilityReports, {r \in Report : r.suite = suite}))

StabilityTypeOK ==
    /\ suiteRuns \in [Suite -> RunsOf] /\ detective \in BOOLEAN
    /\ ToSet(stabilityReports) \subseteq Report /\ Len(stabilityReports) <= MaxAnalyses
    /\ analysis = NoAnalysis \/ analysis \in
            [at : {"asked", "allowed", "read", "done"}, n : 1..MaxAnalyses, suite : Suite,
             runs : 0..LastRuns, passed : 0..LastRuns, answer : Report \cup {NoReport}]
    /\ picked \in Suite \cup {"none"} /\ report \in Report \cup {NoReport} /\ historical \in BOOLEAN
    /\ ToSet(earlier) \subseteq Report /\ historyLoading \in BOOLEAN
    /\ \A q \in lists : /\ q.at \in {"asked", "read"} /\ q.suite \in Suite
                        /\ q.for \in {"effect", "refresh"} /\ ToSet(q.found) \subseteq Report
    /\ doubt \subseteq {"report", "list"} /\ unsaved \subseteq 1..MaxAnalyses
    /\ analyzed \in 0..MaxAnalyses /\ picks \in 0..MaxPicks
    /\ stabilityFaults \in 0..MaxStabilityFaults /\ suiteRunsBegun \in 0..MaxSuiteRuns

StabilityInit ==
    /\ suiteRuns = [s \in Suite |-> <<>>] /\ detective = TRUE
    /\ stabilityReports = <<>> /\ analysis = NoAnalysis
    /\ picked = "none" /\ report = NoReport /\ historical = FALSE
    /\ earlier = <<>> /\ historyLoading = FALSE /\ lists = {}
    /\ doubt = {} /\ unsaved = {} /\ analyzed = 0 /\ picks = 0 /\ stabilityFaults = 0
    /\ suiteRunsBegun = 0

Faulty == stabilityFaults < MaxStabilityFaults /\ stabilityFaults' = stabilityFaults + 1

----------------------------------------------------------------------------
\* A run of the group starts; it may pass later, when others have started.
SuiteRunStarts(s) ==
    /\ suiteRunsBegun < MaxSuiteRuns /\ suiteRunsBegun' = suiteRunsBegun + 1
    /\ suiteRuns' = [suiteRuns EXCEPT ![s] = Append(@, FALSE)]
    /\ UNCHANGED <<detective, stabilityReports, analysis, picked, report, historical, earlier,
                   historyLoading, lists, doubt, unsaved, analyzed, picks, stabilityFaults>>

SuiteRunPasses(s, i) ==
    /\ ~suiteRuns[s][i] /\ suiteRuns' = [suiteRuns EXCEPT ![s][i] = TRUE]
    /\ UNCHANGED <<suiteRunsBegun, detective, stabilityReports, analysis, picked, report, historical,
                   earlier, historyLoading, lists, doubt, unsaved, analyzed, picks, stabilityFaults>>

DisableDetective ==
    /\ detective /\ detective' = FALSE
    /\ UNCHANGED <<suiteRuns, suiteRunsBegun, stabilityReports, analysis, picked, report, historical, earlier,
                   historyLoading, lists, doubt, unsaved, analyzed, picks, stabilityFaults>>

\* A request asks for the list; an effect's is of no use once the selection changes.
Listing(suite, for, left) ==
    left \cup {[suite |-> suite, for |-> for, n |-> analyzed + picks + 1, at |-> "asked",
               found |-> <<>>]}
Requested(for) == \E q \in lists : q.for = for

\* onChange: the report goes at once, the list when the next one is there.
PickSuite(s) ==
    /\ s # picked /\ picks < MaxPicks /\ picks' = picks + 1
    /\ picked' = s /\ report' = NoReport /\ historical' = FALSE
    /\ LET rest == {q \in lists : q.for # "effect"}
       IN IF s = "none" THEN lists' = rest /\ earlier' = <<>> /\ UNCHANGED historyLoading
          ELSE lists' = Listing(s, "effect", rest) /\ historyLoading' = TRUE /\ UNCHANGED earlier
    /\ doubt' = IF analysis # NoAnalysis THEN {"report", "list"}
                ELSE IF Requested("refresh") THEN {"list"} ELSE {}
    /\ UNCHANGED <<suiteRuns, suiteRunsBegun, detective, stabilityReports, analysis, unsaved, analyzed,
                   stabilityFaults>>

\* handleAnalyze
Analyze ==
    /\ picked # "none" /\ analysis = NoAnalysis
    /\ analyzed < MaxAnalyses /\ analyzed' = analyzed + 1
    /\ analysis' = [at |-> "asked", n |-> analyzed', suite |-> picked, runs |-> 0, passed |-> 0,
                  answer |-> NoReport]
    /\ report' = NoReport /\ historical' = FALSE /\ doubt' = doubt \ {"report"}
    /\ UNCHANGED <<suiteRuns, suiteRunsBegun, detective, stabilityReports, picked, earlier, historyLoading, lists,
                   unsaved, picks, stabilityFaults>>

Answer(found) == analysis' = [analysis EXCEPT !.at = "done", !.answer = found]

\* featureFlagGuard: 403, or the handler goes on, whatever becomes of the flag.
RefuseAnalysis ==
    /\ analysis.at = "asked" /\ ~detective /\ Answer(NoReport)
    /\ UNCHANGED <<suiteRuns, suiteRunsBegun, detective, stabilityReports, picked, report, historical, earlier,
                   historyLoading, lists, doubt, unsaved, analyzed, picks, stabilityFaults>>

AllowAnalysis ==
    /\ analysis.at = "asked" /\ detective /\ analysis' = [analysis EXCEPT !.at = "allowed"]
    /\ UNCHANGED <<suiteRuns, suiteRunsBegun, detective, stabilityReports, picked, report, historical, earlier,
                   historyLoading, lists, doubt, unsaved, analyzed, picks, stabilityFaults>>

\* The last runs are read and counted, before the model is called; 404 without runs.
ReadRuns ==
    /\ analysis.at = "allowed"
    /\ LET all == suiteRuns[analysis.suite]
           last == SubSeq(all, IF Len(all) > LastRuns THEN Len(all) - LastRuns + 1 ELSE 1, Len(all))
       IN IF last = <<>> THEN Answer(NoReport)
          ELSE analysis' = [analysis EXCEPT !.at = "read", !.runs = Len(last),
                                            !.passed = Len(Sifted(last, {TRUE}))]
    /\ UNCHANGED <<suiteRuns, suiteRunsBegun, detective, stabilityReports, picked, report, historical, earlier,
                   historyLoading, lists, doubt, unsaved, analyzed, picks, stabilityFaults>>

\* What the pass rate says, where the critic's verdict is none of the four.
FromPassRate(passed, runs) ==
    IF 10 * passed >= 9 * runs THEN "stable"
    ELSE IF 10 * passed >= 7 * runs THEN "mostly_stable"
    ELSE IF 10 * passed >= 4 * runs THEN "flaky" ELSE "highly_flaky"

\* The runs read are analyzed and criticised; the insertion may fail, the answer is the same.
WriteReport(verdict) ==
    /\ analysis.at = "read"
    /\ LET made == [n |-> analysis.n, suite |-> analysis.suite, runs |-> analysis.runs,
                    passed |-> analysis.passed,
                    verdict |-> IF verdict \in Verdicts THEN verdict
                                ELSE FromPassRate(analysis.passed, analysis.runs)]
       IN /\ Answer(made)
          /\ \/ /\ stabilityReports' = Append(stabilityReports, made)
                /\ UNCHANGED <<unsaved, stabilityFaults>>
             \/ Faulty /\ unsaved' = unsaved \cup {analysis.n} /\ UNCHANGED stabilityReports
    /\ UNCHANGED <<suiteRuns, suiteRunsBegun, detective, picked, report, historical, earlier, historyLoading,
                   lists, doubt, analyzed, picks>>

\* A call fails or its text is no JSON: 500, 502, 503.
StabilityFails ==
    /\ analysis.at \in {"asked", "allowed", "read"} /\ Faulty /\ Answer(NoReport)
    /\ UNCHANGED <<suiteRuns, suiteRunsBegun, detective, stabilityReports, picked, report, historical, earlier,
                   historyLoading, lists, doubt, unsaved, analyzed, picks>>

\* The answer does not reach the page, which asks for no list then.
ReportLost ==
    /\ analysis.at = "done" /\ analysis.answer # NoReport /\ Faulty /\ Answer(NoReport)
    /\ doubt' = IF analysis.answer \in ToSet(stabilityReports) THEN doubt \cup {"list"} ELSE doubt
    /\ UNCHANGED <<suiteRuns, suiteRunsBegun, detective, stabilityReports, picked, report, historical, earlier,
                   historyLoading, lists, unsaved, analyzed, picks>>

\* The answer is shown whatever is selected by now, as historical if an earlier report was
\* opened meanwhile; the list asked for is the analysed group's.
AnalysisShown ==
    /\ analysis.at = "done" /\ analysis' = NoAnalysis
    /\ IF analysis.answer = NoReport THEN UNCHANGED <<report, lists>>
       ELSE report' = analysis.answer /\ lists' = Listing(analysis.suite, "refresh", lists)
    \* an older list under way may replace the new one
    /\ doubt' = IF analysis.answer # NoReport /\ lists # {} THEN doubt \cup {"list"} ELSE doubt
    /\ UNCHANGED <<suiteRuns, suiteRunsBegun, detective, stabilityReports, picked, historical, earlier,
                   historyLoading, unsaved, analyzed, picks, stabilityFaults>>

----------------------------------------------------------------------------
\* GET stability-reports
ServeHistory(q) ==
    /\ q.at = "asked"
    /\ lists' = (lists \ {q}) \cup {[q EXCEPT !.at = "read", !.found = ListOf(q.suite)]}
    /\ UNCHANGED <<suiteRuns, suiteRunsBegun, detective, stabilityReports, analysis, picked, report, historical,
                   earlier, historyLoading, doubt, unsaved, analyzed, picks, stabilityFaults>>

HistoryArrives(q) ==
    /\ q.at = "read" /\ lists' = lists \ {q} /\ earlier' = q.found
    /\ historyLoading' = (historyLoading /\ q.for # "effect")
    /\ UNCHANGED <<suiteRuns, suiteRunsBegun, detective, stabilityReports, analysis, picked, report, historical,
                   doubt, unsaved, analyzed, picks, stabilityFaults>>

\* The effect's failure empties the list, the refresh's leaves it.
HistoryFails(q) ==
    /\ Faulty /\ lists' = lists \ {q} /\ doubt' = doubt \cup {"list"}
    /\ IF q.for = "effect" THEN earlier' = <<>> /\ historyLoading' = FALSE
       ELSE UNCHANGED <<earlier, historyLoading>>
    /\ UNCHANGED <<suiteRuns, suiteRunsBegun, detective, stabilityReports, analysis, picked, report, historical,
                   unsaved, analyzed, picks>>

\* handleLoadHistoricalReport: while the next group's list loads, the rows are the former's.
LoadHistorical(r) ==
    /\ picked # "none" /\ r # report /\ report' = r /\ historical' = TRUE
    /\ doubt' = IF historyLoading \/ "list" \in doubt THEN doubt \cup {"report"} ELSE doubt
    /\ UNCHANGED <<suiteRuns, suiteRunsBegun, detective, stabilityReports, analysis, picked, earlier,
                   historyLoading, lists, unsaved, analyzed, picks, stabilityFaults>>

StabilityNext ==
    \/ DisableDetective \/ Analyze \/ RefuseAnalysis \/ AllowAnalysis \/ ReadRuns
    \/ StabilityFails \/ ReportLost \/ AnalysisShown
    \/ \E s \in Suite : SuiteRunStarts(s) \/ \E i \in DOMAIN suiteRuns[s] : SuiteRunPasses(s, i)
    \/ \E s \in Suite \cup {"none"} : PickSuite(s)
    \/ \E v \in CriticSays : WriteReport(v)
    \/ \E q \in lists : ServeHistory(q) \/ HistoryArrives(q) \/ HistoryFails(q)
    \/ \E r \in ToSet(earlier) : LoadHistorical(r)

StabilitySpec == StabilityInit /\ [][StabilityNext]_stabilityVars

----------------------------------------------------------------------------
\* A report shown is of the group selected and counts runs of that group, unless the group
\* changed under an analysis or an entry of a list still loading was opened; it is kept,
\* unless its insertion failed; and a list that is not loading is the whole list of the
\* group, unless an answer failed, was lost or late or another group's (StabilityPage.tsx, ai.ts).
StabilityFits ==
    /\ report # NoReport =>
            /\ "report" \notin doubt => report.suite = picked
            /\ report \in ToSet(stabilityReports) \/ report.n \in unsaved
            /\ report.runs <= Len(suiteRuns[report.suite]) /\ report.passed <= report.runs
    /\ (doubt = {} /\ picked # "none" /\ lists = {} /\ analysis = NoAnalysis) =>
            earlier = ListOf(picked)

=============================================================================
