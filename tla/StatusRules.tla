---------------------------- MODULE StatusRules ----------------------------
(***************************************************************************)
(* The status vocabulary of executions and cycle items, and the pure rules *)
(* that derive one status from another.  Shared by every module in which a *)
(* run is given a verdict.  Nothing here has state.                        *)
(***************************************************************************)
EXTENDS Naturals, FiniteSets

\* The verdicts a run can end with: FINAL_EXECUTION_STATUSES of the notifier
\* and TERMINAL_STATUSES of the worker callback.
TerminalStatus == {"PASSED", "FAILED", "UNSTABLE", "ERROR"}

\* The status field of an execution document; "ABSENT" when there is none.
ExecStatus == {"ABSENT", "PENDING", "RUNNING", "ANALYZING"} \cup TerminalStatus

\* What the worker reads off the log of a finished container.
Evidence == [failures : BOOLEAN, retries : BOOLEAN, passes : BOOLEAN,
             noTests : BOOLEAN, fatal : BOOLEAN]

(***************************************************************************)
(* The verdict of a container that exited with `code` and left log `ev`.   *)
(* A zero exit code is not trusted: failures in the log, or a fatal        *)
(* pattern, override it.                                                   *)
(***************************************************************************)
LogVerdict(code, ev) ==
    IF ev.noTests THEN "ERROR"
    ELSE IF code = 0
         THEN IF ev.failures /\ ev.passes THEN "UNSTABLE"
              ELSE IF ev.failures THEN "FAILED" ELSE "PASSED"
         ELSE IF ev.retries /\ ev.passes /\ ev.failures
              THEN "UNSTABLE" ELSE "FAILED"

DetermineExecutionStatus(code, ev) ==
    IF LogVerdict(code, ev) = "PASSED" /\ ev.fatal
    THEN "FAILED" ELSE LogVerdict(code, ev)

\* The verdicts for which the failure log is worth an AI analysis.
Analysable == {"FAILED", "UNSTABLE"}

----------------------------------------------------------------------------
\* The status of one item of a test cycle: VALID_TEST_STATUSES.
ItemStatus == {"PASSED", "FAILED", "SKIPPED", "PENDING", "RUNNING", "ERROR"}
ItemTerminal == {"PASSED", "FAILED", "ERROR", "SKIPPED"}

\* Mutant of ItemStatusOf: the verdict as it is.
ItemStatusVerbatim(verdict) == verdict

\* How the worker callback files an execution verdict under a cycle item.
ItemStatusOf(verdict) ==
    CASE verdict = "PASSED" -> "PASSED"
      [] verdict \in {"FAILED", "UNSTABLE"} -> "FAILED"
      [] OTHER -> "ERROR"

\* The items of a cycle are a function from item ids to statuses.
Having(items, statuses) == {i \in DOMAIN items : items[i] \in statuses}

AllTerminal(items) == \A i \in DOMAIN items : items[i] \in ItemTerminal

\* The summary the worker callback writes: an ERROR counts as a failure.
CallbackSummary(items) ==
    [total  |-> Cardinality(DOMAIN items),
     passed |-> Cardinality(Having(items, {"PASSED"})),
     failed |-> Cardinality(Having(items, {"FAILED", "ERROR"}))]

\* The summary POST and PUT write (computeSummary): an ERROR is not counted.
ComputeSummary(items) ==
    [total  |-> Cardinality(DOMAIN items),
     passed |-> Cardinality(Having(items, {"PASSED"})),
     failed |-> Cardinality(Having(items, {"FAILED"}))]

=============================================================================
