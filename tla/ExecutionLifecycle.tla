------------------------- MODULE ExecutionLifecycle -------------------------
(***************************************************************************)
(* What the platform promises about one execution document, seen from the  *)
(* outside: the status moves forward to a verdict, a run under analysis    *)
(* has failed, and a document moves back only to RUNNING and only because  *)
(* a worker process died and the broker handed the run to another.         *)
(***************************************************************************)
EXTENDS StatusRules

CONSTANT Task

VARIABLES
    status,     \* status of each document
    restarts    \* worker processes that died so far

Init ==
    /\ status = [t \in Task |-> "ABSENT"]
    /\ restarts = 0

Move(t, from, to) ==
    /\ status[t] \in from
    /\ status' = [status EXCEPT ![t] = to]
    /\ UNCHANGED restarts

Submit(t) == Move(t, {"ABSENT"}, "PENDING")
Start(t) == Move(t, {"ABSENT", "PENDING"}, "RUNNING")
Analyse(t) == Move(t, {"RUNNING"}, "ANALYZING")

\* A verdict; after an analysis it is not PASSED.
Conclude(t) ==
    \/ \E v \in TerminalStatus : Move(t, {"RUNNING"}, v)
    \/ \E v \in TerminalStatus \ {"PASSED"} : Move(t, {"ANALYZING"}, v)

Rerun(t) == restarts > 0 /\ Move(t, {"ANALYZING"} \cup TerminalStatus, "RUNNING")

WorkerDies == restarts' = restarts + 1 /\ UNCHANGED status

Next ==
    \/ \E t \in Task : Submit(t) \/ Start(t) \/ Analyse(t) \/ Conclude(t) \/ Rerun(t)
    \/ WorkerDies

Spec == Init /\ [][Next]_<<status, restarts>>

=============================================================================
