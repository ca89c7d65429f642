---------------------- MODULE ExecutionPipelineProofs -----------------------
(***************************************************************************)
(* Proofs about ExecutionPipeline, for any set of tasks and of workers and *)
(* any bounds.                                                             *)
(*                                                                         *)
(* The invariants build on each other: Typed (types, and what a phase says *)
(* about job and verdict) makes every write well typed; NoRunForgotten is  *)
(* inductive on top of it; Locked ties the handler's container variable to *)
(* the names in use on the daemon; Attributed ties every callback to the   *)
(* delivery that sent it; Told follows a task that is submitted once from  *)
(* the producer to the dashboards.                                         *)
(*                                                                         *)
(* The refinement: ExecutionPipeline implements ExecutionLifecycle when    *)
(* every task is submitted at most once. Two invariants carry it:          *)
(* OneToken, a submission is one message and at most one worker has it;    *)
(* and Staged, the status of the document is the one the phase of that     *)
(* worker says.                                                            *)
(***************************************************************************)
EXTENDS MCExecutionPipeline, TLAPS

\* Before the verdict is computed there is none; from here on there is one.
VerdictPhase == {"collecting", "wroteAnalyzing", "analysing", "finalizing", "wroteFinal"}

\* A handler holds a message exactly while it handles one.
JobHeld == \A w \in Worker : pc[w] \notin {"idle", "down"} => job[w] \in Task

NoJob == \A w \in Worker : pc[w] \in {"idle", "down"} => job[w] = NoTask /\ ~dying[w]

VerdictKnown == \A w \in Worker : pc[w] \in VerdictPhase => verdict[w] \in TerminalStatus

Typed == TypeOK /\ JobHeld /\ NoJob /\ VerdictKnown

USE DEF ExecStatus, TerminalStatus, Phase, ReqState, Reason, Post

\* The rule that judges a log always gives one of the four verdicts, and
\* PASSED only for a zero exit code and a log without failures or fatal errors.
THEOREM PassedIsEarned ==
    ASSUME NEW code \in {0, 1}, NEW ev \in Evidence
    PROVE  /\ DetermineExecutionStatus(code, ev) \in TerminalStatus
           /\ DetermineExecutionStatus(code, ev) = "PASSED"
                => code = 0 /\ ~ev.failures /\ ~ev.noTests /\ ~ev.fatal
  BY DEF DetermineExecutionStatus, LogVerdict, Evidence

----------------------------------------------------------------------------
(***************************************************************************)
(* Type correctness.                                                       *)
(***************************************************************************)
LEMMA InitTyped == Init => Typed
  BY PipelineAssumption
     DEF Init, Typed, TypeOK, JobHeld, NoJob, VerdictKnown, VerdictPhase

LEMMA ApiTyped ==
    ASSUME Typed, NEW t \in Task, NEW k \in 1..MaxRequests, Api(t, k)
    PROVE  Typed'
<1> USE DEF Typed, TypeOK, JobHeld, NoJob, VerdictKnown, VerdictPhase,
            dbVars, apiVars, workVars, netVars, faultVars
<1>1. CASE Persist(t, k)
  BY <1>1 DEF Persist
<1>2. CASE Announce(t, k)
  BY <1>2 DEF Announce
<1>3. CASE Publish(t, k)
  BY <1>3 DEF Publish
<1>4. CASE PublishFails(t, k)
  BY <1>4 DEF PublishFails
<1>5. CASE PublishOnly(t, k)
  BY <1>5 DEF PublishOnly
<1> QED BY <1>1, <1>2, <1>3, <1>4, <1>5 DEF Api

\* Moving between two phases that ask for no more than the one before.
LEMMA StepTyped ==
    ASSUME Typed, NEW w \in Worker, NEW from \in Phase, NEW to \in Phase,
           Step(w, from, to),
           from \in {"idle", "down"} <=> to \in {"idle", "down"},
           to \in VerdictPhase => from \in VerdictPhase
    PROVE  Typed'
  BY DEF Typed, TypeOK, JobHeld, NoJob, VerdictKnown, VerdictPhase, Step, Goto,
         dbVars, apiVars, netVars, faultVars

LEMMA WriteTyped ==
    ASSUME Typed, NEW w \in Worker, NEW status \in ExecStatus, NEW phase \in Phase,
           pc[w] \notin {"idle", "down"}, phase \notin {"idle", "down"},
           phase \in VerdictPhase => pc[w] \in VerdictPhase,
           WriteStatus(w, status, phase)
    PROVE  Typed'
  BY DEF Typed, TypeOK, JobHeld, NoJob, VerdictKnown, VerdictPhase, WriteStatus, Goto,
         apiVars, netVars, faultVars

LEMMA NotifyTyped ==
    ASSUME Typed, NEW w \in Worker, NEW from \in Phase, NEW status \in ExecStatus,
           NEW to \in Phase,
           from \notin {"idle", "down"}, to \notin {"idle", "down"},
           to \in VerdictPhase => from \in VerdictPhase,
           Notify(w, from, status, to)
    PROVE  Typed'
<1> USE DEF Typed, TypeOK, JobHeld, NoJob, VerdictKnown, VerdictPhase, Notify, Goto,
            dbVars, apiVars, faultVars
<1>1. posts' \subseteq Post
  <2>1. job[w] \in Task /\ del[w] \in Nat
    OBVIOUS
  <2>2. [task |-> job[w], status |-> status, del |-> del[w]] \in Post
    BY <2>1
  <2> QED BY <2>2
<1>2. /\ pc' \in [Worker -> Phase]
      /\ JobHeld' /\ NoJob' /\ VerdictKnown'
  OBVIOUS
<1> QED BY <1>1, <1>2

LEMMA DieTyped ==
    ASSUME Typed, NEW w \in Worker, Die(w),
           queue' \in [Task -> Nat], stranded' \in [Task -> SUBSET Reason],
           crashes' \in 0..MaxCrashes, faults' \in 0..MaxFaults
    PROVE  Typed'
  BY DEF Typed, TypeOK, JobHeld, NoJob, VerdictKnown, VerdictPhase, Die,
         dbVars, apiVars, netVars

LEMMA WorkTyped ==
    ASSUME Typed, NEW w \in Worker, Work(w)
    PROVE  Typed'
<1> USE DEF VerdictPhase
<1>1. ASSUME NEW t \in Task, Deliver(w, t) PROVE Typed'
  <2>1. TypeOK'
    BY <1>1 DEF Deliver, Typed, TypeOK, apiVars, dbVars, netVars, faultVars
  <2>2. \A v \in Worker : /\ pc'[v] = IF v = w THEN "received" ELSE pc[v]
                          /\ job'[v] = IF v = w THEN t ELSE job[v]
                          /\ dying'[v] = dying[v] /\ verdict'[v] = verdict[v]
    BY <1>1 DEF Deliver, Typed, TypeOK
  <2>3. JobHeld' /\ NoJob' /\ VerdictKnown'
    BY <2>2 DEF Typed, JobHeld, NoJob, VerdictKnown
  <2> QED BY <2>1, <2>3 DEF Typed
<1>2. ASSUME NEW t \in Task, Reject(w, t) PROVE Typed'
  BY <1>2 DEF Reject, Typed, TypeOK, JobHeld, NoJob, VerdictKnown,
              apiVars, dbVars, workVars, netVars, faultVars
<1>3. CASE WriteRunning(w)
  BY <1>3, WriteTyped DEF WriteRunning
<1>4. CASE WriteRunningFails(w)
  <2>1. job[w] \in Task
    BY <1>4 DEF WriteRunningFails, Typed, JobHeld
  <2>2. /\ queue' \in [Task -> Nat] /\ stranded' \in [Task -> SUBSET Reason]
        /\ crashes' \in 0..MaxCrashes /\ faults' \in 0..MaxFaults
    BY <1>4, <2>1, PipelineAssumption DEF WriteRunningFails, Typed, TypeOK
  <2> QED BY <1>4, <2>2, DieTyped DEF WriteRunningFails
<1>5. CASE NotifyRunning(w)
  BY <1>5, NotifyTyped DEF NotifyRunning
<1>6. CASE Enter(w)
  BY <1>6, StepTyped DEF Enter
<1>7. CASE PullImage(w)
  BY <1>7, StepTyped DEF PullImage
<1>8. CASE StartContainer(w)
  BY <1>8 DEF StartContainer, Goto, Typed, TypeOK, JobHeld, NoJob, VerdictKnown,
              apiVars, dbVars, netVars, faultVars
<1>9. CASE NameConflict(w)
  BY <1>9, StepTyped DEF NameConflict
<1>10. CASE ContainerExits(w)
  <2>1. PICK v \in TerminalStatus : verdict' = [verdict EXCEPT ![w] = v]
    BY <1>10, PassedIsEarned DEF ContainerExits
  <2> QED BY <1>10, <2>1 DEF ContainerExits, Goto, Typed, TypeOK, JobHeld, NoJob,
             VerdictKnown, apiVars, dbVars, netVars, faultVars
<1>11. CASE TimedOut(w)
  BY <1>11, StepTyped DEF TimedOut
<1>12. CASE Throws(w)
  BY <1>12, StepTyped DEF Throws
<1>13. CASE SkipAnalysis(w)
  BY <1>13, StepTyped DEF SkipAnalysis
<1>14. CASE WriteAnalyzing(w)
  BY <1>14, WriteTyped DEF WriteAnalyzing
<1>15. CASE NotifyAnalyzing(w)
  BY <1>15, NotifyTyped DEF NotifyAnalyzing
<1>16. CASE Analyse(w)
  BY <1>16, StepTyped DEF Analyse
<1>17. CASE WriteFinal(w)
  <2>1. verdict[w] \in ExecStatus
    BY <1>17 DEF WriteFinal, Typed, VerdictKnown
  <2> QED BY <1>17, <2>1, WriteTyped DEF WriteFinal
<1>18. CASE NotifyFinal(w)
  <2>1. verdict[w] \in ExecStatus
    BY <1>18 DEF NotifyFinal, Notify, Typed, VerdictKnown
  <2> QED BY <1>18, <2>1, NotifyTyped DEF NotifyFinal
<1>19. CASE WriteError(w)
  BY <1>19, WriteTyped DEF WriteError
<1>20. CASE NotifyError(w)
  BY <1>20, NotifyTyped DEF NotifyError
<1>21. CASE WriteErrorFails(w)
  BY <1>21, PipelineAssumption
     DEF WriteErrorFails, Goto, Typed, TypeOK, JobHeld, NoJob, VerdictKnown,
         apiVars, dbVars, netVars
<1>22. CASE Finish(w)
  BY <1>22, StepTyped DEF Finish
<1>23. CASE Cleanup(w)
  BY <1>23 DEF Cleanup, Goto, Typed, TypeOK, JobHeld, NoJob, VerdictKnown,
               apiVars, dbVars, netVars, faultVars
<1>24. CASE Ack(w)
  BY <1>24 DEF Ack, Goto, Typed, TypeOK, JobHeld, NoJob, VerdictKnown,
               apiVars, dbVars, netVars, faultVars
<1>25. CASE AckAndDie(w)
  <2>1. job[w] \in Task
    BY <1>25 DEF AckAndDie, Typed, JobHeld
  <2>2. queue' \in [Task -> Nat]
    <3>1. queue' = queue \/ queue' = [queue EXCEPT ![job[w]] = @ + 1]
      BY <1>25 DEF AckAndDie
    <3> QED BY <2>1, <3>1 DEF Typed, TypeOK
  <2>3. stranded' \in [Task -> SUBSET Reason]
    <3>1. \/ stranded' = stranded
          \/ stranded' = [stranded EXCEPT ![job[w]] = @ \cup {"errorWrite"}]
      BY <1>25 DEF AckAndDie
    <3>2. stranded \in [Task -> SUBSET Reason]
      BY DEF Typed, TypeOK
    <3>3. stranded[job[w]] \cup {"errorWrite"} \in SUBSET Reason
      BY <2>1, <3>2
    <3>4. [stranded EXCEPT ![job[w]] = @ \cup {"errorWrite"}] \in [Task -> SUBSET Reason]
      BY <3>2, <3>3
    <3> QED BY <3>1, <3>2, <3>4
  <2>4. crashes' \in 0..MaxCrashes /\ faults' \in 0..MaxFaults
    BY <1>25 DEF AckAndDie, Typed, TypeOK
  <2> QED BY <1>25, <2>2, <2>3, <2>4, DieTyped DEF AckAndDie
<1>26. CASE Crash(w)
  <2>1. job[w] \in Task
    BY <1>26 DEF Crash, Typed, JobHeld
  <2>2. /\ queue' \in [Task -> Nat] /\ stranded' \in [Task -> SUBSET Reason]
        /\ crashes' \in 0..MaxCrashes /\ faults' \in 0..MaxFaults
    BY <1>26, <2>1, PipelineAssumption DEF Crash, Typed, TypeOK
  <2> QED BY <1>26, <2>2, DieTyped DEF Crash
<1>27. CASE Restart(w)
  BY <1>27, StepTyped DEF Restart
<1> QED BY <1>1, <1>2, <1>3, <1>4, <1>5, <1>6, <1>7, <1>8, <1>9, <1>10, <1>11, <1>12,
           <1>13, <1>14, <1>15, <1>16, <1>17, <1>18, <1>19, <1>20, <1>21, <1>22,
           <1>23, <1>24, <1>25, <1>26, <1>27 DEF Work

LEMMA CallbackTyped ==
    ASSUME Typed, NEW p \in posts, HandleCallback(p) \/ LoseCallback(p)
    PROVE  Typed'
<1>1. p.task \in Task /\ p.status \in ExecStatus
  BY DEF Typed, TypeOK
<1>2. UNCHANGED <<dbVars, apiVars, queue, workVars, box, deliveries, faultVars, stranded>>
  BY DEF HandleCallback, LoseCallback
<1>3. posts' \subseteq Post
  BY DEF HandleCallback, LoseCallback, Typed, TypeOK
<1>4. view' \in [Task -> ExecStatus]
  <2>1. view' = view \/ view' = [view EXCEPT ![p.task] = p.status]
    BY DEF HandleCallback, LoseCallback
  <2> QED BY <1>1, <2>1 DEF Typed, TypeOK
<1>5. lost' \subseteq Task
  BY <1>1 DEF HandleCallback, LoseCallback, Typed, TypeOK
<1>6. TypeOK'
  BY <1>2, <1>3, <1>4, <1>5 DEF Typed, TypeOK, dbVars, apiVars, workVars, faultVars
<1>7. JobHeld' /\ NoJob' /\ VerdictKnown'
  BY <1>2 DEF Typed, JobHeld, NoJob, VerdictKnown, workVars
<1> QED BY <1>6, <1>7 DEF Typed

LEMMA StutterTyped == Typed /\ UNCHANGED vars => Typed'
  BY DEF Typed, TypeOK, JobHeld, NoJob, VerdictKnown, vars

LEMMA NextTyped == Typed /\ [Next]_vars => Typed'
  BY ApiTyped, WorkTyped, CallbackTyped, StutterTyped DEF Next

THEOREM AlwaysTyped == Spec => []Typed
  BY InitTyped, NextTyped, PTL DEF Spec

\* Every variable of the pipeline keeps its type, for any number of tasks,
\* workers, submissions, crashes and failed writes.
THEOREM TypeCorrect == Spec => []TypeOK
<1>1. Typed => TypeOK
  BY DEF Typed
<1> QED BY <1>1, AlwaysTyped, PTL

----------------------------------------------------------------------------
(***************************************************************************)
(* No run is forgotten.  NoRunForgotten is inductive relative to Typed:    *)
(* every step that takes a pursuer away from a run either puts another in  *)
(* its place, or writes a verdict, or names the reason the run is stuck.   *)
(***************************************************************************)
LEMMA InitRemembers == Init => NoRunForgotten
  BY DEF Init, NoRunForgotten

\* What NoRunForgotten says of one run.
Remembered(t) ==
    \/ exec[t] \in TerminalStatus \cup {"ABSENT"}
    \/ Pursued(t)
    \/ stranded[t] # {}

\* A run none of whose pursuers is touched.
LEMMA OthersRemembered ==
    ASSUME NEW u \in Task, Remembered(u), exec'[u] = exec[u], req'[u] = req[u],
           queue'[u] = queue[u], stranded'[u] = stranded[u], UNCHANGED <<pc, job, dying>>
    PROVE  Remembered(u)'
  BY DEF Remembered, Pursued

LEMMA ApiRemembers ==
    ASSUME Typed, NoRunForgotten, NEW t \in Task, NEW k \in 1..MaxRequests, Api(t, k)
    PROVE  NoRunForgotten'
<1> SUFFICES ASSUME NEW u \in Task PROVE Remembered(u)'
  BY DEF NoRunForgotten, Remembered
<1> USE DEF Typed, TypeOK, dbVars, apiVars, workVars, netVars, faultVars
<1>1. Remembered(u) /\ UNCHANGED <<pc, job, dying>>
  BY DEF NoRunForgotten, Remembered,
         Api, Persist, Announce, Publish, PublishFails, PublishOnly
<1>2. CASE u # t
  <2>1. /\ exec'[u] = exec[u] /\ req'[u] = req[u]
        /\ queue'[u] = queue[u] /\ stranded'[u] = stranded[u]
    BY <1>2 DEF Api, Persist, Announce, Publish, PublishFails, PublishOnly
  <2> QED BY <1>1, <2>1, OthersRemembered
<1>3. CASE u = t
  <2>1. CASE Persist(t, k) \/ Announce(t, k)
    <3>1. PICK s \in {"persisted", "announced"} : req' = [req EXCEPT ![t][k] = s]
      BY <2>1 DEF Persist, Announce
    <3>2. req'[t][k] = s
      BY <3>1
    <3> QED BY <1>3, <3>1, <3>2 DEF Remembered, Pursued
  <2>2. CASE Publish(t, k) \/ PublishOnly(t, k)
    <3>1. queue'[t] > 0
      BY <2>2 DEF Publish, PublishOnly
    <3> QED BY <1>3, <3>1 DEF Remembered, Pursued
  <2>3. CASE PublishFails(t, k)
    <3>1. stranded'[t] # {}
      BY <2>3 DEF PublishFails
    <3> QED BY <1>3, <3>1 DEF Remembered
  <2> QED BY <2>1, <2>2, <2>3 DEF Api
<1> QED BY <1>2, <1>3

LEMMA StepRemembers ==
    ASSUME Typed, NoRunForgotten, NEW w \in Worker, NEW from, NEW to,
           Step(w, from, to), from \in BeforeVerdict => to \in BeforeVerdict
    PROVE  NoRunForgotten'
  BY DEF Typed, TypeOK, NoRunForgotten, Pursued, Step, Goto,
         dbVars, apiVars, netVars, faultVars

LEMMA NotifyRemembers ==
    ASSUME Typed, NoRunForgotten, NEW w \in Worker, NEW from, NEW status, NEW to,
           Notify(w, from, status, to), from \in BeforeVerdict => to \in BeforeVerdict
    PROVE  NoRunForgotten'
  BY DEF Typed, TypeOK, NoRunForgotten, Pursued, Notify, Goto,
         dbVars, apiVars, netVars, faultVars

\* A write keeps its worker pursuing the run, or is the verdict.
LEMMA WriteRemembers ==
    ASSUME Typed, NoRunForgotten, NEW w \in Worker, NEW status, NEW phase,
           job[w] \in Task, WriteStatus(w, status, phase),
           phase \in BeforeVerdict \/ status \in TerminalStatus
    PROVE  NoRunForgotten'
<1> SUFFICES ASSUME NEW t \in Task
             PROVE  \/ exec'[t] \in TerminalStatus \cup {"ABSENT"}
                    \/ Pursued(t)'
                    \/ stranded'[t] # {}
  BY DEF NoRunForgotten
<1> USE DEF Typed, TypeOK, WriteStatus, Goto, Pursued, NoRunForgotten,
            apiVars, netVars, faultVars
<1>1. CASE t = job[w]
  BY <1>1
<1>2. CASE t # job[w]
  BY <1>2
<1> QED BY <1>1, <1>2

LEMMA DieRemembers ==
    ASSUME Typed, NoRunForgotten, NEW w \in Worker, Die(w), job[w] \in Task,
           \/ queue' = [queue EXCEPT ![job[w]] = @ + 1] /\ stranded' = stranded
           \/ /\ queue' = queue
              /\ stranded' = [stranded EXCEPT ![job[w]] = @ \cup {"errorWrite"}]
    PROVE  NoRunForgotten'
<1> SUFFICES ASSUME NEW t \in Task
             PROVE  \/ exec'[t] \in TerminalStatus \cup {"ABSENT"}
                    \/ Pursued(t)'
                    \/ stranded'[t] # {}
  BY DEF NoRunForgotten
<1> USE DEF Typed, TypeOK, Die, dbVars, apiVars, netVars
<1>1. CASE t = job[w]
  <2>1. CASE queue' = [queue EXCEPT ![job[w]] = @ + 1]
    <3>1. queue'[t] > 0
      BY <1>1, <2>1
    <3> QED BY <3>1 DEF Pursued
  <2>2. CASE stranded' = [stranded EXCEPT ![job[w]] = @ \cup {"errorWrite"}]
    <3>1. stranded'[t] # {}
      BY <1>1, <2>2
    <3> QED BY <3>1
  <2> QED BY <2>1, <2>2
<1>2. CASE t # job[w]
  BY <1>2 DEF Pursued, NoRunForgotten
<1> QED BY <1>1, <1>2

LEMMA WorkRemembers ==
    ASSUME Typed, NoRunForgotten, NEW w \in Worker, Work(w)
    PROVE  NoRunForgotten'
<1> USE DEF BeforeVerdict
<1>0. pc[w] \notin {"idle", "down"} => job[w] \in Task
  BY DEF Typed, JobHeld
<1>1. ASSUME NEW t \in Task, Deliver(w, t) PROVE NoRunForgotten'
  <2>1. pc[w] = "idle" /\ ~dying[w]
    BY <1>1 DEF Deliver, Typed, NoJob
  <2> SUFFICES ASSUME NEW u \in Task
               PROVE  \/ exec'[u] \in TerminalStatus \cup {"ABSENT"}
                      \/ Pursued(u)'
                      \/ stranded'[u] # {}
    BY DEF NoRunForgotten
  <2>2. exec' = exec /\ req' = req /\ dying' = dying /\ stranded' = stranded
    BY <1>1 DEF Deliver, dbVars, apiVars
  <2>3. /\ \A v \in Worker : /\ pc'[v] = IF v = w THEN "received" ELSE pc[v]
                             /\ job'[v] = IF v = w THEN t ELSE job[v]
        /\ u # t => queue'[u] = queue[u]
    BY <1>1 DEF Deliver, Typed, TypeOK
  <2>4. CASE u = t
    <3>1. job'[w] = u /\ pc'[w] \in BeforeVerdict
      BY <2>3, <2>4
    <3> QED BY <3>1 DEF Pursued
  <2>5. CASE u # t
    <3>1. \A v \in Worker : job[v] = u /\ (pc[v] \in BeforeVerdict \/ dying[v]) =>
                            job'[v] = u /\ (pc'[v] \in BeforeVerdict \/ dying'[v])
      BY <2>1, <2>2, <2>3
    <3> QED BY <2>2, <2>3, <2>5, <3>1 DEF NoRunForgotten, Pursued
  <2> QED BY <2>4, <2>5
<1>2. ASSUME NEW t \in Task, Reject(w, t) PROVE NoRunForgotten'
  BY <1>2 DEF Reject, Typed, TypeOK, NoRunForgotten, Pursued,
              apiVars, dbVars, workVars, netVars, faultVars
<1>3. CASE WriteRunning(w)
  BY <1>0, <1>3, WriteRemembers DEF WriteRunning
<1>4. CASE WriteRunningFails(w)
  BY <1>0, <1>4, DieRemembers DEF WriteRunningFails
<1>5. CASE NotifyRunning(w)
  BY <1>5, NotifyRemembers DEF NotifyRunning
<1>6. CASE Enter(w)
  BY <1>6, StepRemembers DEF Enter
<1>7. CASE PullImage(w)
  BY <1>7, StepRemembers DEF PullImage
<1>8. CASE StartContainer(w)
  BY <1>8 DEF StartContainer, Goto, Typed, TypeOK, NoRunForgotten, Pursued,
              apiVars, dbVars, netVars, faultVars
<1>9. CASE NameConflict(w)
  BY <1>9, StepRemembers DEF NameConflict
<1>10. CASE ContainerExits(w)
  BY <1>10 DEF ContainerExits, Goto, Typed, TypeOK, NoRunForgotten, Pursued,
               apiVars, dbVars, netVars, faultVars
<1>11. CASE TimedOut(w)
  BY <1>11, StepRemembers DEF TimedOut
<1>12. CASE Throws(w)
  BY <1>12, StepRemembers DEF Throws
<1>13. CASE SkipAnalysis(w)
  BY <1>13, StepRemembers DEF SkipAnalysis
<1>14. CASE WriteAnalyzing(w)
  BY <1>0, <1>14, WriteRemembers DEF WriteAnalyzing
<1>15. CASE NotifyAnalyzing(w)
  BY <1>15, NotifyRemembers DEF NotifyAnalyzing
<1>16. CASE Analyse(w)
  BY <1>16, StepRemembers DEF Analyse
<1>17. CASE WriteFinal(w)
  <2>1. verdict[w] \in TerminalStatus
    BY <1>17 DEF WriteFinal, Typed, VerdictKnown, VerdictPhase
  <2> QED BY <1>0, <1>17, <2>1, WriteRemembers DEF WriteFinal
<1>18. CASE NotifyFinal(w)
  BY <1>18, NotifyRemembers DEF NotifyFinal
<1>19. CASE WriteError(w)
  BY <1>0, <1>19, WriteRemembers DEF WriteError
<1>20. CASE NotifyError(w)
  BY <1>20, NotifyRemembers DEF NotifyError
<1>21. CASE WriteErrorFails(w)
  BY <1>21 DEF WriteErrorFails, Goto, Typed, TypeOK, NoRunForgotten, Pursued,
               apiVars, dbVars, netVars
<1>22. CASE Finish(w)
  BY <1>22, StepRemembers DEF Finish
<1>23. CASE Cleanup(w)
  BY <1>23 DEF Cleanup, Goto, Typed, TypeOK, NoRunForgotten, Pursued,
               apiVars, dbVars, netVars, faultVars
<1>24. CASE Ack(w)
  <2>1. /\ exec' = exec /\ req' = req /\ dying' = dying /\ stranded' = stranded
        /\ queue' = queue /\ pc[w] = "acking" /\ ~dying[w]
    BY <1>24 DEF Ack, dbVars, apiVars
  <2>2. \A v \in Worker : v # w => pc'[v] = pc[v] /\ job'[v] = job[v]
    BY <1>24 DEF Ack, Goto, Typed, TypeOK
  <2>3. ASSUME NEW u \in Task, Pursued(u) PROVE Pursued(u)'
    <3>1. \A v \in Worker : pc[v] \in BeforeVerdict \/ dying[v] => v # w
      BY <2>1
    <3> QED BY <2>1, <2>2, <2>3, <3>1 DEF Pursued
  <2> QED BY <2>1, <2>3 DEF NoRunForgotten
<1>25. CASE AckAndDie(w)
  BY <1>0, <1>25, DieRemembers DEF AckAndDie
<1>26. CASE Crash(w)
  BY <1>0, <1>26, DieRemembers DEF Crash
<1>27. CASE Restart(w)
  BY <1>27, StepRemembers DEF Restart
<1> QED BY <1>1, <1>2, <1>3, <1>4, <1>5, <1>6, <1>7, <1>8, <1>9, <1>10, <1>11, <1>12,
           <1>13, <1>14, <1>15, <1>16, <1>17, <1>18, <1>19, <1>20, <1>21, <1>22,
           <1>23, <1>24, <1>25, <1>26, <1>27 DEF Work

LEMMA CallbackRemembers ==
    ASSUME NoRunForgotten, NEW p \in posts, HandleCallback(p) \/ LoseCallback(p)
    PROVE  NoRunForgotten'
  BY DEF HandleCallback, LoseCallback, NoRunForgotten, Pursued,
         dbVars, apiVars, workVars, faultVars

LEMMA NextRemembers == Typed /\ NoRunForgotten /\ [Next]_vars => NoRunForgotten'
<1>1. ASSUME NoRunForgotten, UNCHANGED vars PROVE NoRunForgotten'
  BY <1>1 DEF NoRunForgotten, Pursued, vars
<1> QED BY <1>1, ApiRemembers, WorkRemembers, CallbackRemembers DEF Next

\* A run without a verdict is pursued by a request, a message or a worker, or
\* met one of the three failures that strand it: for any number of tasks and
\* workers, and whatever the crashes and redeliveries.
THEOREM RunsAreRemembered == Spec => []NoRunForgotten
  BY InitRemembers, NextRemembers, AlwaysTyped, PTL DEF Spec

----------------------------------------------------------------------------
(***************************************************************************)
(* The container name is a lock.  Locked says who holds it: a handler that *)
(* started a container owns a name in use, and no other handler owns the   *)
(* same one; a handler that reads or judges a container started it.        *)
(***************************************************************************)
OwnerPhase == {"running", "collecting", "wroteAnalyzing", "analysing", "finalizing",
               "failing", "wroteFinal", "wroteError", "reported", "cleanup"}
JudgingPhase == {"running", "collecting", "wroteAnalyzing", "analysing", "finalizing"}

Locked ==
    /\ \A w \in Worker : mine[w] => pc[w] \in OwnerPhase /\ job[w] \in box
    /\ \A w \in Worker : pc[w] \in JudgingPhase => mine[w]
    /\ OneContainerPerTask

LEMMA InitLocked == Init => Locked
  BY DEF Init, Locked, OneContainerPerTask, JudgingPhase

\* A worker moves on, nobody starts or removes a container.
LEMMA MoveLocked ==
    ASSUME Typed, Locked, NEW w \in Worker, NEW to, pc' = [pc EXCEPT ![w] = to],
           UNCHANGED <<job, mine, box>>,
           pc[w] \in OwnerPhase => to \in OwnerPhase \/ ~mine[w],
           to \in JudgingPhase => pc[w] \in JudgingPhase
    PROVE  Locked'
  BY DEF Typed, TypeOK, Locked, OneContainerPerTask

LEMMA DieLocked ==
    ASSUME Typed, Locked, NEW w \in Worker, Die(w)
    PROVE  Locked'
  BY DEF Typed, TypeOK, Locked, OneContainerPerTask, JudgingPhase, Die

LEMMA StartLocked ==
    ASSUME Typed, Locked, NEW w \in Worker, StartContainer(w)
    PROVE  Locked'
  BY DEF Typed, TypeOK, Locked, OneContainerPerTask, OwnerPhase, JudgingPhase,
         StartContainer, Goto

LEMMA CleanupLocked ==
    ASSUME Typed, Locked, NEW w \in Worker, Cleanup(w)
    PROVE  Locked'
<1> USE DEF Typed, TypeOK, Locked, Cleanup, Goto
<1>1. OneContainerPerTask'
  BY DEF OneContainerPerTask
<1>2. \A v \in Worker : pc'[v] \in JudgingPhase => mine'[v]
  BY DEF JudgingPhase
<1>3. ASSUME NEW v \in Worker, mine'[v] PROVE pc'[v] \in OwnerPhase /\ job'[v] \in box'
  <2>1. v # w /\ mine[v] /\ job[v] \in box /\ pc'[v] \in OwnerPhase
    BY <1>3
  <2>2. PICK removed \in BOOLEAN :
          box' = IF mine[w] /\ removed THEN box \ {job[w]} ELSE box
    BY Zenon
  <2> QED BY <2>1, <2>2 DEF OneContainerPerTask
<1> QED BY <1>1, <1>2, <1>3

LEMMA WorkLocked ==
    ASSUME Typed, Locked, NEW w \in Worker, Work(w)
    PROVE  Locked'
<1> USE DEF OwnerPhase, JudgingPhase
<1>1. ASSUME NEW t \in Task, Deliver(w, t) PROVE Locked'
  <2>1. ~mine[w]
    BY <1>1 DEF Deliver, Locked
  <2> QED BY <1>1, <2>1 DEF Deliver, Typed, TypeOK, Locked, OneContainerPerTask
<1>2. ASSUME NEW t \in Task, Reject(w, t) PROVE Locked'
  BY <1>2 DEF Reject, Locked, OneContainerPerTask, workVars
<1>3. CASE WriteRunningFails(w) \/ AckAndDie(w) \/ Crash(w)
  BY <1>3, DieLocked DEF WriteRunningFails, AckAndDie, Crash
<1>4. CASE StartContainer(w)
  BY <1>4, StartLocked
<1>5. CASE Cleanup(w)
  BY <1>5, CleanupLocked
<1>6. CASE Ack(w)
  <2>1. ~mine[w] /\ mine' = mine /\ box' = box
    BY <1>6 DEF Ack, Locked
  <2>2. \A v \in Worker : /\ v # w => pc'[v] = pc[v] /\ job'[v] = job[v]
                          /\ v = w => pc'[v] = "idle"
    BY <1>6 DEF Ack, Goto, Typed, TypeOK
  <2> QED BY <2>1, <2>2 DEF Locked, OneContainerPerTask
<1>7. CASE \/ WriteRunning(w) \/ WriteAnalyzing(w) \/ WriteFinal(w) \/ WriteError(w)
  BY <1>7, MoveLocked
     DEF WriteRunning, WriteAnalyzing, WriteFinal, WriteError, WriteStatus, Goto
<1>8. CASE \/ NotifyRunning(w) \/ NotifyAnalyzing(w) \/ NotifyFinal(w) \/ NotifyError(w)
  BY <1>8, MoveLocked
     DEF NotifyRunning, NotifyAnalyzing, NotifyFinal, NotifyError, Notify, Goto
<1>9. CASE \/ Enter(w) \/ PullImage(w) \/ NameConflict(w) \/ TimedOut(w) \/ Throws(w)
           \/ SkipAnalysis(w) \/ Analyse(w) \/ Finish(w) \/ Restart(w)
  BY <1>9, MoveLocked
     DEF Enter, PullImage, NameConflict, TimedOut, Throws, SkipAnalysis, Analyse,
         Finish, Restart, Step, Goto
<1>10. CASE ContainerExits(w)
  BY <1>10, MoveLocked DEF ContainerExits, Goto
<1>11. CASE WriteErrorFails(w)
  BY <1>11, MoveLocked DEF WriteErrorFails, Goto
<1> QED BY <1>1, <1>2, <1>3, <1>4, <1>5, <1>6, <1>7, <1>8, <1>9, <1>10, <1>11 DEF Work

LEMMA NextLocked == Typed /\ Locked /\ [Next]_vars => Locked'
<1> USE DEF Locked, OneContainerPerTask
<1>1. ASSUME Locked, UNCHANGED <<pc, job, mine, box>> PROVE Locked'
  BY <1>1
<1>2. ASSUME NEW t \in Task, NEW k \in 1..MaxRequests, Api(t, k)
      PROVE  UNCHANGED <<pc, job, mine, box>>
  BY <1>2 DEF Api, Persist, Announce, Publish, PublishFails, PublishOnly, workVars
<1>3. ASSUME NEW p \in posts, HandleCallback(p) \/ LoseCallback(p)
      PROVE  UNCHANGED <<pc, job, mine, box>>
  BY <1>3 DEF HandleCallback, LoseCallback, workVars
<1>4. UNCHANGED vars => UNCHANGED <<pc, job, mine, box>>
  BY DEF vars
<1> QED BY <1>1, <1>2, <1>3, <1>4, WorkLocked DEF Next

LEMMA AlwaysLocked == Spec => []Locked
  BY InitLocked, NextLocked, AlwaysTyped, PTL DEF Spec

\* No two workers ever own a container of the same task, however often the
\* task is submitted or redelivered and however many workers there are.
THEOREM NeverTwoContainers == Spec => []OneContainerPerTask
<1>1. Locked => OneContainerPerTask
  BY DEF Locked
<1> QED BY <1>1, AlwaysLocked, PTL

\* Only a handler that owns the container of its task writes a verdict other
\* than ERROR, or ANALYZING.
LEMMA JudgesOwn ==
    ASSUME Locked, NEW w \in Worker, WriteAnalyzing(w) \/ WriteFinal(w)
    PROVE  mine[w]
  BY DEF Locked, JudgingPhase, WriteAnalyzing, WriteFinal

LEMMA OrphanStep ==
    ASSUME Typed, Locked, [Next]_vars, NEW t \in Task, Orphaned(t), exec'[t] # exec[t]
    PROVE  exec'[t] \in {"PENDING", "RUNNING", "ERROR"}
<1> USE DEF Typed, TypeOK
<1>1. ASSUME NEW u \in Task, NEW k \in 1..MaxRequests, Api(u, k)
      PROVE  exec'[t] = "PENDING"
  BY <1>1 DEF Api, Persist, Announce, Publish, PublishFails, PublishOnly, dbVars
<1>2. ASSUME NEW w \in Worker, Work(w)
      PROVE  exec'[t] \in {"RUNNING", "ERROR"}
  <2>1. PICK status \in {"RUNNING", "ERROR"} : exec' = [exec EXCEPT ![job[w]] = status]
    <3>1. CASE WriteAnalyzing(w) \/ WriteFinal(w)
      <4>1. mine[w]
        BY <3>1, JudgesOwn
      <4>2. job[w] # t
        BY <4>1 DEF Orphaned
      <4> QED BY <3>1, <4>2 DEF WriteAnalyzing, WriteFinal, WriteStatus
    <3>2. CASE WriteRunning(w) \/ WriteError(w)
      BY <3>2 DEF WriteRunning, WriteError, WriteStatus
    <3>3. CASE ~(\/ WriteAnalyzing(w) \/ WriteFinal(w)
                 \/ WriteRunning(w) \/ WriteError(w))
      <4>1. UNCHANGED exec
        BY <1>2, <3>3
           DEF Work, Deliver, Reject, WriteRunningFails, NotifyRunning, Enter, PullImage,
               StartContainer, NameConflict, ContainerExits, TimedOut, Throws,
               SkipAnalysis, NotifyAnalyzing, Analyse, NotifyFinal, NotifyError,
               WriteErrorFails, Finish, Cleanup, Ack, AckAndDie, Crash, Restart,
               Step, Notify, Die, dbVars
      <4> QED BY <4>1
    <3> QED BY <3>1, <3>2, <3>3
  <2> QED BY <2>1
<1>3. ASSUME NEW p \in posts, HandleCallback(p) \/ LoseCallback(p)
      PROVE  UNCHANGED exec
  BY <1>3 DEF HandleCallback, LoseCallback, dbVars
<1>4. ~UNCHANGED vars
  BY DEF vars
<1> QED BY <1>1, <1>2, <1>3, <1>4 DEF Next

\* While the container of a task is orphaned, its document only ever becomes
\* PENDING, RUNNING or ERROR.
THEOREM OrphansOnlyErr == Spec => OrphanedTaskOnlyErrs
<1>1. Typed /\ Locked /\ [Next]_vars =>
        [\A t \in Task :
            Orphaned(t) /\ exec'[t] # exec[t]
                => exec'[t] \in {"PENDING", "RUNNING", "ERROR"}]_vars
  BY OrphanStep
<1> QED BY <1>1, AlwaysTyped, AlwaysLocked, PTL DEF Spec, OrphanedTaskOnlyErrs

----------------------------------------------------------------------------
(***************************************************************************)
(* What a worker reports is what it wrote.  Attributed identifies each     *)
(* delivery by its number: handlers in progress have different ones, a     *)
(* callback belongs to one, and a handler that has posted its verdict      *)
(* never writes the document again.                                        *)
(***************************************************************************)
Active(w) == pc[w] \notin {"idle", "down"}
LatePhase == {"reported", "cleanup", "acking"}

Numbered ==
    /\ \A w \in Worker : Active(w) => 0 < del[w] /\ del[w] <= deliveries
    /\ \A v, w \in Worker : v # w /\ Active(v) /\ Active(w) => del[v] # del[w]
    /\ \A p \in posts : 0 < p.del /\ p.del <= deliveries

PostedLast ==
    \A p \in posts, w \in Worker :
        Active(w) /\ p.del = del[w] /\ p.status \in TerminalStatus => pc[w] \in LatePhase

WrittenFirst ==
    \A w \in Worker :
        lastWriter[job[w]] = del[w] =>
            /\ pc[w] = "wroteFinal" => exec[job[w]] = verdict[w]
            /\ pc[w] = "wroteError" => exec[job[w]] = "ERROR"

Attributed == Numbered /\ PostedLast /\ WrittenFirst /\ FinalCallbackMatchesDocument

LEMMA InitAttributed == Init => Attributed
  BY DEF Init, Attributed, Numbered, PostedLast, WrittenFirst,
         FinalCallbackMatchesDocument, Active

\* A handler moves on without writing, posting or starting another delivery.
LEMMA MoveAttributed ==
    ASSUME Typed, Attributed, NEW w \in Worker, NEW to, pc' = [pc EXCEPT ![w] = to],
           UNCHANGED <<exec, lastWriter, job, del, posts, deliveries>>,
           \A v \in Worker \ {w} : verdict'[v] = verdict[v],
           to \notin {"wroteFinal", "wroteError"},
           to \in {"idle", "down"} \/ Active(w),
           pc[w] \in LatePhase => to \in LatePhase \cup {"idle", "down"}
    PROVE  Attributed'
  BY DEF Typed, TypeOK, Attributed, Numbered, PostedLast, WrittenFirst,
         FinalCallbackMatchesDocument, Active

LEMMA DieAttributed ==
    ASSUME Typed, Attributed, NEW w \in Worker, Die(w)
    PROVE  Attributed'
<1> USE DEF Typed, TypeOK, Attributed, Active, Die, dbVars
<1>1. \A v \in Worker : v # w => UNCHANGED <<pc[v], job[v], del[v], verdict[v]>>
  OBVIOUS
<1>2. pc'[w] = "down" /\ UNCHANGED <<exec, lastWriter, posts, del, deliveries>>
  BY DEF Typed, TypeOK, netVars
<1>3. Numbered'
  BY <1>1, <1>2 DEF Numbered
<1>4. PostedLast'
  BY <1>1, <1>2 DEF PostedLast
<1>5. WrittenFirst'
  BY <1>1, <1>2 DEF WrittenFirst
<1>6. FinalCallbackMatchesDocument'
  BY <1>2 DEF FinalCallbackMatchesDocument
<1> QED BY <1>3, <1>4, <1>5, <1>6

LEMMA WriteAttributed ==
    ASSUME Typed, Attributed, NEW w \in Worker, NEW status, NEW phase,
           WriteStatus(w, status, phase),
           Active(w), pc[w] \notin LatePhase, phase \notin LatePhase \cup {"idle", "down"},
           phase = "wroteFinal" => status = verdict[w],
           phase = "wroteError" => status = "ERROR"
    PROVE  Attributed'
<1>1. job[w] \in Task
  BY DEF Typed, JobHeld, Active
<1> USE DEF Typed, TypeOK, Attributed, Active, WriteStatus, Goto, netVars
<1>2. Numbered'
  BY DEF Numbered
<1>3. PostedLast'
  BY DEF PostedLast
<1>4. WrittenFirst'
  <2>1. ASSUME NEW v \in Worker, v # w, job[v] = job[w], Active(v)
        PROVE  lastWriter'[job[v]] # del'[v]
    BY <1>1, <2>1 DEF Numbered
  <2>2. ASSUME NEW v \in Worker, v # w, job[v] # job[w], Active(v)
        PROVE  UNCHANGED <<lastWriter[job[v]], exec[job[v]]>>
    BY <1>1, <2>2 DEF JobHeld
  <2>3. \A v \in Worker : v # w => UNCHANGED <<pc[v], job[v], del[v], verdict[v]>>
    OBVIOUS
  <2>4. pc'[w] = phase /\ exec'[job'[w]] = status /\ verdict'[w] = verdict[w]
    BY <1>1
  <2>5. ASSUME NEW v \in Worker, lastWriter'[job'[v]] = del'[v],
               pc'[v] \in {"wroteFinal", "wroteError"}
        PROVE  /\ pc'[v] = "wroteFinal" => exec'[job'[v]] = verdict'[v]
               /\ pc'[v] = "wroteError" => exec'[job'[v]] = "ERROR"
    <3>1. CASE v = w
      BY <3>1, <2>4
    <3>2. CASE v # w
      <4>1. Active(v) /\ job[v] # job[w]
        BY <2>1, <2>3, <2>5, <3>2
      <4>2. lastWriter[job[v]] = del[v]
        BY <2>2, <2>3, <2>5, <3>2, <4>1
      <4> QED BY <2>2, <2>3, <2>5, <3>2, <4>1, <4>2 DEF WrittenFirst
    <3> QED BY <3>1, <3>2
  <2> QED BY <2>5 DEF WrittenFirst
<1>5. FinalCallbackMatchesDocument'
  BY <1>1 DEF FinalCallbackMatchesDocument, PostedLast
<1> QED BY <1>2, <1>3, <1>4, <1>5

LEMMA NotifyAttributed ==
    ASSUME Typed, Attributed, NEW w \in Worker, NEW from, NEW status, NEW to,
           Notify(w, from, status, to),
           Active(w), from \notin LatePhase,
           to \notin {"idle", "down", "wroteFinal", "wroteError"},
           status \in TerminalStatus =>
              /\ to \in LatePhase
              /\ \/ from = "wroteFinal" /\ status = verdict[w]
                 \/ from = "wroteError" /\ status = "ERROR"
    PROVE  Attributed'
<1> DEFINE new == [task |-> job[w], status |-> status, del |-> del[w]]
<1> USE DEF Typed, TypeOK, Attributed, Active, Notify, Goto, dbVars
<1>1. posts' = posts \cup {new}
  OBVIOUS
<1>2. new.task = job[w] /\ new.status = status /\ new.del = del[w]
  OBVIOUS
<1> HIDE DEF new
<1>3. Numbered'
  BY <1>1, <1>2 DEF Numbered
<1>4. PostedLast'
  BY <1>1, <1>2 DEF PostedLast, Numbered
<1>5. WrittenFirst'
  BY DEF WrittenFirst
<1>6. FinalCallbackMatchesDocument'
  BY <1>1, <1>2 DEF FinalCallbackMatchesDocument, WrittenFirst
<1> QED BY <1>3, <1>4, <1>5, <1>6

LEMMA DeliverAttributed ==
    ASSUME Typed, Attributed, NEW w \in Worker, NEW t \in Task, Deliver(w, t)
    PROVE  Attributed'
<1> USE DEF Typed, TypeOK, Attributed, Active, Deliver, dbVars, netVars
<1>1. Numbered'
  BY DEF Numbered
<1>2. PostedLast'
  BY DEF PostedLast, Numbered
<1>3. WrittenFirst'
  BY DEF WrittenFirst
<1>4. FinalCallbackMatchesDocument'
  BY DEF FinalCallbackMatchesDocument
<1> QED BY <1>1, <1>2, <1>3, <1>4

LEMMA WorkAttributed ==
    ASSUME Typed, Attributed, NEW w \in Worker, Work(w)
    PROVE  Attributed'
<1> USE DEF Active, LatePhase
<1>1. ASSUME NEW t \in Task, Deliver(w, t) PROVE Attributed'
  BY <1>1, DeliverAttributed
<1>2. ASSUME NEW t \in Task, Reject(w, t) PROVE Attributed'
  BY <1>2 DEF Reject, Attributed, Numbered, PostedLast, WrittenFirst,
              FinalCallbackMatchesDocument, dbVars, workVars, netVars
<1>3. CASE WriteRunningFails(w) \/ AckAndDie(w) \/ Crash(w)
  BY <1>3, DieAttributed DEF WriteRunningFails, AckAndDie, Crash
<1>4. CASE WriteRunning(w) \/ WriteAnalyzing(w) \/ WriteFinal(w) \/ WriteError(w)
  BY <1>4, WriteAttributed DEF WriteRunning, WriteAnalyzing, WriteFinal, WriteError
<1>5. CASE NotifyRunning(w) \/ NotifyAnalyzing(w)
  BY <1>5, NotifyAttributed DEF NotifyRunning, NotifyAnalyzing, Notify
<1>6. CASE NotifyFinal(w) \/ NotifyError(w)
  BY <1>6, NotifyAttributed DEF NotifyFinal, NotifyError, Notify
<1>7. CASE \/ Enter(w) \/ PullImage(w) \/ NameConflict(w) \/ TimedOut(w) \/ Throws(w)
           \/ SkipAnalysis(w) \/ Analyse(w) \/ Finish(w)
  BY <1>7, MoveAttributed
     DEF Enter, PullImage, NameConflict, TimedOut, Throws, SkipAnalysis, Analyse,
         Finish, Step, Goto, dbVars, netVars
<1>8. CASE Restart(w)
  BY <1>8, MoveAttributed DEF Restart, Step, Goto, dbVars, netVars
<1>9. CASE StartContainer(w)
  BY <1>9, MoveAttributed DEF StartContainer, Goto, dbVars, netVars
<1>10. CASE ContainerExits(w)
  <2>1. PICK v : verdict' = [verdict EXCEPT ![w] = v]
    BY <1>10 DEF ContainerExits
  <2>2. \A v1 \in Worker \ {w} : verdict'[v1] = verdict[v1]
    BY <2>1 DEF Typed, TypeOK
  <2>3. /\ pc[w] = "running" /\ pc' = [pc EXCEPT ![w] = "collecting"]
        /\ UNCHANGED <<exec, lastWriter, job, del, posts, deliveries>>
    BY <1>10 DEF ContainerExits, Goto, dbVars, netVars
  <2> QED BY <2>2, <2>3, MoveAttributed
<1>11. CASE WriteErrorFails(w)
  BY <1>11, MoveAttributed DEF WriteErrorFails, Goto, dbVars, netVars
<1>12. CASE Cleanup(w)
  BY <1>12, MoveAttributed DEF Cleanup, Goto, dbVars, netVars
<1>13. CASE Ack(w)
  BY <1>13 DEF Ack, Goto, Typed, TypeOK, Attributed, Numbered, PostedLast, WrittenFirst,
               FinalCallbackMatchesDocument, dbVars, netVars
<1> QED BY <1>1, <1>2, <1>3, <1>4, <1>5, <1>6, <1>7, <1>8, <1>9, <1>10, <1>11, <1>12,
           <1>13 DEF Work

LEMMA ApiAttributed ==
    ASSUME Typed, Attributed, NEW t \in Task, NEW k \in 1..MaxRequests, Api(t, k)
    PROVE  Attributed'
<1> USE DEF Attributed, Numbered, PostedLast, WrittenFirst, FinalCallbackMatchesDocument,
            Active, dbVars, workVars, netVars
<1>1. CASE Persist(t, k)
  <2>1. \A w \in Worker : pc[w] \in {"wroteFinal", "wroteError"} => job[w] \in Task
    BY DEF Typed, JobHeld
  <2>2. UNCHANGED <<pc, job, del, verdict, posts, deliveries>>
    BY <1>1 DEF Persist
  <2>3. \A u \in Task : UNCHANGED <<exec[u], lastWriter[u]>> \/ lastWriter'[u] = 0
    BY <1>1 DEF Persist, Typed, TypeOK
  <2>4. \A p \in posts : p.task \in Task
    BY DEF Typed, TypeOK
  <2> QED BY <2>1, <2>2, <2>3, <2>4
<1>2. CASE ~Persist(t, k)
  BY <1>2 DEF Api, Announce, Publish, PublishFails, PublishOnly
<1> QED BY <1>1, <1>2

LEMMA NextAttributed == Typed /\ Attributed /\ [Next]_vars => Attributed'
<1> USE DEF Attributed, Numbered, PostedLast, WrittenFirst, FinalCallbackMatchesDocument,
            Active
<1>1. ASSUME Attributed, NEW p \in posts, HandleCallback(p) \/ LoseCallback(p)
      PROVE  Attributed'
  BY <1>1 DEF HandleCallback, LoseCallback, dbVars, workVars
<1>2. Attributed /\ UNCHANGED vars => Attributed'
  BY DEF vars
<1> QED BY <1>1, <1>2, ApiAttributed, WorkAttributed DEF Next

\* A verdict on its way to the producer is the one in the document, unless the
\* document was written again by somebody else: for any interleaving of any
\* number of deliveries and submissions of the task.
THEOREM CallbackIsFaithful == Spec => []FinalCallbackMatchesDocument
<1>1. Spec => []Attributed
  BY InitAttributed, NextAttributed, AlwaysTyped, PTL DEF Spec
<1>2. Attributed => FinalCallbackMatchesDocument
  BY DEF Attributed
<1> QED BY <1>1, <1>2, PTL

----------------------------------------------------------------------------
(***************************************************************************)
(* The dashboards.  Without deaths a task that is submitted once is in one *)
(* place at a time, so what was written last is posted last, and nothing   *)
(* is written while a post is pending: the handler waits for the answer.   *)
(***************************************************************************)
\* The one submission of a task is in one place at a time: with the producer, in the
\* queue, or with one worker, who posts and waits.
InOnePlace(t) ==
    /\ queue[t] <= 1 /\ (queue[t] > 0 => req[t][1] = "queued")
    /\ \A w \in Worker : job[w] = t => req[t][1] = "queued" /\ queue[t] = 0
    /\ \A v, w \in Worker : job[v] = t /\ job[w] = t => v = w
    /\ \A p \in posts : p.task = t =>
          \E w \in Worker : /\ job[w] = t /\ p.del = del[w]
                            /\ pc[w] \in {"announcing", "analysing", "reported"}

\* A status about to be posted, and a posted one, is the status of the document.
PostsAgree(t) ==
    /\ req[t][1] = "persisted" => exec[t] = "PENDING"
    /\ \A w \in Worker : job[w] = t =>
          /\ pc[w] = "wroteRunning" => exec[t] = "RUNNING"
          /\ pc[w] = "wroteAnalyzing" => exec[t] = "ANALYZING"
          /\ pc[w] = "wroteFinal" => exec[t] = verdict[w]
          /\ pc[w] = "wroteError" => exec[t] = "ERROR"
    /\ \A p \in posts : p.task = t => p.status = exec[t]

Unposted == {"received", "wroteRunning", "wroteAnalyzing", "wroteFinal", "wroteError"}

\* The dashboards show the document, or will be told, or somebody lost the news.
Shown(t) ==
    \/ view[t] = exec[t] \/ t \in lost \/ stranded[t] # {}
    \/ req[t][1] = "persisted" \/ queue[t] > 0
    \/ \E p \in posts : p.task = t
    \/ \E w \in Worker : job[w] = t /\ pc[w] \in Unposted

Told(t) == InOnePlace(t) /\ PostsAgree(t) /\ Shown(t)

AllTold == \A t \in Task : Told(t)

ToldInv == deaths = 0 => AllTold

\* A step that touches neither the task nor the worker that holds it.
LEMMA OthersTold ==
    ASSUME NEW u \in Task, Told(u), UNCHANGED <<exec[u], req[u], queue[u], view[u], stranded[u]>>,
           u \in lost => u \in lost',
           \A p : p.task = u => (p \in posts' <=> p \in posts),
           \A v \in Worker : job[v] = u \/ job'[v] = u
                               => UNCHANGED <<job[v], pc[v], del[v], verdict[v]>>
    PROVE  Told(u)'
<1>1. \A v \in Worker : job'[v] = u <=> job[v] = u
  OBVIOUS
<1>2. InOnePlace(u)'
  BY <1>1 DEF Told, InOnePlace
<1>3. PostsAgree(u)'
  BY <1>1 DEF Told, PostsAgree
<1>4. Shown(u)'
  BY <1>1 DEF Told, Shown
<1> QED BY <1>2, <1>3, <1>4 DEF Told

\* A handler that neither writes, posts, nor has posted and is waiting.
LEMMA MoveTold ==
    ASSUME Typed, NEW w \in Worker, NEW to \in Phase, AllTold,
           pc[w] \notin Unposted, to \notin Unposted,
           pc[w] \in {"announcing", "analysing", "reported"} => Answered(w),
           pc' = [pc EXCEPT ![w] = to],
           \A v \in Worker \ {w} : verdict'[v] = verdict[v] /\ job'[v] = job[v],
           job'[w] \in {job[w], NoTask},
           UNCHANGED <<exec, req, queue, view, stranded, lost, posts, del>>
    PROVE  AllTold'
<1> SUFFICES ASSUME NEW u \in Task PROVE Told(u)'
  BY DEF AllTold
<1> USE DEF AllTold
<1> USE NoTaskAssumption
<1>1. /\ pc'[w] = to /\ \A v \in Worker \ {w} : pc'[v] = pc[v]
      /\ Told(u)
  BY DEF Typed, TypeOK
<1>2. CASE job[w] # u
  <2>1. \A v \in Worker : job[v] = u \/ job'[v] = u => v # w
    BY <1>2
  <2> QED BY <1>1, <2>1, OthersTold
<1>3. CASE job[w] = u
  <2>1. \A v \in Worker : job[v] = u => v = w
    BY <1>1, <1>3 DEF Told, InOnePlace
  <2>2. \A p \in posts : p.task # u
    BY <1>1, <1>3, <2>1 DEF Told, InOnePlace, Answered
  <2>3. \A v \in Worker : job'[v] = u => v = w
    BY <2>1
  <2>4. InOnePlace(u)'
    BY <1>1, <1>3, <2>2, <2>3 DEF Told, InOnePlace
  <2>5. PostsAgree(u)'
    BY <1>1, <2>2, <2>3 DEF Told, PostsAgree, Unposted
  <2>6. req[u][1] # "persisted" /\ queue[u] = 0
    BY <1>1, <1>3 DEF Told, InOnePlace
  <2>7. ~(queue[u] > 0)
    BY <2>6
  <2>8. view[u] = exec[u] \/ u \in lost \/ stranded[u] # {}
    BY <1>1, <2>1, <2>2, <2>6, <2>7 DEF Told, Shown
  <2> QED BY <2>4, <2>5, <2>8 DEF Told, Shown
<1> QED BY <1>2, <1>3

LEMMA StepTold ==
    ASSUME Typed, NEW w \in Worker, NEW from \in Phase, NEW to \in Phase,
           AllTold, Step(w, from, to),
           from \notin Unposted, to \notin Unposted,
           from \in {"announcing", "analysing", "reported"} => Answered(w)
    PROVE  AllTold'
<1>1. /\ pc[w] = from /\ pc' = [pc EXCEPT ![w] = to] /\ job' = job /\ verdict' = verdict
      /\ UNCHANGED <<exec, req, queue, view, stranded, lost, posts, del>>
  BY DEF Step, Goto, dbVars, apiVars, netVars
<1> QED BY <1>1, MoveTold

\* A write is announced by the next step of the same handler.
LEMMA WriteTold ==
    ASSUME Typed, NEW w \in Worker, NEW status \in ExecStatus, NEW phase \in Phase,
           AllTold, WriteStatus(w, status, phase),
           pc[w] \in {"received", "collecting", "finalizing", "failing"},
           \/ phase = "wroteRunning" /\ status = "RUNNING"
           \/ phase = "wroteAnalyzing" /\ status = "ANALYZING"
           \/ phase = "wroteFinal" /\ status = verdict[w]
           \/ phase = "wroteError" /\ status = "ERROR"
    PROVE  AllTold'
<1> SUFFICES ASSUME NEW u \in Task PROVE Told(u)'
  BY DEF AllTold
<1> USE DEF AllTold
<1>1. /\ pc'[w] = phase /\ (\A v \in Worker \ {w} : pc'[v] = pc[v])
      /\ job[w] \in Task /\ exec'[job[w]] = status
      /\ (\A x \in Task \ {job[w]} : exec'[x] = exec[x])
      /\ UNCHANGED <<job, del, verdict, req, queue, view, stranded, lost, posts>>
  BY DEF Typed, TypeOK, JobHeld, WriteStatus, Goto, apiVars, netVars
<1>2. CASE job[w] # u
  <2>1. \A v \in Worker : job[v] = u => v # w
    BY <1>2
  <2> QED BY <1>1, <1>2, <2>1, OthersTold
<1>3. CASE job[w] = u
  <2>1. \A v \in Worker : job[v] = u => v = w
    BY <1>3 DEF Told, InOnePlace
  <2>2. \A p \in posts : p.task # u
    BY <1>3, <2>1 DEF Told, InOnePlace
  <2>3. InOnePlace(u)'
    BY <1>1, <2>2, <1>3 DEF Told, InOnePlace
  <2>4. req[u][1] = "queued"
    BY <1>3 DEF Told, InOnePlace
  <2>5. PostsAgree(u)'
    BY <1>1, <1>3, <2>1, <2>2, <2>4 DEF Told, PostsAgree
  <2>6. Shown(u)'
    BY <1>1, <1>3 DEF Shown, Unposted
  <2> QED BY <2>3, <2>5, <2>6 DEF Told
<1> QED BY <1>2, <1>3

LEMMA NotifyTold ==
    ASSUME Typed, NEW w \in Worker, NEW from, NEW status, NEW to,
           AllTold, Notify(w, from, status, to),
           to \in {"announcing", "analysing", "reported"}, to \in Phase,
           from \in {"wroteRunning", "wroteAnalyzing", "wroteFinal", "wroteError"},
           from = "wroteRunning" => status = "RUNNING",
           from = "wroteAnalyzing" => status = "ANALYZING",
           from = "wroteFinal" => status = verdict[w],
           from = "wroteError" => status = "ERROR"
    PROVE  AllTold'
<1> SUFFICES ASSUME NEW u \in Task PROVE Told(u)'
  BY DEF AllTold
<1> USE DEF AllTold
<1> DEFINE new == [task |-> job[w], status |-> status, del |-> del[w]]
<1>1. /\ pc[w] = from /\ pc'[w] = to /\ (\A v \in Worker \ {w} : pc'[v] = pc[v])
      /\ job[w] \in Task /\ posts' = posts \cup {new}
      /\ UNCHANGED <<exec, job, del, verdict, req, queue, view, stranded, lost>>
  BY DEF Typed, TypeOK, JobHeld, Notify, Goto, apiVars, dbVars
<1>2. new.task = job[w] /\ new.status = status /\ new.del = del[w]
  OBVIOUS
<1> HIDE DEF new
<1>3. CASE job[w] # u
  <2>1. \A v \in Worker : job[v] = u => v # w
    BY <1>3
  <2>2. \A p : p.task = u => (p \in posts' <=> p \in posts)
    BY <1>1, <1>2, <1>3
  <2> QED BY <1>1, <2>1, <2>2, OthersTold
<1>4. CASE job[w] = u
  <2>1. \A v \in Worker : job[v] = u => v = w
    BY <1>4 DEF Told, InOnePlace
  <2>2. \A p \in posts : p.task # u
    BY <1>1, <2>1 DEF Told, InOnePlace
  <2>3. InOnePlace(u)'
    BY <1>1, <1>2, <1>4, <2>2 DEF Told, InOnePlace
  <2>4. status = exec[u]
    BY <1>1, <1>4 DEF Told, PostsAgree
  <2>5. PostsAgree(u)'
    BY <1>1, <1>2, <2>1, <2>2, <2>4 DEF Told, PostsAgree
  <2>6. Shown(u)'
    BY <1>1, <1>2, <1>4 DEF Shown
  <2> QED BY <2>3, <2>5, <2>6 DEF Told
<1> QED BY <1>3, <1>4

LEMMA TakeTold ==
    ASSUME Typed, NEW w \in Worker, NEW t \in Task, AllTold,
           Deliver(w, t) \/ Reject(w, t)
    PROVE  AllTold'
<1> SUFFICES ASSUME NEW u \in Task PROVE Told(u)'
  BY DEF AllTold
<1> USE DEF AllTold
<1> USE NoTaskAssumption
<1>1. /\ queue'[t] = queue[t] - 1 /\ queue[t] > 0 /\ queue[t] \in Nat /\ job[w] = NoTask
      /\ \A x \in Task \ {t} : queue'[x] = queue[x] /\ stranded'[x] = stranded[x]
      /\ UNCHANGED <<exec, req, view, lost, posts, verdict>>
      /\ \A v \in Worker \ {w} : UNCHANGED <<job[v], pc[v], del[v]>>
  BY DEF Typed, TypeOK, NoJob, Deliver, Reject, dbVars, apiVars, netVars, workVars
<1>2. job'[w] \in {t, NoTask}
  BY <1>1 DEF Typed, TypeOK, Deliver, Reject, workVars
<1>3. CASE u # t
  <2>1. \A v \in Worker : job[v] = u \/ job'[v] = u => v # w
    BY <1>1, <1>2, <1>3
  <2> QED BY <1>1, <1>3, <2>1, OthersTold
<1>4. CASE u = t
  <2>1. /\ queue'[t] = 0 /\ req[t][1] = "queued"
        /\ \A v \in Worker : job[v] # t
    BY <1>1, <1>4 DEF Told, InOnePlace
  <2>2. \A p \in posts : p.task # t
    BY <1>4, <2>1 DEF Told, InOnePlace
  <2>3. \A v \in Worker : job'[v] = t => v = w
    BY <1>1, <2>1
  <2>4. InOnePlace(t)'
    BY <1>1, <2>1, <2>2, <2>3 DEF InOnePlace
  <2>5. CASE Deliver(w, t)
    <3>1. job'[w] = t /\ pc'[w] = "received"
      BY <2>5 DEF Deliver, Typed, TypeOK
    <3>2. PostsAgree(t)'
      BY <1>1, <2>1, <2>2, <2>3, <3>1 DEF PostsAgree
    <3>3. Shown(t)'
      BY <3>1 DEF Shown, Unposted
    <3> QED BY <1>4, <2>4, <3>2, <3>3 DEF Told
  <2>6. CASE Reject(w, t)
    <3>1. job' = job /\ stranded'[t] # {}
      BY <2>6 DEF Reject, workVars, Typed, TypeOK
    <3>2. PostsAgree(t)'
      BY <1>1, <2>1, <2>2, <3>1 DEF PostsAgree
    <3>3. Shown(t)'
      BY <3>1 DEF Shown
    <3> QED BY <1>4, <2>4, <3>2, <3>3 DEF Told
  <2> QED BY <2>5, <2>6
<1> QED BY <1>3, <1>4

LEMMA WorkTold ==
    ASSUME Typed, NEW w \in Worker, AllTold, Work(w), deaths' = 0
    PROVE  AllTold'
<1> USE DEF Unposted
<1>1. CASE \E t \in Task : Deliver(w, t) \/ Reject(w, t)
  BY <1>1, TakeTold
<1>2. CASE WriteRunning(w)
  BY <1>2, WriteTold DEF WriteRunning
<1>3. CASE WriteRunningFails(w) \/ AckAndDie(w) \/ Crash(w)
  <2>1. deaths' = deaths + 1 /\ deaths \in Nat
    BY <1>3 DEF WriteRunningFails, AckAndDie, Crash, Die, Typed, TypeOK
  <2> QED BY <2>1
<1>4. CASE NotifyRunning(w)
  BY <1>4, NotifyTold DEF NotifyRunning
<1>5. CASE Enter(w)
  BY <1>5, StepTold DEF Enter
<1>6. CASE PullImage(w)
  BY <1>6, StepTold DEF PullImage
<1>7. CASE StartContainer(w)
  <2>1. /\ pc[w] = "starting" /\ pc' = [pc EXCEPT ![w] = "running"]
        /\ UNCHANGED <<exec, req, queue, view, stranded, lost, posts, del, job, verdict>>
    BY <1>7 DEF StartContainer, Goto, dbVars, apiVars, netVars
  <2> QED BY <2>1, MoveTold
<1>8. CASE NameConflict(w)
  BY <1>8, StepTold DEF NameConflict
<1>9. CASE ContainerExits(w)
  <2>1. \A v \in Worker \ {w} : verdict'[v] = verdict[v]
    BY <1>9 DEF ContainerExits, Typed, TypeOK
  <2>2. /\ pc[w] = "running" /\ pc' = [pc EXCEPT ![w] = "collecting"]
        /\ UNCHANGED <<exec, req, queue, view, stranded, lost, posts, del, job>>
    BY <1>9 DEF ContainerExits, Goto, dbVars, apiVars, netVars
  <2> QED BY <2>1, <2>2, MoveTold
<1>10. CASE TimedOut(w)
  BY <1>10, StepTold DEF TimedOut
<1>11. CASE Throws(w)
  BY <1>11, StepTold DEF Throws
<1>12. CASE SkipAnalysis(w)
  BY <1>12, StepTold DEF SkipAnalysis
<1>13. CASE WriteAnalyzing(w)
  BY <1>13, WriteTold DEF WriteAnalyzing
<1>14. CASE NotifyAnalyzing(w)
  BY <1>14, NotifyTold DEF NotifyAnalyzing
<1>15. CASE Analyse(w)
  BY <1>15, StepTold DEF Analyse
<1>16. CASE WriteFinal(w)
  <2>1. verdict[w] \in ExecStatus
    BY <1>16 DEF WriteFinal, Typed, VerdictKnown, VerdictPhase
  <2> QED BY <1>16, <2>1, WriteTold DEF WriteFinal
<1>17. CASE NotifyFinal(w)
  BY <1>17, NotifyTold DEF NotifyFinal
<1>18. CASE WriteError(w)
  BY <1>18, WriteTold DEF WriteError
<1>19. CASE NotifyError(w)
  BY <1>19, NotifyTold DEF NotifyError
<1>20. CASE WriteErrorFails(w)
  <2>1. /\ pc[w] = "failing" /\ pc' = [pc EXCEPT ![w] = "cleanup"]
        /\ UNCHANGED <<exec, req, queue, view, stranded, lost, posts, del, job, verdict>>
    BY <1>20 DEF WriteErrorFails, Goto, dbVars, apiVars, netVars
  <2> QED BY <2>1, MoveTold
<1>21. CASE Finish(w)
  BY <1>21, StepTold DEF Finish
<1>22. CASE Cleanup(w)
  <2>1. /\ pc[w] = "cleanup" /\ pc' = [pc EXCEPT ![w] = "acking"]
        /\ UNCHANGED <<exec, req, queue, view, stranded, lost, posts, del, job, verdict>>
    BY <1>22 DEF Cleanup, Goto, dbVars, apiVars, netVars
  <2> QED BY <2>1, MoveTold
<1>23. CASE Ack(w)
  <2>1. /\ pc[w] = "acking" /\ pc' = [pc EXCEPT ![w] = "idle"]
        /\ UNCHANGED <<exec, req, queue, view, stranded, lost, posts, del>>
    BY <1>23 DEF Ack, Goto, dbVars, apiVars, netVars
  <2>2. /\ job'[w] = NoTask
        /\ \A v \in Worker \ {w} : verdict'[v] = verdict[v] /\ job'[v] = job[v]
    BY <1>23 DEF Ack, Typed, TypeOK
  <2> QED BY <2>1, <2>2, MoveTold
<1>24. CASE Restart(w)
  BY <1>24, StepTold DEF Restart
<1> QED BY <1>1, <1>2, <1>3, <1>4, <1>5, <1>6, <1>7, <1>8, <1>9, <1>10, <1>11, <1>12, <1>13,
           <1>14, <1>15, <1>16, <1>17, <1>18, <1>19, <1>20, <1>21, <1>22, <1>23, <1>24
        DEF Work

LEMMA ApiTold ==
    ASSUME Typed, MaxRequests = 1, NEW t \in Task, NEW k \in 1..MaxRequests,
           AllTold, Api(t, k)
    PROVE  AllTold'
<1> SUFFICES ASSUME NEW u \in Task PROVE Told(u)'
  BY DEF AllTold
<1> USE DEF AllTold
<1>1. k = 1 /\ UNCHANGED <<workVars, posts, lost>>
  BY DEF Api, Persist, Announce, Publish, PublishFails, PublishOnly, netVars
<1>2. CASE u # t
  <2>1. UNCHANGED <<exec[u], req[u], queue[u], view[u], stranded[u]>>
    BY <1>2 DEF Api, Persist, Announce, Publish, PublishFails, PublishOnly, Typed, TypeOK,
                dbVars, netVars
  <2> QED BY <1>1, <2>1, OthersTold DEF workVars
<1>3. CASE u = t
  <2>1. /\ req[t][1] \in {"none", "persisted", "announced"} /\ queue[t] \in Nat
        /\ \A s \in ReqState : req' = [req EXCEPT ![t][k] = s] => req'[t][1] = s
    BY <1>1 DEF Api, Persist, Announce, Publish, PublishFails, PublishOnly, Submit, Typed, TypeOK
  <2>2. queue[t] = 0 /\ \A v \in Worker : job[v] # t
    BY <1>3, <2>1 DEF Told, InOnePlace
  <2>3. \A p \in posts : p.task # t
    BY <1>3, <2>2 DEF Told, InOnePlace
  <2>4. \/ queue'[t] = 0
        \/ queue'[t] = 1 /\ req'[t][1] = "queued"
    BY <2>1, <2>2
       DEF Api, Persist, Announce, Publish, PublishFails, PublishOnly, Typed, TypeOK
  <2>5. InOnePlace(t)'
    BY <1>1, <2>2, <2>3, <2>4 DEF InOnePlace, workVars
  <2>6. req'[t][1] = "persisted" => exec'[t] = "PENDING"
    BY <2>1 DEF Api, Persist, Announce, Publish, PublishFails, PublishOnly, Typed, TypeOK
  <2>7. PostsAgree(t)'
    BY <1>1, <2>2, <2>3, <2>6 DEF PostsAgree, workVars
  <2>8. Shown(t)'
    <3>1. CASE Persist(t, k)
      <4>1. req'[t][1] = "persisted"
        BY <1>1, <3>1 DEF Persist, Typed, TypeOK
      <4> QED BY <4>1 DEF Shown
    <3>2. CASE Announce(t, k)
      <4>1. exec[t] = "PENDING" /\ view'[t] = "PENDING" /\ exec' = exec
        BY <1>1, <1>3, <3>2 DEF Announce, Told, PostsAgree, Typed, TypeOK, dbVars
      <4> QED BY <4>1 DEF Shown
    <3>3. CASE Publish(t, k) \/ PublishOnly(t, k)
      <4>1. queue'[t] > 0
        BY <2>2, <3>3 DEF Publish, PublishOnly, Typed, TypeOK
      <4> QED BY <4>1 DEF Shown
    <3>4. CASE PublishFails(t, k)
      <4>1. stranded'[t] # {}
        BY <3>4 DEF PublishFails, Typed, TypeOK
      <4> QED BY <4>1 DEF Shown
    <3> QED BY <3>1, <3>2, <3>3, <3>4 DEF Api
  <2> QED BY <1>3, <2>5, <2>7, <2>8 DEF Told
<1> QED BY <1>2, <1>3

LEMMA CallbackTold ==
    ASSUME Typed, AllTold, NEW p \in posts,
           HandleCallback(p) \/ LoseCallback(p)
    PROVE  AllTold'
<1> SUFFICES ASSUME NEW u \in Task PROVE Told(u)'
  BY DEF AllTold
<1> USE DEF AllTold
<1>1. /\ posts' = posts \ {p} /\ p.task \in Task
      /\ UNCHANGED <<exec, req, queue, stranded, job, pc, del, verdict>>
      /\ \A x \in Task \ {p.task} : view'[x] = view[x]
      /\ \/ view'[p.task] = p.status /\ lost' = lost
         \/ lost' = lost \cup {p.task}
  <2>1. p.task \in Task
    BY DEF Typed, TypeOK
  <2> QED BY <2>1 DEF HandleCallback, LoseCallback, dbVars, apiVars, workVars, Typed, TypeOK
<1>2. CASE u # p.task
  BY <1>1, <1>2, OthersTold
<1>3. CASE u = p.task
  <2>1. p.status = exec[u]
    BY <1>3 DEF Told, PostsAgree
  <2>2. InOnePlace(u)' /\ PostsAgree(u)'
    BY <1>1 DEF Told, InOnePlace, PostsAgree
  <2>3. Shown(u)'
    BY <1>1, <1>3, <2>1 DEF Shown
  <2> QED BY <2>2, <2>3 DEF Told
<1> QED BY <1>2, <1>3

\* DashboardAgrees, when every task is submitted once: for any number of tasks and
\* workers, what the dashboards show in the end is what the database holds, unless a
\* callback was lost, a worker died or the run was stranded.
THEOREM DashboardsAgree ==
    ASSUME MaxRequests = 1
    PROVE  Spec => []DashboardAgrees
<1>1. Init => ToldInv
  BY NoTaskAssumption DEF Init, ToldInv, AllTold, Told, InOnePlace, PostsAgree, Shown
<1>2. Typed /\ ToldInv /\ [Next]_vars => ToldInv'
  <2> SUFFICES ASSUME Typed, ToldInv, [Next]_vars, deaths' = 0 PROVE AllTold'
    BY DEF ToldInv
  <2>1. deaths = 0
    <3>1. CASE \E t \in Task, k \in 1..MaxRequests : Api(t, k)
      BY <3>1 DEF Api, Persist, Announce, Publish, PublishFails, PublishOnly, faultVars
    <3>2. CASE \E w \in Worker : Work(w)
      <4>1. deaths' \in {deaths, deaths + 1}
        <5>1. PICK w \in Worker : Work(w)
          BY <3>2
        <5>2. CASE Crash(w) \/ AckAndDie(w) \/ WriteRunningFails(w)
          BY <5>2 DEF Crash, AckAndDie, WriteRunningFails, Die
        <5>3. CASE ~Crash(w) /\ ~AckAndDie(w) /\ ~WriteRunningFails(w)
          <6>1. deaths' = deaths
            BY <5>1, <5>3, ZenonT(30) DEF Work, faultVars, Deliver, Reject, WriteStatus,
               Notify, Step, WriteRunning, NotifyRunning, Enter, PullImage, StartContainer,
               NameConflict, ContainerExits, TimedOut, Throws, SkipAnalysis,
               WriteAnalyzing, NotifyAnalyzing, Analyse, WriteFinal, NotifyFinal,
               WriteError, NotifyError, WriteErrorFails, Finish, Cleanup, Ack, Restart
          <6> QED BY <6>1
        <5> QED BY <5>2, <5>3
      <4> QED BY <4>1 DEF Typed, TypeOK
    <3>3. CASE \E p \in posts : HandleCallback(p) \/ LoseCallback(p)
      BY <3>3 DEF HandleCallback, LoseCallback, faultVars
    <3>4. CASE UNCHANGED vars
      BY <3>4 DEF vars
    <3> QED BY <3>1, <3>2, <3>3, <3>4 DEF Next
  <2>2. AllTold
    BY <2>1 DEF ToldInv
  <2>3. CASE UNCHANGED vars
    BY <2>2, <2>3, OthersTold DEF vars, AllTold
  <2> QED BY <2>2, <2>3, ApiTold, WorkTold, CallbackTold DEF Next
<1>3. Typed /\ ToldInv => DashboardAgrees
  <2> SUFFICES ASSUME Typed, ToldInv, NEW t \in Task, Quiet(t), stranded[t] = {}, t \notin lost,
                      deaths = 0
               PROVE  view[t] = exec[t]
    BY DEF DashboardAgrees
  <2>1. Shown(t)
    BY DEF ToldInv, AllTold, Told
  <2>2. req[t][1] # "persisted" /\ ~(queue[t] > 0)
    BY DEF Quiet, Pursued
  <2>3. \A w \in Worker : ~(job[w] = t /\ pc[w] \in Unposted)
    BY DEF Quiet, Pursued, BeforeVerdict, Unposted
  <2> QED BY <2>1, <2>2, <2>3 DEF Shown, Quiet
<1> QED BY <1>1, <1>2, <1>3, AlwaysTyped, PTL DEF Spec

----------------------------------------------------------------------------
(***************************** The refinement ******************************)

\* A message is waiting, or one worker has it, or neither.
OneToken ==
    \A t \in Task :
        /\ req[t][1] # "queued" => queue[t] = 0 /\ \A w \in Worker : job[w] # t
        /\ queue[t] \in {0, 1}
        /\ queue[t] = 1 => \A w \in Worker : job[w] # t
        /\ \A v, w \in Worker : job[v] = t /\ job[w] = t => v = w

\* Statuses of a document nobody has worked on.
Fresh == {"ABSENT", "PENDING"}

\* While no worker has died, a message that waits has never been delivered.
Submitted(t) ==
    /\ req[t][1] = "none" => exec[t] = "ABSENT"
    /\ req[t][1] # "queued" => exec[t] \in Fresh
    /\ queue[t] = 1 /\ deaths = 0 => exec[t] \in Fresh

\* The status of the document a worker is on, phase by phase.
OnStage(w) ==
    /\ pc[w] = "received" /\ deaths = 0 => exec[job[w]] \in Fresh
    /\ pc[w] \in {"wroteRunning", "announcing", "pulling", "starting", "running", "collecting"}
          => exec[job[w]] = "RUNNING"
    /\ pc[w] \in {"wroteAnalyzing", "analysing"} => exec[job[w]] = "ANALYZING"
    /\ pc[w] \in {"finalizing", "failing"} => exec[job[w]] \in {"RUNNING", "ANALYZING"}
    /\ pc[w] \in {"wroteAnalyzing", "analysing", "finalizing"} /\ exec[job[w]] = "ANALYZING"
          => verdict[w] # "PASSED"

Staged == (\A t \in Task : Submitted(t)) /\ (\A w \in Worker : OnStage(w))

Single == OneToken /\ Staged

----------------------------------------------------------------------------
(***************************************************************************)
(* The invariant.                                                          *)
(***************************************************************************)
LEMMA InitSingle == Init => Single
  BY NoTaskAssumption
     DEF Init, Single, OneToken, Staged, Submitted, OnStage, Fresh

\* The worker of a run is its only worker, and no message of it waits.
LEMMA Sole ==
    ASSUME Typed, OneToken, NEW w \in Worker, pc[w] \notin {"idle", "down"}
    PROVE  /\ job[w] \in Task /\ queue[job[w]] = 0 /\ req[job[w]][1] = "queued"
           /\ \A v \in Worker : job[v] = job[w] => v = w
  BY DEF Typed, TypeOK, JobHeld, OneToken

\* A step that moves one worker and changes no document, message or holder.
LEMMA MoveSingle ==
    ASSUME Single, NEW w \in Worker, OnStage(w)',
           UNCHANGED <<exec, req, queue, job, deaths>>,
           \A v \in Worker \ {w} : pc'[v] = pc[v] /\ verdict'[v] = verdict[v]
    PROVE  Single'
<1>1. OneToken'
  BY DEF Single, OneToken
<1>2. \A t \in Task : Submitted(t)'
  BY DEF Single, Staged, Submitted
<1>3. ASSUME NEW v \in Worker PROVE OnStage(v)'
  <2>1. CASE v = w
    BY <2>1
  <2>2. CASE v # w
    <3>1. pc'[v] = pc[v] /\ verdict'[v] = verdict[v] /\ OnStage(v)
      BY <2>2 DEF Single, Staged
    <3> QED BY <3>1 DEF OnStage
  <2> QED BY <2>1, <2>2
<1> QED BY <1>1, <1>2, <1>3 DEF Single, Staged

LEMMA StepSingle ==
    ASSUME Typed, Single, NEW w \in Worker, NEW from \in Phase, NEW to \in Phase,
           Step(w, from, to),
           OnStage(w) /\ pc[w] = from /\ pc'[w] = to => OnStage(w)'
    PROVE  Single'
<1>1. pc[w] = from /\ pc'[w] = to /\ \A v \in Worker \ {w} : pc'[v] = pc[v]
  BY DEF Typed, TypeOK, Step, Goto
<1>2. OnStage(w)'
  BY <1>1 DEF Single, Staged
<1> QED BY <1>1, <1>2, MoveSingle DEF Step, dbVars, apiVars, netVars, faultVars

\* Only the worker of a document writes its status.
LEMMA WriteSingle ==
    ASSUME Typed, Single, NEW w \in Worker, NEW status \in ExecStatus, NEW phase \in Phase,
           pc[w] \notin {"idle", "down"}, WriteStatus(w, status, phase),
           pc'[w] = phase /\ exec'[job[w]] = status => OnStage(w)'
    PROVE  Single'
<1> DEFINE t0 == job[w]
<1>1. /\ t0 \in Task /\ queue[t0] = 0 /\ req[t0][1] = "queued"
      /\ \A v \in Worker : job[v] = t0 => v = w
  BY Sole DEF Single
<1>2. /\ UNCHANGED <<req, queue, job, deaths, verdict>>
      /\ \A t \in Task \ {t0} : exec'[t] = exec[t]
      /\ exec'[t0] = status /\ pc'[w] = phase
      /\ \A v \in Worker \ {w} : pc'[v] = pc[v]
  BY <1>1 DEF Typed, TypeOK, WriteStatus, Goto, apiVars, netVars, faultVars
<1>3. OneToken'
  BY <1>2 DEF Single, OneToken
<1>4. ASSUME NEW t \in Task PROVE Submitted(t)'
  <2>1. CASE t = t0
    BY <2>1, <1>1, <1>2 DEF Submitted
  <2>2. CASE t # t0
    BY <2>2, <1>2 DEF Single, Staged, Submitted
  <2> QED BY <2>1, <2>2
<1>5. ASSUME NEW v \in Worker PROVE OnStage(v)'
  <2>1. CASE v = w
    BY <2>1, <1>2
  <2>2. CASE v # w /\ pc[v] \in {"idle", "down"}
    BY <2>2, <1>2 DEF OnStage
  <2>3. CASE v # w /\ pc[v] \notin {"idle", "down"}
    <3>1. job[v] \in Task \ {t0}
      BY <2>3, <1>1 DEF Typed, JobHeld
    <3>2. pc'[v] = pc[v] /\ exec'[job[v]] = exec[job[v]] /\ OnStage(v)
      BY <2>3, <3>1, <1>2 DEF Single, Staged
    <3> QED BY <1>2, <3>2 DEF OnStage
  <2> QED BY <2>1, <2>2, <2>3
<1> QED BY <1>3, <1>4, <1>5 DEF Single, Staged

LEMMA NotifySingle ==
    ASSUME Typed, Single, NEW w \in Worker, NEW from \in Phase, NEW status, NEW to \in Phase,
           Notify(w, from, status, to),
           OnStage(w) /\ pc[w] = from /\ pc'[w] = to => OnStage(w)'
    PROVE  Single'
<1>1. pc[w] = from /\ pc'[w] = to /\ \A v \in Worker \ {w} : pc'[v] = pc[v]
  BY DEF Typed, TypeOK, Notify, Goto
<1>2. OnStage(w)'
  BY <1>1 DEF Single, Staged
<1> QED BY <1>1, <1>2, MoveSingle DEF Notify, dbVars, apiVars, faultVars

\* The message of a worker that dies goes back to the queue, or is gone.
LEMMA DieSingle ==
    ASSUME Typed, Single, NEW w \in Worker, pc[w] \notin {"idle", "down"}, Die(w),
           \/ UNCHANGED queue
           \/ queue' = [queue EXCEPT ![job[w]] = @ + 1]
    PROVE  Single'
<1> DEFINE t0 == job[w]
<1>1. /\ t0 \in Task /\ queue[t0] = 0 /\ req[t0][1] = "queued"
      /\ \A v \in Worker : job[v] = t0 => v = w
  BY Sole DEF Single
<1>2. /\ UNCHANGED <<exec, req>> /\ deaths' > 0
      /\ pc'[w] = "down" /\ job'[w] = NoTask
      /\ \A v \in Worker \ {w} :
            pc'[v] = pc[v] /\ job'[v] = job[v] /\ verdict'[v] = verdict[v]
  BY DEF Typed, TypeOK, Die, dbVars, apiVars, netVars
<1>3. /\ \A t \in Task \ {t0} : queue'[t] = queue[t]
      /\ queue'[t0] \in {0, 1}
  BY <1>1 DEF Typed, TypeOK
<1>4. OneToken'
  BY <1>1, <1>2, <1>3, NoTaskAssumption DEF Single, OneToken
<1>5. ASSUME NEW t \in Task PROVE Submitted(t)'
  BY <1>2 DEF Single, Staged, Submitted
<1>6. ASSUME NEW v \in Worker PROVE OnStage(v)'
  <2>1. CASE v = w
    BY <2>1, <1>2 DEF OnStage
  <2>2. CASE v # w
    <3>1. pc'[v] = pc[v] /\ job'[v] = job[v] /\ verdict'[v] = verdict[v] /\ OnStage(v)
      BY <2>2, <1>2 DEF Single, Staged
    <3> QED BY <1>2, <3>1 DEF OnStage
  <2> QED BY <2>1, <2>2
<1> QED BY <1>4, <1>5, <1>6 DEF Single, Staged

LEMMA ApiSingle ==
    ASSUME MaxRequests = 1, Typed, Single,
           NEW t \in Task, NEW k \in 1..MaxRequests, Api(t, k)
    PROVE  Single'
<1>1. k = 1 /\ req[t][1] # "queued"
  BY DEF Api, Persist, Announce, Publish, PublishFails, PublishOnly, Submit
<1>2. queue[t] = 0 /\ (\A w \in Worker : job[w] # t) /\ exec[t] \in Fresh
  BY <1>1 DEF Single, OneToken, Staged, Submitted
<1>3. /\ UNCHANGED <<pc, job, verdict, deaths>>
      /\ \A u \in Task \ {t} : exec'[u] = exec[u] /\ queue'[u] = queue[u] /\ req'[u] = req[u]
  BY DEF Typed, TypeOK, Api, Persist, Announce, Publish, PublishFails, PublishOnly,
         dbVars, workVars, faultVars
<1>4. /\ exec'[t] \in Fresh
      /\ req'[t][1] # "none"
      /\ \/ queue'[t] = 1 /\ req'[t][1] = "queued"
         \/ queue'[t] = 0
  <2> USE DEF Typed, TypeOK, Fresh
  <2>1. CASE Persist(t, k)
    BY <2>1, <1>1, <1>2 DEF Persist
  <2>2. CASE Announce(t, k)
    BY <2>2, <1>1, <1>2 DEF Announce, dbVars
  <2>3. CASE Publish(t, k)
    BY <2>3, <1>1, <1>2 DEF Publish, dbVars
  <2>4. CASE PublishFails(t, k)
    BY <2>4, <1>1, <1>2 DEF PublishFails, dbVars
  <2>5. CASE PublishOnly(t, k)
    BY <2>5, <1>1, <1>2 DEF PublishOnly, dbVars
  <2> QED BY <2>1, <2>2, <2>3, <2>4, <2>5 DEF Api
<1>5. OneToken'
  BY <1>2, <1>3, <1>4 DEF Single, OneToken
<1>6. ASSUME NEW u \in Task PROVE Submitted(u)'
  <2>1. CASE u = t
    BY <2>1, <1>4 DEF Submitted
  <2>2. CASE u # t
    BY <2>2, <1>3 DEF Single, Staged, Submitted
  <2> QED BY <2>1, <2>2
<1>7. ASSUME NEW v \in Worker PROVE OnStage(v)'
  <2>1. CASE pc[v] \in {"idle", "down"}
    BY <2>1, <1>3 DEF OnStage
  <2>2. CASE pc[v] \notin {"idle", "down"}
    <3>1. job[v] \in Task \ {t}
      BY <2>2, <1>2 DEF Typed, JobHeld
    <3>2. exec'[job[v]] = exec[job[v]] /\ OnStage(v)
      BY <3>1, <1>3 DEF Single, Staged
    <3> QED BY <1>3, <3>2 DEF OnStage
  <2> QED BY <2>1, <2>2
<1> QED BY <1>5, <1>6, <1>7 DEF Single, Staged

\* The broker takes the message out of the queue and gives it to one worker.
LEMMA DeliverSingle ==
    ASSUME Typed, Single, NEW w \in Worker, NEW t \in Task, Deliver(w, t)
    PROVE  Single'
<1>1. /\ queue[t] = 1 /\ req[t][1] = "queued"
      /\ \A v \in Worker : job[v] # t
      /\ deaths = 0 => exec[t] \in Fresh
  BY DEF Deliver, Single, OneToken, Staged, Submitted
<1>2. /\ UNCHANGED <<exec, req, deaths, verdict>>
      /\ pc'[w] = "received" /\ job'[w] = t /\ queue'[t] = 0
      /\ \A v \in Worker \ {w} : pc'[v] = pc[v] /\ job'[v] = job[v]
      /\ \A u \in Task \ {t} : queue'[u] = queue[u]
  BY <1>1 DEF Typed, TypeOK, Deliver, dbVars, apiVars, faultVars
<1>3. OneToken'
  BY <1>1, <1>2 DEF Single, OneToken
<1>4. ASSUME NEW u \in Task PROVE Submitted(u)'
  BY <1>1, <1>2 DEF Single, Staged, Submitted
<1>5. ASSUME NEW v \in Worker PROVE OnStage(v)'
  <2>1. CASE v = w
    BY <2>1, <1>1, <1>2 DEF OnStage
  <2>2. CASE v # w
    <3>1. pc'[v] = pc[v] /\ job'[v] = job[v] /\ OnStage(v)
      BY <2>2, <1>2 DEF Single, Staged
    <3> QED BY <1>2, <3>1 DEF OnStage
  <2> QED BY <2>1, <2>2
<1> QED BY <1>3, <1>4, <1>5 DEF Single, Staged

LEMMA RejectSingle ==
    ASSUME Typed, Single, NEW w \in Worker, NEW t \in Task, Reject(w, t)
    PROVE  Single'
<1>1. /\ queue[t] = 1 /\ UNCHANGED <<exec, req, deaths, verdict, pc, job>>
      /\ queue'[t] = 0 /\ \A u \in Task \ {t} : queue'[u] = queue[u]
  BY DEF Typed, TypeOK, Reject, Single, OneToken, dbVars, apiVars, workVars, faultVars
<1>2. OneToken'
  BY <1>1 DEF Single, OneToken
<1>3. \A u \in Task : Submitted(u)'
  BY <1>1 DEF Single, Staged, Submitted
<1>4. \A v \in Worker : OnStage(v)'
  BY <1>1 DEF Single, Staged, OnStage
<1> QED BY <1>2, <1>3, <1>4 DEF Single, Staged

\* A worker that acknowledges its message lets go of the task.
LEMMA AckSingle ==
    ASSUME Typed, Single, NEW w \in Worker, Ack(w)
    PROVE  Single'
<1>1. /\ UNCHANGED <<exec, req, queue, deaths>>
      /\ pc'[w] = "idle" /\ job'[w] = NoTask
      /\ \A v \in Worker \ {w} :
            pc'[v] = pc[v] /\ job'[v] = job[v] /\ verdict'[v] = verdict[v]
  BY DEF Typed, TypeOK, Ack, Goto, dbVars, apiVars, faultVars
<1>2. OneToken'
  BY <1>1, NoTaskAssumption DEF Single, OneToken
<1>3. \A u \in Task : Submitted(u)'
  BY <1>1 DEF Single, Staged, Submitted
<1>4. ASSUME NEW v \in Worker PROVE OnStage(v)'
  <2>1. CASE v = w
    BY <2>1, <1>1 DEF OnStage
  <2>2. CASE v # w
    <3>1. pc'[v] = pc[v] /\ job'[v] = job[v] /\ verdict'[v] = verdict[v] /\ OnStage(v)
      BY <2>2, <1>1 DEF Single, Staged
    <3> QED BY <1>1, <3>1 DEF OnStage
  <2> QED BY <2>1, <2>2
<1> QED BY <1>2, <1>3, <1>4 DEF Single, Staged

LEMMA WorkSingle ==
    ASSUME Typed, Single, NEW w \in Worker, Work(w)
    PROVE  Single'
<1>1. ASSUME NEW t \in Task, Deliver(w, t) \/ Reject(w, t) PROVE Single'
  BY <1>1, DeliverSingle, RejectSingle
<1>2. CASE WriteRunning(w)
  <2>1. pc[w] = "received" /\ WriteStatus(w, "RUNNING", "wroteRunning") /\ job' = job
    BY <1>2 DEF WriteRunning, WriteStatus
  <2>2. pc'[w] = "wroteRunning" /\ exec'[job[w]] = "RUNNING" => OnStage(w)'
    BY <2>1 DEF OnStage
  <2> QED BY <2>1, <2>2, WriteSingle
<1>3. CASE WriteRunningFails(w) \/ AckAndDie(w) \/ Crash(w)
  BY <1>3, DieSingle DEF WriteRunningFails, AckAndDie, Crash
<1>4. CASE NotifyRunning(w) \/ NotifyAnalyzing(w) \/ NotifyFinal(w) \/ NotifyError(w)
  <2>1. OnStage(w) /\ UNCHANGED <<exec, job, verdict, deaths>> =>
           \/ ~(pc[w] = "wroteRunning" /\ pc'[w] = "announcing")
           \/ OnStage(w)'
    BY DEF OnStage
  <2>2. OnStage(w) /\ UNCHANGED <<exec, job, verdict, deaths>> =>
           \/ ~(pc[w] = "wroteAnalyzing" /\ pc'[w] = "analysing")
           \/ OnStage(w)'
    BY DEF OnStage
  <2>3. pc'[w] = "reported" => OnStage(w)'
    BY DEF OnStage
  <2>4. UNCHANGED <<exec, job, verdict, deaths>>
    BY <1>4 DEF NotifyRunning, NotifyAnalyzing, NotifyFinal, NotifyError, Notify,
                dbVars, faultVars
  <2> QED BY <1>4, <2>1, <2>2, <2>3, <2>4, NotifySingle
          DEF NotifyRunning, NotifyAnalyzing, NotifyFinal, NotifyError
<1>5. CASE \/ Enter(w) \/ PullImage(w) \/ NameConflict(w) \/ TimedOut(w) \/ Throws(w)
           \/ SkipAnalysis(w) \/ Analyse(w) \/ Finish(w) \/ Restart(w)
  <2>1. PICK from \in Phase, to \in Phase :
           /\ Step(w, from, to)
           /\ \/ to \in {"cleanup", "idle"}
              \/ from = "announcing" /\ to = "pulling"
              \/ from = "pulling" /\ to = "starting"
              \/ from \in {"starting", "running", "collecting", "finalizing"} /\ to = "failing"
              \/ from \in {"collecting", "analysing"} /\ to = "finalizing"
    BY <1>5 DEF Enter, PullImage, NameConflict, TimedOut, Throws, SkipAnalysis, Analyse,
                Finish, Restart
  <2>2. UNCHANGED <<exec, job, verdict, deaths>>
    BY <2>1 DEF Step, dbVars, faultVars
  <2>3. OnStage(w) /\ pc[w] = from /\ pc'[w] = to => OnStage(w)'
    BY <2>1, <2>2 DEF OnStage
  <2> QED BY <2>1, <2>3, StepSingle
<1>6. CASE StartContainer(w) \/ ContainerExits(w) \/ WriteErrorFails(w) \/ Cleanup(w)
  <2>1. /\ UNCHANGED <<exec, req, queue, job, deaths>>
        /\ \A v \in Worker \ {w} : pc'[v] = pc[v] /\ verdict'[v] = verdict[v]
        /\ \/ pc[w] = "starting" /\ pc'[w] = "running"
           \/ pc[w] = "running" /\ pc'[w] = "collecting"
           \/ pc'[w] \in {"cleanup", "acking"}
    <3> USE DEF Typed, TypeOK, Goto, dbVars, apiVars, faultVars
    <3>1. CASE ContainerExits(w)
      <4>1. PICK v : verdict' = [verdict EXCEPT ![w] = v]
        BY <3>1 DEF ContainerExits
      <4> QED BY <3>1, <4>1 DEF ContainerExits
    <3>2. CASE StartContainer(w) \/ WriteErrorFails(w) \/ Cleanup(w)
      BY <3>2 DEF StartContainer, WriteErrorFails, Cleanup
    <3> QED BY <1>6, <3>1, <3>2
  <2>2. OnStage(w)'
    BY <2>1 DEF Single, Staged, OnStage
  <2> QED BY <2>1, <2>2, MoveSingle
<1>7. CASE WriteAnalyzing(w)
  <2>1. verdict'[w] # "PASSED" /\ job' = job
    BY <1>7 DEF WriteAnalyzing, WriteStatus, Analysable
  <2> QED BY <1>7, <2>1, WriteSingle DEF WriteAnalyzing, OnStage
<1>8. CASE WriteFinal(w)
  <2>1. verdict[w] \in ExecStatus
    BY <1>8 DEF WriteFinal, Typed, VerdictKnown, VerdictPhase
  <2> QED BY <1>8, <2>1, WriteSingle DEF WriteFinal, OnStage
<1>9. CASE WriteError(w)
  BY <1>9, WriteSingle DEF WriteError, OnStage
<1>10. CASE Ack(w)
  BY <1>10, AckSingle
<1> QED BY <1>1, <1>2, <1>3, <1>4, <1>5, <1>6, <1>7, <1>8, <1>9, <1>10 DEF Work

LEMMA NextSingle == MaxRequests = 1 /\ Typed /\ Single /\ [Next]_vars => Single'
<1>1. ASSUME Single, NEW p \in posts, HandleCallback(p) \/ LoseCallback(p)
      PROVE  Single'
  BY <1>1 DEF HandleCallback, LoseCallback, dbVars, apiVars, workVars, faultVars,
              Single, OneToken, Staged, Submitted, OnStage
<1>2. Single /\ UNCHANGED vars => Single'
  BY DEF vars, Single, OneToken, Staged, Submitted, OnStage
<1> QED BY <1>1, <1>2, ApiSingle, WorkSingle DEF Next

----------------------------------------------------------------------------
(***************************************************************************)
(* The refinement: what each step is in the eyes of ExecutionLifecycle.    *)
(***************************************************************************)
Seen == [Lifecycle!Next]_<<exec, deaths>>

LEMMA ApiSeen ==
    ASSUME MaxRequests = 1, Typed, Single,
           NEW t \in Task, NEW k \in 1..MaxRequests, Api(t, k)
    PROVE  Seen
<1>1. CASE Persist(t, k)
  <2>1. exec[t] = "ABSENT"
    BY <1>1 DEF Persist, Submit, Single, Staged, Submitted
  <2>2. Lifecycle!Submit(t)
    BY <1>1, <2>1 DEF Persist, faultVars, Lifecycle!Submit, Lifecycle!Move
  <2> QED BY <2>2 DEF Seen, Lifecycle!Next
<1>2. CASE ~Persist(t, k)
  BY <1>2 DEF Api, Announce, Publish, PublishFails, PublishOnly, dbVars, faultVars, Seen
<1> QED BY <1>1, <1>2

LEMMA WorkSeen ==
    ASSUME Typed, Single, NEW w \in Worker, Work(w)
    PROVE  Seen
<1> DEFINE t == job[w]
<1>1. CASE WriteRunning(w)
  <2>1. /\ t \in Task /\ exec[t] \in ExecStatus /\ deaths \in Nat
        /\ deaths = 0 => exec[t] \in Fresh
        /\ exec' = [exec EXCEPT ![t] = "RUNNING"] /\ deaths' = deaths
    BY <1>1 DEF WriteRunning, WriteStatus, faultVars, Typed, TypeOK, JobHeld,
                Single, Staged, OnStage
  <2>2. CASE exec[t] = "RUNNING"
    <3>1. exec' = exec
      BY <2>1, <2>2 DEF Typed, TypeOK
    <3> QED BY <2>1, <3>1 DEF Seen
  <2>3. CASE exec[t] \in Fresh
    <3>1. Lifecycle!Start(t)
      BY <2>1, <2>3 DEF Fresh, Lifecycle!Start, Lifecycle!Move
    <3> QED BY <2>1, <3>1 DEF Seen, Lifecycle!Next
  <2>4. CASE exec[t] \notin Fresh \cup {"RUNNING"}
    <3>1. Lifecycle!Rerun(t)
      BY <2>1, <2>4 DEF Fresh, Lifecycle!Rerun, Lifecycle!Move, Lifecycle!TerminalStatus
    <3> QED BY <2>1, <3>1 DEF Seen, Lifecycle!Next
  <2> QED BY <2>2, <2>3, <2>4
<1>2. CASE WriteAnalyzing(w)
  <2>1. /\ t \in Task /\ exec[t] = "RUNNING"
        /\ exec' = [exec EXCEPT ![t] = "ANALYZING"] /\ deaths' = deaths
    BY <1>2 DEF WriteAnalyzing, WriteStatus, faultVars, Typed, JobHeld,
                Single, Staged, OnStage
  <2>2. Lifecycle!Analyse(t)
    BY <2>1 DEF Lifecycle!Analyse, Lifecycle!Move
  <2> QED BY <2>1, <2>2 DEF Seen, Lifecycle!Next
<1>3. CASE WriteFinal(w) \/ WriteError(w)
  <2>1. t \in Task /\ exec[t] \in {"RUNNING", "ANALYZING"} /\ deaths' = deaths
    BY <1>3 DEF WriteFinal, WriteError, WriteStatus, faultVars, Typed, JobHeld,
                Single, Staged, OnStage
  <2>2. PICK v \in TerminalStatus :
           /\ exec' = [exec EXCEPT ![t] = v]
           /\ exec[t] = "ANALYZING" => v # "PASSED"
    <3>1. CASE WriteFinal(w)
      <4>1. verdict[w] \in TerminalStatus
        BY <3>1 DEF WriteFinal, Typed, VerdictKnown, VerdictPhase
      <4> QED BY <3>1, <4>1 DEF WriteFinal, WriteStatus, Single, Staged, OnStage
    <3>2. CASE WriteError(w)
      BY <3>2 DEF WriteError, WriteStatus
    <3> QED BY <1>3, <3>1, <3>2
  <2>3. Lifecycle!Conclude(t)
    BY <2>1, <2>2 DEF Lifecycle!Conclude, Lifecycle!Move, Lifecycle!TerminalStatus
  <2> QED BY <2>1, <2>3 DEF Seen, Lifecycle!Next
<1>4. CASE WriteRunningFails(w) \/ AckAndDie(w) \/ Crash(w)
  <2>1. Lifecycle!WorkerDies
    BY <1>4 DEF WriteRunningFails, AckAndDie, Crash, Die, dbVars, Lifecycle!WorkerDies
  <2> QED BY <2>1 DEF Seen, Lifecycle!Next
<1>5. CASE UNCHANGED <<exec, deaths>>
  BY <1>5 DEF Seen
<1>6. \/ WriteRunning(w) \/ WriteAnalyzing(w) \/ WriteFinal(w) \/ WriteError(w)
      \/ WriteRunningFails(w) \/ AckAndDie(w) \/ Crash(w)
      \/ UNCHANGED <<exec, deaths>>
  BY DEF Work, Deliver, Reject, NotifyRunning, Enter, PullImage, StartContainer,
         NameConflict, ContainerExits, TimedOut, Throws, SkipAnalysis, NotifyAnalyzing,
         Analyse, NotifyFinal, NotifyError, WriteErrorFails, Finish, Cleanup, Ack,
         Restart, Notify, Step, dbVars, faultVars
<1> QED BY <1>1, <1>2, <1>3, <1>4, <1>5, <1>6

LEMMA NextSeen == MaxRequests = 1 /\ Typed /\ Single /\ [Next]_vars => Seen
<1>1. ASSUME NEW p \in posts, HandleCallback(p) \/ LoseCallback(p) PROVE Seen
  BY <1>1 DEF HandleCallback, LoseCallback, dbVars, faultVars, Seen
<1>2. UNCHANGED vars => Seen
  BY DEF vars, Seen
<1> QED BY <1>1, <1>2, ApiSeen, WorkSeen DEF Next

\* The pipeline implements ExecutionLifecycle if no task is submitted twice: the
\* document of a run only moves forward, except that it reruns after a death.
THEOREM PipelineImplementsLifecycle ==
    ASSUME MaxRequests = 1
    PROVE  Spec => ImplementsLifecycle
<1>1. Init => Lifecycle!Init
  BY DEF Init, Lifecycle!Init
<1>2. Spec => []Single
  <2>1. Typed /\ Single /\ [Next]_vars => Single'
    BY NextSingle
  <2> QED BY <2>1, InitSingle, AlwaysTyped, PTL DEF Spec
<1>3. Typed /\ Single /\ [Next]_vars => [Lifecycle!Next]_<<exec, deaths>>
  BY NextSeen DEF Seen
<1> QED BY <1>1, <1>2, <1>3, AlwaysTyped, PTL DEF Spec, ImplementsLifecycle, Lifecycle!Spec

=============================================================================
