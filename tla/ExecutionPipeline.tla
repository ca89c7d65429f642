-------------------------- MODULE ExecutionPipeline --------------------------
(***************************************************************************)
(* The path of a test run through the platform: the producer's submission  *)
(* endpoints, the RabbitMQ queue test_queue, the pool of workers with      *)
(* prefetch 1, the Docker daemon they share, the executions collection and *)
(* the HTTP callbacks with which a worker tells the producer what it did.  *)
(*                                                                         *)
(* A handler is cut into one action per await: between two actions of one  *)
(* worker anything may happen, its process may die, and the broker then    *)
(* hands the unacknowledged message to another worker.                     *)
(*                                                                         *)
(* Left out: log streaming, artifact files, report URLs, the PR comment,   *)
(* the PREFETCH_IMAGE message (acknowledged at once, touches no run), and  *)
(* queue priorities (any waiting message may be delivered next).           *)
(***************************************************************************)
EXTENDS StatusRules

CONSTANTS
    Task,         \* task ids (taskId is chosen by the client)
    Worker,       \* worker processes
    MaxRequests,  \* how often a client submits the same task id
    MaxCrashes,   \* bound: worker processes killed from outside
    MaxFaults     \* bound: MongoDB writes of a worker that fail

ASSUME PipelineAssumption ==
    /\ MaxRequests \in Nat /\ MaxCrashes \in Nat /\ MaxFaults \in Nat

NoTask == "no task"
ASSUME NoTaskAssumption == NoTask \notin Task

VARIABLES
    exec,        \* executions collection: status of each task's document
    oversized,   \* tasks the producer's schema accepts and the worker's rejects
    req,         \* req[t][k]: progress of the k-th submission of t
    queue,       \* test_queue: ready messages of each task
    pc,          \* where each worker's consume handler stands
    job,         \* the task whose message a worker holds unacknowledged
    del,         \* the delivery a worker is handling
    verdict,     \* finalStatus computed by a worker
    mine,        \* is the handler's `container` variable set?
    dying,       \* an exception left the handler: the process will exit
    box,         \* container names in use on the Docker daemon
    posts,       \* worker callbacks the producer has not handled yet
    view,        \* last status broadcast to the dashboards
    lastWriter,  \* delivery that last wrote the document, 0: not a worker
    deliveries,  \* number of deliveries so far
    crashes, faults, deaths,
    lost,        \* tasks some callback of which was lost
    stranded     \* why a task may be left without anyone to finish it

dbVars   == <<exec, lastWriter>>
apiVars  == <<oversized, req>>
workVars == <<pc, job, del, verdict, mine, dying>>
netVars  == <<posts, view, lost>>
faultVars == <<crashes, faults, deaths>>
vars == <<exec, lastWriter, oversized, req, queue, pc, job, del, verdict, mine, dying, box,
          posts, view, lost, deliveries, crashes, faults, deaths, stranded>>

ReqState == {"none", "persisted", "announced", "queued", "failed"}
Phase == {"idle", "received", "wroteRunning", "announcing", "pulling", "starting",
          "running", "collecting", "wroteAnalyzing", "analysing", "finalizing",
          "failing", "wroteFinal", "wroteError", "reported", "cleanup", "acking",
          "down"}
Reason == {"publish", "schema", "errorWrite"}
Post == [task : Task, status : ExecStatus, del : Nat]

TypeOK ==
    /\ exec \in [Task -> ExecStatus]
    /\ oversized \subseteq Task
    /\ req \in [Task -> [1..MaxRequests -> ReqState]]
    /\ queue \in [Task -> Nat]
    /\ pc \in [Worker -> Phase]
    /\ job \in [Worker -> Task \cup {NoTask}]
    /\ del \in [Worker -> Nat]
    /\ verdict \in [Worker -> TerminalStatus \cup {"none"}]
    /\ mine \in [Worker -> BOOLEAN]
    /\ dying \in [Worker -> BOOLEAN]
    /\ box \subseteq Task
    /\ posts \subseteq Post
    /\ view \in [Task -> ExecStatus]
    /\ lastWriter \in [Task -> Nat]
    /\ deliveries \in Nat
    /\ crashes \in 0..MaxCrashes
    /\ faults \in 0..MaxFaults
    /\ deaths \in Nat
    /\ lost \subseteq Task
    /\ stranded \in [Task -> SUBSET Reason]

Init ==
    /\ exec = [t \in Task |-> "ABSENT"]
    /\ oversized \in SUBSET Task
    /\ req = [t \in Task |-> [k \in 1..MaxRequests |-> "none"]]
    /\ queue = [t \in Task |-> 0]
    /\ pc = [w \in Worker |-> "idle"]
    /\ job = [w \in Worker |-> NoTask]
    /\ del = [w \in Worker |-> 0]
    /\ verdict = [w \in Worker |-> "none"]
    /\ mine = [w \in Worker |-> FALSE]
    /\ dying = [w \in Worker |-> FALSE]
    /\ box = {}
    /\ posts = {}
    /\ view = [t \in Task |-> "ABSENT"]
    /\ lastWriter = [t \in Task |-> 0]
    /\ deliveries = 0
    /\ crashes = 0 /\ faults = 0 /\ deaths = 0
    /\ lost = {}
    /\ stranded = [t \in Task |-> {}]

----------------------------------------------------------------------------
(***************************************************************************)
(* Submission.  /api/execution-request and /api/ci/trigger write a PENDING *)
(* document first; a test cycle and a routed pull request only publish.    *)
(* Every path may stop before the message is in the queue: the publish     *)
(* throws (the caller gets a 500) or the producer restarts.                *)
(***************************************************************************)
Submit(t, k) ==
    /\ req[t][k] = "none"
    /\ k > 1 => req[t][k - 1] # "none"

Persist(t, k) ==
    /\ Submit(t, k)
    /\ req' = [req EXCEPT ![t][k] = "persisted"]
    /\ exec' = [exec EXCEPT ![t] = "PENDING"]
    /\ lastWriter' = [lastWriter EXCEPT ![t] = 0]
    /\ UNCHANGED <<oversized, queue, workVars, box, netVars, deliveries, faultVars, stranded>>

\* The broadcast that follows the upsert; the priority query is awaited next.
Announce(t, k) ==
    /\ req[t][k] = "persisted"
    /\ req' = [req EXCEPT ![t][k] = "announced"]
    /\ view' = [view EXCEPT ![t] = "PENDING"]
    /\ UNCHANGED <<oversized, dbVars, queue, workVars, box, posts, lost, deliveries, faultVars,
                   stranded>>

\* The CI trigger publishes what it persisted without broadcasting it.
Publish(t, k) ==
    /\ req[t][k] \in {"persisted", "announced"}
    /\ req' = [req EXCEPT ![t][k] = "queued"]
    /\ queue' = [queue EXCEPT ![t] = @ + 1]
    /\ UNCHANGED <<oversized, dbVars, workVars, box, netVars, deliveries, faultVars, stranded>>

PublishFails(t, k) ==
    /\ req[t][k] \in {"persisted", "announced"}
    /\ req' = [req EXCEPT ![t][k] = "failed"]
    /\ stranded' = [stranded EXCEPT ![t] = @ \cup {"publish"}]
    /\ UNCHANGED <<oversized, dbVars, queue, workVars, box, netVars, deliveries, faultVars>>

\* Test cycles and PR routing: no document, the worker's upsert creates it.
PublishOnly(t, k) ==
    /\ Submit(t, k)
    /\ req' = [req EXCEPT ![t][k] = "queued"]
    /\ queue' = [queue EXCEPT ![t] = @ + 1]
    /\ UNCHANGED <<oversized, dbVars, workVars, box, netVars, deliveries, faultVars, stranded>>

----------------------------------------------------------------------------
(***************************************************************************)
(* The consume handler of a worker.                                        *)
(***************************************************************************)
\* The message passed JSON and schema validation.
Deliver(w, t) ==
    /\ pc[w] = "idle" /\ queue[t] > 0 /\ t \notin oversized
    /\ queue' = [queue EXCEPT ![t] = @ - 1]
    /\ pc' = [pc EXCEPT ![w] = "received"]
    /\ job' = [job EXCEPT ![w] = t]
    /\ deliveries' = deliveries + 1
    /\ del' = [del EXCEPT ![w] = deliveries + 1]
    /\ UNCHANGED <<dbVars, apiVars, verdict, mine, dying, box, netVars, faultVars,
                   stranded>>

\* nack(msg, false, false): the message is gone, the document stays as it is.
Reject(w, t) ==
    /\ pc[w] = "idle" /\ queue[t] > 0 /\ t \in oversized
    /\ queue' = [queue EXCEPT ![t] = @ - 1]
    /\ stranded' = [stranded EXCEPT ![t] = @ \cup {"schema"}]
    /\ UNCHANGED <<dbVars, apiVars, workVars, box, netVars, deliveries, faultVars>>

Goto(w, phase) == pc' = [pc EXCEPT ![w] = phase]

\* updateOne: $set the status, whatever status the document has.
WriteStatus(w, status, phase) ==
    /\ exec' = [exec EXCEPT ![job[w]] = status]
    /\ lastWriter' = [lastWriter EXCEPT ![job[w]] = del[w]]
    /\ Goto(w, phase)
    /\ UNCHANGED <<apiVars, queue, job, del, verdict, mine, dying, box, netVars,
                   deliveries, faultVars, stranded>>

\* notifyProducer: post the status just written; the handler awaits the response.
Notify(w, from, status, to) ==
    /\ pc[w] = from
    /\ posts' = posts \cup {[task |-> job[w], status |-> status, del |-> del[w]]}
    /\ Goto(w, to)
    /\ UNCHANGED <<dbVars, apiVars, queue, job, del, verdict, mine, dying, box, view, lost,
                   deliveries, faultVars, stranded>>

Answered(w) == \A p \in posts : p.del # del[w]

\* Move to another phase and touch nothing else.
Step(w, from, to) ==
    /\ pc[w] = from
    /\ Goto(w, to)
    /\ UNCHANGED <<dbVars, apiVars, queue, job, del, verdict, mine, dying, box, netVars,
                   deliveries, faultVars, stranded>>

WriteRunning(w) == pc[w] = "received" /\ WriteStatus(w, "RUNNING", "wroteRunning")

\* The process exits; the broker requeues the message it held.
Die(w) ==
    /\ pc' = [pc EXCEPT ![w] = "down"]
    /\ job' = [job EXCEPT ![w] = NoTask]
    /\ verdict' = [verdict EXCEPT ![w] = "none"]
    /\ mine' = [mine EXCEPT ![w] = FALSE]
    /\ dying' = [dying EXCEPT ![w] = FALSE]
    /\ deaths' = deaths + 1
    /\ UNCHANGED <<dbVars, apiVars, del, box, netVars, deliveries>>

\* The RUNNING upsert is outside the try: its exception leaves the handler.
WriteRunningFails(w) ==
    /\ pc[w] = "received" /\ faults < MaxFaults
    /\ faults' = faults + 1
    /\ queue' = [queue EXCEPT ![job[w]] = @ + 1]
    /\ Die(w)
    /\ UNCHANGED <<crashes, stranded>>

NotifyRunning(w) == Notify(w, "wroteRunning", "RUNNING", "announcing")

Enter(w) == Answered(w) /\ Step(w, "announcing", "pulling")

\* Pulled, or the pull failed and the local image is used.
PullImage(w) == Step(w, "pulling", "starting")

\* Mutant of StartContainer: containers without a name.
StartUnnamed(w) ==
    /\ pc[w] = "starting"
    /\ box' = box \cup {job[w]}
    /\ mine' = [mine EXCEPT ![w] = TRUE]
    /\ Goto(w, "running")
    /\ UNCHANGED <<dbVars, apiVars, queue, job, del, verdict, dying, netVars, deliveries,
                   faultVars, stranded>>

\* createContainer takes the name org_<org>_task_<task>, one per daemon.
StartContainer(w) ==
    /\ pc[w] = "starting" /\ job[w] \notin box
    /\ box' = box \cup {job[w]}
    /\ mine' = [mine EXCEPT ![w] = TRUE]
    /\ Goto(w, "running")
    /\ UNCHANGED <<dbVars, apiVars, queue, job, del, verdict, dying, netVars, deliveries,
                   faultVars, stranded>>

\* Mutant of NameConflict: go on with the container that has the name.
AttachToExisting(w) == job[w] \in box /\ Step(w, "starting", "running")

NameConflict(w) == job[w] \in box /\ Step(w, "starting", "failing")

\* Mutant of ContainerExits: the verdict is not computed.
ExitsUnjudged(w) == Step(w, "running", "collecting")

ContainerExits(w) ==
    /\ pc[w] = "running"
    /\ \E code \in {0, 1}, ev \in Evidence :
          verdict' = [verdict EXCEPT ![w] = DetermineExecutionStatus(code, ev)]
    /\ Goto(w, "collecting")
    /\ UNCHANGED <<dbVars, apiVars, queue, job, del, mine, dying, box, netVars, deliveries,
                   faultVars, stranded>>

\* Mutant of TimedOut: no timer.
NeverTimesOut(w) == FALSE /\ Step(w, "running", "failing")

\* The 30-minute timer of Promise.race.
TimedOut(w) == Step(w, "running", "failing")

\* Docker, Redis or the final MongoDB write throws inside the try.
Throws(w) ==
    \E phase \in {"starting", "running", "collecting", "finalizing"} :
        Step(w, phase, "failing")

\* aiAnalysisEnabled is read afresh from the organization: either value.
SkipAnalysis(w) == Step(w, "collecting", "finalizing")

WriteAnalyzing(w) ==
    /\ pc[w] = "collecting" /\ verdict[w] \in Analysable
    /\ WriteStatus(w, "ANALYZING", "wroteAnalyzing")

NotifyAnalyzing(w) == Notify(w, "wroteAnalyzing", "ANALYZING", "analysing")

\* The LLM answered, or its error was caught.
Analyse(w) == Answered(w) /\ Step(w, "analysing", "finalizing")

\* Mutant of WriteFinal: the run passes once it was analysed.
WritePassed(w) == pc[w] = "finalizing" /\ WriteStatus(w, "PASSED", "wroteFinal")

WriteFinal(w) == pc[w] = "finalizing" /\ WriteStatus(w, verdict[w], "wroteFinal")

\* Mutant of NotifyFinal: tell the producer before the document is written.
NotifyUnwritten(w) == Notify(w, "finalizing", verdict[w], "reported")

NotifyFinal(w) == Notify(w, "wroteFinal", verdict[w], "reported")

\* Mutant of WriteError: nobody is told of the error.
WriteErrorSilently(w) == pc[w] = "failing" /\ WriteStatus(w, "ERROR", "cleanup")

WriteError(w) == pc[w] = "failing" /\ WriteStatus(w, "ERROR", "wroteError")

NotifyError(w) == Notify(w, "wroteError", "ERROR", "reported")

\* The write in the catch block throws: finally still runs, then the process exits.
WriteErrorFails(w) ==
    /\ pc[w] = "failing" /\ faults < MaxFaults
    /\ faults' = faults + 1
    /\ dying' = [dying EXCEPT ![w] = TRUE]
    /\ Goto(w, "cleanup")
    /\ UNCHANGED <<dbVars, apiVars, queue, job, del, verdict, mine, box, netVars, deliveries,
                   crashes, deaths, stranded>>

Finish(w) == Answered(w) /\ Step(w, "reported", "cleanup")

\* container.remove({force: true}); its failure is swallowed.
Cleanup(w) ==
    /\ pc[w] = "cleanup"
    /\ \E removed \in BOOLEAN :
          box' = IF mine[w] /\ removed THEN box \ {job[w]} ELSE box
    /\ mine' = [mine EXCEPT ![w] = FALSE]
    /\ Goto(w, "acking")
    /\ UNCHANGED <<dbVars, apiVars, queue, job, del, verdict, dying, netVars, deliveries,
                   faultVars, stranded>>

Ack(w) ==
    /\ pc[w] = "acking" /\ ~dying[w]
    /\ Goto(w, "idle")
    /\ job' = [job EXCEPT ![w] = NoTask]
    /\ verdict' = [verdict EXCEPT ![w] = "none"]
    /\ UNCHANGED <<dbVars, apiVars, queue, del, mine, dying, box, netVars, deliveries,
                   faultVars, stranded>>

\* The ack is buffered when the unhandled rejection ends the process: it may
\* or may not reach the broker.
AckAndDie(w) ==
    /\ pc[w] = "acking" /\ dying[w]
    /\ \/ /\ stranded' = [stranded EXCEPT ![job[w]] = @ \cup {"errorWrite"}]
          /\ UNCHANGED queue
       \/ /\ queue' = [queue EXCEPT ![job[w]] = @ + 1]
          /\ UNCHANGED stranded
    /\ Die(w)
    /\ UNCHANGED <<crashes, faults>>

----------------------------------------------------------------------------
(***************************************************************************)
(* The environment of a worker.                                            *)
(***************************************************************************)
\* Mutant of Crash: messages are acknowledged when they are delivered.
CrashAcknowledged(w) ==
    /\ pc[w] \notin {"idle", "down"} /\ crashes < MaxCrashes
    /\ crashes' = crashes + 1
    /\ Die(w)
    /\ UNCHANGED <<queue, faults, stranded>>

\* Killed, or its broker connection closed (nothing listens for that error).
Crash(w) ==
    /\ pc[w] \notin {"idle", "down"} /\ crashes < MaxCrashes
    /\ crashes' = crashes + 1
    /\ queue' = [queue EXCEPT ![job[w]] = @ + 1]
    /\ Die(w)
    /\ UNCHANGED <<faults, stranded>>

\* restart: always
Restart(w) == Step(w, "down", "idle")

\* POST /executions/update: broadcast to the organization's room.
HandleCallback(p) ==
    /\ posts' = posts \ {p}
    /\ view' = [view EXCEPT ![p.task] = p.status]
    /\ UNCHANGED <<dbVars, apiVars, queue, workVars, box, lost, deliveries, faultVars,
                   stranded>>

\* notifyProducer swallows a failed fetch: nobody posts it again.
LoseCallback(p) ==
    /\ posts' = posts \ {p}
    /\ lost' = lost \cup {p.task}
    /\ UNCHANGED <<dbVars, apiVars, queue, workVars, box, view, deliveries, faultVars,
                   stranded>>

Api(t, k) ==
    \/ Persist(t, k) \/ Announce(t, k) \/ Publish(t, k)
    \/ PublishFails(t, k) \/ PublishOnly(t, k)

Work(w) ==
    \/ \E t \in Task : Deliver(w, t) \/ Reject(w, t)
    \/ WriteRunning(w) \/ WriteRunningFails(w) \/ NotifyRunning(w) \/ Enter(w)
    \/ PullImage(w)
    \/ StartContainer(w) \/ NameConflict(w) \/ ContainerExits(w) \/ TimedOut(w)
    \/ Throws(w) \/ SkipAnalysis(w) \/ WriteAnalyzing(w) \/ NotifyAnalyzing(w)
    \/ Analyse(w) \/ WriteFinal(w) \/ NotifyFinal(w) \/ WriteError(w)
    \/ NotifyError(w) \/ WriteErrorFails(w) \/ Finish(w)
    \/ Cleanup(w) \/ Ack(w) \/ AckAndDie(w) \/ Crash(w) \/ Restart(w)

Next ==
    \/ \E t \in Task, k \in 1..MaxRequests : Api(t, k)
    \/ \E w \in Worker : Work(w)
    \/ \E p \in posts : HandleCallback(p) \/ LoseCallback(p)

Spec == Init /\ [][Next]_vars

----------------------------------------------------------------------------
(***************************************************************************)
(* Fairness.  A request handler that began runs on; the broker delivers to *)
(* an idle worker; MongoDB, Docker's control API and HTTP calls end, one   *)
(* way or the other; the timer fires; a process is restarted.  A client    *)
(* need not submit, a container need not exit, and nothing bounds an image *)
(* pull or a call to an LLM: that those end is assumed by LiveSpec alone.  *)
(***************************************************************************)
HandlersProceed ==
    /\ \A t \in Task, k \in 1..MaxRequests :
          WF_vars(Announce(t, k) \/ Publish(t, k) \/ PublishFails(t, k))
    /\ \A w \in Worker :
          /\ WF_vars(\E t \in Task : Deliver(w, t) \/ Reject(w, t))
          /\ WF_vars(WriteRunning(w) \/ WriteRunningFails(w))
          /\ WF_vars(NotifyRunning(w) \/ NotifyAnalyzing(w) \/ NotifyFinal(w)
                        \/ NotifyError(w))
          /\ WF_vars(Enter(w))
          /\ WF_vars(StartContainer(w) \/ NameConflict(w))
          /\ WF_vars(TimedOut(w))
          /\ WF_vars(SkipAnalysis(w) \/ WriteAnalyzing(w))
          /\ WF_vars(WriteFinal(w))
          /\ WF_vars(WriteError(w) \/ WriteErrorFails(w))
          /\ WF_vars(Finish(w))
          /\ WF_vars(Cleanup(w))
          /\ WF_vars(Ack(w) \/ AckAndDie(w))
          /\ WF_vars(Restart(w))
    /\ WF_vars(\E p \in posts : HandleCallback(p) \/ LoseCallback(p))

RegistryAnswers == \A w \in Worker : WF_vars(PullImage(w))
LlmAnswers == \A w \in Worker : WF_vars(Analyse(w))

FairSpec == Spec /\ HandlersProceed
LiveSpec == FairSpec /\ RegistryAnswers /\ LlmAnswers
NoRegistrySpec == FairSpec /\ LlmAnswers

----------------------------------------------------------------------------
(***************************************************************************)
(* Safety.                                                                 *)
(***************************************************************************)
Handling(w, t) == pc[w] \notin {"idle", "down"} /\ job[w] = t

\* The phases from which a handler will still write a verdict, or die trying.
BeforeVerdict == {"received", "wroteRunning", "announcing", "pulling", "starting",
                  "running", "collecting", "wroteAnalyzing", "analysing",
                  "finalizing", "failing"}

\* Somebody is going to finish the run: a submission on its way to the queue,
\* a message in it, or a worker that has not written its verdict.
Pursued(t) ==
    \/ \E k \in 1..MaxRequests : req[t][k] \in {"persisted", "announced"}
    \/ queue[t] > 0
    \/ \E w \in Worker : job[w] = t /\ (pc[w] \in BeforeVerdict \/ dying[w])

(***************************************************************************)
(* A run that has a document but no verdict is still pursued by someone,   *)
(* or it met one of the three failures that strand it: its publish failed, *)
(* the worker's stricter schema refused its message, or the write of its   *)
(* ERROR failed and the message was acknowledged all the same.  Crashes,   *)
(* redeliveries, timeouts and duplicate submissions strand nothing.        *)
(***************************************************************************)
NoRunForgotten ==
    \A t \in Task :
        \/ exec[t] \in TerminalStatus \cup {"ABSENT"}
        \/ Pursued(t)
        \/ stranded[t] # {}

(***************************************************************************)
(* Two workers never run the same task in a container at the same time,    *)
(* although a task submitted twice is delivered to both: the container     *)
(* name is the lock.                                                       *)
(***************************************************************************)
OneContainerPerTask ==
    \A v, w \in Worker :
        v # w /\ mine[v] /\ mine[w] => job[v] # job[w]

(***************************************************************************)
(* A verdict on its way to the producer is the verdict in the document,    *)
(* unless somebody else has written the document since.  The producer      *)
(* reads the document back to notify Slack and relies on it.               *)
(***************************************************************************)
FinalCallbackMatchesDocument ==
    \A p \in posts :
        p.status \in TerminalStatus /\ lastWriter[p.task] = p.del
            => exec[p.task] = p.status

(***************************************************************************)
(* When every task is submitted once, no worker died and no callback was   *)
(* lost, the dashboards end up showing what the database holds.            *)
(***************************************************************************)
Quiet(t) ==
    /\ ~Pursued(t)
    /\ \A p \in posts : p.task # t
    /\ \A w \in Worker : job[w] = t => pc[w] \notin {"wroteFinal", "wroteError"}

DashboardAgrees ==
    \A t \in Task :
        Quiet(t) /\ stranded[t] = {} /\ t \notin lost /\ deaths = 0
            => view[t] = exec[t]

\* The container left behind by a worker that died, or whose removal failed.
Orphaned(t) == t \in box /\ \A w \in Worker : ~(mine[w] /\ job[w] = t)

(***************************************************************************)
(* Once a container is orphaned its task cannot be run again: a redelivery *)
(* or a resubmission goes through PENDING and RUNNING to ERROR, never to a *)
(* verdict about the tests, because nothing removes the old container.     *)
(***************************************************************************)
OrphanedTaskOnlyErrs ==
    [][\A t \in Task :
          Orphaned(t) /\ exec'[t] # exec[t]
              => exec'[t] \in {"PENDING", "RUNNING", "ERROR"}]_vars

----------------------------------------------------------------------------
(***************************************************************************)
(* Liveness.                                                               *)
(***************************************************************************)
\* Every run that is submitted ends up with a verdict for good, unless it is
\* stranded, whatever the crashes, faults and lost callbacks on the way.
EveryRunSettles ==
    \A t \in Task :
        <>[](exec[t] \in TerminalStatus \cup {"ABSENT"} \/ stranded[t] # {})

\* A worker always becomes free for the next message.
WorkerNeverBlocked == \A w \in Worker : []<>(pc[w] = "idle")

=============================================================================
