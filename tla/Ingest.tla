------------------------------- MODULE Ingest -------------------------------
(***************************************************************************)
(* One test run of an external CI, reported through the ingest API: the    *)
(* reporter with its event batcher and retrying HTTP client, the three     *)
(* endpoints setup, event and teardown, the session they keep in Redis or  *)
(* in memory, the documents they write, and the sweeper that ends runs     *)
(* without a heartbeat.                                                    *)
(*                                                                         *)
(* An HTTP call is made at most twice.  The client gives up waiting after  *)
(* ten seconds and posts again; the first request may still be served.     *)
(* Every handler is cut at its awaits.  A setup that is retried creates a  *)
(* second session, so sessions are numbered by the attempt that made them. *)
(*                                                                         *)
(* Left out: log and test-begin events, titles, error hashes, the TTLs of  *)
(* the Redis keys (24 hours without an event) and the metrics of test      *)
(* cases that a teardown updates in the background.                        *)
(***************************************************************************)
EXTENDS StatusRules, Functions

CONSTANTS
    Test,         \* the tests of the run, each ends once
    Outcome,      \* how a test may end
    MaxTimeouts,  \* bound: HTTP calls the client gives up waiting for
    MaxFaults     \* bound: lost requests, failed Redis or MongoDB calls, restarts

ASSUME IngestAssumption ==
    /\ IsFiniteSet(Test) /\ Outcome \subseteq {"passed", "failed", "skipped"}
    /\ MaxTimeouts \in Nat /\ MaxFaults \in Nat

VARIABLES
    caseIds,     \* are the test ids ids of test cases (24 hex digits)?
    quarantined, \* the tests that are quarantined test cases
    rep,         \* phase of the reporter
    outcome,     \* how each test ended
    queue,       \* test-end events in the batcher
    drain,       \* the batch that drain() sent
    pushed,      \* tests whose end was ever put in the batcher
    sid,         \* the session the reporter knows, 0: none
    reported,    \* status in the teardown payload
    waiting,     \* HTTP calls the reporter has in flight
    stage,       \* how far each request got that is in a handler or awaited
    session,     \* where each session is stored
    results,     \* Redis list ingest:results: how often each test is in it
    snap,        \* the list as each teardown attempt read it
    judged,      \* effectiveStatus of each teardown attempt
    exec,        \* status of each session's execution document
    stored,      \* its tests: how often each test is in the document
    cycle, item, \* status of each session's cycle and of its only item
    archive,     \* status of the document in ingest_sessions
    stale,       \* no heartbeat for 15 minutes
    sw,          \* the sweep in progress
    timeouts, faults,
    early,       \* history: teardown was posted while an event call was in flight
    raced        \* history: sessions a teardown finalised while a sweep held them

reporter == <<rep, outcome, queue, drain, pushed, sid, reported, waiting, timeouts, early>>
docs     == <<exec, stored, cycle, item, archive>>
redis    == <<session, results>>
vars == <<caseIds, quarantined, reporter, stage, redis, snap, judged, docs, stale, sw, faults,
          raced>>

Session == {1, 2}
Request == [kind : {"setup", "event", "teardown"}, tests : SUBSET Test, attempt : {1, 2}]
InHandler == {"cycled", "recorded", "resolved", "drained", "judged", "execDone", "cycleDone"}
Over == {"ok", "refused", "lost"}
Stage == InHandler \cup Over \cup {"sent"}
NoResults == [t \in Test |-> 0]
NoSweep == [pc |-> "idle", todo |-> {}]

TypeOK ==
    /\ caseIds \in BOOLEAN /\ quarantined \subseteq Test
    /\ rep \in {"idle", "running", "draining", "finishing", "done", "dead"}
    /\ outcome \in [Test -> Outcome \cup {"none"}]
    /\ queue \subseteq pushed /\ drain \subseteq pushed /\ pushed \subseteq Test
    /\ sid \in {0} \cup Session
    /\ reported \in {"none", "PASSED", "FAILED"}
    /\ waiting \subseteq DOMAIN stage
    /\ DOMAIN stage \subseteq Request /\ \A r \in DOMAIN stage : stage[r] \in Stage
    /\ session \in [Session -> {"none", "redis", "memory"}]
    /\ results \in [Test -> 0..2]
    /\ snap \in [{1, 2} -> [Test -> 0..2]]
    /\ judged \in [{1, 2} -> {"none", "PASSED", "FAILED"}]
    /\ exec \in [Session -> {"ABSENT", "RUNNING", "PASSED", "FAILED", "ERROR"}]
    /\ stored \in [Session -> [Test -> 0..2]]
    /\ cycle \in [Session -> {"ABSENT", "RUNNING", "COMPLETED"}]
    /\ item \in [Session -> {"ABSENT", "RUNNING", "PASSED", "FAILED"}]
    /\ archive \in [Session -> {"none", "COMPLETED", "FAILED"}]
    /\ stale \in [Session -> BOOLEAN]
    /\ sw \in [pc : {"idle", "exec", "cycle", "sessions"}, todo : SUBSET Session]
    /\ timeouts \in 0..MaxTimeouts /\ faults \in 0..MaxFaults
    /\ early \in BOOLEAN /\ raced \subseteq Session

Init ==
    /\ caseIds \in BOOLEAN
    /\ quarantined \in (IF caseIds THEN SUBSET Test ELSE {{}})
    /\ rep = "idle" /\ sid = 0 /\ reported = "none"
    /\ outcome = [t \in Test |-> "none"]
    /\ queue = {} /\ drain = {} /\ pushed = {}
    /\ waiting = {} /\ stage = <<>>
    /\ session = [s \in Session |-> "none"]
    /\ results = NoResults
    /\ snap = [a \in {1, 2} |-> NoResults]
    /\ judged = [a \in {1, 2} |-> "none"]
    /\ exec = [s \in Session |-> "ABSENT"]
    /\ stored = [s \in Session |-> NoResults]
    /\ cycle = [s \in Session |-> "ABSENT"]
    /\ item = [s \in Session |-> "ABSENT"]
    /\ archive = [s \in Session |-> "none"]
    /\ stale = [s \in Session |-> FALSE]
    /\ sw = NoSweep
    /\ timeouts = 0 /\ faults = 0
    /\ early = FALSE /\ raced = {}

server == <<redis, snap, judged, docs, stale, sw, raced>>
inputs == <<caseIds, quarantined>>

----------------------------------------------------------------------------
(***************************************************************************)
(* The reporter.                                                           *)
(***************************************************************************)
Call(kind, tests) == [kind |-> kind, tests |-> tests, attempt |-> 1]

\* fetch: the request is on its way and the reporter waits for the response.
Send(r) ==
    /\ stage' = [q \in DOMAIN stage \cup {r} |-> IF q = r THEN "sent" ELSE stage[q]]
    /\ waiting' = waiting \cup {r}

\* The reporter's process ends: its calls are abandoned, their requests are not.
Abandon ==
    /\ waiting' = {}
    /\ stage' = Restrict(stage, {r \in DOMAIN stage : stage[r] \notin Over})

Begin ==
    /\ rep = "idle"
    /\ rep' = "running"
    /\ Send(Call("setup", {}))
    /\ UNCHANGED <<inputs, server, outcome, queue, drain, pushed, sid, reported, timeouts,
                   early, faults>>

\* onTestEnd: nothing is buffered before setup has answered.
TestEnds(t) ==
    /\ rep = "running" /\ outcome[t] = "none"
    /\ \E o \in Outcome : outcome' = [outcome EXCEPT ![t] = o]
    /\ queue' = IF sid = 0 THEN queue ELSE queue \cup {t}
    /\ pushed' = IF sid = 0 THEN pushed ELSE pushed \cup {t}
    /\ UNCHANGED <<inputs, server, stage, rep, drain, sid, reported, waiting, timeouts, early,
                   faults>>

\* The timer fires or the batch is full; nobody awaits this flush.
Flush ==
    /\ rep = "running" /\ queue # {}
    /\ Send(Call("event", queue))
    /\ queue' = {}
    /\ UNCHANGED <<inputs, server, rep, outcome, drain, pushed, sid, reported, timeouts, early,
                   faults>>

\* Mutant of End: what is still buffered is dropped.
EndUndrained ==
    /\ rep = "running"
    /\ reported' \in IF \E t \in Test : outcome[t] = "failed" THEN {"FAILED"}
                                                             ELSE {"PASSED", "FAILED"}
    /\ rep' = "draining" /\ queue' = {}
    /\ UNCHANGED <<inputs, server, stage, waiting, outcome, drain, pushed, sid, timeouts,
                   early, faults>>

\* onEnd: a run may also fail without a failed test (interrupted, timed out).
End ==
    /\ rep = "running"
    /\ reported' \in IF \E t \in Test : outcome[t] = "failed" THEN {"FAILED"}
                                                             ELSE {"PASSED", "FAILED"}
    /\ rep' = "draining" /\ drain' = queue /\ queue' = {}
    /\ IF queue = {} THEN UNCHANGED <<stage, waiting>> ELSE Send(Call("event", queue))
    /\ UNCHANGED <<inputs, server, outcome, pushed, sid, timeouts, early, faults>>

\* drain() returned: its own batch was answered or given up.
PostTeardown ==
    /\ rep = "draining"
    /\ \A r \in waiting : ~(r.kind = "event" /\ r.tests = drain)
    /\ IF sid = 0
       THEN rep' = "done" /\ Abandon /\ UNCHANGED early
       ELSE /\ rep' = "finishing"
            /\ Send(Call("teardown", {}))
            /\ early' = \E r \in waiting : r.kind = "event"
    /\ UNCHANGED <<inputs, server, outcome, queue, drain, pushed, sid, reported, timeouts,
                   faults>>

Exit ==
    /\ rep = "finishing" /\ \A r \in waiting : r.kind # "teardown"
    /\ rep' = "done" /\ Abandon
    /\ UNCHANGED <<inputs, server, outcome, queue, drain, pushed, sid, reported,
                   timeouts, early, faults>>

\* The CI job is killed.
CiKilled ==
    /\ rep \notin {"idle", "done", "dead"}
    /\ rep' = "dead" /\ Abandon
    /\ UNCHANGED <<inputs, server, outcome, queue, drain, pushed, sid, reported,
                   timeouts, early, faults>>

\* A response: an error status is not retried, and leaves the session unknown.
Answer(r) ==
    /\ r \in waiting /\ stage[r] \in {"ok", "refused"}
    /\ waiting' = waiting \ {r}
    /\ stage' = Restrict(stage, DOMAIN stage \ {r})
    /\ sid' = IF r.kind = "setup" /\ stage[r] = "ok" THEN r.attempt ELSE sid
    /\ UNCHANGED <<inputs, server, rep, outcome, queue, drain, pushed, reported,
                   timeouts, early, faults>>

\* The connection failed, or ten seconds passed: post again once.
Expire(r) ==
    /\ r \in waiting
    /\ \/ stage[r] = "lost" /\ UNCHANGED timeouts
       \/ stage[r] # "lost" /\ timeouts < MaxTimeouts /\ timeouts' = timeouts + 1
    /\ LET again == IF r.attempt = 1 THEN {[r EXCEPT !.attempt = 2]} ELSE {}
           served == IF stage[r] \in Over THEN {r} ELSE {}
       IN  /\ stage' = [q \in (DOMAIN stage \ served) \cup again |->
                           IF q \in again THEN "sent" ELSE stage[q]]
           /\ waiting' = (waiting \ {r}) \cup again
    /\ UNCHANGED <<inputs, server, rep, outcome, queue, drain, pushed, sid, reported, early,
                   faults>>

----------------------------------------------------------------------------
(***************************************************************************)
(* The endpoints.                                                          *)
(***************************************************************************)
\* Nobody hears the answer to a request that is no longer awaited.
Become(r, to) ==
    stage' = IF to \in Over /\ r \notin waiting THEN Restrict(stage, DOMAIN stage \ {r})
                                                ELSE [stage EXCEPT ![r] = to]

Reach(r, from, to) == r \in DOMAIN stage /\ stage[r] = from /\ Become(r, to)

InsertCycle(r) ==
    /\ r.kind = "setup" /\ Reach(r, "sent", "cycled")
    /\ cycle' = [cycle EXCEPT ![r.attempt] = "RUNNING"]
    /\ item' = [item EXCEPT ![r.attempt] = "RUNNING"]
    /\ UNCHANGED <<inputs, reporter, redis, snap, judged, exec, stored, archive, stale, sw,
                   faults, raced>>

InsertExecution(r) ==
    /\ r.kind = "setup" /\ Reach(r, "cycled", "recorded")
    /\ exec' = [exec EXCEPT ![r.attempt] = "RUNNING"]
    /\ UNCHANGED <<inputs, reporter, redis, snap, judged, stored, cycle, item, archive, stale,
                   sw, faults, raced>>

\* In Redis, or in the process's memory when Redis fails.
StoreSession(r) ==
    /\ r.kind = "setup" /\ Reach(r, "recorded", "ok")
    /\ \/ /\ session' = [session EXCEPT ![r.attempt] = "redis"]
          /\ UNCHANGED faults
       \/ /\ session' = [session EXCEPT ![r.attempt] = "memory"]
          /\ faults < MaxFaults /\ faults' = faults + 1
    /\ UNCHANGED <<inputs, reporter, results, snap, judged, docs, stale, sw, raced>>

\* resolveSession: a Redis that fails hides the sessions it holds.
Resolve(r) ==
    /\ r.kind # "setup"
    /\ \/ Reach(r, "sent", IF session[sid] = "none" THEN "refused" ELSE "resolved")
          /\ UNCHANGED faults
       \/ Reach(r, "sent", IF session[sid] = "memory" THEN "resolved" ELSE "refused")
          /\ faults < MaxFaults /\ faults' = faults + 1
    /\ UNCHANGED <<inputs, reporter, redis, snap, judged, docs, stale, sw, raced>>

\* The pipeline and the heartbeat are issued, not awaited; the answer is 200
\* whatever becomes of them.
PushResults(r) ==
    /\ r.kind = "event" /\ Reach(r, "resolved", "ok")
    /\ \/ /\ results' = [t \in Test |-> results[t] + (IF t \in r.tests THEN 1 ELSE 0)]
          /\ UNCHANGED faults
       \/ faults < MaxFaults /\ faults' = faults + 1 /\ UNCHANGED results
    /\ stale' = [stale EXCEPT ![sid] = FALSE]
    /\ UNCHANGED <<inputs, reporter, session, snap, judged, docs, sw, raced>>

ReadResults(r) ==
    /\ r.kind = "teardown" /\ Reach(r, "resolved", "drained")
    /\ snap' = [snap EXCEPT ![r.attempt] = results]
    /\ UNCHANGED <<inputs, reporter, redis, judged, docs, stale, sw, faults, raced>>

Received(a) == {t \in Test : snap[a][t] > 0}

\* Mutant of HasRealFailures: all results must be real failures.
OnlyRealFailures(a) == \A t \in Received(a) : t \notin quarantined /\ outcome[t] # "passed"

\* Anything but a pass of a test that is not quarantined.
HasRealFailures(a) == \E t \in Received(a) \ quarantined : outcome[t] # "passed"

EffectiveStatus(a) ==
    IF reported = "FAILED" /\ Received(a) # {} /\ ~HasRealFailures(a)
    THEN "PASSED" ELSE reported

\* new ObjectId(testId) throws for an id that is not one.
Judge(r) ==
    /\ r.kind = "teardown"
    /\ IF Received(r.attempt) # {} /\ ~caseIds
       THEN Reach(r, "drained", "refused") /\ UNCHANGED judged
       ELSE /\ Reach(r, "drained", "judged")
            /\ judged' = [judged EXCEPT ![r.attempt] = EffectiveStatus(r.attempt)]
    /\ UNCHANGED <<inputs, reporter, redis, snap, docs, stale, sw, faults, raced>>

FinaliseExecution(r) ==
    /\ r.kind = "teardown" /\ Reach(r, "judged", "execDone")
    /\ exec' = [exec EXCEPT ![sid] = judged[r.attempt]]
    /\ stored' = [stored EXCEPT ![sid] = snap[r.attempt]]
    /\ raced' = IF sid \in sw.todo THEN raced \cup {sid} ELSE raced
    /\ UNCHANGED <<inputs, reporter, redis, snap, judged, cycle, item, archive, stale, sw,
                   faults>>

FinaliseCycle(r) ==
    /\ r.kind = "teardown" /\ Reach(r, "execDone", "cycleDone")
    /\ item' = [item EXCEPT ![sid] = judged[r.attempt]]
    /\ cycle' = [cycle EXCEPT ![sid] = "COMPLETED"]
    /\ UNCHANGED <<inputs, reporter, redis, snap, judged, exec, stored, archive, stale, sw,
                   faults, raced>>

\* The unique index on sessionId refuses the second insert; then nothing is cleaned up.
ArchiveSession(r) ==
    /\ r.kind = "teardown"
    /\ IF archive[sid] # "none"
       THEN Reach(r, "cycleDone", "refused") /\ UNCHANGED <<archive, session, results>>
       ELSE /\ Reach(r, "cycleDone", "ok")
            /\ archive' = [archive EXCEPT ![sid] =
                              IF judged[r.attempt] = "PASSED" THEN "COMPLETED" ELSE "FAILED"]
            /\ session' = [session EXCEPT ![sid] = "none"]
            /\ results' = NoResults
    /\ UNCHANGED <<inputs, reporter, snap, judged, exec, stored, cycle, item, stale, sw,
                   faults, raced>>

\* A MongoDB or Redis call throws: the handler answers 500 and undoes nothing.
HandlerFails(r) ==
    /\ faults < MaxFaults /\ faults' = faults + 1
    /\ r \in DOMAIN stage
    /\ \/ r.kind = "setup" /\ stage[r] \in {"sent", "cycled"}
       \/ r.kind = "teardown" /\ stage[r] \in InHandler
    /\ Become(r, "refused")
    /\ UNCHANGED <<inputs, reporter, server>>

LoseRequest(r) ==
    /\ faults < MaxFaults /\ faults' = faults + 1
    /\ Reach(r, "sent", "lost")
    /\ UNCHANGED <<inputs, reporter, server>>

\* The handlers, the sweep and the sessions in memory are gone.
ProducerRestart ==
    /\ faults < MaxFaults /\ faults' = faults + 1
    /\ LET gone == {r \in DOMAIN stage : stage[r] \in InHandler}
       IN  stage' = [r \in DOMAIN stage \ (gone \ waiting) |->
                        IF r \in gone THEN "lost" ELSE stage[r]]
    /\ session' = [s \in Session |-> IF session[s] = "memory" THEN "none" ELSE session[s]]
    /\ sw' = NoSweep
    /\ UNCHANGED <<inputs, reporter, results, snap, judged, docs, stale, raced>>

----------------------------------------------------------------------------
(***************************************************************************)
(* The sweeper.                                                            *)
(***************************************************************************)
\* 15 minutes without a heartbeat: nothing else was going on meanwhile.
Idle15 ==
    /\ waiting = {} /\ stage = <<>>
    /\ rep \in {"running", "done", "dead"} /\ (rep = "running" => queue = {})
    /\ sw.pc = "idle"
    /\ stale' = [s \in Session |-> exec[s] = "RUNNING"]
    /\ stale' # stale
    /\ UNCHANGED <<inputs, reporter, stage, redis, snap, judged, docs, sw, faults, raced>>

\* Mutants of Frozen: any run without a heartbeat, and only runs with a session.
FrozenAnyStatus == {s \in Session : stale[s]}
FrozenWithSession == {s \in Session : exec[s] = "RUNNING" /\ stale[s] /\ session[s] # "none"}

Frozen == {s \in Session : exec[s] = "RUNNING" /\ stale[s]}

SweepFind ==
    /\ sw.pc = "idle" /\ Frozen # {}
    /\ sw' = [pc |-> "exec", todo |-> Frozen]
    /\ UNCHANGED <<inputs, reporter, stage, redis, snap, judged, docs, stale, faults, raced>>

SweepAt(s, from, to) ==
    /\ sw.pc = from
    /\ s \in sw.todo /\ \A s2 \in sw.todo : s <= s2
    /\ sw' = [sw EXCEPT !.pc = to]

\* A failed update is logged and the sweep goes on to the next write.
Update(change, kept) ==
    \/ change /\ UNCHANGED faults
    \/ faults < MaxFaults /\ faults' = faults + 1 /\ UNCHANGED kept

SweepExecution(s) ==
    /\ SweepAt(s, "exec", "cycle")
    /\ Update(exec' = [exec EXCEPT ![s] = "ERROR"] /\ stale' = [stale EXCEPT ![s] = FALSE],
              <<exec, stale>>)
    /\ UNCHANGED <<inputs, reporter, stage, redis, snap, judged, stored, cycle, item, archive,
                   raced>>

\* Mutants of SweepCycle: the cycle is left alone, and the item gets the run's status.
SweepCycleNot(s) ==
    /\ SweepAt(s, "cycle", "sessions")
    /\ UNCHANGED <<inputs, reporter, stage, redis, snap, judged, docs, stale, faults, raced>>
SweepCycleAsError(s) ==
    /\ SweepAt(s, "cycle", "sessions")
    /\ cycle' = [cycle EXCEPT ![s] = "COMPLETED"]
    /\ item' = [item EXCEPT ![s] = "ERROR"]
    /\ UNCHANGED <<inputs, reporter, stage, redis, snap, judged, exec, stored, archive, stale,
                   faults, raced>>

SweepCycle(s) ==
    /\ SweepAt(s, "cycle", "sessions")
    /\ Update(/\ cycle' = [cycle EXCEPT ![s] = "COMPLETED"]
              /\ item' = [item EXCEPT ![s] = "FAILED"],
              <<cycle, item>>)
    /\ UNCHANGED <<inputs, reporter, stage, redis, snap, judged, exec, stored, archive, stale,
                   raced>>

SweepSession(s) ==
    /\ sw.pc = "sessions" /\ s \in sw.todo /\ \A s2 \in sw.todo : s <= s2
    /\ sw' = [pc |-> IF sw.todo = {s} THEN "idle" ELSE "exec", todo |-> sw.todo \ {s}]
    /\ Update(archive' = [archive EXCEPT ![s] = IF @ = "none" THEN @ ELSE "FAILED"], archive)
    /\ UNCHANGED <<inputs, reporter, stage, redis, snap, judged, exec, stored, cycle, item,
                   stale, raced>>

Serve(r) ==
    \/ InsertCycle(r) \/ InsertExecution(r) \/ StoreSession(r)
    \/ Resolve(r) \/ PushResults(r)
    \/ ReadResults(r) \/ Judge(r) \/ FinaliseExecution(r) \/ FinaliseCycle(r)
    \/ ArchiveSession(r) \/ HandlerFails(r) \/ LoseRequest(r)

Sweep ==
    SweepFind \/ \E s \in Session : SweepExecution(s) \/ SweepCycle(s) \/ SweepSession(s)

Next ==
    \/ Begin \/ Flush \/ End \/ PostTeardown \/ Exit \/ CiKilled
    \/ \E t \in Test : TestEnds(t)
    \/ \E r \in DOMAIN stage : Answer(r) \/ Expire(r) \/ Serve(r)
    \/ ProducerRestart \/ Idle15 \/ Sweep

Spec == Init /\ [][Next]_vars

(***************************************************************************)
(* Requests are served, calls end, timers fire and time passes.  A client  *)
(* need not begin, no test need end and the suite need not end.            *)
(***************************************************************************)
Fairness ==
    /\ \A r \in Request :
          /\ WF_vars(r \in DOMAIN stage /\ Serve(r))
          /\ WF_vars(r \in DOMAIN stage /\ (Answer(r) \/ Expire(r)))
    /\ WF_vars(Flush) /\ WF_vars(PostTeardown \/ Exit)
    /\ WF_vars(Idle15) /\ WF_vars(Sweep)

FairSpec == Spec /\ Fairness

----------------------------------------------------------------------------
(***************************************************************************)
(* Properties.                                                             *)
(***************************************************************************)
Settled == sw.pc = "idle" /\ \A r \in DOMAIN stage : stage[r] \notin InHandler

(***************************************************************************)
(* When nothing is in progress and no call failed, the run and its cycle   *)
(* tell the same story, also if a teardown and a sweep, or a teardown and  *)
(* its retry, wrote them together: they are open or closed together, and   *)
(* unless a sweep and a teardown held the run at once the item agrees.     *)
(***************************************************************************)
ItemOf(verdict) == IF verdict = "ERROR" THEN "FAILED" ELSE verdict

RunAndCycleAgree ==
    Settled /\ faults = 0 =>
        \A s \in Session :
            /\ exec[s] = "ABSENT" <=> cycle[s] = "ABSENT"
            /\ exec[s] = "RUNNING" <=> cycle[s] = "RUNNING"
            /\ s \notin raced /\ timeouts = 0 => item[s] = ItemOf(exec[s])

(***************************************************************************)
(* A finalised run holds the result of every test that was put in the      *)
(* batcher, exactly once, provided no call failed or timed out and no      *)
(* flush was still in flight when the teardown was posted.                 *)
(***************************************************************************)
ResultsComplete ==
    sid # 0 /\ exec[sid] \in {"PASSED", "FAILED"} /\ ~early /\ faults = 0 /\ timeouts = 0
        => \A t \in Test : stored[sid][t] = IF t \in pushed THEN 1 ELSE 0

(***************************************************************************)
(* The quality gate: a run whose reporter said FAILED is filed as PASSED   *)
(* only if every test that failed after setup had answered is quarantined, *)
(* again provided nothing failed and no flush was in flight.               *)
(***************************************************************************)
BypassJustified ==
    sid # 0 /\ exec[sid] = "PASSED" /\ reported = "FAILED"
        /\ ~early /\ faults = 0 /\ timeouts = 0
        => \A t \in pushed : outcome[t] = "failed" => t \in quarantined

(***************************************************************************)
(* A verdict given by a teardown becomes ERROR only when a sweep had found *)
(* the run still RUNNING and had not finished with it, and becomes another *)
(* verdict only through a teardown that was posted twice.                  *)
(***************************************************************************)
VerdictLostOnlyToSweep ==
    [][\A s \in Session :
          exec[s] \in {"PASSED", "FAILED"} /\ exec'[s] # exec[s]
              => IF exec'[s] = "ERROR" THEN s \in raced ELSE timeouts + faults > 0]_vars

(***************************************************************************)
(* No run stays RUNNING for ever: not when the CI job is killed, when the  *)
(* setup was retried and left a session nobody knows, when the teardown    *)
(* was refused, or when the producer restarted.                            *)
(***************************************************************************)
EveryRunEnds ==
    \A s \in Session : exec[s] = "RUNNING" ~> exec[s] \in {"PASSED", "FAILED", "ERROR"}

(***************************************************************************)
(* A failed run passes only if all its failed tests are quarantined, no    *)
(* matter which call the teardown overtakes.                               *)
(***************************************************************************)
FailureNeedsQuarantine ==
    sid # 0 /\ exec[sid] = "PASSED"
        => \A t \in pushed : outcome[t] = "failed" => t \in quarantined

(***************************************************************************)
(* When the reporter has exited and no call failed or timed out, its run   *)
(* has been finalised.                                                     *)
(***************************************************************************)
TeardownFinalises ==
    rep = "done" /\ sid # 0 /\ faults = 0 /\ timeouts = 0 => exec[sid] # "RUNNING"

=============================================================================
