---------------------------- MODULE IngestProofs ----------------------------
(***************************************************************************)
(* Proofs about Ingest, for any tests and any number of timeouts and       *)
(* faults.                                                                 *)
(*                                                                         *)
(* The arguments speak of at, how far every possible request has got,      *)
(* instead of stage, whose domain changes.  The first lemmas say what each *)
(* of the model's building blocks does to at.  The invariant has a part    *)
(* that holds always (Types to Budget), one that holds while no call has   *)
(* failed (Agreement), and one for runs in which no call failed or timed   *)
(* out (Unrepeated to Finished); each part is kept by every step given the *)
(* parts before it.                                                        *)
(***************************************************************************)
EXTENDS Ingest, TLAPS

at == [r \in Request |-> IF r \in DOMAIN stage THEN stage[r] ELSE "none"]

Attempt == {1, 2}
Setup(a) == [kind |-> "setup", tests |-> {}, attempt |-> a]
Event(S, a) == [kind |-> "event", tests |-> S, attempt |-> a]
Teardown(a) == [kind |-> "teardown", tests |-> {}, attempt |-> a]

\* Only r has got anywhere.
Moved(r, to) == \A q \in Request : at'[q] = IF q = r THEN to ELSE at[q]

\* The second post of a request.
Again(r) == IF r.attempt = 1 THEN {[r EXCEPT !.attempt = 2]} ELSE {}

Before == {"idle", "running", "draining"}
Pending == {"sent", "resolved"}
Quiet == faults = 0 /\ timeouts = 0
Closed(s) == exec[s] \notin {"ABSENT", "RUNNING"}
Final(s) == exec[s] \in {"PASSED", "FAILED"}

\* The run the sweep is at.
Swept(s) == s \in sw.todo /\ \A s2 \in sw.todo : s <= s2

\* The end of test t is in a request that has not added it to the results yet.
InFlight(t) == \E r \in Request : r.kind = "event" /\ t \in r.tests /\ at[r] \in Pending

Complete(f) == \A t \in Test : f[t] = IF t \in pushed THEN 1 ELSE 0

Unit(p) == IF p THEN 1 ELSE 0

\* How often the requests with the batch S may still add it to the results.
Load(S) == Unit(at[Event(S, 1)] \in Pending) + Unit(at[Event(S, 2)] \in Pending)
             + Unit(Event(S, 1) \in waiting)

----------------------------------------------------------------------------
(***************************************************************************)
(* The parts of the invariant that hold always.                            *)
(***************************************************************************)
Posted ==
    /\ waiting \subseteq DOMAIN stage
    /\ DOMAIN stage \subseteq Request /\ \A r \in DOMAIN stage : stage[r] \in Stage

\* The part of TypeOK that needs no further argument.
Types ==
    /\ Posted
    /\ caseIds \in BOOLEAN /\ quarantined \subseteq Test
    /\ rep \in {"idle", "running", "draining", "finishing", "done", "dead"}
    /\ outcome \in [Test -> Outcome \cup {"none"}]
    /\ queue \subseteq pushed /\ drain \subseteq pushed /\ pushed \subseteq Test
    /\ sid \in {0} \cup Session
    /\ reported \in {"none", "PASSED", "FAILED"}
    /\ session \in [Session -> {"none", "redis", "memory"}]
    /\ judged \in [{1, 2} -> {"none", "PASSED", "FAILED"}]
    /\ cycle \in [Session -> {"ABSENT", "RUNNING", "COMPLETED"}]
    /\ archive \in [Session -> {"none", "COMPLETED", "FAILED"}]
    /\ stale \in [Session -> BOOLEAN]
    /\ sw \in [pc : {"idle", "exec", "cycle", "sessions"}, todo : SUBSET Session]
    /\ timeouts \in 0..MaxTimeouts /\ faults \in 0..MaxFaults
    /\ early \in BOOLEAN /\ raced \subseteq Session

Phases ==
    /\ rep \in {"idle", "done", "dead"} => waiting = {}
    /\ rep \notin {"running", "dead"} => queue = {}
    /\ rep \in {"draining", "finishing", "done"} => reported # "none"
    /\ rep = "idle" => sid = 0
    /\ pushed # {} => sid # 0

\* An answer is there for as long as somebody waits for it; events and teardowns
\* follow a setup, and a teardown follows the end of the suite.
Requests ==
    \A r \in Request :
        /\ at[r] \in Over => r \in waiting
        /\ at[r] # "none" =>
             /\ rep # "idle"
             /\ r.kind # "event" => r.tests = {}
             /\ r.kind # "setup" => sid # 0
             /\ r.kind = "teardown" => rep \notin Before /\ reported # "none"

\* A test end is in the batcher, then in one batch, and never in another.
Batches ==
    /\ \A r \in Request : r.kind = "event" /\ at[r] # "none" =>
          r.tests # {} /\ r.tests \subseteq pushed \ queue
    /\ \A q, r \in Request : q.kind = "event" /\ r.kind = "event" /\ at[q] # "none"
             /\ at[r] # "none" => q.tests = r.tests \/ q.tests \cap r.tests = {}
    /\ \A t \in pushed : outcome[t] # "none"

\* A call is posted again only when its first post is no longer awaited.
Retries ==
    /\ \A r \in waiting : \A q \in Again(r) : at[q] = "none"
    /\ \A r \in waiting : r.kind = "setup" => sid = 0

Judgements ==
    \A a \in Attempt : at[Teardown(a)] \in {"judged", "execDone", "cycleDone"} =>
                          judged[a] # "none"

Documents ==
    /\ exec \in [Session -> {"ABSENT", "RUNNING", "PASSED", "FAILED", "ERROR"}]
    /\ item \in [Session -> {"ABSENT", "RUNNING", "PASSED", "FAILED"}]

\* What a setup has written, and that nobody else writes before it has.
SetupWrites ==
    /\ \A s \in Session :
          /\ at[Setup(s)] = "sent" =>
                exec[s] = "ABSENT" /\ cycle[s] = "ABSENT" /\ item[s] = "ABSENT"
          /\ at[Setup(s)] = "cycled" =>
                exec[s] = "ABSENT" /\ cycle[s] = "RUNNING" /\ item[s] = "RUNNING"
          /\ at[Setup(s)] \in {"recorded", "ok"} => exec[s] # "ABSENT"
          /\ s \in sw.todo => exec[s] # "ABSENT"
          /\ rep = "idle" => exec[s] = "ABSENT" /\ cycle[s] = "ABSENT" /\ item[s] = "ABSENT"
    /\ sid # 0 => exec[sid] # "ABSENT"
    /\ Setup(1) \in waiting => exec[2] = "ABSENT" /\ cycle[2] = "ABSENT" /\ item[2] = "ABSENT"

\* A run that a sweep holds and that has a verdict got it from a teardown meanwhile.
Verdicts ==
    /\ \A a \in Attempt : at[Teardown(a)] \in {"execDone", "cycleDone"} => Closed(sid)
    /\ \A s \in Session : s \in sw.todo /\ Final(s) => s \in raced
    /\ sid = 0 => \A s \in Session : ~Final(s)

\* A batch is posted at most twice, so no test is more than twice in the results.
Budget ==
    /\ results \in [Test -> Nat]
    /\ \A t \in Test : t \in queue \/ t \notin pushed => results[t] = 0
    /\ \A S \in SUBSET Test : \A t \in S : results[t] + Load(S) <= 2

\* What the teardowns read and stored is a number for each test.
Snaps ==
    /\ snap \in [{1, 2} -> [Test -> 0..2]]
    /\ stored \in [Session -> [Test -> 0..2]]

----------------------------------------------------------------------------
(***************************************************************************)
(* While no call has failed, a run and its cycle differ only where a setup *)
(* a sweep or a teardown is between its two writes.                        *)
(***************************************************************************)
Agrees(s) ==
    /\ cycle[s] = "ABSENT" => exec[s] = "ABSENT"
    /\ exec[s] = "ABSENT" => cycle[s] = "ABSENT" \/ at[Setup(s)] = "cycled"
    /\ cycle[s] = "COMPLETED" => Closed(s)
    /\ cycle[s] = "RUNNING" /\ Closed(s) =>
          \/ sw.pc = "cycle" /\ Swept(s)
          \/ s = sid /\ \E a \in Attempt : at[Teardown(a)] = "execDone"
    /\ sw.pc \in {"cycle", "sessions"} /\ Swept(s) => Closed(s)

Agreement == faults = 0 => \A s \in Session : Agrees(s)

----------------------------------------------------------------------------
(***************************************************************************)
(* When no call failed or timed out.                                       *)
(***************************************************************************)
\* Every call is posted once, and answered while the reporter waits for it.
Unrepeated ==
    Quiet => \A r \in Request : at[r] # "none" =>
                /\ r.attempt = 1 /\ at[r] # "lost"
                /\ rep \notin {"done", "dead"} => r \in waiting

\* Nobody gives a verdict or ends the session before the teardown does.
Untouched ==
    Quiet =>
      /\ rep \in Before => \A s \in Session : archive[s] = "none" /\ ~Final(s)
      /\ sid # 0 /\ archive[sid] = "none" => session[sid] = "redis"
      /\ at[Setup(1)] = "ok" => session[1] = "redis"
      /\ at[Teardown(1)] \in {"sent", "resolved", "drained", "judged"} => ~Final(sid)

Follows(s) ==
    /\ \/ item[s] = ItemOf(exec[s])
       \/ at[Setup(s)] = "cycled"
       \/ sw.pc = "cycle" /\ Swept(s)
       \/ s = sid /\ at[Teardown(1)] = "execDone"
    /\ sw.pc \in {"cycle", "sessions"} /\ Swept(s) => exec[s] = "ERROR"
    /\ s \in sw.todo => exec[s] = "RUNNING" \/ (sw.pc \in {"cycle", "sessions"} /\ Swept(s))
    /\ s = sid /\ at[Teardown(1)] = "execDone" => exec[s] = judged[1] /\ s \notin sw.todo

ItemFollows == Quiet => \A s \in Session \ raced : Follows(s)

\* Up to the teardown, the results hold exactly what is neither buffered nor in flight.
Delivered ==
    Quiet /\ rep \in Before =>
      /\ ~early
      /\ \A t \in Test : results[t] = IF t \in pushed \ queue /\ ~InFlight(t) THEN 1 ELSE 0

Gathered ==
    Quiet /\ ~early =>
      /\ at[Teardown(1)] \in Pending =>
            Complete(results) /\ \A r \in Request : r.kind = "event" => at[r] = "none"
      /\ at[Teardown(1)] \in {"drained", "judged"} => Complete(snap[1])

Evaluated ==
    Quiet /\ at[Teardown(1)] \in {"judged", "execDone"} => judged[1] = EffectiveStatus(1)

Finished ==
    Quiet /\ ~early /\ sid # 0 /\ Final(sid) =>
      /\ Complete(stored[sid])
      /\ exec[sid] = "PASSED" /\ reported = "FAILED" =>
            \A t \in pushed : outcome[t] = "failed" => t \in quarantined

IngestInv ==
    /\ Types /\ Phases /\ Requests /\ Batches /\ Retries /\ Judgements /\ Documents
    /\ SetupWrites /\ Verdicts /\ Budget /\ Snaps
    /\ Agreement
    /\ Unrepeated /\ Untouched /\ ItemFollows /\ Delivered /\ Gathered /\ Evaluated /\ Finished

----------------------------------------------------------------------------
(***************************************************************************)
(* Requests, and what the building blocks of the actions do to them.       *)
(***************************************************************************)
LEMMA Kinds ==
    ASSUME NEW r \in Request
    PROVE  /\ r.kind \in {"setup", "event", "teardown"} /\ r.attempt \in {1, 2}
           /\ r.tests \subseteq Test
           /\ r = [kind |-> r.kind, tests |-> r.tests, attempt |-> r.attempt]
  BY DEF Request

LEMMA Still ==
    ASSUME stage' = stage
    PROVE  at' = at
  BY DEF at

LEMMA Named ==
    ASSUME NEW r \in Request
    PROVE  /\ r.kind = "setup" /\ r.tests = {} => r = Setup(r.attempt)
           /\ r.kind = "event" => r = Event(r.tests, r.attempt)
           /\ r.kind = "teardown" /\ r.tests = {} => r = Teardown(r.attempt)
  BY DEF Request, Setup, Event, Teardown

LEMMA Names ==
    ASSUME NEW S \in SUBSET Test, NEW a \in Attempt
    PROVE  /\ Setup(a) \in Request /\ Event(S, a) \in Request /\ Teardown(a) \in Request
           /\ Setup(a).kind = "setup" /\ Setup(a).tests = {} /\ Setup(a).attempt = a
           /\ Event(S, a).kind = "event" /\ Event(S, a).tests = S /\ Event(S, a).attempt = a
           /\ Teardown(a).kind = "teardown" /\ Teardown(a).tests = {}
           /\ Teardown(a).attempt = a
  BY DEF Request, Setup, Event, Teardown, Attempt

LEMMA Awaited ==
    ASSUME Posted
    PROVE  \A r \in waiting : r \in Request /\ at[r] # "none"
  BY DEF Posted, at, Stage, InHandler, Over

LEMMA Retried ==
    ASSUME NEW r \in Request, NEW q \in Again(r)
    PROVE  /\ q \in Request /\ q.kind = r.kind /\ q.tests = r.tests /\ q # r
           /\ q.attempt = 2 /\ r.attempt = 1
  BY DEF Again, Request

LEMMA RetriedOnce ==
    ASSUME NEW q \in Request, NEW r \in Request, NEW p, p \in Again(q), p \in Again(r)
    PROVE  q = r
  BY Retried, Kinds DEF Again, Request

LEMMA Twice ==
    ASSUME NEW S \in SUBSET Test
    PROVE  /\ Again(Setup(1)) = {Setup(2)} /\ Again(Event(S, 1)) = {Event(S, 2)}
           /\ Again(Teardown(1)) = {Teardown(2)}
  BY DEF Again, Setup, Event, Teardown

LEMMA CallSend ==
    ASSUME Posted, NEW r \in Request, Send(r)
    PROVE  /\ Posted'
           /\ Moved(r, "sent")
           /\ waiting' = waiting \cup {r}
  BY DEF Posted, Send, Moved, at, Stage

LEMMA CallAbandon ==
    ASSUME Posted, Abandon
    PROVE  /\ Posted'
           /\ waiting' = {}
           /\ \A r \in Request : at'[r] = IF at[r] \in Over THEN "none" ELSE at[r]
  BY DEF Posted, Abandon, at, Restrict, Over

LEMMA CallAnswer ==
    ASSUME Posted, NEW r \in DOMAIN stage, Answer(r)
    PROVE  /\ Posted'
           /\ r \in Request /\ r \in waiting /\ at[r] \in {"ok", "refused"}
           /\ sid' = IF r.kind = "setup" /\ at[r] = "ok" THEN r.attempt ELSE sid
           /\ waiting' = waiting \ {r}
           /\ Moved(r, "none")
<1> USE DEF Posted, Answer
<1>1. Posted'
  BY DEF Restrict
<1>2. r \in Request /\ at[r] = stage[r]
  BY DEF at
<1>3. DOMAIN stage' = DOMAIN stage \ {r} /\ \A q \in DOMAIN stage' : stage'[q] = stage[q]
  BY DEF Restrict
<1>4. Moved(r, "none")
  BY <1>2, <1>3 DEF Moved, at
<1>5. QED
  BY <1>1, <1>2, <1>4

LEMMA CallExpire ==
    ASSUME Posted, NEW r \in DOMAIN stage, Expire(r)
    PROVE  /\ Posted'
           /\ r \in Request /\ r \in waiting /\ at[r] # "none"
           /\ at[r] # "lost" => timeouts' = timeouts + 1
           /\ at[r] = "lost" => timeouts' = timeouts
           /\ waiting' = (waiting \ {r}) \cup Again(r)
           /\ \A q \in Request :
                 at'[q] = IF q \in Again(r) THEN "sent"
                          ELSE IF q = r /\ at[r] \in Over THEN "none" ELSE at[q]
<1> DEFINE served == IF stage[r] \in Over THEN {r} ELSE {}
<1>1. /\ r \in Request /\ at[r] = stage[r] /\ r \in waiting
      /\ Again(r) \subseteq Request /\ r \notin Again(r) /\ stage[r] # "none"
  BY DEF Posted, Expire, at, Again, Request, Stage, InHandler, Over
<1>2. /\ at[r] # "lost" => timeouts' = timeouts + 1
      /\ at[r] = "lost" => timeouts' = timeouts
  BY <1>1 DEF Expire
<1>3. /\ waiting' = (waiting \ {r}) \cup Again(r)
      /\ stage' = [q \in (DOMAIN stage \ served) \cup Again(r) |->
                      IF q \in Again(r) THEN "sent" ELSE stage[q]]
  BY DEF Expire, Again
<1>4. Posted'
  BY <1>1, <1>3 DEF Posted, Stage
<1>5. \A q \in Request : at'[q] = IF q \in Again(r) THEN "sent"
                                  ELSE IF q = r /\ at[r] \in Over THEN "none" ELSE at[q]
  BY <1>1, <1>3 DEF at
<1>6. QED
  BY <1>1, <1>2, <1>3, <1>4, <1>5

LEMMA CallReach ==
    ASSUME Posted, NEW r, NEW from, NEW to \in Stage, Reach(r, from, to), waiting' = waiting
    PROVE  /\ Posted'
           /\ r \in Request /\ at[r] = from
           /\ Moved(r, IF to \in Over /\ r \notin waiting THEN "none" ELSE to)
  BY DEF Posted, Reach, Become, Moved, at, Restrict

LEMMA CallResolve ==
    ASSUME Posted, NEW r, Resolve(r), faults \in Nat
    PROVE  /\ Posted'
           /\ r \in Request /\ at[r] = "sent" /\ r.kind # "setup"
           /\ \E to \in {"resolved", "refused"} :
                 /\ Moved(r, IF to \in Over /\ r \notin waiting THEN "none" ELSE to)
                 /\ session[sid] # "none" /\ faults' = faults => to = "resolved"
<1> PICK to \in {"resolved", "refused"} :
       /\ Reach(r, "sent", to)
       /\ session[sid] # "none" /\ faults' = faults => to = "resolved"
  BY DEF Resolve
<1> QED
  BY CallReach DEF Resolve, reporter, Stage, InHandler, Over

LEMMA CallFails ==
    ASSUME Posted, NEW r, HandlerFails(r)
    PROVE  /\ Posted'
           /\ r \in Request
           /\ \/ r.kind = "setup" /\ at[r] \in {"sent", "cycled"}
              \/ r.kind = "teardown" /\ at[r] \in InHandler
           /\ Moved(r, IF r \notin waiting THEN "none" ELSE "refused")
  BY DEF Posted, HandlerFails, reporter, Become, Moved, at, Restrict, Stage, Over

LEMMA CallRestart ==
    ASSUME Posted, ProducerRestart
    PROVE  /\ Posted'
           /\ \A r \in Request : at'[r] = IF at[r] \in InHandler
                                          THEN IF r \in waiting THEN "lost" ELSE "none"
                                          ELSE at[r]
  BY DEF Posted, ProducerRestart, reporter, at, InHandler, Stage, Over

----------------------------------------------------------------------------
(***************************************************************************)
(* Every step keeps each part of the invariant.                            *)
(***************************************************************************)

LEMMA TypesKept ==
    ASSUME Types, [Next]_vars
    PROVE  Types'
<1> USE IngestAssumption DEF Types
<1> USE DEF inputs, server, reporter, redis, docs
<1>1. CASE Begin
  BY <1>1, CallSend DEF Begin, Call, Request
<1>2. CASE Flush
  BY <1>2, CallSend DEF Flush, Call, Request
<1>3. CASE End
  <2>1. Posted'
    BY <1>3, CallSend DEF End, Call, Request, Posted
  <2>2. QED
    BY <1>3, <2>1 DEF End
<1>4. CASE PostTeardown
  <2>1. Posted'
    BY <1>4, CallSend, CallAbandon DEF PostTeardown, Call, Request
  <2>2. QED
    BY <1>4, <2>1 DEF PostTeardown
<1>5. CASE Exit
  BY <1>5, CallAbandon DEF Exit
<1>6. CASE CiKilled
  BY <1>6, CallAbandon DEF CiKilled
<1>7. ASSUME NEW t \in Test, TestEnds(t)
      PROVE  Types'
  BY <1>7 DEF TestEnds, Posted
<1>8. ASSUME NEW r \in DOMAIN stage, Answer(r)
      PROVE  Types'
  <2>1. Posted' /\ sid' \in {0} \cup Session
    BY <1>8, CallAnswer DEF Request, Session
  <2>2. QED
    BY <1>8, <2>1 DEF Answer
<1>9. ASSUME NEW r \in DOMAIN stage, Expire(r)
      PROVE  Types'
  <2>1. Posted' /\ timeouts' \in 0..MaxTimeouts
    BY <1>9, CallExpire DEF Expire
  <2>2. QED
    BY <1>9, <2>1 DEF Expire
<1>10. ASSUME NEW r \in DOMAIN stage, Serve(r)
       PROVE  Types'
  <2> USE DEF Stage, InHandler, Over
  <2>1. CASE InsertCycle(r)
    BY <2>1, CallReach DEF InsertCycle
  <2>2. CASE InsertExecution(r)
    BY <2>2, CallReach DEF InsertExecution
  <2>3. CASE StoreSession(r)
    BY <2>3, CallReach DEF StoreSession
  <2>4. CASE Resolve(r)
    <3>1. Posted' /\ faults' \in 0..MaxFaults
      BY <2>4, CallResolve DEF Resolve
    <3>2. QED
      BY <2>4, <3>1 DEF Resolve
  <2>5. CASE PushResults(r)
    <3>1. Posted' /\ faults' \in 0..MaxFaults
      BY <2>5, CallReach DEF PushResults
    <3>2. stale' \in [Session -> BOOLEAN]
      BY <2>5 DEF PushResults
    <3>3. QED
      BY <2>5, <3>1, <3>2 DEF PushResults
  <2>6. CASE ReadResults(r)
    BY <2>6, CallReach DEF ReadResults
  <2>7. CASE Judge(r)
    BY <2>7, CallReach DEF Judge, EffectiveStatus
  <2>8. CASE FinaliseExecution(r)
    BY <2>8, CallReach DEF FinaliseExecution
  <2>9. CASE FinaliseCycle(r)
    BY <2>9, CallReach DEF FinaliseCycle
  <2>10. CASE ArchiveSession(r)
    BY <2>10, CallReach DEF ArchiveSession
  <2>11. CASE HandlerFails(r)
    BY <2>11, CallFails DEF HandlerFails
  <2>12. CASE LoseRequest(r)
    BY <2>12, CallReach DEF LoseRequest
  <2>13. QED
    BY <1>10, <2>1, <2>2, <2>3, <2>4, <2>5, <2>6, <2>7, <2>8, <2>9, <2>10, <2>11, <2>12
       DEF Serve
<1>11. CASE ProducerRestart
  BY <1>11, CallRestart DEF ProducerRestart, NoSweep
<1>12. CASE Idle15
  BY <1>12 DEF Idle15, Posted
<1>13. CASE SweepFind
  BY <1>13 DEF SweepFind, Frozen, Posted
<1>14. ASSUME NEW s \in Session, SweepExecution(s) \/ SweepCycle(s) \/ SweepSession(s)
       PROVE  Types'
  <2> USE DEF SweepAt, Update, Posted
  <2>1. CASE SweepExecution(s)
    <3>1. /\ stale' = stale \/ stale' = [stale EXCEPT ![s] = FALSE]
          /\ faults' = faults \/ (faults < MaxFaults /\ faults' = faults + 1)
      BY <2>1 DEF SweepExecution
    <3>2. sw' \in [pc : {"idle", "exec", "cycle", "sessions"}, todo : SUBSET Session]
      BY <2>1 DEF SweepExecution
    <3>3. stale' \in [Session -> BOOLEAN]
      BY <3>1
    <3>4. faults' \in 0..MaxFaults
      BY <3>1
    <3>5. QED
      BY <2>1, <3>2, <3>3, <3>4 DEF SweepExecution
  <2>2. CASE SweepCycle(s)
    BY <2>2 DEF SweepCycle
  <2>3. CASE SweepSession(s)
    BY <2>3 DEF SweepSession
  <2>4. QED
    BY <1>14, <2>1, <2>2, <2>3
<1>15. CASE UNCHANGED vars
  BY <1>15 DEF vars, Posted
<1>16. QED
  BY <1>1, <1>2, <1>3, <1>4, <1>5, <1>6, <1>7, <1>8, <1>9, <1>10, <1>11, <1>12, <1>13, <1>14,
     <1>15 DEF Next, Sweep

LEMMA PhasesKept ==
    ASSUME Types, Phases, [Next]_vars
    PROVE  Phases'
<1> USE DEF inputs, server, reporter, redis, docs
<1> USE DEF Phases, Types
<1>1. CASE Begin
  BY <1>1, CallSend DEF Begin, Call, Request
<1>2. CASE Flush
  BY <1>2, CallSend DEF Flush, Call, Request
<1>3. CASE End
  BY <1>3, CallSend DEF End, Call, Request
<1>4. CASE PostTeardown
  BY <1>4, CallSend, CallAbandon DEF PostTeardown, Call, Request
<1>5. CASE Exit
  BY <1>5, CallAbandon DEF Exit
<1>6. CASE CiKilled
  BY <1>6, CallAbandon DEF CiKilled
<1>7. ASSUME NEW t \in Test, TestEnds(t)
      PROVE  Phases'
  BY <1>7, Still DEF TestEnds
<1>8. ASSUME NEW r \in DOMAIN stage, Answer(r)
      PROVE  Phases'
  BY <1>8, CallAnswer, Kinds DEF Answer
<1>9. ASSUME NEW r \in DOMAIN stage, Expire(r)
      PROVE  Phases'
  BY <1>9, CallExpire DEF Expire, Again, Request
<1>10. ASSUME NEW r \in DOMAIN stage, Serve(r)
      PROVE  Phases'
  <2> USE DEF Stage
  <2>1. CASE InsertCycle(r)
    BY <2>1, CallReach DEF InsertCycle
  <2>2. CASE InsertExecution(r)
    BY <2>2, CallReach DEF InsertExecution
  <2>3. CASE StoreSession(r)
    BY <2>3, CallReach DEF StoreSession
  <2>4. CASE Resolve(r)
    BY <2>4, CallResolve DEF Resolve
  <2>5. CASE PushResults(r)
    BY <2>5, CallReach DEF PushResults
  <2>6. CASE ReadResults(r)
    BY <2>6, CallReach DEF ReadResults
  <2>7. CASE Judge(r)
    BY <2>7, CallReach DEF Judge
  <2>8. CASE FinaliseExecution(r)
    BY <2>8, CallReach DEF FinaliseExecution
  <2>9. CASE FinaliseCycle(r)
    BY <2>9, CallReach DEF FinaliseCycle
  <2>10. CASE ArchiveSession(r)
    BY <2>10, CallReach DEF ArchiveSession
  <2>11. CASE HandlerFails(r)
    BY <2>11, CallFails DEF HandlerFails
  <2>12. CASE LoseRequest(r)
    BY <2>12, CallReach DEF LoseRequest
  <2>13. QED
    BY <1>10, <2>1, <2>2, <2>3, <2>4, <2>5, <2>6, <2>7, <2>8, <2>9,
       <2>10, <2>11, <2>12 DEF Serve
<1>11. CASE ProducerRestart
  BY <1>11, CallRestart DEF ProducerRestart
<1>12. CASE Idle15
  BY <1>12, Still DEF Idle15
<1>13. CASE SweepFind
  BY <1>13, Still DEF SweepFind
<1>14. ASSUME NEW s \in Session, SweepExecution(s)
       PROVE  Phases'
  BY <1>14, Still DEF SweepExecution, SweepAt, Update
<1>15. ASSUME NEW s \in Session, SweepCycle(s)
       PROVE  Phases'
  BY <1>15, Still DEF SweepCycle, SweepAt, Update
<1>16. ASSUME NEW s \in Session, SweepSession(s)
       PROVE  Phases'
  BY <1>16, Still DEF SweepSession, SweepAt, Update
<1>17. CASE UNCHANGED vars
  BY <1>17, Still DEF vars
<1>18. QED
  BY <1>1, <1>2, <1>3, <1>4, <1>5, <1>6, <1>7, <1>8, <1>9, <1>10,
     <1>11, <1>12, <1>13, <1>14, <1>15, <1>16, <1>17
     DEF Next, Sweep

LEMMA RequestsKept ==
    ASSUME Types, Phases, Requests, [Next]_vars
    PROVE  Requests'
<1> USE DEF inputs, server, reporter, redis, docs
<1> USE Kinds DEF Phases, Types, Requests, Moved
<1>1. CASE Begin
  BY <1>1, CallSend DEF Begin, Call, Request, Before, Over
<1>2. CASE Flush
  BY <1>2, CallSend DEF Flush, Call, Request, Before, Over
<1>3. CASE End
  <2> USE DEF Call, Before, Over
  <2>1. CASE queue = {}
    BY <1>3, <2>1, Still DEF End
  <2>2. CASE queue # {}
    <3>1. Call("event", queue) \in Request
      BY DEF Request
    <3>2. QED
      BY <1>3, <2>2, <3>1, CallSend DEF End
  <2>3. QED
    BY <2>1, <2>2
<1>4. CASE PostTeardown
  <2> USE DEF Call, Before, Over
  <2>1. CASE sid = 0
    BY <1>4, <2>1, CallAbandon DEF PostTeardown
  <2>2. CASE sid # 0
    <3>1. Call("teardown", {}) \in Request
      BY DEF Request
    <3>2. QED
      BY <1>4, <2>2, <3>1, CallSend DEF PostTeardown
  <2>3. QED
    BY <2>1, <2>2
<1>5. CASE Exit
  BY <1>5, CallAbandon DEF Exit, Before, Over
<1>6. CASE CiKilled
  BY <1>6, CallAbandon DEF CiKilled, Before, Over
<1>7. ASSUME NEW t \in Test, TestEnds(t)
      PROVE  Requests'
  BY <1>7, Still DEF TestEnds
<1>8. ASSUME NEW r \in DOMAIN stage, Answer(r)
      PROVE  Requests'
  BY <1>8, CallAnswer DEF Answer, Over
<1>9. ASSUME NEW r \in DOMAIN stage, Expire(r)
      PROVE  Requests'
  BY <1>9, CallExpire, Retried DEF Expire, Over
<1>10. ASSUME NEW r \in DOMAIN stage, Serve(r)
      PROVE  Requests'
  <2> USE DEF Stage, InHandler, Over
  <2>1. CASE InsertCycle(r)
    BY <2>1, CallReach DEF InsertCycle
  <2>2. CASE InsertExecution(r)
    BY <2>2, CallReach DEF InsertExecution
  <2>3. CASE StoreSession(r)
    BY <2>3, CallReach DEF StoreSession
  <2>4. CASE Resolve(r)
    BY <2>4, CallResolve DEF Resolve
  <2>5. CASE PushResults(r)
    BY <2>5, CallReach DEF PushResults
  <2>6. CASE ReadResults(r)
    BY <2>6, CallReach DEF ReadResults
  <2>7. CASE Judge(r)
    BY <2>7, CallReach DEF Judge
  <2>8. CASE FinaliseExecution(r)
    BY <2>8, CallReach DEF FinaliseExecution
  <2>9. CASE FinaliseCycle(r)
    BY <2>9, CallReach DEF FinaliseCycle
  <2>10. CASE ArchiveSession(r)
    BY <2>10, CallReach DEF ArchiveSession
  <2>11. CASE HandlerFails(r)
    BY <2>11, CallFails DEF HandlerFails
  <2>12. CASE LoseRequest(r)
    BY <2>12, CallReach DEF LoseRequest
  <2>13. QED
    BY <1>10, <2>1, <2>2, <2>3, <2>4, <2>5, <2>6, <2>7, <2>8, <2>9,
       <2>10, <2>11, <2>12 DEF Serve
<1>11. CASE ProducerRestart
  BY <1>11, CallRestart DEF ProducerRestart, InHandler, Over
<1>12. CASE Idle15
  BY <1>12, Still DEF Idle15
<1>13. CASE SweepFind
  BY <1>13, Still DEF SweepFind
<1>14. ASSUME NEW s \in Session, SweepExecution(s)
       PROVE  Requests'
  BY <1>14, Still DEF SweepExecution, SweepAt, Update
<1>15. ASSUME NEW s \in Session, SweepCycle(s)
       PROVE  Requests'
  BY <1>15, Still DEF SweepCycle, SweepAt, Update
<1>16. ASSUME NEW s \in Session, SweepSession(s)
       PROVE  Requests'
  BY <1>16, Still DEF SweepSession, SweepAt, Update
<1>17. CASE UNCHANGED vars
  BY <1>17, Still DEF vars
<1>18. QED
  BY <1>1, <1>2, <1>3, <1>4, <1>5, <1>6, <1>7, <1>8, <1>9, <1>10,
     <1>11, <1>12, <1>13, <1>14, <1>15, <1>16, <1>17
     DEF Next, Sweep

LEMMA BatchesKept ==
    ASSUME Types, Phases, Requests, Batches, [Next]_vars
    PROVE  Batches'
<1> USE DEF inputs, server, reporter, redis, docs
<1> USE Kinds, Retried DEF Phases, Types, Batches, Moved, Over
<1>1. CASE Begin
  BY <1>1, CallSend DEF Begin, Call, Request
<1>2. CASE Flush
  <2> DEFINE c == Call("event", queue)
  <2>1. c \in Request /\ c.kind = "event" /\ c.tests = queue /\ c.attempt = 1
    BY DEF Call, Request
  <2>2. Send(c)
    BY <1>2 DEF Flush
  <2> HIDE DEF c
  <2> QED
    BY <1>2, <2>1, <2>2, CallSend DEF Flush
<1>3. CASE End
  <2> DEFINE c == Call("event", queue)
  <2>1. c \in Request /\ c.kind = "event" /\ c.tests = queue /\ c.attempt = 1
    BY DEF Call, Request
  <2>2. queue # {} => Send(c)
    BY <1>3 DEF End
  <2> HIDE DEF c
  <2>3. CASE queue = {}
    BY <1>3, <2>3, Still DEF End
  <2>4. CASE queue # {}
    BY <1>3, <2>4, <2>1, <2>2, CallSend DEF End
  <2>5. QED
    BY <2>3, <2>4
<1>4. CASE PostTeardown
  <2>1. CASE sid = 0
    BY <1>4, <2>1, CallAbandon DEF PostTeardown
  <2>2. CASE sid # 0
    BY <1>4, <2>2, CallSend DEF PostTeardown, Call, Request
  <2>3. QED
    BY <2>1, <2>2
<1>5. CASE Exit
  BY <1>5, CallAbandon DEF Exit
<1>6. CASE CiKilled
  BY <1>6, CallAbandon DEF CiKilled
<1>7. ASSUME NEW t \in Test, TestEnds(t)
      PROVE  Batches'
  BY <1>7, Still, IngestAssumption DEF TestEnds
<1>8. ASSUME NEW r \in DOMAIN stage, Answer(r)
      PROVE  Batches'
  BY <1>8, CallAnswer DEF Answer
<1>9. ASSUME NEW r \in DOMAIN stage, Expire(r)
      PROVE  Batches'
  BY <1>9, CallExpire DEF Expire, Again, Request
<1>10. ASSUME NEW r \in DOMAIN stage, Serve(r)
      PROVE  Batches'
  <2> USE DEF Stage, InHandler, Over
  <2>1. CASE InsertCycle(r)
    BY <2>1, CallReach DEF InsertCycle
  <2>2. CASE InsertExecution(r)
    BY <2>2, CallReach DEF InsertExecution
  <2>3. CASE StoreSession(r)
    BY <2>3, CallReach DEF StoreSession
  <2>4. CASE Resolve(r)
    BY <2>4, CallResolve DEF Resolve
  <2>5. CASE PushResults(r)
    BY <2>5, CallReach DEF PushResults
  <2>6. CASE ReadResults(r)
    BY <2>6, CallReach DEF ReadResults
  <2>7. CASE Judge(r)
    BY <2>7, CallReach DEF Judge
  <2>8. CASE FinaliseExecution(r)
    BY <2>8, CallReach DEF FinaliseExecution
  <2>9. CASE FinaliseCycle(r)
    BY <2>9, CallReach DEF FinaliseCycle
  <2>10. CASE ArchiveSession(r)
    BY <2>10, CallReach DEF ArchiveSession
  <2>11. CASE HandlerFails(r)
    BY <2>11, CallFails DEF HandlerFails
  <2>12. CASE LoseRequest(r)
    BY <2>12, CallReach DEF LoseRequest
  <2>13. QED
    BY <1>10, <2>1, <2>2, <2>3, <2>4, <2>5, <2>6, <2>7, <2>8, <2>9,
       <2>10, <2>11, <2>12 DEF Serve
<1>11. CASE ProducerRestart
  BY <1>11, CallRestart DEF ProducerRestart, InHandler
<1>12. CASE Idle15
  BY <1>12, Still DEF Idle15
<1>13. CASE SweepFind
  BY <1>13, Still DEF SweepFind
<1>14. ASSUME NEW s \in Session, SweepExecution(s)
       PROVE  Batches'
  BY <1>14, Still DEF SweepExecution, SweepAt, Update
<1>15. ASSUME NEW s \in Session, SweepCycle(s)
       PROVE  Batches'
  BY <1>15, Still DEF SweepCycle, SweepAt, Update
<1>16. ASSUME NEW s \in Session, SweepSession(s)
       PROVE  Batches'
  BY <1>16, Still DEF SweepSession, SweepAt, Update
<1>17. CASE UNCHANGED vars
  BY <1>17, Still DEF vars
<1>18. QED
  BY <1>1, <1>2, <1>3, <1>4, <1>5, <1>6, <1>7, <1>8, <1>9, <1>10,
     <1>11, <1>12, <1>13, <1>14, <1>15, <1>16, <1>17
     DEF Next, Sweep

LEMMA OneSetup ==
    ASSUME Types, Requests, Retries
    PROVE  \A q, r \in waiting : q.kind = "setup" /\ r.kind = "setup" => q = r
<1> SUFFICES ASSUME NEW q \in waiting, NEW r \in waiting, q.kind = "setup", r.kind = "setup"
             PROVE  q = r
  OBVIOUS
<1>1. /\ q \in Request /\ at[q] # "none" /\ q.tests = {} /\ q.attempt \in {1, 2}
      /\ r \in Request /\ at[r] # "none" /\ r.tests = {} /\ r.attempt \in {1, 2}
  BY Awaited, Kinds DEF Types, Requests
<1>2. q = Setup(q.attempt) /\ r = Setup(r.attempt)
  BY <1>1, Named
<1>3. /\ q = Setup(1) => at[Setup(2)] = "none"
      /\ r = Setup(1) => at[Setup(2)] = "none"
  BY Twice DEF Retries
<1>4. QED
  BY <1>1, <1>2, <1>3

LEMMA RetriesKept ==
    ASSUME Types, Phases, Requests, Batches, Retries, [Next]_vars
    PROVE  Retries'
<1> USE DEF inputs, server, reporter, redis, docs
<1> USE DEF Phases, Types, Retries, Moved, Over
<1>1. \A r \in waiting : r \in Request /\ at[r] # "none"
              /\ \A q \in Again(r) : q \in Request /\ q.attempt = 2
  BY Awaited, Retried
<1> USE <1>1
<1>2. CASE Begin
  <2>1. Call("setup", {}) \in Request /\ Call("setup", {}).attempt = 1
    BY DEF Call, Request
  <2>2. \A q \in Again(Call("setup", {})) : q \in Request /\ q # Call("setup", {})
    BY ONLY <2>1, Retried
  <2>3. \A q \in Request : at[q] = "none"
    BY <1>2 DEF Requests, Begin
  <2>4. QED
    BY <1>2, <2>1, <2>2, <2>3, CallSend DEF Begin
<1>3. CASE Flush
  <2> DEFINE c == Call("event", queue)
  <2>1. c \in Request /\ c.kind = "event" /\ c.tests = queue /\ c.attempt = 1
    BY DEF Call, Request
  <2>2. Send(c)
    BY <1>3 DEF Flush
  <2> HIDE DEF c
  <2>3. \A q \in Again(c) : q \in Request /\ q.kind = "event" /\ q.tests = queue /\ q # c
    BY ONLY <2>1, Retried
  <2>4. \A q \in Again(c) : at[q] = "none"
    BY <2>3, <1>3 DEF Batches, Flush
  <2>5. QED
    BY <1>3, <2>4, <2>1, <2>2, <2>3, CallSend DEF Flush
<1>4. CASE End
  <2> DEFINE c == Call("event", queue)
  <2>1. c \in Request /\ c.kind = "event" /\ c.tests = queue /\ c.attempt = 1
    BY DEF Call, Request
  <2>2. queue # {} => Send(c)
    BY <1>4 DEF End
  <2> HIDE DEF c
  <2>3. CASE queue = {}
    BY <1>4, <2>3, Still DEF End
  <2>4. CASE queue # {}
    <3>1. \A q \in Again(c) : q \in Request /\ q.kind = "event" /\ q.tests = queue /\ q # c
      BY ONLY <2>1, Retried
    <3>2. \A q \in Again(c) : at[q] = "none"
      BY <2>4, <3>1, <1>4 DEF Batches
    <3>3. QED
      BY <1>4, <2>4, <2>1, <2>2, <3>2, <3>1, CallSend DEF End
  <2>5. QED
    BY <2>3, <2>4
<1>5. CASE PostTeardown
  <2>1. CASE sid = 0
    BY <1>5, <2>1, CallAbandon DEF PostTeardown
  <2>2. CASE sid # 0
    <3>1. Call("teardown", {}) \in Request /\ Call("teardown", {}).kind = "teardown"
          /\ Call("teardown", {}).attempt = 1
      BY DEF Call, Request
    <3>2. \A q \in Again(Call("teardown", {})) :
            q \in Request /\ q.kind = "teardown" /\ q # Call("teardown", {})
      BY ONLY <3>1, Retried
    <3>3. \A q \in Again(Call("teardown", {})) : at[q] = "none"
      BY <3>2, <1>5 DEF Requests, Before, PostTeardown
    <3>4. QED
      BY <1>5, <2>2, <3>1, <3>3, <3>2, CallSend DEF PostTeardown, Call
  <2>3. QED
    BY <2>1, <2>2
<1>6. CASE Exit
  BY <1>6, CallAbandon DEF Exit
<1>7. CASE CiKilled
  BY <1>7, CallAbandon DEF CiKilled
<1>8. ASSUME NEW t \in Test, TestEnds(t)
      PROVE  Retries'
  BY <1>8, Still DEF TestEnds
<1>9. ASSUME NEW r \in DOMAIN stage, Answer(r)
      PROVE  Retries'
  BY <1>9, CallAnswer, OneSetup DEF Answer
<1>10. ASSUME NEW r \in DOMAIN stage, Expire(r)
      PROVE  Retries'
  BY <1>10, CallExpire, RetriedOnce DEF Expire, Again, Request
<1>11. ASSUME NEW r \in DOMAIN stage, Serve(r)
      PROVE  Retries'
  <2> USE DEF Stage, InHandler, Over
  <2>1. CASE InsertCycle(r)
    BY <2>1, CallReach DEF InsertCycle
  <2>2. CASE InsertExecution(r)
    BY <2>2, CallReach DEF InsertExecution
  <2>3. CASE StoreSession(r)
    BY <2>3, CallReach DEF StoreSession
  <2>4. CASE Resolve(r)
    BY <2>4, CallResolve DEF Resolve
  <2>5. CASE PushResults(r)
    BY <2>5, CallReach DEF PushResults
  <2>6. CASE ReadResults(r)
    BY <2>6, CallReach DEF ReadResults
  <2>7. CASE Judge(r)
    BY <2>7, CallReach DEF Judge
  <2>8. CASE FinaliseExecution(r)
    BY <2>8, CallReach DEF FinaliseExecution
  <2>9. CASE FinaliseCycle(r)
    BY <2>9, CallReach DEF FinaliseCycle
  <2>10. CASE ArchiveSession(r)
    BY <2>10, CallReach DEF ArchiveSession
  <2>11. CASE HandlerFails(r)
    BY <2>11, CallFails DEF HandlerFails
  <2>12. CASE LoseRequest(r)
    BY <2>12, CallReach DEF LoseRequest
  <2>13. QED
    BY <1>11, <2>1, <2>2, <2>3, <2>4, <2>5, <2>6, <2>7, <2>8, <2>9,
       <2>10, <2>11, <2>12 DEF Serve
<1>12. CASE ProducerRestart
  BY <1>12, CallRestart DEF ProducerRestart, InHandler
<1>13. CASE Idle15
  BY <1>13, Still DEF Idle15
<1>14. CASE SweepFind
  BY <1>14, Still DEF SweepFind
<1>15. ASSUME NEW s \in Session, SweepExecution(s)
       PROVE  Retries'
  BY <1>15, Still DEF SweepExecution, SweepAt, Update
<1>16. ASSUME NEW s \in Session, SweepCycle(s)
       PROVE  Retries'
  BY <1>16, Still DEF SweepCycle, SweepAt, Update
<1>17. ASSUME NEW s \in Session, SweepSession(s)
       PROVE  Retries'
  BY <1>17, Still DEF SweepSession, SweepAt, Update
<1>18. CASE UNCHANGED vars
  BY <1>18, Still DEF vars
<1>19. QED
  BY <1>2, <1>3, <1>4, <1>5, <1>6, <1>7, <1>8, <1>9, <1>10, <1>11,
     <1>12, <1>13, <1>14, <1>15, <1>16, <1>17, <1>18
     DEF Next, Sweep

LEMMA TheSetup ==
    ASSUME Types, Requests
    PROVE  /\ \A s \in Session : /\ Setup(s) \in Request /\ Setup(s).kind = "setup"
                                 /\ Setup(s).attempt = s
           /\ \A r \in Request : r.kind = "setup" /\ at[r] # "none" =>
                                    r = Setup(r.attempt) /\ r.attempt \in Session
  BY Names, Named, Kinds DEF Requests, Session, Attempt

LEMMA TheTeardown ==
    ASSUME Types, Requests
    PROVE  /\ \A a \in Attempt : /\ Teardown(a) \in Request /\ Teardown(a).kind = "teardown"
                                 /\ Teardown(a).attempt = a
           /\ \A r \in Request : r.kind = "teardown" /\ at[r] # "none" =>
                                    r = Teardown(r.attempt) /\ r.attempt \in Attempt
  BY Names, Named, Kinds DEF Requests, Attempt

LEMMA JudgementsKept ==
    ASSUME Types, Phases, Requests, Judgements, [Next]_vars
    PROVE  Judgements'
<1> USE DEF inputs, server, reporter, redis, docs
<1> USE TheTeardown DEF Judgements, Moved
<1>1. Posted /\ faults \in Nat
  BY DEF Types
<1> USE <1>1
<1>2. CASE Begin
  <2>1. Call("setup", {}) \in Request /\ Call("setup", {}).kind = "setup"
    BY DEF Call, Request
  <2>2. QED
    BY <1>2, <2>1, CallSend DEF Begin
<1>3. CASE Flush
  <2>1. Call("event", queue) \in Request /\ Call("event", queue).kind = "event"
    BY DEF Call, Request, Types
  <2>2. QED
    BY <1>3, <2>1, CallSend DEF Flush
<1>4. CASE End
  <2>1. Call("event", queue) \in Request /\ Call("event", queue).kind = "event"
    BY DEF Call, Request, Types
  <2>2. \A q \in Request : q.kind # "event" => at'[q] = at[q]
    BY <1>4, <2>1, CallSend, Still DEF End
  <2>3. QED
    BY <1>4, <2>2 DEF End
<1>5. CASE PostTeardown
  <2>1. CASE sid = 0
    BY <1>5, <2>1, CallAbandon DEF PostTeardown, Over
  <2>2. CASE sid # 0
    <3>1. Call("teardown", {}) \in Request /\ Call("teardown", {}).kind = "teardown"
      BY DEF Call, Request
    <3>2. QED
      BY <1>5, <2>2, <3>1, CallSend DEF PostTeardown
  <2>3. QED
    BY <2>1, <2>2
<1>6. CASE Exit
  BY <1>6, CallAbandon DEF Exit, Over
<1>7. CASE CiKilled
  BY <1>7, CallAbandon DEF CiKilled, Over
<1>8. ASSUME NEW t \in Test, TestEnds(t)
      PROVE  Judgements'
  BY <1>8, Still DEF TestEnds
<1>9. ASSUME NEW r \in DOMAIN stage, Answer(r)
      PROVE  Judgements'
  BY <1>9, CallAnswer DEF Answer
<1>10. ASSUME NEW r \in DOMAIN stage, Expire(r)
      PROVE  Judgements'
  BY <1>10, CallExpire, Retried DEF Expire, Over
<1>11. ASSUME NEW r \in DOMAIN stage, Serve(r)
      PROVE  Judgements'
  <2> USE DEF Stage, InHandler, Over
  <2>1. CASE InsertCycle(r)
    BY <2>1, CallReach DEF InsertCycle
  <2>2. CASE InsertExecution(r)
    BY <2>2, CallReach DEF InsertExecution
  <2>3. CASE StoreSession(r)
    BY <2>3, CallReach DEF StoreSession
  <2>4. CASE Resolve(r)
    BY <2>4, CallResolve DEF Resolve
  <2>5. CASE PushResults(r)
    BY <2>5, CallReach DEF PushResults
  <2>6. CASE ReadResults(r)
    BY <2>6, CallReach DEF ReadResults
  <2>7. CASE Judge(r)
    <3>1. EffectiveStatus(r.attempt) # "none"
      BY <2>7, CallReach DEF Judge, EffectiveStatus, Requests
    <3>2. /\ r \in Request /\ at[r] # "none"
          /\ \/ Moved(r, "judged")
                /\ judged' = [judged EXCEPT ![r.attempt] = EffectiveStatus(r.attempt)]
             \/ judged' = judged
                /\ Moved(r, IF r \notin waiting THEN "none" ELSE "refused")
      BY <2>7, CallReach DEF Judge
    <3>3. r = Teardown(r.attempt) /\ r.attempt \in Attempt
      BY <2>7, <3>2, TheTeardown DEF Judge
    <3>4. QED
      BY <3>1, <3>2, <3>3 DEF Types, Attempt
  <2>8. CASE FinaliseExecution(r)
    BY <2>8, CallReach DEF FinaliseExecution, Types
  <2>9. CASE FinaliseCycle(r)
    BY <2>9, CallReach DEF FinaliseCycle, Types
  <2>10. CASE ArchiveSession(r)
    BY <2>10, CallReach DEF ArchiveSession
  <2>11. CASE HandlerFails(r)
    BY <2>11, CallFails DEF HandlerFails
  <2>12. CASE LoseRequest(r)
    BY <2>12, CallReach DEF LoseRequest
  <2>13. QED
    BY <1>11, <2>1, <2>2, <2>3, <2>4, <2>5, <2>6, <2>7, <2>8, <2>9,
       <2>10, <2>11, <2>12 DEF Serve
<1>12. CASE ProducerRestart
  BY <1>12, CallRestart DEF ProducerRestart, InHandler
<1>13. CASE Idle15
  BY <1>13, Still DEF Idle15
<1>14. CASE SweepFind
  BY <1>14, Still DEF SweepFind
<1>15. ASSUME NEW s \in Session, SweepExecution(s)
       PROVE  Judgements'
  BY <1>15, Still DEF SweepExecution, SweepAt, Update
<1>16. ASSUME NEW s \in Session, SweepCycle(s)
       PROVE  Judgements'
  BY <1>16, Still DEF SweepCycle, SweepAt, Update
<1>17. ASSUME NEW s \in Session, SweepSession(s)
       PROVE  Judgements'
  BY <1>17, Still DEF SweepSession, SweepAt, Update
<1>18. CASE UNCHANGED vars
  BY <1>18, Still DEF vars
<1>19. QED
  BY <1>2, <1>3, <1>4, <1>5, <1>6, <1>7, <1>8, <1>9, <1>10, <1>11,
     <1>12, <1>13, <1>14, <1>15, <1>16, <1>17, <1>18
     DEF Next, Sweep

LEMMA DocumentsKept ==
    ASSUME Types, Phases, Requests, Judgements, Documents, [Next]_vars
    PROVE  Documents'
<1> USE DEF inputs, server, reporter, redis, docs
<1> USE DEF Documents
<1>1. Posted /\ faults \in Nat
  BY DEF Types
<1> USE <1>1
<1>2. CASE Begin
  BY <1>2, CallSend DEF Begin, Call, Request
<1>3. CASE Flush
  BY <1>3, CallSend DEF Flush, Call, Request
<1>4. CASE End
  BY <1>4, CallSend DEF End, Call, Request
<1>5. CASE PostTeardown
  BY <1>5, CallSend, CallAbandon DEF PostTeardown, Call, Request
<1>6. CASE Exit
  BY <1>6, CallAbandon DEF Exit
<1>7. CASE CiKilled
  BY <1>7, CallAbandon DEF CiKilled
<1>8. ASSUME NEW t \in Test, TestEnds(t)
      PROVE  Documents'
  BY <1>8, Still DEF TestEnds
<1>9. ASSUME NEW r \in DOMAIN stage, Answer(r)
      PROVE  Documents'
  BY <1>9, CallAnswer DEF Answer
<1>10. ASSUME NEW r \in DOMAIN stage, Expire(r)
      PROVE  Documents'
  BY <1>10, CallExpire DEF Expire, Again, Request
<1>11. ASSUME NEW r \in DOMAIN stage, Serve(r)
      PROVE  Documents'
  <2> USE DEF Stage, InHandler, Over
  <2>1. CASE InsertCycle(r)
    BY <2>1, CallReach DEF InsertCycle
  <2>2. CASE InsertExecution(r)
    BY <2>2, CallReach DEF InsertExecution
  <2>3. CASE StoreSession(r)
    BY <2>3, CallReach DEF StoreSession
  <2>4. CASE Resolve(r)
    BY <2>4, CallResolve DEF Resolve
  <2>5. CASE PushResults(r)
    BY <2>5, CallReach DEF PushResults
  <2>6. CASE ReadResults(r)
    BY <2>6, CallReach DEF ReadResults
  <2>7. CASE Judge(r)
    BY <2>7, CallReach DEF Judge
  <2>8. CASE FinaliseExecution(r)
    <3>1. r \in Request /\ at[r] = "judged" /\ r.kind = "teardown"
      BY <2>8, CallReach DEF FinaliseExecution
    <3>2. r = Teardown(r.attempt) /\ r.attempt \in Attempt
      BY <3>1, TheTeardown
    <3>3. judged[r.attempt] \in {"PASSED", "FAILED"}
      BY <3>1, <3>2 DEF Judgements, Types, Attempt
    <3>4. QED
      BY <2>8, <3>3 DEF FinaliseExecution
  <2>9. CASE FinaliseCycle(r)
    <3>1. r \in Request /\ at[r] = "execDone" /\ r.kind = "teardown"
      BY <2>9, CallReach DEF FinaliseCycle
    <3>2. r = Teardown(r.attempt) /\ r.attempt \in Attempt
      BY <3>1, TheTeardown
    <3>3. judged[r.attempt] \in {"PASSED", "FAILED"}
      BY <3>1, <3>2 DEF Judgements, Types, Attempt
    <3>4. QED
      BY <2>9, <3>3 DEF FinaliseCycle
  <2>10. CASE ArchiveSession(r)
    BY <2>10, CallReach DEF ArchiveSession
  <2>11. CASE HandlerFails(r)
    BY <2>11, CallFails DEF HandlerFails
  <2>12. CASE LoseRequest(r)
    BY <2>12, CallReach DEF LoseRequest
  <2>13. QED
    BY <1>11, <2>1, <2>2, <2>3, <2>4, <2>5, <2>6, <2>7, <2>8, <2>9,
       <2>10, <2>11, <2>12 DEF Serve
<1>12. CASE ProducerRestart
  BY <1>12, CallRestart DEF ProducerRestart
<1>13. CASE Idle15
  BY <1>13, Still DEF Idle15
<1>14. CASE SweepFind
  BY <1>14, Still DEF SweepFind
<1>15. ASSUME NEW s \in Session, SweepExecution(s)
       PROVE  Documents'
  BY <1>15, Still DEF SweepExecution, SweepAt, Update
<1>16. ASSUME NEW s \in Session, SweepCycle(s)
       PROVE  Documents'
  BY <1>16, Still DEF SweepCycle, SweepAt, Update
<1>17. ASSUME NEW s \in Session, SweepSession(s)
       PROVE  Documents'
  BY <1>17, Still DEF SweepSession, SweepAt, Update
<1>18. CASE UNCHANGED vars
  BY <1>18, Still DEF vars
<1>19. QED
  BY <1>2, <1>3, <1>4, <1>5, <1>6, <1>7, <1>8, <1>9, <1>10, <1>11,
     <1>12, <1>13, <1>14, <1>15, <1>16, <1>17, <1>18
     DEF Next, Sweep

LEMMA SetupWritesKept ==
    ASSUME Types, Phases, Requests, Retries, Documents, SetupWrites, [Next]_vars
    PROVE  SetupWrites'
<1> USE DEF inputs, server, reporter, redis, docs
<1> USE DEF SetupWrites, Documents, Moved, Session
<1>1. Posted /\ faults \in Nat
  BY DEF Types
<1> USE <1>1
<1>2. /\ Setup(1) \in Request /\ Setup(1).kind = "setup" /\ Setup(1).attempt = 1
      /\ Setup(2) \in Request /\ Setup(2).kind = "setup" /\ Setup(2).attempt = 2
      /\ \A r \in Request : r.kind = "setup" /\ at[r] # "none" => r \in {Setup(1), Setup(2)}
  BY TheSetup DEF Session
<1>3. \A r \in Request : r.kind = "teardown" /\ at[r] # "none" =>
                            sid \in Session /\ rep # "idle" /\ Setup(1) \notin waiting
  BY <1>2 DEF Types, Requests, Retries
<1>4. cycle \in [Session -> {"ABSENT", "RUNNING", "COMPLETED"}] /\ sid \in {0} \cup Session
  BY DEF Types
<1> USE <1>2, <1>3, <1>4
<1>5. CASE Begin
  <2>1. Send(Setup(1))
    BY <1>5 DEF Begin, Call, Setup
  <2>2. QED
    BY <1>5, <2>1, CallSend DEF Begin
<1>6. CASE Flush
  <2>1. Call("event", queue) \in Request /\ Call("event", queue).kind = "event"
    BY DEF Call, Request, Types
  <2>2. QED
    BY <1>6, <2>1, CallSend DEF Flush
<1>7. CASE End
  <2>1. Call("event", queue) \in Request /\ Call("event", queue).kind = "event"
    BY DEF Call, Request, Types
  <2>2. \A q \in Request : q.kind # "event" => at'[q] = at[q]
    BY <1>7, <2>1, CallSend, Still DEF End
  <2>3. Setup(1) \in waiting' => Setup(1) \in waiting
    BY <1>7, <2>1, CallSend DEF End
  <2>4. QED
    BY <1>7, <2>2, <2>3 DEF End
<1>8. CASE PostTeardown
  <2>1. CASE sid = 0
    BY <1>8, <2>1, CallAbandon DEF PostTeardown, Over
  <2>2. CASE sid # 0
    <3>1. Call("teardown", {}) \in Request /\ Call("teardown", {}).kind = "teardown"
      BY DEF Call, Request
    <3>2. QED
      BY <1>8, <2>2, <3>1, CallSend DEF PostTeardown
  <2>3. QED
    BY <2>1, <2>2
<1>9. CASE Exit
  BY <1>9, CallAbandon DEF Exit, Over
<1>10. CASE CiKilled
  BY <1>10, CallAbandon DEF CiKilled, Over
<1>11. ASSUME NEW t \in Test, TestEnds(t)
      PROVE  SetupWrites'
  BY <1>11, Still DEF TestEnds
<1>12. ASSUME NEW r \in DOMAIN stage, Answer(r)
      PROVE  SetupWrites'
  BY <1>12, CallAnswer DEF Answer
<1>13. ASSUME NEW r \in DOMAIN stage, Expire(r)
      PROVE  SetupWrites'
  BY <1>13, CallExpire, Retried, Twice DEF Expire, Over
<1>14. ASSUME NEW r \in DOMAIN stage, Serve(r)
      PROVE  SetupWrites'
  <2> USE DEF Stage, InHandler, Over
  <2>1. CASE InsertCycle(r)
    <3>1. r \in Request /\ at[r] = "sent" /\ Moved(r, "cycled")
      BY <2>1, CallReach DEF InsertCycle
    <3>2. r.attempt \in Session /\ r = Setup(r.attempt) /\ exec[r.attempt] = "ABSENT"
          /\ rep # "idle"
      BY <2>1, <3>1 DEF InsertCycle, Requests
    <3>3. Setup(1) \in waiting => r = Setup(1)
      BY <2>1, <3>1, Twice DEF Retries, InsertCycle
    <3>4. /\ UNCHANGED <<exec, sw, rep, sid, waiting>>
          /\ cycle' = [cycle EXCEPT ![r.attempt] = "RUNNING"]
          /\ item' = [item EXCEPT ![r.attempt] = "RUNNING"]
      BY <2>1 DEF InsertCycle
    <3>5. CASE r = Setup(1)
      BY <3>1, <3>2, <3>4, <3>5
    <3>6. CASE r = Setup(2)
      BY <3>1, <3>2, <3>3, <3>4, <3>6
    <3>7. QED
      BY <3>2, <3>5, <3>6
  <2>2. CASE InsertExecution(r)
    BY <2>2, CallReach DEF InsertExecution
  <2>3. CASE StoreSession(r)
    BY <2>3, CallReach DEF StoreSession
  <2>4. CASE Resolve(r)
    BY <2>4, CallResolve DEF Resolve
  <2>5. CASE PushResults(r)
    BY <2>5, CallReach DEF PushResults
  <2>6. CASE ReadResults(r)
    BY <2>6, CallReach DEF ReadResults
  <2>7. CASE Judge(r)
    BY <2>7, CallReach DEF Judge
  <2>8. CASE FinaliseExecution(r)
    <3>1. r \in Request /\ r.kind = "teardown" /\ at[r] = "judged"
      BY <2>8, CallReach DEF FinaliseExecution
    <3>2. judged[r.attempt] # "ABSENT"
      BY <3>1, Kinds DEF Types
    <3>3. QED
      BY <2>8, <3>1, <3>2, CallReach DEF FinaliseExecution
  <2>9. CASE FinaliseCycle(r)
    BY <2>9, CallReach DEF FinaliseCycle
  <2>10. CASE ArchiveSession(r)
    BY <2>10, CallReach DEF ArchiveSession
  <2>11. CASE HandlerFails(r)
    BY <2>11, CallFails DEF HandlerFails
  <2>12. CASE LoseRequest(r)
    BY <2>12, CallReach DEF LoseRequest
  <2>13. QED
    BY <1>14, <2>1, <2>2, <2>3, <2>4, <2>5, <2>6, <2>7, <2>8, <2>9,
       <2>10, <2>11, <2>12 DEF Serve
<1>15. CASE ProducerRestart
  BY <1>15, CallRestart DEF ProducerRestart, InHandler, NoSweep
<1>16. CASE Idle15
  BY <1>16, Still DEF Idle15
<1>17. CASE SweepFind
  BY <1>17, Still DEF SweepFind, Frozen
<1>18. ASSUME NEW s \in Session, SweepExecution(s)
       PROVE  SetupWrites'
  BY <1>18, Still DEF SweepExecution, SweepAt, Update
<1>19. ASSUME NEW s \in Session, SweepCycle(s)
       PROVE  SetupWrites'
  BY <1>19, Still DEF SweepCycle, SweepAt, Update
<1>20. ASSUME NEW s \in Session, SweepSession(s)
       PROVE  SetupWrites'
  BY <1>20, Still DEF SweepSession, SweepAt, Update
<1>21. CASE UNCHANGED vars
  BY <1>21, Still DEF vars
<1>22. QED
  BY <1>5, <1>6, <1>7, <1>8, <1>9, <1>10, <1>11, <1>12, <1>13, <1>14,
     <1>15, <1>16, <1>17, <1>18, <1>19, <1>20, <1>21
     DEF Next, Sweep

LEMMA VerdictsKept ==
    ASSUME Types, Phases, Requests, Retries, Judgements, Documents, SetupWrites, Verdicts,
           [Next]_vars
    PROVE  Verdicts'
<1> USE DEF inputs, server, reporter, redis, docs
<1> USE DEF Verdicts, Closed, Final, Documents, Moved
<1>1. Posted /\ faults \in Nat
  BY DEF Types
<1>2. \A r \in waiting : r.kind = "setup" => sid = 0
  BY DEF Retries
<1> USE <1>1
<1>3. /\ \A a \in Attempt : Teardown(a) \in Request /\ Teardown(a).kind = "teardown"
      /\ \A r \in Request : r.kind = "teardown" /\ at[r] # "none" =>
            r.attempt \in Attempt /\ r = Teardown(r.attempt) /\ sid \in Session
  BY TheTeardown DEF Types, Requests
<1>4. \A r \in Request : r.kind = "setup" /\ at[r] = "cycled" =>
                           r.attempt \in Session /\ exec[r.attempt] = "ABSENT"
  BY TheSetup DEF SetupWrites
<1> USE <1>3, <1>4
<1>5. CASE Begin
  <2>1. Call("setup", {}) \in Request /\ Call("setup", {}).kind = "setup"
    BY DEF Call, Request
  <2>2. QED
    BY <1>5, <2>1, CallSend DEF Begin
<1>6. CASE Flush
  <2>1. Call("event", queue) \in Request /\ Call("event", queue).kind = "event"
    BY DEF Call, Request, Types
  <2>2. QED
    BY <1>6, <2>1, CallSend DEF Flush
<1>7. CASE End
  <2>1. Call("event", queue) \in Request /\ Call("event", queue).kind = "event"
    BY DEF Call, Request, Types
  <2>2. \A q \in Request : q.kind # "event" => at'[q] = at[q]
    BY <1>7, <2>1, CallSend, Still DEF End
  <2>3. QED
    BY <1>7, <2>2 DEF End
<1>8. CASE PostTeardown
  <2>1. CASE sid = 0
    BY <1>8, <2>1, CallAbandon DEF PostTeardown, Over
  <2>2. CASE sid # 0
    <3>1. Call("teardown", {}) \in Request /\ Call("teardown", {}).kind = "teardown"
      BY DEF Call, Request
    <3>2. QED
      BY <1>8, <2>2, <3>1, CallSend DEF PostTeardown
  <2>3. QED
    BY <2>1, <2>2
<1>9. CASE Exit
  BY <1>9, CallAbandon DEF Exit, Over
<1>10. CASE CiKilled
  BY <1>10, CallAbandon DEF CiKilled, Over
<1>11. ASSUME NEW t \in Test, TestEnds(t)
      PROVE  Verdicts'
  BY <1>11, Still DEF TestEnds
<1>12. ASSUME NEW r \in DOMAIN stage, Answer(r)
      PROVE  Verdicts'
  <2>1. /\ r \in Request /\ r \in waiting /\ Moved(r, "none")
        /\ sid' \in {sid, r.attempt}
        /\ sid' # sid => r.kind = "setup"
        /\ r.attempt # 0
    BY <1>12, CallAnswer, Kinds
  <2>2. CASE sid' = sid
    BY <1>12, <2>1, <2>2 DEF Answer
  <2>3. CASE sid' # sid
    <3>1. sid = 0 /\ sid' # 0
      BY <2>1, <2>3, <1>2
    <3>2. \A a \in Attempt : at[Teardown(a)] = "none"
      BY <3>1 DEF Session
    <3>3. QED
      BY <1>12, <2>1, <3>1, <3>2 DEF Answer
  <2>4. QED
    BY <2>2, <2>3
<1>13. ASSUME NEW r \in DOMAIN stage, Expire(r)
      PROVE  Verdicts'
  BY <1>13, CallExpire, Retried DEF Expire, Over
<1>14. ASSUME NEW r \in DOMAIN stage, Serve(r)
      PROVE  Verdicts'
  <2> USE DEF Stage, InHandler, Over
  <2>1. CASE InsertCycle(r)
    BY <2>1, CallReach DEF InsertCycle
  <2>2. CASE InsertExecution(r)
    BY <2>2, CallReach DEF InsertExecution
  <2>3. CASE StoreSession(r)
    BY <2>3, CallReach DEF StoreSession
  <2>4. CASE Resolve(r)
    BY <2>4, CallResolve DEF Resolve
  <2>5. CASE PushResults(r)
    BY <2>5, CallReach DEF PushResults
  <2>6. CASE ReadResults(r)
    BY <2>6, CallReach DEF ReadResults
  <2>7. CASE Judge(r)
    BY <2>7, CallReach DEF Judge
  <2>8. CASE FinaliseExecution(r)
    <3>1. /\ r \in Request /\ r.kind = "teardown" /\ at[r] = "judged"
          /\ Moved(r, "execDone")
      BY <2>8, CallReach DEF FinaliseExecution
    <3>2. judged[r.attempt] \in {"PASSED", "FAILED"}
      BY <3>1 DEF Types, Attempt, Judgements
    <3>3. /\ UNCHANGED <<sw, sid>> /\ sid \in Session
          /\ exec' = [exec EXCEPT ![sid] = judged[r.attempt]]
          /\ sid \in sw.todo => sid \in raced'
          /\ raced \subseteq raced'
      BY <2>8, <3>1 DEF FinaliseExecution
    <3>4. \A s \in Session : exec'[s] = IF s = sid THEN judged[r.attempt] ELSE exec[s]
      BY <3>3
    <3>5. \A a \in Attempt : at[Teardown(a)] \in {"execDone", "cycleDone"} => Closed(sid)
      BY <3>1, <3>2, <3>3, <3>4
    <3>6. \A s \in Session : s \in sw'.todo /\ Final(s)' => s \in raced'
      BY <3>2, <3>3, <3>4
    <3>7. sid' # 0
      BY <3>3 DEF Session
    <3>8. Closed(sid)'
      BY <3>2, <3>3, <3>4
    <3>9. QED
      BY <3>6, <3>7, <3>8

  <2>9. CASE FinaliseCycle(r)
    BY <2>9, CallReach DEF FinaliseCycle
  <2>10. CASE ArchiveSession(r)
    BY <2>10, CallReach DEF ArchiveSession
  <2>11. CASE HandlerFails(r)
    BY <2>11, CallFails DEF HandlerFails
  <2>12. CASE LoseRequest(r)
    BY <2>12, CallReach DEF LoseRequest
  <2>13. QED
    BY <1>14, <2>1, <2>2, <2>3, <2>4, <2>5, <2>6, <2>7, <2>8, <2>9,
       <2>10, <2>11, <2>12 DEF Serve
<1>15. CASE ProducerRestart
  BY <1>15, CallRestart DEF ProducerRestart, InHandler, NoSweep
<1>16. CASE Idle15
  BY <1>16, Still DEF Idle15
<1>17. CASE SweepFind
  BY <1>17, Still DEF SweepFind, Frozen
<1>18. ASSUME NEW s \in Session, SweepExecution(s)
       PROVE  Verdicts'
  BY <1>18, Still DEF SweepExecution, SweepAt, Update
<1>19. ASSUME NEW s \in Session, SweepCycle(s)
       PROVE  Verdicts'
  BY <1>19, Still DEF SweepCycle, SweepAt, Update
<1>20. ASSUME NEW s \in Session, SweepSession(s)
       PROVE  Verdicts'
  BY <1>20, Still DEF SweepSession, SweepAt, Update
<1>21. CASE UNCHANGED vars
  BY <1>21, Still DEF vars
<1>22. QED
  BY <1>5, <1>6, <1>7, <1>8, <1>9, <1>10, <1>11, <1>12, <1>13, <1>14,
     <1>15, <1>16, <1>17, <1>18, <1>19, <1>20, <1>21
     DEF Next, Sweep

LEMMA LoadType ==
    ASSUME NEW S
    PROVE  Load(S) \in 0..3
  BY DEF Load, Unit

LEMMA LoadShrinks ==
    ASSUME NEW S, Event(S, 1) \in waiting' => Event(S, 1) \in waiting,
           \A a \in Attempt : at'[Event(S, a)] \in Pending => at[Event(S, a)] \in Pending
    PROVE  Load(S)' <= Load(S)
  BY DEF Load, Unit, Attempt

LEMMA BudgetShrinks ==
    ASSUME Budget, results' = results, queue' \subseteq queue, pushed' = pushed,
           \A r \in waiting' : r.kind = "event" => r \in waiting,
           \A r \in Request : r.kind = "event" => (at'[r] \in Pending => at[r] \in Pending)
    PROVE  Budget'
<1>1. ASSUME NEW S \in SUBSET Test, NEW t \in S
      PROVE  results'[t] + Load(S)' <= 2
  <2>1. Load(S)' <= Load(S)
    BY Names, LoadShrinks DEF Attempt
  <2>2. results[t] \in Nat /\ results[t] + Load(S) <= 2 /\ results'[t] = results[t]
    BY DEF Budget
  <2>3. Load(S) \in Int /\ Load(S)' \in Int
    BY LoadType DEF Load, Unit
  <2>4. QED
    BY <2>1, <2>2, <2>3
<1>2. QED
  BY <1>1 DEF Budget

LEMMA BudgetSent ==
    ASSUME Types, Batches, Budget, Send(Event(queue, 1)), queue' = {}, queue # {},
           UNCHANGED <<pushed, results>>
    PROVE  Budget'
<1>1. Event(queue, 1) \in Request /\ queue \subseteq Test /\ Posted
  BY Names DEF Types, Attempt
<1>2. Moved(Event(queue, 1), "sent") /\ waiting' = waiting \cup {Event(queue, 1)}
  BY <1>1, CallSend
<1>3. ASSUME NEW S \in SUBSET Test, NEW t \in S
      PROVE  results'[t] + Load(S)' <= 2
  <2>1. /\ results[t] \in Nat /\ results[t] + Load(S) <= 2 /\ results'[t] = results[t]
        /\ t \in queue => results[t] = 0
    BY DEF Budget
  <2>2. Load(S) \in Int /\ Load(S)' \in Int
    BY LoadType DEF Load, Unit
  <2>3. \A a \in Attempt : /\ Event(S, a) \in Request /\ Event(S, a).kind = "event"
                           /\ Event(S, a).tests = S /\ Event(S, a).attempt = a
    BY ONLY Names, <1>3
  <2>4. CASE S = queue
    <3>1. Event(S, 2) # Event(queue, 1) /\ at[Event(S, 2)] = "none"
      BY <2>3, <2>4, Names, <1>1 DEF Batches, Attempt
    <3>2. at'[Event(S, 2)] = "none"
      BY <1>2, <2>3, <3>1 DEF Moved, Attempt
    <3>3. Load(S)' <= 2
      BY <3>2 DEF Load, Unit, Pending
    <3>4. QED
      BY <2>1, <2>2, <2>4, <3>3
  <2>5. CASE S # queue
    <3>1. \A a \in Attempt : Event(S, a) # Event(queue, 1)
      BY <2>3, <2>5, Names, <1>1 DEF Attempt
    <3>2. Load(S)' <= Load(S)
      BY <1>2, <2>3, <3>1, LoadShrinks DEF Moved, Attempt
    <3>3. QED
      BY <2>1, <2>2, <3>2
  <2>6. QED
    BY <2>4, <2>5
<1>4. QED
  BY <1>3 DEF Budget, Types

LEMMA BudgetKept ==
    ASSUME Types, Phases, Requests, Batches, Budget, [Next]_vars
    PROVE  Budget'
<1> USE DEF inputs, server, reporter, redis, docs
<1>1. Posted /\ faults \in Nat /\ pushed \subseteq Test /\ queue \subseteq pushed
  BY DEF Types
<1> USE <1>1
<1>2. CASE Begin
  <2>1. Call("setup", {}) \in Request /\ Call("setup", {}).kind = "setup"
    BY DEF Call, Request
  <2>2. \A r \in Request : r.kind = "event" => at'[r] = at[r]
    BY <1>2, <2>1, CallSend DEF Begin, Moved
  <2>3. QED
    BY <1>2, <2>1, <2>2, CallSend, BudgetShrinks DEF Begin
<1>3. CASE Flush
  <2>1. Send(Event(queue, 1)) /\ queue' = {} /\ queue # {} /\ UNCHANGED <<pushed, results>>
    BY <1>3 DEF Flush, Call, Event
  <2>2. QED
    BY <2>1, BudgetSent
<1>4. CASE End
  <2>1. CASE queue = {}
    BY <1>4, <2>1, Still, BudgetShrinks DEF End
  <2>2. CASE queue # {}
    <3>1. Send(Event(queue, 1)) /\ queue' = {} /\ UNCHANGED <<pushed, results>>
      BY <1>4, <2>2 DEF End, Call, Event
    <3>2. QED
      BY <2>2, <3>1, BudgetSent
  <2>3. QED
    BY <2>1, <2>2
<1>5. CASE PostTeardown
  <2>1. CASE sid = 0
    BY <1>5, <2>1, CallAbandon, BudgetShrinks DEF PostTeardown, Over, Pending
  <2>2. CASE sid # 0
    <3>1. Call("teardown", {}) \in Request /\ Call("teardown", {}).kind = "teardown"
      BY DEF Call, Request
    <3>2. \A r \in Request : r.kind = "event" => at'[r] = at[r]
      BY <1>5, <2>2, <3>1, CallSend DEF PostTeardown, Moved
    <3>3. QED
      BY <1>5, <2>2, <3>1, <3>2, CallSend, BudgetShrinks DEF PostTeardown
  <2>3. QED
    BY <2>1, <2>2
<1>6. CASE Exit
  BY <1>6, CallAbandon, BudgetShrinks DEF Exit, Over, Pending
<1>7. CASE CiKilled
  BY <1>7, CallAbandon, BudgetShrinks DEF CiKilled, Over, Pending
<1>8. ASSUME NEW t \in Test, TestEnds(t)
      PROVE  Budget'
  <2>1. \A S \in SUBSET Test : Load(S)' = Load(S)
    BY <1>8, Still DEF TestEnds, Load
  <2>2. results' = results
          /\ \A u \in Test : u \in queue' \/ u \notin pushed' => u \in queue \/ u \notin pushed
    BY <1>8 DEF TestEnds, Batches
  <2>3. QED
    BY <2>1, <2>2 DEF Budget
<1>9. ASSUME NEW r \in DOMAIN stage, Answer(r)
      PROVE  Budget'
  BY <1>9, CallAnswer, BudgetShrinks DEF Answer, Moved, Pending
<1>10. ASSUME NEW r \in DOMAIN stage, Expire(r)
      PROVE  Budget'
  <2>1. /\ r \in Request /\ r \in waiting /\ r \notin waiting'
        /\ waiting' = (waiting \ {r}) \cup Again(r)
        /\ \A q \in Request : at'[q] = IF q \in Again(r) THEN "sent"
                                   ELSE IF q = r /\ at[r] \in Over THEN "none" ELSE at[q]
    BY <1>10, CallExpire, Retried
  <2>2. UNCHANGED <<results, queue, pushed>>
    BY <1>10 DEF Expire
  <2>3. ASSUME NEW S \in SUBSET Test
        PROVE  Load(S)' <= Load(S)
    <3>1. Event(S, 1) \in Request /\ Event(S, 2) \in Request
      BY Names DEF Attempt
    <3>2. Event(S, 1) \notin Again(r) /\ Event(S, 2) # Event(S, 1)
      BY <2>1, Retried, Names DEF Attempt
    <3>3. CASE r = Event(S, 1)
      BY <2>1, <3>1, <3>2, <3>3 DEF Load, Unit, Pending, Over
    <3>4. CASE r # Event(S, 1)
      <4>1. Event(S, 2) \notin Again(r)
        BY <2>1, <3>1, <3>4, Twice, RetriedOnce
      <4>2. QED
        BY <2>1, <3>1, <3>2, <4>1 DEF Load, Unit, Pending, Over
    <3>5. QED
      BY <3>3, <3>4
  <2>4. ASSUME NEW S \in SUBSET Test, NEW t \in S
        PROVE  results'[t] + Load(S)' <= 2
    <3>1. Load(S)' <= Load(S)
      BY <2>3
    <3>2. results[t] \in Nat /\ results[t] + Load(S) <= 2 /\ results'[t] = results[t]
      BY <2>2 DEF Budget
    <3>3. Load(S) \in Int /\ Load(S)' \in Int
      BY LoadType DEF Load, Unit
    <3>4. QED
      BY <3>1, <3>2, <3>3
  <2>5. QED
    BY <2>2, <2>4 DEF Budget
<1>11. ASSUME NEW r \in DOMAIN stage, Serve(r)
      PROVE  Budget'
  <2> USE DEF Stage, InHandler, Over, Pending
  <2>1. CASE InsertCycle(r)
    BY <2>1, CallReach, BudgetShrinks DEF InsertCycle, Moved
  <2>2. CASE InsertExecution(r)
    BY <2>2, CallReach, BudgetShrinks DEF InsertExecution, Moved
  <2>3. CASE StoreSession(r)
    BY <2>3, CallReach, BudgetShrinks DEF StoreSession, Moved
  <2>4. CASE Resolve(r)
    BY <2>4, CallResolve, BudgetShrinks DEF Resolve, Moved
  <2>5. CASE PushResults(r)
    <3>1. /\ r \in Request /\ r.kind = "event" /\ r = Event(r.tests, r.attempt)
          /\ r.attempt \in Attempt /\ at[r] = "resolved"
      BY <2>5, CallReach, Kinds, Named DEF PushResults, Attempt
    <3>2. \A q \in Request : at'[q] \in Pending => at[q] \in Pending /\ q # r
      BY <2>5, CallReach DEF PushResults, Moved
    <3>3. UNCHANGED <<waiting, queue, pushed>>
      BY <2>5 DEF PushResults
    <3>4. CASE results' = results
      BY <3>2, <3>3, <3>4, BudgetShrinks
    <3>5. ASSUME results' = [u \in Test |-> results[u] + (IF u \in r.tests THEN 1 ELSE 0)],
                 NEW S \in SUBSET Test, NEW t \in S
          PROVE  results'[t] + Load(S)' <= 2
      <4>1. Load(S)' <= Load(S)
        BY <3>2, <3>3, Names, LoadShrinks DEF Attempt
      <4>2. results[t] \in Nat /\ results[t] + Load(S) <= 2
        BY DEF Budget
      <4>3. Load(S) \in Int /\ Load(S)' \in Int
        BY LoadType DEF Load, Unit
      <4>4. CASE t \notin r.tests
        BY <3>5, <4>1, <4>2, <4>3, <4>4
      <4>5. CASE t \in r.tests /\ S = r.tests
        <5>1. Load(S)' <= Load(S) - 1
          BY <3>1, <3>2, <3>3, <4>5, Names DEF Load, Unit, Attempt
        <5>2. QED
          BY <3>5, <4>2, <4>3, <4>5, <5>1
      <4>6. CASE t \in r.tests /\ S # r.tests
        <5>1. \A a \in Attempt : /\ Event(S, a) \in Request /\ Event(S, a).kind = "event"
                                 /\ Event(S, a).tests = S
          BY ONLY Names, <3>5
        <5>2. \A a \in Attempt : Event(S, a) \in Request /\ at[Event(S, a)] = "none"
          BY <3>1, <4>6, <5>1 DEF Batches
        <5>3. Load(S)' = 0
          BY <3>2, <3>3, <5>2, Awaited DEF Load, Unit, Attempt
        <5>4. r.tests \in SUBSET Test /\ results[t] + Load(r.tests) <= 2
          BY <3>1, <4>6, Kinds DEF Budget
        <5>5. Load(r.tests) \in Int /\ Load(r.tests) >= 1
          BY <3>1, LoadType DEF Load, Unit, Attempt
        <5>6. QED
          BY <3>5, <4>2, <4>6, <5>3, <5>4, <5>5
      <4>7. QED
        BY <4>4, <4>5, <4>6
    <3>6. ASSUME results' = [u \in Test |-> results[u] + (IF u \in r.tests THEN 1 ELSE 0)],
                 NEW t \in Test
          PROVE  /\ results'[t] \in Nat
                 /\ t \in queue' \/ t \notin pushed' => results'[t] = 0
      BY <3>1, <3>3, <3>6 DEF Budget, Batches
    <3>7. QED
      BY <2>5, <3>3, <3>4, <3>5, <3>6 DEF PushResults, Budget
  <2>6. CASE ReadResults(r)
    BY <2>6, CallReach, BudgetShrinks DEF ReadResults, Moved
  <2>7. CASE Judge(r)
    BY <2>7, CallReach, BudgetShrinks DEF Judge, Moved
  <2>8. CASE FinaliseExecution(r)
    BY <2>8, CallReach, BudgetShrinks DEF FinaliseExecution, Moved
  <2>9. CASE FinaliseCycle(r)
    BY <2>9, CallReach, BudgetShrinks DEF FinaliseCycle, Moved
  <2>10. CASE ArchiveSession(r)
    <3>1. \A q \in Request : at'[q] \in Pending => at[q] \in Pending
      BY <2>10, CallReach DEF ArchiveSession, Moved
    <3>2. results' = results \/ results' = NoResults
      BY <2>10 DEF ArchiveSession
    <3>3. UNCHANGED <<waiting, queue, pushed>>
      BY <2>10 DEF ArchiveSession
    <3>4. CASE results' = results
      BY <3>1, <3>3, <3>4, BudgetShrinks
    <3>5. ASSUME results' = NoResults, NEW S \in SUBSET Test, NEW t \in S
          PROVE  results'[t] + Load(S)' <= 2
      <4>1. Load(S)' <= Load(S)
        BY <3>1, <3>3, Names, LoadShrinks DEF Attempt
      <4>2. results[t] \in Nat /\ results[t] + Load(S) <= 2 /\ results'[t] = 0
        BY <3>5 DEF Budget, NoResults
      <4>3. Load(S) \in Int /\ Load(S)' \in Int
        BY LoadType DEF Load, Unit
      <4>4. QED
        BY <4>1, <4>2, <4>3
    <3>6. QED
      BY <3>2, <3>3, <3>4, <3>5 DEF Budget, NoResults
  <2>11. CASE HandlerFails(r)
    BY <2>11, CallFails, BudgetShrinks DEF HandlerFails, Moved, server
  <2>12. CASE LoseRequest(r)
    BY <2>12, CallReach, BudgetShrinks DEF LoseRequest, Moved, server
  <2>13. QED
    BY <1>11, <2>1, <2>2, <2>3, <2>4, <2>5, <2>6, <2>7, <2>8, <2>9,
       <2>10, <2>11, <2>12 DEF Serve
<1>12. CASE ProducerRestart
  BY <1>12, CallRestart, BudgetShrinks DEF ProducerRestart, InHandler, Pending
<1>13. CASE Idle15
  BY <1>13, Still, BudgetShrinks DEF Idle15
<1>14. CASE SweepFind
  BY <1>14, Still, BudgetShrinks DEF SweepFind
<1>15. ASSUME NEW s \in Session, SweepExecution(s)
       PROVE  Budget'
  BY <1>15, Still, BudgetShrinks DEF SweepExecution
<1>16. ASSUME NEW s \in Session, SweepCycle(s)
       PROVE  Budget'
  BY <1>16, Still, BudgetShrinks DEF SweepCycle
<1>17. ASSUME NEW s \in Session, SweepSession(s)
       PROVE  Budget'
  BY <1>17, Still, BudgetShrinks DEF SweepSession
<1>18. CASE UNCHANGED vars
  BY <1>18, Still, BudgetShrinks DEF vars
<1>19. QED
  BY <1>2, <1>3, <1>4, <1>5, <1>6, <1>7, <1>8, <1>9, <1>10, <1>11,
     <1>12, <1>13, <1>14, <1>15, <1>16, <1>17, <1>18
     DEF Next, Sweep

LEMMA AgreementStays ==
    ASSUME Agreement, UNCHANGED <<exec, cycle, sw>>, faults' = 0 => faults = 0,
           \A s \in Session : at[Setup(s)] = "cycled" => at'[Setup(s)] = "cycled",
           \A a \in Attempt : at[Teardown(a)] = "execDone" =>
                                 at'[Teardown(a)] = "execDone" /\ sid' = sid
    PROVE  Agreement'
  BY DEF Agreement, Agrees, Closed, Swept

LEMMA AgreementKept ==
    ASSUME Types, Phases, Requests, Retries, Judgements, Documents, SetupWrites, Verdicts,
           Agreement, [Next]_vars
    PROVE  Agreement'
<1> USE DEF inputs, server, reporter, redis, docs
<1> USE AgreementStays DEF Moved
<1>1. Posted /\ faults \in Nat
  BY DEF Types
<1> USE <1>1
<1>2. /\ \A a \in Attempt : Teardown(a) \in Request /\ Teardown(a).kind = "teardown"
      /\ \A r \in Request : r.kind = "teardown" /\ at[r] # "none" =>
            r.attempt \in Attempt /\ r = Teardown(r.attempt) /\ sid \in Session
  BY TheTeardown DEF Types, Requests
<1>3. \A s \in Session : Setup(s) \in Request /\ Setup(s).kind = "setup" /\ Setup(s).attempt = s
  BY TheSetup
<1>4. \A r \in Request : r.kind = "setup" /\ at[r] # "none" =>
                           r.attempt \in Session /\ r = Setup(r.attempt)
  BY TheSetup
<1>5. /\ cycle \in [Session -> {"ABSENT", "RUNNING", "COMPLETED"}]
      /\ sid \in {0} \cup Session
  BY DEF Types
<1> USE <1>2, <1>3, <1>4, <1>5
<1>6. CASE Begin
  <2>1. Call("setup", {}) \in Request /\ Call("setup", {}).kind = "setup"
    BY DEF Call, Request
  <2>2. QED
    BY <1>6, <2>1, CallSend DEF Begin, Requests
<1>7. CASE Flush
  <2>1. Call("event", queue) \in Request /\ Call("event", queue).kind = "event"
    BY DEF Call, Request, Types
  <2>2. QED
    BY <1>7, <2>1, CallSend DEF Flush
<1>8. CASE End
  <2>1. Call("event", queue) \in Request /\ Call("event", queue).kind = "event"
    BY DEF Call, Request, Types
  <2>2. \A q \in Request : q.kind # "event" => at'[q] = at[q]
    BY <1>8, <2>1, CallSend, Still DEF End
  <2>3. QED
    BY <1>8, <2>2 DEF End
<1>9. CASE PostTeardown
  <2>1. CASE sid = 0
    BY <1>9, <2>1, CallAbandon DEF PostTeardown, Over
  <2>2. CASE sid # 0
    <3>1. Call("teardown", {}) \in Request /\ Call("teardown", {}).kind = "teardown"
      BY DEF Call, Request
    <3>2. QED
      BY <1>9, <2>2, <3>1, CallSend DEF PostTeardown, Requests, Before
  <2>3. QED
    BY <2>1, <2>2
<1>10. CASE Exit
  BY <1>10, CallAbandon DEF Exit, Over
<1>11. CASE CiKilled
  BY <1>11, CallAbandon DEF CiKilled, Over
<1>12. ASSUME NEW t \in Test, TestEnds(t)
      PROVE  Agreement'
  BY <1>12, Still DEF TestEnds
<1>13. ASSUME NEW r \in DOMAIN stage, Answer(r)
      PROVE  Agreement'
  <2>1. /\ r \in Request /\ r \in waiting /\ at[r] \in {"ok", "refused"} /\ Moved(r, "none")
        /\ sid' # sid => r.kind = "setup"
    BY <1>13, CallAnswer
  <2>2. sid' # sid => sid = 0
    BY <2>1 DEF Retries
  <2>3. QED
    BY <1>13, <2>1, <2>2 DEF Answer, Session
<1>14. ASSUME NEW r \in DOMAIN stage, Expire(r)
      PROVE  Agreement'
  BY <1>14, CallExpire, Retried DEF Expire, Over, Retries
<1>15. ASSUME NEW r \in DOMAIN stage, Serve(r)
      PROVE  Agreement'
  <2> USE DEF Stage, InHandler, Over
  <2>1. CASE InsertCycle(r)
    <3>1. ASSUME NEW s1 \in Session, faults' = 0
          PROVE  Agrees(s1)'
      <4>1. /\ faults = 0 /\ r = Setup(r.attempt) /\ r.attempt \in Session
            /\ exec[r.attempt] = "ABSENT" /\ Moved(r, "cycled")
            /\ UNCHANGED <<exec, sw, sid>> /\ cycle' = [cycle EXCEPT ![r.attempt] = "RUNNING"]
        BY <2>1, <3>1, CallReach DEF InsertCycle, SetupWrites
      <4>2. Agrees(s1)
        BY <4>1 DEF Agreement
      <4>3. QED
        BY <4>1, <4>2, <3>1 DEF Agrees, Swept, Closed, Documents, Session
    <3>2. QED
      BY <3>1 DEF Agreement
  <2>2. CASE InsertExecution(r)
    <3>1. ASSUME NEW s1 \in Session, faults' = 0
          PROVE  Agrees(s1)'
      <4>1. /\ faults = 0 /\ r = Setup(r.attempt) /\ r.attempt \in Session
            /\ exec[r.attempt] = "ABSENT" /\ cycle[r.attempt] = "RUNNING"
            /\ Moved(r, "recorded") /\ r.kind = "setup"
            /\ UNCHANGED <<cycle, sw, sid>> /\ exec' = [exec EXCEPT ![r.attempt] = "RUNNING"]
        BY <2>2, <3>1, CallReach DEF InsertExecution, SetupWrites
      <4>2. Agrees(s1)
        BY <4>1 DEF Agreement
      <4>3. QED
        BY <4>1, <4>2, <3>1 DEF Agrees, Swept, Closed, Documents, Session
    <3>2. QED
      BY <3>1 DEF Agreement
  <2>3. CASE StoreSession(r)
    BY <2>3, CallReach DEF StoreSession
  <2>4. CASE Resolve(r)
    BY <2>4, CallResolve DEF Resolve
  <2>5. CASE PushResults(r)
    BY <2>5, CallReach DEF PushResults
  <2>6. CASE ReadResults(r)
    BY <2>6, CallReach DEF ReadResults
  <2>7. CASE Judge(r)
    BY <2>7, CallReach DEF Judge
  <2>8. CASE FinaliseExecution(r)
    <3>1. ASSUME NEW s1 \in Session, faults' = 0
          PROVE  Agrees(s1)'
      <4>1. /\ faults = 0 /\ r \in Request /\ r = Teardown(r.attempt) /\ r.attempt \in Attempt
            /\ at[r] = "judged" /\ Moved(r, "execDone") /\ sid \in Session
            /\ UNCHANGED <<cycle, sw, sid>> /\ exec' = [exec EXCEPT ![sid] = judged[r.attempt]]
        BY <2>8, <3>1, CallReach DEF FinaliseExecution
      <4>2. Agrees(s1)
        BY <4>1 DEF Agreement
      <4>3. judged[r.attempt] \in {"PASSED", "FAILED"} /\ exec[sid] # "ABSENT"
        BY <4>1 DEF Judgements, Types, Attempt, SetupWrites, Session
      <4>4. QED
        BY <4>1, <4>2, <4>3, <3>1 DEF Agrees, Swept, Closed, Documents, Session
    <3>2. QED
      BY <3>1 DEF Agreement
  <2>9. CASE FinaliseCycle(r)
    <3>1. ASSUME NEW s1 \in Session, faults' = 0
          PROVE  Agrees(s1)'
      <4>1. /\ faults = 0 /\ r = Teardown(r.attempt) /\ r.attempt \in Attempt
            /\ sid \in Session /\ Closed(sid) /\ Moved(r, "cycleDone")
            /\ UNCHANGED <<exec, sw, sid>> /\ cycle' = [cycle EXCEPT ![sid] = "COMPLETED"]
        BY <2>9, <3>1, CallReach DEF FinaliseCycle, Verdicts
      <4>2. Agrees(s1)
        BY <4>1 DEF Agreement
      <4>3. QED
        BY <4>1, <4>2, <3>1 DEF Agrees, Swept, Closed, Documents, Session
    <3>2. QED
      BY <3>1 DEF Agreement
  <2>10. CASE ArchiveSession(r)
    BY <2>10, CallReach DEF ArchiveSession
  <2>11. CASE HandlerFails(r)
    <3>1. faults' # 0
      BY <2>11 DEF HandlerFails
    <3>2. QED
      BY <3>1 DEF Agreement
  <2>12. CASE LoseRequest(r)
    BY <2>12, CallReach DEF LoseRequest
  <2>13. QED
    BY <1>15, <2>1, <2>2, <2>3, <2>4, <2>5, <2>6, <2>7, <2>8, <2>9,
       <2>10, <2>11, <2>12 DEF Serve
<1>16. CASE ProducerRestart
  <2>1. faults' # 0
    BY <1>16 DEF ProducerRestart
  <2>2. QED
    BY <2>1 DEF Agreement
<1>17. CASE Idle15
  BY <1>17, Still DEF Idle15
<1>18. CASE SweepFind
  <2>1. ASSUME NEW s1 \in Session, faults' = 0
        PROVE  Agrees(s1)'
    <3>1. /\ faults = 0 /\ UNCHANGED <<exec, cycle, sid>> /\ at' = at
          /\ sw.pc = "idle" /\ sw'.pc = "exec"
      BY <1>18, <2>1, Still DEF SweepFind
    <3>2. Agrees(s1)
      BY <3>1 DEF Agreement
    <3>3. QED
      BY <3>1, <3>2, <2>1 DEF Agrees, Swept, Closed, Documents, Session
  <2>2. QED
    BY <2>1 DEF Agreement
<1>19. ASSUME NEW s \in Session, SweepExecution(s)
       PROVE  Agreement'
  <2>1. ASSUME NEW s1 \in Session, faults' = 0
        PROVE  Agrees(s1)'
    <3>1. /\ faults = 0 /\ Swept(s) /\ sw.pc = "exec" /\ sw'.pc = "cycle" /\ sw'.todo = sw.todo
          /\ UNCHANGED <<cycle, sid>> /\ exec' = [exec EXCEPT ![s] = "ERROR"] /\ at' = at
          /\ exec[s] # "ABSENT"
      BY <1>19, <2>1, Still DEF SweepExecution, SweepAt, Update, Types, Swept, SetupWrites
    <3>2. Agrees(s1)
      BY <3>1 DEF Agreement
    <3>3. QED
      BY <3>1, <3>2, <2>1 DEF Agrees, Swept, Closed, Documents, Session
  <2>2. QED
    BY <2>1 DEF Agreement
<1>20. ASSUME NEW s \in Session, SweepCycle(s)
       PROVE  Agreement'
  <2>1. ASSUME NEW s1 \in Session, faults' = 0
        PROVE  Agrees(s1)'
    <3>1. /\ faults = 0 /\ Swept(s) /\ sw.pc = "cycle" /\ sw'.pc = "sessions" /\ sw'.todo = sw.todo
          /\ UNCHANGED <<exec, sid>> /\ cycle' = [cycle EXCEPT ![s] = "COMPLETED"] /\ at' = at
          /\ Closed(s)
      BY <1>20, <2>1, Still DEF SweepCycle, SweepAt, Update, Types, Swept, Agreement, Agrees
    <3>2. Agrees(s1)
      BY <3>1 DEF Agreement
    <3>3. QED
      BY <3>1, <3>2, <2>1 DEF Agrees, Swept, Closed, Documents, Session
  <2>2. QED
    BY <2>1 DEF Agreement
<1>21. ASSUME NEW s \in Session, SweepSession(s)
       PROVE  Agreement'
  <2>1. ASSUME NEW s1 \in Session, faults' = 0
        PROVE  Agrees(s1)'
    <3>1. /\ faults = 0 /\ UNCHANGED <<exec, cycle, sid>> /\ at' = at
          /\ sw.pc = "sessions" /\ sw'.pc \in {"idle", "exec"}
      BY <1>21, <2>1, Still DEF SweepSession, SweepAt, Update, Types
    <3>2. Agrees(s1)
      BY <3>1 DEF Agreement
    <3>3. QED
      BY <3>1, <3>2, <2>1 DEF Agrees, Swept, Closed, Documents, Session
  <2>2. QED
    BY <2>1 DEF Agreement
<1>22. CASE UNCHANGED vars
  BY <1>22, Still DEF vars
<1>23. QED
  BY <1>6, <1>7, <1>8, <1>9, <1>10, <1>11, <1>12, <1>13, <1>14, <1>15,
     <1>16, <1>17, <1>18, <1>19, <1>20, <1>21, <1>22
     DEF Next, Sweep

LEMMA QuietBefore ==
    ASSUME Types, [Next]_vars
    PROVE  Quiet' => Quiet
<1> USE DEF inputs, server, reporter, redis, docs
<1>1. Posted /\ faults \in Nat /\ timeouts \in Nat
  BY DEF Types
<1> USE <1>1 DEF Quiet
<1>2. CASE Begin
  BY <1>2 DEF Begin, Call, Request
<1>3. CASE Flush
  BY <1>3 DEF Flush, Call, Request
<1>4. CASE End
  BY <1>4 DEF End, Call, Request
<1>5. CASE PostTeardown
  BY <1>5 DEF PostTeardown, Call, Request
<1>6. CASE Exit
  BY <1>6 DEF Exit
<1>7. CASE CiKilled
  BY <1>7 DEF CiKilled
<1>8. ASSUME NEW t \in Test, TestEnds(t)
      PROVE  Quiet' => Quiet
  BY <1>8, Still DEF TestEnds
<1>9. ASSUME NEW r \in DOMAIN stage, Answer(r)
      PROVE  Quiet' => Quiet
  BY <1>9 DEF Answer
<1>10. ASSUME NEW r \in DOMAIN stage, Expire(r)
      PROVE  Quiet' => Quiet
  BY <1>10, CallExpire DEF Expire, Again, Request
<1>11. ASSUME NEW r \in DOMAIN stage, Serve(r)
      PROVE  Quiet' => Quiet
  <2> USE DEF Stage, InHandler, Over
  <2>1. CASE InsertCycle(r)
    BY <2>1 DEF InsertCycle
  <2>2. CASE InsertExecution(r)
    BY <2>2 DEF InsertExecution
  <2>3. CASE StoreSession(r)
    BY <2>3 DEF StoreSession
  <2>4. CASE Resolve(r)
    BY <2>4 DEF Resolve
  <2>5. CASE PushResults(r)
    BY <2>5 DEF PushResults
  <2>6. CASE ReadResults(r)
    BY <2>6 DEF ReadResults
  <2>7. CASE Judge(r)
    BY <2>7 DEF Judge
  <2>8. CASE FinaliseExecution(r)
    BY <2>8 DEF FinaliseExecution
  <2>9. CASE FinaliseCycle(r)
    BY <2>9 DEF FinaliseCycle
  <2>10. CASE ArchiveSession(r)
    BY <2>10 DEF ArchiveSession
  <2>11. CASE HandlerFails(r)
    BY <2>11 DEF HandlerFails
  <2>12. CASE LoseRequest(r)
    BY <2>12 DEF LoseRequest
  <2>13. QED
    BY <1>11, <2>1, <2>2, <2>3, <2>4, <2>5, <2>6, <2>7, <2>8, <2>9,
       <2>10, <2>11, <2>12 DEF Serve
<1>12. CASE ProducerRestart
  BY <1>12, CallRestart DEF ProducerRestart
<1>13. CASE Idle15
  BY <1>13, Still DEF Idle15
<1>14. CASE SweepFind
  BY <1>14, Still DEF SweepFind
<1>15. ASSUME NEW s \in Session, SweepExecution(s)
       PROVE  Quiet' => Quiet
  BY <1>15, Still DEF SweepExecution, SweepAt, Update
<1>16. ASSUME NEW s \in Session, SweepCycle(s)
       PROVE  Quiet' => Quiet
  BY <1>16, Still DEF SweepCycle, SweepAt, Update
<1>17. ASSUME NEW s \in Session, SweepSession(s)
       PROVE  Quiet' => Quiet
  BY <1>17, Still DEF SweepSession, SweepAt, Update
<1>18. CASE UNCHANGED vars
  BY <1>18, Still DEF vars
<1>19. QED
  BY <1>2, <1>3, <1>4, <1>5, <1>6, <1>7, <1>8, <1>9, <1>10, <1>11,
     <1>12, <1>13, <1>14, <1>15, <1>16, <1>17, <1>18
     DEF Next, Sweep

LEMMA UnrepeatedKept ==
    ASSUME Types, Unrepeated, [Next]_vars
    PROVE  Unrepeated'
<1> USE DEF inputs, server, reporter, redis, docs
<1> USE DEF Moved
<1> SUFFICES ASSUME Quiet'
             PROVE  Unrepeated'
  BY DEF Unrepeated
<1>1. Posted /\ Quiet /\ faults = 0 /\ timeouts = 0 /\ faults' = 0 /\ timeouts' = 0
  BY QuietBefore DEF Types, Quiet
<1> USE <1>1 DEF Unrepeated
<1>2. CASE Begin
  <2>1. Call("setup", {}) \in Request /\ Call("setup", {}).attempt = 1
    BY DEF Call, Request
  <2>2. QED
    BY <1>2, <2>1, CallSend DEF Begin
<1>3. CASE Flush
  <2>1. Call("event", queue) \in Request /\ Call("event", queue).attempt = 1
    BY DEF Call, Request, Types
  <2>2. QED
    BY <1>3, <2>1, CallSend DEF Flush
<1>4. CASE End
  <2>1. Call("event", queue) \in Request /\ Call("event", queue).attempt = 1
    BY DEF Call, Request, Types
  <2>2. CASE queue = {}
    BY <1>4, <2>2, Still DEF End
  <2>3. CASE queue # {}
    BY <1>4, <2>1, <2>3, CallSend DEF End
  <2>4. QED
    BY <2>2, <2>3
<1>5. CASE PostTeardown
  <2>1. CASE sid = 0
    BY <1>5, <2>1, CallAbandon DEF PostTeardown, Over
  <2>2. CASE sid # 0
    <3>1. Call("teardown", {}) \in Request /\ Call("teardown", {}).attempt = 1
      BY DEF Call, Request
    <3>2. QED
      BY <1>5, <2>2, <3>1, CallSend DEF PostTeardown
  <2>3. QED
    BY <2>1, <2>2
<1>6. CASE Exit
  BY <1>6, CallAbandon DEF Exit, Over
<1>7. CASE CiKilled
  BY <1>7, CallAbandon DEF CiKilled, Over
<1>8. ASSUME NEW t \in Test, TestEnds(t)
      PROVE  Unrepeated'
  BY <1>8, Still DEF TestEnds
<1>9. ASSUME NEW r \in DOMAIN stage, Answer(r)
      PROVE  Unrepeated'
  BY <1>9, CallAnswer DEF Answer
<1>10. ASSUME NEW r \in DOMAIN stage, Expire(r)
      PROVE  Unrepeated'
  BY <1>10, CallExpire DEF Expire
<1>11. ASSUME NEW r \in DOMAIN stage, Serve(r)
      PROVE  Unrepeated'
  <2> USE DEF Stage, InHandler, Over
  <2>1. CASE InsertCycle(r)
    BY <2>1, CallReach DEF InsertCycle
  <2>2. CASE InsertExecution(r)
    BY <2>2, CallReach DEF InsertExecution
  <2>3. CASE StoreSession(r)
    BY <2>3, CallReach DEF StoreSession
  <2>4. CASE Resolve(r)
    BY <2>4, CallResolve DEF Resolve
  <2>5. CASE PushResults(r)
    BY <2>5, CallReach DEF PushResults
  <2>6. CASE ReadResults(r)
    BY <2>6, CallReach DEF ReadResults
  <2>7. CASE Judge(r)
    BY <2>7, CallReach DEF Judge
  <2>8. CASE FinaliseExecution(r)
    BY <2>8, CallReach DEF FinaliseExecution
  <2>9. CASE FinaliseCycle(r)
    BY <2>9, CallReach DEF FinaliseCycle
  <2>10. CASE ArchiveSession(r)
    BY <2>10, CallReach DEF ArchiveSession
  <2>11. CASE HandlerFails(r)
    BY <2>11, CallFails DEF HandlerFails
  <2>12. CASE LoseRequest(r)
    BY <2>12, CallReach DEF LoseRequest
  <2>13. QED
    BY <1>11, <2>1, <2>2, <2>3, <2>4, <2>5, <2>6, <2>7, <2>8, <2>9,
       <2>10, <2>11, <2>12 DEF Serve
<1>12. CASE ProducerRestart
  BY <1>12, CallRestart DEF ProducerRestart
<1>13. CASE Idle15
  BY <1>13, Still DEF Idle15
<1>14. CASE SweepFind
  BY <1>14, Still DEF SweepFind
<1>15. ASSUME NEW s \in Session, SweepExecution(s)
       PROVE  Unrepeated'
  BY <1>15, Still DEF SweepExecution, SweepAt, Update
<1>16. ASSUME NEW s \in Session, SweepCycle(s)
       PROVE  Unrepeated'
  BY <1>16, Still DEF SweepCycle, SweepAt, Update
<1>17. ASSUME NEW s \in Session, SweepSession(s)
       PROVE  Unrepeated'
  BY <1>17, Still DEF SweepSession, SweepAt, Update
<1>18. CASE UNCHANGED vars
  BY <1>18, Still DEF vars
<1>19. QED
  BY <1>2, <1>3, <1>4, <1>5, <1>6, <1>7, <1>8, <1>9, <1>10, <1>11,
     <1>12, <1>13, <1>14, <1>15, <1>16, <1>17, <1>18
     DEF Next, Sweep

LEMMA UntouchedKept ==
    ASSUME Types, Phases, Requests, Retries, Judgements, Documents, SetupWrites, Unrepeated,
           Untouched, [Next]_vars
    PROVE  Untouched'
<1> USE DEF inputs, server, reporter, redis, docs
<1> USE DEF Moved, Final
<1> SUFFICES ASSUME Quiet'
             PROVE  Untouched'
  BY DEF Untouched
<1>1. /\ Posted /\ Quiet /\ faults = 0 /\ timeouts = 0 /\ faults' = 0 /\ timeouts' = 0
      /\ sid \in {0} \cup Session
  BY QuietBefore DEF Types, Quiet
<1>2. /\ Teardown(1) \in Request /\ Teardown(1).kind = "teardown"
      /\ \A r \in Request : r.kind = "teardown" /\ at[r] # "none" =>
            r = Teardown(1) /\ r.attempt = 1 /\ sid # 0 /\ rep \notin Before
  BY <1>1, TheTeardown DEF Unrepeated, Requests, Attempt
<1>3. /\ Setup(1) \in Request /\ Setup(1).kind = "setup"
      /\ \A r \in Request : r.kind = "setup" /\ at[r] # "none" => r = Setup(1) /\ r.attempt = 1
  BY <1>1, TheSetup DEF Unrepeated, Session
<1>4. sid # 0 => at[Setup(1)] # "ok" /\ \A r \in waiting : r.kind # "setup"
  BY <1>3 DEF Requests, Retries, Over
<1>5. sid # 0 => exec[sid] # "ABSENT"
  BY DEF SetupWrites
<1>6. /\ session \in [Session -> {"none", "redis", "memory"}]
      /\ archive \in [Session -> {"none", "COMPLETED", "FAILED"}]
      /\ exec \in [Session -> {"ABSENT", "RUNNING", "PASSED", "FAILED", "ERROR"}]
  BY DEF Types, Documents
<1> USE <1>6, <1>1, <1>2, <1>3, <1>4, <1>5 DEF Untouched
<1>7. CASE Begin
  <2>1. Call("setup", {}) \in Request /\ Call("setup", {}).kind = "setup"
    BY DEF Call, Request
  <2>2. QED
    BY <1>7, <2>1, CallSend DEF Before, Begin
<1>8. CASE Flush
  <2>1. Call("event", queue) \in Request /\ Call("event", queue).kind = "event"
    BY DEF Call, Request, Types
  <2>2. QED
    BY <1>8, <2>1, CallSend DEF Flush
<1>9. CASE End
  <2>1. Call("event", queue) \in Request /\ Call("event", queue).kind = "event"
    BY DEF Call, Request, Types
  <2>2. \A q \in Request : q.kind # "event" => at'[q] = at[q]
    BY <1>9, <2>1, CallSend, Still DEF Before, End
  <2>3. QED
    BY <1>9, <2>2 DEF Before, End
<1>10. CASE PostTeardown
  <2>1. CASE sid = 0
    BY <1>10, <2>1, CallAbandon DEF Before, PostTeardown, Over
  <2>2. CASE sid # 0
    <3>1. Call("teardown", {}) \in Request /\ Call("teardown", {}).kind = "teardown"
      BY DEF Call, Request
    <3>2. QED
      BY <1>10, <2>2, <3>1, CallSend DEF Before, PostTeardown
  <2>3. QED
    BY <2>1, <2>2
<1>11. CASE Exit
  BY <1>11, CallAbandon DEF Exit, Over, Before
<1>12. CASE CiKilled
  BY <1>12, CallAbandon DEF CiKilled, Over, Before
<1>13. ASSUME NEW t \in Test, TestEnds(t)
      PROVE  Untouched'
  BY <1>13, Still DEF TestEnds
<1>14. ASSUME NEW r \in DOMAIN stage, Answer(r)
      PROVE  Untouched'
  BY <1>14, CallAnswer DEF Answer
<1>15. ASSUME NEW r \in DOMAIN stage, Expire(r)
      PROVE  Untouched'
  BY <1>15, CallExpire, Retried DEF Expire, Over
<1>16. ASSUME NEW r \in DOMAIN stage, Serve(r)
      PROVE  Untouched'
  <2> USE DEF Stage, InHandler, Over
  <2>1. CASE InsertCycle(r)
    BY <2>1, CallReach DEF InsertCycle
  <2>2. CASE InsertExecution(r)
    BY <2>2, CallReach DEF InsertExecution
  <2>3. CASE StoreSession(r)
    <3>1. /\ r = Setup(1) /\ Moved(r, IF r \notin waiting THEN "none" ELSE "ok") /\ r \in Request
          /\ session' = [session EXCEPT ![1] = "redis"]
          /\ UNCHANGED <<rep, sid, exec, archive, waiting>>
      BY <2>3, CallReach DEF StoreSession
    <3>2. at'[Teardown(1)] = at[Teardown(1)]
      BY <3>1
    <3>3. session'[1] = "redis" /\ \A s \in Session : s # 1 => session'[s] = session[s]
      BY <3>1 DEF Session
    <3>4. QED
      BY <3>1, <3>2, <3>3
  <2>4. CASE Resolve(r)
    BY <2>4, CallResolve DEF Resolve
  <2>5. CASE PushResults(r)
    BY <2>5, CallReach DEF PushResults
  <2>6. CASE ReadResults(r)
    BY <2>6, CallReach DEF ReadResults
  <2>7. CASE Judge(r)
    BY <2>7, CallReach DEF Judge
  <2>8. CASE FinaliseExecution(r)
    BY <2>8, CallReach DEF FinaliseExecution
  <2>9. CASE FinaliseCycle(r)
    BY <2>9, CallReach DEF FinaliseCycle
  <2>10. CASE ArchiveSession(r)
    <3>1. /\ UNCHANGED <<rep, sid, exec, waiting>> /\ r \in Request
          /\ sid # 0 /\ rep \notin Before /\ at[r] = "cycleDone" /\ r = Teardown(1)
      BY <2>10, CallReach DEF ArchiveSession
    <3>2. /\ at'[Setup(1)] = at[Setup(1)]
          /\ at'[Teardown(1)] \notin {"sent", "resolved", "drained", "judged"}
      BY <2>10, <3>1, CallReach DEF ArchiveSession
    <3>3. \/ UNCHANGED <<archive, session>>
          \/ archive'[sid] # "none"
      BY <2>10, <3>1 DEF ArchiveSession
    <3>4. QED
      BY <3>1, <3>2, <3>3
  <2>11. CASE HandlerFails(r)
    BY <2>11, CallFails DEF HandlerFails
  <2>12. CASE LoseRequest(r)
    BY <2>12, CallReach DEF LoseRequest
  <2>13. QED
    BY <1>16, <2>1, <2>2, <2>3, <2>4, <2>5, <2>6, <2>7, <2>8, <2>9,
       <2>10, <2>11, <2>12 DEF Serve
<1>17. CASE ProducerRestart
  BY <1>17, CallRestart DEF ProducerRestart
<1>18. CASE Idle15
  BY <1>18, Still DEF Idle15
<1>19. CASE SweepFind
  BY <1>19, Still DEF SweepFind
<1>20. ASSUME NEW s \in Session, SweepExecution(s)
       PROVE  Untouched'
  <2>1. /\ UNCHANGED <<rep, sid, archive, session>> /\ at' = at
        /\ \A s2 \in Session : ~Final(s2) => ~Final(s2)'
    BY <1>20, Still DEF SweepExecution, Update
  <2>2. QED
    BY <2>1
<1>21. ASSUME NEW s \in Session, SweepCycle(s)
       PROVE  Untouched'
  BY <1>21, Still DEF SweepCycle, SweepAt, Update
<1>22. ASSUME NEW s \in Session, SweepSession(s)
       PROVE  Untouched'
  <2>1. /\ UNCHANGED <<rep, sid, exec, session>> /\ at' = at
        /\ \A s2 \in Session : archive'[s2] = "none" <=> archive[s2] = "none"
    BY <1>22, Still DEF SweepSession, Update
  <2>2. QED
    BY <2>1
<1>23. CASE UNCHANGED vars
  BY <1>23, Still DEF vars
<1>24. QED
  BY <1>7, <1>8, <1>9, <1>10, <1>11, <1>12, <1>13, <1>14, <1>15, <1>16,
     <1>17, <1>18, <1>19, <1>20, <1>21, <1>22, <1>23
     DEF Next, Sweep

LEMMA FollowsStays ==
    ASSUME ItemFollows, Quiet, UNCHANGED <<exec, item, sw, raced>>,
           \A s \in Session : at[Setup(s)] = "cycled" => at'[Setup(s)] = "cycled",
           at'[Teardown(1)] = "execDone" => at[Teardown(1)] = "execDone" /\ judged' = judged,
           at[Teardown(1)] = "execDone" => at'[Teardown(1)] = "execDone" /\ sid' = sid
    PROVE  ItemFollows'
  BY DEF ItemFollows, Follows, Swept, ItemOf

LEMMA ItemFollowsKept ==
    ASSUME Types, Phases, Requests, Retries, Judgements, Documents, SetupWrites, Unrepeated,
           ItemFollows, [Next]_vars
    PROVE  ItemFollows'
<1> USE DEF inputs, server, reporter, redis, docs
<1> USE DEF Moved
<1> SUFFICES ASSUME Quiet'
             PROVE  ItemFollows'
  BY DEF ItemFollows
<1>1. /\ Posted /\ Quiet /\ faults = 0 /\ timeouts = 0 /\ faults' = 0 /\ timeouts' = 0
      /\ sid \in {0} \cup Session /\ sw.todo \subseteq Session
  BY QuietBefore DEF Types, Quiet
<1>2. /\ Teardown(1) \in Request /\ Teardown(1).kind = "teardown"
      /\ \A r \in Request : r.kind = "teardown" /\ at[r] # "none" =>
            r = Teardown(1) /\ r.attempt = 1 /\ sid \in Session
  BY <1>1, TheTeardown DEF Unrepeated, Requests, Attempt
<1>3. /\ \A s \in Session : Setup(s) \in Request /\ Setup(s).kind = "setup" /\ Setup(s).attempt = s
      /\ \A r \in Request : r.kind = "setup" /\ at[r] # "none" => r = Setup(1) /\ r.attempt = 1
  BY <1>1, TheSetup DEF Unrepeated, Session
<1>4. \A s \in Session \ raced : Follows(s)
  BY <1>1 DEF ItemFollows
<1>5. /\ exec \in [Session -> {"ABSENT", "RUNNING", "PASSED", "FAILED", "ERROR"}]
      /\ item \in [Session -> {"ABSENT", "RUNNING", "PASSED", "FAILED"}]
  BY DEF Documents
<1>6. judged[1] \in {"none", "PASSED", "FAILED"}
  BY DEF Types
<1>7. \A s \in Session : at[Setup(s)] = "cycled" => /\ exec[s] = "ABSENT" /\ item[s] = "RUNNING"
                                                     /\ s \notin sw.todo /\ s # sid
  BY DEF SetupWrites, Session
<1>8. \A s \in Session : at[Setup(s)] = "sent" => exec[s] = "ABSENT"
  BY DEF SetupWrites
<1> USE <1>6, <1>7, <1>8, <1>1, <1>2, <1>3, <1>5, FollowsStays
<1>9. CASE Begin
  <2>1. Call("setup", {}) \in Request /\ Call("setup", {}).kind = "setup"
    BY DEF Call, Request
  <2>2. QED
    BY <1>9, <2>1, CallSend DEF Begin, Requests
<1>10. CASE Flush
  <2>1. Call("event", queue) \in Request /\ Call("event", queue).kind = "event"
    BY DEF Call, Request, Types
  <2>2. QED
    BY <1>10, <2>1, CallSend DEF Flush
<1>11. CASE End
  <2>1. Call("event", queue) \in Request /\ Call("event", queue).kind = "event"
    BY DEF Call, Request, Types
  <2>2. \A q \in Request : q.kind # "event" => at'[q] = at[q]
    BY <1>11, <2>1, CallSend, Still DEF End
  <2>3. QED
    BY <1>11, <2>2 DEF End
<1>12. CASE PostTeardown
  <2>1. CASE sid = 0
    BY <1>12, <2>1, CallAbandon DEF PostTeardown, Over
  <2>2. CASE sid # 0
    <3>1. Call("teardown", {}) \in Request /\ Call("teardown", {}).kind = "teardown"
      BY DEF Call, Request
    <3>2. QED
      BY <1>12, <2>2, <3>1, CallSend DEF PostTeardown, Requests, Before
  <2>3. QED
    BY <2>1, <2>2
<1>13. CASE Exit
  BY <1>13, CallAbandon DEF Exit, Over
<1>14. CASE CiKilled
  BY <1>14, CallAbandon DEF CiKilled, Over
<1>15. ASSUME NEW t \in Test, TestEnds(t)
      PROVE  ItemFollows'
  BY <1>15, Still DEF TestEnds
<1>16. ASSUME NEW r \in DOMAIN stage, Answer(r)
      PROVE  ItemFollows'
  <2>1. /\ r \in Request /\ r \in waiting /\ at[r] \in {"ok", "refused"} /\ Moved(r, "none")
        /\ sid' # sid => r.kind = "setup"
    BY <1>16, CallAnswer
  <2>2. sid' # sid => sid = 0
    BY <2>1 DEF Retries
  <2>3. QED
    BY <1>16, <2>1, <2>2 DEF Answer, Session
<1>17. ASSUME NEW r \in DOMAIN stage, Expire(r)
      PROVE  ItemFollows'
  BY <1>17, CallExpire, Retried DEF Expire, Over
<1>18. ASSUME NEW r \in DOMAIN stage, Serve(r)
      PROVE  ItemFollows'
  <2> USE DEF Stage, InHandler, Over
  <2>1. CASE InsertCycle(r)
    <3>1. ASSUME NEW s1 \in Session \ raced'
          PROVE  Follows(s1)'
      <4>1. r \in Request /\ at[r] = "sent" /\ Moved(r, "cycled")
        BY <2>1, CallReach DEF InsertCycle
      <4>2. r = Setup(1) /\ r.attempt = 1 /\ r.kind = "setup"
        BY <2>1, <4>1 DEF InsertCycle
      <4>3. /\ r = Setup(1) /\ at[r] = "sent" /\ Moved(r, "cycled") /\ r.kind = "setup"
            /\ UNCHANGED <<exec, sw, sid, raced, judged>> /\ item' = [item EXCEPT ![1] = "RUNNING"]
        BY <2>1, <3>1, <4>1, <4>2 DEF InsertCycle
      <4>4. Follows(s1)
        BY <1>4, <3>1, <4>3
      <4>5. QED
        BY <4>3, <4>4, <3>1 DEF Follows, Swept, ItemOf, Session
    <3>2. QED
      BY <3>1 DEF ItemFollows
  <2>2. CASE InsertExecution(r)
    <3>1. ASSUME NEW s1 \in Session \ raced'
          PROVE  Follows(s1)'
      <4>1. r \in Request /\ at[r] = "cycled" /\ Moved(r, "recorded")
        BY <2>2, CallReach DEF InsertExecution
      <4>2. r = Setup(1) /\ r.attempt = 1 /\ r.kind = "setup"
        BY <2>2, <4>1 DEF InsertExecution
      <4>3. /\ r = Setup(1) /\ at[r] = "cycled" /\ Moved(r, "recorded") /\ r.kind = "setup"
            /\ UNCHANGED <<item, sw, sid, raced, judged>> /\ exec' = [exec EXCEPT ![1] = "RUNNING"]
        BY <2>2, <3>1, <4>1, <4>2 DEF InsertExecution
      <4>4. Follows(s1)
        BY <1>4, <3>1, <4>3
      <4>5. QED
        BY <4>3, <4>4, <3>1 DEF Follows, Swept, ItemOf, Session
    <3>2. QED
      BY <3>1 DEF ItemFollows
  <2>3. CASE StoreSession(r)
    BY <2>3, CallReach DEF StoreSession
  <2>4. CASE Resolve(r)
    BY <2>4, CallResolve DEF Resolve
  <2>5. CASE PushResults(r)
    BY <2>5, CallReach DEF PushResults
  <2>6. CASE ReadResults(r)
    BY <2>6, CallReach DEF ReadResults
  <2>7. CASE Judge(r)
    BY <2>7, CallReach DEF Judge
  <2>8. CASE FinaliseExecution(r)
    <3>1. ASSUME NEW s1 \in Session \ raced'
          PROVE  Follows(s1)'
      <4>1. r \in Request /\ at[r] = "judged" /\ Moved(r, "execDone")
        BY <2>8, CallReach DEF FinaliseExecution
      <4>2. r = Teardown(1) /\ r.attempt = 1 /\ r.kind = "teardown"
        BY <2>8, <4>1 DEF FinaliseExecution
      <4>3. /\ r = Teardown(1) /\ Moved(r, "execDone") /\ r \in Request /\ sid \in Session
            /\ UNCHANGED <<item, sw, sid, judged>> /\ exec' = [exec EXCEPT ![sid] = judged[1]]
            /\ s1 \notin raced /\ (s1 = sid => s1 \notin sw.todo)
        BY <2>8, <3>1, <4>1, <4>2 DEF FinaliseExecution
      <4>4. Follows(s1)
        BY <1>4, <3>1, <4>3
      <4>5. QED
        BY <4>3, <4>4, <3>1 DEF Follows, Swept, ItemOf, Session
    <3>2. QED
      BY <3>1 DEF ItemFollows
  <2>9. CASE FinaliseCycle(r)
    <3>1. ASSUME NEW s1 \in Session \ raced'
          PROVE  Follows(s1)'
      <4>1. r \in Request /\ at[r] = "execDone" /\ Moved(r, "cycleDone")
        BY <2>9, CallReach DEF FinaliseCycle
      <4>2. r = Teardown(1) /\ r.attempt = 1 /\ r.kind = "teardown"
        BY <2>9, <4>1 DEF FinaliseCycle
      <4>3. /\ r = Teardown(1) /\ Moved(r, "cycleDone") /\ r \in Request /\ sid \in Session
            /\ at[r] = "execDone"
            /\ UNCHANGED <<exec, sw, sid, judged, raced>>
            /\ item' = [item EXCEPT ![sid] = judged[1]]
        BY <2>9, <3>1, <4>1, <4>2 DEF FinaliseCycle
      <4>4. Follows(s1)
        BY <1>4, <3>1, <4>3
      <4>5. QED
        BY <4>3, <4>4, <3>1 DEF Follows, Swept, ItemOf, Session
    <3>2. QED
      BY <3>1 DEF ItemFollows
  <2>10. CASE ArchiveSession(r)
    BY <2>10, CallReach DEF ArchiveSession
  <2>11. CASE HandlerFails(r)
    BY <2>11, CallFails DEF HandlerFails
  <2>12. CASE LoseRequest(r)
    BY <2>12, CallReach DEF LoseRequest
  <2>13. QED
    BY <1>18, <2>1, <2>2, <2>3, <2>4, <2>5, <2>6, <2>7, <2>8, <2>9,
       <2>10, <2>11, <2>12 DEF Serve
<1>19. CASE ProducerRestart
  BY <1>19, CallRestart DEF ProducerRestart
<1>20. CASE Idle15
  BY <1>20, Still DEF Idle15
<1>21. CASE SweepFind
  <2>1. ASSUME NEW s1 \in Session \ raced'
        PROVE  Follows(s1)'
    <3>1. /\ UNCHANGED <<exec, item, sid, judged, raced>> /\ at' = at
          /\ sw.pc = "idle" /\ sw'.pc = "exec" /\ \A s \in sw'.todo : exec[s] = "RUNNING"
          /\ judged[1] # "RUNNING"
      BY <1>21, <2>1, Still DEF SweepFind, Frozen, Types
    <3>2. Follows(s1)
      BY <1>4, <2>1, <3>1
    <3>3. QED
      BY <3>1, <3>2, <2>1 DEF Follows, Swept, ItemOf, Session
  <2>2. QED
    BY <2>1 DEF ItemFollows
<1>22. ASSUME NEW s \in Session, SweepExecution(s)
       PROVE  ItemFollows'
  <2>1. ASSUME NEW s1 \in Session \ raced'
        PROVE  Follows(s1)'
    <3>1. /\ Swept(s) /\ sw.pc = "exec" /\ sw'.pc = "cycle" /\ sw'.todo = sw.todo
          /\ UNCHANGED <<item, sid, judged, raced>> /\ exec' = [exec EXCEPT ![s] = "ERROR"]
          /\ at' = at
          /\ exec[s] # "ABSENT"
      BY <1>22, <2>1, Still DEF SweepExecution, SweepAt, Update, Types, Swept, SetupWrites
    <3>2. Follows(s1)
      BY <1>4, <2>1, <3>1
    <3>3. QED
      BY <3>1, <3>2, <2>1 DEF Follows, Swept, ItemOf, Session
  <2>2. QED
    BY <2>1 DEF ItemFollows
<1>23. ASSUME NEW s \in Session, SweepCycle(s)
       PROVE  ItemFollows'
  <2>1. ASSUME NEW s1 \in Session \ raced'
        PROVE  Follows(s1)'
    <3>1. /\ Swept(s) /\ sw.pc = "cycle" /\ sw'.pc = "sessions" /\ sw'.todo = sw.todo
          /\ UNCHANGED <<exec, sid, judged, raced>> /\ item' = [item EXCEPT ![s] = "FAILED"]
          /\ at' = at
      BY <1>23, <2>1, Still DEF SweepCycle, SweepAt, Update, Types, Swept
    <3>2. Follows(s1)
      BY <1>4, <2>1, <3>1
    <3>3. QED
      BY <3>1, <3>2, <2>1 DEF Follows, Swept, ItemOf, Session
  <2>2. QED
    BY <2>1 DEF ItemFollows
<1>24. ASSUME NEW s \in Session, SweepSession(s)
       PROVE  ItemFollows'
  <2>1. ASSUME NEW s1 \in Session \ raced'
        PROVE  Follows(s1)'
    <3>1. /\ UNCHANGED <<exec, item, sid, judged, raced>> /\ at' = at
          /\ sw.pc = "sessions" /\ sw'.pc \in {"idle", "exec"} /\ Swept(s)
          /\ sw'.todo = sw.todo \ {s}
      BY <1>24, <2>1, Still DEF SweepSession, SweepAt, Update, Swept
    <3>2. Follows(s1)
      BY <1>4, <2>1, <3>1
    <3>3. QED
      BY <3>1, <3>2, <2>1 DEF Follows, Swept, ItemOf, Session
  <2>2. QED
    BY <2>1 DEF ItemFollows
<1>25. CASE UNCHANGED vars
  BY <1>25, Still DEF vars
<1>26. QED
  BY <1>9, <1>10, <1>11, <1>12, <1>13, <1>14, <1>15, <1>16, <1>17, <1>18,
     <1>19, <1>20, <1>21, <1>22, <1>23, <1>24, <1>25
     DEF Next, Sweep

LEMMA DeliveredStays ==
    ASSUME Delivered, Quiet, rep' \in Before => rep \in Before /\ early' = early,
           UNCHANGED <<pushed, queue, results>>,
           \A r \in Request : r.kind = "event" => (at'[r] \in Pending <=> at[r] \in Pending)
    PROVE  Delivered'
  BY DEF Delivered, InFlight

LEMMA DeliveredKept ==
    ASSUME Types, Phases, Requests, Batches, Unrepeated, Untouched, Delivered, [Next]_vars
    PROVE  Delivered'
<1> USE DEF inputs, server, reporter, redis, docs
<1> SUFFICES ASSUME Quiet', rep' \in Before
             PROVE  Delivered'
  BY DEF Delivered
<1>1. /\ Posted /\ Quiet /\ faults = 0 /\ timeouts = 0 /\ faults' = 0 /\ timeouts' = 0
      /\ pushed \subseteq Test /\ queue \subseteq pushed
  BY QuietBefore DEF Types, Quiet
<1>2. \A r \in Request : r.kind = "teardown" /\ at[r] # "none" => rep \notin Before
  BY DEF Requests
<1> USE <1>1, <1>2, DeliveredStays DEF Before, Pending
<1>3. CASE Begin
  <2>1. Call("setup", {}) \in Request /\ Call("setup", {}).kind = "setup"
    BY DEF Call, Request
  <2>2. QED
    BY <1>3, <2>1, CallSend DEF Moved, Begin
<1>4. CASE Flush
  <2> DEFINE c == Call("event", queue)
  <2>1. c \in Request /\ c.kind = "event" /\ c.tests = queue /\ c.attempt = 1
    BY DEF Call, Request
  <2>2. Send(c)
    BY <1>4 DEF Flush
  <2> HIDE DEF c
  <2>3. Moved(c, "sent") /\ UNCHANGED <<pushed, results, early, rep>> /\ queue' = {}
    BY <1>4, <2>1, <2>2, CallSend DEF Flush
  <2>4. ~early /\ rep \in Before
    BY <1>4 DEF Delivered, Flush
  <2>5. ASSUME NEW t \in queue
        PROVE  InFlight(t)' /\ results'[t] = 0
    BY <2>1, <2>3, <2>4 DEF InFlight, Moved, Delivered
  <2>6. ASSUME NEW t \in Test \ queue
        PROVE  InFlight(t)' <=> InFlight(t)
    BY <2>1, <2>3, <1>4 DEF InFlight, Moved, Batches, Flush
  <2>7. QED
    BY <2>3, <2>4, <2>5, <2>6 DEF Delivered
<1>5. CASE End
  <2> DEFINE c == Call("event", queue)
  <2>1. c \in Request /\ c.kind = "event" /\ c.tests = queue /\ c.attempt = 1
    BY DEF Call, Request
  <2>2. queue # {} => Send(c)
    BY <1>5 DEF End
  <2> HIDE DEF c
  <2>3. UNCHANGED <<pushed, results, early>> /\ queue' = {} /\ rep \in Before /\ ~early
    BY <1>5 DEF Delivered, End
  <2>4. CASE queue = {}
    BY <1>5, <2>3, <2>4, Still DEF End
  <2>5. CASE queue # {}
    <3>1. Moved(c, "sent")
      BY <2>1, <2>2, <2>5, CallSend
    <3>2. ASSUME NEW t \in queue
          PROVE  InFlight(t)' /\ results'[t] = 0
      BY <2>1, <2>3, <3>1 DEF InFlight, Moved, Delivered
    <3>3. ASSUME NEW t \in Test \ queue
          PROVE  InFlight(t)' <=> InFlight(t)
      BY <2>1, <2>5, <3>1 DEF InFlight, Moved, Batches
    <3>4. QED
      BY <2>3, <3>2, <3>3 DEF Delivered
  <2>6. QED
    BY <2>4, <2>5
<1>6. CASE PostTeardown
  BY <1>6 DEF PostTeardown
<1>7. CASE Exit
  BY <1>7, CallAbandon DEF Exit
<1>8. CASE CiKilled
  BY <1>8, CallAbandon DEF CiKilled
<1>9. ASSUME NEW t \in Test, TestEnds(t)
      PROVE  Delivered'
  <2>1. /\ UNCHANGED <<rep, results, early>> /\ t \notin pushed /\ rep \in Before
        /\ \/ pushed' = pushed /\ queue' = queue
           \/ pushed' = pushed \cup {t} /\ queue' = queue \cup {t}
    BY <1>9 DEF TestEnds, Batches
  <2>2. \A u \in Test : InFlight(u)' <=> InFlight(u)
    BY <1>9, Still DEF TestEnds, InFlight
  <2>3. QED
    BY <2>1, <2>2 DEF Delivered
<1>10. ASSUME NEW r \in DOMAIN stage, Answer(r)
      PROVE  Delivered'
  BY <1>10, CallAnswer DEF Answer, Moved
<1>11. ASSUME NEW r \in DOMAIN stage, Expire(r)
      PROVE  Delivered'
  <2>1. r \in Request /\ at[r] # "none" /\ at[r] # "lost"
    BY <1>11, CallExpire DEF Unrepeated
  <2>2. QED
    BY <1>11, <2>1, CallExpire
<1>12. ASSUME NEW r \in DOMAIN stage, Serve(r)
      PROVE  Delivered'
  <2> USE DEF Stage, InHandler, Over
  <2>1. CASE InsertCycle(r)
    BY <2>1, CallReach DEF InsertCycle, Moved
  <2>2. CASE InsertExecution(r)
    BY <2>2, CallReach DEF InsertExecution, Moved
  <2>3. CASE StoreSession(r)
    BY <2>3, CallReach DEF StoreSession, Moved
  <2>4. CASE Resolve(r)
    <3>1. /\ r \in Request /\ at[r] = "sent"
          /\ r.kind = "event" => sid # 0
      BY <2>4, CallResolve DEF Requests
    <3>2. r.kind = "event" /\ rep \in Before => session[sid] = "redis"
      BY <3>1, <2>4 DEF Untouched, Types, Resolve
    <3>3. r.kind = "event" /\ rep \in Before => Moved(r, "resolved")
      BY <3>2, <2>4, CallResolve
    <3>4. r.kind # "event" => \A q \in Request : q.kind = "event" => at'[q] = at[q]
      BY <2>4, <3>1, CallResolve DEF Moved
    <3>5. /\ UNCHANGED <<pushed, queue, results, rep, early>> /\ rep \in Before
          /\ r.kind = "event" => Moved(r, "resolved")
      BY <2>4, <3>3 DEF Resolve
    <3>6. \A q \in Request : q.kind = "event" => (at'[q] \in Pending <=> at[q] \in Pending)
      BY <3>1, <3>4, <3>5 DEF Moved
    <3>7. QED
      BY <3>5, <3>6
  <2>5. CASE PushResults(r)
    <3>1. /\ r \in Request /\ r.kind = "event" /\ at[r] = "resolved"
          /\ Moved(r, IF r \notin waiting THEN "none" ELSE "ok")
      BY <2>5, CallReach DEF PushResults
    <3>2. /\ UNCHANGED <<rep, pushed, queue, early>> /\ rep \in Before
          /\ results' = [u \in Test |-> results[u] + (IF u \in r.tests THEN 1 ELSE 0)]
      BY <2>5 DEF PushResults
    <3>3. ASSUME NEW q \in Request, q.kind = "event", at[q] # "none", q.tests = r.tests
          PROVE  q = r
      <4>1. q.attempt = 1 /\ r.attempt = 1
        BY <3>1, <3>3 DEF Unrepeated
      <4>2. QED
        BY <3>1, <3>3, <4>1, Named
    <3>4. \A q \in Request : at'[q] \in Pending <=> at[q] \in Pending /\ q # r
      BY <3>1 DEF Moved
    <3>5. ASSUME NEW t \in Test
          PROVE  InFlight(t)' <=> InFlight(t) /\ t \notin r.tests
      BY <3>1, <3>3, <3>4 DEF InFlight, Batches
    <3>6. ASSUME NEW t \in r.tests
          PROVE  InFlight(t) /\ t \in pushed \ queue
      BY <3>1 DEF InFlight, Batches
    <3>7. QED
      BY <3>1, <3>2, <3>5, <3>6, Kinds DEF Delivered
  <2>6. CASE ReadResults(r)
    BY <2>6, CallReach DEF ReadResults, Moved
  <2>7. CASE Judge(r)
    BY <2>7, CallReach DEF Judge, Moved
  <2>8. CASE FinaliseExecution(r)
    BY <2>8, CallReach DEF FinaliseExecution, Moved
  <2>9. CASE FinaliseCycle(r)
    BY <2>9, CallReach DEF FinaliseCycle, Moved
  <2>10. CASE ArchiveSession(r)
    BY <2>10, CallReach DEF ArchiveSession, Moved
  <2>11. CASE HandlerFails(r)
    BY <2>11, CallFails DEF HandlerFails
  <2>12. CASE LoseRequest(r)
    BY <2>12, CallReach DEF LoseRequest
  <2>13. QED
    BY <1>12, <2>1, <2>2, <2>3, <2>4, <2>5, <2>6, <2>7, <2>8, <2>9,
       <2>10, <2>11, <2>12 DEF Serve
<1>13. CASE ProducerRestart
  BY <1>13, CallRestart DEF ProducerRestart
<1>14. CASE Idle15
  BY <1>14, Still DEF Idle15
<1>15. CASE SweepFind
  BY <1>15, Still DEF SweepFind
<1>16. ASSUME NEW s \in Session, SweepExecution(s)
       PROVE  Delivered'
  BY <1>16, Still DEF SweepExecution, SweepAt, Update
<1>17. ASSUME NEW s \in Session, SweepCycle(s)
       PROVE  Delivered'
  BY <1>17, Still DEF SweepCycle, SweepAt, Update
<1>18. ASSUME NEW s \in Session, SweepSession(s)
       PROVE  Delivered'
  BY <1>18, Still DEF SweepSession, SweepAt, Update
<1>19. CASE UNCHANGED vars
  BY <1>19, Still DEF vars
<1>20. QED
  BY <1>3, <1>4, <1>5, <1>6, <1>7, <1>8, <1>9, <1>10, <1>11, <1>12,
     <1>13, <1>14, <1>15, <1>16, <1>17, <1>18, <1>19
     DEF Next, Sweep

LEMMA ResultsBounded ==
    ASSUME Budget
    PROVE  results \in [Test -> 0..2]
<1>1. ASSUME NEW t \in Test
      PROVE  results[t] \in 0..2
  <2>1. results[t] \in Nat /\ results[t] + Load({t}) <= 2
    BY DEF Budget
  <2>2. QED
    BY <2>1, LoadType
<1>2. QED
  BY <1>1 DEF Budget

LEMMA SnapsKept ==
    ASSUME Types, Budget, Snaps, [Next]_vars
    PROVE  Snaps'
<1> USE DEF inputs, server, reporter, redis, docs
<1> USE DEF Snaps
<1>1. CASE Begin
  BY <1>1 DEF Begin
<1>2. CASE Flush
  BY <1>2 DEF Flush
<1>3. CASE End
  BY <1>3 DEF End
<1>4. CASE PostTeardown
  BY <1>4 DEF PostTeardown
<1>5. CASE Exit
  BY <1>5 DEF Exit
<1>6. CASE CiKilled
  BY <1>6 DEF CiKilled
<1>7. ASSUME NEW t \in Test, TestEnds(t)
      PROVE  Snaps'
  BY <1>7, Still DEF TestEnds
<1>8. ASSUME NEW r \in DOMAIN stage, Answer(r)
      PROVE  Snaps'
  BY <1>8 DEF Answer
<1>9. ASSUME NEW r \in DOMAIN stage, Expire(r)
      PROVE  Snaps'
  BY <1>9 DEF Expire
<1>10. ASSUME NEW r \in DOMAIN stage, Serve(r)
      PROVE  Snaps'
  <2> USE DEF Stage, InHandler, Over
  <2>1. CASE InsertCycle(r)
    BY <2>1 DEF InsertCycle
  <2>2. CASE InsertExecution(r)
    BY <2>2 DEF InsertExecution
  <2>3. CASE StoreSession(r)
    BY <2>3 DEF StoreSession
  <2>4. CASE Resolve(r)
    BY <2>4 DEF Resolve
  <2>5. CASE PushResults(r)
    BY <2>5 DEF PushResults
  <2>6. CASE ReadResults(r)
    <3>1. snap' = [snap EXCEPT ![r.attempt] = results]
      BY <2>6 DEF ReadResults
    <3>2. QED
      BY <2>6, <3>1, ResultsBounded DEF ReadResults
  <2>7. CASE Judge(r)
    BY <2>7 DEF Judge
  <2>8. CASE FinaliseExecution(r)
    <3>1. r.attempt \in {1, 2}
      BY Kinds DEF Types, Posted
    <3>2. snap[r.attempt] \in [Test -> 0..2]
      BY <3>1
    <3>3. QED
      BY <2>8, <3>2 DEF FinaliseExecution
  <2>9. CASE FinaliseCycle(r)
    BY <2>9 DEF FinaliseCycle
  <2>10. CASE ArchiveSession(r)
    BY <2>10 DEF ArchiveSession
  <2>11. CASE HandlerFails(r)
    BY <2>11 DEF HandlerFails
  <2>12. CASE LoseRequest(r)
    BY <2>12 DEF LoseRequest
  <2>13. QED
    BY <1>10, <2>1, <2>2, <2>3, <2>4, <2>5, <2>6, <2>7, <2>8, <2>9,
       <2>10, <2>11, <2>12 DEF Serve
<1>11. CASE ProducerRestart
  BY <1>11, CallRestart DEF ProducerRestart
<1>12. CASE Idle15
  BY <1>12, Still DEF Idle15
<1>13. CASE SweepFind
  BY <1>13, Still DEF SweepFind
<1>14. ASSUME NEW s \in Session, SweepExecution(s)
       PROVE  Snaps'
  BY <1>14 DEF SweepExecution
<1>15. ASSUME NEW s \in Session, SweepCycle(s)
       PROVE  Snaps'
  BY <1>15 DEF SweepCycle
<1>16. ASSUME NEW s \in Session, SweepSession(s)
       PROVE  Snaps'
  BY <1>16 DEF SweepSession
<1>17. CASE UNCHANGED vars
  BY <1>17, Still DEF vars
<1>18. QED
  BY <1>1, <1>2, <1>3, <1>4, <1>5, <1>6, <1>7, <1>8, <1>9, <1>10,
     <1>11, <1>12, <1>13, <1>14, <1>15, <1>16, <1>17
     DEF Next, Sweep

LEMMA GatheredStays ==
    ASSUME Gathered, Quiet, UNCHANGED <<pushed, results, early>>, snap'[1] = snap[1],
           \A r \in Request : at[r] = "none" => at'[r] = "none",
           at'[Teardown(1)] \in Pending => at[Teardown(1)] \in Pending,
           at'[Teardown(1)] \in {"drained", "judged"} => at[Teardown(1)] \in {"drained", "judged"}
    PROVE  Gathered'
  BY DEF Gathered, Complete

LEMMA GatheredKept ==
    ASSUME Types, Phases, Requests, Unrepeated, Delivered, Snaps, Gathered, [Next]_vars
    PROVE  Gathered'
<1> USE DEF inputs, server, reporter, redis, docs
<1> SUFFICES ASSUME Quiet', ~early'
             PROVE  Gathered'
  BY DEF Gathered
<1>1. /\ Posted /\ Quiet /\ faults = 0 /\ timeouts = 0 /\ faults' = 0 /\ timeouts' = 0
  BY QuietBefore DEF Types, Quiet
<1>2. /\ Teardown(1) \in Request /\ Teardown(1).kind = "teardown"
      /\ \A r \in Request : r.kind = "teardown" /\ at[r] # "none" =>
            r = Teardown(1) /\ r.attempt = 1 /\ rep \notin Before
  BY <1>1, TheTeardown DEF Unrepeated, Requests, Attempt
<1>3. at'[Teardown(1)] = "none" => Gathered'
  BY DEF Gathered, Pending
<1> USE <1>1, <1>2, <1>3, GatheredStays DEF Pending
<1>4. CASE Begin
  <2>1. Call("setup", {}) \in Request /\ Call("setup", {}).kind = "setup"
    BY DEF Call, Request
  <2>2. at[Teardown(1)] = "none"
    BY <1>4 DEF Begin, Before
  <2>3. QED
    BY <1>4, <2>1, <2>2, CallSend DEF Begin, Moved
<1>5. CASE Flush
  <2>1. Call("event", queue) \in Request /\ Call("event", queue).kind = "event"
    BY DEF Call, Request, Types
  <2>2. at[Teardown(1)] = "none"
    BY <1>5 DEF Flush, Before
  <2>3. QED
    BY <1>5, <2>1, <2>2, CallSend DEF Flush, Moved
<1>6. CASE End
  <2>1. Call("event", queue) \in Request /\ Call("event", queue).kind = "event"
    BY DEF Call, Request, Types
  <2>2. at[Teardown(1)] = "none"
    BY <1>6 DEF End, Before
  <2>3. at'[Teardown(1)] = "none"
    BY <1>6, <2>1, <2>2, CallSend, Still DEF End, Moved
  <2>4. QED
    BY <2>3
<1>7. CASE PostTeardown
  <2>1. rep = "draining" /\ at[Teardown(1)] = "none" /\ UNCHANGED <<pushed, results>> /\ queue = {}
    BY <1>7 DEF PostTeardown, Before, Phases
  <2>2. CASE sid = 0
    <3>1. at'[Teardown(1)] = "none"
      BY <1>7, <2>1, <2>2, CallAbandon DEF PostTeardown, Over
    <3>2. QED
      BY <3>1
  <2>3. CASE sid # 0
    <3>1. Send(Teardown(1)) /\ \A r \in waiting : r.kind # "event"
      BY <1>7, <2>3 DEF PostTeardown, Call, Teardown
    <3>2. \A r \in Request : r.kind = "event" => at[r] = "none"
      BY <2>1, <3>1 DEF Unrepeated
    <3>3. Moved(Teardown(1), "sent")
      BY <3>1, CallSend
    <3>4. \A t \in Test : results[t] = IF t \in pushed THEN 1 ELSE 0
      BY <2>1, <3>2 DEF Delivered, Before, InFlight
    <3>5. QED
      BY <2>1, <3>2, <3>3, <3>4 DEF Gathered, Complete, Moved
  <2>4. QED
    BY <2>2, <2>3
<1>8. CASE Exit
  BY <1>8, CallAbandon DEF Exit, Over
<1>9. CASE CiKilled
  BY <1>9, CallAbandon DEF CiKilled, Over
<1>10. ASSUME NEW t \in Test, TestEnds(t)
      PROVE  Gathered'
  BY <1>10, Still DEF TestEnds, Before
<1>11. ASSUME NEW r \in DOMAIN stage, Answer(r)
      PROVE  Gathered'
  BY <1>11, CallAnswer DEF Answer, Moved
<1>12. ASSUME NEW r \in DOMAIN stage, Expire(r)
      PROVE  Gathered'
  <2>1. r \in Request /\ at[r] # "none" /\ at[r] # "lost"
    BY <1>12, CallExpire DEF Unrepeated
  <2>2. QED
    BY <1>12, <2>1, CallExpire
<1>13. ASSUME NEW r \in DOMAIN stage, Serve(r)
      PROVE  Gathered'
  <2> USE DEF Stage, InHandler, Over
  <2>1. CASE InsertCycle(r)
    BY <2>1, CallReach DEF InsertCycle, Moved
  <2>2. CASE InsertExecution(r)
    BY <2>2, CallReach DEF InsertExecution, Moved
  <2>3. CASE StoreSession(r)
    BY <2>3, CallReach DEF StoreSession, Moved
  <2>4. CASE Resolve(r)
    <3>1. /\ r \in Request /\ at[r] = "sent" /\ UNCHANGED <<pushed, results, early, snap>>
      BY <2>4, CallResolve DEF Resolve
    <3>2. /\ \A q \in Request : at[q] = "none" => at'[q] = "none"
          /\ at'[Teardown(1)] \notin {"drained", "judged"} \/ at'[Teardown(1)] = at[Teardown(1)]
          /\ at'[Teardown(1)] \in Pending => at[Teardown(1)] \in Pending
      BY <3>1, <2>4, CallResolve DEF Moved
    <3>3. QED
      BY <3>1, <3>2
  <2>5. CASE PushResults(r)
    <3>1. /\ r \in Request /\ r.kind = "event" /\ at[r] = "resolved"
          /\ Moved(r, IF r \notin waiting THEN "none" ELSE "ok")
      BY <2>5, CallReach DEF PushResults
    <3>2. UNCHANGED <<pushed, early, snap>>
      BY <2>5 DEF PushResults
    <3>3. at'[Teardown(1)] = at[Teardown(1)] /\ at[Teardown(1)] \notin Pending
      BY <3>1, <3>2 DEF Gathered, Moved
    <3>4. QED
      BY <3>2, <3>3 DEF Gathered, Complete
  <2>6. CASE ReadResults(r)
    <3>1. /\ r \in Request /\ r.kind = "teardown" /\ at[r] = "resolved" /\ Moved(r, "drained")
          /\ UNCHANGED <<pushed, early, results>> /\ snap' = [snap EXCEPT ![r.attempt] = results]
      BY <2>6, CallReach DEF ReadResults
    <3>2. r = Teardown(1) /\ r.attempt = 1
      BY <3>1
    <3>3. Complete(results) /\ at'[Teardown(1)] = "drained"
      BY <3>1, <3>2 DEF Gathered, Moved
    <3>4. QED
      BY <3>1, <3>2, <3>3 DEF Gathered, Complete, Snaps
  <2>7. CASE Judge(r)
    <3>1. /\ r \in Request /\ at[r] = "drained" /\ UNCHANGED <<pushed, results, early, snap>>
          /\ Moved(r, "judged") \/ Moved(r, IF r \notin waiting THEN "none" ELSE "refused")
      BY <2>7, CallReach DEF Judge
    <3>2. QED
      BY <3>1 DEF Moved
  <2>8. CASE FinaliseExecution(r)
    BY <2>8, CallReach DEF FinaliseExecution, Moved
  <2>9. CASE FinaliseCycle(r)
    BY <2>9, CallReach DEF FinaliseCycle, Moved
  <2>10. CASE ArchiveSession(r)
    <3>1. /\ r \in Request /\ r.kind = "teardown" /\ at[r] = "cycleDone"
          /\ \E to \in {"ok", "refused", "none"} : Moved(r, to)
      BY <2>10, CallReach DEF ArchiveSession
    <3>2. r = Teardown(1) /\ at'[Teardown(1)] \in {"ok", "refused", "none"}
      BY <3>1 DEF Moved
    <3>3. QED
      BY <3>2 DEF Gathered
  <2>11. CASE HandlerFails(r)
    BY <2>11, CallFails DEF HandlerFails
  <2>12. CASE LoseRequest(r)
    BY <2>12, CallReach DEF LoseRequest
  <2>13. QED
    BY <1>13, <2>1, <2>2, <2>3, <2>4, <2>5, <2>6, <2>7, <2>8, <2>9,
       <2>10, <2>11, <2>12 DEF Serve
<1>14. CASE ProducerRestart
  BY <1>14, CallRestart DEF ProducerRestart
<1>15. CASE Idle15
  BY <1>15, Still DEF Idle15
<1>16. CASE SweepFind
  BY <1>16, Still DEF SweepFind
<1>17. ASSUME NEW s \in Session, SweepExecution(s)
       PROVE  Gathered'
  BY <1>17, Still DEF SweepExecution, SweepAt, Update
<1>18. ASSUME NEW s \in Session, SweepCycle(s)
       PROVE  Gathered'
  BY <1>18, Still DEF SweepCycle, SweepAt, Update
<1>19. ASSUME NEW s \in Session, SweepSession(s)
       PROVE  Gathered'
  BY <1>19, Still DEF SweepSession, SweepAt, Update
<1>20. CASE UNCHANGED vars
  BY <1>20, Still DEF vars
<1>21. QED
  BY <1>4, <1>5, <1>6, <1>7, <1>8, <1>9, <1>10, <1>11, <1>12, <1>13,
     <1>14, <1>15, <1>16, <1>17, <1>18, <1>19, <1>20
     DEF Next, Sweep

LEMMA EvaluatedStays ==
    ASSUME Evaluated, Quiet, UNCHANGED <<quarantined, outcome, reported, judged>>,
           snap'[1] = snap[1],
           at'[Teardown(1)] \in {"judged", "execDone"} =>
              at[Teardown(1)] \in {"judged", "execDone"}
    PROVE  Evaluated'
  BY DEF Evaluated, EffectiveStatus, HasRealFailures, Received

LEMMA EvaluatedKept ==
    ASSUME Types, Phases, Requests, Unrepeated, Evaluated, [Next]_vars
    PROVE  Evaluated'
<1> USE DEF inputs, server, reporter, redis, docs
<1> SUFFICES ASSUME Quiet'
             PROVE  Evaluated'
  BY DEF Evaluated
<1>1. /\ Posted /\ Quiet /\ faults = 0 /\ timeouts = 0 /\ faults' = 0 /\ timeouts' = 0
  BY QuietBefore DEF Types, Quiet
<1>2. /\ Teardown(1) \in Request /\ Teardown(1).kind = "teardown"
      /\ \A r \in Request : r.kind = "teardown" /\ at[r] # "none" =>
            r = Teardown(1) /\ r.attempt = 1 /\ rep \notin Before
  BY <1>1, TheTeardown DEF Unrepeated, Requests, Attempt
<1>3. at'[Teardown(1)] \notin {"judged", "execDone"} => Evaluated'
  BY DEF Evaluated
<1> USE <1>1, <1>2, <1>3, EvaluatedStays
<1>4. CASE Begin
  <2>1. Call("setup", {}) \in Request /\ Call("setup", {}).kind = "setup"
    BY DEF Call, Request
  <2>2. at[Teardown(1)] = "none"
    BY <1>4 DEF Begin, Before
  <2>3. QED
    BY <1>4, <2>1, <2>2, CallSend DEF Begin, Moved
<1>5. CASE Flush
  <2>1. Call("event", queue) \in Request /\ Call("event", queue).kind = "event"
    BY DEF Call, Request, Types
  <2>2. at[Teardown(1)] = "none"
    BY <1>5 DEF Flush, Before
  <2>3. QED
    BY <1>5, <2>1, <2>2, CallSend DEF Flush, Moved
<1>6. CASE End
  <2>1. Call("event", queue) \in Request /\ Call("event", queue).kind = "event"
    BY DEF Call, Request, Types
  <2>2. at[Teardown(1)] = "none"
    BY <1>6 DEF End, Before
  <2>3. at'[Teardown(1)] = "none"
    BY <1>6, <2>1, <2>2, CallSend, Still DEF End, Moved
  <2>4. QED
    BY <2>3
<1>7. CASE PostTeardown
  <2>1. at[Teardown(1)] = "none"
    BY <1>7 DEF PostTeardown, Before
  <2>2. CASE sid = 0
    BY <1>7, <2>1, <2>2, CallAbandon DEF PostTeardown, Over
  <2>3. CASE sid # 0
    <3>1. Call("teardown", {}) \in Request
      BY DEF Call, Request
    <3>2. at'[Teardown(1)] \in {"none", "sent"}
      BY <1>7, <2>1, <2>3, <3>1, CallSend DEF PostTeardown, Moved
    <3>3. QED
      BY <3>2
  <2>4. QED
    BY <2>2, <2>3
<1>8. CASE Exit
  BY <1>8, CallAbandon DEF Exit, Over
<1>9. CASE CiKilled
  BY <1>9, CallAbandon DEF CiKilled, Over
<1>10. ASSUME NEW t \in Test, TestEnds(t)
      PROVE  Evaluated'
  BY <1>10, Still DEF TestEnds, Before
<1>11. ASSUME NEW r \in DOMAIN stage, Answer(r)
      PROVE  Evaluated'
  BY <1>11, CallAnswer DEF Answer, Moved
<1>12. ASSUME NEW r \in DOMAIN stage, Expire(r)
      PROVE  Evaluated'
  <2>1. r \in Request /\ at[r] # "none" /\ at[r] # "lost"
    BY <1>12, CallExpire DEF Unrepeated
  <2>2. QED
    BY <1>12, <2>1, CallExpire
<1>13. ASSUME NEW r \in DOMAIN stage, Serve(r)
      PROVE  Evaluated'
  <2> USE DEF Stage, InHandler, Over
  <2>1. CASE InsertCycle(r)
    BY <2>1, CallReach DEF InsertCycle, Moved
  <2>2. CASE InsertExecution(r)
    BY <2>2, CallReach DEF InsertExecution, Moved
  <2>3. CASE StoreSession(r)
    BY <2>3, CallReach DEF StoreSession, Moved
  <2>4. CASE Resolve(r)
    <3>1. r \in Request /\ at[r] = "sent"
      BY <2>4, CallResolve
    <3>2. at'[Teardown(1)] \in {"judged", "execDone"} => at[Teardown(1)] \in {"judged", "execDone"}
      BY <3>1, CallResolve, <2>4 DEF Moved
    <3>3. QED
      BY <2>4, <3>2 DEF Resolve
  <2>5. CASE PushResults(r)
    BY <2>5, CallReach DEF PushResults, Moved
  <2>6. CASE ReadResults(r)
    <3>1. /\ r \in Request /\ r.kind = "teardown" /\ at[r] = "resolved" /\ Moved(r, "drained")
      BY <2>6, CallReach DEF ReadResults
    <3>2. r = Teardown(1) /\ at'[Teardown(1)] = "drained"
      BY <3>1 DEF Moved
    <3>3. QED
      BY <3>2
  <2>7. CASE Judge(r)
    <3>1. /\ r \in Request /\ at[r] = "drained" /\ r.kind = "teardown"
          /\ UNCHANGED <<quarantined, outcome, reported, snap>>
          /\ \/ Moved(r, "judged")
                /\ judged' = [judged EXCEPT ![r.attempt] = EffectiveStatus(r.attempt)]
             \/ Moved(r, IF r \notin waiting THEN "none" ELSE "refused")
      BY <2>7, CallReach DEF Judge
    <3>2. r = Teardown(1) /\ r.attempt = 1
      BY <3>1
    <3>3. CASE Moved(r, "judged") /\ judged' = [judged EXCEPT ![1] = EffectiveStatus(1)]
      <4>1. judged'[1] = EffectiveStatus(1)
        BY <3>3 DEF Types
      <4>2. EffectiveStatus(1)' = EffectiveStatus(1)
        BY <3>1 DEF EffectiveStatus, HasRealFailures, Received
      <4>3. QED
        BY <4>1, <4>2 DEF Evaluated
    <3>4. CASE Moved(r, IF r \notin waiting THEN "none" ELSE "refused")
      BY <3>2, <3>4 DEF Moved
    <3>5. QED
      BY <3>1, <3>2, <3>3, <3>4
  <2>8. CASE FinaliseExecution(r)
    BY <2>8, CallReach DEF FinaliseExecution, Moved
  <2>9. CASE FinaliseCycle(r)
    BY <2>9, CallReach DEF FinaliseCycle, Moved
  <2>10. CASE ArchiveSession(r)
    BY <2>10, CallReach DEF ArchiveSession, Moved
  <2>11. CASE HandlerFails(r)
    BY <2>11, CallFails DEF HandlerFails
  <2>12. CASE LoseRequest(r)
    BY <2>12, CallReach DEF LoseRequest
  <2>13. QED
    BY <1>13, <2>1, <2>2, <2>3, <2>4, <2>5, <2>6, <2>7, <2>8, <2>9,
       <2>10, <2>11, <2>12 DEF Serve
<1>14. CASE ProducerRestart
  BY <1>14, CallRestart DEF ProducerRestart
<1>15. CASE Idle15
  BY <1>15, Still DEF Idle15
<1>16. CASE SweepFind
  BY <1>16, Still DEF SweepFind
<1>17. ASSUME NEW s \in Session, SweepExecution(s)
       PROVE  Evaluated'
  BY <1>17, Still DEF SweepExecution, SweepAt, Update
<1>18. ASSUME NEW s \in Session, SweepCycle(s)
       PROVE  Evaluated'
  BY <1>18, Still DEF SweepCycle, SweepAt, Update
<1>19. ASSUME NEW s \in Session, SweepSession(s)
       PROVE  Evaluated'
  BY <1>19, Still DEF SweepSession, SweepAt, Update
<1>20. CASE UNCHANGED vars
  BY <1>20, Still DEF vars
<1>21. QED
  BY <1>4, <1>5, <1>6, <1>7, <1>8, <1>9, <1>10, <1>11, <1>12, <1>13,
     <1>14, <1>15, <1>16, <1>17, <1>18, <1>19, <1>20
     DEF Next, Sweep

LEMMA FinishedStays ==
    ASSUME Finished, Quiet, UNCHANGED <<pushed, outcome, reported, quarantined, early, stored>>,
           sid' # 0 /\ Final(sid)' => sid' = sid /\ exec'[sid] = exec[sid]
    PROVE  Finished'
  BY DEF Finished, Final, Complete

LEMMA PassJustified ==
    ASSUME Complete(snap[1]), pushed \subseteq Test, EffectiveStatus(1) = "PASSED",
           reported = "FAILED"
    PROVE  \A t \in pushed : outcome[t] = "failed" => t \in quarantined
<1>1. Received(1) = pushed
  BY DEF Received, Complete
<1>2. QED
  BY <1>1 DEF EffectiveStatus, HasRealFailures

LEMMA FinishedKept ==
    ASSUME Types, Phases, Requests, Retries, Documents, Verdicts, Unrepeated, Untouched, Snaps,
           Gathered, Evaluated, Finished, [Next]_vars
    PROVE  Finished'
<1> USE DEF inputs, server, reporter, redis, docs
<1> SUFFICES ASSUME Quiet', ~early'
             PROVE  Finished'
  BY DEF Finished
<1>1. /\ Posted /\ Quiet /\ faults = 0 /\ timeouts = 0 /\ faults' = 0 /\ timeouts' = 0
      /\ sid \in {0} \cup Session /\ pushed \subseteq Test
  BY QuietBefore DEF Types, Quiet
<1>2. /\ Teardown(1) \in Request /\ Teardown(1).kind = "teardown"
      /\ \A r \in Request : r.kind = "teardown" /\ at[r] # "none" =>
            r = Teardown(1) /\ r.attempt = 1 /\ sid \in Session
  BY <1>1, TheTeardown DEF Unrepeated, Requests, Attempt
<1>3. rep \in Before => \A s \in Session : ~Final(s)
  BY <1>1 DEF Untouched
<1>4. exec \in [Session -> {"ABSENT", "RUNNING", "PASSED", "FAILED", "ERROR"}]
  BY DEF Documents
<1>5. ASSUME rep \in Before, UNCHANGED <<sid, exec>>
      PROVE  Finished'
  BY <1>5, <1>3, <1>1 DEF Finished, Final
<1> USE <1>1, <1>2, <1>5, FinishedStays
<1>6. CASE Begin
  BY <1>6 DEF Begin, Before
<1>7. CASE Flush
  BY <1>7 DEF Flush, Before
<1>8. CASE End
  BY <1>8 DEF End, Before
<1>9. CASE PostTeardown
  BY <1>9 DEF PostTeardown, Before
<1>10. CASE Exit
  BY <1>10 DEF Exit, Final
<1>11. CASE CiKilled
  BY <1>11 DEF CiKilled, Final
<1>12. ASSUME NEW t \in Test, TestEnds(t)
      PROVE  Finished'
  BY <1>12 DEF TestEnds, Before
<1>13. ASSUME NEW r \in DOMAIN stage, Answer(r)
      PROVE  Finished'
  <2>1. sid' # sid => sid = 0
    BY <1>13, CallAnswer DEF Retries
  <2>2. sid = 0 => \A s \in Session : ~Final(s)
    BY DEF Verdicts
  <2>3. sid' \in {0} \cup Session
    BY <1>13, CallAnswer, Kinds DEF Session
  <2>4. sid' # 0 /\ Final(sid)' => sid' = sid /\ exec'[sid] = exec[sid]
    BY <1>13, <2>1, <2>2, <2>3 DEF Final, Answer
  <2>5. QED
    BY <1>13, <2>4 DEF Answer
<1>14. ASSUME NEW r \in DOMAIN stage, Expire(r)
      PROVE  Finished'
  BY <1>14 DEF Expire, Final
<1>15. ASSUME NEW r \in DOMAIN stage, Serve(r)
      PROVE  Finished'
  <2> USE DEF Stage, InHandler, Over
  <2>1. CASE InsertCycle(r)
    BY <2>1 DEF InsertCycle, Final
  <2>2. CASE InsertExecution(r)
    <3>1. sid # 0 /\ Final(sid)' => exec'[sid] = exec[sid]
      BY <2>2, <1>4 DEF InsertExecution, Final
    <3>2. QED
      BY <2>2, <3>1 DEF InsertExecution, Final
  <2>3. CASE StoreSession(r)
    BY <2>3 DEF StoreSession, Final
  <2>4. CASE Resolve(r)
    BY <2>4 DEF Resolve, Final
  <2>5. CASE PushResults(r)
    BY <2>5 DEF PushResults, Final
  <2>6. CASE ReadResults(r)
    BY <2>6 DEF ReadResults, Final
  <2>7. CASE Judge(r)
    BY <2>7 DEF Judge, Final
  <2>8. CASE FinaliseExecution(r)
    <3>1. r \in Request /\ at[r] = "judged" /\ r.kind = "teardown"
      BY <2>8, CallReach DEF FinaliseExecution
    <3>2. r = Teardown(1) /\ r.attempt = 1 /\ sid \in Session
      BY <3>1
    <3>3. /\ UNCHANGED <<sid, pushed, outcome, reported, quarantined, snap, early>>
          /\ exec' = [exec EXCEPT ![sid] = judged[1]] /\ stored' = [stored EXCEPT ![sid] = snap[1]]
      BY <2>8, <3>2 DEF FinaliseExecution
    <3>4. Complete(snap[1]) /\ judged[1] = EffectiveStatus(1)
      BY <3>1, <3>2, <3>3 DEF Gathered, Evaluated
    <3>5. exec'[sid] = EffectiveStatus(1) /\ stored'[sid] = snap[1]
      BY <1>4, <3>2, <3>3, <3>4 DEF Snaps
    <3>6. exec'[sid] = "PASSED" /\ reported = "FAILED" =>
             \A t \in pushed : outcome[t] = "failed" => t \in quarantined
      BY <3>4, <3>5, PassJustified
    <3>7. Complete(stored[sid])'
      BY <3>3, <3>4, <3>5 DEF Complete
    <3>8. QED
      BY <3>3, <3>6, <3>7 DEF Finished
  <2>9. CASE FinaliseCycle(r)
    BY <2>9 DEF FinaliseCycle, Final
  <2>10. CASE ArchiveSession(r)
    BY <2>10 DEF ArchiveSession, Final
  <2>11. CASE HandlerFails(r)
    BY <2>11 DEF HandlerFails, Final
  <2>12. CASE LoseRequest(r)
    BY <2>12 DEF LoseRequest, Final
  <2>13. QED
    BY <1>15, <2>1, <2>2, <2>3, <2>4, <2>5, <2>6, <2>7, <2>8, <2>9,
       <2>10, <2>11, <2>12 DEF Serve
<1>16. CASE ProducerRestart
  BY <1>16 DEF ProducerRestart, Final
<1>17. CASE Idle15
  BY <1>17 DEF Idle15, Final
<1>18. CASE SweepFind
  BY <1>18 DEF SweepFind, Final
<1>19. ASSUME NEW s \in Session, SweepExecution(s)
       PROVE  Finished'
  <2>1. sid # 0 /\ Final(sid)' => exec'[sid] = exec[sid]
    BY <1>19, <1>4 DEF SweepExecution, Update, Final
  <2>2. QED
    BY <1>19, <2>1 DEF SweepExecution, Update, Final
<1>20. ASSUME NEW s \in Session, SweepCycle(s)
       PROVE  Finished'
  BY <1>20 DEF SweepCycle, Final
<1>21. ASSUME NEW s \in Session, SweepSession(s)
       PROVE  Finished'
  BY <1>21 DEF SweepSession, Final
<1>22. CASE UNCHANGED vars
  BY <1>22, Still DEF vars
<1>23. QED
  BY <1>6, <1>7, <1>8, <1>9, <1>10, <1>11, <1>12, <1>13, <1>14, <1>15,
     <1>16, <1>17, <1>18, <1>19, <1>20, <1>21, <1>22
     DEF Next, Sweep

----------------------------------------------------------------------------
(***************************************************************************)
(* The theorems.                                                           *)
(***************************************************************************)

LEMMA IngestStarts == Init => IngestInv
<1> SUFFICES ASSUME Init
             PROVE  IngestInv
  OBVIOUS
<1> USE IngestAssumption DEF Init
<1>1. \A r \in Request : at[r] = "none"
  BY DEF at
<1>2. Types
  <2>1. Posted
    BY DEF Posted
  <2>2. sw \in [pc : {"idle", "exec", "cycle", "sessions"}, todo : SUBSET Session]
    BY DEF NoSweep
  <2>3. /\ outcome \in [Test -> Outcome \cup {"none"}]
        /\ session \in [Session -> {"none", "redis", "memory"}]
        /\ judged \in [{1, 2} -> {"none", "PASSED", "FAILED"}]
        /\ cycle \in [Session -> {"ABSENT", "RUNNING", "COMPLETED"}]
        /\ archive \in [Session -> {"none", "COMPLETED", "FAILED"}]
        /\ stale \in [Session -> BOOLEAN]
    OBVIOUS
  <2>4. /\ caseIds \in BOOLEAN /\ quarantined \subseteq Test
        /\ timeouts \in 0..MaxTimeouts /\ faults \in 0..MaxFaults
    OBVIOUS
  <2>5. QED
    BY <2>1, <2>2, <2>3, <2>4 DEF Types
<1>3. Phases /\ Requests /\ Batches /\ Retries /\ Snaps
  <2>1. \A t \in Test : NoResults[t] = 0
    BY DEF NoResults
  <2>2. NoResults \in [Test -> 0..2]
    BY DEF NoResults
  <2>3. Snaps
    BY <2>2 DEF Snaps
  <2>4. QED
    BY <1>1, <2>3 DEF Phases, Requests, Batches, Retries, Over
<1>4. /\ \A a \in Attempt : at[Setup(a)] = "none" /\ at[Teardown(a)] = "none"
      /\ \A S \in SUBSET Test, a \in Attempt : at[Event(S, a)] = "none"
  BY <1>1, Names
<1>5. Judgements /\ Documents
  BY <1>4 DEF Judgements, Documents
<1>6. SetupWrites /\ Verdicts /\ Agreement
  BY <1>4 DEF SetupWrites, Verdicts, Agreement, Agrees, Closed, Final, Session, Attempt, NoSweep,
              Swept
<1>7. Budget
  <2>1. ASSUME NEW S \in SUBSET Test
        PROVE  Load(S) = 0
    BY <1>4 DEF Load, Unit, Pending, Attempt
  <2>2. results \in [Test -> Nat] /\ \A t \in Test : results[t] = 0
    BY DEF NoResults
  <2>3. QED
    BY <2>1, <2>2 DEF Budget
<1>8. Unrepeated /\ Untouched /\ Evaluated /\ Finished
  BY <1>1, <1>4 DEF Unrepeated, Untouched, Evaluated, Finished, Final, Attempt
<1>9. ItemFollows
  BY <1>4 DEF ItemFollows, Follows, ItemOf, NoSweep, Session, Attempt
<1>10. Delivered /\ Gathered
  <2>1. \A t \in Test : results[t] = 0
    BY DEF NoResults
  <2>2. QED
    BY <1>4, <2>1 DEF Delivered, Gathered, Pending, Attempt
<1>11. QED
  BY <1>2, <1>3, <1>5, <1>6, <1>7, <1>8, <1>9, <1>10 DEF IngestInv

LEMMA IngestSteps ==
    ASSUME IngestInv, [Next]_vars
    PROVE  IngestInv'
<1> USE DEF IngestInv
<1>1. Types'
  BY TypesKept
<1>2. Phases'
  BY PhasesKept
<1>3. Requests'
  BY RequestsKept
<1>4. Batches'
  BY BatchesKept
<1>5. Retries'
  BY RetriesKept
<1>6. Judgements'
  BY JudgementsKept
<1>7. Documents'
  BY DocumentsKept
<1>8. SetupWrites'
  BY SetupWritesKept
<1>9. Verdicts'
  BY VerdictsKept
<1>10. Budget'
  BY BudgetKept
<1>11. Agreement'
  BY AgreementKept
<1>12. Unrepeated'
  BY UnrepeatedKept
<1>13. Untouched'
  BY UntouchedKept
<1>14. ItemFollows'
  BY ItemFollowsKept
<1>15. Delivered'
  BY DeliveredKept
<1>16. Snaps'
  BY SnapsKept
<1>17. Gathered'
  BY GatheredKept
<1>18. Evaluated'
  BY EvaluatedKept
<1>19. Finished'
  BY FinishedKept
<1>20. QED
  BY <1>1, <1>2, <1>3, <1>4, <1>5, <1>6, <1>7, <1>8, <1>9, <1>10,
     <1>11, <1>12, <1>13, <1>14, <1>15, <1>16, <1>17, <1>18, <1>19

\* The invariant holds in every reachable state: no step of the reporter, of a handler, of
\* the sweep and no failure breaks it.
THEOREM IngestInvariant == Spec => []IngestInv
<1>1. Init => IngestInv
  BY IngestStarts
<1>2. IngestInv /\ [Next]_vars => IngestInv'
  BY IngestSteps
<1>3. QED
  BY <1>1, <1>2, PTL DEF Spec

\* The variables keep their types; the ranges of results, snap and stored say that a
\* test is delivered at most twice, once for each post of its batch.
THEOREM IngestTyped == Spec => []TypeOK
<1>1. IngestInv => TypeOK
  BY ResultsBounded DEF IngestInv, TypeOK, Types, Posted, Documents, Snaps
<1>2. QED
  BY <1>1, IngestInvariant, PTL

\* When nothing is in progress and no call failed, the run and the cycle that setup
\* inserted are open or closed together, whatever teardowns and sweeps overlapped.
THEOREM RunAndCycleTogether == Spec => []RunAndCycleAgree
<1>1. IngestInv => RunAndCycleAgree
  <2> SUFFICES ASSUME IngestInv, Settled, faults = 0, NEW s \in Session
               PROVE  /\ exec[s] = "ABSENT" <=> cycle[s] = "ABSENT"
                      /\ exec[s] = "RUNNING" <=> cycle[s] = "RUNNING"
                      /\ s \notin raced /\ timeouts = 0 => item[s] = ItemOf(exec[s])
    BY DEF RunAndCycleAgree
  <2> USE DEF IngestInv
  <2>1. \A r \in Request : at[r] \notin InHandler
    BY DEF Settled, at, InHandler
  <2>2. /\ at[Setup(s)] # "cycled"
        /\ \A a \in Attempt : at[Teardown(a)] # "execDone"
    BY <2>1, TheSetup, TheTeardown DEF InHandler
  <2>3. Agrees(s) /\ cycle[s] \in {"ABSENT", "RUNNING", "COMPLETED"} /\ sw.pc = "idle"
    BY DEF Agreement, Types, Settled
  <2>4. s \notin raced /\ timeouts = 0 => Follows(s)
    BY DEF ItemFollows, Quiet
  <2>5. s \notin raced /\ timeouts = 0 => item[s] = ItemOf(exec[s])
    BY <2>2, <2>3, <2>4 DEF Follows, Attempt
  <2>6. QED
    BY <2>2, <2>3, <2>5 DEF Agrees, Closed
<1>2. QED
  BY <1>1, IngestInvariant, PTL

\* A run finalised by a teardown holds the result of every buffered test exactly once,
\* if no call failed or timed out and no flush was in flight at the teardown.
THEOREM FinalRunsComplete == Spec => []ResultsComplete
<1>1. IngestInv => ResultsComplete
  BY DEF IngestInv, ResultsComplete, Finished, Quiet, Final, Complete
<1>2. QED
  BY <1>1, IngestInvariant, PTL

\* Under the same conditions a run reported FAILED is filed as PASSED only if every test
\* that failed after setup had answered is quarantined.
THEOREM QualityGateHolds == Spec => []BypassJustified
<1>1. IngestInv => BypassJustified
  BY DEF IngestInv, BypassJustified, Finished, Quiet, Final
<1>2. QED
  BY <1>1, IngestInvariant, PTL

\* No step takes back the verdict of a teardown, except a sweep that held the run while
\* the teardown wrote it, and a teardown posted twice.
THEOREM VerdictsLast == Spec => VerdictLostOnlyToSweep
<1>1. IngestInv /\ [Next]_vars =>
        [\A s \in Session :
           exec[s] \in {"PASSED", "FAILED"} /\ exec'[s] # exec[s]
              => IF exec'[s] = "ERROR" THEN s \in raced ELSE timeouts + faults > 0]_vars
  <2> SUFFICES ASSUME IngestInv, Next, NEW s \in Session, Final(s), exec'[s] # exec[s]
               PROVE  IF exec'[s] = "ERROR" THEN s \in raced ELSE timeouts + faults > 0
    BY DEF Final
  <2> USE DEF IngestInv
  <2>1. exec \in [Session -> {"ABSENT", "RUNNING", "PASSED", "FAILED", "ERROR"}]
    BY DEF Documents
  <2>2. CASE exec' = exec
    BY <2>2
  <2>3. ASSUME NEW r \in DOMAIN stage, InsertExecution(r)
        PROVE  FALSE
    <3>1. Posted /\ r \in Request /\ at[r] = "cycled" /\ r.kind = "setup"
      BY <2>3, CallReach DEF InsertExecution, Types, Stage, InHandler, reporter
    <3>2. r.attempt \in Session /\ exec[r.attempt] = "ABSENT"
      BY <3>1, TheSetup DEF SetupWrites
    <3>3. QED
      BY <2>1, <2>3, <3>2 DEF InsertExecution, Final
  <2>4. ASSUME NEW r \in DOMAIN stage, FinaliseExecution(r)
        PROVE  exec'[s] # "ERROR" /\ timeouts + faults > 0
    <3>1. Posted /\ r \in Request /\ at[r] = "judged" /\ r.kind = "teardown"
      BY <2>4, CallReach DEF FinaliseExecution, Types, Stage, InHandler, reporter
    <3>2. r = Teardown(r.attempt) /\ r.attempt \in Attempt
      BY <3>1, TheTeardown
    <3>3. s = sid /\ exec'[s] = judged[r.attempt] /\ judged[r.attempt] \in {"PASSED", "FAILED"}
      BY <2>1, <2>4, <3>1, <3>2 DEF FinaliseExecution, Judgements, Types, Attempt
    <3>4. ~Quiet
      BY <3>1, <3>2, <3>3 DEF Untouched, Unrepeated, Attempt
    <3>5. timeouts \in Nat /\ faults \in Nat
      BY DEF Types
    <3>6. QED
      BY <3>3, <3>4, <3>5 DEF Quiet
  <2>5. ASSUME NEW s2 \in Session, SweepExecution(s2)
        PROVE  exec'[s] = "ERROR" /\ s \in raced
    BY <2>1, <2>5 DEF SweepExecution, SweepAt, Update, Verdicts, Final
  <2>6. QED
    BY <2>2, <2>3, <2>4, <2>5
       DEF Next, Sweep, Serve, Begin, Flush, End, PostTeardown, Exit, CiKilled, TestEnds, Answer,
           Expire, InsertCycle, StoreSession, Resolve, PushResults, ReadResults, Judge,
           FinaliseCycle, ArchiveSession, HandlerFails, LoseRequest, ProducerRestart, Idle15,
           SweepFind, SweepCycle, SweepSession, server, docs
<1>2. QED
  BY <1>1, IngestInvariant, PTL DEF Spec, VerdictLostOnlyToSweep

=============================================================================
