# Agnox / Agnostic Automation Center: a TLA+ model

This directory specifies the platform in TLA+, checks it with TLC on small
instances and proves its safety properties with TLAPS. Paths below are relative to the
repository root (`src/` here); `P` stands for `apps/producer-service/src`, `W`
for `apps/worker-service/src/worker.ts`, `R` for
`packages/playwright-reporter/src` and `D` for
`apps/dashboard-client/src`. `PROJECT.json` maps every definition to the lines
it translates.

## 1. The system

A run is submitted to the **producer** (one Fastify process, so handlers
interleave at every `await`), written to MongoDB as `PENDING`, published to the
RabbitMQ queue `test_queue`, taken by one of ten **workers** (prefetch 1), run in a
Docker container, judged, and reported back to the producer with HTTP callbacks
that are broadcast to dashboards and folded into the **test cycle** the run
belongs to. A second road needs no worker: an external CI reports its own
run with `@agnox/playwright-reporter` through the **ingest API**; a **zombie
sweeper** ends such a run when its heartbeat stops. Around this execution path
stand the **services** of the producer (members, billing, login, limits,
schedules, settings, AI tools, integrations) and the **pages of the dashboard**
that show and edit their documents. They share no state with each other:
different collections or fields, Redis keys and browser state.

| component | state | what is hard | what makes it correct |
|---|---|---|---|
| submission (`P/config/routes.ts`, `P/routes/ci.ts`, `test-cycles.ts`, `pr-routing.ts`) | `executions`, `test_queue` | publish fails after the document is written; client retries one `taskId` | no run without a verdict is forgotten |
| worker (`W`) | document status, container, unacked message | crash and redelivery at each step, hung pull, timer, name conflict, failed writes | one container per task; every run settles; the worker becomes free |
| callback (`P/config/routes.ts` 205-338) | last broadcast, cycle document | callbacks are lost, late, duplicated | dashboards and database agree |
| test cycles (`P/routes/test-cycles.ts`) | items, summary, status | update, read back, write: three awaits, many handlers | completed exactly when all items are terminal |
| ingest, sweeper, reporter (`P/routes/ingest.ts`, `P/services/zombie-sweeper.ts`, `R`) | Redis session and results, documents, batcher | retried calls, Redis failure, restart, reordered batches, a sweep during a teardown | run and cycle agree, results complete, bypass justified, every run ends |
| members, invitations, signup | users, invitations, organizations | check, then write, in every handler; handlers that end halfway | an admin stays; an invitation admits once and while it is pending |
| billing, plan limits | plan of the organization, Stripe's subscriptions | events late, repeated, out of order; checks before inserts | the plan follows Stripe; usage stays within the plan |
| login lock, rate limiter, sessions, API keys | Redis keys with a TTL, tokens | several Redis calls per decision, expiry, lost keys | guesses and requests bounded; a credential ends alone and for good |
| schedules | collection and live jobs | API and start of the producer race | a job for each schedule and no other; fired runs keep their document |
| environment variables, settings, test cases, projects | documents | a form made from an older copy; answers late, lost or crossing | what is stored was stored last; a page at rest shows it |
| quarantine | metrics of a test case | background analyses overlap | quarantined exactly as the history says |
| live view, cycles page, bulk actions, launch form | pages of runs, query caches, drawers | socket events, answers and caches in any order | the page settles on what is stored |
| chatbot, bug reports, stability, Jira, PR routing | conversations, drafts, reports, issues | a language model answers after the user has moved on | the answer is filed where it was asked for |

Worker runs carry no `updatedAt` field, so the sweeper's query never matches
them: the sweeper belongs to the ingest road only, and a stranded worker run
has nobody to end it.

## 2. Modules

### The execution path

| module | models | state and actions against the code |
|---|---|---|
| `StatusRules` | the status vocabulary and the pure rules | `DetermineExecutionStatus` is `determineExecutionStatus`, the log reduced to the five facts its patterns look for; `ItemStatusOf`, `CallbackSummary`, `ComputeSummary`, `AllTerminal` are the derivations of the callback and of POST/PUT, which count ERROR items differently |
| `ExecutionLifecycle` | the promise about one document, seen from outside | the abstract specification `ExecutionPipeline` implements |
| `ExecutionPipeline` | submission, queue, workers, Docker, callbacks | one action per await of the consume handler (`WriteRunning` ... `Ack`), the producer's `Persist`, `Announce`, `Publish`, and the environment (`Crash`, `Restart`, `LoseCallback`) |
| `CycleSync` | one test cycle and all its writers | `PostCycle`/`PublishItem`/`LinkItems` is POST, `UpdateItem`/`Refetch`/`WriteSummary` the three awaited steps shared by callback and PUT |
| `Ingest` | reporter, HTTP client, ingest endpoints, sweeper | every handler cut at its awaits; each request has a stage, each reporter call is awaited or abandoned |
| `ExecutionPipelineProofs`, `CycleSyncProofs`, `IngestProofs` | theorems about the modules of that name | |
| `MCExecutionPipeline`, `MCCycleSync`, `MCIngest` | TLC instances: symmetry sets and the refinement mapping | |

### The services of the producer

| module | models | property |
|---|---|---|
| `Membership` | signup, invitations (sent, revoked, expired, accepted), roles, removal; every handler cut at its awaits, two unique indexes | `AdminKept`, `InvitationAdmitsOnce`, `AdmittedWhilePending` |
| `Subscription` | checkout, cancellation, every Stripe webhook, the two limits checked before an insert; Stripe is external | `PlanFollowsStripe`, `UsedWithinPlan` |
| `LoginLock` | the failure counter and the lock, attempts under way together | `GuessesBounded` |
| `RateLimiter` | INCR, PEXPIRE, PTTL, decision; an error at each of the calls, before or after it was executed, lets the request pass | `WindowKept` |
| `Sessions` | tokens, blacklist, API keys of several accounts, and who revoked them; time in seconds, the unit of `iat` | `CredentialsEndAlone` |
| `EnvVars` | POST, PUT, DELETE of environment variables, stored form against `isSecret`, injection | `EnvVarsKept` |
| `Scheduler` | the collection, the live jobs, start and stop, firings | `JobsFollowSchedules`, `FiredRunsKept` |
| `Quarantine` | results of one test by start of their runs, which overlap; analyses, which overlap too; the switch | `QuarantineFollowsResults`, `ToggleQuarantines` |
| `PrRouting` | one webhook delivery against the settings it reads | `RoutedFits` |

`AccessProofs` holds theorems about `RateLimiter`, `LoginLock`, `Sessions` and
`Subscription`, `MembershipProofs` about `Membership`, and `ServiceProofs` about
`Scheduler`, `EnvVars`, `Quarantine` and all the services together
(`MCServices`).

### The pages of the dashboard, with the routes behind them

| module | models | property |
|---|---|---|
| `LiveView` | one run in one dashboard: fetches, socket events, log chunks, hydration, deletion | `ViewSettles` |
| `BulkActions` | flat and grouped list, selection, bulk deletion and grouping | `BulkFits` |
| `LaunchForm` | the launch form and the defaults two components cache under one key | `LaunchFits` |
| `CyclePages` | list of cycles, builder, player of manual items | `CyclePageKept` |
| `TestLibrary` | test cases, drawer, generation, optimizer, another editor | `LibraryKept` |
| `JiraTicket` | the modal with its dependent lists, the issue and its link | `TicketsFit` |
| `BugReport` | draft, drawer, form, issue | `IssuesFit` |
| `Chat` | conversations, answers lost or after the page moved on, the sanitizer of pipelines | `ChatKept`, `PipelineScoped` |
| `Stability` | analysis (flag and runs read before two model calls, then the insertion, then the answer, which may be lost), selector, report, list of earlier reports | `StabilityFits` |
| `OrgSettings` | three settings tabs over the paths of one document | `OrgSettingsKept` |
| `ProjectSettings` | projects, run settings tab | `RunSettingsKept` |
| `Integrations` | Jira and Slack parts of a tab, tokens of CI providers | `IntegrationsKept` |
| `MembersPage` | lists of members and invitations edited in place, invite form | `MembersPageFits` |
| `ProfilePage` | name of the user, list of API keys | `ProfileFits` |
| `VariablesTab` | environment variables of the project selected | `VariablesFit` |
| `Lists` | `Sifted`, which is `Array.filter`: the messages of the chat, the reports of a group, the steps of a bug report | |

`PageProofs` holds theorems about `JiraTicket`, `Chat`, `LiveView`, `TestLibrary`,
`OrgSettings`, `ProjectSettings`, `LaunchForm`, `CyclePages` and `Stability`,
`RecordProofs` about the other pages, `PrRouting` and all of them together
(`MCPages`).

`MCServices` extends the service modules and `MCPages` the page modules and
`PrRouting`. In both the variable `focus` is the one module that moves; the
others stay in an initial state. As they share no variable, a step of one cannot
break a property of another, every violation of their interleaving is a
violation in one focus, and the type invariant is evaluated for the one that
moves. `RecordsKept` collects the property of each module whose record users
edit; it is stated module by module, each part in its module with its own
comment.

An operator introduced by a comment "Mutant of X" is a plausible bug in X. It
is used by no specification; the runs replace X by it to see that the property
it is meant for notices.

### Abstractions worth knowing

- *ExecutionPipeline.* A waiting message may be delivered next whatever its
  priority. A callback is a record until the producer handles or loses it, and
  the worker waits for the answer as `await notifyProducer` does. The container
  name `org_<org>_task_<task>` makes `box` a set of tasks, shared by all workers
  because they share one Docker socket. A failed MongoDB write of the RUNNING
  status leaves the handler (it is outside the `try`): Node 20 ends the process
  on the unhandled rejection. The same holds for the write in the `catch`
  block, but there `finally` still sends the ack, which may or may not reach
  the broker before the process ends: both are modelled. The producer accepts
  payloads the worker's schema refuses; which tasks are such is chosen
  initially. `stranded` records *why* a run was left alone, so that
  `NoRunForgotten` says there is no other reason.
- *CycleSync.* The array of items is a function from ids to statuses.
  `closable`, `settled`, `overlapped` and `lost` are history variables. A
  verdict is reported up to `MaxReports` times because redelivered runs report
  again. A handler may stop (exception or restart) after any step.
- *Ingest.* A call has at most two attempts. After a timeout the first request
  may still be in a handler. `sid` is the session the reporter learnt;
  a retried setup leaves a second one. The Redis result list is a bag of tests.
  Test ids are ids of test cases or not for the whole run (`caseIds`); only
  test cases can be quarantined. `Idle15` is the passing of fifteen minutes
  without anything else happening, so a call never outlives the heartbeat limit.
- *Pages.* A request is a record with a stage: asked, served (what the answer
  will be is fixed), arrived. Between stages anything else may happen, so answers
  cross. A value a user types is the number of its version. What a late or
  lost answer may spoil is recorded in a history variable (`doubt`, `why`,
  `crossed`, `behind`, ...) at the step that spoils it; the property then says
  that *nothing else* spoils the page. React Query is external: a query is
  fetched again when invalidated, and components share what is under its key.
- *Handlers with a language model.* What the model answers is any value of a
  small set; that its call may fail or take arbitrarily long is an action. An
  answer may be lost after the handler has stored something (`AnswerLost`,
  `ReportLost`): the page shows an error and the database holds the turn or the
  report. A connection lost while the handler still works is this case too, since
  the page learns of it no later than the handler ends.
- *What is excused.* The history variables excuse the hazard at the step where it
  strikes. A property therefore says that no other path does the same harm; it does
  not say that the hazard is harmless. In `PROJECT.json` such a hazard either names
  a property with a note on what of it is excluded, or names none.

## 3. Runs

| run | instance | asks | result |
|---|---|---|---|
| `pipeline_duplicates` | 1 task submitted twice, 2 workers, 1 crash, 1 failed write | `NoRunForgotten`, `OneContainerPerTask`, `FinalCallbackMatchesDocument`, `OrphanedTaskOnlyErrs`, types | holds |
| `pipeline_single` | 1 task, 2 workers, 1 crash, 1 failed write, fairness | `ImplementsLifecycle`, `EveryRunSettles`, `WorkerNeverBlocked`, `DashboardAgrees` | holds |
| `pipeline_hung_pull` | 1 task, 1 worker, pulls need not end | `WorkerNeverBlocked` | violated: see findings |
| `cycle_sync` | automated and manual item, 2 handlers, 2 reports, 1 edit, 1 stop | `CompletedOnlyIfClosable`, `CompletionNotMissed`, `SerialSummaryExact`, `CompletedForGood`, `CiCycleCompletes`, types | holds |
| `cycle_post_overwrites` | 2 automated items, 2 handlers | `SyncedResultKept` | violated |
| `ingest` | 2 tests, 1 timed-out call | `RunAndCycleAgree`, `ResultsComplete`, `BypassJustified`, types | holds |
| `ingest_faults` | 1 test, 1 fault, fairness | `VerdictLostOnlyToSweep`, `EveryRunEnds` | holds |
| `ingest_bypass` | 2 tests, no fault | `FailureNeedsQuarantine` | violated |
| `ingest_foreign_ids` | 1 test, no fault | `TeardownFinalises` | violated |
| `services` | the 8 service modules, one focus each | the properties of section 2, types | holds |
| `pages` | the 15 page modules and `PrRouting`, one focus each | the properties of section 2, types | holds |
| `quarantine_switch` | 1 test, 3 results, the toggle on | `ToggleQuarantines` | violated |

**Bounds.** `MaxRequests`, `MaxCrashes`, `MaxFaults`, `MaxReports`, `MaxPuts`,
`MaxStops`, `MaxTimeouts` and the `Max...` constants of the service modules cap
how often users and the environment act; every other action is unbounded. Tasks
share nothing but workers (a run never reads another's document), so one task
against two workers shows every race for a document, a container or a message;
two submissions give the smallest duplicate, and one crash reaches every
redelivery point. Two handlers and two items are the smallest cycle in which a
summary can be stale. Two tests let one batch be in flight while another is
drained. In the services two of everything that can cross suffice (two admins,
attempts, customers, projects, groups, visits of a page) and one fault, because
the properties exclude what a fault touched and say the rest is whole: a second
fault shows nothing the first did not. `ProfilePage` has one key, whose list is
asked for up to four times; `MembersPage` one colleague and two changes;
`VariablesTab` one variable and three acts, enough to edit a row of one project
under another. Sessions need two accounts (whose credential ends) and the limiter two
errors (the count of one request and the expiry of another); a pipeline needs three
stages for two of them to keep their order around the one that is moved. Deadlock is not checked because all of these systems may rest:
nobody has to submit, begin, or edit anything.

**Symmetry** is used only where a run checks no liveness property: workers in
`pipeline_duplicates`, tests in `ingest`, handlers in
`cycle_post_overwrites`.
`services` and `pages` use none.

**Fairness.** Per action, never on `Next`: an awaited MongoDB, Redis or Docker
control call ends, one way or the other; the broker delivers to an idle worker;
the timer fires; `restart: always` restarts; a message the producer has received
is handled. A client need not submit, a container need not exit, a test or suite
need not end, a CI job may be killed. `LiveSpec` adds two assumptions that the code does not
enforce, and only the runs that need them use it: image pulls end
(`RegistryAnswers`) and LLM calls end (`LlmAnswers`). Dropping the first gives
`pipeline_hung_pull`. The service and page modules state no fairness: their
properties say what holds when nothing is under way, not that it comes to that.

## 4. What the runs show

*Holds.* Crashes, redeliveries, timeouts and duplicate submissions forget no run;
only a failed publish, a refused message or a failed ERROR write does. Duplicate
deliveries never run a task twice at once, but a container left behind by a
dead worker makes every later attempt end in ERROR. A cycle never completes on
a mixture of reads, and the last concurrent update never misses completion.
Results of an external run are complete when no flush was in flight at teardown.
The promises of the services hold outside the interleavings their properties
name, and fail within them; each such exception is a state variable set by the
step that causes it, so that what is excluded can be read off the model.

*Does not hold* (each is a finding with its run):

1. A hung image pull blocks a worker: the pull is awaited before the
   `Promise.race` with the timer, although the comment says it is covered.
2. POST of a cycle overwrites a verdict that arrived while it was enqueueing.
3. A teardown that overtakes a flush files a FAILED run as PASSED without any
   quarantined test. The counterexample uses quarantined tests whose ids are those of
   test cases, as a client of the ingest API may send them; the reporter itself sends
   Playwright's ids (finding 4). (Without any race the bypass is also vacuous: a run that
   was interrupted while all received tests passed is filed as PASSED. And a
   skipped test counts as a real failure.)
4. A teardown throws for test ids that are not ObjectIds, which is what
   Playwright's are; the sweeper then files the run as ERROR.
5. The toggle of the automatic quarantine is written to `projectRunSettings` and
   read from `project_settings`, which no code writes: switching it on
   quarantines nothing.

*Seen while modelling*, excluded by name in the properties or outside them:

- Cycles: two concurrent callbacks may write their summaries in the opposite
  order of their reads, and the older one stays: `overlapped` in
  `SerialSummaryExact`. The status does not suffer (`CompletionNotMissed`).
- Members: a token keeps its role and organization until it expires; the limit
  on users compares a string with an ObjectId and never applies;
  `enforceProjectLimit` is not used. The form to invite, closed while it sends,
  closes the next one when the answer comes, and its error is shown to nobody.
- Profile: the button that saves the name compares it with the name the
  dashboard was loaded with, so a change cannot be taken back before a reload. An
  API key whose answer is lost, or comes after the tab was left, is live and
  known to nobody. Two keys made in one second are the same string.
- Environment variables tab: a save or deletion answered after the project was
  changed empties the form and shows the list of the former project; requests
  for those rows name the new project, and only the `projectId` in the queries
  of the routes keeps them apart.
- Settings: once `aiFeatures.rootCauseAnalysis` was set, the toggle
  `aiAnalysisEnabled` no longer changes what GET reports, and the worker reads
  the latter only. `PUT /api/integrations/jira` replaces the whole part. The
  Jira form says "leave blank to keep existing"
  (`D/components/settings/IntegrationsTab.tsx:406`) where PUT answers 400; the
  Slack form says "Leave empty to disable" (506) and leaves an empty URL out of
  the request. A CI provider whose token was stored but whose
  answer was lost is shown as not connected until the tab is opened again.
- Launch and cycles: a save of the run settings does not reach the defaults of
  the launch form for five minutes; the launch button can be pressed twice; items
  without steps can never be completed
  (`D/components/ManualExecutionDrawer.tsx:120`); saving an AUTOMATED test case
  in the drawer makes it MANUAL.
- AI tools: `chat_sessions` has no TTL index although one is claimed; the header
  of `P/routes/ai.ts` (10-12) says nothing is stored, 747 and 1238 store. A fresh
  stability report may be labelled historical; analyses count deleted and running
  runs. The assignee the Jira modal remembers is removed before it is read.
- Lists: a deleted run may come back from a fetch left under way for a view that
  is not on the screen; bulk actions include selected rows a filter hides; a
  selection made during a bulk request is dropped.
- PR routing takes the project whose settings were saved last, not the first
  configured as its comment says, and an empty staging URL is used rather than
  replaced.

## 5. Proofs

`ExecutionPipelineProofs` proves, for any set of tasks and workers and any
bounds, from `PipelineAssumption` (bounds are naturals) and `NoTaskAssumption`
(`NoTask` is no task):

- `PassedIsEarned`: what `DetermineExecutionStatus` requires for PASSED.
- `TypeCorrect` via `AlwaysTyped`. `TypeOK` is not inductive: that `exec` stays
  in range when a worker writes its verdict needs to know that a worker in a
  phase after the container's exit *has* a verdict (`VerdictKnown`), and that
  one that handles a message has a job (`JobHeld`, `NoJob`). `Typed` is their
  conjunction.
- `RunsAreRemembered`: `NoRunForgotten` is inductive relative to `Typed`. The
  argument goes action by action: an action that takes a run from one pursuer
  (request, message, worker) hands it to the next one, or writes a verdict, or
  records why not.
- `NeverTwoContainers`, through `Locked`: whoever has a container holds its
  task's name in `box`, and `StartContainer` needs that name to be free.
- `OrphansOnlyErr`, an action property: with the name taken and nobody owning
  the container, no handler of that task is in a phase between start and
  verdict (from `Typed` and `Locked`).
- `DashboardsAgree`, under `MaxRequests = 1` (with a client retry the last
  broadcast may be the PENDING of the second submission): while no worker has
  died the submission of a task is in one place (`InOnePlace`), a status is posted
  before the next one is written (`PostsAgree`), and so the dashboards show the
  document or will be told (`Shown`).
- `CallbackIsFaithful`, through `Attributed`: deliveries are numbered, a worker
  posts only for its own delivery, and posts a verdict only after writing it.

The same module proves `PipelineImplementsLifecycle` under `MaxRequests = 1`
(no task submitted twice; with two submissions a second `PENDING` overwrites a
verdict and the refinement is false). `Single` carries it: `OneToken` (the one
submission of a task is one message or one worker's job, never both) and
`Staged` (the status of the document is the one its worker's phase says; while
no worker has died, whoever receives a message finds a fresh document; a run
under analysis was not judged PASSED). `WorkSeen` and `ApiSeen` then map each
step: `WriteRunning` is `Start`, `Rerun` or a stutter, according to the status it
overwrites; `WriteFinal` and `WriteError` are `Conclude`; the three ways to die are
`WorkerDies`; everything but `Persist` and `WriteAnalyzing` is a stutter.

`CycleSyncProofs` proves, for any items, handlers and bounds:

- `TypeCorrect`, from `Typed` (a busy handler has an item; what is left to
  publish is automated).
- `NeverCompletedEarly`, through `Closing`: a snapshot whose items are all
  terminal was read from a document whose items were, so deciding on it may be
  late but is not wrong. The insert is the step that needs `Founded` (nothing
  is under way before it).
- `CompletionIsSeen`: among concurrent updates the one that came last reads all
  of them back (`Witnessed`): while the document is closable and not completed,
  a handler that will notice is still under way.
- `CompletionIsFinal`, an action property: the array that POST writes back has
  the members of the document (`SameMembers` in `Founded`), and every other write
  keeps the status or completes.
- `SerialSummaryIsExact`: without overlap a handler's snapshot is the document
  (`Alone`), hence the summary it writes is that of the items.

Each theorem is stated for `Spec` and thus holds for `FairSpec` and `LiveSpec`.

`IngestProofs` proves, for any finite set of tests, any `Outcome` among the three
and any number of timeouts and faults (`IngestAssumption`):

- `IngestTyped`. That no test is in the Redis list, or in what a teardown read,
  more than twice does not follow from the types: `Budget` counts, for each
  batch, what is in the list and what its two posts may still add (`Load`).
- `RunAndCycleTogether`, through `Agreement`: a run and its cycle differ only
  while a setup, a teardown or the sweep is between its two writes. `SetupWrites`
  says that nobody else writes before a setup has, and `Retries` that a call is
  posted again only when nobody waits for its first post.
- `FinalRunsComplete` and `QualityGateHolds`: while no call failed or timed out
  each call is posted once (`Unrepeated`), the list holds exactly the tests that
  are neither buffered nor in flight (`Delivered`), the teardown finds it complete
  (`Gathered`) and stores it before it gives a verdict (`Finished`). The
  exceptions of the two properties are the hypotheses of these parts, no more.
- `VerdictsLast`, an action property, through `Verdicts`: a run that the sweep
  holds and that has a verdict got it while the sweep held it.

`at` gives the stage of *every* possible request, so that the lemmas about the
building blocks of the actions (`Moved`) are about functions with a fixed domain.

`AccessProofs` proves, for any number of requests and any limits and lifetimes:

- `WindowIsKept`, through `Room`: the requests let through in the life of a key
  and those that will be never outnumber the counter, because INCR gives each
  its rank, unless a call to Redis threw for them: the property counts those
  (`failed`) apart, as the limiter fails open; and through `Timed`: only the request that created the key sets its
  expiry, so no key gets the expiry of another. `IsFiniteSet(Slot)` is assumed.
- `GuessesAreBounded`, through `Bounded`: without a lock, the guesses beyond the
  threshold belong to attempts still on their way to INCR, EXPIRE or the lock
  (`Accused`); with one, nobody joins the attempts that still judge
  (`Judging`); the two groups are disjoint. A failure that is counted below the
  threshold leaves `Accused`, and then the counter itself is the bound.
- `CredentialsAlwaysEndAlone`, through `Outlived`: the lifetime a logout computes
  before its call to Redis can only be too long. Keys are judged against
  `revocations`, the history of who revoked what: a revoked key is refused, and a
  refused one was revoked by its own user or has lost that user.
- `UsageIsWithinPlan`, from `SubscriptionAssumption` and `NoStripeAssumption` (the
  markers of "no customer" and "no subscription" are neither): usage *and* the
  requests between check and insert (`Reserved`) fit the plan.
- `StripeIsFollowed`, through `FollowInv`: while nothing went astray there is one
  customer and at most one live subscription, events are applied in the order of
  Stripe (`InTurn`), those of the last moment say what Stripe holds (`UpToDate`),
  and the document says it too or such an event is on its way (`Followed`).

`MembershipProofs` proves, for any users, addresses, organizations and invitations,
`MembershipTyped`, `AnAdminRemains`, `OneAdmission` and `AdmissionsWhilePending`.
`FoundersAssumption` says that the accounts at the start have distinct ids and
addresses and that each of their organizations has an admin, as a signup leaves
it (`P/routes/auth.ts` inserts the founder as admin). `Fresh` and `Housed` are
needed because handlers hold ids across awaits: an id given to a signup stays its
own, and an organization a handler names stays open. `Serial` says what a handler
of the members page *on its own* has read is still true when it writes, and
`UsedUp` that an invitation which let someone in is marked or is held, to be
marked, by that handler alone.

`ServiceProofs` proves, each for any values of the constants:

- `JobsAlwaysFollow` (`Claimed`: what has or will get a job is a schedule, being
  deleted, or orphaned; `Loaded`: where the job of a schedule is) and
  `FiredRunsAreKept`, which needs `NewRuns`: the run of an unstored firing is in no
  document, since runs are numbered.
- `VariablesKept`: an update that has read its document writes for the document as
  it is (`Grounded`), so stored form, flag and meaning stay together (`Meant`),
  and a request on its own has room (`Spacious`).
- `QuarantineAlwaysFollows`: the code grades one result at a time with what it
  knows, the property reads the whole history, ordered by the start of the runs as
  the aggregation sorts them. `Faithful`
  says that the next decision makes the two agree, `Lone` that an analysis on its own has
  read the results with which the last run ended. The second half, `Repaired`, needs no assumption on
  what came before: the next analysis that is alone repairs the grade and the flag.
- `ServicesAlwaysTyped`: the type invariant of the run `services`. `ServicesInv` is the
  invariant of the service that moves; a step belongs to that service
  (`ServicesStep`). That an event names a customer at all, and a moment at which
  Stripe emitted something, needs `Billed` and `Counted` in `AccessProofs`.

`PageProofs` and `RecordProofs` prove the properties of the pages:

- `TicketsAlwaysFit`: what the modal offers, shows and still asks for belongs to
  the project and type that are chosen (`Offered`); this is where the cancelled
  requests matter, since an answer to the lists of an earlier choice finds nobody.
- `PipelinesAreScoped`: the sanitizer removes the first match and puts its own in
  front, then inserts the redaction and a limit; the other stages keep their order. It
  is proved for pipelines of any length, where TLC tries those up to `MaxStages`.
- `ViewAlwaysSettles`: `Settling` is about the rows that will be shown in the end,
  those of an answer on its way or else the page's own. They are right as soon
  as the last status on the wire (`InOrder`) has arrived. `Logs` bounds every log by
  what was read, so that a late hydration never replaces a complete log.
- `ChatAlwaysKept`: an idle page shows the stored answers of its conversation, for any
  number of questions, visits and conversations. `Turns` says that a stored
  conversation alternates, `Addressed` what the question under way knows of the
  conversation it was asked in, and `Paired` that the answers of the page are the stored
  ones, but for the one just stored and those whose answer was lost. It rests on lemmas
  about `Sifted` (of an appended element, of a prefix, sifted twice), which are proved by induction over
  the length; this is why `Array.filter` is a recursive function in `Lists`.
- `ViewAlwaysTyped` (`ViewBounded`): no log in the model is longer than
  `2 * MaxChunks`. A log shown can be twice the length of the stored one, because a
  chunk may be hydrated and then come over the socket as well: what is shown is
  at most two for each chunk read less those still under way.
- `LibraryAlwaysKept` (`TextsKept`, `AppliedKept`): a request that carries a whole test
  case carries the last text, unless the case was overtaken since its form was made.
- `OrgAlwaysKept` (`ReadsTold`, `PanelsTold`, `TabsCurrent`): a PATCH names its own paths
  only, and a value a tab was told is the stored one until it is marked `behind`.
  `OrgSettingsPaths` assumes that the tabs have disjoint paths; TLC evaluates it.
- `RunSettingsAlwaysKept` (`SettingsFresh`): the version a form was made from is the
  stored one unless its `why` says otherwise, and so is that of every answer which
  may still fill the form. Projects have distinct names (`ProjectsDistinct`).
- `LaunchAlwaysFits` (`FitsDefaults`, `WithVersion`): the URL was made from the defaults in
  the cache for the environment shown.
- `CyclePageAlwaysKept` (`VerdictsFit`, `ListingFresh`, `PageFresh`): while the page differs
  from the table, a fetch that will see the difference is still to come.
- `StabilityAlwaysFits` (`ReportsSound`, `ReportsOfGroup`, `ListOfGroup`): a report counts
  runs that had ended when its handler read them, and the answer to a list is the list of its
  group or comes before the insertion it misses.
- `IssuesAlwaysFit` (`BugOpen`, `IssueFits`), `BulkAlwaysFits` (`DoneWell`, `ErasedStay`,
  `ListsCurrent`), `IntegrationsAlwaysKept` (`JiraFits`, `SlackFits`, `CiFits`), `ProfileAlwaysFits`
  (`KeysAccounted`, `RowsCurrent`), `MembersPageAlwaysFits` (`UsersFit`, `InvitesFit`),
  `VariablesAlwaysFit` (`VarOwned`, `VarCurrent`): in each, the second part of the
  property extended to the answers under way. An answer that was read is either
  what is stored, or the change it missed is still to be shown, or the history
  variable already says so. `RoutedAlwaysFits` needs only what a delivery under way has
  read (`Underway`).
- `RecordsAlwaysKept` and `PagesAlwaysTyped`: `RecordsKept` and the type invariant of the
  run `pages`, from the invariants of the pages (`PageInv`, `PagesStep`).

The types an argument uses are often wider than the `TypeOK` of its module (a log is
any sequence of numbers); the bounds are an invariant of their own where they need
one (`ViewTypes`, `TicketTypes`, `SubscriptionTypes`, `SchedulerTypes`, `SessionTypes`).

Each inductive invariant was also checked by TLC, on the instances of the runs or
smaller ones (in the profile page's, the largest number of a list was looked for
below a bound, since TLC does not enumerate Nat).

Every invariant, action property and refinement that a passing run checks is thus a
theorem. Only model-checked are the liveness properties (`EveryRunSettles`,
`WorkerNeverBlocked`, `CiCycleCompletes`, `EveryRunEnds`): fairness and ENABLED are out
of the prover's reach.

The library states induction with an operator as a parameter, which the provers
cannot instantiate. `LeastOfNaturals` gives the least element of a set of naturals
from the well-foundedness of their order; the first match of a pipeline and the
lemmas about lists of any length are arguments about a least counterexample.

Proving changed the models where they could not be reasoned about or said too
little: assumptions that the text relied on were stated (`"none"` is no project
and no failed run, projects are finite and there is one, a verdict can be `PASSED`),
`Stability` counts the runs that ended, and `reworked` in `TestLibrary` also records a
case that was suggested again while its save was on its way. Without the last one the
property of the optimizer held on the instance, but its invariant was not inductive.

## 6. Not modelled, and why

- *Fair scheduling.* Only two of the submission paths compute a priority
  (`P/config/routes.ts:639`, `P/routes/pr-routing.ts:248`), and RabbitMQ serves
  priorities strictly: a bound on waiting would be a property of the broker.
- *E-mail, Slack, PR comments.* Outgoing calls whose failure is swallowed and whose
  outcome no state depends on. `P/utils/emailRetry.ts` and `usageMonitor.ts` are
  called by nobody.
- *Worker analysis service, report parser, analytics and report pages, monitor.* Pure
  functions and reads.
- *Migrations and deployment.* Run once; the indexes they create, ten workers on
  one Docker daemon, `restart: always` and Redis with a volume are assumptions
  of the models.
- *Views without a protocol*: filters, sidebar, terminal, tours, layout, and
  `D/hooks/useSettings.ts`, which no component uses.
- In modelled pages: pages of a list after the first, live updates of the grouped
  list and failed list requests (`BulkActions`), wording and formats
  everywhere.

## 7. Plan

1. Composition of `ExecutionPipeline` and `CycleSync` (the callback of one is
   the report of the other), and an abstract `RunFinalisation` that `Ingest`
   implements when nothing failed; `FinalRunsComplete` and `VerdictsLast` are its
   step argument.
2. `Quarantine` composed with `Ingest`, whose `quarantined` becomes a variable.
