--------------------------- MODULE ServiceProofs ----------------------------
(***************************************************************************)
(* Proofs about services that stand beside the runs, for any values of     *)
(* their constants, and about all the services of the producer together.   *)
(*                                                                         *)
(* Scheduler. Claimed says that whatever has a job, or will get one, is a  *)
(* schedule, is being deleted or is recorded as orphaned. Loaded says      *)
(* where the job of a schedule is: in memory, found by the start, or with  *)
(* its POST.                                                               *)
(*                                                                         *)
(* EnvVars. Grounded says what an update that has read its variable is     *)
(* still based on, Meant that no variable that was not torn differs from   *)
(* what its users typed, and Spacious that a request on its own has room.  *)
(*                                                                         *)
(* Quarantine. Lone says that an analysis which is alone has seen every    *)
(* result, Repaired what it leaves behind, and Faithful that while each    *)
(* has been alone what it decides agrees with the whole history: one more  *)
(* end changes that as one decision changes the test case (HoldsAppends,   *)
(* OutcomeOf), since a streak of failures excludes a last pass.            *)
(*                                                                         *)
(* All the services. ServicesInv is the invariant of the service that      *)
(* moves.                                                                  *)
(***************************************************************************)
EXTENDS MCServices, MembershipProofs, AccessProofs, FiniteSetTheorems, SequenceTheorems, TLAPS

----------------------------------------------------------------------------
(***************************** The CRON scheduler ****************************)

\* The part of the types that the arguments below rest on.
Known ==
    /\ schedules \subseteq schedulesEver /\ deleting \subseteq schedulesEver
    /\ schedules \cap deleting = {}
    /\ \A f \in firings : f = [run |-> f.run, stored |-> f.stored]
    /\ fired \in Nat

Claimed == activeJobs \cup creating \cup boot.found \subseteq schedules \cup deleting \cup orphaned

Loaded ==
    /\ boot.phase = "loading" => schedules \subseteq activeJobs \cup creating \cup boot.found
    /\ boot.phase = "up" /\ ~unloaded => schedules \subseteq activeJobs \cup creating

\* A run has one firing, and no document until that firing stores it.
NewRuns ==
    /\ \A f \in firings : f.run.no \in Nat /\ f.run.no < fired
    /\ \A r \in pendingRuns : r.no \in Nat /\ r.no < fired
    /\ \A f, g \in firings : f.run = g.run => f = g
    /\ \A f \in firings : ~f.stored => f.run \notin pendingRuns

Stored ==
    /\ \A f \in firings : f.stored => f.run \in pendingRuns
    /\ FiredRunsKept

SchedulerInv == Known /\ Claimed /\ Loaded /\ NewRuns /\ Stored

----------------------------------------------------------------------------
LEMMA SchedulerStarts == SchedulerInit => SchedulerInv
  BY DEF SchedulerInit, SchedulerInv, Known, Claimed, Loaded, NewRuns, Stored, FiredRunsKept

LEMMA KnownKept ==
    ASSUME Known, [SchedulerNext]_schedulerVars
    PROVE  Known'
<1> USE SchedulerAssumption DEF Known, Up, Loss, requestVars, runVars
<1>1. CASE Listen
  BY <1>1 DEF Listen
<1>2. CASE FindSchedules
  BY <1>2 DEF FindSchedules
<1>3. CASE RegisterFound
  BY <1>3 DEF RegisterFound
<1>4. CASE InsertSchedule
  BY <1>4 DEF InsertSchedule
<1>5. CASE AddScheduledJob
  BY <1>5 DEF AddScheduledJob
<1>6. CASE DeleteSchedule
  BY <1>6 DEF DeleteSchedule
<1>7. CASE RemoveScheduledJob
  BY <1>7 DEF RemoveScheduledJob
<1>8. CASE StopProducer
  BY <1>8 DEF StopProducer
<1>9. CASE Fire
  BY <1>9 DEF Fire
<1>10. CASE StoreRun
  BY <1>10 DEF StoreRun
<1>11. CASE SendRun
  BY <1>11 DEF SendRun
<1>12. CASE FiringFails
  BY <1>12 DEF FiringFails
<1>13. CASE UNCHANGED schedulerVars
  BY <1>13 DEF schedulerVars
<1> QED BY <1>1, <1>2, <1>3, <1>4, <1>5, <1>6, <1>7,
           <1>8, <1>9, <1>10, <1>11, <1>12, <1>13 DEF SchedulerNext

\* A job whose schedule is gone is recorded before its DELETE is over.
LEMMA ClaimedKept ==
    ASSUME Claimed, [SchedulerNext]_schedulerVars
    PROVE  Claimed'
<1> USE SchedulerAssumption DEF Claimed, Up, Loss, requestVars, runVars
<1>1. CASE Listen
  BY <1>1 DEF Listen
<1>2. CASE FindSchedules
  BY <1>2 DEF FindSchedules
<1>3. CASE RegisterFound
  BY <1>3 DEF RegisterFound
<1>4. CASE InsertSchedule
  BY <1>4 DEF InsertSchedule
<1>5. CASE AddScheduledJob
  BY <1>5 DEF AddScheduledJob
<1>6. CASE DeleteSchedule
  BY <1>6 DEF DeleteSchedule
<1>7. CASE RemoveScheduledJob
  BY <1>7 DEF RemoveScheduledJob
<1>8. CASE StopProducer
  BY <1>8 DEF StopProducer
<1>9. CASE Fire
  BY <1>9 DEF Fire
<1>10. CASE StoreRun
  BY <1>10 DEF StoreRun
<1>11. CASE SendRun
  BY <1>11 DEF SendRun
<1>12. CASE FiringFails
  BY <1>12 DEF FiringFails
<1>13. CASE UNCHANGED schedulerVars
  BY <1>13 DEF schedulerVars
<1> QED BY <1>1, <1>2, <1>3, <1>4, <1>5, <1>6, <1>7,
           <1>8, <1>9, <1>10, <1>11, <1>12, <1>13 DEF SchedulerNext

\* A DELETE removes no job of a schedule that is still there: ids are not used again.
LEMMA LoadedKept ==
    ASSUME Known, Loaded, [SchedulerNext]_schedulerVars
    PROVE  Loaded'
<1> USE SchedulerAssumption DEF Known, Loaded, Up, Loss, requestVars, runVars
<1>1. CASE Listen
  BY <1>1 DEF Listen
<1>2. CASE FindSchedules
  BY <1>2 DEF FindSchedules
<1>3. CASE RegisterFound
  BY <1>3 DEF RegisterFound
<1>4. CASE InsertSchedule
  BY <1>4 DEF InsertSchedule
<1>5. CASE AddScheduledJob
  BY <1>5 DEF AddScheduledJob
<1>6. CASE DeleteSchedule
  BY <1>6 DEF DeleteSchedule
<1>7. CASE RemoveScheduledJob
  BY <1>7 DEF RemoveScheduledJob
<1>8. CASE StopProducer
  BY <1>8 DEF StopProducer
<1>9. CASE Fire
  BY <1>9 DEF Fire
<1>10. CASE StoreRun
  BY <1>10 DEF StoreRun
<1>11. CASE SendRun
  BY <1>11 DEF SendRun
<1>12. CASE FiringFails
  BY <1>12 DEF FiringFails
<1>13. CASE UNCHANGED schedulerVars
  BY <1>13 DEF schedulerVars
<1> QED BY <1>1, <1>2, <1>3, <1>4, <1>5, <1>6, <1>7,
           <1>8, <1>9, <1>10, <1>11, <1>12, <1>13 DEF SchedulerNext

LEMMA NewRunsKept ==
    ASSUME Known, NewRuns, [SchedulerNext]_schedulerVars
    PROVE  NewRuns'
<1> USE SchedulerAssumption DEF Known, NewRuns, Up, Loss, requestVars, runVars
<1>1. CASE Listen
  BY <1>1 DEF Listen
<1>2. CASE FindSchedules
  BY <1>2 DEF FindSchedules
<1>3. CASE RegisterFound
  BY <1>3 DEF RegisterFound
<1>4. CASE InsertSchedule
  BY <1>4 DEF InsertSchedule
<1>5. CASE AddScheduledJob
  BY <1>5 DEF AddScheduledJob
<1>6. CASE DeleteSchedule
  BY <1>6 DEF DeleteSchedule
<1>7. CASE RemoveScheduledJob
  BY <1>7 DEF RemoveScheduledJob
<1>8. CASE StopProducer
  BY <1>8 DEF StopProducer
<1>9. CASE Fire
  <2>1. PICK s \in activeJobs :
            firings' = firings \cup
                         {[run |-> [no |-> fired, schedule |-> s], stored |-> FALSE]}
    BY <1>9 DEF Fire
  <2> DEFINE new == [run |-> [no |-> fired, schedule |-> s], stored |-> FALSE]
  <2>2. /\ new.run.no = fired /\ ~new.stored
        /\ firings' = firings \cup {new} /\ fired' = fired + 1 /\ pendingRuns' = pendingRuns
    BY <1>9, <2>1 DEF Fire
  <2> HIDE DEF new
  <2> QED BY <2>2
<1>10. CASE StoreRun
  BY <1>10 DEF StoreRun
<1>11. CASE SendRun
  BY <1>11 DEF SendRun
<1>12. CASE FiringFails
  BY <1>12 DEF FiringFails
<1>13. CASE UNCHANGED schedulerVars
  BY <1>13 DEF schedulerVars
<1> QED BY <1>1, <1>2, <1>3, <1>4, <1>5, <1>6, <1>7,
           <1>8, <1>9, <1>10, <1>11, <1>12, <1>13 DEF SchedulerNext

\* A run leaves firings for the queue or for unsent, and never before it is stored.
LEMMA StoredKept ==
    ASSUME Known, NewRuns, Stored, [SchedulerNext]_schedulerVars
    PROVE  Stored'
<1> USE SchedulerAssumption DEF Known, NewRuns, Stored, FiredRunsKept, Up, Loss, requestVars, runVars
<1>1. CASE Listen
  BY <1>1 DEF Listen
<1>2. CASE FindSchedules
  BY <1>2 DEF FindSchedules
<1>3. CASE RegisterFound
  BY <1>3 DEF RegisterFound
<1>4. CASE InsertSchedule
  BY <1>4 DEF InsertSchedule
<1>5. CASE AddScheduledJob
  BY <1>5 DEF AddScheduledJob
<1>6. CASE DeleteSchedule
  BY <1>6 DEF DeleteSchedule
<1>7. CASE RemoveScheduledJob
  BY <1>7 DEF RemoveScheduledJob
<1>8. CASE StopProducer
  <2>1. \A f \in firings : f.stored => f.run \in unsent'
    BY <1>8 DEF StopProducer
  <2> QED BY <1>8, <2>1 DEF StopProducer
<1>9. CASE Fire
  BY <1>9 DEF Fire
<1>10. CASE StoreRun
  <2>1. PICK f \in firings :
            /\ pendingRuns' = pendingRuns \cup {f.run}
            /\ firings' = (firings \ {f}) \cup {[run |-> f.run, stored |-> TRUE]}
    BY <1>10 DEF StoreRun
  <2>2. \A g \in firings : \E h \in firings' : h.run = g.run
    BY <2>1
  <2>3. /\ [run |-> f.run, stored |-> TRUE] \in firings'
        /\ [run |-> f.run, stored |-> TRUE].run = f.run
    BY <2>1
  <2>4. \E h \in firings' : h.run = f.run
    BY <2>3
  <2> QED BY <1>10, <2>1, <2>2, <2>4 DEF StoreRun
<1>11. CASE SendRun
  BY <1>11 DEF SendRun
<1>12. CASE FiringFails
  <2>1. PICK f \in firings :
            /\ firings' = firings \ {f}
            /\ unsent' = IF f.stored THEN unsent \cup {f.run} ELSE unsent
    BY <1>12 DEF FiringFails
  <2> QED BY <1>12, <2>1 DEF FiringFails
<1>13. CASE UNCHANGED schedulerVars
  BY <1>13 DEF schedulerVars
<1> QED BY <1>1, <1>2, <1>3, <1>4, <1>5, <1>6, <1>7,
           <1>8, <1>9, <1>10, <1>11, <1>12, <1>13 DEF SchedulerNext

----------------------------------------------------------------------------
\* The five parts hold in every state.
THEOREM SchedulerInvariant == SchedulerSpec => []SchedulerInv
<1>1. SchedulerInv /\ [SchedulerNext]_schedulerVars => SchedulerInv'
  BY KnownKept, ClaimedKept, LoadedKept, NewRunsKept, StoredKept DEF SchedulerInv
<1> QED BY SchedulerStarts, <1>1, PTL DEF SchedulerSpec

\* Schedules and jobs (schedules.ts, scheduler.ts): whatever requests, starts and
\* stops come between, a loaded producer at rest has a job for every schedule, and
\* no job but those and the ones recorded as orphaned.
THEOREM JobsAlwaysFollow == SchedulerSpec => []JobsFollowSchedules
<1>1. SchedulerInv => JobsFollowSchedules
  BY DEF SchedulerInv, Claimed, Loaded, JobsFollowSchedules
<1> QED BY SchedulerInvariant, <1>1, PTL

\* fireSchedule (scheduler.ts): the queue holds no run without a document, and a
\* PENDING document without a message is accounted for.
THEOREM FiredRunsAreKept == SchedulerSpec => []FiredRunsKept
<1>1. SchedulerInv => FiredRunsKept
  BY DEF SchedulerInv, Stored
<1> QED BY SchedulerInvariant, <1>1, PTL

\* SchedulerTypeOK is inductive once what a start has found is known to have existed.
SchedulerTypes == SchedulerTypeOK /\ boot.found \subseteq schedulesEver

LEMMA BootRecord ==
    ASSUME NEW phase \in {"down", "listening", "loading", "up"}, NEW found \in SUBSET Schedule
    PROVE  /\ [phase |-> phase, found |-> found]
                \in [phase : {"down", "listening", "loading", "up"}, found : SUBSET Schedule]
           /\ [phase |-> phase, found |-> found].found = found
OBVIOUS

LEMMA SchedulerTypesStart == SchedulerInit => SchedulerTypes
<1>1. 0 \in 0..MaxFires /\ 0 \in 0..MaxBoots /\ 0 \in 0..MaxLosses
  BY SchedulerAssumption
<1> SUFFICES ASSUME SchedulerInit PROVE SchedulerTypes
  OBVIOUS
<1>2. /\ boot \in [phase : {"down", "listening", "loading", "up"}, found : SUBSET Schedule]
      /\ boot.found \subseteq schedulesEver
  BY BootRecord DEF SchedulerInit
<1> QED BY <1>1, <1>2 DEF SchedulerInit, SchedulerTypes, SchedulerTypeOK

LEMMA SchedulerTypesStep == SchedulerTypes /\ [SchedulerNext]_schedulerVars => SchedulerTypes'
<1> SUFFICES ASSUME SchedulerTypes, [SchedulerNext]_schedulerVars PROVE SchedulerTypes'
  OBVIOUS
<1> USE SchedulerAssumption DEF SchedulerTypes, SchedulerTypeOK, Up, Loss, requestVars, runVars
<1>1. CASE Listen
  <2>1. boot' = [phase |-> "listening", found |-> {}] /\ boots' \in 0..MaxBoots
    BY <1>1 DEF Listen
  <2>2. /\ boot' \in [phase : {"down", "listening", "loading", "up"}, found : SUBSET Schedule]
        /\ boot'.found = {}
    <3>1. {} \in SUBSET Schedule
      OBVIOUS
    <3> QED BY <2>1, <3>1
  <2> QED BY <1>1, <2>1, <2>2 DEF Listen
<1>2. CASE FindSchedules
  <2>1. \/ boot' = [phase |-> "loading", found |-> schedules]
        \/ boot' = [phase |-> "up", found |-> {}]
    BY <1>2 DEF FindSchedules
  <2>2. /\ boot' \in [phase : {"down", "listening", "loading", "up"}, found : SUBSET Schedule]
        /\ boot'.found \subseteq schedulesEver
    <3>1. schedules \in SUBSET Schedule /\ {} \in SUBSET Schedule
      OBVIOUS
    <3>2. CASE boot' = [phase |-> "loading", found |-> schedules]
      BY <3>1, <3>2
    <3>3. CASE boot' = [phase |-> "up", found |-> {}]
      BY <3>1, <3>3
    <3> QED BY <2>1, <3>2, <3>3
  <2>3. losses' \in 0..MaxLosses
    <3>1. losses' = losses \/ (losses < MaxLosses /\ losses' = losses + 1)
      BY <1>2 DEF FindSchedules
    <3> QED BY <3>1
  <2>4. unloaded' \in BOOLEAN
    BY <1>2 DEF FindSchedules
  <2> QED BY <1>2, <2>2, <2>3, <2>4 DEF FindSchedules
<1>3. CASE RegisterFound
  BY <1>3 DEF RegisterFound
<1>4. CASE InsertSchedule
  BY <1>4 DEF InsertSchedule
<1>5. CASE AddScheduledJob
  BY <1>5 DEF AddScheduledJob
<1>6. CASE DeleteSchedule
  BY <1>6 DEF DeleteSchedule
<1>7. CASE RemoveScheduledJob
  BY <1>7 DEF RemoveScheduledJob
<1>8. CASE StopProducer
  BY <1>8 DEF StopProducer
<1>9. CASE Fire
  <2>1. PICK s \in activeJobs :
          firings' = firings \cup {[run |-> [no |-> fired, schedule |-> s], stored |-> FALSE]}
    BY <1>9 DEF Fire
  <2>2. [no |-> fired, schedule |-> s] \in Run
    BY <2>1 DEF Run
  <2>3. [run |-> [no |-> fired, schedule |-> s], stored |-> FALSE] \in [run : Run, stored : BOOLEAN]
    BY <2>2
  <2>4. fired' \in 0..MaxFires
    BY <1>9 DEF Fire
  <2> QED BY <1>9, <2>1, <2>3, <2>4 DEF Fire
<1>10. CASE StoreRun
  BY <1>10 DEF StoreRun
<1>11. CASE SendRun
  BY <1>11 DEF SendRun
<1>12. CASE FiringFails
  BY <1>12 DEF FiringFails
<1>13. CASE UNCHANGED schedulerVars
  BY <1>13 DEF schedulerVars
<1> QED
  BY <1>1, <1>2, <1>3, <1>4, <1>5, <1>6, <1>7, <1>8, <1>9, <1>10, <1>11, <1>12, <1>13
  DEF SchedulerNext

LEMMA SchedulerTypesFit == SchedulerTypes => SchedulerTypeOK
BY DEF SchedulerTypes

----------------------------------------------------------------------------
(************************ The environment variables *************************)
\* An update under way is based on what the variable still is, unless another PUT
\* wrote it meanwhile.
Grounded ==
    \A p \in envPuts :
        /\ p.content = Rewritten(p.seen, p.typed, p.isSecret)
        /\ p.seen.id \in envUsed
        /\ \A d \in envVars : d.id = p.seen.id /\ d.id \notin torn => d = p.seen

Meant == \A d \in envVars : d.id \notin torn => d.sealed = d.isSecret /\ d.value = meant[d.id]

\* A POST on its own has room for its variable.
Spacious ==
    /\ IsFiniteSet(envVars)
    /\ crowded \/ Cardinality(envVars) <= MaxVars
    /\ crowded \/ \A p \in envPosts : envPosts = {p} /\ Cardinality(envVars) < MaxVars

EnvTyped ==
    /\ EnvVarsTypeOK
    /\ \A d \in envVars : d.id \in envUsed

EnvInv == EnvTyped /\ Grounded /\ Meant /\ Spacious

LEMMA GivenTyped ==
    ASSUME NEW S, NEW field \in SUBSET S, NEW x \in S
    PROVE  /\ Given(field, x) \in S
           /\ field # {} => Given(field, x) \in field
           /\ field = {} => Given(field, x) = x
           /\ \A y : field # {} => Given(field, y) = Given(field, x)
  BY DEF Given

LEMMA GivenOne ==
    ASSUME NEW c, NEW x
    PROVE  Given({c}, x) = c
  BY DEF Given

LEMMA ChangedTyped ==
    ASSUME NEW d \in EnvDoc, NEW p \in envPuts, EnvVarsTypeOK
    PROVE  /\ Changed(d, p) \in EnvDoc
           /\ Changed(d, p).id = d.id
           /\ Changed(d, p).key = Given(p.key, d.key)
           /\ p.key = {} => Changed(d, p).key = d.key
           /\ p.key # {} => Changed(d, p).key \in p.key
<1>1. /\ d.id \in EnvId /\ d.key \in EnvKey /\ d.value \in EnvValue /\ d.sealed \in BOOLEAN
      /\ d.isSecret \in BOOLEAN
  BY DEF EnvDoc
<1>2. /\ p.key \in SUBSET EnvKey /\ p.content \in SUBSET Content /\ p.isSecret \in SUBSET BOOLEAN
  BY DEF EnvVarsTypeOK
<1> DEFINE c == Given(p.content, [value |-> d.value, sealed |-> d.sealed])
<1>3. c \in Content
  <2>1. [value |-> d.value, sealed |-> d.sealed] \in Content
    BY <1>1 DEF Content
  <2> QED BY <1>2, <2>1, GivenTyped
<1>4. /\ Given(p.key, d.key) \in EnvKey /\ Given(p.isSecret, d.isSecret) \in BOOLEAN
      /\ p.key = {} => Given(p.key, d.key) = d.key
      /\ p.key # {} => Given(p.key, d.key) \in p.key
  <2>1. Given(p.isSecret, d.isSecret) \in BOOLEAN
    BY <1>1, <1>2, GivenTyped
  <2>2. /\ Given(p.key, d.key) \in EnvKey
        /\ p.key = {} => Given(p.key, d.key) = d.key
        /\ p.key # {} => Given(p.key, d.key) \in p.key
    BY <1>1, <1>2 DEF Given
  <2> QED BY <2>1, <2>2
<1>5. c.value \in EnvValue /\ c.sealed \in BOOLEAN
  BY <1>3 DEF Content
<1> HIDE DEF c
<1>6. Changed(d, p) = [id |-> d.id, key |-> Given(p.key, d.key), value |-> c.value,
                       sealed |-> c.sealed, isSecret |-> Given(p.isSecret, d.isSecret)]
  BY DEF Changed, c
<1> QED BY <1>1, <1>4, <1>5, <1>6 DEF EnvDoc

\* What a PUT on its own makes of a variable is what its user meant.
LEMMA ChangedMeant ==
    ASSUME NEW d \in EnvDoc, NEW p \in envPuts, EnvVarsTypeOK, d.sealed = d.isSecret,
           p.content = Rewritten(d, p.typed, p.isSecret)
    PROVE  /\ Changed(d, p).sealed = Changed(d, p).isSecret
           /\ Changed(d, p).value = Given(p.typed, d.value)
<1>1. d.value \in EnvValue /\ d.isSecret \in BOOLEAN
  BY DEF EnvDoc
<1>2. p.typed \in SUBSET EnvValue /\ p.isSecret \in SUBSET BOOLEAN
  BY DEF EnvVarsTypeOK
<1> DEFINE c == Given(p.content, [value |-> d.value, sealed |-> d.sealed])
<1>3. /\ Changed(d, p).sealed = c.sealed /\ Changed(d, p).value = c.value
      /\ Changed(d, p).isSecret = Given(p.isSecret, d.isSecret)
  BY DEF Changed
<1>4. CASE p.content = {}
  <2>1. p.typed = {} /\ Given(p.isSecret, d.isSecret) = d.isSecret
    BY <1>4 DEF Rewritten
  <2>2. c = [value |-> d.value, sealed |-> d.sealed]
    BY <1>4 DEF Given
  <2>3. Given(p.typed, d.value) = d.value
    BY <2>1 DEF Given
  <2> QED BY <1>3, <2>1, <2>2, <2>3
<1>5. CASE p.content # {}
  <2>1. p.content = {[value |-> Given(p.typed, d.value), sealed |-> Given(p.isSecret, d.isSecret)]}
    BY <1>5 DEF Rewritten
  <2> DEFINE other == [value |-> d.value, sealed |-> d.sealed]
             sealing == [value |-> Given(p.typed, d.value), sealed |-> Given(p.isSecret, d.isSecret)]
  <2>2. c = sealing
    <3>1. p.content = {sealing} /\ c = Given(p.content, other)
      BY <2>1
    <3> HIDE DEF sealing, other, c
    <3>2. Given({sealing}, other) = sealing
      BY GivenOne
    <3> QED BY <3>1, <3>2
  <2> QED BY <1>3, <2>2
<1> QED BY <1>4, <1>5

LEMMA EnvTypedKept ==
    ASSUME EnvTyped, Grounded, [EnvVarsNext]_envVarsVars
    PROVE  EnvTyped'
<1> USE EnvVarsAssumption DEF EnvTyped, EnvVarsTypeOK, EnvCall
<1>1. ASSUME NEW key \in EnvKey, NEW value \in EnvValue, NEW isSecret \in BOOLEAN,
             StartPost(key, value, isSecret)
      PROVE  EnvTyped'
  BY <1>1 DEF StartPost
<1>2. ASSUME NEW d \in envVars, NEW k \in Optional(EnvKey), NEW v \in Optional(EnvValue),
             NEW s \in Optional(BOOLEAN), StartPut(d, k, v, s)
      PROVE  EnvTyped'
  <2>1. k \subseteq EnvKey /\ v \subseteq EnvValue /\ s \subseteq BOOLEAN
    BY DEF Optional
  <2>2. d \in EnvDoc /\ d.value \in EnvValue /\ d.isSecret \in BOOLEAN
    BY DEF EnvDoc
  <2>3. Given(v, d.value) \in EnvValue /\ Given(s, d.isSecret) \in BOOLEAN
    BY <2>1, <2>2, GivenTyped
  <2>4. Rewritten(d, v, s) \subseteq Content
    BY <2>3 DEF Rewritten, Content
  <2>5. [call |-> envCalls, seen |-> d, key |-> k, isSecret |-> s, typed |-> v,
         content |-> Rewritten(d, v, s)] \in
           [call : Nat, seen : EnvDoc, key : SUBSET EnvKey, content : SUBSET Content,
            isSecret : SUBSET BOOLEAN, typed : SUBSET EnvValue]
    BY <2>1, <2>2, <2>4
  <2> QED BY <1>2, <2>5 DEF StartPut
<1>3. CASE InsertVar
  <2>1. PICK p \in envPosts, id \in EnvId \ envUsed :
           /\ envPosts' = envPosts \ {p}
           /\ IF \E d \in envVars : d.key = p.key
              THEN UNCHANGED <<envVars, envUsed, meant>>
              ELSE /\ envVars' = envVars \cup
                        {[id |-> id, key |-> p.key, value |-> p.value,
                          sealed |-> p.isSecret, isSecret |-> p.isSecret]}
                   /\ envUsed' = envUsed \cup {id}
                   /\ meant' = [i \in envUsed' |-> IF i = id THEN p.value ELSE meant[i]]
           /\ UNCHANGED <<envPuts, envCalls, torn, crowded>>
    BY <1>3 DEF InsertVar
  <2>2. CASE \E d \in envVars : d.key = p.key
    BY <2>1, <2>2
  <2>3. CASE ~ \E d \in envVars : d.key = p.key
    <3> DEFINE new == [id |-> id, key |-> p.key, value |-> p.value,
                       sealed |-> p.isSecret, isSecret |-> p.isSecret]
    <3>1. new \in EnvDoc /\ new.id = id /\ new.key = p.key
      BY DEF EnvDoc
    <3>2. envVars' = envVars \cup {new}
      BY <2>1, <2>3
    <3> HIDE DEF new
    <3>3. /\ envVars' \subseteq EnvDoc
          /\ \A c, d \in envVars' : c.id = d.id \/ c.key = d.key => c = d
          /\ \A d \in envVars' : d.id \in envUsed'
      BY <2>1, <2>3, <3>1, <3>2
    <3>4. meant' \in [envUsed' -> EnvValue]
      BY <2>1, <2>3
    <3> QED BY <2>1, <2>3, <3>3, <3>4
  <2> QED BY <2>2, <2>3
<1>4. CASE WritePut
  <2>1. PICK p \in envPuts :
           /\ envPuts' = envPuts \ {p}
           /\ IF \E d \in envVars : d.id # p.seen.id /\ d.key \in p.key
              THEN UNCHANGED <<envVars, meant, torn>>
              ELSE /\ envVars' = {IF d.id = p.seen.id THEN Changed(d, p) ELSE d : d \in envVars}
                   /\ meant' = [meant EXCEPT ![p.seen.id] = Given(p.typed, @)]
                   /\ torn' = IF \E q \in envPuts \ {p} : q.seen.id = p.seen.id
                              THEN torn \cup {p.seen.id} ELSE torn
           /\ UNCHANGED <<envPosts, envUsed, envCalls, crowded>>
    BY <1>4 DEF WritePut
  <2>2. CASE \E d \in envVars : d.id # p.seen.id /\ d.key \in p.key
    BY <2>1, <2>2
  <2>3. CASE ~ \E d \in envVars : d.id # p.seen.id /\ d.key \in p.key
    <3>1. \A d \in envVars : /\ Changed(d, p) \in EnvDoc
                             /\ Changed(d, p).id = d.id
                             /\ p.key = {} => Changed(d, p).key = d.key
                             /\ p.key # {} => Changed(d, p).key \in p.key
      BY ChangedTyped
    <3>2. p.seen.id \in EnvId /\ p.seen.id \in envUsed /\ p.typed \in SUBSET EnvValue
      BY DEF EnvDoc, Grounded
    <3>3. \A d \in envVars' : \E c \in envVars : d = IF c.id = p.seen.id THEN Changed(c, p) ELSE c
      BY <2>1, <2>3
    <3>4. envVars' \subseteq EnvDoc /\ \A d \in envVars' : d.id \in envUsed
      BY <3>1, <3>3
    <3>5. ASSUME NEW a \in envVars', NEW b \in envVars', a.id = b.id \/ a.key = b.key
          PROVE  a = b
      <4>1. PICK c \in envVars : a = IF c.id = p.seen.id THEN Changed(c, p) ELSE c
        BY <3>3
      <4>2. PICK d \in envVars : b = IF d.id = p.seen.id THEN Changed(d, p) ELSE d
        BY <3>3
      <4>3. a.id = c.id /\ b.id = d.id
        BY <3>1, <4>1, <4>2
      <4>4. c = d
        <5>1. CASE c.id = d.id
          BY <5>1
        <5>2. CASE c.id # d.id /\ a.key = b.key
          BY <2>3, <3>1, <4>1, <4>2, <5>2
        <5> QED BY <3>5, <4>3, <5>1, <5>2
      <4> QED BY <4>1, <4>2, <4>4
    <3>6. meant' \in [envUsed -> EnvValue] /\ torn' \subseteq EnvId
      <4>1. Given(p.typed, meant[p.seen.id]) \in EnvValue
        BY <3>2, GivenTyped
      <4> QED BY <2>1, <2>3, <3>2, <4>1
    <3> QED BY <2>1, <3>4, <3>5, <3>6
  <2> QED BY <2>2, <2>3
<1>5. CASE DeleteVar
  BY <1>5 DEF DeleteVar
<1>6. CASE UNCHANGED envVarsVars
  BY <1>6 DEF envVarsVars
<1> QED BY <1>1, <1>2, <1>3, <1>4, <1>5, <1>6 DEF EnvVarsNext

LEMMA GroundedKept ==
    ASSUME EnvTyped, Grounded, [EnvVarsNext]_envVarsVars
    PROVE  Grounded'
<1> USE DEF EnvTyped, EnvCall
<1>1. ASSUME NEW key \in EnvKey, NEW value \in EnvValue, NEW isSecret \in BOOLEAN,
             StartPost(key, value, isSecret)
      PROVE  Grounded'
  BY <1>1 DEF StartPost, Grounded
<1>2. ASSUME NEW d \in envVars, NEW k \in Optional(EnvKey), NEW v \in Optional(EnvValue),
             NEW s \in Optional(BOOLEAN), StartPut(d, k, v, s)
      PROVE  Grounded'
  <2> DEFINE new == [call |-> envCalls, seen |-> d, key |-> k, isSecret |-> s, typed |-> v,
                     content |-> Rewritten(d, v, s)]
  <2>1. /\ envPuts' = envPuts \cup {new} /\ new.seen = d /\ new.typed = v /\ new.isSecret = s
        /\ new.content = Rewritten(d, v, s)
        /\ UNCHANGED <<envVars, envUsed, torn>>
    BY <1>2 DEF StartPut
  <2> HIDE DEF new
  <2>2. \A e \in envVars : e.id = d.id => e = d
    BY DEF EnvVarsTypeOK
  <2> QED BY <2>1, <2>2 DEF Grounded
<1>3. CASE InsertVar
  <2>1. PICK id \in EnvId \ envUsed :
           /\ UNCHANGED <<envPuts, torn>>
           /\ envUsed \subseteq envUsed'
           /\ \A d \in envVars' : d \in envVars \/ d.id = id
    BY <1>3 DEF InsertVar
  <2> QED BY <2>1 DEF Grounded
<1>4. CASE WritePut
  <2>1. PICK p \in envPuts :
           /\ envPuts' = envPuts \ {p} /\ envUsed' = envUsed
           /\ IF \E d \in envVars : d.id # p.seen.id /\ d.key \in p.key
              THEN UNCHANGED <<envVars, meant, torn>>
              ELSE /\ envVars' = {IF d.id = p.seen.id THEN Changed(d, p) ELSE d : d \in envVars}
                   /\ torn' = IF \E q \in envPuts \ {p} : q.seen.id = p.seen.id
                              THEN torn \cup {p.seen.id} ELSE torn
    BY <1>4 DEF WritePut
  <2>2. CASE \E d \in envVars : d.id # p.seen.id /\ d.key \in p.key
    BY <2>1, <2>2 DEF Grounded
  <2>3. CASE ~ \E d \in envVars : d.id # p.seen.id /\ d.key \in p.key
    <3>1. ASSUME NEW q \in envPuts', NEW d \in envVars', d.id = q.seen.id, d.id \notin torn'
          PROVE  d = q.seen
      <4>1. q \in envPuts \ {p} /\ q.seen.id # p.seen.id /\ d.id \notin torn
        BY <2>1, <2>3, <3>1
      <4>2. PICK c \in envVars : d = IF c.id = p.seen.id THEN Changed(c, p) ELSE c
        BY <2>1, <2>3
      <4>3. c \in EnvDoc
        BY DEF EnvVarsTypeOK
      <4>4. Changed(c, p).id = c.id
        BY <4>3, ChangedTyped
      <4>5. c.id # p.seen.id /\ d = c
        BY <3>1, <4>1, <4>2, <4>4
      <4> QED BY <3>1, <4>1, <4>5 DEF Grounded
    <3> QED BY <2>1, <3>1 DEF Grounded
  <2> QED BY <2>2, <2>3
<1>5. CASE DeleteVar
  BY <1>5 DEF DeleteVar, Grounded
<1>6. CASE UNCHANGED envVarsVars
  BY <1>6 DEF envVarsVars, Grounded
<1> QED BY <1>1, <1>2, <1>3, <1>4, <1>5, <1>6 DEF EnvVarsNext

LEMMA MeantKept ==
    ASSUME EnvTyped, Grounded, Meant, [EnvVarsNext]_envVarsVars
    PROVE  Meant'
<1> USE DEF EnvTyped
<1>1. ASSUME NEW key \in EnvKey, NEW value \in EnvValue, NEW isSecret \in BOOLEAN,
             StartPost(key, value, isSecret)
      PROVE  Meant'
  BY <1>1 DEF StartPost, Meant
<1>2. ASSUME NEW d \in envVars, NEW k \in Optional(EnvKey), NEW v \in Optional(EnvValue),
             NEW s \in Optional(BOOLEAN), StartPut(d, k, v, s)
      PROVE  Meant'
  BY <1>2 DEF StartPut, Meant
<1>3. CASE InsertVar
  <2>1. PICK p \in envPosts, id \in EnvId \ envUsed :
           /\ UNCHANGED torn
           /\ IF \E d \in envVars : d.key = p.key
              THEN UNCHANGED <<envVars, envUsed, meant>>
              ELSE /\ envVars' = envVars \cup
                        {[id |-> id, key |-> p.key, value |-> p.value,
                          sealed |-> p.isSecret, isSecret |-> p.isSecret]}
                   /\ envUsed' = envUsed \cup {id}
                   /\ meant' = [i \in envUsed' |-> IF i = id THEN p.value ELSE meant[i]]
    BY <1>3 DEF InsertVar
  <2>2. CASE \E d \in envVars : d.key = p.key
    BY <2>1, <2>2 DEF Meant
  <2>3. CASE ~ \E d \in envVars : d.key = p.key
    <3> DEFINE new == [id |-> id, key |-> p.key, value |-> p.value,
                       sealed |-> p.isSecret, isSecret |-> p.isSecret]
    <3>1. new.id = id /\ new.sealed = new.isSecret /\ new.value = p.value
      OBVIOUS
    <3>2. envVars' = envVars \cup {new} /\ torn' = torn
      BY <2>1, <2>3
    <3> HIDE DEF new
    <3>3. meant'[id] = p.value /\ \A i \in envUsed : meant'[i] = meant[i]
      BY <2>1, <2>3
    <3> QED BY <3>1, <3>2, <3>3 DEF Meant
  <2> QED BY <2>2, <2>3
<1>4. CASE WritePut
  <2>1. PICK p \in envPuts :
           IF \E d \in envVars : d.id # p.seen.id /\ d.key \in p.key
           THEN UNCHANGED <<envVars, meant, torn>>
           ELSE /\ envVars' = {IF d.id = p.seen.id THEN Changed(d, p) ELSE d : d \in envVars}
                /\ meant' = [meant EXCEPT ![p.seen.id] = Given(p.typed, @)]
                /\ torn' = IF \E q \in envPuts \ {p} : q.seen.id = p.seen.id
                           THEN torn \cup {p.seen.id} ELSE torn
    BY <1>4 DEF WritePut
  <2>2. CASE \E d \in envVars : d.id # p.seen.id /\ d.key \in p.key
    BY <2>1, <2>2 DEF Meant
  <2>3. CASE ~ \E d \in envVars : d.id # p.seen.id /\ d.key \in p.key
    <3>1. /\ p.seen.id \in envUsed /\ torn \subseteq torn'
          /\ meant'[p.seen.id] = Given(p.typed, meant[p.seen.id])
          /\ \A i \in envUsed : i # p.seen.id => meant'[i] = meant[i]
      <4>1. p.seen.id \in envUsed /\ meant \in [envUsed -> EnvValue]
        BY DEF Grounded, EnvVarsTypeOK
      <4> QED BY <2>1, <2>3, <4>1
    <3>2. ASSUME NEW d \in envVars', d.id \notin torn'
          PROVE  d.sealed = d.isSecret /\ d.value = meant'[d.id]
      <4>1. PICK c \in envVars : d = IF c.id = p.seen.id THEN Changed(c, p) ELSE c
        BY <2>1, <2>3
      <4>2. c \in EnvDoc
        BY DEF EnvVarsTypeOK
      <4>3. Changed(c, p).id = c.id
        BY <4>2, ChangedTyped
      <4>4. d.id = c.id /\ c.id \notin torn
        BY <3>1, <3>2, <4>1, <4>3
      <4>5. c.sealed = c.isSecret /\ c.value = meant[c.id]
        BY <4>4 DEF Meant
      <4>6. CASE c.id # p.seen.id
        BY <3>1, <4>1, <4>5, <4>6
      <4>7. CASE c.id = p.seen.id
        <5>1. c = p.seen
          BY <4>4, <4>7 DEF Grounded
        <5>2. p.content = Rewritten(c, p.typed, p.isSecret)
          BY <5>1 DEF Grounded
        <5>3. Changed(c, p).sealed = Changed(c, p).isSecret
              /\ Changed(c, p).value = Given(p.typed, c.value)
          BY <4>2, <4>5, <5>2, ChangedMeant
        <5> QED BY <3>1, <4>1, <4>4, <4>5, <4>7, <5>3
      <4> QED BY <4>6, <4>7
    <3> QED BY <3>2 DEF Meant
  <2> QED BY <2>2, <2>3
<1>5. CASE DeleteVar
  BY <1>5 DEF DeleteVar, Meant
<1>6. CASE UNCHANGED envVarsVars
  BY <1>6 DEF envVarsVars, Meant
<1> QED BY <1>1, <1>2, <1>3, <1>4, <1>5, <1>6 DEF EnvVarsNext

\* A PUT adds no variable.
LEMMA WritesAddNone ==
    ASSUME NEW p, IsFiniteSet(envVars),
           envVars' = {IF d.id = p.seen.id THEN Changed(d, p) ELSE d : d \in envVars}
    PROVE  IsFiniteSet(envVars') /\ Cardinality(envVars') <= Cardinality(envVars)
<1> DEFINE f == [d \in envVars |-> IF d.id = p.seen.id THEN Changed(d, p) ELSE d]
<1>1. f \in Surjection(envVars, envVars')
  BY DEF Surjection
<1> QED BY <1>1, FS_Surjection

LEMMA SpaciousKept ==
    ASSUME EnvTyped, Spacious, [EnvVarsNext]_envVarsVars
    PROVE  Spacious'
<1> USE EnvVarsAssumption
<1>0. Cardinality(envVars) \in Nat /\ IsFiniteSet(envVars)
  BY FS_CardinalityType DEF Spacious
<1>1. ASSUME NEW key \in EnvKey, NEW value \in EnvValue, NEW isSecret \in BOOLEAN,
             StartPost(key, value, isSecret)
      PROVE  Spacious'
  <2>1. /\ envVars' = envVars /\ Cardinality(envVars) < MaxVars
        /\ crowded' = (crowded \/ envPosts # {})
        /\ \E new : envPosts' = envPosts \cup {new}
    BY <1>1 DEF StartPost
  <2> QED BY <1>0, <2>1 DEF Spacious
<1>2. ASSUME NEW d \in envVars, NEW k \in Optional(EnvKey), NEW v \in Optional(EnvValue),
             NEW s \in Optional(BOOLEAN), StartPut(d, k, v, s)
      PROVE  Spacious'
  BY <1>2 DEF StartPut, Spacious
<1>3. CASE InsertVar
  <2>1. /\ \E p \in envPosts : envPosts' = envPosts \ {p}
        /\ crowded' = crowded
        /\ \E new : envVars' = envVars \/ envVars' = envVars \cup {new}
    BY <1>3 DEF InsertVar
  <2>2. /\ IsFiniteSet(envVars') /\ Cardinality(envVars') \in Nat
        /\ Cardinality(envVars') <= Cardinality(envVars) + 1
    <3>0. PICK new : envVars' = envVars \/ envVars' = envVars \cup {new}
      BY <2>1
    <3>1. IsFiniteSet(envVars \cup {new}) /\ Cardinality(envVars \cup {new}) \in Nat
      BY <1>0, FS_AddElement, FS_CardinalityType
    <3>2. Cardinality(envVars \cup {new}) <= Cardinality(envVars) + 1
      <4>1. CASE new \in envVars
        <5>1. envVars \cup {new} = envVars
          BY <4>1
        <5>2. Cardinality(envVars \cup {new}) = Cardinality(envVars)
          BY <5>1
        <5>3. Cardinality(envVars) <= Cardinality(envVars) + 1
          BY <1>0
        <5> QED BY <5>2, <5>3
      <4>2. CASE new \notin envVars
        <5>1. Cardinality(envVars \cup {new}) = Cardinality(envVars) + 1
          BY <1>0, <4>2, FS_AddElement
        <5> QED BY <1>0, <3>1, <5>1
      <4> QED BY <4>1, <4>2
    <3>3. CASE envVars' = envVars
      <4>1. Cardinality(envVars') = Cardinality(envVars) /\ IsFiniteSet(envVars')
        BY <1>0, <3>3
      <4> QED BY <1>0, <4>1
    <3>4. CASE envVars' = envVars \cup {new}
      BY <3>1, <3>2, <3>4
    <3> QED BY <3>0, <3>3, <3>4
  <2>3. crowded \/ (envPosts' = {} /\ Cardinality(envVars) < MaxVars)
    BY <2>1 DEF Spacious
  <2> QED BY <1>0, <2>1, <2>2, <2>3 DEF Spacious
<1>4. CASE WritePut
  <2>1. PICK p \in envPuts :
           \/ envVars' = envVars
           \/ envVars' = {IF d.id = p.seen.id THEN Changed(d, p) ELSE d : d \in envVars}
    BY <1>4 DEF WritePut
  <2>2. envPosts' = envPosts /\ crowded' = crowded
    BY <1>4 DEF WritePut
  <2>3. /\ IsFiniteSet(envVars') /\ Cardinality(envVars') \in Nat
        /\ Cardinality(envVars') <= Cardinality(envVars)
    BY <1>0, <2>1, WritesAddNone, FS_CardinalityType
  <2> QED BY <1>0, <2>2, <2>3 DEF Spacious
<1>5. CASE DeleteVar
  <2>1. PICK d \in envVars : envVars' = envVars \ {d}
    BY <1>5 DEF DeleteVar
  <2>2. envPosts' = envPosts /\ crowded' = crowded
    BY <1>5 DEF DeleteVar
  <2>3. /\ IsFiniteSet(envVars') /\ Cardinality(envVars') \in Nat
        /\ Cardinality(envVars') <= Cardinality(envVars)
    BY <1>0, <2>1, FS_Subset, FS_CardinalityType
  <2> QED BY <1>0, <2>2, <2>3 DEF Spacious
<1>6. CASE UNCHANGED envVarsVars
  BY <1>6 DEF envVarsVars, Spacious
<1> QED BY <1>1, <1>2, <1>3, <1>4, <1>5, <1>6 DEF EnvVarsNext

\* When every secret can be decrypted, what is injected does not depend on the order
\* in which the variables are read.
LEMMA AllInjected ==
    ASSUME \A d \in envVars : Readable(d)
    PROVE  Injections = {[vars |-> {[key |-> d.key, value |-> d.value] : d \in envVars},
                          secretKeys |-> {d.key : d \in {e \in envVars : e.isSecret}}]}
<1> DEFINE Whole == {s \in SUBSET envVars : /\ \A d \in s : Readable(d)
                                            /\ s = envVars \/ \E d \in envVars \ s : ~Readable(d)}
<1>1. Whole = {envVars}
  OBVIOUS
<1>2. Injections = {[vars |-> {[key |-> d.key, value |-> d.value] : d \in done},
                     secretKeys |-> {d.key : d \in {e \in done : e.isSecret}}] : done \in Whole}
  BY DEF Injections
<1> HIDE DEF Whole
<1> QED BY <1>1, <1>2

LEMMA EnvVarsStart == EnvVarsInit => EnvInv
<1> SUFFICES ASSUME EnvVarsInit PROVE EnvInv
  OBVIOUS
<1>1. EnvTyped
  <2>1. meant \in [envUsed -> EnvValue]
    BY DEF EnvVarsInit
  <2>2. envVars = {} /\ envPosts = {} /\ envPuts = {} /\ envUsed = {} /\ envCalls = 0
        /\ torn = {} /\ crowded = FALSE
    BY DEF EnvVarsInit
  <2>3. envCalls \in 0..MaxEnvCalls
    BY <2>2, EnvVarsAssumption
  <2> QED BY <2>1, <2>2, <2>3 DEF EnvTyped, EnvVarsTypeOK
<1>2. Cardinality(envVars) = 0 /\ IsFiniteSet(envVars)
  BY FS_EmptySet DEF EnvVarsInit
<1> QED BY <1>1, <1>2, EnvVarsAssumption DEF EnvVarsInit, EnvInv, Grounded, Meant, Spacious

LEMMA EnvVarsStep == EnvInv /\ [EnvVarsNext]_envVarsVars => EnvInv'
  BY EnvTypedKept, GroundedKept, MeantKept, SpaciousKept DEF EnvInv

\* Room, meaning and the documents read are kept in every state of every project.
THEOREM EnvVarsInvariant == EnvVarsSpec => []EnvInv
<1> QED BY EnvVarsStart, EnvVarsStep, PTL DEF EnvVarsSpec

\* EnvVarsKept in every state: variables keep what their users meant and stay within
\* the limit, and a run gets all of them, unless requests overlap.
THEOREM VariablesKept == EnvVarsSpec => []EnvVarsKept
<1>1. EnvInv => EnvVarsKept
  <2> SUFFICES ASSUME EnvInv PROVE EnvVarsKept
    OBVIOUS
  <2>1. \A d \in envVars : d.id \notin torn => d.sealed = d.isSecret /\ d.value = meant[d.id]
    BY DEF EnvInv, Meant
  <2>2. ASSUME \A d \in envVars : d.id \notin torn
        PROVE  Injections = {[vars |-> {[key |-> d.key, value |-> meant[d.id]] : d \in envVars},
                              secretKeys |-> {d.key : d \in {e \in envVars : e.isSecret}}]}
    <3>1. \A d \in envVars : Readable(d)
      BY <2>1, <2>2 DEF Readable
    <3>2. {[key |-> d.key, value |-> d.value] : d \in envVars}
            = {[key |-> d.key, value |-> meant[d.id]] : d \in envVars}
      BY <2>1, <2>2
    <3> QED BY <3>1, <3>2, AllInjected
  <2>3. crowded \/ Cardinality(envVars) <= MaxVars
    BY DEF EnvInv, Spacious
  <2> QED BY <2>1, <2>2, <2>3 DEF EnvVarsKept
<1> QED BY <1>1, EnvVarsInvariant, PTL

----------------------------------------------------------------------------
(****************************** The quarantine ******************************)

\* The end of the newest run.
Newest == watched[Len(watched)]

\* ShouldBeQuarantined, of any sequence of ends.
Holds(ws) ==
    \E i \in DOMAIN ws : Striking(ws[i]) /\ \A j \in DOMAIN ws : Healing(ws[j]) => j < i

\* What the test case is after the analysis that sees everything has written.
Verdict ==
    After(testCase.isQuarantined, Decision(results, otherSettings, testCase.isQuarantined))

\* An analysis on its own has seen every result and goes by the setting as it is, which
\* are those the newest run ended with.
Lone ==
    \A a \in analyses :
        /\ analyses = {a} /\ a.seen \in {<< >>, results}
        /\ a.at = "write" =>
              /\ a.seen = results
              /\ a.set = Decision(results, otherSettings, testCase.isQuarantined)
        /\ watched # << >>
        /\ Newest.on = otherSettings /\ Newest.results = results

\* What such an analysis has left behind it.
Repaired ==
    analyses = {} /\ watched # << >> =>
        /\ Graded
        /\ Healing(Newest) => ~testCase.isQuarantined
        /\ Striking(Newest) => testCase.isQuarantined

\* While every analysis has been alone, each makes the history whole.
Faithful ==
    /\ ~blurred
    /\ watched = << >> => analyses = {} /\ Graded
    /\ analyses = {} => (testCase.isQuarantined <=> Holds(watched))
    /\ analyses # {} => (Verdict <=> Holds(watched))

QuarantineInv ==
    /\ QuarantineTypeOK
    /\ ~blurred => Lone /\ Repaired
    /\ ~muddled => Faithful

LEMMA OfHistories ==
    ASSUME NEW rs \in Histories
    PROVE  /\ DOMAIN rs \subseteq 1..MaxResults /\ \A q \in DOMAIN rs : q \in Nat
           /\ IsFiniteSet(DOMAIN rs) /\ Cardinality(DOMAIN rs) \in Nat
           /\ Cardinality(Passed(rs)) \in Nat
           /\ ~(FailedInARow(rs, Streak) /\ LatestPassed(rs))
<1> USE QuarantineAssumption
<1>1. DOMAIN rs \subseteq 1..MaxResults
  BY DEF Histories
<1>2. \A q \in DOMAIN rs : q \in Nat
  BY <1>1
<1>3. IsFiniteSet(DOMAIN rs)
  <2>1. 1 \in Int /\ MaxResults \in Int
    OBVIOUS
  <2>2. IsFiniteSet(1..MaxResults)
    BY <2>1, FS_Interval
  <2> QED BY <1>1, <2>2, FS_Subset
<1>4. Cardinality(DOMAIN rs) \in Nat
  BY <1>3, FS_CardinalityType
<1>5. Cardinality(Passed(rs)) \in Nat
  <2>1. Passed(rs) \subseteq DOMAIN rs
    BY DEF Passed
  <2> QED BY <1>3, <2>1, FS_Subset, FS_CardinalityType
<1>6. ASSUME LatestPassed(rs) PROVE ~FailedInARow(rs, Streak)
  <2>1. PICK r \in Passed(rs) : \A q \in DOMAIN rs : q <= r
    BY <1>6 DEF LatestPassed
  <2>2. r \in Nat
    BY <1>2 DEF Passed
  <2>3. Failing(rs) = {}
    <3>1. ASSUME NEW q \in Failing(rs) PROVE FALSE
      <4>1. q \in DOMAIN rs /\ r < q
        BY <2>1 DEF Failing
      <4>2. q \in Nat /\ q <= r
        BY <1>2, <2>1, <4>1
      <4> QED BY <2>2, <4>1, <4>2
    <3> QED BY <3>1
  <2>4. Cardinality(Failing(rs)) = 0
    BY <2>3, FS_EmptySet
  <2> QED BY <2>4 DEF FailedInARow
<1> QED BY <1>1, <1>2, <1>3, <1>4, <1>5, <1>6

\* What a decision makes of the test case.
LEMMA Deciding ==
    ASSUME NEW rs \in Histories, NEW w \in BOOLEAN, NEW current \in BOOLEAN
    PROVE  /\ Decision(rs, w, current) \in {{}, {TRUE}, {FALSE}}
           /\ After(current, Decision(rs, w, current)) \in BOOLEAN
           /\ After(current, Decision(rs, w, current)) <=>
              \/ w /\ FailedInARow(rs, Streak)
              \/ ~(w /\ LatestPassed(rs)) /\ current
<1> USE DEF Decision
<1> DEFINE f == FailedInARow(rs, Streak)
           l == LatestPassed(rs)
<1>1. ~(f /\ l)
  BY OfHistories
<1>2. After(current, {}) = current /\ After(current, {TRUE}) = TRUE /\ After(current, {FALSE}) = FALSE
  BY DEF After
<1>3. CASE w /\ f /\ ~current
  <2>1. Decision(rs, w, current) = {TRUE}
    BY <1>3
  <2> QED BY <1>2, <1>3, <2>1
<1>4. CASE w /\ l /\ current
  <2>1. Decision(rs, w, current) = {FALSE}
    BY <1>1, <1>4
  <2> QED BY <1>1, <1>2, <1>4, <2>1
<1>5. CASE ~(w /\ f /\ ~current) /\ ~(w /\ l /\ current)
  <2>1. Decision(rs, w, current) = {}
    BY <1>5
  <2> HIDE DEF f, l, Decision
  <2>2. After(current, Decision(rs, w, current)) = current
    BY <1>2, <2>1
  <2>3. current <=> (w /\ f) \/ (~(w /\ l) /\ current)
    BY <1>1, <1>5, Zenon
  <2> QED BY <2>1, <2>2, <2>3 DEF f, l
<1> QED BY <1>3, <1>4, <1>5

\* One more end.
LEMMA HoldsAppends ==
    ASSUME NEW S, NEW ws \in Seq(S), NEW x, ~(Striking(x) /\ Healing(x))
    PROVE  Holds(Append(ws, x)) <=> Striking(x) \/ (~Healing(x) /\ Holds(ws))
<1> DEFINE n == Len(ws)
           v == Append(ws, x)
<1>1. n \in Nat /\ DOMAIN ws = 1..n /\ DOMAIN v = 1..(n + 1)
  OBVIOUS
<1>2. v[n + 1] = x /\ \A i \in 1..n : v[i] = ws[i]
  OBVIOUS
<1> HIDE DEF v, n
<1>3. ASSUME Holds(v) PROVE Striking(x) \/ (~Healing(x) /\ Holds(ws))
  <2>1. PICK i \in 1..(n + 1) : Striking(v[i]) /\ \A j \in 1..(n + 1) : Healing(v[j]) => j < i
    BY <1>1, <1>3 DEF Holds
  <2>2. CASE i = n + 1
    BY <1>2, <2>1, <2>2
  <2>3. CASE i # n + 1
    <3>1. i \in 1..n /\ n + 1 \in 1..(n + 1) /\ ~(n + 1 < i)
      BY <1>1, <2>1, <2>3
    <3>2. ~Healing(x)
      BY <1>2, <2>1, <3>1
    <3>3. \A j \in 1..n : j \in 1..(n + 1)
      BY <1>1
    <3>4. Striking(ws[i]) /\ \A j \in 1..n : Healing(ws[j]) => j < i
      BY <1>2, <2>1, <3>1, <3>3
    <3> QED BY <1>1, <3>1, <3>2, <3>4 DEF Holds
  <2> QED BY <2>2, <2>3
<1>4. ASSUME Striking(x) PROVE Holds(v)
  <2>1. ~Healing(x)
    BY <1>4
  <2>2. ASSUME NEW j \in 1..(n + 1), Healing(v[j]) PROVE j < n + 1
    BY <1>1, <1>2, <2>1, <2>2
  <2>3. n + 1 \in 1..(n + 1) /\ Striking(v[n + 1])
    BY <1>1, <1>2, <1>4
  <2> QED BY <1>1, <2>2, <2>3 DEF Holds
<1>5. ASSUME ~Healing(x), Holds(ws) PROVE Holds(v)
  <2>1. PICK i \in 1..n : Striking(ws[i]) /\ \A j \in 1..n : Healing(ws[j]) => j < i
    BY <1>1, <1>5 DEF Holds
  <2>2. i \in 1..(n + 1) /\ Striking(v[i])
    BY <1>1, <1>2, <2>1
  <2>3. ASSUME NEW j \in 1..(n + 1), Healing(v[j]) PROVE j < i
    <3>1. j # n + 1
      BY <1>2, <1>5, <2>3
    <3>2. j \in 1..n
      BY <1>1, <3>1
    <3> QED BY <1>2, <2>1, <2>3, <3>2
  <2> QED BY <1>1, <2>2, <2>3 DEF Holds
<1> QED BY <1>3, <1>4, <1>5 DEF v

LEMMA QuarantineTypesStart == QuarantineInit => QuarantineTypeOK
<1> SUFFICES ASSUME QuarantineInit PROVE QuarantineTypeOK
  OBVIOUS
<1>1. 0 \in 0..MaxSwitches /\ 0 \in 0..MaxResults
  BY QuarantineAssumption
<1>2. [isQuarantined |-> FALSE, passed |-> 0, of |-> 0]
        \in [isQuarantined : BOOLEAN, passed : Nat, of : Nat]
  OBVIOUS
<1>3. << >> \in Histories /\ DOMAIN << >> = {}
  <2>1. {} \in SUBSET (1..MaxResults) /\ << >> \in [{} -> BOOLEAN] /\ DOMAIN << >> = {}
    OBVIOUS
  <2> QED BY <2>1 DEF Histories
<1>4. << >> \in Seq([on : BOOLEAN, results : Histories])
  OBVIOUS
<1>5. results \in Histories /\ DOMAIN results \subseteq 1..started
  <2>1. results = << >>
    BY DEF QuarantineInit
  <2> QED BY <1>3, <2>1
<1>6. watched \in Seq([on : BOOLEAN, results : Histories])
  BY <1>4 DEF QuarantineInit
<1> QED BY <1>1, <1>2, <1>5, <1>6 DEF QuarantineInit, QuarantineTypeOK

LEMMA QuarantineTypesStep ==
    ASSUME QuarantineTypeOK, [QuarantineNext]_quarantineVars
    PROVE  QuarantineTypeOK'
<1> USE QuarantineAssumption DEF QuarantineTypeOK
<1>1. CASE StartRun
  <2>1. started' \in 0..MaxResults /\ 1..started \subseteq 1..started'
    BY <1>1 DEF StartRun
  <2> QED BY <1>1, <2>1 DEF StartRun
<1>2. CASE EndRun
  <2>1. PICK r \in 1..started \ DOMAIN results, p \in BOOLEAN :
          /\ results' = [q \in DOMAIN results \cup {r} |-> IF q = r THEN p ELSE results[q]]
          /\ analyses' = analyses \cup {[no |-> r, seen |-> << >>, at |-> "judge", set |-> {}]}
    BY <1>2 DEF EndRun
  <2>2. /\ watched' = Append(watched, [on |-> otherSettings, results |-> results'])
        /\ muddled' \in BOOLEAN /\ blurred' \in BOOLEAN /\ steady' \in Nat
        /\ UNCHANGED <<started, testCase, runSettings, otherSettings, switches>>
    BY <1>2 DEF EndRun
  <2>3. r \in 1..MaxResults
    OBVIOUS
  <2>4. results' \in Histories /\ DOMAIN results' \subseteq 1..started'
    <3>1. PICK D \in SUBSET (1..MaxResults) : results \in [D -> BOOLEAN]
      BY DEF Histories
    <3>2. D \cup {r} \in SUBSET (1..MaxResults) /\ results' \in [D \cup {r} -> BOOLEAN]
      BY <2>1, <2>3, <3>1
    <3>3. DOMAIN results' = DOMAIN results \cup {r}
      BY <2>1
    <3> QED BY <2>2, <3>2, <3>3 DEF Histories
  <2>5. watched' \in Seq([on : BOOLEAN, results : Histories])
    <3>1. [on |-> otherSettings, results |-> results'] \in [on : BOOLEAN, results : Histories]
      BY <2>4
    <3> QED BY <2>2, <3>1
  <2>6. analyses' \subseteq Analysis
    <3> DEFINE none == << >>
    <3>1. none \in Histories
      <4>1. {} \in SUBSET (1..MaxResults) /\ << >> \in [{} -> BOOLEAN]
        OBVIOUS
      <4> QED BY <4>1 DEF Histories
    <3> HIDE DEF none
    <3>2. [no |-> r, seen |-> none, at |-> "judge", set |-> {}] \in Analysis
      BY <2>3, <3>1 DEF Analysis
    <3> QED BY <2>1, <3>2 DEF none
  <2> QED BY <2>2, <2>4, <2>5, <2>6
<1>3. CASE Aggregate
  <2>1. PICK a \in analyses :
           analyses' = (analyses \ {a}) \cup {[a EXCEPT !.seen = results]}
    BY <1>3 DEF Aggregate
  <2>2. [a EXCEPT !.seen = results] \in Analysis
    BY DEF Analysis
  <2>3. analyses' \subseteq Analysis
    BY <2>1, <2>2
  <2> QED BY <1>3, <2>3 DEF Aggregate
<1>4. CASE Judge
  <2>1. PICK a \in analyses :
           analyses' = (analyses \ {a}) \cup
                {[a EXCEPT !.at = "write",
                           !.set = Decision(a.seen, otherSettings, testCase.isQuarantined)]}
    BY <1>4 DEF Judge
  <2> DEFINE set == Decision(a.seen, otherSettings, testCase.isQuarantined)
  <2>2. set \in SUBSET BOOLEAN
    BY DEF Decision
  <2> HIDE DEF set
  <2>3. [a EXCEPT !.at = "write", !.set = set] \in Analysis
    <3>1. a \in [no : 1..MaxResults, seen : Histories, at : {"judge", "write"},
                 set : SUBSET BOOLEAN]
      BY DEF Analysis
    <3> HIDE DEF QuarantineTypeOK
    <3> QED BY <2>2, <3>1 DEF Analysis
  <2>4. analyses' \subseteq Analysis
    BY <2>1, <2>3 DEF set
  <2> QED BY <1>4, <2>4 DEF Judge
<1>5. CASE WriteMetrics
  <2>1. PICK a \in analyses :
           /\ analyses' = analyses \ {a}
           /\ testCase' = [isQuarantined |-> After(testCase.isQuarantined, a.set),
                           passed |-> Cardinality(Passed(a.seen)),
                           of |-> Cardinality(DOMAIN a.seen)]
    BY <1>5 DEF WriteMetrics
  <2>2. a.seen \in Histories /\ a.set \in SUBSET BOOLEAN
    BY DEF Analysis
  <2>3. Cardinality(Passed(a.seen)) \in Nat /\ Cardinality(DOMAIN a.seen) \in Nat
    BY <2>2, OfHistories
  <2>4. After(testCase.isQuarantined, a.set) \in BOOLEAN
    BY <2>2 DEF After
  <2> DEFINE n == Cardinality(Passed(a.seen))
             m == Cardinality(DOMAIN a.seen)
             q == After(testCase.isQuarantined, a.set)
  <2> HIDE DEF n, m, q
  <2>5. [isQuarantined |-> q, passed |-> n, of |-> m]
           \in [isQuarantined : BOOLEAN, passed : Nat, of : Nat]
    BY <2>3, <2>4 DEF n, m, q
  <2>6. testCase' \in [isQuarantined : BOOLEAN, passed : Nat, of : Nat]
    BY <2>1, <2>5 DEF n, m, q
  <2>7. analyses' \subseteq Analysis
    BY <2>1
  <2> QED BY <1>5, <2>6, <2>7 DEF WriteMetrics
<1>6. CASE AnalysisFails
  <2>1. analyses' \subseteq Analysis
    BY <1>6 DEF AnalysisFails
  <2> QED BY <1>6, <2>1 DEF AnalysisFails
<1>7. CASE SaveSettings
  BY <1>7 DEF SaveSettings
<1>8. CASE Override
  BY <1>8 DEF Override
<1>9. CASE UNCHANGED quarantineVars
  BY <1>9 DEF quarantineVars
<1> QED BY <1>1, <1>2, <1>3, <1>4, <1>5, <1>6, <1>7, <1>8, <1>9 DEF QuarantineNext, QuarantineCodeNext

LEMMA QuarantineStarts == QuarantineInit => QuarantineInv
<1> SUFFICES ASSUME QuarantineInit PROVE QuarantineInv
  OBVIOUS
<1>1. results = << >> /\ watched = << >> /\ analyses = {} /\ testCase.isQuarantined = FALSE
  BY DEF QuarantineInit
<1>2. DOMAIN results = {} /\ DOMAIN watched = {}
  BY <1>1
<1>3. ~Holds(watched)
  BY <1>2 DEF Holds
<1>4. Graded
  <2>1. Passed(results) = {}
    BY <1>2 DEF Passed
  <2> QED BY <1>2, <2>1, FS_EmptySet DEF Graded, QuarantineInit
<1>5. Lone /\ Repaired
  BY <1>1 DEF Lone, Repaired
<1>6. Faithful
  BY <1>1, <1>3, <1>4 DEF Faithful, QuarantineInit
<1> QED BY QuarantineTypesStart, <1>5, <1>6 DEF QuarantineInv

\* The types of what the steps below read.
LEMMA QuarantineKnown ==
    ASSUME QuarantineTypeOK
    PROVE  /\ results \in Histories /\ watched \in Seq([on : BOOLEAN, results : Histories])
           /\ otherSettings \in BOOLEAN /\ testCase.isQuarantined \in BOOLEAN
           /\ \A a \in analyses : a \in Analysis
           /\ muddled \in BOOLEAN /\ blurred \in BOOLEAN
  BY DEF QuarantineTypeOK

\* What an analysis that is alone will make of the test case.
LEMMA OutcomeOf ==
    ASSUME NEW rs \in Histories, NEW w \in BOOLEAN, NEW current \in BOOLEAN, NEW x,
           x.on = w, x.results = rs
    PROVE  /\ After(current, Decision(rs, w, current))
                <=> Striking(x) \/ (~Healing(x) /\ current)
           /\ ~(Striking(x) /\ Healing(x))
<1>1. After(current, Decision(rs, w, current)) <=>
         \/ w /\ FailedInARow(rs, Streak)
         \/ ~(w /\ LatestPassed(rs)) /\ current
  BY Deciding
<1>2. ~(FailedInARow(rs, Streak) /\ LatestPassed(rs))
  BY OfHistories
<1>3. /\ Striking(x) <=> w /\ FailedInARow(rs, Streak)
      /\ Healing(x) <=> w /\ LatestPassed(rs)
  BY DEF Striking, Healing
<1> QED BY <1>1, <1>2, <1>3

\* A run that ends while nothing is analysed: its analysis will be alone.
LEMMA EndsAlone ==
    ASSUME QuarantineTypeOK, QuarantineTypeOK', EndRun, analyses = {}
    PROVE  Lone' /\ analyses' # {} /\ watched' # << >> /\ ~blurred'
           /\ watched' = Append(watched, Newest')
<1>1. PICK r : analyses' = analyses \cup {[no |-> r, seen |-> << >>, at |-> "judge", set |-> {}]}
  BY DEF EndRun
<1> DEFINE x == [on |-> otherSettings, results |-> results']
<1>2. watched' = Append(watched, x) /\ otherSettings' = otherSettings /\ ~blurred'
  BY DEF EndRun
<1>3. watched \in Seq([on : BOOLEAN, results : Histories])
  BY QuarantineKnown
<1>4. x.on = otherSettings' /\ x.results = results'
  BY <1>2
<1>5. x \in [on : BOOLEAN, results : Histories]
  BY <1>2 DEF QuarantineTypeOK
<1> HIDE DEF x
<1>6. Newest' = x /\ watched' # << >>
  BY <1>2, <1>3, <1>5 DEF Newest
<1> DEFINE new == [no |-> r, seen |-> << >>, at |-> "judge", set |-> {}]
<1>7. analyses' = {new} /\ new.seen = << >> /\ new.at = "judge"
  BY <1>1
<1> HIDE DEF new
<1>8. Lone'
  BY <1>4, <1>6, <1>7 DEF Lone
<1> QED BY <1>2, <1>6, <1>7, <1>8

\* The newest run is judged as if it were the only one to be.
LEMMA LoneKept ==
    ASSUME QuarantineInv, QuarantineTypeOK', [QuarantineNext]_quarantineVars, ~blurred'
    PROVE  Lone' /\ Repaired'
<1>0. QuarantineTypeOK /\ (~blurred => Lone /\ Repaired)
  BY DEF QuarantineInv
<1>1. CASE StartRun
  BY <1>0, <1>1 DEF StartRun, Lone, Repaired, Newest, Graded
<1>2. CASE EndRun
  <2>1. analyses = {}
    BY <1>2 DEF EndRun
  <2>2. Lone' /\ analyses' # {}
    BY <1>0, <1>2, <2>1, EndsAlone
  <2> QED BY <2>2 DEF Repaired
<1>3. CASE Aggregate
  <2>1. PICK a \in analyses :
           /\ a.at = "judge" /\ a.seen = << >>
           /\ analyses' = (analyses \ {a}) \cup {[a EXCEPT !.seen = results]}
           /\ UNCHANGED <<results, testCase, otherSettings, watched, blurred>>
    BY <1>3 DEF Aggregate
  <2> DEFINE b == [a EXCEPT !.seen = results]
  <2>2. b.seen = results /\ b.at = "judge"
    BY <1>0, <2>1, QuarantineKnown DEF Analysis
  <2>3. analyses' = {b} /\ Lone
    BY <1>0, <2>1 DEF Lone
  <2> HIDE DEF b
  <2> QED BY <2>1, <2>2, <2>3 DEF Lone, Repaired, Newest
<1>4. CASE Judge
  <2>1. PICK a \in analyses :
           /\ a.at = "judge" /\ a.seen # << >>
           /\ analyses' = (analyses \ {a}) \cup
                {[a EXCEPT !.at = "write",
                           !.set = Decision(a.seen, otherSettings, testCase.isQuarantined)]}
           /\ UNCHANGED <<results, testCase, otherSettings, watched, blurred>>
    BY <1>4 DEF Judge
  <2>2. a.seen = results /\ analyses = {a} /\ Lone
    BY <1>0, <2>1 DEF Lone
  <2> DEFINE set == Decision(results, otherSettings, testCase.isQuarantined)
  <2> HIDE DEF set
  <2> DEFINE b == [a EXCEPT !.at = "write", !.set = set]
  <2>3. analyses' = {b}
    BY <2>1, <2>2 DEF set
  <2>4. b.seen = results /\ b.at = "write" /\ b.set = set
    BY <1>0, <2>2, QuarantineKnown DEF Analysis
  <2> HIDE DEF b
  <2> QED BY <2>1, <2>2, <2>3, <2>4 DEF Lone, Repaired, Newest, set
<1>5. CASE WriteMetrics
  <2>1. PICK a \in analyses :
           /\ a.at = "write" /\ analyses' = analyses \ {a}
           /\ testCase' = [isQuarantined |-> After(testCase.isQuarantined, a.set),
                           passed |-> Cardinality(Passed(a.seen)),
                           of |-> Cardinality(DOMAIN a.seen)]
           /\ UNCHANGED <<results, otherSettings, watched, blurred>>
    BY <1>5 DEF WriteMetrics
  <2>2. /\ Lone /\ analyses' = {} /\ a.seen = results
        /\ a.set = Decision(results, otherSettings, testCase.isQuarantined)
    BY <1>0, <2>1 DEF Lone
  <2>3. testCase'.isQuarantined = Verdict /\ Newest' = Newest
    BY <2>1, <2>2 DEF Verdict, Newest
  <2>4. Graded'
    BY <2>1, <2>2 DEF Graded
  <2>5. /\ Verdict <=> Striking(Newest) \/ (~Healing(Newest) /\ testCase.isQuarantined)
        /\ ~(Striking(Newest) /\ Healing(Newest))
    <3>1. Newest.on = otherSettings /\ Newest.results = results
      BY <2>1, <2>2 DEF Lone
    <3> QED BY <1>0, <3>1, OutcomeOf, QuarantineKnown DEF Verdict
  <2>6. Lone'
    BY <2>2 DEF Lone
  <2> QED BY <2>3, <2>4, <2>5, <2>6 DEF Repaired
<1>6. CASE AnalysisFails
  BY <1>6 DEF AnalysisFails
<1>7. CASE SaveSettings
  BY <1>0, <1>7 DEF SaveSettings, Lone, Repaired, Newest, Graded
<1>8. CASE Override
  <2>1. ~blurred /\ analyses = {} /\ UNCHANGED <<results, testCase, analyses, watched>>
    BY <1>8 DEF Override
  <2> QED BY <1>0, <2>1 DEF Lone, Repaired, Newest, Graded
<1>9. CASE UNCHANGED quarantineVars
  BY <1>0, <1>9 DEF quarantineVars, Lone, Repaired, Newest, Graded
<1> QED BY <1>1, <1>2, <1>3, <1>4, <1>5, <1>6, <1>7, <1>8, <1>9 DEF QuarantineNext, QuarantineCodeNext

LEMMA FaithfulKept ==
    ASSUME QuarantineInv, QuarantineTypeOK', [QuarantineNext]_quarantineVars, ~muddled'
    PROVE  Faithful'
<1>0. QuarantineTypeOK /\ ~muddled /\ Faithful /\ Lone /\ Repaired
  <2>1. QuarantineTypeOK
    BY DEF QuarantineInv
  <2>2. ~muddled
    BY <2>1 DEF QuarantineTypeOK, QuarantineNext, QuarantineCodeNext, quarantineVars, StartRun,
           EndRun, Aggregate, Judge, WriteMetrics, AnalysisFails, SaveSettings, Override
  <2> QED BY <2>1, <2>2 DEF QuarantineInv, Faithful
<1> DEFINE current == testCase.isQuarantined
<1>1. CASE EndRun
  <2>1. analyses = {} /\ testCase' = testCase
    BY <1>0, <1>1 DEF EndRun
  <2>2. /\ Lone' /\ analyses' # {} /\ watched' # << >> /\ ~blurred'
        /\ watched' = Append(watched, Newest')
    BY <1>0, <1>1, <2>1, EndsAlone
  <2>3. /\ Verdict' <=> Striking(Newest') \/ (~Healing(Newest') /\ testCase'.isQuarantined)
        /\ ~(Striking(Newest') /\ Healing(Newest'))
    <3>1. Newest'.on = otherSettings' /\ Newest'.results = results'
      BY <2>2 DEF Lone
    <3>2. results' \in Histories /\ otherSettings' \in BOOLEAN /\ testCase'.isQuarantined \in BOOLEAN
      BY DEF QuarantineTypeOK
    <3> QED BY <3>1, <3>2, OutcomeOf DEF Verdict
  <2>4. current <=> Holds(watched)
    BY <1>0, <2>1 DEF Faithful
  <2>5. watched \in Seq([on : BOOLEAN, results : Histories])
    BY <1>0, QuarantineKnown
  <2>6. Holds(watched') <=> Striking(Newest') \/ (~Healing(Newest') /\ Holds(watched))
    BY <2>2, <2>3, <2>5, HoldsAppends
  <2>7. Verdict' <=> Holds(watched')
    BY <2>1, <2>3, <2>4, <2>6
  <2> QED BY <2>2, <2>7 DEF Faithful
<1>2. CASE Aggregate \/ Judge
  <2>1. UNCHANGED <<results, testCase, otherSettings, watched, blurred>> /\ analyses # {}
    BY <1>2 DEF Aggregate, Judge
  <2>2. analyses' # {}
    BY <1>2 DEF Aggregate, Judge
  <2>3. Verdict' = Verdict
    BY <2>1 DEF Verdict
  <2> QED BY <1>0, <2>1, <2>2, <2>3 DEF Faithful
<1>3. CASE WriteMetrics
  <2>1. PICK a \in analyses :
           /\ a.at = "write" /\ analyses' = analyses \ {a}
           /\ testCase'.isQuarantined = After(current, a.set)
           /\ UNCHANGED <<results, otherSettings, watched, blurred>>
    BY <1>3 DEF WriteMetrics
  <2>2. analyses' = {} /\ a.set = Decision(results, otherSettings, current)
    BY <1>0, <2>1 DEF Lone
  <2>3. testCase'.isQuarantined = Verdict /\ watched # << >>
    BY <1>0, <2>1, <2>2 DEF Verdict, Lone
  <2>4. Verdict <=> Holds(watched)
    BY <1>0, <2>1 DEF Faithful
  <2> QED BY <1>0, <2>1, <2>2, <2>3, <2>4 DEF Faithful
<1>4. CASE AnalysisFails
  BY <1>4 DEF AnalysisFails
<1>5. CASE Override
  <2>1. /\ ~blurred' /\ analyses = {}
        /\ UNCHANGED <<results, testCase, analyses, watched>>
    BY <1>0, <1>5 DEF Override, Faithful
  <2> QED BY <1>0, <2>1 DEF Faithful, Graded
<1>6. CASE StartRun \/ SaveSettings \/ UNCHANGED quarantineVars
  <2>1. UNCHANGED <<results, testCase, analyses, watched, otherSettings, blurred>>
    BY <1>6 DEF StartRun, SaveSettings, quarantineVars
  <2>2. Verdict' = Verdict
    BY <2>1 DEF Verdict
  <2> QED BY <1>0, <2>1, <2>2 DEF Faithful, Graded
<1> QED BY <1>1, <1>2, <1>3, <1>4, <1>5, <1>6 DEF QuarantineNext, QuarantineCodeNext

LEMMA QuarantineKept == QuarantineInv /\ [QuarantineNext]_quarantineVars => QuarantineInv'
<1> SUFFICES ASSUME QuarantineInv, [QuarantineNext]_quarantineVars PROVE QuarantineInv'
  OBVIOUS
<1>1. QuarantineTypeOK'
  BY QuarantineTypesStep DEF QuarantineInv
<1> QED BY <1>1, LoneKept, FaithfulKept DEF QuarantineInv

\* An analysis on its own makes the history whole, in every reachable state.
THEOREM QuarantineInvariant == QuarantineSpec => []QuarantineInv
<1> QED BY QuarantineStarts, QuarantineKept, PTL DEF QuarantineSpec

\* QuarantineFollowsResults in every state, for any length of the streak, any number of
\* runs and any overlap of them: the step-by-step grading of smart-analytics.service.ts
\* agrees with a reading of the whole history unless analyses overlap, fail or lose
\* their setting, and an analysis that is alone repairs what those have spoilt.
THEOREM QuarantineAlwaysFollows == QuarantineSpec => []QuarantineFollowsResults
<1>1. ASSUME QuarantineInv PROVE QuarantineFollowsResults
  <2> SUFFICES ASSUME analyses = {} PROVE QuarantineFollowsResults
    BY DEF QuarantineFollowsResults
  <2>1. ~blurred /\ watched # << >> => /\ Graded
                                       /\ Healing(Newest) => ~testCase.isQuarantined
                                       /\ Striking(Newest) => testCase.isQuarantined
    BY <1>1 DEF QuarantineInv, Repaired
  <2>2. ~muddled => Graded /\ (testCase.isQuarantined <=> Holds(watched))
    BY <1>1, <2>1 DEF QuarantineInv, Faithful
  <2>3. testCase.isQuarantined \in BOOLEAN
    BY <1>1, QuarantineKnown DEF QuarantineInv
  <2>4. (Holds(watched) <=> ShouldBeQuarantined) /\ ShouldBeQuarantined \in BOOLEAN
    BY DEF Holds, ShouldBeQuarantined
  <2> QED BY <2>1, <2>2, <2>3, <2>4 DEF QuarantineFollowsResults, Newest
<1> QED BY <1>1, QuarantineInvariant, PTL

----------------------------------------------------------------------------
(***************************** All the services *****************************)

\* The invariant of the service that moves.
ServicesInv ==
    /\ focus \in {"members", "subscription", "lock", "limiter", "sessions", "variables",
                  "scheduler", "quarantine"}
    /\ focus = "members" => MembershipInv
    /\ focus = "subscription" => SubscriptionTypes
    /\ focus = "lock" => LockInv
    /\ focus = "limiter" => LimiterInv
    /\ focus = "sessions" => SessionTypes
    /\ focus = "variables" => EnvInv
    /\ focus = "scheduler" => SchedulerTypes
    /\ focus = "quarantine" => QuarantineInv

LEMMA ServicesStart == Init => ServicesInv
<1> SUFFICES ASSUME Init PROVE ServicesInv
  OBVIOUS
<1>1. MembershipInv /\ SubscriptionTypes
  BY MembershipStarts, SubscriptionTypesStart DEF Init
<1>2. LockInv /\ LimiterInv /\ SessionTypes
  BY LockStarts, LimiterStarts, SessionTypesStart DEF Init
<1>3. EnvInv /\ SchedulerTypes
  BY EnvVarsStart, SchedulerTypesStart DEF Init
<1>4. QuarantineInv
  BY QuarantineStarts DEF Init
<1> QED BY <1>1, <1>2, <1>3, <1>4 DEF Init, ServicesInv

\* A step is one of the service that moves, and the service that moves stays the same.
LEMMA ServicesStep == ServicesInv /\ [Next]_vars => ServicesInv'
<1> SUFFICES ASSUME ServicesInv, [Next]_vars PROVE ServicesInv'
  OBVIOUS
<1>1. focus' = focus
  BY DEF Next, vars
<1>2. CASE focus = "members"
  <2>1. MembershipInv /\ [MembershipNext]_membershipVars
    BY <1>2 DEF ServicesInv, Next, vars
  <2>2. MembershipInv'
    BY <2>1, MembershipKept
  <2> QED BY <1>1, <1>2, <2>2 DEF ServicesInv
<1>3. CASE focus = "subscription"
  <2>1. SubscriptionTypes /\ [SubscriptionNext]_subscriptionVars
    BY <1>3 DEF ServicesInv, Next, vars
  <2> QED BY <1>1, <1>3, <2>1, SubscriptionTypesStep DEF ServicesInv
<1>4. CASE focus = "lock"
  <2>1. LockInv /\ [LockNext]_lockVars
    BY <1>4 DEF ServicesInv, Next, vars
  <2> QED BY <1>1, <1>4, <2>1, LockKept DEF ServicesInv
<1>5. CASE focus = "limiter"
  <2>1. LimiterInv /\ [LimiterNext]_limiterVars
    BY <1>5 DEF ServicesInv, Next, vars
  <2> QED BY <1>1, <1>5, <2>1, LimiterKept DEF ServicesInv
<1>6. CASE focus = "sessions"
  <2>1. SessionTypes /\ [SessionsNext]_sessionsVars
    BY <1>6 DEF ServicesInv, Next, vars
  <2> QED BY <1>1, <1>6, <2>1, SessionTypesStep DEF ServicesInv
<1>7. CASE focus = "variables"
  <2>1. EnvInv /\ [EnvVarsNext]_envVarsVars
    BY <1>7 DEF ServicesInv, Next, vars
  <2> QED BY <1>1, <1>7, <2>1, EnvVarsStep DEF ServicesInv
<1>8. CASE focus = "scheduler"
  <2>1. SchedulerTypes /\ [SchedulerNext]_schedulerVars
    BY <1>8 DEF ServicesInv, Next, vars
  <2> QED BY <1>1, <1>8, <2>1, SchedulerTypesStep DEF ServicesInv
<1>9. CASE focus = "quarantine"
  <2>1. QuarantineInv /\ [QuarantineNext]_quarantineVars
    BY <1>9 DEF ServicesInv, Next, vars
  <2> QED BY <1>1, <1>9, <2>1, QuarantineKept DEF ServicesInv
<1> QED
  BY <1>2, <1>3, <1>4, <1>5, <1>6, <1>7, <1>8, <1>9 DEF ServicesInv

\* TypeOK in every state, for any constants: each service keeps to its types and its
\* bounds.
THEOREM ServicesAlwaysTyped == Spec => []TypeOK
<1>1. ServicesInv => TypeOK
  BY SubscriptionTypesFit, SessionTypesFit, SchedulerTypesFit
  DEF ServicesInv, MembershipInv, LockInv, LimiterInv, EnvInv, EnvTyped, QuarantineInv, TypeOK
<1> QED BY <1>1, ServicesStart, ServicesStep, PTL DEF Spec

=============================================================================
