------------------------------- MODULE Scheduler -------------------------------
(***************************************************************************)
(* The CRON schedules: a collection, the jobs a producer keeps for it in   *)
(* memory, the API that changes both, the start of the producer (which     *)
(* listens before it loads the jobs) and its crashes, and the runs that    *)
(* the jobs start.                                                         *)
(*                                                                         *)
(* Expressions are valid: POST refuses others.  A job fires at any time.   *)
(***************************************************************************)
EXTENDS Naturals, FiniteSets

CONSTANTS
    Schedule,      \* ids of schedules, never used again
    MaxFires,      \* bound: times a job fires
    MaxBoots,      \* bound: starts of the producer
    MaxLosses      \* bound: exceptions of MongoDB and of the broker

ASSUME SchedulerAssumption == MaxFires \in Nat /\ MaxBoots \in Nat /\ MaxLosses \in Nat

VARIABLES
    schedules,    \* the collection; isActive is true in all of it
    schedulesEver,
    creating,     \* POSTs between insertOne and addScheduledJob
    deleting,     \* DELETEs between deleteOne and removeScheduledJob
    boot,         \* the start of the producer: the phase, and the documents found
    activeJobs,   \* the jobs in memory
    firings,      \* fireSchedule in progress
    pendingRuns,  \* documents of runs, PENDING
    queuedRuns,   \* messages in the queue
    fired, boots, losses,
    orphaned,     \* history: deleted while the job was about to be registered
    unloaded,     \* history: the last start could not read the collection
    unsent        \* history: runs whose message failed

schedulerVars == <<schedules, schedulesEver, creating, deleting, boot, activeJobs, firings,
                   pendingRuns, queuedRuns, fired, boots, losses, orphaned, unloaded, unsent>>
requestVars == <<schedules, schedulesEver, creating, deleting>>
runVars == <<firings, pendingRuns, queuedRuns, fired, unsent>>

Run == [no : Nat, schedule : Schedule]

SchedulerTypeOK ==
    /\ schedules \subseteq schedulesEver /\ schedulesEver \subseteq Schedule
    /\ creating \subseteq schedulesEver /\ deleting \subseteq schedulesEver
    /\ boot \in [phase : {"down", "listening", "loading", "up"}, found : SUBSET Schedule]
    /\ activeJobs \subseteq schedulesEver
    /\ firings \subseteq [run : Run, stored : BOOLEAN]
    /\ pendingRuns \subseteq Run /\ queuedRuns \subseteq Run /\ unsent \subseteq Run
    /\ fired \in 0..MaxFires /\ boots \in 0..MaxBoots /\ losses \in 0..MaxLosses
    /\ orphaned \subseteq Schedule /\ unloaded \in BOOLEAN

SchedulerInit ==
    /\ schedules = {} /\ schedulesEver = {} /\ creating = {} /\ deleting = {}
    /\ boot = [phase |-> "down", found |-> {}]
    /\ activeJobs = {} /\ firings = {} /\ pendingRuns = {} /\ queuedRuns = {}
    /\ fired = 0 /\ boots = 0 /\ losses = 0
    /\ orphaned = {} /\ unloaded = FALSE /\ unsent = {}

Up == boot.phase # "down"
Loss == losses < MaxLosses /\ losses' = losses + 1

\* app.listen: requests are served from now on.
Listen ==
    /\ boot.phase = "down" /\ boots < MaxBoots
    /\ boots' = boots + 1
    /\ boot' = [phase |-> "listening", found |-> {}]
    /\ unloaded' = FALSE
    /\ UNCHANGED <<requestVars, runVars, activeJobs, losses, orphaned>>

\* initScheduler reads the collection; the error of a failed read is swallowed, and
\* the producer goes on without jobs.
FindSchedules ==
    /\ boot.phase = "listening"
    /\ \/ /\ boot' = [phase |-> "loading", found |-> schedules]
          /\ UNCHANGED <<losses, unloaded>>
       \/ /\ Loss
          /\ boot' = [phase |-> "up", found |-> {}]
          /\ unloaded' = TRUE
    /\ UNCHANGED <<requestVars, runVars, activeJobs, boots, orphaned>>

\* The jobs of what was found are registered; one that has a job is skipped.
RegisterFound ==
    /\ boot.phase = "loading"
    /\ boot' = [phase |-> "up", found |-> {}]
    /\ activeJobs' = activeJobs \cup boot.found
    /\ UNCHANGED <<requestVars, runVars, boots, losses, orphaned, unloaded>>

\* POST /api/schedules.
InsertSchedule ==
    /\ Up
    /\ \E s \in Schedule \ schedulesEver :
        /\ schedules' = schedules \cup {s} /\ schedulesEver' = schedulesEver \cup {s}
        /\ creating' = creating \cup {s}
    /\ UNCHANGED <<runVars, deleting, boot, activeJobs, boots, losses, orphaned, unloaded>>

AddScheduledJob ==
    /\ \E s \in creating :
        /\ creating' = creating \ {s}
        /\ activeJobs' = activeJobs \cup {s}
    /\ UNCHANGED <<runVars, schedules, schedulesEver, deleting, boot, boots, losses,
                   orphaned, unloaded>>

\* DELETE /api/schedules/:id.
DeleteSchedule ==
    /\ Up
    /\ \E s \in schedules :
        /\ schedules' = schedules \ {s}
        /\ deleting' = deleting \cup {s}
    /\ UNCHANGED <<runVars, schedulesEver, creating, boot, activeJobs, boots, losses,
                   orphaned, unloaded>>

\* Mutant of RemoveScheduledJob: the document is deleted, the job is not stopped.
KeepScheduledJob ==
    /\ \E s \in deleting :
        /\ deleting' = deleting \ {s}
        /\ orphaned' = IF s \in creating \cup boot.found THEN orphaned \cup {s} ELSE orphaned
    /\ UNCHANGED <<runVars, schedules, schedulesEver, creating, boot, boots, losses,
                   activeJobs, unloaded>>

\* A job that is registered after this stays until the producer stops.
RemoveScheduledJob ==
    /\ \E s \in deleting :
        /\ deleting' = deleting \ {s}
        /\ activeJobs' = activeJobs \ {s}
        /\ orphaned' = IF s \in creating \cup boot.found THEN orphaned \cup {s} ELSE orphaned
    /\ UNCHANGED <<runVars, schedules, schedulesEver, creating, boot, boots, losses, unloaded>>

\* The process stops, or is told to (stopAllJobs): what was in memory is gone.
StopProducer ==
    /\ Up
    /\ boot' = [phase |-> "down", found |-> {}]
    /\ creating' = {} /\ deleting' = {} /\ activeJobs' = {} /\ firings' = {} /\ orphaned' = {}
    /\ unsent' = unsent \cup {f.run : f \in {g \in firings : g.stored}}
    /\ UNCHANGED <<schedules, schedulesEver, pendingRuns, queuedRuns, fired, boots, losses, unloaded>>

\* A job fires: fireSchedule writes a PENDING document and then sends the task.
Fire ==
    /\ fired < MaxFires /\ fired' = fired + 1
    /\ \E s \in activeJobs :
        firings' = firings \cup {[run |-> [no |-> fired, schedule |-> s], stored |-> FALSE]}
    /\ UNCHANGED <<requestVars, boot, activeJobs, pendingRuns, queuedRuns, boots, losses,
                   orphaned, unloaded, unsent>>

StoreRun ==
    /\ \E f \in firings :
        /\ ~f.stored
        /\ pendingRuns' = pendingRuns \cup {f.run}
        /\ firings' = (firings \ {f}) \cup {[f EXCEPT !.stored = TRUE]}
    /\ UNCHANGED <<requestVars, boot, activeJobs, queuedRuns, fired, boots, losses,
                   orphaned, unloaded, unsent>>

\* Mutant of SendRun: the task is sent before its document is written.
SendUnstored ==
    /\ \E f \in firings :
        /\ queuedRuns' = queuedRuns \cup {f.run}
        /\ firings' = firings \ {f}
    /\ UNCHANGED <<requestVars, boot, activeJobs, pendingRuns, fired, boots, losses,
                   orphaned, unloaded, unsent>>

SendRun ==
    /\ \E f \in firings :
        /\ f.stored
        /\ queuedRuns' = queuedRuns \cup {f.run}
        /\ firings' = firings \ {f}
    /\ UNCHANGED <<requestVars, boot, activeJobs, pendingRuns, fired, boots, losses,
                   orphaned, unloaded, unsent>>

\* An exception is logged and swallowed; a stored document stays PENDING.
FiringFails ==
    /\ Loss
    /\ \E f \in firings :
        /\ firings' = firings \ {f}
        /\ unsent' = IF f.stored THEN unsent \cup {f.run} ELSE unsent
    /\ UNCHANGED <<requestVars, boot, activeJobs, pendingRuns, queuedRuns, fired, boots,
                   orphaned, unloaded>>

SchedulerNext ==
    \/ Listen \/ FindSchedules \/ RegisterFound
    \/ InsertSchedule \/ AddScheduledJob \/ DeleteSchedule \/ RemoveScheduledJob
    \/ StopProducer
    \/ Fire \/ StoreRun \/ SendRun \/ FiringFails

SchedulerSpec == SchedulerInit /\ [][SchedulerNext]_schedulerVars

----------------------------------------------------------------------------
\* When the producer has loaded its jobs and answers no request, there is one job
\* for each schedule and no other, although schedules come and go while the jobs
\* are loaded.  The exceptions: a schedule deleted between its insertion (or its
\* being found) and the registration of its job, until the next restart, and a
\* start that could not read the collection (schedules.ts, scheduler.ts).
JobsFollowSchedules ==
    /\ boot.phase = "up" /\ creating \cup deleting = {} /\ ~unloaded => schedules \subseteq activeJobs
    /\ boot.phase = "up" /\ creating \cup deleting = {} => activeJobs \subseteq schedules \cup orphaned

\* A run a job has put in the queue has its document, and a PENDING document that
\* has no message is being sent, or its sending failed or died with the producer.
FiredRunsKept ==
    /\ queuedRuns \subseteq pendingRuns
    /\ pendingRuns \subseteq queuedRuns \cup unsent \cup {f.run : f \in firings}

=============================================================================
