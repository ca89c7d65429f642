----------------------------- MODULE MCServices -----------------------------
(***************************************************************************)
(* Small instances of the services of the producer. They share no state    *)
(* (different collections, documents and Redis keys), so no step of one    *)
(* breaks a property of another, and exploring one of them at a time finds *)
(* every violation their product would.                                    *)
(***************************************************************************)
EXTENDS Membership, Subscription, LoginLock, RateLimiter, Sessions, EnvVars, Scheduler,
        Quarantine

CONSTANTS ann, bob, acme, mailA, mailB

VARIABLE focus   \* the service that moves

MCFounders == {[id |-> ann, email |-> mailA, org |-> acme, role |-> "admin"],
               [id |-> bob, email |-> mailB, org |-> acme, role |-> "admin"]}
MCLimit == [free |-> 1, team |-> 2, enterprise |-> 3]

Init ==
    /\ focus \in {"members", "subscription", "lock", "limiter", "sessions", "variables",
                  "scheduler", "quarantine"}
    /\ MembershipInit /\ SubscriptionInit /\ LockInit /\ LimiterInit /\ SessionsInit
    /\ EnvVarsInit /\ SchedulerInit /\ QuarantineInit

Next ==
    \/ /\ focus = "members" /\ MembershipNext
       /\ UNCHANGED <<focus, subscriptionVars, lockVars, limiterVars, sessionsVars,
                       envVarsVars, schedulerVars, quarantineVars>>
    \/ /\ focus = "subscription" /\ SubscriptionNext
       /\ UNCHANGED <<focus, membershipVars, lockVars, limiterVars, sessionsVars,
                       envVarsVars, schedulerVars, quarantineVars>>
    \/ /\ focus = "lock" /\ LockNext
       /\ UNCHANGED <<focus, membershipVars, subscriptionVars, limiterVars,
                       sessionsVars, envVarsVars, schedulerVars, quarantineVars>>
    \/ /\ focus = "limiter" /\ LimiterNext
       /\ UNCHANGED <<focus, membershipVars, subscriptionVars, lockVars, sessionsVars,
                       envVarsVars, schedulerVars, quarantineVars>>
    \/ /\ focus = "sessions" /\ SessionsNext
       /\ UNCHANGED <<focus, membershipVars, subscriptionVars, lockVars, limiterVars,
                       envVarsVars, schedulerVars, quarantineVars>>
    \/ /\ focus = "variables" /\ EnvVarsNext
       /\ UNCHANGED <<focus, membershipVars, subscriptionVars, lockVars, limiterVars,
                       sessionsVars, schedulerVars, quarantineVars>>
    \/ /\ focus = "scheduler" /\ SchedulerNext
       /\ UNCHANGED <<focus, membershipVars, subscriptionVars, lockVars, limiterVars,
                       sessionsVars, envVarsVars, quarantineVars>>
    \/ /\ focus = "quarantine" /\ QuarantineNext
       /\ UNCHANGED <<focus, membershipVars, subscriptionVars, lockVars, limiterVars,
                       sessionsVars, envVarsVars, schedulerVars>>

vars == <<focus, membershipVars, subscriptionVars, lockVars, limiterVars, sessionsVars,
          envVarsVars, schedulerVars, quarantineVars>>
Spec == Init /\ [][Next]_vars

\* The type invariant of the service that moves; the others are in an initial state.
TypeOK ==
    /\ focus = "members" => MembershipTypeOK
    /\ focus = "subscription" => SubscriptionTypeOK
    /\ focus = "lock" => LockTypeOK
    /\ focus = "limiter" => LimiterTypeOK
    /\ focus = "sessions" => SessionsTypeOK
    /\ focus = "variables" => EnvVarsTypeOK
    /\ focus = "scheduler" => SchedulerTypeOK
    /\ focus = "quarantine" => QuarantineTypeOK

=============================================================================
