SPECIFICATION Spec
CONSTANTS
    ann = ann
    bob = bob
    acme = acme
    mailA = mailA
    mailB = mailB
    User = {ann, bob, dan, eve}
    Email = {mailA, mailB, mailD}
    Org = {acme, shop}
    Invitation = {i1}
    Role = {"admin", "viewer"}
    Founders <- MCFounders
    MaxMemberRequests = 3
    MaxHandlerFailures = 1
    Customer = {c1, c2}
    Sub = {s1, s2}
    Limit <- MCLimit
    MaxCalls = 2
    MaxEvents = 3
    MaxFaults = 1
    Attempt = {a1, a2}
    Threshold = 2
    Ttl = 2
    LockTime = 3
    MaxLogins = 5
    MaxExceptions = 1
    Slot = {r1, r2}
    MaxRequests = 2
    Window = 2
    LimiterTime = 5
    MaxArrivals = 5
    MaxErrors = 2
    Account = {ann, bob}
    Life = 2
    SessionTime = 3
    MaxIssued = 3
    MaxCrashes = 1
    EnvKey = {k1, k2}
    EnvValue = {v1, v2}
    EnvId = {e1, e2}
    MaxVars = 1
    MaxEnvCalls = 3
    Schedule = {t1, t2}
    MaxFires = 2
    MaxBoots = 2
    MaxLosses = 1
    Streak = 2
    MaxResults = 3
    MaxSwitches = 1
INVARIANTS
    TypeOK
    AdminKept
    InvitationAdmitsOnce
    PlanFollowsStripe
    UsedWithinPlan
    GuessesBounded
    WindowKept
    CredentialsEndAlone
    EnvVarsKept
    JobsFollowSchedules
    FiredRunsKept
    QuarantineFollowsResults
PROPERTY
    AdmittedWhilePending
CHECK_DEADLOCK FALSE
