SPECIFICATION Spec
CONSTANTS
    MaxChunks = 1
    MaxLooks = 2
    TypesOf <- MCTypesOf
    PeopleOf <- MCPeopleOf
    MaxSubmits = 1
    Conversation = {x1, x2}
    MaxQuestions = 2
    MaxVisits = 3
    MaxStages = 3
    TestCase = {q1, q2}
    MaxEditions = 2
    MaxOpenings = 2
    Flag = {f1}
    Provider = {p1, p2}
    MaxChanges = 2
    MaxTabs = 2
    MaxLostAnswers = 1
    Project = {j1, j2}
    Limits = {1, 2}
    MaxSaves = 2
    MaxLoads = 2
    MaxLostRequests = 1
    Env = {"development", "production"}
    MaxVersions = 1
    MaxQueries = 3
    MaxLaunches = 1
    Case = {z1, z2}
    Stepless = {z2}
    Step = {1}
    Verdict = {"PASSED", "FAILED"}
    MaxPlayers = 2
    MaxRefetches = 2
    MaxFailures = 1
    Suite = {u1, u2}
    LastRuns = 1
    CriticSays = {"unknown"}
    MaxSuiteRuns = 2
    MaxAnalyses = 1
    MaxPicks = 2
    MaxStabilityFaults = 1
    Failure = {w1, w2}
    MaxDrafts = 1
    MaxOutcomes = 1
    MaxEdits = 1
    MaxShows = 2
    Row = {y1}
    Label = {"nightly"}
    MaxViews = 1
    MaxTicks = 2
    MaxBulks = 2
    MaxElsewhere = 1
    MaxBulkFaults = 1
    Ci = {"github"}
    MaxMade = 2
    MaxTabLoads = 2
    MaxTabFaults = 1
    Repo = {g1, g2}
    Delivery = {d1}
    MaxTunings = 2
    PersonName = {"n1", "n2"}
    MaxKeys = 1
    MaxNames = 1
    MaxProfileVisits = 2
    MaxKeyFaults = 1
    Colleague = {b1}
    Rank = {"developer", "viewer"}
    MaxAsked = 2
    MaxInvited = 1
    MaxForms = 2
    MaxPageFaults = 1
    Shop = {h1, h2}
    MaxTabVars = 1
    MaxTyped = 2
    MaxActs = 3
    MaxVarFaults = 1
INVARIANTS
    TypeOK
    ViewSettles
    TicketsFit
    ChatKept
    PipelineScoped
    RecordsKept
CHECK_DEADLOCK FALSE
